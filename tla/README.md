# Specifications of ai-guest-list

TLA+ models of the engine (`src/acctsw`), the TLC runs that check them, and the
theorems TLAPS proves about them.  `PROJECT.json` lists components, runs,
mutants, the map from definitions to source lines, findings, hazards and
theorems.

The program keeps several Codex and Claude accounts ("seats") ready and moves a
running coding session to another seat when one reaches its limit.  It is a menu
bar app and any number of supervisors (`cx`, `cl`), separate processes that share

- one store, `~/.account-switcher/state.json`, read and written under an flock
  (`Context.locked`), so a read-modify-write is atomic and everything between
  two of them is not;
- Keychain items and credential files per seat, which the stock CLIs rewrite
  whenever they please;
- one heartbeat file per supervisor.

A `cl` supervisor also owns a TLS proxy in front of its child, with a thread per
request, so that the session can change seats without a restart.

## Inventory

| Component | Source | State | Operations | Interacts with | Hard part | What makes it correct |
|---|---|---|---|---|---|---|
| Seat proxy | `seatproxy.py` | bound seat, a thread per request (seat, tried keys), decide lock, stall | handle, replay, follow, ask, bind | upstream, child, launcher (decide callback) | parallel requests, broken sockets, a launcher that never answers | a request reaches upstream once per credential; every request is answered |
| In-place swap | `seatswap.py`, `launcher.py` (`_tick_swap`, `_on_hit`, `_hop_in_place`) | open asks, closed, bound seat, heartbeat, hop budget | decide, answer, bind, pick, maintain, stop | proxy threads, the launcher's tick, heartbeat | two threads bind; two timers | one hop per burst; heartbeat = billed seat; no helper left |
| Crossings | `seatkind.py`, `switch.py`, `launcher.py`, `bridge.py` | approvals with uses, open questions, per session: asked, pending, decision in progress | request, approve, deny, consume, chosen, withdraw | every session, the app | decide now, commit later; several sessions share an answer | no move without a valid yes; whoever waits is asked |
| Paid-seat consent | `handoff.py`, `launcher.py` | a record per offer, settings, the launcher's progress | request, answer, pending, resolve, withdraw | launcher, app | late clicks, kill switch, crash between steps | no paid child without consent, none after the kill switch |
| Run loop | `launcher.py` | decision, budgets, waits, child | decide and stop, relogin, recover, wait | all of the above | the user changes the store while the child is being stopped | a session that gives up leaves the user's choice alone; it resumes when a seat is back |
| Selection | `selection.py` | none (reads the store) | choose, choose_key, crossing_candidate | launcher, bridge | ties, clocks | never a resting seat |
| Tiers | `seattier.py` | allowed pairs, open requests | request, approve, deny | launcher, app | as crossings | no in-place hop across tiers unasked |
| State store | `state.py`, `context.py`, `engine.py` | `state.json`: revision, engine stamp | load, save, lock | everything | engines of different age | revision rises, the floor never falls |
| Session registry | `session.py`, `appalive.py` | heartbeat per process, legacy mirror, claimed threads | mark, clear, read, prune, request_end | launcher, app, switch | process ids are reused; readers prune | a live session is never lost, a dead one never revived |
| Terminal supervision | `launcher.py` (`pty_spawn`, `pipe_spawn`, `_terminate`) | handlers, a signal kept for later, the terminal's mode, the PTY | copy, stop, hand back | child, terminal, signals | a signal or the child's end in the middle of a stop | the terminal is restored, no child is left unkilled |
| Usage polling | `usage.py`, `bridge.py` | usage and backoff per seat | prepare, fetch, commit, recover a parked login | app, launchers, seats' tokens | slow calls outside the lock | no stale result is committed; a lost race is no revocation |
| Claude convergence | `claudesync.py` | what was seen and proven per item | converge, quarantine | Keychain, CLI | no compare-and-swap | the newest token of an account survives |
| Claude homes | `claudehome.py` | home, baseline, canonical config, lock directory | merge, prepare, keep_warm, sync_back | Claude's own lock | three files, stale locks | no edit is lost |
| Codex homes, switch | `codexhome.py`, `switch.py`, `credlocations.py` | mirror, private homes, active pointer | sync_back, switch, save, load | child, GUI | a child rotates its tokens | a rotated token is not overwritten by an older one |
| Key seats | `keyseats.py`, `keyhome.py`, `keyprove.py`, `providers.py`, `pricing.py` | metadata, secrets, private homes | add, remove, prepare, pin | launcher, app | removal during use | a paid run uses the seat that was agreed to |
| App-server client | `appserver.py` | pending ids, responses, event buffer | send, wait, next_event, close | child | late answers, full buffer | a limit signal is never dropped |
| Codex daemons, process records | `codexhome.py`, `daemonprocs.py` | pid file, socket, startup lock, releases | heal a stale socket, reap orphans, collect releases | stock Codex, process table | ids are reused; a daemon starts while it is declared dead | no living daemon is signalled, no release in use removed |
| Headroom migration | `headroom.py` | routing, proxy, backup | cleanup | launcher, uninstall | interrupted half way | backup outlives incomplete runs |
| Sign-in, exec jobs, install, bridge/CLI, UI, scripts | see `PROJECT.json` | | | | | |

## Modules

Twelve runs share these modules.  `MC…` modules instantiate them; `…Proofs` hold their
theorems: `SeatProxyProofs`, `SeatSwapProofs`, `CrossingsProofs` and `HandoffProofs` those of
the module of that name, `LoginsProofs` those of `CodexLogins`, `ClaudeLogins` and `ClaudeConfig`,
`SupervisionProofs` of `RunLoop`, `Spawn` and `SessionRegistry`, `ServiceProofs` of `Headroom`,
`Daemons` and `AppServer`, `ComponentsProofs` of the two runs that put these nine together.

| Module | Models | State and actions in the code |
|---|---|---|
| `ReplayContract` | the docstring of `seatproxy.py` | abstract: `Forward`, `Refused`, `Respond` per request |
| `SeatProxy` | `SeatProxy._handle`, `_next_seat`, `_ask` | a thread's `pc`: `send` before `conn.request`, `wait` for `getresponse`, `hit` before the decide lock, `asking` inside `_ask`, `relay` once the reply started. `Bind` and `Answer` are an unconstrained owner |
| `SeatSwap` (extends `SeatProxy`) | `SeatSwap` and the launcher's in-place tick | `Helper` is `_decide` on its thread; `lpc` is the launcher between reading the hit, answering, binding and marking the heartbeat |
| `Crossings` | `seatkind`, the launcher's moves, clicks, the app's handoff | an action per locked write; `hop` and `stopping` lie between a decision and its commit; `mark` between the commit and `mark_session`; `clearing` between `withdraw` and `clear_session` |
| `Handoff` | `handoff.py` and the launcher's paid seat | a record per launcher; four places between the consumed approval and the spawn, one per `_key_approval_current` |
| `CodexLogins` | `switch.py`, `codexhome.py`, `authflows.signin`, `usage.refresh_live` and its parked-login renewal | `home`, `mirror`, the store's fields; a supervisor goes `launching`, `launched`, `starting`, `running`, `hopping`, `cleared` (one place per lock of `run()`); a poll has a place per read, lock and request; `storeLock` is the flock between a look at the sessions and the copy it allows |
| `ClaudeLogins` | `claudesync.py`, `accounts.py`, `switch.py`, `authflows.signin` | the Keychain items, the snapshots, the tracker; `conv` is one `_converge`: scan, ask, group, look and write item by item, follow up; `op` is a switch or sign-in: `reconcile_claude`, the second read and the filing of `sync_back`, the landing |
| `ClaudeConfig` | `claudehome.merge_config` and `_config_lock` | canonical config, a home's config and baseline; a merge has a place per file it reads or writes |
| `SessionRegistry` | `session.py` | a process's place in `mark_session` and `clear_session`, the files by the launch that wrote them, one reader that prunes, one `request_end` |
| `RunLoop` | `launcher.run()`: the ticks, `_decide_and_maybe_stop`, `_undo_realign`, `_wait_for_unlock`, the exit paths | `loop[k]` is the supervisor's locals (`hit`, `switches`, `failed`, ...) and its place |
| `Spawn` | `pty_spawn`, `pipe_spawn`, `_terminate` | handlers, `terminating`, `pending_signal`, the terminal's mode, the master end |
| `Daemons` | `codexhome.py` 150-521, `daemonprocs.py` | processes by id and life, pid file, socket, releases; the startup lock by the inode each starter has open; one maintenance at a time, its look at a process and its signal two steps |
| `AppServer` | `appserver.py` | the reader's queue, `_events`, `_plain`, `dropped_events`, the caller's one wait |
| `Headroom` | `headroom.py` | the three routed files, backup, venv, pid file, proxy; one removal, which goes through the files once to unroute and once per scan; one old build |

The parts meet in the store.  `CodexLogins` composes clicks, supervisors and polls over
it; `RunLoop` composes supervisors over the pointer and the rests; `SeatSwap` composes
launcher, helper and proxy.  `Crossings` and `Handoff` are what a supervisor asks
the user, and `MCHandoff` runs `Handoff` beside `RunLoop` to check liveness of both.

What is abstracted, beyond formatting and logging:

- `SeatProxy`: a seat is an (email, token) pair; the client's own login counts as
  one credential, under both names it has (`Home`, `Open`).  Plain requests to
  other paths are members of `Requests \ Inject`.  Upgrades and tunnels are left out: they
  carry no seat token and are not replayed.
- `SeatSwap`: `pick` and `maintain` choose any seat their guards allow; whether a
  token is fresh enough is the choice.  The child is not restarted (`set_home`).
  `SwapStallEnds` waits for the helper: the stall is as long as the helper's own
  wait, which began earlier.
- `Crossings`: `Landings` is any approved seat that does not rest, where the code
  takes the best.  `SeeClick` merges the read of the click with the locked
  question; realigning the active pointer and putting it back in one locked
  write (`DecideAsk`) nets to no change.  A question's twelve-hour expiry is left
  out: it only hides it.  `KeepChild` stands for every way a decided move ends in
  no hop.  `Charged` counts moves by a rule of its own (`NeedsYes`), so a
  mistake in `Crosses` or `Consumed` shows as a negative balance.
- `Handoff`: everything but the setting that makes a key seat eligible (a
  subscription seat came back, the key was edited, another terminal took it) is
  the flag `exhausted`.  A launcher offers once per run (`key_attempted`), so it has at most one
  record.  `EditOff` is another engine writing the setting without the withdrawal.
- `CodexLogins`: a login is the number of the renewal that issued it; only the newest can
  renew.  Any access token may have expired.  What a reading says is left out, whose it
  is and when it was asked for is kept.  A mirror that holds nobody's login is `Blank`.  A poll
  may be refused a login that is good (`usage.py:207` takes any 400 or 401 for a revocation);
  `spurned` is the history of that.  Not among the writers of readings: the supervisor's own look
  at a seat that hit its limit, `launcher._probe`, which stores the answer unchecked
  (`launcher.py:2231-2234`); `ReadingIsTheSeats` and `ReadingsInOrder` speak of the polls.
- `ClaudeLogins`: a login is its owner and a number; `Expiry` gives two of them one
  `expiresAt`.  Claude Code writes any item between any two steps of ours.  Whether
  `reconcile_claude` gets an answer and what its tracker knows is a choice; that its last read of
  the stock item and its own writes are one step is not the code's doing, but what falls between
  them falls in `sync_back`'s window too.  Homes were filled once (`prepare` of a new store is left out).
- `ClaudeConfig`: one shared setting, its values numbered as they are chosen, so that no two
  choices are equal.  A child may write a home at any time, also while it is merged.
- `SessionRegistry`: an inode is its content.  Comparing an inode and unlinking it are one
  step, and so are `request_end`'s last read and write.
- `RunLoop`: every hop is a restart within one kind; the preflight of a landing is a
  step that may fail.  A probe files its answer in one locked write and decides in the next
  (`Probed`, `Judged`).  Claude's conversation must be identified before a stop, Codex resumes the
  last one of its home (`Resumable`); the thread id an exec job needs is left out.  `was` and `moved` are history: the pointer before the last decision,
  and whether somebody else wrote since.
- `Spawn`: SIGTERM and SIGHUP are one signal; handlers are installed and restored in one
  step.
- `Handoff`: a preparation that fails does so after the check at its start (`PrepareFails`); one
  that fails before it ends the same way.
- `Headroom`: looking at the proxy and signalling it are one step.

External, modelled from how the code uses them: the provider (which login is
spent, when a seat has quota), Claude Code (renews any item, may sign in anywhere; keeps
its config lock while it writes), stock Codex (opens the startup lock, locks it when it can, without comparing inodes, holds it until its pid
file is written, keeps the socket lock from bind to listen), the old build with Headroom (holds
the operation lock), the app server (sends any line).

## Runs

| Run | Instance | Shows |
|---|---|---|
| `SeatProxy` | a message and a plain request, 2 borrowed seats and home, 3 tries, fairness; the owner binds and answers anything | refinement of `ReplayContract`, at most once per credential, 401s fail open, every request is answered |
| `SeatSwap_owner` | 2 messages, 2 seats, 2 tries, 1 hop, clicks and maintenance | the owner is an owner in `SeatProxy`'s sense; one question and one helper at a time; a burst hops once |
| `SeatSwap_heartbeat` | 2 messages, 2 tokens of one seat, another seat, 1 hop, no clicks, no maintenance, fairness | heartbeat = billed seat while only hits move the session; helpers return |
| `Crossings_consent` | two parts: 1 session, 2 clicks, every choice of the user, a business seat and one of unknown plan; 2 sessions, 1 click, approvals for once | no move without a yes that is still good; the way home; sharing and counting down an approval |
| `Handoff` | two parts: 2 launchers that offer; 1 loop that waits; fairness | consent, kill switch, late clicks, aborts; invitations end; paid use stops; a session that can move does |
| `Components` | ten parts, below | Claude logins, homes, sessions, loops, daemons, the app server, the removal, the terminal |
| `Components_codex` | the two Codex parts, below | logins, readings, revocations |
| `SeatSwap_overtaken`, `Crossings_silent`, `RunLoop_stop`, `Spawn_signal`, `ClaudeLogins_window` | 1 or 2 of each | violated, see Findings |

`MCComponents` runs one part per behaviour, of those `Parts` names; the others stay in their initial state and
share nothing with it.  `ComponentsProofs` shows that such a behaviour is one of the part's own
specification, so a theorem about a part holds of the run.

| Part | Instance | Properties |
|---|---|---|
| `codex sessions` | 2 seats, a supervisor and a poll with one request, 2 acts (polls while at most one act was made), one renewal per seat | `ChildKeepsItsLogin`, `RevocationIsProven`, `ReadingIsTheSeats` |
| `codex polls` | 2 seats, 2 polls, 1 act, a good login refused at most once and before any act | `ReadingsInOrder`, `ReadingIsTheSeats`, `RevocationIsProven` |
| `claude` | 2 seats and the stock item, 2 renewals, 2 acts, at most one unanswered profile, and that after one act | `SnapshotGetsItsOwn`, `RenewalSurvives` |
| `config` | 2 homes, 2 choices | `ChoicesSurvive` |
| `registry` | 2 process ids, one used twice and one of an old engine, 2 marks; reader or ender idle | `SessionIsSeen`, `OldSessionIsSeen`, `EndReachesItsLaunch` |
| `loop` | 1 supervisor of either tool, 2 seats, 2 acts of each kind, 1 restart | `LimitStopContinues`, `BorrowedPointerIsReturned` |
| `two loops` | 2 Codex supervisors, 1 act | the same, between supervisors |
| `daemons` | 2 ids, one used twice, 2 lock files, no updates; no reaping once a starter holds an unlinked lock | `LivingAreSpared` |
| `releases` | 2 ids, 2 releases, collections | `ReleasesInUseStay` |
| `app server` | 4 lines, 1 request, a buffer of one | `SignalsAreKept` |
| `headroom` | one file at a time unreadable, otherwise the whole of it | `RemovalIsSafe` |
| `spawn` | the whole of it, finite without bounds | `NothingIsLeftBehind` |

Bounds.  `MaxTries` is `MAX_TRIES` (8 in the code).  Three tries for three
credentials: a message can use every credential, come back to one (prevented) and
exhaust its budget.  One message is enough in `SeatProxy`, whose owner moves the
binding as other requests would; two are the smallest burst and are in the
`SeatSwap` runs; the proofs cover any number.  `MaxHops` is the in-place budget,
`MaxSwitches` the restart budget.  `MaxClicks` and `Choices` bound what the user does; each
kind of choice is enabled in some run, and `CrossingsProofs` covers all of them for any number of
sessions, seats and clicks.  `Rest`, settings and answers are otherwise unbounded.
One renewal per seat already makes a copy stale; a seat added twice is the smallest
incarnation a late answer can miss; two polls are the fewest whose answers can pass each
other; two lives of one process id are a reuse; two loops are the fewest that can take
the pointer from each other.  `codex sessions` lets a poll run only while at most
one act was made, because the races it is in need one (a removal, a sign-in or a renewal); `claude` allows
one unanswered profile, the fewest that leave a group without a known owner.  Two lock files are
the one that was unlinked and the one after it.  In the Codex parts a poll waits for whoever holds
the store lock.  Every
property of `Components` and `Components_codex` is proved without these bounds.  `CodexTypeOK` is
proved only; `PartsTypeOK`, which contains it, is checked for the other parts.  Deadlock is checked in the runs of the proxy and of crossings; the others
really stop: launchers and loops end, and counters run out.

Fairness.  Proxy threads run, sockets answer or break within their timeouts, and
`threading.Event.wait` has a timeout, hence weak fairness per thread step; none
on `Bind`, `Answer`, `Begin`.  The helper has `Condition.wait_for` with a timeout;
the launcher, which may hang in a Keychain call, has none.  In `Handoff` time
passes and a launcher polls and ticks on its heartbeat; the user is never fair.
A launcher that crashed is not polled: its place is `crashed`.  `LoopFairness`: the
steps of a decision follow each other and a block has an end (weak); `TickState` and
`TickRecover` are each called on every heartbeat, but another tick may make the step
impossible in between, so they are strongly fair.

Every property of a passing run has a mutant, an operator beside the definition it
changes (a dropped guard, a forgotten reset, an off-by-one), which makes the run fail.

## Findings

1. `HeartbeatIsBilled` (`SeatSwap_overtaken`).  `_next_seat` binds the answer again
   on the proxy's thread (`seatproxy.py:804`) after `SeatSwap.answer` bound it on
   the launcher's.  A click bound in between is overwritten: requests go out on
   the old answer's seat, heartbeat and app name the clicked one.
2. `HeldBackSessionIsAsked` (`Crossings_silent`).  Two sessions wait on the same
   crossing, *switch now* closes both questions and moves one; the other has
   asked before (`crossing["requested"]`) and does not ask again, against
   `README.md:67-69` and `seatkind.py:195`.
3. `StoppedChildContinues` (`RunLoop_stop`).  Deciding on dead credentials corrects the
   active pointer in memory (`launcher.py:2428-2430`) and saves it only for a revoked
   refresh (2437).  The check after the child's exit (3527) takes the uncorrected
   pointer for somebody's switch and ends the session that was stopped to be moved, against
   `launcher.py:2406` and `tests/test_launcher.py:583-585`.  A stop for a limit
   saves it in the same write as the rest, and `LimitStopContinues` is proved.
4. `SignalIsObeyed` (`Spawn_signal`).  `pipe_spawn` forgets a signal that comes while it stops
   its child for a move (`launcher.py:1075`) and the job is relaunched; `pty_spawn` keeps it
   (895, 983-986), and `launcher.py:1018` promises the same contract.
5. `SnapshotIsOwn` (`ClaudeLogins_window`).  For Claude, `sync_back` has the owner of the stock
   item proven and then reads the item again (`switch.py:51`) and files it under the active seat
   (59); the check between them (57) cannot fire, for a Claude blob names no account.  A `/login`
   between the two reads leaves another account's login in the seat's snapshot, against
   `switch.py:28-29`.  `SnapshotGetsItsOwn` says that it happens in no other way.

Windows the code leaves open.  The models take these steps too, and a variable records who came
through; the property leaves exactly those out and is proved for everybody else.

| Property | Left out | What happens there |
|---|---|---|
| `ChildKeepsItsLogin` | `storeLock.late` | `sync_back` looks for a running child (`switch.py:45`) and copies the mirror over its home (59) under the lock, but heartbeats are written without it (`launcher.py:2738`): a child that starts and renews in between finds its older login put back, which `switch.py:47-49` is to prevent |
| `RenewalSurvives` | an item that changed since `claudesync.py:202-203` read it | `set_live` (206) overwrites a renewal written in between; `claudesync.py:13-14` calls it a documented race |
| `ChoicesSurvive` | `overrun` | `merge_config` reads the home's config (`claudehome.py:221`), merges, and writes it (246); an edit of a second terminal's child in between is overwritten unmerged, though concurrent edits are to merge (`claudehome.py:18`) |
| `RemovalIsSafe` | `missed` | `headroom.py:615` reads every file for our routing, and then every file again for whether it can be read: a routed file that was unreadable the first time only is called clean and its proxy stopped (609-613) |
| `LivingAreSpared` | `split`: nothing is claimed of names | a repair unlinks the startup lock it holds (`codexhome.py:334`); a starter that has the old file open locks it unseen, and the next repair, holding the new file, takes the pid file or the socket of the daemon that is starting (52-54). It rests on the stock starter not comparing inodes, which the repository does not know (`docs/ISSUES-codex-0.157-daemon.md:93`) |
| `LivingAreSpared` | a process that got the id since the look | the list is read again before each signal, and an id may pass to another process in between (`codexhome.py:411-412`) |

Two more follow from steps of the models and contradict a comment, without a run: the
proxy gives up on its own timer (`seatproxy.py:824`), and until the helper's equally long, later one ends
too, an answer is accepted for a request whose refusal already went to the child
(`seatswap.py:15-16` says it is refused); and `run()` withdraws the session's questions
before it clears the heartbeat (`launcher.py:3579`), so a click in between raises one for the ended
session (`seatkind.py:187`).

Seen while modelling, not shown by a run because they lie in a step the models take
as one, or need a value to recur: the old build can
start the Headroom proxy and die before it writes the pid file, and then nothing stops
that proxy; a stock item that failed to be written is retried as the login it held then
(`claudesync.py:145-149`, 193-195), which may by then be the older one; a
merge that crashed takes a value that was chosen, changed and chosen again for
unchanged; a signal between `setraw` (`launcher.py:872`) and the handlers (906) leaves
the terminal raw and the child alive; the wait for a child whose output has
ended is one without ticks; `launcher._probe` stores a reading under a seat that may have been
signed in again or removed and added since the request was sent.

## Proofs

Checked by TLAPS for every value of the constants, under the assumptions the
modules name.

- `SeatProxyProofs`.  `TypeOK`, `AtMostOncePerCredential`, `Borrowed401FailsOpen` and
  `OneQuestionAtATime` follow from one inductive invariant.  None of the last
  three is inductive: a request was sent at most once per credential because a
  credential it was sent on is in `tried` and is the current seat's, or it is
  about to be sent on a seat just added to `tried`; so the invariant says for
  each place of a thread which credentials have been used.  `ImplementsContract`
  maps each action to a step of `ReplayContract` or a stutter.
- `SeatSwapProofs`.  The invariant ties helper, ask, box, decide lock and stall
  together: an open question has a running helper or an answer in its box.  From it follow
  `OneHelper` and that every step is a step of `SeatProxy` or leaves it alone
  (`SwapIsAProxyOwner`), which carries `SeatProxyProofs` over to the composition
  (`SwapAtMostOnce`).  `HopsLeaveTheHitSeat` needs that from reading a hit to its binding no
  answer of an earlier decision waits to be bound (`HopInv`).  `HeartbeatsAreBilled` assumes
  `Moves = {}`, no clicks and no maintenance: with either it is false (finding 1).  Its
  invariant names the seats that may still be bound: all are of the billed email, except a hop's.
- `CrossingsProofs`.  `ConsentCoversEveryMove` needs that for each direction the moves
  allowed are the uses left in the store (`UsesAreAllowed`), which in turn needs the
  types, and that a move in progress is one to another seat (`JobOK`).
- `HandoffProofs`.  Consent: an approved record has a yes, and a launcher past its
  poll consumed an approved one.  Kill switch: a revoked record is no longer
  open.  No invitation left: a launcher that ended consumed its record.  `LateClick`
  goes through the actions that write records: a refresh leaves a question open only
  if its launcher lives and it is not overdue.
- `LoginsProofs`, Codex.  `CodexInv`: no copy of a login, in a home, in the mirror or in the
  hands of a poll, is newer than what was issued; a poll that was refused holds a
  login that is spent or was `spurned`, and one that renewed holds the old and the new; and a poll that found
  no session has been told of every session since.  The last is what makes
  `ChildIsSafe` true: who copies the mirror over a home found no child running when it took
  the lock, and `storeLock.late` names those that started since, the ones the property leaves
  out.  `RevocationIsSound` needs that the refused login is still the one in the
  home; it may be refused for being spent, or for nothing (`spurned`).  `ReadInv`: no copy of a login is older than its
  seat's last sign-in, for a sign-in replaces them all and outdates every poll; so a poll that
  read the login again and was told of no save since holds one that may be stored,
  which gives `ReadingsAreCurrent` and `LaterAnswersStay`.
- `LoginsProofs`, Claude.  A convergence asks whose login an item is and writes much later, so
  `SnapshotsGetTheirOwn` needs the owner carried from the answer to the write: an item that was not
  asked about still shows what the tracker saw, what the tracker saw under a known owner is that
  owner's, and only items with a known owner are in the group; and a sync-back that is still to file has seen
  the active seat's own login in the stock item (`SwitchIsProven`).  `RenewalsSurvive` follows from
  the first, from what a look has seen of the item it will write (`TargetWasSeen`)
  and from `ExpiryGrows` (a later renewal never expires earlier), the one assumption on the
  provider: the code ranks logins by `expiresAt` (`claudesync.py`).
- `LoginsProofs`, homes.  `ChoicesAreKept` needs that what a merge read of its home is there until it writes or a choice was made since
  (`overrun` names those that are then lost), that the canonical value is as read while the lock is ours, and that nothing is
  numbered beyond the last choice.
- `SupervisionProofs`, run loop.  `LoopInv` says for each place of a supervisor what the pointer is
  unless somebody `moved` it: outside a decision what it `was`; during one perhaps the seat the child
  is billed to; and from the decision to the stop for a limit exactly that.  It speaks of one
  supervisor and the store, so another one's step matters only by what it writes.  `LoopTypes`
  includes the restart budget, which is looked at in a decision and spent at its commit: every
  place between the two has a restart left (`Budgeted`).
- `SupervisionProofs`, terminal.  `NothingLeft` needs that the handlers stay installed from the loop
  to the clean-up, so that no signal kills a supervisor that is stopping, that a stop that began
  is carried through, and that at each of its places the child has at least the signal
  that place has sent.
- `SupervisionProofs`, registry.  A record is of one life of a process id and names nothing that life
  has yet to do, so what a reader found dead is dead when it is unlinked (`FilesKnown`,
  `ReaderKnown`), which gives `SessionsAreSeen`.  `OldSessionsAreSeen` needs that the older
  engine's record has its second name before anybody takes the first; `EndsReachTheirLaunch`
  that a request names a life that has marked itself.
- `ServiceProofs`, daemons.  Until a starter takes a lock file that was unlinked (`split`)
  there is one daemon at a time (`OneDaemon`): from its start to its
  end the startup lock or the pid file names it, the healer is alone while it holds that lock,
  and a name may outlive its process but is then no living one's.  After that nothing is claimed
  of socket and pid file.  Who was looked at before a signal is an orphan until it ends
  (`LookIsOrphan`), so only a process that got the id since can be signalled in its place; that
  holds with or without `split`.  From these follow `TheLivingAreSpared` and, as a collection holds off the updater, `ReleasesStay`.  `LockNames`
  assumes that no process id is the word for a free lock.
- `ServiceProofs`, app server.  What is taken, buffered and unread, in a row, is what was
  sent without answers and dropped plain notifications; a line moves along the row or leaves it
  from the middle.  The lemmas on rows and on a sequence without one element do the rest.
- `ServiceProofs`, Headroom.  `SafeRemoval` needs that every routed file behind the first scan is one it could not read,
  that every one behind the second is among those (`missed`), and, before the venv goes, the proxy down; that an old build at work has the backup and
  the venv and holds the lock; and that a running proxy has a pid file.
- `ComponentsProofs`.  `PartsAreTheirSpecs` is the refinement of the nine parts by the specification both
  runs are of: step by step, one part moves by an action of its own and the others
  stutter.  `PartsTypes` follows.

Every invariant and action property of a passing run is a theorem.  Model-checked only are the
liveness properties (`EveryRequestAnswered`, `HelperEnds`, `WaitEnds`, `PaidUseStops`,
`StuckSessionMoves`), which rest on fairness and so on ENABLED, out of the prover's reach.

## Not modelled

- Plan tiers (`seattier.py`): approvals as in `seatkind`, without counts and directions;
  `Crossings` shows the harder half.
- The engine stamp (`state.py:156`, `writer_block`): its floor is a maximum taken in one
  locked write.  Everything else of the store is in the modules that use it.
- Key seats' own files, proofs and prices, usage endpoints and their windows, rollout logs,
  transcript ids: parsing and network I/O.
- Exec jobs beyond the supervision of their child; repair of wedged supervisors; home
  promotion and address migration in `codexhome.py` (whose look at the running sessions and
  whose move are not one step, `launcher.py:1493-1508`, `codexhome.py:616-643`); linking and
  keep-warm of Claude homes.
- Certificates, wrappers, installation, the menu bar app, its web UI and the build scripts, which
  have no protocol to check.

## Plan

Next, most important first: a module for
the tiers in the in-place hop; the probe's store beside the polls of `CodexLogins`, and the
home promotion; the lock of `ClaudeConfig` with separate steps for finding it stale and
taking it; the key seats' pinning.
