----------------------------- MODULE CodexLogins -----------------------------
(***************************************************************************)
(* The logins of the Codex seats and who may write them: every seat's      *)
(* private home (codexhome.py), the mirror ~/.codex the stock tool uses,   *)
(* switch(), sync_back() and reconcile_codex() that copy between them, the *)
(* supervisor whose child renews its login in place, and the usage polls   *)
(* that read logins without the lock and renew those of parked seats.      *)
(*                                                                         *)
(* A login is its number: each renewal spends the refresh token of one     *)
(* login and issues the next one, so only the newest number can renew.     *)
(***************************************************************************)
EXTENDS Integers, FiniteSets

CONSTANTS CodexSeats, Supervisors, Pollers,
          MaxLogin,    \* bound: logins issued per seat
          MaxAdded,    \* bound: times a seat is added
          MaxAttempt,  \* bound: usage requests
          MaxTurns     \* bound: acts of the user, of the stock tool and of the clock

ASSUME CodexBounds == /\ MaxLogin \in Nat /\ MaxAdded \in Nat \ {0}
                      /\ MaxAttempt \in Nat /\ MaxTurns \in Nat

NoSeat  == "no seat"
NoLogin == -1
ASSUME NoSeatIsNoSeat == NoSeat \notin CodexSeats

VARIABLES
  issued,     \* the provider: the newest login of each seat
  home,       \* the login in each seat's private home, or NoLogin
  mirror,     \* the login in ~/.codex/auth.json and whose it is
  known,      \* the registered seats
  added,      \* added_at of each seat: which of its registrations this is
  active,     \* the active seat
  loggedOut,  \* stock_logged_out: the user signed the stock tool out
  revoked,    \* auth_error of each seat
  reading,    \* the stored usage of each seat: last attempt, and for whom it was made
  captured,   \* history: the login of each seat's last explicit sign-in
  turns,      \* acts of the user and the world so far
  attempts,   \* requests made so far; a later request has a larger number
  sup,        \* the supervisors: place, seat of the child, seat of the heartbeat
  poll,       \* the polls of usage.refresh_live
  storeLock,  \* the store lock between a look at the sessions and the copy it allows; history:
              \* the seats that got a heartbeat in between
  spurned     \* history: the logins the provider refused although they were the newest

storeVars == <<known, added, active, loggedOut, revoked, reading, captured>>
loginVars == <<issued, home, mirror>>
codexVars == <<storeVars, loginVars, turns, attempts, sup, poll, storeLock, spurned>>

Login  == 0..MaxLogin
Logins == Login \cup {NoLogin}
Mirrors == [seat: CodexSeats, login: Login] \cup {[seat |-> NoSeat, login |-> NoLogin]}
Blank   == [seat |-> NoSeat, login |-> NoLogin]
NeverRead == [attempt |-> 0, added |-> 0, login |-> NoLogin]

SupPlaces  == {"off", "launching", "launched", "starting", "running", "hopping", "cleared"}
PollPlaces == {"idle", "looked", "observing", "prepared", "read", "post", "renewed",
               "invalidated", "fetch", "fetched", "before", "reread"}

IdleSup  == [at |-> "off", seat |-> NoSeat, mark |-> NoSeat]
NoHolder == [by |-> "nobody", copy |-> FALSE, late |-> {}]
IdlePoll == [at |-> "idle", seat |-> NoSeat, added |-> 0, active |-> FALSE,
             login |-> NoLogin, new |-> NoLogin, running |-> FALSE, attempt |-> 0,
             current |-> FALSE]

CodexFresh ==
  /\ issued = [s \in CodexSeats |-> 0]
  /\ home = [s \in CodexSeats |-> 0]
  /\ known = CodexSeats /\ added = [s \in CodexSeats |-> 1]
  /\ active = mirror.seat /\ loggedOut = FALSE
  /\ revoked = [s \in CodexSeats |-> FALSE]
  /\ reading = [s \in CodexSeats |-> NeverRead]
  /\ captured = [s \in CodexSeats |-> 0]
  /\ attempts = 0 /\ turns = 0
  /\ sup = [k \in Supervisors |-> IdleSup]
  /\ poll = [p \in Pollers |-> IdlePoll]
  /\ storeLock = NoHolder /\ spurned = [s \in CodexSeats |-> {}]

CodexInit == mirror \in {[seat |-> s, login |-> 0] : s \in CodexSeats} /\ CodexFresh

-----------------------------------------------------------------------------
(* What the operations share. *)

\* active_session(email=s): a heartbeat of a living process names the seat.
Running(s) == \E k \in Supervisors : sup[k].mark = s
NoSession  == \A k \in Supervisors : sup[k].mark = NoSeat

\* Every save of the store makes the polls that read rev before it stale; a new
\* heartbeat does so to a poll that looked for sessions.
Outdated == [p \in Pollers |-> IF poll[p].at = "looked" THEN poll[p]
                               ELSE [poll[p] EXCEPT !.current = FALSE]]
Alarmed  == [p \in Pollers |-> IF poll[p].at = "looked"
                               THEN [poll[p] EXCEPT !.current = FALSE] ELSE poll[p]]

\* Saves outdate the other polls; the poll that saves goes where it goes.
SavedBy(p, place) == [Outdated EXCEPT ![p].at = place]

\* set_live(snapshot_get(s)): what the mirror holds after a switch to s.
MirrorOf(homes, s) == [seat |-> s, login |-> homes[s]]

\* The copies between the homes and the mirror are made under the store lock, but a
\* heartbeat is written without it: what a holder found when it looked at the sessions may
\* be over when it copies.
LockFree       == storeLock.by = "nobody"
TakeLock(who, mayCopy) == LockFree /\ storeLock' = [by |-> who, copy |-> mayCopy, late |-> {}]
HandBack(who) == storeLock.by = who /\ storeLock' = NoHolder

\* sync_back: the mirror goes back into the home of the active seat, unless a child of ours
\* was found to renew its login in that home or the mirror is somebody else's.
Synced ==
  IF storeLock.copy /\ mirror.seat = active THEN [home EXCEPT ![active] = mirror.login] ELSE home

\* reconcile_codex: the mirror is taken for the freshest copy of its owner's login and
\* copied into its home; a login that changed clears what was held against the old one.
\* "go" says whether the caller gets to it and the mirror's owner is a seat.
Changed(go) == go /\ home[mirror.seat] # mirror.login
Adopted(go) == IF go THEN [home EXCEPT ![mirror.seat] = mirror.login] ELSE home
Reconcile(go) ==
  /\ home' = Adopted(go)
  /\ revoked' = [s \in CodexSeats |-> revoked[s] /\ ~(Changed(go) /\ s = mirror.seat)]
  /\ reading' = IF Changed(go) THEN [reading EXCEPT ![mirror.seat].attempt = 0] ELSE reading

-----------------------------------------------------------------------------
(* The user and the stock tool. *)

\* A mutant: sync_back copies the mirror whoever runs.
SyncLooksAway ==
  /\ TakeLock("switch", active # NoSeat)
  /\ UNCHANGED <<storeVars, loginVars, attempts, sup, poll, spurned>>

\* sync_back takes a look at the sessions first.
SyncLooks ==
  /\ TakeLock("switch", active # NoSeat /\ ~Running(active))
  /\ UNCHANGED <<storeVars, loginVars, attempts, sup, poll, spurned>>

\* switch(manual=True): sync back, install the chosen login in the mirror, make it active.
Click(s) ==
  /\ HandBack("switch") /\ s \in known
  /\ home' = Synced
  /\ IF home'[s] = NoLogin THEN UNCHANGED <<mirror, active, loggedOut, poll>>
     ELSE /\ mirror' = MirrorOf(home', s) /\ active' = s /\ loggedOut' = FALSE
          /\ poll' = Outdated
  /\ UNCHANGED <<issued, known, added, revoked, reading, captured, attempts, sup, spurned>>

\* authflows.signin: a login made in a disposable home is filed under its owner.
SignIn(s) ==
  /\ HandBack("switch")
  /\ issued[s] < MaxLogin
  /\ s \in known \/ added[s] < MaxAdded
  /\ issued' = [issued EXCEPT ![s] = @ + 1]
  /\ home' = [Synced EXCEPT ![s] = issued'[s]]
  /\ captured' = [captured EXCEPT ![s] = issued'[s]]
  /\ mirror' = MirrorOf(home', s)
  /\ known' = known \cup {s} /\ active' = s /\ loggedOut' = FALSE
  /\ added' = [added EXCEPT ![s] = IF s \in known THEN @ ELSE @ + 1]
  /\ revoked' = [revoked EXCEPT ![s] = FALSE]
  /\ reading' = [reading EXCEPT ![s] = IF s \in known THEN [@ EXCEPT !.attempt = 0]
                                       ELSE NeverRead]
  /\ poll' = Outdated
  /\ UNCHANGED <<attempts, sup, spurned>>

\* remove: the private home goes with the seat.
RemoveSeat(s) ==
  /\ LockFree /\ s \in known
  /\ home' = [home EXCEPT ![s] = NoLogin]
  /\ known' = known \ {s} /\ active' = IF active = s THEN NoSeat ELSE active
  /\ revoked' = [revoked EXCEPT ![s] = FALSE]
  /\ reading' = [reading EXCEPT ![s] = NeverRead]
  /\ poll' = Outdated
  /\ UNCHANGED <<issued, mirror, added, loggedOut, captured, attempts, sup, storeLock, spurned>>

\* safe_logout: the mirror of a registered seat is removed, its home is kept.
StockLogout ==
  /\ LockFree /\ mirror.seat \in known
  /\ mirror' = Blank /\ loggedOut' = TRUE /\ poll' = Outdated
  /\ UNCHANGED <<issued, home, known, added, active, revoked, reading, captured,
                 attempts, sup, storeLock, spurned>>

\* The stock tool renews the login of the mirror in place.
StockRenews ==
  /\ mirror.seat # NoSeat
  /\ mirror.login = issued[mirror.seat] /\ mirror.login < MaxLogin
  /\ issued' = [issued EXCEPT ![mirror.seat] = @ + 1]
  /\ mirror' = [mirror EXCEPT !.login = @ + 1]
  /\ UNCHANGED <<home, storeVars, attempts, sup, poll, storeLock, spurned>>

\* `codex login` outside the switcher.
StockSignIn(s) ==
  /\ issued[s] < MaxLogin
  /\ issued' = [issued EXCEPT ![s] = @ + 1]
  /\ mirror' = [seat |-> s, login |-> issued'[s]]
  /\ UNCHANGED <<home, storeVars, attempts, sup, poll, storeLock, spurned>>

-----------------------------------------------------------------------------
(* A supervisor: launcher.run() for Codex. *)

Goes(k, place) == sup' = [sup EXCEPT ![k].at = place]

\* The first lock of run(): with no session alive the mirror is reconciled, ...
LaunchLooks(k) ==
  /\ sup[k].at = "off" /\ TakeLock("launch", NoSession)
  /\ Goes(k, "launching")
  /\ UNCHANGED <<storeVars, loginVars, attempts, poll, spurned>>

Adopts == storeLock.copy /\ mirror.seat \in known
FloorSeat  == IF Adopts THEN mirror.seat ELSE active
CanLaunch(s) == /\ s \in known /\ Adopted(Adopts)[s] # NoLogin
                /\ revoked[s] => s = FloorSeat \/ Changed(Adopts)

\* ... then a seat is selected and made the active one; switch() installs it in the mirror.
Launch(k, s) ==
  /\ sup[k].at = "launching" /\ HandBack("launch")
  /\ Reconcile(Adopts)
  /\ CanLaunch(s) /\ active' = s
  /\ mirror' = IF s = FloorSeat \/ loggedOut THEN mirror ELSE MirrorOf(home', s)
  /\ poll' = IF Changed(Adopts) \/ active # s THEN Outdated ELSE poll
  /\ Goes(k, "launched")
  /\ UNCHANGED <<issued, known, added, loggedOut, captured, attempts, spurned>>

\* No seat to run on: run() gives up, after the reconciliation.
NoLaunch(k) ==
  /\ sup[k].at = "launching" /\ HandBack("launch")
  /\ \A s \in CodexSeats : ~CanLaunch(s)
  /\ Reconcile(Adopts)
  /\ active' = FloorSeat
  /\ poll' = IF Changed(Adopts) \/ active # FloorSeat THEN Outdated ELSE poll
  /\ sup' = [sup EXCEPT ![k] = IdleSup]
  /\ UNCHANGED <<issued, mirror, known, added, loggedOut, captured, attempts, spurned>>

\* The lock before every child: the seat a hop committed, else the active one.
Enter(k) ==
  /\ LockFree /\ sup[k].at \in {"launched", "hopping"}
  /\ LET seat == IF sup[k].at = "hopping" /\ sup[k].seat \in known THEN sup[k].seat ELSE active
     IN IF seat = NoSeat \/ home[seat] = NoLogin THEN sup' = [sup EXCEPT ![k] = IdleSup]
        ELSE sup' = [sup EXCEPT ![k].at = "starting", ![k].seat = seat]
  /\ UNCHANGED <<storeVars, loginVars, attempts, poll, storeLock, spurned>>

\* mark_session, without the lock; then the child starts in that home.
Mark(k) ==
  /\ sup[k].at = "starting"
  /\ sup' = [sup EXCEPT ![k].at = "running", ![k].mark = sup[k].seat]
  /\ poll' = Alarmed
  /\ storeLock' = IF storeLock.copy THEN [storeLock EXCEPT !.late = @ \cup {sup[k].seat}]
                  ELSE storeLock
  /\ UNCHANGED <<storeVars, loginVars, attempts, spurned>>

\* The child renews its login in place.
ChildRenews(k) ==
  LET s == sup[k].seat
  IN /\ sup[k].at = "running" /\ home[s] = issued[s] /\ home[s] < MaxLogin
     /\ issued' = [issued EXCEPT ![s] = @ + 1]
     /\ home' = [home EXCEPT ![s] = issued'[s]]
     /\ UNCHANGED <<mirror, storeVars, attempts, sup, poll, storeLock, spurned>>

\* The child is stopped and the hop to another seat committed; the heartbeat follows
\* in a step of its own.
Hop(k, s) ==
  /\ LockFree
  /\ sup[k].at = "running" /\ s \in known \ {sup[k].seat} /\ home[s] # NoLogin /\ ~revoked[s]
  /\ active' = s /\ mirror' = IF loggedOut THEN mirror ELSE MirrorOf(home, s)
  /\ poll' = Outdated
  /\ sup' = [sup EXCEPT ![k].at = "hopping", ![k].seat = s]
  /\ UNCHANGED <<issued, home, known, added, loggedOut, revoked, reading, captured,
                 attempts, storeLock, spurned>>

\* run()'s finally: the heartbeat goes first ...
Clear(k) ==
  /\ sup[k].at = "running"
  /\ sup' = [sup EXCEPT ![k].at = "cleared", ![k].mark = NoSeat]
  /\ UNCHANGED <<storeVars, loginVars, attempts, poll, storeLock, spurned>>

\* ... and the mirror gets the active seat's login under the lock.
Finish(k) ==
  /\ LockFree /\ sup[k].at = "cleared"
  /\ mirror' = IF active = NoSeat \/ loggedOut \/ home[active] = NoLogin THEN mirror
               ELSE MirrorOf(home, active)
  /\ sup' = [sup EXCEPT ![k] = IdleSup]
  /\ UNCHANGED <<issued, home, storeVars, attempts, poll, storeLock, spurned>>

\* The terminal is closed: _on_term kills the child and dies of the signal, no finally runs;
\* the lock goes with the process.
Killed(k) ==
  /\ sup[k].at # "off"
  /\ sup' = [sup EXCEPT ![k] = IdleSup]
  /\ storeLock' = IF sup[k].at = "launching" THEN NoHolder ELSE storeLock
  /\ UNCHANGED <<storeVars, loginVars, attempts, poll, spurned>>

-----------------------------------------------------------------------------
(* A poll: usage.refresh_live for one seat, in the steps between its locks. *)

PollGoes(p, place) == poll' = [poll EXCEPT ![p].at = place]
Drop(p) == poll' = [poll EXCEPT ![p] = IdlePoll]

\* _detached_blob: whose copy of a login a reader trusts.
Detached(s, isActive) ==
  IF isActive /\ ~Running(s) /\ mirror.seat = s THEN mirror.login ELSE home[s]

\* bridge usage(): the sessions are probed outside the lock ...
Probe(p) ==
  /\ poll[p].at = "idle"
  /\ poll' = [poll EXCEPT ![p] = [IdlePoll EXCEPT !.at = "looked", !.current = NoSession]]
  /\ UNCHANGED <<storeVars, loginVars, attempts, sup, storeLock, spurned>>

\* ... and the reconciliation is skipped when one lives or is seen under the lock to have
\* started since.
ObserveLooks(p) ==
  /\ poll[p].at = "looked" /\ TakeLock("observe", poll[p].current)
  /\ PollGoes(p, "observing")
  /\ UNCHANGED <<storeVars, loginVars, attempts, sup, spurned>>

Observe(p) ==
  /\ poll[p].at = "observing" /\ HandBack("observe")
  /\ Reconcile(Adopts)
  /\ active' = FloorSeat
  /\ poll' = [(IF Changed(Adopts) \/ active # FloorSeat THEN Outdated ELSE poll)
                EXCEPT ![p] = IdlePoll]
  /\ UNCHANGED <<issued, mirror, known, added, loggedOut, captured, attempts, sup, spurned>>

\* refresh_live: one job per due seat, from a store read without the lock.
Prepare(p, s) ==
  /\ poll[p].at = "idle" /\ s \in known
  /\ poll' = [poll EXCEPT ![p].at = "prepared", ![p].seat = s, ![p].added = added[s],
                          ![p].active = (active = s)]
  /\ UNCHANGED <<storeVars, loginVars, attempts, sup, storeLock, spurned>>

\* The login, and whether a child owns it, are read later.
ReadLogin(p) ==
  LET s == poll[p].seat
  IN /\ poll[p].at = "prepared"
     /\ IF Detached(s, poll[p].active) = NoLogin THEN Drop(p)
        ELSE poll' = [poll EXCEPT ![p].at = "read", ![p].running = Running(s),
                                  ![p].login = Detached(s, poll[p].active)]
     /\ UNCHANGED <<storeVars, loginVars, attempts, sup, storeLock, spurned>>

\* Under the lock: is it still the same seat, and may its login be renewed here?  Only a
\* parked one whose access token has expired, which any access token does in time.
Recheck(p) ==
  LET s == poll[p].seat
  IN /\ LockFree /\ poll[p].at = "read"
     /\ IF s \notin known \/ added[s] # poll[p].added THEN Drop(p)
        ELSE \E expired \in BOOLEAN :
               poll' = [poll EXCEPT
                 ![p].at = IF expired /\ active # s /\ ~poll[p].active /\ ~poll[p].running
                           THEN "post" ELSE "fetch",
                 ![p].active = FALSE, ![p].running = FALSE]
     /\ UNCHANGED <<storeVars, loginVars, attempts, sup, storeLock, spurned>>

\* The refresh token of a parked seat is spent outside the lock.
Renew(p) ==
  LET s == poll[p].seat
  IN /\ poll[p].at = "post"
     /\ \/ /\ poll[p].login = issued[s] /\ issued[s] < MaxLogin
           /\ issued' = [issued EXCEPT ![s] = @ + 1]
           /\ poll' = [poll EXCEPT ![p].at = "renewed", ![p].new = issued'[s]]
           /\ UNCHANGED spurned
        \/ /\ PollGoes(p, "invalidated") /\ UNCHANGED issued  \* any 400 or 401
           /\ spurned' = IF poll[p].login # issued[s] THEN spurned
                         ELSE [spurned EXCEPT ![s] = @ \cup {issued[s]}]
        \/ PollGoes(p, "fetch") /\ UNCHANGED <<issued, spurned>>  \* no answer, nothing spent
     /\ UNCHANGED <<storeVars, home, mirror, attempts, sup, storeLock>>

\* Does the answer still concern the seat? Not if a child or a switch took it over,
\* if it was added anew, or if it is not due any more.
StillMine(p) ==
  LET s == poll[p].seat
  IN s \in known /\ added[s] = poll[p].added /\ active # s /\ ~Running(s)

\* A mutant: the seat is called signed out whatever login it has by now.
CallRevokedBlindly(p) ==
  LET s == poll[p].seat
  IN /\ LockFree /\ poll[p].at = "invalidated"
     /\ IF ~StillMine(p) THEN Drop(p) /\ UNCHANGED revoked
        ELSE /\ revoked' = [revoked EXCEPT ![s] = TRUE]
             /\ poll' = SavedBy(p, "fetch")
     /\ UNCHANGED <<loginVars, known, added, active, loggedOut, reading, captured, attempts, sup,
                    storeLock, spurned>>

\* _recover_parked_codex after the POST, under the lock: the new login replaces the one
\* that was spent, even for a seat that is no longer this poll's business. A seat that was
\* polled meanwhile is not due any more; an access token that a clock set back makes valid
\* again is used as it is.
SaveRenewed(p) ==
  LET s == poll[p].seat
  IN /\ LockFree /\ poll[p].at = "renewed"
     /\ home' = IF home[s] = poll[p].login THEN [home EXCEPT ![s] = poll[p].new] ELSE home
     /\ \/ Drop(p)
        \/ /\ StillMine(p) /\ home[s] = poll[p].login
           /\ \E login \in {poll[p].login, poll[p].new} :
                poll' = [poll EXCEPT ![p].at = "fetch", ![p].login = login, ![p].new = NoLogin]
     /\ UNCHANGED <<issued, mirror, storeVars, attempts, sup, storeLock, spurned>>

\* The write into the home fails: the home keeps the spent login, and the poll goes on with it.
SaveFails(p) ==
  /\ LockFree /\ poll[p].at = "renewed" /\ home[poll[p].seat] = poll[p].login
  /\ poll' = [poll EXCEPT ![p].at = "fetch", ![p].new = NoLogin]
  /\ UNCHANGED <<storeVars, loginVars, attempts, sup, storeLock, spurned>>

\* Only the login still on disk can prove the seat signed out; nothing is said of a seat that
\* is not due any more, or whose access token is valid after all.
CallRevoked(p) ==
  LET s == poll[p].seat
  IN /\ LockFree /\ poll[p].at = "invalidated"
     /\ \/ Drop(p) /\ UNCHANGED revoked
        \/ /\ home[s] = poll[p].login /\ StillMine(p)
           /\ \/ PollGoes(p, "fetch") /\ UNCHANGED revoked
              \/ revoked' = [revoked EXCEPT ![s] = TRUE] /\ poll' = SavedBy(p, "fetch")
     /\ UNCHANGED <<loginVars, known, added, active, loggedOut, reading, captured, attempts,
                    sup, storeLock, spurned>>

\* The usage request; requests are ordered by their start.
Fetch(p) ==
  /\ poll[p].at = "fetch" /\ attempts < MaxAttempt
  /\ attempts' = attempts + 1
  /\ poll' = [poll EXCEPT ![p].at = "fetched", ![p].attempt = attempts']
  /\ UNCHANGED <<storeVars, loginVars, sup, storeLock, spurned>>

\* _commit_fetch_result reads the store and then the login, without the lock, ...
Before(p) ==
  /\ poll[p].at = "fetched"
  /\ poll' = [poll EXCEPT ![p].at = "before", ![p].active = (active = poll[p].seat),
                          ![p].current = TRUE]
  /\ UNCHANGED <<storeVars, loginVars, attempts, sup, storeLock, spurned>>

Reread(p) ==
  /\ poll[p].at = "before"
  /\ IF Detached(poll[p].seat, poll[p].active) = poll[p].login THEN PollGoes(p, "reread")
     ELSE Drop(p)
  /\ UNCHANGED <<storeVars, loginVars, attempts, sup, storeLock, spurned>>

\* Mutants: a commit that trusts what was read before the lock, and one that ignores the
\* order of the requests.
CommitUnchecked(p) ==
  LET s == poll[p].seat
  IN /\ LockFree /\ poll[p].at = "reread"
     /\ IF poll[p].attempt > reading[s].attempt /\ s \in known
        THEN /\ reading' = [reading EXCEPT ![s] =
                              [attempt |-> poll[p].attempt, added |-> poll[p].added,
                               login |-> poll[p].login]]
             /\ poll' = [SavedBy(p, "idle") EXCEPT ![p] = IdlePoll]
        ELSE Drop(p) /\ UNCHANGED reading
     /\ UNCHANGED <<loginVars, known, added, active, loggedOut, revoked, captured, attempts, sup,
                    storeLock, spurned>>

CommitAnyOrder(p) ==
  LET s == poll[p].seat
  IN /\ LockFree /\ poll[p].at = "reread"
     /\ IF poll[p].current /\ s \in known /\ added[s] = poll[p].added
        THEN /\ reading' = [reading EXCEPT ![s] =
                              [attempt |-> poll[p].attempt, added |-> poll[p].added,
                               login |-> poll[p].login]]
             /\ poll' = [SavedBy(p, "idle") EXCEPT ![p] = IdlePoll]
        ELSE Drop(p) /\ UNCHANGED reading
     /\ UNCHANGED <<loginVars, known, added, active, loggedOut, revoked, captured, attempts, sup,
                    storeLock, spurned>>

\* ... and writes under it if nothing was saved since, the seat is the one asked about,
\* and no later request has answered.
Commit(p) ==
  LET s == poll[p].seat
  IN /\ LockFree /\ poll[p].at = "reread"
     /\ IF /\ poll[p].current /\ s \in known /\ added[s] = poll[p].added
           /\ poll[p].active = (active = s) /\ poll[p].attempt >= reading[s].attempt
        THEN /\ reading' = [reading EXCEPT ![s] =
                              [attempt |-> poll[p].attempt, added |-> poll[p].added,
                               login |-> poll[p].login]]
             /\ poll' = [SavedBy(p, "idle") EXCEPT ![p] = IdlePoll]
        ELSE Drop(p) /\ UNCHANGED reading
     /\ UNCHANGED <<loginVars, known, added, active, loggedOut, revoked, captured, attempts, sup,
                    storeLock, spurned>>

\* Not due, not readable, or the request failed in a way that changes nothing here.
Skip(p) ==
  /\ poll[p].at \in {"read", "fetched"}
  /\ Drop(p)
  /\ UNCHANGED <<storeVars, loginVars, attempts, sup, storeLock, spurned>>

-----------------------------------------------------------------------------
CodexUser(s) == RemoveSeat(s) \/ StockSignIn(s)
CodexSup(k)  == \/ \E s \in CodexSeats : Launch(k, s) \/ Hop(k, s)
                \/ LaunchLooks(k) \/ NoLaunch(k) \/ Enter(k) \/ Mark(k) \/ ChildRenews(k)
                \/ Clear(k) \/ Finish(k)
CodexPoll(p) == \/ Probe(p) \/ ObserveLooks(p) \/ Observe(p)
                \/ (\E s \in CodexSeats : Prepare(p, s))
                \/ ReadLogin(p) \/ Recheck(p) \/ Renew(p)
                \/ SaveRenewed(p) \/ SaveFails(p) \/ CallRevoked(p)
                \/ Fetch(p) \/ Before(p) \/ Reread(p) \/ Commit(p) \/ Skip(p)
CodexWorld  == \/ \E s \in CodexSeats : CodexUser(s)
               \/ SyncLooks \/ StockLogout \/ StockRenews
               \/ \E k \in Supervisors : Killed(k)
CodexSwitch == \E s \in CodexSeats : Click(s) \/ SignIn(s)
CodexNext ==
  \/ turns < MaxTurns /\ turns' = turns + 1 /\ CodexWorld
  \/ UNCHANGED turns /\ CodexSwitch
  \/ UNCHANGED turns /\ \E k \in Supervisors : CodexSup(k)
  \/ UNCHANGED turns /\ \E p \in Pollers : CodexPoll(p)

CodexSpec == CodexInit /\ [][CodexNext]_codexVars

CodexTypeOK ==
  /\ issued \in [CodexSeats -> Login]
  /\ home \in [CodexSeats -> Logins] /\ mirror \in Mirrors
  /\ known \subseteq CodexSeats /\ added \in [CodexSeats -> 0..MaxAdded]
  /\ active \in known \cup {NoSeat} /\ loggedOut \in BOOLEAN
  /\ revoked \in [CodexSeats -> BOOLEAN] /\ captured \in [CodexSeats -> Login]
  /\ reading \in [CodexSeats -> [attempt: 0..MaxAttempt, added: 0..MaxAdded, login: Logins]]
  /\ attempts \in 0..MaxAttempt /\ turns \in 0..MaxTurns
  /\ sup \in [Supervisors -> [at: SupPlaces, seat: CodexSeats \cup {NoSeat},
                              mark: CodexSeats \cup {NoSeat}]]
  /\ poll \in [Pollers -> [at: PollPlaces, seat: CodexSeats \cup {NoSeat},
                           added: 0..MaxAdded, active: BOOLEAN, login: Logins, new: Logins,
                           running: BOOLEAN, attempt: 0..MaxAttempt, current: BOOLEAN]]
  /\ storeLock \in [by: {"nobody", "switch", "launch", "observe"}, copy: BOOLEAN,
                    late: SUBSET (CodexSeats \cup {NoSeat})]
  /\ spurned \in [CodexSeats -> SUBSET Login]
-----------------------------------------------------------------------------
(* What the logins promise. *)

\* While a child runs in a home, nobody puts an older login there: neither a click's
\* sync-back nor a reconciliation nor a renewal that came late (switch.py:45-50,
\* bridge.py:757-764), except a copy whose look at the sessions the heartbeat came after.
ChildKeepsItsLogin ==
  [][\A s \in CodexSeats : Running(s) /\ s \in known' /\ s \notin storeLock.late
                            => home'[s] >= home[s]]_codexVars

\* A seat is called signed out only for the login that lies in its home at that moment,
\* and only when that login can renew nothing any more, or when the provider refused that
\* very login although it could (usage.py:207, 1132-1135).
RevocationIsProven ==
  [][\A s \in CodexSeats : revoked'[s] /\ ~revoked[s]
                            => home[s] # issued[s] \/ home[s] \in spurned[s]]_codexVars

\* A usage reading a poll stored never comes from before the seat was added, nor from a login
\* older than the seat's last sign-in (usage.py:1040-1056). The launcher's own look at a seat
\* that hit its limit stores what it got without these checks (launcher.py:2231-2234); it is
\* not among the writers here, nor for ReadingsInOrder.
ReadingIsTheSeats ==
  \A s \in CodexSeats :
    reading[s].attempt > 0 => /\ reading[s].added = added[s]
                              /\ reading[s].login >= captured[s]

\* The answer of an earlier poll's request never replaces that of a later one
\* (usage.py:1057-1062).
ReadingsInOrder ==
  [][\A s \in CodexSeats :
       reading'[s].attempt # 0 => reading'[s].attempt >= reading[s].attempt]_codexVars
=============================================================================
