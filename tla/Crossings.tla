------------------------------ MODULE Crossings ------------------------------
(***************************************************************************)
(* Business and personal seats (acctsw/seatkind.py): moving a session from *)
(* one kind to the other needs the user's yes for that direction.  Several *)
(* supervised sessions and the app share the answers through the locked    *)
(* store; every action here is one locked write, or one step of a launcher *)
(* between two of them, so decisions and commits interleave.               *)
(***************************************************************************)
EXTENDS Integers, FiniteSets

CONSTANTS
  Seats, Sessions,
  Kind,       \* business, personal or unknown, from the seat's plan label
  None,       \* Python's None
  MaxClicks,  \* bound: clicks on a seat row in a behaviour
  Choices     \* bound: what else the user does in a behaviour

ASSUME CrossingConstants ==
  /\ Kind \in [Seats -> {"business", "personal", "unknown"}]
  /\ None \notin Seats /\ None \notin Seats \X Seats
  /\ MaxClicks \in Nat
  /\ Choices \subseteq {"once", "always", "confirm", "deny", "lapse",
                        "crossing_auto", "auto_switch"}
  /\ IsFiniteSet(Sessions) /\ Sessions # {}

Dirs == Seats \X Seats      \* <<a, b>> is the store's key "a>b"

VARIABLES
  \* the store
  approvals,    \* per direction: scope, and the uses left of a "once"
  requests,     \* open questions: <<direction, session>>
  active,       \* the active seat
  click,        \* manual_switch: the last click, numbered by the revision
  crossingAuto, \* the setting crossing_auto
  autoSwitch,   \* the setting auto_switch
  rested,       \* seats with a limit
  \* the sessions
  billed,       \* the seat the session runs on
  home,         \* the seat whose login its child holds (launch_email)
  mark,         \* the heartbeat: the seat last recorded, None once cleared
  spc,          \* where its launcher is
  job,          \* the move it is carrying out
  asked,        \* crossing["requested"]: questions it has raised
  pend,         \* crossing["pending"]: the one it watches
  seen,         \* the click it has seen
  \* history
  allowed       \* moves the user still allows per direction (not "always")

store == <<approvals, requests, active, click, crossingAuto, autoSwitch, rested>>
session == <<billed, home, mark, spc, job, asked, pend, seen>>
vars == <<store, session, allowed>>

NoYes  == [scope |-> "none", uses |-> 0]
Always == [scope |-> "always", uses |-> 0]
Once(n) == [scope |-> "once", uses |-> n]
Answers == {NoYes, Always} \cup {Once(n) : n \in 1..Cardinality(Sessions)}
NoClick == [id |-> 0, seat |-> None]
Clicks  == [id : 0..MaxClicks, seat : Seats \cup {None}]
Jobs    == [why : {"none", "limit", "manual", "crossing"}, to : Seats \cup {None},
            active : Seats \cup {None}, prev : Seats \cup {None}]
NoJob  == [why |-> "none", to |-> None, active |-> None, prev |-> None]

Init ==
  /\ approvals = [d \in Dirs |-> NoYes] /\ requests = {}
  /\ active \in Seats /\ click = NoClick
  /\ crossingAuto = FALSE /\ autoSwitch = TRUE /\ rested = {}
  /\ billed \in [Sessions -> Seats]
  /\ home = billed /\ mark = billed
  /\ spc = [s \in Sessions |-> "live"] /\ job = [s \in Sessions |-> NoJob]
  /\ asked = [s \in Sessions |-> {}] /\ pend = [s \in Sessions |-> None]
  /\ seen = [s \in Sessions |-> click]
  /\ allowed = [d \in Dirs |-> 0]

-----------------------------------------------------------------------------
(* seatkind's rules. *)

\* A mutant: a seat of unknown plan goes with every other.
CrossesKnown(a, b, h) ==
  a # b /\ b # h /\ {Kind[a], Kind[b]} = {"business", "personal"}

\* Going back to the seat the child was launched on is never a crossing.
Crosses(a, b, h) ==
  /\ a # b /\ b # h
  /\ Kind[a] = "unknown" \/ Kind[b] = "unknown" \/ Kind[a] # Kind[b]

Approved(a, b, h) ==
  crossingAuto \/ ~Crosses(a, b, h) \/ approvals[<<a, b>>].scope # "none"

\* A mutant: a count runs one too far.
ConsumedOff(a, b, h) ==
  IF crossingAuto \/ ~Crosses(a, b, h) \/ approvals[<<a, b>>].scope = "always"
  THEN approvals
  ELSE [approvals EXCEPT ![<<a, b>>] = IF @.uses > 0 THEN Once(@.uses - 1) ELSE NoYes]

\* consume(): what an approved move leaves of the approvals.
Consumed(a, b, h) ==
  IF crossingAuto \/ ~Crosses(a, b, h) \/ approvals[<<a, b>>].scope = "always"
  THEN approvals
  ELSE [approvals EXCEPT ![<<a, b>>] = IF @.uses > 1 THEN Once(@.uses - 1) ELSE NoYes]

\* What the user is promised: only seats known to be of one kind stand together.
NeedsYes(a, b, h) ==
  b \notin {a, h} /\ ~\E k \in {"business", "personal"} : Kind[a] = k /\ Kind[b] = k

\* The move as the user counts it.
Charged(a, b, h) ==
  IF crossingAuto \/ ~NeedsYes(a, b, h) \/ approvals[<<a, b>>].scope = "always"
  THEN allowed
  ELSE [allowed EXCEPT ![<<a, b>>] = @ - 1]

QuestionsOf(s) == {q \in requests : q[2] = s}
QuestionsIn(D) == {q \in requests : q[1] \in D}

-----------------------------------------------------------------------------
(* A session's launcher. *)

\* _ask_crossing, after forgetting that this was asked before when again is set.
AskUser(s, b, again) ==
  LET d == <<billed[s], b>> IN
  /\ pend' = [pend EXCEPT ![s] = d]
  /\ asked' = [asked EXCEPT ![s] = @ \cup {d}]
  /\ requests' = IF (again \/ d \notin asked[s]) /\ Crosses(billed[s], b, home[s])
                 THEN requests \cup {<<d, s>>} ELSE requests

Goto(s, place, j) ==
  /\ spc' = [spc EXCEPT ![s] = place]
  /\ job' = [job EXCEPT ![s] = j]

\* Its seat is out (a limit hit, a rest seen in the store, the recovery tick): the
\* active pointer is put on the seat the child runs on, and a landing is chosen;
\* when only crossings are left, the user is asked.
Landings(s) == {e \in Seats \ (rested \cup {billed[s]}) :
                  Approved(billed[s], e, home[s])}

DecideLanding(s) ==
  /\ spc[s] = "live" /\ billed[s] \in rested /\ autoSwitch
  /\ \E e \in Landings(s) :
       Goto(s, "hop", [why |-> "limit", to |-> e, active |-> billed[s], prev |-> active])
  /\ active' = billed[s]
  /\ UNCHANGED <<approvals, requests, click, crossingAuto, autoSwitch, rested,
                 billed, home, mark, asked, pend, seen, allowed>>

DecideAsk(s) ==
  /\ spc[s] = "live" /\ billed[s] \in rested /\ autoSwitch /\ Landings(s) = {}
  /\ \E e \in Seats \ (rested \cup {billed[s]}) : AskUser(s, e, FALSE)
  /\ UNCHANGED <<approvals, active, click, crossingAuto, autoSwitch, rested,
                 billed, home, mark, spc, job, seen, allowed>>

\* _tick_state sees a click it has not seen: take it, or ask first.
SeeClick(s) ==
  /\ spc[s] = "live" /\ click # seen[s]
  /\ seen' = [seen EXCEPT ![s] = click]
  /\ LET e == click.seat IN
     IF e = billed[s] \/ e # active
     THEN UNCHANGED <<spc, job, asked, pend, requests>>
     ELSE IF Approved(billed[s], e, home[s])
     THEN /\ Goto(s, "hop", [NoJob EXCEPT !.why = "manual", !.to = e])
          /\ UNCHANGED <<asked, pend, requests>>
     ELSE AskUser(s, e, TRUE) /\ UNCHANGED <<spc, job>>
  /\ UNCHANGED <<approvals, active, click, crossingAuto, autoSwitch, rested,
                 billed, home, mark, allowed>>

\* ... or that the crossing it asked for is approved.  The question is forgotten
\* even when auto-switch is off or the landing is out by now.
SeeApproval(s) ==
  /\ spc[s] = "live" /\ click = seen[s] /\ pend[s] # None
  /\ Approved(pend[s][1], pend[s][2], home[s])
  /\ pend' = [pend EXCEPT ![s] = None]
  /\ IF pend[s][1] = billed[s] /\ autoSwitch /\ pend[s][2] \notin rested
     THEN Goto(s, "hop", [NoJob EXCEPT !.why = "crossing", !.to = pend[s][2],
                          !.active = active])
     ELSE UNCHANGED <<spc, job>>
  /\ UNCHANGED <<store, billed, home, mark, asked, seen, allowed>>

\* A mutant: the commit trusts the decision.
CommitUnchecked(s, e) ==
  /\ approvals' = Consumed(billed[s], e, home[s])
  /\ allowed' = Charged(billed[s], e, home[s])
  /\ requests' = requests \ QuestionsOf(s)
  /\ asked' = [asked EXCEPT ![s] = {}] /\ pend' = [pend EXCEPT ![s] = None]
  /\ billed' = [billed EXCEPT ![s] = e]
  /\ active' = e

\* The locked write that commits a move: the approval is spent, the session's
\* questions are retracted.
Commit(s, e) ==
  /\ Approved(billed[s], e, home[s])
  /\ approvals' = Consumed(billed[s], e, home[s])
  /\ allowed' = Charged(billed[s], e, home[s])
  /\ requests' = requests \ QuestionsOf(s)
  /\ asked' = [asked EXCEPT ![s] = {}] /\ pend' = [pend EXCEPT ![s] = None]
  /\ billed' = [billed EXCEPT ![s] = e]
  /\ active' = e

\* What the heartbeat is to say next: the seat, after a relaunch on it also as home.
Relaunch(e) == [NoJob EXCEPT !.to = e]

\* _hop_in_place commits at once; the heartbeat follows.
HopInPlace(s) ==
  /\ spc[s] = "hop"
  /\ Commit(s, job[s].to)
  /\ Goto(s, "mark", NoJob)
  /\ UNCHANGED <<click, crossingAuto, autoSwitch, rested, home, mark, seen>>

MarkSession(s) ==
  /\ spc[s] = "mark"
  /\ mark' = [mark EXCEPT ![s] = billed[s]]
  /\ home' = IF job[s].to = None THEN home ELSE [home EXCEPT ![s] = job[s].to]
  /\ Goto(s, "live", NoJob)
  /\ UNCHANGED <<store, billed, asked, pend, seen, allowed>>

\* The approval is gone: put the pointer back, stay, ask again.
Undo(s) == IF job[s].why = "limit" /\ active = billed[s] THEN job[s].prev ELSE active

HopRefused(s) ==
  /\ spc[s] = "hop" /\ ~Approved(billed[s], job[s].to, home[s])
  /\ AskUser(s, job[s].to, TRUE)
  /\ active' = Undo(s)
  /\ Goto(s, "live", NoJob)
  /\ UNCHANGED <<approvals, click, crossingAuto, autoSwitch, rested,
                 billed, home, mark, seen, allowed>>

\* In place can't serve the move: the child is stopped for a restart there (an
\* automatic move only while its approval still holds), or kept (a commit that
\* failed, an exec job, a spent budget, a click on a claude seat).
StopChild(s) ==
  /\ spc[s] = "hop"
  /\ job[s].why = "manual" \/ Approved(billed[s], job[s].to, home[s])
  /\ Goto(s, "stopping", job[s])
  /\ UNCHANGED <<store, billed, home, mark, asked, pend, seen, allowed>>

KeepChild(s) ==
  /\ spc[s] = "hop"
  /\ active' = Undo(s)
  /\ Goto(s, "live", NoJob)
  /\ UNCHANGED <<approvals, requests, click, crossingAuto, autoSwitch, rested,
                 billed, home, mark, asked, pend, seen, allowed>>

\* The child has exited.  A click's landing is read again; an automatic move needs
\* auto-switch and an active pointer nobody moved meanwhile.
ExitLanding(s) == IF job[s].why = "manual" THEN active ELSE job[s].to
Overtaken(s) ==
  job[s].why # "manual" /\ (~autoSwitch \/ active # job[s].active)

ExitCommit(s) ==
  /\ spc[s] = "stopping" /\ ~Overtaken(s)
  /\ Commit(s, ExitLanding(s))
  /\ seen' = IF job[s].why = "manual" THEN [seen EXCEPT ![s] = click] ELSE seen
  /\ Goto(s, "mark", Relaunch(ExitLanding(s)))
  /\ UNCHANGED <<click, crossingAuto, autoSwitch, rested, home, mark>>

\* The approval lapsed meanwhile: relaunched where it was; a click asks again.
ExitLapsed(s) ==
  /\ spc[s] = "stopping" /\ ~Overtaken(s)
  /\ ~Approved(billed[s], ExitLanding(s), home[s])
  /\ IF job[s].why = "manual"
     THEN AskUser(s, ExitLanding(s), TRUE) /\ seen' = [seen EXCEPT ![s] = click]
     ELSE UNCHANGED <<asked, pend, requests, seen>>
  /\ Goto(s, "mark", Relaunch(billed[s]))
  /\ UNCHANGED <<approvals, active, click, crossingAuto, autoSwitch, rested,
                 billed, home, mark, allowed>>

\* Its own seat is back: its questions are moot.
Recover(s) ==
  /\ spc[s] = "live" /\ billed[s] \notin rested /\ asked[s] # {}
  /\ requests' = requests \ QuestionsOf(s)
  /\ asked' = [asked EXCEPT ![s] = {}] /\ pend' = [pend EXCEPT ![s] = None]
  /\ UNCHANGED <<approvals, active, click, crossingAuto, autoSwitch, rested,
                 billed, home, mark, spc, job, seen, allowed>>

\* The process is gone, with its memory and its heartbeat.
Gone(s, how) ==
  /\ Goto(s, how, NoJob)
  /\ mark' = [mark EXCEPT ![s] = None]
  /\ asked' = [asked EXCEPT ![s] = {}] /\ pend' = [pend EXCEPT ![s] = None]
  /\ seen' = [seen EXCEPT ![s] = NoClick]

\* run()'s finally, also after a restart that was overtaken: withdraw, and only
\* then clear the heartbeat.
Withdraw(s) ==
  /\ spc[s] = "live" \/ (spc[s] = "stopping" /\ Overtaken(s))
  /\ Goto(s, "clearing", NoJob)
  /\ requests' = requests \ QuestionsOf(s)
  /\ asked' = [asked EXCEPT ![s] = {}] /\ pend' = [pend EXCEPT ![s] = None]
  /\ UNCHANGED <<approvals, active, click, crossingAuto, autoSwitch, rested,
                 billed, home, mark, seen, allowed>>

ClearSession(s) ==
  /\ spc[s] = "clearing"
  /\ Gone(s, "ended")
  /\ UNCHANGED <<store, billed, home, allowed>>

\* Killed: the heartbeat's process is gone, its questions stay.
Crash(s) ==
  /\ spc[s] \notin {"ended", "crashed"}
  /\ Gone(s, "crashed")
  /\ UNCHANGED <<store, billed, home, allowed>>

Move(s)   == HopInPlace(s) \/ HopRefused(s) \/ StopChild(s) \/ KeepChild(s)
Exit(s)   == ExitCommit(s) \/ ExitLapsed(s)
Launcher(s) ==
  \/ DecideLanding(s) \/ DecideAsk(s) \/ SeeClick(s) \/ SeeApproval(s) \/ Move(s)
  \/ MarkSession(s) \/ Exit(s) \/ Recover(s) \/ Withdraw(s) \/ ClearSession(s)
  \/ Crash(s)

-----------------------------------------------------------------------------
(* The user and the app. *)

\* The sessions the heartbeats name, as switch(manual=True) sees them.
Alive       == {s \in Sessions : mark[s] # None /\ spc[s] # "crashed"}
Crossing(e) == {s \in Alive : mark[s] # e /\ Crosses(mark[s], e, home[s])}
Chosen(e)   == {<<mark[s], e>> : s \in {x \in Alive : mark[x] # e} \ Crossing(e)}

\* A click on a seat row, or acctsw switch.  For moves that do not cross it answers
\* the open questions and spends a "once"; a crossing is asked about for each
\* session, or, confirmed beforehand, approved once for each of them.
ClickSeat(e, confirmed) ==
  /\ click.id < MaxClicks /\ (confirmed => "confirm" \in Choices)
  /\ active' = e
  /\ click' = [id |-> click.id + 1, seat |-> e]
  /\ LET Asks      == {<<<<mark[s], e>>, s>> : s \in Crossing(e)}
         Uses(d)   == Cardinality({s \in Crossing(e) : <<mark[s], e>> = d})
         closed    == Chosen(e) \cup (IF confirmed THEN {q[1] : q \in Asks} ELSE {})
         After(d)  == IF d \in Chosen(e) /\ approvals[d].scope = "once"
                      THEN NoYes ELSE approvals[d]
         granted(d) == confirmed /\ Uses(d) > 0 /\ After(d).scope # "always"
     IN
     /\ requests' = (requests \ QuestionsIn(closed)) \cup (IF confirmed THEN {} ELSE Asks)
     /\ approvals' = [d \in Dirs |-> IF granted(d) THEN Once(Uses(d)) ELSE After(d)]
     /\ allowed' = [d \in Dirs |-> IF granted(d) THEN Uses(d)
                                   ELSE IF d \in Chosen(e) THEN 0 ELSE allowed[d]]
  /\ UNCHANGED <<crossingAuto, autoSwitch, rested, session>>

\* "switch now" / "always" on a question; a standing "always" outlives a "once".
Approve(d, scope) ==
  /\ d[1] # d[2] /\ scope \in Choices
  /\ IF scope = "once" /\ approvals[d].scope = "always"
     THEN UNCHANGED <<approvals, allowed>>
     ELSE /\ approvals' = [approvals EXCEPT ![d] = IF scope = "once" THEN Once(1) ELSE Always]
          /\ allowed' = [allowed EXCEPT ![d] = IF scope = "once" THEN 1 ELSE 0]
  /\ requests' = requests \ QuestionsIn({d})
  /\ UNCHANGED <<active, click, crossingAuto, autoSwitch, rested, session>>

Deny(d) ==
  /\ d[1] # d[2] /\ "deny" \in Choices
  /\ approvals' = [approvals EXCEPT ![d] = NoYes]
  /\ allowed' = [allowed EXCEPT ![d] = 0]
  /\ requests' = requests \ QuestionsIn({d})
  /\ UNCHANGED <<active, click, crossingAuto, autoSwitch, rested, session>>

\* ONCE_TTL: a "once" nobody used for an hour is dead.
Lapse(d) ==
  /\ approvals[d].scope = "once" /\ "lapse" \in Choices
  /\ approvals' = [approvals EXCEPT ![d] = NoYes]
  /\ allowed' = [allowed EXCEPT ![d] = 0]
  /\ UNCHANGED <<requests, active, click, crossingAuto, autoSwitch, rested, session>>

\* The app moves the active pointer off a limited seat when no session runs.
AppHandoff(e) ==
  /\ Alive = {} /\ autoSwitch /\ active \in rested /\ e \notin rested
  /\ Approved(active, e, None)
  /\ approvals' = Consumed(active, e, None)
  /\ allowed' = Charged(active, e, None)
  /\ active' = e
  /\ UNCHANGED <<requests, click, crossingAuto, autoSwitch, rested, session>>

SetCrossingAuto ==
  /\ "crossing_auto" \in Choices
  /\ crossingAuto' = ~crossingAuto
  /\ UNCHANGED <<approvals, requests, active, click, autoSwitch, rested, session, allowed>>

SetAutoSwitch ==
  /\ "auto_switch" \in Choices
  /\ autoSwitch' = ~autoSwitch
  /\ UNCHANGED <<approvals, requests, active, click, crossingAuto, rested, session, allowed>>

\* A seat reaches its limit, or its rest is over.
Rest(e) ==
  /\ rested' = IF e \in rested THEN rested \ {e} ELSE rested \cup {e}
  /\ UNCHANGED <<approvals, requests, active, click, crossingAuto, autoSwitch, session,
                 allowed>>

User ==
  \/ \E e \in Seats, confirmed \in BOOLEAN : ClickSeat(e, confirmed)
  \/ \E d \in Dirs : Approve(d, "once") \/ Approve(d, "always") \/ Deny(d) \/ Lapse(d)
  \/ SetCrossingAuto \/ SetAutoSwitch
  \/ \E e \in Seats : AppHandoff(e) \/ Rest(e)

Next == (\E s \in Sessions : Launcher(s)) \/ User

Spec == Init /\ [][Next]_vars

-----------------------------------------------------------------------------
(* Properties. *)

\* Every variable keeps its shape; in particular a "once" in the store always has at
\* least one use left, so that consume() never counts below one.
TypeOK ==
  /\ approvals \in [Dirs -> Answers]
  /\ requests \subseteq Dirs \X Sessions
  /\ active \in Seats /\ rested \subseteq Seats
  /\ crossingAuto \in BOOLEAN /\ autoSwitch \in BOOLEAN
  /\ click \in Clicks /\ seen \in [Sessions -> Clicks]
  /\ billed \in [Sessions -> Seats] /\ home \in [Sessions -> Seats]
  /\ mark \in [Sessions -> Seats \cup {None}]
  /\ spc \in [Sessions -> {"live", "hop", "mark", "stopping", "clearing", "ended", "crashed"}]
  /\ job \in [Sessions -> Jobs]
  /\ pend \in [Sessions -> Dirs \cup {None}] /\ asked \in [Sessions -> SUBSET Dirs]
  /\ allowed \in [Dirs -> Int]

\* No session crosses between business and personal without a yes of the user that
\* is still good for it: a "once" moves one session, a confirmed click as many as it
\* named, a denied, lapsed or spent answer none, in whatever order sessions decide,
\* stop their children and commit (seatkind.consume in _spend_crossing).
ConsentCoversEveryMove == \A d \in Dirs : allowed[d] >= 0

\* "Moving a session between a business seat and a personal one asks first, every
\* time" (README.md:67-69): while the user denies nothing and no yes lapses, a session
\* that waits for a crossing has an open question, or a yes to move by.
HeldBackSessionIsAsked ==
  \A s \in Sessions :
    spc[s] = "live" /\ pend[s] # None /\ pend[s][1] = billed[s] =>
      \/ <<pend[s], s>> \in requests
      \/ Approved(pend[s][1], pend[s][2], home[s])
=============================================================================
