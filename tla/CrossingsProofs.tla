--------------------------- MODULE CrossingsProofs ---------------------------
(***************************************************************************)
(* Consent for crossings, for every set of seats, sessions and choices.    *)
(* The invariant ties the ghost count of allowed moves to the uses the     *)
(* store records: every write that spends or grants one changes both, and  *)
(* a move commits only where the store still has a use (or a standing yes, *)
(* or nothing to ask).                                                     *)
(***************************************************************************)
EXTENDS Crossings, FiniteSetTheorems, TLAPS

\* A launcher that is moving knows where to, and what to put back.
JobOK ==
  \A s \in Sessions : spc[s] \in {"hop", "stopping"} =>
    job[s].to \in Seats /\ (job[s].why = "limit" => job[s].prev \in Seats)

\* The moves the user still allows are the uses in the store.
UsesAreAllowed == \A d \in Dirs : allowed[d] = approvals[d].uses

IInv == TypeOK /\ JobOK /\ UsesAreAllowed

\* The shapes of an answer in the store.
LEMMA AnswerFacts ==
  /\ NoYes \in Answers /\ NoYes.scope = "none" /\ NoYes.uses = 0
  /\ Always \in Answers /\ Always.scope = "always" /\ Always.uses = 0
  /\ \A n \in 1..Cardinality(Sessions) :
       Once(n) \in Answers /\ Once(n).scope = "once" /\ Once(n).uses = n
  /\ \A x \in Answers : /\ x.uses \in Nat
                        /\ x.scope = "once" =>
                             x.uses > 0 /\ x.uses <= Cardinality(Sessions)
<1>1. Cardinality(Sessions) \in Nat
  BY CrossingConstants, FS_CardinalityType
<1>2. /\ NoYes.scope = "none" /\ NoYes.uses = 0
      /\ Always.scope = "always" /\ Always.uses = 0
      /\ \A n : Once(n).scope = "once" /\ Once(n).uses = n
  BY DEF NoYes, Always, Once
<1>3. NoYes \in Answers /\ Always \in Answers
  BY DEF Answers
<1>4. \A n \in 1..Cardinality(Sessions) : Once(n) \in Answers
  BY DEF Answers
<1>5. ASSUME NEW x \in Answers
      PROVE  /\ x.uses \in Nat
             /\ x.scope = "once" => x.uses > 0 /\ x.uses <= Cardinality(Sessions)
  <2>1. x = NoYes \/ x = Always \/ \E n \in 1..Cardinality(Sessions) : x = Once(n)
    BY DEF Answers
  <2>2. CASE x = NoYes  BY <2>2, <1>2
  <2>3. CASE x = Always  BY <2>3, <1>2
  <2>4. ASSUME NEW n \in 1..Cardinality(Sessions), x = Once(n)
        PROVE  x.uses \in Nat /\ x.uses > 0 /\ x.uses <= Cardinality(Sessions)
    BY <2>4, <1>1, <1>2
  <2> QED  BY <2>1, <2>2, <2>3, <2>4
<1> QED  BY <1>2, <1>3, <1>4, <1>5

\* What seatkind.consume leaves of the approvals, when the move is approved: answers
\* still, and one allowed move fewer exactly where a use went.
LEMMA ConsumeSpends ==
  ASSUME TypeOK, UsesAreAllowed, NEW a \in Seats, NEW b \in Seats, NEW h,
         Approved(a, b, h)
  PROVE  /\ Consumed(a, b, h) \in [Dirs -> Answers]
         /\ Charged(a, b, h) \in [Dirs -> Int]
         /\ \A d \in Dirs : Charged(a, b, h)[d] = Consumed(a, b, h)[d].uses
<1> DEFINE d0 == <<a, b>>
           old == approvals[d0]
           new == IF old.uses > 1 THEN Once(old.uses - 1) ELSE NoYes
<1>1. d0 \in Dirs /\ approvals \in [Dirs -> Answers] /\ allowed \in [Dirs -> Int]
  BY DEF Dirs, TypeOK
<1>kinds. Crosses(a, b, h) <=> NeedsYes(a, b, h)
  BY CrossingConstants DEF Crosses, NeedsYes
<1>2. CASE crossingAuto \/ ~Crosses(a, b, h) \/ old.scope = "always"
  <2>1. Consumed(a, b, h) = approvals /\ Charged(a, b, h) = allowed
    BY <1>kinds, <1>2 DEF Consumed, Charged
  <2> QED  BY <1>1, <2>1 DEF UsesAreAllowed
<1>3. CASE ~(crossingAuto \/ ~Crosses(a, b, h) \/ old.scope = "always")
  <2>1. /\ Consumed(a, b, h) = [approvals EXCEPT ![d0] = new]
        /\ Charged(a, b, h) = [allowed EXCEPT ![d0] = @ - 1]
    BY <1>kinds, <1>3 DEF Consumed, Charged
  <2>2. old \in Answers /\ old.scope # "none" /\ old.scope # "always"
    BY <1>1, <1>3 DEF Approved
  <2>3. old.scope = "once"
    BY <2>2, AnswerFacts, ZenonT(30) DEF Answers, NoYes, Always, Once
  <2>4. old.uses \in Nat /\ old.uses > 0 /\ old.uses <= Cardinality(Sessions)
    BY <2>2, <2>3, AnswerFacts
  <2>5. Cardinality(Sessions) \in Nat
    BY CrossingConstants, FS_CardinalityType
  <2>6. new \in Answers /\ new.uses = old.uses - 1
    <3>1. CASE old.uses > 1
      <4>1. old.uses - 1 \in 1..Cardinality(Sessions)
        BY <3>1, <2>4, <2>5
      <4> QED  BY <4>1, <3>1, AnswerFacts
    <3>2. CASE ~(old.uses > 1)
      <4>1. old.uses = 1
        BY <3>2, <2>4
      <4> QED  BY <4>1, AnswerFacts
    <3> QED  BY <3>1, <3>2
  <2>7. allowed[d0] = old.uses
    BY <1>1 DEF UsesAreAllowed
  <2> HIDE DEF new, old, d0
  <2>8. /\ [approvals EXCEPT ![d0] = new] \in [Dirs -> Answers]
        /\ [allowed EXCEPT ![d0] = @ - 1] \in [Dirs -> Int]
    BY <1>1, <2>6
  <2>9. ASSUME NEW d \in Dirs
        PROVE [allowed EXCEPT ![d0] = @ - 1][d] = [approvals EXCEPT ![d0] = new][d].uses
    <3>1. CASE d = d0  BY <3>1, <1>1, <2>6, <2>7
    <3>2. CASE d # d0  BY <3>2, <1>1 DEF UsesAreAllowed
    <3> QED  BY <3>1, <3>2
  <2> QED  BY <2>1, <2>8, <2>9
<1> QED  BY <1>2, <1>3

\* A session that asks keeps its questions about known seats.
LEMMA AskingKeepsTypes ==
  ASSUME TypeOK, NEW s \in Sessions, NEW b \in Seats, NEW again \in BOOLEAN,
         AskUser(s, b, again)
  PROVE  /\ pend' \in [Sessions -> Dirs \cup {None}]
         /\ asked' \in [Sessions -> SUBSET Dirs]
         /\ requests' \subseteq Dirs \X Sessions
<1>1. billed[s] \in Seats
  BY DEF TypeOK
<1>2. <<billed[s], b>> \in Dirs
  BY <1>1 DEF Dirs
<1> QED  BY <1>2 DEF AskUser, TypeOK

\* The locked write that commits a move spends a use the store has.
LEMMA CommitSpends ==
  ASSUME IInv, NEW s \in Sessions, NEW e \in Seats, Commit(s, e)
  PROVE  /\ approvals' \in [Dirs -> Answers] /\ allowed' \in [Dirs -> Int]
         /\ UsesAreAllowed'
         /\ requests' \subseteq Dirs \X Sessions
         /\ asked' \in [Sessions -> SUBSET Dirs]
         /\ pend' \in [Sessions -> Dirs \cup {None}]
         /\ billed' \in [Sessions -> Seats] /\ active' \in Seats
<1>1. billed[s] \in Seats
  BY DEF IInv, TypeOK
<1>2. /\ approvals' \in [Dirs -> Answers] /\ allowed' \in [Dirs -> Int]
      /\ UsesAreAllowed'
  BY <1>1, ConsumeSpends DEF IInv, Commit, UsesAreAllowed
<1>3. /\ requests' \subseteq Dirs \X Sessions
      /\ asked' \in [Sessions -> SUBSET Dirs]
      /\ pend' \in [Sessions -> Dirs \cup {None}]
      /\ billed' \in [Sessions -> Seats] /\ active' \in Seats
  BY DEF Commit, IInv, TypeOK, QuestionsOf
<1> QED  BY <1>2, <1>3

-----------------------------------------------------------------------------
\* The invariant holds initially.
LEMMA InitInv == Init => IInv
<1> SUFFICES ASSUME Init PROVE IInv
  OBVIOUS
<1>1. TypeOK
  <2>1. NoClick \in Clicks /\ NoJob \in Jobs
    BY CrossingConstants DEF NoClick, Clicks, NoJob, Jobs
  <2>2. approvals \in [Dirs -> Answers] /\ allowed \in [Dirs -> Int]
    BY AnswerFacts DEF Init
  <2>3. /\ job \in [Sessions -> Jobs] /\ seen \in [Sessions -> Clicks]
        /\ click \in Clicks
    BY <2>1 DEF Init
  <2>4. /\ pend \in [Sessions -> Dirs \cup {None}] /\ asked \in [Sessions -> SUBSET Dirs]
        /\ spc \in [Sessions -> {"live", "hop", "mark", "stopping", "clearing", "ended",
                                 "crashed"}]
    BY DEF Init
  <2> QED  BY <2>2, <2>3, <2>4 DEF Init, TypeOK
<1>2. JobOK
  BY DEF Init, JobOK
<1>3. UsesAreAllowed
  BY AnswerFacts DEF Init, UsesAreAllowed
<1> QED  BY <1>1, <1>2, <1>3 DEF IInv

\* A step that leaves the answers alone leaves the count alone.
LEMMA AnswersUntouched ==
  ASSUME UsesAreAllowed, UNCHANGED <<approvals, allowed>>
  PROVE  UsesAreAllowed'
BY DEF UsesAreAllowed

\* A step of a session's launcher.
LEMMA LauncherInv ==
  ASSUME IInv, NEW s \in Sessions, Launcher(s)
  PROVE  IInv'
<1> USE DEF IInv
<1>0. /\ billed[s] \in Seats /\ active \in Seats /\ home[s] \in Seats
      /\ job[s] \in Jobs /\ NoJob \in Jobs
  BY DEF TypeOK, Jobs, NoJob
<1>1. CASE DecideLanding(s)
  <2>1. PICK e \in Landings(s) :
          Goto(s, "hop", [why |-> "limit", to |-> e, active |-> billed[s], prev |-> active])
    BY <1>1 DEF DecideLanding
  <2>2. e \in Seats
    BY <2>1 DEF Landings
  <2>3. TypeOK'
    BY <1>0, <1>1, <2>1, <2>2 DEF DecideLanding, Goto, TypeOK, Jobs
  <2>4. JobOK'
    BY <1>0, <1>1, <2>1, <2>2 DEF DecideLanding, Goto, TypeOK, JobOK
  <2> QED  BY <1>1, <2>3, <2>4, AnswersUntouched DEF DecideLanding
<1>2. CASE DecideAsk(s)
  <2>1. PICK e \in Seats : AskUser(s, e, FALSE)
    BY <1>2 DEF DecideAsk
  <2>2. TypeOK'
    BY <1>2, <2>1, AskingKeepsTypes DEF DecideAsk, TypeOK
  <2>3. JobOK'
    BY <1>2 DEF DecideAsk, JobOK
  <2> QED  BY <1>2, <2>2, <2>3, AnswersUntouched DEF DecideAsk
<1>3. CASE SeeClick(s)
  <2>1. CASE click.seat = billed[s] \/ click.seat # active
    <3>1. UNCHANGED <<spc, job, asked, pend, requests>>
      BY <1>3, <2>1 DEF SeeClick
    <3> QED  BY <1>3, <3>1, AnswersUntouched DEF SeeClick, TypeOK, JobOK
  <2>2. CASE ~(click.seat = billed[s] \/ click.seat # active)
                /\ Approved(billed[s], click.seat, home[s])
    <3>1. Goto(s, "hop", [NoJob EXCEPT !.why = "manual", !.to = click.seat])
          /\ UNCHANGED <<asked, pend, requests>>
      BY <1>3, <2>2 DEF SeeClick
    <3>2. TypeOK'
      BY <1>0, <1>3, <2>2, <3>1 DEF SeeClick, Goto, TypeOK, NoJob, Jobs
    <3>3. JobOK'
      BY <1>0, <1>3, <2>2, <3>1 DEF SeeClick, Goto, TypeOK, NoJob, JobOK
    <3> QED  BY <1>3, <3>2, <3>3, AnswersUntouched DEF SeeClick
  <2>3. CASE ~(click.seat = billed[s] \/ click.seat # active)
                /\ ~Approved(billed[s], click.seat, home[s])
    <3>1. AskUser(s, click.seat, TRUE) /\ UNCHANGED <<spc, job>>
      BY <1>3, <2>3 DEF SeeClick
    <3>2. TypeOK'
      BY <1>0, <1>3, <2>3, <3>1, AskingKeepsTypes DEF SeeClick, TypeOK
    <3>3. JobOK'
      BY <1>3, <3>1 DEF SeeClick, JobOK
    <3> QED  BY <1>3, <3>2, <3>3, AnswersUntouched DEF SeeClick
  <2> QED  BY <2>1, <2>2, <2>3
<1>4. CASE SeeApproval(s)
  <2>1. pend[s] \in Dirs
    BY <1>4 DEF SeeApproval, TypeOK
  <2>2. pend[s][2] \in Seats
    BY <2>1 DEF Dirs
  <2> DEFINE j == [NoJob EXCEPT !.why = "crossing", !.to = pend[s][2], !.active = active]
  <2>3. j \in Jobs /\ j.to \in Seats /\ j.why # "limit"
    BY <1>0, <2>2 DEF Jobs, NoJob
  <2>4. Goto(s, "hop", j) \/ UNCHANGED <<spc, job>>
    BY <1>4 DEF SeeApproval
  <2> HIDE DEF j
  <2>5. TypeOK'
    BY <1>4, <2>3, <2>4 DEF SeeApproval, Goto, TypeOK, store
  <2>6. JobOK'
    BY <1>4, <2>3, <2>4 DEF SeeApproval, Goto, TypeOK, JobOK, store
  <2> QED  BY <1>4, <2>5, <2>6, AnswersUntouched DEF SeeApproval, store
<1>5. CASE HopInPlace(s)
  <2>1. job[s].to \in Seats /\ Commit(s, job[s].to)
    BY <1>5 DEF HopInPlace, JobOK
  <2>2. TypeOK'
    BY <1>0, <1>5, <2>1, CommitSpends DEF HopInPlace, Goto, TypeOK
  <2>3. JobOK'
    BY <1>0, <1>5 DEF HopInPlace, Goto, JobOK, TypeOK
  <2> QED  BY <2>1, <2>2, <2>3, CommitSpends
<1>6. CASE HopRefused(s)
  <2>1. job[s].to \in Seats /\ AskUser(s, job[s].to, TRUE)
    BY <1>6 DEF HopRefused, JobOK
  <2>2. Undo(s) \in Seats
    BY <1>0, <1>6 DEF HopRefused, Undo, JobOK
  <2>3. TypeOK'
    BY <1>0, <1>6, <2>1, <2>2, AskingKeepsTypes DEF HopRefused, Goto, TypeOK
  <2>4. JobOK'
    BY <1>0, <1>6 DEF HopRefused, Goto, JobOK, TypeOK
  <2> QED  BY <1>6, <2>3, <2>4, AnswersUntouched DEF HopRefused
<1>7. CASE StopChild(s)
  <2>1. TypeOK'
    BY <1>0, <1>7 DEF StopChild, Goto, TypeOK, store
  <2>2. JobOK'
    BY <1>7 DEF StopChild, Goto, TypeOK, JobOK, store
  <2> QED  BY <1>7, <2>1, <2>2, AnswersUntouched DEF StopChild, store
<1>8. CASE KeepChild(s)
  <2>1. Undo(s) \in Seats
    BY <1>0, <1>8 DEF KeepChild, Undo, JobOK
  <2>2. TypeOK'
    BY <1>0, <1>8, <2>1 DEF KeepChild, Goto, TypeOK
  <2>3. JobOK'
    BY <1>0, <1>8 DEF KeepChild, Goto, TypeOK, JobOK
  <2> QED  BY <1>8, <2>2, <2>3, AnswersUntouched DEF KeepChild
<1>9. CASE MarkSession(s)
  <2>1. TypeOK'
    BY <1>0, <1>9 DEF MarkSession, Goto, TypeOK, store, Jobs
  <2>2. JobOK'
    BY <1>0, <1>9 DEF MarkSession, Goto, TypeOK, JobOK, store
  <2> QED  BY <1>9, <2>1, <2>2, AnswersUntouched DEF MarkSession, store
<1>10. CASE ExitCommit(s)
  <2>1. ExitLanding(s) \in Seats /\ Commit(s, ExitLanding(s))
    BY <1>0, <1>10 DEF ExitCommit, ExitLanding, JobOK
  <2>2. Relaunch(ExitLanding(s)) \in Jobs
    BY <1>0, <2>1 DEF Relaunch, NoJob, Jobs
  <2>3. seen' \in [Sessions -> Clicks]
    BY <1>10 DEF ExitCommit, TypeOK
  <2>4. TypeOK'
    BY <1>0, <1>10, <2>1, <2>2, <2>3, CommitSpends DEF ExitCommit, Goto, TypeOK
  <2>5. JobOK'
    BY <1>0, <1>10 DEF ExitCommit, Goto, JobOK, TypeOK
  <2> QED  BY <2>1, <2>4, <2>5, CommitSpends
<1>11. CASE ExitLapsed(s)
  <2>1. ExitLanding(s) \in Seats
    BY <1>0, <1>11 DEF ExitLapsed, ExitLanding, JobOK
  <2>2. Relaunch(billed[s]) \in Jobs
    BY <1>0 DEF Relaunch, NoJob, Jobs
  <2>3. /\ pend' \in [Sessions -> Dirs \cup {None}]
        /\ asked' \in [Sessions -> SUBSET Dirs]
        /\ requests' \subseteq Dirs \X Sessions
        /\ seen' \in [Sessions -> Clicks]
    <3>1. CASE job[s].why = "manual"
      <4>1. AskUser(s, ExitLanding(s), TRUE) /\ seen' = [seen EXCEPT ![s] = click]
        BY <1>11, <3>1 DEF ExitLapsed
      <4> QED  BY <4>1, <2>1, AskingKeepsTypes DEF TypeOK
    <3>2. CASE job[s].why # "manual"
      BY <1>11, <3>2 DEF ExitLapsed, TypeOK
    <3> QED  BY <3>1, <3>2
  <2>4. TypeOK'
    BY <1>0, <1>11, <2>2, <2>3 DEF ExitLapsed, Goto, TypeOK
  <2>5. JobOK'
    BY <1>0, <1>11 DEF ExitLapsed, Goto, JobOK, TypeOK
  <2> QED  BY <1>11, <2>4, <2>5, AnswersUntouched DEF ExitLapsed
<1>12. CASE Recover(s)
  <2>1. TypeOK'
    BY <1>12 DEF Recover, TypeOK, QuestionsOf
  <2>2. JobOK'
    BY <1>12 DEF Recover, JobOK
  <2> QED  BY <1>12, <2>1, <2>2, AnswersUntouched DEF Recover
<1>13. CASE Withdraw(s)
  <2>1. TypeOK'
    BY <1>0, <1>13 DEF Withdraw, Goto, TypeOK, QuestionsOf
  <2>2. JobOK'
    BY <1>0, <1>13 DEF Withdraw, Goto, TypeOK, JobOK
  <2> QED  BY <1>13, <2>1, <2>2, AnswersUntouched DEF Withdraw
<1>14. ASSUME NEW how \in {"ended", "crashed"}, Gone(s, how),
              UNCHANGED <<store, billed, home, allowed>>
       PROVE  IInv'
  <2>1. NoClick \in Clicks
    BY CrossingConstants DEF NoClick, Clicks
  <2>2. TypeOK'
    BY <1>0, <1>14, <2>1 DEF Gone, Goto, TypeOK, store
  <2>3. JobOK'
    BY <1>0, <1>14 DEF Gone, Goto, TypeOK, JobOK, store
  <2> QED  BY <1>14, <2>2, <2>3, AnswersUntouched DEF store
<1>15. CASE ClearSession(s)
  BY <1>14, <1>15 DEF ClearSession
<1>16. CASE Crash(s)
  BY <1>14, <1>16 DEF Crash
<1> QED  BY <1>1, <1>2, <1>3, <1>4, <1>5, <1>6, <1>7, <1>8, <1>9, <1>10, <1>11,
            <1>12, <1>13, <1>15, <1>16 DEF Launcher, Move, Exit

-----------------------------------------------------------------------------
\* A click grants at most one use to each session it asks about.
LEMMA ClickGrants ==
  ASSUME IInv, NEW e \in Seats, NEW confirmed \in BOOLEAN, ClickSeat(e, confirmed)
  PROVE  IInv'
<1> USE DEF IInv
<1> DEFINE Asks       == {<<<<mark[s], e>>, s>> : s \in Crossing(e)}
           Uses(d)    == Cardinality({s \in Crossing(e) : <<mark[s], e>> = d})
           closed     == Chosen(e) \cup (IF confirmed THEN {q[1] : q \in Asks} ELSE {})
           After(d)   == IF d \in Chosen(e) /\ approvals[d].scope = "once"
                         THEN NoYes ELSE approvals[d]
           granted(d) == confirmed /\ Uses(d) > 0 /\ After(d).scope # "always"
           yes(d)     == IF granted(d) THEN Once(Uses(d)) ELSE After(d)
           left(d)    == IF granted(d) THEN Uses(d)
                         ELSE IF d \in Chosen(e) THEN 0 ELSE allowed[d]
<1>1. /\ requests' = (requests \ QuestionsIn(closed)) \cup (IF confirmed THEN {} ELSE Asks)
      /\ approvals' = [d \in Dirs |-> yes(d)]
      /\ allowed' = [d \in Dirs |-> left(d)]
      /\ active' = e /\ click' = [id |-> click.id + 1, seat |-> e]
      /\ click.id < MaxClicks
      /\ UNCHANGED <<crossingAuto, autoSwitch, rested, session>>
  BY DEF ClickSeat
<1>2. ASSUME NEW d \in Dirs
      PROVE  Uses(d) \in Nat /\ Uses(d) <= Cardinality(Sessions)
  <2>1. {s \in Crossing(e) : <<mark[s], e>> = d} \subseteq Sessions
    BY DEF Crossing, Alive
  <2> QED  BY <2>1, CrossingConstants, FS_Subset, FS_CardinalityType
<1>3. ASSUME NEW d \in Dirs
      PROVE  After(d) \in Answers /\ (d \in Chosen(e) => After(d).uses = 0)
                                 /\ (d \notin Chosen(e) => After(d) = approvals[d])
  <2>1. approvals[d] \in Answers
    BY DEF TypeOK
  <2>2. approvals[d].scope # "once" => approvals[d].uses = 0
    BY <2>1, AnswerFacts DEF Answers
  <2> QED  BY <2>1, <2>2, AnswerFacts
<1>4. ASSUME NEW d \in Dirs
      PROVE  yes(d) \in Answers /\ left(d) \in Int /\ left(d) = yes(d).uses
  <2>1. Cardinality(Sessions) \in Nat
    BY CrossingConstants, FS_CardinalityType
  <2>2. CASE granted(d)
    <3>1. Uses(d) \in 1..Cardinality(Sessions)
      BY <2>1, <2>2, <1>2
    <3> HIDE DEF Uses
    <3>2. Once(Uses(d)) \in Answers /\ Once(Uses(d)).uses = Uses(d)
      BY <3>1, AnswerFacts
    <3> QED  BY <2>2, <3>1, <3>2
  <2>3. CASE ~granted(d)
    <3>1. yes(d) = After(d) /\ left(d) = IF d \in Chosen(e) THEN 0 ELSE allowed[d]
      BY <2>3
    <3>2. allowed[d] \in Int /\ allowed[d] = approvals[d].uses
      BY DEF TypeOK, UsesAreAllowed
    <3> HIDE DEF yes, left, After
    <3> QED  BY <3>1, <3>2, <1>3
  <2> QED  BY <2>2, <2>3
<1>5. Asks \subseteq Dirs \X Sessions
  <2>1. ASSUME NEW s \in Crossing(e)
        PROVE  <<<<mark[s], e>>, s>> \in Dirs \X Sessions
    BY DEF Crossing, Alive, Dirs, TypeOK
  <2> QED  BY <2>1
<1> HIDE DEF Asks, Uses, closed, After, granted, yes, left
<1>6. approvals' \in [Dirs -> Answers] /\ allowed' \in [Dirs -> Int] /\ UsesAreAllowed'
  BY <1>1, <1>4 DEF UsesAreAllowed
<1>7. click' \in Clicks
  BY <1>1, CrossingConstants DEF Clicks, TypeOK
<1>8. requests' \subseteq Dirs \X Sessions
  BY <1>1, <1>5 DEF QuestionsIn, TypeOK
<1>9. TypeOK'
  BY <1>1, <1>6, <1>7, <1>8 DEF TypeOK, session
<1>10. JobOK'
  BY <1>1 DEF JobOK, session
<1> QED  BY <1>6, <1>9, <1>10

\* One entry of a map, rewritten.
Rewritten(f, d, x) == [f EXCEPT ![d] = x]

\* The user writes one answer, and closes its questions.
LEMMA AnswerWritten ==
  ASSUME IInv, NEW d \in Dirs, NEW a \in Answers, NEW n \in Int, n = a.uses,
         approvals' = Rewritten(approvals, d, a),
         allowed' = Rewritten(allowed, d, n),
         requests' \subseteq requests,
         UNCHANGED <<active, click, crossingAuto, autoSwitch, rested, session>>
  PROVE  IInv'
<1>1. TypeOK'
  BY DEF IInv, TypeOK, session, Rewritten
<1>2. JobOK'
  BY DEF IInv, JobOK, session
<1>3. UsesAreAllowed'
  BY DEF IInv, UsesAreAllowed, TypeOK, Rewritten
<1> QED  BY <1>1, <1>2, <1>3 DEF IInv

\* A step of the user or the app.
LEMMA UserInv ==
  ASSUME IInv, User
  PROVE  IInv'
<1>2. ASSUME NEW e \in Seats, NEW confirmed \in BOOLEAN, ClickSeat(e, confirmed)
      PROVE  IInv'
  BY <1>2, ClickGrants
<1>3. ASSUME NEW d \in Dirs, NEW scope \in {"once", "always"}, Approve(d, scope)
      PROVE  IInv'
  <2>1. requests' \subseteq requests
    BY <1>3 DEF Approve, QuestionsIn
  <2>2. CASE scope = "once" /\ approvals[d].scope = "always"
    <3>1. UNCHANGED <<approvals, allowed>>
      BY <1>3, <2>2 DEF Approve
    <3> QED  BY <1>3, <2>1, <3>1, AnswersUntouched DEF Approve, IInv, TypeOK, JobOK, session
  <2>3. CASE scope = "once" /\ approvals[d].scope # "always"
    <3>1. /\ approvals' = Rewritten(approvals, d, Once(1))
          /\ allowed' = Rewritten(allowed, d, 1)
      BY <1>3, <2>3 DEF Approve, Rewritten
    <3>2. Once(1) \in Answers /\ Once(1).uses = 1
      <4>1. Cardinality(Sessions) \in Nat /\ Cardinality(Sessions) # 0
        BY CrossingConstants, FS_CardinalityType, FS_EmptySet
      <4>2. 1 \in 1..Cardinality(Sessions)
        BY <4>1
      <4> QED  BY <4>2, AnswerFacts
    <3>3. UNCHANGED <<active, click, crossingAuto, autoSwitch, rested, session>>
      BY <1>3 DEF Approve
    <3> QED  BY <2>1, <3>1, <3>2, <3>3, AnswerWritten
  <2>4. CASE scope = "always"
    <3>1. /\ approvals' = Rewritten(approvals, d, Always)
          /\ allowed' = Rewritten(allowed, d, 0)
      BY <1>3, <2>4 DEF Approve, Rewritten
    <3>2. UNCHANGED <<active, click, crossingAuto, autoSwitch, rested, session>>
      BY <1>3 DEF Approve
    <3>3. Always \in Answers /\ Always.uses = 0
      BY AnswerFacts
    <3> QED  BY <2>1, <3>1, <3>2, <3>3, AnswerWritten
  <2> QED  BY <2>2, <2>3, <2>4
<1>4. ASSUME NEW d \in Dirs, Deny(d) \/ Lapse(d)
      PROVE  IInv'
  <2>1. /\ approvals' = Rewritten(approvals, d, NoYes)
        /\ allowed' = Rewritten(allowed, d, 0)
        /\ requests' \subseteq requests
        /\ UNCHANGED <<active, click, crossingAuto, autoSwitch, rested, session>>
    BY <1>4 DEF Deny, Lapse, QuestionsIn, Rewritten
  <2>2. NoYes \in Answers /\ NoYes.uses = 0
    BY AnswerFacts
  <2> QED  BY <2>1, <2>2, AnswerWritten
<1>5. CASE SetCrossingAuto \/ SetAutoSwitch
  BY <1>5, AnswersUntouched DEF SetCrossingAuto, SetAutoSwitch, IInv, TypeOK, JobOK, session
<1>6. ASSUME NEW e \in Seats, AppHandoff(e)
      PROVE  IInv'
  <2>1. active \in Seats
    BY DEF IInv, TypeOK
  <2>2. /\ approvals' \in [Dirs -> Answers] /\ allowed' \in [Dirs -> Int]
        /\ UsesAreAllowed'
    BY <1>6, <2>1, ConsumeSpends DEF AppHandoff, IInv, UsesAreAllowed
  <2>3. TypeOK'
    BY <1>6, <2>2 DEF AppHandoff, IInv, TypeOK, session
  <2>4. JobOK'
    BY <1>6 DEF AppHandoff, IInv, JobOK, session
  <2> QED  BY <2>2, <2>3, <2>4 DEF IInv
<1>7. ASSUME NEW e \in Seats, Rest(e)
      PROVE  IInv'
  BY <1>7, AnswersUntouched DEF Rest, IInv, TypeOK, JobOK, session
<1> QED  BY <1>2, <1>3, <1>4, <1>5, <1>6, <1>7 DEF User

\* A stuttering step.
LEMMA StutterInv ==
  ASSUME IInv, UNCHANGED vars
  PROVE  IInv'
BY AnswersUntouched DEF IInv, TypeOK, JobOK, vars, store, session

\* The invariant holds in every reachable state: each locked write of seatkind keeps the
\* store's uses and the user's consent equal.
THEOREM Invariance == Spec => []IInv
<1>1. IInv /\ [Next]_vars => IInv'
  BY LauncherInv, UserInv, StutterInv DEF Next
<1> QED  BY InitInv, <1>1, PTL DEF Spec

\* The shapes of the store and of every session's memory, for any number of them.
THEOREM TypeCorrect == Spec => []TypeOK
<1>1. IInv => TypeOK
  BY DEF IInv
<1> QED  BY Invariance, <1>1, PTL

\* No session crosses business and personal beyond what the user allowed, however many
\* sessions decide on the same answer before one of them commits (_spend_crossing).
THEOREM Consent == Spec => []ConsentCoversEveryMove
<1>1. IInv => ConsentCoversEveryMove
  BY AnswerFacts DEF IInv, TypeOK, UsesAreAllowed, ConsentCoversEveryMove
<1> QED  BY Invariance, <1>1, PTL
=============================================================================
