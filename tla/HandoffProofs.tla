---------------------------- MODULE HandoffProofs ----------------------------
(***************************************************************************)
(* Consent for paid use, for any number of launchers that share the store. *)
(* KillSwitchWins is not inductive alone: that a withdrawn record cannot   *)
(* come back needs that a launcher has one record per run, and that nobody *)
(* is on the way to a paid child while a record stands.                    *)
(***************************************************************************)
EXTENDS Handoff, TLAPS

\* A launcher whose record stands waits for it, gave it up, or is gone.
Waiting == {"wait", "close", "closed", "crashed"}

\* Only an approved record, never withdrawn, leads to a paid child.
ApprovedByYes == \A l \in Launchers : rec[l] = "approved" => yes[l] # "none"
GrantedByYes  == \A l \in Launchers : lpc[l] \in Granted => yes[l] # "none" /\ ~revoked[l]

\* One record per launcher, made once.
RecordHasItsLauncher ==
  \A l \in Launchers : rec[l] # "none" => lpc[l] \in Waiting /\ attempted[l]
AttemptedOnce ==
  \A l \in Launchers : lpc[l] \notin {"run", "ended", "crashed"} => attempted[l]

\* What was withdrawn stays closed.
RevokedIsOver ==
  \A l \in Launchers : revoked[l] =>
    rec[l] \notin Open /\ lpc[l] \notin {"offer", "ask"} /\ attempted[l]

IInv == /\ TypeOK /\ ApprovedByYes /\ GrantedByYes
        /\ RecordHasItsLauncher /\ AttemptedOnce /\ RevokedIsOver

\* Retiring records opens none and approves none.
LEMMA RefreshRetires ==
  ASSUME TypeOK
  PROVE  /\ Refreshed(rec) \in [Launchers -> Statuses]
         /\ \A l \in Launchers :
              /\ (Refreshed(rec)[l] \in Open => Refreshed(rec)[l] = rec[l])
              /\ (Refreshed(rec)[l] = "none" <=> rec[l] = "none")
BY DEF Refreshed, TypeOK, Statuses, Open

\* So does the kill switch, and then the refresh.
LEMMA WithdrawCloses ==
  ASSUME TypeOK
  PROVE  /\ Withdrawn(rec) \in [Launchers -> Statuses]
         /\ \A l \in Launchers : /\ Withdrawn(rec)[l] \notin Open
                                 /\ (Withdrawn(rec)[l] = "none" <=> rec[l] = "none")
         /\ Refreshed(Withdrawn(rec)) \in [Launchers -> Statuses]
         /\ \A l \in Launchers :
              /\ Refreshed(Withdrawn(rec))[l] \notin Open
              /\ (Refreshed(Withdrawn(rec))[l] = "none" <=> rec[l] = "none")
BY DEF Refreshed, Withdrawn, TypeOK, Statuses, Open

\* The invariant holds initially.
LEMMA InitInv == Init => IInv
BY DEF Init, IInv, TypeOK, ApprovedByYes, GrantedByYes, RecordHasItsLauncher,
       AttemptedOnce, RevokedIsOver, Statuses, Open, Places, Granted

\* A step of the user.
LEMMA UserInv ==
  ASSUME IInv, User
  PROVE  IInv'
<1> USE DEF IInv
<1>1. ASSUME NEW l \in Launchers, NEW approve \in BOOLEAN, Answer(l, approve)
      PROVE  IInv'
  <2>1. CASE Refreshed(rec)[l] = "pending"
    <3>1. /\ rec' = [Refreshed(rec) EXCEPT ![l] = IF approve THEN "approved" ELSE "declined"]
          /\ yes' = IF approve THEN [yes EXCEPT ![l] = "user"] ELSE yes
          /\ UNCHANGED <<store, due, revoked, launcher>>
      BY <1>1, <2>1 DEF Answer
    <3>2. rec[l] = "pending"
      BY <2>1, RefreshRetires DEF Open
    <3> HIDE DEF Refreshed
    <3>3. TypeOK'
      BY <3>1, RefreshRetires DEF TypeOK, Statuses, Open, store, launcher
    <3>4. ApprovedByYes' /\ GrantedByYes'
      BY <3>1, RefreshRetires
         DEF TypeOK, ApprovedByYes, GrantedByYes, Open, launcher
    <3>5. RecordHasItsLauncher' /\ AttemptedOnce' /\ RevokedIsOver'
      BY <3>1, <3>2, RefreshRetires
         DEF TypeOK, RecordHasItsLauncher, AttemptedOnce, RevokedIsOver, Open, launcher
    <3> QED  BY <3>3, <3>4, <3>5
  <2>2. CASE Refreshed(rec)[l] # "pending"
    <3>1. rec' = Refreshed(rec) /\ UNCHANGED <<store, due, yes, revoked, launcher>>
      BY <1>1, <2>2 DEF Answer
    <3> QED  BY <3>1, RefreshRetires
                DEF TypeOK, ApprovedByYes, GrantedByYes, RecordHasItsLauncher,
                    AttemptedOnce, RevokedIsOver, Open, store, launcher
  <2> QED  BY <2>1, <2>2
<1>2. CASE ListPending
  BY <1>2, RefreshRetires
     DEF ListPending, TypeOK, ApprovedByYes, GrantedByYes, RecordHasItsLauncher,
         AttemptedOnce, RevokedIsOver, Open, store, launcher
<1>3. CASE TurnOff
  <2>1. TypeOK'
    BY <1>3, WithdrawCloses DEF TurnOff, TypeOK, launcher
  <2>2. ApprovedByYes' /\ RecordHasItsLauncher' /\ AttemptedOnce'
    BY <1>3, WithdrawCloses
       DEF TurnOff, ApprovedByYes, RecordHasItsLauncher, AttemptedOnce, Open, launcher
  <2>3. GrantedByYes' /\ RevokedIsOver'
    BY <1>3, WithdrawCloses
       DEF TurnOff, GrantedByYes, RevokedIsOver, RecordHasItsLauncher, Waiting, Granted,
           Open, launcher
  <2> QED  BY <2>1, <2>2, <2>3
<1>4. CASE EditOff \/ TurnOn \/ SetConfirm \/ Seats
  BY <1>4 DEF EditOff, TurnOn, SetConfirm, Seats, TypeOK, ApprovedByYes, GrantedByYes,
              RecordHasItsLauncher, AttemptedOnce, RevokedIsOver, records, launcher
<1> QED  BY <1>1, <1>2, <1>3, <1>4 DEF User

\* A launcher that goes somewhere, with its record untouched.
LEMMA MovesOn ==
  ASSUME IInv, NEW l \in Launchers, NEW place \in Places, Goto(l, place),
         UNCHANGED <<store, records>>,
         alive' \in [Launchers -> BOOLEAN], child' \in [Launchers -> BOOLEAN],
         attempted' \in [Launchers -> BOOLEAN],
         \A k \in Launchers : attempted[k] => attempted'[k],
         place \notin {"run", "ended", "crashed"} => attempted'[l],
         place \in Granted => lpc[l] \in Granted,
         rec[l] # "none" => place \in Waiting,
         place \in {"offer", "ask"} => ~revoked[l]
  PROVE  IInv'
<1> USE DEF IInv
<1>1. TypeOK'
  BY DEF TypeOK, Goto, store, records
<1>2. ApprovedByYes' /\ GrantedByYes'
  BY DEF TypeOK, ApprovedByYes, GrantedByYes, Goto, records
<1>3. RecordHasItsLauncher' /\ AttemptedOnce' /\ RevokedIsOver'
  BY DEF TypeOK, RecordHasItsLauncher, AttemptedOnce, RevokedIsOver, Goto, records
<1> QED  BY <1>1, <1>2, <1>3

\* A launcher's poll.
LEMMA PollInv ==
  ASSUME IInv, NEW l \in Launchers, Poll(l)
  PROVE  IInv'
<1> USE DEF IInv
<1> DEFINE now == Refreshed(IF fallback THEN rec ELSE Withdrawn(rec))
<1>1. /\ now \in [Launchers -> Statuses]
      /\ \A k \in Launchers : /\ (now[k] \in Open => now[k] = rec[k])
                              /\ (now[k] = "none" <=> rec[k] = "none")
  BY RefreshRetires, WithdrawCloses
<1>2. /\ lpc[l] = "wait"
      /\ IF now[l] = "pending"
         THEN rec' = now /\ UNCHANGED lpc
         ELSE rec' = [now EXCEPT ![l] = "none"] /\ Goto(l, After(l, now[l]))
      /\ UNCHANGED <<store, due, yes, revoked, alive, attempted, child>>
  BY DEF Poll
<1> HIDE DEF now
<1>3. CASE now[l] = "pending"
  BY <1>1, <1>2, <1>3
     DEF TypeOK, ApprovedByYes, GrantedByYes, RecordHasItsLauncher, AttemptedOnce,
         RevokedIsOver, Open, store
<1>4. CASE now[l] # "pending"
  <2> DEFINE place == After(l, now[l])
  <2>1. /\ place \in {"approved", "activate", "run", "ended"}
        /\ place \in {"approved", "activate"} => now[l] = "approved"
    BY DEF After
  <2>2. place \in {"approved", "activate"} => rec[l] = "approved"
    BY <1>1, <2>1 DEF Open
  <2>3. rec' = [now EXCEPT ![l] = "none"] /\ lpc' = [lpc EXCEPT ![l] = place]
    BY <1>2, <1>4 DEF Goto
  <2> HIDE DEF place
  <2>4. TypeOK'
    BY <1>1, <1>2, <2>1, <2>3 DEF TypeOK, Statuses, Places, Granted, store
  <2>5. ApprovedByYes' /\ GrantedByYes'
    BY <1>1, <1>2, <2>1, <2>2, <2>3
       DEF TypeOK, ApprovedByYes, GrantedByYes, RevokedIsOver, Granted, Open
  <2>6. RecordHasItsLauncher' /\ AttemptedOnce' /\ RevokedIsOver'
    BY <1>1, <1>2, <2>1, <2>3
       DEF TypeOK, RecordHasItsLauncher, AttemptedOnce, RevokedIsOver, Open
  <2> QED  BY <2>4, <2>5, <2>6
<1> QED  BY <1>3, <1>4

\* A step of a launcher.
LEMMA LauncherInv ==
  ASSUME IInv, NEW l \in Launchers, Launcher(l)
  PROVE  IInv'
<1>types. /\ lpc \in [Launchers -> Places] /\ alive \in [Launchers -> BOOLEAN]
      /\ child \in [Launchers -> BOOLEAN] /\ attempted \in [Launchers -> BOOLEAN]
  BY DEF IInv, TypeOK
<1>record. rec[l] # "none" => lpc[l] \in Waiting
  BY DEF IInv, RecordHasItsLauncher
<1>once. lpc[l] \notin {"run", "ended", "crashed"} => attempted[l]
  BY DEF IInv, AttemptedOnce
<1>revoked. revoked[l] => attempted[l] /\ lpc[l] \notin {"offer", "ask"}
  BY DEF IInv, RevokedIsOver
<1> USE DEF Waiting, Places, Granted
<1>1. CASE Offer(l)
  BY <1>types, <1>record, <1>revoked, <1>1, MovesOn DEF Offer
<1>2. CASE Recheck(l)
  BY <1>types, <1>record, <1>once, <1>revoked, <1>2, MovesOn DEF Recheck
<1>3. CASE Ask(l)
  <2>1. TypeOK'
    BY <1>3, RefreshRetires DEF IInv, Ask, Goto, TypeOK, Statuses, Open, store
  <2>2. ApprovedByYes' /\ GrantedByYes'
    BY <1>3, RefreshRetires
       DEF IInv, Ask, Goto, TypeOK, ApprovedByYes, GrantedByYes, Open
  <2>3. RecordHasItsLauncher' /\ AttemptedOnce' /\ RevokedIsOver'
    BY <1>once, <1>revoked, <1>3, RefreshRetires
       DEF IInv, Ask, Goto, TypeOK, RecordHasItsLauncher, AttemptedOnce, RevokedIsOver,
           Open
  <2> QED  BY <2>1, <2>2, <2>3 DEF IInv
<1>4. CASE Poll(l)
  BY <1>4, PollInv
<1>5. CASE Check(l)
  <2>1. lpc[l] \in {"approved", "activate", "prepared", "marked"}
    BY <1>5 DEF Check, NextPlace
  <2>2. PICK place \in {"activate", "prepared", "marked", "spawn", "run", "ended"} :
          Goto(l, place)
    BY <1>5, <2>1 DEF Check, NextPlace
  <2>3. child' \in [Launchers -> BOOLEAN] /\ UNCHANGED <<store, records, alive, attempted>>
    BY <1>types, <1>5 DEF Check
  <2> QED  BY <1>types, <1>record, <1>once, <2>1, <2>2, <2>3, MovesOn
<1>6. CASE PrepareFails(l) \/ KeyTick(l)
  BY <1>types, <1>record, <1>once, <1>6, MovesOn DEF PrepareFails, KeyTick
<1>7. CASE Spawn(l)
  BY <1>types, <1>record, <1>once, <1>7, MovesOn DEF Spawn
<1>8. CASE ChildExits(l)
  <2>1. CASE lpc[l] = "wait" /\ child' = [child EXCEPT ![l] = FALSE]
                /\ UNCHANGED <<store, records, alive, attempted, lpc>>
    <3>1. Goto(l, "wait")
      BY <1>types, <2>1 DEF Goto
    <3> QED  BY <1>types, <1>once, <2>1, <3>1, MovesOn
  <2>2. CASE lpc[l] \in {"run", "paying"} /\ Goto(l, "ended")
                /\ UNCHANGED <<store, records, alive, attempted, child>>
    BY <1>types, <1>record, <2>2, MovesOn
  <2> QED  BY <1>8, <2>1, <2>2 DEF ChildExits
<1>9. CASE Abort(l)
  BY <1>types, <1>once, <1>9, MovesOn DEF Abort
<1>10. CASE CloseAnswer(l)
  <2>1. TypeOK'
    BY <1>10, RefreshRetires DEF IInv, CloseAnswer, Goto, TypeOK, Statuses, store
  <2>2. ApprovedByYes' /\ GrantedByYes'
    BY <1>10, RefreshRetires
       DEF IInv, CloseAnswer, Goto, TypeOK, ApprovedByYes, GrantedByYes, Open
  <2>3. RecordHasItsLauncher' /\ AttemptedOnce' /\ RevokedIsOver'
    BY <1>once, <1>10, RefreshRetires
       DEF IInv, CloseAnswer, Goto, TypeOK, RecordHasItsLauncher, AttemptedOnce,
           RevokedIsOver, Open
  <2> QED  BY <2>1, <2>2, <2>3 DEF IInv
<1>11. CASE CloseResolve(l)
  <2>1. TypeOK'
    BY <1>11, RefreshRetires DEF IInv, CloseResolve, Goto, TypeOK, Statuses, store
  <2>2. ApprovedByYes' /\ GrantedByYes'
    BY <1>11, RefreshRetires
       DEF IInv, CloseResolve, Goto, TypeOK, ApprovedByYes, GrantedByYes, Open
  <2>3. RecordHasItsLauncher' /\ AttemptedOnce' /\ RevokedIsOver'
    BY <1>11, RefreshRetires
       DEF IInv, CloseResolve, Goto, TypeOK, RecordHasItsLauncher, AttemptedOnce,
           RevokedIsOver, Open
  <2> QED  BY <2>1, <2>2, <2>3 DEF IInv
<1>12. CASE Crash(l)
  BY <1>types, <1>12, MovesOn DEF Crash
<1> QED  BY <1>1, <1>2, <1>3, <1>4, <1>5, <1>6, <1>7, <1>8, <1>9, <1>10, <1>11, <1>12
            DEF Launcher

\* Every step preserves the invariant.
LEMMA NextInv == IInv /\ [Next]_vars => IInv'
<1> SUFFICES ASSUME IInv, [Next]_vars PROVE IInv'
  OBVIOUS
<1>1. ASSUME NEW l \in Launchers, Deadline(l) PROVE IInv'
  BY <1>1 DEF Deadline, IInv, TypeOK, ApprovedByYes, GrantedByYes, RecordHasItsLauncher,
              AttemptedOnce, RevokedIsOver, store, launcher
<1>2. CASE UNCHANGED vars
  BY <1>2 DEF IInv, TypeOK, ApprovedByYes, GrantedByYes, RecordHasItsLauncher,
              AttemptedOnce, RevokedIsOver, vars, store, records, launcher
<1> QED  BY <1>1, <1>2, UserInv, LauncherInv DEF Next

\* The invariant holds in every reachable state, for any number of launchers.
THEOREM Invariance == Spec => []IInv
BY InitInv, NextInv, PTL DEF Spec

\* Every record, switch and launcher keeps its type, for any number of launchers.
THEOREM TypeCorrect == Spec => []TypeOK
<1>1. IInv => TypeOK
  BY DEF IInv
<1> QED  BY Invariance, <1>1, PTL

\* A paid child runs only on a recorded yes.
THEOREM PaidByConsent == Spec => []PaidOnlyWithConsent
<1>1. IInv => PaidOnlyWithConsent
  BY DEF IInv, GrantedByYes, PaidOnlyWithConsent
<1> QED  BY Invariance, <1>1, PTL

\* Switching paid use off outlives every approval that was not yet consumed, through
\* the setting being switched on again (handoff.withdraw in set_setting).
THEOREM KillSwitch == Spec => []KillSwitchWins
<1>1. IInv => KillSwitchWins
  BY DEF IInv, GrantedByYes, KillSwitchWins
<1> QED  BY Invariance, <1>1, PTL

\* No invitation outlives the launcher that ended in order.
THEOREM NoInvitationLeft == Spec => []EndedAsksNothing
<1>1. IInv => EndedAsksNothing
  BY DEF IInv, RecordHasItsLauncher, Waiting, EndedAsksNothing
<1> QED  BY Invariance, <1>1, PTL

\* An open question that survives a refresh is one of a living launcher, in time.
LEMMA OpenIsInTime ==
  ASSUME TypeOK, NEW l \in Launchers, Refreshed(rec)[l] = "pending"
  PROVE  rec[l] = "pending" /\ alive[l] /\ ~due[l]
BY DEF Refreshed, TypeOK, Statuses

\* A step approves a record only where the launcher asks or the question is open.
LEMMA ApprovesInTime ==
  ASSUME IInv, [Next]_vars, NEW k \in Launchers, rec'[k] = "approved", rec[k] # "approved"
  PROVE  lpc[k] = "ask" \/ (rec[k] = "pending" /\ alive[k] /\ ~due[k])
<1>types. TypeOK
  BY DEF IInv
<1>refreshed. Refreshed(rec)[k] # "approved" /\ Refreshed(Withdrawn(rec))[k] # "approved"
              /\ Withdrawn(rec)[k] # "approved"
  BY <1>types, RefreshRetires, WithdrawCloses DEF Open
<1>1. ASSUME NEW l \in Launchers, NEW approve \in BOOLEAN, Answer(l, approve)
      PROVE  rec[k] = "pending" /\ alive[k] /\ ~due[k]
  <2>1. Refreshed(rec)[l] = "pending" /\ k = l
    <3> HIDE DEF Refreshed
    <3> QED  BY <1>1, <1>refreshed, <1>types, RefreshRetires DEF Answer
  <2> QED  BY <1>types, <2>1, OpenIsInTime
<1>2. CASE ListPending \/ TurnOff
  BY <1>2, <1>refreshed DEF ListPending, TurnOff
<1>3. CASE EditOff \/ TurnOn \/ SetConfirm \/ Seats
  BY <1>3 DEF EditOff, TurnOn, SetConfirm, Seats, records
<1>4. ASSUME NEW l \in Launchers, Ask(l) PROVE lpc[k] = "ask"
  BY <1>4, <1>refreshed, <1>types, RefreshRetires DEF Ask
<1>5. ASSUME NEW l \in Launchers, Poll(l) PROVE FALSE
  <2> DEFINE now == Refreshed(IF fallback THEN rec ELSE Withdrawn(rec))
  <2>1. now \in [Launchers -> Statuses] /\ now[k] # "approved"
    BY <1>refreshed, <1>types, RefreshRetires, WithdrawCloses
  <2>2. rec' = now \/ rec' = [now EXCEPT ![l] = "none"]
    BY <1>5 DEF Poll
  <2> HIDE DEF now
  <2> QED  BY <2>1, <2>2
<1>6. ASSUME NEW l \in Launchers, CloseAnswer(l) \/ CloseResolve(l) PROVE FALSE
  BY <1>6, <1>refreshed, <1>types, RefreshRetires DEF CloseAnswer, CloseResolve
<1>7. ASSUME NEW l \in Launchers,
             \/ Offer(l) \/ Recheck(l) \/ Check(l) \/ PrepareFails(l) \/ Spawn(l) \/ KeyTick(l)
             \/ ChildExits(l) \/ Abort(l) \/ Crash(l) \/ Deadline(l)
      PROVE  FALSE
  BY <1>7 DEF Offer, Recheck, Check, PrepareFails, Spawn, KeyTick, ChildExits, Abort,
              Crash, Deadline, records
<1>8. CASE UNCHANGED vars
  BY <1>8 DEF vars, records
<1> QED  BY <1>1, <1>2, <1>3, <1>4, <1>5, <1>6, <1>7, <1>8 DEF Next, User, Launcher

\* A late click cannot win (handoff.py:72): a yes is recorded only for the open question
\* of a living launcher that is not overdue.
THEOREM LateClick == Spec => LateClickLoses
<1>1. IInv /\ [Next]_vars
      => [\A l \in Launchers :
            rec'[l] = "approved" /\ rec[l] # "approved"
              => lpc[l] = "ask" \/ (rec[l] = "pending" /\ alive[l] /\ ~due[l])]_vars
  BY ApprovesInTime
<1> QED  BY <1>1, Invariance, PTL DEF Spec, LateClickLoses
=============================================================================
