------------------------------- MODULE Handoff -------------------------------
(***************************************************************************)
(* Consent for a paid-per-token seat (acctsw/handoff.py) between a         *)
(* launcher that has run out of subscription seats and the user's answer   *)
(* in the app.  The records lie in the locked store; each action is one    *)
(* locked read-modify-write or one step of a launcher between two of them. *)
(***************************************************************************)
CONSTANT Launchers

VARIABLES
  \* the store
  fallback,   \* the setting key_fallback, the kill switch of paid use
  confirm,    \* the setting confirm_key_switch
  exhausted,  \* the rest of the policy: no subscription seat, the key unchanged
  rec,        \* status of each launcher's record, "none" when there is none
  due,        \* its expires_at has passed
  \* the launchers
  alive,      \* the process is there
  lpc,        \* how far it is with the paid seat
  attempted,  \* key_attempted
  child,      \* a subscription child is running
  \* history
  yes,        \* who approved the record: "none", "user" or "setting"
  revoked     \* paid use was switched off while the record stood

store == <<fallback, confirm, exhausted>>
records == <<rec, due, yes, revoked>>
launcher == <<alive, lpc, attempted, child>>
vars == <<store, records, launcher>>

Open     == {"pending", "approved"}
Statuses == Open \cup {"none", "declined", "expired", "dead", "withdrawn"}

\* From the consumed approval to the paid child.
Granted == {"approved", "activate", "prepared", "marked", "spawn", "paying"}
Places  == Granted \cup {"run", "offer", "ask", "wait", "close", "closed", "ended",
                         "crashed"}

Init ==
  /\ fallback \in BOOLEAN /\ confirm \in BOOLEAN /\ exhausted \in BOOLEAN
  /\ rec = [l \in Launchers |-> "none"] /\ due = [l \in Launchers |-> FALSE]
  /\ alive = [l \in Launchers |-> TRUE] /\ lpc = [l \in Launchers |-> "run"]
  /\ attempted = [l \in Launchers |-> FALSE]
  /\ child \in [Launchers -> BOOLEAN]
  /\ yes = [l \in Launchers |-> "none"] /\ revoked = [l \in Launchers |-> FALSE]

Eligible == fallback /\ exhausted

Goto(l, place) == lpc' = [lpc EXCEPT ![l] = place]

-----------------------------------------------------------------------------
(* The protocol of handoff.py. *)

\* Mutants: only unanswered records are withdrawn; nothing expires.
WithdrawnPending(f) == [l \in Launchers |-> IF f[l] = "pending" THEN "withdrawn" ELSE f[l]]

RefreshedDead(f) ==
  [l \in Launchers |-> IF f[l] \in {"pending", "approved", "declined"} /\ ~alive[l]
                       THEN "dead" ELSE f[l]]

Withdrawn(f) == [l \in Launchers |-> IF f[l] \in Open THEN "withdrawn" ELSE f[l]]

\* _refresh: every reader first retires the records of dead processes and the
\* questions whose time is over.
Refreshed(f) ==
  [l \in Launchers |->
     CASE f[l] \in {"pending", "approved", "declined"} /\ ~alive[l] -> "dead"
       [] f[l] = "pending" /\ alive[l] /\ due[l]                    -> "expired"
       [] OTHER                                                     -> f[l]]

\* request(): auto-approved when the user switched the confirmation off.
Ask(l) ==
  /\ lpc[l] = "ask"
  /\ rec' = [Refreshed(rec) EXCEPT ![l] = IF confirm THEN "pending" ELSE "approved"]
  /\ yes' = [yes EXCEPT ![l] = IF confirm THEN "none" ELSE "setting"]
  /\ Goto(l, "wait")
  /\ UNCHANGED <<store, due, revoked, alive, attempted, child>>

\* A mutant: the answer does not look at the clock, nor at the requester.
AnswerUnrefreshed(l, approve) ==
  /\ attempted[l]
  /\ IF rec[l] = "pending"
     THEN /\ rec' = [rec EXCEPT ![l] = IF approve THEN "approved" ELSE "declined"]
          /\ yes' = IF approve THEN [yes EXCEPT ![l] = "user"] ELSE yes
     ELSE UNCHANGED <<rec, yes>>
  /\ UNCHANGED <<store, due, revoked, launcher>>

\* answer(): the user clicks, in time or late, on a prompt that may be gone.
Answer(l, approve) ==
  /\ attempted[l]
  /\ IF Refreshed(rec)[l] = "pending"
     THEN /\ rec' = [Refreshed(rec) EXCEPT ![l] = IF approve THEN "approved" ELSE "declined"]
          /\ yes' = IF approve THEN [yes EXCEPT ![l] = "user"] ELSE yes
     ELSE rec' = Refreshed(rec) /\ UNCHANGED yes
  /\ UNCHANGED <<store, due, revoked, launcher>>

\* pending(): the app lists the prompts.
ListPending ==
  /\ rec' = Refreshed(rec)
  /\ UNCHANGED <<store, due, yes, revoked, launcher>>

Deadline(l) ==
  /\ rec[l] = "pending" /\ ~due[l]
  /\ due' = [due EXCEPT ![l] = TRUE]
  /\ UNCHANGED <<store, rec, yes, revoked, launcher>>

\* set_setting("key_fallback", False): the records are withdrawn in the same write.
TurnOff ==
  /\ fallback' = FALSE
  /\ rec' = Withdrawn(rec)
  /\ revoked' = [l \in Launchers |-> revoked[l] \/ rec[l] \in Open]
  /\ UNCHANGED <<confirm, exhausted, due, yes, launcher>>

\* The setting written by another engine, without the withdrawal.
EditOff ==
  /\ fallback' = FALSE
  /\ UNCHANGED <<confirm, exhausted, records, launcher>>

TurnOn ==
  /\ fallback' = TRUE
  /\ UNCHANGED <<confirm, exhausted, records, launcher>>

SetConfirm ==
  /\ confirm' = ~confirm
  /\ UNCHANGED <<fallback, exhausted, records, launcher>>

\* A subscription seat comes back, or the last one goes; the key seat is edited.
Seats ==
  /\ exhausted' = ~exhausted
  /\ UNCHANGED <<fallback, confirm, records, launcher>>

User ==
  \/ \E l \in Launchers : Answer(l, TRUE) \/ Answer(l, FALSE)
  \/ ListPending \/ TurnOff \/ EditOff \/ TurnOn \/ SetConfirm \/ Seats

-----------------------------------------------------------------------------
(* A launcher. *)

\* _offer_key: once per run, and checked again after the price was fetched.
Offer(l) ==
  /\ lpc[l] = "run" /\ ~attempted[l] /\ Eligible
  /\ attempted' = [attempted EXCEPT ![l] = TRUE]
  /\ Goto(l, "offer")
  /\ UNCHANGED <<store, records, alive, child>>

Recheck(l) ==
  /\ lpc[l] = "offer"
  /\ \/ Goto(l, "ask") /\ Eligible
     \/ Goto(l, "run")
  /\ UNCHANGED <<store, records, alive, attempted, child>>

\* Mutants: whatever is not a no is a yes; a withdrawn invitation is no case of its own.
AfterLenient(l, status) ==
  CASE status \in {"declined", "withdrawn"} -> "run"
    [] OTHER -> IF child[l] THEN "approved" ELSE "activate"

AfterUnknown(l, status) ==
  CASE status = "approved"  -> IF child[l] THEN "approved" ELSE "activate"
    [] status = "declined"  -> "run"
    [] status \in {"expired", "dead", "none"} -> "ended"
    [] OTHER -> status

\* What a poll makes of a terminal status.
After(l, status) ==
  CASE status = "approved"  -> IF child[l] THEN "approved" ELSE "activate"
    [] status = "declined"  -> "run"
    [] status = "withdrawn" -> IF child[l] THEN "run" ELSE "ended"
    [] OTHER                -> "ended"

\* resolve(require_enabled=True): a terminal record is consumed, and a setting that
\* is off withdraws first.
Poll(l) ==
  /\ lpc[l] = "wait"
  /\ LET now == Refreshed(IF fallback THEN rec ELSE Withdrawn(rec)) IN
     IF now[l] = "pending"
     THEN rec' = now /\ UNCHANGED lpc
     ELSE rec' = [now EXCEPT ![l] = "none"] /\ Goto(l, After(l, now[l]))
  /\ UNCHANGED <<store, due, yes, revoked, alive, attempted, child>>

\* _key_approval_current, four times: before the child is stopped, before the
\* private home is prepared, before the session is marked, before the spawn.
NextPlace == [approved |-> "activate", activate |-> "prepared", prepared |-> "marked",
              marked |-> "spawn"]

Check(l) ==
  /\ lpc[l] \in DOMAIN NextPlace
  /\ IF Eligible
     THEN /\ Goto(l, NextPlace[lpc[l]])
          /\ child' = [child EXCEPT ![l] = FALSE]
     ELSE /\ Goto(l, IF lpc[l] = "approved" THEN "run" ELSE "ended")
          /\ UNCHANGED child
  /\ UNCHANGED <<store, records, alive, attempted>>

\* Past the second check the private home turns out not to be preparable.
PrepareFails(l) ==
  /\ lpc[l] = "prepared"
  /\ Goto(l, "ended")
  /\ UNCHANGED <<store, records, alive, attempted, child>>

Spawn(l) ==
  /\ lpc[l] = "spawn"
  /\ Goto(l, "paying")
  /\ UNCHANGED <<store, records, alive, attempted, child>>

\* A mutant: the paid child's tick does not read the setting.
KeyTickBlind(l) ==
  /\ lpc[l] = "paying" /\ ~attempted[l]
  /\ Goto(l, "ended")
  /\ UNCHANGED <<store, records, alive, attempted, child>>

\* key_tick: paid use is off, the paid child is stopped.
KeyTick(l) ==
  /\ lpc[l] = "paying" /\ ~fallback
  /\ Goto(l, "ended")
  /\ UNCHANGED <<store, records, alive, attempted, child>>

\* A child exits by itself; an invitation that is open is still waited for.
ChildExits(l) ==
  \/ /\ lpc[l] = "wait" /\ child[l]
     /\ child' = [child EXCEPT ![l] = FALSE]
     /\ UNCHANGED <<store, records, alive, attempted, lpc>>
  \/ /\ lpc[l] \in {"run", "paying"}
     /\ Goto(l, "ended")
     /\ UNCHANGED <<store, records, alive, attempted, child>>

\* A mutant: the invitation is left to expire.
AbortLeaves(l) ==
  /\ lpc[l] = "wait"
  /\ Goto(l, "ended")
  /\ UNCHANGED <<store, records, alive, attempted, child>>

\* An abort while the invitation is open: run()'s finally declines it, unless an
\* answer or the deadline was first, and consumes what there is.
Abort(l) ==
  /\ lpc[l] = "wait"
  /\ Goto(l, "close")
  /\ UNCHANGED <<store, records, alive, attempted, child>>

CloseAnswer(l) ==
  /\ lpc[l] = "close"
  /\ Goto(l, "closed")
  /\ rec' = IF Refreshed(rec)[l] = "pending" THEN [Refreshed(rec) EXCEPT ![l] = "declined"]
            ELSE Refreshed(rec)
  /\ UNCHANGED <<store, due, yes, revoked, alive, attempted, child>>

CloseResolve(l) ==
  /\ lpc[l] = "closed"
  /\ Goto(l, "ended")
  /\ rec' = [Refreshed(rec) EXCEPT ![l] = "none"]
  /\ UNCHANGED <<store, due, yes, revoked, alive, attempted, child>>

Crash(l) ==
  /\ lpc[l] \notin {"ended", "crashed"}
  /\ Goto(l, "crashed")
  /\ alive' = [alive EXCEPT ![l] = FALSE]
  /\ UNCHANGED <<store, records, attempted, child>>

Launcher(l) ==
  \/ Offer(l) \/ Recheck(l) \/ Ask(l) \/ Poll(l) \/ Check(l) \/ PrepareFails(l)
  \/ Spawn(l) \/ KeyTick(l) \/ ChildExits(l) \/ Abort(l) \/ CloseAnswer(l)
  \/ CloseResolve(l) \/ Crash(l)

Next == User \/ \E l \in Launchers : Launcher(l) \/ Deadline(l)

Spec == Init /\ [][Next]_vars

\* Launchers poll and tick on a timer, and time passes.
Fairness ==
  \A l \in Launchers :
    /\ WF_vars(Deadline(l)) /\ WF_vars(Poll(l)) /\ WF_vars(KeyTick(l))
    /\ WF_vars(CloseAnswer(l)) /\ WF_vars(CloseResolve(l))

FairSpec == Spec /\ Fairness

-----------------------------------------------------------------------------
(* Properties. *)

\* Every variable keeps its shape: a record has one of the protocol's statuses, a
\* launcher one of the places between its offer and the paid child.
TypeOK ==
  /\ fallback \in BOOLEAN /\ confirm \in BOOLEAN /\ exhausted \in BOOLEAN
  /\ rec \in [Launchers -> Statuses] /\ due \in [Launchers -> BOOLEAN]
  /\ alive \in [Launchers -> BOOLEAN] /\ lpc \in [Launchers -> Places]
  /\ attempted \in [Launchers -> BOOLEAN] /\ child \in [Launchers -> BOOLEAN]
  /\ yes \in [Launchers -> {"none", "user", "setting"}]
  /\ revoked \in [Launchers -> BOOLEAN]

\* A paid child is started only for a record that was approved, by a click in time or
\* by the setting that was on when it was made: an expired, declined, withdrawn,
\* missing or already consumed record starts none.
PaidOnlyWithConsent == \A l \in Launchers : lpc[l] \in Granted => yes[l] # "none"

\* "a late approval cannot revive paid use" (state.py:185): once paid use was switched
\* off while a record stood, answered or not, the record starts no paid child, even if
\* paid use is switched on again before the launcher polls.
KillSwitchWins == \A l \in Launchers : revoked[l] => lpc[l] \notin Granted

\* "so a late click cannot win" (handoff.py:72): an approval is recorded only on an open
\* question of a live launcher that is not overdue, and is the first answer.
LateClickLoses ==
  [][\A l \in Launchers :
       rec'[l] = "approved" /\ rec[l] # "approved"
         => lpc[l] = "ask" \/ (rec[l] = "pending" /\ alive[l] /\ ~due[l])]_vars

\* A launcher that ended leaves no invitation behind in the app.
EndedAsksNothing == \A l \in Launchers : lpc[l] = "ended" => rec[l] = "none"

\* An invitation nobody answers does not hold a terminal for ever.
WaitEnds == \A l \in Launchers : lpc[l] = "wait" ~> lpc[l] # "wait"

\* With paid use switched off for good, every paid child is stopped.
PaidUseStops ==
  (<>[]~fallback) => \A l \in Launchers : <>[](lpc[l] # "paying")
=============================================================================
