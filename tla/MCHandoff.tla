------------------------------ MODULE MCHandoff ------------------------------
(* What a supervisor owes when its seat has run out, under fairness: two    *)
(* launchers that share the store and ask for a paid seat, or one loop that *)
(* waits for a free one.  Nothing passes between the two parts.             *)
EXTENDS Handoff, RunLoop, TLC

CONSTANTS l1, l2, sa, sb, k1

MCLaunchers == {l1, l2}
MCLoopSeats == {sa, sb}
MCLoops     == {k1}
MCLoopActs  == {"quota"}

VARIABLE part

PartInit ==
  /\ part \in {"handoff", "loop"} /\ Init /\ LoopInit
  /\ part = "handoff" => tool = "codex" /\ pointer = sa
  /\ part = "loop" => ~fallback /\ ~confirm /\ ~exhausted /\ \A l \in Launchers : ~child[l]

PartNext ==
  /\ UNCHANGED part
  /\ \/ part = "handoff" /\ Next /\ UNCHANGED loopVars
     \/ part = "loop" /\ LoopNext /\ UNCHANGED vars

PartSpec == PartInit /\ [][PartNext]_<<part, vars, loopVars>> /\ Fairness /\ LoopFairness
=============================================================================
