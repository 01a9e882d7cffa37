----------------------------- MODULE ClaudeConfig -----------------------------
(***************************************************************************)
(* The settings Claude homes share (claudehome.py).  Each seat has a home  *)
(* with a config of its own and a baseline, what both sides agreed on last;*)
(* what the home changed since is merged into the canonical config, and the*)
(* canonical config into the home.  One shared setting is modelled, its    *)
(* values are numbered as they are chosen, 0 being the first.              *)
(*                                                                         *)
(* The canonical config is guarded by Claude's own lock, a directory that  *)
(* its holder keeps fresh: a holder that sleeps for ten seconds is stale   *)
(* and loses it to whoever comes next.  Finding it stale and taking it is  *)
(* one step, and so is the last look at it with the write that follows.    *)
(* Claude is external and is taken to write its config only while the lock *)
(* is its own.  Nothing guards a home's own config: the child of another   *)
(* terminal may write it while it is merged.                               *)
(***************************************************************************)
EXTENDS Integers

CONSTANTS ClaudeHomes,
          MaxChoices   \* bound: values anybody ever chooses

ASSUME ConfigBounds == MaxChoices \in Nat

VARIABLES
  canonical,   \* the setting in Claude's own config
  local,       \* ... in each home, or none while the home has no config yet
  base,        \* each home's baseline
  cfglock,     \* who holds the lock of the canonical config, and whether it is stale
  merge,       \* the merge under way; the store lock admits one
  choices,     \* values chosen so far
  chosen,      \* history: the last one chosen in each home
  settled,     \* history: those a merge has carried over or found beaten
  overrun      \* history: those a merge wrote over without having read them

configVars == <<canonical, local, base, cfglock, merge, choices, chosen, settled, overrun>>

Values == 0..MaxChoices
None   == -1
MergeAt == {"idle", "lock", "read", "write", "unlock", "local", "baseline"}
Homeless == "none"
NoMerge == [at |-> "idle", home |-> Homeless, mine |-> 0, agreed |-> 0, seen |-> 0, result |-> 0]
FreeLock == [by |-> "nobody", stale |-> FALSE]

ConfigInit ==
  /\ canonical = 0
  /\ local = [h \in ClaudeHomes |-> None] /\ base = [h \in ClaudeHomes |-> 0]
  /\ cfglock = FreeLock /\ merge = NoMerge
  /\ choices = 0 /\ chosen = [h \in ClaudeHomes |-> 0]
  /\ settled = {0} /\ overrun = {}

-----------------------------------------------------------------------------
(* Claude and the user. *)

ClaudeLocks ==
  /\ cfglock = FreeLock \/ cfglock.stale
  /\ cfglock' = [by |-> "claude", stale |-> FALSE]
  /\ UNCHANGED <<canonical, local, base, merge, choices, chosen, settled, overrun>>

ClaudeWrites ==
  /\ cfglock.by = "claude" /\ choices < MaxChoices
  /\ choices' = choices + 1 /\ canonical' = choices'
  /\ cfglock' = FreeLock
  /\ UNCHANGED <<local, base, merge, chosen, settled, overrun>>

ClaudeUnlocks ==
  /\ cfglock.by = "claude" /\ cfglock' = FreeLock
  /\ UNCHANGED <<canonical, local, base, merge, choices, chosen, settled, overrun>>

HolderSleeps ==
  /\ cfglock # FreeLock /\ ~cfglock.stale
  /\ cfglock' = [cfglock EXCEPT !.stale = TRUE]
  /\ UNCHANGED <<canonical, local, base, merge, choices, chosen, settled, overrun>>

ChildChooses(h) ==
  /\ local[h] # None /\ choices < MaxChoices
  /\ choices' = choices + 1
  /\ local' = [local EXCEPT ![h] = choices'] /\ chosen' = [chosen EXCEPT ![h] = choices']
  /\ UNCHANGED <<canonical, base, cfglock, merge, settled, overrun>>

-----------------------------------------------------------------------------
(* merge_config(), before a launch on the home and after it. *)

\* Only what the home changed since the baseline is carried over; the canonical value wins a
\* conflict.
Merged(before, ours, theirs) ==
  IF ours # before /\ theirs = before THEN ours ELSE theirs

MergeBegins(h) ==
  /\ merge.at = "idle"
  /\ merge' = [NoMerge EXCEPT !.at = "lock", !.home = h, !.mine = local[h], !.agreed = base[h]]
  /\ UNCHANGED <<canonical, local, base, cfglock, choices, chosen, settled, overrun>>

\* Contention defers all of it; a home without a config is seeded without the lock.
MergeDefers ==
  /\ merge.at = "lock" /\ cfglock # FreeLock /\ ~cfglock.stale
  /\ merge' = IF merge.mine # None THEN NoMerge
              ELSE [merge EXCEPT !.at = "local", !.result = canonical]
  /\ UNCHANGED <<canonical, local, base, cfglock, choices, chosen, settled, overrun>>

MergeLocks ==
  /\ merge.at = "lock" /\ (cfglock = FreeLock \/ cfglock.stale)
  /\ cfglock' = [by |-> "acctsw", stale |-> FALSE]
  /\ merge' = [merge EXCEPT !.at = "read"]
  /\ UNCHANGED <<canonical, local, base, choices, chosen, settled, overrun>>

\* A home without a config has changed nothing.
MergeReads ==
  /\ merge.at = "read"
  /\ merge' = [merge EXCEPT !.at = "write", !.seen = canonical,
                 !.result = IF merge.mine = None THEN canonical
                            ELSE Merged(merge.agreed, merge.mine, canonical)]
  /\ UNCHANGED <<canonical, local, base, cfglock, choices, chosen, settled, overrun>>

\* A mutant: the merge writes although it slept and lost the lock.
MergeWritesUnowned ==
  /\ merge.at = "write"
  /\ canonical' = merge.result /\ settled' = settled \cup ({merge.mine} \ {None})
  /\ merge' = [merge EXCEPT !.at = "unlock"]
  /\ UNCHANGED <<local, base, cfglock, choices, chosen, overrun>>

MergeWrites ==
  /\ merge.at = "write"
  /\ IF cfglock.by = "acctsw"
     THEN /\ canonical' = merge.result /\ settled' = settled \cup ({merge.mine} \ {None})
          /\ merge' = [merge EXCEPT !.at = "unlock"]
     ELSE merge' = NoMerge /\ UNCHANGED <<canonical, settled>>
  /\ UNCHANGED <<local, base, cfglock, choices, chosen, overrun>>

\* The heartbeat stops, and the lock goes if it is still the one that was taken.
MergeUnlocks ==
  /\ merge.at = "unlock"
  /\ cfglock' = IF cfglock.by = "acctsw" THEN FreeLock ELSE cfglock
  /\ merge' = [merge EXCEPT !.at = "local"]
  /\ UNCHANGED <<canonical, local, base, choices, chosen, settled, overrun>>

\* What the merge makes of the home as it read it goes into the home as it is now.
MergeWritesLocal ==
  /\ merge.at = "local"
  /\ local' = [local EXCEPT ![merge.home] = merge.result]
  /\ overrun' = overrun \cup ({local[merge.home]} \ {merge.mine})
  /\ merge' = [merge EXCEPT !.at = "baseline"]
  /\ UNCHANGED <<canonical, base, cfglock, choices, chosen, settled>>

MergeWritesBaseline ==
  /\ merge.at = "baseline"
  /\ base' = [base EXCEPT ![merge.home] = merge.result]
  /\ merge' = NoMerge
  /\ UNCHANGED <<canonical, local, cfglock, choices, chosen, settled, overrun>>

\* The process dies, and leaves the lock to go stale.
MergeDies ==
  /\ merge.at # "idle" /\ merge' = NoMerge
  /\ cfglock' = [cfglock EXCEPT !.by = IF @ = "acctsw" THEN "dead" ELSE @]
  /\ UNCHANGED <<canonical, local, base, choices, chosen, settled, overrun>>

-----------------------------------------------------------------------------
ConfigNext ==
  \/ ClaudeLocks \/ ClaudeWrites \/ ClaudeUnlocks \/ HolderSleeps
  \/ \E h \in ClaudeHomes : ChildChooses(h) \/ MergeBegins(h)
  \/ MergeDefers \/ MergeLocks \/ MergeReads \/ MergeWrites \/ MergeUnlocks
  \/ MergeWritesLocal \/ MergeWritesBaseline \/ MergeDies

ConfigSpec == ConfigInit /\ [][ConfigNext]_configVars

ConfigTypeOK ==
  /\ canonical \in Values
  /\ local \in [ClaudeHomes -> Values \cup {None}] /\ base \in [ClaudeHomes -> Values]
  /\ cfglock \in [by: {"nobody", "claude", "acctsw", "dead"}, stale: BOOLEAN]
  /\ merge \in [at: MergeAt, home: ClaudeHomes \cup {Homeless}, mine: Values \cup {None},
                agreed: Values, seen: Values, result: Values]
  /\ choices \in Values /\ chosen \in [ClaudeHomes -> Values] 
  /\ settled \subseteq Values /\ overrun \subseteq Values

-----------------------------------------------------------------------------
ChoiceIsPending(h) == local[h] = chosen[h] /\ base[h] # chosen[h]

\* What was chosen in a home is carried over or beaten by another choice, or is still there to
\* be carried over, wherever a merge is deferred or dies: only a choice that was made between
\* the merge's read of the home and its write there is lost (claudehome.py:216-249).  And no
\* merge writes over a canonical value it has not read, not even one that slept with the lock.
ChoicesSurvive ==
  [][/\ \A h \in ClaudeHomes : chosen'[h] \in settled' \cup overrun' \/ ChoiceIsPending(h)'
     /\ merge.at = "write" /\ merge'.at = "unlock" => canonical = merge.seen]_configVars
=============================================================================
