----------------------------- MODULE MCCrossings -----------------------------
(* Up to two sessions; a business seat and a personal one, or one of unknown plan. *)
EXTENDS Crossings, TLC

CONSTANTS s1, s2, w, p, none

MCSessions == {s1, s2}
MCOne      == {s1}
MCSeats    == {w, p}
MCKind     == (w :> "business" @@ p :> "personal")
MCKindU    == (w :> "business" @@ p :> "unknown")
MCSymmetry == Permutations(MCSessions)
=============================================================================
