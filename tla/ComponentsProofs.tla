--------------------------- MODULE ComponentsProofs ---------------------------
(***************************************************************************)
(* The parts are checked in one run and proved one by one.  That the two   *)
(* speak of the same thing is a refinement: whatever part a behaviour of   *)
(* the run is of, it is a behaviour of that part's own specification, so   *)
(* that every theorem about the part holds of it, and no bound of the run  *)
(* adds a step.  The parts that begin with a seat are their specification  *)
(* only where they run; the others always, as long as they stand still.    *)
(***************************************************************************)
EXTENDS MCComponents, LoginsProofs, SupervisionProofs, ServiceProofs

\* The parts with an initial state of their own, if they run.
Seated == /\ Runs("codex")  => CodexInit
          /\ Runs("claude") => ClaudeInit
          /\ Runs("loop")   => LoopInit
Unseated == SessionInit /\ ConfigInit /\ DaemonInit /\ AppInit /\ HeadroomInit /\ SpawnInit

\* What a step of the run is to each part.
EachPartSteps ==
  /\ [CodexNext]_codexVars /\ [ClaudeNext]_claudeVars /\ [ConfigNext]_configVars
  /\ [SessionNext]_sessionVars /\ [LoopNext]_loopVars /\ [DaemonNext]_daemonVars
  /\ [AppNext]_appVars /\ [HeadroomNext]_headroomVars /\ [SpawnNext]_spawnVars

\* The bounds the run adds only leave out steps.
LEMMA CodexPartIsStep == CodexPart => CodexNext
BY DEF CodexPart, CodexNext

\* Every step is one of the part that runs, and of no other.
LEMMA PartsStep == [PartNext]_partVars => EachPartSteps /\ part' = part
<1> SUFFICES ASSUME [PartNext]_partVars PROVE EachPartSteps /\ part' = part
    OBVIOUS
<1>1. CASE UNCHANGED partVars
      BY <1>1 DEF partVars, EachPartSteps
<1>2. CASE PartNext
  <2>1. /\ part' = part
        /\ CodexPart \/ UNCHANGED codexVars
        /\ ClaudePart \/ UNCHANGED claudeVars
        /\ RegistryPart \/ UNCHANGED sessionVars
        /\ LoopPart \/ UNCHANGED loopVars
        /\ ConfigNext \/ UNCHANGED configVars
        /\ DaemonPart \/ UNCHANGED daemonVars
        /\ AppNext \/ UNCHANGED appVars
        /\ HeadroomPart \/ UNCHANGED headroomVars
        /\ SpawnNext \/ UNCHANGED spawnVars
        BY <1>2 DEF PartNext
  <2>2. /\ ClaudePart => ClaudeNext
        /\ RegistryPart => SessionNext
        /\ LoopPart => LoopNext
        /\ DaemonPart => DaemonNext
        /\ HeadroomPart => HeadroomNext
        BY DEF ClaudePart, RegistryPart, LoopPart, DaemonPart, HeadroomPart
  <2> QED BY <2>1, <2>2, CodexPartIsStep DEF EachPartSteps
<1> QED BY <1>1, <1>2

\* A part that runs, runs for ever, and one that does not never does.
LEMMA PartStays ==
  ASSUME NEW name, part' = part
  PROVE  Runs(name)' <=> Runs(name)
BY DEF Runs

\* Every part begins as its specification says, those with seats where they run.
LEMMA PartsBegin == PartInit => Seated /\ Unseated
BY DEF PartInit, Seated, Unseated

\* A behaviour of the run is one of each part's own specification.
THEOREM PartsAreTheirSpecs ==
  PartSpec => /\ SessionSpec /\ ConfigSpec /\ DaemonSpec
              /\ AppSpec /\ HeadroomSpec /\ SpawnSpec
              /\ Runs("codex")  => CodexSpec
              /\ Runs("claude") => ClaudeSpec
              /\ Runs("loop")   => LoopSpec
<1>1. PartSpec => Seated /\ Unseated
      BY PartsBegin DEF PartSpec
<1>2. /\ [PartNext]_partVars => [CodexNext]_codexVars
      /\ [PartNext]_partVars => [ClaudeNext]_claudeVars
      /\ [PartNext]_partVars => [ConfigNext]_configVars
      /\ [PartNext]_partVars => [SessionNext]_sessionVars
      /\ [PartNext]_partVars => [LoopNext]_loopVars
      /\ [PartNext]_partVars => [DaemonNext]_daemonVars
      /\ [PartNext]_partVars => [AppNext]_appVars
      /\ [PartNext]_partVars => [HeadroomNext]_headroomVars
      /\ [PartNext]_partVars => [SpawnNext]_spawnVars
      BY PartsStep DEF EachPartSteps
<1> QED BY <1>1, <1>2, PTL DEF PartSpec, Seated, Unseated, CodexSpec, ClaudeSpec, LoopSpec,
        SessionSpec, ConfigSpec, DaemonSpec, AppSpec, HeadroomSpec, SpawnSpec

\* Whichever part runs keeps its types, for every instance of every part.
THEOREM PartsTypes == PartSpec => []PartsTypeOK
<1>1. PartSpec => [](/\ SessionTypeOK /\ ConfigTypeOK /\ DaemonTypeOK
                     /\ AppTypeOK /\ HeadroomTypeOK /\ SpawnTypeOK)
      BY PartsAreTheirSpecs, SessionTypes, ConfigTypes, DaemonTypes, AppTypes, HeadroomTypeCorrect,
         SpawnTypeCorrect, PTL
<1>2. PartSpec => [](Runs("codex") => CodexTypeOK)
  <2>1. [PartNext]_partVars => (Runs("codex")' <=> Runs("codex"))
        BY PartsStep, PartStays
  <2> QED BY <2>1, PartsAreTheirSpecs, CodexTypes, PTL DEF PartSpec
<1>3. PartSpec => [](Runs("claude") => ClaudeTypeOK)
  <2>1. [PartNext]_partVars => (Runs("claude")' <=> Runs("claude"))
        BY PartsStep, PartStays
  <2> QED BY <2>1, PartsAreTheirSpecs, ClaudeTypes, PTL DEF PartSpec
<1>4. PartSpec => [](Runs("loop") => LoopTypeOK)
  <2>1. [PartNext]_partVars => (Runs("loop")' <=> Runs("loop"))
        BY PartsStep, PartStays
  <2> QED BY <2>1, PartsAreTheirSpecs, LoopTypes, PTL DEF PartSpec
<1>5. /\ SessionTypeOK /\ ConfigTypeOK /\ DaemonTypeOK /\ AppTypeOK /\ HeadroomTypeOK /\ SpawnTypeOK
      /\ Runs("codex") => CodexTypeOK
      /\ Runs("claude") => ClaudeTypeOK
      /\ Runs("loop") => LoopTypeOK
      => PartsTypeOK
      BY DEF PartsTypeOK
<1> QED BY <1>1, <1>2, <1>3, <1>4, <1>5, PTL
=============================================================================
