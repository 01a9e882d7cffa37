---------------------------- MODULE MCComponents ----------------------------
(* The parts that keep logins and sessions, each checked on an instance of  *)
(* its own: a behaviour runs one of them, and nothing passes between them.  *)
EXTENDS CodexLogins, ClaudeLogins, ClaudeConfig, SessionRegistry, RunLoop, Daemons,
        AppServer, Headroom, Spawn, TLC

CONSTANTS sa, sb,     \* seats
          p1, p2,     \* usage polls
          k1, k2,     \* run loops
          pid1, pid0, \* process ids of sessions
          d1, d2,     \* ... and of daemons
          Parts       \* the parts a run is of

MCSeats    == {sa, sb}
MCPollers  == {p1, p2}
MCLoops    == {k1, k2}
MCPids     == {pid1, pid0}
MCDaemons  == {d1, d2}
MCActs     == {"toggle", "click", "quota", "bar"}
MCExpiry   == [n \in 0..MaxRenewals |-> IF n = 2 THEN 1 ELSE n]
MCSymmetry == Permutations(MCSeats) \cup Permutations(MCLoops) \cup Permutations(MCPollers)

VARIABLE part

Runs(name) ==
  CASE name = "codex" -> part \in {"codex sessions", "codex polls"}
    [] name = "loop"  -> part \in {"loop", "two loops"}
    [] name = "daemons" -> part \in {"daemons", "releases"}
    [] OTHER          -> part = name

\* A module that does not run has one initial state, with no seat in it, so that it
\* multiplies no states and breaks no symmetry.
PartInit ==
  /\ part \in Parts
  /\ IF Runs("codex") THEN CodexInit ELSE mirror = Blank /\ CodexFresh
  /\ IF Runs("claude") THEN ClaudeInit ELSE floor = Nobody /\ ClaudeFresh
  /\ IF Runs("loop") THEN LoopInit ELSE pointer = NoPick /\ LoopFresh
  /\ SessionInit /\ ConfigInit /\ DaemonInit /\ AppInit /\ HeadroomInit /\ SpawnInit
  /\ part # "loop" => tool = "codex"
  /\ part # "spawn" => pty

\* A supervisor and one poll, or polls that race with no supervisor; only these are refused a
\* login for nothing, and that once. A poll waits for whoever holds the lock.
CodexPart ==
  \/ /\ turns < MaxTurns /\ (part = "codex polls" => turns < 1)
     /\ turns' = turns + 1 /\ CodexWorld
  \/ UNCHANGED turns /\ CodexSwitch
  \/ /\ part = "codex sessions" /\ UNCHANGED turns
     /\ \E k \in Supervisors : CodexSup(k)
  \/ /\ UNCHANGED turns
     /\ \E p \in Pollers :
          /\ LockFree \/ poll[p].at = "observing"
          /\ part = "codex sessions" => \A q \in Pollers \ {p} : poll[q].at = "idle"
          /\ CodexPoll(p)
          /\ part = "codex sessions" => /\ attempts' <= 1 /\ UNCHANGED spurned
                                        /\ poll'[p].at # "idle" => turns <= 1
          /\ spurned' # spurned => turns = 0 /\ spurned = [s \in CodexSeats |-> {}]

\* The profile endpoint leaves at most one item unanswered, and none after two acts.
ClaudePart ==
  /\ ClaudeNext
  /\ conv'.at = "asked" =>
       Cardinality({k \in conv'.changed : conv'.blob[k] # Empty /\ conv'.owner[k] = Nobody})
         <= IF events <= 1 THEN 1 ELSE 0

\* One process reads or asks for an end at a time.
RegistryPart == SessionNext /\ (reader'.at = "idle" \/ ender'.at = "idle")

\* One loop and whatever the world does, or two with a quota that ends or one click.
LoopPart ==
  /\ LoopNext
  /\ part = "loop" => \E k \in Loops : \A j \in Loops \ {k} : loop'[j].at = "off"
  /\ part = "two loops" => acts' <= 1 /\ autoSwitch' /\ barred' = {}

\* One id is used a second time; starters that wait are of different lock files, and once one
\* has an unlinked file no daemon is reaped.  Releases come and go behind daemons that are new.
DaemonPart ==
  /\ DaemonNext /\ daemon'[d2].life <= 1
  /\ part = "daemons" =>
       /\ current' = 1 /\ maint'.at # "collecting"
       /\ opened'[d1] = opened'[d2] => opened'[d1] = NotOpen
       /\ split' => maint'.at # "reaping"
       /\ ~daemon'[d2].old
  /\ part = "releases" =>
       /\ lockFile' = 1 /\ seated' /\ maint'.at \in {"idle", "collecting"}
       /\ \A p \in DaemonPids : ~daemon'[p].old /\ daemon'[p].life <= 1

\* One file at a time cannot be read.
HeadroomPart ==
  /\ HeadroomNext
  /\ Cardinality({f \in Touched : ~config'[f].readable}) <= 1

PartNext ==
  /\ UNCHANGED part
  /\ IF Runs("codex") THEN CodexPart ELSE UNCHANGED codexVars
  /\ IF Runs("claude") THEN ClaudePart ELSE UNCHANGED claudeVars
  /\ IF Runs("registry") THEN RegistryPart ELSE UNCHANGED sessionVars
  /\ IF Runs("loop") THEN LoopPart ELSE UNCHANGED loopVars
  /\ IF Runs("config") THEN ConfigNext ELSE UNCHANGED configVars
  /\ IF Runs("daemons") THEN DaemonPart ELSE UNCHANGED daemonVars
  /\ IF Runs("app server") THEN AppNext ELSE UNCHANGED appVars
  /\ IF Runs("headroom") THEN HeadroomPart ELSE UNCHANGED headroomVars
  /\ IF Runs("spawn") THEN SpawnNext ELSE UNCHANGED spawnVars

partVars == <<part, codexVars, claudeVars, sessionVars, loopVars, configVars, daemonVars,
              appVars, headroomVars, spawnVars>>

PartSpec == PartInit /\ [][PartNext]_partVars

PartsTypeOK ==
  /\ Runs("codex")      => CodexTypeOK
  /\ Runs("claude")     => ClaudeTypeOK
  /\ Runs("config")     => ConfigTypeOK
  /\ Runs("registry")   => SessionTypeOK
  /\ Runs("loop")       => LoopTypeOK
  /\ Runs("daemons")    => DaemonTypeOK
  /\ Runs("app server") => AppTypeOK
  /\ Runs("headroom")   => HeadroomTypeOK
  /\ Runs("spawn")      => SpawnTypeOK
=============================================================================
