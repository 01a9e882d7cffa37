-------------------------------- MODULE Spawn --------------------------------
(***************************************************************************)
(* One child under its supervisor (launcher.py: pty_spawn, pipe_spawn,     *)
(* _terminate): the copy loop, the stop that TERMs and then KILLs, the     *)
(* terminal that has to be handed back, and the signals that reach the     *)
(* supervisor meanwhile.  SIGTERM and SIGHUP are treated alike by the code *)
(* and are one signal here; their handlers are installed and restored in   *)
(* one step.  What a child prints, and the in-place wake-up, are left out. *)
(***************************************************************************)

VARIABLES
  pty,           \* pty_spawn, on a terminal, or pipe_spawn
  spawned,       \* the child
  mode,          \* the user's terminal
  noWindow,      \* its window was closed
  at,            \* where the supervisor is
  handled,       \* are _on_term's handlers installed?
  terminating,   \* _stop_child was entered
  pendingSignal, \* pending_signal
  nested,        \* ... by the signal handler
  master,        \* is the master end of the PTY open?
  got            \* history: a signal came while the child was being stopped

outside    == <<pty, noWindow>>
signals    == <<handled, terminating, pendingSignal, nested, got>>
supervisor == <<mode, at, signals, master>>
spawnVars  == <<outside, spawned, supervisor>>

Stopping == {"term", "kill", "closed"}
Over     == {"returned", "raised", "dead"}

SpawnInit ==
  /\ pty \in BOOLEAN
  /\ spawned = "runs" /\ mode = "cooked" /\ noWindow = FALSE /\ at = "setup"
  /\ handled = FALSE /\ terminating = FALSE /\ pendingSignal = FALSE /\ nested = FALSE
  /\ master = pty /\ got = FALSE

-----------------------------------------------------------------------------
(* The world. *)

SpawnedEnds ==
  /\ spawned \in {"runs", "told", "killed"}
  /\ spawned' = "zombie"
  /\ UNCHANGED <<pty, noWindow, supervisor>>

WindowCloses ==
  /\ pty /\ ~noWindow /\ noWindow' = TRUE
  /\ UNCHANGED <<pty, spawned, supervisor>>

-----------------------------------------------------------------------------
(* _terminate(): it takes the master over and closes it on every way out. *)

\* TERM to the child's group.
StopStep(inHandler) ==
  /\ terminating' = TRUE /\ nested' = inHandler /\ at' = "term"
  /\ spawned' = IF spawned = "runs" THEN "told" ELSE spawned

Escalates ==
  /\ at = "term" /\ at' = "kill"
  /\ spawned' = IF spawned \in {"runs", "told"} THEN "killed" ELSE spawned
  /\ UNCHANGED <<outside, mode, signals, master>>

\* A killed child may hang in the terminal's drain, which the close releases.
ClosesMaster ==
  /\ at = "kill" /\ at' = "closed" /\ master' = FALSE
  /\ UNCHANGED <<outside, spawned, mode, signals>>

Terminated ==
  /\ at' = IF nested THEN "dying" ELSE "stopped"
  /\ master' = FALSE
  /\ UNCHANGED <<outside, mode, signals>>

Reaps ==
  /\ at \in Stopping /\ spawned = "zombie" /\ spawned' = "gone"
  /\ Terminated

\* Not even KILL and the close ended it: left to init.
Abandons == at = "closed" /\ UNCHANGED spawned /\ Terminated

-----------------------------------------------------------------------------
(* The supervisor. *)

BeginsRaw ==
  /\ at = "setup" /\ at' = "installing"
  /\ mode' \in IF pty THEN {"raw", "cooked"} ELSE {"cooked"}  \* stdin may be no terminal
  /\ UNCHANGED <<outside, spawned, signals, master>>

Installs ==
  /\ at = "installing" /\ at' = "loop" /\ handled' = TRUE
  /\ UNCHANGED <<outside, spawned, mode, terminating, pendingSignal, nested, master, got>>

\* on_output or on_tick asks for a stop, ...
LoopStops ==
  /\ at = "loop" /\ at' = "stop"
  /\ UNCHANGED <<outside, spawned, mode, signals, master>>

\* ... or the terminal is found revoked, which counts as a SIGHUP.
LoopRevoked ==
  /\ at = "loop" /\ noWindow /\ at' = "stop" /\ pendingSignal' = TRUE
  /\ UNCHANGED <<outside, spawned, mode, handled, terminating, nested, master, got>>

\* The child closed its output, or nobody reads it any more.
LoopEnds ==
  /\ at = "loop" /\ at' = "finally"
  /\ UNCHANGED <<outside, spawned, mode, signals, master>>

StopBegins ==
  /\ at = "stop" /\ StopStep(FALSE)
  /\ UNCHANGED <<outside, mode, handled, pendingSignal, master, got>>

\* pty_spawn dies of the signal that came meanwhile; pipe_spawn has recorded none.
Checks ==
  /\ at = "stopped" /\ at' = IF pendingSignal THEN "dying" ELSE "finally"
  /\ UNCHANGED <<outside, spawned, mode, signals, master>>

Restored == IF noWindow THEN mode ELSE "cooked"

\* The terminal is restored, and the signal takes its default disposition.
DiesOfIt ==
  /\ at = "dying" /\ at' = "dead" /\ mode' = Restored /\ master' = FALSE
  /\ UNCHANGED <<outside, spawned, signals>>

Cleanup(next) ==
  /\ at' = next /\ mode' = Restored /\ handled' = FALSE /\ master' = FALSE
  /\ UNCHANGED <<outside, spawned, terminating, pendingSignal, nested, got>>

Finally == at = "finally" /\ Cleanup(IF terminating THEN "returned" ELSE "reaping")

\* A write to the child fails, or a callback raises: the child is left as it is.
Raises == at \in {"setup", "loop"} /\ Cleanup("raised")

WaitsForChild ==
  /\ at = "reaping" /\ spawned = "zombie"
  /\ spawned' = "gone" /\ at' = "returned"
  /\ UNCHANGED <<outside, mode, signals, master>>

\* A mutant: the handler gives the signal its default disposition before it stops the child.
SignalledAgain ==
  /\ at \notin Over /\ got' = (got \/ at \in Stopping)
  /\ IF ~handled \/ terminating
     THEN /\ at' = "dead" /\ master' = FALSE
          /\ UNCHANGED <<spawned, mode, terminating, pendingSignal, nested>>
     ELSE StopStep(TRUE) /\ pendingSignal' = pty /\ UNCHANGED <<mode, master>>
  /\ UNCHANGED <<outside, handled>>

\* SIGTERM or SIGHUP: the default disposition outside the handlers' life; otherwise the
\* first one stops the child from within the handler, a later one is at most remembered.
Signalled ==
  /\ at \notin Over /\ got' = (got \/ at \in Stopping)
  /\ IF ~handled
     THEN /\ at' = "dead" /\ master' = FALSE
          /\ UNCHANGED <<spawned, mode, terminating, pendingSignal, nested>>
     ELSE /\ pendingSignal' = (pendingSignal \/ pty)
          /\ IF terminating THEN UNCHANGED <<spawned, at, terminating, nested>> ELSE StopStep(TRUE)
          /\ UNCHANGED <<mode, master>>
  /\ UNCHANGED <<outside, handled>>

SpawnNext ==
  \/ SpawnedEnds \/ WindowCloses \/ Signalled
  \/ BeginsRaw \/ Installs \/ LoopStops \/ LoopRevoked \/ LoopEnds \/ Raises
  \/ StopBegins \/ Escalates \/ ClosesMaster \/ Reaps \/ Abandons
  \/ Checks \/ DiesOfIt \/ Finally \/ WaitsForChild

SpawnSpec == SpawnInit /\ [][SpawnNext]_spawnVars

SpawnTypeOK ==
  /\ pty \in BOOLEAN /\ noWindow \in BOOLEAN /\ handled \in BOOLEAN /\ terminating \in BOOLEAN
  /\ pendingSignal \in BOOLEAN /\ nested \in BOOLEAN /\ master \in BOOLEAN /\ got \in BOOLEAN
  /\ spawned \in {"runs", "told", "killed", "zombie", "gone"}
  /\ mode \in {"cooked", "raw"}
  /\ at \in Stopping \cup Over \cup {"setup", "installing", "loop", "stop", "stopped",
                                     "finally", "reaping", "dying"}

-----------------------------------------------------------------------------
\* However signals, timeouts and the child's end fall together: a supervisor that has
\* returned, or died once it had begun to stop its child, leaves the user's terminal as it
\* found it and the PTY closed; and no child it stopped goes on unkilled
\* (launcher.py:874-1011, 1225-1261).
NothingIsLeftBehind ==
  LET stopped == at \in {"returned", "dead"} /\ terminating
  IN /\ at \in {"returned", "raised"} \/ stopped => (mode = "cooked" \/ noWindow) /\ ~master
     /\ stopped => spawned \in {"killed", "zombie", "gone"}
     /\ at = "returned" => spawned # "runs"

\* "``pty_spawn``'s contract for a NON-interactive child", "The heartbeat and the stop path
\* are the same as ``pty_spawn``'s" (launcher.py:1018, 1025): a supervisor told to end while
\* it stops its child ends, and does not return to relaunch it.
SignalIsObeyed == at = "returned" => ~got
=============================================================================
