------------------------------- MODULE Daemons -------------------------------
(***************************************************************************)
(* The app-server daemon of one Codex seat, and what acctsw does behind its*)
(* back (codexhome.py): it heals the socket of a dead daemon so that the   *)
(* next launch can start one, reaps daemons whose seat is gone, and removes*)
(* releases nobody runs.  The daemon, its updater and the starter belong to*)
(* stock Codex and are external: a starter opens the startup lock, waits   *)
(* for it without looking whether the file is still the one at that path,  *)
(* and holds it until its pid file is written; a daemon holds the lock of  *)
(* its socket from bind to listen.                                         *)
(*                                                                         *)
(* Maintenance runs under the store's lock (context.py:150), so one such   *)
(* process is at work at a time, and seats do not change meanwhile.        *)
(***************************************************************************)
EXTENDS Integers

CONSTANTS DaemonPids,
          MaxDaemonLife,   \* bound: processes that get the same id
          MaxLocks,        \* bound: files that are ever app-server-startup.lock
          MaxRelease       \* bound: releases that are ever installed

ASSUME DaemonBounds == MaxDaemonLife \in Nat /\ {MaxLocks, MaxRelease} \subseteq Nat \ {0}
ASSUME LockNames == {"free", "healer", "none", "dangling"} \cap DaemonPids = {}

VARIABLES
  daemon,     \* the process behind each id
  pidfile,    \* app-server-daemon/daemon.pid
  sock,       \* who bound the control socket
  lockFile,   \* the file that app-server-startup.lock names, or that the next to open it creates
  opened,     \* the one the starter of each daemon has open
  startLock,  \* who holds each of them
  split,      \* history: has a starter taken a file that was unlinked before?
  maint,      \* the maintenance that is under way
  seated,     \* is the home the home of a seat?
  releases,   \* packages/app-server-daemon/releases
  current     \* ... and the one the next daemon runs

lockVars   == <<lockFile, opened, startLock, split>>
daemonVars == <<daemon, pidfile, sock, lockVars, maint, seated, releases, current>>

Locks   == 1..MaxLocks
NotOpen == 0

DaemonLives == 0..MaxDaemonLife
Identity == [pid: DaemonPids, life: DaemonLives]
NoOne    == [pid |-> "none", life |-> 0]
\* The alias in the home outlives the socket it names.
Dangling == [pid |-> "dangling", life |-> 0]
\* A pid file may lack the identity that tells a process from a later one with its id.
Recorded == [pid: DaemonPids, life: DaemonLives, known: BOOLEAN]
NoRecord == [pid |-> "none", life |-> 0, known |-> TRUE]

Serving   == {"starting", "recorded", "bound", "serving"}
Processes == Serving \cup {"gone", "exiting", "killed", "other"}
MaintAt   == {"idle", "stale", "locked", "archived", "unlinked", "unlocked", "reaping",
              "collecting"}

\* look: the process the newest list showed behind the id that is about to be signalled.
Resting == [at |-> "idle", targets |-> {}, signalled |-> {}, look |-> NoOne, keep |-> {}]

DaemonInit ==
  /\ daemon = [p \in DaemonPids |-> [at |-> "gone", life |-> 0, release |-> 1, old |-> FALSE]]
  /\ pidfile = NoRecord /\ sock = NoOne
  /\ lockFile = 1 /\ opened = [p \in DaemonPids |-> NotOpen]
  /\ startLock = [i \in Locks |-> "free"] /\ split = FALSE
  /\ maint = Resting /\ seated = TRUE
  /\ releases = {1} /\ current = 1

Is(p, who)  == who.pid = p /\ who.life = daemon[p].life
Living(p)   == daemon[p].at \notin {"gone", "exiting", "killed"}
\* A process that exits or is a zombie still passes kill(pid, 0).
Signalable(p) == daemon[p].at # "gone"

-----------------------------------------------------------------------------
(* Stock Codex. *)

Listening == \E p \in DaemonPids : Is(p, sock) /\ daemon[p].at = "serving"

\* The starter trusts the pid file, even of a process that is stuck exiting.
StockTrusts ==
  \E p \in DaemonPids :
    /\ pidfile.pid = p /\ Signalable(p)
    /\ pidfile.known => pidfile.life = daemon[p].life

StarterOpens(p) ==
  /\ daemon[p].at = "gone" /\ opened[p] = NotOpen
  /\ opened' = [opened EXCEPT ![p] = lockFile]
  /\ UNCHANGED <<daemon, pidfile, sock, lockFile, startLock, split, maint, seated, releases, current>>

DaemonStarts(p, old) ==
  /\ daemon[p].at = "gone" /\ daemon[p].life < MaxDaemonLife
  /\ opened[p] # NotOpen /\ startLock[opened[p]] = "free" /\ ~StockTrusts /\ ~Listening
  /\ daemon' = [daemon EXCEPT ![p] = [at |-> "starting", life |-> @.life + 1,
                                      release |-> current, old |-> old]]
  /\ startLock' = [startLock EXCEPT ![opened[p]] = p]
  /\ split' = (split \/ opened[p] # lockFile)
  /\ UNCHANGED <<pidfile, sock, lockFile, opened, maint, seated, releases, current>>

DaemonRecords(p, known) ==
  /\ daemon[p].at = "starting"
  /\ daemon' = [daemon EXCEPT ![p].at = "recorded"]
  /\ pidfile' = [pid |-> p, life |-> daemon[p].life, known |-> known]
  /\ UNCHANGED <<sock, lockVars, maint, seated, releases, current>>

DaemonBinds(p) ==
  /\ daemon[p].at = "recorded"
  /\ daemon' = [daemon EXCEPT ![p].at = "bound"]
  /\ sock' = [pid |-> p, life |-> daemon[p].life]
  /\ UNCHANGED <<pidfile, lockVars, maint, seated, releases, current>>

DaemonListens(p) ==
  /\ daemon[p].at = "bound"
  /\ daemon' = [daemon EXCEPT ![p].at = "serving"]
  /\ UNCHANGED <<pidfile, sock, lockVars, maint, seated, releases, current>>

LetGo(who) == [i \in Locks |-> IF startLock[i] = who THEN "free" ELSE startLock[i]]

\* The starter is done, or gives up.
StarterCloses(p) ==
  /\ opened[p] # NotOpen /\ daemon[p].at # "starting"
  /\ opened' = [opened EXCEPT ![p] = NotOpen] /\ startLock' = LetGo(p)
  /\ UNCHANGED <<daemon, pidfile, sock, lockFile, split, maint, seated, releases, current>>

\* A starter ends with its daemon.
FreesLock(p) ==
  /\ startLock' = LetGo(p)
  /\ opened' = IF \E i \in Locks : startLock[i] = p THEN [opened EXCEPT ![p] = NotOpen] ELSE opened
  /\ UNCHANGED <<lockFile, split>>

\* A process ends, and leaves everything where it is.
ProcessEnds(p, how) ==
  /\ IF how = "exiting" THEN Living(p) ELSE Signalable(p)
  /\ daemon' = [daemon EXCEPT ![p].at = how]
  /\ FreesLock(p)
  /\ UNCHANGED <<pidfile, sock, maint, seated, releases, current>>

OtherStarts(p) ==
  /\ daemon[p].at = "gone" /\ daemon[p].life < MaxDaemonLife
  /\ daemon' = [daemon EXCEPT ![p].at = "other", ![p].life = @ + 1]
  /\ UNCHANGED <<pidfile, sock, lockVars, maint, seated, releases, current>>

\* The updater unpacks a release and flips `current` under install.lock, which a collection holds.
Updates(r) ==
  /\ maint.at # "collecting"
  /\ releases' = releases \cup {r} /\ current' = r
  /\ UNCHANGED <<daemon, pidfile, sock, lockVars, maint, seated>>

\* A seat is removed or added, under the store's lock.
SeatChanges ==
  /\ maint.at = "idle"
  /\ seated' = ~seated
  /\ UNCHANGED <<daemon, pidfile, sock, lockVars, maint, releases, current>>

-----------------------------------------------------------------------------
(* heal_daemon_socket(), before a launch and in the maintenance pass.  A probe that stays   *)
(* unanswered, an unreadable file or a lock that is held defers, which is no step.          *)

DaemonMayLive ==
  \E p \in DaemonPids :
    /\ pidfile.pid = p /\ Living(p)
    /\ pidfile.known => pidfile.life = daemon[p].life

DaemonState ==
  CASE Listening     -> "live"
    [] DaemonMayLive -> "busy"
    [] OTHER -> IF sock = NoOne /\ pidfile = NoRecord THEN "absent" ELSE "stale"

HealProbes ==
  /\ maint.at = "idle" /\ startLock[lockFile] = "free" /\ DaemonState = "stale"
  /\ maint' = [Resting EXCEPT !.at = "stale"]
  /\ UNCHANGED <<daemon, pidfile, sock, lockVars, seated, releases, current>>

TakesLock ==
  /\ maint' = [Resting EXCEPT !.at = "locked"]
  /\ startLock' = [startLock EXCEPT ![lockFile] = "healer"]

\* A mutant: what the first probe said is believed once the lock is held.
HealLocksBlindly ==
  /\ maint.at = "stale" /\ startLock[lockFile] = "free" /\ TakesLock
  /\ UNCHANGED <<daemon, pidfile, sock, lockFile, opened, split, seated, releases, current>>

\* The second probe holds the startup lock, and keeps it when the answer is still "stale".
HealLocks ==
  /\ maint.at = "stale" /\ startLock[lockFile] = "free"
  /\ IF DaemonState = "stale" THEN TakesLock ELSE maint' = Resting /\ UNCHANGED startLock
  /\ UNCHANGED <<daemon, pidfile, sock, lockFile, opened, split, seated, releases, current>>

HealArchives ==
  /\ maint.at = "locked"
  /\ pidfile' = NoRecord
  /\ maint' = [maint EXCEPT !.at = "archived"]
  /\ UNCHANGED <<daemon, sock, lockVars, seated, releases, current>>

HealUnlinks ==
  /\ maint.at = "archived"
  /\ sock' = NoOne
  /\ maint' = [maint EXCEPT !.at = "unlinked"]
  /\ UNCHANGED <<daemon, pidfile, lockVars, seated, releases, current>>

\* The lock file goes last, while it is held: who has it open waits for a file nobody else
\* will find.  When the unlink fails, MaintEnds follows at once.
HealUnlinksLock ==
  /\ maint.at = "unlinked" /\ lockFile < MaxLocks
  /\ lockFile' = lockFile + 1
  /\ maint' = [maint EXCEPT !.at = "unlocked"]
  /\ UNCHANGED <<daemon, pidfile, sock, opened, startLock, split, seated, releases, current>>

\* Maintenance ends, or dies: the kernel frees its locks.
MaintEnds ==
  /\ maint.at # "idle" /\ maint' = Resting
  /\ startLock' = LetGo("healer")
  /\ UNCHANGED <<daemon, pidfile, sock, lockFile, opened, split, seated, releases, current>>

-----------------------------------------------------------------------------
(* reap_orphan_daemons(): TERM, then KILL, for the daemons of homes without a seat. *)

\* The spelling of the executable says which home, and whether through the old address index.
Orphan(p) == daemon[p].at \in Serving /\ (daemon[p].old \/ ~seated)

ReapLists ==
  LET found == {i \in Identity : Is(i.pid, i) /\ Orphan(i.pid)}
  IN /\ maint.at = "idle" /\ found # {}
     /\ maint' = [Resting EXCEPT !.at = "reaping", !.targets = found]
     /\ UNCHANGED <<daemon, pidfile, sock, lockVars, seated, releases, current>>

\* Before every signal the orphans are listed anew.
ReapLooks(t) ==
  /\ maint.at = "reaping" /\ maint.look = NoOne /\ t \in maint.targets
  /\ Is(t.pid, t) /\ Orphan(t.pid)
  /\ maint' = [maint EXCEPT !.look = t]
  /\ UNCHANGED <<daemon, pidfile, sock, lockVars, seated, releases, current>>

\* kill() goes to whoever has the id by now.  TERM may be ignored, and one who exits hears
\* nothing any more.
ReapSignals(t) ==
  /\ maint.look = t /\ t \in Identity /\ Signalable(t.pid)
  /\ \/ /\ Living(t.pid)
        /\ daemon' = [daemon EXCEPT ![t.pid].at = "killed"] /\ FreesLock(t.pid)
     \/ (~Living(t.pid) \/ t \notin maint.signalled) /\ UNCHANGED <<daemon, lockVars>>
  /\ maint' = [maint EXCEPT !.signalled = @ \cup {t}, !.look = NoOne]
  /\ UNCHANGED <<pidfile, sock, seated, releases, current>>
\* ESRCH: nothing was signalled.
ReapMisses(t) ==
  /\ maint.look = t /\ t \in Identity /\ ~Signalable(t.pid)
  /\ maint' = [maint EXCEPT !.look = NoOne]
  /\ UNCHANGED <<daemon, pidfile, sock, lockVars, seated, releases, current>>

\* The socket of a process that was signalled and is gone is removed, if it refuses and its
\* lock can be had.
ReapCleans(t) ==
  LET reaped == t \in maint.signalled /\ (~Is(t.pid, t) \/ daemon[t.pid].at = "gone")
      locked == \E p \in DaemonPids : Is(p, sock) /\ daemon[p].at = "bound"
  IN /\ maint.at = "reaping" /\ maint.look = NoOne /\ t \in maint.targets
     /\ maint' = [maint EXCEPT !.targets = @ \ {t}]
     /\ sock' = IF reaped /\ sock # NoOne /\ ~Listening /\ ~locked THEN Dangling ELSE sock
     /\ UNCHANGED <<daemon, pidfile, lockVars, seated, releases, current>>

-----------------------------------------------------------------------------
(* gc_daemon_releases(), under install.lock. *)

RunningDaemons == {p \in DaemonPids : daemon[p].at \in Serving}

\* A mutant: a process whose executable and arguments cannot be read runs nothing.
GcListsReadable(seen) ==
  /\ maint.at = "idle"
  /\ maint' = [Resting EXCEPT !.at = "collecting",
                              !.keep = {current} \cup {daemon[p].release : p \in seen}]
  /\ UNCHANGED <<daemon, pidfile, sock, lockVars, seated, releases, current>>

\* `seen` are the daemons whose executable or arguments could be read: one that is missing
\* defers the collection.
GcLists(seen) ==
  /\ maint.at = "idle" /\ seen = RunningDaemons
  /\ maint' = [Resting EXCEPT !.at = "collecting",
                              !.keep = {current} \cup {daemon[p].release : p \in seen}]
  /\ UNCHANGED <<daemon, pidfile, sock, lockVars, seated, releases, current>>

GcRemoves(r) ==
  /\ maint.at = "collecting" /\ r \in releases \ maint.keep
  /\ releases' = releases \ {r}
  /\ UNCHANGED <<daemon, pidfile, sock, lockVars, maint, seated, current>>

-----------------------------------------------------------------------------
StockStep(p) ==
  \/ StarterOpens(p) \/ StarterCloses(p)
  \/ \E b \in BOOLEAN : DaemonStarts(p, b) \/ DaemonRecords(p, b)
  \/ DaemonBinds(p) \/ DaemonListens(p)
  \/ ProcessEnds(p, "exiting") \/ ProcessEnds(p, "gone") \/ OtherStarts(p)

Maintenance ==
  \/ HealProbes \/ HealLocks \/ HealArchives \/ HealUnlinks \/ HealUnlinksLock
  \/ MaintEnds \/ ReapLists
  \/ (\E t \in Identity : ReapLooks(t) \/ ReapSignals(t) \/ ReapMisses(t) \/ ReapCleans(t))
  \/ (\E seen \in SUBSET RunningDaemons : GcLists(seen)) \/ (\E r \in releases : GcRemoves(r))

DaemonNext ==
  \/ \E p \in DaemonPids : StockStep(p)
  \/ \E r \in 1..MaxRelease : Updates(r)
  \/ SeatChanges \/ Maintenance

DaemonSpec == DaemonInit /\ [][DaemonNext]_daemonVars

DaemonTypeOK ==
  /\ daemon \in [DaemonPids -> [at: Processes, life: DaemonLives, release: 1..MaxRelease,
                                old: BOOLEAN]]
  /\ pidfile \in Recorded \cup {NoRecord} /\ sock \in Identity \cup {NoOne, Dangling}
  /\ lockFile \in Locks /\ opened \in [DaemonPids -> Locks \cup {NotOpen}]
  /\ startLock \in [Locks -> DaemonPids \cup {"free", "healer"}] /\ split \in BOOLEAN
  /\ maint \in [at: MaintAt, targets: SUBSET Identity, signalled: SUBSET Identity,
                look: Identity \cup {NoOne}, keep: SUBSET (1..MaxRelease)]
  /\ seated \in BOOLEAN /\ releases \subseteq 1..MaxRelease /\ current \in 1..MaxRelease

-----------------------------------------------------------------------------
\* What names a process that lives stays.
NamesStay(p) ==
  Living(p) /\ Living(p)' =>
    /\ Is(p, sock) => sock' \notin {NoOne, Dangling}
    /\ Is(p, pidfile) => pidfile' # NoRecord

\* No maintenance takes the socket or the pid file of a daemon that lives, not even of one
\* that is about to listen, as long as no starter took a lock file that was unlinked before;
\* and no signal reaches a process that is no orphan, unless it got the id after the newest
\* list (codexhome.py:301-337, 272-298, 405-448).
LivingAreSpared ==
  [][\A p \in DaemonPids :
       /\ ~split => NamesStay(p)
       /\ Living(p) /\ daemon'[p].at = "killed" => Orphan(p) \/ ~Is(p, maint.look)]_daemonVars

\* A collection removes neither the release the next daemon runs nor one that is running
\* (codexhome.py:473-521).
ReleasesInUseStay ==
  /\ current \in releases
  /\ \A p \in RunningDaemons : daemon[p].release \in releases
=============================================================================
