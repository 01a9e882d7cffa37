-------------------------- MODULE ServiceProofs --------------------------
(*************************************************************************)
(* What serves the sessions: a retired proxy that is being removed, the  *)
(* daemons of a Codex seat, the app server a poll or a job talks to.     *)
(*************************************************************************)

EXTENDS Headroom, Daemons, AppServer, SequenceTheorems, FiniteSetTheorems, TLAPS

(*************************************************************************)
(* Headroom. Removing a retired feature without stranding a user of it,  *)
(* for a removal that is cut short anywhere and an older build that      *)
(* enables it again. The invariant says what each place of the removal   *)
(* has made sure of, and that the older build holds the operation lock   *)
(* while it is at work.                                                  *)
(*************************************************************************)

Routed == {f \in Touched : config[f].text = "routed"}

\* A scan vouches for the files before `next' that it could read, the second for those the first
\* could read as well; nothing is taken away while a file that was not missed is routed, and
\* the venv not before the proxy is gone.
PlacesKnow ==
  /\ hr.at = "scan" => \A f \in Routed : f < hr.next => f \in hr.unseen
  /\ hr.at = "rescan" => Routed \subseteq hr.unseen
  /\ hr.at \in {"stop", "backup", "venv"} => Routed \subseteq missed
  /\ hr.at = "venv" \/ (hr.at = "backup" /\ hr.gone) => proxy # "up"

\* The older build began with everything in place, and nobody takes it from under it.
OldIsEquipped ==
  old # Off => hr.at = "idle" /\ backup /\ venv /\ proxy # "stopped"

ProxyIsOnRecord == proxy = "up" => pidOfProxy # "none"

HeadroomInv ==
  HeadroomTypeOK /\ RemovalIsSafe /\ PlacesKnow /\ OldIsEquipped /\ ProxyIsOnRecord

\* What a removal that is not under way looks like.
LEMMA IdleFacts ==
  /\ HrIdle \in [at: HrSteps, next: Touched, unseen: SUBSET Touched, gone: BOOLEAN]
  /\ HrIdle.at = "idle" /\ HrIdle.next = 1
<1>1. 1 \in Touched /\ "idle" \in HrSteps
      BY DEF Touched, HrSteps
<1> QED BY <1>1, Zenon DEF HrIdle

\* The next file, or after the last one the next step.
LEMMA OnwardFacts ==
  ASSUME hr \in [at: HrSteps, next: Touched, unseen: SUBSET Touched, gone: BOOLEAN],
         NEW to \in HrSteps
  PROVE  /\ Onward(to) \in [at: HrSteps, next: Touched, unseen: SUBSET Touched, gone: BOOLEAN]
         /\ Onward(to).unseen = hr.unseen
         /\ hr.next = 3 => Onward(to).at = to /\ Onward(to).next = 1
         /\ hr.next # 3 => Onward(to).at = hr.at /\ Onward(to).next = hr.next + 1
<1>1. CASE hr.next = 3
  <2>1. Onward(to) = [hr EXCEPT !.at = to, !.next = 1]
        BY <1>1 DEF Onward
  <2>2. 1 \in Touched
        BY DEF Touched
  <2> QED BY <1>1, <2>1, <2>2
<1>2. CASE hr.next # 3
  <2>1. Onward(to) = [hr EXCEPT !.next = hr.next + 1]
        BY <1>2 DEF Onward
  <2>2. hr.next + 1 \in Touched
        BY <1>2 DEF Touched
  <2> QED BY <1>2, <2>1, <2>2
<1> QED BY <1>1, <1>2

\* The invariant holds before the feature was ever enabled.
LEMMA HeadroomInvInit == HeadroomInit => HeadroomInv
<1> SUFFICES ASSUME HeadroomInit PROVE HeadroomInv
    OBVIOUS
<1>1. HeadroomTypeOK
  <2>1. [text |-> "user", readable |-> TRUE] \in [text: Texts, readable: BOOLEAN]
        BY Zenon DEF Texts
  <2>2. config \in [Touched -> [text: Texts, readable: BOOLEAN]]
        BY <2>1 DEF HeadroomInit
  <2>3. old \in 0..4
        BY DEF HeadroomInit, Off
  <2>4. hr \in [at: HrSteps, next: Touched, unseen: SUBSET Touched, gone: BOOLEAN]
        BY IdleFacts DEF HeadroomInit
  <2> QED BY <2>2, <2>3, <2>4, Zenon DEF HeadroomInit, HeadroomTypeOK
<1>2. RemovalIsSafe /\ ProxyIsOnRecord
      BY DEF HeadroomInit, RemovalIsSafe, ProxyIsOnRecord
<1>3. PlacesKnow /\ OldIsEquipped
      BY IdleFacts DEF HeadroomInit, PlacesKnow, OldIsEquipped
<1> QED BY <1>1, <1>2, <1>3 DEF HeadroomInv

\* Steps of the older build, which holds the lock from its first to its last.
LEMMA OldPreserves ==
  ASSUME HeadroomInv,
         \/ OldBegins \/ OldRoutes \/ OldEnds
         \/ \E id \in {"good", "bad"} : OldStartsProxy(id)
  PROVE  HeadroomInv'
<1> USE DEF HeadroomInv, HeadroomTypeOK, RemovalIsSafe, PlacesKnow, OldIsEquipped,
            ProxyIsOnRecord, Routed, Touched, Texts, HrSteps, Off
<1>1. CASE OldBegins
      BY <1>1 DEF OldBegins
<1>2. CASE OldRoutes
      BY <1>2 DEF OldRoutes
<1>3. CASE OldEnds
      BY <1>3 DEF OldEnds
<1>4. CASE \E id \in {"good", "bad"} : OldStartsProxy(id)
      BY <1>4 DEF OldStartsProxy
<1> QED BY <1>1, <1>2, <1>3, <1>4

\* Steps of the world: none routes a file or starts a proxy.
LEMMA WorldPreserves ==
  ASSUME HeadroomInv, ProxyDies \/ \E f \in Touched : UserHides(f) \/ UserEdits(f)
  PROVE  HeadroomInv'
<1> USE DEF HeadroomInv, HeadroomTypeOK, RemovalIsSafe, PlacesKnow, OldIsEquipped,
            ProxyIsOnRecord, Routed, Touched, Texts, HrSteps, Off
<1>1. CASE ProxyDies
      BY <1>1 DEF ProxyDies
<1>2. ASSUME NEW f \in Touched, UserHides(f) \/ UserEdits(f) PROVE HeadroomInv'
  <2>1. /\ config' \in [Touched -> [text: Texts, readable: BOOLEAN]]
        /\ \A g \in Touched : config'[g].text \in {config[g].text, "user"}
    <3>1. CASE UserHides(f)
          BY <3>1 DEF UserHides
    <3>2. CASE UserEdits(f)
          BY <3>2 DEF UserEdits
    <3> QED BY <1>2, <3>1, <3>2
  <2>2. UNCHANGED <<backup, venv, pidOfProxy, proxy, hr, old, missed>>
        BY <1>2, Zenon DEF UserHides, UserEdits
  <2>3. Routed' \subseteq Routed
        BY <2>1 DEF Routed
  <2>4. HeadroomTypeOK' /\ RemovalIsSafe'
        BY <2>1, <2>2
  <2> HIDE DEF Routed
  <2>5. PlacesKnow' /\ OldIsEquipped' /\ ProxyIsOnRecord'
        BY <2>2, <2>3
  <2> QED BY <2>4, <2>5, Zenon DEF HeadroomInv
<1> QED BY <1>1, <1>2

\* Steps of the removal.
LEMMA RemovalPreserves ==
  ASSUME HeadroomInv,
         \/ CleanupBegins \/ Unroutes \/ Scans \/ Rescans \/ StopKeeps \/ StopForgets \/ StopKills
         \/ RemovesBackup \/ RemovesVenv \/ CleanupEnds
  PROVE  HeadroomInv'
<1> USE DEF HeadroomInv, HeadroomTypeOK, RemovalIsSafe, PlacesKnow, OldIsEquipped,
            ProxyIsOnRecord, Routed, Touched, Texts, HrSteps, Off
<1>1. CASE CleanupBegins
  <2>1. hr' \in [at: HrSteps, next: Touched, unseen: SUBSET Touched, gone: BOOLEAN] /\ hr'.at \in {"unroute", "scan"} /\ hr'.next = 1
        BY <1>1, IdleFacts DEF CleanupBegins
  <2> QED BY <1>1, <2>1 DEF CleanupBegins
<1>2. CASE Unroutes
  <2>1. /\ hr' \in [at: HrSteps, next: Touched, unseen: SUBSET Touched, gone: BOOLEAN]
        /\ hr'.at = "unroute" \/ (hr'.at = "scan" /\ hr'.next = 1)
        BY <1>2, OnwardFacts DEF Unroutes
  <2>2. config' \in [Touched -> [text: Texts, readable: BOOLEAN]] /\ RemovalIsSafe'
        BY <1>2 DEF Unroutes, Injected
  <2> QED BY <1>2, <2>1, <2>2 DEF Unroutes
<1>3. CASE Scans
  <2>1. CASE Injected(hr.next)
        BY <1>3, <2>1, IdleFacts DEF Scans
  <2>2. CASE ~Injected(hr.next)
    <3>1. hr.next \notin Routed \/ Unknown(hr.next)
          BY <2>2 DEF Injected, Unknown
    <3>2. \A f \in Routed : f <= hr.next => f \in hr'.unseen
          BY <1>3, <2>2, <3>1 DEF Scans, Onward, Unknown
    <3>3. /\ hr' \in [at: HrSteps, next: Touched, unseen: SUBSET Touched, gone: BOOLEAN]
          /\ \/ hr'.at = "scan" /\ hr'.next = hr.next + 1
             \/ hr'.at = "rescan" /\ hr.next = 3
      <4> DEFINE seen == IF Unknown(hr.next) THEN hr.unseen \cup {hr.next} ELSE hr.unseen
      <4>1. hr' = [Onward("rescan") EXCEPT !.unseen = seen] /\ hr.at = "scan"
            BY <1>3, <2>2, OnwardFacts DEF Scans
      <4>2. seen \in SUBSET Touched
            OBVIOUS
      <4> HIDE DEF seen
      <4> QED BY <4>1, <4>2, OnwardFacts
    <3>4. UNCHANGED <<config, backup, venv, pidOfProxy, proxy, old, missed>>
          BY <1>3 DEF Scans
    <3>5. hr'.at = "rescan" => Routed \subseteq hr'.unseen
          BY <3>2, <3>3
    <3>6. hr'.at = "scan" => \A f \in Routed : f < hr'.next => f \in hr'.unseen
          BY <3>2, <3>3
    <3> HIDE DEF Routed
    <3>7. Routed' = Routed
          BY <3>4 DEF Routed
    <3>8. PlacesKnow'
          BY <3>3, <3>5, <3>6, <3>7, Zenon
    <3>9. old = Off
          BY <1>3 DEF Scans
    <3> QED BY <3>3, <3>4, <3>8, <3>9
  <2> QED BY <2>1, <2>2
<1>10. CASE Rescans
  <2>1. CASE Unknown(hr.next)
        BY <1>10, <2>1, IdleFacts DEF Rescans
  <2>2. CASE ~Unknown(hr.next)
    <3> DEFINE passed == IF Injected(hr.next) THEN hr.unseen ELSE hr.unseen \ {hr.next}
    <3>1. passed \subseteq Touched /\ Routed \subseteq passed
          BY <1>10, <2>2 DEF Rescans, Injected, Unknown
    <3>2. CASE hr.next = 3
      <4>1. /\ hr' = [hr EXCEPT !.at = "stop", !.next = 1, !.unseen = {}]
            /\ missed' = missed \cup passed
            /\ UNCHANGED <<config, backup, venv, pidOfProxy, proxy, old>>
            BY <1>10, <2>2, <3>2 DEF Rescans, Onward
      <4> HIDE DEF passed
      <4>2. hr' \in [at: HrSteps, next: Touched, unseen: SUBSET Touched, gone: BOOLEAN]
            /\ hr'.at = "stop"
        <5>1. "stop" \in HrSteps /\ 1 \in Touched /\ {} \in SUBSET Touched
              OBVIOUS
        <5> HIDE DEF HrSteps, Touched
        <5> QED BY <4>1, <5>1
      <4>3. old = Off /\ Routed' \subseteq missed' /\ missed' \subseteq Touched
            BY <1>10, <3>1, <4>1 DEF Rescans
      <4> QED BY <4>1, <4>2, <4>3
    <3>3. CASE hr.next # 3
          BY <1>10, <2>2, <3>1, <3>3 DEF Rescans, Onward
    <3> QED BY <3>2, <3>3
  <2> QED BY <2>1, <2>2
<1>4. CASE StopKeeps
      BY <1>4 DEF StopKeeps
<1>5. CASE StopForgets
      BY <1>5 DEF StopForgets
<1>6. CASE StopKills
      BY <1>6 DEF StopKills
<1>7. CASE RemovesBackup
      BY <1>7, IdleFacts DEF RemovesBackup, Step
<1>8. CASE RemovesVenv
      BY <1>8, IdleFacts DEF RemovesVenv
<1>9. CASE CleanupEnds
      BY <1>9, IdleFacts DEF CleanupEnds
<1> QED BY <1>1, <1>2, <1>3, <1>4, <1>5, <1>6, <1>7, <1>8, <1>9, <1>10

\* The invariant is one of every behaviour.
LEMMA HeadroomInvHolds == HeadroomSpec => []HeadroomInv
<1>1. HeadroomInv /\ [HeadroomNext]_headroomVars => HeadroomInv'
  <2> SUFFICES ASSUME HeadroomInv, [HeadroomNext]_headroomVars PROVE HeadroomInv'
      OBVIOUS
  <2>1. CASE UNCHANGED headroomVars
        BY <2>1 DEF headroomVars, HeadroomInv, HeadroomTypeOK, RemovalIsSafe, PlacesKnow,
                    OldIsEquipped, ProxyIsOnRecord, Routed
  <2> QED BY <2>1, OldPreserves, WorldPreserves, RemovalPreserves DEF HeadroomNext
<1> QED BY <1>1, HeadroomInvInit, PTL DEF HeadroomSpec

\* Every variable of the removal keeps its type (headroom.py:120-651).
THEOREM HeadroomTypeCorrect == HeadroomSpec => []HeadroomTypeOK
<1>1. HeadroomInv => HeadroomTypeOK
      BY DEF HeadroomInv
<1> QED BY <1>1, HeadroomInvHolds, PTL

\* However often the removal is cut short and the feature enabled again: no value of the
\* user's is lost, and no file points at a proxy the removal stopped (headroom.py:602-633).
THEOREM SafeRemoval == HeadroomSpec => []RemovalIsSafe
<1>1. HeadroomInv => RemovalIsSafe
      BY DEF HeadroomInv
<1> QED BY <1>1, HeadroomInvHolds, PTL

(*************************************************************************)
(* The daemons. As long as every starter took the lock file that had the *)
(* name, there is one daemon at a time, from its start to its end either *)
(* the startup lock or the pid file names it, and healing is alone while *)
(* it holds that lock. A collection holds off the updater, so that what  *)
(* it listed as current is what every later daemon runs.                 *)
(*************************************************************************)

Healing  == {"locked", "archived", "unlinked"}
PastLock == {"recorded", "bound", "serving"}

\* A name is of a process that was.
Named(who) == who.pid \in DaemonPids => who.life <= daemon[who.pid].life

\* One daemon at a time; it holds the startup lock until the pid file names it.
OneDaemon ==
  /\ \A p, q \in DaemonPids : daemon[p].at \in Serving /\ daemon[q].at \in Serving => p = q
  /\ \A p \in DaemonPids : /\ Living(p) => daemon[p].life >= 1
                           /\ daemon[p].at = "starting" => startLock[lockFile] = p
                           /\ daemon[p].at \in PastLock => Is(p, pidfile)

\* What names a process that lives is the daemon's.
NamesAreDaemons ==
  /\ Named(sock) /\ Named(pidfile)
  /\ \A p \in DaemonPids : Living(p) =>
       /\ Is(p, sock) => daemon[p].at \in {"bound", "serving"}
       /\ Is(p, pidfile) => daemon[p].at \in PastLock

\* The healer keeps the lock, and there is no daemon as long as it does.
HealerIsAlone ==
  maint.at \in Healing =>
    /\ startLock[lockFile] = "healer"
    /\ ~split => \A p \in DaemonPids : daemon[p].at \notin Serving

\* Who was last looked at is an orphan until it ends.
LookIsOrphan ==
  maint.look # NoOne =>
    /\ maint.at = "reaping" /\ maint.look \in Identity /\ Named(maint.look)
    /\ Is(maint.look.pid, maint.look) /\ Living(maint.look.pid) => Orphan(maint.look.pid)

\* A collection knows what is in use.
CollectorKnows ==
  maint.at = "collecting" =>
    current \in maint.keep /\ \A p \in RunningDaemons : daemon[p].release \in maint.keep

DaemonInv ==
  /\ DaemonTypeOK /\ (~split => OneDaemon /\ NamesAreDaemons)
  /\ HealerIsAlone /\ LookIsOrphan /\ CollectorKnows /\ ReleasesInUseStay

\* No daemon runs and no lock is held.
LEMMA DaemonsInitially == DaemonInit => DaemonInv
<1> SUFFICES ASSUME DaemonInit PROVE DaemonInv OBVIOUS
<1> USE DaemonBounds, LockNames
<1>1. DaemonTypeOK
  <2>1. 1 \in Locks /\ 1 \in 1..MaxRelease /\ 0 \in DaemonLives BY DEF Locks, DaemonLives
  <2>2. maint \in [at: MaintAt, targets: SUBSET Identity, signalled: SUBSET Identity,
                   look: Identity \cup {NoOne}, keep: SUBSET (1..MaxRelease)]
    BY DEF DaemonInit, Resting, MaintAt
  <2>3. daemon \in [DaemonPids -> [at: Processes, life: DaemonLives, release: 1..MaxRelease,
                                  old: BOOLEAN]]
    BY <2>1 DEF DaemonInit, Processes
  <2> QED BY <2>1, <2>2, <2>3 DEF DaemonInit, DaemonTypeOK
<1>2. \A p \in DaemonPids : daemon[p].at = "gone" /\ daemon[p].life = 0 BY DEF DaemonInit
<1> QED
  BY <1>1, <1>2 DEF DaemonInit, DaemonInv, OneDaemon, NamesAreDaemons, HealerIsAlone, LookIsOrphan,
     CollectorKnows, ReleasesInUseStay, Named, Living, Is, Serving, PastLock, Healing, Resting, NoOne,
     NoRecord, RunningDaemons

\* The new state of one process: what the other parts say of the rest stays.
LEMMA OneProcess ==
  ASSUME DaemonInv, NEW p \in DaemonPids, NEW r, daemon' = [daemon EXCEPT ![p] = r]
  PROVE  daemon'[p] = r /\ \A q \in DaemonPids \ {p} : daemon'[q] = daemon[q]
BY DEF DaemonInv, DaemonTypeOK

\* The one that was looked at stays what it is, whether the step changes a process in its place,
LEMMA SameProcess ==
  ASSUME DaemonInv, NEW p \in DaemonPids, NEW r, daemon' = [daemon EXCEPT ![p] = r],
         r.life = daemon[p].life, maint'.look \in {maint.look, NoOne}, maint'.at = maint.at,
         UNCHANGED seated,
         r.at \in {"gone", "exiting", "killed"} \/ (daemon[p].at \in Serving /\ r.at \in Serving
                                                   /\ r.old = daemon[p].old)
  PROVE  LookIsOrphan'
<1>1. daemon'[p] = r /\ \A q \in DaemonPids \ {p} : daemon'[q] = daemon[q] BY OneProcess
<1>2. CASE maint'.look = NoOne BY <1>2 DEF LookIsOrphan
<1>3. CASE maint'.look = maint.look /\ maint.look # NoOne
  <2>1. /\ maint.at = "reaping" /\ maint.look \in Identity /\ Named(maint.look)
        /\ Is(maint.look.pid, maint.look) /\ Living(maint.look.pid) => Orphan(maint.look.pid)
    BY <1>3 DEF DaemonInv, LookIsOrphan
  <2>2. maint.look.pid \in DaemonPids BY <2>1 DEF Identity
  <2> QED BY <1>1, <1>3, <2>1, <2>2 DEF LookIsOrphan, Named, Is, Living, Orphan, Serving
<1> QED BY <1>2, <1>3

\* gives its id to another,
LEMMA NewProcess ==
  ASSUME DaemonInv, NEW p \in DaemonPids, NEW r, daemon' = [daemon EXCEPT ![p] = r],
         daemon[p].life \in Nat, r.life = daemon[p].life + 1, UNCHANGED <<maint, seated>>
  PROVE  LookIsOrphan'
<1>1. daemon'[p] = r /\ \A q \in DaemonPids \ {p} : daemon'[q] = daemon[q] BY OneProcess
<1>2. CASE maint.look = NoOne BY <1>2 DEF LookIsOrphan
<1>3. CASE maint.look # NoOne
  <2>1. /\ maint.at = "reaping" /\ maint.look \in Identity /\ Named(maint.look)
        /\ Is(maint.look.pid, maint.look) /\ Living(maint.look.pid) => Orphan(maint.look.pid)
    BY <1>3 DEF DaemonInv, LookIsOrphan
  <2>2. maint.look.pid \in DaemonPids /\ maint.look.life \in Nat
    BY <2>1, DaemonBounds DEF Identity, DaemonLives
  <2>3. CASE maint.look.pid = p BY <1>1, <2>1, <2>2, <2>3 DEF LookIsOrphan, Named, Is
  <2>4. CASE maint.look.pid # p
    BY <1>1, <2>1, <2>2, <2>4 DEF LookIsOrphan, Named, Is, Living, Orphan
  <2> QED BY <2>3, <2>4
<1> QED BY <1>2, <1>3

\* or none at all.
LEMMA SameLook ==
  ASSUME DaemonInv, UNCHANGED daemon,
         \/ maint'.look = NoOne
         \/ maint'.look = maint.look /\ maint'.at = maint.at /\ UNCHANGED seated
  PROVE  LookIsOrphan'
BY DEF DaemonInv, LookIsOrphan, Named, Is, Living, Orphan

\* A daemon starts behind the startup lock.
LEMMA DaemonStartsStep ==
  ASSUME DaemonInv, NEW p \in DaemonPids, NEW index \in BOOLEAN, DaemonStarts(p, index)
  PROVE  DaemonInv'
<1> DEFINE r == [at |-> "starting", life |-> daemon[p].life + 1, release |-> current, old |-> index]
<1>1. /\ daemon[p].at = "gone" /\ daemon[p].life < MaxDaemonLife /\ opened[p] \in Locks
      /\ startLock[opened[p]] = "free" /\ ~StockTrusts
      /\ daemon' = [daemon EXCEPT ![p] = r] /\ startLock' = [startLock EXCEPT ![opened[p]] = p]
      /\ split' = (split \/ opened[p] # lockFile)
      /\ UNCHANGED <<pidfile, sock, lockFile, opened, maint, seated, releases, current>>
  BY DEF DaemonStarts, DaemonInv, DaemonTypeOK
<1>2. daemon[p].life \in Nat /\ daemon[p].life + 1 \in DaemonLives /\ current \in 1..MaxRelease
  BY <1>1, DaemonBounds DEF DaemonInv, DaemonTypeOK, DaemonLives
<1>3. daemon'[p] = r /\ \A q \in DaemonPids \ {p} : daemon'[q] = daemon[q] BY <1>1, OneProcess
<1>4. DaemonTypeOK'
  BY <1>1, <1>2 DEF DaemonInv, DaemonTypeOK, Processes, Serving
<1>5. ~split' => ~split /\ opened[p] = lockFile /\ \A q \in DaemonPids : daemon[q].at \notin Serving
  <2> SUFFICES ASSUME ~split' PROVE ~split /\ opened[p] = lockFile
                                 /\ \A q \in DaemonPids : daemon[q].at \notin Serving
    OBVIOUS
  <2>1. ~split /\ opened[p] = lockFile BY <1>1
  <2>2. ASSUME NEW q \in DaemonPids PROVE daemon[q].at # "starting"
    BY <1>1, <2>1, LockNames DEF DaemonInv, OneDaemon
  <2>3. ASSUME NEW q \in DaemonPids PROVE daemon[q].at \notin PastLock
    BY <1>1, <2>1 DEF DaemonInv, OneDaemon, StockTrusts, Signalable, Is, PastLock
  <2> QED BY <2>1, <2>2, <2>3 DEF Serving, PastLock
<1>6. startLock'[lockFile] = "healer" <=> startLock[lockFile] = "healer"
  BY <1>1, LockNames DEF DaemonInv, DaemonTypeOK
<1>7. ~split' => OneDaemon'
  <2>1. ~split' => startLock'[lockFile'] = p BY <1>1, <1>5 DEF DaemonInv, DaemonTypeOK
  <2> QED BY <1>1, <1>2, <1>3, <1>5, <2>1 DEF OneDaemon, DaemonInv, Living, Serving, PastLock, Is
<1>8. ~split' => NamesAreDaemons'
  <2> SUFFICES ASSUME ~split' PROVE NamesAreDaemons' OBVIOUS
  <2> USE <1>5
  <2>1. ~Is(p, sock)' /\ ~Is(p, pidfile)' /\ Named(sock)' /\ Named(pidfile)'
    BY <1>1, <1>2, <1>3 DEF DaemonInv, NamesAreDaemons, DaemonTypeOK, Named, Is, Recorded, Identity,
       DaemonLives, NoOne, Dangling, NoRecord
  <2> QED BY <1>1, <1>3, <2>1 DEF DaemonInv, NamesAreDaemons, Living, Is
<1>9. HealerIsAlone'
  <2>1. ~split' => startLock[lockFile] # "healer" BY <1>1, <1>5
  <2> QED BY <1>1, <1>6, <2>1 DEF DaemonInv, HealerIsAlone
<1>10. CollectorKnows' /\ ReleasesInUseStay'
  BY <1>1, <1>3 DEF DaemonInv, CollectorKnows, ReleasesInUseStay, RunningDaemons
<1>11. LookIsOrphan' BY <1>1, <1>2, <1>3, NewProcess
<1> QED BY <1>4, <1>7, <1>8, <1>9, <1>10, <1>11 DEF DaemonInv

\* It writes the pid file.
LEMMA DaemonRecordsStep ==
  ASSUME DaemonInv, NEW p \in DaemonPids, NEW known \in BOOLEAN, DaemonRecords(p, known)
  PROVE  DaemonInv'
<1> DEFINE r == [daemon[p] EXCEPT !.at = "recorded"]
           f == [pid |-> p, life |-> daemon[p].life, known |-> known]
<1>1. /\ daemon[p].at = "starting" /\ daemon' = [daemon EXCEPT ![p] = r] /\ pidfile' = f
      /\ UNCHANGED <<sock, lockVars, maint, seated, releases, current>>
  BY DEF DaemonRecords, DaemonInv, DaemonTypeOK
<1>2. /\ r.at = "recorded" /\ r.life = daemon[p].life /\ r.release = daemon[p].release
      /\ r.old = daemon[p].old
      /\ f.pid = p /\ f.life = daemon[p].life
  BY DEF DaemonInv, DaemonTypeOK
<1>3. DaemonTypeOK' BY <1>1 DEF DaemonInv, DaemonTypeOK, Processes, Serving, Recorded, lockVars
<1> HIDE DEF r, f
<1>4. daemon'[p] = r /\ \A q \in DaemonPids \ {p} : daemon'[q] = daemon[q] BY <1>1, OneProcess
<1>5. ~split => \A q \in DaemonPids \ {p} : daemon[q].at \notin Serving
  BY <1>1 DEF DaemonInv, OneDaemon, Serving
<1>6. ~split' => OneDaemon'
  BY <1>1, <1>2, <1>4, <1>5 DEF OneDaemon, DaemonInv, Living, Serving, PastLock, Is, lockVars
<1>7. ~split' => NamesAreDaemons'
  <2> SUFFICES ASSUME ~split PROVE NamesAreDaemons' BY <1>1 DEF lockVars
  <2>1. Named(sock)' /\ Named(pidfile)'
    BY <1>1, <1>2, <1>4 DEF DaemonInv, NamesAreDaemons, DaemonTypeOK, Named, DaemonLives
  <2>2. ~Is(p, sock) BY <1>1 DEF DaemonInv, NamesAreDaemons, Living
  <2> QED BY <1>1, <1>2, <1>4, <2>1, <2>2 DEF DaemonInv, NamesAreDaemons, Living, Is, PastLock
<1>8. HealerIsAlone' BY <1>1, <1>4 DEF DaemonInv, HealerIsAlone, Serving, lockVars
<1>9. CollectorKnows' /\ ReleasesInUseStay'
  BY <1>1, <1>2, <1>4 DEF DaemonInv, CollectorKnows, ReleasesInUseStay, RunningDaemons, Serving
<1>10. LookIsOrphan' BY <1>1, <1>2, SameProcess DEF Serving
<1> QED BY <1>3, <1>6, <1>7, <1>8, <1>9, <1>10 DEF DaemonInv

\* It binds the socket.
LEMMA DaemonBindsStep == ASSUME DaemonInv, NEW p \in DaemonPids, DaemonBinds(p) PROVE DaemonInv'
<1> DEFINE r == [daemon[p] EXCEPT !.at = "bound"]
           f == [pid |-> p, life |-> daemon[p].life]
<1>1. /\ daemon[p].at = "recorded" /\ daemon' = [daemon EXCEPT ![p] = r] /\ sock' = f
      /\ UNCHANGED <<pidfile, lockVars, maint, seated, releases, current>>
  BY DEF DaemonBinds, DaemonInv, DaemonTypeOK
<1>2. /\ r.at = "bound" /\ r.life = daemon[p].life /\ r.release = daemon[p].release
      /\ r.old = daemon[p].old
      /\ f.pid = p /\ f.life = daemon[p].life
  BY DEF DaemonInv, DaemonTypeOK
<1>3. DaemonTypeOK' BY <1>1 DEF DaemonInv, DaemonTypeOK, Processes, Serving, Identity, lockVars
<1> HIDE DEF r, f
<1>4. daemon'[p] = r /\ \A q \in DaemonPids \ {p} : daemon'[q] = daemon[q] BY <1>1, OneProcess
<1>5. ~split' => OneDaemon'
  BY <1>1, <1>2, <1>4 DEF OneDaemon, DaemonInv, Living, Serving, PastLock, Is, lockVars
<1>6. ~split' => NamesAreDaemons'
  <2> SUFFICES ASSUME ~split PROVE NamesAreDaemons' BY <1>1 DEF lockVars
  <2>1. Named(sock)' /\ Named(pidfile)'
    BY <1>1, <1>2, <1>4 DEF DaemonInv, NamesAreDaemons, DaemonTypeOK, Named, DaemonLives
  <2> QED BY <1>1, <1>2, <1>4, <2>1 DEF DaemonInv, NamesAreDaemons, Living, Is, PastLock
<1>7. HealerIsAlone' BY <1>1, <1>2, <1>4 DEF DaemonInv, HealerIsAlone, Serving, lockVars
<1>8. CollectorKnows' /\ ReleasesInUseStay'
  BY <1>1, <1>2, <1>4 DEF DaemonInv, CollectorKnows, ReleasesInUseStay, RunningDaemons, Serving
<1>9. LookIsOrphan' BY <1>1, <1>2, SameProcess DEF Serving
<1> QED BY <1>3, <1>5, <1>6, <1>7, <1>8, <1>9 DEF DaemonInv

\* It serves.
LEMMA DaemonListensStep == ASSUME DaemonInv, NEW p \in DaemonPids, DaemonListens(p) PROVE DaemonInv'
<1> DEFINE r == [daemon[p] EXCEPT !.at = "serving"]
<1>1. /\ daemon[p].at = "bound" /\ daemon' = [daemon EXCEPT ![p] = r]
      /\ UNCHANGED <<pidfile, sock, lockVars, maint, seated, releases, current>>
  BY DEF DaemonListens, DaemonInv, DaemonTypeOK
<1>2. /\ r.at = "serving" /\ r.life = daemon[p].life /\ r.release = daemon[p].release
      /\ r.old = daemon[p].old
  BY DEF DaemonInv, DaemonTypeOK
<1>3. DaemonTypeOK' BY <1>1 DEF DaemonInv, DaemonTypeOK, Processes, Serving, lockVars
<1> HIDE DEF r
<1>4. daemon'[p] = r /\ \A q \in DaemonPids \ {p} : daemon'[q] = daemon[q] BY <1>1, OneProcess
<1>5. ~split' => OneDaemon'
  BY <1>1, <1>2, <1>4 DEF OneDaemon, DaemonInv, Living, Serving, PastLock, Is, lockVars
<1>6. ~split' => NamesAreDaemons'
  BY <1>1, <1>2, <1>4 DEF DaemonInv, NamesAreDaemons, Living, Is, PastLock, Named, lockVars
<1>7. HealerIsAlone' BY <1>1, <1>2, <1>4 DEF DaemonInv, HealerIsAlone, Serving, lockVars
<1>8. CollectorKnows' /\ ReleasesInUseStay'
  BY <1>1, <1>2, <1>4 DEF DaemonInv, CollectorKnows, ReleasesInUseStay, RunningDaemons, Serving
<1>9. LookIsOrphan' BY <1>1, <1>2, SameProcess DEF Serving
<1> QED BY <1>3, <1>5, <1>6, <1>7, <1>8, <1>9 DEF DaemonInv

\* A process that is no daemon any more, or none yet.
LEMMA NoDaemonStep ==
  ASSUME DaemonInv, NEW p \in DaemonPids, NEW r, daemon' = [daemon EXCEPT ![p] = r],
         DaemonTypeOK', UNCHANGED <<pidfile, sock, releases, current>>,
         r.at \in {"gone", "exiting", "killed", "other"}, r.life >= daemon[p].life,
         r.at = "other" => r.life > daemon[p].life,
         UNCHANGED <<lockFile, split>>, startLock[lockFile] # p => startLock'[lockFile] = startLock[lockFile],
         maint'.at = maint.at, maint'.keep = maint.keep, LookIsOrphan'
  PROVE  DaemonInv'
<1>1. daemon'[p] = r /\ \A q \in DaemonPids \ {p} : daemon'[q] = daemon[q] BY OneProcess
<1>2. daemon[p].life \in Nat /\ r.life \in Nat
  BY <1>1, DaemonBounds DEF DaemonInv, DaemonTypeOK, DaemonLives
<1>3. ~split' => OneDaemon'
  <2>1. r.at = "other" => r.life >= 1 BY <1>2
  <2> QED BY <1>1, <2>1 DEF OneDaemon, DaemonInv, Living, Serving, PastLock, Is
<1>4. ~split' => NamesAreDaemons'
  <2> SUFFICES ASSUME ~split PROVE NamesAreDaemons' OBVIOUS
  <2>1. Named(sock)' /\ Named(pidfile)'
    BY <1>1, <1>2 DEF DaemonInv, NamesAreDaemons, DaemonTypeOK, Named, DaemonLives, Recorded, Identity,
       NoOne, Dangling, NoRecord
  <2>2. r.at = "other" => ~Is(p, sock)' /\ ~Is(p, pidfile)'
    BY <1>1, <1>2 DEF DaemonInv, NamesAreDaemons, DaemonTypeOK, Named, Is, Recorded, Identity,
       DaemonLives, NoOne, Dangling, NoRecord
  <2> QED BY <1>1, <2>1, <2>2 DEF DaemonInv, NamesAreDaemons, Living, Is, PastLock
<1>5. HealerIsAlone' BY <1>1, LockNames DEF DaemonInv, HealerIsAlone, Serving
<1>6. CollectorKnows' /\ ReleasesInUseStay'
  BY <1>1 DEF DaemonInv, CollectorKnows, ReleasesInUseStay, RunningDaemons, Serving
<1> QED BY <1>3, <1>4, <1>5, <1>6 DEF DaemonInv

\* Only the locks of the one that ends are free, and its own file is closed.
LEMMA FreesLockFacts ==
  ASSUME DaemonInv, NEW p \in DaemonPids, FreesLock(p)
  PROVE  /\ opened' \in [DaemonPids -> Locks \cup {NotOpen}]
         /\ startLock' \in [Locks -> DaemonPids \cup {"free", "healer"}]
         /\ UNCHANGED <<lockFile, split>>
         /\ startLock[lockFile] # p => startLock'[lockFile] = startLock[lockFile]
BY DEF FreesLock, LetGo, DaemonInv, DaemonTypeOK

\* A process ends, and its pid may be given to another.
LEMMA ProcessEndsStep ==
  ASSUME DaemonInv, NEW p \in DaemonPids, NEW how \in {"exiting", "gone"}, ProcessEnds(p, how)
  PROVE  DaemonInv'
<1> DEFINE r == [daemon[p] EXCEPT !.at = how]
<1>1. /\ daemon' = [daemon EXCEPT ![p] = r]
      /\ FreesLock(p) /\ UNCHANGED <<pidfile, sock, maint, seated, releases, current>>
  BY DEF ProcessEnds, DaemonInv, DaemonTypeOK
<1>2. r.at = how /\ r.life = daemon[p].life /\ daemon[p].life \in Nat
  BY DaemonBounds DEF DaemonInv, DaemonTypeOK, DaemonLives
<1>3. DaemonTypeOK' BY <1>1, FreesLockFacts DEF DaemonInv, DaemonTypeOK, Processes
<1> HIDE DEF r
<1>4. r.at \in {"gone", "exiting", "killed", "other"} /\ r.at # "other" /\ r.life >= daemon[p].life
  BY <1>2
<1>5. LookIsOrphan' BY <1>1, <1>2, SameProcess
<1> QED BY <1>1, <1>3, <1>4, <1>5, FreesLockFacts, NoDaemonStep

\* A process of somebody else is given a pid.
LEMMA OtherStartsStep == ASSUME DaemonInv, NEW p \in DaemonPids, OtherStarts(p) PROVE DaemonInv'
<1> DEFINE r == [daemon[p] EXCEPT !.at = "other", !.life = @ + 1]
<1>1. /\ daemon[p].at = "gone" /\ daemon[p].life < MaxDaemonLife
      /\ daemon' = [daemon EXCEPT ![p] = r]
      /\ UNCHANGED <<pidfile, sock, lockVars, maint, seated, releases, current>>
  BY DEF OtherStarts, DaemonInv, DaemonTypeOK
<1>2. /\ r.at = "other" /\ r.life = daemon[p].life + 1 /\ daemon[p].life \in Nat
      /\ r.life \in DaemonLives
  BY <1>1, DaemonBounds DEF DaemonInv, DaemonTypeOK, DaemonLives
<1>3. DaemonTypeOK'
  <2>1. r \in [at: Processes, life: DaemonLives, release: 1..MaxRelease, old: BOOLEAN]
    BY <1>1, <1>2, ZenonT(30) DEF DaemonInv, DaemonTypeOK, Processes
  <2> HIDE DEF r
  <2> QED BY <1>1, <2>1 DEF DaemonInv, DaemonTypeOK, lockVars
<1> HIDE DEF r
<1>4. r.at \in {"gone", "exiting", "killed", "other"} /\ r.life > daemon[p].life /\ r.life >= daemon[p].life
  BY <1>2
<1>5. LookIsOrphan' BY <1>1, <1>2, NewProcess
<1> QED BY <1>1, <1>3, <1>4, <1>5, NoDaemonStep DEF lockVars

\* A step in which no process changes.
LEMMA ProcessesStay ==
  ASSUME DaemonInv, UNCHANGED daemon, DaemonTypeOK',
         split' = split, \A p \in DaemonPids :
                           startLock[lockFile] = p => \/ startLock'[lockFile'] = p
                                                      \/ daemon[p].at # "starting",
         pidfile' # pidfile /\ ~split => \A p \in DaemonPids : daemon[p].at \notin Serving,
         pidfile' \in {pidfile, NoRecord}, sock' \in {sock, NoOne, Dangling},
         HealerIsAlone', LookIsOrphan', CollectorKnows', ReleasesInUseStay'
  PROVE  DaemonInv'
<1>1. ~split' => OneDaemon' BY DEF DaemonInv, OneDaemon, Living, Serving, PastLock, Is
<1>2. \A p \in DaemonPids : daemon[p].life \in Nat
  BY DaemonBounds DEF DaemonInv, DaemonTypeOK, DaemonLives
<1>3. ~split' => NamesAreDaemons'
  <2> SUFFICES ASSUME ~split PROVE NamesAreDaemons' OBVIOUS
  <2>1. /\ \A p \in DaemonPids : Living(p) => ~(NoOne.life = daemon[p].life)
        /\ NoOne.life = 0 /\ NoRecord.life = 0 /\ Dangling.life = 0
    BY <1>2 DEF DaemonInv, OneDaemon, NoOne, NoRecord, Dangling
  <2>2. Named(sock)' /\ Named(pidfile)'
    BY <1>2, <2>1 DEF DaemonInv, NamesAreDaemons, Named
  <2> QED BY <1>2, <2>1, <2>2 DEF DaemonInv, NamesAreDaemons, Living, Is, PastLock
<1> QED BY <1>1, <1>3 DEF DaemonInv

\* A starter opens the lock file,
LEMMA StarterOpensStep == ASSUME DaemonInv, NEW p \in DaemonPids, StarterOpens(p) PROVE DaemonInv'
<1>1. /\ opened' = [opened EXCEPT ![p] = lockFile]
      /\ UNCHANGED <<daemon, pidfile, sock, lockFile, startLock, split, maint, seated, releases, current>>
  BY DEF StarterOpens
<1>2. DaemonTypeOK' BY <1>1 DEF DaemonInv, DaemonTypeOK
<1>3. HealerIsAlone' BY <1>1 DEF DaemonInv, HealerIsAlone
<1>4. CollectorKnows' /\ ReleasesInUseStay'
  BY <1>1 DEF DaemonInv, CollectorKnows, ReleasesInUseStay, RunningDaemons
<1>5. LookIsOrphan' BY <1>1, SameLook
<1> QED BY <1>1, <1>2, <1>3, <1>4, <1>5, ProcessesStay

\* and closes it once its daemon is on record or gone.
LEMMA StarterClosesStep == ASSUME DaemonInv, NEW p \in DaemonPids, StarterCloses(p) PROVE DaemonInv'
<1>1. /\ daemon[p].at # "starting" /\ opened' = [opened EXCEPT ![p] = NotOpen]
      /\ startLock' = LetGo(p)
      /\ UNCHANGED <<daemon, pidfile, sock, lockFile, split, maint, seated, releases, current>>
  BY DEF StarterCloses
<1>2. startLock[lockFile] # p => startLock'[lockFile] = startLock[lockFile]
  BY <1>1 DEF LetGo, DaemonInv, DaemonTypeOK
<1>3. DaemonTypeOK' BY <1>1 DEF DaemonInv, DaemonTypeOK, LetGo
<1>4. HealerIsAlone' BY <1>1, <1>2, LockNames DEF DaemonInv, HealerIsAlone
<1>5. CollectorKnows' /\ ReleasesInUseStay'
  BY <1>1 DEF DaemonInv, CollectorKnows, ReleasesInUseStay, RunningDaemons
<1>6. LookIsOrphan' BY <1>1, SameLook
<1> QED BY <1>1, <1>2, <1>3, <1>4, <1>5, <1>6, ProcessesStay

\* The updater unpacks a release and makes it current.
LEMMA UpdatesStep == ASSUME DaemonInv, NEW r \in 1..MaxRelease, Updates(r) PROVE DaemonInv'
<1>1. /\ maint.at # "collecting" /\ releases' = releases \cup {r} /\ current' = r
      /\ UNCHANGED <<daemon, pidfile, sock, lockFile, opened, startLock, split, maint, seated>>
  BY DEF Updates, lockVars
<1>2. DaemonTypeOK' BY <1>1 DEF DaemonInv, DaemonTypeOK
<1>3. HealerIsAlone' BY <1>1 DEF DaemonInv, HealerIsAlone
<1>4. CollectorKnows' /\ ReleasesInUseStay'
  BY <1>1 DEF DaemonInv, CollectorKnows, ReleasesInUseStay, RunningDaemons
<1>5. LookIsOrphan' BY <1>1, SameLook
<1> QED BY <1>1, <1>2, <1>3, <1>4, <1>5, ProcessesStay

\* The home loses its seat, or is given one.
LEMMA SeatChangesStep == ASSUME DaemonInv, SeatChanges PROVE DaemonInv'
<1>1. /\ maint.at = "idle" /\ seated' = ~seated
      /\ UNCHANGED <<daemon, pidfile, sock, lockFile, opened, startLock, split, maint, releases, current>>
  BY DEF SeatChanges, lockVars
<1>2. DaemonTypeOK' BY <1>1 DEF DaemonInv, DaemonTypeOK
<1>3. HealerIsAlone' /\ CollectorKnows' /\ ReleasesInUseStay'
  BY <1>1 DEF DaemonInv, HealerIsAlone, CollectorKnows, ReleasesInUseStay, RunningDaemons
<1>4. LookIsOrphan' BY <1>1 DEF DaemonInv, LookIsOrphan
<1> QED BY <1>1, <1>2, <1>3, <1>4, ProcessesStay

\* A state that is not "live" or "busy" while the startup lock is free has no daemon.
LEMMA StaleHasNoDaemon ==
  ASSUME DaemonInv, ~split, startLock[lockFile] = "free", DaemonState = "stale", NEW p \in DaemonPids
  PROVE  daemon[p].at \notin Serving
<1>1. ~DaemonMayLive BY DEF DaemonState
<1> QED
  BY <1>1, LockNames DEF DaemonMayLive, DaemonInv, OneDaemon, Is, Serving, PastLock, Living

MaintTypes == [at: MaintAt, targets: SUBSET Identity, signalled: SUBSET Identity,
               look: Identity \cup {NoOne}, keep: SUBSET (1..MaxRelease)]

\* Maintenance at rest has its type.
LEMMA RestingTyped ==
  /\ Resting.at = "idle" /\ Resting.look = NoOne /\ Resting \in MaintTypes
  /\ \A at \in MaintAt : LET m == [Resting EXCEPT !.at = at]
                         IN  m.at = at /\ m.look = NoOne /\ m \in MaintTypes
BY DEF Resting, MaintAt, MaintTypes

\* Healing takes away only what it proved stale under the startup lock.
LEMMA HealStep ==
  ASSUME DaemonInv, HealProbes \/ HealLocks \/ HealArchives \/ HealUnlinks \/ HealUnlinksLock
                    \/ MaintEnds
  PROVE  DaemonInv'
<1> USE DEF lockVars
<1>1. CASE HealProbes
  <2>1. /\ maint.at = "idle" /\ maint' = [Resting EXCEPT !.at = "stale"]
        /\ UNCHANGED <<daemon, pidfile, sock, lockVars, seated, releases, current>>
    BY <1>1 DEF HealProbes
  <2>2. maint'.at = "stale" /\ maint'.look = NoOne /\ maint' \in MaintTypes
    BY <2>1, RestingTyped DEF MaintAt
  <2>3. DaemonTypeOK' BY <2>1, <2>2 DEF DaemonInv, DaemonTypeOK, MaintTypes
  <2>4. HealerIsAlone' BY <2>1, <2>2 DEF DaemonInv, HealerIsAlone, Healing
  <2>5. CollectorKnows' /\ ReleasesInUseStay'
    BY <2>1, <2>2 DEF DaemonInv, CollectorKnows, ReleasesInUseStay, RunningDaemons
  <2>6. LookIsOrphan' BY <2>1, <2>2, SameLook
  <2> QED BY <2>1, <2>3, <2>4, <2>5, <2>6, ProcessesStay
<1>2. CASE HealLocks
  <2>1. /\ maint.at = "stale" /\ startLock[lockFile] = "free"
        /\ UNCHANGED <<daemon, pidfile, sock, lockFile, opened, split, seated, releases, current>>
    BY <1>2 DEF HealLocks
  <2>2. \/ /\ ~split => \A p \in DaemonPids : daemon[p].at \notin Serving
           /\ maint' = [Resting EXCEPT !.at = "locked"]
           /\ startLock' = [startLock EXCEPT ![lockFile] = "healer"]
        \/ maint' = Resting /\ startLock' = startLock
    BY <1>2, <2>1, StaleHasNoDaemon DEF HealLocks, TakesLock
  <2>3. /\ maint' \in MaintTypes /\ maint'.look = NoOne /\ maint'.at # "collecting"
        /\ maint'.at \in Healing =>
             /\ startLock' = [startLock EXCEPT ![lockFile] = "healer"]
             /\ ~split => \A p \in DaemonPids : daemon[p].at \notin Serving
    BY <2>2, RestingTyped DEF MaintAt, Healing
  <2>4. DaemonTypeOK' BY <2>1, <2>2, <2>3 DEF DaemonInv, DaemonTypeOK, MaintTypes
  <2>5. HealerIsAlone' BY <2>1, <2>3 DEF HealerIsAlone, DaemonInv, DaemonTypeOK
  <2>6. CollectorKnows' /\ ReleasesInUseStay'
    BY <2>1, <2>3 DEF DaemonInv, CollectorKnows, ReleasesInUseStay, RunningDaemons
  <2>7. LookIsOrphan' BY <2>1, <2>3, SameLook
  <2>8. \A p \in DaemonPids : startLock[lockFile] # p BY <2>1, LockNames
  <2> QED BY <2>1, <2>4, <2>5, <2>6, <2>7, <2>8, ProcessesStay
<1>3. CASE HealArchives
  <2>1. /\ maint.at = "locked" /\ pidfile' = NoRecord /\ maint' = [maint EXCEPT !.at = "archived"]
        /\ UNCHANGED <<daemon, sock, lockVars, seated, releases, current>>
    BY <1>3 DEF HealArchives
  <2>2. maint'.at = "archived" /\ maint'.look = NoOne
    BY <2>1 DEF DaemonInv, DaemonTypeOK, LookIsOrphan
  <2>3. DaemonTypeOK' BY <2>1 DEF DaemonInv, DaemonTypeOK, MaintAt
  <2>4. ~split => \A p \in DaemonPids : daemon[p].at \notin Serving
    BY <2>1 DEF DaemonInv, HealerIsAlone, Healing
  <2>5. HealerIsAlone' BY <2>1, <2>2 DEF DaemonInv, HealerIsAlone, Healing
  <2>6. CollectorKnows' /\ ReleasesInUseStay'
    BY <2>1, <2>2 DEF DaemonInv, CollectorKnows, ReleasesInUseStay, RunningDaemons
  <2>7. LookIsOrphan' BY <2>1, <2>2, SameLook
  <2> QED BY <2>1, <2>3, <2>4, <2>5, <2>6, <2>7, ProcessesStay
<1>4. CASE HealUnlinks
  <2>1. /\ maint.at = "archived" /\ sock' = NoOne /\ maint' = [maint EXCEPT !.at = "unlinked"]
        /\ UNCHANGED <<daemon, pidfile, lockVars, seated, releases, current>>
    BY <1>4 DEF HealUnlinks
  <2>2. maint'.at = "unlinked" /\ maint'.look = NoOne
    BY <2>1 DEF DaemonInv, DaemonTypeOK, LookIsOrphan
  <2>3. DaemonTypeOK' BY <2>1 DEF DaemonInv, DaemonTypeOK, MaintAt
  <2>4. HealerIsAlone' BY <2>1, <2>2 DEF DaemonInv, HealerIsAlone, Healing
  <2>5. CollectorKnows' /\ ReleasesInUseStay'
    BY <2>1, <2>2 DEF DaemonInv, CollectorKnows, ReleasesInUseStay, RunningDaemons
  <2>6. LookIsOrphan' BY <2>1, <2>2, SameLook
  <2> QED BY <2>1, <2>3, <2>4, <2>5, <2>6, ProcessesStay
<1>5. CASE HealUnlinksLock
  <2>1. /\ maint.at = "unlinked" /\ lockFile < MaxLocks /\ lockFile' = lockFile + 1
        /\ maint' = [maint EXCEPT !.at = "unlocked"]
        /\ UNCHANGED <<daemon, pidfile, sock, opened, startLock, split, seated, releases, current>>
    BY <1>5 DEF HealUnlinksLock
  <2>2. maint'.at = "unlocked" /\ maint'.look = NoOne
    BY <2>1 DEF DaemonInv, DaemonTypeOK, LookIsOrphan
  <2>3. DaemonTypeOK'
    <3>1. lockFile' \in Locks BY <2>1, DaemonBounds DEF DaemonInv, DaemonTypeOK, Locks
    <3> QED BY <2>1, <3>1 DEF DaemonInv, DaemonTypeOK, MaintAt
  <2>4. HealerIsAlone' BY <2>1, <2>2 DEF DaemonInv, HealerIsAlone, Healing
  <2>5. CollectorKnows' /\ ReleasesInUseStay'
    BY <2>1, <2>2 DEF DaemonInv, CollectorKnows, ReleasesInUseStay, RunningDaemons
  <2>6. LookIsOrphan' BY <2>1, <2>2, SameLook
  <2>7. \A p \in DaemonPids : startLock[lockFile] # p
    BY <2>1, LockNames DEF DaemonInv, HealerIsAlone, Healing
  <2> QED BY <2>1, <2>3, <2>4, <2>5, <2>6, <2>7, ProcessesStay
<1>6. CASE MaintEnds
  <2>1. /\ maint' = Resting /\ startLock' = LetGo("healer")
        /\ UNCHANGED <<daemon, pidfile, sock, lockFile, opened, split, seated, releases, current>>
    BY <1>6 DEF MaintEnds
  <2>2. \A p \in DaemonPids : startLock[lockFile] = p => startLock'[lockFile] = p
    BY <2>1, LockNames DEF DaemonInv, DaemonTypeOK, LetGo
  <2>3. DaemonTypeOK' BY <2>1, RestingTyped DEF DaemonInv, DaemonTypeOK, MaintTypes, LetGo
  <2>4. HealerIsAlone' BY <2>1, RestingTyped DEF DaemonInv, HealerIsAlone, Healing
  <2>5. CollectorKnows' /\ ReleasesInUseStay'
    BY <2>1, RestingTyped DEF DaemonInv, CollectorKnows, ReleasesInUseStay, RunningDaemons
  <2>6. LookIsOrphan' BY <2>1, RestingTyped, SameLook
  <2> QED BY <2>1, <2>2, <2>3, <2>4, <2>5, <2>6, ProcessesStay
<1> QED BY <1>1, <1>2, <1>3, <1>4, <1>5, <1>6

\* Reaping signals an orphan, and removes the socket of one that is gone.
LEMMA ReapStep ==
  ASSUME DaemonInv, \/ ReapLists
                    \/ \E t \in Identity : \/ ReapLooks(t) \/ ReapSignals(t)
                                          \/ ReapMisses(t) \/ ReapCleans(t)
  PROVE  DaemonInv'
<1> USE DEF lockVars
<1>1. CASE ReapLists
  <2> DEFINE found == {i \in Identity : Is(i.pid, i) /\ Orphan(i.pid)}
  <2>1. /\ maint.at = "idle" /\ maint' = [Resting EXCEPT !.at = "reaping", !.targets = found]
        /\ UNCHANGED <<daemon, pidfile, sock, lockVars, seated, releases, current>>
    BY <1>1 DEF ReapLists
  <2>2. found \subseteq Identity OBVIOUS
  <2> HIDE DEF found
  <2>3. DaemonTypeOK' /\ maint'.at = "reaping" /\ maint'.look = NoOne
    BY <2>1, <2>2, RestingTyped DEF DaemonInv, DaemonTypeOK, MaintAt, MaintTypes
  <2>4. HealerIsAlone' BY <2>1, <2>3 DEF DaemonInv, HealerIsAlone, Healing
  <2>5. CollectorKnows' /\ ReleasesInUseStay'
    BY <2>1, <2>3 DEF DaemonInv, CollectorKnows, ReleasesInUseStay, RunningDaemons
  <2>6. LookIsOrphan' BY <2>1, <2>3, SameLook
  <2> QED BY <2>1, <2>3, <2>4, <2>5, <2>6, ProcessesStay
<1>4. ASSUME NEW t \in Identity, ReapLooks(t) \/ ReapMisses(t) PROVE DaemonInv'
  <2>1. /\ maint' = [maint EXCEPT !.look = t] \/ maint' = [maint EXCEPT !.look = NoOne]
        /\ UNCHANGED <<daemon, pidfile, sock, lockVars, seated, releases, current>>
    BY <1>4 DEF ReapLooks, ReapMisses
  <2>2. maint' \in MaintTypes /\ maint'.at = maint.at /\ maint'.keep = maint.keep
    BY <2>1 DEF DaemonInv, DaemonTypeOK, MaintTypes
  <2>3. DaemonTypeOK' BY <2>1, <2>2 DEF DaemonInv, DaemonTypeOK, MaintTypes
  <2>4. HealerIsAlone' BY <2>1, <2>2 DEF DaemonInv, HealerIsAlone
  <2>5. CollectorKnows' /\ ReleasesInUseStay'
    BY <2>1, <2>2 DEF DaemonInv, CollectorKnows, ReleasesInUseStay, RunningDaemons
  <2>6. LookIsOrphan'
    <3>1. CASE ReapLooks(t)
      <4>1. maint.at = "reaping" /\ maint'.look = t /\ Is(t.pid, t) /\ Orphan(t.pid)
        BY <3>1 DEF ReapLooks, DaemonInv, DaemonTypeOK
      <4>2. t.pid \in DaemonPids /\ daemon[t.pid].life \in Nat
        BY DaemonBounds DEF Identity, DaemonInv, DaemonTypeOK, DaemonLives
      <4> QED BY <2>1, <2>2, <4>1, <4>2 DEF LookIsOrphan, Named, Is, Orphan, Living
    <3>2. CASE ReapMisses(t)
      <4>1. maint'.look = NoOne BY <3>2 DEF ReapMisses, DaemonInv, DaemonTypeOK
      <4> QED BY <2>1, <4>1, SameLook
    <3> QED BY <1>4, <3>1, <3>2
  <2> QED BY <2>1, <2>3, <2>4, <2>5, <2>6, ProcessesStay
<1>2. ASSUME NEW t \in Identity, ReapSignals(t) PROVE DaemonInv'
  <2> DEFINE p == t.pid
             r == [daemon[p] EXCEPT !.at = "killed"]
             m == [maint EXCEPT !.signalled = @ \cup {t}, !.look = NoOne]
  <2>1. /\ p \in DaemonPids /\ maint' = m
        /\ UNCHANGED <<pidfile, sock, seated, releases, current>>
        /\ \/ daemon' = [daemon EXCEPT ![p] = r] /\ FreesLock(p)
           \/ UNCHANGED <<daemon, lockVars>>
    BY <1>2 DEF ReapSignals, Identity, DaemonInv, DaemonTypeOK
  <2>2. m \in MaintTypes /\ m.at = maint.at /\ m.keep = maint.keep /\ m.look = NoOne
    BY <1>2 DEF DaemonInv, DaemonTypeOK, MaintTypes
  <2>3. /\ r.at = "killed" /\ r.life = daemon[p].life /\ daemon[p].life \in Nat
        /\ r \in [at: Processes, life: DaemonLives, release: 1..MaxRelease, old: BOOLEAN]
    BY <2>1, DaemonBounds DEF DaemonInv, DaemonTypeOK, DaemonLives, Processes
  <2> HIDE DEF p, r, m
  <2>4. DaemonTypeOK' BY <2>1, <2>2, <2>3, FreesLockFacts DEF DaemonInv, DaemonTypeOK, MaintTypes
  <2>5. CASE daemon' = [daemon EXCEPT ![p] = r] /\ FreesLock(p)
    <3>1. r.at \in {"gone", "exiting", "killed", "other"} /\ r.at # "other" /\ r.life >= daemon[p].life
      BY <2>3
    <3>2. LookIsOrphan' BY <2>1, <2>2 DEF LookIsOrphan
    <3> QED BY <2>1, <2>2, <2>4, <2>5, <3>1, <3>2, FreesLockFacts, NoDaemonStep
  <2>6. CASE UNCHANGED <<daemon, lockVars>>
    <3>1. HealerIsAlone' BY <2>1, <2>2, <2>6 DEF DaemonInv, HealerIsAlone
    <3>2. CollectorKnows' /\ ReleasesInUseStay'
      BY <2>1, <2>2, <2>6 DEF DaemonInv, CollectorKnows, ReleasesInUseStay, RunningDaemons
    <3>3. LookIsOrphan' BY <2>1, <2>2 DEF LookIsOrphan
    <3> QED BY <2>1, <2>4, <2>6, <3>1, <3>2, <3>3, ProcessesStay
  <2> QED BY <2>1, <2>5, <2>6
<1>3. ASSUME NEW t \in Identity, ReapCleans(t) PROVE DaemonInv'
  <2> DEFINE m == [maint EXCEPT !.targets = @ \ {t}]
  <2>1. /\ maint' = m /\ sock' \in {sock, Dangling}
        /\ UNCHANGED <<daemon, pidfile, lockVars, seated, releases, current>>
    BY <1>3 DEF ReapCleans
  <2>2. m \in MaintTypes /\ m.at = maint.at /\ m.keep = maint.keep /\ m.look = maint.look
    BY DEF DaemonInv, DaemonTypeOK, MaintTypes
  <2> HIDE DEF m
  <2>3. DaemonTypeOK' BY <2>1, <2>2 DEF DaemonInv, DaemonTypeOK, MaintTypes
  <2>4. HealerIsAlone' BY <2>1, <2>2 DEF DaemonInv, HealerIsAlone
  <2>5. CollectorKnows' /\ ReleasesInUseStay'
    BY <2>1, <2>2 DEF DaemonInv, CollectorKnows, ReleasesInUseStay, RunningDaemons
  <2>6. LookIsOrphan' BY <2>1, <2>2, SameLook
  <2> QED BY <2>1, <2>3, <2>4, <2>5, <2>6, ProcessesStay
<1> QED BY <1>1, <1>2, <1>3, <1>4

\* A collection removes releases that it found unused, and no daemon starts on those since.
LEMMA CollectStep ==
  ASSUME DaemonInv,
         (\E seen \in SUBSET RunningDaemons : GcLists(seen)) \/ (\E r \in releases : GcRemoves(r))
  PROVE  DaemonInv'
<1> USE DEF lockVars
<1>1. ASSUME NEW seen \in SUBSET RunningDaemons, GcLists(seen) PROVE DaemonInv'
  <2> DEFINE keep == {current} \cup {daemon[p].release : p \in seen}
  <2>1. /\ maint.at = "idle" /\ seen = RunningDaemons
        /\ maint' = [Resting EXCEPT !.at = "collecting", !.keep = keep]
        /\ UNCHANGED <<daemon, pidfile, sock, lockVars, seated, releases, current>>
    BY <1>1 DEF GcLists
  <2>2. /\ keep \subseteq 1..MaxRelease /\ current \in keep
        /\ \A p \in RunningDaemons : daemon[p].release \in keep
    BY <2>1 DEF DaemonInv, DaemonTypeOK, RunningDaemons
  <2> HIDE DEF keep
  <2>3. DaemonTypeOK' /\ maint'.at = "collecting" /\ maint'.keep = keep /\ maint'.look = NoOne
    BY <2>1, <2>2, RestingTyped DEF DaemonInv, DaemonTypeOK, MaintAt, MaintTypes
  <2>4. HealerIsAlone' BY <2>1, <2>3 DEF DaemonInv, HealerIsAlone, Healing
  <2>5. CollectorKnows' /\ ReleasesInUseStay'
    BY <2>1, <2>2, <2>3 DEF DaemonInv, CollectorKnows, ReleasesInUseStay, RunningDaemons
  <2>6. LookIsOrphan' BY <2>1, <2>3, SameLook
  <2> QED BY SMTT(30), <2>1, <2>3, <2>4, <2>5, <2>6, ProcessesStay
<1>2. ASSUME NEW r \in releases, GcRemoves(r) PROVE DaemonInv'
  <2>1. /\ maint.at = "collecting" /\ r \notin maint.keep /\ releases' = releases \ {r}
        /\ UNCHANGED <<daemon, pidfile, sock, lockVars, maint, seated, current>>
    BY <1>2 DEF GcRemoves
  <2>2. DaemonTypeOK' BY <2>1 DEF DaemonInv, DaemonTypeOK
  <2>3. HealerIsAlone' BY <2>1 DEF DaemonInv, HealerIsAlone
  <2>4. CollectorKnows' /\ ReleasesInUseStay'
    BY <2>1 DEF DaemonInv, CollectorKnows, ReleasesInUseStay, RunningDaemons
  <2>5. LookIsOrphan' BY <2>1, SameLook
  <2> QED BY <2>1, <2>2, <2>3, <2>4, <2>5, ProcessesStay
<1> QED BY <1>1, <1>2

\* Every step keeps the invariant.
LEMMA DaemonStep == DaemonInv /\ [DaemonNext]_daemonVars => DaemonInv'
<1> SUFFICES ASSUME DaemonInv, [DaemonNext]_daemonVars PROVE DaemonInv' OBVIOUS
<1>1. CASE UNCHANGED daemonVars
  BY <1>1 DEF daemonVars, lockVars, DaemonInv, DaemonTypeOK, OneDaemon, NamesAreDaemons,
     HealerIsAlone, LookIsOrphan, CollectorKnows, ReleasesInUseStay, RunningDaemons, Named, Is,
     Living, Orphan
<1>2. CASE DaemonNext
  BY <1>2, DaemonStartsStep, DaemonRecordsStep, DaemonBindsStep, DaemonListensStep, StarterOpensStep,
     StarterClosesStep, ProcessEndsStep, OtherStartsStep, UpdatesStep, SeatChangesStep, HealStep, ReapStep, CollectStep
     DEF DaemonNext, StockStep, Maintenance
<1> QED BY <1>1, <1>2

\* The daemons, the lock and the maintenance keep their types (codexhome.py).
THEOREM DaemonTypes == DaemonSpec => []DaemonTypeOK
<1>1. DaemonInv => DaemonTypeOK BY DEF DaemonInv
<1> QED BY DaemonsInitially, DaemonStep, <1>1, PTL DEF DaemonSpec

\* A collection removes neither the release the next daemon runs nor one that is running
\* (codexhome.py:473-521).
THEOREM ReleasesStay == DaemonSpec => []ReleasesInUseStay
<1>1. DaemonInv => ReleasesInUseStay BY SMTT(30) DEF DaemonInv
<1> QED BY DaemonsInitially, DaemonStep, <1>1, PTL DEF DaemonSpec

\* Maintenance that takes a name away took it from nobody who lives.
LEMMA SocketIsSpared ==
  ASSUME DaemonInv, DaemonNext, NEW p \in DaemonPids, ~split, Living(p), Is(p, sock),
         sock' \in {NoOne, Dangling}
  PROVE  FALSE
<1>1. daemon[p].at \in {"bound", "serving"} BY DEF DaemonInv, NamesAreDaemons
<1>2. sock \notin {NoOne, Dangling}
  <2>1. NoOne.life = 0 /\ Dangling.life = 0 /\ daemon[p].life >= 1
    BY DEF NoOne, Dangling, DaemonInv, OneDaemon
  <2> QED BY <2>1 DEF Is
<1>3. ASSUME NEW q \in DaemonPids, DaemonBinds(q) PROVE FALSE
  BY <1>1, <1>3 DEF DaemonBinds, DaemonInv, OneDaemon, Serving
<1>4. ~HealUnlinks BY <1>1 DEF HealUnlinks, DaemonInv, HealerIsAlone, Healing, Serving
<1>5. ASSUME NEW t \in Identity, ReapCleans(t) PROVE sock' = sock
  BY <1>1, <1>5, SMTT(30) DEF ReapCleans, Listening
<1> QED
  BY <1>2, <1>3, <1>4, <1>5 DEF DaemonNext, StockStep, Maintenance, DaemonStarts, DaemonRecords,
     DaemonListens, StarterOpens, StarterCloses, ProcessEnds, OtherStarts, Updates, SeatChanges,
     HealProbes, HealLocks, HealArchives, HealUnlinksLock, MaintEnds, ReapLists, ReapLooks,
     ReapSignals, ReapMisses, GcLists, GcRemoves

\* The pid file of a daemon that lives is not archived.
LEMMA PidFileIsSpared ==
  ASSUME DaemonInv, DaemonNext, NEW p \in DaemonPids, ~split, Living(p), Is(p, pidfile),
         pidfile' = NoRecord
  PROVE  FALSE
<1>1. daemon[p].at \in PastLock BY DEF DaemonInv, NamesAreDaemons
<1>2. pidfile # NoRecord
  <2>1. NoRecord.life = 0 /\ daemon[p].life >= 1 BY DEF NoRecord, DaemonInv, OneDaemon
  <2> QED BY <2>1 DEF Is
<1>3. ASSUME NEW q \in DaemonPids, NEW known \in BOOLEAN, DaemonRecords(q, known) PROVE FALSE
  BY <1>1, <1>3 DEF DaemonRecords, DaemonInv, OneDaemon, Serving, PastLock
<1>4. ~HealArchives BY <1>1 DEF HealArchives, DaemonInv, HealerIsAlone, Healing, Serving, PastLock
<1> QED
  BY <1>2, <1>3, <1>4 DEF DaemonNext, StockStep, Maintenance, DaemonStarts, DaemonBinds,
     DaemonListens, StarterOpens, StarterCloses, ProcessEnds, OtherStarts, Updates, SeatChanges,
     HealProbes, HealLocks, HealUnlinks, HealUnlinksLock, MaintEnds, ReapLists, ReapLooks,
     ReapSignals, ReapMisses, ReapCleans, GcLists, GcRemoves

\* Only an orphan is signalled, or one that was not there at the last look.
LEMMA KilledIsOrphan ==
  ASSUME DaemonInv, DaemonNext, NEW p \in DaemonPids, Living(p), daemon'[p].at = "killed"
  PROVE  Orphan(p) \/ ~Is(p, maint.look)
<1>1. daemon' # daemon BY DEF Living
<1>2. ASSUME NEW t \in Identity, ReapSignals(t) PROVE Orphan(p) \/ ~Is(p, maint.look)
  <2>1. maint.look = t /\ t.pid \in DaemonPids /\ t # NoOne
    BY <1>2, LockNames DEF ReapSignals, Identity, NoOne, DaemonInv, LookIsOrphan
  <2> QED BY <2>1 DEF DaemonInv, LookIsOrphan, Is
<1>3. ASSUME NEW q \in DaemonPids, StockStep(q) PROVE FALSE
  <2>1. daemon'[q].at # "killed" \/ daemon' = daemon
    BY <1>3 DEF StockStep, DaemonStarts, DaemonRecords, DaemonBinds, DaemonListens, StarterOpens,
       StarterCloses, ProcessEnds, OtherStarts, DaemonInv, DaemonTypeOK
  <2>2. q # p => daemon'[p] = daemon[p]
    BY <1>3 DEF StockStep, DaemonStarts, DaemonRecords, DaemonBinds, DaemonListens, StarterOpens,
       StarterCloses, ProcessEnds, OtherStarts, DaemonInv, DaemonTypeOK
  <2> QED BY <1>1, <2>1, <2>2 DEF Living
<1> QED
  BY <1>1, <1>2, <1>3 DEF DaemonNext, Maintenance, Updates, SeatChanges, HealProbes, HealLocks,
     HealArchives, HealUnlinks, HealUnlinksLock, MaintEnds, ReapLists, ReapLooks, ReapMisses,
     ReapCleans, GcLists, GcRemoves

\* For any number of processes and of lock files: as long as every starter takes the lock file
\* that has the name, no maintenance takes the socket or the pid file of a daemon that lives;
\* and a signal reaches an orphan or who got its id since the last list
\* (codexhome.py:272-337, 405-448).
THEOREM TheLivingAreSpared == DaemonSpec => LivingAreSpared
<1>1. DaemonInv /\ [DaemonNext]_daemonVars =>
        [\A p \in DaemonPids :
           /\ ~split => NamesStay(p)
           /\ Living(p) /\ daemon'[p].at = "killed" => Orphan(p) \/ ~Is(p, maint.look)]_daemonVars
  BY SocketIsSpared, PidFileIsSpared, KilledIsOrphan DEF NamesStay
<1> QED BY DaemonsInitially, DaemonStep, <1>1, PTL DEF DaemonSpec, LivingAreSpared

(*************************************************************************)
(* The app server. What the caller has taken, what is buffered and what  *)
(* is unread, in a row, is what the server sent without the answers and  *)
(* without the plain notifications that were dropped. A line moves along *)
(* the row or leaves it from the middle, which keeps the order of the    *)
(* rest.                                                                 *)
(*************************************************************************)

\* Three sequences in a row, and what the client holds.
Row(a, b, c) == a \o b \o c
Held == Row(taken, buffered, incoming)

\* A sequence without one element: its length and its elements.
LEMMA WithoutElements ==
  ASSUME NEW S, NEW seq \in Seq(S), NEW i \in 1..Len(seq)
  PROVE  /\ Without(seq, i) \in Seq(S) /\ Len(Without(seq, i)) = Len(seq) - 1
         /\ \A j \in 1..(Len(seq) - 1) :
              Without(seq, i)[j] = IF j < i THEN seq[j] ELSE seq[j + 1]
<1> DEFINE e(j) == IF j < i THEN seq[j] ELSE seq[j + 1]
           f == [j \in 1..(Len(seq) - 1) |-> e(j)]
<1>1. Len(seq) - 1 \in Nat  OBVIOUS
<1>2. \A j \in 1..(Len(seq) - 1) : e(j) \in S
  <2> TAKE j \in 1..(Len(seq) - 1)
  <2>1. j \in 1..Len(seq) /\ j + 1 \in 1..Len(seq)  BY <1>1
  <2>2. seq[j] \in S /\ seq[j + 1] \in S  BY <2>1, ElementOfSeq
  <2> QED  BY <2>2
<1>3. Without(seq, i) = f  BY DEF Without
<1> HIDE DEF e
<1>4. f \in [1..(Len(seq) - 1) -> S]  BY <1>2
<1>5. f \in Seq(S) /\ Len(f) = Len(seq) - 1  BY <1>1, <1>4
<1> QED  BY <1>3, <1>5 DEF e

\* s is the three sequences in a row.
IsRow(s, a, b, c) ==
  /\ Len(s) = Len(a) + Len(b) + Len(c)
  /\ \A i \in 1..(Len(a) + Len(b) + Len(c)) :
       s[i] = IF i <= Len(a) THEN a[i]
              ELSE IF i <= Len(a) + Len(b) THEN b[i - Len(a)]
              ELSE c[i - Len(a) - Len(b)]

\* Three sequences in a row: the length and the elements.
LEMMA RowElements ==
  ASSUME NEW S, NEW a \in Seq(S), NEW b \in Seq(S), NEW c \in Seq(S)
  PROVE  Row(a, b, c) \in Seq(S) /\ IsRow(Row(a, b, c), a, b, c)
<1> SUFFICES
         /\ a \o b \o c \in Seq(S) /\ Len(a \o b \o c) = Len(a) + Len(b) + Len(c)
         /\ \A i \in 1..(Len(a) + Len(b) + Len(c)) :
              (a \o b \o c)[i] = IF i <= Len(a) THEN a[i]
                                 ELSE IF i <= Len(a) + Len(b) THEN b[i - Len(a)]
                                 ELSE c[i - Len(a) - Len(b)]
  BY DEF IsRow, Row
<1> DEFINE ab == a \o b
<1>1. /\ ab \in Seq(S) /\ Len(ab) = Len(a) + Len(b)
      /\ \A i \in 1..(Len(a) + Len(b)) : ab[i] = IF i <= Len(a) THEN a[i] ELSE b[i - Len(a)]
  BY ConcatProperties
<1>0. ab \in Seq(S)  BY <1>1
<1> HIDE DEF ab
<1>2. /\ ab \o c \in Seq(S) /\ Len(ab \o c) = Len(ab) + Len(c)
      /\ \A i \in 1..(Len(ab) + Len(c)) :
           (ab \o c)[i] = IF i <= Len(ab) THEN ab[i] ELSE c[i - Len(ab)]
  BY ONLY <1>0, c \in Seq(S), ConcatProperties, Zenon
<1>3. Len(a) \in Nat /\ Len(b) \in Nat /\ Len(c) \in Nat  OBVIOUS
<1>4. ASSUME NEW i \in 1..(Len(a) + Len(b) + Len(c))
      PROVE  (ab \o c)[i] = IF i <= Len(a) THEN a[i]
                            ELSE IF i <= Len(a) + Len(b) THEN b[i - Len(a)]
                            ELSE c[i - Len(a) - Len(b)]
  <2>1. (ab \o c)[i] = IF i <= Len(ab) THEN ab[i] ELSE c[i - Len(ab)]  BY <1>1, <1>2, <1>3
  <2>2. i <= Len(a) + Len(b) => ab[i] = IF i <= Len(a) THEN a[i] ELSE b[i - Len(a)]
    BY <1>1, <1>3
  <2>3. i - Len(ab) = i - Len(a) - Len(b)  BY <1>1, <1>3
  <2> QED  BY <2>1, <2>2, <2>3, <1>1, <1>3
<1>5. ab \o c = a \o b \o c  BY DEF ab
<1>6. ab \o c \in Seq(S) /\ Len(ab \o c) = Len(a) + Len(b) + Len(c)  BY <1>1, <1>2
<1> QED  BY <1>4, <1>5, <1>6

\* A line that is read lengthens the row at its end.
LEMMA RowAppend ==
  ASSUME NEW S, NEW a \in Seq(S), NEW b \in Seq(S), NEW c \in Seq(S), NEW e \in S
  PROVE  Row(a, b, Append(c, e)) = Append(Row(a, b, c), e)
<1> DEFINE l == Row(a, b, Append(c, e))
           r == Append(Row(a, b, c), e)
           n == Len(a) + Len(b) + Len(c)
           d == Append(c, e)
           s == Row(a, b, c)
<1>1. d \in Seq(S) /\ Len(d) = Len(c) + 1 /\ (\A i \in 1..Len(c) : d[i] = c[i]) /\ d[Len(c) + 1] = e
  BY AppendProperties
<1>2. /\ s \in Seq(S) /\ Len(s) = n
      /\ \A i \in 1..n : s[i] = IF i <= Len(a) THEN a[i]
                                ELSE IF i <= Len(a) + Len(b) THEN b[i - Len(a)]
                                ELSE c[i - Len(a) - Len(b)]
  BY RowElements DEF IsRow
<1>3. r \in Seq(S) /\ Len(r) = n + 1 /\ (\A i \in 1..n : r[i] = s[i]) /\ r[n + 1] = e
  <2> HIDE DEF s, n
  <2>1. r = Append(s, e)  BY DEF s
  <2> HIDE DEF r
  <2> QED  BY <1>2, <2>1, AppendProperties
<1>4. /\ l \in Seq(S) /\ Len(l) = n + 1
      /\ \A i \in 1..(n + 1) : l[i] = IF i <= Len(a) THEN a[i]
                                      ELSE IF i <= Len(a) + Len(b) THEN b[i - Len(a)]
                                      ELSE d[i - Len(a) - Len(b)]
  <2>1. l = Row(a, b, d) /\ d \in Seq(S)  BY <1>1
  <2>2. Len(a) + Len(b) + (Len(c) + 1) = n + 1  OBVIOUS
  <2> HIDE DEF d, l, n
  <2>3. l \in Seq(S) /\ IsRow(l, a, b, d)  BY <2>1, RowElements
  <2> QED  BY <1>1, <2>2, <2>3 DEF IsRow
<1>5. Len(a) \in Nat /\ Len(b) \in Nat /\ Len(c) \in Nat  OBVIOUS
<1> HIDE DEF l, r, d, s
<1>6. ASSUME NEW i \in 1..(n + 1)  PROVE l[i] = r[i]
  <2>1. CASE i = n + 1
    <3>1. i - Len(a) - Len(b) = Len(c) + 1  BY <2>1, <1>5
    <3>2. ~(i <= Len(a)) /\ ~(i <= Len(a) + Len(b))  BY <2>1, <1>5
    <3> QED  BY <1>1, <1>3, <1>4, <2>1, <3>1, <3>2
  <2>2. CASE i \in 1..n
    <3>1. ~(i <= Len(a) + Len(b)) => i - Len(a) - Len(b) \in 1..Len(c)  BY <2>2, <1>5
    <3>2. r[i] = s[i]  BY <2>2, <1>3
    <3> QED  BY <1>1, <1>2, <1>4, <2>2, <3>1, <3>2
  <2> QED  BY SMTT(30), <2>1, <2>2, <1>5
<1>7. l = r  BY <1>3, <1>4, <1>6, SeqEqual
<1> QED  BY <1>7 DEF l, r

\* What is pumped into the buffer, or taken from it, keeps its place in the row.
LEMMA RowMove ==
  ASSUME NEW S, NEW a \in Seq(S), NEW b \in Seq(S), NEW c \in Seq(S), c # <<>>
  PROVE  Row(a, Append(b, Head(c)), Tail(c)) = Row(a, b, c)
<1> DEFINE e == Head(c)
           d == Append(b, e)
           t == Tail(c)
           l == Row(a, d, t)
           r == Row(a, b, c)
           n == Len(a) + Len(b) + Len(c)
<1>1. Len(c) \in Nat /\ Len(c) > 0 /\ e \in S /\ e = c[1]  OBVIOUS
<1>2. t \in Seq(S) /\ Len(t) = Len(c) - 1 /\ \A i \in 1..(Len(c) - 1) : t[i] = c[i + 1]  BY <1>1
<1> HIDE DEF e, t
<1>3. d \in Seq(S) /\ Len(d) = Len(b) + 1 /\ (\A i \in 1..Len(b) : d[i] = b[i]) /\ d[Len(b) + 1] = e
  BY <1>1, AppendProperties
<1>4. /\ r \in Seq(S) /\ Len(r) = n
      /\ \A i \in 1..n : r[i] = IF i <= Len(a) THEN a[i]
                                ELSE IF i <= Len(a) + Len(b) THEN b[i - Len(a)]
                                ELSE c[i - Len(a) - Len(b)]
  BY RowElements DEF IsRow
<1>5. Len(a) \in Nat /\ Len(b) \in Nat  OBVIOUS
<1>6. Len(a) + Len(d) + Len(t) = n  BY <1>1, <1>2, <1>3, <1>5
<1>d. d \in Seq(S) /\ t \in Seq(S)  BY <1>2, <1>3
<1> HIDE DEF d, n, r
<1>r. l \in Seq(S) /\ IsRow(l, a, d, t)
  BY <1>d, RowElements
<1>7. /\ l \in Seq(S) /\ Len(l) = n
      /\ \A i \in 1..n : l[i] = IF i <= Len(a) THEN a[i]
                                ELSE IF i <= Len(a) + Len(d) THEN d[i - Len(a)]
                                ELSE t[i - Len(a) - Len(d)]
  BY <1>r, <1>6 DEF IsRow
<1> HIDE DEF l
<1>8. ASSUME NEW i \in 1..n  PROVE l[i] = r[i]
  <2> USE DEF n
  <2>1. CASE i <= Len(a)  BY <2>1, <1>4, <1>7
  <2>2. CASE ~(i <= Len(a)) /\ i <= Len(a) + Len(b)
    <3>1. i - Len(a) \in 1..Len(b) /\ i <= Len(a) + Len(d)  BY <2>2, <1>5, <1>3, <1>1
    <3> QED  BY <3>1, <2>2, <1>4, <1>7, <1>3
  <2>3. CASE i = Len(a) + Len(b) + 1
    <3>1. /\ i - Len(a) = Len(b) + 1 /\ i <= Len(a) + Len(d) /\ ~(i <= Len(a)) /\ ~(i <= Len(a) + Len(b))
          /\ i - Len(a) - Len(b) = 1
      BY <2>3, <1>5, <1>3, <1>1
    <3> QED  BY <3>1, <1>4, <1>7, <1>3, <1>1
  <2>4. CASE i > Len(a) + Len(b) + 1
    <3>1. /\ ~(i <= Len(a)) /\ ~(i <= Len(a) + Len(b)) /\ ~(i <= Len(a) + Len(d))
          /\ i - Len(a) - Len(d) \in 1..(Len(c) - 1)
          /\ i - Len(a) - Len(d) + 1 = i - Len(a) - Len(b)
      BY <2>4, <1>5, <1>3, <1>1
    <3> QED  BY <3>1, <1>4, <1>7, <1>2
  <2> QED  BY SMTT(30), <2>1, <2>2, <2>3, <2>4, <1>1, <1>5
<1>9. l = r  BY <1>4, <1>7, <1>8, SeqEqual
<1> QED  BY <1>9 DEF l, r, d, t, e

\* What is taken from the buffer keeps its place in the row.
LEMMA RowTake ==
  ASSUME NEW S, NEW a \in Seq(S), NEW b \in Seq(S), NEW c \in Seq(S), b # <<>>
  PROVE  Row(Append(a, Head(b)), Tail(b), c) = Row(a, b, c)
<1> DEFINE x == Append(a, Head(b))
           y == Tail(b)
           z == <<>>
<1>1. z \in Seq(S) /\ x \in Seq(S) /\ y \in Seq(S)  BY AppendProperties
<1>2. Row(z, x, y) = Row(z, a, b)  BY <1>1, RowMove
<1>3. z \o x = x /\ z \o a = a  BY <1>1, ConcatEmptySeq
<1>4. x \o y = a \o b  BY <1>2, <1>3 DEF Row
<1> QED  BY <1>4 DEF Row

\* What leaves the buffer leaves the row at its place.
LEMMA RowWithout ==
  ASSUME NEW S, NEW a \in Seq(S), NEW b \in Seq(S), NEW c \in Seq(S), NEW k \in 1..Len(b)
  PROVE  Row(a, Without(b, k), c) = Without(Row(a, b, c), Len(a) + k)
<1> DEFINE d == Without(b, k)
           s == Row(a, b, c)
           m == Len(a) + k
           l == Row(a, d, c)
           r == Without(s, m)
           n == Len(a) + Len(b) + Len(c)
<1>1. Len(a) \in Nat /\ Len(b) \in Nat /\ Len(c) \in Nat /\ k \in Nat  OBVIOUS
<1>2. /\ d \in Seq(S) /\ Len(d) = Len(b) - 1
      /\ \A j \in 1..(Len(b) - 1) : d[j] = IF j < k THEN b[j] ELSE b[j + 1]
  BY WithoutElements
<1>3. /\ s \in Seq(S) /\ Len(s) = n
      /\ \A i \in 1..n : s[i] = IF i <= Len(a) THEN a[i]
                                ELSE IF i <= Len(a) + Len(b) THEN b[i - Len(a)]
                                ELSE c[i - Len(a) - Len(b)]
  BY RowElements DEF IsRow
<1>4. m \in 1..n  BY <1>1
<1>5. Len(a) + Len(d) + Len(c) = n - 1  BY <1>1, <1>2
<1>d. d \in Seq(S)  BY <1>2
<1> HIDE DEF d, s, n, m
<1>6. /\ r \in Seq(S) /\ Len(r) = n - 1
      /\ \A j \in 1..(n - 1) : r[j] = IF j < m THEN s[j] ELSE s[j + 1]
  BY <1>3, <1>4, WithoutElements
<1>r. l \in Seq(S) /\ IsRow(l, a, d, c)
  BY <1>d, RowElements
<1>7. /\ l \in Seq(S) /\ Len(l) = n - 1
      /\ \A i \in 1..(n - 1) : l[i] = IF i <= Len(a) THEN a[i]
                                      ELSE IF i <= Len(a) + Len(d) THEN d[i - Len(a)]
                                      ELSE c[i - Len(a) - Len(d)]
  BY <1>r, <1>5 DEF IsRow
<1> HIDE DEF l, r
<1>8. ASSUME NEW i \in 1..(n - 1)  PROVE l[i] = r[i]
  <2> USE DEF n, m
  <2>0. i \in 1..n /\ i + 1 \in 1..n  BY <1>1
  <2>1. CASE i <= Len(a)
    <3>1. i < m  BY <2>1, <1>1
    <3> QED  BY <2>0, <2>1, <3>1, <1>3, <1>6, <1>7
  <2>2. CASE ~(i <= Len(a)) /\ i < m
    <3>1. /\ i <= Len(a) + Len(d) /\ i <= Len(a) + Len(b)
          /\ i - Len(a) \in 1..(Len(b) - 1) /\ i - Len(a) < k
      BY <2>2, <1>1, <1>2
    <3>2. l[i] = b[i - Len(a)]  BY <3>1, <2>2, <1>7, <1>2
    <3>3. r[i] = b[i - Len(a)]  BY <3>1, <2>0, <2>2, <1>6, <1>3
    <3> QED  BY <3>2, <3>3
  <2>3. CASE ~(i < m) /\ i <= Len(a) + Len(d)
    <3>1. /\ ~(i <= Len(a)) /\ ~(i + 1 <= Len(a)) /\ i + 1 <= Len(a) + Len(b)
          /\ i - Len(a) \in 1..(Len(b) - 1) /\ ~(i - Len(a) < k)
          /\ i - Len(a) + 1 = i + 1 - Len(a)
      BY <2>3, <1>1, <1>2
    <3>2. l[i] = b[i - Len(a) + 1]  BY <3>1, <2>3, <1>7, <1>2
    <3>3. r[i] = b[i + 1 - Len(a)]  BY SMTT(30), <3>1, <2>0, <2>3, <1>6, <1>3
    <3> QED  BY <3>1, <3>2, <3>3
  <2>4. CASE ~(i < m) /\ ~(i <= Len(a) + Len(d))
    <3>1. /\ ~(i <= Len(a)) /\ ~(i + 1 <= Len(a)) /\ ~(i + 1 <= Len(a) + Len(b))
          /\ i - Len(a) - Len(d) = i + 1 - Len(a) - Len(b)
      BY <2>4, <1>1, <1>2
    <3>2. l[i] = c[i - Len(a) - Len(d)]  BY <3>1, <2>4, <1>7
    <3>3. r[i] = c[i + 1 - Len(a) - Len(b)]  BY SMTT(30), <3>1, <2>0, <2>4, <1>6, <1>3
    <3> QED  BY <3>1, <3>2, <3>3
  <2> QED  BY <2>1, <2>2, <2>3, <2>4
<1>9. l = r  BY <1>6, <1>7, <1>8, SeqEqual
<1> QED  BY <1>9 DEF l, r, s, d, m

\* The tail of a sequence is the sequence without its first element.
LEMMA TailIsWithout ==
  ASSUME NEW S, NEW c \in Seq(S), c # <<>>
  PROVE  Tail(c) = Without(c, 1)
<1>1. Tail(c) \in Seq(S) /\ Len(c) \in Nat /\ 1 \in 1..Len(c)  OBVIOUS
<1>2. /\ Without(c, 1) \in Seq(S) /\ Len(Without(c, 1)) = Len(c) - 1
      /\ \A j \in 1..(Len(c) - 1) : Without(c, 1)[j] = IF j < 1 THEN c[j] ELSE c[j + 1]
  BY <1>1, WithoutElements
<1>3. Len(Tail(c)) = Len(c) - 1 /\ \A j \in 1..(Len(c) - 1) : Tail(c)[j] = c[j + 1]  OBVIOUS
<1>4. \A j \in 1..(Len(c) - 1) : Tail(c)[j] = Without(c, 1)[j]  BY <1>2, <1>3
<1> QED  BY <1>1, <1>2, <1>3, <1>4, SeqEqual

\* A head that is taken off the last sequence leaves the row at its place.
LEMMA RowTail ==
  ASSUME NEW S, NEW a \in Seq(S), NEW b \in Seq(S), NEW c \in Seq(S), c # <<>>
  PROVE  Row(a, b, Tail(c)) = Without(Row(a, b, c), Len(a) + Len(b) + 1)
<1> DEFINE z == <<>>
           ab == a \o b
<1>1. z \in Seq(S) /\ ab \in Seq(S) /\ Len(ab) = Len(a) + Len(b)  BY ConcatProperties
<1>2. Tail(c) \in Seq(S) /\ Len(c) \in Nat /\ 1 \in 1..Len(c)  OBVIOUS
<1>3. Tail(c) = Without(c, 1)  BY TailIsWithout
<1>4. Row(ab, Without(c, 1), z) = Without(Row(ab, c, z), Len(ab) + 1)
  <2>1. z \in Seq(S) /\ ab \in Seq(S)  BY <1>1
  <2> HIDE DEF ab, z
  <2> QED  BY <2>1, <1>2, RowWithout, Zenon
<1>5. ab \o c \in Seq(S) /\ ab \o Without(c, 1) \in Seq(S)
  <2> HIDE DEF ab
  <2> QED  BY <1>1, <1>2, <1>3, ConcatProperties
<1>6. ab \o Without(c, 1) \o z = ab \o Without(c, 1) /\ ab \o c \o z = ab \o c
  BY <1>5, ConcatEmptySeq
<1>7. ab \o Tail(c) = Without(ab \o c, Len(ab) + 1)  BY <1>3, <1>4, <1>6 DEF Row
<1> QED  BY <1>1, <1>7 DEF Row
-----------------------------------------------------------------------------
\* A line that leaves changes the lines of no other kind.
LEMMA OthersKeep ==
  ASSUME NEW seq \in Seq(Lines), NEW i \in 1..Len(seq), NEW kind, seq[i].kind # kind
  PROVE  Of(kind, Without(seq, i)) = Of(kind, seq)
<1> DEFINE w == Without(seq, i)
<1>1. /\ w \in Seq(Lines) /\ Len(w) = Len(seq) - 1 /\ Len(seq) \in Nat
      /\ \A j \in 1..(Len(seq) - 1) : w[j] = IF j < i THEN seq[j] ELSE seq[j + 1]
  BY WithoutElements
<1> HIDE DEF w
<1>2. ASSUME NEW x \in Of(kind, w)  PROVE x \in Of(kind, seq)
  <2>1. PICK j \in 1..Len(w) : w[j] = x /\ w[j].kind = kind  BY DEF Of
  <2>2. (w[j] = seq[j] /\ j \in 1..Len(seq)) \/ (w[j] = seq[j + 1] /\ j + 1 \in 1..Len(seq))
    BY <2>1, <1>1
  <2> QED  BY <2>1, <2>2 DEF Of
<1>3. ASSUME NEW x \in Of(kind, seq)  PROVE x \in Of(kind, w)
  <2>1. PICK j \in 1..Len(seq) : seq[j] = x /\ seq[j].kind = kind  BY DEF Of
  <2>2. j # i  BY <2>1
  <2>3. CASE j < i
    <3>1. j \in 1..Len(w) /\ w[j] = seq[j]  BY <2>3, <1>1
    <3> QED  BY <2>1, <3>1 DEF Of
  <2>4. CASE j > i
    <3>1. j - 1 \in 1..Len(w) /\ ~(j - 1 < i) /\ (j - 1) + 1 = j  BY <2>4, <1>1
    <3>2. w[j - 1] = seq[j]  BY <3>1, <1>1
    <3> QED  BY <2>1, <3>1, <3>2 DEF Of
  <2> QED  BY <2>2, <2>3, <2>4
<1> QED  BY <1>2, <1>3 DEF w

\* In a row in order a notification is at one place only.
LEMMA OnePlace ==
  ASSUME NEW seq \in Seq(Lines), InOrder(seq), NEW i \in 1..Len(seq), seq[i].kind # "answer"
  PROVE  \A j \in 1..Len(seq) : j # i => seq[j] # seq[i]
<1> SUFFICES ASSUME NEW j \in 1..Len(seq), j # i, seq[j] = seq[i]  PROVE FALSE
  OBVIOUS
<1>1. seq[i] \in Lines  BY ElementOfSeq
<1>2. seq[i].n \in Int  BY <1>1 DEF Lines, Notes, Ids
<1>3. seq[j].kind # "answer"  OBVIOUS
<1>4. CASE j < i
  <2>1. seq[j].n < seq[i].n  BY <1>3, <1>4 DEF InOrder
  <2> QED  BY <2>1, <1>2
<1>5. CASE i < j
  <2>1. seq[i].n < seq[j].n  BY <1>3, <1>5 DEF InOrder
  <2> QED  BY <2>1, <1>2
<1> QED  BY <1>4, <1>5

\* A notification that leaves a row in order is the only one of its kind that leaves.
LEMMA OneLeaves ==
  ASSUME NEW seq \in Seq(Lines), InOrder(seq), NEW i \in 1..Len(seq), seq[i].kind # "answer"
  PROVE  Of(seq[i].kind, Without(seq, i)) = Of(seq[i].kind, seq) \ {seq[i]}
<1> DEFINE w == Without(seq, i)
           kind == seq[i].kind
<1>1. /\ w \in Seq(Lines) /\ Len(w) = Len(seq) - 1 /\ Len(seq) \in Nat
      /\ \A j \in 1..(Len(seq) - 1) : w[j] = IF j < i THEN seq[j] ELSE seq[j + 1]
  BY WithoutElements
<1>0. \A j \in 1..Len(seq) : j # i => seq[j] # seq[i]  BY OnePlace
<1> HIDE DEF w, kind
<1>2. ASSUME NEW x \in Of(kind, w)  PROVE x \in Of(kind, seq) \ {seq[i]}
  <2>1. PICK j \in 1..Len(w) : w[j] = x /\ w[j].kind = kind  BY DEF Of
  <2>2. CASE j < i
    <3>1. w[j] = seq[j] /\ j \in 1..Len(seq) /\ j # i  BY <2>1, <2>2, <1>1
    <3> QED  BY <2>1, <3>1, <1>0 DEF Of
  <2>3. CASE ~(j < i)
    <3>1. w[j] = seq[j + 1] /\ j + 1 \in 1..Len(seq) /\ j + 1 # i  BY <2>1, <2>3, <1>1
    <3> QED  BY <2>1, <3>1, <1>0 DEF Of
  <2> QED  BY <2>2, <2>3
<1>3. ASSUME NEW x \in Of(kind, seq) \ {seq[i]}  PROVE x \in Of(kind, w)
  <2>1. PICK j \in 1..Len(seq) : seq[j] = x /\ seq[j].kind = kind  BY DEF Of
  <2>2. j # i  BY <2>1
  <2>3. CASE j < i
    <3>1. j \in 1..Len(w) /\ w[j] = seq[j]  BY <2>3, <1>1
    <3> QED  BY <2>1, <3>1 DEF Of
  <2>4. CASE j > i
    <3>1. j - 1 \in 1..Len(w) /\ ~(j - 1 < i) /\ (j - 1) + 1 = j  BY <2>4, <1>1
    <3>2. w[j - 1] = seq[j]  BY <3>1, <1>1
    <3> QED  BY <2>1, <3>1, <3>2 DEF Of
  <2> QED  BY <2>2, <2>3, <2>4
<1>4. Of(kind, w) = Of(kind, seq) \ {seq[i]}  BY <1>2, <1>3
<1> QED  BY <1>4 DEF w, kind

\* A row in order stays in order when a line leaves it.
LEMMA OrderStays ==
  ASSUME NEW seq \in Seq(Lines), InOrder(seq), NEW i \in 1..Len(seq)
  PROVE  InOrder(Without(seq, i))
<1> DEFINE w == Without(seq, i)
           at(j) == IF j < i THEN j ELSE j + 1
<1>1. /\ Len(w) = Len(seq) - 1 /\ Len(seq) \in Nat
      /\ \A j \in 1..(Len(seq) - 1) : w[j] = IF j < i THEN seq[j] ELSE seq[j + 1]
  BY WithoutElements
<1> HIDE DEF w
<1>2. \A j \in 1..Len(w) : at(j) \in 1..Len(seq) /\ w[j] = seq[at(j)]  BY <1>1
<1>3. \A j, k \in 1..Len(w) : j < k => at(j) < at(k)  BY <1>1
<1> HIDE DEF at
<1>4. InOrder(w)
  <2> SUFFICES ASSUME NEW j \in 1..Len(w), NEW k \in 1..Len(w), j < k,
                      w[j].kind # "answer", w[k].kind # "answer"
               PROVE  w[j].n < w[k].n
    BY DEF InOrder
  <2>1. /\ at(j) \in 1..Len(seq) /\ at(k) \in 1..Len(seq) /\ at(j) < at(k)
        /\ w[j] = seq[at(j)] /\ w[k] = seq[at(k)]
    BY <1>2, <1>3
  <2> QED  BY <2>1 DEF InOrder
<1> QED  BY <1>4 DEF w

\* The lines of a kind after one more line.
LEMMA OfAppend ==
  ASSUME NEW seq \in Seq(Lines), NEW line \in Lines, NEW kind
  PROVE  Of(kind, Append(seq, line)) = Of(kind, seq) \cup (IF line.kind = kind THEN {line} ELSE {})
<1> DEFINE a == Append(seq, line)
           formerly == Of(kind, seq)
           new == IF line.kind = kind THEN {line} ELSE {}
<1>1. /\ Len(a) = Len(seq) + 1 /\ (\A i \in 1..Len(seq) : a[i] = seq[i])
      /\ a[Len(seq) + 1] = line /\ Len(seq) \in Nat
  BY AppendProperties
<1> HIDE DEF a
<1>2. ASSUME NEW x \in Of(kind, a)  PROVE x \in formerly \cup new
  <2>1. PICK j \in 1..Len(a) : a[j] = x /\ a[j].kind = kind  BY DEF Of
  <2>2. CASE j \in 1..Len(seq)  BY <2>1, <2>2, <1>1 DEF Of
  <2>3. CASE j = Len(seq) + 1  BY <2>1, <2>3, <1>1
  <2> QED  BY <2>2, <2>3, <1>1
<1>3. ASSUME NEW x \in formerly  PROVE x \in Of(kind, a)
  <2>1. PICK j \in 1..Len(seq) : seq[j] = x /\ seq[j].kind = kind  BY DEF Of
  <2>2. j \in 1..Len(a) /\ a[j] = seq[j]  BY <1>1
  <2> QED  BY <2>1, <2>2 DEF Of
<1>4. ASSUME NEW x \in new  PROVE x \in Of(kind, a)
  <2>1. x = line /\ line.kind = kind  OBVIOUS
  <2>2. Len(seq) + 1 \in 1..Len(a) /\ a[Len(seq) + 1] = x  BY <1>1, <2>1
  <2> QED  BY <2>1, <2>2 DEF Of
<1>5. Of(kind, a) = formerly \cup new  BY <1>2, <1>3, <1>4
<1> QED  BY <1>5 DEF a

\* A row in order stays in order when the newest notification, or an answer, follows.
LEMMA OrderAppend ==
  ASSUME NEW seq \in Seq(Lines), NEW line \in Lines, InOrder(seq),
         line.kind # "answer" =>
           \A i \in 1..Len(seq) : seq[i].kind # "answer" => seq[i].n < line.n
  PROVE  InOrder(Append(seq, line))
<1> DEFINE a == Append(seq, line)
<1>1. /\ Len(a) = Len(seq) + 1 /\ (\A i \in 1..Len(seq) : a[i] = seq[i])
      /\ a[Len(seq) + 1] = line /\ Len(seq) \in Nat
  BY AppendProperties
<1> HIDE DEF a
<1>2. InOrder(a)
  <2> SUFFICES ASSUME NEW j \in 1..Len(a), NEW k \in 1..Len(a), j < k,
                      a[j].kind # "answer", a[k].kind # "answer"
               PROVE  a[j].n < a[k].n
    BY DEF InOrder
  <2>1. j \in 1..Len(seq) /\ a[j] = seq[j]  BY <1>1
  <2>2. CASE k \in 1..Len(seq)
    <3>1. a[k] = seq[k]  BY <2>2, <1>1
    <3> QED  BY <2>1, <2>2, <3>1 DEF InOrder
  <2>3. CASE k = Len(seq) + 1  BY <2>1, <2>3, <1>1
  <2> QED  BY <2>2, <2>3, <1>1
<1> QED  BY <1>2 DEF a

\* The middle of a row in order is in order, and has no line that the row does not have.
LEMMA MiddleOfRow ==
  ASSUME NEW a \in Seq(Lines), NEW b \in Seq(Lines), NEW c \in Seq(Lines), NEW kind
  PROVE  /\ InOrder(Row(a, b, c)) => InOrder(b)
         /\ Of(kind, b) \subseteq Of(kind, Row(a, b, c))
<1> DEFINE s == Row(a, b, c)
           at(i) == Len(a) + i
<1>1. s \in Seq(Lines) /\ IsRow(s, a, b, c)  BY RowElements
<1>2. Len(a) \in Nat /\ Len(b) \in Nat /\ Len(c) \in Nat  OBVIOUS
<1> HIDE DEF s
<1>3. \A i \in 1..Len(b) : at(i) \in 1..Len(s) /\ s[at(i)] = b[i]
  <2> TAKE i \in 1..Len(b)
  <2>1. /\ at(i) \in 1..(Len(a) + Len(b) + Len(c)) /\ ~(at(i) <= Len(a)) /\ at(i) <= Len(a) + Len(b)
        /\ at(i) - Len(a) = i
    BY <1>2
  <2> QED  BY <2>1, <1>1 DEF IsRow
<1>4. \A i, j \in 1..Len(b) : i < j => at(i) < at(j)  BY <1>2
<1> HIDE DEF at
<1>5. InOrder(s) => InOrder(b)
  <2> SUFFICES ASSUME InOrder(s), NEW j \in 1..Len(b), NEW k \in 1..Len(b), j < k,
                      b[j].kind # "answer", b[k].kind # "answer"
               PROVE  b[j].n < b[k].n
    BY DEF InOrder
  <2>1. /\ at(j) \in 1..Len(s) /\ at(k) \in 1..Len(s) /\ at(j) < at(k)
        /\ b[j] = s[at(j)] /\ b[k] = s[at(k)]
    BY <1>3, <1>4
  <2> QED  BY <2>1 DEF InOrder
<1>6. ASSUME NEW x \in Of(kind, b)  PROVE x \in Of(kind, s)
  <2>1. PICK j \in 1..Len(b) : b[j] = x /\ b[j].kind = kind  BY DEF Of
  <2> QED  BY <2>1, <1>3 DEF Of
<1> QED  BY <1>5, <1>6 DEF s
-----------------------------------------------------------------------------
AppInv ==
  /\ AppTypeOK /\ SignalsAreKept
  /\ \A i \in 1..Len(sent) : sent[i].kind # "answer" => sent[i].n = i
  /\ IsFiniteSet(Of("plain", sent))

\* Without the counters: what the invariant says of the rows.
RowsKept ==
  /\ InOrder(Held) /\ Of("signal", Held) = Of("signal", sent)
  /\ Of("plain", Held) \subseteq Of("plain", sent)

\* The four counts of the invariant.
CountsKept ==
  /\ plain = Cardinality(Of("plain", buffered)) /\ plain <= MAX_PLAIN_EVENTS
  /\ Cardinality(Of("plain", Held)) + dropped = Cardinality(Of("plain", sent))

\* The invariant's parts.
LEMMA KeptParts ==
  SignalsAreKept <=> RowsKept /\ CountsKept
BY DEF SignalsAreKept, RowsKept, CountsKept, Held, Row

\* A notification is a line.
LEMMA NotesAreLines ==
  ASSUME AppTypeOK
  PROVE  /\ buffered \in Seq(Lines) /\ taken \in Seq(Lines) /\ incoming \in Seq(Lines)
         /\ sent \in Seq(Lines) /\ Held \in Seq(Lines)
         /\ Len(Held) = Len(taken) + Len(buffered) + Len(incoming)
<1>1. Notes \subseteq Lines  BY DEF Lines
<1>2. /\ buffered \in Seq(Notes) /\ taken \in Seq(Notes) /\ incoming \in Seq(Lines)
      /\ sent \in Seq(Lines)
  BY DEF AppTypeOK
<1>3. buffered \in Seq(Lines) /\ taken \in Seq(Lines)  BY <1>1, <1>2, SeqMonotonic
<1> QED  BY <1>2, <1>3, RowElements DEF Held, IsRow

\* The sets of notifications without a signal are finite.
LEMMA PlainIsFinite ==
  ASSUME AppInv
  PROVE  /\ IsFiniteSet(Of("plain", Held)) /\ IsFiniteSet(Of("plain", buffered))
         /\ Cardinality(Of("plain", Held)) \in Nat /\ Cardinality(Of("plain", buffered)) \in Nat
         /\ Cardinality(Of("plain", sent)) \in Nat
<1>1. Of("plain", Held) \subseteq Of("plain", sent)
  BY KeptParts DEF AppInv, RowsKept
<1>2. IsFiniteSet(Of("plain", sent))  BY DEF AppInv
<1>3. IsFiniteSet(Of("plain", Held))  BY <1>1, <1>2, FS_Subset
<1>4. Of("plain", buffered) \subseteq Of("plain", Held)
  BY NotesAreLines, MiddleOfRow DEF AppInv, Held
<1>5. IsFiniteSet(Of("plain", buffered))  BY <1>3, <1>4, FS_Subset
<1> QED  BY <1>2, <1>3, <1>5, FS_CardinalityType

\* What leaves the lines alone keeps the invariant.
LEMMA RowsUntouched ==
  ASSUME AppInv, UNCHANGED <<incoming, buffered, plain, dropped, sent, taken>>, AppTypeOK'
  PROVE  AppInv'
<1>1. SignalsAreKept'
  BY DEF AppInv, SignalsAreKept
<1>2. /\ \A i \in 1..Len(sent') : sent'[i].kind # "answer" => sent'[i].n = i
      /\ IsFiniteSet(Of("plain", sent'))
  BY DEF AppInv
<1> QED  BY <1>1, <1>2 DEF AppInv

\* The server's line is in its place.
LEMMA AfterSends ==
  ASSUME AppInv, NEW line \in Lines, Sends(line)
  PROVE  AppInv'
<1>1. /\ sent' = Append(sent, line) /\ incoming' = Append(incoming, line)
      /\ UNCHANGED <<buffered, plain, dropped, nextId, pending, responses, caller, open, taken>>
      /\ line.kind # "answer" => line.n = Len(sent) + 1
  BY DEF Sends
<1>2. AppTypeOK /\ RowsKept /\ CountsKept  BY KeptParts DEF AppInv
<1>3. /\ buffered \in Seq(Lines) /\ taken \in Seq(Lines) /\ incoming \in Seq(Lines)
      /\ sent \in Seq(Lines) /\ Held \in Seq(Lines)
  BY <1>2, NotesAreLines
<1>4. sent' \in Seq(Lines) /\ incoming' \in Seq(Lines)  BY <1>1, <1>3, AppendProperties
<1>5. AppTypeOK'  BY <1>1, <1>2, <1>4 DEF AppTypeOK
<1>6. Held' = Append(Held, line)
  <2>1. Row(taken, buffered, Append(incoming, line)) = Append(Row(taken, buffered, incoming), line)
    BY SMTT(30), <1>3, RowAppend
  <2> QED  BY <1>1, <2>1 DEF Held
<1>7. \A kind : /\ Of(kind, Held') = Of(kind, Held) \cup (IF line.kind = kind THEN {line} ELSE {})
                /\ Of(kind, sent') = Of(kind, sent) \cup (IF line.kind = kind THEN {line} ELSE {})
  BY <1>1, <1>3, <1>6, OfAppend
<1>8. /\ Len(sent') = Len(sent) + 1 /\ (\A i \in 1..Len(sent) : sent'[i] = sent[i])
      /\ sent'[Len(sent) + 1] = line /\ Len(sent) \in Nat
  BY <1>1, <1>3, AppendProperties
<1>9. \A i \in 1..Len(sent) : sent[i].kind # "answer" => sent[i].n = i  BY DEF AppInv
<1>10. \A kind : kind # "answer" => \A x \in Of(kind, sent) : x.n \in 1..Len(sent)
  BY <1>9 DEF Of
<1>11. \A i \in 1..Len(Held) : Held[i].kind # "answer" => Held[i].n \in 1..Len(sent)
  <2> SUFFICES ASSUME NEW i \in 1..Len(Held), Held[i].kind # "answer"
               PROVE  Held[i].n \in 1..Len(sent)
    OBVIOUS
  <2>1. Held[i] \in Lines  BY <1>3, ElementOfSeq
  <2>2. Held[i].kind = "plain" \/ Held[i].kind = "signal"  BY <2>1 DEF Lines, Notes
  <2>3. Held[i] \in Of("plain", Held) \/ Held[i] \in Of("signal", Held)  BY <2>2 DEF Of
  <2>4. Held[i] \in Of("plain", sent) \/ Held[i] \in Of("signal", sent)
    BY <2>3, <1>2 DEF RowsKept
  <2> QED  BY <2>4, <1>10
<1>12. InOrder(Held')
  <2>1. line.kind # "answer" =>
          \A i \in 1..Len(Held) : Held[i].kind # "answer" => Held[i].n < line.n
    BY <1>1, <1>8, <1>11
  <2>2. InOrder(Held)  BY <1>2 DEF RowsKept
  <2> QED  BY <1>3, <1>6, <2>1, <2>2, OrderAppend
<1>13. RowsKept'  BY <1>2, <1>7, <1>12 DEF RowsKept
<1>14. \A i \in 1..Len(sent') : sent'[i].kind # "answer" => sent'[i].n = i
  <2> TAKE i \in 1..Len(sent')
  <2>1. CASE i \in 1..Len(sent)  BY <2>1, <1>8, <1>9
  <2>2. CASE i = Len(sent) + 1  BY <2>2, <1>1, <1>8
  <2> QED  BY <2>1, <2>2, <1>8
<1>15. line \notin Of("plain", sent) \/ line.kind # "plain"
  <2>1. line.kind = "plain" => line.n = Len(sent) + 1  BY <1>1
  <2>2. line \in Of("plain", sent) => line.n \in 1..Len(sent)  BY <1>10
  <2> QED  BY <2>1, <2>2, <1>8
<1>16. line \notin Of("plain", Held) \/ line.kind # "plain"  BY <1>2, <1>15 DEF RowsKept
<1>17. IsFiniteSet(Of("plain", sent)) /\ IsFiniteSet(Of("plain", Held))
  BY PlainIsFinite DEF AppInv
<1>18. IsFiniteSet(Of("plain", sent'))
  <2>1. IsFiniteSet(Of("plain", sent) \cup {line})  BY <1>17, FS_AddElement
  <2> QED  BY <2>1, <1>7, <1>17
<1>19. Cardinality(Of("plain", Held')) + dropped' = Cardinality(Of("plain", sent'))
  <2>0. /\ dropped \in Nat /\ Cardinality(Of("plain", Held)) \in Nat
        /\ Cardinality(Of("plain", sent)) \in Nat
        /\ Cardinality(Of("plain", Held)) + dropped = Cardinality(Of("plain", sent))
    BY <1>2, PlainIsFinite DEF AppTypeOK, CountsKept
  <2>1. CASE line.kind = "plain"
    <3>1. /\ Of("plain", Held') = Of("plain", Held) \cup {line}
          /\ Of("plain", sent') = Of("plain", sent) \cup {line}
      BY <1>7, <2>1
    <3>2. Cardinality(Of("plain", Held) \cup {line}) = Cardinality(Of("plain", Held)) + 1
      BY <1>16, <1>17, <2>1, FS_AddElement
    <3>3. Cardinality(Of("plain", sent) \cup {line}) = Cardinality(Of("plain", sent)) + 1
      BY <1>15, <1>17, <2>1, FS_AddElement
    <3>4. /\ Cardinality(Of("plain", Held')) = Cardinality(Of("plain", Held)) + 1
          /\ Cardinality(Of("plain", sent')) = Cardinality(Of("plain", sent)) + 1
          /\ dropped' = dropped
      BY <3>1, <3>2, <3>3, <1>1
    <3> QED  BY <2>0, <3>4
  <2>2. CASE line.kind # "plain"
    <3>1. Of("plain", Held') = Of("plain", Held) /\ Of("plain", sent') = Of("plain", sent)
      BY <1>7, <2>2
    <3> QED  BY <2>0, <3>1, <1>1
  <2> QED  BY <2>1, <2>2
<1>20. CountsKept'  BY <1>1, <1>2, <1>19 DEF CountsKept
<1>21. SignalsAreKept'  BY <1>13, <1>20 DEF SignalsAreKept, RowsKept, CountsKept, Held, Row
<1> QED  BY <1>5, <1>14, <1>18, <1>21 DEF AppInv
\* What leaves the lines of the server alone keeps the invariant if the rows and counts stay.
LEMMA KeptOf ==
  ASSUME AppInv, AppTypeOK', RowsKept', CountsKept', sent' = sent
  PROVE  AppInv'
<1>1. SignalsAreKept'  BY DEF SignalsAreKept, RowsKept, CountsKept, Held, Row
<1>2. /\ \A i \in 1..Len(sent') : sent'[i].kind # "answer" => sent'[i].n = i
      /\ IsFiniteSet(Of("plain", sent'))
  BY DEF AppInv
<1> QED  BY <1>1, <1>2 DEF AppInv

\* A pumped notification joins the buffer, or an older one without a signal is counted out.
LEMMA AfterNote ==
  ASSUME AppInv, Pump, Head(incoming).kind # "answer"
  PROVE  AppInv'
<1> DEFINE note == Head(incoming)
           kept == Append(buffered, note)
           more == plain + (IF note.kind = "plain" THEN 1 ELSE 0)
<1>1. /\ incoming # <<>> /\ incoming' = Tail(incoming) /\ Record(note)
      /\ UNCHANGED <<responses, caller, nextId, pending, open, sent, taken>>
  BY DEF Pump
<1>2. AppTypeOK /\ RowsKept /\ CountsKept  BY KeptParts DEF AppInv
<1>3. /\ buffered \in Seq(Lines) /\ taken \in Seq(Lines) /\ incoming \in Seq(Lines)
      /\ sent \in Seq(Lines) /\ Held \in Seq(Lines)
      /\ Len(Held) = Len(taken) + Len(buffered) + Len(incoming)
  BY <1>2, NotesAreLines
<1>4. note \in Lines /\ Tail(incoming) \in Seq(Lines) /\ Len(incoming) >= 1 /\ Len(incoming) \in Nat
  BY <1>1, <1>3
<1>5. note \in Notes /\ (note.kind = "plain" \/ note.kind = "signal")
  BY <1>4 DEF Lines, Notes
<1>6. kept \in Seq(Notes) /\ kept \in Seq(Lines)
  <2>1. buffered \in Seq(Notes)  BY <1>2 DEF AppTypeOK
  <2> QED  BY <1>3, <1>4, <1>5, <2>1, AppendProperties
<1>7. Row(taken, kept, Tail(incoming)) = Held  BY <1>1, <1>3, RowMove DEF Held
<1>8. /\ Len(kept) = Len(buffered) + 1 /\ (\A i \in 1..Len(buffered) : kept[i] = buffered[i])
      /\ kept[Len(buffered) + 1] = note /\ Len(buffered) \in Nat
  BY <1>3, <1>4, AppendProperties
<1>9. \A kind : Of(kind, kept) = Of(kind, buffered) \cup (IF note.kind = kind THEN {note} ELSE {})
  BY <1>3, <1>4, OfAppend
<1> HIDE DEF kept, note
<1>10. InOrder(kept)
  <2>1. InOrder(Row(taken, kept, Tail(incoming)))  BY <1>2, <1>7 DEF RowsKept
  <2> QED  BY <1>3, <1>4, <1>6, <2>1, MiddleOfRow
<1>11. note \notin Of("plain", buffered)
  <2>1. Len(buffered) + 1 \in 1..Len(kept) /\ kept[Len(buffered) + 1].kind # "answer"
    BY <1>5, <1>8
  <2>2. \A j \in 1..Len(kept) : j # Len(buffered) + 1 => kept[j] # kept[Len(buffered) + 1]
    BY <1>6, <1>10, <2>1, OnePlace
  <2>3. \A j \in 1..Len(buffered) : buffered[j] # note  BY <1>8, <2>2
  <2> QED  BY <2>3 DEF Of
<1>12. /\ IsFiniteSet(Of("plain", Held)) /\ IsFiniteSet(Of("plain", buffered))
       /\ Cardinality(Of("plain", Held)) \in Nat /\ Cardinality(Of("plain", buffered)) \in Nat
       /\ plain = Cardinality(Of("plain", buffered)) /\ plain <= MAX_PLAIN_EVENTS
       /\ Cardinality(Of("plain", Held)) + dropped = Cardinality(Of("plain", sent))
       /\ Cardinality(Of("plain", sent)) \in Nat /\ plain \in Nat /\ dropped \in Nat
  BY <1>2, PlainIsFinite DEF CountsKept, AppTypeOK
<1>13. IsFiniteSet(Of("plain", kept)) /\ Cardinality(Of("plain", kept)) = more /\ more \in Nat
  <2>1. CASE note.kind = "plain"
    <3>1. Of("plain", kept) = Of("plain", buffered) \cup {note}  BY <1>9, <2>1
    <3>2. /\ IsFiniteSet(Of("plain", buffered) \cup {note})
          /\ Cardinality(Of("plain", buffered) \cup {note}) = Cardinality(Of("plain", buffered)) + 1
      BY <1>11, <1>12, FS_AddElement
    <3>3. /\ IsFiniteSet(Of("plain", kept))
          /\ Cardinality(Of("plain", kept)) = Cardinality(Of("plain", buffered)) + 1
      BY <3>1, <3>2
    <3> QED  BY <2>1, <3>3, <1>12
  <2>2. CASE note.kind # "plain"
    <3>1. Of("plain", kept) = Of("plain", buffered)  BY <1>9, <2>2
    <3>2. IsFiniteSet(Of("plain", kept)) /\ Cardinality(Of("plain", kept)) = plain
      BY <3>1, <1>12
    <3> QED  BY <2>2, <3>2, <1>12
  <2> QED  BY <2>1, <2>2
<1>14. CASE (note.kind = "signal" \/ more <= MAX_PLAIN_EVENTS)
  <2>1. buffered' = kept /\ plain' = more /\ dropped' = dropped
    BY <1>1, <1>14 DEF Record, kept
  <2>2. AppTypeOK'  BY <1>1, <1>2, <1>4, <1>6, <1>13, <2>1 DEF AppTypeOK
  <2>3. Held' = Held  BY <1>1, <1>7, <2>1 DEF Held
  <2>4. RowsKept'  BY <1>1, <1>2, <2>3 DEF RowsKept
  <2>5. more <= MAX_PLAIN_EVENTS  BY <1>12, <1>14
  <2> HIDE DEF more
  <2>6. CountsKept'  BY <1>1, <1>12, <1>13, <2>1, <2>3, <2>5 DEF CountsKept
  <2> QED  BY <1>1, <2>2, <2>4, <2>6, KeptOf
<1>15. CASE ~(note.kind = "signal" \/ more <= MAX_PLAIN_EVENTS)
  <2>1. \E i \in 1..Len(kept) : kept[i].kind = "plain" /\ buffered' = Without(kept, i)
    BY <1>1, <1>15 DEF Record, kept
  <2>2. plain' = plain /\ dropped' = dropped + 1
    BY <1>1, <1>15 DEF Record
  <2>3. PICK i \in 1..Len(kept) : kept[i].kind = "plain" /\ buffered' = Without(kept, i)
    BY <2>1
  <2> DEFINE m == Len(taken) + i
  <2>4. more = plain + 1  BY <1>5, <1>15
  <2>5. buffered' \in Seq(Notes)  BY <1>6, <2>3, WithoutElements
  <2>6. AppTypeOK'  BY <1>1, <1>2, <1>4, <1>12, <2>2, <2>5, SMTT(30) DEF AppTypeOK
  <2>7. Held' = Without(Held, m)
    <3>0. /\ taken \in Seq(Lines) /\ kept \in Seq(Lines) /\ Tail(incoming) \in Seq(Lines)
          /\ i \in 1..Len(kept)
      BY <1>3, <1>4, <1>6, <2>3
    <3>1. Row(taken, Without(kept, i), Tail(incoming)) = Without(Row(taken, kept, Tail(incoming)), m)
      BY <3>0, RowWithout
    <3> QED  BY <3>1, <1>1, <1>7, <2>3 DEF Held
  <2>8. m \in 1..Len(Held) /\ Held[m] = kept[i]
    <3>1. IsRow(Held, taken, kept, Tail(incoming))
      BY <1>3, <1>4, <1>6, <1>7, RowElements
    <3>2. Len(taken) \in Nat /\ Len(Tail(incoming)) \in Nat /\ Len(kept) \in Nat  BY <1>3, <1>4, <1>6
    <3> DEFINE t == Len(taken)
               k == Len(kept)
               o == Len(Tail(incoming))
    <3>3. i \in 1..k /\ t \in Nat /\ k \in Nat /\ o \in Nat  BY <2>3, <3>2
    <3> HIDE DEF t, k, o
    <3>4. t + i \in 1..(t + k + o) /\ ~(t + i <= t) /\ t + i <= t + k /\ (t + i) - t = i  BY <3>3
    <3> QED  BY <3>1, <3>4 DEF IsRow, t, k, o
  <2> HIDE DEF m
  <2>9. InOrder(Held)  BY <1>2 DEF RowsKept
  <2>10. InOrder(Held')  BY <1>3, <2>7, <2>8, <2>9, OrderStays
  <2>11. Of("signal", Held') = Of("signal", Held)
    <3>1. Held[m].kind # "signal"  BY <2>3, <2>8
    <3> QED  BY <1>3, <2>7, <2>8, <3>1, OthersKeep
  <2>12. Of("plain", Held') = Of("plain", Held) \ {kept[i]}
    <3>1. Held[m].kind = "plain"  BY <2>3, <2>8
    <3>2. Of("plain", Without(Held, m)) = Of("plain", Held) \ {Held[m]}
      BY <1>3, <2>8, <2>9, <3>1, OneLeaves
    <3> QED  BY <2>7, <2>8, <3>2
  <2>13. kept[i] \in Of("plain", Held) /\ kept[i] \in Of("plain", kept)
    BY <2>3, <2>8 DEF Of
  <2>14. Of("plain", buffered') = Of("plain", kept) \ {kept[i]}
    BY <1>6, <1>10, <2>3, OneLeaves
  <2>15. RowsKept'  BY <1>1, <1>2, <2>10, <2>11, <2>12 DEF RowsKept
  <2>16. Cardinality(Of("plain", buffered')) = plain
    <3>1. Cardinality(Of("plain", kept) \ {kept[i]}) = Cardinality(Of("plain", kept)) - 1
      BY <1>13, <2>13, FS_RemoveElement
    <3>2. Cardinality(Of("plain", buffered')) = more - 1  BY <1>13, <2>14, <3>1
    <3> HIDE DEF more
    <3> QED  BY <1>12, <2>4, <3>2
  <2>17. Cardinality(Of("plain", Held')) = Cardinality(Of("plain", Held)) - 1
    <3>1. Cardinality(Of("plain", Held) \ {kept[i]}) = Cardinality(Of("plain", Held)) - 1
      BY <1>12, <2>13, FS_RemoveElement
    <3> QED  BY <2>12, <3>1
  <2>18. CountsKept'  BY <1>1, <1>12, <2>2, <2>16, <2>17 DEF CountsKept
  <2> QED  BY <1>1, <2>6, <2>15, <2>18, KeptOf
<1> QED  BY <1>14, <1>15

\* A pumped answer leaves the row; no notification does.
LEMMA AfterAnswer ==
  ASSUME AppInv, Pump, Head(incoming).kind = "answer"
  PROVE  AppInv'
<1> DEFINE line == Head(incoming)
           m == Len(taken) + Len(buffered) + 1
<1>1. /\ incoming # <<>> /\ incoming' = Tail(incoming)
      /\ \/ /\ line.n \in pending \ responses /\ responses' = responses \cup {line.n}
            /\ caller' = caller
         \/ responses' = responses /\ caller' = Unbusy
      /\ UNCHANGED <<buffered, plain, dropped, nextId, pending, open, sent, taken>>
  BY DEF Pump
<1>2. AppTypeOK /\ RowsKept /\ CountsKept  BY KeptParts DEF AppInv
<1>3. /\ buffered \in Seq(Lines) /\ taken \in Seq(Lines) /\ incoming \in Seq(Lines)
      /\ Held \in Seq(Lines) /\ Len(Held) = Len(taken) + Len(buffered) + Len(incoming)
  BY <1>2, NotesAreLines
<1>4. Tail(incoming) \in Seq(Lines) /\ Len(incoming) >= 1 /\ Len(incoming) \in Nat
  BY <1>1, <1>3
<1>5. AppTypeOK'
  <2>1. incoming' \in Seq(Lines)  BY <1>1, <1>4
  <2>2. responses' \subseteq pending' /\ pending' \subseteq Ids  BY <1>1, <1>2 DEF AppTypeOK
  <2>3. caller' \in [at: {"free", "waits", "drains"}, id: 0..MaxRequests]
    BY <1>1, <1>2, AppServerBounds DEF AppTypeOK, Unbusy
  <2> QED  BY <1>1, <1>2, <2>1, <2>2, <2>3 DEF AppTypeOK
<1>6. Held' = Without(Held, m)  BY <1>1, <1>3, RowTail DEF Held
<1>7. m \in 1..Len(Held) /\ Held[m] = line
  <2>1. IsRow(Held, taken, buffered, incoming)  BY <1>3, RowElements DEF Held
  <2>2. Len(taken) \in Nat /\ Len(buffered) \in Nat  BY <1>3
  <2>3. /\ m \in 1..(Len(taken) + Len(buffered) + Len(incoming)) /\ ~(m <= Len(taken))
        /\ ~(m <= Len(taken) + Len(buffered)) /\ m - Len(taken) - Len(buffered) = 1
    BY <1>4, <2>2
  <2>4. Held[m] = incoming[1]  BY <2>1, <2>3 DEF IsRow
  <2> QED  BY <1>3, <1>4, <2>3, <2>4
<1> HIDE DEF m
<1>8. InOrder(Held')
  <2>1. InOrder(Held)  BY <1>2 DEF RowsKept
  <2> QED  BY <1>3, <1>6, <1>7, <2>1, OrderStays
<1>9. Of("signal", Held') = Of("signal", Held) /\ Of("plain", Held') = Of("plain", Held)
  <2>1. Held[m].kind # "signal" /\ Held[m].kind # "plain"  BY <1>7
  <2> QED  BY <1>3, <1>6, <1>7, <2>1, OthersKeep
<1>10. RowsKept'  BY <1>1, <1>2, <1>8, <1>9 DEF RowsKept
<1>11. CountsKept'  BY <1>1, <1>2, <1>9 DEF CountsKept
<1> QED  BY <1>1, <1>5, <1>10, <1>11, KeptOf

\* An event that the caller takes keeps its place in the row.
LEMMA AfterTakesEvent ==
  ASSUME AppInv, TakesEvent
  PROVE  AppInv'
<1> DEFINE head == Head(buffered)
<1>1. /\ buffered # <<>> /\ buffered' = Tail(buffered) /\ taken' = Append(taken, head)
      /\ plain' = IF head.kind = "plain" THEN plain - 1 ELSE plain
      /\ caller' = Unbusy
      /\ UNCHANGED <<incoming, dropped, nextId, pending, responses, open, sent>>
  BY DEF TakesEvent
<1>2. AppTypeOK /\ RowsKept /\ CountsKept  BY KeptParts DEF AppInv
<1>3. /\ buffered \in Seq(Lines) /\ taken \in Seq(Lines) /\ incoming \in Seq(Lines)
      /\ Held \in Seq(Lines) /\ buffered \in Seq(Notes) /\ taken \in Seq(Notes)
  BY <1>2, NotesAreLines DEF AppTypeOK
<1>4. /\ Len(buffered) \in Nat /\ 1 \in 1..Len(buffered) /\ head = buffered[1]
      /\ Tail(buffered) \in Seq(Notes) /\ head \in Notes
  BY <1>1, <1>3
<1>5. Held' = Held  BY <1>1, <1>3, RowTake DEF Held
<1>6. RowsKept'  BY <1>1, <1>2, <1>5 DEF RowsKept
<1>7. buffered' = Without(buffered, 1)  BY <1>1, <1>3, TailIsWithout
<1>8. InOrder(buffered)
  <2>1. InOrder(Row(taken, buffered, incoming))  BY <1>2 DEF RowsKept, Held
  <2> QED  BY <1>3, <2>1, MiddleOfRow
<1>9. /\ IsFiniteSet(Of("plain", buffered)) /\ Cardinality(Of("plain", buffered)) \in Nat
      /\ plain = Cardinality(Of("plain", buffered)) /\ plain <= MAX_PLAIN_EVENTS
  BY <1>2, PlainIsFinite DEF CountsKept
<1>10. plain' = Cardinality(Of("plain", buffered')) /\ plain' \in Nat /\ plain' <= plain
  <2>1. CASE head.kind = "plain"
    <3>0. buffered[1].kind = "plain"  BY <1>4, <2>1
    <3>1. Of("plain", buffered') = Of("plain", buffered) \ {head}
      <4>1. Of(buffered[1].kind, Without(buffered, 1)) = Of(buffered[1].kind, buffered) \ {buffered[1]}
        BY <1>3, <1>4, <1>8, <3>0, OneLeaves
      <4> QED  BY <1>4, <1>7, <3>0, <4>1
    <3>2. head \in Of("plain", buffered)  BY <1>4, <2>1 DEF Of
    <3>3. /\ IsFiniteSet(Of("plain", buffered) \ {head})
          /\ Cardinality(Of("plain", buffered) \ {head}) = Cardinality(Of("plain", buffered)) - 1
      BY <1>9, <3>2, FS_RemoveElement
    <3>4. Cardinality(Of("plain", buffered) \ {head}) \in Nat  BY <3>3, FS_CardinalityType
    <3>5. plain' = plain - 1  BY <1>1, <2>1
    <3> QED  BY <1>9, <3>1, <3>3, <3>4, <3>5
  <2>2. CASE head.kind # "plain"
    <3>1. Of("plain", buffered') = Of("plain", buffered)
      BY <1>3, <1>4, <1>7, <2>2, OthersKeep
    <3> QED  BY <1>1, <1>9, <2>2, <3>1
  <2> QED  BY <2>1, <2>2
<1>11. AppTypeOK'
  <2>1. taken' \in Seq(Notes) /\ buffered' \in Seq(Notes)
    BY <1>1, <1>3, <1>4, AppendProperties
  <2>2. caller' \in [at: {"free", "waits", "drains"}, id: 0..MaxRequests]
    BY <1>1, AppServerBounds DEF Unbusy
  <2> QED  BY <1>1, <1>2, <1>10, <2>1, <2>2 DEF AppTypeOK
<1>12. CountsKept'
  <2>1. plain' <= MAX_PLAIN_EVENTS  BY <1>9, <1>10, AppServerBounds
  <2> QED  BY <1>1, <1>2, <1>5, <1>10, <2>1 DEF CountsKept
<1> QED  BY <1>1, <1>6, <1>11, <1>12, KeptOf

\* The other steps of the caller leave the lines alone.
LEMMA AfterCaller ==
  ASSUME AppInv, \/ Requests \/ BeginsEvent \/ GivesUp \/ TakesResponse \/ Closes
                 \/ \E id \in Ids : WaitsFor(id)
  PROVE  AppInv'
<1>1. UNCHANGED <<incoming, buffered, plain, dropped, sent, taken>>
  BY DEF Requests, BeginsEvent, GivesUp, TakesResponse, Closes, WaitsFor
<1>2. AppTypeOK  BY DEF AppInv
<1>3. nextId' \in 0..MaxRequests /\ pending' \subseteq Ids
  <2>1. nextId \in 0..MaxRequests /\ pending \subseteq Ids  BY <1>2 DEF AppTypeOK
  <2>2. CASE Requests
    <3>1. nextId' = nextId + 1 /\ nextId < MaxRequests /\ pending' \subseteq pending \cup {nextId'}
      BY <2>2 DEF Requests
    <3>2. nextId' \in 1..MaxRequests  BY <2>1, <3>1, AppServerBounds
    <3> QED  BY <2>1, <3>1, <3>2 DEF Ids
  <2>3. CASE TakesResponse  BY <2>1, <2>3 DEF TakesResponse
  <2>4. CASE BeginsEvent \/ GivesUp \/ Closes \/ \E id \in Ids : WaitsFor(id)
    BY <2>1, <2>4 DEF BeginsEvent, GivesUp, Closes, WaitsFor
  <2> QED  BY <2>2, <2>3, <2>4
<1>4. responses' \subseteq pending' /\ open' \in BOOLEAN
  BY <1>2 DEF AppTypeOK, Requests, BeginsEvent, GivesUp, TakesResponse, Closes, WaitsFor
<1>5. caller' \in [at: {"free", "waits", "drains"}, id: 0..MaxRequests]
  BY <1>2, AppServerBounds
  DEF AppTypeOK, Ids, Unbusy, Waits, Drains,
      Requests, BeginsEvent, GivesUp, TakesResponse, Closes, WaitsFor
<1>6. AppTypeOK'  BY <1>1, <1>2, <1>3, <1>4, <1>5 DEF AppTypeOK
<1> QED  BY <1>1, <1>6, RowsUntouched

\* The invariant holds at the start.
LEMMA AppStarts == AppInit => AppInv
<1> SUFFICES ASSUME AppInit PROVE AppInv  OBVIOUS
<1>1. AppTypeOK  BY AppServerBounds DEF AppInit, AppTypeOK, Unbusy, Ids
<1>2. \A kind : Of(kind, <<>>) = {}  BY DEF Of
<1>3. taken \o buffered \o incoming = <<>>  BY DEF AppInit
<1>4. InOrder(<<>>)  BY DEF InOrder
<1>5. SignalsAreKept
  BY <1>2, <1>3, <1>4, FS_EmptySet, AppServerBounds DEF AppInit, SignalsAreKept
<1>6. IsFiniteSet(Of("plain", sent))  BY <1>2, FS_EmptySet DEF AppInit
<1> QED  BY <1>1, <1>5, <1>6 DEF AppInv, AppInit

\* Every step keeps it.
LEMMA AppStays == AppInv /\ [AppNext]_appVars => AppInv'
<1> SUFFICES ASSUME AppInv, [AppNext]_appVars PROVE AppInv'  OBVIOUS
<1>1. CASE \E line \in Lines : Sends(line)  BY <1>1, AfterSends
<1>2. CASE Pump  BY <1>2, AfterNote, AfterAnswer
<1>3. CASE TakesEvent  BY <1>3, AfterTakesEvent
<1>4. CASE \/ Requests \/ BeginsEvent \/ GivesUp \/ TakesResponse \/ Closes
           \/ \E id \in Ids : WaitsFor(id)
  BY <1>4, AfterCaller
<1>5. CASE UNCHANGED appVars
  <2>1. AppTypeOK'  BY <1>5 DEF AppInv, AppTypeOK, appVars
  <2> QED  BY <1>5, <2>1, RowsUntouched DEF appVars
<1> QED  BY <1>1, <1>2, <1>3, <1>4, <1>5 DEF AppNext

\* The client's state is what its code keeps.
THEOREM AppTypes == AppSpec => []AppTypeOK
<1>1. AppInv => AppTypeOK  BY DEF AppInv
<1> QED  BY <1>1, AppStarts, AppStays, PTL DEF AppSpec

\* No signal of the server is lost, doubled or overtaken, and what is dropped is counted.
THEOREM SignalsKept == AppSpec => []SignalsAreKept
<1>1. AppInv => SignalsAreKept  BY DEF AppInv
<1> QED  BY <1>1, AppStarts, AppStays, PTL DEF AppSpec

=============================================================================
