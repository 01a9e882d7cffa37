--------------------------- MODULE SessionRegistry ---------------------------
(***************************************************************************)
(* The heartbeats of the supervised sessions (session.py).  Each supervisor*)
(* keeps a file of its own, named for its process id, and all of them one  *)
(* legacy file that older engines write and older apps read.  Nothing is   *)
(* locked: a supervisor marks its session in several writes, anybody who   *)
(* reads prunes what looks dead, and process ids are used again.           *)
(*                                                                         *)
(* A file's inode is modelled by its content, which names the life of the  *)
(* process that wrote it: two inodes with one content differ in nothing a  *)
(* reader could go wrong on; the number of the mark stands for the seat it *)
(* names and for its time.  Comparing the inode and unlinking it is one    *)
(* step here, and so is request_end's last read with its write.            *)
(***************************************************************************)
EXTENDS Integers

CONSTANTS Pids, OldPid,   \* OldPid is supervised by an engine from before the registry
          MaxLife,        \* bound: processes that get the same id
          MaxMarks        \* bound: hops of one session

ASSUME RegistryBounds == OldPid \in Pids /\ MaxLife \in Nat \ {0} /\ MaxMarks \in Nat \ {0}

VARIABLES
  proc,       \* the process behind each id, and where it is in mark_session
  own,        \* session-<tool>-<pid>.json
  legacy,     \* session-<tool>.json
  reader,     \* _read_session of one other process
  ender,      \* request_end
  accepted    \* history: the launches whose end was accepted

sessionVars == <<proc, own, legacy, reader, ender, accepted>>

NoFile == [pid |-> OldPid, life |-> 0, mark |-> 0, end |-> FALSE]
Lives  == 0..MaxLife
Launches == [pid: Pids, life: Lives]
Records == [pid: Pids, life: 1..MaxLife, mark: 1..MaxMarks, end: BOOLEAN]
Files   == Records \cup {NoFile}
Kinds   == {"gone", "old", "session", "pinned"}
MarkSteps == {"out", "check", "link", "own", "legacy", "clearing"}
ReaderAt  == {"idle", "discard"}

NoProc == [kind |-> "gone", life |-> 0, at |-> "out", mark |-> 0,
           marked |-> FALSE, prev |-> NoFile]
Supervised == {"session", "pinned"}

Live(rec) == rec # NoFile /\ proc[rec.pid].kind # "gone" /\ proc[rec.pid].life = rec.life

NoRead == [at |-> "idle", file |-> "legacy", rec |-> NoFile]
NoEnd  == [at |-> "idle", who |-> [pid |-> OldPid, life |-> 0]]
SessionInit ==
  /\ proc = [p \in Pids |-> IF p = OldPid
               THEN [NoProc EXCEPT !.kind = "old", !.life = 1, !.mark = 1] ELSE NoProc]
  /\ own = [p \in Pids |-> NoFile]
  /\ legacy = [pid |-> OldPid, life |-> 1, mark |-> 1, end |-> FALSE]
  /\ reader = NoRead /\ ender = NoEnd /\ accepted = {}

-----------------------------------------------------------------------------
(* Processes come and go. *)

\* A supervisor starts under an id that is free; whatever else took the id before left no
\* trace but the number of the life.
Starts(p, kind) ==
  /\ proc[p].kind = "gone" /\ proc[p].life < MaxLife
  /\ proc' = [proc EXCEPT ![p] = [NoProc EXCEPT !.kind = kind, !.life = proc[p].life + 1]]
  /\ UNCHANGED <<own, legacy, reader, ender, accepted>>

\* A process ends without clearing anything.
Dies(p) ==
  /\ proc[p].kind # "gone"
  /\ proc' = [proc EXCEPT ![p] = [NoProc EXCEPT !.life = proc[p].life]]
  /\ UNCHANGED <<own, legacy, reader, ender, accepted>>

\* The older engine knows the legacy file only.
OldMarks(p) ==
  /\ proc[p].kind = "old" /\ proc[p].mark < MaxMarks
  /\ proc' = [proc EXCEPT ![p].mark = @ + 1]
  /\ legacy' = [pid |-> p, life |-> proc[p].life, mark |-> proc'[p].mark, end |-> FALSE]
  /\ UNCHANGED <<own, reader, ender, accepted>>

-----------------------------------------------------------------------------
(* mark_session(), at launch and after every hop; a pinned session never hops. *)

At(p, step) == proc' = [proc EXCEPT ![p].at = step]
Past(p) == proc' = [proc EXCEPT ![p].at = "own", ![p].prev = NoFile]

\* A mutant: the legacy file is taken over with no second name for its owner's record.
MarkReadsOnly(p) ==
  /\ proc[p].kind \in Supervised /\ proc[p].at = "out" /\ proc[p].mark < MaxMarks
  /\ proc[p].kind = "pinned" => proc[p].mark = 0
  /\ proc' = [proc EXCEPT ![p].at = "own", ![p].prev = NoFile, ![p].mark = @ + 1,
                          ![p].marked = FALSE]
  /\ UNCHANGED <<own, legacy, reader, ender, accepted>>

\* The owner of the legacy file, if it is another process, gets a record of its own first.
MarkReads(p) ==
  /\ proc[p].kind \in Supervised /\ proc[p].at = "out" /\ proc[p].mark < MaxMarks
  /\ proc[p].kind = "pinned" => proc[p].mark = 0
  /\ proc' = [proc EXCEPT ![p].at = IF legacy = NoFile \/ legacy.pid = p THEN "own" ELSE "check",
                          ![p].prev = IF legacy.pid = p THEN NoFile ELSE legacy,
                          ![p].mark = @ + 1, ![p].marked = FALSE]
  /\ UNCHANGED <<own, legacy, reader, ender, accepted>>

\* _read_session(legacy): a dead owner's file is pruned if it is still the one that was read;
\* a process that ends under the eyes of ps is neither alive nor pruned.
MarkChecks(p) ==
  LET prev == proc[p].prev
  IN /\ proc[p].at = "check"
     /\ \/ Live(prev) /\ At(p, "link") /\ UNCHANGED legacy
        \/ /\ ~Live(prev) /\ Past(p)
           /\ legacy' = IF legacy = prev THEN NoFile ELSE legacy
        \/ ~Live(prev) /\ Past(p) /\ UNCHANGED legacy
     /\ UNCHANGED <<own, reader, ender, accepted>>

\* A mutant: the record is copied over whatever its owner wrote.
MarkLinksOver(p) ==
  LET q == proc[p].prev.pid
  IN /\ proc[p].at = "link"
     /\ Past(p)
     /\ own' = [own EXCEPT ![q] = proc[p].prev]
     /\ UNCHANGED <<legacy, reader, ender, accepted>>

\* os.link fails where a record already is; it links what the legacy name stands for now.
MarkLinks(p) ==
  LET q == proc[p].prev.pid
  IN /\ proc[p].at = "link"
     /\ Past(p)
     /\ own' = IF own[q] = NoFile THEN [own EXCEPT ![q] = legacy] ELSE own
     /\ UNCHANGED <<legacy, reader, ender, accepted>>

Heartbeat(p) == [pid |-> p, life |-> proc[p].life, mark |-> proc[p].mark, end |-> FALSE]
MarkOwn(p) ==
  /\ proc[p].at = "own"
  /\ own' = [own EXCEPT ![p] = Heartbeat(p)]
  /\ proc' = [proc EXCEPT ![p].at = "legacy", ![p].marked = TRUE]
  /\ UNCHANGED <<legacy, reader, ender, accepted>>
MarkLegacy(p) ==
  /\ proc[p].at = "legacy"
  /\ legacy' = Heartbeat(p)
  /\ proc' = [proc EXCEPT ![p].at = "out"]
  /\ UNCHANGED <<own, reader, ender, accepted>>

\* clear_session(): the own file goes; then the legacy file, if it was this process's.
ClearOwn(p) ==
  /\ proc[p].kind \in Supervised /\ proc[p].at = "out" /\ proc[p].marked
  /\ own' = [own EXCEPT ![p] = NoFile]
  /\ proc' = [proc EXCEPT ![p].at = "clearing", ![p].marked = FALSE,
                          ![p].prev = IF legacy.pid = p THEN legacy ELSE NoFile]
  /\ UNCHANGED <<legacy, reader, ender, accepted>>
ClearLegacy(p) ==
  /\ proc[p].at = "clearing"
  /\ legacy' = IF proc[p].prev # NoFile THEN NoFile ELSE legacy
  /\ proc' = [proc EXCEPT ![p] = [NoProc EXCEPT !.life = proc[p].life]]
  /\ UNCHANGED <<own, reader, ender, accepted>>

-----------------------------------------------------------------------------
(* Readers: active_sessions() of the app, the polls and the other supervisors. *)

Content(f) == IF f = "legacy" THEN legacy ELSE own[f]

\* The record of a dead process, or of one whose id another has by now, is a thing to prune;
\* a record of a live one is not, nor one whose process ps cannot tell.  What is read before
\* its file changes is not pruned either, so reading and judging are one step.
ReadDead(f) ==
  /\ reader.at = "idle" /\ Content(f) # NoFile /\ ~Live(Content(f))
  /\ reader' = [at |-> "discard", file |-> f, rec |-> Content(f)]
  /\ UNCHANGED <<proc, own, legacy, ender, accepted>>

\* Only the inode that was read is pruned, never a replacement.
Discard ==
  /\ reader.at = "discard"
  /\ IF Content(reader.file) # reader.rec THEN UNCHANGED <<own, legacy>>
     ELSE IF reader.file = "legacy" THEN legacy' = NoFile /\ UNCHANGED own
     ELSE own' = [own EXCEPT ![reader.file] = NoFile] /\ UNCHANGED legacy
  /\ reader' = NoRead
  /\ UNCHANGED <<proc, ender, accepted>>

-----------------------------------------------------------------------------
(* request_end(): the user ends one pinned session.  Its random pin stands for one launch. *)

\* Every record anybody can read.
Listed == {own[p] : p \in Pids} \cup {legacy}

\* The pin is found in a record of the live session ...
EndLooks ==
  /\ ender.at = "idle"
  /\ \E r \in Listed :
       /\ Live(r) /\ proc[r.pid].kind = "pinned"
       /\ ender' = [at |-> "found", who |-> [pid |-> r.pid, life |-> r.life]]
  /\ UNCHANGED <<proc, own, legacy, reader, accepted>>

\* A mutant: the process id alone says whose session ends.
EndByPid ==
  LET p == ender.who.pid
  IN /\ ender.at = "found"
     /\ IF own[p] = NoFile THEN UNCHANGED <<own, accepted>>
        ELSE own' = [own EXCEPT ![p].end = TRUE] /\ accepted' = accepted \cup {ender.who}
     /\ ender' = NoEnd
     /\ UNCHANGED <<proc, legacy, reader>>

\* ... and looked for again in the process's own file, the one that is rewritten.
EndWrites ==
  LET p == ender.who.pid
  IN /\ ender.at = "found"
     /\ IF own[p].pid # p \/ own[p].life # ender.who.life THEN UNCHANGED <<own, accepted>>
        ELSE own' = [own EXCEPT ![p].end = TRUE] /\ accepted' = accepted \cup {ender.who}
     /\ ender' = NoEnd
     /\ UNCHANGED <<proc, legacy, reader>>

-----------------------------------------------------------------------------
SessionNext ==
  \/ \E p \in Pids :
       \/ Starts(p, "session") \/ Starts(p, "pinned") \/ Dies(p)
       \/ OldMarks(p) \/ MarkReads(p)
       \/ MarkChecks(p) \/ MarkLinks(p) \/ MarkOwn(p) \/ MarkLegacy(p)
       \/ ClearOwn(p) \/ ClearLegacy(p) \/ ReadDead(p)
  \/ ReadDead("legacy") \/ Discard \/ EndLooks \/ EndWrites

SessionSpec == SessionInit /\ [][SessionNext]_sessionVars

SessionTypeOK ==
  /\ proc \in [Pids -> [kind: Kinds, life: Lives, at: MarkSteps, mark: 0..MaxMarks,
                        marked: BOOLEAN, prev: Files]]
  /\ own \in [Pids -> Files] /\ legacy \in Files
  /\ reader \in [at: ReaderAt, file: Pids \cup {"legacy"}, rec: Files]
  /\ ender \in [at: {"idle", "found"}, who: Launches] /\ accepted \subseteq Launches
-----------------------------------------------------------------------------
\* The records of one live process, and the newest of them.
RecordsOf(p) == {r \in Listed : r # NoFile /\ r.pid = p /\ Live(r)}
NewestOf(p)  == {r \in RecordsOf(p) : \A q \in RecordsOf(p) : q.mark <= r.mark}

\* Once a session is marked, every reader finds it on the seat it named last, whoever
\* prunes, links or replaces files meanwhile (session.py:219-228, 233-241).
SessionIsSeen ==
  \A p \in Pids : proc[p].marked =>
    \E r \in NewestOf(p) : r.mark = proc[p].mark

\* The session of an older engine stays listed when newer ones take the legacy file
\* (session.py:97-108).
OldSessionIsSeen == \A p \in Pids : proc[p].kind = "old" => RecordsOf(p) # {}

\* A pinned session is asked to end exactly if the user asked for that launch: a process id
\* that is used again inherits nothing, and an accepted request is not lost (session.py:311-317).
EndReachesItsLaunch ==
  \A p \in Pids : proc[p].marked =>
    (own[p].end <=> [pid |-> p, life |-> proc[p].life] \in accepted)
=============================================================================
