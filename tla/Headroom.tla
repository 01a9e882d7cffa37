------------------------------ MODULE Headroom ------------------------------
(***************************************************************************)
(* The one-time removal of the retired Headroom feature (headroom.py).  An *)
(* older build pointed the tools at a local proxy: it saved the user's own *)
(* values, wrote its routing into their files and started the proxy from a *)
(* private venv.  The removal undoes the routing by merging, and takes the *)
(* proxy, the saved values and the venv away once every file is known to be*)
(* clean; it may be cut short anywhere and is run again at the next launch.*)
(* The older build may still be running: it is external and holds the same *)
(* operation lock.  Only what routing overwrote is modelled of a file.     *)
(***************************************************************************)
EXTENDS Integers

VARIABLES
  config,    \* the routed files: what they hold, and whether they can be read and parsed
  backup,    \* the user's own values, headroom-global-backup
  venv,      \* hr-venv and the leftovers beside it
  pidOfProxy,\* headroom-proxy.pid: "none", "good", or "bad" when it holds no number
  proxy,     \* the proxy: never there, up, dead, or stopped by the removal
  hr,        \* the removal under way
  old,       \* the older build's enabling under way
  missed     \* history: files the two scans passed though they were routed

headroomVars == <<config, backup, venv, pidOfProxy, proxy, hr, old, missed>>

\* config.toml, settings.json and settings.local.json, in the order they are unrouted.
Touched == 1..3

\* unseen: what the first scan could not read.
HrSteps == {"idle", "unroute", "scan", "rescan", "stop", "backup", "venv"}
HrIdle  == [at |-> "idle", next |-> 1, unseen |-> {}, gone |-> FALSE]
Off     == 0

\* "bare": the routing is gone and so is what it overwrote.
Texts == {"user", "routed", "bare"}

HeadroomInit ==
  /\ config = [f \in Touched |-> [text |-> "user", readable |-> TRUE]]
  /\ backup = FALSE /\ venv = FALSE
  /\ pidOfProxy = "none" /\ proxy = "none"
  /\ hr = HrIdle /\ old = Off /\ missed = {}

Injected(f)  == config[f].readable /\ config[f].text = "routed"
Unknown(f)   == ~config[f].readable
AnyInjected  == \E f \in Touched : Injected(f)
LegacyPresent == backup \/ AnyInjected \/ pidOfProxy # "none" \/ venv

-----------------------------------------------------------------------------
(* The older build enables the feature under the operation lock; it may die at any step. *)
(* A proxy that is missing when it begins is its own to start.                              *)

OldBegins ==
  /\ hr.at = "idle" /\ old = Off
  /\ old' = 1 /\ backup' = TRUE /\ venv' = TRUE
  /\ proxy' = IF proxy = "stopped" THEN "dead" ELSE proxy
  /\ UNCHANGED <<config, pidOfProxy, hr, missed>>
OldRoutes ==
  /\ old \in Touched
  /\ config' = IF config[old].readable THEN [config EXCEPT ![old].text = "routed"] ELSE config
  /\ old' = old + 1
  /\ UNCHANGED <<backup, venv, pidOfProxy, proxy, hr, missed>>
\* The process id is not written atomically.
OldStartsProxy(id) ==
  /\ old = 4 /\ proxy # "up"
  /\ proxy' = "up" /\ pidOfProxy' = id /\ old' = Off
  /\ UNCHANGED <<config, backup, venv, hr, missed>>
OldEnds ==
  /\ old # Off /\ old' = Off
  /\ UNCHANGED <<config, backup, venv, pidOfProxy, proxy, hr, missed>>

\* The proxy dies; its process id may pass to anything else.
ProxyDies ==
  /\ proxy = "up" /\ proxy' = "dead"
  /\ UNCHANGED <<config, backup, venv, pidOfProxy, hr, old, missed>>

\* The user makes a file unreadable, or readable again, or sets values of his own.
UserHides(f) ==
  /\ config' = [config EXCEPT ![f].readable = ~@]
  /\ UNCHANGED <<backup, venv, pidOfProxy, proxy, hr, old, missed>>
UserEdits(f) ==
  /\ config[f].readable /\ config' = [config EXCEPT ![f].text = "user"]
  /\ UNCHANGED <<backup, venv, pidOfProxy, proxy, hr, old, missed>>

-----------------------------------------------------------------------------
(* cleanup_legacy(): at every launch while anything is left. *)

Step(to) == hr' = [hr EXCEPT !.at = to]

\* The files are taken one by one; after the last the next step begins.
Onward(to) == IF hr.next = 3 THEN [hr EXCEPT !.at = to, !.next = 1] ELSE [hr EXCEPT !.next = @ + 1]

\* The lock is not waited for: a launch that does not get it goes on without the removal.
CleanupBegins ==
  /\ hr.at = "idle" /\ old = Off /\ LegacyPresent
  /\ hr' = [HrIdle EXCEPT !.at = IF AnyInjected THEN "unroute" ELSE "scan"]
  /\ UNCHANGED <<config, backup, venv, pidOfProxy, proxy, old, missed>>

\* A mutant: one file too many is looked for.
UnroutesOneMore ==
  LET f == hr.next
  IN /\ hr.at = "unroute"
     /\ config' = IF ~Injected(f) THEN config
                  ELSE [config EXCEPT ![f].text = IF backup THEN "user" ELSE "bare"]
     /\ hr' = IF f > 3 THEN [hr EXCEPT !.at = "scan"] ELSE [hr EXCEPT !.next = f + 1]
     /\ UNCHANGED <<backup, venv, pidOfProxy, proxy, old, missed>>

\* A file that cannot be read is skipped; a value the user set since is his.
Unroutes ==
  LET f == hr.next
  IN /\ hr.at = "unroute"
     /\ config' = IF ~Injected(f) THEN config
                  ELSE [config EXCEPT ![f].text = IF backup THEN "user" ELSE "bare"]
     /\ hr' = Onward("scan")
     /\ UNCHANGED <<backup, venv, pidOfProxy, proxy, old, missed>>

\* _any_injected(): a file that cannot be read has nothing of ours.
Scans ==
  LET f == hr.next
  IN /\ hr.at = "scan"
     /\ hr' = IF Injected(f) THEN HrIdle
              ELSE [Onward("rescan") EXCEPT !.unseen = IF Unknown(f) THEN @ \cup {f} ELSE @]
     /\ UNCHANGED <<config, backup, venv, pidOfProxy, proxy, old, missed>>

\* A mutant: a file that cannot be read counts as clean.
RescansReadable ==
  LET f      == hr.next
      passed == IF Injected(f) THEN hr.unseen ELSE hr.unseen \ {f}
  IN /\ hr.at = "rescan"
     /\ hr' = [Onward("stop") EXCEPT !.unseen = IF f = 3 THEN {} ELSE passed]
     /\ missed' = IF f = 3 THEN missed \cup passed ELSE missed
     /\ UNCHANGED <<config, backup, venv, pidOfProxy, proxy, old>>

\* _any_unknown() reads every file again, and asks only whether it can be read.
Rescans ==
  LET f      == hr.next
      passed == IF Injected(f) THEN hr.unseen ELSE hr.unseen \ {f}
  IN /\ hr.at = "rescan"
     /\ IF Unknown(f) THEN hr' = HrIdle /\ UNCHANGED missed
        ELSE /\ hr' = [Onward("stop") EXCEPT !.unseen = IF f = 3 THEN {} ELSE passed]
             /\ missed' = IF f = 3 THEN missed \cup passed ELSE missed
     /\ UNCHANGED <<config, backup, venv, pidOfProxy, proxy, old>>

\* stop_proxy(): nothing is known of a file without a number, nor of a process ps is silent
\* about, and a proxy may survive both signals.
StopKeeps ==
  /\ hr.at = "stop" /\ pidOfProxy # "none"
  /\ hr' = [hr EXCEPT !.at = "backup", !.gone = FALSE]
  /\ UNCHANGED <<config, backup, venv, pidOfProxy, proxy, old, missed>>
StopForgets ==
  /\ hr.at = "stop" /\ pidOfProxy # "bad" /\ (pidOfProxy = "good" => proxy # "up")
  /\ pidOfProxy' = "none"
  /\ hr' = [hr EXCEPT !.at = "backup", !.gone = TRUE]
  /\ UNCHANGED <<config, backup, venv, proxy, old, missed>>
StopKills ==
  /\ hr.at = "stop" /\ pidOfProxy = "good" /\ proxy = "up"
  /\ proxy' = "stopped"
  /\ UNCHANGED <<config, backup, venv, pidOfProxy, hr, old, missed>>

RemovesBackup ==
  /\ hr.at = "backup" /\ backup' = FALSE
  /\ IF hr.gone THEN Step("venv") ELSE hr' = HrIdle
  /\ UNCHANGED <<config, venv, pidOfProxy, proxy, old, missed>>
RemovesVenv ==
  /\ hr.at = "venv" /\ venv' = FALSE /\ hr' = HrIdle
  /\ UNCHANGED <<config, backup, pidOfProxy, proxy, old, missed>>

\* An exception defers the rest, and so does the end of the process.
CleanupEnds ==
  /\ hr.at # "idle" /\ hr' = HrIdle
  /\ UNCHANGED <<config, backup, venv, pidOfProxy, proxy, old, missed>>

-----------------------------------------------------------------------------
HeadroomNext ==
  \/ OldBegins \/ OldRoutes \/ OldEnds \/ ProxyDies
  \/ \E id \in {"good", "bad"} : OldStartsProxy(id)
  \/ \E f \in Touched : UserHides(f) \/ UserEdits(f)
  \/ CleanupBegins \/ Unroutes \/ Scans \/ Rescans \/ StopKeeps \/ StopForgets \/ StopKills
  \/ RemovesBackup \/ RemovesVenv \/ CleanupEnds

HeadroomSpec == HeadroomInit /\ [][HeadroomNext]_headroomVars

HeadroomTypeOK ==
  /\ config \in [Touched -> [text: Texts, readable: BOOLEAN]]
  /\ backup \in BOOLEAN /\ venv \in BOOLEAN
  /\ pidOfProxy \in {"none", "good", "bad"} /\ proxy \in {"none", "up", "dead", "stopped"}
  /\ hr \in [at: HrSteps, next: Touched, unseen: SUBSET Touched, gone: BOOLEAN]
  /\ old \in 0..4 /\ missed \subseteq Touched

-----------------------------------------------------------------------------
\* However often the removal is cut short: what routing overwrote comes back, and no file points
\* at a proxy the removal stopped, save a file that could not be read at the first scan and
\* could at the second; no proxy runs from a venv that is gone (headroom.py:602-633).
RemovalIsSafe ==
  /\ \A f \in Touched \ missed : config[f].text # "bare"
  /\ (\E f \in Touched \ missed : config[f].text = "routed") => proxy # "stopped" /\ backup
  /\ proxy = "up" => venv
=============================================================================
