---------------------------- MODULE DaemonProcess ----------------------------
(***************************************************************************)
(* The daemon as a process (owlsentry-daemon/src/main.rs) with its         *)
(* configuration (owlsentry-common/src/config.rs) and the part of the IPC  *)
(* server that makes the socket (ipc_server.rs): it reads its files, spawns*)
(* its tasks, one of which makes the socket while the main task goes on,   *)
(* waits for a signal, and cleans up.  systemd starts it as a unit, starts *)
(* it again after a failure, and makes and removes its runtime directory;  *)
(* root may run further instances by hand.                                 *)
(*                                                                         *)
(* Simplifications: all instances have the same socket_path; a signal      *)
(* stands for SIGTERM and SIGINT; what the tasks do once they run is in    *)
(* the other modules.  An instance is a slot that is used again when its   *)
(* process has gone, so that restarts need no bound.                       *)
(***************************************************************************)
EXTENDS FiniteSets

CONSTANTS
  Unit,         \* the instance that is the systemd unit
  Hands,        \* the instances that may be run by hand
  ConfigFiles,  \* what owlsentry.conf may hold; see below
  RulesFiles,   \* what rules.toml may hold
  Absent,       \* in place of what a file holds: it does not exist,
  Broken        \* or cannot be read or is not TOML

Monitors == {"audit", "filesystem", "network", "process"}

(***************************************************************************)
(* A configuration, as far as validate and main look at it: the language,  *)
(* whether some path is relative, the numbers that are zero, and the       *)
(* monitors that are enabled.                                              *)
(***************************************************************************)
Numbers == {"recent_buffer", "port_scan_threshold", "network", "process",
            "audit", "debounce_secs"}

Config == [language: {"fr", "en", "other"}, relative: BOOLEAN,
           zero: SUBSET Numbers, enabled: SUBSET Monitors]

\* The rules, of which main itself looks at ignore_paths only.
RulesType == [ignore_paths: SUBSET {"log_dir", "other"}]

ASSUME ProcessAssumption ==
  /\ Unit \notin Hands
  /\ ConfigFiles \subseteq Config \cup {Absent, Broken}
  /\ RulesFiles \subseteq RulesType \cup {Absent, Broken}
  /\ {Absent, Broken} \cap (Config \cup RulesType) = {} /\ Absent # Broken

Processes == Hands \cup {Unit}

VARIABLES
  main,     \* per instance: the statement of main that comes next
  serve,    \* per instance: the step of IpcServer::serve that comes next
  code,     \* per instance: how its process ended
  check,    \* per instance: --check-config
  loaded,   \* per instance: the configuration and the rules it has loaded
  tasks,    \* per instance: what becomes of its monitors, and what one of them ignores
  note,     \* per instance: what went wrong with the clean-up
  alone,    \* per instance: nobody else made or removed the socket so far
  unit,     \* the unit's state in systemd
  dir,      \* the group of /run/owlsentry, or "none"; its mode is 0750
  sock      \* what is at socket_path

procVars == <<main, serve, code, check, loaded, tasks, note>>
vars == <<procVars, alone, unit, dir, sock>>

Nothing == [config |-> Absent, rules |-> Absent]
NoTasks == [monitors |-> "none", ignore_paths |-> {}]

(***************************************************************************)
(* What is at socket_path.                                                 *)
(*   is: "absent"; "live", a socket with its listener; or how the listener *)
(*     of a socket that is still there ended                               *)
(*   by, note: who made it, and the note of that process                   *)
(*   access: who may connect(2): nobody but root before the permissions    *)
(*     are set ("bound") or without the group ("root"), or the group       *)
(***************************************************************************)
NoSock == [is |-> "absent", by |-> Unit, access |-> "bound", note |-> "none"]

Running(p) == main[p] \notin {"none", "gone"}

\* The tasks of this instance may have made or removed a socket.
Serving(p) == Running(p) /\ serve[p] # "none"

Init ==
  /\ main = [p \in Processes |-> "none"]
  /\ serve = [p \in Processes |-> "none"]
  /\ code = [p \in Processes |-> "none"]
  /\ check = [p \in Processes |-> FALSE]
  /\ loaded = [p \in Processes |-> Nothing]
  /\ tasks = [p \in Processes |-> NoTasks]
  /\ note = [p \in Processes |-> "none"]
  /\ alone = [p \in Processes |-> TRUE]
  /\ unit = "inactive"
  /\ dir \in {"none", "root", "owlsentry"}
  /\ sock = NoSock

-----------------------------------------------------------------------------
(* The end of a process *)

\* The listener of p ends as told; a socket of its that is still at the path
\* stays there.
Left(s, p, how) ==
  IF s.is = "live" /\ s.by = p THEN [s EXCEPT !.is = how, !.note = note[p]] ELSE s

\* The process of p is no more.
Gone(p, how) ==
  /\ main' = [main EXCEPT ![p] = "gone"]
  /\ serve' = [serve EXCEPT ![p] = "none"]
  /\ code' = [code EXCEPT ![p] = how]
  /\ check' = [check EXCEPT ![p] = FALSE]
  /\ loaded' = [loaded EXCEPT ![p] = Nothing]
  /\ tasks' = [tasks EXCEPT ![p] = NoTasks]
  /\ note' = [note EXCEPT ![p] = "none"]
  /\ sock' = Left(sock, p, how)
  /\ UNCHANGED <<alone, dir>>

\* main returns: what is left to do is the end of the runtime.
Returns(p, result) ==
  /\ main' = [main EXCEPT ![p] = "exit"]
  /\ code' = [code EXCEPT ![p] = result]

\* kill -9, or the OOM killer.
Kill(p) == Running(p) /\ Gone(p, "killed") /\ UNCHANGED unit

-----------------------------------------------------------------------------
(* main *)

\* The slip of the intervals that are not looked at.
Valid_NoIntervals(config) ==
  /\ config.language \in {"fr", "en"}
  /\ ~config.relative
  /\ config.zero \cap {"recent_buffer", "port_scan_threshold"} = {}

\* DaemonConfig::validate.
Valid(config) ==
  /\ config.language \in {"fr", "en"}
  /\ ~config.relative
  /\ config.zero \cap (Numbers \ {"debounce_secs"}) = {}

DefaultConfig == [language |-> "fr", relative |-> FALSE, zero |-> {},
                  enabled |-> Monitors]
DefaultRules == [ignore_paths |-> {"log_dir"}]

\* owlsentry.conf is loaded and validated; without one the defaults are used.
LoadConfig(p) ==
  /\ main[p] = "load"
  /\ \E file \in ConfigFiles :
       IF file = Absent \/ (file # Broken /\ Valid(file))
       THEN /\ loaded' = [loaded EXCEPT ![p].config =
                 IF file = Absent THEN DefaultConfig ELSE file]
            /\ main' = [main EXCEPT ![p] = "rules"]
            /\ UNCHANGED code
       ELSE Returns(p, "error") /\ UNCHANGED loaded
  /\ UNCHANGED <<serve, check, tasks, note, alone, unit, dir, sock>>

\* The slip of a --check-config that only says so.
LoadRules_GoesOn(p) ==
  /\ main[p] = "rules"
  /\ \E file \in RulesFiles :
       IF file = Broken
       THEN Returns(p, "error") /\ UNCHANGED loaded
       ELSE /\ loaded' = [loaded EXCEPT ![p].rules =
                 IF file = Absent THEN DefaultRules ELSE file]
            /\ main' = [main EXCEPT ![p] = "log"]
            /\ UNCHANGED code
  /\ UNCHANGED <<serve, check, tasks, note, alone, unit, dir, sock>>

\* rules.toml is loaded, and nothing of it is checked.  With --check-config that
\* is all.
LoadRules(p) ==
  /\ main[p] = "rules"
  /\ \E file \in RulesFiles :
       IF file = Broken THEN Returns(p, "error") /\ UNCHANGED loaded
       ELSE IF check[p] THEN Returns(p, "ok") /\ UNCHANGED loaded
       ELSE /\ loaded' = [loaded EXCEPT ![p].rules =
                 IF file = Absent THEN DefaultRules ELSE file]
            /\ main' = [main EXCEPT ![p] = "log"]
            /\ UNCHANGED code
  /\ UNCHANGED <<serve, check, tasks, note, alone, unit, dir, sock>>

\* logging::init.
InitLogging(p) ==
  /\ main[p] = "log"
  /\ main' = [main EXCEPT ![p] = "spawn"]
  /\ UNCHANGED <<serve, code, check, loaded, tasks, note, alone, unit, dir, sock>>

\* The worst that sooner or later becomes of the monitors that are spawned.
\* tokio::time::interval panics on a period of zero, sleep does not.  run returns an
\* error, which its task logs, when the audit log cannot be opened or read or the
\* watcher cannot be made; the other two have none to return.  Nothing spawns a
\* monitor again.
Fates(config) ==
  IF {"network", "process"} \cap config.enabled \cap config.zero # {}
  THEN {"panicked"}
  ELSE {"running"}
         \cup (IF {"audit", "filesystem"} \cap config.enabled # {} THEN {"failed"} ELSE {})

\* Nobody else may make or remove a socket now: no instance whose tasks run, nor
\* the unit as long as systemd has not cleaned up after it.
Solitary(p) ==
  /\ p = Unit \/ unit \in {"inactive", "restarting"}
  /\ \A q \in Processes \ {p} : ~Serving(q)

\* The tasks are spawned: dispatcher, monitors, IPC server.  log_dir is added to
\* the paths that the file system monitor ignores.
SpawnTasks(p) ==
  /\ main[p] = "spawn"
  /\ main' = [main EXCEPT ![p] = "signals"]
  /\ serve' = [serve EXCEPT ![p] = "start"]
  /\ \E fate \in Fates(loaded[p].config) :
       tasks' = [tasks EXCEPT ![p] =
         [monitors |-> fate,
          ignore_paths |-> loaded[p].rules.ignore_paths \cup {"log_dir"}]]
  /\ loaded' = [loaded EXCEPT ![p] = Nothing]
  /\ alone' = [q \in Processes |-> q = p /\ Solitary(p)]
  /\ UNCHANGED <<code, check, note, unit, dir, sock>>

\* From here on a signal is an event that main waits for.
InstallSignals(p) ==
  /\ main[p] = "signals"
  /\ main' = [main EXCEPT ![p] = "wait"]
  /\ UNCHANGED <<serve, code, check, loaded, tasks, note, alone, unit, dir, sock>>

\* logging::init or signal() fails: main returns the error, without a clean-up.
StartFails(p) ==
  /\ main[p] \in {"log", "signals"}
  /\ Returns(p, "error")
  /\ UNCHANGED <<serve, check, loaded, tasks, note, alone, unit, dir, sock>>

\* A signal, of systemctl stop or of anybody.  Before the handlers are there it
\* ends the process on the spot; once main has left its select! it does nothing.
Term(p) ==
  /\ \/ main[p] \in {"load", "rules", "log", "spawn", "signals"} /\ Gone(p, "term")
     \/ /\ main[p] = "wait"
        /\ main' = [main EXCEPT ![p] = "abort"]
        /\ UNCHANGED <<serve, code, check, loaded, tasks, note, alone, dir, sock>>
  /\ IF p = Unit THEN unit' \in {unit, "stopping"} ELSE UNCHANGED unit

\* ipc_task.abort() ends the server's task where it awaits, and only there: the
\* steps from the directory to the permissions have no await between them.  The
\* listener of a server that awaits is dropped by a thread of the runtime some time
\* between here and the end of the process: here it goes with the socket or at Exit.
Abort(p) ==
  /\ main[p] = "abort"
  /\ main' = [main EXCEPT ![p] = "unlink"]
  /\ note' = [note EXCEPT ![p] =
       IF serve[p] \in {"unlink", "bind"} THEN "raced" ELSE @]
  /\ UNCHANGED <<serve, code, check, loaded, tasks, alone, unit, dir, sock>>

\* The slip of a return that leaves the socket to the next start.
RemoveSocket_LeftToNext(p) ==
  /\ main[p] = "unlink"
  /\ Returns(p, "ok")
  /\ UNCHANGED <<serve, check, loaded, tasks, note, alone, unit, dir, sock>>

\* remove_file(socket_path): whatever is at the path goes, whoever made it.
\* Another error than NotFound is logged.
RemoveSocket(p) ==
  /\ main[p] = "unlink"
  /\ Returns(p, "ok")
  /\ \/ sock' = NoSock /\ UNCHANGED note
     \/ note' = [note EXCEPT ![p] = "warned"] /\ UNCHANGED sock
  /\ UNCHANGED <<serve, check, loaded, tasks, alone, unit, dir>>

\* The slip of a clean-up at every return, in a guard's drop.
Exit_CleansUp(p) ==
  /\ main[p] = "exit" /\ serve[p] \notin {"unlink", "bind", "chmod"}
  /\ main' = [main EXCEPT ![p] = "gone"] /\ serve' = [serve EXCEPT ![p] = "none"]
  /\ sock' = NoSock
  /\ check' = [check EXCEPT ![p] = FALSE] /\ loaded' = [loaded EXCEPT ![p] = Nothing]
  /\ tasks' = [tasks EXCEPT ![p] = NoTasks] /\ note' = [note EXCEPT ![p] = "none"]
  /\ UNCHANGED <<code, alone, unit, dir>>

\* main has returned: the runtime waits until the task that is being polled
\* reaches an await, then drops all tasks, and the process ends.
Exit(p) ==
  /\ main[p] = "exit" /\ serve[p] \notin {"unlink", "bind", "chmod"}
  /\ Gone(p, code[p]) /\ UNCHANGED unit

-----------------------------------------------------------------------------
(* IpcServer::serve up to its loop *)

\* abort() was called: the task is not polled any more.
Aborted(p) == main[p] = "unlink" \/ (main[p] = "exit" /\ code[p] = "ok")

\* The next step of serve; the rest of the process is as it was.
Serve(p, next) ==
  /\ serve' = [serve EXCEPT ![p] = next]
  /\ UNCHANGED <<main, code, check, loaded, tasks, note, alone, unit>>

\* create_dir_all, and mode 0750, which leaves the group of a directory that
\* was there.
ServeDir(p) ==
  /\ serve[p] = "start" /\ ~Aborted(p)
  /\ dir' = IF dir = "none" THEN "root" ELSE dir
  /\ Serve(p, "unlink") /\ UNCHANGED sock

\* The slip of not removing the stale socket.
ServeUnlink_Keeps(p) ==
  /\ serve[p] = "unlink"
  /\ Serve(p, "bind") /\ UNCHANGED <<dir, sock>>

\* A socket of an earlier run is removed, or one of a run that goes on.
ServeUnlink(p) ==
  /\ serve[p] = "unlink"
  /\ sock' = NoSock
  /\ Serve(p, "bind") /\ UNCHANGED dir

\* bind: the path must be free, and the directory there.
ServeBind(p) ==
  /\ serve[p] = "bind"
  /\ IF dir # "none" /\ sock = NoSock
     THEN /\ sock' = [is |-> "live", by |-> p, access |-> "bound", note |-> "none"]
          /\ Serve(p, "chmod")
     ELSE Serve(p, "robbed") /\ UNCHANGED sock
  /\ UNCHANGED dir

\* apply_socket_permissions, of whatever is at the path: 0660 for the group if
\* there is one, else 0600.
ServeChmod(p) ==
  /\ serve[p] = "chmod"
  /\ IF sock # NoSock
     THEN /\ \E group \in {"owlsentry", "root"} : sock' = [sock EXCEPT !.access = group]
          /\ Serve(p, "accept")
     ELSE Serve(p, "robbed") /\ UNCHANGED sock
  /\ UNCHANGED dir

\* A call of serve fails for a reason of its own, accept among them.  serve
\* returns, main logs it, and nothing calls it again.
ServeFails(p) ==
  /\ serve[p] \in {"start", "unlink", "bind", "chmod", "accept"}
  /\ serve[p] = "start" => ~Aborted(p)
  /\ sock' = Left(sock, p, "failed")
  /\ Serve(p, "failed") /\ UNCHANGED dir

ServeSteps(p) == ServeDir(p) \/ ServeUnlink(p) \/ ServeBind(p) \/ ServeChmod(p)

-----------------------------------------------------------------------------
(* systemd and the administrator *)

\* fork and exec.
Begin(p, flag) ==
  /\ main' = [main EXCEPT ![p] = "load"]
  /\ code' = [code EXCEPT ![p] = "none"]
  /\ check' = [check EXCEPT ![p] = flag]
  /\ UNCHANGED <<serve, loaded, tasks, note, sock>>

\* systemctl start, or the restart five seconds after a failure: the runtime
\* directory is made first, and given to root.
UnitStart ==
  /\ unit \in {"inactive", "restarting"}
  /\ Begin(Unit, FALSE)
  /\ unit' = "active" /\ dir' = "root"
  /\ alone' = [p \in Processes |-> FALSE]

\* systemctl stop where the signal does nothing: no restart will follow.
UnitStop ==
  /\ \/ /\ unit = "active" /\ main[Unit] \in {"abort", "unlink", "exit", "gone"}
        /\ unit' = "stopping"
     \/ unit = "restarting" /\ unit' = "inactive"
  /\ UNCHANGED <<procVars, alone, dir, sock>>

\* The unit's process has ended: systemd removes the runtime directory and all
\* that is in it.  Restart=on-failure: an error or a kill, not a signal or a
\* return from main.
UnitReaped ==
  /\ unit \in {"active", "stopping"} /\ main[Unit] = "gone"
  /\ unit' = IF unit = "active" /\ code[Unit] \in {"error", "killed"}
             THEN "restarting" ELSE "inactive"
  /\ main' = [main EXCEPT ![Unit] = "none"]
  /\ dir' = "none" /\ sock' = NoSock
  /\ UNCHANGED <<serve, code, check, loaded, tasks, note, alone>>

HandStart(p) ==
  /\ p \in Hands /\ main[p] = "none"
  /\ \E flag \in BOOLEAN : Begin(p, flag)
  /\ UNCHANGED <<alone, unit, dir>>

HandReaped(p) ==
  /\ p \in Hands /\ main[p] = "gone"
  /\ main' = [main EXCEPT ![p] = "none"]
  /\ UNCHANGED <<serve, code, check, loaded, tasks, note, alone, unit, dir, sock>>

-----------------------------------------------------------------------------
(* The machine *)

MainSteps(p) ==
  \/ LoadConfig(p) \/ LoadRules(p) \/ InitLogging(p) \/ SpawnTasks(p)
  \/ InstallSignals(p) \/ Abort(p) \/ RemoveSocket(p) \/ Exit(p)

Next ==
  \/ \E p \in Processes :
       MainSteps(p) \/ ServeSteps(p) \/ StartFails(p) \/ ServeFails(p)
         \/ Term(p) \/ Kill(p) \/ HandStart(p) \/ HandReaped(p)
  \/ UnitStart \/ UnitStop \/ UnitReaped

Spec == Init /\ [][Next]_vars

\* The threads of a process run, and systemd does what it is told to; nobody is
\* obliged to start or to stop anything.
FairSpec ==
  /\ Spec
  /\ \A p \in Processes : WF_vars(MainSteps(p)) /\ WF_vars(ServeSteps(p))
  /\ WF_vars(UnitReaped) /\ WF_vars(unit = "restarting" /\ UnitStart)

-----------------------------------------------------------------------------
(* What the process promises *)

MainStep == {"none", "load", "rules", "log", "spawn", "signals", "wait", "abort",
             "unlink", "exit", "gone"}
ServeStep == {"none", "start", "unlink", "bind", "chmod", "accept", "robbed", "failed"}
End == {"none", "ok", "error", "killed", "term"}
NoteType == {"none", "raced", "warned"}

\* The invariant of types.  It also says when there are tasks, that an instance
\* that only checks never has any, and that systemd knows whether it has a process.
DaemonTypeOK ==
  /\ main \in [Processes -> MainStep] /\ serve \in [Processes -> ServeStep]
  /\ code \in [Processes -> End] /\ check \in [Processes -> BOOLEAN]
  /\ loaded \in [Processes -> [config: Config \cup {Absent},
                                rules: RulesType \cup {Absent}]]
  /\ tasks \in [Processes -> [monitors: {"none", "running", "failed", "panicked"},
                               ignore_paths: SUBSET {"log_dir", "other"}]]
  /\ note \in [Processes -> NoteType] /\ alone \in [Processes -> BOOLEAN]
  /\ unit \in {"inactive", "active", "stopping", "restarting"}
  /\ dir \in {"none", "root", "owlsentry"}
  /\ sock \in [is: {"absent", "live", "failed"} \cup End, by: Processes,
                access: {"bound", "root", "owlsentry"}, note: NoteType]
  /\ \A p \in Processes :
       /\ main[p] \in {"rules", "log", "spawn"} => loaded[p].config \in Config
       /\ main[p] \in {"log", "spawn"} => loaded[p].rules \in RulesType /\ ~check[p]
       /\ serve[p] # "none" =>
            main[p] \in {"signals", "wait", "abort", "unlink", "exit"} /\ ~check[p]
  /\ main[Unit] = "none" <=> unit \in {"inactive", "restarting"}

\* Whatever the two files hold, no monitor panics: validate knows every number that
\* would make it do so, and nothing between validate and the timers looks at them
\* again.  A monitor may still end with an error, which main logs and leaves at that.
NoMonitorPanics == \A p \in Processes : tasks[p].monitors # "panicked"

Listening(p) == serve[p] \in {"chmod", "accept"}

\* A socket is at the path either with its listener or for a reason: its process
\* was killed, got a signal before it had its handlers, returned an error, or has
\* lost its server; a process that was stopped in good order leaves one only if
\* the stop came in the middle of the making of it, or it was told of the failure
\* to remove it.
StaleExplained ==
  /\ sock.is = "live" => Listening(sock.by)
  /\ sock.is = "ok" => sock.note # "none"

\* An instance that listens and was not told to stop is the one that clients who
\* connect reach, whatever crashed instances have left behind and whoever runs
\* --check-config beside it, provided no other instance made or removed the
\* socket meanwhile (a second daemon takes the path, and its stop removes it).
ReachableAlone ==
  \A p \in Processes :
    Listening(p) /\ ~Aborted(p) /\ alone[p] => sock.is = "live" /\ sock.by = p

\* What may go wrong from outside.
Disturbance ==
  \E p \in Processes :
    StartFails(p) \/ ServeFails(p) \/ Term(p) \/ Kill(p) \/ HandStart(p)
      \/ (main[p] \in {"load", "rules"} /\ code'[p] = "error")

\* Once disturbances stop, the unit that nobody has stopped comes back and can be
\* reached for good, whatever state the crashes before left files and processes
\* in: but for a server whose calls have failed, which nothing starts again, and
\* for one that another instance has met.
ComesBack ==
  (<>[][~Disturbance]_vars /\ <>[](unit # "inactive")) =>
    <>[](\/ serve[Unit] = "accept" /\ sock.is = "live" /\ sock.by = Unit
         \/ serve[Unit] = "failed" \/ ~alone[Unit])
=============================================================================
