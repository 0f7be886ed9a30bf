------------------------- MODULE DaemonProcessProofs -------------------------
(***************************************************************************)
(* Theorems about the daemon as a process, for every set of instances run  *)
(* by hand and whatever the files hold.                                    *)
(***************************************************************************)
EXTENDS DaemonProcess, TLAPS

-----------------------------------------------------------------------------
(* Types *)

\* The types of DaemonTypeOK by what the variables belong to: the control of a
\* process, its data, and the machine.
ControlType ==
  /\ main \in [Processes -> MainStep] /\ serve \in [Processes -> ServeStep]
  /\ code \in [Processes -> End] /\ check \in [Processes -> BOOLEAN]
  /\ note \in [Processes -> NoteType] /\ alone \in [Processes -> BOOLEAN]

Loaded == [config: Config \cup {Absent}, rules: RulesType \cup {Absent}]
Spawned == [monitors: {"none", "running", "failed", "panicked"},
            ignore_paths: SUBSET {"log_dir", "other"}]
DataType == loaded \in [Processes -> Loaded] /\ tasks \in [Processes -> Spawned]

SockType == [is: {"absent", "live", "failed"} \cup End, by: Processes,
             access: {"bound", "root", "owlsentry"}, note: NoteType]
MachineType ==
  /\ unit \in {"inactive", "active", "stopping", "restarting"}
  /\ dir \in {"none", "root", "owlsentry"}
  /\ sock \in SockType

\* Where in main there are a configuration, rules and tasks.
Phases ==
  \A p \in Processes :
    /\ main[p] \in {"rules", "log", "spawn"} => loaded[p].config \in Config
    /\ main[p] \in {"log", "spawn"} => loaded[p].rules \in RulesType /\ ~check[p]
    /\ serve[p] # "none" =>
         main[p] \in {"signals", "wait", "abort", "unlink", "exit"} /\ ~check[p]
UnitKnows == main[Unit] = "none" <=> unit \in {"inactive", "restarting"}

\* The parts make up the invariant, before a step and after it.
LEMMA TypeParts ==
  /\ DaemonTypeOK <=> ControlType /\ DataType /\ MachineType /\ Phases /\ UnitKnows
  /\ DaemonTypeOK' <=>
       ControlType' /\ DataType' /\ MachineType' /\ Phases' /\ UnitKnows'
BY DEF DaemonTypeOK, ControlType, DataType, MachineType, Phases, UnitKnows,
       Loaded, Spawned, SockType

\* The default configuration and rules are of their types, and valid.
LEMMA Defaults ==
  /\ DefaultConfig \in Config /\ Valid(DefaultConfig)
  /\ DefaultRules \in RulesType
BY DEF DefaultConfig, DefaultRules, Config, RulesType, Valid

\* What LoadConfig can load.
LEMMA LoadedConfig ==
  ASSUME NEW file \in ConfigFiles,
         file = Absent \/ (file # Broken /\ Valid(file))
  PROVE  LET config == IF file = Absent THEN DefaultConfig ELSE file
         IN  config \in Config /\ Valid(config)
BY Defaults, ProcessAssumption

\* What LoadRules can load.
LEMMA LoadedRules ==
  ASSUME NEW file \in RulesFiles, file # Broken
  PROVE  (IF file = Absent THEN DefaultRules ELSE file) \in RulesType
BY Defaults, ProcessAssumption

\* A process that has nothing loaded and no tasks.
LEMMA EmptyTypes == Nothing \in Loaded /\ NoTasks \in Spawned /\ NoSock \in SockType
BY DEF Nothing, Loaded, NoTasks, Spawned, NoSock, SockType, End, NoteType, Processes

\* The tasks that SpawnTasks makes.
LEMMA SpawnedType ==
  ASSUME NEW l \in Loaded, l.rules \in RulesType, NEW fate \in Fates(l.config)
  PROVE  [monitors |-> fate,
          ignore_paths |-> l.rules.ignore_paths \cup {"log_dir"}] \in Spawned
<1>1. fate \in {"running", "failed", "panicked"}
  BY DEF Fates
<1>2. l.rules.ignore_paths \cup {"log_dir"} \in SUBSET {"log_dir", "other"}
  BY DEF RulesType
<1>3. QED  BY <1>1, <1>2 DEF Spawned

\* The end of a listener keeps the type of the socket.
LEMMA LeftType ==
  ASSUME NEW s \in SockType, NEW p, NEW how \in End \cup {"failed"},
         note[p] \in NoteType
  PROVE  Left(s, p, how) \in SockType
BY DEF Left, SockType

\* The end of a process keeps the types.
LEMMA GoneTypes ==
  ASSUME DaemonTypeOK, NEW p \in Processes, NEW how \in End, Gone(p, how)
  PROVE  /\ ControlType' /\ DataType' /\ Phases' /\ sock' \in SockType
         /\ dir' = dir /\ (main'[Unit] = "none" <=> p # Unit /\ main[Unit] = "none")
<1>1. ControlType'
  BY TypeParts DEF Gone, ControlType, MainStep, ServeStep, NoteType
<1>2. DataType'
  BY TypeParts, EmptyTypes DEF Gone, DataType
<1>3. Phases'
  BY TypeParts DEF Gone, Phases, ControlType, DataType
<1>4. sock' \in SockType
  <2>1. note[p] \in NoteType /\ sock \in SockType /\ sock' = Left(sock, p, how)
    BY TypeParts DEF Gone, ControlType, MachineType
  <2>2. QED  BY <2>1, LeftType
<1>5. main'[Unit] = "none" <=> p # Unit /\ main[Unit] = "none"
  BY TypeParts DEF Gone, ControlType, Processes
<1>6. QED  BY <1>1, <1>2, <1>3, <1>4, <1>5 DEF Gone

\* A return from main keeps the types.
LEMMA ReturnsTypes ==
  ASSUME DaemonTypeOK, NEW p \in Processes, NEW result \in {"ok", "error"},
         Returns(p, result), main[p] # "none",
         UNCHANGED <<serve, check, loaded, tasks, alone, unit, dir>>,
         note' \in [Processes -> NoteType], sock' \in SockType
  PROVE  DaemonTypeOK'
<1>1. ControlType'
  BY TypeParts DEF Returns, ControlType, MainStep, End
<1>2. DataType' /\ MachineType'
  BY TypeParts DEF DataType, MachineType
<1>3. Phases' /\ UnitKnows'
  BY TypeParts DEF Returns, Phases, UnitKnows, ControlType, DataType, Processes
<1>4. QED  BY <1>1, <1>2, <1>3, TypeParts

\* The steps of main keep the types.
LEMMA MainTypes ==
  ASSUME DaemonTypeOK, NEW p \in Processes, MainSteps(p)
  PROVE  DaemonTypeOK'
<1> USE TypeParts
<1>1. CASE LoadConfig(p)
  <2>1. PICK file \in ConfigFiles :
          IF file = Absent \/ (file # Broken /\ Valid(file))
          THEN /\ loaded' = [loaded EXCEPT ![p].config =
                    IF file = Absent THEN DefaultConfig ELSE file]
               /\ main' = [main EXCEPT ![p] = "rules"]
               /\ UNCHANGED code
          ELSE Returns(p, "error") /\ UNCHANGED loaded
    BY <1>1 DEF LoadConfig
  <2>2. CASE file = Absent \/ (file # Broken /\ Valid(file))
    <3>1. PICK config \in Config : loaded' = [loaded EXCEPT ![p].config = config]
      BY <2>1, <2>2, LoadedConfig
    <3>2. ControlType'
      BY <1>1, <2>1, <2>2 DEF LoadConfig, ControlType, MainStep
    <3>3. DataType' /\ MachineType'
      BY <1>1, <3>1 DEF LoadConfig, DataType, MachineType, Loaded
    <3>4. Phases'
      BY <1>1, <2>1, <2>2, <3>1 DEF LoadConfig, Phases, ControlType, DataType, Loaded
    <3>5. UnitKnows'
      BY <1>1, <2>1, <2>2 DEF LoadConfig, UnitKnows, ControlType, Processes
    <3>6. QED  BY <3>2, <3>3, <3>4, <3>5
  <2>3. CASE ~(file = Absent \/ (file # Broken /\ Valid(file)))
    BY <1>1, <2>1, <2>3, ReturnsTypes DEF LoadConfig, ControlType, MachineType
  <2>4. QED  BY <2>2, <2>3
<1>2. CASE LoadRules(p)
  <2>1. PICK file \in RulesFiles :
          IF file = Broken THEN Returns(p, "error") /\ UNCHANGED loaded
          ELSE IF check[p] THEN Returns(p, "ok") /\ UNCHANGED loaded
          ELSE /\ loaded' = [loaded EXCEPT ![p].rules =
                    IF file = Absent THEN DefaultRules ELSE file]
               /\ main' = [main EXCEPT ![p] = "log"]
               /\ UNCHANGED code
    BY <1>2 DEF LoadRules
  <2>2. CASE file = Broken \/ check[p]
    BY <1>2, <2>1, <2>2, ReturnsTypes DEF LoadRules, ControlType, MachineType
  <2>3. CASE file # Broken /\ ~check[p]
    <3>1. PICK rules \in RulesType : loaded' = [loaded EXCEPT ![p].rules = rules]
      BY <2>1, <2>3, LoadedRules
    <3>2. ControlType'
      BY <1>2, <2>1, <2>3 DEF LoadRules, ControlType, MainStep
    <3>3. DataType' /\ MachineType'
      BY <1>2, <3>1 DEF LoadRules, DataType, MachineType, Loaded
    <3>4. Phases'
      BY <1>2, <2>1, <2>3, <3>1 DEF LoadRules, Phases, ControlType, DataType, Loaded
    <3>5. UnitKnows'
      BY <1>2, <2>1, <2>3 DEF LoadRules, UnitKnows, ControlType, Processes
    <3>6. QED  BY <3>2, <3>3, <3>4, <3>5
  <2>4. QED  BY <2>2, <2>3
<1>3. CASE InitLogging(p)
  BY <1>3 DEF InitLogging, ControlType, DataType, MachineType, Phases, UnitKnows,
              MainStep, Processes
<1>4. CASE SpawnTasks(p)
  <2>1. ControlType'
    BY <1>4 DEF SpawnTasks, ControlType, MainStep, ServeStep
  <2>2. loaded[p] \in Loaded /\ loaded[p].rules \in RulesType
    BY <1>4 DEF SpawnTasks, Phases, DataType
  <2>3. DataType'
    BY <1>4, <2>2, SpawnedType, EmptyTypes DEF SpawnTasks, DataType
  <2>4. Phases'
    BY <1>4 DEF SpawnTasks, Phases, ControlType, DataType
  <2>5. MachineType' /\ UnitKnows'
    BY <1>4 DEF SpawnTasks, MachineType, UnitKnows, ControlType, Processes
  <2>6. QED  BY <2>1, <2>3, <2>4, <2>5
<1>5. CASE InstallSignals(p)
  BY <1>5 DEF InstallSignals, ControlType, DataType, MachineType, Phases, UnitKnows,
              MainStep, Processes
<1>6. CASE Abort(p)
  BY <1>6 DEF Abort, ControlType, DataType, MachineType, Phases, UnitKnows,
              MainStep, NoteType, Processes
<1>7. CASE RemoveSocket(p)
  <2>1. sock' \in SockType /\ note' \in [Processes -> NoteType]
    BY <1>7, EmptyTypes DEF RemoveSocket, ControlType, MachineType, NoteType
  <2>2. QED  BY <1>7, <2>1, ReturnsTypes DEF RemoveSocket
<1>8. CASE Exit(p)
  <2>1. code[p] \in End /\ Gone(p, code[p]) /\ UNCHANGED unit /\ main[p] # "none"
    BY <1>8 DEF Exit, ControlType
  <2>2. QED  BY <2>1, GoneTypes DEF MachineType, UnitKnows
<1>9. QED  BY <1>1, <1>2, <1>3, <1>4, <1>5, <1>6, <1>7, <1>8 DEF MainSteps

\* The steps of serve, and its failure, keep the types.
LEMMA ServeTypes ==
  ASSUME DaemonTypeOK, NEW p \in Processes, ServeSteps(p) \/ ServeFails(p)
  PROVE  DaemonTypeOK'
<1> USE TypeParts
<1>1. PICK next \in ServeStep \ {"none"} : serve[p] # "none" /\ Serve(p, next)
  BY DEF ServeSteps, ServeDir, ServeUnlink, ServeBind, ServeChmod, ServeFails, ServeStep
<1>2. ControlType' /\ DataType' /\ Phases' /\ UnitKnows'
  BY <1>1 DEF Serve, ControlType, DataType, Phases, UnitKnows, ServeStep
<1>3. sock' \in SockType
  <2>1. CASE ServeDir(p)
    BY <2>1 DEF ServeDir, MachineType
  <2>2. CASE ServeUnlink(p)
    BY <2>2, EmptyTypes DEF ServeUnlink
  <2>3. CASE ServeBind(p)
    BY <2>3 DEF ServeBind, MachineType, SockType, NoteType
  <2>4. CASE ServeChmod(p)
    BY <2>4 DEF ServeChmod, MachineType, SockType
  <2>5. CASE ServeFails(p)
    BY <2>5, LeftType DEF ServeFails, MachineType, ControlType
  <2>6. QED  BY <2>1, <2>2, <2>3, <2>4, <2>5 DEF ServeSteps
<1>4. dir' \in {"none", "root", "owlsentry"} /\ unit' = unit
  BY DEF ServeSteps, ServeDir, ServeUnlink, ServeBind, ServeChmod, ServeFails, Serve,
         MachineType
<1>5. QED  BY <1>2, <1>3, <1>4 DEF MachineType

\* Signals, kills and failures keep the types.
LEMMA FaultTypes ==
  ASSUME DaemonTypeOK, NEW p \in Processes, StartFails(p) \/ Term(p) \/ Kill(p)
  PROVE  DaemonTypeOK'
<1> USE TypeParts
<1>1. CASE StartFails(p)
  BY <1>1, ReturnsTypes DEF StartFails, ControlType, MachineType
<1>2. CASE Kill(p)
  BY <1>2, GoneTypes DEF Kill, Running, MachineType, UnitKnows, End
<1>3. CASE Term(p)
  <2>1. unit' \in {unit, "stopping"} /\ (p # Unit => unit' = unit)
    BY <1>3 DEF Term
  <2>2. main[p] # "none"
    BY <1>3 DEF Term
  <2>3. CASE Gone(p, "term")
    BY <2>1, <2>2, <2>3, GoneTypes DEF MachineType, UnitKnows, End
  <2>4. CASE /\ main[p] = "wait"
             /\ main' = [main EXCEPT ![p] = "abort"]
             /\ UNCHANGED <<serve, code, check, loaded, tasks, note, alone, dir, sock>>
    BY <2>1, <2>4 DEF ControlType, DataType, MachineType, Phases, UnitKnows, MainStep,
                      Processes
  <2>5. QED  BY <1>3, <2>3, <2>4 DEF Term
<1>4. QED  BY <1>1, <1>2, <1>3

\* systemd's steps and the administrator's keep the types.
LEMMA OutsideTypes ==
  ASSUME DaemonTypeOK,
         \/ \E p \in Processes : HandStart(p) \/ HandReaped(p)
         \/ UnitStart \/ UnitStop \/ UnitReaped
  PROVE  DaemonTypeOK'
<1> USE TypeParts, ProcessAssumption
<1>1. ASSUME NEW p \in Processes, HandStart(p) PROVE DaemonTypeOK'
  <2>1. PICK flag \in BOOLEAN : Begin(p, flag)
    BY <1>1 DEF HandStart
  <2>2. main[p] = "none" /\ p # Unit /\ UNCHANGED <<alone, unit, dir>>
    BY <1>1 DEF HandStart
  <2>3. ControlType' /\ DataType' /\ MachineType'
    BY <2>1, <2>2 DEF Begin, ControlType, DataType, MachineType, MainStep, End
  <2>4. Phases' /\ UnitKnows'
    BY <2>1, <2>2 DEF Begin, Phases, UnitKnows, ControlType, Processes
  <2>5. QED  BY <2>3, <2>4
<1>2. ASSUME NEW p \in Processes, HandReaped(p) PROVE DaemonTypeOK'
  BY <1>2 DEF HandReaped, ControlType, DataType, MachineType, Phases, UnitKnows,
              MainStep, Processes
<1>3. CASE UnitStart
  <2>1. ControlType' /\ DataType' /\ MachineType'
    BY <1>3 DEF UnitStart, Begin, ControlType, DataType, MachineType, MainStep, End
  <2>2. Phases' /\ UnitKnows'
    BY <1>3 DEF UnitStart, Begin, Phases, UnitKnows, ControlType, Processes
  <2>3. QED  BY <2>1, <2>2
<1>4. CASE UnitStop
  BY <1>4 DEF UnitStop, procVars, ControlType, DataType, MachineType, Phases, UnitKnows
<1>5. CASE UnitReaped
  <2>1. ControlType' /\ DataType' /\ MachineType'
    BY <1>5, EmptyTypes DEF UnitReaped, ControlType, DataType, MachineType, MainStep
  <2>2. Phases' /\ UnitKnows'
    BY <1>5 DEF UnitReaped, Phases, UnitKnows, ControlType, Processes
  <2>3. QED  BY <2>1, <2>2
<1>6. QED  BY <1>1, <1>2, <1>3, <1>4, <1>5

\* The initial state has the types.
LEMMA InitTypes == Init => DaemonTypeOK
BY TypeParts, EmptyTypes
   DEF Init, ControlType, DataType, MachineType, Phases, UnitKnows, MainStep,
       ServeStep, End, NoteType, Processes

\* Every step keeps the types.
LEMMA StepTypes == DaemonTypeOK /\ [Next]_vars => DaemonTypeOK'
<1> SUFFICES ASSUME DaemonTypeOK, [Next]_vars PROVE DaemonTypeOK'
  OBVIOUS
<1>1. CASE UNCHANGED vars
  BY <1>1, TypeParts DEF vars, procVars, ControlType, DataType, MachineType, Phases,
                         UnitKnows
<1>2. CASE Next
  BY <1>2, MainTypes, ServeTypes, FaultTypes, OutsideTypes DEF Next
<1>3. QED  BY <1>1, <1>2

\* Every variable keeps its type; tasks are there from their spawning to the end of
\* the process and never in one that only checks its files, and systemd's state of
\* the unit agrees with its process.
THEOREM TypeCorrect == Spec => []DaemonTypeOK
BY InitTypes, StepTypes, PTL DEF Spec
-----------------------------------------------------------------------------
(* No monitor panics *)

\* What main has loaded and will hand to the tasks is valid.
LoadedValid ==
  \A p \in Processes :
    main[p] \in {"rules", "log", "spawn"} => Valid(loaded[p].config)
SoundInv == LoadedValid /\ NoMonitorPanics

\* With a valid configuration no monitor panics.
LEMMA ValidRuns ==
  ASSUME NEW config \in Config, Valid(config)
  PROVE  "panicked" \notin Fates(config)
BY DEF Fates, Valid, Numbers

\* A step that loads and spawns nothing: what is loaded and running stays, or goes
\* with its process.
SpawnsNothing ==
  \A p \in Processes :
    /\ tasks'[p] = tasks[p] \/ tasks'[p] = NoTasks
    /\ main'[p] \in {"rules", "log", "spawn"} =>
         main[p] \in {"rules", "log", "spawn"} /\ loaded'[p].config = loaded[p].config

\* Such a step keeps the invariant.
LEMMA SpawnsNothingSound == SoundInv /\ SpawnsNothing => SoundInv'
<1> SUFFICES ASSUME SoundInv, SpawnsNothing PROVE SoundInv'
  OBVIOUS
<1>1. LoadedValid'
  BY DEF SoundInv, SpawnsNothing, LoadedValid
<1>2. NoMonitorPanics'
  BY DEF SoundInv, SpawnsNothing, NoMonitorPanics, NoTasks
<1>3. QED  BY <1>1, <1>2 DEF SoundInv

\* All steps but three load and spawn nothing.
LEMMA OthersSpawnNothing ==
  ASSUME DaemonTypeOK, [Next]_vars,
         ~ \E p \in Processes : LoadConfig(p) \/ LoadRules(p) \/ SpawnTasks(p)
  PROVE  SpawnsNothing
<1> USE TypeParts
<1>1. ASSUME NEW p \in Processes, NEW how, Gone(p, how) PROVE SpawnsNothing
  BY <1>1 DEF Gone, SpawnsNothing, ControlType, DataType
<1>2. ASSUME NEW p \in Processes, NEW result, Returns(p, result),
             UNCHANGED <<loaded, tasks>>
      PROVE  SpawnsNothing
  BY <1>2 DEF Returns, SpawnsNothing, ControlType
<1>3. ASSUME NEW p \in Processes, NEW next, Serve(p, next) PROVE SpawnsNothing
  BY <1>3 DEF Serve, SpawnsNothing
<1>4. ASSUME NEW p \in Processes, NEW flag, Begin(p, flag) PROVE SpawnsNothing
  BY <1>4 DEF Begin, SpawnsNothing, ControlType
<1>5. ASSUME NEW p \in Processes,
             InitLogging(p) \/ InstallSignals(p) \/ Abort(p) \/ HandReaped(p)
      PROVE  SpawnsNothing
  BY <1>5 DEF InitLogging, InstallSignals, Abort, HandReaped, SpawnsNothing, ControlType
<1>6. ASSUME NEW p \in Processes, Term(p) PROVE SpawnsNothing
  BY <1>6, <1>1 DEF Term, SpawnsNothing, ControlType
<1>7. CASE UNCHANGED vars \/ UnitStop \/ UnitReaped
  BY <1>7 DEF vars, procVars, UnitStop, UnitReaped, SpawnsNothing, ControlType
<1>8. ASSUME NEW p \in Processes,
             ServeSteps(p) \/ ServeFails(p) \/ RemoveSocket(p) \/ StartFails(p)
               \/ Kill(p) \/ Exit(p) \/ HandStart(p)
      PROVE  SpawnsNothing
  <2>1. CASE ServeSteps(p) \/ ServeFails(p)
    BY <2>1, <1>3 DEF ServeSteps, ServeDir, ServeUnlink, ServeBind, ServeChmod, ServeFails
  <2>2. CASE RemoveSocket(p) \/ StartFails(p)
    BY <2>2, <1>2 DEF RemoveSocket, StartFails
  <2>3. CASE Kill(p) \/ Exit(p)
    BY <2>3, <1>1 DEF Kill, Exit
  <2>4. CASE HandStart(p)
    BY <2>4, <1>4 DEF HandStart
  <2>5. QED  BY <1>8, <2>1, <2>2, <2>3, <2>4
<1>9. CASE UnitStart
  BY <1>9, <1>4 DEF UnitStart, Processes
<1>10. QED  BY <1>5, <1>6, <1>7, <1>8, <1>9 DEF Next, MainSteps

\* The steps that load and spawn keep the invariant.
LEMMA LoadingSound ==
  ASSUME DaemonTypeOK, SoundInv, NEW p \in Processes,
         LoadConfig(p) \/ LoadRules(p) \/ SpawnTasks(p)
  PROVE  SoundInv'
<1> USE TypeParts
<1>1. CASE LoadConfig(p)
  <2>1. PICK file \in ConfigFiles :
          IF file = Absent \/ (file # Broken /\ Valid(file))
          THEN /\ loaded' = [loaded EXCEPT ![p].config =
                    IF file = Absent THEN DefaultConfig ELSE file]
               /\ main' = [main EXCEPT ![p] = "rules"]
          ELSE Returns(p, "error") /\ UNCHANGED loaded
    BY <1>1 DEF LoadConfig
  <2>2. NoMonitorPanics'
    BY <1>1 DEF LoadConfig, SoundInv, NoMonitorPanics
  <2>3. CASE file = Absent \/ (file # Broken /\ Valid(file))
    <3>1. PICK config \in Config :
            Valid(config) /\ loaded' = [loaded EXCEPT ![p].config = config]
      BY <2>1, <2>3, LoadedConfig
    <3>2. LoadedValid'
      BY <2>1, <2>3, <3>1 DEF SoundInv, LoadedValid, ControlType, DataType, Loaded
    <3>3. QED  BY <2>2, <3>2 DEF SoundInv
  <2>4. CASE ~(file = Absent \/ (file # Broken /\ Valid(file)))
    BY <2>1, <2>2, <2>4 DEF SoundInv, LoadedValid, Returns, ControlType
  <2>5. QED  BY <2>3, <2>4
<1>2. CASE LoadRules(p)
  <2>1. NoMonitorPanics'
    BY <1>2 DEF LoadRules, SoundInv, NoMonitorPanics
  <2>2. /\ main[p] = "rules"
        /\ \/ UNCHANGED loaded /\ main' = [main EXCEPT ![p] = "exit"]
           \/ \E rules : /\ loaded' = [loaded EXCEPT ![p].rules = rules]
                         /\ main' = [main EXCEPT ![p] = "log"]
    BY <1>2 DEF LoadRules, Returns
  <2>3. LoadedValid'
    BY <2>2 DEF SoundInv, LoadedValid, ControlType, DataType, Loaded
  <2>4. QED  BY <2>1, <2>3 DEF SoundInv
<1>3. CASE SpawnTasks(p)
  <2>1. LoadedValid'
    BY <1>3 DEF SpawnTasks, SoundInv, LoadedValid, ControlType, DataType
  <2>2. loaded[p].config \in Config /\ Valid(loaded[p].config)
    BY <1>3 DEF SpawnTasks, Phases, SoundInv, LoadedValid
  <2>3. tasks'[p].monitors # "panicked"
    BY <1>3, <2>2, ValidRuns DEF SpawnTasks, DataType
  <2>4. \A q \in Processes \ {p} : tasks'[q] = tasks[q]
    BY <1>3 DEF SpawnTasks, DataType
  <2>5. NoMonitorPanics'
    BY <2>3, <2>4 DEF SoundInv, NoMonitorPanics
  <2>6. QED  BY <2>1, <2>5 DEF SoundInv
<1>4. QED  BY <1>1, <1>2, <1>3

\* Whatever owlsentry.conf and rules.toml hold, no monitor that main spawns panics: of
\* a configuration that passes validate no number does that to a timer.
THEOREM NonePanics == Spec => []NoMonitorPanics
<1>1. Init => SoundInv
  BY DEF Init, SoundInv, LoadedValid, NoMonitorPanics, NoTasks
<1>2. DaemonTypeOK /\ SoundInv /\ [Next]_vars => SoundInv'
  BY OthersSpawnNothing, SpawnsNothingSound, LoadingSound
<1>3. SoundInv => NoMonitorPanics
  BY DEF SoundInv
<1>4. QED  BY <1>1, <1>2, <1>3, TypeCorrect, PTL DEF Spec
-----------------------------------------------------------------------------
(* A socket without its listener *)

\* Once abort() is called, a server that is still to bind is noted, and so is a
\* socket that main returns without having removed.
StoppedClean ==
  \A p \in Processes :
    Aborted(p) =>
      /\ serve[p] \in {"unlink", "bind"} => note[p] # "none"
      /\ main[p] = "exit" /\ sock.is = "live" /\ sock.by = p => note[p] # "none"
StaleInv == StoppedClean /\ StaleExplained

\* Nothing of this invariant changes for a process that stays where it is with the
\* socket at the path.
SockFrame ==
  /\ sock' = sock
  /\ \A p \in Processes :
       /\ serve'[p] = serve[p] /\ note'[p] = note[p]
       /\ Aborted(p)' => Aborted(p) /\ (main'[p] = "exit" => main[p] = "exit")

\* So the invariant is kept.
LEMMA SockFrameStale ==
  ASSUME MachineType, StaleInv, SockFrame PROVE StaleInv'
BY DEF StaleInv, StoppedClean, StaleExplained, SockFrame, Listening, MachineType, SockType

\* The end of a process keeps the invariant: its socket, if it is at the path, is
\* stale from now on, and for a reason when main has returned in good order.
LEMMA GoneStale ==
  ASSUME DaemonTypeOK, StaleInv, NEW p \in Processes, NEW how \in End, Gone(p, how),
         how = "ok" => Aborted(p) /\ main[p] = "exit"
  PROVE  StaleInv'
<1> USE TypeParts
<1>1. StoppedClean'
  BY DEF Gone, StaleInv, StoppedClean, Aborted, Left, ControlType, MachineType, SockType
<1>2. StaleExplained'
  <2>1. CASE sock.is = "live" /\ sock.by = p
    <3>1. sock'.is = how /\ sock'.note = note[p] /\ how # "live" /\ serve[p] # "none"
      BY <2>1 DEF Gone, Left, MachineType, SockType, End, StaleInv, StaleExplained,
                  Listening
    <3>2. how = "ok" => note[p] # "none"
      BY <2>1, <3>1 DEF StaleInv, StoppedClean
    <3>3. QED  BY <3>1, <3>2 DEF StaleExplained
  <2>2. CASE ~(sock.is = "live" /\ sock.by = p)
    <3>1. sock' = sock
      BY <2>2 DEF Gone, Left
    <3>2. \A q \in Processes \ {p} : serve'[q] = serve[q]
      BY DEF Gone, ControlType
    <3>3. QED
      BY <2>2, <3>1, <3>2 DEF StaleInv, StaleExplained, Listening, MachineType, SockType
  <2>3. QED  BY <2>1, <2>2
<1>3. QED  BY <1>1, <1>2 DEF StaleInv

\* The steps of main keep the invariant.
LEMMA MainStale ==
  ASSUME DaemonTypeOK, StaleInv, NEW p \in Processes, MainSteps(p)
  PROVE  StaleInv'
<1> USE TypeParts
<1>1. CASE LoadConfig(p) \/ LoadRules(p)
  <2>1. serve[p] = "none" /\ UNCHANGED <<serve, note, sock>>
    BY <1>1 DEF LoadConfig, LoadRules, Phases, ControlType, ServeStep
  <2>2. \A q \in Processes \ {p} : main'[q] = main[q] /\ code'[q] = code[q]
    BY <1>1 DEF LoadConfig, LoadRules, Returns, ControlType
  <2>3. sock.is = "live" => sock.by # p
    BY <2>1 DEF StaleInv, StaleExplained, Listening
  <2>4. QED
    BY <2>1, <2>2, <2>3 DEF StaleInv, StoppedClean, StaleExplained, Listening, Aborted
<1>2. CASE InitLogging(p) \/ InstallSignals(p)
  BY <1>2, SockFrameStale DEF InitLogging, InstallSignals, SockFrame, Aborted, ControlType
<1>3. CASE SpawnTasks(p)
  <2>1. serve[p] = "none" /\ UNCHANGED <<note, sock, code>>
    BY <1>3 DEF SpawnTasks, Phases, ControlType, ServeStep
  <2>2. /\ main' = [main EXCEPT ![p] = "signals"]
        /\ serve' = [serve EXCEPT ![p] = "start"]
    BY <1>3 DEF SpawnTasks
  <2>3. StoppedClean'
    BY <2>1, <2>2 DEF StaleInv, StoppedClean, Aborted, ControlType
  <2>4. StaleExplained'
    BY <2>1, <2>2 DEF StaleInv, StaleExplained, Listening, ControlType, MachineType,
                      SockType
  <2>5. QED  BY <2>3, <2>4 DEF StaleInv
<1>4. CASE Abort(p)
  <2>1. StoppedClean'
    BY <1>4 DEF Abort, StaleInv, StoppedClean, Aborted, ControlType
  <2>2. StaleExplained'
    BY <1>4 DEF Abort, StaleInv, StaleExplained, Listening
  <2>3. QED  BY <2>1, <2>2 DEF StaleInv
<1>5. CASE RemoveSocket(p)
  <2>1. StoppedClean'
    BY <1>5 DEF RemoveSocket, Returns, StaleInv, StoppedClean, Aborted, ControlType, NoSock
  <2>2. StaleExplained'
    BY <1>5 DEF RemoveSocket, StaleInv, StaleExplained, Listening, NoSock
  <2>3. QED  BY <2>1, <2>2 DEF StaleInv
<1>6. CASE Exit(p)
  <2>1. Gone(p, code[p]) /\ main[p] = "exit" /\ code[p] \in End
    BY <1>6 DEF Exit, ControlType
  <2>2. QED  BY <2>1, GoneStale DEF Aborted
<1>7. QED  BY <1>1, <1>2, <1>3, <1>4, <1>5, <1>6 DEF MainSteps

\* The steps of serve, and its failure, keep the invariant.
LEMMA ServeStale ==
  ASSUME DaemonTypeOK, StaleInv, NEW p \in Processes, ServeSteps(p) \/ ServeFails(p)
  PROVE  StaleInv'
<1> USE TypeParts
<1>1. UNCHANGED <<main, code, note>>
  BY DEF ServeSteps, ServeDir, ServeUnlink, ServeBind, ServeChmod, ServeFails, Serve
<1>2. CASE ServeDir(p)
  BY <1>1, <1>2 DEF ServeDir, Serve, StaleInv, StoppedClean, StaleExplained, Listening,
                    Aborted, ControlType, MachineType, SockType
<1>3. CASE ServeUnlink(p)
  BY <1>1, <1>3 DEF ServeUnlink, Serve, StaleInv, StoppedClean, StaleExplained, Listening,
                    Aborted, ControlType, NoSock
<1>4. CASE ServeBind(p)
  BY <1>1, <1>4 DEF ServeBind, Serve, StaleInv, StoppedClean, StaleExplained, Listening,
                    Aborted, ControlType, MachineType, SockType
<1>5. CASE ServeChmod(p)
  <2>1. sock'.is = sock.is /\ sock'.by = sock.by /\ sock'.note = sock.note
    BY <1>5 DEF ServeChmod, MachineType, SockType
  <2>2. /\ serve[p] = "chmod"
        /\ \/ serve' = [serve EXCEPT ![p] = "accept"]
           \/ serve' = [serve EXCEPT ![p] = "robbed"] /\ sock = NoSock
    BY <1>5 DEF ServeChmod, Serve
  <2>3. StoppedClean'
    BY <1>1, <2>1, <2>2 DEF StaleInv, StoppedClean, Aborted, ControlType
  <2>4. StaleExplained'
    BY <2>1, <2>2 DEF StaleInv, StaleExplained, Listening, ControlType, NoSock,
                      MachineType, SockType
  <2>5. QED  BY <2>3, <2>4 DEF StaleInv
<1>6. CASE ServeFails(p)
  <2>1. serve' = [serve EXCEPT ![p] = "failed"] /\ sock' = Left(sock, p, "failed")
    BY <1>6 DEF ServeFails, Serve
  <2>2. StoppedClean'
    BY <1>1, <2>1 DEF StaleInv, StoppedClean, Aborted, Left, ControlType, MachineType,
                      SockType
  <2>3. StaleExplained'
    BY <2>1 DEF StaleInv, StaleExplained, Listening, Left, ControlType, MachineType,
                SockType
  <2>4. QED  BY <2>2, <2>3 DEF StaleInv
<1>7. QED  BY <1>2, <1>3, <1>4, <1>5, <1>6 DEF ServeSteps

\* Signals, kills and failures keep the invariant.
LEMMA FaultStale ==
  ASSUME DaemonTypeOK, StaleInv, NEW p \in Processes, StartFails(p) \/ Term(p) \/ Kill(p)
  PROVE  StaleInv'
<1> USE TypeParts
<1>1. CASE StartFails(p)
  BY <1>1, SockFrameStale DEF StartFails, Returns, SockFrame, Aborted, ControlType
<1>2. CASE Kill(p) \/ Gone(p, "term")
  BY <1>2, GoneStale DEF Kill, End
<1>3. CASE Term(p) /\ ~Gone(p, "term")
  BY <1>3, SockFrameStale DEF Term, SockFrame, Aborted, ControlType
<1>4. QED  BY <1>1, <1>2, <1>3

\* systemd's steps and the administrator's keep the invariant.
LEMMA OutsideStale ==
  ASSUME DaemonTypeOK, StaleInv,
         \/ \E p \in Processes : HandStart(p) \/ HandReaped(p)
         \/ UnitStart \/ UnitStop \/ UnitReaped
  PROVE  StaleInv'
<1> USE TypeParts
<1>1. ASSUME NEW p \in Processes, NEW flag, Begin(p, flag) PROVE StaleInv'
  BY <1>1, SockFrameStale DEF Begin, SockFrame, Aborted, ControlType
<1>2. ASSUME NEW p \in Processes, HandReaped(p) PROVE StaleInv'
  BY <1>2, SockFrameStale DEF HandReaped, SockFrame, Aborted, ControlType
<1>3. CASE UnitStop
  BY <1>3, SockFrameStale DEF UnitStop, procVars, SockFrame, Aborted
<1>4. CASE UnitReaped
  BY <1>4 DEF UnitReaped, StaleInv, StoppedClean, StaleExplained, NoSock, Aborted,
              ControlType
<1>5. QED  BY <1>1, <1>2, <1>3, <1>4 DEF HandStart, UnitStart, Processes

\* A socket at the path has its listener, or its process did not end in good order,
\* or it was stopped in the middle of making it or told of the failure to remove it.
THEOREM StaleIsExplained == Spec => []StaleExplained
<1>1. Init => StaleInv
  BY DEF Init, StaleInv, StoppedClean, StaleExplained, NoSock, Aborted
<1>2. DaemonTypeOK /\ StaleInv /\ [Next]_vars => StaleInv'
  <2> SUFFICES ASSUME DaemonTypeOK, StaleInv, [Next]_vars PROVE StaleInv'
    OBVIOUS
  <2>1. CASE UNCHANGED vars
    BY <2>1, TypeParts, SockFrameStale DEF vars, procVars, SockFrame, Aborted
  <2>2. CASE Next
    BY <2>2, MainStale, ServeStale, FaultStale, OutsideStale DEF Next
  <2>3. QED  BY <2>1, <2>2
<1>3. StaleInv => StaleExplained
  BY DEF StaleInv
<1>4. QED  BY <1>1, <1>2, <1>3, TypeCorrect, PTL DEF Spec
-----------------------------------------------------------------------------
(* Who listens alone is reached *)

\* Between the spawning and the clean-up there are tasks.
TasksUp ==
  \A p \in Processes :
    main[p] \in {"signals", "wait", "abort", "unlink"} => serve[p] # "none"

\* An instance that is alone is the only one with tasks, and systemd will not clean
\* up after the unit beside it.
AloneIndeed ==
  \A p \in Processes :
    alone[p] /\ serve[p] # "none" =>
      /\ \A q \in Processes \ {p} : serve[q] = "none"
      /\ p # Unit => unit \in {"inactive", "restarting"}
ReachInv == TasksUp /\ AloneIndeed /\ ReachableAlone

\* A step after which nobody has tasks that had none, and nobody is alone or
\* listens that did not.
ReachFrame ==
  /\ sock' = sock
  /\ unit \in {"inactive", "restarting"} => unit' \in {"inactive", "restarting"}
  /\ \A p \in Processes :
       /\ serve'[p] \in {serve[p], "none"} /\ (alone'[p] => alone[p])
       /\ main'[p] \in {"signals", "wait", "abort", "unlink"} => serve'[p] # "none"
       /\ serve'[p] # "none" /\ Aborted(p) => Aborted(p)'

\* So the invariant is kept.
LEMMA ReachFrameKeeps == ReachInv /\ ReachFrame => ReachInv'
<1> SUFFICES ASSUME ReachInv, ReachFrame PROVE ReachInv'
  OBVIOUS
<1>1. TasksUp'
  BY DEF ReachFrame, TasksUp
<1>2. AloneIndeed'
  BY DEF ReachInv, ReachFrame, AloneIndeed
<1>3. ReachableAlone'
  BY DEF ReachInv, ReachFrame, ReachableAlone, Listening
<1>4. QED  BY <1>1, <1>2, <1>3 DEF ReachInv

\* The end of a process takes only its own socket.
LEMMA GoneReach ==
  ASSUME DaemonTypeOK, ReachInv, NEW p \in Processes, NEW how, Gone(p, how),
         unit \in {"inactive", "restarting"} => unit' \in {"inactive", "restarting"}
  PROVE  ReachInv'
<1> USE TypeParts
<1>1. TasksUp'
  BY DEF Gone, ReachInv, TasksUp, ControlType
<1>2. AloneIndeed'
  BY DEF Gone, ReachInv, AloneIndeed, ControlType
<1>3. ReachableAlone'
  <2>1. sock.by # p => sock' = sock
    BY DEF Gone, Left
  <2>2. serve'[p] = "none" /\ \A q \in Processes \ {p} :
          serve'[q] = serve[q] /\ main'[q] = main[q] /\ code'[q] = code[q]
    BY DEF Gone, ControlType
  <2>3. UNCHANGED alone
    BY DEF Gone
  <2>4. QED  BY <2>1, <2>2, <2>3 DEF ReachInv, ReachableAlone, Listening, Aborted
<1>4. QED  BY <1>1, <1>2, <1>3 DEF ReachInv

\* The steps of main keep the invariant.
LEMMA MainReach ==
  ASSUME DaemonTypeOK, ReachInv, NEW p \in Processes, MainSteps(p)
  PROVE  ReachInv'
<1> USE TypeParts
<1>1. CASE LoadConfig(p) \/ LoadRules(p)
  <2>1. serve[p] = "none" /\ UNCHANGED <<serve, alone, unit, sock>>
    BY <1>1 DEF LoadConfig, LoadRules, Phases, ControlType, ServeStep
  <2>2. /\ main'[p] \in {"rules", "log", "exit"}
        /\ \A q \in Processes \ {p} : main'[q] = main[q] /\ code'[q] = code[q]
    BY <1>1 DEF LoadConfig, LoadRules, Returns, ControlType
  <2>3. QED  BY <2>1, <2>2, ReachFrameKeeps DEF ReachFrame, ReachInv, TasksUp, Aborted
<1>2. CASE InitLogging(p) \/ InstallSignals(p) \/ Abort(p)
  <2>1. UNCHANGED <<serve, code, alone, unit, sock>>
    BY <1>2 DEF InitLogging, InstallSignals, Abort
  <2>2. PICK next \in {"spawn", "wait", "unlink"} :
          /\ main' = [main EXCEPT ![p] = next]
          /\ next # "spawn" => main[p] \in {"signals", "abort"}
          /\ main[p] \notin {"unlink", "exit"}
    BY <1>2 DEF InitLogging, InstallSignals, Abort
  <2>3. QED
    BY <2>1, <2>2, ReachFrameKeeps DEF ReachFrame, ReachInv, TasksUp, Aborted, ControlType
<1>3. CASE SpawnTasks(p)
  <2>1. serve[p] = "none" /\ UNCHANGED <<sock, unit>>
    BY <1>3 DEF SpawnTasks, Phases, ControlType, ServeStep
  <2>2. /\ main' = [main EXCEPT ![p] = "signals"]
        /\ serve' = [serve EXCEPT ![p] = "start"]
        /\ alone' = [q \in Processes |-> q = p /\ Solitary(p)]
    BY <1>3 DEF SpawnTasks
  <2>3. TasksUp'
    BY <2>2 DEF ReachInv, TasksUp, ControlType
  <2>4. Solitary(p) => /\ \A q \in Processes \ {p} : serve[q] = "none"
                       /\ p # Unit => unit \in {"inactive", "restarting"}
    BY DEF Solitary, Serving, Running, Phases
  <2>5. AloneIndeed'
    BY <2>1, <2>2, <2>4 DEF AloneIndeed, ControlType
  <2>6. ReachableAlone'
    BY <2>2 DEF ReachableAlone, Listening, ControlType
  <2>7. QED  BY <2>3, <2>5, <2>6 DEF ReachInv
<1>4. CASE RemoveSocket(p)
  <2>1. UNCHANGED <<serve, alone, unit>> /\ serve[p] # "none" /\ main[p] = "unlink"
    BY <1>4 DEF RemoveSocket, ReachInv, TasksUp
  <2>2. /\ main' = [main EXCEPT ![p] = "exit"]
        /\ code' = [code EXCEPT ![p] = "ok"]
    BY <1>4 DEF RemoveSocket, Returns
  <2>3. TasksUp' /\ AloneIndeed'
    BY <2>1, <2>2 DEF ReachInv, TasksUp, AloneIndeed, ControlType
  <2>4. ASSUME NEW q \in Processes, Listening(q)', ~Aborted(q)', alone'[q] PROVE FALSE
    <3>1. q # p
      BY <2>2, <2>4 DEF Aborted, ControlType
    <3>2. QED
      BY <2>1, <2>4, <3>1 DEF ReachInv, AloneIndeed, Listening
  <2>5. QED  BY <2>3, <2>4 DEF ReachInv, ReachableAlone
<1>5. CASE Exit(p)
  BY <1>5, GoneReach DEF Exit
<1>6. QED  BY <1>1, <1>2, <1>3, <1>4, <1>5 DEF MainSteps

\* The steps of serve, and its failure, keep the invariant: only an instance with
\* tasks takes them, so nobody else that does is alone.
LEMMA ServeReach ==
  ASSUME DaemonTypeOK, ReachInv, NEW p \in Processes, ServeSteps(p) \/ ServeFails(p)
  PROVE  ReachInv'
<1> USE TypeParts
<1>1. PICK next \in ServeStep \ {"none"} : serve[p] # "none" /\ Serve(p, next)
  BY DEF ServeSteps, ServeDir, ServeUnlink, ServeBind, ServeChmod, ServeFails, ServeStep
<1>2. TasksUp' /\ AloneIndeed'
  BY <1>1 DEF Serve, ReachInv, TasksUp, AloneIndeed, ControlType
<1>3. ASSUME NEW q \in Processes, Listening(q)', ~Aborted(q)', alone'[q]
      PROVE  sock'.is = "live" /\ sock'.by = q
  <2>1. q = p
    BY <1>1, <1>3 DEF Serve, ReachInv, AloneIndeed, Listening, ControlType
  <2>2. CASE ServeBind(p)
    BY <1>3, <2>1, <2>2 DEF ServeBind, Serve, Listening, ControlType
  <2>3. CASE ServeChmod(p)
    <3>1. Listening(p) /\ ~Aborted(p) /\ alone[p]
      BY <1>3, <2>1, <2>3 DEF ServeChmod, Serve, Listening, Aborted
    <3>2. sock'.is = sock.is /\ sock'.by = sock.by
      BY <2>3 DEF ServeChmod, MachineType, SockType
    <3>3. QED  BY <2>1, <3>1, <3>2 DEF ReachInv, ReachableAlone
  <2>4. CASE ServeDir(p) \/ ServeUnlink(p) \/ ServeFails(p)
    BY <1>3, <2>1, <2>4 DEF ServeDir, ServeUnlink, ServeFails, Serve, Listening, ControlType
  <2>5. QED  BY <2>2, <2>3, <2>4 DEF ServeSteps
<1>4. QED  BY <1>2, <1>3 DEF ReachInv, ReachableAlone

\* Signals, kills and failures keep the invariant.
LEMMA FaultReach ==
  ASSUME DaemonTypeOK, ReachInv, NEW p \in Processes, StartFails(p) \/ Term(p) \/ Kill(p)
  PROVE  ReachInv'
<1> USE TypeParts
<1>1. CASE StartFails(p)
  BY <1>1, ReachFrameKeeps DEF StartFails, Returns, ReachFrame, Aborted, ReachInv, TasksUp,
                               ControlType
<1>2. CASE Kill(p)
  BY <1>2, GoneReach DEF Kill
<1>3. CASE Term(p)
  <2>1. unit \in {"inactive", "restarting"} => unit' = unit
    BY <1>3 DEF Term, UnitKnows
  <2>2. CASE Gone(p, "term")
    BY <2>1, <2>2, GoneReach
  <2>3. CASE ~Gone(p, "term")
    BY <1>3, <2>1, <2>3, ReachFrameKeeps
       DEF Term, ReachFrame, Aborted, ReachInv, TasksUp, ControlType
  <2>4. QED  BY <2>2, <2>3
<1>4. QED  BY <1>1, <1>2, <1>3

\* systemd's steps and the administrator's keep the invariant.
LEMMA OutsideReach ==
  ASSUME DaemonTypeOK, ReachInv,
         \/ \E p \in Processes : HandStart(p) \/ HandReaped(p)
         \/ UnitStart \/ UnitStop \/ UnitReaped
  PROVE  ReachInv'
<1> USE TypeParts
<1>1. ASSUME NEW p \in Processes, HandStart(p) PROVE ReachInv'
  BY <1>1, ReachFrameKeeps DEF HandStart, Begin, ReachFrame, Aborted, ReachInv, TasksUp,
                               Phases, ControlType
<1>2. ASSUME NEW p \in Processes, HandReaped(p) PROVE ReachInv'
  BY <1>2, ReachFrameKeeps DEF HandReaped, ReachFrame, Aborted, ReachInv, TasksUp,
                               ControlType
<1>3. CASE UnitStart
  <2>1. TasksUp'
    BY <1>3 DEF UnitStart, Begin, ReachInv, TasksUp, ControlType
  <2>2. \A p \in Processes : ~alone'[p]
    BY <1>3 DEF UnitStart
  <2>3. QED  BY <2>1, <2>2 DEF ReachInv, AloneIndeed, ReachableAlone
<1>4. CASE UnitStop
  BY <1>4, ReachFrameKeeps DEF UnitStop, procVars, ReachFrame, Aborted, ReachInv, TasksUp
<1>5. CASE UnitReaped
  <2>1. serve[Unit] = "none" /\ UNCHANGED <<serve, code, alone>>
    BY <1>5 DEF UnitReaped, Phases, Processes
  <2>2. main' = [main EXCEPT ![Unit] = "none"] /\ unit \notin {"inactive", "restarting"}
    BY <1>5 DEF UnitReaped
  <2>3. TasksUp'
    BY <2>1, <2>2 DEF ReachInv, TasksUp, ControlType
  <2>4. \A p \in Processes : ~(alone[p] /\ serve[p] # "none")
    BY <2>1, <2>2 DEF ReachInv, AloneIndeed
  <2>5. QED
    BY <2>1, <2>3, <2>4 DEF ReachInv, AloneIndeed, ReachableAlone, Listening
<1>6. QED  BY <1>1, <1>2, <1>3, <1>4, <1>5

\* An instance that listens, was not told to stop and has met no other is the one
\* that clients reach, whatever processes that were killed have left behind.
THEOREM AloneIsReached == Spec => []ReachableAlone
<1>1. Init => ReachInv
  BY DEF Init, ReachInv, TasksUp, AloneIndeed, ReachableAlone, Listening
<1>2. DaemonTypeOK /\ ReachInv /\ [Next]_vars => ReachInv'
  <2> SUFFICES ASSUME DaemonTypeOK, ReachInv, [Next]_vars PROVE ReachInv'
    OBVIOUS
  <2>1. CASE UNCHANGED vars
    BY <2>1, ReachFrameKeeps DEF vars, procVars, ReachFrame, Aborted, ReachInv, TasksUp
  <2>2. CASE Next
    BY <2>2, MainReach, ServeReach, FaultReach, OutsideReach DEF Next
  <2>3. QED  BY <2>1, <2>2
<1>3. ReachInv => ReachableAlone
  BY DEF ReachInv
<1>4. QED  BY <1>1, <1>2, <1>3, TypeCorrect, PTL DEF Spec
=============================================================================
