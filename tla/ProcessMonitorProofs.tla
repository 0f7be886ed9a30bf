------------------------- MODULE ProcessMonitorProofs -------------------------
(***************************************************************************)
(* Theorems about the process monitor, for all pids, whatever processes    *)
(* show, and however many of them come and go between the monitor's reads. *)
(***************************************************************************)
EXTENDS ProcessMonitor, TLAPS

Process ==
  [born: Nat, parent: Pids \cup {Init1}, marks: SUBSET (Marks \cup {"closed"}),
   hidden: BOOLEAN, heir: BOOLEAN]

Alert == [kind: Kinds, pid: Pids, born: Nat, since: Nat]

\* The types of the variables.
ProcTypeOK ==
  /\ proc \in [Pids -> {Gone} \cup Process]
  /\ events \in Nat /\ ghosts \in SUBSET Nat
  /\ phase \in {"tick", "pids", "hidden"}
  /\ pids \in SUBSET Pids /\ since \in Nat /\ ppids \in SUBSET (Pids \cup {Init1})
  /\ todo \in SUBSET Pids /\ at \in SUBSET Pids
  /\ suspect \in SUBSET [pid: Pids, born: Nat]
  /\ reported \in [Kinds -> SUBSET Pids]
  /\ hand = Nothing \/ hand \in Alert
  /\ out \in Seq(Alert)

\* The process an alert, or a suspicion, is about still lives.
Lives(a) == proc[a.pid] # Gone /\ proc[a.pid].born = a.born

\* The births are in order, and a process that is left out is known as such.
Births ==
  /\ since <= events
  /\ \A p \in Alive : proc[p].born <= events /\ (proc[p].hidden => proc[p].born \in ghosts)
  /\ \A i \in 1..Len(Alerts) : Alerts[i].born <= events
  /\ \A s \in suspect : s.born <= events

\* How far the monitor is with its list.
Reading ==
  /\ at \subseteq todo
  /\ phase # "pids" => at = {}
  /\ phase = "pids" => todo \subseteq pids
  /\ suspect # {} => phase = "hidden" /\ hand = Nothing
  /\ \A p \in Alive : ~proc[p].hidden /\ proc[p].born <= since => p \in pids

\* What was reported and is forgotten is not looked at again while it lives.
Remembered(a) ==
  IF a.kind = "hidden" THEN a.pid \in reported["hidden"]
  ELSE /\ proc[a.pid].hidden \/ a.pid \in pids
       /\ a.pid \notin reported[a.kind] =>
            proc[a.pid].hidden /\ (phase = "pids" => a.pid \notin pids)

OnceInv ==
  /\ OncePerProcess
  /\ \A i \in 1..Len(Alerts) : Lives(Alerts[i]) => Remembered(Alerts[i])
  /\ \A s \in suspect : \A i \in 1..Len(Alerts) :
       Alerts[i].kind = "hidden" /\ Alerts[i].pid = s.pid => Alerts[i].born # s.born

\* What the second list does achieve.  A process reported as hidden is left out of the
\* listing of /proc, or it was born after the first list and dead at the second (its
\* child bears the pid of a process that was in the list): the race that the second
\* list is to eliminate (HiddenWasHidden) is left for such a process, and only for it.
HiddenJustified ==
  \A i \in 1..Len(Alerts) : Alerts[i].kind = "hidden" =>
    \/ Alerts[i].born \in ghosts
    \/ /\ Alerts[i].born > Alerts[i].since
       /\ proc[Alerts[i].pid] = Gone \/ proc[Alerts[i].pid].born # Alerts[i].born

\* A suspect is left out or was born after the list.
HiddenInv ==
  /\ HiddenJustified
  /\ \A s \in suspect : s.born \in ghosts \/ s.born > since
-----------------------------------------------------------------------------
(* Types *)

\* A process is not Gone, an alert is not Nothing, and what is alive has a process.
LEMMA ProcessType ==
  /\ Gone \notin Process /\ Nothing \notin Alert
  /\ ProcTypeOK => /\ \A p \in Alive : p \in Pids /\ proc[p] \in Process
                   /\ Alerts \in Seq(Alert)
<1>1. Gone \notin Process /\ Nothing \notin Alert
  BY DEF Gone, Process, Nothing, Alert
<1>2. ProcTypeOK => \A p \in Alive : p \in Pids /\ proc[p] \in Process
  BY DEF ProcTypeOK, Alive
<1>3. ProcTypeOK => Alerts \in Seq(Alert)
  BY DEF ProcTypeOK, Alerts
<1>4. QED  BY <1>1, <1>2, <1>3

\* A report of a process has the type of alerts.
LEMMA ReportType ==
  ASSUME ProcTypeOK, NEW kind \in Kinds, NEW p \in Pids, NEW born \in Nat,
         Report(kind, p, born)
  PROVE  /\ reported' \in [Kinds -> SUBSET Pids] /\ hand' \in Alert
         /\ reported'[kind] = reported[kind] \cup {p}
         /\ \A k \in Kinds \ {kind} : reported'[k] = reported[k]
         /\ hand'.kind = kind /\ hand'.pid = p /\ hand'.born = born /\ hand'.since = since
BY DEF Report, ProcTypeOK, Alert

\* Every step of the monitor, and of the processes, keeps the types.
LEMMA TypeStep == ProcTypeOK /\ [Next]_vars => ProcTypeOK'
<1> SUFFICES ASSUME ProcTypeOK, [Next]_vars PROVE ProcTypeOK'
  OBVIOUS
<1> USE ProcessType
<1>1. ASSUME NEW p \in Pids, Fork(p) PROVE ProcTypeOK'
  <2>1. PICK parent \in Alive \cup {Init1}, marks \in MarkSets, hidden \in BOOLEAN :
          /\ proc' = [proc EXCEPT ![p] = [born |-> events', parent |-> parent, marks |-> marks,
                                          hidden |-> hidden, heir |-> p \in pids]]
          /\ ghosts' = IF hidden THEN ghosts \cup {events'} ELSE ghosts
    BY <1>1 DEF Fork
  <2>2. events' = events + 1 /\ events' \in Nat
    BY <1>1 DEF Fork, ProcTypeOK
  <2>3. [born |-> events', parent |-> parent, marks |-> marks, hidden |-> hidden,
         heir |-> p \in pids] \in Process
    BY <2>2, ProcAssumption DEF Process, Alive
  <2>4. proc' \in [Pids -> {Gone} \cup Process] /\ ghosts' \in SUBSET Nat
    BY <2>1, <2>2, <2>3 DEF ProcTypeOK
  <2>5. QED  BY <1>1, <2>2, <2>4 DEF Fork, monitor, ProcTypeOK
<1>2. ASSUME NEW p \in Pids, Change(p) PROVE ProcTypeOK'
  <2>1. PICK marks \in MarkSets : proc' = [proc EXCEPT ![p].marks = marks]
    BY <1>2 DEF Change
  <2>2. proc[p] \in Process /\ marks \in SUBSET (Marks \cup {"closed"})
    BY <1>2, ProcAssumption DEF Change
  <2>3. [proc[p] EXCEPT !.marks = marks] \in Process
    BY <2>2 DEF Process
  <2>4. proc' \in [Pids -> {Gone} \cup Process] /\ events' \in Nat
    BY <1>2, <2>1, <2>3 DEF Change, ProcTypeOK
  <2>5. QED  BY <1>2, <2>4 DEF Change, monitor, ProcTypeOK
<1>3. ASSUME NEW p \in Pids, Exit(p) PROVE ProcTypeOK'
  <2>1. \A q \in Alive : [proc[q] EXCEPT !.parent = Init1] \in Process
    BY DEF Process
  <2>2. proc' \in [Pids -> {Gone} \cup Process]
    BY <1>3, <2>1 DEF Exit, ProcTypeOK
  <2>3. QED  BY <1>3, <2>2 DEF Exit, monitor, ProcTypeOK
<1>4. CASE List
  BY <1>4 DEF List, Listed, Alive, world, ProcTypeOK
<1>5. CASE ReadEnviron
  <2>1. PICK p \in todo :
          /\ at' = {p}
          /\ ppids' = IF p \in Alive THEN ppids \cup {proc[p].parent} ELSE ppids
          /\ IF Fresh("preload", p) THEN Report("preload", p, proc[p].born)
             ELSE UNCHANGED <<reported, hand>>
    BY <1>5 DEF ReadEnviron
  <2>2. ppids' \in SUBSET (Pids \cup {Init1})
    BY <2>1 DEF Process, ProcTypeOK
  <2>3. Fresh("preload", p) => proc[p].born \in Nat
    BY DEF Fresh, Shows, Process
  <2>4. reported' \in [Kinds -> SUBSET Pids] /\ (hand' = Nothing \/ hand' \in Alert)
    <3>1. CASE Fresh("preload", p)
      BY <2>1, <2>3, <3>1, ReportType DEF Kinds, Marks, ProcTypeOK
    <3>2. QED  BY <2>1, <3>1 DEF ProcTypeOK
  <2>5. QED  BY <1>5, <2>1, <2>2, <2>4 DEF ReadEnviron, world, ProcTypeOK
<1>6. CASE ReadExe
  <2>1. PICK p \in at :
          /\ at' = {} /\ todo' = todo \ {p}
          /\ \/ \E k \in {"deleted", "tmp"} : Fresh(k, p) /\ Report(k, p, proc[p].born)
             \/ UNCHANGED <<reported, hand>>
    BY <1>6 DEF ReadExe
  <2>2. reported' \in [Kinds -> SUBSET Pids] /\ (hand' = Nothing \/ hand' \in Alert)
    <3>1. ASSUME NEW k \in {"deleted", "tmp"}, Fresh(k, p), Report(k, p, proc[p].born)
          PROVE  reported' \in [Kinds -> SUBSET Pids] /\ hand' \in Alert
      <4>1. k \in Kinds /\ p \in Pids /\ proc[p].born \in Nat
        BY <3>1 DEF Fresh, Shows, Process, Kinds, Marks
      <4>2. QED  BY <3>1, <4>1, ReportType
    <3>2. QED  BY <2>1, <3>1 DEF ProcTypeOK
  <2>3. QED  BY <1>6, <2>1, <2>2 DEF ReadExe, world, ProcTypeOK
<1>7. CASE PidsDone
  BY <1>7 DEF PidsDone, world, Init1, ProcTypeOK
<1>8. CASE Suspect
  <2>1. PICK p \in todo :
          /\ todo' = todo \ {p}
          /\ suspect' = {} \/ (p \in Alive /\ suspect' = {[pid |-> p, born |-> proc[p].born]})
    BY <1>8 DEF Suspect
  <2>2. suspect' \in SUBSET [pid: Pids, born: Nat]
    BY <2>1 DEF Process
  <2>3. QED  BY <1>8, <2>1, <2>2 DEF Suspect, world, ProcTypeOK
<1>9. CASE Confirm
  <2>1. PICK s \in suspect :
          suspect' = {} /\ (Report("hidden", s.pid, s.born) \/ UNCHANGED <<reported, hand>>)
    BY <1>9 DEF Confirm
  <2>2. s.pid \in Pids /\ s.born \in Nat
    BY DEF ProcTypeOK
  <2>3. reported' \in [Kinds -> SUBSET Pids] /\ (hand' = Nothing \/ hand' \in Alert)
    BY <2>1, <2>2, ReportType DEF Kinds, ProcTypeOK
  <2>4. QED  BY <1>9, <2>1, <2>3 DEF Confirm, world, ProcTypeOK
<1>10. CASE Cleanup
  <2>1. \A k \in Kinds : Forget(k) \in SUBSET Pids
    BY DEF Forget, Alive, ProcTypeOK
  <2>2. QED  BY <1>10, <2>1 DEF Cleanup, world, ProcTypeOK
<1>11. CASE Send
  BY <1>11 DEF Send, world, ProcTypeOK
<1>12. CASE UNCHANGED vars
  BY <1>12 DEF vars, world, monitor, ProcTypeOK
<1>13. QED
  BY <1>1, <1>2, <1>3, <1>4, <1>5, <1>6, <1>7, <1>8, <1>9, <1>10, <1>11, <1>12
     DEF Next, World, Monitor

\* The processes and the state of the monitor keep their types.
THEOREM TypeCorrect == Spec => []ProcTypeOK
<1>1. Init => ProcTypeOK
  BY DEF Init, ProcTypeOK
<1>2. QED  BY <1>1, TypeStep, PTL DEF Spec

-----------------------------------------------------------------------------
(* What a step does *)

\* Processes come, change and go: one that is new has a birth no other had.
IsWorld ==
  /\ UNCHANGED monitor /\ events' \in {events, events + 1} /\ ghosts \subseteq ghosts'
  /\ \A p \in Pids :
       \/ proc'[p] = Gone
       \/ /\ proc[p] # Gone /\ proc'[p] # Gone
          /\ proc'[p].born = proc[p].born /\ proc'[p].hidden = proc[p].hidden
       \/ /\ proc'[p] # Gone /\ events' = events + 1 /\ proc'[p].born = events'
          /\ proc'[p].hidden => events' \in ghosts'

\* No alert is made in this step.
IsQuiet == Alerts' = Alerts

\* An alert about the process is made, and it is remembered.
IsReported(kind, p, born) ==
  /\ reported' = [reported EXCEPT ![kind] = @ \cup {p}]
  /\ hand = Nothing
  /\ \E a \in Alert : /\ a.kind = kind /\ a.pid = p /\ a.born = born /\ a.since = since
                      /\ Alerts' = Append(Alerts, a)

\* A process of the list is looked at.
IsLook ==
  /\ UNCHANGED world /\ phase = "pids" /\ hand = Nothing
  /\ UNCHANGED <<phase, pids, since, suspect>> /\ todo' \subseteq todo /\ at' \subseteq todo'
  /\ \/ IsQuiet /\ reported' = reported
     \/ \E p \in todo, kind \in Marks :
          p \in Alive /\ p \notin reported[kind] /\ IsReported(kind, p, proc[p].born)

\* An alert that is made is the last.
LEMMA ReportMade ==
  ASSUME ProcTypeOK, NEW kind \in Kinds, NEW p \in Pids, NEW born \in Nat,
         Report(kind, p, born), hand = Nothing, out' = out
  PROVE  IsReported(kind, p, born)
<1>1. /\ hand' \in Alert
      /\ hand'.kind = kind /\ hand'.pid = p /\ hand'.born = born /\ hand'.since = since
  BY ReportType
<1>2. Alerts' = Append(Alerts, hand')
  BY <1>1, ProcessType DEF Alerts
<1>3. QED  BY <1>1, <1>2 DEF IsReported, Report

\* What a step of the processes does.
LEMMA WorldSteps == ProcTypeOK /\ (World \/ UNCHANGED vars) => IsWorld
<1> SUFFICES ASSUME ProcTypeOK, World \/ UNCHANGED vars PROVE IsWorld
  OBVIOUS
<1> USE ProcessType
<1>1. ASSUME NEW p \in Pids, Fork(p) PROVE IsWorld
  <2>1. PICK parent \in Alive \cup {Init1}, marks \in MarkSets, hidden \in BOOLEAN :
          /\ proc' = [proc EXCEPT ![p] = [born |-> events', parent |-> parent, marks |-> marks,
                                          hidden |-> hidden, heir |-> p \in pids]]
          /\ ghosts' = IF hidden THEN ghosts \cup {events'} ELSE ghosts
    BY <1>1 DEF Fork
  <2>2. /\ \A q \in Pids \ {p} : proc'[q] = proc[q]
        /\ proc'[p].born = events' /\ proc'[p].hidden = hidden
    BY <2>1 DEF ProcTypeOK
  <2>3. proc'[p] # Gone
    <3>1. proc'[p] = [born |-> events', parent |-> parent, marks |-> marks, hidden |-> hidden,
                      heir |-> p \in pids]
      BY <2>1 DEF ProcTypeOK
    <3>2. events' \in Nat /\ parent \in Pids \cup {Init1} /\ marks \in SUBSET (Marks \cup {"closed"})
      BY <1>1, ProcAssumption DEF Fork, Alive, ProcTypeOK
    <3>3. proc'[p] \in Process
      BY <3>1, <3>2 DEF Process
    <3>4. QED  BY <3>3
  <2>4. QED  BY <1>1, <2>1, <2>2, <2>3 DEF Fork, IsWorld
<1>2. ASSUME NEW p \in Pids, Change(p) PROVE IsWorld
  <2>1. PICK marks \in MarkSets : proc' = [proc EXCEPT ![p].marks = marks]
    BY <1>2 DEF Change
  <2>2. proc[p] \in Process /\ proc'[p] = [proc[p] EXCEPT !.marks = marks]
        /\ \A q \in Pids \ {p} : proc'[q] = proc[q]
    BY <1>2, <2>1 DEF Change, ProcTypeOK
  <2>3. proc'[p] \in Process /\ proc'[p].born = proc[p].born /\ proc'[p].hidden = proc[p].hidden
    BY <2>2, ProcAssumption DEF Process
  <2>4. QED  BY <1>2, <2>2, <2>3 DEF Change, Alive, IsWorld
<1>3. ASSUME NEW p \in Pids, Exit(p) PROVE IsWorld
  <2>1. ASSUME NEW q \in Pids, proc'[q] # Gone
        PROVE  proc[q] # Gone /\ proc'[q].born = proc[q].born /\ proc'[q].hidden = proc[q].hidden
    <3>1. \/ proc'[q] = proc[q]
          \/ q \in Alive /\ proc'[q] = [proc[q] EXCEPT !.parent = Init1]
      BY <1>3, <2>1 DEF Exit
    <3>2. QED  BY <2>1, <3>1 DEF Alive, Process
  <2>2. QED  BY <1>3, <2>1 DEF Exit, IsWorld
<1>4. CASE UNCHANGED vars
  BY <1>4 DEF vars, world, IsWorld
<1>5. QED  BY <1>1, <1>2, <1>3, <1>4 DEF World

\* What a look at a process does.
LEMMA Looks ==
  ASSUME ProcTypeOK, Reading, ReadEnviron \/ ReadExe
  PROVE  IsLook
<1>1. /\ UNCHANGED world /\ phase = "pids" /\ hand = Nothing /\ out' = out
      /\ UNCHANGED <<phase, pids, since, suspect>>
  BY DEF ReadEnviron, ReadExe
<1>2. UNCHANGED <<reported, hand>> => IsQuiet /\ reported' = reported
  BY <1>1 DEF IsQuiet, Alerts
<1>3. ASSUME NEW p \in Pids, NEW k \in Marks, Fresh(k, p), Report(k, p, proc[p].born)
      PROVE  p \in Alive /\ p \notin reported[k] /\ IsReported(k, p, proc[p].born)
  <2>1. p \in Alive /\ p \notin reported[k] /\ proc[p].born \in Nat /\ k \in Kinds
    BY <1>3, ProcessType DEF Fresh, Shows, Process, Kinds
  <2>2. QED  BY <1>1, <1>3, <2>1, ReportMade
<1>4. CASE ReadEnviron
  <2>1. PICK p \in todo : /\ at' = {p}
                          /\ \/ Fresh("preload", p) /\ Report("preload", p, proc[p].born)
                             \/ UNCHANGED <<reported, hand>>
    BY <1>4 DEF ReadEnviron
  <2>2. todo' = todo /\ p \in Pids /\ "preload" \in Marks
    BY <1>4 DEF ReadEnviron, ProcTypeOK, Marks
  <2>3. QED  BY <1>1, <1>2, <1>3, <2>1, <2>2 DEF IsLook
<1>5. CASE ReadExe
  <2>1. PICK p \in at : /\ at' = {} /\ todo' = todo \ {p}
                        /\ \/ \E k \in {"deleted", "tmp"} : Fresh(k, p) /\ Report(k, p, proc[p].born)
                           \/ UNCHANGED <<reported, hand>>
    BY <1>5 DEF ReadExe
  <2>2. p \in Pids /\ p \in todo /\ {"deleted", "tmp"} \subseteq Marks
    BY DEF ProcTypeOK, Reading, Marks
  <2>3. QED  BY <1>1, <1>2, <1>3, <2>1, <2>2 DEF IsLook
<1>6. QED  BY <1>4, <1>5

\* What the confirmation of a suspicion does.
LEMMA Confirms ==
  ASSUME ProcTypeOK, Reading, Confirm
  PROVE  \E s \in suspect :
           /\ suspect' = {} /\ hand = Nothing /\ phase = "hidden"
           /\ UNCHANGED <<world, phase, pids, since, ppids, todo, at>>
           /\ \/ IsQuiet /\ reported' = reported
              \/ s.pid \notin Listed /\ IsReported("hidden", s.pid, s.born)
<1>1. PICK s \in suspect :
        /\ suspect' = {}
        /\ IF s.pid \in Listed THEN UNCHANGED <<reported, hand>>
           ELSE Report("hidden", s.pid, s.born)
  BY DEF Confirm
<1>2. hand = Nothing /\ phase = "hidden" /\ out' = out
  BY DEF Confirm, Reading
<1>3. s.pid \in Pids /\ s.born \in Nat /\ "hidden" \in Kinds
  BY DEF ProcTypeOK, Kinds
<1>4. IsReported("hidden", s.pid, s.born) \/ UNCHANGED <<reported, hand>>
  BY <1>1, <1>2, <1>3, ReportMade
<1>5. UNCHANGED <<reported, hand>> => IsQuiet /\ reported' = reported
  BY <1>2 DEF IsQuiet, Alerts
<1>6. Report("hidden", s.pid, s.born) => IsReported("hidden", s.pid, s.born)
  BY <1>2, <1>3, ReportMade
<1>7. QED  BY <1>1, <1>2, <1>5, <1>6 DEF Confirm

\* The other steps of the monitor make no alert.
LEMMA QuietSteps ==
  ASSUME ProcTypeOK, List \/ PidsDone \/ Suspect \/ Cleanup \/ Send
  PROVE  IsQuiet
<1>1. CASE List \/ PidsDone \/ Suspect \/ Cleanup
  BY <1>1 DEF List, PidsDone, Suspect, Cleanup, IsQuiet, Alerts
<1>2. CASE Send
  BY <1>2 DEF Send, IsQuiet, Alerts
<1>3. QED  BY <1>1, <1>2

\* The alerts, one more at the end.
LEMMA OneMore ==
  ASSUME ProcTypeOK, NEW a \in Alert, Alerts' = Append(Alerts, a)
  PROVE  /\ Len(Alerts) \in Nat /\ Len(Alerts') = Len(Alerts) + 1
         /\ Alerts'[Len(Alerts) + 1] = a
         /\ \A i \in 1..Len(Alerts) : Alerts'[i] = Alerts[i] /\ i \in 1..Len(Alerts')
         /\ \A i \in 1..Len(Alerts') : i \in 1..Len(Alerts) \/ i = Len(Alerts) + 1
BY ProcessType

-----------------------------------------------------------------------------
(* The births and the list *)

\* Every step keeps the births in the past, and what is left out known as such.
LEMMA BirthsStep == ProcTypeOK /\ Reading /\ Births /\ [Next]_vars => Births'
<1> SUFFICES ASSUME ProcTypeOK, Reading, Births, [Next]_vars PROVE Births'
  OBVIOUS
<1>1. events \in Nat /\ since \in Nat
  BY DEF ProcTypeOK
<1>2. CASE IsWorld
  <2>1. events' \in Nat /\ events <= events' /\ since' = since /\ suspect' = suspect
        /\ Alerts' = Alerts
    BY <1>1, <1>2 DEF IsWorld, monitor, Alerts
  <2>2. ASSUME NEW p \in Pids, proc'[p] # Gone
        PROVE  proc'[p].born <= events' /\ (proc'[p].hidden => proc'[p].born \in ghosts')
    <3>1. CASE /\ proc[p] # Gone
               /\ proc'[p].born = proc[p].born /\ proc'[p].hidden = proc[p].hidden
      <4>1. proc[p].born \in Nat /\ proc[p].born <= events
            /\ (proc[p].hidden => proc[p].born \in ghosts)
        BY <3>1, ProcessType DEF Births, Alive, Process
      <4>2. QED  BY <1>1, <1>2, <2>1, <3>1, <4>1 DEF IsWorld
    <3>2. CASE proc'[p].born = events' /\ (proc'[p].hidden => events' \in ghosts')
      BY <2>1, <3>2
    <3>3. QED  BY <1>2, <2>2, <3>1, <3>2 DEF IsWorld
  <2>3. ASSUME NEW i \in 1..Len(Alerts) PROVE Alerts[i].born <= events'
    <3>1. Alerts[i] \in Alert
      BY ProcessType
    <3>2. Alerts[i].born \in Nat /\ Alerts[i].born <= events
      BY <3>1 DEF Births, Alert
    <3>3. QED  BY <1>1, <2>1, <3>2
  <2>4. ASSUME NEW s \in suspect PROVE s.born <= events'
    <3>1. s.born \in Nat /\ s.born <= events
      BY DEF Births, ProcTypeOK
    <3>2. QED  BY <1>1, <2>1, <3>1
  <2>5. since <= events'
    BY <1>1, <2>1 DEF Births
  <2>6. QED  BY <2>1, <2>2, <2>3, <2>4, <2>5 DEF Births, Alive
<1>3. ASSUME NEW kind, NEW p, NEW born \in Nat, IsReported(kind, p, born), born <= events,
             UNCHANGED <<world, since>>, suspect' \subseteq suspect
      PROVE  Births'
  <2>1. PICK a \in Alert : a.born = born /\ Alerts' = Append(Alerts, a)
    BY <1>3 DEF IsReported
  <2>2. \A i \in 1..Len(Alerts') : Alerts'[i].born <= events
    BY <1>3, <2>1, OneMore DEF Births
  <2>3. QED  BY <1>3, <2>2 DEF Births, world, Alive
<1>4. CASE IsLook
  <2>1. CASE IsQuiet
    BY <1>4, <2>1 DEF IsLook, IsQuiet, Births, world, Alive
  <2>2. CASE \E p \in todo, kind \in Marks :
               p \in Alive /\ p \notin reported[kind] /\ IsReported(kind, p, proc[p].born)
    <3>1. PICK p \in Alive, kind \in Marks : IsReported(kind, p, proc[p].born)
      BY <2>2
    <3>2. proc[p].born \in Nat /\ proc[p].born <= events
      BY ProcessType DEF Births, Process
    <3>3. QED  BY <1>3, <1>4, <3>1, <3>2 DEF IsLook
  <2>3. QED  BY <1>4, <2>1, <2>2 DEF IsLook
<1>5. CASE Confirm
  <2>1. PICK s \in suspect :
          /\ suspect' = {} /\ UNCHANGED <<world, since>>
          /\ IsQuiet \/ IsReported("hidden", s.pid, s.born)
    BY <1>5, Confirms
  <2>2. s.born \in Nat /\ s.born <= events
    BY DEF Births, ProcTypeOK
  <2>3. CASE IsQuiet
    BY <2>1, <2>3 DEF IsQuiet, Births, world, Alive
  <2>4. QED  BY <1>3, <2>1, <2>2, <2>3
<1>6. CASE List
  <2>1. IsQuiet
    BY <1>6, QuietSteps
  <2>2. since' = events /\ events <= events /\ UNCHANGED <<world, suspect>>
    BY <1>1, <1>6 DEF List
  <2>3. QED  BY <2>1, <2>2 DEF IsQuiet, Births, world, Alive
<1>7. CASE Suspect
  <2>1. IsQuiet /\ UNCHANGED <<world, since>>
    BY <1>7, QuietSteps DEF Suspect
  <2>2. PICK p \in Pids : suspect' = {} \/ (p \in Alive /\ suspect' = {[pid |-> p, born |-> proc[p].born]})
    BY <1>7 DEF Suspect, ProcTypeOK
  <2>3. \A s \in suspect' : s.born <= events
    BY <2>2 DEF Births
  <2>4. QED  BY <2>1, <2>3 DEF IsQuiet, Births, world, Alive
<1>8. CASE PidsDone \/ Cleanup \/ Send
  <2>1. IsQuiet /\ UNCHANGED <<world, since, suspect>>
    BY <1>8, QuietSteps DEF PidsDone, Cleanup, Send
  <2>2. QED  BY <2>1 DEF IsQuiet, Births, world, Alive
<1>9. QED
  BY <1>2, <1>4, <1>5, <1>6, <1>7, <1>8, WorldSteps, Looks DEF Next, Monitor

\* Every step keeps what a scan has read so far in line with the process table.
LEMMA ReadingStep == ProcTypeOK /\ Reading /\ Births /\ [Next]_vars => Reading'
<1> SUFFICES ASSUME ProcTypeOK, Reading, Births, [Next]_vars PROVE Reading'
  OBVIOUS
<1>1. events \in Nat /\ since \in Nat /\ since <= events
  BY DEF ProcTypeOK, Births
<1>2. CASE IsWorld
  <2>1. UNCHANGED <<at, todo, phase, pids, suspect, hand, since>>
    BY <1>2 DEF IsWorld, monitor
  <2>2. ASSUME NEW p \in Pids, proc'[p] # Gone, ~proc'[p].hidden, proc'[p].born <= since
        PROVE  p \in pids
    <3>1. CASE /\ proc[p] # Gone
               /\ proc'[p].born = proc[p].born /\ proc'[p].hidden = proc[p].hidden
      BY <2>2, <3>1 DEF Reading, Alive
    <3>2. CASE events' = events + 1 /\ proc'[p].born = events'
      BY <1>1, <2>2, <3>2
    <3>3. QED  BY <1>2, <2>2, <3>1, <3>2 DEF IsWorld
  <2>3. QED  BY <2>1, <2>2 DEF Reading, Alive
<1>3. CASE IsLook
  <2>1. suspect' = {}
    BY <1>3 DEF IsLook, Reading
  <2>2. QED  BY <1>3, <2>1 DEF IsLook, Reading, world, Alive
<1>4. CASE Confirm
  <2>1. suspect' = {} /\ UNCHANGED <<world, phase, pids, since, todo, at>>
    BY <1>4, Confirms
  <2>2. QED  BY <2>1 DEF Reading, world, Alive
<1>5. CASE List
  <2>1. at' = {} /\ suspect' = {} /\ phase' = "pids" /\ todo' = Listed /\ pids' = Listed
        /\ UNCHANGED world
    BY <1>5 DEF List, Reading
  <2>2. QED  BY <2>1 DEF Reading, world, Alive, Listed
<1>6. CASE PidsDone
  <2>1. at' = {} /\ phase' = "hidden" /\ suspect' = {} /\ UNCHANGED <<world, pids, since>>
    BY <1>6 DEF PidsDone, Reading
  <2>2. QED  BY <2>1 DEF Reading, world, Alive
<1>7. CASE Suspect
  <2>1. /\ at' = {} /\ phase' = "hidden" /\ hand' = Nothing
        /\ UNCHANGED <<world, pids, since>>
    BY <1>7 DEF Suspect, Reading
  <2>2. QED  BY <2>1 DEF Reading, world, Alive
<1>8. CASE Cleanup
  <2>1. /\ at' = {} /\ phase' = "tick" /\ suspect' = {}
        /\ UNCHANGED <<world, pids, since>>
    BY <1>8 DEF Cleanup, Reading
  <2>2. QED  BY <2>1 DEF Reading, world, Alive
<1>9. CASE Send
  BY <1>9 DEF Send, Reading, world, Alive
<1>10. QED
  BY <1>2, <1>3, <1>4, <1>5, <1>6, <1>7, <1>8, <1>9, WorldSteps, Looks DEF Next, Monitor

-----------------------------------------------------------------------------
(* One report each *)

\* A process that lives after a step of the processes, and was reported or suspected
\* before, lived before.
LEMMA LivedBefore ==
  ASSUME ProcTypeOK, IsWorld, NEW a, a.pid \in Pids, a.born \in Nat, a.born <= events, Lives(a)'
  PROVE  Lives(a) /\ proc'[a.pid].hidden = proc[a.pid].hidden
<1>1. events \in Nat /\ proc'[a.pid] # Gone /\ proc'[a.pid].born = a.born
  BY DEF ProcTypeOK, Lives
<1>2. ~(events' = events + 1 /\ proc'[a.pid].born = events')
  BY <1>1
<1>3. QED  BY <1>1, <1>2 DEF IsWorld, Lives

\* What is reported stays remembered when more is.
LEMMA StillRemembered ==
  ASSUME ProcTypeOK, NEW a \in Alert, Remembered(a), UNCHANGED <<world, pids, phase>>,
         \A k \in Kinds : reported[k] \subseteq reported'[k]
  PROVE  Remembered(a)'
<1>1. a.kind \in Kinds /\ "hidden" \in Kinds
  BY DEF Alert, Kinds
<1>2. QED  BY <1>1 DEF Remembered, world

\* Every step keeps each process alerted on once.
LEMMA OnceStep ==
  ProcTypeOK /\ Births /\ Reading /\ OnceInv /\ [Next]_vars => OnceInv'
<1> SUFFICES ASSUME ProcTypeOK, Births, Reading, OnceInv, [Next]_vars PROVE OnceInv'
  OBVIOUS
<1>1. /\ Alerts \in Seq(Alert) /\ Len(Alerts) \in Nat
      /\ \A i \in 1..Len(Alerts) : /\ Alerts[i] \in Alert /\ Alerts[i].pid \in Pids
                                   /\ Alerts[i].kind \in Kinds
                                   /\ Alerts[i].born \in Nat /\ Alerts[i].born <= events
  <2>1. Alerts \in Seq(Alert)
    BY ProcessType
  <2>2. \A i \in 1..Len(Alerts) : Alerts[i] \in Alert
    BY <2>1
  <2>3. QED  BY <2>1, <2>2 DEF Births, Alert
\* No alert is made, and what is remembered is kept.
<1>2. ASSUME Alerts' = Alerts, suspect' \subseteq suspect,
             \A b \in Alert : b.born <= events /\ (Lives(b) => Remembered(b)) /\ Lives(b)'
                                => Remembered(b)'
      PROVE  OnceInv'
  <2>1. \A i \in 1..Len(Alerts') : Lives(Alerts[i])' => Remembered(Alerts[i])'
    <3>1. ASSUME NEW i \in 1..Len(Alerts) PROVE Lives(Alerts[i])' => Remembered(Alerts[i])'
      <4>1. Lives(Alerts[i]) => Remembered(Alerts[i])
        BY DEF OnceInv
      <4>2. Alerts[i] \in Alert /\ Alerts[i].born <= events /\ Alerts'[i] = Alerts[i]
        BY <1>1, <1>2
      <4>3. QED  BY <1>2, <4>1, <4>2 DEF Lives, Remembered
    <3>2. QED  BY <1>2, <3>1
  <2>2. QED  BY <1>2, <2>1 DEF OnceInv, OncePerProcess
\* An alert is made that was not.
<1>3. ASSUME NEW kind \in Kinds, NEW p \in Pids, NEW born \in Nat,
             IsReported(kind, p, born), suspect' = {}, UNCHANGED <<world, pids, phase>>,
             kind # "hidden" => p \in pids,
             \A i \in 1..Len(Alerts) :
               Alerts[i].kind = kind /\ Alerts[i].pid = p => Alerts[i].born # born
      PROVE  OnceInv'
  <2>1. PICK a \in Alert : /\ a.kind = kind /\ a.pid = p /\ a.born = born
                           /\ Alerts' = Append(Alerts, a)
    BY <1>3 DEF IsReported
  <2>2. /\ Len(Alerts') = Len(Alerts) + 1 /\ Alerts'[Len(Alerts) + 1] = a
        /\ \A i \in 1..Len(Alerts) : Alerts'[i] = Alerts[i]
        /\ \A i \in 1..Len(Alerts') : i \in 1..Len(Alerts) \/ i = Len(Alerts) + 1
    BY <2>1, OneMore
  <2>3. OncePerProcess'
    <3> SUFFICES ASSUME NEW i \in 1..Len(Alerts'), NEW j \in 1..Len(Alerts'), i < j,
                        Alerts'[i].kind = Alerts'[j].kind, Alerts'[i].pid = Alerts'[j].pid
                 PROVE  Alerts'[i].born # Alerts'[j].born
      BY DEF OncePerProcess
    <3>1. i \in 1..Len(Alerts) /\ Alerts'[i] = Alerts[i]
      BY <1>1, <2>2
    <3>2. CASE j \in 1..Len(Alerts)
      BY <2>2, <3>1, <3>2 DEF OnceInv, OncePerProcess
    <3>3. CASE j = Len(Alerts) + 1
      BY <1>3, <2>1, <2>2, <3>1, <3>3
    <3>4. QED  BY <2>2, <3>2, <3>3
  <2>4. /\ reported' = [reported EXCEPT ![kind] = @ \cup {p}]
        /\ \A k \in Kinds : reported[k] \subseteq reported'[k]
        /\ p \in reported'[kind]
    BY <1>3 DEF IsReported, ProcTypeOK
  <2>5. \A b \in Alert : (Lives(b)' => Lives(b)) /\ (Remembered(b) => Remembered(b)')
    <3>1. \A b \in Alert : Lives(b)' => Lives(b)
      BY <1>3 DEF Lives, world
    <3>2. QED  BY <1>3, <2>4, <3>1, StillRemembered
  <2>6. ASSUME NEW i \in 1..Len(Alerts) PROVE Lives(Alerts[i])' => Remembered(Alerts[i])'
    <3>1. Lives(Alerts[i]) => Remembered(Alerts[i])
      BY DEF OnceInv
    <3>2. Alerts[i] \in Alert /\ Alerts'[i] = Alerts[i]
      BY <1>1, <2>2
    <3>3. QED  BY <2>5, <3>1, <3>2 DEF Lives, Remembered
  <2>7. Remembered(a)'
    <3>1. a.kind = "hidden" => a.pid \in reported'["hidden"]
      BY <2>1, <2>4
    <3>2. a.kind # "hidden" => a.pid \in pids' /\ a.pid \in reported'[a.kind]
      BY <1>3, <2>1, <2>4
    <3>3. QED  BY <3>1, <3>2 DEF Remembered
  <2>8. \A i \in 1..Len(Alerts') : Lives(Alerts[i])' => Remembered(Alerts[i])'
    <3>1. ASSUME NEW i \in 1..Len(Alerts'), i = Len(Alerts) + 1 PROVE Remembered(Alerts[i])'
      <4>1. Alerts'[i] = a
        BY <2>2, <3>1
      <4>2. QED  BY <2>7, <4>1 DEF Remembered
    <3>2. QED  BY <2>2, <2>6, <3>1
  <2>9. QED  BY <1>3, <2>3, <2>8 DEF OnceInv
<1>4. CASE IsWorld
  <2>1. /\ Alerts' = Alerts /\ suspect' = suspect
        /\ UNCHANGED <<reported, pids, phase>>
    BY <1>4 DEF IsWorld, monitor, Alerts
  <2>2. ASSUME NEW b \in Alert, b.born <= events, Lives(b) => Remembered(b), Lives(b)'
        PROVE  Remembered(b)'
    <3>1. b.pid \in Pids /\ b.born \in Nat
      BY DEF Alert
    <3>2. Lives(b) /\ proc'[b.pid].hidden = proc[b.pid].hidden
      BY <1>4, <2>2, <3>1, LivedBefore
    <3>3. QED  BY <2>1, <2>2, <3>2 DEF Remembered
  <2>3. QED  BY <1>2, <2>1, <2>2
<1>5. CASE IsLook
  <2>1. phase = "pids" /\ suspect' = {} /\ todo \subseteq pids /\ UNCHANGED <<world, pids, phase>>
    BY <1>5 DEF IsLook, Reading
  <2>2. CASE IsQuiet /\ reported' = reported
    <3>1. \A b \in Alert : (Lives(b) => Remembered(b)) /\ Lives(b)' => Remembered(b)'
      BY <2>1, <2>2 DEF Lives, Remembered, world
    <3>2. QED  BY <1>2, <2>1, <2>2, <3>1 DEF IsQuiet
  <2>3. ASSUME NEW p \in todo, NEW kind \in Marks, p \in Alive, p \notin reported[kind],
               IsReported(kind, p, proc[p].born)
        PROVE  OnceInv'
    <3>1. /\ p \in Pids /\ p \in pids /\ proc[p].born \in Nat /\ proc[p] # Gone
          /\ kind \in Kinds /\ kind # "hidden"
      BY <2>1, <2>3, ProcessType DEF Process, Alive, Kinds, Marks
    <3>2. ASSUME NEW i \in 1..Len(Alerts), Alerts[i].kind = kind, Alerts[i].pid = p,
                 Alerts[i].born = proc[p].born
          PROVE  FALSE
      <4>1. Lives(Alerts[i])
        BY <3>1, <3>2 DEF Lives
      <4>2. Remembered(Alerts[i])
        BY <4>1 DEF OnceInv
      <4>3. QED  BY <2>1, <2>3, <3>1, <3>2, <4>2 DEF Remembered
    <3>3. QED  BY <1>3, <2>1, <2>3, <3>1, <3>2
  <2>4. QED  BY <1>5, <2>2, <2>3 DEF IsLook
<1>6. CASE Confirm
  <2>1. PICK s \in suspect :
          /\ suspect' = {} /\ UNCHANGED <<world, pids, phase>>
          /\ \/ IsQuiet /\ reported' = reported
             \/ IsReported("hidden", s.pid, s.born)
    BY <1>6, Confirms
  <2>2. CASE IsQuiet /\ reported' = reported
    <3>1. \A b \in Alert : (Lives(b) => Remembered(b)) /\ Lives(b)' => Remembered(b)'
      BY <2>1, <2>2 DEF Lives, Remembered, world
    <3>2. QED  BY <1>2, <2>1, <2>2, <3>1 DEF IsQuiet
  <2>3. CASE IsReported("hidden", s.pid, s.born)
    <3>1. s.pid \in Pids /\ s.born \in Nat /\ "hidden" \in Kinds
      BY DEF ProcTypeOK, Kinds
    <3>2. \A i \in 1..Len(Alerts) :
            Alerts[i].kind = "hidden" /\ Alerts[i].pid = s.pid => Alerts[i].born # s.born
      BY DEF OnceInv
    <3>3. QED  BY <1>3, <2>1, <2>3, <3>1, <3>2
  <2>4. QED  BY <2>1, <2>2, <2>3
<1>7. CASE List
  <2>1. Alerts' = Alerts /\ suspect' = {} /\ pids' = Listed /\ UNCHANGED <<world, reported>>
    BY <1>7, QuietSteps DEF List, IsQuiet, Reading
  <2>2. ASSUME NEW b \in Alert, Lives(b) => Remembered(b), Lives(b)' PROVE Remembered(b)'
    <3>1. Lives(b) /\ Remembered(b) /\ proc' = proc
      BY <2>1, <2>2 DEF Lives, world
    <3>2. b.pid \in Alive /\ (b.pid \in Listed <=> ~proc[b.pid].hidden)
      BY <3>1 DEF Lives, Alive, Listed, Alert
    <3>3. QED  BY <2>1, <3>1, <3>2 DEF Remembered
  <2>3. QED  BY <1>2, <2>1, <2>2
<1>8. CASE PidsDone \/ Send
  <2>1. Alerts' = Alerts /\ UNCHANGED <<world, reported, suspect, pids>>
        /\ (phase' = "pids" => phase = "pids")
    BY <1>8, QuietSteps DEF PidsDone, Send, IsQuiet
  <2>2. \A b \in Alert : (Lives(b) => Remembered(b)) /\ Lives(b)' => Remembered(b)'
    BY <2>1 DEF Lives, Remembered, world
  <2>3. QED  BY <1>2, <2>1, <2>2
<1>9. CASE Suspect
  <2>1. Alerts' = Alerts /\ UNCHANGED <<world, reported, pids, phase>>
    BY <1>9, QuietSteps DEF Suspect, IsQuiet
  <2>2. PICK p \in todo :
          suspect' = {} \/ (/\ p \in Alive /\ p \notin reported["hidden"]
                            /\ suspect' = {[pid |-> p, born |-> proc[p].born]})
    BY <1>9 DEF Suspect
  <2>3. ASSUME NEW s \in suspect', NEW i \in 1..Len(Alerts),
               Alerts[i].kind = "hidden", Alerts[i].pid = s.pid, Alerts[i].born = s.born
        PROVE  FALSE
    <3>1. s.pid = p /\ s.born = proc[p].born /\ p \in Alive /\ p \notin reported["hidden"]
      BY <2>2
    <3>2. Lives(Alerts[i])
      BY <2>3, <3>1 DEF Lives, Alive
    <3>3. QED  BY <2>3, <3>1, <3>2 DEF OnceInv, Remembered
  <2>4. \A i \in 1..Len(Alerts) : Lives(Alerts[i])' => Remembered(Alerts[i])'
    BY <2>1 DEF OnceInv, Lives, Remembered, world
  <2>5. QED  BY <2>1, <2>3, <2>4 DEF OnceInv, OncePerProcess
<1>10. CASE Cleanup
  <2>1. /\ Alerts' = Alerts /\ UNCHANGED <<world, suspect, pids>> /\ phase' = "tick"
        /\ reported' = [k \in Kinds |-> Forget(k)]
    BY <1>10, QuietSteps DEF Cleanup, IsQuiet
  <2>2. ASSUME NEW b \in Alert, Lives(b) => Remembered(b), Lives(b)' PROVE Remembered(b)'
    <3>1. Lives(b) /\ Remembered(b) /\ proc' = proc /\ b.kind \in Kinds /\ "hidden" \in Kinds
          /\ b.pid \in Alive
      BY <2>1, <2>2 DEF Lives, world, Alert, Kinds, Alive
    <3>2. CASE b.kind = "hidden"
      BY <2>1, <3>1, <3>2 DEF Remembered, Forget
    <3>3. CASE b.kind # "hidden"
      <4>1. b.pid \in pids => (b.pid \in reported'[b.kind] <=> b.pid \in reported[b.kind])
        BY <2>1, <3>1, <3>3 DEF Forget
      <4>2. proc[b.pid].hidden \/ (b.pid \in pids /\ b.pid \in reported[b.kind])
        BY <3>1, <3>3 DEF Remembered
      <4>3. QED  BY <2>1, <3>1, <3>3, <4>1, <4>2 DEF Remembered
    <3>4. QED  BY <3>2, <3>3
  <2>3. QED  BY <1>2, <2>1, <2>2
<1>11. QED
  BY <1>4, <1>5, <1>6, <1>7, <1>8, <1>9, <1>10, WorldSteps, Looks DEF Next, Monitor

\* No process is reported twice for one thing, in every reachable state.
THEOREM ReportedOnce == Spec => []OncePerProcess
<1>1. Init => Births /\ Reading /\ OnceInv
  BY DEF Init, Births, Reading, OnceInv, OncePerProcess, Alerts, Alive
<1>2. OnceInv => OncePerProcess
  BY DEF OnceInv
<1>3. QED
  BY <1>1, <1>2, TypeCorrect, BirthsStep, ReadingStep, OnceStep, PTL DEF Spec

-----------------------------------------------------------------------------
(* Hidden processes *)

\* Every step keeps each alert on a hidden process explained.
LEMMA HiddenStep ==
  ProcTypeOK /\ Births /\ Reading /\ HiddenInv /\ [Next]_vars => HiddenInv'
<1> SUFFICES ASSUME ProcTypeOK, Births, Reading, HiddenInv, [Next]_vars PROVE HiddenInv'
  OBVIOUS
<1> DEFINE Left(b, g, w) == b.born \in g \/ (b.born > b.since /\ (w[b.pid] = Gone \/ w[b.pid].born # b.born))
<1>1. /\ Alerts \in Seq(Alert) /\ Len(Alerts) \in Nat
      /\ \A i \in 1..Len(Alerts) : /\ Alerts[i] \in Alert /\ Alerts[i].pid \in Pids
                                   /\ Alerts[i].born \in Nat /\ Alerts[i].born <= events
      /\ \A i \in 1..Len(Alerts) : Alerts[i].kind = "hidden" => Left(Alerts[i], ghosts, proc)
  <2>1. Alerts \in Seq(Alert)
    BY ProcessType
  <2>2. \A i \in 1..Len(Alerts) : Alerts[i] \in Alert
    BY <2>1
  <2>3. QED  BY <2>1, <2>2 DEF Births, Alert, HiddenInv, HiddenJustified
\* No alert is made and no process comes.
<1>2. ASSUME Alerts' = Alerts, UNCHANGED world,
             \A s \in suspect' : s.born \in ghosts \/ s.born > since'
      PROVE  HiddenInv'
  BY <1>2 DEF HiddenInv, HiddenJustified, world
<1>3. CASE IsWorld
  <2>1. Alerts' = Alerts /\ suspect' = suspect /\ since' = since /\ ghosts \subseteq ghosts'
    BY <1>3 DEF IsWorld, monitor, Alerts
  <2>2. \A b : b.pid \in Pids /\ b.born \in Nat /\ b.born <= events /\ Lives(b)' => Lives(b)
    BY <1>3, LivedBefore
  <2>3. ASSUME NEW i \in 1..Len(Alerts), Alerts[i].kind = "hidden"
        PROVE  Left(Alerts[i], ghosts', proc')
    <3>1. Left(Alerts[i], ghosts, proc)
      BY <1>1, <2>3
    <3>2. /\ Alerts[i].pid \in Pids /\ Alerts[i].born \in Nat /\ Alerts[i].born <= events
      BY <1>1
    <3>3. QED  BY <2>1, <2>2, <3>1, <3>2 DEF Lives
  <2>4. HiddenJustified'
    BY <2>1, <2>3 DEF HiddenJustified
  <2>5. QED  BY <2>1, <2>4 DEF HiddenInv
\* An alert is made of what is not hidden, or of a suspect that the second list leaves out.
<1>4. ASSUME NEW a \in Alert, Alerts' = Append(Alerts, a), UNCHANGED world, suspect' = {},
             a.kind = "hidden" => Left(a, ghosts, proc)
      PROVE  HiddenInv'
  <2>1. /\ Len(Alerts') = Len(Alerts) + 1 /\ Alerts'[Len(Alerts) + 1] = a
        /\ \A i \in 1..Len(Alerts) : Alerts'[i] = Alerts[i]
        /\ \A i \in 1..Len(Alerts') : i \in 1..Len(Alerts) \/ i = Len(Alerts) + 1
    BY <1>4, OneMore
  <2>2. \A i \in 1..Len(Alerts') : Alerts'[i].kind = "hidden" => Left(Alerts'[i], ghosts, proc)
    BY <1>1, <1>4, <2>1
  <2>3. QED  BY <1>4, <2>2 DEF HiddenInv, HiddenJustified, world
<1>5. CASE IsLook
  <2>1. suspect' = {} /\ UNCHANGED world
    BY <1>5 DEF IsLook, Reading
  <2>2. CASE IsQuiet
    BY <1>2, <2>1, <2>2 DEF IsQuiet
  <2>3. CASE \E p \in todo, kind \in Marks : IsReported(kind, p, proc[p].born)
    <3>1. PICK p \in todo, kind \in Marks : IsReported(kind, p, proc[p].born)
      BY <2>3
    <3>2. PICK a \in Alert : a.kind = kind /\ Alerts' = Append(Alerts, a)
      BY <3>1 DEF IsReported
    <3>3. a.kind # "hidden"
      BY <3>2 DEF Marks
    <3>4. QED  BY <1>4, <2>1, <3>2, <3>3
  <2>4. QED  BY <1>5, <2>2, <2>3 DEF IsLook
<1>6. CASE Confirm
  <2>1. PICK s \in suspect :
          /\ suspect' = {} /\ UNCHANGED world
          /\ IsQuiet \/ (s.pid \notin Listed /\ IsReported("hidden", s.pid, s.born))
    BY <1>6, Confirms
  <2>2. CASE IsQuiet
    BY <1>2, <2>1, <2>2 DEF IsQuiet
  <2>3. CASE s.pid \notin Listed /\ IsReported("hidden", s.pid, s.born)
    <3>1. PICK a \in Alert : /\ a.pid = s.pid /\ a.born = s.born /\ a.since = since
                             /\ Alerts' = Append(Alerts, a)
      BY <2>3 DEF IsReported
    <3>2. s.born \in ghosts \/ s.born > since
      BY DEF HiddenInv
    <3>3. ASSUME proc[s.pid] # Gone, proc[s.pid].born = s.born PROVE s.born \in ghosts
      <4>1. s.pid \in Alive
        BY <3>3 DEF Alive, ProcTypeOK
      <4>2. proc[s.pid].hidden
        BY <2>3, <4>1, ProcessType DEF Listed, Process
      <4>3. QED  BY <3>3, <4>1, <4>2 DEF Births
    <3>4. Left(a, ghosts, proc)
      BY <3>1, <3>2, <3>3
    <3>5. QED  BY <1>4, <2>1, <3>1, <3>4
  <2>4. QED  BY <2>1, <2>2, <2>3
<1>7. CASE List
  <2>1. suspect' = {} /\ Alerts' = Alerts /\ UNCHANGED world
    BY <1>7, QuietSteps DEF List, IsQuiet, Reading
  <2>2. QED  BY <1>2, <2>1
<1>8. CASE PidsDone \/ Cleanup \/ Send
  <2>1. suspect' = suspect /\ since' = since /\ Alerts' = Alerts /\ UNCHANGED world
    BY <1>8, QuietSteps DEF PidsDone, Cleanup, Send, IsQuiet
  <2>2. QED  BY <1>2, <2>1 DEF HiddenInv
<1>9. CASE Suspect
  <2>1. since' = since /\ Alerts' = Alerts /\ UNCHANGED world
    BY <1>9, QuietSteps DEF Suspect, IsQuiet
  <2>2. PICK p \in todo :
          suspect' = {} \/ (/\ p \in Alive /\ p \notin pids
                            /\ suspect' = {[pid |-> p, born |-> proc[p].born]})
    BY <1>9 DEF Suspect
  <2>3. ASSUME p \in Alive, p \notin pids PROVE proc[p].born \in ghosts \/ proc[p].born > since
    <3>1. proc[p].born \in Nat /\ since \in Nat /\ proc[p].hidden \in BOOLEAN
      BY <2>3, ProcessType DEF Process, ProcTypeOK
    <3>2. proc[p].hidden => proc[p].born \in ghosts
      BY <2>3 DEF Births
    <3>3. ~proc[p].hidden => ~(proc[p].born <= since)
      BY <2>3 DEF Reading
    <3>4. QED  BY <3>1, <3>2, <3>3
  <2>4. \A s \in suspect' : s.born \in ghosts \/ s.born > since
    BY <2>2, <2>3
  <2>5. QED  BY <1>2, <2>1, <2>4
<1>10. QED
  BY <1>3, <1>5, <1>6, <1>7, <1>8, <1>9, WorldSteps, Looks DEF Next, Monitor

\* A process that lives through both lists, or was in the first, is never taken for
\* hidden: only one that the listing leaves out, or one that was born after the first
\* list and was dead at the second, in every reachable state.
THEOREM HiddenAreHidden == Spec => []HiddenJustified
<1>1. Init => Births /\ Reading /\ HiddenInv
  BY DEF Init, Births, Reading, HiddenInv, HiddenJustified, Alerts, Alive
<1>2. HiddenInv => HiddenJustified
  BY DEF HiddenInv
<1>3. QED
  BY <1>1, <1>2, TypeCorrect, BirthsStep, ReadingStep, HiddenStep, PTL DEF Spec

=============================================================================
