---------------------------- MODULE ProcessMonitor ---------------------------
(***************************************************************************)
(* The process monitor (owlsentry-daemon/src/monitors/process.rs).  Every  *)
(* few seconds it lists /proc, looks at each pid of the list in turn, and  *)
(* then looks for parents that the list does not show.  It is not alone:   *)
(* between any two of its reads processes are born, change and die, and a  *)
(* pid that is free again may be given to another process (those that are  *)
(* not modelled use up the pids in between).                               *)
(***************************************************************************)
EXTENDS Integers, Sequences, FiniteSets

CONSTANTS
  Pids,       \* pids above 2; the monitor never suspects 1 and 2
  MarkSets,   \* what a process may show: sets of marks
  MaxEvents   \* bound: births and changes of processes

\* What a process may show; "closed" is one whose environment and executable
\* cannot be read, a thread of the kernel for one.
Marks == {"preload", "deleted", "tmp"}
Kinds == Marks \cup {"hidden"}

ASSUME ProcAssumption ==
  /\ Pids \subseteq Nat \ 0..2 /\ MarkSets \subseteq SUBSET (Marks \cup {"closed"})
  /\ MaxEvents \in Nat

VARIABLES
  proc,      \* the processes: born when, of which parent, with which marks, whether
             \* the listing of /proc leaves them out, and (history) whether the
             \* last list showed another process with this pid
  events,    \* births and changes so far
  ghosts,    \* history: the births of processes that are left out
  phase,     \* what the loop does: "tick", "pids" or "hidden"
  pids,      \* the pids of the last list
  since,     \* history: the events before that list
  ppids,     \* the parents it has met
  todo,      \* the pids, or parents, that it has yet to look at
  at,        \* the pid whose environment it has looked at, its executable not yet
  suspect,   \* the parent that exists and was not listed, before the second list
  reported,  \* reported_preload, reported_deleted, reported_tmp, reported_hidden
  hand,      \* the alert that tx.send waits with
  out        \* the alerts sent

world == <<proc, events, ghosts>>
monitor == <<phase, pids, since, ppids, todo, at, suspect, reported, hand, out>>
vars == <<world, monitor>>

Gone == [born |-> 0]
Nothing == [kind |-> "nothing"]
Init1 == 1
Alive == {p \in Pids : proc[p] # Gone}

Init ==
  /\ proc = [p \in Pids |-> Gone] /\ events = 0 /\ ghosts = {}
  /\ phase = "tick" /\ pids = {} /\ since = 0 /\ ppids = {} /\ todo = {}
  /\ at = {} /\ suspect = {}
  /\ reported = [k \in Kinds |-> {}] /\ hand = Nothing /\ out = <<>>

-----------------------------------------------------------------------------
(* The system around the monitor *)

Fork(p) ==
  /\ proc[p] = Gone /\ events < MaxEvents /\ events' = events + 1
  /\ \E parent \in Alive \cup {Init1}, marks \in MarkSets, hidden \in BOOLEAN :
       /\ proc' = [proc EXCEPT ![p] = [born |-> events', parent |-> parent,
                                       marks |-> marks, hidden |-> hidden,
                                       heir |-> p \in pids]]
       /\ ghosts' = IF hidden THEN ghosts \cup {events'} ELSE ghosts
  /\ UNCHANGED monitor

\* Another program in the same process, or its file deleted under it.
Change(p) ==
  /\ p \in Alive /\ events < MaxEvents /\ events' = events + 1
  /\ \E marks \in MarkSets : proc' = [proc EXCEPT ![p].marks = marks]
  /\ UNCHANGED <<ghosts, monitor>>

\* The children of a process that ends are given to init.
Exit(p) ==
  /\ p \in Alive
  /\ proc' = [q \in Pids |->
                IF q = p THEN Gone
                ELSE IF q \in Alive /\ proc[q].parent = p
                     THEN [proc[q] EXCEPT !.parent = Init1] ELSE proc[q]]
  /\ UNCHANGED <<events, ghosts, monitor>>

-----------------------------------------------------------------------------
(* The monitor *)

\* list_proc_pids, as one instant.
Listed == {p \in Alive : ~proc[p].hidden}

List ==
  /\ phase = "tick"
  /\ pids' = Listed /\ todo' = Listed /\ since' = events
  /\ ppids' = {} /\ phase' = "pids"
  /\ UNCHANGED <<world, at, suspect, reported, hand, out>>

Report(kind, p, born) ==
  /\ reported' = [reported EXCEPT ![kind] = @ \cup {p}]
  /\ hand' = [kind |-> kind, pid |-> p, born |-> born, since |-> since]

\* What a look at the process finds.
Shows(p, kind) ==
  p \in Alive /\ kind \in proc[p].marks /\ "closed" \notin proc[p].marks

Fresh(kind, p) == Shows(p, kind) /\ p \notin reported[kind]

\* ppid_of, then the environment: two reads, in one instant here.
ReadEnviron ==
  /\ phase = "pids" /\ hand = Nothing /\ at = {}
  /\ \E p \in todo :
       /\ at' = {p}
       /\ ppids' = IF p \in Alive THEN ppids \cup {proc[p].parent} ELSE ppids
       /\ IF Fresh("preload", p) THEN Report("preload", p, proc[p].born)
          ELSE UNCHANGED <<reported, hand>>
  /\ UNCHANGED <<world, phase, pids, since, todo, suspect, out>>

\* The link to the executable: a deleted file goes before a temporary one, so a
\* process with both marks is reported for the second by the next scan.
ReadExe ==
  /\ phase = "pids" /\ hand = Nothing
  /\ \E p \in at :
       /\ at' = {} /\ todo' = todo \ {p}
       /\ IF Fresh("deleted", p) THEN Report("deleted", p, proc[p].born)
          ELSE IF Fresh("tmp", p) THEN Report("tmp", p, proc[p].born)
          ELSE UNCHANGED <<reported, hand>>
  /\ UNCHANGED <<world, phase, pids, since, ppids, suspect, out>>

PidsDone ==
  /\ phase = "pids" /\ hand = Nothing /\ todo = {}
  /\ phase' = "hidden" /\ todo' = ppids \ 0..2
  /\ UNCHANGED <<world, pids, since, ppids, at, suspect, reported, hand, out>>

\* A parent that exists although the list did not show it.
Suspect ==
  /\ phase = "hidden" /\ hand = Nothing /\ suspect = {}
  /\ \E p \in todo :
       /\ todo' = todo \ {p}
       /\ suspect' = IF p \in pids \cup reported["hidden"] \/ p \notin Alive
                     THEN {} ELSE {[pid |-> p, born |-> proc[p].born]}
  /\ UNCHANGED <<world, phase, pids, since, ppids, at, reported, hand, out>>

\* The second list: only a parent that it does not show either is reported.
Confirm ==
  /\ \E s \in suspect :
       /\ suspect' = {}
       /\ IF s.pid \in Listed THEN UNCHANGED <<reported, hand>>
          ELSE Report("hidden", s.pid, s.born)
  /\ UNCHANGED <<world, phase, pids, since, ppids, todo, at, out>>

\* The slip of judging the reports by the pids left to look at.
Forget_All(kind) == reported[kind] \cap todo

\* The slip of asking whether the pid exists, as for hidden processes.
Forget_ByExistence(kind) == reported[kind] \cap Alive

\* A pid that was not in the list of this scan is forgotten, so that another
\* process with this pid is reported; a hidden one when it has ended.
Forget(kind) ==
  IF kind = "hidden" THEN reported[kind] \cap Alive ELSE reported[kind] \cap pids

Cleanup ==
  /\ phase = "hidden" /\ hand = Nothing /\ suspect = {} /\ todo = {}
  /\ reported' = [k \in Kinds |-> Forget(k)]
  /\ phase' = "tick"
  /\ UNCHANGED <<world, pids, since, ppids, todo, at, suspect, hand, out>>

Send ==
  /\ hand # Nothing /\ out' = Append(out, hand) /\ hand' = Nothing
  /\ UNCHANGED <<world, phase, pids, since, ppids, todo, at, suspect, reported>>

World == \E p \in Pids : Fork(p) \/ Change(p) \/ Exit(p)

Monitor ==
  List \/ ReadEnviron \/ ReadExe \/ PidsDone \/ Suspect \/ Confirm \/ Cleanup \/ Send

Next == World \/ Monitor

Spec == Init /\ [][Next]_vars

\* The timer ticks, the task is polled, and the dispatcher takes its alerts.
FairSpec == Spec /\ WF_vars(Monitor)

-----------------------------------------------------------------------------
(* Properties *)

\* The alerts that were sent or wait to be.
Alerts == IF hand = Nothing THEN out ELSE Append(out, hand)

\* "Un pid n'est signalé qu'une fois par type de problème": no process is
\* reported twice for one thing, however often it is scanned, while pids come,
\* go and come back and the scan works on a list that grows old.
OncePerProcess ==
  \A i, j \in 1..Len(Alerts) :
    i < j /\ Alerts[i].kind = Alerts[j].kind /\ Alerts[i].pid = Alerts[j].pid
      => Alerts[i].born # Alerts[j].born

\* process.rs: "confirmation par une seconde énumération pour éliminer la course
\* « le processus vient de mourir »".  A process that is reported as hidden is one
\* that the listing of /proc leaves out.
HiddenWasHidden ==
  \A i \in 1..Len(Alerts) : Alerts[i].kind = "hidden" => Alerts[i].born \in ghosts

Told(p, kind) ==
  \E i \in 1..Len(out) : out[i].pid = p /\ out[i].kind = kind
                         /\ (out[i].born = proc[p].born \/ proc[p].heir)

HasListedChild(p) == \E child \in Listed : proc[child].parent = p

\* Once processes come, change and go no more, each that still shows something has
\* been reported for it, whatever it did between the reads before; and one that the
\* listing leaves out and whose child is listed, as hidden.  The pid of a process
\* that ended counts as reported if it was used again between two lists, and only
\* then: one that a list did not show is forgotten.
MarkedReported ==
  <>[][~World]_vars =>
    <>[](\A p \in Alive :
           IF proc[p].hidden
           THEN HasListedChild(p) =>
                  \E i \in 1..Len(out) : out[i].pid = p /\ out[i].kind = "hidden"
           ELSE \A kind \in Marks : Shows(p, kind) => Told(p, kind))
=============================================================================
