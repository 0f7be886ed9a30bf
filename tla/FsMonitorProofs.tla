--------------------------- MODULE FsMonitorProofs ---------------------------
(***************************************************************************)
(* The debounce of the file system monitor holds for all sets of paths,    *)
(* all capacities and windows, and wherever the table is pruned.           *)
(***************************************************************************)
EXTENDS FsMonitor, SequenceTheorems, TLAPS

Event == [kind: Kinds, path: Paths, nr: Nat] \cup {Overflow}
Alert == [kind: {"alert"}, event: [kind: Kinds, path: Paths, nr: Nat], at: Nat,
          severity: {"critical", "high", "medium"}]

\* The types of the variables that the debounce depends on.
FsTypeOK ==
  /\ now \in Nat /\ changes \in Nat
  /\ kernel \in Seq(Event) /\ raw \in Seq(Event) /\ callback \in Event \cup {Nothing}
  /\ last \in [Paths -> Nat \cup {Never}]
  /\ hand \in Alert \cup {Nothing} /\ out \in Seq(Alert)

\* What the table remembers of an alert: its instant, or that of a later alert of
\* its path, as long as its window is open.
Remembered ==
  \A i \in 1..Len(Raised) :
    LET p == Raised[i].event.path
    IN  /\ Raised[i].at <= now
        /\ \/ last[p] # Never /\ Raised[i].at <= last[p]
           \/ now - Raised[i].at >= Debounce

WindowInv == Remembered /\ OnePerWindow

-----------------------------------------------------------------------------
(* Types *)

\* The window is positive.
LEMMA DebouncePositive == Debounce \in Nat \ {0}
BY FsAssumption DEF Debounce

\* No alert is taken for the absence of one, and an event of a kind that is not
\* dropped has a path.
LEMMA Distinct ==
  /\ Nothing \notin Alert /\ Nothing \notin Event
  /\ \A event \in Event : event.kind \in DOMAIN Actions =>
       event \in [kind: Kinds, path: Paths, nr: Nat]
BY DEF Nothing, Alert, Event, Overflow, Kinds, Actions

\* What an event is worth.
LEMMA WorthType ==
  ASSUME NEW event \in Event
  PROVE  Worth(event) \in {"critical", "high", "medium", NoSeverity}
BY DEF Worth, Classify, NoSeverity

\* Pruning keeps the type of the table.
LEMMA PrunedType ==
  ASSUME NEW map \in [Paths -> Nat \cup {Never}]
  PROVE  Pruned(map) \in [Paths -> Nat \cup {Never}]
BY DEF Pruned

\* An event that gives an alert.
Alerts(event) ==
  /\ event.kind \in DOMAIN Actions /\ ~InWindow(last[event.path])
  /\ Worth(event) # NoSeverity

\* What HandleEvent does, by whether the event gives an alert.
LEMMA HandleCases ==
  ASSUME HandleEvent
  PROVE  /\ hand = Nothing /\ raw # <<>> /\ raw' = Tail(raw)
         /\ UNCHANGED <<now, changes, kernel, callback, out>>
         /\ \/ UNCHANGED <<last, hand>>
            \/ /\ Alerts(Head(raw))
               /\ last' = Pruned([last EXCEPT ![Head(raw).path] = now])
               /\ hand' = [kind |-> "alert", event |-> Head(raw), at |-> now,
                           severity |-> Worth(Head(raw))]
BY DEF HandleEvent, Alerts

\* Every step keeps the types.
LEMMA StepTypes == FsTypeOK /\ [Next]_vars => FsTypeOK'
<1> SUFFICES ASSUME FsTypeOK, [Next]_vars PROVE FsTypeOK'
  OBVIOUS
<1> USE DEF FsTypeOK
<1>1. CASE Tick
  BY <1>1 DEF Tick
<1>2. CASE Change
  <2>1. PICK p \in Paths, kind \in Kinds :
          LET event == [kind |-> kind, path |-> p, nr |-> changes + 1]
          IN  kernel' = IF Len(kernel) < KernelCapacity THEN Append(kernel, event)
                        ELSE IF Len(kernel) = KernelCapacity THEN Append(kernel, Overflow)
                        ELSE kernel
    BY <1>2 DEF Change
  <2>2. [kind |-> kind, path |-> p, nr |-> changes + 1] \in Event /\ Overflow \in Event
    BY DEF Event
  <2>3. kernel' \in Seq(Event)
    BY <2>1, <2>2
  <2>4. QED  BY <1>2, <2>3 DEF Change
<1>3. CASE TakeEvent
  BY <1>3 DEF TakeEvent
<1>4. CASE BlockingSend
  <2>1. raw' \in Seq(Event)
    BY <1>4 DEF BlockingSend
  <2>2. QED  BY <1>4, <2>1 DEF BlockingSend
<1>5. CASE HandleEvent
  <2>1. raw' \in Seq(Event) /\ Head(raw) \in Event
    <3>1. raw # <<>> /\ raw' = Tail(raw)
      BY <1>5, HandleCases
    <3>2. QED  BY <3>1, HeadTailProperties
  <2>2. CASE UNCHANGED <<last, hand>>
    BY <1>5, <2>1, <2>2, HandleCases
  <2>3. CASE /\ Alerts(Head(raw))
             /\ last' = Pruned([last EXCEPT ![Head(raw).path] = now])
             /\ hand' = [kind |-> "alert", event |-> Head(raw), at |-> now,
                         severity |-> Worth(Head(raw))]
    <3>1. Head(raw) \in [kind: Kinds, path: Paths, nr: Nat]
      BY <2>1, <2>3, Distinct DEF Alerts
    <3>2. hand' \in Alert
      BY <2>1, <2>3, <3>1, WorthType DEF Alerts, Alert
    <3>3. last' \in [Paths -> Nat \cup {Never}]
      BY <2>3, PrunedType
    <3>4. QED  BY <1>5, <2>1, <3>2, <3>3, HandleCases
  <2>4. QED  BY <1>5, <2>2, <2>3, HandleCases
<1>6. CASE Send
  BY <1>6 DEF Send
<1>7. CASE UNCHANGED vars
  BY <1>7 DEF vars
<1>8. QED  BY <1>1, <1>2, <1>3, <1>4, <1>5, <1>6, <1>7 DEF Next

\* Every variable the debounce depends on keeps its type.
THEOREM TypeCorrect == Spec => []FsTypeOK
<1>1. Init => FsTypeOK
  BY DEF Init, FsTypeOK
<1>2. QED  BY <1>1, StepTypes, PTL DEF Spec

-----------------------------------------------------------------------------
(* The window *)

\* A step that raises nothing and does not touch the table keeps the invariant,
\* whatever time has passed.
LEMMA QuietWindow ==
  ASSUME FsTypeOK, FsTypeOK', WindowInv, Raised' = Raised, last' = last, now' >= now
  PROVE  WindowInv'
<1>1. Raised \in Seq(Alert)
  BY DEF FsTypeOK, Raised
<1>2. OnePerWindow'
  BY DEF WindowInv, OnePerWindow
<1>3. ASSUME NEW i \in 1..Len(Raised)
      PROVE  LET p == Raised[i].event.path
             IN  /\ Raised[i].at <= now'
                 /\ \/ last[p] # Never /\ Raised[i].at <= last[p]
                    \/ now' - Raised[i].at >= Debounce
  <2> DEFINE p == Raised[i].event.path
  <2>1. Raised[i] \in Alert
    BY <1>1
  <2>2. Raised[i].at \in Nat /\ now \in Nat /\ now' \in Nat
    BY <2>1 DEF FsTypeOK, Alert
  <2>3. /\ Raised[i].at <= now
        /\ \/ last[p] # Never /\ Raised[i].at <= last[p]
           \/ now - Raised[i].at >= Debounce
    BY DEF WindowInv, Remembered
  <2>4. QED  BY <2>2, <2>3, DebouncePositive
<1>4. Debounce' = Debounce
  BY DEF Debounce
<1>5. Remembered'
  BY <1>3, <1>4 DEF Remembered
<1>6. QED  BY <1>2, <1>5 DEF WindowInv

\* Pruning forgets nothing whose window is open.
LEMMA PrunedKeeps ==
  ASSUME NEW map \in [Paths -> Nat \cup {Never}], NEW p \in Paths
  PROVE  Pruned(map)[p] = map[p] \/ ~InWindow(map[p])
BY DEF Pruned

\* An alert that is raised keeps the invariant: what the table does not remember of
\* its path is out of the window.
LEMMA AlertWindow ==
  ASSUME FsTypeOK, FsTypeOK', WindowInv, now' = now, raw # <<>>,
         Alerts(Head(raw)), hand = Nothing, out' = out,
         last' = Pruned([last EXCEPT ![Head(raw).path] = now]),
         hand' = [kind |-> "alert", event |-> Head(raw), at |-> now,
                  severity |-> Worth(Head(raw))]
  PROVE  WindowInv'
<1> DEFINE q == Head(raw).path
           n == Len(out)
<1>1. q \in Paths
  BY Distinct DEF FsTypeOK, Alerts
<1>2. Raised = out /\ Raised' = Append(out, hand') /\ hand' \in Alert /\ out \in Seq(Alert)
  <2>1. hand' # Nothing
    <3>1. hand'.kind = "alert" /\ Nothing.kind = "nothing"
      BY DEF Nothing
    <3>2. QED  BY <3>1
  <2>2. hand' \in Alert /\ out \in Seq(Alert)
    BY <2>1 DEF FsTypeOK, Nothing
  <2>3. Raised' = IF hand' = Nothing THEN out' ELSE Append(out', hand')
    BY DEF Raised, Nothing
  <2>4. QED  BY <2>1, <2>2, <2>3 DEF Raised
<1>3. /\ Len(Raised') = n + 1 /\ Raised'[n + 1] = hand' /\ n \in Nat
      /\ \A i \in 1..n : Raised'[i] = Raised[i] /\ Raised[i] \in Alert
  BY <1>2
<1>4. hand'.event.path = q /\ hand'.at = now
  OBVIOUS
<1>5. ASSUME NEW i \in 1..n, Raised[i].event.path = q
      PROVE  now - Raised[i].at >= Debounce
  <2>1. Raised[i].at \in Nat /\ now \in Nat /\ last[q] \in Nat \cup {Never}
    BY <1>1, <1>3 DEF FsTypeOK, Alert
  <2>2. /\ ~InWindow(last[q])
        /\ \/ last[q] # Never /\ Raised[i].at <= last[q]
           \/ now - Raised[i].at >= Debounce
    BY <1>2, <1>5 DEF Alerts, WindowInv, Remembered
  <2>3. QED  BY <2>1, <2>2, DebouncePositive DEF InWindow
<1>6. OnePerWindow'
  <2> SUFFICES ASSUME NEW i \in 1..n+1, NEW j \in 1..n+1, i < j,
                      Raised'[i].event.path = Raised'[j].event.path
               PROVE  Raised'[j].at - Raised'[i].at >= Debounce
    BY <1>3 DEF OnePerWindow, Debounce
  <2>1. i \in 1..n
    BY <1>3
  <2>2. CASE j = n + 1
    BY <1>3, <1>4, <1>5, <2>1, <2>2
  <2>3. CASE j # n + 1
    BY <1>2, <1>3, <2>1, <2>3 DEF WindowInv, OnePerWindow
  <2>4. QED  BY <2>2, <2>3
<1>7. \A p \in Paths :
        /\ p = q => last'[p] = now
        /\ p # q => last'[p] = last[p] \/ ~InWindow(last[p])
  <2> DEFINE map == [last EXCEPT ![q] = now]
  <2>1. map \in [Paths -> Nat \cup {Never}] /\ map[q] = now
        /\ \A p \in Paths \ {q} : map[p] = last[p]
    BY <1>1 DEF FsTypeOK
  <2>2. InWindow(now)
    BY DebouncePositive DEF InWindow, FsTypeOK, Never
  <2>3. QED  BY <1>1, <2>1, <2>2, PrunedKeeps
<1>8. Remembered'
  <2> SUFFICES ASSUME NEW i \in 1..n+1
               PROVE  LET p == Raised'[i].event.path
                      IN  /\ Raised'[i].at <= now
                          /\ \/ last'[p] # Never /\ Raised'[i].at <= last'[p]
                             \/ now - Raised'[i].at >= Debounce
    BY <1>3 DEF Remembered, Debounce
  <2>1. now \in Nat /\ now # Never
    BY DEF FsTypeOK, Never
  <2>2. CASE i = n + 1
    <3>1. Raised'[i].event.path = q /\ Raised'[i].at = now
      BY <1>3, <1>4, <2>2
    <3>2. last'[q] = now
      BY <1>1, <1>7
    <3>3. QED  BY <2>1, <3>1, <3>2
  <2>3. CASE i # n + 1
    <3> DEFINE p == Raised[i].event.path
    <3>1. /\ i \in 1..n /\ Raised'[i] = Raised[i] /\ p \in Paths
          /\ Raised[i].at \in Nat
      BY <1>3, <2>3 DEF Alert
    <3>2. /\ Raised[i].at <= now
          /\ \/ last[p] # Never /\ Raised[i].at <= last[p]
             \/ now - Raised[i].at >= Debounce
      BY <1>2, <3>1 DEF WindowInv, Remembered
    <3>3. last[p] \in Nat \cup {Never}
      BY <3>1 DEF FsTypeOK
    <3>4. CASE p = q
      BY <1>7, <2>1, <3>1, <3>2, <3>4
    <3>5. CASE p # q
      <4>1. last'[p] = last[p] \/ ~InWindow(last[p])
        BY <1>7, <3>1, <3>5
      <4>2. ~InWindow(last[p]) => last[p] = Never \/ now - last[p] >= Debounce
        BY <2>1, <3>3, DebouncePositive DEF InWindow, Never
      <4>3. QED  BY <2>1, <3>1, <3>2, <3>3, <4>1, <4>2, DebouncePositive
    <3>6. QED  BY <3>1, <3>4, <3>5
  <2>4. QED  BY <2>2, <2>3
<1>9. QED  BY <1>6, <1>8 DEF WindowInv

\* There is at most one alert per path and window, even across a pruning of the
\* table and a long wait for the dispatcher.
THEOREM Debounces == Spec => []OnePerWindow
<1>1. Init => WindowInv
  BY DEF Init, WindowInv, Remembered, OnePerWindow, Raised
<1>2. FsTypeOK /\ FsTypeOK' /\ WindowInv /\ [Next]_vars => WindowInv'
  <2> SUFFICES ASSUME FsTypeOK, FsTypeOK', WindowInv, [Next]_vars PROVE WindowInv'
    OBVIOUS
  <2>1. CASE Tick \/ Change \/ TakeEvent \/ BlockingSend \/ UNCHANGED vars
    <3>1. Raised' = Raised /\ last' = last /\ now' >= now
      BY <2>1 DEF Tick, Change, TakeEvent, BlockingSend, vars, Raised, FsTypeOK
    <3>2. QED  BY <3>1, QuietWindow
  <2>2. CASE HandleEvent
    <3>1. CASE UNCHANGED <<last, hand>>
      <4>1. Raised' = Raised /\ last' = last /\ now' = now
        BY <2>2, <3>1, HandleCases DEF Raised
      <4>2. QED  BY <4>1, QuietWindow DEF FsTypeOK
    <3>2. CASE ~ UNCHANGED <<last, hand>>
      BY <2>2, <3>2, HandleCases, AlertWindow
    <3>3. QED  BY <3>1, <3>2
  <2>3. CASE Send
    <3>1. Raised' = Raised /\ last' = last /\ now' = now
      BY <2>3 DEF Send, Raised
    <3>2. QED  BY <3>1, QuietWindow DEF FsTypeOK
  <2>4. QED  BY <2>1, <2>2, <2>3 DEF Next
<1>3. WindowInv => OnePerWindow
  BY DEF WindowInv
<1>4. QED  BY <1>1, <1>2, <1>3, TypeCorrect, PTL DEF Spec
=============================================================================
