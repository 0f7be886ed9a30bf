--------------------------- MODULE NetMonitorProofs ---------------------------
(***************************************************************************)
(* Theorems about the network monitor, for all addresses, ports and        *)
(* owners, every threshold, window and size of the sets, and whatever      *)
(* tables the kernel shows.                                                *)
(***************************************************************************)
EXTENDS NetMonitor, FiniteSetTheorems, TLAPS

Key == Ips \cup (Ips \X Ports) \cup (Pids \X Ports)
Kept == [t: Nat, port: Ports]

Alert ==
  [kind: {"scan"}, key: Ips, distinct: Nat, blocked: BOOLEAN, at: Nat, epoch: Nat]
    \cup [kind: {"suspicious"}, key: Ips \X Ports, epoch: Nat]
    \cup [kind: {"shell"}, key: Pids \X Ports, epoch: Nat]
    \cup [kind: {"listener"}, key: Ports, poll: Nat]

\* The types of the variables; the monitor waits for one thing at a time.
NetTypeOK ==
  /\ now \in Nat /\ polls \in Nat
  /\ pass \in {"tick", "listeners", "scan", "established", "bounds"}
  /\ todo \in [left: Seq(Conn), table: Seq(Conn)]
  /\ known \in SUBSET Ports /\ baseline \in BOOLEAN
  /\ probes \in [Ips -> SUBSET Kept] /\ \A ip \in Ips : IsFiniteSet(probes[ip])
  /\ reported \in [Sets -> SUBSET Key] /\ cleared \in [Sets -> Nat]
  /\ block = Nothing \/ block \in [kind: {"block"}, ip: Ips, at: Nat, distinct: Nat]
  /\ hand = Nothing \/ hand \in Alert
  /\ block # Nothing => hand = Nothing
  /\ out \in Seq(Alert)
  /\ seen \in Seq([ip: Ips, port: Ports, t: Nat])
  /\ firewall \in SUBSET Ips
  /\ shown \in Seq(SUBSET Ports) /\ Len(shown) = polls

-----------------------------------------------------------------------------
(* Types *)

\* A connection that is a probe, or that is established, has an address and a port.
LEMMA ConnFields ==
  ASSUME NEW c \in Conn
  PROVE  /\ c.port \in Ports
         /\ c.state \in {"SYN_RECV", "ESTABLISHED"} => c.ip \in Ips
         /\ c.state = "ESTABLISHED" => c.pid \in Pids \cup {NoPid}
BY DEF Conn

\* The window of a scan is a number of seconds.
LEMMA WindowType == Window \in Nat
BY NetAssumption DEF Window

\* The listening ports of a socket table are ports.
LEMMA ListeningType == ASSUME NEW table \in Seq(Conn) PROVE Listening(table) \in SUBSET Ports
BY ConnFields DEF Listening

\* The entry after a probe.
LEMMA RecordProbeType ==
  ASSUME now \in Nat, NEW entry \in SUBSET Kept, IsFiniteSet(entry), NEW port \in Ports
  PROVE  /\ RecordProbe(entry, port) \in SUBSET Kept
         /\ IsFiniteSet(RecordProbe(entry, port))
         /\ Cardinality(RecordProbe(entry, port)) \in Nat
<1> DEFINE kept == {e \in entry : now - e.t < Window}
           new == [t |-> now, port |-> port]
<1>1. kept \in SUBSET Kept /\ IsFiniteSet(kept) /\ new \in Kept
  BY FS_Subset DEF Kept
<1>2. IsFiniteSet(kept \cup {new})
  BY <1>1, FS_AddElement
<1>3. RecordProbe(entry, port) \in {kept, kept \cup {new}}
  BY DEF RecordProbe
<1>4. RecordProbe(entry, port) \in SUBSET Kept /\ IsFiniteSet(RecordProbe(entry, port))
  BY <1>1, <1>2, <1>3
<1>5. QED  BY <1>4, FS_CardinalityType

\* What is left of the table, one connection further.
LEMMA TodoType ==
  ASSUME NetTypeOK
  PROVE  /\ [todo EXCEPT !.left = todo.table] \in [left: Seq(Conn), table: Seq(Conn)]
         /\ todo.left # <<>> =>
              /\ Head(todo.left) \in Conn
              /\ [todo EXCEPT !.left = Tail(@)] \in [left: Seq(Conn), table: Seq(Conn)]
<1>1. todo \in [left: Seq(Conn), table: Seq(Conn)]
  BY DEF NetTypeOK
<1>2. todo.left \in Seq(Conn) /\ todo.table \in Seq(Conn)
  BY <1>1
<1>3. todo.left # <<>> => Head(todo.left) \in Conn /\ Tail(todo.left) \in Seq(Conn)
  BY <1>2
<1>4. QED  BY <1>1, <1>2, <1>3

\* The alerts by kind.
LEMMA AlertKinds ==
  /\ Nothing \notin Alert
  /\ NetTypeOK => \A ip \in Ips, d \in Nat, at \in Nat, b \in BOOLEAN :
                    ScanAlert(ip, d, at, b) \in Alert
  /\ \A e \in Nat, k \in Ips \X Ports : [kind |-> "suspicious", key |-> k, epoch |-> e] \in Alert
  /\ \A e \in Nat, k \in Pids \X Ports : [kind |-> "shell", key |-> k, epoch |-> e] \in Alert
  /\ \A n \in Nat, p \in Ports : [kind |-> "listener", key |-> p, poll |-> n] \in Alert
BY DEF Alert, Nothing, ScanAlert, NetTypeOK, Sets

\* Every step of the monitor, and of the clock, keeps the types.
LEMMA TypeStep == NetTypeOK /\ [Next]_vars => NetTypeOK'
<1> SUFFICES ASSUME NetTypeOK, [Next]_vars PROVE NetTypeOK'
  OBVIOUS
<1>1. CASE Tick
  BY <1>1 DEF Tick, NetTypeOK
<1>2. CASE Poll
  <2>1. PICK table \in Tables : /\ todo' = [left |-> table, table |-> table]
                                /\ shown' = Append(shown, Listening(table))
    BY <1>2 DEF Poll
  <2>2. table \in Seq(Conn) /\ Listening(table) \in SUBSET Ports
    BY NetAssumption, ListeningType
  <2>3. /\ todo' \in [left: Seq(Conn), table: Seq(Conn)]
        /\ shown' \in Seq(SUBSET Ports) /\ Len(shown') = polls + 1
    BY <2>1, <2>2 DEF NetTypeOK
  <2>4. QED  BY <1>2, <2>3 DEF Poll, NetTypeOK
<1>3. CASE Listeners
  <2>1. Listening(todo.table) \in SUBSET Ports
    BY ListeningType DEF NetTypeOK
  <2>2. /\ known' \in SUBSET Ports /\ baseline' \in BOOLEAN
        /\ pass' \in {"listeners", "scan"} /\ todo' = todo
        /\ hand' = Nothing \/ \E p \in Listening(todo.table) :
                               hand' = [kind |-> "listener", key |-> p, poll |-> polls]
    BY <1>3, <2>1 DEF Listeners, Running, NetTypeOK
  <2>3. hand' = Nothing \/ hand' \in Alert
    BY <2>1, <2>2, AlertKinds DEF NetTypeOK
  <2>4. QED  BY <1>3, <2>2, <2>3 DEF Listeners, Running, NetTypeOK
<1>4. CASE Scan
  <2>1. CASE todo.left = <<>>
    <3>1. todo' \in [left: Seq(Conn), table: Seq(Conn)] /\ pass' = "established"
      BY <1>4, <2>1, TodoType DEF Scan
    <3>2. QED  BY <1>4, <2>1, <3>1 DEF Scan, NetTypeOK
  <2>2. CASE todo.left # <<>>
    <3> DEFINE c == Head(todo.left)
    <3>1. c \in Conn /\ todo' \in [left: Seq(Conn), table: Seq(Conn)] /\ pass' = pass
      BY <1>4, <2>2, TodoType DEF Scan
    <3>2. CASE ~IsProbe(c)
      BY <1>4, <2>2, <3>1, <3>2 DEF Scan, NetTypeOK
    <3>3. CASE IsProbe(c)
      <4> DEFINE entry == RecordProbe(probes[c.ip], c.port)
                 distinct == Cardinality(entry)
      <4>1. c.ip \in Ips /\ c.port \in Ports
        BY <3>1, <3>3, ConnFields DEF IsProbe
      <4>2. entry \in SUBSET Kept /\ IsFiniteSet(entry) /\ distinct \in Nat
        BY <4>1, RecordProbeType DEF NetTypeOK
      <4>3. Probe(c) /\ hand = Nothing /\ block = Nothing
        BY <1>4, <2>2, <3>3 DEF Scan, Running
      <4>4. seen' \in Seq([ip: Ips, port: Ports, t: Nat])
        BY <4>1, <4>3 DEF Probe, NetTypeOK
      <4>5. probes' \in [Ips -> SUBSET Kept] /\ \A ip \in Ips : IsFiniteSet(probes'[ip])
        <5>1. PICK e \in {{}, entry} : probes' = [probes EXCEPT ![c.ip] = e]
          BY <4>3 DEF Probe
        <5>2. e \in SUBSET Kept /\ IsFiniteSet(e)
          BY <4>2, FS_EmptySet
        <5> HIDE DEF entry, c
        <5>3. QED  BY <4>1, <5>1, <5>2 DEF NetTypeOK
      <4>6. reported' \in [Sets -> SUBSET Key]
        BY <4>1, <4>3 DEF Probe, NetTypeOK, Key
      <4>7. /\ block' = Nothing \/ block' \in [kind: {"block"}, ip: Ips, at: Nat, distinct: Nat]
            /\ hand' = Nothing \/ hand' \in Alert
            /\ block' # Nothing => hand' = Nothing
        BY <4>1, <4>2, <4>3, AlertKinds DEF Probe, NetTypeOK
      <4>8. QED
        BY <1>4, <3>1, <4>4, <4>5, <4>6, <4>7 DEF Scan, NetTypeOK
    <3>4. QED  BY <3>2, <3>3
  <2>3. QED  BY <2>1, <2>2
<1>5. CASE Blocked
  <2>1. block.ip \in Ips /\ block.at \in Nat /\ block.distinct \in Nat
    BY <1>5 DEF Blocked, NetTypeOK
  <2>2. hand' \in Alert /\ firewall' \in SUBSET Ips
    <3>1. \A b \in BOOLEAN : ScanAlert(block.ip, block.distinct, block.at, b) \in Alert
      BY <2>1, AlertKinds
    <3>2. \E b \in BOOLEAN : hand' = ScanAlert(block.ip, block.distinct, block.at, b)
      BY <1>5 DEF Blocked
    <3>3. firewall' \in SUBSET Ips
      BY <1>5, <2>1 DEF Blocked, NetTypeOK
    <3>4. QED  BY <3>1, <3>2, <3>3
  <2>3. probes' \in [Ips -> SUBSET Kept] /\ \A ip \in Ips : IsFiniteSet(probes'[ip])
    BY <1>5, <2>1, FS_EmptySet DEF Blocked, NetTypeOK
  <2>4. QED  BY <1>5, <2>2, <2>3 DEF Blocked, NetTypeOK
<1>6. CASE Established
  <2> DEFINE c == Head(todo.left)
  <2>1. CASE todo.left = <<>>
    BY <1>6, <2>1 DEF Established, NetTypeOK
  <2>2. CASE todo.left # <<>>
    <3>1. c \in Conn /\ todo' \in [left: Seq(Conn), table: Seq(Conn)] /\ pass' = pass
      <4>1. todo' = todo \/ todo' = [todo EXCEPT !.left = Tail(@)]
        BY <1>6, <2>2 DEF Established
      <4>2. QED  BY <1>6, <2>2, <4>1, TodoType DEF Established, NetTypeOK
    <3>2. (reported' = reported /\ hand' = hand) \/
          \E set \in Sets : \E key \in Key :
            Report(set, key) /\ [kind |-> set, key |-> key, epoch |-> cleared[set]] \in Alert
      <4>1. \A set \in Sets : cleared[set] \in Nat
        BY DEF NetTypeOK
      <4>2. CASE IsEstablished(c) /\ Suspicious(c)
        <5>1. <<c.ip, c.port>> \in Ips \X Ports /\ Report("suspicious", <<c.ip, c.port>>)
          BY <1>6, <2>2, <3>1, <4>2, ConnFields DEF Established, IsEstablished
        <5>2. QED  BY <4>1, <5>1, AlertKinds DEF Sets, Key
      <4>3. CASE IsEstablished(c) /\ ~Suspicious(c) /\ Shell(c)
        <5>1. <<c.pid, c.port>> \in Pids \X Ports /\ Report("shell", <<c.pid, c.port>>)
          BY <1>6, <2>2, <3>1, <4>3, ConnFields, NetAssumption
             DEF Established, IsEstablished, Shell
        <5>2. QED  BY <4>1, <5>1, AlertKinds DEF Sets, Key
      <4>4. QED  BY <1>6, <2>2, <4>2, <4>3 DEF Established
    <3>3. reported' \in [Sets -> SUBSET Key] /\ (hand' = Nothing \/ hand' \in Alert)
      <4>1. CASE reported' = reported /\ hand' = hand
        BY <4>1 DEF NetTypeOK
      <4>2. ASSUME NEW set \in Sets, NEW key \in Key, Report(set, key),
                   [kind |-> set, key |-> key, epoch |-> cleared[set]] \in Alert
            PROVE  reported' \in [Sets -> SUBSET Key] /\ hand' \in Alert
        BY <4>2 DEF Report, NetTypeOK
      <4>3. QED  BY <3>2, <4>1, <4>2
    <3>4. QED
      BY <1>6, <3>1, <3>3 DEF Established, Running, NetTypeOK
  <2>3. QED  BY <2>1, <2>2
<1>7. CASE Send
  BY <1>7 DEF Send, NetTypeOK
<1>8. CASE Bounds
  BY <1>8 DEF Bounds, NetTypeOK
<1>9. CASE UNCHANGED vars
  BY <1>9 DEF vars, NetTypeOK
<1>10. QED
  BY <1>1, <1>2, <1>3, <1>4, <1>5, <1>6, <1>7, <1>8, <1>9 DEF Next

\* The state of the monitor keeps its type, and it never waits for firewall-cmd and
\* for the dispatcher at once.
THEOREM TypeCorrect == Spec => []NetTypeOK
<1>1. Init => NetTypeOK
  <2> SUFFICES ASSUME Init PROVE NetTypeOK
    OBVIOUS
  <2>1. /\ probes \in [Ips -> SUBSET Kept] /\ \A ip \in Ips : IsFiniteSet(probes[ip])
    BY FS_EmptySet DEF Init
  <2>2. reported \in [Sets -> SUBSET Key] /\ cleared \in [Sets -> Nat]
    BY DEF Init
  <2>3. todo \in [left: Seq(Conn), table: Seq(Conn)]
    BY DEF Init
  <2>4. seen \in Seq([ip: Ips, port: Ports, t: Nat])
    BY DEF Init
  <2>5. out \in Seq(Alert) /\ shown \in Seq(SUBSET Ports) /\ Len(shown) = polls
    BY DEF Init
  <2>6. known \in SUBSET Ports /\ firewall \in SUBSET Ips /\ baseline \in BOOLEAN
    BY DEF Init
  <2>7. block = Nothing /\ hand = Nothing /\ now \in Nat /\ polls \in Nat /\ pass = "tick"
    BY DEF Init
  <2>8. QED  BY <2>1, <2>2, <2>3, <2>4, <2>5, <2>6, <2>7 DEF NetTypeOK
<1>2. QED  BY <1>1, TypeStep, PTL DEF Spec
-----------------------------------------------------------------------------
(* What a step does to the alerts and to what remembers them *)

\* The alerts that were sent and the one that waits to be, in order.
All == IF hand = Nothing THEN out ELSE Append(out, hand)

\* No alert more, none less.
AlertsStay == All' = All /\ Alerts' = Alerts

\* The alert a is made.
AlertsAdd(a) ==
  /\ a \in Alert /\ hand = Nothing /\ All' = Append(All, a) /\ Alerts' = Alerts \cup {a}

\* Nothing is reported in this step.
IsQuiet == AlertsStay /\ UNCHANGED <<reported, cleared, block, firewall>>

\* A port is reported that listens.
IsListed ==
  \E a : AlertsAdd(a) /\ a.kind = "listener" /\ UNCHANGED <<reported, cleared, block, firewall>>

\* Something is reported that set s did not hold.
IsReported(s) ==
  \E a : /\ AlertsAdd(a) /\ a.kind = s /\ a.epoch = cleared[s] /\ a.key \notin reported[s]
         /\ s = "scan" => a.blocked = FALSE
         /\ reported' = [reported EXCEPT ![s] = @ \cup {a.key}]
         /\ block = Nothing /\ UNCHANGED <<cleared, block, firewall>>

\* A scan is found whose address is to be blocked.
IsFound ==
  /\ AlertsStay /\ block = Nothing /\ block' # Nothing /\ block'.ip \in Ips
  /\ block'.ip \notin Local \cup NeverBlock \cup reported["scan"]
  /\ reported' = [reported EXCEPT !["scan"] = @ \cup {block'.ip}]
  /\ UNCHANGED <<cleared, firewall>>

\* firewall-cmd has ended.
IsBlocked ==
  \E a : /\ AlertsAdd(a) /\ a.kind = "scan" /\ a.epoch = cleared["scan"]
         /\ block # Nothing /\ block' = Nothing /\ a.key = block.ip
         /\ firewall' = IF a.blocked THEN firewall \cup {a.key} ELSE firewall
         /\ UNCHANGED <<reported, cleared>>

\* Some sets are cleared whole.
IsCleared ==
  /\ AlertsStay /\ block = Nothing /\ UNCHANGED <<block, firewall>>
  /\ \A s \in Sets : \/ reported'[s] = reported[s] /\ cleared'[s] = cleared[s]
                     \/ reported'[s] = {} /\ cleared'[s] = cleared[s] + 1

\* An alert that is made is the last of all.
LEMMA HandFilled ==
  ASSUME NetTypeOK, hand = Nothing, out' = out, hand' \in Alert
  PROVE  AlertsAdd(hand')
<1>1. hand' # Nothing
  BY AlertKinds
<1>2. All' = Append(All, hand')
  BY <1>1 DEF All
<1>3. Alerts' = Alerts \cup {hand'}
  BY <1>1 DEF Alerts
<1>4. QED  BY <1>2, <1>3 DEF AlertsAdd

\* The dispatcher takes an alert: it was made before.
LEMMA SendStays == NetTypeOK /\ Send => AlertsStay
<1> SUFFICES ASSUME NetTypeOK, Send PROVE AlertsStay
  OBVIOUS
<1>1. hand' = Nothing /\ out' = Append(out, hand) /\ hand # Nothing /\ out \in Seq(Alert)
  BY DEF Send, NetTypeOK
<1>2. All' = All
  BY <1>1 DEF All
<1>3. /\ Len(out') = Len(out) + 1 /\ out'[Len(out) + 1] = hand
      /\ \A i \in 1..Len(out) : out'[i] = out[i]
  BY <1>1
<1>4. 1..Len(out') = (1..Len(out)) \cup {Len(out) + 1}
  BY <1>1, <1>3
<1>5. {out'[i] : i \in 1..Len(out')} = {out[i] : i \in 1..Len(out)} \cup {hand}
  BY <1>3, <1>4
<1>6. Alerts' = Alerts
  BY <1>1, <1>5 DEF Alerts
<1>7. QED  BY <1>2, <1>6 DEF AlertsStay

\* Every step is one of these.
LEMMA Steps ==
  ASSUME NetTypeOK, [Next]_vars
  PROVE  IsQuiet \/ IsListed \/ (\E s \in Sets : IsReported(s)) \/ IsFound \/ IsBlocked
           \/ IsCleared
<1>1. UNCHANGED <<hand, out>> => AlertsStay
  BY DEF AlertsStay, All, Alerts
<1>2. CASE Tick \/ Poll \/ UNCHANGED vars
  BY <1>1, <1>2 DEF Tick, Poll, vars, IsQuiet
<1>3. CASE Listeners
  <2>1. out' = out /\ hand = Nothing /\ UNCHANGED <<reported, cleared, block, firewall>>
    BY <1>3 DEF Listeners, Running
  <2>2. CASE hand' = hand
    BY <1>1, <2>1, <2>2 DEF IsQuiet
  <2>3. CASE hand' # hand
    <3>1. hand'.kind = "listener" /\ hand' \in Alert
      <4>1. hand' \in Alert
        BY <2>1, <2>3, TypeStep DEF NetTypeOK
      <4>2. \E p : hand' = [kind |-> "listener", key |-> p, poll |-> polls]
        BY <1>3, <2>3 DEF Listeners
      <4>3. QED  BY <4>1, <4>2
    <3>2. QED  BY <2>1, <3>1, HandFilled DEF IsListed
  <2>4. QED  BY <2>2, <2>3
<1>4. CASE Scan
  <2>1. out' = out /\ hand = Nothing /\ block = Nothing /\ UNCHANGED <<cleared, firewall>>
    BY <1>4 DEF Scan, Running
  <2>2. CASE UNCHANGED <<reported, block, hand>>
    BY <1>1, <2>1, <2>2 DEF IsQuiet
  <2>3. CASE ~UNCHANGED <<reported, block, hand>>
    <3> DEFINE c == Head(todo.left)
               entry == RecordProbe(probes[c.ip], c.port)
    <3>1. c \in Conn /\ IsProbe(c) /\ Probe(c)
      BY <1>4, <2>3, TodoType DEF Scan
    <3>2. c.ip \in Ips \ Local
      BY <3>1, ConnFields DEF IsProbe
    <3>3. /\ IsScan(Cardinality(entry)) /\ c.ip \notin reported["scan"]
          /\ reported' = [reported EXCEPT !["scan"] = @ \cup {c.ip}]
      BY <2>3, <3>1 DEF Probe
    <3>4. CASE FirewalldBlock /\ c.ip \notin NeverBlock
      <4>1. /\ block' = [kind |-> "block", ip |-> c.ip, at |-> now, distinct |-> Cardinality(entry)]
            /\ hand' = hand
        BY <3>1, <3>3, <3>4 DEF Probe
      <4>2. block' # Nothing /\ block'.ip = c.ip
        BY <4>1 DEF Nothing
      <4> HIDE DEF c, entry
      <4>3. QED  BY <1>1, <2>1, <3>2, <3>3, <3>4, <4>1, <4>2 DEF IsFound
    <3>5. CASE ~(FirewalldBlock /\ c.ip \notin NeverBlock)
      <4>1. hand' = ScanAlert(c.ip, Cardinality(entry), now, FALSE) /\ block' = block
        BY <3>1, <3>3, <3>5 DEF Probe
      <4>2. /\ hand'.kind = "scan" /\ hand'.key = c.ip /\ hand'.epoch = cleared["scan"]
            /\ hand'.blocked = FALSE /\ hand' # Nothing
        BY <4>1 DEF ScanAlert, Nothing
      <4>3. hand' \in Alert
        BY <4>2, TypeStep DEF NetTypeOK
      <4> HIDE DEF c, entry
      <4>4. IsReported("scan")
        BY <2>1, <3>3, <4>1, <4>2, <4>3, HandFilled DEF IsReported
      <4>5. QED  BY <4>4 DEF Sets
    <3>6. QED  BY <3>4, <3>5
  <2>4. QED  BY <2>2, <2>3
<1>5. CASE Blocked
  <2>1. PICK b \in BOOLEAN :
          /\ hand' = ScanAlert(block.ip, block.distinct, block.at, b)
          /\ firewall' = IF b THEN firewall \cup {block.ip} ELSE firewall
    BY <1>5 DEF Blocked
  <2>2. /\ hand'.kind = "scan" /\ hand'.key = block.ip /\ hand'.epoch = cleared["scan"]
        /\ hand'.blocked = b /\ hand' # Nothing
    BY <2>1 DEF ScanAlert, Nothing
  <2>3. hand' \in Alert /\ hand = Nothing /\ out' = out
    BY <1>5, <2>2, TypeStep DEF NetTypeOK, Blocked
  <2>4. block # Nothing /\ block' = Nothing /\ UNCHANGED <<reported, cleared>>
    BY <1>5 DEF Blocked
  <2>5. QED  BY <2>1, <2>2, <2>3, <2>4, HandFilled DEF IsBlocked
<1>6. CASE Established
  <2>1. /\ out' = out /\ hand = Nothing /\ block = Nothing
        /\ UNCHANGED <<cleared, block, firewall>>
    BY <1>6 DEF Established, Running
  <2>2. CASE UNCHANGED <<reported, hand>>
    BY <1>1, <2>1, <2>2 DEF IsQuiet
  <2>3. CASE ~UNCHANGED <<reported, hand>>
    <3>1. PICK s \in {"suspicious", "shell"} : \E key : key \notin reported[s] /\ Report(s, key)
      BY <1>6, <2>3 DEF Established, Suspicious, Shell
    <3>2. PICK key : key \notin reported[s] /\ Report(s, key)
      BY <3>1
    <3>3. hand'.kind = s /\ hand'.key = key /\ hand'.epoch = cleared[s] /\ hand' # Nothing
      BY <3>2 DEF Report, Nothing
    <3>4. hand' \in Alert /\ s \in Sets /\ s # "scan"
      BY <3>3, TypeStep DEF NetTypeOK, Sets
    <3>5. reported' = [reported EXCEPT ![s] = @ \cup {key}]
      BY <3>2 DEF Report
    <3>6. IsReported(s)
      BY <2>1, <3>2, <3>3, <3>4, <3>5, HandFilled DEF IsReported
    <3>7. QED  BY <3>4, <3>6
  <2>4. QED  BY <2>2, <2>3
<1>7. CASE Send
  BY <1>7, SendStays DEF Send, IsQuiet
<1>8. CASE Bounds
  <2>1. hand' = hand /\ out' = out /\ block = Nothing /\ UNCHANGED <<block, firewall>>
    BY <1>8 DEF Bounds, Running
  <2>2. \A s \in Sets : \/ reported'[s] = reported[s] /\ cleared'[s] = cleared[s]
                        \/ reported'[s] = {} /\ cleared'[s] = cleared[s] + 1
    BY <1>8 DEF Bounds, NetTypeOK
  <2>3. QED  BY <1>1, <2>1, <2>2 DEF IsCleared
<1>9. QED  BY <1>2, <1>3, <1>4, <1>5, <1>6, <1>7, <1>8 DEF Next

-----------------------------------------------------------------------------
(* Blocks *)

\* Beside what BlocksTold says: nor is an address about to be blocked that must not be.
BlockInv ==
  /\ BlocksTold
  /\ block # Nothing => block.ip \in Ips \ (Local \cup NeverBlock)

\* The alerts say that an address is blocked exactly when the firewall was made to,
\* and no exempt or local address ever is, in every reachable state.
THEOREM BlocksAreTold == Spec => []BlocksTold
<1> DEFINE told(S) == {a.key : a \in {b \in S : b.kind = "scan" /\ b.blocked}}
<1>1. Init => BlockInv
  <2> SUFFICES ASSUME Init PROVE BlockInv
    OBVIOUS
  <2>1. Alerts = {} /\ firewall = {} /\ block = Nothing
    BY DEF Init, Alerts
  <2>2. QED  BY <2>1 DEF BlockInv, BlocksTold
<1>2. NetTypeOK /\ BlockInv /\ [Next]_vars => BlockInv'
  <2> SUFFICES ASSUME NetTypeOK, BlockInv, [Next]_vars PROVE BlockInv'
    OBVIOUS
  <2>1. told(Alerts) = firewall /\ firewall \cap (Local \cup NeverBlock) = {}
        /\ (block # Nothing => block.ip \in Ips \ (Local \cup NeverBlock))
    BY DEF BlockInv, BlocksTold
  <2> SUFFICES told(Alerts') = firewall' /\ firewall' \cap (Local \cup NeverBlock) = {}
               /\ (block' # Nothing => block'.ip \in Ips \ (Local \cup NeverBlock))
    BY DEF BlockInv, BlocksTold
  <2>2. CASE IsQuiet \/ IsCleared
    BY <2>1, <2>2 DEF IsQuiet, IsCleared, AlertsStay
  <2>3. CASE IsListed
    BY <2>1, <2>3 DEF IsListed, AlertsAdd
  <2>4. CASE \E s \in Sets : IsReported(s)
    <3>1. PICK a : /\ Alerts' = Alerts \cup {a} /\ (a.kind = "scan" => a.blocked = FALSE)
                   /\ UNCHANGED <<block, firewall>>
      BY <2>4 DEF IsReported, AlertsAdd
    <3>2. QED  BY <2>1, <3>1
  <2>5. CASE IsFound
    BY <2>1, <2>5 DEF IsFound, AlertsStay
  <2>6. CASE IsBlocked
    <3>1. PICK a : /\ Alerts' = Alerts \cup {a} /\ a.kind = "scan" /\ a.key = block.ip
                   /\ a \in Alert /\ block # Nothing /\ block' = Nothing
                   /\ firewall' = IF a.blocked THEN firewall \cup {a.key} ELSE firewall
      BY <2>6 DEF IsBlocked, AlertsAdd
    <3>2. told(Alerts') = IF a.blocked THEN told(Alerts) \cup {a.key} ELSE told(Alerts)
      BY <3>1
    <3>3. QED  BY <2>1, <3>1, <3>2
  <2>7. QED  BY <2>2, <2>3, <2>4, <2>5, <2>6, Steps
<1>3. BlockInv => BlocksTold
  BY DEF BlockInv
<1>4. QED  BY <1>1, <1>2, <1>3, TypeCorrect, PTL DEF Spec

-----------------------------------------------------------------------------
(* Repetitions *)

\* Alerts of the present epoch of their set are in the set, the address to be blocked
\* is in it too and has no such alert yet, and the alert in hand is no repetition.
RepeatInv ==
  /\ \A i, j \in 1..Len(All) :
       i < j /\ All[i].kind \in Sets /\ All[i].kind = All[j].kind /\ All[i].key = All[j].key
         => All[i].epoch < All[j].epoch
  /\ \A i \in 1..Len(All) : All[i].kind \in Sets =>
       /\ All[i].epoch \in Nat /\ All[i].epoch <= cleared[All[i].kind]
       /\ All[i].epoch = cleared[All[i].kind] => All[i].key \in reported[All[i].kind]
  /\ block # Nothing =>
       /\ block.ip \in reported["scan"]
       /\ \A i \in 1..Len(All) :
            All[i].kind = "scan" /\ All[i].key = block.ip => All[i].epoch < cleared["scan"]
\* One more element.
LEMMA AppendAll ==
  ASSUME NetTypeOK, NEW a, AlertsAdd(a)
  PROVE  LET n == Len(All)
         IN  /\ n \in Nat /\ Len(All') = n + 1 /\ All'[n + 1] = a
             /\ \A i \in 1..n : All'[i] = All[i]
             /\ \A i \in 1..Len(All') : i \in 1..n \/ i = n + 1
<1>1. All \in Seq(Alert)
  BY DEF All, NetTypeOK
<1>2. All' = Append(All, a)
  BY DEF AlertsAdd
<1>3. QED  BY <1>1, <1>2

\* No scan, suspicious connection or shell is reported twice while it is remembered,
\* in every reachable state.
THEOREM ReportsAreNew == Spec => []NoRepeats
<1>1. Init => RepeatInv
  <2> SUFFICES ASSUME Init PROVE RepeatInv
    OBVIOUS
  <2>1. 1..Len(All) = {} /\ block = Nothing
    BY DEF Init, All
  <2>2. QED  BY <2>1 DEF RepeatInv
<1>2. NetTypeOK /\ RepeatInv /\ [Next]_vars => RepeatInv'
  <2> SUFFICES ASSUME NetTypeOK, RepeatInv, [Next]_vars PROVE RepeatInv'
    OBVIOUS
  <2> DEFINE n == Len(All)
             new(a) == \A i \in 1..n :
               All[i].kind \in Sets /\ All[i].kind = a.kind /\ All[i].key = a.key
                 => All[i].epoch < a.epoch
  <2>1. \A s \in Sets : cleared[s] \in Nat
    BY DEF NetTypeOK
  <2>2. \A i \in 1..n : All[i].kind \in Sets =>
          /\ All[i].epoch \in Nat /\ All[i].epoch <= cleared[All[i].kind]
          /\ All[i].epoch = cleared[All[i].kind] => All[i].key \in reported[All[i].kind]
    BY DEF RepeatInv
  <2>3. ASSUME NEW a, AlertsAdd(a), new(a), cleared' = cleared, block' = Nothing,
               \A s \in Sets : reported[s] \subseteq reported'[s],
               a.kind \in Sets => a.epoch = cleared[a.kind] /\ a.key \in reported'[a.kind]
        PROVE  RepeatInv'
    <3>1. /\ n \in Nat /\ Len(All') = n + 1 /\ All'[n + 1] = a
          /\ \A i \in 1..n : All'[i] = All[i]
          /\ \A i \in 1..Len(All') : i \in 1..n \/ i = n + 1
      BY <2>3, AppendAll
    <3>2. ASSUME NEW i \in 1..Len(All'), NEW j \in 1..Len(All'), i < j, All'[i].kind \in Sets,
                 All'[i].kind = All'[j].kind, All'[i].key = All'[j].key
          PROVE  All'[i].epoch < All'[j].epoch
      <4>1. i \in 1..n
        BY <3>1, <3>2
      <4>2. CASE j = n + 1
        BY <2>3, <3>1, <3>2, <4>1, <4>2
      <4>3. CASE j \in 1..n
        BY <3>1, <3>2, <4>1, <4>3 DEF RepeatInv
      <4>4. QED  BY <3>1, <4>2, <4>3
    <3>3. ASSUME NEW i \in 1..Len(All'), All'[i].kind \in Sets
          PROVE  /\ All'[i].epoch \in Nat /\ All'[i].epoch <= cleared'[All'[i].kind]
                 /\ All'[i].epoch = cleared'[All'[i].kind] =>
                      All'[i].key \in reported'[All'[i].kind]
      <4>1. CASE i = n + 1
        <5>1. All'[i] = a /\ a.epoch = cleared[a.kind] /\ a.key \in reported'[a.kind]
              /\ cleared[a.kind] \in Nat
          BY <2>1, <2>3, <3>1, <3>3, <4>1
        <5>2. QED  BY <2>3, <5>1
      <4>2. CASE i \in 1..n
        BY <2>2, <2>3, <3>1, <3>3, <4>2
      <4>3. QED  BY <3>1, <4>1, <4>2
    <3>4. QED  BY <2>3, <3>2, <3>3 DEF RepeatInv
  <2>4. CASE IsQuiet
    BY <2>4 DEF IsQuiet, AlertsStay, RepeatInv
  <2>5. CASE IsListed
    <3>1. PICK a : AlertsAdd(a) /\ a.kind = "listener"
                   /\ UNCHANGED <<reported, cleared, block, firewall>>
      BY <2>5 DEF IsListed
    <3>2. a.kind \notin Sets /\ new(a)
      BY <3>1 DEF Sets
    <3>3. /\ n \in Nat /\ Len(All') = n + 1 /\ All'[n + 1] = a
          /\ \A i \in 1..n : All'[i] = All[i]
          /\ \A i \in 1..Len(All') : i \in 1..n \/ i = n + 1
      BY <3>1, AppendAll
    <3>4. \A i \in 1..Len(All') : All'[i].kind \in Sets => i \in 1..n
      BY <3>2, <3>3
    <3>5. a.kind # "scan"
      BY <3>1
    <3>6. QED  BY <3>1, <3>2, <3>3, <3>4, <3>5 DEF RepeatInv
  <2>6. ASSUME NEW s \in Sets, IsReported(s) PROVE RepeatInv'
    <3>1. PICK a : /\ AlertsAdd(a) /\ a.kind = s /\ a.epoch = cleared[s]
                   /\ a.key \notin reported[s]
                   /\ reported' = [reported EXCEPT ![s] = @ \cup {a.key}]
                   /\ block = Nothing /\ UNCHANGED <<cleared, block, firewall>>
      BY <2>6 DEF IsReported
    <3>2. new(a)
      BY <2>1, <2>2, <3>1
    <3>3. a.key \in reported'[s] /\ \A x \in Sets : reported[x] \subseteq reported'[x]
      BY <3>1 DEF NetTypeOK
    <3>4. QED  BY <2>3, <3>1, <3>2, <3>3
  <2>7. CASE IsFound
    <3>1. /\ All' = All /\ block'.ip \notin reported["scan"] /\ cleared' = cleared
          /\ reported' = [reported EXCEPT !["scan"] = @ \cup {block'.ip}]
      BY <2>7 DEF IsFound, AlertsStay
    <3>2. block'.ip \in reported'["scan"] /\ \A x \in Sets : reported[x] \subseteq reported'[x]
      BY <3>1 DEF NetTypeOK, Sets
    <3>3. ASSUME NEW i \in 1..n, All[i].kind = "scan", All[i].key = block'.ip
          PROVE  All[i].epoch < cleared["scan"]
      BY <2>1, <2>2, <3>1, <3>3 DEF Sets
    <3>4. QED  BY <2>2, <3>1, <3>2, <3>3 DEF RepeatInv
  <2>8. CASE IsBlocked
    <3>1. PICK a : /\ AlertsAdd(a) /\ a.kind = "scan" /\ a.epoch = cleared["scan"]
                   /\ block # Nothing /\ block' = Nothing /\ a.key = block.ip
                   /\ UNCHANGED <<reported, cleared>>
      BY <2>8 DEF IsBlocked
    <3>2. new(a) /\ a.key \in reported'["scan"]
      BY <3>1 DEF RepeatInv
    <3>3. QED  BY <2>3, <3>1, <3>2
  <2>9. CASE IsCleared
    <3>1. /\ All' = All /\ block' = Nothing
          /\ \A s \in Sets : \/ reported'[s] = reported[s] /\ cleared'[s] = cleared[s]
                             \/ reported'[s] = {} /\ cleared'[s] = cleared[s] + 1
      BY <2>9 DEF IsCleared, AlertsStay
    <3>2. ASSUME NEW i \in 1..n, All[i].kind \in Sets
          PROVE  /\ All[i].epoch \in Nat /\ All[i].epoch <= cleared'[All[i].kind]
                 /\ All[i].epoch = cleared'[All[i].kind] => All[i].key \in reported'[All[i].kind]
      BY <2>1, <2>2, <3>1, <3>2
    <3>3. QED  BY <3>1, <3>2 DEF RepeatInv
  <2>10. QED  BY <2>4, <2>5, <2>6, <2>7, <2>8, <2>9, Steps
<1>3. NetTypeOK /\ RepeatInv => NoRepeats
  <2> SUFFICES ASSUME NetTypeOK, RepeatInv PROVE NoRepeats
    OBVIOUS
  <2>1. \A i \in 1..Len(out) : i \in 1..Len(All) /\ All[i] = out[i]
    BY DEF All, NetTypeOK
  <2>2. QED  BY <2>1 DEF RepeatInv, NoRepeats
<1>4. QED  BY <1>1, <1>2, <1>3, TypeCorrect, PTL DEF Spec

-----------------------------------------------------------------------------
(* Listeners *)

\* The ports that listen at poll n and did not at the poll before.
Appeared(n) == IF n > 1 /\ AlertNewListener THEN shown[n] \ shown[n-1] ELSE {}

\* The ports told of by the alerts of poll n that were sent.
Announced(n) ==
  {out[i].key : i \in {j \in 1..Len(out) : out[j].kind = "listener" /\ out[j].poll = n}}

\* The polls whose listeners the monitor has dealt with.
Past == IF pass = "listeners" THEN polls - 1 ELSE polls

\* What the monitor knows of listeners is what it saw at the last of these polls.
Knows ==
  /\ baseline <=> Past > 0
  /\ Past > 0 => known = shown[Past]
  /\ pass # "tick" => polls > 0 /\ Listening(todo.table) = shown[polls]

\* The listener that waits to be told of appeared and was not told of.
Waits ==
  hand # Nothing /\ hand.kind = "listener" =>
    /\ pass = "listeners" /\ hand.poll = polls
    /\ hand.key \in Appeared(polls) \ Announced(polls)

\* No port is told of that did not appear, nor twice, and those of the past are told of.
Tells ==
  /\ \A i \in 1..Len(out) : out[i].kind = "listener" => out[i].poll <= polls
  /\ \A n \in 1..Len(shown) : Announced(n) \subseteq Appeared(n)
  /\ \A n \in 1..Len(shown) : n <= Past => Announced(n) = Appeared(n)
  /\ \A i, j \in 1..Len(out) :
       /\ out[i].kind = "listener" /\ out[j].kind = "listener"
       /\ out[i].poll = out[j].poll /\ out[i].key = out[j].key
       => i = j

ListenerInv == Knows /\ Waits /\ Tells

\* A step that neither reads the table nor tells of a listener.
LEMMA KnowsStays ==
  ASSUME ListenerInv, UNCHANGED <<out, polls, shown, known, baseline>>,
         pass' = "listeners" <=> pass = "listeners",
         pass' # "tick" => pass # "tick" /\ todo'.table = todo.table,
         hand' = hand \/ hand'.kind # "listener"
  PROVE  ListenerInv'
<1>1. Past' = Past
  BY DEF Past
<1>2. \A n : Announced(n)' = Announced(n) /\ Appeared(n)' = Appeared(n)
  BY DEF Announced, Appeared
<1>3. pass' # "tick" => Listening(todo'.table) = Listening(todo.table)
  BY DEF Listening
<1>4. Knows'
  BY <1>1, <1>3 DEF ListenerInv, Knows
<1>5. Waits'
  BY <1>2 DEF ListenerInv, Waits
<1>6. Tells'
  BY <1>1, <1>2 DEF ListenerInv, Tells
<1>7. QED  BY <1>4, <1>5, <1>6 DEF ListenerInv

\* A port is told of when it listens and did not at the poll before, and only then,
\* once each, in every reachable state.
THEOREM ListenersAreTold == Spec => []ListenersTold
<1>1. Init => ListenerInv
  <2> SUFFICES ASSUME Init PROVE ListenerInv
    OBVIOUS
  <2>1. /\ 1..Len(out) = {} /\ 1..Len(shown) = {} /\ hand = Nothing /\ pass = "tick"
        /\ Past = 0 /\ baseline = FALSE
    BY DEF Init, Past
  <2>2. QED  BY <2>1 DEF ListenerInv, Knows, Waits, Tells
<1>2. NetTypeOK /\ ListenerInv /\ [Next]_vars => ListenerInv'
  <2> SUFFICES ASSUME NetTypeOK, ListenerInv, [Next]_vars PROVE ListenerInv'
    OBVIOUS
  <2>1. /\ polls \in Nat /\ Len(shown) = polls /\ shown \in Seq(SUBSET Ports)
        /\ out \in Seq(Alert)
    BY DEF NetTypeOK
  <2>2. CASE Tick \/ UNCHANGED vars
    BY <2>2, KnowsStays DEF Tick, vars
  <2>3. CASE Poll
    <3>1. PICK table : todo' = [left |-> table, table |-> table]
                       /\ shown' = Append(shown, Listening(table))
      BY <2>3 DEF Poll
    <3>2. /\ pass = "tick" /\ pass' = "listeners" /\ polls' = polls + 1
          /\ UNCHANGED <<known, baseline, out, hand>>
      BY <2>3 DEF Poll
    <3>3. Past = polls /\ Past' = polls
      BY <2>1, <3>2 DEF Past
    <3>4. /\ Len(shown') = polls + 1 /\ shown'[polls + 1] = Listening(table)
          /\ \A n \in 1..polls : shown'[n] = shown[n]
      BY <2>1, <3>1
    <3>5. \A n \in 1..polls : Appeared(n)' = Appeared(n)
      <4>1. \A n \in 1..polls : n > 1 => n - 1 \in 1..polls
        BY <2>1
      <4>2. QED  BY <3>4, <4>1 DEF Appeared
    <3>6. \A n : Announced(n)' = Announced(n)
      BY <3>2 DEF Announced
    <3>7. Announced(polls + 1) = {}
      <4>1. \A i \in 1..Len(out) : ~(out[i].kind = "listener" /\ out[i].poll = polls + 1)
        BY <2>1 DEF ListenerInv, Tells
      <4>2. QED  BY <4>1 DEF Announced
    <3>8. Knows'
      <4>1. Listening(todo'.table) = shown'[polls']
        BY <3>1, <3>2, <3>4 DEF Listening
      <4>2. Past' > 0 => known' = shown'[Past']
        BY <2>1, <3>2, <3>3, <3>4 DEF ListenerInv, Knows
      <4>3. QED  BY <2>1, <3>2, <3>3, <4>1, <4>2 DEF ListenerInv, Knows
    <3>9. Waits'
      BY <3>2 DEF ListenerInv, Waits
    <3>10. Tells'
      <4>1. \A n \in 1..(polls + 1) : n \in 1..polls \/ n = polls + 1
        BY <2>1
      <4>2. \A i \in 1..Len(out) : out[i].kind = "listener" => out[i].poll <= polls + 1
        <5>1. \A i \in 1..Len(out) : out[i].kind = "listener" => out[i].poll \in Nat
          BY <2>1 DEF Alert
        <5>2. QED  BY <2>1, <5>1 DEF ListenerInv, Tells
      <4>3. \A n \in 1..(polls + 1) : Announced(n)' \subseteq Appeared(n)'
        BY <2>1, <3>5, <3>6, <3>7, <4>1 DEF ListenerInv, Tells
      <4>4. \A n \in 1..(polls + 1) : n <= polls => Announced(n)' = Appeared(n)'
        <5>1. \A n \in 1..polls : Announced(n) = Appeared(n)
          BY <2>1, <3>3 DEF ListenerInv, Tells
        <5>2. \A n \in 1..(polls + 1) : n <= polls => n \in 1..polls
          BY <2>1
        <5>3. QED  BY <3>5, <3>6, <5>1, <5>2
      <4>5. QED  BY <3>2, <3>3, <3>4, <4>2, <4>3, <4>4 DEF ListenerInv, Tells
    <3>11. QED  BY <3>8, <3>9, <3>10 DEF ListenerInv
  <2>4. CASE Listeners
    <3> DEFINE new == IF baseline /\ AlertNewListener
                      THEN Listening(todo.table) \ (known \cup Announced(polls)) ELSE {}
    <3>1. /\ pass = "listeners" /\ hand = Nothing /\ UNCHANGED <<polls, shown, out>>
          /\ Past = polls - 1 /\ polls > 0 /\ polls \in 1..Len(shown)
      BY <2>1, <2>4 DEF Listeners, Running, Past, ListenerInv, Knows
    <3>2. new = Appeared(polls) \ Announced(polls)
      BY <2>1, <3>1 DEF ListenerInv, Knows, Appeared
    <3>3. \A n : Announced(n)' = Announced(n) /\ Appeared(n)' = Appeared(n)
      BY <3>1 DEF Announced, Appeared
    <3>4. \/ /\ new # {} /\ UNCHANGED <<known, baseline, pass, todo>>
             /\ \E p \in new : hand' = [kind |-> "listener", key |-> p, poll |-> polls]
          \/ /\ new = {} /\ known' = Listening(todo.table) /\ baseline' = TRUE
             /\ pass' = "scan" /\ UNCHANGED <<todo, hand>>
      BY <2>4 DEF Listeners, Announced
    <3> HIDE DEF new
    <3>5. CASE new # {}
      <4>1. UNCHANGED <<known, baseline, pass, todo>> /\ Past' = Past
        BY <3>1, <3>4, <3>5 DEF Past
      <4>2. hand'.kind = "listener" /\ hand'.poll = polls
            /\ hand'.key \in Appeared(polls) \ Announced(polls)
        BY <3>2, <3>4, <3>5
      <4>3. Knows'
        BY <3>1, <4>1 DEF ListenerInv, Knows, Listening
      <4>4. Waits'
        BY <3>1, <3>3, <4>1, <4>2 DEF Waits
      <4>5. Tells'
        BY <3>1, <3>3, <4>1 DEF ListenerInv, Tells
      <4>6. QED  BY <4>3, <4>4, <4>5 DEF ListenerInv
    <3>6. CASE new = {}
      <4>1. /\ known' = Listening(todo.table) /\ baseline' = TRUE /\ pass' = "scan"
            /\ todo' = todo /\ hand' = Nothing /\ Past' = polls
        BY <3>1, <3>4, <3>6 DEF Past
      <4>2. known' = shown[polls]
        BY <3>1, <4>1 DEF ListenerInv, Knows
      <4>3. Knows'
        BY <3>1, <4>1, <4>2 DEF ListenerInv, Knows, Listening
      <4>4. Announced(polls) = Appeared(polls)
        BY <2>1, <3>1, <3>2, <3>6 DEF ListenerInv, Tells
      <4>5. \A n \in 1..Len(shown) : Announced(n) = Appeared(n)
        <5>1. \A n \in 1..Len(shown) : n <= polls - 1 \/ n = polls
          BY <2>1
        <5>2. QED  BY <3>1, <4>4, <5>1 DEF ListenerInv, Tells
      <4>6. Tells'
        BY <3>1, <3>3, <4>5 DEF ListenerInv, Tells
      <4>7. QED  BY <4>1, <4>3, <4>6 DEF ListenerInv, Waits
    <3>7. QED  BY <3>5, <3>6
  <2>5. CASE Scan
    <3>1. /\ pass = "scan" /\ pass' \in {"scan", "established"} /\ todo'.table = todo.table
          /\ UNCHANGED <<out, polls, shown, known, baseline>>
      BY <2>5 DEF Scan, Running, NetTypeOK
    <3>2. hand' = hand \/ hand'.kind = "scan"
      BY <2>5 DEF Scan, Probe, ScanAlert
    <3>3. QED  BY <3>1, <3>2, KnowsStays
  <2>6. CASE Blocked
    <3>1. UNCHANGED <<out, polls, shown, known, baseline, pass, todo>> /\ hand'.kind = "scan"
      BY <2>6 DEF Blocked, ScanAlert
    <3>2. QED  BY <3>1, KnowsStays
  <2>7. CASE Established
    <3>1. /\ pass = "established" /\ pass' \in {"established", "bounds"}
          /\ todo'.table = todo.table /\ UNCHANGED <<out, polls, shown, known, baseline>>
      BY <2>7 DEF Established, Running, NetTypeOK
    <3>2. hand' = hand \/ hand'.kind \in {"suspicious", "shell"}
      BY <2>7 DEF Established, Report
    <3>3. QED  BY <3>1, <3>2, KnowsStays
  <2>8. CASE Send
    <3>1. /\ hand # Nothing /\ hand' = Nothing /\ out' = Append(out, hand) /\ hand \in Alert
          /\ UNCHANGED <<polls, shown, known, baseline, pass, todo>>
      BY <2>8 DEF Send, NetTypeOK
    <3>2. /\ Len(out') = Len(out) + 1 /\ out'[Len(out) + 1] = hand
          /\ \A i \in 1..Len(out) : out'[i] = out[i]
          /\ \A i \in 1..Len(out') : i \in 1..Len(out) \/ i = Len(out) + 1
          /\ 1..Len(out') = (1..Len(out)) \cup {Len(out) + 1}
      BY <2>1, <3>1
    <3>3. Past' = Past /\ \A n : Appeared(n)' = Appeared(n)
      BY <3>1 DEF Past, Appeared
    <3>4. \A n : Announced(n)' = IF hand.kind = "listener" /\ hand.poll = n
                                THEN Announced(n) \cup {hand.key} ELSE Announced(n)
      BY <3>2 DEF Announced
    <3>5. Knows'
      BY <3>1, <3>3 DEF ListenerInv, Knows, Listening
    <3>6. Waits'
      BY <3>1 DEF Waits
    <3>7. Tells'
      <4>1. hand.kind = "listener" =>
              /\ pass = "listeners" /\ hand.poll = polls
              /\ hand.key \in Appeared(polls) \ Announced(polls)
        BY <3>1 DEF ListenerInv, Waits
      <4>2. \A i \in 1..Len(out') : out'[i].kind = "listener" => out'[i].poll <= polls'
        BY <2>1, <3>1, <3>2, <4>1 DEF ListenerInv, Tells
      <4>3. \A n \in 1..Len(shown') : Announced(n)' \subseteq Appeared(n)'
        BY <3>1, <3>3, <3>4, <4>1 DEF ListenerInv, Tells
      <4>4. \A n \in 1..Len(shown') : n <= Past' => Announced(n)' = Appeared(n)'
        <5>1. hand.kind = "listener" => ~(hand.poll <= Past)
          BY <2>1, <4>1 DEF Past
        <5>2. QED  BY <3>1, <3>3, <3>4, <5>1 DEF ListenerInv, Tells
      <4>5. ASSUME NEW i \in 1..Len(out'), NEW j \in 1..Len(out'), 
                   out'[i].kind = "listener", out'[j].kind = "listener",
                   out'[i].poll = out'[j].poll, out'[i].key = out'[j].key
            PROVE  i = j
        <5>1. \A x \in 1..Len(out) : out[x].kind = "listener" /\ out[x].poll = polls
                                      => out[x].key \in Announced(polls)
          BY DEF Announced
        <5>2. CASE i \in 1..Len(out) /\ j \in 1..Len(out)
          BY <3>2, <4>5, <5>2 DEF ListenerInv, Tells
        <5>3. CASE i \in 1..Len(out) /\ j = Len(out) + 1
          BY <3>2, <4>1, <4>5, <5>1, <5>3
        <5>4. CASE i = Len(out) + 1 /\ j \in 1..Len(out)
          BY <3>2, <4>1, <4>5, <5>1, <5>4
        <5>5. QED  BY <3>2, <5>2, <5>3, <5>4
      <4>6. QED  BY <4>2, <4>3, <4>4, <4>5 DEF Tells
    <3>8. QED  BY <3>5, <3>6, <3>7 DEF ListenerInv
  <2>9. CASE Bounds
    <3>1. /\ pass = "bounds" /\ pass' = "tick"
          /\ UNCHANGED <<out, polls, shown, known, baseline, hand>>
      BY <2>9 DEF Bounds, Running
    <3>2. QED  BY <3>1, KnowsStays
  <2>10. QED
    BY <2>2, <2>3, <2>4, <2>5, <2>6, <2>7, <2>8, <2>9 DEF Next
<1>3. NetTypeOK /\ ListenerInv => ListenersTold
  <2> SUFFICES ASSUME NetTypeOK, ListenerInv, NEW n \in 1..Len(shown),
                      n < polls \/ pass # "listeners"
               PROVE  /\ Announced(n) = Appeared(n)
                      /\ \A i, j \in {x \in 1..Len(out) :
                           out[x].kind = "listener" /\ out[x].poll = n} :
                             out[i].key = out[j].key => i = j
    BY DEF ListenersTold, Announced, Appeared
  <2>1. n <= Past
    BY DEF NetTypeOK, Past
  <2>2. QED  BY <2>1 DEF ListenerInv, Tells
<1>4. QED  BY <1>1, <1>2, <1>3, TypeCorrect, PTL DEF Spec
-----------------------------------------------------------------------------
(* Scans *)

\* The ports of an address among the probes s, in the window that ends at t.
PortsIn(s, ip, t) ==
  {s[i].port : i \in {j \in 1..Len(s) : s[j].ip = ip /\ s[j].t <= t /\ t - s[j].t < Window}}

SeenProbe == [ip: Ips, port: Ports, t: Nat]

\* The ports seen from an address, as a function of the probes that are kept.
LEMMA SeenPortsAre ==
  \A ip, t : SeenPorts(ip, t) = PortsIn(seen, ip, t) /\ SeenPorts(ip, t)' = PortsIn(seen', ip, t)
BY DEF SeenPorts, PortsIn

\* There are at most as many ports as there are probes kept, and just as many if no
\* port is kept twice.
LEMMA PortsOf ==
  ASSUME NEW E, IsFiniteSet(E)
  PROVE  LET P == {e.port : e \in E}
         IN  /\ IsFiniteSet(P) /\ Cardinality(P) <= Cardinality(E)
             /\ (\A x, y \in E : x.port = y.port => x = y) => Cardinality(P) = Cardinality(E)
<1> DEFINE P == {e.port : e \in E}
           f == [e \in E |-> e.port]
<1>1. f \in Surjection(E, P)
  BY DEF Surjection
<1>2. (\A x, y \in E : x.port = y.port => x = y) => f \in Injection(E, P)
  BY DEF Injection, IsInjective
<1>3. QED  BY <1>1, <1>2, FS_Surjection

\* The ports seen are finitely many.
LEMMA PortsFinite ==
  ASSUME NEW s \in Seq(SeenProbe), NEW ip, NEW t
  PROVE  IsFiniteSet(PortsIn(s, ip, t)) /\ Cardinality(PortsIn(s, ip, t)) \in Nat
<1> DEFINE I == {j \in 1..Len(s) : s[j].ip = ip /\ s[j].t <= t /\ t - s[j].t < Window}
           f == [i \in I |-> s[i].port]
<1>1. IsFiniteSet(I)
  <2>1. IsFiniteSet(1..Len(s))
    BY FS_Interval
  <2>2. QED  BY <2>1, FS_Subset
<1>2. f \in Surjection(I, PortsIn(s, ip, t))
  BY DEF Surjection, PortsIn
<1>3. IsFiniteSet(PortsIn(s, ip, t))
  BY <1>1, <1>2, FS_Surjection
<1>4. QED  BY <1>3, FS_CardinalityType

\* One more probe: ports are added only, and only to its address and its instant.
LEMMA PortsGrow ==
  ASSUME NEW s \in Seq(SeenProbe), NEW p \in SeenProbe, NEW ip, NEW t \in Nat
  PROVE  LET s2 == Append(s, p)
         IN  /\ s2 \in Seq(SeenProbe)
             /\ Len(s2) = Len(s) + 1 /\ s2[Len(s) + 1] = p /\ \A i \in 1..Len(s) : s2[i] = s[i]
             /\ \A i \in 1..Len(s2) : i \in 1..Len(s) \/ i = Len(s) + 1
             /\ PortsIn(s, ip, t) \subseteq PortsIn(s2, ip, t)
             /\ p.ip # ip \/ p.t > t => PortsIn(s2, ip, t) = PortsIn(s, ip, t)
             /\ Cardinality(PortsIn(s, ip, t)) <= Cardinality(PortsIn(s2, ip, t))
<1> DEFINE s2 == Append(s, p)
           n == Len(s)
<1>1. /\ s2 \in Seq(SeenProbe) /\ n \in Nat
      /\ Len(s2) = n + 1 /\ s2[n + 1] = p /\ \A i \in 1..n : s2[i] = s[i]
      /\ \A i \in 1..Len(s2) : i \in 1..n \/ i = n + 1
      /\ \A i \in 1..n : i \in 1..Len(s2)
  OBVIOUS
<1> HIDE DEF s2
<1>2. PortsIn(s, ip, t) \subseteq PortsIn(s2, ip, t)
  BY <1>1 DEF PortsIn
<1>3. ASSUME p.ip # ip \/ p.t > t PROVE PortsIn(s2, ip, t) = PortsIn(s, ip, t)
  <2>1. ~(p.ip = ip /\ p.t <= t)
    BY <1>3 DEF SeenProbe
  <2>2. QED  BY <1>1, <2>1 DEF PortsIn
<1>4. Cardinality(PortsIn(s, ip, t)) <= Cardinality(PortsIn(s2, ip, t))
  BY <1>1, <1>2, PortsFinite, FS_Subset
<1>5. QED  BY <1>1, <1>2, <1>3, <1>4 DEF s2

\* What the tracker keeps was seen, at the instant it keeps, and no port twice.
TrackerInv ==
  /\ \A ip \in Ips : \A e \in probes[ip] :
       \E i \in 1..Len(seen) : seen[i].ip = ip /\ seen[i].port = e.port /\ seen[i].t = e.t
  /\ \A ip \in Ips : \A x, y \in probes[ip] : x.port = y.port => x = y
  /\ \A i \in 1..Len(seen) : seen[i].t <= now

\* No probe is met in this step, nor a scan told of.
IsIdle ==
  /\ seen' = seen /\ now' \in {now, now + 1} /\ probes' = probes /\ block' = block
  /\ reported'["scan"] \subseteq reported["scan"]
  /\ Alerts' = Alerts \/ \E a : a.kind # "scan" /\ Alerts' = Alerts \cup {a}

\* firewall-cmd has ended: the scan is told of as it was found.
IsTold ==
  /\ seen' = seen /\ now' = now /\ block # Nothing /\ block' = Nothing
  /\ probes' = [probes EXCEPT ![block.ip] = {}] /\ reported' = reported
  /\ \E a : /\ Alerts' = Alerts \cup {a} /\ a.kind = "scan" /\ a.key = block.ip
             /\ a.at = block.at /\ a.distinct = block.distinct

\* A probe is met that makes a count: a scan is then told of or about to be.
IsCounted(ip, port) ==
  LET entry == RecordProbe(probes[ip], port)
      count == Cardinality(entry)
      scan == IsScan(count) /\ ip \notin reported["scan"]
  IN  /\ seen' = Append(seen, [ip |-> ip, port |-> port, t |-> now]) /\ now' = now
      /\ \E e \in {{}, entry} : probes' = [probes EXCEPT ![ip] = e] /\ (~scan => e = entry)
      /\ block = Nothing
      /\ ~scan => Alerts' = Alerts /\ block' = Nothing /\ reported' = reported
      /\ scan =>
           /\ reported' = [reported EXCEPT !["scan"] = @ \cup {ip}]
           /\ \/ /\ Alerts' = Alerts /\ block' # Nothing /\ block'.ip = ip
                 /\ block'.at = now /\ block'.distinct = count
              \/ /\ block' = Nothing
                 /\ \E a : /\ Alerts' = Alerts \cup {a} /\ a.kind = "scan" /\ a.key = ip
                            /\ a.at = now /\ a.distinct = count

\* As far as scans go, a step is idle, tells of something else or counts a probe.
LEMMA ScanSteps ==
  ASSUME NetTypeOK, [Next]_vars
  PROVE  IsIdle \/ IsTold \/ \E ip \in Ips, port \in Ports : IsCounted(ip, port)
<1>1. CASE Tick \/ Poll \/ UNCHANGED vars
  BY <1>1 DEF Tick, Poll, vars, IsIdle, Alerts
<1>2. CASE Listeners
  <2>1. UNCHANGED <<seen, now, probes, block, reported, out>> /\ hand = Nothing
    BY <1>2 DEF Listeners, Running
  <2>2. CASE hand' = hand
    BY <2>1, <2>2 DEF IsIdle, Alerts
  <2>3. CASE hand' # hand
    <3>1. hand'.kind = "listener" /\ hand' \in Alert
      <4>1. hand' \in Alert
        BY <2>1, <2>3, TypeStep DEF NetTypeOK
      <4>2. \E p : hand' = [kind |-> "listener", key |-> p, poll |-> polls]
        BY <1>2, <2>3 DEF Listeners
      <4>3. QED  BY <4>1, <4>2
    <3>2. Alerts' = Alerts \cup {hand'}
      BY <2>1, <3>1, HandFilled DEF AlertsAdd
    <3>3. QED  BY <2>1, <3>1, <3>2 DEF IsIdle
  <2>4. QED  BY <2>2, <2>3
<1>3. CASE Scan
  <2>1. now' = now /\ out' = out /\ hand = Nothing /\ block = Nothing
    BY <1>3 DEF Scan, Running
  <2>2. CASE UNCHANGED <<seen, probes, reported, block, hand>>
    BY <2>1, <2>2 DEF IsIdle, Alerts
  <2>3. CASE ~UNCHANGED <<seen, probes, reported, block, hand>>
    <3> DEFINE c == Head(todo.left)
               entry == RecordProbe(probes[c.ip], c.port)
               count == Cardinality(entry)
               scan == IsScan(count) /\ c.ip \notin reported["scan"]
    <3>1. c \in Conn /\ IsProbe(c) /\ Probe(c)
      BY <1>3, <2>3, TodoType DEF Scan
    <3>2. c.ip \in Ips /\ c.port \in Ports
      BY <3>1, ConnFields DEF IsProbe
    <3>3. /\ seen' = Append(seen, [ip |-> c.ip, port |-> c.port, t |-> now])
          /\ \E e \in {{}, entry} : probes' = [probes EXCEPT ![c.ip] = e] /\ (~scan => e = entry)
          /\ ~scan => hand' = hand /\ block' = block /\ reported' = reported
          /\ scan => reported' = [reported EXCEPT !["scan"] = @ \cup {c.ip}]
          /\ scan => \/ /\ block' = [kind |-> "block", ip |-> c.ip, at |-> now, distinct |-> count]
                        /\ hand' = hand
                     \/ block' = block /\ hand' = ScanAlert(c.ip, count, now, FALSE)
      BY <3>1 DEF Probe
    <3> HIDE DEF c
    <3>4. hand' = hand => Alerts' = Alerts
      BY <2>1 DEF Alerts
    <3>5. ASSUME hand' = ScanAlert(c.ip, count, now, FALSE)
          PROVE  \E a : /\ Alerts' = Alerts \cup {a} /\ a.kind = "scan" /\ a.key = c.ip
                        /\ a.at = now /\ a.distinct = count
      <4>1. /\ hand'.kind = "scan" /\ hand'.key = c.ip /\ hand'.at = now
            /\ hand'.distinct = count /\ hand' # Nothing
        BY <3>5 DEF ScanAlert, Nothing
      <4>2. hand' \in Alert
        BY <4>1, TypeStep DEF NetTypeOK
      <4>3. Alerts' = Alerts \cup {hand'}
        BY <2>1, <4>2, HandFilled DEF AlertsAdd
      <4>4. QED  BY <4>1, <4>3
    <3>6. ASSUME block' = [kind |-> "block", ip |-> c.ip, at |-> now, distinct |-> count]
          PROVE  block' # Nothing /\ block'.ip = c.ip /\ block'.at = now /\ block'.distinct = count
      BY <3>6 DEF Nothing
    <3> HIDE DEF count, entry, scan
    <3>7. IsCounted(c.ip, c.port)
      <4>1. scan => \/ /\ Alerts' = Alerts /\ block' # Nothing /\ block'.ip = c.ip
                       /\ block'.at = now /\ block'.distinct = count
                    \/ /\ block' = Nothing
                       /\ \E a : /\ Alerts' = Alerts \cup {a} /\ a.kind = "scan" /\ a.key = c.ip
                                  /\ a.at = now /\ a.distinct = count
        BY <2>1, <3>3, <3>4, <3>5, <3>6
      <4>2. ~scan => Alerts' = Alerts /\ block' = Nothing /\ reported' = reported
        BY <2>1, <3>3, <3>4
      <4>3. QED  BY <2>1, <3>3, <4>1, <4>2 DEF IsCounted, count, entry, scan
    <3>8. QED  BY <3>2, <3>7
  <2>4. QED  BY <2>2, <2>3
<1>4. CASE Blocked
  <2>1. PICK b \in BOOLEAN : hand' = ScanAlert(block.ip, block.distinct, block.at, b)
    BY <1>4 DEF Blocked
  <2>2. /\ hand'.kind = "scan" /\ hand'.key = block.ip /\ hand'.at = block.at
        /\ hand'.distinct = block.distinct /\ hand' # Nothing
    BY <2>1 DEF ScanAlert, Nothing
  <2>3. hand' \in Alert /\ hand = Nothing /\ out' = out
    BY <1>4, <2>2, TypeStep DEF NetTypeOK, Blocked
  <2>4. Alerts' = Alerts \cup {hand'}
    BY <2>3, HandFilled DEF AlertsAdd
  <2>5. QED  BY <1>4, <2>2, <2>4 DEF Blocked, IsTold
<1>5. CASE Established
  <2>1. UNCHANGED <<seen, now, probes, block, out>> /\ hand = Nothing
    BY <1>5 DEF Established, Running
  <2>2. CASE UNCHANGED <<reported, hand>>
    BY <2>1, <2>2 DEF IsIdle, Alerts
  <2>3. CASE ~UNCHANGED <<reported, hand>>
    <3>1. PICK s \in {"suspicious", "shell"} : \E key : Report(s, key)
      BY <1>5, <2>3 DEF Established
    <3>2. hand'.kind = s /\ hand' # Nothing /\ reported'["scan"] = reported["scan"]
      BY <3>1 DEF Report, Nothing, NetTypeOK, Sets
    <3>3. hand' \in Alert
      BY <3>2, TypeStep DEF NetTypeOK
    <3>4. Alerts' = Alerts \cup {hand'}
      BY <2>1, <3>3, HandFilled DEF AlertsAdd
    <3>5. QED  BY <2>1, <3>2, <3>4 DEF IsIdle
  <2>4. QED  BY <2>2, <2>3
<1>6. CASE Send
  BY <1>6, SendStays DEF Send, AlertsStay, IsIdle
<1>7. CASE Bounds
  <2>1. reported'["scan"] \subseteq reported["scan"]
    BY <1>7 DEF Bounds, Sets
  <2>2. QED  BY <1>7, <2>1 DEF Bounds, IsIdle, Alerts
<1>8. QED  BY <1>1, <1>2, <1>3, <1>4, <1>5, <1>6, <1>7 DEF Next

\* The entry after a probe: each port once and no more of them than were seen in the
\* window.
LEMMA EntryOf ==
  ASSUME NetTypeOK, TrackerInv, NEW ip \in Ips, NEW port \in Ports,
         seen' = Append(seen, [ip |-> ip, port |-> port, t |-> now])
  PROVE  LET entry == RecordProbe(probes[ip], port)
         IN  /\ \A x, y \in entry : x.port = y.port => x = y
             /\ \A e \in entry :
                  \E i \in 1..Len(seen') : seen'[i].ip = ip /\ seen'[i].port = e.port
                                           /\ seen'[i].t = e.t
             /\ {e.port : e \in entry} \subseteq PortsIn(seen', ip, now)
<1> DEFINE entry == RecordProbe(probes[ip], port)
           kept == {e \in probes[ip] : now - e.t < Window}
           new == [t |-> now, port |-> port]
           p == [ip |-> ip, port |-> port, t |-> now]
           n == Len(seen)
<1>1. /\ now \in Nat /\ Window \in Nat \ {0} /\ probes[ip] \in SUBSET Kept
      /\ seen \in Seq(SeenProbe) /\ p \in SeenProbe
  BY NetAssumption DEF NetTypeOK, SeenProbe, Window
<1>2. /\ Len(seen') = n + 1 /\ seen'[n + 1] = p /\ \A i \in 1..n : seen'[i] = seen[i]
      /\ \A i \in 1..n : i \in 1..Len(seen')
      /\ n + 1 \in 1..Len(seen')
  BY <1>1
<1>3. \/ entry = kept
      \/ entry = kept \cup {new} /\ \A e \in kept : e.port # port
  BY DEF RecordProbe
<1>4. \A x, y \in entry : x.port = y.port => x = y
  BY <1>3 DEF TrackerInv
<1>5. ASSUME NEW e \in entry
      PROVE  /\ e.t \in Nat /\ e.t <= now /\ now - e.t < Window
             /\ \E i \in 1..Len(seen') : seen'[i].ip = ip /\ seen'[i].port = e.port
                                         /\ seen'[i].t = e.t
  <2>1. CASE e = new
    BY <1>1, <1>2, <2>1
  <2>2. CASE e \in kept
    <3>1. PICK i \in 1..n : seen[i].ip = ip /\ seen[i].port = e.port /\ seen[i].t = e.t
      BY <2>2 DEF TrackerInv
    <3>2. seen[i].t <= now /\ e.t \in Nat /\ now - e.t < Window
      BY <1>1, <2>2 DEF TrackerInv, Kept
    <3>3. QED  BY <1>2, <3>1, <3>2
  <2>3. QED  BY <1>3, <2>1, <2>2
<1> HIDE DEF entry
<1>6. {e.port : e \in entry} \subseteq PortsIn(seen', ip, now)
  BY <1>5 DEF PortsIn
<1>7. QED  BY <1>4, <1>5, <1>6 DEF entry

\* The tracker keeps what it should, in every reachable state.
LEMMA TrackerStep ==
  ASSUME NetTypeOK, TrackerInv, [Next]_vars
  PROVE  TrackerInv'
<1>1. now \in Nat /\ seen \in Seq(SeenProbe) /\ \A i \in 1..Len(seen) : seen[i].t \in Nat
  <2>1. now \in Nat /\ seen \in Seq(SeenProbe)
    BY DEF NetTypeOK, SeenProbe
  <2>2. \A i \in 1..Len(seen) : seen[i] \in SeenProbe
    BY <2>1
  <2>3. QED  BY <2>1, <2>2 DEF SeenProbe
<1>2. CASE IsIdle
  <2>1. now' \in Nat /\ now <= now'
    BY <1>1, <1>2 DEF IsIdle
  <2>2. \A i \in 1..Len(seen) : seen[i].t <= now'
    BY <1>1, <2>1 DEF TrackerInv
  <2>3. QED  BY <1>2, <2>2 DEF IsIdle, TrackerInv
<1>3. CASE IsTold
  <2>1. \A ip \in Ips : probes'[ip] \subseteq probes[ip]
    BY <1>3 DEF IsTold, NetTypeOK
  <2>2. QED  BY <1>3, <2>1 DEF IsTold, TrackerInv
<1>4. ASSUME NEW ip \in Ips, NEW port \in Ports, IsCounted(ip, port) PROVE TrackerInv'
  <2> DEFINE entry == RecordProbe(probes[ip], port)
             p == [ip |-> ip, port |-> port, t |-> now]
  <2>1. seen' = Append(seen, p) /\ now' = now
    BY <1>4 DEF IsCounted
  <2>2. /\ \A x, y \in entry : x.port = y.port => x = y
        /\ \A e \in entry :
             \E i \in 1..Len(seen') : seen'[i].ip = ip /\ seen'[i].port = e.port
                                      /\ seen'[i].t = e.t
    BY <2>1, EntryOf
  <2>3. PICK e \in {{}, entry} : probes' = [probes EXCEPT ![ip] = e]
    BY <1>4 DEF IsCounted
  <2>4. e \subseteq entry /\ probes'[ip] = e
        /\ \A x \in Ips \ {ip} : probes'[x] = probes[x]
    BY <2>3 DEF NetTypeOK
  <2> HIDE DEF entry
  <2>5. p \in SeenProbe /\ p.t = now
    BY <1>1 DEF SeenProbe
  <2> HIDE DEF p
  <2>6. /\ \A i \in 1..Len(seen) : seen'[i] = seen[i] /\ i \in 1..Len(seen')
        /\ \A i \in 1..Len(seen') : seen'[i] = p \/ i \in 1..Len(seen)
    BY <1>1, <2>1, <2>5
  <2>7. \A i \in 1..Len(seen') : seen'[i].t <= now'
    BY <1>1, <2>1, <2>5, <2>6 DEF TrackerInv
  <2>8. ASSUME NEW x \in Ips, NEW k \in probes'[x]
        PROVE  \E i \in 1..Len(seen') : seen'[i].ip = x /\ seen'[i].port = k.port
                                        /\ seen'[i].t = k.t
    <3>1. CASE x = ip
      BY <2>2, <2>4, <3>1
    <3>2. CASE x # ip
      <4>1. PICK i \in 1..Len(seen) : seen[i].ip = x /\ seen[i].port = k.port /\ seen[i].t = k.t
        BY <2>4, <3>2 DEF TrackerInv
      <4>2. QED  BY <2>6, <4>1
    <3>3. QED  BY <3>1, <3>2
  <2>9. \A x \in Ips : \A k, l \in probes'[x] : k.port = l.port => k = l
    BY <2>2, <2>4 DEF TrackerInv
  <2>10. QED  BY <2>7, <2>8, <2>9 DEF TrackerInv
<1>5. QED  BY <1>2, <1>3, <1>4, ScanSteps

\* By the probes of s, so many ports were seen in the window that ends at t: a scan.
Justified(s, ip, t, count) ==
  t \in Nat /\ count \in Nat /\ count >= Threshold /\ Cardinality(PortsIn(s, ip, t)) >= count

\* Beside what ScanJustified says: so it is with the scan that firewall-cmd runs for.
JustifiedInv ==
  /\ TrackerInv
  /\ \A a \in Alerts : a.kind = "scan" => Justified(seen, a.key, a.at, a.distinct)
  /\ block # Nothing => Justified(seen, block.ip, block.at, block.distinct)

\* An address that is reported for a scan really probed as many ports in the window as
\* the alert says, in every reachable state.
THEOREM ScansAreJustified == Spec => []ScanJustified
<1>1. Init => JustifiedInv
  <2> SUFFICES ASSUME Init PROVE JustifiedInv
    OBVIOUS
  <2>1. /\ Alerts = {} /\ block = Nothing /\ 1..Len(seen) = {}
        /\ \A ip \in Ips : probes[ip] = {}
    BY DEF Init, Alerts
  <2>2. QED  BY <2>1 DEF JustifiedInv, TrackerInv
<1>2. NetTypeOK /\ JustifiedInv /\ [Next]_vars => JustifiedInv'
  <2> SUFFICES ASSUME NetTypeOK, JustifiedInv, [Next]_vars PROVE JustifiedInv'
    OBVIOUS
  <2>1. TrackerInv /\ TrackerInv'
    BY TrackerStep DEF JustifiedInv
  <2>2. seen \in Seq(SeenProbe) /\ now \in Nat /\ Threshold \in Nat
    BY NetAssumption DEF NetTypeOK, SeenProbe
  <2>3. CASE IsIdle
    BY <2>1, <2>3 DEF IsIdle, JustifiedInv
  <2>4. CASE IsTold
    BY <2>1, <2>4 DEF IsTold, JustifiedInv
  <2>5. ASSUME NEW ip \in Ips, NEW port \in Ports, IsCounted(ip, port) PROVE JustifiedInv'
    <3> DEFINE entry == RecordProbe(probes[ip], port)
               count == Cardinality(entry)
               p == [ip |-> ip, port |-> port, t |-> now]
               scan == IsScan(count) /\ ip \notin reported["scan"]
    <3>1. seen' = Append(seen, p) /\ p \in SeenProbe
      BY <2>2, <2>5 DEF IsCounted, SeenProbe
    <3>2. ASSUME NEW x, NEW t, NEW d, Justified(seen, x, t, d) PROVE Justified(seen', x, t, d)
      <4>1. t \in Nat /\ d \in Nat /\ d >= Threshold /\ Cardinality(PortsIn(seen, x, t)) >= d
        BY <3>2 DEF Justified
      <4>2. Cardinality(PortsIn(seen, x, t)) <= Cardinality(PortsIn(seen', x, t))
            /\ seen' \in Seq(SeenProbe)
        BY <2>2, <3>1, <4>1, PortsGrow
      <4>3. Cardinality(PortsIn(seen, x, t)) \in Nat /\ Cardinality(PortsIn(seen', x, t)) \in Nat
        BY <2>2, <4>2, PortsFinite
      <4> HIDE DEF p
      <4>4. Cardinality(PortsIn(seen', x, t)) >= d
        BY <4>1, <4>2, <4>3
      <4>5. QED  BY <4>1, <4>4 DEF Justified
    <3>3. scan => Justified(seen', ip, now, count)
      <4>1. IsFiniteSet(entry) /\ count \in Nat
        BY <2>2, RecordProbeType DEF NetTypeOK
      <4>2. /\ \A x, y \in entry : x.port = y.port => x = y
            /\ {e.port : e \in entry} \subseteq PortsIn(seen', ip, now)
        BY <2>1, <3>1, EntryOf
      <4> HIDE DEF entry
      <4>3. Cardinality({e.port : e \in entry}) = count
        BY <4>1, <4>2, PortsOf
      <4>4. IsFiniteSet(PortsIn(seen', ip, now)) /\ Cardinality(PortsIn(seen', ip, now)) \in Nat
        BY <2>2, <3>1, PortsGrow, PortsFinite
      <4>5. Cardinality({e.port : e \in entry}) <= Cardinality(PortsIn(seen', ip, now))
        BY <4>2, <4>4, FS_Subset
      <4> HIDE DEF count, p
      <4>6. Cardinality(PortsIn(seen', ip, now)) >= count
        BY <4>1, <4>3, <4>4, <4>5
      <4>7. scan => count >= Threshold
        BY DEF IsScan
      <4>8. QED  BY <2>2, <4>1, <4>6, <4>7 DEF Justified
    <3> HIDE DEF entry, p, count
    <3>4. CASE ~scan
      <4>1. Alerts' = Alerts /\ block' = Nothing
        BY <2>5, <3>4 DEF IsCounted, count, entry
      <4>2. QED  BY <2>1, <3>2, <4>1 DEF JustifiedInv
    <3>5. CASE scan
      <4>1. \/ /\ Alerts' = Alerts /\ block' # Nothing /\ block'.ip = ip
               /\ block'.at = now /\ block'.distinct = count
            \/ /\ block' = Nothing
               /\ \E a : /\ Alerts' = Alerts \cup {a} /\ a.kind = "scan" /\ a.key = ip
                          /\ a.at = now /\ a.distinct = count
        BY <2>5, <3>5 DEF IsCounted, count, entry
      <4>2. QED  BY <2>1, <3>2, <3>3, <3>5, <4>1 DEF JustifiedInv
    <3>6. QED  BY <3>4, <3>5
  <2>6. QED  BY <2>3, <2>4, <2>5, ScanSteps
<1>3. NetTypeOK /\ JustifiedInv => ScanJustified
  <2> SUFFICES ASSUME JustifiedInv PROVE ScanJustified
    OBVIOUS
  <2>1. \A ip, t : SeenPorts(ip, t) = PortsIn(seen, ip, t)
    BY SeenPortsAre
  <2>2. QED  BY <2>1 DEF JustifiedInv, Justified, ScanJustified
<1>4. QED  BY <1>1, <1>2, <1>3, TypeCorrect, PTL DEF Spec
-----------------------------------------------------------------------------
(* Scans are found *)

\* No port of the address was seen at two instants.
Once(s, ip) ==
  \A i, j \in 1..Len(s) :
    s[i].ip = ip /\ s[j].ip = ip /\ s[i].port = s[j].port => s[i].t = s[j].t

\* All that was seen of the address in the window that ends at t is in the entry E.
Remembers(E, s, ip, t) ==
  \A j \in 1..Len(s) : s[j].ip = ip /\ t - s[j].t < Window =>
    \E e \in E : e.port = s[j].port /\ e.t = s[j].t

\* The address was never seen on as many ports as make a scan.
NoScan(s, ip) ==
  \A i \in 1..Len(s) : s[i].ip = ip => Cardinality(PortsIn(s, ip, s[i].t)) < Threshold

\* Of an address that was not told of, nothing is reported, the tracker has kept all
\* that is in the window, and it has not scanned.
FoundInv ==
  /\ TrackerInv
  /\ \A ip \in Ips : ~Told(ip) =>
       /\ ip \notin reported["scan"]
       /\ Once(seen, ip) => Remembers(probes[ip], seen, ip, now) /\ NoScan(seen, ip)

\* If no port was seen twice, the entry after a probe holds all the window does.
LEMMA EntryRemembers ==
  ASSUME NetTypeOK, TrackerInv, NEW ip \in Ips, NEW port \in Ports,
         Remembers(probes[ip], seen, ip, now),
         NEW s2, s2 = Append(seen, [ip |-> ip, port |-> port, t |-> now]), Once(s2, ip)
  PROVE  Remembers(RecordProbe(probes[ip], port), s2, ip, now)
<1> DEFINE entry == RecordProbe(probes[ip], port)
           kept == {e \in probes[ip] : now - e.t < Window}
           new == [t |-> now, port |-> port]
           p == [ip |-> ip, port |-> port, t |-> now]
           n == Len(seen)
<1>1. seen \in Seq(SeenProbe) /\ p \in SeenProbe /\ s2 = Append(seen, p) /\ n \in Nat
  BY DEF NetTypeOK, SeenProbe
<1>2. /\ Len(s2) = n + 1 /\ s2[n + 1] = p /\ \A i \in 1..n : s2[i] = seen[i]
      /\ \A i \in 1..n : i \in 1..Len(s2)
      /\ n + 1 \in 1..Len(s2)
      /\ \A i \in 1..Len(s2) : i \in 1..n \/ i = n + 1
  BY <1>1
<1>3. \/ entry = kept /\ \E e \in kept : e.port = port
      \/ entry = kept \cup {new}
  BY DEF RecordProbe
<1>4. kept \subseteq entry
  BY <1>3
<1> SUFFICES ASSUME NEW j \in 1..Len(s2), s2[j].ip = ip, now - s2[j].t < Window
             PROVE  \E e \in entry : e.port = s2[j].port /\ e.t = s2[j].t
  BY DEF Remembers
<1>5. CASE j \in 1..n
  <2>1. seen[j].ip = ip /\ now - seen[j].t < Window
    BY <1>2, <1>5
  <2>2. PICK e \in probes[ip] : e.port = seen[j].port /\ e.t = seen[j].t
    BY <1>5, <2>1 DEF Remembers
  <2>3. e \in kept
    BY <2>1, <2>2
  <2> HIDE DEF kept, entry
  <2>4. QED  BY <1>2, <1>4, <1>5, <2>2, <2>3
<1>6. CASE j = n + 1
  <2>1. s2[j].port = port /\ s2[j].t = now /\ j \in 1..Len(s2)
    BY <1>2, <1>6
  <2>2. CASE entry = kept \cup {new}
    <3>1. new \in entry /\ new.port = port /\ new.t = now
      BY <2>2
    <3> HIDE DEF new, entry
    <3>2. QED  BY <2>1, <3>1
  <2>3. ASSUME NEW e \in kept, e.port = port
        PROVE  \E k \in entry : k.port = s2[j].port /\ k.t = s2[j].t
    <3>1. PICK i \in 1..n : seen[i].ip = ip /\ seen[i].port = e.port /\ seen[i].t = e.t
      BY DEF TrackerInv
    <3>2. s2[i].ip = ip /\ s2[i].port = port /\ s2[i].t = e.t /\ i \in 1..Len(s2)
      BY <1>2, <2>3, <3>1
    <3>3. e.t = now
      BY <2>1, <3>2 DEF Once
    <3> HIDE DEF kept, entry
    <3>4. QED  BY <1>4, <2>1, <2>3, <3>3
  <2>4. QED  BY <1>3, <2>2, <2>3
<1>7. QED  BY <1>2, <1>5, <1>6

\* Then an entry that is no scan means that none was seen.
LEMMA EntryNoScan ==
  ASSUME NetTypeOK, TrackerInv, NEW ip \in Ips, NEW port \in Ports, NoScan(seen, ip),
         NEW s2, s2 = Append(seen, [ip |-> ip, port |-> port, t |-> now]),
         Remembers(RecordProbe(probes[ip], port), s2, ip, now),
         ~IsScan(Cardinality(RecordProbe(probes[ip], port)))
  PROVE  NoScan(s2, ip)
<1> DEFINE entry == RecordProbe(probes[ip], port)
           p == [ip |-> ip, port |-> port, t |-> now]
           n == Len(seen)
           P == {e.port : e \in entry}
<1>1. /\ seen \in Seq(SeenProbe) /\ p \in SeenProbe /\ s2 = Append(seen, p) /\ n \in Nat
      /\ now \in Nat /\ Threshold \in Nat
  BY NetAssumption DEF NetTypeOK, SeenProbe
<1>2. /\ s2 \in Seq(SeenProbe)
      /\ s2[n + 1] = p /\ \A i \in 1..n : s2[i] = seen[i]
      /\ \A i \in 1..Len(s2) : i \in 1..n \/ i = n + 1
      /\ \A t \in Nat : t < now => PortsIn(s2, ip, t) = PortsIn(seen, ip, t)
  BY <1>1, PortsGrow
<1>3. Cardinality(entry) \in Nat /\ Cardinality(entry) < Threshold /\ IsFiniteSet(entry)
  <2>1. Cardinality(entry) \in Nat /\ IsFiniteSet(entry)
    BY <1>1, RecordProbeType DEF NetTypeOK
  <2> HIDE DEF entry
  <2>2. QED  BY <1>1, <2>1 DEF IsScan, entry
<1>4. PortsIn(s2, ip, now) \subseteq P
  BY DEF Remembers, PortsIn
<1> HIDE DEF entry
<1>5. IsFiniteSet(P) /\ Cardinality(P) <= Cardinality(entry) /\ Cardinality(P) \in Nat
  BY <1>3, PortsOf, FS_CardinalityType
<1> HIDE DEF P, p
<1>6. Cardinality(PortsIn(s2, ip, now)) < Threshold
  <2>1. Cardinality(PortsIn(s2, ip, now)) <= Cardinality(P)
    BY <1>4, <1>5, FS_Subset
  <2>2. Cardinality(PortsIn(s2, ip, now)) \in Nat
    BY <1>2, PortsFinite
  <2>3. QED  BY <1>1, <1>3, <1>5, <2>1, <2>2
<1>7. ASSUME NEW i \in 1..Len(s2), s2[i].ip = ip
      PROVE  Cardinality(PortsIn(s2, ip, s2[i].t)) < Threshold
  <2>1. CASE s2[i].t = now
    BY <1>6, <2>1
  <2>2. CASE s2[i].t # now
    <3>1. i \in 1..n
      BY <1>2, <2>2 DEF p
    <3>2. s2[i] = seen[i] /\ seen[i].t \in Nat /\ seen[i].t < now
      <4>1. s2[i] = seen[i] /\ seen[i] \in SeenProbe /\ seen[i].t <= now
        BY <1>1, <1>2, <3>1 DEF TrackerInv
      <4>2. seen[i].t \in Nat
        BY <4>1 DEF SeenProbe
      <4>3. QED  BY <1>1, <2>2, <4>1, <4>2
    <3>3. QED  BY <1>2, <1>7, <3>1, <3>2 DEF NoScan
  <2>3. QED  BY <2>1, <2>2
<1>8. QED  BY <1>7 DEF NoScan

\* An address that was seen on Threshold ports in the window, no port of it at two
\* instants, has been reported or is about to be, in every reachable state.
THEOREM ScansAreFound == Spec => []ScanFound
<1>1. Init => FoundInv
  <2> SUFFICES ASSUME Init PROVE FoundInv
    OBVIOUS
  <2>1. /\ 1..Len(seen) = {} /\ reported["scan"] = {}
        /\ \A ip \in Ips : probes[ip] = {}
    BY DEF Init, Sets
  <2>2. QED  BY <2>1 DEF FoundInv, TrackerInv, Remembers, NoScan
<1>2. NetTypeOK /\ FoundInv /\ [Next]_vars => FoundInv'
  <2> SUFFICES ASSUME NetTypeOK, FoundInv, [Next]_vars PROVE FoundInv'
    OBVIOUS
  <2>1. TrackerInv /\ TrackerInv'
    BY TrackerStep DEF FoundInv
  <2>2. seen \in Seq(SeenProbe) /\ now \in Nat
    BY DEF NetTypeOK, SeenProbe
  <2> SUFFICES ASSUME NEW x \in Ips, ~Told(x)'
               PROVE  /\ x \notin reported'["scan"]
                      /\ Once(seen', x) => Remembers(probes'[x], seen', x, now') /\ NoScan(seen', x)
    BY <2>1 DEF FoundInv
  <2>3. ~Told(x) => /\ x \notin reported["scan"]
                    /\ Once(seen, x) => Remembers(probes[x], seen, x, now) /\ NoScan(seen, x)
    BY DEF FoundInv
  <2>4. CASE IsIdle
    <3>1. ~Told(x) /\ x \notin reported'["scan"] /\ seen' = seen /\ probes' = probes
      BY <2>3, <2>4 DEF IsIdle, Told
    <3>2. ASSUME Remembers(probes[x], seen, x, now) PROVE Remembers(probes[x], seen, x, now')
      <4>1. \A j \in 1..Len(seen) : seen[j].t \in Nat
        <5>1. \A j \in 1..Len(seen) : seen[j] \in SeenProbe
          BY <2>2
        <5>2. QED  BY <5>1 DEF SeenProbe
      <4>2. Window \in Nat /\ (now' = now \/ now' = now + 1)
        BY <2>4, WindowType DEF IsIdle
      <4>3. \A j \in 1..Len(seen) : now' - seen[j].t < Window => now - seen[j].t < Window
        BY <2>2, <4>1, <4>2
      <4>4. QED  BY <3>2, <4>3 DEF Remembers
    <3>3. QED  BY <2>3, <3>1, <3>2
  <2>5. CASE IsTold
    <3>1. /\ ~Told(x) /\ x # block.ip /\ seen' = seen /\ now' = now /\ reported' = reported
          /\ probes' = [probes EXCEPT ![block.ip] = {}]
      BY <2>5 DEF IsTold, Told
    <3>2. probes'[x] = probes[x]
      BY <3>1 DEF NetTypeOK
    <3>3. QED  BY <2>3, <3>1, <3>2
  <2>6. ASSUME NEW ip \in Ips, NEW port \in Ports, IsCounted(ip, port)
        PROVE  /\ x \notin reported'["scan"]
               /\ Once(seen', x) => Remembers(probes'[x], seen', x, now') /\ NoScan(seen', x)
    <3> DEFINE entry == RecordProbe(probes[ip], port)
               p == [ip |-> ip, port |-> port, t |-> now]
               scan == IsScan(Cardinality(entry)) /\ ip \notin reported["scan"]
    <3>1. /\ seen' = Append(seen, p) /\ p \in SeenProbe /\ now' = now /\ block = Nothing
          /\ \E e \in {{}, entry} : probes' = [probes EXCEPT ![ip] = e] /\ (~scan => e = entry)
          /\ reported' = reported \/ reported' = [reported EXCEPT !["scan"] = @ \cup {ip}]
      BY <2>2, <2>6 DEF IsCounted, SeenProbe
    <3>2. ~scan => Alerts' = Alerts /\ reported' = reported
      BY <2>6 DEF IsCounted
    <3>3. scan => Told(ip)'
      BY <2>6 DEF IsCounted, Told
    <3>4. Alerts \subseteq Alerts'
      BY <2>6 DEF IsCounted
    <3>5. ~Told(x)
      BY <3>1, <3>4 DEF Told
    <3>6. /\ \A i \in 1..Len(seen) : seen'[i] = seen[i] /\ i \in 1..Len(seen')
          /\ \A i \in 1..Len(seen') : i \in 1..Len(seen) \/ seen'[i] = p
      <4> HIDE DEF p
      <4>1. QED  BY <2>2, <3>1
    <3>7. Once(seen', x) => Once(seen, x)
      BY <3>6 DEF Once
    <3>8. CASE x # ip
      <4>1. probes'[x] = probes[x] /\ x \notin reported'["scan"]
        BY <2>3, <3>1, <3>5, <3>8 DEF NetTypeOK, Sets
      <4>2. p.ip # x
        BY <3>8
      <4>3. \A i \in 1..Len(seen') : seen'[i].ip = x => i \in 1..Len(seen) /\ seen'[i] = seen[i]
        <5> HIDE DEF p
        <5>1. QED  BY <3>6, <4>2
      <4>4. \A t \in Nat : PortsIn(seen', x, t) = PortsIn(seen, x, t)
        BY <2>2, <3>1, <4>2, PortsGrow
      <4>5. \A i \in 1..Len(seen) : seen[i].t \in Nat
        <5>1. \A i \in 1..Len(seen) : seen[i] \in SeenProbe
          BY <2>2
        <5>2. QED  BY <5>1 DEF SeenProbe
      <4>6. Remembers(probes[x], seen, x, now) => Remembers(probes[x], seen', x, now)
        BY <4>3 DEF Remembers
      <4>7. NoScan(seen, x) => NoScan(seen', x)
        BY <4>3, <4>4, <4>5 DEF NoScan
      <4>8. QED  BY <2>3, <3>1, <3>5, <3>7, <4>1, <4>6, <4>7
    <3>9. CASE x = ip
      <4>1. ~scan
        BY <3>3, <3>9
      <4>2. probes'[ip] = entry /\ ip \notin reported["scan"] /\ reported' = reported
        BY <2>3, <3>1, <3>2, <3>5, <3>9, <4>1 DEF NetTypeOK
      <4>3. ~IsScan(Cardinality(entry))
        BY <4>1, <4>2
      <4>4. ASSUME Once(seen', ip)
            PROVE  Remembers(entry, seen', ip, now) /\ NoScan(seen', ip)
        <5>1. Remembers(probes[ip], seen, ip, now) /\ NoScan(seen, ip)
          BY <2>3, <3>5, <3>7, <3>9, <4>4
        <5>2. Remembers(entry, seen', ip, now)
          BY <2>1, <3>1, <4>4, <5>1, EntryRemembers
        <5>3. NoScan(seen', ip)
          BY <2>1, <3>1, <4>3, <5>1, <5>2, EntryNoScan
        <5>4. QED  BY <5>2, <5>3
      <4>5. QED  BY <3>1, <3>9, <4>2, <4>4
    <3>10. QED  BY <3>8, <3>9
  <2>7. QED  BY <2>4, <2>5, <2>6, ScanSteps
<1>3. NetTypeOK /\ FoundInv => ScanFound
  <2> SUFFICES ASSUME NetTypeOK, FoundInv, NEW ip \in Ips, Once(seen, ip), NEW i \in 1..Len(seen),
                      seen[i].ip = ip, Cardinality(SeenPorts(ip, seen[i].t)) >= Threshold
               PROVE  Told(ip)
    BY DEF ScanFound, Once
  <2>1. Cardinality(PortsIn(seen, ip, seen[i].t)) \in Nat /\ Threshold \in Nat
    BY NetAssumption, PortsFinite DEF NetTypeOK, SeenProbe
  <2>2. Cardinality(PortsIn(seen, ip, seen[i].t)) >= Threshold
    BY SeenPortsAre
  <2>3. ~NoScan(seen, ip)
    BY <2>1, <2>2 DEF NoScan
  <2>4. QED  BY <2>3 DEF FoundInv
<1>4. QED  BY <1>1, <1>2, <1>3, TypeCorrect, PTL DEF Spec
=============================================================================
