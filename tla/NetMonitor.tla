------------------------------ MODULE NetMonitor -----------------------------
(***************************************************************************)
(* The network monitor (owlsentry-daemon/src/monitors/net.rs): every few   *)
(* seconds it reads the table of TCP connections and goes through it three *)
(* times, for new listeners, for port scans (half-open connections) and    *)
(* for suspicious established connections.  It waits in between, for the   *)
(* dispatcher's channel and for firewall-cmd, and the clock goes on.       *)
(***************************************************************************)
EXTENDS Integers, Sequences, FiniteSets

CONSTANTS
  Ips, Ports, Pids,
  Local,           \* loopback and unspecified addresses
  NeverBlock,      \* the addresses that rules.never_block parses to
  SuspiciousPorts, \* rules.suspicious_ports
  Shells,          \* the pids whose comm is in rules.shell_processes
  Threshold,       \* port_scan_threshold; validate refuses 0
  WindowSecs,      \* port_scan_window_secs
  AlertNewListener, FirewalldBlock,  \* switches of the configuration
  MaxReported,     \* 10 000: the size above which a set of reports is cleared
  Tables,          \* the connection tables the kernel may show
  MaxTime,         \* bound: instants
  MaxPolls         \* bound: tables read

(* A connection: the state and what the three passes look at of it.  `pid' is *)
(* the owner socket_inode_owners finds, or NoPid.                             *)
NoPid == 0
Conn == [state: {"LISTEN"}, port: Ports]
  \cup [state: {"SYN_RECV"}, ip: Ips, port: Ports]
  \cup [state: {"ESTABLISHED"}, ip: Ips, port: Ports, pid: Pids \cup {NoPid}]

ASSUME NetAssumption ==
  /\ Local \cup NeverBlock \subseteq Ips /\ SuspiciousPorts \subseteq Ports
  /\ Shells \subseteq Pids /\ NoPid \notin Pids
  /\ Threshold \in Nat \ {0} /\ WindowSecs \in Nat /\ MaxReported \in Nat
  /\ AlertNewListener \in BOOLEAN /\ FirewalldBlock \in BOOLEAN
  /\ Tables \subseteq Seq(Conn) /\ MaxTime \in Nat /\ MaxPolls \in Nat

VARIABLES
  now,       \* the monotone clock
  polls,     \* tables read so far
  pass,      \* what the loop does next: "tick", or one of its passes
  todo,      \* what is left of the table in this pass; after it, the table
  known,     \* known_listeners
  baseline,  \* baseline_done
  probes,    \* ScanTracker: per address, the instants and ports kept
  reported,  \* reported_scans, reported_susp_ports, reported_shell_conns
  block,     \* the address firewall-cmd is run for, and the ports counted
  hand,      \* the alert that tx.send waits with
  out,       \* the alerts sent
  seen,      \* every probe the tracker was told of
  firewall,  \* the addresses firewall-cmd has blocked
  cleared,   \* per set of reports, how often it was cleared
  shown      \* the ports that listened in each table read

vars == <<now, polls, pass, todo, known, baseline, probes, reported, block, hand,
          out, seen, firewall, cleared, shown>>

Window == IF WindowSecs = 0 THEN 1 ELSE WindowSecs
Nothing == [kind |-> "nothing"]
Sets == {"scan", "suspicious", "shell"}

Init ==
  /\ now = 0 /\ polls = 0 /\ pass = "tick" /\ todo = [left |-> <<>>, table |-> <<>>]
  /\ known = {} /\ baseline = FALSE
  /\ probes = [ip \in Ips |-> {}]
  /\ reported = [s \in Sets |-> {}]
  /\ block = Nothing /\ hand = Nothing /\ out = <<>>
  /\ seen = <<>> /\ firewall = {} /\ cleared = [s \in Sets |-> 0]
  /\ shown = <<>>

Tick ==
  /\ now < MaxTime /\ now' = now + 1
  /\ UNCHANGED <<polls, pass, todo, known, baseline, probes, reported, block, hand,
                 out, seen, firewall, cleared, shown>>

Listening(table) ==
  {table[i].port : i \in {j \in 1..Len(table) : table[j].state = "LISTEN"}}

\* interval.tick, then the table: all of it, or part when a file cannot be read.
Poll ==
  /\ pass = "tick" /\ polls < MaxPolls
  /\ \E table \in Tables :
       /\ todo' = [left |-> table, table |-> table]
       /\ shown' = Append(shown, Listening(table))
  /\ polls' = polls + 1 /\ pass' = "listeners"
  /\ UNCHANGED <<now, known, baseline, probes, reported, block, hand, out, seen,
                 firewall, cleared>>

\* The loop runs only while nothing is awaited.
Running(p) == pass = p /\ hand = Nothing /\ block = Nothing

-----------------------------------------------------------------------------
(* New listeners *)

\* The slip of a set of known ports that only grows.
Listeners_Accumulates ==
  /\ Running("listeners")
  /\ LET told == {out[i].key : i \in {j \in 1..Len(out) :
                    out[j].kind = "listener" /\ out[j].poll = polls}}
         new == IF baseline /\ AlertNewListener
                THEN Listening(todo.table) \ (known \cup told) ELSE {}
     IN  IF new # {}
         THEN /\ \E p \in new : hand' = [kind |-> "listener", key |-> p, poll |-> polls]
              /\ UNCHANGED <<known, baseline, pass, todo>>
         ELSE /\ known' = known \cup Listening(todo.table)
              /\ baseline' = TRUE /\ pass' = "scan"
              /\ UNCHANGED <<todo, hand>>
  /\ UNCHANGED <<now, polls, probes, reported, block, out, seen, firewall, cleared, shown>>

\* One alert per new port; then the table becomes what is known.
Listeners ==
  /\ Running("listeners")
  /\ LET told == {out[i].key : i \in {j \in 1..Len(out) :
                    out[j].kind = "listener" /\ out[j].poll = polls}}
         new == IF baseline /\ AlertNewListener
                THEN Listening(todo.table) \ (known \cup told) ELSE {}
     IN  IF new # {}
         THEN /\ \E p \in new : hand' = [kind |-> "listener", key |-> p, poll |-> polls]
              /\ UNCHANGED <<known, baseline, pass, todo>>
         ELSE /\ known' = Listening(todo.table) /\ baseline' = TRUE /\ pass' = "scan"
              /\ UNCHANGED <<todo, hand>>
  /\ UNCHANGED <<now, polls, probes, reported, block, out, seen, firewall, cleared, shown>>

-----------------------------------------------------------------------------
(* Port scans *)

\* The slip of not letting the window go on.
RecordProbe_Keeps(entry, port) ==
  IF \E e \in entry : e.port = port THEN entry
  ELSE entry \cup {[t |-> now, port |-> port]}

\* ScanTracker::record: the entry after the probe; it returns its length.  No port
\* is twice in an entry.
RecordProbe(entry, port) ==
  LET kept == {e \in entry : now - e.t < Window}
  IN  IF \E e \in kept : e.port = port THEN kept
      ELSE kept \cup {[t |-> now, port |-> port]}

\* `at', the instant of the probe that made the count, is a history of the model.
ScanAlert(ip, distinct, at, blocked) ==
  [kind |-> "scan", key |-> ip, distinct |-> distinct, blocked |-> blocked,
   at |-> at, epoch |-> cleared["scan"]]

\* The slip of a threshold that has to be exceeded.
IsScan_Exceeds(distinct) == distinct > Threshold

IsScan(distinct) == distinct >= Threshold

IsProbe(c) == c.state = "SYN_RECV" /\ c.ip \notin Local

\* A probe is counted; the first time the count is a scan, it is reported, at once
\* or, if firewall-cmd is to be run, when that has ended.
Probe(c) ==
  LET entry == RecordProbe(probes[c.ip], c.port)
      distinct == Cardinality(entry)
      scan == IsScan(distinct) /\ c.ip \notin reported["scan"]
      blocks == FirewalldBlock /\ c.ip \notin NeverBlock
  IN  /\ seen' = Append(seen, [ip |-> c.ip, port |-> c.port, t |-> now])
      /\ probes' = [probes EXCEPT ![c.ip] = IF scan /\ ~blocks THEN {} ELSE entry]
      /\ reported' = IF scan THEN [reported EXCEPT !["scan"] = @ \cup {c.ip}] ELSE reported
      /\ block' = IF scan /\ blocks
                  THEN [kind |-> "block", ip |-> c.ip, at |-> now, distinct |-> distinct]
                  ELSE block
      /\ hand' = IF scan /\ ~blocks THEN ScanAlert(c.ip, distinct, now, FALSE) ELSE hand

\* One turn of the loop over the table, or the end of the loop.
Scan ==
  /\ Running("scan")
  /\ \/ /\ todo.left = <<>>
        /\ pass' = "established" /\ todo' = [todo EXCEPT !.left = todo.table]
        /\ UNCHANGED <<probes, reported, block, hand, seen>>
     \/ /\ todo.left # <<>>
        /\ todo' = [todo EXCEPT !.left = Tail(@)] /\ UNCHANGED pass
        /\ IF IsProbe(Head(todo.left)) THEN Probe(Head(todo.left))
           ELSE UNCHANGED <<probes, reported, block, hand, seen>>
  /\ UNCHANGED <<now, polls, known, baseline, out, firewall, cleared, shown>>

\* The slip of an alert that tells what was asked for, not what was done.
Blocked_Presumes ==
  /\ block # Nothing
  /\ \/ firewall' = firewall \cup {block.ip}
     \/ UNCHANGED firewall
  /\ hand' = ScanAlert(block.ip, block.distinct, block.at, TRUE)
  /\ probes' = [probes EXCEPT ![block.ip] = {}] /\ block' = Nothing
  /\ UNCHANGED <<now, polls, pass, todo, known, baseline, reported, out, seen, cleared, shown>>

\* firewall-cmd ends, well or badly; then the alert is built.
Blocked ==
  /\ block # Nothing
  /\ \/ /\ firewall' = firewall \cup {block.ip}
        /\ hand' = ScanAlert(block.ip, block.distinct, block.at, TRUE)
     \/ /\ UNCHANGED firewall
        /\ hand' = ScanAlert(block.ip, block.distinct, block.at, FALSE)
  /\ probes' = [probes EXCEPT ![block.ip] = {}] /\ block' = Nothing
  /\ UNCHANGED <<now, polls, pass, todo, known, baseline, reported, out, seen, cleared, shown>>

-----------------------------------------------------------------------------
(* Suspicious established connections *)

Suspicious(c) ==
  c.port \in SuspiciousPorts /\ <<c.ip, c.port>> \notin reported["suspicious"]

\* The slip of not looking at what was reported.
Shell_Always(c) == c.pid \in Shells

\* The owner is known, it is a shell, and it was not reported with this port.
Shell(c) == c.pid \in Shells /\ <<c.pid, c.port>> \notin reported["shell"]

Report(set, key) ==
  /\ reported' = [reported EXCEPT ![set] = @ \cup {key}]
  /\ hand' = [kind |-> set, key |-> key, epoch |-> cleared[set]]

IsEstablished(c) == c.state = "ESTABLISHED" /\ c.ip \notin Local

\* One turn of the loop: a connection may be reported for its port and, the
\* send over, for its owner; then comes the next one.
Established ==
  /\ Running("established")
  /\ \/ todo.left = <<>> /\ pass' = "bounds" /\ UNCHANGED <<todo, reported, hand>>
     \/ /\ todo.left # <<>> /\ UNCHANGED pass
        /\ LET c == Head(todo.left)
               port == IsEstablished(c) /\ Suspicious(c)
               owner == IsEstablished(c) /\ ~port /\ Shell(c)
           IN  /\ todo' = IF port THEN todo ELSE [todo EXCEPT !.left = Tail(@)]
               /\ CASE port -> Report("suspicious", <<c.ip, c.port>>)
                    [] owner -> Report("shell", <<c.pid, c.port>>)
                    [] OTHER -> UNCHANGED <<reported, hand>>
  /\ UNCHANGED <<now, polls, known, baseline, probes, block, out, seen, firewall,
                 cleared, shown>>

\* The dispatcher takes the alert; the loop goes on where it stood.
Send ==
  /\ hand # Nothing
  /\ out' = Append(out, hand) /\ hand' = Nothing
  /\ UNCHANGED <<now, polls, pass, todo, known, baseline, probes, reported, block,
                 seen, firewall, cleared, shown>>

\* The end of a turn: a set that has grown too large is cleared whole.
Bounds ==
  /\ Running("bounds")
  /\ LET large == {s \in Sets : Cardinality(reported[s]) > MaxReported}
     IN  /\ reported' = [s \in Sets |-> IF s \in large THEN {} ELSE reported[s]]
         /\ cleared' = [s \in Sets |-> cleared[s] + (IF s \in large THEN 1 ELSE 0)]
  /\ pass' = "tick" /\ todo' = [left |-> <<>>, table |-> <<>>]
  /\ UNCHANGED <<now, polls, known, baseline, probes, block, hand, out, seen, firewall, shown>>

Next ==
  \/ Tick \/ Poll \/ Listeners \/ Scan \/ Blocked \/ Established \/ Send \/ Bounds

Spec == Init /\ [][Next]_vars

-----------------------------------------------------------------------------
(* Properties *)

\* The alerts that were sent or wait to be.
Alerts == {out[i] : i \in 1..Len(out)} \cup (IF hand = Nothing THEN {} ELSE {hand})

\* The ports of an address seen in the window that ends at an instant.
SeenPorts(ip, t) ==
  {seen[i].port : i \in {j \in 1..Len(seen) :
     seen[j].ip = ip /\ seen[j].t <= t /\ t - seen[j].t < Window}}

\* An address reported for a scan really probed, within the window that ends at
\* the probe which made the count, as many ports as the alert says, and that is
\* the threshold at least: probes that are too old, or the same port again, do
\* not add up to an alert however the polls and the clock go.
ScanJustified ==
  \A a \in Alerts : a.kind = "scan" =>
    /\ a.distinct >= Threshold
    /\ Cardinality(SeenPorts(a.key, a.at)) >= a.distinct

\* Told of a scan: reported, or about to be once firewall-cmd has answered.
Told(ip) == \/ \E a \in Alerts : a.kind = "scan" /\ a.key = ip
            \/ block # Nothing /\ block.ip = ip

\* An address that was seen on Threshold ports within the window has been
\* reported, provided no port of it was seen at two instants: the window of the
\* tracker, the clearing of the sets and the forgetting do not hide the scan.
ScanFound ==
  \A ip \in Ips :
    (\A i, j \in 1..Len(seen) :
       seen[i].ip = ip /\ seen[j].ip = ip /\ seen[i].port = seen[j].port
         => seen[i].t = seen[j].t)
    => \A i \in 1..Len(seen) :
         seen[i].ip = ip /\ Cardinality(SeenPorts(ip, seen[i].t)) >= Threshold => Told(ip)

\* What the comment of `record' and of the configuration say: the ports counted
\* are those seen in the window.  The code keeps a port with the instant it was
\* FIRST seen at and does not renew it, so a port that is still being probed
\* leaves the window, and a scan goes unreported.
WindowCounted ==
  \A i \in 1..Len(seen) :
    Cardinality(SeenPorts(seen[i].ip, seen[i].t)) >= Threshold => Told(seen[i].ip)

\* The alerts that say the address was blocked and the firewall agree (but for
\* the rule's timeout, which is the firewall's), and no address that must never
\* be blocked, nor a local one, ever is.
BlocksTold ==
  /\ {a.key : a \in {b \in Alerts : b.kind = "scan" /\ b.blocked}} = firewall
  /\ firewall \cap (Local \cup NeverBlock) = {}

\* One scan, connection or owner is not reported twice, unless the set that
\* remembers it has been cleared in between.
NoRepeats ==
  \A i, j \in 1..Len(out) :
    i < j /\ out[i].kind \in Sets /\ out[i].kind = out[j].kind /\ out[i].key = out[j].key
      => out[i].epoch < out[j].epoch

\* Past the pass over the listeners of a poll but the first, the alerts of that
\* poll are one for each port that listens and did not at the poll before: none
\* for what the daemon found at its start or told already, one more for a port
\* that was closed, or missing from a table that could not be read, in between.
ListenersTold ==
  \A n \in 1..Len(shown) :
    LET told == {i \in 1..Len(out) : out[i].kind = "listener" /\ out[i].poll = n}
    IN  n < polls \/ pass # "listeners" =>
          /\ {out[i].key : i \in told} =
               IF n > 1 /\ AlertNewListener THEN shown[n] \ shown[n-1] ELSE {}
          /\ \A i, j \in told : out[i].key = out[j].key => i = j
=============================================================================
