------------------------------ MODULE FsMonitor ------------------------------
(***************************************************************************)
(* The file system monitor (owlsentry-daemon/src/monitors/fs.rs): the      *)
(* kernel queues inotify events, the thread of the `notify' crate takes    *)
(* them and calls back, the callback waits for room in a bounded channel,  *)
(* and the monitor's task turns events into alerts, at most one per path   *)
(* and debounce window, and waits in turn for the dispatcher's channel.    *)
(***************************************************************************)
EXTENDS Integers, Sequences, FiniteSets

CONSTANTS
  Paths,           \* the paths something happens to
  Ignored, Sensitive, Logs, Scripts,
                   \* those under ignore_paths; under sensitive_paths; under
                   \* /var/log and not named like a rotated log; in a suspicious
                   \* directory and with a suspicious extension
  DebounceSecs,    \* filesystem.debounce_secs of the configuration
  RawCapacity,     \* 1024: the channel from the callback to the monitor
  KernelCapacity,  \* fs.inotify.max_queued_events
  PruneAt,         \* 10 000: the size from which last_alert is pruned
  MaxTime,         \* bound: instants
  MaxChanges       \* bound: changes to the files

ASSUME FsAssumption ==
  /\ Ignored \cup Sensitive \cup Logs \cup Scripts \subseteq Paths
  /\ DebounceSecs \in Nat /\ RawCapacity \in Nat \ {0} /\ KernelCapacity \in Nat \ {0}
  /\ PruneAt \in Nat /\ MaxTime \in Nat /\ MaxChanges \in Nat

VARIABLES
  now,      \* the monotone clock
  changes,  \* how many things happened to the files
  kernel,   \* the inotify queue
  callback, \* the event whose blocking_send waits, if any
  raw,      \* raw_rx
  last,     \* last_alert: per path, the instant of its last alert, or Never
  hand,     \* the alert that tx.send waits with, if any
  out,      \* the alerts sent
  skipped   \* the events that the debounce left out

vars == <<now, changes, kernel, callback, raw, last, hand, out, skipped>>

Kinds == {"create", "metadata", "data", "remove", "rename"}
Nothing == [kind |-> "nothing"]
Overflow == [kind |-> "overflow"]   \* events were lost; not an event of a path
Never == -1

Debounce == IF DebounceSecs = 0 THEN 1 ELSE DebounceSecs

-----------------------------------------------------------------------------
(* simplify_kind and classify *)

Actions == [create |-> "Create", metadata |-> "MetadataChange",
            data |-> "Modify", remove |-> "Remove"]

NoSeverity == "none"

\* classify: the first of its three rules that applies.
Classify(action, p) ==
  CASE p \in Ignored -> NoSeverity
    [] p \in Sensitive \ Ignored ->
         CASE action = "Remove" -> "critical"
           [] action = "Create" -> "medium"
           [] OTHER -> "high"
    [] p \in Logs \ (Ignored \cup Sensitive) /\ action = "Remove" -> "high"
    [] p \in Scripts \ (Ignored \cup Sensitive) /\ action = "Create" -> "medium"
    [] OTHER -> NoSeverity

\* The severity an event is worth; simplify_kind drops renames and overflows.
Worth(event) ==
  IF event.kind \in DOMAIN Actions
  THEN Classify(Actions[event.kind], event.path) ELSE NoSeverity

-----------------------------------------------------------------------------
(* The kernel and the thread of notify *)

Tick == now < MaxTime /\ now' = now + 1
        /\ UNCHANGED <<changes, kernel, callback, raw, last, hand, out, skipped>>

\* Something happens to a file.  A full queue takes one overflow event more
\* and loses the rest.
Change ==
  /\ changes < MaxChanges
  /\ \E p \in Paths, kind \in Kinds :
       LET event == [kind |-> kind, path |-> p, nr |-> changes + 1]
       IN  /\ changes' = changes + 1
           /\ kernel' = IF Len(kernel) < KernelCapacity THEN Append(kernel, event)
                        ELSE IF Len(kernel) = KernelCapacity THEN Append(kernel, Overflow)
                        ELSE kernel
  /\ UNCHANGED <<now, callback, raw, last, hand, out, skipped>>

\* The thread takes the next event and calls back.
TakeEvent ==
  /\ callback = Nothing /\ kernel # <<>>
  /\ callback' = Head(kernel) /\ kernel' = Tail(kernel)
  /\ UNCHANGED <<now, changes, raw, last, hand, out, skipped>>

\* raw_tx.blocking_send
BlockingSend ==
  /\ callback # Nothing /\ Len(raw) < RawCapacity
  /\ raw' = Append(raw, callback) /\ callback' = Nothing
  /\ UNCHANGED <<now, changes, kernel, last, hand, out, skipped>>

-----------------------------------------------------------------------------
(* The monitor's task *)

Known(map) == {p \in Paths : map[p] # Never}
InWindow(t) == t # Never /\ now - t < Debounce

\* The slip of pruning the paths that are still in their window.
Pruned_KeepsOld(map) ==
  IF Cardinality(Known(map)) > PruneAt
  THEN [p \in Paths |-> IF InWindow(map[p]) THEN Never ELSE map[p]]
  ELSE map

\* last_alert.retain, once the map is too big.
Pruned(map) ==
  IF Cardinality(Known(map)) > PruneAt
  THEN [p \in Paths |-> IF InWindow(map[p]) THEN map[p] ELSE Never]
  ELSE map

\* The slip of noting the instant of events that give no alert.
HandleEvent_NotesAll ==
  /\ hand = Nothing /\ raw # <<>>
  /\ raw' = Tail(raw)
  /\ LET event == Head(raw)
     IN  IF event.kind \notin DOMAIN Actions THEN UNCHANGED <<last, hand, skipped>>
         ELSE IF InWindow(last[event.path])
         THEN /\ skipped' = Append(skipped, [event |-> event, at |-> now])
              /\ UNCHANGED <<last, hand>>
         ELSE /\ last' = Pruned([last EXCEPT ![event.path] = now])
              /\ hand' = IF Worth(event) = NoSeverity THEN Nothing
                         ELSE [kind |-> "alert", event |-> event, at |-> now,
                               severity |-> Worth(event)]
              /\ UNCHANGED skipped
  /\ UNCHANGED <<now, changes, kernel, callback, out>>

\* raw_rx.recv and one turn of the loop over the paths of the event (the kinds
\* that are not dropped have one path), up to tx.send.
HandleEvent ==
  /\ hand = Nothing /\ raw # <<>>
  /\ raw' = Tail(raw)
  /\ LET event == Head(raw)
     IN  IF event.kind \notin DOMAIN Actions THEN UNCHANGED <<last, hand, skipped>>
         ELSE IF InWindow(last[event.path])
         THEN /\ skipped' = Append(skipped, [event |-> event, at |-> now])
              /\ UNCHANGED <<last, hand>>
         ELSE IF Worth(event) = NoSeverity THEN UNCHANGED <<last, hand, skipped>>
         ELSE /\ last' = Pruned([last EXCEPT ![event.path] = now])
              /\ hand' = [kind |-> "alert", event |-> event, at |-> now,
                          severity |-> Worth(event)]
              /\ UNCHANGED skipped
  /\ UNCHANGED <<now, changes, kernel, callback, out>>

\* tx.send: it waits as long as the dispatcher's channel is full.
Send ==
  /\ hand # Nothing
  /\ out' = Append(out, hand) /\ hand' = Nothing
  /\ UNCHANGED <<now, changes, kernel, callback, raw, last, skipped>>

Init ==
  /\ now = 0 /\ changes = 0 /\ kernel = <<>> /\ callback = Nothing /\ raw = <<>>
  /\ last = [p \in Paths |-> Never] /\ hand = Nothing /\ out = <<>> /\ skipped = <<>>

Next == Tick \/ Change \/ TakeEvent \/ BlockingSend \/ HandleEvent \/ Send

\* The thread runs, the task is polled and the dispatcher takes alerts.
Spec == /\ Init /\ [][Next]_vars
        /\ WF_vars(TakeEvent) /\ WF_vars(BlockingSend)
        /\ WF_vars(HandleEvent) /\ WF_vars(Send)

-----------------------------------------------------------------------------
(* What the monitor promises *)

\* The alerts, the one that waits included.
Raised == IF hand = Nothing THEN out ELSE Append(out, hand)

\* fs.rs: "au plus une alerte par chemin par fenêtre de debounce", even across
\* a pruning of last_alert and a long wait for the dispatcher.
OnePerWindow ==
  \A i, j \in 1..Len(Raised) :
    i < j /\ Raised[i].event.path = Raised[j].event.path
      => Raised[j].at - Raised[i].at >= Debounce

\* The debounce left an event out, and rightly: an earlier event of the same path
\* gave an alert less than a window before.
Debounced(nr) ==
  \E k \in 1..Len(skipped), i \in 1..Len(Raised) :
    /\ skipped[k].event.nr = nr
    /\ Raised[i].event.path = skipped[k].event.path
    /\ Raised[i].event.nr < nr
    /\ skipped[k].at - Raised[i].at < Debounce

\* An event that reached the kernel's queue and is worth an alert gives one, or
\* is left out for an alert of its path: back-pressure delays it and loses
\* nothing, and what gives no alert silences nothing.
EventuallyAlerted ==
  \A nr \in 1..MaxChanges :
    (\E k \in 1..Len(kernel) : kernel[k].kind # "overflow" /\ kernel[k].nr = nr
                               /\ Worth(kernel[k]) # NoSeverity)
      ~> (Debounced(nr) \/ \E k \in 1..Len(out) : out[k].event.nr = nr)

=============================================================================
