------------------------- MODULE AlertPipelineProofs -------------------------
(***************************************************************************)
(* Theorems about the alert pipeline, for every number of monitors, every  *)
(* capacity and every bound.  Each invariant comes with the strengthening  *)
(* its induction needs and one step per action.                            *)
(***************************************************************************)
EXTENDS AlertPipeline, SequenceTheorems, FiniteSetTheorems, TLAPS

-----------------------------------------------------------------------------
(* The operators of DaemonState *)

\* What LastN returns: a sequence over the same set, of min(n, Len(s)) elements.
LEMMA LastNType ==
  ASSUME NEW S, NEW s \in Seq(S), NEW n \in Nat
  PROVE  /\ LastN(s, n) \in Seq(S)
         /\ Len(LastN(s, n)) = IF Len(s) <= n THEN Len(s) ELSE n
BY DEF LastN

\* The capacity of the ring of recent alerts is positive.
LEMMA CapacityPositive == RecentCapacity \in Nat \ {0}
BY StateAssumption DEF RecentCapacity

\* truncate_to_hour yields an instant.
LEMMA HourType == ASSUME NEW ts \in Nat PROVE TruncateToHour(ts) \in Nat
BY StateAssumption DEF TruncateToHour

\* The day of the journal's file is a number.
LEMMA DayType == ASSUME now \in Nat PROVE Today \in Nat
BY PipelineAssumption DEF Today

\* The i-th of the last n elements.
LEMMA LastNElement ==
  ASSUME NEW S, NEW s \in Seq(S), NEW n \in Nat, n <= Len(s), NEW i \in 1..n
  PROVE  LastN(s, n)[i] = s[Len(s) - n + i]
<1>1. CASE Len(s) = n
  BY <1>1 DEF LastN
<1>2. CASE Len(s) # n
  BY <1>2 DEF LastN
<1>3. QED  BY <1>1, <1>2

\* Appending to the last n elements and cutting again is the same as appending
\* to the whole and cutting once: the ring never needs what it has dropped.
LEMMA LastNAppend ==
  ASSUME NEW S, NEW s \in Seq(S), NEW a \in S, NEW n \in Nat \ {0}
  PROVE  LastN(Append(LastN(s, n), a), n) = LastN(Append(s, a), n)
<1>1. CASE Len(s) < n
  BY <1>1 DEF LastN
<1>2. CASE Len(s) >= n
  <2> DEFINE u == LastN(s, n)
             ua == Append(u, a)
             sa == Append(s, a)
  <2>1. u \in Seq(S) /\ Len(u) = n
    BY <1>2, LastNType
  <2>2. ua \in Seq(S) /\ Len(ua) = n + 1 /\ sa \in Seq(S) /\ Len(sa) = Len(s) + 1
    BY <2>1
  <2>3. \A k \in 1..n : u[k] = s[Len(s) - n + k]
    BY <1>2, LastNElement
  <2>4. ASSUME NEW i \in 1..n PROVE ua[1 + i] = sa[Len(s) + 1 - n + i]
    <3>1. CASE i = n
      BY <3>1, <2>1, <1>2
    <3>2. CASE i # n
      <4>1. ua[1 + i] = u[1 + i] /\ 1 + i \in 1..n
        BY <3>2, <2>1
      <4>2. sa[Len(s) + 1 - n + i] = s[Len(s) - n + (1 + i)]
        BY <3>2, <1>2
      <4>3. QED  BY <4>1, <4>2, <2>3
    <3>3. QED  BY <3>1, <3>2
  <2> HIDE DEF u, ua, sa
  <2>a. n <= Len(ua) /\ n <= Len(sa) /\ n \in Nat
    BY <2>2, <1>2
  <2>5. /\ LastN(ua, n) \in Seq(S) /\ Len(LastN(ua, n)) = n
        /\ LastN(sa, n) \in Seq(S) /\ Len(LastN(sa, n)) = n
    BY <2>2, <1>2, LastNType
  <2>6. ASSUME NEW i \in 1..n PROVE LastN(ua, n)[i] = LastN(sa, n)[i]
    <3>1. LastN(ua, n)[i] = ua[Len(ua) - n + i]
      BY <2>2, <2>a, LastNElement
    <3>2. LastN(sa, n)[i] = sa[Len(sa) - n + i]
      BY <2>2, <2>a, LastNElement
    <3>3. QED  BY <3>1, <3>2, <2>2, <2>4
  <2>7. LastN(ua, n) = LastN(sa, n)
    BY <2>5, <2>6, SeqEqual
  <2>8. QED  BY <2>7 DEF u, ua, sa
<1>3. QED  BY <1>1, <1>2

\* record keeps the shared state well formed.
LEMMA RecordType ==
  ASSUME NEW st \in StateType, NEW a \in Alert
  PROVE  RecordAlert(st, a) \in StateType
<1>1. LastN(Append(st.recent, a), RecentCapacity) \in Seq(Alert)
  <2>1. Append(st.recent, a) \in Seq(Alert)
    BY DEF StateType
  <2>2. QED  BY <2>1, LastNType, CapacityPositive
<1>2. TruncateToHour(a.ts) \in Nat
  BY HourType DEF Alert
<1>3. ASSUME NEW hour \in Nat PROVE CountHour(st.hourly, hour) \in Seq(HourBucket)
  <2> DEFINE h == st.hourly
             pushed == Append(h, [hour |-> hour, count |-> 1])
  <2>1. h \in Seq(HourBucket)
    BY DEF StateType
  <2>2. pushed \in Seq(HourBucket)
    BY <2>1 DEF HourBucket
  <2>3. LastN(pushed, MaxHourBuckets) \in Seq(HourBucket)
    BY <2>2, LastNType, StateAssumption
  <2>4. Len(h) > 0 => [h EXCEPT ![Len(h)].count = @ + 1] \in Seq(HourBucket)
    <3> SUFFICES ASSUME Len(h) > 0
                 PROVE  [h EXCEPT ![Len(h)].count = @ + 1] \in Seq(HourBucket)
      OBVIOUS
    <3>1. h[Len(h)] \in HourBucket
      BY <2>1
    <3>2. [h[Len(h)] EXCEPT !.count = @ + 1] \in HourBucket
      BY <3>1 DEF HourBucket
    <3>3. QED  BY <2>1, <3>2
  <2>5. QED  BY <2>3, <2>4 DEF CountHour
<1>4. /\ [st.by_severity EXCEPT ![a.sev] = @ + 1] \in [Severities -> Nat]
      /\ [st.by_category EXCEPT ![a.cat] = @ + 1] \in [Categories -> Nat]
      /\ st.total + 1 \in Nat
  BY DEF StateType, Alert
<1>5. QED  BY <1>1, <1>2, <1>3, <1>4 DEF RecordAlert, StateType
-----------------------------------------------------------------------------
(* Types *)

\* A fresh state is well formed.
LEMMA EmptyType == EmptyState \in StateType
BY DEF EmptyState, StateType

\* The types hold in every reachable state; in particular the channel never
\* holds more than its capacity, and the dispatcher has an alert in hand exactly
\* when it is inside its loop.
THEOREM TypeCorrect == PipeSpec => []TypeOK
<1>1. PipeInit => TypeOK
  <2> SUFFICES ASSUME PipeInit PROVE TypeOK
    OBVIOUS
  <2>1. state \in StateType
    BY EmptyType DEF PipeInit, FreshDaemon
  <2>2. pending \in [Monitors -> Alert \cup {NoAlert}]
    BY DEF PipeInit, FreshDaemon
  <2>3. queue \in Seq(Alert) /\ feed \in Seq(Alert) /\ journal \in Seq(Piece)
        /\ Len(queue) = 0
    BY DEF PipeInit, FreshDaemon
  <2>4. QED
    BY <2>1, <2>2, <2>3, PipelineAssumption DEF PipeInit, FreshDaemon, TypeOK, Steps
<1>2. TypeOK /\ [PipeNext]_pipeVars => TypeOK'
  <2> SUFFICES ASSUME TypeOK, [PipeNext]_pipeVars PROVE TypeOK'
    OBVIOUS
  <2> USE PipelineAssumption DEF TypeOK
  <2>1. CASE Tick
    BY <2>1 DEF Tick, daemonVars
  <2>2. ASSUME NEW m \in Monitors, Raise(m) PROVE TypeOK'
    <3>1. pending' \in [Monitors -> Alert \cup {NoAlert}]
      BY <2>2 DEF Raise, Alert
    <3>2. QED  BY <2>2, <3>1 DEF Raise
  <2>3. ASSUME NEW m \in Monitors, Enqueue(m) PROVE TypeOK'
    BY <2>3 DEF Enqueue
  <2>4. CASE Receive
    <3>1. Head(queue) \in Alert /\ queue' \in Seq(Alert) /\ Len(queue') <= MpscCapacity
      <4>1. queue \in Seq(Alert) /\ queue # <<>> /\ queue' = Tail(queue)
        BY <2>4 DEF Receive
      <4>2. Len(queue) <= MpscCapacity
        OBVIOUS
      <4> HIDE DEF TypeOK
      <4>3. /\ Head(queue) \in Alert /\ Tail(queue) \in Seq(Alert)
            /\ Len(Tail(queue)) = Len(queue) - 1 /\ Len(queue) \in Nat
        BY <4>1
      <4>4. QED  BY <4>1, <4>2, <4>3, PipelineAssumption
    <3>2. hand' \in Alert /\ hand' # NoAlert
      BY <2>4, <3>1, StateAssumption DEF Receive, Alert
    <3>3. nextId' \in Nat \ {0} /\ step' = "write"
      <4>1. nextId' = nextId + 1 /\ step' = "write"
        BY <2>4 DEF Receive
      <4>2. nextId \in Nat
        OBVIOUS
      <4> HIDE DEF TypeOK
      <4>3. QED  BY <4>1, <4>2
    <3>4. UNCHANGED <<now, raised, boot, up, pending, state, feed, journal, failed>>
      BY <2>4 DEF Receive
    <3>5. step' \in Steps /\ ((hand' = NoAlert) <=> (step' = "recv"))
      BY <3>2, <3>3 DEF Steps
    <3>6. QED  BY <3>1, <3>2, <3>3, <3>4, <3>5
  <2>5. ASSUME NEW kind \in {"json", "torn", "newline"}, hand \in Alert, JournalPiece(kind)
        PROVE  journal' \in Seq(Piece)
    BY <2>5, DayType DEF JournalPiece, Piece, Alert
  <2>6. ASSUME hand \in Alert, WriteFails PROVE failed' \in SUBSET (Nat \X Nat)
    BY <2>6 DEF WriteFails, Alert
  <2>7. CASE WriteObject
    <3>1. hand \in Alert
      BY <2>7 DEF WriteObject
    <3>2. journal' \in Seq(Piece) /\ failed' \in SUBSET (Nat \X Nat)
          /\ step' \in {"newline", "record"}
      BY <2>7, <3>1, <2>5, <2>6 DEF WriteObject, WriteFails
    <3>3. QED  BY <2>7, <3>1, <3>2 DEF WriteObject, Steps
  <2>8. CASE WriteNewline
    <3>1. hand \in Alert
      BY <2>8 DEF WriteNewline
    <3>2. journal' \in Seq(Piece) /\ failed' \in SUBSET (Nat \X Nat) /\ step' = "record"
      BY <2>8, <3>1, <2>5, <2>6 DEF WriteNewline, WriteFails
    <3>3. QED  BY <2>8, <3>1, <3>2 DEF WriteNewline, Steps
  <2>9. CASE Record
    <3>1. state' \in StateType
      BY <2>9, RecordType DEF Record
    <3>2. QED  BY <2>9, <3>1 DEF Record, Steps
  <2>10. CASE Broadcast
    BY <2>10, StateAssumption DEF Broadcast, Steps
  <2>11. CASE Halt
    <3>1. state' \in StateType
      BY <2>11, EmptyType DEF Halt
    <3>2. pending' \in [Monitors -> Alert \cup {NoAlert}]
      BY <2>11 DEF Halt
    <3>3. queue' \in Seq(Alert) /\ Len(queue') = 0 /\ feed' \in Seq(Alert)
      BY <2>11 DEF Halt
    <3>4. /\ up' = FALSE /\ nextId' = 1 /\ step' = "recv" /\ hand' = NoAlert
          /\ UNCHANGED <<now, raised, boot, journal, failed>>
      BY <2>11 DEF Halt
    <3>a. up' \in BOOLEAN
      BY <3>4, Zenon
    <3>5. Len(queue') <= MpscCapacity /\ nextId' \in Nat \ {0}
      BY <3>3, <3>4
    <3>6. step' \in Steps /\ hand' \in Alert \cup {NoAlert}
          /\ ((hand' = NoAlert) <=> (step' = "recv"))
      BY <3>4 DEF Steps
    <3>7. QED  BY <3>1, <3>2, <3>3, <3>4, <3>a, <3>5, <3>6
  <2>12. CASE Start
    BY <2>12 DEF Start, daemonVars
  <2>13. CASE UNCHANGED pipeVars
    BY <2>13 DEF pipeVars, daemonVars
  <2>14. QED
    BY <2>1, <2>2, <2>3, <2>4, <2>7, <2>8, <2>9, <2>10, <2>11, <2>12, <2>13
       DEF PipeNext, PipeWork, Dispatch
<1>3. QED  BY <1>1, <1>2, PTL DEF PipeSpec

-----------------------------------------------------------------------------
(* Numbering *)

\* The ids of the feed are 1, 2, 3, ... without gap or repetition, in every
\* reachable state.
THEOREM Numbered == PipeSpec => []FeedNumbered
<1>1. PipeInit => FeedNumbered
  BY DEF PipeInit, FreshDaemon, FeedNumbered
<1>2. TypeOK /\ FeedNumbered /\ [PipeNext]_pipeVars => FeedNumbered'
  <2> SUFFICES ASSUME TypeOK, FeedNumbered, [PipeNext]_pipeVars PROVE FeedNumbered'
    OBVIOUS
  <2> USE DEF FeedNumbered
  <2>1. CASE UNCHANGED <<feed, hand, nextId>>
    BY <2>1
  <2>2. CASE Receive
    <3>1. hand = NoAlert /\ hand'.id = nextId /\ hand' \in Alert
      <4>1. Head(queue) \in Alert
        BY <2>2 DEF Receive, TypeOK
      <4>2. QED  BY <2>2, <4>1 DEF Receive, TypeOK, Alert
    <3>2. hand' # NoAlert
      BY <3>1, StateAssumption
    <3>3. QED  BY <2>2, <3>1, <3>2 DEF Receive, TypeOK
  <2>3. CASE Broadcast
    <3>1. hand \in Alert /\ hand # NoAlert
      BY <2>3 DEF Broadcast, TypeOK
    <3>2. QED  BY <2>3, <3>1 DEF Broadcast, TypeOK
  <2>4. CASE Halt
    BY <2>4 DEF Halt
  <2>5. QED
    BY <2>1, <2>2, <2>3, <2>4
       DEF PipeNext, PipeWork, Dispatch, Tick, Raise, Enqueue, WriteObject,
           WriteNewline, Record, Start, pipeVars, daemonVars
<1>3. QED  BY <1>1, <1>2, TypeCorrect, PTL DEF PipeSpec

-----------------------------------------------------------------------------
(* The process *)

\* A daemon that is not running keeps nothing.
StoppedEmpty ==
  ~up => /\ \A m \in Monitors : pending[m] = NoAlert
         /\ queue = <<>> /\ step = "recv" /\ hand = NoAlert
         /\ nextId = 1 /\ state = EmptyState /\ feed = <<>>

\* Nothing of what a boot held in memory is there when the next one starts.
THEOREM StopsEmpty == PipeSpec => []StoppedEmpty
<1>1. PipeInit => StoppedEmpty
  BY DEF PipeInit, StoppedEmpty
<1>2. TypeOK /\ StoppedEmpty /\ [PipeNext]_pipeVars => StoppedEmpty'
  <2> SUFFICES ASSUME TypeOK, StoppedEmpty, [PipeNext]_pipeVars PROVE StoppedEmpty'
    OBVIOUS
  <2>1. CASE up
    BY <2>1 DEF StoppedEmpty, PipeNext, PipeWork, Dispatch, Tick, Raise, Enqueue,
                Receive, WriteObject, WriteNewline, Record, Broadcast, Halt, Start,
                pipeVars, daemonVars
  <2>2. CASE ~up
    BY <2>2 DEF StoppedEmpty, PipeNext, PipeWork, Dispatch, Tick, Raise, Enqueue,
                Receive, WriteObject, WriteNewline, Record, Broadcast, Halt, Start,
                pipeVars, daemonVars
  <2>3. QED  BY <2>1, <2>2
<1>3. QED  BY <1>1, <1>2, TypeCorrect, PTL DEF PipeSpec

-----------------------------------------------------------------------------
(* The journal *)

\* An alert is in the journal, or its write was reported to have failed.
Kept(b, id) == InJournal(b, id) \/ <<b, id>> \in failed

\* Why nothing is lost silently: past the write, the alert in hand is kept
\* already, before anybody else sees it.
JournaledFirst ==
  /\ NothingLostSilently
  /\ step \in {"record", "send"} => Kept(boot, hand.id)
  /\ step = "newline" => InJournal(boot, hand.id)

\* The journal only grows, and so does the set of reported failures.
LEMMA KeptIsForEver ==
  ASSUME TypeOK, NEW b \in Nat, NEW id \in Nat,
         UNCHANGED <<journal, failed>> \/ WriteObject \/ WriteNewline
  PROVE  /\ InJournal(b, id) => InJournal(b, id)'
         /\ Kept(b, id) => Kept(b, id)'
<1>1. failed \subseteq failed'
  BY DEF WriteObject, WriteNewline, WriteFails
<1>2. journal' = journal \/ \E piece \in Piece : journal' = Append(journal, piece)
  <2>1. WriteObject \/ WriteNewline => hand \in Alert
    BY DEF WriteObject, WriteNewline, TypeOK
  <2>2. ASSUME NEW kind \in {"json", "torn", "newline"}, hand \in Alert, JournalPiece(kind)
        PROVE  \E piece \in Piece : journal' = Append(journal, piece)
    <3>1. [kind |-> kind, id |-> hand.id, boot |-> boot, day |-> Today] \in Piece
      BY <2>2, DayType, PipelineAssumption DEF Piece, Alert, TypeOK
    <3>2. QED  BY <3>1, <2>2 DEF JournalPiece
  <2>3. QED  BY <2>1, <2>2 DEF WriteObject, WriteNewline
<1>3. ASSUME NEW i \in 1..Len(journal)
      PROVE  i \in 1..Len(journal') /\ journal'[i] = journal[i]
  <2>1. journal \in Seq(Piece)
    BY DEF TypeOK
  <2>2. ASSUME NEW piece \in Piece, journal' = Append(journal, piece)
        PROVE  i \in 1..Len(journal') /\ journal'[i] = journal[i]
    BY <2>1, <2>2
  <2>3. QED  BY <1>2, <2>2
<1>4. ASSUME InJournal(b, id) PROVE InJournal(b, id)'
  <2>1. PICK i \in 1..Len(journal) :
          journal[i].kind = "json" /\ journal[i].boot = b /\ journal[i].id = id
    BY <1>4 DEF InJournal
  <2>2. i \in 1..Len(journal') /\ journal'[i] = journal[i]
    BY <1>3
  <2>3. QED  BY <2>1, <2>2 DEF InJournal
<1>5. QED  BY <1>1, <1>4 DEF Kept

\* Every alert that the state or a client has seen is in the journal, or the
\* failure of its write was reported, in every reachable state.
THEOREM NothingLost == PipeSpec => []NothingLostSilently
<1>1. PipeInit => JournaledFirst
  BY DEF PipeInit, FreshDaemon, JournaledFirst, NothingLostSilently, Recorded
<1>2. TypeOK /\ TypeOK' /\ StoppedEmpty /\ JournaledFirst /\ [PipeNext]_pipeVars
        => JournaledFirst'
  <2> SUFFICES ASSUME TypeOK, TypeOK', StoppedEmpty, JournaledFirst, [PipeNext]_pipeVars
               PROVE  JournaledFirst'
    OBVIOUS
  <2>1. ASSUME NEW k \in 1..Len(Recorded) PROVE Recorded[k].id \in Nat
    <3>1. CASE step = "send"
      <4>1. hand \in Alert /\ feed \in Seq(Alert) /\ Recorded = Append(feed, hand)
        BY <3>1 DEF Recorded, TypeOK
      <4>2. Recorded[k] \in Alert
        BY <4>1
      <4>3. QED  BY <4>2 DEF Alert
    <3>2. CASE step # "send"
      <4>1. Recorded[k] \in Alert
        BY <3>2 DEF Recorded, TypeOK
      <4>2. QED  BY <4>1 DEF Alert
    <3>3. QED  BY <3>1, <3>2
  <2>2. boot \in Nat /\ (hand # NoAlert => hand.id \in Nat)
    BY PipelineAssumption DEF TypeOK, Alert
  <2>3. CASE UNCHANGED <<journal, failed, boot, step, hand, feed>>
    BY <2>3 DEF JournaledFirst, NothingLostSilently, Recorded, InJournal, Kept
  <2>4. CASE Receive
    BY <2>4 DEF Receive, JournaledFirst, NothingLostSilently, Recorded, InJournal, Kept
  <2>5. CASE WriteObject \/ WriteNewline
    <3>1. Recorded' = Recorded /\ boot' = boot
      BY <2>5 DEF WriteObject, WriteNewline, WriteFails, Recorded
    <3>2. NothingLostSilently'
      BY <3>1, <2>1, <2>2, <2>5, KeptIsForEver
         DEF JournaledFirst, NothingLostSilently, Kept
    <3>3. hand # NoAlert /\ hand' = hand
      BY <2>5 DEF WriteObject, WriteNewline, TypeOK
    <3>4. CASE JournalPiece("json")
      <4> DEFINE n == Len(journal) + 1
                 piece == [kind |-> "json", id |-> hand.id, boot |-> boot, day |-> Today]
      <4>1. journal' = Append(journal, piece) /\ journal \in Seq(Piece)
        BY <3>4 DEF JournalPiece, TypeOK
      <4>2. n \in 1..Len(journal') /\ journal'[n] = piece
        BY <4>1
      <4>3. /\ journal'[n].kind = "json" /\ journal'[n].boot = boot
            /\ journal'[n].id = hand.id
        BY <4>2
      <4>4. InJournal(boot, hand.id)'
        BY <4>2, <4>3, <3>1, <3>3 DEF InJournal
      <4>5. QED  BY <3>2, <4>4 DEF JournaledFirst, Kept
    <3>5. CASE WriteFails
      BY <3>1, <3>2, <3>3, <3>5 DEF WriteFails, JournaledFirst, Kept
    <3>6. CASE JournalPiece("newline") /\ step = "newline" /\ step' = "record"
      BY <3>1, <3>2, <3>3, <3>6, <2>2, <2>5, KeptIsForEver DEF JournaledFirst, Kept
    <3>7. QED  BY <2>5, <3>4, <3>5, <3>6 DEF WriteObject, WriteNewline
  <2>6. CASE Record
    <3>1. /\ Recorded' = Append(feed, hand) /\ Recorded = feed
          /\ UNCHANGED <<boot, hand, journal, failed>> /\ step = "record" /\ step' = "send"
      BY <2>6 DEF Record, Recorded
    <3>2. hand \in Alert
      BY <2>6 DEF Record, TypeOK
    <3>3. ASSUME NEW k \in 1..Len(Recorded') PROVE Kept(boot, Recorded'[k].id)
      <4>1. CASE k \in 1..Len(feed)
        <5>1. Recorded'[k] = feed[k]
          BY <3>1, <3>2, <4>1 DEF TypeOK
        <5>2. QED  BY <5>1, <3>1, <4>1 DEF JournaledFirst, NothingLostSilently, Kept
      <4>2. CASE k \notin 1..Len(feed)
        <5>1. Recorded'[k] = hand
          BY <3>1, <3>2, <4>2 DEF TypeOK
        <5>2. QED  BY <5>1, <3>1 DEF JournaledFirst
      <4>3. QED  BY <4>1, <4>2
    <3>4. QED
      BY <3>1, <3>3 DEF JournaledFirst, NothingLostSilently, InJournal, Kept
  <2>7. CASE Broadcast
    BY <2>7 DEF Broadcast, JournaledFirst, NothingLostSilently, Recorded, InJournal, Kept
  <2>8. CASE Halt
    BY <2>8 DEF Halt, JournaledFirst, NothingLostSilently, Recorded
  <2>9. CASE Start
    BY <2>9 DEF Start, StoppedEmpty, JournaledFirst, NothingLostSilently, Recorded,
               daemonVars
  <2>10. QED
    BY <2>3, <2>4, <2>5, <2>6, <2>7, <2>8, <2>9
       DEF PipeNext, PipeWork, Dispatch, Tick, Raise, Enqueue, pipeVars, daemonVars
<1>3. QED
  BY <1>1, <1>2, TypeCorrect, StopsEmpty, PTL DEF PipeSpec, JournaledFirst

(***************************************************************************)
(* Why the journal is in order: what is in it is older than what will be   *)
(* written next, by its boot or, in the same boot, by its id.              *)
(***************************************************************************)
Older(p) ==
  /\ p.boot <= boot
  /\ up /\ p.boot = boot => p.id < nextId /\ (step = "write" => p.id < hand.id)

JournalOlder ==
  /\ JournalInOrder
  /\ \A i \in 1..Len(journal) : journal[i].kind = "json" => Older(journal[i])

\* The journal holds the alerts of each boot in id order, none twice, in every
\* reachable state.
THEOREM JournalOrdered == PipeSpec => []JournalInOrder
<1>1. PipeInit => JournalOlder
  BY DEF PipeInit, JournalOlder, JournalInOrder
<1>2. TypeOK /\ StoppedEmpty /\ FeedNumbered /\ JournalOlder /\ [PipeNext]_pipeVars
        => JournalOlder'
  <2> SUFFICES ASSUME TypeOK, StoppedEmpty, FeedNumbered, JournalOlder,
                      [PipeNext]_pipeVars
               PROVE  JournalOlder'
    OBVIOUS
  <2>1. /\ boot \in Nat /\ nextId \in Nat
        /\ \A i \in 1..Len(journal) : journal[i] \in Piece
    BY PipelineAssumption DEF TypeOK
  <2>2. CASE UNCHANGED <<journal, boot, up, nextId, hand>> /\ step' # "write"
    BY <2>2 DEF JournalOlder, JournalInOrder, Older
  <2>3. CASE UNCHANGED <<journal, boot, up, nextId, hand, step>>
    BY <2>3 DEF JournalOlder, JournalInOrder, Older
  <2>4. CASE Receive
    <3>1. /\ nextId' = nextId + 1 /\ hand'.id = nextId
          /\ UNCHANGED <<journal, boot, up>>
      <4>1. Head(queue) \in Alert
        BY <2>4 DEF Receive, TypeOK
      <4>2. QED  BY <2>4, <4>1 DEF Receive, Alert
    <3>2. QED
      BY <3>1, <2>1 DEF JournalOlder, JournalInOrder, Older, Piece
  <2>5. CASE (WriteObject \/ WriteNewline) /\ journal' # journal
    <3>1. /\ up /\ UNCHANGED <<boot, up, nextId, hand>> /\ step' # "write"
          /\ hand \in Alert /\ hand # NoAlert /\ hand.id < nextId
      BY <2>5 DEF WriteObject, WriteNewline, WriteFails, StoppedEmpty, FeedNumbered, TypeOK
    <3>2. PICK kind \in {"json", "torn", "newline"} :
            JournalPiece(kind) /\ (kind = "json" => step = "write")
      BY <2>5 DEF WriteObject, WriteNewline
    <3> DEFINE n == Len(journal) + 1
               piece == [kind |-> kind, id |-> hand.id, boot |-> boot, day |-> Today]
    <3>3. piece \in Piece /\ journal \in Seq(Piece) /\ journal' = Append(journal, piece)
      BY <3>1, <3>2, <2>1, DayType DEF JournalPiece, Piece, Alert, TypeOK
    <3>4. /\ Len(journal') = n /\ journal'[n] = piece
          /\ \A i \in 1..Len(journal) : journal'[i] = journal[i]
      BY <3>3
    <3>5. piece.kind = kind /\ piece.boot = boot /\ piece.id = hand.id
      OBVIOUS
    <3> HIDE DEF piece
    <3>6. ASSUME NEW i \in 1..n, journal'[i].kind = "json" PROVE Older(journal[i])'
      <4>1. CASE i = n
        BY <4>1, <3>1, <3>4, <3>5, <2>1 DEF Older
      <4>2. CASE i # n
        <5>1. i \in 1..Len(journal) /\ journal'[i] = journal[i]
          BY <4>2, <3>4
        <5>2. Older(journal[i])
          BY <5>1, <3>6 DEF JournalOlder
        <5>3. QED  BY <5>1, <5>2, <3>1 DEF Older
      <4>3. QED  BY <4>1, <4>2
    <3>7. ASSUME NEW i \in 1..n, NEW j \in 1..n, i < j,
                 journal'[i].kind = "json", journal'[j].kind = "json"
          PROVE  \/ journal'[i].boot < journal'[j].boot
                 \/ journal'[i].boot = journal'[j].boot /\ journal'[i].id < journal'[j].id
      <4>1. i \in 1..Len(journal) /\ journal'[i] = journal[i]
        BY <3>7, <3>4, <3>3
      <4>2. CASE j = n
        <5>1. step = "write"
          BY <4>2, <3>7, <3>4, <3>5, <3>2
        <5>2. Older(journal[i]) /\ journal[i] \in Piece
          BY <4>1, <3>7, <2>1 DEF JournalOlder
        <5>3. QED  BY <5>1, <5>2, <4>1, <4>2, <3>4, <3>5, <3>1, <2>1 DEF Older, Piece
      <4>3. CASE j # n
        <5>1. j \in 1..Len(journal) /\ journal'[j] = journal[j]
          BY <4>3, <3>4, <3>3
        <5>2. QED  BY <5>1, <4>1, <3>7 DEF JournalOlder, JournalInOrder
      <4>4. QED  BY <4>2, <4>3
    <3>8. QED  BY <3>4, <3>6, <3>7 DEF JournalOlder, JournalInOrder
  <2>6. CASE (WriteObject \/ WriteNewline) /\ journal' = journal
    BY <2>6, <2>2 DEF WriteObject, WriteNewline, WriteFails
  <2>7. CASE Record
    BY <2>7, <2>2 DEF Record
  <2>8. CASE Broadcast
    BY <2>8 DEF Broadcast, JournalOlder, JournalInOrder, Older
  <2>9. CASE Halt
    BY <2>9 DEF Halt, JournalOlder, JournalInOrder, Older
  <2>10. CASE Start
    BY <2>10, <2>1 DEF Start, daemonVars, JournalOlder, JournalInOrder, Older, Piece
  <2>11. QED
    BY <2>3, <2>4, <2>5, <2>6, <2>7, <2>8, <2>9, <2>10
       DEF PipeNext, PipeWork, Dispatch, Tick, Raise, Enqueue, pipeVars, daemonVars
<1>3. QED
  BY <1>1, <1>2, TypeCorrect, StopsEmpty, Numbered, PTL DEF PipeSpec, JournalOlder

\* A line that is open at the end of the journal, and why: its write was reported
\* to have failed, its process has stopped, or the newline is what comes next.
OpenLineExplained ==
  LET n == Len(journal)
  IN  n > 0 /\ journal[n].kind # "newline" =>
        \/ <<journal[n].boot, journal[n].id>> \in failed
        \/ journal[n].boot < boot \/ ~up
        \/ step = "newline" /\ journal[n].boot = boot /\ journal[n].id = hand.id

DamageInv ==
  /\ DamageExplained /\ OpenLineExplained
  /\ \A i \in 1..Len(journal) : journal[i].boot <= boot

\* A line of the journal is damaged only by a reported failure or by a stop of the
\* process between the two writes of a line, in every reachable state.
THEOREM DamageIsExplained == PipeSpec => []DamageExplained
<1>1. PipeInit => DamageInv
  BY DEF PipeInit, DamageInv, DamageExplained, OpenLineExplained
<1>2. TypeOK /\ TypeOK' /\ StoppedEmpty /\ DamageInv /\ [PipeNext]_pipeVars => DamageInv'
  <2> SUFFICES ASSUME TypeOK, TypeOK', StoppedEmpty, DamageInv, [PipeNext]_pipeVars
               PROVE  DamageInv'
    OBVIOUS
  <2>1. /\ boot \in Nat /\ journal \in Seq(Piece)
        /\ \A i \in 1..Len(journal) : journal[i] \in Piece
    BY PipelineAssumption DEF TypeOK
  <2>2. CASE UNCHANGED <<journal, boot, failed>> /\ (up' = up \/ ~up')
             /\ (step = "newline" /\ up' => UNCHANGED <<step, hand>>)
    BY <2>2 DEF DamageInv, DamageExplained, OpenLineExplained, Glued
  <2>3. CASE WriteObject \/ WriteNewline
    <3>1. /\ up /\ up' = up /\ boot' = boot /\ hand' = hand /\ failed \subseteq failed'
          /\ hand \in Alert
      BY <2>3 DEF WriteObject, WriteNewline, WriteFails, StoppedEmpty, TypeOK
    <3>2. CASE journal' = journal
      <4>1. WriteFails
        <5>1. ASSUME NEW kind, JournalPiece(kind) PROVE FALSE
          <6>1. journal' = Append(journal, [kind |-> kind, id |-> hand.id,
                                            boot |-> boot, day |-> Today])
            BY <5>1 DEF JournalPiece
          <6>2. Len(journal') = Len(journal) + 1
            BY <6>1, <2>1
          <6>3. QED  BY <6>2, <3>2, <2>1
        <5>2. QED  BY <2>3, <5>1 DEF WriteObject, WriteNewline
      <4>2. <<boot, hand.id>> \in failed'
        BY <4>1 DEF WriteFails
      <4>3. QED
        BY <3>1, <3>2, <4>2 DEF DamageInv, DamageExplained, OpenLineExplained, Glued
    <3>3. CASE journal' # journal
      <4>1. PICK kind \in {"json", "torn", "newline"} :
              /\ JournalPiece(kind)
              /\ step = "newline" => kind = "newline"
              /\ kind = "json" => step' = "newline"
              /\ kind = "torn" => <<boot, hand.id>> \in failed'
        BY <2>3, <3>3 DEF WriteObject, WriteNewline, WriteFails
      <4> DEFINE n == Len(journal)
                 piece == [kind |-> kind, id |-> hand.id, boot |-> boot, day |-> Today]
      <4>2. piece \in Piece /\ journal' = Append(journal, piece)
        BY <4>1, <3>1, <2>1, DayType DEF JournalPiece, Piece, Alert, TypeOK
      <4>3. /\ n \in Nat /\ Len(journal') = n + 1 /\ journal'[n + 1] = piece
            /\ \A i \in 1..n : journal'[i] = journal[i]
        BY <4>2, <2>1
      <4>4. piece.kind = kind /\ piece.boot = boot /\ piece.id = hand.id
        OBVIOUS
      <4> HIDE DEF piece, n
      <4>5. OpenLineExplained'
        BY <4>1, <4>3, <4>4, <3>1 DEF OpenLineExplained
      <4>6. ASSUME NEW i \in 2..n+1, Glued(i)'
            PROVE  \/ <<journal'[i-1].boot, journal'[i-1].id>> \in failed'
                   \/ journal'[i-1].boot < journal'[i].boot
        <5>1. i - 1 \in 1..n /\ journal'[i-1] = journal[i-1]
          BY <4>3
        <5>2. CASE i = n + 1
          <6>1. kind # "newline" /\ journal[n].kind # "newline" /\ n > 0
            BY <4>3, <4>4, <4>6, <5>1, <5>2 DEF Glued
          <6>2. <<journal[n].boot, journal[n].id>> \in failed \/ journal[n].boot < boot
            BY <6>1, <4>1, <3>1 DEF DamageInv, OpenLineExplained, n
          <6>3. QED  BY <6>2, <5>1, <5>2, <4>3, <4>4, <3>1
        <5>3. CASE i # n + 1
          <6>1. i \in 2..n /\ journal'[i] = journal[i]
            BY <5>3, <4>3
          <6>2. Glued(i)
            BY <6>1, <5>1, <4>6 DEF Glued
          <6>3. QED  BY <6>1, <6>2, <5>1, <3>1 DEF DamageInv, DamageExplained, n
        <5>4. QED  BY <5>2, <5>3
      <4>7. \A i \in 1..n+1 : journal'[i].boot <= boot'
        BY <4>3, <4>4, <3>1, <2>1 DEF DamageInv, n
      <4>8. QED
        BY <4>3, <4>5, <4>6, <4>7 DEF DamageInv, DamageExplained
    <3>4. QED  BY <3>2, <3>3
  <2>4. CASE Start
    <3>1. UNCHANGED <<journal, failed>> /\ boot' = boot + 1
      BY <2>4 DEF Start
    <3>2. /\ \A i \in 1..Len(journal) : journal[i] \in Piece /\ journal[i].boot <= boot
          /\ boot \in Nat /\ Len(journal) \in Nat
      BY <2>1 DEF DamageInv
    <3>3. \A i \in 1..Len(journal) : journal[i].boot < boot'
      BY <3>1, <3>2 DEF Piece
    <3>4. DamageExplained'
      BY <3>1 DEF DamageInv, DamageExplained, Glued
    <3>5. OpenLineExplained'
      <4>1. ASSUME Len(journal) > 0 PROVE journal[Len(journal)].boot < boot'
        BY <3>2, <3>3, <4>1
      <4>2. QED  BY <3>1, <4>1 DEF OpenLineExplained
    <3>6. \A i \in 1..Len(journal') : journal'[i].boot <= boot'
      BY <3>1, <3>2 DEF Piece
    <3>7. QED  BY <3>4, <3>5, <3>6 DEF DamageInv
  <2>5. QED
    BY <2>2, <2>3, <2>4 DEF PipeNext, PipeWork, Dispatch, Tick, Raise, Enqueue, Receive,
                          Record, Broadcast, Halt, pipeVars, daemonVars
<1>3. QED
  BY <1>1, <1>2, TypeCorrect, StopsEmpty, PTL DEF PipeSpec, DamageInv

-----------------------------------------------------------------------------
(* The shared state *)

\* One more alert adds one to the number of alerts that belong to a set A, or
\* nothing.
LEMMA CountAppend ==
  ASSUME NEW s \in Seq(Alert), NEW a \in Alert, NEW A
  PROVE  Cardinality({k \in 1..Len(Append(s, a)) : Append(s, a)[k] \in A})
           = Cardinality({k \in 1..Len(s) : s[k] \in A}) + (IF a \in A THEN 1 ELSE 0)
<1> DEFINE old == {k \in 1..Len(s) : s[k] \in A}
           new == {k \in 1..Len(Append(s, a)) : Append(s, a)[k] \in A}
           n == Len(s) + 1
<1>1. IsFiniteSet(old) /\ Cardinality(old) \in Nat
  <2>1. IsFiniteSet(1..Len(s))
    BY FS_Interval
  <2>2. QED  BY <2>1, FS_Subset, FS_CardinalityType
<1>2. n \notin old
  OBVIOUS
<1>3. new = IF a \in A THEN old \cup {n} ELSE old
  <2>1. /\ Len(Append(s, a)) = n /\ Append(s, a)[n] = a
        /\ \A k \in 1..Len(s) : Append(s, a)[k] = s[k]
    OBVIOUS
  <2>2. 1..n = (1..Len(s)) \cup {n}
    OBVIOUS
  <2>3. QED  BY <2>1, <2>2
<1> HIDE DEF old, new, n
<1>4. Cardinality(new) = Cardinality(old) + (IF a \in A THEN 1 ELSE 0)
  <2>1. CASE a \in A
    <3>1. Cardinality(old \cup {n}) = Cardinality(old) + 1
      BY <1>1, <1>2, FS_AddElement
    <3>2. new = old \cup {n}
      BY <2>1, <1>3
    <3>3. QED  BY <2>1, <3>1, <3>2
  <2>2. CASE a \notin A
    BY <2>2, <1>1, <1>3
  <2>3. QED  BY <2>1, <2>2
<1>5. QED  BY <1>4 DEF old, new

\* The ring holds the newest alerts and the counters agree with all that were
\* recorded, at every instant at which a client may look.
THEOREM StateAgrees == PipeSpec => []StateMatchesRecorded
<1>1. PipeInit => StateMatchesRecorded
  <2> SUFFICES ASSUME PipeInit PROVE StateMatchesRecorded
    OBVIOUS
  <2>1. Recorded = <<>> /\ state = EmptyState
    BY DEF PipeInit, FreshDaemon, Recorded
  <2>2. /\ \A s : {k \in 1..Len(Recorded) : Recorded[k].sev = s} = {}
        /\ \A c : {k \in 1..Len(Recorded) : Recorded[k].cat = c} = {}
    BY <2>1
  <2>3. /\ state.recent = <<>> /\ state.total = 0
        /\ \A s \in Severities : state.by_severity[s] = 0
        /\ \A c \in Categories : state.by_category[c] = 0
    BY <2>1 DEF EmptyState
  <2>4. LastN(Recorded, RecentCapacity) = <<>> /\ Len(Recorded) = 0
    BY <2>1, CapacityPositive DEF LastN
  <2>5. QED
    BY <2>2, <2>3, <2>4, FS_EmptySet DEF StateMatchesRecorded
<1>2. TypeOK /\ StateMatchesRecorded /\ [PipeNext]_pipeVars => StateMatchesRecorded'
  <2> SUFFICES ASSUME TypeOK, StateMatchesRecorded, [PipeNext]_pipeVars
               PROVE  StateMatchesRecorded'
    OBVIOUS
  <2>1. CASE state' = state /\ Recorded' = Recorded
    BY <2>1 DEF StateMatchesRecorded
  <2>2. CASE Record
    <3>1. /\ Recorded = feed /\ Recorded' = Append(feed, hand)
          /\ state' = RecordAlert(state, hand)
          /\ feed \in Seq(Alert) /\ hand \in Alert /\ state \in StateType
      BY <2>2 DEF Record, Recorded, TypeOK
    <3>2. state'.recent = LastN(Recorded', RecentCapacity)
      BY <3>1, LastNAppend, CapacityPositive DEF StateMatchesRecorded, RecordAlert
    <3>3. state'.total = Len(Recorded')
      BY <3>1 DEF StateMatchesRecorded, RecordAlert
    <3>4. ASSUME NEW s \in Severities
          PROVE  state'.by_severity[s]
                   = Cardinality({k \in 1..Len(Recorded') : Recorded'[k].sev = s})
      <4> DEFINE A == {a \in Alert : a.sev = s}
      <4>1. state'.by_severity[s] = state.by_severity[s] + (IF hand \in A THEN 1 ELSE 0)
        BY <3>1 DEF RecordAlert, StateType, Alert
      <4>2. /\ {k \in 1..Len(feed) : feed[k].sev = s} = {k \in 1..Len(feed) : feed[k] \in A}
            /\ {k \in 1..Len(Recorded') : Recorded'[k].sev = s}
                 = {k \in 1..Len(Append(feed, hand)) : Append(feed, hand)[k] \in A}
        BY <3>1
      <4>3. state.by_severity[s] = Cardinality({k \in 1..Len(feed) : feed[k] \in A})
        BY <3>1, <4>2 DEF StateMatchesRecorded
      <4> HIDE DEF A
      <4>4. QED  BY <3>1, <4>1, <4>2, <4>3, CountAppend
    <3>5. ASSUME NEW c \in Categories
          PROVE  state'.by_category[c]
                   = Cardinality({k \in 1..Len(Recorded') : Recorded'[k].cat = c})
      <4> DEFINE A == {a \in Alert : a.cat = c}
      <4>1. state'.by_category[c] = state.by_category[c] + (IF hand \in A THEN 1 ELSE 0)
        BY <3>1 DEF RecordAlert, StateType, Alert
      <4>2. /\ {k \in 1..Len(feed) : feed[k].cat = c} = {k \in 1..Len(feed) : feed[k] \in A}
            /\ {k \in 1..Len(Recorded') : Recorded'[k].cat = c}
                 = {k \in 1..Len(Append(feed, hand)) : Append(feed, hand)[k] \in A}
        BY <3>1
      <4>3. state.by_category[c] = Cardinality({k \in 1..Len(feed) : feed[k] \in A})
        BY <3>1, <4>2 DEF StateMatchesRecorded
      <4> HIDE DEF A
      <4>4. QED  BY <3>1, <4>1, <4>2, <4>3, CountAppend
    <3>6. QED  BY <3>2, <3>3, <3>4, <3>5 DEF StateMatchesRecorded
  <2>3. CASE Halt
    <3>1. Recorded' = <<>> /\ state' = EmptyState
      BY <2>3 DEF Halt, Recorded
    <3>2. /\ \A s : {k \in 1..Len(Recorded') : Recorded'[k].sev = s} = {}
          /\ \A c : {k \in 1..Len(Recorded') : Recorded'[k].cat = c} = {}
      BY <3>1
    <3>3. /\ state'.recent = <<>> /\ state'.total = 0
          /\ \A s \in Severities : state'.by_severity[s] = 0
          /\ \A c \in Categories : state'.by_category[c] = 0
      BY <3>1 DEF EmptyState
    <3>4. LastN(Recorded', RecentCapacity) = <<>> /\ Len(Recorded') = 0
      BY <3>1, CapacityPositive DEF LastN
    <3>5. QED
      BY <3>2, <3>3, <3>4, FS_EmptySet DEF StateMatchesRecorded
  <2>4. CASE Receive \/ WriteObject \/ WriteNewline \/ Broadcast
    BY <2>4, <2>1 DEF Receive, WriteObject, WriteNewline, WriteFails, Broadcast, Recorded
  <2>5. QED
    BY <2>1, <2>2, <2>3, <2>4
       DEF PipeNext, PipeWork, Dispatch, Tick, Raise, Enqueue, Start, Recorded,
           pipeVars, daemonVars
<1>3. QED  BY <1>1, <1>2, TypeCorrect, PTL DEF PipeSpec

-----------------------------------------------------------------------------
(* The hourly buckets *)

\* The alerts after the end[0]-th, cut at end[1], end[2], ..., are the runs of equal
\* hours the buckets count.
AreRuns(buckets, hours, end) ==
  /\ \A i \in 1..Len(buckets) :
       /\ buckets[i].count > 0 /\ end[i] = end[i-1] + buckets[i].count
       /\ \A k \in end[i-1] + 1 .. end[i] : hours[k] = buckets[i].hour
       /\ end[i-1] > 0 => hours[end[i-1]] # buckets[i].hour
  /\ end[Len(buckets)] = Len(hours)

\* What the code keeps in place of what ipc.rs tells of (HourlyAsTold): the run-length
\* encoding of the hours of the recorded alerts, cut to the newest runs.  An hour that
\* is left and entered again has a bucket for each of its runs, and a bucket goes when
\* MAX_HOUR_BUCKETS newer ones are there, however old it is; but no alert is counted
\* twice or left out, and none is forgotten without all of its run.
HourlyIsRunLength ==
  LET hours == [k \in 1..Len(Recorded) |-> TruncateToHour(Recorded[k].ts)]
  IN  /\ Len(state.hourly) <= MaxHourBuckets
      /\ \E end \in [0..Len(state.hourly) -> 0..Len(hours)] :
           /\ AreRuns(state.hourly, hours, end)
           /\ Len(state.hourly) < MaxHourBuckets => end[0] = 0

\* A cut of the hours is a place for the end of each bucket, and for the begin of
\* the first.
Cuts(buckets, hours) == [0..Len(buckets) -> 0..Len(hours)]

\* The alert that continues the newest run makes its bucket one longer.
LEMMA RunGrows ==
  ASSUME NEW b \in Seq(HourBucket), NEW s \in Seq(Nat), NEW hour \in Nat,
         NEW end \in Cuts(b, s), AreRuns(b, s, end),
         Len(b) > 0, b[Len(b)].hour = hour
  PROVE  LET more == [b EXCEPT ![Len(b)].count = @ + 1]
             last == [end EXCEPT ![Len(b)] = Len(s) + 1]
         IN  /\ Len(more) = Len(b) /\ last[0] = end[0]
             /\ last \in Cuts(more, Append(s, hour))
             /\ AreRuns(more, Append(s, hour), last)
<1> DEFINE n == Len(b)
           N == Len(s)
           more == [b EXCEPT ![n].count = @ + 1]
           last == [end EXCEPT ![n] = N + 1]
           t == Append(s, hour)
<1>1. n \in Nat \ {0} /\ N \in Nat
  OBVIOUS
<1>2. /\ more \in Seq(HourBucket) /\ Len(more) = n
      /\ \A i \in 1..n : more[i].hour = b[i].hour
      /\ \A i \in 1..n : i # n => more[i] = b[i]
      /\ more[n].count = b[n].count + 1
      /\ \A i \in 1..n : b[i].count \in Nat
  <2>1. \A i \in 1..n : b[i] \in HourBucket
    OBVIOUS
  <2>2. [b[n] EXCEPT !.count = @ + 1] \in HourBucket
    <3>1. \A x \in HourBucket, y \in Nat : [x EXCEPT !.count = y] \in HourBucket
      BY DEF HourBucket
    <3>2. b[n] \in HourBucket
      BY <1>1, <2>1
    <3>3. b[n].count + 1 \in Nat
      BY <3>2 DEF HourBucket
    <3>4. QED  BY <3>1, <3>2, <3>3
  <2>3. QED  BY <1>1, <2>1, <2>2 DEF HourBucket
<1>3. /\ t \in Seq(Nat) /\ Len(t) = N + 1 /\ t[N+1] = hour
      /\ \A k \in 1..N : t[k] = s[k]
  OBVIOUS
<1>4. /\ end \in [0..n -> 0..N]
      /\ last \in [0..n -> 0..N+1] /\ last[n] = N + 1
      /\ \A i \in 0..n : i # n => last[i] = end[i]
  BY <1>1 DEF Cuts
<1>5. /\ \A i \in 1..n :
           /\ b[i].count > 0 /\ end[i] = end[i-1] + b[i].count
           /\ \A k \in end[i-1] + 1 .. end[i] : s[k] = b[i].hour
           /\ end[i-1] > 0 => s[end[i-1]] # b[i].hour
      /\ end[n] = N
  BY DEF AreRuns
<1> HIDE DEF n, N, more, last, t
<1>6. ASSUME NEW i \in 1..n
      PROVE  /\ more[i].count > 0 /\ last[i] = last[i-1] + more[i].count
             /\ \A k \in last[i-1] + 1 .. last[i] : t[k] = more[i].hour
             /\ last[i-1] > 0 => t[last[i-1]] # more[i].hour
  <2>1. i - 1 \in 0..n /\ i - 1 # n /\ last[i-1] = end[i-1] /\ end[i-1] \in 0..N
        /\ i \in 0..n /\ end[i] \in 0..N
    BY <1>1, <1>4
  <2>2. more[i].hour = b[i].hour
    BY <1>2
  <2>a. end[i-1] > 0 => end[i-1] \in 1..N
    BY <2>1, <1>1
  <2>b. end[i-1] > 0 => s[end[i-1]] # b[i].hour
    BY <1>5
  <2>3. last[i-1] > 0 => t[last[i-1]] # more[i].hour
    BY <2>1, <2>2, <2>a, <2>b, <1>3
  <2>4. CASE i = n
    <3>a. end[n] = end[n-1] + b[n].count /\ b[n].count > 0 /\ end[n] = N
      BY <2>4, <1>5
    <3>b. b[n].count \in Nat /\ end[n-1] \in Nat /\ last[n-1] = end[n-1]
      BY <2>1, <2>4, <1>1, <1>2
    <3>c. last[n] = N + 1 /\ more[n].count = b[n].count + 1
      BY <1>2, <1>4
    <3>1. last[i] = last[i-1] + more[i].count /\ more[i].count > 0
      <4>1. /\ last[n] = last[n-1] + more[n].count /\ more[n].count > 0
        <5> DEFINE x == b[n].count
                   y == end[n-1]
        <5>1. x \in Nat /\ y \in Nat /\ N = y + x /\ x > 0
          BY <3>a, <3>b
        <5>2. last[n] = N + 1 /\ more[n].count = x + 1 /\ last[n-1] = y
          BY <3>b, <3>c
        <5> HIDE DEF x, y
        <5>3. QED  BY <5>1, <5>2
      <4>2. QED  BY <4>1, <2>4
    <3>2. ASSUME NEW k \in last[i-1] + 1 .. last[i] PROVE t[k] = more[i].hour
      <4>1. more[i].hour = hour
        BY <2>2, <2>4 DEF n
      <4>2. CASE k = N + 1
        BY <4>1, <4>2, <1>3
      <4>3. CASE k # N + 1
        <5>1. k \in end[i-1] + 1 .. end[i] /\ k \in 1..N
          BY <4>3, <2>1, <2>4, <1>1, <1>4, <1>5
        <5>2. QED  BY <5>1, <1>3, <1>5, <2>2
      <4>4. QED  BY <4>2, <4>3
    <3>3. QED  BY <3>1, <3>2, <2>3
  <2>5. CASE i # n
    <3>1. last[i] = end[i] /\ more[i] = b[i]
      BY <2>5, <2>1, <1>2, <1>4
    <3>2. ASSUME NEW k \in last[i-1] + 1 .. last[i] PROVE t[k] = more[i].hour
      <4>1. k \in end[i-1] + 1 .. end[i] /\ k \in 1..N
        BY <3>1, <2>1, <1>1
      <4>2. QED  BY <4>1, <1>3, <1>5, <2>2
    <3>3. QED  BY <3>1, <3>2, <2>1, <2>3, <1>5
  <2>6. QED  BY <2>4, <2>5
<1>7. last[0] = end[0]
  BY <1>1, <1>4
<1>8. last \in Cuts(more, t) /\ AreRuns(more, t, last)
  BY <1>2, <1>3, <1>4, <1>6 DEF Cuts, AreRuns
<1>9. QED  BY <1>2, <1>7, <1>8 DEF n, N, more, last, t

\* The alert of another hour than the newest begins a run, of a bucket of its own.
LEMMA RunBegins ==
  ASSUME NEW b \in Seq(HourBucket), NEW s \in Seq(Nat), NEW hour \in Nat,
         NEW end \in Cuts(b, s), AreRuns(b, s, end),
         Len(b) = 0 => end[0] = 0, Len(b) > 0 => b[Len(b)].hour # hour
  PROVE  LET more == Append(b, [hour |-> hour, count |-> 1])
             last == [i \in 0..Len(b) + 1 |-> IF i = Len(b) + 1 THEN Len(s) + 1 ELSE end[i]]
         IN  /\ Len(more) = Len(b) + 1 /\ last[0] = end[0]
             /\ last \in Cuts(more, Append(s, hour))
             /\ AreRuns(more, Append(s, hour), last)
<1> DEFINE n == Len(b)
           N == Len(s)
           more == Append(b, [hour |-> hour, count |-> 1])
           last == [i \in 0..n + 1 |-> IF i = n + 1 THEN N + 1 ELSE end[i]]
           t == Append(s, hour)
<1>1. n \in Nat /\ N \in Nat
  OBVIOUS
<1>2. /\ Len(more) = n + 1 /\ more[n+1] = [hour |-> hour, count |-> 1]
      /\ \A i \in 1..n : more[i] = b[i]
      /\ \A i \in 1..n : b[i].count \in Nat
  <2>1. \A i \in 1..n : b[i] \in HourBucket
    OBVIOUS
  <2>2. [hour |-> hour, count |-> 1] \in HourBucket
    BY DEF HourBucket
  <2>3. QED  BY <2>1, <2>2 DEF HourBucket
<1>3. /\ t \in Seq(Nat) /\ Len(t) = N + 1 /\ t[N+1] = hour
      /\ \A k \in 1..N : t[k] = s[k]
  OBVIOUS
<1>4. /\ end \in [0..n -> 0..N]
      /\ last \in [0..n+1 -> 0..N+1] /\ last[n+1] = N + 1
      /\ \A i \in 0..n : last[i] = end[i]
  BY <1>1 DEF Cuts
<1>5. /\ \A i \in 1..n :
           /\ b[i].count > 0 /\ end[i] = end[i-1] + b[i].count
           /\ \A k \in end[i-1] + 1 .. end[i] : s[k] = b[i].hour
           /\ end[i-1] > 0 => s[end[i-1]] # b[i].hour
      /\ end[n] = N
  BY DEF AreRuns
<1>6. (n = 0 => end[0] = 0) /\ (n > 0 => b[n].hour # hour)
  OBVIOUS
<1> HIDE DEF n, N, more, last, t
<1>7. N > 0 => s[N] # hour
  <2> SUFFICES ASSUME N > 0 PROVE s[N] # hour
    OBVIOUS
  <2>1. n > 0
    BY <1>1, <1>5, <1>6
  <2>2. n \in 1..n /\ n - 1 \in 0..n
    BY <2>1, <1>1
  <2>3. end[n-1] \in Nat /\ b[n].count \in Nat
    BY <2>2, <1>1, <1>2, <1>4
  <2>4. N \in end[n-1] + 1 .. end[n]
    <3> DEFINE x == b[n].count
               y == end[n-1]
    <3>1. x \in Nat /\ y \in Nat /\ x > 0 /\ end[n] = y + x /\ end[n] = N
      BY <2>2, <2>3, <1>5
    <3> HIDE DEF x, y
    <3>2. y + 1 <= N /\ N \in Int
      BY <3>1, <1>1
    <3>3. N \in y + 1 .. end[n]
      BY <3>1, <3>2
    <3>4. QED  BY <3>3 DEF y
  <2>5. QED  BY <2>1, <2>2, <2>4, <1>5, <1>6
<1>8. ASSUME NEW i \in 1..n+1
      PROVE  /\ more[i].count > 0 /\ last[i] = last[i-1] + more[i].count
             /\ \A k \in last[i-1] + 1 .. last[i] : t[k] = more[i].hour
             /\ last[i-1] > 0 => t[last[i-1]] # more[i].hour
  <2>1. i - 1 \in 0..n /\ last[i-1] = end[i-1] /\ end[i-1] \in 0..N
    BY <1>1, <1>4
  <2>2. CASE i = n + 1
    <3>1. last[i-1] = N /\ last[i] = N + 1 /\ more[i].hour = hour /\ more[i].count = 1
      BY <2>1, <2>2, <1>1, <1>2, <1>4, <1>5
    <3>2. N > 0 => t[N] # hour
      BY <1>1, <1>3, <1>7
    <3>3. QED  BY <3>1, <3>2, <1>1, <1>3
  <2>3. CASE i # n + 1
    <3>c. i \in 1..n /\ i \in 0..n
      BY <2>3, <1>1
    <3>1. i \in 1..n /\ last[i] = end[i] /\ more[i] = b[i] /\ end[i] \in 0..N
      BY <3>c, <1>2, <1>4
    <3>2. ASSUME NEW k \in last[i-1] + 1 .. last[i] PROVE t[k] = more[i].hour
      <4>1. k \in end[i-1] + 1 .. end[i] /\ k \in 1..N
        BY <3>1, <2>1, <1>1
      <4>2. QED  BY <4>1, <3>1, <1>3, <1>5
    <3>a. end[i-1] > 0 => end[i-1] \in 1..N
      BY <2>1, <1>1
    <3>b. end[i-1] > 0 => s[end[i-1]] # b[i].hour
      BY <3>1, <1>5
    <3>3. last[i-1] > 0 => t[last[i-1]] # more[i].hour
      BY <3>1, <3>a, <3>b, <2>1, <1>3
    <3>4. QED  BY <3>1, <3>2, <3>3, <2>1, <1>5
  <2>4. QED  BY <2>2, <2>3
<1>9. last[0] = end[0]
  BY <1>1, <1>4
<1>10. last \in Cuts(more, t) /\ AreRuns(more, t, last)
  BY <1>2, <1>3, <1>4, <1>8 DEF Cuts, AreRuns
<1>11. QED  BY <1>2, <1>9, <1>10 DEF n, N, more, last, t

\* Without its oldest bucket a cut is one that begins where that bucket ended.
LEMMA RunForgotten ==
  ASSUME NEW b \in Seq(HourBucket), NEW s \in Seq(Nat), NEW n \in Nat, Len(b) = n + 1,
         NEW end \in Cuts(b, s), AreRuns(b, s, end)
  PROVE  LET rest == [i \in 0..n |-> end[i+1]]
         IN  /\ Len(LastN(b, n)) = n
             /\ rest \in Cuts(LastN(b, n), s)
             /\ AreRuns(LastN(b, n), s, rest)
<1> DEFINE l == LastN(b, n)
           rest == [i \in 0..n |-> end[i+1]]
           N == Len(s)
<1>1. Len(l) = n
  BY LastNType
<1>2. \A i \in 1..n : l[i] = b[i+1]
  <2>1. ASSUME NEW i \in 1..n PROVE l[i] = b[i+1]
    <3>1. l[i] = b[Len(b) - n + i]
      BY LastNElement
    <3>2. QED  BY <3>1
  <2>2. QED  BY <2>1
<1>3. N \in Nat
  OBVIOUS
<1>4. end \in [0..n+1 -> 0..N] /\ rest \in [0..n -> 0..N]
      /\ \A i \in 0..n : rest[i] = end[i+1]
  BY DEF Cuts
<1>5. /\ \A i \in 1..n+1 :
           /\ b[i].count > 0 /\ end[i] = end[i-1] + b[i].count
           /\ \A k \in end[i-1] + 1 .. end[i] : s[k] = b[i].hour
           /\ end[i-1] > 0 => s[end[i-1]] # b[i].hour
      /\ end[n+1] = N
  BY DEF AreRuns
<1> HIDE DEF l, rest, N
<1>6. ASSUME NEW i \in 1..n
      PROVE  /\ l[i].count > 0 /\ rest[i] = rest[i-1] + l[i].count
             /\ \A k \in rest[i-1] + 1 .. rest[i] : s[k] = l[i].hour
             /\ rest[i-1] > 0 => s[rest[i-1]] # l[i].hour
  <2> DEFINE j == i + 1
  <2>1. j \in 1..n+1 /\ j - 1 = i /\ i \in 0..n /\ i - 1 \in 0..n /\ (i-1) + 1 = i
    OBVIOUS
  <2>2. l[i] = b[j] /\ rest[i] = end[j] /\ rest[i-1] = end[j-1]
    BY <2>1, <1>2, <1>4
  <2> HIDE DEF j
  <2>3. QED  BY <2>1, <2>2, <1>5
<1>7. rest[n] = N
  BY <1>4, <1>5
<1>8. rest \in Cuts(l, s) /\ AreRuns(l, s, rest)
  BY <1>1, <1>3, <1>4, <1>6, <1>7 DEF Cuts, AreRuns, N
<1>9. QED  BY <1>1, <1>8 DEF l, rest

\* The buckets are a cut of the hours of all alerts or of the newest of them.
BucketsOf(buckets, hours) ==
  /\ Len(buckets) <= MaxHourBuckets
  /\ \E end \in Cuts(buckets, hours) :
       /\ AreRuns(buckets, hours, end)
       /\ Len(buckets) < MaxHourBuckets => end[0] = 0

\* Counting an alert's hour keeps the buckets a cut of the hours.
LEMMA HourCounted ==
  ASSUME NEW b \in Seq(HourBucket), NEW s \in Seq(Nat), NEW hour \in Nat, BucketsOf(b, s)
  PROVE  BucketsOf(CountHour(b, hour), Append(s, hour))
<1> DEFINE n == Len(b)
           t == Append(s, hour)
<1>1. n \in Nat /\ MaxHourBuckets \in Nat \ {0} /\ n <= MaxHourBuckets
  BY StateAssumption DEF BucketsOf
<1>2. PICK end \in Cuts(b, s) :
        AreRuns(b, s, end) /\ (Len(b) < MaxHourBuckets => end[0] = 0)
  BY DEF BucketsOf
<1>3. CASE n > 0 /\ b[n].hour = hour
  <2>1. CountHour(b, hour) = [b EXCEPT ![n].count = @ + 1]
    BY <1>3 DEF CountHour
  <2> DEFINE more == [b EXCEPT ![n].count = @ + 1]
             last == [end EXCEPT ![n] = Len(s) + 1]
  <2>2. /\ Len(more) = n /\ last[0] = end[0]
        /\ last \in Cuts(more, t) /\ AreRuns(more, t, last)
    BY <1>2, <1>3, RunGrows
  <2> HIDE DEF more, last, t
  <2>3. BucketsOf(more, t)
    BY <1>1, <1>2, <2>2 DEF BucketsOf
  <2>4. QED  BY <2>1, <2>3 DEF more, t
<1>4. CASE ~(n > 0 /\ b[n].hour = hour)
  <2> DEFINE more == Append(b, [hour |-> hour, count |-> 1])
             last == [i \in 0..Len(b) + 1 |-> IF i = Len(b) + 1 THEN Len(s) + 1 ELSE end[i]]
  <2>1. CountHour(b, hour) = LastN(more, MaxHourBuckets)
    BY <1>4 DEF CountHour
  <2>2. Len(b) = 0 => end[0] = 0
    BY <1>1, <1>2
  <2>3. /\ Len(more) = n + 1 /\ last[0] = end[0]
        /\ last \in Cuts(more, t) /\ AreRuns(more, t, last)
    BY <1>2, <1>4, <2>2, RunBegins
  <2>4. more \in Seq(HourBucket) /\ t \in Seq(Nat)
    BY DEF HourBucket
  <2> HIDE DEF more, last, t
  <2>5. CASE n < MaxHourBuckets
    <3>1. LastN(more, MaxHourBuckets) = more
      BY <2>3, <2>5, <1>1 DEF LastN
    <3>2. BucketsOf(more, t)
      BY <1>1, <1>2, <2>3, <2>5 DEF BucketsOf
    <3>3. QED  BY <2>1, <3>1, <3>2 DEF t
  <2>6. CASE n = MaxHourBuckets
    <3> DEFINE rest == [i \in 0..n |-> last[i+1]]
    <3> HIDE DEF n
    <3>1. /\ Len(LastN(more, n)) = n
          /\ rest \in Cuts(LastN(more, n), t)
          /\ AreRuns(LastN(more, n), t, rest)
      BY <1>1, <2>3, <2>4, RunForgotten
    <3> HIDE DEF rest
    <3>2. BucketsOf(LastN(more, n), t)
      BY <1>1, <2>6, <3>1 DEF BucketsOf
    <3>3. QED  BY <2>1, <2>6, <3>2 DEF t
  <2>7. QED  BY <1>1, <2>5, <2>6 DEF n
<1>5. QED  BY <1>3, <1>4

\* The hours of a sequence of alerts.
HoursOf(s) == [k \in 1..Len(s) |-> TruncateToHour(s[k].ts)]

\* The hours are instants, and one more alert adds its hour.
LEMMA HoursAppend ==
  ASSUME NEW s \in Seq(Alert), NEW a \in Alert
  PROVE  /\ HoursOf(s) \in Seq(Nat)
         /\ HoursOf(Append(s, a)) = Append(HoursOf(s), TruncateToHour(a.ts))
<1>1. \A k \in 1..Len(s) : s[k] \in Alert
  OBVIOUS
<1>2. \A k \in 1..Len(s) : TruncateToHour(s[k].ts) \in Nat
  BY <1>1, HourType DEF Alert
<1>3. TruncateToHour(a.ts) \in Nat
  BY HourType DEF Alert
<1>4. HoursOf(s) \in Seq(Nat) /\ Len(HoursOf(s)) = Len(s)
      /\ \A k \in 1..Len(s) : HoursOf(s)[k] = TruncateToHour(s[k].ts)
  BY <1>2 DEF HoursOf
<1> DEFINE u == Append(s, a)
           hour == TruncateToHour(a.ts)
<1>5. Len(u) = Len(s) + 1 /\ u[Len(s) + 1] = a /\ \A k \in 1..Len(s) : u[k] = s[k]
  OBVIOUS
<1>6. \A k \in 1..Len(s) + 1 : k \in 1..Len(s) \/ k = Len(s) + 1
  OBVIOUS
<1> HIDE DEF u
<1>7. \A k \in 1..Len(s) + 1 : TruncateToHour(u[k].ts) \in Nat
  BY <1>2, <1>3, <1>5, <1>6
<1>8. HoursOf(u) \in Seq(Nat) /\ Len(HoursOf(u)) = Len(s) + 1
      /\ \A k \in 1..Len(s) + 1 : HoursOf(u)[k] = TruncateToHour(u[k].ts)
  BY <1>5, <1>7 DEF HoursOf
<1>9. /\ Append(HoursOf(s), hour) \in Seq(Nat)
      /\ Len(Append(HoursOf(s), hour)) = Len(s) + 1
      /\ Append(HoursOf(s), hour)[Len(s) + 1] = hour
      /\ \A k \in 1..Len(s) : Append(HoursOf(s), hour)[k] = HoursOf(s)[k]
  BY <1>3, <1>4
<1> HIDE DEF hour
<1>10. \A k \in 1..Len(s) + 1 : HoursOf(u)[k] = Append(HoursOf(s), hour)[k]
  BY <1>4, <1>5, <1>6, <1>8, <1>9 DEF hour
<1>11. HoursOf(u) = Append(HoursOf(s), hour)
  BY <1>8, <1>9, <1>10, SeqEqual
<1>12. QED  BY <1>4, <1>11 DEF u, hour

\* The hourly buckets count every recorded alert once, by runs of equal hours, and
\* forget whole runs only, the oldest first: the sums of GetStats are right even where
\* its hours are not those that ipc.rs tells of.
THEOREM HoursCounted == PipeSpec => []HourlyIsRunLength
<1>1. HourlyIsRunLength <=> BucketsOf(state.hourly, HoursOf(Recorded))
  BY DEF HourlyIsRunLength, BucketsOf, HoursOf, Cuts
<1>2. ASSUME Recorded = <<>>, state = EmptyState PROVE HourlyIsRunLength
  <2>1. state.hourly = <<>> /\ HoursOf(Recorded) = <<>>
    BY <1>2 DEF EmptyState, HoursOf
  <2> DEFINE none == [i \in 0..0 |-> 0]
  <2>2. none \in Cuts(<<>>, <<>>) /\ AreRuns(<<>>, <<>>, none) /\ none[0] = 0
    BY DEF Cuts, AreRuns
  <2> HIDE DEF none
  <2>3. BucketsOf(<<>>, <<>>)
    BY <2>2, StateAssumption DEF BucketsOf
  <2>4. QED  BY <2>1, <2>3, <1>1
<1>3. PipeInit => HourlyIsRunLength
  BY <1>2 DEF PipeInit, FreshDaemon, Recorded
<1>4. TypeOK /\ HourlyIsRunLength /\ [PipeNext]_pipeVars => HourlyIsRunLength'
  <2> SUFFICES ASSUME TypeOK, HourlyIsRunLength, [PipeNext]_pipeVars
               PROVE  HourlyIsRunLength'
    OBVIOUS
  <2>0. HourlyIsRunLength' <=> BucketsOf(state'.hourly, HoursOf(Recorded'))
    BY DEF HourlyIsRunLength, BucketsOf, HoursOf, Cuts
  <2>1. CASE state' = state /\ Recorded' = Recorded
    BY <2>0, <2>1, <1>1
  <2>2. CASE Record
    <3>1. /\ Recorded = feed /\ Recorded' = Append(feed, hand)
          /\ state' = RecordAlert(state, hand)
          /\ feed \in Seq(Alert) /\ hand \in Alert /\ state \in StateType
      BY <2>2 DEF Record, Recorded, TypeOK
    <3>2. /\ state'.hourly = CountHour(state.hourly, TruncateToHour(hand.ts))
          /\ state.hourly \in Seq(HourBucket)
      BY <3>1 DEF RecordAlert, StateType
    <3>3. TruncateToHour(hand.ts) \in Nat
      BY <3>1, HourType DEF Alert
    <3>4. /\ HoursOf(feed) \in Seq(Nat)
          /\ HoursOf(Recorded') = Append(HoursOf(feed), TruncateToHour(hand.ts))
      BY <3>1, HoursAppend
    <3>5. BucketsOf(state.hourly, HoursOf(feed))
      BY <3>1, <1>1
    <3>6. BucketsOf(state'.hourly, HoursOf(Recorded'))
      BY <3>2, <3>3, <3>4, <3>5, HourCounted
    <3>7. QED  BY <3>6, <2>0
  <2>3. CASE Halt
    <3>1. Recorded' = <<>> /\ state' = EmptyState
      BY <2>3 DEF Halt, Recorded
    <3>2. state'.hourly = <<>> /\ HoursOf(Recorded') = <<>>
      BY <3>1 DEF EmptyState, HoursOf
    <3> DEFINE none == [i \in 0..0 |-> 0]
    <3>3. none \in Cuts(<<>>, <<>>) /\ AreRuns(<<>>, <<>>, none) /\ none[0] = 0
      BY DEF Cuts, AreRuns
    <3> HIDE DEF none
    <3>4. BucketsOf(<<>>, <<>>)
      BY <3>3, StateAssumption DEF BucketsOf
    <3>5. QED  BY <3>2, <3>4, <2>0
  <2>4. CASE Receive \/ WriteObject \/ WriteNewline \/ Broadcast
    BY <2>4, <2>1 DEF Receive, WriteObject, WriteNewline, WriteFails, Broadcast, Recorded
  <2>5. QED
    BY <2>1, <2>2, <2>3, <2>4
       DEF PipeNext, PipeWork, Dispatch, Tick, Raise, Enqueue, Start, Recorded,
           pipeVars, daemonVars
<1>5. QED  BY <1>3, <1>4, TypeCorrect, PTL DEF PipeSpec

-----------------------------------------------------------------------------
(***************************************************************************)
(* The abstract log: every step of the pipeline is a step of the log of    *)
(* alerts (AlertLog) or changes nothing there.                             *)
(***************************************************************************)

\* The alerts past their monitor, oldest first: broadcast, in hand, in the channel.
Path == (IF hand = NoAlert THEN feed ELSE Append(feed, hand)) \o queue

-----------------------------------------------------------------------------
(* How the steps change the path *)

\* The path and the alerts on it.
LEMMA PathType ==
  ASSUME TypeOK
  PROVE  Path \in Seq(Alert) /\ \A i \in 1..Len(Path) : Path[i] \in Alert
<1>1. (IF hand = NoAlert THEN feed ELSE Append(feed, hand)) \in Seq(Alert)
  <2>1. hand # NoAlert => hand \in Alert
    BY DEF TypeOK
  <2>2. feed \in Seq(Alert)
    BY DEF TypeOK
  <2>3. QED  BY <2>1, <2>2
<1>2. Path \in Seq(Alert)
  BY <1>1, ConcatProperties DEF Path, TypeOK
<1>3. QED  BY <1>2

\* An alert that enters the channel goes to the end of the path.
LEMMA EnqueuePath ==
  ASSUME TypeOK, NEW m \in Monitors, Enqueue(m)
  PROVE  Path' = Append(Path, pending[m]) /\ pending[m] \in Alert
<1> DEFINE front == IF hand = NoAlert THEN feed ELSE Append(feed, hand)
<1>1. pending[m] \in Alert
  BY DEF Enqueue, TypeOK
<1>2. front \in Seq(Alert) /\ queue \in Seq(Alert)
  BY DEF TypeOK
<1>3. front \o Append(queue, pending[m]) = Append(front \o queue, pending[m])
  <2> HIDE DEF front
  <2>1. Append(queue, pending[m]) = queue \o <<pending[m]>>
        /\ <<pending[m]>> \in Seq(Alert)
    BY <1>1, <1>2, AppendIsConcat
  <2>2. front \o (queue \o <<pending[m]>>) = (front \o queue) \o <<pending[m]>>
    BY <1>2, <2>1, ConcatAssociative
  <2>3. front \o queue \in Seq(Alert)
    BY <1>2, ConcatProperties
  <2>4. QED  BY <1>1, <2>1, <2>2, <2>3, AppendIsConcat
<1>4. QED  BY <1>1, <1>3 DEF Enqueue, Path

\* Numbering the oldest alert of the channel changes no order.
LEMMA ReceivePath ==
  ASSUME TypeOK, Receive
  PROVE  /\ Len(Path') = Len(Path)
         /\ \A i \in 1..Len(Path) :
              Path'[i].src = Path[i].src /\ Path'[i].tag = Path[i].tag
              /\ Path'[i].ts = Path[i].ts
<1> DEFINE n == Len(feed)
<1>1. /\ feed' = feed /\ feed \in Seq(Alert) /\ queue \in Seq(Alert) /\ queue # <<>>
      /\ queue' = Tail(queue) /\ hand = NoAlert
      /\ hand' = [Head(queue) EXCEPT !.id = nextId]
  BY DEF Receive, TypeOK
<1>2. /\ Head(queue) \in Alert /\ Head(queue) = queue[1] /\ queue' \in Seq(Alert)
      /\ Len(queue') = Len(queue) - 1 /\ n \in Nat /\ Len(queue) \in Nat \ {0}
      /\ \A k \in 1..Len(queue') : queue'[k] = queue[k + 1]
  BY <1>1
<1>3. /\ hand' \in Alert /\ hand' # NoAlert
      /\ hand'.src = queue[1].src /\ hand'.tag = queue[1].tag /\ hand'.ts = queue[1].ts
  <2>1. hand' \in Alert /\ hand'.src = Head(queue).src /\ hand'.tag = Head(queue).tag
        /\ hand'.ts = Head(queue).ts
    BY <1>1, <1>2 DEF Alert, TypeOK
  <2>2. QED  BY <1>2, <2>1, StateAssumption
<1>4. /\ Path = feed \o queue
      /\ Path' = Append(feed, hand') \o queue'
  BY <1>1, <1>3, StateAssumption DEF Path
<1>5. /\ Len(Path) = n + Len(queue)
      /\ \A i \in 1..n + Len(queue) : Path[i] = IF i <= n THEN feed[i] ELSE queue[i - n]
  BY <1>1, <1>4, ConcatProperties
<1>6. /\ Append(feed, hand') \in Seq(Alert) /\ Len(Append(feed, hand')) = n + 1
      /\ \A i \in 1..n : Append(feed, hand')[i] = feed[i]
      /\ Append(feed, hand')[n + 1] = hand'
  BY <1>1, <1>3
<1>7. /\ Len(Path') = (n + 1) + Len(queue')
      /\ \A i \in 1..(n + 1) + Len(queue') :
           Path'[i] = IF i <= n + 1 THEN Append(feed, hand')[i] ELSE queue'[i - (n + 1)]
  <2> DEFINE front == Append(feed, hand')
             rest == queue'
  <2>1. front \in Seq(Alert) /\ rest \in Seq(Alert) /\ Len(front) = n + 1
    BY <1>2, <1>6
  <2>2. Path' = front \o rest
    BY <1>4
  <2> HIDE DEF front, rest, n
  <2>3. /\ Len(Path') = (n + 1) + Len(rest)
        /\ \A i \in 1..(n + 1) + Len(rest) :
             Path'[i] = IF i <= n + 1 THEN front[i] ELSE rest[i - (n + 1)]
    BY <2>1, <2>2, ConcatProperties
  <2>4. QED  BY <2>3 DEF front, rest
<1>8. ASSUME NEW i \in 1..Len(Path)
      PROVE  Path'[i].src = Path[i].src /\ Path'[i].tag = Path[i].tag
             /\ Path'[i].ts = Path[i].ts
  <2>1. CASE i <= n
    <3>1. i \in 1..n /\ i <= n + 1 /\ i \in 1..(n + 1) + Len(queue')
      BY <2>1, <1>2, <1>5
    <3>2. Path[i] = feed[i] /\ Path'[i] = Append(feed, hand')[i]
      BY <2>1, <3>1, <1>5, <1>7
    <3>3. QED  BY <3>1, <3>2, <1>6
  <2>2. CASE i = n + 1
    <3>1. /\ i \in 1..n + Len(queue) /\ i \in 1..(n + 1) + Len(queue') /\ ~(i <= n)
          /\ i <= n + 1 /\ i - n = 1
      BY <2>2, <1>2, <1>5
    <3>2. Path[i] = queue[i - n] /\ Path'[i] = Append(feed, hand')[i]
      BY <3>1, <1>5, <1>7
    <3>3. QED  BY <2>2, <3>1, <3>2, <1>2, <1>3, <1>6
  <2>3. CASE i > n + 1
    <3>a. /\ i \in 1..n + Len(queue) /\ i \in 1..(n + 1) + Len(queue')
          /\ ~(i <= n) /\ ~(i <= n + 1)
      BY <2>3, <1>2, <1>5
    <3>1. Path[i] = queue[i - n] /\ Path'[i] = queue'[i - (n + 1)]
      BY <3>a, <1>5, <1>7
    <3>2. i - (n + 1) \in 1..Len(queue') /\ (i - (n + 1)) + 1 = i - n
      BY <2>3, <1>2, <1>5
    <3>3. queue'[i - (n + 1)] = queue[i - n]
      BY <3>2, <1>2
    <3>4. QED  BY <3>1, <3>3
  <2>4. QED  BY <1>2, <1>5, <2>1, <2>2, <2>3
<1>9. QED  BY <1>2, <1>5, <1>7, <1>8

\* An alert stays on the path when it is broadcast.
LEMMA BroadcastPath == ASSUME TypeOK, Broadcast PROVE Path' = Path
BY DEF TypeOK, Broadcast, Path

-----------------------------------------------------------------------------
(* The order of the alerts of one monitor *)

(***************************************************************************)
(* Why the order is kept: an alert gets a tag above all others when it is  *)
(* raised, its monitor raises nothing while it waits, and so all that its  *)
(* monitor has on the path is older.                                       *)
(***************************************************************************)
SourcesInOrder ==
  /\ SourceOrder
  /\ \A i \in 1..Len(Path) : Path[i].tag <= raised
  /\ \A m \in Monitors : pending[m] # NoAlert =>
       /\ pending[m].src = m /\ pending[m].tag <= raised
       /\ \A i \in 1..Len(Path) : Path[i].src = m => Path[i].tag < pending[m].tag

\* The strengthened order holds in every reachable state.
LEMMA Ordered == PipeSpec => []SourcesInOrder
<1>1. PipeInit => SourcesInOrder
  <2> SUFFICES ASSUME PipeInit PROVE SourcesInOrder
    OBVIOUS
  <2>1. Path = <<>> /\ \A m \in Monitors : pending[m] = NoAlert
    BY DEF PipeInit, FreshDaemon, Path
  <2>2. Len(Path) = 0
    BY <2>1
  <2>3. QED  BY <2>1, <2>2 DEF SourcesInOrder, SourceOrder, Path
<1>2. TypeOK /\ TypeOK' /\ SourcesInOrder /\ [PipeNext]_pipeVars => SourcesInOrder'
  <2> SUFFICES ASSUME TypeOK, TypeOK', SourcesInOrder, [PipeNext]_pipeVars
               PROVE  SourcesInOrder'
    OBVIOUS
  <2>1. /\ \A i \in 1..Len(Path) : Path[i] \in Alert
        /\ Len(Path) \in Nat /\ raised \in Nat
    <3>1. Path \in Seq(Alert)
      BY PathType
    <3>2. raised \in Nat
      BY DEF TypeOK
    <3>3. QED  BY <3>1, <3>2
  <2>2. \A i, j \in 1..Len(Path) :
          i < j /\ Path[i].src = Path[j].src => Path[i].tag < Path[j].tag
    BY DEF SourcesInOrder, SourceOrder, Path
  <2>3. CASE UNCHANGED <<feed, hand, queue, pending, raised>>
    <3>1. Path' = Path
      BY <2>3 DEF Path
    <3>2. SourceOrder'
      BY <2>2, <3>1 DEF SourceOrder, Path
    <3>3. QED  BY <2>3, <3>1, <3>2 DEF SourcesInOrder
  <2>4. ASSUME NEW m \in Monitors, Raise(m) PROVE SourcesInOrder'
    <3>1. Path' = Path /\ raised' = raised + 1
      BY <2>4 DEF Raise, Path
    <3>a. SourceOrder'
      BY <2>2, <3>1 DEF SourceOrder, Path
    <3>2. SourceOrder' /\ \A i \in 1..Len(Path) : Path[i].tag < raised + 1
      BY <2>1, <3>a DEF SourcesInOrder, Alert
    <3>3. pending'[m].src = m /\ pending'[m].tag = raised + 1
      BY <2>4 DEF Raise, TypeOK
    <3>4. ASSUME NEW k \in Monitors, k # m PROVE pending'[k] = pending[k]
      BY <2>4, <3>4 DEF Raise, TypeOK
    <3>5. ASSUME NEW k \in Monitors, pending[k] # NoAlert PROVE pending[k].tag \in Nat
      BY <3>5 DEF TypeOK, Alert
    <3>6. \A i \in 1..Len(Path') : Path'[i].tag <= raised'
      BY <2>1, <3>1, <3>2 DEF Alert
    <3>7. ASSUME NEW k \in Monitors, pending'[k] # NoAlert
          PROVE  /\ pending'[k].src = k /\ pending'[k].tag <= raised'
                 /\ \A i \in 1..Len(Path') :
                      Path'[i].src = k => Path'[i].tag < pending'[k].tag
      <4>1. CASE k = m
        BY <2>1, <3>1, <3>2, <3>3, <4>1
      <4>2. CASE k # m
        <5>1. pending'[k] = pending[k] /\ pending[k] # NoAlert /\ pending[k].tag \in Nat
          BY <3>4, <3>5, <3>7, <4>2
        <5>2. /\ pending[k].src = k /\ pending[k].tag <= raised
              /\ \A i \in 1..Len(Path) : Path[i].src = k => Path[i].tag < pending[k].tag
          BY <5>1 DEF SourcesInOrder
        <5>3. QED  BY <2>1, <3>1, <5>1, <5>2
      <4>3. QED  BY <4>1, <4>2
    <3>8. QED  BY <3>2, <3>6, <3>7 DEF SourcesInOrder
  <2>5. ASSUME NEW m \in Monitors, Enqueue(m) PROVE SourcesInOrder'
    <3> DEFINE a == pending[m]
    <3>1. /\ Path' = Append(Path, a) /\ a \in Alert /\ raised' = raised /\ a # NoAlert
          /\ pending' = [pending EXCEPT ![m] = NoAlert]
      BY <2>5, EnqueuePath DEF Enqueue
    <3>2. /\ Len(Path') = Len(Path) + 1 /\ Path'[Len(Path) + 1] = a
          /\ \A i \in 1..Len(Path) : Path'[i] = Path[i]
      BY <3>1, PathType
    <3>3. /\ a.src = m /\ a.tag <= raised
          /\ \A i \in 1..Len(Path) : Path[i].src = m => Path[i].tag < a.tag
      BY <3>1 DEF SourcesInOrder
    <3>4. pending'[m] = NoAlert /\ \A k \in Monitors \ {m} : pending'[k] = pending[k]
      BY <3>1 DEF TypeOK
    <3> HIDE DEF a
    <3>5. \A i, j \in 1..Len(Path') :
            i < j /\ Path'[i].src = Path'[j].src => Path'[i].tag < Path'[j].tag
      <4> SUFFICES ASSUME NEW i \in 1..Len(Path) + 1, NEW j \in 1..Len(Path) + 1,
                          i < j, Path'[i].src = Path'[j].src
                   PROVE  Path'[i].tag < Path'[j].tag
        BY <3>2
      <4>1. i \in 1..Len(Path) /\ Path'[i] = Path[i]
        BY <2>1, <3>2
      <4>2. CASE j = Len(Path) + 1
        BY <3>2, <3>3, <4>1, <4>2
      <4>3. CASE j # Len(Path) + 1
        BY <2>1, <2>2, <3>2, <4>1, <4>3
      <4>4. QED  BY <4>2, <4>3
    <3>6. \A i \in 1..Len(Path') : Path'[i].tag <= raised'
      BY <2>1, <3>1, <3>2, <3>3 DEF SourcesInOrder
    <3>7. ASSUME NEW k \in Monitors, pending'[k] # NoAlert, NEW i \in 1..Len(Path'),
                 Path'[i].src = k
          PROVE  Path'[i].tag < pending'[k].tag
      <4>1. k # m /\ pending'[k] = pending[k]
        BY <3>4, <3>7
      <4>2. i \in 1..Len(Path) /\ Path'[i] = Path[i]
        BY <2>1, <3>2, <3>3, <3>7, <4>1
      <4>3. QED  BY <3>7, <4>1, <4>2 DEF SourcesInOrder
    <3>8. \A k \in Monitors : pending'[k] # NoAlert =>
            pending'[k].src = k /\ pending'[k].tag <= raised'
      BY <3>1, <3>4 DEF SourcesInOrder
    <3>9. SourceOrder'
      BY <3>5 DEF SourceOrder, Path
    <3>10. QED  BY <3>6, <3>7, <3>8, <3>9 DEF SourcesInOrder
  <2>6. CASE Receive
    <3>1. UNCHANGED <<pending, raised>>
      BY <2>6 DEF Receive
    <3>2. SourceOrder'
      <4>1. \A i, j \in 1..Len(Path') :
              i < j /\ Path'[i].src = Path'[j].src => Path'[i].tag < Path'[j].tag
        BY <2>2, <2>6, ReceivePath
      <4>2. QED  BY <4>1 DEF SourceOrder, Path
    <3>3. QED  BY <2>6, <3>1, <3>2, ReceivePath DEF SourcesInOrder
  <2>7. CASE Broadcast
    <3>1. Path' = Path /\ UNCHANGED <<pending, raised>>
      BY <2>7, BroadcastPath DEF Broadcast
    <3>2. SourceOrder'
      BY <2>2, <3>1 DEF SourceOrder, Path
    <3>3. QED  BY <3>1, <3>2 DEF SourcesInOrder
  <2>8. CASE Halt
    <3>1. Path' = <<>> /\ \A m \in Monitors : pending'[m] = NoAlert
      BY <2>8 DEF Halt, Path
    <3>2. Len(Path') = 0
      BY <3>1
    <3>3. QED  BY <3>1, <3>2 DEF SourcesInOrder, SourceOrder, Path
  <2>9. QED
    BY <2>3, <2>4, <2>5, <2>6, <2>7, <2>8
       DEF PipeNext, PipeWork, Dispatch, Tick, WriteObject, WriteNewline, Record, Start,
           pipeVars, daemonVars
<1>3. QED  BY <1>1, <1>2, TypeCorrect, PTL DEF PipeSpec

\* The alerts of one monitor keep the order in which it raised them, through the
\* channel, the dispatcher and the broadcast, in every reachable state.
THEOREM SourcesKeepOrder == PipeSpec => []SourceOrder
<1>1. SourcesInOrder => SourceOrder
  BY DEF SourcesInOrder
<1>2. QED  BY <1>1, Ordered, PTL

-----------------------------------------------------------------------------
(* What is on offer *)

\* An alert has no number before it is received.
Unnumbered ==
  /\ \A m \in Monitors : pending[m] # NoAlert => pending[m].id = 0
  /\ \A k \in 1..Len(queue) : queue[k].id = 0

\* Alerts are unnumbered up to the dispatcher in every reachable state.
LEMMA NumberedOnReceipt == PipeSpec => []Unnumbered
<1>1. PipeInit => Unnumbered
  BY DEF PipeInit, FreshDaemon, Unnumbered
<1>2. TypeOK /\ Unnumbered /\ [PipeNext]_pipeVars => Unnumbered'
  <2> SUFFICES ASSUME TypeOK, Unnumbered, [PipeNext]_pipeVars PROVE Unnumbered'
    OBVIOUS
  <2>1. CASE UNCHANGED <<pending, queue>>
    BY <2>1 DEF Unnumbered
  <2>2. ASSUME NEW m \in Monitors, Raise(m) PROVE Unnumbered'
    BY <2>2 DEF Raise, Unnumbered, TypeOK
  <2>3. ASSUME NEW m \in Monitors, Enqueue(m) PROVE Unnumbered'
    <3>1. /\ pending[m] # NoAlert /\ queue \in Seq(Alert) /\ pending[m] \in Alert
          /\ queue' = Append(queue, pending[m])
          /\ pending' = [pending EXCEPT ![m] = NoAlert]
      BY <2>3 DEF Enqueue, TypeOK
    <3>2. \A k \in Monitors : pending'[k] # NoAlert => pending'[k].id = 0
      BY <3>1 DEF Unnumbered, TypeOK
    <3>3. \A k \in 1..Len(queue') : queue'[k] = pending[m] \/
            (k \in 1..Len(queue) /\ queue'[k] = queue[k])
      BY <3>1
    <3>4. QED  BY <3>1, <3>2, <3>3 DEF Unnumbered
  <2>4. CASE Receive
    <3>1. queue \in Seq(Alert) /\ queue # <<>> /\ queue' = Tail(queue) /\ pending' = pending
      BY <2>4 DEF Receive, TypeOK
    <3>2. \A k \in 1..Len(queue') : k + 1 \in 1..Len(queue) /\ queue'[k] = queue[k + 1]
      BY <3>1
    <3>3. QED  BY <3>1, <3>2 DEF Unnumbered
  <2>5. CASE Halt
    BY <2>5 DEF Halt, Unnumbered
  <2>6. QED
    BY <2>1, <2>2, <2>3, <2>4, <2>5
       DEF PipeNext, PipeWork, Dispatch, Tick, WriteObject, WriteNewline, Record,
           Broadcast, Start, pipeVars, daemonVars
<1>3. QED  BY <1>1, <1>2, TypeCorrect, PTL DEF PipeSpec

\* The alerts on offer, by where they are.
IsOffered(a) ==
  \/ \E m \in Monitors : pending[m] # NoAlert /\ a = pending[m]
  \/ \E k \in 1..Len(queue) : a = queue[k]
  \/ hand # NoAlert /\ a = [hand EXCEPT !.id = 0]

\* Offered by membership, before and after a step.
LEMMA OfferedMembers ==
  /\ \A a : a \in Offered <=> IsOffered(a)
  /\ \A a : a \in Offered' <=> IsOffered(a)'
<1>1. \A a : a \in Offered <=> IsOffered(a)
  BY DEF Offered, IsOffered
<1>2. \A a : a \in Offered' <=> IsOffered(a)'
  BY DEF Offered, IsOffered
<1>3. QED  BY <1>1, <1>2

\* The feed begins the path, the alert in hand follows, then the channel.
LEMMA PathPlaces ==
  ASSUME TypeOK
  PROVE  LET n == Len(feed) + (IF hand = NoAlert THEN 0 ELSE 1)
         IN  /\ Len(Path) = n + Len(queue)
             /\ \A i \in 1..Len(feed) : i \in 1..Len(Path) /\ Path[i] = feed[i]
             /\ hand # NoAlert => n \in 1..Len(Path) /\ Path[n] = hand
             /\ \A k \in 1..Len(queue) : n + k \in 1..Len(Path) /\ Path[n + k] = queue[k]
<1> DEFINE front == IF hand = NoAlert THEN feed ELSE Append(feed, hand)
           n == Len(feed) + (IF hand = NoAlert THEN 0 ELSE 1)
<1>1. /\ feed \in Seq(Alert) /\ queue \in Seq(Alert) /\ (hand # NoAlert => hand \in Alert)
      /\ Len(feed) \in Nat /\ Len(queue) \in Nat
  BY DEF TypeOK
<1>2. /\ front \in Seq(Alert) /\ Len(front) = n /\ n \in Nat
      /\ \A i \in 1..Len(feed) : front[i] = feed[i]
      /\ hand # NoAlert => front[n] = hand /\ n >= 1
      /\ Len(feed) <= n
  BY <1>1
<1>3. Path = front \o queue
  BY DEF Path
<1> HIDE DEF front, n
<1>4. /\ Len(Path) = n + Len(queue)
      /\ \A i \in 1..n + Len(queue) : Path[i] = IF i <= n THEN front[i] ELSE queue[i - n]
  BY <1>1, <1>2, <1>3, ConcatProperties
<1>5. \A i \in 1..Len(feed) : i \in 1..Len(Path) /\ Path[i] = feed[i]
  BY <1>1, <1>2, <1>4
<1>6. hand # NoAlert => n \in 1..Len(Path) /\ Path[n] = hand
  BY <1>1, <1>2, <1>4
<1>7. ASSUME NEW k \in 1..Len(queue) PROVE n + k \in 1..Len(Path) /\ Path[n + k] = queue[k]
  <2>1. n + k \in 1..n + Len(queue) /\ ~(n + k <= n) /\ (n + k) - n = k
    BY <1>1, <1>2
  <2>2. QED  BY <1>4, <2>1
<1>8. QED  BY <1>4, <1>5, <1>6, <1>7 DEF n

\* What is on offer or in the feed is an alert, or one without its number.
LEMMA OfferedNat ==
  ASSUME TypeOK, NEW b \in Offered \cup {feed[k] : k \in 1..Len(feed)}
  PROVE  b.tag \in Nat
<1>1. b \in Alert
  <2>1. hand # NoAlert => [hand EXCEPT !.id = 0] \in Alert
    BY DEF TypeOK, Alert
  <2>2. /\ \A k \in 1..Len(queue) : queue[k] \in Alert
        /\ \A k \in 1..Len(feed) : feed[k] \in Alert
        /\ \A m \in Monitors : pending[m] # NoAlert => pending[m] \in Alert
    BY DEF TypeOK
  <2>3. QED  BY <2>1, <2>2, OfferedMembers DEF IsOffered
<1>2. QED  BY <1>1 DEF Alert

\* No tag on offer or in the feed is above the number of alerts raised.
LEMMA TagsBounded ==
  ASSUME TypeOK, SourcesInOrder, NEW b, b \in Offered \/ \E k \in 1..Len(feed) : b = feed[k]
  PROVE  b.tag <= raised
<1>1. CASE \E k \in 1..Len(feed) : b = feed[k]
  BY <1>1, PathPlaces DEF SourcesInOrder
<1>2. CASE \E m \in Monitors : pending[m] # NoAlert /\ b = pending[m]
  BY <1>2 DEF SourcesInOrder
<1>3. CASE \E k \in 1..Len(queue) : b = queue[k]
  <2>1. PICK k \in 1..Len(queue) : b = queue[k]
    BY <1>3
  <2>2. \E i \in 1..Len(Path) : Path[i] = b
    BY <2>1, PathPlaces
  <2>3. QED  BY <2>2 DEF SourcesInOrder
<1>4. CASE hand # NoAlert /\ b = [hand EXCEPT !.id = 0]
  <2>1. \E i \in 1..Len(Path) : Path[i] = hand
    BY <1>4, PathPlaces
  <2>2. hand.tag <= raised /\ hand \in Alert
    BY <1>4, <2>1 DEF SourcesInOrder, TypeOK
  <2>3. QED  BY <1>4, <2>2 DEF Alert
<1>5. QED  BY <1>1, <1>2, <1>3, <1>4, OfferedMembers DEF IsOffered

-----------------------------------------------------------------------------
(* The steps of the pipeline are steps of the log *)

\* A monitor that builds an alert offers one younger than all of its own.
LEMMA RaiseOffers ==
  ASSUME TypeOK, SourcesInOrder, NEW m \in Monitors, Raise(m)
  PROVE  Log!Offer
<1>1. PICK sev \in Severities, cat \in Categories :
        pending' = [pending EXCEPT ![m] =
          [tag |-> raised + 1, src |-> m, sev |-> sev, cat |-> cat, ts |-> now, id |-> 0]]
  BY DEF Raise
<1> DEFINE a == [tag |-> raised + 1, src |-> m, sev |-> sev, cat |-> cat,
                 ts |-> now, id |-> 0]
<1>2. /\ a \in Alert /\ a # NoAlert /\ a.tag = raised + 1 /\ a.id = 0 /\ a.src = m
      /\ raised \in Nat
  <2>1. a \in Alert /\ raised \in Nat
    BY DEF Alert, TypeOK
  <2>2. QED  BY <2>1, StateAssumption
<1>3. /\ pending[m] = NoAlert /\ UNCHANGED <<queue, hand, feed>>
      /\ pending'[m] = a /\ \A k \in Monitors \ {m} : pending'[k] = pending[k]
  BY <1>1 DEF Raise, TypeOK
<1> HIDE DEF a
<1>4. \A b : IsOffered(b)' <=> IsOffered(b) \/ b = a
  BY <1>2, <1>3 DEF IsOffered
<1>5. \A b \in Offered \cup {feed[k] : k \in 1..Len(feed)} : b.tag <= raised
  BY TagsBounded
<1>6. a \notin Offered
  BY <1>2, <1>5
<1>7. Offered' = Offered \cup {a}
  BY <1>4, OfferedMembers
<1>8. \A b \in Offered \cup {feed[k] : k \in 1..Len(feed)} : b.tag < a.tag
  <2> SUFFICES ASSUME NEW b \in Offered \cup {feed[k] : k \in 1..Len(feed)}
               PROVE  b.tag < a.tag
    OBVIOUS
  <2>1. b.tag \in Nat
    BY OfferedNat
  <2>2. QED  BY <1>2, <1>5, <2>1
<1>9. QED  BY <1>2, <1>3, <1>6, <1>7, <1>8 DEF Log!Offer

\* Waiting, the channel and the dispatcher's hand are all the same to the log.
LEMMA EnqueueStutters ==
  ASSUME TypeOK, NEW m \in Monitors, Enqueue(m)
  PROVE  Offered' = Offered /\ feed' = feed
<1>1. /\ pending[m] # NoAlert /\ pending[m] \in Alert /\ queue \in Seq(Alert)
      /\ queue' = Append(queue, pending[m]) /\ UNCHANGED <<hand, feed>>
      /\ pending'[m] = NoAlert /\ \A k \in Monitors \ {m} : pending'[k] = pending[k]
  BY DEF Enqueue, TypeOK
<1>2. /\ Len(queue') = Len(queue) + 1 /\ queue'[Len(queue) + 1] = pending[m]
      /\ \A k \in 1..Len(queue) : queue'[k] = queue[k]
      /\ Len(queue) \in Nat
  BY <1>1
<1>3. \A b : (\E k \in 1..Len(queue') : b = queue'[k])
             <=> (\E k \in 1..Len(queue) : b = queue[k]) \/ b = pending[m]
  BY <1>2
<1>4. \A b : (\E k \in Monitors : pending'[k] # NoAlert /\ b = pending'[k]) \/ b = pending[m]
             <=> \E k \in Monitors : pending[k] # NoAlert /\ b = pending[k]
  BY <1>1
<1>5. \A b : IsOffered(b)' <=> IsOffered(b)
  BY <1>1, <1>3, <1>4 DEF IsOffered
<1>6. QED  BY <1>1, <1>5, OfferedMembers

\* The alert that is received and numbered stays on offer as it was.
LEMMA ReceiveStutters ==
  ASSUME TypeOK, Unnumbered, Receive
  PROVE  Offered' = Offered /\ feed' = feed
<1>1. /\ queue \in Seq(Alert) /\ queue # <<>> /\ queue' = Tail(queue)
      /\ hand = NoAlert /\ hand' = [Head(queue) EXCEPT !.id = nextId]
      /\ UNCHANGED <<pending, feed>>
  BY DEF Receive, TypeOK
<1>2. /\ Head(queue) = queue[1] /\ queue[1] \in Alert /\ Len(queue) \in Nat \ {0}
      /\ Len(queue') = Len(queue) - 1
      /\ \A k \in 1..Len(queue') : queue'[k] = queue[k + 1]
  BY <1>1
<1>3. queue[1].id = 0
  BY <1>2 DEF Unnumbered
<1>4. hand' # NoAlert /\ [hand' EXCEPT !.id = 0] = queue[1]
  <2>1. hand' \in Alert
    BY <1>1, <1>2 DEF Alert, TypeOK
  <2>2. [hand' EXCEPT !.id = 0] = queue[1]
    BY <1>1, <1>2, <1>3 DEF Alert
  <2>3. QED  BY <2>1, <2>2, StateAssumption
<1>5. \A b : (\E k \in 1..Len(queue) : b = queue[k])
             <=> (\E k \in 1..Len(queue') : b = queue'[k]) \/ b = queue[1]
  <2>1. ASSUME NEW k \in 1..Len(queue), k # 1
        PROVE  k - 1 \in 1..Len(queue') /\ queue'[k - 1] = queue[k]
    <3>1. k - 1 \in 1..Len(queue') /\ (k - 1) + 1 = k
      BY <1>2, <2>1
    <3>2. QED  BY <1>2, <3>1
  <2>2. ASSUME NEW k \in 1..Len(queue')
        PROVE  k + 1 \in 1..Len(queue) /\ queue'[k] = queue[k + 1]
    BY <1>2
  <2>3. 1 \in 1..Len(queue)
    BY <1>2
  <2>4. QED  BY <2>1, <2>2, <2>3
<1>6. \A b : IsOffered(b)' <=> IsOffered(b)
  BY <1>1, <1>4, <1>5 DEF IsOffered
<1>7. QED  BY <1>1, <1>6, OfferedMembers

\* The alert that is broadcast is the oldest on offer of its monitor, gets the next
\* number, and is offered no more.
LEMMA BroadcastPublishes ==
  ASSUME TypeOK, SourcesInOrder, FeedNumbered, Broadcast
  PROVE  Log!Publish
<1> DEFINE a == [hand EXCEPT !.id = 0]
           n == Len(feed) + 1
<1>1. /\ hand # NoAlert /\ hand \in Alert /\ hand' = NoAlert /\ feed' = Append(feed, hand)
      /\ UNCHANGED <<pending, queue>> /\ n \in Nat /\ n = Len(feed) + 1 /\ hand.id = n
  BY DEF Broadcast, TypeOK, FeedNumbered
<1>2. /\ a \in Alert /\ a.src = hand.src /\ a.tag = hand.tag
      /\ [a EXCEPT !.id = n] = hand /\ a.tag \in Nat
  BY <1>1 DEF Alert
<1>3. /\ n \in 1..Len(Path) /\ Path[n] = hand /\ Len(Path) \in Nat
      /\ \A k \in 1..Len(queue) : n + k \in 1..Len(Path) /\ Path[n + k] = queue[k]
  BY <1>1, PathPlaces, PathType
<1> HIDE DEF a, n
<1>4. ASSUME NEW m \in Monitors, pending[m] # NoAlert, pending[m].src = a.src
      PROVE  a.tag < pending[m].tag
  BY <1>2, <1>3, <1>4 DEF SourcesInOrder
<1>5. ASSUME NEW k \in 1..Len(queue), queue[k].src = a.src PROVE a.tag < queue[k].tag
  <2>1. n < n + k /\ n + k \in 1..Len(Path) /\ Path[n + k] = queue[k]
    BY <1>1, <1>3
  <2>2. \A i, j \in 1..Len(Path) :
          i < j /\ Path[i].src = Path[j].src => Path[i].tag < Path[j].tag
    BY DEF SourcesInOrder, SourceOrder, Path
  <2>3. Path[n].src = Path[n + k].src
    BY <1>2, <1>3, <1>5, <2>1
  <2>4. Path[n].tag < Path[n + k].tag
    BY <1>3, <2>1, <2>2, <2>3
  <2>5. QED  BY <1>2, <1>3, <2>1, <2>4
<1>6. IsOffered(a)
  BY <1>1 DEF IsOffered, a
<1>7. \A b : IsOffered(b) /\ b # a <=> IsOffered(b)'
  <2>1. \A m \in Monitors : pending[m] # NoAlert => pending[m] # a
    BY <1>2, <1>4
  <2>2. \A k \in 1..Len(queue) : queue[k] # a
    BY <1>2, <1>5
  <2>3. QED  BY <1>1, <2>1, <2>2 DEF IsOffered, a
<1>8. \A b : IsOffered(b) /\ b.src = a.src => a.tag <= b.tag
  <2> SUFFICES ASSUME NEW b, IsOffered(b), b.src = a.src PROVE a.tag <= b.tag
    OBVIOUS
  <2>1. CASE \E m \in Monitors : pending[m] # NoAlert /\ b = pending[m]
    <3>1. PICK m \in Monitors : pending[m] # NoAlert /\ b = pending[m]
      BY <2>1
    <3>2. b \in Alert
      BY <3>1 DEF TypeOK
    <3>3. QED  BY <1>2, <1>4, <3>1, <3>2 DEF Alert
  <2>2. CASE \E k \in 1..Len(queue) : b = queue[k]
    <3>1. PICK k \in 1..Len(queue) : b = queue[k]
      BY <2>2
    <3>2. b \in Alert
      BY <3>1 DEF TypeOK
    <3>3. QED  BY <1>2, <1>5, <3>1, <3>2 DEF Alert
  <2>3. CASE hand # NoAlert /\ b = [hand EXCEPT !.id = 0]
    <3>1. b = a
      BY <2>3 DEF a
    <3>2. QED  BY <1>2, <3>1
  <2>4. QED  BY <2>1, <2>2, <2>3 DEF IsOffered
<1>9. Offered' = Offered \ {a}
  BY <1>7, OfferedMembers
<1>10. QED  BY <1>1, <1>2, <1>6, <1>8, <1>9, OfferedMembers DEF Log!Publish

\* Every behaviour of the pipeline is, to its users, one of the abstract log:
\* alerts offered, published one at a time under consecutive numbers in the order
\* of their source, and lost only all together.
THEOREM RefinesLog == PipeSpec => Log!Spec
<1>1. PipeInit => Log!LogInit
  BY OfferedMembers DEF PipeInit, FreshDaemon, Log!LogInit, IsOffered
<1>2. TypeOK /\ StoppedEmpty /\ FeedNumbered /\ SourcesInOrder /\ Unnumbered
        /\ [PipeNext]_pipeVars => [Log!LogNext]_(Log!logVars)
  <2> SUFFICES ASSUME TypeOK, StoppedEmpty, FeedNumbered, SourcesInOrder, Unnumbered,
                      [PipeNext]_pipeVars
               PROVE  [Log!LogNext]_(Log!logVars)
    OBVIOUS
  <2>1. CASE UNCHANGED <<pending, queue, hand, feed>>
    BY <2>1 DEF Offered, Log!logVars
  <2>2. ASSUME NEW m \in Monitors, Raise(m) PROVE Log!LogNext
    BY <2>2, RaiseOffers DEF Log!LogNext
  <2>3. ASSUME NEW m \in Monitors, Enqueue(m) PROVE UNCHANGED Log!logVars
    BY <2>3, EnqueueStutters DEF Log!logVars
  <2>4. CASE Receive
    BY <2>4, ReceiveStutters DEF Log!logVars
  <2>5. CASE Broadcast
    BY <2>5, BroadcastPublishes DEF Log!LogNext
  <2>6. CASE Halt
    <3>1. \A a : ~IsOffered(a)'
      BY <2>6 DEF Halt, IsOffered
    <3>2. Offered' = {} /\ feed' = <<>>
      BY <2>6, <3>1, OfferedMembers DEF Halt
    <3>3. QED  BY <3>2 DEF Log!LogNext, Log!Lose
  <2>7. QED
    BY <2>1, <2>2, <2>3, <2>4, <2>5, <2>6
       DEF PipeNext, PipeWork, Dispatch, Tick, WriteObject, WriteNewline, Record, Start,
           pipeVars, daemonVars
<1>3. QED
  BY <1>1, <1>2, TypeCorrect, StopsEmpty, Numbered, Ordered, NumberedOnReceipt, PTL
     DEF PipeSpec, Log!Spec
=============================================================================
