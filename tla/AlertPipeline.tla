---------------------------- MODULE AlertPipeline ----------------------------
(***************************************************************************)
(* The path of an alert inside the daemon: a monitor task builds it        *)
(* (Alert::new) and awaits `tx.send' on the bounded mpsc channel; the      *)
(* dispatcher task (dispatcher.rs) receives it, numbers it, writes it to   *)
(* the alert journal (logging.rs), records it in the shared state          *)
(* (state.rs) and sends it on the broadcast channel.  The process may stop *)
(* at any point (SIGTERM, crash) and is started again (systemd, operator): *)
(* the journal is on disk and survives, everything else does not.          *)
(*                                                                         *)
(* The four statements of the dispatcher's loop are separate steps because *)
(* other tasks run between them on the multi-threaded runtime.             *)
(***************************************************************************)
EXTENDS DaemonState, FiniteSets, SequencesExt

CONSTANTS
  MpscCapacity,  \* 1024 in main.rs
  DayLength,     \* clock ticks in one day: the journal starts a new file
  MaxRaised,     \* bound: alerts built over the whole behaviour
  MaxTime,       \* bound: instants of the wall clock
  MaxBoots,      \* bound: starts of the daemon
  MaxFaults      \* bound: writes to the journal that fail

ASSUME PipelineAssumption ==
  /\ MpscCapacity \in Nat \ {0} /\ DayLength \in Nat \ {0}
  /\ MaxRaised \in Nat /\ MaxTime \in Nat
  /\ MaxBoots \in Nat \ {0} /\ MaxFaults \in Nat

VARIABLES
  now,       \* the wall clock; monotone
  raised,    \* alerts built so far, over all boots
  boot,      \* which start of the daemon this is
  up,        \* the process is running
  pending,   \* per monitor: the alert its `tx.send' is waiting to enqueue
  queue,     \* the mpsc channel
  nextId,    \* NEXT_ID
  step,      \* the statement of the dispatcher's loop that comes next
  hand,      \* the alert the dispatcher is working on
  journal,   \* the files alerts.jsonl.<day>: the pieces written, in order
  failed,    \* <<boot, id>> of the alerts whose write was reported to have failed
  state,     \* the value DaemonState's lock protects
  feed       \* everything sent on the broadcast channel in this boot

daemonVars == <<pending, queue, nextId, step, hand, state, feed>>
pipeVars == <<now, raised, boot, up, daemonVars, journal, failed>>

(***************************************************************************)
(* A piece of the journal: a whole JSON object, a prefix of one (a write   *)
(* cut short) or a newline.  The boot tells apart objects that bear the    *)
(* same id, for ids start again at 1 with each process.  The day is that   *)
(* of the file it went to: the RollingFileAppender looks at the clock at   *)
(* every write, so an object and its newline may be in different files.    *)
(* A file is opened for appending: a new process goes on where the old one *)
(* stopped.                                                                *)
(***************************************************************************)
Piece == [kind: {"json", "torn", "newline"}, id: Nat, boot: Nat, day: Nat]

Today == now \div DayLength

Steps == {"recv", "write", "newline", "record", "send"}

TypeOK ==
  /\ now \in 0..MaxTime /\ raised \in 0..MaxRaised /\ boot \in 1..MaxBoots
  /\ up \in BOOLEAN
  /\ pending \in [Monitors -> Alert \cup {NoAlert}]
  /\ queue \in Seq(Alert) /\ Len(queue) <= MpscCapacity
  /\ nextId \in Nat \ {0}
  /\ step \in Steps /\ hand \in Alert \cup {NoAlert}
  /\ (hand = NoAlert) <=> (step = "recv")
  /\ journal \in Seq(Piece)
  /\ failed \in SUBSET (Nat \X Nat)
  /\ state \in StateType
  /\ feed \in Seq(Alert)

FreshDaemon ==
  /\ pending = [m \in Monitors |-> NoAlert]
  /\ queue = <<>>
  /\ nextId = 1
  /\ step = "recv" /\ hand = NoAlert
  /\ state = EmptyState
  /\ feed = <<>>

PipeInit ==
  /\ now = 0 /\ raised = 0 /\ boot = 1 /\ up = TRUE
  /\ FreshDaemon
  /\ journal = <<>> /\ failed = {}

-----------------------------------------------------------------------------
(* Time and monitors *)

Tick ==
  /\ now < MaxTime
  /\ now' = now + 1
  /\ UNCHANGED <<raised, boot, up, daemonVars, journal, failed>>

\* A monitor builds an alert (Alert::new stamps it with the current instant,
\* id 0) and calls tx.send; until the call returns it raises nothing else.
Raise(m) ==
  /\ up /\ pending[m] = NoAlert /\ raised < MaxRaised
  /\ \E sev \in Severities, cat \in Categories :
       pending' = [pending EXCEPT ![m] =
         [tag |-> raised + 1, src |-> m, sev |-> sev, cat |-> cat,
          ts |-> now, id |-> 0]]
  /\ raised' = raised + 1
  /\ UNCHANGED <<now, boot, up, queue, nextId, step, hand, state, feed,
                 journal, failed>>

\* The slip of not bounding the channel.
Enqueue_Unbounded(m) ==
  /\ pending[m] # NoAlert
  /\ queue' = Append(queue, pending[m])
  /\ pending' = [pending EXCEPT ![m] = NoAlert]
  /\ UNCHANGED <<now, raised, boot, up, nextId, step, hand, state, feed,
                 journal, failed>>

\* The slip of sending once more what was sent already.
Enqueue_Resend(m) ==
  /\ pending[m] # NoAlert
  /\ Len(queue) < MpscCapacity
  /\ queue' = Append(queue, pending[m])
  /\ pending' \in {pending, [pending EXCEPT ![m] = NoAlert]}
  /\ UNCHANGED <<now, raised, boot, up, nextId, step, hand, state, feed,
                 journal, failed>>

\* The channel has room: the awaited send completes.
Enqueue(m) ==
  /\ pending[m] # NoAlert
  /\ Len(queue) < MpscCapacity
  /\ queue' = Append(queue, pending[m])
  /\ pending' = [pending EXCEPT ![m] = NoAlert]
  /\ UNCHANGED <<now, raised, boot, up, nextId, step, hand, state, feed,
                 journal, failed>>

-----------------------------------------------------------------------------
(* The dispatcher's loop *)

\* The slip of load in place of fetch_add.
Receive_LoadsId ==
  /\ up /\ step = "recv" /\ queue # <<>>
  /\ hand' = [Head(queue) EXCEPT !.id = nextId]
  /\ queue' = Tail(queue)
  /\ step' = "write"
  /\ UNCHANGED <<now, raised, boot, up, pending, nextId, state, feed, journal, failed>>

\* rx.recv, then alert.id = NEXT_ID.fetch_add(1).
Receive ==
  /\ up /\ step = "recv" /\ queue # <<>>
  /\ hand' = [Head(queue) EXCEPT !.id = nextId]
  /\ nextId' = nextId + 1
  /\ queue' = Tail(queue)
  /\ step' = "write"
  /\ UNCHANGED <<now, raised, boot, up, pending, state, feed, journal, failed>>

JournalPiece(kind) ==
  journal' = Append(journal, [kind |-> kind, id |-> hand.id, boot |-> boot,
                              day |-> Today])

\* The slip of `?' on the write: its failure ends the dispatcher.
WriteFails_EndsLoop ==
  /\ Cardinality(failed) < MaxFaults
  /\ failed' = failed \cup {<<boot, hand.id>>}
  /\ step' = "ended"

\* The slip of `let _ =' on the write: nobody hears of the failure.
WriteFails_Unreported == step' = "record" /\ UNCHANGED failed

\* The write fails; dispatcher.rs logs the error and goes on to record.
WriteFails ==
  /\ Cardinality(failed) < MaxFaults
  /\ failed' = failed \cup {<<boot, hand.id>>}
  /\ step' = "record"

\* The slip of forgetting the newline.
WriteObject_NoNewline ==
  /\ step = "write"
  /\ JournalPiece("json") /\ step' = "record"
  /\ UNCHANGED <<now, raised, boot, up, pending, queue, nextId, hand, state,
                 feed, failed>>

\* write_all of the JSON object: it is all written, or only a prefix of it
\* (possibly empty) is and AlertWriter::write returns the error.
WriteObject ==
  /\ step = "write"
  /\ \/ JournalPiece("json") /\ step' = "newline" /\ UNCHANGED failed
     \/ JournalPiece("torn") /\ WriteFails
     \/ UNCHANGED journal /\ WriteFails
  /\ UNCHANGED <<now, raised, boot, up, pending, queue, nextId, hand, state, feed>>

\* The slip of writing the whole line again when its end could not be written.
WriteNewline_Retries ==
  /\ step = "newline"
  /\ \/ JournalPiece("newline") /\ step' = "record" /\ UNCHANGED failed
     \/ UNCHANGED <<journal, failed>> /\ step' = "write"
  /\ UNCHANGED <<now, raised, boot, up, pending, queue, nextId, hand, state, feed>>

\* write_all of the newline (the flush of a file does nothing more).
WriteNewline ==
  /\ step = "newline"
  /\ \/ JournalPiece("newline") /\ step' = "record" /\ UNCHANGED failed
     \/ UNCHANGED journal /\ WriteFails
  /\ UNCHANGED <<now, raised, boot, up, pending, queue, nextId, hand, state, feed>>

\* The slip of recording after the broadcast.
Record_AfterBroadcast ==
  /\ \/ /\ step = "record" /\ feed' = Append(feed, hand)
        /\ step' = "late" /\ UNCHANGED <<hand, state>>
     \/ /\ step = "late" /\ state' = RecordAlert(state, hand)
        /\ step' = "recv" /\ hand' = NoAlert /\ UNCHANGED feed
  /\ UNCHANGED <<now, raised, boot, up, pending, queue, nextId, journal, failed>>

\* state.record(&alert).await
Record ==
  /\ step = "record"
  /\ state' = RecordAlert(state, hand)
  /\ step' = "send"
  /\ UNCHANGED <<now, raised, boot, up, pending, queue, nextId, hand, feed,
                 journal, failed>>

\* broadcast_tx.send(alert); "no subscriber" is not an error.
Broadcast ==
  /\ step = "send"
  /\ feed' = Append(feed, hand)
  /\ hand' = NoAlert
  /\ step' = "recv"
  /\ UNCHANGED <<now, raised, boot, up, pending, queue, nextId, state,
                 journal, failed>>

Dispatch == Receive \/ WriteObject \/ WriteNewline \/ Record \/ Broadcast

-----------------------------------------------------------------------------
(* The process *)

\* SIGTERM, SIGINT or a crash: main returns (or the process dies) without
\* draining the channel; whatever is not on disk is gone.
Halt ==
  /\ up
  /\ up' = FALSE
  /\ pending' = [m \in Monitors |-> NoAlert]
  /\ queue' = <<>> /\ nextId' = 1
  /\ step' = "recv" /\ hand' = NoAlert
  /\ state' = EmptyState /\ feed' = <<>>
  /\ UNCHANGED <<now, raised, boot, journal, failed>>

\* A new process: NEXT_ID, the state and the channels start afresh.
Start ==
  /\ ~up /\ boot < MaxBoots
  /\ up' = TRUE /\ boot' = boot + 1
  /\ UNCHANGED <<now, raised, daemonVars, journal, failed>>

PipeWork ==
  \/ Tick
  \/ \E m \in Monitors : Raise(m) \/ Enqueue(m)
  \/ Dispatch

PipeNext == PipeWork \/ Halt \/ Start

(***************************************************************************)
(* Fairness: the runtime polls a task that is ready, so each statement of  *)
(* the dispatcher happens once it can.  tokio's mpsc hands its permits out *)
(* in the order the senders asked, so a sender cannot be overtaken for     *)
(* ever.  Nothing forces monitors to raise, the clock to tick, or the      *)
(* process to stop or start.                                               *)
(***************************************************************************)
PipeFairness ==
  /\ WF_pipeVars(Dispatch)
  /\ \A m \in Monitors : SF_pipeVars(Enqueue(m))

PipeSpec == PipeInit /\ [][PipeNext]_pipeVars
FairPipeSpec == PipeSpec /\ PipeFairness

-----------------------------------------------------------------------------
(* What the pipeline promises *)

\* The alerts recorded in this boot: those broadcast, and the one in between.
Recorded == IF step = "send" THEN Append(feed, hand) ELSE feed

\* Ids are the ranks in the broadcast order, without gap or repetition, and
\* the next id is the next rank (alert.rs: "identifiant monotone").
FeedNumbered ==
  /\ \A k \in 1..Len(feed) : feed[k].id = k
  /\ hand # NoAlert => hand.id = Len(feed) + 1
  /\ nextId = Len(feed) + (IF hand = NoAlert THEN 1 ELSE 2)

InJournal(b, id) ==
  \E i \in 1..Len(journal) :
    journal[i].kind = "json" /\ journal[i].boot = b /\ journal[i].id = id

\* Nothing is lost silently: an alert that the state or a client has seen is
\* in the journal, or its write was reported as failed (dispatcher.rs journals
\* before it records and broadcasts).
NothingLostSilently ==
  \A k \in 1..Len(Recorded) :
    \/ InJournal(boot, Recorded[k].id)
    \/ <<boot, Recorded[k].id>> \in failed

\* The journal holds each boot's alerts in id order, none twice, whatever
\* writes failed and wherever the process stopped.
JournalInOrder ==
  \A i, j \in 1..Len(journal) :
    /\ i < j /\ journal[i].kind = "json" /\ journal[j].kind = "json"
    => \/ journal[i].boot < journal[j].boot
       \/ journal[i].boot = journal[j].boot /\ journal[i].id < journal[j].id

\* Piece i of the journal continues the line piece i-1 began, in one file.
Glued(i) ==
  /\ journal[i].day = journal[i-1].day
  /\ journal[i].kind # "newline" /\ journal[i-1].kind # "newline"

\* A line is only ever damaged by a reported write failure or by a stop between
\* the two writes of a line: an object that does not begin a line follows a
\* piece of such an alert.  In particular the change of file at midnight,
\* between an object and its newline, glues nothing.
DamageExplained ==
  \A i \in 2..Len(journal) :
    Glued(i) => \/ <<journal[i-1].boot, journal[i-1].id>> \in failed
                \/ journal[i-1].boot < journal[i].boot

\* logging.rs: "une alerte JSON par ligne".  Every whole object begins a line.
OneAlertPerLine ==
  \A i \in 2..Len(journal) : journal[i].kind = "json" => ~Glued(i)

\* Alerts of one monitor keep the order in which it raised them, on the way
\* through the channel, the dispatcher and the broadcast.
SourceOrder ==
  LET path == (IF hand = NoAlert THEN feed ELSE Append(feed, hand)) \o queue
  IN  \A i, j \in 1..Len(path) :
        i < j /\ path[i].src = path[j].src => path[i].tag < path[j].tag

\* The state is a function of what was recorded: the newest alerts, and
\* counters that agree with them, at every instant a client may look.
StateMatchesRecorded ==
  /\ state.recent = LastN(Recorded, RecentCapacity)
  /\ state.total = Len(Recorded)
  /\ \A s \in Severities :
       state.by_severity[s] =
         Cardinality({k \in 1..Len(Recorded) : Recorded[k].sev = s})
  /\ \A c \in Categories :
       state.by_category[c] =
         Cardinality({k \in 1..Len(Recorded) : Recorded[k].cat = c})

\* The hours that the last MAX_HOUR_BUCKETS hours are.
LastHours == {TruncateToHour(now) - k * HourLength : k \in 0..MaxHourBuckets - 1}

\* ipc.rs: a bucket is the "compteur d'alertes pour une heure donnée", and hourly has
\* the "48 dernières heures au maximum".  Each bucket counts all the alerts of its
\* hour, and its hour is one of the last.
HourlyAsTold ==
  \A i \in 1..Len(state.hourly) : \E hour \in LastHours :
    state.hourly[i] =
      [hour |-> hour,
       count |-> Cardinality({k \in 1..Len(Recorded) :
                                TruncateToHour(Recorded[k].ts) = hour})]

(***************************************************************************)
(* The pipeline implements the abstract log of alerts: an alert is on      *)
(* offer from the moment it is raised until it is broadcast.               *)
(***************************************************************************)
Offered ==
  {pending[m] : m \in {n \in Monitors : pending[n] # NoAlert}}
    \cup {queue[k] : k \in 1..Len(queue)}
    \cup (IF hand = NoAlert THEN {} ELSE {[hand EXCEPT !.id = 0]})

Log == INSTANCE AlertLog WITH offered <- Offered, log <- feed
ImplementsLog == Log!FairSpec
=============================================================================
