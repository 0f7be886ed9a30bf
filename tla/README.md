# A verification project for OwlSentry

OwlSentry watches a Linux machine. A daemon runs four monitors (audit log, file
system, network, processes); what they find becomes alerts, which the daemon
numbers, writes to a journal, counts, and relays over a Unix socket to a
graphical interface. These modules model that system in TLA+, check it with TLC
on small instances, and prove with TLAPS, for every value of their constants,
the safety of the pipeline and its refinement of an abstract log, of the IPC
sessions, of the daemon as a process, of the four monitors and of what the GUI
shows: its light, its list, its notifications and its details panel. Paths below
are relative to `src/`; `daemon/`, `common/` and `gui/` stand for
`crates/owlsentry-daemon/src/` and so on.

    fs, audit, net, process monitors        (tokio tasks)
            | tx.send            bounded mpsc channel, 1024
            v
       dispatcher --- journal alerts.jsonl.<day>    (survives a restart)
            |     `-- DaemonState (RwLock) <--- GetRecent, GetStats
            | broadcast channel, 512                  |
            v                                         |
       IPC session, one task per client --------------'
            | Unix socket, JSON lines
            v
       GUI thread --- unbounded channel ---> GUI interface (one drain per frame)

## Inventory

| Component | State it keeps | Operations | What makes it hard |
| --- | --- | --- | --- |
| alert dispatcher, `daemon/dispatcher.rs` | `NEXT_ID`, the alert in hand | receive and number, journal, record, broadcast | four steps that other tasks interleave with; the process may stop between any two |
| alert journal, `daemon/logging.rs` | a file a day, opened for appending | `AlertWriter::write`: object, then newline | either write may fail or be cut short; midnight falls between two writes; the file outlives the process |
| shared state, `daemon/state.rs` | ring of recent alerts, totals, hour buckets | `record`, `recent`, `stats` | limits of the ring and of the buckets; timestamps that are not in order |
| daemon process, `daemon/main.rs` | channels, tasks, the socket's file | read the files, spawn, install the handlers, wait, clean up | a signal before the handlers; `abort` beside a server that is making the socket; kills and systemd's restarts; a second instance; nothing is drained at a stop; ids start again at 1 |
| configuration, `common/config.rs` | none while running | load, default, validate | a number that nothing checks again ends a task |
| IPC server, `daemon/ipc_server.rs`, `common/ipc.rs` | the listener; per session: subscribed, receiver's position | directory, stale socket, bind, permissions, accept, requests, relay, lag, end | `select!` over requests and alerts; a client that does not read; a failed accept ends the server |
| GUI thread, `gui/client.rs` | the connection | connect, subscribe, ask, read, notify, retry | reconnection while the daemon restarts and ids repeat |
| GUI interface, `gui/app.rs` | light, list of alerts | `drain_events` | snapshot and stream overlap; snapshot merged by id |
| audit monitor, `monitors/audit.rs` | open file, inode, position | read line, stat, reopen | rotation and truncation between any two reads; half-written lines |
| file system monitor, `monitors/fs.rs` | bounded channel, `last_alert` | callback, debounce, classify | back-pressure through three queues; pruning of the table; overflow |
| network monitor, `monitors/net.rs` | known listeners, tracker, sets of reports | poll, three passes, block | sliding window; a firewall call in the middle of a pass; sets cleared whole |
| process monitor, `monitors/process.rs` | sets of reported pids | list, look, suspect, confirm, forget | everything read may be gone or another process by the next read |
| texts, packaging | none while running | wording, installation | not modelled, see below |

They interact by messages (the two channels, the socket, the GUI's channel), by
the state behind the lock, and by files (journal, audit log). What makes each
correct: every alert that is raised is journaled, counted and relayed exactly
once and in order as long as the process lives; what a client is told by a
snapshot and by the stream agree; the GUI shows what it was sent and its light
tells the truth; each monitor reports what it should, once, and nothing else.
`PROJECT.json` lists under `hazards` the places where that could go wrong and
that a test would hardly reach, with the properties that would catch it.

## Modules

| Module | Models | State and actions in terms of the code |
| --- | --- | --- |
| `DaemonState` | `Alert`, `DaemonState` | operators on the value the lock protects: `RecordAlert`, `RecentAlerts`, `StatsSnapshot` |
| `AlertLog` | the promise of the pipeline | alerts are offered and published one by one, numbered; losing all is the only loss |
| `AlertPipeline` | monitors' `tx.send`, dispatcher, journal, process | `Raise`, `Enqueue`; `Receive`, `WriteObject`, `WriteNewline`, `Record`, `Broadcast` are the statements of the dispatcher's loop; `Halt`, `Start`; refines `AlertLog` |
| `AlertPipelineProofs` | | theorems, see below |
| `DaemonProcess` | `main`, `load_config`, `validate`, `serve` up to its loop, beside systemd | per instance of the daemon the next statement of `main` and of `serve`: `LoadConfig`, `LoadRules`, `InitLogging`, `SpawnTasks`, `InstallSignals`, `Abort`, `RemoveSocket`, `Exit`; `ServeDir`, `ServeUnlink`, `ServeBind`, `ServeChmod`; what fails: `StartFails`, `ServeFails`, `Term`, `Kill`; the unit and the administrator: `UnitStart`, `UnitStop`, `UnitReaped`, `HandStart`, `HandReaped` |
| `DaemonProcessProofs` | | theorems, see below |
| `IpcServer` | `serve`, `handle_client`, the socket | EXTENDS `AlertPipeline`: `Listen`, `Accept`, `HandleRequest`, `Relay`, `EndSession`, `AcceptFails`; the clients' `Connect`, `Ask`, `Take`, `Close` |
| `IpcServerProofs` | | theorems, see below |
| `Gui` | `client.rs`, `drain_events` | EXTENDS `IpcServer`: the thread's statements and the turns of the drain's loop, `DrainEvents`, between which the thread may send; the whole system end to end |
| `GuiProofs` | | theorems, see below |
| `AuditTail` | `audit.rs` beside auditd | the loop of `run` cut where it waits: `ReadLine`, `Send`, `EndOfFile`, `Stat`, `Reopen`; auditd's `Write`, `Rename`, `Create`, `Truncate` |
| `AuditTailProofs` | | theorems, see below |
| `FsMonitor` | `fs.rs` beside inotify and `notify` | `Change` (kernel), `TakeEvent`, `BlockingSend` (callback), `HandleEvent`, `Send`, `Tick` |
| `FsMonitorProofs` | | theorems, see below |
| `NetMonitor` | `net.rs` beside the kernel and firewalld | `Poll`, then `Listeners`, `Scan`, `Blocked`, `Established`, `Bounds`; `Send` wherever the code awaits `tx.send` |
| `NetMonitorProofs` | | theorems, see below |
| `ProcessMonitor` | `process.rs` beside the other processes | `List`, `ReadEnviron`, `ReadExe`, `PidsDone`, `Suspect`, `Confirm`, `Cleanup`, `Send`; `Fork`, `Change`, `Exit` |
| `ProcessMonitorProofs` | | theorems, see below |

`AlertPipeline` has one process at a time, with its channels and its state;
`DaemonProcess` has several, with their files and the socket, and nothing of
what the tasks do. The two meet in `Halt` and `Start`, which stand for `Exit`
or `Kill` and for `SpawnTasks`, and in `AcceptFails`, which is the `ServeFails`
of a server that accepts.

`ServerSpec` of `IpcServer` has clients that connect, ask, read and close at any
time, and the theorems about sessions are theorems of it. `MCIpc` bounds what
the clients do and the GUI's thread is one of them: each step of a client in
either is a `ClientStep`.

`MC*` modules give the constants of the instances, and in `MCIpc` the clients'
behaviour. The definitions whose name ends in a word after an underscore
(`WriteFails_EndsLoop`, `Forget_All`) are slips: forms the code could have had by a
plausible mistake, each just before the definition it would replace, and listed
under `mutants` with the property it breaks. They are not part of any `Next`.

The four monitors are modelled apart from the pipeline: towards it they only
wait in `tx.send` (`hand` and `Send`, after a delay of any length), and towards
them it is `Raise` and `Enqueue`. What is raised does not depend on the
pipeline but through that delay, so nothing is lost by checking them apart.

### Abstractions

* An alert is its number, monitor, severity, category, instant and a tag that
  is unique over restarts; titles, explanations and metadata are left out.
* A message on the socket is one unit, written whole or waited for; a client
  has one connection at a time. The backlog is left out.
* A configuration is its language, whether some path is relative, the set of
  numbers that are zero and the enabled monitors; a rules file is its list of
  ignored paths. What a file may hold is a constant. SIGINT and SIGTERM are one
  signal, though the handler of SIGINT is installed a moment later.
* All instances of the daemon have the same socket path. The directory is its
  group only: both the code and the unit give it mode 0750.
* A piece of the journal is an object, a part of one, or a newline.
* A line of the audit log is the sequence of the fields the parser tells
  apart, and its type comes first (`AuditAssumption`: auditd writes
  `type=` at the start of a record and nowhere else). What the network tracker
  keeps of an address is a set of instants and ports, since `retain` and the
  count do not look at the order; a connection, a path and a process carry what the rules look at.
* Reading a table of connections or listing `/proc` is one instant, each later
  read another one. Between two reads anything may happen. One exception: the
  parent and the environment of a process (`process.rs:89`, `96`) are read in one
  instant, since both are taken as they are and neither is looked at beside the
  other.
* What `BufReader` has read ahead of the audit log is not kept: a read takes from
  the file. The two differ for a file that is truncated in place, where lines in
  the buffer would still come; the properties say nothing of an emptied file.
* An address is one value. The forms that `tcp6` gives to IPv4 peers (`::ffff:...`,
  `net.rs:143`) are addresses of their own for the code, and so outside what
  `BlocksTold` says of the exempt addresses they stand for.
* A server that `abort` finds at an await is gone some time between the call and
  the end of the process; the model has the latest moment.
* A pid that is free may be used again at once: processes that are not
  modelled use up the pids between.
* Clocks are counters; the wall clock of the journal and the monotone clock of
  the windows are not compared. The wall clock is never set back.

## Runs

| Run | Question | Bounds, and why they are enough |
| --- | --- | --- |
| `pipeline` | Do journal, state and order agree across failures, midnight and a restart, is each alert broadcast, does it implement `AlertLog`? | two monitors, channel of one: one waits while the other overtakes; three alerts and ring, buckets of two: both overflow; one tick: midnight and the full hour; two boots, one failed write |
| `ipc` | Does what a session sends join state and stream, is a client that reads served, is the session of one that left reclaimed? | one client, on each connection up to two lines of any kind (ping, blank and invalid ones too); channel of one alert and socket of one message: lag and back-pressure, requests and alerts that wait for one another; a limit above the maximum, so that a snapshot has one of two alerts (whole ones are in `gui`); a restart of the daemon. Sessions share nothing but the state and the broadcast channel, which no session can hold up; more clients and longer conversations are in the theorems, as far as safety goes |
| `gui` | Does the light tell the truth, is the list complete, is nothing notified twice, are the details the row's? | three alerts over two boots, so ids repeat; list, snapshot and channels at their limit. The channel to the interface holds one event: a frame applies its events one by one, so a longer one adds delay only, which the socket gives too |
| `audit` | Is a line reported in order, when twice, when not at all, and does the follower catch up? | three files: two rotations, one between look and opening; two lines, each written whole or in two parts; truncation at any time; a line that is not UTF-8 |
| `fs` | At most one alert per path and window, no silent loss? | queues of one and three changes: all three queues fill; pruning from the second path on; a window of two instants in four |
| `net` | Are scans found and true, blocks told as they are, listeners told when they appear, reports not repeated? | three polls of eight tables, window of two instants in four, threshold two, sets cleared above one element |
| `process` | Is nothing reported twice, and is all that stays reported? | two pids, four sets of marks and three births or changes: a pid used again while its number is still in the list, with a parent born after it |
| `daemon` | Does a monitor panic, is a stale socket explained, does whoever listens alone get the clients, does the unit come back? | the unit and one instance by hand, each stopped, killed or failed at any statement, any number of times: slots are used again, so nothing is counted; eleven contents of `owlsentry.conf` (absent, unreadable, valid, a language or a path that `validate` refuses, each of the numbers that is zero where it must not be, a zero that is allowed) and four of `rules.toml` |
| `one_alert_per_line` | violated | a write cut short, or a stop between object and newline |
| `scan_window` | violated | a port probed at two instants, then another |
| `hourly_as_told` | violated | two monitors, one tick of the hour, three buckets: the hours of the three alerts alternate, nothing is forgotten |
| `hidden_was_hidden` | violated | the instance of `process` |

Deadlock is not checked but for `process`: the other instances come to rest when
their bounds are used up, and the daemon itself rests when nothing happens. Only
two modules keep a type invariant among the runs: in the others a wrong type
breaks one of the properties first. The type invariants of the proof modules
are theorems, and they and the strengthenings below were checked as invariants
of the runs before they were proved.

The four violated runs state what a comment says and the code does not do:

* `OneAlertPerLine`: `logging.rs:6` says one alert per line. After a failed
  write, or a stop between the two writes of a line, nothing ends the damaged
  line and the next alert is glued to it. `DamageExplained` (checked) says that
  this is the only way, and `NothingLostSilently` that a failure is reported.
* `WindowCounted`: `net.rs:172` says `record` returns the ports seen in the
  window. It keeps the instant a port was first seen, so a port that is still
  being probed leaves the count. `ScanFound` (checked) is what holds: a scan is
  found if no port was seen at two instants.
* `HourlyAsTold`: `ipc.rs:56` says that a bucket counts the alerts of an hour,
  `ipc.rs:73` that `hourly` has the last 48 hours at most. `record` looks at the
  last bucket only: alerts of two monitors may be recorded out of the order of
  their timestamps, and an hour then has two buckets, each with a part of its
  alerts. The second half fails too, with more ticks than the run has: a bucket
  goes when 48 newer ones are there, so that quiet hours leave older ones. What
  the code keeps in place of it is `HourlyIsRunLength`, which is proved: the run
  lengths of the recorded hours, cut to the newest runs.
* `HiddenWasHidden`: `process.rs:164` says the second listing of `/proc`
  eliminates the race with a process that has just died. It does so for
  processes of the first listing; a parent that is born after it and dies between
  `exists` and the second listing is in neither and is reported. That these are
  the only ones is `HiddenJustified`, which is proved.

What the models show beside that, stated exactly by a property that holds unless
it says otherwise:

* the audit follower misses the lines written between its last read of a file
  and the moment it leaves it, those it read in two parts, those of a file that
  was emptied, and all lines of a file that came and went between two looks at
  the path (`NothingMissed`: no line of a file it had open, but for the first
  three);
* a snapshot is merged into the GUI's list by id, and ids start again with the
  daemon: alerts of an earlier process stay or vanish, and the details panel may
  show one of them (`DetailsAgree`: only across a restart);
* a process whose pid passed from another one between two listings inherits its
  reports (`MarkedReported`: only then);
* a configuration that passes `validate` makes no monitor panic
  (`NoMonitorPanics`), but a monitor may still end with an error, for instance
  at an `audit_log` that is not there (`audit.rs:230`): main logs it, goes on
  and does not start it again. `SpawnTasks` has either outcome;
* the socket is not within the reach of the members of the group it is given
  to, as `ipc_server.rs:5` has it: the unit makes `/run/owlsentry` for
  `root:root` with mode 0750, `serve` sets the same mode and no group, and a
  path is searched before the socket is opened. `dir` and `sock` say so in
  every state of an instance; no run asks for it;
* a second daemon takes the socket of the first, and the stop of either removes
  it whoever made it (`ReachableAlone` promises the socket to an instance that
  met no other); a server that failed once is not started again, and systemd
  does not know (`ComesBack`);
* a stop that comes while `serve` is between its directory and its first accept
  leaves a socket behind, since `abort` acts at an await (`StaleExplained`).

### Fairness

* Dispatcher (`PipeFairness`): weak fairness of its next statement, since the
  runtime polls a ready task; strong fairness of each monitor's `Enqueue`,
  since tokio's mpsc hands out permits in the order they were asked for.
  Nothing is assumed of `Raise`, `Tick`, `Halt`, `Start` or of failing writes.
* Sessions (`IpcFairness`): `select!` polls its branches in random order, so
  strong fairness of reading a request and of relaying, weak fairness of
  accepting and of ending.
* Clients: in `ipc` a client that has not left goes on reading; it may leave at
  any point, and one that left is assumed to do nothing.
* GUI: its thread never stops and a frame is drawn at least every second
  (`request_repaint_after`): weak fairness of the thread and of `DrainEvents`.
* Monitors: weak fairness of each task's next statement and, for sends, of the
  dispatcher, which the pipeline's liveness justifies. For the audit log also
  of `Create`: a rotation is completed. `ProcessMonitor` assumes weak fairness
  of the task as a whole: the timer ticks and the dispatcher takes what it
  sends. `NetMonitor` states safety only, at the end of each pass.
* Daemon (`FairSpec` of `DaemonProcess`): weak fairness of the main task and of
  the server's, which are threads of a running process, of systemd noticing the
  end of the unit's process, and of the restart it then owes
  (`Restart=on-failure`, `RestartSec=5`). Nobody is obliged to start or stop
  anything, to kill, or to fail. `ComesBack` is conditional: once failures,
  signals, bad files and other instances stop, for a unit that is not stopped.

## Proofs

`AlertPipelineProofs` proves, for every number of monitors, every capacity and
bound, from the assumptions on the constants (`StateAssumption`,
`PipelineAssumption`: capacities positive, bounds natural):

| Theorem | Says | Argument |
| --- | --- | --- |
| `TypeCorrect` | `PipeSpec => []TypeOK` | inductive as it stands; `RecordType` and `LastNType` give the state's type. It includes the channel's bound and that an alert is in hand exactly between receive and broadcast |
| `Numbered` | ids are ranks in the feed | inductive with `TypeOK` |
| `StopsEmpty` | a stopped process leaves nothing but the journal | inductive with `TypeOK`; needed for the step `Start` of the others |
| `NothingLost` | `NothingLostSilently` | strengthened to `JournaledFirst`: also the alert in hand is journaled, or its failure is noted, once the dispatcher is past the journal; `KeptIsForEver` says journal and failures only grow |
| `JournalOrdered` | `JournalInOrder` | strengthened to `JournalOlder`: objects of this boot bear ids below the one to be written, objects of older boots come first |
| `DamageIsExplained` | `DamageExplained` | strengthened to `OpenLineExplained`: a line that is open at the end of the journal has its reason now, since the next object that is glued to it makes it damaged; and no line is of a boot to come |
| `HoursCounted` | `HourlyIsRunLength`, what there is in place of `HourlyAsTold` | it says that there are places in the record where the runs of equal hours end, and that the buckets are the lengths between them; a step of `Record` lengthens the last run (`RunGrows`) or begins one (`RunBegins`), and the oldest run may be forgotten (`RunForgotten`) |
| `StateAgrees` | `StateMatchesRecorded` | `LastNAppend` (the ring never needs what it has dropped) and `CountAppend` (a count grows with the alert appended); from these `Record` preserves the equation |

From these follows the order of the alerts and the refinement of `AlertLog`.
`Path` is the way of the alerts: broadcast, in hand, in the channel.

| Theorem | Says | Argument |
| --- | --- | --- |
| `SourcesKeepOrder` | `SourceOrder` | strengthened to `SourcesInOrder`: on the whole path alerts of one monitor are in order of their tags, and the one it waits with comes after all of them. Only `Enqueue` lengthens the path (`EnqueuePath`, `ReceivePath`, `BroadcastPath`) |
| `RefinesLog` | `PipeSpec => Log!Spec` | `Raise` is `Offer`, `Broadcast` is `Publish`, `Halt` is `LoseAll` (`RaiseOffers`, `BroadcastPublishes`), the others change nothing there (`EnqueueStutters`, `ReceiveStutters`). That what is on offer is where it should be needs `Unnumbered` (no number before it is received) and that the alert that is broadcast is the oldest of its monitor, which `SourcesInOrder` gives |

Each strengthening is there because the property speaks of alerts that are
through, and the step that makes it true happens while they are in hand.

`IpcServerProofs` proves, for any clients, channels, limits and bounds, from
`IpcAssumption` and those of the pipeline, of every behaviour of `ServerSpec`:

| Theorem | Says | Argument |
| --- | --- | --- |
| `IpcTypeCorrect` | `IpcTypeOK` | inductive. `ServerRunsPipe` says the server leaves the pipeline's steps what they are, so that its theorems hold here; `ConnSteps` says once what any step does to a connection (stays, hung up, accepted, answered, relayed, lagged) and the other proofs use that |
| `StreamIsAccounted` | `StreamAccounted` | inductive with the pipeline's `FeedNumbered`. The property has a conjunct for what makes it so: an alert that the channel still holds and that is before the cursor has been sent. `LiveAppend` says what an alert sent adds |
| `SnapshotsAreCurrent`, `SnapshotsJoin` | `SnapshotsKeepUp`, `SnapshotJoinsStream` | from one invariant, `SnapshotInv`: no message of a session reaches beyond what is recorded, and its stream begins within the feed. `RecentRanks` and `AnswerReaches` say what an answer to `GetRecent` holds: consecutive ranks up to the last recorded one |
| `ConversationInOrder` | `Conversation` | the property counts: the n-th reply is of the kind of the n-th request that has one. Strengthened to `TalkInv`: also nothing is counted before the session is open, and of one that has been hung up, its last message cut off perhaps, Hello still comes first. `TalkSteps` says once what any step does to the talk (quiet, hello, a request read, an alert told, the end cut off) |

`GuiProofs` proves, for any capacities and limits, from these and
`GuiAssumption`. That one asks for a limit above zero, the GUI's (500,
`client.rs`) and the daemon's (10 000, `ipc_server.rs`): of a limit of zero the
snapshot would be empty whatever the daemon holds, and `ListComplete` false.

| Theorem | Says | Argument |
| --- | --- | --- |
| `GuiIsAClient` | `Spec => ServerSpec` | `ServerStep`: whatever the thread does on the socket, `ClientStep` allows. So the theorems about sessions hold of the GUI's |
| `NoneIsNotifiedTwice` | `NotifiedOnce` | strengthened to `NoticeInv`: an alert is ahead of the session on the path, then unread in the socket, then notified or passed over, and in no two of these at once. Needs `TagsUnique` of the pipeline, and that what comes after a restart has new tags (`AheadStep`); `GuiSteps` says what a step does to the connection |
| `GuiTypeCorrect` | `GuiTypeOK` | inductive with `IpcTypeOK`; `SortArranges` says that a merge is a list of the alerts at the places it retains |
| `LightIsTrue` | `LightAgrees` | the property speaks of a channel that is empty; strengthened to `LightInv`: the light there will be when the events are drained (`Light`, by the last event that switches it) is on exactly while the thread reads and has read. `LightAppend` and `LightDrains` do the two ends of the channel, `ThreadInv` says what the thread's place has to do with its connection |
| `DetailsAreRight` | `DetailsAgree` | strengthened to `DetailsInv`, about the list, the events that wait and the messages that are not read, one behind the other (`Story`): of two alerts in it with one id the first is the same or an older one, and all of them are known, that is, recorded by this process or raised before all it holds. A stable sort by timestamp keeps that order (`StoryMerges`), because what was told later was not raised earlier than what has its id; `ToldSteps` says what a step adds to the story, and it is recorded then |
| `ListIsComplete`, `TwiceAtMost` | `ListComplete`, `TwiceOnlyAfterSnapshot` | both from one invariant, `SeenInv`. Of the messages of the session the first `d` are drained, the others that were taken wait as events, in order (`Queue`), behind events of before the session if none is drained yet. The list has what the drained messages told since the snapshot, or is full (`Complete`), and an alert of this process of the daemon is in it only by them, and a second time only by a snapshot and a live alert after it (`Counted`); without a session it is not in it at all. `HelloListed`, `AlertListed` and `RecentListed` do one message each, the last by the places that a merge takes its members from (`Merged`) |

The last two rest on more than the list. `AskInv` says how many of its two lines
the GUI has written, so that `OneRecent` can say that a session has one snapshot
at most; `RecentInv` that it repeats nothing and is empty only if the daemon has
broadcast nothing. `SessionEnds` says that a session of a daemon that goes on
running ends only before anything was read of it (the `try_clone` that fails),
and `HeldIsOld` that nothing left over from before can become an alert of the
daemon that runs: both are needed because the list is kept over connections and
restarts. `EveryIdTold` counts: a stream that has lagged behind nothing has told
every number it has come past.

`DaemonProcessProofs` proves, for every set of instances run by hand and
whatever the two files may hold, from `ProcessAssumption` (the unit is none of
them, and what the files hold is a configuration or rules, absent or broken):

| Theorem | Says | Argument |
| --- | --- | --- |
| `TypeCorrect` | `Spec => []DaemonTypeOK` | inductive as it stands, cut into control, data, machine, `Phases` and `UnitKnows` (`TypeParts`); `GoneTypes` and `ReturnsTypes` do the ends of a process once for the actions that share them |
| `NonePanics` | `NoMonitorPanics` | strengthened to `LoadedValid`: what main has loaded is valid until it is spawned; `ValidRuns` says that the monitors of a valid configuration run or fail and do not panic. Every action but three loads and spawns nothing (`SpawnsNothing`) |
| `StaleIsExplained` | `StaleExplained` | strengthened to `StoppedClean`: once `abort` is called, a server that is still to bind is noted, and so is a socket of a process that returns without having removed it. Needed because the socket becomes stale at `Exit` and the reason lies at `Abort` or `RemoveSocket` |
| `AloneIsReached` | `ReachableAlone` | strengthened to `AloneIndeed` (an instance that is alone is the only one with tasks, and systemd will not clean up beside it) and `TasksUp` (who may remove the socket has tasks); so each step on the path is one of its own |

`FsMonitorProofs` proves, for all sets of paths, all capacities and windows,
from `FsAssumption`:

| Theorem | Says | Argument |
| --- | --- | --- |
| `TypeCorrect` | the variables the debounce depends on keep their types | inductive as it stands; `HandleCases` says what a turn of the monitor's loop does |
| `Debounces` | `OnePerWindow` | strengthened to `Remembered`: the table holds the instant of an alert, or a later one of its path, as long as its window is open. Needed because pruning forgets; `PrunedKeeps` says it forgets closed windows only |

`AuditTailProofs` proves, for any number of files, lines and truncations, from
`AuditAssumption`. Most of it is what the two sides keep true of the files:

| Theorem | Says | Argument |
| --- | --- | --- |
| `TypeCorrect` | `TailTypeOK` | inductive with `FilesInv`: lines follow each other in a file, each with its type first and its newline last, in no other file, and only the last of the file that auditd writes is without its end. `NextReadIs` and `TrimmedIs` say what a read and what trimming give |
| `AlertsAreInOrder` | `InOrder` | strengthened to `OrderInv`: what is still to be read of the open file begins after every line that was told since it was opened (`IsPassed`), and the alert in hand counts as told |
| `ReplaysAreExplained` | `ReplayExplained` | strengthened to `ReplayInv`: the beginning of a line that was told under an opening that got the file it expected is in the part of the open file that was read, or, after the next opening, neither in the open file nor in the one the path names. A line can so be told again only by way of an opening that got another file |
| `NoneIsMissed` | `NothingMissed`: of a file that the monitor had open; of the others it tells nothing | strengthened to `MissInv`: `NothingMissed` with the alert in hand, that no more was read than there is, and that what was read ends with a line, or with one that is known to be read in parts. `TextIs` says that the text of a line that was read whole is what the parser got |

`StepIs` reduces the steps, for the last three, to six cases: a line is written,
a rotation, a truncation, a line is read, an opening, nothing of these.

`NetMonitorProofs` proves, for any addresses, ports, tables, window, threshold
and size of the sets, from `NetAssumption`:

| Theorem | Says | Argument |
| --- | --- | --- |
| `TypeCorrect` | `NetTypeOK` | inductive |
| `BlocksAreTold` | `BlocksTold` | strengthened to `BlockInv`: the address `firewall-cmd` runs for is not exempt either |
| `ReportsAreNew` | `NoRepeats` | strengthened to `RepeatInv`: an alert of the present epoch of its set is in the set, also the one in hand; the address to be blocked is in the set without an alert |
| `ListenersAreTold` | `ListenersTold` | strengthened to `Knows` (the baseline is what the last pass saw), `Waits` (the port in hand is new) and `Tells` (told is what appeared, once) |
| `ScansAreJustified` | `ScanJustified` | `TrackerInv` (what the tracker keeps was seen when it says, no port twice) and `JustifiedInv` (so is the scan in hand and the one `firewall-cmd` runs for); `EntryOf` and `TrackerStep` say what a probe does to an entry |
| `ScansAreFound` | `ScanFound` | strengthened to `FoundInv`: of an address that was not told of, the tracker still has all that is in the window, if no port came at two instants, and that is too little for a scan (`EntryRemembers`, `EntryNoScan`) |

`Steps` and `ScanSteps` say once what any step adds to the alerts and to what
was seen.

`ProcessMonitorProofs` proves, for any pids, marks and number of births, from
`ProcAssumption`:

| Theorem | Says | Argument |
| --- | --- | --- |
| `TypeCorrect` | `ProcTypeOK` | inductive |
| `ReportedOnce` | `OncePerProcess` | strengthened to `OnceInv`: a process that was reported and lives is in the set of its kind, or was forgotten and is not looked at again while it lives; a suspect was not reported. This needs `Births` (births are numbered, who is left out is known) and `Reading` (who lived before the list and shows is in it) |
| `HiddenAreHidden` | `HiddenJustified`, what there is in place of `HiddenWasHidden` | strengthened to `HiddenInv`: so is a suspect |

Only model-checked:

* all liveness, since fairness and ENABLED are out of the prover's reach:
  `CatchesUp`, `MarkedReported`, `EventuallyAlerted`, `ComesBack`,
  `SessionsReclaimed`, `ReadersServed`, `LightSettles`, `EventuallyShown` and
  the liveness of `AlertLog`;
* the four violated runs.

## What is not modelled

* TOML: a file is what it holds. Paths, groups and lists of the configuration
  that neither `validate` nor `main` looks at are constants of the modules that
  use them. Entries of `never_block` that are not addresses are dropped
  (`net.rs:197`): `NeverBlock` is the set that remains.
* `common/i18n.rs`, `daemon/messages.rs`: wording.
* `packaging/`, `install.sh`: SELinux policy, logrotate, the installer. What the
  unit file makes systemd do to the daemon is in `DaemonProcess`; the limits it
  puts on system calls and capabilities are not.
* Of the daemon: the technical log. Of the GUI: language, filters, drawing, and
  the box that switches notifications off.
* Reading `/proc` and sockets byte by byte: the parsers give what the models
  take as input.

## Plan

Done: the core (state, pipeline, IPC, GUI), the daemon as a process with its
configuration and every monitor are modelled; every safety invariant and action
property that a run checks is proved, and so is the refinement of `AlertLog`.
What would come next, in this order:

1. Model: a composition of one monitor with the pipeline, `Raise` replaced by
   the monitor's `Send`; a second client beside the GUI.
2. Abstract specifications: a stream specification for a session (snapshot
   and live alerts of one feed) that `IpcServer` implements, for which
   `StreamAccounted` and `SnapshotInv` are the invariants; a debounce
   specification for `FsMonitor`.
3. Bounds: two scanners at once; a second client in `ipc`.
