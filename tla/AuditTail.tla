------------------------------ MODULE AuditTail ------------------------------
(***************************************************************************)
(* The audit monitor (owlsentry-daemon/src/monitors/audit.rs) beside the   *)
(* auditd daemon that writes and rotates the file it follows.  The monitor *)
(* reads lines up to the end of the file, sleeps, looks whether the path   *)
(* now names another file or a shorter one, and opens that.                *)
(***************************************************************************)
EXTENDS Integers, Sequences, SequencesExt, FiniteSets

CONSTANTS
  Lines,      \* the lines auditd may write; see below
  MaxInodes,  \* bound: files auditd creates
  MaxLines    \* bound: lines it writes

(***************************************************************************)
(* A line is the sequence of the fields that parse_line and event_to_alert *)
(* tell apart, without the newline.  The first one is the record type;     *)
(* "denied" stands for the word and the braces with the permissions, which *)
(* come together, "critical" for a tcontext of rules.critical_types,       *)
(* "watched" for an exe of rules.watched_commands.                         *)
(***************************************************************************)
Field == {"AVC", "SYSCALL", "MAC_STATUS", "MAC_POLICY_LOAD", "OTHER", "denied",
          "critical", "permissive", "watched", "enforcing=0", "not_utf8"}

Types == {"AVC", "SYSCALL", "MAC_STATUS", "MAC_POLICY_LOAD", "OTHER"}

\* A line begins with its type, and nothing else in it looks like one.
ASSUME AuditAssumption ==
  /\ Lines \subseteq Seq(Field) /\ MaxInodes \in Nat \ {0} /\ MaxLines \in Nat
  /\ \A l \in Lines : l # <<>> /\ \A i \in 2..Len(l) : l[i] \notin Types

Newline == "newline"
None == 0
Inodes == 1..MaxInodes

VARIABLES
  files,    \* per inode, what is in the file: fields, each with its line
  path,     \* the inode audit_log names, or None between rename and create
  made,     \* inodes used so far
  lines,    \* lines begun so far
  rest,     \* what auditd has still to write of the line in progress
  phase,    \* the statement of run's loop that comes next
  fd,       \* the inode of the file the monitor has open
  ino,      \* the inode it believes that to be
  pos,      \* how much of the file it has read
  met,      \* the inode that metadata(path) returned
  hand,     \* the alert that tx.send waits with
  opened,   \* the openings after the first: inode opened, inode expected
  out,      \* the alerts sent
  history   \* what the losses are told by: the file opened first and the lines
            \* begun before that, the lines read in parts, how far each file was
            \* read when it was left, the files that were truncated

fileVars == <<files, path, made, lines, rest>>
tailVars == <<phase, fd, ino, pos, met, hand, opened, out>>
vars == <<fileVars, tailVars, history>>

-----------------------------------------------------------------------------
(* parse_line and event_to_alert: the severity of the alert a line gives *)

Severity == {"medium", "high", "critical"}
NoSeverity == "none"

NoAlert == [line |-> 0, severity |-> NoSeverity, opening |-> 0]

SeverityOf(line) ==
  LET has(field) == field \in ToSet(line)
  IN  IF line = <<>> THEN NoSeverity
      ELSE CASE Head(line) = "AVC" /\ has("denied") ->
                  IF has("critical") THEN "critical"
                  ELSE IF has("permissive") THEN "medium" ELSE "high"
             [] Head(line) = "SYSCALL" /\ has("watched") -> "medium"
             [] Head(line) = "MAC_STATUS" /\ has("enforcing=0") -> "critical"
             [] Head(line) = "MAC_POLICY_LOAD" -> "medium"
             [] OTHER -> NoSeverity

-----------------------------------------------------------------------------
(* auditd *)

\* The next piece of a line is in the file: a write is seen in parts by a
\* reader that comes in the middle of it.
Write ==
  /\ path # None
  /\ \/ /\ rest = <<>> /\ lines < MaxLines
        /\ lines' = lines + 1
        /\ \E l \in Lines : \E k \in 1..Len(l) + 1 :
             LET whole == [i \in 1..Len(l) + 1 |->
                             [line |-> lines + 1,
                              field |-> IF i <= Len(l) THEN l[i] ELSE Newline]]
             IN  /\ files' = [files EXCEPT ![path] = @ \o SubSeq(whole, 1, k)]
                 /\ rest' = SubSeq(whole, k + 1, Len(whole))
     \/ /\ rest # <<>>
        /\ files' = [files EXCEPT ![path] = @ \o rest]
        /\ rest' = <<>> /\ UNCHANGED lines
  /\ UNCHANGED <<path, made, tailVars, history>>

\* Rotation between two lines: the file is renamed, then a new one is created.
Rename ==
  /\ path # None /\ rest = <<>> /\ made < MaxInodes
  /\ path' = None
  /\ UNCHANGED <<files, made, lines, rest, tailVars, history>>

Create ==
  /\ path = None
  /\ path' = made + 1 /\ made' = made + 1
  /\ UNCHANGED <<files, lines, rest, tailVars, history>>

\* Somebody empties the file in place.
Truncate ==
  /\ path # None /\ files[path] # <<>>
  /\ files' = [files EXCEPT ![path] = <<>>]
  /\ history' = [history EXCEPT !.emptied = @ \cup {path}]
  /\ UNCHANGED <<path, made, lines, rest, tailVars>>

Auditd == Write \/ Rename \/ Create \/ Truncate

-----------------------------------------------------------------------------
(* The monitor *)

Init ==
  /\ files = [i \in Inodes |-> <<>>] /\ path = 1 /\ made = 1
  /\ lines = 0 /\ rest = <<>>
  /\ phase = "start" /\ fd = None /\ ino = None /\ pos = 0 /\ met = None
  /\ hand = NoAlert /\ opened = <<>> /\ out = <<>>
  /\ history = [first |-> None, since |-> 0, torn |-> {},
                left |-> [i \in Inodes |-> 0], emptied |-> {}]

\* open, metadata and seek to the end; without a file the monitor ends.
StartAtEnd ==
  /\ phase = "start"
  /\ IF path = None THEN phase' = "ended" /\ UNCHANGED <<fd, ino, pos>>
     ELSE /\ phase' = "read" /\ fd' = path /\ ino' = path
          /\ pos' = Len(files[path])
  /\ history' = [history EXCEPT !.first = path, !.since = lines]
  /\ UNCHANGED <<fileVars, met, hand, opened, out>>

\* Where read_line stops: at the next newline, or at the end of the file.
ReadEnd ==
  LET ends == {k \in pos + 1 .. Len(files[fd]) : files[fd][k].field = Newline}
  IN  IF ends = {} THEN Len(files[fd]) ELSE Min(ends)

NextRead == SubSeq(files[fd], pos + 1, ReadEnd)

\* trim_end: the line without its newline.
Trimmed(line) == IF Last(line).field = Newline THEN Front(line) ELSE line

Fields(line) == [i \in 1..Len(line) |-> line[i].field]

\* The slip of reading again, once it is complete, a line dealt with already.
ReadLine_AgainWhenWhole ==
  /\ phase = "read" /\ NextRead # <<>>
  /\ LET read == Trimmed(NextRead)
         text == Fields(read)
     IN  /\ pos' = IF Last(NextRead).field = Newline THEN pos + Len(NextRead) ELSE pos
         /\ IF SeverityOf(text) = NoSeverity
            THEN UNCHANGED <<phase, hand>>
            ELSE /\ phase' = "send"
                 /\ hand' = [line |-> read[1].line, severity |-> SeverityOf(text),
                             opening |-> Len(opened)]
  /\ UNCHANGED <<fileVars, fd, ino, met, opened, out, history>>

\* read_line gets something: a line, or the beginning of one that is at the end
\* of the file, which is dealt with as if it were a line.  One that is not UTF-8
\* is an error, and that is the end of the monitor.
ReadLine ==
  /\ phase = "read" /\ NextRead # <<>>
  /\ LET read == Trimmed(NextRead)
         text == Fields(read)
     IN  /\ pos' = pos + Len(NextRead)
         /\ IF "not_utf8" \in ToSet(text)
            THEN phase' = "ended" /\ UNCHANGED hand
            ELSE IF SeverityOf(text) = NoSeverity
            THEN UNCHANGED <<phase, hand>>
            ELSE /\ phase' = "send"
                 /\ hand' = [line |-> read[1].line, severity |-> SeverityOf(text),
                             opening |-> Len(opened)]
  /\ history' = [history EXCEPT !.torn =
       IF Last(NextRead).field = Newline THEN @ ELSE @ \cup {Last(NextRead).line}]
  /\ UNCHANGED <<fileVars, fd, ino, met, opened, out>>

\* tx.send: it waits as long as the channel to the dispatcher is full.
Send ==
  /\ phase = "send"
  /\ out' = Append(out, hand) /\ hand' = NoAlert /\ phase' = "read"
  /\ UNCHANGED <<fileVars, fd, ino, pos, met, opened, history>>

\* read_line gets nothing: the monitor sleeps.
EndOfFile ==
  /\ phase = "read" /\ NextRead = <<>>
  /\ phase' = "stat"
  /\ UNCHANGED <<fileVars, fd, ino, pos, met, hand, opened, out, history>>

\* The slip of a rotation known by the inode alone.
Stat_InodeOnly ==
  /\ phase = "stat"
  /\ IF path # None /\ path # ino
     THEN phase' = "open" /\ met' = path
     ELSE phase' = "read" /\ UNCHANGED met
  /\ UNCHANGED <<fileVars, fd, ino, pos, hand, opened, out, history>>

\* metadata(path): is it another file, or shorter than what was read?
Stat ==
  /\ phase = "stat"
  /\ IF path # None /\ (path # ino \/ Len(files[path]) < pos)
     THEN phase' = "open" /\ met' = path
     ELSE phase' = "read" /\ UNCHANGED met
  /\ UNCHANGED <<fileVars, fd, ino, pos, hand, opened, out, history>>

\* The slip of not keeping the new inode.
Reopen_KeepsInode ==
  /\ phase = "open" /\ phase' = "read"
  /\ IF path = None THEN UNCHANGED <<fd, ino, pos, opened>>
     ELSE /\ fd' = path /\ pos' = 0
          /\ opened' = Append(opened, [file |-> path, expected |-> met])
          /\ UNCHANGED ino
  /\ UNCHANGED <<fileVars, met, hand, out, history>>

\* The slip of going to the end of the new file, as at the start.
Reopen_AtEnd ==
  /\ phase = "open" /\ phase' = "read"
  /\ IF path = None THEN UNCHANGED <<fd, ino, pos, opened, history>>
     ELSE /\ fd' = path /\ ino' = met /\ pos' = Len(files[path])
          /\ opened' = Append(opened, [file |-> path, expected |-> met])
          /\ history' = [history EXCEPT !.left[fd] = pos]
  /\ UNCHANGED <<fileVars, met, hand, out>>

\* open(path), which may name yet another file by now, or none.  The inode that
\* is kept is the one metadata told.
Reopen ==
  /\ phase = "open" /\ phase' = "read"
  /\ IF path = None THEN UNCHANGED <<fd, ino, pos, opened, history>>
     ELSE /\ fd' = path /\ ino' = met /\ pos' = 0
          /\ opened' = Append(opened, [file |-> path, expected |-> met])
          /\ history' = [history EXCEPT !.left[fd] = pos]
  /\ UNCHANGED <<fileVars, met, hand, out>>

Monitor == StartAtEnd \/ ReadLine \/ Send \/ EndOfFile \/ Stat \/ Reopen

Next == Auditd \/ Monitor

\* The monitor's task is polled and its sleep ends; auditd creates the file
\* after it renamed the old one.
Spec == Init /\ [][Next]_vars /\ WF_vars(Monitor) /\ WF_vars(Create)

-----------------------------------------------------------------------------
(* What following the file promises *)

\* As long as one file is open its lines give alerts in the order of the file
\* and each line at most one, even a line that was read in two parts.
InOrder ==
  \A i, j \in 1..Len(out) :
    /\ i < j => out[i].opening <= out[j].opening
    /\ i < j /\ out[i].opening = out[j].opening => out[i].line < out[j].line

\* A line gives a second alert only after the path changed between the look at
\* it and the opening of it: the monitor then has a file open that it takes for
\* another one, and opens it again from the start.
ReplayExplained ==
  \A i, j \in 1..Len(out) :
    i < j /\ out[i].line = out[j].line =>
      /\ out[i].opening > 0
      /\ opened[out[i].opening].file # opened[out[i].opening].expected

\* The line that ends with the newline at k.
TextAt(file, k) ==
  LET first == Min({m \in 1..k : \A n \in m..k-1 : file[n].field # Newline})
  IN  Fields(SubSeq(file, first, k - 1))

\* The monitor has had this file open.
Opened(i) == i = history.first \/ \E n \in 1..Len(opened) : opened[n].file = i

\* A line that is whole at k, was begun after the start, was not read in two parts and
\* is worth an alert.
IsDue(i, k) ==
  /\ files[i][k].field = Newline
  /\ files[i][k].line > history.since /\ files[i][k].line \notin history.torn
  /\ SeverityOf(TextAt(files[i], k)) # NoSeverity

\* A line that is worth an alert is lost in four ways and in no other: the monitor
\* reads it in two parts; auditd writes it to a file after the last read before the
\* monitor leaves that file for another one; somebody empties the file; or the file
\* is never opened, since it was created and rotated away between two looks at the
\* path.  Every other line of every file, from the first one begun after the start
\* on, has its alert or is still to be read, whatever rotations the monitor slept
\* through or ran into.
NothingMissed ==
  phase # "ended" =>
    \A i \in Inodes \ history.emptied : \A k \in 1..Len(files[i]) :
      IsDue(i, k) /\ Opened(i) =>
        \/ files[i][k].line = hand.line
        \/ \E n \in 1..Len(out) : out[n].line = files[i][k].line
        \/ i = fd /\ k > pos
        \/ i # fd /\ k > history.left[i]

\* Once auditd leaves the file alone the monitor comes to its end, whatever
\* rotations and truncations it slept through, unless it has ended.
CatchesUp ==
  <>[][~Auditd]_vars =>
    <>[](phase = "ended" \/ (path # None /\ fd = path /\ pos = Len(files[path])))
=============================================================================
