--------------------------- MODULE AuditTailProofs ---------------------------
(***************************************************************************)
(* Theorems about the audit monitor, for whatever lines auditd writes, in  *)
(* whatever pieces, and however often it rotates or empties the file.      *)
(***************************************************************************)
EXTENDS AuditTail, FiniteSetTheorems, WellFoundedInduction, SequenceTheorems, TLAPS

Piece == [line: Nat, field: Field \cup {Newline}]

Alert == [line: Nat, severity: Severity, opening: Nat]

Told == [first: {None} \cup Inodes, since: Nat, torn: SUBSET Nat,
         left: [Inodes -> Nat], emptied: SUBSET Inodes]

\* The types of the variables.
TailTypeOK ==
  /\ files \in [Inodes -> Seq(Piece)]
  /\ made \in Inodes /\ path \in {None, made} /\ (path = None => made < MaxInodes)
  /\ lines \in Nat /\ rest \in Seq(Piece)
  /\ phase \in {"start", "read", "send", "stat", "open", "ended"}
  /\ fd \in {None} \cup Inodes /\ ino \in {None} \cup Inodes /\ pos \in Nat
  /\ phase \notin {"start", "ended"} => fd # None /\ fd <= made
  /\ phase = "start" => fd = None
  /\ phase = "open" => met \in Inodes
  /\ IF phase = "send" THEN hand \in Alert ELSE hand = NoAlert
  /\ opened \in Seq([file: Inodes, expected: Inodes])
  /\ out \in Seq(Alert)
  /\ history \in Told

-----------------------------------------------------------------------------
(* Invariants *)

IsTyped(p) == p.field \in Types

Ends(p) == p.field = Newline

\* The pieces of a file: lines follow each other, one begins with its type and ends
\* with its newline, none is in two files, and only the last of the file that auditd
\* writes may be without its end.
FilesInv ==
  /\ \A i \in Inodes : \A k \in 1..Len(files[i]) : files[i][k].line \in 1..lines
  /\ \A i \in Inodes : \A k, m \in 1..Len(files[i]) :
       k < m => /\ files[i][k].line <= files[i][m].line
                /\ files[i][k].line = files[i][m].line => ~IsTyped(files[i][m])
                /\ files[i][k].line < files[i][m].line =>
                     \E n \in k..m-1 : Ends(files[i][n])
  /\ \A i, j \in Inodes : \A k \in 1..Len(files[i]) : \A m \in 1..Len(files[j]) :
       IsTyped(files[i][k]) /\ IsTyped(files[j][m]) /\ files[i][k].line = files[j][m].line
       => i = j
  /\ \A i \in Inodes : files[i] # <<>> /\ ~Ends(Last(files[i])) =>
       i = path /\ rest # <<>> /\ Last(files[i]).line = lines
  /\ \A k \in 1..Len(rest) : rest[k].line = lines /\ ~IsTyped(rest[k])
  /\ rest # <<>> => Ends(Last(rest)) /\ path # None /\ lines > 0
  /\ \A i \in Inodes : i > made => files[i] = <<>>

\* All alerts so far, the one the monitor waits with included.
All == IF phase = "send" THEN Append(out, hand) ELSE out

\* The lines whose beginning is still to be read are later than n.
IsPassed(n) ==
  \A k \in pos+1..Len(files[fd]) : IsTyped(files[fd][k]) => files[fd][k].line > n

OrderInv ==
  /\ \A i, j \in 1..Len(All) :
       i < j => /\ All[i].opening <= All[j].opening
                /\ All[i].opening = All[j].opening => All[i].line < All[j].line
  /\ \A i \in 1..Len(All) :
       /\ All[i].opening <= Len(opened) /\ All[i].line \in 1..lines
       /\ All[i].opening = Len(opened) => IsPassed(All[i].line)
  /\ fd = None => All = <<>>

\* An opening got the file the monitor expected.
IsMatched(o) == o = 0 \/ opened[o].file = opened[o].expected

\* The beginning of line n is not in file i.
IsAbsent(n, i) ==
  i # None => \A k \in 1..Len(files[i]) : IsTyped(files[i][k]) => files[i][k].line # n

\* The beginning of line n is nowhere, or in the open file and read, and the file is
\* not taken for another one.
IsRead(n) ==
  /\ fd = ino
  /\ \A i \in Inodes : \A k \in 1..Len(files[i]) :
       IsTyped(files[i][k]) /\ files[i][k].line = n =>
         i = fd /\ k <= pos /\ pos <= Len(files[fd])
  /\ phase = "open" => IsAbsent(n, path)

ReplayInv ==
  /\ \A i, j \in 1..Len(All) :
       i < j /\ All[i].line = All[j].line => ~IsMatched(All[i].opening)
  /\ \A i \in 1..Len(All) :
       IsMatched(All[i].opening) =>
         IF All[i].opening = Len(opened) THEN IsRead(All[i].line)
         ELSE IsAbsent(All[i].line, fd) /\ IsAbsent(All[i].line, path)
  /\ IF opened = <<>> THEN fd = ino
     ELSE opened[Len(opened)] = [file |-> fd, expected |-> ino]

\* How much of a file the monitor read the last time it had it open.
ReadOf(i) == IF i = fd THEN pos ELSE history.left[i]

IsTold(n) == \E a \in 1..Len(All) : All[a].line = n

\* Beside what NothingMissed says: the monitor never read past the end of a file that
\* nobody emptied, and what it read ends with a line, but for those it read in parts.
MissInv ==
  /\ phase # "ended" =>
       \A i \in Inodes \ history.emptied : \A k \in 1..ReadOf(i) :
         IsDue(i, k) => IsTold(files[i][k].line)
  /\ \A i \in Inodes \ history.emptied : ReadOf(i) <= Len(files[i])
  /\ fd \in Inodes \ history.emptied /\ pos > 0 /\ ~Ends(files[fd][pos]) =>
       files[fd][pos].line \in history.torn \/ files[fd][pos].line <= history.since

-----------------------------------------------------------------------------
(* What is read *)

\* A set of numbers has a least one.
LEMMA MinExists ==
  ASSUME NEW S \in SUBSET Nat, S # {}
  PROVE  Min(S) \in S /\ \A y \in S : Min(S) <= y
<1>1. PICK x \in S : TRUE
  OBVIOUS
<1> DEFINE B == 0..x
           T == {0..k : k \in S \cap B}
           R == StrictSubsetOrdering(B)
<1>2. IsWellFoundedOn(R, SUBSET B)
  <2>1. IsFiniteSet(B)
    BY FS_Interval, <1>1
  <2>2. FiniteSubsetsOf(B) = SUBSET B
    BY <2>1, FS_FiniteSubsetsOfFinite
  <2>3. IsWellFoundedOn(R, FiniteSubsetsOf(B))
    BY FS_StrictSubsetOrderingWellFounded
  <2>4. QED  BY <2>2, <2>3
<1>3. T \subseteq SUBSET B /\ T # {}
  BY <1>1
<1>4. PICK t \in T : \A u \in T : ~(<<u, t>> \in R)
  <2> HIDE DEF T, R, B
  <2>1. QED  BY <1>2, <1>3, WFMin
<1>5. PICK m \in S \cap B : t = 0..m
  BY <1>4
<1>6. ASSUME NEW y \in S, y < m PROVE FALSE
  <2>1. y \in B /\ 0..y \in T
    BY <1>1, <1>5, <1>6
  <2>2. 0..y \subseteq 0..m /\ m \in 0..m /\ m \notin 0..y
    BY <1>5, <1>6
  <2>3. <<0..y, 0..m>> \in R
    BY <1>3, <1>5, <2>1, <2>2 DEF StrictSubsetOrdering
  <2>4. QED  BY <1>4, <1>5, <2>1, <2>3
<1>7. m \in S /\ \A y \in S : m <= y
  BY <1>5, <1>6
<1>8. QED  BY <1>7 DEF Min

\* What read_line gives is the rest of the file up to its first newline, or all of it.
LEMMA NextReadIs ==
  ASSUME TailTypeOK, phase = "read", NextRead # <<>>
  PROVE  /\ fd \in Inodes /\ files[fd] \in Seq(Piece)
         /\ ReadEnd \in Nat /\ pos < ReadEnd /\ ReadEnd <= Len(files[fd])
         /\ NextRead \in Seq(Piece) /\ Len(NextRead) = ReadEnd - pos
         /\ \A k \in 1..Len(NextRead) : NextRead[k] = files[fd][pos + k]
         /\ Last(NextRead) = files[fd][ReadEnd]
         /\ \A n \in pos+1..ReadEnd-1 : ~Ends(files[fd][n])
         /\ ~Ends(files[fd][ReadEnd]) => ReadEnd = Len(files[fd])
<1> DEFINE F == files[fd]
           ends == {k \in pos + 1 .. Len(F) : F[k].field = Newline}
<1>1. fd \in Inodes /\ F \in Seq(Piece) /\ pos \in Nat /\ Len(F) \in Nat
  BY DEF TailTypeOK
<1>2. /\ ReadEnd \in Nat /\ ReadEnd <= Len(F)
      /\ \A n \in pos+1..ReadEnd-1 : n <= Len(F) => ~Ends(F[n])
      /\ ReadEnd # Len(F) => Ends(F[ReadEnd]) /\ pos < ReadEnd
  <2>1. CASE ends = {}
    BY <1>1, <2>1 DEF ReadEnd, Ends
  <2>2. CASE ends # {}
    <3>1. ends \in SUBSET Nat /\ ends \subseteq pos + 1 .. Len(F)
      BY <1>1
    <3>2. ReadEnd = Min(ends)
      BY <2>2 DEF ReadEnd
    <3>3. ReadEnd \in ends /\ \A y \in ends : ReadEnd <= y
      BY <2>2, <3>1, <3>2, MinExists
    <3>4. QED  BY <1>1, <3>1, <3>3 DEF Ends
  <2>3. QED  BY <2>1, <2>2
<1> HIDE DEF F, ends
<1>3. NextRead = SubSeq(F, pos + 1, ReadEnd)
  BY DEF NextRead, F
<1>4. pos < ReadEnd
  <2>1. SUFFICES ASSUME ReadEnd <= pos PROVE FALSE
    BY <1>1, <1>2
  <2>2. SubSeq(F, pos + 1, ReadEnd) = <<>>
    BY <1>1, <1>2, <2>1
  <2>3. QED  BY <1>3, <2>2
<1>5. /\ NextRead \in Seq(Piece) /\ Len(NextRead) = ReadEnd - pos
      /\ \A k \in 1..Len(NextRead) : NextRead[k] = F[pos + k]
  BY <1>1, <1>2, <1>3, <1>4
<1>6. Last(NextRead) = F[ReadEnd]
  BY <1>1, <1>2, <1>4, <1>5 DEF Last
<1>7. QED  BY <1>1, <1>2, <1>4, <1>5, <1>6 DEF F

\* What is left of it without the newline.
LEMMA TrimmedIs ==
  ASSUME TailTypeOK, phase = "read", NextRead # <<>>
  PROVE  /\ Trimmed(NextRead) \in Seq(Piece)
         /\ Len(Trimmed(NextRead)) =
              (IF Ends(files[fd][ReadEnd]) THEN ReadEnd - 1 ELSE ReadEnd) - pos
         /\ \A k \in 1..Len(Trimmed(NextRead)) : Trimmed(NextRead)[k] = files[fd][pos + k]
         /\ Fields(Trimmed(NextRead)) \in Seq(Field \cup {Newline})
         /\ Len(Fields(Trimmed(NextRead))) = Len(Trimmed(NextRead))
         /\ \A k \in 1..Len(Trimmed(NextRead)) :
              Fields(Trimmed(NextRead))[k] = Trimmed(NextRead)[k].field
<1> DEFINE N == NextRead
           r == Trimmed(N)
<1>1. /\ N \in Seq(Piece) /\ Len(N) = ReadEnd - pos /\ pos < ReadEnd
      /\ \A k \in 1..Len(N) : N[k] = files[fd][pos + k]
      /\ Last(N) = files[fd][ReadEnd] /\ ReadEnd \in Nat /\ pos \in Nat
  BY NextReadIs DEF TailTypeOK
<1> HIDE DEF N
<1>2. /\ r \in Seq(Piece)
      /\ Len(r) = (IF Ends(files[fd][ReadEnd]) THEN ReadEnd - 1 ELSE ReadEnd) - pos
      /\ \A k \in 1..Len(r) : r[k] = files[fd][pos + k]
  <2>1. CASE Ends(files[fd][ReadEnd])
    <3>1. r = SubSeq(N, 1, Len(N) - 1)
      BY <1>1, <2>1 DEF Trimmed, Front, Ends
    <3>2. /\ r \in Seq(Piece) /\ Len(r) = Len(N) - 1
          /\ \A k \in 1..Len(r) : r[k] = N[k]
      <4>1. N \in Seq(Piece) /\ Len(N) \in Nat \ {0}
        BY <1>1
      <4>2. \A q \in 0..Len(N) :
              /\ SubSeq(N, 1, q) \in Seq(Piece) /\ Len(SubSeq(N, 1, q)) = q
              /\ \A k \in 1..q : SubSeq(N, 1, q)[k] = N[k]
        BY <4>1
      <4>3. Len(N) - 1 \in 0..Len(N)
        BY <4>1
      <4> HIDE DEF r
      <4>4. QED  BY <3>1, <4>2, <4>3
    <3>3. QED  BY <1>1, <2>1, <3>2
  <2>2. CASE ~Ends(files[fd][ReadEnd])
    BY <1>1, <2>2 DEF Trimmed, Ends
  <2>3. QED  BY <2>1, <2>2
<1> HIDE DEF r
<1>3. /\ Fields(r) \in Seq(Field \cup {Newline}) /\ Len(Fields(r)) = Len(r)
      /\ \A k \in 1..Len(r) : Fields(r)[k] = r[k].field
  <2>1. \A k \in 1..Len(r) : r[k].field \in Field \cup {Newline}
    <3>1. \A k \in 1..Len(r) : r[k] \in Piece
      BY <1>2
    <3>2. QED  BY <3>1 DEF Piece
  <2>2. Len(r) \in Nat
    BY <1>2
  <2>3. Fields(r) = [k \in 1..Len(r) |-> r[k].field]
    BY DEF Fields
  <2>4. QED  BY <2>1, <2>2, <2>3
<1>4. QED  BY <1>2, <1>3 DEF r, N

\* A line that is worth an alert begins with its type.
LEMMA SeverityNeedsType ==
  ASSUME NEW S, NEW text \in Seq(S), SeverityOf(text) # NoSeverity
  PROVE  SeverityOf(text) \in Severity /\ Len(text) > 0 /\ text[1] \in Types
<1>1. text # <<>>
  BY DEF SeverityOf
<1>2. Len(text) > 0 /\ Head(text) = text[1]
  BY <1>1
<1>3. \/ Head(text) = "AVC" \/ Head(text) = "SYSCALL" \/ Head(text) = "MAC_STATUS"
      \/ Head(text) = "MAC_POLICY_LOAD"
  BY <1>1 DEF SeverityOf
<1>4. SeverityOf(text) \in Severity
  BY <1>1 DEF SeverityOf, Severity
<1>5. QED  BY <1>2, <1>3, <1>4 DEF Types
-----------------------------------------------------------------------------
(* What the steps do *)

\* A line was begun or ended: the file at path has grown by pieces of it.
IsWritten ==
  /\ path \in Inodes /\ UNCHANGED <<path, made>>
  /\ files' \in [Inodes -> Seq(Piece)]
  /\ \A i \in Inodes : i # path => files'[i] = files[i]
  /\ Len(files[path]) < Len(files'[path])
  /\ \A k \in 1..Len(files[path]) : files'[path][k] = files[path][k]
  /\ \A k \in Len(files[path])+1..Len(files'[path]) :
       /\ files'[path][k].line = lines'
       /\ IsTyped(files'[path][k]) => lines' = lines + 1 /\ k = Len(files[path]) + 1
  /\ IF rest = <<>> THEN lines' = lines + 1 ELSE lines' = lines
  /\ rest' \in Seq(Piece)
  /\ \A k \in 1..Len(rest') : rest'[k].line = lines' /\ ~IsTyped(rest'[k])
  /\ IF rest' = <<>> THEN Ends(Last(files'[path])) ELSE Ends(Last(rest'))

\* A piece of a file became the next piece the monitor dealt with.
IsLineRead ==
  /\ phase = "read" /\ fd \in Inodes /\ pos' \in Nat
  /\ pos < pos' /\ pos' <= Len(files[fd])
  /\ \A n \in pos+1..pos'-1 : ~Ends(files[fd][n])
  /\ history' = [history EXCEPT !.torn =
       IF Ends(files[fd][pos']) THEN @ ELSE @ \cup {files[fd][pos'].line}]
  /\ \/ /\ phase' = "send" /\ hand' \in Alert
        /\ IsTyped(files[fd][pos+1]) /\ hand'.line = files[fd][pos+1].line
        /\ hand'.opening = Len(opened)
     \/ phase' = "ended" /\ UNCHANGED hand
     \/ /\ phase' = "read" /\ UNCHANGED hand
        /\ Ends(files[fd][pos']) =>
             SeverityOf(Fields(SubSeq(files[fd], pos + 1, pos' - 1))) = NoSeverity
  /\ UNCHANGED <<fileVars, fd, ino, met, opened, out>>

\* Pieces appended to the file at the path: what it had stays, what is new comes after.
LEMMA AppendPieces ==
  ASSUME TailTypeOK, path # None, NEW new \in Seq(Piece), new # <<>>,
         files' = [files EXCEPT ![path] = @ \o new]
  PROVE  /\ path \in Inodes /\ files' \in [Inodes -> Seq(Piece)]
         /\ \A i \in Inodes : i # path => files'[i] = files[i]
         /\ Len(files'[path]) = Len(files[path]) + Len(new) /\ Len(new) > 0
         /\ \A k \in 1..Len(files[path]) : files'[path][k] = files[path][k]
         /\ \A k \in Len(files[path])+1..Len(files'[path]) :
              k - Len(files[path]) \in 1..Len(new)
              /\ files'[path][k] = new[k - Len(files[path])]
         /\ Last(files'[path]) = Last(new)
<1> DEFINE F == files[path]
           G == F \o new
<1>1. path \in Inodes /\ F \in Seq(Piece)
  BY DEF TailTypeOK
<1>2. files'[path] = G /\ \A i \in Inodes : i # path => files'[i] = files[i]
  BY <1>1 DEF TailTypeOK
<1> HIDE DEF F
<1>3. /\ G \in Seq(Piece) /\ Len(G) = Len(F) + Len(new) /\ Len(new) > 0
      /\ Len(F) \in Nat /\ Len(new) \in Nat
      /\ \A k \in 1..Len(F) : G[k] = F[k]
      /\ \A k \in Len(F)+1..Len(G) : k - Len(F) \in 1..Len(new) /\ G[k] = new[k - Len(F)]
  BY <1>1
<1> HIDE DEF G
<1>4. files' \in [Inodes -> Seq(Piece)]
  BY <1>2, <1>3 DEF TailTypeOK, G, F
<1>5. Last(files'[path]) = Last(new)
  BY <1>2, <1>3 DEF Last
<1>6. QED  BY <1>1, <1>2, <1>3, <1>4, <1>5 DEF F

\* auditd's write, whatever it writes, is the step that IsWritten describes.
LEMMA WriteIs ==
  ASSUME TailTypeOK, FilesInv, Write
  PROVE  IsWritten /\ UNCHANGED <<tailVars, history>>
<1>1. path # None /\ UNCHANGED <<path, made, tailVars, history>>
  BY DEF Write
<1>2. CASE rest = <<>> /\ lines' = lines + 1
  <2>1. PICK l \in Lines : \E k \in 1..Len(l) + 1 :
          LET whole == [i \in 1..Len(l) + 1 |->
                          [line |-> lines + 1,
                           field |-> IF i <= Len(l) THEN l[i] ELSE Newline]]
          IN  /\ files' = [files EXCEPT ![path] = @ \o SubSeq(whole, 1, k)]
              /\ rest' = SubSeq(whole, k + 1, Len(whole))
    BY <1>2 DEF Write
  <2> DEFINE n == Len(l) + 1
             whole == [i \in 1..n |-> [line |-> lines + 1,
                                       field |-> IF i <= Len(l) THEN l[i] ELSE Newline]]
  <2>2. PICK k \in 1..n : /\ files' = [files EXCEPT ![path] = @ \o SubSeq(whole, 1, k)]
                          /\ rest' = SubSeq(whole, k + 1, Len(whole))
    BY <2>1
  <2>3. /\ l \in Seq(Field) /\ Len(l) \in Nat /\ lines \in Nat
        /\ \A i \in 1..Len(l) : l[i] \in Field
        /\ \A i \in 2..Len(l) : l[i] \notin Types
    BY AuditAssumption DEF TailTypeOK
  <2>4. /\ whole \in Seq(Piece) /\ Len(whole) = n /\ n \in Nat
        /\ \A i \in 1..n : whole[i].line = lines + 1 /\ (IsTyped(whole[i]) => i = 1)
        /\ Ends(whole[n])
    <3>1. \A i \in 1..n : whole[i] \in Piece
      BY <2>3 DEF Piece
    <3>2. \A i \in 1..n : whole[i].line = lines + 1 /\ (IsTyped(whole[i]) => i = 1)
      BY <2>3 DEF IsTyped, Types, Newline
    <3>3. Ends(whole[n])
      BY <2>3 DEF Ends
    <3>4. QED  BY <2>3, <3>1, <3>2, <3>3
  <2> HIDE DEF whole, n
  <2> DEFINE new == SubSeq(whole, 1, k)
             after == SubSeq(whole, k + 1, n)
  <2>5. /\ new \in Seq(Piece) /\ Len(new) = k /\ new # <<>>
        /\ \A i \in 1..k : new[i] = whole[i]
    BY <2>4
  <2>6. /\ after \in Seq(Piece) /\ Len(after) = n - k
        /\ \A i \in 1..n-k : after[i] = whole[k + i]
    BY <2>4
  <2>7. rest' = after /\ files' = [files EXCEPT ![path] = @ \o new]
    BY <2>2, <2>4
  <2> HIDE DEF new, after
  <2>8. /\ path \in Inodes /\ files' \in [Inodes -> Seq(Piece)]
        /\ \A i \in Inodes : i # path => files'[i] = files[i]
        /\ Len(files'[path]) = Len(files[path]) + k
        /\ \A i \in 1..Len(files[path]) : files'[path][i] = files[path][i]
        /\ \A i \in Len(files[path])+1..Len(files'[path]) :
             i - Len(files[path]) \in 1..k /\ files'[path][i] = new[i - Len(files[path])]
        /\ Last(files'[path]) = Last(new)
    BY <1>1, <2>5, <2>7, AppendPieces
  <2>9. files[path] \in Seq(Piece) /\ Len(files[path]) \in Nat
    BY <2>8 DEF TailTypeOK
  <2>10. \A i \in Len(files[path])+1..Len(files'[path]) :
           /\ files'[path][i].line = lines'
           /\ IsTyped(files'[path][i]) => lines' = lines + 1 /\ i = Len(files[path]) + 1
    <3> SUFFICES ASSUME NEW i \in Len(files[path])+1..Len(files'[path])
                 PROVE  /\ files'[path][i].line = lines'
                        /\ IsTyped(files'[path][i]) =>
                             lines' = lines + 1 /\ i = Len(files[path]) + 1
      OBVIOUS
    <3> DEFINE j == i - Len(files[path])
    <3>1. j \in 1..k /\ k \in 1..n /\ files'[path][i] = new[j]
      BY <2>8
    <3>2. i \in Nat /\ j \in 1..n /\ new[j] = whole[j]
      BY <2>4, <2>5, <2>8, <2>9, <3>1
    <3>3. whole[j].line = lines + 1 /\ (IsTyped(whole[j]) => j = 1)
      BY <2>4, <3>2
    <3>4. j = 1 => i = Len(files[path]) + 1
      BY <2>9, <3>2
    <3> HIDE DEF j
    <3>5. QED  BY <1>2, <3>1, <3>2, <3>3, <3>4
  <2>11. \A i \in 1..Len(rest') : rest'[i].line = lines' /\ ~IsTyped(rest'[i])
    BY <1>2, <2>4, <2>6, <2>7
  <2>12. IF rest' = <<>> THEN Ends(Last(files'[path])) ELSE Ends(Last(rest'))
    BY <2>4, <2>5, <2>6, <2>7, <2>8 DEF Last
  <2>13. QED
    BY <1>1, <1>2, <2>6, <2>7, <2>8, <2>9, <2>10, <2>11, <2>12 DEF IsWritten
<1>3. CASE rest # <<>> /\ rest' = <<>> /\ lines' = lines
  <2>1. files' = [files EXCEPT ![path] = @ \o rest] /\ rest \in Seq(Piece)
    BY <1>3 DEF Write, TailTypeOK
  <2>2. /\ path \in Inodes /\ files' \in [Inodes -> Seq(Piece)]
        /\ \A i \in Inodes : i # path => files'[i] = files[i]
        /\ Len(files'[path]) = Len(files[path]) + Len(rest) /\ Len(rest) > 0
        /\ \A i \in 1..Len(files[path]) : files'[path][i] = files[path][i]
        /\ \A i \in Len(files[path])+1..Len(files'[path]) :
             /\ i - Len(files[path]) \in 1..Len(rest)
             /\ files'[path][i] = rest[i - Len(files[path])]
        /\ Last(files'[path]) = Last(rest)
    BY <1>1, <1>3, <2>1, AppendPieces
  <2>3. files[path] \in Seq(Piece) /\ Len(files[path]) \in Nat /\ Len(rest) \in Nat
    BY <2>1, <2>2 DEF TailTypeOK
  <2>4. \A i \in Len(files[path])+1..Len(files'[path]) :
          files'[path][i].line = lines' /\ ~IsTyped(files'[path][i])
    <3>1. \A k \in 1..Len(rest) : rest[k].line = lines /\ ~IsTyped(rest[k])
      BY DEF FilesInv
    <3>2. ASSUME NEW i \in Len(files[path])+1..Len(files'[path]),
                 NEW j \in 1..Len(rest), files'[path][i] = rest[j]
          PROVE  files'[path][i].line = lines' /\ ~IsTyped(files'[path][i])
      BY <1>3, <3>1, <3>2
    <3>3. QED  BY <2>2, <3>2
  <2>5. Ends(Last(files'[path]))
    BY <1>3, <2>2 DEF FilesInv
  <2>6. QED  BY <1>1, <1>3, <2>2, <2>3, <2>4, <2>5 DEF IsWritten
<1>4. QED  BY <1>2, <1>3 DEF Write

\* The part of a sequence after place p and before place e.
LEMMA Between ==
  ASSUME NEW S, NEW f \in Seq(S), NEW p \in Nat, NEW e \in Nat, p < e, e <= Len(f)
  PROVE  /\ SubSeq(f, p + 1, e - 1) \in Seq(S)
         /\ Len(SubSeq(f, p + 1, e - 1)) = e - 1 - p
         /\ \A k \in 1..e-1-p : SubSeq(f, p + 1, e - 1)[k] = f[p + k]
<1> DEFINE m == p + 1
           n == e - 1
<1>1. /\ m \in Int /\ n \in Int /\ n - m + 1 = e - 1 - p
      /\ (IF m <= n THEN n - m + 1 ELSE 0) = e - 1 - p
      /\ \A i \in m..n : i \in 1..Len(f)
      /\ \A k \in 1..e-1-p : m + k - 1 = p + k
  OBVIOUS
<1> HIDE DEF m, n
<1>2. \A i \in m..n : f[i] \in S
  BY <1>1
<1>3. /\ SubSeq(f, m, n) \in Seq(S)
      /\ Len(SubSeq(f, m, n)) = IF m <= n THEN n - m + 1 ELSE 0
      /\ \A k \in 1..n-m+1 : SubSeq(f, m, n)[k] = f[m + k - 1]
  BY <1>1, <1>2, SubSeqProperties
<1>4. QED  BY <1>1, <1>3 DEF m, n

\* A call of read_line, whatever it finds, is the step that IsLineRead describes.
LEMMA ReadLineIs ==
  ASSUME TailTypeOK, ReadLine
  PROVE  IsLineRead
<1> DEFINE F == files[fd]
           r == Trimmed(NextRead)
           text == Fields(r)
<1>1. phase = "read" /\ NextRead # <<>>
  BY DEF ReadLine
<1>2. /\ fd \in Inodes /\ F \in Seq(Piece)
      /\ ReadEnd \in Nat /\ pos < ReadEnd /\ ReadEnd <= Len(F) /\ pos \in Nat
      /\ Len(NextRead) = ReadEnd - pos /\ Last(NextRead) = F[ReadEnd]
      /\ \A n \in pos+1..ReadEnd-1 : ~Ends(F[n])
  BY <1>1, NextReadIs DEF TailTypeOK
<1>3. pos' = ReadEnd
  <2>1. pos' = pos + Len(NextRead)
    BY DEF ReadLine
  <2>2. QED  BY <1>2, <2>1
<1>4. history' = [history EXCEPT !.torn = IF Ends(F[pos']) THEN @ ELSE @ \cup {F[pos'].line}]
  BY <1>2, <1>3 DEF ReadLine, Ends
<1>5. /\ r \in Seq(Piece) /\ Len(r) = (IF Ends(F[ReadEnd]) THEN ReadEnd - 1 ELSE ReadEnd) - pos
      /\ \A k \in 1..Len(r) : r[k] = F[pos + k]
      /\ text \in Seq(Field \cup {Newline}) /\ Len(text) = Len(r)
      /\ \A k \in 1..Len(r) : text[k] = r[k].field
  BY <1>1, TrimmedIs
<1>6. \/ phase' = "ended" /\ UNCHANGED hand
      \/ SeverityOf(text) = NoSeverity /\ UNCHANGED <<phase, hand>>
      \/ /\ SeverityOf(text) # NoSeverity /\ phase' = "send"
         /\ hand' = [line |-> r[1].line, severity |-> SeverityOf(text), opening |-> Len(opened)]
  BY DEF ReadLine
<1> HIDE DEF r, text
<1>7. ASSUME SeverityOf(text) # NoSeverity, phase' = "send",
             hand' = [line |-> r[1].line, severity |-> SeverityOf(text), opening |-> Len(opened)]
      PROVE  /\ hand' \in Alert /\ IsTyped(F[pos+1]) /\ hand'.line = F[pos+1].line
             /\ hand'.opening = Len(opened)
  <2>1. SeverityOf(text) \in Severity /\ Len(text) > 0 /\ text[1] \in Types
    BY <1>5, <1>7, SeverityNeedsType
  <2>2. Len(r) > 0 /\ r[1] = F[pos+1] /\ r[1] \in Piece /\ r[1].field \in Types
    <3>1. Len(r) \in Nat /\ 1 \in 1..Len(r)
      BY <1>5, <2>1
    <3>2. QED  BY <1>2, <1>5, <2>1, <3>1
  <2>3. r[1].line \in Nat /\ Len(opened) \in Nat
    BY <2>2 DEF Piece, TailTypeOK
  <2>4. QED  BY <1>7, <2>1, <2>2, <2>3 DEF Alert, IsTyped
<1>8. ASSUME SeverityOf(text) = NoSeverity, Ends(F[pos'])
      PROVE  SeverityOf(Fields(SubSeq(F, pos + 1, pos' - 1))) = NoSeverity
  <2>1. Len(r) = pos' - 1 - pos
    BY <1>2, <1>3, <1>5, <1>8
  <2>2. /\ SubSeq(F, pos + 1, pos' - 1) \in Seq(Piece)
        /\ Len(SubSeq(F, pos + 1, pos' - 1)) = pos' - 1 - pos
        /\ \A k \in 1..pos'-1-pos : SubSeq(F, pos + 1, pos' - 1)[k] = F[pos + k]
    <3>1. F \in Seq(Piece) /\ pos \in Nat /\ pos' \in Nat /\ pos < pos' /\ pos' <= Len(F)
      BY <1>2, <1>3
    <3> HIDE DEF F
    <3>2. QED  BY <3>1, Between
  <2>3. SubSeq(F, pos + 1, pos' - 1) = r
    <3> HIDE DEF F
    <3>1. QED  BY <1>5, <2>1, <2>2, SeqEqual
  <2>4. QED  BY <1>8, <2>3 DEF text
<1>9. UNCHANGED <<fileVars, fd, ino, met, opened, out>>
  BY DEF ReadLine
<1>10. QED
  BY <1>1, <1>2, <1>3, <1>4, <1>6, <1>7, <1>8, <1>9 DEF IsLineRead

-----------------------------------------------------------------------------
(* Types and files *)

\* Every step of auditd and of the monitor preserves the types.
LEMMA TypeStep == TailTypeOK /\ FilesInv /\ [Next]_vars => TailTypeOK'
<1> SUFFICES ASSUME TailTypeOK, FilesInv, [Next]_vars PROVE TailTypeOK'
  OBVIOUS
<1> USE DEF None
<1>1. CASE Write
  <2>1. IsWritten /\ UNCHANGED <<tailVars, history>>
    BY <1>1, WriteIs
  <2>2. files' \in [Inodes -> Seq(Piece)] /\ lines' \in Nat /\ rest' \in Seq(Piece)
    BY <2>1 DEF IsWritten, TailTypeOK
  <2>3. UNCHANGED <<path, made>>
    <3>1. IsWritten => UNCHANGED <<path, made>>
      BY DEF IsWritten
    <3>2. QED  BY <2>1, <3>1
  <2>4. QED  BY <2>1, <2>2, <2>3 DEF TailTypeOK, tailVars
<1>2. CASE Rename
  BY <1>2 DEF Rename, TailTypeOK, tailVars
<1>3. CASE Create
  <2>1. made' \in Inodes /\ path' = made' /\ made' = made + 1
    BY <1>3, AuditAssumption DEF Create, TailTypeOK, Inodes
  <2>2. UNCHANGED <<files, lines, rest, tailVars, history>>
    BY <1>3 DEF Create
  <2>3. path' # None /\ (fd # None /\ fd <= made => fd <= made')
    BY <2>1, AuditAssumption DEF TailTypeOK, Inodes
  <2>4. QED  BY <2>1, <2>2, <2>3 DEF TailTypeOK, tailVars
<1>4. CASE Truncate
  <2>1. files' \in [Inodes -> Seq(Piece)]
    BY <1>4 DEF Truncate, TailTypeOK
  <2>2. history' \in Told
    BY <1>4 DEF Truncate, TailTypeOK, Told
  <2>3. UNCHANGED <<path, made, lines, rest, tailVars>>
    BY <1>4 DEF Truncate
  <2>4. QED  BY <2>1, <2>2, <2>3 DEF TailTypeOK, tailVars
<1>5. CASE StartAtEnd
  <2>1. UNCHANGED <<fileVars, met, hand, opened, out>>
    BY <1>5 DEF StartAtEnd
  <2>2. history' \in Told
    BY <1>5 DEF StartAtEnd, TailTypeOK, Told
  <2>3. CASE path = None
    <3>1. phase' = "ended" /\ phase = "start" /\ UNCHANGED <<fd, ino, pos>>
      BY <1>5, <2>3 DEF StartAtEnd
    <3>2. QED  BY <2>1, <2>2, <3>1 DEF TailTypeOK, fileVars
  <2>4. CASE path # None
    <3>1. /\ phase = "start" /\ phase' = "read" /\ fd' = path /\ ino' = path
          /\ pos' = Len(files[path])
      BY <1>5, <2>4 DEF StartAtEnd
    <3>2. path \in Inodes /\ path <= made /\ pos' \in Nat
      BY <2>4, <3>1 DEF TailTypeOK, Inodes
    <3>3. QED  BY <2>1, <2>2, <2>4, <3>1, <3>2 DEF TailTypeOK, fileVars
  <2>5. QED  BY <2>3, <2>4
<1>6. CASE ReadLine
  <2>1. IsLineRead
    BY <1>6, ReadLineIs
  <2>2. history' \in Told
    <3>1. files[fd] \in Seq(Piece) /\ pos' \in 1..Len(files[fd])
      BY <2>1 DEF IsLineRead, TailTypeOK
    <3>2. files[fd][pos'].line \in Nat
      <4>1. files[fd][pos'] \in Piece
        BY <3>1
      <4>2. QED  BY <4>1 DEF Piece
    <3>3. QED  BY <2>1, <3>2 DEF IsLineRead, TailTypeOK, Told
  <2>3. /\ IF phase' = "send" THEN hand' \in Alert ELSE hand' = NoAlert
        /\ phase' \in {"read", "send", "ended"} /\ phase = "read"
    BY <2>1 DEF IsLineRead, TailTypeOK
  <2>4. UNCHANGED <<fileVars, fd, ino, met, opened, out>> /\ pos' \in Nat
    BY <2>1 DEF IsLineRead
  <2>5. QED  BY <2>2, <2>3, <2>4 DEF TailTypeOK, fileVars
<1>7. CASE Send
  <2>1. out' \in Seq(Alert)
    BY <1>7 DEF Send, TailTypeOK
  <2>2. phase = "send" /\ phase' = "read" /\ hand' = NoAlert
    BY <1>7 DEF Send
  <2>3. UNCHANGED <<fileVars, fd, ino, pos, met, opened, history>>
    BY <1>7 DEF Send
  <2>4. QED  BY <2>1, <2>2, <2>3 DEF TailTypeOK, fileVars
<1>8. CASE EndOfFile
  BY <1>8 DEF EndOfFile, TailTypeOK, fileVars
<1>9. CASE Stat
  <2>1. /\ phase = "stat" /\ phase' \in {"open", "read"}
        /\ phase' = "open" => met' \in Inodes
    BY <1>9 DEF Stat, TailTypeOK
  <2>2. UNCHANGED <<fileVars, fd, ino, pos, hand, opened, out, history>>
    BY <1>9 DEF Stat
  <2>3. QED  BY <2>1, <2>2 DEF TailTypeOK, fileVars
<1>10. CASE Reopen
  <2>1. UNCHANGED <<fileVars, met, hand, out>> /\ phase = "open" /\ phase' = "read"
    BY <1>10 DEF Reopen
  <2>2. CASE path = None
    BY <1>10, <2>1, <2>2 DEF Reopen, TailTypeOK, fileVars
  <2>3. CASE path # None
    <3>1. /\ fd' = path /\ ino' = met /\ pos' = 0
          /\ opened' = Append(opened, [file |-> path, expected |-> met])
          /\ history' = [history EXCEPT !.left[fd] = pos]
      BY <1>10, <2>3 DEF Reopen
    <3>2. path \in Inodes /\ path <= made /\ met \in Inodes /\ fd \in Inodes
      BY <2>1, <2>3 DEF TailTypeOK, Inodes
    <3>3. opened' \in Seq([file: Inodes, expected: Inodes])
      BY <3>1, <3>2 DEF TailTypeOK
    <3>4. history' \in Told
      BY <3>1, <3>2 DEF TailTypeOK, Told
    <3>5. QED  BY <2>1, <2>3, <3>1, <3>2, <3>3, <3>4 DEF TailTypeOK, fileVars
  <2>4. QED  BY <2>2, <2>3
<1>11. CASE UNCHANGED vars
  BY <1>11 DEF vars, fileVars, tailVars, TailTypeOK
<1>12. QED
  BY <1>1, <1>2, <1>3, <1>4, <1>5, <1>6, <1>7, <1>8, <1>9, <1>10, <1>11
     DEF Next, Auditd, Monitor

\* The monitor writes to no file.
LEMMA MonitorReads == Monitor => UNCHANGED fileVars
BY DEF Monitor, StartAtEnd, ReadLine, Send, EndOfFile, Stat, Reopen

\* Every step preserves what is known of the files and of the tail's place in them.
LEMMA FilesStep == TailTypeOK /\ FilesInv /\ [Next]_vars => FilesInv'
<1> SUFFICES ASSUME TailTypeOK, FilesInv, [Next]_vars PROVE FilesInv'
  OBVIOUS
<1> USE DEF None
<1>1. CASE Write
  <2> DEFINE F == files[path]
             G == files'[path]
             n == Len(F)
  <2>1. IsWritten
    BY <1>1, WriteIs
  <2>2. /\ path \in Inodes /\ UNCHANGED <<path, made>>
        /\ \A i \in Inodes : i # path => files'[i] = files[i]
        /\ n < Len(G) /\ \A k \in 1..n : G[k] = F[k]
        /\ \A k \in n+1..Len(G) :
             G[k].line = lines' /\ (IsTyped(G[k]) => lines' = lines + 1 /\ k = n + 1)
        /\ IF rest = <<>> THEN lines' = lines + 1 ELSE lines' = lines
    BY <2>1 DEF IsWritten
  <2>3. /\ files' \in [Inodes -> Seq(Piece)] /\ rest' \in Seq(Piece)
        /\ \A k \in 1..Len(rest') : rest'[k].line = lines' /\ ~IsTyped(rest'[k])
        /\ IF rest' = <<>> THEN Ends(Last(G)) ELSE Ends(Last(rest'))
    BY <2>1 DEF IsWritten
  <2>4. F \in Seq(Piece) /\ n \in Nat /\ G \in Seq(Piece) /\ Len(G) \in Nat /\ lines \in Nat
    BY <2>2, <2>3 DEF TailTypeOK
  <2>5. /\ lines <= lines' /\ lines' \in Nat /\ lines' >= 1
        /\ \A i \in Inodes : Len(files[i]) \in Nat
    <3>1. rest # <<>> => lines > 0
      BY DEF FilesInv
    <3>2. QED  BY <2>2, <2>4, <3>1 DEF TailTypeOK
  <2>6. /\ \A k \in 1..n : F[k].line \in 1..lines
        /\ \A i \in Inodes : \A k \in 1..Len(files[i]) : files[i][k].line \in 1..lines
    BY <2>2 DEF FilesInv
  <2> HIDE DEF F, G, n
  <2>7. \A i \in Inodes : \A k \in 1..Len(files'[i]) : files'[i][k].line \in 1..lines'
    <3>1. \A k \in 1..Len(G) : G[k].line \in 1..lines'
      BY <2>2, <2>4, <2>5, <2>6
    <3> SUFFICES ASSUME NEW i \in Inodes, NEW k \in 1..Len(files'[i])
                 PROVE  files'[i][k].line \in 1..lines'
      OBVIOUS
    <3>2. i # path => files'[i][k].line \in 1..lines
      BY <2>2, <2>6
    <3>3. QED  BY <2>4, <2>5, <3>1, <3>2 DEF G
  <2>8. \A k, m \in 1..Len(G) :
          k < m => /\ G[k].line <= G[m].line
                   /\ G[k].line = G[m].line => ~IsTyped(G[m])
                   /\ G[k].line < G[m].line => \E j \in k..m-1 : Ends(G[j])
    <3> SUFFICES ASSUME NEW k \in 1..Len(G), NEW m \in 1..Len(G), k < m
                 PROVE  /\ G[k].line <= G[m].line
                        /\ G[k].line = G[m].line => ~IsTyped(G[m])
                        /\ G[k].line < G[m].line => \E j \in k..m-1 : Ends(G[j])
      OBVIOUS
    <3>1. /\ \A a, b \in 1..n :
               a < b => /\ F[a].line <= F[b].line
                        /\ F[a].line = F[b].line => ~IsTyped(F[b])
                        /\ F[a].line < F[b].line => \E j \in a..b-1 : Ends(F[j])
          /\ n > 0 /\ ~Ends(F[n]) => rest # <<>> /\ F[n].line = lines
      <4>1. \A i \in Inodes : \A a, b \in 1..Len(files[i]) :
              a < b => /\ files[i][a].line <= files[i][b].line
                       /\ files[i][a].line = files[i][b].line => ~IsTyped(files[i][b])
                       /\ files[i][a].line < files[i][b].line =>
                            \E j \in a..b-1 : Ends(files[i][j])
        BY DEF FilesInv
      <4>2. \A i \in Inodes : files[i] # <<>> /\ ~Ends(Last(files[i])) =>
              rest # <<>> /\ Last(files[i]).line = lines
        BY DEF FilesInv
      <4>3. n > 0 => F # <<>> /\ Last(F) = F[n]
        BY <2>4 DEF n, Last
      <4>4. F # <<>> /\ ~Ends(Last(F)) => rest # <<>> /\ Last(F).line = lines
        BY <2>2, <4>2 DEF F
      <4>5. QED  BY <2>2, <4>1, <4>3, <4>4 DEF F, n
    <3>2. CASE m \in 1..n
      <4>a. \A j \in 1..n : G[j] = F[j]
        BY <2>2
      <4>b. k \in 1..n /\ \A j \in k..m-1 : j \in 1..n
        BY <2>4, <3>2
      <4>1. k \in 1..n /\ G[k] = F[k] /\ G[m] = F[m] /\ \A j \in k..m-1 : G[j] = F[j]
        BY <3>2, <4>a, <4>b
      <4>2. QED  BY <3>1, <3>2, <4>1
    <3>3. CASE m \in n+1..Len(G) /\ k \in n+1..Len(G)
      <4>1. G[k].line = lines' /\ G[m].line = lines' /\ m # n + 1
        BY <2>2, <2>4, <3>3
      <4>2. ~IsTyped(G[m])
        BY <2>2, <3>3, <4>1
      <4>3. G[k].line <= G[m].line /\ ~(G[k].line < G[m].line)
        BY <2>5, <4>1
      <4>4. QED  BY <4>2, <4>3
    <3>4. CASE m \in n+1..Len(G) /\ k \in 1..n
      <4>1. G[k] = F[k] /\ G[m].line = lines' /\ F[k].line \in 1..lines
        BY <2>2, <2>6, <3>4
      <4>2. G[k].line = G[m].line => ~IsTyped(G[m])
        BY <2>2, <2>4, <2>5, <3>4, <4>1
      <4>3. ASSUME G[k].line < G[m].line PROVE \E j \in k..m-1 : Ends(G[j])
        <5>1. n \in k..m-1 /\ n \in 1..n /\ G[n] = F[n] /\ n > 0
          BY <2>2, <2>4, <3>4
        <5>2. CASE Ends(F[n])
          BY <5>1, <5>2
        <5>3. CASE ~Ends(F[n])
          <6>1. lines' = lines /\ F[n].line = lines /\ F[k].line < F[n].line
            BY <2>2, <3>1, <4>1, <4>3, <5>1, <5>3
          <6>2. k < n
            BY <2>4, <2>5, <3>4, <6>1
          <6>3. PICK j \in k..n-1 : Ends(F[j])
            BY <3>1, <3>4, <5>1, <6>1, <6>2
          <6>4. j \in k..m-1 /\ j \in 1..n
            BY <2>4, <3>4, <5>1
          <6>5. QED  BY <2>2, <6>3, <6>4
        <5>4. QED  BY <5>2, <5>3
      <4>4. G[k].line <= G[m].line
        BY <2>4, <2>5, <4>1
      <4>5. QED  BY <4>2, <4>3, <4>4
    <3>5. QED  BY <2>4, <3>2, <3>3, <3>4
  <2>9. \A i \in Inodes : \A k, m \in 1..Len(files'[i]) :
          k < m => /\ files'[i][k].line <= files'[i][m].line
                   /\ files'[i][k].line = files'[i][m].line => ~IsTyped(files'[i][m])
                   /\ files'[i][k].line < files'[i][m].line =>
                        \E j \in k..m-1 : Ends(files'[i][j])
    <3> SUFFICES ASSUME NEW i \in Inodes
                 PROVE  \A k, m \in 1..Len(files'[i]) :
          k < m => /\ files'[i][k].line <= files'[i][m].line
                   /\ files'[i][k].line = files'[i][m].line => ~IsTyped(files'[i][m])
                   /\ files'[i][k].line < files'[i][m].line =>
                        \E j \in k..m-1 : Ends(files'[i][j])
      OBVIOUS
    <3>1. CASE i = path
      BY <2>8, <3>1 DEF G
    <3>2. CASE i # path
      <4>1. \A k, m \in 1..Len(files[i]) :
              k < m => /\ files[i][k].line <= files[i][m].line
                       /\ files[i][k].line = files[i][m].line => ~IsTyped(files[i][m])
                       /\ files[i][k].line < files[i][m].line =>
                            \E j \in k..m-1 : Ends(files[i][j])
        BY DEF FilesInv
      <4>2. files'[i] = files[i]
        BY <2>2, <3>2
      <4>3. QED  BY <4>1, <4>2
    <3>3. QED  BY <3>1, <3>2
  <2>10. \A i, j \in Inodes : \A k \in 1..Len(files'[i]) : \A m \in 1..Len(files'[j]) :
           /\ IsTyped(files'[i][k]) /\ IsTyped(files'[j][m])
           /\ files'[i][k].line = files'[j][m].line
           => i = j
    <3>1. ASSUME NEW i \in Inodes, NEW k \in 1..Len(files'[i]), IsTyped(files'[i][k])
          PROVE  \/ k \in 1..Len(files[i]) /\ files'[i][k] = files[i][k]
                 \/ i = path /\ files'[i][k].line = lines + 1
      <4>1. CASE i # path
        BY <2>2, <4>1
      <4>2. CASE i = path
        <5>1. k \in 1..n \/ k \in n+1..Len(G)
          BY <2>4, <4>2 DEF G
        <5>2. QED  BY <2>2, <3>1, <4>2, <5>1 DEF G, F, n
      <4>3. QED  BY <4>1, <4>2
    <3> SUFFICES ASSUME NEW i \in Inodes, NEW j \in Inodes,
                        NEW k \in 1..Len(files'[i]), NEW m \in 1..Len(files'[j]),
                        IsTyped(files'[i][k]), IsTyped(files'[j][m]),
                        files'[i][k].line = files'[j][m].line
                 PROVE  i = j
      OBVIOUS
    <3>2. /\ \/ k \in 1..Len(files[i]) /\ files'[i][k] = files[i][k]
             \/ i = path /\ files'[i][k].line = lines + 1
          /\ \/ m \in 1..Len(files[j]) /\ files'[j][m] = files[j][m]
             \/ j = path /\ files'[j][m].line = lines + 1
      BY <3>1
    <3>3. /\ k \in 1..Len(files[i]) => files[i][k].line <= lines
          /\ m \in 1..Len(files[j]) => files[j][m].line <= lines
      BY <2>6
    <3>4. k \in 1..Len(files[i]) /\ m \in 1..Len(files[j]) /\ IsTyped(files[i][k])
          /\ IsTyped(files[j][m]) /\ files[i][k].line = files[j][m].line => i = j
      BY DEF FilesInv
    <3>5. lines + 1 > lines
      BY <2>4
    <3>6. CASE i = path /\ files'[i][k].line = lines + 1
      <4>1. files'[j][m].line = lines + 1 /\ lines + 1 \in Nat
        BY <2>4, <3>6
      <4>2. ~(m \in 1..Len(files[j]) /\ files'[j][m] = files[j][m])
        <5>1. ~(lines + 1 <= lines)
          BY <2>4
        <5>2. QED  BY <3>3, <4>1, <5>1
      <4>3. QED  BY <3>2, <3>6, <4>2
    <3>7. CASE k \in 1..Len(files[i]) /\ files'[i][k] = files[i][k]
      <4>1. ~(j = path /\ files'[j][m].line = lines + 1)
        <5>1. ~(lines + 1 <= lines)
          BY <2>4
        <5>2. QED  BY <3>3, <3>7, <5>1
      <4>2. m \in 1..Len(files[j]) /\ files'[j][m] = files[j][m]
        BY <3>2, <4>1
      <4>3. QED  BY <3>4, <3>7, <4>2
    <3>8. QED  BY <3>2, <3>6, <3>7
  <2>11. \A i \in Inodes : files'[i] # <<>> /\ ~Ends(Last(files'[i])) =>
           i = path' /\ rest' # <<>> /\ Last(files'[i]).line = lines'
    <3>1. ASSUME NEW i \in Inodes, i # path, files'[i] # <<>>, ~Ends(Last(files'[i]))
          PROVE  FALSE
      BY <2>2, <3>1 DEF FilesInv
    <3>2. Last(G).line = lines'
      BY <2>2, <2>4 DEF Last
    <3>3. QED  BY <2>2, <2>3, <3>1, <3>2 DEF G
  <2>12. \A i \in Inodes : i > made' => files'[i] = <<>>
    <3>1. ~(path > made)
      BY <2>2 DEF TailTypeOK, Inodes
    <3>2. QED  BY <2>2, <3>1 DEF FilesInv
  <2>13. /\ \A k \in 1..Len(rest') : rest'[k].line = lines' /\ ~IsTyped(rest'[k])
         /\ rest' # <<>> => Ends(Last(rest')) /\ path' # None /\ lines' > 0
    BY <2>2, <2>3, <2>5 DEF Inodes
  <2>14. QED  BY <2>7, <2>9, <2>10, <2>11, <2>12, <2>13 DEF FilesInv
<1>2. CASE Rename
  BY <1>2 DEF Rename, FilesInv
<1>3. CASE Create
  <2>1. /\ path = None /\ rest = <<>> /\ UNCHANGED <<files, lines, rest>>
        /\ made' = made + 1 /\ path' = made + 1
    BY <1>3 DEF Create, FilesInv
  <2>2. \A i \in Inodes : i > made' => i > made
    BY <2>1 DEF TailTypeOK, Inodes
  <2>3. path' # None
    BY <2>1, AuditAssumption DEF TailTypeOK, Inodes
  <2>4. \A i \in Inodes : ~(files[i] # <<>> /\ ~Ends(Last(files[i])))
    BY <2>1 DEF FilesInv
  <2>5. QED  BY <2>1, <2>2, <2>3, <2>4 DEF FilesInv
<1>4. CASE Truncate
  <2>1. /\ path \in Inodes /\ files'[path] = <<>> /\ UNCHANGED <<path, made, lines, rest>>
        /\ \A i \in Inodes : i # path => files'[i] = files[i]
    BY <1>4 DEF Truncate, TailTypeOK
  <2>2. \A i \in Inodes : \A k \in 1..Len(files'[i]) : files'[i] = files[i]
    BY <2>1
  <2>3. \A i \in Inodes : files'[i] # <<>> => files'[i] = files[i]
    BY <2>1
  <2>4. \A i \in Inodes : \A k \in 1..Len(files'[i]) : files'[i][k].line \in 1..lines'
    BY <2>1, <2>2 DEF FilesInv
  <2>5. ASSUME NEW i \in Inodes, NEW k \in 1..Len(files'[i]), NEW m \in 1..Len(files'[i]),
               k < m
        PROVE  /\ files'[i][k].line <= files'[i][m].line
               /\ files'[i][k].line = files'[i][m].line => ~IsTyped(files'[i][m])
               /\ files'[i][k].line < files'[i][m].line =>
                    \E n \in k..m-1 : Ends(files'[i][n])
    <3>1. files'[i] = files[i]
      BY <2>2
    <3>2. QED  BY <2>5, <3>1 DEF FilesInv
  <2>6. ASSUME NEW i \in Inodes, NEW j \in Inodes,
               NEW k \in 1..Len(files'[i]), NEW m \in 1..Len(files'[j]),
               IsTyped(files'[i][k]), IsTyped(files'[j][m]),
               files'[i][k].line = files'[j][m].line
        PROVE  i = j
    <3>1. files'[i] = files[i] /\ files'[j] = files[j]
      BY <2>2
    <3>2. QED  BY <2>6, <3>1 DEF FilesInv
  <2>7. \A i \in Inodes : files'[i] # <<>> /\ ~Ends(Last(files'[i])) =>
          i = path' /\ rest' # <<>> /\ Last(files'[i]).line = lines'
    BY <2>1, <2>3 DEF FilesInv
  <2>8. \A i \in Inodes : i > made' => files'[i] = <<>>
    BY <2>1 DEF FilesInv
  <2>9. QED  BY <2>1, <2>4, <2>5, <2>6, <2>7, <2>8 DEF FilesInv
<1>5. CASE Monitor
  <2>1. UNCHANGED fileVars
    BY <1>5, MonitorReads
  <2>2. QED  BY <2>1 DEF FilesInv, fileVars
<1>6. CASE UNCHANGED vars
  BY <1>6 DEF vars, fileVars, FilesInv
<1>7. QED  BY <1>1, <1>2, <1>3, <1>4, <1>5, <1>6 DEF Next, Auditd

-----------------------------------------------------------------------------
(* The steps, as the invariants see them *)

\* auditd renamed the file, or created the next one.
IsRotated ==
  /\ path' = None \/ (path' \in Inodes /\ path' > made)
  /\ UNCHANGED <<files, lines, tailVars, history>>

IsEmptied ==
  /\ path \in Inodes /\ files' = [files EXCEPT ![path] = <<>>]
  /\ history' = [history EXCEPT !.emptied = @ \cup {path}]
  /\ UNCHANGED <<path, lines, tailVars>>

\* The file the path names was opened, for the first time or again.
IsStarted ==
  /\ phase = "start" /\ phase' = "read" /\ fd = None /\ path \in Inodes
  /\ fd' = path /\ ino' = path /\ pos' = Len(files[path])
  /\ history' = [history EXCEPT !.first = path, !.since = lines]
  /\ UNCHANGED <<fileVars, met, hand, opened, out>>

IsReopened ==
  /\ phase = "open" /\ phase' = "read" /\ path \in Inodes /\ fd \in Inodes
  /\ fd' = path /\ ino' = met /\ pos' = 0
  /\ opened' = Append(opened, [file |-> path, expected |-> met])
  /\ history' = [history EXCEPT !.left[fd] = pos]
  /\ UNCHANGED <<fileVars, met, hand, out>>

\* Nothing was read or opened.
IsIdle ==
  /\ phase' = "open" /\ phase # "open" =>
       phase = "stat" /\ path # None /\ (path # ino \/ Len(files[path]) < pos)
  /\ phase = "ended" => phase' = "ended"
  /\ All' = All
  /\ UNCHANGED <<fileVars, fd, ino, pos, opened>>
  /\ (phase' = "ended" /\ fd = None) \/ UNCHANGED history
  /\ UNCHANGED <<history.left, history.emptied>>

\* Every step is one of those described above, the parts of it that the order, the
\* replays and the misses are told from.
LEMMA StepIs ==
  ASSUME TailTypeOK, FilesInv, [Next]_vars
  PROVE  \/ IsWritten /\ UNCHANGED <<tailVars, history>>
         \/ IsRotated
         \/ IsEmptied
         \/ IsStarted
         \/ IsLineRead
         \/ IsReopened
         \/ IsIdle
<1> USE DEF None
<1>1. CASE Write
  BY <1>1, WriteIs
<1>2. CASE Rename
  BY <1>2 DEF Rename, IsRotated
<1>3. CASE Create
  <2>1. path' = made + 1 /\ made + 1 \in Inodes /\ made + 1 > made
    BY <1>3, AuditAssumption DEF Create, TailTypeOK, Inodes
  <2>2. UNCHANGED <<files, lines, tailVars, history>>
    BY <1>3 DEF Create
  <2>3. QED  BY <2>1, <2>2 DEF IsRotated
<1>4. CASE Truncate
  BY <1>4 DEF Truncate, IsEmptied, TailTypeOK
<1>5. CASE StartAtEnd
  <2>1. CASE path = None
    <3>1. All' = All
      BY <1>5, <2>1 DEF StartAtEnd, All
    <3>2. UNCHANGED <<history.left, history.emptied>>
      BY <1>5 DEF StartAtEnd, TailTypeOK, Told
    <3>3. fd = None /\ phase = "start" /\ phase' = "ended"
      BY <1>5, <2>1 DEF StartAtEnd, TailTypeOK
    <3>4. QED  BY <1>5, <2>1, <3>1, <3>2, <3>3 DEF StartAtEnd, IsIdle
  <2>2. CASE path # None
    BY <1>5, <2>2 DEF StartAtEnd, IsStarted, TailTypeOK
  <2>3. QED  BY <2>1, <2>2
<1>6. CASE ReadLine
  BY <1>6, ReadLineIs
<1>7. CASE Send
  <2>1. All' = All
    BY <1>7 DEF Send, All
  <2>2. QED  BY <1>7, <2>1 DEF Send, IsIdle
<1>8. CASE EndOfFile
  <2>1. All' = All
    BY <1>8 DEF EndOfFile, All
  <2>2. QED  BY <1>8, <2>1 DEF EndOfFile, IsIdle
<1>9. CASE Stat
  <2>1. All' = All
    BY <1>9 DEF Stat, All
  <2>2. QED  BY <1>9, <2>1 DEF Stat, IsIdle
<1>10. CASE Reopen
  <2>1. All' = All
    BY <1>10 DEF Reopen, All
  <2>2. CASE path = None
    BY <1>10, <2>1, <2>2 DEF Reopen, IsIdle
  <2>3. CASE path # None
    BY <1>10, <2>3 DEF Reopen, IsReopened, TailTypeOK
  <2>4. QED  BY <2>2, <2>3
<1>11. CASE UNCHANGED vars
  BY <1>11 DEF vars, tailVars, IsIdle, All
<1>12. QED
  BY <1>1, <1>2, <1>3, <1>4, <1>5, <1>6, <1>7, <1>8, <1>9, <1>10, <1>11
     DEF Next, Auditd, Monitor

\* A line that is dealt with gives an alert or none; no other step does.
LEMMA AlertsOf ==
  ASSUME TailTypeOK, FilesInv, [Next]_vars
  PROVE  /\ All \in Seq(Alert)
         /\ \/ All' = All
            \/ /\ IsLineRead /\ All' = Append(All, hand') /\ hand' \in Alert
               /\ IsTyped(files[fd][pos+1]) /\ hand'.line = files[fd][pos+1].line
               /\ hand'.opening = Len(opened)
<1>1. All \in Seq(Alert)
  BY DEF All, TailTypeOK
<1>2. IsWritten /\ UNCHANGED <<tailVars, history>> => All' = All
  BY DEF All, tailVars
<1>3. IsRotated => All' = All
  BY DEF IsRotated, All, tailVars
<1>4. IsEmptied => All' = All
  BY DEF IsEmptied, All, tailVars
<1>5. IsStarted => All' = All
  BY DEF IsStarted, All
<1>6. IsReopened => All' = All
  BY DEF IsReopened, All
<1>7. IsIdle => All' = All
  BY DEF IsIdle
<1>8. IsLineRead => \/ All' = All
                    \/ /\ All' = Append(All, hand') /\ hand' \in Alert
                       /\ IsTyped(files[fd][pos+1]) /\ hand'.line = files[fd][pos+1].line
                       /\ hand'.opening = Len(opened)
  BY DEF IsLineRead, All
<1>9. QED  BY <1>1, <1>2, <1>3, <1>4, <1>5, <1>6, <1>7, <1>8, StepIs

\* Pieces that are written, and their files.
LEMMA WrittenPiece ==
  ASSUME TailTypeOK, FilesInv, IsWritten, NEW i \in Inodes, NEW k \in 1..Len(files'[i])
  PROVE  \/ k \in 1..Len(files[i]) /\ files'[i][k] = files[i][k]
         \/ i = path /\ k > Len(files[i])
            /\ (IsTyped(files'[i][k]) => files'[i][k].line = lines + 1)
<1>1. CASE i # path
  BY <1>1 DEF IsWritten
<1>2. CASE i = path
  <2>a. Len(files[path]) \in Nat /\ Len(files'[path]) \in Nat
    <3>a. files \in [Inodes -> Seq(Piece)]
      BY DEF TailTypeOK
    <3>b. path \in Inodes
      BY DEF IsWritten
    <3>1. files[path] \in Seq(Piece)
      BY <3>a, <3>b
    <3>2. files' \in [Inodes -> Seq(Piece)]
      BY DEF IsWritten
    <3>3. QED  BY <3>b, <3>1, <3>2
  <2>1. k \in 1..Len(files[path]) \/ k \in Len(files[path])+1..Len(files'[path])
    BY <1>2, <2>a
  <2>2. k \in 1..Len(files[path]) => files'[path][k] = files[path][k]
    BY DEF IsWritten
  <2>3. ASSUME k \in Len(files[path])+1..Len(files'[path])
        PROVE  k > Len(files[path]) /\ (IsTyped(files'[path][k]) => files'[path][k].line = lines + 1)
    <3>1. k > Len(files[path])
      BY <2>3, <2>a
    <3>2. /\ files'[path][k].line = lines'
          /\ IsTyped(files'[path][k]) => lines' = lines + 1
      BY <2>3 DEF IsWritten
    <3>3. QED  BY <3>1, <3>2
  <2>4. QED  BY <1>2, <2>1, <2>2, <2>3
<1>3. QED  BY <1>1, <1>2

\* What auditd writes removes nothing from any file.
LEMMA NothingRemoved ==
  ASSUME TailTypeOK, FilesInv, IsWritten, NEW i \in Inodes
  PROVE  /\ Len(files[i]) \in Nat /\ Len(files'[i]) \in Nat /\ Len(files[i]) <= Len(files'[i])
         /\ \A k \in 1..Len(files[i]) : files'[i][k] = files[i][k]
<1>1. Len(files[i]) \in Nat /\ Len(files'[i]) \in Nat
  BY DEF IsWritten, TailTypeOK
<1>2. CASE i = path
  BY <1>1, <1>2 DEF IsWritten
<1>3. CASE i # path
  BY <1>1, <1>3 DEF IsWritten
<1>4. QED  BY <1>1, <1>2, <1>3

\* The numbers of lines only grow.
LEMMA LinesGrow ==
  ASSUME TailTypeOK, FilesInv, [Next]_vars
  PROVE  lines \in Nat /\ lines' \in Nat /\ lines <= lines'
<1>1. IsWritten => lines' = lines \/ lines' = lines + 1
  BY DEF IsWritten
<1>2. IsRotated \/ IsEmptied \/ IsStarted \/ IsLineRead \/ IsReopened \/ IsIdle => lines' = lines
  BY DEF IsRotated, IsEmptied, IsStarted, IsLineRead, IsReopened, IsIdle, fileVars
<1>3. lines \in Nat
  BY DEF TailTypeOK
<1>4. QED  BY <1>1, <1>2, <1>3, StepIs

-----------------------------------------------------------------------------
(* The order of the alerts *)

\* IsPassed after the step, of a line numbered before it.
WillBePassed(n) ==
  \A k \in pos'+1..Len(files'[fd']) : IsTyped(files'[fd'][k]) => files'[fd'][k].line > n

\* A line the monitor has passed in its open file stays passed until it reopens one.
LEMMA PassedStays ==
  ASSUME TailTypeOK, FilesInv, [Next]_vars, fd \in Inodes, opened' = opened,
         NEW n \in Nat, n <= lines, IsPassed(n)
  PROVE  WillBePassed(n)
<1>1. /\ files \in [Inodes -> Seq(Piece)] /\ Len(files[fd]) \in Nat /\ pos \in Nat
      /\ lines \in Nat
  BY DEF TailTypeOK
<1>2. CASE IsWritten /\ UNCHANGED <<tailVars, history>>
  <2>1. fd' = fd /\ pos' = pos
    BY <1>2 DEF tailVars
  <2>2. Len(files'[fd]) \in Nat
    BY <1>2, NothingRemoved
  <2>3. ASSUME NEW k \in pos+1..Len(files'[fd]), IsTyped(files'[fd][k])
        PROVE  files'[fd][k].line > n
    <3>1. k \in 1..Len(files'[fd])
      BY <1>1, <2>2
    <3>2. \/ k \in pos+1..Len(files[fd]) /\ files'[fd][k] = files[fd][k]
          \/ files'[fd][k].line = lines + 1
      BY <1>1, <1>2, <2>2, <2>3, <3>1, WrittenPiece
    <3>3. QED  BY <1>1, <2>3, <3>2 DEF IsPassed, WillBePassed
  <2>4. QED  BY <2>1, <2>3 DEF IsPassed, WillBePassed
<1>3. CASE IsRotated
  BY <1>3 DEF IsRotated, IsPassed, WillBePassed, tailVars
<1>4. CASE IsEmptied
  <2>1. fd' = fd /\ pos' = pos
    BY <1>4 DEF IsEmptied, tailVars
  <2>2. files'[fd] = <<>> \/ files'[fd] = files[fd]
    BY <1>4 DEF IsEmptied, TailTypeOK
  <2>3. QED  BY <1>1, <2>1, <2>2 DEF IsPassed, WillBePassed
<1>5. CASE IsStarted
  BY <1>5, AuditAssumption DEF IsStarted, Inodes, None
<1>6. CASE IsLineRead
  <2>1. fd' = fd /\ pos < pos' /\ pos' \in Nat /\ files' = files
    BY <1>6 DEF IsLineRead, fileVars
  <2>2. ASSUME NEW q \in Nat, pos < q, NEW k \in q+1..Len(files[fd])
        PROVE  k \in pos+1..Len(files[fd])
    BY <1>1, <2>2
  <2>3. QED  BY <2>1, <2>2 DEF IsPassed, WillBePassed
<1>7. CASE IsReopened
  <2>1. opened \in Seq([file: Inodes, expected: Inodes])
    BY DEF TailTypeOK
  <2>2. Len(opened') = Len(opened) + 1 /\ Len(opened) \in Nat
    BY <1>7, <2>1 DEF IsReopened
  <2>3. QED  BY <2>2
<1>8. CASE IsIdle
  BY <1>8 DEF IsIdle, IsPassed, WillBePassed, fileVars
<1>9. QED  BY <1>2, <1>3, <1>4, <1>5, <1>6, <1>7, <1>8, StepIs

\* Every step keeps the alerts in the order of their lines.
LEMMA OrderStep == TailTypeOK /\ FilesInv /\ OrderInv /\ [Next]_vars => OrderInv'
<1> SUFFICES ASSUME TailTypeOK, FilesInv, OrderInv, [Next]_vars PROVE OrderInv'
  OBVIOUS
<1>1. TailTypeOK'
  BY TypeStep
<1>2. All \in Seq(Alert) /\ Len(All) \in Nat
  BY AlertsOf
<1>3. lines \in Nat /\ lines' \in Nat /\ lines <= lines'
  BY LinesGrow
<1>4. /\ opened \in Seq([file: Inodes, expected: Inodes]) /\ Len(opened) \in Nat
      /\ opened' = opened \/ Len(opened') = Len(opened) + 1
  <2>1. opened \in Seq([file: Inodes, expected: Inodes])
    BY DEF TailTypeOK
  <2>2. IsReopened => Len(opened') = Len(opened) + 1
    BY <2>1 DEF IsReopened
  <2>3. IsWritten /\ UNCHANGED <<tailVars, history>> => opened' = opened
    BY DEF tailVars
  <2>4. IsRotated \/ IsEmptied \/ IsStarted \/ IsLineRead \/ IsIdle => opened' = opened
    BY DEF IsRotated, IsEmptied, IsStarted, IsLineRead, IsIdle, tailVars
  <2>5. QED  BY <2>1, <2>2, <2>3, <2>4, StepIs
<1>5. /\ fd \in {None} \cup Inodes
      /\ fd' = None => fd = None
  <2>1. None \notin Inodes
    BY AuditAssumption DEF None, Inodes
  <2>2. IsWritten /\ UNCHANGED <<tailVars, history>> => fd' = fd
    BY DEF tailVars
  <2>3. IsRotated \/ IsEmptied \/ IsLineRead \/ IsIdle => fd' = fd
    BY DEF IsRotated, IsEmptied, IsLineRead, IsIdle, tailVars
  <2>4. IsStarted \/ IsReopened => fd' \in Inodes
    BY DEF IsStarted, IsReopened
  <2>5. fd \in {None} \cup Inodes
    BY DEF TailTypeOK
  <2>6. QED  BY <2>1, <2>2, <2>3, <2>4, <2>5, StepIs
<1>6. ASSUME NEW i \in 1..Len(All)
      PROVE  /\ All[i].opening \in Nat /\ All[i].opening <= Len(opened')
             /\ All[i].line \in Nat /\ All[i].line \in 1..lines'
             /\ All[i].opening = Len(opened') => WillBePassed(All[i].line)
  <2> DEFINE a == All[i]
  <2>1. a \in Alert
    BY <1>2
  <2>2. a.opening \in Nat /\ a.line \in Nat
    BY <2>1 DEF Alert
  <2>3. /\ a.opening <= Len(opened) /\ a.line \in 1..lines
        /\ a.opening = Len(opened) => IsPassed(a.line)
    BY DEF OrderInv
  <2>4. fd \in Inodes
    BY <1>2, <1>5 DEF OrderInv
  <2> HIDE DEF a
  <2>5. a.opening <= Len(opened') /\ a.line \in 1..lines'
    BY <1>3, <1>4, <2>2, <2>3
  <2>6. ASSUME a.opening = Len(opened') PROVE WillBePassed(a.line)
    <3>1. opened' = opened
      BY <1>4, <2>2, <2>3, <2>6
    <3>2. ASSUME NEW n \in Nat, n <= lines, IsPassed(n) PROVE WillBePassed(n)
      BY <2>4, <3>1, <3>2, PassedStays
    <3>3. IsPassed(a.line) /\ a.line <= lines
      BY <1>3, <2>2, <2>3, <2>6, <3>1
    <3>4. QED  BY <2>2, <3>2, <3>3
  <2>7. QED  BY <2>2, <2>5, <2>6 DEF a
<1>7. CASE All' = All
  <2>1. \A i, j \in 1..Len(All) :
          i < j => /\ All[i].opening <= All[j].opening
                   /\ All[i].opening = All[j].opening => All[i].line < All[j].line
    BY DEF OrderInv
  <2>2. \A i \in 1..Len(All') :
          /\ All'[i].opening <= Len(opened') /\ All'[i].line \in 1..lines'
          /\ All'[i].opening = Len(opened') => WillBePassed(All'[i].line)
    BY <1>6, <1>7
  <2>3. fd' = None => All' = <<>>
    BY <1>5, <1>7 DEF OrderInv
  <2>4. QED  BY <1>7, <2>1, <2>2, <2>3 DEF OrderInv, IsPassed, WillBePassed
<1>8. CASE /\ IsLineRead /\ All' = Append(All, hand') /\ hand' \in Alert
           /\ IsTyped(files[fd][pos+1]) /\ hand'.line = files[fd][pos+1].line
           /\ hand'.opening = Len(opened)
  <2> DEFINE h == hand'
             n == Len(All)
             A == All'
  <2>1. /\ A \in Seq(Alert) /\ Len(A) = n + 1 /\ A[n+1] = h /\ n \in Nat
        /\ \A i \in 1..n : A[i] = All[i]
    BY <1>2, <1>8
  <2>2. /\ fd \in Inodes /\ fd' = fd /\ opened' = opened /\ files' = files /\ lines' = lines
        /\ pos < pos' /\ pos' <= Len(files[fd]) /\ pos \in Nat /\ pos' \in Nat
        /\ Len(files[fd]) \in Nat /\ fd # None
    BY <1>8, AuditAssumption DEF IsLineRead, fileVars, TailTypeOK, Inodes, None
  <2>3. /\ pos + 1 \in 1..Len(files[fd]) /\ pos + 1 \in pos+1..Len(files[fd])
        /\ h.opening \in Nat /\ h.line \in Nat /\ h.line = files[fd][pos+1].line
    BY <1>8, <2>2 DEF Alert
  <2>4. h.opening = Len(opened) /\ h.line \in 1..lines
    BY <1>8, <2>2, <2>3 DEF FilesInv
  <2>5. ASSUME NEW i \in 1..n
        PROVE  All[i].opening <= h.opening
               /\ (All[i].opening = h.opening => All[i].line < h.line)
    <3>1. All[i].opening <= Len(opened) /\ (All[i].opening = Len(opened) => IsPassed(All[i].line))
      BY DEF OrderInv
    <3>2. All[i].opening = Len(opened) => h.line > All[i].line
      BY <1>8, <2>3, <3>1 DEF IsPassed
    <3>3. All[i].line \in Nat
      BY <1>6
    <3>4. QED  BY <2>3, <2>4, <3>1, <3>2, <3>3
  <2>6. ASSUME NEW q \in Nat, pos < q, NEW k \in q+1..Len(files[fd]), IsTyped(files[fd][k])
        PROVE  files[fd][k].line > h.line
    <3>1. k \in 1..Len(files[fd]) /\ pos + 1 < k
      BY <2>2, <2>6
    <3>2. /\ files[fd][pos+1].line <= files[fd][k].line
          /\ files[fd][pos+1].line = files[fd][k].line => ~IsTyped(files[fd][k])
      BY <2>2, <2>3, <3>1 DEF FilesInv
    <3>3. files[fd][k].line \in Nat
      BY <2>2, <3>1, <1>3 DEF FilesInv
    <3>4. QED  BY <2>2, <2>3, <2>6, <3>2, <3>3
  <2> HIDE DEF h, A
  <2>7. \A i, j \in 1..Len(A) :
          i < j => /\ A[i].opening <= A[j].opening
                   /\ A[i].opening = A[j].opening => A[i].line < A[j].line
    <3> SUFFICES ASSUME NEW i \in 1..Len(A), NEW j \in 1..Len(A), i < j
                 PROVE  /\ A[i].opening <= A[j].opening
                        /\ A[i].opening = A[j].opening => A[i].line < A[j].line
      OBVIOUS
    <3>1. i \in 1..n /\ A[i] = All[i]
      BY <2>1
    <3>2. CASE j \in 1..n
      <4>1. A[j] = All[j]
        BY <2>1, <3>2
      <4>2. QED  BY <3>1, <3>2, <4>1 DEF OrderInv
    <3>3. CASE j = n + 1
      BY <2>1, <2>5, <3>1, <3>3
    <3>4. QED  BY <2>1, <3>2, <3>3
  <2>8. \A i \in 1..Len(A) :
          /\ A[i].opening <= Len(opened') /\ A[i].line \in 1..lines'
          /\ A[i].opening = Len(opened') => WillBePassed(A[i].line)
    <3> SUFFICES ASSUME NEW i \in 1..Len(A)
                 PROVE  /\ A[i].opening <= Len(opened') /\ A[i].line \in 1..lines'
                        /\ A[i].opening = Len(opened') => WillBePassed(A[i].line)
      OBVIOUS
    <3>1. CASE i \in 1..n
      BY <1>6, <2>1, <3>1
    <3>2. CASE i = n + 1
      <4>1. WillBePassed(h.line)
        <5>1. \A k \in pos'+1..Len(files[fd]) : IsTyped(files[fd][k]) => files[fd][k].line > h.line
          BY <2>2, <2>6
        <5>2. QED  BY <2>2, <5>1 DEF WillBePassed
      <4>2. QED  BY <1>4, <2>1, <2>2, <2>4, <3>2, <4>1
    <3>3. QED  BY <2>1, <3>1, <3>2
  <2>9. fd' # None
    BY <2>2
  <2>10. QED  BY <2>7, <2>8, <2>9 DEF OrderInv, IsPassed, WillBePassed, A
<1>9. QED  BY <1>7, <1>8, AlertsOf

-----------------------------------------------------------------------------
(* Lines that are told of again *)

\* IsAbsent and IsRead after the step.
WillBeAbsent(n, i) ==
  i # None => \A k \in 1..Len(files'[i]) : IsTyped(files'[i][k]) => files'[i][k].line # n

WillBeRead(n) ==
  /\ fd' = ino'
  /\ \A i \in Inodes : \A k \in 1..Len(files'[i]) :
       IsTyped(files'[i][k]) /\ files'[i][k].line = n =>
         i = fd' /\ k <= pos' /\ pos' <= Len(files'[fd'])
  /\ phase' = "open" => WillBeAbsent(n, path')

\* The beginning of an earlier line is nowhere but where it was.
LEMMA BeginningStays ==
  ASSUME TailTypeOK, FilesInv, [Next]_vars, NEW n \in Nat, n <= lines,
         NEW i \in Inodes, NEW k \in 1..Len(files'[i]),
         IsTyped(files'[i][k]), files'[i][k].line = n
  PROVE  k \in 1..Len(files[i]) /\ files'[i][k] = files[i][k]
<1>1. lines \in Nat
  BY DEF TailTypeOK
<1>2. CASE IsWritten
  <2>1. files'[i][k].line # lines + 1
    BY <1>1
  <2>2. QED  BY <1>2, <2>1, WrittenPiece
<1>3. CASE IsEmptied
  <2>1. files'[i] = files[i] \/ files'[i] = <<>>
    BY <1>3 DEF IsEmptied, TailTypeOK
  <2>2. QED  BY <2>1
<1>4. CASE IsRotated \/ IsStarted \/ IsLineRead \/ IsReopened \/ IsIdle
  <2>1. files' = files
    BY <1>4 DEF IsRotated, IsStarted, IsLineRead, IsReopened, IsIdle, fileVars
  <2>2. QED  BY <2>1
<1>5. QED  BY <1>2, <1>3, <1>4, StepIs

\* An old line that is not in a file never comes into it.
LEMMA AbsentStays ==
  ASSUME TailTypeOK, FilesInv, [Next]_vars, NEW n \in Nat, n <= lines,
         NEW i \in {None} \cup Inodes, IsAbsent(n, i)
  PROVE  WillBeAbsent(n, i)
<1> SUFFICES ASSUME i # None, NEW k \in 1..Len(files'[i]),
                    IsTyped(files'[i][k]), files'[i][k].line = n
             PROVE  FALSE
  BY DEF WillBeAbsent
<1>1. k \in 1..Len(files[i]) /\ files'[i][k] = files[i][k]
  BY BeginningStays
<1>2. QED  BY <1>1 DEF IsAbsent

\* A path that changes names a new and empty file.
LEMMA PathIsNew ==
  ASSUME TailTypeOK, FilesInv, [Next]_vars, path' # path, NEW n
  PROVE  WillBeAbsent(n, path')
<1>1. IsRotated
  <2>1. IsWritten \/ IsEmptied \/ IsStarted \/ IsLineRead \/ IsReopened \/ IsIdle => path' = path
    BY DEF IsWritten, IsEmptied, IsStarted, IsLineRead, IsReopened, IsIdle, fileVars
  <2>2. QED  BY <2>1, StepIs
<1>2. CASE path' = None
  BY <1>2 DEF WillBeAbsent
<1>3. CASE path' \in Inodes /\ path' > made
  <2>1. files'[path'] = <<>>
    BY <1>1, <1>3 DEF IsRotated, FilesInv
  <2>2. QED  BY <2>1 DEF WillBeAbsent
<1>4. QED  BY <1>1, <1>2, <1>3 DEF IsRotated

\* A line that was read stays read until the monitor reopens a file.
LEMMA ReadStays ==
  ASSUME TailTypeOK, FilesInv, [Next]_vars, fd \in Inodes, opened' = opened,
         NEW n \in Nat, n <= lines, IsRead(n)
  PROVE  WillBeRead(n)
<1>1. /\ files \in [Inodes -> Seq(Piece)] /\ Len(files[fd]) \in Nat /\ pos \in Nat
      /\ path \in {None} \cup Inodes
  BY DEF TailTypeOK
<1>2. fd' = fd /\ ino' = ino /\ ~IsReopened /\ ~IsStarted
  <2>1. fd # None
    BY AuditAssumption DEF Inodes, None
  <2>2. ~IsReopened
    <3>1. opened \in Seq([file: Inodes, expected: Inodes])
      BY DEF TailTypeOK
    <3>2. SUFFICES ASSUME IsReopened PROVE FALSE
      OBVIOUS
    <3>3. Len(opened') = Len(opened) + 1 /\ Len(opened) \in Nat
      BY <3>1, <3>2 DEF IsReopened
    <3>4. QED  BY <3>3
  <2>3. ~IsStarted
    BY <2>1 DEF IsStarted
  <2>4. QED
    BY <2>2, <2>3, StepIs DEF IsRotated, IsEmptied, IsLineRead, IsIdle, tailVars
<1>3. /\ fd = ino
      /\ \A i \in Inodes : \A k \in 1..Len(files[i]) :
           IsTyped(files[i][k]) /\ files[i][k].line = n =>
             i = fd /\ k <= pos /\ pos <= Len(files[fd])
      /\ phase = "open" => IsAbsent(n, path)
  BY DEF IsRead
<1>4. ASSUME NEW i \in Inodes, NEW k \in 1..Len(files'[i]),
             IsTyped(files'[i][k]), files'[i][k].line = n
      PROVE  i = fd /\ k <= pos' /\ pos' <= Len(files'[fd])
  <2>1. k \in 1..Len(files[i]) /\ files'[i][k] = files[i][k]
    BY <1>4, BeginningStays
  <2>2. i = fd /\ k <= pos /\ pos <= Len(files[fd]) /\ k \in Nat
    BY <1>1, <1>3, <1>4, <2>1
  <2>3. CASE IsWritten /\ UNCHANGED <<tailVars, history>>
    <3>1. pos' = pos /\ Len(files[fd]) <= Len(files'[fd]) /\ Len(files'[fd]) \in Nat
      BY <2>3, NothingRemoved DEF tailVars
    <3>2. QED  BY <1>1, <2>2, <3>1
  <2>4. CASE IsRotated
    BY <2>2, <2>4 DEF IsRotated, tailVars
  <2>5. CASE IsEmptied
    <3>1. pos' = pos /\ (files'[fd] = <<>> \/ files'[fd] = files[fd])
      BY <2>5 DEF IsEmptied, tailVars, TailTypeOK
    <3>2. files'[fd] # <<>>
      BY <1>4, <2>2
    <3>3. QED  BY <2>2, <3>1, <3>2
  <2>6. CASE IsLineRead
    BY <1>1, <2>2, <2>6 DEF IsLineRead, fileVars
  <2>7. CASE IsIdle
    BY <2>2, <2>7 DEF IsIdle, fileVars
  <2>8. QED  BY <1>2, <2>3, <2>4, <2>5, <2>6, <2>7, StepIs
<1>5. ASSUME phase' = "open" PROVE WillBeAbsent(n, path')
  <2>1. CASE path' # path
    BY <2>1, PathIsNew
  <2>2. CASE path' = path /\ phase = "open"
    BY <1>1, <1>3, <2>2, AbsentStays
  <2>3. CASE path' = path /\ phase # "open"
    <3>1. IsIdle
      BY <1>2, <1>5, <2>3, StepIs DEF IsRotated, IsEmptied, IsLineRead, tailVars
    <3>2. path # None /\ (path # ino \/ Len(files[path]) < pos)
      BY <1>5, <2>3, <3>1 DEF IsIdle
    <3>3. path \in Inodes /\ Len(files[path]) \in Nat
      BY <1>1, <3>2
    <3>4. IsAbsent(n, path)
      <4> SUFFICES ASSUME NEW k \in 1..Len(files[path]), IsTyped(files[path][k]),
                          files[path][k].line = n
                   PROVE  FALSE
        BY DEF IsAbsent
      <4>1. path = fd /\ pos <= Len(files[fd])
        BY <1>3, <3>3
      <4>2. QED  BY <1>1, <1>3, <3>2, <3>3, <4>1
    <3>5. QED  BY <1>1, <2>3, <3>4, AbsentStays
  <2>4. QED  BY <2>1, <2>2, <2>3
<1>6. QED  BY <1>2, <1>3, <1>4, <1>5 DEF WillBeRead

\* An old line that is neither at the path nor still to be read stays gone from both.
LEMMA PastStays ==
  ASSUME TailTypeOK, FilesInv, [Next]_vars, fd \in Inodes,
         NEW n \in Nat, n <= lines, IsAbsent(n, path),
         IsAbsent(n, fd) \/ IsReopened
  PROVE  WillBeAbsent(n, fd') /\ WillBeAbsent(n, path')
<1>1. path \in {None} \cup Inodes /\ fd # None
  BY AuditAssumption DEF TailTypeOK, Inodes, None
<1>2. WillBeAbsent(n, path')
  <2>1. CASE path' = path
    BY <1>1, <2>1, AbsentStays
  <2>2. QED  BY <2>1, PathIsNew
<1>3. CASE IsReopened
  <2>1. fd' = path
    BY <1>3 DEF IsReopened
  <2>2. QED  BY <1>1, <1>2, <2>1, AbsentStays
<1>4. CASE ~IsReopened
  <2>1. fd' = fd
    BY <1>1, <1>4, StepIs
       DEF IsRotated, IsEmptied, IsStarted, IsLineRead, IsIdle, tailVars
  <2>2. QED  BY <1>2, <1>4, <2>1, AbsentStays
<1>5. QED  BY <1>3, <1>4

\* How the openings grow.
LEMMA OpenedGrows ==
  ASSUME TailTypeOK, FilesInv, [Next]_vars
  PROVE  /\ opened \in Seq([file: Inodes, expected: Inodes]) /\ Len(opened) \in Nat
         /\ \A o \in 1..Len(opened) : opened'[o] = opened[o]
         /\ \/ opened' = opened
            \/ /\ IsReopened /\ Len(opened') = Len(opened) + 1
               /\ opened'[Len(opened) + 1] = [file |-> fd', expected |-> ino']
<1>1. opened \in Seq([file: Inodes, expected: Inodes])
  BY DEF TailTypeOK
<1>2. Len(opened) \in Nat
  BY <1>1
<1>3. CASE IsReopened
  <2>1. opened' = Append(opened, [file |-> fd', expected |-> ino'])
    BY <1>3 DEF IsReopened
  <2> DEFINE r == [file |-> fd', expected |-> ino']
             s == Append(opened, r)
  <2>2. /\ Len(s) = Len(opened) + 1 /\ s[Len(opened) + 1] = r
        /\ \A o \in 1..Len(opened) : s[o] = opened[o]
    <3> HIDE DEF r
    <3>1. QED  BY <1>1
  <2>3. QED  BY <1>1, <1>2, <1>3, <2>1, <2>2
<1>4. CASE ~IsReopened
  <2>1. opened' = opened
    BY <1>4, StepIs DEF IsRotated, IsEmptied, IsStarted, IsLineRead, IsIdle, tailVars
  <2>2. QED  BY <1>1, <1>2, <2>1
<1>5. QED  BY <1>3, <1>4

WillBeMatched(o) == o = 0 \/ opened'[o].file = opened'[o].expected

\* Every step keeps the explanation of each replayed line.
LEMMA ReplayStep ==
  TailTypeOK /\ FilesInv /\ OrderInv /\ ReplayInv /\ [Next]_vars => ReplayInv'
<1> SUFFICES ASSUME TailTypeOK, FilesInv, OrderInv, ReplayInv, [Next]_vars PROVE ReplayInv'
  OBVIOUS
<1>1. All \in Seq(Alert) /\ Len(All) \in Nat
  BY AlertsOf
<1>2. /\ opened \in Seq([file: Inodes, expected: Inodes]) /\ Len(opened) \in Nat
      /\ \A o \in 1..Len(opened) : opened'[o] = opened[o]
      /\ \/ opened' = opened
         \/ /\ IsReopened /\ Len(opened') = Len(opened) + 1
            /\ opened'[Len(opened) + 1] = [file |-> fd', expected |-> ino']
  BY OpenedGrows
<1>3. IF opened' = <<>> THEN fd' = ino'
      ELSE opened'[Len(opened')] = [file |-> fd', expected |-> ino']
  <2>1. CASE opened' = opened
    <3>1. IF opened = <<>> THEN fd = ino ELSE opened[Len(opened)] = [file |-> fd, expected |-> ino]
      BY DEF ReplayInv
    <3>2. CASE IsStarted
      <4>1. opened = <<>>
        <5>1. SUFFICES ASSUME opened # <<>> PROVE FALSE
          OBVIOUS
        <5>2. Len(opened) \in 1..Len(opened)
          BY <1>2, <5>1
        <5>3. opened[Len(opened)] \in [file: Inodes, expected: Inodes]
          BY <1>2, <5>2, ElementOfSeq
        <5>4. fd \in Inodes
          BY <3>1, <5>1, <5>3
        <5>5. QED  BY <3>2, <5>4, AuditAssumption DEF IsStarted, Inodes, None
      <4>2. QED  BY <2>1, <3>2, <4>1 DEF IsStarted
    <3>3. CASE ~IsStarted
      <4>1. ~IsReopened
        <5>1. SUFFICES ASSUME IsReopened PROVE FALSE
          OBVIOUS
        <5>2. Len(opened') = Len(opened) + 1
          BY <1>2, <5>1 DEF IsReopened
        <5>3. QED  BY <1>2, <2>1, <5>2
      <4>2. fd' = fd /\ ino' = ino
        BY <3>3, <4>1, StepIs DEF IsRotated, IsEmptied, IsLineRead, IsIdle, tailVars
      <4>3. QED  BY <2>1, <3>1, <4>2
    <3>4. QED  BY <3>2, <3>3
  <2>2. CASE opened' # opened
    <3>1. Len(opened') = Len(opened) + 1
      BY <1>2, <2>2
    <3>2. opened' # <<>>
      BY <1>2, <3>1
    <3>3. QED  BY <1>2, <2>2, <3>1, <3>2
  <2>3. QED  BY <2>1, <2>2
<1>4. ASSUME NEW i \in 1..Len(All)
      PROVE  /\ All[i].opening \in Nat /\ All[i].line \in Nat /\ All[i].line <= lines
             /\ All[i].opening <= Len(opened)
             /\ (WillBeMatched(All[i].opening) <=> IsMatched(All[i].opening))
  <2>1. All[i] \in Alert
    BY <1>1
  <2>2. All[i].opening \in Nat /\ All[i].line \in Nat
    BY <2>1 DEF Alert
  <2>3. All[i].opening <= Len(opened) /\ All[i].line \in 1..lines
    BY DEF OrderInv
  <2>4. All[i].opening = 0 \/ All[i].opening \in 1..Len(opened)
    BY <1>2, <2>2, <2>3
  <2>5. WillBeMatched(All[i].opening) <=> IsMatched(All[i].opening)
    BY <1>2, <2>4 DEF WillBeMatched, IsMatched
  <2>6. lines \in Nat
    BY DEF TailTypeOK
  <2>7. QED  BY <2>2, <2>3, <2>5, <2>6
<1>5. ASSUME NEW i \in 1..Len(All), WillBeMatched(All[i].opening)
      PROVE  IF All[i].opening = Len(opened') THEN WillBeRead(All[i].line)
             ELSE WillBeAbsent(All[i].line, fd') /\ WillBeAbsent(All[i].line, path')
  <2>1. /\ All[i].opening \in Nat /\ All[i].line \in Nat /\ All[i].line <= lines
        /\ All[i].opening <= Len(opened)
    BY <1>4
  <2>2. fd \in Inodes
    <3>1. fd # None
      BY <1>1 DEF OrderInv
    <3>2. QED  BY <3>1 DEF TailTypeOK
  <2>3. IF All[i].opening = Len(opened) THEN IsRead(All[i].line)
        ELSE IsAbsent(All[i].line, fd) /\ IsAbsent(All[i].line, path)
    BY <1>4, <1>5 DEF ReplayInv
  <2>4. CASE opened' = opened /\ All[i].opening = Len(opened)
    BY <2>1, <2>2, <2>3, <2>4, ReadStays
  <2>5. CASE All[i].opening # Len(opened)
    <3>1. All[i].opening # Len(opened')
      BY <1>2, <2>1, <2>5
    <3>2. QED  BY <2>1, <2>2, <2>3, <2>5, <3>1, PastStays
  <2>6. CASE opened' # opened /\ All[i].opening = Len(opened)
    <3>1. IsReopened /\ All[i].opening # Len(opened')
      BY <1>2, <2>6
    <3>2. IsAbsent(All[i].line, path)
      BY <2>3, <2>6, <3>1 DEF IsReopened, IsRead
    <3>3. QED  BY <2>1, <2>2, <3>1, <3>2, PastStays
  <2>7. QED  BY <2>4, <2>5, <2>6
<1>6. CASE All' = All
  <2>1. \A i, j \in 1..Len(All') :
          i < j /\ All'[i].line = All'[j].line => ~WillBeMatched(All'[i].opening)
    BY <1>4, <1>6 DEF ReplayInv
  <2>2. \A i \in 1..Len(All') :
          WillBeMatched(All'[i].opening) =>
            IF All'[i].opening = Len(opened') THEN WillBeRead(All'[i].line)
            ELSE WillBeAbsent(All'[i].line, fd') /\ WillBeAbsent(All'[i].line, path')
    BY <1>5, <1>6
  <2>3. QED
    BY <1>3, <2>1, <2>2
       DEF ReplayInv, IsMatched, IsRead, IsAbsent, WillBeMatched, WillBeRead, WillBeAbsent
<1>7. CASE /\ IsLineRead /\ All' = Append(All, hand') /\ hand' \in Alert
           /\ IsTyped(files[fd][pos+1]) /\ hand'.line = files[fd][pos+1].line
           /\ hand'.opening = Len(opened)
  <2> DEFINE h == hand'
             n == Len(All)
             A == All'
  <2>1. /\ A \in Seq(Alert) /\ Len(A) = n + 1 /\ A[n+1] = h /\ n \in Nat
        /\ \A i \in 1..n : A[i] = All[i]
    BY <1>1, <1>7
  <2>2. /\ fd \in Inodes /\ fd' = fd /\ ino' = ino /\ opened' = opened
        /\ files' = files /\ path' = path /\ phase' # "open"
        /\ pos < pos' /\ pos' <= Len(files[fd]) /\ pos \in Nat /\ pos' \in Nat
        /\ Len(files[fd]) \in Nat
    <3>1. phase = "read" /\ phase' \in {"send", "read", "ended"}
      BY <1>7 DEF IsLineRead
    <3>2. fd \in Inodes /\ Len(files[fd]) \in Nat /\ pos \in Nat
      BY <1>7 DEF IsLineRead, TailTypeOK
    <3>3. /\ UNCHANGED <<files, path, fd, ino, opened>>
          /\ pos < pos' /\ pos' <= Len(files[fd]) /\ pos' \in Nat
      BY <1>7 DEF IsLineRead, fileVars
    <3>4. QED  BY <3>1, <3>2, <3>3
  <2>3. /\ pos + 1 \in 1..Len(files[fd]) /\ ~(pos + 1 <= pos) /\ pos + 1 <= pos'
        /\ h.opening \in Nat /\ h.line \in Nat
        /\ h.line = files[fd][pos+1].line /\ IsTyped(files[fd][pos+1])
    BY <1>7, <2>2 DEF Alert
  <2>4. ASSUME NEW i \in 1..n, All[i].line = h.line PROVE ~IsMatched(All[i].opening)
    <3>1. IsMatched(All[i].opening) =>
            IF All[i].opening = Len(opened) THEN IsRead(All[i].line)
            ELSE IsAbsent(All[i].line, fd) /\ IsAbsent(All[i].line, path)
      BY DEF ReplayInv
    <3>2. ~IsRead(h.line)
      BY <2>2, <2>3 DEF IsRead
    <3>3. ~IsAbsent(h.line, fd)
      <4>1. fd # None
        BY <2>2, AuditAssumption DEF Inodes, None
      <4>2. QED  BY <2>2, <2>3, <4>1 DEF IsAbsent
    <3>4. QED  BY <2>4, <3>1, <3>2, <3>3
  <2>5. IsMatched(h.opening) => WillBeRead(h.line)
    <3> SUFFICES ASSUME IsMatched(h.opening) PROVE WillBeRead(h.line)
      OBVIOUS
    <3>1. fd = ino
      <4>1. IF opened = <<>> THEN fd = ino
            ELSE opened[Len(opened)] = [file |-> fd, expected |-> ino]
        BY DEF ReplayInv
      <4>2. CASE opened = <<>>
        BY <4>1, <4>2
      <4>3. CASE opened # <<>>
        <5>1. h.opening # 0 /\ h.opening = Len(opened)
          BY <1>2, <1>7, <4>3
        <5>2. QED  BY <4>1, <4>3, <5>1 DEF IsMatched
      <4>4. QED  BY <4>2, <4>3
    <3>2. ASSUME NEW i \in Inodes, NEW k \in 1..Len(files[i]),
                 IsTyped(files[i][k]), files[i][k].line = h.line
          PROVE  i = fd /\ k <= pos'
      <4>1. i = fd
        BY <2>2, <2>3, <3>2 DEF FilesInv
      <4>2. ~(pos + 1 < k)
        BY <2>2, <2>3, <3>2, <4>1 DEF FilesInv
      <4>3. QED  BY <2>2, <2>3, <4>1, <4>2
    <3>3. QED  BY <2>2, <3>1, <3>2 DEF WillBeRead
  <2> HIDE DEF h, A
  <2>6. WillBeMatched(h.opening) <=> IsMatched(h.opening)
    BY <2>2 DEF WillBeMatched, IsMatched
  <2>7. \A i, j \in 1..Len(A) :
          i < j /\ A[i].line = A[j].line => ~WillBeMatched(A[i].opening)
    <3> SUFFICES ASSUME NEW i \in 1..Len(A), NEW j \in 1..Len(A), i < j, A[i].line = A[j].line
                 PROVE  ~WillBeMatched(A[i].opening)
      OBVIOUS
    <3>1. i \in 1..n /\ A[i] = All[i]
      BY <2>1
    <3>2. CASE j \in 1..n
      <4>1. A[j] = All[j]
        BY <2>1, <3>2
      <4>2. ~IsMatched(All[i].opening)
        BY <3>1, <3>2, <4>1 DEF ReplayInv
      <4>3. QED  BY <1>4, <3>1, <4>2
    <3>3. CASE j = n + 1
      <4>1. ~IsMatched(All[i].opening)
        BY <2>1, <2>4, <3>1, <3>3
      <4>2. QED  BY <1>4, <3>1, <4>1
    <3>4. QED  BY <2>1, <3>2, <3>3
  <2>8. \A i \in 1..Len(A) :
          WillBeMatched(A[i].opening) =>
            IF A[i].opening = Len(opened') THEN WillBeRead(A[i].line)
            ELSE WillBeAbsent(A[i].line, fd') /\ WillBeAbsent(A[i].line, path')
    <3> SUFFICES ASSUME NEW i \in 1..Len(A), WillBeMatched(A[i].opening)
                 PROVE  IF A[i].opening = Len(opened') THEN WillBeRead(A[i].line)
                        ELSE WillBeAbsent(A[i].line, fd') /\ WillBeAbsent(A[i].line, path')
      OBVIOUS
    <3>1. CASE i \in 1..n
      BY <1>5, <2>1, <3>1
    <3>2. CASE i = n + 1
      <4>1. A[i] = h /\ h.opening = Len(opened')
        BY <1>7, <2>1, <2>2, <3>2 DEF h
      <4>2. QED  BY <2>5, <2>6, <4>1
    <3>3. QED  BY <2>1, <3>1, <3>2
  <2>9. QED
    BY <1>3, <2>7, <2>8
       DEF ReplayInv, IsMatched, IsRead, IsAbsent, WillBeMatched, WillBeRead, WillBeAbsent, A
<1>8. QED  BY <1>6, <1>7, AlertsOf

-----------------------------------------------------------------------------
(* Lines that are missed *)

\* A line is what lies between the newline before it, or the beginning, and its own.
LEMMA TextIs ==
  ASSUME NEW F \in Seq(Piece), NEW p \in Nat, NEW k \in 1..Len(F), p < k,
         p = 0 \/ Ends(F[p]), \A n \in p+1..k-1 : ~Ends(F[n])
  PROVE  TextAt(F, k) = Fields(SubSeq(F, p + 1, k - 1))
<1> DEFINE S == {m \in 1..k : \A n \in m..k-1 : F[n].field # Newline}
<1>1. p + 1 \in S
  BY DEF Ends
<1>2. ASSUME NEW m \in S PROVE p + 1 <= m
  <2>1. m \in 1..k /\ \A n \in m..k-1 : ~Ends(F[n])
    BY DEF Ends
  <2>2. SUFFICES ASSUME m <= p PROVE FALSE
    BY <2>1
  <2>3. p \in m..k-1 /\ p # 0
    BY <2>1, <2>2
  <2>4. QED  BY <2>1, <2>3
<1>3. S \subseteq Nat
  OBVIOUS
<1> HIDE DEF S
<1>4. Min(S) = p + 1
  <2>1. Min(S) \in S /\ \A y \in S : Min(S) <= y
    BY <1>1, <1>3, MinExists
  <2>2. Min(S) <= p + 1 /\ p + 1 <= Min(S)
    BY <1>1, <1>2, <2>1
  <2>3. Min(S) \in Nat
    BY <1>3, <2>1
  <2>4. QED  BY <2>2, <2>3
<1>5. QED  BY <1>4 DEF TextAt, S

\* It does not depend on what comes after it.
LEMMA TextStays ==
  ASSUME NEW F \in Seq(Piece), NEW G \in Seq(Piece), NEW k \in 1..Len(F), k <= Len(G),
         \A m \in 1..k : G[m] = F[m]
  PROVE  TextAt(G, k) = TextAt(F, k)
<1> DEFINE S == {m \in 1..k : \A n \in m..k-1 : F[n].field # Newline}
           T == {m \in 1..k : \A n \in m..k-1 : G[n].field # Newline}
<1>1. S = T
  <2>1. \A m \in 1..k : \A n \in m..k-1 : G[n] = F[n]
    OBVIOUS
  <2>2. QED  BY <2>1
<1>2. k \in S /\ S \subseteq Nat
  OBVIOUS
<1> HIDE DEF S, T
<1>3. Min(S) \in S
  BY <1>2, MinExists
<1>4. Min(S) \in 1..k
  BY <1>3 DEF S
<1>5. SubSeq(G, Min(S), k - 1) = SubSeq(F, Min(S), k - 1)
  <2> DEFINE a == Min(S)
             U == SubSeq(F, a, k - 1)
             V == SubSeq(G, a, k - 1)
  <2>1. a \in 1..k
    BY <1>4
  <2> HIDE DEF a
  <2>2. /\ U \in Seq(Piece) /\ Len(U) = k - a
        /\ \A m \in 1..k-a : U[m] = F[a + m - 1]
    BY <2>1
  <2>3. /\ V \in Seq(Piece) /\ Len(V) = k - a
        /\ \A m \in 1..k-a : V[m] = G[a + m - 1]
    BY <2>1
  <2>4. \A m \in 1..k-a : a + m - 1 \in 1..k
    BY <2>1
  <2> HIDE DEF U, V
  <2>5. U = V
    BY <2>2, <2>3, <2>4, SeqEqual
  <2>6. QED  BY <2>5 DEF U, V, a
<1>6. QED  BY <1>1, <1>5 DEF TextAt, S, T

\* IsTold and IsDue after the step.
WillBeTold(n) == \E a \in 1..Len(All') : All'[a].line = n

WillBeDue(i, k) ==
  /\ Ends(files'[i][k])
  /\ files'[i][k].line > history'.since /\ files'[i][k].line \notin history'.torn
  /\ SeverityOf(TextAt(files'[i], k)) # NoSeverity

\* A line that was told of stays told of.
LEMMA ToldStays ==
  ASSUME TailTypeOK, FilesInv, [Next]_vars, NEW n, IsTold(n)
  PROVE  WillBeTold(n)
<1>1. All \in Seq(Alert) /\ (All' = All \/ (All' = Append(All, hand') /\ hand' \in Alert))
  BY AlertsOf
<1>2. CASE All' = All
  BY <1>2 DEF IsTold, WillBeTold
<1>3. CASE All' = Append(All, hand') /\ hand' \in Alert
  <2> DEFINE h == hand'
             A == All'
  <2>1. Len(A) = Len(All) + 1 /\ Len(All) \in Nat /\ \A a \in 1..Len(All) : A[a] = All[a]
    <3>1. A = Append(All, h) /\ h \in Alert
      BY <1>3
    <3> HIDE DEF A, h
    <3>2. QED  BY <1>1, <3>1
  <2>2. PICK a \in 1..Len(All) : All[a].line = n
    BY DEF IsTold
  <2>3. a \in 1..Len(A) /\ A[a].line = n
    BY <2>1, <2>2
  <2>4. QED  BY <2>3 DEF WillBeTold
<1>4. QED  BY <1>1, <1>2, <1>3

\* What was read in a file that only grows stays as it was dealt with.
LEMMA DealtWith ==
  ASSUME TailTypeOK, TailTypeOK', FilesInv, MissInv, [Next]_vars,
         phase' # "ended", phase # "ended",
         history'.since = history.since, history.torn \subseteq history'.torn,
         NEW i \in Inodes \ history.emptied, NEW k \in 1..ReadOf(i),
         Len(files[i]) <= Len(files'[i]),
         \A m \in 1..Len(files[i]) : files'[i][m] = files[i][m],
         WillBeDue(i, k)
  PROVE  WillBeTold(files'[i][k].line)
<1>1. /\ files[i] \in Seq(Piece) /\ files'[i] \in Seq(Piece) /\ Len(files[i]) \in Nat
      /\ Len(files'[i]) \in Nat
  <2>1. files \in [Inodes -> Seq(Piece)]
    BY DEF TailTypeOK
  <2>2. files' \in [Inodes -> Seq(Piece)]
    BY DEF TailTypeOK
  <2>3. QED  BY <2>1, <2>2
<1>2. ReadOf(i) \in Nat /\ ReadOf(i) <= Len(files[i])
  <2>1. pos \in Nat /\ history.left[i] \in Nat
    BY DEF TailTypeOK, Told
  <2>2. ReadOf(i) \in Nat
    BY <2>1 DEF ReadOf
  <2>3. ReadOf(i) <= Len(files[i])
    BY DEF MissInv
  <2>4. QED  BY <2>2, <2>3
<1>3. k \in 1..Len(files[i]) /\ files'[i][k] = files[i][k]
  BY <1>1, <1>2
<1>4. TextAt(files'[i], k) = TextAt(files[i], k)
  <2>1. k <= Len(files'[i]) /\ \A m \in 1..k : files'[i][m] = files[i][m]
    BY <1>1, <1>3
  <2>2. QED  BY <1>1, <1>3, <2>1, TextStays
<1>5. IsDue(i, k)
  BY <1>3, <1>4 DEF IsDue, WillBeDue, Ends
<1>6. IsTold(files[i][k].line)
  BY <1>5 DEF MissInv
<1>7. QED  BY <1>3, <1>6, ToldStays

\* Pieces without a newline between them are of one line.
LEMMA OneLine ==
  ASSUME TailTypeOK, FilesInv, NEW i \in Inodes,
         NEW a \in 1..Len(files[i]), NEW b \in 1..Len(files[i]), a <= b,
         \A n \in a..b-1 : ~Ends(files[i][n])
  PROVE  files[i][a].line = files[i][b].line
<1>1. files[i][a].line \in Nat /\ files[i][b].line \in Nat
  <2>1. files[i] \in Seq(Piece)
    BY DEF TailTypeOK
  <2>2. files[i][a] \in Piece /\ files[i][b] \in Piece
    BY <2>1
  <2>3. QED  BY <2>2 DEF Piece
<1>2. a < b => /\ files[i][a].line <= files[i][b].line
               /\ files[i][a].line < files[i][b].line => \E n \in a..b-1 : Ends(files[i][n])
  BY DEF FilesInv
<1>3. CASE a < b
  BY <1>1, <1>2, <1>3
<1>4. CASE a = b
  BY <1>4
<1>5. Len(files[i]) \in Nat
  BY DEF TailTypeOK
<1>6. QED  BY <1>3, <1>4, <1>5

\* The first newline of a stretch is the last place of it.
LEMMA LastPlace ==
  ASSUME NEW p \in Nat, NEW q \in Nat, NEW k \in p+1..q, ~(k \in p+1..q-1)
  PROVE  k = q
OBVIOUS

\* The places from p to q are p and those after it.
LEMMA Places ==
  ASSUME NEW p \in Nat, NEW q \in Nat
  PROVE  \A n \in p..q-1 : n = p \/ n \in p+1..q-1
OBVIOUS

\* A line that is read to its end is told of, unless it was begun before or in parts.
LEMMA ReadIsTold ==
  ASSUME TailTypeOK, TailTypeOK', FilesInv, MissInv, [Next]_vars, IsLineRead,
         phase' # "ended", fd \notin history.emptied,
         NEW q \in Nat, q = pos', NEW k \in pos+1..q, WillBeDue(fd, k)
  PROVE  WillBeTold(files'[fd][k].line)
<1> DEFINE F == files[fd]
<1>1. /\ fd \in Inodes /\ F \in Seq(Piece) /\ Len(F) \in Nat /\ pos \in Nat
      /\ pos < q /\ q <= Len(F) /\ files' = files
      /\ \A n \in pos+1..q-1 : ~Ends(F[n])
  BY DEF IsLineRead, TailTypeOK, fileVars
<1>2. k = q /\ Ends(F[q]) /\ q \in 1..Len(F)
  <2>1. Ends(F[k])
    BY <1>1 DEF WillBeDue
  <2>3. ~(k \in pos+1..q-1)
    BY <1>1, <2>1
  <2>4. k = q
    BY <1>1, <2>3, LastPlace
  <2>5. QED  BY <1>1, <2>1, <2>4
<1>3. /\ F[q].line > history'.since /\ F[q].line \notin history'.torn
      /\ SeverityOf(TextAt(F, q)) # NoSeverity
  BY <1>1, <1>2 DEF WillBeDue
<1>4. CASE pos > 0 /\ ~Ends(F[pos])
  <2>1. F[pos].line \in history.torn \/ F[pos].line <= history.since
    BY <1>1, <1>4 DEF MissInv
  <2>2. F[pos].line \in history'.torn \/ F[pos].line <= history'.since
    BY <1>1, <1>2, <2>1 DEF IsLineRead, TailTypeOK, Told
  <2>3. pos \in 1..Len(F) /\ pos < q
    BY <1>1, <1>4
  <2>4. \A n \in pos..q-1 : ~Ends(F[n])
    <3>1. \A n \in pos..q-1 : n = pos \/ n \in pos+1..q-1
      BY <1>1, Places
    <3>2. QED  BY <1>1, <1>4, <3>1
  <2>5. pos <= q
    BY <1>1
  <2>6. F[pos].line = F[q].line
    BY <1>1, <1>2, <2>3, <2>4, <2>5, OneLine
  <2>7. history'.since \in Nat
    BY DEF TailTypeOK, Told
  <2>8. F[q].line \in Nat
    <3>1. F[q] \in Piece
      BY <1>1, <1>2
    <3>2. QED  BY <3>1 DEF Piece
  <2>9. QED  BY <1>3, <2>2, <2>6, <2>7, <2>8
<1>5. CASE pos = 0 \/ Ends(F[pos])
  <2>1. TextAt(F, q) = Fields(SubSeq(F, pos + 1, q - 1))
    BY <1>1, <1>2, <1>5, TextIs
  <2>2. phase' = "send" /\ hand' \in Alert /\ hand'.line = F[pos+1].line
    BY <1>2, <1>3, <2>1 DEF IsLineRead
  <2>3. F[pos+1].line = F[q].line
    <3>1. pos + 1 \in 1..Len(F) /\ pos + 1 <= q
      BY <1>1
    <3>2. QED  BY <1>1, <1>2, <3>1, OneLine
  <2>4. All' = Append(out, hand') /\ out \in Seq(Alert)
    BY <2>2 DEF All, IsLineRead, TailTypeOK
  <2> DEFINE h == hand'
             A == All'
  <2>5. Len(A) \in Nat /\ Len(A) = Len(out) + 1 /\ A[Len(A)] = h
    <3>1. A = Append(out, h) /\ h \in Alert /\ out \in Seq(Alert)
      BY <2>2, <2>4
    <3> HIDE DEF A, h
    <3>2. QED  BY <3>1
  <2>6. Len(A) \in 1..Len(A)
    <3>1. Len(out) \in Nat
      BY <2>4
    <3> HIDE DEF A
    <3>2. QED  BY <2>5, <3>1
  <2>7. A[Len(A)].line = files'[fd][k].line
    BY <1>1, <1>2, <2>2, <2>3, <2>5
  <2>8. QED  BY <2>6, <2>7 DEF WillBeTold
<1>6. QED  BY <1>1, <1>4, <1>5

\* MissInv after the step, in parts.
ReadAfter(i) == IF i = fd' THEN pos' ELSE history'.left[i]

AllTold ==
  phase' # "ended" =>
    \A i \in Inodes \ history'.emptied : \A k \in 1..ReadAfter(i) :
      WillBeDue(i, k) => WillBeTold(files'[i][k].line)

NonePastEnd == \A i \in Inodes \ history'.emptied : ReadAfter(i) <= Len(files'[i])

PartsKnown ==
  fd' \in Inodes \ history'.emptied /\ pos' > 0 /\ ~Ends(files'[fd'][pos']) =>
    files'[fd'][pos'].line \in history'.torn \/ files'[fd'][pos'].line <= history'.since

\* Every step keeps each due line that was read told of.
LEMMA MissStep == TailTypeOK /\ FilesInv /\ MissInv /\ [Next]_vars => MissInv'
<1> SUFFICES ASSUME TailTypeOK, FilesInv, MissInv, [Next]_vars
             PROVE  AllTold /\ NonePastEnd /\ PartsKnown
  BY DEF MissInv, IsTold, IsDue, Ends, ReadOf, AllTold, NonePastEnd, PartsKnown, WillBeTold,
         WillBeDue, ReadAfter
<1>1. TailTypeOK' /\ FilesInv'
  BY TypeStep, FilesStep
<1>2. /\ \A i \in Inodes : /\ files[i] \in Seq(Piece) /\ Len(files[i]) \in Nat
                           /\ files'[i] \in Seq(Piece) /\ Len(files'[i]) \in Nat
      /\ pos \in Nat /\ pos' \in Nat /\ fd \in {None} \cup Inodes /\ None \notin Inodes
      /\ history \in Told /\ history' \in Told /\ path \in {None} \cup Inodes
      /\ phase = "start" => fd = None
  <2>1. None \notin Inodes
    BY AuditAssumption DEF Inodes, None
  <2>2. \A i \in Inodes : files[i] \in Seq(Piece) /\ Len(files[i]) \in Nat
    BY DEF TailTypeOK
  <2>3. \A i \in Inodes : files'[i] \in Seq(Piece) /\ Len(files'[i]) \in Nat
    BY <1>1 DEF TailTypeOK
  <2>4. pos' \in Nat /\ history' \in Told
    BY <1>1 DEF TailTypeOK
  <2>5. QED  BY <2>1, <2>2, <2>3, <2>4 DEF TailTypeOK
<1>3. \A i \in Inodes \ history.emptied : ReadOf(i) <= Len(files[i]) /\ ReadOf(i) \in Nat
  BY <1>2 DEF MissInv, ReadOf, Told
<1>4. fd \in Inodes \ history.emptied /\ pos > 0 /\ ~Ends(files[fd][pos]) =>
        files[fd][pos].line \in history.torn \/ files[fd][pos].line <= history.since
  BY DEF MissInv
<1>5. ASSUME phase = "ended" => phase' = "ended",
             history'.since = history.since, history.torn \subseteq history'.torn,
             history.emptied \subseteq history'.emptied,
             \A i \in Inodes \ history'.emptied :
               /\ ReadAfter(i) \in {0, ReadOf(i)}
               /\ Len(files[i]) <= Len(files'[i])
               /\ \A m \in 1..Len(files[i]) : files'[i][m] = files[i][m]
      PROVE  AllTold /\ NonePastEnd
  <2>1. AllTold
    <3> SUFFICES ASSUME phase' # "ended", NEW i \in Inodes \ history'.emptied,
                        NEW k \in 1..ReadAfter(i), WillBeDue(i, k)
                 PROVE  WillBeTold(files'[i][k].line)
      BY DEF AllTold
    <3>1. k \in 1..ReadOf(i) /\ i \in Inodes \ history.emptied
      BY <1>3, <1>5
    <3>2. QED  BY <1>1, <1>5, <3>1, DealtWith
  <2>2. NonePastEnd
    <3> SUFFICES ASSUME NEW i \in Inodes \ history'.emptied
                 PROVE  ReadAfter(i) <= Len(files'[i])
      BY DEF NonePastEnd
    <3>1. /\ ReadAfter(i) \in {0, ReadOf(i)} /\ Len(files[i]) <= Len(files'[i])
          /\ ReadOf(i) <= Len(files[i]) /\ ReadOf(i) \in Nat
      BY <1>3, <1>5
    <3>2. QED  BY <1>2, <3>1
  <2>3. QED  BY <2>1, <2>2
<1>6. CASE IsWritten /\ UNCHANGED <<tailVars, history>>
  <2>1. /\ fd' = fd /\ pos' = pos /\ phase' = phase /\ history' = history
        /\ \A i \in Inodes : /\ Len(files[i]) <= Len(files'[i])
                             /\ \A m \in 1..Len(files[i]) : files'[i][m] = files[i][m]
    BY <1>6, NothingRemoved DEF tailVars
  <2>2. \A i \in Inodes : ReadAfter(i) = ReadOf(i)
    BY <2>1 DEF ReadAfter, ReadOf
  <2>3. AllTold /\ NonePastEnd
    BY <1>5, <2>1, <2>2
  <2>4. PartsKnown
    <3> SUFFICES ASSUME fd \in Inodes \ history.emptied, pos > 0, ~Ends(files'[fd][pos])
                 PROVE  \/ files'[fd][pos].line \in history.torn
                        \/ files'[fd][pos].line <= history.since
      BY <2>1 DEF PartsKnown
    <3>1. pos \in 1..Len(files[fd])
      BY <1>2, <1>3 DEF ReadOf
    <3>2. files'[fd][pos] = files[fd][pos]
      BY <2>1, <3>1
    <3>3. QED  BY <1>4, <3>2
  <2>5. QED  BY <2>3, <2>4
<1>7. CASE IsRotated
  <2>1. UNCHANGED <<files, fd, pos, phase, history>>
    BY <1>7 DEF IsRotated, tailVars
  <2>2. \A i \in Inodes : ReadAfter(i) = ReadOf(i)
    BY <2>1 DEF ReadAfter, ReadOf
  <2>3. AllTold /\ NonePastEnd
    BY <1>2, <1>5, <2>1, <2>2
  <2>4. PartsKnown
    BY <1>4, <2>1 DEF PartsKnown
  <2>5. QED  BY <2>3, <2>4
<1>8. CASE IsEmptied
  <2>1. /\ UNCHANGED <<fd, pos, phase>> /\ path \in Inodes
        /\ \A i \in Inodes : i # path => files'[i] = files[i]
    BY <1>8 DEF IsEmptied, tailVars, TailTypeOK
  <2>2. /\ history'.since = history.since /\ history'.torn = history.torn
        /\ history'.left = history.left
        /\ history'.emptied = history.emptied \cup {path}
    BY <1>2, <1>8 DEF IsEmptied, Told
  <2>3. \A i \in Inodes : ReadAfter(i) = ReadOf(i)
    BY <2>1, <2>2 DEF ReadAfter, ReadOf
  <2>4. AllTold /\ NonePastEnd
    BY <1>2, <1>5, <2>1, <2>2, <2>3
  <2>5. PartsKnown
    BY <1>4, <2>1, <2>2 DEF PartsKnown
  <2>6. QED  BY <2>4, <2>5
<1>9. CASE IsStarted
  <2>1. /\ fd = None /\ fd' = path /\ path \in Inodes /\ pos' = Len(files[path])
        /\ UNCHANGED <<files, lines>>
    BY <1>9 DEF IsStarted, fileVars
  <2>2. /\ history'.since = lines /\ history'.left = history.left
        /\ history'.emptied = history.emptied
    BY <1>2, <1>9 DEF IsStarted, Told
  <2>3. \A i \in Inodes : \A k \in 1..Len(files[i]) : files[i][k].line <= lines
    <3>1. \A i \in Inodes : \A k \in 1..Len(files[i]) : files[i][k].line \in 1..lines
      BY DEF FilesInv
    <3>2. lines \in Nat
      BY DEF TailTypeOK
    <3>3. QED  BY <3>1, <3>2
  <2>4. \A i \in Inodes \ history.emptied : ReadAfter(i) <= Len(files[i])
    BY <1>2, <1>3, <2>1, <2>2 DEF ReadAfter, ReadOf
  <2>5. NonePastEnd
    BY <2>1, <2>2, <2>4 DEF NonePastEnd
  <2>6. AllTold
    <3> SUFFICES ASSUME NEW i \in Inodes \ history.emptied, NEW k \in 1..ReadAfter(i)
                 PROVE  ~WillBeDue(i, k)
      BY <2>2 DEF AllTold
    <3>1. ReadAfter(i) \in Nat
      BY <1>2 DEF ReadAfter, Told
    <3>2. k \in 1..Len(files[i])
      BY <1>2, <2>4, <3>1
    <3>3. files'[i][k].line <= lines /\ files'[i][k].line \in 1..lines /\ lines \in Nat
      BY <2>1, <2>3, <3>2 DEF FilesInv, TailTypeOK
    <3>4. QED  BY <2>2, <3>3 DEF WillBeDue
  <2>7. PartsKnown
    <3> SUFFICES ASSUME pos' > 0 PROVE files'[fd'][pos'].line <= history'.since
      BY DEF PartsKnown
    <3>1. pos' \in 1..Len(files[path])
      BY <1>2, <2>1
    <3>2. QED  BY <2>1, <2>2, <2>3, <3>1
  <2>8. QED  BY <2>5, <2>6, <2>7
<1>10. CASE IsLineRead
  <2> DEFINE q == pos'
  <2>1. /\ phase = "read" /\ fd' = fd /\ fd \in Inodes /\ files' = files
        /\ pos < q /\ q <= Len(files[fd]) /\ q \in Nat
    BY <1>10 DEF IsLineRead, fileVars
  <2>2. /\ history'.since = history.since /\ history'.left = history.left
        /\ history'.emptied = history.emptied /\ history.torn \subseteq history'.torn
        /\ ~Ends(files[fd][q]) => files[fd][q].line \in history'.torn
    BY <1>2, <1>10 DEF IsLineRead, Told
  <2>3. \A i \in Inodes : ReadAfter(i) = IF i = fd THEN q ELSE ReadOf(i)
    BY <2>1, <2>2 DEF ReadAfter, ReadOf
  <2>4. NonePastEnd
    BY <1>3, <2>1, <2>2, <2>3 DEF NonePastEnd
  <2>5. PartsKnown
    BY <2>1, <2>2 DEF PartsKnown
  <2>6. AllTold
    <3> SUFFICES ASSUME phase' # "ended", NEW i \in Inodes \ history.emptied,
                        NEW k \in 1..ReadAfter(i), WillBeDue(i, k)
                 PROVE  WillBeTold(files'[i][k].line)
      BY <2>2 DEF AllTold
    <3>1. CASE k \in 1..ReadOf(i)
      BY <1>1, <1>2, <2>1, <2>2, <3>1, DealtWith
    <3>2. CASE i = fd /\ k \in pos+1..q
      <4>1. ASSUME NEW r \in Nat, r = pos', k \in pos+1..r
            PROVE  WillBeTold(files'[fd][k].line)
        BY <1>1, <1>10, <3>2, <4>1, ReadIsTold
      <4>2. QED  BY <2>1, <3>2, <4>1
    <3>3. QED
      <4>1. CASE i # fd
        BY <2>3, <3>1, <4>1
      <4>2. CASE i = fd
        <5>1. ReadOf(i) = pos /\ ReadAfter(i) = q
          BY <2>3, <4>2 DEF ReadOf
        <5>2. k \in 1..pos \/ k \in pos+1..q
          BY <1>2, <2>1, <5>1
        <5>3. QED  BY <3>1, <3>2, <4>2, <5>1, <5>2
      <4>3. QED  BY <4>1, <4>2
  <2>7. QED  BY <2>4, <2>5, <2>6
<1>11. CASE IsReopened
  <2>1. /\ phase = "open" /\ fd' = path /\ fd \in Inodes /\ path \in Inodes
        /\ pos' = 0 /\ files' = files
    BY <1>11 DEF IsReopened, fileVars
  <2>2. /\ history'.since = history.since /\ history'.torn = history.torn
        /\ history'.left = [history.left EXCEPT ![fd] = pos]
        /\ history'.emptied = history.emptied
    BY <1>2, <1>11 DEF IsReopened, Told
  <2>3. \A i \in Inodes : ReadAfter(i) = IF i = path THEN 0 ELSE ReadOf(i)
    BY <1>2, <2>1, <2>2 DEF ReadAfter, ReadOf, Told
  <2>4. AllTold /\ NonePastEnd
    BY <1>2, <1>5, <2>1, <2>2, <2>3
  <2>5. PartsKnown
    BY <2>1 DEF PartsKnown
  <2>6. QED  BY <2>4, <2>5
<1>12. CASE IsIdle
  <2>1. /\ UNCHANGED <<files, fd, pos>> /\ (phase = "ended" => phase' = "ended")
        /\ history'.left = history.left /\ history'.emptied = history.emptied
        /\ (phase' = "ended" /\ fd = None) \/ history' = history
    BY <1>12 DEF IsIdle, fileVars
  <2>2. \A i \in Inodes : ReadAfter(i) = ReadOf(i)
    BY <2>1 DEF ReadAfter, ReadOf
  <2>3. CASE history' = history
    <3>1. AllTold /\ NonePastEnd
      BY <1>2, <1>5, <2>1, <2>2, <2>3
    <3>2. PartsKnown
      BY <1>4, <2>1, <2>3 DEF PartsKnown
    <3>3. QED  BY <3>1, <3>2
  <2>4. CASE phase' = "ended" /\ fd = None
    <3>1. AllTold
      BY <2>4 DEF AllTold
    <3>2. NonePastEnd
      BY <1>3, <2>1, <2>2 DEF NonePastEnd
    <3>3. PartsKnown
      BY <1>2, <2>1, <2>4 DEF PartsKnown
    <3>4. QED  BY <3>1, <3>2, <3>3
  <2>5. QED  BY <2>1, <2>3, <2>4
<1>13. QED  BY <1>6, <1>7, <1>8, <1>9, <1>10, <1>11, <1>12, StepIs
-----------------------------------------------------------------------------
(* Theorems *)

\* The monitor starts with every part of the invariant true.
LEMMA InitHolds == Init => TailTypeOK /\ FilesInv /\ OrderInv /\ ReplayInv /\ MissInv
<1> SUFFICES ASSUME Init PROVE TailTypeOK /\ FilesInv /\ OrderInv /\ ReplayInv /\ MissInv
  OBVIOUS
<1>1. 1 \in Inodes /\ None \notin Inodes
  BY AuditAssumption DEF Inodes, None
<1>2. history \in Told /\ history.emptied = {} /\ history.left = [i \in Inodes |-> 0]
  BY DEF Init, Told
<1>3. TailTypeOK
  <2>1. path = None => made < MaxInodes
    BY DEF Init, None
  <2>2. QED  BY <1>1, <1>2, <2>1 DEF Init, TailTypeOK, None
<1>4. FilesInv
  BY DEF Init, FilesInv
<1>5. All = <<>>
  BY DEF Init, All
<1>6. OrderInv
  BY <1>5 DEF OrderInv
<1>7. ReplayInv
  BY <1>5 DEF ReplayInv, Init
<1>8. MissInv
  <2>1. \A i \in Inodes : ReadOf(i) = 0 /\ files[i] = <<>>
    BY <1>2 DEF Init, ReadOf
  <2>2. QED  BY <1>1, <2>1 DEF MissInv, Init
<1>9. QED  BY <1>3, <1>4, <1>6, <1>7, <1>8

\* The files and the state of the monitor keep their types.
THEOREM TypeCorrect == Spec => []TailTypeOK
BY InitHolds, TypeStep, FilesStep, PTL DEF Spec

\* The types and the facts on the files hold in every reachable state.
LEMMA FilesHold == Spec => [](TailTypeOK /\ FilesInv)
BY InitHolds, TypeStep, FilesStep, PTL DEF Spec

\* The alerts that were sent are the first of all that the monitor made.
LEMMA OutInAll ==
  ASSUME TailTypeOK, NEW i \in 1..Len(out)
  PROVE  i \in 1..Len(All) /\ All[i] = out[i] /\ out[i] \in Alert
<1>1. out \in Seq(Alert)
  BY DEF TailTypeOK
<1>2. CASE phase = "send"
  <2>1. All = Append(out, hand) /\ hand \in Alert
    BY <1>2 DEF All, TailTypeOK
  <2>2. QED  BY <1>1, <2>1
<1>3. CASE phase # "send"
  BY <1>1, <1>3 DEF All
<1>4. QED  BY <1>2, <1>3

\* As long as the monitor has one file open, its alerts are in the order of the lines
\* and no line gives two, in every reachable state.
THEOREM AlertsAreInOrder == Spec => []InOrder
<1>1. TailTypeOK /\ OrderInv => InOrder
  <2> SUFFICES ASSUME TailTypeOK, OrderInv, NEW i \in 1..Len(out), NEW j \in 1..Len(out)
               PROVE  /\ i < j => out[i].opening <= out[j].opening
                      /\ i < j /\ out[i].opening = out[j].opening => out[i].line < out[j].line
    BY DEF InOrder
  <2>1. i \in 1..Len(All) /\ All[i] = out[i] /\ j \in 1..Len(All) /\ All[j] = out[j]
    BY OutInAll
  <2>2. QED  BY <2>1 DEF OrderInv
<1>2. QED  BY <1>1, InitHolds, FilesHold, OrderStep, PTL DEF Spec

\* A line gives a second alert only when the path named another file at the opening
\* than at the look before it, in every reachable state.
THEOREM ReplaysAreExplained == Spec => []ReplayExplained
<1>1. TailTypeOK /\ ReplayInv => ReplayExplained
  <2> SUFFICES ASSUME TailTypeOK, ReplayInv, NEW i \in 1..Len(out), NEW j \in 1..Len(out),
                      i < j, out[i].line = out[j].line
               PROVE  /\ out[i].opening > 0
                      /\ opened[out[i].opening].file # opened[out[i].opening].expected
    BY DEF ReplayExplained
  <2>1. /\ i \in 1..Len(All) /\ All[i] = out[i] /\ j \in 1..Len(All) /\ All[j] = out[j]
        /\ out[i] \in Alert
    BY OutInAll
  <2>2. ~IsMatched(out[i].opening)
    BY <2>1 DEF ReplayInv
  <2>3. out[i].opening \in Nat
    BY <2>1 DEF Alert
  <2>4. QED  BY <2>2, <2>3 DEF IsMatched
<1>2. QED
  BY <1>1, InitHolds, FilesHold, OrderStep, ReplayStep, PTL DEF Spec

\* Every line begun after the start that is worth an alert has it or is still to be
\* read, unless it was read in parts, was written to a file after the last read of it,
\* or is of a file that was emptied or never opened, in every reachable state.
THEOREM NoneIsMissed == Spec => []NothingMissed
<1>1. TailTypeOK /\ MissInv => NothingMissed
  <2> SUFFICES ASSUME TailTypeOK, MissInv PROVE NothingMissed
    OBVIOUS
  <2>1. history.left \in [Inodes -> Nat] /\ pos \in Nat
    BY DEF TailTypeOK, Told
  <2> SUFFICES ASSUME phase # "ended",
                      NEW i \in Inodes \ history.emptied, NEW k \in 1..Len(files[i]),
                      IsDue(i, k), k <= ReadOf(i)
               PROVE  \/ files[i][k].line = hand.line
                      \/ \E n \in 1..Len(out) : out[n].line = files[i][k].line
    BY <2>1 DEF NothingMissed, ReadOf
  <2>2. k \in 1..ReadOf(i)
    BY <2>1 DEF ReadOf
  <2>3. PICK a \in 1..Len(All) : All[a].line = files[i][k].line
    BY <2>2 DEF MissInv, IsTold
  <2>4. CASE phase # "send"
    BY <2>3, <2>4 DEF All
  <2>5. CASE phase = "send"
    <3>1. All = Append(out, hand) /\ hand \in Alert /\ out \in Seq(Alert)
      BY <2>5 DEF All, TailTypeOK
    <3>2. (a \in 1..Len(out) /\ All[a] = out[a]) \/ All[a] = hand
      BY <3>1
    <3>3. QED  BY <2>3, <3>2
  <2>6. QED  BY <2>4, <2>5
<1>2. QED  BY <1>1, InitHolds, FilesHold, MissStep, PTL DEF Spec
=============================================================================
