------------------------------ MODULE GuiProofs ------------------------------
(***************************************************************************)
(* Theorems about the daemon with its graphical interface, for every       *)
(* capacity and limit and whatever stops on the way: the interface is a    *)
(* client like any other, it puts no alert on the desktop twice, its light *)
(* tells the truth, the panel of details shows the alert of the row, and   *)
(* the list misses nothing that follows the snapshot and shows nothing     *)
(* twice but what came in the snapshot and then live.                      *)
(***************************************************************************)
EXTENDS Gui, IpcServerProofs, WellFoundedInduction

-----------------------------------------------------------------------------
(* The interface is a client *)

\* A step of the system is one of the daemon and its clients, or none of theirs.
LEMMA ServerStep == [Next]_allVars => [ServerNext]_vars
<1>1. /\ TheGui \in Clients
      /\ [kind |-> "subscribe"] \in Request
      /\ [kind |-> "get_recent", limit |-> GuiLimit] \in Request
  BY GuiAssumption DEF Request
<1>2. GuiConnect \/ GuiAsks \/ GuiAskFails \/ GuiReads \/ GuiHangup \/ GuiCloneFails
        => [ServerNext]_vars
  BY <1>1 DEF GuiConnect, GuiAsks, GuiAskFails, GuiReads, GuiHangup, GuiCloneFails,
       ServerNext, ClientStep
<1>3. GuiRefused \/ GuiWakes \/ DrainEvents => UNCHANGED vars
  BY DEF GuiRefused, GuiWakes, DrainEvents
<1>4. QED  BY <1>2, <1>3 DEF Next, GuiThread, ServerNext, allVars

\* The thread of the interface does nothing on the socket that a client of the server
\* may not do: what is proved of the sessions of all clients holds of its own.
THEOREM GuiIsAClient == Spec => ServerSpec
<1>1. Init => PipeInit /\ IpcInit
  BY DEF Init
<1>2. QED  BY <1>1, ServerStep, PTL DEF Spec, ServerSpec

-----------------------------------------------------------------------------
(* Alerts on their way have tags of their own *)

\* A step that adds nothing to the path and takes nothing from it.
IsCarried ==
  /\ Len(Path') = Len(Path)
  /\ \A i \in 1..Len(Path) : Path'[i].tag = Path[i].tag /\ Path'[i].ts = Path[i].ts
  /\ UNCHANGED <<pending, raised>> /\ Len(feed) <= Len(feed')

IsRaised(m) ==
  /\ Path' = Path /\ UNCHANGED feed
  /\ raised' = raised + 1 /\ pending'[m].tag = raised + 1 /\ pending'[m].ts = now
  /\ \A k \in Monitors \ {m} : pending'[k] = pending[k]

IsEntered(m) ==
  /\ Path' = Append(Path, pending[m]) /\ UNCHANGED <<feed, raised>>
  /\ pending[m] # NoAlert /\ pending'[m] = NoAlert
  /\ \A k \in Monitors \ {m} : pending'[k] = pending[k]

\* All that is on its way is lost.
IsLost == Path' = <<>> /\ raised' = raised /\ \A m \in Monitors : pending'[m] = NoAlert

\* Every step of the pipeline, by what it does to the alerts on their way.
LEMMA PathSteps ==
  ASSUME TypeOK, [PipeNext]_pipeVars
  PROVE  IsCarried \/ (\E m \in Monitors : IsRaised(m) \/ IsEntered(m)) \/ IsLost
<1>1. CASE UNCHANGED <<feed, hand, queue, pending, raised>>
  BY <1>1 DEF IsCarried, Path, TypeOK
<1>2. ASSUME NEW m \in Monitors, Raise(m) PROVE IsRaised(m)
  BY <1>2 DEF Raise, IsRaised, Path, TypeOK
<1>3. ASSUME NEW m \in Monitors, Enqueue(m) PROVE IsEntered(m)
  <2>1. pending' = [pending EXCEPT ![m] = NoAlert] /\ UNCHANGED <<feed, raised>>
        /\ pending[m] # NoAlert
    BY <1>3 DEF Enqueue
  <2>2. QED  BY <1>3, <2>1, EnqueuePath DEF IsEntered, TypeOK
<1>4. CASE Receive
  <2>1. UNCHANGED <<pending, raised, feed>>
    BY <1>4 DEF Receive
  <2>2. QED  BY <1>4, <2>1, ReceivePath DEF IsCarried, TypeOK
<1>5. CASE Broadcast
  <2>1. UNCHANGED <<pending, raised>> /\ feed' = Append(feed, hand)
    BY <1>5 DEF Broadcast
  <2>2. Len(feed) <= Len(feed')
    BY <2>1 DEF TypeOK
  <2>3. QED  BY <1>5, <2>1, <2>2, BroadcastPath DEF IsCarried
<1>6. CASE Halt
  BY <1>6 DEF Halt, IsLost, Path
<1>7. QED
  BY <1>1, <1>2, <1>3, <1>4, <1>5, <1>6
     DEF PipeNext, PipeWork, Dispatch, Tick, WriteObject, WriteNewline, Record, Start,
         pipeVars, daemonVars

\* No two alerts on their way, to the dispatcher or past it, have one tag.
TagsUnique ==
  /\ \A i, j \in 1..Len(Path) : Path[i].tag = Path[j].tag => i = j
  /\ \A m \in Monitors : pending[m] # NoAlert =>
       /\ \A i \in 1..Len(Path) : Path[i].tag # pending[m].tag
       /\ \A n \in Monitors : pending[n] # NoAlert /\ pending[n].tag = pending[m].tag => n = m

\* Tags are unique in every reachable state.
LEMMA Unique == PipeSpec => []TagsUnique
<1>1. PipeInit => TagsUnique
  <2> SUFFICES ASSUME PipeInit PROVE TagsUnique
    OBVIOUS
  <2>1. Path = <<>> /\ \A m \in Monitors : pending[m] = NoAlert
    BY DEF PipeInit, FreshDaemon, Path
  <2>2. Len(Path) = 0
    BY <2>1
  <2>3. QED  BY <2>1, <2>2 DEF TagsUnique
<1>2. TypeOK /\ SourcesInOrder /\ TagsUnique /\ [PipeNext]_pipeVars => TagsUnique'
  <2> SUFFICES ASSUME TypeOK, SourcesInOrder, TagsUnique, [PipeNext]_pipeVars
               PROVE  TagsUnique'
    OBVIOUS
  <2>1. /\ Path \in Seq(Alert) /\ Len(Path) \in Nat /\ raised \in Nat
        /\ \A i \in 1..Len(Path) : Path[i].tag \in Nat /\ Path[i].tag <= raised
        /\ \A m \in Monitors : pending[m] # NoAlert =>
             pending[m].tag \in Nat /\ pending[m].tag <= raised
    <3>1. Path \in Seq(Alert) /\ \A i \in 1..Len(Path) : Path[i] \in Alert
      BY PathType
    <3>2. Len(Path) \in Nat
      BY <3>1
    <3>3. raised \in Nat /\ \A m \in Monitors : pending[m] # NoAlert => pending[m] \in Alert
      BY DEF TypeOK
    <3>4. \A a \in Alert : a.tag \in Nat
      BY DEF Alert
    <3>5. QED  BY <3>1, <3>2, <3>3, <3>4 DEF SourcesInOrder
  <2>2. CASE IsCarried
    BY <2>2 DEF IsCarried, TagsUnique
  <2>3. ASSUME NEW m \in Monitors, IsRaised(m) PROVE TagsUnique'
    <3>1. /\ Path' = Path /\ pending'[m].tag = raised + 1
          /\ \A k \in Monitors \ {m} : pending'[k] = pending[k]
      BY <2>3 DEF IsRaised
    <3>2. \A i \in 1..Len(Path) : Path[i].tag # raised + 1
      BY <2>1
    <3>3. \A k \in Monitors \ {m} : pending[k] # NoAlert => pending[k].tag # raised + 1
      BY <2>1
    <3>4. QED  BY <3>1, <3>2, <3>3 DEF TagsUnique
  <2>4. ASSUME NEW m \in Monitors, IsEntered(m) PROVE TagsUnique'
    <3>1. /\ Path' = Append(Path, pending[m]) /\ pending[m] # NoAlert
          /\ pending'[m] = NoAlert /\ \A k \in Monitors \ {m} : pending'[k] = pending[k]
      BY <2>4 DEF IsEntered
    <3>2. /\ Len(Path') = Len(Path) + 1 /\ Path'[Len(Path) + 1] = pending[m]
          /\ \A i \in 1..Len(Path) : Path'[i] = Path[i]
      BY <2>1, <3>1
    <3>3. \A i \in 1..Len(Path) : Path[i].tag # pending[m].tag
      BY <3>1 DEF TagsUnique
    <3>4. \A i \in 1..Len(Path') :
            \/ i \in 1..Len(Path) /\ Path'[i] = Path[i]
            \/ i = Len(Path) + 1 /\ Path'[i] = pending[m]
      BY <2>1, <3>2
    <3>5. \A i, j \in 1..Len(Path') : Path'[i].tag = Path'[j].tag => i = j
      BY <3>3, <3>4 DEF TagsUnique
    <3>6. ASSUME NEW k \in Monitors, pending'[k] # NoAlert
          PROVE  /\ \A i \in 1..Len(Path') : Path'[i].tag # pending'[k].tag
                 /\ \A n \in Monitors :
                      pending'[n] # NoAlert /\ pending'[n].tag = pending'[k].tag => n = k
      <4>1. k # m /\ pending'[k] = pending[k]
        BY <3>1, <3>6
      <4>2. pending[k].tag # pending[m].tag
        BY <3>1, <3>6, <4>1 DEF TagsUnique
      <4>3. \A i \in 1..Len(Path') : Path'[i].tag # pending'[k].tag
        BY <3>4, <3>6, <4>1, <4>2 DEF TagsUnique
      <4>4. QED  BY <3>1, <3>6, <4>1, <4>3 DEF TagsUnique
    <3>7. QED  BY <3>5, <3>6 DEF TagsUnique
  <2>5. CASE IsLost
    <3>1. Len(Path') = 0 /\ \A m \in Monitors : pending'[m] = NoAlert
      BY <2>5 DEF IsLost
    <3>2. QED  BY <3>1 DEF TagsUnique
  <2>6. QED  BY <2>2, <2>3, <2>4, <2>5, PathSteps
<1>3. QED  BY <1>1, <1>2, TypeCorrect, Ordered, PTL DEF PipeSpec

-----------------------------------------------------------------------------
(* What the interface has heard of and what is ahead *)

\* The live alerts among the messages of a connection that its client has not read.
Unread(k) == {i \in k.taken + 1 .. Len(k.sent) : k.sent[i].kind = "alert"}

IsUnread(k, t) == \E i \in Unread(k) : k.sent[i].alert.tag = t

IsNotified(t) == \E i \in 1..Len(notified) : notified[i] = t

\* The place on the path behind which nothing was relayed to a connection.
From(k) == IF k.link = "open" THEN k.cursor ELSE Len(feed)
WillBeFrom(k) == IF k.link = "open" THEN k.cursor ELSE Len(feed')

\* A tag behind place n of the path, or of an alert that is not on it yet.
IsAhead(t, n) ==
  \/ \E i \in n + 1 .. Len(Path) : Path[i].tag = t
  \/ \E m \in Monitors : pending[m] # NoAlert /\ pending[m].tag = t
WillBeAhead(t, n) ==
  \/ \E i \in n + 1 .. Len(Path') : Path'[i].tag = t
  \/ \E m \in Monitors : pending'[m] # NoAlert /\ pending'[m].tag = t

(***************************************************************************)
(* Why no alert is notified twice: an alert is ahead, then unread, then    *)
(* notified or passed over, and never goes back.  It may be lost at each   *)
(* point, with the connection or with the daemon, but what comes after a   *)
(* restart has tags above all that was raised before.                      *)
(***************************************************************************)
NoticeInv ==
  LET k == conn[TheGui]
  IN  /\ notified \in Seq(Nat) /\ NotifiedOnce
      /\ \A t \in Nat : IsNotified(t) \/ IsUnread(k, t) => t <= raised /\ ~IsAhead(t, From(k))
      /\ \A i, j \in Unread(k) : k.sent[i].alert.tag = k.sent[j].alert.tag => i = j
      /\ \A i \in Unread(k) : ~IsNotified(k.sent[i].alert.tag)

\* A tag is ahead after a step only if it was before, or the alert is raised in it.
LEMMA AheadStep ==
  ASSUME TypeOK, [PipeNext]_pipeVars, NEW n \in Nat, NEW t, WillBeAhead(t, n)
  PROVE  ~IsLost /\ (IsAhead(t, n) \/ t = raised + 1)
<1>1. Path \in Seq(Alert) /\ Len(Path) \in Nat
  BY PathType
<1>2. CASE IsLost
  <2>1. Len(Path') = 0 /\ \A m \in Monitors : pending'[m] = NoAlert
    BY <1>2 DEF IsLost
  <2>2. QED  BY <2>1 DEF WillBeAhead
<1>3. CASE ~IsLost /\ IsCarried
  BY <1>1, <1>3 DEF IsCarried, WillBeAhead, IsAhead
<1>4. ASSUME ~IsLost, NEW m \in Monitors, IsRaised(m)
      PROVE  IsAhead(t, n) \/ t = raised + 1
  <2>1. /\ Path' = Path /\ pending'[m].tag = raised + 1
        /\ \A k \in Monitors \ {m} : pending'[k] = pending[k]
    BY <1>4 DEF IsRaised
  <2>2. CASE \E i \in n + 1 .. Len(Path') : Path'[i].tag = t
    BY <2>1, <2>2 DEF IsAhead
  <2>3. CASE \E k \in Monitors : pending'[k] # NoAlert /\ pending'[k].tag = t
    BY <2>1, <2>3 DEF IsAhead
  <2>4. QED  BY <2>2, <2>3 DEF WillBeAhead
<1>5. ASSUME ~IsLost, NEW m \in Monitors, IsEntered(m) PROVE IsAhead(t, n)
  <2>1. /\ Path' = Append(Path, pending[m]) /\ pending[m] # NoAlert
        /\ pending'[m] = NoAlert /\ \A k \in Monitors \ {m} : pending'[k] = pending[k]
    BY <1>5 DEF IsEntered
  <2>2. \A i \in 1..Len(Path') :
          \/ i \in 1..Len(Path) /\ Path'[i] = Path[i]
          \/ i = Len(Path) + 1 /\ Path'[i] = pending[m]
    BY <1>1, <2>1
  <2>3. CASE \E i \in n + 1 .. Len(Path') : Path'[i].tag = t
    BY <1>1, <2>1, <2>2, <2>3 DEF IsAhead
  <2>4. CASE \E k \in Monitors : pending'[k] # NoAlert /\ pending'[k].tag = t
    BY <2>1, <2>4 DEF IsAhead
  <2>5. QED  BY <2>3, <2>4 DEF WillBeAhead
<1>6. QED  BY <1>2, <1>3, <1>4, <1>5, PathSteps

\* The further one is the less is ahead.
LEMMA AheadShrinks ==
  ASSUME NEW n \in Nat, NEW q \in Nat, n <= q, NEW t, WillBeAhead(t, q)
  PROVE  WillBeAhead(t, n)
BY DEF WillBeAhead

-----------------------------------------------------------------------------
(* What a step does to the interface's connection *)

\* What is unread was unread before.
Keeps(k, k2) ==
  \A i \in Unread(k2) : i \in Unread(k) /\ k2.sent[i] = k.sent[i]

\* Nothing is relayed, and the connection does not fall back on the path.
IsStill(k, k2) ==
  /\ UNCHANGED notified /\ Keeps(k, k2)
  /\ IsLost \/ From(k) <= WillBeFrom(k2)

IsPassedOn(k, k2) ==
  /\ UNCHANGED <<notified, pipeVars>>
  /\ k.taken \in Nat /\ k2.taken = k.taken /\ IsRelayed(k, k2)

IsTaken(k, k2) ==
  /\ UNCHANGED pipeVars
  /\ k.taken < Len(k.sent) /\ k2 = [k EXCEPT !.taken = @ + 1]
  /\ LET m == k.sent[k.taken + 1]
     IN  notified' = IF m.kind = "alert" /\ m.alert.sev \in Urgent
                     THEN Append(notified, m.alert.tag) ELSE notified

\* What the daemon does to a connection leaves what the client has written and read.
LEMMA TakenStays ==
  ASSUME IpcTypeOK, DaemonNext, NEW c \in Clients
  PROVE  \/ conn'[c].taken = conn[c].taken /\ conn'[c].asked = conn[c].asked
         \/ conn'[c] = NoConn
<1>1. conn \in [Clients -> Connection]
  BY DEF IpcTypeOK
<1>2. CASE UNCHANGED conn
  BY <1>2
<1>3. CASE HangUp
  BY <1>1, <1>3 DEF HangUp, Connection
<1>4. CASE ListenerGone
  BY <1>1, <1>4 DEF ListenerGone, Connection
<1>5. ASSUME NEW d \in Clients, Accept(d) \/ HandleRequest(d) \/ Relay(d) \/ EndSession(d)
      PROVE  \/ conn'[c].taken = conn[c].taken /\ conn'[c].asked = conn[c].asked
             \/ conn'[c] = NoConn
  <2>1. CASE c # d
    BY <1>1, <1>5, <2>1 DEF Accept, HandleRequest, Relay, EndSession
  <2>2. CASE c = d
    <3> DEFINE r == conn[c]
    <3>1. \A x, y : [r EXCEPT !.served = x, !.subscribed = y].sent = r.sent
      BY <1>1 DEF Connection
    <3>2. CASE EndSession(c)
      BY <1>1, <3>2 DEF EndSession
    <3>3. CASE Accept(c)
      BY <1>1, <3>3 DEF Accept, Sends, Connection
    <3>4. CASE Relay(c)
      <4>1. PICK msgs : conn'[c] =
              IF r.cursor < Len(feed) - BroadcastCapacity
              THEN [r EXCEPT !.cursor = Len(feed) - BroadcastCapacity,
                             !.missed = @ + ((Len(feed) - BroadcastCapacity) - r.cursor)]
              ELSE Sends([r EXCEPT !.cursor = @ + 1], msgs)
        BY <1>1, <3>4 DEF Relay
      <4>2. r \in Connection
        BY <1>1
      <4>3. QED  BY <4>1, <4>2 DEF Sends, Connection
    <3>5. CASE HandleRequest(c)
      <4> DEFINE req == r.asked[r.served + 1]
                 x == r.served + 1
                 y == r.subscribed \/ req.kind = "subscribe"
                 k == [r EXCEPT !.served = x, !.subscribed = y]
                 msgs == Answer(req)
      <4>1. conn'[c] = IF req.kind # "not_utf8" THEN Sends(k, msgs)
                       ELSE IF r.link = "open" THEN [k EXCEPT !.link = "hup"] ELSE NoConn
        BY <1>1, <3>5 DEF HandleRequest
      <4> HIDE DEF x, y, req, msgs
      <4>2. \/ conn'[c] = [k EXCEPT !.sent = r.sent \o msgs]
            \/ conn'[c] = [k EXCEPT !.link = "hup"]
            \/ conn'[c] = NoConn
        BY <3>1, <4>1 DEF Sends
      <4>3. \A z : /\ [k EXCEPT !.sent = z].taken = r.taken
                   /\ [k EXCEPT !.link = z].taken = r.taken
                   /\ [k EXCEPT !.sent = z].asked = r.asked
                   /\ [k EXCEPT !.link = z].asked = r.asked
        BY <1>1 DEF Connection
      <4>4. QED  BY <4>2, <4>3
    <3>6. QED  BY <1>5, <2>2, <3>2, <3>3, <3>4, <3>5
  <2>3. QED  BY <2>1, <2>2
<1>6. QED
  BY <1>2, <1>3, <1>4, <1>5 DEF DaemonNext, IpcWork, Session, Listen, AcceptFails, ipcVars

\* What the connection of the interface goes through when nothing is read from it.
LEMMA StillOrPassedOn ==
  ASSUME TypeOK, IpcTypeOK, IpcTypeOK', NEW k, NEW k2, k = conn[TheGui], k2 = conn'[TheGui],
         Moves(k, k2), UNCHANGED notified, k2.taken = k.taken \/ k2 = NoConn,
         k.link = "open" => k.cursor <= Len(feed), IsLost \/ Len(feed) <= Len(feed')
  PROVE  IsStill(k, k2) \/ IsPassedOn(k, k2)
<1>1. /\ k \in Connection /\ k2 \in Connection /\ Len(feed) \in Nat
      /\ k.link = "pending" => k.sent = <<>>
  BY GuiAssumption DEF IpcTypeOK, TypeOK
<1>2. CASE k2 = NoConn
  <2>1. Unread(k2) = {}
    BY <1>2 DEF NoConn, Unread
  <2>2. IsLost \/ From(k) <= WillBeFrom(k2)
    BY <1>1, <1>2, NoConnType DEF From, WillBeFrom, Connection
  <2>3. QED  BY <2>1, <2>2 DEF IsStill, Keeps
<1> SUFFICES ASSUME k2 # NoConn, k2.taken = k.taken
             PROVE  IsStill(k, k2) \/ IsPassedOn(k, k2)
  BY <1>2
<1>3. ASSUME k2.sent = k.sent PROVE Keeps(k, k2)
  BY <1>3 DEF Keeps, Unread
<1>4. CASE Works /\ Idles(k, k2)
  <2>1. IsLost \/ From(k) <= WillBeFrom(k2)
    BY <1>1, <1>4 DEF From, WillBeFrom, Idles, Connection
  <2>2. QED  BY <1>3, <1>4, <2>1 DEF IsStill, Idles
<1>5. CASE Halt /\ IsHungUp(k, k2)
  <2>1. IsLost
    BY <1>5 DEF Halt, IsLost, Path
  <2>2. CASE k2.sent = k.sent
    BY <1>3, <2>1, <2>2 DEF IsStill
  <2>3. CASE k2.sent = Front(k.sent) /\ k.sent # <<>>
    <3>1. k.sent \in Seq(Message) /\ k.taken \in Nat
      BY <1>1 DEF Connection
    <3>2. /\ Len(k2.sent) = Len(k.sent) - 1 /\ Len(k.sent) \in Nat
          /\ \A i \in 1..Len(k2.sent) : k2.sent[i] = k.sent[i]
      BY <2>3, <3>1 DEF Front
    <3>3. Keeps(k, k2)
      BY <3>1, <3>2 DEF Keeps, Unread
    <3>4. QED  BY <2>1, <3>3 DEF IsStill
  <2>4. CASE k2.sent = Front(k.sent) /\ k.sent = <<>>
    <3>1. Len(k2.sent) = 0
      BY <2>4 DEF Front
    <3>2. k2.taken \in Nat
      BY <1>1 DEF Connection
    <3>3. Unread(k2) = {}
      BY <3>1, <3>2 DEF Unread
    <3>4. QED  BY <2>1, <3>3 DEF IsStill, Keeps
  <2>5. QED  BY <1>5, <2>2, <2>3, <2>4 DEF IsHungUp
<1>6. ASSUME NEW m \in Message, m.kind # "alert", k2.sent = k.sent \o <<m>>
      PROVE  Keeps(k, k2)
  <2>1. k.sent \in Seq(Message) /\ k.taken \in Nat
    BY <1>1 DEF Connection
  <2>2. /\ Len(k2.sent) = Len(k.sent) + 1 /\ k2.sent[Len(k.sent) + 1] = m
        /\ \A i \in 1..Len(k.sent) : k2.sent[i] = k.sent[i]
    BY <1>6, <2>1
  <2>3. QED  BY <1>6, <2>1, <2>2 DEF Keeps, Unread
<1>7. CASE UNCHANGED pipeVars /\ IsAccepted(k, k2)
  <2>1. Keeps(k, k2)
    BY <1>6, <1>7, MessageKinds DEF IsAccepted
  <2>2. From(k) <= WillBeFrom(k2)
    BY <1>1, <1>7 DEF IsAccepted, From, WillBeFrom, pipeVars, daemonVars
  <2>3. QED  BY <2>1, <2>2 DEF IsStill
<1>8. CASE UNCHANGED pipeVars /\ IsAnswered(k, k2)
  <2>1. PICK req \in Request : k2.sent = k.sent \o Answer(req)
    BY <1>8 DEF IsAnswered
  <2>2. ASSUME Answer(req) = <<>> PROVE Keeps(k, k2)
    <3>1. k2.sent = k.sent
      BY <1>1, <2>1, <2>2 DEF Connection
    <3>2. QED  BY <1>3, <3>1
  <2>3. Keeps(k, k2)
    <3>1. CASE Answer(req) # <<>>
      <4>1. PICK m \in Message : Answer(req) = <<m>> /\
              \/ m = [kind |-> "pong"] \/ m = [kind |-> "error"]
              \/ m = [kind |-> "stats", stats |-> StatsSnapshot(state)]
              \/ \E limit \in Limits :
                   m = [kind |-> "recent", alerts |-> LastN(state.recent, Capped(limit))]
        BY <3>1, AnswerIs
      <4>2. m.kind # "alert"
        BY <4>1
      <4>3. QED  BY <1>6, <2>1, <4>1, <4>2
    <3>2. QED  BY <2>2, <3>1
  <2>4. From(k) <= WillBeFrom(k2)
    BY <1>1, <1>8 DEF IsAnswered, From, WillBeFrom, Connection, pipeVars, daemonVars
  <2>5. QED  BY <2>3, <2>4 DEF IsStill
<1>9. CASE UNCHANGED pipeVars /\ IsRelayed(k, k2)
  BY <1>1, <1>9 DEF IsPassedOn, Connection
<1>10. CASE UNCHANGED pipeVars /\ IsLagged(k, k2)
  <2>1. From(k) <= WillBeFrom(k2)
    BY <1>1, <1>10, IpcAssumption
       DEF IsLagged, From, WillBeFrom, Connection, pipeVars, daemonVars
  <2>2. QED  BY <1>3, <1>10, <2>1 DEF IsStill, IsLagged
<1>11. QED  BY <1>4, <1>5, <1>7, <1>8, <1>9, <1>10 DEF Moves

\* Every step of the system, by what it does to the connection of the interface.
LEMMA GuiSteps ==
  ASSUME TypeOK, IpcTypeOK, StreamAccounted, [Next]_allVars
  PROVE  LET k == conn[TheGui]
             k2 == conn'[TheGui]
         IN  IsStill(k, k2) \/ IsPassedOn(k, k2) \/ IsTaken(k, k2)
<1> DEFINE k == conn[TheGui]
           k2 == conn'[TheGui]
<1>1. TheGui \in Clients /\ k \in Connection /\ conn \in [Clients -> Connection]
  BY GuiAssumption DEF IpcTypeOK
<1>2. IpcTypeOK' /\ Moves(k, k2)
  BY <1>1, ServerStep, ConnSteps
<1>3. IsLost \/ Len(feed) <= Len(feed')
  <2>1. Len(feed) \in Nat
    BY DEF TypeOK
  <2>2. IsCarried \/ (\E m \in Monitors : IsRaised(m) \/ IsEntered(m)) \/ IsLost
    BY ServerStep, PipeStep, PathSteps
  <2>3. QED  BY <2>1, <2>2 DEF IsCarried, IsRaised, IsEntered
<1>4. k.link = "open" => k.cursor <= Len(feed)
  BY <1>1 DEF StreamAccounted
<1>5. CASE GuiReads
  <2>1. /\ UNCHANGED pipeVars /\ k.taken < Len(k.sent)
        /\ conn' = [conn EXCEPT ![TheGui].taken = @ + 1]
        /\ LET m == k.sent[k.taken + 1]
           IN  notified' = IF m.kind = "alert" /\ m.alert.sev \in Urgent
                           THEN Append(notified, m.alert.tag) ELSE notified
    BY <1>5 DEF GuiReads, CanTake, Take, NextMessage
  <2>2. k2 = [k EXCEPT !.taken = @ + 1]
    BY <1>1, <2>1
  <2>3. IsTaken(k, k2)
    BY <2>1, <2>2 DEF IsTaken
  <2>4. QED  BY <2>3
<1>6. CASE ~GuiReads
  <2>1. UNCHANGED notified
    BY <1>6 DEF Next, GuiThread, GuiConnect, GuiRefused, GuiAsks, GuiAskFails,
         GuiHangup, GuiWakes, GuiCloneFails, DrainEvents, guiVars, allVars
  <2>2. k2.taken = k.taken \/ k2 = NoConn
    <3>1. CASE DaemonNext
      BY <1>1, <3>1, TakenStays
    <3>2. CASE UNCHANGED vars
      BY <3>2 DEF vars, ipcVars
    <3>3. CASE Connect(TheGui) \/ \E req \in Request : Ask(TheGui, req)
      BY <1>1, <3>3 DEF Connect, Ask, Connection
    <3>4. CASE Close(TheGui)
      BY <1>1, <3>4 DEF Close, Connection
    <3>5. /\ [kind |-> "subscribe"] \in Request
          /\ [kind |-> "get_recent", limit |-> GuiLimit] \in Request
      BY GuiAssumption DEF Request
    <3>6. QED
      BY <1>6, <3>1, <3>2, <3>3, <3>4, <3>5
         DEF Next, GuiThread, GuiConnect, GuiRefused, GuiAsks, GuiAskFails, GuiHangup,
             GuiWakes, GuiCloneFails, DrainEvents, allVars
  <2> HIDE DEF k, k2
  <2>3. IsStill(k, k2) \/ IsPassedOn(k, k2)
    BY <1>2, <1>3, <1>4, <2>1, <2>2, StillOrPassedOn DEF k, k2
  <2>4. QED  BY <2>3 DEF k, k2
<1>7. QED  BY <1>5, <1>6

-----------------------------------------------------------------------------
(* No alert is notified twice *)

IsHeard(k, t) == IsNotified(t) \/ IsUnread(k, t)
WillBeHeard(k, t) ==
  (\E i \in 1..Len(notified') : notified'[i] = t) \/ IsUnread(k, t)

\* NoticeInv after a step.
LEMMA NoticeAfter ==
  ASSUME NEW k2, k2 = conn'[TheGui], notified' \in Seq(Nat),
         \A i, j \in 1..Len(notified') : i # j => notified'[i] # notified'[j],
         \A t \in Nat : WillBeHeard(k2, t) => t <= raised' /\ ~WillBeAhead(t, WillBeFrom(k2)),
         \A i, j \in Unread(k2) : k2.sent[i].alert.tag = k2.sent[j].alert.tag => i = j,
         \A i \in Unread(k2) : \A n \in 1..Len(notified') :
           notified'[n] # k2.sent[i].alert.tag
  PROVE  NoticeInv'
BY DEF NoticeInv, NotifiedOnce, IsNotified, IsUnread, Unread, WillBeHeard, From, WillBeFrom,
       IsAhead, WillBeAhead

\* The tags of unread alerts are numbers, and so is a place on the path.
LEMMA NoticeTypes ==
  ASSUME TypeOK, NEW k \in Connection
  PROVE  /\ From(k) \in Nat
         /\ \A i \in Unread(k) : k.sent[i].alert \in Alert /\ k.sent[i].alert.tag \in Nat
<1>1. From(k) \in Nat
  BY DEF From, Connection, TypeOK
<1>2. ASSUME NEW i \in Unread(k)
      PROVE  k.sent[i].alert \in Alert /\ k.sent[i].alert.tag \in Nat
  <2>1. k.sent \in Seq(Message) /\ k.taken \in Nat
    BY DEF Connection
  <2>2. i \in 1..Len(k.sent) /\ k.sent[i].kind = "alert"
    BY <2>1 DEF Unread
  <2>3. k.sent[i] \in Message
    BY <2>1, <2>2
  <2>4. k.sent[i].alert \in Alert
    BY <2>2, <2>3 DEF Message
  <2>5. QED  BY <2>4 DEF Alert
<1>3. QED  BY <1>1, <1>2

\* Every step of the daemon, the server and the client keeps the notices apart.
LEMMA NoticeStep ==
  ASSUME TypeOK, TypeOK', FeedNumbered, SourcesInOrder, TagsUnique, IpcTypeOK, IpcTypeOK',
         StreamAccounted, NoticeInv, [Next]_allVars
  PROVE  NoticeInv'
<1> DEFINE k == conn[TheGui]
           k2 == conn'[TheGui]
<1>1. /\ k \in Connection /\ k2 \in Connection /\ notified \in Seq(Nat)
      /\ raised \in Nat /\ raised' \in Nat
  BY GuiAssumption DEF IpcTypeOK, TypeOK, NoticeInv
<1>2. /\ \A i, j \in 1..Len(notified) : i # j => notified[i] # notified[j]
      /\ \A t \in Nat : IsHeard(k, t) => t <= raised /\ ~IsAhead(t, From(k))
      /\ \A i, j \in Unread(k) : k.sent[i].alert.tag = k.sent[j].alert.tag => i = j
      /\ \A i \in Unread(k) : ~IsNotified(k.sent[i].alert.tag)
  BY DEF NoticeInv, NotifiedOnce, IsHeard
<1>3. [PipeNext]_pipeVars
  BY ServerStep, PipeStep
<1>4. /\ From(k) \in Nat /\ WillBeFrom(k2) \in Nat
      /\ \A i \in Unread(k) : k.sent[i].alert \in Alert /\ k.sent[i].alert.tag \in Nat
  <2>1. Len(feed') \in Nat
    BY DEF TypeOK
  <2>2. WillBeFrom(k2) \in Nat
    BY <1>1, <2>1 DEF WillBeFrom, Connection
  <2>3. QED  BY <1>1, <2>2, NoticeTypes
<1>5. raised <= raised'
  BY <1>1, <1>3, PathSteps DEF IsCarried, IsRaised, IsEntered, IsLost
<1>6. IsStill(k, k2) \/ IsPassedOn(k, k2) \/ IsTaken(k, k2)
  BY GuiSteps
<1>7. k2 = conn'[TheGui]
  OBVIOUS
<1> HIDE DEF k, k2
<1>8. CASE IsStill(k, k2)
  <2>1. /\ notified' = notified /\ Keeps(k, k2)
        /\ IsLost \/ From(k) <= WillBeFrom(k2)
    BY <1>8 DEF IsStill
  <2>2. \A t : WillBeHeard(k2, t) => IsHeard(k, t)
    BY <2>1 DEF WillBeHeard, IsHeard, IsNotified, IsUnread, Keeps
  <2>3. ASSUME NEW t \in Nat, IsHeard(k, t) PROVE t <= raised' /\ ~WillBeAhead(t, WillBeFrom(k2))
    <3>1. t <= raised /\ ~IsAhead(t, From(k))
      BY <1>2, <2>3
    <3>2. ~WillBeAhead(t, WillBeFrom(k2))
      <4> SUFFICES ASSUME WillBeAhead(t, WillBeFrom(k2)) PROVE FALSE
        OBVIOUS
      <4>1. ~IsLost
        BY <1>3, <1>4, AheadStep
      <4>2. WillBeAhead(t, From(k))
        BY <1>4, <2>1, <4>1, AheadShrinks
      <4>3. t = raised + 1
        BY <1>3, <1>4, <3>1, <4>2, AheadStep
      <4>4. QED  BY <1>1, <3>1, <4>3
    <3>3. QED  BY <1>1, <1>5, <3>1, <3>2
  <2>4. \A i, j \in Unread(k2) : k2.sent[i].alert.tag = k2.sent[j].alert.tag => i = j
    BY <1>2, <2>1 DEF Keeps
  <2>5. \A i \in Unread(k2) : \A n \in 1..Len(notified') : notified'[n] # k2.sent[i].alert.tag
    BY <1>2, <2>1 DEF Keeps, IsNotified
  <2>6. QED  BY <1>1, <1>2, <1>7, <2>1, <2>2, <2>3, <2>4, <2>5, NoticeAfter
<1>9. CASE IsTaken(k, k2)
  <2> DEFINE n == k.taken + 1
             t0 == k.sent[n].alert.tag
  <2>1. /\ UNCHANGED pipeVars /\ k.taken < Len(k.sent)
        /\ k2.sent = k.sent /\ k2.taken = n /\ k2.link = k.link /\ k2.cursor = k.cursor
        /\ \/ notified' = notified
           \/ k.sent[n].kind = "alert" /\ notified' = Append(notified, t0)
    BY <1>1, <1>9 DEF IsTaken, Connection
  <2>2. k.taken \in Nat /\ Len(k.sent) \in Nat /\ n \in 1..Len(k.sent)
    BY <1>1, <2>1 DEF Connection
  <2>3. /\ \A i \in Unread(k2) : i \in Unread(k) /\ i # n /\ k2.sent[i] = k.sent[i]
        /\ k.sent[n].kind = "alert" => n \in Unread(k)
    BY <2>1, <2>2 DEF Unread
  <2>4. /\ WillBeFrom(k2) = From(k) /\ raised' = raised
        /\ \A t, q : WillBeAhead(t, q) <=> IsAhead(t, q)
    BY <2>1 DEF WillBeFrom, From, WillBeAhead, IsAhead, Path, pipeVars, daemonVars
  <2> HIDE DEF n
  <2>5. CASE notified' = notified
    <3>1. \A t : WillBeHeard(k2, t) => IsHeard(k, t)
      BY <2>3, <2>5 DEF WillBeHeard, IsHeard, IsNotified, IsUnread
    <3>2. \A i, j \in Unread(k2) : k2.sent[i].alert.tag = k2.sent[j].alert.tag => i = j
      BY <1>2, <2>3
    <3>3. \A i \in Unread(k2) : \A m \in 1..Len(notified') : notified'[m] # k2.sent[i].alert.tag
      BY <1>2, <2>3, <2>5 DEF IsNotified
    <3>4. QED  BY <1>1, <1>2, <1>7, <2>4, <2>5, <3>1, <3>2, <3>3, NoticeAfter
  <2>6. CASE k.sent[n].kind = "alert" /\ notified' = Append(notified, t0)
    <3>1. n \in Unread(k) /\ t0 \in Nat
      BY <1>4, <2>3, <2>6
    <3>2. ~IsNotified(t0)
      BY <1>2, <3>1
    <3>3. \A i \in Unread(k2) : k2.sent[i].alert.tag # t0
      BY <1>2, <2>3, <3>1
    <3> HIDE DEF t0
    <3>4. /\ notified' \in Seq(Nat) /\ Len(notified') = Len(notified) + 1
          /\ notified'[Len(notified) + 1] = t0 /\ Len(notified) \in Nat
          /\ \A i \in 1..Len(notified) : notified'[i] = notified[i]
      BY <1>1, <2>6, <3>1
    <3>5. \A i \in 1..Len(notified') :
            \/ i \in 1..Len(notified) /\ notified'[i] = notified[i]
            \/ i = Len(notified) + 1 /\ notified'[i] = t0
      BY <3>4
    <3>6. IsUnread(k, t0)
      BY <3>1 DEF IsUnread, t0
    <3>7. \A t : WillBeHeard(k2, t) => IsHeard(k, t)
      BY <2>3, <3>5, <3>6 DEF WillBeHeard, IsHeard, IsNotified, IsUnread
    <3>8. \A i, j \in Unread(k2) : k2.sent[i].alert.tag = k2.sent[j].alert.tag => i = j
      BY <1>2, <2>3
    <3>9. \A i, j \in 1..Len(notified') : i # j => notified'[i] # notified'[j]
      BY <1>2, <3>2, <3>5 DEF IsNotified
    <3>10. \A i \in Unread(k2) : \A m \in 1..Len(notified') : notified'[m] # k2.sent[i].alert.tag
      BY <1>2, <2>3, <3>3, <3>5 DEF IsNotified
    <3>11. QED  BY <1>1, <1>2, <1>7, <2>4, <3>4, <3>7, <3>8, <3>9, <3>10, NoticeAfter
  <2>7. QED  BY <2>1, <2>5, <2>6
<1>10. CASE IsPassedOn(k, k2)
  <2> DEFINE n == k.cursor + 1
             t0 == feed[n].tag
             s == Len(k.sent) + 1
  <2>1. /\ UNCHANGED <<pipeVars, notified>> /\ k2.taken = k.taken
        /\ k.link = "open" /\ k2.link = "open" /\ k.cursor < Len(feed) /\ k2.cursor = n
        /\ k2.sent = k.sent \o <<[kind |-> "alert", alert |-> feed[n]]>>
    BY <1>10 DEF IsPassedOn, IsRelayed
  <2>2. k.sent \in Seq(Message) /\ k.taken \in Nat /\ k.cursor \in Nat /\ Len(feed) \in Nat
    BY <1>1 DEF Connection, TypeOK
  <2>3. n \in 1..Len(feed) /\ feed[n] \in Alert /\ t0 \in Nat
    <3>1. n \in 1..Len(feed)
      BY <2>1, <2>2
    <3>2. feed \in Seq(Alert)
      BY DEF TypeOK
    <3>3. feed[n] \in Alert
      BY <3>1, <3>2
    <3>4. QED  BY <3>1, <3>3 DEF Alert
  <2>4. /\ Len(k2.sent) = s /\ k2.sent[s].alert.tag = t0
        /\ \A i \in 1..Len(k.sent) : k2.sent[i] = k.sent[i]
    BY <2>1, <2>2, <2>3, MessageKinds
  <2>5. \A i \in Unread(k2) :
          (i \in Unread(k) /\ k2.sent[i] = k.sent[i]) \/ i = s
    <3>1. Len(k.sent) \in Nat /\ s = Len(k.sent) + 1
      BY <2>2
    <3>2. /\ Unread(k) = {i \in k.taken + 1 .. Len(k.sent) : k.sent[i].kind = "alert"}
          /\ Unread(k2) = {i \in k.taken + 1 .. s : k2.sent[i].kind = "alert"}
      BY <2>1, <2>4 DEF Unread
    <3>3. ASSUME NEW i \in k.taken + 1 .. s, i # s
          PROVE  i \in k.taken + 1 .. Len(k.sent) /\ i \in 1..Len(k.sent)
      BY <2>2, <3>1, <3>3
    <3>4. QED  BY <2>4, <3>2, <3>3
  <2>6. /\ From(k) = k.cursor /\ WillBeFrom(k2) = n /\ raised' = raised
        /\ \A t, q : WillBeAhead(t, q) <=> IsAhead(t, q)
    <3>1. /\ UNCHANGED <<feed, hand, queue, pending>> /\ raised' = raised
      BY <2>1 DEF pipeVars, daemonVars
    <3>2. Path' = Path
      BY <3>1 DEF Path
    <3>3. \A t, q : WillBeAhead(t, q) <=> IsAhead(t, q)
      BY <3>1, <3>2 DEF WillBeAhead, IsAhead
    <3>4. From(k) = k.cursor /\ WillBeFrom(k2) = n
      BY <2>1 DEF WillBeFrom, From
    <3>5. QED  BY <3>1, <3>3, <3>4
  <2>7. n \in 1..Len(Path) /\ Path[n].tag = t0 /\ Len(Path) \in Nat
    BY <2>3, PathPlaces, PathType
  <2>8. IsAhead(t0, From(k)) /\ t0 <= raised
    BY <2>2, <2>6, <2>7 DEF IsAhead, SourcesInOrder
  <2>9. ~IsHeard(k, t0)
    BY <1>2, <2>3, <2>8
  <2>10. ~IsAhead(t0, n)
    BY <2>2, <2>7 DEF IsAhead, TagsUnique
  <2>11. \A t : IsAhead(t, n) => IsAhead(t, From(k))
    BY <2>2, <2>6, <2>7 DEF IsAhead
  <2>12. \A t : WillBeHeard(k2, t) => IsHeard(k, t) \/ t = t0
    BY <2>1, <2>4, <2>5 DEF WillBeHeard, IsHeard, IsNotified, IsUnread
  <2>13. \A t \in Nat : WillBeHeard(k2, t) => t <= raised' /\ ~WillBeAhead(t, WillBeFrom(k2))
    BY <1>2, <2>6, <2>8, <2>10, <2>11, <2>12
  <2>14. \A i \in Unread(k2) : i # s => k2.sent[i].alert.tag # t0
    BY <2>5, <2>9 DEF IsHeard, IsUnread
  <2> HIDE DEF n, t0, s
  <2>15. \A i, j \in Unread(k2) : k2.sent[i].alert.tag = k2.sent[j].alert.tag => i = j
    BY <1>2, <2>4, <2>5, <2>14
  <2>16. \A i \in Unread(k2) : \A m \in 1..Len(notified') : notified'[m] # k2.sent[i].alert.tag
    <3> SUFFICES ASSUME NEW i \in Unread(k2) PROVE ~IsNotified(k2.sent[i].alert.tag)
      BY <2>1 DEF IsNotified
    <3>1. CASE i \in Unread(k) /\ k2.sent[i] = k.sent[i]
      BY <1>2, <3>1
    <3>2. CASE i = s
      BY <2>4, <2>9, <3>2 DEF IsHeard
    <3>3. QED  BY <2>5, <3>1, <3>2
  <2>17. QED  BY <1>1, <1>2, <1>7, <2>1, <2>13, <2>15, <2>16, NoticeAfter
<1>11. QED  BY <1>6, <1>8, <1>9, <1>10

\* Over all connections and restarts, an alert is put on the desktop at most once, in
\* every reachable state.
THEOREM NoneIsNotifiedTwice == Spec => []NotifiedOnce
<1>1. Init => NoticeInv
  <2> SUFFICES ASSUME Init PROVE NoticeInv
    OBVIOUS
  <2>1. notified = <<>> /\ conn[TheGui] = NoConn
    BY GuiAssumption DEF Init, GuiInit, IpcInit
  <2>2. Len(notified) = 0 /\ Unread(conn[TheGui]) = {}
    BY <2>1 DEF NoConn, Unread
  <2>3. QED  BY <2>1, <2>2 DEF NoticeInv, NotifiedOnce, IsNotified, IsUnread
<1>2. /\ TypeOK /\ TypeOK' /\ FeedNumbered /\ SourcesInOrder /\ TagsUnique
      /\ IpcTypeOK /\ IpcTypeOK' /\ StreamAccounted /\ NoticeInv /\ [Next]_allVars
      => NoticeInv'
  BY NoticeStep
<1>3. NoticeInv => NotifiedOnce
  BY DEF NoticeInv
<1>4. ServerSpec =>
        [](TypeOK /\ FeedNumbered /\ SourcesInOrder /\ TagsUnique /\ IpcTypeOK
             /\ StreamAccounted)
  BY ServerRunsPipe, TypeCorrect, Numbered, Ordered, Unique, IpcTypeCorrect,
     StreamIsAccounted, PTL
<1>5. QED  BY <1>1, <1>2, <1>3, <1>4, GuiIsAClient, PTL DEF Spec

-----------------------------------------------------------------------------
(* The merge of a snapshot is a stable sort *)

\* Place i comes before place j in a stable sort by timestamp.
Precedes(s, i, j) == s[i].ts < s[j].ts \/ (s[i].ts = s[j].ts /\ i < j)

\* p arranges the places in the order of a stable sort.
Arranges(p, s, places, n) ==
  /\ p \in [1..n -> places]
  /\ \A i \in places : \E k \in 1..n : p[k] = i
  /\ \A k, l \in 1..n : k < l => p[k] # p[l] /\ Precedes(s, p[k], p[l])

\* The ranks of the places go from 1 to the number of places, and the one that
\* precedes has the lower rank.
LEMMA RanksOrder ==
  ASSUME NEW s \in Seq(Alert), NEW places \in SUBSET (1..Len(s))
  PROVE  LET rank(i) == Cardinality({j \in places :
                          s[j].ts < s[i].ts \/ (s[j].ts = s[i].ts /\ j <= i)})
         IN  /\ IsFiniteSet(places) /\ Cardinality(places) \in Nat
             /\ \A i \in places : rank(i) \in 1..Cardinality(places)
             /\ \A i, j \in places : i # j => Precedes(s, i, j) \/ Precedes(s, j, i)
             /\ \A i, j \in places : Precedes(s, i, j) => rank(i) < rank(j)
<1> DEFINE before(i) == {j \in places :
             s[j].ts < s[i].ts \/ (s[j].ts = s[i].ts /\ j <= i)}
<1>1. IsFiniteSet(places) /\ Cardinality(places) \in Nat
  <2>1. IsFiniteSet(1..Len(s))
    BY FS_Interval
  <2>2. QED  BY <2>1, FS_Subset, FS_CardinalityType
<1>2. \A i \in places : s[i].ts \in Nat /\ i \in Nat
  <2>1. \A i \in places : s[i] \in Alert /\ i \in Nat
    OBVIOUS
  <2>2. QED  BY <2>1 DEF Alert
<1>3. ASSUME NEW i \in places
      PROVE  /\ i \in before(i) /\ before(i) \subseteq places /\ IsFiniteSet(before(i))
             /\ Cardinality(before(i)) \in 1..Cardinality(places)
  <2>1. i \in before(i) /\ before(i) \subseteq places
    BY <1>2
  <2> HIDE DEF before
  <2>2. IsFiniteSet(before(i)) /\ Cardinality(before(i)) <= Cardinality(places)
        /\ Cardinality(before(i)) \in Nat
    BY <1>1, <2>1, FS_Subset, FS_CardinalityType
  <2>3. Cardinality(before(i)) # 0
    BY <2>1, <2>2, FS_EmptySet
  <2>4. QED  BY <1>1, <2>1, <2>2, <2>3
<1>4. \A i, j \in places : i # j => Precedes(s, i, j) \/ Precedes(s, j, i)
  BY <1>2 DEF Precedes
<1>5. ASSUME NEW i \in places, NEW j \in places, Precedes(s, i, j)
      PROVE  Cardinality(before(i)) < Cardinality(before(j))
  <2>1. before(i) \subseteq before(j)
    <3> SUFFICES ASSUME NEW x \in before(i) PROVE x \in before(j)
      OBVIOUS
    <3>1. /\ x \in places /\ x \in Nat /\ s[x].ts \in Nat
          /\ s[x].ts < s[i].ts \/ (s[x].ts = s[i].ts /\ x <= i)
      BY <1>2
    <3>2. /\ i \in Nat /\ j \in Nat /\ s[i].ts \in Nat /\ s[j].ts \in Nat
          /\ s[i].ts < s[j].ts \/ (s[i].ts = s[j].ts /\ i < j)
      BY <1>2, <1>5 DEF Precedes
    <3>3. s[x].ts < s[j].ts \/ (s[x].ts = s[j].ts /\ x <= j)
      BY <3>1, <3>2
    <3>4. QED  BY <3>1, <3>3
  <2>2. j \notin before(i)
    BY <1>2, <1>5 DEF Precedes
  <2> HIDE DEF before
  <2>3. /\ Cardinality(before(i)) <= Cardinality(before(j))
        /\ Cardinality(before(i)) = Cardinality(before(j)) => before(j) = before(i)
    BY <1>3, <2>1, FS_Subset
  <2>4. Cardinality(before(i)) # Cardinality(before(j))
    BY <1>3, <2>2, <2>3
  <2>5. Cardinality(before(i)) \in Nat /\ Cardinality(before(j)) \in Nat
    BY <1>1, <1>3
  <2>6. QED  BY <2>3, <2>4, <2>5
<1>6. QED  BY <1>1, <1>3, <1>4, <1>5

\* SortedByTime holds exactly the alerts at the places, each once, in the order of a
\* stable sort.
LEMMA SortArranges ==
  ASSUME NEW s \in Seq(Alert), NEW places \in SUBSET (1..Len(s))
  PROVE  LET t == SortedByTime(s, places)
             n == Cardinality(places)
         IN  /\ n \in Nat /\ t \in Seq(Alert) /\ Len(t) = n
             /\ \E p : Arranges(p, s, places, n) /\ \A k \in 1..n : t[k] = s[p[k]]
<1> DEFINE n == Cardinality(places)
           rank(i) == Cardinality({j \in places :
                        s[j].ts < s[i].ts \/ (s[j].ts = s[i].ts /\ j <= i)})
           f == [i \in places |-> rank(i)]
           p == [k \in 1..n |-> CHOOSE i \in places : rank(i) = k]
           t == SortedByTime(s, places)
<1>1. /\ IsFiniteSet(places) /\ n \in Nat
      /\ \A i \in places : rank(i) \in 1..n
      /\ \A i, j \in places : i # j => Precedes(s, i, j) \/ Precedes(s, j, i)
      /\ \A i, j \in places : Precedes(s, i, j) => rank(i) < rank(j)
  BY RanksOrder
<1>2. t = [k \in 1..n |-> s[CHOOSE i \in places : rank(i) = k]]
  BY DEF SortedByTime
<1> HIDE DEF n, rank, t
<1>3. f \in [places -> 1..n] /\ \A i \in places : f[i] = rank(i)
  BY <1>1
<1>4. \A i, j \in places : f[i] = f[j] => i = j
  <2> SUFFICES ASSUME NEW i \in places, NEW j \in places, f[i] = f[j], i # j PROVE FALSE
    OBVIOUS
  <2>1. rank(i) < rank(j) \/ rank(j) < rank(i)
    BY <1>1
  <2>2. rank(i) = rank(j) /\ rank(i) \in Nat
    BY <1>1, <1>3
  <2>3. QED  BY <2>1, <2>2
<1>5. f \in Injection(places, 1..n)
  BY <1>3, <1>4 DEF Injection, IsInjective
<1>6. \A k \in 1..n : \E i \in places : rank(i) = k
  <2> HIDE DEF f
  <2>1. IsFiniteSet(1..n) /\ Cardinality(1..n) = n
    BY <1>1, FS_Interval
  <2>2. f \in Surjection(places, 1..n)
    BY <1>5, <2>1, FS_Injection DEF n
  <2>3. QED  BY <1>3, <2>2 DEF Surjection
<1>7. p \in [1..n -> places] /\ \A k \in 1..n : rank(p[k]) = k
  BY <1>6
<1> HIDE DEF p
<1>8. \A i \in places : \E k \in 1..n : p[k] = i
  <2> SUFFICES ASSUME NEW i \in places PROVE p[rank(i)] = i
    BY <1>1
  <2>1. rank(i) \in 1..n /\ p[rank(i)] \in places /\ rank(p[rank(i)]) = rank(i)
    BY <1>1, <1>7
  <2>2. QED  BY <1>3, <1>4, <2>1
<1>9. ASSUME NEW k \in 1..n, NEW l \in 1..n, k < l
      PROVE  p[k] # p[l] /\ Precedes(s, p[k], p[l])
  <2>1. p[k] \in places /\ p[l] \in places /\ rank(p[k]) = k /\ rank(p[l]) = l
    BY <1>7
  <2>2. p[k] # p[l]
    BY <1>9, <2>1
  <2>3. ~Precedes(s, p[l], p[k])
    <3>1. ~(l < k)
      BY <1>1, <1>9
    <3>2. QED  BY <1>1, <2>1, <3>1
  <2>4. QED  BY <1>1, <2>1, <2>2, <2>3
<1>10. Arranges(p, s, places, n)
  BY <1>7, <1>8, <1>9 DEF Arranges
<1>11. \A k \in 1..n : t[k] = s[p[k]]
  BY <1>2 DEF p
<1>12. t \in Seq(Alert) /\ Len(t) = n
  <2>1. \A k \in 1..n : s[p[k]] \in Alert
    <3>1. \A k \in 1..n : p[k] \in 1..Len(s)
      BY <1>7
    <3>2. \A i \in 1..Len(s) : s[i] \in Alert
      OBVIOUS
    <3>3. QED  BY <3>1, <3>2
  <2>2. t = [k \in 1..n |-> s[p[k]]]
    BY <1>2 DEF p
  <2>3. QED  BY <1>1, <2>1, <2>2
<1>13. QED  BY <1>1, <1>10, <1>11, <1>12 DEF n, t

-----------------------------------------------------------------------------
(* Types of the interface *)

\* What the thread tells the interface.
Event == [kind: {"connected", "disconnected"}]
           \cup {m \in Message : m.kind \in {"alert", "recent"}}

App == [connected: BOOLEAN, alerts: Seq(Alert)]

GuiTypeOK ==
  /\ thread \in {"connect", "subscribe", "recent", "read", "sleep"}
  /\ events \in Seq(Event) /\ app \in App

\* What a message carries, by its kind.
LEMMA MessageParts ==
  ASSUME NEW m \in Message
  PROVE  /\ m.kind = "alert" => m.alert \in Alert
         /\ m.kind = "recent" => m.alerts \in Seq(Alert)
BY DEF Message

\* The places a snapshot leaves are places of the two lists put together.
LEMMA RetainedPlaces ==
  ASSUME NEW s \in Seq(Alert), NEW r \in Seq(Alert)
  PROVE  /\ s \o r \in Seq(Alert) /\ Len(s \o r) = Len(s) + Len(r)
         /\ Retained(s, r) \in SUBSET (1..Len(s \o r))
         /\ \A i \in 1..Len(s) : (s \o r)[i] = s[i]
         /\ \A i \in Len(s) + 1 .. Len(s \o r) :
              (s \o r)[i] = r[i - Len(s)] /\ i - Len(s) \in 1..Len(r)
BY DEF Retained

\* An event leaves the interface well formed.
LEMMA ApplyType ==
  ASSUME NEW a \in App, NEW e \in Event
  PROVE  Apply(a, e) \in App
<1>1. CASE e.kind = "connected"
  BY <1>1 DEF Apply, App
<1>2. CASE e.kind = "disconnected"
  BY <1>2 DEF Apply, App
<1>3. CASE e.kind = "alert"
  <2>1. e.alert \in Alert
    BY <1>3, MessageParts DEF Event
  <2>2. Append(a.alerts, e.alert) \in Seq(Alert)
    BY <2>1 DEF App
  <2>3. LastN(Append(a.alerts, e.alert), MaxAlerts) \in Seq(Alert)
    BY <2>2, LastNType, GuiAssumption
  <2>4. QED  BY <1>3, <2>3 DEF Apply, App
<1>4. CASE e.kind = "recent"
  <2>1. e.alerts \in Seq(Alert) /\ a.alerts \in Seq(Alert)
    BY <1>4, MessageParts DEF Event, App
  <2>2. Merge(a.alerts, e.alerts) \in Seq(Alert)
    BY <2>1, RetainedPlaces, SortArranges DEF Merge
  <2>3. QED  BY <1>4, <2>2 DEF Apply, App
<1>5. QED  BY <1>1, <1>2, <1>3, <1>4 DEF Event

\* The message the interface reads next.
LEMMA NextType ==
  ASSUME IpcTypeOK, CanTake(TheGui)
  PROVE  /\ conn[TheGui].taken + 1 \in 1..Len(conn[TheGui].sent)
         /\ NextMessage(TheGui) = conn[TheGui].sent[conn[TheGui].taken + 1]
         /\ NextMessage(TheGui) \in Message
<1>1. conn[TheGui].sent \in Seq(Message) /\ conn[TheGui].taken \in Nat
  BY GuiAssumption DEF IpcTypeOK, Connection
<1>2. conn[TheGui].taken + 1 \in 1..Len(conn[TheGui].sent)
  BY <1>1 DEF CanTake
<1>3. QED  BY <1>1, <1>2 DEF NextMessage

\* The types of the interface's state hold in every reachable state.
THEOREM GuiTypeCorrect == Spec => []GuiTypeOK
<1>1. Init => GuiTypeOK
  BY DEF Init, GuiInit, GuiTypeOK, App
<1>2. IpcTypeOK /\ GuiTypeOK /\ [Next]_allVars => GuiTypeOK'
  <2> SUFFICES ASSUME IpcTypeOK, GuiTypeOK, [Next]_allVars PROVE GuiTypeOK'
    OBVIOUS
  <2>1. Connected \in Event /\ Disconnected \in Event
    BY DEF Connected, Disconnected, Event
  <2>2. \A e \in Event : Append(events, e) \in Seq(Event)
    BY DEF GuiTypeOK
  <2>3. CASE DaemonNext /\ UNCHANGED guiVars
    BY <2>3 DEF GuiTypeOK, guiVars
  <2>4. CASE GuiConnect \/ GuiAsks \/ GuiCloneFails \/ GuiWakes
    BY <2>4 DEF GuiTypeOK, GuiConnect, GuiAsks, GuiCloneFails, GuiWakes
  <2>5. CASE GuiRefused \/ GuiAskFails \/ GuiHangup
    BY <2>1, <2>2, <2>5 DEF GuiTypeOK, GuiRefused, GuiAskFails, GuiHangup, Emit
  <2>6. CASE GuiReads
    <3>1. NextMessage(TheGui) \in Message
      BY <2>6, NextType DEF GuiReads
    <3>2. NextMessage(TheGui).kind \in {"alert", "recent"} => NextMessage(TheGui) \in Event
      BY <3>1 DEF Event
    <3>3. UNCHANGED <<thread, app>> /\ (events' = events \/ \E e \in Event : events' = Append(events, e))
      BY <2>1, <2>6, <3>2 DEF GuiReads, Emit
    <3>4. QED  BY <2>2, <3>3 DEF GuiTypeOK
  <2>7. CASE DrainEvents
    <3>1. Head(events) \in Event /\ Tail(events) \in Seq(Event)
      BY <2>7 DEF DrainEvents, GuiTypeOK
    <3>2. QED  BY <2>7, <3>1, ApplyType DEF DrainEvents, GuiTypeOK
  <2>8. CASE UNCHANGED allVars
    BY <2>8 DEF GuiTypeOK, allVars, guiVars
  <2>9. QED  BY <2>3, <2>4, <2>5, <2>6, <2>7, <2>8 DEF Next, GuiThread
<1>3. QED  BY <1>1, <1>2, GuiIsAClient, IpcTypeCorrect, PTL DEF Spec

-----------------------------------------------------------------------------
(* The light *)

\* The places in a sequence of events of those that switch the light.
Switches(s) == {i \in 1..Len(s) : s[i].kind \in {"connected", "disconnected"}}

\* The light once these events are drained: the last switch sets it.
Light(a, s) ==
  \/ Switches(s) = {} /\ a.connected
  \/ \E i \in Switches(s) :
       (\A j \in Switches(s) : j <= i) /\ s[i].kind = "connected"

\* An event at the end sets the light or leaves it.
LEMMA LightAppend ==
  ASSUME NEW a \in App, NEW s \in Seq(Event), NEW e \in Event
  PROVE  Light(a, Append(s, e)) <=>
           IF e.kind \in {"connected", "disconnected"} THEN e.kind = "connected"
           ELSE Light(a, s)
<1> DEFINE t == Append(s, e)
           n == Len(s) + 1
<1>1. /\ Len(t) = n /\ t[n] = e /\ n \in Nat /\ \A i \in 1..Len(s) : t[i] = s[i]
      /\ \A i \in 1..n : i \in 1..Len(s) \/ i = n
      /\ 1..Len(s) \subseteq 1..n /\ n \in 1..n /\ n \notin 1..Len(s)
  OBVIOUS
<1>2. \A i \in 1..n : i \in Nat /\ i <= n
  BY <1>1
<1> HIDE DEF t, n
<1>3. CASE e.kind \in {"connected", "disconnected"}
  <2>1. n \in Switches(t) /\ \A j \in Switches(t) : j <= n
    BY <1>1, <1>2, <1>3 DEF Switches
  <2>2. \A i \in Switches(t) : (\A j \in Switches(t) : j <= i) => i = n
    BY <1>1, <1>2, <2>1 DEF Switches
  <2>3. Light(a, t) <=> e.kind = "connected"
    BY <1>1, <2>1, <2>2 DEF Light
  <2>4. QED  BY <1>3, <2>3 DEF t
<1>4. CASE e.kind \notin {"connected", "disconnected"}
  <2>1. Switches(t) = Switches(s)
    BY <1>1, <1>4 DEF Switches
  <2>2. \A i \in Switches(s) : t[i] = s[i]
    BY <1>1 DEF Switches
  <2>3. Light(a, t) <=> Light(a, s)
    BY <2>1, <2>2 DEF Light
  <2>4. QED  BY <1>4, <2>3 DEF t
<1>5. QED  BY <1>3, <1>4

\* Draining an event makes no difference to what the light will be.
LEMMA LightDrains ==
  ASSUME NEW a \in App, NEW s \in Seq(Event), s # <<>>
  PROVE  Light(Apply(a, Head(s)), Tail(s)) <=> Light(a, s)
<1> DEFINE t == Tail(s)
           e == Head(s)
           b == Apply(a, e)
           n == Len(s)
<1>1. /\ n \in Nat /\ n > 0 /\ e = s[1] /\ e \in Event
      /\ Len(t) = n - 1 /\ \A i \in 1..n-1 : t[i] = s[i+1]
  OBVIOUS
<1>2. /\ b.connected = IF e.kind = "connected" THEN TRUE
                       ELSE IF e.kind = "disconnected" THEN FALSE ELSE a.connected
  BY <1>1 DEF Apply, App, Event
<1>3. a.connected \in BOOLEAN
  BY DEF App
<1> HIDE DEF t, e, b
<1>4. \A i \in 1..n-1 : i \in Switches(t) <=> i + 1 \in Switches(s)
  BY <1>1 DEF Switches
<1>5. /\ \A i \in Switches(t) : i \in 1..n-1 /\ i + 1 \in Switches(s) /\ t[i] = s[i+1]
      /\ \A i \in Switches(s) : i \in 1..n /\ (i # 1 => i - 1 \in Switches(t) /\ t[i-1] = s[i])
  <2>1. ASSUME NEW i \in Switches(t)
        PROVE  i \in 1..n-1 /\ i + 1 \in Switches(s) /\ t[i] = s[i+1]
    BY <1>1, <1>4 DEF Switches
  <2>2. ASSUME NEW i \in Switches(s)
        PROVE  i \in 1..n /\ (i # 1 => i - 1 \in Switches(t) /\ t[i-1] = s[i])
    <3>1. i \in 1..n
      BY DEF Switches
    <3>2. ASSUME i # 1 PROVE i - 1 \in Switches(t) /\ t[i-1] = s[i]
      <4>1. i - 1 \in 1..n-1 /\ (i - 1) + 1 = i
        BY <1>1, <3>1, <3>2
      <4>2. QED  BY <1>1, <1>4, <4>1
    <3>3. QED  BY <3>1, <3>2
  <2>3. QED  BY <2>1, <2>2
<1>6. CASE Switches(t) = {}
  <2>1. \A i \in Switches(s) : i = 1
    BY <1>5, <1>6
  <2>2. 1 \in Switches(s) <=> e.kind \in {"connected", "disconnected"}
    BY <1>1 DEF Switches
  <2>3. Light(b, t) <=> b.connected
    BY <1>6 DEF Light
  <2>4. CASE 1 \in Switches(s)
    <3>1. Light(a, s) <=> e.kind = "connected"
      BY <1>1, <2>1, <2>4 DEF Light
    <3>2. QED  BY <1>2, <2>2, <2>3, <2>4, <3>1 DEF t, e, b
  <2>5. CASE 1 \notin Switches(s)
    <3>1. Switches(s) = {}
      BY <2>1, <2>5
    <3>2. Light(a, s) <=> a.connected
      BY <3>1 DEF Light
    <3>3. b.connected = a.connected
      BY <1>2, <2>2, <2>5
    <3>4. QED  BY <2>3, <3>2, <3>3 DEF t, e, b
  <2>6. QED  BY <2>4, <2>5
<1>7. CASE Switches(t) # {}
  <2>1. PICK x : x \in Switches(t)
    BY <1>7
  <2>2. x + 1 \in Switches(s) /\ x \in 1..n-1
    BY <1>5, <2>1
  <2>3. ASSUME NEW i \in Switches(t), \A j \in Switches(t) : j <= i
        PROVE  i + 1 \in Switches(s) /\ \A j \in Switches(s) : j <= i + 1
    <3>1. i \in 1..n-1 /\ i + 1 \in Switches(s)
      BY <1>5
    <3>2. ASSUME NEW j \in Switches(s) PROVE j <= i + 1
      <4>1. j \in 1..n /\ (j # 1 => j - 1 \in Switches(t))
        BY <1>5
      <4>2. j # 1 => j - 1 <= i
        BY <2>3, <4>1
      <4>3. QED  BY <1>1, <3>1, <4>1, <4>2
    <3>3. QED  BY <3>1, <3>2
  <2>4. ASSUME NEW i \in Switches(s), \A j \in Switches(s) : j <= i
        PROVE  i - 1 \in Switches(t) /\ (\A j \in Switches(t) : j <= i - 1) /\ t[i-1] = s[i]
    <3>1. i \in 1..n /\ i # 1
      BY <1>1, <1>5, <2>2, <2>4
    <3>2. i - 1 \in Switches(t) /\ t[i-1] = s[i]
      BY <1>5, <3>1
    <3>3. ASSUME NEW j \in Switches(t) PROVE j <= i - 1
      <4>1. j \in 1..n-1 /\ j + 1 \in Switches(s)
        BY <1>5
      <4>2. j + 1 <= i
        BY <2>4, <4>1
      <4>3. QED  BY <1>1, <3>1, <4>1, <4>2
    <3>4. QED  BY <3>2, <3>3
  <2>5. ASSUME Light(b, t) PROVE Light(a, s)
    <3>1. PICK i \in Switches(t) : (\A j \in Switches(t) : j <= i) /\ t[i].kind = "connected"
      BY <1>7, <2>5 DEF Light
    <3>2. i + 1 \in Switches(s) /\ (\A j \in Switches(s) : j <= i + 1) /\ s[i+1].kind = "connected"
      BY <1>5, <2>3, <3>1
    <3>3. QED  BY <3>2 DEF Light
  <2>6. ASSUME Light(a, s) PROVE Light(b, t)
    <3>1. PICK i \in Switches(s) : (\A j \in Switches(s) : j <= i) /\ s[i].kind = "connected"
      BY <2>2, <2>6 DEF Light
    <3>2. i - 1 \in Switches(t) /\ (\A j \in Switches(t) : j <= i - 1) /\ t[i-1].kind = "connected"
      BY <2>4, <3>1
    <3>3. QED  BY <3>2 DEF Light
  <2>7. QED  BY <2>5, <2>6 DEF t, e, b
<1>8. QED  BY <1>6, <1>7

\* The interface's end of a connection is open.
Bound == {"pending", "open", "hup"}

\* The daemon cannot make or undo the client's end of a connection.
LEMMA BoundStays ==
  ASSUME IpcTypeOK, DaemonNext, NEW c \in Clients
  PROVE  conn[c].link \in Bound <=> conn'[c].link \in Bound
<1>1. conn \in [Clients -> Connection] /\ conn[c] \in Connection
  BY DEF IpcTypeOK
<1>2. CASE UNCHANGED conn
  BY <1>2
<1>3. CASE HangUp
  BY <1>1, <1>3, NoConnType DEF HangUp, Connection, Bound
<1>4. CASE ListenerGone
  BY <1>1, <1>4 DEF ListenerGone, Connection, Bound
<1>5. ASSUME NEW d \in Clients, Accept(d) \/ HandleRequest(d) \/ Relay(d) \/ EndSession(d)
      PROVE  conn[c].link \in Bound <=> conn'[c].link \in Bound
  <2>1. CASE c # d
    BY <1>1, <1>5, <2>1 DEF Accept, HandleRequest, Relay, EndSession
  <2>2. CASE c = d
    <3> DEFINE r == conn[c]
    <3>1. CASE EndSession(c)
      BY <1>1, <3>1, NoConnType DEF EndSession, Bound
    <3>2. CASE Accept(c)
      BY <1>1, <3>2 DEF Accept, Sends, Connection, Bound
    <3>3. CASE Relay(c)
      <4>1. PICK msgs : conn'[c] =
              IF r.cursor < Len(feed) - BroadcastCapacity
              THEN [r EXCEPT !.cursor = Len(feed) - BroadcastCapacity,
                             !.missed = @ + ((Len(feed) - BroadcastCapacity) - r.cursor)]
              ELSE Sends([r EXCEPT !.cursor = @ + 1], msgs)
        BY <1>1, <3>3 DEF Relay
      <4>2. r \in Connection
        BY <1>1
      <4>3. QED  BY <4>1, <4>2, NoConnType DEF Sends, Connection, Bound
    <3>4. CASE HandleRequest(c)
      <4> DEFINE req == r.asked[r.served + 1]
                 x == r.served + 1
                 y == r.subscribed \/ req.kind = "subscribe"
                 k == [r EXCEPT !.served = x, !.subscribed = y]
                 msgs == Answer(req)
      <4>1. /\ conn'[c] = IF req.kind # "not_utf8" THEN Sends(k, msgs)
                          ELSE IF r.link = "open" THEN [k EXCEPT !.link = "hup"] ELSE NoConn
            /\ r.link \in {"open", "closed"}
        BY <1>1, <3>4 DEF HandleRequest, Selecting
      <4> HIDE DEF x, y, req, msgs
      <4>2. k.link = r.link /\ k.sent = r.sent
        BY <1>1 DEF Connection
      <4>3. \/ conn'[c] = [k EXCEPT !.sent = r.sent \o msgs]
            \/ r.link = "open" /\ conn'[c] = [k EXCEPT !.link = "hup"]
            \/ r.link = "closed" /\ conn'[c] = NoConn
        BY <4>1, <4>2 DEF Sends
      <4>4. \A z : /\ [k EXCEPT !.sent = z].link = r.link
                   /\ [k EXCEPT !.link = z].link = z
        BY <1>1 DEF Connection
      <4>5. \/ conn'[c].link = r.link
            \/ r.link = "open" /\ conn'[c].link = "hup"
            \/ r.link = "closed" /\ conn'[c].link = "none"
        BY <4>3, <4>4, NoConnType
      <4>6. QED  BY <4>5 DEF Bound
    <3>5. QED  BY <1>5, <2>2, <3>1, <3>2, <3>3, <3>4
  <2>3. QED  BY <2>1, <2>2
<1>6. QED
  BY <1>2, <1>3, <1>4, <1>5 DEF DaemonNext, IpcWork, Session, Listen, AcceptFails, ipcVars

\* Where the thread is and what it has of a connection: it holds its end of one from
\* connect until it goes to sleep, and reads nothing before it has asked.
ThreadInv ==
  LET k == conn[TheGui]
  IN  /\ thread \in {"subscribe", "recent", "read"} <=> k.link \in Bound
      /\ thread \in {"subscribe", "recent"} => k.taken = 0

\* The light as it will be once the events that wait are drained.
LightInv ==
  /\ ThreadInv
  /\ Light(app, events) <=> (thread = "read" /\ conn[TheGui].taken > 0)

\* What a client does to its connection.
LEMMA ClientActs ==
  ASSUME IpcTypeOK
  PROVE  LET k == conn[TheGui]
             k2 == conn'[TheGui]
         IN  /\ k \in Connection
             /\ Connect(TheGui) => k.link = "none" /\ k2 = [k EXCEPT !.link = "pending"]
             /\ \A req \in Request : Ask(TheGui, req) =>
                  k.link \in {"pending", "open"} /\ k2 = [k EXCEPT !.asked = Append(@, req)]
             /\ Take(TheGui) => k2 = [k EXCEPT !.taken = @ + 1]
             /\ Close(TheGui) => /\ k.link \in Bound
                                 /\ k2 = IF k.link = "open" THEN [k EXCEPT !.link = "closed"]
                                         ELSE NoConn
BY GuiAssumption DEF IpcTypeOK, Connect, Ask, Take, Close, Bound

\* Every step keeps the light in agreement with the thread.
LEMMA LightStep ==
  ASSUME IpcTypeOK, TalkInv, GuiTypeOK, LightInv, [Next]_allVars
  PROVE  LightInv'
<1> DEFINE k == conn[TheGui]
           k2 == conn'[TheGui]
<1>1. /\ k \in Connection /\ TalkOK(k) /\ k.taken \in Nat
      /\ k.link \in {"none", "pending"} => k.sent = <<>>
      /\ app \in App /\ events \in Seq(Event)
      /\ thread \in {"connect", "subscribe", "recent", "read", "sleep"}
  BY GuiAssumption DEF IpcTypeOK, TalkInv, GuiTypeOK, Connection
<1>2. /\ thread \in {"subscribe", "recent", "read"} <=> k.link \in Bound
      /\ thread \in {"subscribe", "recent"} => k.taken = 0
      /\ Light(app, events) <=> (thread = "read" /\ k.taken > 0)
  BY DEF LightInv, ThreadInv
<1>3. /\ Connected \in Event /\ Connected.kind = "connected"
      /\ Disconnected \in Event /\ Disconnected.kind = "disconnected"
  BY DEF Connected, Disconnected, Event
<1>4. /\ Light(app, Append(events, Connected))
      /\ ~Light(app, Append(events, Disconnected))
  BY <1>1, <1>3, LightAppend
<1> SUFFICES /\ thread' \in {"subscribe", "recent", "read"} <=> k2.link \in Bound
             /\ thread' \in {"subscribe", "recent"} => k2.taken = 0
             /\ Light(app', events') <=> (thread' = "read" /\ k2.taken > 0)
  BY DEF LightInv, ThreadInv, Light, Switches
<1>5. CASE UNCHANGED <<conn, thread, app, events>>
  BY <1>2, <1>5
<1>6. CASE DaemonNext /\ UNCHANGED guiVars
  <2>1. k.link \in Bound <=> k2.link \in Bound
    BY <1>6, BoundStays, GuiAssumption
  <2>2. k2.taken = k.taken \/ (k2 = NoConn /\ k2.link \notin Bound)
    BY <1>6, TakenStays, NoConnType, GuiAssumption DEF Bound
  <2>3. UNCHANGED <<thread, app, events>>
    BY <1>6 DEF guiVars
  <2>4. QED  BY <1>2, <2>1, <2>2, <2>3
<1>7. CASE GuiConnect
  <2>1. /\ k.link = "none" /\ k2 = [k EXCEPT !.link = "pending"] /\ thread = "connect"
        /\ thread' = "subscribe" /\ UNCHANGED <<events, app>>
    BY <1>7, ClientActs DEF GuiConnect
  <2>2. k2.link = "pending" /\ k2.taken = k.taken
    BY <1>1, <2>1 DEF Connection
  <2>3. k.taken = 0
    <3>1. k.sent = <<>> /\ k.taken <= Len(k.sent)
      BY <1>1, <2>1 DEF TalkOK
    <3>2. QED  BY <1>1, <3>1
  <2>4. QED  BY <1>2, <2>1, <2>2, <2>3 DEF Bound
<1>8. CASE GuiRefused
  <2>1. /\ UNCHANGED <<conn, app>> /\ thread = "connect" /\ thread' = "sleep"
        /\ events' = Append(events, Disconnected)
    BY <1>8 DEF GuiRefused, Emit, vars, ipcVars
  <2>2. QED  BY <1>2, <1>4, <2>1
<1>9. CASE GuiAsks
  <2>1. PICK req \in Request : Ask(TheGui, req)
    BY <1>9, GuiAssumption DEF GuiAsks, Request
  <2>2. k.link \in {"pending", "open"} /\ k2 = [k EXCEPT !.asked = Append(@, req)]
    BY <2>1, ClientActs
  <2>3. k2.link = k.link /\ k2.taken = k.taken /\ k.link \in Bound
    BY <1>1, <2>2 DEF Connection, Bound
  <2>4. /\ thread \in {"subscribe", "recent"} /\ thread' \in {"recent", "read"}
        /\ UNCHANGED <<events, app>>
    BY <1>9 DEF GuiAsks
  <2>5. QED  BY <1>2, <2>3, <2>4
<1>10. CASE GuiAskFails \/ GuiHangup \/ GuiCloneFails
  <2>1. Close(TheGui) /\ thread' = "sleep" /\ UNCHANGED app
    BY <1>10 DEF GuiAskFails, GuiHangup, GuiCloneFails
  <2>2. k2.link \in {"closed", "none"}
    BY <1>1, <2>1, ClientActs, NoConnType DEF Connection
  <2>3. CASE GuiAskFails \/ GuiHangup
    <3>1. events' = Append(events, Disconnected)
      BY <2>3 DEF GuiAskFails, GuiHangup, Emit
    <3>2. QED  BY <1>4, <2>1, <2>2, <3>1 DEF Bound
  <2>4. CASE GuiCloneFails
    <3>1. events' = events /\ k.taken = 0
      BY <2>4 DEF GuiCloneFails
    <3>2. QED  BY <1>2, <2>1, <2>2, <3>1 DEF Bound
  <2>5. QED  BY <1>10, <2>3, <2>4
<1>11. CASE GuiReads
  <2> DEFINE m == NextMessage(TheGui)
  <2>1. /\ thread = "read" /\ UNCHANGED <<thread, app>> /\ CanTake(TheGui)
        /\ k2 = [k EXCEPT !.taken = @ + 1]
        /\ CASE m.kind = "hello" -> Emit(Connected)
             [] m.kind \in {"alert", "recent"} -> Emit(m)
             [] OTHER -> UNCHANGED events
    BY <1>11, ClientActs DEF GuiReads
  <2>2. m \in Message /\ m = k.sent[k.taken + 1] /\ k.taken + 1 \in 1..Len(k.sent)
    BY <2>1, NextType
  <2>3. k2.taken = k.taken + 1 /\ k2.link = k.link
    BY <1>1, <2>1 DEF Connection
  <2>4. m.kind = "hello" <=> k.taken + 1 = 1
    BY <1>1, <2>2 DEF TalkOK, HelloFirst
  <2> HIDE DEF m
  <2>5. Light(app, events')
    <3>1. CASE m.kind = "hello"
      <4>1. events' = Append(events, Connected)
        BY <2>1, <3>1 DEF Emit
      <4>2. QED  BY <1>4, <4>1
    <3>2. CASE m.kind # "hello"
      <4>1. k.taken > 0
        BY <1>1, <2>4, <3>2
      <4>2. Light(app, events)
        BY <1>2, <2>1, <4>1
      <4>3. CASE m.kind \in {"alert", "recent"}
        <5>1. m \in Event /\ events' = Append(events, m)
          BY <2>1, <2>2, <4>3 DEF Emit, Event
        <5>2. QED  BY <1>1, <4>2, <4>3, <5>1, LightAppend
      <4>4. CASE m.kind \notin {"alert", "recent"}
        BY <2>1, <3>2, <4>2, <4>4
      <4>5. QED  BY <4>3, <4>4
    <3>3. QED  BY <3>1, <3>2
  <2>6. QED  BY <1>1, <1>2, <2>1, <2>3, <2>5
<1>12. CASE GuiWakes
  <2>1. UNCHANGED <<conn, events, app>> /\ thread = "sleep" /\ thread' = "connect"
    BY <1>12 DEF GuiWakes, vars, ipcVars
  <2>2. QED  BY <1>2, <2>1
<1>13. CASE DrainEvents
  <2>1. /\ UNCHANGED <<conn, thread>> /\ events # <<>>
        /\ app' = Apply(app, Head(events)) /\ events' = Tail(events)
    BY <1>13 DEF DrainEvents, vars, ipcVars
  <2>2. Light(app', events') <=> Light(app, events)
    BY <1>1, <2>1, LightDrains
  <2>3. QED  BY <1>2, <2>1, <2>2
<1>14. QED
  BY <1>5, <1>6, <1>7, <1>8, <1>9, <1>10, <1>11, <1>12, <1>13
     DEF Next, GuiThread, allVars, guiVars, vars, ipcVars

\* The light is what the thread's connection makes it, once the events are drained, in
\* every reachable state: no path through the thread leaves it stale.
LEMMA LightInvariant == Spec => []LightInv
<1>1. Init => LightInv
  <2> SUFFICES ASSUME Init PROVE LightInv
    OBVIOUS
  <2>1. /\ conn[TheGui] = NoConn /\ thread = "connect" /\ events = <<>>
        /\ app = [connected |-> FALSE, alerts |-> <<>>]
    BY GuiAssumption DEF Init, GuiInit, IpcInit
  <2>2. Switches(events) = {} /\ NoConn.link = "none"
    BY <2>1, NoConnType DEF Switches
  <2>3. QED  BY <2>1, <2>2 DEF LightInv, ThreadInv, Light, Bound
<1>2. IpcTypeOK /\ TalkInv /\ GuiTypeOK /\ LightInv /\ [Next]_allVars => LightInv'
  BY LightStep
<1>3. QED
  BY <1>1, <1>2, GuiIsAClient, GuiTypeCorrect, IpcTypeCorrect, TalkInvariant, PTL DEF Spec

\* The light is green exactly while the thread reads from a daemon that has said Hello,
\* whenever no event waits, over every sequence of connections, refusals, hang-ups and
\* failed clones.
THEOREM LightIsTrue == Spec => []LightAgrees
<1>1. GuiTypeOK /\ LightInv => LightAgrees
  <2> SUFFICES ASSUME GuiTypeOK, LightInv, events = <<>>
               PROVE  app.connected <=> thread = "read" /\ conn[TheGui].taken > 0
    BY DEF LightAgrees
  <2>1. Switches(events) = {}
    BY DEF Switches
  <2>2. Light(app, events) <=> app.connected
    BY <2>1 DEF Light
  <2>3. QED  BY <2>2 DEF LightInv
<1>2. QED  BY <1>1, LightInvariant, GuiTypeCorrect, PTL

-----------------------------------------------------------------------------
(* What the interface is told *)

\* The alerts a message or an event carries.
Of(m) ==
  CASE m.kind = "alert" -> {m.alert}
    [] m.kind = "recent" -> {m.alerts[i] : i \in 1..Len(m.alerts)}
    [] OTHER -> {}

InRecorded(x) == \E i \in 1..Len(Recorded) : Recorded[i] = x

\* A Recent that is answered now holds the newest of the recorded alerts.
LEMMA RecentAre ==
  ASSUME TypeOK, FeedNumbered, StateMatchesRecorded, NEW limit \in Nat
  PROVE  LET s == LastN(state.recent, limit)
         IN  \A j \in 1..Len(s) : /\ Len(Recorded) - Len(s) + j \in 1..Len(Recorded)
                                  /\ s[j] = Recorded[Len(Recorded) - Len(s) + j]
<1> DEFINE r == state.recent
           s == LastN(r, limit)
           n == Len(Recorded)
<1>1. Recorded \in Seq(Alert) /\ n \in Nat
  BY RecordedRanks
<1>2. r = LastN(Recorded, RecentCapacity) /\ RecentCapacity \in Nat \ {0}
  BY CapacityPositive DEF StateMatchesRecorded
<1>3. r \in Seq(Alert) /\ Len(r) \in Nat /\ Len(r) <= n
  BY <1>1, <1>2, LastNType
<1>4. ASSUME NEW k \in 1..Len(r) PROVE r[k] = Recorded[n - Len(r) + k]
  <2>1. CASE n <= RecentCapacity
    <3>1. r = Recorded
      BY <1>2, <2>1 DEF LastN
    <3> HIDE DEF r
    <3>2. Len(r) = n /\ n - Len(r) + k = k
      BY <1>1, <3>1
    <3>3. QED  BY <3>1, <3>2
  <2>2. CASE n > RecentCapacity
    <3>1. Len(r) = RecentCapacity /\ k \in 1..RecentCapacity /\ RecentCapacity <= n
      BY <1>1, <1>2, <2>2, LastNType
    <3>2. QED  BY <1>1, <1>2, <3>1, LastNElement
  <2>3. QED  BY <1>1, <1>2, <2>1, <2>2
<1> HIDE DEF r, n
<1>5. s \in Seq(Alert) /\ Len(s) \in Nat /\ Len(s) = IF Len(r) <= limit THEN Len(r) ELSE limit
  BY <1>3, LastNType
<1>6. ASSUME NEW j \in 1..Len(s)
      PROVE  n - Len(s) + j \in 1..n /\ s[j] = Recorded[n - Len(s) + j]
  <2>1. CASE Len(r) <= limit
    <3>1. s = r
      BY <2>1 DEF LastN
    <3>2. QED  BY <1>1, <1>3, <1>4, <3>1
  <2>2. CASE Len(r) > limit
    <3>1. j \in 1..limit /\ limit <= Len(r) /\ Len(s) = limit
      BY <1>3, <1>5, <2>2
    <3>2. s[j] = r[Len(r) - limit + j]
      BY <1>3, <3>1, LastNElement
    <3>3. Len(r) - limit + j \in 1..Len(r)
      BY <1>3, <3>1
    <3>4. r[Len(r) - limit + j] = Recorded[n - Len(r) + (Len(r) - limit + j)]
      BY <1>4, <3>3
    <3>5. n - Len(r) + (Len(r) - limit + j) = n - Len(s) + j /\ n - Len(s) + j \in 1..n
      BY <1>1, <1>3, <3>1
    <3>6. QED  BY <3>2, <3>4, <3>5
  <2>3. QED  BY <1>3, <2>1, <2>2
<1>7. QED  BY <1>6 DEF r, n

\* The answer to a line carries nothing but recorded alerts.
LEMMA AnswerTells ==
  ASSUME TypeOK, FeedNumbered, StateMatchesRecorded, NEW req \in Request
  PROVE  \/ Answer(req) = <<>>
         \/ \E m \in Message : Answer(req) = <<m>> /\ \A x \in Of(m) : InRecorded(x)
<1> SUFFICES ASSUME NEW m \in Message, Answer(req) = <<m>>,
                    \/ m = [kind |-> "pong"] \/ m = [kind |-> "error"]
                    \/ m = [kind |-> "stats", stats |-> StatsSnapshot(state)]
                    \/ \E limit \in Limits :
                         m = [kind |-> "recent", alerts |-> LastN(state.recent, Capped(limit))]
             PROVE  \A x \in Of(m) : InRecorded(x)
  BY AnswerIs
<1>1. CASE m.kind \notin {"alert", "recent"}
  BY <1>1 DEF Of
<1>2. ASSUME NEW limit \in Limits,
             m = [kind |-> "recent", alerts |-> LastN(state.recent, Capped(limit))]
      PROVE  \A x \in Of(m) : InRecorded(x)
  <2> DEFINE s == LastN(state.recent, Capped(limit))
  <2>1. Capped(limit) \in Nat
    BY IpcAssumption DEF Capped
  <2>2. \A j \in 1..Len(s) : /\ Len(Recorded) - Len(s) + j \in 1..Len(Recorded)
                             /\ s[j] = Recorded[Len(Recorded) - Len(s) + j]
    BY <2>1, RecentAre
  <2>3. \A j \in 1..Len(s) : InRecorded(s[j])
    <3> HIDE DEF s
    <3>1. QED  BY <2>2 DEF InRecorded
  <2>4. m.kind = "recent" /\ m.alerts = s
    BY <1>2
  <2>5. Of(m) = {s[j] : j \in 1..Len(s)}
    BY <2>4 DEF Of
  <2>6. QED  BY <2>3, <2>5
<1>3. QED  BY <1>1, <1>2

\* The events are as before, but for one that says Disconnected.
EventsStay == app' = app /\ (events' = events \/ events' = Append(events, Disconnected))

\* Some of what was to be read may be lost.
IsLeft(k, k2) ==
  /\ Works \/ Halt
  /\ EventsStay
  /\ \A u \in k2.taken + 1 .. Len(k2.sent) :
       u \in k.taken + 1 .. Len(k.sent) /\ k2.sent[u] = k.sent[u]

\* The session writes one more message, of what is recorded.
IsTold(k, k2) ==
  /\ UNCHANGED pipeVars /\ EventsStay /\ k2.taken = k.taken
  /\ \E m \in Message : k2.sent = k.sent \o <<m>> /\ \A x \in Of(m) : InRecorded(x)

\* The thread reads a message and passes on what it carries.
IsRead(k, k2) ==
  /\ UNCHANGED pipeVars /\ UNCHANGED app
  /\ k.taken < Len(k.sent) /\ k2 = [k EXCEPT !.taken = @ + 1]
  /\ LET m == k.sent[k.taken + 1]
     IN  \/ Of(m) = {} /\ events' = events
         \/ \E e \in Event : Of(e) = Of(m) /\ events' = Append(events, e)

IsDrained ==
  /\ UNCHANGED vars /\ events # <<>>
  /\ app' = Apply(app, Head(events)) /\ events' = Tail(events)

\* Only the thread reads what was written to the interface.
LEMMA TakenKept ==
  ASSUME IpcTypeOK, [Next]_allVars, ~GuiReads
  PROVE  conn'[TheGui].taken = conn[TheGui].taken \/ conn'[TheGui] = NoConn
<1> DEFINE k == conn[TheGui]
           k2 == conn'[TheGui]
<1>1. k \in Connection
  BY GuiAssumption DEF IpcTypeOK
<1>2. CASE DaemonNext
  BY <1>2, TakenStays, GuiAssumption
<1>3. CASE UNCHANGED vars
  BY <1>3 DEF vars, ipcVars
<1>4. CASE Connect(TheGui) \/ \E req \in Request : Ask(TheGui, req)
  BY <1>1, <1>4, ClientActs DEF Connection
<1>5. CASE Close(TheGui)
  BY <1>1, <1>5, ClientActs DEF Connection
<1>6. /\ [kind |-> "subscribe"] \in Request
      /\ [kind |-> "get_recent", limit |-> GuiLimit] \in Request
  BY GuiAssumption DEF Request
<1>7. QED
  BY <1>2, <1>3, <1>4, <1>5, <1>6
     DEF Next, GuiThread, GuiConnect, GuiRefused, GuiAsks, GuiAskFails, GuiHangup,
         GuiWakes, GuiCloneFails, DrainEvents, allVars

\* What is in the feed is recorded.
LEMMA FeedRecorded ==
  ASSUME TypeOK, NEW i \in 1..Len(feed)
  PROVE  feed[i] \in Alert /\ InRecorded(feed[i])
<1>1. feed \in Seq(Alert) /\ (Recorded = feed \/ Recorded = Append(feed, hand))
  BY DEF TypeOK, Recorded
<1>2. CASE Recorded = feed
  BY <1>1, <1>2 DEF InRecorded
<1>3. CASE Recorded = Append(feed, hand)
  <2>1. i \in 1..Len(Recorded) /\ Recorded[i] = feed[i]
    BY <1>1, <1>3
  <2>2. QED  BY <1>1, <2>1 DEF InRecorded
<1>4. QED  BY <1>1, <1>2, <1>3

\* A step in which the interface reads nothing and takes no event.
LEMMA UnreadSteps ==
  ASSUME TypeOK, FeedNumbered, StateMatchesRecorded, IpcTypeOK, IpcTypeOK', [Next]_allVars,
         ~GuiReads, ~DrainEvents
  PROVE  LET k == conn[TheGui]
             k2 == conn'[TheGui]
         IN  IsLeft(k, k2) \/ IsTold(k, k2)
<1> DEFINE k == conn[TheGui]
           k2 == conn'[TheGui]
<1> SUFFICES IsLeft(k, k2) \/ IsTold(k, k2)
  OBVIOUS
<1>0. /\ k \in Connection /\ k2 \in Connection /\ Moves(k, k2)
      /\ k.sent \in Seq(Message) /\ k.taken \in Nat /\ k2.taken \in Nat /\ Len(k.sent) \in Nat
  BY GuiAssumption, ServerStep, ConnSteps DEF IpcTypeOK, Connection
<1>1. EventsStay
  BY DEF Next, GuiThread, GuiConnect, GuiRefused, GuiAsks, GuiAskFails, GuiHangup,
       GuiWakes, GuiCloneFails, allVars, guiVars, EventsStay, Emit
<1>2. k2.taken = k.taken \/ k2 = NoConn
  BY TakenKept
<1>3. Works \/ Halt
  BY ServerStep, PipeStep DEF PipeNext, Works
<1> HIDE DEF k, k2
<1>4. CASE k2 = NoConn
  <2>1. k2.taken + 1 .. Len(k2.sent) = {}
    BY <1>4 DEF NoConn
  <2>2. QED  BY <1>1, <1>3, <2>1 DEF IsLeft, k, k2
<1>5. ASSUME k2.taken = k.taken, k2.sent = k.sent PROVE IsLeft(k, k2)
  <2>1. \A u \in k.taken + 1 .. Len(k.sent) : k2.sent[u] = k.sent[u]
    BY <1>5
  <2>2. QED  BY <1>1, <1>3, <1>5, <2>1 DEF IsLeft
<1>6. CASE k2.taken = k.taken /\ ((Works /\ Idles(k, k2)) \/ (UNCHANGED pipeVars /\ IsLagged(k, k2)))
  BY <1>5, <1>6 DEF Idles, IsLagged, k, k2
<1>7. CASE k2.taken = k.taken /\ Halt /\ IsHungUp(k, k2)
  <2>1. CASE k2.sent = k.sent
    BY <1>5, <1>7, <2>1 DEF k, k2
  <2>2. CASE k2.sent = Front(k.sent)
    <3>1. \A u \in k2.taken + 1 .. Len(k2.sent) :
            u \in k.taken + 1 .. Len(k.sent) /\ k2.sent[u] = k.sent[u]
      <4>1. CASE k.sent = <<>>
        <5>1. k2.taken + 1 .. Len(k2.sent) = {}
          BY <1>0, <2>2, <4>1 DEF Front
        <5>2. QED  BY <5>1
      <4>2. CASE k.sent # <<>>
        BY <1>0, <1>7, <2>2, <4>2 DEF Front
      <4>3. QED  BY <4>1, <4>2
    <3>2. QED  BY <1>1, <1>3, <3>1 DEF IsLeft, k, k2
  <2>3. QED  BY <1>7, <2>1, <2>2 DEF IsHungUp
<1>8. ASSUME UNCHANGED pipeVars, k2.taken = k.taken, NEW m \in Message,
             k2.sent = k.sent \o <<m>>, \A x \in Of(m) : InRecorded(x)
      PROVE  IsTold(k, k2)
  BY <1>1, <1>8 DEF IsTold
<1>9. CASE k2.taken = k.taken /\ UNCHANGED pipeVars /\ IsAccepted(k, k2)
  <2>1. Of([kind |-> "hello"]) = {}
    BY DEF Of
  <2>2. QED  BY <1>8, <1>9, <2>1, MessageKinds DEF IsAccepted, k, k2
<1>10. CASE k2.taken = k.taken /\ UNCHANGED pipeVars /\ IsAnswered(k, k2)
  <2>1. PICK req \in Request : k2.sent = k.sent \o Answer(req)
    BY <1>10 DEF IsAnswered
  <2>2. CASE Answer(req) = <<>>
    <3>1. k2.sent = k.sent
      BY <1>0, <2>1, <2>2
    <3>2. QED  BY <1>5, <1>10, <3>1 DEF k, k2
  <2>3. CASE Answer(req) # <<>>
    <3>1. PICK m \in Message : Answer(req) = <<m>> /\ \A x \in Of(m) : InRecorded(x)
      BY <2>3, AnswerTells
    <3>2. QED  BY <1>8, <1>10, <2>1, <3>1 DEF k, k2
  <2>4. QED  BY <2>2, <2>3
<1>11. CASE k2.taken = k.taken /\ UNCHANGED pipeVars /\ IsRelayed(k, k2)
  <2> DEFINE a == feed[k.cursor + 1]
             m == [kind |-> "alert", alert |-> a]
  <2>1. k2.sent = k.sent \o <<m>> /\ k.cursor < Len(feed) /\ k.cursor \in Nat
        /\ feed \in Seq(Alert)
    BY <1>0, <1>11 DEF IsRelayed, Connection, TypeOK
  <2>2. k.cursor + 1 \in 1..Len(feed) /\ a \in Alert
    BY <2>1
  <2>3. InRecorded(a)
    BY <2>2, FeedRecorded
  <2>4. m \in Message /\ m.kind = "alert" /\ m.alert = a
    BY <2>2, MessageKinds
  <2>5. Of(m) = {a}
    BY <2>4 DEF Of
  <2> HIDE DEF m, a
  <2>6. \A x \in Of(m) : InRecorded(x)
    BY <2>3, <2>5
  <2>7. QED  BY <1>8, <1>11, <2>1, <2>4, <2>6 DEF k, k2
<1>12. QED  BY <1>0, <1>2, <1>4, <1>6, <1>7, <1>9, <1>10, <1>11 DEF Moves, k, k2

\* Every step of the system, by what the interface is told in it.
LEMMA ToldSteps ==
  ASSUME TypeOK, FeedNumbered, StateMatchesRecorded, IpcTypeOK, IpcTypeOK', [Next]_allVars
  PROVE  LET k == conn[TheGui]
             k2 == conn'[TheGui]
         IN  IsLeft(k, k2) \/ IsTold(k, k2) \/ IsRead(k, k2) \/ IsDrained
<1> DEFINE k == conn[TheGui]
           k2 == conn'[TheGui]
<1> SUFFICES IsLeft(k, k2) \/ IsTold(k, k2) \/ IsRead(k, k2) \/ IsDrained
  OBVIOUS
<1>1. /\ k \in Connection /\ k2 \in Connection /\ Moves(k, k2)
      /\ k.sent \in Seq(Message) /\ k.taken \in Nat /\ k2.taken \in Nat /\ Len(k.sent) \in Nat
  BY GuiAssumption, ServerStep, ConnSteps DEF IpcTypeOK, Connection
<1>2. CASE DrainEvents
  BY <1>2 DEF DrainEvents, IsDrained
<1>3. CASE GuiReads
  <2> DEFINE m == NextMessage(TheGui)
  <2>1. /\ UNCHANGED <<pipeVars, app>> /\ CanTake(TheGui)
        /\ k2 = [k EXCEPT !.taken = @ + 1]
        /\ CASE m.kind = "hello" -> Emit(Connected)
             [] m.kind \in {"alert", "recent"} -> Emit(m)
             [] OTHER -> UNCHANGED events
    BY <1>3, ClientActs DEF GuiReads, Take
  <2>2. m \in Message /\ m = k.sent[k.taken + 1] /\ k.taken < Len(k.sent)
    BY <2>1, NextType DEF CanTake
  <2>3. Connected \in Event /\ Of(Connected) = {}
    BY DEF Connected, Event, Of
  <2> HIDE DEF m, k, k2
  <2>4. \/ Of(m) = {} /\ events' = events
        \/ \E e \in Event : Of(e) = Of(m) /\ events' = Append(events, e)
    <3>1. CASE m.kind = "hello"
      <4>1. Of(m) = {} /\ events' = Append(events, Connected)
        BY <2>1, <3>1 DEF Emit, Of
      <4>2. QED  BY <2>3, <4>1
    <3>2. CASE m.kind \in {"alert", "recent"}
      BY <2>1, <2>2, <3>2 DEF Emit, Event
    <3>3. CASE m.kind \notin {"hello", "alert", "recent"}
      BY <2>1, <3>3 DEF Of
    <3>4. QED  BY <3>1, <3>2, <3>3
  <2>5. IsRead(k, k2)
    BY <2>1, <2>2, <2>4 DEF IsRead
  <2>6. QED  BY <2>5 DEF k, k2
<1>4. CASE ~DrainEvents /\ ~GuiReads
  <2>1. IsLeft(k, k2) \/ IsTold(k, k2)
    BY <1>4, UnreadSteps
  <2>2. QED  BY <2>1
<1>5. QED  BY <1>2, <1>3, <1>4

-----------------------------------------------------------------------------
(* Alerts of this process of the daemon and of those before it *)

\* Some part of the daemon that runs holds the alert.
IsHere(a) ==
  \/ \E i \in 1..Len(Path) : Path[i] = a
  \/ \E m \in Monitors : pending[m] # NoAlert /\ pending[m] = a

\* Nothing that the daemon holds is as old as the alert.
Past(x) == \A a \in Alert : IsHere(a) => x.tag < a.tag /\ x.ts <= a.ts

\* The alert was recorded by this process or by one before it.
Known(x) == x.tag <= raised /\ x.ts <= now /\ (InRecorded(x) \/ Past(x))

\* What the daemon holds was raised before now.
RaisedBefore == \A a \in Alert : IsHere(a) => a.tag <= raised /\ a.ts <= now

\* Neither the clock nor the counts of alerts and of boots go back.
LEMMA NothingGoesBack ==
  ASSUME TypeOK, [PipeNext]_pipeVars
  PROVE  /\ now \in Nat /\ now' \in Nat /\ now <= now'
         /\ raised \in Nat /\ raised' \in Nat /\ raised <= raised'
         /\ boot \in Nat /\ boot' \in Nat /\ boot <= boot'
<1>1. now \in Nat /\ raised \in Nat /\ boot \in Nat
  BY PipelineAssumption DEF TypeOK
<1>2. /\ now' = now \/ now' = now + 1
      /\ raised' = raised \/ raised' = raised + 1
      /\ boot' = boot \/ boot' = boot + 1
  BY DEF PipeNext, PipeWork, Dispatch, Tick, Raise, Enqueue, Receive, WriteObject,
         WriteNewline, WriteFails, Record, Broadcast, Halt, Start, pipeVars
<1>3. QED  BY <1>1, <1>2

\* What the daemon holds after a step it held before, or it is raised in it.
LEMMA HereStep ==
  ASSUME TypeOK, [PipeNext]_pipeVars, NEW a \in Alert, IsHere(a)'
  PROVE  \/ \E b \in Alert : IsHere(b) /\ b.tag = a.tag /\ b.ts = a.ts
         \/ a.tag = raised + 1 /\ a.ts = now /\ raised' = raised + 1
<1>1. /\ Path \in Seq(Alert) /\ Len(Path) \in Nat
      /\ \A i \in 1..Len(Path) : Path[i] \in Alert /\ IsHere(Path[i])
  BY PathType DEF IsHere
<1>2. \A m \in Monitors : pending[m] # NoAlert => pending[m] \in Alert /\ IsHere(pending[m])
  BY DEF TypeOK, IsHere
<1>3. CASE IsCarried
  <2>1. /\ \A i \in 1..Len(Path') : i \in 1..Len(Path) /\ Path'[i].tag = Path[i].tag
                                    /\ Path'[i].ts = Path[i].ts
        /\ pending' = pending
    BY <1>3 DEF IsCarried
  <2>2. QED  BY <1>1, <1>2, <2>1 DEF IsHere
<1>4. ASSUME NEW m \in Monitors, IsRaised(m)
      PROVE  \/ \E b \in Alert : IsHere(b) /\ b.tag = a.tag /\ b.ts = a.ts
             \/ a.tag = raised + 1 /\ a.ts = now /\ raised' = raised + 1
  BY <1>1, <1>2, <1>4 DEF IsRaised, IsHere
<1>5. ASSUME NEW m \in Monitors, IsEntered(m)
      PROVE  \E b \in Alert : IsHere(b) /\ b.tag = a.tag /\ b.ts = a.ts
  <2>1. /\ Path' = Append(Path, pending[m]) /\ pending[m] # NoAlert /\ pending'[m] = NoAlert
        /\ \A k \in Monitors \ {m} : pending'[k] = pending[k]
    BY <1>5 DEF IsEntered
  <2>2. \A i \in 1..Len(Path') :
          (i \in 1..Len(Path) /\ Path'[i] = Path[i]) \/ Path'[i] = pending[m]
    BY <1>1, <2>1
  <2>3. QED  BY <1>1, <1>2, <2>1, <2>2 DEF IsHere
<1>6. CASE IsLost
  <2>1. Len(Path') = 0 /\ \A m \in Monitors : pending'[m] = NoAlert
    BY <1>6 DEF IsLost
  <2>2. QED  BY <2>1 DEF IsHere
<1>7. QED  BY <1>3, <1>4, <1>5, <1>6, PathSteps

\* A recorded alert is one the daemon holds.
LEMMA RecordedHere ==
  ASSUME TypeOK, NEW x, InRecorded(x)
  PROVE  x \in Alert /\ IsHere(x)
<1> DEFINE front == IF hand = NoAlert THEN feed ELSE Append(feed, hand)
<1>1. feed \in Seq(Alert) /\ queue \in Seq(Alert) /\ (hand # NoAlert => hand \in Alert)
      /\ (step = "send" => hand # NoAlert)
  BY DEF TypeOK
<1>2. front \in Seq(Alert) /\ Path = front \o queue
  BY <1>1 DEF Path
<1>3. \E i \in 1..Len(front) : front[i] = x
  <2>1. PICK i \in 1..Len(Recorded) : Recorded[i] = x
    BY DEF InRecorded
  <2>2. CASE step = "send"
    BY <1>1, <2>1, <2>2 DEF Recorded
  <2>3. CASE step # "send"
    <3>1. i \in 1..Len(feed) /\ feed[i] = x
      BY <2>1, <2>3 DEF Recorded
    <3>2. i \in 1..Len(front) /\ front[i] = x
      BY <1>1, <3>1
    <3>3. QED  BY <3>2
  <2>4. QED  BY <2>2, <2>3
<1> HIDE DEF front
<1>4. \E i \in 1..Len(Path) : Path[i] = x
  BY <1>1, <1>2, <1>3
<1>5. QED  BY <1>4, PathType DEF IsHere

\* What is recorded stays recorded as long as the daemon does not stop.
LEMMA RecordedStays ==
  ASSUME TypeOK, Works, NEW x, InRecorded(x)
  PROVE  InRecorded(x)'
<1>1. feed \in Seq(Alert) /\ (hand # NoAlert => hand \in Alert)
  BY DEF TypeOK
<1>2. CASE UNCHANGED <<feed, Recorded>>
  BY <1>2 DEF InRecorded
<1>3. CASE Record
  <2>1. hand \in Alert /\ Recorded = feed /\ Recorded' = Append(feed, hand)
    BY <1>1, <1>3 DEF Record, Recorded, TypeOK
  <2>2. QED  BY <1>1, <2>1 DEF InRecorded
<1>4. CASE Broadcast
  <2>1. Recorded' = Recorded
    BY <1>4 DEF Broadcast, Recorded
  <2>2. QED  BY <2>1 DEF InRecorded
<1>5. QED
  BY <1>2, <1>3, <1>4
     DEF Works, PipeWork, Dispatch, Tick, Raise, Enqueue, Receive, WriteObject,
         WriteNewline, WriteFails, Start, Recorded, pipeVars, daemonVars

\* An alert that was recorded once is that for ever, over the stops of the daemon.
LEMMA KnownStays ==
  ASSUME TypeOK, [PipeNext]_pipeVars, NEW x \in Alert, Known(x)
  PROVE  Known(x)'
<1>1. x.tag \in Nat /\ x.ts \in Nat /\ \A a \in Alert : a.tag \in Nat /\ a.ts \in Nat
  BY DEF Alert
<1>2. x.tag <= raised' /\ x.ts <= now'
  BY <1>1, NothingGoesBack DEF Known
<1>3. CASE Past(x)
  <2>1. ASSUME NEW a \in Alert, IsHere(a)' PROVE x.tag < a.tag /\ x.ts <= a.ts
    <3>1. CASE \E b \in Alert : IsHere(b) /\ b.tag = a.tag /\ b.ts = a.ts
      BY <1>3, <3>1 DEF Past
    <3>2. CASE a.tag = raised + 1 /\ a.ts = now
      BY <1>1, <3>2, NothingGoesBack DEF Known
    <3>3. QED  BY <2>1, <3>1, <3>2, HereStep
  <2>2. Past(x)'
    BY <2>1 DEF Past
  <2>3. QED  BY <1>2, <2>2 DEF Known
<1>4. CASE Works /\ InRecorded(x)
  BY <1>2, <1>4, RecordedStays DEF Known
<1>5. CASE Halt
  <2>1. Path' = <<>> /\ \A m \in Monitors : pending'[m] = NoAlert
    BY <1>5 DEF Halt, Path
  <2>2. Len(Path') = 0
    BY <2>1
  <2>3. \A a \in Alert : ~IsHere(a)'
    BY <2>1, <2>2 DEF IsHere
  <2>4. Past(x)'
    BY <2>3 DEF Past
  <2>5. QED  BY <1>2, <2>4 DEF Known
<1>6. QED  BY <1>3, <1>4, <1>5 DEF Known, PipeNext, Works

\* What the daemon holds was raised before now, in every reachable state.
LEMMA RaisedBeforeNow == PipeSpec => []RaisedBefore
<1>1. PipeInit => RaisedBefore
  <2> SUFFICES ASSUME PipeInit PROVE RaisedBefore
    OBVIOUS
  <2>1. Path = <<>> /\ \A m \in Monitors : pending[m] = NoAlert
    BY DEF PipeInit, FreshDaemon, Path
  <2>2. Len(Path) = 0
    BY <2>1
  <2>3. QED  BY <2>1, <2>2 DEF RaisedBefore, IsHere
<1>2. TypeOK /\ RaisedBefore /\ [PipeNext]_pipeVars => RaisedBefore'
  <2> SUFFICES ASSUME TypeOK, RaisedBefore, [PipeNext]_pipeVars, NEW a \in Alert, IsHere(a)'
               PROVE  a.tag <= raised' /\ a.ts <= now'
    BY DEF RaisedBefore
  <2>1. \A b \in Alert : b.tag \in Nat /\ b.ts \in Nat
    BY DEF Alert
  <2>2. CASE \E b \in Alert : IsHere(b) /\ b.tag = a.tag /\ b.ts = a.ts
    BY <2>1, <2>2, NothingGoesBack DEF RaisedBefore
  <2>3. CASE a.tag = raised + 1 /\ a.ts = now /\ raised' = raised + 1
    BY <2>3, NothingGoesBack
  <2>4. QED  BY <2>2, <2>3, HereStep
<1>3. QED  BY <1>1, <1>2, TypeCorrect, PTL DEF PipeSpec

\* Two alerts with one id are one, or the first is an older one.
Agree(x, y) == x.id = y.id => x = y \/ (x.tag < y.tag /\ x.ts <= y.ts)

\* A recorded alert is the one with its id, or it is newer than the other.
LEMMA AgreeNew ==
  ASSUME TypeOK, FeedNumbered, NEW x, Known(x), NEW y, InRecorded(y)
  PROVE  Agree(x, y)
<1>1. CASE InRecorded(x)
  BY <1>1, RecordedRanks DEF InRecorded, Agree
<1>2. CASE Past(x)
  <2>1. y \in Alert /\ IsHere(y)
    BY RecordedHere
  <2>2. QED  BY <1>2, <2>1 DEF Past, Agree
<1>3. QED  BY <1>1, <1>2 DEF Known

\* What is recorded now is known.
LEMMA RecordedKnown ==
  ASSUME TypeOK, RaisedBefore, NEW x, InRecorded(x)
  PROVE  x \in Alert /\ Known(x)
BY RecordedHere DEF RaisedBefore, Known

-----------------------------------------------------------------------------
(* The order in which the interface is told *)

\* All that a list holds, and what is told to it by the events that wait and by the
\* messages that are not read, in that order: a sequence of sets of alerts.
Story(s, ev, sent, taken) ==
  [p \in 1..Len(s) + Len(ev) + (Len(sent) - taken) |->
     IF p <= Len(s) THEN {s[p]}
     ELSE IF p <= Len(s) + Len(ev) THEN Of(ev[p - Len(s)])
     ELSE Of(sent[taken + (p - Len(s) - Len(ev))])]

InStory(x, t) == \E p \in DOMAIN t : x \in t[p]

InOrder(t) == \A p, q \in DOMAIN t : p <= q => \A x \in t[p], y \in t[q] : Agree(x, y)

\* What is at each place of a story.
StoryParts(t, s, ev, sent, taken) ==
  \A p \in 1..Len(s) + Len(ev) + (Len(sent) - taken) :
    /\ p <= Len(s) => t[p] = {s[p]}
    /\ p > Len(s) /\ p <= Len(s) + Len(ev) => t[p] = Of(ev[p - Len(s)])
    /\ p > Len(s) + Len(ev) => t[p] = Of(sent[taken + (p - Len(s) - Len(ev))])

\* The places of a story.
LEMMA StoryPlaces ==
  ASSUME NEW s \in Seq(Alert), NEW ev \in Seq(Event), NEW sent \in Seq(Message),
         NEW taken \in Nat, taken <= Len(sent)
  PROVE  LET t == Story(s, ev, sent, taken)
             n == Len(s) + Len(ev) + (Len(sent) - taken)
         IN  /\ Len(s) \in Nat /\ Len(ev) \in Nat /\ Len(sent) \in Nat /\ n \in Nat
             /\ DOMAIN t = 1..n /\ StoryParts(t, s, ev, sent, taken)
<1> DEFINE a == Len(s)
           b == Len(s) + Len(ev)
           n == Len(s) + Len(ev) + (Len(sent) - taken)
           t == Story(s, ev, sent, taken)
<1>1. Len(s) \in Nat /\ Len(ev) \in Nat /\ Len(sent) \in Nat /\ n \in Nat
  OBVIOUS
<1>2. /\ DOMAIN t = 1..n
      /\ \A p \in 1..n : t[p] = IF p <= a THEN {s[p]}
                                ELSE IF p <= b THEN Of(ev[p - Len(s)])
                                ELSE Of(sent[taken + (p - Len(s) - Len(ev))])
  BY DEF Story
<1>3. a \in Nat /\ b \in Nat /\ a <= b
  BY <1>1
<1>4. ASSUME NEW p \in 1..n
      PROVE  /\ p <= a => t[p] = {s[p]}
             /\ p > a /\ p <= b => t[p] = Of(ev[p - Len(s)])
             /\ p > b => t[p] = Of(sent[taken + (p - Len(s) - Len(ev))])
  <2> DEFINE x == {s[p]}
             y == Of(ev[p - Len(s)])
             z == Of(sent[taken + (p - Len(s) - Len(ev))])
  <2>1. t[p] = IF p <= a THEN x ELSE IF p <= b THEN y ELSE z
    BY <1>2
  <2>2. p \in Nat
    BY <1>1
  <2> HIDE DEF t, a, b, n, x, y, z
  <2>3. (p <= a => t[p] = x) /\ (p > a /\ p <= b => t[p] = y) /\ (p > b => t[p] = z)
    BY <1>3, <2>1, <2>2
  <2>4. QED  BY <2>3 DEF x, y, z
<1>5. StoryParts(t, s, ev, sent, taken)
  BY <1>4 DEF StoryParts
<1>6. QED  BY <1>1, <1>2, <1>5

\* A story whose parts are those of another in the same order, or nothing, is in order
\* if the other is, and tells nothing new.
LEMMA Carried ==
  ASSUME NEW t, NEW t2, NEW f, InOrder(t),
         \A p \in DOMAIN t2 : t2[p] = {} \/ (f[p] \in DOMAIN t /\ t2[p] \subseteq t[f[p]]),
         \A p, q \in DOMAIN t2 : p <= q => f[p] <= f[q]
  PROVE  InOrder(t2) /\ \A p \in DOMAIN t2 : \A x \in t2[p] : InStory(x, t)
<1>1. ASSUME NEW p \in DOMAIN t2, NEW x \in t2[p]
      PROVE  f[p] \in DOMAIN t /\ x \in t[f[p]]
  BY <1>1
<1>2. ASSUME NEW p \in DOMAIN t2, NEW q \in DOMAIN t2, p <= q,
             NEW x \in t2[p], NEW y \in t2[q]
      PROVE  Agree(x, y)
  <2>1. /\ f[p] \in DOMAIN t /\ x \in t[f[p]]
        /\ f[q] \in DOMAIN t /\ y \in t[f[q]]
    BY <1>1
  <2>2. f[p] <= f[q]
    BY <1>2
  <2>3. QED  BY <2>1, <2>2 DEF InOrder
<1>3. QED  BY <1>1, <1>2 DEF InOrder, InStory

\* A connection that is closed, a message that is cut off and an event that says
\* Disconnected leave the order.
LEMMA StoryLess ==
  ASSUME NEW s \in Seq(Alert), NEW ev \in Seq(Event), NEW ev2 \in Seq(Event),
         NEW sent \in Seq(Message), NEW taken \in Nat, taken <= Len(sent),
         NEW sent2 \in Seq(Message), NEW taken2 \in Nat, taken2 <= Len(sent2),
         ev2 = ev \/ ev2 = Append(ev, Disconnected),
         \A u \in taken2 + 1 .. Len(sent2) : u \in taken + 1 .. Len(sent) /\ sent2[u] = sent[u],
         InOrder(Story(s, ev, sent, taken))
  PROVE  LET t == Story(s, ev, sent, taken)
             t2 == Story(s, ev2, sent2, taken2)
         IN  InOrder(t2) /\ \A p \in DOMAIN t2 : \A x \in t2[p] : InStory(x, t)
<1> DEFINE t == Story(s, ev, sent, taken)
           t2 == Story(s, ev2, sent2, taken2)
           a == Len(s)
           e == Len(ev)
           e2 == Len(ev2)
           n == a + e + (Len(sent) - taken)
           n2 == a + e2 + (Len(sent2) - taken2)
           f == [p \in 1..n2 |-> IF p <= a + e THEN p
                                 ELSE IF p <= a + e2 THEN a + e
                                 ELSE p - (e2 - e) + (taken2 - taken)]
<1>1. /\ a \in Nat /\ e \in Nat /\ e2 \in Nat /\ Len(sent) \in Nat /\ Len(sent2) \in Nat
      /\ n \in Nat /\ n2 \in Nat
      /\ DOMAIN t = 1..n /\ DOMAIN t2 = 1..n2
  BY StoryPlaces
<1>2. /\ e2 = e \/ e2 = e + 1
      /\ \A p \in 1..e : ev2[p] = ev[p]
      /\ \A p \in e + 1 .. e2 : Of(ev2[p]) = {}
  <2>1. Of(Disconnected) = {}
    BY DEF Of, Disconnected
  <2>2. CASE ev2 = ev
    BY <1>1, <2>2
  <2>3. CASE ev2 = Append(ev, Disconnected)
    BY <1>1, <2>1, <2>3
  <2>4. QED  BY <2>2, <2>3
<1>3. \A p \in 1..n : /\ p <= a => t[p] = {s[p]}
                      /\ p > a /\ p <= a + e => t[p] = Of(ev[p - a])
                      /\ p > a + e => t[p] = Of(sent[taken + (p - a - e)])
  <2>1. StoryParts(t, s, ev, sent, taken)
    BY StoryPlaces
  <2> HIDE DEF t
  <2>2. QED  BY <2>1 DEF StoryParts
<1>b. \A p \in 1..n2 : /\ p <= a => t2[p] = {s[p]}
                       /\ p > a /\ p <= a + e2 => t2[p] = Of(ev2[p - a])
                       /\ p > a + e2 => t2[p] = Of(sent2[taken2 + (p - a - e2)])
  <2>1. StoryParts(t2, s, ev2, sent2, taken2)
    BY StoryPlaces
  <2> HIDE DEF t2
  <2>2. QED  BY <2>1 DEF StoryParts
<1>c. \A p \in 1..n2 : f[p] = IF p <= a + e THEN p
                              ELSE IF p <= a + e2 THEN a + e
                              ELSE p - (e2 - e) + (taken2 - taken)
  OBVIOUS
<1>n. n = a + e + (Len(sent) - taken) /\ n2 = a + e2 + (Len(sent2) - taken2)
  OBVIOUS
<1> HIDE DEF f, t, t2, a, e, e2, n, n2
<1>4. ASSUME NEW p \in 1..n2, p > a + e2
      PROVE  /\ f[p] \in 1..n /\ f[p] >= p - (e2 - e) /\ t2[p] = t[f[p]]
             /\ f[p] = p - (e2 - e) + (taken2 - taken)
  <2> DEFINE u == taken2 + (p - a - e2)
  <2> DEFINE w == Len(sent2)
  <2>0. p \in Int /\ p <= n2 /\ p > a + e2
    BY <1>1, <1>4
  <2>1. u \in taken2 + 1 .. Len(sent2) /\ taken2 + 1 \in taken2 + 1 .. Len(sent2)
    <3>1. w \in Nat /\ n2 = a + e2 + (w - taken2)
      BY <1>1, <1>n
    <3> HIDE DEF w
    <3>2. p - a - e2 > 0 /\ p - a - e2 <= w - taken2
      BY <1>1, <2>0, <3>1
    <3> DEFINE d == p - a - e2
    <3>3. d \in Int /\ d > 0 /\ d <= w - taken2 /\ u = taken2 + d
      BY <1>1, <2>0, <3>2
    <3> HIDE DEF d, u
    <3>4. u \in taken2 + 1 .. w /\ taken2 + 1 \in taken2 + 1 .. w
      BY <3>1, <3>3
    <3>5. QED  BY <3>4 DEF w
  <2>2. /\ u \in taken + 1 .. Len(sent) /\ sent2[u] = sent[u] /\ taken2 >= taken
    <3>1. taken2 + 1 \in taken + 1 .. Len(sent)
      BY <2>1
    <3>2. u \in taken + 1 .. Len(sent) /\ sent2[u] = sent[u]
      BY <2>1
    <3>3. QED  BY <1>1, <3>1, <3>2
  <2>3. f[p] = p - (e2 - e) + (taken2 - taken)
    BY <1>1, <1>2, <1>4, <1>c
  <2>4. f[p] \in 1..n /\ f[p] > a + e /\ taken + (f[p] - a - e) = u /\ f[p] >= p - (e2 - e)
    <3> DEFINE d == p - a - e2
    <3>1. d \in Int /\ d > 0 /\ p = a + e2 + d /\ u = taken2 + d
      BY <1>1, <2>0
    <3> HIDE DEF d, u
    <3>2. f[p] = a + e + (u - taken)
      <4>1. f[p] = (a + e2 + d) - (e2 - e) + (taken2 - taken) /\ u = taken2 + d
        BY <2>3, <3>1
      <4>2. d \in Int /\ a \in Int /\ e \in Int /\ e2 \in Int
            /\ taken \in Int /\ taken2 \in Int
        BY <1>1, <3>1
      <4>3. f[p] = (a + d) + e + (taken2 - taken)
        BY <4>1, <4>2
      <4>4. u - taken = d + (taken2 - taken)
        BY <4>1, <4>2
      <4>5. QED  BY <4>2, <4>3, <4>4
    <3>3. u \in Int /\ u > taken /\ u <= Len(sent)
      BY <1>1, <2>2
    <3>4. f[p] \in 1..n
      BY <1>1, <1>n, <3>2, <3>3
    <3>5. f[p] > a + e /\ taken + (f[p] - a - e) = u
      BY <1>1, <3>2, <3>3
    <3>6. f[p] >= p - (e2 - e)
      BY <1>1, <2>2, <3>1, <3>2
    <3>7. QED  BY <3>4, <3>5, <3>6
  <2>5. t[f[p]] = Of(sent[taken + (f[p] - a - e)]) /\ t2[p] = Of(sent2[u])
    BY <1>3, <1>b, <1>4, <2>4
  <2>6. QED  BY <2>2, <2>3, <2>4, <2>5
<1>5. ASSUME NEW p \in 1..n2
      PROVE  t2[p] = {} \/ (f[p] \in 1..n /\ t2[p] \subseteq t[f[p]])
  <2>1. CASE p <= a + e
    <3>1. f[p] = p
      BY <1>c, <2>1
    <3>2. p \in 1..n /\ p <= a + e2
      BY <1>1, <1>2, <1>n, <2>1
    <3>3. CASE p <= a
      <4>1. t2[p] = {s[p]} /\ t[p] = {s[p]}
        BY <1>3, <1>b, <3>2, <3>3
      <4>2. QED  BY <3>1, <3>2, <4>1
    <3>4. CASE p > a
      <4>1. p - a \in 1..e
        BY <1>1, <2>1, <3>4
      <4>2. ev2[p - a] = ev[p - a]
        BY <1>2, <4>1
      <4>3. t2[p] = Of(ev2[p - a])
        BY <1>b, <3>2, <3>4
      <4>4. t[p] = Of(ev[p - a])
        BY <1>3, <2>1, <3>2, <3>4
      <4>5. QED  BY <3>1, <3>2, <4>2, <4>3, <4>4
    <3>5. QED  BY <1>1, <3>3, <3>4
  <2>2. CASE p > a + e /\ p <= a + e2
    <3>1. p - a \in e + 1 .. e2 /\ p > a
      <4>1. p \in Int /\ a \in Nat /\ e \in Nat /\ e2 \in Nat
        BY <1>1
      <4>2. QED  BY <2>2, <4>1
    <3>2. t2[p] = Of(ev2[p - a])
      BY <1>b, <2>2, <3>1
    <3>3. QED  BY <1>2, <3>1, <3>2
  <2>3. CASE p > a + e2
    BY <1>4, <2>3
  <2>4. QED  BY <1>1, <2>1, <2>2, <2>3
<1>6. ASSUME NEW p \in 1..n2, NEW q \in 1..n2, p <= q PROVE f[p] <= f[q]
  <2>1. CASE q <= a + e2
    <3>1. /\ f[p] = IF p <= a + e THEN p ELSE a + e
          /\ f[q] = IF q <= a + e THEN q ELSE a + e
      BY <1>1, <1>c, <1>6, <2>1
    <3>2. CASE q <= a + e
      <4>1. p <= a + e /\ f[p] = p /\ f[q] = q
        BY <1>1, <1>6, <3>1, <3>2
      <4>2. QED  BY <1>6, <4>1
    <3>3. CASE ~(q <= a + e)
      <4>1. f[q] = a + e
        BY <3>1, <3>3
      <4>2. f[p] <= a + e
        BY <1>1, <3>1
      <4>3. QED  BY <4>1, <4>2
    <3>4. QED  BY <3>2, <3>3
  <2>2. CASE q > a + e2 /\ p <= a + e2
    <3>1. f[q] >= q - (e2 - e) /\ f[q] \in 1..n
      BY <1>4, <2>2
    <3>2. f[p] = IF p <= a + e THEN p ELSE a + e
      BY <1>c, <2>2
    <3>3. f[p] <= a + e /\ f[p] \in Int
      BY <1>1, <3>2
    <3>4. q - (e2 - e) > a + e /\ q - (e2 - e) \in Int
      BY <1>1, <2>2
    <3>5. f[q] \in Int /\ a + e \in Int
      BY <1>1, <3>1
    <3> DEFINE v == a + e
               w == q - (e2 - e)
    <3>6. v \in Int /\ w \in Int /\ f[p] <= v /\ w > v /\ f[q] >= w
      BY <3>1, <3>3, <3>4, <3>5
    <3> HIDE DEF v, w
    <3>7. QED  BY <3>3, <3>5, <3>6
  <2>3. CASE p > a + e2
    <3>1. q > a + e2
      BY <1>1, <1>6, <2>3
    <3>2. f[p] = p - (e2 - e) + (taken2 - taken) /\ f[q] = q - (e2 - e) + (taken2 - taken)
      BY <1>4, <2>3, <3>1
    <3> DEFINE d == (taken2 - taken) - (e2 - e)
    <3>3. d \in Int /\ f[p] = p + d /\ f[q] = q + d
      BY <1>1, <3>2
    <3> HIDE DEF d
    <3>4. QED  BY <1>1, <1>6, <3>3
  <2>4. QED  BY <1>1, <2>1, <2>2, <2>3
<1>7. InOrder(t)
  BY DEF t
<1>8. InOrder(t2) /\ \A p \in DOMAIN t2 : \A x \in t2[p] : InStory(x, t)
  BY <1>1, <1>5, <1>6, <1>7, Carried
<1>9. QED  BY <1>8 DEF t, t2

\* One more message of alerts that agree with all before and with each other.
LEMMA StoryGrows ==
  ASSUME NEW n \in Nat, NEW t, NEW t2, DOMAIN t = 1..n, DOMAIN t2 = 1..n + 1, InOrder(t),
         \A p \in 1..n : t2[p] = t[p],
         \A p \in 1..n : \A x \in t[p], y \in t2[n + 1] : Agree(x, y),
         \A x, y \in t2[n + 1] : Agree(x, y)
  PROVE  InOrder(t2)
<1>1. \A p \in DOMAIN t2 : p \in 1..n \/ p = n + 1
  OBVIOUS
<1>2. \A p \in 1..n : ~(n + 1 <= p)
  OBVIOUS
<1>3. QED  BY <1>1, <1>2 DEF InOrder

\* One more message is one more place, behind the others.
LEMMA StoryTold ==
  ASSUME NEW s \in Seq(Alert), NEW ev \in Seq(Event), NEW sent \in Seq(Message),
         NEW taken \in Nat, taken <= Len(sent), NEW m \in Message
  PROVE  LET t == Story(s, ev, sent, taken)
             t2 == Story(s, ev, sent \o <<m>>, taken)
             n == Len(s) + Len(ev) + (Len(sent) - taken)
         IN  /\ n \in Nat /\ DOMAIN t = 1..n /\ DOMAIN t2 = 1..n + 1
             /\ \A p \in 1..n : t2[p] = t[p]
             /\ t2[n + 1] = Of(m)
<1> DEFINE sent2 == sent \o <<m>>
           t == Story(s, ev, sent, taken)
           t2 == Story(s, ev, sent2, taken)
           a == Len(s)
           b == Len(s) + Len(ev)
           n == Len(s) + Len(ev) + (Len(sent) - taken)
           n2 == Len(s) + Len(ev) + (Len(sent2) - taken)
<1>1. /\ sent2 \in Seq(Message) /\ Len(sent2) = Len(sent) + 1 /\ sent2[Len(sent) + 1] = m
      /\ \A i \in 1..Len(sent) : sent2[i] = sent[i]
  BY OneMore
<1>2. taken <= Len(sent2)
  BY <1>1
<1> HIDE DEF sent2
<1>3. /\ a \in Nat /\ Len(ev) \in Nat /\ Len(sent) \in Nat /\ n \in Nat
      /\ DOMAIN t = 1..n /\ StoryParts(t, s, ev, sent, taken)
  BY StoryPlaces
<1>4. DOMAIN t2 = 1..n2 /\ StoryParts(t2, s, ev, sent2, taken)
  BY <1>1, <1>2, StoryPlaces
<1> HIDE DEF t, t2
<1>5. n2 = n + 1 /\ b \in Nat /\ b <= n /\ n = b + (Len(sent) - taken) /\ b = a + Len(ev)
  BY <1>1, <1>3
<1>6. \A p \in 1..n : /\ p <= a => t[p] = {s[p]}
                      /\ p > a /\ p <= b => t[p] = Of(ev[p - a])
                      /\ p > b => t[p] = Of(sent[taken + (p - Len(s) - Len(ev))])
  BY <1>3 DEF StoryParts
<1>7. \A p \in 1..n2 : /\ p <= a => t2[p] = {s[p]}
                       /\ p > a /\ p <= b => t2[p] = Of(ev[p - a])
                       /\ p > b => t2[p] = Of(sent2[taken + (p - Len(s) - Len(ev))])
  BY <1>4 DEF StoryParts
<1> HIDE DEF n, n2, b
<1>8. ASSUME NEW p \in 1..n PROVE t2[p] = t[p]
  <2>1. p \in 1..n2
    BY <1>3, <1>5
  <2>2. CASE p <= b
    <3>1. CASE p <= a
      BY <1>6, <1>7, <2>1, <3>1
    <3>2. CASE p > a
      BY <1>6, <1>7, <2>1, <2>2, <3>2
    <3>3. QED  BY <1>3, <3>1, <3>2
  <2>3. CASE p > b
    <3>1. taken + (p - Len(s) - Len(ev)) \in 1..Len(sent)
      BY <1>3, <1>5, <2>3
    <3>2. QED  BY <1>1, <1>6, <1>7, <2>1, <2>3, <3>1
  <2>4. QED  BY <1>3, <1>5, <2>2, <2>3
<1>9. t2[n + 1] = Of(m)
  <2>1. n + 1 \in 1..n2 /\ n + 1 > b /\ taken + ((n + 1) - Len(s) - Len(ev)) = Len(sent) + 1
    BY <1>3, <1>5
  <2>2. QED  BY <1>1, <1>7, <2>1
<1>10. QED  BY <1>3, <1>4, <1>5, <1>8, <1>9 DEF t, t2, n, sent2

\* The thread passes on what a message carries: nothing moves in the order.
LEMMA StoryRead ==
  ASSUME NEW s \in Seq(Alert), NEW ev \in Seq(Event), NEW ev2 \in Seq(Event),
         NEW sent \in Seq(Message), NEW taken \in Nat, taken < Len(sent),
         \/ ev2 = ev /\ Of(sent[taken + 1]) = {}
         \/ \E e \in Event : ev2 = Append(ev, e) /\ Of(e) = Of(sent[taken + 1]),
         InOrder(Story(s, ev, sent, taken))
  PROVE  LET t == Story(s, ev, sent, taken)
             t2 == Story(s, ev2, sent, taken + 1)
         IN  InOrder(t2) /\ \A p \in DOMAIN t2 : \A x \in t2[p] : InStory(x, t)
<1> DEFINE t == Story(s, ev, sent, taken)
           t2 == Story(s, ev2, sent, taken + 1)
           a == Len(s)
           e == Len(ev)
           e2 == Len(ev2)
           n == a + e + (Len(sent) - taken)
           n2 == a + e2 + (Len(sent) - (taken + 1))
           f == [p \in 1..n2 |-> IF p <= a + e THEN p ELSE p + (1 - (e2 - e))]
<1>1. taken \in Nat /\ taken + 1 \in Nat /\ taken <= Len(sent) /\ taken + 1 <= Len(sent)
  OBVIOUS
<1>2. /\ a \in Nat /\ e \in Nat /\ e2 \in Nat /\ Len(sent) \in Nat
      /\ n \in Nat /\ n2 \in Nat
      /\ DOMAIN t = 1..n /\ DOMAIN t2 = 1..n2
  <2>1. a \in Nat /\ e \in Nat /\ Len(sent) \in Nat /\ n \in Nat /\ DOMAIN t = 1..n
    <3> HIDE DEF t2, e2, n2, f
    <3>1. QED  BY <1>1, StoryPlaces
  <2>2. e2 \in Nat /\ n2 \in Nat /\ DOMAIN t2 = 1..n2
    BY <1>1, StoryPlaces
  <2>3. QED  BY <2>1, <2>2
<1>3. /\ e2 = e \/ (e2 = e + 1 /\ Of(ev2[e + 1]) = Of(sent[taken + 1]))
      /\ \A p \in 1..e : ev2[p] = ev[p]
  <2>1. CASE ev2 = ev
    BY <1>2, <2>1
  <2>2. ASSUME NEW ee \in Event, ev2 = Append(ev, ee), Of(ee) = Of(sent[taken + 1])
        PROVE  /\ e2 = e + 1 /\ Of(ev2[e + 1]) = Of(sent[taken + 1])
               /\ \A p \in 1..e : ev2[p] = ev[p]
    BY <1>2, <2>2
  <2>3. QED  BY <2>1, <2>2
<1>4. \A p \in 1..n : /\ p <= a => t[p] = {s[p]}
                      /\ p > a /\ p <= a + e => t[p] = Of(ev[p - a])
                      /\ p > a + e => t[p] = Of(sent[taken + (p - a - e)])
  <2>1. StoryParts(t, s, ev, sent, taken)
    BY <1>1, StoryPlaces
  <2> HIDE DEF t
  <2>2. QED  BY <2>1 DEF StoryParts
<1>5. \A p \in 1..n2 : /\ p <= a => t2[p] = {s[p]}
                       /\ p > a /\ p <= a + e2 => t2[p] = Of(ev2[p - a])
                       /\ p > a + e2 => t2[p] = Of(sent[(taken + 1) + (p - a - e2)])
  <2>1. StoryParts(t2, s, ev2, sent, taken + 1)
    BY <1>1, StoryPlaces
  <2> HIDE DEF t2
  <2>2. QED  BY <2>1 DEF StoryParts
<1>6. \A p \in 1..n2 : f[p] = IF p <= a + e THEN p ELSE p + (1 - (e2 - e))
  OBVIOUS
<1>7. n2 = n - (1 - (e2 - e))
  BY <1>2
<1> HIDE DEF t, t2, a, e, e2, f, n, n2
<1>8. ASSUME NEW p \in 1..n2 PROVE f[p] \in 1..n /\ t2[p] \subseteq t[f[p]]
  <2>1. CASE p <= a
    <3>1. f[p] = p /\ p \in 1..n
      BY <1>2, <1>3, <1>6, <1>7, <2>1
    <3>2. QED  BY <1>4, <1>5, <2>1, <3>1
  <2>2. CASE p > a /\ p <= a + e
    <3>1. f[p] = p /\ p \in 1..n /\ p - a \in 1..e /\ p <= a + e2
      BY <1>2, <1>3, <1>6, <1>7, <2>2
    <3>2. t2[p] = Of(ev2[p - a]) /\ t[p] = Of(ev[p - a])
      BY <1>4, <1>5, <2>2, <3>1
    <3>3. QED  BY <1>3, <3>1, <3>2
  <2>3. CASE p > a + e /\ p <= a + e2
    <3>1. e2 = e + 1 /\ p = a + e + 1 /\ p > a /\ p - a = e + 1 /\ p - a - e = 1
      BY <1>2, <1>3, <2>3
    <3>2. f[p] = p /\ p \in 1..n
      BY <1>2, <1>6, <1>7, <2>3, <3>1
    <3>3. t2[p] = Of(ev2[p - a]) /\ t[p] = Of(sent[taken + (p - a - e)])
      BY <1>4, <1>5, <2>3, <3>1, <3>2
    <3>4. t2[p] = t[p]
      <4>1. t2[p] = Of(ev2[e + 1])
        BY <3>1, <3>3
      <4>2. t[p] = Of(sent[taken + 1])
        BY <3>1, <3>3
      <4>3. e2 # e
        BY <1>2, <3>1
      <4>4. QED  BY <1>3, <4>1, <4>2, <4>3
    <3>5. QED  BY <3>2, <3>4
  <2>4. CASE p > a + e2
    <3>1. p > a + e /\ f[p] = p + (1 - (e2 - e))
      BY <1>2, <1>3, <1>6, <2>4
    <3>2. f[p] \in 1..n /\ f[p] > a + e /\ taken + (f[p] - a - e) = (taken + 1) + (p - a - e2)
      BY <1>2, <1>3, <1>7, <2>4, <3>1
    <3>3. t[f[p]] = Of(sent[taken + (f[p] - a - e)])
      BY <1>4, <3>2
    <3>4. t2[p] = Of(sent[(taken + 1) + (p - a - e2)])
      BY <1>5, <2>4
    <3>5. QED  BY <3>2, <3>3, <3>4
  <2>5. QED  BY <1>2, <1>3, <2>1, <2>2, <2>3, <2>4
<1>9. ASSUME NEW p \in 1..n2, NEW q \in 1..n2, p <= q PROVE f[p] <= f[q]
  <2>3. CASE p > a + e
    <3>1. q > a + e
      BY <1>2, <1>9, <2>3
    <3>2. f[p] = p + (1 - (e2 - e)) /\ f[q] = q + (1 - (e2 - e))
      BY <1>2, <1>6, <2>3, <3>1
    <3>3. QED  BY <1>2, <1>9, <3>2
  <2>4. CASE ~(p > a + e)
    <3>1. f[p] = p
      BY <1>2, <1>6, <2>4
    <3>2. f[q] = q \/ f[q] = q + (1 - (e2 - e))
      BY <1>6
    <3>3. 1 - (e2 - e) \in Nat
      BY <1>2, <1>3
    <3>4. QED  BY <1>9, <3>1, <3>2, <3>3
  <2>5. QED  BY <2>3, <2>4
<1>10. InOrder(t)
  BY DEF t
<1>11. InOrder(t2) /\ \A p \in DOMAIN t2 : \A x \in t2[p] : InStory(x, t)
  BY <1>2, <1>8, <1>9, <1>10, Carried
<1>12. QED  BY <1>11 DEF t, t2

\* A story t of n places and the story t2 after its first event, which tells first,
\* and has made s2 of the list s.
RestParts(t, t2, s, s2, first, n) ==
  LET c == Len(s) + 1 - Len(s2)
  IN  /\ Len(s) \in Nat /\ Len(s2) \in Nat /\ n \in Nat /\ n - c \in Nat
      /\ DOMAIN t = 1..n /\ DOMAIN t2 = 1..n - c
      /\ Len(s) + 1 \in 1..n /\ t[Len(s) + 1] = first
      /\ \A p \in 1..Len(s) : p \in 1..n /\ t[p] = {s[p]}
      /\ \A p \in 1..Len(s2) : p \in 1..n - c /\ t2[p] = {s2[p]}
      /\ \A p \in Len(s2) + 1 .. n - c : p + c \in 1..n /\ t2[p] = t[p + c]

\* The places of the story after the first event.
LEMMA StoryRest ==
  ASSUME NEW s \in Seq(Alert), NEW ev \in Seq(Event), ev # <<>>, NEW sent \in Seq(Message),
         NEW taken \in Nat, taken <= Len(sent), NEW s2 \in Seq(Alert)
  PROVE  RestParts(Story(s, ev, sent, taken), Story(s2, Tail(ev), sent, taken), s, s2,
                   Of(Head(ev)), Len(s) + Len(ev) + (Len(sent) - taken))
<1> DEFINE t == Story(s, ev, sent, taken)
           r == Tail(ev)
           t2 == Story(s2, r, sent, taken)
           a == Len(s)
           a2 == Len(s2)
           e == Len(ev)
           n == a + e + (Len(sent) - taken)
           c == a + 1 - a2
           n2 == a2 + Len(r) + (Len(sent) - taken)
<1>1. r \in Seq(Event) /\ Len(r) = e - 1 /\ e \in Nat \ {0} /\ Head(ev) = ev[1]
      /\ \A p \in 1..Len(r) : r[p] = ev[p + 1]
  OBVIOUS
<1> HIDE DEF r
<1>2. /\ a \in Nat /\ a2 \in Nat /\ n \in Nat /\ n2 \in Nat /\ n2 = n - c
      /\ DOMAIN t = 1..n /\ DOMAIN t2 = 1..n2
  <2>1. a \in Nat /\ n \in Nat /\ DOMAIN t = 1..n
    BY StoryPlaces
  <2>2. a2 \in Nat /\ n2 \in Nat /\ DOMAIN t2 = 1..n2
    <3>1. r \in Seq(Event)
      BY <1>1
    <3>2. QED  BY ONLY <3>1, StoryPlaces, s2 \in Seq(Alert), sent \in Seq(Message),
                       taken \in Nat, taken <= Len(sent)
  <2>3. Len(sent) \in Nat
    OBVIOUS
  <2>4. n2 = n - c
    BY <1>1, <2>1, <2>2, <2>3
  <2>5. QED  BY <2>1, <2>2, <2>4
<1>3. \A p \in 1..n : /\ p <= a => t[p] = {s[p]}
                      /\ p > a /\ p <= a + e => t[p] = Of(ev[p - a])
                      /\ p > a + e => t[p] = Of(sent[taken + (p - a - e)])
  <2>1. StoryParts(t, s, ev, sent, taken)
    BY StoryPlaces
  <2> HIDE DEF t
  <2>2. QED  BY <2>1 DEF StoryParts
<1>4. \A p \in 1..n2 : /\ p <= a2 => t2[p] = {s2[p]}
                       /\ p > a2 /\ p <= a2 + Len(r) => t2[p] = Of(r[p - a2])
                       /\ p > a2 + Len(r) => t2[p] = Of(sent[taken + (p - a2 - Len(r))])
  <2>1. StoryParts(t2, s2, r, sent, taken)
    BY <1>1, StoryPlaces
  <2> HIDE DEF t2
  <2>2. QED  BY <2>1 DEF StoryParts
<1>5. Len(sent) \in Nat /\ taken <= Len(sent)
  OBVIOUS
<1>6. n = a + e + (Len(sent) - taken) /\ c = a + 1 - a2 /\ n2 = a2 + (e - 1) + (Len(sent) - taken)
  BY <1>1
<1> HIDE DEF t, t2, a, a2, e, n, n2, c
<1>7. a + 1 \in 1..n /\ t[a + 1] = Of(Head(ev))
  <2>1. a + 1 \in 1..n /\ a + 1 > a /\ a + 1 <= a + e /\ (a + 1) - a = 1
    BY <1>1, <1>2, <1>5, <1>6
  <2>2. t[a + 1] = Of(ev[(a + 1) - a])
    BY <1>3, <2>1
  <2>3. QED  BY <1>1, <2>1, <2>2
<1>8. ASSUME NEW p \in 1..a PROVE p \in 1..n /\ t[p] = {s[p]}
  <2>1. p \in 1..n /\ p <= a
    BY <1>1, <1>2, <1>5, <1>6
  <2>2. QED  BY <1>3, <2>1
<1>9. ASSUME NEW p \in 1..a2 PROVE p \in 1..n2 /\ t2[p] = {s2[p]}
  <2>1. p \in 1..n2 /\ p <= a2
    BY <1>1, <1>2, <1>5, <1>6
  <2>2. QED  BY <1>4, <2>1
<1>10. ASSUME NEW p \in a2 + 1 .. n2 PROVE p + c \in 1..n /\ t2[p] = t[p + c]
  <2>1. p \in 1..n2 /\ p > a2 /\ p + c \in 1..n /\ p + c > a
    BY <1>1, <1>2, <1>5, <1>6
  <2>2. CASE p <= a2 + Len(r)
    <3>1. p - a2 \in 1..Len(r) /\ p + c <= a + e /\ (p + c) - a = (p - a2) + 1
      BY <1>1, <1>2, <1>6, <2>1, <2>2
    <3>2. t2[p] = Of(r[p - a2]) /\ t[p + c] = Of(ev[(p + c) - a])
      BY <1>3, <1>4, <2>1, <2>2, <3>1
    <3>3. QED  BY <1>1, <2>1, <3>1, <3>2
  <2>3. CASE p > a2 + Len(r)
    <3>1. p + c > a + e /\ taken + ((p + c) - a - e) = taken + (p - a2 - Len(r))
      BY <1>1, <1>2, <1>6, <2>1, <2>3
    <3>2. t2[p] = Of(sent[taken + (p - a2 - Len(r))])
      BY <1>4, <2>1, <2>3
    <3>3. t[p + c] = Of(sent[taken + ((p + c) - a - e)])
      BY <1>3, <2>1, <3>1
    <3>4. QED  BY <2>1, <3>1, <3>2, <3>3
  <2>4. QED  BY <1>1, <1>2, <2>1, <2>2, <2>3
<1>11. RestParts(t, t2, s, s2, Of(Head(ev)), n)
  BY <1>2, <1>7, <1>8, <1>9, <1>10 DEF RestParts, a, a2, c
<1>12. QED  BY <1>11 DEF t, t2, a, e, n, r

\* The list gains the alert of the first event, if any, and may lose its oldest ones.
LEMMA StoryDrains ==
  ASSUME NEW s \in Seq(Alert), NEW ev \in Seq(Event), ev # <<>>, NEW sent \in Seq(Message),
         NEW taken \in Nat, taken <= Len(sent), NEW s2 \in Seq(Alert),
         \/ s2 = s /\ Of(Head(ev)) = {}
         \/ \E x \in Alert : Of(Head(ev)) = {x} /\ s2 = LastN(Append(s, x), MaxAlerts),
         InOrder(Story(s, ev, sent, taken))
  PROVE  LET t == Story(s, ev, sent, taken)
             t2 == Story(s2, Tail(ev), sent, taken)
         IN  InOrder(t2) /\ \A p \in DOMAIN t2 : \A x \in t2[p] : InStory(x, t)
<1> DEFINE t == Story(s, ev, sent, taken)
           t2 == Story(s2, Tail(ev), sent, taken)
           a == Len(s)
           a2 == Len(s2)
           n == Len(s) + Len(ev) + (Len(sent) - taken)
           c == Len(s) + 1 - Len(s2)
           n2 == n - c
           f == [p \in 1..n2 |-> IF p <= a2 /\ s2 = s THEN p ELSE p + c]
<1>1. RestParts(t, t2, s, s2, Of(Head(ev)), n)
  BY StoryRest
<1>2. \A p \in 1..n2 : f[p] = IF p <= a2 /\ s2 = s THEN p ELSE p + c
  OBVIOUS
<1> HIDE DEF t, t2, n, f
<1>3. /\ a \in Nat /\ a2 \in Nat /\ n \in Nat /\ n2 \in Nat /\ c = a + 1 - a2
      /\ DOMAIN t = 1..n /\ DOMAIN t2 = 1..n2
      /\ a + 1 \in 1..n /\ t[a + 1] = Of(Head(ev))
      /\ \A p \in 1..a : p \in 1..n /\ t[p] = {s[p]}
      /\ \A p \in 1..a2 : p \in 1..n2 /\ t2[p] = {s2[p]}
      /\ \A p \in a2 + 1 .. n2 : p + c \in 1..n /\ t2[p] = t[p + c]
  BY <1>1 DEF RestParts
<1> HIDE DEF a, a2, c, n2
<1>4. ASSUME NEW x \in Alert, Of(Head(ev)) = {x}, s2 = LastN(Append(s, x), MaxAlerts),
             NEW p \in 1..a2
      PROVE  p + c \in 1..n /\ t2[p] = t[p + c]
  <2> DEFINE v == Append(s, x)
  <2>1. v \in Seq(Alert) /\ Len(v) = a + 1 /\ MaxAlerts \in Nat
        /\ (\A j \in 1..a : v[j] = s[j]) /\ v[a + 1] = x
    BY <1>3, GuiAssumption DEF a
  <2> HIDE DEF v
  <2>2. p + c \in 1..a + 1 /\ s2[p] = v[p + c]
    <3>1. CASE a + 1 <= MaxAlerts
      <4>1. s2 = v
        BY <1>4, <2>1, <3>1 DEF LastN, v
      <4>2. a2 = a + 1
        BY <2>1, <4>1 DEF a2
      <4>3. p + c = p /\ p \in 1..a + 1
        BY <1>3, <4>2
      <4>4. QED  BY <4>1, <4>3
    <3>2. CASE MaxAlerts <= a + 1
      <4>1. s2 = LastN(v, MaxAlerts)
        BY <1>4 DEF v
      <4>2. a2 = MaxAlerts
        <5>1. Len(s2) = IF Len(v) <= MaxAlerts THEN Len(v) ELSE MaxAlerts
          BY <2>1, <4>1, LastNType
        <5>2. QED  BY <1>3, <2>1, <3>2, <5>1 DEF a2
      <4>3. p \in 1..MaxAlerts /\ p + c = (a + 1) - MaxAlerts + p /\ p + c \in 1..a + 1
        BY <1>3, <2>1, <3>2, <4>2
      <4>4. LastN(v, MaxAlerts)[p] = v[Len(v) - MaxAlerts + p]
        BY <2>1, <3>2, <4>3, LastNElement
      <4>5. QED  BY <2>1, <4>1, <4>3, <4>4
    <3>3. QED  BY <1>3, <2>1, <3>1, <3>2
  <2>6. t2[p] = {s2[p]}
    BY <1>3
  <2>3. CASE p + c \in 1..a
    <3>1. p + c \in 1..n /\ t[p + c] = {s[p + c]}
      BY <1>3, <2>3
    <3>2. s2[p] = s[p + c]
      BY <2>1, <2>2, <2>3
    <3>3. QED  BY <2>6, <3>1, <3>2
  <2>4. CASE p + c = a + 1
    <3>1. a + 1 \in 1..n /\ t[a + 1] = {x}
      BY <1>3, <1>4
    <3>2. s2[p] = x
      BY <2>1, <2>2, <2>4
    <3>3. QED  BY <2>4, <2>6, <3>1, <3>2
  <2>5. p + c \in 1..a \/ p + c = a + 1
    BY <1>3, <2>2
  <2>7. QED  BY <2>3, <2>4, <2>5
<1>5. ASSUME NEW p \in 1..n2 PROVE f[p] \in 1..n /\ t2[p] \subseteq t[f[p]]
  <2>1. CASE p > a2
    <3>1. p \in a2 + 1 .. n2
      BY <1>3, <2>1
    <3>2. f[p] = p + c
      BY <1>3, <1>2, <2>1
    <3>3. QED  BY <1>3, <3>1, <3>2
  <2>2. CASE p <= a2 /\ s2 = s
    <3>1. p \in 1..a /\ a = a2 /\ f[p] = p
      BY <1>3, <1>2, <2>2 DEF a, a2
    <3>2. QED  BY <1>3, <2>2, <3>1
  <2>3. CASE p <= a2 /\ s2 # s
    <3>1. p \in 1..a2 /\ f[p] = p + c
      BY <1>3, <1>2, <2>3
    <3>2. QED  BY <1>4, <2>3, <3>1
  <2>4. QED  BY <1>3, <2>1, <2>2, <2>3
<1>6. s2 = s => a2 = a
  BY DEF a, a2
<1>7. ASSUME NEW p \in 1..n2, NEW q \in 1..n2, p <= q PROVE f[p] <= f[q]
  <2>1. CASE s2 = s
    <3>1. c = 1 /\ a2 = a
      BY <1>3, <1>6, <2>1
    <3>2. /\ f[p] = IF p <= a THEN p ELSE p + 1
          /\ f[q] = IF q <= a THEN q ELSE q + 1
      BY <1>2, <2>1, <3>1
    <3>3. QED  BY <1>3, <1>7, <3>2
  <2>2. CASE s2 # s
    <3>1. f[p] = p + c /\ f[q] = q + c
      BY <1>2, <2>2
    <3>2. QED  BY <1>3, <1>7, <3>1
  <2>3. QED  BY <2>1, <2>2
<1>8. InOrder(t)
  BY DEF t
<1>9. InOrder(t2) /\ \A p \in DOMAIN t2 : \A x \in t2[p] : InStory(x, t)
  BY <1>3, <1>5, <1>7, <1>8, Carried
<1>10. QED  BY <1>9 DEF t, t2

\* A merged list holds members of the two lists, arranged by time.
LEMMA MergeArranges ==
  ASSUME NEW s \in Seq(Alert), NEW r \in Seq(Alert)
  PROVE  LET s2 == Merge(s, r)
             u == s \o r
         IN  /\ s2 \in Seq(Alert)
             /\ \E p : /\ Arranges(p, u, Retained(s, r), Len(s2))
                       /\ \A k \in 1..Len(s2) : s2[k] = u[p[k]]
<1> DEFINE u == s \o r
           places == Retained(s, r)
           n == Cardinality(places)
           t == SortedByTime(u, places)
<1>1. u \in Seq(Alert) /\ places \in SUBSET (1..Len(u))
  BY RetainedPlaces
<1> HIDE DEF u, places
<1>2. /\ t \in Seq(Alert) /\ Len(t) = n
      /\ \E p : Arranges(p, u, places, n) /\ \A k \in 1..n : t[k] = u[p[k]]
  BY <1>1, SortArranges
<1>3. Merge(s, r) = t
  BY DEF Merge, u, places
<1> HIDE DEF t, n
<1>4. /\ t \in Seq(Alert)
      /\ \E p : Arranges(p, u, places, Len(t)) /\ \A k \in 1..Len(t) : t[k] = u[p[k]]
  BY <1>2
<1>5. QED  BY <1>3, <1>4 DEF u, places

\* A snapshot is merged into the list: of two alerts with one id the sort leaves the
\* newer one behind the older, for it is as late or was told later.
LEMMA StoryMerges ==
  ASSUME NEW s \in Seq(Alert), NEW ev \in Seq(Event), ev # <<>>, NEW sent \in Seq(Message),
         NEW taken \in Nat, taken <= Len(sent), NEW r \in Seq(Alert),
         Of(Head(ev)) = {r[i] : i \in 1..Len(r)},
         InOrder(Story(s, ev, sent, taken))
  PROVE  LET t == Story(s, ev, sent, taken)
             t2 == Story(Merge(s, r), Tail(ev), sent, taken)
         IN  InOrder(t2) /\ \A p \in DOMAIN t2 : \A x \in t2[p] : InStory(x, t)
<1> DEFINE t == Story(s, ev, sent, taken)
           s2 == Merge(s, r)
           t2 == Story(s2, Tail(ev), sent, taken)
           a == Len(s)
           a2 == Len(s2)
           n == Len(s) + Len(ev) + (Len(sent) - taken)
           c == Len(s) + 1 - Len(s2)
           n2 == n - c
           u == s \o r
           m == Len(u)
           places == Retained(s, r)
           g == [j \in 1..m |-> IF j <= a THEN j ELSE a + 1]
<1>1. /\ u \in Seq(Alert) /\ m = Len(s) + Len(r) /\ places \in SUBSET (1..m)
      /\ \A i \in 1..Len(s) : u[i] = s[i]
      /\ \A i \in Len(s) + 1 .. m : u[i] = r[i - Len(s)] /\ i - Len(s) \in 1..Len(r)
  BY RetainedPlaces
<1>2. s2 \in Seq(Alert) /\ \E p : Arranges(p, u, places, a2) /\ \A k \in 1..a2 : s2[k] = u[p[k]]
  BY MergeArranges
<1>3. PICK p : Arranges(p, u, places, a2) /\ \A k \in 1..a2 : s2[k] = u[p[k]]
  BY <1>2
<1> HIDE DEF s2
<1>d. RestParts(t, t2, s, s2, Of(Head(ev)), n)
  <2> HIDE DEF t, t2
  <2>1. QED  BY <1>2, StoryRest DEF t, t2
<1>e. InOrder(t)
  OBVIOUS
<1> HIDE DEF t, t2, n
<1>4. /\ a \in Nat /\ a2 \in Nat /\ n \in Nat /\ n2 \in Nat /\ c = a + 1 - a2 /\ n2 = n - c
      /\ DOMAIN t = 1..n /\ DOMAIN t2 = 1..n2
      /\ a + 1 \in 1..n /\ t[a + 1] = Of(Head(ev))
      /\ \A i \in 1..a : i \in 1..n /\ t[i] = {s[i]}
      /\ \A i \in 1..a2 : i \in 1..n2 /\ t2[i] = {s2[i]}
      /\ \A i \in a2 + 1 .. n2 : i + c \in 1..n /\ t2[i] = t[i + c]
  BY <1>d DEF RestParts
<1>5. m \in Nat /\ \A j \in 1..m : g[j] = IF j <= a THEN j ELSE a + 1
  BY <1>1
<1>6. InOrder(t)
  BY <1>e
<1>7. \A j \in 1..m : u[j] \in Alert /\ u[j].ts \in Nat
  <2>1. \A x \in Alert : x.ts \in Nat
    BY DEF Alert
  <2>2. QED  BY <1>1, <2>1
<1>8. \A i \in 1..a : u[i] = s[i]
  BY <1>1
<1>9. \A i \in a + 1 .. m : u[i] \in Of(Head(ev))
  BY <1>1
<1> HIDE DEF t, t2, a, a2, n, c, n2, u, m, places, g
<1>10. ASSUME NEW j \in 1..m PROVE g[j] \in 1..n /\ g[j] <= a + 1 /\ u[j] \in t[g[j]]
  <2>1. CASE j <= a
    <3>1. j \in 1..a
      BY <1>5, <2>1
    <3>2. g[j] = j /\ u[j] = s[j]
      BY <1>5, <1>8, <2>1, <3>1
    <3>3. j \in 1..n /\ t[j] = {s[j]}
      BY <1>4, <3>1
    <3>4. j <= a + 1
      BY <1>4, <2>1
    <3>5. QED  BY <3>2, <3>3, <3>4
  <2>2. CASE j > a
    <3>1. j \in a + 1 .. m
      <4>1. j \in Int /\ j <= m /\ a \in Int /\ m \in Int
        BY <1>4, <1>5
      <4>2. QED  BY <2>2, <4>1
    <3>2. g[j] = a + 1
      <4>1. g[j] = IF j <= a THEN j ELSE a + 1
        BY <1>5
      <4>2. ~(j <= a)
        BY <1>4, <1>5, <2>2
      <4>3. QED  BY <4>1, <4>2
    <3>3. u[j] \in t[a + 1]
      BY <1>4, <1>9, <3>1
    <3>4. a + 1 \in 1..n /\ a + 1 <= a + 1
      BY <1>4
    <3>5. QED  BY <3>2, <3>3, <3>4
  <2>3. j <= a \/ j > a
    BY <1>4, <1>5
  <2>4. QED  BY <2>1, <2>2, <2>3
<1>11. ASSUME NEW i \in 1..m, NEW j \in 1..m, i <= j PROVE Agree(u[i], u[j])
  <2>1. g[i] <= g[j]
    <3>1. /\ g[i] = IF i <= a THEN i ELSE a + 1
          /\ g[j] = IF j <= a THEN j ELSE a + 1
      BY <1>5
    <3>2. CASE j <= a
      BY <1>4, <1>11, <3>1, <3>2
    <3>3. CASE ~(j <= a)
      BY <1>4, <3>1, <3>3
    <3>4. QED  BY <3>2, <3>3
  <2>2. QED  BY <1>4, <1>6, <1>10, <2>1 DEF InOrder
<1>12. \A k \in 1..a2 : p[k] \in 1..m
  BY <1>1, <1>3 DEF Arranges
<1>13. ASSUME NEW k \in 1..a2, NEW l \in 1..a2, k <= l PROVE Agree(s2[k], s2[l])
  <2> DEFINE i == p[k]
             j == p[l]
  <2>1. i \in 1..m /\ j \in 1..m /\ s2[k] = u[i] /\ s2[l] = u[j]
    BY <1>3, <1>12
  <2>2. k # l => Precedes(u, i, j)
    BY <1>3, <1>4, <1>13 DEF Arranges
  <2>3. k = l => i = j
    OBVIOUS
  <2> HIDE DEF i, j
  <2>4. CASE i <= j
    BY <1>11, <2>1, <2>4
  <2>5. CASE i > j
    <3>1. u[i].ts < u[j].ts
      BY <1>5, <2>1, <2>2, <2>3, <2>5 DEF Precedes
    <3>2. Agree(u[j], u[i])
      BY <1>5, <1>11, <2>1, <2>5
    <3>3. u[i].ts \in Nat /\ u[j].ts \in Nat
      BY <1>7, <2>1
    <3>4. u[i].id # u[j].id
      BY <3>1, <3>2, <3>3 DEF Agree
    <3>5. QED  BY <2>1, <3>4 DEF Agree
  <2>6. QED  BY <1>5, <2>1, <2>4, <2>5
<1>14. ASSUME NEW k \in 1..n2, NEW l \in 1..n2, k <= l, NEW x \in t2[k], NEW y \in t2[l]
       PROVE  Agree(x, y)
  <2>1. CASE l <= a2
    <3>1. k \in 1..a2 /\ l \in 1..a2
      BY <1>4, <1>14, <2>1
    <3>2. QED  BY <1>4, <1>13, <1>14, <3>1
  <2>2. CASE k <= a2 /\ l > a2
    <3>1. x = u[p[k]] /\ p[k] \in 1..m
      <4>1. k \in 1..a2
        BY <1>4, <2>2
      <4>2. t2[k] = {s2[k]} /\ s2[k] = u[p[k]]
        BY <1>3, <1>4, <4>1
      <4>3. QED  BY <1>12, <1>14, <4>1, <4>2
    <3>2. g[p[k]] \in 1..n /\ g[p[k]] <= a + 1 /\ x \in t[g[p[k]]]
      BY <1>10, <3>1
    <3>3. l + c \in 1..n /\ y \in t[l + c]
      BY <1>4, <1>14, <2>2
    <3>4. g[p[k]] <= l + c
      <4>1. l + c >= a + 1
        BY <1>4, <2>2
      <4>2. QED  BY <1>4, <3>2, <3>3, <4>1
    <3>5. QED  BY <1>4, <1>6, <3>2, <3>3, <3>4 DEF InOrder
  <2>3. CASE k > a2
    <3>1. /\ k + c \in 1..n /\ l + c \in 1..n /\ k + c <= l + c
          /\ x \in t[k + c] /\ y \in t[l + c]
      BY <1>4, <1>14, <2>3
    <3>2. QED  BY <1>4, <1>6, <3>1 DEF InOrder
  <2>4. QED  BY <1>4, <2>1, <2>2, <2>3
<1>15. ASSUME NEW k \in 1..n2, NEW x \in t2[k] PROVE InStory(x, t)
  <2>1. CASE k <= a2
    <3>1. x = u[p[k]] /\ p[k] \in 1..m
      <4>1. k \in 1..a2
        BY <1>4, <2>1
      <4>2. t2[k] = {s2[k]} /\ s2[k] = u[p[k]]
        BY <1>3, <1>4, <4>1
      <4>3. QED  BY <1>12, <1>15, <4>1, <4>2
    <3>2. QED  BY <1>4, <1>10, <3>1 DEF InStory
  <2>2. CASE k > a2
    <3>1. k + c \in 1..n /\ t2[k] = t[k + c]
      BY <1>4, <2>2
    <3>2. QED  BY <1>4, <1>15, <3>1 DEF InStory
  <2>3. QED  BY <1>4, <2>1, <2>2
<1>16. InOrder(t2) /\ \A k \in DOMAIN t2 : \A x \in t2[k] : InStory(x, t)
  <2>1. InOrder(t2)
    BY <1>4, <1>14 DEF InOrder
  <2>2. QED  BY <1>4, <1>15, <2>1
<1>17. QED  BY <1>16 DEF t, t2, s2

\* What the interface has heard and is being told now.
NowStory == Story(app.alerts, events, conn[TheGui].sent, conn[TheGui].taken)

(***************************************************************************)
(* Why the panel shows the right alert: of two alerts with one id the one  *)
(* that is told first, and listed first, is the older one by its tag and   *)
(* by the clock, because what is told is recorded at that moment and what  *)
(* was told before is either recorded under the same id or was left by a   *)
(* process that has stopped.  As long as the daemon was started once       *)
(* there is none of the latter.                                            *)
(***************************************************************************)
DetailsInv ==
  LET t == NowStory
  IN  /\ InOrder(t)
      /\ \A p \in DOMAIN t : \A x \in t[p] : x \in Alert /\ Known(x)
      /\ boot = 1 =>
           /\ \A p, q \in DOMAIN t : \A x \in t[p], y \in t[q] : x.id = y.id => x = y
           /\ up => \A p \in DOMAIN t : \A x \in t[p] : InRecorded(x)

\* An order that holds nothing but what it held before and what is recorded.
LEMMA DetailsAfter ==
  ASSUME TypeOK, FeedNumbered, StoppedEmpty, RaisedBefore, [PipeNext]_pipeVars, DetailsInv,
         NEW t2, t2 = NowStory', InOrder(t2),
         \A p \in DOMAIN t2 : \A x \in t2[p] :
           InStory(x, NowStory) \/ (UNCHANGED pipeVars /\ InRecorded(x))
  PROVE  DetailsInv'
<1> DEFINE t == NowStory
<1>1. ASSUME NEW p \in DOMAIN t2, NEW x \in t2[p] PROVE x \in Alert /\ Known(x)
  <2>1. CASE InStory(x, t)
    BY <2>1 DEF InStory, DetailsInv
  <2>2. CASE InRecorded(x)
    BY <2>2, RecordedKnown
  <2>3. QED  BY <1>1, <2>1, <2>2
<1>2. \A p \in DOMAIN t2 : \A x \in t2[p] : x \in Alert /\ Known(x)'
  BY <1>1, KnownStays
<1>3. ASSUME boot' = 1 PROVE boot = 1 /\ (up' => up /\ Works)
  <2>1. boot \in Nat \ {0} /\ boot = 1
    BY <1>3, NothingGoesBack, PipelineAssumption DEF TypeOK
  <2>2. ~Start
    BY <1>3, <2>1 DEF Start
  <2>3. CASE Halt
    BY <2>1, <2>3 DEF Halt
  <2>4. CASE PipeWork \/ UNCHANGED pipeVars
    <3>1. up' = up
      BY <2>4 DEF PipeWork, Dispatch, Tick, Raise, Enqueue, Receive, WriteObject,
         WriteNewline, WriteFails, Record, Broadcast, pipeVars
    <3>2. QED  BY <2>1, <2>4, <3>1 DEF Works
  <2>5. QED  BY <2>2, <2>3, <2>4 DEF PipeNext
<1>4. ASSUME boot = 1, up, NEW p \in DOMAIN t2, NEW x \in t2[p] PROVE InRecorded(x)
  BY <1>4 DEF InStory, DetailsInv
<1>5. ASSUME ~up, NEW x PROVE ~InRecorded(x)
  <2>1. feed = <<>> /\ step = "recv"
    BY <1>5 DEF StoppedEmpty
  <2>2. Recorded = <<>>
    BY <2>1 DEF Recorded
  <2>3. QED  BY <2>2 DEF InRecorded
<1>6. ASSUME boot = 1, NEW p \in DOMAIN t2, NEW q \in DOMAIN t2, NEW x \in t2[p],
             NEW y \in t2[q], x.id = y.id
      PROVE  x = y
  <2>1. CASE up
    <3>1. InRecorded(x) /\ InRecorded(y)
      BY <1>4, <1>6, <2>1
    <3>2. QED  BY <1>6, <3>1, RecordedRanks DEF InRecorded
  <2>2. CASE ~up
    <3>1. InStory(x, t) /\ InStory(y, t)
      BY <1>5, <1>6, <2>2
    <3>2. QED  BY <1>6, <3>1 DEF InStory, DetailsInv
  <2>3. QED  BY <2>1, <2>2
<1>7. ASSUME boot' = 1, up', NEW p \in DOMAIN t2, NEW x \in t2[p] PROVE InRecorded(x)'
  BY <1>3, <1>4, <1>7, RecordedStays
<1>8. boot' = 1 => /\ \A p, q \in DOMAIN t2 : \A x \in t2[p], y \in t2[q] : x.id = y.id => x = y
                   /\ up' => \A p \in DOMAIN t2 : \A x \in t2[p] : InRecorded(x)'
  BY <1>3, <1>6, <1>7
<1>9. QED  BY <1>2, <1>8 DEF DetailsInv

\* Every step of the system keeps the order.
LEMMA DetailsStep ==
  ASSUME TypeOK, FeedNumbered, StoppedEmpty, StateMatchesRecorded, RaisedBefore,
         IpcTypeOK, IpcTypeOK', TalkInv, TalkInv', GuiTypeOK, GuiTypeOK', DetailsInv,
         [Next]_allVars
  PROVE  DetailsInv'
<1> DEFINE k == conn[TheGui]
           k2 == conn'[TheGui]
           s == app.alerts
           s2 == app'.alerts
           t == NowStory
           t2 == Story(s2, events', k2.sent, k2.taken)
<1>1. /\ k.sent \in Seq(Message) /\ k.taken \in Nat /\ k.taken <= Len(k.sent)
      /\ k2.sent \in Seq(Message) /\ k2.taken \in Nat /\ k2.taken <= Len(k2.sent)
      /\ k \in Connection
  BY GuiAssumption DEF IpcTypeOK, Connection, TalkInv, TalkOK
<1>2. /\ events \in Seq(Event) /\ events' \in Seq(Event)
      /\ s \in Seq(Alert) /\ s2 \in Seq(Alert) /\ app \in App
  BY DEF GuiTypeOK, App
<1>3. t2 = NowStory' /\ t = Story(s, events, k.sent, k.taken) /\ InOrder(t)
  BY DEF NowStory, DetailsInv
<1>4. [PipeNext]_pipeVars
  BY ServerStep, PipeStep
<1>5. SUFFICES InOrder(t2) /\ \A p \in DOMAIN t2 : \A x \in t2[p] :
                 InStory(x, t) \/ (UNCHANGED pipeVars /\ InRecorded(x))
  <2> HIDE DEF t2
  <2>1. QED  BY <1>3, <1>4, DetailsAfter
<1>6. IsLeft(k, k2) \/ IsTold(k, k2) \/ IsRead(k, k2) \/ IsDrained
  BY ToldSteps
<1> HIDE DEF k, k2, t
<1>7. CASE IsLeft(k, k2)
  <2>1. s2 = s /\ (events' = events \/ events' = Append(events, Disconnected))
    BY <1>7 DEF IsLeft, EventsStay
  <2>2. \A u \in k2.taken + 1 .. Len(k2.sent) :
          u \in k.taken + 1 .. Len(k.sent) /\ k2.sent[u] = k.sent[u]
    BY <1>7 DEF IsLeft
  <2> HIDE DEF s, s2
  <2>3. InOrder(t2) /\ \A p \in DOMAIN t2 : \A x \in t2[p] : InStory(x, t)
    BY <1>1, <1>2, <1>3, <2>1, <2>2, StoryLess
  <2>4. QED  BY <2>3
<1>8. CASE IsRead(k, k2)
  <2>1. s2 = s /\ k.taken < Len(k.sent) /\ k2.sent = k.sent /\ k2.taken = k.taken + 1
    BY <1>1, <1>8 DEF IsRead, Connection
  <2>2. \/ events' = events /\ Of(k.sent[k.taken + 1]) = {}
        \/ \E e \in Event : events' = Append(events, e) /\ Of(e) = Of(k.sent[k.taken + 1])
    BY <1>8 DEF IsRead
  <2> HIDE DEF s, s2
  <2>3. InOrder(t2) /\ \A p \in DOMAIN t2 : \A x \in t2[p] : InStory(x, t)
    BY <1>1, <1>2, <1>3, <2>1, <2>2, StoryRead
  <2>4. QED  BY <2>3
<1>9. CASE IsDrained
  <2> DEFINE e == Head(events)
  <2>1. events # <<>> /\ events' = Tail(events) /\ app' = Apply(app, e) /\ k2 = k
    BY <1>9 DEF IsDrained, k, k2, vars, ipcVars
  <2>2. e \in Event
    BY <1>2, <2>1
  <2> HIDE DEF e
  <2>3. CASE e.kind \in {"connected", "disconnected"}
    <3>1. s2 = s
      BY <1>2, <2>1, <2>3 DEF Apply, App
    <3>2. Of(e) = {}
      BY <2>3 DEF Of
    <3> HIDE DEF s, s2
    <3>3. InOrder(t2) /\ \A p \in DOMAIN t2 : \A x \in t2[p] : InStory(x, t)
      BY <1>1, <1>2, <1>3, <2>1, <3>1, <3>2, StoryDrains DEF e
    <3>4. QED  BY <3>3
  <2>4. CASE e.kind = "alert"
    <3>1. s2 = LastN(Append(s, e.alert), MaxAlerts)
      BY <1>2, <2>1, <2>4 DEF Apply, App
    <3>2. Of(e) = {e.alert} /\ e.alert \in Alert
      BY <2>2, <2>4, MessageParts DEF Of, Event
    <3> HIDE DEF s, s2
    <3>3. InOrder(t2) /\ \A p \in DOMAIN t2 : \A x \in t2[p] : InStory(x, t)
      BY <1>1, <1>2, <1>3, <2>1, <3>1, <3>2, StoryDrains DEF e
    <3>4. QED  BY <3>3
  <2>5. CASE e.kind = "recent"
    <3>1. s2 = Merge(s, e.alerts)
      BY <1>2, <2>1, <2>5 DEF Apply, App
    <3>2. /\ Of(e) = {e.alerts[i] : i \in 1..Len(e.alerts)}
          /\ e.alerts \in Seq(Alert)
      BY <2>2, <2>5, MessageParts DEF Of, Event
    <3> HIDE DEF s, s2
    <3>3. InOrder(t2) /\ \A p \in DOMAIN t2 : \A x \in t2[p] : InStory(x, t)
      BY <1>1, <1>2, <1>3, <2>1, <3>1, <3>2, StoryMerges DEF e
    <3>4. QED  BY <3>3
  <2>6. QED  BY <2>2, <2>3, <2>4, <2>5 DEF Event
<1>10. CASE IsTold(k, k2)
  <2>1. PICK m \in Message : k2.sent = k.sent \o <<m>> /\ \A x \in Of(m) : InRecorded(x)
    BY <1>10 DEF IsTold
  <2>2. /\ s2 = s /\ (events' = events \/ events' = Append(events, Disconnected))
        /\ k2.taken = k.taken /\ UNCHANGED pipeVars
    BY <1>10 DEF IsTold, EventsStay
  <2> DEFINE sent2 == k.sent \o <<m>>
             ev2 == events'
             t1 == Story(s2, ev2, k.sent, k.taken)
             n == Len(s2) + Len(ev2) + (Len(k.sent) - k.taken)
  <2> HIDE DEF s, s2
  <2>3. InOrder(t1) /\ \A p \in DOMAIN t1 : \A x \in t1[p] : InStory(x, t)
    BY <1>1, <1>2, <1>3, <2>2, StoryLess
  <2>4. t2 = Story(s2, ev2, sent2, k.taken)
    BY <2>1, <2>2
  <2>5. /\ k.sent \in Seq(Message) /\ k.taken \in Nat /\ k.taken <= Len(k.sent)
        /\ s2 \in Seq(Alert) /\ ev2 \in Seq(Event)
    BY <1>1, <1>2
  <2> HIDE DEF t2, ev2
  <2>6. /\ n \in Nat /\ DOMAIN t1 = 1..n /\ DOMAIN t2 = 1..n + 1
        /\ \A p \in 1..n : t2[p] = t1[p]
        /\ t2[n + 1] = Of(m)
    <3> DEFINE t3 == Story(s2, ev2, sent2, k.taken)
    <3>1. /\ n \in Nat /\ DOMAIN t1 = 1..n /\ DOMAIN t3 = 1..n + 1
          /\ \A p \in 1..n : t3[p] = t1[p]
          /\ t3[n + 1] = Of(m)
      <4> DEFINE w == k.sent
                 v == k.taken
      <4>1. w \in Seq(Message) /\ v \in Nat /\ v <= Len(w) /\ m \in Message
            /\ s2 \in Seq(Alert) /\ ev2 \in Seq(Event)
        BY <2>5
      <4> HIDE DEF w, v
      <4>2. LET a == Story(s2, ev2, w, v)
                c == Story(s2, ev2, w \o <<m>>, v)
                d == Len(s2) + Len(ev2) + (Len(w) - v)
            IN  /\ d \in Nat /\ DOMAIN a = 1..d /\ DOMAIN c = 1..d + 1
                /\ \A p \in 1..d : c[p] = a[p]
                /\ c[d + 1] = Of(m)
        BY ONLY <4>1, StoryTold
      <4>3. QED  BY <4>2 DEF w, v
    <3> HIDE DEF t1, t3, n
    <3>2. t2 = t3
      BY <2>4 DEF t3
    <3>3. QED  BY <3>1, <3>2
  <2> HIDE DEF t1, n
  <2>7. ASSUME NEW p \in 1..n, NEW x \in t1[p], NEW y \in Of(m) PROVE Agree(x, y)
    <3>1. InStory(x, t) /\ InRecorded(y)
      BY <2>1, <2>3, <2>6
    <3>2. Known(x)
      BY <3>1 DEF InStory, DetailsInv, t
    <3>3. QED  BY <3>1, <3>2, AgreeNew
  <2>8. ASSUME NEW x \in Of(m), NEW y \in Of(m) PROVE Agree(x, y)
    <3>1. InRecorded(x) /\ InRecorded(y) /\ Known(x)
      BY <2>1, RecordedKnown
    <3>2. QED  BY <3>1, AgreeNew
  <2>9. InOrder(t2)
    BY <2>3, <2>6, <2>7, <2>8, StoryGrows
  <2>10. ASSUME NEW p \in DOMAIN t2, NEW x \in t2[p]
         PROVE  InStory(x, t) \/ (UNCHANGED pipeVars /\ InRecorded(x))
    <3>1. CASE p \in 1..n
      BY <2>3, <2>6, <2>10, <3>1
    <3>2. CASE p = n + 1
      BY <2>1, <2>2, <2>6, <2>10, <3>2
    <3>3. QED  BY <2>6, <3>1, <3>2
  <2>11. QED  BY <2>9, <2>10
<1>11. QED  BY <1>6, <1>7, <1>8, <1>9, <1>10

\* The order of what the interface is told holds in every reachable state.
LEMMA DetailsInvariant == Spec => []DetailsInv
<1>1. Init => DetailsInv
  <2> SUFFICES ASSUME Init PROVE DetailsInv
    OBVIOUS
  <2>1. conn[TheGui] = NoConn /\ events = <<>> /\ app.alerts = <<>>
    BY GuiAssumption DEF Init, GuiInit, IpcInit
  <2>2. NoConn.sent = <<>> /\ NoConn.taken = 0
    BY DEF NoConn
  <2>3. DOMAIN NowStory = {}
    BY <2>1, <2>2 DEF NowStory, Story
  <2>4. QED  BY <2>3 DEF DetailsInv, InOrder
<1>2. /\ TypeOK /\ FeedNumbered /\ StoppedEmpty /\ StateMatchesRecorded /\ RaisedBefore
      /\ IpcTypeOK /\ IpcTypeOK' /\ TalkInv /\ TalkInv' /\ GuiTypeOK /\ GuiTypeOK'
      /\ DetailsInv /\ [Next]_allVars
      => DetailsInv'
  BY DetailsStep
<1>3. PipeSpec => [](TypeOK /\ FeedNumbered /\ StoppedEmpty /\ StateMatchesRecorded
                       /\ RaisedBefore)
  BY TypeCorrect, Numbered, StopsEmpty, StateAgrees, RaisedBeforeNow, PTL
<1>4. ServerSpec => [](IpcTypeOK /\ TalkInv)
  BY IpcTypeCorrect, TalkInvariant, PTL
<1>5. Spec => ServerSpec /\ PipeSpec
  BY GuiIsAClient, ServerRunsPipe, PTL
<1>6. QED  BY <1>1, <1>2, <1>3, <1>4, <1>5, GuiTypeCorrect, PTL DEF Spec

\* A list that has an alert with some id has a first one.
LEMMA FirstOfId ==
  ASSUME NEW s \in Seq(Alert), NEW i \in 1..Len(s)
  PROVE  \E j \in 1..i : Details(s, s[i].id) = s[j] /\ s[j].id = s[i].id
<1> DEFINE n == Len(s)
           S == {j \in 1..n : s[j].id = s[i].id}
           T == {1..j : j \in S}
           R == StrictSubsetOrdering(1..n)
           isFirst(j) == s[j].id = s[i].id /\ \A l \in 1..j-1 : s[l].id # s[i].id
<1>1. n \in Nat
  OBVIOUS
<1>2. IsWellFoundedOn(R, SUBSET (1..n))
  <2>1. IsFiniteSet(1..n)
    BY FS_Interval, <1>1
  <2>2. FiniteSubsetsOf(1..n) = SUBSET (1..n)
    BY <2>1, FS_FiniteSubsetsOfFinite
  <2>3. IsWellFoundedOn(R, FiniteSubsetsOf(1..n))
    BY FS_StrictSubsetOrderingWellFounded
  <2>4. QED  BY <2>2, <2>3
<1>3. T \subseteq SUBSET (1..n) /\ T # {}
  <2>1. i \in S
    OBVIOUS
  <2>2. \A j \in S : 1..j \subseteq 1..n
    BY <1>1
  <2>3. QED  BY <2>1, <2>2
<1>4. PICK t \in T : \A u \in T : ~(<<u, t>> \in R)
  <2> HIDE DEF T, R, n
  <2>1. QED  BY <1>2, <1>3, WFMin
<1>5. PICK m \in S : t = 1..m
  BY <1>4
<1>6. ASSUME NEW l \in 1..m-1, l \in S PROVE FALSE
  <2>1. 1..l \in T
    BY <1>6
  <2>2. 1..l \subseteq 1..m /\ m \in 1..m /\ m \notin 1..l
    BY <1>1, <1>5, <1>6
  <2>3. 1..m \subseteq 1..n
    BY <1>1, <1>5
  <2>4. <<1..l, 1..m>> \in R
    BY <2>2, <2>3 DEF StrictSubsetOrdering
  <2>5. QED  BY <1>4, <1>5, <2>1, <2>4
<1>7. m \in 1..n /\ isFirst(m)
  <2>1. \A l \in 1..m-1 : l \in 1..n
    BY <1>1, <1>5
  <2>2. QED  BY <1>5, <1>6, <2>1
<1> DEFINE first == CHOOSE j \in 1..n : isFirst(j)
<1>8. first \in 1..n /\ isFirst(first)
  <2> HIDE DEF n, isFirst
  <2>1. QED  BY <1>7
<1>9. Details(s, s[i].id) = s[first]
  BY DEF Details
<1> HIDE DEF first
<1>10. first <= i
  BY <1>1, <1>8
<1>11. QED  BY <1>1, <1>8, <1>9, <1>10

\* Whatever the list went through, with snapshots merged into it over restarts of the
\* daemon, a click on a row shows that row or, after a restart, an alert of a process
\* before with the same id.
THEOREM DetailsAreRight == Spec => []DetailsAgree
<1>1. TypeOK /\ FeedNumbered /\ IpcTypeOK /\ TalkInv /\ GuiTypeOK /\ DetailsInv => DetailsAgree
  <2> SUFFICES ASSUME TypeOK, FeedNumbered, IpcTypeOK, TalkInv, GuiTypeOK, DetailsInv,
                      NEW i \in 1..Len(app.alerts)
               PROVE  LET row == app.alerts[i]
                          details == Details(app.alerts, row.id)
                      IN  \/ details = row
                          \/ /\ details.tag < row.tag /\ boot > 1
                             /\ ~\E k \in 1..Len(feed) : feed[k] = details
    BY DEF DetailsAgree
  <2> DEFINE s == app.alerts
             t == NowStory
             row == s[i]
             details == Details(s, row.id)
  <2>1. s \in Seq(Alert)
    BY DEF GuiTypeOK, App
  <2>2. PICK j \in 1..i : details = s[j] /\ s[j].id = row.id
    BY <2>1, FirstOfId
  <2>3. /\ Len(s) \in Nat /\ i \in 1..Len(s) /\ j \in 1..Len(s) /\ j <= i
    BY <2>1
  <2>4. \A p \in 1..Len(s) : p \in DOMAIN t /\ t[p] = {s[p]}
    <3> DEFINE sent == conn[TheGui].sent
               taken == conn[TheGui].taken
               n == Len(s) + Len(events) + (Len(sent) - taken)
    <3>1. /\ sent \in Seq(Message) /\ taken \in Nat /\ taken <= Len(sent)
          /\ events \in Seq(Event)
      BY GuiAssumption DEF IpcTypeOK, Connection, TalkInv, TalkOK, GuiTypeOK
    <3>2. t = Story(s, events, sent, taken)
      BY DEF NowStory
    <3> HIDE DEF s, sent, taken, t
    <3>3. DOMAIN t = 1..n /\ StoryParts(t, s, events, sent, taken) /\ n \in Nat
      BY <2>1, <3>1, <3>2, StoryPlaces
    <3>4. \A p \in 1..Len(s) : p \in 1..n /\ p <= Len(s)
      BY <2>3, <3>1
    <3>5. QED  BY <3>3, <3>4 DEF StoryParts
  <2> HIDE DEF s, t, row, details
  <2>5. row = s[i]
    BY DEF row
  <2>6. Agree(details, row)
    BY <2>2, <2>3, <2>4, <2>5 DEF DetailsInv, InOrder, t
  <2>7. /\ details \in Alert /\ row \in Alert /\ Known(row)
        /\ boot = 1 => details = row
    BY <2>2, <2>3, <2>4, <2>5 DEF DetailsInv, t
  <2>8. details.tag \in Nat /\ row.tag \in Nat
    BY <2>7 DEF Alert
  <2>9. CASE details # row
    <3>1. details.tag < row.tag
      BY <2>2, <2>6, <2>9 DEF Agree
    <3>2. boot > 1
      <4>1. boot \in Nat \ {0} /\ boot # 1
        BY <2>7, <2>9, PipelineAssumption DEF TypeOK
      <4>2. QED  BY <4>1
    <3>3. ASSUME NEW k \in 1..Len(feed), feed[k] = details PROVE FALSE
      <4>1. feed \in Seq(Alert) /\ (hand # NoAlert => hand \in Alert)
        BY DEF TypeOK
      <4>2. InRecorded(details)
        BY <3>3, <4>1 DEF InRecorded, Recorded
      <4>3. CASE InRecorded(row)
        BY <2>2, <2>9, <4>2, <4>3, RecordedRanks DEF InRecorded
      <4>4. CASE Past(row)
        <5>1. IsHere(details)
          BY <4>2, RecordedHere
        <5>2. row.tag < details.tag
          BY <2>7, <4>4, <5>1 DEF Past
        <5>3. QED  BY <2>8, <3>1, <5>2
      <4>5. QED  BY <2>7, <4>3, <4>4 DEF Known
    <3>4. QED  BY <3>1, <3>2, <3>3 DEF details, row, s
  <2>10. QED  BY <2>9 DEF details, row, s
<1>2. Spec => [](TypeOK /\ FeedNumbered)
  BY GuiIsAClient, ServerRunsPipe, TypeCorrect, Numbered, PTL
<1>3. Spec => [](IpcTypeOK /\ TalkInv)
  BY GuiIsAClient, IpcTypeCorrect, TalkInvariant, PTL
<1>4. QED  BY <1>1, <1>2, <1>3, GuiTypeCorrect, DetailsInvariant, PTL

-----------------------------------------------------------------------------
(* What the interface has asked for *)

\* The two lines that the thread writes.
Asks == <<[kind |-> "subscribe"], [kind |-> "get_recent", limit |-> GuiLimit]>>

\* The first n of them are written.
HasAsked(asked, n) == Len(asked) = n /\ \A i \in 1..n : asked[i] = Asks[i]

\* The thread has written as many of them as it has come to.
AskInv ==
  LET asked == conn[TheGui].asked
  IN  /\ link = "none" => HasAsked(asked, 0)
      /\ thread = "subscribe" => HasAsked(asked, 0)
      /\ thread = "recent" => HasAsked(asked, 1)
      /\ thread = "read" => HasAsked(asked, 2)

\* They are requests.
LEMMA AsksAre ==
  /\ Asks[1] = [kind |-> "subscribe"] /\ Asks[1] \in Request
  /\ Asks[2] = [kind |-> "get_recent", limit |-> GuiLimit] /\ Asks[2] \in Request
BY GuiAssumption DEF Asks, Request

\* One more line is written.
LEMMA AsksNext ==
  ASSUME NEW asked \in Seq(Request), NEW n \in Nat, HasAsked(asked, n), NEW req \in Request,
         req = Asks[n + 1]
  PROVE  HasAsked(Append(asked, req), n + 1)
BY DEF HasAsked

\* Only a connection that the client has no end of is made.
LEMMA NoneStays ==
  ASSUME TypeOK, IpcTypeOK, [ServerNext]_vars, NEW c \in Clients, conn'[c].link = "none"
  PROVE  conn'[c] = NoConn \/ conn[c].link = "none"
BY TalkSteps DEF Talks, Quiet, CutsOff, Greets, Reads, Tells

LEMMA AskStep ==
  ASSUME TypeOK, IpcTypeOK, ThreadInv, ThreadInv', AskInv, [Next]_allVars
  PROVE  AskInv'
<1> DEFINE k == conn[TheGui]
           k2 == conn'[TheGui]
<1>1. /\ k \in Connection /\ k.asked \in Seq(Request)
      /\ HasAsked(NoConn.asked, 0) /\ NoConn.link = "none"
  BY GuiAssumption DEF IpcTypeOK, Connection, NoConn, HasAsked
<1>2. /\ k.link = "none" => HasAsked(k.asked, 0)
      /\ thread = "subscribe" => HasAsked(k.asked, 0)
      /\ thread = "recent" => HasAsked(k.asked, 1)
      /\ thread = "read" => HasAsked(k.asked, 2)
  BY DEF AskInv, link
<1>3. thread' \in {"subscribe", "recent", "read"} => k2.link \in Bound
  BY DEF ThreadInv
<1>4. k2.link = "none" => k2 = NoConn \/ k.link = "none"
  BY NoneStays, ServerStep, GuiAssumption
<1> SUFFICES /\ k2.link = "none" => HasAsked(k2.asked, 0)
             /\ thread' = "subscribe" => HasAsked(k2.asked, 0)
             /\ thread' = "recent" => HasAsked(k2.asked, 1)
             /\ thread' = "read" => HasAsked(k2.asked, 2)
  BY DEF AskInv, link
<1>5. CASE k2.asked = k.asked /\ thread' = thread
  BY <1>1, <1>2, <1>4, <1>5
<1>6. CASE DaemonNext /\ UNCHANGED guiVars
  <2>1. k2.asked = k.asked \/ k2 = NoConn
    BY <1>6, TakenStays, GuiAssumption
  <2>2. CASE k2 = NoConn
    BY <1>1, <1>3, <2>2 DEF Bound
  <2>3. QED  BY <1>5, <1>6, <2>1, <2>2 DEF guiVars
<1>7. CASE GuiConnect
  <2>1. k.link = "none" /\ k2 = [k EXCEPT !.link = "pending"] /\ thread' = "subscribe"
    BY <1>7, ClientActs DEF GuiConnect
  <2>2. k2.asked = k.asked /\ k2.link = "pending"
    BY <1>1, <2>1 DEF Connection
  <2>3. QED  BY <1>2, <2>1, <2>2
<1>8. CASE GuiAsks
  <2>1. /\ Asks[1] = [kind |-> "subscribe"] /\ Asks[1] \in Request
        /\ Asks[2] = [kind |-> "get_recent", limit |-> GuiLimit] /\ Asks[2] \in Request
    BY AsksAre
  <2>2. ASSUME NEW req \in Request, Ask(TheGui, req)
        PROVE  k2.asked = Append(k.asked, req) /\ k2.link # "none"
    <3>1. k.link \in {"pending", "open"} /\ k2 = [k EXCEPT !.asked = Append(@, req)]
      BY <2>2, ClientActs
    <3>2. QED  BY <1>1, <3>1 DEF Connection
  <2>3. CASE thread = "subscribe" /\ Ask(TheGui, Asks[1]) /\ thread' = "recent"
    <3>1. k2.asked = Append(k.asked, Asks[1]) /\ k2.link # "none" /\ HasAsked(k.asked, 0)
      BY <1>2, <2>1, <2>2, <2>3
    <3>2. HasAsked(k2.asked, 0 + 1)
      BY <1>1, <2>1, <3>1, AsksNext
    <3>3. QED  BY <2>3, <3>1, <3>2
  <2>4. CASE thread = "recent" /\ Ask(TheGui, Asks[2]) /\ thread' = "read"
    <3>1. k2.asked = Append(k.asked, Asks[2]) /\ k2.link # "none" /\ HasAsked(k.asked, 1)
      BY <1>2, <2>1, <2>2, <2>4
    <3>2. HasAsked(k2.asked, 1 + 1)
      BY <1>1, <2>1, <3>1, AsksNext
    <3>3. QED  BY <2>4, <3>1, <3>2
  <2>5. QED  BY <1>8, <2>1, <2>3, <2>4 DEF GuiAsks
<1>9. CASE Close(TheGui) /\ thread' = "sleep"
  <2>1. k2 = NoConn \/ k2 = [k EXCEPT !.link = "closed"]
    BY <1>9, ClientActs
  <2>2. k2 = NoConn \/ k2.link = "closed"
    BY <1>1, <2>1 DEF Connection
  <2>3. QED  BY <1>1, <1>9, <2>2
<1>10. CASE Take(TheGui) /\ thread' = thread
  <2>1. k2 = [k EXCEPT !.taken = @ + 1]
    BY <1>10, ClientActs
  <2>2. k2.asked = k.asked
    BY <1>1, <2>1 DEF Connection
  <2>3. QED  BY <1>5, <1>10, <2>2
<1>11. CASE UNCHANGED vars /\ thread' \in {thread, "sleep", "connect"}
  <2>1. k2 = k
    BY <1>11 DEF vars, ipcVars
  <2>2. QED  BY <1>2, <1>11, <2>1
<1>12. QED
  BY <1>6, <1>7, <1>8, <1>9, <1>10, <1>11
     DEF Next, GuiThread, GuiRefused, GuiAskFails, GuiReads, GuiHangup, GuiWakes,
         GuiCloneFails, DrainEvents, allVars, guiVars

\* While the interface is connected it has written at most the two lines.
LEMMA AskedIs ==
  ASSUME ThreadInv, AskInv, link \in Bound
  PROVE  \E n \in 0..2 : HasAsked(conn[TheGui].asked, n)
<1>1. thread \in {"subscribe", "recent", "read"}
  BY DEF ThreadInv, link
<1>2. CASE thread = "subscribe"
  BY <1>2 DEF AskInv
<1>3. CASE thread = "recent"
  BY <1>3 DEF AskInv
<1>4. CASE thread = "read"
  BY <1>4 DEF AskInv
<1>5. QED  BY <1>1, <1>2, <1>3, <1>4

\* Of what it has asked one line at most has a reply.
LEMMA OneReply ==
  ASSUME NEW asked, NEW n \in 0..2, HasAsked(asked, n), NEW j \in 0..n
  PROVE  /\ CountOf(Answered, asked, j) = IF j = 2 THEN 1 ELSE 0
         /\ j > 0 => asked[j].kind = IF j = 2 THEN "get_recent" ELSE "subscribe"
         /\ j > 0 => (asked[j].kind \in Answered <=> j = 2)
<1>1. \A i \in 1..n : asked[i].kind = IF i = 2 THEN "get_recent" ELSE "subscribe"
  BY AsksAre DEF HasAsked
<1>2. \A i \in 1..n : asked[i].kind \in Answered <=> i = 2
  BY <1>1, ReplyKinds
<1>3. CountOf(Answered, asked, 0) = 0
  BY FS_EmptySet DEF CountOf
<1>4. n >= 1 => CountOf(Answered, asked, 1) = 0
  <2>1. CountOf(Answered, asked, 0 + 1)
          = CountOf(Answered, asked, 0) + (IF asked[0 + 1].kind \in Answered THEN 1 ELSE 0)
    BY CountNext
  <2>2. QED  BY <1>2, <1>3, <2>1
<1>5. n >= 2 => CountOf(Answered, asked, 2) = 1
  <2>1. CountOf(Answered, asked, 1 + 1)
          = CountOf(Answered, asked, 1) + (IF asked[1 + 1].kind \in Answered THEN 1 ELSE 0)
    BY CountNext
  <2>2. QED  BY <1>2, <1>4, <2>1
<1>6. QED  BY <1>1, <1>2, <1>3, <1>4, <1>5

\* The interface is told nothing but Hello, alerts and one snapshot.
LEMMA OneRecent ==
  ASSUME IpcTypeOK, TalkInv, ThreadInv, AskInv, link = "open"
  PROVE  LET sent == conn[TheGui].sent
         IN  /\ \A i \in 1..Len(sent) : sent[i].kind \in {"hello", "alert", "recent"}
             /\ \A i, j \in 1..Len(sent) :
                  sent[i].kind = "recent" /\ sent[j].kind = "recent" => i = j
<1> DEFINE k == conn[TheGui]
           sent == k.sent
           count(i) == CountOf(Replies, sent, i)
<1>1. /\ k \in Connection /\ sent \in Seq(Message) /\ Len(sent) \in Nat /\ k.served \in Nat
      /\ k.served <= Len(k.asked) /\ AsMany(k) /\ InOrderAsked(k)
  BY GuiAssumption DEF IpcTypeOK, Connection, TalkInv, TalkOK, InTurn, link
<1>2. PICK n \in 0..2 : HasAsked(k.asked, n)
  BY AskedIs DEF Bound
<1>3. k.served \in 0..n /\ count(Len(sent)) = IF k.served = 2 THEN 1 ELSE 0
  <2>1. k.served \in 0..n
    BY <1>1, <1>2 DEF HasAsked
  <2>2. QED  BY <1>1, <1>2, <2>1, OneReply DEF AsMany
<1>4. ASSUME NEW i \in 1..Len(sent), sent[i].kind \in Replies
      PROVE  count(i - 1) \in Nat /\ count(i) = count(i - 1) + 1 /\ count(i) <= count(Len(sent))
  <2>1. i - 1 \in Nat /\ i \in Nat /\ (i - 1) + 1 = i /\ i <= Len(sent)
    BY <1>1
  <2>2. count(i - 1) \in Nat /\ count((i - 1) + 1) = count(i - 1) + 1
    BY <1>4, <2>1, CountNext
  <2>3. count(i) <= count(Len(sent))
    BY <1>1, <2>1, CountMonotone
  <2>4. QED  BY <2>1, <2>2, <2>3
<1>5. \A i \in 1..Len(sent) :
        \/ sent[i].kind \in {"hello", "alert"}
        \/ sent[i].kind \in Replies
  <2>1. \A i \in 1..Len(sent) : sent[i] \in Message
    BY <1>1
  <2>2. QED  BY <2>1 DEF Message, Replies
<1>6. ASSUME NEW i \in 1..Len(sent), sent[i].kind \in Replies PROVE sent[i].kind = "recent"
  <2>1. count(i) = 1 /\ k.served = 2
    BY <1>3, <1>4, <1>6
  <2>2. /\ CountOf(Answered, k.asked, 2) = 1 /\ k.asked[2].kind = "get_recent"
        /\ 2 \in 1..k.served /\ n = 2
    BY <1>2, <1>3, <2>1, OneReply
  <2>3. sent[i].kind \notin {"hello", "alert"}
    BY <1>6 DEF Replies
  <2>4. k.asked[2].kind \in Answered
    BY <2>2, ReplyKinds
  <2>5. sent[i].kind = ReplyTo[k.asked[2].kind]
    BY <1>1, <2>1, <2>2, <2>3, <2>4 DEF InOrderAsked
  <2>6. QED  BY <2>2, <2>5, ReplyKinds
<1>7. ASSUME NEW i \in 1..Len(sent), NEW j \in 1..Len(sent), i < j,
             sent[i].kind = "recent", sent[j].kind = "recent"
      PROVE  FALSE
  <2>1. sent[i].kind \in Replies /\ sent[j].kind \in Replies
    BY <1>7 DEF Replies
  <2>2. i \in Nat /\ j - 1 \in Nat /\ i <= j - 1
    BY <1>1, <1>7
  <2>3. count(i) <= count(j - 1)
    BY <2>2, CountMonotone
  <2> HIDE DEF count
  <2>4. /\ count(i - 1) \in Nat /\ count(i) = count(i - 1) + 1
        /\ count(j - 1) \in Nat /\ count(j) = count(j - 1) + 1 /\ count(j) <= count(Len(sent))
    BY <1>4, <2>1
  <2>5. count(Len(sent)) <= 1
    BY <1>3
  <2>6. QED  BY <1>3, <2>3, <2>4, <2>5
<1>8. \A i, j \in 1..Len(sent) : sent[i].kind = "recent" /\ sent[j].kind = "recent" => i = j
  <2> SUFFICES ASSUME NEW i \in 1..Len(sent), NEW j \in 1..Len(sent),
                      sent[i].kind = "recent", sent[j].kind = "recent"
               PROVE  i = j
    OBVIOUS
  <2>1. ~(i < j) /\ ~(j < i)
    BY <1>7
  <2>2. QED  BY <1>1, <2>1
<1>9. QED  BY <1>5, <1>6, <1>8

\* The snapshot that the interface gets repeats no alert, and it is empty only if
\* nothing was broadcast before it.
RecentOK(k) ==
  \A i \in 1..Len(k.sent) : k.sent[i].kind = "recent" =>
    LET r == k.sent[i].alerts
    IN  /\ \A a, b \in 1..Len(r) : r[a] = r[b] => a = b
        /\ r = <<>> => k.base = 0 /\ \A j \in 1..i : k.sent[j].kind # "alert"

RecentInv == link = "open" => RecentOK(conn[TheGui])

\* What the daemon answers the lines of the interface.
LEMMA GuiAnswers ==
  ASSUME TypeOK, FeedNumbered, StateMatchesRecorded, NEW req \in {Asks[1], Asks[2]}
  PROVE  \/ Answer(req) = <<>>
         \/ \E m \in Message :
              /\ Answer(req) = <<m>> /\ m.kind = "recent" /\ m.alerts \in Seq(Alert)
              /\ \A a, b \in 1..Len(m.alerts) : m.alerts[a] = m.alerts[b] => a = b
              /\ m.alerts = <<>> => Len(feed) = 0
<1>1. CASE req = Asks[1]
  BY <1>1, AsksAre DEF Answer
<1>2. CASE req = Asks[2]
  <2> DEFINE limit == Capped(GuiLimit)
             s == LastN(state.recent, limit)
             m == [kind |-> "recent", alerts |-> s]
  <2>1. limit \in Nat /\ limit # 0
    BY GuiAssumption, IpcAssumption DEF Capped
  <2>2. Answer(req) = <<m>>
    BY <1>2, AsksAre DEF Answer, RecentAlerts
  <2> HIDE DEF limit
  <2>3. /\ s \in Seq(Alert) /\ Len(s) \in Nat
        /\ \A j \in 1..Len(s) : s[j].id = Len(Recorded) - Len(s) + j
        /\ s = <<>> => limit = 0 \/ Len(Recorded) = 0
    BY <2>1, RecentRanks
  <2>4. Len(feed) <= Len(Recorded) /\ Len(feed) \in Nat /\ Len(Recorded) \in Nat
    BY RecordedRanks
  <2> HIDE DEF s
  <2>5. \A a, b \in 1..Len(s) : s[a] = s[b] => a = b
    <3> SUFFICES ASSUME NEW a \in 1..Len(s), NEW b \in 1..Len(s), s[a] = s[b]
                 PROVE  a = b
      OBVIOUS
    <3>1. Len(Recorded) - Len(s) + a = Len(Recorded) - Len(s) + b
      BY <2>3
    <3>2. QED  BY <2>3, <2>4, <3>1
  <2>6. m \in Message /\ m.kind = "recent" /\ m.alerts = s
    BY <2>3, MessageKinds
  <2> HIDE DEF m
  <2>7. QED  BY <2>1, <2>2, <2>3, <2>4, <2>5, <2>6
<1>3. QED  BY <1>1, <1>2

\* Every step keeps the snapshot so.
LEMMA RecentStep ==
  ASSUME TypeOK, FeedNumbered, StateMatchesRecorded, IpcTypeOK, IpcTypeOK', StreamAccounted,
         SnapshotInv, ThreadInv, AskInv, RecentInv, [Next]_allVars
  PROVE  RecentInv'
<1> DEFINE k == conn[TheGui]
           k2 == conn'[TheGui]
<1> SUFFICES ASSUME k2.link = "open" PROVE RecentOK(k2)
  BY DEF RecentInv, link
<1>1. /\ TheGui \in Clients /\ k \in Connection /\ k2 \in Connection
      /\ k.sent \in Seq(Message) /\ Len(k.sent) \in Nat
      /\ k.link \in {"none", "pending"} => k.sent = <<>>
  BY GuiAssumption DEF IpcTypeOK, Connection
<1>2. Moves(k, k2) /\ Talks(k, k2)
  BY <1>1, ServerStep, ConnSteps, TalkSteps
<1>3. k.link = "open" => RecentOK(k) /\ StreamOK(k, feed) /\ k.base <= Len(feed)
  BY <1>1, StreamParts DEF RecentInv, link, SnapshotInv
<1>4. k.link = "open" => k2.base = k.base
  BY <1>2, NoConnType DEF Moves, Idles, IsHungUp, IsAccepted, IsAnswered, IsRelayed, IsLagged
<1>5. k2 # NoConn
  BY NoConnType
<1> HIDE DEF k, k2
<1>6. ASSUME k2.sent = k.sent, k.link = "open" PROVE RecentOK(k2)
  BY <1>3, <1>4, <1>6 DEF RecentOK
<1>7. ASSUME k.link = "open", NEW m \in Message, k2.sent = k.sent \o <<m>>,
             m.kind = "recent" =>
               /\ \A a, b \in 1..Len(m.alerts) : m.alerts[a] = m.alerts[b] => a = b
               /\ m.alerts = <<>> => Len(feed) = 0
      PROVE  RecentOK(k2)
  <2> DEFINE n == Len(k.sent) + 1
  <2>1. /\ Len(k2.sent) = n /\ k2.sent[n] = m
        /\ \A i \in 1..Len(k.sent) : k2.sent[i] = k.sent[i]
    BY <1>1, <1>7, OneMore
  <2>2. ASSUME NEW i \in 1..Len(k.sent), k2.sent[i].kind = "recent"
        PROVE  LET r == k2.sent[i].alerts
               IN  /\ \A a, b \in 1..Len(r) : r[a] = r[b] => a = b
                   /\ r = <<>> => k2.base = 0 /\ \A j \in 1..i : k2.sent[j].kind # "alert"
    <3>1. k2.sent[i] = k.sent[i] /\ \A j \in 1..i : j \in 1..Len(k.sent) /\ k2.sent[j] = k.sent[j]
      BY <1>1, <2>1
    <3>2. QED  BY <1>3, <1>4, <1>7, <2>2, <3>1 DEF RecentOK
  <2>3. ASSUME m.kind = "recent", m.alerts = <<>>
        PROVE  k2.base = 0 /\ \A j \in 1..n : k2.sent[j].kind # "alert"
    <3>1. Len(feed) = 0
      BY <1>7, <2>3
    <3>2. k.base \in Nat /\ k.cursor \in Nat
      BY <1>1 DEF Connection
    <3>3. k2.base = 0
      BY <1>3, <1>4, <1>7, <3>1, <3>2
    <3>4. ASSUME NEW j \in 1..Len(k.sent) PROVE k.sent[j].kind # "alert"
      <4> SUFFICES ASSUME j \in Live(k) PROVE FALSE
        BY DEF Live
      <4>1. k.cursor <= 0 /\ k.sent[j].alert.id \in k.base + 1 .. k.cursor
        BY <1>3, <1>7, <3>1 DEF StreamOK
      <4>2. QED  BY <3>2, <4>1
    <3>5. \A j \in 1..n : j \in 1..Len(k.sent) \/ j = n
      BY <1>1
    <3>6. QED  BY <2>1, <2>3, <3>3, <3>4, <3>5
  <2>4. \A i \in 1..Len(k2.sent) : i \in 1..Len(k.sent) \/ i = n
    BY <1>1, <2>1
  <2> HIDE DEF n
  <2>5. QED  BY <1>7, <2>1, <2>2, <2>3, <2>4 DEF RecentOK
<1>8. CASE Quiet(k, k2)
  <2>1. k.link \in {"open", "none", "pending"} /\ k2.sent = k.sent
    BY <1>8 DEF Quiet
  <2>2. CASE k.link # "open"
    BY <1>1, <2>1, <2>2 DEF RecentOK
  <2>3. QED  BY <1>6, <2>1, <2>2
<1>9. CASE Greets(k, k2)
  <2>1. k.sent = <<>> /\ k2.sent = k.sent \o <<[kind |-> "hello"]>>
    BY <1>1, <1>9 DEF Greets
  <2>2. Len(k2.sent) = 1 /\ k2.sent[1].kind = "hello"
    BY <2>1
  <2>3. QED  BY <2>2 DEF RecentOK
<1>10. CASE Reads(k, k2)
  <2> DEFINE req == k.asked[k.served + 1]
  <2>1. /\ k.link = "open" /\ k2.sent = k.sent \o Answer(req)
        /\ k.served \in Nat /\ k.served < Len(k.asked)
    BY <1>1, <1>10 DEF Reads, Connection
  <2>2. PICK n \in 0..2 : HasAsked(k.asked, n)
    BY <2>1, AskedIs DEF Bound, link, k
  <2>3. req \in {Asks[1], Asks[2]}
    <3>1. k.served + 1 \in 1..n /\ (k.served + 1 = 1 \/ k.served + 1 = 2)
      BY <2>1, <2>2 DEF HasAsked
    <3>2. QED  BY <2>2, <3>1 DEF HasAsked
  <2> HIDE DEF req
  <2>4. CASE Answer(req) = <<>>
    <3>1. k2.sent = k.sent
      BY <1>1, <2>1, <2>4
    <3>2. QED  BY <1>6, <2>1, <3>1
  <2>5. CASE Answer(req) # <<>>
    BY <1>7, <2>1, <2>3, <2>5, GuiAnswers
  <2>6. QED  BY <2>4, <2>5
<1>11. CASE Tells(k, k2)
  <2>1. PICK a \in Alert : k2.sent = k.sent \o <<[kind |-> "alert", alert |-> a]>>
    BY <1>11 DEF Tells
  <2> DEFINE m == [kind |-> "alert", alert |-> a]
  <2>2. m \in Message /\ m.kind # "recent" /\ k2.sent = k.sent \o <<m>> /\ k.link = "open"
    BY <1>11, <2>1, MessageKinds DEF Tells
  <2>3. QED  BY <1>7, <2>2
<1>12. CASE CutsOff(k, k2)
  BY <1>12 DEF CutsOff, k2
<1>13. QED  BY <1>2, <1>5, <1>8, <1>9, <1>10, <1>11, <1>12 DEF Talks
-----------------------------------------------------------------------------
(* What the list has of this session *)

\* The event that a message to the interface becomes.
EventOf(m) == IF m.kind = "hello" THEN Connected ELSE m

\* The messages from d + 1 on, up to those taken, wait as events; o older events may
\* wait before them, if none of the session has been drained.
Queue(ev, sent, taken, d, o) ==
  /\ d \in 0..taken /\ o \in Nat /\ (d = 0 \/ o = 0) /\ Len(ev) = o + (taken - d)
  /\ \A u \in d + 1 .. taken : ev[o + (u - d)] = EventOf(sent[u])

Lists(s, x) == \E p \in 1..Len(s) : s[p] = x

\* What the first d messages have told since the snapshot among them is listed.
Complete(s, sent, d) ==
  \A i \in 1..d : sent[i].kind = "recent" =>
    Len(s) >= MaxAlerts \/ \A j \in i..d : \A x \in Of(sent[j]) : Lists(s, x)

\* Among the first d messages the alert comes in a snapshot and then live.
Again(sent, d, x) ==
  \E i, j \in 1..d :
    /\ i < j /\ sent[i].kind = "recent" /\ sent[j].kind = "alert"
    /\ x \in Of(sent[i]) /\ x \in Of(sent[j])

\* The alert is listed if the first d messages told of it, and at most twice.
Counted(s, sent, d, x) ==
  /\ Lists(s, x) => \E i \in 1..d : x \in Of(sent[i])
  /\ \A p, q \in 1..Len(s) : p < q /\ s[p] = x /\ s[q] = x =>
       Again(sent, d, x) /\ \A r \in 1..Len(s) : q < r => s[r] # x

(***************************************************************************)
(* Why the list has what the session told: d of its messages are drained,  *)
(* the others wait in the order they came; of the alerts that the daemon   *)
(* has recorded the list holds none but by these messages.                 *)
(***************************************************************************)
Seen(s, ev, sent, taken, d, o) ==
  /\ Queue(ev, sent, taken, d, o)
  /\ Complete(s, sent, d)
  /\ \A x : InRecorded(x) =>
       Counted(s, sent, d, x) /\ \A p \in 1..o : x \notin Of(ev[p])

\* Without a session there is nothing of this process of the daemon to be seen.
SeenInv ==
  LET k == conn[TheGui]
  IN  /\ k.link = "open" =>
           \E d, o \in Nat : Seen(app.alerts, events, k.sent, k.taken, d, o)
      /\ k.link # "open" => \A x : InRecorded(x) =>
           /\ ~Lists(app.alerts, x)
           /\ \A p \in 1..Len(events) : x \notin Of(events[p])
           /\ k.link = "hup" => \A u \in k.taken + 1 .. Len(k.sent) : x \notin Of(k.sent[u])

\* A list in which the alert has places of another list, in their order.
Places(s, s2, x, f) ==
  /\ \A p \in 1..Len(s2) : s2[p] = x => f[p] \in 1..Len(s) /\ s[f[p]] = x
  /\ \A p, q \in 1..Len(s2) : p < q /\ s2[p] = x /\ s2[q] = x => f[p] < f[q]

\* Such a list counts the alert as the other does.
LEMMA CountedKept ==
  ASSUME NEW s, NEW s2, NEW sent, NEW d \in Nat, NEW d2 \in Nat, d <= d2, NEW x, NEW f,
         Places(s, s2, x, f), Counted(s, sent, d, x)
  PROVE  Counted(s2, sent, d2, x)
<1>1. 1..d \subseteq 1..d2
  OBVIOUS
<1>2. Again(sent, d, x) => Again(sent, d2, x)
  BY <1>1 DEF Again
<1>3. Lists(s2, x) => Lists(s, x)
  BY DEF Lists, Places
<1>4. ASSUME NEW p \in 1..Len(s2), NEW q \in 1..Len(s2), p < q, s2[p] = x, s2[q] = x
      PROVE  Again(sent, d, x) /\ \A r \in 1..Len(s2) : q < r => s2[r] # x
  <2>1. f[p] \in 1..Len(s) /\ f[q] \in 1..Len(s) /\ f[p] < f[q] /\ s[f[p]] = x /\ s[f[q]] = x
    BY <1>4 DEF Places
  <2>2. Again(sent, d, x) /\ \A r \in 1..Len(s) : f[q] < r => s[r] # x
    BY <2>1 DEF Counted
  <2>3. QED  BY <1>4, <2>2 DEF Places
<1>5. QED  BY <1>1, <1>2, <1>3, <1>4 DEF Counted

\* A list in which the alert comes behind those of another list, from the c + 1-st on.
Pushed(s, s2, a, c) ==
  /\ Len(s2) # 0 /\ Len(s2) + c = Len(s) + 1 /\ (c > 0 => Len(s2) >= MaxAlerts)
  /\ \A p \in 1..Len(s2) : \/ p + c \in 1..Len(s) /\ s2[p] = s[p + c]
                           \/ p = Len(s2) /\ s2[p] = a
  /\ s2[Len(s2)] = a

\* drain_events pushes a live alert and cuts the list.
LEMMA PushPlaces ==
  ASSUME NEW s \in Seq(Alert), NEW a \in Alert
  PROVE  LET s2 == LastN(Append(s, a), MaxAlerts)
         IN  /\ Len(s) \in Nat /\ Len(s2) \in Nat
             /\ \E c \in Nat : Pushed(s, s2, a, c)
<1> DEFINE v == Append(s, a)
           s2 == LastN(v, MaxAlerts)
<1>1. /\ v \in Seq(Alert) /\ Len(s) \in Nat /\ Len(v) = Len(s) + 1
      /\ MaxAlerts \in Nat \ {0}
      /\ (\A j \in 1..Len(s) : v[j] = s[j]) /\ v[Len(s) + 1] = a
  BY GuiAssumption
<1> HIDE DEF v
<1> SUFFICES Len(s2) \in Nat /\ \E c \in Nat : Pushed(s, s2, a, c)
  BY <1>1 DEF v
<1>2. CASE Len(v) <= MaxAlerts
  <2>1. s2 = v
    BY <1>2 DEF LastN
  <2> HIDE DEF s2
  <2>2. \A p \in 1..Len(s2) : p + 0 = p
    BY <1>1, <2>1
  <2>3. Pushed(s, s2, a, 0)
    BY <1>1, <2>1, <2>2 DEF Pushed
  <2>4. QED  BY <1>1, <2>1, <2>3
<1>3. CASE Len(v) > MaxAlerts
  <2> DEFINE c == Len(v) - MaxAlerts
             n == MaxAlerts
  <2>1. Len(s2) = n
    BY <1>1, <1>3, LastNType
  <2>2. ASSUME NEW p \in 1..n PROVE s2[p] = v[p + c]
    <3>1. n \in Nat /\ n <= Len(v) /\ Len(v) - n + p = p + c
      BY <1>1, <1>3
    <3>2. LastN(v, n)[p] = v[Len(v) - n + p]
      BY <1>1, <3>1, LastNElement
    <3>3. QED  BY <3>1, <3>2
  <2> HIDE DEF s2
  <2>3. c \in Nat /\ Len(s2) + c = Len(s) + 1 /\ n \in Nat \ {0} /\ MaxAlerts = n
    BY <1>1, <1>3, <2>1
  <2> HIDE DEF c, n
  <2>4. ASSUME NEW p \in 1..Len(s2)
        PROVE  \/ p + c \in 1..Len(s) /\ s2[p] = s[p + c]
               \/ p = Len(s2) /\ s2[p] = a
    <3>1. p + c \in 1..Len(s) \/ (p + c = Len(s) + 1 /\ p = Len(s2))
      BY <1>1, <2>1, <2>3
    <3>2. QED  BY <1>1, <2>1, <2>2, <3>1
  <2>5. s2[Len(s2)] = a
    <3>1. Len(s2) \in 1..n
      BY <2>1, <2>3
    <3>2. QED  BY <1>1, <2>2, <2>3, <3>1
  <2>6. Pushed(s, s2, a, c)
    BY <2>1, <2>3, <2>4, <2>5 DEF Pushed
  <2>7. QED  BY <2>1, <2>3, <2>6
<1>4. QED  BY <1>1, <1>2, <1>3

\* What the messages of each kind carry.
LEMMA OfKinds ==
  ASSUME NEW m
  PROVE  /\ m.kind = "alert" => Of(m) = {m.alert}
         /\ m.kind = "recent" => Of(m) = {m.alerts[i] : i \in 1..Len(m.alerts)}
         /\ m.kind \notin {"alert", "recent"} => Of(m) = {}
BY DEF Of

\* The list after one more message that has told of nothing.
LEMMA HelloListed ==
  ASSUME NEW s, NEW sent, NEW d \in Nat, Of(sent[d+1]) = {}, sent[d+1].kind # "recent"
  PROVE  /\ Complete(s, sent, d) => Complete(s, sent, d + 1)
         /\ \A x : Counted(s, sent, d, x) => Counted(s, sent, d + 1, x)
<1>1. ASSUME Complete(s, sent, d), NEW i \in 1..d+1, sent[i].kind = "recent"
      PROVE  Len(s) >= MaxAlerts \/ \A j \in i..d+1 : \A x \in Of(sent[j]) : Lists(s, x)
  <2>1. i \in 1..d /\ \A j \in i..d+1 : j \in i..d \/ j = d + 1
    BY <1>1
  <2>2. Len(s) >= MaxAlerts \/ \A j \in i..d : \A x \in Of(sent[j]) : Lists(s, x)
    BY <1>1, <2>1 DEF Complete
  <2>3. QED  BY <2>1, <2>2
<1>2. ASSUME NEW x, Counted(s, sent, d, x) PROVE Counted(s, sent, d + 1, x)
  <2> DEFINE f == [p \in 1..Len(s) |-> p]
  <2>1. Places(s, s, x, f)
    BY DEF Places
  <2>2. d + 1 \in Nat /\ d <= d + 1
    OBVIOUS
  <2>3. QED  BY <1>2, <2>1, <2>2, CountedKept
<1>3. QED  BY <1>1, <1>2 DEF Complete

\* The list after one more live alert, which is not one of those before.
LEMMA AlertListed ==
  ASSUME NEW s \in Seq(Alert), NEW sent \in Seq(Message), NEW d \in Nat, d < Len(sent),
         sent[d+1].kind = "alert",
         \A i \in 1..d : sent[i].kind = "alert" => sent[i].alert # sent[d+1].alert,
         \A i \in 1..d : sent[i].kind \in {"hello", "alert", "recent"},
         NEW s2, s2 = LastN(Append(s, sent[d+1].alert), MaxAlerts)
  PROVE  /\ Complete(s, sent, d) => Complete(s2, sent, d + 1)
         /\ \A x : Counted(s, sent, d, x) => Counted(s2, sent, d + 1, x)
<1> DEFINE a == sent[d+1].alert
<1>1. d + 1 \in 1..Len(sent) /\ sent[d+1] \in Message /\ a \in Alert
  <2>1. d + 1 \in 1..Len(sent) /\ sent[d+1] \in Message
    OBVIOUS
  <2>2. QED  BY <2>1, MessageParts
<1>2. Of(sent[d+1]) = {a}
  BY OfKinds
<1>3. PICK c \in Nat : Pushed(s, s2, a, c)
  BY <1>1, PushPlaces
<1>4. Len(s) \in Nat /\ Len(s2) \in Nat
  BY <1>1, PushPlaces
<1>5. s2[Len(s2)] = a /\ Len(s2) \in 1..Len(s2) /\ Len(s2) + c = Len(s) + 1
  BY <1>3, <1>4 DEF Pushed
<1> HIDE DEF a
<1>6. ASSUME Complete(s, sent, d), NEW i \in 1..d+1, sent[i].kind = "recent"
      PROVE  Len(s2) >= MaxAlerts \/ \A j \in i..d+1 : \A x \in Of(sent[j]) : Lists(s2, x)
  <2>1. i \in 1..d /\ \A j \in i..d+1 : j \in i..d \/ j = d + 1
    BY <1>6
  <2>2. CASE c > 0
    BY <1>3, <2>2 DEF Pushed
  <2>3. CASE c = 0
    <3>1. ASSUME NEW p \in 1..Len(s) PROVE p \in 1..Len(s2) /\ s2[p] = s[p]
      <4>1. p \in 1..Len(s2) /\ p # Len(s2) /\ p + c = p
        BY <1>4, <1>5, <2>3
      <4>2. QED  BY <1>3, <4>1 DEF Pushed
    <3>2. \A x : Lists(s, x) => Lists(s2, x)
      BY <3>1 DEF Lists
    <3>3. Lists(s2, a)
      BY <1>5 DEF Lists
    <3>4. Len(s) >= MaxAlerts => Len(s2) >= MaxAlerts
      BY <1>4, <1>5, <2>3, GuiAssumption
    <3>5. Len(s) >= MaxAlerts \/ \A j \in i..d : \A x \in Of(sent[j]) : Lists(s, x)
      BY <1>6, <2>1 DEF Complete
    <3>6. QED  BY <1>2, <2>1, <3>2, <3>3, <3>4, <3>5
  <2>4. QED  BY <2>2, <2>3
<1>7. ASSUME NEW x, x # a, Counted(s, sent, d, x) PROVE Counted(s2, sent, d + 1, x)
  <2> DEFINE f == [p \in 1..Len(s2) |-> p + c]
  <2>1. \A p \in 1..Len(s2) : s2[p] = x => p + c \in 1..Len(s) /\ s[p + c] = x
    BY <1>3, <1>7 DEF Pushed
  <2>2. \A p, q \in 1..Len(s2) : p < q => p + c < q + c
    BY <1>4
  <2>3. Places(s, s2, x, f)
    BY <2>1, <2>2 DEF Places
  <2>4. d + 1 \in Nat /\ d <= d + 1
    OBVIOUS
  <2>5. QED  BY <1>7, <2>3, <2>4, CountedKept
<1>8. ASSUME Counted(s, sent, d, a) PROVE Counted(s2, sent, d + 1, a)
  <2>1. Lists(s2, a) => \E i \in 1..d+1 : a \in Of(sent[i])
    BY <1>2
  <2>2. ~Again(sent, d, a)
    <3> SUFFICES ASSUME NEW j \in 1..d, sent[j].kind = "alert", a \in Of(sent[j]) PROVE FALSE
      BY DEF Again
    <3>1. QED  BY OfKinds DEF a
  <2>3. ASSUME NEW p \in 1..Len(s), NEW q \in 1..Len(s), p < q, s[p] = a, s[q] = a PROVE FALSE
    BY <1>8, <2>2, <2>3 DEF Counted
  <2>4. ASSUME NEW p \in 1..Len(s2), NEW q \in 1..Len(s2), p < q, s2[p] = a, s2[q] = a
        PROVE  Again(sent, d + 1, a) /\ \A r \in 1..Len(s2) : q < r => s2[r] # a
    <3>1. p + c \in 1..Len(s) /\ s[p + c] = a
      <4>1. p # Len(s2)
        BY <1>4, <2>4
      <4>2. QED  BY <1>3, <2>4, <4>1 DEF Pushed
    <3>2. q = Len(s2)
      <4>1. p + c < q + c
        BY <1>4, <2>4
      <4>2. q # Len(s2) => q + c \in 1..Len(s) /\ s[q + c] = a
        BY <1>3, <2>4 DEF Pushed
      <4>3. QED  BY <2>3, <3>1, <4>1, <4>2
    <3>3. PICK i \in 1..d : a \in Of(sent[i])
      BY <1>8, <3>1 DEF Counted, Lists
    <3>4. sent[i].kind = "recent"
      <4>1. sent[i].kind # "alert"
        BY <3>3, OfKinds DEF a
      <4>2. sent[i].kind # "hello"
        BY <3>3, OfKinds
      <4>3. QED  BY <3>3, <4>1, <4>2
    <3>5. i \in 1..d+1 /\ d + 1 \in 1..d+1 /\ i < d + 1
      OBVIOUS
    <3>6. Again(sent, d + 1, a)
      BY <1>2, <3>3, <3>4, <3>5 DEF Again
    <3>7. QED  BY <1>4, <3>2, <3>6
  <2>5. QED  BY <2>1, <2>4 DEF Counted
<1>9. QED  BY <1>6, <1>7, <1>8 DEF Complete

\* Where the members of a merged list come from: the snapshot's, all of them, and those
\* of the list that are not in it.
Merged(s, r, s2, p) ==
  /\ \A k \in 1..Len(s2) :
       /\ p[k] \in Nat
       /\ \/ p[k] \in 1..Len(s) /\ s2[k] = s[p[k]] /\ \A i \in 1..Len(r) : r[i] # s2[k]
          \/ p[k] - Len(s) \in 1..Len(r) /\ s2[k] = r[p[k] - Len(s)]
  /\ \A k, l \in 1..Len(s2) : k < l /\ s2[k] = s2[l] => p[k] < p[l]
  /\ \A i \in 1..Len(r) : \E k \in 1..Len(s2) : s2[k] = r[i]

\* Merge makes such a list.
LEMMA MergePlaces ==
  ASSUME NEW s \in Seq(Alert), NEW r \in Seq(Alert)
  PROVE  \E p : Merged(s, r, Merge(s, r), p)
<1> DEFINE s2 == Merge(s, r)
           u == s \o r
           places == Retained(s, r)
<1>1. /\ u \in Seq(Alert) /\ Len(s) \in Nat /\ Len(r) \in Nat /\ Len(u) = Len(s) + Len(r)
      /\ \A i \in 1..Len(s) : u[i] = s[i]
      /\ \A i \in Len(s) + 1 .. Len(u) : u[i] = r[i - Len(s)] /\ i - Len(s) \in 1..Len(r)
  BY RetainedPlaces
<1>2. \A i \in 1..Len(u) : i \in places <=>
        (i <= Len(s) => \A j \in 1..Len(r) : s[i].id # r[j].id)
  BY DEF Retained
<1>3. places \subseteq 1..Len(u)
  BY DEF Retained
<1>4. PICK p : /\ Arranges(p, u, places, Len(s2))
               /\ \A k \in 1..Len(s2) : s2[k] = u[p[k]]
  BY MergeArranges
<1>5. /\ \A k \in 1..Len(s2) : p[k] \in places
      /\ \A i \in places : \E k \in 1..Len(s2) : p[k] = i
      /\ \A k, l \in 1..Len(s2) : k < l => p[k] # p[l] /\ Precedes(u, p[k], p[l])
  BY <1>4 DEF Arranges
<1>6. s2 \in Seq(Alert) /\ Len(s2) \in Nat
  BY MergeArranges
<1> HIDE DEF s2, u, places
<1>7. ASSUME NEW k \in 1..Len(s2)
      PROVE  /\ p[k] \in Nat
             /\ \/ p[k] \in 1..Len(s) /\ s2[k] = s[p[k]] /\ \A i \in 1..Len(r) : r[i] # s2[k]
                \/ p[k] - Len(s) \in 1..Len(r) /\ s2[k] = r[p[k] - Len(s)]
  <2>1. p[k] \in places /\ p[k] \in 1..Len(u) /\ s2[k] = u[p[k]]
    BY <1>3, <1>4, <1>5
  <2>2. CASE p[k] <= Len(s)
    <3>1. p[k] \in 1..Len(s) /\ s2[k] = s[p[k]]
      BY <1>1, <2>1, <2>2
    <3>2. \A i \in 1..Len(r) : s[p[k]].id # r[i].id
      BY <1>2, <2>1, <2>2
    <3>3. QED  BY <3>1, <3>2
  <2>3. CASE ~(p[k] <= Len(s))
    <3>1. p[k] \in Len(s) + 1 .. Len(u)
      BY <1>1, <2>1, <2>3
    <3>2. QED  BY <1>1, <2>1, <3>1
  <2>4. QED  BY <2>2, <2>3
<1>8. ASSUME NEW k \in 1..Len(s2), NEW l \in 1..Len(s2), k < l, s2[k] = s2[l]
      PROVE  p[k] < p[l]
  <2>1. Precedes(u, p[k], p[l]) /\ u[p[k]] = u[p[l]]
    BY <1>4, <1>5, <1>8
  <2>2. u[p[k]].ts \in Nat
    <3>1. p[k] \in 1..Len(u)
      BY <1>3, <1>5
    <3>2. u[p[k]] \in Alert
      BY <1>1, <3>1
    <3>3. QED  BY <3>2 DEF Alert
  <2>3. QED  BY <2>1, <2>2 DEF Precedes
<1>9. ASSUME NEW i \in 1..Len(r) PROVE \E k \in 1..Len(s2) : s2[k] = r[i]
  <2> DEFINE j == Len(s) + i
  <2>1. j \in Len(s) + 1 .. Len(u) /\ j \in 1..Len(u) /\ ~(j <= Len(s)) /\ j - Len(s) = i
    BY <1>1
  <2>2. j \in places /\ u[j] = r[i]
    BY <1>1, <1>2, <2>1
  <2>3. QED  BY <1>4, <1>5, <2>2
<1>10. Merged(s, r, s2, p)
  BY <1>7, <1>8, <1>9 DEF Merged
<1>11. QED  BY <1>10 DEF s2

\* The list after the snapshot of the session.
LEMMA RecentListed ==
  ASSUME NEW s \in Seq(Alert), NEW sent \in Seq(Message), NEW d \in Nat, d < Len(sent),
         sent[d+1].kind = "recent",
         \A i \in 1..d : sent[i].kind # "recent",
         \A a, b \in 1..Len(sent[d+1].alerts) : sent[d+1].alerts[a] = sent[d+1].alerts[b] => a = b,
         NEW s2, s2 = Merge(s, sent[d+1].alerts)
  PROVE  /\ Complete(s2, sent, d + 1)
         /\ \A x : Counted(s, sent, d, x) => Counted(s2, sent, d + 1, x)
<1> DEFINE r == sent[d+1].alerts
<1>1. r \in Seq(Alert)
  <2>1. d + 1 \in 1..Len(sent) /\ sent[d+1] \in Message
    OBVIOUS
  <2>2. QED  BY <2>1, MessageParts
<1>2. Of(sent[d+1]) = {r[i] : i \in 1..Len(r)}
  BY OfKinds
<1>3. \A a, b \in 1..Len(r) : r[a] = r[b] => a = b
  OBVIOUS
<1>4. s2 \in Seq(Alert) /\ Len(s2) \in Nat /\ Len(s) \in Nat
  BY <1>1, MergeArranges
<1> HIDE DEF r
<1>5. PICK p : Merged(s, r, s2, p)
  BY <1>1, MergePlaces DEF r
<1>6. Complete(s2, sent, d + 1)
  <2> SUFFICES ASSUME NEW i \in 1..d+1, sent[i].kind = "recent", NEW j \in i..d+1,
                      NEW x \in Of(sent[j])
               PROVE  Lists(s2, x)
    BY DEF Complete
  <2>1. i = d + 1 /\ j = d + 1
    <3>1. i \in 1..d \/ i = d + 1
      OBVIOUS
    <3>2. QED  BY <3>1
  <2>2. QED  BY <1>2, <1>5, <2>1 DEF Lists, Merged
<1>7. ASSUME NEW x, Counted(s, sent, d, x), \A i \in 1..Len(r) : r[i] # x
      PROVE  Counted(s2, sent, d + 1, x)
  <2>1. ASSUME NEW k \in 1..Len(s2), s2[k] = x PROVE p[k] \in 1..Len(s) /\ s[p[k]] = x
    <3>1. \/ p[k] \in 1..Len(s) /\ s2[k] = s[p[k]]
          \/ p[k] - Len(s) \in 1..Len(r) /\ s2[k] = r[p[k] - Len(s)]
      BY <1>5 DEF Merged
    <3>2. QED  BY <1>7, <2>1, <3>1
  <2>2. Places(s, s2, x, p)
    BY <1>5, <2>1 DEF Places, Merged
  <2>3. d + 1 \in Nat /\ d <= d + 1
    OBVIOUS
  <2>4. QED  BY <1>7, <2>2, <2>3, CountedKept
<1>8. ASSUME NEW n \in 1..Len(r) PROVE Counted(s2, sent, d + 1, r[n])
  <2>1. r[n] \in Of(sent[d+1]) /\ d + 1 \in 1..d+1
    BY <1>2
  <2>2. ASSUME NEW k \in 1..Len(s2), NEW l \in 1..Len(s2), k < l, s2[k] = r[n], s2[l] = r[n]
        PROVE  FALSE
    <3>1. /\ p[k] - Len(s) \in 1..Len(r) /\ r[p[k] - Len(s)] = r[n]
          /\ p[l] - Len(s) \in 1..Len(r) /\ r[p[l] - Len(s)] = r[n]
      BY <1>5, <2>2 DEF Merged
    <3>2. p[k] - Len(s) = n /\ p[l] - Len(s) = n
      BY <1>3, <3>1
    <3>3. p[k] < p[l]
      BY <1>5, <2>2 DEF Merged
    <3>4. ~(p[k] < p[l])
      <4>1. p[k] \in Nat /\ p[l] \in Nat
        BY <1>5 DEF Merged
      <4>2. QED  BY <1>4, <3>2, <4>1
    <3>5. QED  BY <3>3, <3>4
  <2>3. QED  BY <2>1, <2>2 DEF Counted
<1>9. QED  BY <1>6, <1>7, <1>8
-----------------------------------------------------------------------------
(* What a step does to what is seen *)

\* What the list, the events that wait and the unread messages hold is part of the order
\* in which the interface is told.
LEMMA HeldInStory ==
  ASSUME IpcTypeOK, TalkInv, GuiTypeOK, NEW x,
         \/ Lists(app.alerts, x)
         \/ \E p \in 1..Len(events) : x \in Of(events[p])
         \/ \E u \in conn[TheGui].taken + 1 .. Len(conn[TheGui].sent) :
              x \in Of(conn[TheGui].sent[u])
  PROVE  InStory(x, NowStory)
<1> DEFINE k == conn[TheGui]
           s == app.alerts
           ev == events
           sent == k.sent
           taken == k.taken
           t == Story(s, ev, sent, taken)
           n == Len(s) + Len(ev) + (Len(sent) - taken)
<1>1. s \in Seq(Alert) /\ ev \in Seq(Event) /\ sent \in Seq(Message) /\ taken \in Nat
      /\ taken <= Len(sent)
  BY GuiAssumption DEF IpcTypeOK, Connection, TalkInv, TalkOK, GuiTypeOK, App
<1>2. t = NowStory
  BY DEF NowStory
<1>3. \/ Lists(s, x)
      \/ \E p \in 1..Len(ev) : x \in Of(ev[p])
      \/ \E u \in taken + 1 .. Len(sent) : x \in Of(sent[u])
  OBVIOUS
<1> HIDE DEF s, ev, sent, taken, k
<1>4. /\ Len(s) \in Nat /\ Len(ev) \in Nat /\ Len(sent) \in Nat /\ n \in Nat
      /\ DOMAIN t = 1..n /\ StoryParts(t, s, ev, sent, taken)
  BY ONLY <1>1, StoryPlaces
<1> HIDE DEF t
<1>5. CASE Lists(s, x)
  <2>1. PICK p \in 1..Len(s) : s[p] = x
    BY <1>5 DEF Lists
  <2>2. p \in 1..n /\ p <= Len(s)
    BY <1>1, <1>4
  <2>3. t[p] = {s[p]}
    BY <1>4, <2>2 DEF StoryParts
  <2>4. QED  BY <1>2, <1>4, <2>1, <2>2, <2>3 DEF InStory
<1>6. ASSUME NEW p \in 1..Len(ev), x \in Of(ev[p]) PROVE InStory(x, NowStory)
  <2> DEFINE q == Len(s) + p
  <2>1. q \in 1..n /\ q > Len(s) /\ q <= Len(s) + Len(ev) /\ q - Len(s) = p
    BY <1>1, <1>4
  <2> HIDE DEF q
  <2>2. t[q] = Of(ev[q - Len(s)])
    BY <1>4, <2>1 DEF StoryParts
  <2>3. QED  BY <1>2, <1>4, <1>6, <2>1, <2>2 DEF InStory
<1>7. ASSUME NEW u \in taken + 1 .. Len(sent), x \in Of(sent[u]) PROVE InStory(x, NowStory)
  <2> DEFINE q == Len(s) + Len(ev) + (u - taken)
  <2>1. q \in 1..n /\ q > Len(s) + Len(ev) /\ taken + (q - Len(s) - Len(ev)) = u
    BY <1>1, <1>4
  <2> HIDE DEF q
  <2>2. t[q] = Of(sent[taken + (q - Len(s) - Len(ev))])
    BY <1>4, <2>1 DEF StoryParts
  <2>3. QED  BY <1>2, <1>4, <1>7, <2>1, <2>2 DEF InStory
<1>8. QED  BY <1>3, <1>5, <1>6, <1>7

\* A stop of the daemon forgets what was recorded.
LEMMA HaltForgets == ASSUME Halt, NEW x PROVE ~InRecorded(x)'
<1>1. Recorded' = <<>>
  BY DEF Halt, Recorded
<1>2. QED  BY <1>1 DEF InRecorded

\* An alert that becomes recorded is not one that was recorded once.
LEMMA NewlyRecorded ==
  ASSUME TypeOK, [PipeNext]_pipeVars, NEW x, Known(x), InRecorded(x)'
  PROVE  InRecorded(x)
<1>1. feed \in Seq(Alert) /\ queue \in Seq(Alert) /\ (hand # NoAlert => hand \in Alert)
      /\ (step \in {"record", "send"} => hand # NoAlert)
  BY DEF TypeOK
<1>2. ~Halt
  BY HaltForgets
<1>3. CASE UNCHANGED <<feed, Recorded>>
  BY <1>3 DEF InRecorded
<1>4. CASE Broadcast
  <2>1. Recorded' = Recorded
    BY <1>4 DEF Broadcast, Recorded
  <2>2. QED  BY <2>1 DEF InRecorded
<1>5. CASE Record
  <2>1. hand \in Alert /\ hand # NoAlert /\ Recorded = feed /\ Recorded' = Append(feed, hand)
    BY <1>1, <1>5 DEF Record, Recorded
  <2>2. InRecorded(x) \/ x = hand
    <3>1. PICK i \in 1..Len(Recorded') : Recorded'[i] = x
      BY DEF InRecorded
    <3>2. i \in 1..Len(feed) \/ i = Len(feed) + 1
      BY <1>1, <2>1
    <3>3. QED  BY <1>1, <2>1, <3>1, <3>2 DEF InRecorded
  <2>3. IsHere(hand)
    <3> DEFINE front == Append(feed, hand)
    <3>1. front \in Seq(Alert) /\ Path = front \o queue
      BY <1>1, <2>1 DEF Path
    <3>2. Len(front) \in 1..Len(front) /\ front[Len(front)] = hand
      BY <1>1, <2>1
    <3> HIDE DEF front
    <3>3. Len(front) \in 1..Len(Path) /\ Path[Len(front)] = hand
      BY <1>1, <3>1, <3>2
    <3>4. QED  BY <3>3 DEF IsHere
  <2>4. x = hand => ~Past(x)
    <3>1. hand.tag \in Nat
      BY <2>1 DEF Alert
    <3>2. QED  BY <2>1, <2>3, <3>1 DEF Past
  <2>5. QED  BY <2>2, <2>4 DEF Known
<1>6. QED
  BY <1>2, <1>3, <1>4, <1>5
     DEF PipeNext, PipeWork, Dispatch, Tick, Raise, Enqueue, Receive, WriteObject,
         WriteNewline, WriteFails, Start, Recorded, pipeVars, daemonVars

\* What the interface holds is not recorded by a step unless it was before.
LEMMA HeldIsOld ==
  ASSUME TypeOK, IpcTypeOK, TalkInv, GuiTypeOK, DetailsInv, [Next]_allVars, NEW x, InRecorded(x)',
         \/ Lists(app.alerts, x)
         \/ \E p \in 1..Len(events) : x \in Of(events[p])
         \/ \E u \in conn[TheGui].taken + 1 .. Len(conn[TheGui].sent) :
              x \in Of(conn[TheGui].sent[u])
  PROVE  InRecorded(x)
<1>1. InStory(x, NowStory)
  BY HeldInStory
<1>2. Known(x)
  BY <1>1 DEF InStory, DetailsInv
<1>3. [PipeNext]_pipeVars
  BY ServerStep, PipeStep
<1>4. QED  BY <1>2, <1>3, NewlyRecorded

\* As long as it runs the daemon does not end a session whose client writes UTF-8.
LEMMA SessionStays ==
  ASSUME IpcTypeOK, DaemonNext, ~Halt, NEW c \in Clients, conn[c].link = "open",
         conn[c].served < Len(conn[c].asked) =>
           conn[c].asked[conn[c].served + 1].kind # "not_utf8"
  PROVE  conn'[c].link = "open"
<1> DEFINE r == conn[c]
<1>1. conn \in [Clients -> Connection] /\ r \in Connection /\ r.link = "open"
  BY DEF IpcTypeOK
<1>2. CASE UNCHANGED conn
  BY <1>2
<1>3. CASE ListenerGone
  BY <1>1, <1>3 DEF ListenerGone
<1>4. ASSUME NEW d \in Clients, Accept(d) \/ HandleRequest(d) \/ Relay(d) \/ EndSession(d)
      PROVE  conn'[c].link = "open"
  <2>1. CASE c # d
    BY <1>1, <1>4, <2>1 DEF Accept, HandleRequest, Relay, EndSession
  <2>2. CASE c = d
    <3>1. ~EndSession(c) /\ ~Accept(c)
      BY <1>1 DEF EndSession, Accept
    <3>2. CASE Relay(c)
      <4>1. PICK msgs : conn'[c] =
              IF r.cursor < Len(feed) - BroadcastCapacity
              THEN [r EXCEPT !.cursor = Len(feed) - BroadcastCapacity,
                             !.missed = @ + ((Len(feed) - BroadcastCapacity) - r.cursor)]
              ELSE Sends([r EXCEPT !.cursor = @ + 1], msgs)
        BY <1>1, <3>2 DEF Relay
      <4> HIDE DEF r
      <4>2. QED  BY <1>1, <4>1 DEF Sends, Connection
    <3>3. CASE HandleRequest(c)
      <4> DEFINE req == r.asked[r.served + 1]
                 x == r.served + 1
                 y == r.subscribed \/ req.kind = "subscribe"
                 k == [r EXCEPT !.served = x, !.subscribed = y]
                 msgs == Answer(req)
      <4>1. conn'[c] = IF req.kind # "not_utf8" THEN Sends(k, msgs)
                       ELSE IF r.link = "open" THEN [k EXCEPT !.link = "hup"] ELSE NoConn
        BY <1>1, <3>3 DEF HandleRequest
      <4>2. req.kind # "not_utf8"
        BY <3>3 DEF HandleRequest
      <4> HIDE DEF x, y, req, msgs
      <4>3. k.link = "open" /\ k.sent = r.sent
        BY <1>1 DEF Connection
      <4>4. conn'[c] = [k EXCEPT !.sent = r.sent \o msgs]
        BY <4>1, <4>2, <4>3 DEF Sends
      <4>5. \A z : [k EXCEPT !.sent = z].link = r.link
        BY <1>1 DEF Connection
      <4>6. QED  BY <1>1, <4>4, <4>5
    <3>4. QED  BY <1>4, <2>2, <3>1, <3>2, <3>3
  <2>3. QED  BY <2>1, <2>2
<1>5. QED
  BY <1>2, <1>3, <1>4 DEF DaemonNext, IpcWork, Session, Listen, AcceptFails, ipcVars

\* The session of the interface ends while the daemon runs only before it has read
\* anything.
LEMMA SessionEnds ==
  ASSUME IpcTypeOK, ThreadInv, AskInv, [Next]_allVars, ~Halt,
         link = "open", conn'[TheGui].link # "open"
  PROVE  /\ conn[TheGui].taken = 0 /\ conn'[TheGui].link = "closed"
         /\ UNCHANGED <<app, events>>
<1> DEFINE k == conn[TheGui]
           k2 == conn'[TheGui]
<1>1. k \in Connection /\ k.link = "open" /\ thread \in {"subscribe", "recent", "read"}
  BY GuiAssumption DEF IpcTypeOK, link, ThreadInv, Bound
<1>2. CASE DaemonNext
  <2>1. PICK n \in 0..2 : HasAsked(k.asked, n)
    BY AskedIs DEF Bound
  <2>2. k.served < Len(k.asked) => k.asked[k.served + 1].kind # "not_utf8"
    <3>1. k.served \in Nat
      BY <1>1 DEF Connection
    <3>2. k.served < Len(k.asked) => k.served + 1 \in 1..n
      BY <2>1, <3>1 DEF HasAsked
    <3>3. \A j \in 1..n : k.asked[j].kind # "not_utf8"
      BY <2>1, AsksAre DEF HasAsked
    <3>4. QED  BY <3>2, <3>3
  <2>3. QED  BY <1>1, <1>2, <2>2, SessionStays, GuiAssumption
<1>3. CASE UNCHANGED vars
  BY <1>1, <1>3 DEF vars, ipcVars, link
<1>4. CASE GuiConnect \/ GuiAskFails \/ GuiHangup
  BY <1>1, <1>4, ClientActs DEF GuiConnect, GuiAskFails, GuiHangup, link
<1>5. CASE GuiAsks \/ GuiReads
  <2>1. Take(TheGui) \/ \E req \in Request : Ask(TheGui, req) \/ UNCHANGED vars
    BY <1>5, GuiAssumption DEF GuiAsks, GuiReads, Request
  <2>2. CASE Take(TheGui)
    BY <1>1, <2>2, ClientActs DEF Connection
  <2>3. CASE \E req \in Request : Ask(TheGui, req)
    BY <1>1, <2>3, ClientActs DEF Connection
  <2>4. QED  BY <1>3, <2>1, <2>2, <2>3
<1>6. CASE GuiCloneFails
  <2>1. k.taken = 0 /\ k2 = [k EXCEPT !.link = "closed"] /\ UNCHANGED <<app, events>>
    BY <1>1, <1>6, ClientActs DEF GuiCloneFails
  <2>2. QED  BY <1>1, <2>1 DEF Connection
<1>7. QED
  BY <1>2, <1>3, <1>4, <1>5, <1>6
     DEF Next, GuiThread, GuiRefused, GuiWakes, DrainEvents, allVars

\* Where nothing is read and nothing drained, only a thread without a session tells the
\* interface that it is disconnected.
LEMMA EventsKept ==
  ASSUME ThreadInv, [Next]_allVars, ~GuiReads, ~DrainEvents
  PROVE  /\ EventsStay
         /\ link \in {"open", "pending"} => UNCHANGED <<app, events>>
<1>1. link \in {"open", "pending"} => thread \in {"subscribe", "recent", "read"}
  BY DEF ThreadInv, Bound, link
<1>2. QED
  BY <1>1 DEF Next, GuiThread, GuiConnect, GuiRefused, GuiAsks, GuiAskFails, GuiHangup,
       GuiWakes, GuiCloneFails, allVars, guiVars, EventsStay, Emit

\* What the session has sent stays sent.
LEMMA SentStays ==
  ASSUME TypeOK, IpcTypeOK, [Next]_allVars, link = "open", conn'[TheGui].link = "open"
  PROVE  \A i \in 1..Len(conn[TheGui].sent) : conn'[TheGui].sent[i] = conn[TheGui].sent[i]
<1> DEFINE k == conn[TheGui]
           k2 == conn'[TheGui]
<1> SUFFICES \A i \in 1..Len(k.sent) : k2.sent[i] = k.sent[i]
  OBVIOUS
<1>1. k \in Connection /\ k.sent \in Seq(Message) /\ k.link = "open"
  BY GuiAssumption DEF IpcTypeOK, Connection, link
<1>2. Moves(k, k2) /\ k2.link = "open"
  BY ServerStep, ConnSteps, GuiAssumption
<1> HIDE DEF k, k2
<1>3. ASSUME NEW msgs \in Seq(Message), k2.sent = k.sent \o msgs
      PROVE  \A i \in 1..Len(k.sent) : k2.sent[i] = k.sent[i]
  BY <1>1, <1>3
<1>4. CASE k2.sent = k.sent
  BY <1>4
<1>5. CASE IsAnswered(k, k2)
  BY <1>3, <1>5, AnswerType DEF IsAnswered
<1>6. CASE IsRelayed(k, k2)
  <2>1. k.cursor + 1 \in 1..Len(feed) /\ feed \in Seq(Alert)
    <3>1. k.cursor \in Nat /\ k.cursor < Len(feed)
      BY <1>1, <1>6 DEF IsRelayed, Connection
    <3>2. feed \in Seq(Alert)
      BY DEF TypeOK
    <3>3. QED  BY <3>1, <3>2
  <2>2. feed[k.cursor + 1] \in Alert
    BY <2>1
  <2> DEFINE m == [kind |-> "alert", alert |-> feed[k.cursor + 1]]
  <2>3. m \in Message
    BY <2>2, MessageKinds
  <2>4. k2.sent = k.sent \o <<m>>
    BY <1>6 DEF IsRelayed
  <2> HIDE DEF m
  <2>5. QED  BY <1>3, <2>3, <2>4
<1>7. QED
  BY <1>1, <1>2, <1>4, <1>5, <1>6, NoConnType
     DEF Moves, Idles, IsHungUp, IsAccepted, IsLagged, k, k2

\* What is seen, of what is recorded after the step.
WillBeSeen(s, ev, sent, taken, d, o) ==
  /\ Queue(ev, sent, taken, d, o)
  /\ Complete(s, sent, d)
  /\ \A x : InRecorded(x)' =>
       Counted(s, sent, d, x) /\ \A p \in 1..o : x \notin Of(ev[p])

\* SeenInv after a step that leaves a session.
LEMMA SeenAfter ==
  ASSUME conn'[TheGui].link = "open", NEW d \in Nat, NEW o \in Nat,
         WillBeSeen(app'.alerts, events', conn'[TheGui].sent, conn'[TheGui].taken, d, o)
  PROVE  SeenInv'
BY DEF SeenInv, Seen, WillBeSeen

\* SeenInv after a step that leaves none.
LEMMA UnseenAfter ==
  ASSUME conn'[TheGui].link # "open",
         \A x : InRecorded(x)' =>
           /\ ~Lists(app'.alerts, x)
           /\ \A p \in 1..Len(events') : x \notin Of(events'[p])
           /\ conn'[TheGui].link = "hup" =>
                \A u \in conn'[TheGui].taken + 1 .. Len(conn'[TheGui].sent) :
                  x \notin Of(conn'[TheGui].sent[u])
  PROVE  SeenInv'
BY DEF SeenInv

\* An alert that is not listed is counted.
LEMMA UnlistedCounted ==
  ASSUME NEW s, NEW sent, NEW d, NEW x, ~Lists(s, x)
  PROVE  Counted(s, sent, d, x)
BY DEF Counted, Lists

\* The first n messages of two sessions are the same.
SameUpTo(sent, sent2, n) == \A u \in 1..n : sent2[u] = sent[u]

\* What is seen does not depend on the messages that are not taken.
LEMMA SeenOfTaken ==
  ASSUME NEW taken \in Nat, NEW d \in 0..taken, NEW sent, NEW sent2,
         SameUpTo(sent, sent2, taken)
  PROVE  /\ \A ev, o : Queue(ev, sent, taken, d, o) => Queue(ev, sent2, taken, d, o)
         /\ \A s : Complete(s, sent, d) => Complete(s, sent2, d)
         /\ \A s, x : Counted(s, sent, d, x) => Counted(s, sent2, d, x)
<1>1. \A u \in 1..d : sent2[u] = sent[u]
  BY DEF SameUpTo
<1>2. \A u \in d + 1 .. taken : sent2[u] = sent[u]
  BY DEF SameUpTo
<1>3. ASSUME NEW ev, NEW o, Queue(ev, sent, taken, d, o) PROVE Queue(ev, sent2, taken, d, o)
  BY <1>2, <1>3 DEF Queue
<1>4. ASSUME NEW s, Complete(s, sent, d) PROVE Complete(s, sent2, d)
  <2>1. \A i \in 1..d : \A j \in i..d : j \in 1..d
    OBVIOUS
  <2>2. QED  BY <1>1, <1>4, <2>1 DEF Complete
<1>5. ASSUME NEW s, NEW x, Counted(s, sent, d, x) PROVE Counted(s, sent2, d, x)
  <2>1. Again(sent, d, x) => Again(sent2, d, x)
    BY <1>1 DEF Again
  <2>2. QED  BY <1>1, <1>5, <2>1 DEF Counted
<1>6. QED  BY <1>3, <1>4, <1>5

\* A step that leaves the session and in which the interface does nothing.
LEMMA SeenStays ==
  ASSUME TypeOK, IpcTypeOK, TalkInv, GuiTypeOK, DetailsInv, ThreadInv, SeenInv,
         [Next]_allVars, ~GuiReads, ~DrainEvents, link = "open", conn'[TheGui].link = "open"
  PROVE  SeenInv'
<1> DEFINE k == conn[TheGui]
           k2 == conn'[TheGui]
           s == app.alerts
           ev == events
<1>1. /\ k \in Connection /\ k.taken \in Nat /\ k.taken <= Len(k.sent) /\ k.link = "open"
      /\ Len(k.sent) \in Nat
  BY GuiAssumption DEF IpcTypeOK, Connection, TalkInv, TalkOK, link
<1>2. app' = app /\ events' = events
  BY EventsKept
<1>3. k2.taken = k.taken /\ \A u \in 1..k.taken : k2.sent[u] = k.sent[u]
  <2>1. k2.taken = k.taken
    BY TakenKept, NoConnType
  <2>2. \A u \in 1..Len(k.sent) : k2.sent[u] = k.sent[u]
    BY SentStays
  <2>3. QED  BY <1>1, <2>1, <2>2
<1>4. PICK d \in Nat, o \in Nat : Seen(s, ev, k.sent, k.taken, d, o)
  BY <1>1 DEF SeenInv
<1>5. /\ Queue(ev, k.sent, k.taken, d, o) /\ Complete(s, k.sent, d)
      /\ \A x : InRecorded(x) =>
           Counted(s, k.sent, d, x) /\ \A p \in 1..o : x \notin Of(ev[p])
  BY <1>4 DEF Seen
<1>6. d \in 0..k.taken /\ Len(ev) = o + (k.taken - d)
  BY <1>5 DEF Queue
<1>7. /\ \A e2, o2 : Queue(e2, k.sent, k.taken, d, o2) => Queue(e2, k2.sent, k.taken, d, o2)
      /\ \A l : Complete(l, k.sent, d) => Complete(l, k2.sent, d)
      /\ \A l, x : Counted(l, k.sent, d, x) => Counted(l, k2.sent, d, x)
  <2>1. SameUpTo(k.sent, k2.sent, k.taken) /\ k.taken \in Nat /\ d \in 0..k.taken
    BY <1>1, <1>3, <1>6 DEF SameUpTo
  <2> HIDE DEF k, k2
  <2>2. QED  BY <2>1, SeenOfTaken
<1>8. ASSUME NEW x, InRecorded(x)'
      PROVE  Counted(s, k2.sent, d, x) /\ \A p \in 1..o : x \notin Of(ev[p])
  <2>1. CASE InRecorded(x)
    <3>1. Counted(s, k.sent, d, x) /\ \A p \in 1..o : x \notin Of(ev[p])
      BY <1>5, <2>1
    <3>2. QED  BY <1>7, <3>1
  <2>2. CASE ~InRecorded(x)
    <3>1. ~Lists(s, x) /\ \A p \in 1..Len(ev) : x \notin Of(ev[p])
      BY <1>8, <2>2, HeldIsOld
    <3>2. \A p \in 1..o : p \in 1..Len(ev)
      BY <1>1, <1>6
    <3>3. QED  BY <3>1, <3>2, UnlistedCounted
  <2>3. QED  BY <2>1, <2>2
<1>9. Queue(ev, k2.sent, k.taken, d, o) /\ Complete(s, k2.sent, d)
  BY <1>5, <1>7
<1>10. WillBeSeen(s, ev, k2.sent, k.taken, d, o)
  BY <1>8, <1>9 DEF WillBeSeen
<1>11. QED  BY <1>2, <1>3, <1>10, SeenAfter

\* The session begins.
LEMMA SeenOpens ==
  ASSUME TypeOK, IpcTypeOK, TalkInv, GuiTypeOK, DetailsInv, ThreadInv, SeenInv,
         [Next]_allVars, link # "open", conn'[TheGui].link = "open"
  PROVE  SeenInv'
<1> DEFINE k == conn[TheGui]
           k2 == conn'[TheGui]
           s == app.alerts
           ev == events
<1>1. /\ k \in Connection /\ k.taken \in Nat /\ k.taken <= Len(k.sent) /\ k.link # "open"
      /\ k.link \in {"none", "pending"} => k.sent = <<>>
      /\ ev \in Seq(Event)
  BY GuiAssumption DEF IpcTypeOK, Connection, TalkInv, TalkOK, GuiTypeOK, link
<1>2. k.link = "pending" /\ UNCHANGED pipeVars
  <2>1. Moves(k, k2) /\ k2.link = "open"
    BY ServerStep, ConnSteps, GuiAssumption
  <2>2. QED
    BY <1>1, <2>1, NoConnType
       DEF Moves, Idles, IsHungUp, IsAccepted, IsAnswered, IsRelayed, IsLagged
<1>3. ~GuiReads /\ ~DrainEvents
  <2>1. GuiReads => k2.link = k.link
    <3>1. GuiReads => k2 = [k EXCEPT !.taken = @ + 1]
      BY ClientActs DEF GuiReads
    <3>2. QED  BY <1>1, <3>1 DEF Connection
  <2>2. DrainEvents => k2.link = k.link
    BY DEF DrainEvents, vars, ipcVars
  <2>3. QED  BY <1>1, <2>1, <2>2
<1>4. app' = app /\ events' = events
  BY <1>2, <1>3, EventsKept DEF link
<1>5. k2.taken = 0
  <2>1. k2.taken = k.taken
    BY <1>3, TakenKept, NoConnType
  <2>2. QED  BY <1>1, <1>2, <2>1
<1>6. \A x : InRecorded(x) => ~Lists(s, x) /\ \A p \in 1..Len(ev) : x \notin Of(ev[p])
  BY <1>1 DEF SeenInv
<1>7. \A x : InRecorded(x)' => InRecorded(x)
  BY <1>2 DEF InRecorded, Recorded, pipeVars, daemonVars
<1>8. Queue(ev, k2.sent, 0, 0, Len(ev)) /\ Complete(s, k2.sent, 0) /\ Len(ev) \in Nat
  BY <1>1 DEF Queue, Complete
<1>9. WillBeSeen(s, ev, k2.sent, 0, 0, Len(ev))
  BY <1>6, <1>7, <1>8, UnlistedCounted DEF WillBeSeen
<1>10. QED  BY <1>4, <1>5, <1>8, <1>9, SeenAfter

\* One event more.
Grown(ev, ev2, e) ==
  /\ Len(ev) \in Nat /\ Len(ev2) = Len(ev) + 1 /\ ev2[Len(ev) + 1] = e
  /\ \A p \in 1..Len(ev) : ev2[p] = ev[p]

\* What the thread reads waits as one more event.
LEMMA QueueGrows ==
  ASSUME NEW ev, NEW sent, NEW taken \in Nat, NEW d \in Nat, NEW o \in Nat, NEW ev2,
         Queue(ev, sent, taken, d, o), Grown(ev, ev2, EventOf(sent[taken + 1]))
  PROVE  Queue(ev2, sent, taken + 1, d, o)
<1>1. /\ d \in 0..taken /\ o \in Nat /\ (d = 0 \/ o = 0) /\ Len(ev) = o + (taken - d)
      /\ \A u \in d + 1 .. taken : ev[o + (u - d)] = EventOf(sent[u])
  BY DEF Queue
<1>2. /\ Len(ev2) = Len(ev) + 1 /\ ev2[Len(ev) + 1] = EventOf(sent[taken + 1])
      /\ \A p \in 1..Len(ev) : ev2[p] = ev[p]
  BY DEF Grown
<1>3. d \in 0..(taken + 1) /\ Len(ev2) = o + ((taken + 1) - d)
  BY <1>1, <1>2
<1>4. ASSUME NEW u \in d + 1 .. taken + 1 PROVE ev2[o + (u - d)] = EventOf(sent[u])
  <2>1. CASE u = taken + 1
    <3>1. o + (u - d) = Len(ev) + 1
      BY <1>1, <2>1
    <3>2. QED  BY <1>2, <2>1, <3>1
  <2>2. CASE u # taken + 1
    <3>1. u \in d + 1 .. taken
      BY <1>1, <2>2
    <3>2. o + (u - d) \in 1..Len(ev)
      BY <1>1, <3>1
    <3>3. QED  BY <1>1, <1>2, <3>1, <3>2
  <2>3. QED  BY <2>1, <2>2
<1>5. QED  BY <1>1, <1>3, <1>4 DEF Queue

\* The thread reads a message of the session.
LEMMA SeenReads ==
  ASSUME TypeOK, IpcTypeOK, TalkInv, GuiTypeOK, ThreadInv, AskInv, SeenInv, link = "open",
         GuiReads
  PROVE  SeenInv'
<1> DEFINE k == conn[TheGui]
           k2 == conn'[TheGui]
           s == app.alerts
           ev == events
           m == k.sent[k.taken + 1]
<1>1. /\ k \in Connection /\ k.taken \in Nat /\ k.link = "open" /\ ev \in Seq(Event)
      /\ k.sent \in Seq(Message)
  BY GuiAssumption DEF IpcTypeOK, Connection, GuiTypeOK, link
<1>2. /\ k.taken + 1 \in 1..Len(k.sent) /\ NextMessage(TheGui) = m /\ m \in Message
  BY NextType DEF GuiReads
<1>3. k2 = [k EXCEPT !.taken = @ + 1]
  BY ClientActs DEF GuiReads
<1>4. k2.link = "open" /\ k2.sent = k.sent /\ k2.taken = k.taken + 1
  BY <1>1, <1>3 DEF Connection
<1>5. m.kind \in {"hello", "alert", "recent"}
  BY <1>2, OneRecent
<1> HIDE DEF m
<1>6. EventOf(m) \in Event /\ events' = Append(ev, EventOf(m))
  <2>1. CASE m.kind = "hello"
    BY <1>2, <2>1 DEF GuiReads, Emit, EventOf, Connected, Event
  <2>2. CASE m.kind = "alert"
    BY <1>2, <2>2 DEF GuiReads, Emit, EventOf, Event
  <2>3. CASE m.kind = "recent"
    BY <1>2, <2>3 DEF GuiReads, Emit, EventOf, Event
  <2>4. QED  BY <1>5, <2>1, <2>2, <2>3
<1>7. app' = app /\ Recorded' = Recorded
  BY DEF GuiReads, Take, Recorded, pipeVars, daemonVars
<1>8. PICK d \in Nat, o \in Nat : Seen(s, ev, k.sent, k.taken, d, o)
  BY <1>1 DEF SeenInv
<1> DEFINE ev2 == Append(ev, EventOf(m))
<1>9. Queue(ev2, k.sent, k.taken + 1, d, o) /\ \A p \in 1..o : ev2[p] = ev[p]
  <2>1. Queue(ev, k.sent, k.taken, d, o)
    BY <1>8 DEF Seen
  <2>2. EventOf(m) = EventOf(k.sent[k.taken + 1])
    BY DEF m
  <2>3. Grown(ev, ev2, EventOf(k.sent[k.taken + 1]))
    <3>1. Grown(ev, ev2, EventOf(m))
      BY <1>1, <1>6 DEF Grown
    <3>2. QED  BY <2>2, <3>1
  <2> HIDE DEF ev2
  <2>4. Queue(ev2, k.sent, k.taken + 1, d, o)
    BY <1>1, <2>1, <2>3, QueueGrows
  <2>5. \A p \in 1..o : p \in 1..Len(ev)
    BY <1>1, <2>1 DEF Queue
  <2>6. QED  BY <2>3, <2>4, <2>5 DEF Grown
<1> HIDE DEF ev2
<1>10. \A x : InRecorded(x)' => InRecorded(x)
  BY <1>7 DEF InRecorded
<1>11. WillBeSeen(s, ev2, k.sent, k.taken + 1, d, o)
  BY <1>8, <1>9, <1>10 DEF WillBeSeen, Seen
<1>12. QED  BY <1>4, <1>6, <1>7, <1>11, SeenAfter DEF ev2

\* What is listed after an event was listed before or comes with the event.
LEMMA AppliedAre ==
  ASSUME NEW a \in App, NEW e \in Event, NEW x, Lists(Apply(a, e).alerts, x)
  PROVE  Lists(a.alerts, x) \/ x \in Of(e)
<1> DEFINE s == a.alerts
           s2 == Apply(a, e).alerts
<1>1. s \in Seq(Alert) /\ DOMAIN a = {"connected", "alerts"}
  BY DEF App
<1>2. PICK p \in 1..Len(s2) : s2[p] = x
  BY DEF Lists
<1>3. CASE e.kind \in {"connected", "disconnected"}
  <2>1. s2 = s
    BY <1>1, <1>3 DEF Apply, App
  <2>2. QED  BY <2>1
<1>4. CASE e.kind = "alert"
  <2>1. e.alert \in Alert
    BY <1>4, MessageParts DEF Event
  <2>2. s2 = LastN(Append(s, e.alert), MaxAlerts)
    BY <1>1, <1>4 DEF Apply, App
  <2>3. PICK c \in Nat : Pushed(s, s2, e.alert, c)
    BY <1>1, <2>1, <2>2, PushPlaces
  <2>4. Of(e) = {e.alert}
    BY <1>4, OfKinds
  <2> HIDE DEF s2
  <2>5. QED  BY <1>2, <2>3, <2>4 DEF Pushed, Lists
<1>5. CASE e.kind = "recent"
  <2>1. e.alerts \in Seq(Alert)
    BY <1>5, MessageParts DEF Event
  <2>2. s2 = Merge(s, e.alerts)
    BY <1>1, <1>5 DEF Apply, App
  <2>3. PICK q : Merged(s, e.alerts, s2, q)
    BY <1>1, <2>1, <2>2, MergePlaces
  <2>4. Of(e) = {e.alerts[i] : i \in 1..Len(e.alerts)}
    BY <1>5, OfKinds
  <2> HIDE DEF s2
  <2>5. QED  BY <1>2, <2>3, <2>4 DEF Merged, Lists
<1>6. e.kind \in {"connected", "disconnected", "alert", "recent"}
  BY DEF Event
<1>7. QED  BY <1>3, <1>4, <1>5, <1>6

\* The first event is taken out of the channel.
LEMMA QueueShrinks ==
  ASSUME NEW ev \in Seq(Event), ev # <<>>, NEW sent, NEW taken \in Nat,
         NEW d \in Nat, NEW o \in Nat, Queue(ev, sent, taken, d, o)
  PROVE  /\ o > 0 => d = 0 /\ Queue(Tail(ev), sent, taken, d, o - 1)
         /\ o = 0 => /\ d + 1 \in 1..taken /\ Head(ev) = EventOf(sent[d + 1])
                     /\ Queue(Tail(ev), sent, taken, d + 1, o)
<1> DEFINE t == Tail(ev)
<1>1. /\ d \in 0..taken /\ o \in Nat /\ (d = 0 \/ o = 0) /\ Len(ev) = o + (taken - d)
      /\ \A u \in d + 1 .. taken : ev[o + (u - d)] = EventOf(sent[u])
  BY DEF Queue
<1>2. /\ Len(ev) \in Nat \ {0} /\ Len(t) = Len(ev) - 1 /\ Head(ev) = ev[1]
      /\ \A p \in 1..Len(ev) - 1 : t[p] = ev[p + 1]
  OBVIOUS
<1> HIDE DEF t
<1>3. ASSUME o > 0 PROVE d = 0 /\ Queue(t, sent, taken, d, o - 1)
  <2>1. d = 0 /\ o - 1 \in Nat /\ Len(t) = (o - 1) + (taken - d)
    BY <1>1, <1>2, <1>3
  <2>2. ASSUME NEW u \in d + 1 .. taken PROVE t[(o - 1) + (u - d)] = EventOf(sent[u])
    <3>1. (o - 1) + (u - d) \in 1..Len(ev) - 1 /\ ((o - 1) + (u - d)) + 1 = o + (u - d)
      BY <1>1, <2>1
    <3>2. t[(o - 1) + (u - d)] = ev[((o - 1) + (u - d)) + 1]
      BY <1>2, <3>1
    <3>3. QED  BY <1>1, <3>1, <3>2
  <2>3. QED  BY <1>1, <2>1, <2>2 DEF Queue
<1>4. ASSUME o = 0
      PROVE  /\ d + 1 \in 1..taken /\ Head(ev) = EventOf(sent[d + 1])
             /\ Queue(t, sent, taken, d + 1, o)
  <2>1. d + 1 \in 1..taken /\ Len(t) = o + (taken - (d + 1)) /\ d + 1 \in d + 1 .. taken
    BY <1>1, <1>2, <1>4
  <2>2. Head(ev) = EventOf(sent[d + 1])
    <3>1. o + ((d + 1) - d) = 1
      BY <1>1, <1>4
    <3>2. QED  BY <1>1, <1>2, <2>1, <3>1
  <2>3. ASSUME NEW u \in (d + 1) + 1 .. taken PROVE t[o + (u - (d + 1))] = EventOf(sent[u])
    <3>1. /\ o + (u - (d + 1)) \in 1..Len(ev) - 1
          /\ (o + (u - (d + 1))) + 1 = o + (u - d) /\ u \in d + 1 .. taken
      BY <1>1, <1>4
    <3>2. t[o + (u - (d + 1))] = ev[(o + (u - (d + 1))) + 1]
      BY <1>2, <3>1
    <3>3. QED  BY <1>1, <3>1, <3>2
  <2>4. d + 1 \in 0..taken
    BY <1>1, <2>1
  <2>5. QED  BY <1>1, <1>4, <2>1, <2>2, <2>3, <2>4 DEF Queue
<1>5. QED  BY <1>3, <1>4 DEF t

\* The interface takes the event of the next message of the session.
LEMMA SeenOfNext ==
  ASSUME IpcTypeOK, TalkInv, GuiTypeOK, StreamAccounted, ThreadInv, AskInv, RecentInv,
         link = "open", NEW d \in Nat, d < Len(conn[TheGui].sent),
         NEW s2, s2 = Apply(app, EventOf(conn[TheGui].sent[d + 1])).alerts
  PROVE  LET sent == conn[TheGui].sent
             s == app.alerts
         IN  /\ Complete(s, sent, d) => Complete(s2, sent, d + 1)
             /\ \A x : Counted(s, sent, d, x) => Counted(s2, sent, d + 1, x)
<1> DEFINE k == conn[TheGui]
           sent == k.sent
           s == app.alerts
           m == sent[d + 1]
<1>1. /\ k \in Connection /\ sent \in Seq(Message) /\ k.link = "open"
      /\ app \in App /\ s \in Seq(Alert) /\ DOMAIN app = {"connected", "alerts"}
  BY GuiAssumption DEF IpcTypeOK, Connection, GuiTypeOK, App, link
<1>2. d + 1 \in 1..Len(sent) /\ \A i \in 1..d : i \in 1..Len(sent) /\ i < d + 1
  BY <1>1
<1>3. /\ \A i \in 1..Len(sent) : sent[i].kind \in {"hello", "alert", "recent"}
      /\ \A i, j \in 1..Len(sent) : sent[i].kind = "recent" /\ sent[j].kind = "recent" => i = j
  BY OneRecent
<1>4. m \in Message
  BY <1>1, <1>2
<1> SUFFICES /\ Complete(s, sent, d) => Complete(s2, sent, d + 1)
             /\ \A x : Counted(s, sent, d, x) => Counted(s2, sent, d + 1, x)
  OBVIOUS
<1>5. CASE m.kind = "hello"
  <2>1. Of(m) = {} /\ m.kind # "recent"
    BY <1>5, OfKinds
  <2>2. s2 = s
    BY <1>1, <1>5 DEF EventOf, Connected, Apply, App
  <2>3. QED  BY <2>1, <2>2, HelloListed
<1>6. CASE m.kind = "alert"
  <2>1. s2 = LastN(Append(s, m.alert), MaxAlerts)
    BY <1>1, <1>6 DEF EventOf, Apply, App
  <2>2. ASSUME NEW i \in 1..d, sent[i].kind = "alert" PROVE sent[i].alert # m.alert
    <3>1. i \in Live(k) /\ d + 1 \in Live(k) /\ i < d + 1 /\ StreamOK(k, feed)
      BY <1>1, <1>2, <1>6, <2>2, StreamParts, GuiAssumption DEF Live
    <3>2. k.sent[i].alert.id < k.sent[d + 1].alert.id
      BY <3>1 DEF StreamOK
    <3>3. k.sent[i].alert.id \in Nat
      <4>1. sent[i] \in Message
        BY <1>1, <1>2
      <4>2. sent[i].alert \in Alert
        BY <2>2, <4>1, MessageParts
      <4>3. QED  BY <4>2 DEF Alert
    <3>4. QED  BY <3>2, <3>3
  <2>3. \A i \in 1..d : sent[i].kind \in {"hello", "alert", "recent"}
    BY <1>2, <1>3
  <2> HIDE DEF k
  <2>4. QED  BY <1>1, <1>6, <2>1, <2>2, <2>3, AlertListed DEF k
<1>7. CASE m.kind = "recent"
  <2>1. s2 = Merge(s, m.alerts)
    BY <1>1, <1>7 DEF EventOf, Apply, App
  <2>2. \A i \in 1..d : sent[i].kind # "recent"
    BY <1>2, <1>3, <1>7
  <2>3. \A a, b \in 1..Len(m.alerts) : m.alerts[a] = m.alerts[b] => a = b
    BY <1>2, <1>7 DEF RecentInv, RecentOK
  <2>4. QED  BY <1>1, <1>7, <2>1, <2>2, <2>3, RecentListed
<1>8. QED  BY <1>2, <1>3, <1>5, <1>6, <1>7

\* The interface takes an event during a session.
LEMMA SeenDrains ==
  ASSUME IpcTypeOK, TalkInv, GuiTypeOK, StreamAccounted, ThreadInv, AskInv, RecentInv, SeenInv,
         link = "open", DrainEvents
  PROVE  SeenInv'
<1> DEFINE k == conn[TheGui]
           k2 == conn'[TheGui]
           s == app.alerts
           ev == events
           e == Head(ev)
           s2 == Apply(app, e).alerts
<1>1. /\ k.taken \in Nat /\ k.taken <= Len(k.sent) /\ Len(k.sent) \in Nat /\ k.link = "open"
      /\ ev \in Seq(Event) /\ ev # <<>> /\ e \in Event /\ e = ev[1] /\ app \in App
  BY GuiAssumption
     DEF IpcTypeOK, Connection, TalkInv, TalkOK, GuiTypeOK, link, DrainEvents
<1>2. k2 = k /\ Recorded' = Recorded /\ app'.alerts = s2 /\ events' = Tail(ev)
  BY DEF DrainEvents, vars, ipcVars, pipeVars, daemonVars, Recorded
<1>3. PICK d \in Nat, o \in Nat : Seen(s, ev, k.sent, k.taken, d, o)
  BY <1>1 DEF SeenInv
<1>4. /\ Queue(ev, k.sent, k.taken, d, o) /\ Complete(s, k.sent, d)
      /\ \A x : InRecorded(x) =>
           Counted(s, k.sent, d, x) /\ \A p \in 1..o : x \notin Of(ev[p])
  BY <1>3 DEF Seen
<1>5. \A x : InRecorded(x)' => InRecorded(x)
  BY <1>2 DEF InRecorded
<1>6. /\ o > 0 => d = 0 /\ Queue(Tail(ev), k.sent, k.taken, d, o - 1)
      /\ o = 0 => /\ d + 1 \in 1..k.taken /\ e = EventOf(k.sent[d + 1])
                  /\ Queue(Tail(ev), k.sent, k.taken, d + 1, o)
  BY <1>1, <1>4, QueueShrinks
<1>7. CASE o > 0
  <2>1. d = 0 /\ o - 1 \in Nat /\ Queue(Tail(ev), k.sent, k.taken, 0, o - 1)
    BY <1>6, <1>7
  <2>2. Complete(s2, k.sent, 0)
    BY DEF Complete
  <2>3. \A p \in 1..o - 1 : Tail(ev)[p] = ev[p + 1] /\ p + 1 \in 1..o
    <3>1. o <= Len(ev) /\ Len(ev) \in Nat
      BY <1>1, <1>4 DEF Queue
    <3>2. QED  BY <1>1, <1>7, <3>1
  <2>4. ASSUME NEW x, InRecorded(x)
        PROVE  Counted(s2, k.sent, 0, x) /\ \A p \in 1..o - 1 : x \notin Of(Tail(ev)[p])
    <3>1. Counted(s, k.sent, 0, x) /\ \A p \in 1..o : x \notin Of(ev[p])
      BY <1>4, <2>1, <2>4
    <3>2. ~Lists(s, x)
      BY <3>1 DEF Counted
    <3>3. x \notin Of(e)
      <4>1. 1 \in 1..o
        BY <1>7
      <4>2. QED  BY <1>1, <3>1, <4>1
    <3>4. ~Lists(s2, x)
      BY <1>1, <3>2, <3>3, AppliedAre
    <3>5. QED  BY <2>3, <3>1, <3>4, UnlistedCounted
  <2> HIDE DEF s2
  <2>5. WillBeSeen(s2, Tail(ev), k.sent, k.taken, 0, o - 1)
    BY <1>5, <2>1, <2>2, <2>4 DEF WillBeSeen
  <2>6. QED  BY <1>1, <1>2, <2>1, <2>5, SeenAfter
<1>8. CASE o = 0
  <2>1. /\ d + 1 \in Nat /\ d < Len(k.sent) /\ e = EventOf(k.sent[d + 1])
        /\ Queue(Tail(ev), k.sent, k.taken, d + 1, 0)
    BY <1>1, <1>6, <1>8
  <2>2. s2 = Apply(app, EventOf(k.sent[d + 1])).alerts
    BY <2>1
  <2> HIDE DEF s2, e
  <2>3. /\ Complete(s, k.sent, d) => Complete(s2, k.sent, d + 1)
        /\ \A x : Counted(s, k.sent, d, x) => Counted(s2, k.sent, d + 1, x)
    BY <2>1, <2>2, SeenOfNext
  <2>4. WillBeSeen(s2, Tail(ev), k.sent, k.taken, d + 1, 0)
    BY <1>4, <1>5, <2>1, <2>3 DEF WillBeSeen
  <2>5. QED  BY <1>1, <1>2, <2>1, <2>4, SeenAfter
<1>9. QED  BY <1>7, <1>8

\* The session ends.
LEMMA SeenCloses ==
  ASSUME TypeOK, IpcTypeOK, TalkInv, GuiTypeOK, DetailsInv, ThreadInv, AskInv, SeenInv,
         [Next]_allVars, link = "open", conn'[TheGui].link # "open"
  PROVE  SeenInv'
<1> DEFINE k == conn[TheGui]
           s == app.alerts
           ev == events
<1>1. CASE Halt
  <2>1. \A x : ~InRecorded(x)'
    BY <1>1, HaltForgets
  <2>2. QED  BY <2>1, UnseenAfter
<1>2. CASE ~Halt
  <2>1. k.taken = 0 /\ conn'[TheGui].link = "closed" /\ app' = app /\ events' = events
    BY <1>2, SessionEnds
  <2>2. PICK d \in Nat, o \in Nat : Seen(s, ev, k.sent, k.taken, d, o)
    BY DEF SeenInv, link
  <2>3. d = 0 /\ o = Len(ev)
    <3>1. d \in 0..0 /\ Len(ev) = o + (0 - d)
      BY <2>1, <2>2 DEF Seen, Queue
    <3>2. QED  BY <3>1
  <2>4. ASSUME NEW x, InRecorded(x)
        PROVE  ~Lists(s, x) /\ \A p \in 1..Len(ev) : x \notin Of(ev[p])
    <3>1. Counted(s, k.sent, 0, x) /\ \A p \in 1..Len(ev) : x \notin Of(ev[p])
      BY <2>2, <2>3, <2>4 DEF Seen
    <3>2. QED  BY <3>1 DEF Counted
  <2>5. ASSUME NEW x, InRecorded(x)'
        PROVE  ~Lists(s, x) /\ \A p \in 1..Len(ev) : x \notin Of(ev[p])
    BY <2>4, <2>5, HeldIsOld
  <2>6. QED  BY <2>1, <2>5, UnseenAfter
<1>3. QED  BY <1>1, <1>2

\* The thread reads what is left of a session that has ended.
LEMMA UnseenReads ==
  ASSUME IpcTypeOK, TalkInv, GuiTypeOK, ThreadInv, SeenInv, link # "open", GuiReads
  PROVE  SeenInv'
<1> DEFINE k == conn[TheGui]
           k2 == conn'[TheGui]
           s == app.alerts
           ev == events
           m == k.sent[k.taken + 1]
<1>1. /\ k \in Connection /\ k.taken \in Nat /\ ev \in Seq(Event) /\ Len(k.sent) \in Nat
      /\ k.link \in {"none", "pending"} => k.sent = <<>>
  BY GuiAssumption DEF IpcTypeOK, Connection, GuiTypeOK
<1>2. k.taken + 1 \in 1..Len(k.sent) /\ NextMessage(TheGui) = m /\ m \in Message
  BY NextType DEF GuiReads
<1>3. k.link = "hup"
  <2>1. k.link \in Bound /\ k.link # "open"
    BY DEF ThreadInv, GuiReads, link
  <2>2. k.link # "pending"
    BY <1>1, <1>2
  <2>3. QED  BY <2>1, <2>2 DEF Bound
<1>4. k2 = [k EXCEPT !.taken = @ + 1]
  BY ClientActs DEF GuiReads
<1>5. k2.link = "hup" /\ k2.sent = k.sent /\ k2.taken = k.taken + 1
  BY <1>1, <1>3, <1>4 DEF Connection
<1>6. app' = app /\ Recorded' = Recorded
  BY DEF GuiReads, Take, Recorded, pipeVars, daemonVars
<1>7. ASSUME NEW x, InRecorded(x)'
      PROVE  /\ ~Lists(s, x)
             /\ \A p \in 1..Len(ev) : x \notin Of(ev[p])
             /\ \A u \in k.taken + 1 .. Len(k.sent) : x \notin Of(k.sent[u])
  <2>1. InRecorded(x)
    BY <1>6, <1>7 DEF InRecorded
  <2>2. QED  BY <1>3, <2>1 DEF SeenInv
<1>8. events' = ev \/ \E e : events' = Append(ev, e) /\ Of(e) \subseteq Of(m)
  <2>1. Of(Connected) = {}
    BY OfKinds DEF Connected
  <2> HIDE DEF m
  <2>2. CASE m.kind = "hello"
    BY <1>2, <2>1, <2>2 DEF GuiReads, Emit
  <2>3. CASE m.kind \in {"alert", "recent"}
    BY <1>2, <2>3 DEF GuiReads, Emit
  <2>4. CASE m.kind \notin {"hello", "alert", "recent"}
    BY <1>2, <2>4 DEF GuiReads
  <2>5. QED  BY <2>2, <2>3, <2>4
<1>9. ASSUME NEW x, InRecorded(x)', NEW p \in 1..Len(events') PROVE x \notin Of(events'[p])
  <2>1. CASE events' = ev
    BY <1>7, <1>9, <2>1
  <2>2. ASSUME NEW e, events' = Append(ev, e), Of(e) \subseteq Of(m) PROVE x \notin Of(events'[p])
    <3>1. (p \in 1..Len(ev) /\ events'[p] = ev[p]) \/ events'[p] = e
      BY <1>1, <2>2
    <3>2. k.taken + 1 \in k.taken + 1 .. Len(k.sent)
      BY <1>1, <1>2
    <3>3. x \notin Of(m)
      BY <1>7, <1>9, <3>2
    <3>4. QED  BY <1>7, <1>9, <2>2, <3>1, <3>3
  <2>3. QED  BY <1>8, <2>1, <2>2
<1>10. \A u \in (k.taken + 1) + 1 .. Len(k.sent) : u \in k.taken + 1 .. Len(k.sent)
  BY <1>1
<1>11. QED  BY <1>5, <1>6, <1>7, <1>9, <1>10, UnseenAfter

\* The interface takes an event without a session.
LEMMA UnseenDrains ==
  ASSUME GuiTypeOK, SeenInv, link # "open", DrainEvents
  PROVE  SeenInv'
<1> DEFINE k == conn[TheGui]
           s == app.alerts
           ev == events
           e == Head(ev)
           s2 == Apply(app, e).alerts
<1>1. ev \in Seq(Event) /\ ev # <<>> /\ e \in Event /\ e = ev[1] /\ app \in App /\ k.link # "open"
  BY DEF GuiTypeOK, DrainEvents, link
<1>2. conn' = conn /\ Recorded' = Recorded /\ app'.alerts = s2 /\ events' = Tail(ev)
  BY DEF DrainEvents, vars, ipcVars, pipeVars, daemonVars, Recorded
<1>3. \A p \in 1..Len(Tail(ev)) : Tail(ev)[p] = ev[p + 1] /\ p + 1 \in 1..Len(ev)
  BY <1>1
<1>4. 1 \in 1..Len(ev)
  BY <1>1
<1>5. ASSUME NEW x, InRecorded(x)'
      PROVE  /\ ~Lists(s2, x)
             /\ \A p \in 1..Len(Tail(ev)) : x \notin Of(Tail(ev)[p])
             /\ k.link = "hup" => \A u \in k.taken + 1 .. Len(k.sent) : x \notin Of(k.sent[u])
  <2>1. InRecorded(x)
    BY <1>2, <1>5 DEF InRecorded
  <2>2. /\ ~Lists(s, x) /\ \A p \in 1..Len(ev) : x \notin Of(ev[p])
        /\ k.link = "hup" => \A u \in k.taken + 1 .. Len(k.sent) : x \notin Of(k.sent[u])
    BY <1>1, <2>1 DEF SeenInv
  <2>3. ~Lists(s2, x)
    BY <1>1, <1>4, <2>2, AppliedAre
  <2>4. QED  BY <1>3, <2>2, <2>3
<1> HIDE DEF s2
<1>6. QED  BY <1>1, <1>2, <1>5, UnseenAfter

\* A step without a session in which the interface does nothing.
LEMMA UnseenStays ==
  ASSUME TypeOK, IpcTypeOK, TalkInv, GuiTypeOK, DetailsInv, ThreadInv, SeenInv,
         [Next]_allVars, ~GuiReads, ~DrainEvents, ~Halt,
         link # "open", conn'[TheGui].link # "open"
  PROVE  SeenInv'
<1> DEFINE k == conn[TheGui]
           k2 == conn'[TheGui]
           s == app.alerts
           ev == events
<1>1. /\ k \in Connection /\ k.taken \in Nat /\ k.taken <= Len(k.sent) /\ k.link # "open"
      /\ k.link \in {"none", "pending"} => k.sent = <<>>
      /\ ev \in Seq(Event)
  BY GuiAssumption DEF IpcTypeOK, Connection, TalkInv, TalkOK, GuiTypeOK, link
<1>2. app' = app /\ (events' = ev \/ events' = Append(ev, Disconnected))
  BY EventsKept DEF EventsStay
<1>3. ASSUME k2.link = "hup" PROVE k2.sent = k.sent /\ k2.taken = k.taken
  <2>1. Moves(k, k2) /\ k2 # NoConn
    BY <1>3, ServerStep, ConnSteps, GuiAssumption, NoConnType
  <2>2. k2.taken = k.taken
    BY <2>1, TakenKept
  <2>3. k2.sent = k.sent
    BY <1>1, <1>3, <2>1 DEF Moves, Idles, IsAccepted, IsAnswered, IsRelayed, IsLagged
  <2>4. QED  BY <2>2, <2>3
<1>4. ASSUME k2.link = "hup" PROVE k.link = "hup" \/ k.sent = <<>>
  <2>1. Moves(k, k2) /\ k2 # NoConn
    BY <1>4, ServerStep, ConnSteps, GuiAssumption, NoConnType
  <2>2. k.link \in {"none", "pending", "hup"}
    BY <1>1, <1>4, <2>1 DEF Moves, Idles, IsAccepted, IsAnswered, IsRelayed, IsLagged
  <2>3. QED  BY <1>1, <2>2
<1>5. ASSUME NEW x, InRecorded(x)'
      PROVE  /\ ~Lists(s, x)
             /\ \A p \in 1..Len(ev) : x \notin Of(ev[p])
             /\ k2.link = "hup" => \A u \in k.taken + 1 .. Len(k.sent) : x \notin Of(k.sent[u])
  <2>1. CASE InRecorded(x)
    <3>1. /\ ~Lists(s, x) /\ \A p \in 1..Len(ev) : x \notin Of(ev[p])
          /\ k.link = "hup" => \A u \in k.taken + 1 .. Len(k.sent) : x \notin Of(k.sent[u])
      BY <1>1, <2>1 DEF SeenInv
    <3>2. k.sent = <<>> => \A u \in k.taken + 1 .. Len(k.sent) : FALSE
      BY <1>1
    <3>3. QED  BY <1>4, <3>1, <3>2
  <2>2. CASE ~InRecorded(x)
    BY <1>5, <2>2, HeldIsOld
  <2>3. QED  BY <2>1, <2>2
<1>6. ASSUME NEW x, InRecorded(x)', NEW p \in 1..Len(events') PROVE x \notin Of(events'[p])
  <2>1. Of(Disconnected) = {}
    BY OfKinds DEF Disconnected
  <2>2. (p \in 1..Len(ev) /\ events'[p] = ev[p]) \/ events'[p] = Disconnected
    BY <1>1, <1>2
  <2>3. QED  BY <1>5, <1>6, <2>1, <2>2
<1>7. QED  BY <1>2, <1>3, <1>5, <1>6, UnseenAfter

\* Every step keeps what is seen.
LEMMA SeenStep ==
  ASSUME TypeOK, IpcTypeOK, TalkInv, StreamAccounted, GuiTypeOK, DetailsInv, ThreadInv, AskInv,
         RecentInv, SeenInv, [Next]_allVars
  PROVE  SeenInv'
<1>1. CASE GuiReads
  BY <1>1, SeenReads, UnseenReads
<1>2. CASE DrainEvents
  BY <1>2, SeenDrains, UnseenDrains
<1>3. CASE ~GuiReads /\ ~DrainEvents /\ link = "open" /\ conn'[TheGui].link = "open"
  BY <1>3, SeenStays
<1>4. CASE link = "open" /\ conn'[TheGui].link # "open"
  BY <1>4, SeenCloses
<1>5. CASE link # "open" /\ conn'[TheGui].link = "open"
  BY <1>5, SeenOpens
<1>6. CASE ~GuiReads /\ ~DrainEvents /\ link # "open" /\ conn'[TheGui].link # "open"
  <2>1. CASE Halt
    <3>1. \A x : ~InRecorded(x)'
      BY <2>1, HaltForgets
    <3>2. QED  BY <1>6, <3>1, UnseenAfter
  <2>2. CASE ~Halt
    BY <1>6, <2>2, UnseenStays
  <2>3. QED  BY <2>1, <2>2
<1>7. QED  BY <1>1, <1>2, <1>3, <1>4, <1>5, <1>6

\* What holds of the daemon and its sessions, of the thread and of the details.
LEMMA RestHolds ==
  Spec => [](/\ TypeOK /\ FeedNumbered /\ StateMatchesRecorded
             /\ IpcTypeOK /\ TalkInv /\ StreamAccounted /\ SnapshotInv
             /\ GuiTypeOK /\ DetailsInv /\ ThreadInv)
<1>1. PipeSpec => [](TypeOK /\ FeedNumbered /\ StateMatchesRecorded)
  BY TypeCorrect, Numbered, StateAgrees, PTL
<1>2. ServerSpec => [](IpcTypeOK /\ TalkInv /\ StreamAccounted /\ SnapshotInv)
  BY IpcTypeCorrect, TalkInvariant, StreamIsAccounted, SnapshotsInvariant, PTL
<1>3. Spec => ServerSpec /\ PipeSpec
  BY GuiIsAClient, ServerRunsPipe, PTL
<1>4. LightInv => ThreadInv
  BY DEF LightInv
<1>5. QED
  BY <1>1, <1>2, <1>3, <1>4, GuiTypeCorrect, DetailsInvariant, LightInvariant, PTL

\* The interface starts without a connection, with nothing listed.
LEMMA SeenInit ==
  ASSUME Init
  PROVE  AskInv /\ RecentInv /\ SeenInv
<1>1. conn[TheGui] = NoConn /\ thread = "connect" /\ events = <<>> /\ app.alerts = <<>>
  BY GuiAssumption DEF Init, GuiInit, IpcInit
<1>2. NoConn.link = "none" /\ NoConn.asked = <<>>
  BY DEF NoConn
<1>3. AskInv
  BY <1>1, <1>2 DEF AskInv, HasAsked
<1>4. RecentInv
  BY <1>1, <1>2 DEF RecentInv, link
<1>5. SeenInv
  BY <1>1, <1>2 DEF SeenInv, Lists
<1>6. QED  BY <1>3, <1>4, <1>5

\* What the interface asks, gets and sees is as described in every reachable state.
LEMMA SeenInvariant == Spec => [](AskInv /\ RecentInv /\ SeenInv)
<1>1. Init => AskInv /\ RecentInv /\ SeenInv
  BY SeenInit
<1>2. TypeOK /\ IpcTypeOK /\ ThreadInv /\ ThreadInv' /\ AskInv /\ [Next]_allVars => AskInv'
  BY AskStep
<1>3. /\ TypeOK /\ FeedNumbered /\ StateMatchesRecorded /\ IpcTypeOK /\ IpcTypeOK'
      /\ StreamAccounted /\ SnapshotInv /\ ThreadInv /\ AskInv /\ RecentInv /\ [Next]_allVars
      => RecentInv'
  BY RecentStep
<1>4. /\ TypeOK /\ IpcTypeOK /\ TalkInv /\ StreamAccounted /\ GuiTypeOK /\ DetailsInv
      /\ ThreadInv /\ AskInv /\ RecentInv /\ SeenInv /\ [Next]_allVars
      => SeenInv'
  BY SeenStep
<1>5. QED  BY <1>1, <1>2, <1>3, <1>4, RestHolds, PTL DEF Spec

-----------------------------------------------------------------------------
(* The list *)

\* A stream without a gap has told every alert it has come past.
LEMMA EveryIdTold ==
  ASSUME NEW k \in Connection, StreamOK(k, feed), k.missed = 0,
         NEW id \in k.base + 1 .. k.cursor
  PROVE  \E j \in Live(k) : k.sent[j].alert.id = id
<1> DEFINE T == k.base + 1 .. k.cursor
           f == [j \in Live(k) |-> k.sent[j].alert.id]
<1>1. k.base \in Nat /\ k.cursor \in Nat /\ id \in T
  BY DEF Connection
<1>2. /\ Cardinality(Live(k)) + 0 = k.cursor - k.base
      /\ \A j \in Live(k) : k.sent[j].alert.id \in T
      /\ \A i, j \in Live(k) : i < j => k.sent[i].alert.id < k.sent[j].alert.id
  BY DEF StreamOK
<1>3. IsFiniteSet(T) /\ Cardinality(T) = k.cursor - k.base
  <2>1. k.base + 1 \in Int /\ k.cursor \in Int /\ k.base + 1 <= k.cursor
    BY <1>1
  <2>2. /\ IsFiniteSet(T)
        /\ Cardinality(T) = IF k.base + 1 > k.cursor THEN 0 ELSE k.cursor - (k.base + 1) + 1
    BY <2>1, FS_Interval
  <2>3. QED  BY <1>1, <2>1, <2>2
<1>4. f \in Injection(Live(k), T)
  <2>1. f \in [Live(k) -> T]
    BY <1>2
  <2>2. ASSUME NEW i \in Live(k), NEW j \in Live(k), f[i] = f[j] PROVE i = j
    <3>1. i \in Nat /\ j \in Nat /\ f[i] \in T /\ f[j] \in T /\ T \subseteq Nat
      BY <1>1, <2>1 DEF Live
    <3>2. ~(i < j) /\ ~(j < i)
      BY <1>2, <2>2, <3>1
    <3>3. QED  BY <3>1, <3>2
  <2>3. QED  BY <2>1, <2>2 DEF Injection, IsInjective
<1>5. IsFiniteSet(Live(k)) /\ Cardinality(Live(k)) = Cardinality(T)
  <2>1. IsFiniteSet(Live(k))
    BY <1>3, <1>4, FS_Injection
  <2>2. Cardinality(Live(k)) \in Nat
    BY <2>1, FS_CardinalityType
  <2>3. QED  BY <1>1, <1>2, <1>3, <2>1, <2>2
<1>6. f \in Surjection(Live(k), T)
  BY <1>3, <1>4, <1>5, FS_Injection
<1>7. PICK j \in Live(k) : f[j] = id
  BY <1>1, <1>6 DEF Surjection
<1>8. QED  BY <1>7

\* An interface that has caught up has drained all that the session has sent.
LEMMA CaughtUpSeen ==
  ASSUME IpcTypeOK, TalkInv, SeenInv, CaughtUp
  PROVE  LET k == conn[TheGui]
         IN  \E d \in Nat : d = Len(k.sent) /\ Complete(app.alerts, k.sent, d)
<1> DEFINE k == conn[TheGui]
<1>1. /\ k.link = "open" /\ Len(events) = 0 /\ k.taken \in Nat /\ Len(k.sent) \in Nat
      /\ k.taken = Len(k.sent)
  BY GuiAssumption
     DEF IpcTypeOK, Connection, TalkInv, TalkOK, CaughtUp, CanTake, link
<1>2. PICK d \in Nat, o \in Nat : Seen(app.alerts, events, k.sent, k.taken, d, o)
  BY <1>1 DEF SeenInv
<1>3. d = Len(k.sent)
  <2>1. d \in 0..k.taken /\ Len(events) = o + (k.taken - d)
    BY <1>2 DEF Seen, Queue
  <2>2. QED  BY <1>1, <2>1
<1>4. QED  BY <1>2, <1>3 DEF Seen

(***************************************************************************)
(* The list of an interface that has caught up and has a snapshot has all  *)
(* alerts of the snapshot and all that follow it up to where the session   *)
(* is, as long as the session has not lagged and the list is not full: no  *)
(* alert falls between the snapshot and the stream, whatever was listed    *)
(* before, however recording, broadcasting and answering interleave.       *)
(***************************************************************************)
THEOREM ListIsComplete == Spec => []ListComplete
<1> DEFINE k == conn[TheGui]
           s == app.alerts
<1>1. ASSUME TypeOK, FeedNumbered, IpcTypeOK, TalkInv, StreamAccounted, SnapshotInv,
             GuiTypeOK, RecentInv, SeenInv
      PROVE  ListComplete
  <2> SUFFICES ASSUME CaughtUp, k.missed = 0, Len(s) < MaxAlerts,
                      NEW i \in 1..Len(k.sent), k.sent[i].kind = "recent"
               PROVE  LET m == k.sent[i]
                      IN  /\ \A j \in 1..Len(m.alerts) : Listed(m.alerts[j])
                          /\ \A id \in Reach(m) + 1 .. k.cursor : Listed(feed[id])
    BY DEF ListComplete
  <2> DEFINE m == k.sent[i]
             n == Len(k.sent)
  <2>1. /\ k \in Connection /\ k.base \in Nat /\ k.cursor \in Nat /\ n \in Nat /\ k.link = "open"
        /\ TheGui \in Clients /\ k.sent \in Seq(Message) /\ m \in Message
    BY GuiAssumption, <1>1 DEF IpcTypeOK, Connection, CaughtUp, link
  <2>2. \A j \in i..n : \A x \in Of(k.sent[j]) : Lists(s, x)
    <3>1. PICK d \in Nat : d = n /\ Complete(s, k.sent, d)
      BY <1>1, CaughtUpSeen
    <3>2. ~(Len(s) >= MaxAlerts)
      <4>1. s \in Seq(Alert)
        BY <1>1 DEF GuiTypeOK, App
      <4>2. Len(s) \in Nat /\ MaxAlerts \in Nat
        BY <4>1, GuiAssumption
      <4>3. QED  BY <4>2
    <3>3. QED  BY <3>1, <3>2 DEF Complete
  <2>3. /\ StreamOK(k, feed) /\ KeepsUp(k) /\ Joins(m, k.base) /\ RecentOK(k)
    BY <1>1, <2>1, StreamParts DEF SnapshotInv, RecentInv, link
  <2>4. ASSUME NEW j \in 1..Len(m.alerts) PROVE Lists(s, m.alerts[j])
    <3>1. m.alerts[j] \in Of(m) /\ i \in i..n
      BY <2>1, OfKinds
    <3>2. QED  BY <2>2, <3>1
  <2>5. Reach(m) \in Nat /\ Reach(m) >= k.base
    <3>1. Reach(m) \in Nat
      BY <2>1, ReachType
    <3>2. CASE m.alerts = <<>>
      <4>1. k.base = 0
        BY <2>3, <3>2 DEF RecentOK
      <4>2. QED  BY <3>1, <4>1
    <3>3. CASE m.alerts # <<>>
      BY <2>3, <3>1, <3>3 DEF Joins, Reach
    <3>4. QED  BY <3>1, <3>2, <3>3
  <2> HIDE DEF k, m, n
  <2>6. ASSUME NEW id \in Reach(m) + 1 .. k.cursor PROVE Lists(s, feed[id])
    <3>1. id \in k.base + 1 .. k.cursor /\ ~(id <= Reach(m)) /\ id \in Nat
      BY <2>1, <2>5
    <3>2. PICK j \in Live(k) : k.sent[j].alert.id = id
      BY <2>1, <2>3, <3>1, EveryIdTold
    <3>3. j \in 1..n /\ k.sent[j].kind = "alert" /\ k.sent[j].alert = feed[id]
      BY <2>3, <3>2 DEF Live, StreamOK, n
    <3>4. ~(j < i)
      <4>1. CASE m.alerts = <<>>
        <5>1. \A l \in 1..i : k.sent[l].kind # "alert"
          BY <2>3, <4>1 DEF RecentOK, m
        <5>2. QED  BY <3>3, <5>1
      <4>2. CASE m.alerts # <<>>
        <5>1. Reach(k.sent[j]) = id /\ Snapshot(m)
          BY <3>2, <3>3, <4>2 DEF Reach, Snapshot, m
        <5>2. j < i => Reach(k.sent[j]) <= Reach(m)
          BY <2>3, <3>3, <5>1 DEF KeepsUp, m, n
        <5>3. QED  BY <3>1, <5>1, <5>2
      <4>3. QED  BY <4>1, <4>2
    <3>5. j \in i..n
      BY <3>3, <3>4 DEF n
    <3>6. feed[id] \in Of(k.sent[j])
      BY <3>3, OfKinds
    <3>7. QED  BY <2>2, <3>5, <3>6
  <2>7. \A x : Lists(s, x) => Listed(x)
    BY DEF Lists, Listed
  <2>8. QED  BY <2>4, <2>6, <2>7 DEF k, m
<1>2. QED  BY <1>1, RestHolds, SeenInvariant, PTL

\* A set of numbers that has no two, or no third above two of it.
LEMMA AtMostTwo ==
  ASSUME NEW S \in SUBSET Nat
  PROVE  /\ (\A p, q \in S : ~(p < q)) => Cardinality(S) <= 1
         /\ (\A p, q, r \in S : p < q => ~(q < r)) => Cardinality(S) <= 2
<1>1. Cardinality({}) = 0
  BY FS_EmptySet
<1>2. \A p \in S : IsFiniteSet({p}) /\ Cardinality({p}) = 1
  BY FS_Singleton
<1>3. ASSUME NEW p \in S, NEW q \in S, p # q PROVE Cardinality({p, q}) = 2
  <2>1. Cardinality({p} \cup {q}) = Cardinality({p}) + 1
    BY <1>2, <1>3, FS_AddElement
  <2>2. {p} \cup {q} = {p, q}
    OBVIOUS
  <2>3. QED  BY <1>2, <2>1, <2>2
<1>4. ASSUME \A p, q \in S : ~(p < q) PROVE Cardinality(S) = 0 \/ Cardinality(S) = 1
  <2>1. CASE S = {}
    BY <1>1, <2>1
  <2>2. CASE S # {}
    <3>1. PICK p \in S : TRUE
      BY <2>2
    <3>2. ASSUME NEW q \in S PROVE q = p
      <4>1. ~(p < q) /\ ~(q < p) /\ p \in Nat /\ q \in Nat
        BY <1>4
      <4>2. QED  BY <4>1
    <3>3. S = {p}
      BY <3>2
    <3>4. QED  BY <1>2, <3>3
  <2>3. QED  BY <2>1, <2>2
<1>5. ASSUME \A p, q, r \in S : p < q => ~(q < r) PROVE Cardinality(S) <= 2
  <2>1. CASE \A p, q \in S : ~(p < q)
    <3>1. Cardinality(S) = 0 \/ Cardinality(S) = 1
      BY <1>4, <2>1
    <3>2. QED  BY <3>1
  <2>2. CASE \E p, q \in S : p < q
    <3>1. PICK p \in S, q \in S : p < q
      BY <2>2
    <3>2. ASSUME NEW r \in S PROVE r = p \/ r = q
      <4>1. ~(q < r) /\ ~(r < p)
        BY <1>5, <3>1
      <4>2. ~(p < r /\ r < q)
        BY <1>5
      <4>3. p \in Nat /\ q \in Nat /\ r \in Nat
        OBVIOUS
      <4>4. QED  BY <4>1, <4>2, <4>3
    <3>3. S = {p, q}
      BY <3>2
    <3>4. p # q
      BY <3>1
    <3>5. QED  BY <1>3, <3>3, <3>4
  <2>3. QED  BY <2>1, <2>2
<1>6. (\A p, q \in S : ~(p < q)) => Cardinality(S) <= 1
  <2> SUFFICES ASSUME \A p, q \in S : ~(p < q) PROVE Cardinality(S) <= 1
    OBVIOUS
  <2>1. Cardinality(S) = 0 \/ Cardinality(S) = 1
    BY <1>4
  <2>2. QED  BY <2>1
<1>7. QED  BY <1>5, <1>6

(***************************************************************************)
(* An alert of the daemon that runs is listed once, and twice only if the  *)
(* session has sent it in its snapshot and then as a live alert, whatever  *)
(* the list held of earlier sessions and of earlier processes of the       *)
(* daemon, and however many times the interface connected.                 *)
(***************************************************************************)
THEOREM TwiceAtMost == Spec => []TwiceOnlyAfterSnapshot
<1> DEFINE k == conn[TheGui]
           s == app.alerts
           again(a) == \E i, j \in 1..Len(k.sent) :
                         /\ i < j /\ k.sent[i].kind = "recent" /\ k.sent[j].kind = "alert"
                         /\ Contains(k.sent[i].alerts, a) /\ k.sent[j].alert = a
           rows(a) == {i \in 1..Len(s) : s[i] = a}
<1>1. ASSUME TypeOK, IpcTypeOK, TalkInv, GuiTypeOK, SeenInv
      PROVE  TwiceOnlyAfterSnapshot
  <2> SUFFICES ASSUME k.link = "open", NEW id \in 1..Len(feed)
               PROVE  Cardinality(rows(feed[id])) <= (IF again(feed[id]) THEN 2 ELSE 1)
    BY DEF TwiceOnlyAfterSnapshot, link
  <2> DEFINE a == feed[id]
  <2>1. InRecorded(a)
    BY <1>1, FeedRecorded
  <2>2. /\ k.taken \in Nat /\ Len(k.sent) \in Nat /\ k.taken <= Len(k.sent)
        /\ s \in Seq(Alert) /\ Len(s) \in Nat
    BY <1>1, GuiAssumption DEF IpcTypeOK, Connection, TalkInv, TalkOK, GuiTypeOK, App
  <2>3. PICK d \in Nat, o \in Nat : Seen(s, events, k.sent, k.taken, d, o)
    BY <1>1 DEF SeenInv
  <2>4. d \in 0..k.taken /\ Counted(s, k.sent, d, a)
    BY <2>1, <2>3 DEF Seen, Queue
  <2>5. Again(k.sent, d, a) => again(a)
    <3> SUFFICES ASSUME NEW i \in 1..d, NEW j \in 1..d, i < j,
                        k.sent[i].kind = "recent", k.sent[j].kind = "alert",
                        a \in Of(k.sent[i]), a \in Of(k.sent[j])
                 PROVE  again(a)
      BY DEF Again
    <3>1. i \in 1..Len(k.sent) /\ j \in 1..Len(k.sent)
      BY <2>2, <2>4
    <3>2. Contains(k.sent[i].alerts, a) /\ k.sent[j].alert = a
      BY OfKinds DEF Contains
    <3>3. QED  BY <3>1, <3>2
  <2> HIDE DEF a, s
  <2>6. rows(a) \in SUBSET Nat /\ rows(a) \subseteq 1..Len(s) /\ \A p \in rows(a) : s[p] = a
    OBVIOUS
  <2>7. CASE Again(k.sent, d, a)
    <3>1. ASSUME NEW p \in rows(a), NEW q \in rows(a), NEW r \in rows(a), p < q PROVE ~(q < r)
      BY <2>4, <2>6, <3>1 DEF Counted
    <3> HIDE DEF rows
    <3>2. Cardinality(rows(a)) <= 2
      BY <2>6, <3>1, AtMostTwo
    <3>3. QED  BY <2>5, <2>7, <3>2 DEF a
  <2>8. CASE ~Again(k.sent, d, a)
    <3>1. ASSUME NEW p \in rows(a), NEW q \in rows(a) PROVE ~(p < q)
      BY <2>4, <2>6, <2>8 DEF Counted
    <3> HIDE DEF rows
    <3>2. Cardinality(rows(a)) <= 1 /\ Cardinality(rows(a)) <= 2
      BY <2>6, <3>1, AtMostTwo
    <3>3. QED  BY <3>2 DEF a
  <2>9. QED  BY <2>7, <2>8
<1>2. QED  BY <1>1, RestHolds, SeenInvariant, PTL
=============================================================================
