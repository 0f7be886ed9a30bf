--------------------------- MODULE IpcServerProofs ---------------------------
(***************************************************************************)
(* Theorems about the sessions of the IPC server, for every number of      *)
(* clients, whatever they do, every capacity and every bound.              *)
(***************************************************************************)
EXTENDS IpcServer, AlertPipelineProofs

Message ==
  [kind: {"hello", "pong", "error"}]
    \cup [kind: {"alert"}, alert: Alert]
    \cup [kind: {"recent"}, alerts: Seq(Alert)]
    \cup [kind: {"stats"},
          stats: [total: Nat, by_severity: [Severities -> Nat],
                  by_category: [Categories -> Nat], hourly: Seq(HourBucket)]]

Connection ==
  [link: {"none", "pending", "open", "hup", "closed"},
   asked: Seq(Request), served: Nat, sent: Seq(Message), taken: Nat,
   subscribed: BOOLEAN, base: Nat, cursor: Nat, missed: Nat]

\* The types of a session's state; nothing is sent before a connection is accepted.
IpcTypeOK ==
  /\ listener \in {"none", "open", "failed"}
  /\ conn \in [Clients -> Connection]
  /\ \A c \in Clients : conn[c].link \in {"none", "pending"} =>
       conn[c].sent = <<>> /\ conn[c].missed = 0

-----------------------------------------------------------------------------
(* The pipeline below the server *)

\* A step of the daemon and its clients is one of the pipeline or leaves it alone.
LEMMA PipeStep == [ServerNext]_vars => [PipeNext]_pipeVars
BY DEF ServerNext, DaemonNext, IpcWork, Session, Listen, AcceptFails, Accept,
       HandleRequest, Relay, EndSession, ClientStep, Connect, Ask, Take, Close,
       PipeNext, vars

\* What is proved of the pipeline holds with the server beside it.
LEMMA ServerRunsPipe == ServerSpec => PipeSpec
<1>1. PipeInit /\ IpcInit => PipeInit
  OBVIOUS
<1>2. QED  BY <1>1, PipeStep, PTL DEF ServerSpec, PipeSpec

-----------------------------------------------------------------------------
(* Types *)

\* The messages by kind.
LEMMA MessageKinds ==
  /\ [kind |-> "hello"] \in Message /\ [kind |-> "pong"] \in Message
  /\ [kind |-> "error"] \in Message
  /\ \A a \in Alert : [kind |-> "alert", alert |-> a] \in Message
  /\ \A s \in Seq(Alert) : [kind |-> "recent", alerts |-> s] \in Message
  /\ \A st \in StateType : [kind |-> "stats", stats |-> StatsSnapshot(st)] \in Message
BY DEF Message, StateType, StatsSnapshot

\* A line is answered with nothing or with one message: one that tells nothing, the
\* statistics, or the newest alerts up to a limit.
LEMMA AnswerIs ==
  ASSUME TypeOK, NEW req \in Request
  PROVE  \/ Answer(req) = <<>>
         \/ \E m \in Message : Answer(req) = <<m>> /\
              \/ m = [kind |-> "pong"] \/ m = [kind |-> "error"]
              \/ m = [kind |-> "stats", stats |-> StatsSnapshot(state)]
              \/ \E limit \in Limits :
                   m = [kind |-> "recent", alerts |-> LastN(state.recent, Capped(limit))]
<1>1. CASE req.kind = "get_recent"
  <2>1. req.limit \in Limits /\ Capped(req.limit) \in Nat
    BY <1>1, IpcAssumption DEF Request, Capped
  <2>2. LastN(state.recent, Capped(req.limit)) \in Seq(Alert)
    BY <2>1, LastNType DEF TypeOK, StateType
  <2>3. Answer(req) = <<[kind |-> "recent", alerts |-> LastN(state.recent, Capped(req.limit))]>>
    BY <1>1 DEF Answer, RecentAlerts
  <2>4. QED  BY <2>1, <2>2, <2>3, MessageKinds
<1>2. CASE req.kind = "get_stats"
  <2>1. Answer(req) = <<[kind |-> "stats", stats |-> StatsSnapshot(state)]>>
    BY <1>2 DEF Answer
  <2>2. QED  BY <2>1, MessageKinds DEF TypeOK
<1>3. CASE req.kind = "ping"
  <2>1. Answer(req) = <<[kind |-> "pong"]>>
    BY <1>3 DEF Answer
  <2>2. QED  BY <2>1, MessageKinds
<1>4. CASE req.kind \in {"invalid", "too_long"}
  <2>1. Answer(req) = <<[kind |-> "error"]>>
    BY <1>4 DEF Answer
  <2>2. QED  BY <2>1, MessageKinds
<1>5. CASE req.kind \notin {"get_recent", "get_stats", "ping", "invalid", "too_long"}
  BY <1>5 DEF Answer
<1>6. QED  BY <1>1, <1>2, <1>3, <1>4, <1>5

\* The answer to a line is a sequence of messages.
LEMMA AnswerType == ASSUME TypeOK, NEW req \in Request PROVE Answer(req) \in Seq(Message)
<1>1. \A m \in Message : <<m>> \in Seq(Message)
  OBVIOUS
<1>2. <<>> \in Seq(Message)
  OBVIOUS
<1>3. QED  BY <1>1, <1>2, AnswerIs

\* A connection that was never made is well formed.
LEMMA NoConnType ==
  /\ NoConn \in Connection
  /\ NoConn.link = "none" /\ NoConn.sent = <<>> /\ NoConn.missed = 0
  /\ NoConn.base = 0 /\ NoConn.cursor = 0
BY DEF NoConn, Connection

\* What becomes of a connection when messages are sent on it.
LEMMA SendsType ==
  ASSUME NEW k \in Connection, NEW msgs \in Seq(Message)
  PROVE  Sends(k, msgs) \in Connection
<1>1. k.sent \o msgs \in Seq(Message)
  BY DEF Connection
<1>2. QED  BY <1>1, NoConnType DEF Sends, Connection

-----------------------------------------------------------------------------
(* What a step does to one connection *)

\* The daemon does not stop in this step.
Works == PipeWork \/ Start \/ UNCHANGED pipeVars

\* Nothing is sent and the place in the feed is the same; a connection may be made,
\* or closed at either end.
Idles(k, k2) ==
  /\ k2.sent = k.sent /\ k2.base = k.base /\ k2.cursor = k.cursor /\ k2.missed = k.missed
  /\ \/ k2.link = k.link
     \/ k.link = "none" /\ k2.link = "pending"
     \/ k.link = "pending" /\ k2.link = "hup"
     \/ k.link = "open" /\ k2.link \in {"closed", "hup"}

\* The daemon has stopped: its end is closed and a message may be cut off.
IsHungUp(k, k2) ==
  /\ k2.link \in {"none", "hup"} /\ (k2.link = "none" => k.link = "none")
  /\ k2.base = k.base /\ k2.missed = k.missed
  /\ k2.sent = k.sent \/ k2.sent = Front(k.sent)

IsAccepted(k, k2) ==
  /\ k.link = "pending" /\ k2.link \in {"open", "closed"} /\ k2.missed = k.missed
  /\ k2.base = Len(feed) /\ k2.cursor = Len(feed)
  /\ k2.sent = k.sent \o <<[kind |-> "hello"]>>

IsAnswered(k, k2) ==
  /\ k.link \in {"open", "closed"} /\ k2.link = k.link
  /\ k2.base = k.base /\ k2.cursor = k.cursor /\ k2.missed = k.missed
  /\ \E req \in Request : k2.sent = k.sent \o Answer(req)

IsRelayed(k, k2) ==
  /\ k.link = "open" /\ k2.link = "open"
  /\ k.cursor < Len(feed) /\ k.cursor >= Len(feed) - BroadcastCapacity
  /\ k2.base = k.base /\ k2.cursor = k.cursor + 1 /\ k2.missed = k.missed
  /\ k2.sent = k.sent \o <<[kind |-> "alert", alert |-> feed[k.cursor + 1]]>>

IsLagged(k, k2) ==
  LET oldest == Len(feed) - BroadcastCapacity
  IN  /\ k2.link = k.link /\ k2.sent = k.sent /\ k2.base = k.base
      /\ k.cursor < oldest
      /\ k2.cursor = oldest /\ k2.missed = k.missed + (oldest - k.cursor)

\* All that a step may do to a connection.
Moves(k, k2) ==
  \/ Works /\ Idles(k, k2)
  \/ Halt /\ IsHungUp(k, k2)
  \/ k2 = NoConn
  \/ UNCHANGED pipeVars /\ (IsAccepted(k, k2) \/ IsAnswered(k, k2)
                             \/ IsRelayed(k, k2) \/ IsLagged(k, k2))

\* A step that changes one connection at most: for the others it is idle.
LEMMA OneMoves ==
  ASSUME IpcTypeOK, UNCHANGED pipeVars, NEW c \in Clients, NEW k2,
         conn' = [conn EXCEPT ![c] = k2], k2 \in Connection, Moves(conn[c], k2),
         k2.link \in {"none", "pending"} => k2.sent = <<>> /\ k2.missed = 0,
         listener' \in {"none", "open", "failed"}
  PROVE  IpcTypeOK' /\ \A d \in Clients : Moves(conn[d], conn'[d])
<1>1. /\ conn'[c] = k2 /\ \A d \in Clients \ {c} : conn'[d] = conn[d]
      /\ conn' \in [Clients -> Connection]
  BY DEF IpcTypeOK
<1>2. \A d \in Clients \ {c} : Moves(conn[d], conn'[d])
  BY <1>1 DEF Moves, Works, Idles
<1>3. QED  BY <1>1, <1>2 DEF IpcTypeOK

\* Every step of the daemon with its clients, connection by connection.
LEMMA ConnSteps ==
  ASSUME TypeOK, IpcTypeOK, [ServerNext]_vars
  PROVE  IpcTypeOK' /\ \A c \in Clients : Moves(conn[c], conn'[c])
<1>1. CASE UNCHANGED ipcVars /\ Works
  BY <1>1 DEF ipcVars, IpcTypeOK, Moves, Idles
<1>2. CASE Halt /\ HangUp
  <2>1. ASSUME NEW c \in Clients
        PROVE  /\ conn'[c] \in Connection /\ Moves(conn[c], conn'[c])
               /\ conn'[c].link \in {"none", "pending"} =>
                    conn'[c].sent = <<>> /\ conn'[c].missed = 0
    <3>1. conn[c] \in Connection /\ conn'[c] =
            CASE conn[c].link \in {"pending", "open"} ->
                   [conn[c] EXCEPT !.link = "hup",
                     !.sent = IF Busy(conn[c]) THEN Front(@) ELSE @]
              [] conn[c].link = "closed" -> NoConn
              [] OTHER -> conn[c]
      BY <1>2 DEF HangUp, IpcTypeOK
    <3>2. Front(conn[c].sent) \in Seq(Message)
      BY <3>1 DEF Connection, Front
    <3>3. CASE conn[c].link \in {"pending", "open"}
      <4>1. conn'[c] = [conn[c] EXCEPT !.link = "hup",
                          !.sent = IF Busy(conn[c]) THEN Front(@) ELSE @]
        BY <3>1, <3>3
      <4>2. conn'[c] \in Connection
        BY <3>1, <3>2, <4>1 DEF Connection
      <4>3. IsHungUp(conn[c], conn'[c]) /\ conn'[c].link = "hup"
        BY <3>1, <4>1 DEF IsHungUp, Connection
      <4>4. QED  BY <1>2, <4>2, <4>3 DEF Moves
    <3>4. CASE conn[c].link = "closed"
      BY <3>1, <3>4, NoConnType DEF Moves
    <3>5. CASE conn[c].link \in {"none", "hup"}
      <4>1. conn'[c] = conn[c]
        BY <3>1, <3>5
      <4>2. QED  BY <1>2, <3>1, <3>5, <4>1 DEF Moves, IsHungUp, IpcTypeOK
    <3>6. QED  BY <3>1, <3>3, <3>4, <3>5 DEF Connection
  <2>2. listener' \in {"none", "open", "failed"} /\ conn' \in [Clients -> Connection]
    BY <1>2, <2>1 DEF HangUp
  <2>3. QED  BY <2>1, <2>2 DEF IpcTypeOK
<1>3. CASE Listen
  BY <1>3 DEF Listen, IpcTypeOK, Moves, Idles, Works
<1>4. CASE AcceptFails
  <2>1. ASSUME NEW c \in Clients
        PROVE  /\ conn'[c] \in Connection /\ Moves(conn[c], conn'[c])
               /\ conn'[c].link \in {"none", "pending"} =>
                    conn'[c].sent = <<>> /\ conn'[c].missed = 0
    <3>1. conn[c] \in Connection /\ UNCHANGED pipeVars /\ conn'[c] =
            IF conn[c].link = "pending" THEN [conn[c] EXCEPT !.link = "hup"] ELSE conn[c]
      BY <1>4 DEF AcceptFails, ListenerGone, IpcTypeOK
    <3>2. QED  BY <3>1 DEF Moves, Works, Idles, Connection, IpcTypeOK
  <2>2. listener' \in {"none", "open", "failed"} /\ conn' \in [Clients -> Connection]
    BY <1>4, <2>1 DEF AcceptFails, ListenerGone
  <2>3. QED  BY <2>1, <2>2 DEF IpcTypeOK
<1> HIDE DEF Moves
<1>5. ASSUME NEW c \in Clients, Accept(c)
      PROVE  IpcTypeOK' /\ \A d \in Clients : Moves(conn[d], conn'[d])
  <2> DEFINE k == conn[c]
             k2 == [k EXCEPT !.link = "open", !.base = Len(feed), !.cursor = Len(feed),
                             !.sent = @ \o <<[kind |-> "hello"]>>]
  <2>1. k \in Connection /\ k.link = "pending" /\ UNCHANGED <<listener, pipeVars>>
    BY <1>5 DEF Accept, IpcTypeOK
  <2>2. conn' = [conn EXCEPT ![c] = k2]
    BY <1>5, <2>1 DEF Accept, Sends, Connection
  <2>3. k2 \in Connection
    <3>1. k.sent \o <<[kind |-> "hello"]>> \in Seq(Message) /\ Len(feed) \in Nat
      BY <2>1, MessageKinds DEF Connection, TypeOK
    <3>2. QED  BY <2>1, <3>1 DEF Connection
  <2>4. IsAccepted(k, k2) /\ k2.link = "open"
    BY <2>1 DEF IsAccepted, Connection
  <2> HIDE DEF k2
  <2>5. Moves(k, k2)
    BY <2>1, <2>4 DEF Moves
  <2>6. QED  BY <2>1, <2>2, <2>3, <2>4, <2>5, OneMoves DEF IpcTypeOK
<1>6. ASSUME NEW c \in Clients, HandleRequest(c)
      PROVE  IpcTypeOK' /\ \A d \in Clients : Moves(conn[d], conn'[d])
  <2> DEFINE k == conn[c]
             req == k.asked[k.served + 1]
             read == [k EXCEPT !.served = @ + 1,
                               !.subscribed = @ \/ req.kind = "subscribe"]
             k2 == IF req.kind # "not_utf8" THEN Sends(read, Answer(req))
                   ELSE IF k.link = "open" THEN [read EXCEPT !.link = "hup"] ELSE NoConn
  <2>1. /\ k \in Connection /\ k.link \in {"open", "closed"} /\ req \in Request
        /\ UNCHANGED <<listener, pipeVars>> /\ conn' = [conn EXCEPT ![c] = k2]
    BY <1>6 DEF HandleRequest, Selecting, IpcTypeOK, Connection
  <2>2. /\ read \in Connection /\ read.link = k.link /\ read.sent = k.sent
        /\ read.base = k.base /\ read.cursor = k.cursor /\ read.missed = k.missed
    <3>1. (k.subscribed \/ req.kind = "subscribe") \in BOOLEAN /\ k.served + 1 \in Nat
      BY <2>1 DEF Connection
    <3>2. QED  BY <2>1, <3>1 DEF Connection
  <2>3. Answer(req) \in Seq(Message)
    BY <2>1, AnswerType
  <2> HIDE DEF read, req
  <2>4. k2 \in Connection /\ Moves(k, k2) /\ (k2.link \in {"none", "pending"} => k2 = NoConn)
    <3>1. CASE req.kind # "not_utf8" /\ ~(k.link = "closed" /\ Answer(req) # <<>>)
      <4>1. k2 = [read EXCEPT !.sent = @ \o Answer(req)]
        BY <2>2, <3>1 DEF Sends
      <4>2. k2 \in Connection
        BY <2>2, <2>3, <3>1, SendsType
      <4>3. IsAnswered(k, k2)
        BY <2>1, <2>2, <4>1 DEF IsAnswered, Connection
      <4>4. QED  BY <2>1, <4>2, <4>3 DEF Moves, IsAnswered
    <3>2. CASE req.kind = "not_utf8" /\ k.link = "open"
      <4>1. k2 = [read EXCEPT !.link = "hup"]
        BY <3>2
      <4>2. k2 \in Connection /\ Idles(k, k2) /\ k2.link = "hup"
        BY <2>1, <2>2, <3>2, <4>1 DEF Connection, Idles
      <4>3. QED  BY <2>1, <4>2 DEF Moves, Works
    <3>3. CASE (req.kind = "not_utf8" /\ k.link # "open")
                 \/ (req.kind # "not_utf8" /\ k.link = "closed" /\ Answer(req) # <<>>)
      <4>1. k2 = NoConn
        BY <2>2, <3>3 DEF Sends
      <4>2. QED  BY <4>1, NoConnType DEF Moves
    <3>4. QED  BY <2>1, <3>1, <3>2, <3>3
  <2> HIDE DEF k2
  <2>5. QED  BY <2>1, <2>4, OneMoves, NoConnType DEF IpcTypeOK
<1>7. ASSUME NEW c \in Clients, Relay(c)
      PROVE  IpcTypeOK' /\ \A d \in Clients : Moves(conn[d], conn'[d])
  <2> DEFINE k == conn[c]
             oldest == Len(feed) - BroadcastCapacity
             msg == [kind |-> "alert", alert |-> feed[k.cursor + 1]]
             k2 == IF k.cursor < oldest
                   THEN [k EXCEPT !.cursor = oldest, !.missed = @ + (oldest - k.cursor)]
                   ELSE Sends([k EXCEPT !.cursor = @ + 1], <<msg>>)
  <2>1. /\ k \in Connection /\ k.link \in {"open", "closed"}
        /\ UNCHANGED <<listener, pipeVars>> /\ conn' = [conn EXCEPT ![c] = k2]
        /\ k.cursor \in Nat /\ Len(feed) \in Nat /\ k.cursor < Len(feed)
        /\ BroadcastCapacity \in Nat
    <3>1. k \in Connection /\ feed \in Seq(Alert) /\ BroadcastCapacity \in Nat
      BY IpcAssumption DEF IpcTypeOK, TypeOK
    <3>2. k.cursor \in Nat /\ Len(feed) \in Nat
      BY <3>1 DEF Connection
    <3>3. /\ k.link \in {"open", "closed"} /\ k.cursor < Len(feed)
          /\ UNCHANGED <<listener, pipeVars>> /\ conn' = [conn EXCEPT ![c] = k2]
      BY <1>7 DEF Relay, Selecting
    <3>4. QED  BY <3>1, <3>2, <3>3
  <2>2. <<msg>> \in Seq(Message)
    <3>1. feed \in Seq(Alert)
      BY DEF TypeOK
    <3>2. feed[k.cursor + 1] \in Alert
      <4>1. k.cursor \in Nat /\ Len(feed) \in Nat /\ k.cursor < Len(feed)
        BY <2>1
      <4> HIDE DEF k
      <4>2. k.cursor + 1 \in 1..Len(feed)
        BY <4>1
      <4>3. QED  BY <3>1, <4>2
    <3>3. QED  BY <3>2, MessageKinds
  <2>3. k2 \in Connection /\ Moves(k, k2) /\ (k2.link \in {"none", "pending"} => k2 = NoConn)
    <3>1. CASE k.cursor < oldest
      <4>1. k2 = [k EXCEPT !.cursor = oldest, !.missed = @ + (oldest - k.cursor)]
        BY <3>1
      <4>2. k2 \in Connection
        <5>1. k.missed \in Nat
          BY <2>1 DEF Connection
        <5>2. oldest \in Nat /\ k.missed + (oldest - k.cursor) \in Nat
          BY <2>1, <3>1, <5>1
        <5>3. k \in Connection
          BY <2>1
        <5> HIDE DEF k, oldest
        <5>4. QED  BY <4>1, <5>2, <5>3 DEF Connection
      <4>3. IsLagged(k, k2)
        BY <2>1, <3>1, <4>1 DEF IsLagged, Connection
      <4>4. QED  BY <2>1, <4>2, <4>3 DEF Moves, IsLagged
    <3>2. CASE ~(k.cursor < oldest) /\ k.link = "open"
      <4> DEFINE moved == [k EXCEPT !.cursor = @ + 1]
      <4>1. /\ moved \in Connection /\ moved.cursor = k.cursor + 1 /\ moved.link = k.link
            /\ moved.sent = k.sent /\ moved.base = k.base /\ moved.missed = k.missed
        <5>1. k \in Connection
          BY <2>1
        <5> HIDE DEF k
        <5>2. QED  BY <5>1 DEF Connection
      <4> HIDE DEF msg
      <4>2. k2 = Sends(moved, <<msg>>)
        BY <3>2
      <4> HIDE DEF moved, k2
      <4>3. k2 \in Connection
        BY <2>2, <4>1, <4>2, SendsType
      <4>4. /\ k2.sent = k.sent \o <<msg>> /\ k2.link = "open" /\ k2.base = k.base
            /\ k2.cursor = k.cursor + 1 /\ k2.missed = k.missed
        BY <3>2, <4>1, <4>2 DEF Sends, Connection
      <4>5. IsRelayed(k, k2)
        BY <2>1, <3>2, <4>4 DEF IsRelayed, msg
      <4>6. QED  BY <2>1, <4>3, <4>4, <4>5 DEF Moves
    <3>3. CASE ~(k.cursor < oldest) /\ k.link = "closed"
      <4>1. k2 = NoConn
        BY <2>1, <3>3 DEF Sends, Connection
      <4>2. QED  BY <4>1, NoConnType DEF Moves
    <3>4. QED  BY <2>1, <3>1, <3>2, <3>3
  <2> HIDE DEF k2
  <2>4. QED  BY <2>1, <2>3, OneMoves, NoConnType DEF IpcTypeOK
<1>8. ASSUME NEW c \in Clients, EndSession(c)
      PROVE  IpcTypeOK' /\ \A d \in Clients : Moves(conn[d], conn'[d])
  <2>1. UNCHANGED <<listener, pipeVars>> /\ conn' = [conn EXCEPT ![c] = NoConn]
    BY <1>8 DEF EndSession
  <2>2. QED  BY <2>1, OneMoves, NoConnType DEF Moves, IpcTypeOK
<1>9. ASSUME NEW c \in Clients, ClientStep(c)
      PROVE  IpcTypeOK' /\ \A d \in Clients : Moves(conn[d], conn'[d])
  <2>1. conn[c] \in Connection /\ UNCHANGED <<listener, pipeVars>>
    BY <1>9 DEF ClientStep, Connect, Ask, Take, Close, IpcTypeOK
  <2>2. PICK k2 : conn' = [conn EXCEPT ![c] = k2] /\
          \/ conn[c].link = "none" /\ k2 = [conn[c] EXCEPT !.link = "pending"]
          \/ \E req \in Request : k2 = [conn[c] EXCEPT !.asked = Append(@, req)]
          \/ k2 = [conn[c] EXCEPT !.taken = @ + 1]
          \/ conn[c].link = "open" /\ k2 = [conn[c] EXCEPT !.link = "closed"]
          \/ k2 = NoConn
    BY <1>9 DEF ClientStep, Connect, Ask, Take, Close
  <2>3. k2 = NoConn \/ (k2 \in Connection /\ Idles(conn[c], k2))
    <3> DEFINE k == conn[c]
    <3> SUFFICES k2 = NoConn \/ (k2 \in Connection /\ Idles(k, k2))
      OBVIOUS
    <3>1. k \in Connection /\ \A req \in Request : Append(k.asked, req) \in Seq(Request)
      BY <2>1 DEF Connection
    <3>2. \/ k.link = "none" /\ k2 = [k EXCEPT !.link = "pending"]
          \/ \E req \in Request : k2 = [k EXCEPT !.asked = Append(@, req)]
          \/ k2 = [k EXCEPT !.taken = @ + 1]
          \/ k.link = "open" /\ k2 = [k EXCEPT !.link = "closed"]
          \/ k2 = NoConn
      BY <2>2
    <3> HIDE DEF k
    <3>3. CASE k.link = "none" /\ k2 = [k EXCEPT !.link = "pending"]
      BY <3>1, <3>3 DEF Connection, Idles
    <3>4. ASSUME NEW req \in Request, k2 = [k EXCEPT !.asked = Append(@, req)]
          PROVE  k2 \in Connection /\ Idles(k, k2)
      BY <3>1, <3>4 DEF Connection, Idles
    <3>5. CASE k2 = [k EXCEPT !.taken = @ + 1]
      <4>1. k \in Connection /\ k.taken + 1 \in Nat
        BY <3>1 DEF Connection
      <4>2. k2 \in Connection
        BY <4>1, <3>5 DEF Connection
      <4>3. Idles(k, k2)
        BY <4>1, <3>5 DEF Connection, Idles
      <4>4. QED  BY <4>2, <4>3
    <3>6. CASE k.link = "open" /\ k2 = [k EXCEPT !.link = "closed"]
      BY <3>1, <3>6 DEF Connection, Idles
    <3>7. QED  BY <3>2, <3>3, <3>4, <3>5, <3>6
  <2>4. /\ k2 \in Connection /\ Moves(conn[c], k2)
        /\ k2.link \in {"none", "pending"} => k2.sent = <<>> /\ k2.missed = 0
    <3>1. CASE k2 = NoConn
      BY <3>1, NoConnType DEF Moves
    <3>2. CASE k2 \in Connection /\ Idles(conn[c], k2)
      BY <2>1, <3>2 DEF Moves, Works, Idles, IpcTypeOK
    <3>3. QED  BY <2>3, <3>1, <3>2
  <2>5. QED  BY <2>1, <2>2, <2>4, OneMoves DEF IpcTypeOK
<1>10. QED
  BY <1>1, <1>2, <1>3, <1>4, <1>5, <1>6, <1>7, <1>8, <1>9
     DEF ServerNext, DaemonNext, IpcWork, Session, Works, vars, ipcVars

\* The state of the sessions keeps its type, whatever clients do and wherever the
\* daemon stops.
THEOREM IpcTypeCorrect == ServerSpec => []IpcTypeOK
<1>1. IpcInit => IpcTypeOK
  BY NoConnType DEF IpcInit, IpcTypeOK
<1>2. TypeOK /\ IpcTypeOK /\ [ServerNext]_vars => IpcTypeOK'
  BY ConnSteps
<1>3. QED  BY <1>1, <1>2, ServerRunsPipe, TypeCorrect, PTL DEF ServerSpec

-----------------------------------------------------------------------------
(* What the pipeline gives to the sessions *)

\* The recorded alerts bear their ranks; the feed is all of them but perhaps one.
LEMMA RecordedRanks ==
  ASSUME TypeOK, FeedNumbered
  PROVE  /\ Recorded \in Seq(Alert) /\ Len(feed) \in Nat
         /\ Len(feed) <= Len(Recorded) /\ Len(Recorded) \in Nat
         /\ \A k \in 1..Len(Recorded) : Recorded[k].id = k
<1>1. feed \in Seq(Alert) /\ \A k \in 1..Len(feed) : feed[k].id = k
  BY DEF TypeOK, FeedNumbered
<1>2. CASE step = "send"
  <2>1. hand \in Alert /\ hand.id = Len(feed) + 1 /\ Recorded = Append(feed, hand)
    BY <1>2 DEF TypeOK, FeedNumbered, Recorded
  <2>2. QED  BY <1>1, <2>1
<1>3. CASE step # "send"
  BY <1>1, <1>3 DEF Recorded
<1>4. QED  BY <1>2, <1>3

\* While the daemon does not stop, what was fed and recorded stays.
LEMMA WorksGrow ==
  ASSUME TypeOK, FeedNumbered, Works
  PROVE  /\ Len(feed) <= Len(feed') /\ Len(feed') \in Nat
         /\ \A i \in 1..Len(feed) : feed'[i] = feed[i]
         /\ Len(Recorded) <= Len(Recorded') /\ Len(Recorded') \in Nat
<1>1. feed \in Seq(Alert) /\ (hand # NoAlert => hand \in Alert)
  BY DEF TypeOK
<1>2. CASE UNCHANGED <<feed, Recorded>>
  BY <1>1, <1>2, RecordedRanks
<1>3. CASE Record
  <2>1. hand \in Alert /\ Recorded = feed /\ Recorded' = Append(feed, hand) /\ feed' = feed
    BY <1>3 DEF Record, Recorded, TypeOK
  <2>2. QED  BY <1>1, <2>1
<1>4. CASE Broadcast
  <2>1. hand \in Alert /\ Recorded = Append(feed, hand) /\ feed' = Append(feed, hand)
        /\ Recorded' = feed'
    BY <1>4 DEF Broadcast, Recorded, TypeOK
  <2>2. QED  BY <1>1, <2>1
<1>5. QED
  BY <1>2, <1>3, <1>4
     DEF Works, PipeWork, Dispatch, Tick, Raise, Enqueue, Receive, WriteObject,
         WriteNewline, WriteFails, Start, Recorded, pipeVars, daemonVars

\* The newest alerts of the ring are the newest that were recorded, up to the last.
LEMMA RecentRanks ==
  ASSUME TypeOK, FeedNumbered, StateMatchesRecorded, NEW limit \in Nat
  PROVE  LET s == LastN(state.recent, limit)
         IN  /\ s \in Seq(Alert) /\ Len(s) \in Nat
             /\ \A j \in 1..Len(s) : s[j].id = Len(Recorded) - Len(s) + j
             /\ s = <<>> => limit = 0 \/ Len(Recorded) = 0
<1> DEFINE r == state.recent
           s == LastN(r, limit)
           n == Len(Recorded)
<1>1. Recorded \in Seq(Alert) /\ n \in Nat /\ \A k \in 1..n : Recorded[k].id = k
  BY RecordedRanks
<1>2. r = LastN(Recorded, RecentCapacity) /\ RecentCapacity \in Nat \ {0}
  BY CapacityPositive DEF StateMatchesRecorded
<1>3. r \in Seq(Alert) /\ Len(r) \in Nat /\ Len(r) = IF n <= RecentCapacity THEN n ELSE RecentCapacity
  BY <1>1, <1>2, LastNType
<1>4. ASSUME NEW k \in 1..Len(r) PROVE r[k].id = n - Len(r) + k
  <2> HIDE DEF r
  <2>1. CASE n <= RecentCapacity
    BY <1>1, <1>2, <1>3, <2>1 DEF LastN
  <2>2. CASE n > RecentCapacity
    <3>1. k \in 1..RecentCapacity /\ RecentCapacity <= n
      BY <1>1, <1>2, <1>3, <2>2
    <3>2. r[k] = Recorded[n - RecentCapacity + k]
      BY <1>1, <1>2, <3>1, LastNElement
    <3> HIDE DEF n
    <3>3. n - RecentCapacity + k \in 1..n
      BY <1>1, <1>2, <3>1
    <3>4. r[k].id = n - RecentCapacity + k
      BY <1>1, <3>2, <3>3
    <3>5. Len(r) = RecentCapacity
      BY <1>1, <1>2, <1>3, <2>2
    <3>6. QED  BY <3>4, <3>5
  <2>3. QED  BY <1>1, <1>2, <2>1, <2>2
<1> HIDE DEF r, n
<1>5. s \in Seq(Alert) /\ Len(s) \in Nat /\ Len(s) = IF Len(r) <= limit THEN Len(r) ELSE limit
  BY <1>3, LastNType
<1>6. ASSUME NEW j \in 1..Len(s) PROVE s[j].id = n - Len(s) + j
  <2>1. CASE Len(r) <= limit
    BY <1>4, <1>5, <2>1 DEF LastN
  <2>2. CASE Len(r) > limit
    <3>1. j \in 1..limit /\ limit <= Len(r) /\ Len(s) = limit
      BY <1>3, <1>5, <2>2
    <3>2. s[j] = r[Len(r) - limit + j]
      BY <1>3, <3>1, LastNElement
    <3>3. Len(r) - limit + j \in 1..Len(r)
      BY <1>3, <3>1
    <3>4. s[j].id = n - Len(r) + (Len(r) - limit + j)
      BY <1>4, <3>2, <3>3
    <3>5. QED  BY <1>1, <1>3, <3>1, <3>4
  <2>3. QED  BY <1>3, <2>1, <2>2
<1>7. s = <<>> => limit = 0 \/ n = 0
  BY <1>1, <1>2, <1>3, <1>5
<1>8. QED  BY <1>5, <1>6, <1>7 DEF r, n

-----------------------------------------------------------------------------
(* The stream *)

Live(k) == {i \in 1..Len(k.sent) : k.sent[i].kind = "alert"}

\* What StreamAccounted says of an open connection k and the feed f.
StreamOK(k, f) ==
  /\ k.cursor <= Len(f) /\ Cardinality(Live(k)) + k.missed = k.cursor - k.base
  /\ \A i \in Live(k) :
       k.sent[i].alert.id \in k.base + 1 .. k.cursor
       /\ k.sent[i].alert = f[k.sent[i].alert.id]
  /\ \A i, j \in Live(k) : i < j => k.sent[i].alert.id < k.sent[j].alert.id
  /\ \A n \in k.base + 1 .. k.cursor :
       n > Len(f) - BroadcastCapacity => \E i \in Live(k) : k.sent[i].alert.id = n

\* StreamAccounted by StreamOK, before and after a step.
LEMMA StreamParts ==
  /\ StreamAccounted <=> \A c \in Clients : conn[c].link = "open" => StreamOK(conn[c], feed)
  /\ StreamAccounted' <=>
       \A c \in Clients : conn'[c].link = "open" => StreamOK(conn'[c], feed')
<1>1. StreamAccounted <=> \A c \in Clients : conn[c].link = "open" => StreamOK(conn[c], feed)
  BY DEF StreamAccounted, StreamOK, Live
<1>2. StreamAccounted' <=>
        \A c \in Clients : conn'[c].link = "open" => StreamOK(conn'[c], feed')
  BY DEF StreamAccounted, StreamOK, Live
<1>3. QED  BY <1>1, <1>2

\* The alerts among the messages after one more message.
LEMMA LiveAppend ==
  ASSUME NEW k \in Connection, NEW k2 \in Connection, NEW m \in Message,
         k2.sent = k.sent \o <<m>>
  PROVE  LET n == Len(k.sent) + 1
         IN  /\ Live(k2) = IF m.kind = "alert" THEN Live(k) \cup {n} ELSE Live(k)
             /\ k2.sent[n] = m /\ \A i \in Live(k) : k2.sent[i] = k.sent[i] /\ i < n /\ i \in Nat
             /\ Cardinality(Live(k)) \in Nat
             /\ Cardinality(Live(k) \cup {n}) = Cardinality(Live(k)) + 1
<1> DEFINE n == Len(k.sent) + 1
<1>1. k.sent \in Seq(Message) /\ n \in Nat
  BY DEF Connection
<1>2. /\ Len(k2.sent) = n /\ k2.sent[n] = m
      /\ \A i \in 1..Len(k.sent) : k2.sent[i] = k.sent[i]
  BY <1>1
<1>3. Live(k2) = IF m.kind = "alert" THEN Live(k) \cup {n} ELSE Live(k)
  <2>1. 1..n = (1..Len(k.sent)) \cup {n}
    BY <1>1
  <2>2. QED  BY <1>1, <1>2, <2>1 DEF Live
<1>4. \A i \in Live(k) : k2.sent[i] = k.sent[i] /\ i < n /\ i \in Nat
  BY <1>1, <1>2 DEF Live
<1>5. IsFiniteSet(Live(k))
  <2>1. IsFiniteSet(1..Len(k.sent))
    BY <1>1, FS_Interval
  <2>2. QED  BY <2>1, FS_Subset DEF Live
<1>6. Cardinality(Live(k)) \in Nat /\ Cardinality(Live(k) \cup {n}) = Cardinality(Live(k)) + 1
  <2>1. n \notin Live(k)
    BY <1>1, <1>4
  <2>2. QED  BY <1>5, <2>1, FS_AddElement, FS_CardinalityType
<1>7. QED  BY <1>2, <1>3, <1>4, <1>6

\* A session relays the feed from its beginning on, in order, each alert once, and
\* leaves out only what Lagged has told of and the channel no longer holds, in every
\* reachable state.
THEOREM StreamIsAccounted == ServerSpec => []StreamAccounted
<1>1. IpcInit => StreamAccounted
  <2>1. NoConn.link # "open"
    BY NoConnType
  <2>2. QED  BY <2>1, StreamParts DEF IpcInit
<1>2. TypeOK /\ FeedNumbered /\ IpcTypeOK /\ IpcTypeOK' /\ StreamAccounted
        /\ [ServerNext]_vars => StreamAccounted'
  <2> SUFFICES ASSUME TypeOK, FeedNumbered, IpcTypeOK, IpcTypeOK', StreamAccounted,
                      [ServerNext]_vars, NEW c \in Clients, conn'[c].link = "open"
               PROVE  StreamOK(conn'[c], feed')
    BY StreamParts
  <2> DEFINE k == conn[c]
             k2 == conn'[c]
  <2>1. /\ k \in Connection /\ k2 \in Connection /\ Moves(k, k2)
        /\ k.link = "open" => StreamOK(k, feed)
        /\ k.link = "pending" => k.sent = <<>> /\ k.missed = 0
    BY ConnSteps, StreamParts DEF IpcTypeOK
  <2>2. k2.link = "open"
    OBVIOUS
  <2> HIDE DEF k, k2
  <2>3. k.base \in Nat /\ k.cursor \in Nat /\ k.missed \in Nat
    BY <2>1 DEF Connection
  <2>k. k \in Connection /\ k2 \in Connection
    BY <2>1
  <2>4. Len(feed) \in Nat /\ BroadcastCapacity \in Nat \ {0}
    BY IpcAssumption DEF TypeOK
  <2> SUFFICES StreamOK(k2, feed')
    BY DEF k, k2
  <2>5. CASE Works /\ Idles(k, k2)
    <3>1. /\ StreamOK(k, feed) /\ Live(k2) = Live(k) /\ k2.sent = k.sent
          /\ k2.base = k.base /\ k2.cursor = k.cursor /\ k2.missed = k.missed
      BY <2>1, <2>2, <2>3, <2>4, <2>5 DEF Idles, Live
    <3>2. /\ Len(feed) <= Len(feed') /\ Len(feed') \in Nat
          /\ \A i \in 1..Len(feed) : feed'[i] = feed[i]
      BY <2>5, WorksGrow
    <3>3. \A i \in k.base + 1 .. k.cursor : i \in 1..Len(feed)
      BY <2>2, <2>3, <2>4, <3>1 DEF StreamOK
    <3>4. \A i \in Live(k) : k.sent[i].alert = feed'[k.sent[i].alert.id]
      BY <3>1, <3>2, <3>3 DEF StreamOK
    <3>5. k.cursor <= Len(feed')
      BY <2>2, <2>3, <2>4, <3>1, <3>2 DEF StreamOK
    <3>6. ASSUME NEW n \in k.base + 1 .. k.cursor, n > Len(feed') - BroadcastCapacity
          PROVE  \E i \in Live(k) : k.sent[i].alert.id = n
      <4>1. n > Len(feed) - BroadcastCapacity
        BY <2>2, <2>3, <2>4, <3>2, <3>6
      <4>2. QED  BY <3>1, <4>1 DEF StreamOK
    <3>7. QED  BY <3>1, <3>4, <3>5, <3>6 DEF StreamOK
  <2>6. CASE IsHungUp(k, k2) \/ k2 = NoConn
    BY <2>2, <2>3, <2>4, <2>6, NoConnType DEF IsHungUp
  <2>7. CASE UNCHANGED pipeVars /\ IsAccepted(k, k2)
    <3>1. /\ k.sent = <<>> /\ k2.sent = k.sent \o <<[kind |-> "hello"]>> /\ feed' = feed
          /\ k2.missed = 0 /\ k2.base = Len(feed) /\ k2.cursor = Len(feed)
      BY <2>1, <2>7 DEF IsAccepted, pipeVars, daemonVars
    <3>2. Live(k) = {}
      BY <3>1 DEF Live
    <3>3. Live(k2) = {}
      <4> DEFINE m == [kind |-> "hello"]
      <4>1. m \in Message /\ m.kind # "alert" /\ k2.sent = k.sent \o <<m>>
        BY <3>1, MessageKinds
      <4> HIDE DEF m
      <4>2. Live(k2) = IF m.kind = "alert" THEN Live(k) \cup {Len(k.sent) + 1} ELSE Live(k)
        BY <2>k, <4>1, LiveAppend
      <4>3. QED  BY <3>2, <4>1, <4>2
    <3>4. Cardinality(Live(k2)) = 0
      BY <3>3, FS_EmptySet
    <3>5. k2.base + 1 .. k2.cursor = {}
      BY <2>2, <2>3, <2>4, <3>1
    <3>6. QED  BY <2>2, <2>3, <2>4, <3>1, <3>3, <3>4, <3>5 DEF StreamOK
  <2>8. CASE UNCHANGED pipeVars /\ IsAnswered(k, k2)
    <3>1. PICK req \in Request : k2.sent = k.sent \o Answer(req)
      BY <2>8 DEF IsAnswered
    <3>2. Live(k2) = Live(k) /\ \A i \in Live(k) : k2.sent[i] = k.sent[i]
      <4>1. CASE Answer(req) = <<>>
        <5>1. k2.sent = k.sent
          BY <2>1, <3>1, <4>1 DEF Connection
        <5>2. QED  BY <5>1 DEF Live
      <4>2. CASE Answer(req) # <<>>
        <5>1. PICK m \in Message : Answer(req) = <<m>> /\ m.kind # "alert"
          BY <4>2, AnswerIs
        <5>2. k2.sent = k.sent \o <<m>>
          BY <3>1, <5>1
        <5>3. Live(k2) = Live(k)
          BY <2>k, <5>1, <5>2, LiveAppend
        <5>4. \A i \in Live(k) : k2.sent[i] = k.sent[i]
          BY <2>k, <5>1, <5>2, LiveAppend
        <5>5. QED  BY <5>3, <5>4
      <4>3. QED  BY <4>1, <4>2
    <3>3. /\ StreamOK(k, feed) /\ feed' = feed
          /\ k2.base = k.base /\ k2.cursor = k.cursor /\ k2.missed = k.missed
      BY <2>1, <2>2, <2>3, <2>4, <2>8 DEF IsAnswered, pipeVars, daemonVars
    <3>4. QED  BY <3>2, <3>3 DEF StreamOK
  <2>9. CASE UNCHANGED pipeVars /\ IsRelayed(k, k2)
    <3> DEFINE a == feed[k.cursor + 1]
               m == [kind |-> "alert", alert |-> a]
               n == Len(k.sent) + 1
    <3>1. /\ StreamOK(k, feed) /\ feed' = feed /\ k.cursor < Len(feed)
          /\ k2.base = k.base /\ k2.cursor = k.cursor + 1 /\ k2.missed = k.missed
          /\ k2.sent = k.sent \o <<m>>
      BY <2>1, <2>2, <2>3, <2>4, <2>9 DEF IsRelayed, pipeVars, daemonVars
    <3>2. a \in Alert /\ a.id = k.cursor + 1 /\ m \in Message
      <4>1. k.cursor \in Nat /\ feed \in Seq(Alert)
        BY <2>1 DEF Connection, TypeOK
      <4>2. k.cursor + 1 \in 1..Len(feed)
        BY <3>1, <4>1
      <4>3. a \in Alert
        BY <4>1, <4>2
      <4>4. a.id = k.cursor + 1
        BY <4>2 DEF FeedNumbered
      <4>5. QED  BY <4>3, <4>4, MessageKinds
    <3>3. m.kind = "alert" /\ m.alert = a
      OBVIOUS
    <3> HIDE DEF m
    <3>4. /\ Live(k2) = Live(k) \cup {n} /\ k2.sent[n] = m
          /\ \A i \in Live(k) : k2.sent[i] = k.sent[i] /\ i < n /\ i \in Nat
          /\ Cardinality(Live(k)) \in Nat
          /\ Cardinality(Live(k2)) = Cardinality(Live(k)) + 1
      BY <2>k, <3>1, <3>2, <3>3, LiveAppend
    <3>5. n \in Nat
      BY <2>1 DEF Connection
    <3> HIDE DEF n
    <3>6. k2.cursor <= Len(feed') /\ Cardinality(Live(k2)) + k2.missed = k2.cursor - k2.base
          /\ k.base <= k.cursor
      <4> DEFINE live == Cardinality(Live(k))
      <4>1. live + k.missed = k.cursor - k.base
        BY <3>1 DEF StreamOK
      <4>2. live \in Nat /\ Cardinality(Live(k2)) = live + 1
        BY <3>4
      <4> HIDE DEF live
      <4>3. k2.cursor <= Len(feed')
        BY <2>3, <2>4, <3>1
      <4>4. (live + 1) + k.missed = (k.cursor + 1) - k.base /\ k.base <= k.cursor
        BY <2>3, <4>1, <4>2
      <4>5. Cardinality(Live(k2)) + k2.missed = k2.cursor - k2.base
        BY <3>1, <4>2, <4>4
      <4>6. QED  BY <4>3, <4>4, <4>5
    <3>7. k.base <= k.cursor
      BY <3>6
    <3>8. ASSUME NEW i \in Live(k2)
          PROVE  k2.sent[i].alert.id \in k2.base + 1 .. k2.cursor
                 /\ k2.sent[i].alert = feed'[k2.sent[i].alert.id]
      <4>1. CASE i = n
        <5>1. k2.sent[i].alert = a
          BY <3>3, <3>4, <4>1
        <5>2. k.cursor + 1 \in k2.base + 1 .. k2.cursor
          BY <2>3, <3>1, <3>7
        <5>3. a = feed'[k.cursor + 1]
          BY <3>1
        <5>4. QED  BY <3>2, <5>1, <5>2, <5>3
      <4>2. CASE i # n
        <5>1. i \in Live(k) /\ k2.sent[i] = k.sent[i]
          BY <3>4, <4>2
        <5>2. k.sent[i].alert.id \in k.base + 1 .. k.cursor
              /\ k.sent[i].alert = feed[k.sent[i].alert.id]
          BY <3>1, <5>1 DEF StreamOK
        <5>3. k.base + 1 .. k.cursor \subseteq k2.base + 1 .. k2.cursor
          BY <2>3, <3>1
        <5>4. QED  BY <3>1, <5>1, <5>2, <5>3
      <4>3. QED  BY <4>1, <4>2
    <3>9. ASSUME NEW i \in Live(k2), NEW j \in Live(k2), i < j
          PROVE  k2.sent[i].alert.id < k2.sent[j].alert.id
      <4>1. i \in Live(k) /\ k2.sent[i] = k.sent[i]
        BY <3>4, <3>5, <3>9
      <4>2. CASE j = n
        <5>1. k.sent[i].alert.id \in k.base + 1 .. k.cursor
          BY <3>1, <4>1 DEF StreamOK
        <5>2. QED  BY <2>2, <2>3, <2>4, <3>2, <3>3, <3>4, <4>1, <4>2, <5>1
      <4>3. CASE j # n
        BY <3>1, <3>4, <3>9, <4>1, <4>3 DEF StreamOK
      <4>4. QED  BY <4>2, <4>3
    <3>10. ASSUME NEW p \in k2.base + 1 .. k2.cursor, p > Len(feed') - BroadcastCapacity
           PROVE  \E i \in Live(k2) : k2.sent[i].alert.id = p
      <4>1. CASE p = k.cursor + 1
        BY <3>2, <3>3, <3>4, <4>1
      <4>2. CASE p # k.cursor + 1
        <5>1. p \in k.base + 1 .. k.cursor /\ p > Len(feed) - BroadcastCapacity
          BY <2>2, <2>3, <2>4, <3>1, <3>10, <4>2
        <5>2. PICK i \in Live(k) : k.sent[i].alert.id = p
          BY <3>1, <5>1 DEF StreamOK
        <5>3. QED  BY <3>4, <5>2
      <4>3. QED  BY <4>1, <4>2
    <3>11. QED  BY <3>6, <3>8, <3>9, <3>10 DEF StreamOK
  <2>10. CASE UNCHANGED pipeVars /\ IsLagged(k, k2)
    <3> DEFINE oldest == Len(feed) - BroadcastCapacity
    <3>1. /\ StreamOK(k, feed) /\ feed' = feed /\ k.cursor < oldest /\ k2.sent = k.sent
          /\ Live(k2) = Live(k) /\ k2.base = k.base /\ k2.cursor = oldest
          /\ k2.missed = k.missed + (oldest - k.cursor)
      BY <2>1, <2>2, <2>3, <2>4, <2>10 DEF IsLagged, Live, pipeVars, daemonVars
    <3>2. Cardinality(Live(k)) \in Nat
      <4>1. IsFiniteSet(1..Len(k.sent))
        BY <2>1, FS_Interval DEF Connection
      <4>2. QED  BY <4>1, FS_Subset, FS_CardinalityType DEF Live
    <3>3. k2.cursor <= Len(feed') /\ Cardinality(Live(k2)) + k2.missed = k2.cursor - k2.base
      <4> DEFINE live == Cardinality(Live(k))
      <4>1. live + k.missed = k.cursor - k.base
        BY <3>1 DEF StreamOK
      <4>2. live \in Nat /\ Cardinality(Live(k2)) = live
        BY <3>1, <3>2
      <4> HIDE DEF live
      <4>3. k2.cursor <= Len(feed')
        BY <2>4, <3>1
      <4>4. /\ k2.missed = k.missed + (oldest - k.cursor) /\ k2.cursor = oldest
            /\ k2.base = k.base /\ oldest \in Int
        BY <2>4, <3>1
      <4> HIDE DEF oldest
      <4>5. k.missed \in Int /\ k.cursor \in Int /\ k.base \in Int
        BY <2>3
      <4>6. live + k2.missed = k2.cursor - k2.base
        BY <4>1, <4>2, <4>4, <4>5
      <4>7. QED  BY <4>2, <4>3, <4>6
    <3>4. \A i \in Live(k) : k.sent[i].alert.id \in k.base + 1 .. oldest
      <4>1. \A i \in Live(k) : k.sent[i].alert.id \in k.base + 1 .. k.cursor
        BY <3>1 DEF StreamOK
      <4>2. QED  BY <2>3, <2>4, <3>1, <4>1
    <3>5. \A n \in k.base + 1 .. oldest : ~(n > oldest)
      BY <2>2, <2>3, <2>4
    <3>6. QED  BY <3>1, <3>3, <3>4, <3>5 DEF StreamOK
  <2>11. QED  BY <2>1, <2>5, <2>6, <2>7, <2>8, <2>9, <2>10 DEF Moves
<1>3. QED
  BY <1>1, <1>2, ServerRunsPipe, TypeCorrect, Numbered, IpcTypeCorrect, PTL DEF ServerSpec
-----------------------------------------------------------------------------
(* Snapshots *)

\* No snapshot of this connection lags behind a message sent before it.
KeepsUp(k) ==
  \A i, j \in 1..Len(k.sent) :
    i < j /\ Snapshot(k.sent[j]) => Reach(k.sent[i]) <= Reach(k.sent[j])

\* No message of this connection reaches beyond n alerts.
ReachesUpTo(k, n) == \A i \in 1..Len(k.sent) : Reach(k.sent[i]) <= n

\* A message, a Recent that has consecutive alerts, joins a stream that begins after
\* base.
Joins(m, base) ==
  m.kind = "recent" =>
    /\ \A j \in 2..Len(m.alerts) : m.alerts[j].id = m.alerts[j-1].id + 1
    /\ m.alerts # <<>> => Last(m.alerts).id >= base
    /\ m.alerts = <<>> => base = 0 \/ MaxLimit = 0 \/ 0 \in Limits

\* What was told of, while the daemon serves the session, has been recorded, and a
\* stream begins within the feed.
SnapshotInv ==
  \A c \in Clients :
    /\ KeepsUp(conn[c])
    /\ \A i \in 1..Len(conn[c].sent) : Joins(conn[c].sent[i], conn[c].base)
    /\ conn[c].link \in {"open", "closed"} =>
         ReachesUpTo(conn[c], Len(Recorded)) /\ conn[c].base <= Len(feed)

\* A message reaches to a number of alerts.
LEMMA ReachType == ASSUME NEW m \in Message PROVE Reach(m) \in Nat
<1>1. CASE m.kind = "alert"
  BY <1>1 DEF Message, Reach, Alert
<1>2. CASE m.kind = "stats"
  BY <1>2 DEF Message, Reach
<1>3. CASE m.kind = "recent" /\ m.alerts # <<>>
  <2>1. m.alerts \in Seq(Alert)
    BY <1>3 DEF Message
  <2>2. Last(m.alerts) \in Alert
    BY <1>3, <2>1 DEF Last
  <2>3. Reach(m) = Last(m.alerts).id
    BY <1>3 DEF Reach
  <2>4. QED  BY <2>2, <2>3 DEF Alert
<1>4. CASE m.kind \notin {"alert", "stats"} /\ ~(m.kind = "recent" /\ m.alerts # <<>>)
  BY <1>4 DEF Reach
<1>5. QED  BY <1>1, <1>2, <1>3, <1>4

\* A reply out of the state is a snapshot of all that is recorded; the others tell
\* nothing.
LEMMA AnswerReaches ==
  ASSUME TypeOK, FeedNumbered, StateMatchesRecorded, NEW base \in Nat, base <= Len(feed),
         NEW req \in Request
  PROVE  \/ Answer(req) = <<>>
         \/ \E m \in Message :
              /\ Answer(req) = <<m>> /\ Joins(m, base) /\ Reach(m) <= Len(Recorded)
              /\ Snapshot(m) => Reach(m) = Len(Recorded)
<1> DEFINE n == Len(Recorded)
<1>1. n \in Nat /\ Len(feed) \in Nat /\ Len(feed) <= n
  BY RecordedRanks
<1> HIDE DEF n
<1> SUFFICES ASSUME NEW m \in Message, Answer(req) = <<m>>,
                    \/ m = [kind |-> "pong"] \/ m = [kind |-> "error"]
                    \/ m = [kind |-> "stats", stats |-> StatsSnapshot(state)]
                    \/ \E limit \in Limits :
                         m = [kind |-> "recent", alerts |-> LastN(state.recent, Capped(limit))]
             PROVE  Joins(m, base) /\ Reach(m) <= n /\ (Snapshot(m) => Reach(m) = n)
  BY AnswerIs DEF n
<1>2. CASE m = [kind |-> "pong"] \/ m = [kind |-> "error"]
  BY <1>1, <1>2 DEF Joins, Reach, Snapshot
<1>3. CASE m = [kind |-> "stats", stats |-> StatsSnapshot(state)]
  <2>1. m.kind = "stats" /\ m.stats.total = n
    BY <1>3 DEF StatsSnapshot, StateMatchesRecorded, n
  <2>2. QED  BY <1>1, <2>1 DEF Joins, Reach
<1>4. ASSUME NEW limit \in Limits,
             m = [kind |-> "recent", alerts |-> LastN(state.recent, Capped(limit))]
      PROVE  Joins(m, base) /\ Reach(m) <= n /\ (Snapshot(m) => Reach(m) = n)
  <2> DEFINE s == m.alerts
  <2>1. limit \in Nat /\ Capped(limit) \in Nat
        /\ (Capped(limit) = 0 => MaxLimit = 0 \/ 0 \in Limits)
    BY IpcAssumption DEF Capped
  <2>2. m.kind = "recent" /\ s = LastN(state.recent, Capped(limit))
    BY <1>4
  <2>3. /\ s \in Seq(Alert) /\ Len(s) \in Nat
        /\ \A j \in 1..Len(s) : s[j].id = n - Len(s) + j
        /\ s = <<>> => Capped(limit) = 0 \/ n = 0
    BY <2>1, <2>2, RecentRanks DEF n
  <2>4. CASE s = <<>>
    <3>1. 2..Len(s) = {}
      BY <2>4
    <3>2. n = 0 => base = 0
      BY <1>1
    <3>3. QED  BY <1>1, <2>1, <2>2, <2>3, <2>4, <3>1, <3>2 DEF Joins, Reach, Snapshot
  <2>5. CASE s # <<>>
    <3>1. Len(s) \in 1..Len(s) /\ Last(s) = s[Len(s)]
      BY <2>3, <2>5 DEF Last
    <3>2. Last(s).id = n
      <4>1. s[Len(s)].id = n - Len(s) + Len(s)
        BY <2>3, <3>1
      <4>2. QED  BY <1>1, <2>3, <3>1, <4>1
    <3>3. ASSUME NEW j \in 2..Len(s) PROVE s[j].id = s[j-1].id + 1
      <4>1. j \in 1..Len(s) /\ j - 1 \in 1..Len(s)
        BY <2>3
      <4>2. s[j].id = n - Len(s) + j /\ s[j-1].id = n - Len(s) + (j - 1)
        BY <2>3, <4>1
      <4>3. QED  BY <1>1, <2>3, <4>2
    <3>4. Last(s).id >= base
      BY <1>1, <3>2
    <3>5. Joins(m, base)
      BY <2>2, <2>5, <3>3, <3>4 DEF Joins
    <3>6. QED  BY <1>1, <2>2, <2>5, <3>2, <3>5 DEF Reach
  <2>6. QED  BY <2>4, <2>5
<1>5. QED  BY <1>2, <1>3, <1>4

\* One more message, which reaches no further than n, and to n when it is a snapshot.
LEMMA KeepsUpAppend ==
  ASSUME NEW k \in Connection, NEW k2 \in Connection, NEW m \in Message, NEW n, NEW base,
         k2.sent = k.sent \o <<m>>, KeepsUp(k), ReachesUpTo(k, n),
         \A i \in 1..Len(k.sent) : Joins(k.sent[i], base),
         Joins(m, base), Reach(m) <= n, Snapshot(m) => Reach(m) = n
  PROVE  /\ KeepsUp(k2) /\ ReachesUpTo(k2, n)
         /\ \A i \in 1..Len(k2.sent) : Joins(k2.sent[i], base)
<1> DEFINE l == Len(k.sent)
<1>1. k.sent \in Seq(Message) /\ l \in Nat
  BY DEF Connection
<1>2. /\ Len(k2.sent) = l + 1 /\ k2.sent[l + 1] = m
      /\ \A i \in 1..l : k2.sent[i] = k.sent[i]
  BY <1>1
<1>3. ReachesUpTo(k2, n) /\ \A i \in 1..Len(k2.sent) : Joins(k2.sent[i], base)
  <2>1. \A i \in 1..(l + 1) : i \in 1..l \/ i = l + 1
    BY <1>1
  <2>2. QED  BY <1>2, <2>1 DEF ReachesUpTo
<1>4. KeepsUp(k2)
  <2> SUFFICES ASSUME NEW i \in 1..(l + 1), NEW j \in 1..(l + 1), i < j, Snapshot(k2.sent[j])
               PROVE  Reach(k2.sent[i]) <= Reach(k2.sent[j])
    BY <1>2 DEF KeepsUp
  <2>1. i \in 1..l /\ (j \in 1..l \/ j = l + 1)
    BY <1>1
  <2>2. CASE j = l + 1
    BY <1>2, <2>1, <2>2 DEF ReachesUpTo
  <2>3. CASE j \in 1..l
    BY <1>2, <2>1, <2>3 DEF KeepsUp
  <2>4. QED  BY <2>1, <2>2, <2>3
<1>5. QED  BY <1>3, <1>4

\* A session that sends nothing, or loses its last message, keeps what it has.
LEMMA KeepsUpPrefix ==
  ASSUME NEW k \in Connection, NEW k2, k2.sent = k.sent \/ k2.sent = Front(k.sent),
         KeepsUp(k)
  PROVE  KeepsUp(k2) /\ \A i \in 1..Len(k2.sent) : i \in 1..Len(k.sent) /\ k2.sent[i] = k.sent[i]
<1>1. k.sent \in Seq(Message)
  BY DEF Connection
<1>2. \A i \in 1..Len(k2.sent) : i \in 1..Len(k.sent) /\ k2.sent[i] = k.sent[i]
  <2>1. CASE k2.sent = Front(k.sent) /\ k.sent # <<>>
    BY <1>1, <2>1 DEF Front
  <2>2. CASE k2.sent = Front(k.sent) /\ k.sent = <<>>
    BY <1>1, <2>2 DEF Front
  <2>3. QED  BY <2>1, <2>2
<1>3. QED  BY <1>2 DEF KeepsUp

\* A session's snapshots never lag behind its stream and join it, in every reachable
\* state.
LEMMA SnapshotsInvariant == ServerSpec => []SnapshotInv
<1>1. IpcInit => SnapshotInv
  <2>1. NoConn.link = "none" /\ 1..Len(NoConn.sent) = {}
    BY NoConnType
  <2>2. QED  BY <2>1 DEF IpcInit, SnapshotInv, KeepsUp
<1>2. TypeOK /\ FeedNumbered /\ StateMatchesRecorded /\ IpcTypeOK /\ IpcTypeOK'
        /\ SnapshotInv /\ [ServerNext]_vars => SnapshotInv'
  <2> SUFFICES ASSUME TypeOK, FeedNumbered, StateMatchesRecorded, IpcTypeOK, IpcTypeOK',
                      SnapshotInv, [ServerNext]_vars, NEW c \in Clients
               PROVE  /\ KeepsUp(conn'[c])
                      /\ \A i \in 1..Len(conn'[c].sent) : Joins(conn'[c].sent[i], conn'[c].base)
                      /\ conn'[c].link \in {"open", "closed"} =>
                           ReachesUpTo(conn'[c], Len(Recorded'))
                           /\ conn'[c].base <= Len(feed')
    BY DEF SnapshotInv, KeepsUp, ReachesUpTo, Joins, Snapshot, Reach
  <2> DEFINE k == conn[c]
             k2 == conn'[c]
             n == Len(Recorded)
  <2>1. /\ k \in Connection /\ k2 \in Connection /\ Moves(k, k2)
        /\ KeepsUp(k) /\ \A i \in 1..Len(k.sent) : Joins(k.sent[i], k.base)
        /\ k.link \in {"open", "closed"} => ReachesUpTo(k, n) /\ k.base <= Len(feed)
        /\ k.link = "pending" => k.sent = <<>>
    BY ConnSteps DEF IpcTypeOK, SnapshotInv
  <2> HIDE DEF k, k2
  <2>2. k.base \in Nat /\ Len(feed) \in Nat /\ n \in Nat /\ Len(feed) <= n
    BY <2>1, RecordedRanks DEF Connection
  <2> SUFFICES /\ KeepsUp(k2)
               /\ \A i \in 1..Len(k2.sent) : Joins(k2.sent[i], k2.base)
               /\ k2.link \in {"open", "closed"} =>
                    ReachesUpTo(k2, Len(Recorded')) /\ k2.base <= Len(feed')
    BY DEF k2
  <2>3. UNCHANGED pipeVars => Recorded' = Recorded /\ feed' = feed
    BY DEF pipeVars, daemonVars, Recorded
  <2>4. CASE Works /\ Idles(k, k2)
    <3>1. /\ Len(feed) <= Len(feed') /\ Len(feed') \in Nat
          /\ n <= Len(Recorded') /\ Len(Recorded') \in Nat
      BY <2>4, WorksGrow
    <3>2. k2.sent = k.sent /\ k2.base = k.base
      BY <2>4 DEF Idles
    <3>3. KeepsUp(k2)
      BY <2>1, <3>2 DEF KeepsUp
    <3>4. ASSUME k2.link \in {"open", "closed"}
          PROVE  ReachesUpTo(k2, Len(Recorded')) /\ k2.base <= Len(feed')
      <4>1. ReachesUpTo(k, n) /\ k.base <= Len(feed)
        BY <2>1, <2>4, <3>4 DEF Idles
      <4>2. \A i \in 1..Len(k.sent) : Reach(k.sent[i]) \in Nat
        <5>1. k.sent \in Seq(Message)
          BY <2>1 DEF Connection
        <5>2. \A i \in 1..Len(k.sent) : k.sent[i] \in Message
          BY <5>1
        <5>3. QED  BY <5>2, ReachType
      <4> HIDE DEF n
      <4>3. \A x \in Nat : x <= n => x <= Len(Recorded')
        BY <2>2, <3>1
      <4>4. ReachesUpTo(k2, Len(Recorded'))
        BY <3>2, <4>1, <4>2, <4>3 DEF ReachesUpTo
      <4>5. k2.base <= Len(feed')
        BY <2>2, <3>1, <3>2, <4>1
      <4>6. QED  BY <4>4, <4>5
    <3>5. QED  BY <2>1, <3>2, <3>3, <3>4
  <2>5. CASE Halt /\ IsHungUp(k, k2)
    BY <2>1, <2>5, KeepsUpPrefix DEF IsHungUp
  <2>6. CASE k2 = NoConn
    <3>1. k2.link = "none" /\ 1..Len(k2.sent) = {}
      BY <2>6, NoConnType
    <3>2. QED  BY <3>1 DEF KeepsUp
  <2>7. CASE UNCHANGED pipeVars /\ IsAccepted(k, k2)
    <3> DEFINE m == [kind |-> "hello"]
    <3>1. /\ k.sent = <<>> /\ k2.sent = k.sent \o <<m>> /\ k2.base = Len(feed)
          /\ Recorded' = Recorded /\ feed' = feed
      BY <2>1, <2>3, <2>7 DEF IsAccepted
    <3>2. m \in Message /\ m.kind = "hello"
      BY MessageKinds
    <3> HIDE DEF m
    <3>3. 1..Len(k.sent) = {}
      BY <3>1
    <3>4. Joins(m, k2.base) /\ Reach(m) <= n /\ ~Snapshot(m)
      BY <2>2, <3>2 DEF Joins, Reach, Snapshot
    <3>5. ReachesUpTo(k, n) /\ \A i \in 1..Len(k.sent) : Joins(k.sent[i], k2.base)
      BY <3>3 DEF ReachesUpTo
    <3>6. /\ KeepsUp(k2) /\ ReachesUpTo(k2, n)
          /\ \A i \in 1..Len(k2.sent) : Joins(k2.sent[i], k2.base)
      BY <2>1, <3>1, <3>2, <3>4, <3>5, KeepsUpAppend
    <3>7. k2.base <= Len(feed')
      BY <2>2, <3>1
    <3>8. QED  BY <3>1, <3>6, <3>7
  <2>8. CASE UNCHANGED pipeVars /\ IsAnswered(k, k2)
    <3>1. PICK req \in Request : k2.sent = k.sent \o Answer(req)
      BY <2>8 DEF IsAnswered
    <3>2. /\ Recorded' = Recorded /\ feed' = feed /\ k2.base = k.base
          /\ ReachesUpTo(k, n) /\ k.base <= Len(feed)
      BY <2>1, <2>3, <2>8 DEF IsAnswered
    <3>3. CASE Answer(req) = <<>>
      <4>1. k2.sent = k.sent
        BY <2>1, <3>1, <3>3 DEF Connection
      <4>2. QED  BY <2>1, <3>2, <4>1 DEF KeepsUp, ReachesUpTo
    <3>4. CASE Answer(req) # <<>>
      <4>1. PICK m \in Message :
              /\ Answer(req) = <<m>> /\ Joins(m, k.base) /\ Reach(m) <= n
              /\ Snapshot(m) => Reach(m) = n
        BY <2>2, <3>2, <3>4, AnswerReaches
      <4>2. k2.sent = k.sent \o <<m>>
        BY <3>1, <4>1
      <4>3. /\ KeepsUp(k2) /\ ReachesUpTo(k2, n)
            /\ \A i \in 1..Len(k2.sent) : Joins(k2.sent[i], k.base)
        BY <2>1, <3>2, <4>1, <4>2, KeepsUpAppend
      <4>4. QED  BY <3>2, <4>3
    <3>5. QED  BY <3>3, <3>4
  <2>9. CASE UNCHANGED pipeVars /\ IsRelayed(k, k2)
    <3> DEFINE a == feed[k.cursor + 1]
               m == [kind |-> "alert", alert |-> a]
    <3>1. /\ Recorded' = Recorded /\ feed' = feed /\ k2.base = k.base
          /\ k.cursor < Len(feed) /\ k2.sent = k.sent \o <<m>>
          /\ ReachesUpTo(k, n) /\ k.base <= Len(feed)
      BY <2>1, <2>3, <2>9 DEF IsRelayed
    <3>2. k.cursor \in Nat
      BY <2>1 DEF Connection
    <3>3. a \in Alert /\ a.id = k.cursor + 1
      <4>1. k.cursor + 1 \in 1..Len(feed)
        BY <2>2, <3>1, <3>2
      <4>2. feed \in Seq(Alert)
        BY DEF TypeOK
      <4>3. a \in Alert
        BY <4>1, <4>2
      <4>4. QED  BY <4>1, <4>3 DEF FeedNumbered
    <3>4. m \in Message /\ m.kind = "alert" /\ m.alert = a
      BY <3>3, MessageKinds
    <3> HIDE DEF m, a, n
    <3>5. Joins(m, k.base) /\ Reach(m) <= n /\ ~Snapshot(m)
      <4>1. Reach(m) = k.cursor + 1
        BY <3>3, <3>4 DEF Reach
      <4>2. k.cursor + 1 <= n
        BY <2>2, <3>1, <3>2
      <4>3. QED  BY <3>4, <4>1, <4>2 DEF Joins, Snapshot
    <3>6. /\ KeepsUp(k2) /\ ReachesUpTo(k2, n)
          /\ \A i \in 1..Len(k2.sent) : Joins(k2.sent[i], k.base)
      BY <2>1, <3>1, <3>4, <3>5, KeepsUpAppend
    <3>7. QED  BY <3>1, <3>6 DEF n
  <2>10. CASE UNCHANGED pipeVars /\ IsLagged(k, k2)
    <3>1. /\ k2.sent = k.sent /\ k2.base = k.base /\ k2.link = k.link
          /\ Recorded' = Recorded /\ feed' = feed
      BY <2>3, <2>10 DEF IsLagged
    <3>2. QED  BY <2>1, <3>1 DEF KeepsUp, ReachesUpTo
  <2>11. QED  BY <2>1, <2>4, <2>5, <2>6, <2>7, <2>8, <2>9, <2>10 DEF Moves
<1>3. QED
  BY <1>1, <1>2, ServerRunsPipe, TypeCorrect, Numbered, StateAgrees, IpcTypeCorrect, PTL
     DEF ServerSpec

\* No reply out of the shared state lags behind what the session told before: what is
\* recorded before it is broadcast is in every later snapshot.
THEOREM SnapshotsAreCurrent == ServerSpec => []SnapshotsKeepUp
<1>1. SnapshotInv => SnapshotsKeepUp
  BY DEF SnapshotInv, SnapshotsKeepUp, KeepsUp
<1>2. QED  BY <1>1, SnapshotsInvariant, PTL

\* Nothing is missing between a Recent and the stream of the same session.
THEOREM SnapshotsJoin == ServerSpec => []SnapshotJoinsStream
<1>1. SnapshotInv => SnapshotJoinsStream
  BY DEF SnapshotInv, SnapshotJoinsStream, Joins
<1>2. QED  BY <1>1, SnapshotsInvariant, PTL
-----------------------------------------------------------------------------
(* The conversation *)

\* How many of the first n there are grows by one with each that counts.
LEMMA CountNext ==
  ASSUME NEW K, NEW s, NEW n \in Nat
  PROVE  /\ CountOf(K, s, n) \in Nat
         /\ CountOf(K, s, n + 1) = CountOf(K, s, n) + (IF s[n+1].kind \in K THEN 1 ELSE 0)
<1> DEFINE old == {i \in 1..n : s[i].kind \in K}
           new == {i \in 1..n+1 : s[i].kind \in K}
<1>1. IsFiniteSet(old) /\ Cardinality(old) \in Nat
  <2>1. IsFiniteSet(1..n)
    BY FS_Interval
  <2>2. QED  BY <2>1, FS_Subset, FS_CardinalityType
<1>2. n + 1 \notin old /\ 1..n+1 = (1..n) \cup {n + 1}
  OBVIOUS
<1>3. new = IF s[n+1].kind \in K THEN old \cup {n + 1} ELSE old
  BY <1>2
<1> HIDE DEF old, new
<1>4. Cardinality(new) = Cardinality(old) + (IF s[n+1].kind \in K THEN 1 ELSE 0)
  <2>1. CASE s[n+1].kind \in K
    BY <2>1, <1>1, <1>2, <1>3, FS_AddElement
  <2>2. CASE s[n+1].kind \notin K
    BY <2>2, <1>1, <1>3
  <2>3. QED  BY <2>1, <2>2
<1>5. QED  BY <1>1, <1>4 DEF CountOf, old, new

\* Among the first n there are no more than among the first n + d.
LEMMA CountMonotone ==
  ASSUME NEW K, NEW s, NEW m \in Nat, NEW n \in Nat, m <= n
  PROVE  CountOf(K, s, m) \in Nat /\ CountOf(K, s, n) \in Nat
         /\ CountOf(K, s, m) <= CountOf(K, s, n)
<1> DEFINE low == {i \in 1..m : s[i].kind \in K}
           high == {i \in 1..n : s[i].kind \in K}
<1>1. IsFiniteSet(high)
  <2>1. IsFiniteSet(1..n)
    BY FS_Interval
  <2>2. QED  BY <2>1, FS_Subset
<1>2. low \subseteq high
  OBVIOUS
<1> HIDE DEF low, high
<1>3. Cardinality(low) <= Cardinality(high)
  BY <1>1, <1>2, FS_Subset
<1>4. QED  BY <1>3, CountNext DEF CountOf, low, high

\* Only the first n are counted.
LEMMA CountSame ==
  ASSUME NEW K, NEW s, NEW t, NEW n \in Nat, \A i \in 1..n : s[i] = t[i]
  PROVE  CountOf(K, s, n) = CountOf(K, t, n)
<1>1. {i \in 1..n : s[i].kind \in K} = {i \in 1..n : t[i].kind \in K}
  OBVIOUS
<1>2. QED  BY <1>1 DEF CountOf

Replies == {"recent", "stats", "pong", "error"}
Answered == DOMAIN ReplyTo

\* The kinds of requests that are answered, and that of their answers.
LEMMA ReplyKinds ==
  /\ Answered = {"get_recent", "get_stats", "ping", "invalid", "too_long"}
  /\ ReplyTo["get_recent"] = "recent" /\ ReplyTo["get_stats"] = "stats"
  /\ ReplyTo["ping"] = "pong" /\ ReplyTo["invalid"] = "error"
  /\ ReplyTo["too_long"] = "error"
BY DEF Answered, ReplyTo

\* A request that is answered is answered with one message, of the kind it calls for;
\* any other line with none.
LEMMA AnswerKind ==
  ASSUME TypeOK, NEW req \in Request
  PROVE  /\ req.kind \in Answered =>
              \E m \in Message : /\ Answer(req) = <<m>> /\ m.kind = ReplyTo[req.kind]
                                 /\ m.kind \in Replies
         /\ req.kind \notin Answered => Answer(req) = <<>>
<1>1. \A m \in Message, m2 \in Message : <<m>> = <<m2>> => m = m2
  OBVIOUS
<1>2. ASSUME req.kind \in Answered
      PROVE  \E m : /\ Answer(req) = <<m>> /\ m.kind = ReplyTo[req.kind]
                    /\ m.kind \in Replies
  <2>1. CASE req.kind = "get_recent"
    BY <2>1, ReplyKinds DEF Answer, Replies
  <2>2. CASE req.kind = "get_stats"
    BY <2>2, ReplyKinds DEF Answer, Replies
  <2>3. CASE req.kind = "ping"
    BY <2>3, ReplyKinds DEF Answer, Replies
  <2>4. CASE req.kind \in {"invalid", "too_long"}
    BY <2>4, ReplyKinds DEF Answer, Replies
  <2>5. QED  BY <1>2, <2>1, <2>2, <2>3, <2>4, ReplyKinds
<1>3. ASSUME req.kind \notin Answered PROVE Answer(req) = <<>>
  BY <1>3, ReplyKinds DEF Answer
<1>4. ASSUME NEW m, Answer(req) = <<m>> PROVE m \in Message
  <2>1. Answer(req) \in Seq(Message)
    BY AnswerType
  <2>2. Len(Answer(req)) = 1 /\ Answer(req)[1] = m
    BY <1>4
  <2>3. 1 \in 1..Len(Answer(req))
    BY <2>2
  <2>4. Answer(req)[1] \in Message
    BY <2>1, <2>3
  <2>5. QED  BY <2>2, <2>4
<1>5. QED  BY <1>2, <1>3, <1>4

-----------------------------------------------------------------------------
(* What a step does to the conversation on a connection *)

SameTalk(k, k2) ==
  k2.asked = k.asked /\ k2.served = k.served /\ k2.subscribed = k.subscribed

\* The session does nothing: the client may write or read, and either end close.
Quiet(k, k2) ==
  /\ k2.sent = k.sent /\ k2.served = k.served /\ k2.subscribed = k.subscribed
  /\ k2.asked = k.asked \/ \E req \in Request : k2.asked = Append(k.asked, req)
  /\ k2.taken = k.taken \/ (k2.taken = k.taken + 1 /\ k.taken < Len(k.sent))
  /\ \/ k2.link = k.link
     \/ k.link = "none" /\ k2.link = "pending"
     \/ k.link \in {"pending", "open"} /\ k2.link = "hup"
     \/ k.link = "open" /\ k2.link = "closed"

\* The daemon stops; a message that was being written is cut off.
CutsOff(k, k2) ==
  /\ k2.link = "hup" /\ SameTalk(k, k2) /\ k2.taken = k.taken
  /\ \/ k2.sent = k.sent
     \/ k.taken < Len(k.sent) /\ k2.sent = Front(k.sent)

Greets(k, k2) ==
  /\ k.link = "pending" /\ k2.link = "open" /\ SameTalk(k, k2) /\ k2.taken = k.taken
  /\ k2.sent = k.sent \o <<[kind |-> "hello"]>>

Reads(k, k2) ==
  LET req == k.asked[k.served + 1]
  IN  /\ k.link \in {"open", "closed"} /\ k.served < Len(k.asked) /\ req \in Request
      /\ k2.asked = k.asked /\ k2.served = k.served + 1 /\ k2.taken = k.taken
      /\ k2.subscribed = (k.subscribed \/ req.kind = "subscribe")
      /\ \/ k2.link = k.link /\ k2.sent = k.sent \o Answer(req)
         \/ k2.link = "hup" /\ k2.sent = k.sent

Tells(k, k2) ==
  /\ k.link = "open" /\ k2.link = "open" /\ k.subscribed
  /\ SameTalk(k, k2) /\ k2.taken = k.taken
  /\ \E a \in Alert : k2.sent = k.sent \o <<[kind |-> "alert", alert |-> a]>>

Talks(k, k2) ==
  k2 = NoConn \/ Quiet(k, k2) \/ CutsOff(k, k2) \/ Greets(k, k2) \/ Reads(k, k2) \/ Tells(k, k2)

\* A step that changes one connection at most.
LEMMA OneTalks ==
  ASSUME IpcTypeOK, NEW c \in Clients, NEW k2, conn' = [conn EXCEPT ![c] = k2],
         Talks(conn[c], k2)
  PROVE  \A d \in Clients : Talks(conn[d], conn'[d])
<1>1. conn'[c] = k2 /\ \A d \in Clients \ {c} : conn'[d] = conn[d]
  BY DEF IpcTypeOK
<1>2. QED  BY <1>1 DEF Talks, Quiet

\* Every step of the daemon with its clients, conversation by conversation.
LEMMA TalkSteps ==
  ASSUME TypeOK, IpcTypeOK, [ServerNext]_vars
  PROVE  \A c \in Clients : Talks(conn[c], conn'[c])
<1>0. \A c \in Clients : conn[c] \in Connection
  BY DEF IpcTypeOK
<1>1. CASE UNCHANGED conn
  BY <1>1 DEF Talks, Quiet
<1>2. CASE Halt /\ HangUp
  <2> SUFFICES ASSUME NEW c \in Clients PROVE Talks(conn[c], conn'[c])
    OBVIOUS
  <2>1. conn'[c] =
          CASE conn[c].link \in {"pending", "open"} ->
                 [conn[c] EXCEPT !.link = "hup",
                   !.sent = IF Busy(conn[c]) THEN Front(@) ELSE @]
            [] conn[c].link = "closed" -> NoConn
            [] OTHER -> conn[c]
    BY <1>2 DEF HangUp
  <2>2. CASE conn[c].link \in {"pending", "open"}
    <3>1. conn'[c] = [conn[c] EXCEPT !.link = "hup",
                        !.sent = IF Busy(conn[c]) THEN Front(@) ELSE @]
      BY <2>1, <2>2
    <3>2. /\ conn'[c].link = "hup" /\ conn'[c].taken = conn[c].taken
          /\ SameTalk(conn[c], conn'[c])
          /\ conn'[c].sent = IF Busy(conn[c]) THEN Front(conn[c].sent) ELSE conn[c].sent
      BY <1>0, <3>1 DEF Connection, SameTalk
    <3>3. Busy(conn[c]) => conn[c].taken < Len(conn[c].sent)
      <4>1. conn[c].taken \in Nat /\ Len(conn[c].sent) \in Nat /\ SocketCapacity \in Nat
        BY <1>0, IpcAssumption DEF Connection
      <4>2. QED  BY <4>1 DEF Busy
    <3>4. QED  BY <3>2, <3>3 DEF Talks, CutsOff
  <2>3. CASE conn[c].link = "closed"
    BY <2>1, <2>3 DEF Talks
  <2>4. CASE conn[c].link \in {"none", "hup"}
    BY <2>1, <2>4 DEF Talks, Quiet
  <2>5. QED  BY <1>0, <2>2, <2>3, <2>4 DEF Connection
<1>3. CASE AcceptFails
  <2> SUFFICES ASSUME NEW c \in Clients PROVE Talks(conn[c], conn'[c])
    OBVIOUS
  <2>1. conn'[c] = IF conn[c].link = "pending" THEN [conn[c] EXCEPT !.link = "hup"] ELSE conn[c]
    BY <1>3 DEF AcceptFails, ListenerGone
  <2>2. QED  BY <1>0, <2>1 DEF Talks, Quiet, Connection
<1>4. ASSUME NEW c \in Clients, Accept(c) PROVE \A d \in Clients : Talks(conn[d], conn'[d])
  <2> DEFINE k == conn[c]
             k2 == [k EXCEPT !.link = "open", !.base = Len(feed), !.cursor = Len(feed),
                             !.sent = @ \o <<[kind |-> "hello"]>>]
  <2>1. conn' = [conn EXCEPT ![c] = k2] /\ k.link = "pending"
    BY <1>4, <1>0 DEF Accept, Sends, Connection
  <2>2. Greets(k, k2)
    BY <1>0, <2>1 DEF Greets, SameTalk, Connection
  <2> HIDE DEF k2
  <2>3. QED  BY <2>1, <2>2, OneTalks DEF Talks
<1>5. ASSUME NEW c \in Clients, HandleRequest(c)
      PROVE  \A d \in Clients : Talks(conn[d], conn'[d])
  <2> DEFINE k == conn[c]
             req == k.asked[k.served + 1]
             read == [k EXCEPT !.served = @ + 1,
                               !.subscribed = @ \/ req.kind = "subscribe"]
             k2 == IF req.kind # "not_utf8" THEN Sends(read, Answer(req))
                   ELSE IF k.link = "open" THEN [read EXCEPT !.link = "hup"] ELSE NoConn
  <2>1. /\ k.link \in {"open", "closed"} /\ k.served < Len(k.asked)
        /\ conn' = [conn EXCEPT ![c] = k2]
    BY <1>5 DEF HandleRequest, Selecting
  <2>2. req \in Request
    BY <1>0, <2>1 DEF Connection
  <2>3. /\ read.asked = k.asked /\ read.served = k.served + 1 /\ read.taken = k.taken
        /\ read.subscribed = (k.subscribed \/ req.kind = "subscribe")
        /\ read.link = k.link /\ read.sent = k.sent
    BY <1>0 DEF Connection
  <2>4. Talks(k, k2)
    <3>1. CASE req.kind # "not_utf8" /\ ~(k.link = "closed" /\ Answer(req) # <<>>)
      <4>1. k2 = [read EXCEPT !.sent = @ \o Answer(req)]
        BY <2>3, <3>1 DEF Sends
      <4>2. /\ k2.asked = k.asked /\ k2.served = k.served + 1 /\ k2.taken = k.taken
            /\ k2.subscribed = (k.subscribed \/ req.kind = "subscribe")
            /\ k2.link = k.link /\ k2.sent = k.sent \o Answer(req)
        BY <1>0, <4>1 DEF Connection
      <4> HIDE DEF k2
      <4>3. QED  BY <2>1, <2>2, <4>2 DEF Talks, Reads
    <3>2. CASE req.kind = "not_utf8" /\ k.link = "open"
      <4>1. k2 = [read EXCEPT !.link = "hup"]
        BY <3>2
      <4>2. /\ k2.asked = k.asked /\ k2.served = k.served + 1 /\ k2.taken = k.taken
            /\ k2.subscribed = (k.subscribed \/ req.kind = "subscribe")
            /\ k2.link = "hup" /\ k2.sent = k.sent
        BY <1>0, <4>1 DEF Connection
      <4> HIDE DEF k2
      <4>3. QED  BY <2>1, <2>2, <4>2 DEF Talks, Reads
    <3>3. CASE (req.kind = "not_utf8" /\ k.link # "open")
                 \/ (req.kind # "not_utf8" /\ k.link = "closed" /\ Answer(req) # <<>>)
      <4>1. k2 = NoConn
        BY <2>3, <3>3 DEF Sends
      <4>2. QED  BY <4>1 DEF Talks
    <3>4. QED  BY <2>1, <3>1, <3>2, <3>3
  <2> HIDE DEF k2
  <2>5. QED  BY <2>1, <2>4, OneTalks
<1>6. ASSUME NEW c \in Clients, Relay(c) PROVE \A d \in Clients : Talks(conn[d], conn'[d])
  <2> DEFINE k == conn[c]
             oldest == Len(feed) - BroadcastCapacity
             msg == [kind |-> "alert", alert |-> feed[k.cursor + 1]]
             more == [k EXCEPT !.cursor = @ + 1]
             k2 == IF k.cursor < oldest
                   THEN [k EXCEPT !.cursor = oldest, !.missed = @ + (oldest - k.cursor)]
                   ELSE Sends(more, <<msg>>)
  <2>1. /\ k.link \in {"open", "closed"} /\ k.subscribed /\ k.cursor < Len(feed)
        /\ conn' = [conn EXCEPT ![c] = k2]
    BY <1>6 DEF Relay, Selecting
  <2>2. Talks(k, k2)
    <3>1. CASE k.cursor < oldest
      <4>1. k2 = [k EXCEPT !.cursor = oldest, !.missed = @ + (oldest - k.cursor)]
        BY <3>1
      <4>2. Quiet(k, k2)
        BY <1>0, <4>1 DEF Quiet, Connection
      <4>3. QED  BY <4>2 DEF Talks
    <3>2. CASE ~(k.cursor < oldest) /\ k.link = "open"
      <4>1. k2 = [more EXCEPT !.sent = @ \o <<msg>>]
        BY <1>0, <3>2 DEF Sends, Connection
      <4>2. feed[k.cursor + 1] \in Alert
        <5>1. k.cursor \in Nat /\ Len(feed) \in Nat /\ feed \in Seq(Alert)
          BY <1>0 DEF Connection, TypeOK
        <5> HIDE DEF k
        <5>2. k.cursor + 1 \in 1..Len(feed)
          BY <2>1, <5>1
        <5>3. QED  BY <5>1, <5>2
      <4>3. /\ SameTalk(k, k2) /\ k2.taken = k.taken /\ k2.link = "open"
            /\ k2.sent = k.sent \o <<msg>>
        BY <1>0, <3>2, <4>1 DEF Connection, SameTalk
      <4> HIDE DEF k2
      <4>4. QED  BY <2>1, <3>2, <4>2, <4>3 DEF Talks, Tells
    <3>3. CASE ~(k.cursor < oldest) /\ k.link = "closed"
      <4>1. k2 = NoConn
        BY <1>0, <3>3 DEF Sends, Connection
      <4>2. QED  BY <4>1 DEF Talks
    <3>4. QED  BY <2>1, <3>1, <3>2, <3>3
  <2> HIDE DEF k2
  <2>3. QED  BY <2>1, <2>2, OneTalks
<1>7. ASSUME NEW c \in Clients, EndSession(c)
      PROVE  \A d \in Clients : Talks(conn[d], conn'[d])
  BY <1>7, OneTalks DEF EndSession, Talks
<1>8. ASSUME NEW c \in Clients, ClientStep(c)
      PROVE  \A d \in Clients : Talks(conn[d], conn'[d])
  <2> DEFINE k == conn[c]
  <2>1. CASE Connect(c)
    <3> DEFINE k2 == [k EXCEPT !.link = "pending"]
    <3>1. conn' = [conn EXCEPT ![c] = k2] /\ Quiet(k, k2)
      BY <1>0, <2>1 DEF Connect, Quiet, Connection
    <3> HIDE DEF k2
    <3>2. QED  BY <3>1, OneTalks DEF Talks
  <2>2. ASSUME NEW req \in Request, Ask(c, req) PROVE \A d \in Clients : Talks(conn[d], conn'[d])
    <3> DEFINE k2 == [k EXCEPT !.asked = Append(@, req)]
    <3>1. conn' = [conn EXCEPT ![c] = k2] /\ Quiet(k, k2)
      BY <1>0, <2>2 DEF Ask, Quiet, Connection
    <3> HIDE DEF k2
    <3>2. QED  BY <3>1, OneTalks DEF Talks
  <2>3. CASE Take(c)
    <3> DEFINE k2 == [k EXCEPT !.taken = @ + 1]
    <3>1. conn' = [conn EXCEPT ![c] = k2] /\ k.taken < Len(k.sent)
      BY <2>3 DEF Take, CanTake
    <3>2. Quiet(k, k2)
      BY <1>0, <3>1 DEF Quiet, Connection
    <3> HIDE DEF k2
    <3>3. QED  BY <3>1, <3>2, OneTalks DEF Talks
  <2>4. CASE Close(c)
    <3> DEFINE k2 == IF k.link = "open" THEN [k EXCEPT !.link = "closed"] ELSE NoConn
    <3>1. conn' = [conn EXCEPT ![c] = k2]
      BY <2>4 DEF Close
    <3>2. k2 = NoConn \/ Quiet(k, k2)
      BY <1>0 DEF Quiet, Connection
    <3> HIDE DEF k2
    <3>3. QED  BY <3>1, <3>2, OneTalks DEF Talks
  <2>5. QED  BY <1>8, <2>1, <2>2, <2>3, <2>4 DEF ClientStep
<1>9. QED
  BY <1>1, <1>2, <1>3, <1>4, <1>5, <1>6, <1>7, <1>8
     DEF ServerNext, DaemonNext, IpcWork, Session, Listen, ipcVars, vars
-----------------------------------------------------------------------------
(* The conversation follows the protocol *)

\* Hello is the first message and no other one is.
HelloFirst(s) == \A i \in 1..Len(s) : s[i].kind = "hello" <=> i = 1

\* There are as many replies as lines read that are answered.
AsMany(k) ==
  CountOf(Replies, k.sent, Len(k.sent)) = CountOf(Answered, k.asked, k.served)

\* The reply of each number is the one to the line of that number.
InOrderAsked(k) ==
  \A i \in 1..Len(k.sent), j \in 1..k.served :
    /\ k.sent[i].kind \notin {"hello", "alert"} /\ k.asked[j].kind \in Answered
    /\ CountOf(Replies, k.sent, i) = CountOf(Answered, k.asked, j)
    => k.sent[i].kind = ReplyTo[k.asked[j].kind]

\* Alerts come to subscribers.
Subscribers(k) ==
  /\ (\E i \in 1..Len(k.sent) : k.sent[i].kind = "alert") => k.subscribed
  /\ k.subscribed => \E j \in 1..k.served : k.asked[j].kind = "subscribe"

InTurn(k) == AsMany(k) /\ InOrderAsked(k) /\ Subscribers(k)

\* What holds of every connection, of either end closed as well: no more is read
\* than was written, and a message the client has read was whole.
TalkOK(k) ==
  /\ k.served <= Len(k.asked) /\ k.taken <= Len(k.sent)
  /\ HelloFirst(k.sent)
  /\ k.link \in {"none", "pending"} => k.served = 0 /\ ~k.subscribed
  /\ k.link \in {"open", "closed"} => k.sent # <<>> /\ InTurn(k)

TalkInv == \A c \in Clients : TalkOK(conn[c])

\* One more message: where it is, and that the others are where they were.
LEMMA OneMore ==
  ASSUME NEW s \in Seq(Message), NEW m \in Message
  PROVE  /\ s \o <<m>> \in Seq(Message) /\ Len(s \o <<m>>) = Len(s) + 1
         /\ (s \o <<m>>)[Len(s) + 1] = m
         /\ \A i \in 1..Len(s) : (s \o <<m>>)[i] = s[i]
OBVIOUS

\* After Hello another message keeps Hello the first one.
LEMMA HelloStaysFirst ==
  ASSUME NEW s \in Seq(Message), NEW m \in Message, HelloFirst(s),
         m.kind = "hello" <=> s = <<>>
  PROVE  HelloFirst(s \o <<m>>)
<1> DEFINE t == s \o <<m>>
           n == Len(s)
<1>1. /\ n \in Nat /\ Len(t) = n + 1 /\ t[n+1] = m /\ \A i \in 1..n : t[i] = s[i]
      /\ s = <<>> <=> n = 0
  BY OneMore
<1> HIDE DEF t, n
<1>2. \A i \in 1..n : s[i].kind = "hello" <=> i = 1
  BY DEF HelloFirst, n
<1>3. ASSUME NEW i \in 1..n+1 PROVE t[i].kind = "hello" <=> i = 1
  <2>1. CASE i = n + 1
    BY <2>1, <1>1
  <2>2. CASE i # n + 1
    <3>1. i \in 1..n
      BY <2>2, <1>1
    <3>2. QED  BY <3>1, <1>1, <1>2
  <2>3. QED  BY <2>1, <2>2
<1>4. QED  BY <1>1, <1>3 DEF HelloFirst, t

\* A line that is answered, and its answer.
LEMMA AnswerInTurn ==
  ASSUME NEW k \in Connection, NEW k2 \in Connection, InTurn(k), NEW m \in Message,
         k2.sent = k.sent \o <<m>>, k2.asked = k.asked, k2.served = k.served + 1,
         k.served < Len(k.asked), m.kind \in Replies,
         k.asked[k.served + 1].kind \in Answered,
         m.kind = ReplyTo[k.asked[k.served + 1].kind], k2.subscribed = k.subscribed
  PROVE  InTurn(k2)
<1> DEFINE n == Len(k.sent)
           p == k.served
           R(i) == CountOf(Replies, k.sent, i)
           R2(i) == CountOf(Replies, k2.sent, i)
           A(j) == CountOf(Answered, k.asked, j)
<1>a. k.sent \in Seq(Message) /\ n \in Nat /\ p \in Nat
  BY DEF Connection
<1>1. /\ k.sent \in Seq(Message) /\ n \in Nat /\ p \in Nat
      /\ Len(k2.sent) = n + 1 /\ k2.sent[n+1] = m
      /\ \A i \in 1..n : k2.sent[i] = k.sent[i]
  BY <1>a, OneMore
<1>2. \A i \in 0..n : R2(i) = R(i)
  <2>1. ASSUME NEW i \in 0..n PROVE R2(i) = R(i)
    <3>1. i \in Nat /\ \A x \in 1..i : k2.sent[x] = k.sent[x]
      BY <1>1
    <3>2. QED  BY <3>1, CountSame
  <2>2. QED  BY <2>1
<1>3. R2(n+1) = R2(n) + 1 /\ R2(n) \in Nat
  BY <1>1, CountNext
<1>4. A(p+1) = A(p) + 1 /\ A(p) \in Nat
  BY <1>1, CountNext
<1>5. R(n) = A(p)
  BY DEF InTurn, AsMany
<1>6. \A i \in 1..n : R(i) \in Nat /\ R(i) <= R(n)
  <2>1. ASSUME NEW i \in 1..n PROVE R(i) \in Nat /\ R(i) <= R(n)
    <3>1. i \in Nat /\ i <= n
      BY <1>1
    <3>2. QED  BY <1>1, <3>1, CountMonotone
  <2>2. QED  BY <2>1
<1>7. \A j \in 1..p : A(j) \in Nat /\ A(j) <= A(p)
  <2>1. ASSUME NEW j \in 1..p PROVE A(j) \in Nat /\ A(j) <= A(p)
    <3>1. j \in Nat /\ j <= p
      BY <1>1
    <3>2. QED  BY <1>1, <3>1, CountMonotone
  <2>2. QED  BY <2>1
<1>8. \A i \in 1..n, j \in 1..p :
        /\ k.sent[i].kind \notin {"hello", "alert"} /\ k.asked[j].kind \in Answered
        /\ R(i) = A(j)
        => k.sent[i].kind = ReplyTo[k.asked[j].kind]
  BY DEF InTurn, InOrderAsked
<1> HIDE DEF n, p, R, R2, A
<1>9. R2(n+1) = A(p+1)
  BY <1>1, <1>2, <1>3, <1>4, <1>5
<1>10. ASSUME NEW i \in 1..n+1, NEW j \in 1..p+1,
              k2.sent[i].kind \notin {"hello", "alert"}, k.asked[j].kind \in Answered,
              R2(i) = A(j)
       PROVE  k2.sent[i].kind = ReplyTo[k.asked[j].kind]
  <2>1. CASE i = n + 1 /\ j = p + 1
    BY <2>1, <1>1 DEF p
  <2>2. CASE i \in 1..n /\ j \in 1..p
    <3>1. R2(i) = R(i) /\ k2.sent[i] = k.sent[i]
      BY <2>2, <1>1, <1>2
    <3>2. QED  BY <2>2, <3>1, <1>8, <1>10
  <2>3. CASE i = n + 1 /\ j \in 1..p
    <3>1. A(j) <= A(p) /\ A(j) \in Nat
      BY <2>3, <1>7
    <3>2. R2(i) = A(p) + 1
      BY <2>3, <1>4, <1>9
    <3>3. QED  BY <3>1, <3>2, <1>4, <1>10
  <2>4. CASE i \in 1..n /\ j = p + 1
    <3>1. R2(i) = R(i) /\ R(i) <= R(n) /\ R(i) \in Nat
      BY <2>4, <1>1, <1>2, <1>6
    <3>2. A(j) = R(n) + 1 /\ R(n) \in Nat
      BY <2>4, <1>4, <1>5
    <3>3. QED  BY <3>1, <3>2, <1>10
  <2>5. QED  BY <1>1, <2>1, <2>2, <2>3, <2>4
<1>11. /\ (\E i \in 1..n : k.sent[i].kind = "alert") => k.subscribed
       /\ k.subscribed => \E j \in 1..p : k.asked[j].kind = "subscribe"
  BY DEF InTurn, Subscribers, n, p
<1>12. (\E i \in 1..n+1 : k2.sent[i].kind = "alert") => k.subscribed
  <2> SUFFICES ASSUME NEW i \in 1..n+1, k2.sent[i].kind = "alert" PROVE k.subscribed
    OBVIOUS
  <2>1. i # n + 1
    BY <1>1 DEF Replies
  <2>2. i \in 1..n
    BY <2>1, <1>1
  <2>3. QED  BY <2>2, <1>1, <1>11
<1>13. 1..p \subseteq 1..p+1
  BY <1>1
<1>14. k2.subscribed => \E j \in 1..p+1 : k.asked[j].kind = "subscribe"
  BY <1>11, <1>13
<1>15. k2.served = p + 1 /\ Len(k2.sent) = n + 1
  BY <1>1 DEF p
<1>16. AsMany(k2)
  BY <1>9, <1>15 DEF AsMany, R2, A
<1>17. InOrderAsked(k2)
  BY <1>10, <1>15 DEF InOrderAsked, R2, A
<1>18. Subscribers(k2)
  BY <1>12, <1>14, <1>15 DEF Subscribers
<1>19. QED
  BY <1>16, <1>17, <1>18 DEF InTurn

\* A line that is not answered.
LEMMA SkippedInTurn ==
  ASSUME NEW k \in Connection, NEW k2 \in Connection, InTurn(k),
         k2.sent = k.sent, k2.asked = k.asked, k2.served = k.served + 1,
         k.asked[k.served + 1].kind \notin Answered,
         k2.subscribed = (k.subscribed \/ k.asked[k.served + 1].kind = "subscribe")
  PROVE  InTurn(k2)
<1> DEFINE n == Len(k.sent)
           p == k.served
           A(j) == CountOf(Answered, k.asked, j)
<1>1. n \in Nat /\ p \in Nat /\ p + 1 \in 1..p+1 /\ 1..p \subseteq 1..p+1
      /\ \A j \in 1..p+1 : j \in 1..p \/ j = p + 1
  BY DEF Connection
<1>2. A(p+1) = A(p)
  <2>1. /\ A(p) \in Nat
        /\ A(p+1) = A(p) + (IF k.asked[p+1].kind \in Answered THEN 1 ELSE 0)
    <3> HIDE DEF p
    <3>1. p \in Nat
      BY <1>1
    <3>2. QED  BY <3>1, CountNext
  <2>2. k.asked[p+1].kind \notin Answered
    OBVIOUS
  <2> HIDE DEF A
  <2>3. QED  BY <2>1, <2>2
<1> HIDE DEF n, A
<1>3. CountOf(Replies, k.sent, n) = A(p+1)
  BY <1>2 DEF InTurn, AsMany, n, A
<1>4. ASSUME NEW i \in 1..n, NEW j \in 1..p+1,
             k.sent[i].kind \notin {"hello", "alert"}, k.asked[j].kind \in Answered,
             CountOf(Replies, k.sent, i) = A(j)
      PROVE  k.sent[i].kind = ReplyTo[k.asked[j].kind]
  <2>1. j \in 1..p
    BY <1>1, <1>4
  <2>2. QED  BY <2>1, <1>4 DEF InTurn, InOrderAsked, n, A
<1>5. (\E i \in 1..n : k.sent[i].kind = "alert") => k2.subscribed
  BY DEF InTurn, Subscribers, n
<1>6. k2.subscribed => \E j \in 1..p+1 : k.asked[j].kind = "subscribe"
  <2>1. k.subscribed => \E j \in 1..p : k.asked[j].kind = "subscribe"
    BY DEF InTurn, Subscribers
  <2>2. QED  BY <2>1, <1>1
<1>7. AsMany(k2) /\ Subscribers(k2)
  BY <1>3, <1>5, <1>6 DEF AsMany, Subscribers, n, A
<1>8. InOrderAsked(k2)
  BY <1>4 DEF InOrderAsked, n, A
<1>9. QED  BY <1>7, <1>8 DEF InTurn

\* A message that is no reply: Hello, or an alert for a subscriber.
LEMMA ToldInTurn ==
  ASSUME NEW k \in Connection, NEW k2 \in Connection, InTurn(k), NEW m \in Message,
         k2.sent = k.sent \o <<m>>, k2.asked = k.asked, k2.served = k.served,
         k2.subscribed = k.subscribed,
         m.kind = "hello" \/ (m.kind = "alert" /\ k.subscribed)
  PROVE  InTurn(k2)
<1> DEFINE n == Len(k.sent)
           p == k.served
           R(i) == CountOf(Replies, k.sent, i)
           R2(i) == CountOf(Replies, k2.sent, i)
<1>a. k.sent \in Seq(Message) /\ n \in Nat /\ p \in Nat
  BY DEF Connection
<1>1. /\ k.sent \in Seq(Message) /\ n \in Nat /\ p \in Nat
      /\ Len(k2.sent) = n + 1 /\ k2.sent[n+1] = m
      /\ \A i \in 1..n : k2.sent[i] = k.sent[i]
  BY <1>a, OneMore
<1>2. \A i \in 0..n : R2(i) = R(i)
  <2>1. ASSUME NEW i \in 0..n PROVE R2(i) = R(i)
    <3>1. i \in Nat /\ \A x \in 1..i : k2.sent[x] = k.sent[x]
      BY <1>1
    <3>2. QED  BY <3>1, CountSame
  <2>2. QED  BY <2>1
<1>3. R2(n+1) = R2(n)
  <2>1. k2.sent[n+1].kind \notin Replies
    <3>1. k2.sent[n+1] = m
      BY <1>1
    <3>2. m.kind \notin Replies
      BY DEF Replies
    <3>3. QED  BY <3>1, <3>2
  <2>2. /\ R2(n) \in Nat
        /\ R2(n+1) = R2(n) + (IF k2.sent[n+1].kind \in Replies THEN 1 ELSE 0)
    <3> DEFINE s == k2.sent
    <3> HIDE DEF n, s
    <3>1. n \in Nat
      BY <1>1
    <3>2. /\ CountOf(Replies, s, n) \in Nat
          /\ CountOf(Replies, s, n + 1)
               = CountOf(Replies, s, n) + (IF s[n+1].kind \in Replies THEN 1 ELSE 0)
      BY <3>1, CountNext
    <3>3. QED  BY <3>2 DEF s
  <2> HIDE DEF R2
  <2>3. QED  BY <2>1, <2>2
<1>4. \A i \in 1..n+1 : i \in 1..n \/ i = n + 1
  BY <1>1
<1> HIDE DEF n, R, R2
<1>5. R2(n+1) = CountOf(Answered, k.asked, p)
  BY <1>1, <1>2, <1>3 DEF InTurn, AsMany, n, R
<1>6. ASSUME NEW i \in 1..n+1, NEW j \in 1..p,
             k2.sent[i].kind \notin {"hello", "alert"}, k.asked[j].kind \in Answered,
             R2(i) = CountOf(Answered, k.asked, j)
      PROVE  k2.sent[i].kind = ReplyTo[k.asked[j].kind]
  <2>1. i \in 1..n
    <3>1. i # n + 1
      BY <1>1, <1>6
    <3>2. QED  BY <3>1, <1>4
  <2>2. R2(i) = R(i) /\ k2.sent[i] = k.sent[i]
    BY <2>1, <1>1, <1>2
  <2>3. R(i) = CountOf(Answered, k.asked, j) /\ k.sent[i].kind \notin {"hello", "alert"}
    BY <2>2, <1>6
  <2>4. k.sent[i].kind = ReplyTo[k.asked[j].kind]
    BY <2>1, <2>3, <1>6 DEF InTurn, InOrderAsked, n, R
  <2>5. QED  BY <2>2, <2>4
<1>7. (\E i \in 1..n+1 : k2.sent[i].kind = "alert") => k.subscribed
  <2> SUFFICES ASSUME NEW i \in 1..n+1, k2.sent[i].kind = "alert" PROVE k.subscribed
    OBVIOUS
  <2>1. CASE i = n + 1
    BY <2>1, <1>1
  <2>2. CASE i \in 1..n
    BY <2>2, <1>1 DEF InTurn, Subscribers, n
  <2>3. QED  BY <1>4, <2>1, <2>2
<1>8. k.subscribed => \E j \in 1..p : k.asked[j].kind = "subscribe"
  BY DEF InTurn, Subscribers
<1>9. AsMany(k2) /\ Subscribers(k2)
  BY <1>1, <1>5, <1>7, <1>8 DEF AsMany, Subscribers, R2
<1>10. InOrderAsked(k2)
  BY <1>1, <1>6 DEF InOrderAsked, R2
<1>11. QED  BY <1>9, <1>10 DEF InTurn

\* More lines written change nothing for those read.
LEMMA AskedInTurn ==
  ASSUME NEW k \in Connection, NEW k2 \in Connection, InTurn(k), k.served <= Len(k.asked),
         k2.sent = k.sent, k2.served = k.served, k2.subscribed = k.subscribed,
         NEW req \in Request, k2.asked = Append(k.asked, req)
  PROVE  InTurn(k2)
<1>1. k.asked \in Seq(Request) /\ k.served \in Nat /\ Len(k.asked) \in Nat
  BY DEF Connection
<1>2. \A j \in 1..k.served : k2.asked[j] = k.asked[j]
  BY <1>1
<1>3. \A j \in 0..k.served : CountOf(Answered, k2.asked, j) = CountOf(Answered, k.asked, j)
  <2>1. ASSUME NEW j \in 0..k.served
        PROVE  CountOf(Answered, k2.asked, j) = CountOf(Answered, k.asked, j)
    <3>1. j \in Nat /\ \A x \in 1..j : k2.asked[x] = k.asked[x]
      BY <1>1, <1>2
    <3>2. QED  BY <3>1, CountSame
  <2>2. QED  BY <2>1
<1>4. k.served \in 0..k.served /\ \A j \in 1..k.served : j \in 0..k.served
  BY <1>1
<1>5. AsMany(k2)
  BY <1>3, <1>4 DEF InTurn, AsMany
<1>6. InOrderAsked(k2)
  BY <1>2, <1>3, <1>4 DEF InTurn, InOrderAsked
<1>7. Subscribers(k2)
  BY <1>2 DEF InTurn, Subscribers
<1>8. QED  BY <1>5, <1>6, <1>7 DEF InTurn

\* A connection that has just been accepted.
LEMMA NothingInTurn ==
  ASSUME NEW k \in Connection, k.sent = <<>>, k.served = 0, ~k.subscribed
  PROVE  InTurn(k)
<1>1. \A K, s : CountOf(K, s, 0) = 0
  <2>1. \A K, s : {i \in 1..0 : s[i].kind \in K} = {}
    OBVIOUS
  <2>2. QED  BY <2>1, FS_EmptySet DEF CountOf
<1>2. Len(k.sent) = 0 /\ 1..Len(k.sent) = {} /\ 1..k.served = {}
  OBVIOUS
<1>3. CountOf(Replies, k.sent, Len(k.sent)) = CountOf(Answered, k.asked, k.served)
  BY <1>1, <1>2
<1>4. QED  BY <1>2, <1>3 DEF InTurn, AsMany, InOrderAsked, Subscribers

\* A step keeps what holds of a connection.
LEMMA TalkKept ==
  ASSUME TypeOK, NEW k \in Connection, NEW k2 \in Connection, TalkOK(k), Talks(k, k2),
         k.link \in {"none", "pending"} => k.sent = <<>>
  PROVE  TalkOK(k2)
<1>1. /\ k.sent \in Seq(Message) /\ k.asked \in Seq(Request)
      /\ k.served \in Nat /\ k.taken \in Nat
      /\ Len(k.sent) \in Nat /\ Len(k.asked) \in Nat
      /\ k.served <= Len(k.asked) /\ k.taken <= Len(k.sent) /\ HelloFirst(k.sent)
  BY DEF Connection, TalkOK
<1>2. CASE k2 = NoConn
  BY <1>2 DEF TalkOK, NoConn, HelloFirst
<1>3. CASE Quiet(k, k2)
  <2>1. /\ k2.sent = k.sent /\ k2.served = k.served /\ k2.subscribed = k.subscribed
        /\ k.asked = k2.asked \/ \E req \in Request : k2.asked = Append(k.asked, req)
    BY <1>3 DEF Quiet
  <2>2. k2.served <= Len(k2.asked)
    BY <1>1, <2>1
  <2>3. k2.taken <= Len(k2.sent)
    BY <1>1, <1>3 DEF Quiet
  <2>4. k2.link \in {"none", "pending"} => k2.served = 0 /\ ~k2.subscribed
    BY <2>1, <1>3 DEF Quiet, TalkOK
  <2>5. ASSUME k2.link \in {"open", "closed"} PROVE k2.sent # <<>> /\ InTurn(k2)
    <3>1. k.sent # <<>> /\ InTurn(k)
      BY <1>3, <2>5 DEF Quiet, TalkOK
    <3>2. CASE k2.asked = k.asked
      BY <2>1, <3>1, <3>2 DEF InTurn, AsMany, InOrderAsked, Subscribers
    <3>3. CASE \E req \in Request : k2.asked = Append(k.asked, req)
      BY <1>1, <2>1, <3>1, <3>3, AskedInTurn
    <3>4. QED  BY <2>1, <3>1, <3>2, <3>3
  <2>6. QED  BY <1>1, <2>1, <2>2, <2>3, <2>4, <2>5 DEF TalkOK
<1>4. CASE CutsOff(k, k2)
  <2>1. /\ k2.link = "hup" /\ k2.served = k.served /\ k2.asked = k.asked
        /\ k2.taken = k.taken
    BY <1>4 DEF CutsOff, SameTalk
  <2>2. CASE k2.sent = k.sent
    BY <1>1, <2>1, <2>2 DEF TalkOK
  <2>3. CASE k.taken < Len(k.sent) /\ k2.sent = Front(k.sent)
    <3>1. /\ Len(k2.sent) = Len(k.sent) - 1
          /\ \A i \in 1..Len(k2.sent) : k2.sent[i] = k.sent[i] /\ i \in 1..Len(k.sent)
      BY <1>1, <2>3 DEF Front
    <3>2. HelloFirst(k2.sent)
      BY <1>1, <3>1 DEF HelloFirst
    <3>3. k2.taken <= Len(k2.sent)
      BY <1>1, <2>1, <2>3, <3>1
    <3>4. QED  BY <1>1, <2>1, <3>2, <3>3 DEF TalkOK
  <2>4. QED  BY <1>4, <2>2, <2>3 DEF CutsOff
<1>5. CASE Greets(k, k2)
  <2> DEFINE m == [kind |-> "hello"]
  <2>1. /\ m \in Message /\ m.kind = "hello" /\ k.link = "pending" /\ k2.link = "open"
        /\ k2.sent = k.sent \o <<m>> /\ k.sent = <<>>
        /\ k2.asked = k.asked /\ k2.served = k.served
        /\ k2.subscribed = k.subscribed /\ k2.taken = k.taken
    BY <1>5, MessageKinds DEF Greets, SameTalk
  <2> HIDE DEF m
  <2>2. InTurn(k)
    BY <2>1, NothingInTurn DEF TalkOK
  <2>3. InTurn(k2)
    BY <2>1, <2>2, ToldInTurn
  <2>4. HelloFirst(k2.sent)
    BY <1>1, <2>1, HelloStaysFirst
  <2>5. Len(k2.sent) = Len(k.sent) + 1
    BY <1>1, <2>1, OneMore
  <2>6. k2.sent # <<>> /\ k2.taken <= Len(k2.sent)
    BY <1>1, <2>1, <2>5
  <2>7. QED  BY <1>1, <2>1, <2>3, <2>4, <2>6 DEF TalkOK
<1>6. CASE Reads(k, k2)
  <2> DEFINE req == k.asked[k.served + 1]
  <2>1. /\ req \in Request /\ k.served < Len(k.asked) /\ k.link \in {"open", "closed"}
        /\ k2.asked = k.asked /\ k2.served = k.served + 1 /\ k2.taken = k.taken
        /\ k2.subscribed = (k.subscribed \/ req.kind = "subscribe")
        /\ k.sent # <<>> /\ InTurn(k)
    BY <1>6 DEF Reads, TalkOK
  <2>2. k2.served <= Len(k2.asked)
    BY <1>1, <2>1
  <2>3. CASE k2.link = "hup" /\ k2.sent = k.sent
    BY <1>1, <2>1, <2>2, <2>3 DEF TalkOK
  <2>4. CASE k2.link = k.link /\ k2.sent = k.sent \o Answer(req)
    <3>1. CASE req.kind \in Answered
      <4>1. PICK m \in Message : /\ Answer(req) = <<m>> /\ m.kind = ReplyTo[req.kind]
                                 /\ m.kind \in Replies
        BY <2>1, <3>1, AnswerKind
      <4>2. k2.sent = k.sent \o <<m>>
        BY <2>4, <4>1
      <4>3. k2.subscribed = k.subscribed
        <5>1. req.kind # "subscribe"
          BY <3>1, ReplyKinds
        <5>2. k.subscribed \in BOOLEAN
          BY DEF Connection
        <5>3. QED  BY <5>1, <5>2, <2>1
      <4>4. InTurn(k2)
        BY <2>1, <3>1, <4>1, <4>2, <4>3, AnswerInTurn
      <4>5. HelloFirst(k2.sent)
        BY <1>1, <2>1, <4>1, <4>2, HelloStaysFirst DEF Replies
      <4>6. Len(k2.sent) = Len(k.sent) + 1
        BY <1>1, <4>2, OneMore
      <4>7. k2.sent # <<>> /\ k2.taken <= Len(k2.sent)
        BY <1>1, <2>1, <4>6
      <4>8. QED  BY <2>1, <2>2, <2>4, <4>4, <4>5, <4>7 DEF TalkOK
    <3>2. CASE req.kind \notin Answered
      <4>a. Answer(req) = <<>>
        BY <2>1, <3>2, AnswerKind
      <4>1. k2.sent = k.sent
        BY <1>1, <2>4, <4>a
      <4>2. InTurn(k2)
        BY <2>1, <3>2, <4>1, SkippedInTurn
      <4>3. QED  BY <1>1, <2>1, <2>2, <2>4, <4>1, <4>2 DEF TalkOK
    <3>3. QED  BY <3>1, <3>2
  <2>5. QED  BY <1>6, <2>3, <2>4 DEF Reads
<1>7. CASE Tells(k, k2)
  <2>1. PICK a \in Alert : k2.sent = k.sent \o <<[kind |-> "alert", alert |-> a]>>
    BY <1>7 DEF Tells
  <2> DEFINE m == [kind |-> "alert", alert |-> a]
  <2>2. /\ m \in Message /\ m.kind = "alert" /\ k.link = "open" /\ k2.link = "open"
        /\ k2.sent = k.sent \o <<m>> /\ k.subscribed
        /\ k2.asked = k.asked /\ k2.served = k.served
        /\ k2.subscribed = k.subscribed /\ k2.taken = k.taken
        /\ k.sent # <<>> /\ InTurn(k)
    BY <1>7, <2>1, MessageKinds DEF Tells, SameTalk, TalkOK
  <2> HIDE DEF m
  <2>3. InTurn(k2)
    BY <2>2, ToldInTurn
  <2>4. HelloFirst(k2.sent)
    BY <1>1, <2>2, HelloStaysFirst
  <2>5. Len(k2.sent) = Len(k.sent) + 1
    BY <1>1, <2>2, OneMore
  <2>6. k2.sent # <<>> /\ k2.taken <= Len(k2.sent)
    BY <1>1, <2>2, <2>5
  <2>7. QED  BY <1>1, <2>2, <2>3, <2>4, <2>6 DEF TalkOK
<1>8. QED  BY <1>2, <1>3, <1>4, <1>5, <1>6, <1>7 DEF Talks

\* Every connection's conversation is in order, in every reachable state.
LEMMA TalkInvariant == ServerSpec => []TalkInv
<1>1. IpcInit => TalkInv
  <2>1. TalkOK(NoConn)
    BY DEF TalkOK, NoConn, HelloFirst
  <2>2. QED  BY <2>1 DEF IpcInit, TalkInv
<1>2. TypeOK /\ IpcTypeOK /\ IpcTypeOK' /\ TalkInv /\ [ServerNext]_vars => TalkInv'
  <2> SUFFICES ASSUME TypeOK, IpcTypeOK, IpcTypeOK', TalkInv, [ServerNext]_vars,
                      NEW c \in Clients
               PROVE  TalkOK(conn'[c])
    BY DEF TalkInv, TalkOK, HelloFirst, InTurn, AsMany, InOrderAsked, Subscribers, CountOf
  <2>1. /\ conn[c] \in Connection /\ conn'[c] \in Connection /\ TalkOK(conn[c])
        /\ conn[c].link \in {"none", "pending"} => conn[c].sent = <<>>
    BY DEF IpcTypeOK, TalkInv
  <2>2. Talks(conn[c], conn'[c])
    BY TalkSteps
  <2>3. QED  BY <2>1, <2>2, TalkKept
<1>3. QED
  BY <1>1, <1>2, ServerRunsPipe, TypeCorrect, IpcTypeCorrect, PTL DEF ServerSpec

\* A session greets once and first, answers every line that has an answer, once, with
\* the kind of message it calls for and in the order of the lines, and tells of
\* alerts only after a Subscribe, whatever the client writes and reads and when.
THEOREM ConversationInOrder == ServerSpec => []Conversation
<1>1. TalkInv => Conversation
  <2> SUFFICES ASSUME TalkInv, NEW c \in Clients, conn[c].link \in {"open", "closed"}
               PROVE  LET k == conn[c]
                          replies(n) == CountOf({"recent", "stats", "pong", "error"}, k.sent, n)
                          answered(n) == CountOf(DOMAIN ReplyTo, k.asked, n)
                      IN  /\ k.sent # <<>>
                          /\ \A i \in 1..Len(k.sent) : k.sent[i].kind = "hello" <=> i = 1
                          /\ replies(Len(k.sent)) = answered(k.served)
                          /\ \A i \in 1..Len(k.sent), j \in 1..k.served :
                               /\ k.sent[i].kind \notin {"hello", "alert"}
                               /\ k.asked[j].kind \in DOMAIN ReplyTo
                               /\ replies(i) = answered(j)
                               => k.sent[i].kind = ReplyTo[k.asked[j].kind]
                          /\ (\E i \in 1..Len(k.sent) : k.sent[i].kind = "alert")
                               => \E j \in 1..k.served : k.asked[j].kind = "subscribe"
    BY DEF Conversation
  <2> DEFINE k == conn[c]
  <2>1. k.sent # <<>> /\ HelloFirst(k.sent) /\ InTurn(k)
    BY DEF TalkInv, TalkOK
  <2> HIDE DEF k
  <2>2. QED
    BY <2>1 DEF HelloFirst, InTurn, AsMany, InOrderAsked, Subscribers, Replies, Answered, k
<1>2. QED  BY <1>1, TalkInvariant, PTL
=============================================================================
