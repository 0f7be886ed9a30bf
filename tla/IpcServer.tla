------------------------------ MODULE IpcServer ------------------------------
(***************************************************************************)
(* The IPC server of the daemon (owlsentry-daemon/src/ipc_server.rs) and   *)
(* the Unix socket to its clients, beside the alert pipeline whose state   *)
(* and broadcast channel it reads.  `serve' binds the socket and accepts   *)
(* clients; each of them gets a session task (handle_client) that answers  *)
(* its requests and relays to it, once it has subscribed, the alerts the   *)
(* dispatcher broadcasts.                                                  *)
(***************************************************************************)
EXTENDS AlertPipeline

CONSTANTS
  Clients,            \* client programs; each has one connection at a time
  Limits,             \* the limits they put in GetRecent
  MaxLimit,           \* 10 000 in handle_client
  BroadcastCapacity,  \* 512 in main.rs
  SocketCapacity      \* messages a socket holds before a write has to wait

ASSUME IpcAssumption ==
  /\ Limits \subseteq Nat /\ MaxLimit \in Nat
  /\ BroadcastCapacity \in Nat \ {0} /\ SocketCapacity \in Nat

VARIABLES
  listener,  \* "none" before bind, "open", or "failed": serve has returned
  conn       \* per client: its connection, both ends of it

ipcVars == <<listener, conn>>
vars == <<pipeVars, ipcVars>>

(***************************************************************************)
(* The lines a client may write: the four requests, and lines that are not *)
(* one: blank, not JSON of a request, longer than MAX_REQUEST_BYTES, or    *)
(* not even UTF-8.                                                         *)
(***************************************************************************)
Request ==
  [kind: {"subscribe", "get_stats", "ping", "blank", "invalid", "too_long",
          "not_utf8"}]
    \cup [kind: {"get_recent"}, limit: Limits]

(***************************************************************************)
(* A connection.                                                           *)
(*   link: "none", "pending" (in the listener's backlog), "open",          *)
(*     "hup" (the daemon's end is closed), "closed" (the client's end is)  *)
(*   asked, served: the lines the client wrote; how many the session read  *)
(*   sent, taken: the messages the session wrote; how many the client read *)
(*   subscribed: the local variable of handle_client                       *)
(*   base, cursor: the position of alerts_rx in the feed, when subscribe() *)
(*     created it and now                                                  *)
(*   missed: the alerts Lagged told of                                     *)
(* The last message sent is still being written, and the session waits in  *)
(* write_all, while the socket holds more than its capacity.               *)
(***************************************************************************)
NoConn == [link |-> "none", asked |-> <<>>, served |-> 0, sent |-> <<>>,
           taken |-> 0, subscribed |-> FALSE, base |-> 0, cursor |-> 0,
           missed |-> 0]

Busy(k) == Len(k.sent) - k.taken > SocketCapacity

IpcInit == listener = "none" /\ conn = [c \in Clients |-> NoConn]

-----------------------------------------------------------------------------
(* The clients' end of the socket *)

\* connect(2): the kernel completes it while the listener exists.
Connect(c) ==
  /\ listener = "open" /\ conn[c].link = "none"
  /\ conn' = [conn EXCEPT ![c].link = "pending"]
  /\ UNCHANGED <<listener, pipeVars>>

Ask(c, req) ==
  /\ conn[c].link \in {"pending", "open"}
  /\ conn' = [conn EXCEPT ![c].asked = Append(@, req)]
  /\ UNCHANGED <<listener, pipeVars>>

\* What was written before a hang-up can still be read.
CanTake(c) == conn[c].taken < Len(conn[c].sent)
NextMessage(c) == conn[c].sent[conn[c].taken + 1]

Take(c) ==
  /\ CanTake(c)
  /\ conn' = [conn EXCEPT ![c].taken = @ + 1]
  /\ UNCHANGED <<listener, pipeVars>>

\* The client closes its end, or dies.  A connection that was not accepted yet
\* is forgotten: its session would end on Hello without having done anything.
Close(c) ==
  /\ conn[c].link \in {"pending", "open", "hup"}
  /\ conn' = [conn EXCEPT ![c] =
       IF @.link = "open" THEN [@ EXCEPT !.link = "closed"] ELSE NoConn]
  /\ UNCHANGED <<listener, pipeVars>>

-----------------------------------------------------------------------------
(* serve *)

\* The listener is gone, and with it the connections in its backlog.
ListenerGone ==
  conn' = [c \in Clients |->
    IF conn[c].link = "pending" THEN [conn[c] EXCEPT !.link = "hup"] ELSE conn[c]]

\* Directory, stale socket, bind and permissions; any of them may fail.
Listen ==
  /\ up /\ listener = "none"
  /\ listener' \in {"open", "failed"}
  /\ UNCHANGED <<conn, pipeVars>>

\* accept fails (no file descriptor left, for one): serve returns, main logs it
\* and nothing calls serve again; the rest of the daemon goes on.
AcceptFails ==
  /\ listener = "open"
  /\ listener' = "failed"
  /\ ListenerGone
  /\ UNCHANGED pipeVars

\* A write to a client that has closed its end fails and ends the session.
Sends(k, msgs) ==
  IF k.link = "closed" /\ msgs # <<>> THEN NoConn ELSE [k EXCEPT !.sent = @ \o msgs]

\* accept, broadcast_tx.subscribe(), and a session that begins with Hello.
Accept(c) ==
  /\ listener = "open" /\ conn[c].link = "pending"
  /\ conn' = [conn EXCEPT ![c] =
       Sends([@ EXCEPT !.link = "open", !.base = Len(feed), !.cursor = Len(feed)],
             <<[kind |-> "hello"]>>)]
  /\ UNCHANGED <<listener, pipeVars>>

-----------------------------------------------------------------------------
(* handle_client: the loop of a session *)

\* The session is at its select!.
Selecting(c) == conn[c].link \in {"open", "closed"} /\ ~Busy(conn[c])

Capped(limit) == IF limit <= MaxLimit THEN limit ELSE MaxLimit

\* The slip of not going back to select! after the error.
Answer_NoContinue(req) ==
  CASE req.kind = "get_recent" ->
         <<[kind |-> "recent", alerts |-> RecentAlerts(state, Capped(req.limit))]>>
    [] req.kind = "get_stats" -> <<[kind |-> "stats", stats |-> StatsSnapshot(state)]>>
    [] req.kind = "ping" -> <<[kind |-> "pong"]>>
    [] req.kind = "invalid" -> <<[kind |-> "error"]>>
    [] req.kind = "too_long" -> <<[kind |-> "error"], [kind |-> "error"]>>
    [] OTHER -> <<>>

\* What a request is answered with: nothing, or one message.
Answer(req) ==
  CASE req.kind = "get_recent" ->
         <<[kind |-> "recent", alerts |-> RecentAlerts(state, Capped(req.limit))]>>
    [] req.kind = "get_stats" -> <<[kind |-> "stats", stats |-> StatsSnapshot(state)]>>
    [] req.kind = "ping" -> <<[kind |-> "pong"]>>
    [] req.kind \in {"invalid", "too_long"} -> <<[kind |-> "error"]>>
    [] OTHER -> <<>>

\* lines.next_line() yields a line.  One that is not UTF-8 is a read error,
\* which ends the session.
HandleRequest(c) ==
  /\ Selecting(c) /\ conn[c].served < Len(conn[c].asked)
  /\ LET k == conn[c]
         req == k.asked[k.served + 1]
         read == [k EXCEPT !.served = @ + 1,
                           !.subscribed = @ \/ req.kind = "subscribe"]
     IN  conn' = [conn EXCEPT ![c] =
           IF req.kind # "not_utf8" THEN Sends(read, Answer(req))
           ELSE IF k.link = "open" THEN [read EXCEPT !.link = "hup"] ELSE NoConn]
  /\ UNCHANGED <<listener, pipeVars>>

\* The slip of a Lagged error that ends the session, as Closed does.
Relay_LaggedIsFatal(c) ==
  /\ Selecting(c) /\ conn[c].subscribed /\ conn[c].cursor < Len(feed)
  /\ LET k == conn[c]
         oldest == Len(feed) - BroadcastCapacity
     IN  conn' = [conn EXCEPT ![c] =
           IF k.cursor < oldest
           THEN IF k.link = "open" THEN [k EXCEPT !.link = "hup"] ELSE NoConn
           ELSE Sends([k EXCEPT !.cursor = @ + 1],
                      <<[kind |-> "alert", alert |-> feed[k.cursor + 1]]>>)]
  /\ UNCHANGED <<listener, pipeVars>>

\* The slip of subscribing anew after Lagged.
Relay_Resubscribes(c) ==
  /\ Selecting(c) /\ conn[c].subscribed /\ conn[c].cursor < Len(feed)
  /\ LET k == conn[c]
         oldest == Len(feed) - BroadcastCapacity
     IN  conn' = [conn EXCEPT ![c] =
           IF k.cursor < oldest
           THEN [k EXCEPT !.cursor = Len(feed), !.missed = @ + (oldest - k.cursor)]
           ELSE Sends([k EXCEPT !.cursor = @ + 1],
                      <<[kind |-> "alert", alert |-> feed[k.cursor + 1]]>>)]
  /\ UNCHANGED <<listener, pipeVars>>

\* alerts_rx.recv(), if subscribed.  The channel keeps the BroadcastCapacity
\* newest alerts; a receiver that is further behind gets Lagged once and goes
\* on with the oldest one that is kept.
Relay(c) ==
  /\ Selecting(c) /\ conn[c].subscribed /\ conn[c].cursor < Len(feed)
  /\ LET k == conn[c]
         oldest == Len(feed) - BroadcastCapacity
     IN  conn' = [conn EXCEPT ![c] =
           IF k.cursor < oldest
           THEN [k EXCEPT !.cursor = oldest, !.missed = @ + (oldest - k.cursor)]
           ELSE Sends([k EXCEPT !.cursor = @ + 1],
                      <<[kind |-> "alert", alert |-> feed[k.cursor + 1]]>>)]
  /\ UNCHANGED <<listener, pipeVars>>

\* The slip of noticing that the client has left only at the select!.
EndSession_AtSelect(c) ==
  /\ conn[c].link = "closed"
  /\ ~Busy(conn[c]) /\ conn[c].served = Len(conn[c].asked)
  /\ conn' = [conn EXCEPT ![c] = NoConn]
  /\ UNCHANGED <<listener, pipeVars>>

\* The client has left: the write that waits fails, or the end of the file is
\* reached after the last line.
EndSession(c) ==
  /\ conn[c].link = "closed"
  /\ Busy(conn[c]) \/ conn[c].served = Len(conn[c].asked)
  /\ conn' = [conn EXCEPT ![c] = NoConn]
  /\ UNCHANGED <<listener, pipeVars>>

-----------------------------------------------------------------------------
(* The daemon with its clients *)

\* The process stops: the kernel closes its ends of the sockets; a message that
\* was still being written is lost (a line cut short, which no client parses).
HangUp ==
  /\ listener' = "none"
  /\ conn' = [c \in Clients |->
       CASE conn[c].link \in {"pending", "open"} ->
              [conn[c] EXCEPT !.link = "hup",
                !.sent = IF Busy(conn[c]) THEN Front(@) ELSE @]
         [] conn[c].link = "closed" -> NoConn
         [] OTHER -> conn[c]]

Session(c) == HandleRequest(c) \/ Relay(c) \/ EndSession(c)

IpcWork ==
  \/ Listen
  \/ AcceptFails
  \/ \E c \in Clients : Accept(c) \/ Session(c)

\* The daemon, whoever its clients are.
DaemonNext ==
  \/ PipeWork /\ UNCHANGED ipcVars
  \/ Halt /\ HangUp
  \/ Start /\ UNCHANGED ipcVars
  \/ IpcWork

\* A client does whatever a client may do.
ClientStep(c) ==
  Connect(c) \/ (\E req \in Request : Ask(c, req)) \/ Take(c) \/ Close(c)

ServerNext == DaemonNext \/ \E c \in Clients : ClientStep(c)

ServerSpec == PipeInit /\ IpcInit /\ [][ServerNext]_vars

(***************************************************************************)
(* Fairness of the tasks of the daemon.  select! polls its branches in a   *)
(* random order, so neither requests nor alerts starve the other: strong   *)
(* fairness of each branch.                                                *)
(***************************************************************************)
IpcFairness ==
  /\ WF_vars(Listen)
  /\ \A c \in Clients :
       /\ WF_vars(Accept(c))
       /\ SF_vars(HandleRequest(c)) /\ SF_vars(Relay(c))
       /\ WF_vars(EndSession(c))

-----------------------------------------------------------------------------
(* What a session promises *)

\* The stream a session relays is the feed, from the alert that follows
\* subscribe() on, in order, each once: the only alerts left out are those that
\* Lagged has told of, and none of the newest BroadcastCapacity is.
StreamAccounted ==
  \A c \in Clients :
    LET k == conn[c]
        live == {i \in 1..Len(k.sent) : k.sent[i].kind = "alert"}
        id(i) == k.sent[i].alert.id
    IN  k.link = "open" =>
          /\ k.cursor <= Len(feed) /\ Cardinality(live) + k.missed = k.cursor - k.base
          /\ \A i \in live :
               id(i) \in k.base + 1 .. k.cursor /\ k.sent[i].alert = feed[id(i)]
          /\ \A i, j \in live : i < j => id(i) < id(j)
          /\ \A n \in k.base + 1 .. k.cursor :
               n > Len(feed) - BroadcastCapacity => \E i \in live : id(i) = n

\* Replies that come out of the shared state, and how far they reach into the
\* alerts of this boot.  A Recent of limit 0 is empty and tells nothing.
Reach(m) ==
  CASE m.kind = "alert" -> m.alert.id
    [] m.kind = "recent" /\ m.alerts # <<>> -> Last(m.alerts).id
    [] m.kind = "stats" -> m.stats.total
    [] OTHER -> 0

Snapshot(m) == m.kind = "stats" \/ (m.kind = "recent" /\ m.alerts # <<>>)

\* A snapshot never lags behind what the client was told before, by the stream
\* or by another snapshot: the dispatcher records before it broadcasts.
SnapshotsKeepUp ==
  \A c \in Clients :
    \A i, j \in 1..Len(conn[c].sent) :
      i < j /\ Snapshot(conn[c].sent[j])
      => Reach(conn[c].sent[i]) <= Reach(conn[c].sent[j])

\* A snapshot joins the stream: a Recent has consecutive alerts and reaches at
\* least to the alert before the first of the stream, so that a client that
\* asks for both misses nothing between them, in whichever order it asks.
SnapshotJoinsStream ==
  \A c \in Clients :
    \A i \in 1..Len(conn[c].sent) :
      LET m == conn[c].sent[i]
      IN  m.kind = "recent" =>
            /\ \A j \in 2..Len(m.alerts) : m.alerts[j].id = m.alerts[j-1].id + 1
            /\ m.alerts # <<>> => Last(m.alerts).id >= conn[c].base
            /\ m.alerts = <<>> => conn[c].base = 0 \/ MaxLimit = 0 \/ 0 \in Limits

\* The kind of message a request is answered with.
ReplyTo == [get_recent |-> "recent", get_stats |-> "stats", ping |-> "pong",
            invalid |-> "error", too_long |-> "error"]

\* How many of the first n members of a sequence are of these kinds.
CountOf(kinds, s, n) == Cardinality({i \in 1..n : s[i].kind \in kinds})

\* The conversation follows the protocol: Hello comes first and only then, each
\* request that has a reply has one, the n-th reply is of the kind of the n-th such
\* request, and there are alerts among them only when a Subscribe was read.
Conversation ==
  \A c \in Clients :
    LET k == conn[c]
        replies(n) == CountOf({"recent", "stats", "pong", "error"}, k.sent, n)
        answered(n) == CountOf(DOMAIN ReplyTo, k.asked, n)
    IN  k.link \in {"open", "closed"} =>
          /\ k.sent # <<>>
          /\ \A i \in 1..Len(k.sent) : k.sent[i].kind = "hello" <=> i = 1
          /\ replies(Len(k.sent)) = answered(k.served)
          /\ \A i \in 1..Len(k.sent), j \in 1..k.served :
               /\ k.sent[i].kind \notin {"hello", "alert"}
               /\ k.asked[j].kind \in DOMAIN ReplyTo /\ replies(i) = answered(j)
               => k.sent[i].kind = ReplyTo[k.asked[j].kind]
          /\ (\E i \in 1..Len(k.sent) : k.sent[i].kind = "alert")
               => \E j \in 1..k.served : k.asked[j].kind = "subscribe"

\* The last line the session read was not UTF-8.
Garbled(k) == k.served > 0 /\ k.asked[k.served].kind = "not_utf8"

\* Every alert of the feed is relayed to a subscriber that goes on reading, or
\* it is among those that Lagged skipped; only the client itself, by leaving or
\* by a garbled line, or a stop of the daemon ends its stream.
EventuallyRelayed(c) ==
  \A id \in 1..MaxRaised :
    (conn[c].link = "open" /\ conn[c].subscribed /\ Len(feed) >= id)
      ~> (\/ conn[c].cursor >= id
          \/ conn[c].link \in {"closed", "none"} \/ Garbled(conn[c]) \/ ~up)

\* Every line of a client that goes on reading is dealt with.
EventuallyServed(c) ==
  (conn[c].link = "open" /\ conn[c].served < Len(conn[c].asked))
    ~> (conn[c].link # "open" \/ conn[c].served = Len(conn[c].asked))

\* The session of a client that has left ends, even one that waits in a write.
SessionsReclaimed ==
  \A c \in Clients : (conn[c].link = "closed") ~> (conn[c].link # "closed")
=============================================================================
