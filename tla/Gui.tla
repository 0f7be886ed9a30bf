--------------------------------- MODULE Gui ---------------------------------
(***************************************************************************)
(* The graphical interface (owlsentry-gui) connected to the daemon: the    *)
(* thread of client.rs keeps a connection, subscribes, asks for the recent *)
(* alerts and turns messages into events; the interface (app.rs) takes the *)
(* events out of an unbounded channel once a frame and keeps the list of   *)
(* alerts it shows.                                                        *)
(***************************************************************************)
EXTENDS IpcServer

CONSTANTS
  TheGui,         \* the client that is the GUI
  GuiLimit,       \* the limit it asks for: 500 in client.rs
  MaxAlerts,      \* MAX_ALERTS_IN_MEMORY, 5000 in app.rs
  Urgent,         \* the severities from High on
  MaxEvents       \* bound: events that wait for the interface

ASSUME GuiAssumption ==
  /\ TheGui \in Clients /\ GuiLimit \in Limits /\ GuiLimit > 0 /\ MaxLimit > 0
  /\ MaxAlerts \in Nat \ {0} /\ MaxEvents \in Nat \ {0}
  /\ Urgent \subseteq Severities

VARIABLES
  thread,    \* what the thread of client.rs does next
  events,    \* the channel from the thread to the interface
  app,       \* the part of OwlSentryApp that the events change
  notified   \* the tags of the alerts put on the desktop, in order

guiVars == <<thread, events, app, notified>>
allVars == <<vars, guiVars>>

link == conn[TheGui].link

GuiInit ==
  /\ thread = "connect" /\ events = <<>>
  /\ app = [connected |-> FALSE, alerts |-> <<>>]
  /\ notified = <<>>

Emit(event) == Len(events) < MaxEvents /\ events' = Append(events, event)
Connected == [kind |-> "connected"]
Disconnected == [kind |-> "disconnected"]

-----------------------------------------------------------------------------
(* client.rs: the thread *)

GuiConnect ==
  /\ thread = "connect"
  /\ Connect(TheGui)
  /\ thread' = "subscribe"
  /\ UNCHANGED <<events, app, notified>>

\* Nobody listens on the socket.
GuiRefused ==
  /\ thread = "connect" /\ listener # "open"
  /\ Emit(Disconnected) /\ thread' = "sleep"
  /\ UNCHANGED <<vars, app, notified>>

\* The slip of asking for the recent alerts without subscribing.
GuiAsks_RecentOnly ==
  /\ \/ thread = "subscribe" /\ thread' = "recent" /\ UNCHANGED vars
     \/ /\ thread = "recent"
        /\ Ask(TheGui, [kind |-> "get_recent", limit |-> GuiLimit])
        /\ thread' = "read"
  /\ UNCHANGED <<events, app, notified>>

GuiAsks ==
  /\ \/ /\ thread = "subscribe" /\ Ask(TheGui, [kind |-> "subscribe"])
        /\ thread' = "recent"
     \/ /\ thread = "recent"
        /\ Ask(TheGui, [kind |-> "get_recent", limit |-> GuiLimit])
        /\ thread' = "read"
  /\ UNCHANGED <<events, app, notified>>

\* The daemon has gone before both requests were written.
GuiAskFails ==
  /\ thread \in {"subscribe", "recent"} /\ link = "hup"
  /\ Close(TheGui)
  /\ Emit(Disconnected) /\ thread' = "sleep"
  /\ UNCHANGED <<app, notified>>

\* try_clone fails: the connection is dropped without an event.
GuiCloneFails ==
  /\ thread = "read" /\ conn[TheGui].taken = 0
  /\ Close(TheGui)
  /\ thread' = "sleep"
  /\ UNCHANGED <<events, app, notified>>

\* The slip of notifying the alerts of a snapshot too.
GuiReads_NotifiesAll ==
  /\ thread = "read" /\ CanTake(TheGui)
  /\ LET m == NextMessage(TheGui)
     IN  /\ CASE m.kind = "hello" -> Emit(Connected)
              [] m.kind \in {"alert", "recent"} -> Emit(m)
              [] OTHER -> UNCHANGED events
         /\ notified' = notified \o
              (CASE m.kind = "alert" -> <<m.alert.tag>>
                 [] m.kind = "recent" -> [i \in 1..Len(m.alerts) |-> m.alerts[i].tag]
                 [] OTHER -> <<>>)
  /\ Take(TheGui)
  /\ UNCHANGED <<thread, app>>

\* A line is read and becomes an event; a live alert that is urgent is put on
\* the desktop first.  (The user may untick the box and get fewer of these.)
GuiReads ==
  /\ thread = "read" /\ CanTake(TheGui)
  /\ LET m == NextMessage(TheGui)
     IN  /\ CASE m.kind = "hello" -> Emit(Connected)
              [] m.kind \in {"alert", "recent"} -> Emit(m)
              [] OTHER -> UNCHANGED events
         /\ notified' = IF m.kind = "alert" /\ m.alert.sev \in Urgent
                        THEN Append(notified, m.alert.tag) ELSE notified
  /\ Take(TheGui)
  /\ UNCHANGED <<thread, app>>

\* The slip of going to sleep without telling the interface.
GuiHangup_Silent ==
  /\ thread = "read" /\ link = "hup" /\ ~CanTake(TheGui)
  /\ Close(TheGui)
  /\ thread' = "sleep"
  /\ UNCHANGED <<events, app, notified>>

\* The slip of a thread that ends with its first connection.
GuiHangup_EndsThread ==
  /\ thread = "read" /\ link = "hup" /\ ~CanTake(TheGui)
  /\ Close(TheGui)
  /\ Emit(Disconnected) /\ thread' = "ended"
  /\ UNCHANGED <<app, notified>>

\* The end of the stream.
GuiHangup ==
  /\ thread = "read" /\ link = "hup" /\ ~CanTake(TheGui)
  /\ Close(TheGui)
  /\ Emit(Disconnected) /\ thread' = "sleep"
  /\ UNCHANGED <<app, notified>>

\* Three seconds later.
GuiWakes ==
  /\ thread = "sleep" /\ thread' = "connect"
  /\ UNCHANGED <<vars, events, app, notified>>

-----------------------------------------------------------------------------
(* app.rs: drain_events *)

\* The members of s at these places, in a stable sort by timestamp: the one that has
\* k - 1 others before it comes k-th.
SortedByTime(s, places) ==
  LET rank(i) == Cardinality({j \in places :
                   s[j].ts < s[i].ts \/ (s[j].ts = s[i].ts /\ j <= i)})
  IN  [k \in 1..Cardinality(places) |-> s[CHOOSE i \in places : rank(i) = k]]

\* The slip of appending the snapshot to the list as it is.
Merge_Appends(alerts, recent) ==
  SortedByTime(alerts \o recent, 1..Len(alerts \o recent))

\* The places that are left when the snapshot takes those of the alerts that bear its
\* ids.
Retained(alerts, recent) ==
  LET known == {recent[i].id : i \in 1..Len(recent)}
  IN  {i \in 1..Len(alerts \o recent) : i <= Len(alerts) => alerts[i].id \notin known}

\* The snapshot takes the place of the alerts that bear its ids; the others stay.
Merge(alerts, recent) == SortedByTime(alerts \o recent, Retained(alerts, recent))

\* drain_events: what one event does to the interface.
Apply(a, event) ==
  CASE event.kind = "connected" -> [a EXCEPT !.connected = TRUE]
    [] event.kind = "disconnected" -> [a EXCEPT !.connected = FALSE]
    [] event.kind = "alert" ->
         [a EXCEPT !.alerts = LastN(Append(@, event.alert), MaxAlerts)]
    [] event.kind = "recent" -> [a EXCEPT !.alerts = Merge(@, event.alerts)]

\* alert_list: the row a click selects is kept by its id, and the panel beside the
\* list shows the first alert with that id.
Details(alerts, id) == alerts[CHOOSE i \in 1..Len(alerts) :
  alerts[i].id = id /\ \A j \in 1..i-1 : alerts[j].id # id]

\* A turn of the loop of drain_events; the thread may send between two turns.
DrainEvents ==
  /\ events # <<>>
  /\ app' = Apply(app, Head(events))
  /\ events' = Tail(events)
  /\ UNCHANGED <<vars, thread, notified>>

-----------------------------------------------------------------------------
(* The daemon and its GUI *)

GuiThread ==
  GuiConnect \/ GuiRefused \/ GuiAsks \/ GuiAskFails \/ GuiReads \/ GuiHangup
    \/ GuiWakes

Init == PipeInit /\ IpcInit /\ GuiInit

Next ==
  \/ DaemonNext /\ UNCHANGED guiVars
  \/ GuiThread \/ GuiCloneFails
  \/ DrainEvents

Spec == Init /\ [][Next]_allVars

\* The thread is never stopped and eframe draws a frame at least every second.
FairSpec ==
  /\ Spec /\ PipeFairness /\ IpcFairness
  /\ WF_allVars(GuiThread) /\ WF_allVars(DrainEvents)

-----------------------------------------------------------------------------
(* What the GUI promises *)

Listed(a) == \E i \in 1..Len(app.alerts) : app.alerts[i] = a

\* Once the events are drained the light is green exactly while the thread
\* reads from a daemon that has said Hello: no path through the thread, not
\* even the one that says nothing, leaves a stale light.
LightAgrees ==
  events = <<>> =>
    (app.connected <=> thread = "read" /\ conn[TheGui].taken > 0)

\* The interface has seen all that the session of its daemon has sent.
CaughtUp ==
  /\ link = "open" /\ events = <<>>
  /\ thread = "read" /\ ~CanTake(TheGui)

\* No alert falls between the snapshot and the stream: an interface that has
\* caught up and has a snapshot lists every alert since the last one of the
\* snapshot up to where the session is, unless Lagged skipped some or the list
\* is full.
ListComplete ==
  (CaughtUp /\ conn[TheGui].missed = 0 /\ Len(app.alerts) < MaxAlerts) =>
    \A i \in 1..Len(conn[TheGui].sent) :
      LET m == conn[TheGui].sent[i]
      IN  m.kind = "recent" =>
            /\ \A j \in 1..Len(m.alerts) : Listed(m.alerts[j])
            /\ \A id \in Reach(m) + 1 .. conn[TheGui].cursor : Listed(feed[id])

\* An alert is put on the desktop at most once, reconnections included.
NotifiedOnce ==
  \A i, j \in 1..Len(notified) : i # j => notified[i] # notified[j]

\* An alert is listed once, or twice if the session sent it first in a snapshot
\* and then in the stream (it was recorded before the snapshot and broadcast
\* after it): drain_events does not look for a live alert in the list, but the
\* snapshot takes the place of the live alerts it holds.
TwiceOnlyAfterSnapshot ==
  link = "open" =>
    \A a \in {feed[id] : id \in 1..Len(feed)} :
      LET sent == conn[TheGui].sent
          again == \E i, j \in 1..Len(sent) :
                     /\ i < j /\ sent[i].kind = "recent" /\ sent[j].kind = "alert"
                     /\ Contains(sent[i].alerts, a) /\ sent[j].alert = a
      IN  Cardinality({i \in 1..Len(app.alerts) : app.alerts[i] = a})
            <= (IF again THEN 2 ELSE 1)

\* The panel shows the alert of the row that is selected, or an older one that has
\* the same id by another process of the daemon: within one process an id selects
\* one alert, across a restart it may select what the snapshot has left of before.
DetailsAgree ==
  \A i \in 1..Len(app.alerts) :
    LET row == app.alerts[i]
        details == Details(app.alerts, row.id)
        current(a) == \E k \in 1..Len(feed) : feed[k] = a
    IN  \/ details = row
        \/ details.tag < row.tag /\ boot > 1 /\ ~current(details)

\* The light settles on the truth: green if the daemon stays up and listens (and
\* the thread's try_clone does not fail for ever), red if it stays down.
LightSettles ==
  /\ (<>[](up /\ listener = "open") /\ <>[][~GuiCloneFails]_allVars)
       => <>[]app.connected
  /\ <>[]~up => <>[]~app.connected

\* An alert that is broadcast while the GUI is connected is shown, unless the
\* daemon stops, the connection is dropped, the session lags or the list is full.
EventuallyShown ==
  \A tag \in 1..MaxRaised :
    (link = "open" /\ \E id \in conn[TheGui].base + 1 .. Len(feed) : feed[id].tag = tag)
      ~> (\/ \E i \in 1..Len(app.alerts) : app.alerts[i].tag = tag
          \/ link # "open" \/ conn[TheGui].missed > 0
          \/ Len(app.alerts) >= MaxAlerts)
=============================================================================
