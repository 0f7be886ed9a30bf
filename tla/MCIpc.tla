-------------------------------- MODULE MCIpc --------------------------------
(* The IPC server with clients that do whatever a client may do. *)
EXTENDS IpcServer

CONSTANT
  MaxAsked  \* bound: lines a client writes on a connection

Init == PipeInit /\ IpcInit

AnyClient(c) ==
  \/ Connect(c)
  \/ Len(conn[c].asked) < MaxAsked /\ \E req \in Request : Ask(c, req)
  \/ Take(c)
  \/ Close(c)

Next == DaemonNext \/ \E c \in Clients : AnyClient(c)

Spec == Init /\ [][Next]_vars

\* A client that has not left goes on reading; one that has, does not: the write that
\* its session may wait in is ended by EndSession alone.
FairSpec ==
  /\ Spec /\ PipeFairness /\ IpcFairness
  /\ \A c \in Clients : WF_vars(conn[c].link # "closed" /\ Take(c))

\* A client that goes on reading is relayed every alert and has every line of its
\* dealt with, while alerts and answers wait for each other and for its socket.
ReadersServed ==
  \A c \in Clients : EventuallyRelayed(c) /\ EventuallyServed(c)
=============================================================================
