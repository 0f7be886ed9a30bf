-------------------------------- MODULE MCNet --------------------------------
(* The tables the network monitor may be shown: a scan that goes from one poll *)
(* to the next, a probe of a local and of an exempt address, a shell.          *)
EXTENDS NetMonitor

Half(i, p) == [state |-> "SYN_RECV", ip |-> i, port |-> p]
Est(i, p, o) == [state |-> "ESTABLISHED", ip |-> i, port |-> p, pid |-> o]

MCTables ==
  { <<>>,
    << Half("far", 1) >>,
    << Half("far", 2), Half("loop", 1) >>,
    << Half("far", 1), Half("far", 2) >>,
    << Half("friend", 1), Half("friend", 2), [state |-> "LISTEN", port |-> 1] >>,
    << [state |-> "LISTEN", port |-> 1], [state |-> "LISTEN", port |-> 2] >>,
    << Est("far", 1, 7), Est("loop", 1, 7) >>,
    << Est("far", 2, 7), Est("friend", 1, NoPid), Est("far", 1, 8) >> }
=============================================================================
