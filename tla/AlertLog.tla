------------------------------ MODULE AlertLog -------------------------------
(***************************************************************************)
(* What the alert pipeline promises its users, without channels, tasks or  *)
(* a journal: alerts are offered by sources and published one at a time,   *)
(* numbered 1, 2, 3, ... in the order of publication, each once, those of  *)
(* one source in the order in which it offered them.  The only way to lose *)
(* an alert, or to start numbering again, is to lose everything: a stop of *)
(* the daemon.                                                             *)
(***************************************************************************)
EXTENDS Naturals, Sequences

VARIABLES
  offered,  \* alerts offered and not yet published; their id is 0
  log       \* the published alerts

logVars == <<offered, log>>

LogInit == offered = {} /\ log = <<>>

\* A source offers an alert younger than all it has offered before.
Offer ==
  \E a \in offered' \ offered :
    /\ offered' = offered \cup {a}
    /\ a.id = 0
    /\ \A b \in offered \cup {log[k] : k \in 1..Len(log)} :
         b.src = a.src => b.tag < a.tag
    /\ UNCHANGED log

\* The oldest alert on offer of some source is published.
Publish ==
  \E a \in offered :
    /\ \A b \in offered : b.src = a.src => a.tag <= b.tag
    /\ log' = Append(log, [a EXCEPT !.id = Len(log) + 1])
    /\ offered' = offered \ {a}

Lose == offered' = {} /\ log' = <<>>

LogNext == Offer \/ Publish \/ Lose

Spec == LogInit /\ [][LogNext]_logVars

\* While something stays on offer, something is published in the end.
FairSpec == Spec /\ WF_logVars(Publish)
=============================================================================
