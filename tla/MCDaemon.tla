------------------------------- MODULE MCDaemon ------------------------------
(* The files an administrator may have written. *)
EXTENDS DaemonProcess

Edited(field, value) == [DefaultConfig EXCEPT ![field] = value]

MCConfigFiles ==
  {Absent, Broken, DefaultConfig,
   Edited("language", "other"), Edited("relative", TRUE),
   [DefaultConfig EXCEPT !.zero = {"debounce_secs"}, !.enabled = {"filesystem"}]}
    \cup {Edited("zero", {n}) : n \in Numbers \ {"debounce_secs"}}

MCRulesFiles ==
  {Absent, Broken, DefaultRules, [ignore_paths |-> {}]}
=============================================================================
