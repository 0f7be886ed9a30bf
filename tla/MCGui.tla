-------------------------------- MODULE MCGui --------------------------------
(* The whole system: monitors, dispatcher, IPC server and one GUI. *)
EXTENDS Gui
=============================================================================
