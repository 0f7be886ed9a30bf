--------------------------------- MODULE MCFs --------------------------------
(* The file system monitor with one sensitive file, one log and one script. *)
EXTENDS FsMonitor
=============================================================================
