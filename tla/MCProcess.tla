------------------------------ MODULE MCProcess ------------------------------
\* Processes that show nothing, one thing or, deleted from /tmp, two.
EXTENDS ProcessMonitor

MCMarkSets == {{}, {"preload"}, {"deleted", "tmp"}, {"preload", "closed"}}
=============================================================================
