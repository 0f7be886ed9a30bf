------------------------------- MODULE MCAudit -------------------------------
(* The audit monitor and a few kinds of lines. *)
EXTENDS AuditTail

MCLines == {<<"AVC", "denied", "critical">>, <<"MAC_STATUS", "enforcing=0">>,
            <<"OTHER", "not_utf8">>}
=============================================================================
