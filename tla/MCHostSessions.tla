--------------------------- MODULE MCHostSessions ---------------------------
(* Small instances of HostSessions for TLC. *)
EXTENDS HostSessions

=============================================================================
