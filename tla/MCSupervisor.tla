---------------------------- MODULE MCSupervisor ----------------------------
(* Model-checking instance of Supervisor.  The bounds are chosen so that   *)
(* each daemon logs a line before its readiness message (Preamble = 1),    *)
(* so a scan can meet a log without the message; MaxLines leaves room for  *)
(* the first daemon's lines; Timeout = 2 lets a poll happen both before    *)
(* and after the log is created within one wait.                           *)
EXTENDS Supervisor

MCTimeout == 2
MCMaxLines == 3
MCPreamble == 1
=============================================================================
