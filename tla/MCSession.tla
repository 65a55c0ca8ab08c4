----------------------------- MODULE MCSession -----------------------------
(* Model-checking instance of Session: the bounds of MCSupervisor for the *)
(* fixture; for the client, two ticks of timeout (a process can end      *)
(* before it or be killed at it), two calls (one after a success) and a  *)
(* success and a failure status.                                          *)
EXTENDS Session

MCTimeout == 2
MCMaxLines == 3
MCPreamble == 1
MCClientTimeout == 2
MCCodes == {0, 1}
=============================================================================
