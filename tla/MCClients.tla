----------------------------- MODULE MCClients -----------------------------
(* Model-checking instance of Clients.  Three ticks of wall-clock time let  *)
(* a process exit both before and at the timeout; four calls let a test   *)
(* go on after a successful call; statuses 0 and 1 are a success and a    *)
(* failure of the command.                                                 *)
EXTENDS Clients

MCTimeout == 3
MCCodes == {0, 1}

MCAllKinds == IOKinds \cup ShellKinds
=============================================================================
