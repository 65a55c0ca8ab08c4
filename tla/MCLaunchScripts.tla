--------------------------- MODULE MCLaunchScripts ---------------------------
(* Model-checking instance of LaunchScripts: two nodes for the operator,  *)
(* the fewest for one to be listed first and the other to go unchecked,   *)
(* and one node of another job.                                            *)
EXTENDS LaunchScripts

CONSTANTS h1, h2, h3, j1

MCHosts == {h1, h2}
MCOtherHosts == {h3}
\* The operator passes -J to both scripts.
MCOwnJobs == {j1}

\* The operator runs both scripts without -J, the default.
MCNoJobs == {NoJob}
=============================================================================
