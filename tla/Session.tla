------------------------------- MODULE Session -------------------------------
(***************************************************************************)
(* A whole test of the integration suite: a test function that takes the  *)
(* gkfs_daemon fixture and a client fixture (gkfs_shell or gkfs_client),  *)
(* in that order, as the tests under shell/ and operations/ do.  pytest   *)
(* runs the gkfs_daemon fixture up to its yield (Daemon.run), then builds *)
(* the client (ShellClient or Client.__init__), then runs the test body,  *)
(* whose client calls each start a process that talks to the daemon.      *)
(* When the body returns or raises, pytest resumes gkfs_daemon after its  *)
(* yield, which calls Daemon.shutdown (conftest.py 82-92).  pytest.exit   *)
(* from a client constructor ends the session, and the fixture is torn    *)
(* down at the session's end.                                              *)
(*                                                                         *)
(* The fixture and the daemon are module Supervisor with one daemon, the  *)
(* client module Clients, composed: the pytest thread runs the steps of   *)
(* both, the daemon may die at any time, also while a client call waits.  *)
(***************************************************************************)
EXTENDS Supervisor

CONSTANTS
    Kinds,          \* the client fixture the test takes
    ClientTimeout,  \* ShellClient's timeout=60, in ticks
    MaxCalls,       \* client calls the test body makes
    Codes,          \* exit statuses a client process may end with
    NoLimit         \* no _timeout given to sh

ASSUME Teardown /\ NumDaemons = 1

VARIABLES
    kind, tpc, proc, code, limit, celapsed, calls, result

clientVars == <<kind, tpc, proc, code, limit, celapsed, calls, result>>

sessionVars == <<vars, clientVars>>

\* The client side: the test's own program counter is tpc, and the time a
\* call has been blocked in sh is celapsed.
C == INSTANCE Clients WITH pc <- tpc, elapsed <- celapsed,
                           Timeout <- ClientTimeout

SessionInit == Init /\ C!Init

\* The steps of Daemon.run and Daemon.shutdown; the client is not built
\* yet, or is finished.
FixtureStep ==
    /\ Spawn \/ Poll \/ CheckAlive \/ Expire \/ RunFailed \/ Terminate
       \/ WaitExit
    /\ UNCHANGED clientVars

FixtureClock == Tick /\ UNCHANGED clientVars

\* The daemon logs, dies, or exits on SIGTERM, whatever the client does.
DaemonSide == DaemonStep /\ UNCHANGED clientVars

\* run() has handed the daemon to the test: the client fixture is built
\* and the body makes its calls.
TestSide == pc = "body" /\ C!TestStep /\ UNCHANGED vars

\* The test function returns, or raises (ErrorReturnCode,
\* TimeoutException, pytest.exit's Exit): gkfs_daemon resumes after its
\* yield and calls daemon.shutdown().
BodyEnds ==
    /\ tpc \in {"done", "raised", "exited"}
    /\ EndBody
    /\ UNCHANGED clientVars

\* sh returns a finished call or kills it at its _timeout.
ShSide == C!ShStep /\ UNCHANGED vars

ClientClock == C!Tick /\ UNCHANGED vars

\* The client process of a call ends, against a live daemon or a dead one
\* (the client library's RPC fails); it may also never end.
ClientExit == C!ProcExit /\ UNCHANGED vars

PytestStep == FixtureStep \/ TestSide \/ BodyEnds

SessionNext ==
    PytestStep \/ FixtureClock \/ DaemonSide \/ ShSide \/ ClientClock
    \/ ClientExit

\* The pytest thread and sh's thread are scheduled and time advances; a
\* signalled daemon exits (as in Supervisor).  Neither the daemon's
\* startup nor a client process is assumed ever to finish.
SessionFairness ==
    /\ WF_sessionVars(PytestStep)
    /\ WF_sessionVars(FixtureClock)
    /\ WF_sessionVars(ShSide)
    /\ WF_sessionVars(ClientClock)
    /\ \A d \in Daemons : WF_sessionVars(DaemonOnSigterm(d) /\ UNCHANGED clientVars)

SessionSpec == SessionInit /\ [][SessionNext]_sessionVars /\ SessionFairness

=============================================================================
