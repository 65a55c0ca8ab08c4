------------------------------- MODULE Clients -------------------------------
(***************************************************************************)
(* The client wrappers of harness/gkfs.py, as a test uses them: Client    *)
(* and FwdClient (gkfs.io or gkfwd.io with the interception library       *)
(* preloaded), ShellClient and ShellFwdClient (bash -c with the same      *)
(* environment).  The Fwd classes repeat the others line for line, apart  *)
(* from the forwarding-map file they write.  Construction looks for the   *)
(* client library in the workspace's bindirs and ends the pytest session  *)
(* unless exactly one copy is found.  Every call then runs a new process  *)
(* through the sh library and blocks until sh returns or raises:          *)
(*   - exit status 0: the call returns (Client.run decodes the output);   *)
(*   - any other status: sh raises ErrorReturnCode, since no _ok_code is  *)
(*     passed;                                                             *)
(*   - with _timeout: when the time is up sh sends _timeout_signal        *)
(*     (SIGKILL) and raises TimeoutException.                              *)
(* The client process is the environment: it exits with some status or    *)
(* hangs (a dead or wedged daemon leaves the client library waiting).     *)
(***************************************************************************)
EXTENDS Naturals

CONSTANTS
    Kinds,      \* the client classes a test may use
    Timeout,    \* ShellClient's timeout=60, in ticks of wall-clock time
    MaxCalls,   \* calls the test body makes
    Codes,      \* exit statuses the client process may end with
    NoLimit     \* no _timeout given to sh

IOKinds == {"io", "fwd"}            \* Client, FwdClient
ShellKinds == {"shell", "shellfwd"} \* ShellClient, ShellFwdClient

ASSUME /\ Kinds \subseteq IOKinds \cup ShellKinds
       /\ Timeout \in Nat \ {0}
       /\ MaxCalls \in Nat \ {0}
       /\ 0 \in Codes /\ Codes \subseteq 0..255
       /\ NoLimit \notin Nat

VARIABLES
    kind,     \* the class of the client the test built
    pc,       \* the test: "init", "ready", "waiting", "raised", "done", "exited"
    proc,     \* the client process of the current call: "none", "running",
              \* "exited" or "killed"
    code,     \* its exit status
    limit,    \* the _timeout sh enforces on the current call
    elapsed,  \* wall-clock time since the call started, up to the limit
    calls,    \* calls made so far
    result    \* what the last call gave the test: "none", "returned",
              \* "ErrorReturnCode" or "TimeoutException"

vars == <<kind, pc, proc, code, limit, elapsed, calls, result>>

TypeOK ==
    /\ kind \in Kinds
    /\ pc \in {"init", "ready", "waiting", "raised", "done", "exited"}
    /\ proc \in {"none", "running", "exited", "killed"}
    /\ code \in Codes
    /\ limit \in (1..Timeout) \cup {NoLimit}
    /\ elapsed \in 0..Timeout
    /\ calls \in 0..MaxCalls
    /\ result \in {"none", "returned", "ErrorReturnCode", "TimeoutException"}

Init ==
    /\ kind \in Kinds
    /\ pc = "init"
    /\ proc = "none"
    /\ code = 0
    /\ limit = NoLimit
    /\ elapsed = 0
    /\ calls = 0
    /\ result = "none"

\* The search of the bindirs: exactly one copy of the library lets the
\* test go on; none or several end the session with pytest.exit.
FoundLibrary(found) ==
    /\ pc' = IF found = 1 THEN "ready" ELSE "exited"
    /\ UNCHANGED <<kind, proc, code, limit, elapsed, calls, result>>

\* Client.__init__: two checks, len(preloads) == 0 and len(preloads) != 1.
Construct ==
    /\ pc = "init"
    /\ kind = "io"
    /\ \E found \in 0..2 : FoundLibrary(found)

\* FwdClient.__init__: writes the client's forwarding map, then the same
\* two checks as Client.
ConstructFwd ==
    /\ pc = "init"
    /\ kind = "fwd"
    /\ \E found \in 0..2 : FoundLibrary(found)

\* ShellClient.__init__: the single check len(preloads) != 1.
ConstructShell ==
    /\ pc = "init"
    /\ kind = "shell"
    /\ \E found \in 0..2 : FoundLibrary(found)

\* ShellFwdClient.__init__: writes the shared forwarding map (daemon 0),
\* then the single check of ShellClient.
ConstructShellFwd ==
    /\ pc = "init"
    /\ kind = "shellfwd"
    /\ \E found \in 0..2 : FoundLibrary(found)

\* sh starts the client process for a call with the given _timeout.
StartCall(timeout) ==
    /\ pc = "ready"
    /\ calls < MaxCalls
    /\ pc' = "waiting"
    /\ proc' = "running"
    /\ limit' = timeout
    /\ elapsed' = 0
    /\ calls' = calls + 1
    /\ UNCHANGED <<kind, code, result>>

\* Client.run: self._cmd([cmd] + args, _env=...), no _timeout.
Run ==
    /\ kind = "io"
    /\ StartCall(NoLimit)

\* FwdClient.run: the same call of gkfwd.io, no _timeout.
FwdRun ==
    /\ kind = "fwd"
    /\ StartCall(NoLimit)

\* Mutant: ShellClient.run calls sh without _timeout.
ShellRunNoTimeout ==
    /\ kind = "shell"
    /\ StartCall(NoLimit)

\* ShellClient.run: bash -c "cmd args", _timeout=timeout (60 s), SIGKILL.
ShellRun ==
    /\ kind = "shell"
    /\ StartCall(Timeout)

\* ShellClient.script: bash -c code, with the same _timeout.
Script ==
    /\ kind = "shell"
    /\ StartCall(Timeout)

\* ShellFwdClient.run and ShellFwdClient.script, copies of ShellClient's.
ShellFwdRun ==
    /\ kind = "shellfwd"
    /\ StartCall(Timeout)

ShellFwdScript ==
    /\ kind = "shellfwd"
    /\ StartCall(Timeout)

\* The process ends with an exit status.  No step of the process is
\* assured: it may hang.
ProcExit ==
    /\ proc = "running"
    /\ proc' = "exited"
    /\ \E c \in Codes : code' = c
    /\ UNCHANGED <<kind, pc, limit, elapsed, calls, result>>

\* sh's wait returns on an exited process: status 0 gives the call's
\* value to the test (Client.run then parses out.stdout; ShellClient.run
\* wraps it in a ShellCommand); any other status is not an ok code and
\* raises ErrorReturnCode, which fails the test.
Complete ==
    /\ pc = "waiting"
    /\ proc = "exited"
    /\ pc' = IF code = 0 THEN "ready" ELSE "raised"
    /\ result' = IF code = 0 THEN "returned" ELSE "ErrorReturnCode"
    /\ UNCHANGED <<kind, proc, code, limit, elapsed, calls>>

\* sh's timer: the time is up, the process is sent SIGKILL, and the call
\* raises TimeoutException.
TimeoutKill ==
    /\ pc = "waiting"
    /\ proc = "running"
    /\ limit # NoLimit
    /\ elapsed = limit
    /\ proc' = "killed"
    /\ pc' = "raised"
    /\ result' = "TimeoutException"
    /\ UNCHANGED <<kind, code, limit, elapsed, calls>>

\* Wall-clock time passes while the call is blocked in sh.
Tick ==
    /\ pc = "waiting"
    /\ proc = "running"
    /\ elapsed < Timeout
    /\ elapsed' = elapsed + 1
    /\ UNCHANGED <<kind, pc, proc, code, limit, calls, result>>

\* The test body returns after its calls.
EndTest ==
    /\ pc = "ready"
    /\ pc' = "done"
    /\ UNCHANGED <<kind, proc, code, limit, elapsed, calls, result>>

TestStep ==
    \/ Construct \/ ConstructFwd \/ ConstructShell \/ ConstructShellFwd
    \/ Run \/ FwdRun \/ ShellRun \/ Script \/ ShellFwdRun \/ ShellFwdScript
    \/ EndTest

ShStep == Complete \/ TimeoutKill

Next == TestStep \/ ShStep \/ Tick \/ ProcExit

\* The test's thread and sh's waiting and timer thread are scheduled and
\* the clock advances; the client process need not ever exit.
Fairness ==
    /\ WF_vars(TestStep)
    /\ WF_vars(ShStep)
    /\ WF_vars(Tick)

Spec == Init /\ [][Next]_vars /\ Fairness

-----------------------------------------------------------------------------
(* Properties.                                                             *)

\* Every client call returns or raises: the control thread never blocks
\* indefinitely (spec.md section 5), whatever the client process does.
CallReturns == (pc = "waiting") ~> (pc \in {"ready", "raised"})

\* A call of a shell client returns its process to the test whatever the
\* exit status, for the test to check the status itself: the comment in
\* ShellClient.run (gkfs.py 620-623) says every exit code is whitelisted
\* through sh's _ok_code, and the shell tests assert on exit_code.
ShellStatusReturned == kind \in ShellKinds => result # "ErrorReturnCode"

=============================================================================
