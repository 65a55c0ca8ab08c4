------------------------------ MODULE Supervisor ------------------------------
(***************************************************************************)
(* How the integration-test harness supervises GekkoFS daemon processes:  *)
(* Daemon.run, Daemon.wait_until_active, Daemon.shutdown and              *)
(* _process_exists (src/tests/integration/harness/gkfs.py), driven either *)
(* by the gkfs_daemon fixture of conftest.py (one daemon, shut down at    *)
(* teardown) or by FwdDaemonCreator.create (several daemons started from  *)
(* a test body in one workspace, never shut down).  FwdDaemon repeats the *)
(* code of Daemon line for line.                                          *)
(*                                                                         *)
(* The daemon itself is an external binary: its steps (logging, crashing, *)
(* reacting to SIGTERM) are the environment of the harness.  Every daemon *)
(* of a workspace writes the same log file, logdir/gkfs_daemon.log        *)
(* (GKFS_DAEMON_LOG_PATH), which the harness scans for the readiness line *)
(* "Startup successful. Daemon is ready."                                  *)
(***************************************************************************)
EXTENDS Naturals, Sequences

CONSTANTS
    NumDaemons,  \* daemons the test starts, one after the other
    Teardown,    \* TRUE: gkfs_daemon fixture; FALSE: FwdDaemonCreator.create
    Timeout,     \* ticks of perf_counter() before wait_until_active gives up
    MaxLines,    \* max_lines: log lines scanned for the readiness message
    Preamble     \* lines a daemon logs before its readiness message

ASSUME /\ NumDaemons \in Nat \ {0}
       /\ Teardown \in BOOLEAN
       /\ Teardown => NumDaemons = 1   \* the fixture yields a single daemon
       /\ Timeout \in Nat \ {0}
       /\ MaxLines \in Nat \ {0}
       /\ Preamble \in Nat

Daemons == 1..NumDaemons

VARIABLES
    dproc,       \* daemon process: "unspawned", "init", "ready" or "exited"
    written,     \* lines each daemon has written to the log
    exitStatus,  \* how an exited daemon ended: "ok", "sigterm" or "error"
    sigterm,     \* SIGTERM has been sent to the daemon
    log,         \* contents of the workspace's daemon log file
    pc,          \* the harness's single control thread
    cur,         \* the daemon run() / shutdown() is working on
    elapsed,     \* perf_counter() - init_time, saturated at Timeout
    err,         \* the exception the harness is propagating
    active,      \* run() has returned this daemon to the test
    caller,      \* who called shutdown(): "run" or "teardown"
    polled,      \* the polling loop made a pass since the clock last ticked
    deadEarly    \* history: at a tick before the deadline the daemon was
                 \* already gone and its log did not exist

daemonVars == <<dproc, written, exitStatus, sigterm>>
loopVars == <<polled, deadEarly>>
harnessVars == <<pc, cur, elapsed, err, active, caller, loopVars>>
vars == <<daemonVars, log, harnessVars>>

Done == {"done", "raised"}

TypeOK ==
    /\ dproc \in [Daemons -> {"unspawned", "init", "ready", "exited"}]
    /\ written \in [Daemons -> 0..Preamble + 1]
    /\ exitStatus \in [Daemons -> {"none", "ok", "sigterm", "error"}]
    /\ sigterm \in [Daemons -> BOOLEAN]
    /\ log \in Seq({"info", "ready"})
    /\ pc \in {"spawn", "poll", "check_alive", "run_failed", "terminate",
               "wait_exit", "body"} \cup Done
    /\ cur \in Daemons
    /\ elapsed \in 0..Timeout
    /\ err \in {"none", "died", "timeout", "exit_error"}
    /\ active \in [Daemons -> BOOLEAN]
    /\ caller \in {"run", "teardown"}
    /\ polled \in BOOLEAN
    /\ deadEarly \in BOOLEAN

Init ==
    /\ dproc = [d \in Daemons |-> "unspawned"]
    /\ written = [d \in Daemons |-> 0]
    /\ exitStatus = [d \in Daemons |-> "none"]
    /\ sigterm = [d \in Daemons |-> FALSE]
    /\ log = <<>>                \* Workspace creates logdir empty
    /\ pc = "spawn"
    /\ cur = 1
    /\ elapsed = 0
    /\ err = "none"
    /\ active = [d \in Daemons |-> FALSE]
    /\ caller = "run"
    /\ polled = FALSE
    /\ deadEarly = FALSE

-----------------------------------------------------------------------------
(* The daemon process, as the harness can observe it.                      *)

\* _process_exists(pid): `ps -h -p pid` finds the process.
Alive(d) == dproc[d] \in {"init", "ready"}

\* The daemon logs its next startup line; the last is the readiness message.
DaemonLog(d) ==
    /\ dproc[d] = "init"
    /\ written' = [written EXCEPT ![d] = @ + 1]
    /\ log' = Append(log, IF written[d] = Preamble THEN "ready" ELSE "info")
    /\ dproc' = [dproc EXCEPT ![d] = IF written[d] = Preamble THEN "ready"
                                                            ELSE "init"]
    /\ UNCHANGED <<exitStatus, sigterm, harnessVars>>

\* The daemon dies by itself (failed bind, assertion) with a non-zero code.
DaemonCrash(d) ==
    /\ Alive(d)
    /\ dproc' = [dproc EXCEPT ![d] = "exited"]
    /\ exitStatus' = [exitStatus EXCEPT ![d] = "error"]
    /\ UNCHANGED <<written, sigterm, log, harnessVars>>

\* The daemon ends on SIGTERM: killed by the signal, or its handler exits 0.
DaemonOnSigterm(d) ==
    /\ Alive(d)
    /\ sigterm[d]
    /\ dproc' = [dproc EXCEPT ![d] = "exited"]
    /\ \E s \in {"ok", "sigterm"} : exitStatus' = [exitStatus EXCEPT ![d] = s]
    /\ UNCHANGED <<written, sigterm, log, harnessVars>>

-----------------------------------------------------------------------------
(* The harness.                                                            *)

\* run(): spawn the daemon with _bg=True, then wait_until_active(pid, 10.0)
\* takes init_time = perf_counter().
Spawn ==
    /\ pc = "spawn"
    /\ dproc' = [dproc EXCEPT ![cur] = "init"]
    /\ elapsed' = 0
    /\ pc' = "poll"
    /\ polled' = FALSE
    /\ deadEarly' = FALSE
    /\ UNCHANGED <<written, exitStatus, sigterm, log, cur, err, active, caller>>

\* The while condition: perf_counter() - init_time < timeout is false.
Expired == elapsed >= Timeout

\* Mutant: any line of the log is taken for the readiness message.
MarkerSeenAnyLine == log # <<>>

\* re.search of the readiness pattern over islice(log, max_lines).
MarkerSeen == \E i \in DOMAIN log : i <= MaxLines /\ log[i] = "ready"

\* run() returns self; the test goes on with its next daemon or its body.
RunReturns ==
    /\ active' = [active EXCEPT ![cur] = TRUE]
    /\ IF cur < NumDaemons
         THEN pc' = "spawn" /\ cur' = cur + 1
         ELSE pc' = "body" /\ cur' = cur

\* One pass of the polling loop: the log holds the readiness line, so
\* wait_until_active returns; or open() raises FileNotFoundError; or the
\* log exists without the line in its first MaxLines lines, and the loop
\* goes round again.
Poll ==
    /\ pc = "poll"
    /\ ~Expired
    /\ \/ /\ MarkerSeen
          /\ RunReturns
          /\ UNCHANGED <<elapsed, err, caller>>
       \/ /\ log = <<>>
          /\ pc' = "check_alive"
          /\ UNCHANGED <<cur, elapsed, err, active, caller>>
       \/ /\ log # <<>>
          /\ ~MarkerSeen
          /\ UNCHANGED <<pc, cur, elapsed, err, active, caller>>
    /\ polled' = TRUE
    /\ UNCHANGED <<daemonVars, log, deadEarly>>

\* Mutant: a missing log always counts as a lazy daemon, dead or not.
CheckAliveRetries ==
    /\ pc = "check_alive"
    /\ pc' = "poll"
    /\ UNCHANGED <<daemonVars, log, cur, elapsed, err, active, caller, loopVars>>

\* The log is missing: a daemon that is gone raises "process is not
\* running"; a live one gets another pass of the loop.
CheckAlive ==
    /\ pc = "check_alive"
    /\ IF Alive(cur) THEN pc' = "poll" /\ err' = err
                     ELSE pc' = "run_failed" /\ err' = "died"
    /\ UNCHANGED <<daemonVars, log, cur, elapsed, active, caller, loopVars>>

\* The loop ends: raise RuntimeError("initialization timeout exceeded").
Expire ==
    /\ pc = "poll"
    /\ Expired
    /\ pc' = "run_failed"
    /\ err' = "timeout"
    /\ UNCHANGED <<daemonVars, log, cur, elapsed, active, caller, loopVars>>

\* Mutant: the except block re-raises without shutting the daemon down.
RunFailedNoCleanup ==
    /\ pc = "run_failed"
    /\ pc' = "raised"
    /\ caller' = "run"
    /\ UNCHANGED <<daemonVars, log, cur, elapsed, err, active, loopVars>>

\* run()'s except block: shut down a daemon that still exists, else re-raise.
RunFailed ==
    /\ pc = "run_failed"
    /\ pc' = IF Alive(cur) THEN "terminate" ELSE "raised"
    /\ caller' = "run"
    /\ UNCHANGED <<daemonVars, log, cur, elapsed, err, active, loopVars>>

\* Mutant: shutdown() waits for the daemon without signalling it first.
TerminateNoSignal ==
    /\ pc = "terminate"
    /\ pc' = "wait_exit"
    /\ UNCHANGED <<dproc, written, exitStatus, sigterm, log, cur, elapsed, err,
                   active, caller, loopVars>>

\* shutdown(): self._proc.terminate() sends SIGTERM.
Terminate ==
    /\ pc = "terminate"
    /\ sigterm' = [sigterm EXCEPT ![cur] = TRUE]
    /\ pc' = "wait_exit"
    /\ UNCHANGED <<dproc, written, exitStatus, log, cur, elapsed, err, active,
                   caller, loopVars>>

\* shutdown(): self._proc.wait() returns once the daemon has exited.  Death
\* by SIGTERM raises SignalException_SIGTERM, which is swallowed; a non-zero
\* exit raises ErrorReturnCode, which is re-raised.  Back in run(), `raise ex`
\* follows a normal return.
WaitExit ==
    /\ pc = "wait_exit"
    /\ dproc[cur] = "exited"
    /\ err' = IF exitStatus[cur] = "error" THEN "exit_error" ELSE err
    /\ pc' = IF caller = "run" \/ exitStatus[cur] = "error" THEN "raised"
                                                           ELSE "done"
    /\ UNCHANGED <<daemonVars, log, cur, elapsed, active, caller, loopVars>>

\* The test body ends; the gkfs_daemon fixture resumes after its yield and
\* calls shutdown(); daemons of FwdDaemonCreator are left as they are.
EndBody ==
    /\ pc = "body"
    /\ pc' = IF Teardown THEN "terminate" ELSE "done"
    /\ caller' = "teardown"
    /\ UNCHANGED <<daemonVars, log, cur, elapsed, err, active, loopVars>>

\* Wall-clock time passes while wait_until_active is looping.  The loop
\* does not sleep: a pass (open, read up to MaxLines lines, maybe a ps)
\* takes far less than a tick, so the loop makes one between two ticks.
Tick ==
    /\ pc \in {"poll", "check_alive"}
    /\ elapsed < Timeout
    /\ polled
    /\ elapsed' = elapsed + 1
    /\ polled' = FALSE
    /\ deadEarly' = (deadEarly \/ (~Alive(cur) /\ log = <<>> /\ elapsed + 1 < Timeout))
    /\ UNCHANGED <<daemonVars, log, pc, cur, err, active, caller>>

HarnessStep ==
    \/ Spawn \/ Poll \/ CheckAlive \/ Expire \/ RunFailed
    \/ Terminate \/ WaitExit \/ EndBody

DaemonStep ==
    \E d \in Daemons : DaemonLog(d) \/ DaemonCrash(d) \/ DaemonOnSigterm(d)

Next == HarnessStep \/ Tick \/ DaemonStep

\* The control thread is scheduled, wall-clock time advances, and a daemon
\* that has been sent SIGTERM eventually exits.  A daemon need not ever
\* finish its startup: it may hang.
Fairness ==
    /\ WF_vars(HarnessStep)
    /\ WF_vars(Tick)
    /\ \A d \in Daemons : WF_vars(DaemonOnSigterm(d))

Spec == Init /\ [][Next]_vars /\ Fairness

-----------------------------------------------------------------------------
(* Properties.                                                             *)

\* run() hands a daemon to the test only after that daemon has itself logged
\* "Startup successful. Daemon is ready." (wait_until_active's readiness
\* check, gkfs.py 263-273).
ReadyMeansOwnMarker ==
    \A d \in Daemons : active[d] => written[d] = Preamble + 1

\* Once the harness is finished with a test (the test ended, or run()
\* raised), no daemon it spawned is still running: run()'s except block and
\* the fixture's teardown shut them down (gkfs.py 230-239, conftest 91-92).
NoOrphanDaemon ==
    pc \in Done => \A d \in Daemons : ~Alive(d)

\* When run() fails, the exception it raises is the startup error that
\* wait_until_active detected (timeout or daemon death), gkfs.py 230-239.
FailureCauseReported ==
    (pc = "raised" /\ caller = "run") => err \in {"died", "timeout"}

\* A daemon that exits before its log file exists makes run() fail with
\* "process is not running" at the next pass of the polling loop, not with
\* the timeout (wait_until_active's FileNotFoundError branch and its
\* _process_exists check, gkfs.py 275-283; spec.md 8: fail fast with
\* ProcessDied well before the timeout elapses).
FailsFast == err = "timeout" => ~deadEarly

\* Every test gets past its daemon's startup and shutdown: the polling loop
\* is bounded by the timeout and shutdown() waits only for a signalled daemon.
HarnessTerminates == <>(pc \in Done)

-----------------------------------------------------------------------------
(* Refinement of the handle lifecycle of spec.md 4.2 (module Lifecycle).   *)

\* The lifecycle state of a daemon handle, read off the harness and process.
Phase(d) ==
    CASE dproc[d] = "unspawned"                       -> "Created"
      [] active[d] /\ ~(pc \in Done /\ sigterm[d])     -> "Active"
      [] active[d]                                    -> "Terminated"
      [] d = cur /\ pc \in {"poll", "check_alive"}     -> "Starting"
      [] pc \in Done /\ sigterm[d]                     -> "Terminated"
      [] OTHER                                        -> "Failed"

L == INSTANCE Lifecycle WITH
        life <- [d \in Daemons |-> Phase(d)],
        signalled <- [d \in Daemons |-> written[d] = Preamble + 1]

\* The harness implements the lifecycle: a handle becomes active only after
\* its own daemon logged readiness, every startup ends in Active or Failed,
\* and a terminated handle stays terminated (Daemon.run / shutdown).
LifecycleRefined == L!Spec

=============================================================================
