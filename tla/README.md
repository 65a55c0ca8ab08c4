# TLA+ models of the GekkoFS test harness and cluster scripts

This directory holds TLA+ models of the Python code under `src/`. That code has two parts:

- the cluster scripts `src/scripts/startup_gkfs.py`, `src/scripts/shutdown_gkfs.py` and `src/scripts/util/util.py`, which start and stop a GekkoFS daemon on every node through parallel-ssh (pssh);
- the pytest integration harness `src/tests/integration/`: process supervision, endpoint allocation, workspace fixtures, client wrappers and the output parsers.

The file system itself (daemon, client library, `gkfs.io` client) is not in the sources. Where it matters, it is modelled as the environment.

## The system and how its parts interact

| Part | Source | State | Operations |
|---|---|---|---|
| Process supervisor | `harness/gkfs.py` `Daemon`, `FwdDaemon`, `FwdDaemonCreator`; `conftest.py` fixtures | process handle, the daemon's log file, wall clock | `__init__`, `run`, `wait_until_active`, `shutdown`, `_process_exists`, fixture teardown |
| Endpoint allocation | `gkfs.py` `get_ephemeral_*` | the kernel's bound ports | probe-bind-close, then the daemon's bind |
| Line-protocol decoder | `harness/io.py`, `Client.run` | none (a pure function) | `IOParser.parse`, marshmallow `load` |
| Shell output parser | `harness/cmd.py`, `ShellCommand.parsed_stdout` | none (a pure function) | `CommandParser.parse` |
| Workspace | `harness/workspace.py` | directories under `tmp_path` | `Workspace.__init__`, `FileCreator.create` |
| Cluster scripts | `scripts/*.py` | per-node daemons and logs `/tmp/gkfs_daemon.log` | `init_system`, `shutdown_system`, `exec_shell` |
| Reporter, logger, cli | `harness/reporter.py`, `logger.py`, `cli.py` | none | formatting only |

A test runs like this:

1. `test_workspace` creates the directories.
2. `gkfs_daemon` builds a `Daemon`. Its `__init__` allocates an endpoint; its `run` spawns the daemon and polls the shared log file until the readiness line appears. `gkfwd_daemon_factory` builds any number of `FwdDaemon`s the same way.
3. The test calls the client. `Client.run` executes `gkfs.io` and decodes its JSON output with `IOParser`. `ShellClient` runs shell commands, and `CommandParser` parses their output.
4. At teardown, `gkfs_daemon` calls `shutdown()`.

Across processes, several pytest processes (pytest-xdist) may run tests side by side on one host. The daemons are separate OS processes. On a cluster, an operator runs `startup_gkfs.py` and later `shutdown_gkfs.py`, and each runs pssh against all nodes.

### What is hard here

These are the hazards, also listed with their lines in `PROJECT.json`:

- **The supervisor:**
  - the shared log file: every daemon of a workspace logs to `logs/gkfs_daemon.log` or `logs/gkfwd_daemon.log`;
  - the timeout racing a late readiness line;
  - a daemon dying before its log exists;
  - cleanup after a failed start that fails itself and masks the cause;
  - `wait()` without a timeout;
  - the 50-line scan bound;
  - factory daemons that are never shut down;
  - the daemon dying while a test's client call waits on it, so that only sh's `_timeout` lets the test reach the fixture's teardown.
- **Endpoints:** the probe socket is closed before the daemon binds the port, a time-of-check/time-of-use window across concurrent tests.
- **Scripts:**
  - only the first node in pssh's output is ever checked;
  - the `'Failure'` case typo;
  - the fixed wait and `head -5`;
  - one node's shutdown message vouches for all nodes;
  - stale logs;
  - a host file shared between jobs without `-J`;
  - a `-P` that names no pssh, which the scripts cannot tell from success;
  - `-c` cleaning failing on a node that pssh does not list first, after which the daemon there starts on old data.
- **Parsers:**
  - 17 field types against 16 names;
  - whitespace splitting of file names;
  - the field classes converting instead of checking: `int()` truncates a float and parses a string of digits, `bytes()` turns a number into zero bytes; marshmallow's `data_key`, `allow_none` and required handling.
- **Clients:** `_ok_code` is commented out, so a shell command's non-zero status raises although the comment says it is handed back.

## Modules

| Module | Models | Kind |
|---|---|---|
| `Lifecycle` | spec.md 4.2: `Created → Starting → Active → Terminated`, `Starting → Failed → Terminated`; a handle is Active only after its own process signalled readiness | abstract spec |
| `Supervisor` | `Daemon.__init__/run/wait_until_active/shutdown`, `_process_exists`, the `gkfs_daemon` fixture, n daemons sharing one log; refines `Lifecycle` | state machine |
| `Endpoints` | `get_ephemeral_host/port/address`, `Daemon.run`'s bind, tests side by side | state machine |
| `IODecoder` | every schema of `io.py`, marshmallow `load` and `post_load` with the field classes' conversions (the recursive `Dec`), `IOParser.parse`, `Client.run` | pure function against a reference |
| `ShellParser` | `Md5sumOutputSchema`, `StatOutputSchema`, `CommandParser.parse`, `ShellCommand.parsed_stdout` | pure function against a reference |
| `LaunchScripts` | `init_system`, `shutdown_system`, `exec_shell` with pssh | state machine |
| `Clients` | `__init__`, `run` and `script` of `Client`, `FwdClient`, `ShellClient`, `ShellFwdClient`; sh's exit-status check and `_timeout` | state machine |
| `Session` | a whole test: the `gkfs_daemon` fixture (`Supervisor`) composed with the `gkfs_shell`/`gkfs_client` fixture and the body's calls (`Clients`) | composition |
| `MCSupervisor`, `MCEndpoints`, `MCLaunchScripts`, `MCClients`, `MCSession` | model values and bounds for TLC | MC modules |

### Supervisor

The harness's single control thread is the variable `pc`. It moves through:

- `spawn`, then `poll` and `check_alive` (the `while` loop of `wait_until_active`);
- `body` (the test);
- `terminate` and `wait_exit` (`shutdown`);
- `done` or `raised`.

Each daemon `d` has:

- a process state `dproc[d]`;
- the number of lines it wrote, `written[d]`;
- its exit status.

All daemons append to the one `log`, which is a sequence of `"info"` and `"ready"` lines. `Preamble` is the number of lines a daemon writes before its readiness line. `MaxLines` is `max_lines`, and `elapsed` counts ticks of the clock up to `Timeout`.

The loop has no sleep: one pass (an `open`, at most 50 lines read, maybe a `ps`) takes far less than a tick. So `Tick` needs a pass since the last tick (`polled`). The history variable `deadEarly` records that, at a tick before the deadline, the daemon was already gone and its log did not exist. It is auxiliary: no action reads it.

The actions map to the code as follows:

- `Spawn` is `self._cmd(..., _bg=True)`.
- `Poll` is one pass of the loop that opens the log and scans the first `MaxLines` lines. It ends in `RunReturns` (a `return`), in `CheckAlive` when the log does not exist yet, or goes round again when the log lacks the line.
- `CheckAlive` is `_process_exists` and `raise RuntimeError("process ... not running")`.
- `Expire` is `raise RuntimeError("initialization timeout exceeded")`.
- `RunFailed` is the `except` block of `run`.
- `Terminate` and `WaitExit` are `shutdown()`:
  - `SignalException_SIGTERM` is swallowed;
  - any other non-zero exit re-raises and replaces the error being handled.
- `EndBody` is the fixture's teardown.
- `Tick` lets wall-clock time pass while the harness polls, one pass at least per tick.

The daemon's own steps are the environment: `DaemonLog`, `DaemonCrash` and `DaemonOnSigterm`.

Refinement mapping: `Phase(d)` maps the harness state to a Lifecycle state, and `signalled[d]` is "d wrote its own readiness line". The run checks `LifecycleRefined == L!Spec`.

### Session

`Session` extends `Supervisor` with one daemon and the fixture's teardown, and takes `Clients` as `C == INSTANCE Clients WITH pc <- tpc, elapsed <- celapsed, Timeout <- ClientTimeout`. It follows pytest's order for `test_x(gkfs_daemon, gkfs_shell)`:

- `FixtureStep` and `FixtureClock`: `Daemon.run` up to the `yield`, and later `shutdown()`; the client is left alone.
- `TestSide`: only once `run()` has returned (`pc = "body"`), the client fixture's constructor and the body's calls (`C!TestStep`).
- `BodyEnds`: the body returned or raised (`ErrorReturnCode`, `TimeoutException`) or `pytest.exit` was called; `EndBody` then resumes the fixture after its `yield`.
- `ShSide`, `ClientClock`, `ClientExit`: sh's wait and timer, and the client process.
- `DaemonSide`: the daemon logs, dies, or exits on SIGTERM at any time, also while a client call waits on it.

A client process against a dead daemon may hang, so `ClientExit` gets no fairness. The run checks Supervisor's properties on the composition. `HarnessTerminates` now says that the whole test ends, client calls included.

### Endpoints

Each test creates its daemons one after another. Each daemon handle goes through:

- `none`;
- `addressed` (`get_ephemeral_port` returned);
- `listening` or `failed` (`run` bound the address, or found it taken);
- `gone` (teardown).

The port chosen is any port no daemon listens on at that moment, because the probe bind succeeds exactly then. The `while True` retry only repeats the random draw. The model can also run tests one after another (`Concurrent = FALSE`), but then uniqueness follows from the probe alone, so no run checks it.

### IODecoder and ShellParser

These are pure functions, checked the way the references check algorithms. `Init` enumerates bounded inputs together with the answer the spec demands, and one action applies the code's function.

In `IODecoder`:

- The inputs are the client's printing (`Enc`, from the spec) of:
  - every result whose fields take each legal value: distinct integers, `None` where the spec allows it (`SpecNullable`: a byte buffer, and the `DIR*` and listing the client prints as null on failure), empty and non-empty buffers, empty, ordered and reversed directory listings;
  - outputs with one field missing, null where the spec allows no null, or mistyped (`Mistyped`: for an integer a word, a string of digits, a number with a fraction or a bool; for a buffer a word or a number), also one level down in `statbuf`;
  - non-JSON text;
  - an unregistered command.
- Wire and Python values are tagged records, so that TLC never compares values of different types.
- `Dec` does what the code does with each value: `fields.Integer` is not strict, so `int(value)` truncates a float and parses a string of digits, and refuses a bool; `Errno` is `int(value)` and also takes a bool; `ByteList` is `bytes(value)`, which turns a number n into n zero bytes; `DIR_p` is `c_void_p(value)`. Null legality on the code side comes from the fields' `allow_none`; on the spec side it comes from `SpecNullable`, so the two are independent.

In `ShellParser`, a word is its shape (decimal, hex, text). That is all `int()` and `str()` distinguish.

### LaunchScripts

`pc` walks through `init_system` and then `shutdown_system`. A pssh call (`exec_shell` with `-i`) is modelled by:

- a per-node outcome (SUCCESS or FAILURE);
- the node pssh lists first. Only that node's header lies within the `[:30]` that the scripts inspect.

The scripts iterate over the `(err, output)` pair that `exec_shell` returns. So their log checks look at the whole combined output of all nodes at once, and the model's checks quantify over all nodes for that reason.

The options are `args.start` (`StartOptions`: `--pretend`, a nodelist file or a comma-separated list, `-c`, `-P`, `-J`) and `args.stop` (`StopOptions`: the same with `-9` instead of `-c`). The operator gives each script its own options, drawn from the constant `OwnJobs` for `-J`. `-P` (`PsshPaths`) is either not given, so `check_dependencies` runs `which` (`Dependencies`, and `StopDependencies` for the shutdown script's copy), or given, or given a path with no pssh. In the last case every pssh call reaches no node and prints nothing on stdout (`Targets` is empty). Each script computes the path of its pssh host file from its own `-J` (`StartPath`, `StopPath`): `/tmp/hostfile_pssh` (`NoJob`) unless `-J` gives a job id. `StartTargets` and `StopTargets` are the hosts of each script's pssh calls. The steps are:

- `StartSetup`/`StopSetup`: with a nodelist file, `HostfileOpen` truncates the host file (an `IOError` ends the script); with a list, pssh gets `-H` and no file is involved.
- `StartHostfile`/`StopHostfile`: `create_pssh_hostfile` appends one host per line (`HostfileAppend`); `written` is what this run has appended.
- `StartDeps`/`StopDeps`: `check_dependencies`, then `--pretend` stops here; startup goes to cleaning with `-c`.
- `StartClean`, `StartLaunch`, `StartWait`, `StartCheck`, `StopKill`, `StopWait`, `StopCheck`: the pssh calls, each over `Targets`, the hosts of the host file as pssh reads it at that moment. `touched` collects every node a command reached.

Another job on the same machine runs the same scripts (`OtherHostfile`): it truncates or appends to its own host file, which is ours when neither job passes `-J`.

The nodes' daemons are the environment: `DaemonUp`, `DaemonFail` and `DaemonStop`. `shutMsg` starts arbitrary, because `/tmp/gkfs_daemon.log` outlives a session. Cleaning and launching truncate it on the nodes they reach.

### Clients

`kind` is the client class the test built, and `pc` is the test:

- `init`;
- `ready`, between calls;
- `waiting`, blocked in sh;
- `raised`, `done`, or `exited` (`pytest.exit`).

The four constructors (`Construct`, `ConstructFwd`, `ConstructShell`, `ConstructShellFwd`) search the bindirs for the client library. `FoundLibrary` goes on only with exactly one copy. `Client` and `FwdClient` test `== 0` and `!= 1`; the shell clients only `!= 1`. Both end in `pytest.exit` otherwise.

A call is one of `Run`, `FwdRun`, `ShellRun`, `Script`, `ShellFwdRun` and `ShellFwdScript`. It starts the process (`StartCall`) with the `_timeout` the code passes:

- none for `Client` and `FwdClient`;
- `timeout=60` for the shell clients.

sh then behaves as follows (these actions are `spec_modelled`, since sh is a library):

- `Complete`: status 0 returns to the test. Any other status raises `ErrorReturnCode`, because `_ok_code` is commented out.
- `TimeoutKill`: at the timeout, SIGKILL and `TimeoutException`.

The client process (`ProcExit`) is the environment. It may never exit.

The forwarding-map files that the Fwd classes write, and `FwdClient.remap`, are abstracted away. No property here is about which daemon a client forwards to.

## Runs

| Run | Expect | Checks | Shows |
|---|---|---|---|
| `fixture` | pass | `FailsFast`, `LifecycleRefined`, `NoOrphanDaemon`, `HarnessTerminates` | A shell test with the `gkfs_daemon` fixture (`MCSession`): the fixture implements Lifecycle and leaves no daemon running at the end, also after a timeout or a death. A daemon that dies before its log exists makes `run()` fail at the next pass of the loop, not at the timeout (spec §8). The whole test ends if the daemon honours SIGTERM, also when the daemon dies during a client call. |
| `sharedlog` | violation | `ReadyMeansOwnMarker` | Two daemons of a workspace: the second is declared ready on the first's readiness line. |
| `factoryleak` | violation | `NoOrphanDaemon` | `FwdDaemonCreator` daemons are alive when the test is over. |
| `maskederr` | violation | `FailureCauseReported` | A timeout followed by an error exit during cleanup reaches the caller as the cleanup's error. |
| `endpoints_concurrent` | violation | `UniqueEndpoints` | Tests run side by side are handed the same port. |
| `iodecoder` | violation | `DecodeMatchesSpec` | Well-formed output decodes to exactly the printed result, but mistyped fields are converted instead of rejected: `mkdir` output whose `retval` has a fraction decodes with the fraction dropped. Spec §4.1 says a malformed field fails. |
| `shellparser` | violation | `ShellOutputDecodes` | `stat --terse` on an SELinux host (17 words) and names with spaces break `CommandParser`. |
| `shell_okcode` | violation | `ShellStatusReturned` | A shell command that exits 1 makes the call raise `ErrorReturnCode`; `ShellClient.run`'s comment says every status is whitelisted through `_ok_code` and returned, but the argument is commented out. |
| `clients_io` | violation | `CallReturns` | Of the four client classes, a `Client` or `FwdClient` call blocks the test forever when the `gkfs.io` process hangs: sh is given no timeout. Spec §5 says the only blocking operations are the bounded poll and shutdown wait. |
| `launch_jobs` | violation | `OnlyOwnNodes` | Without `-J`, the default, both jobs use `/tmp/hostfile_pssh`: the other job's `create_pssh_hostfile` rewrites it between the operator's pssh calls, and the operator's command runs on the other job's node. With `-J` the paths differ by construction, so no run checks that case. |
| `launch_start` | violation | `StartReportSound` | `startup_gkfs.py` says "Looks prime." while a node has no daemon. |
| `launch_stop` | violation | `StopReportSound` | `shutdown_gkfs.py` says "Looks prime." while a daemon still runs. |

Every property of a passing run has a mutant in `PROJECT.json`: a plausible bug in the mapped code under which TLC finds that property violated. These are:

- a missing log always taken for a lazy daemon (`CheckAliveRetries`): the loop then waits out the timeout after a death;
- a scan of any log line;
- a failed start without cleanup;
- a shutdown that sends no signal;
- `ShellClient.run` calling sh without `_timeout` (`ShellRunNoTimeout`): a call on a daemon that died hangs the test, and the fixture never tears down;

## Bounds

- **Supervisor:** `Timeout = 2` ticks, `MaxLines = 3`, `Preamble = 1`.
  - One daemon for the fixture.
  - Two daemons for the shared-log and factory runs: the smallest count that can collide.
  - Two ticks are enough for a daemon to be too slow or just in time, and for a death before the first tick to be one that `FailsFast` demands be caught.
  - Three scanned lines with a one-line preamble allow a marker inside the window, a second daemon's marker, and lines beyond the window.
- **Endpoints:** two tests with two daemons each, and three ports. One port is always free, so no retry loop spins forever, and reuse after teardown happens.
- **LaunchScripts:** two nodes, the fewest for one node to be listed first and the other to go unchecked, and one node of another job, enough for a foreign host in the shared file. Every option combination is an initial state, and `-P` takes its three forms for each script. The other job passes no `-J`, so it writes the default file. In the start and stop runs the operator passes `-J j1` to both scripts (`MCOwnJobs`), so the other job cannot interfere. In the jobs run the operator passes none (`MCNoJobs`).
- **Session:** the fixture's bounds above, `ClientTimeout = 2`, two calls, statuses `{0, 1}`, the `gkfs_shell` fixture; 581 states. The daemon can die before, during or after each call.
- **Clients:** `Timeout = 3` ticks, four calls, exit statuses `{0, 1}`, and zero, one or two library copies found. A process can exit before the timeout or be killed at it. A test can go on after a successful call.
- **Decoders:** the input sets above, 512 outputs for `IODecoder`.

## Fairness

The harness is one sequential thread that never waits on anything but the daemon, so it gets weak fairness on its steps and on `Tick`: the wall clock advances while it polls. The daemon's startup gets no fairness, because it may hang, and the timeout exists for that case. `DaemonOnSigterm` gets weak fairness. This is an assumption about the external daemon: without it `shutdown()`'s unbounded `wait()` would block forever, as the code allows. The abstract `Lifecycle` promises that a startup ends (Active or Failed).

In `Clients`, these steps get weak fairness:

- the test's steps;
- sh's completion and its timer (`Complete`, `TimeoutKill`);
- `Tick`.

The client process gets no fairness, because a client library stuck on a dead daemon never exits.

In `Session`, fixture and test body run on pytest's one thread (`PytestStep`), which gets weak fairness. So do the fixture's clock, sh's thread and the client clock, and `DaemonOnSigterm` as above. The client process gets none, so the test ends only through sh's `_timeout`.

One known behaviour has no run of its own: without fairness on `DaemonOnSigterm`, `HarnessTerminates` fails, because `shutdown()`'s `wait()` has no timeout, contrary to spec §5. It is listed as a hazard in `PROJECT.json`.

The one-pass-per-tick rule (`polled`) is no fairness assumption. It states that the loop, which never sleeps, is faster than the clock.

## Not modelled

- **The reporter, logger and cli:** formatting and option declarations only.
- **`Workspace` and `FileCreator`:** four `mkdir` calls and a random file. That `meta/` is never created although `FwdDaemon` passes `--metadir` is listed as a hazard. Whether it matters depends on the daemon binary.
- **Clients' environment patching:** `LD_PRELOAD` and the log and hosts paths are string handling. `FwdClient`'s forwarding-map file and `remap` are not modelled either: which daemon a client forwards to is decided by the external client library.
- **The integration test bodies:** they exercise the external file system.
- **Script details:** the string handling of paths and of the nodefile's lines (comments and blank lines are skipped, which changes no host set); `exec_shell` returning `None` when `/bin/sh` cannot be started (the script dies with a traceback, a non-zero exit like its other error paths). `exec_shell` reads the pipe with `iter(readline, '')`, which under Python 3 never ends or raises `TypeError`; the model assumes the Python 2 the scripts are written for. `pkill`'s pattern matching is abstracted to "the daemon on that node".
- **util's unused helpers:** `rm_trailing_slash`, `create_dir`, `rm_rf`, `rm_file`, `tprint` and `check_shell_out` are called by no script.
- **What is left of the scripts:** the lines the map does not name are imports, the `global` declarations, docstrings, the closing `print`, and util's unused helpers above. Every statement that runs and changes what the scripts do is in `LaunchScripts`.
- **Hazards without a run:**
  - `-c` cleaning that fails on a node pssh does not list first would need a violation run of its own, and the project keeps its twelve runs for the findings above.
  - The 50-line scan window: a readiness line past it fails by the timeout, which spec 4.2 allows, so no property tells it from a slow daemon.
  - Both are listed in `PROJECT.json` with their lines.

## Plan for further work

1. Model `FwdClient.remap` and the forwarding tests (`test_map.py`) over several clients and daemons:
   - the per-client map files;
   - the shared map that `ShellFwdClient` writes;
   - the client logs that the tests scan for `Forward to`.
2. Compose `Endpoints` with `Supervisor`, so that a bind failure becomes a daemon death.
3. A run of `Session` with `gkfs_client` (`Client.run` has no `_timeout`) once the run budget allows; it would be a violation.
