---------------------------- MODULE LaunchScripts ----------------------------
(***************************************************************************)
(* The cluster scripts: startup_gkfs.py (init_system) launches a daemon on *)
(* every node through parallel-ssh and checks the logs; shutdown_gkfs.py  *)
(* (shutdown_system) sends the daemons SIGTERM or SIGKILL through pssh and *)
(* checks the logs again.  An operator runs the startup script and then   *)
(* the shutdown script.                                                    *)
(*                                                                         *)
(* Every pssh call goes through util.exec_shell, which returns the pair   *)
(* (stderr, stdout) of pssh; the scripts iterate over that pair as if it  *)
(* were a list of lines.  pssh -i prints one "[i] time [SUCCESS|FAILURE]  *)
(* host" header per node, in the order the nodes finish, followed by the  *)
(* node's output; the scripts look for FAILURE in the first 30 characters *)
(* of all of stdout, so only the node reported first is ever inspected.   *)
(* A pssh call is modelled by its per-node outcome and that first node.   *)
(*                                                                         *)
(* When the nodelist argument is a file, each script first rewrites the   *)
(* pssh host file (util.create_pssh_hostfile) at PSSH_HOSTFILE_PATH,      *)
(* /tmp/hostfile_pssh unless -J/--jobid adds a suffix, and every pssh     *)
(* call reads that file again.  Another job on the same machine runs the  *)
(* same scripts for its own nodes: it is the environment that writes the  *)
(* host file of its own path.                                              *)
(***************************************************************************)
CONSTANTS
    Hosts,       \* the nodes of the operator's nodelist
    OtherHosts,  \* the nodes of another job's nodelist
    OwnJobs,     \* the -J/--jobid values the operator may give each script
    OtherJob,    \* the other job's -J/--jobid, or NoJob
    NoJob        \* -J not given

ASSUME Hosts \cap OtherHosts = {}

Nodes == Hosts \cup OtherHosts

VARIABLES
    daemon,     \* per node: "down", "starting", "up", "failed" or "stopping"
    errInHead,  \* the node's failed daemon logged [E] within its first 5 lines
    shutMsg,    \* the node's daemon logged "All services shut down."
    pc,         \* the script being run and where it is
    args,       \* the command-line options of the two scripts
    files,      \* contents of each pssh host file: the hosts listed in it
    written,    \* the hosts create_pssh_hostfile has appended so far
    touched     \* nodes on which a pssh command of the operator has run

vars == <<daemon, errInHead, shutMsg, pc, args, files, written, touched>>

Running == {"starting", "up"}

\* Each script sets PSSH_HOSTFILE_PATH from its own options:
\* args.pssh_hostfile (the path NoJob stands for), with "_<jobid>"
\* appended if -J gives a job id.
StartPath(opts) == IF opts.job = NoJob THEN NoJob ELSE opts.job

StopPath(opts) == IF opts.job = NoJob THEN NoJob ELSE opts.job

\* The path the other job's scripts write.
OtherPath == IF OtherJob = NoJob THEN NoJob ELSE OtherJob

Paths == {NoJob, OtherJob} \cup OwnJobs

\* -P/--pssh: not given, so check_dependencies looks pssh up; given; or
\* given a path where no pssh is (sh then only prints "not found").
PsshPaths == {"lookup", "given", "wrong"}

\* startup_gkfs.py's options: -p/--pretend, whether the nodelist names an
\* existing file, -c/--cleanroot, -P, -J.
StartOptions == [pretend : BOOLEAN, file : BOOLEAN, cleanroot : BOOLEAN,
                 pssh : PsshPaths, job : OwnJobs]

\* shutdown_gkfs.py's options: -p/--pretend, the nodelist, -9/--sigkill,
\* -P, -J.
StopOptions == [pretend : BOOLEAN, file : BOOLEAN, sigkill : BOOLEAN,
                pssh : PsshPaths, job : OwnJobs]

Args == [start : StartOptions, stop : StopOptions]

TypeOK ==
    /\ daemon \in [Nodes -> {"down", "starting", "up", "failed", "stopping"}]
    /\ errInHead \in [Nodes -> BOOLEAN]
    /\ shutMsg \in [Nodes -> BOOLEAN]
    /\ args \in Args
    /\ files \in [Paths -> SUBSET Nodes]
    /\ written \subseteq Hosts
    /\ touched \subseteq Nodes

Init ==
    /\ daemon = [h \in Nodes |-> "down"]
    /\ errInHead = [h \in Nodes |-> FALSE]
    \* /tmp/gkfs_daemon.log may still hold the end of an earlier session
    /\ shutMsg \in [Nodes -> BOOLEAN]
    /\ pc = "start"
    /\ args \in Args
    /\ files = [p \in Paths |-> {}]
    /\ written = {}
    /\ touched = {}

\* The hosts a pssh call of a script with options opts runs on: those
\* listed in the host file when pssh reads it (-h), or the comma-separated
\* list (-H); none when PSSH_PATH names no program.
Targets(opts, path) == CASE opts.pssh = "wrong" -> {}
                         [] opts.file           -> files[path]
                         [] OTHER               -> Hosts

StartTargets == Targets(args.start, StartPath(args.start))

StopTargets == Targets(args.stop, StopPath(args.stop))

\* Whether the header within the first 30 characters of pssh's output says
\* FAILURE: the first node listed failed.  With no hosts pssh prints nothing.
HeadFailures(ok) ==
    IF DOMAIN ok = {} THEN {FALSE} ELSE {~ok[f] : f \in DOMAIN ok}

\* The outcome of one pssh call on the hosts T: ok[h] for each host.
Outcomes(T) == [T -> BOOLEAN]

Reached(ok) == {h \in DOMAIN ok : ok[h]}

Goto(to) == pc' = to /\ UNCHANGED <<daemon, errInHead, shutMsg, args, files,
                                    written, touched>>

-----------------------------------------------------------------------------
(* util.create_pssh_hostfile, shared by both scripts: truncate the file,   *)
(* then append the first word of every line of the nodefile that is not a *)
(* comment, opening the file anew for each line.                           *)

\* open(hostfile_pssh, 'w').close(), or an IOError: return False, exit(1).
HostfileOpen(path, next, fail) ==
    \/ /\ files' = [files EXCEPT ![path] = {}]
       /\ written' = {}
       /\ pc' = next
       /\ UNCHANGED <<daemon, errInHead, shutMsg, args, touched>>
    \/ Goto(fail)

\* One line of the nodefile appended; after the last, the script goes on.
HostfileAppend(path, next) ==
    \/ \E h \in Hosts \ written :
         /\ files' = [files EXCEPT ![path] = @ \cup {h}]
         /\ written' = written \cup {h}
         /\ UNCHANGED <<daemon, errInHead, shutMsg, pc, args, touched>>
    \/ written = Hosts /\ Goto(next)

\* if PSSH_PATH is '': check_dependencies(), which tries `which pssh`, then
\* `which parallel-ssh`, else exit(1).  With -P nothing is looked up.
Dependencies(opts, next, fail) ==
    IF opts.pssh = "lookup" THEN Goto(next) \/ Goto(fail) ELSE Goto(next)

\* shutdown_gkfs.py's own copy of check_dependencies, the same lines.
StopDependencies(opts, next, fail) == Dependencies(opts, next, fail)

-----------------------------------------------------------------------------
(* startup_gkfs.py                                                         *)

\* init_system: a nodelist that is an existing file is turned into a pssh
\* host file; otherwise pssh gets it with -H.
StartSetup ==
    /\ pc = "start"
    /\ IF args.start.file
         THEN HostfileOpen(StartPath(args.start), "start_hostfile", "start_exit")
         ELSE Goto("start_deps")

StartHostfile ==
    /\ pc = "start_hostfile"
    /\ HostfileAppend(StartPath(args.start), "start_deps")

\* pssh is located; with -p every command is only printed, the wait is
\* skipped and the script ends without checking anything.
StartDeps ==
    /\ pc = "start_deps"
    /\ Dependencies(args.start,
                    CASE args.start.pretend   -> "start_done"
                      [] args.start.cleanroot -> "start_clean"
                      [] OTHER                -> "start_launch",
                    "start_exit")

\* pssh "rm -rf root/* meta/* && truncate -s 0 logs": empties the logs of
\* the nodes it reaches; aborts if FAILURE is at the head of the output.
StartClean ==
    /\ pc = "start_clean"
    /\ \E ok \in Outcomes(StartTargets) :
       \E failed \in HeadFailures(ok) :
           /\ shutMsg' = [h \in Nodes |-> shutMsg[h] /\ h \notin Reached(ok)]
           /\ touched' = touched \cup Reached(ok)
           /\ pc' = IF failed THEN "start_exit" ELSE "start_launch"
    /\ UNCHANGED <<daemon, errInHead, args, files, written>>

\* pssh "nohup daemon ... > /tmp/gkfs_daemon.log 2>&1 &": a node that ssh
\* reaches starts its daemon on a fresh log.
StartLaunch ==
    /\ pc = "start_launch"
    /\ \E ok \in Outcomes(StartTargets) :
       \E failed \in HeadFailures(ok) :
           /\ daemon' = [h \in Nodes |->
                           IF h \in Reached(ok) THEN "starting" ELSE daemon[h]]
           /\ shutMsg' = [h \in Nodes |-> shutMsg[h] /\ h \notin Reached(ok)]
           /\ errInHead' = [h \in Nodes |-> errInHead[h] /\ h \notin Reached(ok)]
           /\ touched' = touched \cup Reached(ok)
           /\ pc' = IF failed THEN "start_exit" ELSE "start_wait"
    /\ UNCHANGED <<args, files, written>>

\* time.sleep(1) WAITTIME times; the daemons carry on meanwhile.
StartWait == pc = "start_wait" /\ Goto("start_check")

\* pssh "head -5 /tmp/gkfs_daemon.log": the check for 'Failure' never
\* matches pssh's FAILURE, so only [E] in a reachable node's first 5 log
\* lines makes the script abort.
StartCheck ==
    /\ pc = "start_check"
    /\ \E ok \in Outcomes(StartTargets) :
         LET fsErr == \E h \in Reached(ok) : daemon[h] = "failed" /\ errInHead[h]
         IN  /\ touched' = touched \cup Reached(ok)
             /\ pc' = IF fsErr THEN "start_exit" ELSE "started"
    /\ UNCHANGED <<daemon, errInHead, shutMsg, args, files, written>>

-----------------------------------------------------------------------------
(* shutdown_gkfs.py, run after the startup script has ended.               *)

StopSetup ==
    /\ pc \in {"started", "start_done", "start_exit"}
    /\ IF args.stop.file
         THEN HostfileOpen(StopPath(args.stop), "stop_hostfile", "stop_exit")
         ELSE Goto("stop_deps")

StopHostfile ==
    /\ pc = "stop_hostfile"
    /\ HostfileAppend(StopPath(args.stop), "stop_deps")

\* With -p the kill and the log check are only printed.
StopDeps ==
    /\ pc = "stop_deps"
    /\ StopDependencies(args.stop,
                        IF args.stop.pretend THEN "stop_done" ELSE "stop_kill",
                        "stop_exit")

\* pssh "pkill -SIGTERM|-SIGKILL --pidfile ...": pkill succeeds on a
\* reachable node whose daemon runs; SIGKILL ends it at once, and the
\* script then exit(1)s even on success.
StopKill ==
    /\ pc = "stop_kill"
    /\ \E reach \in Outcomes(StopTargets) :
         LET hit(h) == h \in Reached(reach) /\ daemon[h] \in Running
             ok == [h \in DOMAIN reach |-> hit(h)]
         IN  \E failed \in HeadFailures(ok) :
             /\ daemon' = [h \in Nodes |->
                             IF hit(h) THEN IF args.stop.sigkill THEN "down" ELSE "stopping"
                                       ELSE daemon[h]]
             /\ touched' = touched \cup Reached(reach)
             /\ pc' = IF ~failed /\ ~args.stop.sigkill THEN "stop_wait" ELSE "stop_exit"
    /\ UNCHANGED <<errInHead, shutMsg, args, files, written>>

StopWait == pc = "stop_wait" /\ Goto("stop_check")

\* pssh "tail -4 /tmp/gkfs_daemon.log": the message is searched in all of
\* stdout at once, so one node that logged it is enough.
StopCheck ==
    /\ pc = "stop_check"
    /\ \E reach \in Outcomes(StopTargets) :
         LET shown == \E h \in Reached(reach) : shutMsg[h]
         IN  /\ touched' = touched \cup Reached(reach)
             /\ pc' = IF shown THEN "stopped" ELSE "stop_exit"
    /\ UNCHANGED <<daemon, errInHead, shutMsg, args, files, written>>

-----------------------------------------------------------------------------
(* The environment: the daemons on the nodes, and the other job's scripts. *)

DaemonUp(h) ==
    /\ daemon[h] = "starting"
    /\ daemon' = [daemon EXCEPT ![h] = "up"]
    /\ UNCHANGED <<errInHead, shutMsg, pc, args, files, written, touched>>

\* A daemon fails; during startup its error may fall within the first five
\* lines of its log, once it is up the error comes later.
DaemonFail(h) ==
    /\ daemon[h] \in Running
    /\ daemon' = [daemon EXCEPT ![h] = "failed"]
    /\ \E inHead \in BOOLEAN :
         errInHead' = [errInHead EXCEPT ![h] = inHead /\ daemon[h] = "starting"]
    /\ UNCHANGED <<shutMsg, pc, args, files, written, touched>>

\* On SIGTERM the daemon shuts down, logging its last message, or dies.
DaemonStop(h) ==
    /\ daemon[h] = "stopping"
    /\ daemon' = [daemon EXCEPT ![h] = "down"]
    /\ \E clean \in BOOLEAN : shutMsg' = [shutMsg EXCEPT ![h] = clean]
    /\ UNCHANGED <<errInHead, pc, args, files, written, touched>>

\* The other job's create_pssh_hostfile truncates its host file or appends
\* one of its nodes, at any time (also in pretend mode).
OtherHostfile ==
    /\ \/ files' = [files EXCEPT ![OtherPath] = {}]
       \/ \E o \in OtherHosts :
            files' = [files EXCEPT ![OtherPath] = @ \cup {o}]
    /\ UNCHANGED <<daemon, errInHead, shutMsg, pc, args, written, touched>>

Next ==
    \/ StartSetup \/ StartHostfile \/ StartDeps \/ StartClean \/ StartLaunch
    \/ StartWait \/ StartCheck
    \/ StopSetup \/ StopHostfile \/ StopDeps \/ StopKill \/ StopWait \/ StopCheck
    \/ \E h \in Nodes : DaemonUp(h) \/ DaemonFail(h) \/ DaemonStop(h)
    \/ OtherHostfile

Spec == Init /\ [][Next]_vars

-----------------------------------------------------------------------------
(* Properties.                                                             *)

\* When init_system ends with "Looks prime.", every node has a daemon that
\* was launched and has not failed ("Initializes GekkoFS on specified nodes").
StartReportSound ==
    [][pc' = "started" => \A h \in Hosts : daemon'[h] \in Running]_vars

\* When shutdown_system ends with "Looks prime.", no daemon is left on any
\* node ("Shuts down GekkoFS on specified nodes").
StopReportSound ==
    [][pc' = "stopped" => \A h \in Hosts : daemon'[h] \in {"down", "failed"}]_vars

\* The scripts' commands (rm -rf of the data directories, the daemon launch,
\* pkill) only ever run on nodes of the operator's nodelist, also while
\* another job rewrites its pssh host file: -J gives each job its own file.
OnlyOwnNodes == touched \subseteq Hosts

=============================================================================
