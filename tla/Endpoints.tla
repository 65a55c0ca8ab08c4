------------------------------ MODULE Endpoints ------------------------------
(***************************************************************************)
(* Daemon listen addresses (harness/gkfs.py).  Daemon.__init__ and        *)
(* FwdDaemon.__init__ call get_ephemeral_address(interface), which keeps  *)
(* the interface's own IPv4 address and asks get_ephemeral_port for a     *)
(* port: pick one at random, bind a probe socket (SO_REUSEADDR) to it,    *)
(* close the probe and return the port; on a bind error pick another and  *)
(* retry.  The daemon binds the address only later, in run().             *)
(*                                                                         *)
(* A test creates its daemons one after the other (the gkfs_daemon        *)
(* fixture, or FwdDaemonCreator.create called repeatedly), each one run   *)
(* to readiness before the next is created; tests of several pytest       *)
(* processes on one host run side by side.  All of them share the         *)
(* interface address, so a port is the whole endpoint.                    *)
(***************************************************************************)
EXTENDS Naturals, FiniteSets

CONSTANTS
    Tests,      \* concurrently running test processes
    Ports,      \* the range random.randrange(1024, 32768) draws from
    PerTest,    \* daemons a test creates
    Concurrent, \* tests run side by side (pytest-xdist) or one after another
    NoPort      \* no address yet

ASSUME PerTest \in Nat \ {0} /\ Concurrent \in BOOLEAN /\ NoPort \notin Ports

Slots == Tests \X (1..PerTest)

VARIABLES
    st,     \* per daemon handle: "none", "addressed", "listening", "failed", "gone"
    addr,   \* the port get_ephemeral_port returned for it
    next    \* per test: the index of the daemon it creates next

vars == <<st, addr, next>>

\* Ports on which a daemon process is bound.
Listening == {addr[s] : s \in {x \in Slots : st[x] = "listening"}}

TypeOK ==
    /\ st \in [Slots -> {"none", "addressed", "listening", "failed", "gone"}]
    /\ addr \in [Slots -> Ports \cup {NoPort}]
    /\ next \in [Tests -> 1..(PerTest + 1)]

Init ==
    /\ st = [s \in Slots |-> "none"]
    /\ addr = [s \in Slots |-> NoPort]
    /\ next = [t \in Tests |-> 1]

\* A test has created a daemon and not yet ended.
InProgress(t) ==
    /\ \E s \in Slots : s[1] = t /\ st[s] # "none"
    /\ \E s \in Slots : s[1] = t /\ st[s] # "gone"

\* Daemon.__init__ -> get_ephemeral_address -> get_ephemeral_port: the
\* probe bind succeeds on a port no daemon listens on; a failed bind only
\* leads to another random pick, so the returned port is one of those.
Allocate(t) ==
    LET s == <<t, next[t]>> IN
    /\ next[t] <= PerTest
    /\ st[s] = "none"
    /\ Concurrent \/ \A u \in Tests \ {t} : ~InProgress(u)
    /\ \E p \in Ports \ Listening :
         /\ addr' = [addr EXCEPT ![s] = p]
         /\ st' = [st EXCEPT ![s] = "addressed"]
    /\ UNCHANGED next

\* Daemon.run: the daemon binds its address; if another daemon holds the
\* port it cannot start, and run() raises after its readiness wait.
Run(t) ==
    LET s == <<t, next[t]>> IN
    /\ next[t] <= PerTest
    /\ st[s] = "addressed"
    /\ st' = [st EXCEPT ![s] = IF addr[s] \in Listening THEN "failed" ELSE "listening"]
    /\ next' = [next EXCEPT ![t] = next[t] + 1]
    /\ UNCHANGED addr

\* The test ends: its daemons are shut down and their ports freed.
Finish(t) ==
    /\ next[t] = PerTest + 1
    /\ \E s \in Slots : s[1] = t /\ st[s] # "gone"
    /\ st' = [s \in Slots |-> IF s[1] = t THEN "gone" ELSE st[s]]
    /\ UNCHANGED <<addr, next>>

Next == \E t \in Tests : Allocate(t) \/ Run(t) \/ Finish(t)

Spec == Init /\ [][Next]_vars

-----------------------------------------------------------------------------
\* No two daemons that hold an address at the same time were handed the
\* same one: the spec's promise that allocations, also concurrent ones,
\* never return the same (address, port) pair.
UniqueEndpoints ==
    \A s1, s2 \in Slots :
        (s1 # s2 /\ st[s1] \in {"addressed", "listening"}
                 /\ st[s2] \in {"addressed", "listening"})
            => addr[s1] # addr[s2]

=============================================================================
