------------------------------ MODULE Lifecycle ------------------------------
(***************************************************************************)
(* What a supervised daemon handle promises (spec.md, 4.2): Created ->    *)
(* Starting -> Active -> Terminated, with Starting -> Failed on timeout   *)
(* or death and Failed -> Terminated after cleanup.  A handle becomes     *)
(* Active only once its own process has signalled readiness, a startup    *)
(* never waits forever, and nothing leaves Terminated.                    *)
(***************************************************************************)
CONSTANT Daemons

VARIABLES
    life,       \* the state of each daemon handle
    signalled   \* the daemon process has signalled its readiness

vars == <<life, signalled>>

Init ==
    /\ life = [d \in Daemons |-> "Created"]
    /\ signalled = [d \in Daemons |-> FALSE]

Move(d, from, to) ==
    /\ life[d] = from
    /\ life' = [life EXCEPT ![d] = to]
    /\ UNCHANGED signalled

Launch(d) == Move(d, "Created", "Starting")

\* The process signals readiness; it can do so until it is terminated,
\* also after its handle has already given up on it.
Signal(d) ==
    /\ life[d] \in {"Starting", "Failed"}
    /\ ~signalled[d]
    /\ signalled' = [signalled EXCEPT ![d] = TRUE]
    /\ UNCHANGED life

Activate(d) == signalled[d] /\ Move(d, "Starting", "Active")

Fail(d) == Move(d, "Starting", "Failed")

Cleanup(d) == Move(d, "Failed", "Terminated")

Shutdown(d) == Move(d, "Active", "Terminated")

Next ==
    \E d \in Daemons :
        \/ Launch(d) \/ Signal(d) \/ Activate(d) \/ Fail(d)
        \/ Cleanup(d) \/ Shutdown(d)

\* A startup ends: the handle becomes Active or Failed.
Spec ==
    /\ Init /\ [][Next]_vars
    /\ \A d \in Daemons : WF_vars(Activate(d) \/ Fail(d))

=============================================================================
