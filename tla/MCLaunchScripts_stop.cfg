\* Checks the shutdown report: one node's last log line vouches for all nodes.
CONSTANTS
    h1 = h1
    h2 = h2
    h3 = h3
    j1 = j1
    Hosts <- MCHosts
    OtherHosts <- MCOtherHosts
    OwnJobs <- MCOwnJobs
    OtherJob = NoJob
    NoJob = NoJob
SPECIFICATION Spec
\* The operator's two scripts end; the nodes then stay as they are.
CHECK_DEADLOCK FALSE
PROPERTY StopReportSound
