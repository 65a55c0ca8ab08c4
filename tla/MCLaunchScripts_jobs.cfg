\* Both scripts with every option, another job writing its pssh host file at the same time; neither passes -J.
CONSTANTS
    h1 = h1
    h2 = h2
    h3 = h3
    j1 = j1
    Hosts <- MCHosts
    OtherHosts <- MCOtherHosts
    OwnJobs <- MCNoJobs
    OtherJob = NoJob
    NoJob = NoJob
SPECIFICATION Spec
\* The operator's two scripts end; the nodes then stay as they are.
CHECK_DEADLOCK FALSE
INVARIANT OnlyOwnNodes
