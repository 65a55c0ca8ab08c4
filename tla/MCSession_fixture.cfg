\* A shell test with the gkfs_daemon fixture: the daemon may die during a call.
CONSTANTS
    NumDaemons = 1
    Teardown = TRUE
    Timeout <- MCTimeout
    MaxLines <- MCMaxLines
    Preamble <- MCPreamble
    Kinds = {"shell"}
    ClientTimeout <- MCClientTimeout
    MaxCalls = 2
    Codes <- MCCodes
    NoLimit = NoLimit
SPECIFICATION SessionSpec
\* The test process ends after teardown; daemons that are left may idle.
CHECK_DEADLOCK FALSE
INVARIANT FailsFast
PROPERTY LifecycleRefined
INVARIANT NoOrphanDaemon
PROPERTY HarnessTerminates
