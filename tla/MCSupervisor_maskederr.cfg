\* The gkfs_daemon fixture: one daemon, shut down at teardown.
CONSTANTS
    NumDaemons = 1
    Teardown = TRUE
    Timeout <- MCTimeout
    MaxLines <- MCMaxLines
    Preamble <- MCPreamble
SPECIFICATION Spec
\* The test process ends after teardown; daemons that are left may idle.
CHECK_DEADLOCK FALSE
INVARIANT FailureCauseReported
