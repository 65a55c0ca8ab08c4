\* Two forwarding daemons created by FwdDaemonCreator in one workspace.
CONSTANTS
    NumDaemons = 2
    Teardown = FALSE
    Timeout <- MCTimeout
    MaxLines <- MCMaxLines
    Preamble <- MCPreamble
SPECIFICATION Spec
CHECK_DEADLOCK FALSE
INVARIANT ReadyMeansOwnMarker
