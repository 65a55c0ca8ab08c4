\* Endpoint allocation for two tests with two daemons each, run side by side.
CONSTANTS
    t1 = t1
    t2 = t2
    p1 = p1
    p2 = p2
    p3 = p3
    Tests <- MCTests
    Ports <- MCPorts
    PerTest = 2
    Concurrent = TRUE
    NoPort = NoPort
SPECIFICATION Spec
\* The test session ends once every test has finished.
CHECK_DEADLOCK FALSE
INVARIANT UniqueEndpoints
