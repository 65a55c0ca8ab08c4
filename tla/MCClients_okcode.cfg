\* Calls of the two shell client classes whose command may exit with status 1.
CONSTANTS
    Kinds <- ShellKinds
    Timeout <- MCTimeout
    MaxCalls = 2
    Codes <- MCCodes
    NoLimit = NoLimit
SPECIFICATION Spec
\* A test ends after its calls, or when a call raised or pytest.exit ran.
CHECK_DEADLOCK FALSE
INVARIANT ShellStatusReturned
