\* Calls of the four client classes; Client and FwdClient give sh no timeout.
CONSTANTS
    Kinds <- MCAllKinds
    Timeout <- MCTimeout
    MaxCalls = 4
    Codes <- MCCodes
    NoLimit = NoLimit
SPECIFICATION Spec
\* A test ends after its calls, or when a call raised or pytest.exit ran.
CHECK_DEADLOCK FALSE
PROPERTY CallReturns
