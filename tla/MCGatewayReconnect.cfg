SPECIFICATION GateSpec
CONSTANTS
    o1 = o1  o2 = o2  s1 = s1  s2 = s2  s3 = s3  j1 = j1  j2 = j2  j3 = j3
    None = None
    Sessions = {s1, s2}
    SessionOwner <- MCSessionOwner
    Jobs = {j1}
    JobOwner <- MCJobOwner
    SendCap = 1
    FaultKinds = {}
    MaxFaults = 0
INVARIANT ConnectedIsRegistered
\* Nothing is left to do once every job is handled and every stream is over.
CHECK_DEADLOCK FALSE
