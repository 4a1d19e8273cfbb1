\* The Stop command ends the process with operations still pending.
CONSTANTS
    s1 = s1  s2 = s2  s3 = s3  m1 = m1
    NoLease = NoLease  NoMac = NoMac  NoClientId = NoClientId  NoHost = NoHost
    NoWorker = NoWorker
    IPs <- MCIPs
    Macs = {m1}
    ClientIds = {}
    Subnets = {s1, s2, s3}
    Leases <- MCLeases
    InitSubnets = {s1, s2}
    AddIds = {s3}
    DeleteIds = {s1}
    DBCount = 2
    BatchMax = 2
    ChanMax = 2
    MaxSteps = 5
    Configs = {{s1, s2}}
    MaxCrashes = 0
\* Behaviours end when the Stop command ends the process, or once the
\* engine writes and commands are used up and the workers have drained.
CHECK_DEADLOCK FALSE
SPECIFICATION Spec
INVARIANT ShutdownFlushed
