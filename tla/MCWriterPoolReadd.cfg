\* A subnet id added back: s1 after DeleteSubnet, whose DeleteSubnet may
\* still be queued on another worker than AllocateNewDBConn picks, and s3
\* after AddSubnet and a restart, which reloads only the file's subnets.
CONSTANTS
    s1 = s1  s2 = s2  s3 = s3  m1 = m1
    NoLease = NoLease  NoMac = NoMac  NoClientId = NoClientId  NoHost = NoHost
    NoWorker = NoWorker
    IPs <- MCIPs
    Macs = {m1}
    ClientIds = {}
    Subnets = {s1, s2, s3}
    Leases <- MCLeases
    InitSubnets = {s1, s2}
    AddIds = {s1, s3}
    DeleteIds = {s1}
    DBCount = 2
    BatchMax = 2
    ChanMax = 2
    MaxSteps = 5
    Configs = {{s1, s2}}
    MaxCrashes = 1
\* Behaviours end when the Stop command ends the process, or once the
\* engine writes and commands are used up and the workers have drained.
CHECK_DEADLOCK FALSE
SPECIFICATION Spec
INVARIANT TableMatchesMemory
