\* Two workers, batches of two, channels of two.  s1 and s2 are loaded at
\* startup; s1 may be deleted and the fresh id s3 added.
CONSTANTS
    s1 = s1  s2 = s2  s3 = s3  m1 = m1
    NoLease = NoLease  NoMac = NoMac  NoClientId = NoClientId  NoHost = NoHost
    NoWorker = NoWorker
    IPs <- MCIPs
    Macs = {m1}
    ClientIds = {}
    Subnets = {s1, s2, s3}
    Leases <- MCLeases
    InitSubnets = {s1, s2}
    AddIds = {s3}
    DeleteIds = {s1}
    DBCount = 2
    BatchMax = 2
    ChanMax = 2
    MaxSteps = 4
    Configs = {{s2, s3}}
    MaxCrashes = 1
\* Behaviours end when the Stop command ends the process, or once the
\* engine writes and commands are used up and the workers have drained.
CHECK_DEADLOCK FALSE
SPECIFICATION Spec
INVARIANT TypeOK
INVARIANT TableMatchesMemory
PROPERTY Refines
