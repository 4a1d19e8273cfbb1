\* Two connections on two shared subnets, no host reservations.
CONSTANTS
    s1 = s1  s2 = s2  m1 = m1  m2 = m2  k2 = k2  n1 = n1
    Subnets = {s1, s2}
    IPs <- MCIPs
    Macs = {m1, m2}
    ClientIds = {k2}
    NoLease = NoLease  NoMac = NoMac  NoClientId = NoClientId  NoHost = NoHost  NoCall = NoCall
    SubnetConf <- MCSubnetConfSmall
    HostConf <- MCNoHosts
    SharedConf <- MCShared
    Clients <- MCClients
    RequestAddrs = {2, 5}
    ConflictAnywhere = FALSE
    Handlers = {h1, h2}
    MaxTime = 0
    RequestTypes = {"Discover", "Request", "Release"}
    AdminCmds = {"AddSubnet", "DeleteSubnet", "AddSharedNetwork", "DeleteSharedNetwork",
                 "UpdateSharedNetwork"}
    MaxCmds = 2
    Ttls = {1}
    PoolArgs = {}
    HostArgs = {}
    NetArgs <- MCNetArgs
    Reloads = {}
\* A panic (a shared network naming a deleted subnet) ends the process;
\* nothing else stops a behaviour, as Receive stays enabled.
CHECK_DEADLOCK FALSE
SPECIFICATION Spec
VIEW MCView
INVARIANT MemoryMatchesDB
INVARIANT IndexConsistent
PROPERTY ScanComplete
PROPERTY DiscoverNoPersist
