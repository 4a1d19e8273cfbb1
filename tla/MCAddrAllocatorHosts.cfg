\* One subnet; client m2 holds a host reservation on 4.  One pool, host or
\* lifetime command at any point between requests.
CONSTANTS
    s1 = s1  s2 = s2  m1 = m1  m2 = m2  k2 = k2  n1 = n1
    Subnets = {s1}
    IPs <- MCIPs
    Macs = {m1, m2}
    ClientIds = {k2}
    NoLease = NoLease  NoMac = NoMac  NoClientId = NoClientId  NoHost = NoHost  NoCall = NoCall
    SubnetConf <- MCSubnetConf1
    HostConf <- MCHosts1
    SharedConf <- MCNoShared
    Clients <- MCClients
    RequestAddrs = {1, 2, 4}
    ConflictAnywhere = FALSE
    Handlers = {h1}
    MaxTime = 2
    RequestTypes = {"Discover", "Request", "Release", "Decline", "ConflictIP"}
    AdminCmds = {"UpdateSubnet", "AddPool", "AddReservedPool",
                 "DeletePool", "DeleteReservedPool", "AddHost", "DeleteHost", "Reconfig"}
    MaxCmds = 1
    Ttls = {2}
    PoolArgs <- MCPoolArgs
    HostArgs <- MCHostArgs
    NetArgs = {}
    Reloads <- MCReloads1
\* A panic (DeletePool leaving the picker cursor outside every pool) ends
\* the process; nothing else stops a behaviour, as Receive stays enabled.
CHECK_DEADLOCK FALSE
SPECIFICATION Spec
VIEW MCView
INVARIANT TypeOK
INVARIANT MemoryMatchesDB
INVARIANT IndexConsistent
INVARIANT OneLeasePerClient
PROPERTY ReservationRespected
PROPERTY ScanComplete
PROPERTY DiscoverNoPersist
PROPERTY ReloadKeepsPoolLeases
