\* s1 with two pools and s2, in one shared network, and one client; one
\* admin command, a pool deletion or a subnet deletion, between requests.
CONSTANTS
    s1 = s1  s2 = s2  m1 = m1  m2 = m2  k2 = k2  n1 = n1
    Subnets = {s1, s2}
    IPs <- MCIPs
    Macs = {m1}
    ClientIds = {}
    NoLease = NoLease  NoMac = NoMac  NoClientId = NoClientId  NoHost = NoHost  NoCall = NoCall
    SubnetConf <- MCSubnetConf
    HostConf <- MCNoHosts
    SharedConf <- MCShared
    Clients <- MCClient1
    RequestAddrs = {0, 5}
    ConflictAnywhere = FALSE
    Handlers = {h1}
    MaxTime = 0
    RequestTypes = {"Discover", "Request"}
    AdminCmds = {"DeletePool", "DeleteSubnet"}
    MaxCmds = 1
    Ttls = {}
    PoolArgs <- MCPoolArgs1
    HostArgs = {}
    NetArgs = {}
    Reloads = {}
CHECK_DEADLOCK FALSE
SPECIFICATION Spec
VIEW MCView
INVARIANT NoPanic
