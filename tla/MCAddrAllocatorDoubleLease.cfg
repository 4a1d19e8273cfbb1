\* Two shared subnets; m2 holds a reservation on 4 in s1.
CONSTANTS
    s1 = s1  s2 = s2  m1 = m1  m2 = m2  k2 = k2  n1 = n1
    Subnets = {s1, s2}
    IPs <- MCIPs
    Macs = {m1, m2}
    ClientIds = {k2}
    NoLease = NoLease  NoMac = NoMac  NoClientId = NoClientId  NoHost = NoHost  NoCall = NoCall
    SubnetConf <- MCSubnetConf
    HostConf <- MCHosts2
    SharedConf <- MCShared
    Clients <- MCClients
    RequestAddrs = {4, 5}
    ConflictAnywhere = FALSE
    Handlers = {h1}
    MaxTime = 2
    RequestTypes = {"Discover", "Request", "Release", "Decline", "ConflictIP"}
    AdminCmds = {}
    MaxCmds = 0
    Ttls = {}
    PoolArgs = {}
    HostArgs = {}
    NetArgs = {}
    Reloads = {}
SPECIFICATION Spec
INVARIANT NoAddressLeasedTwice
