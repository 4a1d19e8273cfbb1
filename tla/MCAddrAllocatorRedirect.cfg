\* One subnet; m2 is reserved on 4 and asks for another address.
CONSTANTS
    s1 = s1  s2 = s2  m1 = m1  m2 = m2  k2 = k2  n1 = n1
    Subnets = {s1}
    IPs <- MCIPs
    Macs = {m1, m2}
    ClientIds = {k2}
    NoLease = NoLease  NoMac = NoMac  NoClientId = NoClientId  NoHost = NoHost  NoCall = NoCall
    SubnetConf <- MCSubnetConf1
    HostConf <- MCHosts1
    SharedConf <- MCNoShared
    Clients <- MCClients
    RequestAddrs = {1, 4}
    ConflictAnywhere = FALSE
    Handlers = {h1}
    MaxTime = 2
    RequestTypes = {"Discover", "Request", "Release", "Decline", "ConflictIP"}
    AdminCmds = {}
    MaxCmds = 0
    Ttls = {}
    PoolArgs = {}
    HostArgs = {}
    NetArgs = {}
    Reloads = {}
SPECIFICATION Spec
PROPERTY RedirectAsSpecified
