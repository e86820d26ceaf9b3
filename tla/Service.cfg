SPECIFICATION Spec
CONSTANTS
    k1 = k1
    k2 = k2
    a1 = a1
    NoKey = NoKey
    Keys = {k1, k2}
    Addresses = {a1}
    AddressOf <- MCAddressOf
    ReadOnly = FALSE
    SubnetRules <- MCSubnetRules
    Whitelist = {}
    Blacklist = {{a1}}
    Sids = {s1, s2, s3}
    MaxConnections = 2
    MaxConnectionsPerIp = 1
    MaxBytes = 1
    Conns = {c1, c2}
    ConnectionLimit = 1
INVARIANTS
    EachTransferCountedOnce
    RegistryIsSound
    SessionsAreHeard
    LimitsHold
    BytesCountedOnce
    OneResponse
SYMMETRY Symmetry
CHECK_DEADLOCK FALSE
