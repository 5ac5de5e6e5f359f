CONSTANTS
    r1 = r1
    r2 = r2
    r3 = r3
    Requests = {r1, r2, r3}
    Serves <- MCServes
    Asks <- MCAsks
    Grants <- MCGrants
    NoUpgrade = {"memory"}
    k1 = k1
    k2 = k2
    k3 = k3
    Keys = {k1, k2, k3}
    EmptyKey = k1
    BlankKey = k2
    Ids = {i1, i2, i3}
    None = None
    Drivers = {"memory", "file-system", "redis", "cloudflare", "rivet"}
    MaxFaults = 1
SPECIFICATION Spec
INVARIANT LoadsOnce
PROPERTY KeysNameOneActor
PROPERTY NeverReset
PROPERTY RequestsSettle
CHECK_DEADLOCK FALSE
