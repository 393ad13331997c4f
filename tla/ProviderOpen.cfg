SPECIFICATION Spec
CONSTANTS
    Clients = {c1}
    Diagnosing = {c1}
    Hosts = {gateway, routed}
    Gateway = gateway
    Addrs = {a1, a2}
    Transports = 2
    LoginTimeout = 3
    ConnectTimeout = 2
    RetryCount = 1
    RetryInterval = 2
    MaxRedirects = 1
    MaxParallelIps = 2
    MaxOthers = 1
INVARIANTS OneConnection WithinLoginDeadline CacheIsVerdict
PROPERTY ConnectReturns
CHECK_DEADLOCK FALSE
