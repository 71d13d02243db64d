CONSTANTS
    Names <- MCNames
    a1 = a1
    a2 = a2
    own = own
    remote = remote
    d1 = d1
    d2 = d2
    pod = pod
    cert = cert
    NoHost = NoHost
    Garbled = Garbled
    Configs <- Updating
    Apps = {a1, a2}
    Permanent = {}
    Hosts = {own, remote}
    OwnHost = own
    SecretSets <- OneRemote
    SharedExecutor = FALSE
    Resources = {d1, d2, pod, cert}
    Kind <- MCKind
    Tracked <- MCTracked
    Ownerships <- EvenOnly
    Missing <- MCMissing
    UserInclusions = {}
    Attempts = 1
    MaxEvents = 1
    MaxEdits = 0
    MaxChanges = 1
    MaxFailures = 0
    MaxRestarts = 0
SPECIFICATION Spec
PROPERTY DeletedAppsLeave
CHECK_DEADLOCK FALSE
