CONSTANTS
    Names <- MCNames
    a1 = a1
    a2 = a2
    own = own
    remote = remote
    d1 = d1
    d2 = d2
    pod = pod
    cert = cert
    NoHost = NoHost
    Garbled = Garbled
    Configs <- AnyConfig
    Apps = {a1, a2}
    Permanent = {a1}
    Hosts = {own, remote}
    OwnHost = own
    SecretSets <- AnySecrets
    SharedExecutor = FALSE
    Resources = {d1, d2, pod, cert}
    Kind <- MCKind
    Tracked <- MCTracked
    Ownerships <- EvenOrNot
    Missing <- MCMissing
    UserInclusions <- MCUserInclusions
    Attempts = 2
    MaxEvents = 1
    MaxEdits = 2
    MaxChanges = 1
    MaxFailures = 1
    MaxRestarts = 1
SPECIFICATION Spec
INVARIANT TypeOK
PROPERTIES
    WritesCoverSteadyApps
    WritesOnlySeenApps
    UpdatesAreAtomic
    Quiesces
    Converges
