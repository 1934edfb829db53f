\* Two requests, the second one preemptive, over pages that have moved, are
\* protected, are forbidden, or have a scheme that no protocol module is for.
CONSTANTS
    r1 = r1  r2 = r2
    moved = moved  secret = secret  private = private  banned = banned  odd = odd
    site = site  other = other
    Requests = {r1, r2}
    Preemptive = {r2}
    Urls = {moved, secret, private, banned, odd}
    NoUrl = NoUrl
    Loads <- AppLoads
    Scheme <- Schemes
    Supported = {"http"}
    Answers <- Replies
    Targets <- Places
    Realms = {site, other}
    NoRealm = NoRealm
    RealmOf <- Areas
    Forbidden = {banned}
    AppSetup <- AppFilters
    MaxRetry = 3
    Patience = 1
    Env = {"sync", "kill", "chain"}
\* When every request has gone astray, the event loop waits for nothing.
CHECK_DEADLOCK FALSE
SPECIFICATION FairSpec
INVARIANTS
    TypeOK
    NoFilterAfterDelete
    RefusedFromLoop
    CredentialsOfRealm
PROPERTIES
    ReportedUnlessAstray
