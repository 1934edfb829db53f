\* What is left of the registrations of HTAfterInit.
CONSTANTS
    r1 = r1  r2 = r2
    moved = moved  secret = secret  private = private  banned = banned  odd = odd
    site = site  other = other
    Requests = {r1, r2}
    Preemptive = {r2}
    Urls = {moved, secret, private, banned, odd}
    NoUrl = NoUrl
    Loads <- AppLoads
    Scheme <- Schemes
    Supported = {"http"}
    Answers <- Replies
    Targets <- Places
    Realms = {site, other}
    NoRealm = NoRealm
    RealmOf <- Areas
    Forbidden = {banned}
    AppSetup <- AppFilters
    MaxRetry = 3
    Patience = 1
    Env = {"sync", "kill", "chain"}
SPECIFICATION Spec
INVARIANTS
    HTAfterInitInEffect
