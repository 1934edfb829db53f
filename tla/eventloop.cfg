\* Two sockets, three slots, event and application timers.
CONSTANTS
    e1 = e1  e2 = e2  e3 = e3  e4 = e4  t1 = t1
    Socks <- TwoSocks
    Events = {e1, e2, e3, e4}
    NoEvent = NoEvent
    SlotOf <- ThreeSlots
    Priority <- TwoPriorities
    Timeout <- TwoTimeouts
    AppTimers = {t1}
    AppMillis = 2
    Limit = 1
    MaxCalls = 1
    Env = {"interrupt", "error", "stop", "unregister", "connect", "timers", "slow"}
SPECIFICATION FairSpec
INVARIANTS
    EntriesRegistered
    OversleepsByCallbacks
    TimersOfEvents
PROPERTIES
    UrgentIsServed
