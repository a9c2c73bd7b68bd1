\* Two servers, so that a switch may stand for another one, or a pin be left of another one; two
\* tries, so that one meets what the other left; an adapter that comes and goes under two overrides.
CONSTANTS
    Adapters = {"wifi"}
    MaxGuards = 2
    Servers = {a, b}
    Profiles = {"off"}
    EngageTries = 2
    RouteTries = 2
SPECIFICATION Spec
SYMMETRY Symmetry
CONSTRAINT FewLost
ACTION_CONSTRAINT EditsWait
INVARIANTS FailClosed WayBackOffered RoutesGone DnsRestored
