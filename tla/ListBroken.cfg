CONSTANTS
    c1 = c1
    c2 = c2
    c3 = c3
    p1 = p1
    Cars <- ThreeCars
    Callers = {p1}
    Reaches <- OneForAll
    Nobody = Nobody
    Leavers = {c1}
    Interrupted = {}
SPECIFICATION Spec
INVARIANT
    ListUnbroken
CHECK_DEADLOCK FALSE
