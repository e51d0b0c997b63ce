CONSTANTS
    c1 = c1
    c2 = c2
    c3 = c3
    p1 = p1
    Cars <- TwoCars
    Callers = {p1}
    Reaches <- OneForAll
    Nobody = Nobody
    Leavers = {c1}
    Interrupted = {"walking", "refusing", "assigning"}
SPECIFICATION Spec
INVARIANTS
    ListSound
CHECK_DEADLOCK FALSE
PROPERTIES
    CallAnswered
    CarLeaves
