\* Three clients and two pool threads; log.conf hides INFO.  Two connections
\* cost 12 of the 13 descriptors, the third one meets the limit.  Nothing of
\* what may fail besides can hurt the acceptor.
SPECIFICATION Spec
CONSTANTS
    Conns = {c1, c2, c3}
    None = None
    PoolSize = 2
    FdLimit = 13
    Segments = 1
    Requests = {"page"}
    Faulty = {"log file", "http.conf"}
    InfoVisible = FALSE
SYMMETRY Symmetry
INVARIANTS Ownership HarmHasCause
PROPERTIES QueuedIsSafe ServiceSteps
CHECK_DEADLOCK FALSE
