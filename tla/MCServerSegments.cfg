\* Two clients whose requests, of every kind that has an answer, arrive in two
\* segments, and two pool threads, which work at once when the collector has
\* closed streams; one connection costs 8 of the 9 descriptors.  Every call may
\* fail.
SPECIFICATION Spec
CONSTANTS
    Conns = {c1, c2}
    None = None
    PoolSize = 2
    FdLimit = 9
    Segments = 2
    Requests = {"page", "refused", "directory", "error"}
    Faulty = {"accept", "log.conf", "log file", "http.conf", "malformed", "page"}
    InfoVisible = TRUE
SYMMETRY Symmetry
INVARIANTS TypeOK DroppedForCause ReplyAnswersRequest
CHECK_DEADLOCK FALSE
