\* Two clients, one of whose requests may make its worker throw, and one
\* pool thread; while the first request's file is being read no
\* descriptor is left to accept the second connection.  accept() and http.conf
\* may fail besides.
SPECIFICATION Spec
CONSTANTS
    Conns = {c1, c2}
    None = None
    PoolSize = 1
    FdLimit = 8
    Segments = 1
    Requests = {"page", "undecodable"}
    Faulty = {"accept", "http.conf"}
    InfoVisible = TRUE
PROPERTIES QueuedIsServed BacklogIsAccepted ImplementsService
CHECK_DEADLOCK FALSE
