\* Two starts of jsvc; the one without -wait, and with -nodetach, may fork a
\* second child. One signal to a controller, one jsvc -stop.
SPECIFICATION Spec
CONSTANTS
    Instances = {a, b}
    Waiters = {a}
    Attached = {b}
    MaxForks <- MCForks
    MaxSignals = 1
INVARIANTS TypeOK PidfileNamesService OneService StopIsHonest
CHECK_DEADLOCK FALSE
