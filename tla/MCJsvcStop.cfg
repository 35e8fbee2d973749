\* One start of jsvc, two children, three signals to the controller.
SPECIFICATION Spec
CONSTANTS
    Instances = {b}
    Waiters = {}
    Attached = {}
    MaxForks <- MCForks
    MaxSignals = 3
CHECK_DEADLOCK FALSE
INVARIANT StopStops
