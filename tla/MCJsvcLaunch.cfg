\* A start of jsvc in several circumstances, two children, two signals to the
\* controller; and a start that stops it or comes to nothing.
SPECIFICATION LaunchSpec
CONSTANTS
    b = b
    s = s
    Instances = {b, s}
    Waiters = {}
    Attached = {}
    MaxForks <- MCForks
    MaxSignals = 2
    Numbers <- MCNumbers
    Users <- MCUsers
    Circumstances <- MCCircumstances
    Starts <- MCStarts
INVARIANTS LoggerServesOutput ServiceRunsAsUser
PROPERTIES ShutdownEnds Restarted StartEnds
CHECK_DEADLOCK FALSE
