\* Two threads throw any number of exceptions.
SPECIFICATION Spec
CONSTANTS
    Threads = {t1, t2}
    NoTable = NoTable
INVARIANTS TypeOK MissingMeansFilling
PROPERTIES SettledForGood Repaired
