\* Two threads; the status line of some response reads null.
SPECIFICATION Spec
CONSTANTS
    Threads = {t1, t2}
    NoTable = NoTable
SYMMETRY Symmetry
INVARIANT EveryStatusNamed
