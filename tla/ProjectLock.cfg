\* A parent, a child and a sibling root, three instances that may die.
SPECIFICATION LockSpec
CONSTANTS
    whole = whole
    part = part
    sibling = sibling
    Tasks = {whole, part, sibling}
    Root <- MCRoot
    Instances = {h, r, s}
    None = none
    MaxLocks = 3
INVARIANTS
    LockInv
    RootsAreExclusive
PROPERTIES
    LockImplementsPromise
    WriteLockComesBack
\* The system stops when its instances are dead.
CHECK_DEADLOCK FALSE
