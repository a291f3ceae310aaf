SPECIFICATION Spec
CONSTANTS
    Clients = {c1, c2}
    Triples = {t1, t2}
    Texts = {m1}
    MaxCounter = 1
    None = none
SYMMETRY Symmetry
INVARIANTS TypeOK HandlesAreDestroyedOnce WaitersWaitForAHandle IteratorsGiveEveryTriple
    NothingIsLost NothingComesBack PersistentObjectsAreWhole
CONSTRAINT OneStore
