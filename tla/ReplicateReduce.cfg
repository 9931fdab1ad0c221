CONSTANT Groups <- SmallAndWide
SPECIFICATION Spec
INVARIANTS
    TypeOK
    ReceivesItsOwnReduction
PROPERTIES
    ImplementsPromise
    EveryReplicaFinishes
\* training ends after the last step
CHECK_DEADLOCK FALSE
