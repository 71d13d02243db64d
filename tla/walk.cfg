CONSTANTS
    Names <- MCNames
    Relations <- MCRelations
    DirectSets <- MCDirectSets
SPECIFICATION Spec
INVARIANTS
    TypeOK
    NoNestedCall
    NothingForgotten
PROPERTY ImplementsAtomicWalk
CHECK_DEADLOCK FALSE
