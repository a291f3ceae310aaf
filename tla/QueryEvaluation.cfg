SPECIFICATION Spec
CONSTANTS
    NoVar = NoVar
    Unbound = Unbound
    Nodes = {n1, n2}
    Anonymous <- MCAnonymous
    VarOrder <- MCVarOrder
    Queries <- MCQueries
    Data <- MCData
    GraphOf <- GroupGraph
    AnswersOf <- ProjectOperator
INVARIANTS TypeOK EvaluatesWhatIsLeft NoAssertionFails AnswersAreTheAlgebras
CHECK_DEADLOCK FALSE
