SPECIFICATION Spec
CONSTANTS
    NoVar = NoVar
    Unbound = Unbound
    Nodes = {n1, n2}
    Anonymous <- MCAnonymous
    VarOrder <- MCVarOrder
    Queries <- FilteredOptional
    Data <- MCData
    GraphOf <- GroupGraph
    AnswersOf <- ProjectOperator
INVARIANT AnswersPassTheFilters
CHECK_DEADLOCK FALSE
