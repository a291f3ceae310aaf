CONSTANTS
    Queries <- MCQueries
    Wheres <- MCWheres
    MaxEvaluations = 2
    NodeOf <- Value
    UpdatedBy <- UpdateValue
    CopyOf <- Clone
    QueryOf <- Parsed
    Unparsed <- NotParsed
SPECIFICATION Spec
INVARIANTS
    TypeOK
    AnswersAreSolutions
    AnswersAreInOrder
    ThePageIsFull
CHECK_DEADLOCK FALSE
