SPECIFICATION Spec
CONSTANTS
    l1 = l1
    l2 = l2
    Table <- MCTable
    Lines <- MCLines
    Envs <- AllEnvs
INVARIANTS
    FieldsAsAsked
    AnswersAreTrue
CHECK_DEADLOCK FALSE
