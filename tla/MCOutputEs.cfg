SPECIFICATION Spec
CONSTANTS
    Answers <- MCAnswers
    BufSize = 10
    Request = 2
    MaxFaults = 1
    Options <- MCOptions
    Messages <- MCMessages
    MaxBlocks = 2
    ParseSize = 5
    FormatSize = 12
    Template <- MCTemplate
    Separators <- MCSeparators
    Translated <- MCTranslated
    Grep = "a"
INVARIANTS
    TypeOK
    AnswerRead
    RepeatsExcused
    Documents
PROPERTIES
    InOrder
    PostEnds
CHECK_DEADLOCK FALSE
