SPECIFICATION FairSpec
CONSTANTS
    QueueLimit = 3
    MaxRequests = 6
INVARIANTS
    TypeOK
    OneOfEach
    AnswersInOrder
    BackPressure
PROPERTIES
    RequestsAreAnswered
    SessionsEnd
CHECK_DEADLOCK FALSE
