SPECIFICATION MCSpec
CONSTANTS
    m1 = m1
    m2 = m2
    NoMsg = NoMsg
    Msgs <- MCMsgs
    MaxRequests = 2
    MinChunks = 2
    MaxChunks = 3
    MailboxCap = 3
    MaxAsrEvents = 1
    MaxItems = 1
CHECK_DEADLOCK FALSE
INVARIANTS
    TypeOK
    OneFloor
    RegistrationExact
    ClosedCancelsAll
    TurnNamedByFirstAudio
    SuccessDelivered
    AnswersNotInterleaved
    PhasesInOrder
PROPERTIES
    CancelEnds
    SilentAfterCancel
    EndingDisturbsNobody
    ImplementsFloor
