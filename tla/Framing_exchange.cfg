SPECIFICATION Spec
CONSTANTS
    Requests <- RequestsMC
    Answers <- AnswersMC
    NewSessions = {258}
    Digest <- DigestMC
    H_SESSION_ID = 2
    H_PAYLOAD_LEN = 3
    H_HASH_LEN = 4
    MAX_MSG_SIZE = 6
    MAX_FILE_SIZE = 4
    Window = 7
    MaxAlloc = 8
CHECK_DEADLOCK FALSE
INVARIANTS
    TypeOK
    AsSent
    AsAnswered
PROPERTIES
    WorkerReturns
    ClientReturns
