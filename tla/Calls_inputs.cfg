SPECIFICATION Spec
CONSTANTS
    Numbers <- NumbersMC
    NotANumber = no
    Homes <- HomesMC
    NoHome = none
    MIN_PORT = 1025
    MAX_PORT = 65535
    DEFAULT_PORT = 31337
    MAX_TIMEOUT = 300
    DEFAULT_TIMEOUT = 60
    MaxOptions = 3
    Names <- NamesMC
    NameLength <- LengthMC
    Home <- HomeMC
    Lookalikes = {"h", "hx"}
    Outside <- OutsideMC
    PATH_MAX = 12
    MaxParts = 3
    MaxTree = 7
    Entries <- EntriesMC
    Hidden <- HiddenMC
    Digits <- DigitsMC
    BUFF_SIZE = 16
    MaxName = 7
    MaxDigits = 3
    MaxLines = 4
    Digests <- DigestsMC
CHECK_DEADLOCK FALSE
INVARIANTS
    AcceptedAsGiven
    MadeInHome
    MadeIsFound
    PutReplacesNothing
    ReadBack
    OverrunsStayShort
    HashReloads
