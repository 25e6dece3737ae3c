SPECIFICATION Spec
CONSTANTS
    Workers = {w1}
    Main = main
    Names = {admin, alice, bob, al}
    DefaultUser = admin
    Perms = {1, 3}
    Admin = 3
    BadLength = {al}
    Separators = {}
    Misread <- NoneMisread
    Magic = Magic
    Nul = Nul
    Missing = Missing
    Lost = Lost
    MaxFaults = 2
INVARIANT
    LoneWorkerSavesAll
PROPERTIES
    LoneWorkerAbortsOnFault
    ImplementsStore
