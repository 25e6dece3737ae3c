SPECIFICATION Spec
CONSTANTS
    Workers = {w1, w2}
    Main = main
    Names = {admin, alice, al}
    DefaultUser = admin
    Perms = {3}
    Admin = 3
    BadLength = {al}
    Separators = {}
    Misread <- NoneMisread
    Magic = Magic
    Nul = Nul
    Missing = Missing
    Lost = Lost
    MaxFaults = 1
INVARIANTS
    TypeOK
    CleanStopKeepsAccounts
PROPERTY
    SaveAbortsOnFault
