SPECIFICATION Spec
CONSTANTS
    Workers = {w1, w2}
    Main = main
    Names = {admin, alice}
    DefaultUser = admin
    Perms = {3}
    Admin = 3
    BadLength = {}
    Separators = {}
    Misread <- NoneMisread
    Magic = Magic
    Nul = Nul
    Missing = Missing
    Lost = Lost
    MaxFaults = 0
INVARIANT
    HashRepresentsDb
