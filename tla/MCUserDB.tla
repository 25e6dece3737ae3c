------------------------------ MODULE MCUserDB ------------------------------
(***************************************************************************)
(* Instances of UserDB for TLC: the refinement of AccountStore by a server *)
(* with one worker, and what the documentation says that the code of       *)
(* several workers does not do.                                            *)
(***************************************************************************)
EXTENDS UserDB

CONSTANT Lost           \* the files of a server that does not boot

ASSUME LostAssumption == Lost \notin Accounts

\* The instances have no name with a separator.
NoneMisread == [l \in {} |-> {}]

\* The accounts db_init would load, or Lost where it would refuse.
Stored ==
    CASE dbFile = Missing /\ hashFile = Missing -> DefaultAccounts
      [] hashFile # Missing /\ dbFile # Missing /\ Boots(Loaded(dbFile)) -> Loaded(dbFile)
      [] OTHER -> Lost

Broken == faults > 0    \* a file system call has failed

InMemory == ~Broken /\ phase \in {"up", "draining", "saving"}

Installing == ~Broken /\ phase = "booting" /\ pc[Main] # "load"

StoreAccounts ==
    CASE Broken -> Lost [] InMemory -> table [] Installing -> DefaultAccounts
      [] OTHER -> Stored

StoreAnswered == IF InMemory THEN acked ELSE StoreAccounts

StoreMode ==
    CASE Broken -> "broken"
      [] Installing -> "installing"
      [] InMemory /\ phase = "saving" -> "stopping"
      [] InMemory /\ Serving -> IF \A w \in Workers : pc[w] \in {"idle", "set"}
                                  THEN "up" ELSE "changing"
      [] OTHER -> "down"

Store == INSTANCE AccountStore WITH
    Default  <- DefaultAccounts,
    accounts <- StoreAccounts,
    answered <- StoreAnswered,
    mode     <- StoreMode

\* A server with one worker does to its accounts and its files what
\* AccountStore says: answered changes are durable, an interrupted one is all
\* or nothing or refused, until a file system call fails (db_create_user,
\* db_remove_user, db_update_db, db_init and db_shutdown together).
ImplementsStore == Store!StoreSpec
-----------------------------------------------------------------------------
(***************************************************************************)
(* What comments and the README say, with several workers.                 *)
(***************************************************************************)

\* server_db.c:758 "Update the .cape.hash file with the hash that represents
\* the .cape.db file": after any number of updates, with none under way, the
\* hash file represents the database file.
HashRepresentsDb == (Serving /\ Quiescent) => hashFile = <<dbFile>>

\* server_db.c:259 "OP_USER_EXISTS if user already exists": no account is
\* created over an existing one.
CreateIsExclusive ==
    [][\A w \in Workers : (pc[w] = "set" /\ pc'[w] = "count")
            => job[w].user \notin DOMAIN table]_vars
=============================================================================
