---------------------------- MODULE AccountStore ----------------------------
(***************************************************************************)
(* What the user database promises when one worker serves the requests one *)
(* after the other (src/src/server/server_db.c).  The accounts change one  *)
(* at a time; an answered change survives a crash; a crash during a change *)
(* leaves the accounts as they were before or after it, or leaves files    *)
(* the server refuses to boot from (Lost).  The promise ends where a file  *)
(* system call of the server fails (Break): db_update_db does not tell its *)
(* callers, so the accounts that are answered need not be on disk.         *)
(***************************************************************************)
CONSTANTS Names, Perms,
          Default,      \* the accounts of a server that starts over
          Lost          \* files the server refuses to boot from

VARIABLES accounts,     \* the accounts, those on disk while the server is down
          answered,     \* the accounts when the last request was answered
          mode          \* what the server is doing

storeVars == <<accounts, answered, mode>>

Modes == {"down", "installing", "up", "changing", "stopping", "broken"}

StoreInit ==
    /\ accounts = Default
    /\ answered = Default
    /\ mode = "down"

\* The first boot writes the default accounts.
Install ==
    /\ accounts = Default
    /\ \/ mode = "down" /\ mode' = "installing"
       \/ mode = "installing" /\ mode' = "down"
    /\ UNCHANGED <<accounts, answered>>

Start ==
    /\ mode = "down"
    /\ accounts # Lost
    /\ mode' = "up"
    /\ UNCHANGED <<accounts, answered>>

Add(u, p) ==
    /\ mode = "up"
    /\ u \notin DOMAIN accounts
    /\ accounts' = [n \in DOMAIN accounts \cup {u} |-> IF n = u THEN p ELSE accounts[n]]
    /\ mode' = "changing"
    /\ UNCHANGED answered

Remove(u) ==
    /\ mode = "up"
    /\ u \in DOMAIN accounts
    /\ accounts' = [n \in DOMAIN accounts \ {u} |-> accounts[n]]
    /\ mode' = "changing"
    /\ UNCHANGED answered

Answer ==
    /\ mode = "changing"
    /\ mode' = "up"
    /\ answered' = accounts
    /\ UNCHANGED accounts

Stop ==
    /\ \/ mode = "up" /\ mode' = "stopping"
       \/ mode = "stopping" /\ mode' = "down"
    /\ UNCHANGED <<accounts, answered>>

\* Between requests a crash loses nothing.
Fail ==
    /\ mode \notin {"down", "broken"}
    /\ mode' = "down"
    /\ accounts' \in CASE mode = "up" -> {accounts}
                       [] mode = "changing" -> {answered, accounts, Lost}
                       [] OTHER -> {accounts, Lost}
    /\ answered' = accounts'

StartOver ==
    /\ mode = "down"
    /\ accounts = Lost
    /\ accounts' = Default
    /\ answered' = Default
    /\ UNCHANGED mode

\* Every call of an update that can fail comes after the change itself.
Break ==
    /\ mode \in {"installing", "changing", "stopping"}
    /\ mode' = "broken"
    /\ accounts' = Lost
    /\ answered' = Lost

StoreNext ==
    \/ Install \/ Start \/ Answer \/ Stop \/ Fail \/ StartOver \/ Break
    \/ \E u \in Names : Remove(u) \/ \E p \in Perms : Add(u, p)

StoreSpec == StoreInit /\ [][StoreNext]_storeVars
=============================================================================
