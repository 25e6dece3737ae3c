------------------------------- MODULE Access -------------------------------
(***************************************************************************)
(* Authentication and permissions of concurrent requests                   *)
(* (src/src/server/server_ctrl.c: ctrl_parse_action, user_action;          *)
(* src/src/server/server_db.c: db_authenticate_user, db_create_user,       *)
(* db_remove_user).                                                        *)
(*                                                                         *)
(* db_authenticate_user hands out the pointer that htable_get returned.    *)
(* The worker reads the password's hash and later the permission through   *)
(* it, while another worker may take the account out of users_htable and   *)
(* free it, the hash first, then the permission, then the rest.  Nothing   *)
(* is locked; an action is the run of a worker's code that touches the     *)
(* table or an account once.  The build has the address sanitizer: a use   *)
(* of what was freed ends the process.                                     *)
(*                                                                         *)
(* A password stands for its hash.  The session of a request (Session), the *)
(* files of the database (UserDB) and the tree (FileStore) are left to      *)
(* those modules.  An address is not given out twice: the sanitizer keeps   *)
(* freed memory back.                                                      *)
(***************************************************************************)
EXTENDS Naturals

CONSTANTS
    Workers,            \* the threads of the pool
    Names, NoName,      \* user names, and none
    Passwords,
    Broken, NoHash,     \* in place of one: a hash that is being freed, and NULL
    WirePerms,          \* the permission bytes that requests ask for
    NewAccounts,        \* the passwords and permissions they create users with
    BadLength,          \* the names that break a length rule
    DefaultUser, DefaultPassword,
    Ids, NoId,          \* the addresses of accounts, and NULL
    Unused, Freed,      \* what is at an address that holds no account
    NoRight             \* in place of a permission: there is none

READ_WRITE == 2
ADMIN      == 3

Perms == WirePerms \cup {ADMIN}

\* An account, and what is left of one while it is freed.
Accounts == [pass : Passwords, perm : Perms]
Dying    == [pass : {Broken}, perm : Perms]
Wiped    == [pass |-> NoHash, perm |-> 0]
Remains  == Dying \cup {Wiped}

\* What a request may ask for: an operation on users, one that changes files
\* (put, mkdir, delete), one that reads them (ls, get), authentication alone,
\* and an opcode or user flag the server does not know.
Operations ==
    [act : {"create"}, name : Names, account : NewAccounts]
      \cup [act : {"delete"}, name : Names]
      \cup [act : {"write", "read", "local", "unknown"}]

Requests == [user : Names \cup {NoName}, pass : Passwords, op : Operations]

ASSUME AccessAssumption ==
    /\ WirePerms \subseteq Nat
    /\ NewAccounts \subseteq [pass : Passwords, perm : WirePerms]
    /\ DefaultUser \in Names /\ DefaultPassword \in Passwords
    /\ NoName \notin Names
    /\ Broken \notin Passwords /\ NoHash \notin Passwords \cup {Broken}
    /\ NoId \notin Ids
    /\ Unused \notin Accounts \cup Remains
    /\ Freed \notin Accounts \cup Remains \cup {Unused}
    /\ NoRight \notin Perms

Codes == {"NONE", "OP_SUCCESS", "OP_SESSION_ERROR", "OP_PERMISSION_ERROR",
          "OP_USER_EXISTS", "OP_CRED_RULE_ERROR", "OP_USER_AUTH",
          "OP_USER_NO_EXIST", "OP_FAILURE"}

Removing == {"destroy", "wipe", "free"}
PCs == {"idle", "match", "session", "permit", "create", "set", "delete",
        "read", "write"} \cup Removing
-----------------------------------------------------------------------------
VARIABLES
    up,         \* the process has not been ended
    table,      \* users_htable: names to addresses
    heap,       \* what is at each address
    pc,         \* where each worker is in its request
    req,        \* its request
    ptr,        \* p_user, the account it authenticates with
    victim,     \* the account db_remove_user took out of the table
    said,       \* what the last step answered, if it answered
    right,      \* history: the permission its request was found to have
    lost        \* history: the permission its p_user had when that left the
                \* table, if it did

vars == <<up, table, heap, pc, req, ptr, victim, said, right, lost>>

NoRequest == [user |-> NoName, pass |-> DefaultPassword, op |-> [act |-> "local"]]

\* main after db_init of a new home directory: the default account.
Init ==
    /\ up = TRUE
    /\ \E i \in Ids :
         /\ table = [n \in {DefaultUser} |-> i]
         /\ heap = [j \in Ids |-> IF j = i THEN [pass |-> DefaultPassword, perm |-> ADMIN]
                                           ELSE Unused]
    /\ pc = [w \in Workers |-> "idle"]
    /\ req = [w \in Workers |-> NoRequest]
    /\ ptr = [w \in Workers |-> NoId]
    /\ victim = [w \in Workers |-> NoId]
    /\ said = "NONE"
    /\ right = [w \in Workers |-> NoRight]
    /\ lost = [w \in Workers |-> NoRight]

Goto(w, from, to) ==
    /\ up /\ up' = up
    /\ pc[w] = from
    /\ pc' = [pc EXCEPT ![w] = to]

Silent == said' = "NONE"

\* A step inside a request that changes nothing but where the worker is.
Advance(w, from, to) ==
    /\ Goto(w, from, to) /\ Silent
    /\ UNCHANGED <<table, heap, req, ptr, victim, right, lost>>

\* The request ends with an answer.
Answer(w, from, c) ==
    /\ Goto(w, from, "idle")
    /\ said' = c
    /\ req' = [req EXCEPT ![w] = NoRequest]
    /\ ptr' = [ptr EXCEPT ![w] = NoId]
    /\ victim' = [victim EXCEPT ![w] = NoId]
    /\ right' = [right EXCEPT ![w] = NoRight]
    /\ lost' = [lost EXCEPT ![w] = NoRight]
-----------------------------------------------------------------------------
(***************************************************************************)
(* db_authenticate_user.                                                   *)
(***************************************************************************)

\* htable_get knows no such user.
FindNobody(w) ==
    /\ Names \ DOMAIN table # {}
    /\ Answer(w, "idle", "OP_USER_AUTH")
    /\ UNCHANGED <<table, heap>>

FindUser(w, r) ==
    /\ Goto(w, "idle", "match") /\ Silent
    /\ r.user \in DOMAIN table
    /\ LET i == table[r.user]
       IN  /\ ptr' = [ptr EXCEPT ![w] = i]
           /\ right' = [right EXCEPT ![w] =
                          IF heap[i].pass = r.pass THEN heap[i].perm ELSE NoRight]
    /\ req' = [req EXCEPT ![w] = r]
    /\ UNCHANGED <<table, heap, victim, lost>>

\* hash_hash_t_match of the stored hash and the password's, which is not used
\* again.  Of a hash that is being freed it finds the size set to 0, and so a
\* mismatch; or finds that after it compared the sizes, and nothing to compare.
Match(w) ==
    /\ pc[w] = "match" /\ heap[ptr[w]] # Freed
    /\ heap[ptr[w]].pass \in {req[w].pass, Broken}
    /\ Goto(w, "match", "session") /\ Silent
    /\ req' = [req EXCEPT ![w].pass = DefaultPassword]
    /\ right' = [right EXCEPT ![w] = heap[ptr[w]].perm]
    /\ UNCHANGED <<table, heap, ptr, victim, lost>>

Mismatch(w) ==
    /\ pc[w] = "match" /\ heap[ptr[w]] # Freed
    /\ heap[ptr[w]].pass # req[w].pass
    /\ Answer(w, "match", "OP_USER_AUTH")
    /\ UNCHANGED <<table, heap>>

\* The session of the request is new or known, or it is neither.
HasSession(w) == Advance(w, "session", "permit")

NoSession(w) ==
    /\ Answer(w, "session", "OP_SESSION_ERROR")
    /\ UNCHANGED <<table, heap>>
-----------------------------------------------------------------------------
(***************************************************************************)
(* The switch of ctrl_parse_action.                                        *)
(***************************************************************************)

\* The operations that are checked, through p_user.
Checked(op) == op.act \in {"create", "delete", "write"}

\* Mutant: the permission of the new account is not compared.
AllowedUncompared(op, perm) ==
    \/ op.act = "create"
    \/ op.act = "delete" /\ perm = ADMIN
    \/ op.act = "write" /\ perm >= READ_WRITE

Allowed(op, perm) ==
    \/ op.act = "create" /\ perm >= op.account.perm
    \/ op.act = "delete" /\ perm = ADMIN
    \/ op.act = "write" /\ perm >= READ_WRITE

\* Mutant: put, mkdir and delete fall through to the operations that are not
\* checked.
PermitUnchecked(w) ==
    LET op == req[w].op
    IN  /\ pc[w] = "permit"
        /\ \/ op.act \in {"read", "write"}
           \/ Checked(op) /\ heap[ptr[w]] # Freed /\ Allowed(op, heap[ptr[w]].perm)
        /\ Advance(w, "permit", op.act)

Permit(w) ==
    LET op == req[w].op
    IN  /\ pc[w] = "permit"
        /\ \/ op.act = "read"
           \/ Checked(op) /\ heap[ptr[w]] # Freed /\ Allowed(op, heap[ptr[w]].perm)
        /\ Advance(w, "permit", op.act)

Refuse(w) ==
    LET op == req[w].op
    IN  /\ pc[w] = "permit"
        /\ Checked(op) /\ heap[ptr[w]] # Freed /\ ~Allowed(op, heap[ptr[w]].perm)
        /\ Answer(w, "permit", "OP_PERMISSION_ERROR")
        /\ UNCHANGED <<table, heap>>

\* Local operations are the client's own: it only wanted to authenticate.
Dismiss(w) ==
    /\ \/ req[w].op.act = "local" /\ Answer(w, "permit", "OP_SUCCESS")
       \/ req[w].op.act = "unknown" /\ Answer(w, "permit", "OP_FAILURE")
    /\ UNCHANGED <<table, heap>>

\* do_put_file and the others, whatever comes of them.
FileOperation(w) ==
    /\ \E act \in {"read", "write"}, c \in {"OP_SUCCESS", "OP_FAILURE"} :
         Answer(w, act, c)
    /\ UNCHANGED <<table, heap>>
-----------------------------------------------------------------------------
(***************************************************************************)
(* db_create_user and db_remove_user.                                      *)
(***************************************************************************)

\* db_create_user returns before it adds anything; the password may be missing.
RejectNewUser(w) ==
    LET n == req[w].op.name
    IN  /\ pc[w] = "create"
        /\ \/ Answer(w, "create", "OP_FAILURE")
           \/ n \in BadLength /\ Answer(w, "create", "OP_CRED_RULE_ERROR")
           \/ n \in DOMAIN table \ BadLength /\ Answer(w, "create", "OP_USER_EXISTS")
        /\ UNCHANGED <<table, heap>>

CheckNewUser(w) ==
    /\ pc[w] = "create"
    /\ req[w].op.name \notin DOMAIN table \cup BadLength
    /\ Advance(w, "create", "set")

\* htable_set: an account of that name that came in meanwhile is replaced, and
\* stays where it is.
SetUser(w) ==
    LET op == req[w].op
    IN  /\ pc[w] = "set"
        /\ \E i \in Ids :
             /\ heap[i] = Unused
             /\ heap' = [heap EXCEPT ![i] = op.account]
             /\ table' = [n \in DOMAIN table \cup {op.name} |->
                            IF n = op.name THEN i ELSE table[n]]
        /\ Answer(w, "set", "OP_SUCCESS")

RejectRemoval(w) ==
    /\ pc[w] = "delete" /\ req[w].op.name \notin DOMAIN table
    /\ Answer(w, "delete", "OP_USER_NO_EXIST")
    /\ UNCHANGED <<table, heap>>

\* The requests that have the account i in hand lose it.
LosePointers(i) ==
    lost' = [v \in Workers |-> IF ptr[v] = i THEN heap[i].perm ELSE lost[v]]

\* Mutant: whether the user exists is not looked at.
RemoveUserUnlooked(w) ==
    LET n == req[w].op.name
    IN  /\ Goto(w, "delete", "destroy") /\ Silent
        /\ table' = [m \in DOMAIN table \ {n} |-> table[m]]
        /\ victim' = [victim EXCEPT ![w] = IF n \in DOMAIN table THEN table[n] ELSE NoId]
        /\ IF n \in DOMAIN table THEN LosePointers(table[n]) ELSE UNCHANGED lost
        /\ UNCHANGED <<heap, req, ptr, right>>

\* Mutant: the account is freed while the table still has it.
RemoveUserFreedFirst(w) ==
    LET n == req[w].op.name
    IN  /\ Goto(w, "delete", "free") /\ Silent
        /\ n \in DOMAIN table
        /\ victim' = [victim EXCEPT ![w] = table[n]]
        /\ heap' = [heap EXCEPT ![table[n]] = Freed]
        /\ UNCHANGED <<table, req, ptr, right, lost>>

\* htable_del: requests under way keep the pointer they have.
RemoveUser(w) ==
    LET n == req[w].op.name
    IN  /\ Goto(w, "delete", "destroy") /\ Silent
        /\ n \in DOMAIN table
        /\ table' = [m \in DOMAIN table \ {n} |-> table[m]]
        /\ victim' = [victim EXCEPT ![w] = table[n]]
        /\ LosePointers(table[n])
        /\ UNCHANGED <<heap, req, ptr, right>>

\* hash_destroy frees the bytes of the hash, empties the hash, frees it, and
\* clears the pointer to it ...
DestroyHash(w) ==
    /\ Goto(w, "destroy", "wipe") /\ Silent
    /\ heap' = [heap EXCEPT ![victim[w]].pass = Broken]
    /\ UNCHANGED <<table, req, ptr, victim, right, lost>>

\* ... the account is emptied, permission and all ...
WipeUser(w) ==
    /\ Goto(w, "wipe", "free") /\ Silent
    /\ heap' = [heap EXCEPT ![victim[w]] = Wiped]
    /\ UNCHANGED <<table, req, ptr, victim, right, lost>>

\* ... and freed, and the files are rewritten.
FreeUser(w) ==
    /\ pc[w] = "free"
    /\ heap' = [heap EXCEPT ![victim[w]] = Freed]
    /\ Answer(w, "free", "OP_SUCCESS")
    /\ UNCHANGED table

\* The next step of a worker may read what another one freed.
Dangles(w) ==
    \/ heap[ptr[w]] = Freed /\ (pc[w] = "match" \/ (pc[w] = "permit" /\ Checked(req[w].op)))
    \/ heap[ptr[w]] \in Dying /\ pc[w] = "match"

Abort(w) ==
    /\ up /\ ptr[w] # NoId /\ Dangles(w)
    /\ up' = FALSE /\ Silent
    /\ UNCHANGED <<table, heap, pc, req, ptr, victim, right, lost>>
-----------------------------------------------------------------------------
Work(w) ==
    \/ FindNobody(w) \/ (\E r \in Requests : FindUser(w, r))
    \/ Match(w) \/ Mismatch(w) \/ HasSession(w) \/ NoSession(w)
    \/ Permit(w) \/ Refuse(w) \/ Dismiss(w) \/ FileOperation(w)
    \/ RejectNewUser(w) \/ CheckNewUser(w) \/ SetUser(w)
    \/ RejectRemoval(w)
    \/ RemoveUser(w) \/ DestroyHash(w) \/ WipeUser(w) \/ FreeUser(w)
    \/ Abort(w)

Next == \E w \in Workers : Work(w)

Spec == Init /\ [][Next]_vars
-----------------------------------------------------------------------------
(***************************************************************************)
(* Properties.                                                             *)
(***************************************************************************)

\* Every variable keeps its type, a worker has an account in hand exactly while
\* it is in a request, and one it removes exactly until it has freed it.
TypeOK ==
    /\ up \in BOOLEAN
    /\ DOMAIN table \subseteq Names /\ table \in [DOMAIN table -> Ids]
    /\ heap \in [Ids -> Accounts \cup Remains \cup {Unused, Freed}]
    /\ pc \in [Workers -> PCs]
    /\ req \in [Workers -> Requests]
    /\ ptr \in [Workers -> Ids \cup {NoId}]
    /\ victim \in [Workers -> Ids \cup {NoId}]
    /\ said \in Codes
    /\ right \in [Workers -> Perms \cup {NoRight}]
    /\ lost \in [Workers -> Perms \cup {NoRight}]
    /\ \A w \in Workers : /\ ptr[w] = NoId <=> pc[w] = "idle"
                          /\ victim[w] # NoId <=> pc[w] \in Removing

\* db_remove_user frees an account under nobody but the requests that found it
\* before it was removed: a request that begins later cannot reach it, whatever
\* other workers create, replace and remove meanwhile.
FreedOnlyUnderOlder ==
    \A w \in Workers : (pc[w] # "idle" /\ Dangles(w)) => lost[w] # NoRight

\* Somebody has, or is about to be given, the permission p or a higher one: an
\* account in the table, one a request acts with, or one that is being created.
Reached(p) ==
    \/ \E n \in DOMAIN table : heap[table[n]].perm >= p
    \/ \E w \in Workers : right[w] # NoRight /\ right[w] >= p
    \/ \E w \in Workers : pc[w] \in {"create", "set"} /\ req[w].op.account.perm >= p

\* ctrl_parse_action: "the permission requested to be used for the new user is
\* equal or less than the permission of the user performing the action".  No
\* sequence of creations and removals, by any users together, reaches a
\* permission again that nobody has any more: once the admins are gone there
\* is never another one.
CeilingsHold == [][\A p \in Perms : Reached(p)' => Reached(p)]_vars

-----------------------------------------------------------------------------
(***************************************************************************)
(* The requests implement the policy: the pointer acts as a copy of the    *)
(* account taken when the user was looked up, until the account leaves the *)
(* table.                                                                  *)
(***************************************************************************)
Deed(w) == CASE pc[w] \in {"create", "set"}  -> "create"
             [] pc[w] = "delete"             -> "delete"
             [] pc[w] \in Removing           -> "dropped"
             [] pc[w] \in {"read", "write"}  -> pc[w]
             [] OTHER                        -> "nothing"

Policy == INSTANCE AccessPolicy WITH
    users <- [n \in DOMAIN table |-> heap[table[n]]],
    asks  <- [w \in Workers |-> req[w].op],
    via   <- [w \in Workers |-> req[w].user],
    left  <- lost,
    does  <- [w \in Workers |-> Deed(w)]

\* ctrl_parse_action and user_action do for a request what its account permitted
\* when the request was authenticated, and only that; what it is answered is
\* true.  Of a request whose account another worker removes meanwhile it says
\* less: it may be refused, as if the password or the permission were not right,
\* or let in without the password, and then has the account's permission.
ImplementsPolicy == Policy!Spec
=============================================================================
