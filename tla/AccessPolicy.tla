---------------------------- MODULE AccessPolicy ----------------------------
(***************************************************************************)
(* What authentication and the permission levels of the server promise: a  *)
(* request does what it asked for and nothing else, with the permission of *)
(* the account it named, as that account was at one moment of the request; *)
(* a new account has at most that permission.  To a request whose account  *)
(* is removed before it is at work, it promises no more than that it does  *)
(* what it asked for, with the permission that account had.                *)
(***************************************************************************)
EXTENDS Naturals

CONSTANTS Workers, Names, NoName, Passwords, Accounts, Operations, Codes, NoRight

READ_WRITE == 2
ADMIN      == 3

VARIABLES
    users,      \* the accounts, by name
    asks,       \* what the request of each worker is to do
    via,        \* the name of the account it was looked up with
    right,      \* the permission it acts with
    left,       \* the permission that account had when it was removed, if it was
    does,       \* what it is doing to the server
    said        \* what the last step answered, if it answered

vars == <<users, asks, via, right, left, does, said>>

\* The operation is permitted to an account of permission p.
Permits(op, p) ==
    \/ op.act = "read"
    \/ op.act = "write" /\ p >= READ_WRITE
    \/ op.act = "create" /\ p >= op.account.perm
    \/ op.act = "delete" /\ p = ADMIN

Init ==
    /\ DOMAIN users \subseteq Names /\ users \in [DOMAIN users -> Accounts]
    /\ asks \in [Workers -> Operations]
    /\ via = [w \in Workers |-> NoName]
    /\ right = [w \in Workers |-> NoRight]
    /\ left = [w \in Workers |-> NoRight]
    /\ does = [w \in Workers |-> "nothing"]
    /\ said = "NONE"

\* Only the request of w changes.
Asks(w, op) == asks' = [asks EXCEPT ![w] = op]

\* A request is given the permission of the account it names, if the password
\* it sends is that account's.
Ask(w, n, p) ==
    /\ via[w] = NoName /\ n \in DOMAIN users
    /\ \E op \in {asks'[w]} \cap Operations : Asks(w, op)
    /\ via' = [via EXCEPT ![w] = n]
    /\ right' = [right EXCEPT ![w] = IF users[n].pass = p THEN users[n].perm ELSE NoRight]
    /\ said' = "NONE"
    /\ UNCHANGED <<users, left, does>>

\* The account is removed before the password is looked at: it may pass.
Slip(w) ==
    /\ left[w] # NoRight /\ does[w] = "nothing"
    /\ right' = [right EXCEPT ![w] = left[w]]
    /\ said' = "NONE"
    /\ UNCHANGED <<users, asks, via, left, does>>

Begin(w) ==
    /\ right[w] # NoRight /\ does[w] = "nothing"
    /\ Permits(asks[w], right[w])
    /\ does' = [does EXCEPT ![w] = asks[w].act]
    /\ said' = "NONE"
    /\ UNCHANGED <<users, asks, via, right, left>>

\* A request may be answered c.
Truthful(w, c) ==
    LET op == asks[w]
    IN  \/ c = "OP_USER_AUTH" /\ right[w] = NoRight
        \/ /\ left[w] # NoRight /\ does[w] = "nothing"
           /\ c \in {"OP_USER_AUTH", "OP_PERMISSION_ERROR"}
        \/ /\ right[w] # NoRight /\ does[w] = "nothing"
           /\ \/ c = "OP_SESSION_ERROR"
              \/ c = "OP_PERMISSION_ERROR" /\ ~Permits(op, right[w])
              \/ c = "OP_SUCCESS" /\ op.act = "local"
              \/ c = "OP_FAILURE" /\ op.act = "unknown"
        \/ does[w] \in {"read", "write"} /\ c \in {"OP_SUCCESS", "OP_FAILURE"}
        \/ /\ does[w] = "create"
           /\ \/ c \in {"OP_CRED_RULE_ERROR", "OP_FAILURE"}
              \/ c = "OP_USER_EXISTS" /\ op.name \in DOMAIN users
        \/ does[w] = "delete" /\ c = "OP_USER_NO_EXIST" /\ op.name \notin DOMAIN users
        \/ does[w] = "dropped" /\ c = "OP_SUCCESS"

End(w, c) ==
    /\ \E op \in {asks'[w]} \cap Operations : Asks(w, op)
    /\ via' = [via EXCEPT ![w] = NoName]
    /\ right' = [right EXCEPT ![w] = NoRight]
    /\ left' = [left EXCEPT ![w] = NoRight]
    /\ does' = [does EXCEPT ![w] = "nothing"]
    /\ said' = c

Add(w) ==
    /\ does[w] = "create"
    /\ LET op == asks[w]
       IN  users' = [n \in DOMAIN users \cup {op.name} |->
                       IF n = op.name THEN op.account ELSE users[n]]
    /\ End(w, "OP_SUCCESS")

\* The requests that have the account in hand are left with its permission; one
\* that was looked up under the name may have another account, replaced since.
Drop(w) ==
    LET n == asks[w].name
    IN  /\ does[w] = "delete" /\ n \in DOMAIN users
        /\ users' = [m \in DOMAIN users \ {n} |-> users[m]]
        /\ \E S \in SUBSET {v \in Workers : via[v] = n} :
             left' = [v \in Workers |-> IF v \in S THEN users[n].perm ELSE left[v]]
        /\ does' = [does EXCEPT ![w] = "dropped"]
        /\ said' = "NONE"
        /\ UNCHANGED <<asks, via, right>>

Proceed == said' = "NONE" /\ UNCHANGED <<users, asks, via, right, left, does>>

Next ==
    \/ Proceed
    \/ \E w \in Workers :
         \/ \E n \in Names, p \in Passwords : Ask(w, n, p)
         \/ Slip(w) \/ Begin(w) \/ Add(w) \/ Drop(w)
         \/ \E c \in Codes : Truthful(w, c) /\ End(w, c) /\ UNCHANGED users

Spec == Init /\ [][Next]_vars
=============================================================================
