---------------------------- MODULE Access_proofs ----------------------------
(***************************************************************************)
(* Authentication and permissions for any number of workers, names,        *)
(* permissions and addresses: an account is only taken apart under a       *)
(* request that found it before it was removed, so every other request     *)
(* acts with the permission its account had when it was looked up.         *)
(***************************************************************************)
EXTENDS Access, TLAPS

\* users_htable holds accounts, each under one name.
TableHolds ==
    /\ \A n \in DOMAIN table : heap[table[n]] \in Accounts
    /\ \A m, n \in DOMAIN table : table[m] = table[n] => m = n

\* What a db_remove_user takes apart is an account the table has lost, and its
\* own.
VictimsApart ==
    \A w \in Workers : pc[w] \in Removing =>
        /\ \A n \in DOMAIN table : table[n] # victim[w]
        /\ \A v \in Workers \ {w} : pc[v] \in Removing => victim[v] # victim[w]
        /\ pc[w] = "destroy" => heap[victim[w]] \in Accounts
        /\ pc[w] = "wipe" => heap[victim[w]] \in Dying
        /\ pc[w] = "free" => heap[victim[w]] = Wiped

\* p_user is the account of the request's user, and one nobody takes apart unless
\* it was removed.
PointersHeld ==
    \A w \in Workers :
        /\ pc[w] = "idle" => lost[w] = NoRight /\ req[w].user = NoName
        /\ pc[w] # "idle" =>
             /\ heap[ptr[w]] # Unused
             /\ lost[w] = NoRight =>
                  /\ heap[ptr[w]] \in Accounts
                  /\ \A v \in Workers : pc[v] \in Removing => victim[v] # ptr[w]
             /\ (lost[w] # NoRight /\ heap[ptr[w]] \in Accounts \cup Dying) =>
                  lost[w] = heap[ptr[w]].perm
             /\ \A n \in DOMAIN table : table[n] = ptr[w] => req[w].user = n

\* A request has the right of the account it points to, once it was let in.
RightsMatch ==
    \A w \in Workers :
        /\ pc[w] = "idle" => right[w] = NoRight
        /\ (pc[w] = "match" /\ heap[ptr[w]] \in Accounts) =>
             right[w] = IF heap[ptr[w]].pass = req[w].pass
                          THEN heap[ptr[w]].perm ELSE NoRight
        /\ pc[w] \notin {"idle", "match"} =>
             /\ right[w] # NoRight
             /\ heap[ptr[w]] \in Accounts \cup Dying => right[w] = heap[ptr[w]].perm

\* Nobody is above an admin.
Capped == \A i \in Ids : heap[i] \in Accounts \cup Dying => heap[i].perm <= ADMIN

\* An account without its hash is one that a worker is taking apart.
DyingHeld ==
    \A i \in Ids : heap[i] \in Dying => \E w \in Workers : pc[w] = "wipe" /\ victim[w] = i

\* A new account is not above the one that creates it, and accounts are removed,
\* and taken apart, by admins.
Entitled ==
    \A w \in Workers :
        /\ right[w] # NoRight => right[w] <= ADMIN
        /\ pc[w] \in {"create", "set"} => req[w].op.account.perm <= right[w]
        /\ pc[w] \in {"delete"} \cup Removing => right[w] = ADMIN

Ranks == Capped /\ DyingHeld /\ Entitled

\* A worker is inside the operation its request asked for.
AtWork ==
    \A w \in Workers :
        /\ pc[w] \in {"create", "set"} => req[w].op.act = "create"
        /\ pc[w] \in {"delete"} \cup Removing => req[w].op.act = "delete"
        /\ pc[w] = "read" => req[w].op.act = "read"
        /\ pc[w] = "write" => req[w].op.act = "write"

Inner == TableHolds /\ VictimsApart /\ PointersHeld /\ RightsMatch /\ Ranks /\ AtWork

IInv == TypeOK /\ Inner

\* The request of an idle worker is one of the requests.
LEMMA NoRequestType ==
    NoRequest \in Requests /\ NoRequest.op = [act |-> "local"] /\ NoRequest.user = NoName
  BY AccessAssumption DEF NoRequest, Requests, Operations

\* Only the operations on users name one, and only creations bring an account.
LEMMA OperationTypes ==
    /\ \A r \in Requests : /\ r.user \in Names \cup {NoName} /\ r.pass \in Passwords
                           /\ r.op \in Operations
                           /\ r = [user |-> r.user, pass |-> r.pass, op |-> r.op]
    /\ \A op \in Operations :
         /\ op.act \in {"create", "delete", "write", "read", "local", "unknown"}
         /\ op.act \in {"create", "delete"} => op.name \in Names
         /\ op.act = "create" => op.account \in Accounts /\ op.account.perm \in WirePerms
  BY AccessAssumption DEF Requests, Operations, Accounts, Perms

\* What can be at an address, and what of it can be told from what.
LEMMA Kinds ==
    /\ \A a \in Accounts : /\ a.pass \in Passwords /\ a.perm \in Perms
                           /\ a \notin Dying /\ a # Wiped /\ a # Freed /\ a # Unused
    /\ \A a \in Dying : /\ a.pass = Broken /\ a.perm \in Perms
                        /\ a # Wiped /\ a # Freed /\ a # Unused
    /\ Wiped.pass = NoHash /\ Wiped.perm = 0 /\ Wiped # Freed /\ Wiped # Unused
    /\ Freed # Unused /\ Broken \notin Passwords /\ NoHash \notin Passwords
    /\ NoHash # Broken /\ NoRight \notin Perms /\ Perms \subseteq Nat /\ ADMIN \in Perms
    /\ ADMIN = 3 /\ NoId \notin Ids
<1>1. \A a \in Accounts : a.pass \in Passwords /\ a.perm \in Perms
  BY DEF Accounts
<1>2. \A a \in Dying : a.pass = Broken /\ a.perm \in Perms
  BY DEF Dying
<1>3. Wiped.pass = NoHash /\ Wiped.perm = 0
  BY DEF Wiped
<1>4. Unused \notin Accounts \cup Dying /\ Unused # Wiped /\ Freed # Unused
      /\ Freed \notin Accounts \cup Dying /\ Freed # Wiped
  BY AccessAssumption DEF Remains
<1>5. Broken \notin Passwords /\ NoHash \notin Passwords /\ NoHash # Broken
      /\ NoRight \notin Perms /\ NoId \notin Ids
  BY AccessAssumption
<1>6. Perms \subseteq Nat /\ ADMIN \in Perms /\ ADMIN = 3
  BY AccessAssumption DEF Perms, ADMIN
<1> HIDE DEF Wiped
<1> QED
  BY <1>1, <1>2, <1>3, <1>4, <1>5, <1>6

\* An account taken apart in hand was removed after its look-up.
LEMMA IInvOlder == IInv => FreedOnlyUnderOlder
  BY Kinds DEF IInv, Inner, PointersHeld, FreedOnlyUnderOlder, Dangles

\* At first there is the default account, and no request.
LEMMA IInvInit == Init => IInv
<1> SUFFICES ASSUME Init PROVE IInv
  OBVIOUS
<1> PICK i \in Ids :
      /\ table = [n \in {DefaultUser} |-> i]
      /\ heap = [j \in Ids |-> IF j = i THEN [pass |-> DefaultPassword, perm |-> ADMIN]
                                        ELSE Unused]
  BY DEF Init
<1>1. heap[i] \in Accounts /\ heap[i].perm = 3 /\ ADMIN = 3
  BY AccessAssumption DEF Accounts, Perms, ADMIN
<1>2. TypeOK
  BY <1>1, NoRequestType, AccessAssumption DEF Init, TypeOK, PCs, Codes, Removing
<1>3. TableHolds /\ VictimsApart /\ PointersHeld /\ RightsMatch /\ AtWork
  BY <1>1, NoRequestType
     DEF Init, TableHolds, VictimsApart, PointersHeld, RightsMatch, AtWork, Removing
<1>4. Ranks
  <2>1. \A j \in Ids : heap[j] \in Accounts \cup Dying => j = i
    BY Kinds
  <2> QED
    BY <1>1, <2>1, Kinds DEF Init, Ranks, Capped, DyingHeld, Entitled, Removing
<1> QED
  BY <1>2, <1>3, <1>4 DEF IInv, Inner

\* The worker that is about to empty an account stays there.
LEMMA DyingKept ==
    ASSUME IInv,
           \A i \in Ids : heap'[i] \in Dying => heap[i] \in Dying,
           \A v \in Workers : pc[v] = "wipe" => pc'[v] = "wipe" /\ victim'[v] = victim[v]
    PROVE  DyingHeld'
<1> SUFFICES ASSUME NEW i \in Ids, heap'[i] \in Dying
             PROVE  \E v \in Workers : pc'[v] = "wipe" /\ victim'[v] = i
  BY DEF DyingHeld
<1>1. PICK v \in Workers : pc[v] = "wipe" /\ victim[v] = i
  BY DEF IInv, Inner, Ranks, DyingHeld
<1> QED
  BY <1>1
-----------------------------------------------------------------------------
\* A request that ends leaves the table and the accounts to the others.
LEMMA AnswerStep ==
    ASSUME NEW w \in Workers, NEW from \in PCs \ Removing, NEW c \in Codes,
           IInv, Answer(w, from, c), UNCHANGED <<table, heap>>
    PROVE  IInv'
<1>1. TypeOK'
  BY NoRequestType DEF IInv, TypeOK, Answer, Goto, PCs, Removing
<1>2. TableHolds' /\ VictimsApart' /\ PointersHeld' /\ RightsMatch' /\ AtWork'
  BY NoRequestType
     DEF IInv, TypeOK, Answer, Goto, Inner, TableHolds, VictimsApart, PointersHeld,
         RightsMatch, AtWork, Removing
<1>3. Ranks'
  <2>1. \A v \in Workers :
          \/ pc'[v] = "idle" /\ right'[v] = NoRight
          \/ pc'[v] = pc[v] /\ req'[v] = req[v] /\ right'[v] = right[v]
    BY DEF IInv, TypeOK, Answer, Goto
  <2>2. DyingHeld'
    <3>1. \A v \in Workers : pc[v] = "wipe" => pc'[v] = "wipe" /\ victim'[v] = victim[v]
      BY DEF IInv, TypeOK, Answer, Goto, Removing
    <3>2. heap' = heap
      OBVIOUS
    <3> QED
      BY <3>1, <3>2, DyingKept
  <2> QED
    BY <2>1, <2>2 DEF IInv, Inner, Ranks, Capped, Entitled, Removing
<1> QED
  BY <1>1, <1>2, <1>3 DEF IInv, Inner

\* So does one that goes on to the operation it asked for, if it may.
LEMMA AdvanceStep ==
    ASSUME NEW w \in Workers, NEW from \in PCs \ ({"idle", "match"} \cup Removing),
           NEW to \in PCs \ ({"idle", "match"} \cup Removing),
           IInv, Advance(w, from, to),
           to \in {"create", "delete", "read", "write"} => req[w].op.act = to,
           to = "set" => from = "create",
           to = "create" => req[w].op.account.perm <= right[w],
           to = "delete" => right[w] = ADMIN
    PROVE  IInv'
<1>1. TypeOK'
  BY DEF IInv, TypeOK, Advance, Goto, Silent, PCs, Codes, Removing
<1>2. TableHolds' /\ VictimsApart' /\ PointersHeld' /\ RightsMatch' /\ AtWork'
  BY DEF IInv, TypeOK, Advance, Goto, Inner, TableHolds, VictimsApart, PointersHeld,
         RightsMatch, AtWork, PCs, Removing
<1>3. DyingHeld'
  BY DyingKept DEF IInv, TypeOK, Advance, Goto, Removing
<1>4. Capped' /\ Entitled'
  BY DEF IInv, TypeOK, Advance, Goto, Inner, Ranks, Capped, Entitled, Removing
<1> QED
  BY <1>1, <1>2, <1>3, <1>4 DEF IInv, Inner, Ranks

\* The account a request finds is in the table, so nobody is about to free it.
LEMMA FindStep ==
    ASSUME NEW w \in Workers, NEW r \in Requests, IInv, FindUser(w, r) PROVE IInv'
<1> DEFINE i == table[r.user]
<1>1. i \in Ids /\ heap[i] \in Accounts
  BY DEF IInv, TypeOK, Inner, TableHolds, FindUser
<1>2. heap[i].perm \in Perms /\ heap[i].perm <= ADMIN /\ heap[i] # Unused /\ i # NoId
  BY <1>1, Kinds DEF IInv, Inner, Ranks, Capped
<1>3. pc[w] = "idle" /\ lost[w] = NoRight
  BY DEF IInv, Inner, PointersHeld, FindUser, Goto
<1>4. /\ pc' = [pc EXCEPT ![w] = "match"] /\ ptr' = [ptr EXCEPT ![w] = i]
      /\ right' = [right EXCEPT ![w] = IF heap[i].pass = r.pass THEN heap[i].perm ELSE NoRight]
      /\ req' = [req EXCEPT ![w] = r] /\ r.user \in DOMAIN table
      /\ UNCHANGED <<table, heap, victim, lost>> /\ up' = up /\ said' = "NONE"
  BY DEF FindUser, Goto, Silent
<1> HIDE DEF i
<1>5. TypeOK'
  BY <1>1, <1>2, <1>3, <1>4 DEF IInv, TypeOK, PCs, Codes, Removing
<1>6. TableHolds' /\ VictimsApart' /\ RightsMatch' /\ AtWork'
  BY <1>1, <1>3, <1>4
     DEF IInv, TypeOK, Inner, TableHolds, VictimsApart, RightsMatch, AtWork, Removing
<1>7. PointersHeld'
  <2>1. \A n \in DOMAIN table : table[n] = i => r.user = n
    BY <1>4 DEF i, IInv, Inner, TableHolds
  <2>2. \A v \in Workers : pc[v] \in Removing => victim[v] # i
    BY <1>4 DEF i, IInv, Inner, VictimsApart
  <2> QED
    BY <1>1, <1>2, <1>3, <1>4, <2>1, <2>2 DEF IInv, TypeOK, Inner, PointersHeld, Removing
<1>8. Ranks'
  <2>1. \A v \in Workers :
          /\ right'[v] # NoRight => right'[v] <= ADMIN
          /\ v # w => (pc'[v] = pc[v] /\ req'[v] = req[v] /\ right'[v] = right[v])
    BY <1>2, <1>3, <1>4 DEF IInv, TypeOK, Inner, Ranks, Entitled
  <2>3. DyingHeld'
    <3>1. \A v \in Workers : pc[v] = "wipe" => pc'[v] = "wipe" /\ victim'[v] = victim[v]
      BY <1>3, <1>4 DEF IInv, TypeOK
    <3> QED
      BY <1>4, <3>1, DyingKept
  <2>2. pc'[w] = "match"
    BY <1>4 DEF IInv, TypeOK
  <2> QED
    BY <1>4, <2>1, <2>2, <2>3 DEF IInv, Inner, Ranks, Capped, Entitled, Removing
<1> QED
  BY <1>5, <1>6, <1>7, <1>8 DEF IInv, Inner

\* A password that passes gives the right of the account.
LEMMA MatchStep == ASSUME NEW w \in Workers, IInv, Match(w) PROVE IInv'
<1>1. /\ pc[w] = "match" /\ pc' = [pc EXCEPT ![w] = "session"]
      /\ req' = [req EXCEPT ![w].pass = DefaultPassword]
      /\ right' = [right EXCEPT ![w] = heap[ptr[w]].perm]
      /\ heap[ptr[w]] # Freed /\ heap[ptr[w]].pass \in {req[w].pass, Broken}
      /\ UNCHANGED <<table, heap, ptr, victim, lost>> /\ up' = up /\ said' = "NONE"
  BY DEF Match, Goto, Silent
<1>2. ptr[w] \in Ids /\ req[w].pass \in Passwords
  BY <1>1, OperationTypes DEF IInv, TypeOK
<1>3. heap[ptr[w]] \in Accounts \cup Dying
  BY <1>1, <1>2, Kinds DEF IInv, TypeOK, Inner, PointersHeld, Remains
<1>4. /\ heap[ptr[w]].perm \in Perms /\ heap[ptr[w]].perm # NoRight
      /\ heap[ptr[w]].perm <= ADMIN
  BY <1>2, <1>3, Kinds DEF IInv, Inner, Ranks, Capped
<1>5. /\ req'[w] \in Requests /\ req'[w].op = req[w].op /\ req'[w].user = req[w].user
      /\ \A v \in Workers : req'[v].op = req[v].op /\ req'[v].user = req[v].user
  BY <1>1, OperationTypes, AccessAssumption DEF IInv, TypeOK, Requests
<1>6. TypeOK'
  <2>1. req' \in [Workers -> Requests]
    BY <1>1, <1>5 DEF IInv, TypeOK
  <2> QED
    BY <1>1, <1>4, <2>1 DEF IInv, TypeOK, PCs, Codes, Removing
<1>7. TableHolds' /\ VictimsApart' /\ PointersHeld'
  BY <1>1, <1>5 DEF IInv, TypeOK, Inner, TableHolds, VictimsApart, PointersHeld, Removing
<1>8. RightsMatch' /\ AtWork'
  BY <1>1, <1>4, <1>5 DEF IInv, TypeOK, Inner, RightsMatch, AtWork, Removing
<1>9. Ranks'
  <2>1. DyingHeld'
    BY <1>1, DyingKept DEF IInv, TypeOK
  <2> QED
    BY <1>1, <1>4, <1>5, <2>1 DEF IInv, TypeOK, Inner, Ranks, Capped, Entitled, Removing
<1> QED
  BY <1>6, <1>7, <1>8, <1>9 DEF IInv, Inner

\* A new account takes an address nobody holds.
LEMMA SetStep == ASSUME NEW w \in Workers, IInv, SetUser(w) PROVE IInv'
<1> DEFINE op == req[w].op
<1> PICK i \in Ids :
      /\ heap[i] = Unused
      /\ heap' = [heap EXCEPT ![i] = op.account]
      /\ table' = [n \in DOMAIN table \cup {op.name} |->
                     IF n = op.name THEN i ELSE table[n]]
  BY DEF SetUser
<1>1. op.name \in Names /\ op.account \in Accounts
  BY OperationTypes DEF IInv, TypeOK, Inner, AtWork, SetUser
<1>2. /\ Answer(w, "set", "OP_SUCCESS") /\ pc[w] = "set"
      /\ Unused \notin Accounts \cup Dying /\ Unused # Wiped
      /\ op.account # Unused /\ op.account.perm <= ADMIN
  <2>1. op.account.perm <= right[w] /\ right[w] <= ADMIN /\ right[w] \in Perms
    BY DEF SetUser, IInv, TypeOK, Inner, Ranks, Entitled, RightsMatch
  <2>2. op.account.perm \in Nat /\ right[w] \in Nat /\ ADMIN \in Nat
    BY <1>1, <2>1, Kinds
  <2> QED
    BY <1>1, <2>1, <2>2, Kinds DEF SetUser
<1>3. TypeOK'
  BY <1>1, <1>2, NoRequestType DEF IInv, TypeOK, Answer, Goto, PCs, Codes, Removing
<1>4. TableHolds'
  BY <1>1, <1>2 DEF IInv, TypeOK, Inner, TableHolds
<1>5. \A v \in Workers : v # w =>
         /\ pc'[v] = pc[v] /\ ptr'[v] = ptr[v] /\ req'[v] = req[v] /\ lost'[v] = lost[v]
         /\ victim'[v] = victim[v] /\ right'[v] = right[v]
         /\ pc[v] # "idle" => ptr[v] # i /\ heap'[ptr[v]] = heap[ptr[v]]
         /\ pc[v] \in Removing => victim[v] # i /\ heap'[victim[v]] = heap[victim[v]]
  BY <1>2 DEF IInv, TypeOK, Inner, VictimsApart, PointersHeld, Answer, Goto, Removing
<1>6. /\ pc'[w] = "idle" /\ right'[w] = NoRight /\ lost'[w] = NoRight
      /\ req'[w].user = NoName
  BY <1>2, NoRequestType DEF IInv, TypeOK, Answer, Goto
<1> HIDE DEF op
<1>7. VictimsApart'
  BY <1>5, <1>6 DEF IInv, TypeOK, Inner, VictimsApart, Removing
<1>8. PointersHeld'
  <2>1. ASSUME NEW v \in Workers, v # w, pc[v] # "idle", NEW n \in DOMAIN table', table'[n] = ptr[v]
        PROVE  req[v].user = n
    <3>1. n \in DOMAIN table /\ table[n] = ptr[v]
      BY <1>5, <2>1
    <3> QED
      BY <2>1, <3>1 DEF IInv, Inner, PointersHeld
  <2> QED
    BY <1>5, <1>6, <2>1 DEF IInv, TypeOK, Inner, PointersHeld, Removing
<1>9. RightsMatch' /\ AtWork'
  BY <1>5, <1>6 DEF IInv, TypeOK, Inner, RightsMatch, AtWork, Removing
<1>10. Ranks'
  <2>1. \A j \in Ids : heap'[j] = heap[j] \/ heap'[j] = op.account
    BY DEF IInv, TypeOK
  <2>2. op.account \notin Dying
    BY <1>1, Kinds DEF op
  <2>3. \A v \in Workers : pc[v] = "wipe" => v # w
    BY <1>2
  <2>4. DyingHeld'
    BY <1>5, <2>1, <2>2, <2>3, DyingKept DEF Removing
  <2> QED
    BY <1>2, <1>5, <1>6, <2>1, <2>2, <2>4
       DEF op, IInv, Inner, Ranks, Capped, Entitled, Removing
<1> QED
  BY <1>3, <1>4, <1>7, <1>8, <1>9, <1>10 DEF IInv, Inner

\* Removal leaves the pointers of older requests to an account now apart.
LEMMA RemoveStep == ASSUME NEW w \in Workers, IInv, RemoveUser(w) PROVE IInv'
<1> DEFINE n == req[w].op.name
           i == table[n]
<1>1. n \in DOMAIN table /\ i \in Ids /\ heap[i] \in Accounts
  BY DEF IInv, TypeOK, Inner, TableHolds, RemoveUser
<1>2. /\ pc[w] = "delete" /\ pc' = [pc EXCEPT ![w] = "destroy"]
      /\ table' = [m \in DOMAIN table \ {n} |-> table[m]]
      /\ victim' = [victim EXCEPT ![w] = i]
      /\ lost' = [v \in Workers |-> IF ptr[v] = i THEN heap[i].perm ELSE lost[v]]
      /\ UNCHANGED <<heap, req, ptr, right>> /\ up' = up /\ said' = "NONE"
  BY DEF RemoveUser, LosePointers, Goto, Silent
<1>3. /\ heap[i] # Unused /\ i # NoId /\ heap[i].perm \in Perms /\ heap[i].perm # NoRight
  BY <1>1, Kinds
<1>4. \A m \in DOMAIN table' : m \in DOMAIN table /\ table'[m] = table[m] /\ table[m] # i
  BY <1>1, <1>2 DEF IInv, Inner, TableHolds
<1>5. \A v \in Workers : pc[v] \in Removing => victim[v] # i
  BY <1>1 DEF IInv, Inner, VictimsApart
<1> HIDE DEF n, i
<1>6. TypeOK'
  BY <1>1, <1>2, <1>3, <1>4 DEF IInv, TypeOK, PCs, Codes, Removing
<1>7. TableHolds' /\ VictimsApart'
  BY <1>1, <1>2, <1>4, <1>5 DEF IInv, TypeOK, Inner, TableHolds, VictimsApart, Removing
<1>8. PointersHeld'
  <2>1. \A v \in Workers : pc[v] = "idle" => ptr[v] # i
    BY <1>1, Kinds DEF IInv, TypeOK
  <2> QED
    BY <1>1, <1>2, <1>3, <1>4, <2>1 DEF IInv, TypeOK, Inner, PointersHeld, Removing
<1>9. RightsMatch' /\ AtWork' /\ Capped' /\ Entitled'
  BY <1>2 DEF IInv, TypeOK, Inner, RightsMatch, AtWork, Ranks, Capped, Entitled, Removing
<1>10. DyingHeld'
  BY <1>2, DyingKept DEF IInv, TypeOK
<1> QED
  BY <1>6, <1>7, <1>8, <1>9, <1>10 DEF IInv, Inner, Ranks

\* What is taken apart is in no table, and in the hand of none but older requests.
LEMMA VictimFacts ==
    ASSUME NEW w \in Workers, IInv, pc[w] \in Removing
    PROVE  /\ victim[w] \in Ids
           /\ \A n \in DOMAIN table : table[n] # victim[w]
           /\ \A v \in Workers \ {w} : pc[v] \in Removing => victim[v] # victim[w]
           /\ \A v \in Workers : (pc[v] # "idle" /\ ptr[v] = victim[w]) => lost[v] # NoRight
  BY DEF IInv, TypeOK, Inner, VictimsApart, PointersHeld

\* The hash goes first.
LEMMA DestroyStep == ASSUME NEW w \in Workers, IInv, DestroyHash(w) PROVE IInv'
<1> DEFINE i == victim[w]
           a == [heap[i] EXCEPT !.pass = Broken]
<1>1. /\ pc[w] = "destroy" /\ pc' = [pc EXCEPT ![w] = "wipe"]
      /\ heap' = [heap EXCEPT ![i] = a]
      /\ UNCHANGED <<table, req, ptr, victim, right, lost>> /\ up' = up /\ said' = "NONE"
  BY DEF DestroyHash, Goto, Silent
<1>2. heap[i] \in Accounts
  BY <1>1 DEF IInv, Inner, VictimsApart, Removing
<1>3. a \in Dying /\ a.perm = heap[i].perm
  BY <1>2 DEF Accounts, Dying
<1>4. a \notin Accounts /\ a # Unused
  BY <1>3, Kinds
<1>5. /\ i \in Ids /\ \A n \in DOMAIN table : table[n] # i
      /\ \A v \in Workers \ {w} : pc[v] \in Removing => victim[v] # i
      /\ \A v \in Workers : (pc[v] # "idle" /\ ptr[v] = i) => lost[v] # NoRight
  BY <1>1, VictimFacts DEF Removing
<1> HIDE DEF i, a
<1>6. TypeOK'
  BY <1>1, <1>3, <1>5 DEF IInv, TypeOK, PCs, Codes, Removing, Remains
<1>7. heap'[i] = a /\ \A j \in Ids \ {i} : heap'[j] = heap[j]
  BY <1>1, <1>5 DEF IInv, TypeOK
<1>8. \A v \in Workers : /\ v # w => pc'[v] = pc[v]
                         /\ pc[v] # "idle" => ptr[v] \in Ids
                         /\ pc[v] \in Removing => victim[v] \in Ids
                         /\ (pc'[v] \in Removing) <=> (pc[v] \in Removing)
                         /\ (pc'[v] = "idle") <=> (pc[v] = "idle")
  BY <1>1 DEF IInv, TypeOK, Removing
<1>9. pc'[w] = "wipe"
  BY <1>1 DEF IInv, TypeOK
<1>10. TableHolds' /\ VictimsApart'
  <2>1. TableHolds'
    <3>1. \A n \in DOMAIN table : table[n] \in Ids /\ heap'[table[n]] = heap[table[n]]
      BY <1>5, <1>7 DEF IInv, TypeOK
    <3>2. table' = table
      BY <1>1
    <3> QED
      BY <3>1, <3>2 DEF IInv, Inner, TableHolds
  <2>2. /\ table' = table /\ victim' = victim
        /\ \A v \in Workers \ {w} :
             pc'[v] = pc[v] /\ (pc[v] \in Removing => heap'[victim[v]] = heap[victim[v]])
    BY <1>1, <1>5, <1>7, <1>8
  <2>3. victim[w] = i
    BY DEF i
  <2>4. ASSUME NEW v \in Workers, pc'[v] \in Removing
        PROVE  /\ \A n \in DOMAIN table : table[n] # victim[v]
               /\ \A u \in Workers \ {v} : pc'[u] \in Removing => victim[u] # victim[v]
    <3>1. pc[v] \in Removing /\ \A u \in Workers : pc'[u] \in Removing => pc[u] \in Removing
      BY <1>8, <2>4
    <3> QED
      BY <3>1 DEF IInv, Inner, VictimsApart
  <2>5. ASSUME NEW v \in Workers \ {w}, pc[v] \in Removing
        PROVE  /\ pc[v] = "destroy" => heap'[victim[v]] \in Accounts
               /\ pc[v] = "wipe" => heap'[victim[v]] \in Dying
               /\ pc[v] = "free" => heap'[victim[v]] = Wiped
    BY <2>2, <2>5 DEF IInv, Inner, VictimsApart
  <2>6. pc'[w] = "wipe" /\ heap'[victim[w]] \in Dying
    BY <1>3, <1>7, <1>9, <2>3
  <2>7. ASSUME NEW v \in Workers, pc'[v] \in Removing
        PROVE  /\ pc'[v] = "destroy" => heap'[victim[v]] \in Accounts
               /\ pc'[v] = "wipe" => heap'[victim[v]] \in Dying
               /\ pc'[v] = "free" => heap'[victim[v]] = Wiped
    <3>1. CASE v = w
      BY <2>6, <3>1
    <3>2. CASE v # w
      BY <1>8, <2>2, <2>5, <2>7, <3>2
    <3> QED
      BY <3>1, <3>2
  <2>8. VictimsApart'
    BY <2>2, <2>4, <2>7 DEF VictimsApart
  <2> QED
    BY <2>1, <2>8
<1>11. PointersHeld'
  BY <1>1, <1>2, <1>3, <1>4, <1>5, <1>7, <1>8 DEF IInv, Inner, PointersHeld
<1>12. RightsMatch'
  <2>1. ASSUME NEW v \in Workers, pc'[v] # "idle"
        PROVE  /\ pc[v] # "idle" /\ (pc'[v] = "match") <=> (pc[v] = "match")
               /\ \/ heap'[ptr[v]] = heap[ptr[v]]
                  \/ /\ heap'[ptr[v]] \notin Accounts /\ heap[ptr[v]] \in Accounts
                     /\ heap'[ptr[v]].perm = heap[ptr[v]].perm
    BY <1>1, <1>2, <1>3, <1>4, <1>7, <1>8, <1>9, <2>1
  <2> QED
    BY <1>1, <1>8, <2>1 DEF IInv, Inner, RightsMatch
<1>13. AtWork' /\ Entitled'
  BY <1>1, <1>8, <1>9 DEF IInv, Inner, AtWork, Ranks, Entitled, Removing
<1>14. Capped'
  BY <1>2, <1>3, <1>7 DEF IInv, Inner, Ranks, Capped
<1>15. DyingHeld'
  <2> SUFFICES ASSUME NEW j \in Ids, heap'[j] \in Dying
               PROVE  \E v \in Workers : pc'[v] = "wipe" /\ victim'[v] = j
    BY DEF DyingHeld
  <2>1. CASE j = i
    BY <1>1, <1>9, <2>1 DEF i
  <2>2. CASE j # i
    <3>1. PICK v \in Workers : pc[v] = "wipe" /\ victim[v] = j
      BY <1>7, <2>2 DEF IInv, Inner, Ranks, DyingHeld
    <3> QED
      BY <1>1, <1>8, <3>1
  <2> QED
    BY <2>1, <2>2
<1> QED
  BY <1>6, <1>10, <1>11, <1>12, <1>13, <1>14, <1>15 DEF IInv, Inner, Ranks

\* Then the permission, then the account.
LEMMA WipeStep ==
    ASSUME NEW w \in Workers, IInv, WipeUser(w) \/ FreeUser(w) PROVE IInv'
<1> DEFINE i == victim[w]
<1>1. PICK a \in {Wiped, Freed} :
        /\ heap' = [heap EXCEPT ![i] = a] /\ table' = table /\ up' = up
        /\ \/ /\ a = Wiped /\ pc[w] = "wipe" /\ pc' = [pc EXCEPT ![w] = "free"]
              /\ UNCHANGED <<req, ptr, victim, right, lost>> /\ said' = "NONE"
           \/ a = Freed /\ pc[w] = "free" /\ Answer(w, "free", "OP_SUCCESS")
  BY DEF WipeUser, FreeUser, Answer, Goto, Silent
<1>2. a \notin Accounts \cup Dying /\ a # Unused
  BY <1>1, Kinds
<1>3. /\ i \in Ids /\ \A n \in DOMAIN table : table[n] # i
      /\ \A v \in Workers \ {w} : pc[v] \in Removing => victim[v] # i
      /\ \A v \in Workers : (pc[v] # "idle" /\ ptr[v] = i) => lost[v] # NoRight
      /\ heap[i] \in Dying \cup {Wiped}
  BY <1>1, VictimFacts DEF Removing, IInv, Inner, VictimsApart
<1> HIDE DEF i
<1>4. TypeOK'
  BY <1>1, <1>3, NoRequestType
     DEF IInv, TypeOK, PCs, Codes, Removing, Remains, Answer, Goto
<1>5. heap'[i] = a /\ \A j \in Ids \ {i} : heap'[j] = heap[j]
  BY <1>1, <1>3 DEF IInv, TypeOK
<1>6. \A v \in Workers \ {w} :
        /\ pc'[v] = pc[v] /\ req'[v] = req[v] /\ ptr'[v] = ptr[v] /\ victim'[v] = victim[v]
        /\ right'[v] = right[v] /\ lost'[v] = lost[v]
        /\ pc[v] # "idle" => ptr[v] \in Ids
        /\ pc[v] \in Removing => victim[v] \in Ids
  BY <1>1 DEF IInv, TypeOK, Removing, Answer, Goto
<1>7. \/ /\ pc'[w] = "idle" /\ right'[w] = NoRight /\ lost'[w] = NoRight
         /\ req'[w].user = NoName
      \/ /\ a = Wiped /\ pc'[w] = "free" /\ victim'[w] = i /\ pc[w] = "wipe"
         /\ req'[w] = req[w] /\ ptr'[w] = ptr[w] /\ right'[w] = right[w] /\ lost'[w] = lost[w]
         /\ ptr[w] \in Ids
  BY <1>1, NoRequestType DEF IInv, TypeOK, Answer, Goto, i
<1>8. TableHolds'
  BY <1>1, <1>3, <1>5 DEF IInv, TypeOK, Inner, TableHolds
<1>9. VictimsApart'
  BY <1>1, <1>3, <1>5, <1>6, <1>7 DEF IInv, Inner, VictimsApart, Removing
<1>10. PointersHeld'
  <2>1. ASSUME NEW v \in Workers, pc'[v] # "idle"
        PROVE  /\ pc[v] # "idle" /\ ptr'[v] = ptr[v] /\ lost'[v] = lost[v] /\ req'[v] = req[v]
               /\ ptr[v] \in Ids
               /\ ptr[v] = i => lost[v] # NoRight /\ heap'[ptr[v]] = a
               /\ ptr[v] # i => heap'[ptr[v]] = heap[ptr[v]]
    BY <1>1, <1>3, <1>5, <1>6, <1>7, <2>1
  <2>2. \A v \in Workers : pc'[v] \in Removing => pc[v] \in Removing /\ victim'[v] = victim[v]
    BY <1>6, <1>7 DEF Removing, i
  <2>3. \A v \in Workers : pc'[v] = "idle" => lost'[v] = NoRight /\ req'[v].user = NoName
    BY <1>6, <1>7 DEF IInv, Inner, PointersHeld
  <2> QED
    BY <1>1, <1>2, <2>1, <2>2, <2>3 DEF IInv, Inner, PointersHeld
<1>11. RightsMatch' /\ AtWork'
  BY <1>2, <1>5, <1>6, <1>7 DEF IInv, Inner, RightsMatch, AtWork, Removing
<1>12. Ranks'
  <2>1. \A j \in Ids : heap'[j] \in Accounts \cup Dying => j # i /\ heap'[j] = heap[j]
    BY <1>2, <1>5
  <2>2. Capped' /\ Entitled'
    BY <1>6, <1>7, <2>1 DEF IInv, Inner, Ranks, Capped, Entitled, Removing
  <2>3. DyingHeld'
    <3> SUFFICES ASSUME NEW j \in Ids, heap'[j] \in Dying
                 PROVE  \E v \in Workers : pc'[v] = "wipe" /\ victim'[v] = j
      BY DEF DyingHeld
    <3>1. j # i /\ heap[j] \in Dying
      BY <2>1
    <3>2. PICK v \in Workers : pc[v] = "wipe" /\ victim[v] = j
      BY <3>1 DEF IInv, Inner, Ranks, DyingHeld
    <3>3. v # w
      BY <3>1, <3>2 DEF i
    <3> QED
      BY <1>6, <3>2, <3>3
  <2> QED
    BY <2>2, <2>3 DEF Ranks
<1> QED
  BY <1>4, <1>8, <1>9, <1>10, <1>11, <1>12 DEF IInv, Inner

\* The process ends and nothing else changes.
LEMMA AbortStep == ASSUME NEW w \in Workers, IInv, Abort(w) PROVE IInv'
<1>1. TypeOK'
  BY DEF IInv, TypeOK, Codes, Abort, Silent
<1>2. UNCHANGED <<table, heap, pc, req, ptr, victim, right, lost>>
  BY DEF Abort
<1>3. TableHolds' /\ VictimsApart' /\ PointersHeld' /\ RightsMatch' /\ AtWork'
  BY <1>2 DEF IInv, Inner, TableHolds, VictimsApart, PointersHeld, RightsMatch, AtWork
<1>4. Ranks'
  BY <1>2 DEF IInv, Inner, Ranks, Capped, DyingHeld, Entitled
<1> QED
  BY <1>1, <1>3, <1>4 DEF IInv, Inner
-----------------------------------------------------------------------------
\* The steps that only answer, and those that only go on.
Answers(w) ==
    /\ \E from \in PCs \ Removing, c \in Codes : Answer(w, from, c)
    /\ UNCHANGED <<table, heap>>

Advances(w) ==
    \E from, to \in PCs \ ({"idle", "match"} \cup Removing) :
        /\ Advance(w, from, to)
        /\ to \in {"create", "delete", "read", "write"} => req[w].op.act = to
        /\ to = "set" => from = "create"
        /\ to = "create" => req[w].op.account.perm <= right[w]
        /\ to = "delete" => right[w] = ADMIN

LEMMA WorkAnswers ==
    ASSUME NEW w \in Workers,
           \/ FindNobody(w) \/ Mismatch(w) \/ NoSession(w) \/ Refuse(w) \/ Dismiss(w)
           \/ FileOperation(w) \/ RejectNewUser(w) \/ RejectRemoval(w)
    PROVE  Answers(w)
  BY DEF FindNobody, Mismatch, NoSession, Refuse, Dismiss, FileOperation, RejectNewUser,
         RejectRemoval, Answers, PCs, Codes, Removing

\* What a request that is checked reads is its right, or the emptied account's.
LEMMA PermFacts ==
    ASSUME NEW w \in Workers, IInv, pc[w] = "permit", heap[ptr[w]] # Freed
    PROVE  /\ right[w] # NoRight /\ right[w] \in Nat /\ heap[ptr[w]].perm \in Nat
           /\ heap[ptr[w]].perm <= right[w]
           /\ \/ heap[ptr[w]].perm = right[w]
              \/ heap[ptr[w]] = Wiped /\ heap[ptr[w]].perm = 0
<1>1. ptr[w] \in Ids /\ heap[ptr[w]] \in Accounts \cup Remains \cup {Unused, Freed}
  BY DEF IInv, TypeOK
<1>2. heap[ptr[w]] \in Accounts \cup Dying \/ heap[ptr[w]] = Wiped
  BY <1>1 DEF IInv, Inner, PointersHeld, Remains
<1>3. right[w] # NoRight /\ right[w] \in Perms
  BY DEF IInv, TypeOK, Inner, RightsMatch
<1>4. heap[ptr[w]] \in Accounts \cup Dying => right[w] = heap[ptr[w]].perm
  BY DEF IInv, Inner, RightsMatch
<1>5. heap[ptr[w]] = Wiped => heap[ptr[w]].perm = 0
  BY Kinds
<1>6. right[w] \in Nat
  BY <1>3, Kinds
<1> QED
  BY <1>2, <1>3, <1>4, <1>5, <1>6

\* A creation or a removal is let through to a request with the right to it.
LEMMA PermitRight ==
    ASSUME NEW w \in Workers, IInv, Permit(w)
    PROVE  /\ req[w].op.act \in {"read", "create", "delete", "write"}
           /\ req[w].op.act = "create" => req[w].op.account.perm <= right[w]
           /\ req[w].op.act = "delete" => right[w] = ADMIN
           /\ req[w].op.act = "write" => right[w] >= READ_WRITE
<1> DEFINE op == req[w].op
<1>1. CASE op.act = "read"
  BY <1>1
<1>2. CASE op.act # "read"
  <2>1. pc[w] = "permit" /\ Checked(op) /\ heap[ptr[w]] # Freed /\ Allowed(op, heap[ptr[w]].perm)
    BY <1>2 DEF Permit
  <2>2. op.act \in {"create", "delete", "write"}
    BY <2>1 DEF Checked
  <2>3. op \in Operations
    BY OperationTypes DEF IInv, TypeOK
  <2>4. op.act = "create" => op.account.perm \in Nat
    BY <2>3, OperationTypes, AccessAssumption
  <2>5. /\ right[w] \in Nat /\ heap[ptr[w]].perm \in Nat /\ heap[ptr[w]].perm <= right[w]
        /\ heap[ptr[w]].perm = right[w] \/ heap[ptr[w]].perm = 0
    BY <2>1, PermFacts
  <2> QED
    BY <2>1, <2>2, <2>4, <2>5 DEF Allowed, READ_WRITE, ADMIN
<1> QED
  BY <1>1, <1>2

\* Every step of a worker is one of these.
LEMMA WorkKinds ==
    ASSUME NEW w \in Workers, IInv, Work(w)
    PROVE  \/ Answers(w) \/ Advances(w)
           \/ (\E r \in Requests : FindUser(w, r))
           \/ Match(w) \/ SetUser(w) \/ RemoveUser(w)
           \/ DestroyHash(w) \/ WipeUser(w) \/ FreeUser(w) \/ Abort(w)
<1>1. ASSUME HasSession(w) PROVE Advances(w)
  BY <1>1 DEF HasSession, Advances, PCs, Removing
<1>2. ASSUME CheckNewUser(w) PROVE Advances(w)
  BY <1>2 DEF CheckNewUser, Advances, PCs, Removing
<1>3. ASSUME Permit(w) PROVE Advances(w)
  <2>1. Advance(w, "permit", req[w].op.act)
    BY <1>3 DEF Permit
  <2> QED
    BY <1>3, <2>1, PermitRight DEF Advances, PCs, Removing
<1> QED
  BY <1>1, <1>2, <1>3, WorkAnswers DEF Work

LEMMA IInvNext == IInv /\ [Next]_vars => IInv'
<1> SUFFICES ASSUME IInv, [Next]_vars PROVE IInv'
  OBVIOUS
<1>1. CASE UNCHANGED vars
  BY <1>1 DEF vars, IInv, TypeOK, Inner, TableHolds, VictimsApart, PointersHeld, RightsMatch,
              Ranks, Capped, DyingHeld, Entitled, AtWork
<1>2. ASSUME NEW w \in Workers, Work(w) PROVE IInv'
  <2>1. CASE Answers(w)
    BY <2>1, AnswerStep DEF Answers
  <2>2. CASE Advances(w)
    BY <2>2, AdvanceStep DEF Advances
  <2>3. CASE \E r \in Requests : FindUser(w, r)
    BY <2>3, FindStep
  <2> QED
    BY <1>2, <2>1, <2>2, <2>3, WorkKinds, MatchStep, SetStep, RemoveStep, DestroyStep, WipeStep,
       AbortStep
<1> QED
  BY <1>1, <1>2 DEF Next

LEMMA Inductive == Spec => []IInv
  BY IInvInit, IInvNext, PTL DEF Spec

\* Type correctness, and a victim in hand exactly while db_remove_user takes it
\* apart.
THEOREM TypeCorrect == Spec => []TypeOK
  BY Inductive, PTL DEF IInv

\* db_remove_user takes an account apart under nobody but the requests that
\* found it before it was removed.
THEOREM FreedUnderOlder == Spec => []FreedOnlyUnderOlder
  BY Inductive, IInvOlder, PTL
-----------------------------------------------------------------------------
(***************************************************************************)
(* Permissions: what anybody has after a step, somebody had before it.     *)
(***************************************************************************)

\* An answer gives nobody a permission, nor does a step that goes on, unless to
\* a creation that the right of its request allows.
LEMMA AnswerKeepsCeiling ==
    ASSUME NEW w \in Workers, IInv, Answers(w), NEW p \in Perms, Reached(p)'
    PROVE  Reached(p)
<1> PICK from \in PCs \ Removing, c \in Codes : Answer(w, from, c)
  BY DEF Answers
<1>1. \A v \in Workers : \/ right'[v] = right[v] \/ right'[v] = NoRight
  BY DEF Answer, IInv, TypeOK
<1>2. \A v \in Workers : pc'[v] \in {"create", "set"} => pc'[v] = pc[v] /\ req'[v] = req[v]
  BY DEF Answer, Goto, IInv, TypeOK
<1> QED
  BY <1>1, <1>2 DEF Reached, Answers

LEMMA PermitKeepsCeiling ==
    ASSUME NEW w \in Workers, IInv, Permit(w), NEW p \in Perms, Reached(p)'
    PROVE  Reached(p)
<1> DEFINE op == req[w].op
<1>1. /\ pc[w] = "permit" /\ pc' = [pc EXCEPT ![w] = op.act]
      /\ UNCHANGED <<table, heap, req, right>>
  BY DEF Permit, Advance, Goto
<1>2. CASE op.act \in {"create", "set"}
  <2>1. op.act = "create" /\ op.account.perm <= right[w] /\ right[w] # NoRight
    BY <1>1, <1>2, PermitRight DEF IInv, Inner, RightsMatch
  <2>2. op.account.perm \in Perms
    BY <2>1, OperationTypes DEF IInv, TypeOK, Perms
  <2>3. right[w] \in Nat /\ op.account.perm \in Nat /\ p \in Nat
    BY <2>1, <2>2, Kinds DEF IInv, TypeOK
  <2>4. CASE op.account.perm >= p
    <3>1. right[w] >= p
      BY <2>1, <2>3, <2>4
    <3> QED
      BY <2>1, <3>1 DEF Reached
  <2>5. CASE ~(op.account.perm >= p)
    BY <1>1, <2>5 DEF Reached, IInv, TypeOK
  <2> QED
    BY <2>4, <2>5
<1>3. CASE op.act \notin {"create", "set"}
  BY <1>1, <1>3 DEF Reached, IInv, TypeOK
<1> QED
  BY <1>2, <1>3

LEMMA FindKeepsCeiling ==
    ASSUME NEW w \in Workers, NEW r \in Requests, IInv, FindUser(w, r),
           NEW p \in Perms, Reached(p)'
    PROVE  Reached(p)
<1>1. /\ pc[w] = "idle" /\ pc' = [pc EXCEPT ![w] = "match"]
      /\ r.user \in DOMAIN table
      /\ \/ right' = [right EXCEPT ![w] = heap[table[r.user]].perm]
         \/ right' = [right EXCEPT ![w] = NoRight]
      /\ req' = [req EXCEPT ![w] = r] /\ UNCHANGED <<table, heap>>
  BY DEF FindUser, Goto
<1>2. \A v \in Workers : pc'[v] \in {"create", "set"} => pc'[v] = pc[v] /\ req'[v] = req[v]
  BY <1>1 DEF IInv, TypeOK
<1>3. \A v \in Workers : \/ right'[v] = right[v] \/ right'[v] = NoRight
                         \/ right'[v] = heap[table[r.user]].perm
  BY <1>1 DEF IInv, TypeOK
<1> QED
  BY <1>1, <1>2, <1>3 DEF Reached

LEMMA SetKeepsCeiling ==
    ASSUME NEW w \in Workers, IInv, SetUser(w), NEW p \in Perms, Reached(p)'
    PROVE  Reached(p)
<1> DEFINE op == req[w].op
<1> PICK i \in Ids :
      /\ heap[i] = Unused
      /\ heap' = [heap EXCEPT ![i] = op.account]
      /\ table' = [n \in DOMAIN table \cup {op.name} |->
                     IF n = op.name THEN i ELSE table[n]]
  BY DEF SetUser
<1>1. pc[w] = "set" /\ Answer(w, "set", "OP_SUCCESS") /\ heap'[i] = op.account
  BY DEF SetUser, IInv, TypeOK
<1>2. \A n \in DOMAIN table : table[n] \in Ids /\ table[n] # i
  BY Kinds DEF IInv, TypeOK, Inner, TableHolds
<1>3. \A n \in DOMAIN table' : \/ heap'[table'[n]] = op.account
                               \/ n \in DOMAIN table /\ heap'[table'[n]] = heap[table[n]]
  BY <1>1, <1>2 DEF IInv, TypeOK
<1>4. \A v \in Workers : \/ right'[v] = right[v] \/ right'[v] = NoRight
  BY <1>1 DEF Answer, IInv, TypeOK
<1>5. \A v \in Workers : pc'[v] \in {"create", "set"} => pc'[v] = pc[v] /\ req'[v] = req[v]
  BY <1>1 DEF Answer, Goto, IInv, TypeOK
<1> QED
  BY <1>1, <1>3, <1>4, <1>5 DEF Reached

LEMMA RemoveKeepsCeiling ==
    ASSUME NEW w \in Workers, IInv, RemoveUser(w), NEW p \in Perms, Reached(p)'
    PROVE  Reached(p)
<1>1. /\ pc' = [pc EXCEPT ![w] = "destroy"]
      /\ \A n \in DOMAIN table' : n \in DOMAIN table /\ table'[n] = table[n]
      /\ UNCHANGED <<heap, req, right>>
  BY DEF RemoveUser, Goto
<1> QED
  BY <1>1 DEF Reached, IInv, TypeOK

LEMMA FreeKeepsCeiling ==
    ASSUME NEW w \in Workers, IInv, FreeUser(w), NEW p \in Perms, Reached(p)'
    PROVE  Reached(p)
<1>1. /\ table' = table /\ Answer(w, "free", "OP_SUCCESS")
      /\ \A n \in DOMAIN table : heap'[table[n]] = heap[table[n]]
  BY DEF FreeUser, IInv, TypeOK, Inner, VictimsApart, Removing
<1>2. \A v \in Workers : \/ right'[v] = right[v] \/ right'[v] = NoRight
  BY <1>1 DEF Answer, IInv, TypeOK
<1>3. \A v \in Workers : pc'[v] \in {"create", "set"} => pc'[v] = pc[v] /\ req'[v] = req[v]
  BY <1>1 DEF Answer, Goto, IInv, TypeOK
<1> QED
  BY <1>1, <1>2, <1>3 DEF Reached

\* A password that passes over a hash that is being freed gives no more than the
\* worker that frees it has.
LEMMA MatchKeepsCeiling ==
    ASSUME NEW w \in Workers, IInv, Match(w), NEW p \in Perms, Reached(p)'
    PROVE  Reached(p)
<1>1. /\ pc[w] = "match" /\ pc' = [pc EXCEPT ![w] = "session"]
      /\ req' = [req EXCEPT ![w].pass = DefaultPassword]
      /\ right' = [right EXCEPT ![w] = heap[ptr[w]].perm]
      /\ heap[ptr[w]] # Freed /\ heap[ptr[w]].pass \in {req[w].pass, Broken}
      /\ UNCHANGED <<table, heap>>
  BY DEF Match, Goto
<1>2. ptr[w] \in Ids /\ req[w].pass \in Passwords
  BY <1>1, OperationTypes DEF IInv, TypeOK
<1>3. heap[ptr[w]] \in Accounts \cup Dying
  BY <1>1, <1>2, Kinds DEF IInv, TypeOK, Inner, PointersHeld, Remains
<1>4. \A v \in Workers : pc'[v] \in {"create", "set"} => pc'[v] = pc[v] /\ req'[v] = req[v]
  BY <1>1 DEF IInv, TypeOK
<1>5. /\ right'[w] = heap[ptr[w]].perm
      /\ \A v \in Workers \ {w} : right'[v] = right[v]
  BY <1>1 DEF IInv, TypeOK
<1>6. CASE heap[ptr[w]] \in Accounts
  <2>1. heap[ptr[w]].pass \in Passwords /\ Broken \notin Passwords
    BY <1>6, Kinds
  <2>2. right[w] = heap[ptr[w]].perm
    BY <1>1, <1>6, <2>1 DEF IInv, Inner, RightsMatch
  <2>3. \A v \in Workers : right'[v] = right[v]
    BY <1>5, <2>2
  <2> QED
    BY <1>1, <1>4, <2>3 DEF Reached
<1>7. CASE heap[ptr[w]] \in Dying
  <2>1. PICK v \in Workers : pc[v] = "wipe"
    BY <1>2, <1>7 DEF IInv, Inner, Ranks, DyingHeld
  <2>2. right[v] = ADMIN
    BY <2>1 DEF IInv, Inner, Ranks, Entitled, Removing
  <2>3. heap[ptr[w]].perm <= ADMIN /\ heap[ptr[w]].perm \in Nat /\ p \in Nat /\ ADMIN \in Nat
        /\ ADMIN # NoRight
    BY <1>2, <1>7, Kinds DEF IInv, Inner, Ranks, Capped
  <2>4. CASE right'[w] >= p
    BY <1>5, <2>2, <2>3, <2>4 DEF Reached
  <2>5. CASE ~(right'[w] >= p)
    BY <1>1, <1>4, <1>5, <2>5 DEF Reached
  <2> QED
    BY <2>4, <2>5
<1> QED
  BY <1>3, <1>6, <1>7

\* What is taken apart is in the table no more.
LEMMA DestroyKeepsCeiling ==
    ASSUME NEW w \in Workers, IInv, DestroyHash(w) \/ WipeUser(w), NEW p \in Perms, Reached(p)'
    PROVE  Reached(p)
<1>1. /\ pc[w] \in Removing
      /\ \A v \in Workers : pc'[v] \in {"create", "set"} => pc'[v] = pc[v]
      /\ UNCHANGED <<table, req, right>>
  BY DEF DestroyHash, WipeUser, Goto, Removing, IInv, TypeOK
<1>2. \A n \in DOMAIN table : table[n] # victim[w]
  BY <1>1, VictimFacts
<1>3. \A n \in DOMAIN table : heap'[table[n]] = heap[table[n]]
  BY <1>2 DEF DestroyHash, WipeUser, IInv, TypeOK
<1> QED
  BY <1>1, <1>3 DEF Reached

LEMMA CeilingNext ==
    IInv /\ [Next]_vars => [\A p \in Perms : Reached(p)' => Reached(p)]_vars
<1> SUFFICES ASSUME IInv, NEW w \in Workers, Work(w),
                    NEW p \in Perms, Reached(p)'
             PROVE  Reached(p)
  BY DEF Next
<1>1. CASE \E r \in Requests : FindUser(w, r)
  BY <1>1, FindKeepsCeiling
<1>2. CASE DestroyHash(w) \/ WipeUser(w)
  BY <1>2, DestroyKeepsCeiling
<1>3. CASE HasSession(w) \/ CheckNewUser(w)
  BY <1>3 DEF HasSession, CheckNewUser, Advance, Goto, Reached, IInv, TypeOK
<1>4. CASE Abort(w)
  BY <1>4 DEF Abort, Reached
<1>5. CASE Answers(w)
  BY <1>5, AnswerKeepsCeiling
<1> QED
  BY <1>1, <1>2, <1>3, <1>4, <1>5, WorkAnswers, PermitKeepsCeiling, SetKeepsCeiling,
     MatchKeepsCeiling, RemoveKeepsCeiling, FreeKeepsCeiling DEF Work

\* Any number of workers, in any order, by any users: a permission that nobody
\* has any more is not reached again.
THEOREM Ceilings == Spec => CeilingsHold
  BY Inductive, CeilingNext, PTL DEF Spec, CeilingsHold
-----------------------------------------------------------------------------
(***************************************************************************)
(* Every step is one of the policy, or none of its business.               *)
(***************************************************************************)

\* What the policy sees of the steps that only answer.
LEMMA PolicyEnd ==
    ASSUME NEW w \in Workers, NEW from \in PCs, NEW c \in Codes, IInv, Answer(w, from, c)
    PROVE  Policy!End(w, c)
<1>1. /\ pc' = [pc EXCEPT ![w] = "idle"] /\ req' = [req EXCEPT ![w] = NoRequest]
      /\ right' = [right EXCEPT ![w] = NoRight] /\ said' = c
      /\ lost' = [lost EXCEPT ![w] = NoRight]
  BY DEF Answer, Goto
<1>2. /\ [v \in Workers |-> req[v].op]' = [[v \in Workers |-> req[v].op] EXCEPT ![w] = NoRequest.op]
      /\ [v \in Workers |-> req[v].op]'[w] = NoRequest.op
  BY <1>1 DEF IInv, TypeOK
<1>3. /\ NoRequest.op \in Operations
      /\ [v \in Workers |-> req[v].user]' =
           [[v \in Workers |-> req[v].user] EXCEPT ![w] = NoName]
  BY <1>1, NoRequestType, OperationTypes DEF IInv, TypeOK
<1>4. [v \in Workers |-> Deed(v)]' = [[v \in Workers |-> Deed(v)] EXCEPT ![w] = "nothing"]
  BY <1>1 DEF IInv, TypeOK, Deed, Removing
<1> QED
  BY <1>1, <1>2, <1>3, <1>4 DEF Policy!End, Policy!Asks

\* A truthful answer that changes no account is a step of the policy.
LEMMA PolicyAnswer ==
    ASSUME NEW w \in Workers, NEW from \in PCs, NEW c \in Codes, IInv, Answer(w, from, c),
           UNCHANGED <<table, heap>>, Policy!Truthful(w, c)
    PROVE  Policy!Next
<1>1. UNCHANGED [n \in DOMAIN table |-> heap[table[n]]]
  OBVIOUS
<1> QED
  BY <1>1, PolicyEnd DEF Policy!Next

LEMMA PolicyAnswers ==
    ASSUME NEW w \in Workers, IInv,
           \/ FindNobody(w) \/ Mismatch(w) \/ NoSession(w) \/ Refuse(w) \/ Dismiss(w)
           \/ FileOperation(w) \/ RejectNewUser(w) \/ RejectRemoval(w)
    PROVE  Policy!Next
<1> DEFINE op == req[w].op
<1>1. /\ [v \in Workers |-> req[v].op][w] = op
      /\ [v \in Workers |-> Deed(v)][w] = Deed(w)
      /\ DOMAIN [n \in DOMAIN table |-> heap[table[n]]] = DOMAIN table
  OBVIOUS
<1>2. CASE FindNobody(w)
  <2>1. pc[w] = "idle" /\ Answer(w, "idle", "OP_USER_AUTH") /\ UNCHANGED <<table, heap>>
    BY <1>2 DEF FindNobody, Answer, Goto
  <2>2. Policy!Truthful(w, "OP_USER_AUTH")
    BY <2>1 DEF IInv, Inner, RightsMatch, Policy!Truthful
  <2> QED
    BY <2>1, <2>2, PolicyAnswer DEF PCs, Codes, Removing
<1>3. CASE Mismatch(w)
  <2>1. Answer(w, "match", "OP_USER_AUTH") /\ UNCHANGED <<table, heap>>
    BY <1>3 DEF Mismatch
  <2>2. Deed(w) = "nothing"
    BY <1>3 DEF Mismatch, Deed, Removing
  <2>3. right[w] = NoRight \/ lost[w] # NoRight
    BY <1>3 DEF Mismatch, IInv, Inner, PointersHeld, RightsMatch
  <2>4. Policy!Truthful(w, "OP_USER_AUTH")
    BY <1>1, <2>2, <2>3 DEF Policy!Truthful
  <2> QED
    BY <2>1, <2>4, PolicyAnswer DEF PCs, Codes, Removing
<1>4. CASE NoSession(w) \/ Refuse(w) \/ Dismiss(w)
  <2>1. pc[w] \in {"session", "permit"} /\ UNCHANGED <<table, heap>>
    BY <1>4 DEF NoSession, Refuse, Dismiss, Answer, Goto
  <2>2. right[w] # NoRight /\ Deed(w) = "nothing"
    BY <2>1 DEF IInv, Inner, RightsMatch, Deed, Removing
  <2>3. CASE NoSession(w)
    BY <1>1, <2>1, <2>2, <2>3, PolicyAnswer DEF NoSession, PCs, Codes, Removing, Policy!Truthful
  <2>4. CASE Refuse(w)
    <3>1. /\ Answer(w, "permit", "OP_PERMISSION_ERROR") /\ Checked(op)
          /\ ~Allowed(op, heap[ptr[w]].perm) /\ heap[ptr[w]] # Freed
      BY <2>4 DEF Refuse
    <3>2. right[w] = heap[ptr[w]].perm \/ lost[w] # NoRight
      <4>1. pc[w] = "permit"
        BY <2>4 DEF Refuse
      <4>2. CASE heap[ptr[w]] = Wiped
        BY <4>1, <4>2, Kinds DEF IInv, Inner, PointersHeld
      <4>3. CASE heap[ptr[w]] # Wiped
        BY <3>1, <4>1, <4>3, PermFacts
      <4> QED
        BY <4>2, <4>3
    <3>3. ~Policy!Permits(op, right[w]) \/ lost[w] # NoRight
      BY <3>1, <3>2 DEF Checked, Allowed, Policy!Permits, READ_WRITE, ADMIN,
                  Policy!READ_WRITE, Policy!ADMIN
    <3> QED
      BY <1>1, <2>1, <2>2, <3>1, <3>3, PolicyAnswer DEF PCs, Codes, Removing, Policy!Truthful
  <2>5. CASE Dismiss(w)
    BY <1>1, <2>1, <2>2, <2>5, PolicyAnswer DEF Dismiss, PCs, Codes, Removing, Policy!Truthful
  <2> QED
    BY <1>4, <2>3, <2>4, <2>5
<1>5. CASE FileOperation(w)
  <2>1. PICK act \in {"read", "write"}, c \in {"OP_SUCCESS", "OP_FAILURE"} :
          Answer(w, act, c) /\ UNCHANGED <<table, heap>>
    BY <1>5 DEF FileOperation
  <2>2. Deed(w) = act
    BY <2>1 DEF Answer, Goto, Deed, Removing
  <2> QED
    BY <1>1, <2>1, <2>2, PolicyAnswer DEF PCs, Codes, Removing, Policy!Truthful
<1>6. CASE RejectNewUser(w)
  <2>1. Deed(w) = "create"
    BY <1>6 DEF RejectNewUser, Deed, Removing
  <2> QED
    BY <1>1, <1>6, <2>1, PolicyAnswer DEF RejectNewUser, PCs, Codes, Removing, Policy!Truthful
<1>7. CASE RejectRemoval(w)
  <2>1. Deed(w) = "delete"
    BY <1>7 DEF RejectRemoval, Deed, Removing
  <2> QED
    BY <1>1, <1>7, <2>1, PolicyAnswer DEF RejectRemoval, PCs, Codes, Removing, Policy!Truthful
<1> QED
  BY <1>2, <1>3, <1>4, <1>5, <1>6, <1>7

LEMMA PolicyFind ==
    ASSUME NEW w \in Workers, NEW r \in Requests, IInv, FindUser(w, r)
    PROVE  Policy!Next
<1> DEFINE users == [n \in DOMAIN table |-> heap[table[n]]]
<1>1. /\ pc[w] = "idle" /\ pc' = [pc EXCEPT ![w] = "match"] /\ said' = "NONE"
      /\ r.user \in DOMAIN table /\ UNCHANGED <<table, heap>>
      /\ right' = [right EXCEPT ![w] = IF heap[table[r.user]].pass = r.pass
                                         THEN heap[table[r.user]].perm ELSE NoRight]
      /\ req' = [req EXCEPT ![w] = r] /\ lost' = lost
  BY DEF FindUser, Goto, Silent
<1>2. req[w].user = NoName
  BY <1>1 DEF IInv, Inner, PointersHeld
<1>3. /\ [v \in Workers |-> req[v].op]' = [[v \in Workers |-> req[v].op] EXCEPT ![w] = r.op]
      /\ [v \in Workers |-> req[v].user]' = [[v \in Workers |-> req[v].user] EXCEPT ![w] = r.user]
      /\ [v \in Workers |-> req[v].user][w] = req[w].user
      /\ [v \in Workers |-> req[v].op]'[w] = r.op
  BY <1>1 DEF IInv, TypeOK
<1>4. [v \in Workers |-> Deed(v)]' = [v \in Workers |-> Deed(v)]
  BY <1>1 DEF IInv, TypeOK, Deed, Removing
<1>5. /\ r.user \in DOMAIN users /\ users[r.user] = heap[table[r.user]] /\ users' = users
      /\ r.user \in Names /\ r.pass \in Passwords /\ r.op \in Operations
  BY <1>1, OperationTypes DEF IInv, TypeOK
<1>6. Policy!Ask(w, r.user, r.pass)
  BY <1>1, <1>2, <1>3, <1>4, <1>5 DEF Policy!Ask, Policy!Asks
<1> QED
  BY <1>5, <1>6 DEF Policy!Next

LEMMA PolicyMatch == ASSUME NEW w \in Workers, IInv, Match(w) PROVE Policy!Next
<1>1. /\ pc[w] = "match" /\ pc' = [pc EXCEPT ![w] = "session"] /\ said' = "NONE"
      /\ req' = [req EXCEPT ![w].pass = DefaultPassword]
      /\ right' = [right EXCEPT ![w] = heap[ptr[w]].perm]
      /\ heap[ptr[w]] # Freed /\ heap[ptr[w]].pass \in {req[w].pass, Broken}
      /\ UNCHANGED <<table, heap, lost>>
  BY DEF Match, Goto, Silent
<1>2. ptr[w] \in Ids /\ req[w].pass \in Passwords
  BY <1>1, OperationTypes DEF IInv, TypeOK
<1>3. heap[ptr[w]] \in Accounts \cup Dying
  BY <1>1, <1>2, Kinds DEF IInv, TypeOK, Inner, PointersHeld, Remains
<1>4. \A v \in Workers : req'[v].op = req[v].op /\ req'[v].user = req[v].user
  BY <1>1, OperationTypes DEF IInv, TypeOK, Requests
<1>5. /\ [v \in Workers |-> req[v].op]' = [v \in Workers |-> req[v].op]
      /\ [v \in Workers |-> req[v].user]' = [v \in Workers |-> req[v].user]
      /\ [v \in Workers |-> Deed(v)]' = [v \in Workers |-> Deed(v)]
      /\ [v \in Workers |-> Deed(v)][w] = "nothing"
      /\ UNCHANGED [n \in DOMAIN table |-> heap[table[n]]]
  BY <1>1, <1>4 DEF IInv, TypeOK, Deed, Removing
<1>6. CASE heap[ptr[w]] \in Accounts
  <2>1. heap[ptr[w]].pass \in Passwords /\ Broken \notin Passwords
    BY <1>6, Kinds
  <2>2. right[w] = heap[ptr[w]].perm
    BY <1>1, <1>6, <2>1 DEF IInv, Inner, RightsMatch
  <2>3. right' = right
    BY <1>1, <2>2 DEF IInv, TypeOK
  <2> QED
    BY <1>1, <1>5, <2>3 DEF Policy!Next, Policy!Proceed
<1>7. CASE heap[ptr[w]] \in Dying
  <2>1. lost[w] # NoRight /\ lost[w] = heap[ptr[w]].perm
    BY <1>1, <1>7, Kinds DEF IInv, Inner, PointersHeld
  <2>2. Policy!Slip(w)
    BY <1>1, <1>5, <2>1 DEF Policy!Slip
  <2> QED
    BY <2>2 DEF Policy!Next
<1> QED
  BY <1>3, <1>6, <1>7

LEMMA PolicyOn ==
    ASSUME NEW w \in Workers, IInv, HasSession(w) \/ CheckNewUser(w) PROVE Policy!Next
<1>1. /\ said' = "NONE" /\ UNCHANGED <<table, heap, req, right, lost>>
      /\ \/ pc[w] = "session" /\ pc' = [pc EXCEPT ![w] = "permit"]
         \/ pc[w] = "create" /\ pc' = [pc EXCEPT ![w] = "set"]
  BY DEF HasSession, CheckNewUser, Advance, Goto, Silent
<1>2. [v \in Workers |-> Deed(v)]' = [v \in Workers |-> Deed(v)]
  BY <1>1 DEF IInv, TypeOK, Deed, Removing
<1> QED
  BY <1>1, <1>2 DEF Policy!Next, Policy!Proceed

LEMMA PolicyPermit == ASSUME NEW w \in Workers, IInv, Permit(w) PROVE Policy!Next
<1> DEFINE op == req[w].op
<1>1. /\ pc[w] = "permit" /\ pc' = [pc EXCEPT ![w] = op.act] /\ said' = "NONE"
      /\ UNCHANGED <<table, heap, req, right, lost>>
      /\ op.act \in {"read", "create", "delete", "write"}
  BY DEF Permit, Advance, Goto, Silent, Checked
<1>2. right[w] # NoRight /\ Deed(w) = "nothing"
  BY <1>1 DEF IInv, Inner, RightsMatch, Deed, Removing
<1>3. Policy!Permits(op, right[w])
  <2>1. op.act = "create" => op.account.perm \in Nat
    BY OperationTypes, AccessAssumption DEF IInv, TypeOK
  <2>2. right[w] \in Nat
    BY <1>2, Kinds DEF IInv, TypeOK
  <2> QED
    BY <1>1, <2>1, <2>2, PermitRight
       DEF Policy!Permits, READ_WRITE, ADMIN, Policy!READ_WRITE, Policy!ADMIN
<1>4. [v \in Workers |-> Deed(v)]' = [[v \in Workers |-> Deed(v)] EXCEPT ![w] = op.act]
  BY <1>1 DEF IInv, TypeOK, Deed, Removing
<1>5. Policy!Begin(w)
  BY <1>1, <1>2, <1>3, <1>4 DEF Policy!Begin
<1> QED
  BY <1>5 DEF Policy!Next

LEMMA PolicySet == ASSUME NEW w \in Workers, IInv, SetUser(w) PROVE Policy!Next
<1> DEFINE op == req[w].op
           users == [n \in DOMAIN table |-> heap[table[n]]]
<1> PICK i \in Ids :
      /\ heap[i] = Unused
      /\ heap' = [heap EXCEPT ![i] = op.account]
      /\ table' = [n \in DOMAIN table \cup {op.name} |->
                     IF n = op.name THEN i ELSE table[n]]
  BY DEF SetUser
<1>1. Answer(w, "set", "OP_SUCCESS") /\ Deed(w) = "create"
  BY DEF SetUser, Deed, Removing
<1>2. \A n \in DOMAIN table : table[n] \in Ids /\ table[n] # i
  BY Kinds DEF IInv, TypeOK, Inner, TableHolds
<1>3. users' = [n \in DOMAIN table \cup {op.name} |->
                  IF n = op.name THEN op.account ELSE users[n]]
  <2>1. DOMAIN table' = DOMAIN table \cup {op.name}
    OBVIOUS
  <2>2. ASSUME NEW n \in DOMAIN table'
        PROVE  heap'[table'[n]] = IF n = op.name THEN op.account ELSE users[n]
    BY <1>2, <2>1 DEF IInv, TypeOK
  <2> QED
    BY <2>1, <2>2
<1>4. /\ [v \in Workers |-> req[v].op][w] = op /\ [v \in Workers |-> Deed(v)][w] = Deed(w)
      /\ DOMAIN users = DOMAIN table
  OBVIOUS
<1>5. Policy!End(w, "OP_SUCCESS")
  BY <1>1, PolicyEnd DEF PCs, Codes, Removing
<1>6. Policy!Add(w)
  BY <1>1, <1>3, <1>4, <1>5 DEF Policy!Add
<1> QED
  BY <1>6 DEF Policy!Next

LEMMA PolicyRemove == ASSUME NEW w \in Workers, IInv, RemoveUser(w) PROVE Policy!Next
<1> DEFINE n == req[w].op.name
           users == [m \in DOMAIN table |-> heap[table[m]]]
           S == {v \in Workers : ptr[v] = table[n]}
<1>1. /\ pc[w] = "delete" /\ pc' = [pc EXCEPT ![w] = "destroy"] /\ said' = "NONE"
      /\ n \in DOMAIN table /\ table' = [m \in DOMAIN table \ {n} |-> table[m]]
      /\ lost' = [v \in Workers |-> IF ptr[v] = table[n] THEN heap[table[n]].perm ELSE lost[v]]
      /\ UNCHANGED <<heap, req, right>>
  BY DEF RemoveUser, LosePointers, Goto, Silent
<1>2. users' = [m \in DOMAIN users \ {n} |-> users[m]]
  BY <1>1
<1>3. /\ Deed(w) = "delete"
      /\ [v \in Workers |-> Deed(v)]' = [[v \in Workers |-> Deed(v)] EXCEPT ![w] = "dropped"]
  BY <1>1 DEF IInv, TypeOK, Deed, Removing
<1>4. S \in SUBSET {v \in Workers : [u \in Workers |-> req[u].user][v] = n}
  <2>1. \A v \in S : pc[v] # "idle"
    BY <1>1, Kinds DEF IInv, TypeOK
  <2>2. \A v \in S : req[v].user = n
    BY <1>1, <2>1 DEF IInv, Inner, PointersHeld
  <2> QED
    BY <2>2
<1>5. lost' = [v \in Workers |-> IF v \in S THEN users[n].perm ELSE lost[v]]
  BY <1>1
<1> DEFINE asks == [v \in Workers |-> req[v].op]
           via  == [v \in Workers |-> req[v].user]
           does == [v \in Workers |-> Deed(v)]
<1>6. /\ asks[w].name = n /\ n \in DOMAIN users /\ does[w] = "delete"
      /\ does' = [does EXCEPT ![w] = "dropped"]
      /\ UNCHANGED <<asks, via, right>> /\ said' = "NONE"
  BY <1>1, <1>3
<1>7. S \in SUBSET {v \in Workers : via[v] = n}
  BY <1>4
<1> HIDE DEF n, users, S, asks, via, does
<1>8. \E T \in SUBSET {v \in Workers : via[v] = asks[w].name} :
        lost' = [v \in Workers |-> IF v \in T THEN users[asks[w].name].perm ELSE lost[v]]
  BY <1>5, <1>6, <1>7
<1>9. /\ does[w] = "delete" /\ asks[w].name \in DOMAIN users
      /\ users' = [m \in DOMAIN users \ {asks[w].name} |-> users[m]]
  BY <1>2, <1>6
<1>10. Policy!Drop(w)
  BY <1>6, <1>8, <1>9 DEF Policy!Drop, users, asks, via, does
<1> QED
  BY <1>10 DEF Policy!Next

\* Taking the account apart is none of its business.
LEMMA PolicyApart ==
    ASSUME NEW w \in Workers, IInv, DestroyHash(w) \/ WipeUser(w) PROVE Policy!Next
<1>1. /\ said' = "NONE" /\ UNCHANGED <<table, req, right, lost>>
      /\ pc[w] \in Removing
      /\ \E to \in Removing : pc' = [pc EXCEPT ![w] = to]
  BY DEF DestroyHash, WipeUser, Goto, Silent, Removing
<1>2. [v \in Workers |-> Deed(v)]' = [v \in Workers |-> Deed(v)]
  BY <1>1 DEF IInv, TypeOK, Deed, Removing
<1>3. \A n \in DOMAIN table : table[n] # victim[w]
  BY <1>1, VictimFacts
<1>4. \A n \in DOMAIN table : heap'[table[n]] = heap[table[n]]
  BY <1>3 DEF DestroyHash, WipeUser, IInv, TypeOK
<1>5. UNCHANGED [n \in DOMAIN table |-> heap[table[n]]]
  BY <1>1, <1>4
<1> QED
  BY <1>1, <1>2, <1>5 DEF Policy!Next, Policy!Proceed

LEMMA PolicyFree == ASSUME NEW w \in Workers, IInv, FreeUser(w) PROVE Policy!Next
<1>1. /\ Answer(w, "free", "OP_SUCCESS") /\ Deed(w) = "dropped" /\ right[w] # NoRight
      /\ table' = table /\ \A n \in DOMAIN table : heap'[table[n]] = heap[table[n]]
  BY DEF FreeUser, IInv, TypeOK, Inner, VictimsApart, RightsMatch, Deed, Removing
<1>2. UNCHANGED [n \in DOMAIN table |-> heap[table[n]]]
  BY <1>1
<1>3. Policy!End(w, "OP_SUCCESS")
  BY <1>1, PolicyEnd DEF PCs, Codes, Removing
<1>4. Policy!Truthful(w, "OP_SUCCESS")
  BY <1>1 DEF Policy!Truthful
<1> QED
  BY <1>2, <1>3, <1>4 DEF Policy!Next, Codes

LEMMA PolicyAbort == ASSUME NEW w \in Workers, IInv, Abort(w) PROVE Policy!Next
<1>1. [v \in Workers |-> Deed(v)]' = [v \in Workers |-> Deed(v)]
  BY DEF Abort, Deed, Removing
<1> QED
  BY <1>1 DEF Abort, Silent, Policy!Next, Policy!Proceed

LEMMA PolicyInit == Init => Policy!Init
<1> SUFFICES ASSUME Init PROVE Policy!Init
  OBVIOUS
<1>1. IInv
  BY IInvInit
<1>2. /\ \A w \in Workers : req[w].op \in Operations /\ Deed(w) = "nothing"
      /\ right = [w \in Workers |-> NoRight] /\ said = "NONE"
      /\ lost = [w \in Workers |-> NoRight] /\ \A w \in Workers : req[w].user = NoName
  BY NoRequestType, OperationTypes DEF Init, Deed, Removing
<1>3. /\ DOMAIN table \subseteq Names
      /\ \A n \in DOMAIN table : heap[table[n]] \in Accounts
  BY <1>1 DEF IInv, TypeOK, Inner, TableHolds
<1> QED
  BY <1>2, <1>3 DEF Policy!Init

LEMMA PolicyNext == IInv /\ [Next]_vars => [Policy!Next]_Policy!vars
<1> SUFFICES ASSUME IInv, [Next]_vars, ~(UNCHANGED vars) PROVE Policy!Next
  <2>1. UNCHANGED vars => UNCHANGED Policy!vars
    BY DEF vars, Policy!vars, Deed, Removing
  <2> QED
    BY <2>1
<1>1. PICK w \in Workers : Work(w)
  BY DEF Next
<1>2. CASE \E r \in Requests : FindUser(w, r)
  BY <1>2, PolicyFind
<1> QED
  BY <1>1, <1>2, PolicyAnswers, PolicyMatch, PolicyOn, PolicyPermit, PolicySet, PolicyRemove,
     PolicyApart, PolicyFree, PolicyAbort DEF Work

\* Whatever any number of workers create, replace, remove and free meanwhile, a
\* request does only what its account permitted, as that was when it was looked
\* up or when it was removed; and what it is answered is true, unless its account
\* was removed meanwhile.
THEOREM RequestsFollowPolicy == Spec => ImplementsPolicy
  BY Inductive, PolicyInit, PolicyNext, PTL DEF Spec, ImplementsPolicy, Policy!Spec
=============================================================================
