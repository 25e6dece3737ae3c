---------------------------- MODULE UserDB_proofs ----------------------------
(***************************************************************************)
(* Theorems about UserDB, for every set of workers and names and every     *)
(* number of failing system calls.                                         *)
(***************************************************************************)
EXTENDS UserDB, SequenceTheorems, FiniteSetTheorems, WellFoundedInduction, TLAPS
-----------------------------------------------------------------------------
(***************************************************************************)
(* The images of a table.                                                  *)
(***************************************************************************)

\* A nonempty set of numbers up to n has a largest element.
LEMMA Largest ==
    ASSUME NEW n \in Nat, NEW S, S # {}, S \subseteq 0..n
    PROVE  \E m \in S : \A i \in S : i <= m
<1> DEFINE T == {k \in 0..n : n - k \in S}
<1>1. \A i \in S : i \in 0..n /\ n - i \in T
  OBVIOUS
<1>2. T \subseteq Nat
  OBVIOUS
<1> HIDE DEF T
<1>3. T # {}
  BY <1>1
<1>4. PICK x \in T : \A y \in T : ~ (<<y, x>> \in OpToRel(<, Nat))
  BY <1>2, <1>3, WFMin, NatLessThanWellFounded
<1>5. \A y \in T : x <= y
  <2> TAKE y \in T
  <2>1. <<y, x>> \in Nat \X Nat /\ ~ (y < x)
    BY <1>2, <1>4 DEF OpToRel
  <2> QED
    BY <2>1
<1>6. n - x \in S /\ x \in 0..n
  BY DEF T
<1>7. \A i \in S : i <= n - x
  BY <1>1, <1>5, <1>6
<1> QED
  BY <1>6, <1>7

\* There are as many lines as accounts.
LEMMA LinesCardinality ==
    ASSUME NEW t \in Accounts
    PROVE  /\ IsFiniteSet(Lines(t))
           /\ Cardinality(Lines(t)) = Cardinality(DOMAIN t)
           /\ IsFiniteSet(DOMAIN t)
           /\ Lines(t) \subseteq Line
<1>1. DOMAIN t \subseteq Names /\ t \in [DOMAIN t -> Perms]
  BY DEF Accounts
<1>2. IsFiniteSet(DOMAIN t)
  BY <1>1, FS_Subset, UserDBAssumption
<1> DEFINE f == [n \in DOMAIN t |-> [name |-> n, perm |-> t[n]]]
<1>3. f \in Bijection(DOMAIN t, Lines(t))
  <2>1. f \in [DOMAIN t -> Lines(t)]
    BY DEF Lines
  <2>2. \A a, b \in DOMAIN t : f[a] = f[b] => a = b
    <3> TAKE a, b \in DOMAIN t
    <3> HAVE f[a] = f[b]
    <3>1. f[a].name = a /\ f[b].name = b
      OBVIOUS
    <3> QED
      BY <3>1
  <2>3. \A l \in Lines(t) : \E n \in DOMAIN t : f[n] = l
    BY DEF Lines
  <2>4. f \in Injection(DOMAIN t, Lines(t))
    BY <2>1, <2>2 DEF Injection, IsInjective
  <2>5. f \in Surjection(DOMAIN t, Lines(t))
    BY <2>1, <2>3 DEF Surjection
  <2> QED
    BY <2>4, <2>5 DEF Bijection
<1>4. ExistsBijection(DOMAIN t, Lines(t))
  BY <1>3 DEF ExistsBijection
<1>5. Lines(t) \subseteq Line
  BY <1>1 DEF Lines, Line
<1> QED
  BY <1>2, <1>4, <1>5, FS_Bijection

\* An image is the magic token and every line once.
LEMMA ImageProperties ==
    ASSUME NEW t \in Accounts, NEW file \in Images(t)
    PROVE  /\ file \in Seq(Token)
           /\ Len(file) = 1 + Cardinality(DOMAIN t)
           /\ Cardinality(DOMAIN t) \in Nat
           /\ file[1] = Magic
           /\ \A i \in 2..Len(file) : file[i] \in Lines(t)
           /\ \A i, j \in 2..Len(file) : file[i] = file[j] => i = j
           /\ \A l \in Lines(t) : \E i \in 2..Len(file) : file[i] = l
<1> DEFINE n == Cardinality(Lines(t))
<1>1. /\ IsFiniteSet(Lines(t)) /\ n \in Nat /\ n = Cardinality(DOMAIN t)
      /\ Lines(t) \subseteq Line
  BY LinesCardinality, FS_CardinalityType
<1>2. PICK s \in SetToSeqs(Lines(t)) : file = <<Magic>> \o s
  BY DEF Images
<1>3. /\ s \in [1..n -> Lines(t)]
      /\ \A i, j \in 1..n : i # j => s[i] # s[j]
  BY <1>2 DEF SetToSeqs
<1> HIDE DEF n
<1>4. \A l \in Lines(t) : \E i \in 1..n : s[i] = l
  <2>1. s \in Injection(1..n, Lines(t))
    BY <1>3 DEF Injection, IsInjective
  <2>2. IsFiniteSet(1..n) /\ Cardinality(1..n) = n
    BY <1>1, FS_Interval
  <2>3. s \in Surjection(1..n, Lines(t))
    BY <1>1, <2>1, <2>2, FS_Injection DEF n
  <2> QED
    BY <2>3 DEF Surjection
<1>5. s \in Seq(Token) /\ Len(s) = n /\ <<Magic>> \in Seq(Token)
  <2>1. Lines(t) \subseteq Token /\ Magic \in Token
    BY <1>1 DEF Token
  <2> QED
    BY <1>1, <1>3, <2>1
<1>6. /\ file \in Seq(Token)
      /\ Len(file) = 1 + n
      /\ file[1] = Magic
      /\ \A i \in 2..Len(file) : i - 1 \in 1..n /\ file[i] = s[i - 1]
  BY <1>1, <1>2, <1>5, ConcatProperties
<1>7. \A l \in Lines(t) : \E i \in 2..Len(file) : file[i] = l
  <2> TAKE l \in Lines(t)
  <2>1. PICK i \in 1..n : s[i] = l
    BY <1>4
  <2>2. i + 1 \in 2..Len(file) /\ file[i + 1] = l
    BY <1>1, <1>6, <2>1
  <2> QED
    BY <2>2
<1>8. \A i \in 2..Len(file) : file[i] \in Lines(t)
  BY <1>3, <1>6
<1>9. \A i, j \in 2..Len(file) : file[i] = file[j] => i = j
  BY <1>1, <1>3, <1>6
<1> QED
  BY <1>1, <1>6, <1>7, <1>8, <1>9

\* What db_update_db serialises, populate_htable reads back.
LEMMA ImageLoads ==
    ASSUME NEW t \in Accounts, NEW file \in Images(t),
           DOMAIN t \cap Separators = {}
    PROVE  Parsable(file) /\ Loaded(file) = t
<1>1. /\ t \in [DOMAIN t -> Perms] /\ DOMAIN t \subseteq Names
      /\ Lines(t) \subseteq Line
  BY LinesCardinality DEF Accounts
<1>2. Scanned(file) = 2..Len(file)
  BY <1>1, ImageProperties, UserDBAssumption DEF Scanned
<1>3. \A i \in Scanned(file) : /\ file[i] \in Line
                               /\ file[i].name \in DOMAIN t
                               /\ file[i].perm = t[file[i].name]
                               /\ file[i] = [name |-> file[i].name, perm |-> t[file[i].name]]
  BY <1>1, <1>2, ImageProperties DEF Lines
<1>4. \A i \in Scanned(file) : ReadAs(file[i]) = {file[i]}
  BY <1>3 DEF ReadAs
<1>5. Parsable(file)
  <2>1. file # <<>> /\ file[1] = Magic
    BY ImageProperties
  <2> QED
    BY <1>3, <1>4, <2>1 DEF Parsable
<1>6. \A i, j \in Scanned(file) : file[i].name = file[j].name => i = j
  <2> TAKE i, j \in Scanned(file)
  <2> HAVE file[i].name = file[j].name
  <2>1. file[i] = file[j]
    BY <1>3
  <2> QED
    BY <1>2, <2>1, ImageProperties
<1> DEFINE found == UNION {ReadAs(file[i]) : i \in Scanned(file)}
           at(u) == {i \in Scanned(file) : \E l \in ReadAs(file[i]) : l.name = u}
           last(u) == CHOOSE i \in at(u) : \A j \in at(u) : j <= i
           lineOf(u) == CHOOSE l \in ReadAs(file[last(u)]) : l.name = u
<1>7. {l.name : l \in found} = DOMAIN t
  <2>1. \A l : l \in found <=> \E i \in Scanned(file) : l = file[i]
    BY <1>4
  <2>2. ASSUME NEW u \in DOMAIN t
        PROVE  u \in {l.name : l \in found}
    <3>1. [name |-> u, perm |-> t[u]] \in Lines(t)
      BY DEF Lines
    <3>2. PICK i \in Scanned(file) : file[i] = [name |-> u, perm |-> t[u]]
      BY <1>2, <3>1, ImageProperties
    <3>3. file[i] \in found /\ file[i].name = u
      BY <2>1, <3>2
    <3> HIDE DEF found
    <3> QED
      BY <3>3
  <2>3. \A l \in found : l.name \in DOMAIN t
    BY <1>3, <2>1
  <2> HIDE DEF found
  <2> QED
    BY <2>2, <2>3
<1>8. ASSUME NEW u \in DOMAIN t
      PROVE  lineOf(u).perm = t[u]
  <2>1. [name |-> u, perm |-> t[u]] \in Lines(t)
    BY DEF Lines
  <2>2. PICK i \in Scanned(file) : file[i] = [name |-> u, perm |-> t[u]]
    BY <1>2, <2>1, ImageProperties
  <2>3. file[i].name = u /\ file[i].perm = t[u] /\ i \in Int
    BY <1>2, <2>2
  <2>4. at(u) = {i}
    <3>1. \A j \in Scanned(file) : j \in at(u) <=> file[j].name = u
      BY <1>4
    <3>2. at(u) \subseteq Scanned(file)
      OBVIOUS
    <3> HIDE DEF at
    <3> QED
      BY <1>6, <2>3, <3>1, <3>2
  <2>5. last(u) = i
    <3> HIDE DEF at
    <3> QED
      BY <2>3, <2>4
  <2> HIDE DEF last
  <2>6. ReadAs(file[last(u)]) = {file[i]}
    BY <1>4, <2>5
  <2>7. lineOf(u) = file[i]
    BY <2>3, <2>6
  <2> QED
    BY <2>3, <2>7
<1>9. Loaded(file) = [u \in {l.name : l \in found} |-> lineOf(u).perm]
  BY DEF Loaded
<1> HIDE DEF found, lineOf
<1>10. Loaded(file) = t
  BY <1>1, <1>7, <1>8, <1>9
<1> QED
  BY <1>5, <1>10

-----------------------------------------------------------------------------
(***************************************************************************)
(* Types.                                                                  *)
(***************************************************************************)

\* The tables a change of the accounts can give are tables.
LEMMA AccountsClosed ==
    /\ <<>> \in Accounts
    /\ DefaultAccounts \in Accounts
    /\ \A t \in Accounts, u \in Names, p \in Perms :
         /\ WithUser(t, u, p) \in Accounts
         /\ WithoutUser(t, u) \in Accounts
<1>1. <<>> \in [{} -> Perms]
  <2>1. <<>> \in [1..0 -> Perms]
    BY EmptySeq, LenProperties
  <2> QED
    BY <2>1
<1>2. DefaultAccounts \in [{DefaultUser} -> Perms]
  BY UserDBAssumption DEF DefaultAccounts
<1>3. ASSUME NEW t \in Accounts, NEW u \in Names, NEW p \in Perms
      PROVE  /\ WithUser(t, u, p) \in Accounts
             /\ WithoutUser(t, u) \in Accounts
  <2>1. DOMAIN t \in SUBSET Names /\ t \in [DOMAIN t -> Perms]
    BY DEF Accounts
  <2>2. WithUser(t, u, p) \in [DOMAIN t \cup {u} -> Perms]
    BY <2>1 DEF WithUser
  <2>3. WithoutUser(t, u) \in [DOMAIN t \ {u} -> Perms]
    BY <2>1 DEF WithoutUser
  <2> QED
    BY <2>1, <2>2, <2>3 DEF Accounts
<1> QED
  BY <1>1, <1>2, <1>3, UserDBAssumption DEF Accounts

\* A file that parses gives a table.
LEMMA LoadedType ==
    ASSUME NEW file \in Seq(Token), Parsable(file)
    PROVE  Loaded(file) \in Accounts
<1> DEFINE found == UNION {ReadAs(file[i]) : i \in Scanned(file)}
           D == {l.name : l \in found}
           at(u) == {i \in Scanned(file) : \E l \in ReadAs(file[i]) : l.name = u}
           last(u) == CHOOSE i \in at(u) : \A j \in at(u) : j <= i
           lineOf(u) == CHOOSE l \in ReadAs(file[last(u)]) : l.name = u
<1>1. \A i \in Scanned(file) : ReadAs(file[i]) \subseteq Line
  <2>1. \A i \in Scanned(file) : file[i] \in Line
    BY DEF Parsable
  <2> QED
    BY <2>1, UserDBAssumption DEF ReadAs
<1>2. ASSUME NEW u \in D
      PROVE  lineOf(u) \in Line
  <2>1. at(u) # {} /\ at(u) \subseteq 0..Len(file) /\ Len(file) \in Nat
    BY DEF Scanned
  <2>2. PICK m \in at(u) : \A i \in at(u) : i <= m
    <3> HIDE DEF at
    <3> QED
      BY <2>1, Largest
  <2>3. last(u) \in at(u)
    <3> HIDE DEF at
    <3> QED
      BY <2>2
  <2>4. last(u) \in Scanned(file) /\ \E l \in ReadAs(file[last(u)]) : l.name = u
    BY <2>3
  <2> HIDE DEF last
  <2> QED
    BY <1>1, <2>4
<1>3. Loaded(file) = [u \in D |-> lineOf(u).perm]
  BY DEF Loaded
<1>4. D \subseteq Names
  BY <1>1 DEF Line
<1> HIDE DEF D, lineOf
<1>5. \A u \in D : lineOf(u).perm \in Perms
  BY <1>2 DEF Line
<1>6. Loaded(file) \in [D -> Perms]
  BY <1>3, <1>5
<1> QED
  BY <1>4, <1>6 DEF Accounts

\* Writing over a file, padding an image and reading a prefix give contents.
LEMMA ContentsClosed ==
    /\ \A f \in Seq(Token), c \in Seq(Token) : Overwrite(f, c) \in Seq(Token)
    /\ \A c \in Seq(Token), n \in Nat : n >= Len(c) => Padded(c, n) \in Seq(Token)
    /\ \A f \in Seq(Token), n \in Nat : n <= Len(f) => SubSeq(f, 1, n) \in Seq(Token)
<1>1. ASSUME NEW f \in Seq(Token), NEW c \in Seq(Token)
      PROVE  Overwrite(f, c) \in Seq(Token)
  <2>1. SubSeq(f, Len(c) + 1, Len(f)) \in Seq(Token)
    <3>1. \A i \in (Len(c) + 1)..Len(f) : f[i] \in Token
      BY ElementOfSeq
    <3> QED
      BY <3>1, SubSeqProperties
  <2> QED
    BY <2>1, ConcatProperties DEF Overwrite
<1>2. ASSUME NEW c \in Seq(Token), NEW n \in Nat, n >= Len(c)
      PROVE  Padded(c, n) \in Seq(Token)
  <2>1. [i \in 1..(n - Len(c)) |-> Nul] \in Seq(Token)
    BY <1>2 DEF Token
  <2> QED
    BY <2>1, ConcatProperties DEF Padded
<1>3. ASSUME NEW f \in Seq(Token), NEW n \in Nat, n <= Len(f)
      PROVE  SubSeq(f, 1, n) \in Seq(Token)
  <2>1. \A i \in 1..n : f[i] \in Token
    BY <1>3, ElementOfSeq
  <2> QED
    BY <2>1, SubSeqProperties
<1> QED
  BY <1>1, <1>2, <1>3

-----------------------------------------------------------------------------
(***************************************************************************)
(* Type correctness.  Control says when the database file exists, which    *)
(* the steps that read it need.                                            *)
(***************************************************************************)

TypeInv == TypeOK /\ Control

Files == dbFile \in Seq(Token) \cup {Missing} /\ hashFile \in Seq(Seq(Token)) \cup {Missing}

\* Whatever ends the process leaves a state of the right type.
LEMMA ProcessEndsType ==
    ASSUME TypeInv, NEW how \in Stops, ProcessEnds(how), Files',
           faults' \in 0..MaxFaults, UNCHANGED acked
    PROVE  TypeInv'
<1>1. TypeOK'
  BY AccountsClosed, EmptySeq, UserDBAssumption
  DEF TypeInv, TypeOK, ProcessEnds, Files, NoJob, Phases, PCs, RetCodes
<1>2. Control'
  BY DEF Control, ProcessEnds, Quiescent, Actors
<1> QED
  BY <1>1, <1>2 DEF TypeInv

\* So does the end of an update, whoever made it.
LEMMA EndUpdateType ==
    ASSUME TypeInv, NEW a \in Actors, NEW ok \in BOOLEAN, EndUpdate(a, ok), Files',
           pc[a] \in Writing, dbFile' # Missing \/ (~ok /\ dbFile' = dbFile),
           faults' \in 0..MaxFaults
    PROVE  TypeInv'
<1>1. CASE a \in Workers /\ a # Main
  <2>1. /\ pc' = [pc EXCEPT ![a] = "idle"]
        /\ out' = [out EXCEPT ![a] = <<>>]
        /\ ret' = [ret EXCEPT ![a] = "OP_SUCCESS"]
        /\ acked' = table
        /\ UNCHANGED <<phase, table, job, need, stop>>
    BY <1>1 DEF EndUpdate
  <2>2. TypeOK'
    BY <1>1, <2>1, EmptySeq DEF TypeInv, TypeOK, PCs, RetCodes, Files
  <2>3. Control'
    BY <1>1, <2>1 DEF TypeInv, TypeOK, Control, Quiescent, Serving, Writing, Actors
  <2> QED
    BY <2>2, <2>3 DEF TypeInv
<1>2. CASE a = Main /\ phase = "booting" /\ ok
  <2>1. /\ pc' = [pc EXCEPT ![a] = "load"]
        /\ out' = [out EXCEPT ![a] = <<>>]
        /\ UNCHANGED <<phase, table, job, need, ret, stop, acked>>
    BY <1>2, UserDBAssumption DEF EndUpdate
  <2>2. TypeOK'
    BY <1>2, <2>1, EmptySeq DEF TypeInv, TypeOK, PCs, Files
  <2>3. Control'
    BY <1>2, <2>1, UserDBAssumption
    DEF TypeInv, TypeOK, Control, Quiescent, Serving, Writing, Actors
  <2> QED
    BY <2>2, <2>3 DEF TypeInv
<1>3. CASE a = Main /\ ~(phase = "booting" /\ ok)
  <2>1. UNCHANGED acked /\ \E how \in Stops : ProcessEnds(how)
    BY <1>3, UserDBAssumption DEF EndUpdate, Stops
  <2>2. TypeOK'
    BY <2>1, AccountsClosed, EmptySeq, UserDBAssumption
    DEF TypeInv, TypeOK, ProcessEnds, Files, NoJob, Phases, PCs, RetCodes
  <2>3. Control'
    BY <2>1 DEF Control, ProcessEnds, Quiescent, Actors
  <2> QED
    BY <2>2, <2>3 DEF TypeInv
<1> QED
  BY <1>1, <1>2, <1>3, UserDBAssumption DEF Actors

\* Every step keeps the types and the control structure.
LEMMA TypeStep == TypeInv /\ [Next]_vars => TypeInv'
<1> SUFFICES ASSUME TypeInv, [Next]_vars
             PROVE  TypeInv'
  OBVIOUS
<1> USE DEF TypeInv
<1>1. ASSUME NEW w \in Workers, NEW u \in Names,
             RejectNewUser(w, u) \/ RejectRemoval(w, u)
      PROVE  TypeInv'
  <2>1. /\ ret' \in [Workers -> RetCodes]
        /\ UNCHANGED <<phase, table, dbFile, hashFile, pc, job, need, out, faults, acked, stop>>
    BY <1>1 DEF RejectNewUser, RejectRemoval, files, locals, history, TypeOK, RetCodes
  <2> QED
    BY <2>1 DEF TypeOK, Control, Quiescent, Serving
<1>2. ASSUME NEW w \in Workers, NEW u \in Names, RemoveUser(w, u)
      PROVE  TypeInv'
  <2>1. /\ pc' = [pc EXCEPT ![w] = "count"]
        /\ ret' = [ret EXCEPT ![w] = "NONE"]
        /\ table' = WithoutUser(table, u)
        /\ Serving
        /\ UNCHANGED <<phase, dbFile, hashFile, job, need, out, faults, acked, stop>>
    BY <1>2 DEF RemoveUser, Goto, files, locals, history
  <2>2. WithoutUser(table, u) \in Accounts
    BY AccountsClosed, UserDBAssumption DEF TypeOK
  <2> QED
    BY <2>1, <2>2, UserDBAssumption DEF TypeOK, Control, Quiescent, Serving, Actors, PCs, RetCodes
<1>3. ASSUME NEW w \in Workers, NEW u \in Names, NEW p \in Perms, CheckNewUser(w, u, p)
      PROVE  TypeInv'
  <2>1. /\ pc' = [pc EXCEPT ![w] = "set"]
        /\ ret' = [ret EXCEPT ![w] = "NONE"]
        /\ job' = [job EXCEPT ![w] = [user |-> u, perm |-> p]]
        /\ Serving
        /\ UNCHANGED <<phase, table, dbFile, hashFile, need, out, faults, acked, stop>>
    BY <1>3 DEF CheckNewUser, Goto, files, locals, history
  <2> QED
    BY <2>1, UserDBAssumption DEF TypeOK, Control, Quiescent, Serving, Actors, PCs, RetCodes
<1>4. ASSUME NEW w \in Workers, SetUser(w)
      PROVE  TypeInv'
  <2>1. /\ pc[w] = "set"
        /\ pc' = [pc EXCEPT ![w] = "count"]
        /\ job' = [job EXCEPT ![w] = NoJob]
        /\ table' = WithUser(table, job[w].user, job[w].perm)
        /\ UNCHANGED <<phase, dbFile, hashFile, need, out, ret, faults, acked, stop>>
    BY <1>4 DEF SetUser, Goto, files, locals, history
  <2>2. WithUser(table, job[w].user, job[w].perm) \in Accounts
    BY AccountsClosed DEF TypeOK, Actors
  <2> QED
    BY <2>1, <2>2, UserDBAssumption
    DEF TypeOK, Control, Quiescent, Serving, Actors, PCs, NoJob
<1>5. ASSUME NEW a \in Actors, CountBytes(a)
      PROVE  TypeInv'
  <2>1. Cardinality(DOMAIN table) \in Nat
    BY LinesCardinality, FS_CardinalityType DEF TypeOK
  <2> QED
    BY <1>5, <2>1, UserDBAssumption
    DEF CountBytes, Goto, files, history, TypeOK, Control, Quiescent, Serving, Actors, PCs, Writing
<1>6. ASSUME NEW a \in Actors, Serialise(a)
      PROVE  TypeInv'
  <2>0. Cardinality(DOMAIN table) \in Nat /\ need[a] \in Nat
    BY LinesCardinality, FS_CardinalityType DEF TypeOK
  <2>1. CASE 1 + Cardinality(DOMAIN table) <= need[a]
    <3>1. PICK image \in Images(table) :
            /\ pc[a] = "serialise"
            /\ pc' = [pc EXCEPT ![a] = "open_db"]
            /\ out' = [out EXCEPT ![a] = Padded(image, need[a])]
            /\ need' = [need EXCEPT ![a] = 0]
            /\ UNCHANGED <<phase, table, dbFile, hashFile, job, ret, faults, acked, stop>>
      BY <1>6, <2>0, <2>1 DEF Serialise, files
    <3>2. Padded(image, need[a]) \in Seq(Token)
      BY <2>1, <3>1, ImageProperties, ContentsClosed DEF TypeOK
    <3> QED
      BY <3>1, <3>2, UserDBAssumption
      DEF TypeOK, Control, Quiescent, Serving, Actors, PCs, Writing
  <2>2. CASE ~(1 + Cardinality(DOMAIN table) <= need[a])
    <3>1. ProcessEnds("aborted") /\ UNCHANGED <<dbFile, hashFile, faults, acked>>
      BY <1>6, <2>2 DEF Serialise, files
    <3> QED
      BY <3>1, ProcessEndsType DEF TypeOK, Files, Stops
  <2> QED
    BY <2>1, <2>2
<1>7. ASSUME NEW a \in Actors, OpenDb(a)
      PROVE  TypeInv'
  <2>1. <<>> \in Seq(Token) /\ <<>> # Missing
    BY EmptySeq, UserDBAssumption
  <2> QED
    BY <1>7, <2>1, UserDBAssumption
    DEF OpenDb, Goto, locals, history, TypeOK, Control, Quiescent, Serving, Actors, PCs, Writing
<1>8. ASSUME NEW a \in Actors, WriteDb(a)
      PROVE  TypeInv'
  <2>1. dbFile \in Seq(Token)
    BY <1>8, UserDBAssumption
    DEF WriteDb, Goto, TypeOK, Control, Quiescent, Serving, Actors
  <2>2. Overwrite(dbFile, out[a]) \in Seq(Token) /\ Overwrite(dbFile, out[a]) # Missing
    BY <2>1, ContentsClosed, UserDBAssumption DEF TypeOK
  <2> QED
    BY <1>8, <2>2, EmptySeq, UserDBAssumption
    DEF WriteDb, Goto, history, TypeOK, Control, Quiescent, Serving, Actors, PCs, Writing
<1>9. ASSUME NEW a \in Actors, MeasureDb(a)
      PROVE  TypeInv'
  <2>1. dbFile \in Seq(Token) /\ Len(dbFile) \in Nat
    BY <1>9, UserDBAssumption
    DEF MeasureDb, Goto, TypeOK, Control, Quiescent, Serving, Actors
  <2> QED
    BY <1>9, <2>1, UserDBAssumption
    DEF MeasureDb, Goto, files, history, TypeOK, Control, Quiescent, Serving, Actors, PCs, Writing
<1>10. ASSUME NEW a \in Actors, ReadDb(a)
       PROVE  TypeInv'
  <2>1. dbFile \in Seq(Token) /\ Len(dbFile) \in Nat
    BY <1>10, UserDBAssumption
    DEF ReadDb, Goto, TypeOK, Control, Quiescent, Serving, Actors
  <2>2. CASE Len(dbFile) >= need[a]
    <3>1. SubSeq(dbFile, 1, need[a]) \in Seq(Token)
      BY <2>1, <2>2, ContentsClosed DEF TypeOK
    <3>2. /\ pc[a] = "read_db"
          /\ pc' = [pc EXCEPT ![a] = "open_hash"]
          /\ out' = [out EXCEPT ![a] = SubSeq(dbFile, 1, need[a])]
          /\ need' = [need EXCEPT ![a] = 0]
          /\ UNCHANGED <<phase, table, dbFile, hashFile, job, ret, faults, acked, stop>>
      BY <1>10, <2>1, <2>2 DEF ReadDb, files, TypeOK
    <3> QED
      BY <3>1, <3>2, UserDBAssumption
      DEF TypeOK, Control, Quiescent, Serving, Actors, PCs, Writing
  <2>3. CASE ~(Len(dbFile) >= need[a])
    <3>1. ProcessEnds("aborted") /\ UNCHANGED <<dbFile, hashFile, faults, acked>>
      BY <1>10, <2>3 DEF ReadDb, files
    <3> QED
      BY <3>1, ProcessEndsType DEF TypeOK, Files, Stops
  <2> QED
    BY <2>2, <2>3
<1>11. ASSUME NEW a \in Actors, OpenHash(a)
       PROVE  TypeInv'
  <2>1. <<>> \in Seq(Seq(Token))
    BY EmptySeq
  <2> QED
    BY <1>11, <2>1, UserDBAssumption
    DEF OpenHash, Goto, locals, history, TypeOK, Control, Quiescent, Serving, Actors, PCs, Writing
<1>12. ASSUME NEW a \in Actors, WriteHash(a)
       PROVE  TypeInv'
  <2>1. <<out[a]>> \in Seq(Seq(Token))
    BY DEF TypeOK
  <2>2. dbFile' = dbFile /\ dbFile # Missing
    BY <1>12, UserDBAssumption
    DEF WriteHash, TypeOK, Control, Quiescent, Serving, Actors
  <2> QED
    BY <1>12, <2>1, <2>2, EndUpdateType DEF WriteHash, TypeOK, Files, Writing
<1>13. ASSUME NEW a \in Actors, OpenFails(a)
       PROVE  TypeInv'
  <2>1. faults' \in 0..MaxFaults /\ UNCHANGED <<dbFile, hashFile>>
    BY <1>13, UserDBAssumption DEF OpenFails, files, TypeOK
  <2>2. CASE pc[a] # "open_hash"
    BY <1>13, <2>1, <2>2, EndUpdateType DEF OpenFails, TypeOK, Files, Writing
  <2>3. CASE pc[a] = "open_hash"
    <3>1. ProcessEnds("aborted") /\ UNCHANGED acked
      BY <1>13, <2>3 DEF OpenFails
    <3> QED
      BY <2>1, <3>1, ProcessEndsType DEF TypeOK, Files, Stops
  <2> QED
    BY <2>2, <2>3
<1>14. ASSUME NEW a \in Actors, WriteLost(a)
       PROVE  TypeInv'
  <2>1. faults' \in 0..MaxFaults /\ UNCHANGED <<dbFile, hashFile>>
    BY <1>14, UserDBAssumption DEF WriteLost, files, TypeOK
  <2>2. CASE pc[a] = "write_db"
    <3>1. /\ pc' = [pc EXCEPT ![a] = "measure_db"]
          /\ out' = [out EXCEPT ![a] = <<>>]
          /\ stop' \in Stops
          /\ UNCHANGED <<phase, table, job, need, ret, acked>>
      BY <1>14, <2>2 DEF WriteLost, Goto, TypeOK, Stops
    <3>2. <<>> \in Seq(Token)
      BY EmptySeq
    <3>3. TypeOK'
      BY <2>1, <3>1, <3>2 DEF TypeOK, PCs
    <3>4. Control'
      BY <2>1, <2>2, <3>1, UserDBAssumption
      DEF TypeOK, Control, Quiescent, Serving, Actors, Writing
    <3> QED
      BY <3>3, <3>4
  <2>3. CASE pc[a] = "write_hash"
    <3>1. dbFile # Missing
      BY <2>3, UserDBAssumption DEF TypeOK, Control, Quiescent, Serving, Actors
    <3> QED
      BY <1>14, <2>1, <2>3, <3>1, EndUpdateType DEF WriteLost, Goto, TypeOK, Files, Writing
  <2> QED
    BY <1>14, <2>2, <2>3 DEF WriteLost, Goto
<1>15. CASE Boot
  <2>1. \A image \in Images(DefaultAccounts) : image \in Seq(Token)
    BY AccountsClosed, ImageProperties
  <2> QED
    BY <1>15, <2>1, UserDBAssumption
    DEF Boot, files, TypeOK, Control, Quiescent, Serving, Actors, PCs, Writing, Phases, Stops
<1>16. CASE Load
  <2>1. dbFile \in Seq(Token)
    BY <1>16 DEF Load, TypeOK, Control
  <2>2. CASE hashFile = <<dbFile>> /\ Parsable(dbFile)
    <3>1. Loaded(dbFile) \in Accounts
      BY <2>1, <2>2, LoadedType
    <3> QED
      BY <1>16, <2>1, <2>2, <3>1, UserDBAssumption
      DEF Load, files, locals, TypeOK, Control, Quiescent, Serving, Actors, PCs, Phases
  <2>3. CASE ~(hashFile = <<dbFile>> /\ Parsable(dbFile))
    <3>1. ProcessEnds("refused") /\ UNCHANGED <<dbFile, hashFile, faults, acked>>
      BY <1>16, <2>3 DEF Load, files
    <3> QED
      BY <3>1, ProcessEndsType DEF TypeOK, Files, Stops
  <2> QED
    BY <2>2, <2>3
<1>17. CASE Interrupt
  BY <1>17 DEF Interrupt, files, locals, history, TypeOK, Control, Quiescent, Serving, Phases
<1>18. CASE Save
  BY <1>18, UserDBAssumption
  DEF Save, files, locals, history, TypeOK, Control, Quiescent, Serving, Actors, PCs, Phases, Writing
<1>19. CASE Crash
  BY <1>19, ProcessEndsType DEF Crash, files, TypeOK, Files, Stops
<1>20. CASE StartOver
  BY <1>20 DEF StartOver, locals, history, TypeOK, Control, Quiescent, Serving
<1>21. CASE UNCHANGED vars
  BY <1>21 DEF vars, files, locals, history, TypeOK, Control, Quiescent, Serving
<1> QED
  BY <1>1, <1>2, <1>3, <1>4, <1>5, <1>6, <1>7, <1>8, <1>9, <1>10, <1>11, <1>12, <1>13,
     <1>14, <1>15, <1>16, <1>17, <1>18, <1>19, <1>20, <1>21
  DEF Next, Request, Update

\* The initial state has the types and the control structure.
LEMMA TypeInit == Init => TypeInv
BY EmptySeq, AccountsClosed, UserDBAssumption
DEF Init, TypeInv, TypeOK, Control, Quiescent, Serving, Phases, PCs, RetCodes, Stops, NoJob, Actors

\* So every state of every behaviour has them.
LEMMA TypeInvariance == Spec => []TypeInv
<1>1. Init => TypeInv
  BY TypeInit
<1>2. TypeInv /\ [Next]_vars => TypeInv'
  BY TypeStep
<1> QED
  BY <1>1, <1>2, PTL DEF Spec

\* Every variable of UserDB keeps its type.
THEOREM TypeCorrect == Spec => []TypeOK
<1>1. TypeInv => TypeOK
  BY DEF TypeInv
<1> QED
  BY <1>1, TypeInvariance, PTL

-----------------------------------------------------------------------------
(***************************************************************************)
(* An update that runs alone.                                              *)
(***************************************************************************)

\* A buffer of the right size is the image; an image written into an empty
\* file is the file; a file read to its end is the file.
LEMMA AloneContents ==
    /\ \A c \in Seq(Token) : Padded(c, Len(c)) = c
    /\ \A c \in Seq(Token) : Overwrite(<<>>, c) = c
    /\ \A c \in Seq(Token) : SubSeq(c, 1, Len(c)) = c
<1>1. ASSUME NEW c \in Seq(Token)
      PROVE  Padded(c, Len(c)) = c
  <2>1. [k \in 1..(Len(c) - Len(c)) |-> Nul] = <<>>
    <3>1. Len(c) \in Nat /\ Len(c) - Len(c) = 0
      OBVIOUS
    <3>2. [k \in 1..0 |-> Nul] = <<>>
      OBVIOUS
    <3> QED
      BY <3>1, <3>2
  <2> QED
    BY <2>1, ConcatEmptySeq DEF Padded
<1>2. ASSUME NEW c \in Seq(Token)
      PROVE  Overwrite(<<>>, c) = c
  <2>1. SubSeq(<<>>, Len(c) + 1, Len(<<>>)) = <<>>
    BY SubSeqEmpty, EmptySeq
  <2> QED
    BY <2>1, ConcatEmptySeq DEF Overwrite
<1> QED
  BY <1>1, <1>2, SubSeqFull

\* As long as nothing else touches the table or the files, each step of
\* db_update_db and update_db_hash leaves the thread's update in step.
LEMMA InStepUpdate ==
    ASSUME TypeInv, NEW a \in Actors, NEW i \in BOOLEAN, InStep(a, i),
           phase \in {"up", "draining", "saving"},
           \/ CountBytes(a) \/ Serialise(a) \/ OpenDb(a) \/ WriteDb(a)
           \/ MeasureDb(a) \/ ReadDb(a) \/ OpenHash(a)
    PROVE  /\ InStep(a, i)'
           /\ pc'[a] \notin {"idle", "set", "load"}
           /\ \A b \in Actors \ {a} : pc'[b] = pc[b]
           /\ UNCHANGED <<phase, table, faults, acked, stop, job, ret>>
<1>1. TypeOK /\ Control /\ dbFile # Missing
  BY DEF TypeInv, Control
<1>2. CASE CountBytes(a)
  BY <1>1, <1>2 DEF CountBytes, Goto, files, history, TypeOK, InStep
<1>3. CASE Serialise(a)
  <2>0. Cardinality(DOMAIN table) \in Nat /\ pc[a] = "serialise"
    BY <1>1, <1>3, LinesCardinality, FS_CardinalityType DEF TypeOK, Serialise
  <2>1. PICK image \in Images(table) :
          /\ pc' = [pc EXCEPT ![a] = "open_db"]
          /\ out' = [out EXCEPT ![a] = Padded(image, need[a])]
          /\ UNCHANGED <<phase, table, dbFile, hashFile, job, ret, faults, acked, stop>>
    BY <1>1, <1>3, <2>0 DEF Serialise, InStep, files
  <2>2. Padded(image, need[a]) = image
    BY <1>1, <2>0, AloneContents, ImageProperties DEF InStep, TypeOK
  <2> QED
    BY <1>1, <2>1, <2>2 DEF TypeOK, InStep
<1>4. CASE OpenDb(a)
  BY <1>1, <1>4 DEF OpenDb, Goto, locals, history, TypeOK, InStep
<1>5. CASE WriteDb(a)
  <2>1. /\ pc[a] = "write_db"
        /\ pc' = [pc EXCEPT ![a] = "measure_db"]
        /\ dbFile' = Overwrite(dbFile, out[a])
        /\ UNCHANGED <<phase, table, job, ret, faults, acked, stop>>
    BY <1>5 DEF WriteDb, Goto, history
  <2>2. dbFile' \in Images(table)
    BY <1>1, <2>1, AloneContents DEF InStep, TypeOK
  <2> QED
    BY <1>1, <2>1, <2>2 DEF TypeOK, InStep
<1>6. CASE MeasureDb(a)
  BY <1>1, <1>6 DEF MeasureDb, Goto, files, history, TypeOK, InStep
<1>7. CASE ReadDb(a)
  <2>1. dbFile \in Seq(Token) /\ Len(dbFile) \in Nat /\ need[a] = Len(dbFile)
    BY <1>1, <1>7 DEF ReadDb, TypeOK, InStep
  <2>2. /\ pc[a] = "read_db"
        /\ pc' = [pc EXCEPT ![a] = "open_hash"]
        /\ out' = [out EXCEPT ![a] = SubSeq(dbFile, 1, Len(dbFile))]
        /\ UNCHANGED <<phase, table, dbFile, job, ret, faults, acked, stop>>
    BY <1>7, <2>1 DEF ReadDb, files
  <2>3. out'[a] = dbFile
    BY <1>1, <2>1, <2>2, AloneContents DEF TypeOK
  <2> QED
    BY <1>1, <2>2, <2>3 DEF TypeOK, InStep
<1>8. CASE OpenHash(a)
  BY <1>1, <1>8 DEF OpenHash, Goto, locals, history, TypeOK, InStep
<1> QED
  BY <1>2, <1>3, <1>4, <1>5, <1>6, <1>7, <1>8

-----------------------------------------------------------------------------
(***************************************************************************)
(* The save made by db_shutdown.  SaveInv: no worker runs any more, so the *)
(* main thread's update is in step with the table; the table is what the   *)
(* last answered update left.                                              *)
(***************************************************************************)

\* Before the first boot nothing has been saved or answered.
LEMMA SaveInit == Init => SaveInv
BY DEF Init, SaveInv, Serving

\* Every step keeps what db_shutdown relies on: between updates the table is
\* the one last answered, and the save is in step with table and files.
LEMMA SaveStep == TypeInv /\ SaveInv /\ [Next]_vars => SaveInv'
<1> SUFFICES ASSUME TypeInv, SaveInv, [Next]_vars
             PROVE  SaveInv'
  OBVIOUS
<1> USE UserDBAssumption
<1>0. TypeOK /\ Control
  BY DEF TypeInv
<1>1. ASSUME NEW w \in Workers, Request(w)
      PROVE  SaveInv'
  <2>1. UNCHANGED phase /\ Serving
    BY <1>0, <1>1
    DEF Request, RejectNewUser, RejectRemoval, RemoveUser, CheckNewUser, SetUser, Goto, Control, Quiescent
  <2>2. (table' = table /\ acked' = acked /\ pc' = pc) \/ pc'[w] # "idle"
    BY <1>0, <1>1
    DEF Request, RejectNewUser, RejectRemoval, RemoveUser, CheckNewUser, SetUser, Goto,
        files, locals, history, TypeOK, Actors
  <2> QED
    BY <2>1, <2>2 DEF SaveInv, Serving, Quiescent
<1>2. ASSUME NEW a \in Actors, Update(a) \/ OpenFails(a) \/ WriteLost(a), pc[a] \notin {"idle", "load"},
             a # Main
      PROVE  SaveInv'
  <2>1. a \in Workers /\ Serving
    BY <1>0, <1>2 DEF Actors, Control, Quiescent
  <2>2. CASE /\ CountBytes(a) \/ Serialise(a) \/ OpenDb(a) \/ WriteDb(a)
                \/ MeasureDb(a) \/ ReadDb(a) \/ OpenHash(a) \/ WriteLost(a)
             /\ phase' # "down" /\ pc[a] # "write_hash"
    <3>1. pc'[a] # "idle" /\ UNCHANGED phase
      BY <1>0, <2>1, <2>2
      DEF CountBytes, Serialise, OpenDb, WriteDb, MeasureDb, ReadDb, OpenHash, WriteLost,
          Goto, TypeOK, ProcessEnds
    <3> QED
      BY <2>1, <3>1 DEF SaveInv, Serving, Quiescent
  <2>3. CASE (Serialise(a) \/ ReadDb(a) \/ OpenFails(a)) /\ phase' = "down"
    <3>1. stop' = "aborted"
      BY <1>0, <2>1, <2>3, UserDBAssumption
      DEF Serialise, ReadDb, OpenFails, EndUpdate, ProcessEnds, Serving
    <3> QED
      BY <2>3, <3>1 DEF SaveInv, Serving
  <2>4. CASE \/ OpenFails(a) /\ phase' # "down"
             \/ WriteHash(a)
             \/ WriteLost(a) /\ pc[a] = "write_hash"
    <3>1. acked' = table /\ UNCHANGED <<phase, table>>
      BY <1>2, <2>1, <2>4 DEF OpenFails, WriteHash, WriteLost, EndUpdate, ProcessEnds, Goto
    <3> QED
      BY <2>1, <3>1 DEF SaveInv, Serving
  <2>5. phase' = "down" => Serialise(a) \/ ReadDb(a) \/ OpenFails(a) \/ WriteHash(a)
                           \/ (WriteLost(a) /\ pc[a] = "write_hash")
    BY <1>2, <2>1
    DEF Update, CountBytes, OpenDb, WriteDb, MeasureDb, OpenHash, WriteLost, Goto, Serving
  <2>6. pc[a] = "write_hash" => WriteHash(a) \/ WriteLost(a)
    BY <1>2
    DEF Update, CountBytes, Serialise, OpenDb, WriteDb, MeasureDb, ReadDb, OpenHash, OpenFails, Goto
  <2> QED
    BY <1>2, <2>2, <2>3, <2>4, <2>5, <2>6 DEF Update
<1>3. ASSUME Update(Main) \/ OpenFails(Main) \/ WriteLost(Main), phase = "saving"
      PROVE  SaveInv'
  <2>0. Main \in Actors /\ InStep(Main, stop = "running") /\ acked = table
    BY <1>3 DEF SaveInv, Actors
  <2>1. CASE CountBytes(Main) \/ Serialise(Main) \/ OpenDb(Main) \/ WriteDb(Main)
             \/ MeasureDb(Main) \/ ReadDb(Main) \/ OpenHash(Main)
    <3> DEFINE i == stop = "running"
    <3>1. i \in BOOLEAN
      OBVIOUS
    <3>2. InStep(Main, i)' /\ UNCHANGED <<phase, table, acked, stop>>
      <4>1. CASE stop = "running"
        <5>1. InStep(Main, TRUE)
          BY <2>0, <4>1
        <5>2. InStep(Main, TRUE)' /\ UNCHANGED <<phase, table, acked, stop>>
          BY <1>3, <2>0, <2>1, <5>1, InStepUpdate
        <5> QED
          BY <4>1, <5>2
      <4>2. CASE stop # "running"
        <5>1. InStep(Main, FALSE)
          BY <2>0, <4>2
        <5>2. InStep(Main, FALSE)' /\ UNCHANGED <<phase, table, acked, stop>>
          BY <1>3, <2>0, <2>1, <5>1, InStepUpdate
        <5> QED
          BY <4>2, <5>2
      <4> QED
        BY <4>1, <4>2
    <3> QED
      BY <1>3, <2>0, <3>2 DEF SaveInv, Serving
  <2>2. CASE WriteHash(Main)
    <3>1. /\ pc[Main] = "write_hash" /\ hashFile' = <<dbFile>> /\ dbFile' = dbFile
          /\ phase' = "down" /\ acked' = acked
          /\ stop' = IF stop = "running" THEN "clean" ELSE "faulted"
      BY <1>3, <2>0, <2>2 DEF WriteHash, EndUpdate, InStep, ProcessEnds
    <3>2. stop = "running" => dbFile \in Images(table)
      BY <2>0, <3>1 DEF InStep
    <3> QED
      BY <2>0, <3>1, <3>2 DEF SaveInv, Serving
  <2>3. CASE OpenFails(Main) \/ (WriteLost(Main) /\ pc[Main] = "write_hash")
    <3>1. phase' = "down" /\ stop' \in {"faulted", "aborted"}
      BY <1>3, <2>3 DEF OpenFails, WriteLost, EndUpdate, ProcessEnds, Goto
    <3> QED
      BY <3>1 DEF SaveInv, Serving
  <2>4. CASE WriteLost(Main) /\ pc[Main] # "write_hash"
    <3>1. /\ pc' = [pc EXCEPT ![Main] = "measure_db"]
          /\ stop' = "faulted" /\ UNCHANGED <<phase, table, acked>>
      BY <1>3, <2>4 DEF WriteLost, Goto
    <3> QED
      BY <1>0, <1>3, <2>0, <3>1 DEF SaveInv, Serving, InStep, TypeOK
  <2> QED
    BY <1>3, <2>1, <2>2, <2>3, <2>4 DEF Update
<1>4. ASSUME Update(Main) \/ OpenFails(Main) \/ WriteLost(Main), phase = "booting"
      PROVE  SaveInv'
  <2>1. phase' = "booting" \/ (phase' = "down" /\ stop' \in {"refused", "aborted"})
    BY <1>4
    DEF Update, CountBytes, Serialise, OpenDb, WriteDb, MeasureDb, ReadDb, OpenHash, WriteHash,
        OpenFails, WriteLost, EndUpdate, ProcessEnds, Goto, history
  <2> QED
    BY <2>1 DEF SaveInv, Serving
<1>5. CASE Boot
  BY <1>5 DEF Boot, files, SaveInv, Serving
<1>6. CASE Load
  BY <1>6 DEF Load, ProcessEnds, SaveInv, Serving
<1>7. CASE Interrupt
  BY <1>7 DEF Interrupt, files, locals, history, SaveInv, Serving, Quiescent
<1>8. CASE Save
  <2>1. pc'[Main] = "count" /\ phase' = "saving" /\ acked' = table'
    BY <1>0, <1>8 DEF Save, history, SaveInv, Serving, Quiescent, TypeOK, Actors
  <2> QED
    BY <2>1 DEF SaveInv, InStep
<1>9. CASE Crash
  BY <1>9 DEF Crash, ProcessEnds, SaveInv, Serving
<1>10. CASE StartOver
  BY <1>10 DEF StartOver, history, SaveInv, Serving
<1>11. CASE UNCHANGED vars
  BY <1>11 DEF vars, files, locals, history, SaveInv, Serving, Quiescent, InStep
<1>12. ASSUME NEW a \in Actors, Update(a) \/ OpenFails(a) \/ WriteLost(a)
       PROVE  pc[a] \notin {"idle", "load"}
  BY <1>12
  DEF Update, CountBytes, Serialise, OpenDb, WriteDb, MeasureDb, ReadDb, OpenHash, WriteHash,
      OpenFails, WriteLost, Goto
<1>13. pc[Main] \notin {"idle", "load"} => phase \in {"booting", "saving"}
  BY <1>0 DEF Control, TypeOK, Phases
<1> QED
  BY <1>1, <1>2, <1>3, <1>4, <1>5, <1>6, <1>7, <1>8, <1>9, <1>10, <1>11, <1>12, <1>13
  DEF Next, Actors

\* So it holds in every state.
LEMMA SaveInvariance == Spec => []SaveInv
<1>1. Init => SaveInv
  BY SaveInit
<1>2. TypeInv /\ SaveInv /\ [Next]_vars => SaveInv'
  BY SaveStep
<1> QED
  BY <1>1, <1>2, TypeInvariance, PTL DEF Spec

\* However the workers interleave, and whatever system calls fail, a graceful
\* shutdown whose own writes succeeded leaves files the server boots from, with
\* the accounts it had (db_shutdown, after thpool_wait in start_server).
THEOREM CleanStop == Spec => []CleanStopKeepsAccounts
<1>1. TypeInv /\ SaveInv => CleanStopKeepsAccounts
  <2> SUFFICES ASSUME TypeInv, SaveInv, phase = "down", stop = "clean",
                      DOMAIN acked \cap Separators = {}
               PROVE  Boots(acked)
    BY DEF CleanStopKeepsAccounts
  <2>1. hashFile = <<dbFile>> /\ dbFile \in Images(acked) /\ acked \in Accounts
    BY DEF SaveInv, TypeInv, TypeOK
  <2> QED
    BY <2>1, ImageLoads DEF Boots
<1> QED
  BY <1>1, TypeInvariance, SaveInvariance, PTL

\* A thread that takes a step of an update is in one.
LEMMA Busy ==
    ASSUME NEW a \in Actors, Update(a) \/ OpenFails(a) \/ WriteLost(a)
    PROVE  pc[a] \notin {"idle", "load"}
BY DEF Update, CountBytes, Serialise, OpenDb, WriteDb, MeasureDb, ReadDb, OpenHash, WriteHash,
       OpenFails, WriteLost, Goto

\* A thread whose update is in step neither overruns its buffer nor reads less
\* of the database file than it measured: a step of it that aborts the process
\* is the failing open of .cape.hash.
LEMMA InStepAborts ==
    ASSUME TypeInv, NEW a \in Actors, NEW i \in BOOLEAN, InStep(a, i), phase # "booting",
           Update(a) \/ OpenFails(a) \/ WriteLost(a), Aborts
    PROVE  faults' > faults
<1>1. TypeOK /\ Cardinality(DOMAIN table) \in Nat /\ faults \in Nat
  BY LinesCardinality, FS_CardinalityType, UserDBAssumption DEF TypeInv, TypeOK
<1>2. CASE OpenFails(a) \/ WriteLost(a)
  <2>1. faults' = faults + 1
    BY <1>2 DEF OpenFails, WriteLost
  <2> QED
    BY <1>1, <2>1
<1>3. ~Serialise(a)
  <2>1. pc[a] = "serialise" => 1 + Cardinality(DOMAIN table) <= need[a]
    BY <1>1 DEF InStep
  <2> QED
    BY <1>1, <2>1 DEF Serialise, Aborts, TypeOK
<1>4. ~ReadDb(a)
  <2>1. pc[a] = "read_db" => dbFile \in Seq(Token) /\ need[a] = Len(dbFile)
    BY <1>1, UserDBAssumption DEF InStep, TypeInv, Control, TypeOK, Serving, Quiescent, Actors
  <2> QED
    BY <1>1, <2>1 DEF ReadDb, Aborts, TypeOK
<1>5. ~(CountBytes(a) \/ OpenDb(a) \/ WriteDb(a) \/ MeasureDb(a) \/ OpenHash(a) \/ WriteHash(a))
  BY DEF CountBytes, OpenDb, WriteDb, MeasureDb, OpenHash, WriteHash, EndUpdate, ProcessEnds,
         history, Aborts
<1> QED
  BY <1>2, <1>3, <1>4, <1>5 DEF Update

\* However the workers' updates overlapped before, the save of db_shutdown
\* aborts only in the step of its own failing call, the .cape.hash it cannot
\* open after it has closed .cape.db (thpool_wait returned before db_shutdown).
THEOREM SaveAborts == Spec => SaveAbortsOnFault
<1>1. TypeInv /\ SaveInv /\ [Next]_vars => [(phase = "saving" /\ Aborts) => faults' > faults]_vars
  <2> SUFFICES ASSUME TypeInv, SaveInv, [Next]_vars, phase = "saving", Aborts
               PROVE  faults' > faults
    OBVIOUS
  <2>1. /\ Main \in Actors /\ InStep(Main, stop = "running") /\ (stop = "running") \in BOOLEAN
        /\ \A a \in Actors \ {Main} : pc[a] = "idle"
    BY DEF SaveInv, Actors, TypeInv, Control, Quiescent, Serving
  <2>2. PICK a \in Actors : Update(a) \/ OpenFails(a) \/ WriteLost(a)
    BY DEF Next, Request, RejectNewUser, RejectRemoval, RemoveUser, CheckNewUser, SetUser,
           Boot, Load, Interrupt, Save, Crash, StartOver, ProcessEnds, history, vars, Aborts
  <2>3. a = Main
    BY <2>1, <2>2, Busy
  <2> QED
    BY <2>1, <2>2, <2>3, InStepAborts
<1> QED
  BY <1>1, TypeInvariance, SaveInvariance, PTL DEF Spec, SaveAbortsOnFault
-----------------------------------------------------------------------------
(***************************************************************************)
(* A server with one worker.                                               *)
(***************************************************************************)

\* Of one thread there is no other.
LEMMA OnlyOne ==
    ASSUME Cardinality(Workers) = 1
    PROVE  \A v, w \in Workers : v = w
<1>1. PICK x : Workers = {x}
  BY FS_Singleton, UserDBAssumption
<1> QED
  BY <1>1

\* Between the threads of a server with one worker there is no interference:
\* LoneInv is kept by every step.
LEMMA LoneStep == TypeInv /\ LoneInv /\ [Next]_vars => LoneInv'
<1> SUFFICES ASSUME TypeInv, LoneInv, [Next]_vars
             PROVE  LoneInv'
  OBVIOUS
<1> USE UserDBAssumption
<1> DEFINE Lone == Cardinality(Workers) = 1
           Booting == (phase = "booting" /\ pc[Main] = "read_db") => need[Main] = Len(dbFile)
<1>0. /\ TypeOK /\ Control /\ Booting
      /\ Lone => (\A v, w \in Workers : v = w)
      /\ Main \in Actors /\ \A w \in Workers : w \in Actors /\ w # Main
  BY OnlyOne DEF TypeInv, LoneInv, Actors
<1>1. ASSUME NEW w \in Workers, Request(w)
      PROVE  LoneInv'
  <2>1. UNCHANGED phase /\ Serving
    BY <1>0, <1>1
    DEF Request, RejectNewUser, RejectRemoval, RemoveUser, CheckNewUser, SetUser, Goto, Control, Quiescent
  <2>2. CASE UNCHANGED <<phase, table, dbFile, hashFile, pc, need, out, faults>>
    BY <2>1, <2>2
    DEF LoneInv, InStep, LoneWorkerSavesAll, Boots, Serving, Quiescent
  <2>3. CASE pc' = [pc EXCEPT ![w] = "set"] \/ pc' = [pc EXCEPT ![w] = "count"]
    <3>1. pc'[w] \in {"set", "count"}
      BY <1>0, <2>3 DEF TypeOK
    <3> QED
      BY <1>0, <2>1, <3>1
      DEF LoneInv, InStep, LoneWorkerSavesAll, Serving, Quiescent
  <2> QED
    BY <1>1, <2>2, <2>3
    DEF Request, RejectNewUser, RejectRemoval, RemoveUser, CheckNewUser, SetUser, Goto, files, locals
<1>2. ASSUME phase' \notin {"up", "draining"}, \A w \in Workers : pc'[w] = "idle", Booting'
      PROVE  LoneInv'
  BY <1>2 DEF LoneInv, InStep, LoneWorkerSavesAll, Serving
<1>3. ASSUME NEW how, ProcessEnds(how)
      PROVE  LoneInv'
  BY <1>0, <1>2, <1>3 DEF ProcessEnds
<1>4. ASSUME NEW w \in Workers, Update(w) \/ OpenFails(w) \/ WriteLost(w), pc[w] # "idle"
      PROVE  LoneInv'
  <2>1. Serving /\ phase # "booting" /\ phase # "down"
    BY <1>0, <1>4 DEF Control, Quiescent, Serving
  <2>2. CASE ~Lone
    <3>1. phase' # "booting"
      BY <1>0, <1>4, <2>1
      DEF Update, CountBytes, Serialise, OpenDb, WriteDb, MeasureDb, ReadDb, OpenHash, WriteHash,
          OpenFails, WriteLost, EndUpdate, ProcessEnds, Goto, history, Serving
    <3> QED
      BY <2>2, <3>1 DEF LoneInv, LoneWorkerSavesAll
  <2>3. CASE /\ Lone
             /\ CountBytes(w) \/ Serialise(w) \/ OpenDb(w) \/ WriteDb(w)
                \/ MeasureDb(w) \/ ReadDb(w) \/ OpenHash(w)
    <3> DEFINE i == faults = 0
    <3>1. i \in BOOLEAN /\ InStep(w, i)
      BY <2>3 DEF LoneInv
    <3>2. /\ InStep(w, i)'
          /\ pc'[w] # "idle"
          /\ UNCHANGED <<phase, table, faults>>
      <4>1. CASE i
        <5>1. InStep(w, TRUE)
          BY <3>1, <4>1
        <5>2. InStep(w, TRUE)' /\ pc'[w] # "idle" /\ UNCHANGED <<phase, table, faults>>
          BY <1>0, <2>1, <2>3, <5>1, InStepUpdate DEF Serving
        <5> QED
          BY <4>1, <5>2
      <4>2. CASE ~i
        <5>1. InStep(w, FALSE)
          BY <3>1, <4>2
        <5>2. InStep(w, FALSE)' /\ pc'[w] # "idle" /\ UNCHANGED <<phase, table, faults>>
          BY <1>0, <2>1, <2>3, <5>1, InStepUpdate DEF Serving
        <5> QED
          BY <4>2, <5>2
      <4> QED
        BY <4>1, <4>2
    <3> HIDE DEF i
    <3>3. \A v \in Workers : v = w
      BY <1>0, <2>3
    <3> QED
      BY <2>1, <3>2, <3>3 DEF LoneInv, LoneWorkerSavesAll, Quiescent, i
  <2>4. CASE Lone /\ WriteHash(w)
    <3>1. /\ pc[w] = "write_hash" /\ hashFile' = <<out[w]>>
          /\ pc' = [pc EXCEPT ![w] = "idle"]
          /\ UNCHANGED <<phase, table, dbFile, faults>>
      BY <1>0, <2>1, <2>4 DEF WriteHash, EndUpdate
    <3>2. \A v \in Workers : v = w /\ pc'[v] = "idle"
      BY <1>0, <2>4, <3>1 DEF TypeOK
    <3>3. out[w] = dbFile /\ (faults = 0 => dbFile \in Images(table))
      BY <2>4, <3>1 DEF LoneInv, InStep
    <3>4. (faults = 0 /\ DOMAIN table \cap Separators = {}) => Boots(table)'
      BY <1>0, <3>1, <3>3, ImageLoads DEF Boots, TypeOK
    <3> QED
      BY <2>1, <3>1, <3>2, <3>4 DEF LoneInv, InStep, LoneWorkerSavesAll
  <2>5. CASE Lone /\ OpenFails(w) /\ pc[w] = "open_hash"
    BY <1>3, <2>5 DEF OpenFails
  <2>6. CASE Lone /\ ((OpenFails(w) /\ pc[w] # "open_hash") \/ WriteLost(w))
    <3>1. /\ faults' # 0 /\ phase' = phase /\ table' = table
          /\ pc' \in {[pc EXCEPT ![w] = "idle"], [pc EXCEPT ![w] = "measure_db"]}
      BY <1>0, <2>1, <2>6 DEF OpenFails, WriteLost, EndUpdate, Goto, TypeOK
    <3>2. \A v \in Workers : v = w /\ pc'[v] \in {"idle", "measure_db"}
      BY <1>0, <2>6, <3>1 DEF TypeOK
    <3> QED
      BY <2>1, <3>1, <3>2 DEF LoneInv, InStep, LoneWorkerSavesAll
  <2> QED
    BY <1>4, <2>2, <2>3, <2>4, <2>5, <2>6 DEF Update
<1>5. ASSUME Update(Main) \/ OpenFails(Main) \/ WriteLost(Main), pc[Main] # "idle"
      PROVE  LoneInv'
  <2>1. phase \notin {"up", "draining", "down"} /\ \A w \in Workers : pc[w] = "idle"
    BY <1>0, <1>5 DEF Control, Serving, Quiescent
  <2>2. CASE phase' = phase /\ \A w \in Workers : pc'[w] = pc[w]
    <3>1. Booting'
      BY <1>0, <1>5, <2>1, <2>2
      DEF Update, CountBytes, Serialise, OpenDb, WriteDb, MeasureDb, ReadDb, OpenHash, WriteHash,
          OpenFails, WriteLost, EndUpdate, ProcessEnds, Goto, files, TypeOK
    <3> QED
      BY <1>2, <2>1, <2>2, <3>1
  <2>3. CASE \E how : ProcessEnds(how)
    BY <1>3, <2>3
  <2>4. (phase' = phase /\ \E to : pc' = [pc EXCEPT ![Main] = to]) \/ (\E how : ProcessEnds(how))
    BY <1>0, <1>5
    DEF Update, CountBytes, Serialise, OpenDb, WriteDb, MeasureDb, ReadDb, OpenHash, WriteHash,
        OpenFails, WriteLost, EndUpdate, Goto
  <2>5. \A to : pc' = [pc EXCEPT ![Main] = to] => \A w \in Workers : pc'[w] = pc[w]
    BY <1>0 DEF TypeOK
  <2> QED
    BY <2>2, <2>3, <2>4, <2>5
<1>6. CASE Boot
  <2>1. \A w \in Workers : pc'[w] = "idle"
    BY <1>0, <1>6 DEF Boot, TypeOK, Control, Serving, Quiescent
  <2>2. phase' \in {"down", "booting"} /\ pc'[Main] # "read_db"
    BY <1>0, <1>6 DEF Boot, TypeOK, Control
  <2> QED
    BY <1>2, <2>1, <2>2
<1>7. CASE Load
  <2>1. CASE hashFile = <<dbFile>> /\ Parsable(dbFile)
    <3>1. /\ phase' = "up" /\ table' = Loaded(dbFile)
          /\ UNCHANGED <<dbFile, hashFile>>
          /\ \A w \in Workers : pc'[w] = "idle"
      BY <1>0, <1>7, <2>1 DEF Load, files, TypeOK, Control, Serving, Quiescent
    <3>2. Boots(table)'
      BY <2>1, <3>1 DEF Boots
    <3> QED
      BY <3>1, <3>2 DEF LoneInv, InStep, LoneWorkerSavesAll
  <2> QED
    BY <1>3, <1>7, <2>1 DEF Load
<1>8. CASE Interrupt
  BY <1>8
  DEF Interrupt, files, locals, LoneInv, InStep, LoneWorkerSavesAll, Boots, Serving, Quiescent
<1>9. CASE Save
  <2>1. phase' = "saving" /\ \A w \in Workers : pc'[w] = "idle"
    BY <1>0, <1>9 DEF Save, TypeOK
  <2> QED
    BY <1>2, <2>1
<1>10. CASE Crash
  BY <1>3, <1>10 DEF Crash
<1>11. CASE StartOver
  <2>1. phase' = "down" /\ pc' = pc
    BY <1>11 DEF StartOver
  <2> QED
    BY <1>0, <1>2, <1>11, <2>1 DEF StartOver, Control, Serving, Quiescent
<1>12. CASE UNCHANGED vars
  BY <1>12
  DEF vars, files, locals, LoneInv, InStep, LoneWorkerSavesAll, Boots, Serving, Quiescent
<1>13. ASSUME NEW a \in Actors, Update(a) \/ OpenFails(a) \/ WriteLost(a)
       PROVE  pc[a] # "idle"
  BY <1>13
  DEF Update, CountBytes, Serialise, OpenDb, WriteDb, MeasureDb, ReadDb, OpenHash, WriteHash,
      OpenFails, WriteLost, Goto
<1> QED
  BY <1>1, <1>4, <1>5, <1>6, <1>7, <1>8, <1>9, <1>10, <1>11, <1>12, <1>13 DEF Next, Actors

\* So the lone worker's update is in step in every state.
LEMMA LoneInvariance == Spec => []LoneInv
<1>1. Init => LoneInv
  BY DEF Init, LoneInv, InStep, LoneWorkerSavesAll, Serving, Actors
<1>2. TypeInv /\ LoneInv /\ [Next]_vars => LoneInv'
  BY LoneStep
<1> QED
  BY <1>1, <1>2, TypeInvariance, PTL DEF Spec

\* With one worker and no failing system call, the files hold every account
\* whenever no request is being served (db_create_user and db_remove_user
\* return after db_update_db).
THEOREM LoneWorkerSaves == Spec => []LoneWorkerSavesAll
<1>1. LoneInv => LoneWorkerSavesAll
  BY DEF LoneInv
<1> QED
  BY <1>1, LoneInvariance, PTL

\* With one worker a step that aborts the process, at boot, in service or at
\* shutdown and whatever failed before, is a failing open of .cape.hash
\* (update_db_hash after its fclose).
THEOREM LoneWorkerUpdates == Spec => LoneWorkerAbortsOnFault
<1>1. TypeInv /\ SaveInv /\ LoneInv /\ [Next]_vars
        => [(Cardinality(Workers) = 1 /\ Aborts) => faults' > faults]_vars
  <2> SUFFICES ASSUME TypeInv, SaveInv, LoneInv, [Next]_vars,
                      Cardinality(Workers) = 1, Aborts
               PROVE  faults' > faults
    OBVIOUS
  <2>1. PICK a \in Actors : Update(a) \/ OpenFails(a) \/ WriteLost(a)
    BY DEF Next, Request, RejectNewUser, RejectRemoval, RemoveUser, CheckNewUser, SetUser,
           Boot, Load, Interrupt, Save, Crash, StartOver, ProcessEnds, history, vars, Aborts
  <2>2. pc[a] \notin {"idle", "load"}
    BY <2>1, Busy
  <2>3. CASE a \in Workers
    <3>1. /\ InStep(a, faults = 0) /\ (faults = 0) \in BOOLEAN /\ phase # "booting"
      BY <2>2, <2>3 DEF LoneInv, TypeInv, Control, Serving, Quiescent
    <3> QED
      BY <2>1, <3>1, InStepAborts
  <2>4. CASE a = Main /\ phase = "saving"
    <3>1. InStep(Main, stop = "running") /\ (stop = "running") \in BOOLEAN
      BY <2>4 DEF SaveInv
    <3> QED
      BY <2>1, <2>4, <3>1, InStepAborts
  <2>5. CASE a = Main /\ phase = "booting"
    <3>1. /\ pc[Main] \in Writing \cup {"load"} /\ dbFile \in Seq(Token) \cup {Missing}
          /\ pc[Main] = "read_db" => need[Main] = Len(dbFile) /\ dbFile # Missing
          /\ faults \in Nat
      BY <2>5, UserDBAssumption DEF LoneInv, TypeInv, TypeOK, Control
    <3>2. ~Serialise(Main)
      BY <3>1 DEF Serialise, Writing
    <3>3. ~ReadDb(Main)
      BY <3>1 DEF ReadDb, Aborts
    <3>4. OpenFails(Main) \/ WriteLost(Main) => faults' > faults
      <4>1. OpenFails(Main) \/ WriteLost(Main) => faults' = faults + 1
        BY DEF OpenFails, WriteLost
      <4> QED
        BY <3>1, <4>1
    <3>5. ~(\/ CountBytes(Main) \/ OpenDb(Main) \/ WriteDb(Main) \/ MeasureDb(Main)
            \/ OpenHash(Main) \/ WriteHash(Main))
      BY DEF CountBytes, OpenDb, WriteDb, MeasureDb, OpenHash, WriteHash, EndUpdate, ProcessEnds,
             history, Aborts
    <3> QED
      BY <2>1, <2>5, <3>2, <3>3, <3>4, <3>5 DEF Update
  <2> QED
    BY <2>2, <2>3, <2>4, <2>5 DEF Actors, TypeInv, TypeOK, Control, Phases
<1> QED
  BY <1>1, TypeInvariance, SaveInvariance, LoneInvariance, PTL DEF Spec, LoneWorkerAbortsOnFault

=============================================================================
