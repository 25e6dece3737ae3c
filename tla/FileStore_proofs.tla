--------------------------- MODULE FileStore_proofs ---------------------------
(***************************************************************************)
(* Theorems about FileStore: type correctness, and that answered uploads   *)
(* stay, downloads are whole and no read is cut short, for every tree,     *)
(* number of workers and number of failing writes.                         *)
(***************************************************************************)
EXTENDS FileStore, FiniteSetTheorems, SequenceTheorems, TLAPS

Reading == {"get_measure", "get_read"}
Getting == Reading \cup {"get_stat", "get_open"}
Listing == {"del_readdir", "ls_readdir"}

\* What a worker has in hand, by where it is in its operation.
Local(w) ==
    /\ pc[w] \in {"idle", "respond"} => (path[w] = Home /\ stream[w] = <<>>)
    /\ pc[w] \in Putting \cup Reading \cup {"get_open"} => path[w] \in Paths
    /\ pc[w] \notin {"put_write", "get_read"} => count[w] = 0
    /\ pc[w] = "put_open" => stream[w] # <<>>
    /\ pc[w] = "put_write" => count[w] < Len(stream[w])
    /\ pc[w] \in {"put_write"} \cup Reading => node[w] \in Nodes
    /\ pc[w] \in {"put_write", "get_read"} => data[node[w]] # Directory
    /\ pc[w] \notin {"put_write"} \cup Reading \cup Listing => node[w] = NoNode
    /\ pc[w] \notin Getting => due[w] = <<>>

\* A file has one name, and that of an open one is the name it was opened by.
OneName == \A p, q \in DOMAIN tree : tree[p] = tree[q] => p = q

HeldName(w) ==
    pc[w] \in {"put_write"} \cup Reading =>
      \A q \in DOMAIN tree : tree[q] = node[w] => q = path[w]

\* An upload that meets no other: it is the only one of its name, nothing was
\* stored under it, no file is there before it is opened, and then what the
\* worker wrote.
Alone(w) == pc[w] \in Putting /\ path[w] \notin spoiled

SoleUpload(w) ==
    Alone(w) => \A v \in Workers \ {w} : ~(pc[v] \in Putting /\ path[v] = path[w])

NotStored(w) == Alone(w) => path[w] \notin DOMAIN stored

NoFile(w) ==
    (Alone(w) /\ pc[w] # "put_write" /\ path[w] \in DOMAIN tree) =>
      data[tree[path[w]]] = Directory

Written(w) ==
    (Alone(w) /\ pc[w] = "put_write" /\ path[w] \in DOMAIN tree /\ tree[path[w]] = node[w])
      => data[node[w]] = SubSeq(stream[w], 1, count[w])

\* A download of a stored file: its name leads to it until it is opened, and
\* nobody writes the file then.
Kept(w) == path[w] \in DOMAIN stored \ spoiled

Due(w) ==
    due[w] # <<>> =>
      /\ pc[w] \in {"get_stat", "get_open"} => (Kept(w) /\ stored[path[w]] = due[w])
      /\ pc[w] \in Reading =>
           /\ data[node[w]] = due[w]
           /\ (path[w] \in DOMAIN tree /\ tree[path[w]] = node[w]) => Kept(w)
           /\ \A v \in Workers : pc[v] = "put_write" => node[v] # node[w]
      /\ pc[w] = "get_read" => count[w] = Len(due[w])

\* No file shrinks under a reader.
Measured(w) ==
    (pc[w] = "get_read" /\ path[w] \notin spoiled) => count[w] <= Len(data[node[w]])

Own(w) == Local(w) /\ HeldName(w) /\ NotStored(w) /\ NoFile(w) /\ Written(w) /\ Measured(w)
All == \A w \in Workers : Own(w) /\ SoleUpload(w) /\ Due(w)
IInv == TypeOK /\ OneName /\ AnsweredPutsStay /\ All
-----------------------------------------------------------------------------
\* What WriteAt makes of a file, and of the first part of an upload.
LEMMA Write ==
    ASSUME NEW file \in Seq(Blocks), NEW i \in Nat, i > 0, NEW b \in Blocks
    PROVE  WriteAt(file, i, b) \in Seq(Blocks) /\ Len(WriteAt(file, i, b)) >= Len(file)
<1> DEFINE n == IF Len(file) < i THEN i ELSE Len(file)
<1>1. n \in Nat /\ n >= Len(file)
  OBVIOUS
<1>2. WriteAt(file, i, b) \in [1..n -> Blocks]
  <2>1. \A j \in 1..n : j <= Len(file) => file[j] \in Blocks
    BY <1>1
  <2> QED
    BY <2>1, FileStoreAssumption DEF WriteAt
<1>3. WriteAt(file, i, b) \in Seq(Blocks) /\ Len(WriteAt(file, i, b)) = n
  <2>1. WriteAt(file, i, b) \in Seq(Blocks)
    BY <1>1, <1>2, SeqDef
  <2>2. DOMAIN WriteAt(file, i, b) = 1..n
    BY <1>2
  <2> QED
    BY <1>1, <2>1, <2>2
<1> QED
  BY <1>1, <1>3

LEMMA WriteNext ==
    ASSUME NEW s \in Seq(Blocks), NEW c \in Nat, c < Len(s)
    PROVE  WriteAt(SubSeq(s, 1, c), c + 1, s[c + 1]) = SubSeq(s, 1, c + 1)
<1>1. /\ SubSeq(s, 1, c) = [j \in 1..c |-> s[j]]
      /\ SubSeq(s, 1, c + 1) = [j \in 1..(c + 1) |-> s[j]]
      /\ Len(SubSeq(s, 1, c)) = c
  OBVIOUS
<1>2. WriteAt(SubSeq(s, 1, c), c + 1, s[c + 1]) =
        [j \in 1..(c + 1) |-> IF j = c + 1 THEN s[c + 1] ELSE
                              IF j <= c THEN SubSeq(s, 1, c)[j] ELSE Zeros]
  BY <1>1 DEF WriteAt
<1>3. \A j \in 1..(c + 1) : (IF j = c + 1 THEN s[c + 1] ELSE
                             IF j <= c THEN SubSeq(s, 1, c)[j] ELSE Zeros) = s[j]
  BY <1>1
<1> QED
  BY <1>1, <1>2, <1>3

LEMMA Whole == ASSUME NEW s \in Seq(Blocks) PROVE SubSeq(s, 1, Len(s)) = s
  OBVIOUS
-----------------------------------------------------------------------------
LEMMA IInvInit == Init => IInv
<1> SUFFICES ASSUME Init PROVE IInv
  OBVIOUS
<1>1. TypeOK
  BY FileStoreAssumption DEF Init, TypeOK, PCs, Codes, Targets, Putting
<1>2. OneName /\ AnsweredPutsStay
  BY DEF Init, OneName, AnsweredPutsStay
<1>3. All
  BY DEF Init, All, Own, SoleUpload, Due, Local, HeldName, Alone, NotStored, NoFile,
         Written, Measured, Putting, Reading, Getting, Listing
<1> QED
  BY <1>1, <1>2, <1>3 DEF IInv

\* A worker that a step leaves where it is.
Stays(v) ==
    /\ pc'[v] = pc[v] /\ path'[v] = path[v] /\ node'[v] = node[v]
    /\ stream'[v] = stream[v] /\ count'[v] = count[v] /\ due'[v] = due[v]

\* A step of one worker that touches neither the tree nor the history of
\* uploads has to answer only for that worker.
LEMMA Quiet ==
    ASSUME NEW w \in Workers, IInv, TypeOK',
           UNCHANGED <<kernel, stored, spoiled>>,
           \A v \in Workers \ {w} : Stays(v),
           pc'[w] # "put_write",
           pc'[w] \in Putting => (pc[w] \in Putting /\ path'[w] = path[w]),
           Own(w)', Due(w)'
    PROVE  IInv'
<1>1. OneName' /\ AnsweredPutsStay'
  BY DEF IInv, OneName, AnsweredPutsStay, kernel
<1>2. ASSUME NEW v \in Workers \ {w} PROVE Own(v)'
  <2>1. Own(v) /\ Stays(v)
    BY <1>2 DEF IInv, All
  <2>2. Local(v)' /\ HeldName(v)' /\ NotStored(v)'
    BY <2>1 DEF Own, Stays, Local, HeldName, NotStored, Alone, kernel
  <2>3. NoFile(v)' /\ Written(v)' /\ Measured(v)'
    BY <2>1 DEF Own, Stays, NoFile, Written, Measured, Alone, kernel
  <2> QED
    BY <2>2, <2>3 DEF Own
<1>3. ASSUME NEW v \in Workers PROVE SoleUpload(v)'
  BY DEF IInv, All, SoleUpload, Alone, Stays
<1>4. ASSUME NEW v \in Workers \ {w} PROVE Due(v)'
  BY <1>4 DEF IInv, All, Due, Stays, Kept, kernel
<1> QED
  BY <1>1, <1>2, <1>3, <1>4 DEF IInv, All

\* A request ends, and so does the look at a response.
LEMMA AnswerStep ==
    ASSUME NEW w \in Workers, NEW code \in Codes, IInv, Answer(w, code),
           faults' \in 0..MaxFaults, UNCHANGED <<kernel, stored, spoiled>>
    PROVE  IInv'
<1>1. TypeOK'
  BY FileStoreAssumption DEF IInv, TypeOK, Answer, Respond, Goto, kernel, PCs, Targets, IsDir
<1>2. Own(w)' /\ Due(w)'
  BY DEF IInv, TypeOK, Own, Due, Local, HeldName, NotStored, NoFile, Written, Measured, Alone,
         Answer, Respond, Goto, Putting, Reading, Getting, Listing
<1>3. \A v \in Workers \ {w} : Stays(v)
  BY DEF IInv, TypeOK, Answer, Respond, Goto, Stays
<1>4. pc'[w] = "respond"
  BY DEF IInv, TypeOK, Answer, Respond, Goto
<1> QED
  BY <1>1, <1>2, <1>3, <1>4, Quiet DEF Putting

LEMMA ReplyStep == ASSUME NEW w \in Workers, IInv, Reply(w) PROVE IInv'
<1>1. TypeOK'
  BY FileStoreAssumption DEF IInv, TypeOK, Reply, Goto, kernel, history, PCs, Codes, IsDir
<1>2. Own(w)' /\ Due(w)'
  BY DEF IInv, TypeOK, All, Own, Due, Local, HeldName, NotStored, NoFile, Written, Measured,
         Alone, Reply, Goto, history, Putting, Reading, Getting, Listing
<1>3. \A v \in Workers \ {w} : Stays(v)
  BY DEF IInv, TypeOK, Reply, Goto, Stays, history
<1>4. pc'[w] = "idle" /\ UNCHANGED <<kernel, stored, spoiled>>
  BY DEF IInv, TypeOK, Reply, Goto, history
<1> QED
  BY <1>1, <1>2, <1>3, <1>4, Quiet DEF Putting

LEMMA EndStep == IInv /\ ServerEnds => IInv'
<1> SUFFICES ASSUME IInv, ServerEnds PROVE IInv'
  OBVIOUS
<1>1. TypeOK'
  BY FileStoreAssumption DEF IInv, TypeOK, ServerEnds, kernel, PCs, Codes, Targets, IsDir
<1>2. OneName' /\ AnsweredPutsStay'
  BY DEF IInv, OneName, AnsweredPutsStay, ServerEnds, kernel
<1>3. All'
  BY DEF All, Own, SoleUpload, Due, Local, HeldName, Alone, NotStored, NoFile,
         Written, Measured, ServerEnds, Putting, Reading, Getting, Listing
<1> QED
  BY <1>1, <1>2, <1>3 DEF IInv
-----------------------------------------------------------------------------
\* A request begins that only looks, or removes, or makes a directory.
LEMMA BeginStep ==
    ASSUME NEW w \in Workers, NEW p \in Targets, IInv,
           Get(w, p) \/ Delete(w, p) \/ MakeDir(w, p) \/ List(w, p)
    PROVE  IInv'
<1>1. PICK to \in {"get_stat", "del_stat", "mkdir", "ls_stat"} :
        /\ Begin(w, p, to)
        /\ due'[w] # due[w] => /\ to = "get_stat" /\ p \in DOMAIN stored \ spoiled
                               /\ due'[w] = stored[p]
        /\ due' \in [Workers -> Streams \cup {<<>>}]
        /\ \A v \in Workers \ {w} : due'[v] = due[v]
        /\ UNCHANGED <<kernel, node, stream, count, ret, faults, stored, spoiled>>
  BY DEF IInv, TypeOK, Get, Delete, MakeDir, List, history
<1>2. TypeOK'
  BY <1>1 DEF IInv, TypeOK, Begin, Goto, kernel, PCs, IsDir
<1>3. pc[w] = "idle" /\ pc' = [pc EXCEPT ![w] = to] /\ path' = [path EXCEPT ![w] = p]
  BY <1>1 DEF Begin, Goto
<1>4. Own(w)' /\ Due(w)'
  BY <1>1, <1>3 DEF IInv, TypeOK, All, Own, Due, Local, HeldName, NotStored, NoFile, Written,
                    Measured, Alone, Kept, Putting, Reading, Getting, Listing
<1>5. \A v \in Workers \ {w} : Stays(v)
  BY <1>1, <1>3 DEF IInv, TypeOK, Stays
<1>6. pc'[w] \notin Putting
  BY <1>3 DEF IInv, TypeOK, Putting
<1> QED
  BY <1>1, <1>2, <1>4, <1>5, <1>6, Quiet DEF Putting

\* A look-up that goes on, with no file in hand.
LEMMA LookStep ==
    ASSUME NEW w \in Workers, IInv,
           GetStat(w) \/ DelStat(w) \/ DelReadDir(w) \/ LsStat(w), pc'[w] # "respond"
    PROVE  IInv'
<1>1. PICK to \in {"get_open", "unlink", "del_opendir", "rmdir", "ls_opendir"} :
        /\ pc' = [pc EXCEPT ![w] = to]
        /\ pc[w] \in {"get_stat", "del_stat", "del_readdir", "ls_stat"}
        /\ to = "get_open" <=> pc[w] = "get_stat"
        /\ to = "get_open" => path[w] \in Paths
        /\ node' = [node EXCEPT ![w] = NoNode]
        /\ UNCHANGED <<kernel, path, stream, count, ret, due, faults, stored, spoiled>>
  <2>1. CASE GetStat(w)
    BY <2>1 DEF IInv, TypeOK, All, Own, Local, GetStat, Goto, Answer, Respond, IsFile,
                Putting, Reading, Listing
  <2>2. CASE DelStat(w)
    BY <2>2 DEF IInv, TypeOK, All, Own, Local, DelStat, Goto, Answer, Respond,
                Putting, Reading, Listing
  <2>3. CASE DelReadDir(w)
    BY <2>3 DEF IInv, TypeOK, DelReadDir, Goto, Answer, Respond
  <2>4. CASE LsStat(w)
    BY <2>4 DEF IInv, TypeOK, All, Own, Local, LsStat, Goto, Answer, Respond,
                Putting, Reading, Listing
  <2> QED
    BY <2>1, <2>2, <2>3, <2>4
<1>2. TypeOK'
  BY <1>1 DEF IInv, TypeOK, kernel, PCs, IsDir
<1>3. Own(w)' /\ Due(w)'
  BY <1>1 DEF IInv, TypeOK, All, Own, Due, Local, HeldName, NotStored, NoFile, Written,
              Measured, Alone, Kept, Putting, Reading, Getting, Listing
<1>4. \A v \in Workers \ {w} : Stays(v)
  BY <1>1 DEF IInv, TypeOK, Stays
<1>5. pc'[w] \notin Putting
  BY <1>1 DEF IInv, TypeOK, Putting
<1> QED
  BY <1>1, <1>2, <1>3, <1>4, <1>5, Quiet DEF Putting

\* A directory is opened, or is not.
LEMMA OpenDirStep ==
    ASSUME NEW w \in Workers, IInv, DelOpenDir(w) \/ LsOpenDir(w), pc'[w] # "respond"
    PROVE  IInv'
<1>1. PICK to \in Listing, n \in Nodes \cup {Home, NoNode} :
        /\ pc' = [pc EXCEPT ![w] = to]
        /\ pc[w] \in {"del_opendir", "ls_opendir"}
        /\ node' = [node EXCEPT ![w] = n]
        /\ UNCHANGED <<kernel, path, stream, count, ret, due, faults, stored, spoiled>>
  <2>1. NodeAt(path[w]) \in Nodes \cup {Home, NoNode}
    BY DEF IInv, TypeOK, NodeAt, Exists
  <2>2. CASE DelOpenDir(w)
    BY <2>1, <2>2 DEF DelOpenDir, Goto, history, Listing
  <2>3. CASE LsOpenDir(w)
    BY <2>1, <2>3 DEF IInv, TypeOK, LsOpenDir, Goto, Answer, Respond, Listing
  <2> QED
    BY <2>2, <2>3
<1>2. TypeOK'
  BY <1>1 DEF IInv, TypeOK, kernel, PCs, Listing, IsDir
<1>3. Own(w)' /\ Due(w)'
  BY <1>1 DEF IInv, TypeOK, All, Own, Due, Local, HeldName, NotStored, NoFile, Written,
              Measured, Alone, Kept, Putting, Reading, Getting, Listing
<1>4. \A v \in Workers \ {w} : Stays(v)
  BY <1>1 DEF IInv, TypeOK, Stays
<1>5. pc'[w] \notin Putting
  BY <1>1 DEF IInv, TypeOK, Putting, Listing
<1> QED
  BY <1>1, <1>2, <1>3, <1>4, <1>5, Quiet DEF Putting
-----------------------------------------------------------------------------
\* What is to be in a directory resolves.
LEMMA PutResolveStep == ASSUME NEW w \in Workers, IInv, PutResolve(w) PROVE IInv'
<1>1. CASE pc'[w] # "put_open"
  BY <1>1, AnswerStep DEF IInv, TypeOK, PutResolve, Goto, Codes
<1>2. CASE pc'[w] = "put_open"
  <2>1. /\ pc[w] = "put_resolve" /\ stream[w] # <<>>
        /\ pc' = [pc EXCEPT ![w] = "put_open"]
        /\ UNCHANGED <<kernel, path, node, stream, count, ret, due, faults, stored, spoiled>>
    BY <1>2 DEF IInv, TypeOK, PutResolve, Goto, Answer, Respond
  <2>2. TypeOK'
    BY <2>1 DEF IInv, TypeOK, kernel, PCs, Putting, IsDir
  <2>3. Own(w)' /\ Due(w)'
    BY <2>1 DEF IInv, TypeOK, All, Own, Due, Local, HeldName, NotStored, NoFile, Written,
                Measured, Alone, Kept, kernel, Putting, Reading, Getting, Listing
  <2>4. \A v \in Workers \ {w} : Stays(v)
    BY <2>1 DEF IInv, TypeOK, Stays
  <2> QED
    BY <1>2, <2>1, <2>2, <2>3, <2>4, Quiet DEF Putting
<1> QED
  BY <1>1, <1>2

\* A file is opened: if it was stored, its name still leads to it, and nobody
\* has it open for writing.
LEMMA GetOpenStep == ASSUME NEW w \in Workers, IInv, GetOpen(w) PROVE IInv'
<1>1. CASE pc'[w] # "get_measure"
  BY <1>1, AnswerStep DEF IInv, TypeOK, GetOpen, Goto, Codes
<1>2. CASE pc'[w] = "get_measure"
  <2>1. /\ pc[w] = "get_open" /\ Exists(path[w])
        /\ pc' = [pc EXCEPT ![w] = "get_measure"]
        /\ node' = [node EXCEPT ![w] = tree[path[w]]]
        /\ UNCHANGED <<kernel, path, stream, count, ret, due, faults, stored, spoiled>>
    BY <1>2 DEF IInv, TypeOK, GetOpen, Goto, Answer, Respond
  <2>2. path[w] \in DOMAIN tree /\ tree[path[w]] \in Nodes
    BY <2>1, FileStoreAssumption DEF IInv, TypeOK, All, Own, Local, Exists
  <2>3. TypeOK'
    BY <2>1, <2>2 DEF IInv, TypeOK, kernel, PCs, IsDir
  <2>4. Own(w)'
    BY <2>1, <2>2 DEF IInv, TypeOK, All, OneName, Own, Local, HeldName, NotStored, NoFile, Written,
                Measured, Alone, kernel, Putting, Reading, Getting, Listing
  <2>5. ASSUME due[w] # <<>> PROVE Due(w)'
    <3>1. Kept(w) /\ stored[path[w]] = due[w]
      BY <2>1, <2>5 DEF IInv, All, Due
    <3>2. data[tree[path[w]]] = due[w]
      BY <3>1 DEF IInv, AnsweredPutsStay, Kept
    <3>3. \A v \in Workers : pc[v] = "put_write" => node[v] # tree[path[w]]
      BY <2>2, <3>1 DEF IInv, All, Own, HeldName, NotStored, Alone, Kept, Putting
    <3> QED
      BY <2>1, <2>2, <3>1, <3>2, <3>3 DEF IInv, TypeOK, Due, Kept, kernel, Reading
  <2>6. \A v \in Workers \ {w} : Stays(v)
    BY <2>1 DEF IInv, TypeOK, Stays
  <2>7. Due(w)'
    BY <2>1, <2>5 DEF Due
  <2> QED
    BY <1>2, <2>1, <2>3, <2>4, <2>6, <2>7, Quiet DEF Putting
<1> QED
  BY <1>1, <1>2

\* It is measured.
LEMMA GetMeasureStep == ASSUME NEW w \in Workers, IInv, GetMeasure(w) PROVE IInv'
<1>1. /\ pc[w] = "get_measure" /\ data[node[w]] # Directory
      /\ pc' = [pc EXCEPT ![w] = "get_read"]
      /\ count' = [count EXCEPT ![w] = Len(data[node[w]])]
      /\ UNCHANGED <<kernel, path, node, stream, ret, due, faults, stored, spoiled>>
  BY DEF GetMeasure, Goto, history
<1>2. node[w] \in Nodes /\ data[node[w]] \in Seq(Blocks)
  BY <1>1 DEF IInv, TypeOK, All, Own, Local, Reading
<1>3. Len(data[node[w]]) \in Nat
  BY <1>2
<1>4. TypeOK'
  BY <1>1, <1>3 DEF IInv, TypeOK, kernel, PCs, IsDir
<1>5. Own(w)' /\ Due(w)'
  BY <1>1, <1>2, <1>3 DEF IInv, TypeOK, All, Own, Due, Local, HeldName, NotStored, NoFile, Written,
              Measured, Alone, Kept, kernel, Putting, Reading, Getting, Listing
<1>6. \A v \in Workers \ {w} : Stays(v)
  BY <1>1 DEF IInv, TypeOK, Stays
<1>7. pc'[w] = "get_read"
  BY <1>1 DEF IInv, TypeOK
<1> QED
  BY <1>1, <1>4, <1>5, <1>6, <1>7, Quiet DEF Putting

\* An upload begins: of a name that is free, so nothing is kept there, and
\* marked if it is not the only one.
LEMMA PutStep ==
    ASSUME NEW w \in Workers, NEW p \in Targets, NEW s \in Streams, IInv, Put(w, p, s)
    PROVE  IInv'
<1>1. /\ pc[w] = "idle" /\ p \notin DOMAIN tree /\ p \in Paths
      /\ pc' = [pc EXCEPT ![w] = "put_resolve"]
      /\ path' = [path EXCEPT ![w] = p]
      /\ stream' = [stream EXCEPT ![w] = s]
      /\ UNCHANGED <<kernel, node, count, ret, faults, stored, due>>
  BY DEF Put, Begin, Goto, Exists, Targets
<1>2. /\ spoiled \subseteq spoiled' /\ spoiled' \subseteq spoiled \cup {p}
      /\ p \notin spoiled' => \A v \in Workers : ~(pc[v] \in Putting /\ path[v] = p)
  BY DEF Put
<1>3. TypeOK'
  BY <1>1, <1>2 DEF IInv, TypeOK, kernel, PCs, Putting, IsDir
<1>4. OneName' /\ AnsweredPutsStay' /\ p \notin DOMAIN stored \ spoiled
  BY <1>1, <1>2 DEF IInv, OneName, AnsweredPutsStay, kernel
<1>5. ASSUME NEW v \in Workers \ {w} PROVE Own(v)' /\ SoleUpload(v)' /\ Due(v)'
  <2>1. Stays(v) /\ (Alone(v)' => Alone(v)) /\ path'[v] = path[v]
    BY <1>1, <1>2, <1>5 DEF IInv, TypeOK, Stays, Alone
  <2>2. Own(v)'
    BY <1>1, <1>2, <2>1 DEF IInv, All, Own, Stays, Local, HeldName, NotStored, NoFile, Written,
                            Measured, Alone, kernel
  <2>3. SoleUpload(v)'
    BY <1>1, <1>2, <2>1 DEF IInv, TypeOK, All, SoleUpload, Alone, Stays
  <2>4. Due(v)'
    BY <1>1, <1>2, <1>4, <2>1 DEF IInv, TypeOK, All, Due, Stays, Kept, kernel, Reading
  <2> QED
    BY <2>2, <2>3, <2>4
<1>6. Own(w)' /\ Due(w)'
  BY <1>1, <1>2, <1>4 DEF IInv, TypeOK, All, Own, Due, Local, HeldName, NotStored, NoFile, Written,
              Measured, Alone, Kept, kernel, Putting, Reading, Getting, Listing
<1>7. SoleUpload(w)'
  BY <1>1, <1>2 DEF IInv, TypeOK, SoleUpload, Alone
<1> QED
  BY <1>3, <1>4, <1>5, <1>6, <1>7 DEF IInv, All

\* An upload that is let over a file begins: the name is marked, and nobody is to
\* find there what was stored.
LEMMA PutUnseenStep ==
    ASSUME NEW w \in Workers, NEW p \in Targets, NEW s \in Streams, IInv, PutUnseen(w, p, s)
    PROVE  IInv'
<1>1. /\ pc[w] = "idle" /\ p \in Paths
      /\ pc' = [pc EXCEPT ![w] = "put_resolve"]
      /\ path' = [path EXCEPT ![w] = p]
      /\ stream' = [stream EXCEPT ![w] = s]
      /\ spoiled' = spoiled \cup {p}
      /\ due' = [v \in Workers |-> IF path[v] = p THEN <<>> ELSE due[v]]
      /\ UNCHANGED <<kernel, node, count, ret, faults, stored>>
  BY DEF PutUnseen, Begin, Goto, Targets
<1>2. TypeOK'
  BY <1>1 DEF IInv, TypeOK, kernel, PCs, Putting, IsDir
<1>3. OneName' /\ AnsweredPutsStay'
  BY <1>1 DEF IInv, OneName, AnsweredPutsStay, kernel
<1>4. ASSUME NEW v \in Workers \ {w} PROVE Own(v)' /\ SoleUpload(v)' /\ Due(v)'
  <2>1. /\ pc'[v] = pc[v] /\ path'[v] = path[v] /\ stream'[v] = stream[v]
        /\ Alone(v)' => Alone(v) /\ path[v] # p
    BY <1>1, <1>4 DEF IInv, TypeOK, Alone
  <2>2. Own(v)'
    <3>1. due'[v] \in {due[v], <<>>}
      BY <1>1
    <3> QED
      BY <1>1, <2>1, <3>1 DEF IInv, All, Own, Local, HeldName, NotStored, NoFile, Written,
                              Measured, Alone, kernel
  <2>3. SoleUpload(v)'
    BY <1>1, <2>1 DEF IInv, TypeOK, All, SoleUpload, Alone
  <2>4. Due(v)'
    <3>1. due'[v] # <<>> => due'[v] = due[v] /\ path[v] # p
      BY <1>1
    <3> QED
      BY <1>1, <2>1, <3>1 DEF IInv, TypeOK, All, Due, Kept, kernel, Reading
  <2> QED
    BY <2>2, <2>3, <2>4
<1>5. Own(w)' /\ SoleUpload(w)' /\ Due(w)'
  <2>1. due'[w] = <<>> /\ ~Alone(w)' /\ pc'[w] = "put_resolve" /\ path'[w] = p
    BY <1>1 DEF IInv, TypeOK, All, Own, Local, Alone, Getting, Reading
  <2> QED
    BY <1>1, <2>1 DEF IInv, TypeOK, All, Own, SoleUpload, Due, Local, HeldName, NotStored, NoFile,
                      Written, Measured, Putting, Reading, Getting, Listing
<1> QED
  BY <1>2, <1>3, <1>4, <1>5 DEF IInv, All
-----------------------------------------------------------------------------
\* A worker changes the blocks of the file m, which has no name but that of its
\* upload.  Whoever else has it open, or waits to open it, does so by that name;
\* if nobody contests it, that is nobody who writes, nobody who reads what was
\* stored, and nobody who could see the file shrink.
LEMMA WriteStep ==
    ASSUME NEW w \in Workers, NEW m \in Nodes, NEW file \in Seq(Blocks), IInv, TypeOK',
           pc[w] \in {"put_open", "put_write"}, data[m] # Directory,
           \A q \in DOMAIN tree : tree[q] = m => q = path[w],
           pc[w] = "put_open" => (path[w] \in DOMAIN tree /\ tree[path[w]] = m),
           pc[w] = "put_write" => (node[w] = m /\ Len(file) >= Len(data[m])),
           data' = [data EXCEPT ![m] = file], tree' = tree, spoiled' = spoiled,
           DOMAIN stored \subseteq DOMAIN stored',
           DOMAIN stored' \subseteq DOMAIN stored \cup {path[w]},
           \A q \in DOMAIN stored \ {path[w]} : stored'[q] = stored[q],
           path[w] \in DOMAIN stored' \ spoiled =>
             (path[w] \in DOMAIN tree /\ data'[tree[path[w]]] = stored'[path[w]]),
           \A v \in Workers \ {w} : Stays(v),
           pc'[w] \in Putting => path'[w] = path[w],
           pc'[w] = "put_write" => node'[w] = m,
           Own(w)', due'[w] = <<>>
    PROVE  IInv'
<1>1. OneName'
  BY DEF IInv, OneName
<1>2. AnsweredPutsStay'
  BY DEF IInv, TypeOK, AnsweredPutsStay
<1>3. ASSUME NEW v \in Workers \ {w} PROVE Own(v)'
  <2>1. Own(v) /\ SoleUpload(v) /\ Stays(v) /\ NoFile(w)
    BY <1>3 DEF IInv, All, Own
  <2>2. Local(v)' /\ HeldName(v)' /\ NoFile(v)'
    <3>1. file # Directory
      BY FileStoreAssumption
    <3> QED
      BY <2>1, <3>1 DEF IInv, TypeOK, Own, Local, Stays, HeldName, NoFile, Alone
  <2>3. NotStored(v)'
    BY <2>1 DEF Own, Stays, NotStored, SoleUpload, Alone, Putting
  <2>4. Written(v)'
    BY <2>1 DEF IInv, TypeOK, Own, Stays, Written, SoleUpload, Alone, Putting
  <2>5. Measured(v)'
    <3> SUFFICES ASSUME pc[v] = "get_read", path[v] \notin spoiled
                 PROVE  count[v] <= Len(data'[node[v]])
      BY <2>1 DEF Measured, Stays
    <3>1. node[v] \in Nodes /\ count[v] \in Nat /\ count[v] <= Len(data[node[v]])
      BY <2>1 DEF IInv, TypeOK, Own, Local, Measured, Reading
    <3>2. CASE node[v] # m
      BY <3>1, <3>2 DEF IInv, TypeOK
    <3>3. CASE node[v] = m /\ pc[w] = "put_write"
      <4>1. data[m] \in Seq(Blocks) /\ Len(data[m]) \in Nat /\ Len(file) \in Nat
        BY DEF IInv, TypeOK
      <4> QED
        BY <3>1, <3>3, <4>1 DEF IInv, TypeOK
    <3>4. CASE node[v] = m /\ pc[w] = "put_open"
      <4>1. path[w] = path[v]
        BY <2>1, <3>4 DEF Own, HeldName, Reading
      <4> QED
        BY <2>1, <3>4, <4>1 DEF NoFile, Alone, Putting
    <3> QED
      BY <3>2, <3>3, <3>4
  <2> QED
    BY <2>2, <2>3, <2>4, <2>5 DEF Own
<1>4. ASSUME NEW v \in Workers PROVE SoleUpload(v)'
  BY DEF IInv, All, SoleUpload, Alone, Stays, Putting
<1>5. ASSUME NEW v \in Workers \ {w}, due[v] # <<>> PROVE Due(v)'
  <2>1. Own(v) /\ Due(v) /\ Stays(v) /\ NotStored(w)
    BY <1>5 DEF IInv, All, Own
  <2>2. Kept(v) => (Kept(v)' /\ stored'[path[v]] = stored[path[v]])
    BY <2>1 DEF NotStored, Kept, Alone, Stays, Putting
  <2>3. pc[v] \in Reading => node[v] # m
    <3> SUFFICES ASSUME pc[v] \in Reading, node[v] = m PROVE FALSE
      OBVIOUS
    <3>1. pc[w] = "put_open"
      BY <1>5, <2>1 DEF Due
    <3>2. path[v] = path[w] /\ Kept(v)
      BY <1>5, <2>1, <3>1 DEF Own, HeldName, Due
    <3> QED
      BY <2>1, <3>1, <3>2 DEF NotStored, Kept, Alone, Putting
  <2>4. pc[v] \in Reading => (node[v] \in Nodes /\ data'[node[v]] = data[node[v]])
    BY <2>1, <2>3 DEF IInv, TypeOK, Own, Local
  <2> QED
    BY <1>5, <2>1, <2>2, <2>3, <2>4 DEF Due, Stays, Reading
<1>6. \A v \in Workers : Due(v)'
  BY <1>5 DEF Due, Stays
<1> QED
  BY <1>1, <1>2, <1>3, <1>4, <1>6 DEF IInv, All

\* A name is given to a node nobody has.
LEMMA LinkStep ==
    ASSUME NEW w \in Workers, NEW p \in Paths, NEW n \in Nodes,
           NEW content \in {<<>>, Directory}, IInv, TypeOK',
           Free(n), p \notin DOMAIN tree, Link(p, n, content),
           UNCHANGED <<stored, spoiled>>,
           content = Directory \/ (pc[w] \in Putting /\ path[w] = p),
           \A v \in Workers \ {w} : Stays(v),
           pc'[w] \in Putting => (pc[w] \in Putting /\ path'[w] = path[w]),
           pc'[w] = "put_write" => node'[w] = n,
           Own(w)', due'[w] = <<>>
    PROVE  IInv'
<1>1. /\ DOMAIN tree' = DOMAIN tree \cup {p} /\ tree'[p] = n
      /\ \A q \in DOMAIN tree : tree'[q] = tree[q] /\ tree[q] # n
      /\ \A m \in Nodes \ {n} : data'[m] = data[m]
      /\ data'[n] = content
      /\ \A v \in Workers : node[v] # n
  <2>1. /\ tree' = [q \in DOMAIN tree \cup {p} |-> IF q = p THEN n ELSE tree[q]]
        /\ data' = [data EXCEPT ![n] = content]
    BY DEF Link
  <2>2. DOMAIN tree' = DOMAIN tree \cup {p} /\ tree'[p] = n
    BY <2>1
  <2>3. \A q \in DOMAIN tree : tree'[q] = tree[q]
    BY <2>1
  <2>4. (\A q \in DOMAIN tree : tree[q] # n) /\ (\A v \in Workers : node[v] # n)
    BY DEF Free
  <2>5. (\A m \in Nodes \ {n} : data'[m] = data[m]) /\ data'[n] = content
    BY <2>1 DEF IInv, TypeOK
  <2> QED
    BY <2>2, <2>3, <2>4, <2>5
<1>2. OneName'
  BY <1>1 DEF IInv, OneName
<1>3. AnsweredPutsStay'
  BY <1>1 DEF IInv, TypeOK, AnsweredPutsStay
<1>4. ASSUME NEW v \in Workers \ {w} PROVE Own(v)'
  <2>1. Own(v) /\ SoleUpload(v) /\ Stays(v)
    BY <1>4 DEF IInv, All
  <2>2. Local(v)' /\ HeldName(v)' /\ NotStored(v)'
    <3>1. node[v] \in Nodes => data'[node[v]] = data[node[v]]
      BY <1>1
    <3>2. Local(v)'
      BY <2>1, <3>1 DEF Own, Local, Stays, Reading
    <3>3. HeldName(v)'
      BY <1>1, <2>1 DEF Own, Stays, HeldName
    <3>4. NotStored(v)'
      BY <2>1 DEF Own, Stays, NotStored, Alone
    <3> QED
      BY <3>2, <3>3, <3>4
  <2>3. NoFile(v)'
    BY <1>1, <2>1 DEF IInv, TypeOK, Own, Stays, NoFile, SoleUpload, Alone
  <2>4. Written(v)' /\ Measured(v)'
    BY <1>1, <2>1 DEF IInv, TypeOK, Own, Local, Stays, Written, Measured, Alone, Reading
  <2> QED
    BY <2>2, <2>3, <2>4 DEF Own
<1>5. ASSUME NEW v \in Workers PROVE SoleUpload(v)'
  BY DEF IInv, All, SoleUpload, Alone, Stays
<1>6. ASSUME NEW v \in Workers \ {w} PROVE Due(v)'
  BY <1>1, <1>6 DEF IInv, TypeOK, All, Own, Local, Due, Stays, Kept, Reading
<1>7. Due(w)'
  BY DEF Due
<1> QED
  BY <1>2, <1>3, <1>4, <1>5, <1>6, <1>7 DEF IInv, All

\* A name is taken away: that of a file, with what was stored under it, or that
\* of a directory.
LEMMA RemoveStep ==
    ASSUME NEW w \in Workers, NEW p \in Paths, IInv, TypeOK',
           tree' = [q \in DOMAIN tree \ {p} |-> tree[q]], data' = data,
           DOMAIN stored \ {p} \subseteq DOMAIN stored',
           DOMAIN stored' \subseteq DOMAIN stored,
           \A q \in DOMAIN stored' : stored'[q] = stored[q],
           p \notin DOMAIN stored' \ spoiled',
           spoiled \ {p} \subseteq spoiled', spoiled' \subseteq spoiled,
           p \in spoiled \ spoiled' => \A v \in Workers \ {w} : path[v] # p,
           \A v \in Workers \ {w} :
             /\ pc'[v] = pc[v] /\ path'[v] = path[v] /\ node'[v] = node[v]
             /\ stream'[v] = stream[v] /\ count'[v] = count[v]
             /\ due'[v] \in {<<>>, due[v]}
             /\ (due'[v] # <<>> /\ pc[v] \in {"get_stat", "get_open"}) =>
                  (path[v] # p \/ p \notin DOMAIN stored \ spoiled),
           pc'[w] = "respond", Own(w)', due'[w] = <<>>
    PROVE  IInv'
<1>1. DOMAIN tree' = DOMAIN tree \ {p} /\ \A q \in DOMAIN tree' : tree'[q] = tree[q]
  OBVIOUS
<1>2. OneName'
  BY <1>1 DEF IInv, OneName
<1>3. AnsweredPutsStay'
  BY <1>1 DEF IInv, AnsweredPutsStay
<1>4. ASSUME NEW v \in Workers \ {w} PROVE Own(v)' /\ SoleUpload(v)' /\ Due(v)'
  <2>1. Own(v) /\ SoleUpload(v) /\ Due(v)
    BY <1>4 DEF IInv, All
  <2>2. Alone(v)' => Alone(v)
    BY <1>4 DEF Alone
  <2>3. Local(v)'
    BY <1>4, <2>1 DEF Own, Local
  <2>4. HeldName(v)' /\ NotStored(v)'
    BY <1>1, <1>4, <2>1, <2>2 DEF Own, HeldName, NotStored
  <2>5. NoFile(v)' /\ Written(v)'
    BY <1>1, <1>4, <2>1, <2>2 DEF Own, NoFile, Written
  <2>6. Measured(v)'
    BY <1>4, <2>1 DEF Own, Measured
  <2>7. SoleUpload(v)'
    BY <1>4, <2>1, <2>2 DEF SoleUpload, Putting
  <2>8. Due(v)'
    <3> SUFFICES ASSUME due'[v] # <<>> PROVE Due(v)'
      BY DEF Due
    <3>1. due'[v] = due[v] /\ due[v] # <<>>
      BY <1>4
    <3>2. Kept(v) /\ path[v] # p => Kept(v)' /\ stored'[path[v]] = stored[path[v]]
      BY <1>4 DEF Kept
    <3>3. pc[v] \in {"get_stat", "get_open"} => (Kept(v)' /\ stored'[path[v]] = due[v])
      BY <1>4, <2>1, <3>1, <3>2 DEF Due, Kept
    <3>4. \A u \in Workers : pc'[u] = "put_write" => (pc[u] = "put_write" /\ node'[u] = node[u])
      OBVIOUS
    <3> QED
      BY <1>1, <1>4, <2>1, <3>1, <3>2, <3>3, <3>4 DEF Due
  <2> QED
    BY <2>3, <2>4, <2>5, <2>6, <2>7, <2>8 DEF Own
<1>5. SoleUpload(w)' /\ Due(w)'
  BY DEF SoleUpload, Alone, Due, Putting
<1> QED
  BY <1>2, <1>3, <1>4, <1>5 DEF IInv, All
-----------------------------------------------------------------------------
\* The types after the blocks of a file change, and after a name is given.
LEMMA WriteTypes ==
    ASSUME NEW w \in Workers, NEW m \in Nodes, NEW file \in Seq(Blocks), TypeOK,
           data[m] # Directory, data' = [data EXCEPT ![m] = file], tree' = tree
    PROVE  /\ data' \in [Nodes -> Seq(Blocks) \cup {Directory}]
           /\ \A p \in DOMAIN tree' : IsDir(Parent[p])'
<1>1. data' \in [Nodes -> Seq(Blocks) \cup {Directory}]
  BY DEF TypeOK
<1>2. ASSUME NEW p \in DOMAIN tree PROVE IsDir(Parent[p])'
  BY <1>2 DEF TypeOK, IsDir
<1> QED
  BY <1>1, <1>2

LEMMA LinkTypes ==
    ASSUME NEW p \in Paths, NEW n \in Nodes, NEW content \in {<<>>, Directory}, TypeOK,
           Free(n), ~Exists(p), IsDir(Parent[p]), Link(p, n, content)
    PROVE  /\ DOMAIN tree' \subseteq Paths /\ tree' \in [DOMAIN tree' -> Nodes]
           /\ data' \in [Nodes -> Seq(Blocks) \cup {Directory}]
           /\ \A q \in DOMAIN tree' : IsDir(Parent[q])'
<1>1. tree' = [q \in DOMAIN tree \cup {p} |-> IF q = p THEN n ELSE tree[q]]
  BY DEF Link
<1>2. DOMAIN tree' = DOMAIN tree \cup {p}
  BY <1>1
<1>3. \A q \in DOMAIN tree : tree'[q] = tree[q] /\ tree[q] \in Nodes \ {n}
  BY <1>1 DEF TypeOK, Exists, Free
<1>4. data' = [data EXCEPT ![n] = content]
  BY DEF Link
<1>5. tree' \in [DOMAIN tree' -> Nodes]
  BY <1>1, <1>2, <1>3
<1>6. data' \in [Nodes -> Seq(Blocks) \cup {Directory}]
  <2>1. <<>> \in Seq(Blocks)
    OBVIOUS
  <2> QED
    BY <1>4, <2>1 DEF TypeOK
<1>7. \A d \in Paths \cup {Home} : IsDir(d) => IsDir(d)'
  <2>1. \A m \in Nodes \ {n} : data'[m] = data[m]
    BY <1>4 DEF TypeOK
  <2> QED
    BY <1>2, <1>3, <2>1 DEF IsDir
<1>8. \A q \in DOMAIN tree' : Parent[q] \in Paths \cup {Home} /\ IsDir(Parent[q])
  BY <1>2, FileStoreAssumption DEF TypeOK
<1> QED
  BY <1>2, <1>5, <1>6, <1>7, <1>8 DEF TypeOK

LEMMA RemoveTypes ==
    ASSUME NEW p \in Paths, TypeOK,
           \A q \in DOMAIN tree : Parent[q] # p,
           tree' = [q \in DOMAIN tree \ {p} |-> tree[q]], data' = data
    PROVE  /\ DOMAIN tree' \subseteq Paths /\ tree' \in [DOMAIN tree' -> Nodes]
           /\ \A q \in DOMAIN tree' : IsDir(Parent[q])'
<1>1. DOMAIN tree' = DOMAIN tree \ {p} /\ \A q \in DOMAIN tree' : tree'[q] = tree[q]
  OBVIOUS
<1>2. tree' \in [DOMAIN tree' -> Nodes]
  BY <1>1 DEF TypeOK
<1> QED
  BY <1>1, <1>2 DEF TypeOK, IsDir

\* fopen: an empty file, made or truncated, of which the worker has written
\* nothing yet.
LEMMA PutOpenStep == ASSUME NEW w \in Workers, IInv, PutOpen(w) PROVE IInv'
<1> DEFINE p == path[w]
<1>1. /\ pc[w] = "put_open" /\ pc' = [pc EXCEPT ![w] = "put_write"]
      /\ UNCHANGED <<path, stream, count, ret, faults, stored, spoiled, due>>
  BY DEF PutOpen, Goto, history
<1>2. /\ p \in Paths /\ stream[w] \in Seq(Blocks) /\ count[w] = 0
      /\ 0 < Len(stream[w]) /\ SubSeq(stream[w], 1, 0) = <<>>
      /\ due[w] = <<>> /\ <<>> \in Seq(Blocks)
  <2>1. p \in Paths /\ stream[w] # <<>> /\ count[w] = 0 /\ due[w] = <<>>
    BY <1>1 DEF IInv, All, Own, Local, Putting, Reading, Getting
  <2>2. stream[w] \in Seq(Blocks)
    BY <2>1, FileStoreAssumption DEF IInv, TypeOK
  <2> QED
    BY <2>1, <2>2
<1>3. ASSUME NEW n \in Nodes, node' = [node EXCEPT ![w] = n], data'[n] = <<>>,
             \A q \in DOMAIN tree' : tree'[q] = n => q = p
      PROVE  /\ Own(w)' /\ due'[w] = <<>> /\ pc'[w] = "put_write" /\ node'[w] = n
             /\ path'[w] = p /\ \A v \in Workers \ {w} : Stays(v)
             /\ node' \in [Workers -> Nodes \cup {Home, NoNode}]
             /\ pc' \in [Workers -> PCs]
  <2>1. pc'[w] = "put_write" /\ node'[w] = n /\ path'[w] = p /\ due'[w] = <<>>
    BY <1>1, <1>2, <1>3 DEF IInv, TypeOK
  <2>2. Local(w)' /\ HeldName(w)'
    BY <1>1, <1>2, <1>3, <2>1, FileStoreAssumption DEF Local, HeldName, Putting, Reading,
                                                       Getting, Listing
  <2>3. NotStored(w)' /\ NoFile(w)' /\ Written(w)' /\ Measured(w)'
    BY <1>1, <1>2, <1>3, <2>1 DEF IInv, All, Own, NotStored, NoFile, Written, Measured, Alone,
                                  Putting
  <2>4. \A v \in Workers \ {w} : Stays(v)
    BY <1>1, <1>3 DEF IInv, TypeOK, Stays
  <2>5. node' \in [Workers -> Nodes \cup {Home, NoNode}] /\ pc' \in [Workers -> PCs]
    BY <1>1, <1>3 DEF IInv, TypeOK, PCs, Putting
  <2> QED
    BY <2>1, <2>2, <2>3, <2>4, <2>5 DEF Own
<1>4. CASE IsFile(p) /\ data' = [data EXCEPT ![tree[p]] = <<>>]
           /\ node' = [node EXCEPT ![w] = tree[p]] /\ UNCHANGED tree
  <2>1. p \in DOMAIN tree /\ tree[p] \in Nodes /\ data[tree[p]] # Directory
    BY <1>4 DEF IInv, TypeOK, IsFile
  <2>2. data'[tree[p]] = <<>>
    BY <1>4, <2>1 DEF IInv, TypeOK
  <2>3. \A q \in DOMAIN tree : tree[q] = tree[p] => q = p
    BY <2>1 DEF IInv, OneName
  <2>4. TypeOK'
    BY <1>1, <1>2, <1>3, <1>4, <2>1, <2>2, <2>3, WriteTypes DEF IInv, TypeOK
  <2>5. path[w] \notin DOMAIN stored \ spoiled
    BY <1>1 DEF IInv, All, Own, NotStored, Alone, Putting
  <2> QED
    BY <1>1, <1>2, <1>3, <1>4, <2>1, <2>2, <2>3, <2>4, <2>5, WriteStep
<1>5. CASE ~Exists(p) /\ IsDir(Parent[p]) /\
           \E n \in Nodes : Free(n) /\ Link(p, n, <<>>) /\ node' = [node EXCEPT ![w] = n]
  <2>1. PICK n \in Nodes : Free(n) /\ Link(p, n, <<>>) /\ node' = [node EXCEPT ![w] = n]
    BY <1>5
  <2>2. p \notin DOMAIN tree /\ data'[n] = <<>> /\ \A q \in DOMAIN tree' : tree'[q] = n => q = p
    BY <1>5, <2>1 DEF IInv, TypeOK, Exists, Free, Link
  <2>3. TypeOK'
    BY <1>1, <1>2, <1>3, <1>5, <2>1, <2>2, LinkTypes DEF IInv, TypeOK
  <2> QED
    BY <1>1, <1>2, <1>3, <2>1, <2>2, <2>3, LinkStep DEF Putting
<1> QED
  BY <1>4, <1>5 DEF PutOpen

\* fwrite: one block more of an upload.
LEMMA BlockWritten ==
    ASSUME NEW w \in Workers, IInv, pc[w] = "put_write", NextBlock(w)
    PROVE  LET file == WriteAt(data[node[w]], count[w] + 1, stream[w][count[w] + 1]) IN
           /\ node[w] \in Nodes /\ data[node[w]] \in Seq(Blocks) /\ data[node[w]] # Directory
           /\ stream[w] \in Seq(Blocks) /\ stream[w] \in Streams
           /\ count[w] \in Nat /\ count[w] < Len(stream[w])
           /\ file \in Seq(Blocks) /\ Len(file) >= Len(data[node[w]])
           /\ data' = [data EXCEPT ![node[w]] = file] /\ data'[node[w]] = file
           /\ (Alone(w) /\ path[w] \in DOMAIN tree /\ tree[path[w]] = node[w])
                => file = SubSeq(stream[w], 1, count[w] + 1)
           /\ \A q \in DOMAIN tree : tree[q] = node[w] => q = path[w]
<1> DEFINE file == WriteAt(data[node[w]], count[w] + 1, stream[w][count[w] + 1])
<1>1. /\ node[w] \in Nodes /\ data[node[w]] # Directory /\ count[w] < Len(stream[w])
      /\ \A q \in DOMAIN tree : tree[q] = node[w] => q = path[w]
  BY DEF IInv, All, Own, Local, HeldName
<1>2. data[node[w]] \in Seq(Blocks) /\ count[w] \in Nat
  BY <1>1 DEF IInv, TypeOK
<1>3. stream[w] \in Seq(Blocks) /\ stream[w] \in Streams
  <2>1. Len(<<>>) = 0
    OBVIOUS
  <2> QED
    BY <1>1, <1>2, <2>1, FileStoreAssumption DEF IInv, TypeOK
<1>4. stream[w][count[w] + 1] \in Blocks
  <2>1. count[w] + 1 \in 1..Len(stream[w])
    BY <1>1, <1>2, <1>3
  <2> QED
    BY <1>3, <2>1
<1>5. file \in Seq(Blocks) /\ Len(file) >= Len(data[node[w]])
  <2>1. count[w] + 1 \in Nat /\ count[w] + 1 > 0
    BY <1>2
  <2> QED
    BY <1>2, <1>4, <2>1, Write
<1>6. data' = [data EXCEPT ![node[w]] = file] /\ data'[node[w]] = file
  BY <1>1 DEF IInv, TypeOK, NextBlock
<1>7. (Alone(w) /\ path[w] \in DOMAIN tree /\ tree[path[w]] = node[w])
        => file = SubSeq(stream[w], 1, count[w] + 1)
  <2> SUFFICES ASSUME Alone(w), path[w] \in DOMAIN tree, tree[path[w]] = node[w]
               PROVE  file = SubSeq(stream[w], 1, count[w] + 1)
    OBVIOUS
  <2>1. data[node[w]] = SubSeq(stream[w], 1, count[w])
    BY DEF IInv, All, Own, Written
  <2> QED
    BY <1>1, <1>2, <1>3, <2>1, WriteNext
<1> QED
  BY <1>1, <1>2, <1>3, <1>5, <1>6, <1>7

LEMMA PutWriteStep == ASSUME NEW w \in Workers, IInv, PutWrite(w) PROVE IInv'
<1> DEFINE file == WriteAt(data[node[w]], count[w] + 1, stream[w][count[w] + 1])
<1>1. /\ pc[w] = "put_write" /\ count[w] + 1 < Len(stream[w]) /\ NextBlock(w)
      /\ count' = [count EXCEPT ![w] = count[w] + 1]
      /\ UNCHANGED <<tree, pc, path, node, stream, ret, faults, stored, spoiled, due>>
  BY DEF PutWrite, history
<1>2. /\ node[w] \in Nodes /\ data[node[w]] # Directory
      /\ count[w] \in Nat /\ file \in Seq(Blocks) /\ Len(file) >= Len(data[node[w]])
      /\ data' = [data EXCEPT ![node[w]] = file] /\ data'[node[w]] = file
      /\ (Alone(w) /\ path[w] \in DOMAIN tree /\ tree[path[w]] = node[w])
           => file = SubSeq(stream[w], 1, count[w] + 1)
      /\ \A q \in DOMAIN tree : tree[q] = node[w] => q = path[w]
  BY <1>1, BlockWritten
<1> HIDE DEF file
<1>3. TypeOK'
  <2>1. count' \in [Workers -> Nat]
    BY <1>1, <1>2 DEF IInv, TypeOK
  <2> QED
    BY <1>1, <1>2, <2>1, WriteTypes DEF IInv, TypeOK
<1>4. count'[w] = count[w] + 1 /\ \A v \in Workers \ {w} : Stays(v)
  BY <1>1 DEF IInv, TypeOK, Stays
<1>5. file # Directory
  BY <1>2, FileStoreAssumption
<1>6. Own(w)'
  <2>1. Own(w)
    BY DEF IInv, All
  <2>2. Local(w)' /\ HeldName(w)' /\ NotStored(w)' /\ NoFile(w)' /\ Measured(w)'
    BY <1>1, <1>2, <1>4, <1>5, <2>1 DEF Own, Local, HeldName, NotStored, NoFile, Measured, Alone
  <2>3. Written(w)'
    BY <1>1, <1>2, <1>4 DEF Written, Alone
  <2> QED
    BY <2>2, <2>3 DEF Own
<1>7. due[w] = <<>> /\ path[w] \notin DOMAIN stored \ spoiled
  BY <1>1 DEF IInv, All, Own, Local, NotStored, Alone, Putting, Getting, Reading
<1> QED
  BY <1>1, <1>2, <1>3, <1>4, <1>6, <1>7, WriteStep

\* fclose: if nobody contests the name, and it still leads to the file, that
\* holds what was uploaded.
LEMMA PutCloseStep == ASSUME NEW w \in Workers, IInv, PutClose(w) PROVE IInv'
<1> DEFINE file == WriteAt(data[node[w]], count[w] + 1, stream[w][count[w] + 1])
<1>1. /\ pc[w] = "put_write" /\ count[w] + 1 = Len(stream[w]) /\ NextBlock(w)
      /\ Answer(w, "OP_SUCCESS")
      /\ stored' = IF path[w] \in DOMAIN tree /\ tree[path[w]] = node[w]
                     THEN [p \in DOMAIN stored \cup {path[w]} |->
                             IF p = path[w] THEN stream[w] ELSE stored[p]]
                     ELSE stored
      /\ UNCHANGED <<tree, faults, spoiled>>
  BY DEF PutClose, Record, Linked
<1>2. /\ node[w] \in Nodes /\ data[node[w]] # Directory
      /\ stream[w] \in Seq(Blocks) /\ stream[w] \in Streams
      /\ file \in Seq(Blocks) /\ Len(file) >= Len(data[node[w]])
      /\ data' = [data EXCEPT ![node[w]] = file] /\ data'[node[w]] = file
      /\ (Alone(w) /\ path[w] \in DOMAIN tree /\ tree[path[w]] = node[w])
           => file = SubSeq(stream[w], 1, count[w] + 1)
      /\ \A q \in DOMAIN tree : tree[q] = node[w] => q = path[w]
  BY <1>1, BlockWritten
<1> HIDE DEF file
<1>3. path[w] \in Paths
  BY <1>1 DEF IInv, All, Own, Local, Putting
<1>4. DOMAIN stored' \subseteq Paths /\ stored' \in [DOMAIN stored' -> Streams]
  <2>1. CASE path[w] \in DOMAIN tree /\ tree[path[w]] = node[w]
    BY <1>1, <1>2, <1>3, <2>1 DEF IInv, TypeOK
  <2>2. CASE ~(path[w] \in DOMAIN tree /\ tree[path[w]] = node[w])
    BY <1>1, <2>2 DEF IInv, TypeOK
  <2> QED
    BY <2>1, <2>2
<1>5. TypeOK'
  <2>1. /\ pc' \in [Workers -> PCs] /\ path' \in [Workers -> Targets]
        /\ node' \in [Workers -> Nodes \cup {Home, NoNode}]
        /\ stream' \in [Workers -> Streams \cup {<<>>}] /\ count' \in [Workers -> Nat]
        /\ ret' \in [Workers -> Codes] /\ due' \in [Workers -> Streams \cup {<<>>}]
    BY <1>1 DEF IInv, TypeOK, Answer, Respond, Goto, PCs, Targets, Codes
  <2> QED
    BY <1>1, <1>2, <1>4, <2>1, WriteTypes DEF IInv, TypeOK
<1>6. pc'[w] = "respond" /\ due'[w] = <<>> /\ \A v \in Workers \ {w} : Stays(v)
  BY <1>1 DEF IInv, TypeOK, Answer, Respond, Goto, Stays
<1>7. Own(w)'
  BY <1>1, <1>6 DEF IInv, TypeOK, Own, Local, HeldName, NotStored, NoFile, Written, Measured,
                    Alone, Answer, Respond, Putting, Reading, Getting, Listing
<1>8. ASSUME path[w] \in DOMAIN stored' \ spoiled
      PROVE  path[w] \in DOMAIN tree /\ data'[tree[path[w]]] = stored'[path[w]]
  <2>1. Alone(w) /\ path[w] \notin DOMAIN stored
    BY <1>1, <1>8 DEF IInv, All, Own, NotStored, Alone, Putting
  <2>2. path[w] \in DOMAIN tree /\ tree[path[w]] = node[w] /\ stored'[path[w]] = stream[w]
    BY <1>1, <1>8, <2>1
  <2>3. file = stream[w]
    BY <1>1, <1>2, <2>1, <2>2, Whole
  <2> QED
    BY <1>2, <2>2, <2>3
<1>9. /\ DOMAIN stored \subseteq DOMAIN stored'
      /\ DOMAIN stored' \subseteq DOMAIN stored \cup {path[w]}
      /\ \A q \in DOMAIN stored \ {path[w]} : stored'[q] = stored[q]
  BY <1>1
<1> QED
  BY <1>1, <1>2, <1>5, <1>6, <1>7, <1>8, <1>9, WriteStep DEF Putting

\* fclose loses the last block: what is recorded is marked.
LEMMA PutCloseLostStep == ASSUME NEW w \in Workers, IInv, PutCloseLost(w) PROVE IInv'
<1>1. /\ pc[w] = "put_write" /\ Answer(w, "OP_SUCCESS") /\ Record(w)
      /\ spoiled' = IF Linked(w) THEN spoiled \cup {path[w]} ELSE spoiled
      /\ faults' \in 0..MaxFaults /\ UNCHANGED kernel
  BY FileStoreAssumption DEF PutCloseLost, IInv, TypeOK
<1>2. CASE ~Linked(w)
  BY <1>1, <1>2, AnswerStep DEF Record, Codes
<1>3. CASE Linked(w)
  <2> DEFINE p == path[w]
  <2>1. p \in Paths /\ stream[w] \in Streams
    BY <1>1, FileStoreAssumption DEF IInv, TypeOK, All, Own, Local, Putting
  <2>2. /\ DOMAIN stored' = DOMAIN stored \cup {p} /\ stored' \in [DOMAIN stored' -> Streams]
        /\ \A q \in DOMAIN stored \ {p} : stored'[q] = stored[q]
    BY <1>1, <1>3, <2>1 DEF Record, IInv, TypeOK
  <2>3. /\ spoiled' = spoiled \cup {p} /\ p \notin DOMAIN stored \ spoiled
        /\ DOMAIN stored' \ spoiled' = DOMAIN stored \ spoiled
    BY <1>1, <1>3, <2>2 DEF IInv, All, Own, NotStored, Alone, Putting
  <2>4. TypeOK'
    <3>1. /\ pc' \in [Workers -> PCs] /\ path' \in [Workers -> Targets]
          /\ node' \in [Workers -> Nodes \cup {Home, NoNode}]
          /\ stream' \in [Workers -> Streams \cup {<<>>}] /\ count' \in [Workers -> Nat]
          /\ ret' \in [Workers -> Codes] /\ due' \in [Workers -> Streams \cup {<<>>}]
      BY <1>1 DEF IInv, TypeOK, Answer, Respond, Goto, PCs, Targets, Codes
    <3>2. DOMAIN stored' \subseteq Paths /\ spoiled' \subseteq Paths
      BY <2>1, <2>2, <2>3 DEF IInv, TypeOK
    <3> QED
      BY <1>1, <2>2, <3>1, <3>2 DEF IInv, TypeOK, kernel, IsDir
  <2>5. OneName' /\ AnsweredPutsStay'
    BY <1>1, <2>2, <2>3 DEF IInv, OneName, AnsweredPutsStay, kernel
  <2>6. /\ pc'[w] = "respond" /\ path'[w] = Home /\ node'[w] = NoNode /\ due'[w] = <<>>
        /\ stream'[w] = <<>> /\ count'[w] = 0
    BY <1>1 DEF IInv, TypeOK, Answer, Respond, Goto
  <2>7. Own(w)' /\ SoleUpload(w)' /\ Due(w)'
    BY <2>6 DEF Own, SoleUpload, Due, Local, HeldName, NotStored, NoFile, Written, Measured,
                Alone, Putting, Reading, Getting, Listing
  <2>8. ASSUME NEW v \in Workers \ {w} PROVE Own(v)' /\ SoleUpload(v)' /\ Due(v)'
    <3>1. Stays(v) /\ (Alone(v)' => Alone(v) /\ path[v] # p)
      BY <1>1, <2>3, <2>8 DEF IInv, TypeOK, Answer, Respond, Goto, Stays, Alone
    <3>2. Own(v)'
      BY <1>1, <2>2, <2>3, <3>1
         DEF IInv, All, Own, Stays, Local, HeldName, NotStored, NoFile, Written, Measured, Alone,
             kernel
    <3>3. SoleUpload(v)'
      BY <1>1, <2>6, <3>1 DEF IInv, TypeOK, All, SoleUpload, Alone, Stays, Answer, Respond, Goto,
                              Putting
    <3>4. Due(v)'
      <4>1. \A u \in Workers : pc'[u] = "put_write" => pc[u] = "put_write" /\ node'[u] = node[u]
        BY <1>1 DEF IInv, TypeOK, Answer, Respond, Goto
      <4>2. Kept(v) => Kept(v)' /\ stored'[path[v]] = stored[path[v]]
        BY <2>2, <2>3, <3>1 DEF Kept, Stays
      <4> QED
        BY <1>1, <3>1, <4>1, <4>2 DEF IInv, All, Due, Stays, kernel
    <3> QED
      BY <3>2, <3>3, <3>4
  <2> QED
    BY <2>4, <2>5, <2>7, <2>8 DEF IInv, All
<1> QED
  BY <1>2, <1>3
-----------------------------------------------------------------------------
\* unlink, of a name that is a file's: what was stored under it is gone with it.
LEMMA UnlinkStep == ASSUME NEW w \in Workers, IInv, Unlink(w) PROVE IInv'
<1> DEFINE p == path[w]
<1>1. /\ pc[w] = "unlink" /\ IsFile(p) /\ Respond(w, "OP_SUCCESS") /\ Remove(p)
      /\ due' = [v \in Workers |-> IF path[v] = p /\ node[v] = NoNode THEN <<>> ELSE due[v]]
      /\ stored' = [q \in DOMAIN stored \ {p} |-> stored[q]]
      /\ spoiled' = (IF \E v \in Workers \ {w} : path[v] = p THEN spoiled ELSE spoiled \ {p})
      /\ UNCHANGED <<data, faults>>
  BY DEF Unlink
<1>2. p \in Paths /\ \A q \in DOMAIN tree : Parent[q] # p
  BY <1>1, FileStoreAssumption DEF IInv, TypeOK, IsFile, IsDir
<1>3. /\ DOMAIN tree' \subseteq Paths /\ tree' \in [DOMAIN tree' -> Nodes]
      /\ \A q \in DOMAIN tree' : IsDir(Parent[q])'
  BY <1>1, <1>2, RemoveTypes DEF IInv, Remove
<1>4. DOMAIN stored' = DOMAIN stored \ {p} /\ \A q \in DOMAIN stored' : stored'[q] = stored[q]
  BY <1>1
<1>5. TypeOK'
  <2>1. /\ pc' \in [Workers -> PCs] /\ path' \in [Workers -> Targets]
        /\ node' \in [Workers -> Nodes \cup {Home, NoNode}]
        /\ stream' \in [Workers -> Streams \cup {<<>>}] /\ count' \in [Workers -> Nat]
        /\ ret' \in [Workers -> Codes]
    BY <1>1 DEF IInv, TypeOK, Respond, Goto, PCs, Targets, Codes
  <2>2. due' \in [Workers -> Streams \cup {<<>>}] /\ spoiled' \subseteq Paths
    BY <1>1 DEF IInv, TypeOK
  <2>3. DOMAIN stored' \subseteq Paths /\ stored' \in [DOMAIN stored' -> Streams]
    BY <1>1, <1>4 DEF IInv, TypeOK
  <2> QED
    BY <1>1, <1>3, <2>1, <2>2, <2>3 DEF IInv, TypeOK
<1>6. pc'[w] = "respond" /\ due'[w] = <<>>
  BY <1>1 DEF IInv, TypeOK, All, Own, Local, Respond, Goto, Putting, Getting, Reading, Listing
<1>7. Own(w)'
  BY <1>1, <1>6 DEF IInv, TypeOK, Own, Local, HeldName, NotStored, NoFile, Written, Measured,
                    Alone, Respond, Putting, Reading, Getting, Listing
<1>8. ASSUME NEW v \in Workers \ {w}
      PROVE  /\ pc'[v] = pc[v] /\ path'[v] = path[v] /\ node'[v] = node[v]
             /\ stream'[v] = stream[v] /\ count'[v] = count[v]
             /\ due'[v] \in {<<>>, due[v]}
             /\ (due'[v] # <<>> /\ pc[v] \in {"get_stat", "get_open"}) => path[v] # p
  <2>1. /\ pc'[v] = pc[v] /\ path'[v] = path[v] /\ node'[v] = node[v]
        /\ stream'[v] = stream[v] /\ count'[v] = count[v]
    BY <1>1, <1>8 DEF IInv, TypeOK, Respond, Goto
  <2>2. pc[v] \in {"get_stat", "get_open"} => node[v] = NoNode
    BY <1>8 DEF IInv, All, Own, Local, Reading, Listing
  <2> QED
    BY <1>1, <2>1, <2>2
<1>9. /\ spoiled \ {p} \subseteq spoiled' /\ spoiled' \subseteq spoiled
      /\ p \in spoiled \ spoiled' => \A v \in Workers \ {w} : path[v] # p
  BY <1>1
<1> QED
  BY <1>1, <1>2, <1>4, <1>5, <1>6, <1>7, <1>8, <1>9, RemoveStep DEF Remove

\* rmdir, of a directory that is empty by now.
LEMMA RmDirStep == ASSUME NEW w \in Workers, IInv, RmDir(w) PROVE IInv'
<1> DEFINE p == path[w]
<1>1. /\ pc[w] = "rmdir" /\ Answer(w, "OP_SUCCESS") /\ IsDir(p) /\ p # Home
      /\ Entries(NodeAt(p)) = {} /\ Remove(p)
      /\ UNCHANGED <<data, faults, stored, spoiled>>
  BY DEF RmDir
<1>2. p \in DOMAIN tree /\ p \in Paths /\ tree[p] \in Nodes /\ data[tree[p]] = Directory
  BY <1>1 DEF IInv, TypeOK, IsDir
<1>3. ASSUME NEW q \in DOMAIN tree, Parent[q] = p PROVE FALSE
  <2>1. q \in Entries(tree[p])
    BY <1>1, <1>2, <1>3 DEF IInv, TypeOK, Entries
  <2>2. NodeAt(p) = tree[p]
    BY <1>1, <1>2 DEF NodeAt, Exists
  <2> QED
    BY <1>1, <2>1, <2>2
<1>4. TypeOK'
  <2>1. /\ DOMAIN tree' \subseteq Paths /\ tree' \in [DOMAIN tree' -> Nodes]
        /\ \A q \in DOMAIN tree' : IsDir(Parent[q])'
    BY <1>1, <1>2, <1>3, RemoveTypes DEF IInv, Remove
  <2> QED
    BY <1>1, <2>1 DEF IInv, TypeOK, Answer, Respond, Goto, PCs, Targets, Codes
<1>5. p \notin DOMAIN stored \ spoiled
  BY <1>2, FileStoreAssumption DEF IInv, TypeOK, AnsweredPutsStay
<1>6. pc'[w] = "respond" /\ due'[w] = <<>> /\ \A v \in Workers \ {w} : Stays(v)
  BY <1>1 DEF IInv, TypeOK, Answer, Respond, Goto, Stays
<1>7. Own(w)'
  BY <1>1, <1>6 DEF IInv, TypeOK, Own, Local, HeldName, NotStored, NoFile, Written, Measured,
                    Alone, Answer, Respond, Putting, Reading, Getting, Listing
<1> QED
  BY <1>1, <1>2, <1>4, <1>5, <1>6, <1>7, RemoveStep DEF Remove, Stays

LEMMA MkdirStep == ASSUME NEW w \in Workers, IInv, Mkdir(w) PROVE IInv'
<1> DEFINE p == path[w]
<1>1. pc[w] = "mkdir" /\ p \in Targets /\ UNCHANGED <<faults, stored, spoiled>>
  BY DEF IInv, TypeOK, Mkdir
<1>2. CASE UNCHANGED kernel /\ \E code \in {"OP_DIR_EXISTS", "OP_FAILURE"} : Answer(w, code)
  BY <1>1, <1>2, AnswerStep DEF IInv, TypeOK, Codes
<1>3. CASE ~Exists(p) /\ IsDir(Parent[p]) /\ Answer(w, "OP_SUCCESS")
           /\ \E n \in Nodes : Free(n) /\ Link(p, n, Directory)
  <2>1. PICK n \in Nodes : Free(n) /\ Link(p, n, Directory)
    BY <1>3
  <2>2. p \in Paths /\ p \notin DOMAIN tree
    BY <1>1, <1>3 DEF Exists, Targets
  <2>3. TypeOK'
    <3>1. /\ pc' \in [Workers -> PCs] /\ path' \in [Workers -> Targets]
          /\ node' \in [Workers -> Nodes \cup {Home, NoNode}]
          /\ stream' \in [Workers -> Streams \cup {<<>>}] /\ count' \in [Workers -> Nat]
          /\ ret' \in [Workers -> Codes] /\ due' \in [Workers -> Streams \cup {<<>>}]
      BY <1>3 DEF IInv, TypeOK, Answer, Respond, Goto, PCs, Targets, Codes
    <3> QED
      BY <1>1, <1>3, <2>1, <2>2, <3>1, LinkTypes DEF IInv, TypeOK
  <2>4. pc'[w] = "respond" /\ due'[w] = <<>> /\ \A v \in Workers \ {w} : Stays(v)
    BY <1>3 DEF IInv, TypeOK, Answer, Respond, Goto, Stays
  <2>5. Own(w)'
    BY <1>3, <2>4 DEF IInv, TypeOK, Own, Local, HeldName, NotStored, NoFile, Written, Measured,
                      Alone, Answer, Respond, Putting, Reading, Getting, Listing
  <2> QED
    BY <1>1, <2>1, <2>2, <2>3, <2>4, <2>5, LinkStep DEF Putting
<1> QED
  BY <1>2, <1>3 DEF Mkdir
-----------------------------------------------------------------------------
\* The steps that end a request and leave the tree alone.
LEMMA LastStep ==
    ASSUME NEW w \in Workers, IInv,
           \/ PutOpenFails(w) \/ PutFails(w) \/ GetRead(w) \/ UnlinkFails(w) \/ RmDirFails(w)
           \/ LsReadDir(w) \/ GetDirectory(w)
           \/ \E p \in Targets : NotResolved(w, p) \/ PutExisting(w, p)
    PROVE  IInv'
<1>1. CASE ServerEnds
  BY <1>1, EndStep
<1>2. CASE ~ServerEnds
  <2>1. /\ \E code \in Codes : Answer(w, code)
        /\ faults' \in 0..MaxFaults /\ UNCHANGED <<kernel, stored, spoiled>>
    <3>1. CASE PutFails(w)
      BY <3>1, FileStoreAssumption DEF IInv, TypeOK, PutFails, Codes
    <3>2. CASE PutOpenFails(w)
      BY <3>2 DEF IInv, TypeOK, PutOpenFails, Codes
    <3>3. CASE GetRead(w) \/ LsReadDir(w) \/ GetDirectory(w)
      BY <1>2, <3>3 DEF IInv, TypeOK, GetRead, LsReadDir, GetDirectory, Codes
    <3>4. CASE UnlinkFails(w) \/ RmDirFails(w)
      BY <3>4 DEF IInv, TypeOK, UnlinkFails, RmDirFails, Codes
    <3>5. CASE \E p \in Targets : NotResolved(w, p) \/ PutExisting(w, p)
      BY <3>5 DEF IInv, TypeOK, NotResolved, PutExisting, Codes
    <3> QED
      BY <3>1, <3>2, <3>3, <3>4, <3>5
  <2> QED
    BY <2>1, AnswerStep
<1> QED
  BY <1>1, <1>2

\* The looks at the tree, whether they go on or not.
LEMMA StatStep ==
    ASSUME NEW w \in Workers, IInv,
           \/ GetStat(w) \/ DelStat(w) \/ DelReadDir(w) \/ LsStat(w)
           \/ DelOpenDir(w) \/ LsOpenDir(w)
    PROVE  IInv'
<1>1. CASE pc'[w] # "respond"
  BY <1>1, LookStep, OpenDirStep
<1>2. CASE pc'[w] = "respond"
  <2>1. ~DelOpenDir(w)
    BY <1>2 DEF IInv, TypeOK, DelOpenDir, Goto
  <2>2. /\ \E code \in Codes : Answer(w, code)
        /\ faults' \in 0..MaxFaults /\ UNCHANGED <<kernel, stored, spoiled>>
    <3>1. CASE GetStat(w) \/ LsStat(w)
      BY <1>2, <3>1 DEF IInv, TypeOK, GetStat, LsStat, Goto, Codes
    <3>2. CASE DelStat(w) \/ DelReadDir(w) \/ LsOpenDir(w)
      BY <1>2, <3>2 DEF IInv, TypeOK, DelStat, DelReadDir, LsOpenDir, Goto, Codes
    <3> QED
      BY <2>1, <3>1, <3>2
  <2> QED
    BY <2>2, AnswerStep
<1> QED
  BY <1>1, <1>2

\* Every step keeps the inductive invariant.
LEMMA IInvNext == IInv /\ [Next]_vars => IInv'
<1> SUFFICES ASSUME IInv, [Next]_vars PROVE IInv'
  OBVIOUS
<1>1. ASSUME NEW w \in Workers, Step(w) PROVE IInv'
  <2>1. CASE PutResolve(w) \/ PutOpen(w) \/ PutWrite(w) \/ PutClose(w) \/ PutCloseLost(w)
    BY <2>1, PutResolveStep, PutOpenStep, PutWriteStep, PutCloseStep, PutCloseLostStep
  <2>2. CASE GetOpen(w) \/ GetMeasure(w)
    BY <2>2, GetOpenStep, GetMeasureStep
  <2>3. CASE GetAborts(w) \/ DelAborts(w)
    BY <2>3, EndStep DEF GetAborts, DelAborts
  <2>4. CASE Unlink(w) \/ RmDir(w) \/ Mkdir(w)
    BY <2>4, UnlinkStep, RmDirStep, MkdirStep
  <2>5. CASE \/ PutOpenFails(w) \/ PutFails(w) \/ GetDirectory(w) \/ GetRead(w)
             \/ UnlinkFails(w) \/ RmDirFails(w) \/ LsReadDir(w)
    BY <2>5, LastStep
  <2>6. CASE \/ GetStat(w) \/ DelStat(w) \/ DelReadDir(w) \/ LsStat(w)
             \/ DelOpenDir(w) \/ LsOpenDir(w)
    BY <2>6, StatStep
  <2>7. CASE Reply(w)
    BY <2>7, ReplyStep
  <2> QED
    BY <1>1, <2>1, <2>2, <2>3, <2>4, <2>5, <2>6, <2>7 DEF Step
<1>2. ASSUME NEW w \in Workers, NEW p \in Targets, Request(w, p) PROVE IInv'
  <2>1. CASE \E s \in Streams : Put(w, p, s) \/ PutUnseen(w, p, s)
    BY <2>1, PutStep, PutUnseenStep
  <2>2. CASE Get(w, p) \/ Delete(w, p) \/ MakeDir(w, p) \/ List(w, p)
    BY <2>2, BeginStep
  <2>3. CASE PutExisting(w, p) \/ NotResolved(w, p)
    BY <2>3, LastStep
  <2> QED
    BY <1>2, <2>1, <2>2, <2>3 DEF Request
<1>3. CASE Crash
  BY <1>3, EndStep DEF Crash
<1>4. CASE UNCHANGED vars
  <2>1. TypeOK' /\ OneName' /\ AnsweredPutsStay'
    BY <1>4 DEF IInv, TypeOK, OneName, AnsweredPutsStay, IsDir, vars, kernel, locals, history
  <2>2. All'
    BY <1>4 DEF IInv, All, Own, SoleUpload, Due, Kept, Local, HeldName, Alone, NotStored, NoFile,
                Written, Measured, vars, kernel, locals, history
  <2> QED
    BY <2>1, <2>2 DEF IInv
<1> QED
  BY <1>1, <1>2, <1>3, <1>4 DEF Next
-----------------------------------------------------------------------------
\* The variables of FileStore keep their types, and what has a name lies in a
\* directory.
THEOREM TypeCorrect == Spec => []TypeOK
<1>1. IInv => TypeOK
  BY DEF IInv
<1> QED
  BY <1>1, IInvInit, IInvNext, PTL DEF Spec

\* What do_put_file answered OP_SUCCESS stays until do_del_file removes it by
\* its name, however many workers do what else, unless an upload overlapped
\* another one, was let over the file or lost its last block.
THEOREM PutsStay == Spec => []AnsweredPutsStay
<1>1. IInv => AnsweredPutsStay
  BY DEF IInv
<1> QED
  BY <1>1, IInvInit, IInvNext, PTL DEF Spec

\* do_get_file sends all of a file that was stored before it began, and that no
\* upload is let over.
THEOREM WholeReads == Spec => []ReadsAreWhole
<1>1. ASSUME IInv PROVE ReadsAreWhole
  <2> SUFFICES ASSUME NEW w \in Workers, pc[w] = "get_read", due[w] # <<>>
               PROVE  Bytes(w) = due[w]
    BY DEF ReadsAreWhole
  <2>1. data[node[w]] = due[w] /\ count[w] = Len(due[w])
    BY <1>1 DEF IInv, All, Due, Reading
  <2>2. due[w] \in Seq(Blocks)
    BY <1>1, FileStoreAssumption DEF IInv, TypeOK
  <2> QED
    BY <2>1, <2>2, Whole DEF Bytes
<1> QED
  BY <1>1, IInvInit, IInvNext, PTL DEF Spec

\* f_read_file closes its stream twice only for a file whose uploads overlapped,
\* were let over it or lost its end.
THEOREM FittingReads == Spec => []ReadsFit
<1>1. ASSUME IInv PROVE ReadsFit
  <2> SUFFICES ASSUME NEW w \in Workers, ShortRead(w), path[w] \notin spoiled PROVE FALSE
    BY DEF ReadsFit
  <2>1. node[w] \in Nodes /\ data[node[w]] \in Seq(Blocks) /\ count[w] \in Nat
    BY <1>1 DEF IInv, TypeOK, All, Own, Local, ShortRead, Reading
  <2>2. count[w] <= Len(data[node[w]]) /\ Len(data[node[w]]) < count[w]
    BY <1>1 DEF IInv, All, Own, Measured, ShortRead
  <2> QED
    BY <2>1, <2>2
<1> QED
  BY <1>1, IInvInit, IInvNext, PTL DEF Spec
=============================================================================
