------------------------------ MODULE FileStore ------------------------------
(***************************************************************************)
(* The file operations of the server: do_put_file, do_get_file,            *)
(* do_del_file, do_make_dir and do_list_dir (src/src/server/server_ctrl.c) *)
(* on the tree under the home directory, with f_write_file, f_read_file,   *)
(* f_del_file, f_create_dir and f_list_dir                                 *)
(* (src/src/server/server_file_api.c).  Each worker runs one of them at a  *)
(* time, without a lock: an action is the run of code up to one system     *)
(* call that touches the tree, and what follows it.                        *)
(*                                                                         *)
(* The kernel's part is the tree of names, and the nodes (files and        *)
(* directories) they lead to: a node that is open survives its name.  A    *)
(* path of a request stands for where it leads in the tree; any place has  *)
(* paths too that f_path_resolve does not find it by (module Paths has     *)
(* their texts).  Paths outside, and .cape, are left out, except that      *)
(* .cape keeps the home directory from being empty.  A file is a sequence  *)
(* of blocks, one a write.  Permissions are not modelled here: the request *)
(* is one its user may make.                                               *)
(***************************************************************************)
EXTENDS Naturals, Sequences, FiniteSets

CONSTANTS
    Workers,    \* the threads of the pool
    Paths,      \* names in the tree
    Home,       \* the home directory
    Parent,     \* the directory a path is in
    Nodes,      \* what the kernel can allocate for files and directories
    NoNode,     \* a handle that is not open, NULL
    Directory,  \* in place of the blocks of a directory
    Blocks, Zeros,
    Streams,    \* what clients upload; <<>> is an upload without bytes
    MaxFaults   \* bound: writes that fail in one behaviour

ASSUME FileStoreAssumption ==
    /\ Home \notin Paths \cup Nodes
    /\ Parent \in [Paths -> Paths \cup {Home}]
    /\ NoNode \notin Nodes
    /\ Directory \notin Seq(Blocks) /\ Zeros \in Blocks
    /\ Streams \subseteq Seq(Blocks)
    /\ MaxFaults \in Nat

Targets == Paths \cup {Home}
Codes == {"NONE", "OP_SUCCESS", "OP_FAILURE", "OP_RESOLVE_ERROR", "OP_IO_ERROR",
          "OP_FILE_EXISTS", "OP_FILE_EMPTY", "OP_PATH_NOT_FILE",
          "OP_DIR_EXISTS", "OP_DIR_EMPTY", "OP_DIR_NOT_EMPTY", "OP_PATH_NOT_DIR"}
Putting == {"put_resolve", "put_open", "put_write"}
PCs == Putting \cup
       {"idle", "get_stat", "get_open", "get_measure", "get_read",
        "del_stat", "unlink", "del_opendir", "del_readdir", "rmdir",
        "mkdir", "ls_stat", "ls_opendir", "ls_readdir", "respond"}
-----------------------------------------------------------------------------
VARIABLES
    tree,       \* the names in use, and the node of each
    data,       \* the blocks of each node
    pc,         \* where each worker is
    path,       \* the path of its request
    node,       \* the node it has open
    stream,     \* p_byte_stream: what it uploads
    count,      \* blocks it has written, or file_size
    ret,        \* the code it answers with
    faults,     \* writes that have failed so far
    stored,     \* history: what the files hold whose upload was answered OP_SUCCESS
    spoiled,    \* history: paths with an upload that overlapped another one, was
                \* let over a file, or lost its last block unnoticed
    due         \* history: what a worker is to read of a file stored before it
                \* began, unless it is removed before it is opened, or an upload
                \* let over it

kernel  == <<tree, data>>
locals  == <<pc, path, node, stream, count, ret>>
history == <<stored, spoiled, due>>
vars    == <<kernel, locals, faults, history>>

Init ==
    /\ tree = [p \in {} |-> NoNode]
    /\ data = [n \in Nodes |-> <<>>]
    /\ pc = [w \in Workers |-> "idle"]
    /\ path = [w \in Workers |-> Home]
    /\ node = [w \in Workers |-> NoNode]
    /\ stream = [w \in Workers |-> <<>>]
    /\ count = [w \in Workers |-> 0]
    /\ ret = [w \in Workers |-> "NONE"]
    /\ faults = 0
    /\ stored = [p \in {} |-> <<>>]
    /\ spoiled = {}
    /\ due = [w \in Workers |-> <<>>]
-----------------------------------------------------------------------------
(***************************************************************************)
(* The kernel.                                                             *)
(***************************************************************************)
Exists(p) == p \in DOMAIN tree \cup {Home}
IsDir(p)  == p = Home \/ (p \in DOMAIN tree /\ data[tree[p]] = Directory)
IsFile(p) == p \in DOMAIN tree /\ data[tree[p]] # Directory

\* What readdir yields for an open directory, "." and ".." left out.
Entries(n) == {p \in DOMAIN tree : IF Parent[p] = Home THEN n = Home
                 ELSE Parent[p] \in DOMAIN tree /\ n = tree[Parent[p]]}

NodeAt(p) == IF p = Home THEN Home ELSE IF Exists(p) THEN tree[p] ELSE NoNode

Free(n) == (\A p \in DOMAIN tree : tree[p] # n) /\ (\A w \in Workers : node[w] # n)

\* A new node under a name, and its removal.
Link(p, n, content) ==
    /\ tree' = [q \in DOMAIN tree \cup {p} |-> IF q = p THEN n ELSE tree[q]]
    /\ data' = [data EXCEPT ![n] = content]

Remove(p) == tree' = [q \in DOMAIN tree \ {p} |-> tree[q]]

\* A block is written at a worker's own offset; what another upload truncated
\* before it reads as zeros.
WriteAt(file, i, block) ==
    [j \in 1..(IF Len(file) < i THEN i ELSE Len(file)) |->
        IF j = i THEN block ELSE IF j <= Len(file) THEN file[j] ELSE Zeros]
-----------------------------------------------------------------------------
Goto(w, to) == pc' = [pc EXCEPT ![w] = to]

\* A request for p begins; its first step has looked p up.
Begin(w, p, to) ==
    /\ pc[w] = "idle"
    /\ Goto(w, to)
    /\ path' = [path EXCEPT ![w] = p]

\* set_resp, with everything closed.
Respond(w, code) ==
    /\ Goto(w, "respond")
    /\ ret' = [ret EXCEPT ![w] = code]
    /\ path' = [path EXCEPT ![w] = Home]
    /\ node' = [node EXCEPT ![w] = NoNode]
    /\ stream' = [stream EXCEPT ![w] = <<>>]
    /\ count' = [count EXCEPT ![w] = 0]

Answer(w, code) ==
    /\ Respond(w, code)
    /\ due' = [due EXCEPT ![w] = <<>>]

\* The response is on its way.
Reply(w) ==
    /\ pc[w] = "respond"
    /\ Goto(w, "idle")
    /\ ret' = [ret EXCEPT ![w] = "NONE"]
    /\ UNCHANGED <<kernel, path, node, stream, count, faults, history>>

\* The process is gone, by a signal or because a worker used a handle it does
\* not have; the tree stays, and another process goes on with it.
ServerEnds ==
    /\ pc' = [w \in Workers |-> "idle"]
    /\ path' = [w \in Workers |-> Home]
    /\ node' = [w \in Workers |-> NoNode]
    /\ stream' = [w \in Workers |-> <<>>]
    /\ count' = [w \in Workers |-> 0]
    /\ ret' = [w \in Workers |-> "NONE"]
    /\ due' = [w \in Workers |-> <<>>]
    /\ UNCHANGED <<kernel, faults, stored, spoiled>>

Crash == (\E w \in Workers : pc[w] # "idle") /\ ServerEnds

\* The path does not resolve: nothing is there, or it is written so that it is
\* not found, with a slash behind a file, with "." for the name of what is to be
\* made, or at too great a length.
NotResolved(w, p) ==
    /\ pc[w] = "idle"
    /\ Answer(w, "OP_RESOLVE_ERROR")
    /\ UNCHANGED <<kernel, faults, stored, spoiled>>
-----------------------------------------------------------------------------
(***************************************************************************)
(* do_put_file.                                                            *)
(***************************************************************************)

\* f_ver_path_resolve finds what is there.  The home directory, when it does not,
\* cannot be opened.
PutExisting(w, p) ==
    /\ pc[w] = "idle"
    /\ Exists(p)
    /\ \/ Answer(w, "OP_FILE_EXISTS")
       \/ p = Home /\ Answer(w, "OP_FAILURE")
    /\ UNCHANGED <<kernel, faults, stored, spoiled>>

\* Mutant: f_write_file without the look-up before it.
PutUnchecked(w, p, s) ==
    /\ p # Home /\ ~IsDir(p)
    /\ Begin(w, p, "put_resolve")
    /\ stream' = [stream EXCEPT ![w] = s]
    /\ spoiled' = IF \E v \in Workers : pc[v] \in Putting /\ path[v] = p
                      THEN spoiled \cup {p} ELSE spoiled
    /\ UNCHANGED <<kernel, node, count, ret, faults, stored, due>>

\* f_ver_path_resolve finds nothing: the name is free at this time.
Put(w, p, s) ==
    /\ ~Exists(p)
    /\ Begin(w, p, "put_resolve")
    /\ stream' = [stream EXCEPT ![w] = s]
    /\ spoiled' = IF \E v \in Workers : pc[v] \in Putting /\ path[v] = p
                      THEN spoiled \cup {p} ELSE spoiled
    /\ UNCHANGED <<kernel, node, count, ret, faults, stored, due>>

\* It finds nothing, though something is there: a file by a path with a slash at
\* its end, or anything by a path that is too long for f_path_resolve.  Neither
\* stops f_valid_resolve.
PutUnseen(w, p, s) ==
    /\ Exists(p) /\ p # Home
    /\ Begin(w, p, "put_resolve")
    /\ stream' = [stream EXCEPT ![w] = s]
    /\ spoiled' = spoiled \cup {p}
    /\ due' = [v \in Workers |-> IF path[v] = p THEN <<>> ELSE due[v]]
    /\ UNCHANGED <<kernel, node, count, ret, faults, stored>>

\* f_ver_valid_resolve: what the name is to be in has to resolve, directory or
\* not.
PutResolve(w) ==
    /\ pc[w] = "put_resolve"
    /\ \/ /\ Exists(Parent[path[w]]) /\ stream[w] # <<>>
          /\ Goto(w, "put_open")
          /\ UNCHANGED <<path, node, stream, count, ret, due>>
       \/ ~Exists(Parent[path[w]]) /\ Answer(w, "OP_RESOLVE_ERROR")
       \/ /\ Exists(Parent[path[w]]) /\ stream[w] = <<>>
          /\ Answer(w, "OP_FAILURE")
    /\ UNCHANGED <<kernel, faults, stored, spoiled>>

\* fopen with mode "w" makes a file, or truncates the one that is there.
PutOpen(w) ==
    LET p == path[w] IN
    /\ pc[w] = "put_open"
    /\ Goto(w, "put_write")
    /\ \/ /\ IsFile(p)
          /\ data' = [data EXCEPT ![tree[p]] = <<>>]
          /\ node' = [node EXCEPT ![w] = tree[p]]
          /\ UNCHANGED tree
       \/ /\ ~Exists(p) /\ IsDir(Parent[p])
          /\ \E n \in Nodes : /\ Free(n)
                              /\ Link(p, n, <<>>)
                              /\ node' = [node EXCEPT ![w] = n]
    /\ UNCHANGED <<path, stream, count, ret, faults, history>>

\* ... or fails, in one way or another.
PutOpenFails(w) ==
    LET p == path[w] IN
    /\ pc[w] = "put_open"
    /\ \/ IsDir(p) /\ Answer(w, "OP_FAILURE")
       \/ ~Exists(Parent[p]) /\ Answer(w, "OP_FAILURE")
       \/ IsFile(Parent[p]) /\ Answer(w, "OP_PATH_NOT_FILE")
    /\ UNCHANGED <<kernel, faults, stored, spoiled>>

NextBlock(w) ==
    data' = [data EXCEPT ![node[w]] = WriteAt(@, count[w] + 1, stream[w][count[w] + 1])]

\* fwrite, as far as the buffer does not hold it ...
PutWrite(w) ==
    /\ pc[w] = "put_write"
    /\ count[w] + 1 < Len(stream[w])
    /\ NextBlock(w)
    /\ count' = [count EXCEPT ![w] = @ + 1]
    /\ UNCHANGED <<tree, pc, path, node, stream, ret, faults, history>>

\* By the end the name may be gone again, or lead elsewhere.
Linked(w) == path[w] \in DOMAIN tree /\ tree[path[w]] = node[w]

Record(w) ==
    stored' = IF Linked(w) THEN [p \in DOMAIN stored \cup {path[w]} |->
                                   IF p = path[w] THEN stream[w] ELSE stored[p]]
              ELSE stored

\* ... and fclose.
PutClose(w) ==
    /\ pc[w] = "put_write"
    /\ count[w] + 1 = Len(stream[w])
    /\ NextBlock(w)
    /\ Answer(w, "OP_SUCCESS")
    /\ Record(w)
    /\ UNCHANGED <<tree, faults, spoiled>>

\* fwrite gets no more blocks.  What was written stays.
PutFails(w) ==
    /\ pc[w] = "put_write"
    /\ faults < MaxFaults
    /\ faults' = faults + 1
    /\ Answer(w, "OP_FAILURE")
    /\ UNCHANGED <<kernel, stored, spoiled>>

\* fclose loses the last block, and its result is not looked at.
PutCloseLost(w) ==
    /\ pc[w] = "put_write"
    /\ count[w] + 1 = Len(stream[w])
    /\ faults < MaxFaults
    /\ faults' = faults + 1
    /\ Answer(w, "OP_SUCCESS")
    /\ Record(w)
    /\ spoiled' = IF Linked(w) THEN spoiled \cup {path[w]} ELSE spoiled
    /\ UNCHANGED kernel
-----------------------------------------------------------------------------
(***************************************************************************)
(* do_get_file.                                                            *)
(***************************************************************************)
Get(w, p) ==
    /\ Exists(p)
    /\ Begin(w, p, "get_stat")
    /\ due' = IF p \in DOMAIN stored \ spoiled THEN [due EXCEPT ![w] = stored[p]] ELSE due
    /\ UNCHANGED <<kernel, node, stream, count, ret, faults, stored, spoiled>>

\* stat and S_ISREG.
GetStat(w) ==
    /\ pc[w] = "get_stat"
    /\ \/ /\ IsFile(path[w])
          /\ Goto(w, "get_open")
          /\ UNCHANGED <<path, node, stream, count, ret, due>>
       \/ ~Exists(path[w]) /\ Answer(w, "OP_IO_ERROR")
       \/ IsDir(path[w]) /\ Answer(w, "OP_PATH_NOT_FILE")
    /\ UNCHANGED <<kernel, faults, stored, spoiled>>

\* fopen with mode "r", which opens a directory too.
GetOpen(w) ==
    /\ pc[w] = "get_open"
    /\ \/ /\ Exists(path[w])
          /\ Goto(w, "get_measure")
          /\ node' = [node EXCEPT ![w] = tree[path[w]]]
          /\ UNCHANGED <<path, stream, count, ret, due>>
       \/ ~Exists(path[w]) /\ Answer(w, "OP_IO_ERROR")
    /\ UNCHANGED <<kernel, faults, stored, spoiled>>

\* Mutant: the end is taken for the last block.
GetMeasureShort(w) ==
    /\ pc[w] = "get_measure"
    /\ Goto(w, "get_read")
    /\ data[node[w]] # Directory
    /\ count' = [count EXCEPT ![w] = Len(data[node[w]]) - 1]
    /\ UNCHANGED <<kernel, path, node, stream, ret, faults, history>>

\* fseek and ftell.
GetMeasure(w) ==
    /\ pc[w] = "get_measure"
    /\ Goto(w, "get_read")
    /\ data[node[w]] # Directory
    /\ count' = [count EXCEPT ![w] = Len(data[node[w]])]
    /\ UNCHANGED <<kernel, path, node, stream, ret, faults, history>>

\* A directory does not seek, or has a size no buffer has, or does not read.
GetDirectory(w) ==
    /\ pc[w] = "get_measure"
    /\ data[node[w]] = Directory
    /\ \/ /\ \E code \in {"OP_IO_ERROR", "OP_FAILURE"} : Answer(w, code)
          /\ UNCHANGED <<stored, spoiled>>
       \/ ServerEnds
    /\ UNCHANGED <<kernel, faults>>

\* What fread puts into the buffer, and what the client gets.
Bytes(w) == SubSeq(data[node[w]], 1, count[w])

\* fread gets less than ftell promised.
ShortRead(w) == pc[w] = "get_read" /\ Len(data[node[w]]) < count[w]

GetRead(w) ==
    /\ pc[w] = "get_read"
    /\ ~ShortRead(w)
    /\ Answer(w, IF Bytes(w) = <<>> THEN "OP_FILE_EMPTY" ELSE "OP_SUCCESS")
    /\ UNCHANGED <<kernel, faults, stored, spoiled>>

\* The stream is closed a second time, under cleanup_close.
GetAborts(w) == ShortRead(w) /\ ServerEnds
-----------------------------------------------------------------------------
(***************************************************************************)
(* do_del_file, do_make_dir and do_list_dir.                               *)
(***************************************************************************)
Delete(w, p) ==
    /\ Exists(p)
    /\ Begin(w, p, "del_stat")
    /\ UNCHANGED <<kernel, node, stream, count, ret, faults, history>>

DelStat(w) ==
    /\ pc[w] = "del_stat"
    /\ \/ /\ Exists(path[w])
          /\ pc' = [pc EXCEPT ![w] = IF IsFile(path[w]) THEN "unlink" ELSE "del_opendir"]
          /\ UNCHANGED <<path, node, stream, count, ret, due>>
       \/ ~Exists(path[w]) /\ Answer(w, "OP_FAILURE")
    /\ UNCHANGED <<kernel, faults, stored, spoiled>>

Unlink(w) ==
    LET p == path[w] IN
    /\ pc[w] = "unlink"
    /\ IsFile(p)
    /\ Respond(w, "OP_SUCCESS")
    /\ Remove(p)
    /\ due' = [v \in Workers |-> IF path[v] = p /\ node[v] = NoNode THEN <<>> ELSE due[v]]
    /\ stored' = [q \in DOMAIN stored \ {p} |-> stored[q]]
    /\ spoiled' = IF \E v \in Workers \ {w} : path[v] = p THEN spoiled ELSE spoiled \ {p}
    /\ UNCHANGED <<data, faults>>

UnlinkFails(w) ==
    /\ pc[w] = "unlink"
    /\ ~IsFile(path[w])
    /\ Answer(w, "OP_FAILURE")
    /\ UNCHANGED <<kernel, faults, stored, spoiled>>

\* opendir, whose result is not looked at.
DelOpenDir(w) ==
    /\ pc[w] = "del_opendir"
    /\ Goto(w, "del_readdir")
    /\ node' = [node EXCEPT ![w] = IF IsDir(path[w]) THEN NodeAt(path[w]) ELSE NoNode]
    /\ UNCHANGED <<kernel, path, stream, count, ret, faults, history>>

\* More entries than "." and ".."?
DelReadDir(w) ==
    /\ pc[w] = "del_readdir"
    /\ node[w] # NoNode
    /\ \/ /\ node[w] # Home /\ Entries(node[w]) = {}
          /\ Goto(w, "rmdir")
          /\ node' = [node EXCEPT ![w] = NoNode]
          /\ UNCHANGED <<path, stream, count, ret, due>>
       \/ /\ node[w] = Home \/ Entries(node[w]) # {}
          /\ Answer(w, "OP_DIR_NOT_EMPTY")
    /\ UNCHANGED <<kernel, faults, stored, spoiled>>

NoHandle(w) == pc[w] = "del_readdir" /\ node[w] = NoNode

\* readdir of a null pointer.
DelAborts(w) == NoHandle(w) /\ ServerEnds

\* Mutant: what was counted empty is removed with all that is in it.
RmTree(w) ==
    LET p == path[w] IN
    /\ pc[w] = "rmdir"
    /\ Answer(w, "OP_SUCCESS")
    /\ IsDir(p) /\ p # Home
    /\ tree' = [q \in DOMAIN tree \ ({p} \cup Entries(tree[p])) |-> tree[q]]
    /\ UNCHANGED <<data, faults, stored, spoiled>>

\* rmdir, which looks again.
RmDir(w) ==
    LET p == path[w] IN
    /\ pc[w] = "rmdir"
    /\ Answer(w, "OP_SUCCESS")
    /\ IsDir(p) /\ p # Home /\ Entries(NodeAt(p)) = {}
    /\ Remove(p)
    /\ UNCHANGED <<data, faults, stored, spoiled>>

RmDirFails(w) ==
    /\ pc[w] = "rmdir"
    /\ ~IsDir(path[w]) \/ Entries(NodeAt(path[w])) # {}
    /\ Answer(w, "OP_FAILURE")
    /\ UNCHANGED <<kernel, faults, stored, spoiled>>

\* f_ver_valid_resolve, by which the home directory resolves as "/".
MakeDir(w, p) ==
    /\ p # Home => Exists(Parent[p])
    /\ Begin(w, p, "mkdir")
    /\ UNCHANGED <<kernel, node, stream, count, ret, faults, history>>

Mkdir(w) ==
    LET p == path[w] IN
    /\ pc[w] = "mkdir"
    /\ \/ Exists(p) /\ Answer(w, "OP_DIR_EXISTS") /\ UNCHANGED kernel
       \/ /\ ~Exists(p) /\ ~IsDir(Parent[p])
          /\ Answer(w, "OP_FAILURE")
          /\ UNCHANGED kernel
       \/ /\ ~Exists(p) /\ IsDir(Parent[p])
          /\ Answer(w, "OP_SUCCESS")
          /\ \E n \in Nodes : Free(n) /\ Link(p, n, Directory)
    /\ UNCHANGED <<faults, stored, spoiled>>

List(w, p) ==
    /\ Exists(p)
    /\ Begin(w, p, "ls_stat")
    /\ UNCHANGED <<kernel, node, stream, count, ret, faults, history>>

LsStat(w) ==
    /\ pc[w] = "ls_stat"
    /\ \/ /\ IsDir(path[w])
          /\ Goto(w, "ls_opendir")
          /\ UNCHANGED <<path, node, stream, count, ret, due>>
       \/ ~Exists(path[w]) /\ Answer(w, "OP_IO_ERROR")
       \/ IsFile(path[w]) /\ Answer(w, "OP_PATH_NOT_DIR")
    /\ UNCHANGED <<kernel, faults, stored, spoiled>>

\* opendir, whose result is looked at here.
LsOpenDir(w) ==
    /\ pc[w] = "ls_opendir"
    /\ \/ /\ IsDir(path[w])
          /\ Goto(w, "ls_readdir")
          /\ node' = [node EXCEPT ![w] = NodeAt(path[w])]
          /\ UNCHANGED <<path, stream, count, ret, due>>
       \/ ~IsDir(path[w]) /\ Answer(w, "OP_IO_ERROR")
    /\ UNCHANGED <<kernel, faults, stored, spoiled>>

\* The names, without .cape.
LsReadDir(w) ==
    /\ pc[w] = "ls_readdir"
    /\ Answer(w, IF Entries(node[w]) = {} THEN "OP_DIR_EMPTY" ELSE "OP_SUCCESS")
    /\ UNCHANGED <<kernel, faults, stored, spoiled>>
-----------------------------------------------------------------------------
Request(w, p) ==
    \/ PutExisting(w, p) \/ \E s \in Streams : Put(w, p, s) \/ PutUnseen(w, p, s)
    \/ Get(w, p) \/ Delete(w, p) \/ List(w, p) \/ MakeDir(w, p)
    \/ NotResolved(w, p)

Step(w) ==
    \/ PutResolve(w) \/ PutOpen(w) \/ PutOpenFails(w)
    \/ PutWrite(w) \/ PutClose(w) \/ PutFails(w) \/ PutCloseLost(w)
    \/ GetStat(w) \/ GetOpen(w) \/ GetMeasure(w) \/ GetDirectory(w) \/ GetRead(w) \/ GetAborts(w)
    \/ DelStat(w) \/ Unlink(w) \/ UnlinkFails(w)
    \/ DelOpenDir(w) \/ DelReadDir(w) \/ DelAborts(w) \/ RmDir(w) \/ RmDirFails(w)
    \/ Mkdir(w) \/ LsStat(w) \/ LsOpenDir(w) \/ LsReadDir(w)
    \/ Reply(w)

Next ==
    \/ \E w \in Workers : Step(w) \/ \E p \in Targets : Request(w, p)
    \/ Crash

Spec == Init /\ [][Next]_vars
-----------------------------------------------------------------------------
(***************************************************************************)
(* Properties.                                                             *)
(***************************************************************************)

\* Every variable keeps its type, and what lies in the tree lies in directories.
TypeOK ==
    /\ DOMAIN tree \subseteq Paths /\ tree \in [DOMAIN tree -> Nodes]
    /\ data \in [Nodes -> Seq(Blocks) \cup {Directory}]
    /\ pc \in [Workers -> PCs]
    /\ path \in [Workers -> Targets]
    /\ node \in [Workers -> Nodes \cup {Home, NoNode}]
    /\ stream \in [Workers -> Streams \cup {<<>>}]
    /\ count \in [Workers -> Nat]
    /\ ret \in [Workers -> Codes]
    /\ faults \in 0..MaxFaults
    /\ DOMAIN stored \subseteq Paths /\ stored \in [DOMAIN stored -> Streams]
    /\ spoiled \subseteq Paths
    /\ due \in [Workers -> Streams \cup {<<>>}]
    /\ \A p \in DOMAIN tree : IsDir(Parent[p])

\* What do_put_file answered OP_SUCCESS stays, whole, until do_del_file removes
\* it by its name: no removal of a directory, failed upload or crash takes any
\* of it.  Three uploads may: one that overlaps another one to the same name, one
\* that is let over the file by a path f_path_resolve does not find it by, and
\* the file's own, when fclose fails.
AnsweredPutsStay ==
    \A p \in DOMAIN stored \ spoiled :
      p \in DOMAIN tree /\ data[tree[p]] = stored[p]

\* do_get_file of a file that was stored before it began sends all of it,
\* also when the file is removed, and replaced, while it is read; not so when an
\* upload is let over the file under a path f_path_resolve does not find it by.
ReadsAreWhole ==
    \A w \in Workers :
      (pc[w] = "get_read" /\ due[w] # <<>>) => Bytes(w) = due[w]

\* f_read_file reads less than it measured, and closes its stream twice, only
\* if uploads of that file overlapped, or one was let over it, or lost its end.
ReadsFit == \A w \in Workers : ShortRead(w) => path[w] \in spoiled
=============================================================================
