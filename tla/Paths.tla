------------------------------- MODULE Paths -------------------------------
(***************************************************************************)
(* The paths of requests, and the files and directories that are made      *)
(* under them: f_path_resolve, f_valid_resolve and join_paths              *)
(* (src/src/server/server_file_api.c) as do_put_file and do_make_dir       *)
(* (src/src/server/server_ctrl.c) use them, one request at a time.         *)
(*                                                                         *)
(* A path of a request is [abs, parts, slash]: whether it begins with a    *)
(* slash, the names between slashes, and whether it ends with one that     *)
(* follows a name.  A resolved path is the sequence of its names.  The     *)
(* tree has no symbolic links, and an upload has bytes.                    *)
(***************************************************************************)
EXTENDS Naturals, Sequences, SequencesExt, FiniteSets

CONSTANTS
    Names,          \* what a file or a directory may be called
    NameLength(_),  \* how many characters a name has
    Home,           \* the home directory, resolved
    Lookalikes,     \* names that begin with the last name of Home
    Outside,        \* directories that are not in it
    PATH_MAX,
    MaxParts,       \* bound: names in the path of a request
    MaxTree         \* bound: files and directories

Parts == Names \cup {".", ".."}

ASSUME PathsAssumption ==
    /\ Names \cap {".", "..", "/"} = {}
    /\ \A n \in Parts \cup {"/"} : NameLength(n) \in Nat \ {0}
    /\ Home \in Seq(Names) /\ Home # <<>>
    /\ Home[Len(Home)] \in Lookalikes /\ Lookalikes \subseteq Names
    /\ \A d \in Outside : d \in Seq(Names)
    /\ PATH_MAX \in Nat /\ MaxParts \in Nat /\ MaxTree \in Nat

Requests ==
    {r \in [abs : BOOLEAN, parts : BoundedSeq(Parts, MaxParts), slash : BOOLEAN] :
        r.parts = <<>> => ~r.slash}

NoPath == <<"/">>   \* in place of a resolved path, NULL
Nothing == [op |-> "none", request |-> [abs |-> FALSE, parts |-> <<>>, slash |-> FALSE],
            place |-> NoPath, existed |-> FALSE]
-----------------------------------------------------------------------------
VARIABLES
    tree,       \* "dir" or "file", for what there is
    ret,        \* the code of the request that is answered; "NONE" between two
    made        \* history: what that request made, and where

pathVars == <<tree, ret, made>>

At(d) == {SubSeq(d, 1, n) : n \in 0..Len(d)}

PathInit ==
    /\ tree = [p \in At(Home) \cup UNION {At(d) : d \in Outside} |-> "dir"]
    /\ ret = "NONE" /\ made = Nothing
-----------------------------------------------------------------------------
(***************************************************************************)
(* The kernel and the C library.                                           *)
(***************************************************************************)
Exists(p) == p \in DOMAIN tree
IsDir(p)  == Exists(p) /\ tree[p] = "dir"

\* One name further on the way of realpath: nowhere, or one place.
Follow(at, part) ==
    IF ~IsDir(at) THEN {}
    ELSE CASE part = "."   -> {at}
           [] part = ".."  -> {IF at = <<>> THEN at ELSE Front(at)}
           [] OTHER        -> {Append(at, part)} \cap DOMAIN tree

\* Where all of them lead from the root.
Walk(parts) ==
    LET at[n \in 0..Len(parts)] ==
          IF n = 0 THEN {<<>>} ELSE UNION {Follow(p, parts[n]) : p \in at[n - 1]}
    IN  at[Len(parts)]

Real(parts, slash) ==
    LET found == {p \in Walk(parts) : slash => IsDir(p)}
    IN  IF found = {} THEN NoPath ELSE CHOOSE p \in found : TRUE

\* dirname, and basename as POSIX has it: a slash at the end counts for neither.
Dirname(r) ==
    [abs |-> r.abs, slash |-> FALSE,
     parts |-> IF Len(r.parts) > 1 THEN Front(r.parts)
               ELSE IF r.abs THEN <<>> ELSE <<".">>]

Basename(r) ==
    IF r.parts # <<>> THEN Last(r.parts) ELSE IF r.abs THEN "/" ELSE "."

\* strlen: names with a slash between two, one more in front of an absolute path.
TextLength(parts) ==
    LET upto[n \in 0..Len(parts)] ==
          IF n = 0 THEN 0 ELSE upto[n - 1] + NameLength(parts[n]) + 1
    IN  IF parts = <<>> THEN 0 ELSE upto[Len(parts)] - 1

PathLength(p) == TextLength(p) + 1

RequestLength(r) ==
    TextLength(r.parts) + (IF r.abs THEN 1 ELSE 0) + (IF r.slash THEN 1 ELSE 0)
-----------------------------------------------------------------------------
(***************************************************************************)
(* server_file_api.c.                                                      *)
(***************************************************************************)

\* join_paths: the length of the text, with its end; there is room for PATH_MAX.
\* The slash of a child is kept in place of one that is added, the root's own
\* is not looked at.
JoinFits(root, r) == PathLength(root) + RequestLength(r) + (IF r.abs THEN 1 ELSE 2) <= PATH_MAX

\* join_and_resolve_paths.
JoinAndResolve(root, r) == Real(root \o r.parts, r.slash)

\* strncmp with the home directory: a name that goes on where its name ends is
\* not told apart from it.
Within(p) ==
    /\ Len(p) >= Len(Home)
    /\ \A n \in 1..Len(Home) - 1 : p[n] = Home[n]
    /\ p[Len(Home)] \in Lookalikes

TooLong(r) == PathLength(Home) + RequestLength(r) + 2 > PATH_MAX

f_path_resolve(r) ==
    LET p == JoinAndResolve(Home, r)
    IN  IF TooLong(r) \/ p = NoPath \/ ~Within(p) THEN NoPath ELSE p

\* Mutant: the text that was resolved is kept, not what it resolved to.
ParentUnresolved(r) ==
    IF JoinAndResolve(Home, Dirname(r)) = NoPath THEN NoPath ELSE Home \o Dirname(r).parts

\* The directory that f_valid_resolve finds.
ParentOf(r) == JoinAndResolve(Home, Dirname(r))

\* Mutant: the name is joined to the home directory.
FinalInHome(r) == IF Basename(r) = "/" THEN Home ELSE Append(Home, Basename(r))

\* The path it makes with it.
Final(r) == IF Basename(r) = "/" THEN ParentOf(r) ELSE Append(ParentOf(r), Basename(r))

\* What is joined to the root directory begins with two slashes: the home
\* directory does not.
f_valid_resolve(r) ==
    IF ParentOf(r) \in {NoPath, <<>>} \/ Basename(r) = "." \/ ~Within(Final(r))
      THEN NoPath ELSE Final(r)

\* f_valid_resolve joins two paths without looking at their length.
ValidFits(r) ==
    /\ JoinFits(Home, Dirname(r))
    /\ (ParentOf(r) # NoPath /\ Basename(r) # ".") =>
          JoinFits(ParentOf(r), [abs |-> Basename(r) = "/", slash |-> FALSE,
                     parts |-> IF Basename(r) = "/" THEN <<>> ELSE <<Basename(r)>>])

\* What the kernel finds under a path, and the directory it would put it into.
Target(p) == Real(p, FALSE)
Parent(p) == Real(Front(p), FALSE)
-----------------------------------------------------------------------------
Answer(code) ==
    /\ ret' = code
    /\ UNCHANGED <<tree, made>>

Make(op, r, p, kind) ==
    LET place == Append(Parent(p), Last(p))
    IN  /\ Cardinality(DOMAIN tree \cup {place}) <= MaxTree
        /\ tree' = [q \in DOMAIN tree \cup {place} |-> IF q = place THEN kind ELSE tree[q]]
        /\ made' = [op |-> op, request |-> r, place |-> place, existed |-> Exists(place)]
        /\ ret' = "OP_SUCCESS"

\* do_make_dir, f_create_dir.
MakeDir(r) ==
    LET p == f_valid_resolve(r)
    IN  /\ ret = "NONE" /\ ValidFits(r)
        /\ IF p = NoPath THEN Answer("OP_RESOLVE_ERROR")
           ELSE \/ Exists(Target(p)) /\ Answer("OP_DIR_EXISTS")
                \/ ~Exists(Target(p)) /\ ~IsDir(Parent(p)) /\ Answer("OP_FAILURE")
                \/ ~Exists(Target(p)) /\ IsDir(Parent(p)) /\ Make("mkdir", r, p, "dir")

\* f_write_file: fopen takes a file that there is.
Write(r, p) ==
    IF p = NoPath THEN Answer("OP_RESOLVE_ERROR")
    ELSE \/ IsDir(Target(p)) /\ Answer("OP_FAILURE")
         \/ ~IsDir(Target(p)) /\ ~IsDir(Parent(p)) /\ Answer("OP_PATH_NOT_FILE")
         \/ ~IsDir(Target(p)) /\ IsDir(Parent(p)) /\ Make("put", r, p, "file")

\* Mutant: the look-up is left out.
PutUnseen(r) == ret = "NONE" /\ ValidFits(r) /\ Write(r, f_valid_resolve(r))

\* do_put_file.
Put(r) ==
    /\ ret = "NONE"
    /\ IF f_path_resolve(r) # NoPath THEN Answer("OP_FILE_EXISTS")
       ELSE ValidFits(r) /\ Write(r, f_valid_resolve(r))

\* A path is joined past the end of new_path: the sanitizer ends the process.
JoinOverrun(r) ==
    /\ ret = "NONE"
    /\ ~ValidFits(r)
    /\ Answer("ABORTED")

\* The answer is sent, or the server started again.
Reply ==
    /\ ret # "NONE" /\ ret' = "NONE"
    /\ made' = Nothing /\ UNCHANGED tree

PathNext ==
    \/ \E r \in Requests : MakeDir(r) \/ Put(r) \/ JoinOverrun(r)
    \/ Reply

PathSpec == PathInit /\ [][PathNext]_pathVars
-----------------------------------------------------------------------------
(***************************************************************************)
(* Properties.                                                             *)
(***************************************************************************)

\* f_valid_resolve: whatever way through the tree a request goes, what is made
\* for it is in the home directory, or beside it under a name that begins with
\* the home directory's.
MadeInHome ==
    \A p \in DOMAIN tree :
        Within(p) \/ p \in At(Home) \cup UNION {At(d) : d \in Outside}

\* f_valid_resolve and f_path_resolve: what is made under a path is found under
\* it, and whole: the one takes the last name from the text and the other from
\* the tree.  Not so a path that f_path_resolve finds too long, nor a file that
\* was named like a directory.
MadeIsFound ==
    ret = "OP_SUCCESS" =>
        \/ f_path_resolve(made.request) = made.place
        \/ TooLong(made.request)
        \/ made.op = "put" /\ made.request.slash

\* do_put_file: "if the file does not already exist"; only under such a path is
\* another file's content replaced.
PutReplacesNothing ==
    (ret = "OP_SUCCESS" /\ made.existed) =>
        made.op = "put" /\ (TooLong(made.request) \/ made.request.slash)
=============================================================================
