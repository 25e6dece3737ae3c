------------------------------- MODULE UserDB -------------------------------
(***************************************************************************)
(* The user database of the file transfer server                           *)
(* (src/src/server/server_db.c): the in-memory users_htable, the two files *)
(* .cape.db and .cape.hash that persist it, and the threads that read and  *)
(* rewrite them.                                                           *)
(*                                                                         *)
(* Every worker thread of the pool runs db_create_user or db_remove_user,  *)
(* each followed by db_update_db; the main thread runs db_init when the    *)
(* server boots and db_update_db once more in db_shutdown.  Nothing in the *)
(* server takes a lock, so an action is the longest run of a thread's code *)
(* that touches shared state once.                                         *)
(*                                                                         *)
(* Data.  A file is a sequence of tokens: the magic number, one token per  *)
(* account line, and Nul for a run of unused buffer bytes.  All lines have *)
(* the same length, so two images written over each other stay aligned.    *)
(* SHA-256 is injective: a digest is the content it was computed from, and *)
(* the hash file is the sequence of the digests in it (none while it is    *)
(* truncated, else one).  An account is its permission; passwords are left *)
(* out.                                                                    *)
(***************************************************************************)
EXTENDS Naturals, Sequences, SequencesExt, FiniteSets

CONSTANTS
    Workers,        \* the threads of the pool
    Main,           \* the thread that boots and stops the server
    Names,          \* the usernames clients ask for, the default one included
    DefaultUser,    \* "admin"
    Perms,          \* the permissions an account can have
    Admin,          \* the permission of the default user
    BadLength,      \* the names (with their passwords) that break a length rule
    Separators,     \* the names that contain a ':' or a newline
    Misread,        \* the lines sscanf makes of such a name's line; none: an error
    Magic, Nul,     \* tokens of the database file
    Missing,        \* a file that does not exist
    MaxFaults       \* bound: file system calls that fail in one behaviour

Actors == Workers \cup {Main}
Line   == [name : Names, perm : Perms]
Token  == Line \cup {Magic, Nul}

ASSUME UserDBAssumption ==
    /\ Main \notin Workers
    /\ IsFiniteSet(Workers)
    /\ IsFiniteSet(Names)
    /\ DefaultUser \in Names \ (BadLength \cup Separators)
    /\ Admin \in Perms
    /\ Misread \in [{l \in Line : l.name \in Separators} -> SUBSET Line]
    /\ Magic \notin Line /\ Nul \notin Line /\ Magic # Nul
    /\ Missing \notin Seq(Token) \cup Seq(Seq(Token))
    /\ MaxFaults \in Nat

(***************************************************************************)
(* The codes a request is answered with (src/include/server.h).            *)
(***************************************************************************)
RetCodes == {"NONE", "OP_SUCCESS", "OP_USER_EXISTS", "OP_USER_NO_EXIST",
             "OP_CRED_RULE_ERROR"}

(***************************************************************************)
(* Accounts: what users_htable maps names to.                              *)
(***************************************************************************)
Accounts == UNION {[D -> Perms] : D \in SUBSET Names}

\* htable_set and htable_del.
WithUser(accts, u, p) ==
    [n \in DOMAIN accts \cup {u} |-> IF n = u THEN p ELSE accts[n]]

WithoutUser(accts, u) == [n \in DOMAIN accts \ {u} |-> accts[n]]

Lines(accts) == {[name |-> n, perm |-> accts[n]] : n \in DOMAIN accts}

DefaultAccounts == [n \in {DefaultUser} |-> Admin]

\* The images db_update_db may serialise: one line per account, in whatever
\* order the hash table's iterator yields them.
Images(accts) == {<<Magic>> \o s : s \in SetToSeqs(Lines(accts))}

\* A serialised image in a buffer that was sized for n tokens.
Padded(image, n) == image \o [i \in 1..(n - Len(image)) |-> Nul]

\* The lines populate_htable scans: it stops at the first Nul (sscanf = EOF).
Scanned(file) == {i \in 2..Len(file) : \A j \in 2..i : file[j] # Nul}

\* What sscanf makes of a line: itself, unless its name contains a separator.
\* "ab:3" at permission 1 reads back as "ab" at permission 3, a name with a
\* newline as that name and as a second account, other names not at all.
ReadAs(line) == IF line.name \in Separators THEN Misread[line] ELSE {line}

Parsable(file) ==
    /\ file # <<>>
    /\ file[1] = Magic
    /\ \A i \in Scanned(file) : file[i] \in Line /\ ReadAs(file[i]) # {}

\* The table populate_htable builds: a later line for a name replaces an
\* earlier one.
Loaded(file) ==
    LET found     == UNION {ReadAs(file[i]) : i \in Scanned(file)}
        at(n)     == {i \in Scanned(file) : \E l \in ReadAs(file[i]) : l.name = n}
        last(n)   == CHOOSE i \in at(n) : \A j \in at(n) : j <= i
        lineOf(n) == CHOOSE l \in ReadAs(file[last(n)]) : l.name = n
    IN  [n \in {l.name : l \in found} |-> lineOf(n).perm]

\* What a file holds after content is written over it from offset 0.
Overwrite(file, content) ==
    content \o SubSeq(file, Len(content) + 1, Len(file))
-----------------------------------------------------------------------------
VARIABLES
    phase,      \* what the server process is doing
    table,      \* users_htable
    dbFile,     \* .cape/.cape.db
    hashFile,   \* .cape/.cape.hash
    pc,         \* where each thread is
    job,        \* the request each thread serves
    need,       \* each thread's byte count: of its buffer, then of the file
    out,        \* each thread's buffer: the image it writes, then the digest
    ret,        \* the code each idle worker's last request was answered with
    faults,     \* file system calls that have failed so far
    acked,      \* history: the accounts when an update was last answered
    stop        \* history: how the process last ended

files   == <<dbFile, hashFile>>
locals  == <<job, need, out>>
history == <<acked, stop>>
vars    == <<phase, table, files, pc, locals, ret, faults, history>>

Phases == {"down", "booting", "up", "draining", "saving"}
PCs    == {"idle", "set", "count", "serialise", "open_db", "write_db",
           "measure_db", "read_db", "open_hash", "write_hash", "load"}
Stops  == {"never", "running", "clean", "faulted", "aborted", "crashed", "refused"}
NoJob  == [user |-> DefaultUser, perm |-> Admin]

Init ==
    /\ phase = "down"
    /\ table = <<>>
    /\ dbFile = Missing
    /\ hashFile = Missing
    /\ pc = [a \in Actors |-> "idle"]
    /\ job = [a \in Actors |-> NoJob]
    /\ need = [a \in Actors |-> 0]
    /\ out = [a \in Actors |-> <<>>]
    /\ ret = [w \in Workers |-> "NONE"]
    /\ faults = 0
    /\ acked = <<>>
    /\ stop = "never"

Goto(a, from, to) ==
    /\ pc[a] = from
    /\ pc' = [pc EXCEPT ![a] = to]

\* The process ends: every thread and everything in memory is gone.
ProcessEnds(how) ==
    /\ phase' = "down"
    /\ table' = <<>>
    /\ pc' = [a \in Actors |-> "idle"]
    /\ job' = [a \in Actors |-> NoJob]
    /\ need' = [a \in Actors |-> 0]
    /\ out' = [a \in Actors |-> <<>>]
    /\ ret' = [w \in Workers |-> "NONE"]
    /\ stop' = how

\* Mutant: the accept loop goes on while the database is being saved.
ServingWhileSaving == phase \in {"up", "draining", "saving"}

Serving == phase \in {"up", "draining"}
-----------------------------------------------------------------------------
(***************************************************************************)
(* db_create_user and db_remove_user, up to their call of db_update_db.    *)
(***************************************************************************)

\* db_create_user returns before it changes anything.
RejectNewUser(w, u) ==
    /\ Serving
    /\ pc[w] = "idle"
    /\ \/ /\ u \in BadLength
          /\ ret' = [ret EXCEPT ![w] = "OP_CRED_RULE_ERROR"]
       \/ /\ u \in DOMAIN table \ BadLength
          /\ ret' = [ret EXCEPT ![w] = "OP_USER_EXISTS"]
    /\ UNCHANGED <<phase, table, files, pc, locals, faults, history>>

\* Mutant: the name is not looked up.
CheckNewUserUnchecked(w, u, p) ==
    /\ Serving
    /\ u \notin BadLength
    /\ Goto(w, "idle", "set")
    /\ job' = [job EXCEPT ![w] = [user |-> u, perm |-> p]]
    /\ ret' = [ret EXCEPT ![w] = "NONE"]
    /\ UNCHANGED <<phase, table, files, need, out, faults, history>>

\* The name is free at the time of htable_key_exists.
CheckNewUser(w, u, p) ==
    /\ Serving
    /\ u \notin DOMAIN table \cup BadLength
    /\ Goto(w, "idle", "set")
    /\ job' = [job EXCEPT ![w] = [user |-> u, perm |-> p]]
    /\ ret' = [ret EXCEPT ![w] = "NONE"]
    /\ UNCHANGED <<phase, table, files, need, out, faults, history>>

\* htable_set, some time later: it replaces an account of that name.
SetUser(w) ==
    /\ Goto(w, "set", "count")
    /\ table' = WithUser(table, job[w].user, job[w].perm)
    /\ job' = [job EXCEPT ![w] = NoJob]
    /\ UNCHANGED <<phase, files, need, out, ret, faults, history>>

\* db_remove_user of an unknown user.
RejectRemoval(w, u) ==
    /\ Serving
    /\ pc[w] = "idle"
    /\ u \notin DOMAIN table
    /\ ret' = [ret EXCEPT ![w] = "OP_USER_NO_EXIST"]
    /\ UNCHANGED <<phase, table, files, pc, locals, faults, history>>

\* Mutant: the removal is not followed by db_update_db.
RemoveUserUnsaved(w, u) ==
    /\ Serving
    /\ u \in DOMAIN table
    /\ pc[w] = "idle"
    /\ table' = WithoutUser(table, u)
    /\ ret' = [ret EXCEPT ![w] = "OP_SUCCESS"]
    /\ UNCHANGED <<phase, files, pc, locals, faults, history>>

\* htable_del finds the account and removes it in one call.
RemoveUser(w, u) ==
    /\ Serving
    /\ u \in DOMAIN table
    /\ Goto(w, "idle", "count")
    /\ table' = WithoutUser(table, u)
    /\ ret' = [ret EXCEPT ![w] = "NONE"]
    /\ UNCHANGED <<phase, files, locals, faults, history>>
-----------------------------------------------------------------------------
(***************************************************************************)
(* db_update_db and update_db_hash, run by a worker after a change and by  *)
(* the main thread when it saves the database (and, from open_db on, when  *)
(* it writes the default database).                                        *)
(***************************************************************************)

\* An update is over.  A worker answers OP_SUCCESS whatever became of it
\* (db_update_db returns void); a booting server goes on to read the files or
\* gives up; a stopping one exits.
EndUpdate(a, ok) ==
    \/ /\ a \in Workers
       /\ pc' = [pc EXCEPT ![a] = "idle"]
       /\ out' = [out EXCEPT ![a] = <<>>]
       /\ ret' = [ret EXCEPT ![a] = "OP_SUCCESS"]
       /\ acked' = table
       /\ UNCHANGED <<phase, table, job, need, stop>>
    \/ /\ a = Main /\ phase = "booting"
       /\ IF ok
            THEN /\ pc' = [pc EXCEPT ![a] = "load"]
                 /\ out' = [out EXCEPT ![a] = <<>>]
                 /\ UNCHANGED <<phase, table, job, need, ret, stop>>
            ELSE ProcessEnds("refused")
       /\ UNCHANGED acked
    \/ /\ a = Main /\ phase = "saving"
       /\ ProcessEnds(IF ok /\ stop = "running" THEN "clean" ELSE "faulted")
       /\ UNCHANGED acked

\* Mutant: no room for the magic bytes.
CountLinesOnly(a) ==
    /\ Goto(a, "count", "serialise")
    /\ need' = [need EXCEPT ![a] = Cardinality(DOMAIN table)]
    /\ UNCHANGED <<phase, table, files, job, out, ret, faults, history>>

\* First pass over the hash table: size the buffer.
CountBytes(a) ==
    /\ Goto(a, "count", "serialise")
    /\ need' = [need EXCEPT ![a] = 1 + Cardinality(DOMAIN table)]
    /\ UNCHANGED <<phase, table, files, job, out, ret, faults, history>>

\* Second pass: fill the buffer.  An account added since the first pass does
\* not fit; the build's address sanitizer aborts the process.
Serialise(a) ==
    /\ pc[a] = "serialise"
    /\ \/ /\ 1 + Cardinality(DOMAIN table) <= need[a]
          /\ pc' = [pc EXCEPT ![a] = "open_db"]
          /\ \E image \in Images(table) :
               out' = [out EXCEPT ![a] = Padded(image, need[a])]
          /\ need' = [need EXCEPT ![a] = 0]
          /\ UNCHANGED <<phase, table, job, ret, stop>>
       \/ /\ 1 + Cardinality(DOMAIN table) > need[a]
          /\ ProcessEnds("aborted")
    /\ UNCHANGED <<files, faults, acked>>

\* f_write_file: fopen with mode "w" truncates the file ...
OpenDb(a) ==
    /\ Goto(a, "open_db", "write_db")
    /\ dbFile' = <<>>
    /\ UNCHANGED <<phase, table, hashFile, locals, ret, faults, history>>

\* ... and the buffered bytes reach it in fclose, from offset 0 of this
\* thread's own descriptor.
WriteDb(a) ==
    /\ Goto(a, "write_db", "measure_db")
    /\ dbFile' = Overwrite(dbFile, out[a])
    /\ out' = [out EXCEPT ![a] = <<>>]
    /\ UNCHANGED <<phase, table, hashFile, job, need, ret, faults, history>>

\* Mutant: the size is one too small, and negative for a truncated file.
MeasureDbShort(a) ==
    /\ Goto(a, "measure_db", "read_db")
    /\ need' = [need EXCEPT ![a] = Len(dbFile) - 1]
    /\ UNCHANGED <<phase, table, files, job, out, ret, faults, history>>

\* update_db_hash: fopen, fseek and ftell of the database file ...
MeasureDb(a) ==
    /\ Goto(a, "measure_db", "read_db")
    /\ need' = [need EXCEPT ![a] = Len(dbFile)]
    /\ UNCHANGED <<phase, table, files, job, out, ret, faults, history>>

\* ... then fread and the digest.  A short read closes the stream twice, which
\* aborts the process.
ReadDb(a) ==
    /\ pc[a] = "read_db"
    /\ \/ /\ Len(dbFile) >= need[a]
          /\ pc' = [pc EXCEPT ![a] = "open_hash"]
          /\ out' = [out EXCEPT ![a] = SubSeq(dbFile, 1, need[a])]
          /\ need' = [need EXCEPT ![a] = 0]
          /\ UNCHANGED <<phase, table, job, ret, stop>>
       \/ /\ Len(dbFile) < need[a]
          /\ ProcessEnds("aborted")
    /\ UNCHANGED <<files, faults, acked>>

OpenHash(a) ==
    /\ Goto(a, "open_hash", "write_hash")
    /\ hashFile' = <<>>
    /\ UNCHANGED <<phase, table, dbFile, locals, ret, faults, history>>

WriteHash(a) ==
    /\ pc[a] = "write_hash"
    /\ hashFile' = <<out[a]>>
    /\ EndUpdate(a, TRUE)
    /\ UNCHANGED <<dbFile, faults>>

\* A file cannot be opened.  The update is given up where it is; but past
\* fread update_db_hash has closed the database file already, and the clean-up
\* behind a digest, a resolve or an open of .cape.hash that fails closes it a
\* second time, which aborts the process.
OpenFails(a) ==
    /\ faults < MaxFaults
    /\ faults' = faults + 1
    /\ \/ /\ pc[a] \in {"open_db", "measure_db"}
          /\ EndUpdate(a, FALSE)
       \/ /\ pc[a] = "open_hash"
          /\ ProcessEnds("aborted")
          /\ UNCHANGED acked
    /\ UNCHANGED files

\* The buffered bytes do not reach the file; the result of fclose is ignored,
\* so the thread goes on with a file that stays as it is.
WriteLost(a) ==
    /\ faults < MaxFaults
    /\ faults' = faults + 1
    /\ \/ /\ Goto(a, "write_db", "measure_db")
          /\ out' = [out EXCEPT ![a] = <<>>]
          /\ stop' = IF phase = "saving" THEN "faulted" ELSE stop
          /\ UNCHANGED <<phase, table, job, need, ret, acked>>
       \/ /\ pc[a] = "write_hash"
          /\ EndUpdate(a, a # Main \/ phase = "booting")
    /\ UNCHANGED files

Update(a) ==
    \/ CountBytes(a) \/ Serialise(a)
    \/ OpenDb(a) \/ WriteDb(a)
    \/ MeasureDb(a) \/ ReadDb(a)
    \/ OpenHash(a) \/ WriteHash(a)
-----------------------------------------------------------------------------
(***************************************************************************)
(* The main thread: db_init, the end of start_server, db_shutdown.         *)
(***************************************************************************)

\* db_init looks for the two files.
Boot ==
    /\ phase = "down"
    /\ \/ /\ dbFile = Missing /\ hashFile = Missing
          /\ phase' = "booting"
          /\ stop' = "running"
          /\ pc' = [pc EXCEPT ![Main] = "open_db"]
          /\ \E image \in Images(DefaultAccounts) :
               out' = [out EXCEPT ![Main] = image]
       \/ /\ dbFile # Missing /\ hashFile # Missing
          /\ phase' = "booting"
          /\ stop' = "running"
          /\ pc' = [pc EXCEPT ![Main] = "load"]
          /\ UNCHANGED out
       \/ /\ (dbFile = Missing) # (hashFile = Missing)
          /\ stop' = "refused"
          /\ UNCHANGED <<phase, pc, out>>
    /\ UNCHANGED <<table, files, job, need, ret, faults, acked>>

\* db_init reads both files and compares the digests before it parses.
Load ==
    /\ phase = "booting"
    /\ pc[Main] = "load"
    /\ IF hashFile = <<dbFile>> /\ Parsable(dbFile)
         THEN /\ phase' = "up"
              /\ table' = Loaded(dbFile)
              /\ acked' = Loaded(dbFile)
              /\ pc' = [pc EXCEPT ![Main] = "idle"]
              /\ UNCHANGED <<locals, ret, stop>>
         ELSE /\ ProcessEnds("refused")
              /\ UNCHANGED acked
    /\ UNCHANGED <<files, faults>>

\* SIGINT ends the accept loop; the requests already taken on are served.
Interrupt ==
    /\ phase = "up"
    /\ phase' = "draining"
    /\ UNCHANGED <<table, files, pc, locals, ret, faults, history>>

\* Mutant: the pool is not waited for.
SaveAtOnce ==
    /\ phase = "draining"
    /\ phase' = "saving"
    /\ pc' = [pc EXCEPT ![Main] = "count"]
    /\ UNCHANGED <<table, files, locals, ret, faults, history>>

\* thpool_wait returns once no worker is busy; db_shutdown calls db_update_db.
Save ==
    /\ phase = "draining"
    /\ \A w \in Workers : pc[w] = "idle"
    /\ phase' = "saving"
    /\ pc' = [pc EXCEPT ![Main] = "count"]
    /\ UNCHANGED <<table, files, locals, ret, faults, history>>

\* The process is killed.  What it wrote before stays in the files.  A data
\* race the sanitizer stops is an instance of this action too.
Crash ==
    /\ phase # "down"
    /\ ProcessEnds("crashed")
    /\ UNCHANGED <<files, faults, acked>>

\* The operator follows the advice db_init prints: remove the .cape files.
StartOver ==
    /\ phase = "down"
    /\ stop = "refused"
    /\ dbFile' = Missing
    /\ hashFile' = Missing
    /\ UNCHANGED <<phase, table, pc, locals, ret, faults, history>>
-----------------------------------------------------------------------------
Request(w) ==
    \/ \E u \in Names : RejectNewUser(w, u) \/ RejectRemoval(w, u) \/ RemoveUser(w, u)
    \/ \E u \in Names, p \in Perms : CheckNewUser(w, u, p)
    \/ SetUser(w)

Next ==
    \/ \E w \in Workers : Request(w)
    \/ \E a \in Actors : Update(a) \/ OpenFails(a) \/ WriteLost(a)
    \/ Boot \/ Load \/ Interrupt \/ Save \/ Crash \/ StartOver

Spec == Init /\ [][Next]_vars
-----------------------------------------------------------------------------
(***************************************************************************)
(* Properties.                                                             *)
(***************************************************************************)

\* Every variable keeps its type.
TypeOK ==
    /\ phase \in Phases
    /\ table \in Accounts
    /\ dbFile \in Seq(Token) \cup {Missing}
    /\ hashFile \in Seq(Seq(Token)) \cup {Missing}
    /\ pc \in [Actors -> PCs]
    /\ job \in [Actors -> [user : Names, perm : Perms]]
    /\ need \in [Actors -> Nat]
    /\ out \in [Actors -> Seq(Token)]
    /\ ret \in [Workers -> RetCodes]
    /\ faults \in 0..MaxFaults
    /\ acked \in Accounts
    /\ stop \in Stops

\* What db_init would accept and load as accts.
Boots(accts) ==
    /\ hashFile = <<dbFile>>
    /\ Parsable(dbFile)
    /\ Loaded(dbFile) = accts

\* No worker is busy: thpool_wait would return at once.
Quiescent == \A w \in Workers : pc[w] = "idle"

\* The step in which the sanitizer aborts the process.
Aborts == stop # "aborted" /\ stop' = "aborted"

\* After a graceful shutdown whose own file writes succeeded, the server boots
\* again with exactly the accounts it had when it answered its last request,
\* whatever the workers' updates did to the two files before: db_shutdown
\* saves with no worker left.  (No account's name contains a separator.)
CleanStopKeepsAccounts ==
    (phase = "down" /\ stop = "clean" /\ DOMAIN acked \cap Separators = {})
        => Boots(acked)

\* The update that db_shutdown makes aborts the process in one way only, by the
\* second fclose behind a .cape.hash that cannot be opened.  It never overruns
\* its buffer and never reads less than it measured: by then start_server has
\* waited for the pool, so neither the table nor the database file changes
\* between the two passes of db_update_db, or between ftell and fread.
SaveAbortsOnFault == [][(phase = "saving" /\ Aborts) => faults' > faults]_vars

\* With one worker and no failing system call, the files are in step with
\* users_htable whenever no request is being served: a crash then loses
\* nothing that was answered OP_SUCCESS.
LoneWorkerSavesAll ==
    (Cardinality(Workers) = 1 /\ faults = 0
        /\ Serving /\ Quiescent /\ DOMAIN table \cap Separators = {})
        => Boots(table)

\* With one worker no update, at boot, in service or at shutdown, aborts the
\* process but in the step of a failing call (that second fclose), and none
\* that failed earlier makes a later one abort: the overruns and short reads
\* all need another worker's step inside db_update_db.
LoneWorkerAbortsOnFault ==
    [][(Cardinality(Workers) = 1 /\ Aborts) => faults' > faults]_vars

-----------------------------------------------------------------------------
(***************************************************************************)
(* The inductive invariant behind the properties.                          *)
(***************************************************************************)

Writing == {"open_db", "write_db", "measure_db", "read_db", "open_hash", "write_hash"}

\* Which threads run in which phase, and when the database file exists.
Control ==
    /\ phase \in {"down", "up", "draining"} => pc[Main] = "idle"
    /\ phase = "booting" => pc[Main] \in Writing \cup {"load"}
    /\ phase = "saving" => pc[Main] \in Writing \cup {"count", "serialise"}
    /\ Serving \/ Quiescent
    /\ \A w \in Workers : pc[w] # "load"
    /\ (phase # "down" /\ ~(phase = "booting" /\ pc[Main] = "open_db"))
         => dbFile # Missing

\* Thread a's update is in step with the table and the files; intact: no write
\* of it was lost.
InStep(a, intact) ==
    /\ pc[a] = "serialise" => need[a] = 1 + Cardinality(DOMAIN table)
    /\ pc[a] \in {"open_db", "write_db"} => out[a] \in Images(table)
    /\ pc[a] = "write_db" => dbFile = <<>>
    /\ (pc[a] \in {"measure_db", "read_db", "open_hash", "write_hash"} /\ intact)
         => dbFile \in Images(table)
    /\ pc[a] = "read_db" => need[a] = Len(dbFile)
    /\ pc[a] \in {"open_hash", "write_hash"} => out[a] = dbFile

SaveInv ==
    /\ (phase = "saving" \/ (Serving /\ Quiescent)) => acked = table
    /\ phase = "saving" => InStep(Main, stop = "running")
    /\ (phase = "down" /\ stop = "clean") => hashFile = <<dbFile>> /\ dbFile \in Images(acked)

LoneInv ==
    /\ (phase = "booting" /\ pc[Main] = "read_db") => need[Main] = Len(dbFile)
    /\ Cardinality(Workers) = 1 =>
         \A w \in Workers : InStep(w, faults = 0)
    /\ LoneWorkerSavesAll

IInv == TypeOK /\ Control /\ SaveInv /\ LoneInv
=============================================================================
