# A verification of the BSLE file transfer server

TLA+ models, TLC runs and TLAPS proofs of the server in `src/src/server` and of
the interactive client in `src/src/client`, as far as it shares sessions, bytes
and listings with the server. Paths below are relative to the repository; line numbers are in
`PROJECT.json` ("map").

## The system

A client opens one TCP connection per request. The main thread accepts it and
puts a job in the queue of a thread pool; one worker thread serves the job from
beginning to end: it reads the request, authenticates the user, checks or makes
a session, does the operation, writes the response and closes. Workers share
everything else: two hash tables and the files under the home directory.
**There is no lock anywhere in the source**, and the build always has the
address sanitizer (`src/cmake/build_utils.cmake:27`), which turns a use of freed
memory or an overrun into an abort of the process.

| component | state | operations | talks to | what is hard | what makes it correct |
|---|---|---|---|---|---|
| user database (`server_db.c`) | `users_htable`, `.cape/.cape.db`, `.cape/.cape.hash` | `db_init`, `db_create_user`, `db_remove_user`, `db_update_db`, `update_db_hash`, `db_shutdown` | called by workers (`user_action`), by `main` at boot and shutdown | unlocked updates of two workers, two passes over one table, two files written one after the other, crashes, failing calls | what was answered survives a shutdown, and with one worker a crash; the two files agree; an update aborts only when a call of it fails |
| sessions (`server_ctrl.c`, `server_sock.c`) | `sesh_htable`: id to time of last use | `generate_session_id`, look-up, expiry, refresh, removal after a failed read | workers; clients hold the ids | a pointer into the table used after another worker may have freed the entry; time that passes while a request is read; restarts | nobody follows a dangling pointer; a session does not outlive its client's silence; the server knows the sessions it gave |
| accept loop, pool, shutdown (`server_sock.c`, `server_main.c`) | `server_run`, the backlog, the pool's queue | `start_server`, `signal_handler`, `serve_client` | kernel, thread pool, user database (`db_shutdown`) | signals between two steps; silent clients; descriptors that run out | nothing accepted is lost at shutdown, the database is freed under nobody, every accepted connection ends |
| authentication and permissions (`server_ctrl.c`, `server_db.c`) | the accounts, and each worker's pointer to one | `db_authenticate_user`, `ctrl_parse_action`'s switch, `user_action` | user database | an account removed, replaced, taken apart or freed while a request acts with it | a request does what its account permitted when it was looked up, or when it was removed; nobody makes a user above himself |
| file operations (`server_file_api.c`) | the tree under the home directory | put, get, ls, mkdir, delete | workers; the same files | two clients on one file; a file that changes between its size and its read | a get returns what some put stored, or fails; an answered put stays until it is deleted |
| path resolution (`server_file_api.c`) | none | `f_path_resolve`, `f_valid_resolve`, `join_and_resolve_paths` | file operations | `..`, trailing slashes, missing targets | a resolved path is under the home directory |
| wire protocol (`server_sock.c`, `client_sock.py`, `client_classes.py`) | a request or response in flight | `read_client_req`, `read_stream`, `write_response`, `client_request`, `connect` | both sides | partial reads and writes, lengths, byte order, timeouts | what one side encodes the other decodes, or the connection ends |
| interactive client | the session id, the password | `shell`, `_interact`, `connect` | server | a connection that closes early, an expired session | a client that is told so authenticates again |
| server arguments (`server_args.c`) | the `args_t` being filled | `args_parse`, `get_timeout`, `get_port`, `get_home_dir` | main | order and repetition of options, 8-bit truncation | an accepted value is the value used |
| hashing (`server_crypto.c`) | none | `hash_byte_array`, `hex_char_to_byte_array`, comparisons | user database | odd lengths | hex and bytes round-trip |

The hash table and the thread pool are libraries fetched at build time; they are
not in the repository and are modelled from how the source uses them.

## Modules

**`UserDB`** is the user database. `table`, `dbFile` and `hashFile` are
`users_htable` and the two files; `pc`, `need` and `out` are where each thread is
in `db_update_db`, its byte count and its buffer. One action is the longest run of
a thread's code that touches shared state once: `CheckNewUser` and `SetUser` are
the look-up and the insertion of `db_create_user`, `CountBytes` and `Serialise`
the two passes of `db_update_db`, `OpenDb`/`WriteDb` the two halves of
`f_write_file` (truncation in `fopen`, bytes in `fclose`), `MeasureDb` to
`WriteHash` the steps of `update_db_hash`. `Boot` and `Load` are `db_init`;
`Interrupt` and `Save` the end of `start_server` and `db_shutdown`. `OpenFails`,
`WriteLost`, `Crash` are what the environment may do. `stop` tells how the process
ended: "aborted" is the address sanitizer, at an overrun of the buffer, after a
short `fread`, or behind a `.cape.hash` that cannot be opened; in the last two
`update_db_hash` has closed the database file and closes it again in its clean-up.
(`OpenFails` at `open_hash` stands for the digest and the resolve of that path too,
which fail in the same way.) `ReadAs` is what `sscanf` makes of a line: the line, but
for a name with a ':' or a newline, of which the constant `Misread` says what becomes.

Abstractions: all account lines have one length, so images written over each
other stay aligned; SHA-256 is injective and a digest is the content itself; a
file reaches the kernel in one write, at `fclose` (the database is smaller than
a stdio buffer); a pass over the hash table is atomic (overlapping passes are a
data race, and what the sanitizer makes of it is an instance of `Crash`); the
kernel keeps what was written when the process dies; memory allocations
succeed; passwords and the `_debug` flag, which only unit tests set, are left
out. Requests may start in `draining`: the queue is served before `thpool_wait`
returns.

**`AccountStore`** says what that database promises: accounts change one at a
time, answered changes are durable, an interrupted change is all, nothing, or
files the server refuses. Once a system call has failed (`Break`) it promises nothing.
**`MCUserDB`** has the refinement mapping and the
statements of comments that do not hold.

**`Session`** is `sesh_htable`, the workers that use it, and the clients.
`sesh` is the table; `pc`, `peer`, `sid`, `now`, `code` belong to the worker of a
connection; `cst` and `hold` are where a client is in `shell` and the id in its
`ClientRequest`. `htable_key_exists` (`FindSession`, `NoSession`), `htable_get`
with `get_time` (`LookUp`), the comparison (`Judge`), `htable_del` (`Expire`) and
the write through the pointer (`Refresh`) are separate actions; `gone` holds the
connections whose pointer another worker freed, and `Dangles` is the step that
would use it, after which the sanitizer ends the process (`Abort`).
`DrawSession` and `InstallSession` are the two halves of `generate_session_id`.
`Deliver` is what an answer does to the client. `heard`, `lapsed`, `granted` and
`collided` are history.

Abstractions: reading a request touches nothing shared, so it is part of the
first step after it; every operation's result that is no session error or
failed authentication shows as `OP_SUCCESS`; a client whose connection dies with
the server leaves (it exits, or spins in `_read_stream`); ids are drawn from a
small set, and a client asks for a new one only while a free one is left
(`RoomForOneMore`), as with 2^32 ids.

**`Server`** is the main thread and the pool: `main` is the program counter of
`start_server`, `run` the atomic flag, `backlog` and `queue` the kernel's and the
pool's queues, `job` where each connection is. Entering `accept` and being blocked
in it (`Block`) are different, because a SIGINT interrupts only the latter. A
client may send nothing (`ReadTimesOut`), leave (`ReadCloses`), or not read a
large answer (`Stall`). What a request does is in the other two modules. The
bridge to `UserDB` is `AcceptedAreServed`: `Save` there is enabled when no worker
is busy, and that is what `Server` shows of `db_shutdown`.

**`FileStore`** is the tree under the home directory and the five file operations.
`tree` maps the names in use to nodes and `data` the nodes to their blocks (or to
`Directory`), so that a file that is open outlives its name; `pc`, `path`, `node`,
`stream` and `count` are where a worker is in its operation and what it has in
hand. One action is the run of code up to one system call on the tree: `Put` is
the look-up of `do_put_file`, `PutResolve` the second one, `PutOpen` to `PutCloseLost`
are `f_write_file`; `GetStat`, `GetOpen`, `GetMeasure` (`fseek`, `ftell`) and `GetRead`
are `f_read_file`; `DelStat`, `Unlink`, `DelOpenDir`, `DelReadDir`, `RmDir` are
`f_del_file`; `Mkdir` is `f_create_dir`, `LsStat` to `LsReadDir` are `f_list_dir`.
`stored`, `spoiled` and `due` are history: what the answered uploads left under
which name, the names of which the properties say nothing, and what a download that
began after an answered upload has to send. A name is spoiled by two uploads that
overlap (`Put`), by one that is let over what is there (`PutUnseen`: `f_path_resolve` does
not find a file by a path with a slash at its end, nor anything by a path that is too
long, and `do_put_file` takes that for a free name), and by one whose `fclose` loses the
last block unnoticed (`PutCloseLost`); a deletion by name clears it.

Abstractions: a path of a request stands for where it leads, and any place has
paths too that `f_path_resolve` refuses (`NotResolved`, `PutUnseen`; their texts are in
`Paths`); `.cape` shows only in that the home directory is never empty: requests for it
and its files, and paths outside, are left out;
the user may do what it asks; a file is a sequence of blocks, each one `write` of
stdio's; `fread` is one step, and so is a pass of `readdir`; the text of a listing
is left out. `PutFails` and `PutCloseLost` are a `write` that fails: `fwrite` notices,
`fclose`, whose result nobody looks at, does not, and the upload is answered OP_SUCCESS.
`GetAborts` (a short `fread`, then the second
`fclose`) and `DelAborts` (`readdir` of a null handle) end the process.
**`MCFileStore`** has the instance and what a comment says of `f_del_file`.

**`Access`** is the part of a request between its last byte and its operation.
`table` maps names to addresses and `heap` addresses to accounts, because
`db_authenticate_user` hands out the pointer `htable_get` returned and the worker
follows it later: `Match`/`Mismatch` read the password through it, `Permit`/`Refuse`
the permission (the switch of `ctrl_parse_action`, and for a new user the
comparison in `user_action`), while another worker takes the account out of the table
(`RemoveUser`), frees its hash (`DestroyHash`), clears its permission (`WipeUser`) and
frees it (`FreeUser`), each of which the first may see. `Abort` is the step that follows
a freed pointer. `right` (the permission a request was found to have) and `lost`
(the permission its account had when that left the table) are history.
**`AccessPolicy`** is what that amounts to, without addresses: a request takes a copy of
an account, does what the copy permits, and is answered truthfully. It promises less to
a request whose account is removed before it is at work (`left`, `Slip`): to one with
the right password OP_USER_AUTH may be answered, because the hash is gone, and
OP_PERMISSION_ERROR to one that had the permission, because that is zero by then; and
a request that compares a hash whose size was set to 0 under it passes without the
password (`hash_hash_t_match` compares the sizes first, then as many bytes as the size
is by then). It still does no more than the account permitted. **`MCAccess`** has the
instance and its symmetry.

Abstractions of `Access`: a password stands for its hash; sessions, database files
and the tree are the other modules'; an address is not given out twice, since the
sanitizer holds freed memory back (the run has as many addresses as it can use).

**`Framing`** is one exchange over one connection, byte by byte. `buffer`, `wire` and
`near` are what the client has not sent, what is under way and how much of it has
arrived; `field` and `got` are where `read_client_req` is and what it has taken
apart; `head`, `body` and `out` the answer's two writes and what the kernels hold;
`cfield` and `seen` the client's `connect`. `Send` may take a part (`conn.send`'s
result is not looked at), `Arrive` is late, `ReadTimesOut`, `ReadCloses`,
`AllocFails`, `WriteFails` and `Reset` are the error paths, `Leave` and `Stop` a client that goes
away or stops reading. Strings are sequences of characters and a character the
sequence of its bytes, because `client_request` counts the former and sends the
latter. `Abort` is the terminator of an empty string, written into a buffer of no
bytes. **`MCFraming`** has a request of each kind.

**`Paths`** is `join_paths`, `join_and_resolve_paths`, `f_path_resolve` and
`f_valid_resolve` on a tree of files and directories that the actions `MakeDir` and
`Put` extend, one request at a time. A path is the names between its slashes and
whether it begins and ends with one; `realpath` walks the tree. Lengths are counted
where the code counts them, and `JoinOverrun` is where it does not.
**`Listing`** is the buffer of `f_list_dir` (`AddLine`, with the doubling of
`realloc_buff`; `Overrun`) and what `_parse_dir` of the client makes of the text.
**`Arguments`** is `args_parse`, one option a step. **`Hashing`** is the printing of
a digest by `db_update_db`, `hex_char_to_byte_array` and `hash_hash_t_match`, a byte
a step. **`MCCalls`** runs the four from rest, one call at a time: they are
sequential and share nothing.

**`UserDB_proofs`**, **`AccountStore_proofs`**, **`Session_proofs`**,
**`Server_proofs`**, **`FileStore_proofs`**, **`Access_proofs`**,
**`Calls_proofs`** (the four sequential modules) and **`Framing_proofs`** hold the
theorems.
**`MCSession`** adds the symmetry of clients and connections.

How the modules meet. One worker's request is `Framing` (its bytes), `Access` (who
asks), `Session` (the id), then `UserDB` or `FileStore` (the operation), then `Framing`
again; `Server` is around all of it. Each module leaves the others' part to a
nondeterministic outcome that includes all of theirs: a read that fails in `Session`
and `Server` is the `ReadTimesOut`, `ReadCloses` and `AllocFails` of `Framing`; `Save`
of `UserDB` is enabled when no worker is busy, which is `AcceptedAreServed` of
`Server`; the removal of a user is `RemoveUser` of both `Access` (the pointer) and
`UserDB` (the files).

## Runs

| run | instance | shows |
|---|---|---|
| `UserDB_workers` | 2 workers, 2 legal names and one too short, 1 failing call, crashes | a graceful shutdown leaves files that boot with the answered accounts; its own save aborts only by the second `fclose` behind a `.cape.hash` that cannot be opened |
| `UserDB_lone` | 1 worker, 3 legal names, 2 permissions, 2 failing calls, crashes | until a call fails: the database implements `AccountStore`, and is on disk whenever idle; at any time: an update aborts only in the step of a call that fails |
| `UserDB_stale_hash` | 2 workers | *violated:* the hash file represents the database file |
| `UserDB_double_create` | 2 workers | *violated:* an existing user is not created again |
| `Session_clients` | 2 clients, 2 connections, 2 ids, timeout 1, clock to 2, 1 restart | one user per session entry, the server knows the sessions it gave, a session is not used after its client was silent longer than the timeout |
| `Session_answers` | the same with 1 client | every request is answered or its connection goes |
| `Server_pool` | 3 connections, 1 worker, backlog 2, 2 descriptors, 1 SIGINT | orderly shutdown; accepted connections end; the backlog is accepted after EMFILE; a SIGINT the loop can see ends the server |
| `FileStore_tree` | 2 workers, a directory and a file in it, 3 nodes, uploads of 0, 1 and 2 blocks, 1 failing write, crashes | an answered upload stays until it is deleted by name; a download of a stored file sends all of it; no read is cut short (each but for the three ways to spoil a name, see `FileStore`) |
| `Access_requests` | 2 workers, 2 legal names and one too short, 2 passwords, permissions 1 and 3, 3 addresses | a request does what its account permitted, and is answered truthfully unless the account was removed meanwhile; only a request older than a removal meets a freed account; no permission is reached again that nobody has |
| `Framing_exchange` | a request of each kind, plain and with characters of 2 bytes; fields of 2, 3 and 4 bytes; writes of at most 6 and 4 bytes, 7 bytes held | what is acted upon is what was sent, what is shown is what was answered; worker and client return |
| `Calls_inputs` | command lines of 3 options, paths of 3 names, trees of 3 more nodes, listings of 4 lines in a buffer of 16, digests of 3 bytes | the command line means what it says (but for timeouts over eight bits, and the default); what is made is in the home directory and found again; a listing reads back; a hash survives the disk |
| `FileStore_delete` | as `FileStore_tree` | *violated:* `f_del_file` never uses a directory handle it does not have |

Why the bounds are enough. Two workers are what every race of `UserDB` needs;
two names make tables of every size from empty to more than one line. In
`Session`, a timeout of one tick and a clock of two separates "within", "at" and
"past" the timeout; one restart lets a client keep an id of a dead process; two
connections let a client's abandoned request run beside its next one; a single
client already does that, which is why the liveness property is checked with
one. In `Server`, one worker and three connections are a busy worker, a queued
job and a pending connection; two descriptors make the third connection meet
EMFILE. In `FileStore`, the two names can each be a file or a directory, so that a
name is a file for one call and a directory for the next; three nodes are the two
that have names and one that a worker keeps open after its name went (two
removed ones at once would need a third worker to make use of); two blocks make
a write that is half done. In `Access`, two names and three addresses let an account be removed, and
another one be made under its name, while a request holds the first. In `Framing`,
every field has more than one byte and every buffer is shorter than a request or an
answer, so that each field can be cut at each byte. In `Paths`, three names reach out
of the home directory and back into it, a sibling has a name that begins with
home's, and `PATH_MAX` lies between the lengths of paths that occur, as `BUFF_SIZE`
does between those of listings; the timeouts and ports in `Arguments` are those on
both sides of each limit and of eight bits. Bounds in the modules: `MaxFaults`, `MaxRestarts`, `MaxClock`,
`MaxInterrupts`, `RoomForOneMore`, `MaxOptions`, `MaxParts`, `MaxTree`, `MaxLines`, and
the finite sets of addresses and requests. `Session`, `Server`, `Access`, `Framing` and
`MCCalls` do not check for deadlock: when the bounds are used up, the exchange is over
or the server has ended, the modelled system is at rest.
`UserDB` and `FileStore` do: some process can always be started, killed or
interrupted, and some request made.

Fairness. `UserDB`, `FileStore`, `Access` and the four modules of `MCCalls` have none, their
properties are safety properties. `Session`
assumes that a worker goes on with the connection it serves (a read returns
within `CONNECTION_TIMEOUT`, `SO_RCVTIMEO`, and a request has finitely many
bytes); nothing is assumed of clients or time. `Server` assumes that the main
thread and the pool's threads are scheduled, and again that reads return.
Writes have no timeout in the code: a client that does not read keeps its worker
for ever, so the liveness properties of `Server` say "... or some client stalls".
`Framing` justifies the assumption the others make of reads: there the worker runs, a
byte that was sent arrives, a read to which no byte comes times out, and a client
that was not stopped sends and receives; `WorkerReturns` and `ClientReturns` follow
whatever the lengths in a request say. Nothing obliges a client to stay, or to read.

## What the checks found

Three statements of comments do not hold (`findings` in `PROJECT.json`, each with a
run that is expected to be violated): overlapping updates leave a stale hash file,
which a crash then makes fatal for the next boot; two workers create the same user;
of two workers that delete the same empty directory one may read through a null
handle.

Other differences between what is written and what the code does are part of the
models, and the properties are stated around them:

- a name with a ':' or a newline is saved and does not load, or loads as other accounts
  (`Separators` and `Misread` of `UserDB`);
- a digest, a resolve or an open of `.cape.hash` that fails ends the process, by a second
  `fclose` of `.cape.db` (`OpenFails` of `UserDB`);
- a session expires under an active client whose own request takes longer than the
  timeout (`Session`), and a client whose id an OP_FAILURE set to 0 is given a new one
  however long it was idle, since it still has its password;
- while an account is removed, requests that found it before may be answered
  OP_USER_AUTH or OP_PERMISSION_ERROR although password and permission were right, and one
  may pass with a wrong password (`Access`);
- a SIGINT between the test of `server_run` and `accept`, or before the flag is armed,
  is noticed with the next connection only (`Server`);
- timeouts of 256 to 300 seconds, which the limit of `get_timeout` allows, are cut to eight
  bits or refused, and the usage text gives 10 seconds for a default that is 60
  (`Arguments`): `AcceptedAsGiven` is silent about both;
- `f_valid_resolve` does not check the length its comment names, and compares the home
  directory as a text, so a sibling whose name begins with home's passes (`Paths`);
- `do_put_file` replaces a file when the path ends with a slash, or is too long for
  `f_path_resolve` only (`Put` of `Paths`, `PutUnseen` of `FileStore`), and answers OP_SUCCESS
  when `fclose` loses the end of an upload (`PutCloseLost` of `FileStore`);
- a listing may print a few bytes past its buffer (`Listing`);
- the client counts characters where it sends bytes, and the server terminates an
  empty string in a buffer of no bytes (`Framing`).

## Proofs

All theorems hold for every value of the constants, from the assumption named in
the module (`UserDBAssumption`, `LostAssumption`, `SessionAssumption`,
`ServerAssumption`, `FileStoreAssumption`, `AccessAssumption`, `FramingAssumption`,
`SizesAssumption`, `PathsAssumption`, `ListingAssumption`, `ArgumentsAssumption`,
`HashingAssumption`); TLC evaluates each of them in a run. `SizesAssumption` is what
`struct.pack` takes: a length or an id that its field does not hold ends the client
before it sends anything. `FramingAssumption` says of answers that `write_response`
can count them (a message's length in one byte, the whole in `H_PAYLOAD_LEN`) and of
new ids that they are of `H_SESSION_ID` bytes.

Every invariant and every action property of the passing runs, and the two refinements,
are stated by a theorem.

*UserDB.* `TypeCorrect`; `CleanStop` and `SaveAborts` (`SaveAbortsOnFault`), for any
number of workers and failing calls; `LoneWorkerSaves` and `LoneWorkerUpdates`
(`LoneWorkerAbortsOnFault`). The inductive invariant
has three parts. `Control` says which threads run in which phase: while the main
thread saves, every worker is idle. `SaveInv` follows the main thread's own
update (`InStep`): what it measured is what is there, what it wrote is an image of
the table. No worker can disturb this because of `Control`, and that is why the
shutdown repairs whatever the workers' races left in the files. `LoneInv` is the
same of a single worker. What was measured being what is there also means that no
buffer is overrun and no read is short, so that only `OpenFails` is left to abort the
process. The images of a table, as sequences, are counted by the
lemmas at the beginning of the module.

*The refinement of AccountStore.* `LoneWorkerImplements` (`ImplementsStore`) has two
premises, `Lone`: one worker, and no name with a separator; the runs show
that without the first the statement is false. A failing call maps to `Break`, after
which `AccountStore` promises nothing. Every step is mapped to a step or a
stutter, phase by phase (`View`). What has to be known at every step is what the two
files would boot with if the process died there. That is `StoreInv`: until the
database file is truncated they boot with the accounts last answered (`Served`,
`Stopping`), from then until the digest is written they boot with the new ones or not
at all (`Torn`, from `InStep`), and after it with the new ones (`Written`). The first
boot writes in the main thread what no table holds yet, so it has an invariant of its
own (`Installed`); `Refused` says that the operator only removes files that do not boot.

*Session.* `TypeCorrect`, `SoleHolder` (`SoleHolderSafe`), `KnownSession`
(`ClientSessionKnown`) and `IdleSessions` (`IdleSessionsExpire`). None of the
properties is inductive. The reason they hold is
that an id has one user at a time, a client in its session or a connection
(`SoleHolders`): a client hands its id to a connection when it asks and gets it
back with the answer. Then the removal of an entry, which only the connection
with that id makes, cannot free it under another worker (`EntriesHeld`) nor take
it from a client that holds it (`Granted`). `OpenPeers` ties a waiting client to
its one connection. For the times of the entries, `Timely`: no stored time is in the
future (`Past`), a client in its session has heard from the server since its entry was
written (`Stored`), and so the request of a client that let the timeout pass meets an
entry at least as old until `Judge` compares the two (`Late`) - nobody else refreshes
that entry, because the id has one user. All of it is conditional on `~collided`:
`gen_session` may draw an id that somebody still holds, because it is not in the table
yet or not any more.

*Server.* `TypeCorrect` and `OrderlyShutdown` (`AcceptedAreServed`). `thpool_wait`
sees the queue and the busy threads; that nothing else is open needs that every
queued job is in the queue (`QueueComplete`), that the queue and the backlog hold
each connection once (`Lists`), and that the main thread has nothing in hand
outside `dispatch` (in `TypeOK`). `PoolIdle` carries it past the drain.

*FileStore.* `TypeCorrect`, `PutsStay` (`AnsweredPutsStay`), `WholeReads`
(`ReadsAreWhole`) and `FittingReads` (`ReadsFit`). Only the first two are parts of
the inductive invariant. The others follow from who can have a file open: a file
has one name (`OneName`), and whoever has it open opened it by that name
(`HeldName`), so two writers of one file are two uploads of one name, which is
spoiled. An upload to a name that is not (`Alone`) is the only one of its name
(`SoleUpload`), nothing is stored there (`NotStored`), no file is there before it
opens one (`NoFile`), and the file holds what it wrote so far (`Written`). A
download of a stored file finds it under its name until it opens it, and then
nobody writes it (`Due`); a file that is read is not truncated (`Measured`), since
the upload that truncates it would be of the same name. `Quiet` reduces the steps
that leave the tree alone to one worker; `WriteStep`, `LinkStep` and `RemoveStep`
say what a write, a new name and a removed name do to all the others.

*Access.* `TypeCorrect`, `FreedUnderOlder` (`FreedOnlyUnderOlder`), `Ceilings`
(`CeilingsHold`) and `RequestsFollowPolicy` (`ImplementsPolicy`). `PointersHeld` says
what a pointer is worth: a whole account that nobody takes apart, unless it was removed
since the pointer was taken; and then it still has, until it is wiped, the permission it was
removed with. It needs that the table holds whole accounts under one name each
(`TableHolds`) and that what is being taken apart has no name and one worker
(`VictimsApart`). Then the permission a request acts with is the one it was found to have
(`RightsMatch`). A request may be let in by a hash that is being freed, and has its
account's permission then: that nobody reaches a permission in this way that was gone
rests on `Ranks`, by which only an admin takes an account apart (`Entitled`, `DyingHeld`) and
nobody is above an admin (`Capped`). With `AtWork`, which ties a worker to the operation it was asked
for, every step is a step of `AccessPolicy` or a stutter.

*Framing.* `TypeCorrect`, `ReadsWhatIsSent` (`AsSent`) and `ReadsWhatIsAnswered`
(`AsAnswered`), over `UnpackedPacked`: a number below 256^w comes back out of its w bytes.
What client and server agree upon is a list of fields, so the proof lays the request out
field by field (`Chunk`, `Value`, `NextOf`; `Left` is a field and all behind it) and
shows that `client_request` writes just that (`PayloadLaidOut`, `WireLaidOut`), that
every number fits its field (`NumberFits`), and that the worker, from what it has read,
finds the width of the field it is at and the field behind it (`WidthRight`,
`AfterRight`). Both take the lengths that it subtracts from the payload's
(`StreamSize`, `HasPassword`) and hold for plain strings only: with a character of two
bytes the payload is longer than the sizes in it say. Three invariants follow. `ReadInv` is what holds of any
request: which fields the worker has read, in which order (`Before`), and that
they are typed, so that the next width is a number. `SentInv` is for a plain request: what was
read is what was meant, and the bytes under way are a beginning of what is left of it
(`Begins`, not all of it: `send` may have taken a part). At the end nothing is left, so
nothing is under way. `AnswerInv` is the same of the answer, where four pieces are joined: what
the client has of a field, what the kernels hold, and what the worker has still to write
of header and content are together what is left from the client's field on. That is why it does
not matter where `write`, the kernels or `recv` cut. `Fits` ties the answer to the
lengths in its header.

*Paths.* `MakesInHome` (`MadeInHome`), `FindsWhatIsMade` (`MadeIsFound`) and
`ReplacesNothing` (`PutReplacesNothing`). The inductive invariant (`PathInv`) is these
three and that the tree is one (`IsTree`: what has a name lies in a directory). A walk of
`realpath` ends at one place at most (`WalkStays`), a path of names leads to itself or
nowhere (`WalkAlong`), and what is added to the tree stops no walk (`WalkGrows`).
With these, the place that `f_valid_resolve` makes of a parent and a last name is where
the walk of the whole path ends afterwards (`WholeWalk`), also when that path goes
out of the home directory and back, and was free before unless the path was too long for
`f_path_resolve` or ended with a slash (`Place`, `MakeKeeps`). A last name ".." needs a
case of its own: it resolves to what is there already (`RealOfUp`).

*Listing, Arguments, Hashing.* `OverrunsShort`: between two lines the text is shorter
than the buffer, and one doubling of at least `BUFF_SIZE` makes room for any line but
for what is not counted. `ReadsBack` (`ReadBack`): however
many lines were listed, the text splits into these and an empty one (`TextInv`). `str.split`
goes along the text (`CutByTokens`), keeps in one part what has no separator
(`CutPlain`) and ends it at one (`CutEnd`), so that a line more is one part more
(`CutOfLine`); the client stops at the empty one (`LinesOf`); a line of a plain name is three fields
(`BodyParsed`). `AcceptsAsGiven`: at each turn of the loop `args` is what the
options before it ask for, each at most once; the command lines it accepts are the
proper ones but for a timeout of 256 (`Acceptable`). `Reloads`: the text shows the bytes
printed so far, and what was scanned is what was printed. All four are of inputs of
any length.

*Induction over data.* `Place`, `Packed`, `Unpacked`, `Walk` and `Cut` are recursive functions, and
`Utf8` a fold of the library's. That such a function exists, and is what its definition
says at every argument, is proved for each (`Chain`, `PlaceChain`, `UnpackedChain`,
`WalkExists`, `CutExists`, `Utf8Bytes`), by induction over a set of numbers or of
sequences (`Induct`, `SeqInduct`): the theorems of the library take the statement as an operator,
which the provers cannot instantiate, so these take it as a set and rest on the
well-foundedness of `<`. No definition that a theorem is about is recursive in
another way.

Only model-checked: the liveness properties (`RequestsAnswered`, `AcceptedAreClosed`,
`BacklogIsAccepted`, `InterruptHeeded`, `WorkerReturns`, `ClientReturns`). They need
fairness and `ENABLED`, which are out of the prover's reach. The three comments that do
not hold are counterexamples, and need no proof. SHA-256 stays an assumption (a
function, and in `UserDB` an injective one).

## Not modelled

What is left is outside what the modules can say, or has nothing in it to check:

- SHA-256 (`UserDB` and `Framing` take it for a function, `UserDB` for an injective one);
  `hash_pass_match`, which the server does not call;
- `getaddrinfo`, the socket's options, and the size of the pool from the number of
  processors (256 of them make a pool of none; what the library then does is not in
  the repository);
- the growth of `sesh_htable` by sessions of clients that left: no entry is ever reaped,
  and the model bounds the table by its ids;
- symbolic links in the tree, other processes that change it, and requests that put or
  delete `.cape` or the files in it;
- the client's `argparse`, `cmd` completion and local `ls`, `mkdir` and `delete`, and the
  one-shot command line: sequential, without state the server shares;
- printing, debug output and the build scripts.

Beyond that, the functions under `src/src/server` that change state or decide an answer
are actions of a module, or parts of one; `PROJECT.json` maps them line by line.
