------------------------- MODULE AccountStore_proofs -------------------------
(***************************************************************************)
(* A server with one worker, whose names contain no separator, implements  *)
(* AccountStore.                                                           *)
(***************************************************************************)
EXTENDS MCUserDB, UserDB_proofs

\* The server the refinement is about.
Lone ==
    /\ Cardinality(Workers) = 1
    /\ Separators = {}
-----------------------------------------------------------------------------
(***************************************************************************)
(* StoreInv: what the two files hold at each point of an update.  Before   *)
(* the database file is truncated they boot with the accounts last         *)
(* answered; from then until the digest is written, no other accounts.     *)
(* It holds until a file system call fails.                                *)
(***************************************************************************)

\* A worker's change waits for the answered accounts to be written over.
Served ==
    Serving => \A w \in Workers :
        /\ pc[w] = "set" => job[w].user \notin DOMAIN table
        /\ pc[w] \in {"idle", "set"} => acked = table /\ Boots(table)
        /\ pc[w] \in {"count", "serialise", "open_db"} => Boots(acked)

\* db_shutdown writes over the files the last update left.
Stopping ==
    (phase = "saving" /\ pc[Main] \in {"count", "serialise", "open_db"}) => Boots(table)

\* The first boot writes the default accounts.
Installed ==
    (phase = "booting" /\ pc[Main] # "load") =>
        /\ pc[Main] = "open_db" => dbFile = Missing /\ hashFile = Missing
        /\ pc[Main] \in {"open_db", "write_db"} => out[Main] \in Images(DefaultAccounts)
        /\ pc[Main] = "write_db" => dbFile = <<>>
        /\ pc[Main] \in {"measure_db", "read_db", "open_hash", "write_hash"}
             => dbFile \in Images(DefaultAccounts)
        /\ pc[Main] \in {"open_hash", "write_hash"} => out[Main] = dbFile

\* The server refused to boot: the operator has not yet removed its files.
Refused ==
    (phase = "down" /\ stop = "refused")
        => Stored = Lost \/ (dbFile = Missing /\ hashFile = Missing)

Running == phase # "down" => stop = "running"

StoreInv == Served /\ Stopping /\ Installed /\ Refused /\ Running

\* What the steps of a lone server start from, and the one thing they keep.
Before ==
    /\ Lone /\ TypeInv /\ SaveInv /\ LoneInv /\ StoreInv
    /\ faults = 0 /\ faults' = faults
-----------------------------------------------------------------------------
(***************************************************************************)
(* The refinement mapping, phase by phase.                                 *)
(***************************************************************************)

Shows(accts, answd, m) ==
    StoreAccounts = accts /\ StoreAnswered = answd /\ StoreMode = m

Changing == \E w \in Workers : pc[w] \notin {"idle", "set"}

Offline == phase = "down" \/ (phase = "booting" /\ pc[Main] = "load")

View ==
    /\ Serving /\ ~Changing => Shows(table, acked, "up")
    /\ Serving /\ Changing => Shows(table, acked, "changing")
    /\ phase = "saving" => Shows(table, acked, "stopping")
    /\ (phase = "booting" /\ pc[Main] # "load")
         => Shows(DefaultAccounts, DefaultAccounts, "installing")
    /\ Offline => Shows(Stored, Stored, "down")

\* A step that no call fails in starts and ends in a state the mapping shows.
LEMMA Views ==
    ASSUME faults = 0
    PROVE  View /\ (faults' = faults => View')
<1>1. View
  BY DEF View, Shows, Changing, Offline, Serving, StoreAccounts, StoreAnswered, StoreMode,
         InMemory, Installing, Broken
<1>2. faults' = faults => View'
  BY DEF View, Shows, Changing, Offline, Serving, StoreAccounts, StoreAnswered, StoreMode,
         InMemory, Installing, Broken
<1> QED
  BY <1>1, <1>2

\* A step of the server is one of AccountStore, or none.
Refines == Store!StoreNext \/ UNCHANGED <<StoreAccounts, StoreAnswered, StoreMode>>

\* What files that exist hold: the accounts they boot with, or Lost.
LEMMA FilesHold ==
    ASSUME TypeOK, dbFile # Missing
    PROVE  /\ \A t : Boots(t) => Stored = t
           /\ (\A t : ~Boots(t)) => Stored = Lost
           /\ \A t : (Parsable(dbFile) => Loaded(dbFile) = t) => Stored \in {t, Lost}
<1>1. hashFile = <<dbFile>> => hashFile # Missing
  <2>1. <<dbFile>> \in Seq(Seq(Token))
    BY DEF TypeOK
  <2> QED
    BY <2>1, UserDBAssumption
<1>2. \A t : Boots(t) => Boots(Loaded(dbFile)) /\ Loaded(dbFile) = t /\ hashFile # Missing
  BY <1>1 DEF Boots
<1>3. \/ Stored = Lost /\ \A t : ~Boots(t)
      \/ Stored = Loaded(dbFile) /\ Boots(Loaded(dbFile))
  BY <1>2 DEF Stored
<1> QED
  BY <1>2, <1>3 DEF Boots

\* An update under way has left nothing a boot would load but its accounts.
LEMMA Torn ==
    ASSUME TypeOK, Separators = {}, NEW t \in Accounts, dbFile = <<>> \/ dbFile \in Images(t)
    PROVE  Stored \in {t, Lost}
<1>1. dbFile # Missing
  <2>1. <<>> \in Seq(Token) /\ (dbFile \in Images(t) => dbFile \in Seq(Token))
    BY ImageProperties
  <2> QED
    BY <2>1, UserDBAssumption
<1>2. Parsable(dbFile) => Loaded(dbFile) = t
  BY ImageLoads DEF Parsable
<1> QED
  BY <1>1, <1>2, FilesHold

\* Once the digest is written the files boot with the accounts of the image.
LEMMA Written ==
    ASSUME TypeOK, Separators = {}, NEW t \in Accounts,
           dbFile' \in Images(t), hashFile' = <<dbFile'>>
    PROVE  Boots(t)' /\ Stored' = t
<1>1. Parsable(dbFile') /\ Loaded(dbFile') = t /\ dbFile' \in Seq(Token)
  BY ImageLoads, ImageProperties
<1>2. Boots(t)' /\ Boots(Loaded(dbFile))'
  BY <1>1 DEF Boots
<1>3. dbFile' # Missing /\ hashFile' # Missing
  <2>1. <<dbFile'>> \in Seq(Seq(Token))
    BY <1>1
  <2> QED
    BY <1>1, <2>1, UserDBAssumption
<1>4. Stored' = Loaded(dbFile')
  BY <1>1, <1>3 DEF Stored, Boots
<1> QED
  BY <1>1, <1>2, <1>4
-----------------------------------------------------------------------------
(***************************************************************************)
(* The lone worker's steps.                                                *)
(***************************************************************************)

\* What Before gives a step.
LEMMA LoneFacts ==
    ASSUME Before
    PROVE  /\ TypeOK /\ Control /\ SaveInv /\ StoreInv /\ Separators = {}
           /\ faults = 0 /\ faults' = faults
           /\ Main \in Actors /\ \A w \in Workers : w \in Actors /\ w # Main /\ Workers = {w}
           /\ \A w \in Workers : InStep(w, TRUE)
           /\ phase \in {"booting", "saving", "down"} => \A w \in Workers : pc[w] = "idle"
<1>1. faults = 0
  BY DEF Before
<1>2. \A w \in Workers : w \in Actors /\ w # Main /\ Workers = {w}
  BY OnlyOne, UserDBAssumption DEF Before, Lone, Actors
<1>3. \A w \in Workers : InStep(w, TRUE)
  <2>1. \A w \in Workers : InStep(w, faults = 0)
    BY DEF Before, Lone, LoneInv
  <2>2. (faults = 0) = TRUE
    BY <1>1
  <2> QED
    BY <2>1, <2>2
<1> QED
  BY <1>1, <1>2, <1>3 DEF Before, Lone, TypeInv, Control, Serving, Quiescent, Actors

\* While the server serves, only Served can be disturbed.
LEMMA WhileServing ==
    ASSUME Before, Serving, Serving', Served', stop' = stop
    PROVE  StoreInv'
BY DEF Before, StoreInv, Served, Stopping, Installed, Refused, Running, Serving

\* A request is refused, or adds or removes an account: Add and Remove.
LEMMA RequestRefines ==
    ASSUME Before, NEW w \in Workers, Request(w)
    PROVE  StoreInv' /\ Refines
<1>0. /\ TypeOK /\ StoreInv /\ Workers = {w} /\ w \in Actors
      /\ Serving /\ phase' = phase /\ stop' = stop /\ acked' = acked
      /\ UNCHANGED <<dbFile, hashFile>>
  <2>1. Serving
    BY LoneFacts
    DEF Request, RejectNewUser, RejectRemoval, RemoveUser, CheckNewUser, SetUser, Goto,
        Control, Quiescent
  <2>2. UNCHANGED <<phase, stop, acked, dbFile, hashFile>>
    BY DEF Request, RejectNewUser, RejectRemoval, RemoveUser, CheckNewUser, SetUser,
           files, history
  <2> QED
    BY <2>1, <2>2, LoneFacts
<1>1. Serving' /\ View /\ View' /\ (\A t : Boots(t)' <=> Boots(t))
  <2>1. View /\ View'
    BY LoneFacts, Views
  <2> QED
    BY <1>0, <2>1 DEF Serving, Boots
<1>2. /\ pc[w] = "set" => job[w].user \notin DOMAIN table
      /\ pc[w] \in {"idle", "set"} => acked = table /\ Boots(table)
  BY <1>0 DEF StoreInv, Served
<1>3. CASE \E u \in Names : RejectNewUser(w, u) \/ RejectRemoval(w, u)
  <2>1. UNCHANGED <<table, pc, job>>
    BY <1>3 DEF RejectNewUser, RejectRemoval, locals
  <2>2. Served'
    BY <1>0, <1>1, <2>1 DEF StoreInv, Served
  <2>3. Refines
    BY <1>0, <1>1, <2>1 DEF Refines, View, Shows, Changing, Serving
  <2> QED
    BY <1>0, <1>1, <2>2, <2>3, WhileServing
<1>4. CASE \E u \in Names, p \in Perms : CheckNewUser(w, u, p)
  <2>1. PICK u \in Names, p \in Perms : CheckNewUser(w, u, p)
    BY <1>4
  <2>2. /\ pc[w] = "idle" /\ pc'[w] = "set" /\ table' = table
        /\ job'[w].user = u /\ u \notin DOMAIN table
    BY <1>0, <2>1 DEF CheckNewUser, Goto, TypeOK
  <2>3. Served'
    BY <1>0, <1>1, <1>2, <2>2 DEF Served
  <2>4. Refines
    BY <1>0, <1>1, <2>2 DEF Refines, View, Shows, Changing
  <2> QED
    BY <1>0, <1>1, <2>3, <2>4, WhileServing
<1>5. CASE SetUser(w)
  <2> DEFINE u == job[w].user
             p == job[w].perm
  <2>1. /\ pc[w] = "set" /\ pc'[w] = "count" /\ table' = WithUser(table, u, p)
        /\ u \in Names /\ p \in Perms
    BY <1>0, <1>5 DEF SetUser, Goto, TypeOK
  <2>2. Served'
    BY <1>0, <1>1, <1>2, <2>1 DEF Served
  <2>3. /\ Shows(table, acked, "up") /\ Shows(table, acked, "changing")'
    BY <1>0, <1>1, <2>1 DEF View, Changing
  <2>4. Store!Add(u, p)
    BY <1>0, <1>2, <2>1, <2>3 DEF Store!Add, Shows, WithUser
  <2>5. Refines
    BY <2>1, <2>4 DEF Refines, Store!StoreNext
  <2> QED
    BY <1>0, <1>1, <2>2, <2>5, WhileServing
<1>6. CASE \E u \in Names : RemoveUser(w, u)
  <2>1. PICK u \in Names : RemoveUser(w, u)
    BY <1>6
  <2>2. /\ pc[w] = "idle" /\ pc'[w] = "count" /\ table' = WithoutUser(table, u)
        /\ u \in DOMAIN table
    BY <1>0, <2>1 DEF RemoveUser, Goto, TypeOK
  <2>3. Served'
    BY <1>0, <1>1, <1>2, <2>2 DEF Served
  <2>4. /\ Shows(table, acked, "up") /\ Shows(table, acked, "changing")'
    BY <1>0, <1>1, <2>2 DEF View, Changing
  <2>5. Store!Remove(u)
    BY <1>0, <2>2, <2>4 DEF Store!Remove, Shows, WithoutUser
  <2>6. Refines
    BY <2>1, <2>5 DEF Refines, Store!StoreNext
  <2> QED
    BY <1>0, <1>1, <2>3, <2>6, WhileServing
<1> QED
  BY <1>3, <1>4, <1>5, <1>6 DEF Request

\* The update runs alone: its last step is Answer, the others change nothing
\* AccountStore has.
LEMMA UpdateRefines ==
    ASSUME Before, TypeOK', NEW w \in Workers, Update(w)
    PROVE  StoreInv' /\ Refines
<1>0. /\ TypeInv /\ TypeOK /\ StoreInv /\ Workers = {w} /\ w \in Actors /\ w # Main
      /\ InStep(w, TRUE) /\ Separators = {} /\ View /\ View'
  BY LoneFacts, Views DEF Before
<1>1. pc[w] \in Writing \cup {"count", "serialise"}
  BY DEF Update, CountBytes, Serialise, OpenDb, WriteDb, MeasureDb, ReadDb, OpenHash, WriteHash,
         Goto, Writing
<1>2. Serving /\ Changing /\ phase \in {"up", "draining"}
  BY <1>0, <1>1, LoneFacts DEF Writing, Control, Quiescent, Serving, Changing
<1>3. CASE \/ CountBytes(w) \/ Serialise(w) \/ OpenDb(w) \/ WriteDb(w)
           \/ MeasureDb(w) \/ ReadDb(w) \/ OpenHash(w)
  <2>1. /\ pc'[w] \notin {"idle", "set", "load"}
        /\ UNCHANGED <<phase, table, acked, stop>>
    BY <1>0, <1>2, <1>3, InStepUpdate
  <2>2. pc'[w] \in {"count", "serialise", "open_db"}
          => pc[w] \in {"count", "serialise"} /\ UNCHANGED <<dbFile, hashFile>>
    BY <1>0, <1>3, <2>1
    DEF CountBytes, Serialise, OpenDb, WriteDb, MeasureDb, ReadDb, OpenHash, Goto, TypeOK, files,
        ProcessEnds
  <2>3. Served'
    BY <1>0, <1>2, <2>1, <2>2 DEF StoreInv, Served, Boots
  <2>4. Serving' /\ Changing'
    BY <1>2, <2>1 DEF Serving, Changing
  <2>5. Refines
    BY <1>0, <1>2, <2>1, <2>4 DEF Refines, View, Shows
  <2> QED
    BY <1>2, <2>1, <2>3, <2>4, <2>5, WhileServing
<1>4. CASE WriteHash(w)
  <2>1. /\ pc[w] = "write_hash" /\ pc'[w] = "idle"
        /\ hashFile' = <<dbFile'>> /\ dbFile' \in Images(table)
        /\ acked' = table /\ UNCHANGED <<phase, table, stop>>
    BY <1>0, <1>4 DEF WriteHash, EndUpdate, InStep, TypeOK
  <2>2. table \in Accounts /\ Boots(table)'
    BY <1>0, <2>1, Written DEF TypeOK
  <2>3. Served'
    BY <1>0, <2>1, <2>2 DEF Served, Boots
  <2>4. Serving' /\ ~Changing'
    BY <1>0, <1>2, <2>1 DEF Serving, Changing
  <2>5. Store!Answer
    BY <1>0, <1>2, <2>1, <2>4 DEF Store!Answer, View, Shows
  <2>6. Refines
    BY <2>5 DEF Refines, Store!StoreNext
  <2> QED
    BY <1>2, <2>1, <2>3, <2>4, <2>6, WhileServing
<1> QED
  BY <1>3, <1>4 DEF Update
-----------------------------------------------------------------------------
(***************************************************************************)
(* The main thread's steps.                                                *)
(***************************************************************************)

\* The first boot writes the default accounts; its last step is Install.
LEMMA InstallRefines ==
    ASSUME Before, TypeOK', phase = "booting", Update(Main)
    PROVE  StoreInv' /\ Refines
<1>0. /\ TypeOK /\ StoreInv /\ Main \in Actors /\ Main \notin Workers
      /\ Separators = {} /\ View /\ View'
      /\ pc[Main] = "read_db" => need[Main] = Len(dbFile)
  BY LoneFacts, Views, UserDBAssumption DEF Before, LoneInv
<1>1. pc[Main] \in Writing
  BY <1>0, LoneFacts
  DEF Control, Update, CountBytes, Serialise, OpenDb, WriteDb, MeasureDb, ReadDb, OpenHash,
      WriteHash, Goto, Writing
<1>2. /\ Installed /\ Running /\ pc[Main] # "load"
      /\ Shows(DefaultAccounts, DefaultAccounts, "installing")
  BY <1>0, <1>1 DEF StoreInv, View, Writing
<1>3. ASSUME phase' = phase, stop' = stop, pc'[Main] # "load", Installed'
      PROVE  StoreInv' /\ Refines
  <2>1. StoreInv'
    BY <1>2, <1>3 DEF StoreInv, Served, Stopping, Refused, Running, Serving
  <2>2. Shows(DefaultAccounts, DefaultAccounts, "installing")'
    BY <1>0, <1>3 DEF View
  <2> QED
    BY <1>2, <2>1, <2>2 DEF Refines, Shows
<1>4. CASE OpenDb(Main)
  <2>1. /\ phase' = phase /\ stop' = stop /\ pc'[Main] = "write_db"
        /\ dbFile' = <<>> /\ out' = out /\ pc[Main] = "open_db"
    BY <1>0, <1>4 DEF OpenDb, Goto, locals, history, TypeOK
  <2>2. Installed'
    BY <1>2, <2>1 DEF Installed
  <2> QED
    BY <1>3, <2>1, <2>2
<1>5. CASE WriteDb(Main)
  <2>1. /\ phase' = phase /\ stop' = stop /\ pc'[Main] = "measure_db"
        /\ dbFile' = Overwrite(dbFile, out[Main]) /\ pc[Main] = "write_db"
    BY <1>0, <1>5 DEF WriteDb, Goto, history, TypeOK
  <2>2. dbFile' \in Images(DefaultAccounts)
    BY <1>0, <1>2, <2>1, AloneContents DEF Installed, TypeOK
  <2>3. Installed'
    BY <2>1, <2>2 DEF Installed
  <2> QED
    BY <1>3, <2>1, <2>3
<1>6. CASE MeasureDb(Main)
  <2>1. /\ phase' = phase /\ stop' = stop /\ pc'[Main] = "read_db"
        /\ dbFile' = dbFile /\ pc[Main] = "measure_db"
    BY <1>0, <1>6 DEF MeasureDb, Goto, files, history, TypeOK
  <2>2. Installed'
    BY <1>2, <2>1 DEF Installed
  <2> QED
    BY <1>3, <2>1, <2>2
<1>7. CASE ReadDb(Main)
  <2>1. dbFile \in Seq(Token) /\ Len(dbFile) \in Nat /\ need[Main] = Len(dbFile)
    BY <1>0, <1>2, <1>7, AccountsClosed, ImageProperties DEF ReadDb, Installed
  <2>2. /\ phase' = phase /\ stop' = stop /\ pc'[Main] = "open_hash"
        /\ dbFile' = dbFile /\ pc[Main] = "read_db"
        /\ out' = [out EXCEPT ![Main] = SubSeq(dbFile, 1, Len(dbFile))]
    BY <1>0, <1>7, <2>1 DEF ReadDb, files, TypeOK
  <2>3. out'[Main] = dbFile
    BY <1>0, <2>1, <2>2, AloneContents DEF TypeOK
  <2>4. Installed'
    BY <1>2, <2>2, <2>3 DEF Installed
  <2> QED
    BY <1>3, <2>2, <2>4
<1>8. CASE OpenHash(Main)
  <2>1. /\ phase' = phase /\ stop' = stop /\ pc'[Main] = "write_hash"
        /\ dbFile' = dbFile /\ out' = out /\ pc[Main] = "open_hash"
    BY <1>0, <1>8 DEF OpenHash, Goto, locals, history, TypeOK
  <2>2. Installed'
    BY <1>2, <2>1 DEF Installed
  <2> QED
    BY <1>3, <2>1, <2>2
<1>9. CASE WriteHash(Main)
  <2>1. /\ phase' = phase /\ stop' = stop /\ pc'[Main] = "load"
        /\ hashFile' = <<dbFile'>> /\ dbFile' \in Images(DefaultAccounts)
    BY <1>0, <1>2, <1>9 DEF WriteHash, EndUpdate, Installed, TypeOK
  <2>2. Stored' = DefaultAccounts
    BY <1>0, <2>1, AccountsClosed, Written
  <2>3. StoreInv'
    BY <1>2, <2>1 DEF StoreInv, Served, Stopping, Installed, Refused, Running, Serving
  <2>4. Shows(Stored, Stored, "down")'
    BY <1>0, <2>1 DEF View, Offline
  <2>5. Store!Install
    BY <1>2, <2>2, <2>4 DEF Store!Install, Shows
  <2> QED
    BY <2>3, <2>5 DEF Refines, Store!StoreNext
<1>10. ~CountBytes(Main) /\ ~Serialise(Main)
  BY <1>1 DEF CountBytes, Serialise, Goto, Writing
<1> QED
  BY <1>4, <1>5, <1>6, <1>7, <1>8, <1>9, <1>10 DEF Update

\* db_shutdown's save ends in Stop.
LEMMA SaveRefines ==
    ASSUME Before, TypeOK', phase = "saving", Update(Main)
    PROVE  StoreInv' /\ Refines
<1>0. /\ TypeInv /\ TypeOK /\ StoreInv /\ SaveInv /\ Main \in Actors /\ Main \notin Workers
      /\ Separators = {} /\ View /\ View' /\ stop = "running"
  BY LoneFacts, Views, UserDBAssumption DEF Before, StoreInv, Running
<1>1. InStep(Main, TRUE) /\ acked = table
  <2>1. (stop = "running") = TRUE
    BY <1>0
  <2> QED
    BY <1>0, <2>1 DEF SaveInv
<1>2. Shows(table, table, "stopping")
  BY <1>0, <1>1 DEF View, Shows
<1>3. CASE \/ CountBytes(Main) \/ Serialise(Main) \/ OpenDb(Main) \/ WriteDb(Main)
           \/ MeasureDb(Main) \/ ReadDb(Main) \/ OpenHash(Main)
  <2>1. UNCHANGED <<phase, table, acked, stop>>
    BY <1>0, <1>1, <1>3, InStepUpdate
  <2>2. pc'[Main] \in {"count", "serialise", "open_db"}
          => pc[Main] \in {"count", "serialise"} /\ UNCHANGED <<dbFile, hashFile>>
    BY <1>0, <1>3, <2>1
    DEF CountBytes, Serialise, OpenDb, WriteDb, MeasureDb, ReadDb, OpenHash, Goto, TypeOK, files,
        ProcessEnds
  <2>3. StoreInv'
    BY <1>0, <2>1, <2>2 DEF StoreInv, Served, Stopping, Installed, Refused, Running, Serving, Boots
  <2>4. Shows(table, table, "stopping")'
    BY <1>0, <1>1, <2>1 DEF View, Shows
  <2> QED
    BY <1>2, <2>1, <2>3, <2>4 DEF Refines, Shows
<1>4. CASE WriteHash(Main)
  <2>1. /\ phase' = "down" /\ stop' = "clean"
        /\ hashFile' = <<dbFile'>> /\ dbFile' \in Images(table)
    BY <1>0, <1>1, <1>4 DEF WriteHash, EndUpdate, ProcessEnds, InStep
  <2>2. table \in Accounts /\ Stored' = table
    BY <1>0, <2>1, Written DEF TypeOK
  <2>3. StoreInv'
    BY <2>1 DEF StoreInv, Served, Stopping, Installed, Refused, Running, Serving
  <2>4. Shows(Stored, Stored, "down")'
    BY <1>0, <2>1 DEF View, Offline
  <2>5. Store!Stop
    BY <1>2, <2>2, <2>4 DEF Store!Stop, Shows
  <2> QED
    BY <2>3, <2>5 DEF Refines, Store!StoreNext
<1> QED
  BY <1>3, <1>4 DEF Update

\* A crash is Fail: the files hold what they held, which the point of the
\* update decides.
LEMMA CrashRefines ==
    ASSUME Before, Crash
    PROVE  StoreInv' /\ Refines
<1>0. /\ TypeOK /\ Control /\ StoreInv /\ SaveInv /\ Separators = {} /\ View /\ View'
      /\ \A w \in Workers : w \in Actors /\ Workers = {w} /\ InStep(w, TRUE)
      /\ DefaultAccounts \in Accounts
  BY LoneFacts, Views, AccountsClosed
<1>1. /\ phase # "down" /\ phase' = "down" /\ stop' = "crashed"
      /\ UNCHANGED <<dbFile, hashFile>> /\ Stored' = Stored
  BY DEF Crash, ProcessEnds, files, Stored, Boots
<1>2. StoreInv'
  BY <1>1 DEF StoreInv, Served, Stopping, Installed, Refused, Running, Serving
<1>3. StoreAccounts' = Stored /\ StoreAnswered' = Stored /\ StoreMode' = "down"
  <2>1. Shows(Stored, Stored, "down")'
    BY <1>0, <1>1 DEF View, Offline
  <2> QED
    BY <1>1, <2>1 DEF Shows
<1> SUFFICES Refines
  BY <1>2
<1>4. ASSUME NEW accts, NEW answd, NEW m, Shows(accts, answd, m), m \notin {"down", "broken"},
             Stored \in CASE m = "up" -> {accts}
                          [] m = "changing" -> {answd, accts, Lost}
                          [] OTHER -> {accts, Lost}
      PROVE  Refines
  BY <1>1, <1>3, <1>4 DEF Refines, Store!StoreNext, Store!Fail, Shows
<1>5. CASE Serving /\ ~Changing
  <2>1. PICK w \in Workers : pc[w] \in {"idle", "set"}
    <3>1. Workers # {}
      BY FS_EmptySet DEF Before, Lone
    <3> QED
      BY <1>5, <3>1 DEF Changing
  <2>2. Boots(table) /\ dbFile # Missing
    BY <1>0, <1>1, <1>5, <2>1 DEF StoreInv, Served, Control, Serving
  <2>3. Stored = table
    BY <1>0, <2>2, FilesHold
  <2> QED
    BY <1>0, <1>4, <1>5, <2>3 DEF View
<1>6. CASE Serving /\ Changing
  <2>1. PICK w \in Workers : pc[w] \notin {"idle", "set"}
    BY <1>6 DEF Changing
  <2>2. pc[w] \in Writing \cup {"count", "serialise"} /\ dbFile # Missing
    BY <1>0, <1>1, <1>6, <2>1 DEF TypeOK, PCs, Control, Writing, Serving
  <2>3. Stored \in {acked, table, Lost}
    <3>1. CASE pc[w] \in {"count", "serialise", "open_db"}
      BY <1>0, <1>6, <2>2, <3>1, FilesHold DEF StoreInv, Served
    <3>2. CASE pc[w] \notin {"count", "serialise", "open_db"}
      <4>1. dbFile = <<>> \/ dbFile \in Images(table)
        BY <1>0, <2>2, <3>2 DEF InStep, Writing
      <4> QED
        BY <1>0, <4>1, Torn DEF TypeOK
    <3> QED
      BY <3>1, <3>2
  <2> QED
    BY <1>0, <1>4, <1>6, <2>3 DEF View
<1>7. CASE phase = "saving"
  <2>1. InStep(Main, TRUE) /\ pc[Main] \in Writing \cup {"count", "serialise"} /\ dbFile # Missing
    <3>1. (stop = "running") = TRUE
      BY <1>0, <1>7 DEF StoreInv, Running
    <3> QED
      BY <1>0, <1>7, <3>1 DEF SaveInv, Control
  <2>2. Stored \in {table, Lost}
    <3>1. CASE pc[Main] \in {"count", "serialise", "open_db"}
      BY <1>0, <1>7, <2>1, <3>1, FilesHold DEF StoreInv, Stopping
    <3>2. CASE pc[Main] \notin {"count", "serialise", "open_db"}
      <4>1. dbFile = <<>> \/ dbFile \in Images(table)
        BY <2>1, <3>2 DEF InStep, Writing
      <4> QED
        BY <1>0, <4>1, Torn DEF TypeOK
    <3> QED
      BY <3>1, <3>2
  <2> QED
    BY <1>0, <1>4, <1>7, <2>2 DEF View
<1>8. CASE phase = "booting" /\ pc[Main] # "load"
  <2>1. pc[Main] \in Writing
    BY <1>0, <1>8 DEF Control
  <2>2. Stored \in {DefaultAccounts, Lost}
    <3>1. CASE pc[Main] = "open_db"
      BY <1>0, <1>8, <3>1 DEF StoreInv, Installed, Stored, Boots
    <3>2. CASE pc[Main] # "open_db"
      <4>1. dbFile = <<>> \/ dbFile \in Images(DefaultAccounts)
        BY <1>0, <1>8, <2>1, <3>2 DEF StoreInv, Installed, Writing
      <4> QED
        BY <1>0, <4>1, Torn
    <3> QED
      BY <3>1, <3>2
  <2> QED
    BY <1>0, <1>4, <1>8, <2>2 DEF View
<1>9. CASE phase = "booting" /\ pc[Main] = "load"
  <2>1. Shows(Stored, Stored, "down")
    BY <1>0, <1>9 DEF View, Offline
  <2> QED
    BY <1>3, <2>1 DEF Refines, Shows
<1>10. phase \in {"booting", "up", "draining", "saving"}
  BY <1>0, <1>1 DEF TypeOK, Phases
<1> QED
  BY <1>5, <1>6, <1>7, <1>8, <1>9, <1>10 DEF Serving

\* Booting, stopping and starting over: Install, Start, Stop and StartOver.
LEMMA MainRefines ==
    ASSUME Before, TypeOK', Boot \/ Load \/ Interrupt \/ Save \/ StartOver
    PROVE  StoreInv' /\ Refines
<1>0. /\ TypeOK /\ Control /\ StoreInv /\ Main \in Actors /\ View /\ View'
      /\ \A w \in Workers : w \in Actors /\ w # Main /\ Workers = {w}
      /\ phase \in {"booting", "saving", "down"} => \A w \in Workers : pc[w] = "idle"
  BY LoneFacts, Views
<1>1. CASE Boot
  <2>1. phase = "down" /\ Shows(Stored, Stored, "down")
    BY <1>0, <1>1 DEF Boot, View, Offline
  <2>2. UNCHANGED <<dbFile, hashFile>> /\ Stored' = Stored
    BY <1>1 DEF Boot, files, Stored, Boots
  <2>3. CASE dbFile = Missing /\ hashFile = Missing
    <3>1. /\ phase' = "booting" /\ stop' = "running" /\ pc'[Main] = "open_db"
          /\ out'[Main] \in Images(DefaultAccounts)
      BY <1>0, <1>1, <2>3 DEF Boot, TypeOK
    <3>2. StoreInv'
      BY <2>2, <2>3, <3>1 DEF StoreInv, Served, Stopping, Installed, Refused, Running, Serving
    <3>3. Shows(DefaultAccounts, DefaultAccounts, "installing")'
      BY <1>0, <3>1 DEF View
    <3>4. Stored = DefaultAccounts
      BY <2>3 DEF Stored
    <3>5. Store!Install
      BY <2>1, <3>3, <3>4 DEF Store!Install, Shows
    <3> QED
      BY <3>2, <3>5 DEF Refines, Store!StoreNext
  <2>4. CASE ~(dbFile = Missing /\ hashFile = Missing)
    <3>1. \/ phase' = "booting" /\ stop' = "running" /\ pc'[Main] = "load"
          \/ phase' = "down" /\ stop' = "refused" /\ (dbFile = Missing) # (hashFile = Missing)
      BY <1>0, <1>1, <2>1, <2>4 DEF Boot, TypeOK
    <3>2. (dbFile = Missing) # (hashFile = Missing) => Stored = Lost
      BY DEF Stored, Boots
    <3>3. StoreInv'
      BY <2>2, <3>1, <3>2 DEF StoreInv, Served, Stopping, Installed, Refused, Running, Serving
    <3>4. Shows(Stored, Stored, "down")'
      BY <1>0, <3>1 DEF View, Offline
    <3> QED
      BY <2>1, <2>2, <3>3, <3>4 DEF Refines, Shows
  <2> QED
    BY <2>3, <2>4
<1>2. CASE Load
  <2>1. /\ phase = "booting" /\ pc[Main] = "load" /\ dbFile # Missing /\ dbFile \in Seq(Token)
        /\ Shows(Stored, Stored, "down")
    BY <1>0, <1>2 DEF Load, View, Offline, Control, TypeOK
  <2>2. UNCHANGED <<dbFile, hashFile>> /\ Stored' = Stored
    BY <1>2 DEF Load, files, Stored, Boots
  <2>3. CASE hashFile = <<dbFile>> /\ Parsable(dbFile)
    <3> DEFINE t == Loaded(dbFile)
    <3>1. /\ phase' = "up" /\ stop' = stop /\ table' = t /\ acked' = t
          /\ \A w \in Workers : pc'[w] = "idle"
      BY <1>0, <1>2, <2>1, <2>3 DEF Load, TypeOK
    <3>2. Boots(t) /\ Stored = t /\ t \in Accounts
      BY <1>0, <2>1, <2>3, FilesHold, LoadedType DEF Boots
    <3>3. StoreInv'
      <4>1. Boots(table)'
        BY <2>2, <3>1, <3>2 DEF Boots
      <4>2. Served'
        BY <3>1, <4>1 DEF Served
      <4> QED
        BY <1>0, <2>1, <3>1, <4>2 DEF StoreInv, Stopping, Installed, Refused, Running
    <3>4. Shows(table, acked, "up")'
      BY <1>0, <3>1 DEF View, Serving, Changing
    <3>5. t # Lost
      BY <3>2, LostAssumption
    <3>6. Store!Start
      BY <2>1, <3>1, <3>2, <3>4, <3>5 DEF Store!Start, Shows
    <3> QED
      BY <3>3, <3>6 DEF Refines, Store!StoreNext
  <2>4. CASE ~(hashFile = <<dbFile>> /\ Parsable(dbFile))
    <3>1. phase' = "down"
      BY <1>2, <2>4 DEF Load, ProcessEnds
    <3>2. Stored = Lost
      BY <1>0, <2>1, <2>4, FilesHold DEF Boots
    <3>3. StoreInv'
      BY <2>2, <3>1, <3>2 DEF StoreInv, Served, Stopping, Installed, Refused, Running, Serving
    <3>4. Shows(Stored, Stored, "down")'
      BY <1>0, <3>1 DEF View, Offline
    <3> QED
      BY <2>1, <2>2, <3>3, <3>4 DEF Refines, Shows
  <2> QED
    BY <2>3, <2>4
<1>3. CASE Interrupt
  <2>1. /\ Serving /\ Serving' /\ stop' = stop
        /\ UNCHANGED <<table, dbFile, hashFile, pc, job, acked>>
    BY <1>3 DEF Interrupt, files, locals, history, Serving
  <2>2. Served'
    BY <1>0, <2>1 DEF StoreInv, Served, Boots
  <2>3. Changing' <=> Changing
    BY <2>1 DEF Changing
  <2>4. Refines
    BY <1>0, <2>1, <2>3 DEF Refines, View, Shows
  <2> QED
    BY <2>1, <2>2, <2>4, WhileServing
<1>4. CASE Save
  <2>1. /\ Serving /\ ~Changing /\ phase' = "saving" /\ stop' = stop /\ pc'[Main] = "count"
        /\ phase # "down" /\ UNCHANGED <<table, acked, dbFile, hashFile>>
    BY <1>0, <1>4 DEF Save, files, history, Serving, Changing, TypeOK
  <2>2. PICK w \in Workers : pc[w] = "idle"
    <3>1. Workers # {}
      BY FS_EmptySet DEF Before, Lone
    <3> QED
      BY <1>4, <3>1 DEF Save
  <2>3. Boots(table) /\ Boots(table)'
    BY <1>0, <2>1, <2>2 DEF StoreInv, Served, Boots
  <2>4. StoreInv'
    BY <1>0, <2>1, <2>3 DEF StoreInv, Served, Stopping, Installed, Refused, Running, Serving
  <2>5. Shows(table, acked, "up") /\ Shows(table, acked, "stopping")'
    BY <1>0, <2>1 DEF View
  <2>6. Store!Stop
    BY <2>1, <2>5 DEF Store!Stop, Shows
  <2> QED
    BY <2>4, <2>6 DEF Refines, Store!StoreNext
<1>5. CASE StartOver
  <2>1. /\ phase = "down" /\ phase' = "down" /\ stop = "refused"
        /\ dbFile' = Missing /\ hashFile' = Missing
    BY <1>5 DEF StartOver
  <2>2. Stored = Lost \/ Stored = DefaultAccounts
    BY <1>0, <2>1 DEF StoreInv, Refused, Stored, Boots
  <2>3. Stored' = DefaultAccounts
    BY <2>1 DEF Stored
  <2>4. StoreInv'
    BY <2>1 DEF StoreInv, Served, Stopping, Installed, Refused, Running, Serving
  <2>5. Shows(Stored, Stored, "down") /\ Shows(Stored, Stored, "down")'
    BY <1>0, <2>1 DEF View, Offline
  <2>6. Stored = Lost => Store!StartOver
    BY <2>3, <2>5 DEF Store!StartOver, Shows
  <2>7. Stored = DefaultAccounts => UNCHANGED <<StoreAccounts, StoreAnswered, StoreMode>>
    BY <2>3, <2>5 DEF Shows
  <2> QED
    BY <2>2, <2>4, <2>6, <2>7 DEF Refines, Store!StoreNext
<1> QED
  BY <1>1, <1>2, <1>3, <1>4, <1>5
-----------------------------------------------------------------------------
(***************************************************************************)
(* The refinement.                                                         *)
(***************************************************************************)

\* The first call that fails is Break; from then on AccountStore has stopped.
LEMMA FaultRefines ==
    ASSUME TypeInv, NEW a \in Actors, OpenFails(a) \/ WriteLost(a)
    PROVE  faults' # 0 /\ Refines
<1>1. /\ pc[a] \in Writing /\ faults' = faults + 1 /\ faults \in Nat
      /\ faults' > 0 /\ (faults # 0 => faults > 0)
  <2>1. pc[a] \in Writing /\ faults' = faults + 1
    BY DEF OpenFails, WriteLost, Goto, Writing
  <2>2. faults \in Nat
    BY UserDBAssumption DEF TypeInv, TypeOK
  <2> QED
    BY <2>1, <2>2
<1>2. Shows(Lost, Lost, "broken")'
  <2>1. Broken'
    BY <1>1 DEF Broken
  <2> QED
    BY <2>1 DEF Shows, StoreAccounts, StoreAnswered, StoreMode, InMemory, Installing
<1>3. CASE faults # 0
  <2>1. Shows(Lost, Lost, "broken")
    <3>1. Broken
      BY <1>1, <1>3 DEF Broken
    <3> QED
      BY <3>1 DEF Shows, StoreAccounts, StoreAnswered, StoreMode, InMemory, Installing
  <2> QED
    BY <1>1, <1>2, <2>1 DEF Refines, Shows
<1>4. CASE faults = 0
  <2>1. View
    BY <1>4, Views
  <2>2. \/ phase = "saving"
        \/ phase = "booting" /\ pc[Main] # "load"
        \/ Serving /\ Changing
    BY <1>1 DEF TypeInv, TypeOK, Phases, Control, Quiescent, Serving, Writing, Changing, Actors
  <2>3. StoreMode \in {"installing", "changing", "stopping"}
    BY <2>1, <2>2 DEF View, Shows
  <2>4. Store!Break
    BY <1>2, <2>3 DEF Store!Break, Shows
  <2> QED
    BY <1>1, <2>4 DEF Refines, Store!StoreNext
<1> QED
  BY <1>3, <1>4

\* The other steps leave the count of failed calls alone.
LEMMA NoFault ==
    ASSUME [Next]_vars, \A a \in Actors : ~OpenFails(a) /\ ~WriteLost(a)
    PROVE  faults' = faults
BY DEF Next, Request, RejectNewUser, RejectRemoval, RemoveUser, CheckNewUser, SetUser,
       Update, CountBytes, Serialise, OpenDb, WriteDb, MeasureDb, ReadDb, OpenHash, WriteHash,
       Boot, Load, Interrupt, Save, Crash, StartOver, vars

\* Every step keeps StoreInv while no call has failed, and is a step of
\* AccountStore, or none.
LEMMA StoreStep ==
    ASSUME Lone
    PROVE  TypeInv /\ SaveInv /\ LoneInv /\ (faults = 0 => StoreInv) /\ [Next]_vars
             => (faults' = 0 => StoreInv') /\ [Store!StoreNext]_(Store!storeVars)
<1> SUFFICES ASSUME TypeInv, SaveInv, LoneInv, faults = 0 => StoreInv, [Next]_vars
             PROVE  (faults' = 0 => StoreInv') /\ Refines
  BY DEF Refines, Store!storeVars
<1>0. TypeOK'
  BY TypeStep DEF TypeInv
<1>1. ASSUME NEW a \in Actors, OpenFails(a) \/ WriteLost(a)
      PROVE  (faults' = 0 => StoreInv') /\ Refines
  BY <1>1, FaultRefines
<1>2. CASE (\A a \in Actors : ~OpenFails(a) /\ ~WriteLost(a)) /\ faults = 0
  <2>0. Before
    BY <1>2, NoFault DEF Before
  <2>1. ASSUME Update(Main)
        PROVE  phase \in {"booting", "saving"}
    <3>1. pc[Main] # "idle"
      BY <2>1
      DEF Update, CountBytes, Serialise, OpenDb, WriteDb, MeasureDb, ReadDb, OpenHash, WriteHash,
          Goto
    <3> QED
      BY <3>1 DEF TypeInv, TypeOK, Control, Phases
  <2>2. CASE UNCHANGED vars
    <3>1. UNCHANGED <<phase, table, dbFile, hashFile, pc, job, out, faults, acked, stop>>
      BY <2>2 DEF vars, files, locals, history
    <3>2. Stored' = Stored /\ (Serving' <=> Serving)
      BY <3>1 DEF Stored, Boots, Serving
    <3>3. StoreInv'
      BY <1>2, <3>1, <3>2 DEF StoreInv, Served, Stopping, Installed, Refused, Running, Boots
    <3>4. Refines
      BY <3>1, <3>2
      DEF Refines, StoreAccounts, StoreAnswered, StoreMode, InMemory, Installing, Broken
    <3> QED
      BY <3>3, <3>4
  <2> QED
    BY <1>0, <1>2, <2>0, <2>1, <2>2, RequestRefines, UpdateRefines, InstallRefines, SaveRefines,
       CrashRefines, MainRefines
    DEF Next, Actors
<1>3. CASE (\A a \in Actors : ~OpenFails(a) /\ ~WriteLost(a)) /\ faults # 0
  <2>1. faults' = faults /\ faults > 0
    BY <1>3, NoFault, UserDBAssumption DEF TypeInv, TypeOK
  <2>2. UNCHANGED <<StoreAccounts, StoreAnswered, StoreMode>>
    <3>1. Broken /\ Broken'
      BY <2>1 DEF Broken
    <3> QED
      BY <3>1 DEF StoreAccounts, StoreAnswered, StoreMode, InMemory, Installing
  <2> QED
    BY <1>3, <2>1, <2>2 DEF Refines
<1> QED
  BY <1>1, <1>2, <1>3

\* One worker does to the accounts and the files what AccountStore promises,
\* until a file system call of an update fails: a change answered OP_SUCCESS
\* survives every crash, one under way is kept whole, dropped whole, or leaves
\* files db_init refuses (db_create_user, db_remove_user, db_update_db, db_init
\* and db_shutdown together).
THEOREM LoneWorkerImplements ==
    ASSUME Lone
    PROVE  Spec => ImplementsStore
<1>1. Init => (faults = 0 => StoreInv) /\ Store!StoreInit
  BY DEF Init, StoreInv, Served, Stopping, Installed, Refused, Running, Serving,
         Store!StoreInit, StoreAccounts, StoreAnswered, StoreMode, InMemory, Installing,
         Broken, Stored
<1>2. TypeInv /\ SaveInv /\ LoneInv /\ (faults = 0 => StoreInv) /\ [Next]_vars
        => (faults' = 0 => StoreInv') /\ [Store!StoreNext]_(Store!storeVars)
  BY StoreStep
<1>3. (faults' = 0 => StoreInv') <=> (faults = 0 => StoreInv)'
  OBVIOUS
<1> QED
  BY <1>1, <1>2, <1>3, TypeInvariance, SaveInvariance, LoneInvariance, PTL
  DEF Spec, ImplementsStore, Store!StoreSpec
=============================================================================
