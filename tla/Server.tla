------------------------------- MODULE Server -------------------------------
(***************************************************************************)
(* The main thread and the pool of worker threads: start_server,           *)
(* signal_handler and the outer steps of serve_client                      *)
(* (src/src/server/server_sock.c), between the kernel's backlog and        *)
(* db_shutdown (src/src/server/server_main.c).                             *)
(*                                                                         *)
(* What a request does to sessions, users and files is in Session and      *)
(* UserDB: here a worker reads a request and writes an answer.  Memory     *)
(* allocations and setsockopt succeed.  Each member of Conns is one        *)
(* connection, made once.                                                  *)
(***************************************************************************)
EXTENDS Naturals, Sequences, FiniteSets

CONSTANTS
    Conns,          \* connections clients make
    NumWorkers,     \* threads of the pool
    BackLog,        \* BACK_LOG of listen
    MaxFds,         \* descriptors the process may have open for connections
    MaxInterrupts   \* bound: SIGINTs delivered

ASSUME ServerAssumption ==
    /\ NumWorkers \in Nat \ {0} /\ BackLog \in Nat \ {0}
    /\ MaxFds \in Nat \ {0} /\ MaxInterrupts \in Nat

\* Where start_server is; "blocked" is inside accept.
StartUp == {"listen", "pool", "handlers"}
Loop    == {"test", "accept", "blocked", "dispatch"}
MainPCs == StartUp \cup {"arm"} \cup Loop
             \cup {"drain", "close", "save", "abandon", "abort", "exited", "killed"}

\* Where a connection is: not made, in the backlog, in the main thread's
\* hand, in the queue of the pool, in a worker's, finished.
Jobs  == {"none", "pending", "held", "queued", "reading", "replying", "closed"}
Peers == {"away", "open", "stalled", "gone"}
-----------------------------------------------------------------------------
VARIABLES
    main,       \* the program counter of the main thread
    run,        \* server_run
    backlog,    \* connections the kernel made that accept has not returned
    queue,      \* jobs in the pool's queue
    job,        \* where each connection is
    peer,       \* its client
    whole,      \* connections whose client sent its whole request
    answered,   \* history: connections an answer was written to
    signals     \* history: what the main thread did when a SIGINT came

vars == <<main, run, backlog, queue, job, peer, whole, answered, signals>>
clients == <<peer, whole>>

Init ==
    /\ main = "listen" /\ run = FALSE
    /\ backlog = <<>> /\ queue = <<>>
    /\ job = [f \in Conns |-> "none"]
    /\ peer = [f \in Conns |-> "away"]
    /\ whole = {} /\ answered = {} /\ signals = <<>>

Held == {f \in Conns : job[f] = "held"}
Busy == {f \in Conns : job[f] \in {"reading", "replying"}}
Open == {f \in Conns : job[f] \in {"held", "queued", "reading", "replying"}}

Goto(from, to) == main = from /\ main' = to
-----------------------------------------------------------------------------
(***************************************************************************)
(* The clients, as far as their sockets tell, until the server closes them.*)
(***************************************************************************)

Listening == main \in {"pool", "handlers", "abandon", "arm"} \cup Loop \cup {"drain", "close"}

Connect(f) ==
    /\ Listening
    /\ job[f] = "none" /\ Len(backlog) < BackLog
    /\ job' = [job EXCEPT ![f] = "pending"]
    /\ peer' = [peer EXCEPT ![f] = "open"]
    /\ backlog' = Append(backlog, f)
    /\ UNCHANGED <<main, run, queue, whole, answered, signals>>

\* The last byte of a request is sent.  Nothing makes a client send it.
Complete(f) ==
    /\ job[f] # "closed" /\ peer[f] = "open" /\ f \notin whole
    /\ whole' = whole \cup {f}
    /\ UNCHANGED <<main, run, backlog, queue, job, peer, answered, signals>>

\* The client stops reading an answer larger than what the kernel buffers, or
\* goes on.
Stall(f) ==
    /\ job[f] # "closed" /\ f \in whole
    /\ \/ peer[f] = "open" /\ peer' = [peer EXCEPT ![f] = "stalled"]
       \/ peer[f] = "stalled" /\ peer' = [peer EXCEPT ![f] = "open"]
    /\ UNCHANGED <<main, run, backlog, queue, job, whole, answered, signals>>

Leave(f) ==
    /\ job[f] # "closed" /\ peer[f] \in {"open", "stalled"}
    /\ peer' = [peer EXCEPT ![f] = "gone"]
    /\ UNCHANGED <<main, run, backlog, queue, job, whole, answered, signals>>
-----------------------------------------------------------------------------
(***************************************************************************)
(* start_server, up to the loop.                                           *)
(***************************************************************************)

\* server_listen; without a socket there is nothing to give back.
Listen ==
    /\ \/ Goto("listen", "pool") \/ Goto("listen", "abort")
    /\ UNCHANGED <<run, backlog, queue, job, clients, answered, signals>>

\* thpool_init, then the two sigactions.
StartPool ==
    /\ \/ Goto("pool", "handlers") \/ Goto("pool", "abandon")
    /\ UNCHANGED <<run, backlog, queue, job, clients, answered, signals>>

InstallHandlers ==
    /\ \/ Goto("handlers", "arm") \/ Goto("handlers", "abandon")
    /\ UNCHANGED <<run, backlog, queue, job, clients, answered, signals>>

\* The atomic_flag_test_and_set before the loop.
Arm ==
    /\ Goto("arm", "test")
    /\ run' = TRUE
    /\ UNCHANGED <<backlog, queue, job, clients, answered, signals>>
-----------------------------------------------------------------------------
(***************************************************************************)
(* The loop.                                                               *)
(***************************************************************************)

\* Mutant: while (true), the flag only set.
TestIgnored ==
    /\ Goto("test", "accept")
    /\ run' = TRUE
    /\ UNCHANGED <<backlog, queue, job, clients, answered, signals>>

\* while (atomic_flag_test_and_set(&server_run)).
Test ==
    /\ \/ run /\ Goto("test", "accept")
       \/ ~run /\ Goto("test", "drain")
    /\ run' = TRUE
    /\ UNCHANGED <<backlog, queue, job, clients, answered, signals>>

\* Mutant: an error of accept ends the loop.
AcceptFailsForGood ==
    /\ main = "accept" /\ Cardinality(Open) >= MaxFds
    /\ main' = "drain"
    /\ UNCHANGED <<run, backlog, queue, job, clients, answered, signals>>

\* accept with no descriptor left: EMFILE at once, and the loop turns.
AcceptFails ==
    /\ main = "accept" /\ Cardinality(Open) >= MaxFds
    /\ main' = "test"
    /\ UNCHANGED <<run, backlog, queue, job, clients, answered, signals>>

\* accept with an empty backlog.
Block ==
    /\ Goto("accept", "blocked")
    /\ Cardinality(Open) < MaxFds /\ backlog = <<>>
    /\ UNCHANGED <<run, backlog, queue, job, clients, answered, signals>>

\* accept returns a connection.
Accept ==
    /\ main \in {"accept", "blocked"} /\ main' = "dispatch"
    /\ main = "accept" => Cardinality(Open) < MaxFds
    /\ backlog # <<>>
    /\ job' = [job EXCEPT ![Head(backlog)] = "held"]
    /\ backlog' = Tail(backlog)
    /\ UNCHANGED <<run, queue, clients, answered, signals>>

\* thpool_enqueue_job.
Dispatch ==
    /\ Goto("dispatch", "test")
    /\ \E f \in Held :
         /\ job' = [job EXCEPT ![f] = "queued"]
         /\ queue' = Append(queue, f)
    /\ UNCHANGED <<run, backlog, clients, answered, signals>>
-----------------------------------------------------------------------------
(***************************************************************************)
(* The end of start_server, and main after it.                             *)
(***************************************************************************)

\* Mutant: the queue is empty, the workers may still be busy.
DrainQueueOnly ==
    /\ Goto("drain", "close")
    /\ queue = <<>>
    /\ UNCHANGED <<run, backlog, queue, job, clients, answered, signals>>

\* thpool_wait.
Drain ==
    /\ Goto("drain", "close")
    /\ queue = <<>> /\ Busy = {}
    /\ UNCHANGED <<run, backlog, queue, job, clients, answered, signals>>

\* close(server_socket): the kernel resets what is left in the backlog.  The
\* pool is destroyed too, and its threads join.
Close ==
    /\ Goto("close", "save") \/ Goto("abandon", "abort")
    /\ job' = [f \in Conns |-> IF job[f] = "pending" THEN "closed" ELSE job[f]]
    /\ peer' = [f \in Conns |-> IF job[f] = "pending" THEN "gone" ELSE peer[f]]
    /\ backlog' = <<>>
    /\ UNCHANGED <<run, queue, whole, answered, signals>>

\* db_shutdown and the end of main, also when the server did not start.
Exit ==
    /\ main \in {"save", "abort"} /\ main' = "exited"
    /\ UNCHANGED <<run, backlog, queue, job, clients, answered, signals>>

\* Mutant: a SIGINT ends whatever the loop does, not only a blocked accept.
InterruptLeavesTurn ==
    /\ Len(signals) < MaxInterrupts
    /\ main \notin {"exited", "killed"}
    /\ main' = CASE main \in StartUp \cup {"abandon", "abort"} -> "killed"
                 [] main \in Loop -> "test"
                 [] OTHER -> main
    /\ run' = FALSE
    /\ signals' = Append(signals, main)
    /\ UNCHANGED <<backlog, queue, job, clients, answered>>

\* SIGINT goes to the main thread.  Before the handler is installed it ends
\* the process; inside accept it makes the call fail with EINTR.
Interrupt ==
    /\ Len(signals) < MaxInterrupts
    /\ main \notin {"exited", "killed"}
    /\ main' = CASE main \in StartUp \cup {"abandon", "abort"} -> "killed"
                 [] main = "blocked" -> "test"
                 [] OTHER -> main
    /\ run' = FALSE
    /\ signals' = Append(signals, main)
    /\ UNCHANGED <<backlog, queue, job, clients, answered>>
-----------------------------------------------------------------------------
(***************************************************************************)
(* The workers.                                                            *)
(***************************************************************************)

Running == main \notin {"exited", "killed"}

\* A thread of the pool takes the oldest job.
Dequeue ==
    /\ Running
    /\ queue # <<>> /\ Cardinality(Busy) < NumWorkers
    /\ job' = [job EXCEPT ![Head(queue)] = "reading"]
    /\ queue' = Tail(queue)
    /\ UNCHANGED <<main, run, backlog, clients, answered, signals>>

Move(f, from, to) ==
    /\ Running
    /\ job[f] = from
    /\ job' = [job EXCEPT ![f] = to]

\* read_client_req and ctrl_parse_action.
ReadRequest(f) ==
    /\ f \in whole
    /\ Move(f, "reading", "replying")
    /\ UNCHANGED <<main, run, backlog, queue, clients, answered, signals>>

\* Mutant: without SO_RCVTIMEO no read of a connected socket times out.
ReadWaits(f) ==
    /\ f \notin whole /\ peer[f] = "away"
    /\ Move(f, "reading", "replying")
    /\ UNCHANGED <<main, run, backlog, queue, clients, answered, signals>>

\* CONNECTION_TIMEOUT passes without a byte: the error is answered.
ReadTimesOut(f) ==
    /\ f \notin whole /\ peer[f] = "open"
    /\ Move(f, "reading", "replying")
    /\ UNCHANGED <<main, run, backlog, queue, clients, answered, signals>>

\* OP_SOCK_CLOSED: nothing is written.
ReadCloses(f) ==
    /\ f \notin whole /\ peer[f] = "gone"
    /\ Move(f, "reading", "closed")
    /\ UNCHANGED <<main, run, backlog, queue, clients, answered, signals>>

\* write_response and the close of the connection.  A write has no timeout: it
\* waits for a client that does not read; one that is gone makes it fail.
Reply(f) ==
    /\ peer[f] # "stalled"
    /\ Move(f, "replying", "closed")
    /\ answered' = IF peer[f] = "open" THEN answered \cup {f} ELSE answered
    /\ UNCHANGED <<main, run, backlog, queue, clients, signals>>
-----------------------------------------------------------------------------
Main == \/ Listen \/ StartPool \/ InstallHandlers \/ Arm
        \/ Test \/ AcceptFails \/ Block \/ Accept \/ Dispatch
        \/ Drain \/ Close \/ Exit

Work(f) == ReadRequest(f) \/ ReadTimesOut(f) \/ ReadCloses(f) \/ Reply(f)

Client(f) == Connect(f) \/ Complete(f) \/ Stall(f) \/ Leave(f)

Next == \/ Main \/ Interrupt \/ Dequeue
        \/ \E f \in Conns : Work(f) \/ Client(f)

\* The threads are scheduled, and a read returns within CONNECTION_TIMEOUT.
\* Nothing is asked of the clients.
Fairness ==
    /\ WF_vars(Main) /\ WF_vars(Dequeue)
    /\ \A f \in Conns : WF_vars(Work(f))

Spec == Init /\ [][Next]_vars /\ Fairness
-----------------------------------------------------------------------------
(***************************************************************************)
(* Properties.                                                             *)
(***************************************************************************)

\* Every variable keeps its type, and the main thread has a connection in hand,
\* one, exactly between accept and thpool_enqueue_job.
TypeOK ==
    /\ main \in MainPCs /\ run \in BOOLEAN
    /\ backlog \in Seq(Conns) /\ queue \in Seq(Conns)
    /\ job \in [Conns -> Jobs] /\ peer \in [Conns -> Peers]
    /\ whole \subseteq Conns /\ answered \subseteq Conns
    /\ signals \in Seq(MainPCs)
    /\ (Held # {}) <=> (main = "dispatch")
    /\ \A f, g \in Held : f = g

\* thpool_wait before the end: when start_server returns no worker is in a
\* request, so db_shutdown frees the database under nobody, and every accepted
\* client that stayed has its answer.
AcceptedAreServed ==
    main \in {"close", "save", "exited"} =>
      /\ Open = {}
      /\ \A f \in Conns :
           (job[f] = "closed" /\ peer[f] \in {"open", "stalled"}) => f \in answered

\* A client that does not read its answer keeps a worker for as long as it likes.
Stalled == \E f \in Conns : job[f] = "replying" /\ peer[f] = "stalled"

\* No client that is silent, slow or gone keeps the pool from the others:
\* every accepted connection is served and closed.
AcceptedAreClosed ==
    \A f \in Conns : job[f] = "held" ~> (job[f] = "closed" \/ Stalled)

\* A connection in the backlog is accepted, also after accept ran out of
\* descriptors, unless the server is told to stop or cannot start.
BacklogIsAccepted ==
    \A f \in Conns :
      job[f] = "pending" ~> \/ job[f] = "held" \/ Stalled
                            \/ signals # <<>> \/ main = "abandon"

SignalsIn(pcs) == \E i \in DOMAIN signals : signals[i] \in pcs

\* A SIGINT that finds the main thread in its loop ends the server, unless it
\* comes after the test and before accept blocks: then the loop goes on to the
\* next connection.
InterruptHeeded ==
    SignalsIn(Loop) ~> \/ main = "exited" \/ Stalled
                       \/ SignalsIn({"accept"}) /\ main = "blocked" /\ ~run
=============================================================================
