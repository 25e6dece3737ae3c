--------------------------- MODULE Server_proofs ---------------------------
(***************************************************************************)
(* The shutdown of Server is orderly, for any number of connections,       *)
(* workers, descriptors and interrupts.                                    *)
(***************************************************************************)
EXTENDS Server, TLAPS

\* What Drain relies on: a job the pool was given and no worker took is in its
\* queue.
QueueComplete ==
    \A f \in Conns : job[f] = "queued" => \E i \in DOMAIN queue : queue[i] = f

\* s holds connections that are at j, each once.
Lists(s, j) ==
    /\ \A i \in DOMAIN s : s[i] \in Conns /\ job[s[i]] = j
    /\ \A i, k \in DOMAIN s : s[i] = s[k] => i = k

\* Outside the loop and the drain the pool has nothing to do.
PoolIdle ==
    main \notin Loop \cup {"drain"} => queue = <<>> /\ Open = {}

\* A client that stayed until its connection was closed has its answer.
ClosedAnswered ==
    \A f \in Conns :
      (job[f] = "closed" /\ peer[f] \in {"open", "stalled"}) => f \in answered

IInv ==
    /\ TypeOK
    /\ Lists(backlog, "pending") /\ Lists(queue, "queued")
    /\ QueueComplete /\ PoolIdle /\ ClosedAnswered

\* The inductive invariant is strong enough for the orderly shutdown.
LEMMA IInvServes == IInv => AcceptedAreServed
  BY DEF IInv, PoolIdle, ClosedAnswered, AcceptedAreServed, Loop

\* Before the server listens there is no connection at all.
LEMMA IInvInit == Init => IInv
<1> SUFFICES ASSUME Init PROVE IInv
  OBVIOUS
<1>1. Held = {} /\ Open = {}
  BY DEF Init, Held, Open
<1>2. TypeOK
  <2>1. <<>> \in Seq(Conns) /\ <<>> \in Seq(MainPCs)
    OBVIOUS
  <2> QED
    BY <1>1, <2>1 DEF Init, TypeOK, MainPCs, StartUp, Jobs, Peers
<1>3. QueueComplete /\ PoolIdle /\ ClosedAnswered
  BY <1>1 DEF Init, QueueComplete, PoolIdle, ClosedAnswered
<1>4. Lists(backlog, "pending") /\ Lists(queue, "queued")
  BY DEF Init, Lists
<1> QED
  BY <1>2, <1>3, <1>4 DEF IInv
-----------------------------------------------------------------------------
(***************************************************************************)
(* Each step keeps the inductive invariant.                                *)
(***************************************************************************)

\* The head and the tail of a list of connections: the rest is in the tail.
LEMMA HeadTail ==
    ASSUME NEW s \in Seq(Conns), s # <<>>
    PROVE  /\ Head(s) = s[1] /\ 1 \in DOMAIN s
           /\ Tail(s) \in Seq(Conns)
           /\ \A i \in DOMAIN Tail(s) : i + 1 \in DOMAIN s /\ Tail(s)[i] = s[i + 1] /\ i + 1 # 1
           /\ \A i, k \in DOMAIN Tail(s) : i + 1 = k + 1 => i = k
           /\ \A i \in DOMAIN s : i = 1 \/ (i - 1 \in DOMAIN Tail(s) /\ Tail(s)[i - 1] = s[i])
  OBVIOUS

\* The main thread outside dispatch, when it moves no connection.
LEMMA Moves ==
    ASSUME IInv, main' \in MainPCs, main # "dispatch", main' # "dispatch",
           main \in Loop \cup {"drain"} \/ main' \notin Loop \cup {"drain"}
             \/ main = "arm",
           run' \in BOOLEAN,
           UNCHANGED <<backlog, queue, job, clients, answered, signals>>,
           main' \in Loop \cup {"drain"} \/ (queue = <<>> /\ Open = {})
    PROVE  IInv'
<1>1. Held' = Held /\ Open' = Open
  BY DEF Held, Open
<1>2. TypeOK'
  BY <1>1 DEF IInv, TypeOK, clients
<1>3. QueueComplete' /\ ClosedAnswered' /\ PoolIdle'
  BY <1>1 DEF IInv, QueueComplete, ClosedAnswered, PoolIdle, clients
<1>4. Lists(backlog, "pending")' /\ Lists(queue, "queued")'
  BY DEF IInv, Lists
<1> QED
  BY <1>2, <1>3, <1>4 DEF IInv

\* start_server up to the loop, and its end: no job is in the pool.
LEMMA StartStep ==
    IInv /\ (Listen \/ StartPool \/ InstallHandlers \/ Arm \/ Exit) => IInv'
<1> SUFFICES ASSUME IInv, Listen \/ StartPool \/ InstallHandlers \/ Arm \/ Exit
             PROVE  IInv'
  OBVIOUS
<1>1. main \notin Loop \cup {"drain"} /\ main' \in MainPCs /\ main' # "dispatch"
  BY DEF Listen, StartPool, InstallHandlers, Arm, Exit, Goto, Loop, MainPCs, StartUp
<1>2. queue = <<>> /\ Open = {}
  BY <1>1 DEF IInv, PoolIdle
<1>3. run' \in BOOLEAN /\ UNCHANGED <<backlog, queue, job, clients, answered, signals>>
  BY DEF IInv, TypeOK, Listen, StartPool, InstallHandlers, Arm, Exit
<1>4. main # "dispatch"
  BY <1>1 DEF Loop
<1>5. main = "arm" \/ main' \notin Loop \cup {"drain"}
  BY DEF Listen, StartPool, InstallHandlers, Arm, Exit, Goto, Loop
<1> QED
  BY <1>1, <1>2, <1>3, <1>4, <1>5, Moves

\* The steps of the loop that move no connection.
LEMMA TurnStep == IInv /\ (Test \/ AcceptFails \/ Block) => IInv'
<1> SUFFICES ASSUME IInv, Test \/ AcceptFails \/ Block PROVE IInv'
  OBVIOUS
<1>1. /\ main \in Loop /\ main # "dispatch" /\ main' # "dispatch"
      /\ main' \in MainPCs /\ main' \in Loop \cup {"drain"}
  BY DEF Test, AcceptFails, Block, Goto, Loop, MainPCs
<1>2. run' \in BOOLEAN /\ UNCHANGED <<backlog, queue, job, clients, answered, signals>>
  BY DEF IInv, TypeOK, Test, AcceptFails, Block
<1> QED
  BY <1>1, <1>2, Moves

\* accept: the main thread takes the first connection in hand.
LEMMA AcceptStep == IInv /\ Accept => IInv'
<1> SUFFICES ASSUME IInv, Accept PROVE IInv'
  OBVIOUS
<1> DEFINE f == Head(backlog)
<1>1. f \in Conns /\ backlog' \in Seq(Conns)
  BY DEF IInv, TypeOK, Accept
<1>2. job' = [job EXCEPT ![f] = "held"] /\ Held = {} /\ main' = "dispatch"
  BY DEF IInv, TypeOK, Accept
<1> HIDE DEF f
<1>3. Held' = {f}
  BY <1>1, <1>2 DEF Held, IInv, TypeOK
<1>4. TypeOK'
  BY <1>1, <1>2, <1>3 DEF IInv, TypeOK, Accept, clients, Jobs, MainPCs, Loop
<1>5. QueueComplete' /\ ClosedAnswered' /\ PoolIdle'
  BY <1>1, <1>2 DEF IInv, TypeOK, Accept, QueueComplete, ClosedAnswered,
                    PoolIdle, clients, Loop
<1>6. job[f] = "pending"
  BY HeadTail DEF f, IInv, TypeOK, Accept, Lists
<1>7. Lists(backlog, "pending")'
  BY <1>1, <1>2, HeadTail DEF f, IInv, TypeOK, Accept, Lists
<1>8. Lists(queue, "queued")'
  BY <1>1, <1>2, <1>6 DEF IInv, TypeOK, Accept, Lists
<1> QED
  BY <1>4, <1>5, <1>7, <1>8 DEF IInv

\* thpool_enqueue_job: the connection in hand joins the queue.
LEMMA DispatchStep == IInv /\ Dispatch => IInv'
<1> SUFFICES ASSUME IInv, Dispatch PROVE IInv'
  OBVIOUS
<1>1. PICK f \in Held : /\ job' = [job EXCEPT ![f] = "queued"]
                        /\ queue' = Append(queue, f)
  BY DEF Dispatch
<1>2. f \in Conns /\ Held = {f} /\ queue \in Seq(Conns)
  BY DEF IInv, TypeOK, Held
<1>3. Held' = {}
  BY <1>1, <1>2 DEF Held, IInv, TypeOK
<1>4. TypeOK'
  BY <1>1, <1>2, <1>3 DEF IInv, TypeOK, Dispatch, Goto, clients, Jobs, MainPCs, Loop
<1>5. QueueComplete'
  <2> SUFFICES ASSUME NEW g \in Conns, job'[g] = "queued"
               PROVE  \E i \in DOMAIN queue' : queue'[i] = g
    BY DEF QueueComplete
  <2>1. CASE g = f
    BY <1>1, <1>2, <2>1
  <2>2. CASE g # f
    <3>1. PICK i \in DOMAIN queue : queue[i] = g
      BY <1>1, <1>2, <2>2 DEF IInv, TypeOK, QueueComplete
    <3> QED
      BY <1>1, <1>2, <3>1
  <2> QED
    BY <2>1, <2>2
<1>6. ClosedAnswered' /\ PoolIdle'
  BY <1>1, <1>2 DEF IInv, TypeOK, Dispatch, Goto, ClosedAnswered, PoolIdle, clients, Loop
<1>7. Lists(queue, "queued")'
  <2>1. \A i \in DOMAIN queue : queue[i] # f
    BY <1>2 DEF IInv, Lists, Held
  <2> QED
    BY <1>1, <1>2, <2>1 DEF IInv, TypeOK, Lists
<1>8. Lists(backlog, "pending")'
  BY <1>1, <1>2 DEF IInv, TypeOK, Dispatch, Lists, Held
<1> QED
  BY <1>4, <1>5, <1>6, <1>7, <1>8 DEF IInv

\* thpool_wait: with an empty queue and no busy worker nothing is open, because
\* every queued job is in the queue and the main thread has nothing in hand.
LEMMA DrainStep == IInv /\ Drain => IInv'
<1> SUFFICES ASSUME IInv, Drain PROVE IInv'
  OBVIOUS
<1>1. main = "drain" /\ main' = "close" /\ queue = <<>> /\ Busy = {} /\ Held = {}
  BY DEF IInv, TypeOK, Drain, Goto
<1>2. Open = {}
  <2> SUFFICES ASSUME NEW f \in Open PROVE FALSE
    OBVIOUS
  <2>1. job[f] = "queued" /\ f \in Conns
    BY <1>1 DEF Open, Held, Busy
  <2>2. \E i \in DOMAIN queue : queue[i] = f
    BY <2>1 DEF IInv, QueueComplete
  <2> QED
    BY <1>1, <2>2
<1>3. run' \in BOOLEAN /\ UNCHANGED <<backlog, queue, job, clients, answered, signals>>
  BY DEF IInv, TypeOK, Drain
<1> QED
  BY <1>1, <1>2, <1>3, Moves DEF MainPCs, Loop

\* close(server_socket) drops the backlog.
LEMMA CloseStep == IInv /\ Close => IInv'
<1> SUFFICES ASSUME IInv, Close PROVE IInv'
  OBVIOUS
<1>1. main \in {"close", "abandon"} /\ main' \in {"save", "abort"}
  BY DEF Close, Goto
<1>2. queue = <<>> /\ Open = {}
  BY <1>1 DEF IInv, PoolIdle, Loop
<1>3. Held' = {} /\ Open' = {}
  BY <1>2 DEF Close, Held, Open
<1>4. TypeOK'
  BY <1>1, <1>3 DEF IInv, TypeOK, Close, Jobs, Peers, MainPCs
<1>5. QueueComplete' /\ PoolIdle'
  BY <1>1, <1>2, <1>3 DEF QueueComplete, PoolIdle, Close, Open
<1>6. ClosedAnswered'
  BY DEF IInv, ClosedAnswered, Close
<1>7. Lists(backlog, "pending")' /\ Lists(queue, "queued")'
  BY <1>2 DEF Close, Lists
<1> QED
  BY <1>4, <1>5, <1>6, <1>7 DEF IInv

\* A SIGINT moves the main thread within the loop, or ends an idle process.
LEMMA InterruptStep == IInv /\ Interrupt => IInv'
<1> SUFFICES ASSUME IInv, Interrupt PROVE IInv'
  OBVIOUS
<1>1. /\ main' \in MainPCs
      /\ main' = "dispatch" <=> main = "dispatch"
      /\ main' \in Loop \cup {"drain"} <=> main \in Loop \cup {"drain"}
  BY DEF IInv, TypeOK, Interrupt, MainPCs, StartUp, Loop
<1>2. Held' = Held /\ Open' = Open
  BY DEF Interrupt, Held, Open
<1>3. signals' \in Seq(MainPCs) /\ run' \in BOOLEAN
  <2>1. main \in MainPCs /\ signals \in Seq(MainPCs)
    BY DEF IInv, TypeOK
  <2>2. signals' = Append(signals, main) /\ run' = FALSE
    BY DEF Interrupt
  <2>3. signals' \in Seq(MainPCs)
    BY <2>1, <2>2
  <2>4. run' \in BOOLEAN
    BY <2>2
  <2> QED
    BY <2>3, <2>4
<1>4. TypeOK'
  BY <1>1, <1>2, <1>3 DEF IInv, TypeOK, Interrupt, clients
<1>5. QueueComplete' /\ ClosedAnswered' /\ PoolIdle'
  BY <1>1, <1>2 DEF IInv, Interrupt, QueueComplete, ClosedAnswered, PoolIdle, clients
<1>6. Lists(backlog, "pending")' /\ Lists(queue, "queued")'
  BY DEF IInv, Interrupt, Lists
<1> QED
  BY <1>4, <1>5, <1>6 DEF IInv
-----------------------------------------------------------------------------
\* A worker takes the oldest job: the others stay in the queue.
LEMMA DequeueStep == IInv /\ Dequeue => IInv'
<1> SUFFICES ASSUME IInv, Dequeue PROVE IInv'
  OBVIOUS
<1> DEFINE f == Head(queue)
<1>1. /\ queue \in Seq(Conns) /\ queue # <<>> /\ queue' = Tail(queue)
      /\ job' = [job EXCEPT ![f] = "reading"]
  BY DEF IInv, TypeOK, Dequeue
<1>2. f \in Conns /\ job[f] = "queued" /\ f = queue[1] /\ queue' \in Seq(Conns)
  BY <1>1, HeadTail DEF IInv, Lists
<1> HIDE DEF f
<1>3. main \in Loop \cup {"drain"}
  BY <1>1 DEF IInv, PoolIdle
<1>4. Held' = Held
  BY <1>1, <1>2 DEF IInv, TypeOK, Held
<1>5. TypeOK'
  BY <1>1, <1>2, <1>4 DEF IInv, TypeOK, Dequeue, clients, Jobs
<1>6. QueueComplete'
  <2> SUFFICES ASSUME NEW g \in Conns, job'[g] = "queued"
               PROVE  \E i \in DOMAIN queue' : queue'[i] = g
    BY DEF QueueComplete
  <2>1. g # f /\ job[g] = "queued"
    BY <1>1, <1>2 DEF IInv, TypeOK
  <2>2. PICK i \in DOMAIN queue : queue[i] = g
    BY <2>1 DEF IInv, QueueComplete
  <2>3. i # 1
    BY <1>2, <2>1, <2>2
  <2>4. i - 1 \in DOMAIN Tail(queue) /\ Tail(queue)[i - 1] = queue[i]
    BY <1>1, <2>3, HeadTail
  <2> QED
    BY <1>1, <2>2, <2>4
<1>7. ClosedAnswered' /\ PoolIdle'
  BY <1>1, <1>2, <1>3 DEF IInv, TypeOK, Dequeue, ClosedAnswered, PoolIdle, clients
<1>8. Lists(queue, "queued")'
  BY <1>1, <1>2, HeadTail DEF IInv, TypeOK, Lists
<1>9. Lists(backlog, "pending")'
  BY <1>1, <1>2 DEF IInv, TypeOK, Dequeue, Lists
<1> QED
  BY <1>5, <1>6, <1>7, <1>8, <1>9 DEF IInv

\* A worker goes on with its request, or closes the connection: answered, or
\* its client is gone.
LEMMA WorkStep == ASSUME NEW f \in Conns PROVE IInv /\ Work(f) => IInv'
<1> SUFFICES ASSUME IInv, Work(f) PROVE IInv'
  OBVIOUS
<1>1. /\ job[f] \in {"reading", "replying"}
      /\ \/ job' = [job EXCEPT ![f] = "replying"] /\ answered' = answered
         \/ /\ job' = [job EXCEPT ![f] = "closed"] /\ peer[f] # "stalled"
            /\ answered' = IF peer[f] = "open" THEN answered \cup {f} ELSE answered
      /\ UNCHANGED <<main, run, backlog, queue, clients, signals>>
  BY DEF Work, ReadRequest, ReadTimesOut, ReadCloses, Reply, Move
<1>2. main \in Loop \cup {"drain"}
  BY <1>1 DEF IInv, PoolIdle, Open
<1>3. Held' = Held
  BY <1>1 DEF IInv, TypeOK, Held
<1>4. TypeOK'
  BY <1>1, <1>3 DEF IInv, TypeOK, clients, Jobs
<1>5. QueueComplete' /\ ClosedAnswered' /\ PoolIdle'
  BY <1>1, <1>2 DEF IInv, TypeOK, QueueComplete, ClosedAnswered, PoolIdle, clients
<1>6. Lists(backlog, "pending")' /\ Lists(queue, "queued")'
  BY <1>1 DEF IInv, TypeOK, Lists
<1> QED
  BY <1>4, <1>5, <1>6 DEF IInv

\* A client that connects joins the backlog.
LEMMA ConnectStep == ASSUME NEW f \in Conns PROVE IInv /\ Connect(f) => IInv'
<1> SUFFICES ASSUME IInv, Connect(f) PROVE IInv'
  OBVIOUS
<1>1. /\ job[f] = "none" /\ job' = [job EXCEPT ![f] = "pending"]
      /\ peer' = [peer EXCEPT ![f] = "open"] /\ backlog' = Append(backlog, f)
      /\ UNCHANGED <<main, run, queue, whole, answered, signals>>
  BY DEF Connect
<1>2. Held' = Held /\ Open' = Open
  BY <1>1 DEF IInv, TypeOK, Held, Open
<1>3. TypeOK'
  BY <1>1, <1>2 DEF IInv, TypeOK, Jobs, Peers
<1>4. QueueComplete' /\ ClosedAnswered' /\ PoolIdle'
  BY <1>1, <1>2 DEF IInv, TypeOK, QueueComplete, ClosedAnswered, PoolIdle
<1>5. Lists(queue, "queued")'
  BY <1>1 DEF IInv, TypeOK, Lists
<1>6. Lists(backlog, "pending")'
  <2>1. \A i \in DOMAIN backlog : backlog[i] # f
    BY <1>1 DEF IInv, Lists
  <2> QED
    BY <1>1, <2>1 DEF IInv, TypeOK, Lists
<1> QED
  BY <1>3, <1>4, <1>5, <1>6 DEF IInv

\* What a connected client does shows in its socket only.
LEMMA ClientStep ==
    ASSUME NEW f \in Conns
    PROVE  IInv /\ (Complete(f) \/ Stall(f) \/ Leave(f)) => IInv'
<1> SUFFICES ASSUME IInv, Complete(f) \/ Stall(f) \/ Leave(f) PROVE IInv'
  OBVIOUS
<1>1. /\ job[f] # "closed"
      /\ \/ peer' = peer
         \/ \E p \in Peers : peer' = [peer EXCEPT ![f] = p]
      /\ whole' \subseteq Conns
      /\ UNCHANGED <<main, run, backlog, queue, job, answered, signals>>
  BY DEF IInv, TypeOK, Complete, Stall, Leave, Peers
<1>2. Held' = Held /\ Open' = Open
  BY <1>1 DEF Held, Open
<1>3. TypeOK'
  BY <1>1, <1>2 DEF IInv, TypeOK
<1>4. QueueComplete' /\ ClosedAnswered' /\ PoolIdle'
  BY <1>1, <1>2 DEF IInv, TypeOK, QueueComplete, ClosedAnswered, PoolIdle
<1>5. Lists(backlog, "pending")' /\ Lists(queue, "queued")'
  BY <1>1 DEF IInv, Lists
<1> QED
  BY <1>3, <1>4, <1>5 DEF IInv
-----------------------------------------------------------------------------
\* Every step keeps the inductive invariant.
LEMMA IInvNext == IInv /\ [Next]_vars => IInv'
<1> SUFFICES ASSUME IInv, [Next]_vars PROVE IInv'
  OBVIOUS
<1>1. CASE Main
  BY <1>1, StartStep, TurnStep, AcceptStep, DispatchStep, DrainStep, CloseStep DEF Main
<1>2. CASE Interrupt
  BY <1>2, InterruptStep
<1>3. CASE Dequeue
  BY <1>3, DequeueStep
<1>4. ASSUME NEW f \in Conns, Work(f) \/ Client(f) PROVE IInv'
  BY <1>4, WorkStep, ConnectStep, ClientStep DEF Client
<1>5. CASE UNCHANGED vars
  <2>1. Held' = Held /\ Open' = Open
    BY <1>5 DEF vars, Held, Open
  <2>2. TypeOK'
    BY <1>5, <2>1 DEF IInv, TypeOK, vars, clients
  <2> QED
    BY <1>5, <2>1, <2>2 DEF IInv, QueueComplete, ClosedAnswered, PoolIdle, Lists,
                            vars, clients
<1> QED
  BY <1>1, <1>2, <1>3, <1>4, <1>5 DEF Next

\* The variables of Server keep their types, and the main thread has a
\* connection in hand only between accept and thpool_enqueue_job.
THEOREM TypeCorrect == Spec => []TypeOK
<1>1. IInv => TypeOK
  BY DEF IInv
<1> QED
  BY <1>1, IInvInit, IInvNext, PTL DEF Spec

\* thpool_wait makes the shutdown orderly: when start_server gives the database
\* back no worker uses it, and no client that waited was left without an answer.
THEOREM OrderlyShutdown == Spec => []AcceptedAreServed
  BY IInvServes, IInvInit, IInvNext, PTL DEF Spec
=============================================================================
