--------------------------- MODULE Session_proofs ---------------------------
(***************************************************************************)
(* The sessions of Session, for any number of clients, connections, ids    *)
(* and restarts: as long as no id is drawn twice, its entry has one user.  *)
(***************************************************************************)
EXTENDS Session, Integers, TLAPS

\* A connection whose client waits has a worker, and a client waits on one.
OpenPeers ==
    /\ \A f \in open : /\ pc[f] \notin {"free", "drop"}
                       /\ peer[f] \in Clients \ granted
                       /\ cst[peer[f]] = "waiting"
    /\ \A f, g \in open : peer[f] = peer[g] => f = g

\* A client outside a session holds no id.
OutsidersHoldNone == \A c \in Clients : cst[c] \in {"off", "login"} => hold[c] = 0

\* An id is held by one client in its session, or by one connection.
SoleHolders ==
    /\ \A c, d \in Clients :
         (cst[c] = "ready" /\ cst[d] = "ready" /\ hold[c] = hold[d] /\ hold[c] # 0)
           => c = d
    /\ \A f, g \in Conns :
         (pc[f] # "free" /\ pc[g] # "free" /\ sid[f] = sid[g] /\ sid[f] # 0) => f = g
    /\ \A c \in Clients, f \in Conns :
         (cst[c] = "ready" /\ pc[f] # "free" /\ hold[c] = sid[f]) => sid[f] = 0

\* The entry a worker has found is there until that worker removes it.
EntriesHeld ==
    /\ gone = {}
    /\ \A f \in Conns :
         pc[f] \in {"lookup", "judge", "refresh"} => sid[f] # 0 /\ sid[f] \in DOMAIN sesh

\* An id that is answered, or was answered, with OP_SUCCESS has its entry.
Granted ==
    /\ \A f \in Conns :
         (pc[f] = "respond" /\ code[f] = "OP_SUCCESS" /\ sid[f] # 0) => sid[f] \in DOMAIN sesh
    /\ \A c \in granted :
         (cst[c] = "ready" /\ hold[c] # 0) => hold[c] \in DOMAIN sesh

Sole == SoleHolders /\ EntriesHeld /\ Granted

IInv == TypeOK /\ OpenPeers /\ OutsidersHoldNone /\ (~collided => Sole)

\* A lone user of every entry never follows a dangling session_time.
LEMMA IInvSafe == IInv => SoleHolderSafe
  BY DEF IInv, Sole, EntriesHeld, SoleHolderSafe, Dangles

\* A client with a session of this process has its entry.
LEMMA IInvKnown == IInv => ClientSessionKnown
  BY DEF IInv, Sole, Granted, ClientSessionKnown

\* At first nobody is connected and nobody holds an id.
LEMMA IInvInit == Init => IInv
<1> SUFFICES ASSUME Init PROVE IInv
  OBVIOUS
<1>1. TypeOK
  <2>1. 0 \in Times /\ 0 \in 0..MaxRestarts /\ 0 \in Ids
    BY SessionAssumption DEF Times, Ids
  <2>2. DOMAIN sesh = {} /\ sesh \in [{} -> Times]
    BY DEF Init
  <2> QED
    BY <2>1, <2>2 DEF Init, TypeOK, Codes, PCs, ClientStates
<1>2. OpenPeers /\ OutsidersHoldNone /\ SoleHolders /\ EntriesHeld /\ Granted
  BY DEF Init, OpenPeers, OutsidersHoldNone, SoleHolders, EntriesHeld, Granted
<1> QED
  BY <1>1, <1>2 DEF IInv, Sole
-----------------------------------------------------------------------------
(***************************************************************************)
(* Steps of the process and of the clients.                                *)
(***************************************************************************)

\* The table and all connections go at once; clients in a session keep an id
\* this process did not grant.
LEMMA EndStep == IInv /\ ServerEnds => IInv'
<1> SUFFICES ASSUME IInv, ServerEnds PROVE IInv'
  OBVIOUS
<1>1. TypeOK'
  <2>1. restarts \in Nat /\ restarts <= MaxRestarts /\ MaxRestarts \in Nat
    BY SessionAssumption DEF IInv, TypeOK
  <2>2. up' \in BOOLEAN /\ restarts' \in 0..MaxRestarts
    BY <2>1 DEF ServerEnds
  <2> QED
    BY <2>2, SessionAssumption
       DEF IInv, TypeOK, ServerEnds, Times, Ids, Codes, PCs, ClientStates
<1>2. OpenPeers' /\ OutsidersHoldNone' /\ (SoleHolders => SoleHolders') /\ EntriesHeld' /\ Granted'
  BY DEF IInv, TypeOK, ServerEnds, OpenPeers, OutsidersHoldNone, SoleHolders, EntriesHeld, Granted
<1> QED
  BY <1>1, <1>2 DEF IInv, Sole, ServerEnds

\* Time passes.
LEMMA TickStep == IInv /\ Tick => IInv'
<1> SUFFICES ASSUME IInv, Tick PROVE IInv'
  OBVIOUS
<1>1. clock' \in Times
  BY SessionAssumption DEF IInv, TypeOK, Tick, Times
<1>2. TypeOK'
  BY <1>1 DEF IInv, TypeOK, Tick, conn, client, history
<1> QED
  BY <1>2 DEF IInv, Tick, conn, client, history, OpenPeers, OutsidersHoldNone, Sole, SoleHolders,
              EntriesHeld, Granted

\* A request carries the id its client held over to a connection.
LEMMA AskStep ==
    ASSUME NEW c \in Clients, NEW f \in Conns PROVE IInv /\ Ask(c, f) => IInv'
<1> SUFFICES ASSUME IInv, Ask(c, f) PROVE IInv'
  OBVIOUS
<1>1. TypeOK'
  BY SessionAssumption
     DEF IInv, TypeOK, Ask, Goto, server, PCs, ClientStates, Ids, Times
<1>2. OpenPeers' /\ OutsidersHoldNone'
  BY DEF IInv, TypeOK, OpenPeers, OutsidersHoldNone, Ask, Goto
<1>3. SoleHolders => SoleHolders'
  <2> SUFFICES ASSUME SoleHolders PROVE SoleHolders'
    OBVIOUS
  <2>1. /\ pc[f] = "free" /\ pc' = [pc EXCEPT ![f] = "reading"]
        /\ sid' = [sid EXCEPT ![f] = hold[c]] /\ hold' = hold
        /\ cst' = [cst EXCEPT ![c] = "waiting"]
        /\ cst[c] = "ready" \/ hold[c] = 0
    BY DEF Ask, Goto, IInv, OutsidersHoldNone
  <2> QED
    BY <2>1 DEF IInv, TypeOK, SoleHolders
<1>4. (EntriesHeld => EntriesHeld') /\ (Granted => Granted')
  BY DEF IInv, TypeOK, EntriesHeld, Granted, Ask, Goto
<1> QED
  BY <1>1, <1>2, <1>3, <1>4 DEF IInv, Sole, Ask

\* A client that ends gives up its id; its connection may live on.
LEMMA QuitStep == ASSUME NEW c \in Clients PROVE IInv /\ Quit(c) => IInv'
<1> SUFFICES ASSUME IInv, Quit(c) PROVE IInv'
  OBVIOUS
<1>1. TypeOK'
  BY SessionAssumption DEF IInv, TypeOK, Quit, server, ClientStates, Ids, Times
<1>2. OpenPeers' /\ OutsidersHoldNone' /\ (SoleHolders => SoleHolders')
        /\ (EntriesHeld => EntriesHeld') /\ (Granted => Granted')
  BY DEF IInv, TypeOK, OpenPeers, OutsidersHoldNone, SoleHolders, EntriesHeld, Granted, Quit
<1> QED
  BY <1>1, <1>2 DEF IInv, Sole, Quit
-----------------------------------------------------------------------------
(***************************************************************************)
(* Steps of a worker.                                                      *)
(***************************************************************************)

\* The answer to f reaches its client, if that still waits: then the client is
\* the only one who may hold the id it was answered with.
LEMMA DeliverStep ==
    ASSUME NEW f \in Conns, NEW result \in Codes, NEW id \in Ids,
           IInv, Deliver(f, result, id)
    PROVE  /\ cst' \in [Clients -> ClientStates] /\ hold' \in [Clients -> Ids]
           /\ heard' \in [Clients -> Times] /\ granted' \subseteq Clients
           /\ first' \subseteq Clients /\ lapsed' \subseteq Clients
           /\ open' = open \ {f}
           /\ OutsidersHoldNone'
           /\ \A g \in open' : peer[g] \in Clients \ granted' /\ cst'[peer[g]] = "waiting"
           /\ \A c \in Clients :
                cst'[c] = "ready" =>
                  \/ cst[c] = "ready" /\ hold'[c] = hold[c] /\ (c \in granted' <=> c \in granted)
                  \/ /\ f \in open /\ c = peer[f] /\ hold'[c] = id
                     /\ c \in granted' => result = "OP_SUCCESS"
<1>1. CASE f \notin open
  BY <1>1 DEF Deliver, IInv, TypeOK, OpenPeers, OutsidersHoldNone, client
<1>2. CASE f \in open
  <2> DEFINE c == peer[f]
  <2>1. c \in Clients \ granted /\ cst[c] = "waiting"
    BY <1>2 DEF IInv, OpenPeers
  <2> HIDE DEF c
  <2>2. PICK next \in {"login", "off", "ready"} :
          /\ cst' = [cst EXCEPT ![c] = next]
          /\ hold' = [hold EXCEPT ![c] = IF next = "ready" THEN id ELSE 0]
          /\ heard' = [heard EXCEPT ![c] = IF next = "ready" THEN clock ELSE 0]
          /\ granted' = IF result = "OP_SUCCESS" THEN granted \cup {c} ELSE granted
          /\ first' = first \ {c} /\ lapsed' = lapsed \ {c} /\ open' = open \ {f}
    BY <1>2 DEF Deliver, c
  <2>3. 0 \in Ids /\ 0 \in Times
    BY SessionAssumption DEF Ids, Times
  <2>4. \A g \in open' : peer[g] # c
    BY <1>2, <2>2 DEF IInv, OpenPeers, c
  <2>5. /\ cst' \in [Clients -> ClientStates] /\ hold' \in [Clients -> Ids]
        /\ heard' \in [Clients -> Times] /\ granted' \subseteq Clients
        /\ first' \subseteq Clients /\ lapsed' \subseteq Clients
    BY <2>1, <2>2, <2>3 DEF IInv, TypeOK, ClientStates
  <2>6. OutsidersHoldNone'
    BY <2>1, <2>2 DEF IInv, TypeOK, OutsidersHoldNone
  <2>7. \A g \in open' : peer[g] \in Clients \ granted' /\ cst'[peer[g]] = "waiting"
    BY <2>1, <2>2, <2>4 DEF IInv, TypeOK, OpenPeers
  <2>8. \A d \in Clients :
          cst'[d] = "ready" =>
            \/ cst[d] = "ready" /\ hold'[d] = hold[d] /\ (d \in granted' <=> d \in granted)
            \/ /\ f \in open /\ d = c /\ hold'[d] = id
               /\ d \in granted' => result = "OP_SUCCESS"
    BY <1>2, <2>1, <2>2 DEF IInv, TypeOK
  <2> QED
    BY <2>2, <2>5, <2>6, <2>7, <2>8 DEF c
<1> QED
  BY <1>1, <1>2

\* A read that fails: the client, if told, loses its id.
LEMMA ReadFailsStep == ASSUME NEW f \in Conns PROVE IInv /\ ReadFails(f) => IInv'
<1> SUFFICES ASSUME IInv, ReadFails(f) PROVE IInv'
  OBVIOUS
<1>1. /\ pc[f] = "reading" /\ pc' = [pc EXCEPT ![f] = "drop"]
      /\ UNCHANGED <<server, sesh, peer, now, code, gone, collided>>
  BY DEF ReadFails, Goto
<1>2. PICK got \in {0, sid[f]} : sid' = [sid EXCEPT ![f] = got]
  BY DEF ReadFails
<1>3. 0 \in Ids /\ {"OP_SESSION_ERROR", "OP_FAILURE"} \subseteq Codes
  BY DEF Ids, Codes
<1>4. /\ cst' \in [Clients -> ClientStates] /\ hold' \in [Clients -> Ids]
      /\ heard' \in [Clients -> Times] /\ granted' \subseteq Clients
      /\ first' \subseteq Clients /\ lapsed' \subseteq Clients
      /\ open' = open \ {f}
      /\ OutsidersHoldNone'
      /\ \A g \in open' : peer[g] \in Clients \ granted' /\ cst'[peer[g]] = "waiting"
      /\ \A c \in Clients :
           cst'[c] = "ready" =>
             \/ cst[c] = "ready" /\ hold'[c] = hold[c] /\ (c \in granted' <=> c \in granted)
             \/ hold'[c] = 0
  <2>1. CASE f \notin open /\ UNCHANGED <<client, heard, lapsed, open>>
    BY <2>1 DEF IInv, TypeOK, OpenPeers, OutsidersHoldNone, client
  <2>2. CASE \E result \in {"OP_SESSION_ERROR", "OP_FAILURE"} : Deliver(f, result, 0)
    BY <1>3, <2>2, DeliverStep
  <2> QED
    BY <2>1, <2>2 DEF ReadFails
<1>5. TypeOK'
  BY <1>1, <1>2, <1>3, <1>4 DEF IInv, TypeOK, server, PCs
<1>6. OpenPeers'
  BY <1>1, <1>4 DEF IInv, TypeOK, OpenPeers
<1>7. SoleHolders => SoleHolders'
  BY <1>1, <1>2, <1>4 DEF IInv, TypeOK, SoleHolders
<1>8. EntriesHeld => EntriesHeld'
  BY <1>1, <1>2 DEF IInv, TypeOK, EntriesHeld
<1>9. Granted => Granted'
  BY <1>1, <1>2, <1>4 DEF IInv, TypeOK, Granted
<1> QED
  BY <1>1, <1>4, <1>5, <1>6, <1>7, <1>8, <1>9 DEF IInv, Sole

\* An answer hands the connection's id over to its client.
LEMMA RespondStep == ASSUME NEW f \in Conns PROVE IInv /\ Respond(f) => IInv'
<1> SUFFICES ASSUME IInv, Respond(f) PROVE IInv'
  OBVIOUS
<1>1. /\ pc[f] = "respond" /\ pc' = [pc EXCEPT ![f] = "free"]
      /\ sid' = [sid EXCEPT ![f] = 0] /\ peer' = [peer EXCEPT ![f] = NoClient]
      /\ code' = [code EXCEPT ![f] = "NONE"]
      /\ UNCHANGED <<server, sesh, now, gone, collided>>
      /\ Deliver(f, code[f], sid[f])
  BY DEF Respond, Goto, Answer
<1>2. code[f] \in Codes /\ sid[f] \in Ids /\ 0 \in Ids
  BY DEF IInv, TypeOK, Ids
<1>3. /\ cst' \in [Clients -> ClientStates] /\ hold' \in [Clients -> Ids]
      /\ heard' \in [Clients -> Times] /\ granted' \subseteq Clients
      /\ first' \subseteq Clients /\ lapsed' \subseteq Clients
      /\ open' = open \ {f}
      /\ OutsidersHoldNone'
      /\ \A g \in open' : peer[g] \in Clients \ granted' /\ cst'[peer[g]] = "waiting"
      /\ \A c \in Clients :
           cst'[c] = "ready" =>
             \/ cst[c] = "ready" /\ hold'[c] = hold[c] /\ (c \in granted' <=> c \in granted)
             \/ /\ f \in open /\ c = peer[f] /\ hold'[c] = sid[f]
                /\ c \in granted' => code[f] = "OP_SUCCESS"
  BY <1>1, <1>2, DeliverStep
<1>4. TypeOK'
  BY <1>1, <1>2, <1>3 DEF IInv, TypeOK, server, PCs, Codes
<1>5. OpenPeers'
  BY <1>1, <1>3 DEF IInv, TypeOK, OpenPeers
<1>6. SoleHolders => SoleHolders'
  BY <1>1, <1>3 DEF IInv, TypeOK, SoleHolders
<1>7. EntriesHeld => EntriesHeld'
  BY <1>1 DEF IInv, TypeOK, EntriesHeld
<1>8. Granted => Granted'
  BY <1>1, <1>3 DEF IInv, TypeOK, Granted
<1> QED
  BY <1>1, <1>3, <1>4, <1>5, <1>6, <1>7, <1>8 DEF IInv, Sole
-----------------------------------------------------------------------------
\* A step of a worker within its request, which leaves every id where it is.
\* What a worker goes on to use it has found.
LEMMA InnerStep ==
    ASSUME NEW f \in Conns, NEW to \in PCs \ {"free", "drop"}, IInv,
           pc[f] \notin {"free", "drop"},
           pc' = [pc EXCEPT ![f] = to],
           sesh' \in [DOMAIN sesh -> Times],
           now' \in [Conns -> Times],
           \/ code' = code /\ to # "respond"
           \/ \E result \in Codes :
                /\ code' = [code EXCEPT ![f] = result]
                /\ (result = "OP_SUCCESS" /\ ~collided /\ Sole) => sid[f] \in DOMAIN sesh,
           ~collided /\ Sole /\ to \in {"lookup", "judge", "refresh"}
             => sid[f] # 0 /\ sid[f] \in DOMAIN sesh,
           UNCHANGED <<server, peer, sid, open, gone, client, history>>
    PROVE  IInv'
<1>1. DOMAIN sesh' = DOMAIN sesh
  OBVIOUS
<1>2. code' \in [Conns -> Codes]
  BY DEF IInv, TypeOK
<1>3. TypeOK'
  BY <1>1, <1>2 DEF IInv, TypeOK, server, client, history
<1>4. OpenPeers' /\ OutsidersHoldNone'
  BY DEF IInv, TypeOK, OpenPeers, OutsidersHoldNone, client
<1>5. SoleHolders => SoleHolders'
  BY DEF IInv, TypeOK, SoleHolders, client
<1>6. ~collided /\ Sole => EntriesHeld'
  BY <1>1 DEF IInv, TypeOK, Sole, EntriesHeld
<1>7. ~collided /\ Sole => Granted'
  BY <1>1 DEF IInv, TypeOK, Sole, Granted, client
<1> QED
  BY <1>3, <1>4, <1>5, <1>6, <1>7 DEF IInv, Sole, history

\* Authentication that fails, and the look-up of a session.
LEMMA FindStep ==
    ASSUME NEW f \in Conns
    PROVE  IInv /\ (Deny(f) \/ NoSession(f) \/ FindSession(f) \/ LookUp(f)) => IInv'
<1> SUFFICES ASSUME IInv, Deny(f) \/ NoSession(f) \/ FindSession(f) \/ LookUp(f)
             PROVE  IInv'
  OBVIOUS
<1>1. sesh \in [DOMAIN sesh -> Times] /\ now \in [Conns -> Times] /\ clock \in Times
  BY DEF IInv, TypeOK
<1>2. CASE Deny(f) \/ NoSession(f)
  <2>1. /\ pc[f] = "reading" /\ pc' = [pc EXCEPT ![f] = "respond"] /\ sesh' = sesh
        /\ now' = now /\ UNCHANGED <<server, peer, sid, open, gone, client, history>>
        /\ \E result \in {"OP_USER_AUTH", "OP_SESSION_ERROR"} :
             code' = [code EXCEPT ![f] = result]
    BY <1>2 DEF Deny, NoSession, Goto, Answer
  <2>2. "respond" \in PCs /\ {"OP_USER_AUTH", "OP_SESSION_ERROR"} \subseteq Codes
    BY DEF PCs, Codes
  <2> QED
    BY <1>1, <2>1, <2>2, InnerStep
<1>3. CASE FindSession(f)
  <2>1. /\ pc[f] = "reading" /\ pc' = [pc EXCEPT ![f] = "lookup"] /\ sesh' = sesh
        /\ sid[f] # 0 /\ sid[f] \in DOMAIN sesh
        /\ now' = now /\ code' = code
        /\ UNCHANGED <<server, peer, sid, open, gone, client, history>>
    BY <1>3 DEF FindSession, Goto
  <2> QED
    BY <1>1, <2>1, InnerStep DEF PCs
<1>4. CASE LookUp(f)
  <2>1. /\ pc[f] = "lookup" /\ pc' = [pc EXCEPT ![f] = "judge"] /\ sesh' = sesh
        /\ sid[f] \in DOMAIN sesh
        /\ now' = [now EXCEPT ![f] = clock] /\ code' = code
        /\ UNCHANGED <<server, peer, sid, open, gone, client, history>>
    BY <1>4 DEF LookUp, Goto
  <2>2. Sole => sid[f] # 0
    BY <2>1 DEF Sole, EntriesHeld
  <2> QED
    BY <1>1, <2>1, <2>2, InnerStep DEF PCs
<1> QED
  BY <1>2, <1>3, <1>4

\* The judgement of a session and its refresh, through the pointer LookUp took.
LEMMA UseStep ==
    ASSUME NEW f \in Conns PROVE IInv /\ (Judge(f) \/ Refresh(f)) => IInv'
<1> SUFFICES ASSUME IInv, Judge(f) \/ Refresh(f) PROVE IInv'
  OBVIOUS
<1>1. /\ sesh \in [DOMAIN sesh -> Times] /\ now \in [Conns -> Times] /\ now[f] \in Times
      /\ 0 \in Times
  BY SessionAssumption DEF IInv, TypeOK, Times
<1>2. Sole /\ pc[f] \in {"judge", "refresh"} => sid[f] # 0 /\ sid[f] \in DOMAIN sesh
  BY DEF Sole, EntriesHeld
<1>3. CASE Judge(f)
  <2>1. PICK to \in {"expire", "refresh"} : pc' = [pc EXCEPT ![f] = to]
    BY <1>3 DEF Judge
  <2>2. /\ pc[f] = "judge" /\ sesh' = sesh /\ now' = now /\ code' = code
        /\ UNCHANGED <<server, peer, sid, open, gone, client, history>>
    BY <1>3 DEF Judge
  <2>3. to \in PCs \ {"free", "drop"} /\ to # "respond"
    BY DEF PCs
  <2> QED
    BY <1>1, <1>2, <2>1, <2>2, <2>3, InnerStep
<1>4. CASE Refresh(f)
  <2>1. /\ pc[f] = "refresh" /\ pc' = [pc EXCEPT ![f] = "respond"]
        /\ sesh' = [sesh EXCEPT ![sid[f]] = now[f]]
        /\ now' = [now EXCEPT ![f] = 0]
        /\ code' = [code EXCEPT ![f] = "OP_SUCCESS"]
        /\ UNCHANGED <<server, peer, sid, open, gone, client, history>>
    BY <1>4 DEF Refresh, Goto, Answer
  <2>2. sesh' \in [DOMAIN sesh -> Times] /\ now' \in [Conns -> Times]
    BY <1>1, <2>1
  <2> QED
    BY <1>2, <2>1, <2>2, InnerStep DEF PCs, Codes
<1> QED
  BY <1>3, <1>4

\* The removal of an entry by the one connection that holds its id: nobody else
\* follows a pointer into it or has been granted it.
LEMMA RemoveStep ==
    ASSUME NEW f \in Conns, IInv, ~collided, Sole, pc[f] \in {"drop", "expire"},
           HtableDel(sid[f]),
           NEW to \in {"free", "respond"}, pc' = [pc EXCEPT ![f] = to],
           to = "respond" => code' = [code EXCEPT ![f] = "OP_SESSION_ERROR"],
           to = "free" => code' = code,
           sid' = sid \/ sid' = [sid EXCEPT ![f] = 0],
           UNCHANGED client
    PROVE  Sole'
<1>1. \A g \in Conns : (pc[g] # "free" /\ g # f) => (sid[g] # sid[f] \/ sid[g] = 0)
  BY DEF Sole, SoleHolders
<1>2. DOMAIN sesh' = DOMAIN sesh \ {sid[f]}
  BY DEF HtableDel
<1>3. SoleHolders'
  BY DEF IInv, TypeOK, Sole, SoleHolders, client
<1>4. EntriesHeld'
  <2>1. \A g \in Conns : pc[g] \in {"judge", "refresh"} => sid[g] # sid[f]
    BY <1>1 DEF Sole, EntriesHeld
  <2>2. gone' = {}
    BY <2>1 DEF Sole, EntriesHeld, HtableDel
  <2> QED
    BY <1>1, <1>2, <2>2 DEF IInv, TypeOK, Sole, EntriesHeld
<1>5. Granted'
  <2>1. \A c \in granted : (cst[c] = "ready" /\ hold[c] # 0) => hold[c] # sid[f]
    BY DEF IInv, TypeOK, Sole, SoleHolders
  <2> QED
    BY <1>1, <1>2, <2>1 DEF IInv, TypeOK, Sole, Granted, client
<1> QED
  BY <1>3, <1>4, <1>5 DEF Sole

\* The removals, after a failed read and of an expired session.
LEMMA DropStep ==
    ASSUME NEW f \in Conns PROVE IInv /\ (DropSession(f) \/ Expire(f)) => IInv'
<1> SUFFICES ASSUME IInv, DropSession(f) \/ Expire(f) PROVE IInv'
  OBVIOUS
<1>1. HtableDel(sid[f]) /\ UNCHANGED <<server, open, client, history>>
  BY DEF DropSession, Expire
<1>2. 0 \in Times /\ 0 \in Ids
  BY SessionAssumption DEF Times, Ids
<1>3. DOMAIN sesh' \subseteq Ids /\ sesh' \in [DOMAIN sesh' -> Times] /\ gone' \subseteq Conns
  BY <1>1 DEF IInv, TypeOK, HtableDel
<1>4. TypeOK'
  BY <1>1, <1>2, <1>3 DEF IInv, TypeOK, DropSession, Expire, Goto, Answer, server,
                          client, history, PCs, Codes
<1>5. OpenPeers' /\ OutsidersHoldNone'
  BY <1>1 DEF IInv, TypeOK, OpenPeers, OutsidersHoldNone, DropSession, Expire, Goto, client
<1>6. ~collided /\ Sole => Sole'
  <2>1. CASE DropSession(f)
    BY <1>1, <2>1, RemoveStep DEF DropSession, Goto
  <2>2. CASE Expire(f)
    BY <1>1, <2>2, RemoveStep DEF Expire, Goto, Answer
  <2> QED
    BY <2>1, <2>2
<1> QED
  BY <1>1, <1>4, <1>5, <1>6 DEF IInv, history

\* An id is drawn that is not in the table: unless somebody still holds it, the
\* connection is its only user.
LEMMA DrawStep == ASSUME NEW f \in Conns PROVE IInv /\ DrawSession(f) => IInv'
<1> SUFFICES ASSUME IInv, DrawSession(f) PROVE IInv'
  OBVIOUS
<1>1. PICK id \in Draws \ DOMAIN sesh :
        /\ sid' = [sid EXCEPT ![f] = id]
        /\ collided' = (collided \/ (id # 0 /\ HeldElsewhere(id, f)))
  BY DEF DrawSession
<1>2. /\ pc[f] = "reading" /\ pc' = [pc EXCEPT ![f] = "install"] /\ sid[f] = 0
      /\ UNCHANGED <<server, sesh, peer, now, code, open, gone, client, heard, lapsed>>
  BY DEF DrawSession, Goto
<1>3. TypeOK'
  <2>1. sid' \in [Conns -> Ids]
    BY <1>1 DEF IInv, TypeOK, Ids
  <2>2. collided' \in BOOLEAN
    BY <1>1 DEF IInv, TypeOK
  <2>3. pc' \in [Conns -> PCs]
    BY <1>2 DEF IInv, TypeOK, PCs
  <2> QED
    BY <1>2, <2>1, <2>2, <2>3 DEF IInv, TypeOK, server, client
<1>4. OpenPeers' /\ OutsidersHoldNone'
  BY <1>2 DEF IInv, TypeOK, OpenPeers, OutsidersHoldNone, client
<1>5. SoleHolders /\ ~collided' => SoleHolders'
  <2> SUFFICES ASSUME SoleHolders, ~collided' PROVE SoleHolders'
    OBVIOUS
  <2>1. id = 0 \/ ~HeldElsewhere(id, f)
    BY <1>1
  <2>2. \A c \in Clients : (cst[c] = "ready" /\ hold[c] = id) => id = 0
    BY <2>1 DEF HeldElsewhere
  <2>3. \A g \in Conns : (g # f /\ pc[g] # "free" /\ sid[g] = id) => id = 0
    BY <2>1 DEF HeldElsewhere
  <2> QED
    BY <1>1, <1>2, <2>2, <2>3 DEF IInv, TypeOK, SoleHolders, client
<1>6. (EntriesHeld => EntriesHeld') /\ (Granted => Granted')
  BY <1>1, <1>2 DEF IInv, TypeOK, EntriesHeld, Granted, client
<1>7. collided => collided'
  BY <1>1
<1> QED
  BY <1>3, <1>4, <1>5, <1>6, <1>7 DEF IInv, Sole

\* The id is entered: what it replaces nobody else uses.
LEMMA InstallStep == ASSUME NEW f \in Conns PROVE IInv /\ InstallSession(f) => IInv'
<1> SUFFICES ASSUME IInv, InstallSession(f) PROVE IInv'
  OBVIOUS
<1>1. /\ pc[f] = "install" /\ pc' = [pc EXCEPT ![f] = "respond"]
      /\ code' = [code EXCEPT ![f] = "OP_SUCCESS"]
      /\ sesh' = [i \in DOMAIN sesh \cup {sid[f]} |-> IF i = sid[f] THEN clock ELSE sesh[i]]
      /\ UNCHANGED <<server, peer, sid, now, open, client, history>>
  BY DEF InstallSession, Goto, Answer
<1>2. PICK freed \in {{}, {g \in Conns : pc[g] \in {"judge", "refresh"} /\ sid[g] = sid[f]}} :
        gone' = gone \cup freed
  BY DEF InstallSession
<1>3. DOMAIN sesh' = DOMAIN sesh \cup {sid[f]}
  BY <1>1
<1>4. TypeOK'
  BY <1>1, <1>2, <1>3 DEF IInv, TypeOK, server, client, history, PCs, Codes
<1>5. OpenPeers' /\ OutsidersHoldNone'
  BY <1>1 DEF IInv, TypeOK, OpenPeers, OutsidersHoldNone, client
<1>6. SoleHolders => SoleHolders'
  BY <1>1 DEF IInv, TypeOK, SoleHolders, client
<1>7. Sole => EntriesHeld'
  <2> SUFFICES ASSUME Sole PROVE EntriesHeld'
    OBVIOUS
  <2>1. \A g \in Conns : pc[g] \in {"judge", "refresh"} => sid[g] # sid[f]
    BY <1>1 DEF Sole, SoleHolders, EntriesHeld
  <2>2. gone' = {}
    BY <1>2, <2>1 DEF Sole, EntriesHeld
  <2> QED
    BY <1>1, <1>3, <2>2 DEF IInv, TypeOK, Sole, EntriesHeld
<1>8. Granted => Granted'
  BY <1>1, <1>3 DEF IInv, TypeOK, Granted, client
<1> QED
  BY <1>1, <1>4, <1>5, <1>6, <1>7, <1>8 DEF IInv, Sole, history
-----------------------------------------------------------------------------
\* Every step keeps the inductive invariant.
LEMMA IInvNext == IInv /\ [Next]_vars => IInv'
<1> SUFFICES ASSUME IInv, [Next]_vars PROVE IInv'
  OBVIOUS
<1>1. ASSUME NEW f \in Conns, Serve(f) PROVE IInv'
  <2>1. CASE ReadFails(f) \/ Respond(f)
    BY <2>1, ReadFailsStep, RespondStep
  <2>2. CASE DropSession(f) \/ Expire(f)
    BY <2>2, DropStep
  <2>3. CASE DrawSession(f) \/ InstallSession(f)
    BY <2>3, DrawStep, InstallStep
  <2>4. CASE Deny(f) \/ NoSession(f) \/ FindSession(f) \/ LookUp(f)
    BY <2>4, FindStep
  <2>5. CASE Judge(f) \/ Refresh(f)
    BY <2>5, UseStep
  <2>6. CASE Abort(f)
    BY <2>6, EndStep DEF Abort
  <2> QED
    BY <1>1, <2>1, <2>2, <2>3, <2>4, <2>5, <2>6 DEF Serve
<1>2. ASSUME NEW c \in Clients, NEW f \in Conns, Ask(c, f) PROVE IInv'
  BY <1>2, AskStep
<1>3. ASSUME NEW c \in Clients, Quit(c) PROVE IInv'
  BY <1>3, QuitStep
<1>4. CASE Crash \/ Tick
  BY <1>4, EndStep, TickStep DEF Crash
<1>5. CASE UNCHANGED vars
  <2>1. TypeOK'
    BY <1>5 DEF IInv, TypeOK, vars, server, conn, client, history
  <2>2. OpenPeers' /\ OutsidersHoldNone' /\ (Sole => Sole') /\ collided' = collided
    BY <1>5 DEF IInv, OpenPeers, OutsidersHoldNone, Sole, SoleHolders, EntriesHeld,
                Granted, vars, server, conn, client, history
  <2> QED
    BY <2>1, <2>2 DEF IInv
<1> QED
  BY <1>1, <1>2, <1>3, <1>4, <1>5 DEF Next

-----------------------------------------------------------------------------
(***************************************************************************)
(* The times of sessions.                                                  *)
(***************************************************************************)

\* No time that is stored is yet to come.
Past ==
    /\ \A i \in DOMAIN sesh : sesh[i] <= clock
    /\ \A f \in Conns : now[f] <= clock

\* A client in a session has heard from the server since its entry was written.
Stored ==
    \A c \in Clients :
      (cst[c] = "ready" /\ hold[c] # 0 /\ hold[c] \in DOMAIN sesh)
        => sesh[hold[c]] <= heard[c]

\* The request of a client that let the timeout pass meets an entry that is as
\* old as that, until it is judged.
Late ==
    /\ \A c \in lapsed : cst[c] = "waiting"
    /\ \A f \in open :
         (peer[f] \in lapsed /\ sid[f] # 0 /\ sid[f] \in DOMAIN sesh) =>
           /\ pc[f] \in {"reading", "lookup"} => clock - sesh[sid[f]] > Timeout
           /\ pc[f] = "judge" => now[f] - sesh[sid[f]] > Timeout

Timely == Past /\ Stored /\ Late

TInv == IInv /\ (~collided => Timely)

\* What times and ids are.
LEMMA TimesAreNumbers ==
    IInv => /\ Times \subseteq Int /\ clock \in Int /\ Timeout \in Int
            /\ \A i \in DOMAIN sesh : sesh[i] \in Int
            /\ \A f \in Conns : now[f] \in Int
            /\ \A c \in Clients : heard[c] \in Int
  BY SessionAssumption DEF IInv, TypeOK, Times

LEMMA TInvInit == Init => TInv
<1> SUFFICES ASSUME Init PROVE TInv
  OBVIOUS
<1>1. IInv
  BY IInvInit
<1>2. Timely
  BY DEF Init, Timely, Past, Stored, Late
<1> QED
  BY <1>1, <1>2 DEF TInv

\* Who hears an answer hears it now.
LEMMA DeliverNow ==
    ASSUME NEW f \in Conns, NEW result, NEW id, IInv, Deliver(f, result, id)
    PROVE  /\ open' \subseteq open /\ lapsed' \subseteq lapsed
           /\ Late => \A c \in lapsed' : cst'[c] = "waiting"
           /\ \A c \in Clients :
                cst'[c] = "ready" =>
                  \/ cst[c] = "ready" /\ hold'[c] = hold[c] /\ heard'[c] = heard[c]
                  \/ hold'[c] = id /\ heard'[c] = clock
<1>1. CASE f \notin open
  BY <1>1 DEF Deliver, Late, client
<1>2. CASE f \in open
  <2> DEFINE c == peer[f]
  <2>1. c \in Clients
    BY <1>2 DEF IInv, OpenPeers
  <2> HIDE DEF c
  <2>2. PICK next \in {"login", "off", "ready"} :
          /\ cst' = [cst EXCEPT ![c] = next]
          /\ hold' = [hold EXCEPT ![c] = IF next = "ready" THEN id ELSE 0]
          /\ heard' = [heard EXCEPT ![c] = IF next = "ready" THEN clock ELSE 0]
          /\ lapsed' = lapsed \ {c} /\ open' = open \ {f}
    BY <1>2 DEF Deliver, c
  <2>3. \A d \in lapsed' : d # c /\ d \in lapsed /\ d \in Clients
    BY <2>2 DEF IInv, TypeOK
  <2> QED
    BY <2>1, <2>2, <2>3 DEF IInv, TypeOK, Late
<1> QED
  BY <1>1, <1>2

\* The steps that leave the times in the table alone, or take entries out of it.
LEMMA OldEntriesStep ==
    ASSUME IInv, IInv', Timely,
           clock <= clock',
           DOMAIN sesh' \subseteq DOMAIN sesh,
           \A i \in DOMAIN sesh' : sesh'[i] = sesh[i],
           \A f \in Conns : now'[f] = now[f] \/ now'[f] <= clock',
           \A c \in Clients :
             cst'[c] = "ready" =>
               \/ cst[c] = "ready" /\ hold'[c] = hold[c] /\ heard'[c] = heard[c]
               \/ heard'[c] = clock' \/ hold'[c] = 0,
           \A c \in lapsed' : cst'[c] = "waiting",
           \A f \in open' :
             (peer'[f] \in lapsed' /\ sid'[f] # 0 /\ sid'[f] \in DOMAIN sesh) =>
               \/ /\ pc'[f] \in {"reading", "lookup"}
                  /\ clock - sesh[sid'[f]] > Timeout
               \/ /\ pc'[f] = "judge"
                  /\ now'[f] - sesh[sid'[f]] > Timeout
               \/ pc'[f] \notin {"reading", "lookup", "judge"}
    PROVE  Timely'
<1>1. /\ clock \in Int /\ clock' \in Int /\ Timeout \in Int
      /\ \A i \in DOMAIN sesh : sesh[i] \in Int
      /\ \A f \in Conns : now[f] \in Int /\ now'[f] \in Int
      /\ \A c \in Clients : heard[c] \in Int /\ heard'[c] \in Int
  BY SessionAssumption DEF IInv, TypeOK, Times
<1>2. Past'
  BY <1>1 DEF Timely, Past
<1>3. Stored'
  <2> SUFFICES ASSUME NEW c \in Clients,
                      cst'[c] = "ready", hold'[c] # 0, hold'[c] \in DOMAIN sesh'
               PROVE  sesh'[hold'[c]] <= heard'[c]
    BY DEF Stored
  <2>1. CASE cst[c] = "ready" /\ hold'[c] = hold[c] /\ heard'[c] = heard[c]
    BY <2>1 DEF Timely, Stored
  <2>2. CASE heard'[c] = clock'
    BY <1>2, <2>2 DEF Past
  <2> QED
    BY <2>1, <2>2
<1>4. Late'
  <2>1. ASSUME NEW f \in open', peer'[f] \in lapsed', sid'[f] # 0, sid'[f] \in DOMAIN sesh'
        PROVE  /\ pc'[f] \in {"reading", "lookup"} => clock' - sesh'[sid'[f]] > Timeout
               /\ pc'[f] = "judge" => now'[f] - sesh'[sid'[f]] > Timeout
    BY <1>1, <2>1
  <2> QED
    BY <2>1 DEF Late
<1> QED
  BY <1>2, <1>3, <1>4 DEF Timely

\* The steps that write a time: nobody else has that id.
LEMMA NewEntryStep ==
    ASSUME NEW f \in Conns, IInv, IInv', Sole, Timely, pc[f] \in {"install", "refresh"},
           NEW t \in Times, t <= clock,
           sesh' = [i \in DOMAIN sesh \cup {sid[f]} |-> IF i = sid[f] THEN t ELSE sesh[i]],
           pc' = [pc EXCEPT ![f] = "respond"],
           now' = now \/ now' = [now EXCEPT ![f] = 0],
           UNCHANGED <<server, peer, sid, open, client, history>>
    PROVE  Timely'
<1>1. /\ clock \in Int /\ clock' = clock /\ Timeout \in Int /\ t \in Int
      /\ \A i \in DOMAIN sesh : sesh[i] \in Int
      /\ \A g \in Conns : now[g] \in Int
  BY SessionAssumption DEF IInv, TypeOK, Times, server
<1>2. DOMAIN sesh' = DOMAIN sesh \cup {sid[f]}
  OBVIOUS
<1>3. Past'
  <2>1. 0 <= clock
    BY SessionAssumption DEF IInv, TypeOK, Times
  <2> QED
    BY <1>1, <1>2, <2>1 DEF IInv, TypeOK, Timely, Past
<1>4. Stored'
  <2>1. \A c \in Clients : (cst[c] = "ready" /\ hold[c] # 0) => hold[c] # sid[f]
    BY DEF Sole, SoleHolders
  <2> QED
    BY <1>2, <2>1 DEF Timely, Stored, client, history
<1>5. Late'
  <2>1. \A c \in lapsed' : cst'[c] = "waiting"
    BY DEF Timely, Late, client, history
  <2>2. ASSUME NEW g \in open', peer'[g] \in lapsed', sid'[g] # 0, sid'[g] \in DOMAIN sesh'
        PROVE  /\ pc'[g] \in {"reading", "lookup"} => clock' - sesh'[sid'[g]] > Timeout
               /\ pc'[g] = "judge" => now'[g] - sesh'[sid'[g]] > Timeout
    <3>1. g \in Conns /\ sid' = sid /\ peer' = peer /\ lapsed' = lapsed /\ open' = open
      BY DEF IInv, TypeOK, history
    <3>2. CASE g = f
      BY <3>1, <3>2 DEF IInv, TypeOK
    <3>3. CASE g # f /\ pc[g] # "free"
      <4>1. sid[g] # sid[f] /\ sid[g] \in DOMAIN sesh
        BY <1>2, <2>2, <3>1, <3>3 DEF Sole, SoleHolders
      <4>2. sesh'[sid[g]] = sesh[sid[g]] /\ pc'[g] = pc[g] /\ now'[g] = now[g]
        BY <3>1, <3>3, <4>1 DEF IInv, TypeOK
      <4> QED
        BY <1>1, <2>2, <3>1, <4>1, <4>2 DEF Timely, Late
    <3>4. CASE pc[g] = "free"
      BY <3>1, <3>4 DEF IInv, OpenPeers
    <3> QED
      BY <3>2, <3>3, <3>4
  <2> QED
    BY <2>1, <2>2 DEF Late
<1> QED
  BY <1>3, <1>4, <1>5 DEF Timely

\* A request whose client was silent for too long starts with an old entry.
LEMMA AskLate ==
    ASSUME NEW c \in Clients, NEW f \in Conns, IInv, IInv', Timely, Ask(c, f)
    PROVE  Timely'
<1>1. /\ clock \in Int /\ Timeout \in Int
      /\ \A i \in DOMAIN sesh : sesh[i] \in Int
      /\ \A d \in Clients : heard[d] \in Int
  BY TimesAreNumbers
<1>2. /\ clock' = clock /\ sesh' = sesh /\ now' = now /\ hold' = hold
      /\ cst[c] # "waiting" /\ cst' = [cst EXCEPT ![c] = "waiting"]
      /\ pc[f] = "free" /\ pc' = [pc EXCEPT ![f] = "reading"]
      /\ peer' = [peer EXCEPT ![f] = c] /\ sid' = [sid EXCEPT ![f] = hold[c]]
      /\ open' = open \cup {f} /\ heard' = [heard EXCEPT ![c] = 0]
      /\ \/ lapsed' = lapsed
         \/ lapsed' = lapsed \cup {c} /\ cst[c] = "ready" /\ clock - heard[c] > Timeout
  BY DEF Ask, Goto, server
<1>3. \A d \in lapsed : d # c /\ cst[d] = "waiting"
  BY <1>2 DEF Timely, Late
<1>4. \A d \in lapsed' : cst'[d] = "waiting"
  BY <1>2, <1>3 DEF IInv, TypeOK
<1>5. \A d \in Clients : cst'[d] = "ready" =>
         cst[d] = "ready" /\ hold'[d] = hold[d] /\ heard'[d] = heard[d]
  BY <1>2 DEF IInv, TypeOK
<1>6. ASSUME NEW g \in open', peer'[g] \in lapsed', sid'[g] # 0, sid'[g] \in DOMAIN sesh
      PROVE  \/ pc'[g] \in {"reading", "lookup"} /\ clock - sesh[sid'[g]] > Timeout
             \/ pc'[g] = "judge" /\ now'[g] - sesh[sid'[g]] > Timeout
             \/ pc'[g] \notin {"reading", "lookup", "judge"}
  <2>1. CASE g = f
    <3>1. peer'[g] = c /\ sid'[g] = hold[c] /\ pc'[g] = "reading"
      BY <1>2, <2>1 DEF IInv, TypeOK
    <3>2. cst[c] = "ready" /\ clock - heard[c] > Timeout
      BY <1>2, <1>3, <1>6, <3>1
    <3>3. sesh[hold[c]] <= heard[c]
      BY <1>6, <3>1, <3>2 DEF Timely, Stored
    <3> QED
      BY <1>1, <1>6, <3>1, <3>2, <3>3
  <2>2. CASE g # f
    <3>1. g \in open /\ g \in Conns /\ peer'[g] = peer[g] /\ sid'[g] = sid[g] /\ pc'[g] = pc[g]
      BY <1>2, <2>2 DEF IInv, TypeOK
    <3>2. peer[g] # c
      BY <1>2, <3>1 DEF IInv, OpenPeers
    <3> QED
      BY <1>2, <1>6, <3>1, <3>2 DEF Timely, Late
  <2> QED
    BY <2>1, <2>2
<1> QED
  BY <1>1, <1>2, <1>4, <1>5, <1>6, OldEntriesStep

\* An answer, or none: no request meets an entry it did not meet before.
LEMMA AnswerLate ==
    ASSUME NEW f \in Conns, IInv, IInv', Timely, ReadFails(f) \/ Respond(f)
    PROVE  Timely'
<1>1. /\ clock \in Int /\ clock' = clock /\ sesh' = sesh /\ now' = now
      /\ pc' \in {[pc EXCEPT ![f] = "drop"], [pc EXCEPT ![f] = "free"]}
      /\ \A g \in Conns : g # f => sid'[g] = sid[g] /\ peer'[g] = peer[g]
  BY TimesAreNumbers DEF ReadFails, Respond, Goto, server, IInv, TypeOK
<1>2. /\ open' \subseteq open /\ lapsed' \subseteq lapsed
      /\ \A c \in lapsed' : cst'[c] = "waiting"
      /\ \A c \in Clients :
           cst'[c] = "ready" =>
             \/ cst[c] = "ready" /\ hold'[c] = hold[c] /\ heard'[c] = heard[c]
             \/ heard'[c] = clock
  <2>1. CASE \E result, id : Deliver(f, result, id)
    BY <2>1, DeliverNow DEF Timely
  <2>2. CASE UNCHANGED <<client, heard, lapsed, open>>
    BY <2>2 DEF Timely, Late, client
  <2> QED
    BY <2>1, <2>2 DEF ReadFails, Respond
<1>3. ASSUME NEW g \in open', peer'[g] \in lapsed', sid'[g] # 0, sid'[g] \in DOMAIN sesh
      PROVE  \/ pc'[g] \in {"reading", "lookup"} /\ clock - sesh[sid'[g]] > Timeout
             \/ pc'[g] = "judge" /\ now'[g] - sesh[sid'[g]] > Timeout
             \/ pc'[g] \notin {"reading", "lookup", "judge"}
  <2>1. g \in Conns /\ g \in open
    BY <1>2 DEF IInv, TypeOK
  <2>2. CASE g = f
    BY <1>1, <2>1, <2>2 DEF IInv, TypeOK
  <2>3. CASE g # f
    BY <1>1, <1>2, <1>3, <2>1, <2>3 DEF IInv, TypeOK, Timely, Late
  <2> QED
    BY <2>2, <2>3
<1> QED
  BY <1>1, <1>2, <1>3, OldEntriesStep

\* Time that passes makes no entry younger; what leaves the table, a client that
\* ends and the end of the process take requests and entries away.
LEMMA PassLate ==
    ASSUME IInv, IInv', Timely,
           Tick \/ ServerEnds \/ \E c \in Clients : Quit(c)
    PROVE  Timely'
<1>1. /\ clock \in Int /\ Timeout \in Int
      /\ \A i \in DOMAIN sesh : sesh[i] \in Int
  BY TimesAreNumbers
<1>2. CASE Tick
  BY <1>1, <1>2, OldEntriesStep DEF Tick, conn, client, history, Timely, Late, IInv, TypeOK
<1>3. CASE ServerEnds
  <2>1. /\ DOMAIN sesh' = {} /\ open' = {} /\ lapsed' = {} /\ clock' = clock
        /\ \A f \in Conns : now'[f] = 0
    BY <1>3 DEF ServerEnds
  <2>2. 0 <= clock'
    BY <2>1, SessionAssumption DEF IInv, TypeOK, Times
  <2> QED
    BY <2>1, <2>2 DEF Timely, Past, Stored, Late
<1>4. ASSUME NEW c \in Clients, Quit(c) PROVE Timely'
  <2>1. /\ clock' = clock /\ sesh' = sesh /\ now' = now /\ pc' = pc /\ sid' = sid
        /\ peer' = peer /\ open' \subseteq open /\ lapsed' = lapsed \ {c}
        /\ \A d \in Clients : cst'[d] = "ready" =>
             d # c /\ cst[d] = "ready" /\ hold'[d] = hold[d] /\ heard'[d] = heard[d]
        /\ \A d \in lapsed' : cst'[d] = cst[d]
    BY <1>4 DEF Quit, server, IInv, TypeOK
  <2>2. \A d \in lapsed' : cst'[d] = "waiting"
    BY <2>1 DEF Timely, Late
  <2> QED
    BY <1>1, <2>1, <2>2, OldEntriesStep DEF Timely, Late
<1> QED
  BY <1>2, <1>3, <1>4

\* The other steps of a worker.
LEMMA ServeLate ==
    ASSUME NEW f \in Conns, IInv, IInv', Sole, Timely,
           \/ Deny(f) \/ NoSession(f) \/ FindSession(f) \/ LookUp(f)
           \/ Judge(f) \/ DropSession(f) \/ Expire(f) \/ DrawSession(f)
    PROVE  Timely'
<1>1. /\ clock \in Int /\ Timeout \in Int
      /\ \A i \in DOMAIN sesh : sesh[i] \in Int
  BY TimesAreNumbers
<1>2. /\ clock' = clock /\ open' = open /\ lapsed' = lapsed
      /\ cst' = cst /\ hold' = hold /\ heard' = heard
      /\ DOMAIN sesh' \subseteq DOMAIN sesh
      /\ \A i \in DOMAIN sesh' : sesh'[i] = sesh[i]
      /\ \A g \in Conns : g # f => /\ sid'[g] = sid[g] /\ peer'[g] = peer[g]
                                   /\ pc'[g] = pc[g] /\ now'[g] = now[g]
  BY DEF Deny, NoSession, FindSession, LookUp, Judge, DropSession, Expire, DrawSession,
         HtableDel, Goto, server, client, history, IInv, TypeOK
<1>3. now'[f] = now[f] \/ now'[f] <= clock'
  <2>1. 0 <= clock /\ clock <= clock
    BY <1>1, SessionAssumption DEF IInv, TypeOK, Times
  <2> QED
    BY <1>2, <2>1 DEF Deny, NoSession, FindSession, LookUp, Judge, DropSession, Expire,
                      DrawSession, IInv, TypeOK
<1>4. f \in open =>
        \/ pc'[f] \notin {"reading", "lookup", "judge"}
        \/ /\ pc[f] = "reading" /\ pc'[f] = "lookup" /\ sid' = sid /\ peer' = peer
        \/ /\ pc[f] = "lookup" /\ pc'[f] = "judge" /\ sid' = sid /\ peer' = peer
           /\ now'[f] = clock
  BY DEF Deny, NoSession, FindSession, LookUp, Judge, DropSession, Expire, DrawSession,
         Goto, IInv, TypeOK
<1>5. ASSUME NEW g \in open', peer'[g] \in lapsed', sid'[g] # 0, sid'[g] \in DOMAIN sesh
      PROVE  \/ pc'[g] \in {"reading", "lookup"} /\ clock - sesh[sid'[g]] > Timeout
             \/ pc'[g] = "judge" /\ now'[g] - sesh[sid'[g]] > Timeout
             \/ pc'[g] \notin {"reading", "lookup", "judge"}
  <2>1. g \in Conns /\ g \in open
    BY <1>2 DEF IInv, TypeOK
  <2>2. CASE g = f
    BY <1>2, <1>4, <1>5, <2>1, <2>2 DEF Timely, Late
  <2>3. CASE g # f
    BY <1>2, <1>5, <2>1, <2>3 DEF Timely, Late
  <2> QED
    BY <2>2, <2>3
<1>6. \A c \in lapsed' : cst'[c] = "waiting"
  BY <1>2 DEF Timely, Late
<1> QED
  BY <1>1, <1>2, <1>3, <1>5, <1>6, OldEntriesStep

\* A new session and a refreshed one.
LEMMA WriteLate ==
    ASSUME NEW f \in Conns, IInv, IInv', Sole, Timely, InstallSession(f) \/ Refresh(f)
    PROVE  Timely'
<1>1. clock \in Times /\ clock <= clock /\ now[f] \in Times
  BY TimesAreNumbers DEF IInv, TypeOK
<1>2. CASE InstallSession(f)
  BY <1>1, <1>2, NewEntryStep DEF InstallSession, Goto
<1>3. CASE Refresh(f)
  <2>1. pc[f] = "refresh" /\ sid[f] \in DOMAIN sesh /\ now[f] <= clock
    BY <1>3 DEF Refresh, Goto, Sole, EntriesHeld, Timely, Past
  <2>2. sesh' = [i \in DOMAIN sesh \cup {sid[f]} |-> IF i = sid[f] THEN now[f] ELSE sesh[i]]
    BY <1>3, <2>1 DEF Refresh
  <2> QED
    BY <1>1, <1>3, <2>1, <2>2, NewEntryStep DEF Refresh, Goto
<1> QED
  BY <1>2, <1>3

\* Every step keeps the times.
LEMMA TInvNext == TInv /\ [Next]_vars => TInv'
<1> SUFFICES ASSUME TInv, [Next]_vars, ~collided' PROVE Timely'
  BY IInvNext DEF TInv
<1>1. ~collided
  BY DEF Next, Serve, ReadFails, DropSession, Respond, Deny, DrawSession, InstallSession,
         NoSession, FindSession, LookUp, Judge, Expire, Refresh, Abort, Ask, Quit, Crash,
         ServerEnds, Tick, vars, history
<1>2. IInv /\ IInv' /\ Sole /\ Timely
  BY <1>1, IInvNext DEF TInv, IInv
<1>3. ASSUME NEW f \in Conns, Serve(f) PROVE Timely'
  <2>1. CASE ReadFails(f) \/ Respond(f)
    BY <1>2, <2>1, AnswerLate
  <2>2. CASE \/ Deny(f) \/ NoSession(f) \/ FindSession(f) \/ LookUp(f)
             \/ Judge(f) \/ DropSession(f) \/ Expire(f) \/ DrawSession(f)
    BY <1>2, <2>2, ServeLate
  <2>3. CASE InstallSession(f) \/ Refresh(f)
    BY <1>2, <2>3, WriteLate
  <2>4. CASE Abort(f)
    BY <1>2, <2>4, PassLate DEF Abort
  <2> QED
    BY <1>3, <2>1, <2>2, <2>3, <2>4 DEF Serve
<1>4. ASSUME NEW c \in Clients, NEW f \in Conns, Ask(c, f) PROVE Timely'
  BY <1>2, <1>4, AskLate
<1>5. CASE (\E c \in Clients : Quit(c)) \/ Crash \/ Tick
  BY <1>2, <1>5, PassLate DEF Crash
<1>6. CASE UNCHANGED vars
  BY <1>2, <1>6 DEF Timely, Past, Stored, Late, vars, server, conn, client, history
<1> QED
  BY <1>3, <1>4, <1>5, <1>6 DEF Next

\* A request that comes too late carries its session's id, and is turned away.
Unserved ==
    \A f \in open :
      (peer[f] \in lapsed /\ hold[peer[f]] # 0) =>
        /\ sid[f] = hold[peer[f]]
        /\ pc[f] \notin {"install", "refresh"}
        /\ pc[f] = "respond" => code[f] # "OP_SUCCESS"

JInv == TInv /\ (~collided => Unserved)

LEMMA JInvIdle == JInv => IdleSessionsExpire
  BY DEF JInv, Unserved, IdleSessionsExpire

LEMMA JInvInit == Init => JInv
<1>1. Init => Unserved
  BY DEF Init, Unserved
<1> QED
  BY <1>1, TInvInit DEF JInv

\* The steps of the worker that serves a waiting request: the entry of a client
\* that was silent for too long is too old to be judged alive.
LEMMA WorkLeavesUnserved ==
    ASSUME NEW f \in Conns, IInv, Sole, Timely, Unserved,
           \/ Deny(f) \/ NoSession(f) \/ FindSession(f) \/ LookUp(f) \/ Judge(f)
           \/ Expire(f) \/ Refresh(f) \/ DrawSession(f) \/ InstallSession(f)
    PROVE  Unserved'
<1>1. UNCHANGED <<peer, open, cst, hold, lapsed>>
  BY DEF Deny, NoSession, FindSession, LookUp, Judge, Expire, Refresh, DrawSession,
         InstallSession, client, history
<1>2. \A g \in Conns \ {f} : pc'[g] = pc[g] /\ sid'[g] = sid[g] /\ code'[g] = code[g]
  BY DEF Deny, NoSession, FindSession, LookUp, Judge, Expire, Refresh, DrawSession,
         InstallSession, Goto, Answer, IInv, TypeOK
<1>3. ASSUME f \in open, peer[f] \in lapsed, hold[peer[f]] # 0
      PROVE  /\ sid'[f] = hold[peer[f]]
             /\ pc'[f] \notin {"install", "refresh"}
             /\ pc'[f] = "respond" => code'[f] # "OP_SUCCESS"
  <2>1. sid[f] = hold[peer[f]] /\ sid[f] # 0 /\ pc[f] \notin {"install", "refresh"}
    BY <1>3 DEF Unserved
  <2>2. CASE Deny(f) \/ NoSession(f) \/ FindSession(f) \/ LookUp(f) \/ Expire(f)
    BY <2>1, <2>2 DEF Deny, NoSession, FindSession, LookUp, Expire, Goto, Answer, IInv, TypeOK
  <2>3. CASE Judge(f)
    <3>1. sid[f] \in DOMAIN sesh
      BY <2>3 DEF Judge, Sole, EntriesHeld
    <3>2. now[f] - sesh[sid[f]] > Timeout
      BY <1>3, <2>1, <2>3, <3>1 DEF Judge, Timely, Late
    <3> QED
      BY <2>1, <2>3, <3>2 DEF Judge, IInv, TypeOK
  <2> QED
    BY <2>1, <2>2, <2>3 DEF Refresh, InstallSession, DrawSession, Goto
<1> QED
  BY <1>1, <1>2, <1>3 DEF Unserved, IInv, TypeOK

\* An answer takes its connection away, and changes what its client holds only.
LEMMA AnswerLeavesUnserved ==
    ASSUME NEW f \in Conns, IInv, Unserved, ReadFails(f) \/ Respond(f)
    PROVE  Unserved'
<1>1. PICK result, id : \/ Deliver(f, result, id)
                        \/ f \notin open /\ UNCHANGED <<client, heard, lapsed, open>>
  BY DEF ReadFails, Respond
<1>2. /\ open' = open \ {f} /\ lapsed' \subseteq lapsed
      /\ \A c \in Clients : (f \notin open \/ c # peer[f]) => hold'[c] = hold[c]
  BY <1>1 DEF Deliver, client, IInv, TypeOK
<1>3. \A g \in Conns \ {f} : /\ pc'[g] = pc[g] /\ sid'[g] = sid[g]
                             /\ code'[g] = code[g] /\ peer'[g] = peer[g]
  BY DEF ReadFails, Respond, Goto, Answer, IInv, TypeOK
<1>4. \A g \in open' : /\ g \in Conns \ {f} /\ g \in open /\ peer[g] \in Clients
                       /\ f \in open => peer[g] # peer[f]
  BY <1>2 DEF IInv, TypeOK, OpenPeers
<1> QED
  BY <1>2, <1>3, <1>4 DEF Unserved

\* A client asks with what it holds, and waits for one answer at a time.
LEMMA AskLeavesUnserved ==
    ASSUME NEW c \in Clients, NEW f \in Conns, IInv, Unserved, Ask(c, f)
    PROVE  Unserved'
<1>1. /\ hold' = hold /\ code' = code /\ cst[c] # "waiting"
      /\ pc' = [pc EXCEPT ![f] = "reading"] /\ pc[f] = "free"
      /\ peer' = [peer EXCEPT ![f] = c] /\ sid' = [sid EXCEPT ![f] = hold[c]]
      /\ open' = open \cup {f} /\ lapsed' \subseteq lapsed \cup {c}
  BY DEF Ask, Goto
<1>2. \A g \in open : g \in Conns \ {f} /\ peer[g] # c
  BY <1>1 DEF IInv, TypeOK, OpenPeers
<1> QED
  BY <1>1, <1>2 DEF Unserved, IInv, TypeOK

\* Every step turns late requests away.
LEMMA JInvNext == JInv /\ [Next]_vars => JInv'
<1> SUFFICES ASSUME JInv, [Next]_vars, ~collided' PROVE Unserved'
  BY TInvNext DEF JInv
<1>1. ~collided
  BY DEF Next, Serve, ReadFails, DropSession, Respond, Deny, DrawSession, InstallSession,
         NoSession, FindSession, LookUp, Judge, Expire, Refresh, Abort, Ask, Quit, Crash,
         ServerEnds, Tick, vars, history
<1>2. IInv /\ Sole /\ Timely /\ Unserved
  BY <1>1 DEF JInv, TInv, IInv
<1>3. ASSUME NEW f \in Conns, Serve(f) PROVE Unserved'
  <2>1. CASE ReadFails(f) \/ Respond(f)
    BY <1>2, <2>1, AnswerLeavesUnserved
  <2>2. CASE \/ Deny(f) \/ NoSession(f) \/ FindSession(f) \/ LookUp(f) \/ Judge(f)
             \/ Expire(f) \/ Refresh(f) \/ DrawSession(f) \/ InstallSession(f)
    BY <1>2, <2>2, WorkLeavesUnserved
  <2>3. CASE DropSession(f)
    <3>1. f \notin open
      BY <1>2, <2>3 DEF DropSession, Goto, IInv, OpenPeers
    <3> QED
      BY <1>2, <2>3, <3>1 DEF DropSession, Goto, Unserved, client, history, IInv, TypeOK
  <2>4. CASE Abort(f)
    BY <2>4 DEF Abort, ServerEnds, Unserved
  <2> QED
    BY <1>3, <2>1, <2>2, <2>3, <2>4 DEF Serve
<1>4. ASSUME NEW c \in Clients, NEW f \in Conns, Ask(c, f) PROVE Unserved'
  BY <1>2, <1>4, AskLeavesUnserved
<1>5. ASSUME NEW c \in Clients, Quit(c) PROVE Unserved'
  <2>1. \A g \in open' : g \in open /\ g \in Conns /\ peer[g] # c /\ peer[g] \in Clients
    BY <1>2, <1>5 DEF Quit, IInv, TypeOK, OpenPeers
  <2> QED
    BY <1>2, <1>5, <2>1 DEF Quit, Unserved, IInv, TypeOK
<1>6. CASE Crash \/ Tick \/ UNCHANGED vars
  BY <1>2, <1>6 DEF Crash, ServerEnds, Tick, Unserved, vars, conn, client, history
<1> QED
  BY <1>3, <1>4, <1>5, <1>6 DEF Next
-----------------------------------------------------------------------------
\* The variables of Session keep their types.
THEOREM TypeCorrect == Spec => []TypeOK
<1>1. IInv => TypeOK
  BY DEF IInv
<1> QED
  BY <1>1, IInvInit, IInvNext, PTL DEF Spec

\* No worker follows a session_time that another worker removed, as long as
\* gen_session draws no id that somebody still holds.
THEOREM SoleHolder == Spec => []SoleHolderSafe
  BY IInvSafe, IInvInit, IInvNext, PTL DEF Spec

\* The server keeps the session of every client it gave one to, until it tells
\* the client otherwise.
THEOREM KnownSession == Spec => []ClientSessionKnown
  BY IInvKnown, IInvInit, IInvNext, PTL DEF Spec

\* A request that carries a session's id, and comes when the timeout has passed
\* since its client last heard an answer, is not served in that session.
THEOREM IdleSessions == Spec => []IdleSessionsExpire
  BY JInvIdle, JInvInit, JInvNext, PTL DEF Spec
=============================================================================
