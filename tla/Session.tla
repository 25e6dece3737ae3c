------------------------------ MODULE Session ------------------------------
(***************************************************************************)
(* Sessions: the sesh_htable of the server, the requests that create, use, *)
(* refresh, expire and drop its entries (serve_client in                   *)
(* src/src/server/server_sock.c, ctrl_parse_action in                      *)
(* src/src/server/server_ctrl.c), and the interactive clients that hold    *)
(* the ids (src/src/client/client_interactive.py, client_sock.py).         *)
(*                                                                         *)
(* A client opens one connection per request.  A connection is served from *)
(* beginning to end by one worker thread, so a worker's steps are indexed  *)
(* by the connection it serves (how a connection gets to a worker is left  *)
(* out).  The workers share sesh_htable without a lock.                    *)
(*                                                                         *)
(* An operation other than the session's own business (files, users) only  *)
(* shows as a code that is no session error.  Memory allocations succeed.  *)
(***************************************************************************)
EXTENDS Naturals, FiniteSets

CONSTANTS
    Clients,        \* client programs
    NoClient,       \* the peer of a connection that is not open
    Conns,          \* connections that can be open at once
    Draws,          \* what gen_session can return; 0 is one of them
    Timeout,        \* -t, in clock ticks
    MaxClock,       \* bound: ticks of the clock
    MaxRestarts     \* bound: times the server is started again

ASSUME SessionAssumption ==
    /\ NoClient \notin Clients
    /\ Draws \subseteq Nat
    /\ Timeout \in Nat /\ MaxClock \in Nat /\ MaxRestarts \in Nat

Ids   == Draws \cup {0}
Times == 0..MaxClock
Codes == {"NONE", "OP_SUCCESS", "OP_SESSION_ERROR", "OP_USER_AUTH",
          "OP_FAILURE"}
PCs   == {"free", "reading", "install", "lookup",
          "judge", "refresh", "expire", "respond", "drop"}
ClientStates == {"off", "login", "ready", "waiting"}
-----------------------------------------------------------------------------
VARIABLES
    up,         \* the server process runs
    restarts,
    clock,      \* time(2)
    sesh,       \* sesh_htable: id -> time of the last use
    pc,         \* where the worker that serves a connection is
    peer,       \* the client that opened it
    sid,        \* the session id of its request
    now,        \* current_time in ctrl_parse_action
    code,       \* the result the request is answered with
    open,       \* connections whose client still waits at the other end
    gone,       \* connections whose worker holds a session_time that was freed
    cst,        \* where each client is
    hold,       \* ClientRequest.session
    first,      \* clients whose pending request is the one after the password
    heard,      \* history: when each client in a session last heard an answer
    lapsed,     \* history: clients that let the timeout pass before they asked
    granted,    \* history: clients in a session whose last answer was this
                \* process's OP_SUCCESS
    collided    \* history: an id was drawn that somebody still held

conn    == <<pc, peer, sid, now, code, open, gone>>
client  == <<cst, hold, first, granted>>
history == <<heard, lapsed, collided>>
server  == <<up, restarts, clock>>
vars    == <<server, sesh, conn, client, history>>

Init ==
    /\ up = TRUE /\ restarts = 0 /\ clock = 0
    /\ sesh = [i \in {} |-> 0]
    /\ pc = [f \in Conns |-> "free"]
    /\ peer = [f \in Conns |-> NoClient]
    /\ sid = [f \in Conns |-> 0]
    /\ now = [f \in Conns |-> 0]
    /\ code = [f \in Conns |-> "NONE"]
    /\ open = {} /\ gone = {}
    /\ cst = [c \in Clients |-> "off"]
    /\ hold = [c \in Clients |-> 0]
    /\ first = {} /\ granted = {}
    /\ heard = [c \in Clients |-> 0]
    /\ lapsed = {} /\ collided = FALSE

Goto(f, from, to) ==
    /\ pc[f] = from
    /\ pc' = [pc EXCEPT ![f] = to]

\* Bound: gen_session never runs out of ids, as it does not with 2^32 of them.
RoomForOneMore ==
    Cardinality(DOMAIN sesh)
      + Cardinality({f \in Conns : pc[f] = "install" \/ (pc[f] # "free" /\ sid[f] = 0)})
      < Cardinality(Draws)
-----------------------------------------------------------------------------
(***************************************************************************)
(* The server process.                                                     *)
(***************************************************************************)

\* The process is gone: the table with it, and every connection is cut.  A
\* client that waits is of no more use: it gets an error and exits, or reads b""
\* for ever.  A new process starts, as often as the bound allows; gen_session,
\* never seeded, starts over too.
ServerEnds ==
    /\ up' = (restarts < MaxRestarts)
    /\ restarts' = IF restarts < MaxRestarts THEN restarts + 1 ELSE restarts
    /\ sesh' = [i \in {} |-> 0]
    /\ pc' = [f \in Conns |-> "free"]
    /\ peer' = [f \in Conns |-> NoClient]
    /\ sid' = [f \in Conns |-> 0]
    /\ now' = [f \in Conns |-> 0]
    /\ code' = [f \in Conns |-> "NONE"]
    /\ open' = {} /\ gone' = {} /\ granted' = {} /\ lapsed' = {} /\ first' = {}
    /\ cst' = [c \in Clients |-> IF cst[c] = "waiting" THEN "off" ELSE cst[c]]
    /\ hold' = [c \in Clients |-> IF cst[c] = "waiting" THEN 0 ELSE hold[c]]
    /\ UNCHANGED <<clock, heard, collided>>

Crash == restarts < MaxRestarts /\ ServerEnds

Tick ==
    /\ clock < MaxClock
    /\ clock' = clock + 1
    /\ UNCHANGED <<up, restarts, sesh, conn, client, history>>
-----------------------------------------------------------------------------
(***************************************************************************)
(* The client: shell, _interact and make_connection.                       *)
(***************************************************************************)

\* The client connects and sends its request, with session 0 after it asked
\* for the password, with the id it holds otherwise.
Ask(c, f) ==
    /\ up
    /\ cst[c] \in {"off", "login", "ready"}
    /\ hold[c] = 0 => RoomForOneMore
    /\ Goto(f, "free", "reading")
    /\ peer' = [peer EXCEPT ![f] = c]
    /\ sid' = [sid EXCEPT ![f] = hold[c]]
    /\ open' = open \cup {f}
    /\ cst' = [cst EXCEPT ![c] = "waiting"]
    /\ first' = IF cst[c] = "ready" THEN first ELSE first \cup {c}
    /\ lapsed' = IF cst[c] = "ready" /\ clock - heard[c] > Timeout
                   THEN lapsed \cup {c} ELSE lapsed
    /\ heard' = [heard EXCEPT ![c] = 0]
    /\ granted' = granted \ {c}
    /\ UNCHANGED <<server, sesh, now, code, gone, hold, collided>>

\* The client program ends: quit, ^C while it waits, or it is killed.
Quit(c) ==
    /\ cst[c] # "off"
    /\ cst' = [cst EXCEPT ![c] = "off"]
    /\ hold' = [hold EXCEPT ![c] = 0]
    /\ heard' = [heard EXCEPT ![c] = 0]
    /\ open' = open \ {f \in Conns : peer[f] = c}
    /\ first' = first \ {c}
    /\ lapsed' = lapsed \ {c}
    /\ granted' = granted \ {c}
    /\ UNCHANGED <<server, sesh, pc, peer, sid, now, code, gone, collided>>

\* The answer to connection f reaches its client, if that still waits: a
\* session error in a session sends it back to the password, any failure of
\* the first request ends it, everything else leaves it in the session.
Deliver(f, result, id) ==
    LET c == peer[f]
        next == CASE result = "OP_SESSION_ERROR" /\ c \notin first -> "login"
                  [] result # "OP_SUCCESS" /\ c \in first -> "off"
                  [] OTHER -> "ready"
    IN  IF f \in open
          THEN /\ cst' = [cst EXCEPT ![c] = next]
               /\ hold' = [hold EXCEPT ![c] = IF next = "ready" THEN id ELSE 0]
               /\ heard' = [heard EXCEPT ![c] = IF next = "ready" THEN clock ELSE 0]
               /\ granted' = IF result = "OP_SUCCESS" THEN granted \cup {c} ELSE granted
               /\ first' = first \ {c}
               /\ lapsed' = lapsed \ {c}
               /\ open' = open \ {f}
          ELSE UNCHANGED <<client, heard, lapsed, open>>
-----------------------------------------------------------------------------
(***************************************************************************)
(* serve_client: one connection after the other.                           *)
(***************************************************************************)

\* Mutant: the error response carries the session of the request.
ReadFailsKeepingSession(f) ==
    /\ Goto(f, "reading", "drop")
    /\ UNCHANGED sid
    /\ \E result \in {"OP_SESSION_ERROR", "OP_FAILURE"} : Deliver(f, result, sid[f])
    /\ UNCHANGED <<server, sesh, peer, now, code, gone, collided>>

\* Mutant: a read that timed out is not answered.
ReadFailsSilently(f) ==
    /\ Goto(f, "reading", "drop")
    /\ \E got \in {0, sid[f]} : sid' = [sid EXCEPT ![f] = got]
    /\ UNCHANGED <<server, sesh, peer, now, code, gone, open, client, history>>

\* read_client_req gives up, before or after it read the session id.  The
\* response, which it sends unless the client is gone, has the session of the
\* fresh worker_payload_t: 0.
ReadFails(f) ==
    /\ Goto(f, "reading", "drop")
    /\ \E got \in {0, sid[f]} : sid' = [sid EXCEPT ![f] = got]
    /\ \/ \E result \in {"OP_SESSION_ERROR", "OP_FAILURE"} : Deliver(f, result, 0)
       \/ f \notin open /\ UNCHANGED <<client, heard, lapsed, open>>
    /\ UNCHANGED <<server, sesh, peer, now, code, gone, collided>>

\* The entry of an id leaves the table and is freed, under whoever uses it.
HtableDel(id) ==
    /\ sesh' = [i \in DOMAIN sesh \ {id} |-> sesh[i]]
    /\ gone' = gone \cup {f \in Conns : /\ pc[f] \in {"judge", "refresh"}
                                        /\ sid[f] = id}

\* ... and then serve_client expires the session it read.
DropSession(f) ==
    /\ Goto(f, "drop", "free")
    /\ HtableDel(sid[f])
    /\ sid' = [sid EXCEPT ![f] = 0]
    /\ peer' = [peer EXCEPT ![f] = NoClient]
    /\ UNCHANGED <<server, now, code, open, client, history>>

Answer(f, result) ==
    code' = [code EXCEPT ![f] = result]

\* write_response and the close of the connection.
Respond(f) ==
    /\ Goto(f, "respond", "free")
    /\ Deliver(f, code[f], sid[f])
    /\ sid' = [sid EXCEPT ![f] = 0]
    /\ peer' = [peer EXCEPT ![f] = NoClient]
    /\ Answer(f, "NONE")
    /\ UNCHANGED <<server, sesh, now, gone, collided>>
-----------------------------------------------------------------------------
(***************************************************************************)
(* ctrl_parse_action, once the whole request is read.  The read itself     *)
(* touches nothing shared, so it is part of the first step after it.       *)
(***************************************************************************)

\* db_authenticate_user fails.
Deny(f) ==
    /\ Goto(f, "reading", "respond")
    /\ Answer(f, "OP_USER_AUTH")
    /\ UNCHANGED <<server, sesh, peer, sid, now, open, gone, client, history>>

\* Who holds an id, other than connection f.
HeldElsewhere(id, f) ==
    \/ \E c \in Clients : cst[c] = "ready" /\ hold[c] = id
    \/ \E g \in Conns \ {f} : pc[g] # "free" /\ sid[g] = id

\* Mutant: the table is not consulted.
DrawSessionUnchecked(f) ==
    /\ Goto(f, "reading", "install")
    /\ sid[f] = 0
    /\ \E id \in Draws :
         /\ sid' = [sid EXCEPT ![f] = id]
         /\ collided' = (collided \/ (id # 0 /\ id \notin DOMAIN sesh /\ HeldElsewhere(id, f)))
    /\ UNCHANGED <<server, sesh, peer, now, code, open, gone, client, heard, lapsed>>

\* generate_session_id draws until the id is not in the table ...
DrawSession(f) ==
    /\ Goto(f, "reading", "install")
    /\ sid[f] = 0
    /\ \E id \in Draws \ DOMAIN sesh :
         /\ sid' = [sid EXCEPT ![f] = id]
         /\ collided' = (collided \/ (id # 0 /\ HeldElsewhere(id, f)))
    /\ UNCHANGED <<server, sesh, peer, now, code, open, gone, client, heard, lapsed>>

\* ... and enters it.  The entry of a worker that drew the same id is replaced.
InstallSession(f) ==
    /\ Goto(f, "install", "respond")
    /\ sesh' = [i \in DOMAIN sesh \cup {sid[f]} |-> IF i = sid[f] THEN clock ELSE sesh[i]]
    /\ \E freed \in {{}, {g \in Conns : pc[g] \in {"judge", "refresh"} /\ sid[g] = sid[f]}} :
         gone' = gone \cup freed
    /\ Answer(f, "OP_SUCCESS")
    /\ UNCHANGED <<server, peer, sid, now, open, client, history>>

\* htable_key_exists.
NoSession(f) ==
    /\ Goto(f, "reading", "respond")
    /\ sid[f] \notin DOMAIN sesh \cup {0}
    /\ Answer(f, "OP_SESSION_ERROR")
    /\ UNCHANGED <<server, sesh, peer, sid, now, open, gone, client, history>>

FindSession(f) ==
    /\ Goto(f, "reading", "lookup")
    /\ sid[f] # 0
    /\ sid[f] \in DOMAIN sesh
    /\ UNCHANGED <<server, sesh, peer, sid, now, code, open, gone, client, history>>

\* htable_get and get_time.
LookUp(f) ==
    /\ sid[f] \in DOMAIN sesh
    /\ Goto(f, "lookup", "judge")
    /\ now' = [now EXCEPT ![f] = clock]
    /\ UNCHANGED <<server, sesh, peer, sid, code, open, gone, client, history>>

\* Mutant: the last tick is not counted.
JudgeLate(f) ==
    /\ pc[f] = "judge"
    /\ f \notin gone
    /\ pc' = [pc EXCEPT ![f] =
                IF now[f] - sesh[sid[f]] > Timeout + 1 THEN "expire" ELSE "refresh"]
    /\ UNCHANGED <<server, sesh, peer, sid, now, code, open, gone, client, history>>

Judge(f) ==
    /\ pc[f] = "judge"
    /\ f \notin gone
    /\ pc' = [pc EXCEPT ![f] =
                IF now[f] - sesh[sid[f]] > Timeout THEN "expire" ELSE "refresh"]
    /\ UNCHANGED <<server, sesh, peer, sid, now, code, open, gone, client, history>>

Expire(f) ==
    /\ Goto(f, "expire", "respond")
    /\ HtableDel(sid[f])
    /\ Answer(f, "OP_SESSION_ERROR")
    /\ now' = [now EXCEPT ![f] = 0]
    /\ UNCHANGED <<server, peer, sid, open, client, history>>

\* Mutant: what is left of the timeout is stored, not the time.
RefreshLeft(f) ==
    /\ f \notin gone
    /\ Goto(f, "refresh", "respond")
    /\ sesh' = [sesh EXCEPT ![sid[f]] = now[f] - Timeout]
    /\ Answer(f, "OP_SUCCESS")
    /\ now' = [now EXCEPT ![f] = 0]
    /\ UNCHANGED <<server, peer, sid, open, gone, client, history>>

\* The session's time is written through the pointer; then the operation runs.
Refresh(f) ==
    /\ f \notin gone
    /\ Goto(f, "refresh", "respond")
    /\ sesh' = [sesh EXCEPT ![sid[f]] = now[f]]
    /\ Answer(f, "OP_SUCCESS")
    /\ now' = [now EXCEPT ![f] = 0]
    /\ UNCHANGED <<server, peer, sid, open, gone, client, history>>

\* The worker follows a null session_time, or one that was freed.
Dangles(f) ==
    \/ pc[f] = "lookup" /\ sid[f] \notin DOMAIN sesh
    \/ pc[f] \in {"judge", "refresh"} /\ f \in gone

Abort(f) == Dangles(f) /\ ServerEnds
-----------------------------------------------------------------------------
Serve(f) ==
    \/ ReadFails(f) \/ DropSession(f) \/ Respond(f)
    \/ Deny(f) \/ DrawSession(f) \/ InstallSession(f)
    \/ NoSession(f) \/ FindSession(f) \/ LookUp(f)
    \/ Judge(f) \/ Expire(f) \/ Refresh(f) \/ Abort(f)

Next ==
    \/ \E f \in Conns : Serve(f)
    \/ \E c \in Clients, f \in Conns : Ask(c, f)
    \/ \E c \in Clients : Quit(c)
    \/ Crash \/ Tick

\* A worker goes on with what it serves: a read returns within
\* CONNECTION_TIMEOUT.
Fairness == \A f \in Conns : WF_vars(Serve(f))

Spec == Init /\ [][Next]_vars /\ Fairness
-----------------------------------------------------------------------------
(***************************************************************************)
(* Properties.                                                             *)
(***************************************************************************)

\* Every variable keeps its type.
TypeOK ==
    /\ up \in BOOLEAN /\ restarts \in 0..MaxRestarts /\ clock \in Times
    /\ DOMAIN sesh \subseteq Ids /\ sesh \in [DOMAIN sesh -> Times]
    /\ pc \in [Conns -> PCs]
    /\ peer \in [Conns -> Clients \cup {NoClient}]
    /\ sid \in [Conns -> Ids]
    /\ now \in [Conns -> Times]
    /\ code \in [Conns -> Codes]
    /\ open \subseteq Conns /\ gone \subseteq Conns
    /\ cst \in [Clients -> ClientStates]
    /\ hold \in [Clients -> Ids]
    /\ first \subseteq Clients /\ granted \subseteq Clients
    /\ heard \in [Clients -> Times]
    /\ lapsed \subseteq Clients /\ collided \in BOOLEAN

\* As long as no id is drawn that somebody still holds, no worker follows a
\* session_time that another one removed between htable_key_exists, htable_get
\* and the last use of the pointer: the requests of one session do not overlap.
SoleHolderSafe == ~collided => \A f \in Conns : ~Dangles(f)

\* The server does not forget a session behind its client's back: a client
\* this process gave a session still has it, until it is told otherwise.
ClientSessionKnown ==
    \A c \in Clients :
      (~collided /\ c \in granted /\ cst[c] = "ready" /\ hold[c] # 0)
        => hold[c] \in DOMAIN sesh

\* A session does not outlive its client's silence: a request that carries the
\* id of a session, sent when more than the timeout had passed since the last
\* answer, is not served in that session.  Nothing is said of a client whose id
\* an OP_FAILURE set to 0: its password opens a new session at any time.
IdleSessionsExpire ==
    \A f \in open :
      (~collided /\ peer[f] \in lapsed /\ hold[peer[f]] # 0)
        => ~(pc[f] = "respond" /\ code[f] = "OP_SUCCESS")

\* Every request is answered, or the client sees its connection go.
RequestsAnswered ==
    \A c \in Clients : cst[c] = "waiting" ~> cst[c] # "waiting"
=============================================================================
