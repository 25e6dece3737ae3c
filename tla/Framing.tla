------------------------------ MODULE Framing ------------------------------
(***************************************************************************)
(* One exchange over a connection, byte by byte: the client builds a       *)
(* request and sends it (src/src/client/client_classes.py: client_request; *)
(* client_sock.py: connect), a worker reads it field by field and answers  *)
(* (src/src/server/server_sock.c: read_client_req, write_response), the    *)
(* client takes the answer apart.                                          *)
(*                                                                         *)
(* Bytes arrive one after the other, late or never; send may take a part   *)
(* of the request, write a part of the answer; each side may be gone at    *)
(* any time.  A string is a sequence of characters and a character the     *)
(* sequence of its bytes in UTF-8.  What the request does is in the other  *)
(* modules: here it is answered with any answer of its kind.               *)
(***************************************************************************)
EXTENDS Integers, Sequences, SequencesExt

CONSTANTS
    Requests,           \* what clients ask for
    Answers,            \* what the server finds: a code, a message, a content
    NewSessions,        \* the ids it may draw
    Digest(_),          \* SHA-256
    H_SESSION_ID, H_PAYLOAD_LEN, H_HASH_LEN,    \* widths of fields, in bytes
    MAX_MSG_SIZE, MAX_FILE_SIZE,                \* the most one write takes
    Window,             \* the bytes of an answer the kernels hold
    MaxAlloc            \* the longest buffer calloc gives

\* act_t, usr_act_t and ret_codes_t.
USER_OP     == 1
LIST_DIR    == 3
GET_FILE    == 4
PUT_FILE    == 6
LOCAL_OP    == 7
CREATE_USER == 10
OP_SUCCESS       == 1
OP_SESSION_ERROR == 2
OP_FAILURE       == 255

Bytes == Seq(0..255)
Text  == Seq(Bytes)         \* what a client's user types

RequestFields == [op : 0..255, flag : 0..255, sid : Nat, user : Text, pass : Text,
                  perm : 0..255, name : Text, word : Text, path : Text, file : Bytes]

\* What w bytes count up to.
Place(w) ==
    LET value[k \in 0..w] == IF k = 0 THEN 1 ELSE 256 * value[k - 1]
    IN  value[w]

ASSUME FramingAssumption ==
    /\ H_SESSION_ID \in Nat \ {0} /\ H_PAYLOAD_LEN \in Nat \ {0}
    /\ H_HASH_LEN \in Nat /\ H_HASH_LEN > 2
    /\ MAX_MSG_SIZE \in Nat \ {0} /\ MAX_FILE_SIZE \in Nat \ {0} /\ Window \in Nat \ {0}
    /\ MaxAlloc \in Nat
    /\ NewSessions \subseteq 0..Place(H_SESSION_ID) - 1
    /\ \A a \in Answers : /\ a.code \in 0..255
                          /\ a.msg \in Bytes /\ Len(a.msg) \in 1..255
                          /\ a.content \in Bytes
                          /\ a.content # <<>> => a.code = OP_SUCCESS
                          /\ Len(a.msg) + 1 + H_HASH_LEN + Len(a.content) < Place(H_PAYLOAD_LEN)
    /\ Requests \subseteq RequestFields
    /\ \A c \in {r.file : r \in Requests} \cup {a.content : a \in Answers} :
           Digest(c) \in [1..H_HASH_LEN -> 0..255]
-----------------------------------------------------------------------------
(***************************************************************************)
(* The request as the client lays it out.                                  *)
(***************************************************************************)

\* struct.pack with "!": n in w bytes, the most significant one first.
Packed(n, w) ==
    LET high[k \in 0..w] == IF k = 0 THEN n ELSE high[k - 1] \div 256
    IN  [i \in 1..w |-> high[w - i] % 256]

Unpacked(b) ==
    LET value[i \in 0..Len(b)] == IF i = 0 THEN 0 ELSE 256 * value[i - 1] + b[i]
    IN  value[Len(b)]

Utf8(text) == FlattenSeq(text)

\* The length of a string is its number of characters.
Sized(text) == Packed(Len(text), 2) \o Utf8(text)

UserPayload(r) ==
    Packed(r.flag, 1) \o Packed(r.perm, 1) \o Sized(r.name)
      \o (IF r.flag = CREATE_USER THEN Sized(r.word) ELSE <<>>)

StdPayload(r) ==
    Sized(r.path) \o (IF r.op = PUT_FILE THEN Digest(r.file) \o r.file ELSE <<>>)

Payload(r) == CASE r.op = LOCAL_OP -> <<>>
                [] r.op = USER_OP  -> UserPayload(r)
                [] OTHER           -> StdPayload(r)

Wire(r) ==
    Packed(r.op, 1) \o Packed(r.flag, 1) \o Packed(0, 2)
      \o Packed(Len(r.user), 2) \o Packed(Len(r.pass), 2) \o Packed(r.sid, H_SESSION_ID)
      \o Utf8(r.user) \o Utf8(r.pass)
      \o Packed(Len(Payload(r)), H_PAYLOAD_LEN) \o Payload(r)

\* What struct.pack takes: the length of a string in two bytes, of a payload in
\* its field.
ASSUME SizesAssumption ==
    \A r \in Requests :
        /\ r.sid < Place(H_SESSION_ID) /\ Len(Payload(r)) < Place(H_PAYLOAD_LEN)
        /\ \A text \in {r.user, r.pass, r.name, r.word, r.path} : Len(text) < Place(2)
-----------------------------------------------------------------------------
(***************************************************************************)
(* The lengths the worker works out.                                       *)
(***************************************************************************)

\* Unsigned subtraction.
Less(m, n) == (m - n) % Place(H_PAYLOAD_LEN)

\* std_payload_has_file: of the two bytes of the path's length it takes no notice.
HasFile(payload_len, path_len) == Less(payload_len, path_len) >= H_HASH_LEN

\* Mutant: the two bytes of the path's length are taken off twice.
StreamSizeTwiceOff(payload_len, path_len) ==
    IF payload_len < path_len + H_HASH_LEN + 4 THEN 0
    ELSE payload_len - (path_len + H_HASH_LEN + 4)

\* get_file_stream_size.
StreamSize(payload_len, path_len) ==
    IF payload_len < path_len + H_HASH_LEN + 2 THEN 0
    ELSE payload_len - (path_len + H_HASH_LEN + 2)

\* user_payload_has_password.
HasPassword(payload_len, username_len) == payload_len > 4 + username_len

Numbers == {"opcode", "flag", "reserved", "ulen", "plen", "sid", "paylen",
            "uflag", "perm", "nlen", "wlen", "pathlen"}
Strings == {"user", "pass", "name", "word", "path"}
Fields  == Numbers \cup Strings \cup {"hash", "file"}

\* The bytes of field f, when those of got have been read.
Width(f, got) ==
    CASE f \in {"opcode", "flag", "uflag", "perm"} -> 1
      [] f \in {"reserved", "ulen", "plen", "nlen", "wlen", "pathlen"} -> 2
      [] f = "sid"    -> H_SESSION_ID
      [] f = "paylen" -> H_PAYLOAD_LEN
      [] f = "user"   -> got["ulen"]
      [] f = "pass"   -> got["plen"]
      [] f = "name"   -> got["nlen"]
      [] f = "word"   -> got["wlen"]
      [] f = "path"   -> got["pathlen"]
      [] f = "hash"   -> H_HASH_LEN
      [] f = "file"   -> StreamSize(got["paylen"], got["pathlen"])

\* The field read_client_req and its two helpers read after f.
After(f, got) ==
    CASE f = "opcode"   -> "flag"
      [] f = "flag"     -> "reserved"
      [] f = "reserved" -> "ulen"
      [] f = "ulen"     -> "plen"
      [] f = "plen"     -> "sid"
      [] f = "sid"      -> "user"
      [] f = "user"     -> "pass"
      [] f = "pass"     -> "paylen"
      [] f = "paylen"   -> (CASE got["opcode"] = USER_OP  -> "uflag"
                              [] got["opcode"] = LOCAL_OP -> "done"
                              [] OTHER                    -> "pathlen")
      [] f = "uflag"    -> "perm"
      [] f = "perm"     -> "nlen"
      [] f = "nlen"     -> "name"
      [] f = "name"     -> IF HasPassword(got["paylen"], got["nlen"]) THEN "wlen" ELSE "done"
      [] f = "wlen"     -> "word"
      [] f = "pathlen"  -> "path"
      [] f = "path"     -> IF HasFile(got["paylen"], got["pathlen"]) THEN "hash" ELSE "done"
      [] f = "hash"     -> "file"
      [] f \in {"word", "file"} -> "done"
-----------------------------------------------------------------------------
VARIABLES
    req,        \* what the client asks for
    cst,        \* the client
    wire,       \* what it sent and the worker has not read
    near,       \* how much of that has arrived
    up,         \* the process of the server has not been ended
    wst,        \* the worker
    field, got, \* the field it reads, and those it has
    resp,       \* what it answers
    head, body, \* the header and the content that it has still to write
    out,        \* what it wrote and the client has not read
    unread,     \* it closed the connection on bytes it had not read
    cfield, buffer, seen    \* the field the client reads, its bytes, and those it has

client == <<req, cst, cfield, buffer, seen>>
worker == <<wst, field, got, resp, head, body>>
vars   == <<client, worker, wire, near, up, out, unread>>

Nothing == [x \in {} |-> 0]
NoAnswer == [code |-> 0, msg |-> <<>>, content |-> <<>>, sid |-> 0]

Init ==
    /\ req \in Requests
    /\ cst = "start" /\ cfield = "code" /\ buffer = <<>> /\ seen = Nothing
    /\ wire = <<>> /\ near = 0 /\ up = TRUE
    /\ wst = "reading" /\ field = "opcode" /\ got = Nothing /\ resp = NoAnswer
    /\ head = <<>> /\ body = <<>> /\ out = <<>> /\ unread = FALSE
-----------------------------------------------------------------------------
(***************************************************************************)
(* The client sends, and may stop for good or leave.                       *)
(***************************************************************************)

\* send takes what it takes, and connect does not look how much.  It may be too
\* late for the worker.
Send ==
    /\ cst = "start" /\ cst' = "reading"
    /\ IF wst = "reading"
         THEN /\ \E n \in 1..Len(Wire(req)) : wire' = SubSeq(Wire(req), 1, n)
              /\ unread' = unread
         ELSE unread' = TRUE /\ wire' = wire
    /\ UNCHANGED <<req, cfield, buffer, seen, worker, near, up, out>>

\* The next byte arrives while the worker reads.
Arrive ==
    /\ wst = "reading" /\ near < Len(wire)
    /\ near' = near + 1
    /\ UNCHANGED <<client, worker, wire, up, out, unread>>

Leave ==
    /\ cst \in {"start", "reading", "stopped"} /\ cst' = "left"
    /\ out' = <<>> /\ buffer' = <<>>
    /\ UNCHANGED <<req, cfield, seen, worker, wire, near, up, unread>>

\* The client's process is stopped: it neither reads nor closes.
Stop ==
    /\ cst = "reading" /\ cst' = "stopped"
    /\ UNCHANGED <<req, cfield, buffer, seen, worker, wire, near, up, out, unread>>
-----------------------------------------------------------------------------
(***************************************************************************)
(* The worker reads (read_client_req).                                     *)
(***************************************************************************)

\* The number of bytes that the worker waits for, if it does.
Awaited == IF wst = "reading" /\ field # "done" THEN {Width(field, got)} ELSE {}

\* make_byte_array of a content whose length no calloc gives: it fails, or the
\* sanitizer ends the process.  Lengths of two bytes are always given.
TooLong(w) == field = "file" /\ w > MaxAlloc

\* read_stream has all bytes of a field.
ReadField ==
    /\ \E w \in Awaited :
         /\ ~TooLong(w) /\ near >= w
         /\ LET bytes == SubSeq(wire, 1, w)
                value == IF field \in Numbers THEN Unpacked(bytes) ELSE bytes
            IN  got' = [f \in DOMAIN got \cup {field} |-> IF f = field THEN value ELSE got[f]]
         /\ wire' = SubSeq(wire, w + 1, Len(wire))
         /\ near' = near - w
    /\ field' = After(field, got')
    /\ UNCHANGED <<client, wst, resp, head, body, up, out, unread>>

\* Mutant: the length of the payload leaves out its first byte, the length of
\* the message.
HeaderShort(a) ==
    LET stream == IF a.content = <<>> THEN 0 ELSE H_HASH_LEN + Len(a.content)
    IN  Packed(a.code, 1) \o Packed(0, 1) \o Packed(a.sid, H_SESSION_ID)
          \o Packed(Len(a.msg) + stream, H_PAYLOAD_LEN)
          \o Packed(Len(a.msg) % 256, 1) \o a.msg

\* The header of an answer, with the length of what follows it, and the content.
\* Of the message's length one byte is copied.
Header(a) ==
    LET stream == IF a.content = <<>> THEN 0 ELSE H_HASH_LEN + Len(a.content)
    IN  Packed(a.code, 1) \o Packed(0, 1) \o Packed(a.sid, H_SESSION_ID)
          \o Packed(Len(a.msg) + 1 + stream, H_PAYLOAD_LEN)
          \o Packed(Len(a.msg) % 256, 1) \o a.msg

Content(a) == IF a.content = <<>> THEN <<>> ELSE Digest(a.content) \o a.content

\* The worker has its answer, and looks at the request no more.
Answer(a) ==
    /\ wst' = "writing"
    /\ resp' = a /\ head' = Header(a) /\ body' = Content(a)
    /\ unread' = (wire # <<>>) /\ wire' = <<>> /\ near' = 0

\* A message stands for its code.
Failed(c) == [code |-> c, msg |-> <<c>>, content |-> <<>>, sid |-> 0]

\* Mutant: only a client that closed is left without an answer, but so is one
\* that is late.
ReadTimesOutSilently ==
    /\ \E w \in Awaited : ~TooLong(w) /\ near < w
    /\ cst # "left"
    /\ wst' = "closed"
    /\ unread' = (wire # <<>>) /\ wire' = <<>> /\ near' = 0
    /\ UNCHANGED <<client, field, got, resp, head, body, up, out>>

\* Mutant: the receive timeout was never set.
ReadWaits == FALSE /\ UNCHANGED vars

\* No byte came for CONNECTION_TIMEOUT seconds.
ReadTimesOut ==
    /\ \E w \in Awaited : ~TooLong(w) /\ near < w
    /\ cst # "left"
    /\ Answer(Failed(OP_SESSION_ERROR))
    /\ UNCHANGED <<client, field, got, up, out>>

\* The client closed the connection in the middle of its request.
ReadCloses ==
    /\ \E w \in Awaited : ~TooLong(w) /\ near < w
    /\ cst = "left" /\ near = Len(wire)
    /\ wst' = "closed" /\ wire' = <<>> /\ near' = 0
    /\ UNCHANGED <<client, field, got, resp, head, body, up, out, unread>>

AllocFails ==
    /\ \E w \in Awaited : TooLong(w)
    /\ Answer(Failed(OP_FAILURE))
    /\ UNCHANGED <<client, field, got, up, out>>

\* The process ends, and with it the connection: make_byte_array asks for too
\* much, or terminates an empty string in a buffer of no bytes.
Abort ==
    /\ \E w \in Awaited :
         TooLong(w) \/ (field \in Strings /\ w = 0)
    /\ up' = FALSE /\ wst' = "closed"
    /\ unread' = (wire # <<>>) /\ wire' = <<>> /\ near' = 0
    /\ UNCHANGED <<client, field, got, resp, head, body, out>>
-----------------------------------------------------------------------------
(***************************************************************************)
(* The worker acts and writes (ctrl_parse_action, write_response).         *)
(***************************************************************************)

\* The session of the request, or a new one; a content to those that ask for it.
Act ==
    /\ wst = "reading" /\ field = "done"
    /\ \E a \in Answers, s \in {got["sid"]} \cup NewSessions :
         /\ got["sid"] # 0 => s = got["sid"]
         /\ a.content # <<>> => got["opcode"] \in {LIST_DIR, GET_FILE}
         /\ Answer([code |-> a.code, msg |-> a.msg, content |-> a.content, sid |-> s])
    /\ UNCHANGED <<client, field, got, up, out>>

\* write of n bytes of s, of which it takes at most limit.
Writes(s, n, limit) == n \in 1..Len(s) /\ n <= limit /\ Len(out) + n <= Window

\* First the header and the message, then the content.
Write ==
    /\ wst = "writing" /\ cst # "left"
    /\ \/ /\ head # <<>>
          /\ \E n \in 1..Len(head) :
               /\ Writes(head, n, MAX_MSG_SIZE)
               /\ out' = out \o SubSeq(head, 1, n)
               /\ head' = SubSeq(head, n + 1, Len(head))
          /\ body' = body
       \/ /\ head = <<>> /\ body # <<>>
          /\ \E n \in 1..Len(body) :
               /\ Writes(body, n, MAX_FILE_SIZE)
               /\ out' = out \o SubSeq(body, 1, n)
               /\ body' = SubSeq(body, n + 1, Len(body))
          /\ head' = head
    /\ UNCHANGED <<client, wst, field, got, resp, wire, near, up, unread>>

\* The client is gone: what is left of the answer is given up.
WriteFails ==
    /\ wst = "writing" /\ cst = "left" /\ head \o body # <<>>
    /\ head' = <<>> /\ body' = <<>>
    /\ UNCHANGED <<client, wst, field, got, resp, wire, near, up, out, unread>>

\* Mutant: the content is forgotten.
CloseEarly ==
    /\ wst = "writing" /\ head = <<>>
    /\ wst' = "closed"
    /\ UNCHANGED <<client, field, got, resp, head, body, wire, near, up, out, unread>>

\* destroy_worker_pld.
Close ==
    /\ wst = "writing" /\ head = <<>> /\ body = <<>>
    /\ wst' = "closed"
    /\ UNCHANGED <<client, field, got, resp, head, body, wire, near, up, out, unread>>
-----------------------------------------------------------------------------
(***************************************************************************)
(* The client reads the answer (connect, _read_stream).                    *)
(***************************************************************************)

\* What is left of the payload after the message and the digest.
ContentSize == seen["paylen"] - (seen["msglen"] + 1 + H_HASH_LEN)

ClientWidth ==
    CASE cfield \in {"code", "reserved", "msglen"} -> 1
      [] cfield = "sid"     -> H_SESSION_ID
      [] cfield = "paylen"  -> H_PAYLOAD_LEN
      [] cfield = "msg"     -> seen["msglen"]
      [] cfield = "digest"  -> H_HASH_LEN
      [] cfield = "content" -> ContentSize

AfterAnswer ==
    CASE cfield = "code"     -> "reserved"
      [] cfield = "reserved" -> "sid"
      [] cfield = "sid"      -> "paylen"
      [] cfield = "paylen"   -> "msglen"
      [] cfield = "msglen"   -> "msg"
      [] cfield = "msg"      -> IF seen["code"] = OP_SUCCESS /\ ContentSize > 0
                                  THEN "digest" ELSE "done"
      [] cfield = "digest"   -> "content"
      [] cfield = "content"  -> "done"

\* recv of what is still missing, and what it makes of a field once it has it.
\* A recv that finds the connection closed is repeated for ever.
Recv ==
    /\ cst = "reading" /\ out # <<>>
    /\ LET n   == Min({Len(out), ClientWidth - Len(buffer)})
           all == buffer \o SubSeq(out, 1, n)
       IN  /\ out' = SubSeq(out, n + 1, Len(out))
           /\ IF Len(all) < ClientWidth
                THEN buffer' = all /\ UNCHANGED <<seen, cfield, cst>>
                ELSE /\ buffer' = <<>>
                     /\ seen' = [f \in DOMAIN seen \cup {cfield} |->
                                   IF f # cfield THEN seen[f]
                                   ELSE IF cfield \in {"msg", "digest", "content"} THEN all
                                   ELSE Unpacked(all)]
                     /\ cfield' = AfterAnswer
                     /\ cst' = IF cfield' = "done" THEN "done" ELSE cst
    /\ UNCHANGED <<req, worker, wire, near, up, unread>>

\* A connection that was closed on unread bytes, or by the end of the process,
\* may be reset.
Reset ==
    /\ cst = "reading" /\ wst = "closed" /\ (unread \/ ~up)
    /\ cst' = "failed" /\ out' = <<>> /\ buffer' = <<>>
    /\ UNCHANGED <<req, cfield, seen, worker, wire, near, up, unread>>
-----------------------------------------------------------------------------
Next ==
    \/ Send \/ Arrive \/ Leave \/ Stop
    \/ ReadField \/ ReadTimesOut \/ ReadCloses \/ AllocFails \/ Abort
    \/ Act \/ Write \/ WriteFails \/ Close
    \/ Recv \/ Reset

Work == ReadField \/ ReadTimesOut \/ ReadCloses \/ AllocFails \/ Act \/ Write
          \/ WriteFails \/ Close

\* The worker runs, a timeout comes if no byte does, sent bytes arrive, and a
\* client that was not stopped goes on.
Spec ==
    /\ Init /\ [][Next]_vars
    /\ WF_vars(Work) /\ WF_vars(Arrive) /\ WF_vars(Send) /\ WF_vars(Recv)
-----------------------------------------------------------------------------
(***************************************************************************)
(* Properties.                                                             *)
(***************************************************************************)

\* Every variable keeps its type; a closed connection has nothing left to write,
\* and the client what it has not read of the answer only.
TypeOK ==
    /\ req \in Requests
    /\ cst \in {"start", "reading", "done", "failed", "stopped", "left"}
    /\ wst \in {"reading", "writing", "closed"}
    /\ \A i \in 1..Len(wire) : wire[i] \in 0..255
    /\ near \in 0..Len(wire)
    /\ up \in BOOLEAN /\ unread \in BOOLEAN
    /\ field \in Fields \cup {"done"} /\ DOMAIN got \subseteq Fields \ {field}
    /\ \A f \in DOMAIN got : f \in Numbers => got[f] \in Nat
    /\ Len(out) \in 0..Window
    /\ (wst # "writing" => head = <<>> /\ body = <<>>)
    /\ (cst = "done" <=> cfield = "done")
    /\ (cst \in {"done", "failed", "left"} => buffer = <<>>)

\* No character of the request needs more than one byte.
Plain(r) == \A text \in {r.user, r.pass, r.name, r.word, r.path} :
                \A i \in 1..Len(text) : Len(text[i]) = 1

\* What the fields of the request are to be.
Meant(r) ==
    [f \in {"opcode", "flag", "sid", "user", "pass"}
             \cup (IF r.op = LOCAL_OP THEN {}
                   ELSE IF r.op = USER_OP
                     THEN {"uflag", "perm", "name"} \cup (IF r.flag = CREATE_USER THEN {"word"} ELSE {})
                     ELSE {"path"} \cup (IF r.op = PUT_FILE THEN {"hash", "file"} ELSE {})) |->
        CASE f = "opcode" -> r.op
          [] f \in {"flag", "uflag"} -> r.flag
          [] f = "sid"    -> r.sid
          [] f = "perm"   -> r.perm
          [] f = "user"   -> Utf8(r.user)
          [] f = "pass"   -> Utf8(r.pass)
          [] f = "name"   -> Utf8(r.name)
          [] f = "word"   -> Utf8(r.word)
          [] f = "path"   -> Utf8(r.path)
          [] f = "hash"   -> Digest(r.file)
          [] f = "file"   -> r.file]

\* read_client_req: however the bytes of a request arrive and whatever part of it
\* send took, a request that the worker acts upon is the one the client meant,
\* to the last byte and not one more, if its strings are plain.
AsSent ==
    (field = "done" /\ Plain(req)) =>
        /\ \A f \in DOMAIN Meant(req) : f \in DOMAIN got /\ got[f] = Meant(req)[f]
        /\ DOMAIN got \cap {"name", "word", "path", "hash", "file"} \subseteq DOMAIN Meant(req)
        /\ wire = <<>> /\ ~unread

\* write_response and connect: a client that has an answer has the worker's
\* answer, with all of its content, and has left no byte of it.
AsAnswered ==
    cst = "done" =>
        /\ seen["code"] = resp.code /\ seen["sid"] = resp.sid /\ seen["msg"] = resp.msg
        /\ IF resp.content = <<>> THEN DOMAIN seen \cap {"digest", "content"} = {}
           ELSE seen["content"] = resp.content /\ seen["digest"] = Digest(resp.content)
        /\ out = <<>> /\ head = <<>> /\ body = <<>>

\* serve_client: no client, whatever it sends or does not send, keeps a worker,
\* unless it stops reading an answer that is larger than what the kernels hold.
WorkerReturns == <>(wst = "closed" \/ (cst = "stopped" /\ head \o body # <<>>))

\* _read_stream repeats an empty recv for ever.  It never comes to that, also
\* when the lengths of a request were wrong, as long as the server runs: the
\* worker leaves no client without an answer that waits for one.
ClientReturns == <>(cst \in {"done", "failed", "stopped", "left"} \/ ~up)
=============================================================================
