----------------------------- MODULE MCFraming -----------------------------
(***************************************************************************)
(* The instance of Framing: one request of each kind, with ASCII strings   *)
(* and with characters of two bytes; widths that keep numbers small.       *)
(***************************************************************************)
EXTENDS Framing

Blank == [op |-> LOCAL_OP, flag |-> 22, sid |-> 0, user |-> << <<97>> >>, pass |-> << <<112>> >>,
          perm |-> 0, name |-> <<>>, word |-> <<>>, path |-> <<>>, file |-> <<>>]

\* A character of one byte, and one of two.
a == << <<98>> >>
e == << <<195, 169>> >>

RequestsMC == {
    Blank,
    [Blank EXCEPT !.op = GET_FILE, !.flag = 0, !.sid = 3, !.path = a],
    [Blank EXCEPT !.op = PUT_FILE, !.flag = 0, !.path = a, !.file = <<7, 8>>],
    [Blank EXCEPT !.op = PUT_FILE, !.flag = 0, !.path = a],
    [Blank EXCEPT !.op = USER_OP, !.flag = CREATE_USER, !.perm = 1, !.name = a, !.word = a \o a],
    [Blank EXCEPT !.op = USER_OP, !.flag = 20, !.perm = 1, !.name = a],
    [Blank EXCEPT !.pass = <<>>],
    [Blank EXCEPT !.user = e],
    [Blank EXCEPT !.op = 2, !.flag = 0, !.path = e \o e],
    [Blank EXCEPT !.op = 2, !.flag = 0, !.user = e \o e, !.pass = e, !.path = a]}

AnswersMC == {
    [code |-> OP_SUCCESS, msg |-> <<1, 1>>, content |-> <<>>],
    [code |-> OP_SUCCESS, msg |-> <<1, 1>>, content |-> <<5, 6, 7>>],
    [code |-> 9, msg |-> <<9>>, content |-> <<>>]}

DigestMC(file) == [i \in 1..4 |-> Len(file)]
=============================================================================
