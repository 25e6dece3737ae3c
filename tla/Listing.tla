------------------------------ MODULE Listing ------------------------------
(***************************************************************************)
(* The text of a directory listing: written line by line into a buffer     *)
(* that grows (src/src/server/server_file_api.c: f_list_dir,               *)
(* get_file_size, realloc_buff), and taken apart by the client             *)
(* (src/src/client/client_ctrl.py: _parse_dir).                            *)
(*                                                                         *)
(* A text is a sequence of tokens: brackets with a letter, colons, line    *)
(* feeds, numbers and words.  An entry's name is a text of its own, and    *)
(* comes with its length; nothing keeps a colon or a line feed out of it.  *)
(* The directory may change while it is read: any entry may come next, and *)
(* may be gone when its size is asked for.                                 *)
(***************************************************************************)
EXTENDS Integers, Sequences, SequencesExt

CONSTANTS
    Entries,        \* what readdir may return
    Hidden,         \* the names that are not listed
    Digits(_),      \* how many digits a size has
    BUFF_SIZE,      \* the size of the buffer at first
    MaxName, MaxDigits,
    MaxLines

\* A type is "F", "D" or something else, a size a token.
EntryFields == {"type", "name", "len", "size"}
Sizes == {e.size : e \in Entries} \cup {"0"}

ASSUME ListingAssumption ==
    /\ MaxName \in Nat /\ MaxDigits \in Nat \ {0, 1} /\ MaxLines \in Nat
    /\ BUFF_SIZE \in Nat /\ BUFF_SIZE >= MaxName + MaxDigits + 6
    /\ \A e \in Entries : /\ DOMAIN e = EntryFields
                          /\ e.len \in 1..MaxName /\ Digits(e.size) \in 1..MaxDigits
    /\ \A e \in Entries : e.name \in Seq(Range(e.name))
    /\ Digits("0") = 1 /\ Sizes \cap {":", "\n"} = {}
-----------------------------------------------------------------------------
VARIABLES
    lst,        \* f_list_dir and then the client
    text,       \* what is in the buffer
    offset,     \* its length
    size,       \* the size of the buffer
    excess,     \* by how much the last line was too long
    listed,     \* history: what the lines say
    shown       \* what the client shows, and how often

listVars == <<lst, text, offset, size, excess, listed, shown>>

ListInit ==
    /\ lst = "reading" /\ text = <<>> /\ offset = 0 /\ size = BUFF_SIZE
    /\ excess = 0 /\ listed = <<>> /\ shown = ToBag(<<>>)
-----------------------------------------------------------------------------
(***************************************************************************)
(* f_list_dir.                                                             *)
(***************************************************************************)

Visible(e) == e.type \in {"F", "D"} /\ e.name \notin Hidden

\* get_file_size, of a file that is there or gone: the size, and what it takes
\* for the number of its digits (its loop ends before it counts).
SizeOf(e, there)   == IF there THEN e.size ELSE "0"
NumLen(there)      == IF there THEN 1 ELSE 0

Tag(type)    == IF type = "F" THEN "[F]" ELSE "[D]"
Line(e, s)   == << Tag(e.type), ":", s, ":" >> \o e.name \o << "\n" >>
Length(e, s) == e.len + Digits(s) + 6

\* Mutant: realloc_buff makes room for one byte more.
GrownByOne(n) == n + 1

\* realloc_buff.
Grown(n) == n * 2

\* The buffer before a line is printed into it: doubled, once, when the name,
\* the digits and four more are too long.
Room(e, there) ==
    IF e.len + offset + NumLen(there) + 4 >= size THEN Grown(size) ELSE size

AddLine(e, there) ==
    LET s == SizeOf(e, there)
    IN  /\ lst = "reading" /\ Len(listed) < MaxLines /\ Visible(e)
        /\ size' = Room(e, there)
        /\ offset + Length(e, s) < size'
        /\ offset' = offset + Length(e, s)
        /\ text' = text \o Line(e, s)
        /\ listed' = Append(listed, [type |-> e.type, size |-> s, name |-> e.name])
        /\ UNCHANGED <<lst, excess, shown>>

\* sprintf prints past the end of the buffer: the sanitizer ends the process.
Overrun(e, there) ==
    LET s == SizeOf(e, there)
    IN  /\ lst = "reading" /\ Len(listed) < MaxLines /\ Visible(e)
        /\ size' = Room(e, there)
        /\ offset + Length(e, s) >= size'
        /\ excess' = offset + Length(e, s) + 1 - size'
        /\ lst' = "aborted"
        /\ UNCHANGED <<text, offset, listed, shown>>

\* A listing of no bytes is answered OP_DIR_EMPTY.
EndOfDir ==
    /\ lst = "reading"
    /\ lst' = IF offset = 0 THEN "empty" ELSE "sent"
    /\ UNCHANGED <<text, offset, size, excess, listed, shown>>
-----------------------------------------------------------------------------
(***************************************************************************)
(* _parse_dir.                                                             *)
(***************************************************************************)

\* str.split: a separator begins a new part, anything else goes on with the last.
Onward(parts, x, sep) ==
    IF x = sep THEN Append(parts, <<>>) ELSE Append(Front(parts), Append(Last(parts), x))

Cut(s, sep) ==
    LET cut[n \in 0..Len(s)] == IF n = 0 THEN << <<>> >> ELSE Onward(cut[n - 1], s[n], sep)
    IN  cut[Len(s)]

\* Mutant: the loop goes on to the last line, which is empty.
LinesToTheEnd(t) == Cut(t, "\n")

\* The lines before the first empty one.
Lines(t) ==
    LET all  == Cut(t, "\n")
        full == {n \in 0..Len(all) : \A i \in 1..n : all[i] # <<>>}
    IN  SubSeq(all, 1, Max(full))

Parsed(line) == Cut(line, ":")

\* Three fields, the second one a number.
WellFormed(line) ==
    /\ Len(Parsed(line)) = 3
    /\ \E s \in Sizes : Parsed(line)[2] = <<s>>

\* Every line is shown, or none.  The order is the client's own (it sorts by type
\* and size), and left out.
Show ==
    /\ lst = "sent"
    /\ LET lines == Lines(text)
       IN  IF \A i \in DOMAIN lines : WellFormed(lines[i])
             THEN /\ lst' = "shown"
                  /\ shown' = ToBag([i \in DOMAIN lines |->
                       [type |-> IF Parsed(lines[i])[1] = <<"[F]">> THEN "F" ELSE "D",
                        size |-> Parsed(lines[i])[2][1],
                        name |-> Parsed(lines[i])[3]]])
             ELSE lst' = "failed" /\ shown' = shown
    /\ UNCHANGED <<text, offset, size, excess, listed>>
-----------------------------------------------------------------------------
ListNext ==
    \/ \E e \in Entries, there \in BOOLEAN : AddLine(e, there) \/ Overrun(e, there)
    \/ EndOfDir \/ Show

ListSpec == ListInit /\ [][ListNext]_listVars
-----------------------------------------------------------------------------
(***************************************************************************)
(* Properties.                                                             *)
(***************************************************************************)

Plain(name) == \A i \in DOMAIN name : name[i] \notin {":", "\n"}

\* f_list_dir and _parse_dir: a listing whose names have no separator is shown
\* as the server found it, each line once.
ReadBack ==
    (lst \in {"shown", "failed"} /\ \A i \in DOMAIN listed : Plain(listed[i].name))
        => lst = "shown" /\ shown = ToBag(listed)

\* f_list_dir keeps four bytes for what is seven, and one for the digits: a line
\* that does not fit is too long by its digits and one byte at most, or by three
\* bytes, wherever in the listing it is and however often the buffer grew.
OverrunsStayShort == excess <= MaxDigits + 1
=============================================================================
