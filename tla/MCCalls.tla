------------------------------ MODULE MCCalls ------------------------------
(***************************************************************************)
(* What the server makes of its inputs, one call at a time: its command    *)
(* line (Arguments), the paths of requests (Paths), a directory that is    *)
(* listed (Listing) and a hash that is saved and loaded (Hashing).  The    *)
(* four share nothing; one run goes through them all, one from rest.       *)
(***************************************************************************)
EXTENDS Arguments, Paths, Listing, Hashing

Init == ArgsInit /\ PathInit /\ ListInit /\ HashInit

Next ==
    \/ /\ PathInit /\ ListInit /\ HashInit
       /\ ArgsNext /\ UNCHANGED <<pathVars, listVars, hashVars>>
    \/ /\ ArgsInit /\ ListInit /\ HashInit
       /\ PathNext /\ UNCHANGED <<argsVars, listVars, hashVars>>
    \/ /\ ArgsInit /\ PathInit /\ HashInit
       /\ ListNext /\ UNCHANGED <<argsVars, pathVars, hashVars>>
    \/ /\ ArgsInit /\ PathInit /\ ListInit
       /\ HashNext /\ UNCHANGED <<argsVars, pathVars, listVars>>

Spec == Init /\ [][Next]_<<argsVars, pathVars, listVars, hashVars>>
-----------------------------------------------------------------------------
\* Around every bound of get_port and get_timeout, and of a uint8_t.
NumbersMC == {-1, 0, 1, 255, 256, 300, 301, 1024, 1025, 65535, 65536}
HomesMC == {[dir |-> TRUE, others |-> {"r", "w", "x"}], [dir |-> TRUE, others |-> {"r", "x"}],
            [dir |-> FALSE, others |-> {"r", "w"}]}

\* /t/h, a name that begins with h, and one that is long.
NamesMC == {"t", "h", "hx", "long"}
LengthMC(n) == CASE n = "long" -> 4 [] n \in {"hx", ".."} -> 2 [] OTHER -> 1
HomeMC == <<"t", "h">>
OutsideMC == {<<"t", "long">>}

\* Names with and without a separator, one as long as a name may be; sizes of
\* one digit and of three.
EntryMC(type, name, len, s) == [type |-> type, name |-> name, len |-> len, size |-> s]
EntriesMC == {
    EntryMC("F", <<"a">>, 1, "7"), EntryMC("F", <<"b">>, 7, "999"),
    EntryMC("D", <<"d">>, 3, "64"), EntryMC("F", <<"c", ":", "c">>, 3, "0"),
    EntryMC("F", <<"n", "\n">>, 2, "7"), EntryMC("D", <<".cape">>, 5, "64"),
    EntryMC("D", <<".">>, 1, "64"), EntryMC("L", <<"l">>, 1, "7")}
HiddenMC == {<<".">>, <<"..">>, <<".cape">>}
DigitsMC(s) == CASE s = "999" -> 3 [] s = "64" -> 2 [] OTHER -> 1

\* Bytes with a leading zero, without one, and zero.
DigestsMC == [1..3 -> {0, 10, 171, 255}]
=============================================================================
