----------------------------- MODULE Arguments -----------------------------
(***************************************************************************)
(* The server's command line (src/src/server/server_args.c: args_parse,    *)
(* get_port, get_timeout, get_home_dir): one turn of the getopt loop is    *)
(* one step.                                                               *)
(*                                                                         *)
(* An option is a letter with what strtol or stat say of its argument;     *)
(* "?" stands for all that getopt does not know, "operand" for a word that *)
(* is no option: getopt moves it to the end.                               *)
(***************************************************************************)
EXTENDS Integers, Sequences

CONSTANTS
    Numbers,            \* the numbers that may be typed
    NotANumber,         \* strtol took no number, not all of it, or overflowed
    Homes,              \* [dir : whether it is a directory, others : their rights]
    NoHome,             \* a path that does not exist
    MIN_PORT, MAX_PORT, DEFAULT_PORT, MAX_TIMEOUT, DEFAULT_TIMEOUT,
    MaxOptions          \* the longest command line

Options ==
    [letter : {"p", "t"}, value : Numbers \cup {NotANumber}]
      \cup [letter : {"d"}, value : Homes \cup {NoHome}]
      \cup [letter : {"h", "?", "operand"}]

ASSUME ArgumentsAssumption ==
    /\ Numbers \subseteq Int /\ NotANumber \notin Int
    /\ Homes \subseteq [dir : BOOLEAN, others : SUBSET {"r", "w", "x"}]
    /\ NoHome \notin Homes
    /\ MIN_PORT \in Nat \ {0} /\ MAX_PORT \in Nat /\ DEFAULT_PORT \in Nat
    /\ MAX_TIMEOUT \in 1..511 /\ DEFAULT_TIMEOUT \in 1..255 /\ MaxOptions \in Nat
-----------------------------------------------------------------------------
VARIABLES
    given,      \* argv
    next,       \* the option getopt comes to next
    parsing,    \* "rest", "loop", "refused", "accepted"
    args,       \* p_args
    flags       \* b_port, b_timeout, b_home_dir, and a word that is no option

argsVars == <<given, next, parsing, args, flags>>

Defaults == [port |-> DEFAULT_PORT, timeout |-> DEFAULT_TIMEOUT, home |-> NoHome]

ArgsInit ==
    /\ given = <<>> /\ next = 1 /\ parsing = "rest" /\ args = Defaults /\ flags = {}

\* main.
Call ==
    /\ parsing = "rest" /\ parsing' = "loop"
    /\ \E n \in 0..MaxOptions : given' \in [1..n -> Options]
    /\ UNCHANGED <<next, args, flags>>
-----------------------------------------------------------------------------
\* get_port: 0 is an error.
PortOf(v) == IF v # NotANumber /\ v <= MAX_PORT /\ v >= MIN_PORT THEN v ELSE 0

\* get_timeout: a uint8_t, and 0 is an error.
TimeoutOf(v) == IF v # NotANumber /\ v <= MAX_TIMEOUT /\ v >= 1 THEN v % 256 ELSE 0

\* get_home_dir: R_OK and W_OK are bits of st_mode that are others' rights,
\* whoever owns the directory and whoever the server runs as.
Usable(v) == v # NoHome /\ v.dir /\ {"r", "w"} \subseteq v.others

Letter == given[next].letter
Value  == given[next].value

InLoop == parsing = "loop" /\ next <= Len(given)

\* Mutant: a second -p, -t or -d replaces the first.
BadOnceOnly ==
    \/ Letter = "p" /\ PortOf(Value) = 0
    \/ Letter = "t" /\ TimeoutOf(Value) = 0
    \/ Letter = "d" /\ ~Usable(Value)
    \/ Letter \in {"h", "?"}

\* The option ends the loop: a duplicate, a value that is an error, help, or
\* unknown.
Bad ==
    \/ Letter \in {"p", "t", "d"} \cap flags
    \/ Letter = "p" /\ PortOf(Value) = 0
    \/ Letter = "t" /\ TimeoutOf(Value) = 0
    \/ Letter = "d" /\ ~Usable(Value)
    \/ Letter \in {"h", "?"}

\* A turn of the loop that takes the option.
Take(field, v) ==
    /\ ~Bad
    /\ args' = [args EXCEPT ![field] = v]
    /\ flags' = flags \cup {Letter}
    /\ next' = next + 1
    /\ UNCHANGED <<given, parsing>>

SetPort ==
    /\ InLoop /\ Letter = "p"
    /\ Take("port", PortOf(Value))

SetTimeout ==
    /\ InLoop /\ Letter = "t"
    /\ Take("timeout", TimeoutOf(Value))

SetHome ==
    /\ InLoop /\ Letter = "d"
    /\ Take("home", Value)

PassOperand ==
    /\ InLoop /\ Letter = "operand"
    /\ flags' = flags \cup {Letter} /\ next' = next + 1
    /\ UNCHANGED <<given, parsing, args>>

Refuse ==
    /\ InLoop /\ Bad
    /\ parsing' = "refused"
    /\ args' = Defaults
    /\ UNCHANGED <<given, next, flags>>

\* Words that are left, or no home directory: NULL as well.
EndOfLoop ==
    /\ parsing = "loop" /\ next > Len(given)
    /\ IF "operand" \notin flags /\ args.home # NoHome
         THEN parsing' = "accepted" /\ args' = args
         ELSE parsing' = "refused" /\ args' = Defaults
    /\ UNCHANGED <<given, next, flags>>
-----------------------------------------------------------------------------
ArgsNext ==
    \/ Call
    \/ SetPort \/ SetTimeout \/ SetHome \/ PassOperand
    \/ Refuse \/ EndOfLoop

ArgsSpec == ArgsInit /\ [][ArgsNext]_argsVars
-----------------------------------------------------------------------------
(***************************************************************************)
(* Properties.                                                             *)
(***************************************************************************)

Given(letter) == {i \in DOMAIN given : given[i].letter = letter}

\* What the messages of args_parse ask for: every option once, the home
\* directory in any case, no other words, and values within the limits of
\* get_port, get_timeout and get_home_dir.
Proper ==
    /\ Given("h") = {} /\ Given("?") = {} /\ Given("operand") = {} /\ Given("d") # {}
    /\ \A i, j \in DOMAIN given : given[i].letter = given[j].letter => i = j
    /\ \A i \in Given("p") : given[i].value # NotANumber /\ given[i].value \in MIN_PORT..MAX_PORT
    /\ \A i \in Given("t") : given[i].value # NotANumber /\ given[i].value \in 1..MAX_TIMEOUT
    /\ \A i \in Given("d") : Usable(given[i].value)

\* A timeout that eight bits do not hold, though the limit may allow it.
Overlong == \E i \in Given("t") : given[i].value # NotANumber /\ given[i].value > 255

\* args_parse, whatever the order of the options: one that is missing, repeated,
\* unknown or out of its limits refuses the command line, with what was taken
\* before it; and what the server is started with is what was asked for.
\* Nothing is said of timeouts of 256 seconds and more, which get_timeout refuses
\* or cuts although its limit allows 300, nor of the timeout when none is given,
\* which is 60 seconds where print_usage says 10.
AcceptedAsGiven ==
    /\ parsing = "refused" => ~Proper \/ Overlong
    /\ parsing = "accepted" =>
         /\ Proper
         /\ IF Given("p") = {} THEN args.port = DEFAULT_PORT
            ELSE \A i \in Given("p") : args.port = given[i].value
         /\ \A i \in Given("t") : given[i].value <= 255 => args.timeout = given[i].value
         /\ \A i \in Given("d") : args.home = given[i].value
=============================================================================
