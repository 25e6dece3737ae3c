---------------------------- MODULE Calls_proofs ----------------------------
(***************************************************************************)
(* Proofs about Paths, Listing, Arguments and Hashing.                     *)
(***************************************************************************)
EXTENDS Paths, Listing, Arguments, Hashing, SequenceTheorems, WellFoundedInduction,
        NaturalsInduction, TLAPS

(***************************************************************************)
(* Induction over numbers and over sequences, for sets in place of         *)
(* operators.                                                              *)
(***************************************************************************)
LEMMA Induct ==
    ASSUME NEW S, 0 \in S, \A n \in Nat : n \in S => n + 1 \in S
    PROVE  Nat \subseteq S
<1>1. SUFFICES ASSUME Nat \ S # {} PROVE FALSE
  OBVIOUS
<1>2. PICK m \in Nat \ S : \A k \in Nat \ S : ~(<<k, m>> \in OpToRel(<, Nat))
  BY <1>1, WFMin, NatLessThanWellFounded
<1>3. m # 0 /\ m - 1 \in Nat /\ m - 1 < m
  OBVIOUS
<1>4. m - 1 \in S
  BY <1>2, <1>3 DEF OpToRel
<1> QED
  BY <1>3, <1>4

LEMMA SeqInduct ==
    ASSUME NEW S, NEW T, <<>> \in T,
           \A s \in Seq(S) : \A x \in S : s \in T => Append(s, x) \in T
    PROVE  Seq(S) \subseteq T
<1> DEFINE U == {n \in Nat : \A s \in Seq(S) : Len(s) = n => s \in T}
<1>1. 0 \in U
  <2>1. \A s \in Seq(S) : Len(s) = 0 => s = <<>>
    BY EmptySeq
  <2> QED
    BY <2>1
<1>2. ASSUME NEW n \in Nat, n \in U PROVE n + 1 \in U
  <2>1. ASSUME NEW s \in Seq(S), Len(s) = n + 1 PROVE s \in T
    <3>1. s # <<>>
      BY <2>1, EmptySeq
    <3>2. PICK r \in Seq(S), x \in S : s = Append(r, x)
      BY <3>1, SequenceEmptyOrAppend
    <3>3. Len(s) = Len(r) + 1 /\ Len(r) \in Nat
      BY <3>2, AppendProperties, LenProperties
    <3>4. r \in T
      BY <1>2, <2>1, <3>3
    <3> QED
      BY <3>2, <3>4
  <2> QED
    BY <2>1
<1>3. Nat \subseteq U
  <2> HIDE DEF U
  <2> QED
    BY <1>1, <1>2, Induct
<1>4. ASSUME NEW s \in Seq(S) PROVE s \in T
  <2>1. Len(s) \in U
    BY <1>3, LenProperties
  <2> QED
    BY <2>1
<1> QED
  BY <1>4

LEMMA FrontOfAppend ==
    ASSUME NEW S, NEW s \in Seq(S), NEW x \in S
    PROVE  /\ Append(s, x) \in Seq(S) /\ Append(s, x) # <<>>
           /\ Front(Append(s, x)) = s /\ Last(Append(s, x)) = x
<1> DEFINE r == Append(s, x)
<1>1. /\ r \in Seq(S) /\ Len(r) = Len(s) + 1 /\ Len(s) \in Nat
      /\ r[Len(s) + 1] = x /\ \A k \in 1..Len(s) : r[k] = s[k]
  BY AppendProperties, LenProperties
<1> HIDE DEF r
<1>2. Front(r) \in Seq(S) /\ Len(Front(r)) = Len(s) /\ \A k \in 1..Len(s) : Front(r)[k] = s[k]
  <2>1. 1 \in 1..Len(r) + 1 /\ Len(s) \in 0..Len(r)
    BY <1>1
  <2> QED
    BY <1>1, <2>1, SubSeqProperties DEF Front
<1>3. Front(r) = s
  BY <1>2, SeqEqual
<1> QED
  BY <1>1, <1>3, EmptySeq DEF Last, r
-----------------------------------------------------------------------------

(***************************************************************************)
(* Listing: while lines are added the text is shorter than its buffer, and *)
(* the buffer is never smaller than at first.                              *)
(***************************************************************************)
ListInv ==
    /\ lst = "reading" => /\ offset \in Nat /\ size \in Nat
                          /\ size >= BUFF_SIZE /\ offset < size
    /\ excess \in Int /\ excess <= MaxDigits + 1

\* A line's length, and the digits it is counted with.
LEMMA LineLength ==
    ASSUME NEW e \in Entries, NEW there \in BOOLEAN
    PROVE  /\ e.len \in Nat /\ e.len <= MaxName
           /\ Digits(SizeOf(e, there)) \in 1..MaxDigits
           /\ ~there => Digits(SizeOf(e, there)) = 1
           /\ NumLen(there) = IF there THEN 1 ELSE 0
  BY ListingAssumption DEF SizeOf, NumLen

LEMMA ListInvHolds == ListSpec => []ListInv
<1>1. ListInit => ListInv
  BY ListingAssumption DEF ListInit, ListInv
<1>2. ListInv /\ [ListNext]_listVars => ListInv'
  <2> SUFFICES ASSUME ListInv, [ListNext]_listVars PROVE ListInv'
    OBVIOUS
  <2>1. ASSUME NEW e \in Entries, NEW there \in BOOLEAN, AddLine(e, there) PROVE ListInv'
    <3>1. Room(e, there) \in {size, size * 2}
      BY DEF Room, Grown
    <3>2. Length(e, SizeOf(e, there)) \in Nat
      BY LineLength, ListingAssumption DEF Length
    <3> QED
      BY <2>1, <3>1, <3>2, ListingAssumption DEF AddLine, ListInv
  <2>2. ASSUME NEW e \in Entries, NEW there \in BOOLEAN, Overrun(e, there) PROVE ListInv'
    <3> DEFINE s == SizeOf(e, there)
    <3>1. /\ lst' = "aborted"
          /\ excess' = offset + (e.len + Digits(s) + 6) + 1 - Room(e, there)
      BY <2>2 DEF Overrun, Length
    <3>2. offset \in Nat /\ size \in Nat /\ size >= BUFF_SIZE /\ offset < size
      BY <2>2 DEF Overrun, ListInv
    <3>3. CASE e.len + offset + NumLen(there) + 4 >= size
      <4>1. Room(e, there) = size * 2
        BY <3>3 DEF Room, Grown
      <4> HIDE DEF s
      <4>2. Digits(s) \in 1..MaxDigits /\ e.len \in Nat /\ e.len <= MaxName
        BY LineLength DEF s
      <4>3. /\ MaxName \in Nat /\ MaxDigits \in Nat
            /\ BUFF_SIZE \in Nat /\ BUFF_SIZE >= MaxName + MaxDigits + 6
        BY ListingAssumption
      <4>4. excess' \in Int /\ excess' <= 1
        BY <3>1, <3>2, <4>1, <4>2, <4>3
      <4> QED
        BY <3>1, <4>3, <4>4 DEF ListInv
    <3>4. CASE ~(e.len + offset + NumLen(there) + 4 >= size)
      <4>1. Room(e, there) = size
        BY <3>4 DEF Room
      <4> HIDE DEF s
      <4>2. Digits(s) \in 1..MaxDigits /\ (~there => Digits(s) = 1)
        BY LineLength DEF s
      <4>3. e.len \in Nat /\ MaxDigits \in Nat /\ MaxDigits > 1
        BY LineLength, ListingAssumption
      <4>4. CASE there
        <5>1. NumLen(there) = 1
          BY <4>4 DEF NumLen
        <5>2. e.len + offset + 5 < size
          BY <3>2, <3>4, <4>3, <5>1
        <5>3. excess' \in Int /\ excess' <= MaxDigits + 1
          BY <3>1, <3>2, <4>1, <4>2, <4>3, <5>2
        <5> QED
          BY <3>1, <5>3 DEF ListInv
      <4>5. CASE ~there
        <5>1. NumLen(there) = 0
          BY <4>5 DEF NumLen
        <5>2. e.len + offset + 4 < size
          BY <3>2, <3>4, <4>3, <5>1
        <5>3. excess' \in Int /\ excess' <= MaxDigits + 1
          BY <3>1, <3>2, <4>1, <4>2, <4>3, <4>5, <5>2
        <5> QED
          BY <3>1, <5>3 DEF ListInv
      <4> QED
        BY <4>4, <4>5
    <3> QED
      BY <3>3, <3>4
  <2>3. CASE EndOfDir
    BY <2>3 DEF EndOfDir, ListInv
  <2>4. CASE Show
    BY <2>4 DEF Show, ListInv
  <2>5. CASE UNCHANGED listVars
    BY <2>5 DEF listVars, ListInv
  <2> QED
    BY <2>1, <2>2, <2>3, <2>4, <2>5 DEF ListNext
<1> QED
  BY <1>1, <1>2, PTL DEF ListSpec

(***************************************************************************)
(* A listing of any length in a buffer of any size never runs over it by   *)
(* more than OverrunsStayShort says.                                       *)
(***************************************************************************)
THEOREM OverrunsShort == ListSpec => []OverrunsStayShort
<1>1. ListInv => OverrunsStayShort
  BY DEF ListInv, OverrunsStayShort
<1> QED
  BY <1>1, ListInvHolds, PTL

(***************************************************************************)
(* Listing: what Cut makes of a text, token by token; a line more is one   *)
(* part more.                                                              *)
(***************************************************************************)

\* cut is str.split along the first n tokens of s.
IsCut(s, sep, n, cut) ==
    cut = [k \in 0..n |-> IF k = 0 THEN << <<>> >> ELSE Onward(cut[k - 1], s[k], sep)]

LEMMA CutExists ==
    ASSUME NEW s, NEW sep
    PROVE  \A n \in Nat : \E cut : IsCut(s, sep, n, cut)
<1> DEFINE P(n) == \E cut : IsCut(s, sep, n, cut)
           S == {n \in Nat : P(n)}
<1>1. P(0)
  <2> DEFINE f == [k \in 0..0 |-> << <<>> >>]
  <2>1. f = [k \in 0..0 |-> IF k = 0 THEN << <<>> >> ELSE Onward(f[k - 1], s[k], sep)]
    OBVIOUS
  <2> QED
    BY <2>1 DEF IsCut
<1>2. ASSUME NEW n \in Nat, P(n) PROVE P(n + 1)
  <2>1. PICK f : IsCut(s, sep, n, f)
    BY <1>2
  <2> DEFINE g == [k \in 0..n+1 |-> IF k \in 0..n THEN f[k] ELSE Onward(f[n], s[n + 1], sep)]
             h == [k \in 0..n+1 |-> IF k = 0 THEN << <<>> >> ELSE Onward(g[k - 1], s[k], sep)]
  <2>2. \A k \in 0..n : f[k] = IF k = 0 THEN << <<>> >> ELSE Onward(f[k - 1], s[k], sep)
    BY <2>1 DEF IsCut
  <2>3. \A k \in 0..n+1 : g[k] = h[k]
    <3> TAKE k \in 0..n+1
    <3>1. CASE k = 0
      BY <3>1, <2>2
    <3>2. CASE k \in 1..n
      <4>1. g[k] = f[k] /\ g[k - 1] = f[k - 1]
        BY <3>2
      <4> QED
        BY <3>2, <4>1, <2>2
    <3>3. CASE k = n + 1
      <4>1. g[k - 1] = f[n]
        BY <3>3
      <4>2. g[k] = Onward(f[n], s[n + 1], sep)
        BY <3>3
      <4> QED
        BY <3>3, <4>1, <4>2
    <3> QED
      BY <3>1, <3>2, <3>3
  <2>4. g = h
    BY <2>3
  <2> QED
    BY <2>4 DEF IsCut
<1> HIDE DEF P
<1>3. 0 \in S /\ \A n \in Nat : n \in S => n + 1 \in S
  BY <1>1, <1>2
<1>4. Nat \subseteq S
  BY <1>3, Induct
<1> QED
  BY <1>4 DEF P

\* So Cut is what its definition says, token by token.
LEMMA CutByTokens ==
    ASSUME NEW s, Len(s) \in Nat, NEW sep
    PROVE  \E f : /\ f[0] = << <<>> >>
                  /\ \A k \in 1..Len(s) : f[k] = Onward(f[k - 1], s[k], sep)
                  /\ Cut(s, sep) = f[Len(s)]
<1> DEFINE f == CHOOSE g : IsCut(s, sep, Len(s), g)
<1>1. Len(s) \in Nat
  OBVIOUS
<1>2. Cut(s, sep) = f[Len(s)]
  BY DEF Cut, IsCut
<1>3. \E g : IsCut(s, sep, Len(s), g)
  BY <1>1, CutExists
<1>4. IsCut(s, sep, Len(s), f)
  BY <1>3
<1> HIDE DEF f
<1>5. f[0] = << <<>> >>
  BY <1>1, <1>4 DEF IsCut
<1>6. ASSUME NEW k \in 1..Len(s)
      PROVE  f[k] = Onward(f[k - 1], s[k], sep)
  <2>1. k \in 0..Len(s) /\ k # 0
    BY <1>1
  <2> QED
    BY <1>4, <2>1 DEF IsCut
<1> QED
  BY <1>2, <1>5, <1>6

LEMMA CutNothing ==
    ASSUME NEW sep
    PROVE  Cut(<<>>, sep) = << <<>> >>
<1> DEFINE s == <<>>
<1>1. Len(s) = 0 /\ Len(s) \in Nat
  BY EmptySeq
<1> HIDE DEF s
<1>2. \E f : f[0] = << <<>> >> /\ Cut(s, sep) = f[Len(s)]
  BY <1>1, CutByTokens
<1> QED
  BY <1>1, <1>2 DEF s

LEMMA CutOn ==
    ASSUME NEW S, NEW s \in Seq(S), NEW x \in S, NEW sep
    PROVE  Cut(Append(s, x), sep) = Onward(Cut(s, sep), x, sep)
<1> DEFINE r == Append(s, x)
<1>1. /\ r \in Seq(S) /\ Len(r) = Len(s) + 1 /\ Len(s) \in Nat
      /\ r[Len(s) + 1] = x /\ Len(r) \in Nat /\ \A k \in 1..Len(s) : r[k] = s[k]
  BY AppendProperties, LenProperties
<1> HIDE DEF r
<1>2. PICK f : /\ f[0] = << <<>> >>
               /\ \A k \in 1..Len(s) : f[k] = Onward(f[k - 1], s[k], sep)
               /\ Cut(s, sep) = f[Len(s)]
  BY <1>1, CutByTokens
<1>3. PICK g : /\ g[0] = << <<>> >>
               /\ \A k \in 1..Len(r) : g[k] = Onward(g[k - 1], r[k], sep)
               /\ Cut(r, sep) = g[Len(r)]
  BY <1>1, CutByTokens
<1> DEFINE T == {k \in Nat : k <= Len(s) => f[k] = g[k]}
<1>4. 0 \in T
  BY <1>2, <1>3
<1>5. ASSUME NEW k \in Nat, k \in T PROVE k + 1 \in T
  <2> SUFFICES ASSUME k + 1 <= Len(s) PROVE f[k + 1] = g[k + 1]
    OBVIOUS
  <2>1. f[k] = g[k] /\ k + 1 \in 1..Len(s) /\ k + 1 \in 1..Len(r) /\ (k + 1) - 1 = k
    BY <1>1, <1>5
  <2> QED
    BY <1>1, <1>2, <1>3, <2>1
<1>6. Nat \subseteq T
  <2> HIDE DEF T
  <2> QED
    BY <1>4, <1>5, Induct
<1>7. f[Len(s)] = g[Len(s)]
  BY <1>1, <1>6
<1>8. g[Len(r)] = Onward(g[Len(s)], x, sep)
  <2>1. Len(r) \in 1..Len(r) /\ Len(r) - 1 = Len(s)
    BY <1>1
  <2> QED
    BY <1>1, <1>3, <2>1
<1> QED
  BY <1>2, <1>3, <1>7, <1>8 DEF r

\* There is always a last part.
LEMMA CutParts ==
    ASSUME NEW S, NEW sep
    PROVE  \A s \in Seq(S) : Cut(s, sep) \in Seq(Seq(S)) /\ Cut(s, sep) # <<>>
<1> DEFINE T == {s \in Seq(S) : Cut(s, sep) \in Seq(Seq(S)) /\ Cut(s, sep) # <<>>}
<1>1. <<>> \in T
  <2>1. <<>> \in Seq(S) /\ << <<>> >> \in Seq(Seq(S)) /\ << <<>> >> # <<>>
    BY EmptySeq
  <2> QED
    BY <2>1, CutNothing
<1>2. ASSUME NEW s \in Seq(S), NEW x \in S, s \in T PROVE Append(s, x) \in T
  <2> DEFINE c == Cut(s, sep)
  <2>1. Cut(Append(s, x), sep) = Onward(c, x, sep) /\ Append(s, x) \in Seq(S)
    BY CutOn, AppendProperties
  <2>2. c \in Seq(Seq(S)) /\ c # <<>>
    BY <1>2
  <2> HIDE DEF c
  <2>3. PICK d \in Seq(Seq(S)), l \in Seq(S) : c = Append(d, l)
    BY <2>2, SequenceEmptyOrAppend
  <2>4. Front(c) = d /\ Last(c) = l
    BY <2>3, FrontOfAppend
  <2>5. /\ <<>> \in Seq(S) /\ Append(l, x) \in Seq(S)
    BY EmptySeq, AppendProperties
  <2>6. Onward(c, x, sep) \in {Append(c, <<>>), Append(d, Append(l, x))}
    BY <2>4 DEF Onward
  <2>7. /\ Append(c, <<>>) \in Seq(Seq(S)) /\ Append(c, <<>>) # <<>>
        /\ Append(d, Append(l, x)) \in Seq(Seq(S)) /\ Append(d, Append(l, x)) # <<>>
    <3>1. ASSUME NEW a \in Seq(Seq(S)), NEW y \in Seq(S)
          PROVE  Append(a, y) \in Seq(Seq(S)) /\ Append(a, y) # <<>>
      BY FrontOfAppend
    <3> QED
      BY <2>2, <2>5, <3>1
  <2> QED
    BY <2>1, <2>6, <2>7
<1>3. Seq(S) \subseteq T
  <2> HIDE DEF T
  <2> QED
    BY <1>1, <1>2, SeqInduct
<1> QED
  BY <1>3

LEMMA AppendToConcat ==
    ASSUME NEW S, NEW s \in Seq(S), NEW v \in Seq(S), NEW x \in S
    PROVE  s \o Append(v, x) = Append(s \o v, x) /\ s \o v \in Seq(S)
<1> DEFINE e == <<x>>
           j == s \o v
<1>1. e \in Seq(S) /\ j \in Seq(S)
  BY ConcatProperties
<1>2. v \o e = Append(v, x) /\ j \o e = Append(j, x)
  BY <1>1, AppendIsConcat
<1>3. (s \o v) \o e = s \o (v \o e)
  BY <1>1, ConcatAssociative
<1> QED
  BY <1>1, <1>2, <1>3

\* Concatenation and texts, as terms the provers match on.
Joined(s, u) == s \o u
Texts(S) == Seq(Seq(S))

\* What has no separator stays in one part.
LEMMA CutPlain ==
    ASSUME NEW S, NEW sep, NEW s \in Seq(S), NEW d \in Texts(S), NEW l \in Seq(S), NEW u \in Seq(S),
           Cut(s, sep) = Append(d, l), \A i \in 1..Len(u) : u[i] # sep
    PROVE  Cut(Joined(s, u), sep) = Append(d, Joined(l, u))
<1> DEFINE T == {v \in Seq(S) : (\A i \in 1..Len(v) : v[i] # sep) =>
                    Cut(s \o v, sep) = Append(d, l \o v)}
<1>1. <<>> \in T
  BY EmptySeq, ConcatEmptySeq
<1>2. ASSUME NEW v \in Seq(S), NEW x \in S, v \in T PROVE Append(v, x) \in T
  <2>1. Append(v, x) \in Seq(S)
    BY AppendProperties
  <2>2. ASSUME \A i \in 1..Len(Append(v, x)) : Append(v, x)[i] # sep
        PROVE  Cut(s \o Append(v, x), sep) = Append(d, l \o Append(v, x))
    <3>1. /\ Len(Append(v, x)) = Len(v) + 1 /\ Len(v) \in Nat
          /\ Append(v, x)[Len(v) + 1] = x /\ \A i \in 1..Len(v) : Append(v, x)[i] = v[i]
      BY AppendProperties, LenProperties
    <3>2. x # sep /\ \A i \in 1..Len(v) : v[i] # sep
      BY <2>2, <3>1
    <3>3. Cut(s \o v, sep) = Append(d, l \o v)
      BY <1>2, <3>2
    <3>4. s \o v \in Seq(S) /\ l \o v \in Seq(S)
      BY AppendToConcat
    <3>5. /\ s \o Append(v, x) = Append(s \o v, x)
          /\ l \o Append(v, x) = Append(l \o v, x)
      <4>1. s \o Append(v, x) = Append(s \o v, x)
        BY AppendToConcat
      <4>2. l \o Append(v, x) = Append(l \o v, x)
        BY AppendToConcat
      <4> QED
        BY <4>1, <4>2
    <3>6. Cut(s \o Append(v, x), sep) = Onward(Append(d, l \o v), x, sep)
      BY <3>3, <3>4, <3>5, CutOn
    <3>7. Front(Append(d, l \o v)) = d /\ Last(Append(d, l \o v)) = l \o v
      <4>1. d \in Seq(Seq(S))
        BY DEF Texts
      <4> QED
        BY <3>4, <4>1, FrontOfAppend
    <3> QED
      BY <3>2, <3>5, <3>6, <3>7 DEF Onward
  <2> QED
    BY <2>1, <2>2
<1>3. Seq(S) \subseteq T
  <2> HIDE DEF T
  <2> QED
    BY <1>1, <1>2, SeqInduct
<1> QED
  BY <1>3 DEF Joined

\* A separator ends it.
LEMMA CutEnd ==
    ASSUME NEW S, NEW sep \in S, NEW s \in Seq(S)
    PROVE  Cut(Append(s, sep), sep) = Append(Cut(s, sep), <<>>)
  BY CutOn DEF Onward

\* The tokens of a listing, and what f_list_dir may list.
Tokens == (UNION {Range(e.name) : e \in Entries}) \cup Sizes \cup {"[F]", "[D]", ":", "\n"}
Items  == [type : {"F", "D"}, size : Sizes, name : Seq(Tokens)]

\* What a line says of l, without the line feed.
Body(l) == << Tag(l.type), ":", l.size, ":" >> \o l.name

\* What the lines say of all of them.
Bodies(ls) == [k \in 1..Len(ls) |-> Body(ls[k])]

\* ReadBack, with what it rests on: while the text is written its parts are the
\* lines and an empty one.
AllPlain == \A i \in DOMAIN listed : Plain(listed[i].name)

TextInv ==
    /\ listed \in Seq(Items) /\ text \in Seq(Tokens)
    /\ lst \in {"reading", "sent"} /\ AllPlain => Cut(text, "\n") = Append(Bodies(listed), <<>>)
    /\ lst \in {"shown", "failed"} /\ AllPlain => lst = "shown" /\ shown = ToBag(listed)

LEMMA TokenFacts ==
    /\ ":" \in Tokens /\ "\n" \in Tokens /\ ":" # "\n"
    /\ \A t : Tag(t) \in Tokens /\ Tag(t) # ":" /\ Tag(t) # "\n"
    /\ \A s \in Sizes : s \in Tokens /\ s # ":" /\ s # "\n"
    /\ Tag("F") = "[F]" /\ Tag("D") # "[F]"
<1>1. Sizes \cap {":", "\n"} = {}
  BY ListingAssumption
<1> QED
  BY <1>1 DEF Tokens, Tag

LEMMA BodyTokens ==
    ASSUME NEW l \in Items
    PROVE  /\ Body(l) \in Seq(Tokens) /\ Body(l) # <<>>
           /\ Plain(l.name) => \A i \in 1..Len(Body(l)) : Body(l)[i] # "\n"
<1> DEFINE h == << Tag(l.type), ":", l.size, ":" >>
           n == l.name
<1>1. l.size \in Sizes /\ n \in Seq(Tokens)
  BY DEF Items
<1>2. h \in Seq(Tokens) /\ Len(h) = 4 /\ \A i \in 1..4 : h[i] # "\n"
  BY <1>1, TokenFacts
<1>3. Body(l) = h \o n
  BY DEF Body
<1> HIDE DEF h, n
<1>4. /\ h \o n \in Seq(Tokens) /\ Len(h \o n) = 4 + Len(n) /\ Len(n) \in Nat
      /\ \A i \in 1..4 + Len(n) : (h \o n)[i] = IF i <= 4 THEN h[i] ELSE n[i - 4]
  <2>1. /\ h \o n \in Seq(Tokens) /\ Len(h \o n) = Len(h) + Len(n)
        /\ \A i \in 1..Len(h) + Len(n) : (h \o n)[i] = IF i <= Len(h) THEN h[i] ELSE n[i - Len(h)]
    BY <1>1, <1>2, ConcatProperties
  <2>2. Len(n) \in Nat
    BY <1>1, LenProperties
  <2> QED
    BY <1>2, <2>1, <2>2
<1>5. h \o n # <<>>
  BY <1>4, EmptySeq
<1>6. ASSUME Plain(l.name), NEW i \in 1..Len(h \o n) PROVE (h \o n)[i] # "\n"
  <2>1. \A j \in 1..Len(n) : n[j] # "\n"
    <3>1. DOMAIN n = 1..Len(n)
      BY <1>1, LenProperties
    <3> QED
      BY <1>6, <3>1 DEF Plain, n
  <2>2. CASE i <= 4
    BY <1>2, <1>4, <2>2
  <2>3. CASE i > 4
    <3>1. i - 4 \in 1..Len(n)
      BY <1>4, <2>3
    <3> QED
      BY <1>4, <2>1, <2>3, <3>1
  <2> QED
    BY <1>4, <2>2, <2>3
<1> QED
  BY <1>3, <1>4, <1>5, <1>6

LEMMA AppendTuples ==
    ASSUME NEW a, NEW b, NEW c, NEW d
    PROVE  /\ Append(<<>>, a) = <<a>> /\ Append(<<a>>, b) = <<a, b>>
           /\ Append(<<a, b>>, c) = <<a, b, c>> /\ Append(<<a, b, c>>, d) = <<a, b, c, d>>
<1> DEFINE S == {a, b, c, d}
           t1 == <<a>>
           t2 == <<a, b>>
           t3 == <<a, b, c>>
           t4 == <<a, b, c, d>>
<1>1. /\ t1 \in Seq(S) /\ Len(t1) = 1 /\ t1[1] = a
      /\ t2 \in Seq(S) /\ Len(t2) = 2 /\ t2[1] = a /\ t2[2] = b
      /\ t3 \in Seq(S) /\ Len(t3) = 3 /\ t3[1] = a /\ t3[2] = b /\ t3[3] = c
      /\ t4 \in Seq(S) /\ Len(t4) = 4 /\ t4[1] = a /\ t4[2] = b /\ t4[3] = c /\ t4[4] = d
  OBVIOUS
<1>2. a \in S /\ b \in S /\ c \in S /\ d \in S
  OBVIOUS
<1>3. Append(<<>>, a) = <<a>>
  OBVIOUS
<1> HIDE DEF S, t1, t2, t3, t4
<1>4. ASSUME NEW s \in Seq(S), NEW x \in S, NEW t \in Seq(S), Len(t) = Len(s) + 1,
             t[Len(s) + 1] = x, \A i \in 1..Len(s) : t[i] = s[i]
      PROVE  Append(s, x) = t
  <2> DEFINE r == Append(s, x)
  <2>1. /\ r \in Seq(S) /\ Len(r) = Len(s) + 1 /\ r[Len(s) + 1] = x /\ Len(s) \in Nat
        /\ \A i \in 1..Len(s) : r[i] = s[i]
    BY AppendProperties, LenProperties
  <2> HIDE DEF r
  <2>2. \A i \in 1..Len(r) : r[i] = t[i]
    BY <1>4, <2>1
  <2>3. r = t
    BY <1>4, <2>1, <2>2, SeqEqual
  <2> QED
    BY <2>3 DEF r
<1>5. Append(t1, b) = t2
  <2>1. /\ t1 \in Seq(S) /\ t2 \in Seq(S) /\ b \in S /\ Len(t2) = Len(t1) + 1
        /\ t2[Len(t1) + 1] = b /\ \A i \in 1..Len(t1) : t2[i] = t1[i]
    BY <1>1, <1>2
  <2> QED
    BY <1>4, <2>1
<1>6. Append(t2, c) = t3
  <2>1. /\ t2 \in Seq(S) /\ t3 \in Seq(S) /\ c \in S /\ Len(t3) = Len(t2) + 1
        /\ t3[Len(t2) + 1] = c /\ \A i \in 1..Len(t2) : t3[i] = t2[i]
    BY <1>1, <1>2
  <2> QED
    BY <1>4, <2>1
<1>7. Append(t3, d) = t4
  <2>1. /\ t3 \in Seq(S) /\ t4 \in Seq(S) /\ d \in S /\ Len(t4) = Len(t3) + 1
        /\ t4[Len(t3) + 1] = d /\ \A i \in 1..Len(t3) : t4[i] = t3[i]
    BY <1>1, <1>2
  <2> QED
    BY <1>4, <2>1
<1> QED
  BY <1>3, <1>5, <1>6, <1>7 DEF t1, t2, t3, t4

\* A line is three fields if its name is plain.
LEMMA BodyParsed ==
    ASSUME NEW l \in Items, Plain(l.name)
    PROVE  Parsed(Body(l)) = << <<Tag(l.type)>>, <<l.size>>, l.name >>
<1> DEFINE t == Tag(l.type)
           z == l.size
           n == l.name
           sep == ":"
           S == Tokens
           nil == <<>>
           text1 == <<t>>
           text2 == <<t, sep>>
           text3 == <<t, sep, z>>
           text4 == <<t, sep, z, sep>>
           tz == <<z>>
           parts0 == <<nil>>
           parts1 == <<text1>>
           parts2 == <<text1, nil>>
           parts3 == <<text1, tz>>
<1>1. /\ t \in S /\ t # sep /\ z \in S /\ z # sep /\ sep \in S /\ n \in Seq(S)
      /\ \A i \in 1..Len(n) : n[i] # sep
  <2>1. z \in Sizes /\ n \in Seq(S)
    BY DEF Items
  <2>2. DOMAIN n = 1..Len(n)
    BY <2>1, LenProperties
  <2> QED
    BY <2>1, <2>2, TokenFacts DEF Plain
<1>2. Body(l) = text4 \o n
  BY DEF Body
<1>3. /\ Append(nil, t) = text1 /\ Append(text1, sep) = text2
      /\ Append(text2, z) = text3 /\ Append(text3, sep) = text4
      /\ Append(nil, z) = tz
  BY AppendTuples
<1>4. /\ Append(nil, nil) = parts0 /\ Append(nil, text1) = parts1 /\ Append(parts1, nil) = parts2
      /\ Append(parts1, tz) = parts3 /\ Append(parts3, n) = <<text1, tz, n>>
  <2> HIDE DEF t, z, n, text1, tz
  <2>1. Append(nil, nil) = parts0 /\ Append(nil, text1) = parts1
    BY AppendTuples
  <2>2. Append(parts1, nil) = parts2
    BY AppendTuples
  <2>3. Append(parts1, tz) = parts3
    BY AppendTuples
  <2>4. Append(parts3, n) = <<text1, tz, n>>
    BY AppendTuples
  <2> QED
    BY <2>1, <2>2, <2>3, <2>4
<1>5. nil \in Seq(S) /\ nil \in Seq(Seq(S)) /\ Cut(nil, sep) = parts0 /\ nil \o n = n
  BY <1>1, EmptySeq, CutNothing, ConcatEmptySeq
<1> HIDE DEF t, z, n, sep, S, nil, text1, text2, text3, text4, tz, parts0, parts1, parts2, parts3
<1>6. /\ text1 \in Seq(S) /\ text2 \in Seq(S) /\ text3 \in Seq(S) /\ text4 \in Seq(S)
      /\ tz \in Seq(S)
  BY <1>1, <1>3, <1>5, AppendProperties
<1>7. parts1 \in Seq(Seq(S)) /\ parts3 \in Seq(Seq(S))
  BY <1>4, <1>5, <1>6, AppendProperties
<1>8. Cut(text1, sep) = parts1
  <2>1. Cut(text1, sep) = Onward(parts0, t, sep)
    BY <1>1, <1>3, <1>5, CutOn
  <2>2. Front(parts0) = nil /\ Last(parts0) = nil
    <3>1. \A a \in Seq(Seq(S)) : \A y \in Seq(S) :
              Front(Append(a, y)) = a /\ Last(Append(a, y)) = y
      BY FrontOfAppend
    <3> QED
      BY <1>4, <1>5, <3>1
  <2> QED
    BY <1>1, <1>3, <1>4, <2>1, <2>2 DEF Onward
<1>9. Cut(text2, sep) = parts2
  <2>1. Cut(text2, sep) = Onward(parts1, sep, sep)
    BY <1>1, <1>3, <1>6, <1>8, CutOn
  <2> QED
    BY <1>4, <2>1 DEF Onward, nil
<1>10. Cut(text3, sep) = parts3
  <2>1. Cut(text3, sep) = Onward(parts2, z, sep)
    BY <1>1, <1>3, <1>6, <1>9, CutOn
  <2>2. Front(parts2) = parts1 /\ Last(parts2) = nil
    <3>1. parts1 \in Seq(Seq(S)) /\ nil \in Seq(S)
      BY <1>5, <1>7
    <3>2. Front(Append(parts1, nil)) = parts1 /\ Last(Append(parts1, nil)) = nil
      BY <3>1, FrontOfAppend
    <3> QED
      BY <1>4, <3>2
  <2> QED
    BY <1>1, <1>3, <1>4, <2>1, <2>2 DEF Onward
<1>11. Cut(text4, sep) = Append(parts3, nil)
  <2>1. Cut(text4, sep) = Onward(parts3, sep, sep)
    BY <1>1, <1>3, <1>6, <1>10, CutOn
  <2> QED
    BY <2>1 DEF Onward, nil
<1>12. Cut(text4 \o n, sep) = Append(parts3, n)
  <2>1. parts3 \in Texts(S)
    BY <1>7 DEF Texts
  <2>2. Cut(Joined(text4, n), sep) = Append(parts3, Joined(nil, n))
    <3>1. /\ text4 \in Seq(S) /\ nil \in Seq(S) /\ n \in Seq(S)
          /\ Cut(text4, sep) = Append(parts3, nil) /\ \A i \in 1..Len(n) : n[i] # sep
      BY <1>1, <1>5, <1>6, <1>11
    <3> QED
      BY <2>1, <3>1, CutPlain
  <2>3. Joined(text4, n) = text4 \o n /\ Joined(nil, n) = n
    BY <1>5 DEF Joined
  <2> QED
    BY <2>2, <2>3
<1>13. Parsed(Body(l)) = Append(parts3, n)
  BY <1>2, <1>12 DEF Parsed, sep
<1> QED
  BY <1>4, <1>13 DEF text1, tz, t, z, n

\* The lines of ls, one after the other, are what Cut finds in it.
LEMMA BodiesOf ==
    ASSUME NEW ls \in Seq(Items), NEW l \in Items
    PROVE  /\ Bodies(ls) \in Seq(Seq(Tokens)) /\ Len(Bodies(ls)) = Len(ls)
           /\ Append(Bodies(ls), Body(l)) = Bodies(Append(ls, l))
<1>1. /\ Len(ls) \in Nat /\ Append(ls, l) \in Seq(Items) /\ Len(Append(ls, l)) = Len(ls) + 1
      /\ Append(ls, l)[Len(ls) + 1] = l /\ \A i \in 1..Len(ls) : Append(ls, l)[i] = ls[i]
      /\ \A i \in 1..Len(ls) : ls[i] \in Items
  BY AppendProperties, LenProperties, ElementOfSeq
<1>2. ASSUME NEW r \in Seq(Items)
      PROVE  /\ Bodies(r) \in Seq(Seq(Tokens)) /\ Len(Bodies(r)) = Len(r)
             /\ \A i \in 1..Len(r) : Bodies(r)[i] = Body(r[i])
  <2>1. Len(r) \in Nat /\ \A i \in 1..Len(r) : Body(r[i]) \in Seq(Tokens)
    BY LenProperties, ElementOfSeq, BodyTokens
  <2> DEFINE b == [i \in 1..Len(r) |-> Body(r[i])]
  <2>2. b \in Seq(Seq(Tokens)) /\ Len(b) = Len(r) /\ \A i \in 1..Len(r) : b[i] = Body(r[i])
    BY <2>1, IsASeq
  <2> QED
    BY <2>2 DEF Bodies
<1> DEFINE b == Bodies(ls)
           c == Bodies(Append(ls, l))
<1>3. /\ b \in Seq(Seq(Tokens)) /\ Len(b) = Len(ls) /\ \A i \in 1..Len(ls) : b[i] = Body(ls[i])
  BY <1>2
<1>4. /\ c \in Seq(Seq(Tokens)) /\ Len(c) = Len(ls) + 1
      /\ \A i \in 1..Len(ls) + 1 : c[i] = Body(Append(ls, l)[i])
  BY <1>1, <1>2
<1>5. Body(l) \in Seq(Tokens)
  BY BodyTokens
<1> HIDE DEF b, c
<1> DEFINE a == Append(b, Body(l))
<1>6. /\ a \in Seq(Seq(Tokens)) /\ Len(a) = Len(b) + 1
      /\ a[Len(b) + 1] = Body(l) /\ \A i \in 1..Len(b) : a[i] = b[i]
  BY <1>3, <1>5, AppendProperties
<1> HIDE DEF a
<1>7. \A i \in 1..Len(a) : a[i] = c[i]
  <2> TAKE i \in 1..Len(a)
  <2>1. CASE i = Len(ls) + 1
    BY <1>1, <1>3, <1>4, <1>6, <2>1
  <2>2. CASE i \in 1..Len(ls)
    BY <1>1, <1>3, <1>4, <1>6, <2>2
  <2> QED
    BY <1>1, <1>3, <1>6, <2>1, <2>2
<1>8. a = c
  BY <1>1, <1>3, <1>4, <1>6, <1>7, SeqEqual
<1> QED
  BY <1>3, <1>8 DEF a, b, c

LEMMA AddedText ==
    ASSUME NEW s \in Seq(Tokens), NEW l \in Items
    PROVE  /\ s \o (Body(l) \o <<"\n">>) = Append(s \o Body(l), "\n")
           /\ s \o Body(l) \in Seq(Tokens)
           /\ Append(s \o Body(l), "\n") \in Seq(Tokens)
<1> DEFINE b == Body(l)
           x == "\n"
<1>1. b \in Seq(Tokens) /\ x \in Tokens
  BY BodyTokens, TokenFacts
<1> HIDE DEF b, x
<1>2. b \o <<x>> = Append(b, x)
  BY <1>1, AppendIsConcat
<1>3. s \o Append(b, x) = Append(s \o b, x) /\ s \o b \in Seq(Tokens)
  BY <1>1, AppendToConcat
<1>4. Append(s \o b, x) \in Seq(Tokens)
  BY <1>1, <1>3, AppendProperties
<1> QED
  BY <1>2, <1>3, <1>4 DEF b, x

\* A line more is one part more, and the last part is empty again.
LEMMA CutOfLine ==
    ASSUME NEW s \in Seq(Tokens), NEW ls \in Seq(Items), NEW l \in Items, Plain(l.name),
           Cut(s, "\n") = Append(Bodies(ls), <<>>)
    PROVE  Cut(Append(s \o Body(l), "\n"), "\n") = Append(Bodies(Append(ls, l)), <<>>)
<1> DEFINE b == Body(l)
           x == "\n"
           d == Bodies(ls)
           nil == <<>>
           S == Tokens
           r == Joined(s, b)
<1>1. /\ b \in Seq(Tokens) /\ x \in Tokens /\ nil \in Seq(Tokens) /\ d \in Texts(Tokens)
      /\ \A i \in 1..Len(b) : b[i] # x
  BY BodyTokens, TokenFacts, BodiesOf DEF Texts
<1>2. Cut(s, x) = Append(d, nil)
  OBVIOUS
<1>3. Append(d, b) = Bodies(Append(ls, l))
  BY BodiesOf
<1>4. r = s \o b /\ r \in Seq(Tokens)
  BY AddedText DEF Joined
<1>5. Joined(nil, b) = b
  BY <1>1, ConcatEmptySeq DEF Joined
<1> HIDE DEF b, x, d, nil, S
<1>6. Cut(Joined(s, b), x) = Append(d, Joined(nil, b))
  <2>1. /\ s \in Seq(S) /\ d \in Texts(S) /\ nil \in Seq(S) /\ b \in Seq(S)
        /\ \A i \in 1..Len(b) : b[i] # x
    BY <1>1 DEF S
  <2> QED
    BY <1>2, <2>1, CutPlain
<1> HIDE DEF r
<1>7. Cut(r, x) = Append(d, b)
  BY <1>5, <1>6 DEF r
<1>8. Cut(Append(r, x), x) = Append(Cut(r, x), nil)
  BY <1>1, <1>4, CutEnd DEF nil
<1> QED
  BY <1>3, <1>4, <1>7, <1>8 DEF b, x, d, nil

\* The lines of a text that ends with a line feed, and has no empty line before.
LEMMA LinesOf ==
    ASSUME NEW s, NEW ls \in Seq(Items), Cut(s, "\n") = Append(Bodies(ls), <<>>)
    PROVE  Lines(s) = Bodies(ls)
<1> DEFINE d == Bodies(ls)
           n == Len(ls)
           nil == <<>>
           all == Append(d, nil)
           full == {k \in 0..Len(all) : \A i \in 1..k : all[i] # nil}
<1>1. /\ d \in Seq(Seq(Tokens)) /\ Len(d) = n /\ n \in Nat
      /\ \A i \in 1..n : d[i] # nil
  <2>1. d \in Seq(Seq(Tokens)) /\ Len(d) = n /\ n \in Nat
    <3>1. CASE Items # {}
      BY <3>1, BodiesOf, LenProperties
    <3>2. CASE Items = {}
      <4>1. ls = <<>> /\ Len(ls) = 0
        BY <3>2, EmptySeq, LenProperties, ElementOfSeq
      <4>2. d = <<>>
        BY <4>1 DEF Bodies
      <4> QED
        BY <4>1, <4>2, EmptySeq
    <3> QED
      BY <3>1, <3>2
  <2>2. ASSUME NEW i \in 1..n PROVE d[i] # nil
    <3>1. d[i] = Body(ls[i]) /\ ls[i] \in Items
      BY <2>2, ElementOfSeq DEF Bodies
    <3> QED
      BY <3>1, BodyTokens
  <2> QED
    BY <2>1, <2>2
<1>2. nil \in Seq(Tokens)
  BY EmptySeq
<1>3. Lines(s) = SubSeq(all, 1, Max(full))
  BY DEF Lines
<1> HIDE DEF d, nil, n
<1>4. /\ all \in Seq(Seq(Tokens)) /\ Len(all) = n + 1 /\ all[n + 1] = nil
      /\ \A i \in 1..n : all[i] = d[i]
  BY <1>1, <1>2, AppendProperties
<1> HIDE DEF all
<1>5. full = 0..n
  <2>1. ASSUME NEW k \in 0..n PROVE k \in full
    <3>1. k \in 0..Len(all) /\ \A i \in 1..k : i \in 1..n
      BY <1>1, <1>4
    <3>2. \A i \in 1..k : all[i] # nil
      BY <1>1, <1>4, <3>1
    <3> QED
      BY <3>1, <3>2
  <2>2. ASSUME NEW k \in full PROVE k \in 0..n
    <3>1. k \in 0..n+1 /\ \A i \in 1..k : all[i] # nil
      BY <1>4, <2>2
    <3>2. k # n + 1
      BY <1>1, <1>4, <3>1
    <3> QED
      BY <1>1, <3>1, <3>2
  <2> QED
    BY <2>1, <2>2
<1>6. Max(full) = n
  <2>1. n \in 0..n /\ \A y \in 0..n : n >= y
    BY <1>1
  <2>2. Max(0..n) \in 0..n /\ \A y \in 0..n : Max(0..n) >= y
    BY <2>1 DEF Max
  <2>3. Max(0..n) = n
    BY <1>1, <2>1, <2>2
  <2> QED
    BY <1>5, <2>3
<1> HIDE DEF full
<1>7. SubSeq(all, 1, n) = d
  <2> DEFINE r == SubSeq(all, 1, n)
  <2>1. 1 \in 1..Len(all) + 1 /\ n \in 0..Len(all) /\ Len(all) \in Nat
    BY <1>1, <1>4
  <2>2. r \in Seq(Seq(Tokens)) /\ Len(r) = n /\ \A i \in 1..n : r[i] = all[i]
    BY <1>1, <1>4, <2>1, SubSeqProperties
  <2> HIDE DEF r
  <2>3. /\ r \in Seq(Seq(Tokens)) /\ d \in Seq(Seq(Tokens)) /\ Len(r) = Len(d)
        /\ \A i \in 1..Len(r) : r[i] = d[i]
    BY <1>1, <1>4, <2>2
  <2>4. r = d
    BY <2>3, SeqEqual
  <2> QED
    BY <2>4 DEF r
<1> QED
  BY <1>3, <1>6, <1>7 DEF d

\* What the client makes of the lines is what they were made of.
LEMMA ShownOf ==
    ASSUME NEW ls \in Seq(Items), \A i \in DOMAIN ls : Plain(ls[i].name)
    PROVE  /\ \A i \in DOMAIN Bodies(ls) : WellFormed(Bodies(ls)[i])
           /\ [i \in DOMAIN Bodies(ls) |->
                 [type |-> IF Parsed(Bodies(ls)[i])[1] = <<"[F]">> THEN "F" ELSE "D",
                  size |-> Parsed(Bodies(ls)[i])[2][1],
                  name |-> Parsed(Bodies(ls)[i])[3]]] = ls
<1>1. DOMAIN ls = 1..Len(ls) /\ DOMAIN Bodies(ls) = 1..Len(ls)
  BY LenProperties DEF Bodies
<1>2. ASSUME NEW i \in 1..Len(ls)
      PROVE  /\ WellFormed(Bodies(ls)[i])
             /\ [type |-> IF Parsed(Bodies(ls)[i])[1] = <<"[F]">> THEN "F" ELSE "D",
                 size |-> Parsed(Bodies(ls)[i])[2][1],
                 name |-> Parsed(Bodies(ls)[i])[3]] = ls[i]
  <2> DEFINE l == ls[i]
             tt == <<Tag(l.type)>>
             zz == <<l.size>>
  <2>1. l \in Items /\ Plain(l.name) /\ Bodies(ls)[i] = Body(l)
    BY <1>1, <1>2, ElementOfSeq DEF Bodies
  <2> HIDE DEF l
  <2>2. Parsed(Body(l)) = << tt, zz, l.name >>
    BY <2>1, BodyParsed
  <2>3. tt[1] = Tag(l.type) /\ zz[1] = l.size
    OBVIOUS
  <2>4. (tt = <<"[F]">>) <=> Tag(l.type) = "[F]"
    OBVIOUS
  <2>5. l.type \in {"F", "D"} /\ l.size \in Sizes
        /\ l = [type |-> l.type, size |-> l.size, name |-> l.name]
    BY <2>1 DEF Items
  <2>6. \E s \in Sizes : zz = <<s>>
    BY <2>5
  <2> HIDE DEF tt, zz
  <2>7. WellFormed(Body(l))
    BY <2>2, <2>6 DEF WellFormed
  <2>8. (IF Parsed(Body(l))[1] = <<"[F]">> THEN "F" ELSE "D") = l.type
    BY <2>2, <2>4, <2>5, TokenFacts
  <2>9. Parsed(Body(l))[2][1] = l.size /\ Parsed(Body(l))[3] = l.name
    BY <2>2, <2>3
  <2> QED
    BY <2>1, <2>5, <2>7, <2>8, <2>9 DEF l
<1>3. ls = [i \in 1..Len(ls) |-> ls[i]]
  BY <1>1, LenProperties
<1> QED
  BY <1>1, <1>2, <1>3

\* What f_list_dir prints of an entry.
LEMMA ItemOf ==
    ASSUME NEW e \in Entries, NEW s \in Sizes, Visible(e)
    PROVE  LET l == [type |-> e.type, size |-> s, name |-> e.name]
           IN  l \in Items /\ Line(e, s) = Body(l) \o <<"\n">>
<1> DEFINE l == [type |-> e.type, size |-> s, name |-> e.name]
           R == Range(e.name)
           n == e.name
<1>1. n \in Seq(R) /\ R \subseteq Tokens
  <2>1. n \in Seq(R)
    BY ListingAssumption
  <2>2. R \in {Range(f.name) : f \in Entries}
    OBVIOUS
  <2> QED
    BY <2>1, <2>2 DEF Tokens
<1>2. n \in Seq(Tokens)
  <2> HIDE DEF n, R
  <2>1. Len(n) \in Nat /\ n = [i \in 1..Len(n) |-> n[i]] /\ \A i \in 1..Len(n) : n[i] \in R
    BY <1>1, LenProperties, ElementOfSeq
  <2>2. \A i \in 1..Len(n) : n[i] \in Tokens
    BY <1>1, <2>1
  <2> QED
    BY <2>1, <2>2, SeqDef
<1>3. l \in Items
  BY <1>2 DEF Items, Visible
<1>4. Line(e, s) = Body(l) \o <<"\n">>
  BY DEF Line, Body
<1> QED
  BY <1>3, <1>4

\* By induction over the lines: f_list_dir adds one, _parse_dir finds them all.
LEMMA TextIsKept == ListSpec => []TextInv
<1>1. ListInit => TextInv
  <2> SUFFICES ASSUME ListInit PROVE TextInv
    OBVIOUS
  <2>1. listed \in Seq(Items) /\ text \in Seq(Tokens)
    BY EmptySeq DEF ListInit
  <2>2. Bodies(<<>>) = <<>> /\ Append(<<>>, <<>>) = << <<>> >>
    BY AppendTuples DEF Bodies
  <2>3. Cut(text, "\n") = Append(Bodies(listed), <<>>)
    BY <2>2, CutNothing DEF ListInit
  <2> QED
    BY <2>1, <2>3 DEF TextInv, ListInit
<1>2. TextInv /\ [ListNext]_listVars => TextInv'
  <2> SUFFICES ASSUME TextInv, [ListNext]_listVars PROVE TextInv'
    OBVIOUS
  <2> USE DEF TextInv
  <2>1. ASSUME NEW e \in Entries, NEW there \in BOOLEAN, AddLine(e, there) PROVE TextInv'
    <3> DEFINE s == SizeOf(e, there)
               l == [type |-> e.type, size |-> s, name |-> e.name]
    <3>1. /\ lst = "reading" /\ lst' = lst /\ Visible(e)
          /\ text' = text \o Line(e, s) /\ listed' = Append(listed, l)
      BY <2>1 DEF AddLine
    <3>2. s \in Sizes
      BY DEF SizeOf, Sizes
    <3> HIDE DEF s
    <3>3. l \in Items /\ Line(e, s) = Body(l) \o <<"\n">>
      BY <3>1, <3>2, ItemOf
    <3> HIDE DEF l
    <3>4. text' = Append(text \o Body(l), "\n") /\ text' \in Seq(Tokens)
      BY <3>1, <3>3, AddedText
    <3>5. /\ listed' \in Seq(Items) /\ Len(listed') = Len(listed) + 1 /\ Len(listed) \in Nat
          /\ listed'[Len(listed) + 1] = l /\ \A i \in 1..Len(listed) : listed'[i] = listed[i]
      BY <3>1, <3>3, AppendProperties, LenProperties
    <3>6. ASSUME AllPlain'
          PROVE  Cut(text', "\n") = Append(Bodies(listed'), <<>>)
      <4>1. DOMAIN listed' = 1..Len(listed) + 1 /\ DOMAIN listed = 1..Len(listed)
        BY <3>5, LenProperties
      <4>2. AllPlain /\ Plain(l.name)
        BY <3>5, <3>6, <4>1 DEF AllPlain
      <4>3. Cut(text, "\n") = Append(Bodies(listed), <<>>)
        BY <3>1, <4>2
      <4> QED
        BY <3>1, <3>3, <3>4, <4>2, <4>3, CutOfLine
    <3> QED
      BY <3>1, <3>4, <3>5, <3>6
  <2>2. ASSUME NEW e \in Entries, NEW there \in BOOLEAN, Overrun(e, there) PROVE TextInv'
    BY <2>2 DEF Overrun, AllPlain
  <2>3. CASE EndOfDir
    BY <2>3 DEF EndOfDir, AllPlain
  <2>4. CASE Show
    <3>1. lst = "sent" /\ listed' = listed /\ text' = text /\ lst' \in {"shown", "failed"}
      BY <2>4 DEF Show
    <3>2. ASSUME AllPlain'
          PROVE  lst' = "shown" /\ shown' = ToBag(listed)
      <4>1. \A i \in DOMAIN listed : Plain(listed[i].name)
        BY <3>1, <3>2 DEF AllPlain
      <4>2. Cut(text, "\n") = Append(Bodies(listed), <<>>)
        BY <3>1, <4>1 DEF AllPlain
      <4>3. Lines(text) = Bodies(listed)
        BY <4>2, LinesOf
      <4> DEFINE B == Bodies(listed)
      <4>4. /\ \A i \in DOMAIN B : WellFormed(B[i])
            /\ [i \in DOMAIN B |->
                 [type |-> IF Parsed(B[i])[1] = <<"[F]">> THEN "F" ELSE "D",
                  size |-> Parsed(B[i])[2][1],
                  name |-> Parsed(B[i])[3]]] = listed
        BY <4>1, ShownOf
      <4> HIDE DEF B
      <4> QED
        BY <2>4, <4>3, <4>4 DEF Show, B
    <3> QED
      BY <3>1, <3>2
  <2>5. CASE UNCHANGED listVars
    BY <2>5 DEF listVars, AllPlain
  <2> QED
    BY <2>1, <2>2, <2>3, <2>4, <2>5 DEF ListNext
<1> QED
  BY <1>1, <1>2, PTL DEF ListSpec

(***************************************************************************)
(* Names without a separator, of any length and in any number, are shown   *)
(* as they were listed, with their types and sizes.                        *)
(***************************************************************************)
THEOREM ReadsBack == ListSpec => []ReadBack
<1>1. TextInv => ReadBack
  BY DEF TextInv, ReadBack, AllPlain
<1> QED
  BY <1>1, TextIsKept, PTL
-----------------------------------------------------------------------------
(***************************************************************************)
(* Hashing: what is printed shows the bytes before idx, and what is        *)
(* scanned is the bytes before str_idx.                                    *)
(***************************************************************************)
Printed(n) ==
    /\ pw_hash \in Seq(0..15) /\ Len(pw_hash) = 2 * n
    /\ \A k \in 1..n : /\ pw_hash[2 * k - 1] = digest[k] \div 16
                       /\ pw_hash[2 * k] = digest[k] % 16

Reloaded(n) ==
    /\ bytes \in Seq(0..255) /\ Len(bytes) = n
    /\ \A k \in 1..n : bytes[k] = digest[k]

HashInv ==
    /\ hashing \in {"rest", "print", "scan", "done"}
    /\ hashing = "rest" => idx = 0 /\ str_idx = 0 /\ pw_hash = <<>> /\ bytes = <<>>
    /\ hashing # "rest" => digest \in Digests
    /\ hashing = "print" => /\ idx \in 0..Len(digest) /\ Printed(idx)
                            /\ str_idx = 0 /\ bytes = <<>>
    /\ hashing = "scan" => /\ Printed(Len(digest))
                           /\ \E n \in 0..Len(digest) : str_idx = 2 * n /\ Reloaded(n)
    /\ hashing = "done" => Reloaded(Len(digest))

\* A digest is a sequence of bytes, and not empty.
LEMMA DigestBytes ==
    ASSUME NEW d \in Digests
    PROVE  /\ d \in Seq(0..255) /\ Len(d) \in Nat /\ Len(d) > 0
           /\ \A k \in 1..Len(d) : d[k] \in 0..255
<1>1. d \in Seq(0..255) /\ d # <<>>
  BY HashingAssumption
<1>2. Len(d) \in Nat /\ Len(d) > 0
  BY <1>1, EmptySeq
<1>3. \A k \in 1..Len(d) : d[k] \in 0..255
  BY <1>1, ElementOfSeq
<1> QED
  BY <1>1, <1>2, <1>3

\* The two digits of a byte are its own.
LEMMA HexDigits ==
    ASSUME NEW b \in 0..255
    PROVE  /\ b \div 16 \in 0..15 /\ b % 16 \in 0..15
           /\ 16 * (b \div 16) + (b % 16) = b
  OBVIOUS

LEMMA PrintBytePrints ==
    ASSUME digest \in Digests, hashing = "print", idx \in 0..Len(digest), Printed(idx), PrintByte
    PROVE  idx' \in 0..Len(digest) /\ Printed(idx)'
<1>1. /\ idx \in Nat /\ idx < Len(digest) /\ idx' = idx + 1 /\ digest' = digest
      /\ digest \in Seq(0..255) /\ Len(digest) \in Nat
  BY DigestBytes DEF PrintByte
<1> DEFINE b == digest[idx + 1]
           high == b \div 16
           low == b % 16
<1>2. b \in 0..255
  <2>1. idx + 1 \in 1..Len(digest)
    BY <1>1
  <2> QED
    BY <2>1, DigestBytes
<1>3. high \in 0..15 /\ low \in 0..15
  BY <1>2, HexDigits
<1>4. pw_hash' = pw_hash \o <<high, low>>
  BY DEF PrintByte, Hex
<1>5. pw_hash \in Seq(0..15) /\ Len(pw_hash) = 2 * idx
  BY DEF Printed
<1> HIDE DEF high, low
<1>6. /\ pw_hash' \in Seq(0..15) /\ Len(pw_hash') = 2 * idx + 2
      /\ \A j \in 1..2 * idx : pw_hash'[j] = pw_hash[j]
      /\ pw_hash'[2 * idx + 1] = high /\ pw_hash'[2 * idx + 2] = low
  <2>1. /\ <<high, low>> \in Seq(0..15) /\ Len(<<high, low>>) = 2
        /\ <<high, low>>[1] = high /\ <<high, low>>[2] = low
    BY <1>3
  <2> DEFINE two == <<high, low>>
  <2> HIDE DEF two
  <2>2. /\ pw_hash \o two \in Seq(0..15) /\ Len(pw_hash \o two) = 2 * idx + 2
        /\ \A j \in 1..2 * idx + 2 : (pw_hash \o two)[j] =
             IF j <= 2 * idx THEN pw_hash[j] ELSE two[j - 2 * idx]
    <3>1. two \in Seq(0..15) /\ Len(two) = 2
      BY <2>1 DEF two
    <3>2. /\ pw_hash \o two \in Seq(0..15)
          /\ Len(pw_hash \o two) = Len(pw_hash) + Len(two)
          /\ \A j \in 1..(Len(pw_hash) + Len(two)) : (pw_hash \o two)[j] =
               IF j <= Len(pw_hash) THEN pw_hash[j] ELSE two[j - Len(pw_hash)]
      BY <1>5, <3>1, ConcatProperties
    <3> QED
      BY <1>5, <3>1, <3>2
  <2>3. pw_hash' = pw_hash \o two /\ two[1] = high /\ two[2] = low
    BY <1>4, <2>1 DEF two
  <2>4. /\ 2 * idx + 1 \in 1..2 * idx + 2 /\ ~(2 * idx + 1 <= 2 * idx)
        /\ (2 * idx + 1) - 2 * idx = 1
        /\ 2 * idx + 2 \in 1..2 * idx + 2 /\ ~(2 * idx + 2 <= 2 * idx)
        /\ (2 * idx + 2) - 2 * idx = 2
    BY <1>1
  <2>5. pw_hash'[2 * idx + 1] = high /\ pw_hash'[2 * idx + 2] = low
    BY <2>2, <2>3, <2>4
  <2>6. \A j \in 1..2 * idx : pw_hash'[j] = pw_hash[j]
    BY <1>1, <2>2, <2>3
  <2> QED
    BY <2>2, <2>3, <2>5, <2>6
<1>7. ASSUME NEW k \in 1..idx + 1
      PROVE  pw_hash'[2 * k - 1] = digest[k] \div 16 /\ pw_hash'[2 * k] = digest[k] % 16
  <2>1. CASE k = idx + 1
    <3>1. 2 * k - 1 = 2 * idx + 1 /\ 2 * k = 2 * idx + 2
      BY <1>1, <2>1
    <3> QED
      BY <1>6, <2>1, <3>1 DEF high, low
  <2>2. CASE k # idx + 1
    <3>1. k \in 1..idx /\ 2 * k - 1 \in 1..2 * idx /\ 2 * k \in 1..2 * idx
      BY <1>1, <2>2
    <3> QED
      BY <1>6, <3>1 DEF Printed
  <2> QED
    BY <2>1, <2>2
<1>8. Len(pw_hash') = 2 * idx'
  BY <1>1, <1>6
<1> QED
  BY <1>1, <1>6, <1>7, <1>8 DEF Printed

LEMMA ScanByteScans ==
    ASSUME digest \in Digests, hashing = "scan", Printed(Len(digest)),
           NEW n \in 0..Len(digest), str_idx = 2 * n, Reloaded(n), ScanByte
    PROVE  n + 1 \in 0..Len(digest) /\ str_idx' = 2 * (n + 1) /\ Reloaded(n + 1)'
<1>1. /\ digest \in Seq(0..255) /\ Len(digest) \in Nat /\ n \in Nat
      /\ digest' = digest /\ str_idx' = str_idx + 2
  BY DigestBytes DEF ScanByte
<1>2. n < Len(digest)
  BY <1>1 DEF ScanByte, Printed
<1>3. digest[n + 1] \in 0..255
  <2>1. n + 1 \in 1..Len(digest)
    BY <1>1, <1>2
  <2> QED
    BY <2>1, DigestBytes
<1>4. Scanned(pw_hash, str_idx) = digest[n + 1]
  <2>1. n + 1 \in 1..Len(digest) /\ 2 * (n + 1) - 1 = str_idx + 1 /\ 2 * (n + 1) = str_idx + 2
    BY <1>1, <1>2
  <2>2. pw_hash[str_idx + 1] = digest[n + 1] \div 16 /\ pw_hash[str_idx + 2] = digest[n + 1] % 16
    BY <2>1 DEF Printed
  <2> QED
    BY <1>3, <2>2, HexDigits DEF Scanned
<1>5. bytes' = Append(bytes, digest[n + 1])
  BY <1>4 DEF ScanByte
<1>6. /\ bytes' \in Seq(0..255) /\ Len(bytes') = n + 1
      /\ \A k \in 1..n : bytes'[k] = bytes[k]
      /\ bytes'[n + 1] = digest[n + 1]
  BY <1>1, <1>3, <1>5 DEF Reloaded
<1>7. \A k \in 1..n + 1 : bytes'[k] = digest[k]
  BY <1>1, <1>6 DEF Reloaded
<1> QED
  BY <1>1, <1>2, <1>6, <1>7 DEF Reloaded

LEMMA HashInvHolds == HashSpec => []HashInv
<1>1. HashInit => HashInv
  BY DEF HashInit, HashInv, NULL
<1>2. HashInv /\ [HashNext]_hashVars => HashInv'
  <2> SUFFICES ASSUME HashInv, [HashNext]_hashVars PROVE HashInv'
    OBVIOUS
  <2>1. CASE Account
    <3>1. /\ hashing' = "print" /\ digest' \in Digests /\ idx' = 0 /\ str_idx' = 0
          /\ pw_hash' = <<>> /\ bytes' = <<>>
      BY <2>1 DEF Account, HashInv
    <3>2. Len(digest') \in Nat
      BY <3>1, DigestBytes
    <3>3. Printed(idx)'
      BY <3>1 DEF Printed
    <3> QED
      BY <3>1, <3>2, <3>3 DEF HashInv
  <2>2. CASE PrintByte
    <3>1. idx' \in 0..Len(digest) /\ Printed(idx)'
      BY <2>2, PrintBytePrints DEF PrintByte, HashInv
    <3> QED
      BY <2>2, <3>1 DEF PrintByte, HashInv
  <2>3. CASE Load
    <3>1. /\ digest \in Digests /\ Printed(Len(digest)) /\ str_idx = 0 /\ bytes = <<>>
      BY <2>3, DigestBytes DEF Load, HashInv
    <3>2. Len(digest) \in Nat /\ Len(digest) > 0
      BY <3>1, DigestBytes
    <3>3. ~Refused(pw_hash)
      <4>1. Len(pw_hash) = 2 * Len(digest)
        BY <3>1 DEF Printed
      <4> QED
        BY <3>2, <4>1 DEF Refused
    <3>4. hashing' = "scan" /\ UNCHANGED <<digest, pw_hash, idx, str_idx, bytes>>
      BY <2>3, <3>3 DEF Load
    <3>5. Printed(Len(digest))'
      BY <3>1, <3>4 DEF Printed
    <3>6. 0 \in 0..Len(digest') /\ str_idx' = 2 * 0 /\ Reloaded(0)'
      BY <3>1, <3>2, <3>4 DEF Reloaded
    <3> QED
      BY <3>1, <3>4, <3>5, <3>6 DEF HashInv
  <2>4. CASE ScanByte
    <3>1. digest \in Digests /\ Printed(Len(digest)) /\ hashing = "scan"
      BY <2>4 DEF ScanByte, HashInv
    <3>2. PICK n \in 0..Len(digest) : str_idx = 2 * n /\ Reloaded(n)
      BY <3>1 DEF HashInv
    <3>3. n + 1 \in 0..Len(digest) /\ str_idx' = 2 * (n + 1) /\ Reloaded(n + 1)'
      BY <2>4, <3>1, <3>2, ScanByteScans
    <3>4. hashing' = "scan" /\ UNCHANGED <<digest, pw_hash, idx>>
      BY <2>4 DEF ScanByte
    <3>5. Printed(Len(digest))'
      BY <3>1, <3>4 DEF Printed
    <3> QED
      BY <3>1, <3>3, <3>4, <3>5 DEF HashInv
  <2>5. CASE ScanEnds
    <3>1. digest \in Digests /\ Printed(Len(digest)) /\ hashing = "scan"
      BY <2>5 DEF ScanEnds, HashInv
    <3>2. PICK n \in 0..Len(digest) : str_idx = 2 * n /\ Reloaded(n)
      BY <3>1 DEF HashInv
    <3>3. n = Len(digest)
      <4>1. Len(digest) \in Nat
        BY <3>1, DigestBytes
      <4> QED
        BY <2>5, <3>1, <3>2, <4>1 DEF ScanEnds, Printed
    <3>4. hashing' = "done" /\ UNCHANGED <<digest, bytes>>
      BY <2>5 DEF ScanEnds
    <3>5. Reloaded(Len(digest))'
      BY <3>2, <3>3, <3>4 DEF Reloaded
    <3> QED
      BY <3>1, <3>4, <3>5 DEF HashInv
  <2>6. CASE UNCHANGED hashVars
    BY <2>6 DEF hashVars, HashInv, Printed, Reloaded
  <2> QED
    BY <2>1, <2>2, <2>3, <2>4, <2>5, <2>6 DEF HashNext
<1> QED
  BY <1>1, <1>2, PTL DEF HashSpec

(***************************************************************************)
(* The hash that populate_htable makes of a saved digest of any length     *)
(* matches what the digest matched.                                        *)
(***************************************************************************)
THEOREM Reloads == HashSpec => []HashReloads
<1>1. HashInv => HashReloads
  <2> SUFFICES ASSUME HashInv, hashing = "done", NEW d \in Digests
               PROVE  Matches(bytes, d) <=> Matches(digest, d)
    BY DEF HashReloads
  <2>1. /\ Len(bytes) = Len(digest)
        /\ \A k \in 1..Len(digest) : bytes[k] = digest[k]
    BY DEF HashInv, Reloaded
  <2>2. bytes # <<>> /\ digest # <<>>
    BY <2>1, DigestBytes DEF HashInv
  <2> QED
    BY <2>1, <2>2 DEF Matches, NULL
<1> QED
  BY <1>1, HashInvHolds, PTL
-----------------------------------------------------------------------------
(***************************************************************************)
(* Arguments: what the loop has set when it comes to an option is what the *)
(* options before it ask for, each of them once.                           *)
(***************************************************************************)
Before == 1..next - 1

\* The letters that were passed, none of -p, -t and -d twice.
LettersTaken ==
    /\ \A k \in Before : given[k].letter \in {"p", "t", "d", "operand"} \cap flags
    /\ \A l \in flags : \E k \in Before : given[k].letter = l
    /\ \A j, k \in Before : (given[j].letter = given[k].letter /\ given[j].letter # "operand")
                               => j = k

\* The values that were set, and the others.
ValuesTaken ==
    /\ \A k \in Before :
         /\ given[k].letter = "p" =>
              PortOf(given[k].value) # 0 /\ args.port = PortOf(given[k].value)
         /\ given[k].letter = "t" =>
              TimeoutOf(given[k].value) # 0 /\ args.timeout = TimeoutOf(given[k].value)
         /\ given[k].letter = "d" => Usable(given[k].value) /\ args.home = given[k].value
    /\ "p" \notin flags => args.port = DEFAULT_PORT
    /\ "t" \notin flags => args.timeout = DEFAULT_TIMEOUT
    /\ "d" \notin flags => args.home = NoHome

\* The command lines that args_parse accepts.
Acceptable == Proper /\ \A i \in Given("t") : given[i].value # 256

ArgsInv ==
    /\ given \in Seq(Options) /\ next \in 1..Len(given) + 1
    /\ DOMAIN args = {"port", "timeout", "home"}
    /\ parsing = "rest" => next = 1 /\ flags = {} /\ args = Defaults
    /\ parsing \in {"loop", "accepted"} => LettersTaken /\ ValuesTaken
    /\ parsing = "accepted" =>
         next = Len(given) + 1 /\ "operand" \notin flags /\ args.home # NoHome
    /\ parsing = "refused" => ~Acceptable

\* What an option carries.
LEMMA OptionValues ==
    ASSUME NEW o \in Options
    PROVE  /\ o.letter \in {"p", "t", "d", "h", "?", "operand"}
           /\ o.letter \in {"p", "t"} => o.value \in Int \/ o.value = NotANumber
           /\ o.letter = "d" => o.value \in Homes \cup {NoHome}
<1>1. o \in [letter : {"p", "t"}, value : Numbers \cup {NotANumber}]
        \/ o \in [letter : {"d"}, value : Homes \cup {NoHome}]
        \/ o \in [letter : {"h", "?", "operand"}]
  BY DEF Options
<1> QED
  BY <1>1, ArgumentsAssumption

\* get_port and get_timeout tell an error by 0, and no proper value is one.
LEMMA PortOfValue ==
    ASSUME NEW v, v \in Int \/ v = NotANumber
    PROVE  PortOf(v) # 0 <=> (v # NotANumber /\ v \in MIN_PORT..MAX_PORT)
<1>1. MIN_PORT \in Nat /\ MIN_PORT > 0 /\ MAX_PORT \in Nat /\ NotANumber \notin Int
  BY ArgumentsAssumption
<1> QED
  BY <1>1 DEF PortOf

LEMMA TimeoutOfValue ==
    ASSUME NEW v, v \in Int \/ v = NotANumber
    PROVE  /\ TimeoutOf(v) # 0 <=> (v # NotANumber /\ v \in 1..MAX_TIMEOUT /\ v # 256)
           /\ TimeoutOf(v) # 0 => /\ TimeoutOf(v) \in 1..255
                                  /\ TimeoutOf(v) = IF v <= 255 THEN v ELSE v - 256
<1>1. MAX_TIMEOUT \in 1..511 /\ NotANumber \notin Int
  BY ArgumentsAssumption
<1>2. CASE v = NotANumber
  BY <1>1, <1>2 DEF TimeoutOf
<1>3. CASE v \in Int /\ v \in 1..MAX_TIMEOUT
  <2>1. v # NotANumber /\ TimeoutOf(v) = v % 256
    BY <1>1, <1>3 DEF TimeoutOf
  <2>2. v \in 1..511
    BY <1>1, <1>3
  <2>3. v % 256 = IF v <= 255 THEN v ELSE v - 256
    BY <2>2
  <2> QED
    BY <1>3, <2>1, <2>2, <2>3
<1>4. CASE v \in Int /\ v \notin 1..MAX_TIMEOUT
  BY <1>1, <1>4 DEF TimeoutOf
<1> QED
  BY <1>2, <1>3, <1>4

LEMMA LettersStay ==
    ASSUME ArgsInv, InLoop, Letter \in {"p", "t", "d", "operand"},
           Letter # "operand" => Letter \notin flags,
           flags' = flags \cup {Letter}, next' = next + 1, given' = given
    PROVE  LettersTaken'
<1>1. /\ LettersTaken /\ next \in Nat /\ next >= 1
      /\ Before' = Before \cup {next} /\ next \notin Before
  <2>1. Len(given) \in Nat
    BY DEF ArgsInv
  <2>2. next \in Nat /\ next >= 1
    BY <2>1 DEF ArgsInv
  <2>3. LettersTaken
    BY DEF ArgsInv, InLoop
  <2> QED
    BY <2>2, <2>3 DEF Before
<1>2. \A k \in Before : given[k].letter # Letter \/ Letter = "operand"
  BY <1>1 DEF LettersTaken
<1>3. \A k \in Before' : given[k].letter \in {"p", "t", "d", "operand"} \cap flags'
  BY <1>1 DEF LettersTaken, Letter
<1>4. \A l \in flags' : \E k \in Before' : given[k].letter = l
  BY <1>1 DEF LettersTaken, Letter
<1>5. \A j, k \in Before' : (given[j].letter = given[k].letter /\ given[j].letter # "operand")
                               => j = k
  BY <1>1, <1>2 DEF LettersTaken, Letter
<1> QED
  BY <1>3, <1>4, <1>5 DEF LettersTaken

LEMMA ArgsStart ==
    ASSUME ArgsInv, Call
    PROVE  ArgsInv'
<1>1. /\ parsing' = "loop" /\ next' = 1 /\ flags' = {} /\ args' = Defaults /\ given' \in Seq(Options)
  <2>1. PICK n \in 0..MaxOptions : given' \in [1..n -> Options]
    BY DEF Call
  <2>2. n \in Nat
    BY ArgumentsAssumption
  <2> QED
    BY <2>1, <2>2 DEF Call, ArgsInv
<1>2. Len(given') \in Nat
  BY <1>1
<1>3. Before' = {}
  BY <1>1 DEF Before
<1>4. LettersTaken' /\ ValuesTaken'
  BY <1>1, <1>3 DEF LettersTaken, ValuesTaken, Defaults
<1> QED
  BY <1>1, <1>2, <1>4 DEF ArgsInv, Defaults

\* One turn of the loop that goes on: the option that was passed is the last of
\* those before the next one.
LEMMA LoopGoesOn ==
    ASSUME ArgsInv, InLoop
    PROVE  /\ LettersTaken /\ ValuesTaken /\ next \in Nat /\ next >= 1
           /\ next + 1 \in 1..Len(given) + 1
           /\ given[next] \in Options
           /\ 1..(next + 1) - 1 = Before \cup {next}
<1>1. Len(given) \in Nat
  BY DEF ArgsInv
<1>2. next \in 1..Len(given)
  BY <1>1 DEF ArgsInv, InLoop
<1>3. given[next] \in Options
  BY <1>2, ElementOfSeq DEF ArgsInv
<1> QED
  BY <1>1, <1>2, <1>3 DEF ArgsInv, InLoop, Before

LEMMA SetPortKeeps ==
    ASSUME ArgsInv, SetPort
    PROVE  ArgsInv'
<1>1. /\ InLoop /\ Letter = "p" /\ Letter \notin flags /\ PortOf(Value) # 0
      /\ args' = [args EXCEPT !["port"] = PortOf(Value)] /\ flags' = flags \cup {"p"}
      /\ next' = next + 1 /\ given' = given /\ parsing' = parsing /\ parsing = "loop"
  BY DEF SetPort, Take, Bad, InLoop
<1>2. LettersTaken'
  BY <1>1, LettersStay
<1>3. /\ args'.port = PortOf(Value) /\ args'.timeout = args.timeout /\ args'.home = args.home
      /\ DOMAIN args' = {"port", "timeout", "home"}
  BY <1>1 DEF ArgsInv
<1>4. ValuesTaken /\ LettersTaken /\ Before' = Before \cup {next}
  BY <1>1, LoopGoesOn DEF Before
<1>5. ValuesTaken'
  <2>1. \A k \in Before : given[k].letter # "p"
    BY <1>1, <1>4 DEF LettersTaken
  <2> QED
    BY <1>1, <1>3, <1>4, <2>1 DEF ValuesTaken, Letter, Value
<1> QED
  BY <1>1, <1>2, <1>3, <1>5, LoopGoesOn DEF ArgsInv

LEMMA SetTimeoutKeeps ==
    ASSUME ArgsInv, SetTimeout
    PROVE  ArgsInv'
<1>1. /\ InLoop /\ Letter = "t" /\ Letter \notin flags /\ TimeoutOf(Value) # 0
      /\ args' = [args EXCEPT !["timeout"] = TimeoutOf(Value)] /\ flags' = flags \cup {"t"}
      /\ next' = next + 1 /\ given' = given /\ parsing' = parsing /\ parsing = "loop"
  BY DEF SetTimeout, Take, Bad, InLoop
<1>2. LettersTaken'
  BY <1>1, LettersStay
<1>3. /\ args'.timeout = TimeoutOf(Value) /\ args'.port = args.port /\ args'.home = args.home
      /\ DOMAIN args' = {"port", "timeout", "home"}
  BY <1>1 DEF ArgsInv
<1>4. ValuesTaken /\ LettersTaken /\ Before' = Before \cup {next}
  BY <1>1, LoopGoesOn DEF Before
<1>5. ValuesTaken'
  <2>1. \A k \in Before : given[k].letter # "t"
    BY <1>1, <1>4 DEF LettersTaken
  <2> QED
    BY <1>1, <1>3, <1>4, <2>1 DEF ValuesTaken, Letter, Value
<1> QED
  BY <1>1, <1>2, <1>3, <1>5, LoopGoesOn DEF ArgsInv

LEMMA SetHomeKeeps ==
    ASSUME ArgsInv, SetHome
    PROVE  ArgsInv'
<1>1. /\ InLoop /\ Letter = "d" /\ Letter \notin flags /\ Usable(Value)
      /\ args' = [args EXCEPT !["home"] = Value] /\ flags' = flags \cup {"d"}
      /\ next' = next + 1 /\ given' = given /\ parsing' = parsing /\ parsing = "loop"
  BY DEF SetHome, Take, Bad, InLoop
<1>2. LettersTaken'
  BY <1>1, LettersStay
<1>3. /\ args'.home = Value /\ args'.port = args.port /\ args'.timeout = args.timeout
      /\ DOMAIN args' = {"port", "timeout", "home"}
  BY <1>1 DEF ArgsInv
<1>4. ValuesTaken /\ LettersTaken /\ Before' = Before \cup {next}
  BY <1>1, LoopGoesOn DEF Before
<1>5. ValuesTaken'
  <2>1. \A k \in Before : given[k].letter # "d"
    BY <1>1, <1>4 DEF LettersTaken
  <2> QED
    BY <1>1, <1>3, <1>4, <2>1 DEF ValuesTaken, Letter, Value
<1> QED
  BY <1>1, <1>2, <1>3, <1>5, LoopGoesOn DEF ArgsInv

LEMMA PassOperandKeeps ==
    ASSUME ArgsInv, PassOperand
    PROVE  ArgsInv'
<1>1. /\ InLoop /\ Letter = "operand" /\ flags' = flags \cup {"operand"}
      /\ next' = next + 1 /\ given' = given /\ parsing' = parsing /\ parsing = "loop"
      /\ args' = args
  BY DEF PassOperand, InLoop
<1>2. LettersTaken'
  BY <1>1, LettersStay
<1>3. ValuesTaken /\ Before' = Before \cup {next}
  BY <1>1, LoopGoesOn DEF Before
<1>4. ValuesTaken'
  BY <1>1, <1>3 DEF ValuesTaken, Letter
<1> QED
  BY <1>1, <1>2, <1>4, LoopGoesOn DEF ArgsInv

\* Whatever ends the loop early is not proper.
LEMMA RefuseKeeps ==
    ASSUME ArgsInv, Refuse
    PROVE  ArgsInv'
<1>1. /\ InLoop /\ Bad /\ parsing' = "refused" /\ args' = Defaults
      /\ given' = given /\ next' = next /\ flags' = flags
  BY DEF Refuse
<1>2. /\ LettersTaken /\ given[next] \in Options
      /\ next \in DOMAIN given /\ Before \subseteq DOMAIN given /\ next \notin Before
  <2>1. given \in Seq(Options) /\ Len(given) \in Nat /\ next \in 1..Len(given)
    BY <1>1 DEF ArgsInv, InLoop
  <2>2. DOMAIN given = 1..Len(given)
    BY <2>1
  <2>3. next \in Nat /\ Before \subseteq 1..Len(given) /\ next \notin Before
    BY <2>1 DEF Before
  <2> QED
    BY <1>1, <2>1, <2>2, <2>3, LoopGoesOn
<1>3. ~Acceptable
  <2>1. CASE Letter \in {"p", "t", "d"} \cap flags
    <3>1. PICK k \in Before : given[k].letter = Letter
      BY <1>2, <2>1 DEF LettersTaken
    <3> QED
      BY <1>2, <3>1 DEF Acceptable, Proper, Letter
  <2>2. CASE Letter = "p" /\ PortOf(Value) = 0
    <3>1. ~(Value # NotANumber /\ Value \in MIN_PORT..MAX_PORT)
      BY <1>2, <2>2, OptionValues, PortOfValue DEF Letter, Value
    <3> QED
      BY <1>2, <2>2, <3>1 DEF Acceptable, Proper, Given, Letter, Value
  <2>3. CASE Letter = "t" /\ TimeoutOf(Value) = 0
    <3>1. ~(Value # NotANumber /\ Value \in 1..MAX_TIMEOUT /\ Value # 256)
      BY <1>2, <2>3, OptionValues, TimeoutOfValue DEF Letter, Value
    <3> QED
      BY <1>2, <2>3, <3>1 DEF Acceptable, Proper, Given, Letter, Value
  <2>4. CASE Letter = "d" /\ ~Usable(Value)
    BY <1>2, <2>4 DEF Acceptable, Proper, Given, Letter, Value
  <2>5. CASE Letter \in {"h", "?"}
    BY <1>2, <2>5 DEF Acceptable, Proper, Given, Letter
  <2> QED
    BY <1>1, <2>1, <2>2, <2>3, <2>4, <2>5 DEF Bad
<1>4. (~Acceptable)'
  BY <1>1, <1>3 DEF Acceptable, Proper, Given
<1> QED
  BY <1>1, <1>4 DEF ArgsInv, Defaults

\* A command line that comes to its end has no home directory, or a word that
\* is no option, or is proper.
LEMMA EndOfLoopKeeps ==
    ASSUME ArgsInv, EndOfLoop
    PROVE  ArgsInv'
<1>1. /\ LettersTaken /\ ValuesTaken /\ next = Len(given) + 1 /\ Before = DOMAIN given
      /\ given' = given /\ next' = next /\ flags' = flags
  <2>1. given \in Seq(Options) /\ Len(given) \in Nat /\ next \in 1..Len(given) + 1
    BY DEF ArgsInv
  <2>2. next = Len(given) + 1
    BY <2>1 DEF EndOfLoop
  <2>3. DOMAIN given = 1..Len(given) /\ Before = 1..Len(given)
    BY <2>1, <2>2 DEF Before
  <2> QED
    BY <2>2, <2>3 DEF ArgsInv, EndOfLoop
<1>2. CASE "operand" \notin flags /\ args.home # NoHome
  <2>1. parsing' = "accepted" /\ args' = args
    BY <1>2 DEF EndOfLoop
  <2>2. LettersTaken' /\ ValuesTaken'
    BY <1>1, <2>1 DEF LettersTaken, ValuesTaken, Before
  <2> QED
    BY <1>1, <1>2, <2>1, <2>2 DEF ArgsInv
<1>3. CASE ~("operand" \notin flags /\ args.home # NoHome)
  <2>1. parsing' = "refused" /\ args' = Defaults
    BY <1>3 DEF EndOfLoop
  <2>2. ASSUME "operand" \in flags PROVE ~Acceptable
    BY <1>1, <2>2 DEF LettersTaken, Acceptable, Proper, Given
  <2>3. ASSUME args.home = NoHome PROVE ~Acceptable
    <3>1. \A k \in Before : given[k].letter # "d"
      BY <1>1, <2>3 DEF ValuesTaken, Usable
    <3> QED
      BY <1>1, <3>1 DEF Acceptable, Proper, Given
  <2>4. ~Acceptable
    BY <1>3, <2>2, <2>3
  <2>5. (~Acceptable)'
    BY <1>1, <2>4 DEF Acceptable, Proper, Given
  <2> QED
    BY <1>1, <2>1, <2>5 DEF ArgsInv, Defaults
<1> QED
  BY <1>2, <1>3

LEMMA ArgsInvHolds == ArgsSpec => []ArgsInv
<1>1. ArgsInit => ArgsInv
  BY DEF ArgsInit, ArgsInv, Defaults
<1>2. ArgsInv /\ [ArgsNext]_argsVars => ArgsInv'
  <2>1. ASSUME ArgsInv, UNCHANGED argsVars PROVE ArgsInv'
    BY <2>1 DEF argsVars, ArgsInv, LettersTaken, ValuesTaken, Before, Acceptable, Proper, Given
  <2> QED
    BY <2>1, ArgsStart, SetPortKeeps, SetTimeoutKeeps, SetHomeKeeps, PassOperandKeeps,
       RefuseKeeps, EndOfLoopKeeps DEF ArgsNext
<1> QED
  BY <1>1, <1>2, PTL DEF ArgsSpec

(***************************************************************************)
(* Command lines of any length: args_parse refuses all that are not proper *)
(* and no other, but for some with a timeout over eight bits, and starts   *)
(* the server with the port, the home directory and the timeout, if that   *)
(* fits, that they give.                                                   *)
(***************************************************************************)
THEOREM AcceptsAsGiven == ArgsSpec => []AcceptedAsGiven
<1>1. ArgsInv => AcceptedAsGiven
  <2>0. ASSUME ArgsInv, parsing = "refused" PROVE ~Proper \/ Overlong
    BY <2>0, ArgumentsAssumption DEF ArgsInv, Acceptable, Overlong
  <2> SUFFICES ASSUME ArgsInv, parsing = "accepted" PROVE AcceptedAsGiven
    BY <2>0 DEF AcceptedAsGiven
  <2>1. /\ LettersTaken /\ ValuesTaken /\ DOMAIN given = Before
        /\ "operand" \notin flags /\ args.home # NoHome
        /\ \A k \in Before : given[k] \in Options
    <3>1. given \in Seq(Options) /\ Len(given) \in Nat /\ next = Len(given) + 1
      BY DEF ArgsInv
    <3>2. DOMAIN given = 1..Len(given) /\ Before = 1..Len(given)
      BY <3>1 DEF Before
    <3> QED
      BY <3>1, <3>2, ElementOfSeq DEF ArgsInv
  <2>2. \A k \in Before : given[k].letter \in {"p", "t", "d"}
    BY <2>1 DEF LettersTaken
  <2>3. \E k \in Before : given[k].letter = "d"
    BY <2>1 DEF LettersTaken, ValuesTaken
  <2>4. \A k \in Before : given[k].letter = "p" =>
          /\ given[k].value # NotANumber /\ given[k].value \in MIN_PORT..MAX_PORT
          /\ args.port = given[k].value
    BY <2>1, OptionValues, PortOfValue DEF ValuesTaken, PortOf
  <2>5. \A k \in Before : given[k].letter = "t" =>
          /\ given[k].value # NotANumber /\ given[k].value \in 1..MAX_TIMEOUT
          /\ given[k].value <= 255 => args.timeout = given[k].value
    BY <2>1, OptionValues, TimeoutOfValue DEF ValuesTaken
  <2>6. \A k \in Before : given[k].letter = "d" =>
          Usable(given[k].value) /\ args.home = given[k].value
    BY <2>1 DEF ValuesTaken
  <2>7. Proper
    BY <2>1, <2>2, <2>3, <2>4, <2>5, <2>6 DEF Proper, Given, LettersTaken
  <2>8. Given("p") = {} => args.port = DEFAULT_PORT
    BY <2>1 DEF LettersTaken, ValuesTaken, Given
  <2> QED
    BY <2>1, <2>4, <2>5, <2>6, <2>7, <2>8 DEF AcceptedAsGiven, Given
<1> QED
  BY <1>1, ArgsInvHolds, PTL
-----------------------------------------------------------------------------
(***************************************************************************)
(* Paths: where the walk of realpath leads.                                *)
(***************************************************************************)
\* Follow, Walk and Real in the tree t: the tree before a step and after it are
\* compared.
FollowIn(t, at, part) ==
    IF ~(at \in DOMAIN t /\ t[at] = "dir") THEN {}
    ELSE CASE part = "."   -> {at}
           [] part = ".."  -> {IF at = <<>> THEN at ELSE Front(at)}
           [] OTHER        -> {Append(at, part)} \cap DOMAIN t

WalkIn(t, parts) ==
    LET at[n \in 0..Len(parts)] ==
          IF n = 0 THEN {<<>>} ELSE UNION {FollowIn(t, p, parts[n]) : p \in at[n - 1]}
    IN  at[Len(parts)]

\* f is the walk along the first n of the names of s.
IsWalk(t, s, n, f) ==
    f = [k \in 0..n |-> IF k = 0 THEN {<<>>} ELSE UNION {FollowIn(t, p, s[k]) : p \in f[k - 1]}]

\* There is such a walk, of any length.
LEMMA WalkExists ==
    ASSUME NEW t, NEW s
    PROVE  \A n \in Nat : \E f : IsWalk(t, s, n, f)
<1> DEFINE P(n) == \E f : IsWalk(t, s, n, f)
           S == {n \in Nat : P(n)}
<1>1. P(0)
  <2> DEFINE f == [k \in 0..0 |-> {<<>>}]
  <2>1. f = [k \in 0..0 |-> IF k = 0 THEN {<<>>}
                            ELSE UNION {FollowIn(t, p, s[k]) : p \in f[k - 1]}]
    OBVIOUS
  <2> QED
    BY <2>1 DEF IsWalk
<1>2. ASSUME NEW n \in Nat, P(n) PROVE P(n + 1)
  <2>1. PICK f : f = [k \in 0..n |-> IF k = 0 THEN {<<>>}
                            ELSE UNION {FollowIn(t, p, s[k]) : p \in f[k - 1]}]
    BY <1>2 DEF IsWalk
  <2> DEFINE Next1(v, k) == UNION {FollowIn(t, p, s[k]) : p \in v}
             g == [k \in 0..n+1 |-> IF k \in 0..n THEN f[k] ELSE Next1(f[n], n + 1)]
             h == [k \in 0..n+1 |-> IF k = 0 THEN {<<>>} ELSE Next1(g[k - 1], k)]
  <2>2. \A k \in 0..n : f[k] = IF k = 0 THEN {<<>>} ELSE Next1(f[k - 1], k)
    BY <2>1
  <2> HIDE DEF Next1
  <2>3. \A k \in 0..n+1 : g[k] = h[k]
    <3> TAKE k \in 0..n+1
    <3>1. CASE k = 0
      BY <3>1, <2>2
    <3>2. CASE k \in 1..n
      <4>1. g[k] = f[k] /\ g[k - 1] = f[k - 1]
         BY <3>2
      <4> QED BY <3>2, <4>1, <2>2
    <3>3. CASE k = n + 1
      <4>1. g[k - 1] = f[n]
         BY <3>3
      <4>2. g[k] = Next1(f[n], n + 1)
         BY <3>3
      <4> QED BY <3>3, <4>1, <4>2
    <3> QED BY <3>1, <3>2, <3>3
  <2>4. g = h
    BY <2>3
  <2>5. g = [k \in 0..n+1 |-> IF k = 0 THEN {<<>>}
                            ELSE UNION {FollowIn(t, p, s[k]) : p \in g[k - 1]}]
    BY <2>4 DEF Next1
  <2> QED
    BY <2>5 DEF IsWalk
<1> HIDE DEF P
<1>3. 0 \in S /\ \A n \in Nat : n \in S => n + 1 \in S
  BY <1>1, <1>2
<1>4. Nat \subseteq S
  BY <1>3, Induct
<1> QED
  BY <1>4 DEF P

\* So Walk is what its definition says, name by name.
LEMMA WalkByNames ==
    ASSUME NEW t, NEW s, Len(s) \in Nat
    PROVE  \E f : /\ f[0] = {<<>>}
                  /\ \A k \in 1..Len(s) : f[k] = UNION {FollowIn(t, p, s[k]) : p \in f[k - 1]}
                  /\ WalkIn(t, s) = f[Len(s)]
<1> DEFINE f == CHOOSE g : IsWalk(t, s, Len(s), g)
<1>1. Len(s) \in Nat
  OBVIOUS
<1>2. WalkIn(t, s) = f[Len(s)]
  BY DEF WalkIn, IsWalk
<1>3. \E g : IsWalk(t, s, Len(s), g)
  BY <1>1, WalkExists
<1>4. IsWalk(t, s, Len(s), f)
  BY <1>3
<1> HIDE DEF f
<1>5. f[0] = {<<>>}
  BY <1>1, <1>4 DEF IsWalk
<1>6. ASSUME NEW k \in 1..Len(s)
      PROVE  f[k] = UNION {FollowIn(t, p, s[k]) : p \in f[k - 1]}
  <2>1. k \in 0..Len(s) /\ k # 0
    BY <1>1
  <2> QED
    BY <1>4, <2>1 DEF IsWalk
<1> QED
  BY <1>2, <1>5, <1>6

LEMMA WalkRoot ==
    ASSUME NEW t
    PROVE  WalkIn(t, <<>>) = {<<>>}
<1> DEFINE s == <<>>
<1>1. Len(s) = 0 /\ Len(s) \in Nat
  BY EmptySeq
<1> HIDE DEF s
<1>2. \E f : f[0] = {<<>>} /\ WalkIn(t, s) = f[Len(s)]
  BY <1>1, WalkByNames
<1> QED
  BY <1>1, <1>2 DEF s

\* One name more.
LEMMA WalkOn ==
    ASSUME NEW t, NEW S, NEW s \in Seq(S), NEW x \in S
    PROVE  \A y : y \in WalkIn(t, Append(s, x)) <=> \E p \in WalkIn(t, s) : y \in FollowIn(t, p, x)
<1> DEFINE r == Append(s, x)
           Along(v, y) == UNION {FollowIn(t, p, y) : p \in v}
<1>1. /\ r \in Seq(S) /\ Len(r) = Len(s) + 1 /\ Len(s) \in Nat
      /\ r[Len(s) + 1] = x /\ Len(r) \in Nat /\ \A k \in 1..Len(s) : r[k] = s[k]
  BY AppendProperties, LenProperties
<1> HIDE DEF r
<1>2. PICK f : /\ f[0] = {<<>>}
               /\ \A k \in 1..Len(s) : f[k] = Along(f[k - 1], s[k])
               /\ WalkIn(t, s) = f[Len(s)]
  BY <1>1, WalkByNames
<1>3. PICK g : /\ g[0] = {<<>>}
               /\ \A k \in 1..Len(r) : g[k] = Along(g[k - 1], r[k])
               /\ WalkIn(t, r) = g[Len(r)]
  BY <1>1, WalkByNames
<1> HIDE DEF Along
<1> DEFINE T == {k \in Nat : k <= Len(s) => f[k] = g[k]}
<1>4. 0 \in T
  BY <1>2, <1>3
<1>5. ASSUME NEW k \in Nat, k \in T PROVE k + 1 \in T
  <2> SUFFICES ASSUME k + 1 <= Len(s) PROVE f[k + 1] = g[k + 1]
    OBVIOUS
  <2>1. f[k] = g[k] /\ k + 1 \in 1..Len(s) /\ k + 1 \in 1..Len(r) /\ (k + 1) - 1 = k
    BY <1>1, <1>5
  <2> QED
    BY <1>1, <1>2, <1>3, <2>1
<1>6. Nat \subseteq T
  <2> HIDE DEF T
  <2> QED
    BY <1>4, <1>5, Induct
<1>7. f[Len(s)] = g[Len(s)]
  BY <1>1, <1>6
<1>8. g[Len(r)] = Along(g[Len(s)], x)
  <2>1. Len(r) \in 1..Len(r) /\ Len(r) - 1 = Len(s)
    BY <1>1
  <2> QED
    BY <1>1, <1>3, <2>1
<1> QED
  BY <1>2, <1>3, <1>7, <1>8 DEF Along, r

DirIn(t, p) == p \in DOMAIN t /\ t[p] = "dir"

RealIn(t, parts, slash) ==
    LET found == {p \in WalkIn(t, parts) : slash => DirIn(t, p)}
    IN  IF found = {} THEN NoPath ELSE CHOOSE p \in found : TRUE

\* Everything but the root is in a directory, and the home directory is one.
IsTree(t) ==
    /\ DOMAIN t \subseteq Seq(Names) /\ DirIn(t, <<>>) /\ DirIn(t, Home)
    /\ \A p \in DOMAIN t : p # <<>> => DirIn(t, Front(p))

\* Real in a state and in the next one.
LEMMA RealHere ==
    /\ \A parts, slash : Real(parts, slash) = RealIn(tree, parts, slash)
    /\ \A p : IsDir(p) <=> DirIn(tree, p)
  BY DEF Real, RealIn, Walk, WalkIn, Follow, FollowIn, IsDir, Exists, DirIn

LEMMA RealThere ==
    /\ \A parts, slash : Real(parts, slash)' = RealIn(tree', parts, slash)
    /\ \A p : IsDir(p)' <=> DirIn(tree', p)
  BY DEF Real, RealIn, Walk, WalkIn, Follow, FollowIn, IsDir, Exists, DirIn

\* A walk ends at one place of the tree at most.
LEMMA FollowStays ==
    ASSUME NEW t, IsTree(t), NEW p \in DOMAIN t, NEW x
    PROVE  /\ FollowIn(t, p, x) \subseteq DOMAIN t
           /\ \A q, r \in FollowIn(t, p, x) : q = r
<1>1. p # <<>> => Front(p) \in DOMAIN t
  BY DEF IsTree, DirIn
<1> QED
  BY <1>1 DEF FollowIn

LEMMA WalkStays ==
    ASSUME NEW t, IsTree(t)
    PROVE  \A s \in Seq(Parts) : /\ WalkIn(t, s) \subseteq DOMAIN t
                                 /\ \A q, r \in WalkIn(t, s) : q = r
<1> DEFINE T == {s \in Seq(Parts) : /\ WalkIn(t, s) \subseteq DOMAIN t
                                    /\ \A q, r \in WalkIn(t, s) : q = r}
<1>1. <<>> \in T
  <2>1. <<>> \in Seq(Parts) /\ WalkIn(t, <<>>) = {<<>>}
    BY WalkRoot, EmptySeq
  <2>2. <<>> \in DOMAIN t
    BY DEF IsTree, DirIn
  <2> QED
    BY <2>1, <2>2
<1>2. ASSUME NEW s \in Seq(Parts), NEW x \in Parts, s \in T PROVE Append(s, x) \in T
  <2>1. \A y : y \in WalkIn(t, Append(s, x)) <=> \E p \in WalkIn(t, s) : y \in FollowIn(t, p, x)
    BY WalkOn
  <2>2. Append(s, x) \in Seq(Parts)
    BY AppendProperties
  <2> QED
    BY <1>2, <2>1, <2>2, FollowStays
<1>3. Seq(Parts) \subseteq T
  <2> HIDE DEF T
  <2> QED
    BY <1>1, <1>2, SeqInduct
<1> QED
  BY <1>3

\* A path without "." and ".." leads to itself or nowhere.
LEMMA WalkAlong ==
    ASSUME NEW t, IsTree(t)
    PROVE  \A p \in Seq(Names) : WalkIn(t, p) = {p} \cap DOMAIN t
<1> DEFINE T == {p \in Seq(Names) : WalkIn(t, p) = {p} \cap DOMAIN t}
<1>1. <<>> \in T
  BY WalkRoot, EmptySeq DEF IsTree, DirIn
<1>2. ASSUME NEW p \in Seq(Names), NEW x \in Names, p \in T PROVE Append(p, x) \in T
  <2>1. \A y : y \in WalkIn(t, Append(p, x)) <=> \E q \in WalkIn(t, p) : y \in FollowIn(t, q, x)
    BY WalkOn
  <2>2. Append(p, x) \in Seq(Names) /\ Append(p, x) # <<>> /\ Front(Append(p, x)) = p
    BY FrontOfAppend
  <2>3. x # "." /\ x # ".."
    BY PathsAssumption
  <2>4. Append(p, x) \in DOMAIN t => DirIn(t, p)
    BY <2>2 DEF IsTree
  <2>5. CASE DirIn(t, p)
    <3>1. WalkIn(t, p) = {p}
      BY <1>2, <2>5 DEF DirIn
    <3>2. FollowIn(t, p, x) = {Append(p, x)} \cap DOMAIN t
      BY <2>3, <2>5 DEF DirIn, FollowIn
    <3>3. WalkIn(t, Append(p, x)) = FollowIn(t, p, x)
      BY <2>1, <3>1
    <3> QED
      BY <2>2, <3>2, <3>3
  <2>6. CASE ~DirIn(t, p)
    <3>1. FollowIn(t, p, x) = {}
      BY <2>6 DEF DirIn, FollowIn
    <3>2. WalkIn(t, Append(p, x)) = {}
      BY <1>2, <2>1, <3>1
    <3> QED
      BY <2>2, <2>4, <2>6, <3>2
  <2> QED
    BY <2>5, <2>6
<1>3. Seq(Names) \subseteq T
  <2> HIDE DEF T
  <2> QED
    BY <1>1, <1>2, SeqInduct
<1> QED
  BY <1>3

\* What is added to the tree stops no walk.
LEMMA WalkGrows ==
    ASSUME NEW t, NEW u, IsTree(t), DOMAIN t \subseteq DOMAIN u,
           \A p : DirIn(t, p) => DirIn(u, p)
    PROVE  \A s \in Seq(Parts) : WalkIn(t, s) \subseteq WalkIn(u, s)
<1> DEFINE T == {s \in Seq(Parts) : WalkIn(t, s) \subseteq WalkIn(u, s)}
<1>1. <<>> \in T
  BY WalkRoot, EmptySeq
<1>2. ASSUME NEW s \in Seq(Parts), NEW x \in Parts, s \in T PROVE Append(s, x) \in T
  <2>1. /\ \A y : y \in WalkIn(t, Append(s, x)) <=> \E p \in WalkIn(t, s) : y \in FollowIn(t, p, x)
        /\ \A y : y \in WalkIn(u, Append(s, x)) <=> \E p \in WalkIn(u, s) : y \in FollowIn(u, p, x)
    BY WalkOn
  <2>2. \A p : FollowIn(t, p, x) \subseteq FollowIn(u, p, x)
    BY DEF FollowIn, DirIn
  <2>3. Append(s, x) \in Seq(Parts)
    BY AppendProperties
  <2> QED
    BY <1>2, <2>1, <2>2, <2>3
<1>3. Seq(Parts) \subseteq T
  <2> HIDE DEF T
  <2> QED
    BY <1>1, <1>2, SeqInduct
<1> QED
  BY <1>3

LEMMA RealWalks ==
    ASSUME NEW t, IsTree(t), NEW s \in Seq(Parts), NEW slash
    PROVE  /\ RealIn(t, s, slash) # NoPath =>
                /\ WalkIn(t, s) = {RealIn(t, s, slash)}
                /\ RealIn(t, s, slash) \in DOMAIN t
                /\ slash => DirIn(t, RealIn(t, s, slash))
           /\ \A p : WalkIn(t, s) = {p} /\ (slash => DirIn(t, p)) => RealIn(t, s, slash) = p
           /\ WalkIn(t, s) = {} => RealIn(t, s, slash) = NoPath
  BY WalkStays DEF RealIn

\* The inductive invariant: the three properties, of a tree.
PathInv ==
    IsTree(tree) /\ MadeInHome /\ MadeIsFound /\ PutReplacesNothing

LEMMA HomePath ==
    /\ Names \subseteq Parts /\ Home \in Seq(Names) /\ Home \in Seq(Parts) /\ Home # <<>>
    /\ NoPath \notin Seq(Names) /\ ".." \notin Names /\ "." \notin Names /\ "/" \notin Parts
    /\ ".." \in Parts /\ "." \in Parts
<1>1. Names \subseteq Parts /\ Home \in Seq(Names) /\ Home # <<>> /\ "/" \notin Names
  BY PathsAssumption DEF Parts
<1>2. Home \in Seq(Parts)
  BY <1>1, SeqMonotonic
<1>3. ASSUME NoPath \in Seq(Names) PROVE FALSE
  <2>1. Len(NoPath) = 1 /\ NoPath[1] = "/"
    BY DEF NoPath
  <2> QED
    <3>1. 1 \in 1..Len(NoPath)
      BY <2>1
    <3> QED
      BY <1>1, <1>3, <2>1, <3>1, ElementOfSeq
<1> QED
  BY <1>1, <1>2, <1>3, PathsAssumption DEF Parts

LEMMA RequestParts ==
    ASSUME NEW r \in Requests
    PROVE  /\ r.parts \in Seq(Parts) /\ r.abs \in BOOLEAN /\ r.slash \in BOOLEAN
           /\ r.parts # <<>> =>
                /\ Front(r.parts) \in Seq(Parts) /\ Last(r.parts) \in Parts
                /\ r.parts = Append(Front(r.parts), Last(r.parts))
                /\ Len(r.parts) \in Nat /\ (Len(r.parts) <= 1 => Front(r.parts) = <<>>)
<1>1. r.parts \in BoundedSeq(Parts, MaxParts) /\ r.abs \in BOOLEAN /\ r.slash \in BOOLEAN
  BY DEF Requests
<1>2. PICK m \in 0..MaxParts : r.parts \in [1..m -> Parts]
  BY <1>1 DEF BoundedSeq, SeqOf
<1>3. r.parts \in Seq(Parts)
  <2>1. m \in Nat
    BY PathsAssumption
  <2> QED
    BY <1>2, <2>1
<1>4. ASSUME r.parts # <<>>
      PROVE  /\ Front(r.parts) \in Seq(Parts) /\ Last(r.parts) \in Parts
             /\ r.parts = Append(Front(r.parts), Last(r.parts))
             /\ Len(r.parts) \in Nat /\ (Len(r.parts) <= 1 => Front(r.parts) = <<>>)
  <2>1. PICK s \in Seq(Parts), x \in Parts : r.parts = Append(s, x)
    BY <1>3, <1>4, SequenceEmptyOrAppend
  <2>2. Front(r.parts) = s /\ Last(r.parts) = x
    BY <2>1, FrontOfAppend
  <2>3. Len(r.parts) = Len(s) + 1 /\ Len(s) \in Nat /\ (Len(s) = 0 => s = <<>>)
    BY <2>1, AppendProperties, LenProperties, EmptySeq
  <2> QED
    BY <2>1, <2>2, <2>3
<1> QED
  BY <1>1, <1>3, <1>4

\* A request's parent directory is where all its names but the last lead.
LEMMA ParentWalk ==
    ASSUME IsTree(tree), NEW r \in Requests, ParentOf(r) # NoPath
    PROVE  /\ ParentOf(r) \in DOMAIN tree
           /\ r.parts # <<>> => WalkIn(tree, Home \o Front(r.parts)) = {ParentOf(r)}
           /\ r.parts = <<>> /\ r.abs => ParentOf(r) = Home
<1> DEFINE d == Dirname(r).parts
<1>1. WalkIn(tree, Home) = {Home} /\ DirIn(tree, Home)
  BY HomePath, WalkAlong DEF IsTree, DirIn
<1>2. d = IF Len(r.parts) > 1 THEN Front(r.parts) ELSE IF r.abs THEN <<>> ELSE <<".">>
  BY DEF Dirname
<1>3. Dirname(r).slash = FALSE
  BY DEF Dirname
<1>4. ParentOf(r) = RealIn(tree, Home \o d, FALSE)
  BY <1>3, RealHere DEF ParentOf, JoinAndResolve
<1> HIDE DEF d
<1>5. <<".">> = Append(<<>>, ".") /\ <<>> \in Seq(Parts)
  BY EmptySeq
<1>6. /\ Home \o <<>> = Home
      /\ Home \o <<".">> = Append(Home, ".")
  BY HomePath, ConcatEmptySeq, AppendIsConcat
<1>7. <<".">> \in Seq(Parts)
  BY <1>5, HomePath, AppendProperties
<1>8. d \in Seq(Parts) /\ Home \o d \in Seq(Parts)
  <2>1. CASE r.parts = <<>>
    <3>1. Len(r.parts) = 0
      BY <2>1
    <3>2. d \in Seq(Parts)
      BY <1>2, <1>5, <1>7, <3>1
    <3> QED
      BY <3>2, HomePath, ConcatProperties
  <2>2. CASE r.parts # <<>>
    <3>1. d \in Seq(Parts)
      BY <1>2, <1>5, <1>7, <2>2, RequestParts
    <3> QED
      BY <3>1, HomePath, ConcatProperties
  <2> QED
    BY <2>1, <2>2
<1>9. WalkIn(tree, Home \o d) = {ParentOf(r)} /\ ParentOf(r) \in DOMAIN tree
  BY <1>4, <1>8, RealWalks
<1>10. WalkIn(tree, Home \o <<".">>) = {Home}
  <2>1. \A y : y \in WalkIn(tree, Append(Home, ".")) <=> \E p \in WalkIn(tree, Home) : y \in FollowIn(tree, p, ".")
    BY HomePath, WalkOn
  <2>2. FollowIn(tree, Home, ".") = {Home}
    BY <1>1 DEF FollowIn, DirIn
  <2> QED
    BY <1>1, <1>6, <2>1, <2>2
<1>11. CASE r.parts = <<>>
  <2>1. Len(r.parts) = 0
    BY <1>11
  <2>2. r.abs => d = <<>>
    BY <1>2, <2>1
  <2>3. r.abs => {ParentOf(r)} = {Home}
    BY <1>1, <1>6, <1>9, <2>2
  <2> QED
    BY <1>9, <1>11, <2>3
<1>12. CASE r.parts # <<>>
  <2>1. CASE Len(r.parts) > 1
    BY <1>2, <1>9, <1>12, <2>1
  <2>2. CASE ~(Len(r.parts) > 1)
    <3>1. Front(r.parts) = <<>>
      BY <1>12, <2>2, RequestParts
    <3>2. WalkIn(tree, Home \o d) = {Home}
      BY <1>1, <1>2, <1>6, <1>10, <2>2
    <3> QED
      BY <1>1, <1>6, <1>9, <1>12, <3>1, <3>2
  <2> QED
    BY <2>1, <2>2
<1> QED
  BY <1>11, <1>12

\* Real of a path of names, and of one that ends with "..".
LEMMA RealOfPath ==
    ASSUME IsTree(tree), NEW p \in Seq(Names)
    PROVE  /\ Real(p, FALSE) = IF p \in DOMAIN tree THEN p ELSE NoPath
<1>1. WalkIn(tree, p) = {p} \cap DOMAIN tree /\ p \in Seq(Parts)
  BY HomePath, WalkAlong, SeqMonotonic
<1>2. Real(p, FALSE) = RealIn(tree, p, FALSE)
  BY RealHere
<1>3. CASE p \in DOMAIN tree
  <2>1. WalkIn(tree, p) = {p}
    BY <1>1, <1>3
  <2>2. RealIn(tree, p, FALSE) = p
    BY <1>1, <2>1, RealWalks
  <2> QED
    BY <1>2, <1>3, <2>2
<1>4. CASE p \notin DOMAIN tree
  <2>1. WalkIn(tree, p) = {}
    BY <1>1, <1>4
  <2>2. RealIn(tree, p, FALSE) = NoPath
    BY <1>1, <2>1, RealWalks
  <2> QED
    BY <1>2, <1>4, <2>2
<1> QED
  BY <1>3, <1>4

LEMMA RealOfUp ==
    ASSUME IsTree(tree), NEW q \in DOMAIN tree, q # <<>>
    PROVE  Real(Append(q, ".."), FALSE) = IF IsDir(q) THEN Front(q) ELSE NoPath
<1>1. q \in Seq(Names) /\ WalkIn(tree, q) = {q} /\ q \in Seq(Parts)
  <2>1. q \in Seq(Names)
    BY DEF IsTree
  <2> QED
    BY <2>1, HomePath, WalkAlong, SeqMonotonic
<1>2. \A y : y \in WalkIn(tree, Append(q, "..")) <=> \E p \in WalkIn(tree, q) : y \in FollowIn(tree, p, "..")
  BY <1>1, HomePath, WalkOn
<1>3. WalkIn(tree, Append(q, "..")) = FollowIn(tree, q, "..")
  BY <1>1, <1>2
<1>4. FollowIn(tree, q, "..") = IF DirIn(tree, q) THEN {Front(q)} ELSE {}
  BY ".." # "." DEF FollowIn, DirIn
<1>5. Append(q, "..") \in Seq(Parts)
  BY <1>1, HomePath, AppendProperties
<1>6. Real(Append(q, ".."), FALSE) = RealIn(tree, Append(q, ".."), FALSE)
  BY RealHere
<1>7. IsDir(q) <=> DirIn(tree, q)
  BY RealHere
<1>8. CASE DirIn(tree, q)
  <2>1. WalkIn(tree, Append(q, "..")) = {Front(q)}
    BY <1>3, <1>4, <1>8
  <2>2. RealIn(tree, Append(q, ".."), FALSE) = Front(q)
    BY <1>5, <2>1, RealWalks
  <2> QED
    BY <1>6, <1>7, <1>8, <2>2
<1>9. CASE ~DirIn(tree, q)
  <2>1. WalkIn(tree, Append(q, "..")) = {}
    BY <1>3, <1>4, <1>9
  <2>2. RealIn(tree, Append(q, ".."), FALSE) = NoPath
    BY <1>5, <2>1, RealWalks
  <2> QED
    BY <1>6, <1>7, <1>9, <2>2
<1> QED
  BY <1>8, <1>9

\* Where something is made.
LEMMA Place ==
    ASSUME IsTree(tree), NEW r \in Requests,
           f_valid_resolve(r) # NoPath, IsDir(Parent(f_valid_resolve(r))),
           ~IsDir(Target(f_valid_resolve(r)))
    PROVE  /\ r.parts # <<>> /\ Last(r.parts) \in Names
           /\ ParentOf(r) \in DOMAIN tree /\ DirIn(tree, ParentOf(r))
           /\ WalkIn(tree, Home \o Front(r.parts)) = {ParentOf(r)}
           /\ f_valid_resolve(r) = Append(ParentOf(r), Last(r.parts))
           /\ Append(Parent(f_valid_resolve(r)), Last(f_valid_resolve(r))) = f_valid_resolve(r)
           /\ f_valid_resolve(r) \in Seq(Names) /\ f_valid_resolve(r) # <<>>
           /\ Front(f_valid_resolve(r)) = ParentOf(r)
           /\ Within(f_valid_resolve(r))
           /\ (Exists(Target(f_valid_resolve(r))) <=> f_valid_resolve(r) \in DOMAIN tree)
<1> DEFINE p == f_valid_resolve(r)
           q == ParentOf(r)
           n == Last(r.parts)
<1>1. /\ q # NoPath /\ q # <<>> /\ Basename(r) # "." /\ Within(p)
      /\ p = IF Basename(r) = "/" THEN q ELSE Append(q, Basename(r))
  BY DEF f_valid_resolve, Final
<1>2. /\ q \in DOMAIN tree /\ q \in Seq(Names)
      /\ r.parts # <<>> => WalkIn(tree, Home \o Front(r.parts)) = {q}
      /\ r.parts = <<>> /\ r.abs => q = Home
  BY <1>1, ParentWalk DEF IsTree
<1>3. IsDir(Parent(p)) /\ ~IsDir(Target(p))
  OBVIOUS
<1> HIDE DEF p, q
<1>4. r.parts # <<>>
  <2> SUFFICES ASSUME r.parts = <<>> PROVE FALSE
    OBVIOUS
  <2>1. r.abs /\ p = Home
    BY <1>1, <1>2 DEF Basename
  <2>2. Target(p) = Home
    BY <2>1, HomePath, RealOfPath DEF Target, IsTree, DirIn
  <2> QED
    BY <1>3, <2>2, RealHere DEF IsTree
<1>5. n \in Parts /\ Basename(r) = n /\ p = Append(q, n)
  BY <1>1, <1>4, HomePath, RequestParts DEF Basename
<1>6. n # ".."
  <2> SUFFICES ASSUME n = ".." PROVE FALSE
    OBVIOUS
  <2>1. Front(p) = q
    <3>1. q \in Seq(Parts)
      BY <1>2, HomePath, SeqMonotonic
    <3> QED
      BY <1>5, <3>1, FrontOfAppend
  <2>2. Parent(p) = q
    BY <1>2, <2>1, RealOfPath DEF Parent
  <2>3. IsDir(q)
    BY <1>3, <2>2
  <2>4. Target(p) = Front(q)
    BY <1>1, <1>2, <1>5, <2>3, RealOfUp DEF Target
  <2> QED
    BY <1>1, <1>2, <1>3, <2>4, RealHere DEF IsTree
<1>7. n \in Names
  BY <1>1, <1>5, <1>6 DEF Parts
<1>8. p \in Seq(Names) /\ p # <<>> /\ Front(p) = q /\ Last(p) = n
  BY <1>2, <1>5, <1>7, FrontOfAppend
<1>9. Parent(p) = q
  BY <1>2, <1>8, RealOfPath DEF Parent
<1>10. Exists(Target(p)) <=> p \in DOMAIN tree
  <2>1. Target(p) = IF p \in DOMAIN tree THEN p ELSE NoPath
    BY <1>8, RealOfPath DEF Target
  <2>2. NoPath \notin DOMAIN tree
    BY HomePath DEF IsTree
  <2> QED
    BY <2>1, <2>2 DEF Exists
<1>11. DirIn(tree, q)
  BY <1>3, <1>9, RealHere
<1> QED
  BY <1>1, <1>2, <1>4, <1>5, <1>7, <1>8, <1>9, <1>10, <1>11 DEF p, q

\* f_path_resolve by way of the tree it looks at.
ResolveIn(t, r) ==
    LET p == RealIn(t, Home \o r.parts, r.slash)
    IN  IF TooLong(r) \/ p = NoPath \/ ~Within(p) THEN NoPath ELSE p

LEMMA ResolveHere ==
    /\ \A r : f_path_resolve(r) = ResolveIn(tree, r)
    /\ \A r : f_path_resolve(r)' = ResolveIn(tree', r)
  BY RealHere, RealThere DEF f_path_resolve, ResolveIn, JoinAndResolve

LEMMA RealIs ==
    ASSUME NEW t, NEW s, NEW slash, NEW p, WalkIn(t, s) = {p}, slash => DirIn(t, p)
    PROVE  RealIn(t, s, slash) = p
  BY DEF RealIn

\* Where the whole path of a request leads, when its last name is one.
LEMMA WholeWalk ==
    ASSUME NEW t, NEW r \in Requests, r.parts # <<>>, Last(r.parts) \in Names,
           NEW q, WalkIn(t, Home \o Front(r.parts)) = {q}, DirIn(t, q)
    PROVE  /\ Home \o r.parts \in Seq(Parts)
           /\ WalkIn(t, Home \o r.parts) = {Append(q, Last(r.parts))} \cap DOMAIN t
<1> DEFINE s == Front(r.parts)
           n == Last(r.parts)
<1>1. s \in Seq(Parts) /\ n \in Parts /\ r.parts = Append(s, n)
  BY RequestParts
<1>2. Home \in Seq(Parts) /\ n # "." /\ n # ".."
  BY HomePath
<1> HIDE DEF s, n
<1>3. /\ Home \o s \in Seq(Parts) /\ <<n>> \in Seq(Parts)
      /\ Append(s, n) = s \o <<n>> /\ Append(Home \o s, n) = (Home \o s) \o <<n>>
  <2>1. Home \o s \in Seq(Parts)
    BY <1>1, <1>2, ConcatProperties
  <2>2. Append(s, n) = s \o <<n>> /\ Append(Home \o s, n) = (Home \o s) \o <<n>>
    BY <1>1, <2>1, AppendIsConcat
  <2>3. <<n>> \in Seq(Parts)
    BY <1>1
  <2> QED
    BY <2>1, <2>2, <2>3
<1>4. Home \o r.parts = Append(Home \o s, n)
  BY <1>1, <1>2, <1>3, ConcatAssociative
<1>5. \A y : y \in WalkIn(t, Append(Home \o s, n)) <=>
                \E p \in WalkIn(t, Home \o s) : y \in FollowIn(t, p, n)
  BY <1>1, <1>3, WalkOn
<1>6. WalkIn(t, Home \o s) = {q}
  BY DEF s
<1>7. FollowIn(t, q, n) = {Append(q, n)} \cap DOMAIN t
  BY <1>2 DEF FollowIn, DirIn
<1>8. Append(Home \o s, n) \in Seq(Parts)
  BY <1>1, <1>3, AppendProperties
<1> QED
  BY <1>4, <1>5, <1>6, <1>7, <1>8 DEF n

\* What is made keeps the tree a tree.
LEMMA TreeGrows ==
    ASSUME IsTree(tree), NEW p \in Seq(Names), p # <<>>, DirIn(tree, Front(p)),
           NEW kind, p \in DOMAIN tree => ~DirIn(tree, p) \/ kind = "dir",
           NEW u, DOMAIN u = DOMAIN tree \cup {p}, u[p] = kind,
           \A q \in DOMAIN tree : q # p => u[q] = tree[q]
    PROVE  /\ IsTree(u) /\ DOMAIN tree \subseteq DOMAIN u /\ p \in DOMAIN u /\ u[p] = kind
           /\ \A q : DirIn(tree, q) => DirIn(u, q)
<1>1. \A q : DirIn(tree, q) => DirIn(u, q)
  BY DEF DirIn
<1>2. DOMAIN u \subseteq Seq(Names)
  BY DEF IsTree
<1>3. ASSUME NEW q \in DOMAIN u, q # <<>> PROVE DirIn(u, Front(q))
  BY <1>1, <1>3 DEF IsTree
<1> QED
  BY <1>1, <1>2, <1>3 DEF IsTree

\* do_make_dir and do_put_file make something.
LEMMA MakeKeeps ==
    ASSUME PathInv, NEW r \in Requests, NEW op, NEW kind,
           NEW p, p = f_valid_resolve(r), p # NoPath, IsDir(Parent(p)), ~IsDir(Target(p)),
           Make(op, r, p, kind),
           \/ op = "mkdir" /\ kind = "dir" /\ ~Exists(Target(p))
           \/ op = "put" /\ kind = "file" /\ f_path_resolve(r) = NoPath
    PROVE  PathInv'
<1> DEFINE n == Last(r.parts)
           q == ParentOf(r)
<1>1. IsTree(tree) /\ MadeInHome
  BY DEF PathInv
<1>2. /\ r.parts # <<>> /\ n \in Names
      /\ q \in DOMAIN tree /\ DirIn(tree, q) /\ WalkIn(tree, Home \o Front(r.parts)) = {q}
      /\ p = Append(q, n) /\ Append(Parent(p), Last(p)) = p
      /\ p \in Seq(Names) /\ p # <<>> /\ Front(p) = q /\ Within(p)
      /\ (Exists(Target(p)) <=> p \in DOMAIN tree)
  BY <1>1, Place
<1> HIDE DEF n, q
<1>3. /\ tree' = [x \in DOMAIN tree \cup {p} |-> IF x = p THEN kind ELSE tree[x]]
      /\ made' = [op |-> op, request |-> r, place |-> p, existed |-> Exists(p)]
      /\ ret' = "OP_SUCCESS"
  BY <1>2 DEF Make
<1>4. p \in DOMAIN tree => ~DirIn(tree, p)
  <2>1. p \in DOMAIN tree => Target(p) = p
    BY <1>1, <1>2, RealOfPath DEF Target
  <2> QED
    BY <2>1, RealHere
<1>5. /\ IsTree(tree') /\ DOMAIN tree \subseteq DOMAIN tree' /\ p \in DOMAIN tree' /\ tree'[p] = kind
      /\ \A x : DirIn(tree, x) => DirIn(tree', x)
  <2>1. /\ DOMAIN tree' = DOMAIN tree \cup {p} /\ tree'[p] = kind
        /\ \A x \in DOMAIN tree : x # p => tree'[x] = tree[x]
    BY <1>3
  <2>2. DirIn(tree, Front(p))
    BY <1>2
  <2> QED
    BY <1>1, <1>2, <1>4, <2>1, <2>2, TreeGrows
<1>6. MadeInHome'
  <2>1. DOMAIN tree' = DOMAIN tree \cup {p}
    BY <1>3
  <2> QED
    BY <1>1, <1>2, <2>1 DEF MadeInHome, Within
<1>7. Home \o Front(r.parts) \in Seq(Parts) /\ Home \o r.parts \in Seq(Parts)
  <2>1. Front(r.parts) \in Seq(Parts) /\ r.parts \in Seq(Parts)
    BY <1>2, RequestParts
  <2> QED
    BY <2>1, HomePath, ConcatProperties
<1>8. WalkIn(tree', Home \o Front(r.parts)) = {q}
  <2>1. WalkIn(tree, Home \o Front(r.parts)) \subseteq WalkIn(tree', Home \o Front(r.parts))
    BY <1>1, <1>5, <1>7, WalkGrows
  <2>2. \A x, y \in WalkIn(tree', Home \o Front(r.parts)) : x = y
    BY <1>5, <1>7, WalkStays
  <2> QED
    BY <1>2, <2>1, <2>2
<1>9. MadeIsFound'
  <2>1. WalkIn(tree', Home \o r.parts) = {p}
    <3>1. DirIn(tree', q) /\ Last(r.parts) \in Names
      BY <1>2, <1>5 DEF n
    <3>2. WalkIn(tree', Home \o r.parts) = {Append(q, Last(r.parts))} \cap DOMAIN tree'
      BY <1>2, <1>8, <3>1, WholeWalk
    <3> QED
      BY <1>2, <1>5, <3>2 DEF n
  <2>2. CASE TooLong(r)
    BY <1>3, <2>2 DEF MadeIsFound, TooLong
  <2>3. CASE op = "put" /\ r.slash
    BY <1>3, <2>3 DEF MadeIsFound
  <2>4. CASE ~TooLong(r) /\ ~(op = "put" /\ r.slash)
    <3>1. r.slash => DirIn(tree', p)
      <4>1. r.slash \in BOOLEAN
        BY RequestParts
      <4> QED
        BY <1>5, <2>4, <4>1 DEF DirIn
    <3>2. RealIn(tree', Home \o r.parts, r.slash) = p
      BY <2>1, <3>1, RealIs
    <3>3. ResolveIn(tree', r) = p
      BY <1>2, <2>4, <3>2 DEF ResolveIn
    <3>4. made'.request = r /\ made'.place = p
      BY <1>3
    <3>5. f_path_resolve(made.request)' = ResolveIn(tree', made'.request)
      BY RealThere DEF f_path_resolve, ResolveIn, JoinAndResolve, Real, RealIn, Walk, WalkIn, Follow, FollowIn, IsDir, Exists, DirIn
    <3> QED
      BY <3>3, <3>4, <3>5 DEF MadeIsFound
  <2> QED
    BY <2>2, <2>3, <2>4
<1>10. PutReplacesNothing'
  <2> SUFFICES ASSUME Exists(p), ~(op = "put" /\ (TooLong(r) \/ r.slash)) PROVE FALSE
    BY <1>3 DEF PutReplacesNothing, TooLong
  <2>1. p \in DOMAIN tree
    BY DEF Exists
  <2>2. op = "put" /\ f_path_resolve(r) = NoPath /\ ~TooLong(r) /\ ~r.slash
    BY <1>2, <2>1
  <2>3. WalkIn(tree, Home \o r.parts) = {p}
    <3>1. WalkIn(tree, Home \o r.parts) = {Append(q, Last(r.parts))} \cap DOMAIN tree
      BY <1>2, WholeWalk DEF n
    <3> QED
      BY <1>2, <2>1, <3>1 DEF n
  <2>4. RealIn(tree, Home \o r.parts, r.slash) = p
    <3>1. r.slash = FALSE
      BY <2>2, RequestParts
    <3>2. RealIn(tree, Home \o r.parts, FALSE) = p
      BY <2>3, RealIs
    <3> QED
      BY <3>1, <3>2
  <2>5. ResolveIn(tree, r) = p
    BY <1>2, <2>2, <2>4 DEF ResolveIn
  <2>6. f_path_resolve(r) = ResolveIn(tree, r)
    BY ResolveHere
  <2> QED
    BY <2>2, <2>5, <2>6
<1> QED
  BY <1>5, <1>6, <1>9, <1>10 DEF PathInv

\* Between the requests nothing that was said of the last one changes.
LEMMA PathInvStays ==
    ASSUME PathInv, tree' = tree, ret' # "OP_SUCCESS"
    PROVE  PathInv'
<1>1. IsTree(tree')
  BY DEF PathInv
<1>2. MadeInHome'
  BY DEF PathInv, MadeInHome, Within
<1> QED
  BY <1>1, <1>2 DEF PathInv, MadeIsFound, PutReplacesNothing

\* The directories that lead to d.
LEMMA SubPath ==
    ASSUME NEW d \in Seq(Names), NEW p \in At(d)
    PROVE  p \in Seq(Names) /\ (p # <<>> => Front(p) \in At(d))
<1>1. PICK n \in 0..Len(d) : p = SubSeq(d, 1, n)
  BY DEF At
<1>2. Len(d) \in Nat /\ n \in Nat
  BY LenProperties
<1>3. p \in Seq(Names) /\ Len(p) = n /\ \A i \in 1..n : p[i] = d[i]
  <2>1. 1 \in 1..Len(d) + 1 /\ n \in 1 - 1..Len(d)
    BY <1>2
  <2> QED
    BY <1>1, <1>2, <2>1, SubSeqProperties
<1>4. ASSUME p # <<>> PROVE Front(p) \in At(d)
  <2>1. n # 0
    BY <1>3, <1>4, EmptySeq
  <2>2. n - 1 \in 0..Len(d) /\ n - 1 \in Nat
    BY <1>2, <2>1
  <2>3. SubSeq(d, 1, n - 1) \in Seq(Names) /\ Len(SubSeq(d, 1, n - 1)) = n - 1
        /\ \A i \in 1..n - 1 : SubSeq(d, 1, n - 1)[i] = d[i]
    <3>1. 1 \in 1..Len(d) + 1 /\ n - 1 \in 1 - 1..Len(d)
      BY <1>2, <2>1
    <3> QED
      BY <2>2, <3>1, SubSeqProperties
  <2>4. /\ Front(p) \in Seq(Names) /\ Len(Front(p)) = n - 1
        /\ \A i \in 1..n - 1 : Front(p)[i] = p[i]
    <3>1. 1 \in 1..Len(p) + 1 /\ n - 1 \in 1 - 1..Len(p)
      BY <1>2, <1>3, <2>1
    <3> QED
      BY <1>3, <2>2, <3>1, SubSeqProperties DEF Front
  <2>5. \A i \in 1..n - 1 : Front(p)[i] = SubSeq(d, 1, n - 1)[i]
    BY <1>2, <1>3, <2>1, <2>3, <2>4
  <2>6. Front(p) = SubSeq(d, 1, n - 1)
    BY <2>3, <2>4, <2>5, SeqEqual
  <2> QED
    BY <2>2, <2>6 DEF At
<1> QED
  BY <1>3, <1>4

LEMMA PathInitInv == PathInit => PathInv
<1> SUFFICES ASSUME PathInit PROVE PathInv
  OBVIOUS
<1>1. /\ DOMAIN tree = At(Home) \cup UNION {At(d) : d \in Outside}
      /\ \A p \in DOMAIN tree : tree[p] = "dir"
      /\ ret = "NONE"
  BY DEF PathInit
<1>2. Home \in Seq(Names) /\ \A d \in Outside : d \in Seq(Names)
  BY PathsAssumption
<1>3. DOMAIN tree \subseteq Seq(Names)
  BY <1>1, <1>2, SubPath
<1>4. Home \in At(Home) /\ <<>> \in At(Home)
  <2>1. Len(Home) \in 0..Len(Home) /\ 0 \in 0..Len(Home)
    BY <1>2, LenProperties
  <2>2. SubSeq(Home, 1, Len(Home)) = Home
    BY <1>2, SubSeqFull
  <2>3. SubSeq(Home, 1, 0) = <<>>
    BY <1>2, SubSeqEmpty
  <2> QED
    BY <2>1, <2>2, <2>3 DEF At
<1>5. \A p \in DOMAIN tree : p # <<>> => DirIn(tree, Front(p))
  <2> SUFFICES ASSUME NEW p \in DOMAIN tree, p # <<>> PROVE Front(p) \in DOMAIN tree
    BY <1>1 DEF DirIn
  <2>1. CASE p \in At(Home)
    BY <1>1, <1>2, <2>1, SubPath
  <2>2. CASE p \notin At(Home)
    <3>1. PICK d \in Outside : p \in At(d)
      BY <1>1, <2>2
    <3> QED
      BY <1>1, <1>2, <3>1, SubPath
  <2> QED
    BY <2>1, <2>2
<1>6. IsTree(tree)
  BY <1>1, <1>3, <1>4, <1>5 DEF IsTree, DirIn
<1> QED
  BY <1>1, <1>6 DEF PathInv, MadeInHome, MadeIsFound, PutReplacesNothing

LEMMA PathInvHolds == PathSpec => []PathInv
<1>1. PathInv /\ [PathNext]_pathVars => PathInv'
  <2> SUFFICES ASSUME PathInv, [PathNext]_pathVars PROVE PathInv'
    OBVIOUS
  <2>1. ASSUME NEW r \in Requests, MakeDir(r) PROVE PathInv'
    <3> DEFINE p == f_valid_resolve(r)
    <3>1. CASE \E code : Answer(code) /\ code # "OP_SUCCESS"
      BY <3>1, PathInvStays DEF Answer
    <3>2. CASE /\ p # NoPath /\ ~Exists(Target(p)) /\ IsDir(Parent(p))
               /\ Make("mkdir", r, p, "dir")
      <4>1. ~IsDir(Target(p))
        BY <3>2 DEF IsDir
      <4> HIDE DEF p
      <4>2. p = f_valid_resolve(r)
        BY DEF p
      <4> QED
        BY <3>2, <4>1, <4>2, MakeKeeps
    <3> HIDE DEF p
    <3> QED
      BY <2>1, <3>1, <3>2 DEF MakeDir, p
  <2>2. ASSUME NEW r \in Requests, Put(r) PROVE PathInv'
    <3> DEFINE p == f_valid_resolve(r)
    <3>1. CASE \E code : Answer(code) /\ code # "OP_SUCCESS"
      BY <3>1, PathInvStays DEF Answer
    <3>2. CASE /\ f_path_resolve(r) = NoPath
               /\ p # NoPath /\ ~IsDir(Target(p)) /\ IsDir(Parent(p))
               /\ Make("put", r, p, "file")
      <4> HIDE DEF p
      <4>1. p = f_valid_resolve(r)
        BY DEF p
      <4> QED
        BY <3>2, <4>1, MakeKeeps
    <3> HIDE DEF p
    <3> QED
      BY <2>2, <3>1, <3>2 DEF Put, Write, p
  <2>3. ASSUME NEW r \in Requests, JoinOverrun(r) PROVE PathInv'
    BY <2>3, PathInvStays DEF JoinOverrun, Answer
  <2>4. CASE Reply
    BY <2>4, PathInvStays DEF Reply
  <2>5. CASE UNCHANGED pathVars
    <3>1. tree' = tree /\ ret' = ret /\ made' = made
      BY <2>5 DEF pathVars
    <3>2. \A r : f_path_resolve(r)' = f_path_resolve(r)
      BY <3>1, ResolveHere
    <3>3. f_path_resolve(made.request)' = f_path_resolve(made.request)
      BY <3>1 DEF f_path_resolve, JoinAndResolve, TooLong, Within, Real, Walk, Follow, IsDir, Exists
    <3>4. IsTree(tree') /\ MadeInHome'
      BY <3>1 DEF PathInv, MadeInHome, Within
    <3>5. MadeIsFound'
      BY <3>1, <3>3 DEF PathInv, MadeIsFound, TooLong
    <3>6. PutReplacesNothing'
      BY <3>1 DEF PathInv, PutReplacesNothing, TooLong
    <3> QED
      BY <3>4, <3>5, <3>6 DEF PathInv
  <2> QED
    BY <2>1, <2>2, <2>3, <2>4, <2>5 DEF PathNext
<1> QED
  BY <1>1, PathInitInv, PTL DEF PathSpec

(***************************************************************************)
(* f_valid_resolve: no sequence of uploads and new directories puts        *)
(* anything outside of the home directory and of what is beside it under a *)
(* name that begins with the home directory's.                             *)
(***************************************************************************)
THEOREM MakesInHome == PathSpec => []MadeInHome
<1>1. PathInv => MadeInHome
  BY DEF PathInv
<1> QED
  BY <1>1, PathInvHolds, PTL

(***************************************************************************)
(* f_path_resolve finds what was made, by the path it was made under, with *)
(* the exceptions that MadeIsFound names.                                  *)
(***************************************************************************)
THEOREM FindsWhatIsMade == PathSpec => []MadeIsFound
<1>1. PathInv => MadeIsFound
  BY DEF PathInv
<1> QED
  BY <1>1, PathInvHolds, PTL

(***************************************************************************)
(* do_put_file replaces a file's content only under a path that is too     *)
(* long for f_path_resolve or ends with a slash; do_make_dir never.        *)
(***************************************************************************)
THEOREM ReplacesNothing == PathSpec => []PutReplacesNothing
<1>1. PathInv => PutReplacesNothing
  BY DEF PathInv
<1> QED
  BY <1>1, PathInvHolds, PTL
=============================================================================
