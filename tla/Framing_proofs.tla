--------------------------- MODULE Framing_proofs ---------------------------
(***************************************************************************)
(* Proofs about Framing: what the worker reads is the request, what the    *)
(* client reads is the answer.  ReadInv, SentInv and AnswerInv make up the *)
(* inductive invariant.                                                    *)
(***************************************************************************)
EXTENDS Framing, SequenceTheorems, WellFoundedInduction, NaturalsInduction, TLAPS

-----------------------------------------------------------------------------
(***************************************************************************)
(* Induction over numbers, for a set in place of an operator, and what is  *)
(* defined step by step.                                                   *)
(***************************************************************************)

LEMMA Induct ==
    ASSUME NEW S, 0 \in S, \A n \in Nat : n \in S => n + 1 \in S
    PROVE  Nat \subseteq S
<1>1. SUFFICES ASSUME Nat \ S # {} PROVE FALSE
  OBVIOUS
<1>2. PICK m \in Nat \ S : \A k \in Nat \ S : ~(<<k, m>> \in OpToRel(<, Nat))
  BY <1>1, WFMin, NatLessThanWellFounded
<1>3. m # 0 /\ m - 1 \in Nat /\ m - 1 < m
  OBVIOUS
<1>4. m - 1 \in S
  BY <1>2, <1>3 DEF OpToRel
<1> QED
  BY <1>3, <1>4

\* What is defined step by step is defined for any number of steps.
IsChain(S, first, Step, n, f) ==
    /\ f \in [0..n -> S] /\ f[0] = first
    /\ \A k \in 1..n : f[k] = Step[<<k, f[k - 1]>>]

LEMMA Chain ==
    ASSUME NEW S, NEW first \in S, NEW Step \in [Nat \X S -> S], NEW m \in Nat
    PROVE  \E f : IsChain(S, first, Step, m, f)
<1> DEFINE P(n) == \E f : /\ f \in [0..n -> S] /\ f[0] = first
                          /\ \A k \in 1..n : f[k] = Step[<<k, f[k - 1]>>]
           T == {n \in Nat : P(n)}
<1>1. P(0)
  <2> DEFINE f == [k \in 0..0 |-> first]
  <2>1. f \in [0..0 -> S] /\ f[0] = first /\ \A k \in 1..0 : f[k] = Step[<<k, f[k - 1]>>]
    OBVIOUS
  <2> QED
    BY <2>1
<1>2. ASSUME NEW n \in Nat, P(n) PROVE P(n + 1)
  <2>1. PICK f : /\ f \in [0..n -> S] /\ f[0] = first
                 /\ \A k \in 1..n : f[k] = Step[<<k, f[k - 1]>>]
    BY <1>2
  <2> DEFINE x == Step[<<n + 1, f[n]>>]
             g == [k \in 0..n+1 |-> IF k \in 0..n THEN f[k] ELSE x]
  <2>2. x \in S
    <3>1. f[n] \in S /\ n + 1 \in Nat
      BY <2>1
    <3> QED
      BY <3>1
  <2>3. g[n + 1] = x /\ \A k \in 0..n : g[k] = f[k]
    OBVIOUS
  <2>4. g \in [0..n+1 -> S]
    BY <2>1, <2>2
  <2> HIDE DEF g
  <2>5. ASSUME NEW k \in 1..n+1 PROVE g[k] = Step[<<k, g[k - 1]>>]
    <3>1. CASE k = n + 1
      BY <2>3, <3>1
    <3>2. CASE k \in 1..n
      <4>1. k \in 0..n /\ k - 1 \in 0..n
        BY <3>2
      <4> QED
        BY <2>1, <2>3, <3>2, <4>1
    <3> QED
      BY <3>1, <3>2
  <2>6. g[0] = first
    BY <2>1, <2>3
  <2> QED
    BY <2>4, <2>5, <2>6
<1> HIDE DEF P
<1>3. 0 \in T /\ \A n \in Nat : n \in T => n + 1 \in T
  BY <1>1, <1>2
<1> HIDE DEF T
<1>4. Nat \subseteq T
  BY <1>3, Induct
<1> QED
  BY <1>4 DEF P, T, IsChain

\* Place.
IsPlace(w, f) == f = [k \in 0..w |-> IF k = 0 THEN 1 ELSE 256 * f[k - 1]]

LEMMA PlaceChain ==
    ASSUME NEW w \in Nat
    PROVE  \E f : /\ f \in [0..w -> Nat] /\ f[0] = 1
                  /\ \A k \in 1..w : f[k] = 256 * f[k - 1]
                  /\ Place(w) = f[w]
<1> DEFINE Step == [p \in Nat \X Nat |-> 256 * p[2]]
<1>1. PICK f : /\ f \in [0..w -> Nat] /\ f[0] = 1
               /\ \A k \in 1..w : f[k] = Step[<<k, f[k - 1]>>]
  <2>1. Step \in [Nat \X Nat -> Nat] /\ 1 \in Nat
    OBVIOUS
  <2> HIDE DEF Step
  <2>2. \E f : IsChain(Nat, 1, Step, w, f)
    BY <2>1, Chain
  <2> QED
    BY <2>2 DEF IsChain
<1>2. ASSUME NEW k \in 1..w PROVE f[k] = 256 * f[k - 1]
  <2>1. k \in Nat /\ f[k - 1] \in Nat /\ f[k] = Step[<<k, f[k - 1]>>]
    BY <1>1
  <2> QED
    BY <2>1
<1>3. IsPlace(w, f)
  <2>1. \A k \in 0..w : f[k] = IF k = 0 THEN 1 ELSE 256 * f[k - 1]
    BY <1>1, <1>2
  <2> QED
    BY <1>1, <2>1 DEF IsPlace
<1> DEFINE g == CHOOSE h : IsPlace(w, h)
<1>4. Place(w) = g[w]
  BY DEF Place, IsPlace
<1>5. IsPlace(w, g)
  BY <1>3
<1> HIDE DEF g
<1>6. g[0] = 1 /\ \A k \in 1..w : g[k] = 256 * g[k - 1]
  BY <1>5 DEF IsPlace
<1>7. \A k \in Nat : k <= w => g[k] \in Nat
  <2> DEFINE T == {k \in Nat : k <= w => g[k] \in Nat}
  <2>1. 0 \in T
    BY <1>6
  <2>2. ASSUME NEW k \in Nat, k \in T PROVE k + 1 \in T
    <3>1. k + 1 <= w => g[k + 1] = 256 * g[k] /\ g[k] \in Nat
      BY <1>6, <2>2
    <3> QED
      BY <3>1
  <2> HIDE DEF T
  <2>3. Nat \subseteq T
    BY <2>1, <2>2, Induct
  <2> QED
    BY <2>3 DEF T
<1>8. g \in [0..w -> Nat]
  <2>1. g = [k \in 0..w |-> g[k]]
    BY <1>5 DEF IsPlace
  <2> QED
    BY <1>7, <2>1
<1> QED
  BY <1>4, <1>6, <1>8

-----------------------------------------------------------------------------
(***************************************************************************)
(* Numbers in bytes (struct.pack, read_stream): a number that a field      *)
(* holds is read from it again.                                            *)
(***************************************************************************)

LEMMA PlaceOn ==
    /\ Place(0) = 1
    /\ \A w \in Nat : Place(w) \in Nat \ {0} /\ Place(w + 1) = 256 * Place(w)
<1>1. Place(0) = 1
  <2>1. 0 \in Nat
    OBVIOUS
  <2> QED
    BY <2>1, PlaceChain
<1>2. ASSUME NEW w \in Nat PROVE Place(w) \in Nat /\ Place(w + 1) = 256 * Place(w)
  <2>1. PICK f : /\ f \in [0..w -> Nat] /\ f[0] = 1
                 /\ \A k \in 1..w : f[k] = 256 * f[k - 1]
                 /\ Place(w) = f[w]
    BY PlaceChain
  <2>2. w + 1 \in Nat
    OBVIOUS
  <2>3. PICK g : /\ g \in [0..w+1 -> Nat] /\ g[0] = 1
                 /\ \A k \in 1..w+1 : g[k] = 256 * g[k - 1]
                 /\ Place(w + 1) = g[w + 1]
    BY <2>2, PlaceChain
  <2> DEFINE T == {k \in Nat : k <= w => f[k] = g[k]}
  <2>4. 0 \in T
    BY <2>1, <2>3
  <2>5. ASSUME NEW k \in Nat, k \in T PROVE k + 1 \in T
    <3> SUFFICES ASSUME k + 1 <= w PROVE f[k + 1] = g[k + 1]
      OBVIOUS
    <3>1. f[k] = g[k] /\ k + 1 \in 1..w /\ k + 1 \in 1..w+1 /\ (k + 1) - 1 = k
      BY <2>5
    <3> QED
      BY <2>1, <2>3, <3>1
  <2>6. Nat \subseteq T
    <3> HIDE DEF T
    <3> QED
      BY <2>4, <2>5, Induct
  <2>7. f[w] = g[w]
    BY <2>6
  <2>8. w + 1 \in 1..w+1 /\ (w + 1) - 1 = w /\ w \in 0..w
    OBVIOUS
  <2> QED
    BY <2>1, <2>3, <2>7, <2>8
<1> DEFINE T == {w \in Nat : Place(w) # 0}
<1>3. 0 \in T
  BY <1>1
<1>4. ASSUME NEW w \in Nat, w \in T PROVE w + 1 \in T
  <2>1. Place(w) \in Nat /\ Place(w) # 0 /\ Place(w + 1) = 256 * Place(w)
    BY <1>2, <1>4
  <2> QED
    BY <2>1
<1>5. Nat \subseteq T
  <2> HIDE DEF T
  <2> QED
    BY <1>3, <1>4, Induct
<1> QED
  BY <1>1, <1>2, <1>5

LEMMA ByteOf ==
    ASSUME NEW b \in Bytes
    PROVE  Len(b) \in Nat /\ \A k \in 1..Len(b) : b[k] \in 0..255 /\ b[k] \in Nat
<1>1. b \in Seq(0..255)
  BY DEF Bytes
<1>2. Len(b) \in Nat /\ b \in [1..Len(b) -> 0..255]
  BY <1>1, LenProperties
<1>3. \A k \in 1..Len(b) : b[k] \in 0..255
  BY <1>2
<1>4. \A x \in 0..255 : x \in Nat
  OBVIOUS
<1> QED
  BY <1>2, <1>3, <1>4

\* Unpacked.
IsValue(b, f) == f = [i \in 0..Len(b) |-> IF i = 0 THEN 0 ELSE 256 * f[i - 1] + b[i]]

LEMMA UnpackedChain ==
    ASSUME NEW b \in Bytes
    PROVE  \E f : /\ f \in [0..Len(b) -> Nat] /\ f[0] = 0
                  /\ \A k \in 1..Len(b) : f[k] = 256 * f[k - 1] + b[k]
                  /\ Unpacked(b) = f[Len(b)]
<1> DEFINE n == Len(b)
           Step == [p \in Nat \X Nat |-> 256 * p[2] + (IF p[1] \in 1..n THEN b[p[1]] ELSE 0)]
<1>1. n \in Nat /\ \A k \in 1..n : b[k] \in Nat
  BY ByteOf
<1>2. PICK f : /\ f \in [0..n -> Nat] /\ f[0] = 0
               /\ \A k \in 1..n : f[k] = Step[<<k, f[k - 1]>>]
  <2>1. Step \in [Nat \X Nat -> Nat] /\ 0 \in Nat
    <3>1. ASSUME NEW p \in Nat \X Nat
          PROVE  256 * p[2] + (IF p[1] \in 1..n THEN b[p[1]] ELSE 0) \in Nat
      <4>1. p[1] \in Nat /\ p[2] \in Nat
        OBVIOUS
      <4> QED
        BY <1>1, <4>1
    <3> QED
      BY <3>1
  <2> HIDE DEF Step, n
  <2>2. \E f : IsChain(Nat, 0, Step, n, f)
    BY <1>1, <2>1, Chain
  <2> QED
    BY <2>2 DEF IsChain
<1>3. ASSUME NEW k \in 1..n PROVE f[k] = 256 * f[k - 1] + b[k]
  <2>1. k \in Nat /\ k - 1 \in 0..n
    BY <1>1
  <2>2. f[k - 1] \in Nat
    BY <1>2, <2>1
  <2>3. f[k] = Step[<<k, f[k - 1]>>]
    BY <1>2
  <2>4. <<k, f[k - 1]>> \in Nat \X Nat
    BY <2>1, <2>2
  <2>5. Step[<<k, f[k - 1]>>] = 256 * f[k - 1] + b[k]
    BY <2>4
  <2> QED
    BY <2>3, <2>5
<1>4. IsValue(b, f)
  <2>1. \A k \in 0..n : f[k] = IF k = 0 THEN 0 ELSE 256 * f[k - 1] + b[k]
    BY <1>1, <1>2, <1>3
  <2> QED
    BY <1>2, <2>1 DEF IsValue
<1> DEFINE g == CHOOSE h : IsValue(b, h)
<1>5. Unpacked(b) = g[n]
  BY DEF Unpacked, IsValue
<1>6. IsValue(b, g)
  BY <1>4
<1> HIDE DEF g
<1>7. g[0] = 0 /\ \A k \in 1..n : g[k] = 256 * g[k - 1] + b[k]
  BY <1>1, <1>6 DEF IsValue
<1>8. \A k \in Nat : k <= n => g[k] \in Nat
  <2> DEFINE T == {k \in Nat : k <= n => g[k] \in Nat}
  <2>1. 0 \in T
    BY <1>7
  <2>2. ASSUME NEW k \in Nat, k \in T PROVE k + 1 \in T
    <3> SUFFICES ASSUME k + 1 <= n PROVE g[k + 1] \in Nat
      OBVIOUS
    <3>1. k + 1 \in 1..n /\ (k + 1) - 1 = k /\ g[k] \in Nat
      BY <1>1, <2>2
    <3>2. g[k + 1] = 256 * g[k] + b[k + 1] /\ b[k + 1] \in Nat
      BY <1>1, <1>7, <3>1
    <3> QED
      BY <3>1, <3>2
  <2> HIDE DEF T
  <2>3. Nat \subseteq T
    BY <2>1, <2>2, Induct
  <2> QED
    BY <2>3 DEF T
<1>9. g \in [0..n -> Nat]
  <2>1. g = [k \in 0..n |-> g[k]]
    BY <1>6 DEF IsValue
  <2> QED
    BY <1>1, <1>8, <2>1
<1> QED
  BY <1>5, <1>7, <1>9

\* What is read from w bytes is a number that w bytes hold.
LEMMA UnpackedIn ==
    ASSUME NEW b \in Bytes
    PROVE  Unpacked(b) \in 0..Place(Len(b)) - 1
<1> DEFINE n == Len(b)
<1>1. PICK f : /\ f \in [0..n -> Nat] /\ f[0] = 0
               /\ \A k \in 1..n : f[k] = 256 * f[k - 1] + b[k]
               /\ Unpacked(b) = f[n]
  BY UnpackedChain
<1>2. n \in Nat /\ \A k \in 1..n : b[k] \in 0..255
  BY ByteOf
<1> HIDE DEF n
<1> DEFINE T == {k \in Nat : k <= n => f[k] < Place(k)}
<1>3. 0 \in T
  BY <1>1, PlaceOn
<1>4. ASSUME NEW k \in Nat, k \in T PROVE k + 1 \in T
  <2> SUFFICES ASSUME k + 1 <= n PROVE f[k + 1] < Place(k + 1)
    OBVIOUS
  <2>1. k + 1 \in 1..n /\ (k + 1) - 1 = k /\ f[k] \in Nat /\ f[k] < Place(k)
    BY <1>1, <1>2, <1>4
  <2>2. f[k + 1] = 256 * f[k] + b[k + 1] /\ b[k + 1] \in 0..255
    BY <1>1, <1>2, <2>1
  <2>3. Place(k) \in Nat /\ Place(k + 1) = 256 * Place(k)
    BY PlaceOn
  <2> QED
    BY <2>1, <2>2, <2>3
<1>5. Nat \subseteq T
  <2> HIDE DEF T
  <2> QED
    BY <1>3, <1>4, Induct
<1>6. f[n] \in Nat /\ f[n] < Place(n) /\ Place(n) \in Nat
  BY <1>1, <1>2, <1>5, PlaceOn
<1> QED
  BY <1>1, <1>6 DEF n

\* Packed.
IsHigh(n, w, f) == f = [k \in 0..w |-> IF k = 0 THEN n ELSE f[k - 1] \div 256]

\* f is what is left of n, byte by byte, and gives its bytes.
IsPacked(n, w, f) ==
    /\ f \in [0..w -> Nat] /\ f[0] = n
    /\ \A k \in 1..w : f[k] = f[k - 1] \div 256
    /\ Packed(n, w) = [i \in 1..w |-> f[w - i] % 256]

LEMMA PackedChain ==
    ASSUME NEW n \in Nat, NEW w \in Nat
    PROVE  \E f : IsPacked(n, w, f)
<1> DEFINE Step == [p \in Nat \X Nat |-> p[2] \div 256]
<1>1. PICK f : /\ f \in [0..w -> Nat] /\ f[0] = n
               /\ \A k \in 1..w : f[k] = Step[<<k, f[k - 1]>>]
  <2>1. Step \in [Nat \X Nat -> Nat]
    OBVIOUS
  <2> HIDE DEF Step
  <2>2. \E f : IsChain(Nat, n, Step, w, f)
    BY <2>1, Chain
  <2> QED
    BY <2>2 DEF IsChain
<1>2. ASSUME NEW k \in 1..w PROVE f[k] = f[k - 1] \div 256
  <2>1. k \in Nat /\ f[k - 1] \in Nat /\ f[k] = Step[<<k, f[k - 1]>>]
    BY <1>1
  <2> QED
    BY <2>1
<1>3. IsHigh(n, w, f)
  <2>1. \A k \in 0..w : f[k] = IF k = 0 THEN n ELSE f[k - 1] \div 256
    BY <1>1, <1>2
  <2> QED
    BY <1>1, <2>1 DEF IsHigh
<1> DEFINE g == CHOOSE h : IsHigh(n, w, h)
<1>4. Packed(n, w) = [i \in 1..w |-> g[w - i] % 256]
  BY DEF Packed, IsHigh
<1>5. IsHigh(n, w, g)
  BY <1>3
<1> HIDE DEF g
<1>6. g[0] = n /\ \A k \in 1..w : g[k] = g[k - 1] \div 256
  BY <1>5 DEF IsHigh
<1>7. \A k \in Nat : k <= w => g[k] \in Nat
  <2> DEFINE T == {k \in Nat : k <= w => g[k] \in Nat}
  <2>1. 0 \in T
    BY <1>6
  <2>2. ASSUME NEW k \in Nat, k \in T PROVE k + 1 \in T
    <3> SUFFICES ASSUME k + 1 <= w PROVE g[k + 1] \in Nat
      OBVIOUS
    <3>1. g[k + 1] = g[k] \div 256 /\ g[k] \in Nat
      BY <1>6, <2>2
    <3> QED
      BY <3>1
  <2> HIDE DEF T
  <2>3. Nat \subseteq T
    BY <2>1, <2>2, Induct
  <2> QED
    BY <2>3 DEF T
<1>8. g \in [0..w -> Nat]
  <2>1. g = [k \in 0..w |-> g[k]]
    BY <1>5 DEF IsHigh
  <2> QED
    BY <1>7, <2>1
<1> QED
  BY <1>4, <1>6, <1>8 DEF IsPacked

\* What is packed in w bytes is w bytes.
LEMMA PackedIn ==
    ASSUME NEW n \in Nat, NEW w \in Nat
    PROVE  Packed(n, w) \in Bytes /\ Len(Packed(n, w)) = w
<1>1. PICK f : /\ f \in [0..w -> Nat]
               /\ Packed(n, w) = [i \in 1..w |-> f[w - i] % 256]
  <2>1. PICK f : IsPacked(n, w, f)
    BY PackedChain
  <2> QED
    BY <2>1 DEF IsPacked
<1>2. \A i \in 1..w : f[w - i] % 256 \in 0..255
  <2> TAKE i \in 1..w
  <2>1. f[w - i] \in Nat
    BY <1>1
  <2> QED
    BY <2>1
<1> QED
  BY <1>1, <1>2 DEF Bytes

\* struct.pack of the client and ntohll of the server, write_response and
\* struct.unpack: a number that w bytes hold is read from them as it was written,
\* however many they are.
THEOREM UnpackedPacked ==
    ASSUME NEW n \in Nat, NEW w \in Nat, n < Place(w)
    PROVE  Unpacked(Packed(n, w)) = n
<1> DEFINE b == Packed(n, w)
<1>1. PICK h : /\ h \in [0..w -> Nat] /\ h[0] = n
               /\ \A k \in 1..w : h[k] = h[k - 1] \div 256
               /\ b = [i \in 1..w |-> h[w - i] % 256]
  <2>1. PICK h : IsPacked(n, w, h)
    BY PackedChain
  <2> QED
    BY <2>1 DEF IsPacked
<1>2. b \in Bytes /\ Len(b) = w
  BY PackedIn
<1> HIDE DEF b
<1>3. PICK f : /\ f \in [0..w -> Nat] /\ f[0] = 0
               /\ \A k \in 1..w : f[k] = 256 * f[k - 1] + b[k]
               /\ Unpacked(b) = f[w]
  BY <1>2, UnpackedChain
<1>4. h[w] = 0
  <2> DEFINE T == {k \in Nat : k <= w => h[k] < Place(w - k)}
  <2>1. 0 \in T
    BY <1>1
  <2>2. ASSUME NEW k \in Nat, k \in T PROVE k + 1 \in T
    <3> SUFFICES ASSUME k + 1 <= w PROVE h[k + 1] < Place(w - (k + 1))
      OBVIOUS
    <3> DEFINE m == w - (k + 1)
    <3>1. m \in Nat /\ m + 1 = w - k
      OBVIOUS
    <3>2. h[k] \in Nat /\ h[k] < Place(m + 1) /\ h[k + 1] = h[k] \div 256
      BY <1>1, <2>2, <3>1
    <3>3. Place(m) \in Nat /\ Place(m + 1) = 256 * Place(m)
      BY <3>1, PlaceOn
    <3> HIDE DEF m
    <3>4. h[k] < 256 * Place(m)
      BY <3>2, <3>3
    <3>5. h[k] \div 256 < Place(m)
      BY <3>2, <3>3, <3>4
    <3> QED
      BY <3>2, <3>5 DEF m
  <2> HIDE DEF T
  <2>3. Nat \subseteq T
    BY <2>1, <2>2, Induct
  <2>4. h[w] < Place(w - w) /\ w - w = 0
    BY <2>3 DEF T
  <2>5. h[w] < 1
    BY <2>4, PlaceOn
  <2>6. h[w] \in Nat
    BY <1>1
  <2> QED
    BY <2>5, <2>6
<1> DEFINE U == {k \in Nat : k <= w => f[k] = h[w - k]}
<1>5. 0 \in U
  BY <1>3, <1>4
<1>6. ASSUME NEW k \in Nat, k \in U PROVE k + 1 \in U
  <2> SUFFICES ASSUME k + 1 <= w PROVE f[k + 1] = h[w - (k + 1)]
    OBVIOUS
  <2> DEFINE m == w - (k + 1)
  <2>1. m \in 0..w /\ m + 1 \in 1..w /\ m + 1 = w - k /\ (m + 1) - 1 = m
        /\ k + 1 \in 1..w /\ (k + 1) - 1 = k
    OBVIOUS
  <2>2. f[k + 1] = 256 * f[k] + b[k + 1]
    BY <1>3, <2>1
  <2>3. f[k] = h[m + 1]
    BY <1>6, <2>1
  <2>4. h[m + 1] = h[m] \div 256 /\ h[m] \in Nat
    BY <1>1, <2>1
  <2>5. b[k + 1] = h[m] % 256
    BY <1>1, <2>1
  <2> HIDE DEF m
  <2>6. h[m] = 256 * h[m + 1] + b[k + 1]
    BY <2>4, <2>5
  <2>7. f[k + 1] = h[m]
    BY <2>2, <2>3, <2>4, <2>5, <2>6
  <2> QED
    BY <2>7 DEF m
<1>7. Nat \subseteq U
  <2> HIDE DEF U
  <2> QED
    BY <1>5, <1>6, Induct
<1>8. f[w] = h[w - w] /\ w - w = 0
  BY <1>7
<1> QED
  BY <1>1, <1>3, <1>8 DEF b

-----------------------------------------------------------------------------
(***************************************************************************)
(* Texts one after the other.                                              *)
(***************************************************************************)

LEMMA Glued ==
    ASSUME NEW a \in Bytes, NEW b \in Bytes
    PROVE  /\ a \o b \in Bytes /\ Len(a \o b) = Len(a) + Len(b)
           /\ \A i \in 1..Len(a) : (a \o b)[i] = a[i]
           /\ \A i \in 1..Len(b) : (a \o b)[Len(a) + i] = b[i]
<1>1. a \in Seq(0..255) /\ b \in Seq(0..255) /\ Len(a) \in Nat /\ Len(b) \in Nat
  BY LenProperties DEF Bytes
<1>2. /\ a \o b \in Seq(0..255) /\ Len(a \o b) = Len(a) + Len(b)
      /\ \A i \in 1..Len(a) + Len(b) : (a \o b)[i] = IF i <= Len(a) THEN a[i] ELSE b[i - Len(a)]
  BY <1>1, ConcatProperties
<1>3. ASSUME NEW i \in 1..Len(a) PROVE (a \o b)[i] = a[i]
  <2>1. i \in 1..Len(a) + Len(b) /\ i <= Len(a)
    BY <1>1
  <2> QED
    BY <1>2, <2>1
<1>4. ASSUME NEW i \in 1..Len(b) PROVE (a \o b)[Len(a) + i] = b[i]
  <2>1. Len(a) + i \in 1..Len(a) + Len(b) /\ ~(Len(a) + i <= Len(a)) /\ (Len(a) + i) - Len(a) = i
    BY <1>1
  <2> QED
    BY <1>2, <2>1
<1> QED
  BY <1>2, <1>3, <1>4 DEF Bytes

LEMMA NoBytes == <<>> \in Bytes /\ Len(<<>>) = 0 /\ \A b \in Bytes : Len(b) = 0 => b = <<>>
  BY EmptySeq DEF Bytes

LEMMA SameBytes ==
    ASSUME NEW a \in Bytes, NEW b \in Bytes, Len(a) = Len(b), \A i \in 1..Len(a) : a[i] = b[i]
    PROVE  a = b
  BY SeqEqual DEF Bytes

LEMMA GluedTwice ==
    ASSUME NEW a \in Bytes, NEW b \in Bytes, NEW c \in Bytes
    PROVE  /\ (a \o b) \o c = a \o (b \o c)
           /\ <<>> \o a = a /\ a \o <<>> = a
  BY ConcatAssociative, ConcatEmptySeq DEF Bytes

\* A part of s.
LEMMA PartOf ==
    ASSUME NEW s \in Bytes, NEW n \in 0..Len(s)
    PROVE  /\ SubSeq(s, 1, n) \in Bytes /\ Len(SubSeq(s, 1, n)) = n
           /\ \A i \in 1..n : SubSeq(s, 1, n)[i] = s[i]
           /\ SubSeq(s, n + 1, Len(s)) \in Bytes /\ Len(SubSeq(s, n + 1, Len(s))) = Len(s) - n
           /\ \A i \in 1..Len(s) - n : SubSeq(s, n + 1, Len(s))[i] = s[n + i]
<1> DEFINE S == 0..255
           p == SubSeq(s, 1, n)
           r == SubSeq(s, n + 1, Len(s))
<1>1. s \in Seq(S) /\ Len(s) \in Nat /\ n \in Nat /\ \A i \in 1..Len(s) : s[i] \in S
  BY ByteOf DEF Bytes
<1> HIDE DEF S
<1>2. \A i \in 1..n : s[i] \in S
  BY <1>1
<1>3. \A i \in n + 1..Len(s) : s[i] \in S
  BY <1>1
<1>4. p \in Seq(S) /\ Len(p) = n /\ \A i \in 1..n : p[i] = s[i]
  <2>1. 1 \in Int /\ n \in Int
    BY <1>1
  <2>2. /\ p \in Seq(S) /\ Len(p) = IF 1 <= n THEN n - 1 + 1 ELSE 0
        /\ \A i \in 1..n - 1 + 1 : p[i] = s[1 + i - 1]
    BY <1>2, <2>1, SubSeqProperties
  <2> HIDE DEF p
  <2>3. ASSUME NEW i \in 1..n PROVE p[i] = s[i]
    <3>1. i \in 1..n - 1 + 1 /\ 1 + i - 1 = i
      BY <1>1
    <3> QED
      BY <2>2, <3>1
  <2> QED
    BY <1>1, <2>2, <2>3
<1>5. /\ r \in Seq(S)
      /\ Len(r) = IF n + 1 <= Len(s) THEN Len(s) - (n + 1) + 1 ELSE 0
      /\ \A i \in 1..Len(s) - (n + 1) + 1 : r[i] = s[(n + 1) + i - 1]
  <2>1. n + 1 \in Int /\ Len(s) \in Int
    BY <1>1
  <2> QED
    BY <1>3, <2>1, SubSeqProperties
<1> HIDE DEF p, r
<1>6. Len(r) = Len(s) - n
  BY <1>1, <1>5
<1>7. ASSUME NEW i \in 1..Len(s) - n PROVE r[i] = s[n + i]
  <2>1. i \in 1..Len(s) - (n + 1) + 1 /\ (n + 1) + i - 1 = n + i
    BY <1>1
  <2> QED
    BY <1>5, <2>1
<1> QED
  BY <1>4, <1>5, <1>6, <1>7 DEF Bytes, p, r, S

LEMMA PartsGlued ==
    ASSUME NEW s \in Bytes, NEW n \in 0..Len(s)
    PROVE  SubSeq(s, 1, n) \o SubSeq(s, n + 1, Len(s)) = s
<1> DEFINE a == SubSeq(s, 1, n)
           b == SubSeq(s, n + 1, Len(s))
<1>1. /\ a \in Bytes /\ Len(a) = n /\ \A i \in 1..n : a[i] = s[i]
      /\ b \in Bytes /\ Len(b) = Len(s) - n /\ \A i \in 1..Len(s) - n : b[i] = s[n + i]
      /\ Len(s) \in Nat /\ n \in Nat
  BY PartOf, ByteOf
<1> HIDE DEF a, b
<1>2. /\ a \o b \in Bytes /\ Len(a \o b) = Len(s)
      /\ \A i \in 1..n : (a \o b)[i] = a[i]
      /\ \A i \in 1..Len(s) - n : (a \o b)[n + i] = b[i]
  BY <1>1, Glued
<1>3. ASSUME NEW i \in 1..Len(s) PROVE (a \o b)[i] = s[i]
  <2>1. CASE i <= n
    BY <1>1, <1>2, <2>1
  <2>2. CASE i > n
    <3>1. i - n \in 1..Len(s) - n /\ n + (i - n) = i
      BY <1>1, <2>2
    <3>2. (a \o b)[n + (i - n)] = s[n + (i - n)]
      BY <1>1, <1>2, <3>1
    <3> QED
      BY <3>1, <3>2
  <2> QED
    BY <1>1, <2>1, <2>2
<1> QED
  BY <1>2, <1>3, SameBytes DEF a, b

\* Of two ways to take a text apart.
LEMMA TakenApart ==
    ASSUME NEW a \in Bytes, NEW b \in Bytes, NEW c \in Bytes, NEW d \in Bytes,
           Len(a) = Len(c), a \o b = c \o d
    PROVE  a = c /\ b = d
<1>1. /\ Len(a) \in Nat /\ Len(b) \in Nat /\ Len(d) \in Nat
      /\ Len(a \o b) = Len(a) + Len(b) /\ Len(c \o d) = Len(c) + Len(d)
      /\ \A i \in 1..Len(a) : (a \o b)[i] = a[i] /\ (c \o d)[i] = c[i]
      /\ \A i \in 1..Len(b) : (a \o b)[Len(a) + i] = b[i]
      /\ \A i \in 1..Len(d) : (c \o d)[Len(c) + i] = d[i]
  <2>1. Len(a) \in Nat /\ Len(b) \in Nat /\ Len(d) \in Nat
    BY ByteOf
  <2>2. /\ Len(a \o b) = Len(a) + Len(b)
        /\ \A i \in 1..Len(a) : (a \o b)[i] = a[i]
        /\ \A i \in 1..Len(b) : (a \o b)[Len(a) + i] = b[i]
    BY Glued
  <2>3. /\ Len(c \o d) = Len(c) + Len(d)
        /\ \A i \in 1..Len(c) : (c \o d)[i] = c[i]
        /\ \A i \in 1..Len(d) : (c \o d)[Len(c) + i] = d[i]
    BY Glued
  <2> QED
    BY <2>1, <2>2, <2>3
<1>2. a = c
  BY <1>1, SameBytes
<1>3. Len(b) = Len(d)
  BY <1>1
<1>4. b = d
  BY <1>1, <1>3, SameBytes
<1> QED
  BY <1>2, <1>4

\* s is the beginning of u.
Begins(s, u) == Len(s) <= Len(u) /\ \A i \in 1..Len(s) : s[i] = u[i]

LEMMA BeginningTaken ==
    ASSUME NEW s \in Bytes, NEW c \in Bytes, NEW l \in Bytes, Begins(s, c \o l), Len(c) <= Len(s)
    PROVE  /\ SubSeq(s, 1, Len(c)) = c
           /\ SubSeq(s, Len(c) + 1, Len(s)) \in Bytes
           /\ Begins(SubSeq(s, Len(c) + 1, Len(s)), l)
<1> DEFINE n == Len(c)
           a == SubSeq(s, 1, n)
           b == SubSeq(s, n + 1, Len(s))
<1>1. /\ Len(s) \in Nat /\ n \in Nat /\ Len(l) \in Nat /\ n \in 0..Len(s)
      /\ Len(c \o l) = n + Len(l)
      /\ \A i \in 1..n : (c \o l)[i] = c[i]
      /\ \A i \in 1..Len(l) : (c \o l)[n + i] = l[i]
  <2>1. Len(s) \in Nat /\ n \in Nat /\ Len(l) \in Nat
    BY ByteOf
  <2> QED
    BY <2>1, Glued
<1>2. Len(s) <= Len(c \o l) /\ \A i \in 1..Len(s) : s[i] = (c \o l)[i]
  BY DEF Begins
<1> HIDE DEF n
<1>3. /\ a \in Bytes /\ Len(a) = n /\ \A i \in 1..n : a[i] = s[i]
      /\ b \in Bytes /\ Len(b) = Len(s) - n /\ \A i \in 1..Len(s) - n : b[i] = s[n + i]
  BY <1>1, PartOf
<1> HIDE DEF a, b
<1>4. a = c
  <2>1. \A i \in 1..n : a[i] = c[i]
    <3> TAKE i \in 1..n
    <3>1. i \in 1..Len(s)
      BY <1>1
    <3> QED
      BY <1>1, <1>2, <1>3, <3>1
  <2> QED
    BY <1>3, <2>1, SameBytes DEF n
<1>5. Begins(b, l)
  <2>1. Len(b) <= Len(l)
    BY <1>1, <1>2, <1>3
  <2>2. ASSUME NEW i \in 1..Len(b) PROVE b[i] = l[i]
    <3>1. i \in 1..Len(l) /\ n + i \in 1..Len(s) /\ i \in 1..Len(s) - n
      BY <1>1, <1>2, <1>3
    <3> QED
      BY <1>1, <1>2, <1>3, <3>1
  <2> QED
    BY <2>1, <2>2 DEF Begins
<1> QED
  BY <1>3, <1>4, <1>5 DEF a, b, n

\* Utf8.
IsFlat(t, f) == f = [i \in 1..Len(t) |-> IF i = 1 THEN t[i] ELSE f[i - 1] \o t[i]]

LEMMA Utf8Bytes ==
    ASSUME NEW t \in Text
    PROVE  /\ Utf8(t) \in Bytes
           /\ (\A i \in 1..Len(t) : Len(t[i]) = 1) => Len(Utf8(t)) = Len(t)
<1> DEFINE n == Len(t)
<1>1. n \in Nat /\ \A i \in 1..n : t[i] \in Bytes
  <2>1. t \in Seq(Bytes)
    BY DEF Text
  <2>2. Len(t) \in Nat /\ t \in [1..Len(t) -> Bytes]
    BY <2>1, LenProperties
  <2> QED
    BY <2>2
<1>2. CASE n = 0
  <2>1. t = <<>>
    BY <1>2, EmptySeq DEF Text
  <2>2. Utf8(t) = t
    BY <1>2 DEF Utf8, FlattenSeq
  <2> QED
    BY <1>2, <2>1, <2>2, NoBytes
<1>3. CASE n # 0
  <2> DEFINE Step == [p \in Nat \X Bytes |-> IF p[1] \in 1..n THEN p[2] \o t[p[1]] ELSE p[2]]
             nil == <<>>
  <2>1. Step \in [Nat \X Bytes -> Bytes]
    <3>1. ASSUME NEW p \in Nat \X Bytes
          PROVE  (IF p[1] \in 1..n THEN p[2] \o t[p[1]] ELSE p[2]) \in Bytes
      <4>1. p[2] \in Bytes
        OBVIOUS
      <4>2. CASE p[1] \in 1..n
        BY <1>1, <4>1, <4>2, Glued
      <4>3. CASE p[1] \notin 1..n
        BY <4>1, <4>3
      <4> QED
        BY <4>2, <4>3
    <3> QED
      BY <3>1
  <2>2. nil \in Bytes
    BY NoBytes
  <2>3. PICK h : IsChain(Bytes, nil, Step, n, h)
    <3> HIDE DEF Step, n, nil
    <3> QED
      BY <1>1, <2>1, <2>2, Chain
  <2>4. /\ h \in [0..n -> Bytes] /\ h[0] = nil
        /\ \A k \in 1..n : h[k] = Step[<<k, h[k - 1]>>]
    BY <2>3 DEF IsChain
  <2>5. ASSUME NEW k \in 1..n PROVE h[k] = h[k - 1] \o t[k]
    <3>1. k \in Nat /\ k - 1 \in 0..n
      BY <1>1
    <3>2. <<k, h[k - 1]>> \in Nat \X Bytes
      BY <2>4, <3>1
    <3>3. Step[<<k, h[k - 1]>>] = h[k - 1] \o t[k]
      BY <3>2
    <3> QED
      BY <2>4, <3>3
  <2> DEFINE f == [i \in 1..n |-> h[i]]
  <2>6. IsFlat(t, f)
    <3>1. ASSUME NEW i \in 1..n PROVE f[i] = IF i = 1 THEN t[i] ELSE f[i - 1] \o t[i]
      <4>1. CASE i = 1
        <5>1. h[1] = nil \o t[1] /\ t[1] \in Bytes
          BY <1>1, <2>4, <2>5, <4>1
        <5> QED
          BY <4>1, <5>1, GluedTwice
      <4>2. CASE i # 1
        <5>1. i - 1 \in 1..n
          BY <1>1, <4>2
        <5> QED
          BY <2>5, <4>2, <5>1
      <4> QED
        BY <4>1, <4>2
    <3> QED
      BY <3>1 DEF IsFlat
  <2> DEFINE g == CHOOSE x : IsFlat(t, x)
  <2>7. Utf8(t) = g[n]
    BY <1>3 DEF Utf8, FlattenSeq, IsFlat
  <2>8. IsFlat(t, g)
    BY <2>6
  <2> HIDE DEF g
  <2>9. \A i \in 1..n : g[i] = IF i = 1 THEN t[i] ELSE g[i - 1] \o t[i]
    BY <2>8 DEF IsFlat
  <2> DEFINE T == {k \in Nat : k + 1 <= n => g[k + 1] \in Bytes
                        /\ ((\A i \in 1..n : Len(t[i]) = 1) => Len(g[k + 1]) = k + 1)}
  <2>10. 0 \in T
    <3>1. g[1] = t[1] /\ t[1] \in Bytes /\ 1 \in 1..n
      BY <1>1, <1>3, <2>9
    <3> QED
      BY <3>1
  <2>11. ASSUME NEW k \in Nat, k \in T PROVE k + 1 \in T
    <3> SUFFICES ASSUME (k + 1) + 1 <= n
                 PROVE  g[(k + 1) + 1] \in Bytes
                        /\ ((\A i \in 1..n : Len(t[i]) = 1) => Len(g[(k + 1) + 1]) = (k + 1) + 1)
      OBVIOUS
    <3> DEFINE m == k + 1
    <3>1. m \in 1..n /\ m + 1 \in 1..n /\ m + 1 # 1 /\ (m + 1) - 1 = m
      BY <1>1
    <3>2. g[m] \in Bytes /\ ((\A i \in 1..n : Len(t[i]) = 1) => Len(g[m]) = m)
      BY <2>11, <3>1
    <3> HIDE DEF m
    <3>3. g[m + 1] = g[m] \o t[m + 1] /\ t[m + 1] \in Bytes
      BY <1>1, <2>9, <3>1
    <3>4. g[m + 1] \in Bytes /\ Len(g[m + 1]) = Len(g[m]) + Len(t[m + 1])
      BY <3>2, <3>3, Glued
    <3> QED
      BY <3>1, <3>2, <3>4 DEF m
  <2>12. Nat \subseteq T
    <3> HIDE DEF T
    <3> QED
      BY <2>10, <2>11, Induct
  <2>13. n - 1 \in Nat /\ (n - 1) + 1 = n
    BY <1>1, <1>3
  <2>14. n - 1 \in T
    BY <2>12, <2>13
  <2>15. g[n] \in Bytes /\ ((\A i \in 1..n : Len(t[i]) = 1) => Len(g[n]) = n)
    BY <1>1, <2>13, <2>14
  <2> QED
    BY <2>7, <2>15
<1> QED
  BY <1>2, <1>3

-----------------------------------------------------------------------------
(***************************************************************************)
(* A request, field by field, as the worker is to read it.                 *)
(***************************************************************************)

Common   == {"opcode", "flag", "reserved", "ulen", "plen", "sid", "user", "pass", "paylen"}
OfUser   == {"uflag", "perm", "nlen", "name"}
OfNew    == {"wlen", "word"}
OfPath   == {"pathlen", "path"}
OfFile   == {"hash", "file"}

\* The fields of the request r, and the one after f.
FieldsOf(r) ==
    Common \cup (IF r.op = LOCAL_OP THEN {}
                 ELSE IF r.op = USER_OP
                   THEN OfUser \cup (IF r.flag = CREATE_USER THEN OfNew ELSE {})
                   ELSE OfPath \cup (IF r.op = PUT_FILE THEN OfFile ELSE {}))

NextOf(f, r) ==
    CASE f = "opcode"   -> "flag"
      [] f = "flag"     -> "reserved"
      [] f = "reserved" -> "ulen"
      [] f = "ulen"     -> "plen"
      [] f = "plen"     -> "sid"
      [] f = "sid"      -> "user"
      [] f = "user"     -> "pass"
      [] f = "pass"     -> "paylen"
      [] f = "paylen"   -> IF r.op = LOCAL_OP THEN "done"
                           ELSE IF r.op = USER_OP THEN "uflag" ELSE "pathlen"
      [] f = "uflag"    -> "perm"
      [] f = "perm"     -> "nlen"
      [] f = "nlen"     -> "name"
      [] f = "name"     -> IF r.flag = CREATE_USER THEN "wlen" ELSE "done"
      [] f = "wlen"     -> "word"
      [] f = "word"     -> "done"
      [] f = "pathlen"  -> "path"
      [] f = "path"     -> IF r.op = PUT_FILE THEN "hash" ELSE "done"
      [] f = "hash"     -> "file"
      [] f = "file"     -> "done"

\* What r has in its fields.
Number(f, r) ==
    CASE f = "opcode"   -> r.op
      [] f = "flag"     -> r.flag
      [] f = "reserved" -> 0
      [] f = "ulen"     -> Len(r.user)
      [] f = "plen"     -> Len(r.pass)
      [] f = "sid"      -> r.sid
      [] f = "paylen"   -> Len(Payload(r))
      [] f = "uflag"    -> r.flag
      [] f = "perm"     -> r.perm
      [] f = "nlen"     -> Len(r.name)
      [] f = "wlen"     -> Len(r.word)
      [] f = "pathlen"  -> Len(r.path)

NumberWidth(f) ==
    CASE f \in {"opcode", "flag", "uflag", "perm"} -> 1
      [] f \in {"reserved", "ulen", "plen", "nlen", "wlen", "pathlen"} -> 2
      [] f = "sid"    -> H_SESSION_ID
      [] f = "paylen" -> H_PAYLOAD_LEN

String(f, r) ==
    CASE f = "user" -> Utf8(r.user)
      [] f = "pass" -> Utf8(r.pass)
      [] f = "name" -> Utf8(r.name)
      [] f = "word" -> Utf8(r.word)
      [] f = "path" -> Utf8(r.path)
      [] f = "hash" -> Digest(r.file)
      [] f = "file" -> r.file

Value(f, r) == IF f \in Numbers THEN Number(f, r) ELSE String(f, r)
Chunk(f, r) == IF f \in Numbers THEN Packed(Number(f, r), NumberWidth(f)) ELSE String(f, r)

\* What is left of it from a field on.
AtFile(r)     == Chunk("file", r) \o <<>>
AtHash(r)     == Chunk("hash", r) \o AtFile(r)
AtPath(r)     == Chunk("path", r) \o (IF r.op = PUT_FILE THEN AtHash(r) ELSE <<>>)
AtPathlen(r)  == Chunk("pathlen", r) \o AtPath(r)
AtWord(r)     == Chunk("word", r) \o <<>>
AtWlen(r)     == Chunk("wlen", r) \o AtWord(r)
AtName(r)     == Chunk("name", r) \o (IF r.flag = CREATE_USER THEN AtWlen(r) ELSE <<>>)
AtNlen(r)     == Chunk("nlen", r) \o AtName(r)
AtPerm(r)     == Chunk("perm", r) \o AtNlen(r)
AtUflag(r)    == Chunk("uflag", r) \o AtPerm(r)
AtPayload(r)  == IF r.op = LOCAL_OP THEN <<>>
                 ELSE IF r.op = USER_OP THEN AtUflag(r) ELSE AtPathlen(r)
AtPaylen(r)   == Chunk("paylen", r) \o AtPayload(r)
AtPass(r)     == Chunk("pass", r) \o AtPaylen(r)
AtUser(r)     == Chunk("user", r) \o AtPass(r)
AtSid(r)      == Chunk("sid", r) \o AtUser(r)
AtPlen(r)     == Chunk("plen", r) \o AtSid(r)
AtUlen(r)     == Chunk("ulen", r) \o AtPlen(r)
AtReserved(r) == Chunk("reserved", r) \o AtUlen(r)
AtFlag(r)     == Chunk("flag", r) \o AtReserved(r)
AtOpcode(r)   == Chunk("opcode", r) \o AtFlag(r)

Left(f, r) ==
    CASE f = "opcode"   -> AtOpcode(r)
      [] f = "flag"     -> AtFlag(r)
      [] f = "reserved" -> AtReserved(r)
      [] f = "ulen"     -> AtUlen(r)
      [] f = "plen"     -> AtPlen(r)
      [] f = "sid"      -> AtSid(r)
      [] f = "user"     -> AtUser(r)
      [] f = "pass"     -> AtPass(r)
      [] f = "paylen"   -> AtPaylen(r)
      [] f = "uflag"    -> AtUflag(r)
      [] f = "perm"     -> AtPerm(r)
      [] f = "nlen"     -> AtNlen(r)
      [] f = "name"     -> AtName(r)
      [] f = "wlen"     -> AtWlen(r)
      [] f = "word"     -> AtWord(r)
      [] f = "pathlen"  -> AtPathlen(r)
      [] f = "path"     -> AtPath(r)
      [] f = "hash"     -> AtHash(r)
      [] f = "file"     -> AtFile(r)
      [] f = "done"     -> <<>>

LEMMA FieldList == Fields = Common \cup OfUser \cup OfNew \cup OfPath \cup OfFile
  BY DEF Fields, Numbers, Strings, Common, OfUser, OfNew, OfPath, OfFile

LEMMA LeftOn ==
    ASSUME NEW r, NEW f \in FieldsOf(r)
    PROVE  /\ Left(f, r) = Chunk(f, r) \o Left(NextOf(f, r), r)
           /\ NextOf(f, r) \in FieldsOf(r) \cup {"done"}
           /\ f \in Fields
<1>1. CASE f \in Common
  <2>1. CASE f \in {"opcode", "flag", "reserved", "ulen"}
    BY <2>1 DEF NextOf, Left, AtOpcode, AtFlag, AtReserved, AtUlen, Common, FieldsOf, Fields, Numbers
  <2>2. CASE f \in {"plen", "sid", "user", "pass"}
    BY <2>2 DEF NextOf, Left, AtPlen, AtSid, AtUser, AtPass, Common, FieldsOf, Fields, Numbers, Strings
  <2>3. CASE f = "paylen"
    BY <2>3 DEF NextOf, Left, AtPaylen, AtPayload, Common, FieldsOf, Fields, Numbers, OfUser, OfPath
  <2> QED
    BY <1>1, <2>1, <2>2, <2>3 DEF Common
<1>2. CASE f \in OfUser \cup OfNew
  <2>0. r.op = USER_OP /\ r.op # LOCAL_OP /\ (f \in OfNew => r.flag = CREATE_USER)
    BY <1>2 DEF FieldsOf, Common, OfUser, OfNew, OfPath, OfFile, USER_OP, LOCAL_OP
  <2>1. CASE f \in {"uflag", "perm", "nlen"}
    BY <2>0, <2>1 DEF NextOf, Left, AtUflag, AtPerm, AtNlen, OfUser, FieldsOf, Fields, Numbers
  <2>2. CASE f = "name"
    BY <2>0, <2>2 DEF NextOf, Left, AtName, OfUser, OfNew, FieldsOf, Fields, Strings
  <2>3. CASE f \in OfNew
    BY <2>0, <2>3 DEF NextOf, Left, AtWlen, AtWord, OfNew, FieldsOf, Fields, Numbers, Strings
  <2> QED
    BY <1>2, <2>1, <2>2, <2>3 DEF OfUser
<1>3. CASE f \in OfPath \cup OfFile
  <2>0. r.op # USER_OP /\ r.op # LOCAL_OP /\ (f \in OfFile => r.op = PUT_FILE)
    BY <1>3 DEF FieldsOf, Common, OfUser, OfNew, OfPath, OfFile
  <2>1. CASE f = "pathlen"
    BY <2>0, <2>1 DEF NextOf, Left, AtPathlen, OfPath, FieldsOf, Fields, Numbers
  <2>2. CASE f = "path"
    BY <2>0, <2>2 DEF NextOf, Left, AtPath, OfPath, OfFile, FieldsOf, Fields, Strings
  <2>3. CASE f \in OfFile
    BY <2>0, <2>3 DEF NextOf, Left, AtHash, AtFile, OfFile, FieldsOf, Fields
  <2> QED
    BY <1>3, <2>1, <2>2, <2>3 DEF OfPath
<1> QED
  BY <1>1, <1>2, <1>3 DEF FieldsOf

-----------------------------------------------------------------------------
(***************************************************************************)
(* Its fields are bytes, and client_request lays them out one after the    *)
(* other.                                                                  *)
(***************************************************************************)

LEMMA Places == Place(1) = 256 /\ Place(2) \in Nat /\ Place(2) >= 256
<1>1. Place(0 + 1) = 256 * Place(0) /\ Place(1 + 1) = 256 * Place(1) /\ Place(0) = 1
  BY PlaceOn
<1>2. Place(1) = 256
  BY <1>1
<1> QED
  BY <1>1, <1>2

LEMMA RequestTyped ==
    ASSUME NEW r \in Requests
    PROVE  /\ r.op \in 0..255 /\ r.flag \in 0..255 /\ r.perm \in 0..255 /\ r.sid \in Nat
           /\ r.user \in Text /\ r.pass \in Text /\ r.name \in Text /\ r.word \in Text
           /\ r.path \in Text /\ r.file \in Bytes
           /\ r.sid < Place(H_SESSION_ID) /\ Len(Payload(r)) < Place(H_PAYLOAD_LEN)
           /\ Len(r.user) < Place(2) /\ Len(r.pass) < Place(2) /\ Len(r.name) < Place(2)
           /\ Len(r.word) < Place(2) /\ Len(r.path) < Place(2)
<1>1. r \in RequestFields
  BY FramingAssumption
<1>2. /\ r.op \in 0..255 /\ r.flag \in 0..255 /\ r.perm \in 0..255 /\ r.sid \in Nat
      /\ r.user \in Text /\ r.pass \in Text /\ r.name \in Text /\ r.word \in Text
      /\ r.path \in Text /\ r.file \in Bytes
  BY <1>1 DEF RequestFields
<1>3. /\ r.sid < Place(H_SESSION_ID) /\ Len(Payload(r)) < Place(H_PAYLOAD_LEN)
      /\ \A text \in {r.user, r.pass, r.name, r.word, r.path} : Len(text) < Place(2)
  BY SizesAssumption
<1> QED
  BY <1>2, <1>3

LEMMA TextLength ==
    ASSUME NEW t \in Text
    PROVE  Len(t) \in Nat /\ Utf8(t) \in Bytes
  BY LenProperties, Utf8Bytes DEF Text

LEMMA DigestOf ==
    ASSUME NEW c, c \in {r.file : r \in Requests} \cup {a.content : a \in Answers}
    PROVE  Digest(c) \in Bytes /\ Len(Digest(c)) = H_HASH_LEN
<1>1. Digest(c) \in [1..H_HASH_LEN -> 0..255] /\ H_HASH_LEN \in Nat
  BY FramingAssumption
<1> QED
  BY <1>1 DEF Bytes

LEMMA Widths ==
    /\ H_SESSION_ID \in Nat \ {0} /\ H_PAYLOAD_LEN \in Nat \ {0} /\ H_HASH_LEN \in Nat /\ H_HASH_LEN > 2
    /\ \A f \in Numbers : NumberWidth(f) \in Nat \ {0}
<1>1. H_SESSION_ID \in Nat \ {0} /\ H_PAYLOAD_LEN \in Nat \ {0} /\ H_HASH_LEN \in Nat /\ H_HASH_LEN > 2
  BY FramingAssumption
<1>2. ASSUME NEW f \in Numbers PROVE NumberWidth(f) \in Nat \ {0}
  <2>1. CASE f \in {"opcode", "flag", "uflag", "perm"}
    BY <2>1 DEF NumberWidth
  <2>2. CASE f \in {"reserved", "ulen", "plen", "nlen", "wlen", "pathlen"}
    BY <2>2 DEF NumberWidth
  <2>3. CASE f \in {"sid", "paylen"}
    BY <1>1, <2>3 DEF NumberWidth
  <2> QED
    BY <1>2, <2>1, <2>2, <2>3 DEF Numbers
<1> QED
  BY <1>1, <1>2

LEMMA Strung ==
    ASSUME NEW r \in Requests, NEW f \in Strings \cup OfFile
    PROVE  String(f, r) \in Bytes /\ f \notin Numbers
<1>1. CASE f \in Strings
  <2>1. /\ Utf8(r.user) \in Bytes /\ Utf8(r.pass) \in Bytes /\ Utf8(r.name) \in Bytes
        /\ Utf8(r.word) \in Bytes /\ Utf8(r.path) \in Bytes
    BY RequestTyped, TextLength
  <2> QED
    BY <1>1, <2>1 DEF String, Strings, Numbers
<1>2. CASE f \in OfFile
  <2>1. Digest(r.file) \in Bytes /\ r.file \in Bytes
    BY RequestTyped, DigestOf
  <2> QED
    BY <1>2, <2>1 DEF String, OfFile, Numbers
<1> QED
  BY <1>1, <1>2

LEMMA ChunkBytes ==
    ASSUME NEW r \in Requests, NEW f \in Fields, f # "paylen"
    PROVE  Chunk(f, r) \in Bytes
<1>1. CASE f \in Numbers
  <2>1. Number(f, r) \in Nat
    <3>1. CASE f \in {"opcode", "flag", "reserved", "sid", "uflag", "perm"}
      <4>1. r.op \in Nat /\ r.flag \in Nat /\ r.perm \in Nat /\ r.sid \in Nat /\ 0 \in Nat
        <5>1. \A x \in 0..255 : x \in Nat
          OBVIOUS
        <5> QED
          BY <5>1, RequestTyped
      <4>2. CASE f \in {"opcode", "flag", "reserved"}
        BY <4>1, <4>2 DEF Number
      <4>3. CASE f \in {"sid", "uflag", "perm"}
        BY <4>1, <4>3 DEF Number
      <4> QED
        BY <3>1, <4>2, <4>3
    <3>2. CASE f \in {"ulen", "plen", "nlen", "wlen", "pathlen"}
      <4>1. /\ Len(r.user) \in Nat /\ Len(r.pass) \in Nat /\ Len(r.name) \in Nat
            /\ Len(r.word) \in Nat /\ Len(r.path) \in Nat
        BY RequestTyped, TextLength
      <4> QED
        BY <3>2, <4>1 DEF Number
    <3> QED
      BY <1>1, <3>1, <3>2 DEF Numbers
  <2>2. NumberWidth(f) \in Nat
    BY <1>1, Widths
  <2>3. Packed(Number(f, r), NumberWidth(f)) \in Bytes
    BY <2>1, <2>2, PackedIn
  <2> QED
    BY <1>1, <2>3 DEF Chunk
<1>2. CASE f \notin Numbers
  BY <1>2, Strung DEF Fields, Chunk, OfFile
<1> QED
  BY <1>1, <1>2

LEMMA AfterBytes ==
    ASSUME NEW r \in Requests
    PROVE  /\ AtFile(r) \in Bytes /\ AtHash(r) \in Bytes /\ AtPath(r) \in Bytes
           /\ AtPathlen(r) \in Bytes /\ AtWord(r) \in Bytes /\ AtWlen(r) \in Bytes
           /\ AtName(r) \in Bytes /\ AtNlen(r) \in Bytes /\ AtPerm(r) \in Bytes
           /\ AtUflag(r) \in Bytes /\ AtPayload(r) \in Bytes
<1>1. \A f \in Fields \ {"paylen"} : \A b \in Bytes : Chunk(f, r) \o b \in Bytes
  BY ChunkBytes, Glued
<1>2. <<>> \in Bytes
  BY NoBytes
<1>3. AtFile(r) \in Bytes /\ AtWord(r) \in Bytes
  BY <1>1, <1>2 DEF AtFile, AtWord, Fields, Strings
<1>4. AtHash(r) \in Bytes
  BY <1>1, <1>3 DEF AtHash, Fields
<1>5. AtPath(r) \in Bytes
  BY <1>1, <1>2, <1>4 DEF AtPath, Fields, Strings
<1>6. AtPathlen(r) \in Bytes
  BY <1>1, <1>5 DEF AtPathlen, Fields, Numbers
<1>7. AtWlen(r) \in Bytes
  BY <1>1, <1>3 DEF AtWlen, Fields, Numbers
<1>8. AtName(r) \in Bytes
  BY <1>1, <1>2, <1>7 DEF AtName, Fields, Strings
<1>9. AtNlen(r) \in Bytes
  BY <1>1, <1>8 DEF AtNlen, Fields, Numbers
<1>10. AtPerm(r) \in Bytes
  BY <1>1, <1>9 DEF AtPerm, Fields, Numbers
<1>11. AtUflag(r) \in Bytes
  BY <1>1, <1>10 DEF AtUflag, Fields, Numbers
<1>12. AtPayload(r) \in Bytes
  BY <1>2, <1>6, <1>11 DEF AtPayload
<1> QED
  BY <1>3, <1>4, <1>5, <1>6, <1>7, <1>8, <1>9, <1>10, <1>11, <1>12

\* client_request lays the fields out one after the other.
LEMMA PayloadLaidOut ==
    ASSUME NEW r \in Requests
    PROVE  Payload(r) = AtPayload(r)
<1>1. CASE r.op = LOCAL_OP
  BY <1>1 DEF Payload, AtPayload, LOCAL_OP, USER_OP
<1>2. CASE r.op = USER_OP
  <2> DEFINE f == Packed(r.flag, 1)
             p == Packed(r.perm, 1)
             n == Packed(Len(r.name), 2)
             N == Utf8(r.name)
             w == Packed(Len(r.word), 2)
             W == Utf8(r.word)
             nil == <<>>
             sw == IF r.flag = CREATE_USER THEN w \o W ELSE nil
             aw == IF r.flag = CREATE_USER THEN w \o (W \o nil) ELSE nil
  <2>1. Payload(r) = ((f \o p) \o (n \o N)) \o sw
    <3>1. Payload(r) = UserPayload(r)
      BY <1>2 DEF Payload, USER_OP, LOCAL_OP
    <3>2. UserPayload(r) = ((f \o p) \o (n \o N)) \o sw
      BY DEF UserPayload, Sized
    <3> QED
      BY <3>1, <3>2
  <2>2. AtPayload(r) = f \o (p \o (n \o (N \o aw)))
    <3>1. Chunk("uflag", r) = f /\ Chunk("perm", r) = p /\ Chunk("nlen", r) = n
      BY DEF Chunk, Number, NumberWidth, Numbers
    <3>2. Chunk("name", r) = N /\ Chunk("wlen", r) = w /\ Chunk("word", r) = W
      BY DEF Chunk, Number, NumberWidth, Numbers, String
    <3> HIDE DEF f, p, n, N, w, W
    <3> QED
      <4>1. AtWlen(r) = w \o (W \o nil)
        BY <3>2 DEF AtWlen, AtWord
      <4>2. AtName(r) = N \o aw
        BY <3>2, <4>1 DEF AtName
      <4> HIDE DEF aw
      <4>3. AtUflag(r) = f \o (p \o (n \o (N \o aw)))
        BY <3>1, <4>2 DEF AtUflag, AtPerm, AtNlen
      <4>4. AtPayload(r) = AtUflag(r)
        BY <1>2 DEF AtPayload, USER_OP, LOCAL_OP
      <4> QED
        BY <4>3, <4>4
  <2>3. f \in Bytes /\ p \in Bytes /\ n \in Bytes /\ N \in Bytes /\ w \in Bytes /\ W \in Bytes
    <3>1. \A x \in 0..255 : x \in Nat
      OBVIOUS
    <3>2. r.flag \in Nat /\ r.perm \in Nat /\ r.name \in Text /\ r.word \in Text
      BY <3>1, RequestTyped
    <3>3. Len(r.name) \in Nat /\ Len(r.word) \in Nat /\ N \in Bytes /\ W \in Bytes
      BY <3>2, TextLength
    <3>4. \A x \in Nat : Packed(x, 1) \in Bytes /\ Packed(x, 2) \in Bytes
      BY PackedIn
    <3> QED
      BY <3>2, <3>3, <3>4
  <2>4. nil \in Bytes
    BY NoBytes
  <2> HIDE DEF f, p, n, N, w, W, nil
  <2>5. aw = sw /\ sw \in Bytes
    <3>1. W \o nil = W
      BY <2>3, GluedTwice DEF nil
    <3>2. w \o W \in Bytes
      BY <2>3, Glued
    <3> QED
      BY <2>4, <3>1, <3>2
  <2> HIDE DEF sw, aw
  <2>6. n \o N \in Bytes /\ N \o sw \in Bytes /\ f \o p \in Bytes
    BY <2>3, <2>5, Glued
  <2>7. n \o (N \o sw) = (n \o N) \o sw
    <3>1. n \in Bytes /\ N \in Bytes /\ sw \in Bytes
      BY <2>3, <2>5
    <3> QED
      BY <3>1, GluedTwice
  <2>8. (n \o N) \o sw \in Bytes
    BY <2>5, <2>6, Glued
  <2>9. f \o (p \o ((n \o N) \o sw)) = (f \o p) \o ((n \o N) \o sw)
    <3> DEFINE e == (n \o N) \o sw
    <3>1. f \in Bytes /\ p \in Bytes /\ e \in Bytes
      BY <2>3, <2>8
    <3> HIDE DEF e
    <3>2. f \o (p \o e) = (f \o p) \o e
      BY <3>1, GluedTwice
    <3> QED
      BY <3>2 DEF e
  <2>10. (f \o p) \o ((n \o N) \o sw) = ((f \o p) \o (n \o N)) \o sw
    BY <2>5, <2>6, GluedTwice
  <2> QED
    BY <2>1, <2>2, <2>5, <2>7, <2>9, <2>10
<1>3. CASE r.op # LOCAL_OP /\ r.op # USER_OP
  <2> DEFINE n == Packed(Len(r.path), 2)
             N == Utf8(r.path)
             d == Digest(r.file)
             c == r.file
             nil == <<>>
             sf == IF r.op = PUT_FILE THEN d \o c ELSE nil
             af == IF r.op = PUT_FILE THEN d \o (c \o nil) ELSE nil
  <2>1. Payload(r) = (n \o N) \o sf
    BY <1>3 DEF Payload, StdPayload, Sized
  <2>2. AtPayload(r) = n \o (N \o af)
    <3>1. Chunk("pathlen", r) = n /\ Chunk("path", r) = N
          /\ Chunk("hash", r) = d /\ Chunk("file", r) = c
      BY DEF Chunk, Number, NumberWidth, Numbers, String
    <3> HIDE DEF n, N, d, c
    <3> QED
      BY <1>3, <3>1 DEF AtPayload, AtPathlen, AtPath, AtHash, AtFile
  <2>3. n \in Bytes /\ N \in Bytes /\ d \in Bytes /\ c \in Bytes
    <3>1. Len(r.path) \in Nat /\ N \in Bytes /\ d \in Bytes /\ c \in Bytes
      BY RequestTyped, TextLength, DigestOf
    <3> QED
      BY <3>1, PackedIn
  <2>4. nil \in Bytes
    BY NoBytes
  <2> HIDE DEF n, N, d, c, nil
  <2>5. af = sf /\ sf \in Bytes
    <3>1. c \o nil = c
      BY <2>3, GluedTwice DEF nil
    <3>2. d \o c \in Bytes
      BY <2>3, Glued
    <3> QED
      BY <2>4, <3>1, <3>2
  <2> HIDE DEF sf, af
  <2>6. n \o (N \o sf) = (n \o N) \o sf
    <3>1. n \in Bytes /\ N \in Bytes /\ sf \in Bytes
      BY <2>3, <2>5
    <3> QED
      BY <3>1, GluedTwice
  <2> QED
    BY <2>1, <2>2, <2>5, <2>6
<1> QED
  BY <1>1, <1>2, <1>3

\* One after the other.
Joined(s, u) == s \o u

LEMMA JoinedOn ==
    /\ \A a, b \in Bytes : Joined(a, b) \in Bytes
    /\ \A a, b, c \in Bytes : Joined(Joined(a, b), c) = Joined(a, Joined(b, c))
<1>1. ASSUME NEW a \in Bytes, NEW b \in Bytes PROVE Joined(a, b) \in Bytes
  BY Glued DEF Joined
<1>2. ASSUME NEW a \in Bytes, NEW b \in Bytes, NEW c \in Bytes
      PROVE  Joined(Joined(a, b), c) = Joined(a, Joined(b, c))
  BY GluedTwice DEF Joined
<1> QED
  BY <1>1, <1>2

LEMMA FiveJoined ==
    ASSUME NEW a \in Bytes, NEW b \in Bytes, NEW c \in Bytes, NEW d \in Bytes, NEW e \in Bytes,
           NEW t \in Bytes
    PROVE  /\ Joined(Joined(Joined(Joined(Joined(a, b), c), d), e), t)
                = Joined(a, Joined(b, Joined(c, Joined(d, Joined(e, t)))))
           /\ Joined(Joined(Joined(Joined(a, b), c), d), e) \in Bytes
           /\ Joined(a, Joined(b, Joined(c, Joined(d, Joined(e, t))))) \in Bytes
<1> DEFINE ab == Joined(a, b)
           abc == Joined(ab, c)
           abcd == Joined(abc, d)
           et == Joined(e, t)
           dt == Joined(d, et)
           ct == Joined(c, dt)
           bt == Joined(b, ct)
<1>1. ab \in Bytes /\ et \in Bytes
  BY JoinedOn
<1>2. abc \in Bytes /\ dt \in Bytes
  BY <1>1, JoinedOn
<1>3. abcd \in Bytes /\ ct \in Bytes
  BY <1>2, JoinedOn
<1>4. Joined(abcd, e) \in Bytes /\ bt \in Bytes
  BY <1>3, JoinedOn
<1>5. Joined(a, bt) \in Bytes
  BY <1>4, JoinedOn
<1>6. Joined(Joined(abcd, e), t) = Joined(abcd, et)
  BY <1>3, JoinedOn
<1>7. Joined(abcd, et) = Joined(abc, dt)
  BY <1>1, <1>2, JoinedOn
<1>8. Joined(abc, dt) = Joined(ab, ct)
  BY <1>1, <1>2, JoinedOn
<1>9. Joined(ab, ct) = Joined(a, bt)
  BY <1>3, JoinedOn
<1> QED
  BY <1>4, <1>5, <1>6, <1>7, <1>8, <1>9

\* The request lays its fields out one after the other.
LEMMA WireLaidOut ==
    ASSUME NEW r \in Requests
    PROVE  /\ Wire(r) = Left("opcode", r)
           /\ Wire(r) \in Bytes
           /\ Payload(r) \in Bytes
<1> DEFINE c1 == Packed(r.op, 1)
           c2 == Packed(r.flag, 1)
           c3 == Packed(0, 2)
           c4 == Packed(Len(r.user), 2)
           c5 == Packed(Len(r.pass), 2)
           c6 == Packed(r.sid, H_SESSION_ID)
           c7 == Utf8(r.user)
           c8 == Utf8(r.pass)
           c9 == Packed(Len(Payload(r)), H_PAYLOAD_LEN)
           c10 == Payload(r)
<1>1. c10 \in Bytes /\ c10 = AtPayload(r)
  BY PayloadLaidOut, AfterBytes
<1>2. c1 \in Bytes /\ c2 \in Bytes /\ c3 \in Bytes /\ c4 \in Bytes /\ c5 \in Bytes
  <2>1. \A f \in {"opcode", "flag", "reserved", "ulen", "plen"} : Chunk(f, r) \in Bytes
    BY ChunkBytes DEF Fields, Numbers
  <2> QED
    BY <2>1 DEF Chunk, Number, NumberWidth, Numbers
<1>3. c6 \in Bytes /\ c7 \in Bytes /\ c8 \in Bytes
  <2>1. \A f \in {"sid", "user", "pass"} : Chunk(f, r) \in Bytes
    BY ChunkBytes DEF Fields, Numbers, Strings
  <2> QED
    BY <2>1 DEF Chunk, Number, NumberWidth, Numbers, String
<1>4. c9 \in Bytes
  <2>1. Len(Payload(r)) \in Nat /\ H_PAYLOAD_LEN \in Nat
    BY <1>1, ByteOf, Widths
  <2> QED
    BY <2>1, PackedIn
<1>5. Left("opcode", r) = c1 \o (c2 \o (c3 \o (c4 \o (c5 \o (c6 \o (c7 \o (c8 \o (c9 \o c10))))))))
  <2>1. /\ Chunk("opcode", r) = c1 /\ Chunk("flag", r) = c2 /\ Chunk("reserved", r) = c3
        /\ Chunk("ulen", r) = c4 /\ Chunk("plen", r) = c5
    BY DEF Chunk, Number, NumberWidth, Numbers
  <2>2. /\ Chunk("sid", r) = c6 /\ Chunk("user", r) = c7 /\ Chunk("pass", r) = c8
        /\ Chunk("paylen", r) = c9
    BY DEF Chunk, Number, NumberWidth, Numbers, String
  <2> HIDE DEF c1, c2, c3, c4, c5, c6, c7, c8, c9, c10
  <2>3. AtSid(r) = c6 \o (c7 \o (c8 \o (c9 \o c10)))
    BY <1>1, <2>2 DEF AtSid, AtUser, AtPass, AtPaylen
  <2>4. AtOpcode(r) = c1 \o (c2 \o (c3 \o (c4 \o (c5 \o AtSid(r)))))
    BY <2>1 DEF AtOpcode, AtFlag, AtReserved, AtUlen, AtPlen
  <2>5. Left("opcode", r) = AtOpcode(r)
    BY DEF Left
  <2> QED
    BY <2>3, <2>4, <2>5
<1>6. Wire(r) = ((((((((c1 \o c2) \o c3) \o c4) \o c5) \o c6) \o c7) \o c8) \o c9) \o c10
  BY DEF Wire
<1> HIDE DEF c1, c2, c3, c4, c5, c6, c7, c8, c9, c10
<1> DEFINE p == Joined(Joined(Joined(Joined(c1, c2), c3), c4), c5)
           t == Joined(c6, Joined(c7, Joined(c8, Joined(c9, c10))))
<1>7. c10 \in Bytes
  BY <1>1 DEF c10
<1>8. p \in Bytes
  BY <1>2, <1>7, FiveJoined
<1>9. t \in Bytes
  BY <1>3, <1>4, <1>7, JoinedOn
<1> HIDE DEF p
<1>10. Joined(Joined(Joined(Joined(Joined(p, c6), c7), c8), c9), c10) = Joined(p, t)
  BY <1>3, <1>4, <1>7, <1>8, FiveJoined
<1> HIDE DEF t
<1>11. /\ Joined(p, t) = Joined(c1, Joined(c2, Joined(c3, Joined(c4, Joined(c5, t)))))
       /\ Joined(p, t) \in Bytes
  <2>1. Joined(p, t) = Joined(c1, Joined(c2, Joined(c3, Joined(c4, Joined(c5, t)))))
    BY <1>2, <1>9, FiveJoined DEF p
  <2>2. Joined(p, t) \in Bytes
    BY <1>8, <1>9, JoinedOn
  <2> QED
    BY <2>1, <2>2
<1>12. Wire(r) = Joined(p, t)
  <2>1. Wire(r) = Joined(Joined(Joined(Joined(Joined(p, c6), c7), c8), c9), c10)
    BY <1>6 DEF Joined, p
  <2> QED
    BY <1>10, <2>1
<1>13. Left("opcode", r) = Joined(p, t)
  <2>1. Left("opcode", r) = Joined(c1, Joined(c2, Joined(c3, Joined(c4, Joined(c5, t)))))
    BY <1>5 DEF Joined, t
  <2> QED
    BY <1>11, <2>1
<1> QED
  BY <1>7, <1>11, <1>12, <1>13 DEF c10

LEMMA PlaceGrows == ASSUME NEW w \in Nat \ {0} PROVE Place(w) \in Nat /\ Place(w) >= 256
<1> DEFINE v == w - 1
<1>1. v \in Nat /\ v + 1 = w
  OBVIOUS
<1> HIDE DEF v
<1>2. Place(v) \in Nat \ {0} /\ Place(v + 1) = 256 * Place(v)
  BY <1>1, PlaceOn
<1> QED
  BY <1>1, <1>2

\* Every number fits its field.
LEMMA NumberFits ==
    ASSUME NEW r \in Requests, NEW f \in Numbers
    PROVE  /\ Number(f, r) \in Nat /\ NumberWidth(f) \in Nat
           /\ Number(f, r) < Place(NumberWidth(f))
           /\ Chunk(f, r) \in Bytes /\ Len(Chunk(f, r)) = NumberWidth(f)
           /\ Unpacked(Chunk(f, r)) = Number(f, r)
<1>1. NumberWidth(f) \in Nat
  BY Widths
<1>2. Number(f, r) \in Nat /\ Number(f, r) < Place(NumberWidth(f))
  <2>1. CASE f \in {"opcode", "flag", "uflag", "perm"}
    <3>1. \A x \in 0..255 : x \in Nat /\ x < Place(1)
      BY Places
    <3>0. r.op \in 0..255 /\ r.flag \in 0..255 /\ r.perm \in 0..255
      BY RequestTyped
    <3>2. /\ r.op \in Nat /\ r.op < Place(1) /\ r.flag \in Nat /\ r.flag < Place(1)
          /\ r.perm \in Nat /\ r.perm < Place(1)
      BY <3>0, <3>1
    <3> QED
      BY <2>1, <3>2 DEF Number, NumberWidth
  <2>2. CASE f = "reserved"
    <3>1. 0 \in Nat /\ 0 < Place(2)
      BY Places
    <3> QED
      BY <2>2, <3>1 DEF Number, NumberWidth
  <2>3. CASE f \in {"ulen", "plen", "nlen", "wlen", "pathlen"}
    <3>1. /\ Len(r.user) \in Nat /\ Len(r.pass) \in Nat /\ Len(r.name) \in Nat
          /\ Len(r.word) \in Nat /\ Len(r.path) \in Nat
      BY RequestTyped, TextLength
    <3>2. /\ Len(r.user) < Place(2) /\ Len(r.pass) < Place(2) /\ Len(r.name) < Place(2)
          /\ Len(r.word) < Place(2) /\ Len(r.path) < Place(2)
      BY RequestTyped
    <3> QED
      BY <2>3, <3>1, <3>2 DEF Number, NumberWidth
  <2>4. CASE f = "sid"
    BY <2>4, RequestTyped DEF Number, NumberWidth
  <2>5. CASE f = "paylen"
    <3>1. Len(Payload(r)) \in Nat
      BY WireLaidOut, ByteOf
    <3>2. Len(Payload(r)) < Place(H_PAYLOAD_LEN)
      BY RequestTyped
    <3> QED
      BY <2>5, <3>1, <3>2 DEF Number, NumberWidth
  <2> QED
    BY <2>1, <2>2, <2>3, <2>4, <2>5 DEF Numbers
<1>3. Chunk(f, r) = Packed(Number(f, r), NumberWidth(f))
  BY DEF Chunk
<1>4. Packed(Number(f, r), NumberWidth(f)) \in Bytes
      /\ Len(Packed(Number(f, r), NumberWidth(f))) = NumberWidth(f)
  BY <1>1, <1>2, PackedIn
<1>5. Unpacked(Packed(Number(f, r), NumberWidth(f))) = Number(f, r)
  BY <1>1, <1>2, UnpackedPacked
<1> QED
  BY <1>1, <1>2, <1>3, <1>4, <1>5

LEMMA EveryChunk ==
    ASSUME NEW r \in Requests, NEW f \in Fields
    PROVE  Chunk(f, r) \in Bytes
<1>1. CASE f \in Numbers
  BY <1>1, NumberFits
<1>2. CASE f \notin Numbers
  BY <1>2, ChunkBytes DEF Numbers
<1> QED
  BY <1>1, <1>2

\* All that is left is bytes.
LEMMA LeftBytes ==
    ASSUME NEW r \in Requests, NEW f \in FieldsOf(r) \cup {"done"}
    PROVE  Left(f, r) \in Bytes
<1>1. CASE f \in OfUser \cup OfNew \cup OfPath \cup OfFile
  BY <1>1, AfterBytes DEF Left, OfUser, OfNew, OfPath, OfFile
<1>2. CASE f = "done"
  BY <1>2, NoBytes DEF Left
<1>3. CASE f \in Common
  <2>1. \A g \in Common : \A b \in Bytes : Chunk(g, r) \o b \in Bytes
    BY EveryChunk, Glued, FieldList
  <2>2. AtPaylen(r) \in Bytes
    BY <2>1, AfterBytes DEF AtPaylen, Common
  <2>3. AtPass(r) \in Bytes
    BY <2>1, <2>2 DEF AtPass, Common
  <2>4. AtUser(r) \in Bytes
    BY <2>1, <2>3 DEF AtUser, Common
  <2>5. AtSid(r) \in Bytes
    BY <2>1, <2>4 DEF AtSid, Common
  <2>6. AtPlen(r) \in Bytes
    BY <2>1, <2>5 DEF AtPlen, Common
  <2>7. AtUlen(r) \in Bytes
    BY <2>1, <2>6 DEF AtUlen, Common
  <2>8. AtReserved(r) \in Bytes
    BY <2>1, <2>7 DEF AtReserved, Common
  <2>9. AtFlag(r) \in Bytes
    BY <2>1, <2>8 DEF AtFlag, Common
  <2>10. AtOpcode(r) \in Bytes
    BY <2>1, <2>9 DEF AtOpcode, Common
  <2> QED
    BY <1>3, <2>2, <2>3, <2>4, <2>5, <2>6, <2>7, <2>8, <2>9, <2>10 DEF Left, Common
<1> QED
  BY <1>1, <1>2, <1>3 DEF FieldsOf

-----------------------------------------------------------------------------
(***************************************************************************)
(* The lengths of a plain request: the worker finds those the client gave. *)
(***************************************************************************)

\* A string of plain characters has as many bytes as characters.
LEMMA PlainLength ==
    ASSUME NEW r \in Requests, Plain(r), NEW t \in {r.user, r.pass, r.name, r.word, r.path}
    PROVE  Utf8(t) \in Bytes /\ Len(Utf8(t)) = Len(t) /\ Len(t) \in Nat
<1>1. t \in Text
  BY RequestTyped
<1>2. \A i \in 1..Len(t) : Len(t[i]) = 1
  BY DEF Plain
<1> QED
  BY <1>1, <1>2, Utf8Bytes, TextLength

\* The length of the payload of a plain request.
UserLength(r) == 4 + Len(r.name) + (IF r.flag = CREATE_USER THEN 2 + Len(r.word) ELSE 0)
PathLength(r) == 2 + Len(r.path) + (IF r.op = PUT_FILE THEN H_HASH_LEN + Len(r.file) ELSE 0)

LEMMA GluedLength ==
    \A a, b \in Bytes : Joined(a, b) \in Bytes /\ Len(Joined(a, b)) = Len(a) + Len(b)
  BY Glued DEF Joined

LEMMA PayloadLength ==
    ASSUME NEW r \in Requests, Plain(r)
    PROVE  /\ r.op = USER_OP => Len(Payload(r)) = UserLength(r)
           /\ r.op \notin {USER_OP, LOCAL_OP} => Len(Payload(r)) = PathLength(r)
<1>1. \A x \in Nat : /\ Packed(x, 1) \in Bytes /\ Len(Packed(x, 1)) = 1
                     /\ Packed(x, 2) \in Bytes /\ Len(Packed(x, 2)) = 2
  BY PackedIn
<1>2. ASSUME r.op = USER_OP PROVE Len(Payload(r)) = UserLength(r)
  <2> DEFINE f == Packed(r.flag, 1)
             p == Packed(r.perm, 1)
             n == Packed(Len(r.name), 2)
             N == Utf8(r.name)
             w == Packed(Len(r.word), 2)
             W == Utf8(r.word)
             nil == <<>>
             sw == IF r.flag = CREATE_USER THEN Joined(w, W) ELSE nil
  <2>1. Payload(r) = Joined(Joined(Joined(f, p), Joined(n, N)), sw)
    <3>1. Payload(r) = UserPayload(r)
      BY <1>2 DEF Payload, USER_OP, LOCAL_OP
    <3>2. UserPayload(r) = Joined(Joined(Joined(f, p), Joined(n, N)), sw)
      BY DEF UserPayload, Sized, Joined
    <3> QED
      BY <3>1, <3>2
  <2>2. N \in Bytes /\ Len(N) = Len(r.name) /\ Len(r.name) \in Nat
    BY PlainLength
  <2>3. W \in Bytes /\ Len(W) = Len(r.word) /\ Len(r.word) \in Nat
    BY PlainLength
  <2>4. f \in Bytes /\ Len(f) = 1 /\ p \in Bytes /\ Len(p) = 1
    <3>1. \A x \in 0..255 : x \in Nat
      OBVIOUS
    <3>2. r.flag \in Nat /\ r.perm \in Nat
      BY <3>1, RequestTyped
    <3> QED
      BY <1>1, <3>2
  <2>5. n \in Bytes /\ Len(n) = 2 /\ w \in Bytes /\ Len(w) = 2
    BY <1>1, <2>2, <2>3
  <2>6. nil \in Bytes /\ Len(nil) = 0
    BY NoBytes
  <2> HIDE DEF f, p, n, N, w, W, nil
  <2>7. Joined(f, p) \in Bytes /\ Len(Joined(f, p)) = 2
    <3>1. Joined(f, p) \in Bytes /\ Len(Joined(f, p)) = Len(f) + Len(p)
      BY <2>4, GluedLength
    <3> QED
      BY <2>4, <3>1
  <2>8. Joined(n, N) \in Bytes /\ Len(Joined(n, N)) = 2 + Len(r.name)
    BY <2>2, <2>5, GluedLength
  <2>9. Joined(w, W) \in Bytes /\ Len(Joined(w, W)) = 2 + Len(r.word)
    BY <2>3, <2>5, GluedLength
  <2>10. sw \in Bytes /\ Len(sw) = IF r.flag = CREATE_USER THEN 2 + Len(r.word) ELSE 0
    BY <2>6, <2>9
  <2> HIDE DEF sw
  <2>11. /\ Joined(Joined(f, p), Joined(n, N)) \in Bytes
         /\ Len(Joined(Joined(f, p), Joined(n, N))) = 2 + (2 + Len(r.name))
    BY <2>7, <2>8, GluedLength
  <2>12. Len(Payload(r)) = 2 + (2 + Len(r.name)) + Len(sw)
    BY <2>1, <2>10, <2>11, GluedLength
  <2> QED
    <3> DEFINE L == Len(Payload(r))
               l == Len(r.name)
               k == Len(r.word)
               m == Len(sw)
    <3>1. l \in Nat /\ k \in Nat /\ L = 2 + (2 + l) + m /\ m = IF r.flag = CREATE_USER THEN 2 + k ELSE 0
      BY <2>2, <2>3, <2>10, <2>12
    <3> HIDE DEF L, l, k, m
    <3>2. L = 4 + l + (IF r.flag = CREATE_USER THEN 2 + k ELSE 0)
      BY <3>1
    <3> QED
      BY <3>2 DEF UserLength, L, l, k
<1>3. ASSUME r.op \notin {USER_OP, LOCAL_OP} PROVE Len(Payload(r)) = PathLength(r)
  <2> DEFINE n == Packed(Len(r.path), 2)
             N == Utf8(r.path)
             d == Digest(r.file)
             c == r.file
             nil == <<>>
             sf == IF r.op = PUT_FILE THEN Joined(d, c) ELSE nil
  <2>1. Payload(r) = Joined(Joined(n, N), sf)
    BY <1>3 DEF Payload, StdPayload, Sized, Joined
  <2>2. N \in Bytes /\ Len(N) = Len(r.path) /\ Len(r.path) \in Nat
    BY PlainLength
  <2>3. d \in Bytes /\ Len(d) = H_HASH_LEN /\ c \in Bytes /\ Len(c) \in Nat /\ H_HASH_LEN \in Nat
    BY RequestTyped, DigestOf, ByteOf, Widths
  <2>4. n \in Bytes /\ Len(n) = 2
    BY <1>1, <2>2
  <2>5. nil \in Bytes /\ Len(nil) = 0
    BY NoBytes
  <2> HIDE DEF n, N, d, nil
  <2>6. Joined(n, N) \in Bytes /\ Len(Joined(n, N)) = 2 + Len(r.path)
    BY <2>2, <2>4, GluedLength
  <2>7. Joined(d, c) \in Bytes /\ Len(Joined(d, c)) = H_HASH_LEN + Len(r.file)
    BY <2>3, GluedLength
  <2>8. sf \in Bytes /\ Len(sf) = IF r.op = PUT_FILE THEN H_HASH_LEN + Len(r.file) ELSE 0
    BY <2>5, <2>7
  <2> HIDE DEF sf
  <2>9. Len(Payload(r)) = 2 + Len(r.path) + Len(sf)
    BY <2>1, <2>6, <2>8, GluedLength
  <2> QED
    BY <2>2, <2>3, <2>8, <2>9 DEF PathLength
<1> QED
  BY <1>2, <1>3

LEMMA Remainder ==
    ASSUME NEW y \in Nat \ {0}, NEW x \in Nat, x < y
    PROVE  x % y = x
<1> DEFINE m == x % y
           q == x \div y
<1>1. m \in 0..y - 1 /\ q \in Int /\ x = y * q + m
  OBVIOUS
<1> HIDE DEF m, q
<1>2. ~(q >= 1)
  <2>1. q >= 1 => y * q >= y
    BY <1>1
  <2> QED
    BY <1>1, <2>1
<1>3. ~(q <= -1)
  <2>1. q <= -1 => y * q <= -y
    BY <1>1
  <2> QED
    BY <1>1, <2>1
<1>4. q = 0
  BY <1>1, <1>2, <1>3
<1>5. y * q = 0
  BY <1>4
<1> QED
  BY <1>1, <1>5 DEF m

\* The numbers a worker needs for the fields of r.
NeedsOf(f) ==
    CASE f = "user"   -> {"ulen"}
      [] f = "pass"   -> {"plen"}
      [] f = "name"   -> {"paylen", "nlen"}
      [] f = "word"   -> {"wlen"}
      [] f = "path"   -> {"paylen", "pathlen"}
      [] f = "file"   -> {"paylen", "pathlen"}
      [] f = "paylen" -> {"opcode"}
      [] OTHER        -> {}

\* The worker finds the lengths the client gave.
LEMMA WidthRight ==
    ASSUME NEW r \in Requests, Plain(r), NEW f \in FieldsOf(r), NEW G,
           \A g \in NeedsOf(f) : G[g] = Number(g, r)
    PROVE  Width(f, G) = Len(Chunk(f, r))
<1>0. f \in Fields
  BY LeftOn
<1>1. CASE f \in Numbers
  <2>1. Len(Chunk(f, r)) = NumberWidth(f)
    BY <1>1, NumberFits
  <2>2. CASE f \in {"opcode", "flag", "uflag", "perm", "reserved", "ulen", "plen", "nlen", "wlen", "pathlen"}
    BY <2>1, <2>2 DEF Width, NumberWidth
  <2>3. CASE f \in {"sid", "paylen"}
    BY <2>1, <2>3 DEF Width, NumberWidth
  <2> QED
    BY <1>1, <2>2, <2>3 DEF Numbers
<1>2. CASE f = "user"
  <2>1. G["ulen"] = Len(r.user) /\ Len(Utf8(r.user)) = Len(r.user)
    BY <1>2, PlainLength DEF NeedsOf, Number
  <2> QED
    BY <1>2, <2>1 DEF Width, Chunk, String, Numbers
<1>3. CASE f = "pass"
  <2>1. G["plen"] = Len(r.pass) /\ Len(Utf8(r.pass)) = Len(r.pass)
    BY <1>3, PlainLength DEF NeedsOf, Number
  <2> QED
    BY <1>3, <2>1 DEF Width, Chunk, String, Numbers
<1>4. CASE f = "name"
  <2>1. G["nlen"] = Len(r.name) /\ Len(Utf8(r.name)) = Len(r.name)
    BY <1>4, PlainLength DEF NeedsOf, Number
  <2> QED
    BY <1>4, <2>1 DEF Width, Chunk, String, Numbers
<1>5. CASE f = "word"
  <2>1. G["wlen"] = Len(r.word) /\ Len(Utf8(r.word)) = Len(r.word)
    BY <1>5, PlainLength DEF NeedsOf, Number
  <2> QED
    BY <1>5, <2>1 DEF Width, Chunk, String, Numbers
<1>6. CASE f = "path"
  <2>1. G["pathlen"] = Len(r.path) /\ Len(Utf8(r.path)) = Len(r.path)
    BY <1>6, PlainLength DEF NeedsOf, Number
  <2> QED
    BY <1>6, <2>1 DEF Width, Chunk, String, Numbers
<1>7. CASE f = "hash"
  <2>1. Len(Digest(r.file)) = H_HASH_LEN
    BY DigestOf
  <2> QED
    BY <1>7, <2>1 DEF Width, Chunk, String, Numbers
<1>8. CASE f = "file"
  <2>1. r.op = PUT_FILE /\ r.op \notin {USER_OP, LOCAL_OP}
    BY <1>8 DEF FieldsOf, Common, OfUser, OfNew, OfPath, OfFile, PUT_FILE, USER_OP, LOCAL_OP
  <2>2. G["paylen"] = Len(Payload(r)) /\ G["pathlen"] = Len(r.path)
    BY <1>8 DEF NeedsOf, Number
  <2>3. Len(Payload(r)) = 2 + Len(r.path) + (H_HASH_LEN + Len(r.file))
    BY <2>1, PayloadLength DEF PathLength
  <2>4. Len(r.path) \in Nat /\ H_HASH_LEN \in Nat /\ Len(r.file) \in Nat
    BY PlainLength, Widths, RequestTyped, ByteOf
  <2>5. StreamSize(G["paylen"], G["pathlen"]) = Len(r.file)
    <3> DEFINE L == Len(Payload(r))
               l == Len(r.path)
               k == Len(r.file)
    <3>1. L = 2 + l + (H_HASH_LEN + k) /\ l \in Nat /\ H_HASH_LEN \in Nat /\ k \in Nat
      BY <2>3, <2>4
    <3> HIDE DEF L, l, k
    <3>2. StreamSize(L, l) = k
      BY <3>1 DEF StreamSize
    <3> QED
      BY <2>2, <3>2 DEF L, l, k
  <2> QED
    BY <1>8, <2>5 DEF Width, Chunk, String, Numbers
<1> QED
  BY <1>0, <1>1, <1>2, <1>3, <1>4, <1>5, <1>6, <1>7, <1>8 DEF Fields, Strings

\* After a field it reads the one that the client laid out next.
LEMMA AfterRight ==
    ASSUME NEW r \in Requests, Plain(r), NEW f \in FieldsOf(r), NEW G,
           \A g \in NeedsOf(f) : G[g] = Number(g, r)
    PROVE  After(f, G) = NextOf(f, r)
<1>0. f \in Fields
  BY LeftOn
<1>1. CASE f \in {"opcode", "flag", "reserved", "ulen", "plen", "sid", "user", "pass"}
  BY <1>1 DEF After, NextOf
<1>2. CASE f = "paylen"
  <2>1. G["opcode"] = r.op
    BY <1>2 DEF NeedsOf, Number
  <2> QED
    BY <1>2, <2>1 DEF After, NextOf, USER_OP, LOCAL_OP
<1>3. CASE f \in {"uflag", "perm", "nlen", "wlen", "word"}
  BY <1>3 DEF After, NextOf
<1>4. CASE f \in {"pathlen", "hash", "file"}
  BY <1>4 DEF After, NextOf
<1>5. CASE f = "name"
  <2>1. r.op = USER_OP
    BY <1>5 DEF FieldsOf, Common, OfUser, OfNew, OfPath, OfFile
  <2>2. G["paylen"] = Len(Payload(r)) /\ G["nlen"] = Len(r.name)
    BY <1>5 DEF NeedsOf, Number
  <2>3. Len(Payload(r)) = 4 + Len(r.name) + (IF r.flag = CREATE_USER THEN 2 + Len(r.word) ELSE 0)
    BY <2>1, PayloadLength DEF UserLength
  <2>4. Len(r.name) \in Nat /\ Len(r.word) \in Nat
    BY PlainLength
  <2>5. HasPassword(G["paylen"], G["nlen"]) <=> r.flag = CREATE_USER
    <3> DEFINE L == Len(Payload(r))
               l == Len(r.name)
               k == Len(r.word)
    <3>1. /\ L = 4 + l + (IF r.flag = CREATE_USER THEN 2 + k ELSE 0)
          /\ l \in Nat /\ k \in Nat
      BY <2>3, <2>4
    <3> HIDE DEF L, l, k
    <3>2. HasPassword(L, l) <=> r.flag = CREATE_USER
      BY <3>1 DEF HasPassword
    <3> QED
      BY <2>2, <3>2 DEF L, l
  <2> QED
    BY <1>5, <2>5 DEF After, NextOf
<1>6. CASE f = "path"
  <2>1. r.op \notin {USER_OP, LOCAL_OP}
    BY <1>6 DEF FieldsOf, Common, OfUser, OfNew, OfPath, OfFile
  <2>2. G["paylen"] = Len(Payload(r)) /\ G["pathlen"] = Len(r.path)
    BY <1>6 DEF NeedsOf, Number
  <2> DEFINE rest == IF r.op = PUT_FILE THEN H_HASH_LEN + Len(r.file) ELSE 0
             P == Place(H_PAYLOAD_LEN)
             x == Len(Payload(r)) - Len(r.path)
  <2>3. Len(Payload(r)) = 2 + Len(r.path) + rest
    BY <2>1, PayloadLength DEF PathLength
  <2>4. Len(r.path) \in Nat /\ H_HASH_LEN \in Nat /\ H_HASH_LEN > 2 /\ Len(r.file) \in Nat
    BY PlainLength, Widths, RequestTyped, ByteOf
  <2>5. P \in Nat \ {0} /\ Len(Payload(r)) < P
    BY RequestTyped, Widths, PlaceOn
  <2>6. rest \in Nat /\ (rest >= H_HASH_LEN - 2 <=> r.op = PUT_FILE)
    BY <2>4
  <2> HIDE DEF rest, P
  <2>7. x = 2 + rest /\ x \in Nat /\ x < P
    <3> DEFINE L == Len(Payload(r))
               l == Len(r.path)
    <3>1. /\ L = 2 + l + rest /\ l \in Nat /\ rest \in Nat
          /\ P \in Nat /\ L < P
      BY <2>3, <2>4, <2>5, <2>6
    <3> HIDE DEF L, l
    <3>2. L - l = 2 + rest /\ L - l \in Nat /\ L - l < P
      BY <3>1
    <3> QED
      BY <3>2 DEF L, l
  <2>8. Less(Len(Payload(r)), Len(r.path)) = x
    <3> HIDE DEF x
    <3>1. x % P = x
      BY <2>5, <2>7, Remainder
    <3> QED
      BY <3>1 DEF Less, x, P
  <2>9. HasFile(G["paylen"], G["pathlen"]) <=> r.op = PUT_FILE
    <3> HIDE DEF x
    <3> QED
      BY <2>2, <2>4, <2>6, <2>7, <2>8 DEF HasFile
  <2> QED
    BY <1>6, <2>9 DEF After, NextOf
<1> QED
  BY <1>0, <1>1, <1>2, <1>3, <1>4, <1>5, <1>6 DEF Fields, Numbers, Strings

-----------------------------------------------------------------------------
(***************************************************************************)
(* What the worker has read, whatever was sent.                            *)
(***************************************************************************)

\* The fields read before f.
Before(f) ==
    CASE f = "opcode"   -> {}
      [] f = "flag"     -> {"opcode"}
      [] f = "reserved" -> {"opcode", "flag"}
      [] f = "ulen"     -> {"opcode", "flag", "reserved"}
      [] f = "plen"     -> {"opcode", "flag", "reserved", "ulen"}
      [] f = "sid"      -> {"opcode", "flag", "reserved", "ulen", "plen"}
      [] f = "user"     -> {"opcode", "flag", "reserved", "ulen", "plen", "sid"}
      [] f = "pass"     -> {"opcode", "flag", "reserved", "ulen", "plen", "sid", "user"}
      [] f = "paylen"   -> {"opcode", "flag", "reserved", "ulen", "plen", "sid", "user", "pass"}
      [] f = "uflag"    -> Common
      [] f = "perm"     -> Common \cup {"uflag"}
      [] f = "nlen"     -> Common \cup {"uflag", "perm"}
      [] f = "name"     -> Common \cup {"uflag", "perm", "nlen"}
      [] f = "wlen"     -> Common \cup OfUser
      [] f = "word"     -> Common \cup OfUser \cup {"wlen"}
      [] f = "pathlen"  -> Common
      [] f = "path"     -> Common \cup {"pathlen"}
      [] f = "hash"     -> Common \cup OfPath
      [] f = "file"     -> Common \cup OfPath \cup {"hash"}

LEMMA AfterOn ==
    ASSUME NEW f \in Fields, NEW G
    PROVE  /\ After(f, G) \in Fields \cup {"done"}
           /\ After(f, G) # "done" => Before(After(f, G)) = Before(f) \cup {f}
           /\ After(f, G) = "done" => Common \subseteq Before(f) \cup {f}
           /\ f \notin Before(f) /\ Before(f) \subseteq Fields
<1>1. CASE f \in {"opcode", "flag", "reserved"}
  BY <1>1 DEF After, Before, Fields, Numbers, Strings
<1>2. CASE f \in {"ulen", "plen"}
  BY <1>2 DEF After, Before, Fields, Numbers, Strings
<1>3. CASE f \in {"sid", "user", "pass"}
  <2>1. CASE f = "sid"
    BY <2>1 DEF After, Before, Fields, Numbers, Strings
  <2>2. CASE f = "user"
    BY <2>2 DEF After, Before, Fields, Numbers, Strings
  <2>3. CASE f = "pass"
    BY <2>3 DEF After, Before, Fields, Numbers, Strings
  <2> QED
    BY <1>3, <2>1, <2>2, <2>3
<1>4. CASE f = "paylen"
  <2>1. After(f, G) \in {"uflag", "done", "pathlen"}
    BY <1>4 DEF After
  <2>2. Before(f) \cup {f} = Common
    BY <1>4 DEF Before, Common
  <2>3. f \notin Before(f) /\ Before(f) \subseteq Fields
    BY <1>4 DEF Before, Fields, Numbers, Strings
  <2>4. Before("uflag") = Common /\ Before("pathlen") = Common
    BY DEF Before
  <2> QED
    BY <2>1, <2>2, <2>3, <2>4 DEF Fields, Numbers
<1>5. CASE f \in {"uflag", "perm", "nlen"}
  <2>1. /\ After(f, G) \in {"perm", "nlen", "name"} /\ f \notin Before(f)
        /\ Before(After(f, G)) = Before(f) \cup {f}
    BY <1>5 DEF After, Before, Common
  <2>2. Before(f) \subseteq Fields
    BY <1>5, FieldList DEF Before, OfUser
  <2> QED
    BY <2>1, <2>2 DEF Fields, Numbers, Strings
<1>6. CASE f = "name"
  <2>1. After(f, G) \in {"wlen", "done"}
    BY <1>6 DEF After
  <2>2. Before(f) \cup {f} = Common \cup OfUser /\ f \notin Before(f)
    BY <1>6 DEF Before, OfUser, Common
  <2>3. Before("wlen") = Common \cup OfUser
    BY DEF Before
  <2>4. Before(f) \subseteq Fields
    BY <2>2, FieldList
  <2> QED
    BY <2>1, <2>2, <2>3, <2>4 DEF Fields, Numbers
<1>7. CASE f = "wlen"
  <2>1. After(f, G) = "word" /\ Before("word") = Before(f) \cup {f}
    BY <1>7 DEF After, Before
  <2>2. f \notin Before(f) /\ Before(f) \subseteq Fields
    BY <1>7, FieldList DEF Before, Common, OfUser
  <2> QED
    BY <2>1, <2>2 DEF Fields, Strings
<1>8. CASE f = "word"
  <2>1. After(f, G) = "done" /\ Before(f) = Common \cup OfUser \cup {"wlen"}
    BY <1>8 DEF After, Before
  <2>2. f \notin Before(f) /\ Before(f) \subseteq Fields
    BY <1>8, <2>1, FieldList DEF Common, OfUser, OfNew
  <2> QED
    BY <2>1, <2>2
<1>9. CASE f = "pathlen"
  <2>1. After(f, G) = "path" /\ Before("path") = Before(f) \cup {f}
    BY <1>9 DEF After, Before
  <2>2. f \notin Before(f) /\ Before(f) \subseteq Fields
    BY <1>9, FieldList DEF Before, Common
  <2> QED
    BY <2>1, <2>2 DEF Fields, Strings
<1>10. CASE f = "path"
  <2>1. After(f, G) \in {"hash", "done"}
    BY <1>10 DEF After
  <2>2. Before(f) \cup {f} = Common \cup OfPath /\ f \notin Before(f)
    BY <1>10 DEF Before, OfPath, Common
  <2>3. Before("hash") = Common \cup OfPath
    BY DEF Before
  <2>4. Before(f) \subseteq Fields
    BY <2>2, FieldList
  <2> QED
    BY <2>1, <2>2, <2>3, <2>4 DEF Fields
<1>11. CASE f = "hash"
  <2>1. After(f, G) = "file" /\ Before("file") = Before(f) \cup {f}
    BY <1>11 DEF After, Before
  <2>2. f \notin Before(f) /\ Before(f) \subseteq Fields
    BY <1>11, FieldList DEF Before, Common, OfPath
  <2> QED
    BY <2>1, <2>2 DEF Fields
<1>12. CASE f = "file"
  <2>1. After(f, G) = "done" /\ Before(f) = Common \cup OfPath \cup {"hash"}
    BY <1>12 DEF After, Before
  <2>2. f \notin Before(f) /\ Before(f) \subseteq Fields
    BY <1>12, <2>1, FieldList DEF Common, OfPath, OfFile
  <2> QED
    BY <2>1, <2>2
<1> QED
  BY <1>1, <1>2, <1>3, <1>4, <1>5, <1>6, <1>7, <1>8, <1>9, <1>10, <1>11, <1>12 DEF Fields, Numbers, Strings

\* A worker always knows how many bytes it waits for.
LEMMA WidthTyped ==
    ASSUME NEW f \in Fields, NEW G, \A g \in Before(f) : g \in Numbers => G[g] \in Nat
    PROVE  Width(f, G) \in Nat
<1>1. CASE f \in Numbers
  <2>1. CASE f \in {"opcode", "flag", "uflag", "perm", "reserved", "ulen", "plen", "nlen", "wlen", "pathlen"}
    BY <2>1 DEF Width
  <2>2. CASE f \in {"sid", "paylen"}
    BY <2>2, Widths DEF Width
  <2> QED
    BY <1>1, <2>1, <2>2 DEF Numbers
<1>2. CASE f = "user"
  BY <1>2 DEF Width, Before, Numbers
<1>3. CASE f = "pass"
  BY <1>3 DEF Width, Before, Numbers
<1>4. CASE f = "name"
  <2>1. "nlen" \in Before(f) /\ "nlen" \in Numbers
    BY <1>4 DEF Before, Numbers
  <2> QED
    BY <1>4, <2>1 DEF Width
<1>5. CASE f = "word"
  <2>1. "wlen" \in Before(f) /\ "wlen" \in Numbers
    BY <1>5 DEF Before, Numbers
  <2> QED
    BY <1>5, <2>1 DEF Width
<1>6. CASE f = "path"
  <2>1. "pathlen" \in Before(f) /\ "pathlen" \in Numbers
    BY <1>6 DEF Before, Numbers
  <2> QED
    BY <1>6, <2>1 DEF Width
<1>7. CASE f = "hash"
  BY <1>7, Widths DEF Width
<1>8. CASE f = "file"
  <2>1. "pathlen" \in Before(f) /\ "paylen" \in Before(f) /\ "pathlen" \in Numbers /\ "paylen" \in Numbers
    BY <1>8 DEF Before, Numbers, Common, OfPath
  <2>2. G["pathlen"] \in Nat /\ G["paylen"] \in Nat /\ H_HASH_LEN \in Nat
    BY <2>1, Widths
  <2>3. StreamSize(G["paylen"], G["pathlen"]) \in Nat
    BY <2>2 DEF StreamSize
  <2> QED
    BY <1>8, <2>3 DEF Width
<1> QED
  BY <1>1, <1>2, <1>3, <1>4, <1>5, <1>6, <1>7, <1>8 DEF Fields, Strings

\* What the worker has read.
ReadInv ==
    /\ req \in Requests
    /\ wst \in {"reading", "writing", "closed"}
    /\ up \in BOOLEAN /\ unread \in BOOLEAN
    /\ wire \in Bytes /\ near \in 0..Len(wire)
    /\ cst = "start" => wire = <<>>
    /\ field \in Fields \cup {"done"}
    /\ field # "done" => DOMAIN got = Before(field)
    /\ field = "done" => Common \subseteq DOMAIN got /\ DOMAIN got \subseteq Fields
    /\ \A f \in DOMAIN got : f \in Numbers => got[f] \in Nat
    /\ "sid" \in DOMAIN got => got["sid"] < Place(H_SESSION_ID)

LEMMA ReadInit == Init => ReadInv
<1>1. ASSUME Init PROVE ReadInv
  <2>1. wire \in Bytes /\ near \in 0..Len(wire)
    BY <1>1, NoBytes DEF Init
  <2>2. field = "opcode" /\ DOMAIN got = {}
    BY <1>1 DEF Init, Nothing
  <2>3. field \in Fields /\ Before(field) = {}
    BY <2>2 DEF Fields, Numbers, Before
  <2> QED
    BY <1>1, <2>1, <2>2, <2>3 DEF Init, ReadInv
<1> QED
  BY <1>1

\* What the worker knows of the field it waits for.
LEMMA Waiting ==
    ASSUME ReadInv, NEW w \in Awaited
    PROVE  /\ wst = "reading" /\ field \in Fields /\ field # "done"
           /\ w = Width(field, got) /\ w \in Nat
           /\ DOMAIN got = Before(field)
<1>1. wst = "reading" /\ field # "done" /\ w = Width(field, got)
  BY DEF Awaited
<1>2. field \in Fields /\ DOMAIN got = Before(field)
  BY <1>1 DEF ReadInv
<1>3. \A f \in Before(field) : f \in Numbers => got[f] \in Nat
  BY <1>2 DEF ReadInv
<1>4. Width(field, got) \in Nat
  BY <1>2, <1>3, WidthTyped
<1> QED
  BY <1>1, <1>2, <1>4

LEMMA ReadFieldRead == ReadInv /\ ReadField => ReadInv'
<1> SUFFICES ASSUME ReadInv, ReadField PROVE ReadInv'
  OBVIOUS
<1> DEFINE value(w) == IF field \in Numbers THEN Unpacked(SubSeq(wire, 1, w)) ELSE SubSeq(wire, 1, w)
<1>1. PICK w \in Awaited :
         /\ near >= w
         /\ got' = [f \in DOMAIN got \cup {field} |-> IF f = field THEN value(w) ELSE got[f]]
         /\ wire' = SubSeq(wire, w + 1, Len(wire))
         /\ near' = near - w
  BY DEF ReadField
<1>2. /\ wst = "reading" /\ field \in Fields /\ field # "done"
      /\ w \in Nat /\ DOMAIN got = Before(field)
  BY <1>1, Waiting
<1>3. /\ req' = req /\ cst' = cst /\ wst' = wst /\ up' = up /\ unread' = unread
      /\ field' = After(field, got')
  BY DEF ReadField, client
<1>4. wire \in Bytes /\ near \in 0..Len(wire) /\ Len(wire) \in Nat
  BY ByteOf DEF ReadInv
<1>5. w \in 0..Len(wire)
  BY <1>1, <1>2, <1>4
<1>6. SubSeq(wire, 1, w) \in Bytes /\ wire' \in Bytes /\ Len(wire') = Len(wire) - w
      /\ Len(SubSeq(wire, 1, w)) = w
  BY <1>1, <1>4, <1>5, PartOf
<1>7. near' \in 0..Len(wire')
  BY <1>1, <1>2, <1>4, <1>5, <1>6
<1>8. /\ field' \in Fields \cup {"done"}
      /\ field' # "done" => Before(field') = Before(field) \cup {field}
      /\ field' = "done" => Common \subseteq Before(field) \cup {field}
      /\ field \notin Before(field) /\ Before(field) \subseteq Fields
  BY <1>2, <1>3, AfterOn
<1>9. DOMAIN got' = Before(field) \cup {field}
  BY <1>1, <1>2
<1>10. Unpacked(SubSeq(wire, 1, w)) \in Nat /\ Unpacked(SubSeq(wire, 1, w)) < Place(w)
  <2>1. Unpacked(SubSeq(wire, 1, w)) \in 0..Place(w) - 1
    BY <1>6, UnpackedIn
  <2>2. Place(w) \in Nat
    BY <1>2, PlaceOn
  <2> QED
    BY <2>1, <2>2
<1>11. ASSUME NEW f \in DOMAIN got', f \in Numbers PROVE got'[f] \in Nat
  <2>1. CASE f = field
    BY <1>1, <1>10, <1>11, <2>1
  <2>2. CASE f # field
    <3>1. f \in DOMAIN got /\ got'[f] = got[f]
      BY <1>1, <1>11, <2>2
    <3> QED
      BY <1>11, <3>1 DEF ReadInv
  <2> QED
    BY <2>1, <2>2
<1>12. ASSUME "sid" \in DOMAIN got' PROVE got'["sid"] < Place(H_SESSION_ID)
  <2>1. CASE field = "sid"
    <3>1. w = H_SESSION_ID
      BY <1>1, <2>1, Waiting DEF Width
    <3> QED
      BY <1>1, <1>10, <1>12, <2>1, <3>1 DEF Numbers
  <2>2. CASE field # "sid"
    <3>1. "sid" \in DOMAIN got /\ got'["sid"] = got["sid"]
      BY <1>1, <1>12, <2>2
    <3> QED
      BY <3>1 DEF ReadInv
  <2> QED
    BY <2>1, <2>2
<1>13. cst' = "start" => wire' = <<>>
  <2>1. cst = "start" => Len(wire) = 0
    BY NoBytes DEF ReadInv
  <2>2. cst = "start" => Len(wire') = 0
    BY <1>4, <1>5, <1>6, <2>1
  <2> QED
    BY <1>3, <1>6, <2>2, NoBytes
<1>14. field' # "done" => DOMAIN got' = Before(field')
  BY <1>8, <1>9
<1>15. field' = "done" => Common \subseteq DOMAIN got' /\ DOMAIN got' \subseteq Fields
  BY <1>2, <1>8, <1>9
<1>16. /\ req' \in Requests /\ wst' \in {"reading", "writing", "closed"}
       /\ up' \in BOOLEAN /\ unread' \in BOOLEAN
  BY <1>3 DEF ReadInv
<1> QED
  BY <1>6, <1>7, <1>8, <1>11, <1>12, <1>13, <1>14, <1>15, <1>16 DEF ReadInv

\* What the worker has read stays as it is once it answers or gives up.
LEMMA ReadOver ==
    ASSUME ReadInv, req' = req, field' = field, got' = got, wire' = <<>>, near' = 0,
           wst' \in {"writing", "closed"}, up' \in BOOLEAN, unread' \in BOOLEAN
    PROVE  ReadInv'
<1>1. wire' \in Bytes /\ Len(wire') = 0
  BY NoBytes
<1> QED
  BY <1>1 DEF ReadInv

LEMMA ReadKept ==
    ASSUME ReadInv, req' = req, field' = field, got' = got, wire' = wire, near' = near,
           wst' \in {wst, "closed"}, up' = up, unread' \in BOOLEAN,
           cst' = "start" => cst = "start"
    PROVE  ReadInv'
  BY DEF ReadInv

LEMMA ReadStep == ReadInv /\ [Next]_vars => ReadInv'
<1> SUFFICES ASSUME ReadInv, [Next]_vars PROVE ReadInv'
  OBVIOUS
<1>1. CASE UNCHANGED vars
  <2>1. /\ req' = req /\ field' = field /\ got' = got /\ wire' = wire /\ near' = near
        /\ wst' = wst /\ up' = up /\ unread' = unread /\ cst' = cst
    BY <1>1 DEF vars, client, worker
  <2>2. unread' \in BOOLEAN
    BY <2>1 DEF ReadInv
  <2> QED
    BY <2>1, <2>2, ReadKept
<1>2. CASE Send
  <2>0. /\ req' = req /\ field' = field /\ got' = got /\ near' = near
        /\ wst' = wst /\ up' = up /\ cst = "start" /\ cst' = "reading"
    BY <1>2 DEF Send, worker
  <2>1. CASE wst = "reading"
    <3>1. PICK n \in 1..Len(Wire(req)) : wire' = SubSeq(Wire(req), 1, n)
      BY <1>2, <2>1 DEF Send
    <3>2. unread' = unread
      BY <1>2, <2>1 DEF Send
    <3>3. Wire(req) \in Bytes
      BY WireLaidOut DEF ReadInv
    <3>4. Len(Wire(req)) \in Nat /\ n \in 0..Len(Wire(req))
      BY <3>3, ByteOf
    <3>5. wire' \in Bytes /\ Len(wire') = n
      BY <3>1, <3>3, <3>4, PartOf
    <3>6. near = 0
      <4>1. near \in 0..Len(wire) /\ wire = <<>>
        BY <2>0 DEF ReadInv
      <4> QED
        BY <4>1, NoBytes
    <3>7. near' \in 0..Len(wire')
      BY <2>0, <3>4, <3>5, <3>6
    <3> QED
      BY <2>0, <3>2, <3>5, <3>7 DEF ReadInv
  <2>2. CASE wst # "reading"
    <3>1. unread' = TRUE /\ wire' = wire
      BY <1>2, <2>2 DEF Send
    <3>2. unread' \in BOOLEAN
      BY <3>1
    <3> QED
      BY <2>0, <3>1, <3>2, ReadKept
  <2> QED
    BY <2>1, <2>2
<1>3. CASE Arrive
  <2>1. /\ req' = req /\ field' = field /\ got' = got /\ wire' = wire
        /\ wst' = wst /\ up' = up /\ cst' = cst /\ unread' = unread
        /\ near < Len(wire) /\ near' = near + 1
    BY <1>3 DEF Arrive, worker, client
  <2>2. near \in 0..Len(wire) /\ Len(wire) \in Nat
    BY ByteOf DEF ReadInv
  <2>3. near' \in 0..Len(wire')
    BY <2>1, <2>2
  <2> QED
    BY <2>1, <2>3 DEF ReadInv
<1>4. CASE Leave \/ Stop \/ Recv \/ Reset
  <2>1. /\ req' = req /\ field' = field /\ got' = got /\ wire' = wire /\ near' = near
        /\ wst' = wst /\ up' = up /\ unread' = unread
    BY <1>4 DEF Leave, Stop, Recv, Reset, worker
  <2>2. cst' # "start"
    <3>1. CASE Leave \/ Stop \/ Reset
      BY <3>1 DEF Leave, Stop, Reset
    <3>2. CASE Recv
      <4>1. cst = "reading" /\ (cst' = cst \/ cst' = "done")
        BY <3>2 DEF Recv
      <4> QED
        BY <4>1
    <3> QED
      BY <1>4, <3>1, <3>2
  <2>3. unread' \in BOOLEAN
    BY <2>1 DEF ReadInv
  <2> QED
    BY <2>1, <2>2, <2>3, ReadKept
<1>5. CASE ReadField
  BY <1>5, ReadFieldRead
<1>6. CASE ReadTimesOut \/ AllocFails \/ Act
  <2>1. /\ req' = req /\ field' = field /\ got' = got /\ wire' = <<>> /\ near' = 0
        /\ wst' = "writing" /\ up' = up /\ unread' \in BOOLEAN
    BY <1>6 DEF ReadTimesOut, AllocFails, Act, Answer, client
  <2>2. up' \in BOOLEAN
    BY <2>1 DEF ReadInv
  <2> QED
    BY <2>1, <2>2, ReadOver
<1>7. CASE ReadCloses \/ Abort
  <2>1. /\ req' = req /\ field' = field /\ got' = got /\ wire' = <<>> /\ near' = 0
        /\ wst' = "closed" /\ (up' = up \/ up' = FALSE)
        /\ (unread' = unread \/ unread' = (wire # <<>>))
    BY <1>7 DEF ReadCloses, Abort, client
  <2>2. up' \in BOOLEAN /\ unread' \in BOOLEAN
    BY <2>1 DEF ReadInv
  <2> QED
    BY <2>1, <2>2, ReadOver
<1>8. CASE Write \/ WriteFails \/ Close
  <2>1. /\ req' = req /\ field' = field /\ got' = got /\ wire' = wire /\ near' = near
        /\ wst' \in {wst, "closed"} /\ up' = up /\ unread' = unread /\ cst' = cst
    BY <1>8 DEF Write, WriteFails, Close, client
  <2>2. unread' \in BOOLEAN
    BY <2>1 DEF ReadInv
  <2> QED
    BY <2>1, <2>2, ReadKept
<1> QED
  BY <1>1, <1>2, <1>3, <1>4, <1>5, <1>6, <1>7, <1>8 DEF Next

-----------------------------------------------------------------------------
(***************************************************************************)
(* What was sent is what is read.                                          *)
(***************************************************************************)

\* While the worker reads a plain request, and once it has read it, it has what
\* the client laid out, and the rest is on its way.
SentInv ==
    (Plain(req) /\ (wst = "reading" \/ field = "done")) =>
        /\ field \in FieldsOf(req) \cup {"done"}
        /\ \A f \in DOMAIN got : got[f] = Value(f, req)
        /\ field = "done" => DOMAIN got = FieldsOf(req)
        /\ Begins(wire, Left(field, req))
        /\ ~unread
        /\ cst = "start" => field = "opcode" /\ wire = <<>>

LEMMA NeedsBefore ==
    ASSUME NEW r, NEW f \in FieldsOf(r)
    PROVE  /\ NeedsOf(f) \subseteq Before(f)
           /\ NeedsOf(f) \subseteq Numbers
           /\ NextOf(f, r) = "done" => Before(f) \cup {f} = FieldsOf(r)
<1>0. f \in Fields
  BY LeftOn
<1>1. CASE f \in {"opcode", "flag", "reserved", "ulen", "plen", "sid"}
  BY <1>1 DEF NeedsOf, NextOf
<1>2. CASE f \in {"user", "pass"}
  BY <1>2 DEF NeedsOf, NextOf, Before, Numbers
<1>3. CASE f = "paylen"
  <2>1. Before(f) \cup {f} = Common
    BY <1>3 DEF Before, Common
  <2>2. NextOf(f, r) = "done" => FieldsOf(r) = Common
    BY <1>3 DEF NextOf, FieldsOf
  <2>3. NeedsOf(f) \subseteq Before(f) /\ NeedsOf(f) \subseteq Numbers
    BY <1>3 DEF NeedsOf, Before, Numbers
  <2> QED
    BY <2>1, <2>2, <2>3
<1>4. CASE f \in {"uflag", "perm", "nlen", "wlen", "pathlen", "hash"}
  BY <1>4 DEF NeedsOf, NextOf
<1>5. CASE f = "name"
  <2>0. r.op = USER_OP /\ r.op # LOCAL_OP
    BY <1>5 DEF FieldsOf, Common, OfUser, OfNew, OfPath, OfFile, USER_OP, LOCAL_OP
  <2>1. Before(f) \cup {f} = Common \cup OfUser
    BY <1>5 DEF Before, OfUser
  <2>2. NextOf(f, r) = "done" => FieldsOf(r) = Common \cup OfUser
    BY <1>5, <2>0 DEF NextOf, FieldsOf
  <2>3. NeedsOf(f) \subseteq Before(f) /\ NeedsOf(f) \subseteq Numbers
    BY <1>5 DEF NeedsOf, Before, Numbers, Common
  <2> QED
    BY <2>1, <2>2, <2>3
<1>6. CASE f = "word"
  <2>0. r.op = USER_OP /\ r.op # LOCAL_OP /\ r.flag = CREATE_USER
    BY <1>6 DEF FieldsOf, Common, OfUser, OfNew, OfPath, OfFile, USER_OP, LOCAL_OP
  <2>1. Before(f) \cup {f} = Common \cup OfUser \cup OfNew
    BY <1>6 DEF Before, OfNew
  <2>2. FieldsOf(r) = Common \cup OfUser \cup OfNew
    BY <2>0 DEF FieldsOf
  <2>3. NeedsOf(f) \subseteq Before(f) /\ NeedsOf(f) \subseteq Numbers
    BY <1>6 DEF NeedsOf, Before, Numbers
  <2> QED
    BY <2>1, <2>2, <2>3
<1>7. CASE f = "path"
  <2>0. r.op # USER_OP /\ r.op # LOCAL_OP
    BY <1>7 DEF FieldsOf, Common, OfUser, OfNew, OfPath, OfFile
  <2>1. Before(f) \cup {f} = Common \cup OfPath
    BY <1>7 DEF Before, OfPath
  <2>2. NextOf(f, r) = "done" => FieldsOf(r) = Common \cup OfPath
    BY <1>7, <2>0 DEF NextOf, FieldsOf
  <2>3. NeedsOf(f) \subseteq Before(f) /\ NeedsOf(f) \subseteq Numbers
    BY <1>7 DEF NeedsOf, Before, Numbers, Common
  <2> QED
    BY <2>1, <2>2, <2>3
<1>8. CASE f = "file"
  <2>0. r.op # USER_OP /\ r.op # LOCAL_OP /\ r.op = PUT_FILE
    BY <1>8 DEF FieldsOf, Common, OfUser, OfNew, OfPath, OfFile
  <2>1. Before(f) \cup {f} = Common \cup OfPath \cup OfFile
    BY <1>8 DEF Before, OfFile
  <2>2. FieldsOf(r) = Common \cup OfPath \cup OfFile
    BY <2>0 DEF FieldsOf
  <2>3. NeedsOf(f) \subseteq Before(f) /\ NeedsOf(f) \subseteq Numbers
    BY <1>8 DEF NeedsOf, Before, Numbers, Common, OfPath
  <2> QED
    BY <2>1, <2>2, <2>3
<1> QED
  BY <1>0, <1>1, <1>2, <1>3, <1>4, <1>5, <1>6, <1>7, <1>8 DEF Fields, Numbers, Strings

\* The bytes of a field give what the client put in it.
LEMMA ChunkValue ==
    ASSUME NEW r \in Requests, NEW f \in Fields
    PROVE  (IF f \in Numbers THEN Unpacked(Chunk(f, r)) ELSE Chunk(f, r)) = Value(f, r)
<1>1. CASE f \in Numbers
  BY <1>1, NumberFits DEF Value
<1>2. CASE f \notin Numbers
  BY <1>2 DEF Value, Chunk
<1> QED
  BY <1>1, <1>2

LEMMA SentInit == Init => SentInv
<1> SUFFICES ASSUME Init PROVE SentInv
  OBVIOUS
<1>1. field = "opcode" /\ DOMAIN got = {} /\ wire = <<>> /\ ~unread /\ field \in FieldsOf(req)
  BY DEF Init, Nothing, FieldsOf, Common
<1>2. Begins(wire, Left(field, req))
  <2>1. Len(wire) = 0
    BY <1>1, NoBytes
  <2>2. req \in Requests
    BY DEF Init
  <2>3. Left(field, req) \in Bytes
    BY <1>1, <2>2, LeftBytes
  <2>4. Len(Left(field, req)) \in Nat
    BY <2>3, ByteOf
  <2> QED
    BY <2>1, <2>4 DEF Begins
<1> QED
  BY <1>1, <1>2 DEF SentInv

LEMMA ReadFieldSent == ReadInv /\ SentInv /\ ReadField => SentInv'
<1> SUFFICES ASSUME ReadInv, SentInv, ReadField, Plain(req)', wst' = "reading" \/ field' = "done"
             PROVE  /\ field' \in FieldsOf(req') \cup {"done"}
                    /\ \A f \in DOMAIN got' : got'[f] = Value(f, req')
                    /\ field' = "done" => DOMAIN got' = FieldsOf(req')
                    /\ Begins(wire', Left(field', req'))
                    /\ ~unread'
                    /\ cst' = "start" => field' = "opcode" /\ wire' = <<>>
  BY DEF SentInv, Value, Left, FieldsOf, Plain
<1> DEFINE value(w) == IF field \in Numbers THEN Unpacked(SubSeq(wire, 1, w)) ELSE SubSeq(wire, 1, w)
<1>1. PICK w \in Awaited :
         /\ near >= w
         /\ got' = [f \in DOMAIN got \cup {field} |-> IF f = field THEN value(w) ELSE got[f]]
         /\ wire' = SubSeq(wire, w + 1, Len(wire))
  BY DEF ReadField
<1>2. /\ wst = "reading" /\ field \in Fields /\ field # "done"
      /\ w = Width(field, got) /\ w \in Nat /\ DOMAIN got = Before(field)
  BY <1>1, Waiting
<1>3. req' = req /\ cst' = cst /\ unread' = unread /\ field' = After(field, got')
  BY DEF ReadField, client
<1>4. Plain(req) /\ req \in Requests
  BY <1>3 DEF Plain, ReadInv
<1>5. /\ field \in FieldsOf(req)
      /\ \A f \in DOMAIN got : got[f] = Value(f, req)
      /\ Begins(wire, Left(field, req))
      /\ ~unread
      /\ cst = "start" => wire = <<>>
  BY <1>2, <1>4 DEF SentInv
<1> DEFINE c == Chunk(field, req)
           l == Left(NextOf(field, req), req)
<1>6. Left(field, req) = c \o l /\ NextOf(field, req) \in FieldsOf(req) \cup {"done"}
  BY <1>5, LeftOn
<1>7. c \in Bytes /\ l \in Bytes
  BY <1>2, <1>4, <1>6, EveryChunk, LeftBytes
<1>8. /\ NeedsOf(field) \subseteq Before(field)
      /\ NeedsOf(field) \subseteq Numbers
      /\ NextOf(field, req) = "done" => Before(field) \cup {field} = FieldsOf(req)
  BY <1>5, NeedsBefore
<1>9. w = Len(c)
  <2>1. \A g \in NeedsOf(field) : got[g] = Number(g, req)
    <3> TAKE g \in NeedsOf(field)
    <3>1. g \in DOMAIN got /\ g \in Numbers
      BY <1>2, <1>8
    <3>2. got[g] = Value(g, req)
      BY <1>5, <3>1
    <3> QED
      BY <3>1, <3>2 DEF Value
  <2> HIDE DEF c
  <2>2. Width(field, got) = Len(Chunk(field, req))
    BY <1>4, <1>5, <2>1, WidthRight
  <2> QED
    BY <1>2, <2>2 DEF c
<1>10. wire \in Bytes /\ Len(wire) \in Nat /\ Len(c) <= Len(wire)
  <2>1. wire \in Bytes /\ near \in 0..Len(wire)
    BY DEF ReadInv
  <2>2. Len(wire) \in Nat
    BY <2>1, ByteOf
  <2> HIDE DEF c
  <2> QED
    BY <1>1, <1>2, <1>9, <2>1, <2>2
<1>11. SubSeq(wire, 1, w) = c /\ Begins(wire', l)
  <2> HIDE DEF c, l
  <2>1. Begins(wire, c \o l)
    BY <1>5, <1>6
  <2>2. SubSeq(wire, 1, Len(c)) = c /\ Begins(SubSeq(wire, Len(c) + 1, Len(wire)), l)
    BY <1>7, <1>10, <2>1, BeginningTaken
  <2> QED
    BY <1>1, <1>9, <2>2
<1>12. value(w) = Value(field, req)
  <2>1. value(w) = IF field \in Numbers THEN Unpacked(c) ELSE c
    BY <1>11
  <2> QED
    BY <1>2, <1>4, <2>1, ChunkValue
<1> HIDE DEF value, c, l
<1>13. /\ DOMAIN got' = Before(field) \cup {field}
       /\ \A f \in DOMAIN got' : got'[f] = IF f = field THEN Value(field, req) ELSE got[f]
  BY <1>1, <1>2, <1>12
<1>14. \A f \in DOMAIN got' : got'[f] = Value(f, req)
  BY <1>2, <1>5, <1>13
<1>15. field' = NextOf(field, req)
  <2>1. \A g \in NeedsOf(field) : got'[g] = Number(g, req)
    <3> TAKE g \in NeedsOf(field)
    <3>1. g \in DOMAIN got' /\ g \in Numbers
      BY <1>8, <1>13
    <3>2. got'[g] = Value(g, req)
      BY <1>14, <3>1
    <3> QED
      BY <3>1, <3>2 DEF Value
  <2>2. After(field, got') = NextOf(field, req)
    BY <1>4, <1>5, <2>1, AfterRight
  <2> QED
    BY <1>3, <2>2
<1>16. cst = "start" => FALSE
  <2>1. cst = "start" => Len(c) = 0
    BY <1>5, <1>7, <1>10, NoBytes, ByteOf
  <2>2. cst = "start" => field = "opcode"
    BY <1>2, <1>4 DEF SentInv
  <2>3. field = "opcode" => Len(c) = 1
    <3>1. "opcode" \in Numbers
      BY DEF Numbers
    <3>2. Len(Chunk("opcode", req)) = NumberWidth("opcode")
      BY <1>4, <3>1, NumberFits
    <3> QED
      BY <3>2 DEF NumberWidth, c
  <2> QED
    BY <2>1, <2>2, <2>3
<1>17. field' \in FieldsOf(req') \cup {"done"}
  BY <1>3, <1>6, <1>15
<1>18. field' = "done" => DOMAIN got' = FieldsOf(req')
  <2>1. ASSUME field' = "done" PROVE DOMAIN got' = FieldsOf(req)
    BY <1>8, <1>13, <1>15, <2>1
  <2> QED
    BY <1>3, <2>1
<1>19. Begins(wire', Left(field', req'))
  BY <1>3, <1>11, <1>15 DEF l
<1> QED
  BY <1>3, <1>5, <1>14, <1>16, <1>17, <1>18, <1>19

\* Nothing of what the worker has and awaits changes.
LEMMA SentKept ==
    ASSUME SentInv, req' = req, field' = field, got' = got, wire' = wire,
           wst' = wst \/ (wst' = "closed" /\ wst = "writing"), unread' = unread,
           cst' = "start" => cst = "start"
    PROVE  SentInv'
  BY DEF SentInv, Value, Left, FieldsOf, Plain

\* The worker gives up before it has all fields.
LEMMA SentGivenUp ==
    ASSUME wst' # "reading", field' # "done"
    PROVE  SentInv'
  BY DEF SentInv

LEMMA SentStep == ReadInv /\ SentInv /\ [Next]_vars => SentInv'
<1> SUFFICES ASSUME ReadInv, SentInv, [Next]_vars PROVE SentInv'
  OBVIOUS
<1>1. CASE UNCHANGED vars
  BY <1>1, SentKept DEF vars, client, worker
<1>2. CASE Send
  <2>0. /\ req' = req /\ field' = field /\ got' = got /\ wst' = wst
        /\ cst = "start" /\ cst' = "reading"
    BY <1>2 DEF Send, worker
  <2>1. ASSUME Plain(req)', wst' = "reading" \/ field' = "done"
        PROVE  wst = "reading" /\ field = "opcode" /\ wire = <<>> /\ ~unread /\ Plain(req)
               /\ \A f \in DOMAIN got : got[f] = Value(f, req)
    <3>1. Plain(req)
      BY <2>0, <2>1 DEF Plain
    <3>2. /\ field = "opcode" /\ wire = <<>> /\ ~unread
          /\ \A f \in DOMAIN got : got[f] = Value(f, req)
      BY <2>0, <2>1, <3>1 DEF SentInv
    <3> QED
      BY <2>0, <2>1, <3>1, <3>2
  <2>2. ASSUME Plain(req)', wst' = "reading" \/ field' = "done"
        PROVE  Begins(wire', Left(field', req')) /\ ~unread'
    <3>0. wst = "reading" /\ field = "opcode" /\ ~unread
      BY <2>1, <2>2
    <3>1. PICK n \in 1..Len(Wire(req)) : wire' = SubSeq(Wire(req), 1, n)
      BY <1>2, <3>0 DEF Send
    <3>2. unread' = unread
      BY <1>2, <3>0 DEF Send
    <3>3. Wire(req) \in Bytes /\ Wire(req) = Left("opcode", req)
      BY WireLaidOut DEF ReadInv
    <3>4. Len(Wire(req)) \in Nat /\ n \in 0..Len(Wire(req)) /\ n <= Len(Wire(req))
      BY <3>3, ByteOf
    <3>5. Len(wire') = n /\ \A i \in 1..n : wire'[i] = Wire(req)[i]
      BY <3>1, <3>3, <3>4, PartOf
    <3>6. Begins(wire', Wire(req))
      BY <3>4, <3>5 DEF Begins
    <3>7. Left(field', req') = Wire(req)
      BY <2>0, <3>0, <3>3
    <3> QED
      BY <3>0, <3>2, <3>6, <3>7
  <2>3. "opcode" \in FieldsOf(req') /\ "opcode" # "done"
    BY DEF FieldsOf, Common
  <2> QED
    BY <2>0, <2>1, <2>2, <2>3 DEF SentInv, Value
<1>3. CASE Arrive \/ Stop \/ Leave
  <2>1. /\ req' = req /\ field' = field /\ got' = got /\ wire' = wire
        /\ wst' = wst /\ unread' = unread /\ (cst' = "start" => cst = "start")
    BY <1>3 DEF Arrive, Stop, Leave, client, worker
  <2> QED
    BY <2>1, SentKept
<1>4. CASE Recv \/ Reset
  <2>1. /\ req' = req /\ field' = field /\ got' = got /\ wire' = wire
        /\ wst' = wst /\ unread' = unread /\ cst = "reading"
    BY <1>4 DEF Recv, Reset, worker
  <2>2. cst' # "start"
    <3>1. CASE Reset
      BY <3>1 DEF Reset
    <3>2. CASE Recv
      <4>1. cst' = cst \/ cst' = "done"
        BY <3>2 DEF Recv
      <4> QED
        BY <2>1, <4>1
    <3> QED
      BY <1>4, <3>1, <3>2
  <2> QED
    BY <2>1, <2>2, SentKept
<1>5. CASE ReadField
  BY <1>5, ReadFieldSent
<1>6. CASE ReadTimesOut \/ AllocFails \/ ReadCloses \/ Abort
  <2>1. wst' \in {"writing", "closed"} /\ field' = field /\ \E w \in Awaited : TRUE
    BY <1>6 DEF ReadTimesOut, AllocFails, ReadCloses, Abort, Answer
  <2>2. field # "done"
    BY <2>1, Waiting
  <2> QED
    BY <2>1, <2>2, SentGivenUp
<1>7. CASE Act
  <2>1. /\ req' = req /\ field' = field /\ got' = got /\ wire' = <<>> /\ cst' = cst
        /\ unread' = (wire # <<>>) /\ wst = "reading" /\ field = "done"
    BY <1>7 DEF Act, Answer, client
  <2>2. SUFFICES ASSUME Plain(req)', wst' = "reading" \/ field' = "done"
                 PROVE  /\ field' \in FieldsOf(req') \cup {"done"}
                        /\ \A f \in DOMAIN got' : got'[f] = Value(f, req')
                        /\ field' = "done" => DOMAIN got' = FieldsOf(req')
                        /\ Begins(wire', Left(field', req'))
                        /\ ~unread'
                        /\ cst' = "start" => field' = "opcode" /\ wire' = <<>>
    BY DEF SentInv, Value, Left, FieldsOf, Plain
  <2>3. Plain(req)
    BY <2>1, <2>2 DEF Plain
  <2>4. /\ \A f \in DOMAIN got : got[f] = Value(f, req)
        /\ DOMAIN got = FieldsOf(req)
        /\ Begins(wire, Left("done", req)) /\ ~unread /\ cst # "start"
    BY <2>1, <2>3 DEF SentInv
  <2>5. Len(wire) = 0
    <3>1. Len(wire) <= 0 /\ wire \in Bytes
      BY <2>4, NoBytes DEF Begins, Left, ReadInv
    <3>2. Len(wire) \in Nat
      BY <3>1, ByteOf
    <3> QED
      BY <3>1, <3>2
  <2>6. wire = <<>>
    BY <2>5, NoBytes DEF ReadInv
  <2>7. Begins(wire', Left(field', req'))
    BY <2>1, <2>4, <2>6
  <2> QED
    BY <2>1, <2>4, <2>6, <2>7
<1>8. CASE Write \/ WriteFails \/ Close
  <2>1. /\ req' = req /\ field' = field /\ got' = got /\ wire' = wire
        /\ (wst' = wst \/ (wst' = "closed" /\ wst = "writing")) /\ unread' = unread /\ cst' = cst
    BY <1>8 DEF Write, WriteFails, Close, client
  <2> QED
    BY <2>1, SentKept
<1> QED
  BY <1>1, <1>2, <1>3, <1>4, <1>5, <1>6, <1>7, <1>8 DEF Next

\* read_client_req: however the bytes of a request arrive and whatever part of it
\* send took, a request that the worker acts upon is the one the client meant.
THEOREM ReadsWhatIsSent == Spec => []AsSent
<1>1. Init => ReadInv /\ SentInv
  BY ReadInit, SentInit
<1>2. (ReadInv /\ SentInv) /\ [Next]_vars => (ReadInv /\ SentInv)'
  BY ReadStep, SentStep
<1>3. ReadInv /\ SentInv => AsSent
  <2> SUFFICES ASSUME ReadInv, SentInv, field = "done", Plain(req)
               PROVE  /\ \A f \in DOMAIN Meant(req) : f \in DOMAIN got /\ got[f] = Meant(req)[f]
                      /\ DOMAIN got \cap {"name", "word", "path", "hash", "file"} \subseteq DOMAIN Meant(req)
                      /\ wire = <<>> /\ ~unread
    BY DEF AsSent
  <2>1. /\ \A f \in DOMAIN got : got[f] = Value(f, req)
        /\ DOMAIN got = FieldsOf(req)
        /\ Begins(wire, Left("done", req)) /\ ~unread
    BY DEF SentInv
  <2>2. Len(wire) = 0
    <3>1. Len(wire) <= 0 /\ wire \in Bytes
      BY <2>1, NoBytes DEF Begins, Left, ReadInv
    <3>2. Len(wire) \in Nat
      BY <3>1, ByteOf
    <3> QED
      BY <3>1, <3>2
  <2>3. wire = <<>>
    BY <2>2, NoBytes DEF ReadInv
  <2> DEFINE D == DOMAIN Meant(req)
             more == IF req.op = LOCAL_OP THEN {}
                     ELSE IF req.op = USER_OP
                       THEN {"uflag", "perm", "name"} \cup (IF req.flag = CREATE_USER THEN {"word"} ELSE {})
                       ELSE {"path"} \cup (IF req.op = PUT_FILE THEN {"hash", "file"} ELSE {})
  <2>4. D = {"opcode", "flag", "sid", "user", "pass"} \cup more
    BY DEF Meant
  <2>5. \A f \in D : f \in FieldsOf(req)
    BY <2>4 DEF FieldsOf, Common, OfUser, OfNew, OfPath, OfFile
  <2>6. FieldsOf(req) \cap {"name", "word", "path", "hash", "file"} \subseteq D
    BY <2>4 DEF FieldsOf, Common, OfUser, OfNew, OfPath, OfFile
  <2>7. ASSUME NEW f \in D PROVE Value(f, req) = Meant(req)[f]
    <3>1. CASE f \in {"opcode", "flag", "uflag", "sid", "perm"}
      BY <2>7, <3>1 DEF Value, Number, Numbers, Meant
    <3>2. CASE f \in {"user", "pass", "name", "word", "path", "hash", "file"}
      BY <2>7, <3>2 DEF Value, String, Numbers, Meant
    <3> QED
      BY <2>4, <2>7, <3>1, <3>2
  <2> HIDE DEF D
  <2>8. \A f \in D : f \in DOMAIN got /\ got[f] = Meant(req)[f]
    BY <2>1, <2>5, <2>7
  <2>9. DOMAIN got \cap {"name", "word", "path", "hash", "file"} \subseteq D
    BY <2>1, <2>6
  <2> QED
    BY <2>1, <2>3, <2>8, <2>9 DEF D
<1> QED
  BY <1>1, <1>2, <1>3, PTL DEF Spec

-----------------------------------------------------------------------------
(***************************************************************************)
(* An answer, field by field, as the client is to read it.                 *)
(***************************************************************************)

\* The length of what follows the first four fields of an answer.
APaylen(a) == Len(a.msg) + 1 + (IF a.content = <<>> THEN 0 ELSE H_HASH_LEN + Len(a.content))

\* An answer whose parts fit their fields.
Fits(a) ==
    /\ a.code \in 0..255 /\ a.sid \in Nat /\ a.sid < Place(H_SESSION_ID)
    /\ a.msg \in Bytes /\ Len(a.msg) \in 1..255
    /\ a.content \in Bytes
    /\ a.content # <<>> => a.code = OP_SUCCESS
    /\ APaylen(a) < Place(H_PAYLOAD_LEN)
    /\ a.content # <<>> => (Digest(a.content) \in Bytes /\ Len(Digest(a.content)) = H_HASH_LEN)

ANumbers == {"code", "reserved", "sid", "paylen", "msglen"}

ANumber(f, a) ==
    CASE f = "code"     -> a.code
      [] f = "reserved" -> 0
      [] f = "sid"      -> a.sid
      [] f = "paylen"   -> APaylen(a)
      [] f = "msglen"   -> Len(a.msg)

ANumberWidth(f) ==
    CASE f \in {"code", "reserved", "msglen"} -> 1
      [] f = "sid"    -> H_SESSION_ID
      [] f = "paylen" -> H_PAYLOAD_LEN

AString(f, a) ==
    CASE f = "msg"     -> a.msg
      [] f = "digest"  -> Digest(a.content)
      [] f = "content" -> a.content

AValue(f, a) == IF f \in ANumbers THEN ANumber(f, a) ELSE AString(f, a)
AChunk(f, a) == IF f \in ANumbers THEN Packed(ANumber(f, a), ANumberWidth(f)) ELSE AString(f, a)

\* What is left of it from a field on.
AtContent(a)  == Joined(AChunk("content", a), <<>>)
AtDigest(a)   == Joined(AChunk("digest", a), AtContent(a))
AtMsg(a)      == Joined(AChunk("msg", a), IF a.content = <<>> THEN <<>> ELSE AtDigest(a))
AtMsglen(a)   == Joined(AChunk("msglen", a), AtMsg(a))
AtLen(a)      == Joined(AChunk("paylen", a), AtMsglen(a))
AtId(a)       == Joined(AChunk("sid", a), AtLen(a))
AtZero(a)     == Joined(AChunk("reserved", a), AtId(a))
AtCode(a)     == Joined(AChunk("code", a), AtZero(a))

ALeft(f, a) ==
    CASE f = "code"     -> AtCode(a)
      [] f = "reserved" -> AtZero(a)
      [] f = "sid"      -> AtId(a)
      [] f = "paylen"   -> AtLen(a)
      [] f = "msglen"   -> AtMsglen(a)
      [] f = "msg"      -> AtMsg(a)
      [] f = "digest"   -> AtDigest(a)
      [] f = "content"  -> AtContent(a)
      [] f = "done"     -> <<>>

ANext(f, a) ==
    CASE f = "code"     -> "reserved"
      [] f = "reserved" -> "sid"
      [] f = "sid"      -> "paylen"
      [] f = "paylen"   -> "msglen"
      [] f = "msglen"   -> "msg"
      [] f = "msg"      -> IF a.content = <<>> THEN "done" ELSE "digest"
      [] f = "digest"   -> "content"
      [] f = "content"  -> "done"

AFieldsOf(a) == ANumbers \cup {"msg"} \cup (IF a.content = <<>> THEN {} ELSE {"digest", "content"})

ABefore(f) ==
    CASE f = "code"     -> {}
      [] f = "reserved" -> {"code"}
      [] f = "sid"      -> {"code", "reserved"}
      [] f = "paylen"   -> {"code", "reserved", "sid"}
      [] f = "msglen"   -> {"code", "reserved", "sid", "paylen"}
      [] f = "msg"      -> ANumbers
      [] f = "digest"   -> ANumbers \cup {"msg"}
      [] f = "content"  -> ANumbers \cup {"msg", "digest"}

LEMMA OneByte == Place(1) = 256
  BY Places

LEMMA AWidths == \A f \in ANumbers : ANumberWidth(f) \in Nat \ {0}
<1> TAKE f \in ANumbers
<1>1. CASE f \in {"code", "reserved", "msglen"}
  BY <1>1 DEF ANumberWidth
<1>2. CASE f \in {"sid", "paylen"}
  BY <1>2, Widths DEF ANumberWidth
<1> QED
  BY <1>1, <1>2 DEF ANumbers

\* The lengths in an answer.
LEMMA ALengths ==
    ASSUME NEW a, Fits(a)
    PROVE  /\ Len(a.msg) \in Nat /\ Len(a.msg) >= 1 /\ Len(a.msg) < 256
           /\ Len(a.content) \in Nat
           /\ a.content # <<>> => Len(a.content) >= 1
           /\ H_HASH_LEN \in Nat /\ H_HASH_LEN > 2
           /\ APaylen(a) \in Nat /\ APaylen(a) < Place(H_PAYLOAD_LEN)
<1> DEFINE m == Len(a.msg)
           c == Len(a.content)
           P == Place(H_PAYLOAD_LEN)
<1>1. m \in 1..255 /\ m + 1 + (IF a.content = <<>> THEN 0 ELSE H_HASH_LEN + c) < P
  BY DEF Fits, APaylen
<1>2. c \in Nat /\ (a.content # <<>> => c >= 1)
  <2>1. a.content \in Bytes
    BY DEF Fits
  <2>2. c \in Nat
    BY <2>1, ByteOf
  <2>3. a.content # <<>> => c # 0
    BY <2>1, NoBytes
  <2> QED
    BY <2>2, <2>3
<1>3. H_HASH_LEN \in Nat /\ H_HASH_LEN > 2 /\ P \in Nat
  BY Widths, PlaceOn
<1> HIDE DEF m, c, P
<1>4. m + 1 + (IF a.content = <<>> THEN 0 ELSE H_HASH_LEN + c) \in Nat
      /\ m + 1 + (IF a.content = <<>> THEN 0 ELSE H_HASH_LEN + c) < P
  BY <1>1, <1>2, <1>3
<1>5. m \in Nat /\ m >= 1 /\ m < 256
  <2>1. m \in 1..255
    BY <1>1
  <2> QED
    BY <2>1
<1>6. APaylen(a) \in Nat /\ APaylen(a) < P
  BY <1>4 DEF APaylen, m, c
<1> QED
  BY <1>2, <1>3, <1>5, <1>6 DEF m, c, P

\* Every number of an answer fits its field.
LEMMA ANumberFits ==
    ASSUME NEW a, Fits(a), NEW f \in ANumbers
    PROVE  /\ AChunk(f, a) \in Bytes /\ Len(AChunk(f, a)) = ANumberWidth(f)
           /\ Unpacked(AChunk(f, a)) = ANumber(f, a)
<1>1. ANumberWidth(f) \in Nat
  BY AWidths
<1>2. ANumber(f, a) \in Nat /\ ANumber(f, a) < Place(ANumberWidth(f))
  <2>1. CASE f = "code"
    <3>1. \A x \in 0..255 : x \in Nat /\ x < Place(1)
      BY OneByte
    <3>2. a.code \in 0..255
      BY DEF Fits
    <3>3. a.code \in Nat /\ a.code < Place(1)
      BY <3>1, <3>2
    <3> QED
      BY <2>1, <3>3 DEF ANumber, ANumberWidth
  <2>2. CASE f = "reserved"
    BY <2>2, OneByte DEF ANumber, ANumberWidth
  <2>3. CASE f = "sid"
    BY <2>3 DEF ANumber, ANumberWidth, Fits
  <2>4. CASE f = "paylen"
    BY <2>4, ALengths DEF ANumber, ANumberWidth
  <2>5. CASE f = "msglen"
    <3>1. Len(a.msg) \in Nat /\ Len(a.msg) < Place(1)
      BY ALengths, OneByte
    <3> QED
      BY <2>5, <3>1 DEF ANumber, ANumberWidth
  <2> QED
    BY <2>1, <2>2, <2>3, <2>4, <2>5 DEF ANumbers
<1>3. AChunk(f, a) = Packed(ANumber(f, a), ANumberWidth(f))
  BY DEF AChunk
<1>4. Packed(ANumber(f, a), ANumberWidth(f)) \in Bytes
      /\ Len(Packed(ANumber(f, a), ANumberWidth(f))) = ANumberWidth(f)
  BY <1>1, <1>2, PackedIn
<1>5. Unpacked(Packed(ANumber(f, a), ANumberWidth(f))) = ANumber(f, a)
  BY <1>1, <1>2, UnpackedPacked
<1> QED
  BY <1>3, <1>4, <1>5

\* Every field of an answer has a byte at least.
LEMMA AChunkOf ==
    ASSUME NEW a, Fits(a), NEW f \in AFieldsOf(a)
    PROVE  /\ AChunk(f, a) \in Bytes
           /\ Len(AChunk(f, a)) \in Nat \ {0}
           /\ (IF f \in {"msg", "digest", "content"} THEN AChunk(f, a) ELSE Unpacked(AChunk(f, a)))
                = AValue(f, a)
<1>1. CASE f \in ANumbers
  <2>1. f \notin {"msg", "digest", "content"}
    BY <1>1 DEF ANumbers
  <2> QED
    BY <1>1, <2>1, ANumberFits, AWidths DEF AValue
<1>2. CASE f = "msg"
  <2>1. AChunk(f, a) = a.msg /\ AValue(f, a) = a.msg
    BY <1>2 DEF AChunk, AValue, AString, ANumbers
  <2>2. a.msg \in Bytes
    BY DEF Fits
  <2>3. Len(a.msg) \in Nat \ {0}
    BY ALengths
  <2> QED
    BY <1>2, <2>1, <2>2, <2>3
<1>3. CASE f \in {"digest", "content"}
  <2>0. a.content # <<>>
    BY <1>3 DEF AFieldsOf, ANumbers
  <2>1. CASE f = "digest"
    <3>1. AChunk(f, a) = Digest(a.content) /\ AValue(f, a) = Digest(a.content)
      BY <2>1 DEF AChunk, AValue, AString, ANumbers
    <3>2. Digest(a.content) \in Bytes /\ Len(Digest(a.content)) = H_HASH_LEN
      BY <2>0 DEF Fits
    <3>3. H_HASH_LEN \in Nat \ {0}
      BY Widths
    <3> QED
      BY <2>1, <3>1, <3>2, <3>3
  <2>2. CASE f = "content"
    <3>1. AChunk(f, a) = a.content /\ AValue(f, a) = a.content
      BY <2>2 DEF AChunk, AValue, AString, ANumbers
    <3>2. a.content \in Bytes
      BY DEF Fits
    <3>3. Len(a.content) \in Nat \ {0}
      BY <2>0, ALengths
    <3> QED
      BY <2>2, <3>1, <3>2, <3>3
  <2> QED
    BY <1>3, <2>1, <2>2
<1> QED
  BY <1>1, <1>2, <1>3 DEF AFieldsOf

LEMMA ALeftOn ==
    ASSUME NEW a, NEW f \in AFieldsOf(a)
    PROVE  /\ ALeft(f, a) = Joined(AChunk(f, a), ALeft(ANext(f, a), a))
           /\ ANext(f, a) \in AFieldsOf(a) \cup {"done"}
           /\ ANext(f, a) # "done" => ABefore(ANext(f, a)) = ABefore(f) \cup {f}
           /\ ANext(f, a) = "done" => AFieldsOf(a) = ABefore(f) \cup {f}
           /\ f \notin ABefore(f)
<1>1. CASE f \in {"code", "reserved"}
  BY <1>1 DEF ANext, ALeft, AtCode, AtZero, ABefore, AFieldsOf, ANumbers
<1>2. CASE f \in {"sid", "paylen"}
  BY <1>2 DEF ANext, ALeft, AtId, AtLen, ABefore, AFieldsOf, ANumbers
<1>3. CASE f = "msglen"
  BY <1>3 DEF ANext, ALeft, AtMsglen, ABefore, AFieldsOf, ANumbers
<1>4. CASE f = "msg"
  BY <1>4 DEF ANext, ALeft, AtMsg, ABefore, AFieldsOf, ANumbers
<1>5. CASE f \in {"digest", "content"}
  <2>0. a.content # <<>>
    BY <1>5 DEF AFieldsOf, ANumbers
  <2>1. CASE f = "digest"
    BY <2>0, <2>1 DEF ANext, ALeft, AtDigest, ABefore, AFieldsOf, ANumbers
  <2>2. CASE f = "content"
    BY <2>0, <2>2 DEF ANext, ALeft, AtContent, ABefore, AFieldsOf, ANumbers
  <2> QED
    BY <1>5, <2>1, <2>2
<1> QED
  BY <1>1, <1>2, <1>3, <1>4, <1>5 DEF AFieldsOf, ANumbers

LEMMA ALeftBytes ==
    ASSUME NEW a, Fits(a), NEW f \in AFieldsOf(a) \cup {"done"}
    PROVE  ALeft(f, a) \in Bytes
<1>1. \A g \in AFieldsOf(a) : \A b \in Bytes : Joined(AChunk(g, a), b) \in Bytes
  BY AChunkOf, JoinedOn
<1>2. <<>> \in Bytes
  BY NoBytes
<1>3. a.content # <<>> => AtContent(a) \in Bytes
  BY <1>1, <1>2 DEF AtContent, AFieldsOf
<1>4. a.content # <<>> => AtDigest(a) \in Bytes
  BY <1>1, <1>3 DEF AtDigest, AFieldsOf
<1>5. AtMsg(a) \in Bytes
  BY <1>1, <1>2, <1>4 DEF AtMsg, AFieldsOf
<1>6. AtMsglen(a) \in Bytes
  BY <1>1, <1>5 DEF AtMsglen, AFieldsOf, ANumbers
<1>7. AtLen(a) \in Bytes
  BY <1>1, <1>6 DEF AtLen, AFieldsOf, ANumbers
<1>8. AtId(a) \in Bytes
  BY <1>1, <1>7 DEF AtId, AFieldsOf, ANumbers
<1>9. AtZero(a) \in Bytes
  BY <1>1, <1>8 DEF AtZero, AFieldsOf, ANumbers
<1>10. AtCode(a) \in Bytes
  BY <1>1, <1>9 DEF AtCode, AFieldsOf, ANumbers
<1> QED
  BY <1>2, <1>3, <1>4, <1>5, <1>6, <1>7, <1>8, <1>9, <1>10 DEF ALeft, AFieldsOf, ANumbers

\* write_response lays the answer out, and the content after it.
LEMMA AnswerLaidOut ==
    ASSUME NEW a, Fits(a)
    PROVE  /\ Header(a) \in Bytes /\ Content(a) \in Bytes
           /\ Joined(Header(a), Content(a)) = ALeft("code", a)
<1> DEFINE c1 == AChunk("code", a)
           c2 == AChunk("reserved", a)
           c3 == AChunk("sid", a)
           c4 == AChunk("paylen", a)
           c5 == AChunk("msglen", a)
           c6 == AChunk("msg", a)
           C == Content(a)
           nil == <<>>
<1>1. /\ c1 \in Bytes /\ c2 \in Bytes /\ c3 \in Bytes /\ c4 \in Bytes /\ c5 \in Bytes
      /\ c6 \in Bytes
  BY AChunkOf DEF AFieldsOf, ANumbers
<1>2. C = IF a.content = nil THEN nil ELSE Joined(AChunk("digest", a), Joined(AChunk("content", a), nil))
  <2>1. AChunk("digest", a) = Digest(a.content) /\ AChunk("content", a) = a.content
    BY DEF AChunk, AString, ANumbers
  <2>2. a.content \in Bytes
    BY DEF Fits
  <2>3. Joined(a.content, nil) = a.content
    BY <2>2, GluedTwice DEF Joined
  <2> QED
    BY <2>1, <2>3 DEF Content, Joined
<1>3. C \in Bytes
  <2>1. a.content # nil => Digest(a.content) \in Bytes /\ a.content \in Bytes
    BY DEF Fits
  <2>2. a.content # nil => Digest(a.content) \o a.content \in Bytes
    BY <2>1, Glued
  <2> QED
    BY <2>2, NoBytes DEF Content
<1>4. Header(a) = Joined(Joined(Joined(Joined(Joined(c1, c2), c3), c4), c5), c6)
  <2>1. Len(a.msg) % 256 = Len(a.msg)
    <3>1. Len(a.msg) \in Nat /\ Len(a.msg) < 256 /\ 256 \in Nat \ {0}
      BY ALengths
    <3> QED
      BY <3>1, Remainder
  <2>2. /\ c1 = Packed(a.code, 1) /\ c2 = Packed(0, 1) /\ c3 = Packed(a.sid, H_SESSION_ID)
        /\ c4 = Packed(APaylen(a), H_PAYLOAD_LEN) /\ c5 = Packed(Len(a.msg), 1) /\ c6 = a.msg
    BY DEF AChunk, ANumber, ANumberWidth, ANumbers, AString
  <2> HIDE DEF c1, c2, c3, c4, c5, c6
  <2>3. Header(a) = Packed(a.code, 1) \o Packed(0, 1) \o Packed(a.sid, H_SESSION_ID)
                      \o Packed(APaylen(a), H_PAYLOAD_LEN) \o Packed(Len(a.msg) % 256, 1) \o a.msg
    BY DEF Header, APaylen
  <2> QED
    BY <2>1, <2>2, <2>3 DEF Joined
<1>5. ALeft("code", a) = Joined(c1, Joined(c2, Joined(c3, Joined(c4, Joined(c5, Joined(c6, C))))))
  <2> HIDE DEF c1, c2, c3, c4, c5, c6, C
  <2>1. AtMsg(a) = Joined(c6, C)
    BY <1>2 DEF AtMsg, AtDigest, AtContent, c6
  <2>2. AtLen(a) = Joined(c4, Joined(c5, Joined(c6, C)))
    BY <2>1 DEF AtLen, AtMsglen, c4, c5
  <2>3. AtCode(a) = Joined(c1, Joined(c2, Joined(c3, AtLen(a))))
    BY DEF AtCode, AtZero, AtId, c1, c2, c3
  <2> QED
    BY <2>2, <2>3 DEF ALeft
<1> HIDE DEF c1, c2, c3, c4, c5, c6, C
<1> DEFINE p == Joined(Joined(Joined(Joined(c1, c2), c3), c4), c5)
           t == Joined(c6, C)
<1>6. t \in Bytes /\ p \in Bytes
  BY <1>1, <1>3, FiveJoined, JoinedOn
<1>7. Header(a) \in Bytes
  BY <1>1, <1>4, <1>6, JoinedOn
<1>8. Joined(Joined(p, c6), C) = Joined(p, t)
  <2> HIDE DEF p
  <2> QED
    BY <1>1, <1>3, <1>6, JoinedOn
<1>9. Joined(p, t) = Joined(c1, Joined(c2, Joined(c3, Joined(c4, Joined(c5, t)))))
  <2> HIDE DEF t
  <2> QED
    BY <1>1, <1>6, FiveJoined
<1> QED
  BY <1>3, <1>4, <1>5, <1>7, <1>8, <1>9 DEF C

-----------------------------------------------------------------------------
(***************************************************************************)
(* What is answered is what the client reads.                              *)
(***************************************************************************)

\* What is on its way to the client, and what the client has, are the answer.
AnswerInv ==
    /\ cst \in {"start", "reading", "done", "failed", "stopped", "left"}
    /\ head \in Bytes /\ body \in Bytes /\ out \in Bytes /\ buffer \in Bytes
    /\ Len(out) <= Window
    /\ wst # "writing" => head = <<>> /\ body = <<>>
    /\ wst = "reading" => resp = NoAnswer
    /\ cst = "failed" => wst = "closed"
    /\ (cst = "done" <=> cfield = "done")
    /\ cst \in {"left", "failed"} => out = <<>> /\ buffer = <<>>
    /\ resp = NoAnswer \/ Fits(resp)
    /\ cst \in {"start", "reading", "stopped", "done"} =>
         IF resp = NoAnswer
           THEN /\ cfield = "code" /\ DOMAIN seen = {}
                /\ buffer = <<>> /\ out = <<>> /\ head = <<>> /\ body = <<>>
           ELSE /\ cfield \in AFieldsOf(resp) \cup {"done"}
                /\ DOMAIN seen = IF cfield = "done" THEN AFieldsOf(resp) ELSE ABefore(cfield)
                /\ \A f \in DOMAIN seen : seen[f] = AValue(f, resp)
                /\ cfield # "done" => Len(buffer) < Len(AChunk(cfield, resp))
                /\ Joined(buffer, Joined(out, Joined(head, body))) = ALeft(cfield, resp)

LEMMA NothingJoined ==
    ASSUME NEW s \in Bytes, NEW u \in Bytes
    PROVE  /\ Joined(<<>>, s) = s
           /\ Joined(s, u) = <<>> => s = <<>> /\ u = <<>>
<1>1. Joined(<<>>, s) = s
  BY GluedTwice DEF Joined
<1>2. ASSUME Joined(s, u) = <<>> PROVE s = <<>> /\ u = <<>>
  <2>1. Len(s) + Len(u) = 0
    BY <1>2, GluedLength, NoBytes
  <2>2. Len(s) \in Nat /\ Len(u) \in Nat
    BY ByteOf
  <2>3. Len(s) = 0 /\ Len(u) = 0
    BY <2>1, <2>2
  <2> QED
    BY <2>3, NoBytes
<1> QED
  BY <1>1, <1>2

LEMMA NoAnswerIs == ASSUME NEW a, Fits(a) PROVE a # NoAnswer
<1>1. Len(a.msg) >= 1
  BY ALengths
<1>2. NoAnswer.msg = <<>>
  BY DEF NoAnswer
<1>3. Len(NoAnswer.msg) = 0
  BY <1>2, NoBytes
<1> QED
  BY <1>1, <1>3

\* What the worker says of a failure fits.
LEMMA FailedFits == ASSUME NEW c \in 0..255 PROVE Fits(Failed(c))
<1> DEFINE a == Failed(c)
<1>1. /\ a.code = c /\ a.msg = <<c>> /\ a.content = <<>> /\ a.sid = 0
  BY DEF Failed
<1>2. /\ a.msg \in Bytes /\ Len(a.msg) = 1
  BY <1>1 DEF Bytes
<1>3. a.content \in Bytes
  BY <1>1, NoBytes
<1>4. Place(H_PAYLOAD_LEN) \in Nat /\ Place(H_PAYLOAD_LEN) >= 256
  BY Widths, PlaceGrows
<1>5. Place(H_SESSION_ID) \in Nat /\ Place(H_SESSION_ID) >= 256
  BY Widths, PlaceGrows
<1>6. APaylen(a) = 2
  BY <1>1, <1>2 DEF APaylen
<1> HIDE DEF a
<1>7. APaylen(a) < Place(H_PAYLOAD_LEN)
  BY <1>4, <1>6
<1>8. a.sid \in Nat /\ a.sid < Place(H_SESSION_ID)
  BY <1>1, <1>5
<1> QED
  BY <1>1, <1>2, <1>3, <1>7, <1>8 DEF Fits, a

\* And so does the answer to a request.
LEMMA FoundFits ==
    ASSUME ReadInv, field = "done", NEW x \in Answers, NEW s \in {got["sid"]} \cup NewSessions
    PROVE  Fits([code |-> x.code, msg |-> x.msg, content |-> x.content, sid |-> s])
<1> DEFINE a == [code |-> x.code, msg |-> x.msg, content |-> x.content, sid |-> s]
<1>1. a.code = x.code /\ a.msg = x.msg /\ a.content = x.content /\ a.sid = s
  OBVIOUS
<1>2. /\ x.code \in 0..255 /\ x.msg \in Bytes /\ Len(x.msg) \in 1..255
      /\ x.content \in Bytes
      /\ x.content # <<>> => x.code = OP_SUCCESS
      /\ Len(x.msg) + 1 + H_HASH_LEN + Len(x.content) < Place(H_PAYLOAD_LEN)
  BY FramingAssumption
<1>3. Digest(x.content) \in Bytes /\ Len(Digest(x.content)) = H_HASH_LEN
  BY DigestOf
<1>4. s \in Nat /\ s < Place(H_SESSION_ID)
  <2>1. Place(H_SESSION_ID) \in Nat
    BY Widths, PlaceOn
  <2>2. CASE s = got["sid"]
    <3>1. "sid" \in DOMAIN got /\ "sid" \in Numbers
      BY DEF ReadInv, Common, Numbers
    <3> QED
      BY <2>2, <3>1 DEF ReadInv
  <2>3. CASE s \in NewSessions
    <3>1. s \in 0..Place(H_SESSION_ID) - 1
      BY <2>3, FramingAssumption
    <3> QED
      BY <2>1, <3>1
  <2> QED
    BY <2>2, <2>3
<1>5. Len(x.msg) + 1 + (IF x.content = <<>> THEN 0 ELSE H_HASH_LEN + Len(x.content)) < Place(H_PAYLOAD_LEN)
  <2> DEFINE m == Len(x.msg)
             c == Len(x.content)
             P == Place(H_PAYLOAD_LEN)
  <2>1. m \in Nat /\ c \in Nat /\ H_HASH_LEN \in Nat /\ P \in Nat /\ m + 1 + H_HASH_LEN + c < P
    <3>1. c \in Nat
      BY <1>2, ByteOf
    <3>2. H_HASH_LEN \in Nat /\ P \in Nat
      BY Widths, PlaceOn
    <3>3. m \in 1..255 /\ m + 1 + H_HASH_LEN + c < P
      BY <1>2
    <3>4. m \in Nat
      BY <3>3
    <3> HIDE DEF m, c, P
    <3> QED
      BY <3>1, <3>2, <3>3, <3>4
  <2> HIDE DEF m, c, P
  <2>2. m + 1 + (IF x.content = <<>> THEN 0 ELSE H_HASH_LEN + c) < P
    BY <2>1
  <2> QED
    BY <2>2 DEF m, c, P
<1>6. APaylen(a) < Place(H_PAYLOAD_LEN)
  BY <1>1, <1>5 DEF APaylen
<1> HIDE DEF a
<1>7. Fits(a)
  BY <1>1, <1>2, <1>3, <1>4, <1>6 DEF Fits
<1> QED
  BY <1>7 DEF a

\* The client finds the lengths the worker gave, and the field it wrote next.
LEMMA ClientRight ==
    ASSUME Fits(resp), cfield \in AFieldsOf(resp), DOMAIN seen = ABefore(cfield),
           \A f \in DOMAIN seen : seen[f] = AValue(f, resp)
    PROVE  ClientWidth = Len(AChunk(cfield, resp)) /\ AfterAnswer = ANext(cfield, resp)
<1>1. CASE cfield \in {"code", "reserved", "sid", "paylen", "msglen"}
  <2>1. cfield \in ANumbers
    BY <1>1 DEF ANumbers
  <2>2. Len(AChunk(cfield, resp)) = ANumberWidth(cfield)
    BY <2>1, ANumberFits
  <2>3. CASE cfield \in {"code", "reserved", "msglen"}
    BY <2>2, <2>3 DEF ANumberWidth, ClientWidth, AfterAnswer, ANext
  <2>4. CASE cfield \in {"sid", "paylen"}
    BY <2>2, <2>4 DEF ANumberWidth, ClientWidth, AfterAnswer, ANext
  <2> QED
    BY <1>1, <2>3, <2>4
<1>2. CASE cfield \in {"msg", "digest", "content"}
  <2>1. "code" \in DOMAIN seen /\ "paylen" \in DOMAIN seen /\ "msglen" \in DOMAIN seen
    <3>1. CASE cfield = "msg"
      BY <3>1 DEF ABefore, ANumbers
    <3>2. CASE cfield = "digest"
      BY <3>2 DEF ABefore, ANumbers
    <3>3. CASE cfield = "content"
      BY <3>3 DEF ABefore, ANumbers
    <3> QED
      BY <1>2, <3>1, <3>2, <3>3
  <2>2. seen["code"] = resp.code /\ seen["paylen"] = APaylen(resp) /\ seen["msglen"] = Len(resp.msg)
    BY <2>1 DEF AValue, ANumber, ANumbers
  <2> DEFINE m == Len(resp.msg)
             c == Len(resp.content)
  <2>3. /\ m \in Nat /\ c \in Nat /\ H_HASH_LEN \in Nat /\ H_HASH_LEN > 2
        /\ resp.content # <<>> => c >= 1
    BY ALengths
  <2>4. ContentSize = IF resp.content = <<>> THEN -H_HASH_LEN ELSE c
    <3>1. ContentSize = (m + 1 + (IF resp.content = <<>> THEN 0 ELSE H_HASH_LEN + c)) - (m + 1 + H_HASH_LEN)
      BY <2>2 DEF ContentSize, APaylen
    <3> HIDE DEF m, c
    <3> QED
      BY <2>3, <3>1
  <2>5. CASE cfield = "msg"
    <3>1. AChunk(cfield, resp) = resp.msg
      BY <2>5 DEF AChunk, AString, ANumbers
    <3>2. ClientWidth = Len(resp.msg)
      BY <2>2, <2>5 DEF ClientWidth
    <3>3. ContentSize > 0 <=> resp.content # <<>>
      <4> HIDE DEF m, c
      <4> QED
        BY <2>3, <2>4
    <3>4. resp.content # <<>> => resp.code = OP_SUCCESS
      BY DEF Fits
    <3>5. (seen["code"] = OP_SUCCESS /\ ContentSize > 0) <=> resp.content # <<>>
      BY <2>2, <3>3, <3>4
    <3>6. AfterAnswer = IF seen["code"] = OP_SUCCESS /\ ContentSize > 0 THEN "digest" ELSE "done"
      BY <2>5 DEF AfterAnswer
    <3>7. ANext(cfield, resp) = IF resp.content = <<>> THEN "done" ELSE "digest"
      BY <2>5 DEF ANext
    <3> QED
      BY <3>1, <3>2, <3>5, <3>6, <3>7
  <2>6. CASE cfield \in {"digest", "content"}
    <3>0. resp.content # <<>>
      BY <2>6 DEF AFieldsOf, ANumbers
    <3>1. CASE cfield = "digest"
      <4>1. AChunk(cfield, resp) = Digest(resp.content)
        BY <3>1 DEF AChunk, AString, ANumbers
      <4>2. Len(Digest(resp.content)) = H_HASH_LEN
        BY <3>0 DEF Fits
      <4>3. ClientWidth = H_HASH_LEN /\ AfterAnswer = "content" /\ ANext(cfield, resp) = "content"
        BY <3>1 DEF ClientWidth, AfterAnswer, ANext
      <4> QED
        BY <4>1, <4>2, <4>3
    <3>2. CASE cfield = "content"
      <4>1. AChunk(cfield, resp) = resp.content
        BY <3>2 DEF AChunk, AString, ANumbers
      <4>2. ClientWidth = ContentSize /\ AfterAnswer = "done" /\ ANext(cfield, resp) = "done"
        BY <3>2 DEF ClientWidth, AfterAnswer, ANext
      <4> QED
        BY <2>4, <3>0, <4>1, <4>2
    <3> QED
      BY <2>6, <3>1, <3>2
  <2> QED
    BY <1>2, <2>5, <2>6
<1> QED
  BY <1>1, <1>2 DEF AFieldsOf, ANumbers

LEMMA AnswerInit == Init => AnswerInv
<1> SUFFICES ASSUME Init PROVE AnswerInv
  OBVIOUS
<1>1. /\ head = <<>> /\ body = <<>> /\ out = <<>> /\ buffer = <<>>
      /\ cst = "start" /\ cfield = "code" /\ DOMAIN seen = {} /\ resp = NoAnswer /\ wst = "reading"
  BY DEF Init, Nothing
<1>2. head \in Bytes /\ body \in Bytes /\ out \in Bytes /\ buffer \in Bytes
  BY <1>1, NoBytes
<1>3. Len(out) <= Window
  <2>1. Len(out) = 0 /\ Window \in Nat
    BY <1>1, NoBytes, FramingAssumption
  <2> QED
    BY <2>1
<1> QED
  BY <1>1, <1>2, <1>3 DEF AnswerInv

\* Nothing of the answer moves.
LEMMA AnswerKept ==
    ASSUME AnswerInv, resp' = resp, head' = head, body' = body, out' = out, buffer' = buffer,
           seen' = seen, cfield' = cfield,
           cst' = cst \/ (cst \in {"start", "reading"} /\ cst' \in {"reading", "stopped"}),
           wst' = wst \/ (wst' = "closed" /\ head = <<>> /\ body = <<>>)
    PROVE  AnswerInv'
<1>1. /\ cst' \in {"start", "reading", "done", "failed", "stopped", "left"}
      /\ (cst' = "done" <=> cst = "done")
      /\ (cst' \in {"left", "failed"} => cst = cst')
      /\ (cst' \in {"start", "reading", "stopped", "done"} => cst \in {"start", "reading", "stopped", "done"})
  BY DEF AnswerInv
<1>2. /\ head' \in Bytes /\ body' \in Bytes /\ out' \in Bytes /\ buffer' \in Bytes
      /\ Len(out') <= Window
      /\ (wst' # "writing" => head' = <<>> /\ body' = <<>>)
      /\ (wst' = "reading" => resp' = NoAnswer)
      /\ (cst' = "failed" => wst' = "closed")
      /\ (cst' = "done" <=> cfield' = "done")
      /\ (cst' \in {"left", "failed"} => out' = <<>> /\ buffer' = <<>>)
      /\ (resp' = NoAnswer \/ Fits(resp)')
  BY <1>1 DEF AnswerInv, Fits, APaylen
<1>3. ASSUME cst' \in {"start", "reading", "stopped", "done"}
      PROVE  (IF resp = NoAnswer
               THEN /\ cfield = "code" /\ DOMAIN seen = {}
                    /\ buffer = <<>> /\ out = <<>> /\ head = <<>> /\ body = <<>>
               ELSE /\ cfield \in AFieldsOf(resp) \cup {"done"}
                    /\ DOMAIN seen = IF cfield = "done" THEN AFieldsOf(resp) ELSE ABefore(cfield)
                    /\ \A f \in DOMAIN seen : seen[f] = AValue(f, resp)
                    /\ cfield # "done" => Len(buffer) < Len(AChunk(cfield, resp))
                    /\ Joined(buffer, Joined(out, Joined(head, body))) = ALeft(cfield, resp))
  BY <1>1, <1>3 DEF AnswerInv
<1> QED
  BY <1>1, <1>2, <1>3 DEF AnswerInv, AFieldsOf, ABefore, AValue, AChunk, ALeft, Joined

\* The worker has its answer.
LEMMA AnswerGiven ==
    ASSUME AnswerInv, wst = "reading", NEW a, Fits(a), Answer(a),
           cst' = cst, cfield' = cfield, buffer' = buffer, seen' = seen, out' = out
    PROVE  AnswerInv'
<1>1. wst' = "writing" /\ resp' = a /\ head' = Header(a) /\ body' = Content(a)
  BY DEF Answer
<1>2. Header(a) \in Bytes /\ Content(a) \in Bytes /\ Joined(Header(a), Content(a)) = ALeft("code", a)
  BY AnswerLaidOut
<1>3. a # NoAnswer
  BY NoAnswerIs
<1>4. resp = NoAnswer /\ cst # "failed"
  BY DEF AnswerInv
<1>5. ASSUME cst \in {"start", "reading", "stopped", "done"}
      PROVE  /\ cfield \in AFieldsOf(a) /\ cfield # "done"
             /\ DOMAIN seen = ABefore(cfield) /\ DOMAIN seen = {}
             /\ Len(buffer) < Len(AChunk(cfield, a))
             /\ Joined(buffer, Joined(out, Joined(Header(a), Content(a)))) = ALeft(cfield, a)
  <2>1. cfield = "code" /\ DOMAIN seen = {} /\ buffer = <<>> /\ out = <<>>
    BY <1>4, <1>5 DEF AnswerInv
  <2>2. cfield \in AFieldsOf(a) /\ cfield # "done" /\ DOMAIN seen = ABefore(cfield)
    BY <2>1 DEF AFieldsOf, ABefore, ANumbers
  <2>3. Len(buffer) = 0 /\ Len(AChunk(cfield, a)) \in Nat \ {0}
    BY <2>1, <2>2, NoBytes, AChunkOf
  <2> DEFINE h == Joined(Header(a), Content(a))
  <2>4. h \in Bytes
    BY <1>2, JoinedOn
  <2>5. Joined(<<>>, Joined(<<>>, h)) = h
    <3> HIDE DEF h
    <3> QED
      BY <2>4, NothingJoined
  <2> QED
    BY <1>2, <2>1, <2>2, <2>3, <2>5
<1>6. /\ head' \in Bytes /\ body' \in Bytes /\ out' \in Bytes /\ buffer' \in Bytes
      /\ Len(out') <= Window
      /\ cst' \in {"start", "reading", "done", "failed", "stopped", "left"}
      /\ (cst' = "done" <=> cfield' = "done")
      /\ (cst' \in {"left", "failed"} => out' = <<>> /\ buffer' = <<>>)
  BY <1>1, <1>2 DEF AnswerInv
<1>7. Fits(resp)'
  BY <1>1 DEF Fits, APaylen
<1> QED
  BY <1>1, <1>3, <1>4, <1>5, <1>6, <1>7 DEF AnswerInv, AFieldsOf, ABefore, AValue, AChunk, ALeft, Joined

\* The connection of a client that is gone.
LEMMA AnswerLost ==
    ASSUME AnswerInv, cst \in {"start", "reading", "stopped"},
           cst' = "left" \/ (cst' = "failed" /\ wst = "closed"),
           out' = <<>>, buffer' = <<>>, cfield' = cfield, wst' = wst, resp' = resp,
           head' = head, body' = body
    PROVE  AnswerInv'
<1>1. out' \in Bytes /\ buffer' \in Bytes /\ Len(out') <= Window
  <2>1. Window \in Nat
    BY FramingAssumption
  <2> QED
    BY <2>1, NoBytes
<1>2. cfield # "done"
  BY DEF AnswerInv
<1>3. resp' = NoAnswer \/ Fits(resp)'
  BY DEF AnswerInv, Fits, APaylen
<1> QED
  BY <1>1, <1>2, <1>3 DEF AnswerInv

\* A part of s goes over to the text before it.
LEMMA Moved ==
    ASSUME NEW o \in Bytes, NEW s \in Bytes, NEW u \in Bytes, NEW n \in 1..Len(s)
    PROVE  /\ Joined(o, SubSeq(s, 1, n)) \in Bytes
           /\ Len(Joined(o, SubSeq(s, 1, n))) = Len(o) + n
           /\ SubSeq(s, n + 1, Len(s)) \in Bytes
           /\ Joined(Joined(o, SubSeq(s, 1, n)), Joined(SubSeq(s, n + 1, Len(s)), u))
                = Joined(o, Joined(s, u))
<1> DEFINE p == SubSeq(s, 1, n)
           q == SubSeq(s, n + 1, Len(s))
<1>1. n \in 0..Len(s)
  <2>1. Len(s) \in Nat
    BY ByteOf
  <2> QED
    BY <2>1
<1>2. p \in Bytes /\ Len(p) = n /\ q \in Bytes
  BY <1>1, PartOf
<1>3. Joined(p, q) = s
  BY <1>1, PartsGlued DEF Joined
<1> HIDE DEF p, q
<1>4. Joined(o, p) \in Bytes /\ Len(Joined(o, p)) = Len(o) + n
  BY <1>2, GluedLength
<1>5. Joined(q, u) \in Bytes
  BY <1>2, JoinedOn
<1>6. Joined(Joined(o, p), Joined(q, u)) = Joined(o, Joined(p, Joined(q, u)))
  BY <1>2, <1>5, JoinedOn
<1>7. Joined(p, Joined(q, u)) = Joined(Joined(p, q), u)
  BY <1>2, JoinedOn
<1> QED
  BY <1>2, <1>3, <1>4, <1>6, <1>7 DEF p, q

LEMMA WriteAnswer == AnswerInv /\ Write => AnswerInv'
<1> SUFFICES ASSUME AnswerInv, Write PROVE AnswerInv'
  OBVIOUS
<1>1. /\ wst = "writing" /\ cst # "left" /\ wst' = wst /\ resp' = resp
      /\ cst' = cst /\ cfield' = cfield /\ buffer' = buffer /\ seen' = seen
  BY DEF Write, client
<1>2. cst \in {"start", "reading", "stopped", "done"}
  BY <1>1 DEF AnswerInv
<1>3. head \in Bytes /\ body \in Bytes /\ out \in Bytes /\ buffer \in Bytes
  BY DEF AnswerInv
<1>4. /\ head' \in Bytes /\ body' \in Bytes /\ out' \in Bytes /\ Len(out') <= Window
      /\ Joined(out', Joined(head', body')) = Joined(out, Joined(head, body))
      /\ head # <<>> \/ body # <<>>
  <2>1. CASE head # <<>>
    <3>1. PICK n \in 1..Len(head) :
             /\ Writes(head, n, MAX_MSG_SIZE)
             /\ out' = out \o SubSeq(head, 1, n)
             /\ head' = SubSeq(head, n + 1, Len(head))
      BY <2>1 DEF Write
    <3>2. body' = body
      BY <2>1 DEF Write
    <3>3. out' = Joined(out, SubSeq(head, 1, n))
      BY <3>1 DEF Joined
    <3>4. Len(out) + n <= Window
      BY <3>1 DEF Writes
    <3> QED
      <4>1. /\ Joined(out, SubSeq(head, 1, n)) \in Bytes
            /\ Len(Joined(out, SubSeq(head, 1, n))) = Len(out) + n
            /\ SubSeq(head, n + 1, Len(head)) \in Bytes
            /\ Joined(Joined(out, SubSeq(head, 1, n)), Joined(SubSeq(head, n + 1, Len(head)), body))
                 = Joined(out, Joined(head, body))
        BY <1>3, Moved
      <4> QED
        BY <1>3, <2>1, <3>1, <3>2, <3>3, <3>4, <4>1
  <2>2. CASE head = <<>>
    <3>0. body # <<>>
      BY <2>2 DEF Write
    <3>1. PICK n \in 1..Len(body) :
             /\ Writes(body, n, MAX_FILE_SIZE)
             /\ out' = out \o SubSeq(body, 1, n)
             /\ body' = SubSeq(body, n + 1, Len(body))
      BY <2>2 DEF Write
    <3>2. head' = <<>>
      BY <2>2 DEF Write
    <3>3. out' = Joined(out, SubSeq(body, 1, n))
      BY <3>1 DEF Joined
    <3>4. Len(out) + n <= Window
      BY <3>1 DEF Writes
    <3> DEFINE nil == <<>>
    <3>5. nil \in Bytes
      BY NoBytes
    <3>6. /\ out' \in Bytes /\ Len(out') = Len(out) + n /\ body' \in Bytes
          /\ Joined(out', Joined(body', nil)) = Joined(out, Joined(body, nil))
      <4> HIDE DEF nil
      <4> QED
        <5>1. /\ Joined(out, SubSeq(body, 1, n)) \in Bytes
              /\ Len(Joined(out, SubSeq(body, 1, n))) = Len(out) + n
              /\ SubSeq(body, n + 1, Len(body)) \in Bytes
              /\ Joined(Joined(out, SubSeq(body, 1, n)), Joined(SubSeq(body, n + 1, Len(body)), nil))
                   = Joined(out, Joined(body, nil))
          BY <1>3, <3>5, Moved
        <5> QED
          BY <3>1, <3>3, <5>1
    <3>7. /\ Joined(body, nil) = body /\ Joined(body', nil) = body'
          /\ Joined(nil, body) = body /\ Joined(nil, body') = body'
      BY <1>3, <3>6, GluedTwice DEF Joined
    <3>8. Joined(out', Joined(head', body')) = Joined(out, Joined(head, body))
      BY <2>2, <3>2, <3>6, <3>7
    <3>9. head' \in Bytes
      BY <3>2, <3>5
    <3> QED
      BY <3>0, <3>4, <3>6, <3>8, <3>9
  <2> QED
    BY <2>1, <2>2
<1>5. resp # NoAnswer
  BY <1>2, <1>4 DEF AnswerInv
<1>6. /\ cfield \in AFieldsOf(resp) \cup {"done"}
      /\ DOMAIN seen = IF cfield = "done" THEN AFieldsOf(resp) ELSE ABefore(cfield)
      /\ \A f \in DOMAIN seen : seen[f] = AValue(f, resp)
      /\ cfield # "done" => Len(buffer) < Len(AChunk(cfield, resp))
      /\ Joined(buffer, Joined(out, Joined(head, body))) = ALeft(cfield, resp)
  BY <1>2, <1>5 DEF AnswerInv
<1>7. Joined(buffer', Joined(out', Joined(head', body'))) = ALeft(cfield, resp)
  BY <1>1, <1>4, <1>6
<1>8. /\ (cst' = "done" <=> cfield' = "done")
      /\ cst' \notin {"left", "failed"}
      /\ cst' \in {"start", "reading", "done", "failed", "stopped", "left"}
      /\ wst' = "writing"
  BY <1>1, <1>2 DEF AnswerInv
<1>9. Fits(resp)'
  BY <1>1, <1>5 DEF AnswerInv, Fits, APaylen
<1> HIDE DEF Joined
<1> QED
  BY <1>1, <1>3, <1>4, <1>5, <1>6, <1>7, <1>8, <1>9 DEF AnswerInv, AFieldsOf, ABefore, AValue, AChunk, ALeft

LEMMA MinTwo ==
    ASSUME NEW x \in Int, NEW y \in Int
    PROVE  /\ Min({x, y}) \in {x, y} /\ Min({x, y}) <= x /\ Min({x, y}) <= y
<1> DEFINE P(m) == m \in {x, y} /\ \A z \in {x, y} : m <= z
<1>1. \E m : P(m)
  <2>1. CASE x <= y
    <3>1. P(x)
      BY <2>1
    <3> QED
      BY <3>1
  <2>2. CASE ~(x <= y)
    <3>1. P(y)
      BY <2>2
    <3> QED
      BY <3>1
  <2> QED
    BY <2>1, <2>2
<1>2. P(CHOOSE m : P(m))
  <2> HIDE DEF P
  <2> QED
    BY <1>1
<1> QED
  BY <1>2 DEF Min

LEMMA RecvAnswer == AnswerInv /\ Recv => AnswerInv'
<1> SUFFICES ASSUME AnswerInv, Recv PROVE AnswerInv'
  OBVIOUS
<1>1. /\ cst = "reading" /\ out # <<>> /\ resp' = resp /\ wst' = wst
      /\ head' = head /\ body' = body
  BY DEF Recv, worker
<1>2. /\ head \in Bytes /\ body \in Bytes /\ out \in Bytes /\ buffer \in Bytes /\ Len(out) <= Window
      /\ cfield # "done"
  BY <1>1 DEF AnswerInv
<1>3. resp # NoAnswer /\ Fits(resp)
  BY <1>1 DEF AnswerInv
<1>4. /\ cfield \in AFieldsOf(resp)
      /\ DOMAIN seen = ABefore(cfield)
      /\ \A f \in DOMAIN seen : seen[f] = AValue(f, resp)
      /\ Len(buffer) < Len(AChunk(cfield, resp))
      /\ Joined(buffer, Joined(out, Joined(head, body))) = ALeft(cfield, resp)
  BY <1>1, <1>2, <1>3 DEF AnswerInv
<1> DEFINE c == AChunk(cfield, resp)
           l == ALeft(ANext(cfield, resp), resp)
           rest == Joined(head, body)
<1>5. ClientWidth = Len(c) /\ AfterAnswer = ANext(cfield, resp)
  BY <1>3, <1>4, ClientRight
<1>6. /\ ALeft(cfield, resp) = Joined(c, l)
      /\ ANext(cfield, resp) \in AFieldsOf(resp) \cup {"done"}
      /\ ANext(cfield, resp) # "done" => ABefore(ANext(cfield, resp)) = ABefore(cfield) \cup {cfield}
      /\ ANext(cfield, resp) = "done" => AFieldsOf(resp) = ABefore(cfield) \cup {cfield}
      /\ cfield \notin ABefore(cfield)
  BY <1>4, ALeftOn
<1>7. c \in Bytes /\ Len(c) \in Nat \ {0} /\ l \in Bytes /\ rest \in Bytes
  BY <1>2, <1>3, <1>4, <1>6, AChunkOf, ALeftBytes, JoinedOn
<1>8. (IF cfield \in {"msg", "digest", "content"} THEN c ELSE Unpacked(c)) = AValue(cfield, resp)
  BY <1>3, <1>4, AChunkOf
<1> DEFINE n   == Min({Len(out), ClientWidth - Len(buffer)})
           all == buffer \o SubSeq(out, 1, n)
<1>9. /\ out' = SubSeq(out, n + 1, Len(out))
      /\ IF Len(all) < ClientWidth
           THEN buffer' = all /\ UNCHANGED <<seen, cfield, cst>>
           ELSE /\ buffer' = <<>>
                /\ seen' = [f \in DOMAIN seen \cup {cfield} |->
                              IF f # cfield THEN seen[f]
                              ELSE IF cfield \in {"msg", "digest", "content"} THEN all
                              ELSE Unpacked(all)]
                /\ cfield' = AfterAnswer
                /\ cst' = IF cfield' = "done" THEN "done" ELSE cst
  BY DEF Recv
<1> HIDE DEF c, l, rest
<1>10. n \in 1..Len(out) /\ n <= Len(c) - Len(buffer) /\ Len(buffer) \in Nat /\ Len(out) \in Nat
  <2>1. Len(out) \in Nat /\ Len(buffer) \in Nat /\ Len(out) # 0
    BY <1>1, <1>2, ByteOf, NoBytes
  <2>2. Len(buffer) < Len(c)
    BY <1>4 DEF c
  <2> DEFINE x == Len(out)
             y == Len(c) - Len(buffer)
  <2>3. x \in Int /\ y \in Int /\ x >= 1 /\ y >= 1
    BY <1>7, <2>1, <2>2
  <2>4. n = Min({x, y})
    BY <1>5
  <2> HIDE DEF x, y, n
  <2>5. n \in {x, y} /\ n <= x /\ n <= y
    BY <2>3, <2>4, MinTwo
  <2>6. n \in Int /\ 1 <= n /\ n <= x
    BY <2>3, <2>5
  <2> QED
    BY <2>1, <2>5, <2>6 DEF x, y
<1>11. all = Joined(buffer, SubSeq(out, 1, n))
  BY DEF Joined
<1> HIDE DEF n, all
<1>12. /\ all \in Bytes /\ Len(all) = Len(buffer) + n /\ out' \in Bytes
       /\ Joined(all, Joined(out', rest)) = Joined(buffer, Joined(out, rest))
  BY <1>2, <1>7, <1>9, <1>10, <1>11, Moved
<1>13. Len(out') <= Window
  <2>1. n \in 0..Len(out)
    BY <1>10
  <2>2. Len(out') = Len(out) - n
    BY <1>2, <1>9, <2>1, PartOf
  <2>3. Window \in Nat
    BY FramingAssumption
  <2> QED
    BY <1>2, <1>10, <2>2, <2>3
<1>14. Joined(all, Joined(out', rest)) = Joined(c, l)
  BY <1>4, <1>6, <1>12 DEF rest
<1>15. Len(all) <= Len(c)
  BY <1>7, <1>10, <1>12
<1>16. /\ resp' # NoAnswer /\ Fits(resp)'
  BY <1>1, <1>3 DEF Fits, APaylen
<1>17. CASE Len(all) < ClientWidth
  <2>1. buffer' = all /\ seen' = seen /\ cfield' = cfield /\ cst' = cst
    BY <1>9, <1>17
  <2>2. Len(buffer') < Len(AChunk(cfield, resp))
    BY <1>5, <1>17, <2>1 DEF c
  <2>3. Joined(buffer', Joined(out', Joined(head', body'))) = ALeft(cfield, resp)
    BY <1>1, <1>6, <1>14, <2>1 DEF rest
  <2>4. /\ cst' = "reading" /\ cfield' # "done" /\ buffer' \in Bytes
        /\ (wst' # "writing" => head' = <<>> /\ body' = <<>>)
        /\ (wst' = "reading" => resp' = NoAnswer)
    BY <1>1, <1>2, <1>12, <2>1 DEF AnswerInv
  <2> QED
    BY <1>1, <1>2, <1>4, <1>12, <1>13, <1>16, <2>1, <2>2, <2>3, <2>4
       DEF AnswerInv, AFieldsOf, ABefore, AValue, AChunk, ALeft
<1>18. CASE ~(Len(all) < ClientWidth)
  <2>1. /\ buffer' = <<>>
        /\ seen' = [f \in DOMAIN seen \cup {cfield} |->
                      IF f # cfield THEN seen[f]
                      ELSE IF cfield \in {"msg", "digest", "content"} THEN all
                      ELSE Unpacked(all)]
        /\ cfield' = ANext(cfield, resp)
        /\ cst' = IF cfield' = "done" THEN "done" ELSE cst
    BY <1>5, <1>9, <1>18
  <2>2. Len(all) = Len(c)
    <3>1. Len(all) \in Nat /\ ~(Len(all) < Len(c))
      BY <1>5, <1>12, <1>18, ByteOf
    <3> QED
      BY <1>7, <1>15, <3>1
  <2>3. all = c /\ Joined(out', rest) = l
    <3> DEFINE o == Joined(out', rest)
    <3>1. o \in Bytes
      BY <1>7, <1>12, JoinedOn
    <3>2. all \o o = c \o l
      BY <1>14 DEF Joined
    <3> HIDE DEF o
    <3>3. all = c /\ o = l
      BY <1>7, <1>12, <2>2, <3>1, <3>2, TakenApart
    <3> QED
      BY <3>3 DEF o
  <2>4. DOMAIN seen' = ABefore(cfield) \cup {cfield}
    BY <1>4, <2>1
  <2>5. ASSUME NEW f \in DOMAIN seen' PROVE seen'[f] = AValue(f, resp)
    <3>1. CASE f = cfield
      BY <1>8, <2>1, <2>3, <2>5, <3>1
    <3>2. CASE f # cfield
      BY <1>4, <2>1, <2>4, <2>5, <3>2
    <3> QED
      BY <3>1, <3>2
  <2>6. DOMAIN seen' = IF cfield' = "done" THEN AFieldsOf(resp) ELSE ABefore(cfield')
    BY <1>6, <2>1, <2>4
  <2>7. cfield' \in AFieldsOf(resp) \cup {"done"}
    BY <1>6, <2>1
  <2>8. buffer' \in Bytes /\ Joined(buffer', Joined(out', Joined(head', body'))) = ALeft(cfield', resp)
    <3>1. Joined(out', rest) \in Bytes
      BY <1>7, <1>12, JoinedOn
    <3>2. Joined(buffer', Joined(out', rest)) = Joined(out', rest)
      BY <2>1, <3>1, NothingJoined
    <3>3. ALeft(cfield', resp) = l
      BY <2>1 DEF l
    <3>4. buffer' \in Bytes
      BY <2>1, NoBytes
    <3> QED
      BY <1>1, <2>3, <3>2, <3>3, <3>4 DEF rest
  <2>9. cfield' # "done" => Len(buffer') < Len(AChunk(cfield', resp))
    <3>1. cfield' # "done" => Len(AChunk(cfield', resp)) \in Nat \ {0}
      BY <1>3, <2>7, AChunkOf
    <3> QED
      BY <2>1, <3>1, NoBytes
  <2>10. /\ (cst' = "done" <=> cfield' = "done") /\ cst' \in {"reading", "done"}
         /\ (wst' # "writing" => head' = <<>> /\ body' = <<>>)
         /\ (wst' = "reading" => resp' = NoAnswer)
    BY <1>1, <2>1 DEF AnswerInv
  <2> QED
    BY <1>1, <1>2, <1>12, <1>13, <1>16, <2>5, <2>6, <2>7, <2>8, <2>9, <2>10
       DEF AnswerInv, AFieldsOf, ABefore, AValue, AChunk, ALeft
<1> QED
  BY <1>17, <1>18

LEMMA AnswerStep == ReadInv /\ AnswerInv /\ [Next]_vars => AnswerInv'
<1> SUFFICES ASSUME ReadInv, AnswerInv, [Next]_vars PROVE AnswerInv'
  OBVIOUS
<1>1. CASE UNCHANGED vars
  BY <1>1, AnswerKept DEF vars, client, worker
<1>2. CASE Send \/ Stop
  <2>1. /\ resp' = resp /\ head' = head /\ body' = body /\ out' = out /\ buffer' = buffer
        /\ seen' = seen /\ cfield' = cfield /\ wst' = wst
        /\ cst \in {"start", "reading"} /\ cst' \in {"reading", "stopped"}
    BY <1>2 DEF Send, Stop, worker
  <2> QED
    BY <2>1, AnswerKept
<1>3. CASE Arrive \/ ReadField
  <2>1. /\ resp' = resp /\ head' = head /\ body' = body /\ out' = out /\ buffer' = buffer
        /\ seen' = seen /\ cfield' = cfield /\ wst' = wst /\ cst' = cst
    BY <1>3 DEF Arrive, ReadField, client, worker
  <2> QED
    BY <2>1, AnswerKept
<1>4. CASE Leave \/ Reset
  <2>1. /\ cst \in {"start", "reading", "stopped"}
        /\ cst' = "left" \/ (cst' = "failed" /\ wst = "closed")
        /\ out' = <<>> /\ buffer' = <<>> /\ cfield' = cfield /\ wst' = wst /\ resp' = resp
        /\ head' = head /\ body' = body
    BY <1>4 DEF Leave, Reset, worker
  <2> QED
    BY <2>1, AnswerLost
<1>5. CASE ReadTimesOut
  <2>1. /\ cst' = cst /\ cfield' = cfield /\ buffer' = buffer /\ seen' = seen /\ out' = out
        /\ Answer(Failed(OP_SESSION_ERROR)) /\ \E w \in Awaited : TRUE
    BY <1>5 DEF ReadTimesOut, client
  <2>2. wst = "reading"
    BY <2>1 DEF Awaited
  <2>3. Fits(Failed(OP_SESSION_ERROR))
    BY FailedFits DEF OP_SESSION_ERROR
  <2> QED
    BY <2>1, <2>2, <2>3, AnswerGiven
<1>6. CASE AllocFails
  <2>1. /\ cst' = cst /\ cfield' = cfield /\ buffer' = buffer /\ seen' = seen /\ out' = out
        /\ Answer(Failed(OP_FAILURE)) /\ \E w \in Awaited : TRUE
    BY <1>6 DEF AllocFails, client
  <2>2. wst = "reading"
    BY <2>1 DEF Awaited
  <2>3. Fits(Failed(OP_FAILURE))
    BY FailedFits DEF OP_FAILURE
  <2> QED
    BY <2>1, <2>2, <2>3, AnswerGiven
<1>7. CASE Act
  <2>1. /\ cst' = cst /\ cfield' = cfield /\ buffer' = buffer /\ seen' = seen /\ out' = out
        /\ wst = "reading" /\ field = "done"
    BY <1>7 DEF Act, client
  <2>2. PICK a \in Answers, s \in {got["sid"]} \cup NewSessions :
           Answer([code |-> a.code, msg |-> a.msg, content |-> a.content, sid |-> s])
    BY <1>7 DEF Act
  <2>3. Fits([code |-> a.code, msg |-> a.msg, content |-> a.content, sid |-> s])
    BY <2>1, <2>2, FoundFits
  <2> QED
    BY <2>1, <2>2, <2>3, AnswerGiven
<1>8. CASE ReadCloses \/ Abort
  <2>1. /\ resp' = resp /\ head' = head /\ body' = body /\ out' = out /\ buffer' = buffer
        /\ seen' = seen /\ cfield' = cfield /\ wst' = "closed" /\ cst' = cst
        /\ \E w \in Awaited : TRUE
    BY <1>8 DEF ReadCloses, Abort, client
  <2>2. wst = "reading"
    BY <2>1 DEF Awaited
  <2>3. head = <<>> /\ body = <<>>
    BY <2>2 DEF AnswerInv
  <2> QED
    BY <2>1, <2>3, AnswerKept
<1>9. CASE Write
  BY <1>9, WriteAnswer
<1>10. CASE WriteFails
  <2>1. /\ cst = "left" /\ cst' = cst /\ cfield' = cfield /\ buffer' = buffer /\ out' = out
        /\ wst' = wst /\ resp' = resp /\ head' = <<>> /\ body' = <<>> /\ wst = "writing"
    BY <1>10 DEF WriteFails, client
  <2>2. head' \in Bytes /\ body' \in Bytes
    BY <2>1, NoBytes
  <2>3. resp' = NoAnswer \/ Fits(resp)'
    BY <2>1 DEF AnswerInv, Fits, APaylen
  <2> QED
    BY <2>1, <2>2, <2>3 DEF AnswerInv
<1>11. CASE Close
  <2>1. /\ resp' = resp /\ head' = head /\ body' = body /\ out' = out /\ buffer' = buffer
        /\ seen' = seen /\ cfield' = cfield /\ wst' = "closed" /\ cst' = cst
        /\ head = <<>> /\ body = <<>>
    BY <1>11 DEF Close, client
  <2> QED
    BY <2>1, AnswerKept
<1>12. CASE Recv
  BY <1>12, RecvAnswer
<1> QED
  BY <1>1, <1>2, <1>3, <1>4, <1>5, <1>6, <1>7, <1>8, <1>9, <1>10, <1>11, <1>12 DEF Next

\* A client that is done has read all of it.
LEMMA AllRead ==
    ASSUME AnswerInv, cst = "done"
    PROVE  /\ resp # NoAnswer /\ Fits(resp)
           /\ DOMAIN seen = AFieldsOf(resp)
           /\ \A f \in DOMAIN seen : seen[f] = AValue(f, resp)
           /\ buffer = <<>> /\ out = <<>> /\ head = <<>> /\ body = <<>>
<1>1. cfield = "done" /\ resp # NoAnswer /\ Fits(resp)
  BY DEF AnswerInv
<1>2. /\ DOMAIN seen = AFieldsOf(resp)
      /\ \A f \in DOMAIN seen : seen[f] = AValue(f, resp)
      /\ Joined(buffer, Joined(out, Joined(head, body))) = ALeft("done", resp)
  BY <1>1 DEF AnswerInv
<1>3. ALeft("done", resp) = <<>>
  BY DEF ALeft
<1>4. head \in Bytes /\ body \in Bytes /\ out \in Bytes /\ buffer \in Bytes
  BY DEF AnswerInv
<1> DEFINE hb == Joined(head, body)
           ohb == Joined(out, hb)
<1>5. hb \in Bytes
  BY <1>4, JoinedOn
<1>6. ohb \in Bytes
  <2> HIDE DEF hb
  <2> QED
    BY <1>4, <1>5, JoinedOn
<1>7. buffer = <<>> /\ ohb = <<>>
  <2>1. Joined(buffer, ohb) = <<>>
    BY <1>2, <1>3
  <2> HIDE DEF ohb
  <2> QED
    BY <1>4, <1>6, <2>1, NothingJoined
<1>8. out = <<>> /\ hb = <<>>
  <2> HIDE DEF hb
  <2> QED
    BY <1>4, <1>5, <1>7, NothingJoined
<1>9. head = <<>> /\ body = <<>>
  BY <1>4, <1>8, NothingJoined
<1> QED
  BY <1>1, <1>2, <1>7, <1>8, <1>9

\* read_client_req, write_response and connect: every variable keeps its type.
THEOREM TypeCorrect == Spec => []TypeOK
<1>1. Init => ReadInv /\ AnswerInv
  BY ReadInit, AnswerInit
<1>2. (ReadInv /\ AnswerInv) /\ [Next]_vars => (ReadInv /\ AnswerInv)'
  BY ReadStep, AnswerStep
<1>3. ReadInv /\ AnswerInv => TypeOK
  <2> SUFFICES ASSUME ReadInv, AnswerInv PROVE TypeOK
    OBVIOUS
  <2>1. \A i \in 1..Len(wire) : wire[i] \in 0..255
    BY ByteOf DEF ReadInv
  <2>2. DOMAIN got \subseteq Fields \ {field}
    <3>1. CASE field = "done"
      BY <3>1 DEF ReadInv, Fields, Numbers, Strings
    <3>2. CASE field # "done"
      <4>1. field \in Fields /\ DOMAIN got = Before(field)
        BY <3>2 DEF ReadInv
      <4>2. field \notin Before(field) /\ Before(field) \subseteq Fields
        BY <4>1, AfterOn
      <4> QED
        BY <4>1, <4>2
    <3> QED
      BY <3>1, <3>2
  <2>3. Len(out) \in 0..Window
    <3>1. Len(out) \in Nat /\ Window \in Nat /\ Len(out) <= Window
      BY ByteOf, FramingAssumption DEF AnswerInv
    <3> QED
      BY <3>1
  <2>4. cst \in {"done", "failed", "left"} => buffer = <<>>
    <3>1. cst = "done" => buffer = <<>>
      BY AllRead
    <3> QED
      BY <3>1 DEF AnswerInv
  <2> QED
    BY <2>1, <2>2, <2>3, <2>4 DEF TypeOK, ReadInv, AnswerInv
<1> QED
  BY <1>1, <1>2, <1>3, PTL DEF Spec

\* write_response and connect: a client that has an answer has the worker's
\* answer, with all of its content, and has left no byte of it.
THEOREM ReadsWhatIsAnswered == Spec => []AsAnswered
<1>1. Init => ReadInv /\ AnswerInv
  BY ReadInit, AnswerInit
<1>2. (ReadInv /\ AnswerInv) /\ [Next]_vars => (ReadInv /\ AnswerInv)'
  BY ReadStep, AnswerStep
<1>3. ReadInv /\ AnswerInv => AsAnswered
  <2> SUFFICES ASSUME AnswerInv, cst = "done"
               PROVE  /\ seen["code"] = resp.code /\ seen["sid"] = resp.sid /\ seen["msg"] = resp.msg
                      /\ IF resp.content = <<>> THEN DOMAIN seen \cap {"digest", "content"} = {}
                         ELSE seen["content"] = resp.content /\ seen["digest"] = Digest(resp.content)
                      /\ out = <<>> /\ head = <<>> /\ body = <<>>
    BY DEF AsAnswered
  <2>1. /\ DOMAIN seen = AFieldsOf(resp)
        /\ \A f \in DOMAIN seen : seen[f] = AValue(f, resp)
        /\ out = <<>> /\ head = <<>> /\ body = <<>>
    BY AllRead
  <2>2. "code" \in DOMAIN seen /\ "sid" \in DOMAIN seen /\ "msg" \in DOMAIN seen
    BY <2>1 DEF AFieldsOf, ANumbers
  <2>3. seen["code"] = resp.code /\ seen["sid"] = resp.sid /\ seen["msg"] = resp.msg
    BY <2>1, <2>2 DEF AValue, ANumber, AString, ANumbers
  <2>4. resp.content = <<>> => DOMAIN seen \cap {"digest", "content"} = {}
    BY <2>1 DEF AFieldsOf, ANumbers
  <2>5. ASSUME resp.content # <<>>
        PROVE  seen["content"] = resp.content /\ seen["digest"] = Digest(resp.content)
    <3>1. "content" \in DOMAIN seen /\ "digest" \in DOMAIN seen
      BY <2>1, <2>5 DEF AFieldsOf
    <3> QED
      BY <2>1, <3>1 DEF AValue, AString, ANumbers
  <2> QED
    BY <2>1, <2>3, <2>4, <2>5
<1> QED
  BY <1>1, <1>2, <1>3, PTL DEF Spec
=============================================================================
