-------------------------- MODULE Net4gFifo_proofs --------------------------
(***************************************************************************)
(* Theorems about Net4gFifo, for every size of the ring, every division    *)
(* into bursts, every two keywords and whatever lines the modem sends.     *)
(***************************************************************************)
EXTENDS Net4gFifo, FiniteSetTheorems, SequenceTheorems, WellFoundedInduction, TLAPS

-----------------------------------------------------------------------------
(* The constants and the arithmetic of the ring. *)

LEMMA Sizes ==
  /\ SIZE \in Nat /\ SIZE > 5 /\ WIDTH \in Nat /\ WIDTH <= SIZE /\ MaxBurst \in Nat \ {0}
  /\ Header \in Seq(Symbols) /\ End \in Seq(Symbols) /\ Lines \subseteq Seq(Symbols)
  /\ Len(Header) \in Nat \ {0} /\ Len(End) = 2
<1>1. Header \in Seq(Symbols) /\ End \in Seq(Symbols) /\ Lines \subseteq Seq(Symbols)
  BY FifoAssumption
<1>2. Len(Header) \in Nat
  BY <1>1
<1> QED
  BY <1>1, <1>2, FifoAssumption

LEMMA ModCases ==
  ASSUME NEW w \in Nat \ {0}, NEW x \in Int
  PROVE  /\ x % w \in 0 .. w - 1
         /\ x \in 0 .. w - 1 => x % w = x
         /\ x \in w .. 2 * w - 1 => x % w = x - w
         /\ x \in 2 * w .. 3 * w - 1 => x % w = x - 2 * w
         /\ x \in -w .. -1 => x % w = x + w
         /\ x \in -(2 * w) .. -(w + 1) => x % w = x + 2 * w
<1>1. /\ x % w \in 0 .. w - 1
      /\ x \in 0 .. w - 1 => x % w = x
      /\ x \in w .. 2 * w - 1 => x % w = x - w
  OBVIOUS
<1>2. x \in 2 * w .. 3 * w - 1 => x % w = x - 2 * w
  OBVIOUS
<1>3. x \in -w .. -1 => x % w = x + w
  OBVIOUS
<1>4. x \in -(2 * w) .. -(w + 1) => x % w = x + 2 * w
  OBVIOUS
<1> QED
  BY <1>1, <1>2, <1>3, <1>4

LEMMA ModSmall ==
  ASSUME NEW w \in Nat \ {0}, NEW x \in 0 .. w - 1
  PROVE  x % w = x
OBVIOUS

\* From a to b along the ring; both may stand for a place just past its end.
Dist(a, b) == (b - a) % SIZE

LEMMA DistIs ==
  ASSUME NEW a \in 0 .. SIZE + 1, NEW b \in 0 .. SIZE + 1
  PROVE  /\ Dist(a, b) \in 0 .. SIZE - 1
         /\ \/ Dist(a, b) = b - a \/ Dist(a, b) = b - a - SIZE
            \/ Dist(a, b) = b - a + SIZE \/ Dist(a, b) = b - a + 2 * SIZE
<1>1. b - a \in Int /\ SIZE \in Nat \ {0} /\ SIZE > 5
  BY Sizes
<1>2. /\ Dist(a, b) \in 0 .. SIZE - 1
      /\ b - a \in 0 .. SIZE - 1 => Dist(a, b) = b - a
      /\ b - a \in SIZE .. 2 * SIZE - 1 => Dist(a, b) = b - a - SIZE
      /\ b - a \in -SIZE .. -1 => Dist(a, b) = b - a + SIZE
      /\ b - a \in -(2 * SIZE) .. -(SIZE + 1) => Dist(a, b) = b - a + 2 * SIZE
  BY <1>1, ModCases DEF Dist
<1> QED
  BY <1>1, <1>2

\* The place i further on from a.
Place(a, i) == (a + i) % SIZE

LEMMA PlaceIs ==
  ASSUME NEW a \in 0 .. SIZE + 1, NEW i \in 0 .. SIZE - 2
  PROVE  /\ Place(a, i) \in 0 .. SIZE - 1
         /\ Place(a, i) = a + i \/ Place(a, i) = a + i - SIZE
<1> DEFINE x == a + i
<1>1. x \in Int /\ x \in 0 .. 2 * SIZE - 1 /\ SIZE \in Nat \ {0} /\ Place(a, i) = x % SIZE
  BY Sizes DEF Place
<1>2. /\ Place(a, i) \in 0 .. SIZE - 1
      /\ x \in 0 .. SIZE - 1 => Place(a, i) = x
      /\ x \in SIZE .. 2 * SIZE - 1 => Place(a, i) = x - SIZE
  <2> HIDE DEF x
  <2>1. /\ x % SIZE \in 0 .. SIZE - 1
        /\ x \in 0 .. SIZE - 1 => x % SIZE = x
        /\ x \in SIZE .. 2 * SIZE - 1 => x % SIZE = x - SIZE
    BY <1>1
  <2> QED
    BY <1>1, <2>1
<1>3. x \in 0 .. SIZE - 1 \/ x \in SIZE .. 2 * SIZE - 1
  BY <1>1
<1>4. Place(a, i) \in 0 .. SIZE - 1
  BY <1>2
<1>5. Place(a, i) = x \/ Place(a, i) = x - SIZE
  <2> HIDE DEF x
  <2> QED
    BY <1>2, <1>3
<1> QED
  BY <1>1, <1>4, <1>5

-----------------------------------------------------------------------------
(* Moving along the ring. *)

\* Going on from a place that has been reached.
LEMMA DistAdds ==
  ASSUME NEW a \in 0 .. SIZE + 1, NEW b \in 0 .. SIZE + 1, NEW c \in 0 .. SIZE - 1,
         Dist(a, b) <= Dist(a, c)
  PROVE  Dist(b, c) = Dist(a, c) - Dist(a, b)
<1>1. SIZE \in Nat /\ SIZE > 5 /\ c \in 0 .. SIZE + 1
  BY Sizes
<1>2. /\ Dist(a, b) \in 0 .. SIZE - 1
      /\ \/ Dist(a, b) = b - a \/ Dist(a, b) = b - a - SIZE
         \/ Dist(a, b) = b - a + SIZE \/ Dist(a, b) = b - a + 2 * SIZE
  BY DistIs, Zenon
<1>3. /\ Dist(a, c) \in 0 .. SIZE - 1
      /\ \/ Dist(a, c) = c - a \/ Dist(a, c) = c - a - SIZE
         \/ Dist(a, c) = c - a + SIZE \/ Dist(a, c) = c - a + 2 * SIZE
  BY <1>1, DistIs, Zenon
<1>4. /\ Dist(b, c) \in 0 .. SIZE - 1
      /\ \/ Dist(b, c) = c - b \/ Dist(b, c) = c - b - SIZE
         \/ Dist(b, c) = c - b + SIZE \/ Dist(b, c) = c - b + 2 * SIZE
  BY <1>1, DistIs, Zenon
<1> QED
  BY <1>1, <1>2, <1>3, <1>4

LEMMA PlaceAdds ==
  ASSUME NEW a \in 0 .. SIZE + 1, NEW b \in 0 .. SIZE + 1, NEW i \in 0 .. SIZE - 2,
         NEW k \in 0 .. SIZE - 2, k = Dist(a, b) + i
  PROVE  Place(b, i) = Place(a, k)
<1>1. SIZE \in Nat /\ SIZE > 5
  BY Sizes
<1>2. /\ Dist(a, b) \in 0 .. SIZE - 1
      /\ \/ Dist(a, b) = b - a \/ Dist(a, b) = b - a - SIZE
         \/ Dist(a, b) = b - a + SIZE \/ Dist(a, b) = b - a + 2 * SIZE
  BY DistIs, Zenon
<1>3. /\ Place(b, i) \in 0 .. SIZE - 1
      /\ Place(b, i) = b + i \/ Place(b, i) = b + i - SIZE
  BY PlaceIs, Zenon
<1>4. /\ Place(a, k) \in 0 .. SIZE - 1
      /\ Place(a, k) = a + k \/ Place(a, k) = a + k - SIZE
  BY PlaceIs, Zenon
<1> QED
  BY <1>1, <1>2, <1>3, <1>4

LEMMA PlaceOfDist ==
  ASSUME NEW a \in 0 .. SIZE + 1, NEW b \in 0 .. SIZE - 1, Dist(a, b) \in 0 .. SIZE - 2
  PROVE  Place(a, Dist(a, b)) = b
<1>1. SIZE \in Nat /\ SIZE > 5 /\ b \in 0 .. SIZE + 1
  BY Sizes
<1>2. \/ Dist(a, b) = b - a \/ Dist(a, b) = b - a - SIZE
      \/ Dist(a, b) = b - a + SIZE \/ Dist(a, b) = b - a + 2 * SIZE
  BY <1>1, DistIs, Zenon
<1>3. /\ Place(a, Dist(a, b)) \in 0 .. SIZE - 1
      /\ \/ Place(a, Dist(a, b)) = a + Dist(a, b)
         \/ Place(a, Dist(a, b)) = a + Dist(a, b) - SIZE
  BY PlaceIs, Zenon
<1> QED
  BY <1>1, <1>2, <1>3

LEMMA DistOfPlace ==
  ASSUME NEW a \in 0 .. SIZE + 1, NEW i \in 0 .. SIZE - 2
  PROVE  Dist(a, Place(a, i)) = i
<1> DEFINE p == Place(a, i)
<1>1. SIZE \in Nat /\ SIZE > 5
  BY Sizes
<1>2. p \in 0 .. SIZE - 1 /\ (p = a + i \/ p = a + i - SIZE)
  BY PlaceIs, Zenon
<1> HIDE DEF p
<1>3. p \in 0 .. SIZE + 1
  BY <1>1, <1>2
<1>4. /\ Dist(a, p) \in 0 .. SIZE - 1
      /\ \/ Dist(a, p) = p - a \/ Dist(a, p) = p - a - SIZE
         \/ Dist(a, p) = p - a + SIZE \/ Dist(a, p) = p - a + 2 * SIZE
  BY <1>3, DistIs, Zenon
<1> QED
  BY <1>1, <1>2, <1>4 DEF p

LEMMA DistBehind ==
  ASSUME NEW a \in 0 .. SIZE + 1, NEW d \in 0 .. SIZE - 5
  PROVE  Dist(a, Place(a, d) + 2) = d + 2
<1> DEFINE p == Place(a, d)
           b == p + 2
<1>0. SIZE \in Nat /\ SIZE > 5
  BY Sizes
<1>1. d \in 0 .. SIZE - 2
  BY <1>0
<1>2. p \in 0 .. SIZE - 1 /\ (p = a + d \/ p = a + d - SIZE)
  BY <1>1, PlaceIs, Zenon
<1> HIDE DEF p
<1>3. b \in 0 .. SIZE + 1 /\ b = p + 2
  BY <1>0, <1>2
<1> HIDE DEF b
<1>4. /\ Dist(a, b) \in 0 .. SIZE - 1
      /\ \/ Dist(a, b) = b - a \/ Dist(a, b) = b - a - SIZE
         \/ Dist(a, b) = b - a + SIZE \/ Dist(a, b) = b - a + 2 * SIZE
  BY <1>3, DistIs, Zenon
<1>5. Dist(a, b) = d + 2
  BY <1>0, <1>2, <1>3, <1>4
<1> QED
  BY <1>5 DEF b, p

-----------------------------------------------------------------------------
(* The least and the greatest of a set. *)

LEMMA LeastExists ==
  ASSUME NEW S, S \subseteq Nat, S # {}
  PROVE  \E n \in S : \A m \in S : n <= m
<1> DEFINE R == OpToRel(<, Nat)
<1>1. PICK n \in S : \A m \in S : ~ (<<m, n>> \in R)
  <2>1. IsWellFoundedOn(R, Nat)
    BY NatLessThanWellFounded
  <2> HIDE DEF R
  <2> QED
    BY <2>1, WFMin
<1>2. ASSUME NEW m \in S PROVE n <= m
  <2>1. ~ (<<m, n>> \in {ss \in Nat \X Nat : ss[1] < ss[2]})
    BY <1>1 DEF OpToRel
  <2>2. <<m, n>> \in Nat \X Nat /\ <<m, n>>[1] = m /\ <<m, n>>[2] = n
    OBVIOUS
  <2> QED
    BY <2>1, <2>2
<1> QED
  BY <1>2

\* Least and Max give a member of the set.
LEMMA LeastIs ==
  ASSUME NEW S, S \subseteq Nat, Least(S) # NotFound
  PROVE  Least(S) \in S /\ \A m \in S : Least(S) <= m
<1>1. S # {}
  BY DEF Least
<1>2. Least(S) = CHOOSE n \in S : \A m \in S : n <= m
  BY <1>1 DEF Least
<1> QED
  BY <1>1, <1>2, LeastExists, Zenon

LEMMA MaxIs ==
  ASSUME NEW w \in Nat, NEW S, S \subseteq 0 .. w, S # {}
  PROVE  Max(S) \in S
<1> DEFINE T == {w - x : x \in S}
<1>1. T \subseteq Nat
  OBVIOUS
<1>2. T # {}
  BY Zenon
<1>3. PICK n \in T : \A m \in T : n <= m
  <2> HIDE DEF T
  <2> QED
    BY <1>1, <1>2, LeastExists, Zenon
<1>4. PICK x \in S : n = w - x
  BY Zenon
<1>5. \A y \in S : w - x <= w - y
  BY <1>3, <1>4
<1>6. \A y \in S : x >= y
  BY <1>5
<1> QED
  BY <1>6, Zenon DEF Max

LEMMA LeastIsIt ==
  ASSUME NEW S, S \subseteq Nat, NEW n \in S, \A m \in S : n <= m
  PROVE  Least(S) = n
<1>1. S # {} /\ Least(S) = CHOOSE k \in S : \A m \in S : k <= m
  BY DEF Least
<1>2. \E k \in S : \A m \in S : k <= m
  OBVIOUS
<1> DEFINE k == CHOOSE k \in S : \A m \in S : k <= m
<1>3. k \in S /\ \A m \in S : k <= m
  BY <1>2
<1> HIDE DEF k
<1>4. k = n
  BY <1>3
<1> QED
  BY <1>1, <1>4 DEF k

LEMMA LeastFound ==
  ASSUME NEW S, S \subseteq Nat
  PROVE  Least(S) # NotFound <=> S # {}
<1>1. Least(S) # NotFound => S # {}
  BY DEF Least
<1>2. ASSUME S # {} PROVE Least(S) # NotFound
  <2>1. PICK n \in S : \A m \in S : n <= m
    BY <1>2, LeastExists
  <2>2. Least(S) = n
    BY <2>1, LeastIsIt
  <2>3. n \in Nat
    OBVIOUS
  <2> QED
    BY <2>2, <2>3 DEF NotFound
<1> QED
  BY <1>1, <1>2

-----------------------------------------------------------------------------
(* The invariant: what the ring holds, byte by byte. *)

RingTypes ==
  /\ data \in [0 .. SIZE - 1 -> Symbols]
  /\ head \in 0 .. SIZE + 1 /\ tail \in 0 .. SIZE - 1
  /\ unread \in Seq(Symbols) /\ wire \in Seq(Symbols)

\* From head to tail lie the unread bytes, and more than two places stay free.
HoldsUnread ==
  /\ Len(unread) = Dist(head, tail) /\ Len(unread) < SIZE - 2
  /\ \A i \in 1 .. Len(unread) : unread[i] = data[Place(head, i - 1)]

\* Past them stands the byte that stops a search.
Stopped == data[tail] = NUL

\* When head has gone past the end of the ring, what it stands for, data[0], is the
\* second byte of a command's tail.
PastEnd == head = SIZE + 1 => data[0] = End[2]

\* Once the tail of a command has been found, it lies whole among the unread bytes, and
\* they are not dropped.
CutInv ==
  cmd_get_step = 3 =>
    /\ ~headFail
    /\ cmdTail_index \in 0 .. SIZE + 1
    /\ Dist(head, cmdTail_index) \in 2 .. Len(unread)
    /\ unread[Dist(head, cmdTail_index)] = End[2]

RingInv == RingTypes /\ HoldsUnread /\ Stopped /\ PastEnd /\ CutInv

-----------------------------------------------------------------------------
(* The keywords. *)

LEMMA FirstBytes ==
  /\ End[1] # End[2] /\ Header[1] # End[2] /\ Header[1] # NUL
  /\ End[1] \in Symbols /\ End[2] \in Symbols /\ End[1] # NUL /\ End[2] # NUL
  /\ NUL \in Symbols
<1>1. End \in [1 .. 2 -> Symbols] /\ Header \in [1 .. Len(Header) -> Symbols]
  BY Sizes, LenProperties
<1>2. Range(End) = {End[i] : i \in DOMAIN End} /\ Range(Header) = {Header[i] : i \in DOMAIN Header}
  BY DEF Range
<1>3. 1 \in DOMAIN Header /\ 1 \in DOMAIN End /\ 2 \in DOMAIN End
  BY <1>1, Sizes
<1>4. NUL \notin Range(End) /\ NUL \notin Range(Header) /\ Range(Header) \cap Range(End) = {}
  BY FifoAssumption
<1>5. End[2] # End[1]
  <2>1. 2 \in 2 .. SIZE /\ 2 <= Len(End)
    BY Sizes
  <2> QED
    BY <2>1, FifoAssumption
<1> QED
  BY <1>1, <1>2, <1>3, <1>4, <1>5 DEF Symbols

LEMMA KeyFacts ==
  ASSUME NEW key \in {Header, End}
  PROVE  /\ key \in Seq(Symbols) /\ Len(key) \in Nat \ {0} /\ Len(key) < SIZE - 2
         /\ key[1] # End[2]
         /\ \A m \in 1 .. Len(key) : key[m] # NUL
         /\ \A m \in 2 .. Len(key) : key[m] # key[1]
<1>1. /\ Len(Header) \in Nat \ {0} /\ Len(Header) < SIZE - 2 /\ Header \in Seq(Symbols)
      /\ Len(End) \in Nat \ {0} /\ Len(End) < SIZE - 2 /\ End \in Seq(Symbols)
  <2>1. Len(Header) + 1 + Len(End) < SIZE - Len(End)
    BY FifoAssumption
  <2> QED
    BY <2>1, Sizes
<1>2. key \in Seq(Symbols) /\ Len(key) \in Nat \ {0} /\ Len(key) < SIZE - 2
  BY <1>1, Zenon
<1>3. key[1] # End[2]
  BY FirstBytes
<1>4. \A m \in 1 .. Len(key) : key[m] # NUL
  <2>1. NUL \notin Range(key)
    <3>1. NUL \notin Range(Header) /\ NUL \notin Range(End)
      BY FifoAssumption
    <3> QED
      BY <3>1, Zenon
  <2>2. DOMAIN key = 1 .. Len(key)
    BY <1>2, LenProperties
  <2> QED
    BY <2>1, <2>2 DEF Range
<1>5. \A m \in 2 .. Len(key) : key[m] # key[1]
  <2> SUFFICES ASSUME NEW m \in 2 .. Len(key) PROVE key[m] # key[1]
    OBVIOUS
  <2>1. m \in 2 .. SIZE /\ m <= Len(key)
    BY <1>2, Sizes
  <2> QED
    BY <2>1, FifoAssumption
<1> QED
  BY <1>2, <1>3, <1>4, <1>5

-----------------------------------------------------------------------------
(* What is left when bytes are passed over. *)

\* What follows n bytes of a sequence.
LEMMA RestIs ==
  ASSUME NEW s \in Seq(Symbols), NEW n \in 0 .. Len(s)
  PROVE  LET rest == SubSeq(s, n + 1, Len(s)) IN
         /\ rest \in Seq(Symbols) /\ Len(rest) = Len(s) - n
         /\ \A i \in 1 .. Len(rest) : rest[i] = s[n + i]
<1>1. Len(s) \in Nat /\ \A i \in n + 1 .. Len(s) : s[i] \in Symbols
  BY LenProperties, ElementOfSeq
<1> DEFINE rest == SubSeq(s, n + 1, Len(s))
<1>2. /\ rest \in Seq(Symbols)
      /\ Len(rest) = IF n + 1 <= Len(s) THEN Len(s) - (n + 1) + 1 ELSE 0
      /\ \A i \in 1 .. Len(s) - (n + 1) + 1 : rest[i] = s[(n + 1) + i - 1]
  <2>1. n + 1 \in Int /\ Len(s) \in Int
    BY <1>1
  <2> QED
    BY <1>1, <2>1, SubSeqProperties
<1> HIDE DEF rest
<1>3. Len(rest) = Len(s) - n
  BY <1>1, <1>2
<1>4. ASSUME NEW i \in 1 .. Len(rest) PROVE rest[i] = s[n + i]
  <2>1. i \in 1 .. Len(s) - (n + 1) + 1 /\ (n + 1) + i - 1 = n + i
    BY <1>1, <1>3
  <2> QED
    BY <1>2, <2>1
<1> QED
  BY <1>2, <1>3, <1>4 DEF rest

\* Passing over what lies before a place among the unread bytes.
LEMMA Passing ==
  ASSUME RingTypes, HoldsUnread,
         NEW to \in 0 .. SIZE + 1, Dist(head, to) <= Len(unread)
  PROVE  LET rest == Passed(head, to) IN
         /\ rest \in Seq(Symbols)
         /\ Len(rest) = Dist(to, tail) /\ Len(rest) < SIZE - 2
         /\ \A i \in 1 .. Len(rest) : rest[i] = data[Place(to, i - 1)]
<1> DEFINE d    == Dist(head, to)
           rest == Passed(head, to)
<1>0. /\ SIZE \in Nat /\ SIZE > 5
      /\ head \in 0 .. SIZE + 1 /\ tail \in 0 .. SIZE - 1
      /\ Len(unread) = Dist(head, tail) /\ Len(unread) < SIZE - 2 /\ Len(unread) \in Nat
  BY Sizes, LenProperties DEF RingTypes, HoldsUnread
<1>1. d \in 0 .. Len(unread)
  <2>1. d \in 0 .. SIZE - 1
    BY <1>0, DistIs, Zenon
  <2> QED
    BY <1>0, <2>1
<1>2. rest = SubSeq(unread, d + 1, Len(unread))
  BY DEF Passed, Dist
<1> HIDE DEF d, rest
<1>3. /\ rest \in Seq(Symbols) /\ Len(rest) = Len(unread) - d
      /\ \A i \in 1 .. Len(rest) : rest[i] = unread[d + i]
  BY <1>1, <1>2, RestIs, Zenon DEF RingTypes
<1>4. Dist(to, tail) = Len(unread) - d
  BY <1>0, DistAdds DEF d
<1>5. ASSUME NEW i \in 1 .. Len(rest) PROVE rest[i] = data[Place(to, i - 1)]
  <2>1. /\ i - 1 \in 0 .. SIZE - 2 /\ (d + i) - 1 \in 0 .. SIZE - 2
        /\ (d + i) - 1 = d + (i - 1) /\ d + i \in 1 .. Len(unread)
    BY <1>0, <1>1, <1>3
  <2>2. unread[d + i] = data[Place(head, (d + i) - 1)]
    BY <2>1 DEF HoldsUnread
  <2>3. Place(to, i - 1) = Place(head, (d + i) - 1)
    <3> DEFINE k == (d + i) - 1
               j == i - 1
    <3>1. k \in 0 .. SIZE - 2 /\ j \in 0 .. SIZE - 2 /\ k = Dist(head, to) + j
      BY <2>1 DEF d
    <3> HIDE DEF k, j
    <3>2. Place(to, j) = Place(head, k)
      BY <1>0, <3>1, PlaceAdds
    <3> QED
      BY <3>2 DEF k, j
  <2> QED
    BY <1>3, <2>2, <2>3
<1>7. Len(rest) < SIZE - 2
  BY <1>0, <1>1, <1>3
<1> QED
  BY <1>3, <1>4, <1>5, <1>7 DEF rest

-----------------------------------------------------------------------------
(* The search finds the first whole keyword. *)

\* A loop that compares the whole keyword ends at the first start where it stands, and
\* the count began there.
LEMMA LoopFindsFirst ==
  ASSUME NEW from \in Nat, NEW to \in Int, NEW key, Len(key) \in Nat \ {0}
  PROVE  LET first == Least({i \in Starts(from, to, key) : Stands(i, key, 1, Len(key))})
         IN Loop(from, to, key, Len(key)) = first /\ LoopEnd(from, to, key, Len(key)) = first
<1> DEFINE len      == Len(key)
           starts   == Starts(from, to, key)
           Here(i)  == Stands(i, key, 1, len)
           inRow(i) == {c \in starts : c <= i /\ \A d \in starts : c <= d /\ d <= i => Here(d)}
           ends     == {i \in starts : Cardinality(inRow(i)) * len = Len(key)}
           good     == {i \in starts : Here(i)}
<1>1. /\ LoopEnd(from, to, key, len) = Least(ends)
      /\ Loop(from, to, key, len) = Least(inRow(Least(ends)))
  BY Zenon DEF Loop, LoopEnd, InRow
<1>2. starts \subseteq Nat
  BY DEF Starts
<1> HIDE DEF Here, starts
<1>3. \A i \in starts : inRow(i) # {} => i \in good
  BY <1>2
<1>4. \A i \in ends : i \in starts /\ inRow(i) # {}
  <2> SUFFICES ASSUME NEW i \in ends, inRow(i) = {} PROVE FALSE
    BY Zenon
  <2>1. Cardinality(inRow(i)) = 0
    BY FS_EmptySet
  <2>2. Cardinality(inRow(i)) * len = Len(key)
    BY Zenon
  <2> HIDE DEF inRow, ends
  <2> QED
    BY <2>1, <2>2
<1>5. CASE good = {}
  <2>1. ends = {}
    BY <1>3, <1>4, <1>5
  <2>2. Least(ends) = NotFound
    BY <2>1 DEF Least
  <2>3. inRow(NotFound) = {}
    <3>1. \A c \in Nat : ~(c <= NotFound)
      BY DEF NotFound
    <3> QED
      BY <1>2, <3>1
  <2> HIDE DEF inRow, ends, good
  <2> QED
    BY <1>1, <1>5, <2>2, <2>3 DEF Least, good, Here, starts
<1>6. CASE good # {}
  <2>1. PICK f \in good : \A g \in good : f <= g
    BY <1>2, <1>6, LeastExists
  <2>2. f \in starts /\ f \in Nat /\ Here(f)
    BY <1>2
  <2>3. inRow(f) = {f}
    <3>1. f \in inRow(f)
      BY <1>2, <2>2
    <3>2. ASSUME NEW c \in inRow(f) PROVE c = f
      <4>1. c \in starts /\ c <= f /\ c <= c
        BY <1>2
      <4>2. Here(c)
        BY <4>1
      <4>3. f <= c
        BY <2>1, <4>1, <4>2
      <4> QED
        BY <1>2, <2>2, <4>1, <4>3
    <3> HIDE DEF inRow
    <3> QED
      BY <3>1, <3>2
  <2>4. f \in ends
    <3>1. Cardinality(inRow(f)) = 1
      BY <2>3, FS_Singleton
    <3>2. Cardinality(inRow(f)) * len = Len(key)
      <4> HIDE DEF inRow
      <4> QED
        BY <3>1
    <3> HIDE DEF inRow
    <3> QED
      BY <2>2, <3>2
  <2>5. \A i \in ends : f <= i
    BY <1>3, <1>4, <2>1
  <2>6. ends \subseteq Nat
    BY <1>2
  <2>7. Least(ends) = f
    <3> HIDE DEF ends
    <3> QED
      BY <2>4, <2>5, <2>6, LeastIsIt
  <2>8. Least({f}) = f
    <3>1. {f} \subseteq Nat /\ f \in {f} /\ \A m \in {f} : f <= m
      BY <2>2
    <3> QED
      BY <3>1, LeastIsIt
  <2>9. Least(good) = f
    <3>1. good \subseteq Nat
      BY <1>2
    <3> HIDE DEF good
    <3> QED
      BY <2>1, <3>1, LeastIsIt
  <2> HIDE DEF inRow, ends, good
  <2> QED
    BY <1>1, <2>3, <2>7, <2>8, <2>9 DEF good, Here, starts
<1> QED
  BY <1>5, <1>6

\* The offsets among the unread bytes at which the keyword lies whole.
Offsets(key) ==
  {d \in 0 .. Len(unread) - Len(key) : \A m \in 1 .. Len(key) : unread[d + m] = key[m]}

LEMMA FirstIs ==
  ASSUME unread \in Seq(Symbols), NEW key \in Seq(Symbols), Len(key) > 0
  PROVE  /\ FirstIn(unread, key) # NotFound <=> Offsets(key) # {}
         /\ \A d \in Offsets(key) :
              (\A c \in Offsets(key) : d <= c) => FirstIn(unread, key) = d + 1
<1> DEFINE L      == Len(key)
           U      == Len(unread)
           wholes == {n \in 1 .. U - L + 1 : SubSeq(unread, n, n + L - 1) = key}
<1>1. L \in Nat \ {0} /\ U \in Nat
  BY LenProperties
<1>2. FirstIn(unread, key) = Least(wholes)
  BY DEF FirstIn
<1>3. wholes \subseteq Nat /\ Offsets(key) \subseteq Nat
  BY <1>1 DEF Offsets
<1>4. ASSUME NEW n \in 1 .. U - L + 1
      PROVE  SubSeq(unread, n, n + L - 1) = key <=>
               \A m \in 1 .. L : unread[(n - 1) + m] = key[m]
  <2> DEFINE part == SubSeq(unread, n, n + L - 1)
  <2>1. /\ n \in Int /\ n + L - 1 \in Int /\ n <= n + L - 1
        /\ n .. n + L - 1 \subseteq 1 .. U /\ (n + L - 1) - n + 1 = L
    BY <1>1
  <2>2. \A i \in n .. n + L - 1 : unread[i] \in Symbols
    BY <2>1, ElementOfSeq
  <2>3. /\ part \in Seq(Symbols)
        /\ Len(part) = IF n <= n + L - 1 THEN (n + L - 1) - n + 1 ELSE 0
        /\ \A i \in 1 .. (n + L - 1) - n + 1 : part[i] = unread[n + i - 1]
    BY <2>1, <2>2, SubSeqProperties
  <2> HIDE DEF part
  <2>4. part \in Seq(Symbols) /\ Len(part) = L /\ \A i \in 1 .. L : part[i] = unread[n + i - 1]
    BY <2>1, <2>3
  <2>5. \A i \in 1 .. L : n + i - 1 = (n - 1) + i
    BY <1>1
  <2>6. \A i \in 1 .. L : part[i] = unread[(n - 1) + i]
    BY <2>4, <2>5
  <2>7. ASSUME \A m \in 1 .. L : unread[(n - 1) + m] = key[m] PROVE part = key
    BY <2>4, <2>6, <2>7, SeqEqual
  <2> QED
    BY <2>6, <2>7 DEF part
<1>5. \A n \in wholes : n - 1 \in Offsets(key) /\ n \in Nat
  BY <1>1, <1>4 DEF Offsets
<1>6. ASSUME NEW d \in Offsets(key) PROVE d + 1 \in wholes
  <2>1. d + 1 \in 1 .. U - L + 1 /\ (d + 1) - 1 = d
    BY <1>1 DEF Offsets
  <2>2. \A m \in 1 .. L : unread[((d + 1) - 1) + m] = key[m]
    BY <2>1 DEF Offsets
  <2> QED
    BY <1>4, <2>1, <2>2
<1> HIDE DEF wholes
<1>7. wholes # {} <=> Offsets(key) # {}
  BY <1>5, <1>6
<1>8. ASSUME NEW d \in Offsets(key), \A c \in Offsets(key) : d <= c
      PROVE  Least(wholes) = d + 1
  <2>1. \A n \in wholes : d + 1 <= n
    BY <1>3, <1>5, <1>8
  <2> QED
    BY <1>3, <1>6, <2>1, LeastIsIt
<1> QED
  BY <1>2, <1>3, <1>7, <1>8, LeastFound

\* What stands m places from a place in use.
LEMMA UnreadAt ==
  ASSUME RingTypes, HoldsUnread, NEW p \in 0 .. SIZE - 1, NEW m \in Nat \ {0},
         Dist(head, p) + m <= Len(unread)
  PROVE  /\ p + m <= SIZE => unread[Dist(head, p) + m] = data[p + m - 1]
         /\ p + m > SIZE => unread[Dist(head, p) + m] = data[p + m - 1 - SIZE]
<1> DEFINE d == Dist(head, p)
           j == m - 1
           k == d + j
<1>0. /\ SIZE \in Nat /\ SIZE > 5 /\ Len(unread) \in Nat /\ Len(unread) < SIZE - 2
      /\ head \in 0 .. SIZE + 1 /\ p \in 0 .. SIZE + 1
  BY LenProperties, Sizes DEF RingTypes, HoldsUnread
<1>1. d \in 0 .. SIZE - 1
  BY <1>0, DistIs, Zenon
<1> HIDE DEF d
<1>2. j \in 0 .. SIZE - 2 /\ k \in 0 .. SIZE - 2 /\ d + m \in 1 .. Len(unread) /\ (d + m) - 1 = k
  BY <1>0, <1>1 DEF d
<1>3. unread[d + m] = data[Place(head, k)]
  BY <1>2 DEF HoldsUnread
<1>4. Place(p, j) = Place(head, k)
  <2>1. k = Dist(head, p) + j
    BY DEF d
  <2> HIDE DEF j, k
  <2> QED
    BY <1>0, <1>2, <2>1, PlaceAdds
<1>5. /\ Place(p, j) \in 0 .. SIZE - 1
      /\ Place(p, j) = p + j \/ Place(p, j) = p + j - SIZE
  <2> HIDE DEF j
  <2> QED
    BY <1>0, <1>2, PlaceIs, Zenon
<1> DEFINE q == Place(p, j)
<1>6. q \in 0 .. SIZE - 1 /\ (q = p + j \/ q = (p + j) - SIZE)
  BY <1>0, <1>2, <1>5
<1> HIDE DEF q
<1>7. p + m <= SIZE => q = p + m - 1
  BY <1>0, <1>6
<1>8. p + m > SIZE => q = p + m - 1 - SIZE
  BY <1>0, <1>6
<1>9. unread[d + m] = data[q]
  BY <1>3, <1>4 DEF q
<1> QED
  BY <1>7, <1>8, <1>9 DEF d

LEMMA OffsetPlace ==
  ASSUME RingTypes, HoldsUnread, NEW key \in {Header, End}, NEW d \in Offsets(key)
  PROVE  /\ d \in 0 .. Len(unread) - Len(key) /\ d \in 0 .. SIZE - 2
         /\ Place(head, d) \in 0 .. SIZE - 1
         /\ Place(head, d) = head + d \/ Place(head, d) = head + d - SIZE
         /\ Dist(head, Place(head, d)) = d
         /\ data[Place(head, d)] = key[1]
<1>0. /\ SIZE \in Nat /\ SIZE > 5 /\ Len(unread) \in Nat /\ Len(unread) < SIZE - 2
      /\ head \in 0 .. SIZE + 1 /\ Len(key) \in Nat \ {0}
  BY LenProperties, Sizes, KeyFacts DEF RingTypes, HoldsUnread
<1>1. d \in 0 .. Len(unread) - Len(key) /\ unread[d + 1] = key[1]
  BY <1>0 DEF Offsets
<1>2. d \in 0 .. SIZE - 2 /\ d + 1 \in 1 .. Len(unread) /\ (d + 1) - 1 = d
  BY <1>0, <1>1
<1>3. /\ Place(head, d) \in 0 .. SIZE - 1
      /\ Place(head, d) = head + d \/ Place(head, d) = head + d - SIZE
  BY <1>0, <1>2, PlaceIs, Zenon
<1>4. Dist(head, Place(head, d)) = d
  BY <1>0, <1>2, DistOfPlace
<1>5. unread[d + 1] = data[Place(head, d)]
  <2>1. unread[d + 1] = data[Place(head, (d + 1) - 1)]
    BY <1>2, Zenon DEF HoldsUnread
  <2> QED
    BY <1>2, <2>1
<1> QED
  BY <1>1, <1>2, <1>3, <1>4, <1>5

\* Where the place of a keyword does not reach over the end of the ring or of the
\* unread bytes, comparing it in the ring is comparing it with them.
LEMMA StandsInside ==
  ASSUME RingTypes, HoldsUnread, NEW key \in {Header, End}, NEW p \in 0 .. SIZE - 1,
         p + Len(key) <= SIZE, Dist(head, p) + Len(key) <= Len(unread)
  PROVE  Stands(p, key, 1, Len(key)) <=> Dist(head, p) \in Offsets(key)
<1> DEFINE d == Dist(head, p)
<1>0. /\ SIZE \in Nat /\ SIZE > 5 /\ Len(unread) \in Nat /\ Len(key) \in Nat \ {0}
      /\ DOMAIN data = 0 .. SIZE - 1
  BY LenProperties, Sizes, KeyFacts DEF RingTypes
<1>1. d \in 0 .. SIZE - 1
  <2>1. p \in 0 .. SIZE + 1 /\ head \in 0 .. SIZE + 1
    BY <1>0 DEF RingTypes
  <2> QED
    BY <2>1, DistIs, Zenon
<1>2. ASSUME NEW m \in 1 .. Len(key) PROVE Byte(p + m - 1) = unread[d + m]
  <2> HIDE DEF d
  <2>1. m \in Nat \ {0} /\ p + m <= SIZE /\ d + m <= Len(unread) /\ p + m - 1 \in 0 .. SIZE - 1
    BY <1>0, <1>1 DEF d
  <2>2. unread[d + m] = data[p + m - 1]
    BY <2>1, UnreadAt DEF d
  <2> QED
    BY <1>0, <2>1, <2>2 DEF Byte
<1> HIDE DEF d
<1>3. d \in 0 .. Len(unread) - Len(key)
  BY <1>0, <1>1 DEF d
<1> QED
  BY <1>2, <1>3 DEF Stands, Offsets, d

\* Before tail in memory the byte that stops a search ends every comparison that goes
\* beyond the unread bytes.
LEMMA StandsBeforeTail ==
  ASSUME RingTypes, HoldsUnread, Stopped, NEW key \in {Header, End}, NEW p \in 0 .. tail - 1,
         Dist(head, p) < Len(unread)
  PROVE  Stands(p, key, 1, Len(key)) <=> Dist(head, p) \in Offsets(key)
<1> DEFINE d == Dist(head, p)
<1>0. /\ SIZE \in Nat /\ SIZE > 5 /\ Len(unread) \in Nat /\ Len(key) \in Nat \ {0}
      /\ head \in 0 .. SIZE + 1 /\ tail \in 0 .. SIZE - 1 /\ tail \in 0 .. SIZE + 1
      /\ Len(unread) = Dist(head, tail) /\ DOMAIN data = 0 .. SIZE - 1
  BY LenProperties, Sizes, KeyFacts DEF RingTypes, HoldsUnread
<1>1. p \in 0 .. SIZE - 1 /\ p \in 0 .. SIZE + 1
  BY <1>0
<1>2. d \in 0 .. SIZE - 1
  BY <1>0, <1>1, DistIs, Zenon
<1>3. Dist(p, tail) = Len(unread) - d
  BY <1>0, <1>1, <1>2, DistAdds
<1>4. Dist(p, tail) = tail - p
  <2>1. /\ Dist(p, tail) \in 0 .. SIZE - 1
        /\ \/ Dist(p, tail) = tail - p \/ Dist(p, tail) = tail - p - SIZE
           \/ Dist(p, tail) = tail - p + SIZE \/ Dist(p, tail) = tail - p + 2 * SIZE
    BY <1>0, <1>1, DistIs, Zenon
  <2> QED
    BY <1>0, <2>1
<1> HIDE DEF d
<1>5. CASE p + Len(key) <= tail
  <2>1. p + Len(key) <= SIZE /\ d + Len(key) <= Len(unread)
    BY <1>0, <1>1, <1>2, <1>3, <1>4, <1>5
  <2> QED
    BY <1>1, <2>1, StandsInside DEF d
<1>6. CASE ~(p + Len(key) <= tail)
  <2>1. d \notin Offsets(key)
    BY <1>0, <1>1, <1>2, <1>3, <1>4, <1>6 DEF Offsets
  <2>2. ~Stands(p, key, 1, Len(key))
    <3> DEFINE m == tail - p + 1
    <3>1. m \in 1 .. Len(key) /\ p + m - 1 = tail
      BY <1>0, <1>6
    <3> HIDE DEF m
    <3>2. Byte(p + m - 1) = NUL
      BY <1>0, <3>1 DEF Byte, Stopped
    <3>3. key[m] # NUL
      BY <3>1, KeyFacts
    <3> QED
      BY <3>1, <3>2, <3>3 DEF Stands
  <2> QED
    BY <2>1, <2>2 DEF d
<1> QED
  BY <1>5, <1>6

\* What a search owes.
FindsFirst(key) ==
  /\ Found(key) => \E d \in Offsets(key) :
                     (\A c \in Offsets(key) : d <= c) /\ Index(key) = Place(head, d)
  /\ ~Found(key) => Offsets(key) = {}

\* The unread bytes lie in one piece.
LEMMA FindsInOnePiece ==
  ASSUME RingTypes, HoldsUnread, Stopped, NEW key \in {Header, End}, tail >= head
  PROVE  FindsFirst(key)
<1> DEFINE good == {i \in Starts(head, tail, key) : Stands(i, key, 1, Len(key))}
           r    == Index(key)
<1>0. /\ SIZE \in Nat /\ SIZE > 5 /\ Len(unread) \in Nat /\ Len(key) \in Nat \ {0}
      /\ head \in 0 .. SIZE - 1 /\ tail \in 0 .. SIZE - 1 /\ tail \in 0 .. SIZE + 1
      /\ head \in Nat /\ tail \in Int /\ head \in 0 .. SIZE + 1 /\ Len(unread) = Dist(head, tail)
  BY LenProperties, Sizes, KeyFacts DEF RingTypes, HoldsUnread
<1>1. r = Least(good)
  <2>1. r = Loop(head, tail, key, Len(key))
    BY DEF Index, get_key_data_index
  <2> QED
    BY <1>0, <2>1, LoopFindsFirst, Zenon
<1>2. Found(key) <=> r # NotFound
  BY DEF Found, Index
<1>3. good \subseteq Nat
  BY <1>0 DEF Starts
<1>4. ASSUME NEW p \in head .. tail - 1 PROVE Dist(head, p) = p - head /\ p - head < Len(unread)
  <2>1. p \in 0 .. SIZE + 1
    BY <1>0
  <2>2. /\ Dist(head, p) \in 0 .. SIZE - 1
        /\ \/ Dist(head, p) = p - head \/ Dist(head, p) = p - head - SIZE
           \/ Dist(head, p) = p - head + SIZE \/ Dist(head, p) = p - head + 2 * SIZE
    BY <1>0, <2>1, DistIs, Zenon
  <2>3. /\ Dist(head, tail) \in 0 .. SIZE - 1
        /\ \/ Dist(head, tail) = tail - head \/ Dist(head, tail) = tail - head - SIZE
           \/ Dist(head, tail) = tail - head + SIZE \/ Dist(head, tail) = tail - head + 2 * SIZE
    BY <1>0, DistIs, Zenon
  <2> QED
    BY <1>0, <2>2, <2>3
<1>5. ASSUME NEW p \in good PROVE p - head \in Offsets(key)
  <2>1. p \in head .. tail - 1 /\ Stands(p, key, 1, Len(key))
    BY DEF Starts
  <2>2. p \in 0 .. tail - 1 /\ Dist(head, p) = p - head /\ Dist(head, p) < Len(unread)
    BY <1>0, <1>4, <2>1
  <2> QED
    BY <2>1, <2>2, StandsBeforeTail
<1>6. ASSUME NEW d \in Offsets(key) PROVE head + d \in good /\ Place(head, d) = head + d
  <2> DEFINE p == Place(head, d)
  <2>1. /\ d \in 0 .. Len(unread) - Len(key) /\ p \in 0 .. SIZE - 1
        /\ p = head + d \/ p = head + d - SIZE
        /\ Dist(head, p) = d /\ data[p] = key[1]
    BY OffsetPlace, Zenon
  <2> HIDE DEF p
  <2>2. Len(unread) = tail - head
    <3>1. \/ Dist(head, tail) = tail - head \/ Dist(head, tail) = tail - head - SIZE
          \/ Dist(head, tail) = tail - head + SIZE \/ Dist(head, tail) = tail - head + 2 * SIZE
      BY <1>0, DistIs, Zenon
    <3>2. Dist(head, tail) \in 0 .. SIZE - 1
      BY <1>0, DistIs, Zenon
    <3> QED
      BY <1>0, <3>1, <3>2
  <2>3. p = head + d /\ p \in head .. tail - 1 /\ p \in 0 .. tail - 1 /\ Dist(head, p) < Len(unread)
    BY <1>0, <2>1, <2>2
  <2>4. Stands(p, key, 1, Len(key))
    BY <2>1, <2>3, StandsBeforeTail
  <2>5. p \in Starts(head, tail, key)
    BY <2>1, <2>3 DEF Starts
  <2> QED
    BY <2>3, <2>4, <2>5 DEF p
<1>7. Offsets(key) \subseteq Nat
  BY <1>0 DEF Offsets
<1> HIDE DEF good
<1>8. ASSUME Found(key)
      PROVE  \E d \in Offsets(key) :
               (\A c \in Offsets(key) : d <= c) /\ Index(key) = Place(head, d)
  <2>1. r \in good /\ \A p \in good : r <= p
    <3>1. Least(good) # NotFound
      BY <1>1, <1>2, <1>8
    <3> QED
      BY <1>1, <1>3, <3>1, LeastIs
  <2> DEFINE d == r - head
  <2>2. d \in Offsets(key)
    BY <1>5, <2>1
  <2> HIDE DEF r
  <2>3. \A c \in Offsets(key) : d <= c
    BY <1>0, <1>3, <1>6, <1>7, <2>1
  <2>4. head + d = r
    BY <1>0, <1>3, <2>1
  <2>5. Place(head, d) = r
    BY <1>6, <2>2, <2>4
  <2> HIDE DEF d
  <2> QED
    BY <2>2, <2>3, <2>5 DEF r
<1>9. ASSUME ~Found(key) PROVE Offsets(key) = {}
  <2>1. good = {}
    BY <1>1, <1>2, <1>3, <1>9, LeastFound
  <2> QED
    BY <1>6, <2>1
<1> QED
  BY <1>8, <1>9 DEF FindsFirst

\* The unread bytes go on at the beginning of the ring.
LEMMA SplitRing ==
  ASSUME RingTypes, HoldsUnread, tail < head
  PROVE  /\ SIZE \in Nat /\ SIZE > 5 /\ Len(unread) \in Nat /\ Len(unread) < SIZE - 2
         /\ head \in 1 .. SIZE + 1 /\ tail \in 0 .. SIZE - 1
         /\ DOMAIN data = 0 .. SIZE - 1
         /\ Len(unread) = (tail + SIZE) - head
         /\ \A p \in head .. SIZE - 1 : Dist(head, p) = p - head
         /\ \A p \in 0 .. tail - 1 :
              p + SIZE >= head => Dist(head, p) = (p + SIZE) - head
<1>0. /\ SIZE \in Nat /\ SIZE > 5 /\ Len(unread) \in Nat /\ Len(unread) < SIZE - 2
      /\ head \in 1 .. SIZE + 1 /\ tail \in 0 .. SIZE - 1 /\ tail \in 0 .. SIZE + 1
      /\ head \in 0 .. SIZE + 1 /\ Len(unread) = Dist(head, tail) /\ DOMAIN data = 0 .. SIZE - 1
  BY LenProperties, Sizes DEF RingTypes, HoldsUnread
<1>1. ASSUME NEW p \in 0 .. SIZE - 1
      PROVE  /\ Dist(head, p) \in 0 .. SIZE - 1
             /\ \/ Dist(head, p) = p - head \/ Dist(head, p) = p - head - SIZE
                \/ Dist(head, p) = p - head + SIZE \/ Dist(head, p) = p - head + 2 * SIZE
  <2>1. p \in 0 .. SIZE + 1
    BY <1>0
  <2> QED
    BY <1>0, <2>1, DistIs, Zenon
<1>2. Len(unread) = (tail + SIZE) - head
  <2>1. /\ Dist(head, tail) \in 0 .. SIZE - 1
        /\ \/ Dist(head, tail) = tail - head \/ Dist(head, tail) = tail - head - SIZE
           \/ Dist(head, tail) = tail - head + SIZE
           \/ Dist(head, tail) = tail - head + 2 * SIZE
    BY <1>0, <1>1
  <2> QED
    BY <1>0, <2>1
<1>3. ASSUME NEW p \in head .. SIZE - 1 PROVE Dist(head, p) = p - head
  <2>1. p \in 0 .. SIZE - 1
    BY <1>0
  <2>2. /\ Dist(head, p) \in 0 .. SIZE - 1
        /\ \/ Dist(head, p) = p - head \/ Dist(head, p) = p - head - SIZE
           \/ Dist(head, p) = p - head + SIZE \/ Dist(head, p) = p - head + 2 * SIZE
    BY <1>1, <2>1
  <2> QED
    BY <1>0, <2>1, <2>2
<1>4. ASSUME NEW p \in 0 .. tail - 1, p + SIZE >= head PROVE Dist(head, p) = (p + SIZE) - head
  <2>1. p \in 0 .. SIZE - 1
    BY <1>0
  <2>2. /\ Dist(head, p) \in 0 .. SIZE - 1
        /\ \/ Dist(head, p) = p - head \/ Dist(head, p) = p - head - SIZE
           \/ Dist(head, p) = p - head + SIZE \/ Dist(head, p) = p - head + 2 * SIZE
    BY <1>1, <2>1
  <2> QED
    BY <1>0, <1>4, <2>1, <2>2
<1> QED
  BY <1>0, <1>2, <1>3, <1>4

\* Where a keyword lies, when it does.
LEMMA SplitOffset ==
  ASSUME RingTypes, HoldsUnread, tail < head, NEW key \in {Header, End}, NEW d \in Offsets(key)
  PROVE  /\ d \in 0 .. Len(unread) - Len(key)
         /\ \/ head + d < SIZE /\ Place(head, d) = head + d
            \/ head + d >= SIZE /\ Place(head, d) = (head + d) - SIZE
               /\ Place(head, d) \in 0 .. tail - 1
         /\ data[Place(head, d)] = key[1]
<1> DEFINE p == Place(head, d)
<1>1. /\ d \in 0 .. Len(unread) - Len(key) /\ p \in 0 .. SIZE - 1
      /\ p = head + d \/ p = head + d - SIZE
      /\ data[p] = key[1]
  BY OffsetPlace, Zenon
<1>2. /\ SIZE \in Nat /\ SIZE > 5 /\ Len(unread) \in Nat
      /\ head \in 1 .. SIZE + 1 /\ tail \in 0 .. SIZE - 1
      /\ Len(unread) = (tail + SIZE) - head
  BY SplitRing
<1>3. Len(key) \in Nat \ {0}
  BY KeyFacts
<1> HIDE DEF p
<1>4. \/ head + d < SIZE /\ p = head + d
      \/ head + d >= SIZE /\ p = (head + d) - SIZE /\ p \in 0 .. tail - 1
  <2>1. /\ d \in Nat /\ d + Len(key) <= Len(unread) /\ p \in 0 .. SIZE - 1
        /\ p = head + d \/ p = (head + d) - SIZE
    BY <1>1, <1>2, <1>3
  <2>2. d < Len(unread)
    BY <1>2, <1>3, <2>1
  <2>3. CASE p = head + d
    BY <1>2, <2>1, <2>3
  <2>4. CASE p = (head + d) - SIZE
    BY <1>2, <2>1, <2>2, <2>4
  <2> QED
    BY <2>1, <2>3, <2>4
<1> QED
  BY <1>1, <1>4 DEF p

\* The first loop: the keywords that end before the end of the ring.
UpperGood(key) ==
  {i \in Starts(head, SIZE - Len(key) + 1, key) : Stands(i, key, 1, Len(key))}

LEMMA UpperIs ==
  ASSUME RingTypes, HoldsUnread, tail < head, NEW key \in {Header, End}
  PROVE  /\ UpperGood(key) \subseteq Nat
         /\ Loop(head, SIZE - Len(key) + 1, key, Len(key)) = Least(UpperGood(key))
         /\ \A p \in UpperGood(key) :
              /\ p - head \in Offsets(key) /\ Place(head, p - head) = p
              /\ p \in head .. SIZE - Len(key)
         /\ \A d \in Offsets(key) :
              head + d <= SIZE - Len(key) => head + d \in UpperGood(key)
<1>0. /\ SIZE \in Nat /\ SIZE > 5 /\ Len(unread) \in Nat
      /\ head \in 1 .. SIZE + 1 /\ tail \in 0 .. SIZE - 1
      /\ Len(unread) = (tail + SIZE) - head
      /\ \A p \in head .. SIZE - 1 : Dist(head, p) = p - head
      /\ Len(key) \in Nat \ {0} /\ head \in Nat /\ SIZE - Len(key) + 1 \in Int
  BY SplitRing, KeyFacts
<1>1. UpperGood(key) \subseteq Nat
  BY <1>0 DEF UpperGood, Starts
<1>2. Loop(head, SIZE - Len(key) + 1, key, Len(key)) = Least(UpperGood(key))
  <2> DEFINE to == SIZE - Len(key) + 1
  <2>1. to \in Int
    BY <1>0
  <2> HIDE DEF to
  <2>2. Loop(head, to, key, Len(key)) =
          Least({i \in Starts(head, to, key) : Stands(i, key, 1, Len(key))})
    BY <1>0, <2>1, LoopFindsFirst, Zenon
  <2> QED
    BY <2>2, Zenon DEF UpperGood, to
<1>3. ASSUME NEW p \in UpperGood(key)
      PROVE  /\ p - head \in Offsets(key) /\ Place(head, p - head) = p
             /\ p \in head .. SIZE - Len(key)
  <2>1. p \in head .. SIZE - Len(key) /\ Stands(p, key, 1, Len(key))
    BY <1>0 DEF UpperGood, Starts
  <2>2. /\ p \in 0 .. SIZE - 1 /\ p \in head .. SIZE - 1 /\ p + Len(key) <= SIZE
        /\ (p - head) + Len(key) <= Len(unread)
    BY <1>0, <2>1
  <2>3. Dist(head, p) = p - head
    BY <1>0, <2>2
  <2>4. Dist(head, p) \in Offsets(key)
    BY <2>1, <2>2, <2>3, StandsInside
  <2>5. Place(head, Dist(head, p)) = p
    <3>1. Dist(head, p) \in 0 .. SIZE - 2
      BY <1>0, <2>2, <2>3
    <3> QED
      BY <2>2, <3>1, PlaceOfDist DEF RingTypes
  <2> QED
    BY <2>1, <2>3, <2>4, <2>5
<1>4. ASSUME NEW d \in Offsets(key), head + d <= SIZE - Len(key)
      PROVE  head + d \in UpperGood(key)
  <2> DEFINE p == head + d
  <2>1. /\ d \in 0 .. Len(unread) - Len(key)
        /\ Place(head, d) = head + d /\ data[p] = key[1]
    <3>1. /\ d \in 0 .. Len(unread) - Len(key)
          /\ \/ head + d < SIZE /\ Place(head, d) = head + d
             \/ head + d >= SIZE
          /\ data[Place(head, d)] = key[1]
      BY SplitOffset
    <3>2. ~(head + d >= SIZE)
      BY <1>0, <1>4, <3>1
    <3> QED
      BY <3>1, <3>2
  <2>2. /\ p \in head .. SIZE - 1 /\ p \in 0 .. SIZE - 1 /\ p + Len(key) <= SIZE
        /\ p - head = d /\ d + Len(key) <= Len(unread) /\ p \in head .. (SIZE - Len(key) + 1) - 1
    BY <1>0, <1>4, <2>1
  <2>3. Dist(head, p) = d
    BY <1>0, <2>2
  <2> HIDE DEF p
  <2>4. Stands(p, key, 1, Len(key))
    BY <2>2, <2>3, StandsInside
  <2>5. p \in UpperGood(key)
    BY <2>1, <2>2, <2>4 DEF UpperGood, Starts
  <2> QED
    BY <2>5 DEF p
<1> QED
  BY <1>1, <1>2, <1>3, <1>4

\* What get_key_data_index returns when the data goes on at the beginning of the ring.
LEMMA SplitIndex ==
  ASSUME head \in 0 .. SIZE + 1, tail \in 0 .. SIZE - 1, tail < head, NEW key
  PROVE  LET near  == NearEnd(key)
             upper == Loop(head, SIZE - Len(key) + 1, key, Len(key))
             last  == Max(near)
             left  == SIZE - last
         IN /\ upper # NotFound => Index(key) = upper
            /\ upper = NotFound /\ near = {} => Index(key) = LoopEnd(0, tail, key, Len(key))
            /\ upper = NotFound /\ near # {} /\ Stands(last, key, 1, left) =>
                 Index(key) = IF RestStands(key, left + 1) THEN last ELSE NotFound
<1> DEFINE near  == NearEnd(key)
           upper == Loop(head, SIZE - Len(key) + 1, key, Len(key))
           last  == Max(near)
           left  == SIZE - last
           r     == Index(key)
<1>1. ~(tail >= head)
  BY Sizes
<1>2. r = CASE upper # NotFound -> upper
            [] upper = NotFound /\ near = {} -> LoopEnd(0, tail, key, Len(key))
            [] OTHER -> IF Stands(last, key, 1, left)
                        THEN IF RestStands(key, left + 1) THEN last ELSE NotFound
                        ELSE LoopEnd(0, tail, key, left)
  BY <1>1, Zenon DEF Index, get_key_data_index
<1>3. /\ upper # NotFound => r = upper
      /\ upper = NotFound /\ near = {} => r = LoopEnd(0, tail, key, Len(key))
      /\ upper = NotFound /\ near # {} /\ Stands(last, key, 1, left) =>
           r = IF RestStands(key, left + 1) THEN last ELSE NotFound
  <2> HIDE DEF upper, near, last, left, r
  <2> QED
    BY <1>2, Zenon
<1> QED
  BY <1>3, Zenon

\* The first loop finds one.
LEMMA FindsUpper ==
  ASSUME RingTypes, HoldsUnread, tail < head, NEW key \in {Header, End}, UpperGood(key) # {}
  PROVE  FindsFirst(key)
<1> DEFINE r == Index(key)
           d == r - head
<1>0. /\ SIZE \in Nat /\ SIZE > 5 /\ head \in 1 .. SIZE + 1 /\ Len(key) \in Nat \ {0}
      /\ Len(unread) \in Nat
  BY SplitRing, KeyFacts
<1>1. /\ UpperGood(key) \subseteq Nat
      /\ Loop(head, SIZE - Len(key) + 1, key, Len(key)) = Least(UpperGood(key))
      /\ \A p \in UpperGood(key) :
           /\ p - head \in Offsets(key) /\ Place(head, p - head) = p
           /\ p \in head .. SIZE - Len(key)
      /\ \A c \in Offsets(key) : head + c <= SIZE - Len(key) => head + c \in UpperGood(key)
  BY UpperIs, Zenon
<1>2. Least(UpperGood(key)) # NotFound
  BY <1>1, LeastFound
<1>3. r = Least(UpperGood(key)) /\ r # NotFound
  <2>1. head \in 0 .. SIZE + 1 /\ tail \in 0 .. SIZE - 1
    BY DEF RingTypes
  <2> QED
    BY <1>1, <1>2, <2>1, SplitIndex
<1>4. r \in UpperGood(key) /\ \A p \in UpperGood(key) : r <= p
  BY <1>1, <1>2, <1>3, LeastIs
<1>5. Found(key)
  BY <1>3 DEF Found, Index
<1> HIDE DEF r
<1>6. d \in Offsets(key) /\ Place(head, d) = r /\ r \in head .. SIZE - Len(key)
  BY <1>1, <1>4
<1>7. ASSUME NEW c \in Offsets(key) PROVE d <= c
  <2>1. c \in Nat
    BY <1>0 DEF Offsets
  <2>2. CASE head + c <= SIZE - Len(key)
    <3>1. r <= head + c
      BY <1>1, <1>4, <2>2
    <3> QED
      BY <1>0, <1>6, <2>1, <3>1
  <2>3. CASE ~(head + c <= SIZE - Len(key))
    BY <1>0, <1>6, <2>1, <2>3
  <2> QED
    BY <2>2, <2>3
<1> HIDE DEF d
<1> QED
  BY <1>5, <1>6, <1>7 DEF FindsFirst, r

\* It does not, and no keyword begins near the end of the ring.
LEMMA FindsLower ==
  ASSUME RingTypes, HoldsUnread, Stopped, PastEnd, tail < head, NEW key \in {Header, End},
         UpperGood(key) = {}, NearEnd(key) = {}
  PROVE  FindsFirst(key)
<1> DEFINE good == {i \in Starts(0, tail, key) : Stands(i, key, 1, Len(key))}
           r    == Index(key)
<1>0. /\ SIZE \in Nat /\ SIZE > 5 /\ head \in 1 .. SIZE + 1 /\ tail \in 0 .. SIZE - 1
      /\ Len(unread) \in Nat /\ Len(unread) = (tail + SIZE) - head /\ Len(key) \in Nat \ {0}
      /\ \A p \in 0 .. tail - 1 : p + SIZE >= head => Dist(head, p) = (p + SIZE) - head
      /\ tail \in Int
  BY SplitRing, KeyFacts
<1>1. r = Least(good)
  <2>1. head \in 0 .. SIZE + 1 /\ tail \in 0 .. SIZE - 1
    BY DEF RingTypes
  <2>2. Loop(head, SIZE - Len(key) + 1, key, Len(key)) = NotFound
    BY UpperIs DEF Least
  <2>3. r = LoopEnd(0, tail, key, Len(key))
    BY <2>1, <2>2, SplitIndex
  <2> DEFINE from == 0
  <2>4. from \in Nat
    OBVIOUS
  <2> HIDE DEF from
  <2>5. LoopEnd(from, tail, key, Len(key)) =
          Least({i \in Starts(from, tail, key) : Stands(i, key, 1, Len(key))})
    BY <1>0, <2>4, LoopFindsFirst, Zenon
  <2> QED
    BY <2>3, <2>5, Zenon DEF from
<1>2. Found(key) <=> r # NotFound
  BY DEF Found, Index
<1>3. good \subseteq Nat
  BY <1>0 DEF Starts
<1>4. ASSUME NEW p \in good
      PROVE  /\ p \in 0 .. tail - 1 /\ p + SIZE >= head
             /\ (p + SIZE) - head \in Offsets(key)
  <2>1. p \in 0 .. tail - 1 /\ data[p] = key[1] /\ Stands(p, key, 1, Len(key))
    BY DEF Starts
  <2>2. p + SIZE >= head
    <3> SUFFICES ASSUME ~(p + SIZE >= head) PROVE FALSE
      OBVIOUS
    <3>1. p = 0 /\ head = SIZE + 1
      BY <1>0, <2>1
    <3>2. key[1] = End[2]
      BY <2>1, <3>1 DEF PastEnd
    <3> QED
      BY <3>2, KeyFacts
  <2>3. Dist(head, p) = (p + SIZE) - head /\ Dist(head, p) < Len(unread)
    BY <1>0, <2>1, <2>2
  <2> QED
    BY <2>1, <2>2, <2>3, StandsBeforeTail
<1>5. ASSUME NEW d \in Offsets(key)
      PROVE  /\ d \in Nat /\ (head + d) - SIZE \in good
             /\ Place(head, d) = (head + d) - SIZE
  <2> DEFINE p == Place(head, d)
  <2>1. /\ d \in 0 .. Len(unread) - Len(key)
        /\ \/ head + d < SIZE /\ p = head + d
           \/ head + d >= SIZE /\ p = (head + d) - SIZE /\ p \in 0 .. tail - 1
        /\ data[p] = key[1]
    BY SplitOffset, Zenon
  <2> HIDE DEF p
  <2>2. ~(head + d < SIZE /\ p = head + d)
    <3> SUFFICES ASSUME head + d < SIZE, p = head + d PROVE FALSE
      OBVIOUS
    <3>1. d \in Nat
      BY <1>0, <2>1
    <3>2. ~(head + d <= SIZE - Len(key))
      BY UpperIs
    <3>3. p \in head .. SIZE - 1 /\ p + Len(key) > SIZE
      BY <1>0, <3>1, <3>2
    <3>4. p \in NearEnd(key)
      BY <2>1, <3>3 DEF NearEnd, Starts
    <3> QED
      BY <3>4
  <2>3. p = (head + d) - SIZE /\ p \in 0 .. tail - 1 /\ d \in Nat
    BY <1>0, <2>1, <2>2
  <2>4. Dist(head, p) = d /\ Dist(head, p) < Len(unread)
    <3>1. p + SIZE >= head /\ (p + SIZE) - head = d /\ d < Len(unread)
      BY <1>0, <2>1, <2>3
    <3> QED
      BY <1>0, <2>3, <3>1
  <2>5. Stands(p, key, 1, Len(key))
    BY <2>3, <2>4, StandsBeforeTail
  <2>6. p \in Starts(0, tail, key)
    BY <2>1, <2>3 DEF Starts
  <2> QED
    BY <2>3, <2>5, <2>6 DEF p
<1> HIDE DEF good
<1>6. ASSUME Found(key)
      PROVE  \E d \in Offsets(key) :
               (\A c \in Offsets(key) : d <= c) /\ Index(key) = Place(head, d)
  <2>1. r \in good /\ \A p \in good : r <= p
    <3>1. Least(good) # NotFound
      BY <1>1, <1>2, <1>6
    <3> QED
      BY <1>1, <1>3, <3>1, LeastIs
  <2> HIDE DEF r
  <2> DEFINE d == (r + SIZE) - head
  <2>2. d \in Offsets(key) /\ r \in 0 .. tail - 1 /\ r + SIZE >= head
    BY <1>4, <2>1
  <2>3. ASSUME NEW c \in Offsets(key) PROVE d <= c
    <3>1. r <= (head + c) - SIZE /\ c \in Nat
      BY <1>5, <2>1
    <3> QED
      BY <1>0, <2>2, <3>1
  <2>4. (head + d) - SIZE = r
    BY <1>0, <2>2
  <2>5. Place(head, d) = r
    <3> HIDE DEF d
    <3> QED
      BY <1>5, <2>2, <2>4
  <2> HIDE DEF d
  <2> QED
    BY <2>2, <2>3, <2>5 DEF r
<1>7. ASSUME ~Found(key) PROVE Offsets(key) = {}
  <2>1. good = {}
    BY <1>1, <1>2, <1>3, <1>7, LeastFound
  <2> QED
    BY <1>5, <2>1
<1> QED
  BY <1>6, <1>7 DEF FindsFirst

LEMMA PrefixIs ==
  ASSUME NEW s \in Seq(Symbols), NEW t \in Seq(Symbols), IsPrefix(s, t)
  PROVE  \A m \in 1 .. Len(s) : m <= Len(t) /\ s[m] = t[m]
<1>1. Len(s) \in Nat /\ Len(t) \in Nat /\ Len(s) <= Len(t)
  BY LenProperties DEF IsPrefix
<1> DEFINE n == Len(s)
<1>2. \A i \in 1 .. n : s[i] \in Symbols /\ t[i] \in Symbols
  BY <1>1, ElementOfSeq
<1>3. SubSeq(s, 1, n) = SubSeq(t, 1, n)
  BY DEF IsPrefix
<1>4. 1 \in Int /\ n \in Int
  BY <1>1
<1>5. \A i \in 1 .. n - 1 + 1 : SubSeq(s, 1, n)[i] = s[1 + i - 1]
  BY <1>2, <1>4, SubSeqProperties
<1>6. \A i \in 1 .. n - 1 + 1 : SubSeq(t, 1, n)[i] = t[1 + i - 1]
  BY <1>2, <1>4, SubSeqProperties
<1> SUFFICES ASSUME NEW m \in 1 .. n PROVE m <= Len(t) /\ s[m] = t[m]
  OBVIOUS
<1>7. m \in 1 .. n - 1 + 1 /\ 1 + m - 1 = m /\ m <= Len(t)
  BY <1>1
<1>8. s[m] = t[m]
  BY <1>3, <1>5, <1>6, <1>7
<1> QED
  BY <1>7, <1>8

\* Unless the case is ambiguous, a keyword's first byte too near the end of the ring
\* begins the keyword, as far as the unread bytes go.
LEMMA NearBegins ==
  ASSUME RingTypes, HoldsUnread, tail < head, NEW key \in {Header, End}, ~Ambiguous(key),
         NEW i \in NearEnd(key), NEW m \in 1 .. Len(key), (i - head) + m <= Len(unread)
  PROVE  unread[(i - head) + m] = key[m]
<1> DEFINE c    == i - head
           from == SubSeq(unread, c + 1, Len(unread))
<1>0. /\ SIZE \in Nat /\ head \in 1 .. SIZE + 1 /\ tail \in 0 .. SIZE - 1
      /\ Len(unread) \in Nat /\ Len(unread) = (tail + SIZE) - head
      /\ key \in Seq(Symbols) /\ Len(key) \in Nat \ {0} /\ unread \in Seq(Symbols)
  BY SplitRing, KeyFacts DEF RingTypes
<1>1. i \in head .. SIZE - 1 /\ i + Len(key) > SIZE /\ data[i] = key[1]
  BY DEF NearEnd, Starts
<1>2. IsPrefix(key, from) \/ IsPrefix(from, key)
  <2>1. from = SubSeq(unread, i - head + 1, Len(unread))
    BY <1>0, <1>1
  <2> QED
    BY <1>1, <2>1 DEF Ambiguous
<1>3. c \in 0 .. Len(unread)
  BY <1>0, <1>1
<1> HIDE DEF c
<1>4. /\ from \in Seq(Symbols) /\ Len(from) = Len(unread) - c
      /\ \A n \in 1 .. Len(from) : from[n] = unread[c + n]
  BY <1>0, <1>3, RestIs, Zenon
<1>5. m \in 1 .. Len(from) /\ c + m <= Len(unread)
  BY <1>0, <1>3, <1>4 DEF c
<1> HIDE DEF from
<1>6. from[m] = key[m]
  <2>1. CASE IsPrefix(key, from)
    BY <1>0, <1>4, <2>1, PrefixIs
  <2>2. CASE IsPrefix(from, key)
    BY <1>0, <1>4, <1>5, <2>2, PrefixIs
  <2> QED
    BY <1>2, <2>1, <2>2
<1> QED
  BY <1>4, <1>5, <1>6 DEF c

\* A keyword begins near the end of the ring and goes on, perhaps, at its beginning.
LEMMA FindsSplit ==
  ASSUME RingTypes, HoldsUnread, Stopped, tail < head, NEW key \in {Header, End},
         ~Ambiguous(key), UpperGood(key) = {}, NearEnd(key) # {}
  PROVE  FindsFirst(key)
<1> DEFINE near == NearEnd(key)
           last == Max(near)
           left == SIZE - last
           d    == last - head
           r    == Index(key)
<1>0. /\ SIZE \in Nat /\ SIZE > 5 /\ head \in 1 .. SIZE + 1 /\ tail \in 0 .. SIZE - 1
      /\ Len(unread) \in Nat /\ Len(unread) = (tail + SIZE) - head /\ Len(key) \in Nat \ {0}
      /\ DOMAIN data = 0 .. SIZE - 1
      /\ \A p \in head .. SIZE - 1 : Dist(head, p) = p - head
  BY SplitRing, KeyFacts
<1>1. near \subseteq head .. SIZE - 1 /\ \A i \in near : i + Len(key) > SIZE /\ data[i] = key[1]
  BY DEF NearEnd, Starts
<1>2. last \in near
  <2>1. near \subseteq 0 .. SIZE
    BY <1>0, <1>1
  <2> HIDE DEF near
  <2> QED
    BY <1>0, <2>1, MaxIs DEF near
<1>3. /\ last \in head .. SIZE - 1 /\ last + Len(key) > SIZE
      /\ d \in Nat /\ left \in 1 .. Len(key) - 1 /\ left \in Nat /\ d + left = SIZE - head
      /\ d + left <= Len(unread) /\ Len(unread) = (d + left) + tail
  <2>1. last \in head .. SIZE - 1 /\ last + Len(key) > SIZE
    BY <1>1, <1>2
  <2> HIDE DEF last
  <2> QED
    BY <1>0, <2>1
<1>4. ASSUME NEW m \in 1 .. Len(key), d + m <= Len(unread) PROVE unread[d + m] = key[m]
  BY <1>2, <1>4, NearBegins
\* The byte m places on, before the end of the ring and after.
<1>5. ASSUME NEW m \in Nat \ {0}, d + m <= Len(unread)
      PROVE  /\ m <= left => unread[d + m] = data[last + m - 1]
             /\ m > left => unread[d + m] = data[m - left - 1]
  <2> HIDE DEF last
  <2>1. last \in 0 .. SIZE - 1 /\ Dist(head, last) = d
    BY <1>0, <1>3
  <2>2. /\ last + m <= SIZE => unread[Dist(head, last) + m] = data[last + m - 1]
        /\ last + m > SIZE => unread[Dist(head, last) + m] = data[last + m - 1 - SIZE]
    BY <1>5, <2>1, UnreadAt
  <2>3. /\ m <= left => last + m <= SIZE
        /\ m > left => last + m > SIZE /\ last + m - 1 - SIZE = m - left - 1
    BY <1>0, <1>3
  <2> QED
    BY <2>1, <2>2, <2>3
<1> HIDE DEF near
<1>6. ASSUME NEW i \in near PROVE i = last
  <2> SUFFICES ASSUME i # last PROVE FALSE
    OBVIOUS
  <2> HIDE DEF last
  <2>1. i \in head .. SIZE - 1 /\ i + Len(key) > SIZE /\ data[i] = key[1]
    BY <1>1
  \* Of two of them the later one would be a byte of the keyword other than its first.
  <2>2. ASSUME NEW a \in near, NEW b \in near, a < b PROVE FALSE
    <3> DEFINE m == b - a + 1
    <3>1. /\ a \in head .. SIZE - 1 /\ b \in head .. SIZE - 1 /\ a + Len(key) > SIZE
          /\ data[b] = key[1]
      BY <1>1
    <3>2. /\ m \in 2 .. Len(key) /\ m \in 1 .. Len(key) /\ m \in Nat \ {0}
          /\ (a - head) + m <= Len(unread) /\ a + m <= SIZE /\ a + m - 1 = b
          /\ a \in 0 .. SIZE - 1
      BY <1>0, <2>2, <3>1
    <3> HIDE DEF m
    <3>3. unread[(a - head) + m] = key[m]
      BY <3>2, NearBegins DEF near
    <3>4. unread[(a - head) + m] = data[b]
      <4>1. Dist(head, a) = a - head
        BY <1>0, <3>1
      <4>2. Dist(head, a) + m <= Len(unread)
        BY <3>2, <4>1
      <4>3. a + m <= SIZE => unread[Dist(head, a) + m] = data[a + m - 1]
        BY <3>2, <4>2, UnreadAt
      <4> QED
        BY <3>2, <4>1, <4>3
    <3> QED
      BY <3>1, <3>2, <3>3, <3>4, KeyFacts
  <2>3. i < last \/ last < i
    BY <1>0, <1>3, <2>1
  <2> QED
    BY <1>2, <2>2, <2>3
\* Nothing stands whole before it.
<1>7. ASSUME NEW c \in Offsets(key) PROVE d <= c /\ c \in Nat
  <2> HIDE DEF last
  <2>1. /\ c \in 0 .. Len(unread) - Len(key)
        /\ \/ head + c < SIZE /\ Place(head, c) = head + c
           \/ head + c >= SIZE
        /\ data[Place(head, c)] = key[1]
    BY SplitOffset
  <2>2. ~(head + c <= SIZE - Len(key))
    BY UpperIs
  <2>3. c \in Nat
    BY <1>0, <2>1
  <2>4. CASE head + c < SIZE
    <3> DEFINE p == head + c
    <3>1. p \in head .. SIZE - 1 /\ p + Len(key) > SIZE /\ p = Place(head, c)
      BY <1>0, <2>1, <2>2, <2>3, <2>4
    <3> HIDE DEF p
    <3>2. p \in near
      BY <2>1, <3>1 DEF near, NearEnd, Starts
    <3>3. p = last
      BY <1>6, <3>2
    <3> QED
      BY <1>0, <1>3, <2>3, <3>3 DEF p
  <2>5. CASE ~(head + c < SIZE)
    BY <1>0, <1>3, <2>3, <2>5
  <2> QED
    BY <2>3, <2>4, <2>5
<1>8. Stands(last, key, 1, left)
  <2> SUFFICES ASSUME NEW m \in 1 .. left PROVE Byte(last + m - 1) = key[m]
    BY DEF Stands
  <2> HIDE DEF last
  <2>1. /\ m \in Nat \ {0} /\ m <= left /\ m \in 1 .. Len(key) /\ d + m <= Len(unread)
        /\ last + m - 1 \in 0 .. SIZE - 1
    BY <1>0, <1>3
  <2>2. unread[d + m] = data[last + m - 1] /\ unread[d + m] = key[m]
    BY <1>4, <1>5, <2>1
  <2> QED
    BY <1>0, <2>1, <2>2 DEF Byte
<1>9. r = IF RestStands(key, left + 1) THEN last ELSE NotFound
  <2>1. head \in 0 .. SIZE + 1 /\ tail \in 0 .. SIZE - 1
    BY DEF RingTypes
  <2>2. Loop(head, SIZE - Len(key) + 1, key, Len(key)) = NotFound
    BY UpperIs DEF Least
  <2> QED
    BY <1>8, <2>1, <2>2, SplitIndex DEF near
<1> HIDE DEF last
\* The rest of it is looked for at the beginning of the ring.
<1> DEFINE at == Least({i \in 0 .. tail - 1 : data[i] = key[left + 1]})
<1>10. tail > 0 => at = 0
  <2> SUFFICES ASSUME tail > 0 PROVE at = 0
    OBVIOUS
  <2> DEFINE n == left + 1
             S == {i \in 0 .. tail - 1 : data[i] = key[n]}
  <2>1. /\ n \in Nat \ {0} /\ n > left /\ n \in 1 .. Len(key) /\ d + n <= Len(unread)
        /\ n - left - 1 = 0
    BY <1>0, <1>3
  <2>2. data[0] = key[n]
    <3> HIDE DEF n
    <3>1. unread[d + n] = data[n - left - 1] /\ unread[d + n] = key[n]
      BY <1>4, <1>5, <2>1
    <3> QED
      BY <2>1, <3>1
  <2>3. S \subseteq Nat /\ 0 \in S /\ \A m \in S : 0 <= m
    BY <1>0, <2>2
  <2>4. at = Least(S)
    OBVIOUS
  <2> HIDE DEF S, at
  <2> QED
    BY <2>3, <2>4, LeastIsIt
<1>11. tail = 0 => at = NotFound
  BY <1>0 DEF Least
<1>12. RestStands(key, left + 1) <=> at # NotFound /\ Stands(at, key, left + 1, Len(key))
  BY DEF RestStands
<1>13. CASE d + Len(key) <= Len(unread)
  <2>1. tail > 0 /\ at = 0
    <3> HIDE DEF at, left, d
    <3>1. tail > 0
      BY <1>0, <1>3, <1>13
    <3> QED
      BY <1>10, <3>1
  <2>2. Stands(0, key, left + 1, Len(key))
    <3> SUFFICES ASSUME NEW n \in left + 1 .. Len(key) PROVE Byte(0 + n - (left + 1)) = key[n]
      BY DEF Stands
    <3>1. /\ n \in Nat \ {0} /\ n > left /\ n \in 1 .. Len(key) /\ d + n <= Len(unread)
          /\ 0 + n - (left + 1) = n - left - 1 /\ n - left - 1 \in 0 .. SIZE - 1
      <4> HIDE DEF left, d
      <4> QED
        BY <1>0, <1>3, <1>13
    <3>2. unread[d + n] = data[n - left - 1] /\ unread[d + n] = key[n]
      BY <1>4, <1>5, <3>1
    <3> QED
      BY <1>0, <3>1, <3>2 DEF Byte
  <2>3. r = last
    <3>1. at # NotFound
      BY <2>1 DEF NotFound
    <3> HIDE DEF at, left
    <3> QED
      BY <1>9, <1>12, <2>1, <2>2, <3>1
  <2>4. d \in Offsets(key)
    <3>1. d \in 0 .. Len(unread) - Len(key)
      BY <1>0, <1>3, <1>13
    <3>2. ASSUME NEW m \in 1 .. Len(key) PROVE unread[d + m] = key[m]
      <4>1. d + m <= Len(unread)
        BY <1>0, <1>3, <1>13
      <4> QED
        BY <1>4, <4>1
    <3> QED
      BY <3>1, <3>2 DEF Offsets
  <2>5. Place(head, d) = last
    <3>1. Dist(head, last) = d /\ last \in 0 .. SIZE - 1
      BY <1>0, <1>3
    <3>2. d \in 0 .. SIZE - 2
      BY <1>0, <1>3
    <3> QED
      BY <3>1, <3>2, PlaceOfDist DEF RingTypes
  <2>6. Found(key)
    <3>1. last # NotFound
      BY <1>0, <1>3 DEF NotFound
    <3> QED
      BY <2>3, <3>1 DEF Found, Index
  <2> HIDE DEF d
  <2> QED
    BY <1>7, <2>3, <2>4, <2>5, <2>6 DEF FindsFirst
<1>14. CASE ~(d + Len(key) <= Len(unread))
  <2>1. Offsets(key) = {}
    <3> SUFFICES ASSUME NEW c \in Offsets(key) PROVE FALSE
      OBVIOUS
    <3>1. c \in 0 .. Len(unread) - Len(key)
      BY DEF Offsets
    <3>2. d <= c /\ c \in Nat
      BY <1>7
    <3> HIDE DEF d
    <3> QED
      BY <1>0, <1>3, <1>14, <3>1, <3>2
  <2>2. ~RestStands(key, left + 1)
    <3> SUFFICES ASSUME at # NotFound, Stands(at, key, left + 1, Len(key)) PROVE FALSE
      BY <1>12
    <3>1. tail > 0 /\ at = 0
      <4> HIDE DEF at
      <4> QED
        BY <1>0, <1>10, <1>11
    <3> DEFINE n == tail + left + 1
    <3>2. n \in left + 1 .. Len(key) /\ 0 + n - (left + 1) = tail /\ n \in 1 .. Len(key)
      <4> HIDE DEF left, d
      <4> QED
        BY <1>0, <1>3, <1>14
    <3>3. Stands(0, key, left + 1, Len(key))
      BY <3>1
    <3> HIDE DEF n, left
    <3>4. Byte(0 + n - (left + 1)) = key[n]
      BY <3>2, <3>3 DEF Stands
    <3>5. Byte(tail) = NUL
      BY <1>0 DEF Byte, Stopped
    <3> QED
      BY <3>2, <3>4, <3>5, KeyFacts
  <2>3. ~Found(key)
    BY <1>9, <2>2 DEF Found, Index
  <2> QED
    BY <2>1, <2>3 DEF FindsFirst
<1> QED
  BY <1>13, <1>14

LEMMA Finds ==
  ASSUME RingInv, NEW key \in {Header, End}, ~Ambiguous(key)
  PROVE  FindsFirst(key)
<1>1. RingTypes /\ HoldsUnread /\ Stopped /\ PastEnd
  BY DEF RingInv
<1>2. tail >= head \/ tail < head
  BY <1>1, Sizes DEF RingTypes
<1> QED
  BY <1>1, <1>2, FindsInOnePiece, FindsUpper, FindsLower, FindsSplit

-----------------------------------------------------------------------------
(* A burst. *)

\* network_uart_recv writes its bytes from one place of the ring on.
LEMMA StoredIs ==
  ASSUME NEW d \in [0 .. SIZE - 1 -> Symbols], NEW at \in 0 .. SIZE,
         NEW bytes \in Seq(Symbols)
  PROVE  /\ Stored(d, at, bytes) \in [0 .. SIZE - 1 -> Symbols]
         /\ \A j \in 0 .. SIZE - 1 :
              Stored(d, at, bytes)[j] = IF j - at \in 0 .. Len(bytes) - 1
                                        THEN bytes[j - at + 1] ELSE d[j]
<1>0. /\ SIZE \in Nat /\ SIZE > 5
      /\ Len(bytes) \in Nat /\ DOMAIN bytes = 1 .. Len(bytes) /\ DOMAIN d = 0 .. SIZE - 1
      /\ \A i \in 1 .. Len(bytes) : bytes[i] \in Symbols
  BY Sizes, LenProperties, ElementOfSeq
<1>1. ASSUME NEW j \in 0 .. SIZE - 1
      PROVE  /\ j - at + 1 \in DOMAIN bytes <=> j - at \in 0 .. Len(bytes) - 1
             /\ j - at \in 0 .. Len(bytes) - 1 => bytes[j - at + 1] \in Symbols
             /\ d[j] \in Symbols
  BY <1>0
<1>2. Stored(d, at, bytes) = [j \in 0 .. SIZE - 1 |-> IF j - at + 1 \in DOMAIN bytes
                                                     THEN bytes[j - at + 1] ELSE d[j]]
  BY <1>0, Zenon DEF Stored
<1> QED
  BY <1>1, <1>2

\* What the callback does to the ring: the bytes go to the places from tail on, whether
\* they reach the end of the ring or not, tail to the place after them, where the byte
\* that stops a search is put; every other place keeps what it had.
LEMMA BurstRing ==
  ASSUME RingTypes, NEW bytes \in Seq(Symbols),
         Len(bytes) \in 1 .. WIDTH - 1, Len(bytes) < SIZE - 1,
         net4g_uart_recv_cb(bytes)
  PROVE  /\ tail' = Place(tail, Len(bytes))
         /\ data' \in [0 .. SIZE - 1 -> Symbols]
         /\ \A j \in 0 .. SIZE - 1 :
              data'[j] = IF j = tail' THEN NUL
                         ELSE IF Dist(tail, j) < Len(bytes) THEN bytes[Dist(tail, j) + 1]
                         ELSE data[j]
<1> DEFINE k == Len(bytes)
<1>0. /\ SIZE \in Nat /\ SIZE > 5 /\ WIDTH \in Nat /\ WIDTH <= SIZE /\ k \in 1 .. WIDTH - 1
      /\ tail \in 0 .. SIZE - 1 /\ k \in 0 .. SIZE - 2
      /\ data \in [0 .. SIZE - 1 -> Symbols] /\ NUL \in Symbols
  BY Sizes, FirstBytes DEF RingTypes
<1>1. ASSUME NEW j \in 0 .. SIZE - 1
      PROVE  Dist(tail, j) = IF j >= tail THEN j - tail ELSE j - tail + SIZE
  <2>1. j \in 0 .. SIZE + 1 /\ tail \in 0 .. SIZE + 1
    BY <1>0
  <2>2. /\ Dist(tail, j) \in 0 .. SIZE - 1
        /\ \/ Dist(tail, j) = j - tail \/ Dist(tail, j) = j - tail - SIZE
           \/ Dist(tail, j) = j - tail + SIZE \/ Dist(tail, j) = j - tail + 2 * SIZE
    BY <2>1, DistIs, Zenon
  <2> QED
    BY <1>0, <2>2
<1>2. /\ Place(tail, k) \in 0 .. SIZE - 1
      /\ Place(tail, k) = tail + k \/ Place(tail, k) = tail + k - SIZE
  <2>1. tail \in 0 .. SIZE + 1
    BY <1>0
  <2> QED
    BY <1>0, <2>1, PlaceIs, Zenon
<1> HIDE DEF k
<1>3. CASE tail + k >= SIZE
  <2> DEFINE first == (SIZE - tail) % WIDTH
             rest  == (k - first) % WIDTH
             low   == SubSeq(bytes, 1, first)
             high  == SubSeq(bytes, first + 1, first + rest)
             ring  == Stored(Stored(data, tail, low), 0, high)
  <2>1. first = SIZE - tail /\ first \in 1 .. k
    <3>1. SIZE - tail \in 0 .. WIDTH - 1 /\ WIDTH \in Nat \ {0}
      BY <1>0, <1>3
    <3>2. first = SIZE - tail
      BY <3>1, ModSmall, Zenon
    <3> HIDE DEF first
    <3> QED
      BY <1>0, <1>3, <3>2
  <2>2. rest = k - first
    <3> HIDE DEF first
    <3>1. k - first \in 0 .. WIDTH - 1 /\ WIDTH \in Nat \ {0}
      BY <1>0, <2>1
    <3> QED
      BY <3>1, ModSmall, Zenon
  <2>3. data' = [ring EXCEPT ![rest] = NUL] /\ tail' = rest
    <3>1. IF tail + Len(bytes) >= SIZE THEN TRUE ELSE FALSE
      BY <1>3 DEF k
    <3> QED
      BY <3>1 DEF net4g_uart_recv_cb, WrapBurst, Terminated, k
  <2> HIDE DEF first, rest
  <2>4. /\ low \in Seq(Symbols) /\ Len(low) = first
        /\ \A i \in 1 .. first : low[i] = bytes[i]
    <3>1. \A i \in 1 .. first : bytes[i] \in Symbols
      BY <1>0, <2>1, ElementOfSeq DEF k
    <3>2. /\ low \in Seq(Symbols) /\ Len(low) = IF 1 <= first THEN first - 1 + 1 ELSE 0
          /\ \A i \in 1 .. first - 1 + 1 : low[i] = bytes[1 + i - 1]
      <4>1. 1 \in Int /\ first \in Int
        BY <1>0, <2>1
      <4> QED
        BY <3>1, <4>1, SubSeqProperties
    <3> HIDE DEF low
    <3> QED
      BY <1>0, <2>1, <3>2
  <2>5. /\ high \in Seq(Symbols) /\ Len(high) = rest
        /\ \A i \in 1 .. rest : high[i] = bytes[first + i]
    <3>1. high = SubSeq(bytes, first + 1, Len(bytes))
      <4>1. first + rest = Len(bytes)
        BY <1>0, <2>1, <2>2 DEF k
      <4> QED
        BY <4>1
    <3>2. first \in 0 .. Len(bytes)
      BY <1>0, <2>1 DEF k
    <3>3. /\ high \in Seq(Symbols) /\ Len(high) = Len(bytes) - first
          /\ \A i \in 1 .. Len(high) : high[i] = bytes[first + i]
      <4> HIDE DEF high
      <4> QED
        BY <3>1, <3>2, RestIs, Zenon
    <3> QED
      BY <2>2, <3>3 DEF k
  <2> HIDE DEF low, high
  <2>6. /\ Stored(data, tail, low) \in [0 .. SIZE - 1 -> Symbols]
        /\ \A j \in 0 .. SIZE - 1 :
             Stored(data, tail, low)[j] = IF j - tail \in 0 .. Len(low) - 1
                                          THEN low[j - tail + 1] ELSE data[j]
    <3>1. tail \in 0 .. SIZE
      BY <1>0
    <3> QED
      BY <1>0, <2>4, <3>1, StoredIs
  <2> DEFINE part == Stored(data, tail, low)
  <2> HIDE DEF part
  <2>7. /\ ring \in [0 .. SIZE - 1 -> Symbols]
        /\ \A j \in 0 .. SIZE - 1 :
             ring[j] = IF j - 0 \in 0 .. Len(high) - 1 THEN high[j - 0 + 1] ELSE part[j]
    <3>1. 0 \in 0 .. SIZE /\ ring = Stored(part, 0, high)
      BY <1>0 DEF part
    <3>2. part \in [0 .. SIZE - 1 -> Symbols]
      BY <2>6 DEF part
    <3> DEFINE at == 0
    <3> HIDE DEF ring, at
    <3>3. at \in 0 .. SIZE /\ high \in Seq(Symbols)
      BY <2>5, <3>1 DEF at
    <3>4. /\ Stored(part, at, high) \in [0 .. SIZE - 1 -> Symbols]
          /\ \A j \in 0 .. SIZE - 1 :
               Stored(part, at, high)[j] = IF j - at \in 0 .. Len(high) - 1
                                           THEN high[j - at + 1] ELSE part[j]
      BY <3>2, <3>3, StoredIs, Zenon
    <3> QED
      BY <3>1, <3>4, Zenon DEF at
  <2> HIDE DEF ring
  <2>8. tail' = Place(tail, k)
    BY <1>0, <1>2, <1>3, <2>1, <2>2, <2>3
  <2>9. data' \in [0 .. SIZE - 1 -> Symbols]
    BY <1>0, <2>3, <2>7
  <2>10. ASSUME NEW j \in 0 .. SIZE - 1
         PROVE  data'[j] = IF j = tail' THEN NUL
                           ELSE IF Dist(tail, j) < k THEN bytes[Dist(tail, j) + 1] ELSE data[j]
    <3>1. data'[j] = IF j = tail' THEN NUL ELSE ring[j]
      BY <2>3, <2>7
    <3>0. /\ Dist(tail, j) = IF j >= tail THEN j - tail ELSE j - tail + SIZE
          /\ rest \in 0 .. SIZE - 1 /\ rest = k - first /\ first = SIZE - tail
          /\ Len(high) = rest /\ Len(low) = first /\ first \in 1 .. k
          /\ rest <= tail
      <4>1. Dist(tail, j) = IF j >= tail THEN j - tail ELSE j - tail + SIZE
        BY <1>1
      <4>2. Len(high) = rest /\ Len(low) = first
        BY <2>4, <2>5
      <4>3. /\ rest \in 0 .. SIZE - 1 /\ rest = k - first /\ first = SIZE - tail
            /\ first \in 1 .. k /\ rest <= tail
        BY <1>0, <2>1, <2>2
      <4> QED
        BY <4>1, <4>2, <4>3
    <3>2. CASE j < rest
      <4>1. /\ j - 0 \in 0 .. Len(high) - 1 /\ j - 0 + 1 = j + 1 /\ j + 1 \in 1 .. rest
            /\ first + (j + 1) = Dist(tail, j) + 1 /\ Dist(tail, j) < k
        BY <1>0, <3>0, <3>2
      <4> QED
        BY <2>5, <2>7, <3>1, <4>1
    <3>3. CASE j >= rest /\ j < tail
      <4>1. j - 0 \notin 0 .. Len(high) - 1 /\ j - tail \notin 0 .. Len(low) - 1
            /\ ~(Dist(tail, j) < k)
        BY <1>0, <3>0, <3>3
      <4> QED
        BY <2>6, <2>7, <3>1, <4>1 DEF part
    <3>4. CASE j >= tail
      <4>1. /\ j - 0 \notin 0 .. Len(high) - 1 /\ j - tail \in 0 .. Len(low) - 1
            /\ j - tail + 1 \in 1 .. first /\ Dist(tail, j) < k /\ Dist(tail, j) = j - tail
        BY <1>0, <3>0, <3>4
      <4> QED
        BY <2>4, <2>6, <2>7, <3>1, <4>1 DEF part
    <3> QED
      BY <1>0, <2>1, <2>2, <3>2, <3>3, <3>4
  <2> QED
    BY <2>8, <2>9, <2>10 DEF k
<1>4. CASE ~(tail + k >= SIZE)
  <2> DEFINE ring == Stored(data, tail, bytes)
  <2>1. data' = [ring EXCEPT ![tail + k] = NUL] /\ tail' = tail + k
    <3>1. ~(tail + Len(bytes) >= SIZE)
      BY <1>4 DEF k
    <3> QED
      BY <3>1 DEF net4g_uart_recv_cb, PlainBurst, Terminated, k
  <2>2. /\ ring \in [0 .. SIZE - 1 -> Symbols]
        /\ \A j \in 0 .. SIZE - 1 :
             ring[j] = IF j - tail \in 0 .. k - 1 THEN bytes[j - tail + 1] ELSE data[j]
    <3>1. tail \in 0 .. SIZE
      BY <1>0
    <3> QED
      BY <1>0, <3>1, StoredIs DEF k
  <2> HIDE DEF ring
  <2>3. tail' = Place(tail, k)
    BY <1>0, <1>2, <1>4, <2>1
  <2>4. data' \in [0 .. SIZE - 1 -> Symbols]
    BY <1>0, <2>1, <2>2
  <2>5. ASSUME NEW j \in 0 .. SIZE - 1
        PROVE  data'[j] = IF j = tail' THEN NUL
                          ELSE IF Dist(tail, j) < k THEN bytes[Dist(tail, j) + 1] ELSE data[j]
    <3>1. data'[j] = IF j = tail' THEN NUL ELSE ring[j]
      BY <2>1, <2>2
    <3>2. j - tail \in 0 .. k - 1 <=> Dist(tail, j) < k
      BY <1>0, <1>1, <1>4
    <3>3. Dist(tail, j) < k => Dist(tail, j) = j - tail
      BY <1>0, <1>1, <1>4
    <3> QED
      BY <2>2, <3>1, <3>2, <3>3
  <2> QED
    BY <2>3, <2>4, <2>5 DEF k
<1> QED
  BY <1>3, <1>4

\* The bytes of a burst and those that stay on the wire.
LEMMA WirePieces ==
  ASSUME RingTypes, NEW n \in 1 .. Len(wire)
  PROVE  LET bytes == SubSeq(wire, 1, n)
             rest  == SubSeq(wire, n + 1, Len(wire))
         IN /\ bytes \in Seq(Symbols) /\ Len(bytes) = n /\ rest \in Seq(Symbols)
            /\ bytes \o rest = wire
<1> DEFINE bytes == SubSeq(wire, 1, n)
           rest  == SubSeq(wire, n + 1, Len(wire))
<1>0. wire \in Seq(Symbols) /\ Len(wire) \in Nat /\ n \in Nat \ {0} /\ n <= Len(wire)
  BY LenProperties DEF RingTypes
<1>1. bytes \in Seq(Symbols) /\ Len(bytes) = n
  <2>1. \A i \in 1 .. n : wire[i] \in Symbols
    BY <1>0, ElementOfSeq
  <2>2. bytes \in Seq(Symbols) /\ Len(bytes) = IF 1 <= n THEN n - 1 + 1 ELSE 0
    <3>1. 1 \in Int /\ n \in Int
      BY <1>0
    <3> QED
      BY <2>1, <3>1, SubSeqProperties
  <2> HIDE DEF bytes
  <2> QED
    BY <1>0, <2>2
<1>2. rest \in Seq(Symbols)
  <2>1. n \in 0 .. Len(wire)
    BY <1>0
  <2> QED
    BY <1>0, <2>1, RestIs, Zenon
<1>3. bytes \o rest = SubSeq(wire, 1, Len(wire))
  <2>1. /\ 1 \in 1 .. Len(wire) + 1 /\ n \in 1 - 1 .. Len(wire) /\ Len(wire) \in n .. Len(wire)
    BY <1>0
  <2> QED
    BY <1>0, <2>1, ConcatAdjacentSubSeq
<1> QED
  BY <1>0, <1>1, <1>2, <1>3, SubSeqFull

\* A burst goes behind the unread bytes and touches none of them.
LEMMA BurstStep ==
  ASSUME RingInv, Burst, ~overrun'
  PROVE  RingInv'
<1>1. PICK n \in 1 .. MaxBurst :
        /\ n <= Len(wire)
        /\ net4g_uart_recv_cb(SubSeq(wire, 1, n))
        /\ wire' = SubSeq(wire, n + 1, Len(wire))
        /\ overrun' = (overrun \/ n >= WIDTH \/ Len(unread) + n >= Room)
        /\ UNCHANGED <<head, cmd_get_step, cmdTail_index, headFail>>
  BY DEF Burst
<1> DEFINE bytes == SubSeq(wire, 1, n)
           used  == Len(unread)
<1>0. /\ SIZE \in Nat /\ SIZE > 5 /\ n \in Nat \ {0} /\ used \in Nat /\ used + n < SIZE - 2
      /\ n < WIDTH /\ WIDTH \in Nat
      /\ head \in 0 .. SIZE + 1 /\ tail \in 0 .. SIZE - 1 /\ tail \in 0 .. SIZE + 1
      /\ used = Dist(head, tail) /\ Len(wire) \in Nat /\ n <= Len(wire)
      /\ unread \in Seq(Symbols) /\ wire \in Seq(Symbols)
  <2>1. Len(unread) \in Nat /\ Len(wire) \in Nat
    BY LenProperties DEF RingInv, RingTypes
  <2>2. n \in Nat \ {0}
    BY Sizes
  <2>3. ~(n >= WIDTH) /\ ~(Len(unread) + n >= Room)
    BY <1>1
  <2> QED
    BY <1>1, <2>1, <2>2, <2>3, Sizes DEF RingInv, RingTypes, HoldsUnread, Room
<1>2. /\ bytes \in Seq(Symbols) /\ Len(bytes) = n
      /\ SubSeq(wire, n + 1, Len(wire)) \in Seq(Symbols)
      /\ bytes \o SubSeq(wire, n + 1, Len(wire)) = wire
  <2>1. RingTypes /\ n \in 1 .. Len(wire)
    BY <1>0 DEF RingInv
  <2> QED
    BY <2>1, WirePieces, Zenon
<1> HIDE DEF bytes
<1>3. /\ wire' = SubSeq(wire, n + 1, Len(wire)) /\ wire' \in Seq(Symbols)
      /\ bytes \o wire' = wire
  BY <1>1, <1>2
<1>4. /\ unread' = unread \o bytes /\ unread' \in Seq(Symbols) /\ Len(unread') = used + n
      /\ \A i \in 1 .. used + n :
           unread'[i] = IF i <= used THEN unread[i] ELSE bytes[i - used]
  <2>1. unread' = unread \o bytes
    BY <1>1 DEF net4g_uart_recv_cb, bytes
  <2>2. unread \in Seq(Symbols) /\ bytes \in Seq(Symbols) /\ Len(bytes) = n /\ Len(unread) = used
    BY <1>0, <1>2
  <2> HIDE DEF used
  <2> QED
    BY <2>1, <2>2, ConcatProperties
<1>5. /\ tail' = Place(tail, n)
      /\ data' \in [0 .. SIZE - 1 -> Symbols]
      /\ \A j \in 0 .. SIZE - 1 :
           data'[j] = IF j = tail' THEN NUL
                      ELSE IF Dist(tail, j) < n THEN bytes[Dist(tail, j) + 1]
                      ELSE data[j]
  <2>1. RingTypes /\ Len(bytes) \in 1 .. WIDTH - 1 /\ Len(bytes) < SIZE - 1
        /\ net4g_uart_recv_cb(bytes)
    BY <1>0, <1>1, <1>2 DEF RingInv, bytes
  <2> QED
    BY <1>2, <2>1, BurstRing
<1>6. tail' \in 0 .. SIZE - 1 /\ (tail' = tail + n \/ tail' = (tail + n) - SIZE)
  <2>1. n \in 0 .. SIZE - 2
    BY <1>0
  <2>2. /\ Place(tail, n) \in 0 .. SIZE - 1
        /\ Place(tail, n) = tail + n \/ Place(tail, n) = tail + n - SIZE
    BY <1>0, <2>1, PlaceIs, Zenon
  <2>3. tail + n - SIZE = (tail + n) - SIZE
    BY <1>0
  <2>4. tail' = Place(tail, n)
    BY <1>5
  <2> QED
    BY <2>2, <2>3, <2>4, Zenon
<1>7. \/ used = tail - head \/ used = tail - head - SIZE
      \/ used = tail - head + SIZE \/ used = tail - head + 2 * SIZE
  BY <1>0, DistIs, Zenon
<1>8. Dist(head, tail') = used + n
  <2>1. tail' \in 0 .. SIZE + 1
    BY <1>0, <1>6
  <2>2. /\ Dist(head, tail') \in 0 .. SIZE - 1
        /\ \/ Dist(head, tail') = tail' - head \/ Dist(head, tail') = tail' - head - SIZE
           \/ Dist(head, tail') = tail' - head + SIZE
           \/ Dist(head, tail') = tail' - head + 2 * SIZE
    BY <1>0, <2>1, DistIs, Zenon
  <2> DEFINE ahead == Dist(head, tail')
             to    == tail'
  <2>3. /\ SIZE \in Nat /\ SIZE > 5 /\ n \in Nat \ {0} /\ used \in Nat /\ used + n < SIZE - 2
        /\ head \in 0 .. SIZE + 1 /\ tail \in 0 .. SIZE - 1
        /\ to \in 0 .. SIZE - 1 /\ ahead \in 0 .. SIZE - 1
    BY <1>0, <1>6, <2>2
  <2>4. \/ ahead = to - head \/ ahead = to - head - SIZE
        \/ ahead = to - head + SIZE \/ ahead = to - head + 2 * SIZE
    BY <2>2
  <2>5. to = tail + n \/ to = (tail + n) - SIZE
    BY <1>6
  <2> HIDE DEF ahead, to, used
  <2>6. ahead = used + n
    BY <1>7, <2>3, <2>4, <2>5
  <2> QED
    BY <2>6 DEF ahead, used
\* The i-th unread byte lies before the burst, or in it.
<1>9. ASSUME NEW i \in 1 .. used + n
      PROVE  /\ Place(head, i - 1) \in 0 .. SIZE - 1 /\ Place(head, i - 1) # tail'
             /\ i <= used => Dist(tail, Place(head, i - 1)) >= n
             /\ ~(i <= used) => Dist(tail, Place(head, i - 1)) = i - used - 1
  <2> DEFINE j == i - 1
             p == Place(head, j)
  <2> HIDE DEF used
  <2>1. j \in 0 .. SIZE - 2 /\ i = j + 1
    BY <1>0
  <2> HIDE DEF j
  <2>2. p \in 0 .. SIZE - 1 /\ (p = head + j \/ p = head + j - SIZE)
    BY <1>0, <2>1, PlaceIs, Zenon
  <2> HIDE DEF p
  <2>3. p \in 0 .. SIZE + 1
    BY <1>0, <2>2
  <2>4. /\ Dist(tail, p) \in 0 .. SIZE - 1
        /\ \/ Dist(tail, p) = p - tail \/ Dist(tail, p) = p - tail - SIZE
           \/ Dist(tail, p) = p - tail + SIZE \/ Dist(tail, p) = p - tail + 2 * SIZE
    BY <1>0, <2>3, DistIs, Zenon
  <2> DEFINE ahead == Dist(tail, p)
  <2> HIDE DEF ahead
  <2>0. /\ SIZE \in Nat /\ SIZE > 5 /\ n \in Nat \ {0} /\ used \in Nat /\ used + n < SIZE - 2
        /\ head \in 0 .. SIZE + 1 /\ tail \in 0 .. SIZE - 1
        /\ i \in 1 .. used + n /\ j = i - 1 /\ p \in 0 .. SIZE - 1 /\ ahead \in 0 .. SIZE - 1
    BY <1>0, <2>1, <2>2, <2>4 DEF ahead
  \* Going round the ring, the place is j - used further than tail, or a ring less.
  <2>8. \/ p = (tail + j) - used \/ p = (tail + j) - used - SIZE
        \/ p = (tail + j) - used + SIZE
    BY <1>7, <2>0, <2>2
  <2>9. \/ ahead = p - tail \/ ahead = p - tail - SIZE
        \/ ahead = p - tail + SIZE \/ ahead = p - tail + 2 * SIZE
    BY <2>4 DEF ahead
  <2>5. i <= used => Dist(tail, p) >= n
    BY <2>0, <2>8, <2>9 DEF ahead
  <2>6. ~(i <= used) => Dist(tail, p) = i - used - 1
    BY <2>0, <2>8, <2>9 DEF ahead
  <2>7. p # tail'
    BY <1>6, <2>0, <2>8
  <2> QED
    BY <2>2, <2>5, <2>6, <2>7 DEF p, j
<1>10. ASSUME NEW i \in 1 .. used + n PROVE unread'[i] = data'[Place(head, i - 1)]
  <2> DEFINE p == Place(head, i - 1)
  <2>1. p \in 0 .. SIZE - 1 /\ p # tail'
    BY <1>9
  <2>2. CASE i <= used
    <3>1. i \in 1 .. Len(unread)
      BY <1>0, <2>2
    <3>2. unread'[i] = unread[i]
      BY <1>4, <2>2
    <3>3. unread[i] = data[p]
      BY <3>1 DEF RingInv, HoldsUnread
    <3>4. Dist(tail, p) >= n
      BY <1>9, <2>2
    <3>5. Dist(tail, p) \in Int
      <4> HIDE DEF p
      <4>1. p \in 0 .. SIZE + 1
        BY <1>0, <2>1
      <4> QED
        BY <1>0, <4>1, DistIs
    <3> HIDE DEF p
    <3>6. data'[p] = data[p]
      BY <1>0, <1>5, <2>1, <3>4, <3>5
    <3> QED
      BY <3>2, <3>3, <3>6 DEF p
  <2>3. CASE ~(i <= used)
    <3>1. Dist(tail, p) = i - used - 1
      BY <1>9, <2>3
    <3> HIDE DEF p, used
    <3>2. Dist(tail, p) < n /\ Dist(tail, p) + 1 = i - used
      BY <1>0, <3>1
    <3>3. data'[p] = bytes[i - used]
      BY <1>5, <2>1, <3>2
    <3> QED
      BY <1>4, <2>3, <3>3 DEF p
  <2> QED
    BY <2>2, <2>3
<1>11. RingTypes'
  BY <1>0, <1>1, <1>3, <1>4, <1>5, <1>6 DEF RingInv, RingTypes
<1>12. HoldsUnread'
  BY <1>0, <1>1, <1>4, <1>8, <1>10 DEF HoldsUnread
<1>13. Stopped'
  BY <1>5, <1>6 DEF Stopped
<1>14. PastEnd'
  <2> SUFFICES ASSUME head = SIZE + 1 PROVE data'[0] = End[2]
    BY <1>1 DEF PastEnd
  <2>1. 0 \in 0 .. SIZE - 1 /\ 0 \in 0 .. SIZE + 1
    BY <1>0
  <2>2. tail >= 1 /\ tail + n < SIZE
    <3> HIDE DEF used
    <3> QED
      BY <1>0, <1>7
  <2>3. 0 # tail'
    BY <1>0, <1>6, <2>2
  <2>4. /\ Dist(tail, 0) \in 0 .. SIZE - 1
        /\ \/ Dist(tail, 0) = 0 - tail \/ Dist(tail, 0) = 0 - tail - SIZE
           \/ Dist(tail, 0) = 0 - tail + SIZE \/ Dist(tail, 0) = 0 - tail + 2 * SIZE
    <3> DEFINE z == 0
    <3>1. z \in 0 .. SIZE + 1
      BY <2>1
    <3> HIDE DEF z
    <3>2. /\ Dist(tail, z) \in 0 .. SIZE - 1
          /\ \/ Dist(tail, z) = z - tail \/ Dist(tail, z) = z - tail - SIZE
             \/ Dist(tail, z) = z - tail + SIZE \/ Dist(tail, z) = z - tail + 2 * SIZE
      BY <1>0, <3>1, DistIs, Zenon
    <3> QED
      BY <3>2 DEF z
  <2>5. ~(Dist(tail, 0) < n)
    BY <1>0, <2>2, <2>4
  <2>6. data'[0] = data[0]
    BY <1>5, <2>1, <2>3, <2>5, Zenon
  <2> QED
    BY <2>6 DEF RingInv, PastEnd
<1>16. CutInv'
  <2> SUFFICES ASSUME cmd_get_step = 3
               PROVE  /\ ~headFail /\ cmdTail_index \in 0 .. SIZE + 1
                      /\ Dist(head, cmdTail_index) \in 2 .. Len(unread')
                      /\ unread'[Dist(head, cmdTail_index)] = End[2]
    BY <1>1 DEF CutInv
  <2> DEFINE d == Dist(head, cmdTail_index)
  <2>1. /\ ~headFail /\ cmdTail_index \in 0 .. SIZE + 1
        /\ d \in 2 .. used /\ unread[d] = End[2]
    BY DEF RingInv, CutInv
  <2> HIDE DEF d, used
  <2>2. d \in 1 .. used + n /\ d <= used /\ d \in 2 .. Len(unread')
    BY <1>0, <1>4, <2>1
  <2>3. unread'[d] = unread[d]
    BY <1>4, <2>2
  <2> QED
    BY <2>1, <2>2, <2>3 DEF d
<1> QED
  BY <1>11, <1>12, <1>13, <1>14, <1>16 DEF RingInv

-----------------------------------------------------------------------------
(* The other steps. *)

LEMMA InitRing ==
  ASSUME Init
  PROVE  RingInv
<1>0. /\ SIZE \in Nat /\ SIZE > 5 /\ tail = head /\ head \in 0 .. SIZE - 1
      /\ head \in 0 .. SIZE + 1 /\ unread = <<>> /\ wire = <<>>
  BY Sizes DEF Init
<1>1. /\ <<>> \in Seq(Symbols) /\ Len(<<>>) = 0 /\ <<>> \o <<>> = <<>>
  BY EmptySeq, ConcatEmptySeq
<1>2. data = [i \in 0 .. SIZE - 1 |-> NUL] /\ NUL \in Symbols
  BY FirstBytes DEF Init
<1>3. RingTypes
  BY <1>0, <1>1, <1>2 DEF RingTypes, Init
<1>4. Dist(head, tail) = 0
  <2>1. /\ Dist(head, head) \in 0 .. SIZE - 1
        /\ \/ Dist(head, head) = head - head \/ Dist(head, head) = head - head - SIZE
           \/ Dist(head, head) = head - head + SIZE
           \/ Dist(head, head) = head - head + 2 * SIZE
    BY <1>0, DistIs, Zenon
  <2> QED
    BY <1>0, <2>1
<1>5. HoldsUnread
  <2>1. Len(unread) = 0 /\ 1 .. Len(unread) = {}
    BY <1>0, <1>1
  <2> QED
    BY <1>0, <1>4, <2>1 DEF HoldsUnread
<1>6. Stopped /\ PastEnd
  BY <1>0, <1>2 DEF Stopped, PastEnd
<1>8. CutInv
  BY DEF CutInv, Init
<1> QED
  BY <1>3, <1>5, <1>6, <1>8 DEF RingInv

LEMMA StutterStep ==
  ASSUME RingInv,
         UNCHANGED <<fifo, modem, cmdTail_index, unread>>, cmd_get_step' # 3
  PROVE  RingInv'
<1>1. data' = data /\ head' = head /\ tail' = tail /\ unread' = unread /\ wire' = wire
      /\ cmdTail_index' = cmdTail_index
  BY DEF fifo, modem
<1>2. RingTypes' /\ HoldsUnread'
  BY <1>1 DEF RingInv, RingTypes, HoldsUnread
<1>3. Stopped' /\ PastEnd'
  BY <1>1 DEF RingInv, Stopped, PastEnd
<1>4. CutInv'
  BY <1>1 DEF RingInv, CutInv
<1> QED
  BY <1>2, <1>3, <1>4 DEF RingInv

\* Passing over what lies before a place among the unread bytes keeps the invariant.
LEMMA PassStep ==
  ASSUME RingInv, NEW to \in 0 .. SIZE + 1, Dist(head, to) <= Len(unread),
         to = SIZE + 1 => data[0] = End[2],
         head' = to, unread' = Passed(head, to), UNCHANGED <<data, tail, modem>>,
         cmd_get_step' # 3
  PROVE  RingInv'
<1>1. data' = data /\ tail' = tail /\ wire' = wire
  BY DEF modem
<1> DEFINE rest == Passed(head, to)
<1>2. /\ rest \in Seq(Symbols)
      /\ Len(rest) = Dist(to, tail) /\ Len(rest) < SIZE - 2
      /\ \A i \in 1 .. Len(rest) : rest[i] = data[Place(to, i - 1)]
  <2>1. RingTypes /\ HoldsUnread
    BY DEF RingInv
  <2> QED
    BY <2>1, Passing, Zenon
<1>3. unread' = rest
  OBVIOUS
<1> HIDE DEF rest
<1>4. RingTypes'
  BY <1>1, <1>2, <1>3 DEF RingInv, RingTypes
<1>5. HoldsUnread'
  BY <1>1, <1>2, <1>3 DEF HoldsUnread
<1>6. Stopped' /\ PastEnd'
  BY <1>1 DEF RingInv, Stopped, PastEnd
<1>8. CutInv'
  BY DEF CutInv
<1> QED
  BY <1>4, <1>5, <1>6, <1>8 DEF RingInv

LEMMA HeadStep ==
  ASSUME RingInv, GetHead, ~confused'
  PROVE  RingInv'
<1>1. CASE Found(Header) /\ head' = Index(Header) /\ unread' = Passed(head, Index(Header))
           /\ cmd_get_step' = 2
  <2>1. PICK d \in Offsets(Header) : Index(Header) = Place(head, d)
    <3>1. ~Ambiguous(Header)
      BY DEF GetHead
    <3> QED
      BY <1>1, <3>1, Finds DEF FindsFirst
  <2>2. /\ Len(unread) \in Nat /\ SIZE \in Nat /\ Len(Header) \in Nat
        /\ d \in 0 .. Len(unread) - Len(Header) /\ Place(head, d) \in 0 .. SIZE - 1
        /\ Dist(head, Place(head, d)) = d
    BY LenProperties, Sizes, OffsetPlace DEF RingInv, RingTypes
  <2> DEFINE to == Index(Header)
  <2>3. to \in 0 .. SIZE + 1 /\ to # SIZE + 1 /\ Dist(head, to) <= Len(unread)
    BY <2>1, <2>2
  <2>4. head' = to /\ unread' = Passed(head, to) /\ cmd_get_step' # 3
    BY <1>1
  <2>5. UNCHANGED <<data, tail, modem>>
    BY DEF GetHead
  <2> HIDE DEF to
  <2> QED
    BY <2>3, <2>4, <2>5, PassStep
<1>2. CASE cmd_get_step' = 0 /\ UNCHANGED <<cmdHead_index, head, unread>>
  <2>1. UNCHANGED <<fifo, modem, cmdTail_index, unread>> /\ cmd_get_step' # 3
    BY <1>2 DEF GetHead, fifo
  <2> QED
    BY <2>1, StutterStep
<1> QED
  BY <1>1, <1>2 DEF GetHead

LEMMA TailStep ==
  ASSUME RingInv, GetTail, ~confused'
  PROVE  RingInv'
<1>1. CASE Found(End) /\ cmdTail_index' = Index(End) + Len(End) /\ cmd_get_step' = 3
  <2>0. /\ SIZE \in Nat /\ SIZE > 5 /\ Len(unread) \in Nat /\ Len(unread) < SIZE - 2
        /\ head \in 0 .. SIZE + 1 /\ Len(End) = 2
    BY LenProperties, Sizes DEF RingInv, RingTypes, HoldsUnread
  <2>1. PICK d \in Offsets(End) : Index(End) = Place(head, d)
    <3>1. ~Ambiguous(End)
      BY DEF GetTail
    <3> QED
      BY <1>1, <3>1, Finds DEF FindsFirst
  <2>2. /\ d \in 0 .. Len(unread) - 2 /\ unread[d + 2] = End[2]
    BY <2>0 DEF Offsets
  <2> DEFINE to == Place(head, d) + 2
  <2>3. cmdTail_index' = to
    BY <1>1, <2>0, <2>1
  <2>4. to \in 0 .. SIZE + 1
    <3>1. d \in 0 .. SIZE - 2
      BY <2>0, <2>2
    <3>2. Place(head, d) \in 0 .. SIZE - 1
      BY <2>0, <3>1, PlaceIs, Zenon
    <3> QED
      BY <2>0, <3>2
  <2>6. Dist(head, to) = d + 2
    <3>1. d \in 0 .. SIZE - 5
      BY <2>0, <2>2
    <3> QED
      BY <2>0, <3>1, DistBehind
  <2> HIDE DEF to
  <2>7. /\ data' = data /\ head' = head /\ tail' = tail /\ unread' = unread /\ wire' = wire
       
    BY DEF GetTail, fifo, modem
  <2>8. RingTypes' /\ HoldsUnread'
    BY <2>7 DEF RingInv, RingTypes, HoldsUnread
  <2>9. Stopped' /\ PastEnd'
    BY <2>7 DEF RingInv, Stopped, PastEnd
  <2>10. CutInv'
    <3>1. d + 2 \in 2 .. Len(unread)
      BY <2>0, <2>2
    <3> QED
      BY <2>2, <2>3, <2>4, <2>6, <2>7, <3>1 DEF CutInv, GetTail
  <2> QED
    BY <2>8, <2>9, <2>10 DEF RingInv
<1>2. CASE cmd_get_step' = 0 /\ UNCHANGED cmdTail_index
  <2>1. UNCHANGED <<fifo, modem, cmdTail_index, unread>> /\ cmd_get_step' # 3
    BY <1>2 DEF GetTail
  <2> QED
    BY <2>1, StutterStep
<1> QED
  BY <1>1, <1>2 DEF GetTail

\* The command has been cut out: head goes behind its tail, past the end of the ring
\* where the tail was split there.
LEMMA CmdStep ==
  ASSUME RingInv, GetCmd
  PROVE  RingInv'
<1> DEFINE to == cmdTail_index
           d  == Dist(head, to)
<1>0. /\ SIZE \in Nat /\ SIZE > 5 /\ Len(unread) \in Nat /\ Len(unread) < SIZE - 2
      /\ head \in 0 .. SIZE + 1
  BY LenProperties, Sizes DEF RingInv, RingTypes, HoldsUnread
<1>1. to \in 0 .. SIZE + 1 /\ d \in 2 .. Len(unread) /\ unread[d] = End[2]
  BY DEF RingInv, CutInv, GetCmd
<1>2. d <= Len(unread)
  BY <1>0, <1>1
<1>3. ASSUME to = SIZE + 1 PROVE data[0] = End[2]
  <2>1. unread[d] = data[Place(head, d - 1)]
    <3>1. d \in 1 .. Len(unread)
      BY <1>0, <1>1
    <3> QED
      BY <3>1, Zenon DEF RingInv, HoldsUnread
  <2> DEFINE j == d - 1
             p == Place(head, j)
  <2>2. \/ d = to - head \/ d = to - head - SIZE
        \/ d = to - head + SIZE \/ d = to - head + 2 * SIZE
    BY <1>0, <1>1, DistIs, Zenon
  <2> HIDE DEF d
  <2>3. j \in 0 .. SIZE - 2 /\ d = j + 1
    BY <1>0, <1>1
  <2> HIDE DEF j
  <2>4. p \in 0 .. SIZE - 1 /\ (p = head + j \/ p = head + j - SIZE)
    BY <1>0, <2>3, PlaceIs, Zenon
  <2> HIDE DEF p
  <2>5. p = 0
    BY <1>0, <1>3, <2>2, <2>3, <2>4
  <2> QED
    BY <1>1, <2>1, <2>5 DEF p, j
<1>4. head' = to /\ unread' = Passed(head, to) /\ cmd_get_step' # 3
      /\ UNCHANGED <<data, tail, modem>>
  BY DEF GetCmd
<1> HIDE DEF to
<1> QED
  BY <1>1, <1>2, <1>3, <1>4, PassStep DEF d

LEMMA StartStep ==
  ASSUME RingInv, GetStart
  PROVE  RingInv'
<1>2. /\ data' = data /\ head' = head /\ tail' = tail /\ unread' = unread /\ wire' = wire
      /\ cmd_get_step' # 3
  BY DEF GetStart, fifo, modem
<1>3. RingTypes' /\ HoldsUnread'
  BY <1>2 DEF RingInv, RingTypes, HoldsUnread
<1>4. Stopped' /\ PastEnd'
  BY <1>2 DEF RingInv, Stopped, PastEnd
<1>5. CutInv'
  BY <1>2 DEF CutInv
<1> QED
  BY <1>3, <1>4, <1>5 DEF RingInv

\* After all unread bytes are dropped nothing is unread.
LEMMA DropStep ==
  ASSUME RingInv, DropUnread
  PROVE  RingInv'
<1>0. /\ SIZE \in Nat /\ SIZE > 5 /\ Len(unread) \in Nat /\ Len(unread) < SIZE - 2
      /\ head \in 0 .. SIZE + 1 /\ tail \in 0 .. SIZE - 1 /\ tail \in 0 .. SIZE + 1
      /\ Len(unread) = Dist(head, tail)
  BY LenProperties, Sizes DEF RingInv, RingTypes, HoldsUnread
<1>1. unread' = Passed(head, tail)
  <2>1. Passed(head, tail) = SubSeq(unread, Len(unread) + 1, Len(unread))
    BY <1>0 DEF Passed, Dist
  <2>2. SubSeq(unread, Len(unread) + 1, Len(unread)) = <<>>
    <3>1. /\ Len(unread) + 1 \in Int /\ Len(unread) \in Int
          /\ Len(unread) < Len(unread) + 1
      BY <1>0
    <3> QED
      BY <3>1, SubSeqEmpty
  <2> QED
    BY <2>1, <2>2 DEF DropUnread
<1>2. cmd_get_step' # 3
  BY DEF RingInv, CutInv, DropUnread
<1>3. head' = tail /\ UNCHANGED <<data, tail, modem>> /\ tail # SIZE + 1
      /\ Dist(head, tail) <= Len(unread)
  BY <1>0 DEF DropUnread
<1> QED
  BY <1>0, <1>1, <1>2, <1>3, PassStep

LEMMA LineStep ==
  ASSUME RingInv, StartLine
  PROVE  RingInv'
<1>1. /\ data' = data /\ head' = head /\ tail' = tail /\ unread' = unread
      /\ cmd_get_step' = cmd_get_step /\ cmdTail_index' = cmdTail_index
      /\ headFail' = headFail
  BY DEF StartLine, fifo
<1>2. wire' \in Seq(Symbols)
  BY Sizes DEF StartLine
<1>3. RingTypes' /\ HoldsUnread'
  BY <1>1, <1>2 DEF RingInv, RingTypes, HoldsUnread
<1>4. Stopped' /\ PastEnd' /\ CutInv'
  BY <1>1 DEF RingInv, Stopped, PastEnd, CutInv
<1> QED
  BY <1>3, <1>4 DEF RingInv

-----------------------------------------------------------------------------
(* What the ring holds and what a search finds. *)

\* Once a search has been confused or the ring overrun, it stays so.
LEMMA Sticky ==
  ASSUME [Next]_vars
  PROVE  (overrun => overrun') /\ (confused => confused')
<1>1. CASE StartLine
  BY <1>1 DEF StartLine
<1>2. CASE Burst
  <2>1. PICK n \in 1 .. MaxBurst :
          overrun' = (overrun \/ n >= WIDTH \/ Len(unread) + n >= Room) /\ confused' = confused
    BY <1>2, Zenon DEF Burst
  <2> QED
    BY <2>1, Zenon
<1>3. CASE GetStart \/ GetCmd \/ DropUnread
  BY <1>3 DEF GetStart, GetCmd, DropUnread, modem
<1>4. CASE GetHead \/ GetTail
  <2>1. /\ \E key \in {Header, End} : confused' = (confused \/ Ambiguous(key))
        /\ overrun' = overrun
    <3>1. CASE GetHead
      BY <3>1 DEF GetHead, modem
    <3>2. CASE GetTail
      BY <3>2 DEF GetTail, modem
    <3> QED
      BY <1>4, <3>1, <3>2
  <2> QED
    BY <2>1, Zenon
<1>5. CASE UNCHANGED vars
  BY <1>5 DEF vars
<1> QED
  BY <1>1, <1>2, <1>3, <1>4, <1>5, Zenon DEF Next, get_net4G_recv_cmd, recv_cmd_from_fifo

LEMMA RingStep ==
  ASSUME RingInv, [Next]_vars, ~overrun', ~confused'
  PROVE  RingInv'
<1>1. CASE StartLine
  BY <1>1, LineStep
<1>2. CASE Burst
  BY <1>2, BurstStep
<1>3. CASE GetStart
  BY <1>3, StartStep
<1>4. CASE GetHead
  BY <1>4, HeadStep
<1>5. CASE GetTail
  BY <1>5, TailStep
<1>6. CASE GetCmd
  BY <1>6, CmdStep
<1>7. CASE DropUnread
  BY <1>7, DropStep
<1>8. CASE UNCHANGED vars
  <2>1. /\ data' = data /\ head' = head /\ tail' = tail /\ unread' = unread /\ wire' = wire
        /\ cmdTail_index' = cmdTail_index /\ cmd_get_step' = cmd_get_step
        /\ headFail' = headFail
    BY <1>8 DEF vars
  <2>2. RingTypes' /\ HoldsUnread'
    BY <2>1 DEF RingInv, RingTypes, HoldsUnread
  <2>3. Stopped' /\ PastEnd' /\ CutInv'
    BY <2>1 DEF RingInv, Stopped, PastEnd, CutInv
  <2> QED
    BY <2>2, <2>3 DEF RingInv
<1> QED
  BY <1>1, <1>2, <1>3, <1>4, <1>5, <1>6, <1>7, <1>8
  DEF Next, get_net4G_recv_cmd, recv_cmd_from_fifo

\* As long as no burst has overrun the ring and no search was confused.
LEMMA RingInvariant == Spec => [](Excused \/ RingInv)
<1>1. Init => RingInv
  BY InitRing
<1>2. (Excused \/ RingInv) /\ [Next]_vars => (Excused \/ RingInv)'
  BY RingStep, Sticky DEF Excused
<1> QED
  BY <1>1, <1>2, PTL DEF Spec

\* However long the ring and the bursts, whatever the modem sends and wherever lines fall
\* across the end of the ring, what lies between head and tail is what was received and
\* not passed over, and head goes past the end of the ring by one place at most: a
\* burst never runs into what recv_cmd_from_fifo has still to read, and where a search
\* ends is never behind tail.
THEOREM RingFaithful == Spec => []StoredFaithfully
<1>1. Excused \/ RingInv => StoredFaithfully
  <2> SUFFICES ASSUME RingInv PROVE StoredFaithfully
    BY DEF StoredFaithfully
  <2> DEFINE n == (tail - head) % SIZE
  <2>1. /\ SIZE \in Nat /\ SIZE > 5 /\ Len(End) = 2
        /\ tail \in 0 .. SIZE - 1 /\ head \in 0 .. SIZE + 1 /\ unread \in Seq(Symbols)
    BY Sizes DEF RingInv, RingTypes
  <2>2. n = Len(unread)
    BY DEF RingInv, HoldsUnread, Dist
  <2>3. unread = [i \in 1 .. Len(unread) |-> unread[i]]
    BY <2>1
  <2>4. \A i \in 1 .. Len(unread) : unread[i] = data[(head + i - 1) % SIZE]
    <3> SUFFICES ASSUME NEW i \in 1 .. Len(unread)
                 PROVE  unread[i] = data[(head + i - 1) % SIZE]
      OBVIOUS
    <3>1. unread[i] = data[(head + (i - 1)) % SIZE]
      BY DEF RingInv, HoldsUnread, Place
    <3>2. head + (i - 1) = head + i - 1
      BY <2>1, LenProperties
    <3> QED
      BY <3>1, <3>2
  <2> HIDE DEF n
  <2>5. unread = [i \in 1 .. n |-> data[(head + i - 1) % SIZE]]
    BY <2>2, <2>3, <2>4
  <2>6. head \in 0 .. SIZE + Len(End) - 1
    BY <2>1
  <2> QED
    BY <2>1, <2>5, <2>6 DEF StoredFaithfully, n
<1> QED
  BY <1>1, RingInvariant, PTL

\* In every state the task can look into the ring, for either keyword, whole or split by
\* the end of the ring, get_key_data_index returns the first place where the keyword
\* stands among the bytes received and not passed over, and nothing when it does not
\* stand there; the one exception is the case its handling of the end is not made for.
THEOREM SearchFindsFirst == Spec => []SearchRight
<1>1. Excused \/ RingInv => SearchRight
  <2> SUFFICES ASSUME RingInv, NEW key \in {Header, End}, ~Ambiguous(key)
               PROVE  LET n == FirstIn(unread, key) IN
                      /\ Found(key) <=> n # NotFound
                      /\ Found(key) => Index(key) = (head + n - 1) % SIZE
    BY DEF SearchRight
  <2> DEFINE n == FirstIn(unread, key)
  <2>1. FindsFirst(key)
    BY Finds
  <2>2. /\ n # NotFound <=> Offsets(key) # {}
        /\ \A d \in Offsets(key) : (\A c \in Offsets(key) : d <= c) => n = d + 1
    <3>1. unread \in Seq(Symbols) /\ key \in Seq(Symbols) /\ Len(key) > 0
      BY KeyFacts DEF RingInv, RingTypes
    <3> QED
      BY <3>1, FirstIs
  <2> HIDE DEF n
  <2>3. Found(key) <=> n # NotFound
    BY <2>1, <2>2 DEF FindsFirst
  <2>4. ASSUME Found(key) PROVE Index(key) = (head + n - 1) % SIZE
    <3>1. PICK d \in Offsets(key) :
                 (\A c \in Offsets(key) : d <= c) /\ Index(key) = Place(head, d)
      BY <2>1, <2>4 DEF FindsFirst
    <3>2. n = d + 1
      BY <2>2, <3>1
    <3>3. head + n - 1 = head + d
      <4>1. d \in Int /\ head \in Int
        <5>1. RingTypes /\ SIZE \in Nat /\ Len(unread) \in Nat /\ Len(key) \in Nat
          BY LenProperties, Sizes, KeyFacts DEF RingInv, RingTypes
        <5> QED
          BY <5>1 DEF Offsets, RingTypes
      <4> QED
        BY <3>2, <4>1
    <3> QED
      BY <3>1, <3>3 DEF Place
  <2> QED
    BY <2>3, <2>4 DEF n
<1> QED
  BY <1>1, RingInvariant, PTL

-----------------------------------------------------------------------------
(* What was sent: which bytes of it are unread, and which were cut out. *)

\* The unread bytes and those on the wire are the end of what was sent.
SaidInv ==
  /\ said \in Seq(Symbols) /\ Position \in Nat \ {0}
  /\ \A i \in 1 .. Len(unread) : unread[i] = said[Position - 1 + i]
  /\ \A i \in 1 .. Len(wire) : wire[i] = said[Position - 1 + Len(unread) + i]

\* While the tail is looked for, and until the command is cut out, head stands at its
\* header.
HeadInv ==
  /\ headFail => cmd_get_step = 0
  /\ cmd_get_step \in {2, 3} =>
       cmdHead_index = head /\ head \in 0 .. SIZE - 1 /\ 0 \in Offsets(Header)

\* The tail found is the first.
TailInv ==
  cmd_get_step = 3 =>
    /\ Dist(head, cmdTail_index) - 2 \in Offsets(End)
    /\ \A c \in Offsets(End) : Dist(head, cmdTail_index) - 2 <= c

Cuts == [cut : Seq(Symbols \cup {Outside}), at : Nat \ {0}]

\* What was cut out was sent, before everything unread, and in that order.
GotInv ==
  /\ got \in Seq(Cuts)
  /\ \A g \in Range(got) : WasSaid(g) /\ Len(g.cut) >= 2 /\ LastByte(g) < Position
  /\ \A i, j \in 1 .. Len(got) : i < j => LastByte(got[i]) < got[j].at

CmdInv == RingInv /\ SaidInv /\ HeadInv /\ TailInv /\ GotInv

\* How many bytes there are.
LEMMA Counts ==
  ASSUME RingTypes, SaidInv
  PROVE  /\ Len(said) \in Nat /\ Len(unread) \in Nat /\ Len(wire) \in Nat
         /\ Position \in Nat \ {0}
         /\ Len(said) = Position - 1 + Len(unread) + Len(wire)
<1>1. Len(said) \in Nat /\ Len(unread) \in Nat /\ Len(wire) \in Nat
  BY LenProperties DEF RingTypes, SaidInv
<1> QED
  BY <1>1 DEF SaidInv, Position

\* A keyword stands among the unread bytes where it stands in what was sent.
LEMMA UnreadSaid ==
  ASSUME RingTypes, SaidInv, NEW key \in {Header, End}, NEW c \in Nat,
         c + Len(key) <= Len(unread)
  PROVE  SaidAt(Position + c, key) <=> c \in Offsets(key)
<1>1. /\ Len(said) \in Nat /\ Len(unread) \in Nat /\ Len(wire) \in Nat
      /\ Position \in Nat \ {0} /\ Len(key) \in Nat \ {0}
      /\ Len(said) = Position - 1 + Len(unread) + Len(wire)
  BY Counts, KeyFacts
<1>2. ASSUME NEW m \in 1 .. Len(key) PROVE said[(Position + c) + m - 1] = unread[c + m]
  <2>1. c + m \in 1 .. Len(unread) /\ Position - 1 + (c + m) = (Position + c) + m - 1
    BY <1>1
  <2> QED
    BY <2>1 DEF SaidInv
<1>3. (Position + c) + Len(key) - 1 <= Len(said) /\ c \in 0 .. Len(unread) - Len(key)
  BY <1>1
<1> QED
  BY <1>2, <1>3 DEF SaidAt, Offsets

-----------------------------------------------------------------------------
(* What was cut out stays what was sent. *)

SaidGrows ==
  /\ said \in Seq(Symbols) /\ said' \in Seq(Symbols) /\ Len(said) <= Len(said')
  /\ \A k \in 1 .. Len(said) : said'[k] = said[k]

\* What was sent stays where it was when more is sent.
LEMMA SaidAtStays ==
  ASSUME SaidGrows, NEW n \in Nat \ {0}, NEW key \in {Header, End},
         n + Len(key) - 1 <= Len(said)
  PROVE  SaidAt(n, key)' <=> SaidAt(n, key)
<1>1. Len(said) \in Nat /\ Len(said') \in Nat /\ Len(key) \in Nat
  BY KeyFacts, LenProperties DEF SaidGrows
<1>2. \A m \in 1 .. Len(key) : said'[n + m - 1] = said[n + m - 1]
  <2> SUFFICES ASSUME NEW m \in 1 .. Len(key) PROVE said'[n + m - 1] = said[n + m - 1]
    OBVIOUS
  <2>1. n + m - 1 \in 1 .. Len(said)
    BY <1>1
  <2> QED
    BY <2>1 DEF SaidGrows
<1>3. n + Len(key) - 1 <= Len(said')
  BY <1>1 DEF SaidGrows
<1> QED
  BY <1>2, <1>3 DEF SaidAt

LEMMA WasSaidStays ==
  ASSUME SaidGrows, NEW g \in Cuts, WasSaid(g), Len(g.cut) >= 2
  PROVE  WasSaid(g)'
<1> DEFINE last == LastByte(g)
<1>0. /\ Len(said) \in Nat /\ Len(said') \in Nat /\ Len(said) <= Len(said')
      /\ g.at \in Nat \ {0} /\ Len(g.cut) \in Nat /\ Len(End) = 2 /\ Len(Header) \in Nat
      /\ last = g.at + Len(g.cut) - 1 /\ last - 1 \in Nat \ {0} /\ LastByte(g)' = last
  <2>1. Len(g.cut) \in Nat /\ g.at \in Nat \ {0}
    BY LenProperties DEF Cuts
  <2> QED
    BY <2>1, Sizes, LenProperties DEF LastByte, SaidGrows
<1>1. last <= Len(said) /\ last <= Len(said')
  <2>1. last <= Len(said)
    BY DEF WasSaid
  <2> HIDE DEF last
  <2> QED
    BY <1>0, <2>1
<1>2. \A m \in 1 .. Len(g.cut) - 1 : g.cut[m] = said'[g.at + m - 1]
  <2> SUFFICES ASSUME NEW m \in 1 .. Len(g.cut) - 1 PROVE g.cut[m] = said'[g.at + m - 1]
    OBVIOUS
  <2>1. g.at + m - 1 \in 1 .. Len(said)
    BY <1>0, <1>1
  <2>2. g.cut[m] = said[g.at + m - 1]
    BY DEF WasSaid
  <2> QED
    BY <2>1, <2>2 DEF SaidGrows
<1>3. SaidAt(g.at, Header)'
  <2>1. SaidAt(g.at, Header) /\ g.at + Len(Header) - 1 <= Len(said)
    BY DEF WasSaid, SaidAt
  <2> QED
    BY <1>0, <2>1, SaidAtStays
<1>4. SaidAt(last - 1, End) /\ \A n \in g.at .. last - 2 : ~SaidAt(n, End)
  BY DEF WasSaid
<1> HIDE DEF last
<1>5. SaidAt(last - 1, End)'
  <2>1. (last - 1) + Len(End) - 1 <= Len(said)
    BY <1>0, <1>1
  <2> DEFINE k == last - 1
  <2>2. k \in Nat \ {0} /\ SaidAt(k, End) /\ k + Len(End) - 1 <= Len(said)
    BY <1>0, <1>4, <2>1
  <2> HIDE DEF k
  <2>3. SaidAt(k, End)'
    BY <2>2, SaidAtStays
  <2> QED
    BY <2>3 DEF k
<1>6. ASSUME NEW n \in g.at .. last - 2 PROVE ~SaidAt(n, End)'
  <2>1. n \in Nat \ {0} /\ n + Len(End) - 1 <= Len(said)
    BY <1>0, <1>1
  <2> QED
    BY <1>4, <2>1, SaidAtStays
<1>7. g.at >= 1
  BY <1>0
<1> QED
  BY <1>0, <1>1, <1>2, <1>3, <1>5, <1>6, <1>7 DEF WasSaid

LEMMA GotStays ==
  ASSUME GotInv, SaidGrows, got' = got, Position \in Nat, Position' \in Nat,
         Position <= Position'
  PROVE  GotInv'
<1>1. ASSUME NEW g \in Range(got)
      PROVE  WasSaid(g)' /\ Len(g.cut) >= 2 /\ (LastByte(g) < Position)'
  <2>1. g \in Cuts /\ WasSaid(g) /\ Len(g.cut) >= 2 /\ LastByte(g) < Position
    <3>1. PICK i \in 1 .. Len(got) : g = got[i]
      BY LenProperties DEF Range, GotInv
    <3> QED
      BY <3>1, ElementOfSeq DEF GotInv
  <2>2. WasSaid(g)'
    BY <2>1, WasSaidStays
  <2>3. LastByte(g) \in Int
    BY <2>1, LenProperties DEF LastByte, Cuts
  <2>4. LastByte(g)' = LastByte(g)
    BY DEF LastByte
  <2> QED
    BY <2>1, <2>2, <2>3, <2>4
<1>2. \A g \in Range(got') : WasSaid(g)' /\ Len(g.cut) >= 2 /\ (LastByte(g) < Position)'
  BY <1>1
<1>3. /\ got' \in Seq(Cuts)
      /\ \A i, j \in 1 .. Len(got') : i < j => LastByte(got'[i]) < got'[j].at
  BY DEF GotInv
<1> QED
  BY <1>2, <1>3 DEF GotInv, LastByte

-----------------------------------------------------------------------------
(* The steps. *)

LEMMA SaidSame ==
  ASSUME RingTypes, SaidInv, UNCHANGED <<said, unread, wire>>
  PROVE  SaidInv' /\ Position' = Position /\ SaidGrows
<1>1. said' = said /\ unread' = unread /\ wire' = wire
  OBVIOUS
<1>2. Position' = Position
  BY <1>1 DEF Position
<1>3. SaidGrows
  BY <1>1, Counts DEF SaidGrows, SaidInv
<1> QED
  BY <1>1, <1>2, <1>3 DEF SaidInv

\* d unread bytes are passed over.
LEMMA SaidMoves ==
  ASSUME RingTypes, SaidInv, UNCHANGED <<said, wire>>, NEW d \in 0 .. Len(unread),
         Len(unread') = Len(unread) - d,
         \A i \in 1 .. Len(unread) - d : unread'[i] = unread[d + i]
  PROVE  SaidInv' /\ Position' = Position + d /\ SaidGrows
<1>1. /\ Len(unread') = Len(unread) - d
      /\ \A i \in 1 .. Len(unread) - d : unread'[i] = unread[d + i]
  OBVIOUS
<1>2. /\ Len(said) \in Nat /\ Len(unread) \in Nat /\ Len(wire) \in Nat
      /\ Position \in Nat \ {0} /\ said' = said /\ wire' = wire
  BY Counts
<1>3. Position' = Position + d
  <2>1. Position' = Len(said') - Len(unread') - Len(wire') + 1
    BY DEF Position
  <2>2. Position = Len(said) - Len(unread) - Len(wire) + 1
    BY DEF Position
  <2>3. Len(unread') = Len(unread) - d /\ Len(said') = Len(said) /\ Len(wire') = Len(wire)
    BY <1>1, <1>2
  <2>4. d \in Nat /\ Len(said) \in Nat /\ Len(unread) \in Nat /\ Len(wire) \in Nat
    BY <1>2
  <2> QED
    BY <2>1, <2>2, <2>3, <2>4
<1>4. ASSUME NEW i \in 1 .. Len(unread') PROVE unread'[i] = said'[Position' - 1 + i]
  <2>1. d + i \in 1 .. Len(unread) /\ Position' - 1 + i = Position - 1 + (d + i)
    BY <1>1, <1>2, <1>3
  <2>2. unread[d + i] = said[Position - 1 + (d + i)]
    BY <2>1 DEF SaidInv
  <2> QED
    BY <1>1, <1>2, <2>1, <2>2
<1>5. ASSUME NEW i \in 1 .. Len(wire')
      PROVE  wire'[i] = said'[Position' - 1 + Len(unread') + i]
  <2>1. Position' - 1 + Len(unread') + i = Position - 1 + Len(unread) + i
    <3>1. /\ Len(unread') = Len(unread) - d /\ Position' = Position + d /\ i \in Int
          /\ d \in Nat /\ Len(unread) \in Nat /\ Position \in Nat
      BY <1>1, <1>2, <1>3
    <3> QED
      BY <3>1
  <2> QED
    BY <1>2, <2>1 DEF SaidInv
<1>6. SaidGrows
  BY <1>2 DEF SaidGrows, SaidInv
<1>7. Position' \in Nat \ {0} /\ said' \in Seq(Symbols)
  BY <1>2, <1>3 DEF SaidInv
<1> QED
  BY <1>1, <1>3, <1>4, <1>5, <1>6, <1>7 DEF SaidInv

\* Steps that move nothing and cut nothing out.
LEMMA QuietCmd ==
  ASSUME CmdInv, UNCHANGED <<said, unread, wire, got>>, HeadInv', TailInv', RingInv'
  PROVE  CmdInv'
<1>1. SaidInv' /\ Position' = Position /\ SaidGrows /\ Position \in Nat
  BY SaidSame, Counts DEF CmdInv, RingInv
<1>2. GotInv'
  BY <1>1, GotStays DEF CmdInv
<1> QED
  BY <1>1, <1>2 DEF CmdInv

LEMMA StartCmd ==
  ASSUME CmdInv, GetStart
  PROVE  CmdInv'
<1>1. UNCHANGED <<said, unread, wire, got>>
  BY DEF GetStart, modem
<1>2. RingInv'
  BY StartStep DEF CmdInv
<1>3. cmd_get_step = 0 /\ ~headFail /\ ((cmd_get_step' = 1 /\ headFail' = headFail) \/ cmd_get_step' = 0)
  BY DEF GetStart
<1>4. HeadInv' /\ TailInv'
  BY <1>3 DEF HeadInv, TailInv
<1> QED
  BY <1>1, <1>2, <1>4, QuietCmd

LEMMA SaidPass ==
  ASSUME RingTypes, SaidInv, UNCHANGED <<said, wire>>, NEW d \in 0 .. Len(unread),
         unread' = SubSeq(unread, d + 1, Len(unread))
  PROVE  /\ SaidInv' /\ Position' = Position + d /\ SaidGrows
         /\ Len(unread') = Len(unread) - d
         /\ \A i \in 1 .. Len(unread) - d : unread'[i] = unread[d + i]
<1>1. /\ Len(unread') = Len(unread) - d
      /\ \A i \in 1 .. Len(unread) - d : unread'[i] = unread[d + i]
  BY RestIs DEF RingTypes
<1> QED
  BY <1>1, SaidMoves

LEMMA HeadCmd ==
  ASSUME CmdInv, GetHead, ~confused'
  PROVE  CmdInv'
<1>1. RingInv' /\ TailInv'
  <2>1. cmd_get_step' # 3
    BY DEF GetHead
  <2> QED
    BY <2>1, HeadStep DEF CmdInv, TailInv
<1>2. UNCHANGED <<said, wire, got>>
  BY DEF GetHead, modem
<1>3. CASE /\ Found(Header)
           /\ cmdHead_index' = Index(Header)
           /\ head' = Index(Header) /\ unread' = Passed(head, Index(Header))
           /\ cmd_get_step' = 2 /\ UNCHANGED headFail
  <2>1. PICK d \in Offsets(Header) : Index(Header) = Place(head, d)
    <3>1. ~Ambiguous(Header)
      BY DEF GetHead
    <3> QED
      BY <1>3, <3>1, Finds DEF FindsFirst, CmdInv
  <2>2. /\ Len(unread) \in Nat /\ SIZE \in Nat /\ Len(Header) \in Nat
        /\ d \in 0 .. Len(unread) - Len(Header) /\ Place(head, d) \in 0 .. SIZE - 1
        /\ Dist(head, Place(head, d)) = d
    BY LenProperties, Sizes, OffsetPlace DEF CmdInv, RingInv, RingTypes
  <2>3. unread' = SubSeq(unread, d + 1, Len(unread)) /\ d \in 0 .. Len(unread)
    BY <1>3, <2>1, <2>2 DEF Passed, Dist
  <2>4. /\ SaidInv' /\ Position' = Position + d /\ SaidGrows /\ Position \in Nat
        /\ Len(unread') = Len(unread) - d
        /\ \A i \in 1 .. Len(unread) - d : unread'[i] = unread[d + i]
    BY <1>2, <2>3, SaidPass, Counts DEF CmdInv, RingInv
  <2>5. GotInv'
    <3>1. Position' \in Nat /\ Position <= Position' /\ got' = got
      BY <1>2, <2>2, <2>4
    <3> QED
      BY <2>4, <3>1, GotStays DEF CmdInv
  <2>6. 0 \in Offsets(Header)'
    <3>1. ASSUME NEW m \in 1 .. Len(Header) PROVE unread'[0 + m] = Header[m]
      <4>1. m \in 1 .. Len(unread) - d /\ 0 + m = m
        BY <2>2
      <4>2. unread[d + m] = Header[m]
        BY DEF Offsets
      <4> QED
        BY <2>4, <4>1, <4>2
    <3>2. 0 \in 0 .. Len(unread') - Len(Header)
      BY <2>2, <2>4
    <3> QED
      BY <3>1, <3>2 DEF Offsets
  <2>7. HeadInv'
    <3>1. ~headFail'
      BY <1>3 DEF GetHead
    <3>2. cmdHead_index' = head' /\ head' \in 0 .. SIZE - 1
      BY <1>3, <2>1, <2>2
    <3> QED
      BY <2>6, <3>1, <3>2 DEF HeadInv
  <2> QED
    BY <1>1, <2>4, <2>5, <2>7 DEF CmdInv
<1>4. CASE cmd_get_step' = 0 /\ UNCHANGED <<cmdHead_index, head, unread>>
  <2>1. HeadInv'
    BY <1>4 DEF HeadInv
  <2> QED
    BY <1>1, <1>2, <1>4, <2>1, QuietCmd
<1> QED
  BY <1>3, <1>4 DEF GetHead

LEMMA TailCmd ==
  ASSUME CmdInv, GetTail, ~confused'
  PROVE  CmdInv'
<1>1. RingInv'
  BY TailStep DEF CmdInv
<1>2. UNCHANGED <<said, unread, wire, got>> /\ head' = head /\ cmdHead_index' = cmdHead_index
      /\ ~headFail' /\ cmd_get_step = 2 /\ unread' = unread
  BY DEF GetTail, modem, fifo
<1>3. HeadInv'
  <2>1. /\ head \in 0 .. SIZE - 1 /\ cmdHead_index = head /\ 0 \in Offsets(Header)
    BY <1>2 DEF CmdInv, HeadInv
  <2>2. Offsets(Header)' = Offsets(Header)
    BY <1>2 DEF Offsets
  <2> QED
    BY <1>2, <2>1, <2>2 DEF HeadInv
<1>4. TailInv'
  <2> SUFFICES ASSUME cmd_get_step' = 3
               PROVE  /\ Dist(head', cmdTail_index') - 2 \in Offsets(End)
                      /\ \A c \in Offsets(End) : Dist(head', cmdTail_index') - 2 <= c
    BY <1>2 DEF TailInv, Offsets
  <2>0. /\ SIZE \in Nat /\ SIZE > 5 /\ Len(unread) \in Nat /\ Len(unread) < SIZE - 2
        /\ head \in 0 .. SIZE + 1 /\ Len(End) = 2
    BY LenProperties, Sizes DEF CmdInv, RingInv, RingTypes, HoldsUnread
  <2>1. Found(End) /\ cmdTail_index' = Index(End) + Len(End) /\ ~Ambiguous(End)
    <3>1. \/ Found(End) /\ cmdTail_index' = Index(End) + Len(End)
          \/ cmd_get_step' = 0
      BY Zenon DEF GetTail
    <3>2. ~Ambiguous(End)
      BY Zenon DEF GetTail
    <3> QED
      BY <3>1, <3>2
  <2>2. PICK d \in Offsets(End) :
               (\A c \in Offsets(End) : d <= c) /\ Index(End) = Place(head, d)
    BY <2>1, Finds DEF FindsFirst, CmdInv
  <2>3. d \in 0 .. SIZE - 5
    BY <2>0 DEF Offsets
  <2>4. Dist(head, Place(head, d) + 2) = d + 2
    BY <2>0, <2>3, DistBehind
  <2>5. Dist(head', cmdTail_index') - 2 = d
    BY <1>2, <2>0, <2>1, <2>2, <2>3, <2>4
  <2> QED
    BY <2>2, <2>5
<1> QED
  BY <1>1, <1>2, <1>3, <1>4, QuietCmd

LEMMA DropCmd ==
  ASSUME CmdInv, DropUnread
  PROVE  CmdInv'
<1>1. RingInv'
  BY DropStep DEF CmdInv
<1>2. UNCHANGED <<said, wire, got>> /\ cmd_get_step' = 0 /\ headFail' = FALSE
  BY DEF DropUnread, modem, CmdInv, HeadInv
<1>3. HeadInv' /\ TailInv'
  BY <1>2 DEF HeadInv, TailInv
<1>4. Len(unread) \in 0 .. Len(unread) /\ Len(unread) \in Nat
  BY Counts DEF CmdInv, RingInv
<1>5. unread' = SubSeq(unread, Len(unread) + 1, Len(unread))
  <2>1. Len(unread) + 1 \in Int /\ Len(unread) \in Int /\ Len(unread) < Len(unread) + 1
    BY <1>4
  <2>2. SubSeq(unread, Len(unread) + 1, Len(unread)) = <<>>
    BY <2>1, SubSeqEmpty
  <2> QED
    BY <2>2 DEF DropUnread
<1>6. SaidInv' /\ Position' = Position + Len(unread) /\ SaidGrows /\ Position \in Nat
  BY <1>2, <1>4, <1>5, SaidPass, Counts DEF CmdInv, RingInv
<1>7. GotInv'
  <2>1. Position' \in Nat /\ Position <= Position' /\ got' = got
    BY <1>2, <1>4, <1>6
  <2> QED
    BY <1>6, <2>1, GotStays DEF CmdInv
<1> QED
  BY <1>1, <1>3, <1>6, <1>7 DEF CmdInv

\* What is cut out is what is unread, up to cmdTail_index; only its last byte may have
\* been read past the end of the ring.
LEMMA CutIs ==
  ASSUME RingInv, HeadInv, cmd_get_step = 3
  PROVE  /\ Cut \in Seq(Symbols \cup {Outside})
         /\ Len(Cut) = Dist(head, cmdTail_index)
         /\ \A m \in 1 .. Len(Cut) - 1 : Cut[m] = unread[m]
<1> DEFINE S  == Symbols \cup {Outside}
           to == cmdTail_index
           d  == Dist(head, to)
<1>0. /\ SIZE \in Nat /\ SIZE > 5 /\ data \in [0 .. SIZE - 1 -> Symbols]
      /\ Len(unread) \in Nat /\ Len(unread) < SIZE - 2
      /\ head \in 0 .. SIZE - 1 /\ head \in 0 .. SIZE + 1 /\ cmdHead_index = head
      /\ to \in 0 .. SIZE + 1 /\ d \in 2 .. Len(unread)
  BY LenProperties, Sizes DEF RingInv, RingTypes, HoldsUnread, CutInv, HeadInv
<1>1. \/ d = to - head \/ d = to - head - SIZE
      \/ d = to - head + SIZE \/ d = to - head + 2 * SIZE
  BY <1>0, DistIs, Zenon
<1> HIDE DEF d
<1>2. (to > head /\ d = to - head) \/ (to <= head /\ d = (to - head) + SIZE)
  BY <1>0, <1>1
<1>3. ASSUME NEW m \in 1 .. d - 1
      PROVE  /\ head + m <= SIZE => unread[m] = data[head + m - 1]
             /\ head + m > SIZE => unread[m] = data[head + m - 1 - SIZE]
  <2>1. Dist(head, head) = 0
    <3>1. /\ Dist(head, head) \in 0 .. SIZE - 1
          /\ \/ Dist(head, head) = head - head \/ Dist(head, head) = head - head - SIZE
             \/ Dist(head, head) = head - head + SIZE
             \/ Dist(head, head) = head - head + 2 * SIZE
      BY <1>0, DistIs, Zenon
    <3> QED
      BY <1>0, <3>1
  <2>2. m \in Nat \ {0} /\ Dist(head, head) + m <= Len(unread) /\ Dist(head, head) + m = m
    BY <1>0, <2>1
  <2>3. /\ head + m <= SIZE => unread[Dist(head, head) + m] = data[head + m - 1]
        /\ head + m > SIZE => unread[Dist(head, head) + m] = data[head + m - 1 - SIZE]
    BY <1>0, <2>2, UnreadAt DEF RingInv
  <2> QED
    BY <2>2, <2>3
<1>4. \A i \in Int : Byte(i) \in S
  BY <1>0 DEF Byte
<1>5. \A i \in 0 .. SIZE - 1 : Byte(i) = data[i]
  BY <1>0 DEF Byte
\* A piece of it.
<1>6. ASSUME NEW a \in Int, NEW b \in Int, a <= b
      PROVE  /\ Bytes(a, b) \in Seq(S) /\ Len(Bytes(a, b)) = b - a
             /\ \A m \in 1 .. b - a : Bytes(a, b)[m] = Byte(a + m - 1)
  <2> DEFINE k == b - a
             f == [m \in 1 .. k |-> Byte(a + m - 1)]
  <2>1. k \in Nat /\ Bytes(a, b) = f
    BY <1>6 DEF Bytes
  <2>2. \A m \in 1 .. k : Byte(a + m - 1) \in S
    <3> SUFFICES ASSUME NEW m \in 1 .. k PROVE Byte(a + m - 1) \in S
      OBVIOUS
    <3>1. a + m - 1 \in Int
      BY <2>1
    <3> HIDE DEF S
    <3> QED
      BY <1>4, <3>1
  <2> HIDE DEF k, S
  <2>3. f \in Seq(S) /\ Len(f) = k /\ \A m \in 1 .. k : f[m] = Byte(a + m - 1)
    BY <2>1, <2>2, IsASeq, LenProperties
  <2> QED
    BY <2>1, <2>3 DEF k
<1> HIDE DEF S
<1>7. CASE to > head /\ d = to - head
  <2>1. Cut = Bytes(head, to) /\ head <= to
    BY <1>0, <1>7 DEF Cut
  <2>2. /\ Cut \in Seq(S) /\ Len(Cut) = d /\ \A m \in 1 .. d : Cut[m] = Byte(head + m - 1)
    <3>1. head \in Int /\ to \in Int
      BY <1>0
    <3>2. /\ Bytes(head, to) \in Seq(S) /\ Len(Bytes(head, to)) = to - head
          /\ \A m \in 1 .. to - head : Bytes(head, to)[m] = Byte(head + m - 1)
      BY <1>6, <2>1, <3>1, Zenon
    <3> QED
      BY <1>7, <2>1, <3>2, Zenon
  <2>3. ASSUME NEW m \in 1 .. d - 1 PROVE Cut[m] = unread[m]
    <3>1. m \in 1 .. d /\ head + m <= SIZE /\ head + m - 1 \in 0 .. SIZE - 1
      BY <1>0, <1>7
    <3> QED
      BY <1>3, <1>5, <2>2, <3>1
  <2> QED
    BY <2>2, <2>3 DEF S, d
<1>8. CASE to <= head /\ d = (to - head) + SIZE
  <2> DEFINE x == Bytes(head, SIZE)
             y == Bytes(0, to)
  <2>1. Cut = x \o y
    BY <1>0, <1>8 DEF Cut
  <2>2. /\ x \in Seq(S) /\ Len(x) = SIZE - head
        /\ \A m \in 1 .. SIZE - head : x[m] = Byte(head + m - 1)
    <3>1. head \in Int /\ SIZE \in Int /\ head <= SIZE
      BY <1>0
    <3> QED
      BY <1>6, <3>1, Zenon
  <2>3. /\ y \in Seq(S) /\ Len(y) = to /\ \A m \in 1 .. to : y[m] = Byte(m - 1)
    <3>1. /\ y \in Seq(S) /\ Len(y) = to - 0 /\ \A m \in 1 .. to - 0 : y[m] = Byte(0 + m - 1)
      <4>1. 0 \in Int /\ to \in Int /\ 0 <= to
        BY <1>0
      <4> QED
        BY <1>6, <4>1, Zenon
    <3>2. to - 0 = to /\ \A m \in 1 .. to : 0 + m - 1 = m - 1
      BY <1>0
    <3> HIDE DEF y, to
    <3> QED
      BY <3>1, <3>2
  <2> HIDE DEF x, y
  <2>4. /\ x \o y \in Seq(S) /\ Len(x \o y) = Len(x) + Len(y)
        /\ \A m \in 1 .. Len(x) + Len(y) :
             (x \o y)[m] = IF m <= Len(x) THEN x[m] ELSE y[m - Len(x)]
    BY <2>2, <2>3, ConcatProperties
  <2>5. Len(Cut) = d
    BY <1>0, <1>8, <2>1, <2>2, <2>3, <2>4
  <2>6. ASSUME NEW m \in 1 .. d - 1 PROVE Cut[m] = unread[m]
    <3>1. m \in 1 .. Len(x) + Len(y)
      BY <1>0, <1>8, <2>2, <2>3
    <3>2. CASE m <= Len(x)
      <4>1. m \in 1 .. SIZE - head /\ head + m <= SIZE /\ head + m - 1 \in 0 .. SIZE - 1
        BY <1>0, <2>2, <3>2
      <4> QED
        BY <1>3, <1>5, <2>1, <2>2, <2>4, <3>1, <3>2, <4>1
    <3>3. CASE ~(m <= Len(x))
      <4> DEFINE k == m - Len(x)
                 q == k - 1
      <4>1. k \in 1 .. to /\ head + m > SIZE /\ head + m - 1 - SIZE = q /\ q \in 0 .. SIZE - 1
        BY <1>0, <1>8, <2>2, <2>3, <3>1, <3>3
      <4>2. Cut[m] = y[k]
        BY <2>1, <2>4, <3>1, <3>3
      <4>3. y[k] = Byte(q)
        BY <2>3, <4>1
      <4>4. unread[m] = data[q]
        BY <1>3, <4>1
      <4> HIDE DEF k, q
      <4> QED
        BY <1>5, <4>1, <4>2, <4>3, <4>4
    <3> QED
      BY <3>2, <3>3
  <2> QED
    BY <2>1, <2>4, <2>5, <2>6 DEF S, d
<1> QED
  BY <1>2, <1>7, <1>8

LEMMA CmdCmd ==
  ASSUME CmdInv, GetCmd
  PROVE  CmdInv'
<1> DEFINE d == Dist(head, cmdTail_index)
           g == [cut |-> Cut, at |-> Position]
<1>0. /\ Len(unread) \in Nat /\ Len(said) \in Nat /\ Len(wire) \in Nat
      /\ Position \in Nat \ {0} /\ Len(said) = Position - 1 + Len(unread) + Len(wire)
      /\ d \in 2 .. Len(unread) /\ Len(End) = 2 /\ Len(Header) \in Nat
  <2>1. cmd_get_step = 3
    BY DEF GetCmd
  <2> QED
    BY <2>1, Counts, Sizes DEF CmdInv, RingInv, CutInv
<1>1. /\ Cut \in Seq(Symbols \cup {Outside}) /\ Len(Cut) = d
      /\ \A m \in 1 .. Len(Cut) - 1 : Cut[m] = unread[m]
  BY CutIs DEF CmdInv, GetCmd
<1>2. RingInv'
  BY CmdStep DEF CmdInv
<1>3. HeadInv' /\ TailInv'
  <2>1. cmd_get_step' = 0
    BY DEF GetCmd
  <2> QED
    BY <2>1 DEF HeadInv, TailInv
<1>4. UNCHANGED <<said, wire>> /\ got' = Append(got, g)
      /\ unread' = SubSeq(unread, d + 1, Len(unread)) /\ d \in 0 .. Len(unread)
  BY <1>0 DEF GetCmd, modem, Passed, Dist
<1>5. /\ 0 \in Offsets(Header) /\ d - 2 \in Offsets(End)
      /\ \A c \in Offsets(End) : d - 2 <= c
  BY DEF CmdInv, HeadInv, TailInv, GetCmd
<1>6. g \in Cuts /\ g.cut = Cut /\ g.at = Position
  BY <1>0, <1>1 DEF Cuts
<1> HIDE DEF d
<1>7. LastByte(g) = Position + d - 1 /\ Len(g.cut) >= 2
  BY <1>0, <1>1, <1>6 DEF LastByte
<1> HIDE DEF g
<1>8. WasSaid(g)
  <2>1. \A m \in 1 .. Len(g.cut) - 1 : g.cut[m] = said[g.at + m - 1]
    <3> SUFFICES ASSUME NEW m \in 1 .. Len(Cut) - 1 PROVE Cut[m] = said[Position + m - 1]
      BY <1>6
    <3>1. m \in 1 .. Len(unread) /\ Position - 1 + m = Position + m - 1
      BY <1>0, <1>1
    <3>2. unread[m] = said[Position - 1 + m]
      BY <3>1 DEF CmdInv, SaidInv
    <3> QED
      BY <1>1, <3>1, <3>2
  <2>2. SaidAt(g.at, Header)
    <3>1. 0 + Len(Header) <= Len(unread) /\ Position + 0 = Position /\ 0 \in Nat
      BY <1>0, <1>5 DEF Offsets
    <3>2. SaidAt(Position + 0, Header) <=> 0 \in Offsets(Header)
      BY <3>1, UnreadSaid DEF CmdInv, RingInv
    <3> QED
      BY <1>5, <1>6, <3>1, <3>2
  <2>3. SaidAt(LastByte(g) - 1, End)
    <3>1. d - 2 \in Nat /\ (d - 2) + Len(End) <= Len(unread)
          /\ Position + (d - 2) = (Position + d - 1) - 1
      BY <1>0
    <3>2. SaidAt(Position + (d - 2), End) <=> d - 2 \in Offsets(End)
      BY <3>1, UnreadSaid DEF CmdInv, RingInv
    <3> QED
      BY <1>5, <1>7, <3>1, <3>2
  <2>4. ASSUME NEW n \in Position .. (Position + d - 1) - 2 PROVE ~SaidAt(n, End)
    <3> DEFINE c == n - Position
    <3>1. c \in Nat /\ c + Len(End) <= Len(unread) /\ Position + c = n /\ ~(d - 2 <= c)
      BY <1>0
    <3> HIDE DEF c
    <3>2. SaidAt(Position + c, End) <=> c \in Offsets(End)
      BY <3>1, UnreadSaid DEF CmdInv, RingInv
    <3> QED
      BY <1>5, <3>1, <3>2
  <2>5. g.at >= 1 /\ LastByte(g) <= Len(said)
    BY <1>0, <1>6, <1>7
  <2> QED
    BY <1>6, <1>7, <2>1, <2>2, <2>3, <2>4, <2>5 DEF WasSaid
<1>9. SaidInv' /\ Position' = Position + d /\ SaidGrows
  BY <1>4, SaidPass DEF CmdInv, RingInv
<1>10. GotInv'
  <2>0. /\ got \in Seq(Cuts) /\ Len(got) \in Nat
        /\ \A x \in Range(got) : WasSaid(x) /\ Len(x.cut) >= 2 /\ LastByte(x) < Position
        /\ \A i, j \in 1 .. Len(got) : i < j => LastByte(got[i]) < got[j].at
    BY LenProperties DEF CmdInv, GotInv
  <2>1. /\ got' \in Seq(Cuts) /\ Len(got') = Len(got) + 1
        /\ \A i \in 1 .. Len(got) : got'[i] = got[i]
        /\ got'[Len(got) + 1] = g
    BY <1>4, <1>6, <2>0, AppendProperties
  <2>2. ASSUME NEW x \in Cuts, WasSaid(x), Len(x.cut) >= 2, LastByte(x) < Position + d
        PROVE  WasSaid(x)' /\ (LastByte(x) < Position)'
    <3>1. WasSaid(x)'
      BY <1>9, <2>2, WasSaidStays
    <3>2. LastByte(x)' = LastByte(x)
      BY DEF LastByte
    <3> QED
      BY <1>9, <2>2, <3>1, <3>2
  <2>3. ASSUME NEW x \in Range(got')
        PROVE  x \in Cuts /\ WasSaid(x) /\ Len(x.cut) >= 2 /\ LastByte(x) < Position + d
    <3>1. PICK i \in 1 .. Len(got) + 1 : x = got'[i]
      BY <2>0, <2>1, LenProperties DEF Range
    <3>2. CASE i = Len(got) + 1
      BY <1>0, <1>6, <1>7, <1>8, <2>1, <3>1, <3>2
    <3>3. CASE i \in 1 .. Len(got)
      <4>1. x = got[i] /\ x \in Cuts
        BY <2>0, <2>1, <3>1, <3>3, ElementOfSeq
      <4>2. x \in Range(got)
        BY <2>0, <3>3, <4>1, LenProperties DEF Range
      <4>3. LastByte(x) \in Int
        BY <4>1, LenProperties DEF LastByte, Cuts
      <4> QED
        BY <1>0, <2>0, <4>1, <4>2, <4>3
    <3> QED
      BY <2>0, <3>2, <3>3
  <2>4. \A x \in Range(got') : WasSaid(x)' /\ Len(x.cut) >= 2 /\ (LastByte(x) < Position)'
    BY <2>2, <2>3
  <2>5. ASSUME NEW i \in 1 .. Len(got'), NEW j \in 1 .. Len(got'), i < j
        PROVE  LastByte(got'[i]) < got'[j].at
    <3>1. i \in 1 .. Len(got) /\ got'[i] = got[i]
      BY <2>0, <2>1, <2>5
    <3>2. CASE j \in 1 .. Len(got)
      BY <2>0, <2>1, <2>5, <3>1, <3>2
    <3>3. CASE j = Len(got) + 1
      <4>1. got[i] \in Range(got) /\ got'[j] = g
        BY <2>0, <2>1, <3>1, <3>3, LenProperties DEF Range
      <4> QED
        BY <1>6, <2>0, <3>1, <4>1
    <3> QED
      BY <2>0, <2>1, <3>2, <3>3
  <2> QED
    BY <2>1, <2>4, <2>5 DEF GotInv, LastByte
<1> QED
  BY <1>2, <1>3, <1>9, <1>10 DEF CmdInv

\* A burst moves bytes from the wire behind the unread ones.
LEMMA BurstMoves ==
  ASSUME RingTypes, Burst
  PROVE  \E n \in 1 .. Len(wire) :
           /\ Len(unread') = Len(unread) + n /\ Len(wire') = Len(wire) - n
           /\ \A i \in 1 .. Len(unread) : unread'[i] = unread[i]
           /\ \A i \in 1 .. n : unread'[Len(unread) + i] = wire[i]
           /\ \A i \in 1 .. Len(wire) - n : wire'[i] = wire[n + i]
<1>1. PICK n \in 1 .. MaxBurst :
        /\ n <= Len(wire)
        /\ net4g_uart_recv_cb(SubSeq(wire, 1, n))
        /\ wire' = SubSeq(wire, n + 1, Len(wire))
  BY DEF Burst
<1> DEFINE bytes == SubSeq(wire, 1, n)
<1>2. /\ wire \in Seq(Symbols) /\ unread \in Seq(Symbols) /\ Len(wire) \in Nat
      /\ Len(unread) \in Nat /\ n \in 1 .. Len(wire)
  BY <1>1, Sizes, LenProperties DEF RingTypes
<1>3. /\ bytes \in Seq(Symbols) /\ Len(bytes) = n /\ \A i \in 1 .. n : bytes[i] = wire[i]
  <2>1. bytes \in Seq(Symbols) /\ Len(bytes) = n
    BY <1>2, WirePieces, Zenon
  <2>2. ASSUME NEW i \in 1 .. n PROVE bytes[i] = wire[i]
    BY <1>2
  <2> QED
    BY <2>1, <2>2
<1>4. Len(wire') = Len(wire) - n /\ \A i \in 1 .. Len(wire) - n : wire'[i] = wire[n + i]
  <2>1. n \in 0 .. Len(wire)
    BY <1>2
  <2> QED
    BY <1>1, <1>2, <2>1, RestIs
<1>5. unread' = unread \o bytes
  BY <1>1 DEF net4g_uart_recv_cb
<1> HIDE DEF bytes
<1>6. /\ Len(unread') = Len(unread) + n
      /\ \A i \in 1 .. Len(unread) + n :
           unread'[i] = IF i <= Len(unread) THEN unread[i] ELSE bytes[i - Len(unread)]
  <2> DEFINE used == Len(unread)
  <2>1. /\ unread \in Seq(Symbols) /\ bytes \in Seq(Symbols) /\ Len(bytes) = n
        /\ Len(unread) = used
    BY <1>2, <1>3
  <2> HIDE DEF used
  <2>2. /\ Len(unread') = used + n
        /\ \A i \in 1 .. used + n :
             unread'[i] = IF i <= used THEN unread[i] ELSE bytes[i - used]
    BY <1>5, <2>1, ConcatProperties
  <2> QED
    BY <2>2 DEF used
<1>7. \A i \in 1 .. Len(unread) : unread'[i] = unread[i]
  BY <1>2, <1>6
<1>8. ASSUME NEW i \in 1 .. n PROVE unread'[Len(unread) + i] = wire[i]
  <2>1. Len(unread) + i \in 1 .. Len(unread) + n /\ ~(Len(unread) + i <= Len(unread))
        /\ (Len(unread) + i) - Len(unread) = i
    BY <1>2
  <2> QED
    BY <1>3, <1>6, <2>1
<1> QED
  BY <1>2, <1>4, <1>6, <1>7, <1>8

LEMMA BurstCmd ==
  ASSUME CmdInv, Burst, ~overrun'
  PROVE  CmdInv'
<1>1. PICK n \in 1 .. Len(wire) :
        /\ Len(unread') = Len(unread) + n /\ Len(wire') = Len(wire) - n
        /\ \A i \in 1 .. Len(unread) : unread'[i] = unread[i]
        /\ \A i \in 1 .. n : unread'[Len(unread) + i] = wire[i]
        /\ \A i \in 1 .. Len(wire) - n : wire'[i] = wire[n + i]
  BY BurstMoves DEF CmdInv, RingInv
<1>2. RingInv'
  BY BurstStep DEF CmdInv
<1>3. /\ head' = head /\ cmd_get_step' = cmd_get_step /\ cmdHead_index' = cmdHead_index
      /\ cmdTail_index' = cmdTail_index /\ headFail' = headFail /\ said' = said /\ got' = got
  BY DEF Burst
<1>4. /\ Len(unread) \in Nat /\ Len(said) \in Nat /\ Len(wire) \in Nat
      /\ Position \in Nat \ {0} /\ Len(said) = Position - 1 + Len(unread) + Len(wire)
  BY Counts DEF CmdInv, RingInv
<1>5. Position' = Position
  <2>1. /\ Position' = Len(said') - Len(unread') - Len(wire') + 1
        /\ Position = Len(said) - Len(unread) - Len(wire) + 1
    BY DEF Position
  <2> QED
    BY <1>1, <1>3, <1>4, <2>1
<1>6. SaidInv'
  <2>1. ASSUME NEW i \in 1 .. Len(unread') PROVE unread'[i] = said[Position - 1 + i]
    <3>1. CASE i \in 1 .. Len(unread)
      BY <1>1, <3>1 DEF CmdInv, SaidInv
    <3>2. CASE i \notin 1 .. Len(unread)
      <4> DEFINE k == i - Len(unread)
      <4>1. /\ k \in 1 .. n /\ k \in 1 .. Len(wire) /\ i = Len(unread) + k
            /\ Position - 1 + Len(unread) + k = Position - 1 + i
        BY <1>1, <1>4, <3>2
      <4> HIDE DEF k
      <4>2. unread'[i] = wire[k] /\ wire[k] = said[Position - 1 + Len(unread) + k]
        BY <1>1, <4>1 DEF CmdInv, SaidInv
      <4> QED
        BY <4>1, <4>2
    <3> QED
      BY <3>1, <3>2
  <2>2. ASSUME NEW i \in 1 .. Len(wire')
        PROVE  wire'[i] = said[Position - 1 + Len(unread') + i]
    <3>1. /\ i \in 1 .. Len(wire) - n /\ n + i \in 1 .. Len(wire)
          /\ Position - 1 + Len(unread') + i = Position - 1 + Len(unread) + (n + i)
      BY <1>1, <1>4
    <3>2. wire[n + i] = said[Position - 1 + Len(unread) + (n + i)]
      BY <3>1 DEF CmdInv, SaidInv
    <3> QED
      BY <1>1, <3>1, <3>2
  <2>3. said' \in Seq(Symbols) /\ Position' \in Nat \ {0}
    BY <1>3, <1>4, <1>5 DEF CmdInv, SaidInv
  <2> QED
    BY <1>3, <1>5, <2>1, <2>2, <2>3 DEF SaidInv
\* Keywords among the unread bytes stay where they are.
<1>7. ASSUME NEW key \in {Header, End}, NEW c \in Nat, c + Len(key) <= Len(unread)
      PROVE  c \in Offsets(key)' <=> c \in Offsets(key)
  <2>1. Len(key) \in Nat
    BY KeyFacts
  <2>2. ASSUME NEW m \in 1 .. Len(key) PROVE unread'[c + m] = unread[c + m]
    <3>1. c + m \in 1 .. Len(unread)
      BY <1>4, <1>7, <2>1
    <3> QED
      BY <1>1, <3>1
  <2>3. c \in 0 .. Len(unread) - Len(key) /\ c \in 0 .. Len(unread') - Len(key)
    BY <1>1, <1>4, <1>7, <2>1
  <2> QED
    BY <2>2, <2>3 DEF Offsets
<1>8. HeadInv'
  <2>1. ASSUME 0 \in Offsets(Header) PROVE 0 \in Offsets(Header)'
    <3>1. 0 + Len(Header) <= Len(unread) /\ 0 \in Nat
      BY <1>4, <2>1, Sizes DEF Offsets
    <3> QED
      BY <1>7, <2>1, <3>1
  <2> QED
    BY <1>3, <2>1 DEF CmdInv, HeadInv
<1>9. TailInv'
  <2> DEFINE d == Dist(head, cmdTail_index)
  <2> SUFFICES ASSUME cmd_get_step = 3
               PROVE  d - 2 \in Offsets(End)' /\ \A c \in Offsets(End)' : d - 2 <= c
    BY <1>3 DEF TailInv
  <2>1. d \in 2 .. Len(unread) /\ d - 2 \in Offsets(End) /\ \A c \in Offsets(End) : d - 2 <= c
    BY DEF CmdInv, RingInv, CutInv, TailInv
  <2> HIDE DEF d
  <2>2. d - 2 \in Offsets(End)'
    <3>1. d - 2 \in Nat /\ (d - 2) + Len(End) <= Len(unread)
      BY <1>4, <2>1, Sizes
    <3> QED
      BY <1>7, <2>1, <3>1
  <2>3. ASSUME NEW c \in Offsets(End)' PROVE d - 2 <= c
    <3>1. c \in Nat
      BY <1>1, <1>4, Sizes DEF Offsets
    <3> SUFFICES ASSUME ~(d - 2 <= c) PROVE FALSE
      OBVIOUS
    <3>2. c + Len(End) <= Len(unread)
      BY <1>4, <2>1, <3>1, Sizes
    <3>3. c \in Offsets(End)
      BY <1>7, <3>1, <3>2
    <3> QED
      BY <2>1, <3>3
  <2> QED
    BY <2>2, <2>3
<1>10. GotInv'
  <2>1. SaidGrows
    BY <1>3, <1>4 DEF SaidGrows, CmdInv, SaidInv
  <2> QED
    BY <1>3, <1>4, <1>5, <2>1, GotStays DEF CmdInv
<1> QED
  BY <1>2, <1>6, <1>8, <1>9, <1>10 DEF CmdInv

LEMMA LineCmd ==
  ASSUME CmdInv, StartLine
  PROVE  CmdInv'
<1>1. PICK line \in Lines : wire' = line /\ said' = said \o line
  BY DEF StartLine
<1>2. /\ head' = head /\ cmd_get_step' = cmd_get_step /\ cmdHead_index' = cmdHead_index
      /\ cmdTail_index' = cmdTail_index /\ headFail' = headFail /\ unread' = unread
      /\ got' = got /\ wire = <<>>
  BY DEF StartLine, fifo
<1>3. RingInv'
  BY LineStep DEF CmdInv
<1>4. /\ Len(unread) \in Nat /\ Len(said) \in Nat /\ Position \in Nat \ {0}
      /\ Len(said) = Position - 1 + Len(unread)
  <2>1. Len(wire) = 0
    BY <1>2
  <2> QED
    BY <2>1, Counts DEF CmdInv, RingInv
<1>5. line \in Seq(Symbols) /\ said \in Seq(Symbols) /\ Len(line) \in Nat
  BY Sizes, LenProperties DEF CmdInv, SaidInv
<1>6. /\ said' \in Seq(Symbols) /\ Len(said') = Len(said) + Len(line)
      /\ \A i \in 1 .. Len(said) : said'[i] = said[i]
      /\ \A i \in 1 .. Len(line) : said'[Len(said) + i] = line[i]
  <2> DEFINE all == said \o line
  <2>1. /\ all \in Seq(Symbols) /\ Len(all) = Len(said) + Len(line)
        /\ \A i \in 1 .. Len(said) + Len(line) :
             all[i] = IF i <= Len(said) THEN said[i] ELSE line[i - Len(said)]
    BY <1>5, ConcatProperties
  <2> HIDE DEF all
  <2>2. \A i \in 1 .. Len(said) : all[i] = said[i]
    <3> SUFFICES ASSUME NEW i \in 1 .. Len(said) PROVE all[i] = said[i]
      OBVIOUS
    <3>1. i \in 1 .. Len(said) + Len(line) /\ i <= Len(said)
      BY <1>4, <1>5
    <3> QED
      BY <2>1, <3>1
  <2>3. ASSUME NEW i \in 1 .. Len(line) PROVE all[Len(said) + i] = line[i]
    <3>1. Len(said) + i \in 1 .. Len(said) + Len(line) /\ ~(Len(said) + i <= Len(said))
          /\ (Len(said) + i) - Len(said) = i
      BY <1>4, <1>5
    <3> QED
      BY <2>1, <3>1
  <2>4. said' = all
    BY <1>1 DEF all
  <2> QED
    BY <2>1, <2>2, <2>3, <2>4
<1>7. SaidGrows
  BY <1>4, <1>5, <1>6 DEF SaidGrows
<1>8. Position' = Position
  <2>1. Position' = Len(said') - Len(unread') - Len(wire') + 1
    BY DEF Position
  <2>2. Len(said') = Len(said) + Len(line) /\ Len(unread') = Len(unread) /\ Len(wire') = Len(line)
    BY <1>1, <1>2, <1>6
  <2> HIDE DEF Position
  <2> QED
    BY <1>4, <1>5, <2>1, <2>2
<1>9. SaidInv'
  <2>1. ASSUME NEW i \in 1 .. Len(unread) PROVE unread[i] = said'[Position - 1 + i]
    <3>1. Position - 1 + i \in 1 .. Len(said)
      BY <1>4
    <3> QED
      BY <1>6, <3>1 DEF CmdInv, SaidInv
  <2>2. ASSUME NEW i \in 1 .. Len(line)
        PROVE  line[i] = said'[Position - 1 + Len(unread) + i]
    BY <1>4, <1>6
  <2> QED
    BY <1>1, <1>2, <1>4, <1>6, <1>8, <2>1, <2>2 DEF SaidInv
<1>10. HeadInv' /\ TailInv'
  <2>1. \A key \in {Header, End} : Offsets(key)' = Offsets(key)
    BY <1>2 DEF Offsets
  <2> QED
    BY <1>2, <2>1 DEF CmdInv, HeadInv, TailInv
<1>11. GotInv'
  BY <1>2, <1>4, <1>7, <1>8, GotStays DEF CmdInv
<1> QED
  BY <1>3, <1>9, <1>10, <1>11 DEF CmdInv

LEMMA InitCmd ==
  ASSUME Init
  PROVE  CmdInv
<1>1. said = <<>> /\ wire = <<>> /\ unread = <<>> /\ got = <<>> /\ cmd_get_step = 0 /\ ~headFail
  BY DEF Init
<1>2. Position = 1
  BY <1>1 DEF Position
<1>3. SaidInv
  BY <1>1, <1>2 DEF SaidInv
<1>4. HeadInv /\ TailInv
  BY <1>1 DEF HeadInv, TailInv
<1>5. GotInv
  <2>1. Range(got) = {} /\ 1 .. Len(got) = {} /\ got \in Seq(Cuts)
    BY <1>1 DEF Range
  <2> QED
    BY <2>1 DEF GotInv
<1> QED
  BY <1>3, <1>4, <1>5, InitRing DEF CmdInv

LEMMA CmdStays ==
  ASSUME CmdInv, [Next]_vars, ~overrun', ~confused'
  PROVE  CmdInv'
<1>1. CASE StartLine
  BY <1>1, LineCmd
<1>2. CASE Burst
  BY <1>2, BurstCmd
<1>3. CASE GetStart
  BY <1>3, StartCmd
<1>4. CASE GetHead
  BY <1>4, HeadCmd
<1>5. CASE GetTail
  BY <1>5, TailCmd
<1>6. CASE GetCmd
  BY <1>6, CmdCmd
<1>7. CASE DropUnread
  BY <1>7, DropCmd
<1>8. CASE UNCHANGED vars
  <2>1. /\ UNCHANGED <<said, unread, wire, got>> /\ unread' = unread /\ head' = head
        /\ cmdHead_index' = cmdHead_index /\ cmdTail_index' = cmdTail_index
        /\ cmd_get_step' = cmd_get_step /\ headFail' = headFail
    BY <1>8 DEF vars
  <2>2. RingInv'
    BY <1>8, RingStep DEF CmdInv
  <2>3. \A key \in {Header, End} : Offsets(key)' = Offsets(key)
    BY <2>1 DEF Offsets
  <2>4. HeadInv' /\ TailInv'
    BY <2>1, <2>3 DEF CmdInv, HeadInv, TailInv
  <2> QED
    BY <2>1, <2>2, <2>4, QuietCmd
<1> QED
  BY <1>1, <1>2, <1>3, <1>4, <1>5, <1>6, <1>7, <1>8
  DEF Next, get_net4G_recv_cmd, recv_cmd_from_fifo

LEMMA CmdInvariant == Spec => [](Excused \/ CmdInv)
<1>1. Init => CmdInv
  BY InitCmd
<1>2. (Excused \/ CmdInv) /\ [Next]_vars => (Excused \/ CmdInv)'
  BY CmdStays, Sticky DEF Excused
<1> QED
  BY <1>1, <1>2, PTL DEF Spec

\* Whatever lines the modem sends, with any bytes in a command's payload, however they
\* are spread over bursts and wherever the ring ends: what recv_cmd_from_fifo cuts out
\* was sent, from a header to the first tail behind it, and in the order of sending, no
\* byte twice, unless a burst overran the ring or a search met the ambiguous case.
THEOREM CutsCommandsInOrder == Spec => []CommandsInOrder
<1>1. Excused \/ CmdInv => CommandsInOrder
  <2> SUFFICES ASSUME CmdInv PROVE CommandsInOrder
    BY DEF CommandsInOrder
  <2>1. DOMAIN got = 1 .. Len(got)
    BY LenProperties DEF CmdInv, GotInv
  <2>2. \A i \in DOMAIN got : got[i] \in Range(got)
    BY DEF Range
  <2> QED
    BY <2>1, <2>2 DEF CommandsInOrder, CmdInv, GotInv
<1> QED
  BY <1>1, CmdInvariant, PTL

=============================================================================
