---------------------------- MODULE MessageProofs ----------------------------
(***************************************************************************)
(* What goes over the wire: how the stream is cut into messages, for every *)
(* list of messages and every way in which reads may cut it; and what the  *)
(* range computations of DataRanges and HeaderRanges come to, for all      *)
(* heights.                                                                *)
(***************************************************************************)
EXTENDS MessageFraming, DataRanges, HeaderRanges, SequenceTheorems,
        WellFoundedInduction, TLAPS

-----------------------------------------------------------------------------
(* Induction, for sets of numbers: the library's theorems take an operator *)

LEMMA LessIsWellFounded == IsWellFoundedOn({ss \in Nat \X Nat : ss[1] < ss[2]}, Nat)
BY NatLessThanWellFounded DEF OpToRel

LEMMA LeastNumber ==
  ASSUME NEW S \in SUBSET Nat, S # {}
  PROVE  \E m \in S : \A k \in S : m <= k
<1> DEFINE Less == {ss \in Nat \X Nat : ss[1] < ss[2]}
<1>1. \E m \in S : \A k \in S : <<k, m>> \notin Less
  <2> HIDE DEF Less
  <2>1. IsWellFoundedOn(Less, Nat)
    BY LessIsWellFounded DEF Less
  <2>2. QED
    BY <2>1, WFMin
<1>2. PICK m \in S : \A k \in S : <<k, m>> \notin Less
  BY <1>1
<1>3. ASSUME NEW k \in S PROVE m <= k
  <2>1. k \in Nat /\ m \in Nat
    OBVIOUS
  <2>2. ~ (k < m)
    BY <1>2, <2>1
  <2>3. QED
    BY <2>1, <2>2
<1>4. QED
  BY <1>3

LEMMA Induction ==
  ASSUME NEW S, 0 \in S, \A n \in Nat : n \in S => n + 1 \in S
  PROVE  Nat \subseteq S
<1> DEFINE T == {n \in Nat : n \notin S}
<1> SUFFICES ASSUME T # {} PROVE FALSE
  OBVIOUS
<1>1. PICK m \in T : \A k \in T : m <= k
  BY LeastNumber
<1>2. m # 0 /\ m - 1 \in Nat /\ m - 1 \notin T
  BY <1>1
<1>3. QED
  BY <1>1, <1>2

-----------------------------------------------------------------------------
(* FlattenSeq *)

\* What the function that FlattenSeq defines has to be, for the first n of s.
Joined(s, g, i) == IF i = 1 THEN s[i] ELSE g[i - 1] \o s[i]
IsList(g, n) == g = [i \in 1..n |-> g[i]]
Flattened(s, n, g) == IsList(g, n) /\ \A i \in 1..n : g[i] = Joined(s, g, i)

LEMMA FlattenedFunction ==
  ASSUME NEW s, NEW n \in Nat, NEW g
  PROVE  Flattened(s, n, g)
           <=> g = [i \in 1..n |-> IF i = 1 THEN s[i] ELSE g[i - 1] \o s[i]]
<1>1. Flattened(s, n, g) <=> g = [i \in 1..n |-> Joined(s, g, i)]
  BY DEF Flattened, IsList
<1>2. QED
  BY <1>1 DEF Joined

\* It depends on what is before i only.
LEMMA JoinedLocal ==
  ASSUME NEW s, NEW i \in Nat, NEW g, NEW h, i # 1 => g[i - 1] = h[i - 1]
  PROVE  Joined(s, g, i) = Joined(s, h, i)
BY DEF Joined

LEMMA FlattenedExists ==
  ASSUME NEW s, NEW n \in Nat
  PROVE  \E g : Flattened(s, n, g)
<1> DEFINE S == {k \in Nat : \E g : Flattened(s, k, g)}
<1>1. 0 \in S
  <2>1. Flattened(s, 0, [i \in 1..0 |-> s])
    BY DEF Flattened, IsList
  <2>2. QED
    BY <2>1
<1>2. ASSUME NEW k \in Nat, k \in S PROVE k + 1 \in S
  <2>1. PICK g : Flattened(s, k, g)
    BY <1>2
  <2> DEFINE h == [i \in 1..(k + 1) |-> IF i = k + 1 THEN Joined(s, g, i) ELSE g[i]]
  <2>2. IsList(h, k + 1)
    BY DEF IsList
  <2>3. \A i \in 1..k : h[i] = g[i]
    OBVIOUS
  <2>4. h[k + 1] = Joined(s, g, k + 1)
    OBVIOUS
  <2> HIDE DEF h
  <2>5. \A i \in 1..(k + 1) : Joined(s, g, i) = Joined(s, h, i)
    <3>1. \A i \in 1..(k + 1) : i \in Nat /\ (i # 1 => h[i - 1] = g[i - 1])
      BY <2>3
    <3>2. QED
      BY <3>1, JoinedLocal
  <2>6. \A i \in 1..(k + 1) : i = k + 1 \/ i \in 1..k
    OBVIOUS
  <2>7. \A i \in 1..(k + 1) : h[i] = Joined(s, h, i)
    BY <2>1, <2>3, <2>4, <2>5, <2>6 DEF Flattened
  <2>8. QED
    BY <2>2, <2>7 DEF Flattened
<1> HIDE DEF S
<1>3. Nat \subseteq S
  BY <1>1, <1>2, Induction
<1>4. QED
  BY <1>3 DEF S

LEMMA FlattenedOnce ==
  ASSUME NEW s, NEW n \in Nat, NEW g, Flattened(s, n, g),
         NEW m \in 0..n, NEW h, Flattened(s, m, h)
  PROVE  \A j \in 1..m : g[j] = h[j]
<1> DEFINE S == {k \in Nat : k \in 1..m => g[k] = h[k]}
<1>1. 0 \in S
  OBVIOUS
<1>2. ASSUME NEW k \in Nat, k \in S PROVE k + 1 \in S
  <2>1. CASE k + 1 \in 1..m
    <3>1. k + 1 \in 1..n /\ k + 1 \in 1..m /\ (k # 0 => k \in 1..m)
      BY <2>1
    <3>2. g[k + 1] = Joined(s, g, k + 1) /\ h[k + 1] = Joined(s, h, k + 1)
      BY <3>1 DEF Flattened
    <3>3. k # 0 => g[k] = h[k]
      BY <1>2, <3>1
    <3>4. Joined(s, g, k + 1) = Joined(s, h, k + 1)
      BY <3>3, JoinedLocal
    <3>5. QED
      BY <3>2, <3>4
  <2>2. QED
    BY <2>1
<1> HIDE DEF S
<1>3. Nat \subseteq S
  BY <1>1, <1>2, Induction
<1>4. QED
  BY <1>3 DEF S

LEMMA FlattenIs ==
  ASSUME NEW s, NEW n \in Nat \ {0}, Len(s) = n
  PROVE  \E g : Flattened(s, n, g) /\ FlattenSeq(s) = g[n]
<1> DEFINE IsFlattened(g) ==
             g = [i \in 1..n |-> IF i = 1 THEN s[i] ELSE g[i - 1] \o s[i]]
<1>1. FlattenSeq(s) = (CHOOSE g : IsFlattened(g))[n]
  BY DEF FlattenSeq
<1>2. \A g : Flattened(s, n, g) <=> IsFlattened(g)
  BY FlattenedFunction
<1> HIDE DEF IsFlattened
<1>3. \E g : IsFlattened(g)
  BY <1>2, FlattenedExists
<1>4. QED
  BY <1>1, <1>2, <1>3

LEMMA FlattenEmpty == FlattenSeq(<<>>) = <<>>
BY DEF FlattenSeq

LEMMA FlattenMore ==
  ASSUME NEW S, NEW n \in Nat, NEW s \in [1..(n + 1) -> Seq(S)]
  PROVE  FlattenSeq(s) = FlattenSeq([i \in 1..n |-> s[i]]) \o s[n + 1]
<1> DEFINE t == [i \in 1..n |-> s[i]]
<1>1. Len(s) = n + 1 /\ Len(t) = n
  OBVIOUS
<1>2. PICK g : Flattened(s, n + 1, g) /\ FlattenSeq(s) = g[n + 1]
  BY <1>1, FlattenIs
<1>3. CASE n = 0
  <2>1. t = <<>>
    BY <1>3
  <2>2. FlattenSeq(s) = s[1] /\ s[1] \in Seq(S)
    BY <1>2, <1>3 DEF Flattened, Joined
  <2>3. QED
    BY <1>3, <2>1, <2>2, FlattenEmpty
<1>4. CASE n # 0
  <2>1. PICK h : Flattened(t, n, h) /\ FlattenSeq(t) = h[n]
    BY <1>1, <1>4, FlattenIs
  <2>2. Flattened(s, n, h)
    <3>1. \A i \in 1..n : Joined(s, h, i) = Joined(t, h, i)
      BY DEF Joined
    <3>2. QED
      BY <2>1, <3>1 DEF Flattened
  <2>3. g[n] = h[n]
    BY <1>2, <1>4, <2>2, FlattenedOnce
  <2>4. g[n + 1] = g[n] \o s[n + 1]
    <3>1. g[n + 1] = Joined(s, g, n + 1)
      BY <1>2 DEF Flattened
    <3>2. n + 1 # 1 /\ (n + 1) - 1 = n
      BY <1>4
    <3>3. QED
      BY <3>1, <3>2, Zenon DEF Joined
  <2>5. QED
    BY <1>2, <2>1, <2>3, <2>4
<1>5. QED
  BY <1>3, <1>4

-----------------------------------------------------------------------------
(* Parts of sequences, counted from their ends *)

LEMMA Joining ==
  ASSUME NEW S, NEW s \in Seq(S), NEW t \in Seq(S)
  PROVE  /\ s \o t \in Seq(S)
         /\ Len(s) \in Nat /\ Len(t) \in Nat /\ Len(s \o t) = Len(s) + Len(t)
         /\ \A i \in 1..Len(s) : (s \o t)[i] = s[i]
         /\ \A i \in 1..Len(t) : (s \o t)[Len(s) + i] = t[i]
<1>1. s \o t \in Seq(S) /\ Len(s \o t) = Len(s) + Len(t) /\ Len(s) \in Nat /\ Len(t) \in Nat
  BY ConcatProperties, LenProperties
<1>2. \A i \in 1..(Len(s) + Len(t)) :
        (s \o t)[i] = IF i <= Len(s) THEN s[i] ELSE t[i - Len(s)]
  BY ConcatProperties
<1>3. ASSUME NEW i \in 1..Len(s) PROVE (s \o t)[i] = s[i]
  <2>1. i \in 1..(Len(s) + Len(t)) /\ i <= Len(s)
    BY <1>1
  <2>2. QED
    BY <1>2, <2>1
<1>4. ASSUME NEW i \in 1..Len(t) PROVE (s \o t)[Len(s) + i] = t[i]
  <2> DEFINE j == Len(s) + i
  <2>1. j \in 1..(Len(s) + Len(t)) /\ ~ (j <= Len(s)) /\ j - Len(s) = i
    BY <1>1
  <2> HIDE DEF j
  <2>2. (s \o t)[j] = t[j - Len(s)]
    BY <1>2, <2>1
  <2>3. QED
    BY <2>1, <2>2 DEF j
<1>5. QED
  BY <1>1, <1>3, <1>4

LEMMA Part ==
  ASSUME NEW S, NEW s \in Seq(S), NEW a \in Nat, NEW b \in Nat, a <= b, b <= Len(s)
  PROVE  /\ SubSeq(s, a + 1, b) \in Seq(S) /\ Len(SubSeq(s, a + 1, b)) = b - a
         /\ \A i \in 1..(b - a) : SubSeq(s, a + 1, b)[i] = s[a + i]
<1>1. Len(s) \in Nat /\ \A i \in 1..Len(s) : s[i] \in S
  BY LenProperties, ElementOfSeq
<1>2. \A i \in (a + 1)..b : s[i] \in S
  BY <1>1
<1>3. /\ SubSeq(s, a + 1, b) \in Seq(S)
      /\ Len(SubSeq(s, a + 1, b)) = IF a + 1 <= b THEN b - (a + 1) + 1 ELSE 0
      /\ \A i \in 1..(b - (a + 1) + 1) : SubSeq(s, a + 1, b)[i] = s[(a + 1) + i - 1]
  BY <1>2, SubSeqProperties
<1>4. Len(SubSeq(s, a + 1, b)) = b - a
  BY <1>3
<1>5. ASSUME NEW i \in 1..(b - a) PROVE SubSeq(s, a + 1, b)[i] = s[a + i]
  <2>1. i \in 1..(b - (a + 1) + 1) /\ (a + 1) + i - 1 = a + i
    OBVIOUS
  <2>2. QED
    BY <1>3, <2>1
<1>6. QED
  BY <1>3, <1>4, <1>5

LEMMA Whole ==
  ASSUME NEW S, NEW s \in Seq(S)
  PROVE  SubSeq(s, 1, Len(s)) = s
BY SubSeqFull

LEMMA Glue ==
  ASSUME NEW S, NEW s \in Seq(S), NEW a \in Nat, NEW b \in Nat, NEW c \in Nat,
         a <= b, b <= c, c <= Len(s)
  PROVE  SubSeq(s, a + 1, b) \o SubSeq(s, b + 1, c) = SubSeq(s, a + 1, c)
<1>1. Len(s) \in Nat
  BY LenProperties
<1>2. a + 1 \in 1..(Len(s) + 1) /\ b \in ((a + 1) - 1)..Len(s) /\ c \in b..Len(s)
  BY <1>1
<1>3. QED
  BY <1>2, ConcatAdjacentSubSeq

LEMMA PartOfPart ==
  ASSUME NEW S, NEW s \in Seq(S), NEW a \in Nat, NEW b \in Nat, NEW i \in Nat, NEW j \in Nat,
         a <= b, b <= Len(s), i <= j, j <= b - a
  PROVE  SubSeq(SubSeq(s, a + 1, b), i + 1, j) = SubSeq(s, a + i + 1, a + j)
<1> DEFINE p == SubSeq(s, a + 1, b)
           l == SubSeq(p, i + 1, j)
           r == SubSeq(s, (a + i) + 1, a + j)
<1>1. p \in Seq(S) /\ Len(p) = b - a /\ \A k \in 1..(b - a) : p[k] = s[a + k]
  BY Part
<1> HIDE DEF p
<1>2. l \in Seq(S) /\ Len(l) = j - i /\ \A k \in 1..(j - i) : l[k] = p[i + k]
  BY <1>1, Part
<1>3. a + i \in Nat /\ a + j \in Nat /\ a + i <= a + j /\ a + j <= Len(s)
  BY LenProperties
<1>4. /\ r \in Seq(S) /\ Len(r) = (a + j) - (a + i)
      /\ \A k \in 1..((a + j) - (a + i)) : r[k] = s[(a + i) + k]
  BY <1>3, Part
<1>5. Len(r) = Len(l)
  BY <1>2, <1>4
<1>6. ASSUME NEW k \in 1..Len(l) PROVE l[k] = r[k]
  <2>1. /\ k \in 1..(j - i) /\ i + k \in 1..(b - a) /\ a + (i + k) = (a + i) + k
        /\ k \in 1..((a + j) - (a + i))
    BY <1>2, <1>6
  <2>2. l[k] = p[i + k] /\ p[i + k] = s[a + (i + k)] /\ r[k] = s[(a + i) + k]
    BY <1>1, <1>2, <1>4, <2>1
  <2>3. QED
    BY <2>1, <2>2
<1> HIDE DEF l, r
<1>7. l = r
  BY <1>2, <1>4, <1>5, <1>6, SeqEqual
<1>8. QED
  BY <1>7 DEF l, r, p

-----------------------------------------------------------------------------
(* The stream *)

Frame(m) == Prefix(m) \o Body(m)
Count == Len(BodyLens)
Bytes == Nat \X Nat

LEMMA FrameBytes ==
  ASSUME NEW m \in 1..Count
  PROVE  /\ BodyLens[m] \in Nat /\ BodyLens[m] >= 2
         /\ Prefix(m) \in Seq(Bytes) /\ Len(Prefix(m)) = 4
         /\ Body(m) \in Seq(Bytes) /\ Len(Body(m)) = BodyLens[m]
         /\ Frame(m) \in Seq(Bytes) /\ Len(Frame(m)) = BodyLens[m] + 4
         /\ \A i \in 1..(BodyLens[m] + 4) : Frame(m)[i] = <<m, i>>
<1>1. BodyLens[m] \in Nat /\ BodyLens[m] >= 2 /\ m \in Nat
  BY StreamAssumption DEF Count
<1>2. Prefix(m) \in Seq(Bytes) /\ Len(Prefix(m)) = 4 /\ \A i \in 1..4 : Prefix(m)[i] = <<m, i>>
  BY <1>1 DEF Prefix, Bytes
<1>3. /\ Body(m) \in Seq(Bytes) /\ Len(Body(m)) = BodyLens[m]
      /\ \A i \in 1..BodyLens[m] : Body(m)[i] = <<m, i + 4>>
  <2> DEFINE L == BodyLens[m]
  <2>1. L \in Nat
    BY <1>1
  <2>2. Body(m) = [i \in 1..L |-> <<m, i + 4>>]
    BY DEF Body
  <2> HIDE DEF L
  <2>3. \A i \in 1..L : <<m, i + 4>> \in Bytes
    BY <1>1, <2>1 DEF Bytes
  <2>4. Body(m) \in [1..L -> Bytes]
    BY <2>2, <2>3
  <2>5. Body(m) \in Seq(Bytes) /\ Len(Body(m)) = L
    BY <2>1, <2>4
  <2>6. QED
    BY <2>2, <2>5 DEF L
<1>4. /\ Frame(m) \in Seq(Bytes) /\ Len(Frame(m)) = BodyLens[m] + 4
      /\ \A i \in 1..4 : Frame(m)[i] = Prefix(m)[i]
      /\ \A i \in 1..BodyLens[m] : Frame(m)[4 + i] = Body(m)[i]
  <2> DEFINE p == Prefix(m)
             b == Body(m)
  <2>1. p \in Seq(Bytes) /\ b \in Seq(Bytes)
    BY <1>2, <1>3
  <2>2. Len(p) = 4 /\ Len(b) = BodyLens[m] /\ Frame(m) = p \o b
    BY <1>2, <1>3 DEF Frame
  <2> HIDE DEF p, b
  <2>3. /\ p \o b \in Seq(Bytes) /\ Len(p \o b) = Len(p) + Len(b)
        /\ (\A i \in 1..Len(p) : (p \o b)[i] = p[i])
        /\ (\A i \in 1..Len(b) : (p \o b)[Len(p) + i] = b[i])
    BY <2>1, Joining
  <2>4. /\ p \o b \in Seq(Bytes) /\ Len(p \o b) = BodyLens[m] + 4
        /\ (\A i \in 1..4 : (p \o b)[i] = p[i])
        /\ (\A i \in 1..BodyLens[m] : (p \o b)[4 + i] = b[i])
    BY <1>1, <2>2, <2>3
  <2>5. QED
    BY <2>2, <2>4 DEF p, b
<1>5. ASSUME NEW i \in 1..(BodyLens[m] + 4) PROVE Frame(m)[i] = <<m, i>>
  <2>1. CASE i <= 4
    <3>1. i \in 1..4
      BY <1>1, <2>1
    <3>2. Frame(m)[i] = Prefix(m)[i]
      BY <1>4, <3>1
    <3>3. Prefix(m)[i] = <<m, i>>
      BY <1>2, <3>1
    <3>4. QED
      BY <3>2, <3>3
  <2>2. CASE i > 4
    <3> DEFINE j == i - 4
    <3>1. j \in 1..BodyLens[m] /\ i = 4 + j /\ i = j + 4
      BY <1>1, <2>2
    <3> HIDE DEF j
    <3>2. QED
      BY <1>3, <1>4, <3>1
  <2>3. QED
    BY <1>1, <2>1, <2>2
<1>6. QED
  BY <1>1, <1>2, <1>3, <1>4, <1>5

LEMMA GreetingBytes ==
  /\ Greeting \in Seq(Bytes) /\ Len(Greeting) = IdLen + 1 /\ IdLen \in Nat
  /\ \A i \in 1..(IdLen + 1) : Greeting[i] = <<0, i>>
BY StreamAssumption DEF Greeting, Bytes

LEMMA CountIsNat == Count \in Nat /\ DOMAIN BodyLens = 1..Count
BY StreamAssumption DEF Count

\* The stream grows by a message at a time.
LEMMA UpToNone == UpTo(0) = Greeting /\ End(0) = IdLen + 1
<1>1. [m \in 1..0 |-> Prefix(m) \o Body(m)] = <<>>
  OBVIOUS
<1>2. UpTo(0) = Greeting \o <<>>
  BY <1>1, FlattenEmpty DEF UpTo
<1>3. QED
  BY <1>2, GreetingBytes, ConcatEmptySeq DEF End

LEMMA UpToAll == Stream = UpTo(Count)
BY CountIsNat DEF Stream, UpTo

LEMMA SentMore ==
  ASSUME NEW q \in Nat, q < Count
  PROVE  FlattenSeq([m \in 1..(q + 1) |-> Frame(m)])
           = FlattenSeq([m \in 1..q |-> Frame(m)]) \o Frame(q + 1)
<1> DEFINE s == [m \in 1..(q + 1) |-> Frame(m)]
           t == [m \in 1..q |-> Frame(m)]
<1>1. \A m \in 1..(q + 1) : Frame(m) \in Seq(Bytes)
  BY CountIsNat, FrameBytes
<1>2. s \in [1..(q + 1) -> Seq(Bytes)]
  BY <1>1
<1>3. t = [i \in 1..q |-> s[i]] /\ s[q + 1] = Frame(q + 1)
  OBVIOUS
<1> HIDE DEF s, t
<1>4. FlattenSeq(s) = FlattenSeq(t) \o s[q + 1]
  BY <1>2, <1>3, FlattenMore
<1>5. QED
  BY <1>3, <1>4 DEF s, t

LEMMA SentBytes ==
  \A q \in 0..Count : FlattenSeq([m \in 1..q |-> Frame(m)]) \in Seq(Bytes)
<1> DEFINE S == {q \in Nat : q <= Count => FlattenSeq([m \in 1..q |-> Frame(m)]) \in Seq(Bytes)}
<1>1. 0 \in S
  <2>1. [m \in 1..0 |-> Frame(m)] = <<>>
    OBVIOUS
  <2>2. QED
    BY <2>1, FlattenEmpty, EmptySeq
<1>2. ASSUME NEW q \in Nat, q \in S PROVE q + 1 \in S
  <2>1. CASE q < Count
    <3>1. Frame(q + 1) \in Seq(Bytes)
      BY <2>1, CountIsNat, FrameBytes
    <3>2. FlattenSeq([m \in 1..q |-> Frame(m)]) \in Seq(Bytes)
      BY <1>2, <2>1, CountIsNat
    <3>3. FlattenSeq([m \in 1..(q + 1) |-> Frame(m)]) \in Seq(Bytes)
      <4> DEFINE f == FlattenSeq([m \in 1..q |-> Frame(m)])
      <4>1. f \in Seq(Bytes)
        BY <3>2
      <4>2. FlattenSeq([m \in 1..(q + 1) |-> Frame(m)]) = f \o Frame(q + 1)
        BY <2>1, SentMore
      <4> HIDE DEF f
      <4>3. f \o Frame(q + 1) \in Seq(Bytes)
        BY <3>1, <4>1, Joining
      <4>4. QED
        BY <4>2, <4>3
    <3>4. QED
      BY <3>3
  <2>2. CASE ~ q < Count
    BY <2>2, CountIsNat
  <2>3. QED
    BY <2>1, <2>2
<1> HIDE DEF S
<1>3. Nat \subseteq S
  BY <1>1, <1>2, Induction
<1>4. QED
  BY <1>3, CountIsNat DEF S

LEMMA UpToIs == \A q : UpTo(q) = Greeting \o FlattenSeq([m \in 1..q |-> Frame(m)])
BY DEF UpTo, Frame

LEMMA UpToBytes ==
  ASSUME NEW q \in 0..Count
  PROVE  UpTo(q) \in Seq(Bytes) /\ End(q) = Len(UpTo(q)) /\ End(q) \in Nat /\ End(q) >= IdLen + 1
<1> DEFINE f == FlattenSeq([m \in 1..q |-> Frame(m)])
<1>1. f \in Seq(Bytes) /\ Greeting \in Seq(Bytes)
  BY SentBytes, GreetingBytes
<1>2. UpTo(q) = Greeting \o f
  BY UpToIs
<1> HIDE DEF f
<1>3. /\ Greeting \o f \in Seq(Bytes) /\ Len(Greeting \o f) = Len(Greeting) + Len(f)
      /\ Len(Greeting) \in Nat /\ Len(f) \in Nat
  BY <1>1, Joining
<1>4. QED
  BY <1>2, <1>3, GreetingBytes DEF End

LEMMA UpToMore ==
  ASSUME NEW q \in Nat, q < Count
  PROVE  /\ UpTo(q + 1) = UpTo(q) \o Frame(q + 1)
         /\ End(q + 1) = End(q) + 4 + BodyLens[q + 1]
<1>1. q \in 0..Count /\ q + 1 \in 1..Count /\ q + 1 \in 0..Count
  BY CountIsNat
<1>2. UpTo(q + 1) = UpTo(q) \o Frame(q + 1)
  <2> DEFINE f == FlattenSeq([m \in 1..q |-> Frame(m)])
             d == Frame(q + 1)
  <2>1. f \in Seq(Bytes) /\ d \in Seq(Bytes) /\ Greeting \in Seq(Bytes)
    BY <1>1, SentBytes, FrameBytes, GreetingBytes
  <2>2. UpTo(q) = Greeting \o f /\ UpTo(q + 1) = Greeting \o (f \o d)
    BY SentMore, UpToIs
  <2> HIDE DEF f, d
  <2>3. (Greeting \o f) \o d = Greeting \o (f \o d)
    BY <2>1, ConcatAssociative
  <2>4. QED
    BY <2>2, <2>3 DEF d
<1>3. UpTo(q) \in Seq(Bytes) /\ Frame(q + 1) \in Seq(Bytes) /\ End(q + 1) = Len(UpTo(q + 1))
  BY <1>1, UpToBytes, FrameBytes
<1>4. Len(UpTo(q) \o Frame(q + 1)) = Len(UpTo(q)) + Len(Frame(q + 1))
  <2> DEFINE u == UpTo(q)
             d == Frame(q + 1)
  <2>1. u \in Seq(Bytes) /\ d \in Seq(Bytes)
    BY <1>3
  <2> HIDE DEF u, d
  <2>2. Len(u \o d) = Len(u) + Len(d)
    BY <2>1, Joining
  <2>3. QED
    BY <2>2 DEF u, d
<1>5. End(q + 1) = Len(UpTo(q)) + Len(Frame(q + 1))
  BY <1>2, <1>3, <1>4
<1>6. End(q + 1) = End(q) + 4 + BodyLens[q + 1]
  <2> DEFINE L == BodyLens[q + 1]
  <2>1. Len(UpTo(q)) = End(q) /\ End(q) \in Nat
    BY <1>1, UpToBytes
  <2>2. Len(Frame(q + 1)) = L + 4 /\ L \in Nat
    BY <1>1, FrameBytes
  <2> HIDE DEF L
  <2>3. End(q + 1) = End(q) + (L + 4)
    BY <1>5, <2>1, <2>2
  <2>4. End(q) + (L + 4) = End(q) + 4 + L
    BY <2>1, <2>2
  <2>5. QED
    BY <2>3, <2>4 DEF L
<1>7. QED
  BY <1>2, <1>6

\* Every message is where UpTo has it.
LEMMA StreamBytes ==
  /\ Stream \in Seq(Bytes) /\ Len(Stream) = End(Count) /\ Len(Stream) \in Nat
<1>1. Count \in 0..Count
  BY CountIsNat
<1>2. QED
  BY <1>1, UpToAll, UpToBytes

LEMMA UpToHolds ==
  ASSUME NEW q \in 0..Count
  PROVE  \A p \in q..Count : End(q) <= End(p) /\ SubSeq(UpTo(p), 1, End(q)) = UpTo(q)
<1> DEFINE Holds(p) == End(q) <= End(p) /\ SubSeq(UpTo(p), 1, End(q)) = UpTo(q)
           S == {k \in Nat : q + k <= Count => Holds(q + k)}
<1>q. q \in Nat /\ Count \in Nat /\ End(q) \in Nat /\ UpTo(q) \in Seq(Bytes) /\ End(q) = Len(UpTo(q))
  BY CountIsNat, UpToBytes
<1>1. 0 \in S
  <2>1. SubSeq(UpTo(q), 1, Len(UpTo(q))) = UpTo(q)
    BY <1>q, Whole
  <2>2. Holds(q + 0)
    BY <1>q, <2>1
  <2>3. QED
    BY <2>2
<1>2. ASSUME NEW k \in Nat, k \in S PROVE k + 1 \in S
  <2>1. SUFFICES ASSUME q + (k + 1) <= Count PROVE Holds(q + (k + 1))
    OBVIOUS
  <2> DEFINE p == q + k
             u == UpTo(p)
             d == Frame(p + 1)
  <2>2. p \in Nat /\ p < Count /\ p \in 0..Count /\ p + 1 \in 1..Count /\ p + 1 = q + (k + 1)
    BY <1>q, <2>1
  <2>3. Holds(p)
    BY <1>2, <2>2, CountIsNat
  <2> HIDE DEF p
  <2>4. /\ UpTo(p + 1) = u \o d /\ u \in Seq(Bytes) /\ d \in Seq(Bytes)
        /\ End(p) = Len(u) /\ End(p) \in Nat
    BY <2>2, UpToMore, UpToBytes, FrameBytes
  <2>5. End(p + 1) = End(p) + 4 + BodyLens[p + 1] /\ BodyLens[p + 1] \in Nat
    BY <2>2, UpToMore, FrameBytes
  <2>6. End(q) <= End(p) /\ End(q) <= End(p + 1)
    BY <1>q, <2>3, <2>4, <2>5
  <2>7. End(q) >= 1
    BY UpToBytes, GreetingBytes
  <2>8. SubSeq(u \o d, 1, End(q)) = SubSeq(u, 1, End(q))
    <3> HIDE DEF u, d
    <3>1. 1 \in 1..Len(u) /\ End(q) \in 1..Len(u)
      BY <1>q, <2>4, <2>6, <2>7
    <3>2. u \in Seq(Bytes) /\ d \in Seq(Bytes)
      BY <2>4
    <3>3. QED
      BY <3>1, <3>2, SubSeqOfConcat1
  <2>9. Holds(p + 1)
    BY <2>3, <2>4, <2>6, <2>8
  <2>10. QED
    BY <2>2, <2>9
<1> HIDE DEF S
<1>3. Nat \subseteq S
  BY <1>1, <1>2, Induction
<1>4. ASSUME NEW p \in q..Count PROVE Holds(p)
  <2>1. p - q \in Nat /\ q + (p - q) = p /\ p <= Count
    BY <1>q
  <2>2. p - q \in S
    BY <1>3, <2>1
  <2>3. QED
    BY <2>1, <2>2 DEF S
<1>5. QED
  BY <1>4

LEMMA StreamHolds ==
  ASSUME NEW q \in 0..Count
  PROVE  End(q) <= Len(Stream) /\ SubSeq(Stream, 1, End(q)) = UpTo(q)
<1>1. Count \in q..Count
  BY CountIsNat
<1>2. QED
  BY <1>1, UpToHolds, UpToAll, StreamBytes

LEMMA FromIs ==
  ASSUME NEW a \in Nat, NEW b \in Nat, a <= b, b <= Len(Stream)
  PROVE  /\ From(a, b) \in Seq(Range(Stream)) /\ From(a, b) \in Seq(Bytes)
         /\ Len(From(a, b)) = b - a
         /\ \A i \in 1..(b - a) : From(a, b)[i] = Stream[a + i]
<1>1. Stream \in Seq(Range(Stream)) /\ Stream \in Seq(Bytes)
  BY StreamBytes, SeqOfRange
<1>2. QED
  BY <1>1, Part DEF From

\* Two lists that are the same at every place.
LEMMA SameList ==
  ASSUME NEW S, NEW s \in Seq(S), NEW t \in Seq(S), NEW n \in Nat, Len(s) = n, Len(t) = n,
         \A i \in 1..n : s[i] = t[i]
  PROVE  s = t
BY SeqEqual

LEMMA FromAt ==
  ASSUME NEW a \in Nat, NEW b \in Nat, b <= Len(Stream),
         NEW i \in Nat, i >= 1, a + i <= b
  PROVE  From(a, b)[i] = Stream[a + i]
<1>1. a <= b /\ i \in 1..(b - a)
  OBVIOUS
<1>2. QED
  BY <1>1, FromIs

LEMMA FromFrom ==
  ASSUME NEW a \in Nat, NEW b \in Nat, NEW c \in Nat, a <= b, b <= c, c <= Len(Stream)
  PROVE  From(a, b) \o From(b, c) = From(a, c)
BY StreamBytes, Glue DEF From

LEMMA PartOfFrom ==
  ASSUME NEW a \in Nat, NEW b \in Nat, NEW i \in Nat, NEW j \in Nat,
         a <= b, b <= Len(Stream), i <= j, j <= b - a
  PROVE  SubSeq(From(a, b), i + 1, j) = From(a + i, a + j)
BY StreamBytes, PartOfPart DEF From

LEMMA PartOfStart ==
  ASSUME NEW b \in Nat, NEW i \in Nat, NEW j \in Nat, b <= Len(Stream), i <= j, j <= b
  PROVE  SubSeq(From(0, b), i + 1, j) = From(i, j)
<1> DEFINE a == 0
<1>1. a \in Nat /\ a <= b /\ j <= b - a /\ a + i = i /\ a + j = j
  OBVIOUS
<1> HIDE DEF a
<1>2. SubSeq(From(a, b), i + 1, j) = From(a + i, a + j)
  BY <1>1, PartOfFrom
<1>3. QED
  BY <1>1, <1>2 DEF a

LEMMA UpToFrom ==
  ASSUME NEW q \in 0..Count
  PROVE  UpTo(q) = From(0, End(q)) /\ End(q) \in Nat /\ End(q) <= Len(Stream) /\ End(q) >= IdLen + 1
<1>1. SubSeq(Stream, 1, End(q)) = SubSeq(Stream, 0 + 1, End(q))
  OBVIOUS
<1>2. QED
  BY <1>1, StreamHolds, UpToBytes DEF From

LEMMA GreetingAt ==
  /\ From(0, IdLen + 1) = Greeting /\ Len(Stream) >= IdLen + 1
  /\ \A i \in 1..(IdLen + 1) : Stream[i] = <<0, i>>
<1>1. 0 \in 0..Count
  BY CountIsNat
<1>2. From(0, IdLen + 1) = Greeting /\ IdLen + 1 \in Nat /\ IdLen + 1 <= Len(Stream) /\ IdLen \in Nat
  BY <1>1, UpToFrom, UpToNone, GreetingBytes
<1>3. ASSUME NEW i \in 1..(IdLen + 1) PROVE Stream[i] = <<0, i>>
  <2> DEFINE n == IdLen + 1
  <2>1. n \in Nat /\ n <= Len(Stream) /\ i \in Nat /\ i >= 1 /\ 0 + i <= n /\ 0 \in Nat
    BY <1>2
  <2>2. Greeting[i] = <<0, i>> /\ From(0, n) = Greeting /\ 0 + i = i
    BY <1>2, GreetingBytes
  <2> HIDE DEF n
  <2>3. From(0, n)[i] = Stream[0 + i]
    BY <2>1, FromAt
  <2>4. QED
    BY <2>2, <2>3
<1>4. QED
  BY <1>2, <1>3, StreamBytes

\* A message's bytes: its length and then its body.
LEMMA FrameAt ==
  ASSUME NEW m \in 1..Count
  PROVE  /\ m - 1 \in 0..Count /\ m \in 0..Count
         /\ End(m) = End(m - 1) + 4 + BodyLens[m]
         /\ \A i \in 1..(4 + BodyLens[m]) : Stream[End(m - 1) + i] = <<m, i>>
<1> DEFINE q == m - 1
           e == End(q)
           u == UpTo(q)
           d == Frame(m)
<1>1. q \in Nat /\ q < Count /\ q \in 0..Count /\ m \in 0..Count /\ q + 1 = m
  BY CountIsNat
<1> HIDE DEF q
<1>2. /\ UpTo(m) = u \o d /\ End(m) = e + 4 + BodyLens[m]
      /\ u \in Seq(Bytes) /\ d \in Seq(Bytes)
  BY <1>1, UpToMore, UpToBytes, FrameBytes
<1>3. Len(u) = e /\ e \in Nat /\ Len(d) = BodyLens[m] + 4 /\ BodyLens[m] \in Nat
  BY <1>1, UpToBytes, FrameBytes
<1>4. ASSUME NEW i \in 1..(4 + BodyLens[m]) PROVE Stream[e + i] = <<m, i>>
  <2>1. d[i] = <<m, i>>
    <3>1. i \in 1..(BodyLens[m] + 4)
      BY <1>3
    <3>2. QED
      BY <3>1, FrameBytes
  <2>2. \A j \in 1..Len(d) : (u \o d)[Len(u) + j] = d[j]
    <3> HIDE DEF u, d
    <3>1. u \in Seq(Bytes) /\ d \in Seq(Bytes)
      BY <1>2
    <3>2. QED
      BY <3>1, Joining
  <2>3. UpTo(m)[e + i] = <<m, i>>
    <3>1. i \in 1..Len(d)
      BY <1>3
    <3>2. (u \o d)[Len(u) + i] = d[i]
      BY <2>2, <3>1
    <3>3. QED
      BY <1>2, <1>3, <2>1, <3>2
  <2>4. UpTo(m) = From(0, End(m)) /\ End(m) \in Nat /\ End(m) <= Len(Stream)
    BY <1>1, UpToFrom
  <2>5. From(0, End(m))[e + i] = Stream[0 + (e + i)]
    <3> DEFINE j == e + i
               b == End(m)
               L == BodyLens[m]
    <3>1. L \in Nat /\ i \in 1..(4 + L) /\ e \in Nat /\ b = e + 4 + L
      BY <1>2, <1>3
    <3>2. b \in Nat /\ b <= Len(Stream)
      BY <2>4
    <3> HIDE DEF b, L, e
    <3>3. j \in Nat /\ j >= 1 /\ 0 + j <= b /\ 0 \in Nat
      BY <3>1
    <3> HIDE DEF j
    <3>4. From(0, b)[j] = Stream[0 + j]
      BY <3>2, <3>3, FromAt
    <3>5. QED
      BY <3>4 DEF j, b
  <2>6. 0 + (e + i) = e + i
    BY <1>3
  <2>7. QED
    BY <2>3, <2>4, <2>5, <2>6
<1>5. QED
  BY <1>1, <1>2, <1>4 DEF q

LEMMA FrameSize ==
  ASSUME NEW m \in 1..Count
  PROVE  /\ End(m - 1) \in Nat /\ End(m) \in Nat /\ BodyLens[m] \in Nat /\ BodyLens[m] >= 2
         /\ End(m) = End(m - 1) + 4 + BodyLens[m]
         /\ IdLen + 1 <= End(m - 1) /\ End(m - 1) + 4 <= End(m)
         /\ End(m) <= Len(Stream) /\ Len(Stream) \in Nat /\ IdLen \in Nat
<1>1. m - 1 \in 0..Count /\ m \in 0..Count /\ End(m) = End(m - 1) + 4 + BodyLens[m]
  BY FrameAt
<1>2. End(m - 1) \in Nat /\ End(m - 1) >= IdLen + 1
  BY <1>1, UpToFrom
<1>3. End(m) \in Nat /\ End(m) <= Len(Stream)
  BY <1>1, UpToFrom
<1>4. BodyLens[m] \in Nat /\ BodyLens[m] >= 2 /\ Len(Stream) \in Nat /\ IdLen \in Nat
  BY FrameBytes, StreamBytes, GreetingBytes
<1>5. QED
  BY <1>1, <1>2, <1>3, <1>4

LEMMA PrefixAt ==
  ASSUME NEW m \in 1..Count
  PROVE  Prefix(m) = From(End(m - 1), End(m - 1) + 4)
<1> DEFINE e == End(m - 1)
           L == BodyLens[m]
           p == Prefix(m)
           b == e + 4
           f == From(e, b)
<1>1. e \in Nat /\ L \in Nat /\ b \in Nat /\ b = e + 4 /\ b <= Len(Stream)
  BY FrameSize
<1>2. /\ \A i \in 1..(4 + L) : Stream[e + i] = <<m, i>>
      /\ p \in Seq(Bytes) /\ Len(p) = 4 /\ \A i \in 1..4 : p[i] = <<m, i>>
  BY FrameAt, FrameBytes DEF Prefix
<1> HIDE DEF e, L, p, b
<1>3. f \in Seq(Bytes) /\ Len(f) = 4
  <2>1. e <= b /\ b - e = 4
    BY <1>1
  <2>2. QED
    BY <1>1, <2>1, FromIs
<1>4. ASSUME NEW i \in 1..4 PROVE f[i] = p[i]
  <2>1. i \in Nat /\ i >= 1 /\ e + i <= b
    BY <1>1
  <2>2. f[i] = Stream[e + i]
    BY <1>1, <2>1, FromAt
  <2>3. i \in 1..(4 + L)
    BY <1>1
  <2>4. QED
    BY <1>2, <2>2, <2>3
<1> HIDE DEF f
<1>5. f = p
  BY <1>2, <1>3, <1>4, SameList
<1>6. QED
  BY <1>5 DEF f, p, e, b

LEMMA BodyAt ==
  ASSUME NEW m \in 1..Count
  PROVE  Body(m) = From(End(m - 1) + 4, End(m))
<1> DEFINE e == End(m - 1)
           L == BodyLens[m]
           b == End(m)
           p == Body(m)
           f == From(e + 4, b)
<1>1. e \in Nat /\ L \in Nat /\ b \in Nat /\ b = e + 4 + L /\ b <= Len(Stream)
  BY FrameSize
<1>2. \A i \in 1..(4 + L) : Stream[e + i] = <<m, i>>
  BY FrameAt
<1>3. p \in Seq(Bytes) /\ Len(p) = L /\ \A i \in 1..L : p[i] = <<m, i + 4>>
  BY FrameBytes DEF Body
<1> HIDE DEF e, L, b, p
<1>4. f \in Seq(Bytes) /\ Len(f) = L
  <2>1. e + 4 \in Nat /\ e + 4 <= b /\ b - (e + 4) = L
    BY <1>1
  <2>2. QED
    BY <1>1, <2>1, FromIs
<1>5. ASSUME NEW i \in 1..L PROVE f[i] = p[i]
  <2> DEFINE a == e + 4
  <2>1. a \in Nat /\ i \in Nat /\ i >= 1 /\ a + i <= b
    BY <1>1
  <2>2. a + i = e + (i + 4) /\ i + 4 \in 1..(4 + L)
    BY <1>1
  <2> HIDE DEF a
  <2>3. From(a, b)[i] = Stream[a + i]
    BY <1>1, <2>1, FromAt
  <2>4. Stream[e + (i + 4)] = <<m, i + 4>>
    BY <1>2, <2>2
  <2>5. QED
    BY <1>3, <2>2, <2>3, <2>4 DEF a
<1> HIDE DEF f
<1>6. f = p
  BY <1>1, <1>3, <1>4, <1>5, SameList
<1>7. QED
  BY <1>6 DEF f, p, e, b

\* And every byte behind the greeting is one of a message's.
LEMMA InSomeFrame ==
  ASSUME NEW n \in Nat, n > IdLen + 1, n <= Len(Stream)
  PROVE  \E m \in 1..Count :
           End(m - 1) < n /\ n <= End(m) /\ Stream[n] = <<m, n - End(m - 1)>>
<1> DEFINE S == {k \in 0..Count : n <= End(k)}
<1>1. Count \in S /\ S \in SUBSET Nat
  BY CountIsNat, StreamBytes
<1> HIDE DEF S
<1>2. PICK m \in S : \A k \in S : m <= k
  BY <1>1, LeastNumber
<1> USE DEF S
<1>3. m # 0
  BY <1>2, UpToNone, GreetingBytes
<1>4. m \in 1..Count /\ n <= End(m) /\ m - 1 \in 0..Count /\ m - 1 \notin S
  BY <1>2, <1>3, CountIsNat
<1>5. End(m - 1) < n /\ End(m - 1) \in Nat
  BY <1>4, UpToFrom
<1>6. Stream[n] = <<m, n - End(m - 1)>>
  <2> DEFINE e == End(m - 1)
             L == BodyLens[m]
             i == n - e
  <2>1. e \in Nat /\ L \in Nat /\ End(m) = e + 4 + L
    BY <1>4, FrameSize
  <2>2. \A k \in 1..(4 + L) : Stream[e + k] = <<m, k>>
    BY <1>4, FrameAt
  <2>3. e < n /\ n <= End(m)
    BY <1>4, <1>5
  <2> HIDE DEF e, L
  <2>4. n = e + i /\ i \in 1..(4 + L)
    BY <2>1, <2>3
  <2> HIDE DEF i
  <2>5. Stream[e + i] = <<m, i>>
    BY <2>2, <2>4
  <2>6. Stream[n] = <<m, i>>
    BY <2>4, <2>5
  <2>7. QED
    BY <2>6 DEF i, e
<1>7. QED
  BY <1>4, <1>5, <1>6

LEMMA EndsGrow ==
  ASSUME NEW p \in 0..Count, NEW q \in p..Count
  PROVE  q \in 0..Count /\ End(p) \in Nat /\ End(q) \in Nat /\ End(p) <= End(q)
BY UpToHolds, UpToFrom, CountIsNat

-----------------------------------------------------------------------------
(* Delicate places *)

LEMMA InnerIs ==
  ASSUME NEW m \in 1..Count, NEW n \in Nat, End(m - 1) < n, n <= End(m)
  PROVE  Inner(n) <=> \/ n <= End(m - 1) + 4 /\ n # End(m - 1) + 1
                      \/ n > End(m - 1) + 4 /\ ZeroTail(m)
<1> DEFINE e == End(m - 1)
           L == BodyLens[m]
           i == n - e
<1>1. /\ e \in Nat /\ L \in Nat /\ End(m) = e + 4 + L /\ End(m) <= Len(Stream)
      /\ Len(Stream) \in Nat /\ m # 0
  BY FrameSize
<1>2. e < n /\ n <= End(m)
  OBVIOUS
<1>3. \A k \in 1..(4 + L) : Stream[e + k] = <<m, k>>
  BY FrameAt
<1> HIDE DEF e, L
<1>4. n = e + i /\ i \in 1..(4 + L) /\ n <= Len(Stream)
  BY <1>1, <1>2
<1>5. i \in 2..4 <=> n <= e + 4 /\ n # e + 1
  BY <1>1, <1>2
<1>6. i > 4 <=> n > e + 4
  BY <1>1
<1> HIDE DEF i
<1>7. Stream[n] = <<m, i>>
  BY <1>3, <1>4
<1>8. Stream[n][1] = m /\ Stream[n][2] = i
  BY <1>7
<1>9. Inner(n) <=> i \in 2..4 \/ (i > 4 /\ ZeroTail(m))
  BY <1>4, <1>8 DEF Inner
<1>10. QED
  BY <1>5, <1>6, <1>9 DEF e

\* Behind the greeting no place but an inner one is delicate; in it, none that a
\* first read ends at.
LEMMA DelicateIs ==
  ASSUME NEW n \in Nat
  PROVE  /\ n > IdLen + 1 => (Delicate(n) <=> Inner(n))
         /\ n \in 1..(IdLen + 1) /\ pc # "greeting" => Delicate(n)
<1>1. ASSUME n > IdLen + 1, n <= Len(Stream) PROVE Delicate(n) <=> Inner(n)
  <2>1. PICK m \in 1..Count : Stream[n] = <<m, n - End(m - 1)>>
    BY <1>1, InSomeFrame
  <2>2. Stream[n][1] # 0
    BY <2>1, CountIsNat
  <2>3. QED
    BY <2>2 DEF Delicate, Inner
<1>2. ASSUME n > IdLen + 1, ~ n <= Len(Stream) PROVE ~ Delicate(n) /\ ~ Inner(n)
  BY <1>2 DEF Delicate, Inner
<1>3. ASSUME n \in 1..(IdLen + 1), pc # "greeting" PROVE Delicate(n)
  <2>1. Stream[n] = <<0, n>> /\ n <= Len(Stream)
    BY <1>3, GreetingAt, StreamBytes, GreetingBytes
  <2>2. QED
    BY <1>3, <2>1 DEF Delicate
<1>4. QED
  BY <1>1, <1>2, <1>3

-----------------------------------------------------------------------------
(* Types, whatever the cuts *)

LEMMA SentIs ==
  ASSUME NEW a \in Nat, NEW b \in Nat, IdLen < a, a <= b, b <= Len(Stream)
  PROVE  From(a, b) \in Seq(Sent)
<1>1. IdLen \in Nat /\ Len(Stream) \in Nat
  BY GreetingBytes, StreamBytes
<1>2. ASSUME NEW i \in (a + 1)..b PROVE Stream[i] \in Sent
  <2>1. i \in (IdLen + 2)..Len(Stream)
    BY <1>1
  <2>2. QED
    BY <2>1 DEF Sent
<1>3. QED
  BY <1>2, SubSeqProperties DEF From

LEMMA SentInStream == Sent \subseteq Range(Stream)
<1>1. \A j \in 1..Len(Stream) : Stream[j] \in Range(Stream)
  BY StreamBytes, SeqOfRange, ElementOfSeq
<1>2. \A j \in (IdLen + 2)..Len(Stream) : j \in 1..Len(Stream)
  BY GreetingBytes, StreamBytes
<1>3. QED
  BY <1>1, <1>2 DEF Sent

LEMMA SentIsMessage ==
  ASSUME NEW b \in Sent
  PROVE  b[1] \in 1..Count
<1>1. PICK j \in (IdLen + 2)..Len(Stream) : b = Stream[j]
  BY DEF Sent
<1>2. j \in Nat /\ j > IdLen + 1 /\ j <= Len(Stream)
  BY GreetingBytes, StreamBytes
<1>3. PICK m \in 1..Count : Stream[j] = <<m, j - End(m - 1)>>
  BY <1>2, InSomeFrame
<1>4. QED
  BY <1>1, <1>3

\* What is cut from bytes of the stream is made of such bytes.
LEMMA CutTypes ==
  ASSUME NEW S, NEW s \in Seq(S), NEW a \in Nat, NEW b \in Nat, b <= Len(s)
  PROVE  /\ SubSeq(s, a + 1, b) \in Seq(S)
         /\ Len(SubSeq(s, a + 1, b)) = IF a <= b THEN b - a ELSE 0
<1>1. Len(s) \in Nat /\ \A i \in 1..Len(s) : s[i] \in S
  BY LenProperties, ElementOfSeq
<1>2. \A i \in (a + 1)..b : s[i] \in S
  BY <1>1
<1>3. /\ SubSeq(s, a + 1, b) \in Seq(S)
      /\ Len(SubSeq(s, a + 1, b)) = IF a + 1 <= b THEN b - (a + 1) + 1 ELSE 0
  BY <1>2, SubSeqProperties
<1>4. QED
  BY <1>3

LEMMA ReadIs ==
  ASSUME TypeOK, NEW n \in 1..BufferSize, NEW k \in Nat, Read(n, k)
  PROVE  /\ pos \in Nat /\ pos' = pos + n /\ pos' \in Nat /\ pos' <= Len(Stream)
         /\ n + k <= BufferSize
         /\ Received(n) = From(pos, pos') /\ Received(n) \in Seq(Range(Stream))
         /\ Len(Received(n)) = n
         /\ pos > IdLen => Received(n) \in Seq(Sent)
         /\ calm' \in BOOLEAN /\ (calm' => calm /\ ~ Delicate(pos' + 1))
<1>1. pos \in Nat /\ BufferSize \in Nat /\ Len(Stream) \in Nat
  BY StreamAssumption, StreamBytes DEF TypeOK
<1>2. n <= BufferSize - k /\ pos + n <= Len(Stream) /\ pos' = pos + n
  BY DEF Read
<1>3. pos' \in Nat /\ pos <= pos' /\ pos' <= Len(Stream) /\ n + k <= BufferSize /\ pos' - pos = n
  BY <1>1, <1>2
<1>4. Received(n) = From(pos, pos')
  BY <1>2 DEF Received, From
<1>5. From(pos, pos') \in Seq(Range(Stream)) /\ Len(From(pos, pos')) = pos' - pos
  BY <1>1, <1>3, FromIs
<1>6. pos > IdLen => From(pos, pos') \in Seq(Sent)
  BY <1>1, <1>3, SentIs, GreetingBytes
<1>7. calm' = (calm /\ ~ Delicate(pos + n + 1))
  BY DEF Read
<1>8. QED
  BY <1>1, <1>2, <1>3, <1>4, <1>5, <1>6, <1>7

TypeInv == TypeOK /\ GreetingInv

\* What is left of the first p bytes when the greeting is cut off.
LEMMA BehindGreeting ==
  ASSUME NEW p \in Nat, p <= Len(Stream), p > IdLen
  PROVE  SubSeq(From(0, p), IdLen + 2, p) = From(IdLen + 1, p)
<1> DEFINE a == IdLen + 1
<1>1. a \in Nat /\ a + 1 = IdLen + 2 /\ a <= p
  BY GreetingBytes
<1> HIDE DEF a
<1>2. SubSeq(From(0, p), a + 1, p) = From(a, p)
  BY <1>1, PartOfStart
<1>3. QED
  BY <1>1, <1>2 DEF a

LEMMA EndGreetingTypes ==
  ASSUME TypeInv, queued = <<>>, NEW p \in Nat, pos' = p, p <= Len(Stream), p <= BufferSize,
         calm' \in BOOLEAN, EndGreeting(From(0, p)),
         pc # "top", pc # "messageRest"
  PROVE  TypeInv'
<1>0. IdLen \in Nat /\ BufferSize \in Nat /\ Len(Stream) \in Nat
  BY StreamAssumption, StreamBytes
<1>1. Len(From(0, p)) = p
  <2>1. 0 \in Nat /\ 0 <= p /\ p - 0 = p
    OBVIOUS
  <2>2. QED
    BY <2>1, FromIs
<1>2. CASE p > IdLen /\ buf' = SubSeq(From(0, p), IdLen + 2, p)
           /\ pc' = "top" /\ UNCHANGED <<currentMessage, msgLen, queued>>
  <2> DEFINE a == IdLen + 1
             rest == From(a, p)
  <2>1. a \in Nat /\ a <= p /\ IdLen < a /\ p > IdLen /\ p - a <= BufferSize
    BY <1>0, <1>2
  <2>2. buf' = rest
    BY <1>2, BehindGreeting
  <2> HIDE DEF a
  <2>3. rest \in Seq(Sent) /\ rest \in Seq(Range(Stream)) /\ Len(rest) = p - a
    BY <2>1, FromIs, SentIs
  <2> HIDE DEF rest
  <2>4. Len(rest) <= BufferSize /\ p \in 0..Len(Stream)
    BY <1>0, <2>1, <2>3
  <2>5. TypeOK'
    BY <1>2, <2>2, <2>3, <2>4 DEF TypeOK, TypeInv
  <2>6. GreetingInv'
    BY <1>2, <2>1, <2>2, <2>3 DEF GreetingInv, TypeInv
  <2>7. QED
    BY <2>5, <2>6 DEF TypeInv
<1>3. CASE Lost
  BY <1>0, <1>3 DEF Lost, TypeInv, TypeOK, GreetingInv
<1>4. QED
  BY <1>1, <1>2, <1>3 DEF EndGreeting

LEMMA CutKeepsTypes ==
  ASSUME TypeInv, pc = "top", NEW bytes \in Seq(Sent), Len(bytes) <= BufferSize,
         NEW n \in Nat, n <= Len(bytes), n >= 1,
         pos' \in Nat, pos' <= Len(Stream), pos' > IdLen, calm' \in BOOLEAN, Cut(bytes, n)
  PROVE  TypeInv'
<1> DEFINE L == BodyLens[bytes[1][1]]
<1>0. IdLen \in Nat /\ BufferSize \in Nat /\ Len(Stream) \in Nat /\ Len(bytes) \in Nat
  BY StreamAssumption, StreamBytes, LenProperties
<1>1. L \in Nat
  <2>1. bytes[1] \in Sent
    BY <1>0, ElementOfSeq
  <2>2. QED
    BY <2>1, SentIsMessage, FrameBytes
<1>2. bytes \in Seq(Range(Stream))
  BY SentInStream, SeqMonotonic
<1>3. CASE Lost
  BY <1>0, <1>3 DEF Lost, TypeInv, TypeOK, GreetingInv
<1>4. CASE /\ n >= 4
           /\ Incomplete(n, L)
           /\ currentMessage' = SubSeq(bytes, 5, n)
           /\ msgLen' = L
           /\ pc' = "messageRest"
           /\ buf' = <<>>
           /\ UNCHANGED queued
  <2>1. SubSeq(bytes, 4 + 1, n) \in Seq(Range(Stream)) /\ Len(SubSeq(bytes, 4 + 1, n)) = n - 4
    <3> DEFINE a == 4
    <3>1. a \in Nat /\ n \in Nat /\ a <= n /\ n <= Len(bytes)
      BY <1>4
    <3> HIDE DEF a
    <3>2. SubSeq(bytes, a + 1, n) \in Seq(Range(Stream)) /\ Len(SubSeq(bytes, a + 1, n)) = n - a
      BY <1>2, <3>1, Part
    <3>3. QED
      BY <3>2 DEF a
  <2>2. currentMessage' \in Seq(Range(Stream)) /\ Len(currentMessage') < msgLen'
    BY <1>1, <1>4, <2>1 DEF Incomplete
  <2>3. <<>> \in Seq(Range(Stream)) /\ <<>> \in Seq(Sent) /\ Len(<<>>) = 0
    BY EmptySeq
  <2>4. TypeOK'
    BY <1>0, <1>1, <1>4, <2>2, <2>3 DEF TypeOK, TypeInv
  <2>5. GreetingInv'
    BY <1>4, <2>2, <2>3 DEF GreetingInv, TypeInv
  <2>6. QED
    BY <2>4, <2>5 DEF TypeInv
<1>5. CASE /\ n >= 4
           /\ ~ Incomplete(n, L)
           /\ queued' = Append(queued, SubSeq(bytes, 5, 4 + L))
           /\ Advance(bytes, 4 + L)
           /\ UNCHANGED <<currentMessage, msgLen, pc>>
  <2> DEFINE c == 4 + L
             d == Len(bytes)
             body == SubSeq(bytes, 4 + 1, c)
             rest == SubSeq(bytes, c + 1, d)
  <2>1. c \in Nat /\ c <= d /\ d \in Nat /\ 4 <= c
    BY <1>0, <1>1, <1>5 DEF Incomplete
  <2>2. queued' = Append(queued, body) /\ buf' = rest
    BY <1>5 DEF Advance
  <2> HIDE DEF c, d
  <2>3. body \in Seq(Range(Stream))
    BY <1>2, <2>1, CutTypes DEF d
  <2>4. rest \in Seq(Range(Stream)) /\ rest \in Seq(Sent) /\ Len(rest) = d - c
    BY <1>2, <2>1, Part DEF d
  <2> HIDE DEF body, rest
  <2>5. queued' \in Seq(Seq(Range(Stream)))
    BY <2>2, <2>3, AppendProperties DEF TypeInv, TypeOK
  <2>6. Len(rest) <= BufferSize
    BY <1>0, <2>1, <2>4 DEF d
  <2>7. TypeOK'
    BY <1>0, <1>5, <2>2, <2>4, <2>5, <2>6 DEF TypeOK, TypeInv
  <2>8. GreetingInv'
    BY <1>5, <2>2, <2>4 DEF GreetingInv, TypeInv
  <2>9. QED
    BY <2>7, <2>8 DEF TypeInv
<1>6. Lost \/ (n >= 4 /\ IF Incomplete(n, L)
                           THEN /\ currentMessage' = SubSeq(bytes, 5, n)
                                /\ msgLen' = L
                                /\ pc' = "messageRest"
                                /\ buf' = <<>>
                                /\ UNCHANGED queued
                           ELSE /\ queued' = Append(queued, SubSeq(bytes, 5, 4 + L))
                                /\ Advance(bytes, 4 + L)
                                /\ UNCHANGED <<currentMessage, msgLen, pc>>)
  BY DEF Cut
<1>7. QED
  BY <1>3, <1>4, <1>5, <1>6

LEMMA InitTypes == Init => TypeInv
<1> SUFFICES ASSUME Init PROVE TypeInv
  OBVIOUS
<1>1. /\ <<>> \in Seq(Range(Stream)) /\ <<>> \in Seq(Seq(Range(Stream))) /\ Len(<<>>) = 0
  BY EmptySeq
<1>2. TypeOK
  BY <1>1, StreamAssumption, StreamBytes DEF Init, TypeOK
<1>3. GreetingInv
  BY DEF Init, GreetingInv
<1>4. QED
  BY <1>2, <1>3 DEF TypeInv

LEMMA ReadGreetingTypes == TypeInv /\ ReadGreeting => TypeInv'
<1> SUFFICES ASSUME TypeInv, ReadGreeting PROVE TypeInv'
  OBVIOUS
<1>1. PICK n \in 1..BufferSize :
        /\ Read(n, 0)
        /\ \/ n > IdLen /\ EndGreeting(Received(n))
           \/ /\ n <= IdLen
              /\ buf' = Received(n)
              /\ pc' = "greetingRest"
              /\ UNCHANGED <<currentMessage, msgLen, queued>>
  BY DEF ReadGreeting
<1>2. /\ pos' = pos + n /\ pos' \in Nat /\ pos' <= Len(Stream) /\ n + 0 <= BufferSize
      /\ Received(n) = From(pos, pos') /\ Received(n) \in Seq(Range(Stream))
      /\ Len(Received(n)) = n /\ calm' \in BOOLEAN
  BY <1>1, ReadIs DEF TypeInv
<1>3. pc = "greeting" /\ pos = 0 /\ queued = <<>> /\ BufferSize \in Nat /\ Len(Stream) \in Nat
  BY StreamAssumption, StreamBytes DEF ReadGreeting, TypeInv, GreetingInv
<1>4. pos' = n /\ n <= BufferSize
  BY <1>2, <1>3
<1>5. CASE EndGreeting(Received(n))
  BY <1>2, <1>3, <1>4, <1>5, EndGreetingTypes
<1>6. CASE /\ n <= IdLen
           /\ buf' = Received(n)
           /\ pc' = "greetingRest"
           /\ UNCHANGED <<currentMessage, msgLen, queued>>
  <2>1. TypeOK'
    BY <1>2, <1>3, <1>4, <1>6 DEF TypeOK, TypeInv
  <2>2. Received(n) = SubSeq(Stream, 1, n)
    BY <1>3 DEF Received
  <2>3. GreetingInv'
    BY <1>3, <1>4, <1>6, <2>2 DEF GreetingInv
  <2>4. QED
    BY <2>1, <2>3 DEF TypeInv
<1>7. QED
  BY <1>1, <1>5, <1>6

LEMMA ReadRestOfGreetingTypes == TypeInv /\ ReadRestOfGreeting => TypeInv'
<1> SUFFICES ASSUME TypeInv, ReadRestOfGreeting PROVE TypeInv'
  OBVIOUS
<1>1. PICK n \in 1..BufferSize : Read(n, Len(buf)) /\ EndGreeting(buf \o Received(n))
  BY DEF ReadRestOfGreeting
<1>2. /\ pc = "greetingRest" /\ queued = <<>> /\ pos \in Nat /\ pos <= Len(Stream)
      /\ buf = SubSeq(Stream, 1, pos)
  BY StreamBytes DEF ReadRestOfGreeting, TypeInv, TypeOK, GreetingInv
<1>3. buf = From(0, pos) /\ Len(buf) = pos
  <2>1. 0 \in Nat /\ 0 <= pos /\ pos - 0 = pos /\ SubSeq(Stream, 1, pos) = SubSeq(Stream, 0 + 1, pos)
    BY <1>2
  <2>2. Len(From(0, pos)) = pos - 0
    BY <1>2, <2>1, FromIs
  <2>3. QED
    BY <1>2, <2>1, <2>2 DEF From
<1>4. /\ pos' = pos + n /\ pos' \in Nat /\ pos' <= Len(Stream) /\ n + Len(buf) <= BufferSize
      /\ Received(n) = From(pos, pos') /\ calm' \in BOOLEAN
  BY <1>1, <1>2, <1>3, ReadIs DEF TypeInv
<1>5. buf \o Received(n) = From(0, pos')
  <2> DEFINE p == pos
             p2 == pos'
  <2>1. 0 \in Nat /\ 0 <= p /\ p <= p2 /\ p2 <= Len(Stream) /\ p \in Nat /\ p2 \in Nat
    BY <1>2, <1>4
  <2>2. buf = From(0, p) /\ Received(n) = From(p, p2)
    BY <1>3, <1>4
  <2> HIDE DEF p, p2
  <2>3. From(0, p) \o From(p, p2) = From(0, p2)
    BY <2>1, FromFrom
  <2>4. QED
    BY <2>2, <2>3 DEF p2
<1>6. pos' <= BufferSize
  BY <1>2, <1>3, <1>4
<1>7. QED
  BY <1>1, <1>2, <1>4, <1>5, <1>6, EndGreetingTypes

LEMMA ReadTopTypes == TypeInv /\ ReadTop => TypeInv'
<1> SUFFICES ASSUME TypeInv, ReadTop PROVE TypeInv'
  OBVIOUS
<1>1. PICK n \in 1..BufferSize : Read(n, Len(buf)) /\ Cut(buf \o Received(n), n)
  BY DEF ReadTop
<1>2. pc = "top" /\ pos > IdLen /\ buf \in Seq(Sent) /\ Len(buf) \in Nat
  BY LenProperties DEF ReadTop, TypeInv, GreetingInv
<1>3. /\ pos \in Nat /\ pos' = pos + n /\ pos' \in Nat /\ pos' <= Len(Stream) /\ n + Len(buf) <= BufferSize
      /\ Received(n) \in Seq(Sent) /\ Len(Received(n)) = n /\ calm' \in BOOLEAN
  BY <1>1, <1>2, ReadIs DEF TypeInv
<1> DEFINE bytes == buf \o Received(n)
<1>4. bytes \in Seq(Sent) /\ Len(bytes) = Len(buf) + Len(Received(n))
  BY <1>2, <1>3, Joining
<1>5. Cut(bytes, n)
  BY <1>1
<1>6. IdLen \in Nat /\ BufferSize \in Nat
  BY StreamAssumption
<1> HIDE DEF bytes
<1>7. Len(bytes) <= BufferSize /\ n <= Len(bytes) /\ n \in Nat /\ n >= 1 /\ pos' > IdLen
  BY <1>2, <1>3, <1>4, <1>6
<1>8. QED
  BY <1>2, <1>3, <1>4, <1>5, <1>7, CutKeepsTypes

LEMMA CutBufferedTypes == TypeInv /\ CutBuffered => TypeInv'
<1> SUFFICES ASSUME TypeInv, CutBuffered PROVE TypeInv'
  OBVIOUS
<1>1. /\ pc = "top" /\ Len(buf) >= 4 /\ Cut(buf, Len(buf)) /\ pos' = pos /\ calm' = calm
      /\ pos > IdLen /\ buf \in Seq(Sent)
  BY DEF CutBuffered, TypeInv, GreetingInv
<1>2. Len(buf) \in Nat
  BY <1>1, LenProperties
<1>3. pos \in Nat /\ pos <= Len(Stream) /\ Len(buf) <= BufferSize /\ calm \in BOOLEAN
  BY StreamBytes DEF TypeInv, TypeOK
<1>4. Len(buf) >= 1 /\ Len(buf) <= Len(buf) /\ pos' \in Nat /\ pos' <= Len(Stream) /\ pos' > IdLen /\ calm' \in BOOLEAN
  BY <1>1, <1>2, <1>3
<1>5. QED
  BY <1>1, <1>2, <1>3, <1>4, CutKeepsTypes

LEMMA ReadRestTypes == TypeInv /\ ReadRest => TypeInv'
<1> SUFFICES ASSUME TypeInv, ReadRest PROVE TypeInv'
  OBVIOUS
<1> DEFINE missing == msgLen - Len(currentMessage)
           whole(n) == currentMessage \o SubSeq(Received(n), 1, missing)
<1>1. PICK n \in 1..BufferSize :
        /\ Read(n, 0)
        /\ \/ /\ n < missing
              /\ currentMessage' = currentMessage \o Received(n)
              /\ UNCHANGED <<buf, msgLen, queued, pc>>
           \/ /\ n >= missing
              /\ \E backup \in Backups(whole(n)) :
                   /\ backup <= missing
                   /\ queued' = Append(queued, SubSeq(whole(n), 1, msgLen - backup))
                   /\ Advance(Received(n), missing - backup)
              /\ currentMessage' = <<>>
              /\ pc' = "top"
              /\ UNCHANGED msgLen
           \/ n >= missing /\ Lost
  BY DEF ReadRest
<1>2. /\ pc = "messageRest" /\ pos > IdLen /\ buf \in Seq(Sent)
      /\ Len(currentMessage) < msgLen
  BY DEF ReadRest, TypeInv, GreetingInv
<1>3. /\ currentMessage \in Seq(Range(Stream)) /\ Len(currentMessage) \in Nat /\ msgLen \in Nat
      /\ queued \in Seq(Seq(Range(Stream))) /\ buf \in Seq(Range(Stream)) /\ Len(buf) <= BufferSize
  BY LenProperties DEF TypeInv, TypeOK
<1>4. /\ pos \in Nat /\ pos' = pos + n /\ pos' \in Nat /\ pos' <= Len(Stream)
      /\ Received(n) \in Seq(Sent) /\ Received(n) \in Seq(Range(Stream))
      /\ Len(Received(n)) = n /\ calm' \in BOOLEAN
  BY <1>1, <1>2, ReadIs DEF TypeInv
<1>5. /\ pos' \in 0..Len(Stream) /\ pos' > IdLen /\ missing \in Nat /\ n \in Nat /\ n <= BufferSize
      /\ IdLen \in Nat /\ BufferSize \in Nat
  BY <1>2, <1>3, <1>4, StreamAssumption, StreamBytes
<1>6. CASE /\ n < missing
           /\ currentMessage' = currentMessage \o Received(n)
           /\ UNCHANGED <<buf, msgLen, queued, pc>>
  <2>1. /\ currentMessage' \in Seq(Range(Stream))
        /\ Len(currentMessage') = Len(currentMessage) + Len(Received(n))
    BY <1>3, <1>4, <1>6, Joining
  <2>2. Len(currentMessage') < msgLen'
    BY <1>3, <1>4, <1>5, <1>6, <2>1
  <2>3. TypeOK'
    BY <1>2, <1>3, <1>4, <1>5, <1>6, <2>1, <2>2 DEF TypeOK
  <2>4. GreetingInv'
    BY <1>2, <1>4, <1>5, <1>6, <2>2 DEF GreetingInv
  <2>5. QED
    BY <2>3, <2>4 DEF TypeInv
<1>7. CASE /\ n >= missing
           /\ \E backup \in Backups(whole(n)) :
                /\ backup <= missing
                /\ queued' = Append(queued, SubSeq(whole(n), 1, msgLen - backup))
                /\ Advance(Received(n), missing - backup)
           /\ currentMessage' = <<>>
           /\ pc' = "top"
           /\ UNCHANGED msgLen
  <2>1. PICK backup \in Backups(whole(n)) :
          /\ backup <= missing
          /\ queued' = Append(queued, SubSeq(whole(n), 1, msgLen - backup))
          /\ buf' = SubSeq(Received(n), missing - backup + 1, Len(Received(n)))
    BY <1>7 DEF Advance
  <2>2. backup \in Nat
    BY DEF Backups
  <2> DEFINE got == SubSeq(Received(n), 0 + 1, missing)
             w == whole(n)
  <2>3. got \in Seq(Range(Stream)) /\ Len(got) = missing
    <3> DEFINE a == 0
               r == Received(n)
    <3>1. a \in Nat /\ a <= missing /\ missing - a = missing /\ r \in Seq(Range(Stream))
          /\ missing <= Len(r) /\ missing \in Nat
      BY <1>4, <1>5, <1>7
    <3> HIDE DEF a, r, missing
    <3>2. SubSeq(r, a + 1, missing) \in Seq(Range(Stream)) /\ Len(SubSeq(r, a + 1, missing)) = missing - a
      BY <3>1, Part
    <3>3. QED
      BY <3>1, <3>2 DEF a, r
  <2>4. w = currentMessage \o got
    OBVIOUS
  <2> HIDE DEF got, w
  <2>5. w \in Seq(Range(Stream)) /\ Len(w) = Len(currentMessage) + Len(got)
    BY <1>3, <2>3, <2>4, Joining
  <2>6. Len(w) = msgLen
    BY <1>3, <2>3, <2>5
  <2> DEFINE c == msgLen - backup
             piece == SubSeq(w, 0 + 1, c)
             d == missing - backup
             rest == SubSeq(Received(n), d + 1, n)
  <2>7. c \in Nat /\ c <= Len(w) /\ d \in Nat /\ d <= n
    <3>1. n >= missing /\ backup <= missing
      BY <1>7, <2>1
    <3>2. Len(currentMessage) \in Nat /\ msgLen \in Nat /\ n \in Nat
      BY <1>3, <1>5
    <3>3. QED
      BY <2>2, <2>6, <3>1, <3>2
  <2>8. queued' = Append(queued, piece) /\ buf' = rest
    BY <1>4, <2>1 DEF w
  <2> HIDE DEF c, d
  <2>9. piece \in Seq(Range(Stream))
    <3>1. 0 \in Nat
      OBVIOUS
    <3>2. QED
      BY <2>5, <2>7, <3>1, CutTypes
  <2>10. rest \in Seq(Range(Stream)) /\ rest \in Seq(Sent) /\ Len(rest) = n - d
    BY <1>4, <1>5, <2>7, Part
  <2> HIDE DEF piece, rest
  <2>11. queued' \in Seq(Seq(Range(Stream)))
    BY <1>3, <2>8, <2>9, AppendProperties
  <2>12. Len(rest) <= BufferSize
    BY <1>5, <2>7, <2>10
  <2>13. <<>> \in Seq(Range(Stream))
    BY EmptySeq
  <2>14. TypeOK'
    BY <1>3, <1>4, <1>5, <1>7, <2>8, <2>10, <2>11, <2>12, <2>13 DEF TypeOK
  <2>15. GreetingInv'
    BY <1>4, <1>5, <1>7, <2>8, <2>10 DEF GreetingInv
  <2>16. QED
    BY <2>14, <2>15 DEF TypeInv
<1>8. CASE Lost
  <2>1. TypeOK'
    BY <1>3, <1>4, <1>5, <1>8 DEF TypeOK, Lost
  <2>2. GreetingInv'
    BY <1>8 DEF GreetingInv, Lost
  <2>3. QED
    BY <2>1, <2>2 DEF TypeInv
<1>9. QED
  BY <1>1, <1>6, <1>7, <1>8

LEMMA NextTypes == TypeInv /\ [Next]_vars => TypeInv'
<1> SUFFICES ASSUME TypeInv, [Next]_vars PROVE TypeInv'
  OBVIOUS
<1>1. CASE Next
  BY <1>1, ReadGreetingTypes, ReadRestOfGreetingTypes, ReadTopTypes, CutBufferedTypes, ReadRestTypes
     DEF Next
<1>2. CASE UNCHANGED vars
  BY <1>2 DEF vars, TypeInv, TypeOK, GreetingInv
<1>3. QED
  BY <1>1, <1>2

LEMMA Types == Spec => []TypeInv
<1>1. QED
  BY InitTypes, NextTypes, PTL DEF Spec

\* The reader's state has its types, and the buffer its size, however the stream
\* is cut (handshake_peer, Run).
THEOREM FramingTypes == Spec => []TypeOK
<1>1. TypeInv => TypeOK
  BY DEF TypeInv
<1>2. QED
  BY <1>1, Types, PTL

-----------------------------------------------------------------------------
(* The place in the stream, as long as no cut was delicate *)

LEMMA QueuedIs ==
  ASSUME NEW S, NEW s \in Seq(S)
  PROVE  IsPrefix(s, Messages)
           <=> Len(s) <= Count /\ \A m \in 1..Len(s) : s[m] = Body(m)
<1> DEFINE n == Len(s)
           B == {Body(m) : m \in 1..Count}
<1>1. n \in Nat
  BY LenProperties
<1>2. Messages = [m \in 1..Count |-> Body(m)]
  BY CountIsNat DEF Messages
<1>3. \A m \in 1..Count : Body(m) \in B
  OBVIOUS
<1> HIDE DEF B
<1>4. Messages \in [1..Count -> B]
  BY <1>2, <1>3
<1>5. Messages \in Seq(B) /\ Len(Messages) = Count /\ \A m \in 1..Count : Messages[m] = Body(m)
  BY <1>2, <1>4, CountIsNat
<1>6. SubSeq(s, 1, n) = s
  BY Whole
<1>7. ASSUME n <= Count
      PROVE  SubSeq(Messages, 1, n) = [m \in 1..n |-> Body(m)]
  <2> DEFINE t == SubSeq(Messages, 0 + 1, n)
  <2>1. 0 \in Nat /\ 0 <= n /\ n <= Len(Messages) /\ n - 0 = n
    BY <1>1, <1>5, <1>7
  <2>2. t \in Seq(B) /\ Len(t) = n - 0 /\ \A m \in 1..(n - 0) : t[m] = Messages[0 + m]
    BY <1>1, <1>5, <2>1, Part
  <2>3. t = [m \in 1..n |-> t[m]]
    <3> HIDE DEF t
    <3>1. Len(t) = n
      BY <1>1, <2>2
    <3>2. QED
      BY <2>2, <3>1
  <2>4. ASSUME NEW m \in 1..n PROVE t[m] = Body(m)
    <3>1. m \in 1..Count /\ m \in 1..(n - 0) /\ 0 + m = m
      BY <1>1, <1>7, CountIsNat
    <3>2. QED
      BY <1>5, <2>2, <3>1
  <2> HIDE DEF t
  <2>5. t = [m \in 1..n |-> Body(m)]
    BY <2>3, <2>4
  <2>6. QED
    BY <2>5 DEF t
<1>8. s = [m \in 1..n |-> s[m]]
  BY LenProperties
<1>9. IsPrefix(s, Messages) <=> n <= Count /\ s = SubSeq(Messages, 1, n)
  BY <1>5, <1>6 DEF IsPrefix
<1> HIDE DEF n
<1>10. (\A m \in 1..n : s[m] = Body(m)) <=> s = [m \in 1..n |-> Body(m)]
  BY <1>8
<1>11. QED
  BY <1>7, <1>9, <1>10 DEF n

\* A queue that had the first q messages has one more.
LEMMA QueueMore ==
  ASSUME queued \in Seq(Seq(Range(Stream))), IsPrefix(queued, Messages),
         Len(queued) < Count, NEW b \in Seq(Range(Stream)), b = Body(Len(queued) + 1),
         queued' = Append(queued, b)
  PROVE  IsPrefix(queued, Messages)' /\ Len(queued') = Len(queued) + 1
<1> DEFINE q == Len(queued)
           more == Append(queued, b)
<1>1. q \in Nat /\ q + 1 <= Count
  BY LenProperties, CountIsNat
<1>2. \A m \in 1..q : queued[m] = Body(m)
  BY QueuedIs
<1>3. /\ more \in Seq(Seq(Range(Stream))) /\ Len(more) = q + 1
      /\ \A m \in 1..q : more[m] = queued[m]
      /\ more[q + 1] = b
  BY AppendProperties
<1> HIDE DEF more
<1>4. \A m \in 1..(q + 1) : m \in 1..q \/ m = q + 1
  BY <1>1
<1>5. \A m \in 1..Len(more) : more[m] = Body(m)
  BY <1>2, <1>3, <1>4
<1>6. IsPrefix(more, Messages)
  BY <1>1, <1>3, <1>5, QueuedIs
<1>7. QED
  BY <1>3, <1>6 DEF more

LEMMA GreetingInPlace ==
  ASSUME NEW p \in Nat, pos' = p, p <= Len(Stream), p > IdLen, queued = <<>>,
         ~ Inner(p + 1), EndGreeting(From(0, p))
  PROVE  PlaceInv'
<1>1. Len(From(0, p)) = p
  <2>1. 0 \in Nat /\ 0 <= p /\ p - 0 = p
    OBVIOUS
  <2>2. QED
    BY <2>1, FromIs
<1>2. /\ buf' = SubSeq(From(0, p), IdLen + 2, p) /\ pc' = "top" /\ queued' = <<>>
  <2>1. ~ (p <= IdLen)
    BY GreetingBytes
  <2>2. QED
    BY <1>1, <2>1 DEF EndGreeting
<1>3. buf' = From(IdLen + 1, p)
  BY <1>2, BehindGreeting
<1>4. End(0) = IdLen + 1 /\ End(0) <= p
  BY UpToNone, GreetingBytes
<1>5. Len(<<>>) = 0 /\ IsPrefix(<<>>, Messages)
  <2>1. <<>> \in Seq({}) /\ Len(<<>>) = 0
    BY EmptySeq
  <2>2. Len(<<>>) <= Count /\ \A m \in 1..Len(<<>>) : <<>>[m] = Body(m)
    BY <2>1, CountIsNat
  <2>3. QED
    BY <2>1, <2>2, QueuedIs
<1>6. IsPrefix(queued', Messages) /\ Len(queued') = 0
  BY <1>2, <1>5
<1>7. QED
  BY <1>2, <1>3, <1>4, <1>6 DEF PlaceInv

LEMMA CutInPlace ==
  ASSUME TypeInv, IsPrefix(queued, Messages), pc = "top",
         NEW p \in Nat, pos' = p, p <= Len(Stream), ~ Inner(p + 1),
         NEW e \in Nat, e = End(Len(queued)), e + 4 <= p,
         Cut(From(e, p), p - e)
  PROVE  PlaceInv'
<1> DEFINE q == Len(queued)
           m == q + 1
           L == BodyLens[m]
           bytes == From(e, p)
           n == p - e
<1>1. queued \in Seq(Seq(Range(Stream))) /\ q \in Nat /\ q <= Count
  BY LenProperties, QueuedIs DEF TypeInv, TypeOK
<1>2. q < Count
  <2>1. q = Count => e = Len(Stream)
    BY StreamBytes
  <2>2. QED
    BY <1>1, <2>1, CountIsNat
<1>3. m \in 1..Count /\ m - 1 = q
  BY <1>1, <1>2, CountIsNat
<1>4. /\ L \in Nat /\ End(m) = e + 4 + L /\ End(m) \in Nat /\ End(m) <= Len(Stream)
  BY <1>3, FrameSize
<1>5. /\ n \in Nat /\ p \in Nat /\ e \in Nat /\ n >= 4 /\ e <= p /\ e + n = p /\ p - e = n
      /\ p <= Len(Stream)
  OBVIOUS
<1>6. bytes \in Seq(Range(Stream)) /\ Len(bytes) = n /\ \A i \in 1..n : bytes[i] = Stream[e + i]
  BY <1>5, FromIs
<1>7. bytes[1][1] = m
  <2>1. Stream[End(m - 1) + 1] = <<m, 1>>
    <3>1. \A i \in 1..(4 + L) : Stream[End(m - 1) + i] = <<m, i>>
      BY <1>3, FrameAt
    <3>2. 1 \in 1..(4 + L)
      BY <1>4
    <3> HIDE DEF L, m
    <3>3. QED
      BY ONLY <3>1, <3>2
  <2>2. bytes[1] = <<m, 1>>
    BY <1>3, <1>5, <1>6, <2>1
  <2>3. QED
    BY <2>2
<1>8. ASSUME NEW i \in Nat, NEW j \in Nat, i <= j, j <= n
      PROVE  SubSeq(bytes, i + 1, j) = From(e + i, e + j)
  <2>1. /\ i \in Nat /\ j \in Nat /\ i <= j /\ j <= p - e
        /\ e \in Nat /\ p \in Nat /\ e <= p /\ p <= Len(Stream)
    BY <1>5, <1>8
  <2>2. QED
    BY ONLY <2>1, PartOfFrom
<1>cut. Cut(bytes, n)
  OBVIOUS
<1> HIDE DEF n
<1>9. IsPrefix(Prefix(m), bytes)
  <2>1. Prefix(m) = From(e, e + 4) /\ Prefix(m) \in Seq(Bytes) /\ Len(Prefix(m)) = 4
    BY <1>3, PrefixAt, FrameBytes
  <2>2. SubSeq(bytes, 1, 4) = From(e, e + 4)
    <3> DEFINE i == 0
               j == 4
    <3>1. i \in Nat /\ j \in Nat /\ i <= j /\ j <= n /\ i + 1 = 1 /\ e + i = e
      BY <1>5
    <3> HIDE DEF i, j, bytes
    <3>2. SubSeq(bytes, i + 1, j) = From(e + i, e + j)
      BY <1>8, <3>1
    <3>3. QED
      BY <3>1, <3>2 DEF j
  <2>3. SubSeq(Prefix(m), 1, Len(Prefix(m))) = Prefix(m)
    BY <2>1, Whole
  <2>4. QED
    BY <1>5, <1>6, <2>1, <2>2, <2>3 DEF IsPrefix
<1>10. IF Incomplete(n, L)
       THEN /\ currentMessage' = SubSeq(bytes, 5, n)
            /\ msgLen' = L
            /\ pc' = "messageRest"
            /\ buf' = <<>>
            /\ UNCHANGED queued
       ELSE /\ queued' = Append(queued, SubSeq(bytes, 5, 4 + L))
            /\ Advance(bytes, 4 + L)
            /\ UNCHANGED <<currentMessage, msgLen, pc>>
  <2>1. n >= 4 /\ ~ (n < 4)
    BY <1>5
  <2> HIDE DEF bytes
  <2>2. QED
    BY ONLY <1>7, <1>9, <1>cut, <2>1 DEF Cut
<1>11. CASE Incomplete(n, L)
  <2>1. p < End(m) /\ End(q) + 4 <= p
    <3>1. n - 4 < L
      BY <1>11 DEF Incomplete
    <3> HIDE DEF L
    <3>2. p < End(m)
      BY ONLY <1>4, <1>5, <3>1
    <3>3. QED
      BY <3>2
  <2>2. currentMessage' = From(e + 4, p)
    <3> DEFINE i == 4
    <3>1. i \in Nat /\ i <= n /\ i + 1 = 5 /\ e + n = p
      BY <1>5
    <3> HIDE DEF i, bytes
    <3>2. SubSeq(bytes, i + 1, n) = From(e + i, e + n)
      BY ONLY <1>5, <1>8, <3>1
    <3>3. QED
      BY <1>10, <1>11, <3>1, <3>2 DEF i
  <2>3. ~ ZeroTail(m)
    <3> DEFINE k == p + 1
    <3>1. k \in Nat /\ End(m - 1) < k /\ k <= End(m) /\ k > End(m - 1) + 4
      BY <1>3, <1>4, <2>1
    <3>2. ~ Inner(k)
      OBVIOUS
    <3> HIDE DEF k, m
    <3>3. QED
      BY <1>3, <3>1, <3>2, InnerIs
  <2>4. pc' = "messageRest" /\ queued' = queued /\ msgLen' = L
    BY <1>10, <1>11
  <2>5. QED
    BY <1>2, <2>1, <2>2, <2>3, <2>4 DEF PlaceInv, Count
<1>12. CASE ~ Incomplete(n, L)
  <2> DEFINE c == 4 + L
  <2>1. c \in Nat /\ c <= n /\ 4 <= c /\ e + c = End(m) /\ e + n = p /\ End(m) <= p
    <3>1. ~ (n - 4 < L)
      BY <1>12 DEF Incomplete
    <3> HIDE DEF L
    <3>2. QED
      BY ONLY <1>4, <1>5, <3>1
  <2> HIDE DEF c
  <2>2. SubSeq(bytes, 5, c) = Body(m)
    <3> DEFINE i == 4
    <3>1. i \in Nat /\ i <= c /\ i + 1 = 5
      BY <2>1
    <3> HIDE DEF i, bytes
    <3>2. SubSeq(bytes, i + 1, c) = From(e + i, e + c)
      BY <1>8, <2>1, <3>1
    <3>3. Body(m) = From(e + 4, End(m))
      BY <1>3, BodyAt
    <3>4. QED
      BY <2>1, <3>1, <3>2, <3>3 DEF i
  <2>3. SubSeq(bytes, c + 1, n) = From(End(m), p)
    <3>0. c \in Nat /\ n \in Nat /\ c <= n /\ n <= n
      BY <1>5, <2>1
    <3> HIDE DEF bytes
    <3>1. SubSeq(bytes, c + 1, n) = From(e + c, e + n)
      BY ONLY <1>8, <3>0
    <3>2. QED
      BY <2>1, <3>1
  <2>4. queued' = Append(queued, Body(m)) /\ buf' = From(End(m), p) /\ pc' = "top"
    BY <1>6, <1>10, <1>12, <2>2, <2>3 DEF Advance, c
  <2>5. Body(m) \in Seq(Range(Stream))
    <3>1. SubSeq(bytes, 4 + 1, c) \in Seq(Range(Stream))
      BY <1>6, <2>1, CutTypes
    <3>2. 4 + 1 = 5
      OBVIOUS
    <3>3. QED
      BY <2>2, <3>1, <3>2
  <2>6. IsPrefix(queued, Messages)' /\ Len(queued') = m
    BY <1>1, <1>2, <2>4, <2>5, QueueMore
  <2>7. QED
    BY <2>1, <2>4, <2>6 DEF PlaceInv
<1>13. QED
  BY <1>11, <1>12

LEMMA InitPlace == Init => PlaceInv
<1> SUFFICES ASSUME Init PROVE PlaceInv
  OBVIOUS
<1>1. <<>> \in Seq({}) /\ Len(<<>>) = 0
  BY EmptySeq
<1>2. Len(<<>>) <= Count /\ \A m \in 1..Len(<<>>) : <<>>[m] = Body(m)
  BY <1>1, CountIsNat
<1>3. IsPrefix(<<>>, Messages)
  BY <1>1, <1>2, QueuedIs
<1>4. QED
  BY <1>3 DEF Init, PlaceInv

LEMMA ReadGreetingPlace == TypeInv /\ PlaceInv /\ ReadGreeting => PlaceInv'
<1> SUFFICES ASSUME TypeInv, PlaceInv, ReadGreeting, calm' PROVE PlaceInv'
  BY DEF PlaceInv
<1>1. PICK n \in 1..BufferSize :
        /\ Read(n, 0)
        /\ \/ n > IdLen /\ EndGreeting(Received(n))
           \/ /\ n <= IdLen
              /\ buf' = Received(n)
              /\ pc' = "greetingRest"
              /\ UNCHANGED <<currentMessage, msgLen, queued>>
  BY DEF ReadGreeting
<1>2. /\ pos' = pos + n /\ pos' \in Nat /\ pos' <= Len(Stream)
      /\ Received(n) = From(pos, pos') /\ calm /\ ~ Delicate(pos' + 1)
  BY <1>1, ReadIs DEF TypeInv
<1>3. pos = 0 /\ queued = <<>> /\ n \in Nat
  BY DEF ReadGreeting, TypeInv, GreetingInv
<1>4. pos' = n
  BY <1>2, <1>3
<1>5. CASE n > IdLen /\ EndGreeting(Received(n))
  <2>1. n + 1 \in Nat /\ n + 1 > IdLen + 1
    BY <1>3, <1>5, GreetingBytes
  <2>2. ~ Inner(n + 1)
    BY <1>2, <1>4, <2>1, DelicateIs
  <2>3. EndGreeting(From(0, n)) /\ n <= Len(Stream)
    BY <1>2, <1>3, <1>4, <1>5
  <2>4. QED
    BY <1>3, <1>4, <1>5, <2>2, <2>3, GreetingInPlace
<1>6. CASE pc' = "greetingRest" /\ UNCHANGED <<currentMessage, msgLen, queued>>
  BY <1>2, <1>6 DEF PlaceInv
<1>7. QED
  BY <1>1, <1>5, <1>6

LEMMA ReadRestOfGreetingPlace == TypeInv /\ PlaceInv /\ ReadRestOfGreeting => PlaceInv'
<1> SUFFICES ASSUME TypeInv, PlaceInv, ReadRestOfGreeting, calm' PROVE PlaceInv'
  BY DEF PlaceInv
<1>1. PICK n \in 1..BufferSize : Read(n, Len(buf)) /\ EndGreeting(buf \o Received(n))
  BY DEF ReadRestOfGreeting
<1>2. /\ pc = "greetingRest" /\ queued = <<>> /\ pos \in Nat /\ pos <= Len(Stream)
      /\ buf = SubSeq(Stream, 1, pos)
  BY StreamBytes DEF ReadRestOfGreeting, TypeInv, TypeOK, GreetingInv
<1>3. buf = From(0, pos) /\ Len(buf) = pos
  <2>1. 0 \in Nat /\ 0 <= pos /\ pos - 0 = pos /\ SubSeq(Stream, 1, pos) = SubSeq(Stream, 0 + 1, pos)
    BY <1>2
  <2>2. Len(From(0, pos)) = pos - 0
    BY <1>2, <2>1, FromIs
  <2>3. QED
    BY <1>2, <2>1, <2>2 DEF From
<1>4. /\ pos' = pos + n /\ pos' \in Nat /\ pos' <= Len(Stream)
      /\ Received(n) = From(pos, pos') /\ ~ Delicate(pos' + 1)
  BY <1>1, <1>2, <1>3, ReadIs DEF TypeInv
<1>5. buf \o Received(n) = From(0, pos')
  <2> DEFINE p == pos
             p2 == pos'
  <2>1. 0 \in Nat /\ 0 <= p /\ p <= p2 /\ p2 <= Len(Stream) /\ p \in Nat /\ p2 \in Nat
    BY <1>2, <1>4
  <2>2. buf = From(0, p) /\ Received(n) = From(p, p2)
    BY <1>3, <1>4
  <2> HIDE DEF p, p2
  <2>3. From(0, p) \o From(p, p2) = From(0, p2)
    BY <2>1, FromFrom
  <2>4. QED
    BY <2>2, <2>3 DEF p2
<1>6. pos' + 1 \in Nat /\ pos' + 1 >= 1 /\ IdLen \in Nat
  BY <1>4, GreetingBytes
<1>7. pos' + 1 > IdLen + 1
  <2>1. SUFFICES ASSUME pos' + 1 \in 1..(IdLen + 1) PROVE FALSE
    BY <1>6
  <2>2. pc # "greeting"
    BY <1>2
  <2>3. QED
    BY <1>4, <1>6, <2>1, <2>2, DelicateIs
<1>8. ~ Inner(pos' + 1) /\ pos' > IdLen
  BY <1>4, <1>6, <1>7, DelicateIs
<1>9. QED
  BY <1>1, <1>2, <1>4, <1>5, <1>8, GreetingInPlace

LEMMA ReadTopPlace == TypeInv /\ PlaceInv /\ ReadTop => PlaceInv'
<1> SUFFICES ASSUME TypeInv, PlaceInv, ReadTop, calm' PROVE PlaceInv'
  BY DEF PlaceInv
<1> DEFINE q == Len(queued)
           e == End(q)
           m == q + 1
<1>1. PICK n \in 1..BufferSize : Read(n, Len(buf)) /\ Cut(buf \o Received(n), n)
  BY DEF ReadTop
<1>2. pc = "top" /\ Len(buf) < 4 /\ pos > IdLen /\ buf \in Seq(Sent) /\ Len(buf) \in Nat
  BY LenProperties DEF ReadTop, TypeInv, GreetingInv
<1>3. /\ pos \in Nat /\ pos' = pos + n /\ pos' \in Nat /\ pos' <= Len(Stream)
      /\ Received(n) = From(pos, pos') /\ Len(Received(n)) = n /\ Received(n) \in Seq(Sent)
      /\ calm /\ ~ Delicate(pos' + 1)
  BY <1>1, <1>2, ReadIs DEF TypeInv
<1>4. /\ IsPrefix(queued, Messages) /\ ~ Inner(pos + 1)
      /\ e <= pos /\ buf = From(e, pos)
  BY <1>2, <1>3 DEF PlaceInv
<1>5. queued \in Seq(Seq(Range(Stream))) /\ q \in Nat /\ q <= Count
  BY <1>4, LenProperties, QueuedIs DEF TypeInv, TypeOK
<1>6. q \in 0..Count /\ e \in Nat /\ n \in Nat /\ n >= 1 /\ IdLen \in Nat
  BY <1>5, CountIsNat, UpToFrom, GreetingBytes
\* There is a message to come.
<1>7. q < Count
  <2>1. q = Count => e = Len(Stream)
    BY StreamBytes
  <2> HIDE DEF e, q
  <2>2. e # Len(Stream)
    BY <1>3, <1>4, <1>6, StreamBytes
  <2>3. QED
    BY <1>5, <2>1, <2>2, CountIsNat
<1>8. m \in 1..Count /\ m - 1 = q
  BY <1>5, <1>7, CountIsNat
<1>9. End(m) = e + 4 + BodyLens[m] /\ BodyLens[m] \in Nat /\ BodyLens[m] >= 2 /\ End(m) \in Nat
  BY <1>8, FrameSize
\* Nothing of it has been read, for its length is not cut.
<1>10. pos = e
  <2> SUFFICES ASSUME pos # e PROVE FALSE
    OBVIOUS
  <2>1. Len(buf) = pos - e
    <3> HIDE DEF e
    <3>1. pos <= Len(Stream)
      BY <1>3, <1>6, StreamBytes
    <3>2. QED
      BY <1>3, <1>4, <1>6, <3>1, FromIs
  <2> DEFINE k == pos + 1
             f == End(m - 1)
  <2>2. f = e
    BY <1>8
  <2> HIDE DEF e, m, f
  <2>3. k \in Nat /\ f < k /\ k <= End(m) /\ k <= f + 4 /\ k # f + 1
    BY <1>2, <1>3, <1>4, <1>6, <1>9, <2>1, <2>2
  <2>4. ~ Inner(k)
    BY <1>4
  <2> HIDE DEF k
  <2>5. QED
    BY <1>8, <2>3, <2>4, InnerIs DEF f
<1>11. buf = <<>> /\ buf \o Received(n) = From(e, pos')
  <2> HIDE DEF e
  <2>1. Len(buf) = 0
    <3>1. e <= e /\ e <= Len(Stream) /\ e - e = 0
      BY <1>3, <1>6, <1>10, StreamBytes
    <3>2. Len(From(e, e)) = e - e
      BY <1>6, <3>1, FromIs
    <3>3. QED
      BY <1>4, <1>10, <3>1, <3>2
  <2>2. buf = <<>>
    BY <1>2, <2>1, EmptySeq
  <2>3. QED
    BY <1>3, <1>10, <2>2, ConcatEmptySeq
<1>12. pos' + 1 \in Nat /\ pos' + 1 > IdLen + 1
  BY <1>2, <1>3, <1>6
<1>13. ~ Inner(pos' + 1)
  BY <1>3, <1>12, DelicateIs
<1>14. e + 4 <= pos'
  <2> DEFINE k == pos' + 1
             f == End(m - 1)
  <2>1. f = e
    BY <1>8
  <2>2. ~ Inner(k) /\ k \in Nat
    BY <1>12, <1>13
  <2> HIDE DEF e, m, f
  <2>3. SUFFICES ASSUME pos' < e + 4 PROVE FALSE
    BY <1>3, <1>6
  <2>4. f < k /\ k <= End(m) /\ k <= f + 4 /\ k # f + 1
    BY <1>3, <1>6, <1>9, <1>10, <2>1, <2>3
  <2> HIDE DEF k
  <2>5. QED
    BY <1>8, <2>2, <2>4, InnerIs DEF f
<1>15. n = pos' - e
  BY <1>3, <1>6, <1>10
<1>16. Cut(From(e, pos'), pos' - e)
  BY <1>1, <1>11, <1>15
<1> HIDE DEF e
<1>17. QED
  BY <1>2, <1>3, <1>4, <1>6, <1>13, <1>14, <1>16, CutInPlace DEF e

LEMMA CutBufferedPlace == TypeInv /\ PlaceInv /\ CutBuffered => PlaceInv'
<1> SUFFICES ASSUME TypeInv, PlaceInv, CutBuffered, calm' PROVE PlaceInv'
  BY DEF PlaceInv
<1> DEFINE q == Len(queued)
           e == End(q)
<1>1. /\ pc = "top" /\ Len(buf) >= 4 /\ Cut(buf, Len(buf)) /\ pos' = pos /\ calm
  BY DEF CutBuffered
<1>2. /\ IsPrefix(queued, Messages) /\ ~ Inner(pos + 1)
      /\ e <= pos /\ buf = From(e, pos)
  BY <1>1 DEF PlaceInv
<1>3. queued \in Seq(Seq(Range(Stream))) /\ q \in Nat /\ q <= Count
  BY <1>2, LenProperties, QueuedIs DEF TypeInv, TypeOK
<1>4. e \in Nat /\ pos \in Nat /\ pos <= Len(Stream)
  BY <1>3, CountIsNat, UpToFrom, StreamBytes DEF TypeInv, TypeOK
<1> HIDE DEF e
<1>5. Len(buf) = pos - e
  BY <1>2, <1>4, FromIs
<1>6. e + 4 <= pos /\ Cut(From(e, pos), pos - e)
  BY <1>1, <1>2, <1>4, <1>5
<1>7. QED
  BY <1>1, <1>2, <1>4, <1>6, CutInPlace DEF e

\* No byte is stripped from a message without a zero at its end.
LEMMA NothingIsStripped ==
  ASSUME NEW m \in 1..Count, ~ ZeroTail(m)
  PROVE  Backups(Body(m)) = {0}
<1> DEFINE L == BodyLens[m]
           w == Body(m)
<1>1. L \in Nat /\ L >= 2 /\ Len(w) = L /\ \A i \in 1..L : w[i] = <<m, i + 4>>
  BY FrameBytes DEF Body
<1>2. w[L] = <<m, L + 4>> /\ w[L - 1] = <<m, L + 3>>
  <2> DEFINE i == L - 1
  <2>1. i \in 1..L /\ L \in 1..L /\ i + 4 = L + 3
    BY <1>1
  <2> HIDE DEF i, L, w
  <2>2. w[i] = <<m, i + 4>> /\ w[L] = <<m, L + 4>>
    BY <1>1, <2>1
  <2>3. QED
    BY <2>1, <2>2 DEF i
<1>3. <<m, L + 3>> \notin Zeros /\ <<m, L + 4>> \notin Zeros
  BY DEF ZeroTail
<1> HIDE DEF L, w
<1>4. ~ IsZero(w[L]) /\ ~ IsZero(w[L - 1])
  BY <1>1, <1>2, <1>3 DEF IsZero
<1> DEFINE leaves == {k \in 0..(Len(w) - 2) :
                        ~ IsZero(w[Len(w) - k]) /\ ~ IsZero(w[Len(w) - k - 1])}
<1>5. 0 \in leaves
  <2>1. 0 \in 0..(L - 2) /\ L - 0 = L
    BY <1>1
  <2>2. QED
    BY <1>1, <1>4, <2>1
<1>6. \A k \in leaves : 0 <= k /\ (k <= 0 => k = 0)
  BY <1>1
<1>7. Backups(w) = {k \in leaves : \A j \in leaves : k <= j}
  BY DEF Backups
<1> HIDE DEF leaves
<1>8. QED
  BY <1>5, <1>6, <1>7 DEF w

LEMMA ReadRestPlace == TypeInv /\ PlaceInv /\ ReadRest => PlaceInv'
<1> SUFFICES ASSUME TypeInv, PlaceInv, ReadRest, calm' PROVE PlaceInv'
  BY DEF PlaceInv
<1> DEFINE missing == msgLen - Len(currentMessage)
           whole(n) == currentMessage \o SubSeq(Received(n), 1, missing)
           q == Len(queued)
           m == q + 1
           e == End(q)
           E == End(m)
           L == BodyLens[m]
<1>1. PICK n \in 1..BufferSize :
        /\ Read(n, 0)
        /\ \/ /\ n < missing
              /\ currentMessage' = currentMessage \o Received(n)
              /\ UNCHANGED <<buf, msgLen, queued, pc>>
           \/ /\ n >= missing
              /\ \E backup \in Backups(whole(n)) :
                   /\ backup <= missing
                   /\ queued' = Append(queued, SubSeq(whole(n), 1, msgLen - backup))
                   /\ Advance(Received(n), missing - backup)
              /\ currentMessage' = <<>>
              /\ pc' = "top"
              /\ UNCHANGED msgLen
           \/ /\ n >= missing
              /\ \A backup \in Backups(whole(n)) : backup > missing
              /\ Lost
  BY DEF ReadRest
<1>2. pc = "messageRest" /\ pos > IdLen
  BY DEF ReadRest, TypeInv, GreetingInv
<1>3. /\ pos \in Nat /\ pos' = pos + n /\ pos' \in Nat /\ pos' <= Len(Stream)
      /\ Received(n) = From(pos, pos') /\ Len(Received(n)) = n
      /\ calm /\ ~ Delicate(pos' + 1)
  BY <1>1, <1>2, ReadIs DEF TypeInv
<1>4. /\ IsPrefix(queued, Messages) /\ q < Count
      /\ e + 4 <= pos /\ pos < E /\ msgLen = L
      /\ currentMessage = From(e + 4, pos) /\ ~ ZeroTail(m)
  BY <1>2, <1>3 DEF PlaceInv, Count
<1>5. queued \in Seq(Seq(Range(Stream))) /\ q \in Nat
  BY LenProperties DEF TypeInv, TypeOK
<1>6. m \in 1..Count /\ m - 1 = q /\ n \in Nat /\ n >= 1 /\ IdLen \in Nat
  BY <1>4, <1>5, CountIsNat, GreetingBytes
<1>7. /\ e \in Nat /\ L \in Nat /\ E = e + 4 + L /\ E \in Nat /\ E <= Len(Stream)
  BY <1>6, FrameSize
<1>8. Len(currentMessage) = pos - (e + 4)
  <2> DEFINE b == e + 4
  <2>1. b \in Nat /\ b <= pos /\ pos <= Len(Stream)
    <3> HIDE DEF e, E, L
    <3>1. pos <= Len(Stream)
      BY <1>3, <1>4, <1>7, StreamBytes
    <3>2. QED
      BY <1>4, <1>7, <3>1
  <2>2. currentMessage = From(b, pos)
    BY <1>4
  <2> HIDE DEF b
  <2>3. Len(currentMessage) = pos - b
    BY <1>3, <2>1, <2>2, FromIs
  <2>4. QED
    BY <2>3 DEF b
<1>9. missing = E - pos /\ missing \in Nat /\ missing >= 1
  <2> HIDE DEF e, E, L
  <2>1. msgLen - Len(currentMessage) = E - pos
    BY <1>3, <1>4, <1>7, <1>8
  <2>2. QED
    BY <1>3, <1>4, <1>7, <2>1
<1>10. ~ Inner(pos' + 1)
  <2>1. pos' + 1 \in Nat /\ pos' + 1 > IdLen + 1
    BY <1>2, <1>3, <1>6
  <2>2. QED
    BY <1>3, <2>1, DelicateIs
<1> HIDE DEF missing
<1>11. CASE /\ n < missing
            /\ currentMessage' = currentMessage \o Received(n)
            /\ UNCHANGED <<buf, msgLen, queued, pc>>
  <2>1. e + 4 <= pos' /\ pos' < E
    <3> HIDE DEF e, E, L
    <3>1. QED
      BY <1>3, <1>4, <1>6, <1>7, <1>9, <1>11
  <2>2. currentMessage' = From(e + 4, pos')
    <3> DEFINE b == e + 4
               p == pos
               p2 == pos'
    <3>1. b \in Nat /\ p \in Nat /\ p2 \in Nat /\ b <= p /\ p <= p2 /\ p2 <= Len(Stream)
      BY <1>3, <1>4, <1>6, <1>7
    <3>2. currentMessage' = From(b, p) \o From(p, p2)
      BY <1>3, <1>4, <1>11
    <3> HIDE DEF b, p, p2
    <3>3. From(b, p) \o From(p, p2) = From(b, p2)
      BY <3>1, FromFrom
    <3>4. QED
      BY <3>2, <3>3 DEF b, p2
  <2>3. pc' = "messageRest" /\ queued' = queued /\ msgLen' = L
    BY <1>2, <1>4, <1>11
  <2>4. QED
    BY <1>4, <1>10, <2>1, <2>2, <2>3 DEF PlaceInv, Count
<1>12. ASSUME n >= missing PROVE whole(n) = Body(m)
  <2> DEFINE b == e + 4
             p == pos
             p2 == pos'
  <2>1. /\ b \in Nat /\ p \in Nat /\ p2 \in Nat /\ b <= p /\ p <= E /\ E <= p2
        /\ p2 <= Len(Stream) /\ E <= Len(Stream) /\ E \in Nat /\ missing \in Nat
        /\ missing <= p2 - p /\ p <= p2 /\ p + missing = E /\ missing = E - p
    <3> HIDE DEF e, E, L
    <3>1. QED
      BY <1>3, <1>4, <1>6, <1>7, <1>9, <1>12
  <2>2. currentMessage = From(b, p) /\ Received(n) = From(p, p2)
    BY <1>3, <1>4
  <2> HIDE DEF b, p, p2, E
  <2>3. SubSeq(From(p, p2), 1, missing) = From(p, E)
    <3> DEFINE a == 0
    <3>1. a \in Nat /\ a <= missing /\ a + 1 = 1 /\ p + a = p
      BY <2>1
    <3> HIDE DEF a
    <3>2. SubSeq(From(p, p2), a + 1, missing) = From(p + a, p + missing)
      <4>1. /\ p \in Nat /\ p2 \in Nat /\ a \in Nat /\ missing \in Nat /\ p <= p2
            /\ p2 <= Len(Stream) /\ a <= missing /\ missing <= p2 - p
        BY <2>1, <3>1
      <4>2. QED
        BY ONLY <4>1, PartOfFrom
    <3>3. QED
      BY <2>1, <3>1, <3>2
  <2>4. From(b, p) \o From(p, E) = From(b, E)
    BY <2>1, FromFrom
  <2>5. From(b, E) = Body(m)
    BY <1>6, BodyAt DEF b, E
  <2>6. QED
    BY <2>2, <2>3, <2>4, <2>5
<1>13. ASSUME n >= missing PROVE Backups(whole(n)) = {0}
  BY <1>4, <1>6, <1>12, <1>13, NothingIsStripped
<1>14. CASE /\ n >= missing
            /\ \E backup \in Backups(whole(n)) :
                 /\ backup <= missing
                 /\ queued' = Append(queued, SubSeq(whole(n), 1, msgLen - backup))
                 /\ Advance(Received(n), missing - backup)
            /\ currentMessage' = <<>>
            /\ pc' = "top"
            /\ UNCHANGED msgLen
  <2>1. whole(n) = Body(m) /\ Backups(whole(n)) = {0}
    BY <1>12, <1>13, <1>14
  <2> HIDE DEF whole
  <2>2. /\ queued' = Append(queued, SubSeq(Body(m), 1, msgLen - 0))
        /\ Advance(Received(n), missing - 0)
    BY <1>14, <2>1
  <2>3. SubSeq(Body(m), 1, msgLen - 0) = Body(m)
    <3>1. Body(m) \in Seq(Bytes) /\ Len(Body(m)) = L
      BY <1>6, FrameBytes
    <3>2. msgLen - 0 = L
      BY <1>4, <1>7
    <3> HIDE DEF L, m
    <3>3. QED
      BY <3>1, <3>2, Whole
  <2>4. buf' = From(E, pos') /\ E <= pos'
    <3> DEFINE p == pos
               p2 == pos'
    <3>1. /\ p \in Nat /\ p2 \in Nat /\ p <= p2 /\ p2 <= Len(Stream) /\ n <= p2 - p
          /\ missing <= n /\ p + missing = E /\ p + n = p2 /\ n \in Nat /\ missing \in Nat
          /\ E <= p2
      <4> HIDE DEF E
      <4>1. QED
        BY <1>3, <1>6, <1>7, <1>9, <1>14
    <3>2. buf' = SubSeq(From(p, p2), (missing - 0) + 1, n)
      BY <1>3, <2>2 DEF Advance
    <3>3. missing - 0 = missing
      BY <1>9
    <3> HIDE DEF p, p2, E
    <3>4. SubSeq(From(p, p2), missing + 1, n) = From(p + missing, p + n)
      <4>1. /\ p \in Nat /\ p2 \in Nat /\ missing \in Nat /\ n \in Nat /\ p <= p2
            /\ p2 <= Len(Stream) /\ missing <= n /\ n <= p2 - p
        BY <3>1
      <4>2. QED
        BY ONLY <4>1, PartOfFrom
    <3>5. QED
      BY <3>1, <3>2, <3>3, <3>4 DEF p2
  <2>5. Body(m) \in Seq(Range(Stream))
    <3> DEFINE b == e + 4
    <3>1. b \in Nat /\ b <= E
      BY <1>7
    <3>2. Body(m) = From(b, E)
      BY <1>6, BodyAt
    <3> HIDE DEF b, E
    <3>3. QED
      BY <1>7, <3>1, <3>2, FromIs
  <2>6. queued' = Append(queued, Body(m))
    BY <2>2, <2>3
  <2>7. IsPrefix(queued, Messages)' /\ Len(queued') = m
    BY <1>4, <1>5, <2>5, <2>6, QueueMore
  <2>8. QED
    BY <1>10, <1>14, <2>4, <2>7 DEF PlaceInv
<1>15. CASE /\ n >= missing
            /\ \A backup \in Backups(whole(n)) : backup > missing
            /\ Lost
  <2>1. 0 > missing
    BY <1>13, <1>15
  <2>2. QED
    BY <1>9, <2>1
<1>16. QED
  BY <1>1, <1>11, <1>14, <1>15

LEMMA NextPlace == TypeInv /\ PlaceInv /\ [Next]_vars => PlaceInv'
<1> SUFFICES ASSUME TypeInv, PlaceInv, [Next]_vars PROVE PlaceInv'
  OBVIOUS
<1>1. CASE Next
  BY <1>1, ReadGreetingPlace, ReadRestOfGreetingPlace, ReadTopPlace, CutBufferedPlace, ReadRestPlace
     DEF Next
<1>2. CASE UNCHANGED vars
  BY <1>2 DEF vars, PlaceInv
<1>3. QED
  BY <1>1, <1>2

-----------------------------------------------------------------------------
(* Nothing is lost *)

\* The messages of the queue, with their lengths, are what was sent first.
LEMMA DoneIs ==
  ASSUME NEW s \in Seq(Seq(Range(Stream))), IsPrefix(s, Messages)
  PROVE  /\ Len(s) \in 0..Count
         /\ UpTo(Len(s)) = Greeting \o FlattenSeq([m \in DOMAIN s |-> Prefix(m) \o s[m]])
<1> DEFINE n == Len(s)
<1>1. n \in Nat /\ n <= Count /\ DOMAIN s = 1..n /\ \A m \in 1..n : s[m] = Body(m)
  BY LenProperties, QueuedIs
<1>2. [m \in DOMAIN s |-> Prefix(m) \o s[m]] = [m \in 1..n |-> Prefix(m) \o Body(m)]
  BY <1>1
<1>3. UpTo(n) = Greeting \o FlattenSeq([m \in 1..n |-> Prefix(m) \o Body(m)])
  BY DEF UpTo
<1>4. n \in 0..Count
  BY <1>1, CountIsNat
<1> HIDE DEF n
<1>5. UpTo(n) = Greeting \o FlattenSeq([m \in DOMAIN s |-> Prefix(m) \o s[m]])
  BY ONLY <1>2, <1>3, Zenon
<1>6. QED
  BY <1>4, <1>5 DEF n

LEMMA PlaceIsEnough == TypeInv /\ PlaceInv => NoByteIsLost
<1> SUFFICES ASSUME TypeInv, PlaceInv, calm PROVE NoByteIsLost
  BY DEF NoByteIsLost
<1> DEFINE q == Len(queued)
           e == End(q)
           m == q + 1
           done == FlattenSeq([k \in DOMAIN queued |-> Prefix(k) \o queued[k]])
           begun == Prefix(m) \o currentMessage
           read == SubSeq(Stream, 1, pos)
<1>1. pc # "lost" /\ IsPrefix(queued, Messages)
  BY DEF PlaceInv
<1>2. q \in 0..Count /\ UpTo(q) = Greeting \o done
  BY <1>1, DoneIs DEF TypeInv, TypeOK
<1>3. UpTo(q) = From(0, e) /\ e \in Nat /\ e <= Len(Stream) /\ pos \in Nat /\ pos <= Len(Stream)
  <2>1. UpTo(q) = From(0, e) /\ e \in Nat /\ e <= Len(Stream)
    <3> HIDE DEF q
    <3>1. QED
      BY <1>2, UpToFrom DEF q
  <2>2. pos \in Nat /\ pos <= Len(Stream)
    BY StreamBytes DEF TypeInv, TypeOK
  <2>3. QED
    BY <2>1, <2>2
<1>4. read = From(0, pos)
  BY DEF From
<1>5. ASSUME pc = "top" PROVE read = Greeting \o done \o buf
  <2>1. e <= pos /\ buf = From(e, pos)
    BY <1>5 DEF PlaceInv
  <2>2. 0 \in Nat /\ 0 <= e
    BY <1>3
  <2> HIDE DEF e, read, done
  <2>3. From(0, e) \o From(e, pos) = From(0, pos)
    BY <1>3, <2>1, <2>2, FromFrom
  <2>4. QED
    BY <1>2, <1>3, <1>4, <2>1, <2>3
<1>6. ASSUME pc = "messageRest" PROVE read = Greeting \o done \o begun
  <2> DEFINE b == e + 4
  <2>1. q < Count /\ b <= pos /\ currentMessage = From(b, pos)
    BY <1>6 DEF PlaceInv, Count
  <2>2. m \in 1..Count /\ m - 1 = q
    BY <1>2, <2>1, CountIsNat
  <2>3. Prefix(m) = From(e, b)
    BY <2>2, PrefixAt
  <2>4. 0 \in Nat /\ 0 <= e /\ b \in Nat /\ e <= b /\ e <= pos
    BY <1>3, <2>1
  <2> HIDE DEF e, b, read, done, m
  <2>5. From(e, b) \o From(b, pos) = From(e, pos)
    BY <1>3, <2>1, <2>4, FromFrom
  <2>6. From(0, e) \o From(e, pos) = From(0, pos)
    BY <1>3, <2>4, FromFrom
  <2>7. QED
    BY <1>2, <1>3, <1>4, <2>1, <2>3, <2>5, <2>6
<1>7. QED
  BY <1>1, <1>5, <1>6 DEF NoByteIsLost

\* As long as no read cuts the stream inside a length, or inside a message that
\* has a zero in its last two places, or twice inside the greeting, every byte
\* that was read is in a queued message, in the one being put together or in the
\* buffer, once and in its order, and the reader goes on (handshake_peer, Run):
\* for all lists of messages, their zeros, and sizes of the buffer.
THEOREM EveryByteIsKept == Spec => []NoByteIsLost
<1>1. TypeInv /\ PlaceInv /\ [Next]_vars => (TypeInv /\ PlaceInv)'
  BY NextTypes, NextPlace
<1>2. QED
  BY InitTypes, InitPlace, <1>1, PlaceIsEnough, PTL DEF Spec

-----------------------------------------------------------------------------
(* The ranges of requests and of headers *)

\* A request that is not longer than a stride of the download, and not the one
\* from 2 to 21, is no panic and gets every block that the answering node has of it: IBDSync's
\* strides (node.go:1001) are answered as they were meant.
THEOREM StridesAreAnswered ==
  ASSUME NEW low \in Nat, NEW high \in low..(low + 20), NEW head \in Nat,
         2 <= low, low <= head, low >= 3 \/ high # 21
  PROVE  /\ ~ RequestPanics(low, high)
         /\ AnsweredRange(low, high, head) = <<low, TruncatedHigh(high, head)>>
<1>1. TrimmedHigh(low, high) = high
  <2>1. CASE low >= 3
    BY <2>1 DEF TrimmedHigh, LooksAbnormal
  <2>2. CASE low = 2 /\ high # 21
    <3>1. high \in 2..20 \/ high = 22
      BY <2>2
    <3>2. CASE high = 22
      BY <3>2 DEF TrimmedHigh, LooksAbnormal
    <3>3. CASE high \in 2..20
      BY <2>2, <3>3 DEF TrimmedHigh, LooksAbnormal
    <3> QED
      BY <3>1, <3>2, <3>3
  <2> QED
    BY <2>1, <2>2
<1>2. /\ low <= TruncatedHigh(high, head)
      /\ TruncatedHigh(high, head) - low <= MaxLength
      /\ TruncatedHigh(high, head) \in Nat
  BY DEF TruncatedHigh, MaxLength
<1>3. ReducedHigh(low, TruncatedHigh(high, head)) = TruncatedHigh(high, head)
  BY <1>2 DEF ReducedHigh, MaxLength
<1>4. ~ head < low
  OBVIOUS
<1>5. AnsweredRange(low, high, head) = <<low, TruncatedHigh(high, head)>>
  BY <1>1, <1>3, <1>4, Zenon DEF AnsweredRange
<1>6. ~ RequestPanics(low, high)
  BY DEF RequestPanics, LooksAbnormal
<1> QED
  BY <1>5, <1>6

\* A checkup asks every peer for the ten blocks before a disjoint head and the one
\* before them, as far as the peer is known to go (node.go:1160-1167).  From height
\* 12 on it is no panic and gets what the peer has of them, but for one case: at
\* height 12, from a peer known to have 11 blocks or more, "11" is taken for a 1
\* with an errant digit, and the first block is all that comes.  (Below 12 the low
\* end is block 0, which no node has, or wraps around.)
THEOREM CheckupsAreAnswered ==
  ASSUME NEW headHeight \in Nat, 12 <= headHeight,
         NEW known \in Nat, headHeight - 11 <= known,
         NEW head \in Nat, headHeight - 11 <= head
  PROVE  LET low == headHeight - 11
             high == IF headHeight - 1 > known THEN known ELSE headHeight - 1 IN
         /\ ~ RequestPanics(low, high)
         /\ AnsweredRange(low, high, head) =
              IF headHeight = 12 /\ 11 <= known THEN <<1, 1>>
              ELSE <<low, TruncatedHigh(high, head)>>
<1> DEFINE low == headHeight - 11
           high == IF headHeight - 1 > known THEN known ELSE headHeight - 1
<1>1. low \in Nat /\ 1 <= low /\ high \in low..(low + 10) /\ low <= head
  OBVIOUS
<1>2. CASE headHeight > 12
  <2>1. 2 <= low /\ high \in low..(low + 20) /\ (low >= 3 \/ high # 21)
    BY <1>1, <1>2
  <2> HIDE DEF low, high
  <2>2. ~ RequestPanics(low, high) /\ AnsweredRange(low, high, head) = <<low, TruncatedHigh(high, head)>>
    BY <1>1, <2>1, StridesAreAnswered
  <2> QED
    BY <1>2, <2>2 DEF low, high
<1>3. CASE headHeight = 12 /\ 11 <= known
  <2>1. low = 1 /\ high = 11
    BY <1>3
  <2>2. ~ RequestPanics(1, 11)
    BY DEF RequestPanics, LooksAbnormal
  <2>3. AnsweredRange(1, 11, head) = <<1, 1>>
    BY <1>1, <1>3 DEF AnsweredRange, TrimmedHigh, LooksAbnormal, TruncatedHigh, ReducedHigh, MaxLength
  <2> QED
    BY <1>3, <2>1, <2>2, <2>3
<1>4. CASE headHeight = 12 /\ known < 11
  <2>1. low = 1 /\ high = known /\ known \in 1..10
    BY <1>4
  <2>2. ~ LooksAbnormal(1, known)
    BY <2>1 DEF LooksAbnormal
  <2>3. AnsweredRange(1, known, head) = <<1, TruncatedHigh(known, head)>>
    BY <1>1, <2>1, <2>2 DEF AnsweredRange, TrimmedHigh, TruncatedHigh, ReducedHigh, MaxLength
  <2> QED
    BY <1>4, <2>1, <2>2, <2>3 DEF RequestPanics
<1> QED
  BY <1>2, <1>3, <1>4

\* However a request is trimmed, truncated and reduced, an answer has at most 56
\* blocks (node.go:859), and none below what was asked for if it has any.
THEOREM AnswersAreBounded ==
  ASSUME NEW low \in Nat, NEW high \in Nat, NEW head \in Nat
  PROVE  LET range == AnsweredRange(low, high, head) IN
         range[1] <= range[2] => range[1] = low /\ range[2] - range[1] <= MaxLength
<1>1. TrimmedHigh(low, high) \in Int
  BY DEF TrimmedHigh, LooksAbnormal
<1>2. TruncatedHigh(TrimmedHigh(low, high), head) \in Int
  BY <1>1 DEF TruncatedHigh
<1> QED
  BY <1>1, <1>2 DEF AnsweredRange, ReducedHigh, MaxLength

-----------------------------------------------------------------------------
Header == [height : Nat, hash : STRING, previousHash : STRING]

\* isChained (chain_validation.go:201) holds of all ranges: its last four cases
\* compare the ends of the two, and of their ends one is always the lower.
LEMMA RangesAreChained ==
  ASSUME NEW low \in Seq(Header), NEW high \in Seq(Header), low # <<>>, high # <<>>
  PROVE  isChained(low, high)
<1>1. /\ Lower(low) \in Int /\ Lower(high) \in Int
      /\ Upper(low) \in Int /\ Upper(high) \in Int
  <2>1. low[1] \in Header /\ low[Len(low)] \in Header
    OBVIOUS
  <2>2. high[1] \in Header /\ high[Len(high)] \in Header
    OBVIOUS
  <2> QED
    BY <2>1, <2>2 DEF Lower, Upper, Header
<1> QED
  BY <1>1 DEF isChained

\* So headers are compared across two blocks only if each has one of them; else
\* each block's headers are checked for themselves, and those of the second may
\* lie anywhere (HeaderRangeIsContiguous, chain_validation.go:220).
THEOREM RangesAreCheckedApart ==
  ASSUME NEW low \in Seq(Header), NEW high \in Seq(Header), low # <<>>, high # <<>>,
         Len(low) # 1 \/ Len(high) # 1
  PROVE  HeaderRangeIsContiguous(low, high) <=> IsLinked(low) /\ IsLinked(high)
BY RangesAreChained DEF HeaderRangeIsContiguous

=============================================================================
