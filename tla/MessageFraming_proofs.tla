----------------------- MODULE MessageFraming_proofs -----------------------
(***************************************************************************)
(* Proofs about MessageFraming, for any messages and types, any size of    *)
(* chunks, and any places where messages are cut.  The invariant holds     *)
(* whatever lengths the messages state; that they come out whole is proved *)
(* of those before the first whose length does not fit its field.          *)
(*                                                                         *)
(* The messages that are not thrown away make one stream of bytes.         *)
(* Outgoing messages and chunks are pieces of it, one behind the other,    *)
(* and what lies before the chunks has been split into the messages that   *)
(* came and fragmentBuffer: a buffer is split alike whether its bytes come *)
(* at once or in parts (SplitJoins).                                       *)
(***************************************************************************)
EXTENDS MessageFraming, SequenceTheorems, FiniteSetTheorems, WellFoundedInduction, TLAPS

-----------------------------------------------------------------------------
(* Numbers *)

\* A set of natural numbers that is not empty has a least element.
LEMMA LeastNumber ==
  ASSUME NEW A, A \subseteq Nat, A # {}
  PROVE  \E m \in A : \A k \in A : m <= k
<1>1. PICK m \in A : \A k \in A : <<k, m>> \notin OpToRel(<, Nat)
  BY WFMin, NatLessThanWellFounded, Zenon
<1>2. \A k \in A : ~(k < m)
  <2>1. SUFFICES ASSUME NEW k \in A, k < m PROVE FALSE
    OBVIOUS
  <2>2. k \in Nat /\ m \in Nat
    OBVIOUS
  <2>3. <<k, m>> \in OpToRel(<, Nat)
    BY <2>1, <2>2, Zenon DEF OpToRel
  <2>4. QED
    BY <1>1, <2>3
<1>3. QED
  BY <1>2

\* What holds of 0, and of k + 1 if it holds of k, holds up to n.
LEMMA Upwards ==
  ASSUME NEW n \in Nat, NEW P, 0 \in P, \A k \in 0..(n - 1) : k \in P => k + 1 \in P
  PROVE  \A k \in 0..n : k \in P
<1> DEFINE Bad == {k \in 0..n : k \notin P}
<1>1. SUFFICES ASSUME Bad # {} PROVE FALSE
  OBVIOUS
<1>2. PICK k \in Bad : \A j \in Bad : k <= j
  <2>1. Bad \subseteq Nat
    OBVIOUS
  <2> HIDE DEF Bad
  <2>2. QED
    BY <1>1, <2>1, LeastNumber
<1>3. k \in 0..n /\ k # 0
  OBVIOUS
<1>4. k - 1 \in 0..(n - 1) /\ k - 1 \in P
  BY <1>2, <1>3
<1>5. (k - 1) + 1 \in P /\ (k - 1) + 1 = k
  BY <1>3, <1>4
<1>6. QED
  BY <1>5

\* What holds of n, and of k if it holds of k + 1, holds down to 0.
LEMMA Downwards ==
  ASSUME NEW n \in Nat, NEW P, n \in P, \A k \in 0..(n - 1) : k + 1 \in P => k \in P
  PROVE  \A k \in 0..n : k \in P
<1> DEFINE Q == {k \in 0..n : n - k \in P}
<1>1. 0 \in Q
  OBVIOUS
<1>2. ASSUME NEW k \in 0..(n - 1), k \in Q PROVE k + 1 \in Q
  <2>1. n - k - 1 \in 0..(n - 1) /\ (n - k - 1) + 1 = n - k /\ n - k - 1 = n - (k + 1)
    OBVIOUS
  <2>2. n - k - 1 \in P
    BY <1>2, <2>1
  <2>3. QED
    BY <2>1, <2>2
<1>3. \A k \in 0..n : k \in Q
  <2> HIDE DEF Q
  <2>1. QED
    BY <1>1, <1>2, Upwards
<1>4. SUFFICES ASSUME NEW k \in 0..n PROVE k \in P
  OBVIOUS
<1>5. n - k \in 0..n /\ n - (n - k) = k
  OBVIOUS
<1>6. QED
  BY <1>3, <1>5

\* Max is the greatest number of a set that is not empty.
LEMMA GreatestNumber ==
  ASSUME NEW n \in Nat, NEW A, A \subseteq 1..n, A # {}
  PROVE  Max(A) \in A /\ \A k \in A : k <= Max(A)
<1> DEFINE B == {k \in 0..n : n - k \in A}
<1>1. B \subseteq Nat /\ B # {}
  <2>1. PICK k \in A : TRUE
    OBVIOUS
  <2>2. n - k \in 0..n /\ n - (n - k) = k
    OBVIOUS
  <2>3. QED
    BY <2>1, <2>2
<1>2. PICK m \in B : \A k \in B : m <= k
  <2> HIDE DEF B
  <2>1. QED
    BY <1>1, LeastNumber
<1>3. ASSUME NEW k \in A PROVE k <= n - m
  <2>1. n - k \in B
    <3>1. n - k \in 0..n /\ n - (n - k) = k
      OBVIOUS
    <3>2. QED
      BY <3>1
  <2>2. m <= n - k
    BY <1>2, <2>1
  <2>3. QED
    BY <2>2
<1>4. n - m \in A /\ \A k \in A : n - m >= k
  BY <1>3
<1>5. QED
  BY <1>4 DEF Max

-----------------------------------------------------------------------------
(* Sequences *)

\* A function on 1..n is a sequence of length n.
LEMMA SequenceIs ==
  ASSUME NEW S, NEW n \in Nat, NEW s \in [1..n -> S]
  PROVE  s \in Seq(S) /\ Len(s) = n
OBVIOUS

\* The domain and the elements of a sequence.
LEMMA SequenceHas ==
  ASSUME NEW S, NEW s \in Seq(S)
  PROVE  /\ Len(s) \in Nat /\ DOMAIN s = 1..Len(s)
         /\ \A i \in 1..Len(s) : s[i] \in S
BY LenProperties

\* Two sequences are equal if their lengths and elements are.
LEMMA EqualSequences ==
  ASSUME NEW S, NEW s \in Seq(S), NEW t \in Seq(S), Len(s) = Len(t),
         \A i \in 1..Len(s) : s[i] = t[i]
  PROVE  s = t
BY SeqEqual

-----------------------------------------------------------------------------
(* Folds *)

\* it is what FoldLeft computes for the sets of indices, F being its operator
IsFold(it, n, base, F) ==
  it = [A \in SUBSET (1..n) |-> IF A = {} THEN base ELSE F[<<it[A \ {Max(A)}], Max(A)>>]]

\* For any function there is something that folds it.
LEMMA FoldExists ==
  ASSUME NEW S, NEW base \in S, NEW n \in Nat, NEW F \in [S \X (1..n) -> S]
  PROVE  \E it \in [SUBSET (1..n) -> S] : IsFold(it, n, base, F)
<1> DEFINE P == {k \in 0..n : \E it \in [SUBSET (1..k) -> S] : IsFold(it, k, base, F)}
<1>1. 0 \in P
  <2> DEFINE it == [A \in SUBSET (1..0) |-> base]
  <2>1. \A A \in SUBSET (1..0) : A = {}
    OBVIOUS
  <2>2. it \in [SUBSET (1..0) -> S] /\ IsFold(it, 0, base, F)
    BY <2>1 DEF IsFold
  <2>3. QED
    BY <2>2
<1>2. ASSUME NEW k \in 0..(n - 1), k \in P PROVE k + 1 \in P
  <2>1. PICK it \in [SUBSET (1..k) -> S] : IsFold(it, k, base, F)
    BY <1>2
  <2> DEFINE h == [A \in SUBSET (1..(k + 1)) |->
                    IF k + 1 \in A THEN F[<<it[A \ {k + 1}], k + 1>>] ELSE it[A]]
  <2>2. ASSUME NEW A \in SUBSET (1..(k + 1))
        PROVE  h[A] \in S /\ h[A] = IF A = {} THEN base ELSE F[<<h[A \ {Max(A)}], Max(A)>>]
    <3>1. CASE k + 1 \in A
      <4>1. Max(A) = k + 1
        <5>1. Max(A) \in A /\ k + 1 <= Max(A)
          BY <3>1, GreatestNumber, k + 1 \in Nat
        <5>2. Max(A) \in 1..(k + 1)
          BY <5>1
        <5>3. QED
          BY <5>1, <5>2
      <4>2. A \ {k + 1} \in SUBSET (1..k) /\ k + 1 \notin A \ {k + 1}
        OBVIOUS
      <4>3. h[A \ {k + 1}] = it[A \ {k + 1}] /\ it[A \ {k + 1}] \in S
        BY <4>2
      <4>4. h[A] = F[<<it[A \ {k + 1}], k + 1>>] /\ k + 1 \in 1..n
        BY <3>1
      <4>5. h[A] \in S
        BY <4>3, <4>4
      <4>6. QED
        BY <3>1, <4>1, <4>3, <4>4, <4>5
    <3>2. CASE k + 1 \notin A
      <4>1. A \in SUBSET (1..k)
        BY <3>2
      <4>2. h[A] = it[A] /\ it[A] \in S
        BY <3>2, <4>1
      <4>3. CASE A = {}
        BY <2>1, <4>1, <4>2, <4>3 DEF IsFold
      <4>4. CASE A # {}
        <5>1. A \ {Max(A)} \in SUBSET (1..k)
          BY <4>1
        <5>2. h[A \ {Max(A)}] = it[A \ {Max(A)}]
          BY <3>2, <5>1
        <5>3. it[A] = F[<<it[A \ {Max(A)}], Max(A)>>]
          BY <2>1, <4>1, <4>4 DEF IsFold
        <5>4. QED
          BY <4>2, <4>4, <5>2, <5>3
      <4>5. QED
        BY <4>3, <4>4
    <3>3. QED
      BY <3>1, <3>2
  <2>3. h \in [SUBSET (1..(k + 1)) -> S] /\ IsFold(h, k + 1, base, F)
    <3>1. h = [A \in SUBSET (1..(k + 1)) |-> h[A]]
      OBVIOUS
    <3> HIDE DEF h
    <3>2. QED
      BY <2>2, <3>1 DEF IsFold
  <2>4. k + 1 \in 0..n
    OBVIOUS
  <2> HIDE DEF h
  <2>5. QED
    BY <2>3, <2>4
<1>3. n \in P
  <2> HIDE DEF P
  <2>1. QED
    BY <1>1, <1>2, Upwards
<1>4. QED
  BY <1>3

\* The sets of indices that FoldLeft goes through.
LEMMA IndexSets ==
  ASSUME NEW n \in Nat
  PROVE  /\ 1..0 = {}
         /\ \A k \in 0..n : 1..k \in SUBSET (1..n)
         /\ \A k \in 1..n : 1..k # {} /\ Max(1..k) = k /\ (1..k) \ {k} = 1..(k - 1)
<1>1. 1..0 = {}
  OBVIOUS
<1>2. \A k \in 0..n : 1..k \in SUBSET (1..n)
  OBVIOUS
<1>3. \A k \in 1..n : 1..k # {} /\ Max(1..k) = k /\ (1..k) \ {k} = 1..(k - 1)
  <2>1. SUFFICES ASSUME NEW k \in 1..n
                 PROVE  1..k # {} /\ Max(1..k) = k /\ (1..k) \ {k} = 1..(k - 1)
    OBVIOUS
  <2>2. k \in 1..k /\ 1..k # {} /\ (1..k) \ {k} = 1..(k - 1)
    OBVIOUS
  <2>3. Max(1..k) \in 1..k /\ k <= Max(1..k)
    BY <2>2, GreatestNumber, k \in Nat
  <2>4. Max(1..k) = k
    BY <2>3
  <2>5. QED
    BY <2>2, <2>4
<1>4. QED
  BY <1>1, <1>2, <1>3

-----------------------------------------------------------------------------
(* Buffers *)

Message == Seq(Byte)

\* The two sides of a place in a buffer.
LEMMA Sides ==
  ASSUME NEW s \in Message, NEW i \in 0..Len(s)
  PROVE  LET front == SubSeq(s, 1, i)
             back  == SubSeq(s, i + 1, Len(s))
         IN  /\ front \in Message /\ Len(front) = i /\ \A k \in 1..i : front[k] = s[k]
             /\ back \in Message /\ Len(back) = Len(s) - i
             /\ \A k \in 1..(Len(s) - i) : back[k] = s[i + k]
<1> DEFINE L == Len(s)
           front == SubSeq(s, 1, i)
           back == SubSeq(s, i + 1, L)
<1>1. L \in Nat /\ \A k \in 1..L : s[k] \in Byte
  BY SequenceHas DEF Message
<1>2. /\ front \in Seq(Byte) /\ Len(front) = IF 1 <= i THEN i - 1 + 1 ELSE 0
      /\ \A k \in 1..(i - 1 + 1) : front[k] = s[1 + k - 1]
  <2>1. \A k \in 1..i : s[k] \in Byte
    BY <1>1
  <2>2. QED
    BY <1>1, <2>1, SubSeqProperties, 1 \in Int, i \in Int
<1>3. /\ back \in Seq(Byte) /\ Len(back) = IF i + 1 <= L THEN L - (i + 1) + 1 ELSE 0
      /\ \A k \in 1..(L - (i + 1) + 1) : back[k] = s[i + 1 + k - 1]
  <2>1. \A k \in (i + 1)..L : s[k] \in Byte
    BY <1>1
  <2>2. QED
    BY <1>1, <2>1, SubSeqProperties, i + 1 \in Int, L \in Int
<1> HIDE DEF front, back
<1>4. Len(front) = i /\ \A k \in 1..i : front[k] = s[k]
  <2>1. Len(front) = i /\ i - 1 + 1 = i /\ \A k \in 1..i : 1 + k - 1 = k
    BY <1>1, <1>2
  <2>2. QED
    BY <1>2, <2>1
<1>5. Len(back) = L - i /\ \A k \in 1..(L - i) : back[k] = s[i + k]
  <2>1. Len(back) = L - i /\ L - (i + 1) + 1 = L - i /\ \A k \in 1..(L - i) : i + 1 + k - 1 = i + k
    BY <1>1, <1>3
  <2>2. QED
    BY <1>3, <2>1
<1>6. QED
  BY <1>2, <1>3, <1>4, <1>5 DEF Message, front, back

\* Two buffers together, taken apart in the first of them.
LEMMA JoinedSides ==
  ASSUME NEW s \in Message, NEW b \in Message, NEW i \in 0..Len(s)
  PROVE  /\ s \o b \in Message /\ Len(s \o b) = Len(s) + Len(b)
         /\ SubSeq(s \o b, 1, i) = SubSeq(s, 1, i)
         /\ SubSeq(s \o b, i + 1, Len(s \o b)) = SubSeq(s, i + 1, Len(s)) \o b
<1> DEFINE j == s \o b
           t == SubSeq(s, i + 1, Len(s))
           u == SubSeq(j, i + 1, Len(j))
<1>1. Len(s) \in Nat /\ Len(b) \in Nat
  BY DEF Message
<1>2. /\ j \in Message /\ Len(j) = Len(s) + Len(b)
      /\ \A k \in 1..(Len(s) + Len(b)) : j[k] = IF k <= Len(s) THEN s[k] ELSE b[k - Len(s)]
  BY ConcatProperties DEF Message
<1> HIDE DEF j
<1>3. i \in 0..Len(j)
  BY <1>1, <1>2
<1>4. SubSeq(j, 1, i) = SubSeq(s, 1, i)
  <2>1. /\ SubSeq(j, 1, i) \in Message /\ Len(SubSeq(j, 1, i)) = i
        /\ \A k \in 1..i : SubSeq(j, 1, i)[k] = j[k]
    BY <1>2, <1>3, Sides
  <2>2. /\ SubSeq(s, 1, i) \in Message /\ Len(SubSeq(s, 1, i)) = i
        /\ \A k \in 1..i : SubSeq(s, 1, i)[k] = s[k]
    BY Sides
  <2>3. \A k \in 1..i : j[k] = s[k]
    BY <1>1, <1>2
  <2>4. QED
    BY <2>1, <2>2, <2>3, EqualSequences DEF Message
<1>5. u = t \o b
  <2>1. /\ u \in Message /\ Len(u) = Len(j) - i
        /\ \A k \in 1..(Len(j) - i) : u[k] = j[i + k]
    BY <1>2, <1>3, Sides
  <2>2. /\ t \in Message /\ Len(t) = Len(s) - i
        /\ \A k \in 1..(Len(s) - i) : t[k] = s[i + k]
    BY Sides
  <2> HIDE DEF t, u
  <2>3. /\ t \o b \in Message /\ Len(t \o b) = Len(t) + Len(b)
        /\ \A k \in 1..(Len(t) + Len(b)) : (t \o b)[k] = IF k <= Len(t) THEN t[k] ELSE b[k - Len(t)]
    BY <2>2, ConcatProperties DEF Message
  <2>4. Len(u) = Len(t \o b)
    BY <1>1, <1>2, <2>1, <2>2, <2>3
  <2>5. ASSUME NEW k \in 1..Len(u) PROVE u[k] = (t \o b)[k]
    <3>1. /\ k \in 1..(Len(j) - i) /\ i + k \in 1..(Len(s) + Len(b)) /\ k \in 1..(Len(t) + Len(b))
          /\ (i + k <= Len(s)) = (k <= Len(t)) /\ (i + k) - Len(s) = k - Len(t)
          /\ k <= Len(t) => k \in 1..(Len(s) - i)
      BY <1>1, <1>2, <2>1, <2>2
    <3>2. u[k] = IF i + k <= Len(s) THEN s[i + k] ELSE b[(i + k) - Len(s)]
      BY <1>2, <2>1, <3>1
    <3>3. k <= Len(t) => t[k] = s[i + k]
      BY <2>2, <3>1
    <3>4. QED
      BY <2>3, <3>1, <3>2, <3>3
  <2>6. QED
    BY <2>1, <2>3, <2>4, <2>5, EqualSequences DEF Message
<1>6. QED
  BY <1>2, <1>4, <1>5 DEF j

\* The back of two buffers together is the second of them, the front the first.
LEMMA JoinedBack ==
  ASSUME NEW s \in Message, NEW b \in Message
  PROVE  SubSeq(s \o b, 1, Len(s)) = s /\ SubSeq(s \o b, Len(s) + 1, Len(s \o b)) = b
<1>1. Len(s) \in Nat /\ Len(s) \in 0..Len(s)
  BY DEF Message
<1>2. /\ SubSeq(s \o b, 1, Len(s)) = SubSeq(s, 1, Len(s))
      /\ SubSeq(s \o b, Len(s) + 1, Len(s \o b)) = SubSeq(s, Len(s) + 1, Len(s)) \o b
  BY <1>1, JoinedSides
<1>3. SubSeq(s, 1, Len(s)) = s
  BY SubSeqFull DEF Message
<1>4. SubSeq(s, Len(s) + 1, Len(s)) = <<>>
  BY <1>1, SubSeqEmpty
<1>5. <<>> \o b = b
  BY ConcatEmptySeq DEF Message
<1>6. QED
  BY <1>2, <1>3, <1>4, <1>5

-----------------------------------------------------------------------------
(* The bytes of messages *)

N == Len(Script)

\* What the assumptions say of each message of the script.
LEMMA Constants ==
  /\ N \in Nat /\ DOMAIN Script = 1..N
  /\ MaxChunkSize \in Nat /\ MaxChunkSize > 0 /\ ByteSize \in Nat /\ ByteSize > 0
  /\ \A t \in Byte : t \in Nat /\ Types[t] \in Nat \cup {-1, -2}
  /\ \A i \in 1..N :
       /\ Script[i].type \in Byte /\ Script[i].payload \in Message
       /\ Len(Script[i].payload) \in Nat
       /\ Types[Script[i].type] > 0 => 1 + Len(Script[i].payload) = Types[Script[i].type]
<1> DEFINE R == [type : Byte, payload : Message]
<1>1. Script \in Seq(R) /\ N \in Nat /\ DOMAIN Script = 1..N
  BY ScriptAssumption DEF N, Message
<1>2. \A i \in 1..N : Script[i] \in R
  <2> HIDE DEF R
  <2>1. QED
    BY <1>1, ElementOfSeq DEF N
<1>3. \A t \in Byte : t \in Nat /\ Types[t] \in Nat \cup {-1, -2}
  BY ScriptAssumption DEF Byte
<1>4. ASSUME NEW i \in 1..N
      PROVE  /\ Script[i].type \in Byte /\ Script[i].payload \in Message
             /\ Len(Script[i].payload) \in Nat
             /\ Types[Script[i].type] > 0 => 1 + Len(Script[i].payload) = Types[Script[i].type]
  <2>1. Script[i].type \in Byte /\ Script[i].payload \in Message
    BY <1>2
  <2>2. Len(Script[i].payload) \in Nat
    BY <2>1 DEF Message
  <2>3. QED
    BY <1>1, <2>1, <2>2, ScriptAssumption
<1>5. QED
  BY <1>1, <1>3, <1>4, BoundsAssumption, ScriptAssumption

\* The remainder of a division.
LEMMA Remainder == ASSUME NEW x \in Nat, NEW m \in Nat, m > 0 PROVE x % m \in 0..(m - 1)
OBVIOUS

\* What is divided by a number is the number times the result, and the remainder.
LEMMA Quotient ==
  ASSUME NEW x \in Nat, NEW m \in Nat, m > 0
  PROVE  x \div m \in Nat /\ x = m * (x \div m) + (x % m)
<1>1. x \div m \in Nat
  OBVIOUS
<1>2. x = m * (x \div m) + (x % m)
  OBVIOUS
<1>3. QED
  BY <1>1, <1>2

\* A number of two digits is made of them.
LEMMA TwoDigits ==
  ASSUME NEW x \in Nat, NEW m \in Nat, m > 0, x < m * m
  PROVE  (x % m) + m * ((x \div m) % m) = x
<1>1. x \div m \in Nat
  BY Quotient
<1>2. x \div m < m
  OBVIOUS
<1>3. (x \div m) % m = x \div m
  BY <1>1, <1>2
<1>4. QED
  BY <1>3, Quotient

\* The bytes of a message: its type, its length as far as the field holds it, and
\* the payload.
LEMMA BytesAre ==
  ASSUME NEW i \in 1..N
  PROVE  /\ Bytes(i) \in Message /\ Len(Bytes(i)) = Size(i) /\ Bytes(i)[1] = Script[i].type
         /\ Size(i) \in Nat /\ FieldSize(i) \in 0..2 /\ Size(i) > FieldSize(i)
         /\ FieldSize(i) > 0 => Bytes(i)[2] = Size(i) % ByteSize
         /\ FieldSize(i) > 1 => Bytes(i)[3] = (Size(i) \div ByteSize) % ByteSize
<1> DEFINE t == Script[i].type
           n == FieldSize(i)
           z == Size(i)
           f == Field(z, n)
           p == Script[i].payload
<1>1. t \in Byte /\ p \in Message /\ Len(p) \in Nat
  BY Constants
<1>2. n \in 0..2
  <2>1. Types[t] = -1 => Types[t] # -2
    OBVIOUS
  <2>2. QED
    BY <2>1 DEF FieldSize
<1>3. z \in Nat /\ z = 1 + n + Len(p)
  BY <1>1, <1>2 DEF Size
<1> HIDE DEF t, n, z, p
<1>4. /\ f \in Message /\ Len(f) = n
      /\ n > 0 => f[1] = z % ByteSize
      /\ n > 1 => f[2] = (z \div ByteSize) % ByteSize
  <2>1. z % ByteSize \in Byte /\ (z \div ByteSize) % ByteSize \in Byte
    BY <1>3, Constants, Remainder, Quotient DEF Byte
  <2>2. f = [k \in 1..n |-> IF k = 1 THEN z % ByteSize ELSE (z \div ByteSize) % ByteSize]
    BY DEF Field
  <2>3. f \in [1..n -> Byte]
    BY <2>1, <2>2
  <2> HIDE DEF f
  <2>4. f \in Seq(Byte) /\ Len(f) = n
    BY <1>2, <2>3, SequenceIs
  <2>5. QED
    BY <1>2, <2>2, <2>4 DEF Message
<1> HIDE DEF f
<1>5. <<t>> \in Message /\ Len(<<t>>) = 1 /\ <<t>>[1] = t
  BY <1>1 DEF Message
<1> DEFINE h == <<t>> \o f
<1>6. /\ h \in Message /\ Len(h) = 1 + n
      /\ h[1] = t /\ (n > 0 => h[2] = f[1]) /\ (n > 1 => h[3] = f[2])
  <2>1. /\ h \in Message /\ Len(h) = 1 + n
        /\ \A k \in 1..(1 + n) : h[k] = IF k <= 1 THEN <<t>>[k] ELSE f[k - 1]
    BY <1>4, <1>5, ConcatProperties DEF Message
  <2> HIDE DEF h
  <2>2. QED
    BY <1>2, <1>5, <2>1
<1>7. Bytes(i) = h \o p
  BY DEF Bytes, t, f, p, n, z
<1> HIDE DEF h
<1>8. /\ h \o p \in Message /\ Len(h \o p) = z
      /\ \A k \in 1..(1 + n) : (h \o p)[k] = h[k]
  <2>1. /\ h \o p \in Message /\ Len(h \o p) = Len(h) + Len(p)
        /\ \A k \in 1..(Len(h) + Len(p)) : (h \o p)[k] = IF k <= Len(h) THEN h[k] ELSE p[k - Len(h)]
    BY <1>1, <1>6, ConcatProperties DEF Message
  <2>2. \A k \in 1..(1 + n) : k \in 1..(Len(h) + Len(p)) /\ k <= Len(h)
    BY <1>1, <1>2, <1>6
  <2>3. QED
    BY <1>1, <1>2, <1>3, <1>6, <2>1, <2>2
<1>9. /\ (h \o p)[1] = t
      /\ n > 0 => (h \o p)[2] = z % ByteSize
      /\ n > 1 => (h \o p)[3] = (z \div ByteSize) % ByteSize
  <2>1. 1 \in 1..(1 + n) /\ (n > 0 => 2 \in 1..(1 + n)) /\ (n > 1 => 3 \in 1..(1 + n))
    BY <1>2
  <2>2. QED
    BY <1>4, <1>6, <1>8, <2>1
<1>10. z > n
  BY <1>1, <1>2, <1>3
<1>11. QED
  BY <1>2, <1>3, <1>7, <1>8, <1>9, <1>10 DEF t, n, z

-----------------------------------------------------------------------------
(* The stream of bytes of all messages that are not thrown away *)

\* Gathering another message makes bytes of bytes.
LEMMA GatheredType ==
  \A bytes \in Message, m \in Message : Gathered(bytes, m) \in Message
BY ConcatProperties DEF Gathered, Message

\* The steps of the fold of Flush.
LEMMA GatheredFold ==
  ASSUME NEW s \in Seq(Message), NEW base \in Message
  PROVE  \E g \in [0..Len(s) -> Message] :
           /\ g[0] = base /\ FoldLeft(Gathered, base, s) = g[Len(s)]
           /\ \A k \in 1..Len(s) : g[k] = Gathered(g[k - 1], s[k])
<1> DEFINE n == Len(s)
           S == Message
           Body(it) == [A \in SUBSET (1..n) |->
                          IF A = {} THEN base ELSE Gathered(it[A \ {Max(A)}], s[Max(A)])]
           it == CHOOSE it : it = Body(it)
           F == [x \in S \X (1..n) |-> Gathered(x[1], s[x[2]])]
           g == [k \in 0..n |-> it[1..k]]
<1>1. n \in Nat /\ DOMAIN s = 1..n /\ \A i \in 1..n : s[i] \in Message
  BY SequenceHas
<1> HIDE DEF n
<1>2. \A x \in S, i \in 1..n : Gathered(x, s[i]) \in S
  BY <1>1, GatheredType
<1>3. base \in S /\ F \in [S \X (1..n) -> S]
  BY <1>2
<1>4. PICK h \in [SUBSET (1..n) -> S] : IsFold(h, n, base, F)
  <2> HIDE DEF F, S
  <2>1. QED
    BY <1>1, <1>3, FoldExists
<1>5. h = Body(h)
  <2>1. ASSUME NEW A \in SUBSET (1..n), A # {}
        PROVE  F[<<h[A \ {Max(A)}], Max(A)>>] = Gathered(h[A \ {Max(A)}], s[Max(A)])
    <3>1. Max(A) \in 1..n
      BY <1>1, <2>1, GreatestNumber
    <3>2. h[A \ {Max(A)}] \in S
      BY <1>4
    <3> HIDE DEF S
    <3>3. QED
      BY <3>1, <3>2
  <2> HIDE DEF F, S
  <2>2. QED
    BY <1>4, <2>1 DEF IsFold
<1>6. it = Body(it)
  <2> HIDE DEF Body
  <2>1. QED
    BY <1>5
<1>7. FoldLeft(Gathered, base, s) = it[1..n]
  <2>1. FoldLeft(Gathered, base, s) =
          LET f == CHOOSE f : f = [A \in SUBSET DOMAIN s |->
                                     IF A = {} THEN base
                                     ELSE LET x == Max(A) IN Gathered(f[A \ {x}], s[x])]
          IN  f[DOMAIN s]
    BY Zenon DEF FoldLeft, MapThenFoldSet
  <2>2. QED
    BY <1>1, <2>1, Zenon
<1>8. g[0] = base /\ g[n] = FoldLeft(Gathered, base, s)
  <2>1. it[{}] = base
    <3> HIDE DEF it
    <3>1. QED
      BY <1>6
  <2> HIDE DEF it
  <2>2. g[0] = it[1..0] /\ g[n] = it[1..n]
    BY <1>1
  <2>3. QED
    BY <1>7, <2>1, <2>2, IndexSets
<1>9. ASSUME NEW k \in 1..n PROVE g[k] = Gathered(g[k - 1], s[k])
  <2> HIDE DEF it
  <2>1. g[k] = it[1..k] /\ g[k - 1] = it[1..(k - 1)]
    BY <1>1
  <2>2. 1..k \in SUBSET (1..n) /\ 1..k # {} /\ Max(1..k) = k /\ (1..k) \ {k} = 1..(k - 1)
    BY <1>1, k \in 0..n, n \in Nat, IndexSets
  <2>3. it[1..k] = Gathered(it[(1..k) \ {Max(1..k)}], s[Max(1..k)])
    BY <1>6, <2>2
  <2>4. QED
    BY <2>1, <2>2, <2>3
<1>10. g \in [0..n -> S]
  <2> DEFINE P == {k \in 0..n : g[k] \in S}
  <2>1. 0 \in P
    <3> HIDE DEF g, S
    <3>1. QED
      BY <1>1, <1>3, <1>8
  <2>2. ASSUME NEW k \in 0..(n - 1), k \in P PROVE k + 1 \in P
    <3>1. k + 1 \in 1..n /\ (k + 1) - 1 = k
      BY <1>1
    <3> HIDE DEF g, S
    <3>2. g[k + 1] = Gathered(g[k], s[k + 1]) /\ g[k] \in S
      BY <1>9, <2>2, <3>1
    <3>3. QED
      BY <1>2, <3>1, <3>2
  <2>3. \A k \in 0..n : k \in P
    <3> HIDE DEF P
    <3>1. QED
      BY <1>1, <2>1, <2>2, Upwards
  <2>4. g = [k \in 0..n |-> g[k]]
    OBVIOUS
  <2> HIDE DEF g, S
  <2>5. QED
    BY <2>3, <2>4
<1>11. QED
  <2> HIDE DEF g
  <2>1. QED
    BY <1>8, <1>9, <1>10 DEF n

\* Each message adds its bytes, or nothing.
LEMMA WrittenStep ==
  /\ Written(0) = <<>>
  /\ \A n \in 0..N : Written(n) \in Message
  /\ \A n \in 1..N : Written(n) = Gathered(Written(n - 1), Bytes(n))
<1>1. N \in Nat
  BY Constants
<1>2. ASSUME NEW n \in 0..N
      PROVE  \E g \in [0..n -> Message] :
               /\ g[0] = <<>> /\ Written(n) = g[n]
               /\ \A k \in 1..n : g[k] = Gathered(g[k - 1], Bytes(k))
  <2> DEFINE s == [i \in 1..n |-> Bytes(i)]
  <2>1. n \in Nat /\ s \in [1..n -> Message]
    <3>1. n \in Nat /\ \A i \in 1..n : i \in 1..N
      BY <1>1
    <3>2. \A i \in 1..n : Bytes(i) \in Message
      BY <3>1, BytesAre
    <3>3. QED
      BY <3>1, <3>2
  <2>2. s \in Seq(Message) /\ Len(s) = n
    <3> HIDE DEF s
    <3>1. QED
      BY <2>1, SequenceIs
  <2>3. <<>> \in Message
    BY DEF Message
  <2>4. Written(n) = FoldLeft(Gathered, <<>>, s)
    BY Zenon DEF Written
  <2>5. PICK g \in [0..n -> Message] :
          /\ g[0] = <<>> /\ FoldLeft(Gathered, <<>>, s) = g[n]
          /\ \A k \in 1..n : g[k] = Gathered(g[k - 1], s[k])
    <3> HIDE DEF s
    <3>1. QED
      BY <2>2, <2>3, GatheredFold
  <2>6. \A k \in 1..n : s[k] = Bytes(k)
    OBVIOUS
  <2>7. QED
    <3> HIDE DEF s
    <3>1. QED
      BY <2>4, <2>5, <2>6
<1>3. Written(0) = <<>>
  BY <1>1, <1>2
<1>4. ASSUME NEW n \in 0..N PROVE Written(n) \in Message
  <2>1. PICK g \in [0..n -> Message] : Written(n) = g[n]
    BY <1>2
  <2>2. n \in 0..n
    BY <1>1
  <2>3. QED
    BY <2>1, <2>2
<1>5. ASSUME NEW n \in 1..N PROVE Written(n) = Gathered(Written(n - 1), Bytes(n))
  <2>1. n \in 0..N /\ n - 1 \in 0..N /\ n \in 1..n /\ n - 1 \in 0..n
    BY <1>1
  <2>2. PICK g \in [0..n -> Message] :
          /\ g[0] = <<>> /\ Written(n) = g[n]
          /\ \A k \in 1..n : g[k] = Gathered(g[k - 1], Bytes(k))
    BY <1>2, <2>1
  <2>3. PICK h \in [0..(n - 1) -> Message] :
          /\ h[0] = <<>> /\ Written(n - 1) = h[n - 1]
          /\ \A k \in 1..(n - 1) : h[k] = Gathered(h[k - 1], Bytes(k))
    BY <1>2, <2>1
  <2> DEFINE P == {k \in 0..(n - 1) : g[k] = h[k]}
  <2>4. 0 \in P
    BY <1>1, <2>2, <2>3
  <2>5. ASSUME NEW k \in 0..((n - 1) - 1), k \in P PROVE k + 1 \in P
    <3>1. k + 1 \in 1..n /\ k + 1 \in 1..(n - 1) /\ (k + 1) - 1 = k /\ k + 1 \in 0..(n - 1)
      BY <1>1
    <3>2. g[k + 1] = Gathered(g[k], Bytes(k + 1)) /\ h[k + 1] = Gathered(h[k], Bytes(k + 1))
      BY <2>2, <2>3, <3>1
    <3>3. QED
      BY <2>5, <3>1, <3>2
  <2>6. n - 1 \in Nat /\ n - 1 \in 0..(n - 1)
    BY <1>1
  <2>7. n - 1 \in P
    <3> HIDE DEF P
    <3>1. QED
      BY <2>4, <2>5, <2>6, Upwards
  <2>8. g[n - 1] = h[n - 1]
    BY <2>7
  <2>9. QED
    BY <2>1, <2>2, <2>3, <2>8
<1>6. QED
  BY <1>3, <1>4, <1>5

Stream == Written(N)

\* where the bytes of each message end
Ends == [n \in 0..N |-> Len(Written(n))]

\* the bytes of the stream between two positions
Piece(p, q) == SubSeq(Stream, p + 1, q)

\* The stream is a sequence of bytes that ends where the last message does.
LEMMA StreamType ==
  /\ Stream \in Message /\ Len(Stream) = Ends[N] /\ Ends[N] \in Nat
  /\ Ends \in [0..N -> Nat] /\ Ends[0] = 0
<1>1. N \in Nat /\ N \in 0..N /\ 0 \in 0..N
  BY Constants
<1>2. \A n \in 0..N : Ends[n] = Len(Written(n)) /\ Ends[n] \in Nat
  BY WrittenStep DEF Ends, Message
<1>3. Ends \in [0..N -> Nat]
  BY <1>2 DEF Ends
<1>4. Ends[0] = 0
  BY <1>1, <1>2, WrittenStep
<1>5. QED
  BY <1>1, <1>2, <1>3, <1>4, WrittenStep DEF Stream

\* A piece of the stream.
LEMMA PieceIs ==
  ASSUME NEW p \in Nat, NEW q \in p..Ends[N]
  PROVE  /\ Piece(p, q) \in Message /\ Len(Piece(p, q)) = q - p
         /\ \A k \in 1..(q - p) : Piece(p, q)[k] = Stream[p + k]
<1> USE StreamType
<1>1. \A i \in (p + 1)..q : Stream[i] \in Byte
  BY DEF Message
<1>2. p + 1 \in Int /\ q \in Int
  OBVIOUS
<1>3. /\ SubSeq(Stream, p + 1, q) \in Seq(Byte)
      /\ Len(SubSeq(Stream, p + 1, q)) = IF p + 1 <= q THEN q - (p + 1) + 1 ELSE 0
      /\ \A k \in 1..(q - (p + 1) + 1) : SubSeq(Stream, p + 1, q)[k] = Stream[p + 1 + k - 1]
  BY <1>1, <1>2, SubSeqProperties
<1>4. q - (p + 1) + 1 = q - p
  OBVIOUS
<1>5. QED
  BY <1>3, <1>4 DEF Piece, Message

\* Pieces that meet are one piece together.
LEMMA PiecesJoin ==
  ASSUME NEW p \in Nat, NEW q \in p..Ends[N], NEW r \in q..Ends[N]
  PROVE  Piece(p, q) \o Piece(q, r) = Piece(p, r)
<1> USE StreamType
<1>1. p + 1 \in 1..(Len(Stream) + 1) /\ q \in (p + 1 - 1)..Len(Stream) /\ r \in q..Len(Stream)
  OBVIOUS
<1>2. SubSeq(Stream, p + 1, q) \o SubSeq(Stream, q + 1, r) = SubSeq(Stream, p + 1, r)
  BY <1>1, ConcatAdjacentSubSeq DEF Message
<1>3. QED
  BY <1>2 DEF Piece

\* A part of a piece is a piece.
LEMMA PieceOfPiece ==
  ASSUME NEW p \in Nat, NEW q \in p..Ends[N], NEW i \in 0..(q - p), NEW j \in i..(q - p)
  PROVE  SubSeq(Piece(p, q), i + 1, j) = Piece(p + i, p + j)
<1> USE StreamType
<1>1. /\ Piece(p, q) \in Seq(Byte)
      /\ \A k \in 1..(q - p) : Piece(p, q)[k] = Stream[p + k]
      /\ Len(Piece(p, q)) = q - p
  BY PieceIs DEF Message
<1>2. \A k \in (i + 1)..j : Piece(p, q)[k] \in Byte
  BY <1>1
<1> DEFINE s == SubSeq(Piece(p, q), i + 1, j)
           t == Piece(p + i, p + j)
<1>3. /\ s \in Seq(Byte)
      /\ Len(s) = IF i + 1 <= j THEN j - (i + 1) + 1 ELSE 0
      /\ \A k \in 1..(j - (i + 1) + 1) : s[k] = Piece(p, q)[i + 1 + k - 1]
  BY <1>2, SubSeqProperties, i + 1 \in Int, j \in Int
<1>4. p + i \in Nat /\ p + j \in (p + i)..Ends[N] /\ (p + j) - (p + i) = j - i
  OBVIOUS
<1>5. t \in Seq(Byte) /\ Len(t) = j - i /\ \A k \in 1..(j - i) : t[k] = Stream[p + i + k]
  BY <1>4, PieceIs DEF Message
<1>6. Len(s) = j - i /\ j - (i + 1) + 1 = j - i
  BY <1>3
<1>7. ASSUME NEW k \in 1..(j - i) PROVE s[k] = t[k]
  <2>1. s[k] = Piece(p, q)[i + k]
    BY <1>3, <1>6, i + 1 + k - 1 = i + k
  <2>2. i + k \in 1..(q - p) /\ p + (i + k) = p + i + k
    OBVIOUS
  <2>3. Piece(p, q)[i + k] = Stream[p + i + k]
    BY <1>1, <2>2
  <2>4. QED
    BY <1>5, <2>1, <2>3
<1>8. QED
  <2> HIDE DEF s, t
  <2>1. s = t
    BY <1>3, <1>5, <1>6, <1>7, EqualSequences
  <2>2. QED
    BY <2>1 DEF s, t

\* The bytes of the messages up to n are the front of the stream.
LEMMA WrittenIsPiece ==
  ASSUME NEW n \in 0..N
  PROVE  Written(n) = Piece(0, Ends[n]) /\ Ends[n] \in 0..Ends[N]
<1> DEFINE P == {k \in 0..N : Written(k) = Piece(0, Ends[k]) /\ Ends[k] \in 0..Ends[N]}
<1>1. N \in Nat /\ Ends[N] \in Nat
  BY Constants, StreamType
<1>2. N \in P
  <2>1. Piece(0, Ends[N]) = Stream
    BY StreamType, SubSeqFull DEF Piece, Message
  <2>2. QED
    BY <1>1, <2>1 DEF Stream
<1>3. ASSUME NEW k \in 0..(N - 1), k + 1 \in P PROVE k \in P
  <2> DEFINE w == Written(k)
             u == Written(k + 1)
             x == Ends[k]
             y == Ends[k + 1]
  <2>1. k \in 0..N /\ k + 1 \in 0..N /\ k + 1 \in 1..N /\ (k + 1) - 1 = k
    BY <1>1
  <2>2. w \in Message /\ u \in Message /\ u = Gathered(w, Bytes(k + 1)) /\ Bytes(k + 1) \in Message
    BY <2>1, WrittenStep, BytesAre
  <2>3. x = Len(w) /\ y = Len(u)
    BY <2>1 DEF Ends
  <2>4. u = Piece(0, y) /\ y \in 0..Ends[N]
    BY <1>3
  <2> HIDE DEF w, u, x, y
  <2>5. w = SubSeq(u, 1, x) /\ x \in 0..y
    <3>1. CASE IsValidPacket(Bytes(k + 1))
      <4>1. u = w \o Bytes(k + 1)
        BY <2>2, <3>1 DEF Gathered
      <4>2. Len(u) = Len(w) + Len(Bytes(k + 1)) /\ Len(Bytes(k + 1)) \in Nat /\ Len(w) \in Nat
        BY <2>2, <4>1, ConcatProperties DEF Message
      <4>3. QED
        BY <2>2, <2>3, <4>1, <4>2, JoinedBack
    <3>2. CASE ~IsValidPacket(Bytes(k + 1))
      <4>1. u = w
        BY <2>2, <3>2 DEF Gathered
      <4>2. QED
        BY <2>2, <2>3, <4>1, SubSeqFull DEF Message
    <3>3. QED
      BY <3>1, <3>2
  <2>6. SubSeq(Piece(0, y), 1, x) = Piece(0, x)
    <3>1. y \in 0..Ends[N] /\ 0 \in 0..(y - 0) /\ x \in 0..(y - 0) /\ 0 + 0 = 0 /\ 0 + x = x /\ 0 + 1 = 1
      BY <1>1, <2>4, <2>5
    <3>2. SubSeq(Piece(0, y), 0 + 1, x) = Piece(0 + 0, 0 + x)
      BY <3>1, PieceOfPiece, 0 \in Nat
    <3>3. QED
      BY <3>1, <3>2
  <2>7. w = Piece(0, x) /\ x \in 0..Ends[N]
    BY <1>1, <2>4, <2>5, <2>6
  <2>8. QED
    BY <2>1, <2>7 DEF w, x
<1>4. n \in P
  <2> HIDE DEF P
  <2>1. QED
    BY <1>1, <1>2, <1>3, Downwards
<1>5. QED
  BY <1>4

\* The bytes of a message lie between its ends, if it is not thrown away.
LEMMA MessageIsPiece ==
  ASSUME NEW i \in 1..N
  PROVE  /\ Ends[i - 1] \in Nat /\ Ends[i] \in Ends[i - 1]..Ends[N]
         /\ Piece(Ends[i - 1], Ends[i]) = IF IsValidPacket(Bytes(i)) THEN Bytes(i) ELSE <<>>
<1> DEFINE w == Written(i - 1)
           u == Written(i)
           x == Ends[i - 1]
           y == Ends[i]
           b == IF IsValidPacket(Bytes(i)) THEN Bytes(i) ELSE <<>>
<1>1. N \in Nat /\ i \in 0..N /\ i - 1 \in 0..N
  BY Constants
<1>2. b \in Message
  BY BytesAre DEF Message
<1>3. w \in Message /\ u = w \o b
  <2>1. w \in Message /\ u = Gathered(w, Bytes(i))
    BY <1>1, WrittenStep
  <2>2. w \o <<>> = w
    BY <2>1, ConcatEmptySeq DEF Message
  <2>3. QED
    BY <2>1, <2>2 DEF Gathered
<1>4. x = Len(w) /\ y = Len(u) /\ u = Piece(0, y) /\ y \in 0..Ends[N] /\ Ends[N] \in Nat
  BY <1>1, WrittenIsPiece, StreamType DEF Ends
<1> HIDE DEF w, u, x, y, b
<1>5. x \in 0..y /\ SubSeq(u, x + 1, y) = b
  <2>1. Len(u) = Len(w) + Len(b) /\ Len(w) \in Nat /\ Len(b) \in Nat
    BY <1>2, <1>3, ConcatProperties DEF Message
  <2>2. SubSeq(w \o b, Len(w) + 1, Len(w \o b)) = b
    BY <1>2, <1>3, JoinedBack
  <2>3. QED
    BY <1>3, <1>4, <2>1, <2>2
<1>6. SubSeq(Piece(0, y), x + 1, y) = Piece(x, y)
  <2>1. /\ y \in 0..Ends[N] /\ x \in 0..(y - 0) /\ y \in x..(y - 0) /\ 0 + x = x /\ 0 + y = y
    BY <1>4, <1>5
  <2>2. SubSeq(Piece(0, y), x + 1, y) = Piece(0 + x, 0 + y)
    BY <2>1, PieceOfPiece, 0 \in Nat
  <2>3. QED
    BY <2>1, <2>2
<1>7. x \in Nat /\ y \in x..Ends[N] /\ Piece(x, y) = b
  <2>1. Piece(x, y) = b
    BY <1>4, <1>5, <1>6
  <2>2. x \in Nat /\ y \in x..Ends[N]
    BY <1>4, <1>5
  <2>3. QED
    BY <2>1, <2>2
<1>8. QED
  BY <1>7 DEF x, y, b

\* Later messages end later, or at the same place.
LEMMA EndsGrow ==
  ASSUME NEW i \in 0..N, NEW j \in i..N
  PROVE  Ends[i] \in Nat /\ Ends[j] \in Ends[i]..Ends[N]
<1> DEFINE P == {k \in 0..(j - i) : Ends[i + k] >= Ends[i]}
<1>1. N \in Nat /\ \A k \in 0..N : Ends[k] \in 0..Ends[N] /\ Ends[k] \in Nat
  BY Constants, WrittenIsPiece, StreamType
<1>2. 0 \in P
  BY <1>1
<1>3. ASSUME NEW k \in 0..((j - i) - 1), k \in P PROVE k + 1 \in P
  <2> DEFINE m == i + (k + 1)
  <2>1. m \in 1..N /\ m \in 0..N /\ m - 1 \in 0..N /\ m - 1 = i + k /\ k + 1 \in 0..(j - i)
    BY <1>1
  <2> HIDE DEF m
  <2>2. Ends[m - 1] \in Nat /\ Ends[m] \in Nat /\ Ends[m] >= Ends[m - 1]
    BY <1>1, <2>1, MessageIsPiece
  <2>3. Ends[m - 1] >= Ends[i] /\ Ends[i] \in Nat
    BY <1>1, <1>3, <2>1
  <2>4. Ends[m] >= Ends[i]
    BY <2>2, <2>3
  <2>5. QED
    BY <2>1, <2>4 DEF m
<1>4. j - i \in P
  <2>1. j - i \in Nat /\ j - i \in 0..(j - i)
    BY <1>1
  <2> HIDE DEF P
  <2>2. QED
    BY <1>2, <1>3, <2>1, Upwards
<1>5. i + (j - i) = j /\ i \in 0..N /\ j \in 0..N
  BY <1>1
<1>6. Ends[j] >= Ends[i]
  BY <1>4, <1>5
<1>7. QED
  BY <1>1, <1>5, <1>6

-----------------------------------------------------------------------------
(* The messages sent *)

Added(sent, i) == IF IsKnown(i) THEN Append(sent, Bytes(i)) ELSE sent

\* Adding a message makes a sequence of messages of one.
LEMMA AddedType == \A sent \in Seq(Message), i \in 1..N : Added(sent, i) \in Seq(Message)
BY BytesAre, AppendProperties DEF Added

\* The steps of the fold of Sent.
LEMMA AddedFold ==
  ASSUME NEW s \in Seq(1..N), NEW base \in Seq(Message)
  PROVE  \E g \in [0..Len(s) -> Seq(Message)] :
           /\ g[0] = base /\ FoldLeft(Added, base, s) = g[Len(s)]
           /\ \A k \in 1..Len(s) : g[k] = Added(g[k - 1], s[k])
<1> DEFINE n == Len(s)
           S == Seq(Message)
           Body(it) == [A \in SUBSET (1..n) |->
                          IF A = {} THEN base ELSE Added(it[A \ {Max(A)}], s[Max(A)])]
           it == CHOOSE it : it = Body(it)
           F == [x \in S \X (1..n) |-> Added(x[1], s[x[2]])]
           g == [k \in 0..n |-> it[1..k]]
<1>1. n \in Nat /\ DOMAIN s = 1..n /\ \A i \in 1..n : s[i] \in 1..N
  BY SequenceHas
<1> HIDE DEF n
<1>2. \A x \in S, i \in 1..n : Added(x, s[i]) \in S
  BY <1>1, AddedType
<1>3. base \in S /\ F \in [S \X (1..n) -> S]
  BY <1>2
<1>4. PICK h \in [SUBSET (1..n) -> S] : IsFold(h, n, base, F)
  <2> HIDE DEF F, S
  <2>1. QED
    BY <1>1, <1>3, FoldExists
<1>5. h = Body(h)
  <2>1. ASSUME NEW A \in SUBSET (1..n), A # {}
        PROVE  F[<<h[A \ {Max(A)}], Max(A)>>] = Added(h[A \ {Max(A)}], s[Max(A)])
    <3>1. Max(A) \in 1..n
      BY <1>1, <2>1, GreatestNumber
    <3>2. h[A \ {Max(A)}] \in S
      BY <1>4
    <3> HIDE DEF S
    <3>3. QED
      BY <3>1, <3>2
  <2> HIDE DEF F, S
  <2>2. QED
    BY <1>4, <2>1 DEF IsFold
<1>6. it = Body(it)
  <2> HIDE DEF Body
  <2>1. QED
    BY <1>5
<1>7. FoldLeft(Added, base, s) = it[1..n]
  <2>1. FoldLeft(Added, base, s) =
          LET f == CHOOSE f : f = [A \in SUBSET DOMAIN s |->
                                     IF A = {} THEN base
                                     ELSE LET x == Max(A) IN Added(f[A \ {x}], s[x])]
          IN  f[DOMAIN s]
    BY Zenon DEF FoldLeft, MapThenFoldSet
  <2>2. QED
    BY <1>1, <2>1, Zenon
<1>8. g[0] = base /\ g[n] = FoldLeft(Added, base, s)
  <2>1. it[{}] = base
    <3> HIDE DEF it
    <3>1. QED
      BY <1>6
  <2> HIDE DEF it
  <2>2. g[0] = it[1..0] /\ g[n] = it[1..n]
    BY <1>1
  <2>3. QED
    BY <1>7, <2>1, <2>2, IndexSets
<1>9. ASSUME NEW k \in 1..n PROVE g[k] = Added(g[k - 1], s[k])
  <2> HIDE DEF it
  <2>1. g[k] = it[1..k] /\ g[k - 1] = it[1..(k - 1)]
    BY <1>1
  <2>2. 1..k \in SUBSET (1..n) /\ 1..k # {} /\ Max(1..k) = k /\ (1..k) \ {k} = 1..(k - 1)
    BY <1>1, k \in 0..n, n \in Nat, IndexSets
  <2>3. it[1..k] = Added(it[(1..k) \ {Max(1..k)}], s[Max(1..k)])
    BY <1>6, <2>2
  <2>4. QED
    BY <2>1, <2>2, <2>3
<1>10. g \in [0..n -> S]
  <2> DEFINE P == {k \in 0..n : g[k] \in S}
  <2>1. 0 \in P
    <3> HIDE DEF g, S
    <3>1. QED
      BY <1>1, <1>3, <1>8
  <2>2. ASSUME NEW k \in 0..(n - 1), k \in P PROVE k + 1 \in P
    <3>1. k + 1 \in 1..n /\ (k + 1) - 1 = k
      BY <1>1
    <3> HIDE DEF g, S
    <3>2. g[k + 1] = Added(g[k], s[k + 1]) /\ g[k] \in S
      BY <1>9, <2>2, <3>1
    <3>3. QED
      BY <1>2, <3>1, <3>2
  <2>3. \A k \in 0..n : k \in P
    <3> HIDE DEF P
    <3>1. QED
      BY <1>1, <2>1, <2>2, Upwards
  <2>4. g = [k \in 0..n |-> g[k]]
    OBVIOUS
  <2> HIDE DEF g, S
  <2>5. QED
    BY <2>3, <2>4
<1>11. QED
  <2> HIDE DEF g
  <2>1. QED
    BY <1>8, <1>9, <1>10 DEF n

\* Sent(n) adds the messages up to n one by one.
LEMMA SentFold ==
  ASSUME NEW n \in 0..N
  PROVE  \E g \in [0..n -> Seq(Message)] :
           /\ g[0] = <<>> /\ Sent(n) = g[n]
           /\ \A k \in 1..n : g[k] = Added(g[k - 1], k)
<1> DEFINE s == [i \in 1..n |-> i]
<1>1. n \in Nat /\ s \in [1..n -> 1..N]
  BY Constants
<1>2. s \in Seq(1..N) /\ Len(s) = n
  <2> HIDE DEF s
  <2>1. QED
    BY <1>1, SequenceIs
<1>3. <<>> \in Seq(Message)
  OBVIOUS
<1>4. Sent(n) = FoldLeft(Added, <<>>, s)
  BY Zenon DEF Sent, Added, FoldLeft, MapThenFoldSet
<1>5. PICK g \in [0..n -> Seq(Message)] :
        /\ g[0] = <<>> /\ FoldLeft(Added, <<>>, s) = g[n]
        /\ \A k \in 1..n : g[k] = Added(g[k - 1], s[k])
  <2> HIDE DEF s
  <2>1. QED
    BY <1>2, <1>3, AddedFold
<1>6. \A k \in 1..n : s[k] = k
  OBVIOUS
<1>7. QED
  <2> HIDE DEF s
  <2>1. QED
    BY <1>4, <1>5, <1>6

\* One more message.
LEMMA SentStep ==
  /\ Sent(0) = <<>>
  /\ \A n \in 0..N : Sent(n) \in Seq(Message)
  /\ \A n \in 1..N : Sent(n) = Added(Sent(n - 1), n)
<1>1. N \in Nat
  BY Constants
<1>2. Sent(0) = <<>>
  BY <1>1, SentFold
<1>3. ASSUME NEW n \in 0..N PROVE Sent(n) \in Seq(Message)
  <2>1. PICK g \in [0..n -> Seq(Message)] : Sent(n) = g[n]
    BY SentFold
  <2>2. n \in 0..n
    BY <1>1
  <2>3. QED
    BY <2>1, <2>2
<1>4. ASSUME NEW n \in 1..N PROVE Sent(n) = Added(Sent(n - 1), n)
  <2>1. n \in 0..N /\ n - 1 \in 0..N /\ n \in 1..n /\ n - 1 \in 0..n
    BY <1>1
  <2>2. PICK g \in [0..n -> Seq(Message)] :
          /\ g[0] = <<>> /\ Sent(n) = g[n]
          /\ \A k \in 1..n : g[k] = Added(g[k - 1], k)
    BY <2>1, SentFold
  <2>3. PICK h \in [0..(n - 1) -> Seq(Message)] :
          /\ h[0] = <<>> /\ Sent(n - 1) = h[n - 1]
          /\ \A k \in 1..(n - 1) : h[k] = Added(h[k - 1], k)
    BY <2>1, SentFold
  <2> DEFINE P == {k \in 0..(n - 1) : g[k] = h[k]}
  <2>4. 0 \in P
    BY <1>1, <2>2, <2>3
  <2>5. ASSUME NEW k \in 0..((n - 1) - 1), k \in P PROVE k + 1 \in P
    <3>1. k + 1 \in 1..n /\ k + 1 \in 1..(n - 1) /\ (k + 1) - 1 = k /\ k + 1 \in 0..(n - 1)
      BY <1>1
    <3>2. g[k + 1] = Added(g[k], k + 1) /\ h[k + 1] = Added(h[k], k + 1)
      BY <2>2, <2>3, <3>1
    <3>3. QED
      BY <2>5, <3>1, <3>2
  <2>6. n - 1 \in Nat /\ n - 1 \in 0..(n - 1)
    BY <1>1
  <2>7. n - 1 \in P
    <3> HIDE DEF P
    <3>1. QED
      BY <2>4, <2>5, <2>6, Upwards
  <2>8. g[n - 1] = h[n - 1]
    BY <2>7
  <2>9. QED
    BY <2>1, <2>2, <2>3, <2>8
<1>5. QED
  BY <1>2, <1>3, <1>4

-----------------------------------------------------------------------------
(* The lengths that bytes state *)

\* PacketLength is a number.
LEMMA PacketLengthType ==
  ASSUME NEW buf \in Message, buf # <<>>
  PROVE  PacketLength(buf) \in Int
<1> DEFINE t == Types[TypeOf(buf)]
           L == Len(buf)
<1>1. L \in Nat /\ 1 \in 1..L /\ \A k \in 1..L : buf[k] \in Byte
  BY SequenceHas DEF Message
<1>2. /\ \A b \in Byte : b \in Nat /\ Types[b] \in Nat \cup {-1, -2}
      /\ ByteSize \in Nat
  BY Constants
<1>3. t \in Nat \cup {-1, -2}
  BY <1>1, <1>2 DEF TypeOf
<1>4. PacketLength(buf) =
        CASE t > 0 -> t
          [] t = 0 -> -2
          [] t < 0 /\ L < 1 - t -> 0
          [] t = -1 /\ L >= 2 -> IF buf[2] >= 2 THEN buf[2] ELSE -1
          [] t = -2 /\ L >= 3 ->
               IF buf[2] + ByteSize * buf[3] >= 3 THEN buf[2] + ByteSize * buf[3] ELSE -1
  BY DEF PacketLength
<1> HIDE DEF t, L
<1>5. CASE t >= 0 \/ L < 1 - t
  BY <1>1, <1>3, <1>4, <1>5
<1>6. CASE t = -1 /\ L >= 2
  <2>1. buf[2] \in Nat
    BY <1>1, <1>2, <1>6
  <2>2. PacketLength(buf) = IF buf[2] >= 2 THEN buf[2] ELSE -1
    BY <1>1, <1>4, <1>6
  <2>3. QED
    BY <2>1, <2>2
<1>7. CASE t = -2 /\ L >= 3
  <2>1. buf[2] \in Nat /\ buf[3] \in Nat
    BY <1>1, <1>2, <1>7
  <2>2. buf[2] + ByteSize * buf[3] \in Nat
    BY <1>2, <2>1
  <2>3. PacketLength(buf) =
          IF buf[2] + ByteSize * buf[3] >= 3 THEN buf[2] + ByteSize * buf[3] ELSE -1
    BY <1>1, <1>4, <1>7
  <2>4. QED
    BY <2>2, <2>3
<1>8. QED
  BY <1>1, <1>3, <1>5, <1>6, <1>7

\* What follows a buffer does not change the length that it states.
LEMMA PacketLengthStays ==
  ASSUME NEW s \in Message, s # <<>>, NEW b \in Message, PacketLength(s) # 0
  PROVE  PacketLength(s \o b) = PacketLength(s)
<1> DEFINE j == s \o b
           t == Types[TypeOf(s)]
           L == Len(s)
           M == Len(j)
<1>1. L \in Nat /\ 1 \in 1..L /\ Len(b) \in Nat /\ \A k \in 1..L : s[k] \in Byte
  BY SequenceHas DEF Message
<1>2. M \in Nat /\ M >= L /\ \A k \in 1..L : j[k] = s[k]
  <2>1. /\ M = L + Len(b)
        /\ \A k \in 1..(L + Len(b)) : j[k] = IF k <= L THEN s[k] ELSE b[k - L]
    BY ConcatProperties DEF Message
  <2> HIDE DEF L, M, j
  <2>2. QED
    BY <1>1, <2>1
<1>3. t \in Nat \cup {-1, -2} /\ Types[TypeOf(j)] = t
  <2>1. j[1] = s[1] /\ s[1] \in Byte
    BY <1>1, <1>2
  <2> HIDE DEF j
  <2>2. QED
    BY <2>1, Constants DEF TypeOf
<1>4. PacketLength(s) =
        CASE t > 0 -> t
          [] t = 0 -> -2
          [] t < 0 /\ L < 1 - t -> 0
          [] t = -1 /\ L >= 2 -> IF s[2] >= 2 THEN s[2] ELSE -1
          [] t = -2 /\ L >= 3 ->
               IF s[2] + ByteSize * s[3] >= 3 THEN s[2] + ByteSize * s[3] ELSE -1
  BY DEF PacketLength
<1> HIDE DEF j
<1>5. PacketLength(j) =
        CASE t > 0 -> t
          [] t = 0 -> -2
          [] t < 0 /\ M < 1 - t -> 0
          [] t = -1 /\ M >= 2 -> IF j[2] >= 2 THEN j[2] ELSE -1
          [] t = -2 /\ M >= 3 ->
               IF j[2] + ByteSize * j[3] >= 3 THEN j[2] + ByteSize * j[3] ELSE -1
  BY <1>3 DEF PacketLength
<1> HIDE DEF t, L, M
<1>6. CASE t >= 0
  BY <1>3, <1>4, <1>5, <1>6 DEF j
<1>7. CASE t < 0 /\ L < 1 - t
  <2>1. PacketLength(s) = 0
    BY <1>1, <1>3, <1>4, <1>7
  <2>2. QED
    BY <2>1
<1>8. CASE t = -1 /\ L >= 2
  <2>1. j[2] = s[2] /\ M >= 2
    BY <1>1, <1>2, <1>8
  <2>2. PacketLength(s) = IF s[2] >= 2 THEN s[2] ELSE -1
    BY <1>1, <1>4, <1>8
  <2>3. PacketLength(j) = IF j[2] >= 2 THEN j[2] ELSE -1
    BY <1>2, <1>5, <1>8, <2>1
  <2>4. QED
    BY <2>1, <2>2, <2>3 DEF j
<1>9. CASE t = -2 /\ L >= 3
  <2>1. j[2] = s[2] /\ j[3] = s[3] /\ M >= 3
    BY <1>1, <1>2, <1>9
  <2>2. PacketLength(s) = IF s[2] + ByteSize * s[3] >= 3 THEN s[2] + ByteSize * s[3] ELSE -1
    BY <1>1, <1>4, <1>9
  <2>3. PacketLength(j) = IF j[2] + ByteSize * j[3] >= 3 THEN j[2] + ByteSize * j[3] ELSE -1
    BY <1>2, <1>5, <1>9, <2>1
  <2>4. QED
    BY <2>1, <2>2, <2>3 DEF j
<1>10. PacketLength(j) = PacketLength(s)
  BY <1>1, <1>3, <1>6, <1>7, <1>8, <1>9 DEF j
<1>11. QED
  BY <1>10 DEF j

\* A message of a known type with a length that fits states it; one of no known type
\* is thrown away.
LEMMA BytesState ==
  ASSUME NEW i \in 1..N
  PROVE  /\ IsKnown(i) /\ LengthFits(i) => PacketLength(Bytes(i)) = Size(i)
         /\ ~IsKnown(i) => ~IsValidPacket(Bytes(i))
<1> DEFINE t == Types[Script[i].type]
           L == Len(Bytes(i))
           z == Size(i)
           B == Bytes(i)
           n == FieldSize(i)
<1>1. /\ B \in Message /\ L = z /\ TypeOf(B) = Script[i].type
      /\ z \in Nat /\ n \in 0..2 /\ z > n
      /\ n > 0 => B[2] = z % ByteSize
      /\ n > 1 => B[3] = (z \div ByteSize) % ByteSize
  BY BytesAre DEF TypeOf
<1>2. /\ t \in Nat \cup {-1, -2} /\ ByteSize \in Nat /\ ByteSize > 0
      /\ t > 0 => 1 + Len(Script[i].payload) = t
      /\ Len(Script[i].payload) \in Nat
  BY Constants
<1>3. n = CASE t = -1 -> 1 [] t = -2 -> 2 [] OTHER -> 0
  BY DEF FieldSize
<1>4. z = 1 + n + Len(Script[i].payload)
  BY DEF Size
<1>5. PacketLength(B) =
        CASE t > 0 -> t
          [] t = 0 -> -2
          [] t < 0 /\ L < 1 - t -> 0
          [] t = -1 /\ L >= 2 -> IF B[2] >= 2 THEN B[2] ELSE -1
          [] t = -2 /\ L >= 3 ->
               IF B[2] + ByteSize * B[3] >= 3 THEN B[2] + ByteSize * B[3] ELSE -1
  <2> HIDE DEF B, n, z
  <2>1. Types[TypeOf(B)] = t /\ L = Len(B)
    BY <1>1 DEF B
  <2> HIDE DEF t, L
  <2>2. QED
    BY <2>1 DEF PacketLength
<1>6. IsKnown(i) = (t # 0)
  BY DEF IsKnown
<1>7. LengthFits(i) => (n = 1 => z < ByteSize) /\ (n = 2 => z < ByteSize * ByteSize)
  BY DEF LengthFits
<1> HIDE DEF t, L, z, B, n
<1>8. ASSUME t # 0, LengthFits(i) PROVE PacketLength(B) = z
  <2>1. CASE t > 0
    <3>1. n = 0
      BY <1>2, <1>3, <2>1
    <3>2. PacketLength(B) = t
      BY <1>2, <1>5, <2>1
    <3>3. QED
      BY <1>2, <1>4, <2>1, <3>1, <3>2
  <2>2. CASE t = -1
    <3>1. n = 1 /\ L >= 2 /\ L \in Nat
      BY <1>1, <1>3, <2>2
    <3>2. z < ByteSize
      BY <1>7, <1>8, <3>1
    <3>3. z % ByteSize = z
      BY <1>1, <1>2, <3>2
    <3>4. B[2] = z /\ z >= 2
      BY <1>1, <3>1, <3>3
    <3>5. PacketLength(B) = IF B[2] >= 2 THEN B[2] ELSE -1
      BY <1>5, <2>2, <3>1
    <3>6. QED
      BY <3>4, <3>5
  <2>3. CASE t = -2
    <3>1. n = 2 /\ L >= 3 /\ L \in Nat
      BY <1>1, <1>3, <2>3
    <3>2. z < ByteSize * ByteSize
      BY <1>7, <1>8, <3>1
    <3>3. (z % ByteSize) + ByteSize * ((z \div ByteSize) % ByteSize) = z
      BY <1>1, <1>2, <3>2, TwoDigits
    <3>4. B[2] + ByteSize * B[3] = z /\ z >= 3
      BY <1>1, <3>1, <3>3
    <3>5. PacketLength(B) = IF B[2] + ByteSize * B[3] >= 3 THEN B[2] + ByteSize * B[3] ELSE -1
      BY <1>5, <2>3, <3>1
    <3>6. QED
      BY <3>4, <3>5
  <2>4. QED
    BY <1>2, <1>8, <2>1, <2>2, <2>3
<1>9. ASSUME t = 0 PROVE ~IsValidPacket(B)
  <2>1. PacketLength(B) = -2
    BY <1>5, <1>9
  <2>2. QED
    BY <2>1 DEF IsValidPacket, IsValidLength
<1>10. QED
  BY <1>6, <1>8, <1>9 DEF B, z

-----------------------------------------------------------------------------
(* What Split finds in a buffer *)

Parsed == [messages : Seq(Message), rest : Message]

\* what there is from pos on, at saying it for all later places
From(at, buf, pos) ==
  LET tail   == SubSeq(buf, pos + 1, Len(buf))
      length == PacketLength(tail)
  IN  IF tail = <<>> THEN [messages |-> <<>>, rest |-> <<>>]
      ELSE IF IsValidLength(length, Len(tail))
        THEN [at[pos + length] EXCEPT !.messages = <<SubSeq(tail, 1, length)>> \o @]
      ELSE IF length >= 0 THEN [messages |-> <<>>, rest |-> tail]
      ELSE at[pos + 1]

\* What is left of a buffer from a position on.
LEMMA TailIs ==
  ASSUME NEW buf \in Message, NEW pos \in 0..Len(buf)
  PROVE  LET tail == SubSeq(buf, pos + 1, Len(buf))
         IN  /\ tail \in Message /\ Len(tail) = Len(buf) - pos
             /\ tail = <<>> <=> pos = Len(buf)
<1> DEFINE tail == SubSeq(buf, pos + 1, Len(buf))
<1>1. Len(buf) \in Nat /\ \A i \in (pos + 1)..Len(buf) : buf[i] \in Byte
  BY SequenceHas DEF Message
<1>2. /\ tail \in Seq(Byte)
      /\ Len(tail) = IF pos + 1 <= Len(buf) THEN Len(buf) - (pos + 1) + 1 ELSE 0
  BY <1>1, SubSeqProperties, pos + 1 \in Int, Len(buf) \in Int
<1>3. Len(tail) = Len(buf) - pos
  BY <1>1, <1>2
<1> HIDE DEF tail
<1>4. tail = <<>> <=> pos = Len(buf)
  BY <1>1, <1>2, <1>3
<1>5. QED
  BY <1>2, <1>3, <1>4 DEF tail, Message

\* Only later places are asked for, so the recursion ends.
LEMMA FromType ==
  ASSUME NEW buf \in Message, NEW pos \in 0..Len(buf), NEW at, NEW f,
         \A k \in (pos + 1)..Len(buf) : at[k] \in Parsed /\ f[k] = at[k]
  PROVE  From(at, buf, pos) \in Parsed /\ From(f, buf, pos) = From(at, buf, pos)
<1> DEFINE L == Len(buf)
           tail == SubSeq(buf, pos + 1, L)
           length == PacketLength(tail)
<1>1. L \in Nat /\ tail \in Message /\ Len(tail) = L - pos /\ (tail = <<>> <=> pos = L)
  BY TailIs DEF Message
<1>2. <<>> \in Message /\ <<>> \in Seq(Message)
  BY DEF Message
<1> HIDE DEF L, tail
<1>3. CASE tail = <<>>
  BY <1>2, <1>3 DEF From, L, tail, Parsed
<1>4. CASE tail # <<>>
  <2>1. length \in Int
    BY <1>1, <1>4, PacketLengthType
  <2>2. pos + 1 \in (pos + 1)..L /\ at[pos + 1] \in Parsed /\ f[pos + 1] = at[pos + 1]
    <3>1. pos + 1 \in (pos + 1)..L
      BY <1>1, <1>4 DEF L
    <3>2. QED
      BY <3>1 DEF L
  <2> HIDE DEF length
  <2>3. CASE IsValidLength(length, Len(tail))
    <3>1. length > 0 /\ length <= L - pos
      BY <1>1, <2>3 DEF IsValidLength
    <3>2. pos + length \in (pos + 1)..L
      BY <1>1, <2>1, <3>1 DEF L
    <3>3. at[pos + length] \in Parsed /\ f[pos + length] = at[pos + length]
      BY <3>2 DEF L
    <3>4. SubSeq(tail, 1, length) \in Message
      <4>1. \A i \in 1..length : tail[i] \in Byte
        BY <1>1, <2>1, <3>1, SequenceHas DEF Message, L
      <4>2. QED
        BY <2>1, <4>1, SubSeqProperties, 1 \in Int DEF Message
    <3> DEFINE m == SubSeq(tail, 1, length)
    <3>5. From(at, buf, pos) = [at[pos + length] EXCEPT !.messages = <<m>> \o @]
      BY <1>4, <2>3 DEF From, L, tail, length
    <3>6. From(f, buf, pos) = [f[pos + length] EXCEPT !.messages = <<m>> \o @]
      BY <1>4, <2>3 DEF From, L, tail, length
    <3>7. <<m>> \o at[pos + length].messages \in Seq(Message)
      <4>1. m \in Message
        BY <3>4
      <4> HIDE DEF m
      <4>2. <<m>> \in Seq(Message)
        BY <4>1
      <4>3. at[pos + length].messages \in Seq(Message)
        BY <3>3 DEF Parsed
      <4>4. QED
        BY <4>2, <4>3, ConcatProperties
    <3> HIDE DEF m
    <3>8. [at[pos + length] EXCEPT !.messages = <<m>> \o @] \in Parsed
      BY <3>3, <3>7 DEF Parsed
    <3>9. QED
      BY <3>3, <3>5, <3>6, <3>8
  <2>4. CASE ~IsValidLength(length, Len(tail)) /\ length >= 0
    <3>1. From(at, buf, pos) = [messages |-> <<>>, rest |-> tail]
      BY <1>4, <2>4 DEF From, L, tail, length
    <3>2. From(f, buf, pos) = [messages |-> <<>>, rest |-> tail]
      BY <1>4, <2>4 DEF From, L, tail, length
    <3>3. QED
      BY <1>1, <1>2, <3>1, <3>2 DEF Parsed
  <2>5. CASE ~IsValidLength(length, Len(tail)) /\ ~(length >= 0)
    <3>1. From(at, buf, pos) = at[pos + 1]
      BY <1>4, <2>5 DEF From, L, tail, length
    <3>2. From(f, buf, pos) = f[pos + 1]
      BY <1>4, <2>5 DEF From, L, tail, length
    <3>3. QED
      BY <2>2, <3>1, <3>2
  <2>6. QED
    BY <2>3, <2>4, <2>5
<1>5. QED
  BY <1>3, <1>4

\* The recursion of Split has a solution, which says what there is from each place.
LEMMA SplitIs ==
  ASSUME NEW buf \in Message
  PROVE  \E at \in [0..Len(buf) -> Parsed] :
           /\ Split(buf) = at[0]
           /\ \A pos \in 0..Len(buf) : at[pos] = From(at, buf, pos)
<1> DEFINE L == Len(buf)
           Solves(g, k) == \A pos \in k..L : g[pos] \in Parsed /\ g[pos] = From(g, buf, pos)
           P == {k \in 0..L : \E g : Solves(g, k)}
           Body(f) == [pos \in 0..L |-> From(f, buf, pos)]
           at == CHOOSE f : f = Body(f)
<1>1. L \in Nat
  BY DEF Message
<1>2. L \in P
  <2> DEFINE e == [pos \in {} |-> 0]
             g == [pos \in L..L |-> From(e, buf, pos)]
  <2>1. \A k \in (L + 1)..L : FALSE
    BY <1>1
  <2>2. From(e, buf, L) \in Parsed /\ From(g, buf, L) = From(e, buf, L)
    <3> HIDE DEF g, e
    <3>1. L \in 0..L /\ \A k \in (L + 1)..L : e[k] \in Parsed /\ g[k] = e[k]
      BY <1>1, <2>1
    <3>2. QED
      BY <3>1, FromType
  <2>3. g[L] = From(e, buf, L)
    BY <1>1
  <2>4. \A pos \in L..L : pos = L
    BY <1>1
  <2>5. Solves(g, L)
    <3> HIDE DEF g, e
    <3>1. QED
      BY <2>2, <2>3, <2>4
  <2> HIDE DEF Solves
  <2>6. QED
    BY <1>1, <2>5
<1>3. ASSUME NEW k \in 0..(L - 1), k + 1 \in P PROVE k \in P
  <2>1. PICK g : Solves(g, k + 1)
    BY <1>3
  <2> DEFINE h == [pos \in k..L |-> IF pos = k THEN From(g, buf, k) ELSE g[pos]]
  <2>2. \A pos \in (k + 1)..L : pos # k /\ pos \in k..L
    BY <1>1
  <2>3. \A pos \in (k + 1)..L : h[pos] = g[pos] /\ g[pos] \in Parsed
    BY <2>1, <2>2
  <2>4. h[k] = From(g, buf, k)
    BY <1>1
  <2> HIDE DEF h
  <2>5. ASSUME NEW pos \in k..L PROVE h[pos] \in Parsed /\ h[pos] = From(h, buf, pos)
    <3>1. pos \in 0..L /\ \A j \in (pos + 1)..L : j \in (k + 1)..L
      BY <1>1
    <3>2. \A j \in (pos + 1)..L : g[j] \in Parsed /\ h[j] = g[j]
      BY <2>3, <3>1
    <3>3. From(g, buf, pos) \in Parsed /\ From(h, buf, pos) = From(g, buf, pos)
      BY <3>1, <3>2, FromType
    <3>4. h[pos] = From(g, buf, pos)
      <4>1. CASE pos = k
        BY <2>4, <4>1
      <4>2. CASE pos # k
        <5>1. pos \in (k + 1)..L
          BY <1>1, <4>2
        <5>2. QED
          BY <2>1, <2>3, <5>1
      <4>3. QED
        BY <4>1, <4>2
    <3>5. QED
      BY <3>3, <3>4
  <2>6. k \in 0..L
    BY <1>1
  <2>7. Solves(h, k)
    BY <2>5
  <2> HIDE DEF Solves
  <2>8. QED
    BY <2>6, <2>7
<1>4. 0 \in P
  <2> HIDE DEF P
  <2>1. \A k \in 0..L : k \in P
    BY <1>1, <1>2, <1>3, Downwards
  <2>2. QED
    BY <1>1, <2>1
<1>5. PICK g : Solves(g, 0)
  BY <1>4
<1> DEFINE h == [pos \in 0..L |-> g[pos]]
<1>6. ASSUME NEW pos \in 0..L PROVE h[pos] = From(h, buf, pos)
  <2>1. \A j \in (pos + 1)..L : g[j] \in Parsed /\ h[j] = g[j]
    BY <1>1, <1>5
  <2>2. h[pos] = From(g, buf, pos)
    BY <1>5
  <2> HIDE DEF h
  <2>3. QED
    BY <2>1, <2>2, FromType
<1>7. h = Body(h)
  <2>1. h = [pos \in 0..L |-> h[pos]]
    OBVIOUS
  <2> HIDE DEF h
  <2>2. QED
    BY <1>6, <2>1
<1>8. at = Body(at)
  <2> HIDE DEF Body, h
  <2>1. QED
    BY <1>7
<1>9. Split(buf) = at[0]
  BY Zenon DEF Split, From
<1> HIDE DEF at
<1>10. \A pos \in 0..L : at[pos] = From(at, buf, pos)
  BY <1>8
<1>11. \A pos \in 0..L : at[pos] \in Parsed
  <2> DEFINE Q == {k \in 0..L : \A pos \in k..L : at[pos] \in Parsed}
  <2>1. ASSUME NEW k \in 0..L, \A j \in (k + 1)..L : at[j] \in Parsed PROVE at[k] \in Parsed
    <3>1. From(at, buf, k) \in Parsed
      BY <2>1, FromType
    <3>2. QED
      BY <1>10, <3>1
  <2>2. L \in Q
    <3>1. \A pos \in L..L : pos = L
      BY <1>1
    <3>2. \A pos \in (L + 1)..L : FALSE
      BY <1>1
    <3>3. at[L] \in Parsed
      BY <1>1, <2>1, <3>2
    <3>4. QED
      BY <1>1, <3>1, <3>3
  <2>3. ASSUME NEW k \in 0..(L - 1), k + 1 \in Q PROVE k \in Q
    <3>1. k \in 0..L /\ \A pos \in k..L : pos = k \/ pos \in (k + 1)..L
      BY <1>1
    <3>2. \A pos \in (k + 1)..L : at[pos] \in Parsed
      BY <2>3
    <3>3. at[k] \in Parsed
      BY <2>1, <3>1, <3>2
    <3>4. QED
      BY <3>1, <3>2, <3>3
  <2>4. 0 \in Q
    <3> HIDE DEF Q
    <3>1. \A k \in 0..L : k \in Q
      BY <1>1, <2>2, <2>3, Downwards
    <3>2. QED
      BY <1>1, <3>1
  <2>5. QED
    BY <2>4
<1>12. at = [pos \in 0..L |-> at[pos]]
  BY <1>8
<1>13. QED
  BY <1>9, <1>10, <1>11, <1>12

\* What Split says of the buffer from a place on is what it says of the rest alone.
LEMMA SplitTail ==
  ASSUME NEW buf \in Message, NEW pos \in 0..Len(buf), NEW at \in [0..Len(buf) -> Parsed],
         \A k \in 0..Len(buf) : at[k] = From(at, buf, k)
  PROVE  Split(SubSeq(buf, pos + 1, Len(buf))) = at[pos]
<1> DEFINE L == Len(buf)
           s == SubSeq(buf, pos + 1, L)
           l == L - pos
<1>1. L \in Nat /\ s \in Message /\ Len(s) = l /\ l \in Nat /\ pos \in 0..L
      /\ \A k \in 1..l : s[k] = buf[pos + k]
  BY Sides DEF Message
<1>2. PICK g \in [0..l -> Parsed] :
        Split(s) = g[0] /\ \A k \in 0..l : g[k] = From(g, s, k)
  <2> HIDE DEF s, l
  <2>1. \E g \in [0..Len(s) -> Parsed] :
          Split(s) = g[0] /\ \A k \in 0..Len(s) : g[k] = From(g, s, k)
    BY <1>1, SplitIs
  <2>2. QED
    BY <1>1, <2>1
<1> HIDE DEF s
<1> DEFINE P == {k \in 0..l : \A j \in k..l : g[j] = at[pos + j]}
<1>3. ASSUME NEW k \in 0..l, \A j \in (k + 1)..l : g[j] = at[pos + j] PROVE g[k] = at[pos + k]
  <2> DEFINE q == pos + k
             t == SubSeq(buf, q + 1, L)
             length == PacketLength(t)
  <2>1. q \in 0..L /\ q + 1 = pos + (k + 1) /\ l - k = L - q
    BY <1>1
  <2>2. SubSeq(s, k + 1, l) = t
    <3> DEFINE u == SubSeq(s, k + 1, l)
    <3>1. u \in Message /\ Len(u) = l - k /\ \A i \in 1..(l - k) : u[i] = s[k + i]
      <4>1. k \in 0..Len(s)
        BY <1>1
      <4>2. LET back == SubSeq(s, k + 1, Len(s))
            IN  /\ back \in Message /\ Len(back) = Len(s) - k
                /\ \A i \in 1..(Len(s) - k) : back[i] = s[k + i]
        BY <1>1, <4>1, Sides
      <4>3. QED
        BY <1>1, <4>2
    <3>2. t \in Message /\ Len(t) = L - q /\ \A i \in 1..(L - q) : t[i] = buf[q + i]
      BY <2>1, Sides
    <3>3. ASSUME NEW i \in 1..(l - k) PROVE s[k + i] = buf[q + i]
      <4>1. k + i \in 1..l /\ pos + (k + i) = q + i
        BY <1>1
      <4>2. QED
        BY <1>1, <4>1
    <3> HIDE DEF u, t, q
    <3>4. u = t
      BY <2>1, <3>1, <3>2, <3>3, EqualSequences DEF Message
    <3>5. QED
      BY <3>4 DEF u
  <2>3. /\ t \in Message /\ Len(t) = L - q /\ L - q \in Nat /\ (t = <<>> <=> q = L)
    <3> HIDE DEF q
    <3>1. LET tail == SubSeq(buf, q + 1, Len(buf))
          IN  /\ tail \in Message /\ Len(tail) = Len(buf) - q
              /\ tail = <<>> <=> q = Len(buf)
      BY <2>1, TailIs
    <3>2. QED
      BY <1>1, <2>1, <3>1
  <2>4. g[k] = IF t = <<>> THEN [messages |-> <<>>, rest |-> <<>>]
               ELSE IF IsValidLength(length, Len(t))
                 THEN [g[k + length] EXCEPT !.messages = <<SubSeq(t, 1, length)>> \o @]
               ELSE IF length >= 0 THEN [messages |-> <<>>, rest |-> t]
               ELSE g[k + 1]
    <3> HIDE DEF t, q
    <3>1. g[k] = From(g, s, k) /\ SubSeq(s, k + 1, Len(s)) = t
      BY <1>1, <1>2, <2>2
    <3>2. QED
      BY <3>1 DEF From, t
  <2>5. at[q] = IF t = <<>> THEN [messages |-> <<>>, rest |-> <<>>]
                ELSE IF IsValidLength(length, Len(t))
                  THEN [at[q + length] EXCEPT !.messages = <<SubSeq(t, 1, length)>> \o @]
                ELSE IF length >= 0 THEN [messages |-> <<>>, rest |-> t]
                ELSE at[q + 1]
    <3> HIDE DEF t, q
    <3>1. at[q] = From(at, buf, q) /\ SubSeq(buf, q + 1, Len(buf)) = t
      BY <2>1 DEF t, q
    <3>2. QED
      BY <3>1 DEF From
  <2> HIDE DEF t
  <2>6. CASE t = <<>>
    BY <2>4, <2>5, <2>6
  <2>7. CASE t # <<>>
    <3>1. length \in Int /\ k + 1 \in (k + 1)..l /\ pos + (k + 1) = q + 1
      <4>1. q # L
        BY <2>3, <2>7
      <4>2. k + 1 \in (k + 1)..l
        <5> HIDE DEF q, l
        <5>1. l - k # 0 /\ l \in Nat /\ q \in Nat /\ L \in Nat
          BY <1>1, <2>1, <4>1
        <5>2. QED
          BY <5>1
      <4>3. QED
        BY <2>1, <2>3, <2>7, <4>2, PacketLengthType
    <3> HIDE DEF length
    <3>2. CASE IsValidLength(length, Len(t))
      <4>1. length > 0 /\ length <= l - k
        BY <2>1, <2>3, <3>2 DEF IsValidLength
      <4>2. k + length \in (k + 1)..l /\ pos + (k + length) = q + length
        BY <1>1, <3>1, <4>1
      <4>3. g[k + length] = at[q + length]
        BY <1>3, <4>2
      <4> HIDE DEF q
      <4>4. QED
        BY <2>4, <2>5, <2>7, <3>2, <4>3 DEF q
    <3>3. CASE ~IsValidLength(length, Len(t)) /\ length >= 0
      BY <2>4, <2>5, <2>7, <3>3
    <3>4. CASE ~IsValidLength(length, Len(t)) /\ ~(length >= 0)
      <4>1. g[k + 1] = at[q + 1]
        BY <1>3, <3>1
      <4>2. QED
        BY <2>4, <2>5, <2>7, <3>4, <4>1
    <3>5. QED
      BY <3>2, <3>3, <3>4
  <2>8. QED
    BY <2>6, <2>7
<1>4. l \in P
  <2>1. \A j \in l..l : j = l
    BY <1>1
  <2>2. \A j \in (l + 1)..l : FALSE
    BY <1>1
  <2>3. l \in 0..l /\ g[l] = at[pos + l]
    <3> HIDE DEF l
    <3>1. l \in 0..l
      BY <1>1
    <3>2. QED
      BY <1>3, <2>2, <3>1
  <2>4. QED
    BY <2>1, <2>3
<1>5. ASSUME NEW k \in 0..(l - 1), k + 1 \in P PROVE k \in P
  <2>1. k \in 0..l /\ \A j \in k..l : j = k \/ j \in (k + 1)..l
    BY <1>1
  <2>2. \A j \in (k + 1)..l : g[j] = at[pos + j]
    BY <1>5
  <2>3. g[k] = at[pos + k]
    BY <1>3, <2>1, <2>2
  <2>4. QED
    BY <2>1, <2>2, <2>3
<1>6. 0 \in P
  <2>1. l \in Nat /\ 0 \in 0..l
    BY <1>1
  <2> HIDE DEF P, l
  <2>2. \A k \in 0..l : k \in P
    BY <1>4, <1>5, <2>1, Downwards
  <2>3. QED
    BY <2>1, <2>2
<1>7. g[0] = at[pos]
  <2>1. 0 \in 0..l /\ pos + 0 = pos
    BY <1>1
  <2>2. QED
    BY <1>6, <2>1
<1>8. QED
  BY <1>2, <1>7 DEF s

\* Split takes the first message, keeps the beginning of one, or skips a byte, and goes
\* on with what follows.
LEMMA SplitStep ==
  ASSUME NEW buf \in Message
  PROVE  /\ Split(buf) \in Parsed
         /\ buf = <<>> => Split(buf) = [messages |-> <<>>, rest |-> <<>>]
         /\ buf # <<>> =>
              LET length == PacketLength(buf)
                  After(k) == Split(SubSeq(buf, k + 1, Len(buf)))
              IN  /\ length > 0 /\ length <= Len(buf) =>
                       Split(buf) = [messages |-> <<SubSeq(buf, 1, length)>> \o After(length).messages,
                                     rest |-> After(length).rest]
                  /\ length >= 0 /\ (length = 0 \/ length > Len(buf)) =>
                       Split(buf) = [messages |-> <<>>, rest |-> buf]
                  /\ length < 0 => Split(buf) = After(1)
<1> DEFINE L == Len(buf)
           length == PacketLength(buf)
<1>1. L \in Nat /\ 0 \in 0..L /\ SubSeq(buf, 0 + 1, L) = buf /\ (buf # <<>> => L >= 1)
  <2>1. SubSeq(buf, 1, L) = buf
    BY SubSeqFull DEF Message
  <2>2. L \in Nat /\ (buf # <<>> => L >= 1)
    BY EmptySeq DEF Message
  <2>3. QED
    BY <2>1, <2>2
<1>2. PICK at \in [0..L -> Parsed] :
        Split(buf) = at[0] /\ \A k \in 0..L : at[k] = From(at, buf, k)
  BY SplitIs
<1>3. \A k \in 0..L : at[k] = Split(SubSeq(buf, k + 1, L)) /\ at[k] \in Parsed
  BY <1>2, SplitTail
<1> HIDE DEF L
<1>4. at[0] = IF buf = <<>> THEN [messages |-> <<>>, rest |-> <<>>]
              ELSE IF IsValidLength(length, L)
                THEN [at[0 + length] EXCEPT !.messages = <<SubSeq(buf, 1, length)>> \o @]
              ELSE IF length >= 0 THEN [messages |-> <<>>, rest |-> buf]
              ELSE at[0 + 1]
  <2>1. at[0] = From(at, buf, 0) /\ SubSeq(buf, 0 + 1, Len(buf)) = buf /\ L = Len(buf)
    BY <1>1, <1>2 DEF L
  <2>2. QED
    BY <2>1 DEF From
<1>5. ASSUME buf # <<>>, length > 0, length <= L, length \in Int
      PROVE  Split(buf) = [messages |-> <<SubSeq(buf, 1, length)>>
                                          \o Split(SubSeq(buf, length + 1, L)).messages,
                           rest |-> Split(SubSeq(buf, length + 1, L)).rest]
  <2>1. length \in 0..L /\ 0 + length = length /\ IsValidLength(length, L)
    BY <1>1, <1>5 DEF IsValidLength
  <2>2. at[length] = Split(SubSeq(buf, length + 1, L)) /\ at[length] \in Parsed
    BY <1>3, <2>1
  <2> DEFINE m == <<SubSeq(buf, 1, length)>>
  <2>3. Split(buf) = [at[length] EXCEPT !.messages = m \o @]
    BY <1>2, <1>4, <1>5, <2>1
  <2> HIDE DEF m, length
  <2>4. Split(buf) = [messages |-> m \o at[length].messages, rest |-> at[length].rest]
    BY <2>2, <2>3 DEF Parsed
  <2>5. QED
    BY <2>2, <2>4 DEF m
<1>6. ASSUME buf # <<>>, length >= 0, length = 0 \/ length > L, length \in Int
      PROVE  Split(buf) = [messages |-> <<>>, rest |-> buf]
  <2>1. ~IsValidLength(length, L)
    BY <1>1, <1>6 DEF IsValidLength
  <2>2. QED
    BY <1>2, <1>4, <1>6, <2>1
<1>7. ASSUME buf # <<>>, length < 0, length \in Int
      PROVE  Split(buf) = Split(SubSeq(buf, 1 + 1, L))
  <2>1. ~IsValidLength(length, L) /\ ~(length >= 0) /\ 1 \in 0..L /\ 0 + 1 = 1
    BY <1>1, <1>7 DEF IsValidLength
  <2>2. QED
    BY <1>2, <1>3, <1>4, <1>7, <2>1
<1>8. buf # <<>> => length \in Int
  BY PacketLengthType
<1>9. buf = <<>> => Split(buf) = [messages |-> <<>>, rest |-> <<>>]
  BY <1>2, <1>4
<1>10. Split(buf) \in Parsed
  BY <1>1, <1>2
<1> HIDE DEF length
<1>11. QED
  BY <1>5, <1>6, <1>7, <1>8, <1>9, <1>10 DEF length, L

-----------------------------------------------------------------------------
(* Buffers that are split in two steps *)

\* Concatenation is associative.
LEMMA Associative ==
  \A x \in Seq(Message), y \in Seq(Message), z \in Seq(Message) : (x \o y) \o z = x \o (y \o z)
BY ConcatAssociative

\* What a chunk makes of what there was.
LEMMA JoinedIs ==
  ASSUME NEW got \in Parsed, NEW chunk \in Message
  PROVE  LET s == Split(got.rest \o chunk)
         IN  /\ got.messages \in Seq(Message) /\ got.rest \in Message
             /\ s \in Parsed /\ s.messages \in Seq(Message) /\ s.rest \in Message
             /\ Joined(got, chunk) = [messages |-> got.messages \o s.messages, rest |-> s.rest]
             /\ Joined(got, chunk) \in Parsed
             /\ Joined(got, chunk).messages = got.messages \o s.messages
             /\ Joined(got, chunk).rest = s.rest
             /\ got = [messages |-> got.messages, rest |-> got.rest]
<1> DEFINE s == Split(got.rest \o chunk)
<1>1. /\ got.messages \in Seq(Message) /\ got.rest \in Message
      /\ got = [messages |-> got.messages, rest |-> got.rest]
  BY DEF Parsed
<1>2. got.rest \o chunk \in Message
  BY <1>1, ConcatProperties DEF Message
<1>3. s \in Parsed
  BY <1>2, SplitStep
<1>4. Joined(got, chunk) = [messages |-> got.messages \o s.messages, rest |-> s.rest]
  BY DEF Joined
<1> HIDE DEF s
<1>5. s.messages \in Seq(Message) /\ s.rest \in Message
  BY <1>3 DEF Parsed
<1>6. got.messages \o s.messages \in Seq(Message)
  BY <1>1, <1>5, ConcatProperties
<1>7. Joined(got, chunk) \in Parsed
  BY <1>4, <1>5, <1>6 DEF Parsed
<1>8. Joined(got, chunk).messages = got.messages \o s.messages /\ Joined(got, chunk).rest = s.rest
  <2> DEFINE m == got.messages \o s.messages
             r == s.rest
  <2> HIDE DEF m, r
  <2>1. Joined(got, chunk) = [messages |-> m, rest |-> r]
    BY <1>4 DEF m, r
  <2>2. Joined(got, chunk).messages = m /\ Joined(got, chunk).rest = r
    BY <2>1
  <2>3. QED
    BY <2>2 DEF m, r
<1>9. QED
  BY <1>1, <1>3, <1>4, <1>5, <1>7, <1>8 DEF s

\* Joining another chunk makes a result of a result.
LEMMA JoinedType == \A got \in Parsed, chunk \in Message : Joined(got, chunk) \in Parsed
BY JoinedIs

\* A buffer followed by another is split like the first, and then like what the first
\* leaves followed by the second: it does not matter whether the bytes come at once.
LEMMA SplitJoins ==
  ASSUME NEW s \in Message, NEW b \in Message
  PROVE  Split(s \o b) = Joined(Split(s), b)
<1> DEFINE n == Len(s)
           Holds(x) == Split(x \o b) = Joined(Split(x), b)
           P == {k \in 0..n : \A x \in Message : Len(x) <= k => Holds(x)}
<1>1. n \in Nat /\ <<>> \in Message
  BY DEF Message
<1>2. ASSUME NEW x \in Message, \A y \in Message : Len(y) < Len(x) => Holds(y)
      PROVE  Holds(x)
  <2> DEFINE length == PacketLength(x)
             L == Len(x)
             y(k) == SubSeq(x, k + 1, L)
  <2>1. Split(x) \in Parsed /\ x \o b \in Message /\ Split(x \o b) \in Parsed /\ L \in Nat
    <3>1. x \o b \in Message
      BY ConcatProperties DEF Message
    <3>2. L \in Nat
      BY DEF Message
    <3>3. QED
      BY <3>1, <3>2, SplitStep
  <2>2. CASE x = <<>>
    <3>1. x \o b = b
      BY <2>2, ConcatEmptySeq DEF Message
    <3>2. Split(x) = [messages |-> <<>>, rest |-> <<>>]
      BY <2>2, SplitStep
    <3>3. Split(x).messages = <<>> /\ Split(x).rest = x
      BY <2>2, <3>2
    <3>4. /\ Joined(Split(x), b) =
               [messages |-> <<>> \o Split(x \o b).messages, rest |-> Split(x \o b).rest]
          /\ Split(x \o b).messages \in Seq(Message)
      <4>1. LET t == Split(Split(x).rest \o b)
            IN  /\ t.messages \in Seq(Message)
                /\ Joined(Split(x), b) = [messages |-> Split(x).messages \o t.messages, rest |-> t.rest]
        BY <2>1, JoinedIs
      <4>2. QED
        BY <3>3, <4>1
    <3>5. <<>> \o Split(x \o b).messages = Split(x \o b).messages
      BY <3>4, ConcatEmptySeq
    <3>6. Split(x \o b) = [messages |-> Split(x \o b).messages, rest |-> Split(x \o b).rest]
      BY <2>1 DEF Parsed
    <3>7. QED
      BY <3>4, <3>5, <3>6
  <2>3. CASE x # <<>>
    <3>1. length \in Int /\ L >= 1
      BY <2>3, PacketLengthType, EmptySeq DEF Message
    <3>2. x \o b # <<>> /\ Len(x \o b) >= L
      <4>1. Len(x \o b) = L + Len(b) /\ Len(b) \in Nat
        BY ConcatProperties DEF Message
      <4>2. QED
        BY <2>1, <3>1, <4>1
    <3>3. length # 0 => PacketLength(x \o b) = length
      BY <2>3, PacketLengthStays
    <3>4. ASSUME NEW k \in 1..L
          PROVE  /\ Holds(y(k)) /\ y(k) \in Message /\ Split(y(k)) \in Parsed
                 /\ SubSeq(x \o b, 1, k) = SubSeq(x, 1, k)
                 /\ SubSeq(x \o b, k + 1, Len(x \o b)) = y(k) \o b
      <4>1. k \in 0..Len(x)
        BY <2>1
      <4>2. y(k) \in Message /\ Len(y(k)) = L - k
        BY <4>1, Sides
      <4>3. /\ SubSeq(x \o b, 1, k) = SubSeq(x, 1, k)
            /\ SubSeq(x \o b, k + 1, Len(x \o b)) = y(k) \o b
        BY <4>1, JoinedSides
      <4> HIDE DEF y
      <4>4. Len(y(k)) < Len(x)
        BY <2>1, <4>2
      <4> HIDE DEF Holds
      <4>5. Holds(y(k))
        BY <1>2, <4>2, <4>4
      <4>6. Split(y(k)) \in Parsed
        BY <4>2, SplitStep
      <4>7. QED
        BY <4>2, <4>3, <4>5, <4>6
    <3> HIDE DEF length
    <3>5. CASE length > 0 /\ length <= L
      <4> DEFINE m == <<SubSeq(x, 1, length)>>
                 r == Split(y(length))
                 t == Split(r.rest \o b)
                 u == Split(y(length) \o b)
      <4>1. length \in 1..L
        BY <2>1, <3>1, <3>5
      <4>2. /\ SubSeq(x \o b, 1, length) = SubSeq(x, 1, length)
            /\ SubSeq(x \o b, length + 1, Len(x \o b)) = y(length) \o b
            /\ u = Joined(r, b) /\ r \in Parsed
        BY <3>4, <4>1
      <4>3. Split(x) = [messages |-> m \o r.messages, rest |-> r.rest]
        BY <2>3, <3>5, SplitStep DEF length
      <4>4. Split(x \o b) = [messages |-> m \o u.messages, rest |-> u.rest]
        <5>1. PacketLength(x \o b) = length /\ length > 0 /\ length <= Len(x \o b)
          BY <2>1, <3>1, <3>2, <3>3, <3>5, ConcatProperties DEF Message
        <5> DEFINE j == x \o b
                   f == SubSeq(j, 1, length)
                   g == Split(SubSeq(j, length + 1, Len(j)))
        <5>2. f = SubSeq(x, 1, length) /\ g = u
          BY <4>2
        <5>3. j \in Message /\ j # <<>>
          BY <2>1, <3>2
        <5> HIDE DEF j
        <5>4. Split(j) = [messages |-> <<f>> \o g.messages, rest |-> g.rest]
          BY <5>1, <5>3, SplitStep DEF j
        <5> HIDE DEF f, g, u
        <5>5. QED
          BY <5>2, <5>4 DEF j
      <4> HIDE DEF r, u, y
      <4>5. /\ t.messages \in Seq(Message) /\ r.messages \in Seq(Message)
            /\ u.messages = r.messages \o t.messages /\ u.rest = t.rest
        BY <4>2, JoinedIs
      <4>6. Joined(Split(x), b) = [messages |-> (m \o r.messages) \o t.messages, rest |-> t.rest]
        <5>1. Split(x).messages = m \o r.messages /\ Split(x).rest = r.rest
          BY <4>3
        <5>2. LET v == Split(Split(x).rest \o b)
              IN  Joined(Split(x), b) = [messages |-> Split(x).messages \o v.messages, rest |-> v.rest]
          BY <2>1, JoinedIs
        <5> HIDE DEF m
        <5>3. QED
          BY <5>1, <5>2
      <4>7. m \in Seq(Message)
        <5>1. SubSeq(x, 1, length) \in Message
          BY <2>1, <4>1, Sides
        <5>2. QED
          BY <5>1
      <4> HIDE DEF m, t
      <4>8. (m \o r.messages) \o t.messages = m \o (r.messages \o t.messages)
        BY <4>5, <4>7, Associative
      <4>9. QED
        BY <4>4, <4>5, <4>6, <4>8
    <3>6. CASE length >= 0 /\ ~(length > 0 /\ length <= L)
      <4>1. Split(x) = [messages |-> <<>>, rest |-> x]
        <5>1. length >= 0 /\ (length = 0 \/ length > Len(x))
          BY <2>1, <3>1, <3>6
        <5>2. QED
          BY <2>3, <5>1, SplitStep DEF length
      <4>2. Split(x).messages = <<>> /\ Split(x).rest = x
        BY <4>1
      <4>3. /\ Joined(Split(x), b) =
                 [messages |-> <<>> \o Split(x \o b).messages, rest |-> Split(x \o b).rest]
            /\ Split(x \o b).messages \in Seq(Message)
        <5>1. LET t == Split(Split(x).rest \o b)
              IN  /\ t.messages \in Seq(Message)
                  /\ Joined(Split(x), b) = [messages |-> Split(x).messages \o t.messages, rest |-> t.rest]
          BY <2>1, JoinedIs
        <5>2. QED
          BY <4>2, <5>1
      <4>4. <<>> \o Split(x \o b).messages = Split(x \o b).messages
        BY <4>3, ConcatEmptySeq
      <4>5. Split(x \o b) = [messages |-> Split(x \o b).messages, rest |-> Split(x \o b).rest]
        BY <2>1 DEF Parsed
      <4>6. QED
        BY <4>3, <4>4, <4>5
    <3>7. CASE length < 0
      <4>1. 1 \in 1..L /\ 1 + 1 = 2
        BY <2>1, <3>1
      <4>2. Holds(y(1)) /\ SubSeq(x \o b, 1 + 1, Len(x \o b)) = y(1) \o b
        BY <3>4, <4>1
      <4>3. Split(x) = Split(y(1))
        BY <2>3, <3>7, SplitStep DEF length
      <4>4. PacketLength(x \o b) = length
        BY <3>1, <3>3, <3>7
      <4>5. Split(x \o b) = Split(y(1) \o b)
        BY <2>1, <3>2, <3>7, <4>2, <4>4, SplitStep
      <4>6. QED
        BY <4>2, <4>3, <4>5
    <3>8. QED
      BY <2>1, <3>1, <3>5, <3>6, <3>7
  <2>4. QED
    BY <2>2, <2>3
<1> HIDE DEF Holds
<1>3. 0 \in P
  <2>1. ASSUME NEW x \in Message, Len(x) <= 0 PROVE Holds(x)
    <3>1. \A y \in Message : ~(Len(y) < Len(x))
      BY <2>1 DEF Message
    <3>2. QED
      BY <1>2, <3>1
  <2>2. QED
    BY <1>1, <2>1
<1>4. ASSUME NEW k \in 0..(n - 1), k \in P PROVE k + 1 \in P
  <2>1. ASSUME NEW x \in Message, Len(x) <= k + 1 PROVE Holds(x)
    <3>1. \A y \in Message : Len(y) < Len(x) => Len(y) <= k
      BY <2>1 DEF Message
    <3>2. \A y \in Message : Len(y) <= k => Holds(y)
      BY <1>4
    <3>3. QED
      BY <1>2, <3>1, <3>2
  <2>2. k + 1 \in 0..n
    BY <1>1
  <2>3. QED
    BY <2>1, <2>2
<1>5. n \in P
  <2>1. n \in 0..n
    BY <1>1
  <2> HIDE DEF P, n
  <2>2. QED
    BY <1>1, <1>3, <1>4, <2>1, Upwards
<1>6. Holds(s)
  <2>1. n <= n
    BY <1>1
  <2>2. QED
    BY <1>5, <2>1
<1>7. QED
  BY <1>6 DEF Holds

-----------------------------------------------------------------------------
(* What is found in the stream *)

\* the messages in the stream up to a position
Found(p) == Split(Piece(0, p)).messages

\* A message that states its length is one message.
LEMMA SplitOne ==
  ASSUME NEW m \in Message, m # <<>>, PacketLength(m) = Len(m)
  PROVE  Split(m) = [messages |-> <<m>>, rest |-> <<>>]
<1> DEFINE t == SubSeq(m, PacketLength(m) + 1, Len(m))
           f == SubSeq(m, 1, PacketLength(m))
<1>1. Len(m) \in Nat /\ Len(m) > 0 /\ PacketLength(m) > 0 /\ PacketLength(m) <= Len(m)
  BY EmptySeq DEF Message
<1>2. f = m
  <2>1. SubSeq(m, 1, Len(m)) = m
    BY SubSeqFull DEF Message
  <2>2. QED
    BY <2>1
<1>3. t = <<>>
  <2>1. SubSeq(m, Len(m) + 1, Len(m)) = <<>>
    BY <1>1, SubSeqEmpty
  <2>2. QED
    BY <2>1
<1>4. Split(m) = [messages |-> <<f>> \o Split(t).messages, rest |-> Split(t).rest]
  BY <1>1, SplitStep
<1> HIDE DEF t, f
<1>5. Split(t) = [messages |-> <<>>, rest |-> <<>>]
  <2>1. t \in Message
    BY <1>3 DEF Message
  <2>2. QED
    BY <1>3, <2>1, SplitStep
<1>6. Split(t).messages = <<>> /\ Split(t).rest = <<>>
  BY <1>5
<1>7. <<m>> \o <<>> = <<m>>
  <2>1. <<m>> \in Seq(Message)
    OBVIOUS
  <2>2. QED
    BY <2>1, ConcatEmptySeq
<1>8. QED
  BY <1>2, <1>4, <1>6, <1>7

\* All lengths up to message Whole fit.
LEMMA WholeIs == Whole \in 0..N /\ \A i \in 1..Whole : LengthFits(i)
<1> DEFINE Fit(n) == \A i \in 1..n : LengthFits(i)
           P == {n \in 0..N : Fit(n)}
<1>1. N \in Nat
  BY Constants
<1>2. \E n \in 0..N : Fit(n) /\ (n < N => ~LengthFits(n + 1))
  <2>1. SUFFICES ASSUME \A n \in 0..N : ~(Fit(n) /\ (n < N => ~LengthFits(n + 1)))
                 PROVE  FALSE
    OBVIOUS
  <2>2. 0 \in P
    BY <1>1
  <2>3. ASSUME NEW n \in 0..(N - 1), n \in P PROVE n + 1 \in P
    <3>1. n \in 0..N /\ n + 1 \in 0..N /\ Fit(n) /\ n < N
      BY <1>1, <2>3
    <3>2. LengthFits(n + 1)
      BY <2>1, <3>1
    <3>3. \A i \in 1..(n + 1) : i \in 1..n \/ i = n + 1
      BY <1>1
    <3>4. Fit(n + 1)
      BY <3>1, <3>2, <3>3
    <3> HIDE DEF Fit
    <3>5. QED
      BY <3>1, <3>4
  <2>4. N \in P
    <3>1. N \in 0..N
      BY <1>1
    <3> HIDE DEF P
    <3>2. QED
      BY <1>1, <2>2, <2>3, <3>1, Upwards
  <2>5. N \in 0..N /\ Fit(N) /\ ~(N < N)
    BY <1>1, <2>4
  <2> HIDE DEF Fit, P
  <2>6. QED
    BY <2>1, <2>5
<1>3. QED
  BY <1>2 DEF Whole, N

\* The messages before the first whose length does not fit are what their bytes are
\* split into.
LEMMA SplitOfSent ==
  ASSUME NEW n \in 0..Whole
  PROVE  n \in 0..N /\ Split(Written(n)) = [messages |-> Sent(n), rest |-> <<>>]
<1> DEFINE P == {k \in 0..Whole : Split(Written(k)) = [messages |-> Sent(k), rest |-> <<>>]}
<1>1. N \in Nat /\ Whole \in 0..N /\ \A i \in 1..Whole : LengthFits(i)
  BY Constants, WholeIs
<1>2. 0 \in P
  <2>1. Written(0) = <<>> /\ Sent(0) = <<>> /\ <<>> \in Message
    BY WrittenStep, SentStep DEF Message
  <2>2. Split(Written(0)) = [messages |-> Sent(0), rest |-> <<>>]
    BY <2>1, SplitStep
  <2>3. QED
    BY <1>1, <2>2
<1>3. ASSUME NEW k \in 0..(Whole - 1), k \in P PROVE k + 1 \in P
  <2> DEFINE i == k + 1
             w == Written(k)
             b == Bytes(i)
  <2>1. i \in 1..N /\ i - 1 = k /\ k \in 0..N /\ i \in 0..N /\ i \in 1..Whole /\ i \in 0..Whole
    BY <1>1
  <2>2. w \in Message /\ Written(i) = Gathered(w, b) /\ b \in Message
    BY <2>1, WrittenStep, BytesAre
  <2>3. Sent(i) = Added(Sent(k), i) /\ Sent(k) \in Seq(Message)
    BY <2>1, SentStep
  <2>4. Split(w) = [messages |-> Sent(k), rest |-> <<>>]
    BY <1>3
  <2> HIDE DEF i, w
  <2>5. CASE IsKnown(i)
    <3>1. PacketLength(b) = Len(b) /\ Len(b) > 0 /\ Len(b) \in Nat
      <4>1. PacketLength(b) = Size(i)
        BY <1>1, <2>1, <2>5, BytesState
      <4>2. Len(b) = Size(i) /\ Size(i) \in Nat /\ FieldSize(i) \in 0..2 /\ Size(i) > FieldSize(i)
        BY <2>1, BytesAre
      <4>3. QED
        BY <4>1, <4>2
    <3> HIDE DEF b
    <3>2. b # <<>> /\ IsValidPacket(b)
      BY <2>2, <3>1 DEF IsValidPacket, IsValidLength
    <3>3. Split(b) = [messages |-> <<b>>, rest |-> <<>>]
      BY <2>2, <3>1, <3>2, SplitOne
    <3>4. Written(i) = w \o b
      BY <2>2, <3>2 DEF Gathered
    <3>5. Split(w).messages = Sent(k) /\ Split(w).rest = <<>> /\ <<>> \o b = b
      BY <2>2, <2>4, ConcatEmptySeq DEF Message
    <3>6. Split(w \o b) = Joined(Split(w), b)
      BY <2>2, SplitJoins
    <3>7. Joined(Split(w), b) = [messages |-> Sent(k) \o Split(b).messages, rest |-> Split(b).rest]
      BY <3>5 DEF Joined
    <3>8. Split(b).messages = <<b>> /\ Split(b).rest = <<>>
      BY <3>3
    <3>9. Sent(i) = Sent(k) \o <<b>>
      <4>1. Sent(i) = Append(Sent(k), b)
        BY <2>3, <2>5 DEF Added, b
      <4>2. QED
        BY <2>2, <2>3, <4>1, AppendIsConcat
    <3>10. Split(Written(i)) = [messages |-> Sent(i), rest |-> <<>>]
      BY <3>4, <3>6, <3>7, <3>8, <3>9
    <3>11. QED
      BY <2>1, <3>10 DEF i
  <2>6. CASE ~IsKnown(i)
    <3>1. ~IsValidPacket(b)
      BY <2>1, <2>6, BytesState
    <3>2. Written(i) = w /\ Sent(i) = Sent(k)
      BY <2>2, <2>3, <2>6, <3>1 DEF Gathered, Added
    <3>3. QED
      BY <2>1, <2>4, <3>2 DEF i
  <2>7. QED
    BY <2>5, <2>6
<1>4. n \in P
  <2>1. Whole \in Nat
    BY <1>1
  <2> HIDE DEF P
  <2>2. QED
    BY <1>2, <1>3, <2>1, Upwards
<1>5. QED
  BY <1>1, <1>4

\* A sequence is at the front of what begins with it.
LEMMA FrontOfJoined ==
  ASSUME NEW S, NEW s \in Seq(S), NEW t \in Seq(S)
  PROVE  Len(s) <= Len(s \o t) /\ SubSeq(s \o t, 1, Len(s)) = s
<1>1. Len(s) \in Nat /\ Len(t) \in Nat /\ Len(s \o t) = Len(s) + Len(t)
  BY LenProperties, ConcatProperties
<1>2. SubSeq(s, 1, Len(s)) = s
  BY SubSeqFull
<1>3. CASE s = <<>>
  <2>1. SubSeq(s \o t, 1, 0) = <<>>
    BY SubSeqEmpty
  <2>2. QED
    BY <1>1, <1>3, <2>1
<1>4. CASE s # <<>>
  <2>1. 1 \in 1..Len(s) /\ Len(s) \in 1..Len(s)
    BY <1>1, <1>4, EmptySeq
  <2>2. SubSeq(s \o t, 1, Len(s)) = SubSeq(s, 1, Len(s))
    BY <2>1, SubSeqOfConcat1
  <2>3. QED
    BY <1>1, <1>2, <2>2
<1>5. QED
  BY <1>3, <1>4

\* The front of a front is a front.
LEMMA FrontOfFront ==
  ASSUME NEW S, NEW s \in Seq(S), NEW j \in 0..Len(s), NEW i \in 0..j
  PROVE  /\ Len(SubSeq(s, 1, j)) = j /\ SubSeq(s, 1, j) \in Seq(S)
         /\ SubSeq(SubSeq(s, 1, j), 1, i) = SubSeq(s, 1, i)
<1>1. Len(s) \in Nat /\ \A k \in 1..Len(s) : s[k] \in S
  BY SequenceHas
<1>2. \A k \in 1..j : s[k] \in S
  BY <1>1
<1>3. Len(SubSeq(s, 1, j)) = j /\ SubSeq(s, 1, j) \in Seq(S)
  <2>1. /\ SubSeq(s, 1, j) \in Seq(S)
        /\ Len(SubSeq(s, 1, j)) = IF 1 <= j THEN j - 1 + 1 ELSE 0
    BY <1>1, <1>2, SubSeqProperties, 1 \in Int, j \in Int
  <2>2. QED
    BY <1>1, <2>1
<1>4. CASE i = 0
  <2>1. SubSeq(s, 1, 0) = <<>> /\ SubSeq(SubSeq(s, 1, j), 1, 0) = <<>>
    BY SubSeqEmpty
  <2>2. QED
    BY <1>3, <1>4, <2>1
<1>5. CASE i # 0
  <2>1. /\ 1 \in 1..Len(s) /\ j \in 1..Len(s) /\ 1 \in 1..(j - 1 + 1) /\ i \in 1..(j - 1 + 1)
        /\ 1 + 1 - 1 = 1 /\ 1 + i - 1 = i
    BY <1>1, <1>5
  <2>2. SubSeq(SubSeq(s, 1, j), 1, i) = SubSeq(s, 1 + 1 - 1, 1 + i - 1)
    BY <2>1, SubSeqOfSubSeq
  <2>3. QED
    BY <1>3, <2>1, <2>2
<1>6. QED
  BY <1>4, <1>5

\* What is found stays at the front of what is found further on.
LEMMA FoundGrows ==
  ASSUME NEW p \in 0..Ends[N], NEW q \in p..Ends[N]
  PROVE  /\ Found(p) \in Seq(Message) /\ Found(q) \in Seq(Message)
         /\ Len(Found(p)) <= Len(Found(q))
         /\ Found(p) = SubSeq(Found(q), 1, Len(Found(p)))
<1>1. Ends[N] \in Nat
  BY StreamType
<1>2. p \in 0..Ends[N] /\ q \in 0..Ends[N] /\ p \in Nat /\ 0 \in Nat
  BY <1>1
<1> DEFINE s == Piece(0, p)
           b == Piece(p, q)
<1>3. s \in Message /\ b \in Message /\ Piece(0, q) = s \o b
  BY <1>2, PieceIs, PiecesJoin
<1> HIDE DEF s, b
<1>4. Split(s) \in Parsed /\ Split(s \o b) = Joined(Split(s), b)
  BY <1>3, SplitStep, SplitJoins
<1> DEFINE new == Split(Split(s).rest \o b).messages
<1>5. /\ Split(s).messages \in Seq(Message) /\ new \in Seq(Message)
      /\ Split(s \o b).messages = Split(s).messages \o new
  BY <1>3, <1>4, JoinedIs
<1>6. Found(p) = Split(s).messages /\ Found(q) = Split(s \o b).messages
  BY <1>3 DEF Found, s
<1> HIDE DEF new
<1>7. Split(s).messages \o new \in Seq(Message)
  BY <1>5, ConcatProperties
<1>8. QED
  BY <1>5, <1>6, <1>7, FrontOfJoined

-----------------------------------------------------------------------------
(* The chunks that a flush makes *)

\* The bytes of the messages after message b are the piece of the stream there.
LEMMA GatheredIsPiece ==
  ASSUME NEW b \in 0..N, NEW n \in 0..(N - b), NEW s \in Seq(Message), Len(s) = n,
         \A i \in 1..n : s[i] = Bytes(b + i)
  PROVE  FoldLeft(Gathered, <<>>, s) = Piece(Ends[b], Ends[b + n])
<1>1. N \in Nat
  BY Constants
<1>2. PICK g \in [0..n -> Message] :
        /\ g[0] = <<>> /\ FoldLeft(Gathered, <<>>, s) = g[n]
        /\ \A k \in 1..n : g[k] = Gathered(g[k - 1], s[k])
  <2>1. <<>> \in Message
    BY DEF Message
  <2>2. QED
    BY <2>1, GatheredFold
<1> DEFINE P == {k \in 0..n : g[k] = Piece(Ends[b], Ends[b + k])}
<1>3. 0 \in P
  <2>1. Ends[b] \in Nat /\ b + 0 = b /\ 0 \in 0..n
    BY <1>1, StreamType
  <2>2. Piece(Ends[b], Ends[b]) = <<>>
    BY <2>1, SubSeqEmpty DEF Piece
  <2>3. QED
    BY <1>2, <2>1, <2>2
<1>4. ASSUME NEW k \in 0..(n - 1), k \in P PROVE k + 1 \in P
  <2> DEFINE m == b + k
             i == b + (k + 1)
  <2>1. /\ i \in 1..N /\ i - 1 = m /\ m \in 0..N /\ m \in b..N
        /\ k + 1 \in 1..n /\ (k + 1) - 1 = k /\ k + 1 \in 0..n /\ k \in 0..n
    BY <1>1
  <2>2. /\ g[k + 1] = Gathered(g[k], Bytes(i)) /\ g[k] = Piece(Ends[b], Ends[m])
        /\ g[k] \in Message
    BY <1>2, <1>4, <2>1
  <2> HIDE DEF m, i
  <2>3. /\ Ends[b] \in Nat /\ Ends[m] \in Ends[b]..Ends[N] /\ Ends[i] \in Ends[m]..Ends[N]
    BY <2>1, EndsGrow, MessageIsPiece
  <2>4. Piece(Ends[m], Ends[i]) = IF IsValidPacket(Bytes(i)) THEN Bytes(i) ELSE <<>>
    BY <2>1, MessageIsPiece
  <2>5. g[k + 1] = g[k] \o Piece(Ends[m], Ends[i])
    <3>1. g[k] \o <<>> = g[k]
      BY <2>2, ConcatEmptySeq DEF Message
    <3>2. QED
      BY <2>2, <2>4, <3>1 DEF Gathered
  <2>6. g[k + 1] = Piece(Ends[b], Ends[i])
    BY <2>2, <2>3, <2>5, PiecesJoin
  <2>7. QED
    BY <2>1, <2>6 DEF i
<1>5. n \in Nat /\ n \in 0..n
  BY <1>1
<1>6. n \in P
  <2> HIDE DEF P
  <2>1. QED
    BY <1>3, <1>4, <1>5, Upwards
<1>7. QED
  BY <1>2, <1>6

\* Min of two numbers.
LEMMA LeastOfTwo ==
  ASSUME NEW x \in Nat, NEW y \in Nat
  PROVE  Min({x, y}) = IF x <= y THEN x ELSE y
<1>1. CASE x <= y
  <2>1. \A z \in {x, y} : (\A u \in {x, y} : z <= u) => z = x
    BY <1>1
  <2>2. x \in {x, y} /\ \A u \in {x, y} : x <= u
    BY <1>1
  <2>3. QED
    BY <1>1, <2>1, <2>2 DEF Min
<1>2. CASE ~(x <= y)
  <2>1. \A z \in {x, y} : (\A u \in {x, y} : z <= u) => z = y
    BY <1>2
  <2>2. y \in {x, y} /\ \A u \in {x, y} : y <= u
    BY <1>2
  <2>3. QED
    BY <1>2, <2>1, <2>2 DEF Min
<1>3. QED
  BY <1>1, <1>2

\* What integer division by a positive number says of its result.
LEMMA Division ==
  ASSUME NEW x \in Nat, NEW m \in Nat, m > 0
  PROVE  x \div m \in Nat /\ (x \div m) * m <= x /\ x < (x \div m) * m + m
OBVIOUS

\* More chunks have more room.
LEMMA Multiples ==
  ASSUME NEW i \in Nat, NEW n \in Nat, i <= n, NEW m \in Nat
  PROVE  i * m \in Nat /\ n * m \in Nat /\ i * m <= n * m
OBVIOUS

\* A piece is cut into pieces that leave nothing out.
LEMMA CutOfPiece ==
  ASSUME NEW p \in Nat, NEW q \in p..Ends[N]
  PROVE  LET cut == Cut(Piece(p, q))
         IN  /\ cut \in Seq(Message)
             /\ \E e \in [0..Len(cut) -> p..q] :
                  /\ e[0] = p /\ e[Len(cut)] = q
                  /\ \A i \in 1..Len(cut) : e[i - 1] <= e[i] /\ cut[i] = Piece(e[i - 1], e[i])
<1> DEFINE M == MaxChunkSize
           L == q - p
           n == (L + M - 1) \div M
           bytes == Piece(p, q)
           cut == Cut(bytes)
           e == [i \in 0..n |-> p + (IF i * M <= L THEN i * M ELSE L)]
<1>1. M \in Nat /\ M > 0 /\ Ends[N] \in Nat /\ L \in Nat /\ L + M - 1 \in Nat
  <2>1. M \in Nat /\ M > 0 /\ Ends[N] \in Nat
    BY Constants, StreamType
  <2>2. QED
    BY <2>1
<1>2. n \in Nat /\ n * M <= L + M - 1 /\ L + M - 1 < n * M + M
  <2> DEFINE x == L + M - 1
  <2>1. x \in Nat /\ M \in Nat /\ M > 0
    BY <1>1
  <2> HIDE DEF x, M
  <2>2. QED
    BY <2>1, Division DEF x
<1>3. bytes \in Message /\ Len(bytes) = L
  BY <1>1, PieceIs
<1>4. cut = [i \in 1..n |-> SubSeq(bytes, (i - 1) * M + 1, Min({i * M, L}))]
  BY <1>3 DEF Cut
<1> HIDE DEF n, M, bytes, cut
<1>5. ASSUME NEW i \in 0..n
      PROVE  i * M \in Nat /\ e[i] \in p..q /\ (i < n => i * M < L)
             /\ e[i] = p + (IF i * M <= L THEN i * M ELSE L)
  <2>1. i * M \in Nat
    BY <1>1, <1>2
  <2>2. i < n => i * M + M <= n * M
    <3>1. SUFFICES ASSUME i < n PROVE i * M + M <= n * M
      OBVIOUS
    <3>2. i + 1 \in Nat /\ i + 1 <= n
      BY <1>2, <3>1
    <3>3. (i + 1) * M <= n * M
      BY <1>1, <1>2, <3>2, Multiples
    <3>4. (i + 1) * M = i * M + M
      BY <1>1, <1>2
    <3>5. QED
      BY <3>3, <3>4
  <2>3. n * M \in Nat
    BY <1>1, <1>2
  <2>4. i < n => i * M < L
    BY <1>1, <1>2, <2>1, <2>2, <2>3
  <2>5. e[i] = p + (IF i * M <= L THEN i * M ELSE L)
    OBVIOUS
  <2>6. e[i] \in p..q
    BY <1>1, <2>1, <2>5
  <2>7. QED
    BY <2>1, <2>4, <2>5, <2>6
<1>6. e[0] = p
  BY <1>1, <1>2
<1>7. e[n] = q
  <2>1. n * M >= L /\ n * M \in Nat /\ n \in 0..n
    BY <1>1, <1>2
  <2>2. e[n] = p + (IF n * M <= L THEN n * M ELSE L)
    BY <1>5, <2>1
  <2>3. QED
    BY <1>1, <2>1, <2>2
<1>8. ASSUME NEW i \in 1..n
      PROVE  /\ e[i - 1] <= e[i]
             /\ SubSeq(bytes, (i - 1) * M + 1, Min({i * M, L})) = Piece(e[i - 1], e[i])
  <2> DEFINE x == (i - 1) * M
             y == IF i * M <= L THEN i * M ELSE L
  <2>1. i \in 0..n /\ i - 1 \in 0..n /\ i - 1 < n
    BY <1>2
  <2>2. x \in Nat /\ x < L /\ e[i - 1] = p + (IF x <= L THEN x ELSE L)
    BY <1>5, <2>1
  <2>3. i * M = x + M /\ i * M \in Nat
    BY <1>1, <2>1
  <2>4. e[i] = p + y
    BY <1>5, <2>1
  <2>5. Min({i * M, L}) = y
    BY <1>1, <2>3, LeastOfTwo
  <2>6. y \in x..L
    BY <1>1, <2>2, <2>3
  <2> HIDE DEF x, y
  <2>7. e[i - 1] = p + x
    BY <1>1, <2>2
  <2>8. SubSeq(Piece(p, q), x + 1, y) = Piece(p + x, p + y)
    <3>1. x \in 0..(q - p) /\ y \in x..(q - p)
      BY <1>1, <2>2, <2>6
    <3>2. QED
      BY <3>1, PieceOfPiece
  <2>9. p + x <= p + y
    BY <1>1, <2>2, <2>6
  <2>10. QED
    BY <2>4, <2>5, <2>7, <2>8, <2>9 DEF x, bytes
<1>9. e \in [0..n -> p..q]
  <2>1. e = [i \in 0..n |-> e[i]]
    OBVIOUS
  <2> HIDE DEF e
  <2>2. QED
    BY <1>5, <2>1
<1>10. cut = [i \in 1..n |-> Piece(e[i - 1], e[i])]
  <2> HIDE DEF e, L
  <2>1. QED
    BY <1>4, <1>8
<1> HIDE DEF e, L
<1>11. ASSUME NEW i \in 1..n PROVE Piece(e[i - 1], e[i]) \in Message
  <2>1. i \in 0..n /\ i - 1 \in 0..n
    BY <1>2
  <2>2. e[i - 1] \in p..q /\ e[i] \in p..q /\ e[i - 1] <= e[i]
    BY <1>8, <1>9, <2>1
  <2>3. e[i - 1] \in Nat /\ e[i] \in e[i - 1]..Ends[N]
    BY <1>1, <2>2
  <2>4. QED
    BY <2>3, PieceIs
<1>12. cut \in Seq(Message) /\ Len(cut) = n
  <2>1. cut \in [1..n -> Message]
    BY <1>10, <1>11
  <2>2. QED
    BY <1>2, <2>1, SequenceIs
<1>13. \A i \in 1..n : e[i - 1] <= e[i] /\ cut[i] = Piece(e[i - 1], e[i])
  BY <1>8, <1>10
<1>14. /\ cut \in Seq(Message) /\ e \in [0..Len(cut) -> p..q] /\ e[0] = p /\ e[Len(cut)] = q
       /\ \A i \in 1..Len(cut) : e[i - 1] <= e[i] /\ cut[i] = Piece(e[i - 1], e[i])
  BY <1>6, <1>7, <1>9, <1>12, <1>13, Zenon
<1>15. QED
  BY <1>14, Zenon DEF cut, bytes

-----------------------------------------------------------------------------
(* Chunks that are joined *)

\* The steps of the fold of ProcessRawPacket.
LEMMA JoinedFold ==
  ASSUME NEW s \in Seq(Message), NEW base \in Parsed
  PROVE  \E g \in [0..Len(s) -> Parsed] :
           /\ g[0] = base /\ FoldLeft(Joined, base, s) = g[Len(s)]
           /\ \A k \in 1..Len(s) : g[k] = Joined(g[k - 1], s[k])
<1> DEFINE n == Len(s)
           S == Parsed
           Body(it) == [A \in SUBSET (1..n) |->
                          IF A = {} THEN base ELSE Joined(it[A \ {Max(A)}], s[Max(A)])]
           it == CHOOSE it : it = Body(it)
           F == [x \in S \X (1..n) |-> Joined(x[1], s[x[2]])]
           g == [k \in 0..n |-> it[1..k]]
<1>1. n \in Nat /\ DOMAIN s = 1..n /\ \A i \in 1..n : s[i] \in Message
  BY SequenceHas
<1> HIDE DEF n
<1>2. \A x \in S, i \in 1..n : Joined(x, s[i]) \in S
  BY <1>1, JoinedType
<1>3. base \in S /\ F \in [S \X (1..n) -> S]
  BY <1>2
<1>4. PICK h \in [SUBSET (1..n) -> S] : IsFold(h, n, base, F)
  <2> HIDE DEF F, S
  <2>1. QED
    BY <1>1, <1>3, FoldExists
<1>5. h = Body(h)
  <2>1. ASSUME NEW A \in SUBSET (1..n), A # {}
        PROVE  F[<<h[A \ {Max(A)}], Max(A)>>] = Joined(h[A \ {Max(A)}], s[Max(A)])
    <3>1. Max(A) \in 1..n
      BY <1>1, <2>1, GreatestNumber
    <3>2. h[A \ {Max(A)}] \in S
      BY <1>4
    <3> HIDE DEF S
    <3>3. QED
      BY <3>1, <3>2
  <2> HIDE DEF F, S
  <2>2. QED
    BY <1>4, <2>1 DEF IsFold
<1>6. it = Body(it)
  <2> HIDE DEF Body
  <2>1. QED
    BY <1>5
<1>7. FoldLeft(Joined, base, s) = it[1..n]
  <2>1. FoldLeft(Joined, base, s) =
          LET f == CHOOSE f : f = [A \in SUBSET DOMAIN s |->
                                     IF A = {} THEN base
                                     ELSE LET x == Max(A) IN Joined(f[A \ {x}], s[x])]
          IN  f[DOMAIN s]
    BY Zenon DEF FoldLeft, MapThenFoldSet
  <2>2. QED
    BY <1>1, <2>1, Zenon
<1>8. g[0] = base /\ g[n] = FoldLeft(Joined, base, s)
  <2>1. it[{}] = base
    <3> HIDE DEF it
    <3>1. QED
      BY <1>6
  <2> HIDE DEF it
  <2>2. g[0] = it[1..0] /\ g[n] = it[1..n]
    BY <1>1
  <2>3. QED
    BY <1>7, <2>1, <2>2, IndexSets
<1>9. ASSUME NEW k \in 1..n PROVE g[k] = Joined(g[k - 1], s[k])
  <2> HIDE DEF it
  <2>1. g[k] = it[1..k] /\ g[k - 1] = it[1..(k - 1)]
    BY <1>1
  <2>2. 1..k \in SUBSET (1..n) /\ 1..k # {} /\ Max(1..k) = k /\ (1..k) \ {k} = 1..(k - 1)
    BY <1>1, k \in 0..n, n \in Nat, IndexSets
  <2>3. it[1..k] = Joined(it[(1..k) \ {Max(1..k)}], s[Max(1..k)])
    BY <1>6, <2>2
  <2>4. QED
    BY <2>1, <2>2, <2>3
<1>10. g \in [0..n -> S]
  <2> DEFINE P == {k \in 0..n : g[k] \in S}
  <2>1. 0 \in P
    <3> HIDE DEF g, S
    <3>1. QED
      BY <1>1, <1>3, <1>8
  <2>2. ASSUME NEW k \in 0..(n - 1), k \in P PROVE k + 1 \in P
    <3>1. k + 1 \in 1..n /\ (k + 1) - 1 = k
      BY <1>1
    <3> HIDE DEF g, S
    <3>2. g[k + 1] = Joined(g[k], s[k + 1]) /\ g[k] \in S
      BY <1>9, <2>2, <3>1
    <3>3. QED
      BY <1>2, <3>1, <3>2
  <2>3. \A k \in 0..n : k \in P
    <3> HIDE DEF P
    <3>1. QED
      BY <1>1, <2>1, <2>2, Upwards
  <2>4. g = [k \in 0..n |-> g[k]]
    OBVIOUS
  <2> HIDE DEF g, S
  <2>5. QED
    BY <2>3, <2>4
<1>11. QED
  <2> HIDE DEF g
  <2>1. QED
    BY <1>8, <1>9, <1>10 DEF n

\* Messages before those that were found make no difference to a chunk.
LEMMA JoinedAfter ==
  ASSUME NEW m \in Seq(Message), NEW got \in Parsed, NEW chunk \in Message
  PROVE  Joined([messages |-> m \o got.messages, rest |-> got.rest], chunk)
           = [messages |-> m \o Joined(got, chunk).messages, rest |-> Joined(got, chunk).rest]
<1> DEFINE t == Split(got.rest \o chunk)
           p == [messages |-> m \o got.messages, rest |-> got.rest]
<1>1. /\ got.messages \in Seq(Message) /\ t.messages \in Seq(Message)
      /\ Joined(got, chunk).messages = got.messages \o t.messages
      /\ Joined(got, chunk).rest = t.rest
  BY JoinedIs
<1>2. p.messages = m \o got.messages /\ p.rest = got.rest
  OBVIOUS
<1>3. Joined(p, chunk) = [messages |-> p.messages \o Split(p.rest \o chunk).messages,
                          rest |-> Split(p.rest \o chunk).rest]
  BY DEF Joined
<1> HIDE DEF p
<1>4. Joined(p, chunk) = [messages |-> (m \o got.messages) \o t.messages, rest |-> t.rest]
  BY <1>2, <1>3
<1> HIDE DEF t
<1>5. (m \o got.messages) \o t.messages = m \o (got.messages \o t.messages)
  BY <1>1, Associative
<1>6. QED
  BY <1>1, <1>4, <1>5 DEF p

\* Chunks that follow a part of the stream that was split make what the stream up to
\* their end is split into.
LEMMA ChunksJoin ==
  ASSUME NEW K \in Nat, NEW off \in [0..K -> 0..Ends[N]], NEW s \in Seq(Message), Len(s) = K,
         \A i \in 1..K : off[i - 1] <= off[i] /\ s[i] = Piece(off[i - 1], off[i]),
         NEW have \in Parsed, Split(Piece(0, off[0])) = have
  PROVE  \E got \in Parsed :
           /\ got = FoldLeft(Joined, [messages |-> <<>>, rest |-> have.rest], s)
           /\ Split(Piece(0, off[K])) = [messages |-> have.messages \o got.messages,
                                         rest |-> got.rest]
<1> DEFINE first == [messages |-> <<>>, rest |-> have.rest]
           result == FoldLeft(Joined, first, s)
<1>1. /\ have.messages \in Seq(Message) /\ have.rest \in Message /\ first \in Parsed
      /\ have = [messages |-> have.messages, rest |-> have.rest] /\ Ends[N] \in Nat
      /\ \A i \in 1..K : s[i] \in Message
  <2>1. have.messages \in Seq(Message) /\ have.rest \in Message
        /\ have = [messages |-> have.messages, rest |-> have.rest]
    BY DEF Parsed
  <2>2. <<>> \in Seq(Message)
    OBVIOUS
  <2>3. first \in Parsed
    BY <2>1, <2>2 DEF Parsed
  <2>4. QED
    BY <2>1, <2>3, StreamType, SequenceHas
<1>2. PICK g \in [0..K -> Parsed] :
        /\ g[0] = first /\ result = g[K]
        /\ \A k \in 1..K : g[k] = Joined(g[k - 1], s[k])
  <2> HIDE DEF first
  <2>1. \E g \in [0..Len(s) -> Parsed] :
          /\ g[0] = first /\ FoldLeft(Joined, first, s) = g[Len(s)]
          /\ \A k \in 1..Len(s) : g[k] = Joined(g[k - 1], s[k])
    BY <1>1, JoinedFold, Zenon
  <2>2. QED
    BY <2>1, Zenon
<1> HIDE DEF result
<1> DEFINE After(x) == [messages |-> have.messages \o x.messages, rest |-> x.rest]
           P == {k \in 0..K : Split(Piece(0, off[k])) = After(g[k])}
<1>3. 0 \in P
  <2>1. first.messages = <<>> /\ first.rest = have.rest
    OBVIOUS
  <2> HIDE DEF first
  <2>2. have.messages \o <<>> = have.messages
    BY <1>1, ConcatEmptySeq
  <2>3. After(first) = have
    BY <1>1, <2>1, <2>2
  <2> HIDE DEF After
  <2>4. QED
    BY <1>2, <2>3
<1>4. ASSUME NEW k \in 0..(K - 1), k \in P PROVE k + 1 \in P
  <2> DEFINE x == Piece(0, off[k])
             b == s[k + 1]
             q == g[k]
  <2>1. k + 1 \in 1..K /\ (k + 1) - 1 = k /\ k + 1 \in 0..K /\ k \in 0..K
    OBVIOUS
  <2>2. /\ q \in Parsed /\ g[k + 1] = Joined(q, b) /\ b \in Message
        /\ Split(x) = After(q)
    BY <1>1, <1>2, <1>4, <2>1
  <2>3. /\ off[k] \in 0..Ends[N] /\ off[k + 1] \in 0..Ends[N] /\ off[k] <= off[k + 1]
        /\ b = Piece(off[k], off[k + 1])
    BY <2>1
  <2>4. x \in Message /\ Piece(0, off[k + 1]) = x \o b
    <3>1. off[k] \in 0..Ends[N] /\ off[k + 1] \in off[k]..Ends[N] /\ 0 \in Nat
      BY <1>1, <2>3
    <3>2. x \in Message
      BY <3>1, PieceIs
    <3>3. Piece(0, off[k]) \o Piece(off[k], off[k + 1]) = Piece(0, off[k + 1])
      BY <3>1, PiecesJoin
    <3>4. QED
      BY <2>3, <3>2, <3>3
  <2> HIDE DEF x, b, q
  <2>5. Split(x \o b) = Joined(Split(x), b)
    BY <2>2, <2>4, SplitJoins
  <2>6. Joined(After(q), b) = After(Joined(q, b))
    BY <1>1, <2>2, JoinedAfter
  <2> HIDE DEF After
  <2>7. Split(Piece(0, off[k + 1])) = After(g[k + 1])
    BY <2>2, <2>4, <2>5, <2>6
  <2>8. QED
    BY <2>1, <2>7
<1>5. K \in P
  <2>1. K \in 0..K
    OBVIOUS
  <2> HIDE DEF P
  <2>2. QED
    BY <1>3, <1>4, <2>1, Upwards
<1>6. Split(Piece(0, off[K])) = After(result) /\ result \in Parsed
  BY <1>2, <1>5
<1>7. QED
  BY <1>6, Zenon DEF result, first

-----------------------------------------------------------------------------
(* Counting pings *)

PingsOf(q) == {i \in DOMAIN q : IsPing(q[i])}

\* The number of pings is the size of a finite set of places.
LEMMA PingsAre ==
  ASSUME NEW q \in Seq(Message)
  PROVE  /\ IsFiniteSet(PingsOf(q)) /\ Pings(q) = Cardinality(PingsOf(q)) /\ Pings(q) \in Nat
         /\ PingsOf(q) = {i \in 1..Len(q) : IsPing(q[i])}
<1>1. Len(q) \in Nat /\ DOMAIN q = 1..Len(q)
  BY SequenceHas
<1>2. IsFiniteSet(1..Len(q))
  BY <1>1, FS_Interval
<1>3. PingsOf(q) \in SUBSET (1..Len(q))
  BY <1>1 DEF PingsOf
<1>4. IsFiniteSet(PingsOf(q)) /\ Cardinality(PingsOf(q)) \in Nat
  BY <1>2, <1>3, FS_Subset, FS_CardinalityType
<1>5. QED
  BY <1>1, <1>4 DEF Pings, PingsOf

\* Two queues together have the pings of both.
LEMMA PingsJoin ==
  ASSUME NEW p \in Seq(Message), NEW q \in Seq(Message)
  PROVE  Pings(p \o q) = Pings(p) + Pings(q) /\ p \o q \in Seq(Message)
<1> DEFINE l == Len(p)
           A == PingsOf(p)
           B == PingsOf(q)
           C == {l + i : i \in B}
           f == [i \in B |-> l + i]
<1>1. /\ p \o q \in Seq(Message) /\ Len(p \o q) = l + Len(q) /\ l \in Nat /\ Len(q) \in Nat
      /\ \A i \in 1..(l + Len(q)) : (p \o q)[i] = IF i <= l THEN p[i] ELSE q[i - l]
  BY ConcatProperties, SequenceHas
<1>2. /\ IsFiniteSet(A) /\ Pings(p) = Cardinality(A) /\ A = {i \in 1..l : IsPing(p[i])}
      /\ IsFiniteSet(B) /\ Pings(q) = Cardinality(B) /\ B = {i \in 1..Len(q) : IsPing(q[i])}
      /\ Pings(p) \in Nat /\ Pings(q) \in Nat
  BY PingsAre
<1>3. PingsOf(p \o q) = {i \in 1..(l + Len(q)) : IsPing((p \o q)[i])}
      /\ Pings(p \o q) = Cardinality(PingsOf(p \o q))
  BY <1>1, PingsAre
<1>4. IsFiniteSet(C) /\ Cardinality(C) = Cardinality(B)
  <2>1. B \subseteq Nat
    BY <1>1, <1>2
  <2> HIDE DEF B
  <2>2. f \in Bijection(B, C)
    BY <1>1, <2>1 DEF Bijection, Injection, IsInjective, Surjection
  <2>3. ExistsBijection(B, C)
    BY <2>2 DEF ExistsBijection
  <2>4. QED
    BY <1>2, <2>3, FS_Bijection
<1>5. PingsOf(p \o q) = A \cup C
  <2>1. ASSUME NEW i \in PingsOf(p \o q) PROVE i \in A \cup C
    <3>1. i \in 1..(l + Len(q)) /\ IsPing((p \o q)[i])
      BY <1>3
    <3>2. CASE i <= l
      <4>1. i \in 1..l /\ (p \o q)[i] = p[i]
        BY <1>1, <3>1, <3>2
      <4>2. IsPing(p[i])
        BY <3>1, <4>1
      <4>3. QED
        BY <1>2, <4>1, <4>2
    <3>3. CASE ~(i <= l)
      <4>1. i - l \in 1..Len(q) /\ (p \o q)[i] = q[i - l] /\ i = l + (i - l)
        BY <1>1, <3>1, <3>3
      <4>2. IsPing(q[i - l])
        BY <3>1, <4>1
      <4>3. i - l \in B
        BY <1>2, <4>1, <4>2
      <4> HIDE DEF B
      <4>4. QED
        BY <4>1, <4>3
    <3>4. QED
      BY <3>2, <3>3
  <2>2. ASSUME NEW i \in A PROVE i \in PingsOf(p \o q)
    <3>1. i \in 1..l /\ IsPing(p[i])
      BY <1>2
    <3>2. i \in 1..(l + Len(q)) /\ (p \o q)[i] = p[i]
      BY <1>1, <3>1
    <3>3. QED
      BY <1>3, <3>1, <3>2
  <2>3. ASSUME NEW j \in B PROVE l + j \in PingsOf(p \o q)
    <3>1. j \in 1..Len(q) /\ IsPing(q[j])
      BY <1>2
    <3>2. l + j \in 1..(l + Len(q)) /\ ~(l + j <= l) /\ (l + j) - l = j
      BY <1>1, <3>1
    <3>3. (p \o q)[l + j] = q[j]
      BY <1>1, <3>2
    <3>4. QED
      BY <1>3, <3>1, <3>2, <3>3
  <2> HIDE DEF A, B
  <2>4. QED
    BY <2>1, <2>2, <2>3
<1>6. A \cap C = {}
  <2>1. \A i \in A : i \in 1..l
    BY <1>2
  <2>2. \A j \in B : j \in 1..Len(q)
    BY <1>2
  <2> HIDE DEF A, B
  <2>3. QED
    BY <1>1, <2>1, <2>2
<1> HIDE DEF A, B, C
<1>7. Cardinality(A \cup C) = Cardinality(A) + Cardinality(C) - Cardinality(A \cap C)
  BY <1>2, <1>4, FS_Union
<1>8. Cardinality({}) = 0
  BY FS_EmptySet
<1>9. Cardinality(A \cup C) = Cardinality(A) + Cardinality(B)
  <2>1. Cardinality(A) \in Nat /\ Cardinality(B) \in Nat
    BY <1>2
  <2>2. Cardinality(A \cap C) = 0
    BY <1>6, <1>8, Zenon
  <2>3. QED
    BY <1>4, <1>7, <2>1, <2>2
<1>10. QED
  BY <1>1, <1>2, <1>3, <1>5, <1>9

\* A message is one ping or none.
LEMMA PingsOfOne ==
  ASSUME NEW m \in Message
  PROVE  <<m>> \in Seq(Message) /\ Pings(<<m>>) = IF IsPing(m) THEN 1 ELSE 0
<1>1. <<m>> \in Seq(Message) /\ Len(<<m>>) = 1 /\ <<m>>[1] = m
  OBVIOUS
<1>2. Pings(<<m>>) = Cardinality(PingsOf(<<m>>)) /\ PingsOf(<<m>>) = {i \in 1..1 : IsPing(<<m>>[i])}
  BY <1>1, PingsAre
<1>3. 1..1 = {1}
  OBVIOUS
<1>4. CASE IsPing(m)
  <2>1. PingsOf(<<m>>) = {1}
    BY <1>1, <1>2, <1>3, <1>4
  <2>2. QED
    BY <1>1, <1>2, <1>4, <2>1, FS_Singleton
<1>5. CASE ~IsPing(m)
  <2>1. PingsOf(<<m>>) = {}
    BY <1>1, <1>2, <1>3, <1>5
  <2>2. QED
    BY <1>1, <1>2, <1>5, <2>1, FS_EmptySet
<1>6. QED
  BY <1>4, <1>5

\* One message less.
LEMMA PingsWithout ==
  ASSUME NEW q \in Seq(Message), NEW i \in 1..Len(q)
  PROVE  /\ RemoveAt(q, i) \in Seq(Message)
         /\ Pings(q) - PingAt(q, i) = Pings(RemoveAt(q, i))
<1> DEFINE L == Len(q)
           front == SubSeq(q, 1, i - 1)
           back == SubSeq(q, i + 1, L)
<1>1. L \in Nat /\ \A j \in 1..L : q[j] \in Message
  BY SequenceHas
<1>2. front \in Seq(Message)
  <2>1. \A j \in 1..(i - 1) : q[j] \in Message
    BY <1>1
  <2>2. QED
    BY <1>1, <2>1, SubSeqProperties, 1 \in Int, i - 1 \in Int
<1>3. back \in Seq(Message)
  <2>1. \A j \in (i + 1)..L : q[j] \in Message
    BY <1>1
  <2>2. QED
    BY <1>1, <2>1, SubSeqProperties, i + 1 \in Int, L \in Int
<1>4. q[i] \in Message
  BY <1>1
<1>5. q = (front \o <<q[i]>>) \o back
  <2>1. SubSeq(q, 1, i) = front \o <<q[i]>>
    <3>1. 1 \in 1..L /\ i \in 1..L
      BY <1>1
    <3>2. QED
      BY <3>1, SubSeqRecursiveSecond
  <2>2. SubSeq(q, 1, i) \o back = SubSeq(q, 1, L)
    <3>1. 1 \in 1..(L + 1) /\ i \in (1 - 1)..L /\ L \in i..L
      BY <1>1
    <3>2. QED
      BY <3>1, ConcatAdjacentSubSeq
  <2>3. SubSeq(q, 1, L) = q
    BY SubSeqFull
  <2>4. QED
    BY <2>1, <2>2, <2>3
<1>6. RemoveAt(q, i) = front \o back
  BY DEF RemoveAt
<1> HIDE DEF front, back
<1>7. <<q[i]>> \in Seq(Message) /\ Pings(<<q[i]>>) = PingAt(q, i)
  BY <1>4, PingsOfOne DEF PingAt
<1>8. /\ front \o <<q[i]>> \in Seq(Message)
      /\ Pings(front \o <<q[i]>>) = Pings(front) + Pings(<<q[i]>>)
  BY <1>2, <1>7, PingsJoin
<1>9. Pings((front \o <<q[i]>>) \o back) = Pings(front \o <<q[i]>>) + Pings(back)
  BY <1>3, <1>8, PingsJoin
<1>10. Pings(front \o back) = Pings(front) + Pings(back) /\ front \o back \in Seq(Message)
  BY <1>2, <1>3, PingsJoin
<1>11. Pings(front) \in Nat /\ Pings(back) \in Nat /\ Pings(<<q[i]>>) \in Nat
  BY <1>2, <1>3, <1>7, PingsAre
<1>12. Pings(q) = Pings(front) + PingAt(q, i) + Pings(back) /\ PingAt(q, i) \in Nat
  BY <1>5, <1>7, <1>8, <1>9, <1>11
<1>13. QED
  BY <1>6, <1>10, <1>11, <1>12

\* What is read ahead of its turn leaves the count right.
Reading == [queue : Seq(Message), pings : Int, index : Nat \ {0}]

\* Looking at another message leaves a queue, a number and an index.
LEMMA PeekedType == \A s \in Reading, m \in Message : Peeked(s, m) \in Reading
<1> SUFFICES ASSUME NEW s \in Reading, NEW m \in Message PROVE Peeked(s, m) \in Reading
  OBVIOUS
<1>1. s.queue \in Seq(Message) /\ s.pings \in Int /\ s.index \in Nat \ {0}
  BY DEF Reading
<1>2. CASE TypeOf(m) \notin ReadAhead
  <2>1. Peeked(s, m) = [s EXCEPT !.index = s.index + 1]
    BY <1>2 DEF Peeked
  <2>2. QED
    BY <1>1, <2>1 DEF Reading
<1>3. CASE TypeOf(m) \in ReadAhead /\ s.index > Len(s.queue)
  BY <1>3 DEF Peeked, DeleteBufferPacketAt
<1>4. CASE TypeOf(m) \in ReadAhead /\ ~(s.index > Len(s.queue))
  <2> DEFINE q == RemoveAt(s.queue, s.index)
             n == s.pings - PingAt(s.queue, s.index)
  <2>1. Peeked(s, m) = [s EXCEPT !.queue = q, !.pings = n]
    BY <1>4 DEF Peeked, DeleteBufferPacketAt
  <2>2. s.index \in 1..Len(s.queue)
    BY <1>1, <1>4
  <2>3. q \in Seq(Message)
    BY <1>1, <2>2, PingsWithout
  <2>4. n \in Int
    BY <1>1 DEF PingAt
  <2> HIDE DEF q, n
  <2>5. QED
    BY <2>1, <2>3, <2>4 DEF Reading
<1>5. QED
  BY <1>2, <1>3, <1>4

\* The steps of the fold of GetNumQueuedSimFrameMessages.
LEMMA PeekedFold ==
  ASSUME NEW s \in Seq(Message), NEW base \in Reading
  PROVE  \E g \in [0..Len(s) -> Reading] :
           /\ g[0] = base /\ FoldLeft(Peeked, base, s) = g[Len(s)]
           /\ \A k \in 1..Len(s) : g[k] = Peeked(g[k - 1], s[k])
<1> DEFINE n == Len(s)
           S == Reading
           Body(it) == [A \in SUBSET (1..n) |->
                          IF A = {} THEN base ELSE Peeked(it[A \ {Max(A)}], s[Max(A)])]
           it == CHOOSE it : it = Body(it)
           F == [x \in S \X (1..n) |-> Peeked(x[1], s[x[2]])]
           g == [k \in 0..n |-> it[1..k]]
<1>1. n \in Nat /\ DOMAIN s = 1..n /\ \A i \in 1..n : s[i] \in Message
  BY SequenceHas
<1> HIDE DEF n
<1>2. \A x \in S, i \in 1..n : Peeked(x, s[i]) \in S
  BY <1>1, PeekedType
<1>3. base \in S /\ F \in [S \X (1..n) -> S]
  BY <1>2
<1>4. PICK h \in [SUBSET (1..n) -> S] : IsFold(h, n, base, F)
  <2> HIDE DEF F, S
  <2>1. QED
    BY <1>1, <1>3, FoldExists
<1>5. h = Body(h)
  <2>1. ASSUME NEW A \in SUBSET (1..n), A # {}
        PROVE  F[<<h[A \ {Max(A)}], Max(A)>>] = Peeked(h[A \ {Max(A)}], s[Max(A)])
    <3>1. Max(A) \in 1..n
      BY <1>1, <2>1, GreatestNumber
    <3>2. h[A \ {Max(A)}] \in S
      BY <1>4
    <3> HIDE DEF S
    <3>3. QED
      BY <3>1, <3>2
  <2> HIDE DEF F, S
  <2>2. QED
    BY <1>4, <2>1 DEF IsFold
<1>6. it = Body(it)
  <2> HIDE DEF Body
  <2>1. QED
    BY <1>5
<1>7. FoldLeft(Peeked, base, s) = it[1..n]
  <2>1. FoldLeft(Peeked, base, s) =
          LET f == CHOOSE f : f = [A \in SUBSET DOMAIN s |->
                                     IF A = {} THEN base
                                     ELSE LET x == Max(A) IN Peeked(f[A \ {x}], s[x])]
          IN  f[DOMAIN s]
    BY Zenon DEF FoldLeft, MapThenFoldSet
  <2>2. QED
    BY <1>1, <2>1, Zenon
<1>8. g[0] = base /\ g[n] = FoldLeft(Peeked, base, s)
  <2>1. it[{}] = base
    <3> HIDE DEF it
    <3>1. QED
      BY <1>6
  <2> HIDE DEF it
  <2>2. g[0] = it[1..0] /\ g[n] = it[1..n]
    BY <1>1
  <2>3. QED
    BY <1>7, <2>1, <2>2, IndexSets
<1>9. ASSUME NEW k \in 1..n PROVE g[k] = Peeked(g[k - 1], s[k])
  <2> HIDE DEF it
  <2>1. g[k] = it[1..k] /\ g[k - 1] = it[1..(k - 1)]
    BY <1>1
  <2>2. 1..k \in SUBSET (1..n) /\ 1..k # {} /\ Max(1..k) = k /\ (1..k) \ {k} = 1..(k - 1)
    BY <1>1, k \in 0..n, n \in Nat, IndexSets
  <2>3. it[1..k] = Peeked(it[(1..k) \ {Max(1..k)}], s[Max(1..k)])
    BY <1>6, <2>2
  <2>4. QED
    BY <2>1, <2>2, <2>3
<1>10. g \in [0..n -> S]
  <2> DEFINE P == {k \in 0..n : g[k] \in S}
  <2>1. 0 \in P
    <3> HIDE DEF g, S
    <3>1. QED
      BY <1>1, <1>3, <1>8
  <2>2. ASSUME NEW k \in 0..(n - 1), k \in P PROVE k + 1 \in P
    <3>1. k + 1 \in 1..n /\ (k + 1) - 1 = k
      BY <1>1
    <3> HIDE DEF g, S
    <3>2. g[k + 1] = Peeked(g[k], s[k + 1]) /\ g[k] \in S
      BY <1>9, <2>2, <3>1
    <3>3. QED
      BY <1>2, <3>1, <3>2
  <2>3. \A k \in 0..n : k \in P
    <3> HIDE DEF P
    <3>1. QED
      BY <1>1, <2>1, <2>2, Upwards
  <2>4. g = [k \in 0..n |-> g[k]]
    OBVIOUS
  <2> HIDE DEF g, S
  <2>5. QED
    BY <2>3, <2>4
<1>11. QED
  <2> HIDE DEF g
  <2>1. QED
    BY <1>8, <1>9, <1>10 DEF n

\* Reading ahead keeps the number of pings right.
LEMMA PeekedCounts ==
  ASSUME NEW q \in Seq(Message)
  PROVE  \E s \in Reading :
           /\ s = FoldLeft(Peeked, [queue |-> q, pings |-> Pings(q), index |-> 1], q)
           /\ s.pings = Pings(s.queue)
<1> DEFINE first == [queue |-> q, pings |-> Pings(q), index |-> 1]
           K == Len(q)
<1>1. first \in Reading /\ K \in Nat /\ \A k \in 1..K : q[k] \in Message
  <2>1. Pings(q) \in Int /\ 1 \in Nat \ {0}
    BY PingsAre
  <2>2. QED
    BY <2>1, SequenceHas DEF Reading
<1> DEFINE result == FoldLeft(Peeked, first, q)
<1>2. PICK g \in [0..K -> Reading] :
        /\ g[0] = first /\ result = g[K]
        /\ \A k \in 1..K : g[k] = Peeked(g[k - 1], q[k])
  <2> HIDE DEF first
  <2>1. \E g \in [0..Len(q) -> Reading] :
          /\ g[0] = first /\ FoldLeft(Peeked, first, q) = g[Len(q)]
          /\ \A k \in 1..Len(q) : g[k] = Peeked(g[k - 1], q[k])
    BY <1>1, PeekedFold, Zenon
  <2>2. QED
    BY <2>1, Zenon DEF K
<1> HIDE DEF result
<1> DEFINE P == {k \in 0..K : g[k].pings = Pings(g[k].queue)}
<1>3. 0 \in P
  BY <1>1, <1>2
<1>4. ASSUME NEW k \in 0..(K - 1), k \in P PROVE k + 1 \in P
  <2> DEFINE r == g[k]
             t == g[k + 1]
             m == q[k + 1]
  <2>1. k + 1 \in 1..K /\ (k + 1) - 1 = k /\ k + 1 \in 0..K /\ k \in 0..K
    BY <1>1
  <2>2. /\ r \in Reading /\ r.pings = Pings(r.queue) /\ m \in Message /\ t = Peeked(r, m)
    BY <1>1, <1>2, <1>4, <2>1
  <2> HIDE DEF r, t, m
  <2>3. r.queue \in Seq(Message) /\ r.pings \in Int /\ r.index \in Nat \ {0}
    BY <2>2 DEF Reading
  <2>4. t.pings = Pings(t.queue)
    <3>1. CASE TypeOf(m) \notin ReadAhead
      <4>1. t = [r EXCEPT !.index = r.index + 1]
        BY <2>2, <3>1 DEF Peeked
      <4>2. t.pings = r.pings /\ t.queue = r.queue
        BY <2>2, <4>1 DEF Reading
      <4>3. QED
        BY <2>2, <4>2
    <3>2. CASE TypeOf(m) \in ReadAhead /\ r.index > Len(r.queue)
      BY <2>2, <3>2 DEF Peeked, DeleteBufferPacketAt
    <3>3. CASE TypeOf(m) \in ReadAhead /\ ~(r.index > Len(r.queue))
      <4> DEFINE v == RemoveAt(r.queue, r.index)
                 n == r.pings - PingAt(r.queue, r.index)
      <4>1. t = [r EXCEPT !.queue = v, !.pings = n]
        BY <2>2, <3>3 DEF Peeked, DeleteBufferPacketAt
      <4>2. r.index \in 1..Len(r.queue)
        BY <2>3, <3>3
      <4>3. n = Pings(v)
        BY <2>2, <2>3, <4>2, PingsWithout
      <4> HIDE DEF v, n
      <4>4. t.queue = v /\ t.pings = n
        BY <2>2, <4>1 DEF Reading
      <4>5. QED
        BY <4>3, <4>4
    <3>4. QED
      BY <3>1, <3>2, <3>3
  <2>5. QED
    BY <2>1, <2>4 DEF t
<1>5. K \in P
  <2>1. K \in 0..K
    BY <1>1
  <2> HIDE DEF P
  <2>2. QED
    BY <1>1, <1>3, <1>4, <2>1, Upwards
<1>6. result \in Reading /\ result.pings = Pings(result.queue)
  BY <1>1, <1>2, <1>5
<1>7. QED
  BY <1>6, Zenon DEF result, first

-----------------------------------------------------------------------------
(* The invariant *)

\* outgoingData holds the last messages given to SendData.
Sending ==
  /\ next \in 1..(N + 1) /\ outgoingData \in Seq(Message) /\ Len(outgoingData) < next
  /\ \A i \in 1..Len(outgoingData) : outgoingData[i] = Bytes(next - 1 - Len(outgoingData) + i)

\* The stream up to the messages in outgoingData: what lies before off[0] has come
\* and was split into messages and fragmentBuffer, and the chunks are the rest.
Places(off) ==
  /\ off \in [0..Len(chunks) -> 0..Ends[N]]
  /\ Split(Piece(0, off[0])) = [messages |-> came, rest |-> fragmentBuffer]
  /\ \A i \in 1..Len(chunks) : off[i - 1] <= off[i] /\ chunks[i] = Piece(off[i - 1], off[i])
  /\ off[Len(chunks)] = Ends[next - 1 - Len(outgoingData)]

FramingInv ==
  /\ Sending
  /\ chunks \in Seq(Message) /\ msgQueue \in Seq(Message)
  /\ \E off : Places(off)
  /\ PingsCounted

\* There is nothing between a place and itself.
LEMMA EmptyPiece == \A p \in 0..Ends[N] : Piece(p, p) = <<>>
<1> SUFFICES ASSUME NEW p \in 0..Ends[N] PROVE Piece(p, p) = <<>>
  OBVIOUS
<1>1. p \in Nat /\ p \in p..Ends[N]
  BY StreamType
<1>2. Piece(p, p) \in Message /\ Len(Piece(p, p)) = p - p
  BY <1>1, PieceIs
<1>3. QED
  BY <1>1, <1>2, EmptySeq DEF Message

\* Where the chunks begin is not behind where they end.
LEMMA PlacesGrow ==
  ASSUME NEW K \in Nat, NEW off \in [0..K -> 0..Ends[N]],
         \A i \in 1..K : off[i - 1] <= off[i],
         NEW i \in 0..K
  PROVE  off[i] <= off[K]
<1> DEFINE P == {k \in 0..K : off[k] <= off[K]}
<1>1. Ends[N] \in Nat
  BY StreamType
<1>2. K \in P
  BY <1>1
<1>3. ASSUME NEW k \in 0..(K - 1), k + 1 \in P PROVE k \in P
  <2>1. k + 1 \in 1..K /\ (k + 1) - 1 = k /\ k \in 0..K /\ k + 1 \in 0..K
    OBVIOUS
  <2>2. off[k] <= off[k + 1] /\ off[k + 1] <= off[K]
    BY <1>3, <2>1
  <2>3. off[k] \in Nat /\ off[k + 1] \in Nat /\ off[K] \in Nat
    BY <1>1, <2>1
  <2>4. QED
    BY <2>1, <2>2, <2>3
<1>4. \A k \in 0..K : k \in P
  <2> HIDE DEF P
  <2>1. QED
    BY <1>2, <1>3, Downwards
<1>5. QED
  BY <1>4

\* At first nothing was sent and nothing came.
LEMMA FirstPlaces == Init => FramingInv
<1> SUFFICES ASSUME Init PROVE FramingInv
  OBVIOUS
<1>1. N \in Nat /\ Ends[N] \in Nat /\ Ends[0] = 0 /\ N \in 0..N /\ 0 \in 0..N
  BY Constants, StreamType
<1>2. Sending
  BY <1>1 DEF Init, Sending
<1>3. PingsCounted
  <2>1. {i \in DOMAIN <<>> : IsPing(<<>>[i])} = {}
    OBVIOUS
  <2>2. Pings(<<>>) = 0
    BY <2>1, FS_EmptySet DEF Pings
  <2>3. QED
    BY <2>2 DEF Init, PingsCounted
<1>4. Split(Piece(0, 0)) = [messages |-> <<>>, rest |-> <<>>]
  <2>1. Piece(0, 0) = <<>> /\ <<>> \in Message
    BY <1>1, EmptyPiece DEF Message
  <2>2. QED
    BY <2>1, SplitStep
<1>5. Places([i \in 0..0 |-> 0])
  <2> DEFINE off == [i \in 0..0 |-> 0]
  <2>1. chunks = <<>> /\ Len(chunks) = 0 /\ outgoingData = <<>> /\ Len(outgoingData) = 0 /\ next = 1
    BY DEF Init
  <2>2. off \in [0..Len(chunks) -> 0..Ends[N]] /\ off[0] = 0
    BY <1>1, <2>1
  <2> HIDE DEF off
  <2>3. Split(Piece(0, off[0])) = [messages |-> came, rest |-> fragmentBuffer]
    BY <1>4, <2>2 DEF Init
  <2>4. off[Len(chunks)] = Ends[next - 1 - Len(outgoingData)]
    BY <1>1, <2>1, <2>2
  <2>5. \A i \in 1..Len(chunks) : off[i - 1] <= off[i] /\ chunks[i] = Piece(off[i - 1], off[i])
    BY <2>1
  <2>6. Places(off)
    BY <2>2, <2>3, <2>4, <2>5 DEF Places
  <2>7. QED
    BY <2>6 DEF off
<1>6. QED
  BY <1>2, <1>3, <1>5 DEF FramingInv, Init

\* Sending another message leaves the stream before outgoingData as it is.
LEMMA SendDataKeeps == FramingInv /\ SendData => FramingInv'
<1> SUFFICES ASSUME FramingInv, SendData PROVE FramingInv'
  OBVIOUS
<1> DEFINE L == Len(outgoingData)
<1>1. /\ N \in Nat /\ next \in 1..N /\ outgoingData \in Seq(Message) /\ L \in Nat /\ L < next
      /\ \A i \in 1..L : outgoingData[i] = Bytes(next - 1 - L + i)
  BY Constants, SequenceHas DEF FramingInv, Sending, SendData, N
<1>2. /\ outgoingData' = Append(outgoingData, Bytes(next)) /\ next' = next + 1
      /\ UNCHANGED <<chunks, fragmentBuffer, msgQueue, numPings, came>>
  BY DEF SendData
<1>3. Bytes(next) \in Message
  BY <1>1, BytesAre
<1>4. /\ outgoingData' \in Seq(Message) /\ Len(outgoingData') = L + 1
      /\ outgoingData'[L + 1] = Bytes(next)
      /\ \A i \in 1..L : outgoingData'[i] = outgoingData[i]
  BY <1>1, <1>2, <1>3, AppendProperties
<1>5. next' - 1 - Len(outgoingData') = next - 1 - L
  BY <1>1, <1>2, <1>4
<1>6. Sending'
  <2>1. ASSUME NEW i \in 1..(L + 1)
        PROVE  outgoingData'[i] = Bytes(next - 1 - L + i)
    <3>1. CASE i = L + 1
      <4>1. next - 1 - L + i = next
        BY <1>1, <3>1
      <4>2. QED
        BY <1>4, <3>1, <4>1
    <3>2. CASE i # L + 1
      <4>1. i \in 1..L
        BY <1>1, <3>2
      <4>2. QED
        BY <1>1, <1>4, <4>1
    <3>3. QED
      BY <3>1, <3>2
  <2>2. next' \in 1..(N + 1) /\ Len(outgoingData') < next'
    BY <1>1, <1>2, <1>4
  <2>3. QED
    BY <1>4, <1>5, <2>1, <2>2 DEF Sending
<1>7. PICK off : Places(off)
  BY DEF FramingInv
<1>8. Places(off)'
  BY <1>2, <1>5, <1>7 DEF Places
<1>9. PingsCounted'
  BY <1>2 DEF FramingInv, PingsCounted
<1>10. QED
  BY <1>2, <1>6, <1>8, <1>9 DEF FramingInv

\* A flush moves the stream of the messages it takes into chunks.
LEMMA FlushKeeps ==
  ASSUME FramingInv, NEW forced \in BOOLEAN, NEW n \in 0..Len(outgoingData), Flush(forced, n)
  PROVE  FramingInv'
<1> DEFINE L == Len(outgoingData)
           b == next - 1 - L
           s == SubSeq(outgoingData, 1, n)
           t == SubSeq(outgoingData, n + 1, L)
           bytes == FoldLeft(Gathered, <<>>, s)
           cut == Cut(bytes)
           K == Len(chunks)
           J == Len(cut)
<1>1. /\ N \in Nat /\ next \in 1..(N + 1) /\ outgoingData \in Seq(Message) /\ L \in Nat /\ L < next
      /\ n \in 0..L /\ \A i \in 1..L : outgoingData[i] = Bytes(b + i) /\ outgoingData[i] \in Message
      /\ chunks \in Seq(Message) /\ K \in Nat
  <2> HIDE DEF L
  <2>1. Sending /\ L \in Nat /\ n \in 0..L
    BY SequenceHas DEF FramingInv, Sending, L
  <2>2. QED
    BY <2>1, Constants, SequenceHas DEF FramingInv, Sending, L
<1>2. /\ chunks' = chunks \o cut /\ outgoingData' = t
      /\ UNCHANGED <<next, fragmentBuffer, msgQueue, numPings, came>>
  BY Zenon DEF Flush
<1>3. b \in 0..N /\ n \in 0..(N - b) /\ b + n \in b..N /\ b + n \in 0..N
  BY <1>1
<1>4. s \in Seq(Message) /\ Len(s) = n /\ \A i \in 1..n : s[i] = Bytes(b + i)
  <2>1. \A i \in 1..n : outgoingData[i] \in Message
    BY <1>1
  <2>2. /\ s \in Seq(Message)
        /\ Len(s) = IF 1 <= n THEN n - 1 + 1 ELSE 0
        /\ \A i \in 1..(n - 1 + 1) : s[i] = outgoingData[1 + i - 1]
    BY <1>1, <2>1, SubSeqProperties, 1 \in Int, n \in Int
  <2>3. \A i \in 1..n : 1 + i - 1 = i /\ i \in 1..L
    BY <1>1
  <2>4. Len(s) = n /\ n - 1 + 1 = n
    BY <1>1, <2>2
  <2> HIDE DEF b, s, L
  <2>5. QED
    BY <1>1, <2>2, <2>3, <2>4
<1>5. t \in Seq(Message) /\ Len(t) = L - n /\ \A i \in 1..(L - n) : t[i] = outgoingData[n + i]
  <2>1. \A i \in (n + 1)..L : outgoingData[i] \in Message
    BY <1>1
  <2>2. /\ t \in Seq(Message)
        /\ Len(t) = IF n + 1 <= L THEN L - (n + 1) + 1 ELSE 0
        /\ \A i \in 1..(L - (n + 1) + 1) : t[i] = outgoingData[n + 1 + i - 1]
    BY <1>1, <2>1, SubSeqProperties, n + 1 \in Int, L \in Int
  <2>3. Len(t) = L - n /\ L - (n + 1) + 1 = L - n
    BY <1>1, <2>2
  <2>4. \A i \in 1..(L - n) : n + 1 + i - 1 = n + i
    BY <1>1
  <2> HIDE DEF t, L
  <2>5. QED
    BY <2>2, <2>3, <2>4
<1>6. bytes = Piece(Ends[b], Ends[b + n])
  <2> HIDE DEF b, s
  <2>1. QED
    BY <1>3, <1>4, GatheredIsPiece, Zenon
<1> HIDE DEF bytes
<1>7. Ends[b] \in Nat /\ Ends[b + n] \in Ends[b]..Ends[N] /\ Ends[N] \in Nat
  <2> HIDE DEF b
  <2>1. QED
    BY <1>3, EndsGrow, StreamType
<1>8. /\ cut \in Seq(Message)
      /\ \E e \in [0..J -> Ends[b]..Ends[b + n]] :
           /\ e[0] = Ends[b] /\ e[J] = Ends[b + n]
           /\ \A i \in 1..J : e[i - 1] <= e[i] /\ cut[i] = Piece(e[i - 1], e[i])
  <2> DEFINE u == Ends[b]
             v == Ends[b + n]
  <2>1. u \in Nat /\ v \in u..Ends[N] /\ bytes = Piece(u, v)
    BY <1>6, <1>7
  <2> HIDE DEF u, v
  <2>2. LET c == Cut(Piece(u, v))
        IN  /\ c \in Seq(Message)
            /\ \E e \in [0..Len(c) -> u..v] :
                 /\ e[0] = u /\ e[Len(c)] = v
                 /\ \A i \in 1..Len(c) : e[i - 1] <= e[i] /\ c[i] = Piece(e[i - 1], e[i])
    BY <2>1, CutOfPiece
  <2>3. QED
    BY <2>1, <2>2 DEF u, v
<1> HIDE DEF cut
<1>9. PICK e \in [0..J -> Ends[b]..Ends[b + n]] :
        /\ e[0] = Ends[b] /\ e[J] = Ends[b + n]
        /\ \A i \in 1..J : e[i - 1] <= e[i] /\ cut[i] = Piece(e[i - 1], e[i])
  BY <1>8
<1>10. /\ chunks' \in Seq(Message) /\ Len(chunks') = K + J /\ J \in Nat
       /\ \A i \in 1..K : chunks'[i] = chunks[i]
       /\ \A i \in 1..J : chunks'[K + i] = cut[i]
  <2>1. J \in Nat
    BY <1>8, SequenceHas
  <2>2. /\ chunks' \in Seq(Message) /\ Len(chunks') = K + J
        /\ \A i \in 1..(K + J) : chunks'[i] = IF i <= K THEN chunks[i] ELSE cut[i - K]
    BY <1>1, <1>2, <1>8, ConcatProperties
  <2> HIDE DEF K, J
  <2>3. \A i \in 1..K : i \in 1..(K + J) /\ i <= K
    BY <1>1, <2>1
  <2>4. \A i \in 1..J : K + i \in 1..(K + J) /\ ~(K + i <= K) /\ (K + i) - K = i
    BY <1>1, <2>1
  <2>5. QED
    BY <2>1, <2>2, <2>3, <2>4
<1>11. PICK off : Places(off)
  BY DEF FramingInv
<1> DEFINE later == [i \in 0..(K + J) |-> IF i <= K THEN off[i] ELSE e[i - K]]
<1>12. /\ off \in [0..K -> 0..Ends[N]] /\ off[K] = Ends[b]
       /\ Split(Piece(0, off[0])) = [messages |-> came, rest |-> fragmentBuffer]
       /\ \A i \in 1..K : off[i - 1] <= off[i] /\ chunks[i] = Piece(off[i - 1], off[i])
  BY <1>11 DEF Places
<1>13. /\ later \in [0..(K + J) -> 0..Ends[N]]
       /\ \A i \in 0..K : later[i] = off[i]
       /\ \A i \in 0..J : later[K + i] = e[i]
  <2> DEFINE u == Ends[b]
             v == Ends[b + n]
             E == Ends[N]
  <2>1. u \in Nat /\ v \in u..E /\ E \in Nat /\ e \in [0..J -> u..v] /\ e[0] = u /\ off[K] = u
    BY <1>7, <1>9, <1>12
  <2> HIDE DEF u, v, E, K, J, b
  <2>2. \A i \in 0..J : e[i] \in 0..E
    BY <2>1
  <2>3. \A i \in 0..(K + J) : (IF i <= K THEN off[i] ELSE e[i - K]) \in 0..E
    <3>1. \A i \in 0..(K + J) : i <= K => i \in 0..K
      BY <1>1, <1>10
    <3>2. \A i \in 0..(K + J) : ~(i <= K) => i - K \in 0..J
      BY <1>1, <1>10
    <3>3. QED
      BY <1>12, <2>2, <3>1, <3>2 DEF E
  <2>4. \A i \in 0..K : i \in 0..(K + J) /\ i <= K
    BY <1>1, <1>10
  <2>5. ASSUME NEW i \in 0..J PROVE later[K + i] = e[i]
    <3>1. K + i \in 0..(K + J) /\ (K + i <= K => i = 0 /\ K + i = K) /\ (K + i) - K = i
      BY <1>1, <1>10
    <3>2. QED
      BY <2>1, <3>1
  <2>6. QED
    BY <2>3, <2>4, <2>5 DEF E
<1> HIDE DEF later
<1>14. PICK w :
         /\ w \in [0..(K + J) -> 0..Ends[N]]
         /\ \A i \in 0..K : w[i] = off[i]
         /\ \A i \in 0..J : w[K + i] = e[i]
  BY <1>13
<1>15. ASSUME NEW i \in 1..(K + J)
       PROVE  w[i - 1] <= w[i] /\ chunks'[i] = Piece(w[i - 1], w[i])
  <2> HIDE DEF K, J, b
  <2>1. CASE i <= K
    <3>1. i \in 1..K /\ i - 1 \in 0..K /\ i \in 0..K
      BY <1>1, <2>1
    <3>2. QED
      BY <1>10, <1>12, <1>14, <3>1
  <2>2. CASE ~(i <= K)
    <3> DEFINE j == i - K
    <3>1. j \in 1..J /\ j - 1 \in 0..J /\ j \in 0..J /\ K + j = i /\ K + (j - 1) = i - 1
      <4>1. K \in Nat
        BY <1>1
      <4>2. J \in Nat
        BY <1>10
      <4>3. QED
        BY <2>2, <4>1, <4>2
    <3> HIDE DEF j
    <3>2. w[K + j] = e[j] /\ w[K + (j - 1)] = e[j - 1] /\ chunks'[K + j] = cut[j]
      <4>1. \A x \in 1..J : chunks'[K + x] = cut[x]
        BY <1>10
      <4>2. w[K + j] = e[j]
        BY <3>1, <1>14, Zenon
      <4>3. w[K + (j - 1)] = e[j - 1]
        BY <3>1, <1>14, Zenon
      <4>4. chunks'[K + j] = cut[j]
        BY <3>1, <4>1, Zenon
      <4>5. QED
        BY <4>2, <4>3, <4>4, Zenon
    <3>3. w[i] = e[j] /\ w[i - 1] = e[j - 1] /\ chunks'[i] = cut[j]
      BY <3>1, <3>2
    <3>4. QED
      BY <1>9, <3>1, <3>3
  <2>3. QED
    BY <2>1, <2>2
<1>16. next' - 1 - Len(outgoingData') = b + n
  <2> DEFINE l == Len(outgoingData')
  <2>1. L \in Nat /\ next \in Nat /\ n \in Nat
    BY <1>1
  <2>2. next' = next /\ l = L - n
    BY <1>2, <1>5
  <2> HIDE DEF l, L
  <2>3. next' - 1 - l = next - 1 - L + n
    BY <2>1, <2>2
  <2>4. QED
    BY <2>3 DEF l
<1>17. Places(w)'
  <2>1. 0 \in 0..K /\ K + J \in 0..(K + J) /\ J \in 0..J
    BY <1>1, <1>10
  <2>2. w[0] = off[0] /\ w[K + J] = e[J]
    BY <1>14, <2>1
  <2> HIDE DEF K, J, b
  <2>3. QED
    BY <1>2, <1>9, <1>10, <1>12, <1>14, <1>15, <1>16, <2>2 DEF Places
<1>18. Sending'
  <2>1. ASSUME NEW i \in 1..(L - n) PROVE t[i] = Bytes(b + n + i)
    <3>1. n + i \in 1..L /\ b + (n + i) = b + n + i
      BY <1>1
    <3>2. outgoingData[n + i] = Bytes(b + (n + i))
      BY <1>1, <3>1
    <3>3. QED
      BY <1>5, <3>1, <3>2
  <2>2. Len(t) < next /\ next' = next /\ Len(t) = L - n
    BY <1>1, <1>2, <1>5
  <2> HIDE DEF t, b, L
  <2>3. QED
    BY <1>1, <1>2, <1>5, <1>16, <2>1, <2>2 DEF Sending
<1>19. PingsCounted' /\ msgQueue' \in Seq(Message)
  BY <1>2 DEF FramingInv, PingsCounted
<1>20. QED
  BY <1>10, <1>17, <1>18, <1>19 DEF FramingInv

\* A step of the receiver goes on in the stream, from p to q, and not behind what was
\* given to SendData.
Comes(p, q) ==
  p \in 0..Ends[N] /\ q \in p..Ends[next - 1] /\ came = Found(p) /\ came' = Found(q)

\* Chunks that are received leave the stream, and what it is split into up to their end
\* has come.
LEMMA ProcessKeeps ==
  ASSUME FramingInv, NEW n \in 1..Len(chunks), ProcessRawPacket(n)
  PROVE  FramingInv' /\ \E p, q : Comes(p, q)
<1> DEFINE K == Len(chunks)
           b == next - 1 - Len(outgoingData)
           s == SubSeq(chunks, 1, n)
           t == SubSeq(chunks, n + 1, K)
           result == FoldLeft(Joined, [messages |-> <<>>, rest |-> fragmentBuffer], s)
<1>1. /\ N \in Nat /\ Ends[N] \in Nat /\ chunks \in Seq(Message) /\ K \in Nat /\ n \in 1..K
      /\ \A i \in 1..K : chunks[i] \in Message
      /\ next - 1 \in 0..N /\ b \in 0..(next - 1)
  <2>1. /\ Sending /\ chunks \in Seq(Message) /\ Len(outgoingData) \in Nat
    BY SequenceHas DEF FramingInv, Sending
  <2>2. N \in Nat /\ Ends[N] \in Nat
    BY Constants, StreamType
  <2>3. next - 1 \in 0..N /\ b \in 0..(next - 1)
    BY <2>1, <2>2 DEF Sending
  <2>4. QED
    BY <2>1, <2>2, <2>3, SequenceHas
<1>2. /\ chunks' = t /\ fragmentBuffer' = result.rest /\ msgQueue' = msgQueue \o result.messages
      /\ numPings' = numPings + Pings(result.messages) /\ came' = came \o result.messages
      /\ UNCHANGED <<next, outgoingData>>
  BY Zenon DEF ProcessRawPacket
<1>3. s \in Seq(Message) /\ Len(s) = n /\ \A i \in 1..n : s[i] = chunks[i]
  <2>1. \A i \in 1..n : chunks[i] \in Message
    BY <1>1
  <2>2. /\ s \in Seq(Message)
        /\ Len(s) = IF 1 <= n THEN n - 1 + 1 ELSE 0
        /\ \A i \in 1..(n - 1 + 1) : s[i] = chunks[1 + i - 1]
    BY <1>1, <2>1, SubSeqProperties, 1 \in Int, n \in Int
  <2>3. \A i \in 1..n : 1 + i - 1 = i
    BY <1>1
  <2>4. Len(s) = n /\ n - 1 + 1 = n
    BY <1>1, <2>2
  <2> HIDE DEF s
  <2>5. QED
    BY <2>2, <2>3, <2>4
<1>4. t \in Seq(Message) /\ Len(t) = K - n /\ \A i \in 1..(K - n) : t[i] = chunks[i + n]
  <2>1. \A i \in (n + 1)..K : chunks[i] \in Message
    BY <1>1
  <2>2. /\ t \in Seq(Message)
        /\ Len(t) = IF n + 1 <= K THEN K - (n + 1) + 1 ELSE 0
        /\ \A i \in 1..(K - (n + 1) + 1) : t[i] = chunks[n + 1 + i - 1]
    BY <1>1, <2>1, SubSeqProperties, n + 1 \in Int, K \in Int
  <2>3. Len(t) = K - n /\ K - (n + 1) + 1 = K - n
    BY <1>1, <2>2
  <2>4. \A i \in 1..(K - n) : n + 1 + i - 1 = i + n
    BY <1>1
  <2> HIDE DEF t, K
  <2>5. QED
    BY <2>2, <2>3, <2>4
<1>5. PICK off : Places(off)
  BY DEF FramingInv
<1>6. /\ off \in [0..K -> 0..Ends[N]] /\ off[K] = Ends[b]
      /\ Split(Piece(0, off[0])) = [messages |-> came, rest |-> fragmentBuffer]
      /\ \A i \in 1..K : off[i - 1] <= off[i] /\ chunks[i] = Piece(off[i - 1], off[i])
  BY <1>5 DEF Places
<1> DEFINE have == [messages |-> came, rest |-> fragmentBuffer]
<1>7. have \in Parsed /\ have.messages = came /\ have.rest = fragmentBuffer
  <2>1. off[0] \in Nat /\ off[0] \in 0..Ends[N] /\ 0 \in Nat
    BY <1>1, <1>6
  <2>2. Piece(0, off[0]) \in Message
    BY <2>1, PieceIs
  <2>3. QED
    BY <1>6, <2>2, SplitStep
<1>8. PICK front : front = [i \in 0..n |-> off[i]]
  OBVIOUS
<1>9. /\ front \in [0..n -> 0..Ends[N]] /\ front[0] = off[0] /\ front[n] = off[n]
      /\ \A i \in 1..n : front[i - 1] <= front[i] /\ s[i] = Piece(front[i - 1], front[i])
  <2> HIDE DEF K, b, s
  <2>1. \A i \in 0..n : i \in 0..K
    BY <1>1
  <2>2. front \in [0..n -> 0..Ends[N]]
    BY <1>6, <1>8, <2>1
  <2>3. \A i \in 1..n : i \in 1..K /\ i \in 0..n /\ i - 1 \in 0..n
    BY <1>1
  <2>4. \A i \in 1..n : front[i] = off[i] /\ front[i - 1] = off[i - 1]
    BY <1>8, <2>3
  <2>5. 0 \in 0..n /\ n \in 0..n
    BY <1>1
  <2>6. QED
    BY <1>3, <1>6, <1>8, <2>2, <2>3, <2>4, <2>5
<1>10. PICK got \in Parsed :
         /\ got = result
         /\ Split(Piece(0, off[n])) = [messages |-> came \o got.messages, rest |-> got.rest]
  <2>1. n \in Nat /\ Split(Piece(0, front[0])) = have
    <3> HIDE DEF K, b, s
    <3>1. QED
      BY <1>1, <1>6, <1>9
  <2> HIDE DEF have
  <2>2. \E got \in Parsed :
          /\ got = FoldLeft(Joined, [messages |-> <<>>, rest |-> have.rest], s)
          /\ Split(Piece(0, front[n])) = [messages |-> have.messages \o got.messages,
                                          rest |-> got.rest]
    <3> HIDE DEF s
    <3>1. QED
      BY <1>3, <1>7, <1>9, <2>1, ChunksJoin, Zenon
  <2>3. FoldLeft(Joined, [messages |-> <<>>, rest |-> have.rest], s) = result
    BY <1>7, Zenon
  <2> HIDE DEF result
  <2>4. QED
    BY <1>7, <1>9, <2>2, <2>3, Zenon
<1> HIDE DEF result, have
<1>11. /\ fragmentBuffer' = got.rest /\ msgQueue' = msgQueue \o got.messages
       /\ numPings' = numPings + Pings(got.messages) /\ came' = came \o got.messages
       /\ got.messages \in Seq(Message)
  BY <1>2, <1>10 DEF Parsed
<1>12. PICK w : w = [i \in 0..(K - n) |-> off[i + n]]
  OBVIOUS
<1>13. /\ w \in [0..(K - n) -> 0..Ends[N]] /\ w[0] = off[n] /\ w[K - n] = Ends[b]
       /\ \A i \in 1..(K - n) : w[i - 1] <= w[i] /\ t[i] = Piece(w[i - 1], w[i])
  <2> HIDE DEF K, b, t
  <2>1. \A i \in 0..(K - n) : i + n \in 0..K
    BY <1>1
  <2>2. w \in [0..(K - n) -> 0..Ends[N]]
    BY <1>6, <1>12, <2>1
  <2>3. /\ 0 \in 0..(K - n) /\ K - n \in 0..(K - n) /\ 0 + n = n /\ (K - n) + n = K
    BY <1>1
  <2>4. w[0] = off[0 + n] /\ w[K - n] = off[(K - n) + n]
    BY <1>12, <2>3
  <2>5. ASSUME NEW i \in 1..(K - n)
        PROVE  w[i - 1] <= w[i] /\ t[i] = Piece(w[i - 1], w[i])
    <3>1. /\ i \in 0..(K - n) /\ i - 1 \in 0..(K - n) /\ i + n \in 1..K
          /\ (i - 1) + n = (i + n) - 1
      BY <1>1
    <3>2. w[i] = off[i + n] /\ w[i - 1] = off[(i - 1) + n]
      BY <1>12, <3>1
    <3>3. w[i - 1] = off[(i + n) - 1] /\ t[i] = chunks[i + n]
      BY <1>4, <3>1, <3>2
    <3>4. off[(i + n) - 1] <= off[i + n] /\ chunks[i + n] = Piece(off[(i + n) - 1], off[i + n])
      BY <1>6, <3>1
    <3>5. QED
      BY <3>2, <3>3, <3>4
  <2>6. QED
    BY <1>6, <2>2, <2>3, <2>4, <2>5
<1>14. next' - 1 - Len(outgoingData') = b
  BY <1>2
<1>15. Places(w)'
  <2> HIDE DEF K, b, t
  <2>1. chunks' = t /\ Len(chunks') = K - n
    BY <1>2, <1>4
  <2>2. QED
    BY <1>10, <1>11, <1>13, <1>14, <2>1 DEF Places
<1>16. Sending'
  BY <1>2 DEF FramingInv, Sending
<1>17. msgQueue' \in Seq(Message) /\ PingsCounted'
  <2>1. msgQueue \in Seq(Message) /\ numPings = Pings(msgQueue)
    BY DEF FramingInv, PingsCounted
  <2>2. /\ Pings(msgQueue \o got.messages) = Pings(msgQueue) + Pings(got.messages)
        /\ msgQueue \o got.messages \in Seq(Message)
    BY <1>11, <2>1, PingsJoin
  <2>3. QED
    BY <1>11, <2>1, <2>2 DEF PingsCounted
<1>18. FramingInv'
  <2> HIDE DEF K, b, t
  <2>1. chunks' \in Seq(Message)
    BY <1>2, <1>4
  <2>2. QED
    BY <1>15, <1>16, <1>17, <2>1 DEF FramingInv
<1>19. off[0] \in 0..Ends[N] /\ off[n] \in off[0]..Ends[next - 1]
  <2> HIDE DEF K, b, t
  <2>1. n \in 0..K /\ 0 \in 0..n /\ n \in Nat /\ K \in Nat
    BY <1>1
  <2>2. off[n] <= off[K]
    BY <1>6, <2>1, PlacesGrow
  <2>3. front[0] <= front[n]
    BY <1>9, <2>1, PlacesGrow
  <2>4. b \in 0..N /\ next - 1 \in b..N
    BY <1>1
  <2>5. Ends[b] \in Nat /\ Ends[next - 1] \in Ends[b]..Ends[N]
    BY <2>4, EndsGrow
  <2>6. off[0] \in 0..Ends[N] /\ off[n] \in 0..Ends[N]
    BY <1>6, <2>1
  <2>7. QED
    BY <1>1, <1>6, <1>9, <2>2, <2>3, <2>5, <2>6
<1>20. Comes(off[0], off[n])
  <2>1. Found(off[0]) = came
    BY <1>6, <1>7 DEF Found, have
  <2>2. Found(off[n]) = came \o got.messages
    BY <1>10 DEF Found
  <2>3. QED
    BY <1>11, <1>19, <2>1, <2>2 DEF Comes
<1>21. QED
  BY <1>18, <1>20

\* Messages leave the queue with the pings that they count for.
LEMMA ReadingKeeps == FramingInv /\ (GetData \/ GetNumQueuedSimFrameMessages) => FramingInv'
<1> SUFFICES ASSUME FramingInv, GetData \/ GetNumQueuedSimFrameMessages PROVE FramingInv'
  OBVIOUS
<1>1. msgQueue \in Seq(Message) /\ numPings = Pings(msgQueue)
  BY DEF FramingInv, PingsCounted
<1>2. CASE GetData
  <2>1. /\ msgQueue # <<>> /\ numPings' = Pings(msgQueue) - PingAt(msgQueue, 1)
        /\ msgQueue' = Tail(msgQueue)
        /\ UNCHANGED <<next, outgoingData, chunks, fragmentBuffer, came>>
    BY <1>1, <1>2 DEF GetData
  <2>2. 1 \in 1..Len(msgQueue) /\ Tail(msgQueue) = RemoveAt(msgQueue, 1)
    <3>1. Len(msgQueue) \in Nat /\ Len(msgQueue) # 0
      BY <1>1, <2>1, EmptySeq, LenProperties
    <3>2. Tail(msgQueue) = SubSeq(msgQueue, 2, Len(msgQueue))
      BY <1>1, <2>1, <3>1
    <3>3. SubSeq(msgQueue, 1, 1 - 1) = <<>> /\ SubSeq(msgQueue, 2, Len(msgQueue)) \in Seq(Message)
      BY <1>1, <2>1, <3>1, <3>2, SubSeqProperties
    <3>4. RemoveAt(msgQueue, 1) =
            SubSeq(msgQueue, 1, 1 - 1) \o SubSeq(msgQueue, 1 + 1, Len(msgQueue))
      BY Zenon DEF RemoveAt
    <3>5. RemoveAt(msgQueue, 1) = <<>> \o SubSeq(msgQueue, 2, Len(msgQueue))
      BY <3>3, <3>4
    <3>6. QED
      BY <3>1, <3>2, <3>3, <3>5, ConcatEmptySeq
  <2>3. /\ RemoveAt(msgQueue, 1) \in Seq(Message)
        /\ Pings(msgQueue) - PingAt(msgQueue, 1) = Pings(RemoveAt(msgQueue, 1))
    BY <1>1, <2>2, PingsWithout
  <2>4. msgQueue' \in Seq(Message) /\ numPings' = Pings(msgQueue')
    BY <2>1, <2>2, <2>3
  <2>5. (\E off : Places(off))' /\ Sending' /\ chunks' \in Seq(Message)
    BY <2>1 DEF FramingInv, Places, Sending
  <2>6. QED
    BY <2>4, <2>5 DEF FramingInv, PingsCounted
<1>3. CASE GetNumQueuedSimFrameMessages
  <2> DEFINE result == FoldLeft(Peeked, [queue |-> msgQueue, pings |-> numPings, index |-> 1],
                                msgQueue)
  <2>1. /\ msgQueue' = result.queue /\ numPings' = result.pings
        /\ UNCHANGED <<next, outgoingData, chunks, fragmentBuffer, came>>
    BY <1>3, Zenon DEF GetNumQueuedSimFrameMessages
  <2>2. result \in Reading /\ result.pings = Pings(result.queue)
    BY <1>1, PeekedCounts, Zenon
  <2> HIDE DEF result
  <2>3. msgQueue' \in Seq(Message) /\ numPings' = Pings(msgQueue')
    BY <2>1, <2>2 DEF Reading
  <2>4. (\E off : Places(off))' /\ Sending' /\ chunks' \in Seq(Message)
    BY <2>1 DEF FramingInv, Places, Sending
  <2>5. QED
    BY <2>3, <2>4 DEF FramingInv, PingsCounted
<1>4. QED
  BY <1>2, <1>3

-----------------------------------------------------------------------------
(* Theorems *)

\* Every step keeps the invariant.
LEMMA StepKeeps == FramingInv /\ [Next]_vars => FramingInv'
<1> SUFFICES ASSUME FramingInv, [Next]_vars PROVE FramingInv'
  OBVIOUS
<1>1. CASE SendData
  BY <1>1, SendDataKeeps
<1>2. CASE FlushSome
  BY <1>2, FlushKeeps DEF FlushSome
<1>3. CASE ProcessSome
  BY <1>3, ProcessKeeps DEF ProcessSome
<1>4. CASE GetData \/ GetNumQueuedSimFrameMessages
  BY <1>4, ReadingKeeps
<1>5. CASE UNCHANGED vars
  BY <1>5 DEF FramingInv, Sending, Places, PingsCounted, vars
<1>6. QED
  BY <1>1, <1>2, <1>3, <1>4, <1>5 DEF Next

\* In every state the invariant holds.
THEOREM Framing == Spec => []FramingInv
<1>1. QED
  BY FirstPlaces, StepKeeps, PTL DEF Spec

\* In every state numPings is the number of pings in msgQueue, so the client
\* looks for pings as long as there are some (NetCommands.cpp:135).
THEOREM PingsAreCounted == Spec => []PingsCounted
<1>1. FramingInv => PingsCounted
  BY DEF FramingInv
<1>2. QED
  BY Framing, <1>1, PTL

\* As soon as all that was flushed has come, came and fragmentBuffer are what all the
\* bytes are split into, wherever they were cut; and as long as all lengths fit, all
\* messages have come and no beginning of one is left in fragmentBuffer.
THEOREM NothingIsLeftBehind == Spec => []NothingLeftBehind
<1>1. FramingInv => NothingLeftBehind
  <2> SUFFICES ASSUME FramingInv, outgoingData = <<>>, chunks = <<>>
               PROVE  /\ [messages |-> came, rest |-> fragmentBuffer] = Split(Written(next - 1))
                      /\ next - 1 <= Whole => came = Sent(next - 1) /\ fragmentBuffer = <<>>
    BY DEF NothingLeftBehind
  <2>1. PICK off : Places(off)
    BY DEF FramingInv
  <2>2. next - 1 \in 0..N /\ Len(chunks) = 0 /\ Len(outgoingData) = 0
    BY Constants DEF FramingInv, Sending
  <2> DEFINE m == next - 1
  <2>3. m \in 0..N /\ m \in Nat /\ next - 1 - Len(outgoingData) = m
    BY <2>2, Constants
  <2>4. /\ Split(Piece(0, off[0])) = [messages |-> came, rest |-> fragmentBuffer]
        /\ off[0] = Ends[m]
    BY <2>1, <2>2, <2>3 DEF Places
  <2> HIDE DEF m
  <2>5. Written(m) = Piece(0, Ends[m])
    BY <2>3, WrittenIsPiece
  <2>6. Split(Written(m)) = [messages |-> came, rest |-> fragmentBuffer]
    BY <2>4, <2>5
  <2>7. ASSUME m <= Whole PROVE came = Sent(m) /\ fragmentBuffer = <<>>
    <3>1. m \in 0..Whole
      BY <2>3, <2>7, WholeIs
    <3>2. [messages |-> came, rest |-> fragmentBuffer] = [messages |-> Sent(m), rest |-> <<>>]
      BY <2>6, <3>1, SplitOfSent
    <3>3. [messages |-> came, rest |-> fragmentBuffer].messages = came
          /\ [messages |-> came, rest |-> fragmentBuffer].rest = fragmentBuffer
          /\ [messages |-> Sent(m), rest |-> <<>>].messages = Sent(m)
          /\ [messages |-> Sent(m), rest |-> <<>>].rest = <<>>
      OBVIOUS
    <3>4. QED
      BY <3>2, <3>3
  <2>8. QED
    BY <2>6, <2>7 DEF m
<1>2. QED
  BY Framing, <1>1, PTL

\* The messages sent, as long as all lengths fit, are what their bytes hold.
LEMMA SentIsFound ==
  ASSUME NEW k \in 0..Whole
  PROVE  /\ k \in 0..N /\ Ends[k] \in 0..Ends[N] /\ Sent(k) = Found(Ends[k])
         /\ Sent(k) \in Seq(Message)
<1>1. k \in 0..N /\ Split(Written(k)) = [messages |-> Sent(k), rest |-> <<>>]
  BY SplitOfSent
<1>2. Written(k) = Piece(0, Ends[k]) /\ Ends[k] \in 0..Ends[N]
  BY <1>1, WrittenIsPiece
<1>3. Found(Ends[k]) = Sent(k)
  BY <1>1, <1>2 DEF Found
<1>4. QED
  BY <1>1, <1>2, <1>3, SentStep

\* the number of messages before the first whose length does not fit
Fine == Len(Sent(Whole))

\* What is found in the bytes of k messages begins with messages that were sent, as far
\* as all lengths fit.
LEMMA FoundIsSent ==
  ASSUME NEW k \in 0..N, NEW p \in 0..Ends[k]
  PROVE  LET given == Sent(Min({k, Whole}))
             l     == Min({Len(Found(p)), Fine})
         IN  /\ p \in 0..Ends[N] /\ Found(p) \in Seq(Message)
             /\ Len(Found(p)) \in Nat /\ Fine \in Nat /\ Len(given) \in Nat
             /\ l \in 0..Len(given) /\ SubSeq(Found(p), 1, l) = SubSeq(given, 1, l)
<1> DEFINE m == Min({k, Whole})
           f == Found(p)
           w == Sent(Whole)
           g == Sent(m)
           l == Min({Len(f), Len(w)})
<1>1. N \in Nat /\ Whole \in 0..N /\ Whole \in 0..Whole /\ k \in Nat /\ Whole \in Nat
  BY Constants, WholeIs
<1>2. m = IF k <= Whole THEN k ELSE Whole
  BY <1>1, LeastOfTwo
<1>3. Ends[k] \in 0..Ends[N] /\ Ends[N] \in Nat /\ p \in 0..Ends[N]
  BY StreamType, WrittenIsPiece
<1> HIDE DEF m
<1>4. m \in 0..Whole /\ m \in 0..N /\ m \in 0..k
  BY <1>1, <1>2
<1>5. /\ w = Found(Ends[Whole]) /\ Ends[Whole] \in 0..Ends[N] /\ w \in Seq(Message)
      /\ g = Found(Ends[m]) /\ Ends[m] \in 0..Ends[N] /\ g \in Seq(Message)
  BY <1>1, <1>4, SentIsFound
<1>6. f \in Seq(Message)
  <2>1. Ends[N] \in p..Ends[N]
    BY <1>3
  <2>2. QED
    BY <1>3, <2>1, FoundGrows
<1> HIDE DEF f, w, g
<1>7. Len(f) \in Nat /\ Len(w) \in Nat /\ Len(g) \in Nat
  BY <1>5, <1>6, SequenceHas
<1>8. l = IF Len(f) <= Len(w) THEN Len(f) ELSE Len(w)
  BY <1>7, LeastOfTwo
<1> HIDE DEF l
<1>9. SubSeq(f, 1, Len(f)) = f
  BY <1>6, SubSeqFull
<1>10. CASE p <= Ends[m]
  <2>1. Ends[m] \in p..Ends[N]
    BY <1>3, <1>5, <1>10
  <2>2. Len(f) <= Len(g) /\ f = SubSeq(g, 1, Len(f))
    BY <1>3, <1>5, <2>1, FoundGrows DEF f
  <2>3. Len(g) <= Len(w)
    <3>1. Ends[Whole] \in Ends[m]..Ends[N]
      <4>1. Whole \in m..N
        BY <1>1, <1>4
      <4>2. QED
        BY <1>4, <4>1, EndsGrow
    <3>2. QED
      BY <1>5, <3>1, FoundGrows
  <2>4. l = Len(f)
    BY <1>7, <1>8, <2>2, <2>3
  <2>5. l \in 0..Len(g) /\ SubSeq(f, 1, l) = SubSeq(g, 1, l)
    BY <1>7, <1>9, <2>2, <2>4
  <2>6. QED
    BY <1>3, <1>6, <1>7, <2>5 DEF f, g, m, l, w, Fine
<1>11. CASE ~(p <= Ends[m])
  <2>1. m = Whole
    <3>1. m = k => p <= Ends[m]
      BY <1>3
    <3>2. QED
      BY <1>2, <1>11, <3>1
  <2>2. p \in Ends[m]..Ends[N]
    BY <1>3, <1>5, <1>11
  <2>3. Len(g) <= Len(f) /\ g = SubSeq(f, 1, Len(g))
    BY <1>5, <2>2, FoundGrows DEF f
  <2>4. g = w
    BY <2>1 DEF g, w
  <2>5. l = Len(g)
    BY <1>7, <1>8, <2>3, <2>4
  <2>6. SubSeq(g, 1, Len(g)) = g
    BY <1>5, SubSeqFull
  <2>7. l \in 0..Len(g) /\ SubSeq(f, 1, l) = SubSeq(g, 1, l)
    BY <1>7, <2>3, <2>5, <2>6
  <2>8. QED
    BY <1>3, <1>6, <1>7, <2>7 DEF f, g, m, l, w, Fine
<1>12. QED
  BY <1>10, <1>11

\* A step of the receiver delivers the next messages, or none.
LEMMA ReceivingDelivers ==
  ASSUME FramingInv, NEW n \in 1..Len(chunks), ProcessRawPacket(n)
  PROVE  [Messages!Next]_(Messages!chan)
<1> DEFINE k == next - 1
           g == Sent(Min({k, Whole}))
           Taken(x) == SubSeq(x, 1, Min({Len(x), Fine}))
<1>1. k \in 0..N /\ next' - 1 = k
  <2>1. next' = next
    BY Zenon DEF ProcessRawPacket
  <2>2. QED
    BY <2>1, Constants DEF FramingInv, Sending
<1>2. PICK p, q : Comes(p, q)
  BY ProcessKeeps
<1>3. /\ p \in 0..Ends[N] /\ q \in p..Ends[k] /\ came = Found(p) /\ came' = Found(q)
      /\ Ends[k] \in 0..Ends[N] /\ Ends[N] \in Nat
  BY <1>1, <1>2, WrittenIsPiece, StreamType DEF Comes
<1>4. p \in 0..Ends[k] /\ q \in 0..Ends[k] /\ q \in p..Ends[N]
  BY <1>3
<1> HIDE DEF k
<1> DEFINE i == Min({Len(came), Fine})
           j == Min({Len(came'), Fine})
<1>5. /\ Len(came) \in Nat /\ Len(came') \in Nat /\ Fine \in Nat /\ Len(g) \in Nat
      /\ i \in 0..Len(g) /\ SubSeq(came, 1, i) = SubSeq(g, 1, i) /\ came \in Seq(Message)
      /\ j \in 0..Len(g) /\ SubSeq(came', 1, j) = SubSeq(g, 1, j)
  BY <1>1, <1>3, <1>4, FoundIsSent
<1>6. Len(came) <= Len(came')
  BY <1>3, <1>4, FoundGrows
<1>7. /\ i = IF Len(came) <= Fine THEN Len(came) ELSE Fine
      /\ j = IF Len(came') <= Fine THEN Len(came') ELSE Fine
  BY <1>5, LeastOfTwo
<1>8. i <= j
  <2> HIDE DEF i, j
  <2>1. QED
    BY <1>5, <1>6, <1>7
<1>9. Taken(came) = SubSeq(came, 1, i) /\ Taken(came') = SubSeq(came', 1, j)
  OBVIOUS
<1>10. Len(Taken(came)) = i
  <2>1. i \in 0..Len(came) /\ 0 \in 0..i
    BY <1>5, <1>7
  <2> HIDE DEF i
  <2>2. Len(SubSeq(came, 1, i)) = i
    BY <1>5, <2>1, FrontOfFront
  <2>3. QED
    BY <1>9, <2>2
<1> HIDE DEF i, j
<1>11. g' = g
  BY <1>1 DEF k
<1>12. CASE i = j
  <2>1. Taken(came') = Taken(came)
    BY <1>5, <1>9, <1>12
  <2>2. QED
    BY <1>11, <2>1 DEF Messages!chan, k, Fine
<1>13. CASE i # j
  <2>1. j \in (i + 1)..Len(g)
    BY <1>5, <1>8, <1>13
  <2>2. Taken(came') = SubSeq(g, 1, j)
    BY <1>5, <1>9
  <2> HIDE DEF Taken, g
  <2>3. j \in (Len(Taken(came)) + 1)..Len(g)
    BY <1>10, <2>1
  <2>4. Messages!Deliver
    BY <1>11, <2>2, <2>3 DEF Messages!Deliver, Taken, g, k, Fine
  <2>5. QED
    BY <2>4 DEF Messages!Next
<1>14. QED
  BY <1>12, <1>13

\* The messages of known types given to SendData at one end come out at the other,
\* whole, in order and once each, wherever they are cut, as far as the first whose
\* length does not fit its field; if all lengths fit, that is always.
THEOREM FramingIsReliable == Spec => ImplementsChannel
<1>1. Init => Messages!Init
  <2> SUFFICES ASSUME Init
               PROVE  /\ Sent(Min({next - 1, Whole})) = <<>>
                      /\ SubSeq(came, 1, Min({Len(came), Len(Sent(Whole))})) = <<>>
    BY DEF Messages!Init
  <2>1. next - 1 = 0 /\ came = <<>> /\ Len(came) = 0
    BY DEF Init
  <2>2. Whole \in Nat /\ Whole \in 0..Whole
    BY Constants, WholeIs
  <2>3. Min({0, Whole}) = 0
    BY <2>2, LeastOfTwo
  <2>4. Len(Sent(Whole)) \in Nat
    BY <2>2, SentIsFound, SequenceHas
  <2>5. Min({0, Len(Sent(Whole))}) = 0
    BY <2>4, LeastOfTwo
  <2>6. SubSeq(<<>>, 1, 0) = <<>>
    BY SubSeqEmpty
  <2>7. QED
    BY <2>1, <2>3, <2>5, <2>6, SentStep
<1>2. FramingInv /\ [Next]_vars => [Messages!Next]_(Messages!chan)
  <2> SUFFICES ASSUME FramingInv, [Next]_vars PROVE [Messages!Next]_(Messages!chan)
    OBVIOUS
  <2>1. CASE SendData
    <3>1. next \in 1..N /\ next' = next + 1 /\ came' = came
      BY <2>1, Constants DEF FramingInv, Sending, SendData, N
    <3>2. /\ Sent(next) = Added(Sent(next - 1), next) /\ next' - 1 = next
          /\ next \in Nat /\ next - 1 \in Nat /\ Whole \in Nat
      BY <3>1, Constants, SentStep, WholeIs
    <3>3. CASE ~(next <= Whole)
      <4>1. Min({next - 1, Whole}) = Whole /\ Min({next, Whole}) = Whole
        BY <3>2, <3>3, LeastOfTwo
      <4>2. Sent(Min({next' - 1, Whole})) = Sent(Min({next - 1, Whole}))
        BY <3>2, <4>1
      <4>3. QED
        BY <3>1, <4>2 DEF Messages!chan
    <3>4. CASE next <= Whole
      <4>1. Min({next - 1, Whole}) = next - 1 /\ Min({next, Whole}) = next
        BY <3>2, <3>4, LeastOfTwo
      <4>2. CASE IsKnown(next)
        <5>1. Sent(Min({next' - 1, Whole})) = Append(Sent(Min({next - 1, Whole})), Bytes(next))
          BY <3>2, <4>1, <4>2 DEF Added
        <5>2. next \in DOMAIN Script
          BY <3>1, Constants
        <5>3. Messages!Send
          BY <3>1, <5>1, <5>2 DEF Messages!Send
        <5>4. QED
          BY <5>3 DEF Messages!Next
      <4>3. CASE ~IsKnown(next)
        <5>1. Sent(Min({next' - 1, Whole})) = Sent(Min({next - 1, Whole}))
          BY <3>2, <4>1, <4>3 DEF Added
        <5>2. QED
          BY <3>1, <5>1 DEF Messages!chan
      <4>4. QED
        BY <4>2, <4>3
    <3>5. QED
      BY <3>3, <3>4
  <2>2. CASE ProcessSome
    BY <2>2, ReceivingDelivers DEF ProcessSome
  <2>3. CASE FlushSome \/ GetData \/ GetNumQueuedSimFrameMessages \/ UNCHANGED vars
    <3>1. next' = next /\ came' = came
      <4>1. CASE FlushSome
        <5>1. PICK forced \in BOOLEAN, n \in 0..Len(outgoingData) : Flush(forced, n)
          BY <4>1 DEF FlushSome
        <5>2. QED
          BY <5>1, Zenon DEF Flush
      <4>2. CASE GetData
        BY <4>2 DEF GetData
      <4>3. CASE GetNumQueuedSimFrameMessages
        BY <4>3, Zenon DEF GetNumQueuedSimFrameMessages
      <4>4. CASE UNCHANGED vars
        BY <4>4 DEF vars
      <4>5. QED
        BY <2>3, <4>1, <4>2, <4>3, <4>4
    <3>2. QED
      BY <3>1 DEF Messages!chan
  <2>4. QED
    BY <2>1, <2>2, <2>3 DEF Next
<1>3. QED
  BY Framing, <1>1, <1>2, PTL DEF Spec, ImplementsChannel, Messages!Spec
=============================================================================
