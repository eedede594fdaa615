----------------------- MODULE ParallelDownloadProofs -----------------------
(***************************************************************************)
(* For every blob, every range of it and every number of workers, what the *)
(* circular buffer of the parallel downloader keeps: a chunk is in flight, *)
(* in its slot, or written once.  When the first chunk has the slot that   *)
(* is flushed first, counting the chunks of a slot shows that a download   *)
(* that succeeds has written all of them, however often the buffer wrapped;*)
(* as long as it has not wrapped, they are in order, and are the range     *)
(* asked for.                                                              *)
(***************************************************************************)
EXTENDS ParallelDownload, SequenceTheorems, FiniteSetTheorems, WellFoundedInduction, TLAPS

-----------------------------------------------------------------------------
(* Induction over the naturals with a set in the place of a predicate: the *)
(* provers cannot instantiate the library's principles, which take an      *)
(* operator, but they can find a least element of a set.                   *)

LEMMA LeastNat ==
  ASSUME NEW T \in SUBSET Nat, T # {}
  PROVE  \E m \in T : \A k \in T : m <= k
  <1>1. PICK x \in T : \A y \in T : ~ (<<y, x>> \in OpToRel(<, Nat))
    <2> HIDE DEF OpToRel
    <2> QED BY NatLessThanWellFounded, WFMin
  <1>2. ASSUME NEW y \in T PROVE x <= y
    <2>1. ~ (y < x) BY <1>1 DEF OpToRel
    <2> QED BY <2>1
  <1> QED BY <1>2

LEMMA Induction ==
  ASSUME NEW S, 0 \in S, \A k \in Nat : k \in S => k + 1 \in S
  PROVE  \A k \in Nat : k \in S
  <1> SUFFICES ASSUME NEW k \in Nat, k \notin S PROVE FALSE OBVIOUS
  <1> DEFINE T == {j \in Nat : j \notin S}
  <1>1. PICK m \in T : \A j \in T : m <= j BY LeastNat
  <1>2. m # 0 /\ m - 1 \in Nat BY <1>1
  <1>3. m - 1 \in S BY <1>1, <1>2
  <1>4. (m - 1) + 1 \in S BY <1>2, <1>3
  <1> QED BY <1>4, <1>1

-----------------------------------------------------------------------------
(* Written is defined by recursion on the tail: there is one function that *)
(* satisfies its equation.  A partial solution is one for the sequences of *)
(* at most k requests.                                                     *)
Upto(k) == {s \in Seq(Requests) : Len(s) <= k}
WrittenBody(g, s) == IF s = << >> THEN << >> ELSE BytesOf(Head(s)) \o g[Tail(s)]
Partial(k, g) == g = [s \in Upto(k) |-> WrittenBody(g, s)]

LEMMA PartialStep ==
  ASSUME NEW k \in Nat, NEW g, Partial(k, g)
  PROVE  \E h : Partial(k + 1, h)
  <1> DEFINE h == [s \in Upto(k + 1) |-> WrittenBody(g, s)]
  <1>1. ASSUME NEW s \in Upto(k + 1) PROVE WrittenBody(g, s) = WrittenBody(h, s)
    <2>1. CASE s = << >> BY <2>1 DEF WrittenBody
    <2>2. CASE s # << >>
      <3>1. Tail(s) \in Upto(k) /\ Tail(s) \in Upto(k + 1)
        BY <2>2, HeadTailProperties, LenProperties DEF Upto
      <3>2. g[Tail(s)] = WrittenBody(g, Tail(s)) BY <3>1 DEF Partial
      <3>3. h[Tail(s)] = WrittenBody(g, Tail(s)) BY <3>1
      <3> HIDE DEF h
      <3> QED BY <2>2, <3>2, <3>3 DEF WrittenBody
    <2> QED BY <2>1, <2>2
  <1>2. Partial(k + 1, h)
    <2>1. h = [s \in Upto(k + 1) |-> WrittenBody(h, s)] 
      BY <1>1 
    <2> HIDE DEF h
    <2> QED BY <2>1 DEF Partial
  <1> HIDE DEF h
  <1> QED BY <1>2

LEMMA PartialExists == \A k \in Nat : \E g : Partial(k, g)
  <1> DEFINE S == {k \in Nat : \E g : Partial(k, g)}
  <1>1. 0 \in S
    <2>1. \A s \in Upto(0) : s = << >> BY EmptySeq, LenProperties DEF Upto
    <2> DEFINE g == [s \in Upto(0) |-> << >>]
    <2>2. Partial(0, g) BY <2>1 DEF Partial, WrittenBody
    <2> QED BY <2>2
  <1>2. \A k \in Nat : k \in S => k + 1 \in S BY PartialStep
  <1> HIDE DEF S
  <1>3. \A k \in Nat : k \in S BY <1>1, <1>2, Induction
  <1> QED BY <1>3 DEF S

LEMMA PartialUnique ==
  ASSUME NEW k \in Nat, NEW m \in Nat, k <= m, NEW g, NEW h, Partial(k, g), Partial(m, h),
         NEW s \in Upto(k)
  PROVE  g[s] = h[s]
  <1> DEFINE S == {i \in Nat : \A t \in Upto(k) : Len(t) = i => g[t] = h[t]}
  <1>0. Upto(k) \subseteq Upto(m) BY LenProperties DEF Upto
  <1>1. 0 \in S
    <2>1. ASSUME NEW t \in Upto(k), Len(t) = 0 PROVE g[t] = h[t]
      <3>1. t = << >> BY <2>1, EmptySeq DEF Upto
      <3>2. g[t] = WrittenBody(g, t) /\ h[t] = WrittenBody(h, t)
         BY <1>0 DEF Partial
      <3> QED BY <3>1, <3>2 DEF WrittenBody
    <2> QED BY <2>1
  <1>2. ASSUME NEW i \in Nat, i \in S PROVE i + 1 \in S
    <2>1. ASSUME NEW t \in Upto(k), Len(t) = i + 1 PROVE g[t] = h[t]
      <3>1. t # << >> /\ t \in Seq(Requests) BY <2>1, EmptySeq DEF Upto
      <3>2. g[t] = WrittenBody(g, t) /\ h[t] = WrittenBody(h, t)
         BY <1>0 DEF Partial
      <3>3. Tail(t) \in Upto(k) /\ Len(Tail(t)) = i
         BY <2>1, <3>1, HeadTailProperties DEF Upto
      <3>4. g[Tail(t)] = h[Tail(t)] BY <1>2, <3>3
      <3> QED BY <3>1, <3>2, <3>4 DEF WrittenBody
    <2> QED BY <2>1
  <1>3. Len(s) \in Nat BY LenProperties DEF Upto
  <1> HIDE DEF S
  <1>4. \A i \in Nat : i \in S BY <1>1, <1>2, Induction
  <1> QED BY <1>3, <1>4 DEF S

LEMMA WrittenDef == Written = [s \in Seq(Requests) |-> WrittenBody(Written, s)]
  <1> DEFINE G(k) == CHOOSE g : Partial(k, g)
             f == [s \in Seq(Requests) |-> G(Len(s))[s]]
  <1>1. \A k \in Nat : Partial(k, G(k)) BY PartialExists
  <1> HIDE DEF G
  <1>2. ASSUME NEW s \in Seq(Requests) PROVE f[s] = WrittenBody(f, s)
    <2>0. Len(s) \in Nat /\ s \in Upto(Len(s)) BY LenProperties DEF Upto
    <2>1. f[s] = WrittenBody(G(Len(s)), s) BY <1>1, <2>0 DEF Partial
    <2>2. CASE s = << >> BY <2>1, <2>2 DEF WrittenBody
    <2>3. CASE s # << >>
      <3>1. /\ Tail(s) \in Seq(Requests) /\ Len(Tail(s)) = Len(s) - 1
            /\ Len(s) - 1 \in Nat /\ Len(s) - 1 <= Len(s)
            /\ Tail(s) \in Upto(Len(s) - 1)
        BY <2>0, <2>3, HeadTailProperties, EmptySeq DEF Upto
      <3>2. G(Len(s))[Tail(s)] = G(Len(s) - 1)[Tail(s)]
        BY <3>1, <2>0, <1>1, PartialUnique
      <3>3. f[Tail(s)] = G(Len(s))[Tail(s)] BY <3>1, <3>2
      <3> HIDE DEF f
      <3> QED BY <2>1, <2>3, <3>3 DEF WrittenBody
    <2> QED BY <2>2, <2>3
  <1>3. f = [s \in Seq(Requests) |-> WrittenBody(f, s)] BY <1>2
  <1> HIDE DEF f
  <1>4. \E g : g = [s \in Seq(Requests) |-> WrittenBody(g, s)] BY <1>3
  <1>5. Written = CHOOSE g : g = [s \in Seq(Requests) |-> WrittenBody(g, s)]
    BY DEF Written, WrittenBody
  <1> QED BY <1>4, <1>5

(* A byte is the pair of its chunk and its place there. *)
Bytes == Nat \X Nat

LEMMA WrittenUnfold ==
  /\ Written[<< >>] = << >>
  /\ \A s \in Seq(Requests) : s # << >> => Written[s] = BytesOf(Head(s)) \o Written[Tail(s)]
  <1>1. << >> \in Seq(Requests) BY EmptySeq
  <1>2. \A s \in Seq(Requests) : Written[s] = WrittenBody(Written, s) BY WrittenDef
  <1> QED BY <1>1, <1>2 DEF WrittenBody

LEMMA BytesOfType ==
  ASSUME NEW r \in Requests
  PROVE  /\ BytesOf(r) \in Seq(Bytes) /\ Len(BytesOf(r)) = r.len
         /\ \A b \in 1 .. r.len : BytesOf(r)[b] = <<r.index, r.off + b - 1>>
  <1>1. r.index \in Nat /\ r.off \in Nat /\ r.len \in Nat BY DEF Requests
  <1>2. \A b \in 1 .. r.len : <<r.index, r.off + b - 1>> \in Bytes BY <1>1 DEF Bytes
  <1> QED BY <1>1, <1>2 DEF BytesOf

LEMMA WrittenType == \A s \in Seq(Requests) : Written[s] \in Seq(Bytes)
  <1> DEFINE S == {i \in Nat : \A s \in Seq(Requests) : Len(s) = i => Written[s] \in Seq(Bytes)}
  <1>1. 0 \in S
    <2>1. \A s \in Seq(Requests) : Len(s) = 0 => s = << >> BY EmptySeq
    <2> QED BY <2>1, WrittenUnfold, EmptySeq
  <1>2. ASSUME NEW i \in Nat, i \in S PROVE i + 1 \in S
    <2> SUFFICES ASSUME NEW s \in Seq(Requests), Len(s) = i + 1 PROVE Written[s] \in Seq(Bytes)
      OBVIOUS
    <2>1. s # << >> BY EmptySeq
    <2>2. Head(s) \in Requests /\ Tail(s) \in Seq(Requests) /\ Len(Tail(s)) = i
      BY <2>1, HeadTailProperties
    <2>3. Written[Tail(s)] \in Seq(Bytes) BY <1>2, <2>2
    <2> QED BY <2>1, <2>2, <2>3, WrittenUnfold, BytesOfType, ConcatProperties
  <1> HIDE DEF S
  <1>3. \A i \in Nat : i \in S BY <1>1, <1>2, Induction
  <1> QED BY <1>3, LenProperties DEF S

(* What is written grows by the bytes of the last request. *)
LEMMA WrittenAppend ==
  ASSUME NEW r \in Requests
  PROVE  \A s \in Seq(Requests) : Written[Append(s, r)] = Written[s] \o BytesOf(r)
  <1> DEFINE S == {i \in Nat : \A s \in Seq(Requests) :
                     Len(s) = i => Written[Append(s, r)] = Written[s] \o BytesOf(r)}
  <1>0. BytesOf(r) \in Seq(Bytes) BY BytesOfType
  <1>1. 0 \in S
    <2> SUFFICES ASSUME NEW s \in Seq(Requests), Len(s) = 0
                 PROVE  Written[Append(s, r)] = Written[s] \o BytesOf(r)
      OBVIOUS
    <2>1. s = << >> BY EmptySeq
    <2>2. /\ Append(s, r) \in Seq(Requests) /\ Append(s, r) # << >>
          /\ Head(Append(s, r)) = r /\ Tail(Append(s, r)) = << >>
      BY <2>1, AppendProperties, HeadTailAppend
    <2>3. Written[Append(s, r)] = BytesOf(r) \o << >> BY <2>2, WrittenUnfold
    <2>4. Written[s] = << >> BY <2>1, WrittenUnfold
    <2> QED BY <2>3, <2>4, <1>0, ConcatEmptySeq
  <1>2. ASSUME NEW i \in Nat, i \in S PROVE i + 1 \in S
    <2> SUFFICES ASSUME NEW s \in Seq(Requests), Len(s) = i + 1
                 PROVE  Written[Append(s, r)] = Written[s] \o BytesOf(r)
      OBVIOUS
    <2>1. s # << >> BY EmptySeq
    <2>2. Head(s) \in Requests /\ Tail(s) \in Seq(Requests) /\ Len(Tail(s)) = i
      BY <2>1, HeadTailProperties
    <2>3. /\ Append(s, r) \in Seq(Requests) /\ Append(s, r) # << >>
          /\ Head(Append(s, r)) = Head(s) /\ Tail(Append(s, r)) = Append(Tail(s), r)
      BY <2>1, AppendProperties, HeadTailAppend
    <2>4. Written[Append(Tail(s), r)] = Written[Tail(s)] \o BytesOf(r) BY <1>2, <2>2
    <2>5. Written[Append(s, r)] = BytesOf(Head(s)) \o (Written[Tail(s)] \o BytesOf(r))
      BY <2>3, <2>4, WrittenUnfold
    <2>6. Written[s] = BytesOf(Head(s)) \o Written[Tail(s)] BY <2>1, WrittenUnfold
    <2>7. BytesOf(Head(s)) \in Seq(Bytes) /\ Written[Tail(s)] \in Seq(Bytes)
      BY <2>2, BytesOfType, WrittenType
    <2> DEFINE a == BytesOf(Head(s))
               b == Written[Tail(s)]
               c == BytesOf(r)
    <2>8. a \in Seq(Bytes) /\ b \in Seq(Bytes) /\ c \in Seq(Bytes) BY <2>7, <1>0
    <2> HIDE DEF a, b, c
    <2>9. (a \o b) \o c = a \o (b \o c) BY <2>8, ConcatAssociative
    <2> QED BY <2>5, <2>6, <2>9 DEF a, b, c
  <1> HIDE DEF S
  <1>3. \A i \in Nat : i \in S BY <1>1, <1>2, Induction
  <1> QED BY <1>3, LenProperties DEF S

-----------------------------------------------------------------------------
(* Where the chunks of a blob begin in its value.                          *)
WholeChunk(l, i) == [index |-> i - 1, off |-> 0, len |-> l[i]]

LEMMA ValueType ==
  ASSUME NEW l \in Seq(Nat)
  PROVE  Value(l) \in Seq(Bytes) /\ Len(Value(l)) \in Nat
  <1>1. Len(l) \in Nat /\ \A i \in 1 .. Len(l) : WholeChunk(l, i) \in Requests
    BY LenProperties DEF WholeChunk, Requests
  <1>2. [i \in 1 .. Len(l) |-> WholeChunk(l, i)] \in Seq(Requests) BY <1>1
  <1> QED BY <1>2, WrittenType, LenProperties DEF Value, WholeChunk

LEMMA ValueStep ==
  ASSUME NEW l \in Seq(Nat), NEW i \in Nat, i < Len(l)
  PROVE  /\ SubSeq(l, 1, i) \in Seq(Nat) /\ SubSeq(l, 1, i + 1) \in Seq(Nat)
         /\ WholeChunk(l, i + 1) \in Requests
         /\ Value(SubSeq(l, 1, i + 1)) = Value(SubSeq(l, 1, i)) \o BytesOf(WholeChunk(l, i + 1))
  <1> DEFINE p == SubSeq(l, 1, i)
             q == SubSeq(l, 1, i + 1)
             r == WholeChunk(l, i + 1)
             P0 == [j \in 1 .. i |-> WholeChunk(p, j)]
             Q0 == [j \in 1 .. i + 1 |-> WholeChunk(q, j)]
  <1>0. Len(l) \in Nat /\ \A j \in 1 .. Len(l) : l[j] \in Nat BY LenProperties
  <1>1. p \in Seq(Nat) /\ Len(p) = i /\ \A j \in 1 .. i : p[j] = l[j]
    BY <1>0, SubSeqProperties
  <1>2. q \in Seq(Nat) /\ Len(q) = i + 1 /\ \A j \in 1 .. i + 1 : q[j] = l[j]
    <2>1. i + 1 \in Int /\ \A j \in 1 .. i + 1 : l[j] \in Nat BY <1>0
    <2> QED BY <2>1, SubSeqProperties
  <1>3. r \in Requests /\ (i + 1) - 1 = i
    BY <1>0 DEF WholeChunk, Requests
  <1> HIDE DEF p, q
  <1>4. P0 \in Seq(Requests) /\ Len(P0) = i
    <2>1. \A j \in 1 .. i : WholeChunk(p, j) \in Requests BY <1>0, <1>1 DEF WholeChunk, Requests
    <2> QED BY <2>1
  <1>5. Q0 \in Seq(Requests) /\ Len(Q0) = i + 1
    <2>1. \A j \in 1 .. i + 1 : WholeChunk(q, j) \in Requests BY <1>0, <1>2 DEF WholeChunk, Requests
    <2> QED BY <2>1
  <1>6. Q0 = Append(P0, r)
    <2>1. /\ Append(P0, r) \in Seq(Requests) /\ Len(Append(P0, r)) = i + 1
          /\ \A j \in 1 .. i : Append(P0, r)[j] = P0[j]
          /\ Append(P0, r)[i + 1] = r
      <3> HIDE DEF r
      <3> QED BY <1>4, <1>3, AppendProperties
    <2>2. ASSUME NEW j \in 1 .. i + 1 PROVE Q0[j] = Append(P0, r)[j]
      <3>1. CASE j = i + 1 BY <3>1, <2>1, <1>2 DEF WholeChunk
      <3>2. CASE j \in 1 .. i
        <4>1. Q0[j] = WholeChunk(q, j) /\ P0[j] = WholeChunk(p, j) BY <3>2
        <4>2. WholeChunk(q, j) = WholeChunk(p, j) BY <3>2, <1>1, <1>2 DEF WholeChunk
        <4>3. Append(P0, r)[j] = P0[j] BY <3>2, <2>1
        <4> QED BY <4>1, <4>2, <4>3
      <3> QED BY <3>1, <3>2
    <2> HIDE DEF P0, Q0, r
    <2> QED BY <2>1, <2>2, <1>5, SeqEqual
  <1>7. Value(p) = Written[P0] /\ Value(q) = Written[Q0] BY <1>1, <1>2 DEF Value, WholeChunk
  <1>8. Written[Append(P0, r)] = Written[P0] \o BytesOf(r)
    <2> HIDE DEF P0, r
    <2> QED BY <1>3, <1>4, WrittenAppend
  <1> HIDE DEF P0, Q0, r
  <1>9. Value(q) = Value(p) \o BytesOf(r) BY <1>6, <1>7, <1>8
  <1> QED BY <1>1, <1>2, <1>3, <1>9 DEF p, q, r

LEMMA StartStep ==
  ASSUME NEW l \in Seq(Nat)
  PROVE  /\ Start(l, 0) = 0
         /\ \A i \in 0 .. Len(l) : Start(l, i) \in Nat
         /\ \A i \in 0 .. Len(l) - 1 : Start(l, i + 1) = Start(l, i) + l[i + 1]
         /\ Start(l, Len(l)) = Len(Value(l))
  <1>0. Len(l) \in Nat /\ \A j \in 1 .. Len(l) : l[j] \in Nat BY LenProperties
  <1>1. Start(l, 0) = 0
    <2>1. SubSeq(l, 1, 0) = << >> BY SubSeqEmpty
    <2>2. [i \in 1 .. Len(<< >>) |-> WholeChunk(<< >>, i)] = << >> BY EmptySeq
    <2>3. Value(<< >>) = << >> BY <2>2, WrittenUnfold DEF Value, WholeChunk
    <2> QED BY <2>1, <2>3, EmptySeq DEF Start
  <1>2. ASSUME NEW i \in 0 .. Len(l) PROVE Start(l, i) \in Nat
    <2>1. SubSeq(l, 1, i) \in Seq(Nat) BY <1>0, SubSeqProperties
    <2> QED BY <2>1, ValueType DEF Start
  <1>3. ASSUME NEW i \in 0 .. Len(l) - 1 PROVE Start(l, i + 1) = Start(l, i) + l[i + 1]
    <2>1. i \in Nat /\ i < Len(l) BY <1>0
    <2> DEFINE r == WholeChunk(l, i + 1)
    <2>2. r.len = l[i + 1] BY DEF WholeChunk
    <2>3. /\ SubSeq(l, 1, i) \in Seq(Nat) /\ r \in Requests
          /\ Value(SubSeq(l, 1, i + 1)) = Value(SubSeq(l, 1, i)) \o BytesOf(r)
      BY <2>1, ValueStep
    <2> HIDE DEF r
    <2>4. Len(BytesOf(r)) = l[i + 1] /\ BytesOf(r) \in Seq(Bytes) BY <2>2, <2>3, BytesOfType
    <2>5. Value(SubSeq(l, 1, i)) \in Seq(Bytes) BY <2>3, ValueType
    <2> QED BY <2>3, <2>4, <2>5, ConcatProperties DEF Start
  <1>4. SubSeq(l, 1, Len(l)) = l BY SubSeqFull
  <1> QED BY <1>1, <1>2, <1>3, <1>4 DEF Start

LEMMA StartMonotone ==
  ASSUME NEW l \in Seq(Nat), NEW i \in 0 .. Len(l)
  PROVE  \A j \in i .. Len(l) : Start(l, i) <= Start(l, j)
  <1>0. Len(l) \in Nat /\ \A j \in 1 .. Len(l) : l[j] \in Nat BY LenProperties
  <1> DEFINE S == {d \in Nat : i + d <= Len(l) => Start(l, i) <= Start(l, i + d)}
  <1>1. 0 \in S BY StartStep, <1>0
  <1>2. ASSUME NEW d \in Nat, d \in S PROVE d + 1 \in S
    <2> SUFFICES ASSUME i + (d + 1) <= Len(l) PROVE Start(l, i) <= Start(l, i + (d + 1))
      OBVIOUS
    <2>1. i + d \in 0 .. Len(l) - 1 /\ (i + d) + 1 = i + (d + 1) BY <1>0
    <2>2. Start(l, i + (d + 1)) = Start(l, i + d) + l[(i + d) + 1] BY <2>1, StartStep
    <2>3. l[(i + d) + 1] \in Nat BY <2>1, <1>0
    <2>4. Start(l, i) <= Start(l, i + d) BY <1>2, <2>1
    <2>5. Start(l, i) \in Nat /\ Start(l, i + d) \in Nat BY <2>1, StartStep, <1>0
    <2> QED BY <2>2, <2>3, <2>4, <2>5
  <1> HIDE DEF S
  <1>3. \A d \in Nat : d \in S BY <1>1, <1>2, Induction
  <1>4. ASSUME NEW j \in i .. Len(l) PROVE Start(l, i) <= Start(l, j)
    <2>1. j - i \in Nat /\ i + (j - i) = j BY <1>0
    <2>2. j - i \in S BY <2>1, <1>3
    <2> QED BY <2>1, <2>2, <1>0 DEF S
  <1> QED BY <1>4

(* The bytes of the value, place by place. *)
LEMMA ValueAt ==
  ASSUME NEW l \in Seq(Nat), NEW i \in 0 .. Len(l) - 1, NEW b \in 1 .. l[i + 1]
  PROVE  Value(l)[Start(l, i) + b] = <<i, b - 1>>
  <1>0. Len(l) \in Nat /\ \A j \in 1 .. Len(l) : l[j] \in Nat BY LenProperties
  <1>00. i \in Nat /\ i < Len(l) /\ i + 1 \in 0 .. Len(l) /\ l[i + 1] \in Nat BY <1>0
  <1> DEFINE V(k) == Value(SubSeq(l, 1, k))
             S == {d \in Nat : i + 1 + d <= Len(l) => V(i + 1 + d)[Start(l, i) + b] = <<i, b - 1>>}
  <1>1. 0 \in S
    <2> DEFINE r == WholeChunk(l, i + 1)
    <2>1. r.len = l[i + 1] /\ r.index = i /\ r.off = 0 BY <1>00 DEF WholeChunk
    <2>2. /\ SubSeq(l, 1, i) \in Seq(Nat) /\ r \in Requests
          /\ Value(SubSeq(l, 1, i + 1)) = Value(SubSeq(l, 1, i)) \o BytesOf(r)
      BY <1>00, ValueStep
    <2> HIDE DEF r
    <2>3. /\ Len(BytesOf(r)) = l[i + 1] /\ BytesOf(r) \in Seq(Bytes)
          /\ BytesOf(r)[b] = <<i, 0 + b - 1>>
      BY <2>1, <2>2, BytesOfType
    <2> DEFINE p == V(i)
               q == BytesOf(r)
    <2>4. p \in Seq(Bytes) /\ Len(p) = Start(l, i) /\ Start(l, i) \in Nat
      BY <2>2, ValueType DEF Start
    <2>5. q \in Seq(Bytes) /\ Len(q) = l[i + 1] /\ q[b] = <<i, b - 1>> BY <2>3
    <2>6. V(i + 1) = p \o q BY <2>2
    <2> HIDE DEF p, q, V
    <2>7. /\ Start(l, i) + b \in 1 .. Len(p) + Len(q) /\ ~(Start(l, i) + b <= Len(p))
          /\ (Start(l, i) + b) - Len(p) = b
      BY <2>4, <2>5, <1>00
    <2> DEFINE x == Start(l, i) + b
    <2>8. (p \o q)[x] = q[b]
      <3>1. x \in 1 .. Len(p) + Len(q) /\ ~(x <= Len(p)) /\ x - Len(p) = b BY <2>7
      <3> HIDE DEF x
      <3>2. (p \o q)[x] = IF x <= Len(p) THEN p[x] ELSE q[x - Len(p)]
        BY <3>1, <2>4, <2>5, ConcatProperties
      <3> QED BY <3>1, <3>2
    <2>9. i + 1 + 0 = i + 1 BY <1>00
    <2> QED BY <2>5, <2>6, <2>8, <2>9
  <1>2. ASSUME NEW d \in Nat, d \in S PROVE d + 1 \in S
    <2> SUFFICES ASSUME i + 1 + (d + 1) <= Len(l)
                 PROVE  V(i + 1 + (d + 1))[Start(l, i) + b] = <<i, b - 1>>
      OBVIOUS
    <2>1. /\ i + 1 + d \in Nat /\ i + 1 + d < Len(l) /\ i + 1 + (d + 1) = (i + 1 + d) + 1
          /\ i + 1 + d \in 0 .. Len(l) /\ i + 1 + d \in i + 1 .. Len(l)
      BY <1>00, <1>0
    <2> DEFINE k == i + 1 + d
               r == WholeChunk(l, k + 1)
    <2>2. k \in Nat /\ k < Len(l) BY <2>1
    <2> HIDE DEF k
    <2>3. /\ SubSeq(l, 1, k) \in Seq(Nat) /\ r \in Requests
          /\ Value(SubSeq(l, 1, k + 1)) = Value(SubSeq(l, 1, k)) \o BytesOf(r)
      BY <2>2, ValueStep
    <2> HIDE DEF r
    <2> DEFINE p == V(k)
               q == BytesOf(r)
    <2>4. p \in Seq(Bytes) /\ Len(p) = Start(l, k) /\ Start(l, k) \in Nat
      BY <2>3, ValueType DEF Start
    <2>5. q \in Seq(Bytes) /\ Len(q) \in Nat BY <2>3, BytesOfType, LenProperties
    <2>6. V(k + 1) = p \o q BY <2>3
    <2>7. p[Start(l, i) + b] = <<i, b - 1>> BY <1>2, <2>1 DEF k
    <2>8. Start(l, i) + b <= Start(l, k) /\ Start(l, i) \in Nat
      <3>1. Start(l, i + 1) = Start(l, i) + l[i + 1] BY StartStep
      <3>2. Start(l, i + 1) <= Start(l, k) BY <1>00, <2>1, StartMonotone DEF k
      <3>3. Start(l, i) \in Nat BY <1>00, <1>0, StartStep
      <3> QED BY <3>1, <3>2, <3>3, <2>4, <1>00
    <2> HIDE DEF p, q, V
    <2>9. Start(l, i) + b \in 1 .. Len(p) + Len(q) /\ Start(l, i) + b <= Len(p)
      <3> DEFINE x == Start(l, i)
      <3>1. x \in Nat /\ x + b <= Len(p) /\ Len(p) \in Nat BY <2>4, <2>8
      <3>2. b \in Nat /\ b >= 1 BY <1>00
      <3> HIDE DEF x
      <3>3. x + b \in 1 .. Len(p) + Len(q) BY <3>1, <3>2, <2>5
      <3> QED BY <3>1, <3>3 DEF x
    <2>10. (p \o q)[Start(l, i) + b] = p[Start(l, i) + b] BY <2>4, <2>5, <2>9, ConcatProperties
    <2>11. i + 1 + (d + 1) = k + 1 BY <2>1 DEF k
    <2> QED BY <2>6, <2>7, <2>10, <2>11
  <1> HIDE DEF S
  <1>3. \A d \in Nat : d \in S BY <1>1, <1>2, Induction
  <1>4. Len(l) - (i + 1) \in Nat /\ i + 1 + (Len(l) - (i + 1)) = Len(l) BY <1>00, <1>0
  <1>5. V(Len(l))[Start(l, i) + b] = <<i, b - 1>>
    <2> DEFINE d == Len(l) - (i + 1)
    <2>1. d \in S /\ i + 1 + d = Len(l) BY <1>3, <1>4
    <2>2. i + 1 + d <= Len(l) BY <2>1, <1>0
    <2> HIDE DEF d, V
    <2>3. V(i + 1 + d)[Start(l, i) + b] = <<i, b - 1>> BY <2>1, <2>2 DEF S
    <2> QED BY <2>1, <2>3
  <1>6. SubSeq(l, 1, Len(l)) = l BY SubSeqFull
  <1> QED BY <1>5, <1>6

-----------------------------------------------------------------------------
Requested == {sent[i] : i \in 1 .. Len(sent)}

InputInv ==
  /\ Skipped \in Nat
  /\ WithinValue(lens, asked.off, asked.n)

(* The loop is at the chunk after the last one it requested; before the    *)
(* first request it has skipped what ends before the range.                *)
CursorInv ==
  /\ \A i \in 1 .. Len(sent) : sent[i].index = Skipped + i - 1
  /\ sent = << >> => off + Start(lens, next) = asked.off
  /\ sent # << >> => next = Skipped + Len(sent) /\ off = 0

(* What was requested is the beginning of the range, and ends with a chunk *)
(* unless it is all of the range.                                          *)
Covered == Len(Written[sent])

Clean == StartsCleanly(lens, asked.off, asked.n)

RangeInv ==
  Clean =>
    /\ asked.off + Covered <= Len(Value(lens))
    /\ Written[sent] = SubSeq(Value(lens), asked.off + 1, asked.off + Covered)
    /\ n = asked.n - Covered
    /\ asked.n > 0 => n >= 0
    /\ sent # << >> /\ n # 0 => asked.off + Covered = Start(lens, next)
    /\ loop = "request" => n # 0
    /\ loop = "wait" \/ result = "ok" =>
         IF asked.n < 0 THEN asked.off + Covered = Len(Value(lens)) ELSE Covered = asked.n

(* A chunk is in flight, or in its slot, or written, and written from the  *)
(* slot it was put in.                                                     *)
InflightInv == inflight \subseteq Requested

SlotInv ==
  \A s \in Slots : \A r \in chunks[s] :
    r \in Requested /\ r \notin inflight /\ SlotOf(r) = s /\ chunks[s] = {r}

OutputInv ==
  /\ pos = Len(out)
  /\ \A i \in 1 .. Len(out) :
       /\ out[i] \in Requested
       /\ out[i] \notin inflight
       /\ SlotOf(out[i]) = (i - 1) % P
       /\ \A s \in Slots : out[i] \notin chunks[s]
       /\ \A j \in 1 .. Len(out) : out[i] = out[j] => i = j

(* Until something fails, no chunk is lost, and the slot that is flushed   *)
(* next is empty whenever the flush loop is not running.                   *)
Accounted(r) ==
  \/ r \in inflight
  \/ r \in chunks[SlotOf(r)]
  \/ \E j \in 1 .. Len(out) : out[j] = r

PendingInv ==
  loop \in {"request", "wait"} \/ result = "ok" =>
    /\ \A r \in Requested : Accounted(r)
    /\ ~flushing => chunks[pos % P] = {}

PhaseInv ==
  /\ loop \in {"request", "wait"} => result = "running"
  /\ flushing => loop \in {"request", "wait", "drain"}
  /\ loop \in {"drain", "panic"} => result # "ok"
  /\ result = "ok" => loop = "done" /\ inflight = {} /\ ~flushing

IInv ==
  /\ TypeOK
  /\ InputInv
  /\ CursorInv
  /\ RangeInv
  /\ InflightInv
  /\ SlotInv
  /\ OutputInv
  /\ PendingInv
  /\ PhaseInv

-----------------------------------------------------------------------------
LEMMA FunctionIsSeq ==
  ASSUME NEW S, NEW k \in Nat, NEW l \in [1 .. k -> S]
  PROVE  l \in Seq(S) /\ Len(l) = k
  <1>1. l = [i \in 1 .. k |-> l[i]] OBVIOUS
  <1>2. [i \in 1 .. k |-> l[i]] \in Seq(S) OBVIOUS
  <1>3. Len([i \in 1 .. k |-> l[i]]) = k OBVIOUS
  <1> QED BY <1>1, <1>2, <1>3

LEMMA LensType ==
  ASSUME NEW l \in ChunkLens
  PROVE  /\ l \in Seq(1 .. Capacity)
         /\ l \in Seq(Nat)
         /\ Len(l) \in 1 .. MaxChunks
         /\ \A i \in 1 .. Len(l) : l[i] \in Nat /\ l[i] >= 1
  <1>1. PICK k \in 1 .. MaxChunks : l \in [1 .. k -> 1 .. Capacity]
    BY DEF ChunkLens
  <1>2. k \in Nat /\ k >= 1 BY MaxChunksAssumption
  <1>3. l \in Seq(1 .. Capacity) /\ Len(l) = k BY <1>1, <1>2, FunctionIsSeq
  <1>4. 1 .. Capacity \subseteq Nat BY CapacityAssumption
  <1>5. l \in Seq(Nat) BY <1>3, <1>4, SeqMonotonic
  <1> QED BY <1>1, <1>2, <1>3, <1>5, CapacityAssumption

LEMMA RequestType ==
  ASSUME NEW l \in ChunkLens, NEW i \in Nat, i < Len(l), NEW o \in Nat, NEW k \in Int
  PROVE  /\ RequestFor(l, i, o, k) \in Requests
         /\ RequestFor(l, i, o, k).index = i
         /\ RequestFor(l, i, o, k).off = o
         /\ RequestFor(l, i, o, k).len = ReqLen(k, l[i + 1])
  <1>1. l[i + 1] \in Nat BY LensType
  <1>2. ReqLen(k, l[i + 1]) \in Nat BY <1>1 DEF ReqLen
  <1> QED BY <1>2 DEF RequestFor, Requests

(* A place in the value is in the chunk that begins before it and ends     *)
(* after it, and the chunks that end before it are those before that one.  *)
LEMMA ChunkOf ==
  ASSUME NEW l \in ChunkLens, NEW o \in Nat, NEW i \in 0 .. Len(l) - 1,
         Start(l, i) <= o, o < Start(l, i + 1), NEW j \in 0 .. Len(l)
  PROVE  Start(l, j) <= o <=> j <= i
  <1>0. l \in Seq(Nat) /\ Len(l) \in Nat BY LensType
  <1>1. Start(l, i) \in Nat /\ Start(l, j) \in Nat /\ Start(l, i + 1) \in Nat
    BY <1>0, StartStep
  <1>2. CASE j <= i
    <2>1. Start(l, j) <= Start(l, i) BY <1>0, <1>2, StartMonotone
    <2> QED BY <1>1, <1>2, <2>1
  <1>3. CASE ~(j <= i)
    <2>1. i + 1 \in 0 .. Len(l) /\ j \in i + 1 .. Len(l) BY <1>0, <1>3
    <2>2. Start(l, i + 1) <= Start(l, j) BY <1>0, <2>1, StartMonotone
    <2> QED BY <1>1, <1>3, <2>2
  <1> QED BY <1>2, <1>3

LEMMA SkippedCount ==
  ASSUME NEW l \in ChunkLens, NEW o \in Nat, NEW i \in 0 .. Len(l) - 1,
         Start(l, i) <= o, o < Start(l, i + 1)
  PROVE  Cardinality({j \in 1 .. Len(l) : Start(l, j) <= o}) = i
  <1>0. Len(l) \in Nat BY LensType
  <1>1. {j \in 1 .. Len(l) : Start(l, j) <= o} = 1 .. i
    <2>1. \A j \in 1 .. Len(l) : Start(l, j) <= o <=> j <= i
      <3> TAKE j \in 1 .. Len(l)
      <3>1. j \in 0 .. Len(l) BY <1>0
      <3> QED BY <3>1, ChunkOf
    <2> QED BY <1>0, <2>1
  <1>2. Cardinality(1 .. i) = i BY <1>0, FS_Interval
  <1> QED BY <1>1, <1>2

LEMMA SkippedType ==
  ASSUME NEW l \in ChunkLens, NEW o \in Nat
  PROVE  Cardinality({j \in 1 .. Len(l) : Start(l, j) <= o}) \in Nat
  <1>0. Len(l) \in Nat BY LensType
  <1>1. IsFiniteSet(1 .. Len(l)) BY <1>0, FS_Interval
  <1>2. IsFiniteSet({j \in 1 .. Len(l) : Start(l, j) <= o}) BY <1>1, FS_Subset
  <1> QED BY <1>2, FS_CardinalityType

(* A range that begins cleanly fits its first chunk: it begins with that   *)
(* chunk, or it is all there.                                              *)
LEMMA FirstFits ==
  ASSUME NEW l \in ChunkLens, NEW o \in Nat, NEW k \in Int, NEW i \in 0 .. Len(l) - 1,
         Start(l, i) <= o, o < Start(l, i + 1), StartsCleanly(l, o, k)
  PROVE  o = Start(l, i) \/ (k > 0 /\ o + k <= Start(l, i + 1))
  <1>0. l \in Seq(Nat) /\ Len(l) \in Nat /\ \A j \in 1 .. Len(l) : l[j] \in Nat /\ l[j] >= 1
    BY LensType
  <1>1. PICK j \in 1 .. Len(l) :
          \/ o = Start(l, j - 1)
          \/ k > 0 /\ o >= Start(l, j - 1) /\ o + k <= Start(l, j - 1) + l[j]
    BY DEF StartsCleanly
  <1>2. /\ j - 1 \in 0 .. Len(l) - 1 /\ j - 1 \in 0 .. Len(l) /\ (j - 1) + 1 = j
        /\ j \in 0 .. Len(l)
    BY <1>0
  <1>3. Start(l, j) = Start(l, j - 1) + l[j] /\ Start(l, j) \in Nat /\ Start(l, j - 1) \in Nat
    BY <1>0, <1>2, StartStep
  <1>4. Start(l, j - 1) <= o /\ ~(Start(l, j) <= o)
    <2> DEFINE x == Start(l, j - 1)
               y == Start(l, j)
               m == l[j]
    <2>1. x \in Nat /\ y \in Nat /\ y = x + m BY <1>3
    <2>2. m \in Nat /\ m >= 1 BY <1>0
    <2>3. o = x \/ (k > 0 /\ o >= x /\ o + k <= x + m) BY <1>1
    <2> HIDE DEF x, y, m
    <2>4. x <= o /\ ~(y <= o) BY <2>1, <2>2, <2>3
    <2> QED BY <2>4 DEF x, y
  <1>5. j - 1 <= i /\ ~(j <= i) BY <1>2, <1>4, ChunkOf
  <1>6. j - 1 = i BY <1>5, <1>2, <1>0
  <1> QED BY <1>1, <1>3, <1>6, <1>2

(* The bytes of a request are those of the value from where it begins. *)
LEMMA BytesFrom ==
  ASSUME NEW l \in ChunkLens, NEW r \in Requests,
         r.index \in 0 .. Len(l) - 1, r.off \in Nat, r.len \in Nat,
         r.off + r.len <= l[r.index + 1]
  PROVE  LET a == Start(l, r.index) + r.off
         IN  /\ a + r.len <= Len(Value(l))
             /\ BytesOf(r) = SubSeq(Value(l), a + 1, a + r.len)
  <1> DEFINE i == r.index
             o == r.off
             k == r.len
             a == Start(l, i) + o
  <1>a. i \in 0 .. Len(l) - 1 /\ o \in Nat /\ k \in Nat /\ o + k <= l[i + 1]
        /\ r.index = i /\ r.off = o /\ r.len = k
    OBVIOUS
  <1>b. a \in Nat
    <2>1. l \in Seq(Nat) /\ i \in 0 .. Len(l) BY <1>a, LensType
    <2> HIDE DEF i, o
    <2>2. Start(l, i) \in Nat BY <2>1, <1>a, LensType, StartStep
    <2> QED BY <2>2, <1>a
  <1>c. a = Start(l, i) + o OBVIOUS
  <1> HIDE DEF i, o, k, a
  <1> USE <1>a, <1>b, <1>c
  <1>0. /\ l \in Seq(Nat) /\ Len(l) \in Nat /\ i \in Nat
        /\ i \in 0 .. Len(l) /\ i + 1 \in 0 .. Len(l) /\ l[i + 1] \in Nat
        /\ Len(l) \in i + 1 .. Len(l)
    BY LensType
  <1>1. /\ Start(l, i) \in Nat /\ Start(l, i + 1) = Start(l, i) + l[i + 1]
        /\ Start(l, i + 1) <= Start(l, Len(l)) /\ Start(l, Len(l)) = Len(Value(l))
    BY <1>0, StartStep, StartMonotone
  <1>2. Value(l) \in Seq(Bytes) /\ Len(Value(l)) \in Nat BY <1>0, ValueType
  <1>3. a + k <= Len(Value(l))
    <2> DEFINE x == Start(l, i)
               y == Start(l, i + 1)
               z == Len(Value(l))
               m == l[i + 1]
    <2>1. x \in Nat /\ y = x + m /\ y <= z BY <1>1
    <2>2. z \in Nat /\ m \in Nat BY <1>0, <1>2
    <2>3. a = x + o /\ o + k <= m OBVIOUS
    <2> HIDE DEF x, y, z, m
    <2>4. a + k <= z BY <2>1, <2>2, <2>3
    <2> QED BY <2>4 DEF z
  <1>4. ASSUME NEW b \in 1 .. k PROVE Value(l)[a + b] = <<i, o + b - 1>>
    <2>1. Start(l, i) + (o + b) = a + b BY <1>1
    <2>3. o + b \in 1 .. l[i + 1]
      <3> DEFINE m == l[i + 1]
      <3>1. m \in Nat /\ o + k <= m BY <1>0
      <3> HIDE DEF m
      <3>2. o + b \in 1 .. m BY <3>1
      <3> QED BY <3>2 DEF m
    <2>2. Value(l)[Start(l, i) + (o + b)] = <<i, (o + b) - 1>>
      BY <1>0, <2>3, ValueAt
    <2> QED BY <2>1, <2>2
  <1> DEFINE s == SubSeq(Value(l), a + 1, a + k)
  <1>5. s \in Seq(Bytes) /\ Len(s) = k /\ \A b \in 1 .. k : s[b] = Value(l)[a + b]
    <2>1. \A j \in a + 1 .. a + k : Value(l)[j] \in Bytes
      <3> TAKE j \in a + 1 .. a + k
      <3>1. j \in 1 .. Len(Value(l)) BY <1>2, <1>3
      <3> QED BY <3>1, <1>2, ElementOfSeq
    <2>2. a + 1 \in Int /\ a + k \in Int BY <1>3
    <2>3. /\ Len(s) = IF a + 1 <= a + k THEN (a + k) - (a + 1) + 1 ELSE 0
          /\ s \in Seq(Bytes)
          /\ \A b \in 1 .. (a + k) - (a + 1) + 1 : s[b] = Value(l)[(a + 1) + b - 1]
      <3> DEFINE v == Value(l)
                 f == a + 1
                 t == a + k
      <3>1. f \in Int /\ t \in Int /\ \A j \in f .. t : v[j] \in Bytes BY <2>1, <2>2
      <3> HIDE DEF v, f, t
      <3>2. /\ SubSeq(v, f, t) \in Seq(Bytes)
            /\ Len(SubSeq(v, f, t)) = IF f <= t THEN t - f + 1 ELSE 0
            /\ \A b \in 1 .. t - f + 1 : SubSeq(v, f, t)[b] = v[f + b - 1]
        BY <3>1, SubSeqProperties
      <3> QED BY <3>2 DEF v, f, t
    <2>4. (a + k) - (a + 1) + 1 = k /\ \A b \in 1 .. k : (a + 1) + b - 1 = a + b
      BY <1>3
    <2> HIDE DEF s
    <2>5. \A b \in 1 .. k : s[b] = Value(l)[a + b]
      <3> TAKE b \in 1 .. k
      <3>1. b \in 1 .. (a + k) - (a + 1) + 1 /\ (a + 1) + b - 1 = a + b BY <2>4
      <3>2. s[b] = Value(l)[(a + 1) + b - 1] BY <2>3, <3>1
      <3> QED BY <3>1, <3>2
    <2>6. Len(s) = k
      <3>1. Len(s) = IF a + 1 <= a + k THEN (a + k) - (a + 1) + 1 ELSE 0 BY <2>3
      <3>2. (IF a + 1 <= a + k THEN (a + k) - (a + 1) + 1 ELSE 0) = k OBVIOUS
      <3> QED BY <3>1, <3>2
    <2> QED BY <2>3, <2>5, <2>6
  <1>6. /\ BytesOf(r) \in Seq(Bytes) /\ Len(BytesOf(r)) = k
        /\ \A b \in 1 .. k : BytesOf(r)[b] = <<i, o + b - 1>>
    BY BytesOfType
  <1>7. BytesOf(r) = s
    <2> HIDE DEF s
    <2>1. \A b \in 1 .. Len(BytesOf(r)) : BytesOf(r)[b] = s[b] BY <1>4, <1>5, <1>6
    <2> QED BY <2>1, <1>5, <1>6, SeqEqual
  <1>8. a + k <= Len(Value(l)) /\ BytesOf(r) = SubSeq(Value(l), a + 1, a + k) BY <1>3, <1>7 DEF s
  <1> QED BY <1>8 DEF i, o, k, a

(* The slots go round with the chunks. *)
LEMMA SlotShift ==
  ASSUME NEW q \in Nat \ {0}, NEW k \in Nat, NEW d \in Nat, k % q = 0
  PROVE  (k + d) % q = d % q
  <1>1. PICK a \in Nat : k = q * a OBVIOUS
  <1>2. PICK b \in Nat, c \in 0 .. q - 1 : d = q * b + c /\ d % q = c OBVIOUS
  <1>3. k + d = q * (a + b) + c BY <1>1, <1>2
  <1>4. a + b \in Nat OBVIOUS
  <1>5. (q * (a + b) + c) % q = c BY <1>2, <1>4
  <1> QED BY <1>2, <1>3, <1>5

-----------------------------------------------------------------------------
(* The initial state satisfies the invariant. *)
LEMMA InitInv == Init => IInv
  <1> SUFFICES ASSUME Init PROVE IInv OBVIOUS
  <1> USE PAssumption
  <1>1. lens \in ChunkLens /\ lens \in Seq(Nat) /\ Len(lens) \in 1 .. MaxChunks
    BY LensType DEF Init
  <1>2. asked \in [off : Nat, n : Int] /\ InputInv
    <2>1. Capacity * MaxChunks \in Int BY CapacityAssumption, MaxChunksAssumption
    <2>2. asked \in [off : Nat, n : Int] BY <2>1 DEF Init
    <2>3. Skipped \in Nat BY <1>1, <2>2, SkippedType DEF Skipped
    <2>4. WithinValue(lens, asked.off, asked.n) BY DEF Init
    <2> QED BY <2>2, <2>3, <2>4 DEF InputInv
  <1>3. TypeOK
    <2>1. asked.off \in Nat /\ asked.n \in Int BY <1>2
    <2>2. Len(lens) \in Nat /\ 0 \in 0 .. Len(lens) BY <1>1, MaxChunksAssumption
    <2>3. << >> \in Seq(Requests) BY EmptySeq
    <2>4. [s \in Slots |-> {}] \in [Slots -> SUBSET Requests] OBVIOUS
    <2> QED BY <1>1, <1>2, <2>1, <2>2, <2>3, <2>4 DEF Init, TypeOK
  <1>4. Start(lens, 0) = 0 BY <1>1, StartStep
  <1>5. CursorInv
    <2>1. asked.off \in Nat BY <1>2
    <2>2. off + Start(lens, next) = asked.off BY <2>1, <1>4 DEF Init
    <2>3. sent = << >> BY DEF Init
    <2> QED BY <2>2, <2>3 DEF CursorInv
  <1>6. RangeInv
    <2>1. Covered = 0 /\ Written[sent] = << >> BY WrittenUnfold DEF Init, Covered
    <2>2. Len(Value(lens)) \in Nat BY <1>1, ValueType
    <2>3. asked.off < Len(Value(lens)) /\ asked.n # 0
      BY <1>2 DEF InputInv, WithinValue
    <2>4. asked.off \in Nat /\ asked.n \in Int BY <1>2
    <2>5. SubSeq(Value(lens), asked.off + 1, asked.off + 0) = << >>
      BY <2>4, SubSeqEmpty
    <2>6. sent = << >> /\ n = asked.n /\ loop = "request" /\ result = "running" BY DEF Init
    <2> QED BY <2>1, <2>2, <2>3, <2>4, <2>5, <2>6 DEF RangeInv
  <1>7. pos % P \in Slots BY DEF Init, Slots
  <1>8. InflightInv /\ SlotInv BY DEF Init, InflightInv, SlotInv
  <1>9. OutputInv BY DEF Init, OutputInv
  <1>10. PendingInv
    <2>1. Requested = {} BY DEF Init, Requested
    <2> QED BY <1>7, <2>1 DEF Init, PendingInv
  <1>11. PhaseInv BY DEF Init, PhaseInv
  <1> QED BY <1>2, <1>3, <1>5, <1>6, <1>8, <1>9, <1>10, <1>11 DEF IInv

(* What every step lemma starts from. *)
LEMMA Facts ==
  ASSUME IInv
  PROVE  /\ TypeOK /\ InputInv /\ CursorInv /\ RangeInv /\ InflightInv /\ SlotInv
         /\ OutputInv /\ PendingInv /\ PhaseInv
         /\ Len(sent) \in Nat /\ Len(out) \in Nat /\ Len(lens) \in Nat
         /\ Skipped \in Nat /\ pos \in Nat /\ pos % P \in Slots
  <1>1. Len(lens) \in Nat /\ Len(sent) \in Nat /\ Len(out) \in Nat /\ Skipped \in Nat /\ pos \in Nat
    BY LensType, LenProperties DEF IInv, TypeOK, InputInv
  <1>2. pos % P \in Slots BY <1>1, PAssumption DEF Slots
  <1> QED BY <1>1, <1>2 DEF IInv

(* A requested chunk is known by its place among the requests. *)
LEMMA Ranks ==
  ASSUME IInv
  PROVE  /\ Requested \subseteq Requests
         /\ \A r \in Requests : SlotOf(r) \in Slots
         /\ \A i, j \in 1 .. Len(sent) : sent[i] = sent[j] => i = j
         /\ \A i \in 1 .. Len(sent) : sent[i] \in Requests /\ SlotOf(sent[i]) = (Skipped + (i - 1)) % P
  <1>1. \A i \in 1 .. Len(sent) : sent[i] \in Requests BY Facts DEF TypeOK
  <1>2. Requested \subseteq Requests BY <1>1 DEF Requested
  <1>3. ASSUME NEW r \in Requests PROVE SlotOf(r) \in Slots
    <2>1. r.index \in Nat BY DEF Requests
    <2> QED BY <2>1, PAssumption DEF SlotOf, Slots
  <1>4. \A i \in 1 .. Len(sent) : sent[i].index = Skipped + i - 1 BY Facts DEF CursorInv
  <1>5. \A i, j \in 1 .. Len(sent) : sent[i] = sent[j] => i = j
    <2> SUFFICES ASSUME NEW i \in 1 .. Len(sent), NEW j \in 1 .. Len(sent), sent[i] = sent[j]
                 PROVE  i = j
      OBVIOUS
    <2>1. Skipped + i - 1 = Skipped + j - 1 BY <1>4
    <2> QED BY <2>1, Facts
  <1>6. ASSUME NEW i \in 1 .. Len(sent) PROVE SlotOf(sent[i]) = (Skipped + (i - 1)) % P
    <2>1. sent[i].index = Skipped + (i - 1) BY <1>4, Facts
    <2> QED BY <2>1 DEF SlotOf
  <1> QED BY <1>1, <1>2, <1>3, <1>5, <1>6

(* What a step that leaves the cursor alone carries over. *)
LEMMA Carry ==
  ASSUME IInv, UNCHANGED <<lens, asked, next, off, n, sent>>,
         loop' = "request" => loop = "request",
         loop' = "wait" \/ result' = "ok" => loop = "wait" \/ result = "ok"
  PROVE  InputInv' /\ CursorInv' /\ RangeInv' /\ Requested' = Requested
  <1>1. Skipped' = Skipped /\ Requested' = Requested BY DEF Skipped, Requested
  <1>2. InputInv' BY <1>1, Facts DEF InputInv
  <1>3. CursorInv' BY <1>1, Facts DEF CursorInv
  <1>4. Covered' = Covered /\ Clean' = Clean BY DEF Covered, Clean
  <1>5. RangeInv' BY <1>4, Facts DEF RangeInv
  <1> QED BY <1>1, <1>2, <1>3, <1>5

(* A step that moves no chunk keeps the chunks where they were. *)
LEMMA Still ==
  ASSUME IInv, UNCHANGED <<inflight, chunks, pos, out>>, Requested' = Requested
  PROVE  InflightInv' /\ SlotInv' /\ OutputInv'
  <1>1. \A r : SlotOf(r)' = SlotOf(r) BY DEF SlotOf
  <1>2. InflightInv' BY Facts DEF InflightInv
  <1>3. SlotInv' BY Facts DEF SlotInv, SlotOf
  <1>4. OutputInv' BY Facts DEF OutputInv, SlotOf
  <1> QED BY <1>2, <1>3, <1>4

-----------------------------------------------------------------------------
(* The chunks before the range are skipped before anything is requested. *)
LEMMA SkipStep == ASSUME IInv, SkipChunk PROVE IInv'
  <1> USE PAssumption
  <1>1. /\ next \in 0 .. Len(lens) - 1 /\ off >= lens[next + 1]
        /\ off' = off - lens[next + 1] /\ next' = next + 1
        /\ UNCHANGED <<lens, asked, n, sent, inflight, chunks, pos, out, loop, flushing, result>>
    BY Facts DEF SkipChunk, Skips, TypeOK, input
  <1>2. /\ lens \in ChunkLens /\ lens \in Seq(Nat) /\ next \in Nat /\ off \in Nat
        /\ lens[next + 1] \in Nat /\ lens[next + 1] >= 1 /\ Len(lens) \in Nat
    <2>1. lens \in ChunkLens /\ next \in Nat /\ off \in Nat BY Facts DEF TypeOK
    <2>2. /\ lens \in Seq(Nat) /\ Len(lens) \in Nat
          /\ \A j \in 1 .. Len(lens) : lens[j] \in Nat /\ lens[j] >= 1
      BY <2>1, LensType
    <2>3. next + 1 \in 1 .. Len(lens) BY <1>1, <2>1, <2>2
    <2> QED BY <2>1, <2>2, <2>3
  <1>3. sent = << >>
    <2>1. sent # << >> => off = 0 BY Facts DEF CursorInv
    <2>2. off # 0 BY <1>1, <1>2
    <2> QED BY <2>1, <2>2
  <1>4. Skipped' = Skipped BY <1>1 DEF Skipped
  <1>5. TypeOK'
    <2>1. off - lens[next + 1] \in Nat /\ next + 1 \in 0 .. Len(lens) BY <1>1, <1>2
    <2> QED BY <1>1, <2>1, Facts DEF TypeOK
  <1>6. InputInv' BY <1>1, <1>4, Facts DEF InputInv
  <1>7. CursorInv'
    <2>1. Start(lens, next + 1) = Start(lens, next) + lens[next + 1] /\ Start(lens, next) \in Nat
      BY <1>1, <1>2, StartStep
    <2>2. off + Start(lens, next) = asked.off BY <1>3, Facts DEF CursorInv
    <2>3. off' + Start(lens, next + 1) = asked.off BY <1>1, <1>2, <2>1, <2>2
    <2> QED BY <1>1, <1>3, <1>4, <2>3, Facts DEF CursorInv
  <1>8. RangeInv'
    <2>1. Covered' = Covered /\ Clean' = Clean /\ lens' = lens BY <1>1 DEF Covered, Clean
    <2> QED BY <1>1, <1>3, <2>1, Facts DEF RangeInv
  <1>9. Requested' = Requested BY <1>1 DEF Requested
  <1>10. InflightInv' /\ SlotInv' /\ OutputInv' BY <1>1, <1>9, Still
  <1>11. PendingInv' /\ PhaseInv' BY <1>1, <1>9, Facts DEF PendingInv, PhaseInv, Accounted
  <1> QED BY <1>5, <1>6, <1>7, <1>8, <1>10, <1>11 DEF IInv

(* The first request is for the chunk in which the range begins. *)
LEMMA SendFirst ==
  ASSUME IInv, SendRequest, sent = << >>
  PROVE  next = Skipped
  <1> DEFINE c == lens[next + 1]
  <1>1. /\ next \in 0 .. Len(lens) - 1 /\ lens \in ChunkLens /\ ~(off >= c)
        /\ off \in Nat /\ asked.off \in Nat
    BY Facts DEF SendRequest, Skips, TypeOK
  <1>2. lens \in Seq(Nat) /\ c \in Nat BY <1>1, LensType
  <1>3. Start(lens, next) \in Nat /\ Start(lens, next + 1) = Start(lens, next) + c
    BY <1>1, <1>2, StartStep
  <1>4. off + Start(lens, next) = asked.off BY Facts DEF CursorInv
  <1> HIDE DEF c
  <1>5. Start(lens, next) <= asked.off /\ asked.off < Start(lens, next + 1)
    BY <1>1, <1>2, <1>3, <1>4
  <1> QED BY <1>1, <1>5, SkippedCount DEF Skipped

(* A request fits its chunk, and ends with it unless it ends the range. *)
LEMMA SendFits ==
  ASSUME IInv, SendRequest, Clean
  PROVE  LET k == ReqLen(n, lens[next + 1])
         IN  /\ k \in Nat /\ k >= 1
             /\ asked.off + Covered = Start(lens, next) + off
             /\ off + k <= lens[next + 1]
             /\ n > 0 => k <= n
             /\ n - k # 0 => off + k = lens[next + 1]
  <1> DEFINE c == lens[next + 1]
             k == ReqLen(n, c)
  <1>1. /\ next \in 0 .. Len(lens) - 1 /\ off < c /\ lens \in ChunkLens /\ lens \in Seq(Nat)
        /\ c \in Nat /\ c >= 1 /\ off \in Nat /\ n \in Int /\ n # 0 /\ Len(lens) \in Nat
        /\ asked.off \in Nat /\ asked.n \in Int
    <2>1. /\ next \in 0 .. Len(lens) - 1 /\ lens \in ChunkLens /\ ~(off >= c)
          /\ off \in Nat /\ n \in Int /\ asked.off \in Nat /\ asked.n \in Int
      BY Facts DEF SendRequest, Skips, TypeOK
    <2>2. lens \in Seq(Nat) /\ c \in Nat /\ c >= 1 /\ Len(lens) \in Nat BY <2>1, LensType
    <2>3. n # 0 BY Facts DEF SendRequest, Requesting, RangeInv
    <2> HIDE DEF c
    <2> QED BY <2>1, <2>2, <2>3
  <1>2. Start(lens, next) \in Nat /\ Start(lens, next + 1) = Start(lens, next) + c
    BY <1>1, StartStep
  <1> HIDE DEF c
  <1>3. k \in Nat /\ k >= 1 /\ k <= c /\ (n > 0 => k <= n) /\ (n < 0 => k = c)
        /\ (n > 0 /\ n <= c => k = n) /\ (n > c => k = c)
    BY <1>1 DEF ReqLen
  <1> HIDE DEF k
  <1>4. CASE sent = << >>
    <2>1. off + Start(lens, next) = asked.off BY <1>4, Facts DEF CursorInv
    <2>2. Covered = 0 BY <1>4, WrittenUnfold DEF Covered
    <2>3. n = asked.n BY <2>2, <1>1, Facts DEF RangeInv
    <2>4. Start(lens, next) <= asked.off /\ asked.off < Start(lens, next + 1)
      BY <1>1, <1>2, <2>1
    <2>6. asked.off = Start(lens, next) \/ (n > 0 /\ asked.off + n <= Start(lens, next + 1))
      BY <1>1, <2>3, <2>4, FirstFits DEF Clean
    <2>7. off = 0 \/ (n > 0 /\ off + n <= c) BY <2>1, <2>6, <1>1, <1>2
    <2>8. off + k <= c /\ (n - k # 0 => off + k = c) BY <2>7, <1>1, <1>3
    <2> QED BY <1>1, <1>2, <1>3, <2>1, <2>2, <2>8 DEF c, k
  <1>5. CASE sent # << >>
    <2>1. off = 0 BY <1>5, Facts DEF CursorInv
    <2>2. asked.off + Covered = Start(lens, next) BY <1>1, <1>5, Facts DEF RangeInv
    <2>3. off + k <= c /\ (n - k # 0 => off + k = c) BY <2>1, <1>1, <1>3
    <2>4. asked.off + Covered = Start(lens, next) + off BY <2>1, <2>2, <1>2
    <2> QED BY <1>1, <1>3, <1>5, <2>3, <2>4 DEF c, k
  <1> QED BY <1>4, <1>5

(* The requests sent go on covering the range from its beginning. *)
LEMMA SendRange ==
  ASSUME IInv, SendRequest, Clean
  PROVE  RangeInv'
  <1> DEFINE r == RequestFor(lens, next, off, n)
             k == ReqLen(n, lens[next + 1])
             a == asked.off + Covered
             V == Value(lens)
  <1>0. /\ next \in 0 .. Len(lens) - 1 /\ next \in Nat /\ next < Len(lens)
        /\ off \in Nat /\ n \in Int /\ lens \in ChunkLens /\ lens \in Seq(Nat)
        /\ Len(lens) \in Nat /\ asked.off \in Nat /\ asked.n \in Int /\ sent \in Seq(Requests)
    BY Facts, LensType DEF SendRequest, TypeOK
  <1>1. r \in Requests /\ r.index = next /\ r.off = off /\ r.len = k BY <1>0, RequestType
  <1>2. /\ k \in Nat /\ k >= 1
        /\ a = Start(lens, next) + off
        /\ off + k <= lens[next + 1]
        /\ n > 0 => k <= n
        /\ n - k # 0 => off + k = lens[next + 1]
    BY SendFits
  <1>3. /\ sent' = Append(sent, r) /\ n' = n - r.len /\ next' = next + 1
        /\ loop = "request" /\ loop' = (IF n' = 0 THEN "wait" ELSE "request")
        /\ UNCHANGED <<lens, asked, result>>
    BY DEF SendRequest, Requesting, input
  <1>4. V \in Seq(Bytes) /\ Len(V) \in Nat BY <1>0, ValueType
  <1>5. Written[sent] \in Seq(Bytes) /\ Covered \in Nat
    BY <1>0, WrittenType, LenProperties DEF Covered
  <1>6. Start(lens, next) \in Nat /\ Start(lens, next + 1) = Start(lens, next) + lens[next + 1]
        /\ lens[next + 1] \in Nat
    BY <1>0, StartStep, LensType
  <1>7. a \in Nat BY <1>0, <1>5
  <1> HIDE DEF r, k, a, V
  <1>8. a + k <= Len(V) /\ BytesOf(r) = SubSeq(V, a + 1, a + k)
    <2>1. /\ lens \in ChunkLens /\ r \in Requests /\ next \in 0 .. Len(lens) - 1
          /\ off \in Nat /\ k \in Nat /\ a \in Nat
          /\ r.index = next /\ r.off = off /\ r.len = k
      BY <1>0, <1>1, <1>2, <1>7
    <2>2. off + k <= lens[next + 1] /\ a = Start(lens, next) + off BY <1>2
    <2>3. r.off + r.len <= lens[r.index + 1] /\ a = Start(lens, r.index) + r.off BY <2>1, <2>2
    <2>4. a + r.len <= Len(Value(lens)) /\ BytesOf(r) = SubSeq(Value(lens), a + 1, a + r.len)
      BY <2>1, <2>3, BytesFrom
    <2> QED BY <2>1, <2>4 DEF V
  <1>9. Written[sent'] = Written[sent] \o BytesOf(r) BY <1>0, <1>1, <1>3, WrittenAppend
  <1>10. BytesOf(r) \in Seq(Bytes) /\ Len(BytesOf(r)) = k BY <1>1, BytesOfType
  <1>11. Covered' = Covered + k BY <1>5, <1>9, <1>10, ConcatProperties DEF Covered
  <1>12. Written[sent'] = SubSeq(V, asked.off + 1, a + k)
    <2>1. Written[sent] = SubSeq(V, asked.off + 1, a) BY Facts DEF RangeInv, V, a
    <2>2. asked.off + 1 \in 1 .. Len(V) + 1 /\ a \in (asked.off + 1) - 1 .. Len(V)
          /\ a + k \in a .. Len(V)
      <3> DEFINE o == asked.off
                 z == Len(V)
      <3>1. o \in Nat /\ z \in Nat /\ a >= o BY <1>0, <1>4, <1>5 DEF a
      <3>2. a + k <= z BY <1>8
      <3>3. a \in Nat /\ k \in Nat BY <1>2, <1>7
      <3> HIDE DEF o, z
      <3>4. o + 1 \in 1 .. z + 1 /\ a \in (o + 1) - 1 .. z /\ a + k \in a .. z
        BY <3>1, <3>2, <3>3
      <3> QED BY <3>4 DEF o, z
    <2>3. SubSeq(V, asked.off + 1, a) \o SubSeq(V, a + 1, a + k) = SubSeq(V, asked.off + 1, a + k)
      <3> DEFINE m == asked.off + 1
                 t == a + k
      <3>1. m \in 1 .. Len(V) + 1 /\ a \in m - 1 .. Len(V) /\ t \in a .. Len(V) BY <2>2
      <3> HIDE DEF m, t
      <3>2. SubSeq(V, m, a) \o SubSeq(V, a + 1, t) = SubSeq(V, m, t)
        BY <1>4, <3>1, ConcatAdjacentSubSeq
      <3> QED BY <3>2 DEF m, t
    <2> QED BY <2>1, <2>3, <1>8, <1>9
  <1>13. asked.off + Covered' = a + k BY <1>0, <1>2, <1>5, <1>11 DEF a
  <1>14. n' = asked.n - Covered' /\ (asked.n > 0 => n' >= 0)
    <2>1. n = asked.n - Covered /\ (asked.n > 0 => n >= 0) /\ n # 0
      BY <1>3, Facts DEF RangeInv
    <2>2. n' = n - k BY <1>1, <1>3
    <2> DEFINE t == asked.n
               v == Covered
    <2>3. t \in Int /\ v \in Nat /\ k \in Nat /\ n \in Int /\ n = t - v /\ n # 0
          /\ (t > 0 => n >= 0) /\ (n > 0 => k <= n)
      BY <2>1, <1>0, <1>2, <1>5
    <2> HIDE DEF t, v
    <2>4. n - k = t - (v + k) /\ (t > 0 => n - k >= 0) BY <2>3
    <2> QED BY <2>2, <2>4, <1>11 DEF t, v
  <1>15. n' # 0 => a + k = Start(lens, next + 1) BY <1>0, <1>1, <1>2, <1>3, <1>6
  <1>16. n' = 0 => asked.n > 0 /\ Covered' = asked.n
    <2>1. n' \in Int /\ Covered' \in Nat /\ Covered' >= 1 BY <1>0, <1>1, <1>2, <1>3, <1>5, <1>11
    <2> QED BY <2>1, <1>14, <1>0
  <1>17. result = "running" BY <1>3, Facts DEF PhaseInv
  <1>18. lens' = lens /\ asked' = asked /\ result' = "running" /\ next' = next + 1 BY <1>3, <1>17
  <1>19. loop' = "request" => n' # 0 BY <1>3
  <1>20. loop' = "wait" => n' = 0 BY <1>3
  <1>21. V' = V BY <1>18 DEF V
  <1>22. /\ asked'.off + Covered' <= Len(V')
         /\ Written[sent'] = SubSeq(V', asked'.off + 1, asked'.off + Covered')
         /\ n' = asked'.n - Covered'
         /\ (asked'.n > 0 => n' >= 0)
         /\ (n' # 0 => asked'.off + Covered' = Start(lens', next'))
         /\ (loop' = "request" => n' # 0)
    BY <1>8, <1>12, <1>13, <1>14, <1>15, <1>18, <1>19, <1>21
  <1>23. loop' = "wait" \/ result' = "ok" =>
           IF asked'.n < 0 THEN asked'.off + Covered' = Len(V') ELSE Covered' = asked'.n
    BY <1>16, <1>18, <1>20, <1>0
  <1> QED BY <1>22, <1>23 DEF RangeInv, V

LEMMA SendStep == ASSUME IInv, SendRequest PROVE IInv'
  <1> USE PAssumption
  <1> DEFINE r == RequestFor(lens, next, off, n)
  <1>0. /\ next \in Nat /\ next < Len(lens) /\ off \in Nat /\ n \in Int
        /\ lens \in ChunkLens /\ Skipped \in Nat /\ Len(sent) \in Nat
    BY Facts DEF SendRequest, TypeOK
  <1>1. r \in Requests /\ r.index = next BY <1>0, RequestType
  <1> HIDE DEF r
  <1>2. /\ sent' = Append(sent, r) /\ inflight' = inflight \cup {r}
        /\ off' = 0 /\ n' = n - r.len /\ next' = next + 1
        /\ loop = "request" /\ loop' \in {"wait", "request"}
        /\ UNCHANGED <<lens, asked, chunks, pos, out, flushing, result>>
        /\ ~flushing
    BY DEF SendRequest, Requesting, input, r
  <1>3. /\ Len(sent') = Len(sent) + 1
        /\ \A i \in 1 .. Len(sent) : sent'[i] = sent[i]
        /\ sent'[Len(sent) + 1] = r
        /\ sent' \in Seq(Requests)
    BY <1>1, <1>2, Facts DEF TypeOK
  <1>4. TypeOK'
    <2>1. n' \in Int BY <1>1, <1>2, <1>0 DEF Requests
    <2> QED BY <1>0, <1>1, <1>2, <1>3, <2>1, Facts DEF TypeOK
  <1>5. Skipped' = Skipped BY <1>2 DEF Skipped
  <1>6. InputInv' BY <1>2, <1>5, Facts DEF InputInv
  <1>7. next = Skipped + Len(sent)
    <2>1. CASE sent = << >>
      <3>1. next = Skipped BY <2>1, SendFirst
      <3> QED BY <2>1, <3>1, <1>0
    <2>2. CASE sent # << >> BY <2>2, Facts DEF CursorInv
    <2> QED BY <2>1, <2>2
  <1>9. CursorInv'
    <2>1. ASSUME NEW i \in 1 .. Len(sent')
          PROVE  sent'[i].index = Skipped + i - 1
      <3>1. CASE i = Len(sent) + 1 BY <3>1, <1>0, <1>1, <1>3, <1>7
      <3>2. CASE i \in 1 .. Len(sent) BY <3>2, <1>3, Facts DEF CursorInv
      <3> QED BY <3>1, <3>2, <1>0, <1>3
    <2>2. sent' # << >> BY <1>3, <1>0, EmptySeq
    <2>3. next' = Skipped + Len(sent') BY <1>0, <1>2, <1>3, <1>7
    <2> QED BY <1>2, <1>5, <2>1, <2>2, <2>3 DEF CursorInv
  <1>10. RangeInv'
    <2>1. CASE Clean BY <2>1, SendRange
    <2>2. CASE ~Clean BY <2>2, <1>2 DEF RangeInv, Clean
    <2> QED BY <2>1, <2>2
  <1>11. Requested' = Requested \cup {r} /\ r \notin Requested
    <2>1. Requested' = Requested \cup {r}
      <3>1. 1 .. Len(sent') = 1 .. Len(sent) \cup {Len(sent) + 1} BY <1>0, <1>3
      <3> QED BY <1>3, <3>1 DEF Requested
    <2>2. ASSUME NEW i \in 1 .. Len(sent) PROVE sent[i] # r
      <3>1. sent[i].index = Skipped + i - 1 BY Facts DEF CursorInv
      <3> QED BY <3>1, <1>0, <1>1, <1>7
    <2> QED BY <2>1, <2>2 DEF Requested
  <1>12. InflightInv' BY <1>2, <1>11, Facts DEF InflightInv
  <1>13. SlotInv'
    <2>1. ASSUME NEW s \in Slots, NEW q \in chunks[s]
          PROVE  q \in Requested' /\ q \notin inflight' /\ SlotOf(q) = s /\ chunks[s] = {q}
      <3>1. q \in Requested /\ q \notin inflight /\ SlotOf(q) = s /\ chunks[s] = {q}
        BY Facts DEF SlotInv
      <3> QED BY <3>1, <1>2, <1>11
    <2> QED BY <2>1, <1>2 DEF SlotInv, SlotOf
  <1>14. OutputInv'
    <2>1. ASSUME NEW i \in 1 .. Len(out)
          PROVE  out[i] \in Requested' /\ out[i] \notin inflight'
      <3>1. out[i] \in Requested /\ out[i] \notin inflight BY Facts DEF OutputInv
      <3> QED BY <3>1, <1>2, <1>11
    <2> QED BY <2>1, <1>2, Facts DEF OutputInv, SlotOf
  <1>15. PendingInv'
    <2>1. \A q \in Requested : Accounted(q) BY <1>2, Facts DEF PendingInv
    <2>2. \A q \in Requested' : Accounted(q)' BY <2>1, <1>2, <1>11 DEF Accounted, SlotOf
    <2>3. chunks[pos % P] = {} BY <1>2, Facts DEF PendingInv
    <2> QED BY <2>2, <2>3, <1>2 DEF PendingInv
  <1>16. PhaseInv' BY <1>2, Facts DEF PhaseInv
  <1> QED BY <1>4, <1>6, <1>9, <1>10, <1>12, <1>13, <1>14, <1>15, <1>16 DEF IInv

(* The loop runs out of chunks only when the range is covered: its last    *)
(* chunk ends the value, and no range goes past that.                      *)
LEMMA EndRange ==
  ASSUME IInv, EndRequests, Clean
  PROVE  asked.n < 0 /\ asked.off + Covered = Len(Value(lens))
  <1> DEFINE z == Len(Value(lens))
             o == asked.off
             t == asked.n
             v == Covered
  <1>1. /\ next = Len(lens) /\ lens \in ChunkLens /\ n # 0
        /\ off \in Nat /\ sent \in Seq(Requests)
        /\ asked.off \in Nat /\ asked.n \in Int
    BY Facts DEF EndRequests, Requesting, TypeOK, RangeInv
  <1>2. Start(lens, next) = z /\ z \in Nat BY <1>1, LensType, StartStep, ValueType
  <1>3. o < z /\ o + t <= z /\ t # 0 BY Facts DEF InputInv, WithinValue
  <1>4. v \in Nat BY <1>1, WrittenType, LenProperties DEF Covered
  <1>5. o \in Nat /\ t \in Int BY <1>1
  <1>6. sent # << >>
    <2>1. sent = << >> => off + z = o BY <1>2, Facts DEF CursorInv
    <2> HIDE DEF z, o
    <2> QED BY <2>1, <1>1, <1>2, <1>3, <1>5
  <1>7. o + v = z /\ n = t - v /\ (t > 0 => n >= 0) BY <1>1, <1>2, <1>6, Facts DEF RangeInv
  <1>8. t < 0 /\ o + v = z
    <2> HIDE DEF z, o, t, v
    <2> QED BY <1>1, <1>2, <1>3, <1>4, <1>5, <1>7
  <1> QED BY <1>8

LEMMA EndRequestsStep == ASSUME IInv, EndRequests PROVE IInv'
  <1>1. /\ loop = "request" /\ loop' = "wait"
        /\ UNCHANGED <<lens, asked, next, off, n, sent, inflight, chunks, pos,
                       out, flushing, result>>
    BY DEF EndRequests, Requesting, input, cursor
  <1>2. TypeOK' BY <1>1, Facts DEF TypeOK
  <1>3. /\ Skipped' = Skipped /\ Covered' = Covered /\ Requested' = Requested
        /\ Clean' = Clean
    BY <1>1 DEF Skipped, Covered, Requested, Clean
  <1>4. InputInv' /\ CursorInv' BY <1>1, <1>3, Facts DEF InputInv, CursorInv
  <1>5. RangeInv'
    <2>1. CASE Clean
      <3>1. asked.n < 0 /\ asked.off + Covered = Len(Value(lens)) BY <2>1, EndRange
      <3> QED BY <1>1, <1>3, <3>1, Facts DEF RangeInv
    <2>2. CASE ~Clean BY <2>2, <1>3 DEF RangeInv
    <2> QED BY <2>1, <2>2
  <1>6. InflightInv' /\ SlotInv' /\ OutputInv' BY <1>1, <1>3, Still
  <1>7. PendingInv' /\ PhaseInv' BY <1>1, <1>3, Facts DEF PendingInv, PhaseInv, Accounted
  <1> QED BY <1>2, <1>4, <1>5, <1>6, <1>7 DEF IInv

LEMMA LookupErrorStep == ASSUME IInv, LookupError PROVE IInv'
  <1>1. /\ loop' = "drain" /\ result' = "error" /\ ~flushing
        /\ UNCHANGED <<lens, asked, next, off, n, sent, inflight, chunks, pos, out,
                       flushing>>
    BY DEF LookupError, Requesting, Abort, input, cursor
  <1>2. TypeOK' BY <1>1, Facts DEF TypeOK
  <1>3. InputInv' /\ CursorInv' /\ RangeInv' /\ Requested' = Requested BY <1>1, Carry
  <1>4. InflightInv' /\ SlotInv' /\ OutputInv' BY <1>1, <1>3, Still
  <1>5. PendingInv' /\ PhaseInv' BY <1>1 DEF PendingInv, PhaseInv
  <1> QED BY <1>2, <1>3, <1>4, <1>5 DEF IInv

(* A request that leaves the flight disturbs no other. *)
LEMMA Landed ==
  ASSUME IInv, NEW r \in inflight, inflight' = inflight \ {r}, UNCHANGED <<chunks, pos, out>>,
         Requested' = Requested
  PROVE  InflightInv' /\ SlotInv' /\ OutputInv'
  <1>1. InflightInv' BY Facts DEF InflightInv
  <1>2. SlotInv' BY Facts DEF SlotInv, SlotOf
  <1>3. OutputInv' BY Facts DEF OutputInv, SlotOf
  <1> QED BY <1>1, <1>2, <1>3

LEMMA ConsumeErrorStep == ASSUME IInv, ConsumeError PROVE IInv'
  <1>1. PICK r \in inflight : inflight' = inflight \ {r}
    BY DEF ConsumeError
  <1>2. /\ loop' = "drain" /\ result' = "error" /\ ~flushing
        /\ UNCHANGED <<lens, asked, next, off, n, sent, chunks, pos, out, flushing>>
    BY DEF ConsumeError, Consuming, Abort, input, cursor
  <1>3. TypeOK' BY <1>1, <1>2, Facts DEF TypeOK
  <1>4. InputInv' /\ CursorInv' /\ RangeInv' /\ Requested' = Requested BY <1>2, Carry
  <1>5. InflightInv' /\ SlotInv' /\ OutputInv' BY <1>1, <1>2, <1>4, Landed
  <1>6. PendingInv' /\ PhaseInv' BY <1>2 DEF PendingInv, PhaseInv
  <1> QED BY <1>3, <1>4, <1>5, <1>6 DEF IInv

LEMMA ConsumeChunkStep == ASSUME IInv, ConsumeChunk PROVE IInv'
  <1> USE PAssumption
  <1>1. PICK r \in inflight :
          /\ inflight' = inflight \ {r}
          /\ IF chunks[SlotOf(r)] # {}
             THEN loop' = "panic" /\ UNCHANGED <<chunks, flushing>>
             ELSE /\ chunks' = [chunks EXCEPT ![SlotOf(r)] = {r}]
                  /\ flushing' = TRUE
                  /\ UNCHANGED loop
    BY DEF ConsumeChunk
  <1>2. /\ ~flushing /\ loop \in {"request", "wait", "drain"}
        /\ UNCHANGED <<lens, asked, next, off, n, sent, pos, out, result>>
    BY DEF ConsumeChunk, Consuming, input, cursor
  <1>3. r \in Requested /\ r \in Requests /\ SlotOf(r) \in Slots
    BY Facts, Ranks DEF InflightInv
  <1>4. result # "ok" BY <1>2, Facts DEF PhaseInv
  <1>5. CASE chunks[SlotOf(r)] # {}
    <2>1. loop' = "panic" /\ UNCHANGED <<chunks, flushing>> BY <1>1, <1>5
    <2>2. TypeOK' BY <1>1, <1>2, <2>1, Facts DEF TypeOK
    <2>3. InputInv' /\ CursorInv' /\ RangeInv' /\ Requested' = Requested
      BY <1>2, <1>4, <2>1, Carry
    <2>4. InflightInv' /\ SlotInv' /\ OutputInv' BY <1>1, <1>2, <2>1, <2>3, Landed
    <2>5. PendingInv' /\ PhaseInv' BY <1>2, <1>4, <2>1 DEF PendingInv, PhaseInv
    <2> QED BY <2>2, <2>3, <2>4, <2>5 DEF IInv
  <1>6. CASE chunks[SlotOf(r)] = {}
    <2>1. chunks' = [chunks EXCEPT ![SlotOf(r)] = {r}] /\ flushing' = TRUE /\ loop' = loop
      BY <1>1, <1>6
    <2>2. chunks \in [Slots -> SUBSET Requests] BY Facts DEF TypeOK
    <2>3. /\ chunks'[SlotOf(r)] = {r}
          /\ \A s \in Slots : s # SlotOf(r) => chunks'[s] = chunks[s]
      BY <2>1, <2>2, <1>3
    <2>4. TypeOK'
      <3>1. chunks' \in [Slots -> SUBSET Requests] BY <2>1, <2>2, <1>3
      <3> QED BY <3>1, <1>1, <1>2, <2>1, Facts DEF TypeOK
    <2>5. InputInv' /\ CursorInv' /\ RangeInv' /\ Requested' = Requested
      BY <1>2, <2>1, Carry
    <2>6. InflightInv' BY <1>1, <2>5, Facts DEF InflightInv
    <2>7. SlotInv'
      <3>1. ASSUME NEW s \in Slots, NEW q \in chunks'[s]
            PROVE  q \in Requested /\ q \notin inflight' /\ SlotOf(q) = s /\ chunks'[s] = {q}
        <4>1. CASE s = SlotOf(r) BY <4>1, <2>3, <1>1, <1>3
        <4>2. CASE s # SlotOf(r)
          <5>1. q \in chunks[s] /\ chunks'[s] = chunks[s] BY <4>2, <2>3
          <5> QED BY <5>1, <1>1, Facts DEF SlotInv
        <4> QED BY <4>1, <4>2
      <3> QED BY <3>1, <2>5 DEF SlotInv, SlotOf
    <2>8. OutputInv'
      <3>1. ASSUME NEW i \in 1 .. Len(out)
            PROVE  /\ out[i] \in Requested /\ out[i] \notin inflight'
                   /\ \A s \in Slots : out[i] \notin chunks'[s]
        <4>1. /\ out[i] \in Requested /\ out[i] \notin inflight
              /\ \A s \in Slots : out[i] \notin chunks[s]
          BY Facts DEF OutputInv
        <4> QED BY <4>1, <1>1, <1>3, <2>3
      <3> QED BY <3>1, <1>2, <2>5, Facts DEF OutputInv, SlotOf
    <2>9. PendingInv'
      <3>1. ASSUME loop \in {"request", "wait"}, NEW q \in Requested PROVE Accounted(q)'
        <4>1. Accounted(q) /\ SlotOf(q) \in Slots BY <3>1, Facts, Ranks DEF PendingInv
        <4>2. CASE q = r BY <4>2, <2>3 DEF Accounted, SlotOf
        <4>3. CASE q # r /\ q \in inflight BY <4>3, <1>1 DEF Accounted
        <4>4. CASE q \in chunks[SlotOf(q)]
          <5>1. SlotOf(q) # SlotOf(r) BY <4>4, <1>6
          <5>2. q \in chunks'[SlotOf(q)] BY <4>1, <4>4, <5>1, <2>3
          <5> QED BY <5>2 DEF Accounted, SlotOf
        <4>5. CASE \E j \in 1 .. Len(out) : out[j] = q BY <4>5, <1>2 DEF Accounted
        <4> QED BY <4>1, <4>2, <4>3, <4>4, <4>5 DEF Accounted
      <3> QED BY <3>1, <1>2, <1>4, <2>1, <2>5 DEF PendingInv
    <2>10. PhaseInv' BY <1>2, <1>4, <2>1, Facts DEF PhaseInv
    <2> QED BY <2>4, <2>5, <2>6, <2>7, <2>8, <2>9, <2>10 DEF IInv
  <1> QED BY <1>5, <1>6

LEMMA FlushStep == ASSUME IInv, FlushChunk PROVE IInv'
  <1> USE PAssumption
  <1>1. PICK r \in chunks[pos % P] : out' = Append(out, r)
    BY DEF FlushChunk
  <1>2. /\ flushing /\ chunks' = [chunks EXCEPT ![pos % P] = {}] /\ pos' = pos + 1
        /\ UNCHANGED <<lens, asked, next, off, n, sent, inflight, loop, flushing, result>>
    BY DEF FlushChunk, input, cursor
  <1>3. pos \in Nat /\ pos % P \in Slots /\ pos = Len(out) BY Facts DEF OutputInv
  <1>4. /\ r \in Requested /\ r \notin inflight /\ SlotOf(r) = pos % P
        /\ chunks[pos % P] = {r} /\ r \in Requests
    BY <1>1, <1>3, Facts, Ranks DEF SlotInv
  <1>5. /\ Len(out') = Len(out) + 1 /\ out' \in Seq(Requests)
        /\ \A i \in 1 .. Len(out) : out'[i] = out[i]
        /\ out'[Len(out) + 1] = r
    BY <1>1, <1>4, Facts DEF TypeOK
  <1>6. chunks \in [Slots -> SUBSET Requests] BY Facts DEF TypeOK
  <1>7. /\ chunks'[pos % P] = {} /\ chunks' \in [Slots -> SUBSET Requests]
        /\ \A s \in Slots : s # pos % P => chunks'[s] = chunks[s]
    BY <1>2, <1>3, <1>6
  <1>8. TypeOK' BY <1>2, <1>3, <1>5, <1>7, Facts DEF TypeOK
  <1>9. InputInv' /\ CursorInv' /\ RangeInv' /\ Requested' = Requested BY <1>2, Carry
  <1>10. InflightInv' BY <1>2, <1>9, Facts DEF InflightInv
  <1>11. SlotInv'
    <2>1. ASSUME NEW s \in Slots, NEW q \in chunks'[s]
          PROVE  q \in Requested /\ q \notin inflight /\ SlotOf(q) = s /\ chunks'[s] = {q}
      <3>1. s # pos % P /\ chunks'[s] = chunks[s] BY <1>7
      <3> QED BY <3>1, Facts DEF SlotInv
    <2> QED BY <2>1, <1>2, <1>9 DEF SlotInv, SlotOf
  <1>12. OutputInv'
    <2>1. ASSUME NEW i \in 1 .. Len(out)
          PROVE  /\ out[i] \in Requested /\ out[i] \notin inflight
                 /\ SlotOf(out[i]) = (i - 1) % P
                 /\ \A s \in Slots : out[i] \notin chunks[s]
                 /\ \A j \in 1 .. Len(out) : out[i] = out[j] => i = j
      BY Facts DEF OutputInv
    <2>2. ASSUME NEW i \in 1 .. Len(out) PROVE out[i] # r BY <2>1, <1>1, <1>3
    <2>3. ASSUME NEW i \in 1 .. Len(out')
          PROVE  /\ out'[i] \in Requested /\ out'[i] \notin inflight
                 /\ SlotOf(out'[i]) = (i - 1) % P
                 /\ \A s \in Slots : out'[i] \notin chunks'[s]
      <3>1. CASE i = Len(out) + 1
        <4>1. out'[i] = r /\ i - 1 = pos BY <3>1, <1>3, <1>5
        <4>2. \A s \in Slots : r \notin chunks'[s]
          <5> TAKE s \in Slots
          <5>1. CASE s = pos % P BY <5>1, <1>7
          <5>2. CASE s # pos % P
            <6>1. r \in chunks[s] => SlotOf(r) = s BY Facts DEF SlotInv
            <6> QED BY <5>2, <6>1, <1>4, <1>7
          <5> QED BY <5>1, <5>2
        <4> QED BY <4>1, <4>2, <1>4
      <3>2. CASE i \in 1 .. Len(out)
        <4>1. out'[i] = out[i] BY <3>2, <1>5
        <4>2. \A s \in Slots : chunks'[s] \subseteq chunks[s] BY <1>7
        <4> QED BY <4>1, <4>2, <3>2, <2>1
      <3> QED BY <3>1, <3>2, <1>5, Facts
    <2>4. ASSUME NEW i \in 1 .. Len(out'), NEW j \in 1 .. Len(out'), out'[i] = out'[j]
          PROVE  i = j
      <3>1. CASE i \in 1 .. Len(out) /\ j \in 1 .. Len(out)
        <4>1. out[i] = out[j] BY <3>1, <2>4, <1>5
        <4> QED BY <3>1, <4>1, <2>1
      <3>2. CASE i = Len(out) + 1 /\ j \in 1 .. Len(out) BY <3>2, <2>4, <2>2, <1>5
      <3>3. CASE j = Len(out) + 1 /\ i \in 1 .. Len(out) BY <3>3, <2>4, <2>2, <1>5
      <3>4. \/ i \in 1 .. Len(out) /\ j \in 1 .. Len(out)
            \/ i = Len(out) + 1 /\ j \in 1 .. Len(out)
            \/ j = Len(out) + 1 /\ i \in 1 .. Len(out)
            \/ i = Len(out) + 1 /\ j = Len(out) + 1
        BY <1>5, Facts
      <3> QED BY <3>1, <3>2, <3>3, <3>4
    <2>5. pos' = Len(out') BY <1>2, <1>3, <1>5
    <2> QED BY <2>3, <2>4, <2>5, <1>2, <1>9 DEF OutputInv, SlotOf
  <1>13. PendingInv'
    <2>0. result # "ok" BY <1>2, Facts DEF PhaseInv
    <2>1. ASSUME loop \in {"request", "wait"}, NEW q \in Requested PROVE Accounted(q)'
      <3>1. Accounted(q) /\ SlotOf(q) \in Slots BY <2>1, Facts, Ranks DEF PendingInv
      <3>2. CASE q \in inflight BY <3>2, <1>2 DEF Accounted
      <3>3. CASE q \in chunks[SlotOf(q)]
        <4>1. CASE SlotOf(q) = pos % P
          <5>1. q = r BY <3>3, <4>1, <1>4
          <5>2. Len(out) + 1 \in 1 .. Len(out') BY <1>5, Facts
          <5> QED BY <5>1, <5>2, <1>5 DEF Accounted
        <4>2. CASE SlotOf(q) # pos % P
          <5>1. q \in chunks'[SlotOf(q)] BY <3>1, <3>3, <4>2, <1>7
          <5> QED BY <5>1 DEF Accounted, SlotOf
        <4> QED BY <4>1, <4>2
      <3>4. CASE \E j \in 1 .. Len(out) : out[j] = q
        <4>1. PICK j \in 1 .. Len(out) : out[j] = q BY <3>4
        <4>2. j \in 1 .. Len(out') /\ out'[j] = q BY <4>1, <1>5, Facts
        <4> QED BY <4>2 DEF Accounted
      <3> QED BY <3>1, <3>2, <3>3, <3>4 DEF Accounted
    <2> QED BY <2>0, <2>1, <1>2, <1>9 DEF PendingInv
  <1>14. PhaseInv' BY <1>2, Facts DEF PhaseInv
  <1> QED BY <1>8, <1>9, <1>10, <1>11, <1>12, <1>13, <1>14 DEF IInv

LEMMA WriteErrorStep == ASSUME IInv, WriteError PROVE IInv'
  <1>1. /\ loop' = "drain" /\ result' = "error" /\ flushing' = FALSE
        /\ UNCHANGED <<lens, asked, next, off, n, sent, inflight, chunks, pos, out>>
    BY DEF WriteError, Abort, input, cursor
  <1>2. TypeOK' BY <1>1, Facts DEF TypeOK
  <1>3. InputInv' /\ CursorInv' /\ RangeInv' /\ Requested' = Requested BY <1>1, Carry
  <1>4. InflightInv' /\ SlotInv' /\ OutputInv' BY <1>1, <1>3, Still
  <1>5. PendingInv' /\ PhaseInv' BY <1>1 DEF PendingInv, PhaseInv
  <1> QED BY <1>2, <1>3, <1>4, <1>5 DEF IInv

LEMMA EndFlushStep == ASSUME IInv, EndFlush PROVE IInv'
  <1>1. /\ chunks[pos % P] = {} /\ flushing' = FALSE
        /\ UNCHANGED <<lens, asked, next, off, n, sent, inflight, chunks, pos, out,
                       loop, result>>
    BY DEF EndFlush, input, cursor
  <1>2. TypeOK' BY <1>1, Facts DEF TypeOK
  <1>3. InputInv' /\ CursorInv' /\ RangeInv' /\ Requested' = Requested BY <1>1, Carry
  <1>4. InflightInv' /\ SlotInv' /\ OutputInv' BY <1>1, <1>3, Still
  <1>5. PendingInv' /\ PhaseInv' BY <1>1, <1>3, Facts DEF PendingInv, PhaseInv, Accounted
  <1> QED BY <1>2, <1>3, <1>4, <1>5 DEF IInv

LEMMA ReturnStep == ASSUME IInv, Return PROVE IInv'
  <1>1. /\ loop \in {"wait", "drain"} /\ ~flushing /\ inflight = {} /\ loop' = "done"
        /\ result' = IF loop = "wait" THEN "ok" ELSE result
        /\ UNCHANGED <<lens, asked, next, off, n, sent, inflight, chunks, pos, out,
                       flushing>>
    BY DEF Return, input, cursor
  <1>2. loop = "drain" => result # "ok" BY Facts DEF PhaseInv
  <1>3. TypeOK' BY <1>1, Facts DEF TypeOK
  <1>4. InputInv' /\ CursorInv' /\ RangeInv' /\ Requested' = Requested
    BY <1>1, <1>2, Carry
  <1>5. InflightInv' /\ SlotInv' /\ OutputInv' BY <1>1, <1>4, Still
  <1>6. PendingInv' BY <1>1, <1>2, <1>4, Facts DEF PendingInv, Accounted
  <1>7. PhaseInv' BY <1>1, <1>2 DEF PhaseInv
  <1> QED BY <1>3, <1>4, <1>5, <1>6, <1>7 DEF IInv

-----------------------------------------------------------------------------
LEMMA Invariant == Spec => []IInv
  <1>1. Init => IInv BY InitInv
  <1>2. IInv /\ [Next]_vars => IInv'
    <2> SUFFICES ASSUME IInv, [Next]_vars PROVE IInv' OBVIOUS
    <2>1. CASE SkipChunk BY <2>1, SkipStep
    <2>2. CASE SendRequest BY <2>2, SendStep
    <2>3. CASE EndRequests BY <2>3, EndRequestsStep
    <2>4. CASE LookupError BY <2>4, LookupErrorStep
    <2>5. CASE ConsumeError BY <2>5, ConsumeErrorStep
    <2>6. CASE ConsumeChunk BY <2>6, ConsumeChunkStep
    <2>7. CASE FlushChunk BY <2>7, FlushStep
    <2>8. CASE WriteError BY <2>8, WriteErrorStep
    <2>9. CASE EndFlush BY <2>9, EndFlushStep
    <2>10. CASE Return BY <2>10, ReturnStep
    <2>11. CASE UNCHANGED vars
      <3>1. UNCHANGED <<lens, asked, next, off, n, sent, inflight, chunks, pos, out, loop,
                        flushing, result>>
        BY <2>11 DEF vars
      <3>2. InputInv' /\ CursorInv' /\ RangeInv' /\ Requested' = Requested BY <3>1, Carry
      <3>3. InflightInv' /\ SlotInv' /\ OutputInv' BY <3>1, <3>2, Still
      <3>4. TypeOK' BY <3>1, Facts DEF TypeOK
      <3>5. PendingInv' /\ PhaseInv' BY <3>1, <3>2, Facts DEF PendingInv, PhaseInv, Accounted
      <3> QED BY <3>2, <3>3, <3>4, <3>5 DEF IInv
    <2> QED BY <2>1, <2>2, <2>3, <2>4, <2>5, <2>6, <2>7, <2>8, <2>9, <2>10, <2>11 DEF Next
  <1> QED BY <1>1, <1>2, PTL DEF Spec

-----------------------------------------------------------------------------
(* Counting the chunks: a chunk that is written is known by its rank among *)
(* the requests, and no two places of the output have the same.            *)
RankAt(i) == CHOOSE k \in 1 .. Len(sent) : sent[k] = out[i]

LEMMA RankAtType ==
  ASSUME IInv, NEW i \in 1 .. Len(out)
  PROVE  RankAt(i) \in 1 .. Len(sent) /\ sent[RankAt(i)] = out[i]
  <1>1. \E k \in 1 .. Len(sent) : sent[k] = out[i] BY Facts DEF OutputInv, Requested
  <1> QED BY <1>1 DEF RankAt

LEMMA RankAtInjective ==
  ASSUME IInv, NEW i \in 1 .. Len(out), NEW j \in 1 .. Len(out), RankAt(i) = RankAt(j)
  PROVE  i = j
  <1>1. out[i] = out[j] BY RankAtType
  <1> QED BY <1>1, Facts DEF OutputInv

LEMMA Span == ASSUME NEW k \in Nat PROVE IsFiniteSet(1 .. k) /\ Cardinality(1 .. k) = k
  <1>1. IsFiniteSet(1 .. k) /\ Cardinality(1 .. k) = IF 1 > k THEN 0 ELSE k - 1 + 1
    BY FS_Interval
  <1> QED BY <1>1

LEMMA NoMoreThanSent == ASSUME IInv PROVE Len(out) <= Len(sent)
  <1>0. Len(out) \in Nat /\ Len(sent) \in Nat BY Facts
  <1> SUFFICES ASSUME Len(sent) < Len(out) PROVE FALSE BY <1>0
  <1> DEFINE S == 1 .. Len(out)
             T == 1 .. Len(sent)
             f == [i \in S |-> RankAt(i)]
  <1>1. /\ IsFiniteSet(S) /\ IsFiniteSet(T)
        /\ Cardinality(S) = Len(out) /\ Cardinality(T) = Len(sent)
    BY <1>0, Span
  <1>2. f \in [S -> T] BY RankAtType
  <1>3. \A i, j \in S : f[i] = f[j] => i = j BY RankAtInjective
  <1> HIDE DEF S, T, f
  <1>4. Cardinality(T) < Cardinality(S) BY <1>1
  <1>5. \E i, j \in S : i # j /\ f[i] = f[j] BY <1>1, <1>2, <1>4, FS_PigeonHole
  <1> QED BY <1>3, <1>5

(* Every chunk of the slot that is flushed next has been written: had      *)
(* fewer chunks been written than requested, that slot would have more     *)
(* chunks than places in the output.                                       *)
LEMMA AllWritten ==
  ASSUME IInv, BeginsInPlace, result = "ok"
  PROVE  Len(out) = Len(sent)
  <1> USE PAssumption
  <1>0. Len(out) \in Nat /\ Len(sent) \in Nat /\ Skipped \in Nat /\ Skipped % P = 0
    BY Facts DEF BeginsInPlace
  <1>00. Len(out) <= Len(sent) BY NoMoreThanSent
  <1> SUFFICES ASSUME Len(out) < Len(sent) PROVE FALSE BY <1>0, <1>00
  <1> DEFINE p == Len(out)
             c == p % P
             A == {k \in 1 .. Len(sent) : (k - 1) % P = c}
             B == {k \in 1 .. p : (k - 1) % P = c}
             At(k) == CHOOSE j \in 1 .. p : out[j] = sent[k]
             f == [k \in A |-> At(k)]
  <1>1. inflight = {} /\ chunks[c] = {} /\ \A r \in Requested : Accounted(r)
    BY Facts DEF PendingInv, PhaseInv, OutputInv
  <1>2. ASSUME NEW k \in A PROVE At(k) \in B /\ out[At(k)] = sent[k]
    <2>1. k \in 1 .. Len(sent) /\ k - 1 \in Nat /\ (k - 1) % P = c BY <1>0
    <2>2. SlotOf(sent[k]) = c
      <3>1. SlotOf(sent[k]) = (Skipped + (k - 1)) % P BY <2>1, Ranks
      <3>2. (Skipped + (k - 1)) % P = (k - 1) % P
        <4> DEFINE d == k - 1
        <4>1. d \in Nat BY <2>1
        <4> HIDE DEF d
        <4>2. (Skipped + d) % P = d % P BY <4>1, <1>0, SlotShift
        <4> QED BY <4>2 DEF d
      <3> QED BY <3>1, <3>2, <2>1
    <2>3. sent[k] \in Requested BY <2>1 DEF Requested
    <2>4. \E j \in 1 .. p : out[j] = sent[k] BY <1>1, <2>2, <2>3 DEF Accounted
    <2>5. At(k) \in 1 .. p /\ out[At(k)] = sent[k] BY <2>4
    <2> HIDE DEF At
    <2>6. SlotOf(out[At(k)]) = (At(k) - 1) % P BY <2>5, Facts DEF OutputInv
    <2> QED BY <2>2, <2>5, <2>6
  <1> HIDE DEF At
  <1>3. f \in [A -> B] BY <1>2
  <1>4. ASSUME NEW i \in A, NEW j \in A, f[i] = f[j] PROVE i = j
    <2>1. sent[i] = sent[j] BY <1>2, <1>4
    <2> QED BY <2>1, Ranks
  <1>5. IsFiniteSet(A) /\ IsFiniteSet(B)
    <2>1. IsFiniteSet(1 .. Len(sent)) /\ IsFiniteSet(1 .. p) BY <1>0, FS_Interval
    <2> QED BY <2>1, FS_Subset
  <1>6. B \subseteq A /\ p + 1 \in A /\ p + 1 \notin B
    <2>1. 1 .. p \subseteq 1 .. Len(sent) BY <1>0, <1>00
    <2>2. p + 1 \in 1 .. Len(sent) /\ (p + 1) - 1 = p /\ p + 1 \notin 1 .. p BY <1>0
    <2> HIDE DEF p
    <2> QED BY <2>1, <2>2
  <1> HIDE DEF A, B, f, c
  <1>7. Cardinality(B) < Cardinality(A)
    <2>1. A # B BY <1>6
    <2>2. Cardinality(B) <= Cardinality(A) /\ (Cardinality(A) = Cardinality(B) => A = B)
      BY <1>5, <1>6, FS_Subset
    <2>3. Cardinality(A) \in Nat /\ Cardinality(B) \in Nat BY <1>5, FS_CardinalityType
    <2> QED BY <2>1, <2>2, <2>3
  <1>8. \E i, j \in A : i # j /\ f[i] = f[j] BY <1>3, <1>5, <1>7, FS_PigeonHole
  <1> QED BY <1>4, <1>8

LEMMA EachWritten ==
  ASSUME IInv, Len(out) = Len(sent), NEW k \in 1 .. Len(sent)
  PROVE  \E j \in 1 .. Len(out) : out[j] = sent[k]
  <1>0. Len(out) \in Nat BY Facts
  <1> SUFFICES ASSUME \A j \in 1 .. Len(out) : out[j] # sent[k] PROVE FALSE OBVIOUS
  <1> DEFINE S == 1 .. Len(out)
             T == S \ {k}
             f == [i \in S |-> RankAt(i)]
  <1>1. IsFiniteSet(S) /\ k \in S BY <1>0, FS_Interval
  <1>2. f \in [S -> T] BY RankAtType
  <1>3. \A i, j \in S : f[i] = f[j] => i = j BY RankAtInjective
  <1> HIDE DEF S, f
  <1>4. IsFiniteSet(T) /\ Cardinality(T) = Cardinality(S) - 1 BY <1>1, FS_RemoveElement
  <1>5. Cardinality(S) \in Nat BY <1>1, FS_CardinalityType
  <1>6. Cardinality(T) < Cardinality(S) BY <1>4, <1>5
  <1> HIDE DEF T
  <1>7. \E i, j \in S : i # j /\ f[i] = f[j] BY <1>1, <1>2, <1>4, <1>6, FS_PigeonHole
  <1> QED BY <1>3, <1>7

(* While the buffer has not wrapped, a slot is a place in the output. *)
LEMMA Ordered ==
  ASSUME IInv, BeginsInPlace, Len(sent) <= P, NEW i \in 1 .. Len(out)
  PROVE  out[i] = sent[i]
  <1> USE PAssumption
  <1>0. Len(out) \in Nat /\ Len(sent) \in Nat /\ Skipped \in Nat /\ Skipped % P = 0
    BY Facts DEF BeginsInPlace
  <1> DEFINE k == RankAt(i)
             d == k - 1
             e == i - 1
  <1>1. k \in 1 .. Len(sent) /\ sent[k] = out[i] BY RankAtType
  <1>2. Len(out) <= Len(sent) BY NoMoreThanSent
  <1>3. d \in 0 .. P - 1 /\ e \in 0 .. P - 1
    <2> HIDE DEF k
    <2> QED BY <1>0, <1>1, <1>2
  <1>4. SlotOf(sent[k]) = (Skipped + d) % P BY <1>1, Ranks
  <1>5. SlotOf(out[i]) = e % P BY Facts DEF OutputInv
  <1> HIDE DEF d, e
  <1>6. d % P = e % P
    <2>0. d \in Nat BY <1>3
    <2> HIDE DEF k
    <2>1. (Skipped + d) % P = d % P BY <1>0, <2>0, SlotShift
    <2> QED BY <2>1, <1>1, <1>4, <1>5
  <1>7. d = e BY <1>3, <1>6
  <1>8. k = i
    <2>1. k \in Int /\ i \in Int BY <1>1
    <2> HIDE DEF k
    <2> QED BY <2>1, <1>7 DEF d, e
  <1> QED BY <1>1, <1>8

(* consumeResp: as long as the buffer has not wrapped, the chunks reach    *)
(* the writer in the order they were requested in, for every number of     *)
(* workers, every blob and every range whose first chunk has slot 0.       *)
THEOREM InOrder == Spec => []OutputInOrder
  <1>1. ASSUME IInv PROVE OutputInOrder
    BY <1>1, NoMoreThanSent, Ordered DEF OutputInOrder
  <1> QED BY <1>1, Invariant, PTL

(* DownloadBlob returns nil only after it has written every chunk it       *)
(* requested, and once, also when the buffer has wrapped any number of     *)
(* times.                                                                  *)
THEOREM Complete == Spec => []CompleteOnSuccess
  <1>1. ASSUME IInv PROVE CompleteOnSuccess
    BY <1>1, AllWritten, EachWritten DEF CompleteOnSuccess
  <1> QED BY <1>1, Invariant, PTL

(* What DownloadBlob has written when it returns nil is, byte for byte,    *)
(* the range asked for, however the chunks cut the value and in whatever   *)
(* order the workers answered, for the ranges the property names.          *)
THEOREM Serves == Spec => []ServesRange
  <1>1. ASSUME IInv, BeginsInPlace, Len(sent) <= P, Clean, result = "ok"
        PROVE  Written[out] = Asked(lens, asked.off, asked.n)
    <2>1. out = sent
      <3>1. out \in Seq(Requests) /\ sent \in Seq(Requests) BY <1>1, Facts DEF TypeOK
      <3>2. Len(out) = Len(sent) BY <1>1, AllWritten
      <3>3. \A i \in 1 .. Len(out) : out[i] = sent[i] BY <1>1, Ordered
      <3> QED BY <3>1, <3>2, <3>3, SeqEqual
    <2>2. /\ Written[sent] = SubSeq(Value(lens), asked.off + 1, asked.off + Covered)
          /\ IF asked.n < 0 THEN asked.off + Covered = Len(Value(lens)) ELSE Covered = asked.n
      BY <1>1, Facts DEF RangeInv
    <2> QED BY <2>1, <2>2 DEF Asked
  <1>2. IInv => ServesRange BY <1>1 DEF ServesRange, Clean
  <1> QED BY <1>2, Invariant, PTL
=============================================================================
