---------------------------- MODULE WalletProofs ----------------------------
(* The wallet, for any number of threads, transactions, addresses and changes *)
(* of the chain, and whatever the changes take off it and put on it.          *)
(*                                                                            *)
(* What the stores keep is related to the chain that they were told of:       *)
(* StoresInv for their lists, OutputsInv for the outputs, SpendInv for limbo, *)
(* HistoryInv for what is listed of an address that was tracked all along.    *)
(* A change replaces the end of the chain, so each invariant rests on lemmas  *)
(* about what the folds of the model (FlattenSeq, Keep, RemoveFirsts, the     *)
(* diffs of blocks) make of a concatenation.                                  *)
EXTENDS Wallet, SequenceTheorems, FiniteSetTheorems, WellFoundedInduction, TLAPS

-----------------------------------------------------------------------------
(* Every set of naturals has a least element, so naturals can be induced on,  *)
(* with a set in the place of a predicate.                                    *)
LEMMA LeastNat ==
  ASSUME NEW T \in SUBSET Nat, T # {}
  PROVE  \E m \in T : \A k \in T : m <= k
  <1>1. PICK x \in T : \A y \in T : ~ (<<y, x>> \in OpToRel(<, Nat))
    <2> HIDE DEF OpToRel
    <2> QED BY NatLessThanWellFounded, WFMin
  <1>2. ASSUME NEW y \in T PROVE x <= y
    <2>1. ~ (y < x) BY <1>1 DEF OpToRel
    <2> QED BY <2>1
  <1> QED BY <1>2

LEMMA Induction ==
  ASSUME NEW S, 0 \in S, \A k \in Nat : k \in S => k + 1 \in S
  PROVE  \A k \in Nat : k \in S
  <1> SUFFICES ASSUME NEW k \in Nat, k \notin S PROVE FALSE OBVIOUS
  <1> DEFINE T == {j \in Nat : j \notin S}
  <1>1. PICK m \in T : \A j \in T : m <= j BY LeastNat
  <1>2. m # 0 /\ m - 1 \in Nat BY <1>1
  <1>3. m - 1 \in S BY <1>1, <1>2
  <1>4. (m - 1) + 1 \in S BY <1>2, <1>3
  <1> QED BY <1>4, <1>1

-----------------------------------------------------------------------------
(* The folds of the model over a sequence: the recursive functions that they  *)
(* are defined by exist, and take one more element one more step.             *)
ChainBody(f, cs, m) ==
  f = [k \in 0 .. m |-> IF k = 0 THEN <<>> ELSE Extend(f[k - 1], cs[k])]

LEMMA ChainExists == ASSUME NEW cs PROVE \A m \in Nat : \E f : ChainBody(f, cs, m)
  <1> DEFINE S == {m \in Nat : \E f : ChainBody(f, cs, m)}
  <1>1. 0 \in S
    <2> DEFINE f == [k \in 0 .. 0 |-> <<>>]
    <2>1. ChainBody(f, cs, 0) BY DEF ChainBody
    <2> QED BY <2>1
  <1>2. ASSUME NEW m \in Nat, m \in S PROVE m + 1 \in S
    <2>1. PICK f : ChainBody(f, cs, m) BY <1>2
    <2> DEFINE g == [k \in 0 .. m + 1 |-> IF k = 0 THEN <<>> ELSE Extend(f[k - 1], cs[k])]
    <2>2. \A k \in 0 .. m : g[k] = f[k] BY <2>1 DEF ChainBody
    <2>3. \A k \in 0 .. m + 1 : k # 0 => g[k] = Extend(g[k - 1], cs[k])
      <3> TAKE k \in 0 .. m + 1
      <3> HAVE k # 0
      <3>1. g[k] = Extend(f[k - 1], cs[k]) OBVIOUS
      <3>2. k - 1 \in 0 .. m OBVIOUS
      <3> HIDE DEF g
      <3> QED BY <3>1, <3>2, <2>2
    <2>4. ChainBody(g, cs, m + 1) BY <2>3 DEF ChainBody
    <2> QED BY <2>4
  <1> HIDE DEF S
  <1>3. \A m \in Nat : m \in S BY <1>1, <1>2, Induction
  <1> QED BY <1>3 DEF S

LEMMA ChainOfFun ==
  ASSUME NEW D, NEW cs \in Seq(D)
  PROVE  \E f : ChainBody(f, cs, Len(cs)) /\ ChainOf(cs) = f[Len(cs)]
  <1> DEFINE f == CHOOSE f : ChainBody(f, cs, Len(cs))
  <1>1. ChainBody(f, cs, Len(cs)) BY ChainExists, LenProperties
  <1>2. ChainOf(cs) = f[Len(cs)] BY DEF ChainOf, ChainBody
  <1> QED BY <1>1, <1>2

LEMMA ChainAgree ==
  ASSUME NEW cs, NEW ds, NEW m \in Nat, NEW f, NEW g,
         ChainBody(f, cs, m), NEW n \in Nat, ChainBody(g, ds, n), m <= n,
         \A k \in 1 .. m : cs[k] = ds[k]
  PROVE  f[m] = g[m]
  <1> DEFINE S == {k \in Nat : k <= m => f[k] = g[k]}
  <1>1. 0 \in S BY DEF ChainBody
  <1>2. ASSUME NEW k \in Nat, k \in S PROVE k + 1 \in S
    <2> SUFFICES ASSUME k + 1 <= m PROVE f[k + 1] = g[k + 1] OBVIOUS
    <2>1. f[k] = g[k] /\ cs[k + 1] = ds[k + 1] BY <1>2
    <2>2. f[k + 1] = Extend(f[(k + 1) - 1], cs[k + 1]) BY DEF ChainBody
    <2>3. g[k + 1] = Extend(g[(k + 1) - 1], ds[k + 1]) BY DEF ChainBody
    <2>4. (k + 1) - 1 = k OBVIOUS
    <2> QED BY <2>1, <2>2, <2>3, <2>4
  <1> HIDE DEF S
  <1>3. \A k \in Nat : k \in S BY <1>1, <1>2, Induction
  <1> QED BY <1>3 DEF S

LEMMA ChainOfAppend ==
  ASSUME NEW D, NEW cs \in Seq(D), NEW c \in D
  PROVE  /\ ChainOf(<<>>) = <<>>
         /\ ChainOf(Append(cs, c)) = Extend(ChainOf(cs), c)
  <1> DEFINE ds == Append(cs, c)
             m == Len(cs)
  <1>0. m \in Nat /\ ds \in Seq(D) /\ Len(ds) = m + 1 /\ ds[m + 1] = c
        /\ \A k \in 1 .. m : cs[k] = ds[k]
    BY AppendProperties, LenProperties
  <1>1. PICK f : ChainBody(f, cs, m) /\ ChainOf(cs) = f[m] BY ChainOfFun
  <1> HIDE DEF ds, m
  <1>2. PICK g : ChainBody(g, ds, m + 1) /\ ChainOf(ds) = g[m + 1] BY <1>0, ChainOfFun
  <1>3. f[m] = g[m] BY <1>0, <1>1, <1>2, ChainAgree
  <1>4. g[m + 1] = Extend(g[(m + 1) - 1], ds[m + 1]) BY <1>0, <1>2 DEF ChainBody
  <1>5. (m + 1) - 1 = m BY <1>0
  <1>6. ChainOf(<<>>) = <<>>
    <2>1. <<>> \in Seq(D) /\ Len(<<>>) = 0 BY EmptySeq
    <2>2. PICK h : ChainBody(h, <<>>, 0) /\ ChainOf(<<>>) = h[0] BY <2>1, ChainOfFun
    <2> QED BY <2>2 DEF ChainBody
  <1> QED BY <1>0, <1>1, <1>2, <1>3, <1>4, <1>5, <1>6 DEF ds

LeftBody(f, s, xs, m) ==
  f = [k \in 0 .. m |-> IF k = 0 THEN s ELSE RemoveFirst(f[k - 1], xs[k])]

LEMMA LeftExists == ASSUME NEW s, NEW xs PROVE \A m \in Nat : \E f : LeftBody(f, s, xs, m)
  <1> DEFINE S == {m \in Nat : \E f : LeftBody(f, s, xs, m)}
  <1>1. 0 \in S
    <2> DEFINE f == [k \in 0 .. 0 |-> s]
    <2>1. LeftBody(f, s, xs, 0) BY DEF LeftBody
    <2> QED BY <2>1
  <1>2. ASSUME NEW m \in Nat, m \in S PROVE m + 1 \in S
    <2>1. PICK f : LeftBody(f, s, xs, m) BY <1>2
    <2> DEFINE g == [k \in 0 .. m + 1 |-> IF k = 0 THEN s ELSE RemoveFirst(f[k - 1], xs[k])]
    <2>2. \A k \in 0 .. m : g[k] = f[k] BY <2>1 DEF LeftBody
    <2>3. \A k \in 0 .. m + 1 : k # 0 => g[k] = RemoveFirst(g[k - 1], xs[k])
      <3> TAKE k \in 0 .. m + 1
      <3> HAVE k # 0
      <3>1. g[k] = RemoveFirst(f[k - 1], xs[k]) OBVIOUS
      <3>2. k - 1 \in 0 .. m OBVIOUS
      <3> HIDE DEF g
      <3> QED BY <3>1, <3>2, <2>2
    <2>4. LeftBody(g, s, xs, m + 1) BY <2>3 DEF LeftBody
    <2> QED BY <2>4
  <1> HIDE DEF S
  <1>3. \A m \in Nat : m \in S BY <1>1, <1>2, Induction
  <1> QED BY <1>3 DEF S

LEMMA RemoveFirstsFun ==
  ASSUME NEW s, NEW D, NEW xs \in Seq(D)
  PROVE  \E f : LeftBody(f, s, xs, Len(xs)) /\ RemoveFirsts(s, xs) = f[Len(xs)]
  <1> DEFINE f == CHOOSE f : LeftBody(f, s, xs, Len(xs))
  <1>1. LeftBody(f, s, xs, Len(xs)) BY LeftExists, LenProperties
  <1>2. RemoveFirsts(s, xs) = f[Len(xs)] BY DEF RemoveFirsts, LeftBody
  <1> QED BY <1>1, <1>2

LEMMA LeftAgree ==
  ASSUME NEW s, NEW xs, NEW ys, NEW m \in Nat, NEW f, NEW g,
         LeftBody(f, s, xs, m), NEW n \in Nat, LeftBody(g, s, ys, n), m <= n,
         \A k \in 1 .. m : xs[k] = ys[k]
  PROVE  f[m] = g[m]
  <1> DEFINE S == {k \in Nat : k <= m => f[k] = g[k]}
  <1>1. 0 \in S BY DEF LeftBody
  <1>2. ASSUME NEW k \in Nat, k \in S PROVE k + 1 \in S
    <2> SUFFICES ASSUME k + 1 <= m PROVE f[k + 1] = g[k + 1] OBVIOUS
    <2>1. f[k] = g[k] /\ xs[k + 1] = ys[k + 1] BY <1>2
    <2>2. f[k + 1] = RemoveFirst(f[(k + 1) - 1], xs[k + 1]) BY DEF LeftBody
    <2>3. g[k + 1] = RemoveFirst(g[(k + 1) - 1], ys[k + 1]) BY DEF LeftBody
    <2>4. (k + 1) - 1 = k OBVIOUS
    <2> QED BY <2>1, <2>2, <2>3, <2>4
  <1> HIDE DEF S
  <1>3. \A k \in Nat : k \in S BY <1>1, <1>2, Induction
  <1> QED BY <1>3 DEF S

LEMMA RemoveFirstsAppend ==
  ASSUME NEW s, NEW D, NEW xs \in Seq(D), NEW x \in D
  PROVE  /\ RemoveFirsts(s, <<>>) = s
         /\ RemoveFirsts(s, Append(xs, x)) = RemoveFirst(RemoveFirsts(s, xs), x)
  <1> DEFINE ys == Append(xs, x)
             m == Len(xs)
  <1>0. m \in Nat /\ ys \in Seq(D) /\ Len(ys) = m + 1 /\ ys[m + 1] = x
        /\ \A k \in 1 .. m : xs[k] = ys[k]
    BY AppendProperties, LenProperties
  <1>1. PICK f : LeftBody(f, s, xs, m) /\ RemoveFirsts(s, xs) = f[m] BY RemoveFirstsFun
  <1> HIDE DEF ys, m
  <1>2. PICK g : LeftBody(g, s, ys, m + 1) /\ RemoveFirsts(s, ys) = g[m + 1] BY <1>0, RemoveFirstsFun
  <1>3. f[m] = g[m] BY <1>0, <1>1, <1>2, LeftAgree
  <1>4. g[m + 1] = RemoveFirst(g[(m + 1) - 1], ys[m + 1]) BY <1>0, <1>2 DEF LeftBody
  <1>5. (m + 1) - 1 = m BY <1>0
  <1>6. RemoveFirsts(s, <<>>) = s
    <2>1. <<>> \in Seq(D) /\ Len(<<>>) = 0 BY EmptySeq
    <2>2. PICK h : LeftBody(h, s, <<>>, 0) /\ RemoveFirsts(s, <<>>) = h[0] BY <2>1, RemoveFirstsFun
    <2> QED BY <2>2 DEF LeftBody
  <1> QED BY <1>0, <1>1, <1>2, <1>3, <1>4, <1>5, <1>6 DEF ys

Cat(a, b) == a \o b

FlatBody(f, ss, m) ==
  f = [k \in 1 .. m |-> IF k = 1 THEN ss[k] ELSE Cat(f[k - 1], ss[k])]

LEMMA FlatExists == ASSUME NEW ss PROVE \A m \in Nat : \E f : FlatBody(f, ss, m)
  <1> DEFINE S == {m \in Nat : \E f : FlatBody(f, ss, m)}
  <1>1. 0 \in S
    <2> DEFINE f == [k \in 1 .. 0 |-> <<>>]
    <2>1. FlatBody(f, ss, 0) BY DEF FlatBody
    <2> QED BY <2>1
  <1>2. ASSUME NEW m \in Nat, m \in S PROVE m + 1 \in S
    <2>1. PICK f : FlatBody(f, ss, m) BY <1>2
    <2> DEFINE g == [k \in 1 .. m + 1 |-> IF k = 1 THEN ss[k] ELSE Cat(f[k - 1], ss[k])]
    <2>2. \A k \in 1 .. m : g[k] = f[k] BY <2>1 DEF FlatBody
    <2>3. \A k \in 1 .. m + 1 : k # 1 => g[k] = Cat(g[k - 1], ss[k])
      <3> TAKE k \in 1 .. m + 1
      <3> HAVE k # 1
      <3>1. g[k] = Cat(f[k - 1], ss[k]) OBVIOUS
      <3>2. k - 1 \in 1 .. m OBVIOUS
      <3> HIDE DEF g
      <3> QED BY <3>1, <3>2, <2>2
    <2>4. FlatBody(g, ss, m + 1) BY <2>3 DEF FlatBody
    <2> QED BY <2>4
  <1> HIDE DEF S
  <1>3. \A m \in Nat : m \in S BY <1>1, <1>2, Induction
  <1> QED BY <1>3 DEF S

LEMMA FlatFun ==
  ASSUME NEW D, NEW ss \in Seq(D), ss # <<>>
  PROVE  \E f : FlatBody(f, ss, Len(ss)) /\ FlattenSeq(ss) = f[Len(ss)]
  <1> DEFINE f == CHOOSE f : FlatBody(f, ss, Len(ss))
  <1>1. FlatBody(f, ss, Len(ss)) BY FlatExists, LenProperties
  <1>2. Len(ss) # 0 BY EmptySeq
  <1>3. FlattenSeq(ss) = f[Len(ss)] BY <1>2 DEF FlattenSeq, FlatBody, Cat
  <1> QED BY <1>1, <1>3

LEMMA FlatAgree ==
  ASSUME NEW ss, NEW ts, NEW m \in Nat \ {0}, NEW f, NEW g,
         FlatBody(f, ss, m), NEW n \in Nat, FlatBody(g, ts, n), m <= n,
         \A k \in 1 .. m : ss[k] = ts[k]
  PROVE  f[m] = g[m]
  <1> DEFINE S == {k \in Nat : k + 1 <= m => f[k + 1] = g[k + 1]}
  <1>1. 0 \in S BY DEF FlatBody
  <1>2. ASSUME NEW k \in Nat, k \in S PROVE k + 1 \in S
    <2> SUFFICES ASSUME (k + 1) + 1 <= m PROVE f[(k + 1) + 1] = g[(k + 1) + 1] OBVIOUS
    <2> DEFINE j == (k + 1) + 1
    <2>1. j \in 1 .. m /\ j \in 1 .. n /\ j # 1 /\ j - 1 = k + 1 /\ f[k + 1] = g[k + 1]
      BY <1>2
    <2> HIDE DEF j
    <2>2. f[j] = Cat(f[j - 1], ss[j]) /\ ss[j] = ts[j] BY <2>1 DEF FlatBody
    <2>3. g[j] = Cat(g[j - 1], ts[j]) BY <2>1 DEF FlatBody
    <2>4. f[j] = g[j] BY <2>1, <2>2, <2>3
    <2> QED BY <2>4 DEF j
  <1> HIDE DEF S
  <1>3. \A k \in Nat : k \in S BY <1>1, <1>2, Induction
  <1>4. m - 1 \in Nat /\ (m - 1) + 1 = m BY <1>3
  <1>5. (m - 1) + 1 <= m => f[(m - 1) + 1] = g[(m - 1) + 1] BY <1>3, <1>4 DEF S
  <1> QED BY <1>4, <1>5

LEMMA FlattenAppend ==
  ASSUME NEW E, NEW ss \in Seq(Seq(E)), NEW x \in Seq(E)
  PROVE  /\ FlattenSeq(<<>>) = <<>>
         /\ FlattenSeq(Append(ss, x)) = FlattenSeq(ss) \o x
  <1> DEFINE ts == Append(ss, x)
             m == Len(ss)
  <1>0. m \in Nat /\ ts \in Seq(Seq(E)) /\ Len(ts) = m + 1 /\ ts[m + 1] = x /\ ts # <<>>
        /\ \A k \in 1 .. m : ss[k] = ts[k]
    BY AppendProperties, LenProperties
  <1>6. FlattenSeq(<<>>) = <<>> BY DEF FlattenSeq
  <1> HIDE DEF ts, m
  <1>2. PICK g : FlatBody(g, ts, m + 1) /\ FlattenSeq(ts) = g[m + 1] BY <1>0, FlatFun
  <1>7. CASE ss = <<>>
    <2>1. m = 0 BY <1>7, EmptySeq DEF m
    <2>2. g[1] = ts[1] BY <1>0, <1>2, <2>1 DEF FlatBody
    <2>3. FlattenSeq(ts) = x BY <1>0, <1>2, <2>1, <2>2
    <2>4. <<>> \o x = x BY ConcatEmptySeq
    <2> QED BY <2>3, <2>4, <1>6, <1>7 DEF ts
  <1>8. CASE ss # <<>>
    <2>0. m # 0 BY <1>8, EmptySeq DEF m
    <2>1. PICK f : FlatBody(f, ss, m) /\ FlattenSeq(ss) = f[m] BY <1>8, FlatFun DEF m
    <2>2. f[m] = g[m] BY <1>0, <2>0, <2>1, <1>2, FlatAgree
    <2>3. g[m + 1] = Cat(g[(m + 1) - 1], ts[m + 1]) BY <1>0, <1>2, <2>0 DEF FlatBody
    <2>4. (m + 1) - 1 = m BY <1>0
    <2> QED BY <2>1, <2>2, <2>3, <2>4, <1>0, <1>2, <1>6 DEF ts, Cat
  <1> QED BY <1>7, <1>8

-----------------------------------------------------------------------------
(* Sequences: induction with a set in the place of a predicate, and what the  *)
(* model's operators on lists return.                                         *)
LEMMA SeqInduction ==
  ASSUME NEW E, NEW T, <<>> \in T, \A s \in Seq(E), x \in E : s \in T => Append(s, x) \in T
  PROVE  \A s \in Seq(E) : s \in T
  <1> DEFINE S == {k \in Nat : \A s \in Seq(E) : Len(s) = k => s \in T}
  <1>1. 0 \in S
    <2>1. \A s \in Seq(E) : Len(s) = 0 => s = <<>> BY EmptySeq
    <2> QED BY <2>1
  <1>2. ASSUME NEW k \in Nat, k \in S PROVE k + 1 \in S
    <2> SUFFICES ASSUME NEW s \in Seq(E), Len(s) = k + 1 PROVE s \in T OBVIOUS
    <2>1. s # <<>> BY EmptySeq
    <2>2. PICK t \in Seq(E), x \in E : s = Append(t, x) BY <2>1, SequenceEmptyOrAppend
    <2>3. Len(t) = k BY <2>2, AppendProperties, LenProperties
    <2>4. t \in T BY <1>2, <2>3
    <2> QED BY <2>2, <2>4
  <1> HIDE DEF S
  <1>3. \A k \in Nat : k \in S BY <1>1, <1>2, Induction
  <1> QED BY <1>3, LenProperties DEF S

LEMMA RangeAppend ==
  ASSUME NEW E, NEW s \in Seq(E), NEW x \in E
  PROVE  Range(Append(s, x)) = Range(s) \cup {x}
  <1>1. Range(s) = {s[i] : i \in 1 .. Len(s)} BY RangeEquality
  <1> DEFINE t == Append(s, x)
  <1>2. t \in Seq(E) /\ Len(t) = Len(s) + 1 /\ t[Len(s) + 1] = x
        /\ \A i \in 1 .. Len(s) : t[i] = s[i]
    BY AppendProperties
  <1> HIDE DEF t
  <1>3. Range(t) = {t[i] : i \in 1 .. Len(t)} BY <1>2, RangeEquality
  <1>4. Len(s) \in Nat BY LenProperties
  <1>5. \A i \in 1 .. Len(t) : i \in 1 .. Len(s) \/ i = Len(s) + 1 BY <1>2, <1>4
  <1>6. \A i \in 1 .. Len(s) : i \in 1 .. Len(t) BY <1>2, <1>4
  <1>7. Len(s) + 1 \in 1 .. Len(t) BY <1>2, <1>4
  <1>8. Range(t) = Range(s) \cup {x} BY <1>1, <1>2, <1>3, <1>5, <1>6, <1>7
  <1> QED BY <1>8 DEF t

LEMMA RangeEmpty == Range(<<>>) = {} /\ IsInjective(<<>>)
  BY DEF Range, IsInjective

LEMMA InjectiveConcat ==
  ASSUME NEW E, NEW s \in Seq(E), NEW t \in Seq(E)
  PROVE  IsInjective(s \o t) <=>
           IsInjective(s) /\ IsInjective(t) /\ Range(s) \cap Range(t) = {}
  <1> DEFINE m == Len(s)
             n == Len(t)
             u == s \o t
  <1>1. /\ m \in Nat /\ n \in Nat /\ DOMAIN s = 1 .. m /\ DOMAIN t = 1 .. n
        /\ u \in Seq(E) /\ Len(u) = m + n
        /\ \A i \in 1 .. m + n : u[i] = IF i <= m THEN s[i] ELSE t[i - m]
    BY LenProperties, ConcatProperties
  <1>2. DOMAIN u = 1 .. m + n BY <1>1, LenProperties
  <1> HIDE DEF m, n, u
  <1>3. \A i \in 1 .. m : i \in 1 .. m + n /\ u[i] = s[i] BY <1>1
  <1>4. \A i \in 1 .. n : m + i \in 1 .. m + n /\ u[m + i] = t[i]
    <2> TAKE i \in 1 .. n
    <2>1. m + i \in 1 .. m + n /\ ~(m + i <= m) /\ (m + i) - m = i BY <1>1
    <2> QED BY <2>1, <1>1
  <1>5. ASSUME IsInjective(u)
        PROVE  IsInjective(s) /\ IsInjective(t) /\ Range(s) \cap Range(t) = {}
    <2>1. \A a, b \in 1 .. m + n : u[a] = u[b] => a = b BY <1>2, <1>5 DEF IsInjective
    <2>2. IsInjective(s) BY <2>1, <1>1, <1>3 DEF IsInjective
    <2>3. IsInjective(t)
      <3>1. ASSUME NEW a \in 1 .. n, NEW b \in 1 .. n, t[a] = t[b] PROVE a = b
        <4>1. m + a = m + b BY <3>1, <2>1, <1>4
        <4> QED BY <4>1, <1>1
      <3> QED BY <3>1, <1>1 DEF IsInjective
    <2>4. Range(s) \cap Range(t) = {}
      <3>1. ASSUME NEW a \in 1 .. m, NEW b \in 1 .. n, s[a] = t[b] PROVE FALSE
        <4>1. a = m + b BY <3>1, <2>1, <1>3, <1>4
        <4> QED BY <4>1, <1>1
      <3> QED BY <3>1, <1>1 DEF Range
    <2> QED BY <2>2, <2>3, <2>4
  <1>6. ASSUME IsInjective(s), IsInjective(t), Range(s) \cap Range(t) = {}
        PROVE  IsInjective(u)
    <2>1. ASSUME NEW a \in 1 .. m + n, NEW b \in 1 .. m + n, u[a] = u[b] PROVE a = b
      <3>1. CASE a <= m /\ b <= m
        <4>1. a \in 1 .. m /\ b \in 1 .. m BY <3>1, <1>1
        <4> QED BY <4>1, <1>3, <2>1, <1>6, <1>1 DEF IsInjective
      <3>2. CASE ~(a <= m) /\ ~(b <= m)
        <4>1. a - m \in 1 .. n /\ b - m \in 1 .. n BY <3>2, <1>1
        <4>2. t[a - m] = t[b - m] BY <2>1, <1>1, <3>2
        <4>3. a - m = b - m BY <4>1, <4>2, <1>6, <1>1 DEF IsInjective
        <4> QED BY <4>3, <1>1
      <3>3. CASE a <= m /\ ~(b <= m)
        <4>1. a \in 1 .. m /\ b - m \in 1 .. n BY <3>3, <1>1
        <4>2. s[a] = t[b - m] BY <2>1, <1>1, <3>3
        <4> QED BY <4>1, <4>2, <1>6, <1>1 DEF Range
      <3>4. CASE ~(a <= m) /\ b <= m
        <4>1. b \in 1 .. m /\ a - m \in 1 .. n BY <3>4, <1>1
        <4>2. s[b] = t[a - m] BY <2>1, <1>1, <3>4
        <4> QED BY <4>1, <4>2, <1>6, <1>1 DEF Range
      <3> QED BY <3>1, <3>2, <3>3, <3>4
    <2> QED BY <2>1, <1>2 DEF IsInjective
  <1> QED BY <1>5, <1>6 DEF u

LEMMA Singleton ==
  ASSUME NEW E, NEW x \in E
  PROVE  <<x>> \in Seq(E) /\ Range(<<x>>) = {x} /\ IsInjective(<<x>>) /\ Len(<<x>>) = 1
  BY DEF Range, IsInjective

LEMMA InjectiveAppend ==
  ASSUME NEW E, NEW s \in Seq(E), NEW x \in E
  PROVE  IsInjective(Append(s, x)) <=> IsInjective(s) /\ x \notin Range(s)
  <1>1. Append(s, x) = s \o <<x>> BY AppendIsConcat
  <1>2. <<x>> \in Seq(E) /\ Range(<<x>>) = {x} /\ IsInjective(<<x>>) BY Singleton
  <1> DEFINE t == <<x>>
  <1>3. t \in Seq(E) BY <1>2
  <1> HIDE DEF t
  <1>4. IsInjective(s \o t) <=> IsInjective(s) /\ IsInjective(t) /\ Range(s) \cap Range(t) = {}
    BY <1>3, InjectiveConcat
  <1> QED BY <1>1, <1>2, <1>4 DEF t

LEMMA FlattenType == ASSUME NEW E PROVE \A ss \in Seq(Seq(E)) : FlattenSeq(ss) \in Seq(E)
  <1> DEFINE T == {ss \in Seq(Seq(E)) : FlattenSeq(ss) \in Seq(E)}
  <1>1. <<>> \in T
    <2>1. <<>> \in Seq(Seq(E)) /\ <<>> \in Seq(E) BY EmptySeq
    <2>2. FlattenSeq(<<>>) = <<>> BY <2>1, FlattenAppend
    <2> QED BY <2>1, <2>2
  <1>2. ASSUME NEW ss \in Seq(Seq(E)), NEW x \in Seq(E), ss \in T PROVE Append(ss, x) \in T
    <2>1. FlattenSeq(Append(ss, x)) = FlattenSeq(ss) \o x BY FlattenAppend
    <2>2. FlattenSeq(ss) \o x \in Seq(E) BY <1>2, ConcatProperties
    <2>3. Append(ss, x) \in Seq(Seq(E)) BY AppendProperties
    <2> QED BY <2>1, <2>2, <2>3
  <1> HIDE DEF T
  <1>3. \A ss \in Seq(Seq(E)) : ss \in T BY <1>1, <1>2, SeqInduction
  <1> QED BY <1>3 DEF T

LEMMA ConcatAppend ==
  ASSUME NEW E, NEW s \in Seq(E), NEW t \in Seq(E), NEW x \in E
  PROVE  s \o Append(t, x) = Append(s \o t, x)
  <1>1. <<x>> \in Seq(E) /\ s \o t \in Seq(E) BY Singleton, ConcatProperties
  <1>2. Append(t, x) = t \o <<x>> /\ Append(s \o t, x) = (s \o t) \o <<x>>
    BY <1>1, AppendIsConcat
  <1>3. (s \o t) \o <<x>> = s \o (t \o <<x>>) BY <1>1, ConcatAssociative
  <1> QED BY <1>2, <1>3

LEMMA FlattenConcat ==
  ASSUME NEW E, NEW ss \in Seq(Seq(E))
  PROVE  \A ts \in Seq(Seq(E)) : FlattenSeq(ss \o ts) = FlattenSeq(ss) \o FlattenSeq(ts)
  <1> DEFINE T == {ts \in Seq(Seq(E)) : FlattenSeq(ss \o ts) = FlattenSeq(ss) \o FlattenSeq(ts)}
  <1>0. FlattenSeq(ss) \in Seq(E) BY FlattenType
  <1>1. <<>> \in T
    <2>1. <<>> \in Seq(Seq(E)) /\ <<>> \in Seq(E) BY EmptySeq
    <2>2. FlattenSeq(<<>>) = <<>> BY <2>1, FlattenAppend
    <2>3. ss \o <<>> = ss /\ FlattenSeq(ss) \o <<>> = FlattenSeq(ss) BY <1>0, ConcatEmptySeq
    <2> QED BY <2>1, <2>2, <2>3
  <1>2. ASSUME NEW ts \in Seq(Seq(E)), NEW x \in Seq(E), ts \in T PROVE Append(ts, x) \in T
    <2>1. FlattenSeq(Append(ts, x)) = FlattenSeq(ts) \o x BY FlattenAppend
    <2>2. ss \o Append(ts, x) = Append(ss \o ts, x) BY ConcatAppend
    <2>3. ss \o ts \in Seq(Seq(E)) BY ConcatProperties
    <2>4. FlattenSeq(Append(ss \o ts, x)) = FlattenSeq(ss \o ts) \o x BY <2>3, FlattenAppend
    <2>5. FlattenSeq(ts) \in Seq(E) BY FlattenType
    <2>6. (FlattenSeq(ss) \o FlattenSeq(ts)) \o x = FlattenSeq(ss) \o (FlattenSeq(ts) \o x)
      BY <1>0, <2>5, ConcatAssociative
    <2>7. Append(ts, x) \in Seq(Seq(E)) BY AppendProperties
    <2>8. FlattenSeq(ss \o ts) = FlattenSeq(ss) \o FlattenSeq(ts) BY <1>2
    <2>9. FlattenSeq(ss \o Append(ts, x)) = FlattenSeq(ss) \o FlattenSeq(Append(ts, x))
      BY <2>1, <2>2, <2>4, <2>6, <2>8
    <2> QED BY <2>7, <2>9
  <1> HIDE DEF T
  <1>3. \A ts \in Seq(Seq(E)) : ts \in T BY <1>1, <1>2, SeqInduction
  <1> QED BY <1>3 DEF T

(* The elements of a flattened sequence, none of them twice if no two parts   *)
(* share one and none has one twice.                                          *)
Apart(ss) ==
  /\ \A i \in DOMAIN ss : IsInjective(ss[i])
  /\ \A i, j \in DOMAIN ss : i # j => Range(ss[i]) \cap Range(ss[j]) = {}

LEMMA FlattenRange ==
  ASSUME NEW E
  PROVE  \A ss \in Seq(Seq(E)) :
           /\ Range(FlattenSeq(ss)) = UNION {Range(ss[i]) : i \in DOMAIN ss}
           /\ Apart(ss) => IsInjective(FlattenSeq(ss))
  <1> DEFINE R(ss) == UNION {Range(ss[i]) : i \in DOMAIN ss}
             T == {ss \in Seq(Seq(E)) : /\ Range(FlattenSeq(ss)) = R(ss)
                                        /\ Apart(ss) => IsInjective(FlattenSeq(ss))}
  <1>1. <<>> \in T
    <2>1. <<>> \in Seq(Seq(E)) /\ <<>> \in Seq(E) /\ FlattenSeq(<<>>) = <<>>
      BY EmptySeq, FlattenAppend
    <2>2. R(<<>>) = {} OBVIOUS
    <2> QED BY <2>1, <2>2, RangeEmpty
  <1>2. ASSUME NEW ss \in Seq(Seq(E)), NEW x \in Seq(E), ss \in T PROVE Append(ss, x) \in T
    <2> DEFINE ts == Append(ss, x)
    <2>1. FlattenSeq(ts) = FlattenSeq(ss) \o x BY FlattenAppend
    <2>2. FlattenSeq(ss) \in Seq(E) BY FlattenType
    <2>3. Range(FlattenSeq(ts)) = Range(FlattenSeq(ss)) \cup Range(x)
      BY <2>1, <2>2, RangeConcatenation
    <2>4. /\ ts \in Seq(Seq(E)) /\ Len(ss) \in Nat
          /\ DOMAIN ts = 1 .. Len(ss) + 1 /\ DOMAIN ss = 1 .. Len(ss)
          /\ ts[Len(ss) + 1] = x /\ \A i \in 1 .. Len(ss) : ts[i] = ss[i]
      BY AppendProperties, LenProperties
    <2> HIDE DEF ts
    <2>5. \A i \in 1 .. Len(ss) + 1 : i \in 1 .. Len(ss) \/ i = Len(ss) + 1 BY <2>4
    <2>6. \A i \in 1 .. Len(ss) : i \in 1 .. Len(ss) + 1 BY <2>4
    <2>7. Len(ss) + 1 \in 1 .. Len(ss) + 1 /\ Len(ss) + 1 \notin 1 .. Len(ss) BY <2>4
    <2>8. R(ts) = R(ss) \cup Range(x) BY <2>4, <2>5, <2>6, <2>7
    <2>9. Range(FlattenSeq(ss)) = R(ss) /\ (Apart(ss) => IsInjective(FlattenSeq(ss))) BY <1>2
    <2>10. ASSUME Apart(ts) PROVE IsInjective(FlattenSeq(ts))
      <3>1. Apart(ss) BY <2>10, <2>4, <2>6 DEF Apart
      <3>2. IsInjective(x) BY <2>10, <2>4, <2>7 DEF Apart
      <3>3. ASSUME NEW i \in 1 .. Len(ss) PROVE Range(ss[i]) \cap Range(x) = {}
        BY <2>10, <2>4, <2>6, <2>7 DEF Apart
      <3>4. R(ss) \cap Range(x) = {} BY <3>3, <2>4
      <3> QED BY <3>1, <3>2, <3>4, <2>1, <2>2, <2>9, InjectiveConcat
    <2>11. ts \in T BY <2>3, <2>4, <2>8, <2>9, <2>10
    <2> QED BY <2>11 DEF ts
  <1> HIDE DEF T
  <1>3. \A ss \in Seq(Seq(E)) : ss \in T BY <1>1, <1>2, SeqInduction
  <1> QED BY <1>3 DEF T

(* Keep, element by element. *)
Kept(x, S) == IF x \in S THEN <<x>> ELSE <<>>

LEMMA KeptType ==
  ASSUME NEW E, NEW x \in E, NEW S
  PROVE  /\ Kept(x, S) \in Seq(E) /\ Range(Kept(x, S)) = {x} \cap S
         /\ IsInjective(Kept(x, S))
  <1>1. <<>> \in Seq(E) BY EmptySeq
  <1> QED BY <1>1, Singleton, RangeEmpty DEF Kept

LEMMA KeepAppend ==
  ASSUME NEW E, NEW S, NEW s \in Seq(E), NEW x \in E
  PROVE  /\ Keep(<<>>, S) = <<>>
         /\ Keep(Append(s, x), S) = Keep(s, S) \o Kept(x, S)
  <1> DEFINE t == Append(s, x)
             ss == [i \in 1 .. Len(s) |-> Kept(s[i], S)]
             ts == [i \in 1 .. Len(t) |-> Kept(t[i], S)]
             k == Kept(x, S)
  <1>1. /\ t \in Seq(E) /\ Len(t) = Len(s) + 1 /\ t[Len(s) + 1] = x
        /\ \A i \in 1 .. Len(s) : t[i] = s[i]
    BY AppendProperties
  <1>2. Len(s) \in Nat /\ Len(t) \in Nat /\ DOMAIN s = 1 .. Len(s) /\ DOMAIN t = 1 .. Len(t)
        /\ (\A i \in 1 .. Len(s) : s[i] \in E) /\ (\A i \in 1 .. Len(t) : t[i] \in E)
    BY <1>1, LenProperties
  <1> HIDE DEF t
  <1>3. /\ \A i \in 1 .. Len(s) : Kept(s[i], S) \in Seq(E)
        /\ \A i \in 1 .. Len(t) : Kept(t[i], S) \in Seq(E)
        /\ k \in Seq(E)
    BY <1>2, KeptType
  <1>4. ss \in Seq(Seq(E)) /\ ts \in Seq(Seq(E)) /\ Len(ss) = Len(s) /\ Len(ts) = Len(t)
    BY <1>2, <1>3
  <1>5. Keep(s, S) = FlattenSeq(ss) /\ Keep(t, S) = FlattenSeq(ts)
    BY <1>2 DEF Keep, Kept
  <1>6. \A i \in 1 .. Len(s) : i \in 1 .. Len(t) /\ ts[i] = ss[i] BY <1>1, <1>2
  <1>7. ts[Len(s) + 1] = k BY <1>1, <1>2
  <1> HIDE DEF ss, ts, k
  <1>8. ts = Append(ss, k)
    <2> DEFINE us == Append(ss, k)
    <2>1. us \in Seq(Seq(E)) /\ Len(us) = Len(ss) + 1 /\ us[Len(ss) + 1] = k
          /\ \A i \in 1 .. Len(ss) : us[i] = ss[i]
      BY <1>3, <1>4, AppendProperties
    <2> HIDE DEF us
    <2>2. \A i \in 1 .. Len(ts) : i \in 1 .. Len(s) \/ i = Len(s) + 1 BY <1>1, <1>2, <1>4
    <2>3. \A i \in 1 .. Len(ts) : ts[i] = us[i] BY <1>4, <1>6, <1>7, <2>1, <2>2
    <2>4. Len(ts) = Len(us) BY <1>1, <1>4, <2>1
    <2>5. ts = us BY <2>1, <2>3, <2>4, <1>4, SeqEqual
    <2> QED BY <2>5 DEF us
  <1>9. FlattenSeq(Append(ss, k)) = FlattenSeq(ss) \o k BY <1>3, <1>4, FlattenAppend
  <1>10. Keep(<<>>, S) = <<>>
    <2>1. [i \in DOMAIN <<>> |-> IF <<>>[i] \in S THEN <<<<>>[i]>> ELSE <<>>] = <<>> OBVIOUS
    <2>2. FlattenSeq(<<>>) = <<>> BY DEF FlattenSeq
    <2> QED BY <2>1, <2>2 DEF Keep
  <1> QED BY <1>5, <1>8, <1>9, <1>10 DEF t, k

LEMMA KeepFacts ==
  ASSUME NEW E, NEW S
  PROVE  \A s \in Seq(E) :
           /\ Keep(s, S) \in Seq(E)
           /\ Range(Keep(s, S)) = Range(s) \cap S
           /\ IsInjective(s) => IsInjective(Keep(s, S))
  <1> DEFINE T == {s \in Seq(E) : /\ Keep(s, S) \in Seq(E)
                                  /\ Range(Keep(s, S)) = Range(s) \cap S
                                  /\ IsInjective(s) => IsInjective(Keep(s, S))}
  <1>1. <<>> \in T
    <2>1. <<>> \in Seq(E) BY EmptySeq
    <2>2. Keep(<<>>, S) = <<>> BY DEF Keep, FlattenSeq
    <2> QED BY <2>1, <2>2, RangeEmpty
  <1>2. ASSUME NEW s \in Seq(E), NEW x \in E, s \in T PROVE Append(s, x) \in T
    <2> DEFINE k == Kept(x, S)
               t == Append(s, x)
               u == Keep(s, S)
    <2>1. Keep(t, S) = u \o k BY KeepAppend
    <2>2. k \in Seq(E) /\ Range(k) = {x} \cap S /\ IsInjective(k) BY KeptType
    <2>3. u \in Seq(E) /\ Range(u) = Range(s) \cap S /\ (IsInjective(s) => IsInjective(u)) BY <1>2
    <2>4. t \in Seq(E) /\ Range(t) = Range(s) \cup {x} BY AppendProperties, RangeAppend
    <2>5. IsInjective(t) <=> IsInjective(s) /\ x \notin Range(s) BY InjectiveAppend
    <2> HIDE DEF k, t, u
    <2>6. u \o k \in Seq(E) /\ Range(u \o k) = Range(u) \cup Range(k)
      BY <2>2, <2>3, ConcatProperties, RangeConcatenation
    <2>7. IsInjective(u \o k) <=> IsInjective(u) /\ IsInjective(k) /\ Range(u) \cap Range(k) = {}
      BY <2>2, <2>3, InjectiveConcat
    <2>8. Range(u \o k) = Range(t) \cap S BY <2>2, <2>3, <2>4, <2>6
    <2>9. IsInjective(t) => IsInjective(u \o k) BY <2>2, <2>3, <2>5, <2>7
    <2> QED BY <2>1, <2>4, <2>6, <2>8, <2>9 DEF t
  <1> HIDE DEF T
  <1>3. \A s \in Seq(E) : s \in T BY <1>1, <1>2, SeqInduction
  <1> QED BY <1>3 DEF T

LEMMA KeepConcat ==
  ASSUME NEW E, NEW S, NEW s \in Seq(E)
  PROVE  \A t \in Seq(E) : Keep(s \o t, S) = Keep(s, S) \o Keep(t, S)
  <1> DEFINE T == {t \in Seq(E) : Keep(s \o t, S) = Keep(s, S) \o Keep(t, S)}
  <1>0. Keep(s, S) \in Seq(E) BY KeepFacts
  <1>1. <<>> \in T
    <2>1. <<>> \in Seq(E) BY EmptySeq
    <2>2. Keep(<<>>, S) = <<>> BY DEF Keep, FlattenSeq
    <2>3. s \o <<>> = s /\ Keep(s, S) \o <<>> = Keep(s, S) BY <1>0, ConcatEmptySeq
    <2> QED BY <2>1, <2>2, <2>3
  <1>2. ASSUME NEW t \in Seq(E), NEW x \in E, t \in T PROVE Append(t, x) \in T
    <2> DEFINE k == Kept(x, S)
    <2>1. s \o Append(t, x) = Append(s \o t, x) BY ConcatAppend
    <2>2. s \o t \in Seq(E) /\ Append(t, x) \in Seq(E) BY ConcatProperties, AppendProperties
    <2>3. Keep(Append(s \o t, x), S) = Keep(s \o t, S) \o k BY <2>2, KeepAppend
    <2>4. Keep(Append(t, x), S) = Keep(t, S) \o k BY KeepAppend
    <2>5. k \in Seq(E) /\ Keep(t, S) \in Seq(E) BY KeptType, KeepFacts
    <2>6. (Keep(s, S) \o Keep(t, S)) \o k = Keep(s, S) \o (Keep(t, S) \o k)
      <3> DEFINE p == Keep(s, S)
                 q == Keep(t, S)
      <3>1. p \in Seq(E) /\ q \in Seq(E) /\ p \o q \in Seq(E) BY <1>0, <2>5, ConcatProperties
      <3>2. k = IF x \in S THEN <<x>> ELSE <<>> BY DEF Kept
      <3> HIDE DEF p, q, k, T
      <3>3. CASE x \in S
        <4>1. (p \o q) \o <<x>> = Append(p \o q, x) /\ q \o <<x>> = Append(q, x)
          BY <3>1, AppendIsConcat
        <4>2. p \o Append(q, x) = Append(p \o q, x) BY <3>1, ConcatAppend
        <4> QED BY <3>2, <3>3, <4>1, <4>2 DEF p, q
      <3>4. CASE x \notin S
        <4>1. (p \o q) \o <<>> = p \o q /\ q \o <<>> = q BY <3>1, ConcatEmptySeq
        <4> QED BY <3>2, <3>4, <4>1 DEF p, q
      <3> QED BY <3>3, <3>4
    <2>7. Keep(s \o t, S) = Keep(s, S) \o Keep(t, S) BY <1>2
    <2> QED BY <2>1, <2>2, <2>3, <2>4, <2>6, <2>7
  <1> HIDE DEF T
  <1>3. \A t \in Seq(E) : t \in T BY <1>1, <1>2, SeqInduction
  <1> QED BY <1>3 DEF T

(* Only whether the elements are in the set matters. *)
LEMMA KeepSame ==
  ASSUME NEW E, NEW A, NEW B
  PROVE  \A s \in Seq(E) : Range(s) \cap A = Range(s) \cap B => Keep(s, A) = Keep(s, B)
  <1> DEFINE T == {s \in Seq(E) : Range(s) \cap A = Range(s) \cap B => Keep(s, A) = Keep(s, B)}
  <1>1. <<>> \in T BY EmptySeq DEF Keep, FlattenSeq
  <1>2. ASSUME NEW s \in Seq(E), NEW x \in E, s \in T PROVE Append(s, x) \in T
    <2>0. Append(s, x) \in Seq(E) BY AppendProperties
    <2> SUFFICES ASSUME Range(Append(s, x)) \cap A = Range(Append(s, x)) \cap B
                 PROVE  Keep(Append(s, x), A) = Keep(Append(s, x), B)
      BY <2>0
    <2>1. Range(Append(s, x)) = Range(s) \cup {x} BY RangeAppend
    <2>2. Range(s) \cap A = Range(s) \cap B /\ (x \in A <=> x \in B) BY <2>1
    <2>3. Keep(s, A) = Keep(s, B) BY <1>2, <2>2
    <2>4. Kept(x, A) = Kept(x, B) BY <2>2 DEF Kept
    <2>5. Keep(Append(s, x), A) = Keep(s, A) \o Kept(x, A) BY KeepAppend
    <2>6. Keep(Append(s, x), B) = Keep(s, B) \o Kept(x, B) BY KeepAppend
    <2> QED BY <2>3, <2>4, <2>5, <2>6
  <1> HIDE DEF T
  <1>3. \A s \in Seq(E) : s \in T BY <1>1, <1>2, SeqInduction
  <1> QED BY <1>3 DEF T

LEMMA KeepAll ==
  ASSUME NEW E, NEW S
  PROVE  \A s \in Seq(E) : Range(s) \subseteq S => Keep(s, S) = s
  <1> DEFINE T == {s \in Seq(E) : Range(s) \subseteq S => Keep(s, S) = s}
  <1>1. <<>> \in T BY EmptySeq DEF Keep, FlattenSeq
  <1>2. ASSUME NEW s \in Seq(E), NEW x \in E, s \in T PROVE Append(s, x) \in T
    <2>0. Append(s, x) \in Seq(E) BY AppendProperties
    <2> SUFFICES ASSUME Range(Append(s, x)) \subseteq S PROVE Keep(Append(s, x), S) = Append(s, x)
      BY <2>0
    <2>1. Range(Append(s, x)) = Range(s) \cup {x} BY RangeAppend
    <2>2. Range(s) \subseteq S /\ x \in S BY <2>1
    <2>3. Keep(s, S) = s BY <1>2, <2>2
    <2>4. Kept(x, S) = <<x>> BY <2>2 DEF Kept
    <2>5. Keep(Append(s, x), S) = Keep(s, S) \o Kept(x, S) BY KeepAppend
    <2>6. Append(s, x) = s \o <<x>> BY AppendIsConcat
    <2> QED BY <2>3, <2>4, <2>5, <2>6
  <1> HIDE DEF T
  <1>3. \A s \in Seq(E) : s \in T BY <1>1, <1>2, SeqInduction
  <1> QED BY <1>3 DEF T

LEMMA KeepKeep ==
  ASSUME NEW E, NEW A, NEW B
  PROVE  \A s \in Seq(E) : Keep(Keep(s, A), B) = Keep(s, A \cap B)
  <1> DEFINE T == {s \in Seq(E) : Keep(Keep(s, A), B) = Keep(s, A \cap B)}
  <1>1. <<>> \in T
    <2>1. <<>> \in Seq(E) BY EmptySeq
    <2>2. Keep(<<>>, A) = <<>> BY DEF Keep, FlattenSeq
    <2>3. Keep(<<>>, B) = <<>> BY DEF Keep, FlattenSeq
    <2>4. Keep(<<>>, A \cap B) = <<>> BY DEF Keep, FlattenSeq
    <2> QED BY <2>1, <2>2, <2>3, <2>4
  <1>2. ASSUME NEW s \in Seq(E), NEW x \in E, s \in T PROVE Append(s, x) \in T
    <2> DEFINE u == Keep(s, A)
               k == Kept(x, A)
    <2>0. Append(s, x) \in Seq(E) BY AppendProperties
    <2>1. Keep(Append(s, x), A) = u \o k BY KeepAppend
    <2>2. Keep(Append(s, x), A \cap B) = Keep(s, A \cap B) \o Kept(x, A \cap B) BY KeepAppend
    <2>3. u \in Seq(E) /\ k \in Seq(E) BY KeepFacts, KeptType
    <2> HIDE DEF u, k
    <2>4. Keep(u \o k, B) = Keep(u, B) \o Keep(k, B) BY <2>3, KeepConcat
    <2>5. Keep(k, B) = Kept(x, A \cap B)
      <3>1. CASE x \in A
        <4>1. k = <<x>> BY <3>1 DEF k, Kept
        <4>2. Append(<<>>, x) = <<x>> /\ <<>> \in Seq(E) BY EmptySeq
        <4>3. Keep(Append(<<>>, x), B) = Keep(<<>>, B) \o Kept(x, B) /\ Keep(<<>>, B) = <<>>
          BY <4>2, KeepAppend
        <4>4. <<>> \o Kept(x, B) = Kept(x, B) BY KeptType, ConcatEmptySeq
        <4>5. Kept(x, A \cap B) = Kept(x, B) BY <3>1 DEF Kept
        <4> QED BY <4>1, <4>2, <4>3, <4>4, <4>5
      <3>2. CASE x \notin A
        <4>1. k = <<>> /\ Kept(x, A \cap B) = <<>> BY <3>2 DEF k, Kept
        <4>2. Keep(<<>>, B) = <<>> BY DEF Keep, FlattenSeq
        <4> QED BY <4>1, <4>2
      <3> QED BY <3>1, <3>2
    <2>6. Keep(u, B) = Keep(s, A \cap B) BY <1>2 DEF u
    <2> QED BY <2>0, <2>1, <2>2, <2>4, <2>5, <2>6
  <1> HIDE DEF T
  <1>3. \A s \in Seq(E) : s \in T BY <1>1, <1>2, SeqInduction
  <1> QED BY <1>3 DEF T

(* Removing an element of a list that holds it once: what is before it and    *)
(* what is after it stay.                                                     *)
LEMMA Middle ==
  ASSUME NEW E, NEW s \in Seq(E), IsInjective(s), NEW i \in 1 .. Len(s)
  PROVE  SubSeq(s, 1, i - 1) \o SubSeq(s, i + 1, Len(s)) = Keep(s, Range(s) \ {s[i]})
  <1> DEFINE p == SubSeq(s, 1, i - 1)
             q == SubSeq(s, i + 1, Len(s))
             r == SubSeq(s, i, Len(s))
             S == Range(s) \ {s[i]}
  <1>0. Len(s) \in Nat /\ DOMAIN s = 1 .. Len(s) /\ \A j \in 1 .. Len(s) : s[j] \in E
    BY LenProperties
  <1>1. p \in Seq(E) /\ Len(p) = i - 1 /\ \A j \in 1 .. i - 1 : p[j] = s[j]
    <2>1. \A j \in 1 .. i - 1 : s[j] \in E /\ 1 + j - 1 = j BY <1>0
    <2>2. (i - 1) - 1 + 1 = i - 1 /\ i - 1 \in Int BY <1>0
    <2> QED BY <2>1, <2>2, SubSeqProperties
  <1>2. q \in Seq(E) /\ Len(q) = Len(s) - i /\ \A j \in 1 .. Len(s) - i : q[j] = s[i + j]
    <2> DEFINE a == i + 1
               b == Len(s)
    <2>1. a \in Int /\ b \in Int /\ \A j \in a .. b : s[j] \in E BY <1>0
    <2>2. b - a + 1 = Len(s) - i /\ \A j \in 1 .. Len(s) - i : a + j - 1 = i + j BY <1>0
    <2>3. a <= b \/ b - i = 0
      <3>1. a = i + 1 /\ i \in Nat /\ i <= b /\ b \in Nat BY <1>0
      <3> HIDE DEF a, b
      <3> QED BY <3>1
    <2> HIDE DEF a, b
    <2>4. /\ SubSeq(s, a, b) \in Seq(E)
          /\ Len(SubSeq(s, a, b)) = IF a <= b THEN b - a + 1 ELSE 0
          /\ \A j \in 1 .. b - a + 1 : SubSeq(s, a, b)[j] = s[a + j - 1]
      BY <2>1, SubSeqProperties
    <2>5. Len(SubSeq(s, a, b)) = Len(s) - i
      BY <2>2, <2>3, <2>4, <1>0 DEF a, b
    <2>6. \A j \in 1 .. Len(s) - i : SubSeq(s, a, b)[j] = s[i + j] BY <2>2, <2>4
    <2> QED BY <2>4, <2>5, <2>6 DEF a, b
  <1>3. s = Append(p, s[i]) \o q
    <2> DEFINE t == Append(p, s[i])
    <2>1. /\ t \in Seq(E) /\ Len(t) = i /\ t[i] = s[i]
          /\ \A j \in 1 .. i - 1 : t[j] = s[j]
      <3>1. s[i] \in E BY <1>0
      <3>2. /\ t \in Seq(E) /\ Len(t) = Len(p) + 1 /\ t[Len(p) + 1] = s[i]
            /\ \A j \in 1 .. Len(p) : t[j] = p[j]
        BY <3>1, <1>1, AppendProperties
      <3>3. Len(p) + 1 = i BY <1>1
      <3> HIDE DEF t, p
      <3> QED BY <3>2, <3>3, <1>1
    <2> HIDE DEF t, q
    <2>2. /\ t \o q \in Seq(E) /\ Len(t \o q) = Len(t) + Len(q)
          /\ \A j \in 1 .. Len(t) + Len(q) :
               (t \o q)[j] = IF j <= Len(t) THEN t[j] ELSE q[j - Len(t)]
      BY <2>1, <1>2, ConcatProperties
    <2>3. Len(t) + Len(q) = Len(s) BY <2>1, <1>2, <1>0
    <2>4. ASSUME NEW j \in 1 .. Len(s) PROVE (t \o q)[j] = s[j]
      <3>1. CASE j <= i
        <4>1. (t \o q)[j] = t[j] BY <3>1, <2>1, <2>2, <2>3
        <4>2. j = i \/ j \in 1 .. i - 1 BY <3>1, <1>0
        <4> QED BY <4>1, <4>2, <2>1
      <3>2. CASE ~(j <= i)
        <4>1. (t \o q)[j] = q[j - i] BY <3>2, <2>1, <2>2, <2>3
        <4>2. j - i \in 1 .. Len(s) - i /\ i + (j - i) = j BY <3>2, <1>0
        <4> QED BY <4>1, <4>2, <1>2
      <3> QED BY <3>1, <3>2
    <2>5. s = t \o q BY <2>2, <2>3, <2>4, SeqEqual
    <2> QED BY <2>5 DEF t
  <1>4. s[i] \notin Range(p) /\ s[i] \notin Range(q)
    <2>1. DOMAIN p = 1 .. i - 1 /\ DOMAIN q = 1 .. Len(s) - i BY <1>1, <1>2, LenProperties
    <2>2. \A j \in 1 .. i - 1 : j \in 1 .. Len(s) /\ j # i BY <1>0
    <2>3. \A j \in 1 .. Len(s) - i : i + j \in 1 .. Len(s) /\ i + j # i BY <1>0
    <2>4. \A j \in 1 .. Len(s) : s[j] = s[i] => j = i BY <1>0 DEF IsInjective
    <2> HIDE DEF p, q
    <2>5. Range(p) = {p[j] : j \in 1 .. i - 1} BY <2>1 DEF Range
    <2>6. Range(q) = {q[j] : j \in 1 .. Len(s) - i} BY <2>1 DEF Range
    <2>7. \A j \in 1 .. i - 1 : p[j] # s[i] BY <2>2, <2>4, <1>1
    <2>8. \A j \in 1 .. Len(s) - i : q[j] # s[i] BY <2>3, <2>4, <1>2
    <2> QED BY <2>5, <2>6, <2>7, <2>8
  <1>5. Range(p) \subseteq S /\ Range(q) \subseteq S
    <2>1. s[i] \in E BY <1>0
    <2>0. p \in Seq(E) /\ q \in Seq(E) BY <1>1, <1>2
    <2> HIDE DEF p, q
    <2>2. Append(p, s[i]) \in Seq(E) /\ Range(Append(p, s[i])) = Range(p) \cup {s[i]}
      <3> DEFINE x == s[i]
      <3>0. x \in E BY <2>1
      <3> HIDE DEF x
      <3>1. Append(p, x) \in Seq(E) BY <3>0, <2>0, AppendProperties
      <3>2. Range(Append(p, x)) = Range(p) \cup {x} BY <3>0, <2>0, RangeAppend
      <3> QED BY <3>1, <3>2 DEF x
    <2>3. Range(Append(p, s[i]) \o q) = Range(Append(p, s[i])) \cup Range(q)
      <3> DEFINE t == Append(p, s[i])
      <3>1. t \in Seq(E) /\ q \in Seq(E) BY <2>2, <2>0
      <3> HIDE DEF t
      <3>2. Range(t \o q) = Range(t) \cup Range(q) BY <3>1, RangeConcatenation
      <3> QED BY <3>2 DEF t
    <2> QED BY <2>2, <2>3, <1>3, <1>4
  <1>6. Keep(s, S) = p \o q
    <2>1. s[i] \in E /\ s[i] \notin S BY <1>0
    <2> HIDE DEF p, q, S
    <2>2. Append(p, s[i]) \in Seq(E) BY <2>1, <1>1, AppendProperties
    <2>3. Keep(Append(p, s[i]) \o q, S) = Keep(Append(p, s[i]), S) \o Keep(q, S)
      BY <2>2, <1>2, KeepConcat
    <2>4. Keep(Append(p, s[i]), S) = Keep(p, S) \o Kept(s[i], S) BY <2>1, <1>1, KeepAppend
    <2>5. Kept(s[i], S) = <<>> BY <2>1 DEF Kept
    <2>6. Keep(p, S) = p /\ Keep(q, S) = q BY <1>1, <1>2, <1>5, KeepAll
    <2>7. p \o <<>> = p BY <1>1, ConcatEmptySeq
    <2> QED BY <2>3, <2>4, <2>5, <2>6, <2>7, <1>3
  <1> QED BY <1>6

LEMMA RemoveFirstOnce ==
  ASSUME NEW E, NEW s \in Seq(E), IsInjective(s), NEW e
  PROVE  RemoveFirst(s, e) = Keep(s, Range(s) \ {e})
  <1>0. Len(s) \in Nat /\ Range(s) = {s[i] : i \in 1 .. Len(s)} BY LenProperties, RangeEquality
  <1>1. CASE \E i \in 1 .. Len(s) : s[i] = e
    <2> DEFINE I == {i \in 1 .. Len(s) : s[i] = e}
    <2>1. PICK m \in I : \A k \in I : m <= k
      <3>1. I \in SUBSET Nat /\ I # {} BY <1>1
      <3> HIDE DEF I
      <3> QED BY <3>1, LeastNat
    <2>2. \E x \in I : \A y \in I : x =< y BY <2>1
    <2>3. Min(I) \in I BY <2>2 DEF Min
    <2>4. RemoveFirst(s, e) = RemoveAt(s, Min(I)) BY <1>1 DEF RemoveFirst, SelectInSeq
    <2> DEFINE k == Min(I)
    <2>5. k \in 1 .. Len(s) /\ s[k] = e BY <2>3
    <2> HIDE DEF I, k
    <2>6. RemoveAt(s, k) = SubSeq(s, 1, k - 1) \o SubSeq(s, k + 1, Len(s)) BY DEF RemoveAt
    <2>7. SubSeq(s, 1, k - 1) \o SubSeq(s, k + 1, Len(s)) = Keep(s, Range(s) \ {s[k]})
      BY <2>5, Middle
    <2> QED BY <2>4, <2>5, <2>6, <2>7 DEF k
  <1>2. CASE ~(\E i \in 1 .. Len(s) : s[i] = e)
    <2>1. RemoveFirst(s, e) = s BY <1>2 DEF RemoveFirst
    <2>2. Range(s) \subseteq Range(s) \ {e} BY <1>0, <1>2
    <2> QED BY <2>1, <2>2, KeepAll
  <1> QED BY <1>1, <1>2

(* From a list that holds nothing twice, removing the first entry of each of  *)
(* a list of elements leaves the others in their order.                       *)
LEMMA RemoveFirstsKeep ==
  ASSUME NEW E, NEW D, NEW s \in Seq(E), IsInjective(s)
  PROVE  \A xs \in Seq(D) : RemoveFirsts(s, xs) = Keep(s, Range(s) \ Range(xs))
  <1> DEFINE T == {xs \in Seq(D) : RemoveFirsts(s, xs) = Keep(s, Range(s) \ Range(xs))}
  <1>1. <<>> \in T
    <2>1. <<>> \in Seq(D) /\ Range(<<>>) = {} BY EmptySeq, RangeEmpty
    <2>2. RemoveFirsts(s, <<>>) = s
      <3>1. \A x \in {0} : RemoveFirsts(s, <<>>) = s BY EmptySeq, RemoveFirstsAppend
      <3> QED BY <3>1
    <2>3. Keep(s, Range(s)) = s BY KeepAll
    <2>4. Range(s) \ Range(<<>>) = Range(s) BY <2>1
    <2> QED BY <2>1, <2>2, <2>3, <2>4
  <1>2. ASSUME NEW xs \in Seq(D), NEW x \in D, xs \in T PROVE Append(xs, x) \in T
    <2> DEFINE A == Range(s) \ Range(xs)
               u == Keep(s, A)
               B == Range(u) \ {x}
               C == Range(s) \ Range(Append(xs, x))
    <2>1. RemoveFirsts(s, Append(xs, x)) = RemoveFirst(u, x) BY <1>2, RemoveFirstsAppend
    <2>2. u \in Seq(E) /\ Range(u) = Range(s) \cap A /\ IsInjective(u) BY KeepFacts
    <2>3. RemoveFirst(u, x) = Keep(u, B)
      <3> HIDE DEF u
      <3> QED BY <2>2, RemoveFirstOnce
    <2>4. Keep(u, B) = Keep(s, A \cap B)
      <3> HIDE DEF A, B
      <3> QED BY KeepKeep DEF u
    <2>5. Range(Append(xs, x)) = Range(xs) \cup {x} BY RangeAppend
    <2>6. Range(s) \cap (A \cap B) = Range(s) \cap C
      <3> HIDE DEF u
      <3> QED BY <2>2, <2>5
    <2>7. Keep(s, A \cap B) = Keep(s, C)
      <3> DEFINE G == A \cap B
      <3> HIDE DEF A, B, C, G
      <3>1. Range(s) \cap G = Range(s) \cap C BY <2>6 DEF G
      <3>2. Keep(s, G) = Keep(s, C) BY <3>1, KeepSame
      <3> QED BY <3>2 DEF G
    <2>8. Append(xs, x) \in Seq(D) BY AppendProperties
    <2> HIDE DEF A, B, u
    <2> QED BY <2>1, <2>3, <2>4, <2>7, <2>8
  <1> HIDE DEF T
  <1>3. \A xs \in Seq(D) : xs \in T BY <1>1, <1>2, SeqInduction
  <1> QED BY <1>3 DEF T

LEMMA ReverseFacts ==
  ASSUME NEW E, NEW s \in Seq(E)
  PROVE  /\ Reverse(s) \in Seq(E) /\ Len(Reverse(s)) = Len(s)
         /\ \A i \in 1 .. Len(s) : Reverse(s)[i] = s[(Len(s) - i) + 1]
         /\ Range(Reverse(s)) = Range(s)
         /\ IsInjective(s) => IsInjective(Reverse(s))
         /\ Reverse(Reverse(s)) = s
  <1> DEFINE n == Len(s)
             r == Reverse(s)
  <1>0. n \in Nat /\ DOMAIN s = 1 .. n /\ (\A i \in 1 .. n : s[i] \in E) BY LenProperties
  <1>1. \A i \in 1 .. n : (n - i) + 1 \in 1 .. n /\ (n - ((n - i) + 1)) + 1 = i
    <2> HIDE DEF n
    <2> QED BY <1>0
  <1>2. r = [i \in 1 .. n |-> s[(n - i) + 1]] BY DEF Reverse
  <1> HIDE DEF r, n
  <1>3. r \in Seq(E) /\ Len(r) = n /\ DOMAIN r = 1 .. n
    <2>1. \A i \in 1 .. n : s[(n - i) + 1] \in E BY <1>0, <1>1
    <2>2. r \in [1 .. n -> E] BY <1>2, <2>1
    <2>3. r \in Seq(E) BY <2>2, <1>0, SeqDef
    <2>4. DOMAIN r = 1 .. n BY <1>2
    <2> QED BY <2>3, <2>4, <1>0, LenProperties
  <1>4. \A i \in 1 .. n : r[i] = s[(n - i) + 1] BY <1>2
  <1>5. Range(r) = Range(s)
    <2>1. Range(r) = {r[i] : i \in 1 .. n} /\ Range(s) = {s[i] : i \in 1 .. n} BY <1>0, <1>3 DEF Range
    <2>2. \A i \in 1 .. n : \E j \in 1 .. n : r[i] = s[j] BY <1>1, <1>4
    <2>3. \A j \in 1 .. n : \E i \in 1 .. n : r[i] = s[j]
      <3> TAKE j \in 1 .. n
      <3>1. (n - j) + 1 \in 1 .. n /\ r[(n - j) + 1] = s[j] BY <1>1, <1>4
      <3> QED BY <3>1
    <2>4. Range(r) \subseteq Range(s) BY <2>1, <2>2
    <2>5. Range(s) \subseteq Range(r) BY <2>1, <2>3
    <2> QED BY <2>4, <2>5
  <1>6. ASSUME IsInjective(s) PROVE IsInjective(r)
    <2> SUFFICES ASSUME NEW i \in 1 .. n, NEW j \in 1 .. n, r[i] = r[j] PROVE i = j
      BY <1>3 DEF IsInjective
    <2>1. s[(n - i) + 1] = s[(n - j) + 1] BY <1>4
    <2>2. (n - i) + 1 = (n - j) + 1 BY <2>1, <1>0, <1>1, <1>6 DEF IsInjective
    <2> QED BY <2>2, <1>0
  <1>7. Reverse(r) = s
    <2>1. Reverse(r) = [i \in 1 .. n |-> r[(n - i) + 1]] BY <1>3 DEF Reverse
    <2>2. \A i \in 1 .. n : r[(n - i) + 1] = s[i] BY <1>1, <1>4
    <2>3. s = [i \in 1 .. n |-> s[i]]
      <3>1. s \in [1 .. n -> E] BY <1>0, LenProperties DEF n
      <3> QED BY <3>1
    <2> QED BY <2>1, <2>2, <2>3
  <1> QED BY <1>3, <1>4, <1>5, <1>6, <1>7 DEF r, n

LEMMA ReverseConcat ==
  ASSUME NEW E, NEW s \in Seq(E), NEW t \in Seq(E)
  PROVE  Reverse(s \o t) = Reverse(t) \o Reverse(s)
  <1> DEFINE m == Len(s)
             n == Len(t)
             u == s \o t
             p == Reverse(s)
             q == Reverse(t)
  <1>0. m \in Nat /\ n \in Nat BY LenProperties
  <1>1. u \in Seq(E) /\ Len(u) = m + n
        /\ \A i \in 1 .. m + n : u[i] = IF i <= m THEN s[i] ELSE t[i - m]
    BY ConcatProperties
  <1>2. p \in Seq(E) /\ Len(p) = m /\ \A i \in 1 .. m : p[i] = s[(m - i) + 1] BY ReverseFacts
  <1>3. q \in Seq(E) /\ Len(q) = n /\ \A i \in 1 .. n : q[i] = t[(n - i) + 1] BY ReverseFacts
  <1> HIDE DEF m, n, u, p, q
  <1>4. /\ Reverse(u) \in Seq(E) /\ Len(Reverse(u)) = m + n
        /\ \A i \in 1 .. m + n : Reverse(u)[i] = u[((m + n) - i) + 1]
    BY <1>1, ReverseFacts
  <1>5. /\ q \o p \in Seq(E) /\ Len(q \o p) = n + m
        /\ \A i \in 1 .. n + m : (q \o p)[i] = IF i <= n THEN q[i] ELSE p[i - n]
    <2>1. q \in Seq(E) /\ p \in Seq(E) BY <1>2, <1>3
    <2>2. /\ q \o p \in Seq(E) /\ Len(q \o p) = Len(q) + Len(p)
          /\ \A i \in 1 .. Len(q) + Len(p) :
               (q \o p)[i] = IF i <= Len(q) THEN q[i] ELSE p[i - Len(q)]
      BY <2>1, ConcatProperties
    <2>3. Len(q) = n /\ Len(p) = m BY <1>2, <1>3
    <2> QED BY <2>2, <2>3
  <1>6. ASSUME NEW i \in 1 .. m + n PROVE Reverse(u)[i] = (q \o p)[i]
    <2>1. Reverse(u)[i] = u[((m + n) - i) + 1] BY <1>4
    <2>2. CASE i <= n
      <3>1. (q \o p)[i] = t[(n - i) + 1]
        <4>1. i \in 1 .. n /\ i \in 1 .. n + m BY <1>0, <2>2
        <4> QED BY <4>1, <1>3, <1>5, <2>2
      <3>2. u[((m + n) - i) + 1] = t[(n - i) + 1]
        <4> DEFINE j == ((m + n) - i) + 1
        <4>1. j \in 1 .. m + n /\ ~(j <= m) /\ j - m = (n - i) + 1 BY <1>0, <2>2
        <4> HIDE DEF j
        <4>2. u[j] = t[j - m] BY <4>1, <1>1
        <4> QED BY <4>1, <4>2 DEF j
      <3> QED BY <2>1, <3>1, <3>2
    <2>3. CASE ~(i <= n)
      <3>1. (q \o p)[i] = s[(m - (i - n)) + 1]
        <4>1. i - n \in 1 .. m /\ i \in 1 .. n + m BY <1>0, <2>3
        <4> QED BY <4>1, <1>2, <1>5, <2>3
      <3>2. u[((m + n) - i) + 1] = s[(m - (i - n)) + 1]
        <4> DEFINE j == ((m + n) - i) + 1
        <4>1. j \in 1 .. m + n /\ j <= m /\ j = (m - (i - n)) + 1 BY <1>0, <2>3
        <4> HIDE DEF j
        <4>2. u[j] = s[j] BY <4>1, <1>1
        <4> QED BY <4>1, <4>2 DEF j
      <3> QED BY <2>1, <3>1, <3>2
    <2> QED BY <2>2, <2>3
  <1>7. m + n = n + m BY <1>0
  <1>8. Reverse(u) = q \o p BY <1>4, <1>5, <1>6, <1>7, SeqEqual
  <1> QED BY <1>8 DEF u, p, q

LEMMA KeepReverse ==
  ASSUME NEW E, NEW S
  PROVE  \A s \in Seq(E) : Keep(Reverse(s), S) = Reverse(Keep(s, S))
  <1> DEFINE T == {s \in Seq(E) : Keep(Reverse(s), S) = Reverse(Keep(s, S))}
  <1>0. Keep(<<>>, S) = <<>> BY DEF Keep, FlattenSeq
  <1>00. Reverse(<<>>) = <<>> BY DEF Reverse
  <1>1. <<>> \in T
    <2>1. <<>> \in Seq(E) BY EmptySeq
    <2> QED BY <1>0, <1>00, <2>1
  <1>2. ASSUME NEW s \in Seq(E), NEW x \in E, s \in T PROVE Append(s, x) \in T
    <2> DEFINE k == Kept(x, S)
               u == Keep(s, S)
               r == Reverse(s)
               o == <<x>>
    <2>1. Append(s, x) \in Seq(E) /\ o \in Seq(E) BY AppendProperties, Singleton
    <2>2. Append(s, x) = s \o o BY AppendIsConcat
    <2>3. Keep(Append(s, x), S) = u \o k BY KeepAppend
    <2>4. k \in Seq(E) /\ u \in Seq(E) /\ r \in Seq(E) BY KeptType, KeepFacts, ReverseFacts
    <2>5. Reverse(o) = o BY DEF Reverse
    <2>6. Reverse(k) = k BY <2>5, <1>00 DEF Kept
    <2>7. Keep(o, S) = k
      <3>1. <<>> \in Seq(E) /\ Append(<<>>, x) = o BY EmptySeq
      <3>2. Keep(Append(<<>>, x), S) = Keep(<<>>, S) \o k BY <3>1, KeepAppend
      <3>3. <<>> \o k = k
        <4> HIDE DEF k
        <4> QED BY <2>4, ConcatEmptySeq
      <3> QED BY <3>1, <3>2, <3>3, <1>0
    <2>8. Keep(r, S) = Reverse(u) BY <1>2
    <2> HIDE DEF k, u, r, o
    <2>9. Reverse(s \o o) = o \o r BY <2>1, <2>5, ReverseConcat DEF r
    <2>10. Reverse(u \o k) = k \o Reverse(u) BY <2>4, <2>6, ReverseConcat
    <2>11. Keep(o \o r, S) = k \o Keep(r, S) BY <2>1, <2>4, <2>7, KeepConcat
    <2> QED BY <2>1, <2>2, <2>3, <2>8, <2>9, <2>10, <2>11
  <1> HIDE DEF T
  <1>3. \A s \in Seq(E) : s \in T BY <1>1, <1>2, SeqInduction
  <1> QED BY <1>3 DEF T

(* So does removing the last entry of each, and all the entries of them. *)
LEMMA RemovalsAgree ==
  ASSUME NEW E, NEW s \in Seq(E), IsInjective(s), NEW D, NEW xs \in Seq(D)
  PROVE  /\ RemoveFirsts(s, xs) = Without(s, xs)
         /\ RemoveLasts(s, xs) = Without(s, xs)
  <1> DEFINE A == Range(s) \ Range(xs)
             r == Reverse(s)
  <1>1. RemoveFirsts(s, xs) = Keep(s, A) BY RemoveFirstsKeep
  <1>2. r \in Seq(E) /\ IsInjective(r) /\ Range(r) = Range(s) BY ReverseFacts
  <1>3. RemoveFirsts(r, xs) = Keep(r, A)
    <2> HIDE DEF r
    <2>1. RemoveFirsts(r, xs) = Keep(r, Range(r) \ Range(xs)) BY <1>2, RemoveFirstsKeep
    <2> QED BY <1>2, <2>1
  <1>4. Keep(r, A) = Reverse(Keep(s, A))
    <2> HIDE DEF A
    <2> QED BY KeepReverse
  <1>5. Keep(s, A) \in Seq(E)
    <2> HIDE DEF A
    <2> QED BY KeepFacts
  <1>6. Reverse(Reverse(Keep(s, A))) = Keep(s, A)
    <2> DEFINE u == Keep(s, A)
    <2>1. u \in Seq(E) BY <1>5
    <2> HIDE DEF u
    <2>2. Reverse(Reverse(u)) = u BY <2>1, ReverseFacts
    <2> QED BY <2>2 DEF u
  <1>7. RemoveLasts(s, xs) = Keep(s, A) BY <1>3, <1>4, <1>6 DEF RemoveLasts
  <1>8. Without(s, xs) = Keep(s, A) BY DEF Without
  <1> QED BY <1>1, <1>7, <1>8

LEMMA WithoutFacts ==
  ASSUME NEW E, NEW s \in Seq(E), NEW xs
  PROVE  /\ Without(s, xs) \in Seq(E)
         /\ Range(Without(s, xs)) = Range(s) \ Range(xs)
         /\ IsInjective(s) => IsInjective(Without(s, xs))
  <1> DEFINE A == Range(s) \ Range(xs)
  <1>1. Without(s, xs) = Keep(s, A) BY DEF Without
  <1>2. Range(s) \cap A = A OBVIOUS
  <1> HIDE DEF A
  <1>3. /\ Keep(s, A) \in Seq(E)
        /\ Range(Keep(s, A)) = Range(s) \cap A
        /\ IsInjective(s) => IsInjective(Keep(s, A))
    BY KeepFacts
  <1> QED BY <1>1, <1>2, <1>3 DEF A

(* The two stores' lists of the same entries: each other's reverse, for every *)
(* length.                                                                    *)
LEMMA ListsAgree ==
  ASSUME NEW E, NEW s \in Seq(E), NEW n \in Nat
  PROVE  dbList(s, n) = Reverse(memList(s, n))
  <1> DEFINE l == Len(s)
             m == Min({n, l})
             r == Reverse(s)
             a == l - m + 1
             u == SubSeq(s, a, l)
             v == SubSeq(r, 1, m)
  <1>0. l \in Nat /\ \A i \in 1 .. l : s[i] \in E BY LenProperties
  <1>1. m \in Nat /\ m <= l
    <2> HIDE DEF l
    <2>1. m = n \/ m = l
      <3> DEFINE S == {n, l}
      <3>1. \E x \in S : \A y \in S : x =< y
        <4>1. n \in S /\ l \in S /\ (\A y \in S : y = n \/ y = l) OBVIOUS
        <4> HIDE DEF S
        <4>2. CASE n =< l BY <4>1, <4>2, <1>0
        <4>3. CASE l =< n BY <4>1, <4>3, <1>0
        <4> QED BY <4>2, <4>3, <1>0
      <3>2. Min(S) \in S BY <3>1 DEF Min
      <3> QED BY <3>2
    <2>2. m =< l
      <3> DEFINE S == {n, l}
      <3>1. \E x \in S : \A y \in S : x =< y
        <4>1. n \in S /\ l \in S /\ (\A y \in S : y = n \/ y = l) OBVIOUS
        <4> HIDE DEF S
        <4>2. CASE n =< l BY <4>1, <4>2, <1>0
        <4>3. CASE l =< n BY <4>1, <4>3, <1>0
        <4> QED BY <4>2, <4>3, <1>0
      <3>2. \A y \in S : Min(S) =< y BY <3>1 DEF Min
      <3> QED BY <3>2
    <2> HIDE DEF m
    <2> QED BY <1>0, <2>1, <2>2
  <1>2. r \in Seq(E) /\ Len(r) = l /\ \A i \in 1 .. l : r[i] = s[(l - i) + 1] BY ReverseFacts
  <1> HIDE DEF l, m, r
  <1>3. u \in Seq(E) /\ Len(u) = m /\ \A i \in 1 .. m : u[i] = s[(l - m) + i]
    <2>1. a \in Int /\ l \in Int /\ \A i \in a .. l : s[i] \in E BY <1>0, <1>1
    <2>2. (l - a) + 1 = m /\ (a <= l \/ m = 0) BY <1>0, <1>1
    <2>3. \A i \in 1 .. m : (a + i) - 1 = (l - m) + i BY <1>0, <1>1
    <2>a. ~(a <= l) => m = 0 BY <2>2
    <2> HIDE DEF a
    <2>4. /\ u \in Seq(E)
          /\ Len(u) = IF a <= l THEN l - a + 1 ELSE 0
          /\ \A j \in 1 .. l - a + 1 : u[j] = s[a + j - 1]
      BY <2>1, SubSeqProperties
    <2> HIDE DEF u
    <2>5. Len(u) = m BY <2>2, <2>4, <2>a
    <2>6. ASSUME NEW j \in 1 .. m PROVE u[j] = s[(l - m) + j]
      <3>1. j \in 1 .. l - a + 1 /\ a + j - 1 = (l - m) + j BY <2>1, <2>2, <2>3, <1>1
      <3>2. u[j] = s[a + j - 1] BY <2>4, <3>1
      <3> QED BY <3>1, <3>2
    <2> QED BY <2>4, <2>5, <2>6
  <1>4. v \in Seq(E) /\ Len(v) = m /\ \A i \in 1 .. m : v[i] = r[i]
    <2>1. \A i \in 1 .. l : (l - i) + 1 \in 1 .. l BY <1>0
    <2>2. \A i \in 1 .. m : i \in 1 .. l BY <1>0, <1>1
    <2>3. \A i \in 1 .. m : r[i] \in E BY <1>0, <1>2, <2>1, <2>2
    <2>4. /\ v \in Seq(E)
          /\ Len(v) = IF 1 <= m THEN m - 1 + 1 ELSE 0
          /\ \A j \in 1 .. m - 1 + 1 : v[j] = r[1 + j - 1]
      BY <2>3, <1>1, SubSeqProperties
    <2>5. m - 1 + 1 = m /\ (~(1 <= m) => m = 0) /\ \A j \in 1 .. m : 1 + j - 1 = j BY <1>1
    <2> HIDE DEF v
    <2> QED BY <2>4, <2>5
  <1> HIDE DEF u, v
  <1>5. /\ Reverse(u) \in Seq(E) /\ Len(Reverse(u)) = m
        /\ \A i \in 1 .. m : Reverse(u)[i] = u[(m - i) + 1]
    BY <1>3, ReverseFacts
  <1>6. ASSUME NEW i \in 1 .. m PROVE v[i] = Reverse(u)[i]
    <2>1. (m - i) + 1 \in 1 .. m /\ (l - m) + ((m - i) + 1) = (l - i) + 1 /\ i \in 1 .. l
      BY <1>0, <1>1
    <2>2. v[i] = s[(l - i) + 1] BY <2>1, <1>2, <1>4
    <2>3. Reverse(u)[i] = u[(m - i) + 1] BY <1>5
    <2>4. u[(m - i) + 1] = s[(l - m) + ((m - i) + 1)] BY <2>1, <1>3
    <2> QED BY <2>1, <2>2, <2>3, <2>4
  <1>7. v = Reverse(u) BY <1>4, <1>5, <1>6, SeqEqual
  <1>8. dbList(s, n) = v BY DEF dbList, v, m, l, r
  <1>9. memList(s, n) = u BY DEF memList, u, a, m, l
  <1> QED BY <1>7, <1>8, <1>9

-----------------------------------------------------------------------------
(* Chains of blocks. *)
Txns == DOMAIN Txn
Blocks == [id: Nat \X Nat, txns: Seq(Txns), payout: 0 .. MaxAddr]
Changes == [revert: Nat, blocks: Seq(Blocks)]

TxnsIn(blocks) == UNION {Range(b.txns) : b \in Range(blocks)}

TxnParts(chain) == [h \in DOMAIN chain |-> chain[h].txns]

LEMMA PartsType ==
  ASSUME NEW k \in Seq(Blocks)
  PROVE  /\ TxnParts(k) \in Seq(Seq(Txns)) /\ Len(TxnParts(k)) = Len(k)
         /\ DOMAIN TxnParts(k) = 1 .. Len(k)
         /\ \A i \in 1 .. Len(k) : TxnParts(k)[i] = k[i].txns /\ k[i].txns \in Seq(Txns)
  <1> DEFINE p == TxnParts(k)
             n == Len(k)
  <1>1. n \in Nat /\ DOMAIN k = 1 .. n /\ \A i \in 1 .. n : k[i] \in Blocks BY LenProperties
  <1>2. \A i \in 1 .. n : k[i].txns \in Seq(Txns) BY <1>1 DEF Blocks
  <1>3. p = [i \in 1 .. n |-> k[i].txns] BY <1>1 DEF TxnParts
  <1> HIDE DEF p, n
  <1>4. p \in [1 .. n -> Seq(Txns)] BY <1>2, <1>3
  <1>5. p \in Seq(Seq(Txns)) BY <1>1, <1>4, SeqDef
  <1>6. Len(p) = n /\ DOMAIN p = 1 .. n BY <1>1, <1>3, <1>5, LenProperties
  <1>7. \A i \in 1 .. n : p[i] = k[i].txns BY <1>3
  <1> QED BY <1>2, <1>5, <1>6, <1>7 DEF p, n

LEMMA TxnsConcat ==
  ASSUME NEW k \in Seq(Blocks), NEW b \in Seq(Blocks)
  PROVE  TxnsOf(k \o b) = TxnsOf(k) \o TxnsOf(b)
  <1> DEFINE c == k \o b
             m == Len(k)
             n == Len(b)
             p == TxnParts(k)
             q == TxnParts(b)
             r == TxnParts(c)
  <1>0. m \in Nat /\ n \in Nat BY LenProperties
  <1>1. c \in Seq(Blocks) /\ Len(c) = m + n
        /\ \A i \in 1 .. m + n : c[i] = IF i <= m THEN k[i] ELSE b[i - m]
    BY ConcatProperties
  <1>2. p \in Seq(Seq(Txns)) /\ Len(p) = m /\ \A i \in 1 .. m : p[i] = k[i].txns BY PartsType
  <1>3. q \in Seq(Seq(Txns)) /\ Len(q) = n /\ \A i \in 1 .. n : q[i] = b[i].txns BY PartsType
  <1> HIDE DEF c
  <1>4. r \in Seq(Seq(Txns)) /\ Len(r) = m + n /\ \A i \in 1 .. m + n : r[i] = c[i].txns
    BY <1>1, PartsType
  <1> HIDE DEF m, n, p, q, r
  <1>5. /\ p \o q \in Seq(Seq(Txns)) /\ Len(p \o q) = m + n
        /\ \A i \in 1 .. m + n : (p \o q)[i] = IF i <= m THEN p[i] ELSE q[i - m]
    BY <1>2, <1>3, ConcatProperties
  <1>6. ASSUME NEW i \in 1 .. m + n PROVE r[i] = (p \o q)[i]
    <2>1. CASE i <= m
      <3>1. i \in 1 .. m BY <1>0, <2>1
      <3> QED BY <2>1, <3>1, <1>1, <1>2, <1>4, <1>5
    <2>2. CASE ~(i <= m)
      <3>1. i - m \in 1 .. n BY <1>0, <2>2
      <3> QED BY <2>2, <3>1, <1>1, <1>3, <1>4, <1>5
    <2> QED BY <2>1, <2>2
  <1>7. r = p \o q BY <1>4, <1>5, <1>6, SeqEqual
  <1>8. FlattenSeq(p \o q) = FlattenSeq(p) \o FlattenSeq(q) BY <1>2, <1>3, FlattenConcat
  <1> QED BY <1>7, <1>8 DEF TxnsOf, TxnParts, p, q, r, c

LEMMA TxnsType ==
  ASSUME NEW k \in Seq(Blocks)
  PROVE  TxnsOf(k) \in Seq(Txns) /\ Range(TxnsOf(k)) = TxnsIn(k)
  <1> DEFINE p == TxnParts(k)
  <1>1. /\ p \in Seq(Seq(Txns)) /\ DOMAIN p = 1 .. Len(k)
        /\ \A i \in 1 .. Len(k) : p[i] = k[i].txns
    BY PartsType
  <1>2. TxnsOf(k) = FlattenSeq(p) BY DEF TxnsOf, TxnParts
  <1> HIDE DEF p
  <1>3. FlattenSeq(p) \in Seq(Txns) BY <1>1, FlattenType
  <1>4. Range(FlattenSeq(p)) = UNION {Range(p[i]) : i \in DOMAIN p} BY <1>1, FlattenRange
  <1>5. Range(k) = {k[i] : i \in 1 .. Len(k)} BY RangeEquality
  <1>6. UNION {Range(p[i]) : i \in DOMAIN p} = TxnsIn(k)
    <2>1. \A t : t \in UNION {Range(p[i]) : i \in DOMAIN p}
                   <=> \E i \in 1 .. Len(k) : t \in Range(k[i].txns)
      BY <1>1
    <2>2. \A t : t \in TxnsIn(k) <=> \E i \in 1 .. Len(k) : t \in Range(k[i].txns)
      BY <1>5 DEF TxnsIn
    <2> QED BY <2>1, <2>2
  <1> QED BY <1>2, <1>3, <1>4, <1>6

LEMMA TxnsNone == TxnsOf(<<>>) = <<>>
  <1>1. <<>> \in Seq(Seq(Txns)) /\ <<>> \in Seq(Txns) BY EmptySeq
  <1>2. FlattenSeq(<<>>) = <<>> BY <1>1, FlattenAppend
  <1>3. TxnParts(<<>>) = <<>> BY DEF TxnParts
  <1> QED BY <1>2, <1>3 DEF TxnsOf, TxnParts

(* A chain cut in two. *)
LEMMA Cut ==
  ASSUME NEW E, NEW c \in Seq(E), NEW k \in 0 .. Len(c)
  PROVE  /\ SubSeq(c, 1, k) \in Seq(E) /\ Len(SubSeq(c, 1, k)) = k
         /\ SubSeq(c, k + 1, Len(c)) \in Seq(E) /\ Len(SubSeq(c, k + 1, Len(c))) = Len(c) - k
         /\ c = SubSeq(c, 1, k) \o SubSeq(c, k + 1, Len(c))
  <1> DEFINE n == Len(c)
             p == SubSeq(c, 1, k)
             q == SubSeq(c, k + 1, n)
  <1>0. n \in Nat /\ (\A i \in 1 .. n : c[i] \in E) /\ k \in Nat /\ k <= n BY LenProperties
  <1>c. p \o q = c
    <2>1. 1 \in 1 .. n + 1 /\ k \in 1 - 1 .. n /\ n \in k .. n
      <3> HIDE DEF n
      <3> QED BY <1>0
    <2>2. SubSeq(c, 1, k) \o SubSeq(c, k + 1, n) = SubSeq(c, 1, n) BY <2>1, ConcatAdjacentSubSeq
    <2>3. SubSeq(c, 1, n) = c BY SubSeqFull
    <2> QED BY <2>2, <2>3
  <1> HIDE DEF n
  <1>1. p \in Seq(E) /\ Len(p) = k
    <2>1. \A i \in 1 .. k : c[i] \in E BY <1>0
    <2>2. p \in Seq(E) /\ Len(p) = IF 1 <= k THEN k - 1 + 1 ELSE 0 BY <2>1, <1>0, SubSeqProperties
    <2>3. (IF 1 <= k THEN k - 1 + 1 ELSE 0) = k BY <1>0
    <2> QED BY <2>2, <2>3
  <1>2. q \in Seq(E) /\ Len(q) = n - k
    <2>1. k + 1 \in Int /\ n \in Int /\ \A i \in k + 1 .. n : c[i] \in E BY <1>0
    <2>2. q \in Seq(E) /\ Len(q) = IF k + 1 <= n THEN n - (k + 1) + 1 ELSE 0
      BY <2>1, SubSeqProperties
    <2>3. (IF k + 1 <= n THEN n - (k + 1) + 1 ELSE 0) = n - k BY <1>0
    <2> QED BY <2>2, <2>3
  <1> QED BY <1>1, <1>2, <1>c DEF p, q, n

(* The second part of a concatenation. *)
LEMMA Rest ==
  ASSUME NEW E, NEW s \in Seq(E), NEW t \in Seq(E)
  PROVE  SubSeq(s \o t, Len(s) + 1, Len(s \o t)) = t
  <1> DEFINE c == s \o t
             m == Len(s)
             n == Len(t)
             u == SubSeq(c, m + 1, m + n)
  <1>0. m \in Nat /\ n \in Nat /\ (\A i \in 1 .. n : t[i] \in E) BY LenProperties
  <1>1. c \in Seq(E) /\ Len(c) = m + n
        /\ \A i \in 1 .. m + n : c[i] = IF i <= m THEN s[i] ELSE t[i - m]
    BY ConcatProperties
  <1>2. \A i \in 1 .. m + n : c[i] \in E
    <2> HIDE DEF c, m, n
    <2> QED BY <1>1, <1>0, ElementOfSeq
  <1> HIDE DEF c, m, n
  <1>3. /\ u \in Seq(E) /\ Len(u) = n
        /\ \A i \in 1 .. n : u[i] = c[m + i]
    <2> DEFINE a == m + 1
               b == m + n
    <2>1. a \in Int /\ b \in Int /\ \A i \in a .. b : c[i] \in E BY <1>0, <1>2
    <2>2. b - a + 1 = n /\ (~(a <= b) => n = 0) BY <1>0
    <2>3. \A i \in 1 .. n : a + i - 1 = m + i BY <1>0
    <2> HIDE DEF a, b
    <2>4. /\ SubSeq(c, a, b) \in Seq(E)
          /\ Len(SubSeq(c, a, b)) = IF a <= b THEN b - a + 1 ELSE 0
          /\ \A i \in 1 .. b - a + 1 : SubSeq(c, a, b)[i] = c[a + i - 1]
      BY <2>1, SubSeqProperties
    <2>5. u = SubSeq(c, a, b) BY DEF a, b, u
    <2> HIDE DEF u
    <2>6. u \in Seq(E) /\ Len(u) = n BY <2>2, <2>4, <2>5
    <2>7. ASSUME NEW i \in 1 .. n PROVE u[i] = c[m + i]
      <3>1. i \in 1 .. b - a + 1 /\ a + i - 1 = m + i BY <2>2, <2>3
      <3>2. u[i] = c[a + i - 1] BY <2>4, <2>5, <3>1
      <3> QED BY <3>1, <3>2
    <2> QED BY <2>6, <2>7
  <1> HIDE DEF u
  <1>4. ASSUME NEW i \in 1 .. n PROVE u[i] = t[i]
    <2>1. m + i \in 1 .. m + n /\ ~(m + i <= m) /\ (m + i) - m = i BY <1>0
    <2> QED BY <2>1, <1>1, <1>3
  <1>5. u = t
    <2>1. Len(t) = n BY DEF n
    <2> QED BY <1>3, <1>4, <2>1, SeqEqual
  <1> QED BY <1>5, <1>1 DEF u, c, m

-----------------------------------------------------------------------------
(* The chain after n changes. *)
LEMMA ChainFacts ==
  ASSUME NEW l \in Seq(Changes)
  PROVE  /\ ChainOf(SubSeq(l, 1, 0)) = <<>>
         /\ \A n \in 1 .. Len(l) :
              ChainOf(SubSeq(l, 1, n)) = Extend(ChainOf(SubSeq(l, 1, n - 1)), l[n])
         /\ ChainOf(SubSeq(l, 1, Len(l))) = ChainOf(l)
  <1>0. Len(l) \in Nat /\ \A n \in 1 .. Len(l) : l[n] \in Changes BY LenProperties
  <1>1. ChainOf(SubSeq(l, 1, 0)) = <<>>
    <2>1. SubSeq(l, 1, 0) = <<>> BY SubSeqEmpty
    <2>2. <<>> \in Seq({0}) /\ 0 \in {0} BY EmptySeq
    <2>3. ChainOf(<<>>) = <<>> BY <2>2, ChainOfAppend
    <2> QED BY <2>1, <2>3
  <1>2. ASSUME NEW n \in 1 .. Len(l)
        PROVE  ChainOf(SubSeq(l, 1, n)) = Extend(ChainOf(SubSeq(l, 1, n - 1)), l[n])
    <2> DEFINE p == SubSeq(l, 1, n - 1)
    <2>1. SubSeq(l, 1, n) = p \o <<l[n]>>
      <3>1. 1 \in 1 .. Len(l) /\ n \in 1 .. Len(l) BY <1>0
      <3> QED BY <3>1, SubSeqRecursiveSecond
    <2>2. p \in Seq(Changes)
      <3>1. n - 1 \in 0 .. Len(l) BY <1>0
      <3>2. n - 1 \in Int /\ 1 \in Int /\ \A i \in 1 .. n - 1 : l[i] \in Changes BY <1>0
      <3> QED BY <3>2, SubSeqProperties
    <2>3. l[n] \in Changes BY <1>0
    <2> HIDE DEF p
    <2>4. p \o <<l[n]>> = Append(p, l[n]) BY <2>2, <2>3, AppendIsConcat
    <2>5. ChainOf(Append(p, l[n])) = Extend(ChainOf(p), l[n]) BY <2>2, <2>3, ChainOfAppend
    <2> QED BY <2>1, <2>4, <2>5 DEF p
  <1>3. SubSeq(l, 1, Len(l)) = l BY SubSeqFull
  <1> QED BY <1>1, <1>2, <1>3

(* One more element leaves the prefixes of a sequence. *)
LEMMA PrefixOfAppend ==
  ASSUME NEW E, NEW c \in Seq(E), NEW b \in E, NEW n \in 0 .. Len(c)
  PROVE  SubSeq(Append(c, b), 1, n) = SubSeq(c, 1, n)
  <1> DEFINE a == Append(c, b)
  <1>0. Len(c) \in Nat /\ n \in Nat /\ \A i \in 1 .. n : c[i] \in E
    BY LenProperties
  <1>1. a \in Seq(E) /\ \A i \in 1 .. Len(c) : a[i] = c[i] BY AppendProperties
  <1>2. \A i \in 1 .. n : i \in 1 .. Len(c) BY <1>0
  <1> HIDE DEF a
  <1>3. \A i \in 1 .. n : a[i] = c[i] /\ a[i] \in E BY <1>0, <1>1, <1>2
  <1> DEFINE u == SubSeq(a, 1, n)
             v == SubSeq(c, 1, n)
  <1>4. /\ u \in Seq(E) /\ Len(u) = IF 1 <= n THEN n - 1 + 1 ELSE 0
        /\ \A i \in 1 .. n - 1 + 1 : u[i] = a[1 + i - 1]
    BY <1>0, <1>3, SubSeqProperties
  <1>5. /\ v \in Seq(E) /\ Len(v) = IF 1 <= n THEN n - 1 + 1 ELSE 0
        /\ \A i \in 1 .. n - 1 + 1 : v[i] = c[1 + i - 1]
    BY <1>0, <1>3, SubSeqProperties
  <1>6. n - 1 + 1 = n /\ (~(1 <= n) => n = 0) /\ \A i \in 1 .. n : 1 + i - 1 = i BY <1>0
  <1> HIDE DEF u, v
  <1>7. Len(u) = n /\ Len(v) = n BY <1>4, <1>5, <1>6
  <1>8. \A i \in 1 .. n : u[i] = v[i] BY <1>3, <1>4, <1>5, <1>6
  <1>9. u = v BY <1>4, <1>5, <1>7, <1>8, SeqEqual
  <1> QED BY <1>9 DEF u, v, a

-----------------------------------------------------------------------------
(* A chain is mined block by block: each block has a new name, and at most    *)
(* one transaction, which is new, spends what is unspent before it and makes  *)
(* no revision again.                                                         *)
Revised(t) == {Revision(c) : c \in Range(Txn[t].contracts)}

MinedTxn(c, t) ==
  /\ t \in Txns /\ t \notin Range(TxnsOf(c))
  /\ Txn[t].ins \subseteq Unspent(c)
  /\ \A u \in Range(TxnsOf(c)) : Revised(t) \cap Revised(u) = {}

Mined(c, b) ==
  /\ b.txns = <<>> \/ \E t \in Txns : b.txns = <<t>> /\ MinedTxn(c, t)
  /\ \A h \in 1 .. Len(c) : c[h].id # b.id

ValidChain(c) ==
  /\ c \in Seq(Blocks)
  /\ \A h \in 1 .. Len(c) : Mined(SubSeq(c, 1, h - 1), c[h])

LEMMA ValidEmpty == ValidChain(<<>>)
  <1>1. <<>> \in Seq(Blocks) /\ Len(<<>>) = 0 BY EmptySeq
  <1> QED BY <1>1 DEF ValidChain

LEMMA ValidAppend ==
  ASSUME NEW c \in Seq(Blocks), NEW b \in Blocks
  PROVE  ValidChain(Append(c, b)) <=> ValidChain(c) /\ Mined(c, b)
  <1> DEFINE a == Append(c, b)
             n == Len(c)
  <1>0. n \in Nat BY LenProperties
  <1>1. /\ a \in Seq(Blocks) /\ Len(a) = n + 1 /\ a[n + 1] = b
        /\ \A i \in 1 .. n : a[i] = c[i]
    BY AppendProperties
  <1>2. \A h \in 1 .. n + 1 : SubSeq(a, 1, h - 1) = SubSeq(c, 1, h - 1)
    <2> TAKE h \in 1 .. n + 1
    <2>1. h - 1 \in 0 .. n
      <3> HIDE DEF n
      <3> QED BY <1>0
    <2> QED BY <2>1, PrefixOfAppend
  <1>3. SubSeq(c, 1, n) = c BY SubSeqFull
  <1> HIDE DEF a, n
  <1>4. \A h \in 1 .. n + 1 : h \in 1 .. n \/ h = n + 1 BY <1>0
  <1>5. n + 1 \in 1 .. n + 1 /\ (n + 1) - 1 = n /\ \A h \in 1 .. n : h \in 1 .. n + 1 BY <1>0
  <1>6. Mined(SubSeq(a, 1, (n + 1) - 1), a[n + 1]) <=> Mined(c, b) BY <1>1, <1>2, <1>3, <1>5
  <1>7. \A h \in 1 .. n : Mined(SubSeq(a, 1, h - 1), a[h]) <=> Mined(SubSeq(c, 1, h - 1), c[h])
    BY <1>1, <1>2, <1>5
  <1>8. Len(c) = n BY DEF n
  <1>9. ValidChain(a) <=> \A h \in 1 .. n + 1 : Mined(SubSeq(a, 1, h - 1), a[h])
    BY <1>1 DEF ValidChain
  <1>10. ValidChain(c) <=> \A h \in 1 .. n : Mined(SubSeq(c, 1, h - 1), c[h])
    BY <1>8 DEF ValidChain
  <1>11. ASSUME ValidChain(a) PROVE ValidChain(c) /\ Mined(c, b)
    <2>1. Mined(c, b) BY <1>5, <1>6, <1>9, <1>11
    <2>2. \A h \in 1 .. n : Mined(SubSeq(a, 1, h - 1), a[h]) BY <1>5, <1>9, <1>11
    <2> QED BY <2>1, <2>2, <1>7, <1>10
  <1>12. ASSUME ValidChain(c), Mined(c, b) PROVE ValidChain(a)
    <2>1. \A h \in 1 .. n : Mined(SubSeq(a, 1, h - 1), a[h]) BY <1>7, <1>10, <1>12
    <2>2. Mined(SubSeq(a, 1, (n + 1) - 1), a[n + 1]) BY <1>6, <1>12
    <2> QED BY <2>1, <2>2, <1>4, <1>9
  <1> QED BY <1>11, <1>12 DEF a

LEMMA ValidConcat ==
  ASSUME NEW c \in Seq(Blocks)
  PROVE  \A d \in Seq(Blocks) : ValidChain(c \o d) => ValidChain(c)
  <1> DEFINE T == {d \in Seq(Blocks) : ValidChain(c \o d) => ValidChain(c)}
  <1>1. <<>> \in T
    <2>1. <<>> \in Seq(Blocks) BY EmptySeq
    <2>2. c \o <<>> = c BY ConcatEmptySeq
    <2> QED BY <2>1, <2>2
  <1>2. ASSUME NEW d \in Seq(Blocks), NEW x \in Blocks, d \in T PROVE Append(d, x) \in T
    <2>1. c \o Append(d, x) = Append(c \o d, x) BY ConcatAppend
    <2>2. c \o d \in Seq(Blocks) /\ Append(d, x) \in Seq(Blocks) BY ConcatProperties, AppendProperties
    <2>3. ValidChain(Append(c \o d, x)) => ValidChain(c \o d) BY <2>2, ValidAppend
    <2>4. ValidChain(c \o d) => ValidChain(c) BY <1>2
    <2> QED BY <2>1, <2>2, <2>3, <2>4
  <1> HIDE DEF T
  <1>3. \A d \in Seq(Blocks) : d \in T BY <1>1, <1>2, SeqInduction
  <1> QED BY <1>3 DEF T

LEMMA ValidPrefix ==
  ASSUME NEW c, ValidChain(c), NEW k \in 0 .. Len(c)
  PROVE  ValidChain(SubSeq(c, 1, k))
  <1>1. c \in Seq(Blocks) BY DEF ValidChain
  <1> DEFINE p == SubSeq(c, 1, k)
             q == SubSeq(c, k + 1, Len(c))
  <1>2. p \in Seq(Blocks) /\ q \in Seq(Blocks) /\ c = p \o q BY <1>1, Cut
  <1> HIDE DEF p, q
  <1>3. ValidChain(p) BY <1>2, ValidConcat
  <1> QED BY <1>3 DEF p

LEMMA TxnsAppend ==
  ASSUME NEW c \in Seq(Blocks), NEW b \in Blocks
  PROVE  /\ TxnsOf(Append(c, b)) = TxnsOf(c) \o b.txns
         /\ b.txns \in Seq(Txns) /\ TxnsOf(c) \in Seq(Txns)
         /\ Range(TxnsOf(Append(c, b))) = Range(TxnsOf(c)) \cup Range(b.txns)
  <1> DEFINE o == <<b>>
             t == b.txns
             u == TxnsOf(c)
  <1>1. Append(c, b) = c \o o /\ o \in Seq(Blocks) BY AppendIsConcat, Singleton
  <1>2. t \in Seq(Txns) BY DEF Blocks
  <1>3. u \in Seq(Txns) BY TxnsType
  <1>4. TxnsOf(o) = t
    <2>1. TxnParts(o) = <<t>>
      <3>1. Len(o) = 1 /\ o[1] = b BY Singleton
      <3>2. /\ TxnParts(o) \in Seq(Seq(Txns)) /\ Len(TxnParts(o)) = 1
            /\ TxnParts(o)[1] = t
        <4> HIDE DEF o
        <4> QED BY <1>1, <3>1, PartsType
      <3>3. <<t>> \in Seq(Seq(Txns)) /\ Len(<<t>>) = 1 /\ <<t>>[1] = t BY <1>2, Singleton
      <3> DEFINE p == TxnParts(o)
                 q == <<t>>
      <3> HIDE DEF p, q
      <3>4. p = q BY <3>2, <3>3, SeqEqual DEF p, q
      <3> QED BY <3>4 DEF p, q
    <2>2. <<>> \in Seq(Seq(Txns)) /\ <<>> \in Seq(Txns) BY EmptySeq
    <2> HIDE DEF t, o
    <2>3. FlattenSeq(Append(<<>>, t)) = FlattenSeq(<<>>) \o t /\ FlattenSeq(<<>>) = <<>>
      BY <2>2, <1>2, FlattenAppend
    <2>4. <<>> \o t = t BY <1>2, ConcatEmptySeq
    <2>5. Append(<<>>, t) = <<t>> BY <1>2, <2>2
    <2>6. TxnsOf(o) = FlattenSeq(TxnParts(o)) BY DEF TxnsOf, TxnParts
    <2> QED BY <2>1, <2>3, <2>4, <2>5, <2>6 DEF t
  <1>5. TxnsOf(c \o o) = u \o TxnsOf(o)
    <2> HIDE DEF o
    <2> QED BY <1>1, TxnsConcat
  <1> HIDE DEF t, u, o
  <1>6. Range(u \o t) = Range(u) \cup Range(t) BY <1>2, <1>3, RangeConcatenation
  <1> QED BY <1>1, <1>2, <1>3, <1>4, <1>5, <1>6 DEF t, u

(* No transaction is on a chain twice, no revision is made twice, and the     *)
(* blocks have different names.                                               *)
Distinct(c) ==
  /\ IsInjective(TxnsOf(c))
  /\ \A t, u \in Range(TxnsOf(c)) : t # u => Revised(t) \cap Revised(u) = {}
  /\ \A i, j \in 1 .. Len(c) : c[i].id = c[j].id => i = j

LEMMA ValidDistinct == \A c \in Seq(Blocks) : ValidChain(c) => Distinct(c)
  <1> DEFINE T == {c \in Seq(Blocks) : ValidChain(c) => Distinct(c)}
  <1>1. <<>> \in T
    <2>1. <<>> \in Seq(Blocks) /\ Len(<<>>) = 0 BY EmptySeq
    <2>2. TxnsOf(<<>>) = <<>>
      <3>1. <<>> \in Seq(Seq(Txns)) /\ <<>> \in Seq(Txns) BY EmptySeq
      <3>2. FlattenSeq(<<>>) = <<>> BY <3>1, FlattenAppend
      <3>3. TxnParts(<<>>) = <<>> BY DEF TxnParts
      <3> QED BY <3>2, <3>3 DEF TxnsOf, TxnParts
    <2>3. IsInjective(<<>>) /\ Range(<<>>) = {} BY RangeEmpty
    <2>4. Distinct(<<>>) BY <2>1, <2>2, <2>3 DEF Distinct
    <2> QED BY <2>1, <2>4
  <1>2. ASSUME NEW c \in Seq(Blocks), NEW b \in Blocks, c \in T PROVE Append(c, b) \in T
    <2> DEFINE a == Append(c, b)
               n == Len(c)
    <2>0. n \in Nat BY LenProperties
    <2>1. a \in Seq(Blocks) /\ Len(a) = n + 1 /\ a[n + 1] = b /\ \A i \in 1 .. n : a[i] = c[i]
      BY AppendProperties
    <2> SUFFICES ASSUME ValidChain(a) PROVE Distinct(a) BY <2>1
    <2>2. ValidChain(c) /\ Mined(c, b) BY ValidAppend
    <2>3. Distinct(c) BY <1>2, <2>2
    <2>4. /\ TxnsOf(a) = TxnsOf(c) \o b.txns
          /\ b.txns \in Seq(Txns) /\ TxnsOf(c) \in Seq(Txns)
          /\ Range(TxnsOf(a)) = Range(TxnsOf(c)) \cup Range(b.txns)
      BY TxnsAppend
    <2> DEFINE u == TxnsOf(c)
               w == b.txns
    <2>5. \/ w = <<>>
          \/ \E t \in Txns : w = <<t>> /\ MinedTxn(c, t)
      BY <2>2 DEF Mined
    <2>6. \A h \in 1 .. n : c[h].id # b.id BY <2>2 DEF Mined
    <2> HIDE DEF a, n
    <2>7. IsInjective(TxnsOf(a))
      <3>1. IsInjective(u) BY <2>3 DEF Distinct
      <3>2. IsInjective(w) /\ Range(u) \cap Range(w) = {}
        <4>1. CASE w = <<>> BY <4>1, RangeEmpty
        <4>2. CASE \E t \in Txns : w = <<t>> /\ MinedTxn(c, t)
          <5>1. PICK t \in Txns : w = <<t>> /\ t \notin Range(u) BY <4>2 DEF MinedTxn
          <5>2. IsInjective(<<t>>) /\ Range(<<t>>) = {t} BY Singleton
          <5> HIDE DEF w, u
          <5> QED BY <5>1, <5>2
        <4> QED BY <4>1, <4>2, <2>5
      <3> HIDE DEF u, w
      <3>3. u \in Seq(Txns) /\ w \in Seq(Txns) BY <2>4 DEF u, w
      <3>4. IsInjective(u \o w) BY <3>1, <3>2, <3>3, InjectiveConcat
      <3> QED BY <3>4, <2>4 DEF u, w
    <2>8. ASSUME NEW t \in Range(TxnsOf(a)), NEW v \in Range(TxnsOf(a)), t # v
          PROVE  Revised(t) \cap Revised(v) = {}
      <3>0. Range(TxnsOf(a)) = Range(u) \cup Range(w) BY <2>4
      <3>1. \A x, y \in Range(u) : x # y => Revised(x) \cap Revised(y) = {} BY <2>3 DEF Distinct
      <3>2. CASE w = <<>>
        <4>1. Range(w) = {} BY <3>2, RangeEmpty
        <4> HIDE DEF u, w
        <4>2. t \in Range(u) /\ v \in Range(u) BY <3>0, <4>1
        <4> QED BY <4>2, <3>1, <2>8
      <3>3. CASE \E x \in Txns : w = <<x>> /\ MinedTxn(c, x)
        <4>1. PICK x \in Txns : w = <<x>> /\ MinedTxn(c, x) BY <3>3
        <4>2. Range(<<x>>) = {x} BY Singleton
        <4>3. \A y \in Range(u) : Revised(x) \cap Revised(y) = {} BY <4>1 DEF MinedTxn
        <4> HIDE DEF u, w
        <4>4. Range(w) = {x} BY <4>1, <4>2
        <4>5. (t \in Range(u) \/ t = x) /\ (v \in Range(u) \/ v = x) BY <3>0, <4>4
        <4>6. CASE t \in Range(u) /\ v \in Range(u) BY <4>6, <3>1, <2>8
        <4>7. CASE t \in Range(u) /\ v = x BY <4>7, <4>3
        <4>8. CASE t = x /\ v \in Range(u) BY <4>8, <4>3
        <4> QED BY <4>5, <4>6, <4>7, <4>8, <2>8
      <3> QED BY <3>2, <3>3, <2>5
    <2>9. ASSUME NEW i \in 1 .. n + 1, NEW j \in 1 .. n + 1, a[i].id = a[j].id PROVE i = j
      <3>1. \A h \in 1 .. n + 1 : h \in 1 .. n \/ h = n + 1 BY <2>0
      <3>2. \A x, y \in 1 .. n : c[x].id = c[y].id => x = y BY <2>3 DEF Distinct, n
      <3> QED BY <3>1, <3>2, <2>1, <2>6, <2>9
    <2>10. Distinct(a) BY <2>1, <2>7, <2>8, <2>9 DEF Distinct
    <2> QED BY <2>10 DEF a
  <1> HIDE DEF T
  <1>3. \A c \in Seq(Blocks) : c \in T BY <1>1, <1>2, SeqInduction
  <1> QED BY <1>3 DEF T

-----------------------------------------------------------------------------
(* What Mine puts on a chain. *)
Grown(A, k) == UNION {{Append(d, b) : b \in Minable(d, <<Len(log) + 1, k>>)} : d \in A}

GrowBody(f, c, m) == f = [k \in 0 .. m |-> IF k = 0 THEN {c} ELSE Grown(f[k - 1], k)]

LEMMA GrowExists == ASSUME NEW c PROVE \A m \in Nat : \E f : GrowBody(f, c, m)
  <1> DEFINE S == {m \in Nat : \E f : GrowBody(f, c, m)}
  <1>1. 0 \in S
    <2> DEFINE f == [k \in 0 .. 0 |-> {c}]
    <2>1. GrowBody(f, c, 0) BY DEF GrowBody
    <2> QED BY <2>1
  <1>2. ASSUME NEW m \in Nat, m \in S PROVE m + 1 \in S
    <2>1. PICK f : GrowBody(f, c, m) BY <1>2
    <2> DEFINE g == [k \in 0 .. m + 1 |-> IF k = 0 THEN {c} ELSE Grown(f[k - 1], k)]
    <2>2. \A k \in 0 .. m : g[k] = f[k]
      <3> TAKE k \in 0 .. m
      <3>1. f[k] = IF k = 0 THEN {c} ELSE Grown(f[k - 1], k) BY <2>1 DEF GrowBody
      <3>2. g[k] = IF k = 0 THEN {c} ELSE Grown(f[k - 1], k) OBVIOUS
      <3> HIDE DEF g
      <3> QED BY <3>1, <3>2
    <2>3. \A k \in 0 .. m + 1 : k # 0 => g[k] = Grown(g[k - 1], k)
      <3> TAKE k \in 0 .. m + 1
      <3> HAVE k # 0
      <3>1. g[k] = Grown(f[k - 1], k) OBVIOUS
      <3>2. k - 1 \in 0 .. m OBVIOUS
      <3> HIDE DEF g
      <3> QED BY <3>1, <3>2, <2>2
    <2>4. GrowBody(g, c, m + 1) BY <2>3 DEF GrowBody
    <2> QED BY <2>4
  <1> HIDE DEF S
  <1>3. \A m \in Nat : m \in S BY <1>1, <1>2, Induction
  <1> QED BY <1>3 DEF S

LEMMA BranchesFun ==
  ASSUME NEW c, NEW n \in Nat
  PROVE  \E f : GrowBody(f, c, n) /\ Branches(c, n) = f[n]
  <1> DEFINE f == CHOOSE f : GrowBody(f, c, n)
  <1>1. GrowBody(f, c, n) BY GrowExists
  <1>2. Branches(c, n) = f[n] BY DEF Branches, GrowBody, Grown
  <1> QED BY <1>1, <1>2

LEMMA MinableMined ==
  ASSUME NEW c \in Seq(Blocks), NEW k \in Nat, NEW i \in Nat, NEW b \in Minable(c, <<k, i>>),
         \A h \in 1 .. Len(c) : c[h].id # <<k, i>>
  PROVE  b \in Blocks /\ b.id = <<k, i>> /\ Mined(c, b)
  <1>0. MaxAddr \in Nat /\ 0 \in 0 .. MaxAddr /\ MaxAddr \in 0 .. MaxAddr BY WalletAssumption
  <1>1. CASE b = Block(<<k, i>>, <<>>, 0)
    <2>1. <<>> \in Seq(Txns) BY EmptySeq
    <2>2. b \in Blocks /\ b.id = <<k, i>> /\ b.txns = <<>> BY <1>0, <1>1, <2>1 DEF Block, Blocks
    <2> QED BY <2>2 DEF Mined
  <1>2. CASE b # Block(<<k, i>>, <<>>, 0)
    <2>1. PICK t \in DOMAIN Txn : /\ b = Block(<<k, i>>, <<t>>, Foreign)
                                  /\ t \notin Range(TxnsOf(c))
                                  /\ Txn[t].ins \subseteq Unspent(c)
                                  /\ Revises(c, t)
      BY <1>2 DEF Minable
    <2>2. <<t>> \in Seq(Txns) BY Singleton DEF Txns
    <2>3. b \in Blocks /\ b.id = <<k, i>> /\ b.txns = <<t>>
      BY <1>0, <2>1, <2>2 DEF Block, Blocks, Foreign
    <2>4. \A u \in Range(TxnsOf(c)) : Revised(t) \cap Revised(u) = {}
      BY <2>1 DEF Revises, Revised
    <2>5. MinedTxn(c, t) BY <2>1, <2>4 DEF MinedTxn, Txns
    <2>6. t \in Txns BY DEF Txns
    <2> QED BY <2>3, <2>5, <2>6 DEF Mined
  <1> QED BY <1>1, <1>2

(* a chain with i more blocks of the next change *)
GrownBy(c, i, new, d) ==
  /\ new = c \o d /\ Len(d) = i /\ ValidChain(new)
  /\ \A j \in 1 .. i : d[j].id = <<Len(log) + 1, j>>

AllGrownBy(c, i, A) == \A new \in A : \E d \in Seq(Blocks) : GrownBy(c, i, new, d)

LEMMA BranchesValid ==
  ASSUME NEW c, ValidChain(c), NEW n \in Nat, Len(log) \in Nat,
         \A h \in 1 .. Len(c) : c[h].id[1] # Len(log) + 1
  PROVE  AllGrownBy(c, n, Branches(c, n))
  <1> DEFINE k == Len(log) + 1
  <1>0. c \in Seq(Blocks) BY DEF ValidChain
  <1>k. k \in Nat OBVIOUS
  <1>1. PICK f : GrowBody(f, c, n) /\ Branches(c, n) = f[n] BY BranchesFun
  <1>2. f[0] = {c} BY <1>1 DEF GrowBody
  <1>3. \A i \in 1 .. n : \A new \in f[i] : \E old \in f[i - 1] : \E b \in Minable(old, <<k, i>>) :
          new = Append(old, b)
    <2> TAKE i \in 1 .. n
    <2>1. i \in 0 .. n /\ i # 0 OBVIOUS
    <2>2. f[i] = Grown(f[i - 1], i) BY <1>1, <2>1 DEF GrowBody
    <2> QED BY <2>2 DEF Grown
  <1> DEFINE S == {i \in Nat : i <= n => AllGrownBy(c, i, f[i])}
  <1>4. 0 \in S
    <2>1. <<>> \in Seq(Blocks) /\ Len(<<>>) = 0 BY EmptySeq
    <2>2. c \o <<>> = c BY <1>0, ConcatEmptySeq
    <2>3. GrownBy(c, 0, c, <<>>) BY <2>1, <2>2 DEF GrownBy
    <2> QED BY <1>2, <2>1, <2>3 DEF AllGrownBy
  <1>5. ASSUME NEW m \in Nat, m \in S PROVE m + 1 \in S
    <2> SUFFICES ASSUME m + 1 <= n, NEW new \in f[m + 1]
                 PROVE  \E d \in Seq(Blocks) : GrownBy(c, m + 1, new, d)
      BY DEF AllGrownBy
    <2> DEFINE i == m + 1
    <2>1. i \in 1 .. n /\ i - 1 = m /\ m <= n OBVIOUS
    <2>a. PICK old \in f[m] : \E b \in Minable(old, <<k, i>>) : new = Append(old, b)
      <3>1. new \in f[i] OBVIOUS
      <3> HIDE DEF i, k
      <3> QED BY <2>1, <3>1, <1>3
    <2>2. PICK b \in Minable(old, <<k, i>>) : new = Append(old, b) BY <2>a
    <2>3. PICK d \in Seq(Blocks) : GrownBy(c, m, old, d) BY <2>1, <1>5 DEF AllGrownBy
    <2>4. /\ old = c \o d /\ Len(d) = m /\ ValidChain(old)
          /\ \A j \in 1 .. m : d[j].id = <<k, j>>
      BY <2>3 DEF GrownBy
    <2>5. /\ c \o d \in Seq(Blocks) /\ Len(c \o d) = Len(c) + m
          /\ \A h \in 1 .. Len(c) + m : (c \o d)[h] = IF h <= Len(c) THEN c[h] ELSE d[h - Len(c)]
      BY <1>0, <2>4, ConcatProperties
    <2> HIDE DEF k, i
    <2>6. \A h \in 1 .. Len(old) : old[h].id # <<k, i>>
      <3> TAKE h \in 1 .. Len(old)
      <3>0. Len(c) \in Nat BY <1>0, LenProperties
      <3>1. h \in 1 .. Len(c) + m BY <2>4, <2>5
      <3>2. CASE h <= Len(c)
        <4>1. old[h] = c[h] BY <3>1, <3>2, <2>4, <2>5
        <4>2. h \in 1 .. Len(c) BY <3>0, <3>1, <3>2
        <4>3. c[h].id[1] # k BY <4>2 DEF k
        <4> QED BY <4>1, <4>3
      <3>3. CASE ~(h <= Len(c))
        <4>1. old[h] = d[h - Len(c)] BY <3>1, <3>3, <2>4, <2>5
        <4>2. h - Len(c) \in 1 .. m /\ h - Len(c) # i BY <3>0, <3>1, <3>3 DEF i
        <4>3. old[h].id = <<k, h - Len(c)>> BY <4>1, <4>2, <2>4
        <4> QED BY <4>2, <4>3
      <3> QED BY <3>2, <3>3
    <2>7. b \in Blocks /\ b.id = <<k, i>> /\ Mined(old, b)
      <3>1. i \in Nat /\ old \in Seq(Blocks) BY <2>1, <2>4 DEF ValidChain
      <3> QED BY <3>1, <1>k, <2>2, <2>6, MinableMined
    <2>8. ValidChain(new) BY <2>2, <2>4, <2>7, ValidAppend DEF ValidChain
    <2>9. new = c \o Append(d, b) BY <1>0, <2>2, <2>4, <2>7, ConcatAppend
    <2>10. /\ Append(d, b) \in Seq(Blocks) /\ Len(Append(d, b)) = i
           /\ \A j \in 1 .. i : Append(d, b)[j].id = <<k, j>>
      <3>1. /\ Append(d, b) \in Seq(Blocks) /\ Len(Append(d, b)) = m + 1
            /\ Append(d, b)[m + 1] = b /\ \A j \in 1 .. m : Append(d, b)[j] = d[j]
        BY <2>4, <2>7, AppendProperties
      <3>2. \A j \in 1 .. i : j \in 1 .. m \/ j = m + 1 BY DEF i
      <3> QED BY <3>1, <3>2, <2>4, <2>7 DEF i
    <2>11. GrownBy(c, i, new, Append(d, b)) BY <2>8, <2>9, <2>10 DEF GrownBy, k
    <2> QED BY <2>10, <2>11 DEF i
  <1> HIDE DEF S
  <1>6. \A i \in Nat : i \in S BY <1>4, <1>5, Induction
  <1>7. AllGrownBy(c, n, f[n]) BY <1>6 DEF S
  <1> QED BY <1>7, <1>1

-----------------------------------------------------------------------------
(* The log: every chain it goes through is mined block by block, and the      *)
(* blocks are named for the change that put them on.                          *)
ChainInv(l, n) ==
  /\ ValidChain(ChainOf(SubSeq(l, 1, n)))
  /\ \A h \in 1 .. Len(ChainOf(SubSeq(l, 1, n))) : ChainOf(SubSeq(l, 1, n))[h].id[1] \in 1 .. n

ChangeInv(l, n) ==
  /\ l[n].revert <= Len(ChainOf(SubSeq(l, 1, n - 1)))
  /\ \A i \in 1 .. Len(l[n].blocks) : l[n].blocks[i].id = <<n, i>>
  /\ Len(l[n].blocks) > 0

LogOK(l) ==
  /\ l \in Seq(Changes)
  /\ \A n \in 0 .. Len(l) : ChainInv(l, n)
  /\ \A n \in 1 .. Len(l) : ChangeInv(l, n)

LogInv == LogOK(log)

LEMMA LogInit == Init => LogInv
  <1> SUFFICES ASSUME Init PROVE LogInv OBVIOUS
  <1> DEFINE b == Block(<<1, 1>>, <<Genesis>>, Foreign)
             c == [revert |-> 0, blocks |-> <<b>>]
             l == <<c>>
  <1>0. MaxAddr \in Nat /\ MaxAddr \in 0 .. MaxAddr /\ Genesis \in Txns
    BY WalletAssumption DEF Txns
  <1>1. b \in Blocks /\ b.id = <<1, 1>> /\ b.txns = <<Genesis>>
    <2>1. <<Genesis>> \in Seq(Txns) BY <1>0, Singleton
    <2> QED BY <1>0, <2>1 DEF Block, Blocks, Foreign
  <1> HIDE DEF b
  <1>2. <<b>> \in Seq(Blocks) /\ Len(<<b>>) = 1 BY <1>1, Singleton
  <1>3. c \in Changes BY <1>2 DEF Changes
  <1>c. c.blocks = <<b>> /\ c.revert = 0 OBVIOUS
  <1> HIDE DEF c
  <1>4. l \in Seq(Changes) /\ Len(l) = 1 /\ l[1] = c BY <1>3, Singleton
  <1> HIDE DEF l
  <1>5. ChainOf(SubSeq(l, 1, 0)) = <<>> BY <1>4, ChainFacts
  <1>6. ChainOf(SubSeq(l, 1, 1)) = <<b>>
    <2>1. 1 \in 1 .. Len(l) /\ 1 - 1 = 0 BY <1>4
    <2>2. ChainOf(SubSeq(l, 1, 1)) = Extend(ChainOf(SubSeq(l, 1, 1 - 1)), l[1])
      BY <1>4, <2>1, ChainFacts
    <2>3. Extend(<<>>, c) = SubSeq(<<>>, 1, Len(<<>>) - 0) \o <<b>> BY <1>c DEF Extend
    <2>4. Len(<<>>) - 0 = 0 /\ SubSeq(<<>>, 1, 0) = <<>> BY SubSeqEmpty
    <2>5. <<>> \o <<b>> = <<b>> BY <1>2, ConcatEmptySeq
    <2> QED BY <1>4, <1>5, <2>1, <2>2, <2>3, <2>4, <2>5
  <1>7. ValidChain(<<b>>)
    <2>1. <<>> \in Seq(Blocks) /\ Len(<<>>) = 0 /\ Append(<<>>, b) = <<b>> BY EmptySeq
    <2>2. TxnsOf(<<>>) = <<>>
      <3>1. <<>> \in Seq(Seq(Txns)) /\ <<>> \in Seq(Txns) BY EmptySeq
      <3>2. FlattenSeq(<<>>) = <<>> BY <3>1, FlattenAppend
      <3>3. TxnParts(<<>>) = <<>> BY DEF TxnParts
      <3> QED BY <3>2, <3>3 DEF TxnsOf, TxnParts
    <2>3. MinedTxn(<<>>, Genesis) BY <1>0, <2>2, RangeEmpty, WalletAssumption DEF MinedTxn
    <2>4. Mined(<<>>, b) BY <1>0, <1>1, <2>1, <2>3 DEF Mined
    <2> QED BY <1>1, <2>1, <2>4, ValidEmpty, ValidAppend
  <1>8. ChainInv(l, 0)
    <2>1. Len(<<>>) = 0 BY EmptySeq
    <2> QED BY <1>5, <2>1, ValidEmpty DEF ChainInv
  <1>9. ChainInv(l, 1)
    <2>1. <<b>>[1].id[1] = 1 BY <1>1
    <2> QED BY <1>2, <1>6, <1>7, <2>1 DEF ChainInv
  <1>10. ChangeInv(l, 1)
    <2>1. <<b>>[1].id = <<1, 1>> BY <1>1
    <2>2. Len(<<>>) = 0 /\ 1 - 1 = 0 BY EmptySeq
    <2> QED BY <1>2, <1>4, <1>5, <1>c, <2>1, <2>2 DEF ChangeInv
  <1>11. \A n \in 0 .. 1 : n = 0 \/ n = 1 OBVIOUS
  <1>12. LogOK(l) BY <1>4, <1>8, <1>9, <1>10, <1>11 DEF LogOK
  <1> QED BY <1>12 DEF Init, LogInv, l, c, b

LEMMA LogMine ==
  ASSUME LogInv, NEW revert \in Nat, Mine(revert)
  PROVE  /\ LogInv'
         /\ \E c \in Changes : log' = Append(log, c)
  <1> DEFINE n == Len(log)
             c == Chain(n)
             kept == Len(c) - revert
             base == SubSeq(c, 1, kept)
  <1>0. log \in Seq(Changes) /\ n \in Nat BY LenProperties DEF LogInv, LogOK
  <1>1. ValidChain(c) /\ \A h \in 1 .. Len(c) : c[h].id[1] \in 1 .. n
    <2>1. n \in 0 .. n BY <1>0
    <2>2. ChainInv(log, n) BY <2>1 DEF LogInv, LogOK
    <2> QED BY <2>2 DEF ChainInv, Chain
  <1>2. c \in Seq(Blocks) /\ Len(c) \in Nat BY <1>1, LenProperties DEF ValidChain
  <1>3. PICK new \in Branches(base, revert + 1) :
          /\ kept > 0
          /\ log' = Append(log, [revert |-> revert, blocks |-> SubSeq(new, kept + 1, Len(new))])
    BY DEF Mine
  <1> HIDE DEF c
  <1>4. kept \in 0 .. Len(c) BY <1>2, <1>3
  <1>5. /\ ValidChain(base) /\ base \in Seq(Blocks) /\ Len(base) = kept
        /\ \A h \in 1 .. kept : base[h] = c[h]
    <2> HIDE DEF kept
    <2>1. ValidChain(base) BY <1>1, <1>4, ValidPrefix
    <2>2. base \in Seq(Blocks) /\ Len(base) = kept BY <1>2, <1>4, Cut
    <2>3. \A h \in 1 .. kept : base[h] = c[h]
      <3>1. kept \in Int /\ \A i \in 1 .. kept : c[i] \in Blocks /\ 1 + i - 1 = i
        BY <1>2, <1>4, ElementOfSeq
      <3>2. kept - 1 + 1 = kept BY <3>1
      <3>3. \A i \in 1 .. kept - 1 + 1 : base[i] = c[1 + i - 1] BY <3>1, SubSeqProperties
      <3> QED BY <3>1, <3>2, <3>3
    <2> QED BY <2>1, <2>2, <2>3
  <1>6. \A h \in 1 .. Len(base) : base[h].id[1] \in 1 .. n
    <2>1. \A h \in 1 .. kept : h \in 1 .. Len(c) BY <1>2, <1>4
    <2> HIDE DEF kept, base, n
    <2> QED BY <2>1, <1>1, <1>5
  <1> HIDE DEF base, kept
  <1>7. PICK d \in Seq(Blocks) :
          /\ new = base \o d /\ Len(d) = revert + 1 /\ ValidChain(new)
          /\ \A i \in 1 .. revert + 1 : d[i].id = <<n + 1, i>>
    <2>1. \A h \in 1 .. Len(base) : base[h].id[1] # n + 1 BY <1>0, <1>6
    <2>2. revert + 1 \in Nat OBVIOUS
    <2>3. AllGrownBy(base, revert + 1, Branches(base, revert + 1))
      BY <2>1, <2>2, <1>0, <1>5, BranchesValid DEF n
    <2>4. PICK d \in Seq(Blocks) : GrownBy(base, revert + 1, new, d) BY <2>3, <1>3 DEF AllGrownBy
    <2> QED BY <2>4 DEF GrownBy, n
  <1>8. SubSeq(new, kept + 1, Len(new)) = d BY <1>5, <1>7, Rest
  <1> DEFINE cc == [revert |-> revert, blocks |-> d]
             l == Append(log, cc)
  <1>9. cc \in Changes /\ cc.revert = revert /\ cc.blocks = d BY DEF Changes
  <1>10. log' = l BY <1>3, <1>8
  <1> HIDE DEF cc
  <1>11. l \in Seq(Changes) /\ Len(l) = n + 1 /\ l[n + 1] = cc /\ \A i \in 1 .. n : l[i] = log[i]
    BY <1>0, <1>9, AppendProperties
  <1>12. \A k \in 0 .. n : SubSeq(l, 1, k) = SubSeq(log, 1, k) BY <1>0, <1>9, PrefixOfAppend
  <1> HIDE DEF l, n
  <1>13. ChainOf(SubSeq(l, 1, n + 1)) = new
    <2>1. n + 1 \in 1 .. Len(l) /\ (n + 1) - 1 = n /\ n \in 0 .. n BY <1>0, <1>11
    <2>2. ChainOf(SubSeq(l, 1, n + 1)) = Extend(ChainOf(SubSeq(l, 1, (n + 1) - 1)), l[n + 1])
      BY <1>11, <2>1, ChainFacts
    <2>3. ChainOf(SubSeq(l, 1, n)) = c BY <1>12, <2>1 DEF c, Chain
    <2>4. Extend(c, cc) = base \o d BY <1>9 DEF Extend, base, kept
    <2> QED BY <2>1, <2>2, <2>3, <2>4, <1>7, <1>11
  <1>14. \A k \in 0 .. n : ChainInv(l, k)
    BY <1>12 DEF LogInv, LogOK, ChainInv, n
  <1>15. ChainInv(l, n + 1)
    <2>1. ASSUME NEW h \in 1 .. Len(new) PROVE new[h].id[1] \in 1 .. n + 1
      <3>0. Len(base) \in Nat /\ Len(d) \in Nat BY <1>5, LenProperties
      <3>1. /\ Len(new) = Len(base) + Len(d)
            /\ new[h] = IF h <= Len(base) THEN base[h] ELSE d[h - Len(base)]
        <4>1. h \in 1 .. Len(base \o d) BY <1>7
        <4>2. /\ Len(base \o d) = Len(base) + Len(d)
              /\ \A i \in 1 .. Len(base) + Len(d) :
                   (base \o d)[i] = IF i <= Len(base) THEN base[i] ELSE d[i - Len(base)]
          BY <1>5, ConcatProperties
        <4>3. h \in 1 .. Len(base) + Len(d) BY <4>1, <4>2
        <4> QED BY <4>2, <4>3, <1>7
      <3>2. CASE h <= Len(base)
        <4>1. h \in 1 .. Len(base) BY <3>0, <3>1, <3>2
        <4>2. new[h].id[1] \in 1 .. n BY <4>1, <3>1, <3>2, <1>6
        <4> QED BY <4>2, <1>0
      <3>3. CASE ~(h <= Len(base))
        <4>1. h - Len(base) \in 1 .. revert + 1 BY <3>0, <3>1, <3>3, <1>7
        <4>2. new[h].id = <<n + 1, h - Len(base)>> BY <4>1, <3>1, <3>3, <1>7
        <4>3. new[h].id[1] = n + 1 BY <4>2
        <4> QED BY <4>3, <1>0
      <3> QED BY <3>2, <3>3
    <2> QED BY <2>1, <1>7, <1>13 DEF ChainInv
  <1>16. \A k \in 1 .. n : ChangeInv(l, k)
    <2> TAKE k \in 1 .. n
    <2>1. ChangeInv(log, k) BY DEF LogInv, LogOK, n
    <2>2. l[k] = log[k] /\ SubSeq(l, 1, k - 1) = SubSeq(log, 1, k - 1)
      <3>1. k - 1 \in 0 .. n BY <1>0
      <3> QED BY <3>1, <1>11, <1>12
    <2> QED BY <2>1, <2>2 DEF ChangeInv
  <1>17. ChangeInv(l, n + 1)
    <2>1. (n + 1) - 1 = n /\ n \in 0 .. n BY <1>0
    <2>2. ChainOf(SubSeq(l, 1, (n + 1) - 1)) = c BY <1>12, <2>1 DEF c, Chain
    <2>3. revert <= Len(c) BY <1>2, <1>4 DEF kept
    <2>4. Len(d) > 0 BY <1>7
    <2> QED BY <2>2, <2>3, <2>4, <1>7, <1>9, <1>11 DEF ChangeInv
  <1>18. LogOK(l)
    <2>1. \A k \in 0 .. n + 1 : k \in 0 .. n \/ k = n + 1 BY <1>0
    <2>2. \A k \in 1 .. n + 1 : k \in 1 .. n \/ k = n + 1 BY <1>0
    <2> QED BY <2>1, <2>2, <1>11, <1>14, <1>15, <1>16, <1>17 DEF LogOK
  <1>19. LogInv' BY <1>10, <1>18 DEF LogInv
  <1> QED BY <1>19, <1>9, <1>10 DEF l

-----------------------------------------------------------------------------
(* What FilterConsensusChange finds in blocks. *)
Relevant(owned) == {t \in Txns : RelevantTransaction(owned, t)}
ByAddr(a) == {t \in Txns : a \in AddrsOf(t)}
RevisedFor(owned, t) == {Revision(c) : c \in {d \in Range(Txn[t].contracts) : d.addrs \cap owned # {}}}
AllRevised(owned, ts) == UNION {RevisedFor(owned, t) : t \in ts}
Revisions == UNION {Revised(t) : t \in Txns}
Payouts == {Payout(b) : b \in Blocks}
PayoutsOf(owned, bs) == {Payout(b) : b \in {d \in bs : d.payout \in owned}}

LEMMA FilterTxns ==
  ASSUME NEW bs \in Seq(Blocks), NEW owned, NEW next, NEW outs
  PROVE  /\ processBlocks(bs, owned, next, outs).txns = Keep(TxnsOf(bs), Relevant(owned))
         /\ Range(processBlocks(bs, owned, next, outs).txns) = Range(TxnsOf(bs)) \cap Relevant(owned)
         /\ processBlocks(bs, owned, next, outs).txns \in Seq(Txns)
         /\ processBlocks(bs, owned, next, outs).count = Len(bs)
         /\ processBlocks(bs, owned, next, outs).outputs = outs
  <1> DEFINE S == Relevant(owned)
             p == processBlocks(bs, owned, next, outs).txns
  <1>1. p = Keep(TxnsOf(bs), S) BY DEF processBlocks, Relevant, Txns
  <1>2. TxnsOf(bs) \in Seq(Txns) BY TxnsType
  <1> HIDE DEF S, p
  <1>3. p \in Seq(Txns) /\ Range(p) = Range(TxnsOf(bs)) \cap S BY <1>1, <1>2, KeepFacts
  <1>4. processBlocks(bs, owned, next, outs).count = Len(bs) BY DEF processBlocks
  <1>5. processBlocks(bs, owned, next, outs).outputs = outs BY DEF processBlocks
  <1> QED BY <1>1, <1>3, <1>4, <1>5 DEF S, p

LEMMA FilterAddr ==
  ASSUME NEW bs \in Seq(Blocks), NEW owned, NEW next, NEW outs, NEW a \in owned
  PROVE  /\ processBlocks(bs, owned, next, outs).addrTxns[a] = Keep(TxnsOf(bs), ByAddr(a))
         /\ Range(processBlocks(bs, owned, next, outs).addrTxns[a]) = Range(TxnsOf(bs)) \cap ByAddr(a)
         /\ processBlocks(bs, owned, next, outs).addrTxns[a] \in Seq(Txns)
  <1> DEFINE S == Relevant(owned)
             A == ByAddr(a)
             p == processBlocks(bs, owned, next, outs).addrTxns[a]
             t == TxnsOf(bs)
  <1>1. p = Keep(Keep(t, S), A) BY DEF processBlocks, Relevant, ByAddr, Txns
  <1>2. t \in Seq(Txns) BY TxnsType
  <1>3. A \subseteq S BY DEF Relevant, ByAddr, RelevantTransaction
  <1> HIDE DEF S, A, t, p
  <1>4. Keep(Keep(t, S), A) = Keep(t, S \cap A) BY <1>2, KeepKeep
  <1>5. S \cap A = A BY <1>3
  <1>6. Keep(t, A) \in Seq(Txns) /\ Range(Keep(t, A)) = Range(t) \cap A BY <1>2, KeepFacts
  <1> QED BY <1>1, <1>4, <1>5, <1>6 DEF A, t, p

(* The contracts of a transaction. *)
LEMMA FilterContract ==
  ASSUME NEW t \in Txns, NEW owned
  PROVE  /\ relevantFileContract(t, owned) \in Seq(Revisions)
         /\ Range(relevantFileContract(t, owned)) = RevisedFor(owned, t)
         /\ IsInjective(relevantFileContract(t, owned))
  <1> DEFINE C == Range(Txn[t].contracts)
             D == {c \in C : c.addrs \cap owned # {}}
             cs == Keep(Txn[t].contracts, D)
             n == Len(cs)
             r == relevantFileContract(t, owned)
  <1>1. /\ Txn[t].contracts \in Seq(C) /\ IsInjective(Txn[t].contracts)
        /\ \A c, d \in C : c.id = d.id /\ c.rev = d.rev => c = d
    BY TxnAssumption DEF Txns
  <1>2. cs \in Seq(C) /\ Range(cs) = C \cap D /\ IsInjective(cs)
    <2> HIDE DEF D
    <2> QED BY <1>1, KeepFacts
  <1>3. C \cap D = D OBVIOUS
  <1>4. r = [i \in DOMAIN cs |-> Revision(cs[i])] BY DEF relevantFileContract
  <1>5. n \in Nat /\ DOMAIN cs = 1 .. n /\ \A i \in 1 .. n : cs[i] \in C
    <2> HIDE DEF cs, C
    <2> QED BY <1>2, LenProperties
  <1>6. \A c \in C : Revision(c) \in Revisions BY DEF Revisions, Revised
  <1>7. RevisedFor(owned, t) = {Revision(c) : c \in D} BY DEF RevisedFor
  <1> HIDE DEF C, D, cs, n, r
  <1>8. r = [i \in 1 .. n |-> Revision(cs[i])] BY <1>4, <1>5
  <1>9. r \in Seq(Revisions)
    <2>1. r \in [1 .. n -> Revisions] BY <1>5, <1>6, <1>8
    <2> QED BY <2>1, <1>5, SeqDef
  <1>10. Range(r) = {Revision(c) : c \in D}
    <2>1. Range(r) = {Revision(cs[i]) : i \in 1 .. n} BY <1>8 DEF Range
    <2>2. D = {cs[i] : i \in 1 .. n} BY <1>2, <1>3, <1>5 DEF Range
    <2> QED BY <2>1, <2>2
  <1>11. IsInjective(r)
    <2> SUFFICES ASSUME NEW i \in 1 .. n, NEW j \in 1 .. n, r[i] = r[j] PROVE i = j
      BY <1>8 DEF IsInjective
    <2>1. Revision(cs[i]) = Revision(cs[j]) BY <1>8
    <2>2. cs[i].id = cs[j].id /\ cs[i].rev = cs[j].rev BY <2>1 DEF Revision
    <2>3. cs[i] = cs[j] BY <2>2, <1>1, <1>5
    <2> QED BY <2>3, <1>2, <1>5 DEF IsInjective
  <1> QED BY <1>7, <1>9, <1>10, <1>11 DEF r

LEMMA FilterContracts ==
  ASSUME NEW bs \in Seq(Blocks), NEW owned, NEW next, NEW outs
  PROVE  /\ processBlocks(bs, owned, next, outs).contracts \in Seq(Revisions)
         /\ Range(processBlocks(bs, owned, next, outs).contracts)
              = AllRevised(owned, Range(TxnsOf(bs)))
         /\ IsInjective(TxnsOf(bs)) /\
            (\A t, u \in Range(TxnsOf(bs)) : t # u => Revised(t) \cap Revised(u) = {})
            => IsInjective(processBlocks(bs, owned, next, outs).contracts)
  <1> DEFINE all == Keep(TxnsOf(bs), Relevant(owned))
             n == Len(all)
             ss == [i \in DOMAIN all |-> relevantFileContract(all[i], owned)]
             ts == Range(TxnsOf(bs))
             p == processBlocks(bs, owned, next, outs).contracts
  <1>1. p = FlattenSeq(ss) BY DEF processBlocks, Relevant, Txns
  <1>2. TxnsOf(bs) \in Seq(Txns) BY TxnsType
  <1>3. /\ all \in Seq(Txns) /\ Range(all) = ts \cap Relevant(owned)
        /\ IsInjective(TxnsOf(bs)) => IsInjective(all)
    BY <1>2, KeepFacts
  <1>t. ts \subseteq Txns BY <1>2, RangeOfSeq
  <1> HIDE DEF all, p, ts
  <1>4. n \in Nat /\ DOMAIN all = 1 .. n /\ \A i \in 1 .. n : all[i] \in Txns BY <1>3, LenProperties
  <1>5. ss = [i \in 1 .. n |-> relevantFileContract(all[i], owned)] BY <1>4
  <1> HIDE DEF ss, n
  <1>6. \A i \in 1 .. n : /\ ss[i] \in Seq(Revisions)
                          /\ Range(ss[i]) = RevisedFor(owned, all[i]) /\ IsInjective(ss[i])
    BY <1>4, <1>5, FilterContract
  <1>7. ss \in Seq(Seq(Revisions)) /\ DOMAIN ss = 1 .. n
    <2>1. ss \in [1 .. n -> Seq(Revisions)] BY <1>5, <1>6
    <2> QED BY <2>1, <1>4, SeqDef
  <1>8. FlattenSeq(ss) \in Seq(Revisions) BY <1>7, FlattenType
  <1>9. Range(FlattenSeq(ss)) = AllRevised(owned, ts)
    <2>1. Range(FlattenSeq(ss)) = UNION {Range(ss[i]) : i \in DOMAIN ss} BY <1>7, FlattenRange
    <2>2. Range(all) = {all[i] : i \in 1 .. n} BY <1>4 DEF Range
    <2>3. ASSUME NEW x, NEW i \in 1 .. n, x \in Range(ss[i]) PROVE x \in AllRevised(owned, ts)
      <3>1. all[i] \in ts BY <2>2, <1>3
      <3> QED BY <3>1, <2>3, <1>6 DEF AllRevised
    <2>4. ASSUME NEW x, NEW t \in ts, x \in RevisedFor(owned, t)
          PROVE  \E i \in 1 .. n : x \in Range(ss[i])
      <3>1. PICK c \in Range(Txn[t].contracts) : c.addrs \cap owned # {} BY <2>4 DEF RevisedFor
      <3>2. \E i \in DOMAIN Txn[t].contracts : c = Txn[t].contracts[i] BY DEF Range
      <3>3. AddrsOf(t) \cap owned # {} BY <3>1, <3>2 DEF AddrsOf
      <3>4. t \in Relevant(owned) BY <3>3, <1>t DEF Relevant, RelevantTransaction
      <3>5. PICK i \in 1 .. n : t = all[i] BY <3>4, <2>2, <1>3
      <3> QED BY <3>5, <2>4, <1>6
    <2> QED BY <2>1, <2>3, <2>4, <1>7 DEF AllRevised
  <1>10. ASSUME IsInjective(TxnsOf(bs)),
                \A t, u \in ts : t # u => Revised(t) \cap Revised(u) = {}
         PROVE  IsInjective(FlattenSeq(ss))
    <2>1. IsInjective(all) BY <1>3, <1>10
    <2>2. ASSUME NEW i \in 1 .. n, NEW j \in 1 .. n, i # j PROVE Range(ss[i]) \cap Range(ss[j]) = {}
      <3>1. all[i] # all[j] BY <2>1, <2>2, <1>4 DEF IsInjective
      <3>2. all[i] \in ts /\ all[j] \in ts BY <1>3, <1>4 DEF Range
      <3>3. Revised(all[i]) \cap Revised(all[j]) = {} BY <3>1, <3>2, <1>10
      <3>4. \A t : RevisedFor(owned, t) \subseteq Revised(t) BY DEF RevisedFor, Revised
      <3>5. Range(ss[i]) \subseteq Revised(all[i]) /\ Range(ss[j]) \subseteq Revised(all[j])
        BY <3>4, <1>6
      <3> QED BY <3>3, <3>5
    <2>3. Apart(ss) BY <2>2, <1>6, <1>7 DEF Apart
    <2> QED BY <2>3, <1>7, FlattenRange
  <1> QED BY <1>1, <1>8, <1>9, <1>10 DEF p, ts

LEMMA FilterRewards ==
  ASSUME NEW bs \in Seq(Blocks), NEW owned
  PROVE  /\ processMinerPayouts(bs, owned) \in Seq(Payouts)
         /\ Range(processMinerPayouts(bs, owned)) = PayoutsOf(owned, Range(bs))
         /\ (\A i, j \in 1 .. Len(bs) : bs[i].id = bs[j].id => i = j)
              => IsInjective(processMinerPayouts(bs, owned))
  <1> DEFINE D == {b \in Range(bs) : b.payout \in owned}
             m == Keep(bs, D)
             n == Len(m)
             r == processMinerPayouts(bs, owned)
  <1>0. DOMAIN bs = 1 .. Len(bs) /\ Range(bs) \subseteq Blocks BY LenProperties, RangeOfSeq
  <1>1. r = [i \in DOMAIN m |-> Payout(m[i])] BY DEF processMinerPayouts
  <1>d. D \subseteq Range(bs) OBVIOUS
  <1>p. PayoutsOf(owned, Range(bs)) = {Payout(b) : b \in D} BY DEF PayoutsOf
  <1> HIDE DEF D
  <1>2. /\ m \in Seq(Blocks) /\ Range(m) = Range(bs) \cap D
        /\ IsInjective(bs) => IsInjective(m)
    BY KeepFacts
  <1> HIDE DEF m, r
  <1>3. n \in Nat /\ DOMAIN m = 1 .. n /\ \A i \in 1 .. n : m[i] \in Blocks BY <1>2, LenProperties
  <1> HIDE DEF n
  <1>4. r = [i \in 1 .. n |-> Payout(m[i])] BY <1>1, <1>3
  <1>5. r \in Seq(Payouts)
    <2>1. \A i \in 1 .. n : Payout(m[i]) \in Payouts BY <1>3 DEF Payouts
    <2>2. r \in [1 .. n -> Payouts] BY <1>4, <2>1
    <2> QED BY <2>2, <1>3, SeqDef
  <1>6. Range(r) = {Payout(b) : b \in D}
    <2>1. Range(r) = {Payout(m[i]) : i \in 1 .. n} BY <1>4 DEF Range
    <2>2. D = {m[i] : i \in 1 .. n} BY <1>d, <1>2, <1>3 DEF Range
    <2> QED BY <2>1, <2>2
  <1>7. ASSUME \A i, j \in 1 .. Len(bs) : bs[i].id = bs[j].id => i = j PROVE IsInjective(r)
    <2>1. IsInjective(m) BY <1>0, <1>2, <1>7 DEF IsInjective
    <2> SUFFICES ASSUME NEW i \in 1 .. n, NEW j \in 1 .. n, r[i] = r[j] PROVE i = j
      BY <1>4 DEF IsInjective
    <2>2. Payout(m[i]) = Payout(m[j]) BY <1>4
    <2>3. m[i].id = m[j].id BY <2>2 DEF Payout, Output
    <2>4. m[i] \in Range(bs) /\ m[j] \in Range(bs) BY <1>2, <1>3 DEF Range
    <2>5. PICK x \in 1 .. Len(bs) : m[i] = bs[x] BY <2>4, <1>0 DEF Range
    <2>6. PICK y \in 1 .. Len(bs) : m[j] = bs[y] BY <2>4, <1>0 DEF Range
    <2>7. m[i] = m[j] BY <2>3, <2>5, <2>6, <1>7
    <2> QED BY <2>1, <2>7, <1>3 DEF IsInjective
  <1> QED BY <1>5, <1>6, <1>7, <1>p DEF r

LEMMA KeepConcat2 ==
  ASSUME NEW E, NEW Z, NEW p \in Seq(E), NEW q \in Seq(E)
  PROVE  Keep(p \o q, Z) = Keep(p, Z) \o Keep(q, Z)
  BY KeepConcat

LEMMA KeepNone ==
  ASSUME NEW E, NEW Z, NEW p \in Seq(E), Range(p) \cap Z = {}
  PROVE  Keep(p, Z) = <<>>
  <1> DEFINE w == Keep(p, Z)
  <1>1. w \in Seq(E) /\ Range(w) = {} BY KeepFacts
  <1> HIDE DEF w
  <1>2. Range(w) = {w[i] : i \in 1 .. Len(w)} BY <1>1, RangeEquality
  <1>3. ASSUME w # <<>> PROVE FALSE
    <2>1. Len(w) \in Nat \ {0} BY <1>1, <1>3, EmptySeq
    <2>2. 1 \in 1 .. Len(w) BY <2>1
    <2> QED BY <2>2, <1>1, <1>2
  <1> QED BY <1>3 DEF w

LEMMA KeepStart ==
  ASSUME NEW E, NEW Z, NEW p \in Seq(E), NEW q \in Seq(E),
         Range(p) \subseteq Z, Range(q) \cap Z = {}
  PROVE  Keep(p \o q, Z) = p
  <1>1. Keep(p \o q, Z) = Keep(p, Z) \o Keep(q, Z) BY KeepConcat2
  <1>2. Keep(p, Z) = p BY KeepAll
  <1>3. Keep(q, Z) = <<>> BY KeepNone
  <1>4. p \o <<>> = p BY ConcatEmptySeq
  <1> QED BY <1>1, <1>2, <1>3, <1>4

(* A list of what a set holds of a sequence follows the sequence when its end *)
(* is replaced.                                                               *)
Relisted(k, r, b, A, S, xs) ==
  /\ Without(Keep(k \o r, A), xs) = Keep(k, A)
  /\ Keep(k, A) \o Keep(b, S) = Keep(k \o b, (Range(k) \cap A) \cup (Range(b) \cap S))
  /\ Range(Keep(k, A) \o Keep(b, S)) = (Range(k) \cap A) \cup (Range(b) \cap S)

LEMMA Relist ==
  ASSUME NEW E, NEW k \in Seq(E), NEW r \in Seq(E), NEW b \in Seq(E), NEW A, NEW S, NEW xs,
         Range(k) \cap Range(r) = {}, Range(k) \cap Range(b) = {}, A \subseteq S,
         Range(xs) = Range(r) \cap S
  PROVE  Relisted(k, r, b, A, S, xs)
  <1> DEFINE s == Keep(k \o r, A)
             Z == Range(s) \ Range(xs)
             Y == (Range(k) \cap A) \cup (Range(b) \cap S)
  <1>1. s = Keep(k, A) \o Keep(r, A) BY KeepConcat
  <1>2. /\ Keep(k, A) \in Seq(E) /\ Range(Keep(k, A)) = Range(k) \cap A
        /\ Keep(r, A) \in Seq(E) /\ Range(Keep(r, A)) = Range(r) \cap A
        /\ Keep(b, S) \in Seq(E) /\ Range(Keep(b, S)) = Range(b) \cap S
    BY KeepFacts
  <1> DEFINE ka == Keep(k, A)
             ra == Keep(r, A)
             bs == Keep(b, S)
  <1> HIDE DEF ka, ra, bs
  <1>3. /\ ka \in Seq(E) /\ ra \in Seq(E) /\ bs \in Seq(E) /\ s = ka \o ra
        /\ Range(ka) = Range(k) \cap A /\ Range(ra) = Range(r) \cap A
        /\ Range(bs) = Range(b) \cap S
    BY <1>1, <1>2 DEF ka, ra, bs
  <1>4. Range(s) = Range(ka) \cup Range(ra)
    <2> HIDE DEF s
    <2> QED BY <1>3, RangeConcatenation
  <1>5. Without(s, xs) = Keep(s, Z) BY DEF Without
  <1>z. Range(ka) \subseteq Z /\ Range(ra) \cap Z = {}
    <2> HIDE DEF s
    <2> QED BY <1>3, <1>4
  <1> HIDE DEF s, Z
  <1>6. Keep(s, Z) = ka
    <2>1. ka \in Seq(E) BY <1>3
    <2>2. ra \in Seq(E) BY <1>3
    <2>3. Range(ka) \subseteq Z BY <1>z
    <2>4. Range(ra) \cap Z = {} BY <1>z
    <2>5. Keep(ka \o ra, Z) = ka BY <2>1, <2>2, <2>3, <2>4, KeepStart
    <2> QED BY <2>5, <1>3
  <1>7. ka \o bs = Keep(k \o b, Y)
    <2>y. Range(k) \cap Y = Range(k) \cap A /\ Range(b) \cap Y = Range(b) \cap S OBVIOUS
    <2> HIDE DEF Y
    <2>1. Keep(k \o b, Y) = Keep(k, Y) \o Keep(b, Y) BY KeepConcat
    <2>2. Keep(k, Y) = ka BY <2>y, KeepSame DEF ka
    <2>3. Keep(b, Y) = bs BY <2>y, KeepSame DEF bs
    <2> QED BY <2>1, <2>2, <2>3
  <1>8. Range(ka \o bs) = Y
    <2>1. Range(ka \o bs) = Range(ka) \cup Range(bs) BY <1>3, RangeConcatenation
    <2> QED BY <2>1, <1>3
  <1> QED BY <1>5, <1>6, <1>7, <1>8 DEF Relisted, s, ka, bs

-----------------------------------------------------------------------------
(* A change of the chain, as the wallet is told of it: the blocks r after k   *)
(* are replaced by b.                                                         *)
Replaces(n, k, r, b) ==
  /\ k \in Seq(Blocks) /\ r \in Seq(Blocks) /\ b \in Seq(Blocks)
  /\ Chain(n - 1) = k \o r /\ Chain(n) = k \o b
  /\ b = log[n].blocks /\ Len(r) = log[n].revert /\ Len(b) > 0
  /\ ConsensusChange(n).reverted = Reverse(r)
  /\ ConsensusChange(n).applied = b
  /\ ConsensusChange(n).id = n
  /\ ValidChain(k \o r) /\ ValidChain(k \o b)
  /\ \A i \in 1 .. Len(b) : b[i].id = <<n, i>>
  /\ \A h \in 1 .. Len(k \o r) : (k \o r)[h].id[1] \in 1 .. n - 1

LEMMA ChangeReplaces ==
  ASSUME LogInv, NEW n \in 1 .. Len(log)
  PROVE  \E k, r, b : Replaces(n, k, r, b)
  <1> DEFINE old == Chain(n - 1)
             kept == Len(old) - log[n].revert
             k == SubSeq(old, 1, kept)
             r == SubSeq(old, kept + 1, Len(old))
             b == log[n].blocks
  <1>0. log \in Seq(Changes) /\ Len(log) \in Nat /\ log[n] \in Changes
    BY LenProperties DEF LogInv, LogOK
  <1>1. n - 1 \in 0 .. Len(log) /\ n \in 0 .. Len(log) BY <1>0
  <1>2. ValidChain(old) /\ ValidChain(Chain(n)) /\ \A h \in 1 .. Len(old) : old[h].id[1] \in 1 .. n - 1
    BY <1>1 DEF LogInv, LogOK, ChainInv, Chain
  <1>3. log[n].revert <= Len(old) /\ Len(b) > 0 /\ \A i \in 1 .. Len(b) : b[i].id = <<n, i>>
    BY DEF LogInv, LogOK, ChangeInv, Chain
  <1>4. Chain(n) = Extend(old, log[n]) BY <1>0, ChainFacts DEF Chain
  <1>5. old \in Seq(Blocks) /\ Len(old) \in Nat BY <1>2, LenProperties DEF ValidChain
  <1>6. log[n].revert \in Nat /\ b \in Seq(Blocks) BY <1>0 DEF Changes
  <1>7. Extend(old, log[n]) = k \o b BY DEF Extend
  <1>8. /\ ConsensusChange(n).reverted = Reverse(r)
        /\ ConsensusChange(n).applied = b
        /\ ConsensusChange(n).id = n
    BY DEF ConsensusChange
  <1> HIDE DEF old, b
  <1>9. kept \in 0 .. Len(old) /\ Len(old) - kept = log[n].revert BY <1>3, <1>5, <1>6
  <1> HIDE DEF kept
  <1>10. k \in Seq(Blocks) /\ r \in Seq(Blocks) /\ Len(r) = Len(old) - kept /\ old = k \o r
    BY <1>5, <1>9, Cut
  <1> HIDE DEF k, r
  <1>11. Replaces(n, k, r, b)
    BY <1>2, <1>3, <1>4, <1>6, <1>7, <1>8, <1>9, <1>10 DEF Replaces, old, b
  <1> QED BY <1>11

(* The transactions of the two chains. *)
LEMMA ReplacedTxns ==
  ASSUME NEW n, NEW k, NEW r, NEW b, Replaces(n, k, r, b)
  PROVE  /\ TxnsOf(k) \in Seq(Txns) /\ TxnsOf(r) \in Seq(Txns) /\ TxnsOf(b) \in Seq(Txns)
         /\ TxnsOf(k \o r) = TxnsOf(k) \o TxnsOf(r) /\ TxnsOf(k \o b) = TxnsOf(k) \o TxnsOf(b)
         /\ Range(TxnsOf(k)) \cap Range(TxnsOf(r)) = {}
         /\ Range(TxnsOf(k)) \cap Range(TxnsOf(b)) = {}
         /\ Range(TxnsOf(Reverse(r))) = Range(TxnsOf(r))
         /\ Reverse(r) \in Seq(Blocks) /\ Len(Reverse(r)) = Len(r) /\ Range(Reverse(r)) = Range(r)
         /\ Distinct(k \o r) /\ Distinct(k \o b)
         /\ IsInjective(TxnsOf(b))
         /\ Range(TxnsOf(k \o r)) = Range(TxnsOf(k)) \cup Range(TxnsOf(r))
         /\ Range(TxnsOf(k \o b)) = Range(TxnsOf(k)) \cup Range(TxnsOf(b))
  <1>0. k \in Seq(Blocks) /\ r \in Seq(Blocks) /\ b \in Seq(Blocks) BY DEF Replaces
  <1>1. TxnsOf(k) \in Seq(Txns) BY <1>0, TxnsType
  <1>2. TxnsOf(r) \in Seq(Txns) /\ Range(TxnsOf(r)) = TxnsIn(r) BY <1>0, TxnsType
  <1>3. TxnsOf(b) \in Seq(Txns) BY <1>0, TxnsType
  <1>4. TxnsOf(k \o r) = TxnsOf(k) \o TxnsOf(r) BY <1>0, TxnsConcat
  <1>5. TxnsOf(k \o b) = TxnsOf(k) \o TxnsOf(b) BY <1>0, TxnsConcat
  <1>6. Distinct(k \o r) /\ Distinct(k \o b) BY ValidDistinct DEF Replaces, ValidChain
  <1> DEFINE tk == TxnsOf(k)
             tr == TxnsOf(r)
             tb == TxnsOf(b)
  <1>7. IsInjective(tk \o tr) /\ IsInjective(tk \o tb) BY <1>4, <1>5, <1>6 DEF Distinct
  <1>8. tk \in Seq(Txns) /\ tr \in Seq(Txns) /\ tb \in Seq(Txns) BY <1>1, <1>2, <1>3
  <1> HIDE DEF tk, tr, tb
  <1>9. Range(tk) \cap Range(tr) = {} BY <1>7, <1>8, InjectiveConcat
  <1>10. Range(tk) \cap Range(tb) = {} /\ IsInjective(tb) BY <1>7, <1>8, InjectiveConcat
  <1>11. /\ Range(tk \o tr) = Range(tk) \cup Range(tr)
         /\ Range(tk \o tb) = Range(tk) \cup Range(tb)
    BY <1>8, RangeConcatenation
  <1>12. Reverse(r) \in Seq(Blocks) /\ Len(Reverse(r)) = Len(r) /\ Range(Reverse(r)) = Range(r)
    BY <1>0, ReverseFacts
  <1>13. Range(TxnsOf(Reverse(r))) = TxnsIn(Reverse(r)) BY <1>12, TxnsType
  <1>14. TxnsIn(Reverse(r)) = TxnsIn(r) BY <1>12 DEF TxnsIn
  <1>15. Range(TxnsOf(Reverse(r))) = Range(TxnsOf(r)) BY <1>2, <1>13, <1>14
  <1>16. Range(TxnsOf(k \o r)) = Range(TxnsOf(k)) \cup Range(TxnsOf(r)) BY <1>4, <1>11 DEF tk, tr
  <1>17. Range(TxnsOf(k \o b)) = Range(TxnsOf(k)) \cup Range(TxnsOf(b)) BY <1>5, <1>11 DEF tk, tb
  <1>18. /\ Range(TxnsOf(k)) \cap Range(TxnsOf(r)) = {}
         /\ Range(TxnsOf(k)) \cap Range(TxnsOf(b)) = {}
         /\ IsInjective(TxnsOf(b))
    BY <1>9, <1>10 DEF tk, tr, tb
  <1> QED BY <1>1, <1>2, <1>3, <1>4, <1>5, <1>6, <1>12, <1>15, <1>16, <1>17, <1>18

(* A list of some of the transactions of a chain, in the chain's order. *)
Listed(s, chain, S) ==
  /\ s \in Seq(Txns) /\ Range(s) \subseteq S
  /\ s = Keep(TxnsOf(chain), Range(s))

LEMMA ListedStep ==
  ASSUME NEW n, NEW k, NEW r, NEW b, Replaces(n, k, r, b),
         NEW S, NEW s, Listed(s, k \o r, S),
         NEW xs \in Seq(Txns), Range(xs) = Range(TxnsOf(r)) \cap S
  PROVE  /\ RemoveFirsts(s, xs) = Without(s, xs)
         /\ RemoveLasts(s, xs) = Without(s, xs)
         /\ Without(s, xs) = Keep(TxnsOf(k), Range(s))
         /\ Listed(Without(s, xs) \o Keep(TxnsOf(b), S), k \o b, S)
         /\ Range(Without(s, xs) \o Keep(TxnsOf(b), S))
              = (Range(TxnsOf(k)) \cap Range(s)) \cup (Range(TxnsOf(b)) \cap S)
  <1> DEFINE tk == TxnsOf(k)
             tr == TxnsOf(r)
             tb == TxnsOf(b)
             A == Range(s)
             Y == (Range(tk) \cap A) \cup (Range(tb) \cap S)
  <1>1. /\ tk \in Seq(Txns) /\ tr \in Seq(Txns) /\ tb \in Seq(Txns)
        /\ TxnsOf(k \o r) = tk \o tr /\ TxnsOf(k \o b) = tk \o tb
        /\ Range(tk) \cap Range(tr) = {} /\ Range(tk) \cap Range(tb) = {}
        /\ IsInjective(TxnsOf(k \o r))
    BY ReplacedTxns DEF Distinct
  <1>2. s \in Seq(Txns) /\ A \subseteq S /\ s = Keep(tk \o tr, A) BY <1>1 DEF Listed
  <1>3. Range(xs) = Range(tr) \cap S OBVIOUS
  <1>4. IsInjective(s)
    <2>1. tk \o tr \in Seq(Txns) BY <1>1, ConcatProperties
    <2>2. IsInjective(tk \o tr) BY <1>1
    <2> DEFINE u == tk \o tr
    <2> HIDE DEF u, A
    <2>3. IsInjective(Keep(u, A)) BY <2>1, <2>2, KeepFacts DEF u
    <2> QED BY <2>3, <1>2 DEF u
  <1>5. RemoveFirsts(s, xs) = Without(s, xs) /\ RemoveLasts(s, xs) = Without(s, xs)
    BY <1>2, <1>4, RemovalsAgree
  <1> HIDE DEF tk, tr, tb, A
  <1>6. /\ Without(Keep(tk \o tr, A), xs) = Keep(tk, A)
        /\ Keep(tk, A) \o Keep(tb, S) = Keep(tk \o tb, Y)
        /\ Range(Keep(tk, A) \o Keep(tb, S)) = Y
    <2>1. tk \in Seq(Txns) BY <1>1
    <2>2. tr \in Seq(Txns) BY <1>1
    <2>3. tb \in Seq(Txns) BY <1>1
    <2>4. Range(tk) \cap Range(tr) = {} BY <1>1
    <2>5. Range(tk) \cap Range(tb) = {} BY <1>1
    <2>6. A \subseteq S BY <1>2
    <2>7. Relisted(tk, tr, tb, A, S, xs) BY <2>1, <2>2, <2>3, <2>4, <2>5, <2>6, <1>3, Relist
    <2> QED BY <2>7 DEF Relisted
  <1> DEFINE w == Keep(tk, A) \o Keep(tb, S)
  <1>7. w \in Seq(Txns)
    <2>1. tk \in Seq(Txns) /\ tb \in Seq(Txns) BY <1>1
    <2>2. Keep(tk, A) \in Seq(Txns) /\ Keep(tb, S) \in Seq(Txns) BY <2>1, KeepFacts
    <2> QED BY <2>2, ConcatProperties
  <1>8. Range(w) = Y /\ w = Keep(TxnsOf(k \o b), Y) BY <1>1, <1>6
  <1>9. Y \subseteq S BY <1>2
  <1> HIDE DEF w, Y
  <1>10. Listed(w, k \o b, S) BY <1>7, <1>8, <1>9 DEF Listed
  <1>11. Without(s, xs) = Keep(tk, A) BY <1>2, <1>6
  <1> QED BY <1>5, <1>8, <1>10, <1>11 DEF w, Y, tk, tb, A

-----------------------------------------------------------------------------
(* ApplyConsensusChange, field by field. *)
Fields == {"addrs", "outputs", "rewards", "contracts", "txns", "limbo", "addrIndex", "recent",
           "seedIndex", "height", "ccid"}

MemApplied(t, s, f) ==
  LET rev == f.reverted
      app == f.applied
  IN  /\ DOMAIN t = Fields
      /\ t.addrs = s.addrs /\ t.seedIndex = s.seedIndex
      /\ t.outputs = (s.outputs \ rev.outputs) \cup app.outputs
      /\ t.txns = Recorded(s.txns, rev, app)
      /\ t.limbo = s.limbo \ (Range(rev.txns) \cup Range(app.txns))
      /\ t.height = (s.height + app.count) - rev.count
      /\ t.ccid = f.id
      /\ t.rewards = RemoveFirsts(s.rewards, rev.rewards) \o app.rewards
      /\ t.contracts = RemoveFirsts(s.contracts, rev.contracts) \o app.contracts
      /\ t.recent = RemoveFirsts(s.recent, rev.txns) \o app.txns
      /\ t.addrIndex = [a \in Addr |->
           IF a \in s.addrs THEN RemoveFirsts(s.addrIndex[a], rev.addrTxns[a]) \o app.addrTxns[a]
           ELSE s.addrIndex[a]]

DbApplied(t, s, f) ==
  LET rev == f.reverted
      app == f.applied
  IN  /\ DOMAIN t = Fields
      /\ t.addrs = s.addrs /\ t.seedIndex = s.seedIndex
      /\ t.outputs = (s.outputs \ rev.outputs) \cup app.outputs
      /\ t.txns = Recorded(s.txns, rev, app)
      /\ t.limbo = s.limbo \ (Range(rev.txns) \cup Range(app.txns))
      /\ t.height = (s.height + app.count) - rev.count
      /\ t.ccid = f.id
      /\ t.rewards = RemoveLasts(s.rewards, rev.rewards) \o app.rewards
      /\ t.contracts = RemoveLasts(s.contracts, rev.contracts) \o app.contracts
      /\ t.recent = RemoveLasts(s.recent, rev.txns) \o app.txns
      /\ t.addrIndex = [a \in Addr |->
           IF a \in s.addrs THEN Without(s.addrIndex[a], rev.addrTxns[a]) \o Aliased(app.addrTxns[a])
           ELSE s.addrIndex[a]]

LEMMA AppliedFields ==
  ASSUME NEW s, NEW f, DOMAIN s = Fields
  PROVE  MemApplied(memApply(s, f), s, f) /\ DbApplied(dbApply(s, f), s, f)
  <1>1. MemApplied(memApply(s, f), s, f) BY DEF MemApplied, memApply, Applied, Verbatim, Fields
  <1>2. DbApplied(dbApply(s, f), s, f) BY DEF DbApplied, dbApply, Applied, Fields
  <1> QED BY <1>1, <1>2

(* What Bolt stores of at most one transaction is that transaction. *)
LEMMA AliasedOne ==
  ASSUME NEW E, NEW s \in Seq(E), ~(Len(s) > 1)
  PROVE  Aliased(s) = s
  <1>1. Len(s) \in Nat /\ DOMAIN s = 1 .. Len(s) /\ s = [i \in 1 .. Len(s) |-> s[i]] OBVIOUS
  <1>2. \A i \in 1 .. Len(s) : i = Len(s) BY <1>1
  <1> QED BY <1>1, <1>2 DEF Aliased

-----------------------------------------------------------------------------
(* The invariant of the two stores.  They agree in everything but the lists   *)
(* of addresses that were removed and of those that one change applied two    *)
(* transactions of; any other list never holds an entry twice, because        *)
(* its entries are of the chain that the store was told of, those of a block  *)
(* that is taken off go with it, and those of a block that is put on are new. *)
SharedInv ==
  /\ DOMAIN mem = Fields /\ DOMAIN db = Fields
  /\ mem.addrs = db.addrs /\ mem.outputs = db.outputs /\ mem.txns = db.txns
  /\ mem.limbo = db.limbo /\ mem.seedIndex = db.seedIndex
  /\ mem.height = db.height /\ mem.ccid = db.ccid
  /\ db.ccid \in 0 .. Len(log)
  /\ db.height = Len(Chain(db.ccid))

RecentInv ==
  tainted = {} =>
    /\ mem.recent = db.recent
    /\ Listed(db.recent, Chain(db.ccid), Relevant(db.addrs))

AddrInv(a) ==
  /\ mem.addrIndex[a] = db.addrIndex[a]
  /\ Listed(db.addrIndex[a], Chain(db.ccid), ByAddr(a))
  /\ a \notin db.addrs => db.addrIndex[a] = <<>>

AddrIndexInv == \A a \in Addr \ (tainted \cup smeared) : AddrInv(a)

RewardsInv ==
  ~reset =>
    /\ mem.rewards = db.rewards
    /\ db.rewards \in Seq(Payouts) /\ IsInjective(db.rewards)
    /\ Range(db.rewards) \subseteq {Payout(b) : b \in {d \in Blocks : d.id[1] \in 1 .. db.ccid}}

ContractsInv ==
  ~reset /\ tainted = {} =>
    /\ mem.contracts = db.contracts
    /\ db.contracts \in Seq(Revisions) /\ IsInjective(db.contracts)
    /\ Range(db.contracts) \subseteq AllRevised(db.addrs, Range(TxnsOf(Chain(db.ccid))))

StoresInv == LogInv /\ SharedInv /\ RecentInv /\ AddrIndexInv /\ RewardsInv /\ ContractsInv

-----------------------------------------------------------------------------
LEMMA ListedEmpty ==
  ASSUME NEW c \in Seq(Blocks), NEW S
  PROVE  Listed(<<>>, c, S)
  <1>1. <<>> \in Seq(Txns) /\ Range(<<>>) = {} BY EmptySeq, RangeEmpty
  <1>2. TxnsOf(c) \in Seq(Txns) BY TxnsType
  <1>3. Range(TxnsOf(c)) \cap {} = {} OBVIOUS
  <1>4. Keep(TxnsOf(c), {}) = <<>> BY <1>2, <1>3, KeepNone
  <1> QED BY <1>1, <1>4 DEF Listed

LEMMA ChainZero ==
  ASSUME LogInv
  PROVE  Chain(0) = <<>> /\ Len(Chain(0)) = 0 /\ Len(log) \in Nat
  BY ChainFacts, EmptySeq, LenProperties DEF Chain, LogInv, LogOK

LEMMA ChainType ==
  ASSUME LogInv, NEW n \in 0 .. Len(log)
  PROVE  ValidChain(Chain(n)) /\ Chain(n) \in Seq(Blocks)
  <1>1. ValidChain(Chain(n)) BY DEF LogInv, LogOK, ChainInv, Chain
  <1> QED BY <1>1 DEF ValidChain

LEMMA StoresInit == Init => StoresInv
  <1> SUFFICES ASSUME Init PROVE StoresInv OBVIOUS
  <1>1. LogInv BY LogInit
  <1>2. Chain(0) = <<>> /\ Len(Chain(0)) = 0 /\ Len(log) \in Nat BY <1>1, ChainZero
  <1>3. mem = NewStore /\ db = NewStore BY DEF Init
  <1>4. /\ NewStore.ccid = 0 /\ NewStore.height = 0 /\ DOMAIN NewStore = Fields
        /\ NewStore.addrs = {} /\ NewStore.recent = <<>> /\ NewStore.rewards = <<>>
        /\ NewStore.contracts = <<>> /\ \A a \in Addr : NewStore.addrIndex[a] = <<>>
    BY DEF NewStore, Fields
  <1>5. <<>> \in Seq(Blocks) /\ <<>> \in Seq(Payouts) /\ <<>> \in Seq(Revisions) BY EmptySeq
  <1>6. IsInjective(<<>>) /\ Range(<<>>) = {} BY RangeEmpty
  <1>7. 0 \in 0 .. Len(log) BY <1>2
  <1>8. SharedInv BY <1>2, <1>3, <1>4, <1>7 DEF SharedInv
  <1>9. RecentInv BY <1>2, <1>3, <1>4, <1>5, ListedEmpty DEF RecentInv
  <1>10. AddrIndexInv BY <1>2, <1>3, <1>4, <1>5, ListedEmpty DEF AddrIndexInv, AddrInv
  <1>11. RewardsInv BY <1>3, <1>4, <1>5, <1>6 DEF RewardsInv
  <1>12. ContractsInv BY <1>3, <1>4, <1>5, <1>6 DEF ContractsInv
  <1> QED BY <1>1, <1>8, <1>9, <1>10, <1>11, <1>12 DEF StoresInv

(* Steps that leave the chain and the lists. *)
SameLists ==
  /\ db'.recent = db.recent /\ mem'.recent = mem.recent
  /\ db'.addrIndex = db.addrIndex /\ mem'.addrIndex = mem.addrIndex
  /\ db'.rewards = db.rewards /\ mem'.rewards = mem.rewards
  /\ db'.contracts = db.contracts /\ mem'.contracts = mem.contracts
  /\ db'.ccid = db.ccid /\ smeared' = smeared
  /\ Chain(db.ccid)' = Chain(db.ccid)

LEMMA ListedMore ==
  ASSUME NEW s, NEW c, NEW S, NEW T, Listed(s, c, S), S \subseteq T
  PROVE  Listed(s, c, T)
  BY DEF Listed

LEMMA RelevantMore ==
  ASSUME NEW A, NEW B, A \subseteq B
  PROVE  /\ Relevant(A) \subseteq Relevant(B)
         /\ \A ts : AllRevised(A, ts) \subseteq AllRevised(B, ts)
  <1>1. Relevant(A) \subseteq Relevant(B) BY DEF Relevant, RelevantTransaction
  <1>2. \A t : RevisedFor(A, t) \subseteq RevisedFor(B, t) BY DEF RevisedFor
  <1>3. \A ts : AllRevised(A, ts) \subseteq AllRevised(B, ts) BY <1>2 DEF AllRevised
  <1> QED BY <1>1, <1>3

(* More addresses are tracked, or one is removed. *)
LEMMA SameListsInv ==
  ASSUME StoresInv, SameLists, tainted \subseteq tainted', reset' = reset,
         db.addrs \subseteq db'.addrs \/ tainted' # {},
         db.addrs \ tainted' \subseteq db'.addrs
  PROVE  RecentInv' /\ AddrIndexInv' /\ RewardsInv' /\ ContractsInv'
  <1>1. RecentInv'
    <2> SUFFICES ASSUME tainted' = {}
                 PROVE  mem'.recent = db'.recent
                        /\ Listed(db'.recent, Chain(db.ccid)', Relevant(db'.addrs))
      BY DEF RecentInv
    <2>1. tainted = {} /\ db.addrs \subseteq db'.addrs OBVIOUS
    <2>2. mem.recent = db.recent /\ Listed(db.recent, Chain(db.ccid), Relevant(db.addrs))
      BY <2>1 DEF StoresInv, RecentInv
    <2>3. Relevant(db.addrs) \subseteq Relevant(db'.addrs) BY <2>1, RelevantMore
    <2>4. Listed(db.recent, Chain(db.ccid), Relevant(db'.addrs)) BY <2>2, <2>3, ListedMore
    <2> QED BY <2>2, <2>4 DEF SameLists
  <1>2. AddrIndexInv'
    <2> SUFFICES ASSUME NEW a \in Addr \ (tainted' \cup smeared') PROVE AddrInv(a)'
      BY DEF AddrIndexInv
    <2>1. AddrInv(a) BY DEF StoresInv, AddrIndexInv, SameLists
    <2>2. a \notin db'.addrs => a \notin db.addrs OBVIOUS
    <2> QED BY <2>1, <2>2 DEF AddrInv, SameLists
  <1>3. RewardsInv' BY DEF StoresInv, RewardsInv, SameLists
  <1>4. ContractsInv'
    <2> SUFFICES ASSUME ~reset', tainted' = {}
                 PROVE  /\ mem'.contracts = db'.contracts
                        /\ db'.contracts \in Seq(Revisions) /\ IsInjective(db'.contracts)
                        /\ Range(db'.contracts)
                             \subseteq AllRevised(db'.addrs, Range(TxnsOf(Chain(db.ccid)')))
      BY DEF ContractsInv
    <2>1. tainted = {} /\ ~reset /\ db.addrs \subseteq db'.addrs OBVIOUS
    <2>2. /\ mem.contracts = db.contracts
          /\ db.contracts \in Seq(Revisions) /\ IsInjective(db.contracts)
          /\ Range(db.contracts) \subseteq AllRevised(db.addrs, Range(TxnsOf(Chain(db.ccid))))
      BY <2>1 DEF StoresInv, ContractsInv
    <2>3. \A ts : AllRevised(db.addrs, ts) \subseteq AllRevised(db'.addrs, ts)
      BY <2>1, RelevantMore
    <2> QED BY <2>2, <2>3 DEF SameLists
  <1> QED BY <1>1, <1>2, <1>3, <1>4

LEMMA SameLog ==
  ASSUME StoresInv, log' = log, db'.ccid = db.ccid
  PROVE  LogInv' /\ Chain(db.ccid)' = Chain(db.ccid)
  BY DEF StoresInv, LogInv, Chain

-----------------------------------------------------------------------------
(* ProcessConsensusChange.  What the stores are given, by Replaces. *)
LEMMA DeliverFilter ==
  ASSUME StoresInv, Deliver
  PROVE  \E k, r, b, H, X, Y, f :
           /\ Replaces(db.ccid + 1, k, r, b)
           /\ mem' = memApply(mem, f) /\ db' = dbApply(db, f)
           /\ smeared' = smeared \cup Smears(f, db.addrs)
           /\ f.id = db.ccid + 1
           /\ f.reverted = processBlocks(Reverse(r), db.addrs, 0, X)
           /\ f.applied = processBlocks(b, db.addrs, H, Y)
           /\ H = ChainHeight(db) + 1
           /\ X = processOutputs(ConsensusChange(db.ccid + 1).diffs, db.addrs, "revert")
           /\ Y = processOutputs(ConsensusChange(db.ccid + 1).diffs, db.addrs, "apply")
  <1> DEFINE n == db.ccid + 1
             cc == ConsensusChange(n)
             f == FilterConsensusChange(cc, db.addrs, ChainHeight(db))
             X == processOutputs(cc.diffs, db.addrs, "revert")
             Y == processOutputs(cc.diffs, db.addrs, "apply")
             H == ChainHeight(db) + 1
  <1>0. Len(log) \in Nat BY ChainZero DEF StoresInv
  <1>1. n \in 1 .. Len(log) BY <1>0 DEF StoresInv, SharedInv, Deliver
  <1> HIDE DEF n
  <1>2. PICK k, r, b : Replaces(n, k, r, b) BY <1>1, ChangeReplaces DEF StoresInv
  <1>3. ChainHeight(mem) = ChainHeight(db) /\ mem.addrs = db.addrs
    BY DEF StoresInv, SharedInv, ChainHeight
  <1>4. /\ mem' = memApply(mem, f) /\ db' = dbApply(db, f)
        /\ smeared' = smeared \cup Smears(f, db.addrs)
    BY <1>3 DEF Deliver, n
  <1>5. /\ f.id = cc.id
        /\ f.reverted = processBlocks(cc.reverted, db.addrs, 0, X)
        /\ f.applied = processBlocks(cc.applied, db.addrs, H, Y)
    BY DEF FilterConsensusChange
  <1>6. cc.id = n /\ cc.reverted = Reverse(r) /\ cc.applied = b BY <1>2 DEF Replaces
  <1> HIDE DEF f, H
  <1>7. /\ f.id = n
        /\ f.reverted = processBlocks(Reverse(r), db.addrs, 0, X)
        /\ f.applied = processBlocks(b, db.addrs, H, Y)
    BY <1>5, <1>6
  <1>8. H = ChainHeight(db) + 1 BY DEF H
  <1> HIDE DEF cc
  <1>9. /\ X = processOutputs(ConsensusChange(n).diffs, db.addrs, "revert")
        /\ Y = processOutputs(ConsensusChange(n).diffs, db.addrs, "apply")
    BY DEF cc
  <1> HIDE DEF X, Y
  <1> QED BY <1>2, <1>4, <1>7, <1>8, <1>9 DEF n

LEMMA DeliverStores ==
  ASSUME StoresInv, Deliver
  PROVE  StoresInv'
  <1> DEFINE n == db.ccid + 1
  <1>0. PICK k, r, b, H, X, Y, f :
           /\ Replaces(n, k, r, b)
           /\ mem' = memApply(mem, f) /\ db' = dbApply(db, f)
           /\ smeared' = smeared \cup Smears(f, db.addrs)
           /\ f.id = n
           /\ f.reverted = processBlocks(Reverse(r), db.addrs, 0, X)
           /\ f.applied = processBlocks(b, db.addrs, H, Y)
    BY DeliverFilter
  <1>n. n \in 1 .. Len(log) /\ n \in 0 .. Len(log) /\ n \in Nat /\ n - 1 = db.ccid
    <2>1. Len(log) \in Nat BY ChainZero DEF StoresInv
    <2> QED BY <2>1 DEF StoresInv, SharedInv, Deliver
  <1>l. log' = log /\ tainted' = tainted /\ reset' = reset BY DEF Deliver
  <1> HIDE DEF n
  <1> DEFINE rev == f.reverted
             app == f.applied
             O == db.addrs
             old == Chain(db.ccid)
  <1>r. /\ k \in Seq(Blocks) /\ r \in Seq(Blocks) /\ b \in Seq(Blocks)
        /\ old = k \o r /\ Chain(n) = k \o b
        /\ Reverse(r) \in Seq(Blocks)
    BY <1>0, <1>n, ReverseFacts DEF Replaces
  <1>t. /\ Range(TxnsOf(Reverse(r))) = Range(TxnsOf(r))
        /\ Range(Reverse(r)) = Range(r) /\ Len(Reverse(r)) = Len(r)
        /\ TxnsOf(k) \in Seq(Txns) /\ TxnsOf(r) \in Seq(Txns) /\ TxnsOf(b) \in Seq(Txns)
        /\ Distinct(k \o r) /\ Distinct(k \o b) /\ IsInjective(TxnsOf(b))
        /\ Range(TxnsOf(k \o r)) = Range(TxnsOf(k)) \cup Range(TxnsOf(r))
        /\ Range(TxnsOf(k \o b)) = Range(TxnsOf(k)) \cup Range(TxnsOf(b))
        /\ Range(TxnsOf(k)) \cap Range(TxnsOf(b)) = {}
    BY <1>0, ReplacedTxns
  <1>d. DOMAIN mem = Fields /\ DOMAIN db = Fields /\ mem.addrs = O BY DEF StoresInv, SharedInv
  <1>M. /\ DOMAIN mem' = Fields
        /\ mem'.addrs = O /\ mem'.seedIndex = mem.seedIndex
        /\ mem'.outputs = (mem.outputs \ rev.outputs) \cup app.outputs
        /\ mem'.txns = Recorded(mem.txns, rev, app)
        /\ mem'.limbo = mem.limbo \ (Range(rev.txns) \cup Range(app.txns))
        /\ mem'.height = (mem.height + app.count) - rev.count
        /\ mem'.ccid = n
        /\ mem'.rewards = RemoveFirsts(mem.rewards, rev.rewards) \o app.rewards
        /\ mem'.contracts = RemoveFirsts(mem.contracts, rev.contracts) \o app.contracts
        /\ mem'.recent = RemoveFirsts(mem.recent, rev.txns) \o app.txns
        /\ mem'.addrIndex = [a \in Addr |->
             IF a \in O THEN RemoveFirsts(mem.addrIndex[a], rev.addrTxns[a]) \o app.addrTxns[a]
             ELSE mem.addrIndex[a]]
    <2>1. MemApplied(mem', mem, f) BY <1>0, <1>d, AppliedFields
    <2> QED BY <2>1, <1>0, <1>d DEF MemApplied
  <1>D. /\ DOMAIN db' = Fields
        /\ db'.addrs = O /\ db'.seedIndex = db.seedIndex
        /\ db'.outputs = (db.outputs \ rev.outputs) \cup app.outputs
        /\ db'.txns = Recorded(db.txns, rev, app)
        /\ db'.limbo = db.limbo \ (Range(rev.txns) \cup Range(app.txns))
        /\ db'.height = (db.height + app.count) - rev.count
        /\ db'.ccid = n
        /\ db'.rewards = RemoveLasts(db.rewards, rev.rewards) \o app.rewards
        /\ db'.contracts = RemoveLasts(db.contracts, rev.contracts) \o app.contracts
        /\ db'.recent = RemoveLasts(db.recent, rev.txns) \o app.txns
        /\ db'.addrIndex = [a \in Addr |->
             IF a \in O THEN Without(db.addrIndex[a], rev.addrTxns[a]) \o Aliased(app.addrTxns[a])
             ELSE db.addrIndex[a]]
    <2>1. DbApplied(db', db, f) BY <1>0, <1>d, AppliedFields
    <2> QED BY <2>1, <1>0, <1>d DEF DbApplied
  <1>c. Chain(db.ccid)' = Chain(n) BY <1>D, <1>l DEF Chain
  <1> HIDE DEF old
  <1>1. LogInv' BY <1>l DEF StoresInv, LogInv
  <1>2. SharedInv'
    <2>1. rev.count = Len(r) /\ app.count = Len(b) BY <1>0, <1>r, <1>t, FilterTxns
    <2>2. db.height = Len(k \o r) BY <1>r DEF StoresInv, SharedInv, old
    <2>3. Len(k \o r) = Len(k) + Len(r) /\ Len(k \o b) = Len(k) + Len(b) BY <1>r, ConcatProperties
    <2>4. Len(k) \in Nat /\ Len(r) \in Nat /\ Len(b) \in Nat BY <1>r, LenProperties
    <2>5. (db.height + app.count) - rev.count = Len(k \o b) BY <2>1, <2>2, <2>3, <2>4
    <2>6. /\ mem.outputs = db.outputs /\ mem.txns = db.txns /\ mem.limbo = db.limbo
          /\ mem.seedIndex = db.seedIndex /\ mem.height = db.height
      BY DEF StoresInv, SharedInv
    <2>7. db'.height = Len(Chain(db.ccid)') BY <2>5, <1>D, <1>c, <1>r
    <2>8. /\ mem'.outputs = db'.outputs /\ mem'.txns = db'.txns /\ mem'.limbo = db'.limbo
          /\ mem'.height = db'.height
      BY <2>6, <1>M, <1>D
    <2>9. db'.ccid \in 0 .. Len(log') BY <1>n, <1>l, <1>D
    <2> QED BY <2>6, <2>7, <2>8, <2>9, <1>M, <1>D DEF SharedInv
  <1>3. RecentInv'
    <2> SUFFICES ASSUME tainted = {}
                 PROVE  mem'.recent = db'.recent /\ Listed(db'.recent, k \o b, Relevant(O))
      BY <1>l, <1>c, <1>r, <1>D DEF RecentInv
    <2> DEFINE S == Relevant(O)
               s == db.recent
               xs == rev.txns
    <2>1. mem.recent = s /\ Listed(s, k \o r, S) BY <1>r DEF StoresInv, RecentInv, old
    <2>2. xs \in Seq(Txns) /\ Range(xs) = Range(TxnsOf(r)) \cap S BY <1>0, <1>r, <1>t, FilterTxns
    <2>3. app.txns = Keep(TxnsOf(b), S) BY <1>0, <1>r, FilterTxns
    <2> HIDE DEF S, s, xs
    <2>4. /\ RemoveFirsts(s, xs) = Without(s, xs) /\ RemoveLasts(s, xs) = Without(s, xs)
          /\ Listed(Without(s, xs) \o Keep(TxnsOf(b), S), k \o b, S)
      BY <1>0, <2>1, <2>2, ListedStep
    <2>5. mem'.recent = Without(s, xs) \o Keep(TxnsOf(b), S) BY <2>1, <2>3, <2>4, <1>M DEF s, xs
    <2>6. db'.recent = Without(s, xs) \o Keep(TxnsOf(b), S) BY <2>3, <2>4, <1>D DEF s, xs
    <2> QED BY <2>4, <2>5, <2>6 DEF S
  <1>4. AddrIndexInv'
    <2> SUFFICES ASSUME NEW a \in Addr, a \notin tainted, a \notin smeared'
                 PROVE  /\ mem'.addrIndex[a] = db'.addrIndex[a]
                        /\ Listed(db'.addrIndex[a], k \o b, ByAddr(a))
                        /\ a \notin O => db'.addrIndex[a] = <<>>
      BY <1>l, <1>c, <1>r, <1>D DEF AddrIndexInv, AddrInv
    <2> DEFINE S == ByAddr(a)
               s == db.addrIndex[a]
               xs == rev.addrTxns[a]
    <2>1. /\ mem.addrIndex[a] = s /\ Listed(s, k \o r, S)
          /\ a \notin O => s = <<>>
      <3>1. a \notin smeared BY <1>0
      <3>2. AddrInv(a) BY <3>1 DEF StoresInv, AddrIndexInv
      <3> QED BY <3>2, <1>r DEF AddrInv, old
    <2>2. CASE a \in O
      <3>1. xs \in Seq(Txns) /\ Range(xs) = Range(TxnsOf(r)) \cap S
        BY <2>2, <1>0, <1>r, <1>t, FilterAddr
      <3>2. app.addrTxns[a] = Keep(TxnsOf(b), S) BY <2>2, <1>0, <1>r, FilterAddr
      <3>3. mem'.addrIndex[a] = RemoveFirsts(s, xs) \o app.addrTxns[a] BY <2>1, <2>2, <1>M
      <3>a. Aliased(app.addrTxns[a]) = app.addrTxns[a]
        <4>1. ~(Len(app.addrTxns[a]) > 1) BY <2>2, <1>0 DEF Smears
        <4>2. app.addrTxns[a] \in Seq(Txns) BY <3>2, <1>t, KeepFacts
        <4> QED BY <4>1, <4>2, AliasedOne
      <3>4. db'.addrIndex[a] = Without(s, xs) \o app.addrTxns[a] BY <2>2, <3>a, <1>D
      <3> HIDE DEF S, s, xs
      <3>5. /\ RemoveFirsts(s, xs) = Without(s, xs)
            /\ Listed(Without(s, xs) \o Keep(TxnsOf(b), S), k \o b, S)
        BY <1>0, <2>1, <3>1, ListedStep
      <3> QED BY <2>2, <3>2, <3>3, <3>4, <3>5 DEF S
    <2>3. CASE a \notin O
      <3>1. s = <<>> /\ mem'.addrIndex[a] = s /\ db'.addrIndex[a] = s BY <2>1, <2>3, <1>M, <1>D
      <3>2. k \o b \in Seq(Blocks) BY <1>r, ConcatProperties
      <3>3. Listed(<<>>, k \o b, S)
        <4> HIDE DEF S
        <4> QED BY <3>2, ListedEmpty
      <3> QED BY <3>1, <3>3
    <2> QED BY <2>2, <2>3
  <1>5. RewardsInv'
    <2> DEFINE Old(m) == {Payout(c) : c \in {d \in Blocks : d.id[1] \in 1 .. m}}
               s == db.rewards
               xs == rev.rewards
               ys == app.rewards
               w == Without(s, xs)
    <2> SUFFICES ASSUME ~reset
                 PROVE  /\ mem'.rewards = db'.rewards
                        /\ db'.rewards \in Seq(Payouts) /\ IsInjective(db'.rewards)
                        /\ Range(db'.rewards) \subseteq Old(n)
      BY <1>l, <1>D DEF RewardsInv
    <2>1. /\ mem.rewards = s /\ s \in Seq(Payouts) /\ IsInjective(s)
          /\ Range(s) \subseteq Old(db.ccid)
      BY DEF StoresInv, RewardsInv
    <2>2. xs = processMinerPayouts(Reverse(r), O) /\ ys = processMinerPayouts(b, O)
      BY <1>0 DEF processBlocks
    <2>3. xs \in Seq(Payouts) BY <2>2, <1>r, FilterRewards
    <2>4. \A i \in 1 .. Len(b) : b[i].id = <<n, i>> BY <1>0 DEF Replaces
    <2>5. \A i, j \in 1 .. Len(b) : b[i].id = b[j].id => i = j BY <2>4
    <2>6. ys \in Seq(Payouts) /\ Range(ys) = PayoutsOf(O, Range(b)) /\ IsInjective(ys)
      BY <2>2, <2>5, <1>r, FilterRewards
    <2>7. Range(ys) \subseteq {Payout(c) : c \in {d \in Blocks : d.id[1] = n}}
      <3>1. Range(b) = {b[i] : i \in 1 .. Len(b)} /\ Range(b) \subseteq Blocks
        BY <1>r, RangeEquality, RangeOfSeq
      <3>2. \A d \in Range(b) : d.id[1] = n /\ d \in Blocks BY <3>1, <2>4
      <3> QED BY <3>2, <2>6 DEF PayoutsOf
    <2>8. ASSUME NEW x, x \in Range(s), x \in Range(ys) PROVE FALSE
      <3>1. PICK c \in Blocks : c.id[1] \in 1 .. db.ccid /\ x = Payout(c) BY <2>1, <2>8
      <3>2. PICK d \in Blocks : d.id[1] = n /\ x = Payout(d) BY <2>7, <2>8
      <3>3. c.id = d.id BY <3>1, <3>2 DEF Payout, Output
      <3>4. n \in 1 .. db.ccid BY <3>1, <3>2, <3>3
      <3> QED BY <3>4, <1>n DEF n
    <2> HIDE DEF s, xs, ys, w
    <2>9. RemoveFirsts(s, xs) = w /\ RemoveLasts(s, xs) = w BY <2>1, <2>3, RemovalsAgree DEF w
    <2>10. w \in Seq(Payouts) /\ IsInjective(w) /\ Range(w) = Range(s) \ Range(xs)
      BY <2>1, WithoutFacts DEF w
    <2>11. /\ w \o ys \in Seq(Payouts) /\ Range(w \o ys) = Range(w) \cup Range(ys)
      BY <2>6, <2>10, ConcatProperties, RangeConcatenation
    <2>12. Range(w) \cap Range(ys) = {} BY <2>8, <2>10
    <2>13. IsInjective(w \o ys)
      <3>1. w \in Seq(Payouts) /\ ys \in Seq(Payouts) BY <2>6, <2>10
      <3> QED BY <3>1, <2>6, <2>10, <2>12, InjectiveConcat
    <2>14. Old(db.ccid) \subseteq Old(n) /\ {Payout(c) : c \in {d \in Blocks : d.id[1] = n}} \subseteq Old(n)
      <3>1. \A i \in 1 .. db.ccid : i \in 1 .. n BY <1>n DEF n
      <3>2. n \in 1 .. n BY <1>n
      <3> QED BY <3>1, <3>2
    <2>15. Range(w \o ys) \subseteq Old(n)
      <3> HIDE DEF Old
      <3> QED BY <2>1, <2>7, <2>10, <2>11, <2>14
    <2>16. mem'.rewards = w \o ys /\ db'.rewards = w \o ys BY <2>1, <2>9, <1>M, <1>D DEF s, xs, ys
    <2> QED BY <2>11, <2>13, <2>15, <2>16
  <1>6. ContractsInv'
    <2> DEFINE s == db.contracts
               xs == rev.contracts
               ys == app.contracts
               w == Without(s, xs)
               tk == Range(TxnsOf(k))
               tr == Range(TxnsOf(r))
               tb == Range(TxnsOf(b))
    <2> SUFFICES ASSUME ~reset, tainted = {}
                 PROVE  /\ mem'.contracts = db'.contracts
                        /\ db'.contracts \in Seq(Revisions) /\ IsInjective(db'.contracts)
                        /\ Range(db'.contracts) \subseteq AllRevised(O, Range(TxnsOf(k \o b)))
      BY <1>l, <1>c, <1>r, <1>D DEF ContractsInv
    <2>1. /\ mem.contracts = s /\ s \in Seq(Revisions) /\ IsInjective(s)
          /\ Range(s) \subseteq AllRevised(O, tk \cup tr)
      BY <1>r, <1>t DEF StoresInv, ContractsInv, old
    <2>2. xs \in Seq(Revisions) /\ Range(xs) = AllRevised(O, tr)
      BY <1>0, <1>r, <1>t, FilterContracts
    <2>3. \A t, u \in tk \cup tb : t # u => Revised(t) \cap Revised(u) = {}
      BY <1>t DEF Distinct
    <2>4. ys \in Seq(Revisions) /\ Range(ys) = AllRevised(O, tb) /\ IsInjective(ys)
      BY <2>3, <1>0, <1>r, <1>t, FilterContracts
    <2> HIDE DEF s, xs, ys, w
    <2>5. RemoveFirsts(s, xs) = w /\ RemoveLasts(s, xs) = w BY <2>1, <2>2, RemovalsAgree DEF w
    <2>6. w \in Seq(Revisions) /\ IsInjective(w) /\ Range(w) = Range(s) \ Range(xs)
      BY <2>1, WithoutFacts DEF w
    <2>7. Range(w) \subseteq AllRevised(O, tk) BY <2>1, <2>2, <2>6 DEF AllRevised
    <2>8. AllRevised(O, tk) \cap AllRevised(O, tb) = {}
      <3> SUFFICES ASSUME NEW x, x \in AllRevised(O, tk), x \in AllRevised(O, tb) PROVE FALSE
        OBVIOUS
      <3>1. PICK t \in tk : x \in RevisedFor(O, t) BY DEF AllRevised
      <3>2. PICK u \in tb : x \in RevisedFor(O, u) BY DEF AllRevised
      <3>3. t # u BY <1>t
      <3>4. x \in Revised(t) /\ x \in Revised(u) BY <3>1, <3>2 DEF RevisedFor, Revised
      <3> HIDE DEF tk, tb
      <3> QED BY <3>3, <3>4, <2>3
    <2>9. /\ w \o ys \in Seq(Revisions) /\ Range(w \o ys) = Range(w) \cup Range(ys)
      BY <2>4, <2>6, ConcatProperties, RangeConcatenation
    <2>10. IsInjective(w \o ys)
      <3>1. w \in Seq(Revisions) /\ ys \in Seq(Revisions) BY <2>4, <2>6
      <3>2. Range(w) \cap Range(ys) = {} BY <2>4, <2>7, <2>8
      <3> QED BY <3>1, <3>2, <2>4, <2>6, InjectiveConcat
    <2>11. Range(w \o ys) \subseteq AllRevised(O, tk \cup tb)
      BY <2>4, <2>7, <2>9 DEF AllRevised
    <2>12. mem'.contracts = w \o ys /\ db'.contracts = w \o ys
      BY <2>1, <2>5, <1>M, <1>D DEF s, xs, ys
    <2>13. Range(TxnsOf(k \o b)) = tk \cup tb BY <1>t
    <2> QED BY <2>9, <2>10, <2>11, <2>12, <2>13
  <1> QED BY <1>1, <1>2, <1>3, <1>4, <1>5, <1>6 DEF StoresInv

-----------------------------------------------------------------------------
LEMMA MineStores ==
  ASSUME StoresInv, NEW revert \in Nat, Mine(revert)
  PROVE  StoresInv'
  <1>1. LogInv' /\ \E c \in Changes : log' = Append(log, c) BY LogMine DEF StoresInv
  <1>2. PICK c \in Changes : log' = Append(log, c) BY <1>1
  <1>3. UNCHANGED <<mem, db, hot, history>> BY DEF Mine
  <1>4. log \in Seq(Changes) /\ Len(log) \in Nat /\ db.ccid \in 0 .. Len(log)
    BY LenProperties DEF StoresInv, LogInv, LogOK, SharedInv
  <1>5. Len(log') = Len(log) + 1 BY <1>2, <1>4, AppendProperties
  <1>6. Chain(db.ccid)' = Chain(db.ccid) BY <1>2, <1>3, <1>4, PrefixOfAppend DEF Chain
  <1>7. SameLists BY <1>3, <1>6 DEF SameLists, history
  <1>8. tainted' = tainted /\ reset' = reset /\ db' = db BY <1>3 DEF history
  <1>9. RecentInv' /\ AddrIndexInv' /\ RewardsInv' /\ ContractsInv' BY <1>7, <1>8, SameListsInv
  <1>10. db.ccid \in 0 .. Len(log') BY <1>4, <1>5
  <1>11. SharedInv' BY <1>3, <1>6, <1>10 DEF StoresInv, SharedInv
  <1> QED BY <1>1, <1>9, <1>11 DEF StoresInv

LEMMA LimboStores ==
  ASSUME StoresInv, NEW t, AddToLimbo(t) \/ RemoveFromLimbo(t)
  PROVE  StoresInv'
  <1>1. log' = log /\ tainted' = tainted /\ smeared' = smeared /\ reset' = reset
    BY DEF AddToLimbo, RemoveFromLimbo
  <1>2. DOMAIN mem = Fields /\ DOMAIN db = Fields /\ mem.limbo = db.limbo BY DEF StoresInv, SharedInv
  <1>3. PICK L : mem' = [mem EXCEPT !.limbo = L] /\ db' = [db EXCEPT !.limbo = L]
    BY <1>2 DEF AddToLimbo, RemoveFromLimbo
  <1>4. /\ DOMAIN mem' = Fields /\ DOMAIN db' = Fields /\ mem'.limbo = db'.limbo
        /\ \A f \in Fields \ {"limbo"} : mem'[f] = mem[f] /\ db'[f] = db[f]
    BY <1>2, <1>3 DEF Fields
  <1>5. /\ mem'.addrs = mem.addrs /\ mem'.outputs = mem.outputs /\ mem'.txns = mem.txns
        /\ mem'.seedIndex = mem.seedIndex /\ mem'.height = mem.height /\ mem'.ccid = mem.ccid
        /\ mem'.recent = mem.recent /\ mem'.addrIndex = mem.addrIndex
        /\ mem'.rewards = mem.rewards /\ mem'.contracts = mem.contracts
    BY <1>4 DEF Fields
  <1>6. /\ db'.addrs = db.addrs /\ db'.outputs = db.outputs /\ db'.txns = db.txns
        /\ db'.seedIndex = db.seedIndex /\ db'.height = db.height /\ db'.ccid = db.ccid
        /\ db'.recent = db.recent /\ db'.addrIndex = db.addrIndex
        /\ db'.rewards = db.rewards /\ db'.contracts = db.contracts
    BY <1>4 DEF Fields
  <1>7. LogInv' /\ Chain(db.ccid)' = Chain(db.ccid) BY <1>1, <1>6, SameLog
  <1>8. SameLists BY <1>1, <1>5, <1>6, <1>7 DEF SameLists
  <1>9. RecentInv' /\ AddrIndexInv' /\ RewardsInv' /\ ContractsInv' BY <1>1, <1>6, <1>8, SameListsInv
  <1>10. SharedInv' BY <1>1, <1>4, <1>5, <1>6, <1>7 DEF StoresInv, SharedInv
  <1> QED BY <1>7, <1>9, <1>10 DEF StoresInv

(* Steps on the addresses: the other fields stay. *)
SameRest ==
  /\ DOMAIN mem' = Fields /\ DOMAIN db' = Fields /\ smeared' = smeared
  /\ mem'.addrs = db'.addrs /\ mem'.seedIndex = db'.seedIndex
  /\ mem'.outputs = mem.outputs /\ mem'.txns = mem.txns /\ mem'.limbo = mem.limbo
  /\ mem'.height = mem.height /\ mem'.ccid = mem.ccid
  /\ mem'.recent = mem.recent /\ mem'.addrIndex = mem.addrIndex
  /\ mem'.rewards = mem.rewards /\ mem'.contracts = mem.contracts
  /\ db'.outputs = db.outputs /\ db'.txns = db.txns /\ db'.limbo = db.limbo
  /\ db'.height = db.height /\ db'.ccid = db.ccid
  /\ db'.recent = db.recent /\ db'.addrIndex = db.addrIndex
  /\ db'.rewards = db.rewards /\ db'.contracts = db.contracts

LEMMA AddrStores ==
  ASSUME StoresInv, SameRest, log' = log, tainted \subseteq tainted', reset' = reset,
         db.addrs \subseteq db'.addrs \/ tainted' # {},
         db.addrs \ tainted' \subseteq db'.addrs
  PROVE  StoresInv'
  <1>1. LogInv' /\ Chain(db.ccid)' = Chain(db.ccid) BY SameLog DEF SameRest
  <1>2. SameLists BY <1>1 DEF SameLists, SameRest
  <1>3. RecentInv' /\ AddrIndexInv' /\ RewardsInv' /\ ContractsInv' BY <1>2, SameListsInv
  <1>4. SharedInv' BY <1>1 DEF StoresInv, SharedInv, SameRest
  <1> QED BY <1>1, <1>3, <1>4 DEF StoresInv

LEMMA TrackStores ==
  ASSUME StoresInv, NEW i, Track(i)
  PROVE  StoresInv' /\ db'.addrs = db.addrs \cup {i} /\ SameRest
  <1>1. /\ DOMAIN mem = Fields /\ DOMAIN db = Fields
        /\ mem.addrs = db.addrs /\ mem.seedIndex = db.seedIndex
    BY DEF StoresInv, SharedInv
  <1>2. /\ mem' = AddAddressTo(mem, i) /\ db' = AddAddressTo(db, i)
        /\ log' = log /\ tainted' = tainted /\ smeared' = smeared /\ reset' = reset
    BY DEF Track
  <1>3. db'.addrs = db.addrs \cup {i} BY <1>1, <1>2 DEF AddAddressTo, Fields
  <1>4. SameRest BY <1>1, <1>2 DEF SameRest, AddAddressTo, Fields
  <1>5. StoresInv' BY <1>2, <1>3, <1>4, AddrStores
  <1> QED BY <1>3, <1>4, <1>5

LEMMA RemoveStores ==
  ASSUME StoresInv, NEW i, RemoveAddress(i)
  PROVE  StoresInv' /\ SameRest
  <1>1. /\ DOMAIN mem = Fields /\ DOMAIN db = Fields
        /\ mem.addrs = db.addrs /\ mem.seedIndex = db.seedIndex
    BY DEF StoresInv, SharedInv
  <1>2. /\ mem' = [mem EXCEPT !.addrs = @ \ {i}] /\ db' = [db EXCEPT !.addrs = @ \ {i}]
        /\ log' = log /\ tainted' = tainted \cup {i} /\ smeared' = smeared /\ reset' = reset
    BY DEF RemoveAddress
  <1>3. db'.addrs = db.addrs \ {i} BY <1>1, <1>2 DEF Fields
  <1>4. SameRest BY <1>1, <1>2 DEF SameRest, Fields
  <1>5. StoresInv' BY <1>2, <1>3, <1>4, AddrStores
  <1> QED BY <1>4, <1>5

LEMMA ResetStores ==
  ASSUME StoresInv, Reset
  PROVE  StoresInv'
  <1>1. DOMAIN mem = Fields /\ DOMAIN db = Fields BY DEF StoresInv, SharedInv
  <1>2. /\ DOMAIN db' = Fields /\ db'.outputs = {} /\ db'.txns = <<>>
        /\ db'.addrIndex = NewStore.addrIndex /\ db'.recent = <<>>
        /\ db'.height = 0 /\ db'.ccid = 0
        /\ db'.addrs = db.addrs /\ db'.seedIndex = db.seedIndex /\ db'.limbo = db.limbo
    BY <1>1 DEF Reset, Fields
  <1>3. /\ DOMAIN mem' = Fields /\ mem'.outputs = {} /\ mem'.txns = <<>>
        /\ mem'.addrIndex = NewStore.addrIndex /\ mem'.recent = <<>>
        /\ mem'.height = 0 /\ mem'.ccid = 0
        /\ mem'.addrs = db.addrs /\ mem'.seedIndex = db.seedIndex /\ mem'.limbo = db.limbo
    BY DEF Reset, NewStore, Fields
  <1>4. log' = log /\ reset' = TRUE BY DEF Reset
  <1>5. LogInv' BY <1>4 DEF StoresInv, LogInv
  <1>6. Chain(0) = <<>> /\ Len(Chain(0)) = 0 /\ Len(log) \in Nat BY ChainZero DEF StoresInv
  <1>7. Chain(db.ccid)' = <<>> /\ Len(<<>>) = 0 BY <1>2, <1>4, <1>6 DEF Chain
  <1>8. <<>> \in Seq(Blocks) BY EmptySeq
  <1>9. \A S : Listed(<<>>, <<>>, S) BY <1>8, ListedEmpty
  <1>10. 0 \in 0 .. Len(log') BY <1>4, <1>6
  <1>11. SharedInv' BY <1>2, <1>3, <1>7, <1>10 DEF SharedInv
  <1>12. RecentInv' BY <1>2, <1>3, <1>7, <1>9 DEF RecentInv
  <1>13. AddrIndexInv'
    <2>1. \A a \in Addr : NewStore.addrIndex[a] = <<>> BY DEF NewStore
    <2> QED BY <2>1, <1>2, <1>3, <1>7, <1>9 DEF AddrIndexInv, AddrInv
  <1>14. RewardsInv' /\ ContractsInv' BY <1>4 DEF RewardsInv, ContractsInv
  <1> QED BY <1>5, <1>11, <1>12, <1>13, <1>14 DEF StoresInv

LEMMA StutterStores ==
  ASSUME StoresInv, UNCHANGED <<log, mem, db, tainted, smeared, reset>>
  PROVE  StoresInv'
  BY DEF StoresInv, LogInv, SharedInv, RecentInv, AddrIndexInv, AddrInv, RewardsInv,
         ContractsInv, Chain

LEMMA StepStores == StoresInv /\ [Next]_vars => StoresInv'
  <1> SUFFICES ASSUME StoresInv, [Next]_vars PROVE StoresInv' OBVIOUS
  <1>1. ASSUME NEW revert \in 0 .. MaxReorg, Mine(revert) PROVE StoresInv'
    <2>1. revert \in Nat BY WalletAssumption
    <2> QED BY <1>1, <2>1, MineStores
  <1>2. CASE Deliver BY <1>2, DeliverStores
  <1>3. ASSUME NEW t \in DOMAIN Txn, AddToLimbo(t) \/ RemoveFromLimbo(t) PROVE StoresInv'
    BY <1>3, LimboStores
  <1>4. ASSUME NEW i \in Addr, AddAddress(i) PROVE StoresInv'
    BY <1>4, TrackStores DEF AddAddress
  <1>5. ASSUME NEW i \in Addr, RemoveAddress(i) PROVE StoresInv' BY <1>5, RemoveStores
  <1>6. ASSUME NEW th \in Threads, NextBegin(th) PROVE StoresInv'
    BY <1>6, StutterStores DEF NextBegin
  <1>7. ASSUME NEW th \in Threads, NextEnd(th) PROVE StoresInv'
    BY <1>7, TrackStores DEF NextEnd
  <1>8. CASE Reset BY <1>8, ResetStores
  <1>9. CASE UNCHANGED vars BY <1>9, StutterStores DEF vars, history
  <1> QED BY <1>1, <1>2, <1>3, <1>4, <1>5, <1>6, <1>7, <1>8, <1>9 DEF Next

LEMMA AgreeSame ==
  ASSUME NEW E, NEW s \in Seq(E)
  PROVE  \A n \in 0 .. Len(s) + 1 : dbList(s, n) = Reverse(memList(s, n))
  <1>1. Len(s) \in Nat BY LenProperties
  <1>2. \A n \in 0 .. Len(s) + 1 : n \in Nat BY <1>1
  <1> QED BY <1>2, ListsAgree

LEMMA InvAgree == StoresInv => StoresAgree
  <1> SUFFICES ASSUME StoresInv PROVE StoresAgree OBVIOUS
  <1> DEFINE agree(m, d) == \A n \in 0 .. Len(m) + 1 : dbList(d, n) = Reverse(memList(m, n))
  <1>1. ASSUME tainted = {} PROVE agree(mem.recent, db.recent)
    <2>1. mem.recent = db.recent /\ db.recent \in Seq(Txns)
      BY <1>1 DEF StoresInv, RecentInv, Listed
    <2> QED BY <2>1, AgreeSame
  <1>2. ASSUME NEW a \in Addr \ (tainted \cup smeared) PROVE agree(mem.addrIndex[a], db.addrIndex[a])
    <2>1. mem.addrIndex[a] = db.addrIndex[a] /\ db.addrIndex[a] \in Seq(Txns)
      BY DEF StoresInv, AddrIndexInv, AddrInv, Listed
    <2> QED BY <2>1, AgreeSame
  <1>3. ASSUME ~reset PROVE agree(mem.rewards, db.rewards)
    <2>1. mem.rewards = db.rewards /\ db.rewards \in Seq(Payouts)
      BY <1>3 DEF StoresInv, RewardsInv
    <2> QED BY <2>1, AgreeSame
  <1>4. ASSUME ~reset, tainted = {} PROVE agree(mem.contracts, db.contracts)
    <2>1. mem.contracts = db.contracts /\ db.contracts \in Seq(Revisions)
      BY <1>4 DEF StoresInv, ContractsInv
    <2> QED BY <2>1, AgreeSame
  <1>5. \A f \in {"addrs", "outputs", "txns", "limbo", "seedIndex", "height", "ccid"} : mem[f] = db[f]
    BY DEF StoresInv, SharedInv
  <1>6. db.height = Len(Chain(db.ccid)) BY DEF StoresInv, SharedInv
  <1> QED BY <1>1, <1>2, <1>3, <1>4, <1>5, <1>6 DEF StoresAgree

(* The two stores, ephemeralstore.go and dbstore.go, which search their lists *)
(* from different ends for what a reverted block takes away, hold the same    *)
(* after any calls and any reorganisations, and list it for every length      *)
(* asked for, one forwards and the other backwards.  Left out are the list of *)
(* an address that was removed or of which one change applied two             *)
(* transactions (dbstore.go:178), and after a Reset rewards and contracts.    *)
THEOREM Stores == Spec => []StoresAgree
  <1>1. Spec => []StoresInv BY StoresInit, StepStores, PTL DEF Spec
  <1> QED BY <1>1, InvAgree, PTL

-----------------------------------------------------------------------------
(* Diffs.  What a sequence of diffs does to a set of outputs can be read from  *)
(* the number of diffs of an output, and from its first and last ones: this is *)
(* what FilterConsensusChange reads.                                           *)
OutputSet ==
  Payouts \cup UNION {Txn[t].ins \cup Range(OutputsOf(t)) : t \in Txns}
Diffs == [dir: {"apply", "revert"}, out: OutputSet]

At(ds, o) == {i \in DOMAIN ds : ds[i].out = o}
Count(ds, o) == Cardinality(At(ds, o))

FirstDiff(S, ds, o) ==
  \A i \in At(ds, o) : (\A j \in At(ds, o) : i <= j) =>
     ds[i].dir = IF o \in S THEN "revert" ELSE "apply"
LastDiff(ds, T, o) ==
  \A i \in At(ds, o) : (\A j \in At(ds, o) : j <= i) =>
     ds[i].dir = IF o \in T THEN "apply" ELSE "revert"

ExplainsOne(S, ds, T, o) ==
  /\ Count(ds, o) % 2 = 1 <=> ~(o \in S <=> o \in T)
  /\ FirstDiff(S, ds, o)
  /\ LastDiff(ds, T, o)
Explains(S, ds, T) == \A o : ExplainsOne(S, ds, T, o)

LEMMA Parity ==
  ASSUME NEW a \in Nat, NEW b \in Nat
  PROVE  (a + b) % 2 = 1 <=> ~(a % 2 = 1 <=> b % 2 = 1)
  OBVIOUS

LEMMA CountAppend ==
  ASSUME NEW ds \in Seq(Diffs), NEW d \in Diffs, NEW o,
         IsFiniteSet(At(ds, o))
  PROVE  /\ IsFiniteSet(At(Append(ds, d), o))
         /\ Count(ds, o) \in Nat
         /\ Count(Append(ds, d), o) = Count(ds, o) + (IF d.out = o THEN 1 ELSE 0)
  <1>1. Len(ds) \in Nat /\ DOMAIN ds = 1 .. Len(ds) OBVIOUS
  <1>2. /\ Len(Append(ds, d)) = Len(ds) + 1 /\ DOMAIN Append(ds, d) = 1 .. Len(ds) + 1
        /\ \A i \in 1 .. Len(ds) : Append(ds, d)[i] = ds[i]
        /\ Append(ds, d)[Len(ds) + 1] = d
    OBVIOUS
  <1>3. Len(ds) + 1 \notin At(ds, o) BY <1>1 DEF At
  <1>4. CASE d.out = o
    <2>1. At(Append(ds, d), o) = At(ds, o) \cup {Len(ds) + 1}
      BY <1>1, <1>2, <1>4 DEF At
    <2> QED BY <2>1, <1>3, <1>4, FS_AddElement, FS_CardinalityType DEF Count
  <1>5. CASE d.out # o
    <2>1. At(Append(ds, d), o) = At(ds, o)
      BY <1>1, <1>2, <1>5 DEF At
    <2> QED BY <2>1, <1>5, FS_CardinalityType DEF Count
  <1> QED BY <1>4, <1>5

LEMMA CountEmpty == \A o : At(<<>>, o) = {} /\ Count(<<>>, o) = 0
  <1>1. \A o : At(<<>>, o) = {} BY DEF At
  <1>2. Cardinality({}) = 0 BY FS_EmptySet
  <1> QED BY <1>1, <1>2 DEF Count

LEMMA CountConcat ==
  ASSUME NEW ds \in Seq(Diffs), NEW o, IsFiniteSet(At(ds, o))
  PROVE  \A es \in Seq(Diffs) :
           /\ IsFiniteSet(At(es, o)) /\ IsFiniteSet(At(ds \o es, o))
           /\ Count(es, o) \in Nat /\ Count(ds, o) \in Nat
           /\ Count(ds \o es, o) = Count(ds, o) + Count(es, o)
  <1> DEFINE P(es) == /\ IsFiniteSet(At(es, o)) /\ IsFiniteSet(At(ds \o es, o))
                      /\ Count(es, o) \in Nat /\ Count(ds, o) \in Nat
                      /\ Count(ds \o es, o) = Count(ds, o) + Count(es, o)
             T == {es \in Seq(Diffs) : P(es)}
  <1>1. <<>> \in T
    <2>1. ds \o <<>> = ds OBVIOUS
    <2>4. <<>> \in Seq(Diffs) OBVIOUS
    <2>2. Count(ds, o) \in Nat BY FS_CardinalityType DEF Count
    <2>3. IsFiniteSet({}) BY FS_EmptySet
    <2>5. At(<<>>, o) = {} /\ Count(<<>>, o) = 0 BY CountEmpty
    <2>6. Count(ds, o) = Count(ds, o) + 0 BY <2>2
    <2>7. Count(ds \o <<>>, o) = Count(ds, o) + Count(<<>>, o) BY <2>1, <2>5, <2>6
    <2>8. IsFiniteSet(At(<<>>, o)) /\ IsFiniteSet(At(ds \o <<>>, o)) BY <2>1, <2>3, <2>5
    <2>9. Count(<<>>, o) \in Nat BY <2>5
    <2> QED BY <2>2, <2>4, <2>7, <2>8, <2>9
  <1>2. ASSUME NEW s \in Seq(Diffs), NEW x \in Diffs, s \in T PROVE Append(s, x) \in T
    <2>1. P(s) BY <1>2
    <2>2. ds \o Append(s, x) = Append(ds \o s, x) BY ConcatAppend
    <2>3. ds \o s \in Seq(Diffs) /\ Append(s, x) \in Seq(Diffs) OBVIOUS
    <2>4. /\ IsFiniteSet(At(Append(s, x), o))
          /\ Count(Append(s, x), o) = Count(s, o) + (IF x.out = o THEN 1 ELSE 0)
      BY <2>1, CountAppend
    <2>5. /\ IsFiniteSet(At(Append(ds \o s, x), o))
          /\ Count(Append(ds \o s, x), o) = Count(ds \o s, o) + (IF x.out = o THEN 1 ELSE 0)
      BY <2>1, <2>3, CountAppend
    <2>6. P(Append(s, x)) BY <2>1, <2>2, <2>4, <2>5
    <2> QED BY <2>3, <2>6
  <1> HIDE DEF T
  <1>3. \A es \in Seq(Diffs) : es \in T BY <1>1, <1>2, SeqInduction
  <1> QED BY <1>3 DEF T

LEMMA Counted ==
  ASSUME NEW ds \in Seq(Diffs), NEW o
  PROVE  /\ IsFiniteSet(At(ds, o)) /\ Count(ds, o) \in Nat
         /\ At(ds, o) = {} => Count(ds, o) = 0
  <1>1. <<>> \in Seq(Diffs) /\ <<>> \o ds = ds OBVIOUS
  <1>2. IsFiniteSet(At(<<>>, o)) BY CountEmpty, FS_EmptySet
  <1>3. IsFiniteSet(At(ds, o)) /\ Count(ds, o) \in Nat BY <1>1, <1>2, CountConcat
  <1> QED BY <1>3, FS_EmptySet DEF Count

-----------------------------------------------------------------------------
(* Explains is a category: nothing explains no change, and one after another.  *)
LEMMA ExplainsNone == ASSUME NEW S PROVE Explains(S, <<>>, S)
  BY CountEmpty DEF Explains, ExplainsOne, FirstDiff, LastDiff

LEMMA ExplainsThen ==
  ASSUME NEW S, NEW T, NEW W, NEW ds \in Seq(Diffs), NEW es \in Seq(Diffs),
         Explains(S, ds, T), Explains(T, es, W)
  PROVE  Explains(S, ds \o es, W)
  <1> SUFFICES ASSUME NEW o PROVE ExplainsOne(S, ds \o es, W, o) BY DEF Explains
  <1>1. ExplainsOne(S, ds, T, o) /\ ExplainsOne(T, es, W, o) BY DEF Explains
  <1>2. /\ Count(ds, o) \in Nat /\ Count(es, o) \in Nat
        /\ Count(ds \o es, o) = Count(ds, o) + Count(es, o)
    BY Counted, CountConcat
  <1>3. Count(ds \o es, o) % 2 = 1 <=> ~(o \in S <=> o \in W)
    <2>1. Count(ds, o) % 2 = 1 <=> ~(o \in S <=> o \in T) BY <1>1 DEF ExplainsOne
    <2>2. Count(es, o) % 2 = 1 <=> ~(o \in T <=> o \in W) BY <1>1 DEF ExplainsOne
    <2>3. Count(ds \o es, o) % 2 = 1 <=> ~(Count(ds, o) % 2 = 1 <=> Count(es, o) % 2 = 1)
      <3> DEFINE a == Count(ds, o)
                 b == Count(es, o)
      <3>1. a \in Nat /\ b \in Nat BY <1>2
      <3>2. Count(ds \o es, o) = a + b BY <1>2
      <3> HIDE DEF a, b
      <3>3. (a + b) % 2 = 1 <=> ~(a % 2 = 1 <=> b % 2 = 1) BY <3>1, Parity
      <3>4. Count(ds \o es, o) % 2 = 1 <=> ~(a % 2 = 1 <=> b % 2 = 1) BY <3>2, <3>3
      <3> QED BY <3>4 DEF a, b
    <2> QED BY <2>1, <2>2, <2>3
  <1>4. /\ At(ds, o) = {} => (o \in S <=> o \in T)
        /\ At(es, o) = {} => (o \in T <=> o \in W)
    <2>1. 0 % 2 # 1 OBVIOUS
    <2> QED BY <1>1, <2>1, Counted DEF ExplainsOne
  <1>5. /\ Len(ds) \in Nat /\ DOMAIN ds = 1 .. Len(ds)
        /\ Len(es) \in Nat /\ DOMAIN es = 1 .. Len(es)
        /\ ds \o es \in Seq(Diffs) /\ DOMAIN (ds \o es) = 1 .. Len(ds) + Len(es)
    OBVIOUS
  <1>6. /\ \A i \in 1 .. Len(ds) : (ds \o es)[i] = ds[i]
        /\ \A i \in 1 .. Len(es) : (ds \o es)[Len(ds) + i] = es[i]
    OBVIOUS
  <1>7. \A i \in At(ds, o) : i \in At(ds \o es, o) /\ (ds \o es)[i] = ds[i] /\ i \in 1 .. Len(ds)
    BY <1>5, <1>6 DEF At
  <1>8. \A i \in At(es, o) : /\ Len(ds) + i \in At(ds \o es, o) /\ (ds \o es)[Len(ds) + i] = es[i]
                             /\ i \in 1 .. Len(es)
    BY <1>5, <1>6 DEF At
  <1>9. \A i \in At(ds \o es, o) :
          \/ i \in At(ds, o)
          \/ i - Len(ds) \in At(es, o) /\ i = Len(ds) + (i - Len(ds))
    <2> SUFFICES ASSUME NEW i \in At(ds \o es, o), i \notin At(ds, o)
                 PROVE  i - Len(ds) \in At(es, o) /\ i = Len(ds) + (i - Len(ds))
      OBVIOUS
    <2>1. i \in 1 .. Len(ds) + Len(es) /\ (ds \o es)[i].out = o BY <1>5 DEF At
    <2>2. i > Len(ds) BY <2>1, <1>5, <1>6 DEF At
    <2>3. i - Len(ds) \in 1 .. Len(es) /\ i = Len(ds) + (i - Len(ds)) BY <2>1, <2>2, <1>5
    <2>4. es[i - Len(ds)] = (ds \o es)[i] BY <2>3, <1>6
    <2> QED BY <2>1, <2>3, <2>4, <1>5 DEF At
  <1>10. FirstDiff(S, ds \o es, o)
    <2> SUFFICES ASSUME NEW i \in At(ds \o es, o), \A j \in At(ds \o es, o) : i <= j
                 PROVE  (ds \o es)[i].dir = IF o \in S THEN "revert" ELSE "apply"
      BY DEF FirstDiff
    <2>1. CASE i \in At(ds, o)
      <3>1. \A j \in At(ds, o) : i <= j BY <1>7
      <3> QED BY <2>1, <3>1, <1>1, <1>7 DEF ExplainsOne, FirstDiff
    <2>2. CASE i \notin At(ds, o)
      <3>1. i - Len(ds) \in At(es, o) /\ i = Len(ds) + (i - Len(ds)) BY <2>2, <1>9
      <3>2. At(ds, o) = {}
        <4> SUFFICES ASSUME NEW j \in At(ds, o) PROVE FALSE OBVIOUS
        <4>1. i <= j /\ j \in 1 .. Len(ds) BY <1>7
        <4>2. i - Len(ds) \in 1 .. Len(es) BY <3>1, <1>8
        <4> QED BY <4>1, <4>2, <3>1, <1>5
      <3>3. \A j \in At(es, o) : i - Len(ds) <= j
        <4> SUFFICES ASSUME NEW j \in At(es, o) PROVE i - Len(ds) <= j OBVIOUS
        <4>1. i <= Len(ds) + j /\ j \in Int BY <1>8
        <4>2. i - Len(ds) \in Int BY <3>1, <1>8
        <4> QED BY <4>1, <4>2, <3>1, <1>5
      <3>4. es[i - Len(ds)].dir = IF o \in T THEN "revert" ELSE "apply"
        BY <3>1, <3>3, <1>1 DEF ExplainsOne, FirstDiff
      <3>5. (ds \o es)[i] = es[i - Len(ds)] BY <3>1, <1>8
      <3> QED BY <3>2, <3>4, <3>5, <1>4
    <2> QED BY <2>1, <2>2
  <1>11. LastDiff(ds \o es, W, o)
    <2> SUFFICES ASSUME NEW i \in At(ds \o es, o), \A j \in At(ds \o es, o) : j <= i
                 PROVE  (ds \o es)[i].dir = IF o \in W THEN "apply" ELSE "revert"
      BY DEF LastDiff
    <2>1. CASE i \in At(ds, o)
      <3>1. \A j \in At(ds, o) : j <= i BY <1>7
      <3>2. At(es, o) = {}
        <4> SUFFICES ASSUME NEW j \in At(es, o) PROVE FALSE OBVIOUS
        <4>1. Len(ds) + j <= i /\ j \in 1 .. Len(es) BY <1>8
        <4>2. i \in 1 .. Len(ds) BY <2>1, <1>7
        <4> QED BY <4>1, <4>2, <1>5
      <3> QED BY <2>1, <3>1, <3>2, <1>1, <1>4, <1>7 DEF ExplainsOne, LastDiff
    <2>2. CASE i \notin At(ds, o)
      <3>1. i - Len(ds) \in At(es, o) /\ i = Len(ds) + (i - Len(ds)) BY <2>2, <1>9
      <3>3. \A j \in At(es, o) : j <= i - Len(ds)
        <4> SUFFICES ASSUME NEW j \in At(es, o) PROVE j <= i - Len(ds) OBVIOUS
        <4>1. Len(ds) + j <= i /\ j \in Int BY <1>8
        <4>2. i - Len(ds) \in Int BY <3>1, <1>8
        <4> QED BY <4>1, <4>2, <3>1, <1>5
      <3>4. es[i - Len(ds)].dir = IF o \in W THEN "apply" ELSE "revert"
        BY <3>1, <3>3, <1>1 DEF ExplainsOne, LastDiff
      <3>5. (ds \o es)[i] = es[i - Len(ds)] BY <3>1, <1>8
      <3> QED BY <3>4, <3>5
    <2> QED BY <2>1, <2>2
  <1> QED BY <1>3, <1>10, <1>11 DEF ExplainsOne

LEMMA ExplainsAdd ==
  ASSUME NEW S, NEW x \in OutputSet, x \notin S
  PROVE  <<Diff("apply", x)>> \in Seq(Diffs) /\ Explains(S, <<Diff("apply", x)>>, S \cup {x})
  <1> DEFINE d == Diff("apply", x)
  <1>1. d \in Diffs /\ d.out = x /\ d.dir = "apply" BY DEF Diff, Diffs
  <1> HIDE DEF d
  <1>2. <<d>> \in Seq(Diffs) /\ <<d>> = Append(<<>>, d) /\ <<>> \in Seq(Diffs) BY <1>1
  <1>3. \A o : At(<<d>>, o) = IF o = x THEN {1} ELSE {} BY <1>1 DEF At
  <1>4. \A o : Count(<<d>>, o) = IF o = x THEN 1 ELSE 0
    BY <1>3, FS_Singleton, FS_EmptySet DEF Count
  <1>5. 0 % 2 = 0 /\ 1 % 2 = 1 OBVIOUS
  <1>6. \A o : ExplainsOne(S, <<d>>, S \cup {x}, o)
    BY <1>1, <1>3, <1>4, <1>5 DEF ExplainsOne, FirstDiff, LastDiff
  <1> QED BY <1>2, <1>6 DEF Explains, d

LEMMA ExplainsDrop ==
  ASSUME NEW S, NEW x \in OutputSet, x \in S
  PROVE  <<Diff("revert", x)>> \in Seq(Diffs) /\ Explains(S, <<Diff("revert", x)>>, S \ {x})
  <1> DEFINE d == Diff("revert", x)
  <1>1. d \in Diffs /\ d.out = x /\ d.dir = "revert" BY DEF Diff, Diffs
  <1> HIDE DEF d
  <1>2. <<d>> \in Seq(Diffs) /\ <<d>> = Append(<<>>, d) /\ <<>> \in Seq(Diffs) BY <1>1
  <1>3. \A o : At(<<d>>, o) = IF o = x THEN {1} ELSE {} BY <1>1 DEF At
  <1>4. \A o : Count(<<d>>, o) = IF o = x THEN 1 ELSE 0
    BY <1>3, FS_Singleton, FS_EmptySet DEF Count
  <1>5. 0 % 2 = 0 /\ 1 % 2 = 1 OBVIOUS
  <1>6. \A o : ExplainsOne(S, <<d>>, S \ {x}, o)
    BY <1>1, <1>3, <1>4, <1>5 DEF ExplainsOne, FirstDiff, LastDiff
  <1> QED BY <1>2, <1>6 DEF Explains, d

-----------------------------------------------------------------------------
(* Backwards: the inverted diffs explain the way back.                         *)
Opposite(d) == Diff(IF d.dir = "apply" THEN "revert" ELSE "apply", d.out)

LEMMA InvertedFacts ==
  ASSUME NEW ds \in Seq(Diffs)
  PROVE  /\ Inverted(ds) \in Seq(Diffs) /\ Len(Inverted(ds)) = Len(ds)
         /\ \A i \in 1 .. Len(ds) : Inverted(ds)[i] = Opposite(ds[(Len(ds) - i) + 1])
  <1>1. Len(ds) \in Nat /\ DOMAIN ds = 1 .. Len(ds) OBVIOUS
  <1>2. /\ Reverse(ds) \in Seq(Diffs) /\ Len(Reverse(ds)) = Len(ds)
        /\ \A i \in 1 .. Len(ds) : Reverse(ds)[i] = ds[(Len(ds) - i) + 1]
    BY ReverseFacts
  <1>3. \A d \in Diffs : Opposite(d) \in Diffs BY DEF Opposite, Diff, Diffs
  <1>4. Inverted(ds) = [i \in 1 .. Len(ds) |-> Opposite(Reverse(ds)[i])]
    BY <1>1 DEF Inverted, Opposite
  <1>5. \A i \in 1 .. Len(ds) : Reverse(ds)[i] \in Diffs BY <1>2
  <1>6. \A i \in 1 .. Len(ds) : Opposite(Reverse(ds)[i]) \in Diffs BY <1>3, <1>5
  <1> QED BY <1>1, <1>2, <1>4, <1>6

LEMMA InvertedAppend ==
  ASSUME NEW ds \in Seq(Diffs), NEW d \in Diffs
  PROVE  /\ Opposite(d) \in Diffs /\ Opposite(d).out = d.out
         /\ <<Opposite(d)>> \in Seq(Diffs)
         /\ Inverted(Append(ds, d)) = <<Opposite(d)>> \o Inverted(ds)
  <1>1. Opposite(d) \in Diffs /\ Opposite(d).out = d.out BY DEF Opposite, Diff, Diffs
  <1> DEFINE n == Len(ds)
             e == Append(ds, d)
             x == Opposite(d)
             p == Inverted(e)
             q == Inverted(ds)
  <1>2. n \in Nat /\ e \in Seq(Diffs) /\ Len(e) = n + 1 OBVIOUS
  <1>3. e[n + 1] = d /\ \A i \in 1 .. n : e[i] = ds[i] OBVIOUS
  <1>4. /\ p \in Seq(Diffs) /\ Len(p) = n + 1
        /\ \A i \in 1 .. n + 1 : p[i] = Opposite(e[((n + 1) - i) + 1])
    <2> HIDE DEF e, n
    <2>1. /\ Inverted(e) \in Seq(Diffs) /\ Len(Inverted(e)) = Len(e)
          /\ \A i \in 1 .. Len(e) : Inverted(e)[i] = Opposite(e[(Len(e) - i) + 1])
      BY <1>2, InvertedFacts
    <2>2. Len(e) = n + 1 BY <1>2
    <2> QED BY <2>1, <2>2
  <1>5. /\ q \in Seq(Diffs) /\ Len(q) = n
        /\ \A i \in 1 .. n : q[i] = Opposite(ds[(n - i) + 1])
    BY InvertedFacts
  <1>6. p[1] = x
    <2>1. 1 \in 1 .. n + 1 /\ ((n + 1) - 1) + 1 = n + 1 BY <1>2
    <2> QED BY <1>3, <1>4, <2>1
  <1>7. \A i \in 1 .. n : p[i + 1] = q[i]
    <2> SUFFICES ASSUME NEW i \in 1 .. n PROVE p[i + 1] = q[i] OBVIOUS
    <2>1. i + 1 \in 1 .. n + 1 /\ ((n + 1) - (i + 1)) + 1 = (n - i) + 1 BY <1>2
    <2>2. (n - i) + 1 \in 1 .. n BY <1>2
    <2>3. p[i + 1] = Opposite(e[(n - i) + 1]) BY <2>1, <1>4
    <2> QED BY <2>2, <2>3, <1>3, <1>5
  <1> HIDE DEF n, e, x, p, q
  <1>8. x \in Diffs BY <1>1 DEF x
  <1>9. <<x>> \in Seq(Diffs) /\ Len(<<x>>) = 1 /\ <<x>>[1] = x BY <1>8
  <1>10. <<x>> \o q \in Seq(Diffs) /\ Len(<<x>> \o q) = n + 1 BY <1>2, <1>5, <1>9
  <1>11. \A i \in 1 .. n + 1 : p[i] = (<<x>> \o q)[i]
    <2> SUFFICES ASSUME NEW i \in 1 .. n + 1 PROVE p[i] = (<<x>> \o q)[i] OBVIOUS
    <2>1. CASE i = 1 BY <2>1, <1>2, <1>5, <1>6, <1>9
    <2>2. CASE i # 1
      <3>1. i - 1 \in 1 .. n /\ (i - 1) + 1 = i BY <2>2, <1>2
      <3>2. p[i] = q[i - 1] BY <3>1, <1>7
      <3>3. (<<x>> \o q)[i] = q[i - 1] BY <3>1, <2>2, <1>2, <1>5, <1>9
      <3> QED BY <3>2, <3>3
    <2> QED BY <2>1, <2>2
  <1>12. p = <<x>> \o q BY <1>2, <1>4, <1>10, <1>11
  <1> QED BY <1>1, <1>9, <1>12 DEF e, x, p, q

LEMMA InvertedCount ==
  ASSUME NEW o
  PROVE  \A ds \in Seq(Diffs) : Count(Inverted(ds), o) = Count(ds, o)
  <1> DEFINE T == {ds \in Seq(Diffs) : Count(Inverted(ds), o) = Count(ds, o)}
  <1>1. <<>> \in T
    <2>1. <<>> \in Seq(Diffs) /\ Len(<<>>) = 0 OBVIOUS
    <2>2. Inverted(<<>>) \in Seq(Diffs) /\ Len(Inverted(<<>>)) = 0 BY <2>1, InvertedFacts
    <2>3. Inverted(<<>>) = <<>> BY <2>2
    <2> QED BY <2>1, <2>3
  <1>2. ASSUME NEW s \in Seq(Diffs), NEW x \in Diffs, s \in T PROVE Append(s, x) \in T
    <2> DEFINE y == Opposite(x)
    <2>1. /\ y \in Diffs /\ y.out = x.out /\ <<y>> \in Seq(Diffs)
          /\ Inverted(Append(s, x)) = <<y>> \o Inverted(s)
      BY InvertedAppend
    <2> HIDE DEF y
    <2>2. Inverted(s) \in Seq(Diffs) BY InvertedFacts
    <2>3. <<>> \in Seq(Diffs) /\ <<y>> = Append(<<>>, y) BY <2>1
    <2>4. /\ IsFiniteSet(At(<<>>, o)) /\ IsFiniteSet(At(s, o)) /\ IsFiniteSet(At(<<y>>, o))
          /\ Count(s, o) \in Nat
      BY <2>1, <2>3, Counted
    <2>5. Count(<<y>>, o) = 0 + (IF y.out = o THEN 1 ELSE 0)
      <3>1. Count(Append(<<>>, y), o) = Count(<<>>, o) + (IF y.out = o THEN 1 ELSE 0)
        BY <2>1, <2>3, <2>4, CountAppend
      <3>2. Count(<<>>, o) = 0 BY CountEmpty
      <3> QED BY <2>3, <3>1, <3>2
    <2>6. Count(<<y>> \o Inverted(s), o) = Count(<<y>>, o) + Count(Inverted(s), o)
      BY <2>1, <2>2, <2>4, CountConcat
    <2>7. Count(Append(s, x), o) = Count(s, o) + (IF x.out = o THEN 1 ELSE 0)
      BY <2>4, CountAppend
    <2>8. Count(Inverted(s), o) = Count(s, o) BY <1>2
    <2>9. Count(Inverted(Append(s, x)), o) = Count(Append(s, x), o)
      BY <2>1, <2>4, <2>5, <2>6, <2>7, <2>8
    <2> QED BY <2>9
  <1> HIDE DEF T
  <1>3. \A ds \in Seq(Diffs) : ds \in T BY <1>1, <1>2, SeqInduction
  <1> QED BY <1>3 DEF T

LEMMA ExplainsBack ==
  ASSUME NEW S, NEW T, NEW ds \in Seq(Diffs), Explains(S, ds, T)
  PROVE  Inverted(ds) \in Seq(Diffs) /\ Explains(T, Inverted(ds), S)
  <1> DEFINE n == Len(ds)
             es == Inverted(ds)
  <1>1. /\ es \in Seq(Diffs) /\ Len(es) = n
        /\ \A i \in 1 .. n : es[i] = Opposite(ds[(n - i) + 1])
    BY InvertedFacts
  <1>2. \A o : Count(es, o) = Count(ds, o) BY InvertedCount
  <1> HIDE DEF es
  <1>3. n \in Nat /\ DOMAIN ds = 1 .. n /\ DOMAIN es = 1 .. n BY <1>1
  <1>4. \A d \in Diffs : /\ Opposite(d).out = d.out
                         /\ Opposite(d).dir = IF d.dir = "apply" THEN "revert" ELSE "apply"
    BY DEF Opposite, Diff
  <1>5. \A i \in 1 .. n : ds[i] \in Diffs OBVIOUS
  <1> HIDE DEF n
  <1> SUFFICES ASSUME NEW o PROVE ExplainsOne(T, es, S, o) BY <1>1 DEF Explains, es
  <1>6. ExplainsOne(S, ds, T, o) BY DEF Explains
  <1>7. \A i \in At(es, o) : /\ (n - i) + 1 \in At(ds, o)
                             /\ i \in 1 .. n
                             /\ es[i] = Opposite(ds[(n - i) + 1])
    <2> SUFFICES ASSUME NEW i \in At(es, o)
                 PROVE  (n - i) + 1 \in At(ds, o) /\ i \in 1 .. n /\ es[i] = Opposite(ds[(n - i) + 1])
      OBVIOUS
    <2>1. i \in 1 .. n /\ es[i].out = o BY <1>3 DEF At
    <2>2. (n - i) + 1 \in 1 .. n BY <2>1, <1>3
    <2>3. es[i] = Opposite(ds[(n - i) + 1]) BY <2>1, <1>1
    <2>4. ds[(n - i) + 1].out = o BY <2>1, <2>2, <2>3, <1>4, <1>5
    <2> QED BY <2>1, <2>2, <2>3, <2>4, <1>3 DEF At
  <1>8. \A j \in At(ds, o) : (n - j) + 1 \in At(es, o) /\ j \in 1 .. n
    <2> SUFFICES ASSUME NEW j \in At(ds, o) PROVE (n - j) + 1 \in At(es, o) /\ j \in 1 .. n
      OBVIOUS
    <2>1. j \in 1 .. n /\ ds[j].out = o BY <1>3 DEF At
    <2>2. (n - j) + 1 \in 1 .. n /\ (n - ((n - j) + 1)) + 1 = j BY <2>1, <1>3
    <2>3. es[(n - j) + 1] = Opposite(ds[j]) BY <2>2, <1>1
    <2>4. es[(n - j) + 1].out = o BY <2>1, <2>3, <1>4, <1>5
    <2> QED BY <2>1, <2>2, <2>4, <1>3 DEF At
  <1>9. ASSUME NEW i \in At(es, o) PROVE (n - i) + 1 \in 1 .. n BY <1>3, <1>7
  <1>10. FirstDiff(T, es, o)
    <2> SUFFICES ASSUME NEW i \in At(es, o), \A j \in At(es, o) : i <= j
                 PROVE  es[i].dir = IF o \in T THEN "revert" ELSE "apply"
      BY DEF FirstDiff
    <2>1. (n - i) + 1 \in At(ds, o) /\ es[i] = Opposite(ds[(n - i) + 1]) BY <1>7
    <2>2. \A j \in At(ds, o) : j <= (n - i) + 1
      <3> SUFFICES ASSUME NEW j \in At(ds, o) PROVE j <= (n - i) + 1 OBVIOUS
      <3>1. i <= (n - j) + 1 /\ j \in 1 .. n /\ i \in 1 .. n BY <1>7, <1>8
      <3> QED BY <3>1, <1>3
    <2>3. ds[(n - i) + 1].dir = IF o \in T THEN "apply" ELSE "revert"
      BY <2>1, <2>2, <1>6 DEF ExplainsOne, LastDiff
    <2> QED BY <2>1, <2>3, <1>4, <1>5, <1>9
  <1>11. LastDiff(es, S, o)
    <2> SUFFICES ASSUME NEW i \in At(es, o), \A j \in At(es, o) : j <= i
                 PROVE  es[i].dir = IF o \in S THEN "apply" ELSE "revert"
      BY DEF LastDiff
    <2>1. (n - i) + 1 \in At(ds, o) /\ es[i] = Opposite(ds[(n - i) + 1]) BY <1>7
    <2>2. \A j \in At(ds, o) : (n - i) + 1 <= j
      <3> SUFFICES ASSUME NEW j \in At(ds, o) PROVE (n - i) + 1 <= j OBVIOUS
      <3>1. (n - j) + 1 <= i /\ j \in 1 .. n /\ i \in 1 .. n BY <1>7, <1>8
      <3> QED BY <3>1, <1>3
    <2>3. ds[(n - i) + 1].dir = IF o \in S THEN "revert" ELSE "apply"
      BY <2>1, <2>2, <1>6 DEF ExplainsOne, FirstDiff
    <2> QED BY <2>1, <2>3, <1>4, <1>5, <1>9
  <1>12. Count(es, o) % 2 = 1 <=> ~(o \in T <=> o \in S) BY <1>2, <1>6 DEF ExplainsOne
  <1> QED BY <1>10, <1>11, <1>12 DEF ExplainsOne

FirstAt(ds, o) == SelectInSeq(ds, LAMBDA d: d.out = o)

(* What processOutputs finds in diffs that explain a change from S to T.       *)
LEMMA ProcessOutputs ==
  ASSUME NEW S, NEW T, NEW ds \in Seq(Diffs), Explains(S, ds, T), NEW owned
  PROVE  /\ processOutputs(ds, owned, "revert") = {o \in S \ T : o.addr \in owned}
         /\ processOutputs(ds, owned, "apply") = {o \in T \ S : o.addr \in owned}
  <1>1. Len(ds) \in Nat /\ DOMAIN ds = 1 .. Len(ds) OBVIOUS
  <1>2. survivingOutputs(ds) = (S \ T) \cup (T \ S)
    <2>1. ASSUME NEW o \in survivingOutputs(ds) PROVE o \in (S \ T) \cup (T \ S)
      <3>1. Count(ds, o) % 2 = 1 BY <2>1 DEF survivingOutputs, Count, At
      <3> QED BY <3>1 DEF Explains, ExplainsOne
    <2>2. ASSUME NEW o \in (S \ T) \cup (T \ S) PROVE o \in survivingOutputs(ds)
      <3>1. ExplainsOne(S, ds, T, o) BY DEF Explains
      <3>2. Count(ds, o) % 2 = 1 BY <3>1 DEF ExplainsOne
      <3>3. Count(ds, o) # 0
        <4>1. 0 % 2 # 1 OBVIOUS
        <4> QED BY <3>2, <4>1
      <3>4. At(ds, o) # {} BY <3>3, Counted
      <3>5. o \in {ds[i].out : i \in DOMAIN ds} BY <3>4 DEF At
      <3> QED BY <3>2, <3>5 DEF survivingOutputs, Count, At
    <2> QED BY <2>1, <2>2
  <1>3. ASSUME NEW o \in (S \ T) \cup (T \ S)
        PROVE  ds[FirstAt(ds, o)].dir = IF o \in S THEN "revert" ELSE "apply"
    <2>1. ExplainsOne(S, ds, T, o) BY DEF Explains
    <2>2. o \in survivingOutputs(ds) BY <1>2
    <2>3. At(ds, o) # {} /\ At(ds, o) \in SUBSET Nat
      BY <2>2, <1>1 DEF survivingOutputs, At
    <2>4. \E m \in At(ds, o) : \A k \in At(ds, o) : m <= k BY <2>3, LeastNat
    <2> DEFINE m == Min(At(ds, o))
    <2>5. m \in At(ds, o) /\ \A k \in At(ds, o) : m <= k BY <2>4 DEF Min
    <2>6. At(ds, o) = {i \in 1 .. Len(ds) : ds[i].out = o} BY <1>1 DEF At
    <2>7. FirstAt(ds, o) = m BY <2>3, <2>6 DEF SelectInSeq, FirstAt
    <2> HIDE DEF m
    <2> QED BY <2>1, <2>5, <2>7 DEF ExplainsOne, FirstDiff
  <1>4. \A dir : processOutputs(ds, owned, dir)
                   = {o \in survivingOutputs(ds) : o.addr \in owned /\ ds[FirstAt(ds, o)].dir = dir}
    BY DEF processOutputs, FirstAt
  <1>5. "revert" # "apply" OBVIOUS
  <1>6. processOutputs(ds, owned, "revert") = {o \in S \ T : o.addr \in owned}
    BY <1>2, <1>3, <1>4, <1>5
  <1>7. processOutputs(ds, owned, "apply") = {o \in T \ S : o.addr \in owned}
    BY <1>2, <1>3, <1>4, <1>5
  <1> QED BY <1>6, <1>7

-----------------------------------------------------------------------------
(* What a transaction does.                                                    *)
LEMMA SetToSeqFacts ==
  ASSUME NEW S, IsFiniteSet(S)
  PROVE  /\ SetToSeq(S) \in Seq(S) /\ Range(SetToSeq(S)) = S
         /\ IsInjective(SetToSeq(S)) /\ Len(SetToSeq(S)) = Cardinality(S)
         /\ Cardinality(S) \in Nat
  <1> DEFINE n == Cardinality(S)
             f == SetToSeq(S)
  <1>1. n \in Nat /\ ExistsBijection(1 .. n, S) BY FS_CardinalityType
  <1>2. \E g \in [1 .. n -> S] : IsInjective(g)
    BY <1>1 DEF ExistsBijection, Bijection, Injection, Surjection
  <1>3. f \in [1 .. n -> S] /\ IsInjective(f) BY <1>2 DEF SetToSeq
  <1> HIDE DEF n, f
  <1>4. f \in Injection(1 .. n, S) BY <1>3 DEF Injection
  <1>5. IsFiniteSet(1 .. n) /\ Cardinality(1 .. n) = n
    <2>1. \A a, b \in Int : IsFiniteSet(a .. b) /\ Cardinality(a .. b) = IF a > b THEN 0 ELSE b - a + 1
      BY FS_Interval
    <2> QED BY <1>1, <2>1
  <1>6. f \in Surjection(1 .. n, S) BY <1>4, <1>5, FS_Injection DEF n
  <1>7. f \in Seq(S) /\ Len(f) = n BY <1>1, <1>3
  <1>8. Range(f) = S BY <1>3, <1>6 DEF Surjection, Range
  <1> QED BY <1>1, <1>3, <1>7, <1>8 DEF n, f

Run(dir, s) == [i \in DOMAIN s |-> Diff(dir, s[i])]

LEMMA RunAppend ==
  ASSUME NEW dir \in {"apply", "revert"}, NEW s \in Seq(OutputSet), NEW x \in OutputSet
  PROVE  /\ Run(dir, <<>>) = <<>>
         /\ Run(dir, s) \in Seq(Diffs)
         /\ <<Diff(dir, x)>> \in Seq(Diffs)
         /\ Run(dir, Append(s, x)) = Run(dir, s) \o <<Diff(dir, x)>>
  <1>1. Len(s) \in Nat /\ DOMAIN s = 1 .. Len(s) OBVIOUS
  <1>2. \A o \in OutputSet : Diff(dir, o) \in Diffs BY DEF Diff, Diffs
  <1>3. Run(dir, <<>>) = <<>> BY DEF Run
  <1>4. /\ Run(dir, s) \in Seq(Diffs) /\ Len(Run(dir, s)) = Len(s)
        /\ \A i \in 1 .. Len(s) : Run(dir, s)[i] = Diff(dir, s[i])
    BY <1>1, <1>2 DEF Run
  <1> DEFINE e == Append(s, x)
             d == Diff(dir, x)
             p == Run(dir, e)
             q == Run(dir, s)
             n == Len(s)
  <1>5. e \in Seq(OutputSet) /\ Len(e) = n + 1 /\ DOMAIN e = 1 .. n + 1
    OBVIOUS
  <1>6. e[n + 1] = x /\ \A i \in 1 .. n : e[i] = s[i] OBVIOUS
  <1>7. d \in Diffs BY <1>2
  <1>8. p \in Seq(Diffs) /\ Len(p) = n + 1 /\ \A i \in 1 .. n + 1 : p[i] = Diff(dir, e[i])
    BY <1>1, <1>2, <1>5 DEF Run
  <1>10. p[n + 1] = d /\ \A i \in 1 .. n : p[i] = q[i] BY <1>1, <1>4, <1>6, <1>8
  <1>11. q \in Seq(Diffs) /\ Len(q) = n BY <1>4
  <1>13. n \in Nat OBVIOUS
  <1> HIDE DEF e, d, p, q, n
  <1>14. <<d>> \in Seq(Diffs) /\ Len(<<d>>) = 1 /\ <<d>>[1] = d BY <1>7
  <1>15. q \o <<d>> \in Seq(Diffs) /\ Len(q \o <<d>>) = n + 1 BY <1>11, <1>13, <1>14
  <1>16. \A i \in 1 .. n : (q \o <<d>>)[i] = q[i] BY <1>11, <1>13, <1>14
  <1>17. (q \o <<d>>)[n + 1] = d BY <1>11, <1>13, <1>14
  <1>18. \A i \in 1 .. n + 1 : i \in 1 .. n \/ i = n + 1 BY <1>13
  <1>19. \A i \in 1 .. n + 1 : p[i] = (q \o <<d>>)[i] BY <1>10, <1>16, <1>17, <1>18
  <1>12. p = q \o <<d>> BY <1>8, <1>13, <1>15, <1>19
  <1> QED BY <1>3, <1>4, <1>12, <1>14 DEF e, d, p, q

LEMMA ExplainsApplies ==
  ASSUME NEW S
  PROVE  \A s \in Seq(OutputSet) : IsInjective(s) /\ Range(s) \cap S = {} =>
           Run("apply", s) \in Seq(Diffs) /\ Explains(S, Run("apply", s), S \cup Range(s))
  <1> DEFINE P(s) == IsInjective(s) /\ Range(s) \cap S = {} =>
                       Run("apply", s) \in Seq(Diffs) /\ Explains(S, Run("apply", s), S \cup Range(s))
             T == {s \in Seq(OutputSet) : P(s)}
  <1>1. <<>> \in T
    <2>1. <<>> \in Seq(OutputSet) OBVIOUS
    <2>2. Run("apply", <<>>) = <<>> /\ <<>> \in Seq(Diffs) BY DEF Run
    <2>3. S \cup Range(<<>>) = S BY RangeEmpty
    <2> QED BY <2>1, <2>2, <2>3, ExplainsNone
  <1>2. ASSUME NEW s \in Seq(OutputSet), NEW x \in OutputSet, s \in T PROVE Append(s, x) \in T
    <2> SUFFICES ASSUME IsInjective(Append(s, x)), Range(Append(s, x)) \cap S = {}
                 PROVE  /\ Run("apply", Append(s, x)) \in Seq(Diffs)
                        /\ Explains(S, Run("apply", Append(s, x)), S \cup Range(Append(s, x)))
      OBVIOUS
    <2>1. Range(Append(s, x)) = Range(s) \cup {x} BY RangeAppend
    <2>2. IsInjective(s) /\ x \notin Range(s) BY InjectiveAppend
    <2>3. Range(s) \cap S = {} /\ x \notin S BY <2>1
    <2>4. Run("apply", s) \in Seq(Diffs) /\ Explains(S, Run("apply", s), S \cup Range(s))
      BY <1>2, <2>2, <2>3
    <2> DEFINE d == <<Diff("apply", x)>>
               U == S \cup Range(s)
    <2>5. x \notin U BY <2>2, <2>3
    <2>6. d \in Seq(Diffs) /\ Explains(U, d, U \cup {x}) BY <2>5, ExplainsAdd
    <2>7. Run("apply", Append(s, x)) = Run("apply", s) \o d BY RunAppend
    <2>8. U \cup {x} = S \cup Range(Append(s, x)) BY <2>1
    <2> HIDE DEF d, U
    <2>9. Explains(S, Run("apply", s) \o d, U \cup {x}) BY <2>4, <2>6, ExplainsThen DEF U
    <2>10. Run("apply", s) \o d \in Seq(Diffs) BY <2>4, <2>6
    <2>11. Explains(S, Run("apply", Append(s, x)), U \cup {x}) BY <2>7, <2>9
    <2> QED BY <2>7, <2>8, <2>10, <2>11
  <1> HIDE DEF T
  <1>3. \A s \in Seq(OutputSet) : s \in T BY <1>1, <1>2, SeqInduction
  <1> QED BY <1>3 DEF T

LEMMA ExplainsReverts ==
  ASSUME NEW S
  PROVE  \A s \in Seq(OutputSet) : IsInjective(s) /\ Range(s) \subseteq S =>
           Run("revert", s) \in Seq(Diffs) /\ Explains(S, Run("revert", s), S \ Range(s))
  <1> DEFINE P(s) == IsInjective(s) /\ Range(s) \subseteq S =>
                       Run("revert", s) \in Seq(Diffs) /\ Explains(S, Run("revert", s), S \ Range(s))
             T == {s \in Seq(OutputSet) : P(s)}
  <1>1. <<>> \in T
    <2>1. <<>> \in Seq(OutputSet) OBVIOUS
    <2>2. Run("revert", <<>>) = <<>> /\ <<>> \in Seq(Diffs) BY DEF Run
    <2>3. S \ Range(<<>>) = S BY RangeEmpty
    <2> QED BY <2>1, <2>2, <2>3, ExplainsNone
  <1>2. ASSUME NEW s \in Seq(OutputSet), NEW x \in OutputSet, s \in T PROVE Append(s, x) \in T
    <2> SUFFICES ASSUME IsInjective(Append(s, x)), Range(Append(s, x)) \subseteq S
                 PROVE  /\ Run("revert", Append(s, x)) \in Seq(Diffs)
                        /\ Explains(S, Run("revert", Append(s, x)), S \ Range(Append(s, x)))
      OBVIOUS
    <2>1. Range(Append(s, x)) = Range(s) \cup {x} BY RangeAppend
    <2>2. IsInjective(s) /\ x \notin Range(s) BY InjectiveAppend
    <2>3. Range(s) \subseteq S /\ x \in S BY <2>1
    <2>4. Run("revert", s) \in Seq(Diffs) /\ Explains(S, Run("revert", s), S \ Range(s))
      BY <1>2, <2>2, <2>3
    <2> DEFINE d == <<Diff("revert", x)>>
               U == S \ Range(s)
    <2>5. x \in U BY <2>2, <2>3
    <2>6. d \in Seq(Diffs) /\ Explains(U, d, U \ {x}) BY <2>5, ExplainsDrop
    <2>7. Run("revert", Append(s, x)) = Run("revert", s) \o d BY RunAppend
    <2>8. U \ {x} = S \ Range(Append(s, x)) BY <2>1
    <2> HIDE DEF d, U
    <2>9. Explains(S, Run("revert", s) \o d, U \ {x}) BY <2>4, <2>6, ExplainsThen DEF U
    <2>10. Run("revert", s) \o d \in Seq(Diffs) BY <2>4, <2>6
    <2>11. Explains(S, Run("revert", Append(s, x)), U \ {x}) BY <2>7, <2>9
    <2> QED BY <2>7, <2>8, <2>10, <2>11
  <1> HIDE DEF T
  <1>3. \A s \in Seq(OutputSet) : s \in T BY <1>1, <1>2, SeqInduction
  <1> QED BY <1>3 DEF T

LEMMA OutputsFacts ==
  ASSUME NEW t \in Txns
  PROVE  /\ OutputsOf(t) \in Seq(OutputSet) /\ IsInjective(OutputsOf(t))
         /\ \A o \in Range(OutputsOf(t)) : o.id[1] = t
         /\ IsFiniteSet(Txn[t].ins) /\ Txn[t].ins \subseteq OutputSet
  <1> DEFINE s == Txn[t].outs
  <1>1. s \in Seq(0 .. MaxAddr) /\ IsFiniteSet(Txn[t].ins) BY TxnAssumption DEF Txns
  <1>2. Len(s) \in Nat /\ DOMAIN s = 1 .. Len(s) BY <1>1
  <1>3. OutputsOf(t) = [i \in 1 .. Len(s) |-> Output(<<t, i>>, s[i])] BY <1>2 DEF OutputsOf
  <1>4. Range(OutputsOf(t)) \subseteq OutputSet
    BY DEF OutputSet
  <1>5. \A i \in 1 .. Len(s) : OutputsOf(t)[i] \in OutputSet BY <1>3, <1>4 DEF Range
  <1>6. OutputsOf(t) \in Seq(OutputSet)
    <2>1. OutputsOf(t) = [i \in 1 .. Len(s) |-> OutputsOf(t)[i]] BY <1>3
    <2>2. OutputsOf(t) \in [1 .. Len(s) -> OutputSet] BY <2>1, <1>5
    <2> QED BY <2>2, <1>2, SeqDef
  <1>7. \A i \in 1 .. Len(s) : OutputsOf(t)[i].id = <<t, i>> BY <1>3 DEF Output
  <1>8. DOMAIN OutputsOf(t) = 1 .. Len(s) BY <1>3
  <1>9. IsInjective(OutputsOf(t)) BY <1>7, <1>8 DEF IsInjective
  <1>10. \A o \in Range(OutputsOf(t)) : o.id[1] = t BY <1>7, <1>8 DEF Range
  <1>11. Txn[t].ins \subseteq OutputSet BY DEF OutputSet
  <1> QED BY <1>1, <1>6, <1>9, <1>10, <1>11

TxnDiffs(t) ==
  [i \in 1 .. Cardinality(Txn[t].ins) |-> Diff("revert", SetToSeq(Txn[t].ins)[i])]
    \o [i \in DOMAIN OutputsOf(t) |-> Diff("apply", OutputsOf(t)[i])]

LEMMA TxnExplains ==
  ASSUME NEW t \in Txns, NEW U, Txn[t].ins \subseteq U, Range(OutputsOf(t)) \cap U = {}
  PROVE  /\ TxnDiffs(t) \in Seq(Diffs)
         /\ Explains(U, TxnDiffs(t), (U \ Txn[t].ins) \cup Range(OutputsOf(t)))
  <1> DEFINE I == Txn[t].ins
             s == SetToSeq(I)
             o == OutputsOf(t)
  <1>1. o \in Seq(OutputSet) /\ IsInjective(o) /\ IsFiniteSet(I) /\ I \subseteq OutputSet
    BY OutputsFacts
  <1>2. s \in Seq(I) /\ Range(s) = I /\ IsInjective(s) /\ Len(s) = Cardinality(I)
    BY <1>1, SetToSeqFacts
  <1> HIDE DEF I, s, o
  <1>3. s \in Seq(OutputSet) /\ DOMAIN s = 1 .. Cardinality(I) BY <1>1, <1>2
  <1>4. TxnDiffs(t) = Run("revert", s) \o Run("apply", o)
    BY <1>3 DEF TxnDiffs, Run, I, s, o
  <1>5. I \subseteq U /\ Range(o) \cap U = {} BY DEF I, o
  <1>6. Run("revert", s) \in Seq(Diffs) /\ Explains(U, Run("revert", s), U \ I)
    BY <1>2, <1>3, <1>5, ExplainsReverts
  <1>7. Range(o) \cap (U \ I) = {} BY <1>5
  <1>8. Run("apply", o) \in Seq(Diffs) /\ Explains(U \ I, Run("apply", o), (U \ I) \cup Range(o))
    BY <1>1, <1>7, ExplainsApplies
  <1>9. Run("revert", s) \o Run("apply", o) \in Seq(Diffs) BY <1>6, <1>8
  <1>10. Explains(U, Run("revert", s) \o Run("apply", o), (U \ I) \cup Range(o))
    BY <1>6, <1>8, ExplainsThen
  <1> QED BY <1>4, <1>9, <1>10 DEF I, o

-----------------------------------------------------------------------------
(* What a block does: the outputs of a valid chain are created once, and only  *)
(* those are spent.                                                            *)
Matured(c) == {Payout(c[h]) : h \in {i \in DOMAIN c : i + Delay <= Len(c)}}
Newly(c) == IF Len(c) > Delay THEN {Payout(c[Len(c) - Delay])} ELSE {}
Made(ts) == UNION {Range(OutputsOf(t)) : t \in ts}
Spent(ts) == UNION {Txn[t].ins : t \in ts}
Created(c) == Matured(c) \cup Made(Range(TxnsOf(c)))
SpentOn(c) == Spent(Range(TxnsOf(c)))

LEMMA UnspentIs == ASSUME NEW c PROVE Unspent(c) = Created(c) \ SpentOn(c)
  BY DEF Unspent, Created, SpentOn, Matured, Made, Spent

LEMMA DelayType == Delay \in Nat BY WalletAssumption

LEMMA MaturedAppend ==
  ASSUME NEW c \in Seq(Blocks), NEW b \in Blocks
  PROVE  Matured(Append(c, b)) = Matured(c) \cup Newly(Append(c, b))
  <1> DEFINE e == Append(c, b)
             n == Len(c)
  <1>1. n \in Nat /\ DOMAIN c = 1 .. n OBVIOUS
  <1>2. Len(e) = n + 1 /\ DOMAIN e = 1 .. n + 1 /\ \A i \in 1 .. n : e[i] = c[i] OBVIOUS
  <1>3. Delay \in Nat BY DelayType
  <1> HIDE DEF e, n
  <1>4. ASSUME NEW o \in Matured(e) PROVE o \in Matured(c) \cup Newly(e)
    <2>1. PICK h \in 1 .. n + 1 : h + Delay <= n + 1 /\ o = Payout(e[h])
      BY <1>2 DEF Matured
    <2>2. CASE h + Delay = n + 1
      <3>1. n + 1 > Delay /\ (n + 1) - Delay = h BY <2>2, <1>1, <1>3
      <3> QED BY <2>1, <3>1, <1>2 DEF Newly
    <2>3. CASE h + Delay # n + 1
      <3>1. h \in 1 .. n /\ h + Delay <= n BY <2>1, <2>3, <1>1, <1>3
      <3>2. o = Payout(c[h]) BY <2>1, <3>1, <1>2
      <3> QED BY <3>1, <3>2, <1>1 DEF Matured, n
    <2> QED BY <2>2, <2>3
  <1>5. ASSUME NEW o \in Matured(c) PROVE o \in Matured(e)
    <2>1. PICK h \in 1 .. n : h + Delay <= n /\ o = Payout(c[h]) BY <1>1 DEF Matured, n
    <2>2. h \in 1 .. n + 1 /\ h + Delay <= n + 1 /\ e[h] = c[h] BY <2>1, <1>1, <1>2, <1>3
    <2> QED BY <2>1, <2>2, <1>2 DEF Matured
  <1>6. ASSUME NEW o \in Newly(e) PROVE o \in Matured(e)
    <2>1. n + 1 > Delay /\ o = Payout(e[(n + 1) - Delay]) BY <1>2 DEF Newly
    <2>2. (n + 1) - Delay \in 1 .. n + 1 /\ ((n + 1) - Delay) + Delay <= n + 1 BY <2>1, <1>1, <1>3
    <2> QED BY <2>1, <2>2, <1>2 DEF Matured
  <1> QED BY <1>4, <1>5, <1>6 DEF e

LEMMA PayoutId == ASSUME NEW b PROVE Payout(b).id[1] = "payout" /\ Payout(b).id[2] = b.id
  BY DEF Payout, Output

LEMMA MaturedId == ASSUME NEW c PROVE \A o \in Matured(c) : o.id[1] = "payout"
  BY PayoutId DEF Matured

LEMMA NewlyId == ASSUME NEW c PROVE \A o \in Newly(c) : o.id[1] = "payout"
  BY PayoutId DEF Newly

LEMMA MadeId ==
  ASSUME NEW ts \in SUBSET Txns
  PROVE  \A o \in Made(ts) : o.id[1] \in ts /\ o.id[1] # "payout"
  <1> SUFFICES ASSUME NEW o \in Made(ts) PROVE o.id[1] \in ts /\ o.id[1] # "payout" OBVIOUS
  <1>1. PICK t \in ts : o \in Range(OutputsOf(t)) BY DEF Made
  <1>2. t \in Txns OBVIOUS
  <1>3. o.id[1] = t BY <1>1, <1>2, OutputsFacts
  <1>4. t # "payout" BY <1>2, TxnAssumption DEF Txns
  <1> QED BY <1>3, <1>4

LEMMA CreatedAppend ==
  ASSUME NEW c \in Seq(Blocks), NEW b \in Blocks
  PROVE  /\ Created(Append(c, b)) = Created(c) \cup Made(Range(b.txns)) \cup Newly(Append(c, b))
         /\ SpentOn(Append(c, b)) = SpentOn(c) \cup Spent(Range(b.txns))
  <1>1. Range(TxnsOf(Append(c, b))) = Range(TxnsOf(c)) \cup Range(b.txns) BY TxnsAppend
  <1>2. Matured(Append(c, b)) = Matured(c) \cup Newly(Append(c, b)) BY MaturedAppend
  <1>3. \A p, q : Made(p \cup q) = Made(p) \cup Made(q) /\ Spent(p \cup q) = Spent(p) \cup Spent(q)
    BY DEF Made, Spent
  <1> QED BY <1>1, <1>2, <1>3 DEF Created, SpentOn

(* Only what was created is spent.                                             *)
LEMMA SpentCreated ==
  \A c \in Seq(Blocks) : ValidChain(c) => SpentOn(c) \subseteq Created(c)
  <1> DEFINE T == {c \in Seq(Blocks) : ValidChain(c) => SpentOn(c) \subseteq Created(c)}
  <1>1. <<>> \in T
    <2>1. <<>> \in Seq(Blocks) OBVIOUS
    <2>2. SpentOn(<<>>) = {} BY TxnsNone, RangeEmpty DEF SpentOn, Spent
    <2> QED BY <2>1, <2>2
  <1>2. ASSUME NEW c \in Seq(Blocks), NEW b \in Blocks, c \in T PROVE Append(c, b) \in T
    <2> SUFFICES ASSUME ValidChain(Append(c, b))
                 PROVE  SpentOn(Append(c, b)) \subseteq Created(Append(c, b))
      OBVIOUS
    <2>1. ValidChain(c) /\ Mined(c, b) BY ValidAppend
    <2>2. SpentOn(c) \subseteq Created(c) BY <1>2, <2>1
    <2>3. Spent(Range(b.txns)) \subseteq Created(c)
      <3>1. CASE b.txns = <<>> BY <3>1, RangeEmpty DEF Spent
      <3>2. CASE b.txns # <<>>
        <4>1. PICK t \in Txns : b.txns = <<t>> /\ MinedTxn(c, t) BY <3>2, <2>1 DEF Mined
        <4>2. Range(b.txns) = {t} BY <4>1, Singleton
        <4>3. Txn[t].ins \subseteq Created(c) BY <4>1, UnspentIs DEF MinedTxn
        <4> QED BY <4>2, <4>3 DEF Spent
      <3> QED BY <3>1, <3>2
    <2> QED BY <2>2, <2>3, CreatedAppend
  <1> HIDE DEF T
  <1>3. \A c \in Seq(Blocks) : c \in T BY <1>1, <1>2, SeqInduction
  <1> QED BY <1>3 DEF T

(* A block's payout is new when it matures.                                    *)
LEMMA NewlyFresh ==
  ASSUME NEW c \in Seq(Blocks), NEW b \in Blocks, ValidChain(Append(c, b))
  PROVE  Newly(Append(c, b)) \cap (Created(c) \cup Made(Range(b.txns))) = {}
  <1> DEFINE e == Append(c, b)
             n == Len(c)
  <1>1. n \in Nat /\ DOMAIN c = 1 .. n OBVIOUS
  <1>2. /\ e \in Seq(Blocks) /\ Len(e) = n + 1 /\ DOMAIN e = 1 .. n + 1
        /\ \A i \in 1 .. n : e[i] = c[i]
    OBVIOUS
  <1>3. Delay \in Nat BY DelayType
  <1>4. Distinct(e) BY <1>2, ValidDistinct
  <1>5. Range(TxnsOf(c)) \in SUBSET Txns /\ Range(b.txns) \in SUBSET Txns
    <2>1. TxnsOf(c) \in Seq(Txns) /\ b.txns \in Seq(Txns) BY TxnsAppend
    <2> QED BY <2>1 DEF Range
  <1> HIDE DEF e, n
  <1> SUFFICES ASSUME NEW o \in Newly(e), o \in Created(c) \cup Made(Range(b.txns)) PROVE FALSE
    BY DEF e
  <1>6. o.id[1] = "payout" BY NewlyId
  <1>7. o \in Matured(c) BY <1>5, <1>6, MadeId DEF Created
  <1>8. PICK h \in 1 .. n : h + Delay <= n /\ o = Payout(c[h]) BY <1>1, <1>7 DEF Matured, n
  <1>9. n + 1 > Delay /\ o = Payout(e[(n + 1) - Delay]) BY <1>2 DEF Newly
  <1> DEFINE g == (n + 1) - Delay
  <1>10. g \in 1 .. n + 1 /\ h \in 1 .. n + 1 /\ g # h BY <1>1, <1>3, <1>8, <1>9
  <1>11. e[h] = c[h] BY <1>2
  <1>12. e[g].id = e[h].id BY <1>8, <1>9, <1>11, PayoutId
  <1> QED BY <1>2, <1>4, <1>10, <1>12 DEF Distinct

Split(c, b, ds, es) ==
  /\ DiffsOf(Append(c, b), Len(c) + 1) = ds \o es
  /\ Explains(Unspent(c), ds, (Unspent(c) \ Spent(Range(b.txns))) \cup Made(Range(b.txns)))
  /\ es = IF Len(c) + 1 > Delay THEN <<Diff("apply", Payout(Append(c, b)[(Len(c) + 1) - Delay]))>>
          ELSE <<>>

LEMMA BlockDiffs ==
  ASSUME NEW c \in Seq(Blocks), NEW b \in Blocks, ValidChain(Append(c, b))
  PROVE  \E ds, es \in Seq(Diffs) : Split(c, b, ds, es)
  <1> DEFINE e == Append(c, b)
             n == Len(c) + 1
             parts == [i \in DOMAIN b.txns |-> TxnDiffs(b.txns[i])]
             es == IF n > Delay THEN <<Diff("apply", Payout(e[n - Delay]))>> ELSE <<>>
             ds == FlattenSeq(parts)
  <1>1. ValidChain(c) /\ Mined(c, b) BY ValidAppend
  <1>2. e[n] = b /\ n \in Nat /\ e \in Seq(Blocks) /\ Len(e) = n OBVIOUS
  <1>3. DiffsOf(e, n) = ds \o es
    BY <1>2 DEF DiffsOf, TxnDiffs
  <1>4. es \in Seq(Diffs)
    <2>1. CASE n > Delay
      <3>1. n - Delay \in 1 .. n BY <2>1, <1>2, DelayType
      <3>2. e[n - Delay] \in Blocks BY <3>1, <1>2
      <3>3. Payout(e[n - Delay]) \in OutputSet BY <3>2 DEF OutputSet, Payouts
      <3>4. Diff("apply", Payout(e[n - Delay])) \in Diffs BY <3>3 DEF Diff, Diffs
      <3>5. <<Diff("apply", Payout(e[n - Delay]))>> \in Seq(Diffs) BY <3>4, Singleton
      <3> QED BY <2>1, <3>5
    <2>2. CASE ~(n > Delay) BY <2>2
    <2> QED BY <2>1, <2>2
  <1> DEFINE U == Unspent(c)
             V == (U \ Spent(Range(b.txns))) \cup Made(Range(b.txns))
  <1>5. ds \in Seq(Diffs) /\ Explains(U, ds, V)
    <2>1. CASE b.txns = <<>>
      <3>1. parts = <<>> BY <2>1
      <3>2. <<>> \in Seq(Seq(Diffs)) /\ <<>> \in Seq(Diffs) OBVIOUS
      <3>3. ds = <<>> BY <3>1, <3>2, FlattenAppend
      <3>4. V = U BY <2>1, RangeEmpty DEF Spent, Made
      <3> HIDE DEF ds, U, V
      <3> QED BY <3>2, <3>3, <3>4, ExplainsNone
    <2>2. CASE b.txns # <<>>
      <3>1. PICK t \in Txns : b.txns = <<t>> /\ MinedTxn(c, t) BY <2>2, <1>1 DEF Mined
      <3>2. Range(b.txns) = {t} BY <3>1, Singleton
      <3>3. V = (U \ Txn[t].ins) \cup Range(OutputsOf(t)) BY <3>2 DEF Spent, Made
      <3>4. Txn[t].ins \subseteq U /\ t \notin Range(TxnsOf(c)) BY <3>1 DEF MinedTxn
      <3>5. Range(OutputsOf(t)) \cap U = {}
        <4> SUFFICES ASSUME NEW o \in Range(OutputsOf(t)), o \in U PROVE FALSE OBVIOUS
        <4>1. o.id[1] = t BY OutputsFacts
        <4>2. t # "payout" BY TxnAssumption DEF Txns
        <4>3. o \in Created(c) BY UnspentIs
        <4>4. Range(TxnsOf(c)) \in SUBSET Txns
          <5>1. TxnsOf(c) \in Seq(Txns) BY TxnsAppend
          <5> QED BY <5>1 DEF Range
        <4> QED BY <4>1, <4>2, <4>3, <4>4, <3>4, MaturedId, MadeId DEF Created
      <3>6. TxnDiffs(t) \in Seq(Diffs) /\ Explains(U, TxnDiffs(t), V)
        BY <3>3, <3>4, <3>5, TxnExplains
      <3>7. parts = <<TxnDiffs(t)>> BY <3>1
      <3>8. <<>> \in Seq(Seq(Diffs)) /\ <<TxnDiffs(t)>> = Append(<<>>, TxnDiffs(t)) OBVIOUS
      <3>9. FlattenSeq(<<>>) = <<>> /\ FlattenSeq(Append(<<>>, TxnDiffs(t))) = FlattenSeq(<<>>) \o TxnDiffs(t)
        BY <3>6, <3>8, FlattenAppend
      <3>10. ds = <<>> \o TxnDiffs(t) BY <3>7, <3>8, <3>9
      <3>11. ds = TxnDiffs(t) BY <3>6, <3>10
      <3> QED BY <3>6, <3>11
    <2> QED BY <2>1, <2>2
  <1>6. Split(c, b, ds, es) BY <1>3, <1>5 DEF Split
  <1> HIDE DEF ds, es
  <1> QED BY <1>4, <1>5, <1>6

LEMMA BlockExplains ==
  ASSUME NEW c \in Seq(Blocks), NEW b \in Blocks, ValidChain(Append(c, b))
  PROVE  /\ DiffsOf(Append(c, b), Len(c) + 1) \in Seq(Diffs)
         /\ Explains(Unspent(c), DiffsOf(Append(c, b), Len(c) + 1), Unspent(Append(c, b)))
  <1> DEFINE e == Append(c, b)
             n == Len(c) + 1
             U == Unspent(c)
             I == Spent(Range(b.txns))
             M == Made(Range(b.txns))
             V == (U \ I) \cup M
  <1>0. PICK ds, es \in Seq(Diffs) : Split(c, b, ds, es) BY BlockDiffs
  <1>1. /\ DiffsOf(e, n) = ds \o es /\ Explains(U, ds, V)
        /\ es = IF n > Delay THEN <<Diff("apply", Payout(e[n - Delay]))>> ELSE <<>>
    BY <1>0 DEF Split
  <1>2. n \in Nat /\ e \in Seq(Blocks) /\ Len(e) = n OBVIOUS
  <1>3. ValidChain(c) /\ Mined(c, b) BY ValidAppend
  <1>4. SpentOn(c) \subseteq Created(c) BY <1>3, SpentCreated
  <1>5. U = Created(c) \ SpentOn(c) BY UnspentIs
  <1>6. Unspent(e) = (Created(c) \cup M \cup Newly(e)) \ (SpentOn(c) \cup I)
    BY CreatedAppend, UnspentIs
  <1>7. Newly(e) \cap (Created(c) \cup M) = {} BY NewlyFresh
  <1>8. I \subseteq U /\ M \cap Created(c) = {}
    <2>1. CASE b.txns = <<>> BY <2>1, RangeEmpty DEF Spent, Made
    <2>2. CASE b.txns # <<>>
      <3>1. PICK t \in Txns : b.txns = <<t>> /\ MinedTxn(c, t) BY <2>2, <1>3 DEF Mined
      <3>2. Range(b.txns) = {t} BY <3>1, Singleton
      <3>3. Txn[t].ins \subseteq U /\ t \notin Range(TxnsOf(c)) BY <3>1 DEF MinedTxn
      <3>4. I = Txn[t].ins BY <3>2 DEF Spent
      <3>5. M = Range(OutputsOf(t)) BY <3>2 DEF Made
      <3>6. M \cap Created(c) = {}
        <4> SUFFICES ASSUME NEW o \in M, o \in Created(c) PROVE FALSE OBVIOUS
        <4>1. o.id[1] = t BY <3>5, OutputsFacts
        <4>2. t # "payout" BY TxnAssumption DEF Txns
        <4>4. Range(TxnsOf(c)) \in SUBSET Txns
          <5>1. TxnsOf(c) \in Seq(Txns) BY TxnsAppend
          <5> QED BY <5>1 DEF Range
        <4> QED BY <4>1, <4>2, <4>4, <3>3, MaturedId, MadeId DEF Created
      <3> QED BY <3>3, <3>4, <3>6
    <2> QED BY <2>1, <2>2
  <1> HIDE DEF e, n, U, I, M
  <1>9. Unspent(e) = V \cup Newly(e) /\ Newly(e) \cap V = {}
    BY <1>4, <1>5, <1>6, <1>7, <1>8
  <1> HIDE DEF V
  <1>10. Explains(V, es, Unspent(e))
    <2>1. CASE n > Delay
      <3> DEFINE x == Payout(e[n - Delay])
      <3>1. n - Delay \in 1 .. n BY <2>1, <1>2, DelayType
      <3>2. e[n - Delay] \in Blocks BY <3>1, <1>2
      <3>3. x \in OutputSet BY <3>2 DEF OutputSet, Payouts
      <3>4. Newly(e) = {x} BY <2>1, <1>2 DEF Newly
      <3>5. es = <<Diff("apply", x)>> BY <2>1, <1>1
      <3> HIDE DEF x
      <3>6. x \notin V BY <3>4, <1>9
      <3>7. Explains(V, <<Diff("apply", x)>>, V \cup {x}) BY <3>3, <3>6, ExplainsAdd
      <3> QED BY <3>4, <3>5, <3>7, <1>9
    <2>2. CASE ~(n > Delay)
      <3>1. es = <<>> /\ Newly(e) = {} BY <2>2, <1>1, <1>2 DEF Newly
      <3>2. Unspent(e) = V BY <3>1, <1>9
      <3> QED BY <3>1, <3>2, ExplainsNone
    <2> QED BY <2>1, <2>2
  <1>11. ds \o es \in Seq(Diffs) BY <1>1
  <1>12. Explains(U, ds \o es, Unspent(e)) BY <1>1, <1>10, ExplainsThen
  <1> QED BY <1>1, <1>11, <1>12 DEF e, n, U

-----------------------------------------------------------------------------
(* What a change does.                                                         *)
LEMMA PrefixAppend ==
  ASSUME NEW E, NEW c \in Seq(E), NEW h \in 1 .. Len(c)
  PROVE  /\ SubSeq(c, 1, h) = Append(SubSeq(c, 1, h - 1), c[h])
         /\ SubSeq(c, 1, h) \in Seq(E) /\ SubSeq(c, 1, h - 1) \in Seq(E)
         /\ Len(SubSeq(c, 1, h - 1)) = h - 1 /\ c[h] \in E
  <1>1. Len(c) \in Nat /\ h \in Nat /\ h <= Len(c) /\ h >= 1 OBVIOUS
  <1>2. h - 1 \in 0 .. Len(c) /\ h \in 0 .. Len(c) BY <1>1
  <1>3. /\ SubSeq(c, 1, h) \in Seq(E) /\ Len(SubSeq(c, 1, h)) = h
        /\ SubSeq(c, 1, h - 1) \in Seq(E) /\ Len(SubSeq(c, 1, h - 1)) = h - 1
    BY <1>2, Cut
  <1>4. c[h] \in E OBVIOUS
  <1>5. \A i \in 1 .. h : SubSeq(c, 1, h)[i] = c[i] BY <1>1
  <1>6. \A i \in 1 .. h - 1 : SubSeq(c, 1, h - 1)[i] = c[i] BY <1>1
  <1> DEFINE p == SubSeq(c, 1, h)
             q == SubSeq(c, 1, h - 1)
             x == c[h]
  <1> HIDE DEF p, q, x
  <1>7. q \in Seq(E) /\ Len(q) = h - 1 /\ x \in E BY <1>3, <1>4 DEF q, x
  <1>8. /\ Append(q, x) \in Seq(E) /\ Len(Append(q, x)) = h
        /\ \A i \in 1 .. h - 1 : Append(q, x)[i] = q[i]
        /\ Append(q, x)[h] = x
    BY <1>1, <1>7
  <1>9. \A i \in 1 .. h : i \in 1 .. h - 1 \/ i = h BY <1>1
  <1>10. \A i \in 1 .. h : p[i] = Append(q, x)[i] BY <1>5, <1>6, <1>8, <1>9 DEF p, q, x
  <1>11. p \in Seq(E) /\ Len(p) = h BY <1>3 DEF p
  <1>12. p = Append(q, x) BY <1>1, <1>8, <1>10, <1>11
  <1> QED BY <1>3, <1>4, <1>12 DEF p, q, x

(* The diffs of a block are those of the chain that ends with it.              *)
LEMMA DiffsPrefix ==
  ASSUME NEW c \in Seq(Blocks), NEW h \in 1 .. Len(c)
  PROVE  DiffsOf(c, h) = DiffsOf(SubSeq(c, 1, h), h)
  <1>1. Len(c) \in Nat /\ h \in Nat /\ h <= Len(c) /\ h >= 1 /\ Delay \in Nat BY DelayType
  <1> DEFINE p == SubSeq(c, 1, h)
  <1>2. \A i \in 1 .. h : p[i] = c[i] BY <1>1
  <1>3. p[h] = c[h] BY <1>1, <1>2
  <1>4. h > Delay => p[h - Delay] = c[h - Delay]
    <2>1. h > Delay => h - Delay \in 1 .. h BY <1>1
    <2> QED BY <1>2, <2>1
  <1> HIDE DEF p
  <1>5. DiffsOf(p, h) = DiffsOf(c, h) BY <1>3, <1>4 DEF DiffsOf
  <1> QED BY <1>5 DEF p

LEMMA HeightExplains ==
  ASSUME NEW c, ValidChain(c), NEW h \in 1 .. Len(c)
  PROVE  /\ DiffsOf(c, h) \in Seq(Diffs)
         /\ Explains(Unspent(SubSeq(c, 1, h - 1)), DiffsOf(c, h), Unspent(SubSeq(c, 1, h)))
  <1> DEFINE p == SubSeq(c, 1, h)
             q == SubSeq(c, 1, h - 1)
             x == c[h]
  <1>1. c \in Seq(Blocks) BY DEF ValidChain
  <1>2. p = Append(q, x) /\ q \in Seq(Blocks) /\ x \in Blocks /\ Len(q) = h - 1
    BY <1>1, PrefixAppend
  <1>3. h \in 0 .. Len(c) /\ (h - 1) + 1 = h BY <1>1
  <1>4. ValidChain(p) BY <1>3, ValidPrefix
  <1>5. DiffsOf(c, h) = DiffsOf(p, h) BY <1>1, DiffsPrefix
  <1> HIDE DEF p, q, x
  <1>6. ValidChain(Append(q, x)) /\ Len(q) + 1 = h BY <1>2, <1>3, <1>4
  <1>7. /\ DiffsOf(Append(q, x), Len(q) + 1) \in Seq(Diffs)
        /\ Explains(Unspent(q), DiffsOf(Append(q, x), Len(q) + 1), Unspent(Append(q, x)))
    BY <1>2, <1>6, BlockExplains
  <1>8. DiffsOf(p, h) \in Seq(Diffs) /\ Explains(Unspent(q), DiffsOf(p, h), Unspent(p))
    BY <1>2, <1>6, <1>7
  <1> QED BY <1>5, <1>8 DEF p, q

Forward(c, k, m) == [i \in 1 .. m |-> DiffsOf(c, k + i)]
Backward(c, m) == [i \in 1 .. m |-> Inverted(DiffsOf(c, Len(c) - i + 1))]

OneMore(m, f, g, x) ==
  /\ f \in [1 .. m -> Seq(Diffs)] /\ g \in [1 .. m + 1 -> Seq(Diffs)]
  /\ \A i \in 1 .. m : g[i] = f[i]
  /\ g[m + 1] = x

LEMMA FlattenMore ==
  ASSUME NEW m \in Nat, NEW f, NEW g, NEW x \in Seq(Diffs), OneMore(m, f, g, x)
  PROVE  /\ FlattenSeq(g) = FlattenSeq(f) \o x
         /\ FlattenSeq(f) \in Seq(Diffs)
  <1>1. f \in Seq(Seq(Diffs)) /\ Len(f) = m BY DEF OneMore
  <1>2. g \in Seq(Seq(Diffs)) /\ Len(g) = m + 1 BY DEF OneMore
  <1>3. /\ Append(f, x) \in Seq(Seq(Diffs)) /\ Len(Append(f, x)) = m + 1
        /\ \A i \in 1 .. m : Append(f, x)[i] = f[i]
        /\ Append(f, x)[m + 1] = x
    BY <1>1
  <1>4. \A i \in 1 .. m + 1 : i \in 1 .. m \/ i = m + 1 OBVIOUS
  <1>5. \A i \in 1 .. m + 1 : g[i] = Append(f, x)[i] BY <1>3, <1>4 DEF OneMore
  <1>6. g = Append(f, x) BY <1>2, <1>3, <1>5
  <1>7. FlattenSeq(Append(f, x)) = FlattenSeq(f) \o x BY <1>1, FlattenAppend
  <1> QED BY <1>1, <1>6, <1>7, FlattenType

LEMMA FlattenEmptyFun ==
  ASSUME NEW f, f \in [1 .. 0 -> Seq(Diffs)]
  PROVE  FlattenSeq(f) = <<>>
  <1>1. f = <<>> OBVIOUS
  <1>2. <<>> \in Seq(Seq(Diffs)) /\ <<>> \in Seq(Diffs) OBVIOUS
  <1> QED BY <1>1, <1>2, FlattenAppend

LEMMA ForwardExplains ==
  ASSUME NEW c, ValidChain(c), NEW k \in 0 .. Len(c)
  PROVE  \A m \in Nat : k + m <= Len(c) =>
           /\ FlattenSeq(Forward(c, k, m)) \in Seq(Diffs)
           /\ Explains(Unspent(SubSeq(c, 1, k)), FlattenSeq(Forward(c, k, m)),
                       Unspent(SubSeq(c, 1, k + m)))
  <1> DEFINE P(m) == k + m <= Len(c) =>
                       /\ FlattenSeq(Forward(c, k, m)) \in Seq(Diffs)
                       /\ Explains(Unspent(SubSeq(c, 1, k)), FlattenSeq(Forward(c, k, m)),
                                   Unspent(SubSeq(c, 1, k + m)))
             T == {m \in Nat : P(m)}
  <1>0. c \in Seq(Blocks) /\ Len(c) \in Nat /\ k \in Nat BY DEF ValidChain
  <1>1. \A m \in Nat : k + m <= Len(c) => Forward(c, k, m) \in [1 .. m -> Seq(Diffs)]
    <2> SUFFICES ASSUME NEW m \in Nat, k + m <= Len(c), NEW i \in 1 .. m
                 PROVE  DiffsOf(c, k + i) \in Seq(Diffs)
      BY DEF Forward
    <2>1. k + i \in 1 .. Len(c) BY <1>0
    <2> QED BY <2>1, HeightExplains
  <1>2. 0 \in T
    <2>1. k + 0 = k BY <1>0
    <2>2. Forward(c, k, 0) \in [1 .. 0 -> Seq(Diffs)] BY <1>0, <1>1
    <2>3. FlattenSeq(Forward(c, k, 0)) = <<>> BY <2>2, FlattenEmptyFun
    <2>4. <<>> \in Seq(Diffs) OBVIOUS
    <2> QED BY <2>1, <2>3, <2>4, ExplainsNone
  <1>3. ASSUME NEW m \in Nat, m \in T PROVE m + 1 \in T
    <2> SUFFICES ASSUME k + (m + 1) <= Len(c) PROVE P(m + 1) OBVIOUS
    <2>1. k + m <= Len(c) /\ (k + m) + 1 \in 1 .. Len(c) /\ k + (m + 1) = (k + m) + 1 BY <1>0
    <2> DEFINE f == Forward(c, k, m)
               g == Forward(c, k, m + 1)
               x == DiffsOf(c, (k + m) + 1)
               A == Unspent(SubSeq(c, 1, k))
               B == Unspent(SubSeq(c, 1, k + m))
               D == Unspent(SubSeq(c, 1, (k + m) + 1))
    <2>2. FlattenSeq(f) \in Seq(Diffs) /\ Explains(A, FlattenSeq(f), B) BY <1>3, <2>1
    <2>3. ((k + m) + 1) - 1 = k + m BY <1>0
    <2>4. x \in Seq(Diffs) /\ Explains(B, x, D) BY <2>1, <2>3, HeightExplains
    <2>5. f \in [1 .. m -> Seq(Diffs)] /\ g \in [1 .. m + 1 -> Seq(Diffs)] BY <1>1, <2>1
    <2>6. \A i \in 1 .. m : g[i] = f[i]
      <3>1. \A i \in 1 .. m : i \in 1 .. m + 1 OBVIOUS
      <3> QED BY <3>1 DEF Forward
    <2>7. g[m + 1] = x BY <2>1 DEF Forward
    <2> HIDE DEF f, g, x, A, B, D
    <2>12. OneMore(m, f, g, x) BY <2>5, <2>6, <2>7 DEF OneMore
    <2>8. FlattenSeq(g) = FlattenSeq(f) \o x BY <2>4, <2>12, FlattenMore
    <2>9. Explains(A, FlattenSeq(f) \o x, D) BY <2>2, <2>4, ExplainsThen
    <2>10. FlattenSeq(f) \o x \in Seq(Diffs) BY <2>2, <2>4
    <2>11. FlattenSeq(g) \in Seq(Diffs) /\ Explains(A, FlattenSeq(g), D) BY <2>8, <2>9, <2>10
    <2> QED BY <2>1, <2>11 DEF g, A, D
  <1> HIDE DEF T
  <1>4. \A m \in Nat : m \in T BY <1>2, <1>3, Induction
  <1> QED BY <1>4 DEF T

LEMMA BackwardExplains ==
  ASSUME NEW c, ValidChain(c)
  PROVE  \A m \in Nat : m <= Len(c) =>
           /\ FlattenSeq(Backward(c, m)) \in Seq(Diffs)
           /\ Explains(Unspent(c), FlattenSeq(Backward(c, m)), Unspent(SubSeq(c, 1, Len(c) - m)))
  <1> DEFINE P(m) == m <= Len(c) =>
                       /\ FlattenSeq(Backward(c, m)) \in Seq(Diffs)
                       /\ Explains(Unspent(c), FlattenSeq(Backward(c, m)),
                                   Unspent(SubSeq(c, 1, Len(c) - m)))
             T == {m \in Nat : P(m)}
  <1>0. c \in Seq(Blocks) /\ Len(c) \in Nat BY DEF ValidChain
  <1>5. ASSUME NEW h \in 1 .. Len(c)
        PROVE  /\ Inverted(DiffsOf(c, h)) \in Seq(Diffs)
               /\ Explains(Unspent(SubSeq(c, 1, h)), Inverted(DiffsOf(c, h)),
                           Unspent(SubSeq(c, 1, h - 1)))
    BY HeightExplains, ExplainsBack
  <1>1. \A m \in Nat : m <= Len(c) => Backward(c, m) \in [1 .. m -> Seq(Diffs)]
    <2> SUFFICES ASSUME NEW m \in Nat, m <= Len(c), NEW i \in 1 .. m
                 PROVE  Inverted(DiffsOf(c, Len(c) - i + 1)) \in Seq(Diffs)
      BY DEF Backward
    <2>1. Len(c) - i + 1 \in 1 .. Len(c) BY <1>0
    <2> QED BY <2>1, <1>5
  <1>2. 0 \in T
    <2>1. Len(c) - 0 = Len(c) /\ SubSeq(c, 1, Len(c)) = c BY <1>0
    <2>2. Backward(c, 0) \in [1 .. 0 -> Seq(Diffs)] BY <1>0, <1>1
    <2>3. FlattenSeq(Backward(c, 0)) = <<>> BY <2>2, FlattenEmptyFun
    <2>4. <<>> \in Seq(Diffs) OBVIOUS
    <2> QED BY <2>1, <2>3, <2>4, ExplainsNone
  <1>3. ASSUME NEW m \in Nat, m \in T PROVE m + 1 \in T
    <2> SUFFICES ASSUME m + 1 <= Len(c) PROVE P(m + 1) OBVIOUS
    <2> DEFINE h == Len(c) - m
    <2>1. m <= Len(c) /\ h \in 1 .. Len(c) /\ Len(c) - (m + 1) = h - 1 BY <1>0
    <2> DEFINE f == Backward(c, m)
               g == Backward(c, m + 1)
               x == Inverted(DiffsOf(c, h))
               A == Unspent(c)
               B == Unspent(SubSeq(c, 1, h))
               D == Unspent(SubSeq(c, 1, h - 1))
    <2>2. FlattenSeq(f) \in Seq(Diffs) /\ Explains(A, FlattenSeq(f), B) BY <1>3, <2>1
    <2>4. x \in Seq(Diffs) /\ Explains(B, x, D) BY <2>1, <1>5
    <2>5. f \in [1 .. m -> Seq(Diffs)] /\ g \in [1 .. m + 1 -> Seq(Diffs)] BY <1>1, <2>1
    <2>6. \A i \in 1 .. m : g[i] = f[i]
      <3>1. \A i \in 1 .. m : i \in 1 .. m + 1 OBVIOUS
      <3> QED BY <3>1 DEF Backward
    <2>7. g[m + 1] = x
      <3>1. Len(c) - (m + 1) + 1 = h /\ m + 1 \in 1 .. m + 1 BY <1>0
      <3> QED BY <3>1 DEF Backward
    <2> HIDE DEF f, g, x, A, B, D
    <2>12. OneMore(m, f, g, x) BY <2>5, <2>6, <2>7 DEF OneMore
    <2>8. FlattenSeq(g) = FlattenSeq(f) \o x BY <2>4, <2>12, FlattenMore
    <2>9. Explains(A, FlattenSeq(f) \o x, D) BY <2>2, <2>4, ExplainsThen
    <2>10. FlattenSeq(f) \o x \in Seq(Diffs) BY <2>2, <2>4
    <2>11. FlattenSeq(g) \in Seq(Diffs) /\ Explains(A, FlattenSeq(g), D) BY <2>8, <2>9, <2>10
    <2> QED BY <2>1, <2>11 DEF g, A, D
  <1> HIDE DEF T
  <1>4. \A m \in Nat : m \in T BY <1>2, <1>3, Induction
  <1> QED BY <1>4 DEF T

(* The diffs of a change explain what it does to the outputs of the chain.     *)
LEMMA ChangeExplains ==
  ASSUME NEW n, NEW k, NEW r, NEW b, Replaces(n, k, r, b)
  PROVE  /\ ConsensusChange(n).diffs \in Seq(Diffs)
         /\ Explains(Unspent(k \o r), ConsensusChange(n).diffs, Unspent(k \o b))
  <1> DEFINE old == k \o r
             new == k \o b
             p == Backward(old, Len(r))
             q == Forward(new, Len(k), Len(b))
  <1>1. /\ k \in Seq(Blocks) /\ r \in Seq(Blocks) /\ b \in Seq(Blocks)
        /\ Chain(n - 1) = old /\ Chain(n) = new /\ b = log[n].blocks /\ Len(r) = log[n].revert
        /\ ValidChain(old) /\ ValidChain(new)
    BY DEF Replaces
  <1>2. /\ Len(k) \in Nat /\ Len(r) \in Nat /\ Len(b) \in Nat
        /\ Len(old) = Len(k) + Len(r) /\ Len(new) = Len(k) + Len(b)
        /\ DOMAIN b = 1 .. Len(b)
    <2>1. k \in Seq(Blocks) /\ r \in Seq(Blocks) /\ b \in Seq(Blocks) BY <1>1
    <2> QED BY <2>1
  <1>3. Len(old) - Len(r) = Len(k) BY <1>2
  <1>4. SubSeq(old, 1, Len(k)) = k /\ SubSeq(new, 1, Len(k)) = k BY <1>1, <1>2
  <1>5. SubSeq(new, 1, Len(k) + Len(b)) = new BY <1>1, <1>2
  <1>6. ConsensusChange(n).diffs = FlattenSeq(p) \o FlattenSeq(q)
    <2>1. ConsensusChange(n).diffs
            = FlattenSeq([i \in 1 .. log[n].revert |->
                            Inverted(DiffsOf(Chain(n - 1), Len(Chain(n - 1)) - i + 1))])
              \o FlattenSeq([i \in DOMAIN log[n].blocks |->
                            DiffsOf(Chain(n), (Len(Chain(n - 1)) - log[n].revert) + i)])
      BY DEF ConsensusChange
    <2>2. p = [i \in 1 .. log[n].revert |->
                 Inverted(DiffsOf(Chain(n - 1), Len(Chain(n - 1)) - i + 1))]
      BY <1>1 DEF Backward
    <2>3. Len(Chain(n - 1)) - log[n].revert = Len(k) BY <1>1, <1>3
    <2>4. q = [i \in DOMAIN log[n].blocks |->
                 DiffsOf(Chain(n), (Len(Chain(n - 1)) - log[n].revert) + i)]
      BY <1>1, <1>2, <2>3 DEF Forward
    <2> QED BY <2>1, <2>2, <2>4
  <1> HIDE DEF old, new
  <1>7. FlattenSeq(p) \in Seq(Diffs) /\ Explains(Unspent(old), FlattenSeq(p), Unspent(k))
    <2>1. Len(r) \in Nat /\ Len(r) <= Len(old) BY <1>2
    <2>2. Explains(Unspent(old), FlattenSeq(p), Unspent(SubSeq(old, 1, Len(old) - Len(r))))
      BY <2>1, <1>1, BackwardExplains
    <2>3. FlattenSeq(p) \in Seq(Diffs) BY <2>1, <1>1, BackwardExplains
    <2> QED BY <2>2, <2>3, <1>3, <1>4
  <1>8. FlattenSeq(q) \in Seq(Diffs) /\ Explains(Unspent(k), FlattenSeq(q), Unspent(new))
    <2>1. Len(k) \in 0 .. Len(new) /\ Len(b) \in Nat /\ Len(k) + Len(b) <= Len(new) BY <1>2
    <2>2. Explains(Unspent(SubSeq(new, 1, Len(k))), FlattenSeq(q),
                   Unspent(SubSeq(new, 1, Len(k) + Len(b))))
      BY <2>1, <1>1, ForwardExplains
    <2>3. FlattenSeq(q) \in Seq(Diffs) BY <2>1, <1>1, ForwardExplains
    <2> QED BY <2>2, <2>3, <1>4, <1>5
  <1> HIDE DEF p, q
  <1>9. FlattenSeq(p) \o FlattenSeq(q) \in Seq(Diffs) BY <1>7, <1>8
  <1>10. Explains(Unspent(old), FlattenSeq(p) \o FlattenSeq(q), Unspent(new))
    BY <1>7, <1>8, ExplainsThen
  <1> QED BY <1>6, <1>9, <1>10 DEF old, new

-----------------------------------------------------------------------------
(* The seed index is past every address that was ever tracked, so the index   *)
(* that a thread has read is past every address tracked when it was called.   *)
IndexInv ==
  /\ "seedIndex" \in DOMAIN db /\ db.seedIndex \in Nat
  /\ \A a \in known: a \in Nat /\ a < db.seedIndex

HotInv ==
  /\ DOMAIN hot = {"by", "index", "before"}
  /\ given \subseteq known
  /\ hot.by # Nobody =>
       /\ hot.index \in Nat
       /\ given \subseteq hot.before
       /\ \A a \in hot.before: a \in Nat /\ a < hot.index

IInv == IndexInv /\ HotInv

-----------------------------------------------------------------------------
LEMMA InitInv == Init => IInv
  BY DEF Init, IInv, IndexInv, HotInv, NewStore, Free

(* A change of the chain moves no index: Applied rewrites other fields only.  *)
LEMMA AppliedIndex ==
  ASSUME NEW s, NEW f, "seedIndex" \in DOMAIN s
  PROVE  /\ "seedIndex" \in DOMAIN dbApply(s, f)
         /\ dbApply(s, f).seedIndex = s.seedIndex
  BY DEF dbApply, Applied

(* Adding an address moves the index past it and never back, also for an      *)
(* address below it that was removed.                                         *)
LEMMA TrackInv ==
  ASSUME IInv, NEW i \in Nat, Track(i), given' \subseteq given \cup {i},
         \/ hot' = hot /\ given' = given
         \/ hot' = Free
  PROVE  IInv'
  <1>1. /\ "seedIndex" \in DOMAIN db' /\ db'.seedIndex \in Nat
        /\ db'.seedIndex >= db.seedIndex /\ db'.seedIndex > i
    BY DEF IInv, IndexInv, Track, AddAddressTo
  <1>2. known' = known \cup {i} BY DEF Track
  <1>3. IndexInv' BY <1>1, <1>2 DEF IInv, IndexInv
  <1>4. HotInv' BY <1>2 DEF IInv, HotInv, Free
  <1> QED BY <1>3, <1>4 DEF IInv

LEMMA StepInv == IInv /\ [Next]_vars => IInv'
  <1> SUFFICES ASSUME IInv, [Next]_vars PROVE IInv' OBVIOUS
  <1>1. ASSUME NEW revert \in 0 .. MaxReorg, Mine(revert) PROVE IInv'
    BY <1>1 DEF Mine, IInv, IndexInv, HotInv, history
  <1>2. CASE Deliver
    <2>1. PICK cc : db' = dbApply(db, FilterConsensusChange(cc, db.addrs, ChainHeight(db)))
      BY <1>2 DEF Deliver
    <2>2. "seedIndex" \in DOMAIN db' /\ db'.seedIndex = db.seedIndex
      BY <2>1, AppliedIndex DEF IInv, IndexInv
    <2>3. UNCHANGED <<known, given, hot>> BY <1>2 DEF Deliver
    <2> QED BY <2>2, <2>3 DEF IInv, IndexInv, HotInv
  <1>3. ASSUME NEW t \in DOMAIN Txn, AddToLimbo(t) \/ RemoveFromLimbo(t) PROVE IInv'
    BY <1>3 DEF AddToLimbo, RemoveFromLimbo, IInv, IndexInv, HotInv
  <1>4. ASSUME NEW i \in Addr, AddAddress(i) PROVE IInv'
    <2>1. i \in Nat BY WalletAssumption DEF Addr
    <2> QED BY <1>4, <2>1, TrackInv DEF AddAddress
  <1>5. ASSUME NEW i \in Addr, RemoveAddress(i) PROVE IInv'
    BY <1>5 DEF RemoveAddress, IInv, IndexInv, HotInv
  <1>6. ASSUME NEW th \in Threads, NextBegin(th) PROVE IInv'
    BY <1>6 DEF NextBegin, IInv, IndexInv, HotInv
  <1>7. ASSUME NEW th \in Threads, NextEnd(th) PROVE IInv'
    <2>1. hot.index \in Nat BY <1>7, WalletAssumption DEF NextEnd, IInv, HotInv
    <2> QED BY <1>7, <2>1, TrackInv DEF NextEnd
  <1>8. CASE Reset
    BY <1>8 DEF Reset, IInv, IndexInv, HotInv
  <1>9. CASE UNCHANGED vars
    BY <1>9 DEF vars, history, IInv, IndexInv, HotInv
  <1> QED BY <1>1, <1>2, <1>3, <1>4, <1>5, <1>6, <1>7, <1>8, <1>9 DEF Next

(* Only the end of NextAddress lets go of the HotWallet's lock.               *)
LEMMA StepFresh ==
  IInv /\ [Next]_vars =>
    (hot.by # Nobody /\ hot'.by = Nobody => hot.index \notin given \cup hot.before)
  BY DEF IInv, HotInv

-----------------------------------------------------------------------------
(* NextAddress (seedwallet.go:244) returns addresses that it never returned   *)
(* and that were not tracked when it was called, although other callers add   *)
(* and remove addresses between its reading the index and adding the address. *)
THEOREM AddressesFresh == Spec => FreshAddress
  <1>1. Spec => []IInv BY InitInv, StepInv, PTL DEF Spec
  <1>2. IInv /\ [Next]_vars =>
          [hot.by # Nobody /\ hot'.by = Nobody =>
             hot.index \notin given \cup hot.before]_vars
    BY StepFresh
  <1> QED BY <1>1, <1>2, PTL DEF Spec, FreshAddress

-----------------------------------------------------------------------------
(* What a delivery does to the store, in terms of the chain.                   *)
Delivered(n, k, r, b) ==
  /\ Replaces(n, k, r, b) /\ n \in 1 .. Len(log)
  /\ Chain(db.ccid) = k \o r /\ Chain(db.ccid)' = k \o b
  /\ db'.ccid = n /\ n = db.ccid + 1 /\ db'.addrs = db.addrs
  /\ db'.outputs = (db.outputs \ {o \in Unspent(k \o r) \ Unspent(k \o b) : o.addr \in db.addrs})
                   \cup {o \in Unspent(k \o b) \ Unspent(k \o r) : o.addr \in db.addrs}
  /\ db'.limbo = db.limbo \ ((Range(TxnsOf(r)) \cup Range(TxnsOf(b))) \cap Relevant(db.addrs))

LEMMA DeliverDoes ==
  ASSUME StoresInv, Deliver
  PROVE  \E n, k, r, b : Delivered(n, k, r, b)
  <1> DEFINE n == db.ccid + 1
             O == db.addrs
             ds == ConsensusChange(n).diffs
  <1>0. PICK k, r, b, H, X, Y, f :
           /\ Replaces(n, k, r, b)
           /\ db' = dbApply(db, f)
           /\ f.id = n
           /\ f.reverted = processBlocks(Reverse(r), O, 0, X)
           /\ f.applied = processBlocks(b, O, H, Y)
           /\ X = processOutputs(ds, O, "revert")
           /\ Y = processOutputs(ds, O, "apply")
    BY DeliverFilter
  <1>n. n \in 1 .. Len(log) /\ n - 1 = db.ccid
    <2>1. Len(log) \in Nat BY ChainZero DEF StoresInv
    <2> QED BY <2>1 DEF StoresInv, SharedInv, Deliver
  <1>l. log' = log BY DEF Deliver
  <1>m. n = db.ccid + 1 OBVIOUS
  <1> HIDE DEF n
  <1>r. /\ r \in Seq(Blocks) /\ b \in Seq(Blocks) /\ Reverse(r) \in Seq(Blocks)
        /\ Chain(db.ccid) = k \o r /\ Chain(n) = k \o b
    BY <1>0, <1>n, ReverseFacts DEF Replaces
  <1>t. Range(TxnsOf(Reverse(r))) = Range(TxnsOf(r)) BY <1>0, ReplacedTxns
  <1>1. DOMAIN db = Fields BY DEF StoresInv, SharedInv
  <1>2. DbApplied(db', db, f) BY <1>0, <1>1, AppliedFields
  <1>3. /\ db'.addrs = O /\ db'.ccid = n
        /\ db'.outputs = (db.outputs \ f.reverted.outputs) \cup f.applied.outputs
        /\ db'.limbo = db.limbo \ (Range(f.reverted.txns) \cup Range(f.applied.txns))
    BY <1>0, <1>2 DEF DbApplied
  <1>4. f.reverted.outputs = X /\ f.applied.outputs = Y
    BY <1>0, <1>r, FilterTxns
  <1>5. /\ Range(f.reverted.txns) = Range(TxnsOf(r)) \cap Relevant(O)
        /\ Range(f.applied.txns) = Range(TxnsOf(b)) \cap Relevant(O)
    BY <1>0, <1>r, <1>t, FilterTxns
  <1>6. ds \in Seq(Diffs) /\ Explains(Unspent(k \o r), ds, Unspent(k \o b)) BY <1>0, ChangeExplains
  <1> HIDE DEF ds
  <1>7. /\ X = {o \in Unspent(k \o r) \ Unspent(k \o b) : o.addr \in O}
        /\ Y = {o \in Unspent(k \o b) \ Unspent(k \o r) : o.addr \in O}
    BY <1>0, <1>6, ProcessOutputs
  <1>c. Chain(db.ccid)' = k \o b BY <1>3, <1>l, <1>r DEF Chain
  <1>8. db'.limbo = db.limbo \ ((Range(TxnsOf(r)) \cup Range(TxnsOf(b))) \cap Relevant(O))
    BY <1>3, <1>5
  <1>9. db'.outputs = (db.outputs \ {o \in Unspent(k \o r) \ Unspent(k \o b) : o.addr \in O})
                      \cup {o \in Unspent(k \o b) \ Unspent(k \o r) : o.addr \in O}
    BY <1>3, <1>4, <1>7
  <1>10. Delivered(n, k, r, b) BY <1>0, <1>n, <1>m, <1>r, <1>c, <1>3, <1>8, <1>9 DEF Delivered
  <1> QED BY <1>10

-----------------------------------------------------------------------------
(* An address that was never removed since the last Reset is tracked; what the *)
(* store holds is some address' that it knows.                                 *)
TrackedInv ==
  /\ known \subseteq Addr /\ since \in [Addr -> Nat]
  /\ db.addrs \subseteq known /\ tainted \subseteq known /\ known \ tainted \subseteq db.addrs
  /\ hot.by # Nobody => hot.index \in Addr

Held(a) == {o \in db.outputs : o.addr = a}
Due(a) == {o \in Unspent(Chain(db.ccid)) : o.addr = a}
HeldInv ==
  /\ \A o \in db.outputs : o.addr \in known
  /\ \A a \in known \ tainted : Held(a) \subseteq Due(a)
  /\ \A a \in Whole : Held(a) = Due(a)

OutputsInv == StoresInv /\ IInv /\ TrackedInv /\ HeldInv

LEMMA UnspentEmpty == Unspent(<<>>) = {}
  <1>1. Matured(<<>>) = {} BY DEF Matured
  <1>2. Created(<<>>) = {} BY <1>1, TxnsNone, RangeEmpty DEF Created, Made
  <1> QED BY <1>2, UnspentIs

LEMMA OutputsInit == Init => OutputsInv
  <1> SUFFICES ASSUME Init PROVE OutputsInv OBVIOUS
  <1>1. StoresInv /\ IInv BY StoresInit, InitInv
  <1>2. TrackedInv BY DEF Init, TrackedInv, NewStore, Free
  <1>3. HeldInv BY DEF Init, HeldInv, NewStore, Whole
  <1> QED BY <1>1, <1>2, <1>3 DEF OutputsInv

LEMMA SameHeld ==
  ASSUME OutputsInv, db'.outputs = db.outputs, Chain(db.ccid)' = Chain(db.ccid), since' = since,
         known' = known, tainted \subseteq tainted', db'.addrs \subseteq db.addrs
  PROVE  HeldInv'
  <1>1. \A a : Held(a)' = Held(a) /\ Due(a)' = Due(a) BY DEF Held, Due
  <1>2. Whole' \subseteq Whole BY DEF Whole
  <1> QED BY <1>1, <1>2 DEF OutputsInv, HeldInv

LEMMA DeliverOutputs ==
  ASSUME OutputsInv, Deliver
  PROVE  TrackedInv' /\ HeldInv'
  <1>1. PICK n, k, r, b : Delivered(n, k, r, b) BY DeliverDoes DEF OutputsInv
  <1>2. UNCHANGED <<hot, since, known, given, tainted>> BY DEF Deliver
  <1>3. TrackedInv' BY <1>1, <1>2 DEF OutputsInv, TrackedInv, Delivered
  <1> DEFINE S == Unspent(k \o r)
             T == Unspent(k \o b)
             O == db.addrs
  <1>4. /\ db'.outputs = (db.outputs \ {o \in S \ T : o.addr \in O}) \cup {o \in T \ S : o.addr \in O}
        /\ Chain(db.ccid) = k \o r /\ Chain(db.ccid)' = k \o b /\ db'.addrs = O
    BY <1>1 DEF Delivered
  <1>5. \A a : Due(a) = {o \in S : o.addr = a} /\ Due(a)' = {o \in T : o.addr = a}
    BY <1>4 DEF Due
  <1> HIDE DEF S, T
  <1>6. O \subseteq known /\ known \ tainted \subseteq O /\ known' = known /\ tainted' = tainted
        /\ Whole' = Whole /\ Whole \subseteq known \ tainted
    BY <1>2, <1>4 DEF OutputsInv, TrackedInv, Whole
  <1>7. \A o \in db'.outputs : o.addr \in known BY <1>4, <1>6 DEF OutputsInv, HeldInv
  <1>8. ASSUME NEW a \in known \ tainted PROVE Held(a)' \subseteq Due(a)'
    <2>1. Held(a) \subseteq Due(a) /\ a \in O BY <1>6 DEF OutputsInv, HeldInv
    <2> QED BY <2>1, <1>4, <1>5 DEF Held
  <1>9. ASSUME NEW a \in Whole PROVE Due(a)' \subseteq Held(a)'
    <2>1. Held(a) = Due(a) /\ a \in O BY <1>6 DEF OutputsInv, HeldInv
    <2> QED BY <2>1, <1>4, <1>5 DEF Held
  <1>10. HeldInv' BY <1>6, <1>7, <1>8, <1>9 DEF HeldInv
  <1> QED BY <1>3, <1>10

LEMMA TrackOutputs ==
  ASSUME OutputsInv, NEW i \in Addr, Track(i), hot' = hot \/ hot' = Free
  PROVE  TrackedInv' /\ HeldInv'
  <1>1. db'.addrs = db.addrs \cup {i} /\ SameRest BY TrackStores DEF OutputsInv
  <1>2. /\ since' = [since EXCEPT ![i] = IF i \in known THEN @ ELSE db.ccid]
        /\ known' = known \cup {i} /\ log' = log /\ tainted' = tainted
    BY DEF Track
  <1>3. db.ccid \in Nat BY DEF OutputsInv, StoresInv, SharedInv
  <1>4. TrackedInv' BY <1>1, <1>2, <1>3 DEF OutputsInv, TrackedInv, Free
  <1>5. db'.outputs = db.outputs /\ db'.ccid = db.ccid BY <1>1 DEF SameRest
  <1>6. Chain(db.ccid)' = Chain(db.ccid) BY <1>2, <1>5, SameLog DEF OutputsInv
  <1>7. \A a : Held(a)' = Held(a) /\ Due(a)' = Due(a) BY <1>5, <1>6 DEF Held, Due
  <1>8. \A a \in Addr : since'[a] = IF a = i /\ i \notin known THEN db.ccid ELSE since[a]
    BY <1>2 DEF OutputsInv, TrackedInv
  <1>9. ASSUME i \notin known PROVE Held(i) = {} BY <1>9 DEF OutputsInv, HeldInv, Held
  <1>10. ASSUME db.ccid = 0 PROVE Due(i) = {}
    <2>1. Chain(db.ccid) = <<>> BY <1>10, ChainZero DEF OutputsInv, StoresInv
    <2> QED BY <2>1, UnspentEmpty DEF Due
  <1>11. \A a \in known' \ tainted' : Held(a) \subseteq Due(a)
    BY <1>2, <1>9 DEF OutputsInv, HeldInv
  <1>12. ASSUME NEW a \in Whole' PROVE Held(a) = Due(a)
    <2>1. a \in db'.addrs /\ a \notin tainted /\ since'[a] = 0 BY <1>2 DEF Whole
    <2>2. a \in Addr BY <2>1, <1>1 DEF OutputsInv, TrackedInv
    <2>3. CASE a = i /\ i \notin known
      <3>1. db.ccid = 0 BY <2>1, <2>2, <2>3, <1>8
      <3> QED BY <3>1, <2>3, <1>9, <1>10
    <2>4. CASE ~(a = i /\ i \notin known)
      <3>1. since[a] = 0 BY <2>1, <2>2, <2>4, <1>8
      <3>2. a \in known BY <2>1, <2>4, <1>1 DEF OutputsInv, TrackedInv
      <3>3. a \in Whole BY <2>1, <3>1, <3>2 DEF OutputsInv, TrackedInv, Whole
      <3> QED BY <3>3 DEF OutputsInv, HeldInv
    <2> QED BY <2>3, <2>4
  <1>13. \A o \in db'.outputs : o.addr \in known' BY <1>2, <1>5 DEF OutputsInv, HeldInv
  <1>14. HeldInv' BY <1>7, <1>11, <1>12, <1>13 DEF HeldInv
  <1> QED BY <1>4, <1>14

LEMMA ResetOutputs ==
  ASSUME OutputsInv, Reset
  PROVE  TrackedInv' /\ HeldInv'
  <1>1. DOMAIN db = Fields BY DEF OutputsInv, StoresInv, SharedInv
  <1>2. db'.outputs = {} /\ db'.ccid = 0 /\ db'.addrs = db.addrs BY <1>1 DEF Reset, Fields
  <1>3. /\ log' = log /\ known' = known /\ hot' = hot /\ tainted' = known \ db.addrs
        /\ since' = [a \in Addr |-> 0]
    BY DEF Reset
  <1>4. TrackedInv' BY <1>2, <1>3 DEF OutputsInv, TrackedInv
  <1>5. Chain(0) = <<>> BY ChainZero DEF OutputsInv, StoresInv
  <1>6. Chain(db.ccid)' = <<>> BY <1>2, <1>3, <1>5 DEF Chain
  <1>7. \A a : Held(a)' = {} /\ Due(a)' = {} BY <1>2, <1>6, UnspentEmpty DEF Held, Due
  <1>8. HeldInv' BY <1>2, <1>7 DEF HeldInv
  <1> QED BY <1>4, <1>8

LEMMA StepOutputs == OutputsInv /\ [Next]_vars => OutputsInv'
  <1> SUFFICES ASSUME OutputsInv, [Next]_vars PROVE OutputsInv' OBVIOUS
  <1>0. StoresInv' /\ IInv' BY StepStores, StepInv DEF OutputsInv
  <1> SUFFICES TrackedInv' /\ HeldInv' BY <1>0 DEF OutputsInv
  <1>1. ASSUME NEW revert \in 0 .. MaxReorg, Mine(revert) PROVE TrackedInv' /\ HeldInv'
    <2>1. revert \in Nat BY WalletAssumption
    <2>2. PICK c \in Changes : log' = Append(log, c) BY <1>1, <2>1, LogMine DEF OutputsInv, StoresInv
    <2>3. UNCHANGED <<mem, db, hot, history>> BY <1>1 DEF Mine
    <2>4. log \in Seq(Changes) /\ db.ccid \in 0 .. Len(log)
      BY DEF OutputsInv, StoresInv, LogInv, LogOK, SharedInv
    <2>5. Chain(db.ccid)' = Chain(db.ccid) BY <2>2, <2>3, <2>4, PrefixOfAppend DEF Chain
    <2>6. HeldInv' BY <2>3, <2>5, SameHeld DEF history
    <2> QED BY <2>3, <2>6 DEF OutputsInv, TrackedInv, history
  <1>2. CASE Deliver BY <1>2, DeliverOutputs
  <1>3. ASSUME NEW t \in DOMAIN Txn, AddToLimbo(t) \/ RemoveFromLimbo(t)
        PROVE  TrackedInv' /\ HeldInv'
    <2>1. DOMAIN db = Fields BY DEF OutputsInv, StoresInv, SharedInv
    <2>2. PICK L : db' = [db EXCEPT !.limbo = L] BY <1>3 DEF AddToLimbo, RemoveFromLimbo
    <2>3. db'.outputs = db.outputs /\ db'.ccid = db.ccid /\ db'.addrs = db.addrs
      BY <2>1, <2>2 DEF Fields
    <2>4. UNCHANGED <<log, hot, since, known, tainted>> BY <1>3 DEF AddToLimbo, RemoveFromLimbo
    <2>5. Chain(db.ccid)' = Chain(db.ccid) BY <2>3, <2>4, SameLog DEF OutputsInv
    <2>6. HeldInv' BY <2>3, <2>4, <2>5, SameHeld
    <2> QED BY <2>3, <2>4, <2>6 DEF OutputsInv, TrackedInv
  <1>4. ASSUME NEW i \in Addr, AddAddress(i) PROVE TrackedInv' /\ HeldInv'
    BY <1>4, TrackOutputs DEF AddAddress
  <1>5. ASSUME NEW i \in Addr, RemoveAddress(i) PROVE TrackedInv' /\ HeldInv'
    <2>1. SameRest BY <1>5, RemoveStores DEF OutputsInv
    <2>2. DOMAIN db = Fields BY DEF OutputsInv, StoresInv, SharedInv
    <2>3. /\ db' = [db EXCEPT !.addrs = @ \ {i}] /\ tainted' = tainted \cup {i} /\ i \in db.addrs
          /\ UNCHANGED <<log, hot, since, known>>
      BY <1>5 DEF RemoveAddress
    <2>4. db'.addrs = db.addrs \ {i} BY <2>2, <2>3 DEF Fields
    <2>5. db'.outputs = db.outputs /\ db'.ccid = db.ccid BY <2>1 DEF SameRest
    <2>6. Chain(db.ccid)' = Chain(db.ccid) BY <2>3, <2>5, SameLog DEF OutputsInv
    <2>7. HeldInv' BY <2>3, <2>4, <2>5, <2>6, SameHeld
    <2> QED BY <2>3, <2>4, <2>7 DEF OutputsInv, TrackedInv
  <1>6. ASSUME NEW th \in Threads, NextBegin(th) PROVE TrackedInv' /\ HeldInv'
    <2>1. /\ UNCHANGED <<log, db, since, known, tainted>>
          /\ hot'.index = db.seedIndex /\ db.seedIndex < MaxAddr
      BY <1>6 DEF NextBegin
    <2>2. db.seedIndex \in Nat /\ MaxAddr \in Nat BY WalletAssumption DEF OutputsInv, IInv, IndexInv
    <2>3. hot'.index \in Addr BY <2>1, <2>2 DEF Addr
    <2>4. Chain(db.ccid)' = Chain(db.ccid) BY <2>1, SameLog DEF OutputsInv
    <2>5. HeldInv' BY <2>1, <2>4, SameHeld
    <2> QED BY <2>1, <2>3, <2>5 DEF OutputsInv, TrackedInv
  <1>7. ASSUME NEW th \in Threads, NextEnd(th) PROVE TrackedInv' /\ HeldInv'
    <2>1. hot.index \in Addr /\ Track(hot.index) /\ hot' = Free
      BY <1>7, WalletAssumption DEF NextEnd, OutputsInv, TrackedInv
    <2> QED BY <2>1, TrackOutputs
  <1>8. CASE Reset BY <1>8, ResetOutputs
  <1>9. CASE UNCHANGED vars
    <2>1. UNCHANGED <<log, db, hot, since, known, tainted>> BY <1>9 DEF vars, history
    <2>2. Chain(db.ccid)' = Chain(db.ccid) BY <2>1, SameLog DEF OutputsInv
    <2>3. HeldInv' BY <2>1, <2>2, SameHeld
    <2> QED BY <2>1, <2>3 DEF OutputsInv, TrackedInv
  <1> QED BY <1>1, <1>2, <1>3, <1>4, <1>5, <1>6, <1>7, <1>8, <1>9 DEF Next

(* What FilterConsensusChange (wallet.go:318) makes of the diffs of a change, *)
(* an output created and spent in it left out, keeps the stored outputs those *)
(* of the chain: for an address tracked all along, exactly the unspent ones.  *)
THEOREM Outputs == Spec => []OutputsMatchChain
  <1>1. Spec => []OutputsInv BY OutputsInit, StepOutputs, PTL DEF Spec
  <1>2. OutputsInv => OutputsMatchChain
    BY DEF OutputsInv, HeldInv, Held, Due, OutputsMatchChain
  <1> QED BY <1>1, <1>2, PTL

-----------------------------------------------------------------------------
(* Limbo.                                                                      *)
LEMMA RangeFinite == ASSUME NEW E PROVE \A s \in Seq(E) : IsFiniteSet(Range(s))
  <1> DEFINE T == {s \in Seq(E) : IsFiniteSet(Range(s))}
  <1>1. <<>> \in T
    <2>1. <<>> \in Seq(E) OBVIOUS
    <2> QED BY <2>1, RangeEmpty, FS_EmptySet
  <1>2. ASSUME NEW s \in Seq(E), NEW x \in E, s \in T PROVE Append(s, x) \in T
    <2>1. Range(Append(s, x)) = Range(s) \cup {x} BY RangeAppend
    <2>2. IsFiniteSet(Range(s) \cup {x}) BY <1>2, FS_AddElement
    <2>3. Append(s, x) \in Seq(E) OBVIOUS
    <2>4. IsFiniteSet(Range(Append(s, x))) BY <2>1, <2>2
    <2> QED BY <2>3, <2>4
  <1> HIDE DEF T
  <1>3. \A s \in Seq(E) : s \in T BY <1>1, <1>2, SeqInduction
  <1> QED BY <1>3 DEF T

LEMMA CreatedFinite ==
  \A c \in Seq(Blocks) : ValidChain(c) => IsFiniteSet(Created(c))
  <1> DEFINE T == {c \in Seq(Blocks) : ValidChain(c) => IsFiniteSet(Created(c))}
  <1>1. <<>> \in T
    <2>1. <<>> \in Seq(Blocks) OBVIOUS
    <2>2. Matured(<<>>) = {} BY DEF Matured
    <2>3. Created(<<>>) = {} BY <2>2, TxnsNone, RangeEmpty DEF Created, Made
    <2> QED BY <2>1, <2>3, FS_EmptySet
  <1>2. ASSUME NEW c \in Seq(Blocks), NEW b \in Blocks, c \in T PROVE Append(c, b) \in T
    <2> SUFFICES ASSUME ValidChain(Append(c, b)) PROVE IsFiniteSet(Created(Append(c, b)))
      OBVIOUS
    <2>1. ValidChain(c) /\ Mined(c, b) BY ValidAppend
    <2>2. IsFiniteSet(Created(c)) BY <1>2, <2>1
    <2>3. IsFiniteSet(Made(Range(b.txns)))
      <3>1. CASE b.txns = <<>>
        <4>1. Made(Range(b.txns)) = {} BY <3>1, RangeEmpty DEF Made
        <4> QED BY <4>1, FS_EmptySet
      <3>2. CASE b.txns # <<>>
        <4>1. PICK t \in Txns : b.txns = <<t>> BY <3>2, <2>1 DEF Mined
        <4>2. Range(b.txns) = {t} BY <4>1, Singleton
        <4>3. Made(Range(b.txns)) = Range(OutputsOf(t)) BY <4>2 DEF Made
        <4>4. OutputsOf(t) \in Seq(OutputSet) BY OutputsFacts
        <4> QED BY <4>3, <4>4, RangeFinite
      <3> QED BY <3>1, <3>2
    <2>4. IsFiniteSet(Newly(Append(c, b)))
      BY FS_EmptySet, FS_Singleton DEF Newly
    <2>5. IsFiniteSet(Created(c) \cup Made(Range(b.txns))) BY <2>2, <2>3, FS_Union
    <2>6. IsFiniteSet(Created(c) \cup Made(Range(b.txns)) \cup Newly(Append(c, b)))
      BY <2>4, <2>5, FS_Union
    <2> QED BY <2>6, CreatedAppend
  <1> HIDE DEF T
  <1>3. \A c \in Seq(Blocks) : c \in T BY <1>1, <1>2, SeqInduction
  <1> QED BY <1>3 DEF T

(* What the wallet offers, of a finite set of transactions none of which makes *)
(* what it holds.                                                              *)
LimboMakes(owned, l) ==
  [i \in DOMAIN l |-> Keep(OutputsOf(l[i]), Owned(owned, Range(OutputsOf(l[i]))))]
LimboSpends(owned, l) == [i \in DOMAIN l |-> SetToSeq(Owned(owned, Txn[l[i]].ins))]

LEMMA MakesFacts ==
  ASSUME NEW owned, NEW L, L \subseteq Txns, NEW l \in Seq(L), IsInjective(l), Range(l) = L
  PROVE  /\ FlattenSeq(LimboMakes(owned, l)) \in Seq(OutputSet)
         /\ Range(FlattenSeq(LimboMakes(owned, l))) = Owned(owned, Made(L))
         /\ IsInjective(FlattenSeq(LimboMakes(owned, l)))
  <1> DEFINE p == LimboMakes(owned, l)
  <1>1. Len(l) \in Nat /\ DOMAIN l = 1 .. Len(l) /\ \A i \in 1 .. Len(l) : l[i] \in Txns OBVIOUS
  <1>2. DOMAIN p = 1 .. Len(l) BY <1>1 DEF LimboMakes
  <1>3. ASSUME NEW i \in 1 .. Len(l)
        PROVE  /\ p[i] \in Seq(OutputSet) /\ IsInjective(p[i])
               /\ Range(p[i]) = Owned(owned, Range(OutputsOf(l[i])))
    <2> DEFINE s == OutputsOf(l[i])
    <2>1. s \in Seq(OutputSet) /\ IsInjective(s) BY <1>1, OutputsFacts
    <2>2. p[i] = Keep(s, Owned(owned, Range(s))) BY <1>1 DEF LimboMakes
    <2>3. Owned(owned, Range(s)) \subseteq Range(s) BY DEF Owned
    <2> HIDE DEF s
    <2>4. /\ Keep(s, Owned(owned, Range(s))) \in Seq(OutputSet)
          /\ Range(Keep(s, Owned(owned, Range(s)))) = Range(s) \cap Owned(owned, Range(s))
          /\ IsInjective(Keep(s, Owned(owned, Range(s))))
      BY <2>1, KeepFacts
    <2>5. Range(s) \cap Owned(owned, Range(s)) = Owned(owned, Range(s)) BY <2>3
    <2>6. /\ p[i] \in Seq(OutputSet) /\ IsInjective(p[i]) /\ Range(p[i]) = Owned(owned, Range(s))
      BY <2>2, <2>4, <2>5
    <2> QED BY <2>6 DEF s
  <1>4. p \in Seq(Seq(OutputSet))
    <2>1. p = [i \in 1 .. Len(l) |-> p[i]] BY <1>1 DEF LimboMakes
    <2>2. \A i \in 1 .. Len(l) : p[i] \in Seq(OutputSet) BY <1>3
    <2> HIDE DEF p
    <2> QED BY <1>1, <2>1, <2>2
  <1>5. Apart(p)
    <2>1. ASSUME NEW i \in 1 .. Len(l), NEW j \in 1 .. Len(l), i # j
          PROVE  Range(p[i]) \cap Range(p[j]) = {}
      <3> SUFFICES ASSUME NEW o, o \in Range(p[i]), o \in Range(p[j]) PROVE FALSE OBVIOUS
      <3>1. o \in Range(OutputsOf(l[i])) /\ o \in Range(OutputsOf(l[j]))
        BY <1>3 DEF Owned
      <3>2. o.id[1] = l[i] BY <3>1, <1>1, OutputsFacts
      <3>3. o.id[1] = l[j] BY <3>1, <1>1, OutputsFacts
      <3> QED BY <2>1, <3>2, <3>3, <1>1 DEF IsInjective
    <2> QED BY <1>2, <1>3, <2>1 DEF Apart
  <1> HIDE DEF p
  <1>6. /\ Range(FlattenSeq(p)) = UNION {Range(p[i]) : i \in DOMAIN p}
        /\ IsInjective(FlattenSeq(p))
        /\ FlattenSeq(p) \in Seq(OutputSet)
    BY <1>4, <1>5, FlattenRange, FlattenType
  <1>7. UNION {Range(p[i]) : i \in DOMAIN p} = Owned(owned, Made(L))
    <2>1. ASSUME NEW o \in UNION {Range(p[i]) : i \in DOMAIN p} PROVE o \in Owned(owned, Made(L))
      <3>1. PICK i \in 1 .. Len(l) : o \in Range(p[i]) BY <1>2
      <3>2. o \in Range(OutputsOf(l[i])) /\ o.addr \in owned BY <3>1, <1>3 DEF Owned
      <3>3. l[i] \in L OBVIOUS
      <3> QED BY <3>2, <3>3 DEF Made, Owned
    <2>2. ASSUME NEW o \in Owned(owned, Made(L)) PROVE o \in UNION {Range(p[i]) : i \in DOMAIN p}
      <3>1. PICK t \in L : o \in Range(OutputsOf(t)) /\ o.addr \in owned BY DEF Made, Owned
      <3>2. PICK i \in 1 .. Len(l) : l[i] = t BY <1>1 DEF Range
      <3>3. o \in Range(p[i]) BY <3>1, <3>2, <1>3 DEF Owned
      <3> QED BY <3>3, <1>2
    <2> QED BY <2>1, <2>2
  <1> QED BY <1>6, <1>7 DEF p

LEMMA SpendsFacts ==
  ASSUME NEW owned, NEW L, L \subseteq Txns, NEW l \in Seq(L), Range(l) = L
  PROVE  /\ FlattenSeq(LimboSpends(owned, l)) \in Seq(OutputSet)
         /\ Range(FlattenSeq(LimboSpends(owned, l))) = Owned(owned, Spent(L))
  <1> DEFINE p == LimboSpends(owned, l)
  <1>1. Len(l) \in Nat /\ DOMAIN l = 1 .. Len(l) /\ \A i \in 1 .. Len(l) : l[i] \in Txns OBVIOUS
  <1>2. DOMAIN p = 1 .. Len(l) BY <1>1 DEF LimboSpends
  <1>3. ASSUME NEW i \in 1 .. Len(l)
        PROVE  p[i] \in Seq(OutputSet) /\ Range(p[i]) = Owned(owned, Txn[l[i]].ins)
    <2> DEFINE S == Owned(owned, Txn[l[i]].ins)
    <2>1. IsFiniteSet(Txn[l[i]].ins) /\ Txn[l[i]].ins \subseteq OutputSet BY <1>1, OutputsFacts
    <2>2. S \in SUBSET Txn[l[i]].ins BY DEF Owned
    <2>3. IsFiniteSet(S) /\ S \subseteq OutputSet BY <2>1, <2>2, FS_Subset
    <2>4. p[i] = SetToSeq(S) BY <1>1 DEF LimboSpends
    <2> HIDE DEF S
    <2>5. SetToSeq(S) \in Seq(S) /\ Range(SetToSeq(S)) = S BY <2>3, SetToSeqFacts
    <2>6. SetToSeq(S) \in Seq(OutputSet) BY <2>3, <2>5
    <2>7. p[i] \in Seq(OutputSet) /\ Range(p[i]) = S BY <2>4, <2>5, <2>6
    <2> QED BY <2>7 DEF S
  <1>4. p \in Seq(Seq(OutputSet))
    <2>1. p = [i \in 1 .. Len(l) |-> p[i]] BY <1>1 DEF LimboSpends
    <2>2. \A i \in 1 .. Len(l) : p[i] \in Seq(OutputSet) BY <1>3
    <2> HIDE DEF p
    <2> QED BY <1>1, <2>1, <2>2
  <1> HIDE DEF p
  <1>6. /\ Range(FlattenSeq(p)) = UNION {Range(p[i]) : i \in DOMAIN p}
        /\ FlattenSeq(p) \in Seq(OutputSet)
    BY <1>4, FlattenRange, FlattenType
  <1>7. UNION {Range(p[i]) : i \in DOMAIN p} = Owned(owned, Spent(L))
    <2>1. ASSUME NEW o \in UNION {Range(p[i]) : i \in DOMAIN p} PROVE o \in Owned(owned, Spent(L))
      <3>1. PICK i \in 1 .. Len(l) : o \in Range(p[i]) BY <1>2
      <3>2. o \in Txn[l[i]].ins /\ o.addr \in owned BY <3>1, <1>3 DEF Owned
      <3>3. l[i] \in L OBVIOUS
      <3> QED BY <3>2, <3>3 DEF Spent, Owned
    <2>2. ASSUME NEW o \in Owned(owned, Spent(L)) PROVE o \in UNION {Range(p[i]) : i \in DOMAIN p}
      <3>1. PICK t \in L : o \in Txn[t].ins /\ o.addr \in owned BY DEF Spent, Owned
      <3>2. PICK i \in 1 .. Len(l) : l[i] = t BY <1>1 DEF Range
      <3>3. o \in Range(p[i]) BY <3>1, <3>2, <1>3 DEF Owned
      <3> QED BY <3>3, <1>2
    <2> QED BY <2>1, <2>2
  <1> QED BY <1>6, <1>7 DEF p

LEMMA OfferedFacts ==
  ASSUME NEW owned, NEW L, L \subseteq Txns, NEW S, IsFiniteSet(L), IsFiniteSet(S),
         S \cap Made(L) = {}
  PROVE  LET offered == CalculateLimboOutputs(owned, SetToSeq(L), S)
         IN  /\ IsInjective(offered)
             /\ Range(offered) = (S \cup Owned(owned, Made(L))) \ Owned(owned, Spent(L))
  <1> DEFINE l == SetToSeq(L)
             p == FlattenSeq(LimboMakes(owned, l))
             q == FlattenSeq(LimboSpends(owned, l))
             s == SetToSeq(S)
             E == OutputSet \cup S
  <1>1. l \in Seq(L) /\ Range(l) = L /\ IsInjective(l) BY SetToSeqFacts
  <1>2. s \in Seq(S) /\ Range(s) = S /\ IsInjective(s) BY SetToSeqFacts
  <1> HIDE DEF l, s
  <1>3. p \in Seq(OutputSet) /\ Range(p) = Owned(owned, Made(L)) /\ IsInjective(p)
    BY <1>1, MakesFacts
  <1>4. q \in Seq(OutputSet) /\ Range(q) = Owned(owned, Spent(L)) BY <1>1, SpendsFacts
  <1>5. CalculateLimboOutputs(owned, l, S) = RemoveFirsts(s \o p, q)
    BY DEF CalculateLimboOutputs, WithLimbo, LimboMakes, LimboSpends, s
  <1> HIDE DEF p, q
  <1>6. OutputSet \subseteq E /\ S \subseteq E OBVIOUS
  <1> HIDE DEF E
  <1>7. s \in Seq(E) /\ p \in Seq(E) BY <1>2, <1>3, <1>6
  <1>8. Range(s) \cap Range(p) = {} BY <1>2, <1>3 DEF Owned
  <1>9. IsInjective(s \o p) BY <1>2, <1>3, <1>7, <1>8, InjectiveConcat
  <1>10. s \o p \in Seq(E) /\ Range(s \o p) = Range(s) \cup Range(p)
    BY <1>7, RangeConcatenation
  <1>11. RemoveFirsts(s \o p, q) = Without(s \o p, q) BY <1>4, <1>9, <1>10, RemovalsAgree
  <1>12. /\ Range(Without(s \o p, q)) = Range(s \o p) \ Range(q)
         /\ IsInjective(Without(s \o p, q))
    BY <1>9, <1>10, WithoutFacts
  <1> QED BY <1>2, <1>3, <1>4, <1>5, <1>10, <1>11, <1>12 DEF l

-----------------------------------------------------------------------------
(* As long as no address was removed, every transaction in limbo concerns the  *)
(* wallet, so that it leaves limbo with the change that confirms it.           *)
Apiece(L) == \A t, u \in L : t # u => Txn[t].ins \cap Txn[u].ins = {}

LimboInv ==
  ~removed =>
    /\ tainted = {}
    /\ IsFiniteSet(db.limbo) /\ db.limbo \subseteq Relevant(db.addrs)
    /\ Apiece(db.limbo)
    /\ db.limbo \cap Range(TxnsOf(Chain(db.ccid))) = {}

SpendInv == OutputsInv /\ LimboInv

LEMMA HoldsUnspent ==
  ASSUME SpendInv, ~removed
  PROVE  /\ db.outputs \subseteq Unspent(Chain(db.ccid))
         /\ db.outputs \cap Made(db.limbo) = {}
         /\ Created(Chain(db.ccid)) \cap Made(db.limbo) = {}
         /\ IsFiniteSet(db.outputs) /\ db.limbo \subseteq Txns
         /\ \A o \in db.outputs : o.addr \in db.addrs
  <1> DEFINE c == Chain(db.ccid)
             L == db.limbo
  <1>1. /\ tainted = {} /\ L \subseteq Relevant(db.addrs) /\ L \cap Range(TxnsOf(c)) = {}
    BY DEF SpendInv, LimboInv
  <1>2. L \subseteq Txns BY <1>1 DEF Relevant
  <1>3. known = db.addrs /\ \A o \in db.outputs : o.addr \in known
    BY <1>1 DEF SpendInv, OutputsInv, TrackedInv, HeldInv
  <1>4. ASSUME NEW o \in db.outputs PROVE o \in Unspent(c)
    <2>1. o \in Held(o.addr) /\ o.addr \in known \ tainted BY <1>1, <1>3 DEF Held
    <2>2. o \in Due(o.addr) BY <2>1 DEF SpendInv, OutputsInv, HeldInv
    <2> QED BY <2>2 DEF Due
  <1>5. ValidChain(c) /\ c \in Seq(Blocks)
    BY ChainType DEF SpendInv, OutputsInv, StoresInv, SharedInv
  <1> HIDE DEF c, L
  <1>6. Created(c) \cap Made(L) = {}
    <2> SUFFICES ASSUME NEW o \in Created(c), o \in Made(L) PROVE FALSE OBVIOUS
    <2>1. Range(TxnsOf(c)) \in SUBSET Txns
      <3>1. TxnsOf(c) \in Seq(Txns) BY <1>5, TxnsType
      <3> QED BY <3>1 DEF Range
    <2>2. o.id[1] \in L /\ o.id[1] # "payout" BY <1>2, MadeId
    <2> QED BY <2>1, <2>2, <1>1, MaturedId, MadeId DEF Created
  <1>7. Unspent(c) \in SUBSET Created(c) BY UnspentIs
  <1>8. IsFiniteSet(Created(c)) BY <1>5, CreatedFinite
  <1>9. db.outputs \in SUBSET Created(c) BY <1>4, <1>7
  <1>10. IsFiniteSet(db.outputs) BY <1>8, <1>9, FS_Subset
  <1> QED BY <1>2, <1>3, <1>4, <1>6, <1>9, <1>10 DEF c, L

LEMMA Offers ==
  ASSUME SpendInv, ~removed
  PROVE  /\ IsInjective(UnspentOutputs(db))
         /\ Range(UnspentOutputs(db))
              = (db.outputs \cup Owned(db.addrs, Made(db.limbo))) \ Spent(db.limbo)
  <1> DEFINE S == db.outputs
             L == db.limbo
             O == db.addrs
             offered == CalculateLimboOutputs(O, SetToSeq(L), S)
  <1>1. /\ S \cap Made(L) = {} /\ IsFiniteSet(S) /\ L \subseteq Txns /\ \A o \in S : o.addr \in O
    BY HoldsUnspent
  <1>2. IsFiniteSet(L) BY DEF SpendInv, LimboInv
  <1>3. UnspentOutputs(db) = offered BY DEF UnspentOutputs
  <1> HIDE DEF S, L, O
  <1>4. /\ IsInjective(offered)
        /\ Range(offered) = (S \cup Owned(O, Made(L))) \ Owned(O, Spent(L))
    BY <1>1, <1>2, OfferedFacts
  <1> HIDE DEF offered
  <1>5. (S \cup Owned(O, Made(L))) \ Owned(O, Spent(L)) = (S \cup Owned(O, Made(L))) \ Spent(L)
    BY <1>1 DEF Owned
  <1> QED BY <1>3, <1>4, <1>5 DEF S, L, O

LEMMA LimboInit == Init => LimboInv
  <1> SUFFICES ASSUME Init PROVE LimboInv OBVIOUS
  <1>1. db.limbo = {} /\ tainted = {} BY DEF Init, NewStore
  <1>2. IsFiniteSet({}) BY FS_EmptySet
  <1> QED BY <1>1, <1>2 DEF LimboInv, Apiece

LEMMA SameLimbo ==
  ASSUME SpendInv, db'.limbo \subseteq db.limbo, db.addrs \subseteq db'.addrs, tainted' = tainted,
         removed' = removed, Chain(db.ccid)' = Chain(db.ccid)
  PROVE  LimboInv'
  <1> SUFFICES ASSUME ~removed PROVE LimboInv' BY DEF LimboInv
  <1> DEFINE L == db.limbo
             M == db'.limbo
  <1>1. /\ tainted = {} /\ IsFiniteSet(L) /\ L \subseteq Relevant(db.addrs) /\ Apiece(L)
        /\ L \cap Range(TxnsOf(Chain(db.ccid))) = {}
    BY DEF SpendInv, LimboInv
  <1>2. IsFiniteSet(M)
    <2>1. M \in SUBSET L OBVIOUS
    <2> HIDE DEF L, M
    <2> QED BY <1>1, <2>1, FS_Subset
  <1>3. Relevant(db.addrs) \subseteq Relevant(db'.addrs) BY RelevantMore
  <1>4. M \subseteq Relevant(db'.addrs) BY <1>1, <1>3
  <1>5. Apiece(M) BY <1>1 DEF Apiece
  <1>6. M \cap Range(TxnsOf(Chain(db.ccid)')) = {} BY <1>1
  <1> QED BY <1>1, <1>2, <1>4, <1>5, <1>6 DEF LimboInv

(* A transaction that leaves the chain was not in limbo; one that comes onto   *)
(* it leaves limbo.                                                            *)
LEMMA DeliverLimbo ==
  ASSUME SpendInv, Deliver
  PROVE  LimboInv'
  <1>1. PICK n, k, r, b : Delivered(n, k, r, b) BY DeliverDoes DEF SpendInv, OutputsInv
  <1>2. tainted' = tainted /\ removed' = removed BY DEF Deliver
  <1> SUFFICES ASSUME ~removed PROVE LimboInv' BY <1>2 DEF LimboInv
  <1> DEFINE L == db.limbo
             M == db'.limbo
             O == db.addrs
             tk == Range(TxnsOf(k))
             tr == Range(TxnsOf(r))
             tb == Range(TxnsOf(b))
  <1>3. /\ Chain(db.ccid) = k \o r /\ Chain(db.ccid)' = k \o b /\ db'.addrs = O
        /\ M = L \ ((tr \cup tb) \cap Relevant(O))
    BY <1>1 DEF Delivered
  <1>4. Range(TxnsOf(k \o r)) = tk \cup tr /\ Range(TxnsOf(k \o b)) = tk \cup tb
    <2>1. Replaces(n, k, r, b) BY <1>1 DEF Delivered
    <2> QED BY <2>1, ReplacedTxns
  <1>5. /\ tainted = {} /\ IsFiniteSet(L) /\ L \subseteq Relevant(O) /\ Apiece(L)
        /\ L \cap (tk \cup tr) = {}
    BY <1>3, <1>4 DEF SpendInv, LimboInv
  <1> HIDE DEF L, M, O, tk, tr, tb
  <1>6. M \cap (tk \cup tb) = {} BY <1>3, <1>5
  <1>7. M \in SUBSET L BY <1>3
  <1>8. IsFiniteSet(M) BY <1>5, <1>7, FS_Subset
  <1>9. M \subseteq Relevant(O) /\ Apiece(M) BY <1>5, <1>7 DEF Apiece
  <1> QED BY <1>2, <1>3, <1>4, <1>5, <1>6, <1>8, <1>9 DEF LimboInv, M, O

(* A transaction that spends what is offered spends what no other one does, on *)
(* the chain or in limbo.                                                      *)
LEMMA AddLimbo ==
  ASSUME SpendInv, NEW t \in Txns, AddToLimbo(t)
  PROVE  LimboInv'
  <1> DEFINE L == db.limbo
             O == db.addrs
             I == Txn[t].ins
             c == Chain(db.ccid)
  <1>0. DOMAIN db = Fields BY DEF SpendInv, OutputsInv, StoresInv, SharedInv
  <1>1. /\ I # {} /\ I \subseteq Range(UnspentOutputs(db))
        /\ db' = [db EXCEPT !.limbo = L \cup {t}]
        /\ log' = log /\ tainted' = tainted /\ removed' = removed
    BY DEF AddToLimbo
  <1> SUFFICES ASSUME ~removed PROVE LimboInv' BY <1>1 DEF LimboInv
  <1>2. db'.limbo = L \cup {t} /\ db'.addrs = O /\ db'.ccid = db.ccid BY <1>0, <1>1 DEF Fields
  <1>3. Chain(db.ccid)' = c BY <1>1, <1>2, SameLog DEF SpendInv, OutputsInv
  <1>4. I \subseteq (db.outputs \cup Owned(O, Made(L))) \ Spent(L) BY <1>1, Offers
  <1>5. /\ tainted = {} /\ IsFiniteSet(L) /\ L \subseteq Relevant(O) /\ Apiece(L)
        /\ L \cap Range(TxnsOf(c)) = {}
    BY DEF SpendInv, LimboInv
  <1>6. /\ db.outputs \subseteq Unspent(c) /\ Created(c) \cap Made(L) = {}
        /\ \A o \in db.outputs : o.addr \in O
    BY HoldsUnspent
  <1>7. ValidChain(c) /\ c \in Seq(Blocks)
    BY ChainType DEF SpendInv, OutputsInv, StoresInv, SharedInv
  <1> HIDE DEF L, O, c
  <1>8. SpentOn(c) \subseteq Created(c) /\ Unspent(c) = Created(c) \ SpentOn(c)
    BY <1>7, SpentCreated, UnspentIs
  <1>9. t \notin Range(TxnsOf(c))
    <2> SUFFICES ASSUME t \in Range(TxnsOf(c)) PROVE FALSE OBVIOUS
    <2>1. I \subseteq SpentOn(c) BY DEF SpentOn, Spent
    <2>2. Owned(O, Made(L)) \subseteq Made(L) BY DEF Owned
    <2> HIDE DEF I
    <2> QED BY <1>1, <1>4, <1>6, <1>8, <2>1, <2>2
  <1>10. t \in Relevant(O)
    <2>1. PICK o \in I : TRUE BY <1>1
    <2>2. o.addr \in O BY <1>4, <1>6 DEF Owned
    <2>3. o.addr \in AddrsOf(t) BY <2>1 DEF AddrsOf
    <2> QED BY <2>2, <2>3 DEF Relevant, RelevantTransaction
  <1>11. Apiece(L \cup {t})
    <2>1. \A u \in L : I \cap Txn[u].ins = {} BY <1>4 DEF Spent
    <2> QED BY <2>1, <1>5 DEF Apiece
  <1>12. IsFiniteSet(L \cup {t}) BY <1>5, FS_AddElement
  <1>13. L \cup {t} \subseteq Relevant(O) BY <1>5, <1>10
  <1>14. (L \cup {t}) \cap Range(TxnsOf(c)) = {} BY <1>5, <1>9
  <1> QED BY <1>1, <1>2, <1>3, <1>5, <1>11, <1>12, <1>13, <1>14 DEF LimboInv

LEMMA ResetLimbo ==
  ASSUME SpendInv, Reset
  PROVE  LimboInv'
  <1>1. DOMAIN db = Fields BY DEF SpendInv, OutputsInv, StoresInv, SharedInv
  <1>2. /\ log' = log /\ removed' = removed /\ tainted' = known \ db.addrs BY DEF Reset
  <1>3. db'.limbo = db.limbo /\ db'.addrs = db.addrs /\ db'.ccid = 0 BY <1>1 DEF Reset, Fields
  <1> SUFFICES ASSUME ~removed PROVE LimboInv' BY <1>2 DEF LimboInv
  <1>4. /\ tainted = {} /\ IsFiniteSet(db.limbo) /\ db.limbo \subseteq Relevant(db.addrs)
        /\ Apiece(db.limbo)
    BY DEF SpendInv, LimboInv
  <1>5. tainted' = {} BY <1>2, <1>4 DEF SpendInv, OutputsInv, TrackedInv
  <1>6. Chain(0) = <<>> BY ChainZero DEF SpendInv, OutputsInv, StoresInv
  <1>7. Chain(db.ccid)' = <<>> BY <1>2, <1>3, <1>6 DEF Chain
  <1>8. Range(TxnsOf(Chain(db.ccid)')) = {} BY <1>7, TxnsNone, RangeEmpty
  <1> QED BY <1>3, <1>4, <1>5, <1>8 DEF LimboInv

LEMMA StepSpend == SpendInv /\ [Next]_vars => SpendInv'
  <1> SUFFICES ASSUME SpendInv, [Next]_vars PROVE SpendInv' OBVIOUS
  <1>0. OutputsInv' BY StepOutputs DEF SpendInv
  <1> SUFFICES LimboInv' BY <1>0 DEF SpendInv
  <1>1. ASSUME NEW revert \in 0 .. MaxReorg, Mine(revert) PROVE LimboInv'
    <2>1. revert \in Nat BY WalletAssumption
    <2>2. PICK c \in Changes : log' = Append(log, c)
      BY <1>1, <2>1, LogMine DEF SpendInv, OutputsInv, StoresInv
    <2>3. UNCHANGED <<mem, db, hot, history>> BY <1>1 DEF Mine
    <2>4. log \in Seq(Changes) /\ db.ccid \in 0 .. Len(log)
      BY DEF SpendInv, OutputsInv, StoresInv, LogInv, LogOK, SharedInv
    <2>5. Chain(db.ccid)' = Chain(db.ccid) BY <2>2, <2>3, <2>4, PrefixOfAppend DEF Chain
    <2> QED BY <2>3, <2>5, SameLimbo DEF history
  <1>2. CASE Deliver BY <1>2, DeliverLimbo
  <1>3. ASSUME NEW t \in DOMAIN Txn, AddToLimbo(t) PROVE LimboInv' BY <1>3, AddLimbo DEF Txns
  <1>4. ASSUME NEW t \in DOMAIN Txn, RemoveFromLimbo(t) PROVE LimboInv'
    <2>1. DOMAIN db = Fields BY DEF SpendInv, OutputsInv, StoresInv, SharedInv
    <2>2. /\ db' = [db EXCEPT !.limbo = db.limbo \ {t}]
          /\ log' = log /\ tainted' = tainted /\ removed' = removed
      BY <1>4 DEF RemoveFromLimbo
    <2>3. db'.limbo = db.limbo \ {t} /\ db'.addrs = db.addrs /\ db'.ccid = db.ccid
      BY <2>1, <2>2 DEF Fields
    <2>4. Chain(db.ccid)' = Chain(db.ccid) BY <2>2, <2>3, SameLog DEF SpendInv, OutputsInv
    <2> QED BY <2>2, <2>3, <2>4, SameLimbo
  <1>5. ASSUME NEW i, Track(i) PROVE LimboInv'
    <2>1. db'.addrs = db.addrs \cup {i} /\ SameRest BY <1>5, TrackStores DEF SpendInv, OutputsInv
    <2>2. db'.limbo = db.limbo /\ db'.ccid = db.ccid BY <2>1 DEF SameRest
    <2>3. log' = log /\ tainted' = tainted /\ removed' = removed BY <1>5 DEF Track
    <2>4. Chain(db.ccid)' = Chain(db.ccid) BY <2>2, <2>3, SameLog DEF SpendInv, OutputsInv
    <2> QED BY <2>1, <2>2, <2>3, <2>4, SameLimbo
  <1>6. ASSUME NEW i \in Addr, RemoveAddress(i) PROVE LimboInv'
    BY <1>6 DEF RemoveAddress, LimboInv
  <1>7. ASSUME NEW th \in Threads, NextBegin(th) PROVE LimboInv'
    <2>1. UNCHANGED <<log, db, tainted, removed>> BY <1>7 DEF NextBegin
    <2>2. Chain(db.ccid)' = Chain(db.ccid) BY <2>1, SameLog DEF SpendInv, OutputsInv
    <2> QED BY <2>1, <2>2, SameLimbo
  <1>8. CASE Reset BY <1>8, ResetLimbo
  <1>9. CASE UNCHANGED vars
    <2>1. UNCHANGED <<log, db, tainted, removed>> BY <1>9 DEF vars, history
    <2>2. Chain(db.ccid)' = Chain(db.ccid) BY <2>1, SameLog DEF SpendInv, OutputsInv
    <2> QED BY <2>1, <2>2, SameLimbo
  <1> QED BY <1>1, <1>2, <1>3, <1>4, <1>5, <1>6, <1>7, <1>8, <1>9 DEF Next, AddAddress, NextEnd

(* CalculateLimboOutputs (wallet.go:286) offers each output once, and none    *)
(* that a transaction in limbo spends: callers who spend what is offered sign *)
(* no double spend, and ApplyConsensusChange takes what is confirmed out of   *)
(* limbo.                                                                     *)
THEOREM SpendsOnce == Spec => []LimboSpendsOnce
  <1>1. Init => SpendInv BY OutputsInit, LimboInit DEF SpendInv
  <1>2. Spec => []SpendInv BY <1>1, StepSpend, PTL DEF Spec
  <1>3. SpendInv => LimboSpendsOnce
    <2> SUFFICES ASSUME SpendInv, ~removed PROVE LimboSpendsOnce BY DEF LimboSpendsOnce
    <2>1. /\ \A t, u \in db.limbo : t # u => Txn[t].ins \cap Txn[u].ins = {}
          /\ db.limbo \cap Range(TxnsOf(Chain(db.ccid))) = {}
      BY DEF SpendInv, LimboInv, Apiece
    <2>2. /\ IsInjective(UnspentOutputs(db))
          /\ Range(UnspentOutputs(db))
               = (db.outputs \cup Owned(db.addrs, Made(db.limbo))) \ Spent(db.limbo)
      BY Offers
    <2> QED BY <2>1, <2>2 DEF LimboSpendsOnce, Made, Spent
  <1> QED BY <1>2, <1>3, PTL

-----------------------------------------------------------------------------
(* History.  Lists of a chain are those of its parts, one after the other.     *)
LEMMA WithoutTail ==
  ASSUME NEW E, NEW p \in Seq(E), NEW q \in Seq(E), NEW xs,
         Range(p) \cap Range(xs) = {}, Range(q) \subseteq Range(xs)
  PROVE  Without(p \o q, xs) = p
  <1> DEFINE Z == Range(p \o q) \ Range(xs)
  <1>1. Range(p \o q) = Range(p) \cup Range(q) BY RangeConcatenation
  <1>2. Range(p) \subseteq Z /\ Range(q) \cap Z = {} BY <1>1
  <1>3. Without(p \o q, xs) = Keep(p \o q, Z) BY DEF Without
  <1> HIDE DEF Z
  <1> QED BY <1>2, <1>3, KeepStart

LEMMA ConcatFacts ==
  ASSUME NEW E, NEW q \in Seq(E), NEW r \in Seq(E)
  PROVE  /\ q \o r \in Seq(E) /\ Len(q \o r) = Len(q) + Len(r)
         /\ \A i \in 1 .. Len(q) : (q \o r)[i] = q[i]
         /\ \A i \in 1 .. Len(r) : (q \o r)[Len(q) + i] = r[i]
  OBVIOUS

LEMMA ConcatIs ==
  ASSUME NEW E, NEW p \in Seq(E), NEW q \in Seq(E), NEW r \in Seq(E),
         Len(p) = Len(q) + Len(r),
         \A i \in 1 .. Len(q) : p[i] = q[i],
         \A i \in 1 .. Len(r) : p[Len(q) + i] = r[i]
  PROVE  p = q \o r
  <1>1. Len(q) \in Nat /\ Len(r) \in Nat OBVIOUS
  <1>2. q \o r \in Seq(E) /\ Len(q \o r) = Len(p) BY ConcatFacts
  <1>3. ASSUME NEW i \in 1 .. Len(p) PROVE p[i] = (q \o r)[i]
    <2>1. CASE i <= Len(q)
      <3>1. i \in 1 .. Len(q) BY <2>1, <1>1
      <3> QED BY <3>1, ConcatFacts
    <2>2. CASE ~(i <= Len(q))
      <3> DEFINE j == i - Len(q)
      <3>1. j \in 1 .. Len(r) /\ i = Len(q) + j BY <2>2, <1>1
      <3> HIDE DEF j
      <3>2. (q \o r)[Len(q) + j] = r[j] BY <3>1, ConcatFacts
      <3> QED BY <3>1, <3>2
    <2> QED BY <2>1, <2>2
  <1> DEFINE w == q \o r
  <1>4. w \in Seq(E) /\ Len(w) = Len(p) /\ \A i \in 1 .. Len(p) : p[i] = w[i] BY <1>2, <1>3
  <1> HIDE DEF w
  <1>5. p = w BY <1>4, SeqEqual
  <1> QED BY <1>5 DEF w

Paid(O) == {b \in Blocks : b.payout \in O}
PayoutSeq(s) == [i \in DOMAIN s |-> Payout(s[i])]

LEMMA RewardsOf ==
  ASSUME NEW bs \in Seq(Blocks), NEW O
  PROVE  /\ processMinerPayouts(bs, O) = PayoutSeq(Keep(bs, Paid(O)))
         /\ Keep(bs, Paid(O)) \in Seq(Blocks)
  <1> DEFINE A == {b \in Range(bs) : b.payout \in O}
  <1>1. Range(bs) \subseteq Blocks BY DEF Range
  <1>2. Range(bs) \cap A = Range(bs) \cap Paid(O) BY <1>1 DEF Paid
  <1>3. processMinerPayouts(bs, O) = PayoutSeq(Keep(bs, A)) BY DEF processMinerPayouts, PayoutSeq
  <1> HIDE DEF A
  <1>4. Keep(bs, A) = Keep(bs, Paid(O)) BY <1>2, KeepSame
  <1> QED BY <1>3, <1>4, KeepFacts

LEMMA PayoutSeqFacts ==
  ASSUME NEW s \in Seq(Blocks)
  PROVE  /\ PayoutSeq(s) \in Seq(Payouts)
         /\ Len(PayoutSeq(s)) = Len(s)
         /\ \A i \in 1 .. Len(s) : PayoutSeq(s)[i] = Payout(s[i])
  <1>1. Len(s) \in Nat /\ DOMAIN s = 1 .. Len(s) OBVIOUS
  <1>2. \A i \in 1 .. Len(s) : Payout(s[i]) \in Payouts BY DEF Payouts
  <1> QED BY <1>1, <1>2 DEF PayoutSeq

LEMMA PayoutSeqConcat ==
  ASSUME NEW s \in Seq(Blocks), NEW t \in Seq(Blocks)
  PROVE  PayoutSeq(s \o t) = PayoutSeq(s) \o PayoutSeq(t)
  <1> DEFINE u == s \o t
  <1>1. /\ u \in Seq(Blocks) /\ Len(u) = Len(s) + Len(t)
        /\ \A i \in 1 .. Len(s) : u[i] = s[i]
        /\ \A i \in 1 .. Len(t) : u[Len(s) + i] = t[i]
    BY ConcatFacts
  <1> HIDE DEF u
  <1>2. Len(s) \in Nat /\ Len(t) \in Nat OBVIOUS
  <1>3. \A i \in 1 .. Len(s) : i \in 1 .. Len(u) BY <1>1, <1>2
  <1>4. \A i \in 1 .. Len(t) : Len(s) + i \in 1 .. Len(u) BY <1>1, <1>2
  <1>5. /\ PayoutSeq(u) \in Seq(Payouts) /\ Len(PayoutSeq(u)) = Len(s) + Len(t)
        /\ \A i \in 1 .. Len(u) : PayoutSeq(u)[i] = Payout(u[i])
    BY <1>1, PayoutSeqFacts
  <1>6. /\ PayoutSeq(s) \in Seq(Payouts) /\ Len(PayoutSeq(s)) = Len(s)
        /\ PayoutSeq(t) \in Seq(Payouts) /\ Len(PayoutSeq(t)) = Len(t)
    BY PayoutSeqFacts
  <1>7. \A i \in 1 .. Len(s) : PayoutSeq(u)[i] = PayoutSeq(s)[i] BY <1>1, <1>3, <1>5, PayoutSeqFacts
  <1>8. \A i \in 1 .. Len(t) : PayoutSeq(u)[Len(s) + i] = PayoutSeq(t)[i]
    BY <1>1, <1>4, <1>5, PayoutSeqFacts
  <1> DEFINE p == PayoutSeq(u)
             q == PayoutSeq(s)
             r == PayoutSeq(t)
  <1>9. p \in Seq(Payouts) BY <1>5
  <1>10. q \in Seq(Payouts) BY <1>6
  <1>11. r \in Seq(Payouts) BY <1>6
  <1>12. Len(p) = Len(q) + Len(r) BY <1>5, <1>6
  <1>13. \A i \in 1 .. Len(q) : p[i] = q[i] BY <1>6, <1>7
  <1>14. \A i \in 1 .. Len(r) : p[Len(q) + i] = r[i] BY <1>6, <1>8
  <1> HIDE DEF p, q, r
  <1>15. p = q \o r BY <1>9, <1>10, <1>11, <1>12, <1>13, <1>14, ConcatIs
  <1> QED BY <1>15 DEF u, p, q, r

LEMMA RewardsConcat ==
  ASSUME NEW k \in Seq(Blocks), NEW r \in Seq(Blocks), NEW O
  PROVE  processMinerPayouts(k \o r, O) = processMinerPayouts(k, O) \o processMinerPayouts(r, O)
  <1>1. k \o r \in Seq(Blocks) OBVIOUS
  <1>2. Keep(k \o r, Paid(O)) = Keep(k, Paid(O)) \o Keep(r, Paid(O)) BY KeepConcat2
  <1>3. Keep(k, Paid(O)) \in Seq(Blocks) /\ Keep(r, Paid(O)) \in Seq(Blocks) BY RewardsOf
  <1>4. PayoutSeq(Keep(k, Paid(O)) \o Keep(r, Paid(O)))
          = PayoutSeq(Keep(k, Paid(O))) \o PayoutSeq(Keep(r, Paid(O)))
    BY <1>3, PayoutSeqConcat
  <1>5. processMinerPayouts(k \o r, O) = PayoutSeq(Keep(k \o r, Paid(O))) BY <1>1, RewardsOf
  <1>6. processMinerPayouts(k, O) = PayoutSeq(Keep(k, Paid(O))) BY RewardsOf
  <1>7. processMinerPayouts(r, O) = PayoutSeq(Keep(r, Paid(O))) BY RewardsOf
  <1> QED BY <1>2, <1>4, <1>5, <1>6, <1>7

ContractParts(ts, O) == [i \in DOMAIN ts |-> relevantFileContract(ts[i], O)]
ContractSeq(ts, O) == FlattenSeq(ContractParts(ts, O))

LEMMA PartsFacts ==
  ASSUME NEW ts \in Seq(Txns), NEW O
  PROVE  /\ ContractParts(ts, O) \in Seq(Seq(Revisions)) /\ Len(ContractParts(ts, O)) = Len(ts)
         /\ \A i \in 1 .. Len(ts) : ContractParts(ts, O)[i] = relevantFileContract(ts[i], O)
  <1>1. \A i \in 1 .. Len(ts) : relevantFileContract(ts[i], O) \in Seq(Revisions) BY FilterContract
  <1>2. Len(ts) \in Nat /\ DOMAIN ts = 1 .. Len(ts) OBVIOUS
  <1> QED BY <1>1, <1>2 DEF ContractParts

LEMMA ContractsConcat ==
  ASSUME NEW s \in Seq(Txns), NEW t \in Seq(Txns), NEW O
  PROVE  ContractSeq(s \o t, O) = ContractSeq(s, O) \o ContractSeq(t, O)
  <1> DEFINE u == s \o t
             P(x) == ContractParts(x, O)
  <1>1. /\ u \in Seq(Txns) /\ Len(u) = Len(s) + Len(t)
        /\ \A i \in 1 .. Len(s) : u[i] = s[i]
        /\ \A i \in 1 .. Len(t) : u[Len(s) + i] = t[i]
    BY ConcatFacts
  <1> HIDE DEF u, P
  <1>2. Len(s) \in Nat /\ Len(t) \in Nat OBVIOUS
  <1>3. \A i \in 1 .. Len(s) : i \in 1 .. Len(u) BY <1>1, <1>2
  <1>4. \A i \in 1 .. Len(t) : Len(s) + i \in 1 .. Len(u) BY <1>1, <1>2
  <1>0. \A x \in Seq(Txns) : /\ P(x) \in Seq(Seq(Revisions)) /\ Len(P(x)) = Len(x)
                             /\ \A i \in 1 .. Len(x) : P(x)[i] = relevantFileContract(x[i], O)
    BY PartsFacts DEF P
  <1>5. /\ P(u) \in Seq(Seq(Revisions)) /\ Len(P(u)) = Len(s) + Len(t)
        /\ \A i \in 1 .. Len(u) : P(u)[i] = relevantFileContract(u[i], O)
    BY <1>1, <1>0
  <1>6. P(s) \in Seq(Seq(Revisions)) /\ Len(P(s)) = Len(s)
        /\ \A i \in 1 .. Len(s) : P(s)[i] = relevantFileContract(s[i], O)
    BY <1>0
  <1>10. P(t) \in Seq(Seq(Revisions)) /\ Len(P(t)) = Len(t)
        /\ \A i \in 1 .. Len(t) : P(t)[i] = relevantFileContract(t[i], O)
    BY <1>0
  <1>7. \A i \in 1 .. Len(s) : P(u)[i] = P(s)[i] BY <1>1, <1>3, <1>5, <1>6
  <1>8. \A i \in 1 .. Len(t) : P(u)[Len(s) + i] = P(t)[i] BY <1>1, <1>4, <1>5, <1>10
  <1> DEFINE p == P(u)
             q == P(s)
             r == P(t)
             E == Seq(Revisions)
  <1>12. p \in Seq(E) BY <1>5
  <1>13. q \in Seq(E) BY <1>6
  <1>14. r \in Seq(E) BY <1>10
  <1>15. Len(p) = Len(q) + Len(r) BY <1>5, <1>6, <1>10
  <1>16. \A i \in 1 .. Len(q) : p[i] = q[i] BY <1>6, <1>7
  <1>17. \A i \in 1 .. Len(r) : p[Len(q) + i] = r[i] BY <1>6, <1>8, <1>10
  <1> HIDE DEF p, q, r, E
  <1>18. p = q \o r BY <1>12, <1>13, <1>14, <1>15, <1>16, <1>17, ConcatIs
  <1>9. P(u) = P(s) \o P(t) BY <1>18 DEF p, q, r
  <1>11. FlattenSeq(P(s) \o P(t)) = FlattenSeq(P(s)) \o FlattenSeq(P(t))
    BY <1>6, <1>10, FlattenConcat
  <1> QED BY <1>9, <1>11 DEF u, P, ContractSeq

ContractsOn(c, O) == ContractSeq(Keep(TxnsOf(c), Relevant(O)), O)

LEMMA ContractsOnFacts ==
  ASSUME NEW c \in Seq(Blocks), NEW O, NEW next, NEW outs
  PROVE  processBlocks(c, O, next, outs).contracts = ContractsOn(c, O)
  <1>1. Relevant(O) = {t \in DOMAIN Txn : RelevantTransaction(O, t)} BY DEF Relevant, Txns
  <1> QED BY <1>1 DEF processBlocks, ContractsOn, ContractSeq, ContractParts

LEMMA ContractsOnConcat ==
  ASSUME NEW k \in Seq(Blocks), NEW r \in Seq(Blocks), NEW O
  PROVE  ContractsOn(k \o r, O) = ContractsOn(k, O) \o ContractsOn(r, O)
  <1>1. TxnsOf(k \o r) = TxnsOf(k) \o TxnsOf(r) /\ TxnsOf(k) \in Seq(Txns) /\ TxnsOf(r) \in Seq(Txns)
    BY TxnsConcat, TxnsType
  <1> DEFINE S == Relevant(O)
             p == Keep(TxnsOf(k), S)
             q == Keep(TxnsOf(r), S)
  <1>2. p \in Seq(Txns) /\ q \in Seq(Txns) BY <1>1, KeepFacts
  <1>3. Keep(TxnsOf(k) \o TxnsOf(r), S) = p \o q BY <1>1, KeepConcat2
  <1> HIDE DEF p, q
  <1>4. ContractSeq(p \o q, O) = ContractSeq(p, O) \o ContractSeq(q, O) BY <1>2, ContractsConcat
  <1> QED BY <1>1, <1>3, <1>4 DEF ContractsOn, p, q

-----------------------------------------------------------------------------
(* Heights.                                                                    *)
LEMMA Once ==
  ASSUME NEW c, ValidChain(c), NEW i \in 1 .. Len(c), NEW h \in 1 .. Len(c), NEW t,
         t \in Range(c[i].txns), t \in Range(c[h].txns)
  PROVE  i = h
  <1>0. c \in Seq(Blocks) /\ Len(c) \in Nat BY DEF ValidChain
  <1>1. ASSUME NEW a \in 1 .. Len(c), NEW b \in 1 .. Len(c), a < b,
               t \in Range(c[a].txns), t \in Range(c[b].txns)
        PROVE  FALSE
    <2> DEFINE p == SubSeq(c, 1, b - 1)
    <2>1. p \in Seq(Blocks) /\ Len(p) = b - 1 BY <1>0, PrefixAppend
    <2>2. a \in 1 .. b - 1 BY <1>1, <1>0
    <2>3. p[a] = c[a] BY <2>2, <1>0
    <2>4. Mined(p, c[b]) BY DEF ValidChain
    <2> HIDE DEF p
    <2>5. PICK u \in Txns : c[b].txns = <<u>> /\ MinedTxn(p, u)
      <3>1. c[b].txns # <<>> BY <1>1, RangeEmpty
      <3> QED BY <2>4, <3>1 DEF Mined
    <2>6. t = u BY <1>1, <2>5, Singleton
    <2>7. t \notin TxnsIn(p) BY <2>1, <2>5, <2>6, TxnsType DEF MinedTxn
    <2>8. p[a] \in Range(p) BY <2>1, <2>2 DEF Range
    <2> QED BY <1>1, <2>3, <2>7, <2>8 DEF TxnsIn
  <1>2. i < h \/ i = h \/ h < i BY <1>0
  <1> QED BY <1>1, <1>2

LEMMA MinOne == ASSUME NEW n \in Int PROVE Min({n}) = n /\ Max({n}) = n
  BY DEF Min, Max

LEMMA HeightIs ==
  ASSUME NEW c, ValidChain(c), NEW h \in 1 .. Len(c), NEW t, t \in Range(c[h].txns)
  PROVE  HeightOf(t, c) = h - 1
  <1>1. {i \in 1 .. Len(c) : t \in Range(c[i].txns)} = {h} BY Once
  <1>2. h \in Int BY DEF ValidChain
  <1>3. SelectInSeq(c, LAMBDA b : t \in Range(b.txns)) = Min({h}) BY <1>1 DEF SelectInSeq
  <1> QED BY <1>2, <1>3, MinOne DEF HeightOf

LEMMA BlockOf ==
  ASSUME NEW c \in Seq(Blocks), NEW t \in Range(TxnsOf(c))
  PROVE  \E h \in 1 .. Len(c) : t \in Range(c[h].txns)
  <1>1. t \in TxnsIn(c) BY TxnsType
  <1> QED BY <1>1 DEF TxnsIn, Range

(* The heights that are recorded are those of the blocks from next on.         *)
HeightParts(bs, S, next) == [i \in DOMAIN bs |-> [j \in DOMAIN Keep(bs[i].txns, S) |-> next + i - 1]]
HeightsMatch(bs, S, next) ==
  LET hs == FlattenSeq(HeightParts(bs, S, next))
      ts == Keep(TxnsOf(bs), S)
  IN  /\ hs \in Seq(Int) /\ Len(hs) = Len(ts) /\ ts \in Seq(Txns)
      /\ \A j \in 1 .. Len(ts) : \E i \in 1 .. Len(bs) :
           ts[j] \in Range(bs[i].txns) /\ hs[j] = next + i - 1

LEMMA HeightPartsAppend ==
  ASSUME NEW bs \in Seq(Blocks), NEW x \in Blocks, NEW S, NEW next \in Int
  PROVE  LET last == [j \in DOMAIN Keep(x.txns, S) |-> next + Len(bs)]
         IN  /\ HeightParts(bs, S, next) \in Seq(Seq(Int))
             /\ last \in Seq(Int) /\ Len(last) = Len(Keep(x.txns, S))
             /\ HeightParts(Append(bs, x), S, next) = Append(HeightParts(bs, S, next), last)
  <1> DEFINE n == Len(bs)
             e == Append(bs, x)
             K == Keep(x.txns, S)
             last == [j \in DOMAIN K |-> next + n]
             p == HeightParts(bs, S, next)
             q == HeightParts(e, S, next)
  <1>1. n \in Nat /\ DOMAIN bs = 1 .. n OBVIOUS
  <1>2. e \in Seq(Blocks) /\ Len(e) = n + 1 /\ DOMAIN e = 1 .. n + 1 OBVIOUS
  <1>3. e[n + 1] = x /\ \A i \in 1 .. n : e[i] = bs[i] OBVIOUS
  <1>4. ASSUME NEW b \in Blocks PROVE Keep(b.txns, S) \in Seq(Txns)
    <2>1. b.txns \in Seq(Txns) BY DEF Blocks
    <2> QED BY <2>1, KeepFacts
  <1>5. \A b \in Blocks, m \in Int :
          /\ [j \in DOMAIN Keep(b.txns, S) |-> m] \in Seq(Int)
          /\ Len([j \in DOMAIN Keep(b.txns, S) |-> m]) = Len(Keep(b.txns, S))
    BY <1>4
  <1>6. p \in Seq(Seq(Int)) /\ Len(p) = n
        /\ \A i \in 1 .. n : p[i] = [j \in DOMAIN Keep(bs[i].txns, S) |-> next + i - 1]
    <2>1. \A i \in 1 .. n : bs[i] \in Blocks /\ next + i - 1 \in Int OBVIOUS
    <2>2. \A i \in 1 .. n : [j \in DOMAIN Keep(bs[i].txns, S) |-> next + i - 1] \in Seq(Int)
      BY <1>5, <2>1
    <2> QED BY <1>1, <2>2 DEF HeightParts
  <1>7. last \in Seq(Int) /\ Len(last) = Len(K) BY <1>1, <1>5
  <1>8. Len(q) = n + 1 /\ DOMAIN q = 1 .. n + 1
        /\ \A i \in 1 .. n + 1 : q[i] = [j \in DOMAIN Keep(e[i].txns, S) |-> next + i - 1]
    BY <1>1, <1>2 DEF HeightParts
  <1>9. \A i \in 1 .. n : q[i] = p[i]
    <2>1. \A i \in 1 .. n : i \in 1 .. n + 1 BY <1>1
    <2> QED BY <2>1, <1>3, <1>6, <1>8
  <1>10. q[n + 1] = last
    <2>1. n + 1 \in 1 .. n + 1 /\ next + (n + 1) - 1 = next + n BY <1>1
    <2> QED BY <2>1, <1>3, <1>8
  <1>11. q = [i \in 1 .. n + 1 |-> q[i]] BY <1>2 DEF HeightParts
  <1> HIDE DEF p, q, last, e, n
  <1>14. p \in Seq(Seq(Int)) BY <1>6
  <1>15. Len(p) = n BY <1>6
  <1>16. last \in Seq(Int) BY <1>7
  <1> DEFINE w == Append(p, last)
  <1>17. /\ w \in Seq(Seq(Int)) /\ Len(w) = n + 1
         /\ \A i \in 1 .. n : w[i] = p[i]
         /\ w[n + 1] = last
    BY <1>14, <1>15, <1>16, AppendProperties
  <1> HIDE DEF w
  <1>13. q = w
    <2>1. \A i \in 1 .. n + 1 : i \in 1 .. n \/ i = n + 1 BY <1>1
    <2>2. \A i \in 1 .. n + 1 : q[i] = w[i] BY <1>9, <1>10, <1>17, <2>1
    <2>3. \A i \in 1 .. n + 1 : q[i] \in Seq(Int) BY <1>17, <2>2
    <2>4. q \in Seq(Seq(Int))
      <3>1. q \in [1 .. n + 1 -> Seq(Int)] BY <1>11, <2>3
      <3>2. n + 1 \in Nat BY <1>1
      <3> QED BY <3>1, <3>2, SeqDef
    <2> QED BY <1>8, <1>17, <2>2, <2>4, SeqEqual
  <1> QED BY <1>6, <1>7, <1>13 DEF p, q, w, last, e, n

LEMMA HeightsMatched ==
  ASSUME NEW S, NEW next \in Int
  PROVE  \A bs \in Seq(Blocks) : HeightsMatch(bs, S, next)
  <1> DEFINE T == {bs \in Seq(Blocks) : HeightsMatch(bs, S, next)}
  <1>1. <<>> \in T
    <2>1. <<>> \in Seq(Blocks) /\ <<>> \in Seq(Seq(Int)) /\ <<>> \in Seq(Int) /\ <<>> \in Seq(Txns)
          /\ Len(<<>>) = 0
      OBVIOUS
    <2>2. HeightParts(<<>>, S, next) = <<>> BY DEF HeightParts
    <2>3. FlattenSeq(HeightParts(<<>>, S, next)) = <<>> BY <2>1, <2>2, FlattenAppend
    <2>4. <<>> \in Seq(Txns) OBVIOUS
    <2>5. PICK u \in Txns : TRUE BY WalletAssumption DEF Txns
    <2>6. Keep(TxnsOf(<<>>), S) = <<>> BY <2>4, <2>5, TxnsNone, KeepAppend
    <2>8. \A j \in 1 .. Len(<<>>) : \E i \in 1 .. Len(<<>>) :
             <<>>[j] \in Range(<<>>[i].txns) /\ <<>>[j] = next + i - 1
      BY <2>1
    <2>7. HeightsMatch(<<>>, S, next)
      <3> DEFINE hs == FlattenSeq(HeightParts(<<>>, S, next))
                 ts == Keep(TxnsOf(<<>>), S)
      <3>1. hs = <<>> /\ ts = <<>> BY <2>3, <2>6
      <3> HIDE DEF hs, ts
      <3>2. hs \in Seq(Int) BY <3>1, <2>1
      <3>3. ts \in Seq(Txns) BY <3>1, <2>1
      <3>4. Len(hs) = Len(ts) /\ Len(ts) = 0 BY <3>1, <2>1
      <3>5. 1 .. Len(ts) = {} BY <3>4
      <3> QED BY <3>2, <3>3, <3>4, <3>5 DEF HeightsMatch, hs, ts
    <2> QED BY <2>1, <2>7
  <1>2. ASSUME NEW bs \in Seq(Blocks), NEW x \in Blocks, bs \in T PROVE Append(bs, x) \in T
    <2> DEFINE last == [j \in DOMAIN Keep(x.txns, S) |-> next + Len(bs)]
               hs == FlattenSeq(HeightParts(bs, S, next))
               ts == Keep(TxnsOf(bs), S)
               ws == Keep(x.txns, S)
               n == Len(bs)
               e == Append(bs, x)
    <2>1. /\ HeightParts(bs, S, next) \in Seq(Seq(Int))
          /\ last \in Seq(Int) /\ Len(last) = Len(ws)
          /\ HeightParts(e, S, next) = Append(HeightParts(bs, S, next), last)
      BY HeightPartsAppend
    <2>2. FlattenSeq(HeightParts(e, S, next)) = hs \o last BY <2>1, FlattenAppend
    <2>3. /\ TxnsOf(e) = TxnsOf(bs) \o x.txns /\ x.txns \in Seq(Txns) /\ TxnsOf(bs) \in Seq(Txns)
      BY TxnsAppend
    <2>4. Keep(TxnsOf(e), S) = ts \o ws BY <2>3, KeepConcat2
    <2>5. ts \in Seq(Txns) /\ ws \in Seq(Txns) /\ Range(ws) \subseteq Range(x.txns)
      BY <2>3, KeepFacts
    <2>6. /\ hs \in Seq(Int) /\ Len(hs) = Len(ts)
          /\ \A j \in 1 .. Len(ts) : \E i \in 1 .. n : ts[j] \in Range(bs[i].txns) /\ hs[j] = next + i - 1
      BY <1>2 DEF HeightsMatch
    <2>7. \A j \in 1 .. Len(ws) : last[j] = next + n BY <2>5
    <2>8. /\ n \in Nat /\ e \in Seq(Blocks) /\ Len(e) = n + 1
          /\ e[n + 1] = x /\ \A i \in 1 .. n : e[i] = bs[i]
      OBVIOUS
    <2> HIDE DEF last, hs, ts, ws, n, e
    <2>14. hs \in Seq(Int) BY <2>6
    <2>15. last \in Seq(Int) BY <2>1
    <2>16. Len(hs) = Len(ts) /\ Len(last) = Len(ws) BY <2>1, <2>6
    <2>17. /\ hs \o last \in Seq(Int) /\ Len(hs \o last) = Len(hs) + Len(last)
           /\ \A i \in 1 .. Len(hs) : (hs \o last)[i] = hs[i]
           /\ \A i \in 1 .. Len(last) : (hs \o last)[Len(hs) + i] = last[i]
      BY <2>14, <2>15, ConcatFacts
    <2>9. hs \o last \in Seq(Int) /\ Len(hs \o last) = Len(hs) + Len(last) BY <2>17
    <2>10. ts \o ws \in Seq(Txns) /\ Len(ts \o ws) = Len(ts) + Len(ws) BY <2>5
    <2>11. Len(ts) \in Nat /\ Len(ws) \in Nat BY <2>5
    <2>12. ASSUME NEW j \in 1 .. Len(ts) + Len(ws)
           PROVE  \E i \in 1 .. n + 1 :
                    (ts \o ws)[j] \in Range(e[i].txns) /\ (hs \o last)[j] = next + i - 1
      <3>1. CASE j <= Len(ts)
        <4>1. j \in 1 .. Len(ts) BY <3>1, <2>11
        <4>2. PICK i \in 1 .. n : ts[j] \in Range(bs[i].txns) /\ hs[j] = next + i - 1 BY <4>1, <2>6
        <4>3. (ts \o ws)[j] = ts[j] BY <4>1, <2>5
        <4>4. (hs \o last)[j] = hs[j] BY <4>1, <2>16, <2>17
        <4>5. i \in 1 .. n + 1 /\ e[i] = bs[i] BY <2>8
        <4> QED BY <4>2, <4>3, <4>4, <4>5
      <3>2. CASE ~(j <= Len(ts))
        <4>1. j - Len(ts) \in 1 .. Len(ws) BY <3>2, <2>11
        <4>2. (ts \o ws)[j] = ws[j - Len(ts)] BY <3>2, <2>5, <2>11
        <4>7. Len(hs) + (j - Len(ts)) = j BY <2>11, <2>16
        <4>3. (hs \o last)[j] = last[j - Len(ts)] BY <4>1, <4>7, <2>16, <2>17
        <4>8. j - Len(ts) \in DOMAIN ws BY <4>1, <2>5
        <4>9. ws[j - Len(ts)] \in Range(ws) BY <4>8 DEF Range
        <4>4. ws[j - Len(ts)] \in Range(x.txns) BY <4>9, <2>5
        <4>5. n + 1 \in 1 .. n + 1 /\ next + (n + 1) - 1 = next + n BY <2>8
        <4>6. last[j - Len(ts)] = next + n BY <4>1, <2>7
        <4> QED BY <4>2, <4>3, <4>4, <4>5, <4>6, <2>8
      <3> QED BY <3>1, <3>2
    <2>13. HeightsMatch(e, S, next)
      BY <2>1, <2>2, <2>4, <2>6, <2>8, <2>9, <2>10, <2>11, <2>12 DEF HeightsMatch
    <2> QED BY <2>8, <2>13 DEF e
  <1> HIDE DEF T
  <1>3. \A bs \in Seq(Blocks) : bs \in T BY <1>1, <1>2, SeqInduction
  <1> QED BY <1>3 DEF T

-----------------------------------------------------------------------------
(* What a delivery does to the lists.                                          *)
Filtered(n, k, r, b, f, X, Y) ==
  /\ Replaces(n, k, r, b) /\ n = db.ccid + 1 /\ n \in 1 .. Len(log)
  /\ Chain(db.ccid) = k \o r /\ Chain(db.ccid)' = k \o b /\ log' = log
  /\ DbApplied(db', db, f) /\ smeared' = smeared \cup Smears(f, db.addrs)
  /\ f.id = n
  /\ f.reverted = processBlocks(Reverse(r), db.addrs, 0, X)
  /\ f.applied = processBlocks(b, db.addrs, ChainHeight(db) + 1, Y)

LEMMA DeliverFiltered ==
  ASSUME StoresInv, Deliver
  PROVE  \E n, k, r, b, f, X, Y : Filtered(n, k, r, b, f, X, Y)
  <1> DEFINE n == db.ccid + 1
  <1>0. PICK k, r, b, H, X, Y, f :
           /\ Replaces(n, k, r, b)
           /\ db' = dbApply(db, f) /\ smeared' = smeared \cup Smears(f, db.addrs)
           /\ f.id = n
           /\ f.reverted = processBlocks(Reverse(r), db.addrs, 0, X)
           /\ f.applied = processBlocks(b, db.addrs, H, Y)
           /\ H = ChainHeight(db) + 1
    BY DeliverFilter
  <1>1. n \in 1 .. Len(log) /\ n - 1 = db.ccid
    <2>1. Len(log) \in Nat BY ChainZero DEF StoresInv
    <2> QED BY <2>1 DEF StoresInv, SharedInv, Deliver
  <1>2. n = db.ccid + 1 /\ log' = log BY DEF Deliver
  <1> HIDE DEF n
  <1>3. Chain(db.ccid) = k \o r /\ Chain(n) = k \o b BY <1>0, <1>1 DEF Replaces
  <1>4. DOMAIN db = Fields BY DEF StoresInv, SharedInv
  <1>5. DbApplied(db', db, f) BY <1>0, <1>4, AppliedFields
  <1>6. db'.ccid = n BY <1>0, <1>5 DEF DbApplied
  <1>7. Chain(db.ccid)' = k \o b BY <1>2, <1>3, <1>6 DEF Chain
  <1>8. Filtered(n, k, r, b, f, X, Y) BY <1>0, <1>1, <1>2, <1>3, <1>5, <1>7 DEF Filtered
  <1> QED BY <1>8

LEMMA FilteredParts ==
  ASSUME NEW n, NEW k, NEW r, NEW b, NEW f, NEW X, NEW Y, Filtered(n, k, r, b, f, X, Y)
  PROVE  /\ Replaces(n, k, r, b)
         /\ k \in Seq(Blocks) /\ r \in Seq(Blocks) /\ b \in Seq(Blocks)
         /\ Reverse(r) \in Seq(Blocks)
         /\ db'.addrs = db.addrs /\ db'.ccid = n
         /\ Chain(db.ccid) = k \o r /\ Chain(db.ccid)' = k \o b
  BY ReverseFacts DEF Filtered, Replaces, DbApplied

LEMMA FilteredRecent ==
  ASSUME StoresInv, tainted = {},
         NEW n, NEW k, NEW r, NEW b, NEW f, NEW X, NEW Y, Filtered(n, k, r, b, f, X, Y)
  PROVE  Range(db'.recent) = (Range(TxnsOf(k)) \cap Range(db.recent))
                             \cup (Range(TxnsOf(b)) \cap Relevant(db.addrs))
  <1> DEFINE S == Relevant(db.addrs)
             s == db.recent
             xs == f.reverted.txns
  <1>0. /\ Replaces(n, k, r, b) /\ b \in Seq(Blocks) /\ Reverse(r) \in Seq(Blocks)
        /\ Chain(db.ccid) = k \o r
    BY FilteredParts
  <1>1. Listed(s, k \o r, S) BY <1>0 DEF StoresInv, RecentInv
  <1>2. xs \in Seq(Txns) /\ Range(xs) = Range(TxnsOf(r)) \cap S
    BY <1>0, ReplacedTxns, FilterTxns DEF Filtered
  <1>3. f.applied.txns = Keep(TxnsOf(b), S) BY <1>0, FilterTxns DEF Filtered
  <1>4. db'.recent = RemoveLasts(s, xs) \o f.applied.txns BY DEF Filtered, DbApplied
  <1> HIDE DEF S, s, xs
  <1>5. /\ RemoveLasts(s, xs) = Without(s, xs)
        /\ Range(Without(s, xs) \o Keep(TxnsOf(b), S))
             = (Range(TxnsOf(k)) \cap Range(s)) \cup (Range(TxnsOf(b)) \cap S)
    BY <1>0, <1>1, <1>2, ListedStep
  <1> QED BY <1>3, <1>4, <1>5 DEF S, s

LEMMA FilteredAddr ==
  ASSUME StoresInv, NEW a \in Addr, a \notin tainted, a \notin smeared', a \in db.addrs,
         NEW n, NEW k, NEW r, NEW b, NEW f, NEW X, NEW Y, Filtered(n, k, r, b, f, X, Y)
  PROVE  Range(db'.addrIndex[a]) = (Range(TxnsOf(k)) \cap Range(db.addrIndex[a]))
                                   \cup (Range(TxnsOf(b)) \cap ByAddr(a))
  <1> DEFINE S == ByAddr(a)
             s == db.addrIndex[a]
             xs == f.reverted.addrTxns[a]
  <1>0. /\ Replaces(n, k, r, b) /\ b \in Seq(Blocks) /\ Reverse(r) \in Seq(Blocks)
        /\ Chain(db.ccid) = k \o r
    BY FilteredParts
  <1>1. Listed(s, k \o r, S)
    <2>1. a \notin smeared BY DEF Filtered
    <2> QED BY <2>1, <1>0 DEF StoresInv, AddrIndexInv, AddrInv
  <1>2. xs \in Seq(Txns) /\ Range(xs) = Range(TxnsOf(r)) \cap S
    BY <1>0, ReplacedTxns, FilterAddr DEF Filtered
  <1>3. f.applied.addrTxns[a] = Keep(TxnsOf(b), S) BY <1>0, FilterAddr DEF Filtered
  <1>a. Aliased(f.applied.addrTxns[a]) = f.applied.addrTxns[a]
    <2>1. ~(Len(f.applied.addrTxns[a]) > 1) BY DEF Filtered, Smears
    <2>2. TxnsOf(b) \in Seq(Txns) BY <1>0, TxnsType
    <2>3. f.applied.addrTxns[a] \in Seq(Txns) BY <1>3, <2>2, KeepFacts
    <2> QED BY <2>1, <2>3, AliasedOne
  <1>4. db'.addrIndex[a] = Without(s, xs) \o f.applied.addrTxns[a] BY <1>a DEF Filtered, DbApplied
  <1> HIDE DEF S, s, xs
  <1>5. Range(Without(s, xs) \o Keep(TxnsOf(b), S))
          = (Range(TxnsOf(k)) \cap Range(s)) \cup (Range(TxnsOf(b)) \cap S)
    BY <1>0, <1>1, <1>2, ListedStep
  <1> QED BY <1>3, <1>4, <1>5 DEF S, s

(* A list of all that a chain has loses what the reverted blocks have and      *)
(* gains what the new ones have.                                               *)
LEMMA TailReplaced ==
  ASSUME NEW E, NEW p \in Seq(E), NEW q \in Seq(E), NEW xs \in Seq(E),
         IsInjective(p \o q), Range(xs) = Range(q)
  PROVE  RemoveLasts(p \o q, xs) = p
  <1>1. p \o q \in Seq(E) BY ConcatFacts
  <1>2. Range(p) \cap Range(xs) = {} BY InjectiveConcat
  <1>3. Without(p \o q, xs) = p BY <1>2, WithoutTail
  <1>4. RemoveLasts(p \o q, xs) = Without(p \o q, xs) BY <1>1, RemovalsAgree
  <1> QED BY <1>3, <1>4

LEMMA FilteredRewards ==
  ASSUME StoresInv, ~reset, db.rewards = processMinerPayouts(Chain(db.ccid), db.addrs),
         NEW n, NEW k, NEW r, NEW b, NEW f, NEW X, NEW Y, Filtered(n, k, r, b, f, X, Y)
  PROVE  db'.rewards = processMinerPayouts(k \o b, db.addrs)
  <1> DEFINE P(x) == processMinerPayouts(x, db.addrs)
             p == P(k)
             q == P(r)
             xs == P(Reverse(r))
             ys == P(b)
  <1>0. /\ k \in Seq(Blocks) /\ r \in Seq(Blocks) /\ b \in Seq(Blocks)
        /\ Reverse(r) \in Seq(Blocks) /\ Chain(db.ccid) = k \o r /\ Replaces(n, k, r, b)
    BY FilteredParts
  <1>a. k \in Seq(Blocks) BY <1>0
  <1>b. r \in Seq(Blocks) BY <1>0
  <1>1. P(k \o r) = p \o q BY <1>a, <1>b, RewardsConcat
  <1>c. b \in Seq(Blocks) BY <1>0
  <1>2. P(k \o b) = p \o ys BY <1>a, <1>c, RewardsConcat
  <1>3. p \in Seq(Payouts) BY <1>0, FilterRewards
  <1>4. q \in Seq(Payouts) BY <1>0, FilterRewards
  <1>5. xs \in Seq(Payouts) BY <1>0, FilterRewards
  <1>6. Range(xs) = Range(q)
    <2>1. Range(xs) = PayoutsOf(db.addrs, Range(Reverse(r))) BY <1>0, FilterRewards
    <2>2. Range(q) = PayoutsOf(db.addrs, Range(r)) BY <1>0, FilterRewards
    <2>3. Range(Reverse(r)) = Range(r) BY <1>0, ReplacedTxns
    <2> QED BY <2>1, <2>2, <2>3
  <1>7. db.rewards = p \o q BY <1>0, <1>1
  <1>8. IsInjective(p \o q) BY <1>7 DEF StoresInv, RewardsInv
  <1>9. f.reverted.rewards = xs /\ f.applied.rewards = ys BY DEF Filtered, processBlocks
  <1>10. db'.rewards = RemoveLasts(db.rewards, f.reverted.rewards) \o f.applied.rewards
    BY DEF Filtered, DbApplied
  <1> HIDE DEF p, q, xs, ys
  <1>11. RemoveLasts(p \o q, xs) = p BY <1>3, <1>4, <1>5, <1>6, <1>8, TailReplaced
  <1> QED BY <1>2, <1>7, <1>9, <1>10, <1>11

LEMMA FilteredContracts ==
  ASSUME StoresInv, ~reset, tainted = {}, db.contracts = ContractsOn(Chain(db.ccid), db.addrs),
         NEW n, NEW k, NEW r, NEW b, NEW f, NEW X, NEW Y, Filtered(n, k, r, b, f, X, Y)
  PROVE  db'.contracts = ContractsOn(k \o b, db.addrs)
  <1> DEFINE P(x) == ContractsOn(x, db.addrs)
             p == P(k)
             q == P(r)
             xs == P(Reverse(r))
             ys == P(b)
  <1>0. /\ k \in Seq(Blocks) /\ r \in Seq(Blocks) /\ b \in Seq(Blocks)
        /\ Reverse(r) \in Seq(Blocks) /\ Chain(db.ccid) = k \o r /\ Replaces(n, k, r, b)
    BY FilteredParts
  <1>a. k \in Seq(Blocks) BY <1>0
  <1>b. r \in Seq(Blocks) BY <1>0
  <1>1. P(k \o r) = p \o q BY <1>a, <1>b, ContractsOnConcat
  <1>c. b \in Seq(Blocks) BY <1>0
  <1>2. P(k \o b) = p \o ys BY <1>a, <1>c, ContractsOnConcat
  <1>t. \A c \in Seq(Blocks) : P(c) \in Seq(Revisions) /\ Range(P(c)) = AllRevised(db.addrs, Range(TxnsOf(c)))
    BY FilterContracts, ContractsOnFacts
  <1> HIDE DEF P
  <1>3. p \in Seq(Revisions) BY <1>0, <1>t
  <1>4. q \in Seq(Revisions) BY <1>0, <1>t
  <1>5. xs \in Seq(Revisions) BY <1>0, <1>t
  <1>6. Range(xs) = Range(q)
    <2>1. Range(xs) = AllRevised(db.addrs, Range(TxnsOf(Reverse(r)))) BY <1>0, <1>t
    <2>2. Range(q) = AllRevised(db.addrs, Range(TxnsOf(r))) BY <1>0, <1>t
    <2>3. Range(TxnsOf(Reverse(r))) = Range(TxnsOf(r)) BY <1>0, ReplacedTxns
    <2> QED BY <2>1, <2>2, <2>3
  <1>7. db.contracts = p \o q BY <1>0, <1>1 DEF P
  <1>8. IsInjective(p \o q) BY <1>7 DEF StoresInv, ContractsInv
  <1>9. f.reverted.contracts = xs /\ f.applied.contracts = ys
    BY <1>0, ContractsOnFacts DEF Filtered, P
  <1>10. db'.contracts = RemoveLasts(db.contracts, f.reverted.contracts) \o f.applied.contracts
    BY DEF Filtered, DbApplied
  <1> HIDE DEF p, q, xs, ys
  <1> DEFINE E == Revisions
  <1>12. p \in Seq(E) BY <1>3
  <1>13. q \in Seq(E) BY <1>4
  <1>14. xs \in Seq(E) BY <1>5
  <1> HIDE DEF E
  <1>11. RemoveLasts(p \o q, xs) = p BY <1>12, <1>13, <1>14, <1>6, <1>8, TailReplaced
  <1> QED BY <1>2, <1>7, <1>9, <1>10, <1>11 DEF P

LastAt(ts, t) == SelectLastInSeq(ts, LAMBDA u: u = t)

LEMMA RecordedHeight ==
  ASSUME NEW bs \in Seq(Blocks), IsInjective(TxnsOf(bs)), NEW O, NEW next \in Int, NEW Y,
         NEW t \in Range(TxnsOf(bs)) \cap Relevant(O)
  PROVE  LET app == processBlocks(bs, O, next, Y)
         IN  \E i \in 1 .. Len(bs) :
               t \in Range(bs[i].txns) /\ app.heights[LastAt(app.txns, t)] = next + i - 1
  <1> DEFINE S == Relevant(O)
             app == processBlocks(bs, O, next, Y)
             hs == FlattenSeq(HeightParts(bs, S, next))
             ts == Keep(TxnsOf(bs), S)
  <1>1. S = {u \in DOMAIN Txn : RelevantTransaction(O, u)} BY DEF Relevant, Txns
  <1>2. app.heights = hs /\ app.txns = ts
    <2>1. app.txns = ts BY FilterTxns
    <2>2. app.heights = FlattenSeq([i \in DOMAIN bs |->
            [j \in DOMAIN Keep(bs[i].txns, {u \in DOMAIN Txn : RelevantTransaction(O, u)})
               |-> next + i - 1]])
      BY DEF processBlocks
    <2> HIDE DEF S
    <2> QED BY <1>1, <2>1, <2>2 DEF HeightParts
  <1>3. TxnsOf(bs) \in Seq(Txns) BY TxnsType
  <1> HIDE DEF S
  <1>4. ts \in Seq(Txns) /\ Range(ts) = Range(TxnsOf(bs)) \cap S /\ IsInjective(ts)
    BY <1>3, KeepFacts
  <1>5. HeightsMatch(bs, S, next) BY HeightsMatched
  <1>6. \A j \in 1 .. Len(ts) : \E i \in 1 .. Len(bs) :
           ts[j] \in Range(bs[i].txns) /\ hs[j] = next + i - 1
    BY <1>5 DEF HeightsMatch
  <1>7. t \in Range(ts) BY <1>4 DEF S
  <1> HIDE DEF ts, hs, app
  <1>8. PICK j \in 1 .. Len(ts) : ts[j] = t /\ j \in Int
    <2>1. DOMAIN ts = 1 .. Len(ts) /\ Len(ts) \in Nat BY <1>4
    <2> QED BY <2>1, <1>7 DEF Range
  <1>9. {i \in 1 .. Len(ts) : ts[i] = t} = {j}
    <2>1. DOMAIN ts = 1 .. Len(ts) BY <1>4
    <2> QED BY <2>1, <1>4, <1>8 DEF IsInjective
  <1>10. LastAt(ts, t) = Max({j}) BY <1>9 DEF LastAt, SelectLastInSeq
  <1>11. LastAt(ts, t) = j BY <1>8, <1>10, MinOne
  <1>12. PICK i \in 1 .. Len(bs) : t \in Range(bs[i].txns) /\ hs[j] = next + i - 1 BY <1>6, <1>8
  <1> QED BY <1>2, <1>11, <1>12 DEF app

LEMMA FilteredHeights ==
  ASSUME StoresInv,
         NEW n, NEW k, NEW r, NEW b, NEW f, NEW X, NEW Y, Filtered(n, k, r, b, f, X, Y)
  PROVE  LET new == Range(TxnsOf(b)) \cap Relevant(db.addrs)
         IN  /\ DOMAIN db'.txns = (DOMAIN db.txns \ (Range(TxnsOf(r)) \cap Relevant(db.addrs))) \cup new
             /\ \A t \in new : \E i \in 1 .. Len(b) :
                  t \in Range(b[i].txns) /\ db'.txns[t] = ChainHeight(db) + i
             /\ \A t \in DOMAIN db'.txns \ new : db'.txns[t] = db.txns[t]
  <1> DEFINE O == db.addrs
             S == Relevant(O)
             rev == f.reverted
             app == f.applied
             H == ChainHeight(db)
             new == Range(TxnsOf(b)) \cap S
  <1>0. /\ Replaces(n, k, r, b) /\ b \in Seq(Blocks) /\ Reverse(r) \in Seq(Blocks)
    BY FilteredParts
  <1>1. Range(rev.txns) = Range(TxnsOf(r)) \cap S /\ Range(app.txns) = new
    <2>1. /\ rev = processBlocks(Reverse(r), db.addrs, 0, X)
          /\ app = processBlocks(b, db.addrs, ChainHeight(db) + 1, Y)
      BY DEF Filtered
    <2>2. Range(rev.txns) = Range(TxnsOf(Reverse(r))) \cap S BY <1>0, <2>1, FilterTxns
    <2>3. Range(app.txns) = Range(TxnsOf(b)) \cap S BY <1>0, <2>1, FilterTxns
    <2>4. Range(TxnsOf(Reverse(r))) = Range(TxnsOf(r)) BY <1>0, ReplacedTxns
    <2> QED BY <2>2, <2>3, <2>4
  <1>2. db'.txns = Recorded(db.txns, rev, app) BY DEF Filtered, DbApplied
  <1>3. H \in Int
    <2>1. db.height = Len(Chain(db.ccid)) BY DEF StoresInv, SharedInv
    <2>2. Chain(db.ccid) \in Seq(Blocks) BY ChainType DEF StoresInv, SharedInv
    <2> QED BY <2>1, <2>2 DEF ChainHeight
  <1>4. IsInjective(TxnsOf(b)) BY <1>0, ReplacedTxns
  <1>5. app = processBlocks(b, O, H + 1, Y) BY DEF Filtered
  <1>6. ASSUME NEW t \in new
        PROVE  \E i \in 1 .. Len(b) :
                 t \in Range(b[i].txns) /\ app.heights[LastAt(app.txns, t)] = (H + 1) + i - 1
    <2>1. H + 1 \in Int BY <1>3
    <2> DEFINE m == H + 1
    <2> HIDE DEF H, m, app
    <2>2. m \in Int /\ app = processBlocks(b, O, m, Y) BY <2>1, <1>5 DEF m
    <2>3. \E i \in 1 .. Len(b) :
            t \in Range(b[i].txns) /\ app.heights[LastAt(app.txns, t)] = m + i - 1
      BY <2>2, <1>0, <1>4, RecordedHeight
    <2> QED BY <2>3 DEF m
  <1>7. \A i \in 1 .. Len(b) : (H + 1) + i - 1 = H + i
    <2> HIDE DEF H
    <2> QED BY <1>3
  <1>8. /\ DOMAIN db'.txns = (DOMAIN db.txns \ Range(rev.txns)) \cup Range(app.txns)
        /\ \A t \in Range(app.txns) : db'.txns[t] = app.heights[LastAt(app.txns, t)]
        /\ \A t \in DOMAIN db.txns \ Range(rev.txns) : t \notin Range(app.txns) => db'.txns[t] = db.txns[t]
    <2> HIDE DEF rev, app
    <2> QED BY <1>2 DEF Recorded, LastAt
  <1> HIDE DEF rev, app, H, S
  <1>9. DOMAIN db'.txns = (DOMAIN db.txns \ (Range(TxnsOf(r)) \cap S)) \cup new BY <1>1, <1>8
  <1>10. \A t \in new : \E i \in 1 .. Len(b) : t \in Range(b[i].txns) /\ db'.txns[t] = H + i
    BY <1>1, <1>6, <1>7, <1>8
  <1>11. \A t \in DOMAIN db'.txns \ new : db'.txns[t] = db.txns[t] BY <1>1, <1>8
  <1> QED BY <1>9, <1>10, <1>11 DEF S, H

-----------------------------------------------------------------------------
(* Nothing of the chain is missing for an address that was tracked all along,  *)
(* if no change applied two transactions of it, and each transaction has the   *)
(* height of its block and an excess: what the change that put it on the chain *)
(* reverted, and one in the first block.                                       *)
OnChain == Range(TxnsOf(Chain(db.ccid)))

CompleteInv ==
  /\ \A a \in Whole \ smeared : OnChain \cap ByAddr(a) \subseteq Range(db.addrIndex[a])
  /\ known = Whole => OnChain \cap Relevant(known) \subseteq Range(db.recent)
  /\ known = Whole /\ ~reset => /\ db.rewards = processMinerPayouts(Chain(db.ccid), known)
                                /\ db.contracts = ContractsOn(Chain(db.ccid), known)

ChangesOf(t) ==
  {n \in 1 .. db.ccid : \E i \in DOMAIN log[n].blocks : t \in Range(log[n].blocks[i].txns)}

Excess(n) == log[n].revert + (IF n = 1 THEN 1 ELSE 0)

Dated(t) ==
  /\ ChangeOf(t) \in 1 .. db.ccid
  /\ db.txns[t] = HeightOf(t, Chain(db.ccid)) + Excess(ChangeOf(t))

HeightsInv ==
  tainted = {} => DOMAIN db.txns = Range(db.recent) /\ \A t \in DOMAIN db.txns : Dated(t)

HistoryInv == OutputsInv /\ CompleteInv /\ HeightsInv

LEMMA AllWhole ==
  ASSUME OutputsInv, known = Whole
  PROVE  tainted = {} /\ db.addrs = known
  BY DEF OutputsInv, TrackedInv, Whole

LEMMA ChangeIs == \A t : ChangeOf(t) = Max(ChangesOf(t))
  BY DEF ChangeOf, ChangesOf

LEMMA GreatestIs ==
  ASSUME NEW n \in Int, NEW T \in SUBSET Int, n \in T, \A m \in T : m <= n
  PROVE  Max(T) = n
  <1>1. Max(T) \in T /\ \A y \in T : Max(T) >= y BY DEF Max
  <1>2. Max(T) \in Int BY <1>1
  <1>3. Max(T) <= n BY <1>1
  <1>4. Max(T) >= n BY <1>1
  <1> QED BY <1>2, <1>3, <1>4

(* A chain of at least one change is not empty.                                *)
LEMMA LongChain ==
  ASSUME LogInv, NEW n \in 1 .. Len(log)
  PROVE  Len(Chain(n)) > 0
  <1>1. PICK k, r, b : Replaces(n, k, r, b) BY ChangeReplaces
  <1>2. k \in Seq(Blocks) /\ b \in Seq(Blocks) /\ Len(b) > 0 /\ Chain(n) = k \o b BY <1>1 DEF Replaces
  <1>3. Len(k \o b) = Len(k) + Len(b) /\ Len(k) \in Nat /\ Len(b) \in Nat BY <1>2
  <1> QED BY <1>2, <1>3

LEMMA HistoryEmpty ==
  ASSUME NEW O
  PROVE  processMinerPayouts(<<>>, O) = <<>> /\ ContractsOn(<<>>, O) = <<>>
  <1>1. <<>> \in Seq(Blocks) /\ <<>> \in Seq(Txns) /\ <<>> \in Seq(Seq(Revisions))
        /\ <<>> \in Seq(Revisions)
    BY EmptySeq
  <1>2. Keep(<<>>, Paid(O)) = <<>> BY <1>1, RangeEmpty, KeepNone
  <1>3. Keep(<<>>, Relevant(O)) = <<>> BY <1>1, RangeEmpty, KeepNone
  <1>4. PayoutSeq(<<>>) = <<>> BY DEF PayoutSeq
  <1>5. ContractParts(<<>>, O) = <<>> BY DEF ContractParts
  <1>6. FlattenSeq(<<>>) = <<>> BY <1>1, FlattenAppend
  <1>7. processMinerPayouts(<<>>, O) = <<>> BY <1>1, <1>2, <1>4, RewardsOf
  <1>8. ContractsOn(<<>>, O) = <<>> BY <1>3, <1>5, <1>6, TxnsNone DEF ContractsOn, ContractSeq
  <1> QED BY <1>7, <1>8

LEMMA EmptyRange ==
  ASSUME NEW E, NEW s \in Seq(E), Range(s) = {}
  PROVE  s = <<>>
  <1>1. DOMAIN s = 1 .. Len(s) /\ Len(s) \in Nat OBVIOUS
  <1>2. ASSUME Len(s) # 0 PROVE FALSE
    <2>1. 1 \in DOMAIN s BY <1>1, <1>2
    <2>2. s[1] \in Range(s) BY <2>1 DEF Range
    <2> QED BY <2>2
  <1> QED BY <1>2, EmptySeq

LEMMA HistoryInit == Init => HistoryInv
  <1> SUFFICES ASSUME Init PROVE HistoryInv OBVIOUS
  <1>1. OutputsInv BY OutputsInit
  <1>2. db = NewStore /\ Whole = {} BY DEF Init, Whole, NewStore
  <1>3. Chain(0) = <<>> BY <1>1, ChainZero DEF OutputsInv, StoresInv
  <1>4. Chain(db.ccid) = <<>> BY <1>2, <1>3 DEF NewStore
  <1>5. OnChain = {} BY <1>4, TxnsNone, RangeEmpty DEF OnChain
  <1>6. db.rewards = <<>> /\ db.contracts = <<>> BY <1>2 DEF NewStore
  <1>7. CompleteInv BY <1>2, <1>4, <1>5, <1>6, HistoryEmpty DEF CompleteInv
  <1>8. DOMAIN db.txns = {} /\ Range(db.recent) = {} BY <1>2, RangeEmpty DEF NewStore
  <1>9. HeightsInv BY <1>8 DEF HeightsInv
  <1> QED BY <1>1, <1>7, <1>9 DEF HistoryInv

(* Steps that leave the chain and the lists.                                   *)
SameHistory ==
  /\ db'.recent = db.recent /\ db'.addrIndex = db.addrIndex /\ db'.txns = db.txns
  /\ db'.rewards = db.rewards /\ db'.contracts = db.contracts /\ db'.ccid = db.ccid
  /\ Chain(db.ccid)' = Chain(db.ccid) /\ smeared' = smeared
  /\ \A m \in 1 .. db.ccid : log'[m] = log[m]

LEMMA SameHeights ==
  ASSUME HistoryInv, SameHistory, tainted \subseteq tainted'
  PROVE  HeightsInv'
  <1>1. \A t : ChangesOf(t)' = ChangesOf(t) BY DEF SameHistory, ChangesOf
  <1>2. \A t : ChangeOf(t)' = ChangeOf(t)
    <2>1. \A t : ChangeOf(t)' = Max(ChangesOf(t)') BY DEF ChangeOf, ChangesOf
    <2> QED BY <1>1, <2>1, ChangeIs
  <1>3. \A m \in 1 .. db.ccid : Excess(m)' = Excess(m) BY DEF SameHistory, Excess
  <1>4. ASSUME NEW t, Dated(t) PROVE Dated(t)'
    <2> DEFINE m == ChangeOf(t)
    <2>1. m \in 1 .. db.ccid /\ db.txns[t] = HeightOf(t, Chain(db.ccid)) + Excess(m) BY <1>4 DEF Dated
    <2>2. m' = m BY <1>2
    <2>3. HeightOf(t, Chain(db.ccid))' = HeightOf(t, Chain(db.ccid)) BY DEF SameHistory
    <2>4. Excess(m)' = Excess(m) BY <2>1, <2>2, <1>3 DEF Excess
    <2> HIDE DEF m
    <2>5. m' \in 1 .. db'.ccid BY <2>1, <2>2 DEF SameHistory
    <2>6. db'.txns[t] = HeightOf(t, Chain(db.ccid))' + Excess(m)' BY <2>1, <2>3, <2>4 DEF SameHistory
    <2> QED BY <2>5, <2>6 DEF Dated, m
  <1>5. DOMAIN db'.txns = DOMAIN db.txns /\ Range(db'.recent) = Range(db.recent) BY DEF SameHistory
  <1> QED BY <1>4, <1>5 DEF HistoryInv, HeightsInv

LEMMA SameComplete ==
  ASSUME HistoryInv, SameHistory, Whole' \subseteq Whole, known' = known, reset' = reset
  PROVE  CompleteInv'
  <1>1. known' = Whole' => known = Whole BY DEF HistoryInv, OutputsInv, TrackedInv, Whole
  <1>2. OnChain' = OnChain BY DEF OnChain, SameHistory
  <1>3. \A a \in Whole' \ smeared' : OnChain' \cap ByAddr(a) \subseteq Range(db'.addrIndex[a])
    BY <1>2 DEF HistoryInv, CompleteInv, SameHistory
  <1>4. known' = Whole' => OnChain' \cap Relevant(known') \subseteq Range(db'.recent)
    BY <1>1, <1>2 DEF HistoryInv, CompleteInv, SameHistory
  <1>5. known' = Whole' /\ ~reset' =>
          /\ db'.rewards = processMinerPayouts(Chain(db.ccid)', known')
          /\ db'.contracts = ContractsOn(Chain(db.ccid)', known')
    BY <1>1 DEF HistoryInv, CompleteInv, SameHistory
  <1> QED BY <1>3, <1>4, <1>5 DEF CompleteInv

LEMMA DeliverComplete ==
  ASSUME HistoryInv, Deliver
  PROVE  CompleteInv'
  <1>0. StoresInv /\ OutputsInv BY DEF HistoryInv, OutputsInv
  <1>1. PICK n, k, r, b, f, X, Y : Filtered(n, k, r, b, f, X, Y) BY <1>0, DeliverFiltered
  <1>2. /\ Replaces(n, k, r, b) /\ db'.addrs = db.addrs
        /\ Chain(db.ccid) = k \o r /\ Chain(db.ccid)' = k \o b
    BY <1>1, FilteredParts
  <1>3. known' = known /\ tainted' = tainted /\ reset' = reset /\ since' = since
    BY DEF Deliver
  <1>4. Whole' = Whole BY <1>2, <1>3 DEF Whole
  <1> DEFINE tk == Range(TxnsOf(k))
             tr == Range(TxnsOf(r))
             tb == Range(TxnsOf(b))
  <1>5. OnChain = tk \cup tr /\ OnChain' = tk \cup tb BY <1>2, ReplacedTxns DEF OnChain
  <1>6. ASSUME NEW a \in Whole, a \notin smeared'
        PROVE  OnChain' \cap ByAddr(a) \subseteq Range(db'.addrIndex[a])
    <2>1. a \in Addr /\ a \notin tainted /\ a \in db.addrs /\ a \notin smeared
      BY <1>0, <1>1, <1>6 DEF Whole, OutputsInv, TrackedInv, Filtered
    <2>2. Range(db'.addrIndex[a]) = (tk \cap Range(db.addrIndex[a])) \cup (tb \cap ByAddr(a))
      BY <1>0, <1>1, <1>6, <2>1, FilteredAddr
    <2>3. OnChain \cap ByAddr(a) \subseteq Range(db.addrIndex[a])
      BY <1>6, <2>1 DEF HistoryInv, CompleteInv
    <2> HIDE DEF tk, tr, tb
    <2> QED BY <1>5, <2>2, <2>3
  <1>7. ASSUME known = Whole PROVE OnChain' \cap Relevant(known) \subseteq Range(db'.recent)
    <2>1. tainted = {} /\ db.addrs = known BY <1>0, <1>7, AllWhole
    <2>2. Range(db'.recent) = (tk \cap Range(db.recent)) \cup (tb \cap Relevant(known))
      BY <1>0, <1>1, <2>1, FilteredRecent
    <2>3. OnChain \cap Relevant(known) \subseteq Range(db.recent) BY <1>7 DEF HistoryInv, CompleteInv
    <2> HIDE DEF tk, tr, tb
    <2> QED BY <1>5, <2>2, <2>3
  <1>8. ASSUME known = Whole, ~reset
        PROVE  /\ db'.rewards = processMinerPayouts(k \o b, known)
               /\ db'.contracts = ContractsOn(k \o b, known)
    <2>1. tainted = {} /\ db.addrs = known BY <1>0, <1>8, AllWhole
    <2>2. /\ db.rewards = processMinerPayouts(Chain(db.ccid), db.addrs)
          /\ db.contracts = ContractsOn(Chain(db.ccid), db.addrs)
      BY <1>8, <2>1 DEF HistoryInv, CompleteInv
    <2>3. db'.rewards = processMinerPayouts(k \o b, db.addrs)
      BY <1>0, <1>1, <1>8, <2>2, FilteredRewards
    <2>4. db'.contracts = ContractsOn(k \o b, db.addrs)
      BY <1>0, <1>1, <1>8, <2>1, <2>2, FilteredContracts
    <2> QED BY <2>1, <2>3, <2>4
  <1> QED BY <1>2, <1>3, <1>4, <1>6, <1>7, <1>8 DEF CompleteInv

(* The height that is recorded with a transaction of the new blocks.           *)
LEMMA NewDated ==
  ASSUME StoresInv, NEW n, NEW k, NEW r, NEW b, NEW f, NEW X, NEW Y, Filtered(n, k, r, b, f, X, Y),
         NEW t, NEW i \in 1 .. Len(b), t \in Range(b[i].txns), db'.txns[t] = ChainHeight(db) + i
  PROVE  Dated(t)'
  <1>0. /\ Replaces(n, k, r, b) /\ db'.ccid = n /\ log' = log
        /\ Chain(db.ccid) = k \o r /\ Chain(db.ccid)' = k \o b
        /\ k \in Seq(Blocks) /\ r \in Seq(Blocks) /\ b \in Seq(Blocks)
        /\ n = db.ccid + 1 /\ n \in 1 .. Len(log) /\ db.ccid \in 0 .. Len(log)
    BY FilteredParts DEF Filtered, StoresInv, SharedInv
  <1>n. n \in Nat /\ n \in 1 .. n /\ db.ccid \in Nat
    <2>1. Len(log) \in Nat BY ChainZero DEF StoresInv
    <2> QED BY <2>1, <1>0
  <1>1. ChangeOf(t)' = n
    <2>0. b = log[n].blocks BY <1>0 DEF Replaces
    <2>1. b = log[n].blocks /\ DOMAIN b = 1 .. Len(b) BY <2>0, <1>0, LenProperties
    <2>2. ChangesOf(t)' =
            {m \in 1 .. n : \E j \in DOMAIN log[m].blocks : t \in Range(log[m].blocks[j].txns)}
      BY <1>0 DEF ChangesOf
    <2>3. n \in ChangesOf(t)' BY <2>1, <2>2, <1>n
    <2>4. ChangesOf(t)' \subseteq Int /\ \A m \in ChangesOf(t)' : m <= n BY <2>2, <1>n
    <2> DEFINE T == ChangesOf(t)'
    <2>5. ChangeOf(t)' = Max(T) BY DEF ChangeOf, ChangesOf
    <2>6. T \in SUBSET Int /\ n \in T /\ n \in Int /\ \A m \in T : m <= n BY <2>3, <2>4, <1>n
    <2> HIDE DEF T
    <2> QED BY <2>5, <2>6, GreatestIs
  <1>2. /\ Len(k) \in Nat /\ Len(r) \in Nat /\ Len(b) \in Nat
        /\ Len(k \o r) = Len(k) + Len(r) /\ Len(k \o b) = Len(k) + Len(b)
        /\ (k \o b)[Len(k) + i] = b[i]
    <2>1. k \in Seq(Blocks) BY <1>0
    <2>2. r \in Seq(Blocks) BY <1>0
    <2>3. b \in Seq(Blocks) BY <1>0
    <2>4. Len(k \o r) = Len(k) + Len(r) BY <2>1, <2>2, ConcatFacts
    <2>5. Len(k \o b) = Len(k) + Len(b) /\ (k \o b)[Len(k) + i] = b[i] BY <2>1, <2>3, ConcatFacts
    <2>6. Len(k) \in Nat /\ Len(r) \in Nat /\ Len(b) \in Nat BY <2>1, <2>2, <2>3
    <2> QED BY <2>4, <2>5, <2>6
  <1>3. HeightOf(t, k \o b) = Len(k) + i - 1
    <2> DEFINE h == Len(k) + i
               c == k \o b
    <2>1. h \in 1 .. Len(c) BY <1>2
    <2>2. t \in Range(c[h].txns) BY <1>2
    <2>3. ValidChain(c) BY <1>0 DEF Replaces
    <2> HIDE DEF h, c
    <2>4. HeightOf(t, c) = h - 1 BY <2>1, <2>2, <2>3, HeightIs
    <2> QED BY <2>4 DEF h, c
  <1>4. Excess(n)' = Len(r) + (IF n = 1 THEN 1 ELSE 0) BY <1>0 DEF Excess, Replaces
  <1>5. db.height = Len(k) + Len(r) BY <1>0, <1>2 DEF StoresInv, SharedInv
  <1>6. ChainHeight(db) + i = (Len(k) + i - 1) + (Len(r) + (IF n = 1 THEN 1 ELSE 0))
    <2>1. CASE n = 1
      <3>1. db.ccid = 0 BY <2>1, <1>0, <1>n
      <3>2. Len(Chain(db.ccid)) = 0 BY <3>1, ChainZero DEF StoresInv
      <3>3. db.height = 0 /\ Len(k) = 0 /\ Len(r) = 0 BY <3>2, <1>0, <1>2, <1>5
      <3> QED BY <2>1, <3>3 DEF ChainHeight
    <2>2. CASE n # 1
      <3>1. db.ccid \in 1 .. Len(log) BY <2>2, <1>0, <1>n
      <3>2. Len(Chain(db.ccid)) > 0 BY <3>1, LongChain DEF StoresInv
      <3>3. db.height > 0 BY <3>2, <1>0, <1>2, <1>5
      <3>4. ChainHeight(db) = Len(k) + Len(r) - 1 BY <3>3, <1>5 DEF ChainHeight
      <3> QED BY <2>2, <3>4, <1>2
    <2> QED BY <2>1, <2>2
  <1>7. ChangeOf(t)' \in 1 .. db'.ccid BY <1>0, <1>1, <1>n
  <1>8. Excess(ChangeOf(t))' = Excess(n)' BY <1>1 DEF Excess
  <1>9. HeightOf(t, Chain(db.ccid))' = HeightOf(t, k \o b) BY <1>0
  <1>10. db'.txns[t] = HeightOf(t, Chain(db.ccid))' + Excess(ChangeOf(t))'
    BY <1>3, <1>4, <1>6, <1>8, <1>9
  <1> QED BY <1>7, <1>10 DEF Dated

(* A transaction that stays keeps its height.                                  *)
LEMMA OldDated ==
  ASSUME StoresInv, NEW n, NEW k, NEW r, NEW b, NEW f, NEW X, NEW Y, Filtered(n, k, r, b, f, X, Y),
         NEW t, t \in Range(TxnsOf(k)), Dated(t), db'.txns[t] = db.txns[t]
  PROVE  Dated(t)'
  <1>0. /\ Replaces(n, k, r, b) /\ db'.ccid = n /\ log' = log
        /\ Chain(db.ccid) = k \o r /\ Chain(db.ccid)' = k \o b
        /\ k \in Seq(Blocks) /\ r \in Seq(Blocks) /\ b \in Seq(Blocks)
        /\ n = db.ccid + 1 /\ n \in 1 .. Len(log) /\ db.ccid \in 0 .. Len(log)
    BY FilteredParts DEF Filtered, StoresInv, SharedInv
  <1>n. n \in Nat /\ db.ccid \in Nat
    <2>1. Len(log) \in Nat BY ChainZero DEF StoresInv
    <2> QED BY <2>1, <1>0
  <1>1. t \notin Range(TxnsOf(b)) BY <1>0, ReplacedTxns
  <1>2. \A j \in DOMAIN log[n].blocks : t \notin Range(log[n].blocks[j].txns)
    <2>1. b = log[n].blocks BY <1>0 DEF Replaces
    <2>2. t \notin TxnsIn(b) BY <1>0, <1>1, TxnsType
    <2>3. \A j \in DOMAIN b : b[j] \in Range(b) BY DEF Range
    <2> QED BY <2>1, <2>2, <2>3 DEF TxnsIn
  <1>3. ChangesOf(t)' = ChangesOf(t)
    <2>1. \A m : m \in 1 .. n <=> m \in 1 .. db.ccid \/ m = n BY <1>0, <1>n
    <2>2. ChangesOf(t)' =
            {m \in 1 .. n : \E j \in DOMAIN log[m].blocks : t \in Range(log[m].blocks[j].txns)}
      BY <1>0 DEF ChangesOf
    <2> QED BY <2>1, <2>2, <1>2 DEF ChangesOf
  <1>4. ChangeOf(t)' = ChangeOf(t)
    <2>1. ChangeOf(t)' = Max(ChangesOf(t)') BY DEF ChangeOf, ChangesOf
    <2> QED BY <1>3, <2>1, ChangeIs
  <1>5. PICK h \in 1 .. Len(k) : t \in Range(k[h].txns) BY <1>0, BlockOf
  <1>6. ASSUME NEW e \in Seq(Blocks), ValidChain(k \o e) PROVE HeightOf(t, k \o e) = h - 1
    <2>1. k \in Seq(Blocks) BY <1>0
    <2>2. Len(k \o e) = Len(k) + Len(e) /\ (k \o e)[h] = k[h] BY <2>1, ConcatFacts
    <2>3. Len(k) \in Nat /\ Len(e) \in Nat BY <2>1
    <2> DEFINE c == k \o e
    <2>4. h \in 1 .. Len(c) BY <2>2, <2>3
    <2>5. t \in Range(c[h].txns) BY <2>2, <1>5
    <2>6. ValidChain(c) BY <1>6
    <2> HIDE DEF c
    <2>7. HeightOf(t, c) = h - 1 BY <2>4, <2>5, <2>6, HeightIs
    <2> QED BY <2>7 DEF c
  <1>7. HeightOf(t, k \o r) = HeightOf(t, k \o b) BY <1>0, <1>6 DEF Replaces
  <1>8. HeightOf(t, Chain(db.ccid))' = HeightOf(t, k \o b) BY <1>0
  <1>9. HeightOf(t, Chain(db.ccid)) = HeightOf(t, k \o r) BY <1>0
  <1>10. Excess(ChangeOf(t))' = Excess(ChangeOf(t)) BY <1>0, <1>4 DEF Excess
  <1>11. db.txns[t] = HeightOf(t, Chain(db.ccid)) + Excess(ChangeOf(t)) BY DEF Dated
  <1>12. db'.txns[t] = HeightOf(t, Chain(db.ccid))' + Excess(ChangeOf(t))'
    BY <1>7, <1>8, <1>9, <1>10, <1>11
  <1>13. ChangeOf(t)' \in 1 .. db'.ccid
    <2>1. ChangeOf(t) \in 1 .. db.ccid BY DEF Dated
    <2>2. ChangeOf(t) \in 1 .. n BY <2>1, <1>0, <1>n
    <2> QED BY <2>2, <1>0, <1>4
  <1> QED BY <1>12, <1>13 DEF Dated

LEMMA DeliverHeights ==
  ASSUME HistoryInv, Deliver
  PROVE  HeightsInv'
  <1>0. StoresInv BY DEF HistoryInv, OutputsInv
  <1>1. PICK n, k, r, b, f, X, Y : Filtered(n, k, r, b, f, X, Y) BY <1>0, DeliverFiltered
  <1>2. Replaces(n, k, r, b) /\ Chain(db.ccid) = k \o r BY <1>1, FilteredParts
  <1>3. tainted' = tainted BY DEF Deliver
  <1> SUFFICES ASSUME tainted = {}
               PROVE  DOMAIN db'.txns = Range(db'.recent) /\ \A t \in DOMAIN db'.txns : Dated(t)'
    BY <1>3 DEF HeightsInv
  <1> DEFINE S == Relevant(db.addrs)
             tk == Range(TxnsOf(k))
             tr == Range(TxnsOf(r))
             tb == Range(TxnsOf(b))
             new == tb \cap S
  <1>4. DOMAIN db.txns = Range(db.recent) /\ \A t \in DOMAIN db.txns : Dated(t)
    BY DEF HistoryInv, HeightsInv
  <1>5. Range(db.recent) \subseteq S /\ Range(db.recent) \subseteq tk \cup tr
    <2>1. Listed(db.recent, k \o r, S) BY <1>0, <1>2 DEF StoresInv, RecentInv
    <2>2. TxnsOf(k \o r) \in Seq(Txns)
      <3>1. k \o r \in Seq(Blocks) BY <1>2 DEF Replaces
      <3> QED BY <3>1, TxnsType
    <2> DEFINE A == Range(db.recent)
    <2>3. db.recent = Keep(TxnsOf(k \o r), A) /\ A \subseteq S BY <2>1 DEF Listed
    <2> HIDE DEF A
    <2>4. Range(Keep(TxnsOf(k \o r), A)) = Range(TxnsOf(k \o r)) \cap A BY <2>2, KeepFacts
    <2>5. Range(TxnsOf(k \o r)) = tk \cup tr BY <1>2, ReplacedTxns
    <2> HIDE DEF tk, tr, tb
    <2> QED BY <2>3, <2>4, <2>5 DEF A
  <1>6. tk \cap tr = {} BY <1>2, ReplacedTxns
  <1>7. Range(db'.recent) = (tk \cap Range(db.recent)) \cup new BY <1>0, <1>1, FilteredRecent
  <1>8. /\ DOMAIN db'.txns = (DOMAIN db.txns \ (tr \cap S)) \cup new
        /\ \A t \in new : \E i \in 1 .. Len(b) :
             t \in Range(b[i].txns) /\ db'.txns[t] = ChainHeight(db) + i
        /\ \A t \in DOMAIN db'.txns \ new : db'.txns[t] = db.txns[t]
    BY <1>0, <1>1, FilteredHeights
  <1> HIDE DEF tk, tr, tb, S, new
  <1>9. DOMAIN db'.txns = Range(db'.recent) BY <1>4, <1>5, <1>6, <1>7, <1>8
  <1>10. ASSUME NEW t \in DOMAIN db'.txns PROVE Dated(t)'
    <2>1. CASE t \in new
      <3>1. PICK i \in 1 .. Len(b) : t \in Range(b[i].txns) /\ db'.txns[t] = ChainHeight(db) + i
        BY <1>8, <2>1
      <3> QED BY <3>1, <1>0, <1>1, NewDated
    <2>2. CASE t \notin new
      <3>1. t \in tk /\ t \in DOMAIN db.txns BY <2>2, <1>4, <1>7, <1>9
      <3>2. Dated(t) /\ db'.txns[t] = db.txns[t] BY <3>1, <2>2, <1>4, <1>8
      <3> QED BY <3>1, <3>2, <1>0, <1>1, OldDated DEF tk
    <2> QED BY <2>1, <2>2
  <1> QED BY <1>9, <1>10

(* A new address is complete if nothing was delivered yet.                     *)
LEMMA TrackHistory ==
  ASSUME HistoryInv, NEW i \in Addr, Track(i)
  PROVE  CompleteInv' /\ HeightsInv'
  <1>0. StoresInv /\ OutputsInv /\ TrackedInv BY DEF HistoryInv, OutputsInv
  <1>1. db'.addrs = db.addrs \cup {i} /\ SameRest BY <1>0, TrackStores
  <1>2. /\ since' = [since EXCEPT ![i] = IF i \in known THEN @ ELSE db.ccid]
        /\ known' = known \cup {i} /\ log' = log /\ tainted' = tainted /\ reset' = reset
    BY DEF Track
  <1>3. SameHistory
    <2>1. db'.ccid = db.ccid BY <1>1 DEF SameRest
    <2>2. Chain(db.ccid)' = Chain(db.ccid) BY <1>0, <1>2, <2>1, SameLog
    <2> QED BY <1>1, <1>2, <2>2 DEF SameRest, SameHistory
  <1>4. HeightsInv' BY <1>2, <1>3, SameHeights
  <1>5. \A a \in Addr : since'[a] = IF a = i /\ i \notin known THEN db.ccid ELSE since[a]
    BY <1>0, <1>2 DEF TrackedInv
  <1>6. CASE i \in known
    <2>1. known' = known BY <1>2, <1>6
    <2>2. Whole' \subseteq Whole
      BY <1>0, <1>1, <1>2, <1>5, <1>6 DEF Whole, TrackedInv
    <2> QED BY <1>2, <1>3, <1>4, <2>1, <2>2, SameComplete
  <1>7. CASE i \notin known /\ db.ccid # 0
    <2>1. i \notin Whole' BY <1>2, <1>5, <1>7 DEF Whole
    <2>2. Whole' \subseteq Whole
      BY <2>1, <1>0, <1>1, <1>2, <1>5 DEF Whole, TrackedInv
    <2>3. known' # Whole' BY <1>2, <2>1
    <2>4. OnChain' = OnChain BY <1>3 DEF OnChain, SameHistory
    <2>5. \A a \in Whole' \ smeared' : OnChain' \cap ByAddr(a) \subseteq Range(db'.addrIndex[a])
      BY <1>3, <2>2, <2>4 DEF HistoryInv, CompleteInv, SameHistory
    <2>6. CompleteInv' BY <2>3, <2>5 DEF CompleteInv
    <2> QED BY <1>4, <2>6
  <1>8. CASE db.ccid = 0
    <2>1. Chain(db.ccid) = <<>> BY <1>0, <1>8, ChainZero DEF StoresInv
    <2>2. Chain(db.ccid)' = <<>> BY <2>1, <1>3 DEF SameHistory
    <2>3. OnChain' = {} BY <2>2, TxnsNone, RangeEmpty DEF OnChain
    <2>4. ASSUME known' = Whole', ~reset' PROVE db'.rewards = <<>> /\ db'.contracts = <<>>
      <3>1. ~reset BY <1>2, <2>4
      <3>2. tainted = {} BY <1>0, <1>2, <2>4 DEF Whole, TrackedInv
      <3>3. /\ db.rewards \in Seq(Payouts)
            /\ Range(db.rewards) \subseteq {Payout(b) : b \in {d \in Blocks : d.id[1] \in 1 .. db.ccid}}
        BY <1>0, <3>1 DEF StoresInv, RewardsInv
      <3>4. 1 .. db.ccid = {} BY <1>8
      <3>5. Range(db.rewards) = {} BY <3>3, <3>4
      <3>6. /\ db.contracts \in Seq(Revisions)
            /\ Range(db.contracts) \subseteq AllRevised(db.addrs, Range(TxnsOf(Chain(db.ccid))))
        BY <1>0, <3>1, <3>2 DEF StoresInv, ContractsInv
      <3>7. Range(TxnsOf(Chain(db.ccid))) = {} BY <2>1, TxnsNone, RangeEmpty
      <3>8. Range(db.contracts) = {} BY <3>6, <3>7 DEF AllRevised
      <3>9. db.rewards = <<>> BY <3>3, <3>5, EmptyRange
      <3>10. db.contracts = <<>> BY <3>6, <3>8, EmptyRange
      <3> QED BY <3>9, <3>10, <1>3 DEF SameHistory
    <2>5. CompleteInv' BY <2>2, <2>3, <2>4, HistoryEmpty DEF CompleteInv
    <2> QED BY <1>4, <2>5
  <1> QED BY <1>6, <1>7, <1>8

LEMMA ResetHistory ==
  ASSUME HistoryInv, Reset
  PROVE  CompleteInv' /\ HeightsInv'
  <1>0. StoresInv BY DEF HistoryInv, OutputsInv
  <1>1. DOMAIN db = Fields BY <1>0 DEF StoresInv, SharedInv
  <1>2. db'.txns = <<>> /\ db'.recent = <<>> /\ db'.ccid = 0 BY <1>1 DEF Reset, Fields
  <1>3. log' = log /\ reset' = TRUE BY DEF Reset
  <1>4. Chain(0) = <<>> BY <1>0, ChainZero DEF StoresInv
  <1>5. Chain(db.ccid)' = <<>> BY <1>2, <1>3, <1>4 DEF Chain
  <1>6. OnChain' = {} BY <1>5, TxnsNone, RangeEmpty DEF OnChain
  <1>7. CompleteInv' BY <1>3, <1>6 DEF CompleteInv
  <1>8. DOMAIN db'.txns = {} /\ Range(db'.recent) = {} BY <1>2, RangeEmpty
  <1>9. HeightsInv' BY <1>8 DEF HeightsInv
  <1> QED BY <1>7, <1>9

LEMMA KeptHistory ==
  ASSUME HistoryInv, log' = log, since' = since, known' = known, reset' = reset,
         db'.recent = db.recent, db'.addrIndex = db.addrIndex, db'.txns = db.txns,
         db'.rewards = db.rewards, db'.contracts = db.contracts, db'.ccid = db.ccid,
         db'.addrs \subseteq db.addrs, tainted \subseteq tainted', smeared' = smeared
  PROVE  CompleteInv' /\ HeightsInv'
  <1>1. Chain(db.ccid)' = Chain(db.ccid) BY SameLog DEF HistoryInv, OutputsInv
  <1>2. SameHistory BY <1>1 DEF SameHistory
  <1>3. Whole' \subseteq Whole BY DEF Whole
  <1> QED BY <1>2, <1>3, SameHeights, SameComplete

LEMMA StepHistory == HistoryInv /\ [Next]_vars => HistoryInv'
  <1> SUFFICES ASSUME HistoryInv, [Next]_vars PROVE HistoryInv' OBVIOUS
  <1>0. OutputsInv /\ OutputsInv' /\ StoresInv BY StepOutputs DEF HistoryInv, OutputsInv
  <1> SUFFICES CompleteInv' /\ HeightsInv' BY <1>0 DEF HistoryInv
  <1>1. ASSUME NEW revert \in 0 .. MaxReorg, Mine(revert) PROVE CompleteInv' /\ HeightsInv'
    <2>1. revert \in Nat BY WalletAssumption
    <2>2. PICK c \in Changes : log' = Append(log, c) BY <1>0, <1>1, <2>1, LogMine DEF StoresInv
    <2>3. UNCHANGED <<db, history>> BY <1>1 DEF Mine
    <2>4. log \in Seq(Changes) /\ db.ccid \in 0 .. Len(log) /\ Len(log) \in Nat
      BY <1>0, LenProperties DEF StoresInv, LogInv, LogOK, SharedInv
    <2>5. Chain(db.ccid)' = Chain(db.ccid) BY <2>2, <2>3, <2>4, PrefixOfAppend DEF Chain
    <2>6. \A m \in 1 .. db.ccid : log'[m] = log[m]
      <3>1. \A m \in 1 .. db.ccid : m \in 1 .. Len(log) BY <2>4
      <3> QED BY <3>1, <2>2, <2>4, AppendProperties
    <2>7. SameHistory BY <2>3, <2>5, <2>6 DEF SameHistory, history
    <2>8. /\ tainted \subseteq tainted' /\ known' = known /\ reset' = reset /\ Whole' \subseteq Whole
      BY <2>3 DEF history, Whole
    <2> QED BY <2>7, <2>8, SameHeights, SameComplete
  <1>2. CASE Deliver BY <1>2, DeliverComplete, DeliverHeights
  <1>3. ASSUME NEW t \in DOMAIN Txn, AddToLimbo(t) \/ RemoveFromLimbo(t)
        PROVE  CompleteInv' /\ HeightsInv'
    <2>1. DOMAIN db = Fields BY <1>0 DEF StoresInv, SharedInv
    <2>2. PICK L : db' = [db EXCEPT !.limbo = L] BY <1>3 DEF AddToLimbo, RemoveFromLimbo
    <2>3. /\ db'.recent = db.recent /\ db'.addrIndex = db.addrIndex /\ db'.txns = db.txns
          /\ db'.rewards = db.rewards /\ db'.contracts = db.contracts /\ db'.ccid = db.ccid
          /\ db'.addrs = db.addrs
      BY <2>1, <2>2 DEF Fields
    <2>4. UNCHANGED <<log, since, known, tainted, smeared, reset>> BY <1>3 DEF AddToLimbo, RemoveFromLimbo
    <2> QED BY <2>3, <2>4, KeptHistory
  <1>4. ASSUME NEW i \in Addr, AddAddress(i) PROVE CompleteInv' /\ HeightsInv'
    BY <1>4, TrackHistory DEF AddAddress
  <1>5. ASSUME NEW i \in Addr, RemoveAddress(i) PROVE CompleteInv' /\ HeightsInv'
    <2>1. SameRest BY <1>0, <1>5, RemoveStores
    <2>2. DOMAIN db = Fields BY <1>0 DEF StoresInv, SharedInv
    <2>3. /\ db' = [db EXCEPT !.addrs = @ \ {i}] /\ tainted' = tainted \cup {i}
          /\ UNCHANGED <<log, since, known, smeared, reset>>
      BY <1>5 DEF RemoveAddress
    <2>4. db'.addrs = db.addrs \ {i} BY <2>2, <2>3 DEF Fields
    <2>5. /\ db'.recent = db.recent /\ db'.addrIndex = db.addrIndex /\ db'.txns = db.txns
          /\ db'.rewards = db.rewards /\ db'.contracts = db.contracts /\ db'.ccid = db.ccid
      BY <2>1 DEF SameRest
    <2> QED BY <2>3, <2>4, <2>5, KeptHistory
  <1>6. ASSUME NEW th \in Threads, NextBegin(th) PROVE CompleteInv' /\ HeightsInv'
    <2>1. UNCHANGED <<log, db, since, known, tainted, smeared, reset>> BY <1>6 DEF NextBegin
    <2> QED BY <2>1, KeptHistory
  <1>7. ASSUME NEW th \in Threads, NextEnd(th) PROVE CompleteInv' /\ HeightsInv'
    <2>1. hot.index \in Addr /\ Track(hot.index)
      BY <1>0, <1>7, WalletAssumption DEF NextEnd, OutputsInv, TrackedInv
    <2> QED BY <2>1, TrackHistory
  <1>8. CASE Reset BY <1>8, ResetHistory
  <1>9. CASE UNCHANGED vars
    <2>1. UNCHANGED <<log, db, since, known, tainted, smeared, reset>> BY <1>9 DEF vars, history
    <2> QED BY <2>1, KeptHistory
  <1> QED BY <1>1, <1>2, <1>3, <1>4, <1>5, <1>6, <1>7, <1>8, <1>9 DEF Next

(* A list in the chain's order that has what a set holds of the chain.         *)
LEMMA ListedAll ==
  ASSUME NEW c \in Seq(Blocks), NEW S, NEW s, Listed(s, c, S),
         Range(TxnsOf(c)) \cap S \subseteq Range(s)
  PROVE  s = Keep(TxnsOf(c), S)
  <1> DEFINE A == Range(s)
  <1>1. TxnsOf(c) \in Seq(Txns) BY TxnsType
  <1>2. A \subseteq S /\ s = Keep(TxnsOf(c), A) BY DEF Listed
  <1>3. Range(TxnsOf(c)) \cap A = Range(TxnsOf(c)) \cap S BY <1>2
  <1> HIDE DEF A
  <1>4. Keep(TxnsOf(c), A) = Keep(TxnsOf(c), S) BY <1>1, <1>3, KeepSame
  <1> QED BY <1>2, <1>4

LEMMA InvHistory == HistoryInv => HistoryMatchesChain
  <1> SUFFICES ASSUME HistoryInv PROVE HistoryMatchesChain OBVIOUS
  <1> DEFINE chain == Chain(db.ccid)
             txns == TxnsOf(chain)
             all == known = Whole
  <1>0. StoresInv /\ OutputsInv /\ TrackedInv BY DEF HistoryInv, OutputsInv
  <1>c. chain \in Seq(Blocks) /\ ValidChain(chain) BY <1>0, ChainType DEF StoresInv, SharedInv
  <1>1. \A a \in known \ (tainted \cup smeared) : Listed(db.addrIndex[a], chain, ByAddr(a))
    BY <1>0 DEF TrackedInv, StoresInv, AddrIndexInv, AddrInv
  <1>2. \A a \in known \ (tainted \cup smeared) : db.addrIndex[a] = Keep(txns, Range(db.addrIndex[a]))
    BY <1>1 DEF Listed
  <1>3. ASSUME NEW a \in Whole \ smeared
        PROVE  db.addrIndex[a] = Keep(txns, {t \in DOMAIN Txn : a \in AddrsOf(t)})
    <2>1. a \in known \ (tainted \cup smeared) BY <1>0 DEF TrackedInv, Whole
    <2>2. Range(txns) \cap ByAddr(a) \subseteq Range(db.addrIndex[a])
      BY DEF HistoryInv, CompleteInv, OnChain
    <2> DEFINE S == ByAddr(a)
               s == db.addrIndex[a]
    <2>3. Listed(s, chain, S) BY <2>1, <1>1
    <2> HIDE DEF chain, S, s
    <2>4. s = Keep(TxnsOf(chain), S) BY <2>2, <2>3, <1>c, ListedAll DEF S, s
    <2> QED BY <2>4 DEF S, s, ByAddr, Txns
  <1>4. tainted = {} => Listed(db.recent, chain, Relevant(db.addrs)) BY <1>0 DEF StoresInv, RecentInv
  <1>5. tainted = {} => db.recent = Keep(txns, Range(db.recent)) BY <1>4 DEF Listed
  <1>6. ASSUME all PROVE tainted = {} /\ db.addrs = known BY <1>0, <1>6, AllWhole
  <1>7. ASSUME all
        PROVE  db.recent = Keep(txns, {t \in DOMAIN Txn : RelevantTransaction(known, t)})
    <2>1. Range(txns) \cap Relevant(known) \subseteq Range(db.recent)
      BY <1>7 DEF HistoryInv, CompleteInv, OnChain
    <2> DEFINE S == Relevant(known)
               s == db.recent
    <2>2. Listed(s, chain, S) BY <1>4, <1>6, <1>7
    <2> HIDE DEF chain, S, s
    <2>3. s = Keep(TxnsOf(chain), S) BY <2>1, <2>2, <1>c, ListedAll DEF S, s
    <2> QED BY <2>3 DEF S, s, Relevant, Txns
  <1>8. ASSUME all PROVE Range(db.recent) = DOMAIN db.txns BY <1>6, <1>8 DEF HistoryInv, HeightsInv
  <1>9. ASSUME tainted = {}, NEW t \in DOMAIN db.txns, ChangeOf(t) # 1, log[ChangeOf(t)].revert = 0
        PROVE  db.txns[t] = HeightOf(t, chain)
    <2>1. Dated(t) /\ t \in Range(db.recent) BY <1>9 DEF HistoryInv, HeightsInv
    <2>2. Range(db.recent) \subseteq Range(txns)
      <3> DEFINE A == Range(db.recent)
      <3>1. txns \in Seq(Txns) BY <1>c, TxnsType
      <3>2. db.recent = Keep(txns, A) BY <1>5, <1>9
      <3> HIDE DEF A, txns
      <3>3. Range(Keep(txns, A)) = Range(txns) \cap A BY <3>1, KeepFacts
      <3> QED BY <3>2, <3>3
    <2>3. PICK h \in 1 .. Len(chain) : t \in Range(chain[h].txns) BY <2>1, <2>2, <1>c, BlockOf
    <2>4. HeightOf(t, chain) = h - 1 BY <2>3, <1>c, HeightIs
    <2>5. HeightOf(t, chain) \in Int BY <2>4
    <2>6. ChangeOf(t) \in 1 .. db.ccid /\ db.txns[t] = HeightOf(t, chain) + Excess(ChangeOf(t))
      BY <2>1 DEF Dated
    <2> DEFINE H == HeightOf(t, chain)
    <2>7. Excess(ChangeOf(t)) = 0 BY <1>9 DEF Excess
    <2>8. db.txns[t] = H + 0 /\ H \in Int BY <2>5, <2>6, <2>7
    <2> HIDE DEF H
    <2>9. db.txns[t] = H BY <2>8
    <2> QED BY <2>9 DEF H
  <1>10. ASSUME all, ~reset
         PROVE  /\ db.rewards = processMinerPayouts(chain, known)
                /\ db.contracts = processBlocks(chain, known, 0, {}).contracts
    <2>1. db.rewards = processMinerPayouts(chain, known) /\ db.contracts = ContractsOn(chain, known)
      BY <1>10 DEF HistoryInv, CompleteInv
    <2> HIDE DEF chain
    <2> QED BY <2>1, <1>c, ContractsOnFacts
  <1> QED BY <1>2, <1>3, <1>5, <1>7, <1>8, <1>9, <1>10 DEF HistoryMatchesChain

(* ApplyConsensusChange (dbstore.go:91) lists the wallet's transactions,      *)
(* rewards and contracts as the chain has them: in its order, none twice,     *)
(* none of a reverted block, and all of them for addresses tracked from the   *)
(* start.  Left out are the list of an address of which one change applied    *)
(* two transactions (dbstore.go:178), and the height of a transaction of the  *)
(* first block or of a change that reverted blocks (wallet.go:513); that of   *)
(* any other is its block's.                                                  *)
THEOREM History == Spec => []HistoryMatchesChain
  <1>1. Spec => []HistoryInv BY HistoryInit, StepHistory, PTL DEF Spec
  <1> QED BY <1>1, InvHistory, PTL

=============================================================================
