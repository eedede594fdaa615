------------------------------- MODULE Merkle -------------------------------
(* Merkle roots and proofs: merkle/merkle.go, stack.go and proof.go.          *)
(*                                                                            *)
(* Roots are computed with one kind of stack, four nodes to a level, and      *)
(* proofs are verified with another; proofs of a range of segments, of a      *)
(* range of sectors and of an edit of the sectors enumerate subtrees each in  *)
(* a way of its own.  All of them must mean the same tree.                    *)
(*                                                                            *)
(* A hash is the term it is the hash of, written down: the hash of two hashes *)
(* is their sequence in brackets, so that equal hashes are equal terms.       *)
EXTENDS Naturals, Sequences, FiniteSets, SequencesExt, FiniteSetsExt, Bitwise, Steps

CONSTANTS SegmentsPerSector,    \* a power of two
          RootsPerCall          \* the roots DeleteSectors asks for at a time

ASSUME SegmentsAssumption ==
  /\ \E k \in 2 .. 16: SegmentsPerSector = 2 ^ k
  /\ RootsPerCall \in Nat \ {0}

SumPair(a, b) == <<"(">> \o a \o b \o <<")">>
SumLeaf(segment) == <<"[">> \o segment \o <<"]">>
NoHash == <<>>

(******************************** math/bits **********************************)
Bit(n, i) == (n \div 2 ^ i) % 2 = 1
BitLen(n) == Cardinality({i \in 0 .. 20: 2 ^ i <= n})
OnesCount(n) == Cardinality({i \in 0 .. 20: Bit(n, i)})
TrailingZeros(n) == IF n = 0 THEN 32 ELSE Min({i \in 0 .. 20: Bit(n, i)})

(******************************* appendStack *********************************)
(* levels[i] holds four roots of perfect subtrees of 2^i leaves each; used is *)
(* the number of leaves.                                                      *)
Levels == 15
EmptyStack == [levels |-> [i \in 0 .. Levels - 1 |-> <<>>], nodeBuf |-> <<>>, used |-> 0]

SumNodes(nodes) == [i \in 1 .. Len(nodes) \div 2 |-> SumPair(nodes[2 * i - 1], nodes[2 * i])]

HasLevel(s, i) == Bit(s.used \div 4, i)

(* Four nodes that meet four others of their size become four of twice it.    *)
mergeNodeBuf(s) ==
  LET top == Min({i \in 0 .. Levels - 1: ~HasLevel(s, i)})
      merged[i \in 0 .. top] ==
        IF i = 0 THEN s.nodeBuf ELSE SumNodes(s.levels[i - 1] \o merged[i - 1])
  IN  [levels |-> [s.levels EXCEPT ![top] = merged[top]], nodeBuf |-> <<>>, used |-> s.used + 4]

appendNode(s, h) ==
  LET t == [s EXCEPT !.nodeBuf = Append(@, h), !.used = @ + 1]
  IN  IF t.used % 4 = 0 THEN Given([t EXCEPT !.used = @ - 4], mergeNodeBuf) ELSE t

appendNodes(s, hs) == Steps(appendNode, s, hs)

(* Whole groups of four leaves fill the buffer at once.                       *)
appendLeaves(s, segments) ==
  LET leaves == [i \in DOMAIN segments |-> SumLeaf(segments[i])]
      rem == Len(leaves) % 4
      groups == (Len(leaves) - rem) \div 4
      Group(t, g) == Given([t EXCEPT !.nodeBuf = SubSeq(leaves, 4 * g - 3, 4 * g)], mergeNodeBuf)
  IN  appendNodes(Steps(Group, s, [g \in 1 .. groups |-> g]),
                  SubSeq(leaves, 4 * groups + 1, Len(leaves)))

root4(nodes) == SumNodes(SumNodes(nodes))[1]

stackRoot(s) ==
  LET b == s.nodeBuf
      levels == {i \in 0 .. Levels - 1: HasLevel(s, i)}
      rest == IF s.used % 4 = 0 THEN levels \ {Min(levels)} ELSE levels
      first == CASE s.used % 4 = 0 -> root4(s.levels[Min(levels)])
                 [] s.used % 4 = 1 -> b[1]
                 [] s.used % 4 = 2 -> SumPair(b[1], b[2])
                 [] s.used % 4 = 3 -> SumPair(SumPair(b[1], b[2]), b[3])
  IN  IF s.used = 0 THEN NoHash
      ELSE Steps(LAMBDA root, i: SumPair(root4(s.levels[i]), root), first,
                    SetToSortSeq(rest, <))

(* ReaderRoot appends the same leaves, four segments at a time.               *)
SectorRoot(segments) == Given(appendLeaves(EmptyStack, segments), stackRoot)

RECURSIVE MetaRoot(_)
MetaRoot(roots) ==
  IF Len(roots) <= SegmentsPerSector
  THEN Given(appendNodes(EmptyStack, roots), stackRoot)
  ELSE LET split == 2 ^ (BitLen(Len(roots) - 1) - 1)
       IN  SumPair(MetaRoot(SubSeq(roots, 1, split)), MetaRoot(SubSeq(roots, split + 1, Len(roots))))

(******************************** proofStack *********************************)
Heights == 17
EmptyProof == [stack |-> [i \in 0 .. Heights - 1 |-> NoHash], used |-> 0]

insertNode(s, h, height) ==
  LET top == Min({i \in height .. Heights - 1: ~Bit(s.used, i)})
      sum[i \in height .. top] == IF i = height THEN h ELSE SumPair(s.stack[i - 1], sum[i - 1])
  IN  [stack |-> [s.stack EXCEPT ![top] = sum[top]], used |-> s.used + 2 ^ height]

proofRoot(s) ==
  LET nodes == SetToSortSeq({i \in 0 .. Heights - 1: Bit(s.used, i)}, <)
  IN  IF nodes = <<>> THEN NoHash
      ELSE Steps(LAMBDA root, i: SumPair(s.stack[i], root), s.stack[Head(nodes)], Tail(nodes))

(******************************** range proofs *******************************)
(* Mutant: every tree is taken for a balanced one.                            *)
ProofSizeBalanced(n, start, end) ==
  OnesCount(start) + Cardinality({i \in 0 .. BitLen(n - 1) - 1: ~Bit(end - 1, i)})

ProofSize(n, start, end) ==
  LET len == BitLen((end - 1) ^^ (n - 1))
  IN  OnesCount(start) + Cardinality({i \in 0 .. len - 1: ~Bit(end - 1, i)})

nextSubtreeSize(start, end) ==
  LET ideal == TrailingZeros(start)
      max == BitLen(end - start) - 1
  IN  2 ^ (IF ideal > max THEN max ELSE ideal)

(* The ranges that buildRange and insertRange visit, as <<first, size>>.      *)
RECURSIVE Subtrees(_, _)
Subtrees(i, j) ==
  IF i >= j THEN <<>>
  ELSE <<<<i, nextSubtreeSize(i, j)>>>> \o Subtrees(i + nextSubtreeSize(i, j), j)

(* A proof that the segments [start, end) are in a sector: the roots of the   *)
(* largest halves that do not overlap them, from left to right.               *)
BuildProof(sector, start, end) ==
  LET RECURSIVE rec(_, _)
      rec(i, j) == CASE i >= start /\ j <= end -> <<>>
                     [] ~(i >= start /\ j <= end) /\ (j <= start \/ i >= end) ->
                          <<SectorRoot(SubSeq(sector, i + 1, j))>>
                     [] OTHER -> rec(i, (i + j) \div 2) \o rec((i + j) \div 2, j)
  IN  rec(0, SegmentsPerSector)

VerifyProof(proof, segments, start, end, root) ==
  LET RECURSIVE rec(_, _, _)
      \* the root of [i, j) and what is left of the proof
      rec(i, j, left) ==
        CASE i >= start /\ j <= end ->
               <<SectorRoot(SubSeq(segments, i - start + 1, j - start)), left>>
          [] ~(i >= start /\ j <= end) /\ (j <= start \/ i >= end) -> <<Head(left), Tail(left)>>
          [] OTHER -> LET l == rec(i, (i + j) \div 2, left)
                          r == rec((i + j) \div 2, j, l[2])
                      IN  <<SumPair(l[1], r[1]), r[2]>>
  IN  /\ Len(proof) = ProofSize(SegmentsPerSector, start, end)
      /\ rec(0, SegmentsPerSector, proof)[1] = root

(* Insert the next hashes of a sequence as the subtrees of [i, j).            *)
InsertRange(acc, i, j) ==
  LET Insert(a, t) == [stack |-> insertNode(a.stack, Head(a.left), TrailingZeros(t[2])),
                       left |-> Tail(a.left)]
  IN  Steps(Insert, acc, Subtrees(i, j))

(* RangeProofVerifier: the segments are read as the subtrees of their range.  *)
StreamVerify(proof, segments, start, end, root) ==
  LET ts == Subtrees(start, end)
      roots == [k \in DOMAIN ts |->
                  SectorRoot(SubSeq(segments, ts[k][1] - start + 1, ts[k][1] - start + ts[k][2]))]
      left == InsertRange([stack |-> EmptyProof, left |-> proof], 0, start)
      mid == InsertRange([stack |-> left.stack, left |-> roots], start, end)
      all == InsertRange([stack |-> mid.stack, left |-> left.left], end, SegmentsPerSector)
  IN  /\ Len(proof) = ProofSize(SegmentsPerSector, start, end)
      /\ Given(all.stack, proofRoot) = root

RangeRoots(sectorRoots, i, j) ==
  LET ts == Subtrees(i, j)
  IN  [k \in DOMAIN ts |-> MetaRoot(SubSeq(sectorRoots, ts[k][1] + 1, ts[k][1] + ts[k][2]))]

BuildSectorRangeProof(sectorRoots, start, end) ==
  RangeRoots(sectorRoots, 0, start) \o RangeRoots(sectorRoots, end, Len(sectorRoots))

InsertLeaves(s, hs) == Steps(LAMBDA t, h: insertNode(t, h, 0), s, hs)

(* "yes", "no", or "panic", which is what a number of roots other than that   *)
(* of the range does, whoever sent them.                                      *)
VerifySectorRangeProof(proof, rangeRoots, start, end, numRoots, root) ==
  LET left == InsertRange([stack |-> EmptyProof, left |-> proof], 0, start)
      mid == [left EXCEPT !.stack = InsertLeaves(@, rangeRoots)]
      all == InsertRange(mid, end, numRoots)
      Answer(p) == IF p THEN "yes" ELSE "no"
  IN  IF numRoots = 0 THEN Answer(proof = <<>>)
      ELSE IF Len(rangeRoots) # end - start \/ end > numRoots \/ start >= end THEN "panic"
      ELSE Answer(/\ Len(proof) = ProofSize(numRoots, start, end)
                  /\ Given(all.stack, proofRoot) = root)

(******************************** diff proofs ********************************)
(* Actions: [type |-> "append", root], ["trim", a], ["swap", a, b].           *)
Touched(actions, numSectors) ==
  LET Touch(acc, action) ==
        CASE action.type = "append" -> [n |-> acc.n + 1, set |-> acc.set \union {acc.n}]
          [] action.type = "trim" -> [n |-> acc.n - action.a,
                                      set |-> acc.set \union (acc.n - action.a .. acc.n - 1)]
          [] action.type = "swap" -> [acc EXCEPT !.set = @ \union {action.a, action.b}]
  IN  Steps(Touch, [n |-> numSectors, set |-> {}], actions).set

sectorsChanged(actions, numSectors) ==
  SetToSortSeq({i \in Touched(actions, numSectors): i < numSectors}, <)

(* The ranges between the changed sectors.                                    *)
Gaps(indices, n) ==
  [k \in 1 .. Len(indices) + 1 |->
     <<IF k = 1 THEN 0 ELSE indices[k - 1] + 1, IF k > Len(indices) THEN n ELSE indices[k]>>]

BuildDiffProof(actions, sectorRoots) ==
  LET indices == sectorsChanged(actions, Len(sectorRoots))
      gaps == Gaps(indices, Len(sectorRoots))
  IN  [ tree |-> FlattenSeq([k \in DOMAIN gaps |-> RangeRoots(sectorRoots, gaps[k][1], gaps[k][2])]),
        leaf |-> [k \in DOMAIN indices |-> sectorRoots[indices[k] + 1]] ]

verifyMulti(indices, tree, leaf, n, root) ==
  LET gaps == Gaps(indices, n)
      Step(acc, k) ==
        LET a == InsertRange(acc, gaps[k][1], gaps[k][2])
        IN  IF k > Len(indices) THEN a ELSE [a EXCEPT !.stack = insertNode(@, leaf[k], 0)]
      all == Steps(Step, [stack |-> EmptyProof, left |-> tree], [k \in DOMAIN gaps |-> k])
  IN  Given(all.stack, proofRoot) = root

modifyProofRanges(indices, actions, numSectors) ==
  LET Apply(acc, action) ==
        CASE action.type = "append" -> [n |-> acc.n + 1, ix |-> Append(acc.ix, acc.n)]
          [] action.type = "trim" -> [n |-> acc.n - action.a,
                                      ix |-> SubSeq(acc.ix, 1, Len(acc.ix) - action.a)]
          [] action.type = "swap" -> acc
  IN  Steps(Apply, [n |-> numSectors, ix |-> indices], actions).ix

(* The place of a sector among the leaves of the proof: its rank among all    *)
(* the sectors that the actions touch.                                        *)
LeafIndex(touched, i) == Cardinality({j \in touched: j < i}) + 1

modifyLeaves(leaf, actions, numSectors) ==
  LET touched == Touched(actions, numSectors)
      Apply(hs, action) ==
        CASE action.type = "append" -> Append(hs, action.root)
          [] action.type = "trim" -> SubSeq(hs, 1, Len(hs) - action.a)
          [] action.type = "swap" ->
               LET i == LeafIndex(touched, action.a)
                   j == LeafIndex(touched, action.b)
               IN  [hs EXCEPT ![i] = hs[j], ![j] = hs[i]]
  IN  Steps(Apply, leaf, actions)

(* Mutant: the new root is computed and not compared.                         *)
VerifyDiffProofOld(actions, numLeaves, proof, oldRoot, newRoot) ==
  LET indices == sectorsChanged(actions, numLeaves)
  IN  /\ Len(indices) = Len(proof.leaf)
      /\ verifyMulti(indices, proof.tree, proof.leaf, numLeaves, oldRoot)

VerifyDiffProof(actions, numLeaves, proof, oldRoot, newRoot) ==
  LET indices == sectorsChanged(actions, numLeaves)
      newLeaf == modifyLeaves(proof.leaf, actions, numLeaves)
      newIndices == modifyProofRanges(indices, actions, numLeaves)
      newNum == (numLeaves + Len(newLeaf)) - Len(proof.leaf)
  IN  /\ Len(indices) = Len(proof.leaf)
      /\ verifyMulti(indices, proof.tree, proof.leaf, numLeaves, oldRoot)
      /\ verifyMulti(newIndices, proof.tree, newLeaf, newNum, newRoot)

(***************************** deleting sectors ******************************)
(* The roots of a contract as Session.DeleteSectors gets them, from one call  *)
(* of SectorRoots after the other; each verifies its proof.                   *)
RootsVerify(sectorRoots) ==
  LET n == Len(sectorRoots)
      root == MetaRoot(sectorRoots)
  IN  \A k \in 0 .. (n - 1) \div RootsPerCall:
        LET start == k * RootsPerCall
            end == Min({n, start + RootsPerCall})
        IN  VerifySectorRangeProof(BuildSectorRangeProof(sectorRoots, start, end),
                                   SubSeq(sectorRoots, start + 1, end), start, end, n, root) = "yes"

(* rootIndices holds one index for a root: the last.                          *)
LastIndex(sectorRoots, r) == Max({i \in DOMAIN sectorRoots: sectorRoots[i] = r}) - 1

badIndices(sectorRoots, roots) ==
  {LastIndex(sectorRoots, r): r \in {r \in roots: r \in Range(sectorRoots)}}

SwapsAndTrim(sectorRoots, bad) ==
  LET swaps == [k \in DOMAIN bad |-> [type |-> "swap", a |-> Len(sectorRoots) - k, b |-> bad[k]]]
  IN  Append(SelectSeq(swaps, LAMBDA action: action.a # action.b),
             [type |-> "trim", a |-> Len(bad)])

(* Mutant: the bad sectors are taken in ascending order.                      *)
DeleteSectorsAscending(sectorRoots, roots) ==
  SwapsAndTrim(sectorRoots, SetToSortSeq(badIndices(sectorRoots, roots), <))

(* The actions that delete roots: from the last sector of the contract        *)
(* backwards, each bad sector changes places with what is there, and they are *)
(* cut off.                                                                   *)
DeleteSectors(sectorRoots, roots) ==
  SwapsAndTrim(sectorRoots, SetToSortSeq(badIndices(sectorRoots, roots), >))

(********************************* reference *********************************)
(* The tree these must all mean: a perfect left half, as large as can be.     *)
RECURSIVE Tree(_)
Tree(hs) ==
  CASE hs = <<>> -> NoHash
    [] Len(hs) = 1 -> hs[1]
    [] OTHER -> LET split == Max({2 ^ k: k \in {k \in 0 .. 8: 2 ^ k < Len(hs)}})
                IN  SumPair(Tree(SubSeq(hs, 1, split)), Tree(SubSeq(hs, split + 1, Len(hs))))

(* What the actions do to a sequence of roots.                                *)
Edit(roots, actions) ==
  Steps(LAMBDA rs, action:
             CASE action.type = "append" -> Append(rs, action.root)
               [] action.type = "trim" -> SubSeq(rs, 1, Len(rs) - action.a)
               [] action.type = "swap" -> [rs EXCEPT ![action.a + 1] = rs[action.b + 1],
                                                     ![action.b + 1] = rs[action.a + 1]],
           roots, actions)
=============================================================================
