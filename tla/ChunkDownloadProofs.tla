------------------------- MODULE ChunkDownloadProofs -------------------------
(***************************************************************************)
(* For every set of calls, shards and hosts: DownloadChunk returns shards  *)
(* only if enough buffers are filled, fails only if too few shards are     *)
(* left, and when it returns none of its workers is at work or has a host. *)
(***************************************************************************)
EXTENDS ChunkDownload, FiniteSetTheorems, TLAPS

States == {"none", "sent", "waiting", "held", "acquired", "ok", "failed"}

TypeOK ==
  /\ user \in [Hosts -> Workers \cup {Nobody}]
  /\ parallel \in [Downloads -> BOOLEAN]
  /\ place \in [Downloads -> [Shards -> Hosts \cup {Unset}]]
  /\ phase \in [Downloads -> {"start", "collect", "done"}]
  /\ queue \in [Downloads -> Seq(Shards \X BOOLEAN)]
  /\ job \in [Downloads -> [Shards -> States]]
  /\ waits \in [Downloads -> SUBSET Shards]
  /\ good \in [Downloads -> SUBSET Shards]
  /\ errs \in [Downloads -> SUBSET Shards]
  /\ buffer \in [Downloads -> SUBSET Shards]
  /\ broken \in [Downloads -> SUBSET Shards]
  /\ result \in [Downloads -> {"running", "shards", "error"}]

(* A shard is counted as downloaded only when its bytes are there, and as  *)
(* failed only when it was not supplied.                                   *)
Deserved(d) ==
  /\ good[d] \subseteq buffer[d]
  /\ errs[d] \subseteq broken[d]
  /\ \A i \in Shards : /\ job[d][i] = "ok" => i \in buffer[d]
                       /\ job[d][i] = "failed" => i \in broken[d]

(* The request of a shard is queued, in flight or settled one way or the   *)
(* other, and never two of these.                                          *)
Apart(d) ==
  /\ \A k \in 1 .. Len(queue[d]) :
       /\ job[d][queue[d][k][1]] = "none"
       /\ queue[d][k][1] \notin good[d] \cup errs[d]
       /\ \A m \in 1 .. Len(queue[d]) : queue[d][k][1] = queue[d][m][1] => k = m
  /\ \A i \in Shards : job[d][i] # "none" => i \notin good[d] \cup errs[d]
  /\ good[d] \cap errs[d] = {}

(* No more requests are in flight than shards are wanted, and no request   *)
(* is in flight before the call starts or after it has returned.           *)
InBounds(d) ==
  /\ Cardinality(good[d]) + Cardinality(Inflight(d)) <= MinShards
  /\ ~parallel[d] => \A i, j \in Inflight(d) : i = j
  /\ phase[d] \in {"start", "done"} => Inflight(d) = {}
  /\ phase[d] = "start" => good[d] = {} /\ errs[d] = {} /\ result[d] = "running"

(* What the result says, in terms of what was counted. *)
Judged(d) ==
  /\ result[d] = "shards" => Cardinality(good[d]) >= MinShards
  /\ result[d] = "error" =>
       \/ /\ Cardinality(good[d]) < MinShards
          /\ Cardinality(good[d]) + Cardinality(errs[d]) >= Cardinality(Shards)
       \/ ~parallel[d] /\ \E i \in broken[d] : place[d][i] = Unset
  /\ result[d] # "running" => phase[d] = "done"

DInv(d) == Deserved(d) /\ Apart(d) /\ InBounds(d) /\ Judged(d)

(* A host is lent only to the worker that is to fetch a shard from it. *)
Lent ==
  \A h \in Hosts, d \in Downloads, i \in Shards :
    user[h] = <<d, i>> => job[d][i] = "held" /\ place[d][i] = h

IInv == TypeOK /\ (\A d \in Downloads : DInv(d)) /\ Lent

(* When DownloadChunk returns, none of its workers is at work or has a     *)
(* host: closing the request channel is all it takes.                      *)
NothingLeftBehind ==
  \A d \in Downloads : phase[d] = "done" =>
    /\ Inflight(d) = {}
    /\ \A h \in Hosts, i \in Shards : user[h] # <<d, i>>

-----------------------------------------------------------------------------
(* Counting shards.                                                        *)

LEMMA Finite ==
  ASSUME NEW S \in SUBSET Shards
  PROVE  IsFiniteSet(S) /\ Cardinality(S) \in Nat
  BY FS_Subset, FS_CardinalityType, DownloadAssumption

LEMMA MinShardsNat == MinShards \in Nat \ {0} /\ MinShards <= Cardinality(Shards)
  <1>1. Cardinality(Shards) \in Nat BY Finite
  <1> QED BY <1>1, DownloadAssumption

LEMMA AtMostOne ==
  ASSUME NEW S \in SUBSET Shards, \A i, j \in S : i = j
  PROVE  Cardinality(S) <= 1
  <1>1. CASE S = {} BY <1>1, FS_EmptySet
  <1>2. CASE S # {}
    <2>1. PICK x : S = {x} BY <1>2
    <2> QED BY <2>1, FS_Singleton
  <1> QED BY <1>1, <1>2

(* Another request in place of one: no more requests than before. *)
LEMMA Exchange ==
  ASSUME NEW S \in SUBSET Shards, NEW i \in S, NEW j \in Shards
  PROVE  /\ Cardinality(S \ {i}) = Cardinality(S) - 1
         /\ Cardinality((S \ {i}) \cup {j}) <= Cardinality(S)
  <1>1. IsFiniteSet(S) /\ Cardinality(S) \in Nat BY Finite
  <1>2. IsFiniteSet(S \ {i}) /\ Cardinality(S \ {i}) = Cardinality(S) - 1
    BY <1>1, FS_RemoveElement
  <1>3. \/ Cardinality((S \ {i}) \cup {j}) = Cardinality(S \ {i})
        \/ Cardinality((S \ {i}) \cup {j}) = Cardinality(S \ {i}) + 1
    BY <1>2, FS_AddElement
  <1> QED BY <1>1, <1>2, <1>3

-----------------------------------------------------------------------------
(* Steps.  Each is a step of one call, which leaves the others alone.      *)

Alone(d) ==
  \A v \in Downloads \ {d} :
    /\ parallel'[v] = parallel[v]
    /\ place'[v] = place[v]
    /\ phase'[v] = phase[v]
    /\ queue'[v] = queue[v]
    /\ job'[v] = job[v]
    /\ good'[v] = good[v]
    /\ errs'[v] = errs[v]
    /\ buffer'[v] = buffer[v]
    /\ broken'[v] = broken[v]
    /\ result'[v] = result[v]

LEMMA OneCall ==
  ASSUME IInv, NEW d \in Downloads, Alone(d), TypeOK', DInv(d)', Lent'
  PROVE  IInv'
  <1>1. ASSUME NEW v \in Downloads \ {d} PROVE DInv(v)'
    <2>1. Inflight(v)' = Inflight(v) BY DEF Alone, Inflight
    <2>2. DInv(v) BY DEF IInv
    <2>3. Deserved(v)' BY <2>2 DEF DInv, Deserved, Alone
    <2>4. Apart(v)' BY <2>2 DEF DInv, Apart, Alone
    <2>5. InBounds(v)' BY <2>1, <2>2 DEF DInv, InBounds, Alone
    <2>6. Judged(v)' BY <2>2 DEF DInv, Judged, Alone
    <2> QED BY <2>3, <2>4, <2>5, <2>6 DEF DInv
  <1> QED BY <1>1 DEF IInv

(* The state of a worker's request advances. *)
LEMMA WorkerStep ==
  ASSUME IInv, NEW d \in Downloads, NEW i \in Shards, NEW st \in States \ {"none"},
         job[d][i] # "none", Advance(d, i, st), TypeOK', Lent',
         buffer[d] \subseteq buffer'[d], broken[d] \subseteq broken'[d],
         \A v \in Downloads \ {d} : buffer'[v] = buffer[v] /\ broken'[v] = broken[v],
         st = "ok" => i \in buffer'[d], st = "failed" => i \in broken'[d],
         UNCHANGED <<place, main>>
  PROVE  IInv'
  <1>1. /\ \A v \in Downloads \ {d} : job'[v] = job[v]
        /\ \A k \in Shards : job'[d][k] = IF k = i THEN st ELSE job[d][k]
    BY DEF Advance, IInv, TypeOK
  <1>2. Alone(d) BY <1>1 DEF Alone, main
  <1>3. Inflight(d)' = Inflight(d) BY <1>1 DEF Inflight
  <1>4. DInv(d) /\ TypeOK BY DEF IInv
  <1>5. Deserved(d)' BY <1>1, <1>4 DEF DInv, Deserved, main
  <1>6. Apart(d)'
    <2>1. \A k \in 1 .. Len(queue[d]) : queue[d][k][1] \in Shards BY <1>4 DEF TypeOK
    <2> QED BY <1>1, <1>4, <2>1 DEF DInv, Apart, main
  <1>7. InBounds(d)' BY <1>3, <1>4 DEF DInv, InBounds, main
  <1>8. Judged(d)' BY <1>4 DEF DInv, Judged, main
  <1>9. DInv(d)' BY <1>5, <1>6, <1>7, <1>8 DEF DInv
  <1> QED BY <1>2, <1>9, OneCall

LEMMA InitInv == Init => IInv
  <1> SUFFICES ASSUME Init PROVE IInv OBVIOUS
  <1> USE DEF Init
  <1>1. TypeOK
    <2>1. user \in [Hosts -> Workers \cup {Nobody}] BY DEF Locks!Init
    <2>2. queue \in [Downloads -> Seq(Shards \X BOOLEAN)] OBVIOUS
    <2>3. job \in [Downloads -> [Shards -> States]] BY DEF States
    <2> QED BY <2>1, <2>2, <2>3 DEF TypeOK
  <1>2. ASSUME NEW d \in Downloads PROVE DInv(d)
    <2>1. Inflight(d) = {} BY DEF Inflight
    <2>2. Deserved(d) BY DEF Deserved
    <2>3. Apart(d) BY DEF Apart
    <2>4. InBounds(d) BY <2>1, FS_EmptySet, MinShardsNat DEF InBounds
    <2>5. Judged(d) BY DEF Judged
    <2> QED BY <2>2, <2>3, <2>4, <2>5 DEF DInv
  <1>3. Lent
    BY DownloadAssumption DEF Lent, Locks!Init
  <1> QED BY <1>1, <1>2, <1>3 DEF IInv

(* A worker's step that neither borrows nor gives back. *)
LEMMA LentStays ==
  ASSUME IInv, NEW d \in Downloads, NEW i \in Shards, NEW st \in States,
         job[d][i] # "held", Advance(d, i, st), UNCHANGED <<user, place>>
  PROVE  Lent'
  BY DEF IInv, TypeOK, Lent, Advance

LEMMA BreakStep ==
  ASSUME IInv, NEW d \in Downloads, NEW i \in Shards, job[d][i] \in {"sent", "waiting"},
         Break(d, i), UNCHANGED <<user, place, main, waits, buffer>>
  PROVE  IInv'
  <1>1. Advance(d, i, "failed") /\ broken' = [broken EXCEPT ![d] = @ \cup {i}]
    BY DEF Break
  <1>2. "failed" \in States \ {"none"} BY DEF States
  <1>3. TypeOK' BY <1>1, <1>2 DEF IInv, TypeOK, Advance, main
  <1>4. Lent' BY <1>1, <1>2, LentStays
  <1>5. /\ broken'[d] = broken[d] \cup {i}
        /\ \A v \in Downloads \ {d} : broken'[v] = broken[v]
    BY <1>1 DEF IInv, TypeOK
  <1> QED BY <1>1, <1>2, <1>3, <1>4, <1>5, WorkerStep

LEMMA InUseStep ==
  ASSUME IInv, NEW d \in Downloads, NEW i \in Shards, InUse(d, i)
  PROVE  IInv'
  <1>1. PICK st \in {"waiting", "acquired"} : Advance(d, i, st) BY DEF InUse
  <1>2. st \in States \ {"none"} BY DEF States
  <1>3. TypeOK' BY <1>1, <1>2 DEF IInv, TypeOK, Advance, InUse, main
  <1>4. Lent' BY <1>1, <1>2, LentStays DEF InUse
  <1> QED BY <1>1, <1>2, <1>3, <1>4, WorkerStep DEF InUse

LEMMA AcquireStep ==
  ASSUME IInv, NEW d \in Downloads, NEW i \in Shards, Acquire(d, i)
  PROVE  IInv'
  <1> DEFINE g == place[d][i]
  <1>1. g \in Hosts /\ "held" \in States \ {"none"}
    BY DEF Acquire, Host, IInv, TypeOK, States
  <1>2. user' = [user EXCEPT ![g] = <<d, i>>] /\ Advance(d, i, "held")
        /\ UNCHANGED <<place, main, waits, buffer, broken>>
    BY DEF Acquire, Locks!Borrow, Host
  <1>3. TypeOK'
    <2>1. user' \in [Hosts -> Workers \cup {Nobody}] BY <1>1, <1>2 DEF IInv, TypeOK, Workers
    <2> QED BY <1>1, <1>2, <2>1 DEF IInv, TypeOK, Advance, main
  <1>4. \A v \in Downloads, k \in Shards :
          job'[v][k] = IF v = d /\ k = i THEN "held" ELSE job[v][k]
    BY <1>2 DEF Advance, IInv, TypeOK
  <1>5. ASSUME NEW h \in Hosts, NEW v \in Downloads, NEW k \in Shards, user'[h] = <<v, k>>
        PROVE  job'[v][k] = "held" /\ place'[v][k] = h
    <2>1. CASE h = g
      <3>1. <<v, k>> = <<d, i>> BY <1>1, <1>2, <1>5, <2>1 DEF IInv, TypeOK
      <3> QED BY <1>2, <1>4, <2>1, <3>1
    <2>2. CASE h # g
      <3>1. user[h] = <<v, k>> BY <1>1, <1>2, <1>5, <2>2 DEF IInv, TypeOK
      <3> QED BY <1>2, <1>4, <3>1 DEF IInv, Lent
    <2> QED BY <2>1, <2>2
  <1>6. Lent' BY <1>5 DEF Lent
  <1>7. job[d][i] # "none" BY DEF Acquire
  <1> QED BY <1>1, <1>2, <1>3, <1>6, <1>7, WorkerStep

LEMMA CopySectionStep ==
  ASSUME IInv, NEW d \in Downloads, NEW i \in Shards, CopySection(d, i)
  PROVE  IInv'
  <1> DEFINE g == place[d][i]
  <1>1. job[d][i] = "held" /\ user[g] = <<d, i>> /\ user' = [user EXCEPT ![g] = Nobody]
        /\ UNCHANGED <<place, main, waits>>
    BY DEF CopySection, Locks!GiveBack, Host
  <1>2. PICK st \in {"ok", "failed"} :
          /\ Advance(d, i, st)
          /\ buffer' = [buffer EXCEPT ![d] = IF st = "ok" THEN @ \cup {i} ELSE @]
          /\ broken' = [broken EXCEPT ![d] = IF st = "ok" THEN @ ELSE @ \cup {i}]
    <2>1. CASE Advance(d, i, "ok") /\ buffer' = [buffer EXCEPT ![d] = @ \cup {i}]
               /\ UNCHANGED broken
      BY <2>1 DEF IInv, TypeOK
    <2>2. CASE Break(d, i) /\ UNCHANGED buffer
      BY <2>2 DEF IInv, TypeOK, Break
    <2> QED BY <2>1, <2>2 DEF CopySection
  <1>3. st \in States \ {"none"} BY DEF States
  <1>4. TypeOK'
    <2>1. user' \in [Hosts -> Workers \cup {Nobody}] BY <1>1 DEF IInv, TypeOK
    <2>2. buffer' \in [Downloads -> SUBSET Shards] BY <1>2 DEF IInv, TypeOK
    <2>3. broken' \in [Downloads -> SUBSET Shards] BY <1>2 DEF IInv, TypeOK
    <2>4. job' \in [Downloads -> [Shards -> States]]
      BY <1>2, <1>3 DEF IInv, TypeOK, Advance
    <2> QED BY <1>1, <2>1, <2>2, <2>3, <2>4 DEF IInv, TypeOK, main
  <1>5. \A v \in Downloads, k \in Shards :
          job'[v][k] = IF v = d /\ k = i THEN st ELSE job[v][k]
    BY <1>2 DEF Advance, IInv, TypeOK
  <1>6. ASSUME NEW h \in Hosts, NEW v \in Downloads, NEW k \in Shards, user'[h] = <<v, k>>
        PROVE  job'[v][k] = "held" /\ place'[v][k] = h
    <2>1. Nobody # <<v, k>> BY DownloadAssumption
    <2>2. h # g /\ user[h] = <<v, k>> BY <1>1, <1>6, <2>1 DEF IInv, TypeOK
    <2>3. job[v][k] = "held" /\ place[v][k] = h BY <2>2 DEF IInv, Lent
    <2>4. v # d \/ k # i BY <2>2, <2>3
    <2> QED BY <1>1, <1>5, <2>3, <2>4
  <1>7. Lent' BY <1>6 DEF Lent
  <1>8. /\ buffer[d] \subseteq buffer'[d] /\ broken[d] \subseteq broken'[d]
        /\ \A v \in Downloads \ {d} : buffer'[v] = buffer[v] /\ broken'[v] = broken[v]
        /\ st = "ok" => i \in buffer'[d]
        /\ st = "failed" => i \in broken'[d]
    BY <1>2 DEF IInv, TypeOK
  <1> QED BY <1>1, <1>2, <1>3, <1>4, <1>7, <1>8, WorkerStep

(* The serial downloader comes to a shard that was never stored. *)
LEMMA UnknownEndsStep ==
  ASSUME IInv, NEW d \in Downloads, NEW i \in Shards, UnknownEnds(d, i)
  PROVE  IInv'
  <1>1. /\ ~parallel[d] /\ job[d][i] = "sent" /\ place[d][i] = Unset
        /\ Advance(d, i, "none")
        /\ broken' = [broken EXCEPT ![d] = @ \cup {i}]
        /\ phase' = [phase EXCEPT ![d] = "done"]
        /\ result' = [result EXCEPT ![d] = "error"]
        /\ UNCHANGED <<user, parallel, place, queue, waits, good, errs, buffer>>
    BY DEF UnknownEnds, Host
  <1>2. "none" \in States BY DEF States
  <1>3. TypeOK' BY <1>1, <1>2 DEF IInv, TypeOK, Advance
  <1>4. Lent' BY <1>1, <1>2, LentStays
  <1>5. /\ \A v \in Downloads \ {d} : job'[v] = job[v]
        /\ \A k \in Shards : job'[d][k] = IF k = i THEN "none" ELSE job[d][k]
    BY <1>1 DEF Advance, IInv, TypeOK
  <1>6. Alone(d) BY <1>1, <1>5 DEF Alone, IInv, TypeOK
  <1>7. DInv(d) /\ TypeOK BY DEF IInv
  <1>8. phase'[d] = "done" /\ result'[d] = "error" /\ broken'[d] = broken[d] \cup {i}
    BY <1>1, <1>7 DEF TypeOK
  <1>9. Inflight(d)' = {}
    <2>1. \A k \in Inflight(d) : k = i BY <1>1, <1>7 DEF DInv, InBounds, Inflight
    <2> QED BY <1>5, <2>1 DEF Inflight
  <1>10. Deserved(d)' BY <1>1, <1>5, <1>7, <1>8 DEF DInv, Deserved
  <1>11. Apart(d)' BY <1>1, <1>5, <1>7 DEF DInv, Apart, TypeOK
  <1>12. InBounds(d)'
    <2>1. Cardinality(Inflight(d)') = 0 BY <1>9, FS_EmptySet
    <2>2. Inflight(d) \in SUBSET Shards /\ good[d] \in SUBSET Shards
      BY <1>7 DEF TypeOK, Inflight
    <2>3. Cardinality(Inflight(d)) \in Nat /\ Cardinality(good[d]) \in Nat BY <2>2, Finite
    <2> QED BY <1>1, <1>7, <1>8, <1>9, <2>1, <2>3, MinShardsNat DEF DInv, InBounds
  <1>13. Judged(d)' BY <1>1, <1>8 DEF Judged
  <1>14. DInv(d)' BY <1>10, <1>11, <1>12, <1>13 DEF DInv
  <1> QED BY <1>3, <1>4, <1>6, <1>14, OneCall

LEMMA WorkStep ==
  ASSUME IInv, NEW d \in Downloads, NEW i \in Shards, Work(d, i)
  PROVE  IInv'
  <1>1. CASE UnknownShard(d, i) BY <1>1, BreakStep DEF UnknownShard
  <1>2. CASE UnknownEnds(d, i) BY <1>2, UnknownEndsStep
  <1>3. CASE Acquire(d, i) BY <1>3, AcquireStep
  <1>4. CASE Unreachable(d, i) BY <1>4, BreakStep DEF Unreachable
  <1>5. CASE InUse(d, i) BY <1>5, InUseStep
  <1>6. CASE CopySection(d, i) BY <1>6, CopySectionStep
  <1> QED BY <1>1, <1>2, <1>3, <1>4, <1>5, <1>6 DEF Work

(* The rest of the program uses hosts, which no call notices. *)
LEMMA OutsiderStep ==
  ASSUME IInv, OutsiderBorrows \/ OutsiderGivesBack
  PROVE  IInv'
  <1>1. UNCHANGED <<place, main, job, waits, buffer, broken>>
    BY DEF OutsiderBorrows, OutsiderGivesBack
  <1>2. PICK h \in Hosts, w \in {Outsider, Nobody} : user' = [user EXCEPT ![h] = w]
    BY DEF OutsiderBorrows, OutsiderGivesBack, Locks!Borrow, Locks!GiveBack
  <1>3. TypeOK' BY <1>1, <1>2 DEF IInv, TypeOK, main, Workers
  <1>4. Lent'
    <2> SUFFICES ASSUME NEW g \in Hosts, NEW d \in Downloads, NEW i \in Shards,
                        user'[g] = <<d, i>>
                 PROVE  job[d][i] = "held" /\ place[d][i] = g
      BY <1>1 DEF Lent
    <2>1. w # <<d, i>> BY DownloadAssumption
    <2>2. user[g] = <<d, i>> BY <1>2, <2>1 DEF IInv, TypeOK
    <2> QED BY <2>2 DEF IInv, Lent
  <1>5. ASSUME NEW d \in Downloads PROVE DInv(d)'
    <2>1. DInv(d) /\ Inflight(d)' = Inflight(d) BY <1>1 DEF IInv, Inflight
    <2>2. Deserved(d)' /\ Judged(d)' BY <1>1, <2>1 DEF DInv, Deserved, Judged, main
    <2>3. Apart(d)' BY <1>1, <2>1 DEF DInv, Apart, main
    <2>4. InBounds(d)' BY <1>1, <2>1 DEF DInv, InBounds, main
    <2> QED BY <2>2, <2>3, <2>4 DEF DInv
  <1> QED BY <1>3, <1>4, <1>5 DEF IInv

-----------------------------------------------------------------------------
(* Steps of the call.                                                      *)

LEMMA IsSeq ==
  ASSUME NEW S, NEW n \in Nat, NEW f \in [1 .. n -> S]
  PROVE  f \in Seq(S) /\ Len(f) = n
  OBVIOUS

LEMMA StartStep ==
  ASSUME IInv, NEW d \in Downloads, Start(d)
  PROVE  IInv'
  <1> DEFINE width == IF parallel[d] THEN MinShards ELSE 1
             N == Cardinality(Shards)
  <1>1. width \in Nat \ {0} /\ width <= MinShards /\ width <= N /\ N \in Nat
    BY Finite, MinShardsNat
  <1>2. PICK q \in Order(d) :
          /\ job' = [job EXCEPT ![d] =
                       [i \in Shards |-> IF i \in {q[k] : k \in 1 .. width}
                                         THEN "sent" ELSE "none"]]
          /\ waits' = [waits EXCEPT ![d] = IF parallel[d] THEN {}
                                           ELSE {q[k] : k \in 1 .. width}]
          /\ queue' = [queue EXCEPT ![d] = [k \in 1 .. Len(q) - width |->
                                              <<q[k + width], ~parallel[d]>>]]
    BY DEF Start
  <1> HIDE DEF width, N
  <1> DEFINE first == {q[k] : k \in 1 .. width}
             rest == [k \in 1 .. Len(q) - width |-> <<q[k + width], ~parallel[d]>>]
  <1>3. q \in [1 .. N -> Shards] /\ \A k, m \in 1 .. N : k # m => q[k] # q[m]
    BY DEF Order, SetToSeqs, N
  <1>4. Len(q) = N BY <1>1, <1>3, IsSeq
  <1>5. first \in SUBSET Shards BY <1>1, <1>3
  <1>6. /\ rest \in Seq(Shards \X BOOLEAN) /\ Len(rest) = N - width
        /\ \A k \in 1 .. N - width : rest[k][1] = q[k + width]
    <2>1. parallel[d] \in BOOLEAN BY DEF IInv, TypeOK
    <2>2. N - width \in Nat BY <1>1
    <2>3. \A k \in 1 .. N - width : k + width \in 1 .. N /\ q[k + width] \in Shards
      BY <1>1, <1>3
    <2>4. rest = [k \in 1 .. N - width |-> <<q[k + width], ~parallel[d]>>] BY <1>4
    <2>5. rest \in [1 .. N - width -> Shards \X BOOLEAN] BY <2>1, <2>3, <2>4
    <2>6. \A k \in 1 .. N - width : rest[k][1] = q[k + width] BY <2>4
    <2> HIDE DEF rest
    <2>7. rest \in Seq(Shards \X BOOLEAN) /\ Len(rest) = N - width BY <2>2, <2>5, IsSeq
    <2> QED BY <2>6, <2>7
  <1>7. /\ phase[d] = "start" /\ phase' = [phase EXCEPT ![d] = "collect"]
        /\ UNCHANGED <<user, parallel, place, good, errs, buffer, broken, result>>
    BY DEF Start
  <1>8. Cardinality(first) <= width
    <2> DEFINE f == [k \in 1 .. width |-> q[k]]
    <2>1. f \in Surjection(1 .. width, first) BY DEF Surjection
    <2>2. IsFiniteSet(1 .. width) /\ Cardinality(1 .. width) = width
      BY <1>1, FS_Interval
    <2> QED BY <2>1, <2>2, FS_Surjection
  <1>9. /\ job' = [job EXCEPT ![d] = [i \in Shards |-> IF i \in first THEN "sent" ELSE "none"]]
        /\ queue' = [queue EXCEPT ![d] = rest]
        /\ waits' = [waits EXCEPT ![d] = IF parallel[d] THEN {} ELSE first]
    BY <1>2
  <1>10. ~parallel[d] => \A i, j \in first : i = j
    <2>1. ~parallel[d] => width = 1 BY DEF width
    <2> QED BY <2>1
  <1>11. \A k \in 1 .. N - width : q[k + width] \notin first /\ q[k + width] \in Shards
    BY <1>1, <1>3
  <1>12. \A k, m \in 1 .. N - width : q[k + width] = q[m + width] => k = m BY <1>1, <1>3
  <1> HIDE DEF first, rest
  <1>13. TypeOK'
    <2>1. job' \in [Downloads -> [Shards -> States]] BY <1>9 DEF IInv, TypeOK, States
    <2>2. queue' \in [Downloads -> Seq(Shards \X BOOLEAN)] BY <1>6, <1>9 DEF IInv, TypeOK
    <2>3. waits' \in [Downloads -> SUBSET Shards] BY <1>5, <1>9 DEF IInv, TypeOK
    <2> QED BY <1>7, <2>1, <2>2, <2>3 DEF IInv, TypeOK
  <1>14. Alone(d) BY <1>7, <1>9 DEF Alone, IInv, TypeOK
  <1>15. DInv(d) /\ TypeOK BY DEF IInv
  <1>16. /\ \A i \in Shards : job'[d][i] = IF i \in first THEN "sent" ELSE "none"
         /\ queue'[d] = rest /\ phase'[d] = "collect"
    BY <1>7, <1>9, <1>15 DEF TypeOK
  <1>17. Inflight(d)' = first BY <1>5, <1>16 DEF Inflight
  <1>18. good[d] = {} /\ errs[d] = {} /\ result[d] = "running" /\ Inflight(d) = {}
    BY <1>7, <1>15 DEF DInv, InBounds
  <1>19. Lent'
    <2>1. \A h \in Hosts, i \in Shards : user[h] # <<d, i>>
      BY <1>18 DEF IInv, Lent, Inflight
    <2> QED BY <1>7, <1>14, <2>1 DEF IInv, Lent, Alone
  <1>20. Deserved(d)' BY <1>7, <1>15, <1>16 DEF DInv, Deserved
  <1>21. Apart(d)'
    <2>1. \A k \in 1 .. Len(rest) : /\ rest[k][1] \in Shards /\ rest[k][1] \notin first
                                   /\ \A m \in 1 .. Len(rest) : rest[k][1] = rest[m][1] => k = m
      BY <1>6, <1>11, <1>12
    <2> QED BY <1>7, <1>16, <1>18, <2>1 DEF Apart
  <1>22. InBounds(d)'
    <2>1. Cardinality(good[d]) = 0 BY <1>18, FS_EmptySet
    <2>2. Cardinality(first) \in Nat BY <1>5, Finite
    <2> QED BY <1>1, <1>7, <1>8, <1>10, <1>16, <1>17, <2>1, <2>2, MinShardsNat DEF InBounds
  <1>23. Judged(d)' BY <1>7, <1>18 DEF Judged
  <1>24. DInv(d)' BY <1>20, <1>21, <1>22, <1>23 DEF DInv
  <1> QED BY <1>13, <1>14, <1>19, <1>24, OneCall

(* No worker is at work when enough shards have come or all have failed. *)
LEMMA ReturnStep ==
  ASSUME IInv, NEW d \in Downloads, Return(d)
  PROVE  IInv'
  <1>1. /\ phase[d] = "collect" /\ ~Unfinished(d)
        /\ phase' = [phase EXCEPT ![d] = "done"]
        /\ result' = [result EXCEPT
                        ![d] = IF Cardinality(good[d]) < MinShards THEN "error" ELSE "shards"]
        /\ UNCHANGED <<user, parallel, place, queue, job, waits, good, errs, buffer, broken>>
    BY DEF Return
  <1>2. TypeOK' /\ Alone(d) BY <1>1 DEF IInv, TypeOK, Alone
  <1>3. Lent' BY <1>1 DEF IInv, Lent
  <1>4. DInv(d) /\ TypeOK BY DEF IInv
  <1>5. phase'[d] = "done"
        /\ result'[d] = IF Cardinality(good[d]) < MinShards THEN "error" ELSE "shards"
    BY <1>1, <1>4 DEF TypeOK
  <1>6. good[d] \in SUBSET Shards /\ errs[d] \in SUBSET Shards
        /\ Inflight(d) \in SUBSET Shards /\ good[d] \cup errs[d] \in SUBSET Shards
    BY <1>4 DEF TypeOK, Inflight
  <1>7. /\ Cardinality(good[d]) \in Nat /\ Cardinality(errs[d]) \in Nat
        /\ Cardinality(Inflight(d)) \in Nat /\ Cardinality(Shards) \in Nat
        /\ IsFiniteSet(good[d]) /\ IsFiniteSet(errs[d]) /\ IsFiniteSet(Inflight(d))
        /\ IsFiniteSet(Shards) /\ Cardinality(good[d] \cup errs[d]) \in Nat
    BY <1>6, Finite
  <1>8. Inflight(d) = {}
    <2>1. CASE Cardinality(good[d]) >= MinShards
      <3>1. Cardinality(Inflight(d)) = 0
        BY <1>4, <1>7, <2>1, MinShardsNat DEF DInv, InBounds
      <3> QED BY <1>7, <3>1, FS_EmptySet
    <2>2. CASE Cardinality(good[d]) + Cardinality(errs[d]) >= Cardinality(Shards)
      <3>1. Cardinality(good[d] \cap errs[d]) = 0
        BY <1>4, FS_EmptySet DEF DInv, Apart
      <3>2. Cardinality(good[d] \cup errs[d]) = Cardinality(good[d]) + Cardinality(errs[d])
        <4>1. Cardinality(good[d] \cup errs[d])
              = Cardinality(good[d]) + Cardinality(errs[d]) - Cardinality(good[d] \cap errs[d])
          BY <1>7, FS_Union
        <4> QED BY <1>7, <3>1, <4>1
      <3>3. Cardinality(good[d] \cup errs[d]) = Cardinality(Shards)
        <4>1. Cardinality(good[d] \cup errs[d]) <= Cardinality(Shards)
          BY <1>6, <1>7, FS_Subset
        <4> QED BY <1>7, <2>2, <3>2, <4>1
      <3>4. good[d] \cup errs[d] = Shards BY <1>6, <1>7, <3>3, FS_Subset
      <3> QED BY <1>4, <3>4 DEF DInv, Apart, Inflight
    <2> QED BY <1>1, <1>7, <2>1, <2>2, MinShardsNat DEF Unfinished
  <1>9. Inflight(d)' = Inflight(d) BY <1>1 DEF Inflight
  <1>10. Deserved(d)' /\ Apart(d)' BY <1>1, <1>4 DEF DInv, Deserved, Apart
  <1>11. InBounds(d)' BY <1>1, <1>4, <1>5, <1>8, <1>9 DEF DInv, InBounds
  <1>12. Judged(d)'
    BY <1>1, <1>5, <1>7, MinShardsNat DEF Judged, Unfinished
  <1>13. DInv(d)' BY <1>10, <1>11, <1>12 DEF DInv
  <1> QED BY <1>2, <1>3, <1>13, OneCall

(* The shards whose requests are queued differ. *)
Singles(q) ==
  \A k, m \in 1 .. Len(q) : q[k][1] = q[m][1] => k = m

(* What SendNext does: the answered request is dropped, the head of the    *)
(* queue takes its place, and the rest of the queue stays.                 *)
LEMMA SendNextDoes ==
  ASSUME TypeOK, NEW d \in Downloads, NEW i \in Shards,
         NEW q \in Seq(Shards \X BOOLEAN), SendNext(d, i, q),
         job[d][i] # "none", Singles(q),
         \A k \in 1 .. Len(q) : q[k][1] = i \/ job[d][q[k][1]] = "none"
  PROVE  /\ queue' \in [Downloads -> Seq(Shards \X BOOLEAN)]
         /\ job' \in [Downloads -> [Shards -> States]]
         /\ waits' \in [Downloads -> SUBSET Shards]
         /\ \A v \in Downloads \ {d} : queue'[v] = queue[v] /\ job'[v] = job[v]
         /\ \A k \in Shards :
              \/ job'[d][k] = "none"
              \/ job'[d][k] = job[d][k] /\ k # i
              \/ job'[d][k] = "sent" /\ \E m \in 1 .. Len(q) : q[m][1] = k
         /\ \A k \in Shards : job[d][k] = "held" /\ k # i => job'[d][k] = "held"
         /\ Singles(queue'[d])
         /\ \A k \in 1 .. Len(queue'[d]) :
              /\ job'[d][queue'[d][k][1]] = "none"
              /\ \E m \in 1 .. Len(q) : queue'[d][k] = q[m]
         /\ Cardinality(Inflight(d)') <= Cardinality(Inflight(d))
         /\ (\A a, b \in Inflight(d) : a = b) => (\A a, b \in Inflight(d)' : a = b)
  <1>0. i \in Inflight(d) /\ Inflight(d) \in SUBSET Shards BY DEF Inflight
  <1>1. CASE q = << >>
    <2>1. queue' = [queue EXCEPT ![d] = q] /\ Advance(d, i, "none") /\ waits' = waits
      BY <1>1 DEF SendNext
    <2>2. /\ job' \in [Downloads -> [Shards -> States]]
          /\ \A v \in Downloads \ {d} : job'[v] = job[v]
          /\ \A k \in Shards : job'[d][k] = IF k = i THEN "none" ELSE job[d][k]
      BY <2>1 DEF Advance, TypeOK, States
    <2>3. /\ queue' \in [Downloads -> Seq(Shards \X BOOLEAN)] /\ queue'[d] = q
          /\ \A v \in Downloads \ {d} : queue'[v] = queue[v]
          /\ waits' \in [Downloads -> SUBSET Shards]
      BY <2>1 DEF TypeOK
    <2>4. Len(q) = 0 BY <1>1
    <2>5. Inflight(d)' = Inflight(d) \ {i} BY <2>2 DEF Inflight
    <2>6. Cardinality(Inflight(d)') <= Cardinality(Inflight(d))
      BY <1>0, <2>5, Exchange, Finite
    <2>7. Singles(queue'[d]) /\ \A k \in 1 .. Len(queue'[d]) : FALSE
      BY <2>3, <2>4 DEF Singles
    <2> QED BY <2>2, <2>3, <2>5, <2>6, <2>7
  <1>2. CASE q # << >>
    <2> DEFINE n == q[1][1]
    <2>1. Head(q) = q[1] /\ Len(q) >= 1 /\ Len(q) \in Nat /\ q[1] \in Shards \X BOOLEAN BY <1>2
    <2>2. /\ Tail(q) \in Seq(Shards \X BOOLEAN) /\ Len(Tail(q)) = Len(q) - 1
          /\ \A k \in 1 .. Len(q) - 1 : Tail(q)[k] = q[k + 1]
      BY <1>2
    <2>3. /\ queue' = [queue EXCEPT ![d] = Tail(q)]
          /\ job' = [job EXCEPT ![d] = [@ EXCEPT ![i] = "none", ![n] = "sent"]]
          /\ waits' = [waits EXCEPT ![d] = IF q[1][2] THEN @ \cup {n} ELSE @ \ {n}]
      BY <1>2, <2>1 DEF SendNext
    <2>4. n \in Shards BY <2>1
    <2> HIDE DEF n
    <2>5. /\ job' \in [Downloads -> [Shards -> States]]
          /\ \A v \in Downloads \ {d} : job'[v] = job[v]
          /\ \A k \in Shards :
               job'[d][k] = IF k = n THEN "sent" ELSE IF k = i THEN "none" ELSE job[d][k]
      BY <2>3, <2>4 DEF TypeOK, States
    <2>6. /\ queue' \in [Downloads -> Seq(Shards \X BOOLEAN)] /\ queue'[d] = Tail(q)
          /\ \A v \in Downloads \ {d} : queue'[v] = queue[v]
      BY <2>2, <2>3 DEF TypeOK
    <2>7. waits' \in [Downloads -> SUBSET Shards] BY <2>3, <2>4 DEF TypeOK
    <2>8. n = i \/ job[d][n] = "none" BY <2>1 DEF n
    <2>9. Inflight(d)' = (Inflight(d) \ {i}) \cup {n} BY <2>4, <2>5, <2>8 DEF Inflight
    <2>10. Cardinality(Inflight(d)') <= Cardinality(Inflight(d))
      BY <1>0, <2>4, <2>9, Exchange
    <2>11. \A k \in 1 .. Len(Tail(q)) :
             k + 1 \in 1 .. Len(q) /\ Tail(q)[k] = q[k + 1] /\ q[k + 1][1] # n
             /\ q[k + 1][1] \in Shards
      BY <2>1, <2>2 DEF Singles, n
    <2>12. Singles(Tail(q)) BY <2>1, <2>2, <2>11 DEF Singles
    <2>13. ASSUME NEW k \in 1 .. Len(Tail(q))
           PROVE  /\ job'[d][Tail(q)[k][1]] = "none"
                  /\ \E m \in 1 .. Len(q) : Tail(q)[k] = q[m]
      <3>1. PICK m \in 1 .. Len(q) : Tail(q)[k] = q[m] /\ q[m][1] # n /\ q[m][1] \in Shards
        BY <2>11
      <3>2. q[m][1] = i \/ job[d][q[m][1]] = "none" OBVIOUS
      <3> QED BY <2>5, <3>1, <3>2
    <2>14. \E m \in 1 .. Len(q) : q[m][1] = n BY <2>1 DEF n
    <2>15. \A k \in Shards : job[d][k] = "held" /\ k # i => job'[d][k] = "held"
      BY <2>5, <2>8
    <2>16. (\A a, b \in Inflight(d) : a = b) => (\A a, b \in Inflight(d)' : a = b)
      BY <1>0, <2>9
    <2> QED BY <2>5, <2>6, <2>7, <2>10, <2>12, <2>13, <2>14, <2>15, <2>16
  <1> QED BY <1>1, <1>2

(* Collecting an answer: the shard is settled, or its request queued again, *)
(* and the next request sent.                                               *)
LEMMA SettleStep ==
  ASSUME IInv, NEW d \in Downloads, NEW i \in Shards, NEW q \in Seq(Shards \X BOOLEAN),
         NEW g \in SUBSET Shards, NEW e \in SUBSET Shards,
         phase[d] = "collect", job[d][i] \in {"ok", "acquired", "failed"},
         SendNext(d, i, q), Singles(q),
         \A k \in 1 .. Len(q) : /\ q[k][1] = i \/ job[d][q[k][1]] = "none"
                                /\ q[k][1] \notin g \cup e,
         good' = [good EXCEPT ![d] = g], errs' = [errs EXCEPT ![d] = e],
         g \subseteq good[d] \cup {i}, e \subseteq errs[d] \cup {i},
         g \cap e = {}, g \subseteq buffer[d], e \subseteq broken[d],
         Cardinality(g) + Cardinality(Inflight(d)) <= MinShards,
         UNCHANGED <<user, parallel, place, phase, buffer, broken, result>>
  PROVE  IInv'
  <1>1. DInv(d) /\ TypeOK BY DEF IInv
  <1>2. /\ queue' \in [Downloads -> Seq(Shards \X BOOLEAN)]
        /\ job' \in [Downloads -> [Shards -> States]]
        /\ waits' \in [Downloads -> SUBSET Shards]
        /\ \A v \in Downloads \ {d} : queue'[v] = queue[v] /\ job'[v] = job[v]
        /\ \A k \in Shards :
             \/ job'[d][k] = "none"
             \/ job'[d][k] = job[d][k] /\ k # i
             \/ job'[d][k] = "sent" /\ \E m \in 1 .. Len(q) : q[m][1] = k
        /\ \A k \in Shards : job[d][k] = "held" /\ k # i => job'[d][k] = "held"
        /\ Singles(queue'[d])
        /\ \A k \in 1 .. Len(queue'[d]) :
             /\ job'[d][queue'[d][k][1]] = "none"
             /\ \E m \in 1 .. Len(q) : queue'[d][k] = q[m]
        /\ Cardinality(Inflight(d)') <= Cardinality(Inflight(d))
        /\ (\A a, b \in Inflight(d) : a = b) => (\A a, b \in Inflight(d)' : a = b)
    <2>1. job[d][i] # "none" OBVIOUS
    <2> QED BY <1>1, <2>1, SendNextDoes
  <1>3. TypeOK' BY <1>1, <1>2 DEF TypeOK
  <1>4. Alone(d) BY <1>1, <1>2 DEF Alone, TypeOK
  <1>5. good'[d] = g /\ errs'[d] = e BY <1>1 DEF TypeOK
  <1>6. ASSUME NEW h \in Hosts, NEW v \in Downloads, NEW k \in Shards, user'[h] = <<v, k>>
        PROVE  job'[v][k] = "held" /\ place'[v][k] = h
    <2>1. job[v][k] = "held" /\ place[v][k] = h BY <1>6 DEF IInv, Lent
    <2>2. CASE v = d
      <3>1. k # i BY <2>1, <2>2
      <3> QED BY <1>2, <2>1, <2>2, <3>1
    <2>3. CASE v # d BY <1>2, <2>1, <2>3
    <2> QED BY <2>2, <2>3
  <1>7. Deserved(d)' BY <1>1, <1>2, <1>5 DEF DInv, Deserved
  <1>8. Apart(d)'
    <2>1. ASSUME NEW k \in 1 .. Len(queue'[d])
          PROVE  queue'[d][k][1] \notin g \cup e
      <3>1. PICK m \in 1 .. Len(q) : queue'[d][k] = q[m] BY <1>2
      <3> QED BY <3>1
    <2>2. ASSUME NEW k \in Shards, job'[d][k] # "none" PROVE k \notin g \cup e
      <3>1. CASE job'[d][k] = job[d][k] /\ k # i
        <4>1. k \notin good[d] \cup errs[d] BY <1>1, <2>2, <3>1 DEF DInv, Apart
        <4> QED BY <3>1, <4>1
      <3>2. CASE \E m \in 1 .. Len(q) : q[m][1] = k BY <3>2
      <3> QED BY <1>2, <2>2, <3>1, <3>2
    <2> QED BY <1>2, <1>5, <2>1, <2>2 DEF Apart, Singles
  <1>9. InBounds(d)'
    <2>1. Inflight(d) \in SUBSET Shards /\ Inflight(d)' \in SUBSET Shards BY DEF Inflight
    <2>2. Cardinality(Inflight(d)) \in Nat /\ Cardinality(Inflight(d)') \in Nat
          /\ Cardinality(g) \in Nat
      BY <2>1, Finite
    <2> QED BY <1>1, <1>2, <1>5, <2>2, MinShardsNat DEF DInv, InBounds
  <1>10. Judged(d)' BY <1>1 DEF DInv, Judged
  <1>11. DInv(d)' BY <1>7, <1>8, <1>9, <1>10 DEF DInv
  <1>12. Lent' BY <1>6 DEF Lent
  <1> QED BY <1>3, <1>4, <1>11, <1>12, OneCall

LEMMA CollectFailedStep ==
  ASSUME IInv, NEW d \in Downloads, NEW i \in Shards, CollectFailed(d, i)
  PROVE  IInv'
  <1> DEFINE e == errs[d] \cup {i}
  <1>1. DInv(d) /\ TypeOK BY DEF IInv
  <1>2. /\ phase[d] = "collect" /\ job[d][i] = "failed" /\ SendNext(d, i, queue[d])
        /\ errs' = [errs EXCEPT ![d] = e]
        /\ UNCHANGED <<user, parallel, place, phase, good, buffer, broken, result>>
    BY DEF CollectFailed, Unfinished
  <1>3. good' = [good EXCEPT ![d] = good[d]] BY <1>1, <1>2 DEF TypeOK
  <1>4. queue[d] \in Seq(Shards \X BOOLEAN) /\ good[d] \in SUBSET Shards
        /\ e \in SUBSET Shards
    BY <1>1 DEF TypeOK
  <1>5. Singles(queue[d]) BY <1>1 DEF DInv, Apart, Singles
  <1>6. \A k \in 1 .. Len(queue[d]) :
          /\ job[d][queue[d][k][1]] = "none"
          /\ queue[d][k][1] \notin good[d] \cup e
    BY <1>1, <1>2 DEF DInv, Apart
  <1>7. good[d] \cap e = {} BY <1>1, <1>2 DEF DInv, Apart
  <1>8. good[d] \subseteq buffer[d] /\ e \subseteq broken[d]
    BY <1>1, <1>2 DEF DInv, Deserved
  <1>9. Cardinality(good[d]) + Cardinality(Inflight(d)) <= MinShards
    BY <1>1 DEF DInv, InBounds
  <1>10. e \subseteq errs[d] \cup {i} /\ good[d] \subseteq good[d] \cup {i} OBVIOUS
  <1> HIDE DEF e
  <1>11. \A k \in 1 .. Len(queue[d]) : /\ queue[d][k][1] = i \/ job[d][queue[d][k][1]] = "none"
                                       /\ queue[d][k][1] \notin good[d] \cup e
    BY <1>6
  <1> QED BY <1>2, <1>3, <1>4, <1>5, <1>7, <1>8, <1>9, <1>10, <1>11, SettleStep

LEMMA CollectAcquiredStep ==
  ASSUME IInv, NEW d \in Downloads, NEW i \in Shards, CollectAcquired(d, i)
  PROVE  IInv'
  <1> DEFINE q == Append(queue[d], <<i, TRUE>>)
  <1>1. DInv(d) /\ TypeOK BY DEF IInv
  <1>2. /\ phase[d] = "collect" /\ job[d][i] = "acquired" /\ SendNext(d, i, q)
        /\ UNCHANGED <<user, parallel, place, phase, good, errs, buffer, broken, result>>
    BY DEF CollectAcquired, Unfinished
  <1>3. good' = [good EXCEPT ![d] = good[d]] /\ errs' = [errs EXCEPT ![d] = errs[d]]
    BY <1>1, <1>2 DEF TypeOK
  <1>4. queue[d] \in Seq(Shards \X BOOLEAN) /\ good[d] \in SUBSET Shards
        /\ errs[d] \in SUBSET Shards
    BY <1>1 DEF TypeOK
  <1>5. /\ q \in Seq(Shards \X BOOLEAN) /\ Len(q) = Len(queue[d]) + 1
        /\ Len(queue[d]) \in Nat
        /\ q[Len(q)][1] = i /\ \A k \in 1 .. Len(queue[d]) : q[k] = queue[d][k]
    <2>1. <<i, TRUE>> \in Shards \X BOOLEAN OBVIOUS
    <2> QED BY <1>4, <2>1
  <1>6. \A k \in 1 .. Len(queue[d]) :
          /\ job[d][queue[d][k][1]] = "none"
          /\ queue[d][k][1] # i
          /\ queue[d][k][1] \notin good[d] \cup errs[d]
    BY <1>1, <1>2 DEF DInv, Apart
  <1>7. i \notin good[d] \cup errs[d] BY <1>1, <1>2 DEF DInv, Apart
  <1> HIDE DEF q
  <1>8. \A k \in 1 .. Len(q) : k = Len(q) \/ k \in 1 .. Len(queue[d]) BY <1>5
  <1>9. Singles(q)
    <2>1. Singles(queue[d]) BY <1>1 DEF DInv, Apart, Singles
    <2> QED BY <1>5, <1>6, <1>8, <2>1 DEF Singles
  <1>10. \A k \in 1 .. Len(q) : /\ q[k][1] = i \/ job[d][q[k][1]] = "none"
                                /\ q[k][1] \notin good[d] \cup errs[d]
    BY <1>5, <1>6, <1>7, <1>8
  <1>11. good[d] \cap errs[d] = {} /\ good[d] \subseteq buffer[d] /\ errs[d] \subseteq broken[d]
    BY <1>1 DEF DInv, Deserved, Apart
  <1>12. Cardinality(good[d]) + Cardinality(Inflight(d)) <= MinShards
    BY <1>1 DEF DInv, InBounds
  <1> QED BY <1>2, <1>3, <1>4, <1>5, <1>9, <1>10, <1>11, <1>12, SettleStep

LEMMA CollectGoodStep ==
  ASSUME IInv, NEW d \in Downloads, NEW i \in Shards, CollectGood(d, i)
  PROVE  IInv'
  <1> DEFINE g == good[d] \cup {i}
  <1>1. DInv(d) /\ TypeOK BY DEF IInv
  <1>2. /\ Unfinished(d) /\ phase[d] = "collect" /\ job[d][i] = "ok"
        /\ good' = [good EXCEPT ![d] = g]
        /\ UNCHANGED <<user, parallel, place, phase, errs, buffer, broken, result>>
    BY DEF CollectGood, Unfinished
  <1>3. i \notin good[d] \cup errs[d] /\ i \in buffer[d] /\ i \in Inflight(d)
    BY <1>1, <1>2 DEF DInv, Apart, Deserved, Inflight
  <1>4. good[d] \in SUBSET Shards /\ g \in SUBSET Shards /\ Inflight(d) \in SUBSET Shards
        /\ errs[d] \in SUBSET Shards /\ queue[d] \in Seq(Shards \X BOOLEAN)
    BY <1>1 DEF TypeOK, Inflight
  <1>5. Cardinality(good[d]) \in Nat /\ Cardinality(Inflight(d)) \in Nat
        /\ IsFiniteSet(good[d])
    BY <1>4, Finite
  <1>6. Cardinality(g) = Cardinality(good[d]) + 1 BY <1>3, <1>5, FS_AddElement
  <1>7. g \cap errs[d] = {} /\ g \subseteq buffer[d] /\ errs[d] \subseteq broken[d]
    BY <1>1, <1>3 DEF DInv, Deserved, Apart
  <1>8. Cardinality(good[d]) + Cardinality(Inflight(d)) <= MinShards
    BY <1>1 DEF DInv, InBounds
  <1>9. \A k \in 1 .. Len(queue[d]) :
          /\ job[d][queue[d][k][1]] = "none" /\ queue[d][k][1] # i
          /\ queue[d][k][1] \notin g \cup errs[d]
    BY <1>1, <1>2 DEF DInv, Apart
  <1>10. good'[d] = g BY <1>1, <1>2 DEF TypeOK
  <1> HIDE DEF g
  <1>11. CASE Advance(d, i, "none") /\ UNCHANGED <<queue, waits>>
    <2>1. /\ job' \in [Downloads -> [Shards -> States]]
          /\ \A v \in Downloads \ {d} : job'[v] = job[v]
          /\ \A k \in Shards : job'[d][k] = IF k = i THEN "none" ELSE job[d][k]
      BY <1>1, <1>11 DEF Advance, TypeOK, States
    <2>2. TypeOK' BY <1>1, <1>2, <1>4, <1>11, <2>1 DEF TypeOK
    <2>3. Alone(d) BY <1>1, <1>2, <1>11, <2>1 DEF Alone, TypeOK
    <2>4. Lent' BY <1>2, <1>11, LentStays DEF States
    <2>5. Inflight(d)' = Inflight(d) \ {i} BY <2>1 DEF Inflight
    <2>6. Deserved(d)' BY <1>1, <1>2, <1>7, <1>10, <2>1 DEF DInv, Deserved
    <2>7. Apart(d)'
      <3>1. ASSUME NEW k \in Shards, job'[d][k] # "none" PROVE k \notin g \cup errs[d]
        BY <1>1, <2>1, <3>1 DEF DInv, Apart, g
      <3>2. \A k \in 1 .. Len(queue[d]) : job'[d][queue[d][k][1]] = "none"
        <4>1. \A k \in 1 .. Len(queue[d]) : queue[d][k][1] \in Shards BY <1>4
        <4> QED BY <1>9, <2>1, <4>1
      <3> QED BY <1>1, <1>2, <1>7, <1>9, <1>10, <1>11, <3>1, <3>2 DEF DInv, Apart
    <2>8. InBounds(d)'
      <3>1. Cardinality(Inflight(d)') = Cardinality(Inflight(d)) - 1
        BY <1>3, <1>4, <2>5, Exchange
      <3> QED BY <1>1, <1>2, <1>5, <1>6, <1>8, <1>10, <2>5, <3>1, MinShardsNat
           DEF DInv, InBounds
    <2>9. Judged(d)' BY <1>1, <1>2 DEF DInv, Judged
    <2>10. DInv(d)' BY <2>6, <2>7, <2>8, <2>9 DEF DInv
    <2> QED BY <2>2, <2>3, <2>4, <2>10, OneCall
  <1>12. CASE ~parallel[d] /\ Cardinality(good[d]) + 1 # MinShards
              /\ SendNext(d, i, queue[d])
    <2>1. Singles(queue[d]) BY <1>1 DEF DInv, Apart, Singles
    <2>2. errs' = [errs EXCEPT ![d] = errs[d]] BY <1>1, <1>2 DEF TypeOK
    <2>3. Cardinality(Inflight(d)) <= 1
      BY <1>1, <1>4, <1>12, AtMostOne DEF DInv, InBounds
    <2>4. Cardinality(g) + Cardinality(Inflight(d)) <= MinShards
      BY <1>2, <1>5, <1>6, <1>12, <2>3, MinShardsNat DEF Unfinished
    <2>5. g \subseteq good[d] \cup {i} BY DEF g
    <2>6. \A k \in 1 .. Len(queue[d]) : /\ queue[d][k][1] = i \/ job[d][queue[d][k][1]] = "none"
                                        /\ queue[d][k][1] \notin g \cup errs[d]
      BY <1>9
    <2> QED BY <1>2, <1>4, <1>7, <1>12, <2>1, <2>2, <2>4, <2>5, <2>6, SettleStep
  <1> QED BY <1>11, <1>12 DEF CollectGood

LEMMA StepInv == IInv /\ [Next]_vars => IInv'
  <1> SUFFICES ASSUME IInv, [Next]_vars PROVE IInv' OBVIOUS
  <1>1. ASSUME NEW d \in Downloads, Main(d) PROVE IInv'
    <2>1. CASE Start(d) BY <2>1, StartStep
    <2>2. CASE Return(d) BY <2>2, ReturnStep
    <2>3. ASSUME NEW i \in Shards, CollectGood(d, i) PROVE IInv' BY <2>3, CollectGoodStep
    <2>4. ASSUME NEW i \in Shards, CollectAcquired(d, i) PROVE IInv'
      BY <2>4, CollectAcquiredStep
    <2>5. ASSUME NEW i \in Shards, CollectFailed(d, i) PROVE IInv' BY <2>5, CollectFailedStep
    <2> QED BY <1>1, <2>1, <2>2, <2>3, <2>4, <2>5 DEF Main
  <1>2. ASSUME NEW d \in Downloads, NEW i \in Shards, Work(d, i) PROVE IInv'
    BY <1>2, WorkStep
  <1>3. CASE OutsiderBorrows \/ OutsiderGivesBack BY <1>3, OutsiderStep
  <1>4. CASE UNCHANGED vars
    <2>1. TypeOK' BY <1>4 DEF vars, IInv, TypeOK
    <2>2. Lent' BY <1>4 DEF vars, IInv, Lent
    <2>3. ASSUME NEW d \in Downloads PROVE DInv(d)'
      <3>1. DInv(d) /\ Inflight(d)' = Inflight(d) BY <1>4 DEF IInv, vars, Inflight
      <3>2. Deserved(d)' /\ Apart(d)' BY <1>4, <3>1 DEF vars, DInv, Deserved, Apart
      <3>3. InBounds(d)' /\ Judged(d)' BY <1>4, <3>1 DEF vars, DInv, InBounds, Judged
      <3> QED BY <3>2, <3>3 DEF DInv
    <2> QED BY <2>1, <2>2, <2>3 DEF IInv
  <1> QED BY <1>1, <1>2, <1>3, <1>4 DEF Next

LEMMA Invariance == Spec => []IInv
  BY InitInv, StepInv, PTL DEF Spec

-----------------------------------------------------------------------------
(* What a download promises, for every number of calls, shards and hosts.  *)

(* DownloadChunk returns shards only if MinShards buffers are filled, and  *)
(* fails only if the hosts that failed left too few shards, or, when it is *)
(* serial, at a shard that was never stored.                               *)
THEOREM DownloadResult == Spec => []ResultIsRight
  <1>1. ASSUME IInv, NEW d \in Downloads
        PROVE  /\ result[d] = "shards" => Cardinality(buffer[d]) >= MinShards
               /\ result[d] = "error" =>
                    \/ Cardinality(Shards \ broken[d]) < MinShards
                    \/ ~parallel[d] /\ \E i \in broken[d] : place[d][i] = Unset
    <2>1. DInv(d) /\ TypeOK BY <1>1 DEF IInv
    <2>2. /\ good[d] \in SUBSET buffer[d] /\ buffer[d] \in SUBSET Shards
          /\ errs[d] \in SUBSET broken[d] /\ broken[d] \in SUBSET Shards
          /\ errs[d] \in SUBSET Shards /\ good[d] \in SUBSET Shards
          /\ Shards \ broken[d] \in SUBSET (Shards \ errs[d])
          /\ Shards \ errs[d] \in SUBSET Shards
      BY <2>1 DEF TypeOK, DInv, Deserved
    <2>3. /\ Cardinality(good[d]) \in Nat /\ Cardinality(errs[d]) \in Nat
          /\ Cardinality(Shards) \in Nat /\ IsFiniteSet(buffer[d])
          /\ IsFiniteSet(Shards \ errs[d]) /\ Cardinality(buffer[d]) \in Nat
          /\ Cardinality(Shards \ errs[d]) \in Nat
          /\ Cardinality(Shards \ broken[d]) \in Nat
      BY <2>2, Finite
    <2>4. Cardinality(good[d]) <= Cardinality(buffer[d]) BY <2>2, <2>3, FS_Subset
    <2>5. Cardinality(Shards \ broken[d]) <= Cardinality(Shards \ errs[d])
      BY <2>2, <2>3, FS_Subset
    <2>6. Cardinality(Shards \ errs[d]) = Cardinality(Shards) - Cardinality(errs[d])
      <3>1. Shards \cap errs[d] = errs[d] BY <2>2
      <3>2. Cardinality(Shards \ errs[d]) = Cardinality(Shards) - Cardinality(Shards \cap errs[d])
        BY FS_Difference, DownloadAssumption
      <3> QED BY <3>1, <3>2
    <2>7. result[d] = "shards" => Cardinality(buffer[d]) >= MinShards
      BY <2>1, <2>3, <2>4, MinShardsNat DEF DInv, Judged
    <2>8. CASE result[d] = "error" /\ Cardinality(good[d]) < MinShards
               /\ Cardinality(good[d]) + Cardinality(errs[d]) >= Cardinality(Shards)
      <3>1. Cardinality(Shards \ broken[d]) < MinShards
        BY <2>3, <2>5, <2>6, <2>8, MinShardsNat
      <3> QED BY <2>8, <3>1
    <2>9. CASE ~parallel[d] /\ \E i \in broken[d] : place[d][i] = Unset BY <2>7, <2>9
    <2>10. CASE result[d] # "error" BY <2>7, <2>10
    <2> QED BY <2>1, <2>8, <2>9, <2>10 DEF DInv, Judged
  <1>2. IInv => ResultIsRight BY <1>1 DEF ResultIsRight
  <1> QED BY <1>2, Invariance, PTL

(* When DownloadChunk returns, every worker has answered and none has a    *)
(* host: there are never more requests in flight than shards still wanted. *)
THEOREM DownloadReturnsClean == Spec => []NothingLeftBehind
  <1>1. ASSUME IInv, NEW d \in Downloads, phase[d] = "done"
        PROVE  Inflight(d) = {} /\ \A h \in Hosts, i \in Shards : user[h] # <<d, i>>
    <2>1. Inflight(d) = {} BY <1>1 DEF IInv, DInv, InBounds
    <2> QED BY <1>1, <2>1 DEF IInv, Lent, Inflight
  <1>2. IInv => NothingLeftBehind BY <1>1 DEF NothingLeftBehind
  <1> QED BY <1>2, Invariance, PTL
=============================================================================
