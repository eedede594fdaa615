-------------------------- MODULE ChunkUploadProofs --------------------------
(***************************************************************************)
(* For every set of calls, shards and hosts: UploadChunk never puts two    *)
(* shards of a chunk on one host, returns nil only for a chunk that is     *)
(* stored as far as was asked, and leaves neither a worker nor a borrowed  *)
(* host behind.                                                            *)
(***************************************************************************)
EXTENDS ChunkUpload, FiniteSetTheorems, TLAPS

States == {"none", "sent", "waiting", "held", "appended"} \cup Answered
Jobs == [host : Hosts \cup {Unset}, block : BOOLEAN, st : States]

TypeOK ==
  /\ user \in [Hosts -> Workers \cup {Nobody}]
  /\ uploader \in [Uploads -> {"parallel", "serial", "minimum"}]
  /\ chunk \in [Uploads -> [Shards -> Hosts \cup OldHosts \cup {Unset}]]
  /\ sectors \in SUBSET (Uploads \X Shards \X (Hosts \cup OldHosts))
  /\ phase \in [Uploads -> {"start", "send", "collect", "drain", "serial", "done"}]
  /\ unsent \in [Uploads -> SUBSET Shards]
  /\ newHosts \in [Uploads -> SUBSET Hosts]
  /\ rem \in [Uploads -> Nat]
  /\ job \in [Uploads -> [Shards -> Jobs]]
  /\ cancelled \in SUBSET Uploads
  /\ result \in [Uploads -> {"running", "nil", "error"}]

(* The hosts that have a shard of the chunk, the hosts that have been      *)
(* asked to store one and the hosts that may still be chosen are apart.    *)
HostsApart(u) ==
  /\ \A i \in Inflight(u) :
       /\ job[u][i].host \in Hosts
       /\ job[u][i].host \notin newHosts[u]
       /\ \A k \in Shards : chunk[u][k] # job[u][i].host
  /\ \A i, j \in Inflight(u) : job[u][i].host = job[u][j].host => i = j
  /\ \A k \in Shards : chunk[u][k] \notin newHosts[u]
  /\ Spread(chunk[u])

(* A shard that has a request has been passed by the loop, and is not on a *)
(* host of the set.                                                        *)
ShardsApart(u) ==
  /\ \A i \in Inflight(u) : i \notin unsent[u] /\ i \notin Skip(u)
  /\ phase[u] = "serial" => \A i \in unsent[u] : i \notin Skip(u)

(* Requests exist only while the call runs, and one at a time if the call  *)
(* is not parallel.                                                        *)
Requests(u) ==
  /\ phase[u] \in {"start", "done"} => Inflight(u) = {}
  /\ phase[u] \in {"send", "collect", "drain"} => uploader[u] = "parallel"
  /\ phase[u] = "serial" =>
       /\ uploader[u] # "parallel"
       /\ \A i, j \in Inflight(u) : i = j
       /\ Inflight(u) # {} => rem[u] > 0

(* What a call still has to store is what the chunk lacks. *)
Counted(u) ==
  /\ phase[u] \in {"send", "collect", "serial"} \/ result[u] = "nil" =>
       IF uploader[u] = "minimum" THEN rem[u] + Cardinality(Skip(u)) >= MinShards
       ELSE rem[u] = Cardinality(Shards \ Skip(u))
  /\ result[u] = "nil" => phase[u] = "done" /\ rem[u] = 0

UInv(u) == HostsApart(u) /\ ShardsApart(u) /\ Requests(u) /\ Counted(u)

(* A host is lent only to the worker whose request is for it. *)
Lent ==
  \A h \in Hosts, u \in Uploads, i \in Shards :
    user[h] = <<u, i>> => job[u][i].st = "held" /\ job[u][i].host = h

IInv == TypeOK /\ (\A u \in Uploads : UInv(u)) /\ Lent

-----------------------------------------------------------------------------
(* Counting shards.                                                        *)

LEMMA Finite ==
  ASSUME NEW S \in SUBSET Shards
  PROVE  IsFiniteSet(S) /\ Cardinality(S) \in Nat
  BY FS_Subset, FS_CardinalityType, UploadHostsAssumption

(* Recording a shard that was not on a host of the set adds one. *)
LEMMA OneMore ==
  ASSUME NEW S \in SUBSET Shards, NEW i \in Shards, i \notin S
  PROVE  /\ Cardinality(S \cup {i}) = Cardinality(S) + 1
         /\ Cardinality(Shards \ (S \cup {i})) = Cardinality(Shards \ S) - 1
         /\ Cardinality(Shards \ S) >= 1
  <1>1. IsFiniteSet(S) /\ IsFiniteSet(Shards \ S) BY Finite
  <1>2. Cardinality(S \cup {i}) = Cardinality(S) + 1 BY <1>1, FS_AddElement
  <1>3. Cardinality((Shards \ S) \ {i}) = Cardinality(Shards \ S) - 1
    BY <1>1, FS_RemoveElement
  <1>4. Cardinality(Shards \ (S \cup {i})) = Cardinality((Shards \ S) \ {i})
    <2>1. Shards \ (S \cup {i}) = (Shards \ S) \ {i} OBVIOUS
    <2> QED BY <2>1
  <1>5. Cardinality(Shards \ S) \in Nat /\ Cardinality((Shards \ S) \ {i}) \in Nat
    BY Finite
  <1> QED BY <1>2, <1>3, <1>4, <1>5

(* The shards that stay take no more hosts than there are of them. *)
LEMMA FreshEnough ==
  ASSUME TypeOK, NEW u \in Uploads, Cardinality(Shards) <= Cardinality(Hosts)
  PROVE  /\ Cardinality(Fresh(u)) \in Nat
         /\ Cardinality(Shards \ Skip(u)) <= Cardinality(Fresh(u))
  <1> DEFINE f == [i \in Skip(u) |-> chunk[u][i]]
             T == {chunk[u][i] : i \in Skip(u)}
  <1>1. Skip(u) \in SUBSET Shards BY DEF Skip
  <1>2. IsFiniteSet(Skip(u)) /\ Cardinality(Skip(u)) \in Nat BY <1>1, Finite
  <1>3. f \in Surjection(Skip(u), T) BY DEF Surjection
  <1>4. IsFiniteSet(T) /\ Cardinality(T) <= Cardinality(Skip(u))
    BY <1>2, <1>3, FS_Surjection
  <1>5. Cardinality(T) \in Nat BY <1>4, FS_CardinalityType
  <1>6. T \subseteq Hosts BY DEF Skip
  <1>7. IsFiniteSet(Hosts) /\ IsFiniteSet(Shards) BY UploadHostsAssumption
  <1>8. Cardinality(Hosts) \in Nat /\ Cardinality(Shards) \in Nat
    BY <1>7, FS_CardinalityType
  <1>9. Hosts \cap T = T /\ Shards \cap Skip(u) = Skip(u) BY <1>1, <1>6
  <1>10. Cardinality(Hosts \ T) = Cardinality(Hosts) - Cardinality(T)
    BY <1>7, <1>9, FS_Difference
  <1>11. Cardinality(Shards \ Skip(u)) = Cardinality(Shards) - Cardinality(Skip(u))
    BY <1>7, <1>9, FS_Difference
  <1>12. Fresh(u) = Hosts \ T BY DEF Fresh
  <1>13. Cardinality(Hosts \ T) \in Nat BY <1>7, FS_Difference, FS_CardinalityType
  <1> QED BY <1>2, <1>4, <1>5, <1>8, <1>10, <1>11, <1>12, <1>13

-----------------------------------------------------------------------------
(* Steps.  Each is a step of one call, which leaves the others alone.      *)

Alone(u) ==
  \A v \in Uploads \ {u} :
    /\ uploader'[v] = uploader[v]
    /\ chunk'[v] = chunk[v]
    /\ phase'[v] = phase[v]
    /\ unsent'[v] = unsent[v]
    /\ newHosts'[v] = newHosts[v]
    /\ rem'[v] = rem[v]
    /\ job'[v] = job[v]
    /\ result'[v] = result[v]

LEMMA OneCall ==
  ASSUME IInv, NEW u \in Uploads, Alone(u), TypeOK', UInv(u)', Lent'
  PROVE  IInv'
  <1>1. ASSUME NEW v \in Uploads \ {u} PROVE UInv(v)'
    <2>1. Inflight(v)' = Inflight(v) /\ Skip(v)' = Skip(v)
      BY DEF Alone, Inflight, Skip
    <2>2. UInv(v) BY DEF IInv
    <2>3. HostsApart(v)' BY <2>1, <2>2 DEF UInv, HostsApart, Alone, Spread
    <2>4. ShardsApart(v)' BY <2>1, <2>2 DEF UInv, ShardsApart, Alone
    <2>5. Requests(v)' BY <2>1, <2>2 DEF UInv, Requests, Alone
    <2>6. Counted(v)' BY <2>1, <2>2 DEF UInv, Counted, Alone
    <2> QED BY <2>3, <2>4, <2>5, <2>6 DEF UInv
  <1> QED BY <1>1 DEF IInv

LEMMA SetJobType ==
  ASSUME TypeOK, NEW u \in Uploads, NEW i \in Shards, NEW j \in Jobs, SetJob(u, i, j)
  PROVE  /\ job' \in [Uploads -> [Shards -> Jobs]]
         /\ \A v \in Uploads, k \in Shards :
              job'[v][k] = IF v = u /\ k = i THEN j ELSE job[v][k]
  BY DEF TypeOK, SetJob

LEMMA AdvanceType ==
  ASSUME TypeOK, NEW u \in Uploads, NEW i \in Shards, NEW st \in States, Advance(u, i, st)
  PROVE  /\ job' \in [Uploads -> [Shards -> Jobs]]
         /\ \A v \in Uploads, k \in Shards :
              /\ job'[v][k].host = job[v][k].host
              /\ job'[v][k].st = IF v = u /\ k = i THEN st ELSE job[v][k].st
  <1> DEFINE j == [job[u][i] EXCEPT !.st = st]
  <1>1. job[u][i] \in Jobs BY DEF TypeOK
  <1>2. j \in Jobs /\ j.host = job[u][i].host /\ j.st = st BY <1>1 DEF Jobs
  <1>3. SetJob(u, i, j) BY DEF Advance, SetJob
  <1> HIDE DEF j
  <1> QED BY <1>2, <1>3, SetJobType

(* Requests go on, for the same hosts. *)
LEMMA SameHosts ==
  ASSUME IInv, NEW u \in Uploads, TypeOK', Lent', UNCHANGED <<chunk, call>>,
         \A v \in Uploads \ {u} : job'[v] = job[v],
         \A k \in Shards : /\ job'[u][k].host = job[u][k].host
                           /\ job'[u][k].st = "none" <=> job[u][k].st = "none"
  PROVE  IInv'
  <1>1. Alone(u) BY DEF Alone, call
  <1>2. Inflight(u)' = Inflight(u) /\ Skip(u)' = Skip(u) BY DEF Inflight, Skip
  <1>3. UInv(u) BY DEF IInv
  <1>4. HostsApart(u)'
    BY <1>2, <1>3 DEF UInv, HostsApart, Spread, call, Inflight
  <1>5. ShardsApart(u)' BY <1>2, <1>3 DEF UInv, ShardsApart, call
  <1>6. Requests(u)' BY <1>2, <1>3 DEF UInv, Requests, call
  <1>7. Counted(u)' BY <1>2, <1>3 DEF UInv, Counted, call
  <1>8. UInv(u)' BY <1>4, <1>5, <1>6, <1>7 DEF UInv
  <1> QED BY <1>1, <1>8, OneCall

LEMMA WorkerStep ==
  ASSUME IInv, NEW u \in Uploads, NEW i \in Shards, NEW st \in States \ {"none"},
         job[u][i].st # "none", Advance(u, i, st), TypeOK', Lent',
         UNCHANGED <<chunk, call>>
  PROVE  IInv'
  <1>1. \A k \in Shards :
          /\ job'[u][k].host = job[u][k].host
          /\ job'[u][k].st = "none" <=> job[u][k].st = "none"
    BY AdvanceType DEF IInv
  <1>2. \A v \in Uploads \ {u} : job'[v] = job[v] BY DEF Advance, IInv, TypeOK
  <1> QED BY <1>1, <1>2, SameHosts

(* Nobody borrows or gives back a host, and held requests stay. *)
LEMMA LentStays ==
  ASSUME IInv, NEW u \in Uploads, NEW i \in Shards,
         NEW j \in Jobs,
         job[u][i].st # "held", SetJob(u, i, j), UNCHANGED user
  PROVE  Lent'
  BY SetJobType DEF IInv, Lent

LEMMA InitInv == Init => IInv
  <1> SUFFICES ASSUME Init PROVE IInv OBVIOUS
  <1> USE DEF Init
  <1>1. NoJob \in Jobs BY DEF NoJob, States, Jobs
  <1>2. TypeOK
    <2>1. user \in [Hosts -> Workers \cup {Nobody}] BY DEF Locks!Init
    <2>2. sectors \in SUBSET (Uploads \X Shards \X (Hosts \cup OldHosts)) OBVIOUS
    <2>3. job \in [Uploads -> [Shards -> Jobs]] BY <1>1
    <2> QED BY <2>1, <2>2, <2>3 DEF TypeOK
  <1>3. \A u \in Uploads : Inflight(u) = {} BY DEF Inflight, NoJob
  <1>4. \A u \in Uploads : UInv(u)
    BY <1>3 DEF UInv, HostsApart, ShardsApart, Requests, Counted
  <1>5. Lent
    BY UploadHostsAssumption DEF Lent, Locks!Init
  <1> QED BY <1>2, <1>4, <1>5 DEF IInv

LEMMA AcquireStep ==
  ASSUME IInv, NEW u \in Uploads, NEW i \in Shards, Acquire(u, i)
  PROVE  IInv'
  <1>0. job[u][i].st # "none" /\ "held" \in States \ {"none"}
    BY DEF Acquire, States
  <1>1. job[u][i].host \in Hosts
    BY <1>0 DEF IInv, UInv, HostsApart, Inflight
  <1>2. user' = [user EXCEPT ![job[u][i].host] = <<u, i>>]
    BY DEF Acquire, Locks!Borrow
  <1>3. Advance(u, i, "held") /\ TypeOK BY DEF Acquire, IInv
  <1>4. TypeOK'
    <2>1. job' \in [Uploads -> [Shards -> Jobs]] BY <1>0, <1>3, AdvanceType
    <2>2. user' \in [Hosts -> Workers \cup {Nobody}]
      BY <1>1, <1>2 DEF IInv, TypeOK, Workers
    <2> QED BY <2>1, <2>2 DEF IInv, TypeOK, Acquire, call
  <1>5. Lent'
    <2>1. \A v \in Uploads, k \in Shards :
            /\ job'[v][k].host = job[v][k].host
            /\ job'[v][k].st = IF v = u /\ k = i THEN "held" ELSE job[v][k].st
      BY <1>0, <1>3, AdvanceType
    <2>2. ASSUME NEW h \in Hosts, NEW v \in Uploads, NEW k \in Shards, user'[h] = <<v, k>>
          PROVE  job'[v][k].st = "held" /\ job'[v][k].host = h
      <3>1. CASE h = job[u][i].host
        <4>1. <<v, k>> = <<u, i>> BY <1>1, <1>2, <2>2, <3>1 DEF IInv, TypeOK
        <4> QED BY <2>1, <3>1, <4>1
      <3>2. CASE h # job[u][i].host
        <4>1. user[h] = <<v, k>> BY <1>1, <1>2, <2>2, <3>2 DEF IInv, TypeOK
        <4> QED BY <2>1, <4>1 DEF IInv, Lent
      <3> QED BY <3>1, <3>2
    <2> QED BY <2>2 DEF Lent
  <1> QED BY <1>0, <1>4, <1>5, WorkerStep DEF Acquire

(* A worker's step that neither borrows nor gives back. *)
LEMMA QuietStep ==
  ASSUME IInv, NEW u \in Uploads, NEW i \in Shards, NEW st \in States \ {"none", "held"},
         job[u][i].st \notin {"none", "held"}, Advance(u, i, st),
         UNCHANGED <<user, chunk, sectors, call, cancelled>>
  PROVE  IInv'
  <1>1. /\ job' \in [Uploads -> [Shards -> Jobs]]
        /\ \A v \in Uploads, k \in Shards :
             /\ job'[v][k].host = job[v][k].host
             /\ job'[v][k].st = IF v = u /\ k = i THEN st ELSE job[v][k].st
    BY AdvanceType DEF IInv
  <1>2. TypeOK' BY <1>1 DEF IInv, TypeOK, call
  <1>3. Lent' BY <1>1 DEF IInv, Lent
  <1> QED BY <1>2, <1>3, WorkerStep

(* The end of Append: the host is given back. *)
LEMMA GiveBackStep ==
  ASSUME IInv, NEW u \in Uploads, NEW i \in Shards, NEW st \in States \ {"none", "held"},
         job[u][i].st = "held", Advance(u, i, st),
         Locks!GiveBack(<<u, i>>, job[u][i].host),
         sectors' \in {sectors, sectors \cup {<<u, i, job[u][i].host>>}},
         UNCHANGED <<chunk, call, cancelled>>
  PROVE  IInv'
  <1>1. /\ job' \in [Uploads -> [Shards -> Jobs]]
        /\ \A v \in Uploads, k \in Shards :
             /\ job'[v][k].host = job[v][k].host
             /\ job'[v][k].st = IF v = u /\ k = i THEN st ELSE job[v][k].st
    BY AdvanceType DEF IInv
  <1>2. job[u][i].host \in Hosts BY DEF IInv, UInv, HostsApart, Inflight
  <1>3. user' = [user EXCEPT ![job[u][i].host] = Nobody] BY DEF Locks!GiveBack
  <1>4. <<u, i, job[u][i].host>> \in Uploads \X Shards \X (Hosts \cup OldHosts)
    BY <1>2
  <1>5. TypeOK' BY <1>1, <1>2, <1>3, <1>4 DEF IInv, TypeOK, call
  <1>6. Nobody # <<u, i>> BY UploadHostsAssumption
  <1>7. ASSUME NEW h \in Hosts, NEW v \in Uploads, NEW k \in Shards, user'[h] = <<v, k>>
        PROVE  job'[v][k].st = "held" /\ job'[v][k].host = h
    <2>1. Nobody # <<v, k>> BY UploadHostsAssumption
    <2>2. h # job[u][i].host /\ user[h] = <<v, k>>
      BY <1>2, <1>3, <1>7, <2>1 DEF IInv, TypeOK
    <2>3. job[v][k].st = "held" /\ job[v][k].host = h BY <2>2 DEF IInv, Lent
    <2>4. v # u \/ k # i BY <2>2, <2>3
    <2> QED BY <1>1, <2>3, <2>4
  <1>8. Lent' BY <1>7 DEF Lent
  <1> QED BY <1>1, <1>5, <1>8, WorkerStep

LEMMA WorkStep ==
  ASSUME IInv, NEW u \in Uploads, NEW i \in Shards, Work(u, i)
  PROVE  IInv'
  <1>0. {"failed", "waiting", "acquired", "ok", "appended"} \subseteq States \ {"none", "held"}
    BY DEF States, Answered
  <1>1. CASE Acquire(u, i) BY <1>1, AcquireStep
  <1>2. CASE Unreachable(u, i) BY <1>0, <1>2, QuietStep DEF Unreachable
  <1>3. CASE InUse(u, i)
    <2>1. CASE job[u][i].block BY <1>0, <1>3, <2>1, QuietStep DEF InUse
    <2>2. CASE ~job[u][i].block BY <1>0, <1>3, <2>2, QuietStep DEF InUse
    <2> QED BY <2>1, <2>2
  <1>4. CASE AppendStored(u, i) BY <1>0, <1>4, GiveBackStep DEF AppendStored
  <1>5. CASE AppendFailed(u, i) BY <1>0, <1>5, GiveBackStep DEF AppendFailed
  <1>6. CASE AddShard(u, i) BY <1>0, <1>6, QuietStep DEF AddShard
  <1>7. CASE AnswerCancelled(u, i) BY <1>0, <1>7, QuietStep DEF AnswerCancelled
  <1> QED BY <1>1, <1>2, <1>3, <1>4, <1>5, <1>6, <1>7 DEF Work

(* The rest of the program uses hosts, which no call notices. *)
LEMMA OutsiderStep ==
  ASSUME IInv, OutsiderBorrows \/ OutsiderGivesBack
  PROVE  IInv'
  <1>1. UNCHANGED <<chunk, sectors, call, job, cancelled>>
    BY DEF OutsiderBorrows, OutsiderGivesBack
  <1>2. PICK h \in Hosts, w \in {Outsider, Nobody} : user' = [user EXCEPT ![h] = w]
    BY DEF OutsiderBorrows, OutsiderGivesBack, Locks!Borrow, Locks!GiveBack
  <1>3. TypeOK' BY <1>1, <1>2 DEF IInv, TypeOK, call, Workers
  <1>4. Lent'
    <2> SUFFICES ASSUME NEW g \in Hosts, NEW u \in Uploads, NEW i \in Shards,
                        user'[g] = <<u, i>>
                 PROVE  job[u][i].st = "held" /\ job[u][i].host = g
      BY <1>1 DEF Lent
    <2>1. w # <<u, i>> BY UploadHostsAssumption
    <2>2. user[g] = <<u, i>> BY <1>2, <2>1 DEF IInv, TypeOK
    <2> QED BY <2>2 DEF IInv, Lent
  <1>5. ASSUME NEW u \in Uploads PROVE UInv(u)'
    <2>1. Inflight(u)' = Inflight(u) /\ Skip(u)' = Skip(u) BY <1>1 DEF Inflight, Skip
    <2>2. UInv(u) BY DEF IInv
    <2> QED BY <1>1, <2>1, <2>2
         DEF UInv, HostsApart, ShardsApart, Requests, Counted, Spread, call
  <1> QED BY <1>3, <1>4, <1>5 DEF IInv

-----------------------------------------------------------------------------
(* Steps of the call that leave its requests alone.                        *)

LEMMA StartStep ==
  ASSUME IInv, NEW u \in Uploads, Start(u)
  PROVE  IInv'
  <1>1. newHosts' = [newHosts EXCEPT ![u] = Fresh(u)] /\ Fresh(u) \in SUBSET Hosts
    BY DEF Start, Fresh
  <1>2. Cardinality(Shards) <= Cardinality(Hosts) BY DEF Start, EnoughHosts
  <1>3. rem' = [rem EXCEPT ![u] = Cardinality(Shards \ Skip(u))]
        /\ Cardinality(Shards \ Skip(u)) \in Nat
    <2>1. Cardinality(Fresh(u)) \in Nat
          /\ Cardinality(Shards \ Skip(u)) <= Cardinality(Fresh(u))
      BY <1>2, FreshEnough DEF IInv
    <2>2. Cardinality(Shards \ Skip(u)) \in Nat BY Finite
    <2>3. Smaller(Cardinality(Shards \ Skip(u)), Cardinality(Fresh(u)))
          = Cardinality(Shards \ Skip(u))
      BY <2>1, <2>2 DEF Smaller
    <2> QED BY <2>2, <2>3 DEF Start
  <1>4. TypeOK' BY <1>1, <1>3 DEF IInv, TypeOK, Start, Goto
  <1>5. Lent' BY DEF IInv, Lent, Start
  <1>6. Alone(u) BY <1>1, <1>3 DEF Start, Goto, IInv, TypeOK, Alone
  <1>7. phase[u] = "start" /\ uploader[u] = "parallel" /\ UInv(u) BY DEF Start, IInv
  <1>8. phase'[u] = "send" BY DEF Start, Goto, IInv, TypeOK
  <1>9. UNCHANGED <<chunk, job, uploader, result>> BY DEF Start
  <1>10. Inflight(u)' = {} /\ Skip(u)' = Skip(u)
    BY <1>7, <1>9 DEF Inflight, Skip, UInv, Requests
  <1>11. HostsApart(u)'
    <2>1. \A k \in Shards : chunk[u][k] \notin Fresh(u) BY DEF Fresh, Skip
    <2>2. newHosts'[u] = Fresh(u) BY <1>1 DEF IInv, TypeOK
    <2> QED BY <1>7, <1>9, <1>10, <2>1, <2>2 DEF UInv, HostsApart, Spread
  <1>12. ShardsApart(u)' /\ Requests(u)'
    BY <1>7, <1>8, <1>9, <1>10 DEF ShardsApart, Requests
  <1>13. Counted(u)'
    <2>1. rem'[u] = Cardinality(Shards \ Skip(u)) BY <1>3 DEF IInv, TypeOK
    <2> QED BY <1>7, <1>8, <1>9, <1>10, <2>1 DEF UInv, Counted
  <1>14. UInv(u)' BY <1>11, <1>12, <1>13 DEF UInv
  <1> QED BY <1>4, <1>5, <1>6, <1>14, OneCall

LEMMA StartSerialStep ==
  ASSUME IInv, NEW u \in Uploads, StartSerial(u)
  PROVE  IInv'
  <1>1. newHosts' = [newHosts EXCEPT ![u] = Fresh(u)] /\ Fresh(u) \in SUBSET Hosts
    BY DEF StartSerial, Fresh
  <1>2. Cardinality(Shards \ Skip(u)) \in Nat /\ Cardinality(Skip(u)) \in Nat
    BY Finite DEF Skip
  <1>3. /\ rem' = [rem EXCEPT ![u] = Lacking(u)]
        /\ Lacking(u) \in Nat
        /\ uploader[u] # "serial" => Lacking(u) + Cardinality(Skip(u)) >= MinShards
        /\ uploader[u] = "serial" => Lacking(u) = Cardinality(Shards \ Skip(u))
    BY <1>2, UploadHostsAssumption DEF StartSerial, Lacking
  <1>4. TypeOK' BY <1>1, <1>3 DEF IInv, TypeOK, StartSerial, Goto
  <1>5. Lent' BY DEF IInv, Lent, StartSerial
  <1>6. Alone(u) BY <1>1, <1>3 DEF StartSerial, Goto, IInv, TypeOK, Alone
  <1>7. phase[u] = "start" /\ uploader[u] \in {"serial", "minimum"} /\ UInv(u)
    BY DEF StartSerial, IInv, TypeOK
  <1>8. phase'[u] = "serial" /\ unsent'[u] = Shards \ Skip(u)
    BY DEF StartSerial, Goto, IInv, TypeOK
  <1>9. UNCHANGED <<chunk, job, uploader, result>> BY DEF StartSerial
  <1>10. Inflight(u)' = {} /\ Skip(u)' = Skip(u)
    BY <1>7, <1>9 DEF Inflight, Skip, UInv, Requests
  <1>11. HostsApart(u)'
    <2>1. \A k \in Shards : chunk[u][k] \notin Fresh(u) BY DEF Fresh, Skip
    <2>2. newHosts'[u] = Fresh(u) BY <1>1 DEF IInv, TypeOK
    <2> QED BY <1>7, <1>9, <1>10, <2>1, <2>2 DEF UInv, HostsApart, Spread
  <1>12. ShardsApart(u)' /\ Requests(u)'
    BY <1>7, <1>8, <1>9, <1>10 DEF ShardsApart, Requests
  <1>13. Counted(u)'
    <2>1. rem'[u] = Lacking(u) BY <1>3 DEF IInv, TypeOK
    <2> QED BY <1>3, <1>7, <1>8, <1>9, <1>10, <2>1 DEF UInv, Counted
  <1>14. UInv(u)' BY <1>11, <1>12, <1>13 DEF UInv
  <1> QED BY <1>4, <1>5, <1>6, <1>14, OneCall

(* The call moves on, or ends, and changes nothing else. *)
LEMMA ControlStep ==
  ASSUME IInv, NEW u \in Uploads, TypeOK', Alone(u),
         UNCHANGED <<user, uploader, chunk, unsent, newHosts, rem, job>>,
         phase'[u] \in {phase[u], "collect", "drain", "done"},
         phase'[u] # phase[u] => result[u] # "nil",
         phase'[u] = "done" => Inflight(u) = {},
         phase'[u] \in {"collect", "drain"} => phase[u] \in {"send", "collect", "drain"},
         phase'[u] = "collect" => phase[u] \in {"send", "collect"},
         \/ result'[u] = result[u]
         \/ result'[u] = "error"
         \/ /\ result'[u] = "nil" /\ phase'[u] = "done"
            /\ phase[u] \in {"collect", "serial"} /\ rem[u] = 0
  PROVE  IInv'
  <1>1. Lent' BY DEF IInv, Lent
  <1>2. Inflight(u)' = Inflight(u) /\ Skip(u)' = Skip(u) BY DEF Inflight, Skip
  <1>3. UInv(u) BY DEF IInv
  <1>4. HostsApart(u)' BY <1>2, <1>3 DEF UInv, HostsApart, Spread
  <1>5. ShardsApart(u)' BY <1>2, <1>3 DEF UInv, ShardsApart
  <1>6. Requests(u)' BY <1>2, <1>3 DEF UInv, Requests
  <1>7. Counted(u)' BY <1>2, <1>3 DEF UInv, Counted
  <1>8. UInv(u)' BY <1>4, <1>5, <1>6, <1>7 DEF UInv
  <1> QED BY <1>1, <1>8, OneCall

LEMMA RefuseStep ==
  ASSUME IInv, NEW u \in Uploads, Refuse(u)
  PROVE  IInv'
  <1>1. TypeOK' /\ Alone(u) BY DEF Refuse, Goto, Result, IInv, TypeOK, Alone
  <1>2. phase[u] = "start" /\ phase'[u] = "done" /\ result'[u] = "error"
    BY DEF Refuse, Goto, Result, IInv, TypeOK
  <1>3. Inflight(u) = {} /\ result[u] # "nil"
    BY <1>2 DEF IInv, UInv, Requests, Counted
  <1> QED BY <1>1, <1>2, <1>3, ControlStep DEF Refuse

LEMMA EndSendStep ==
  ASSUME IInv, NEW u \in Uploads, EndSend(u)
  PROVE  IInv'
  <1>1. TypeOK' /\ Alone(u) BY DEF EndSend, Goto, IInv, TypeOK, Alone
  <1>2. phase[u] = "send" /\ phase'[u] = "collect" /\ result'[u] = result[u]
    BY DEF EndSend, Goto, IInv, TypeOK
  <1>3. result[u] # "nil" BY <1>2 DEF IInv, UInv, Counted
  <1> QED BY <1>1, <1>2, <1>3, ControlStep DEF EndSend

LEMMA InterruptedStep ==
  ASSUME IInv, NEW u \in Uploads, Interrupted(u)
  PROVE  IInv'
  <1>1. TypeOK' /\ Alone(u) BY DEF Interrupted, Goto, Result, IInv, TypeOK, Alone
  <1>2. phase[u] \in {"send", "collect"} /\ phase'[u] = "drain" /\ result'[u] = "error"
    BY DEF Interrupted, Goto, Result, IInv, TypeOK
  <1>3. result[u] # "nil" BY <1>2 DEF IInv, UInv, Counted
  <1> QED BY <1>1, <1>2, <1>3, ControlStep DEF Interrupted

LEMMA ReturnStep ==
  ASSUME IInv, NEW u \in Uploads, Return(u)
  PROVE  IInv'
  <1>1. TypeOK' /\ Alone(u) BY DEF Return, Goto, Result, IInv, TypeOK, Alone
  <1>2. phase[u] = "collect" /\ phase'[u] = "done" /\ Inflight(u) = {}
    BY DEF Return, Goto, IInv, TypeOK
  <1>3. result[u] # "nil" BY <1>2 DEF IInv, UInv, Counted
  <1>4. result'[u] = "error" \/ (result'[u] = "nil" /\ rem[u] = 0)
    BY DEF Return, Result, IInv, TypeOK
  <1> QED BY <1>1, <1>2, <1>3, <1>4, ControlStep DEF Return

LEMMA EndDrainStep ==
  ASSUME IInv, NEW u \in Uploads, EndDrain(u)
  PROVE  IInv'
  <1>1. TypeOK' /\ Alone(u) BY DEF EndDrain, Goto, IInv, TypeOK, Alone
  <1>2. phase[u] = "drain" /\ phase'[u] = "done" /\ Inflight(u) = {}
        /\ result'[u] = result[u]
    BY DEF EndDrain, Goto, IInv, TypeOK
  <1>3. result[u] # "nil" BY <1>2 DEF IInv, UInv, Counted
  <1> QED BY <1>1, <1>2, <1>3, ControlStep DEF EndDrain

LEMMA ReturnSerialStep ==
  ASSUME IInv, NEW u \in Uploads, ReturnSerial(u)
  PROVE  IInv'
  <1>1. TypeOK' /\ Alone(u) BY DEF ReturnSerial, Goto, Result, IInv, TypeOK, Alone
  <1>2. phase[u] = "serial" /\ phase'[u] = "done" /\ Inflight(u) = {}
        /\ rem[u] = 0 /\ result'[u] = "nil"
    BY DEF ReturnSerial, Goto, Result, IInv, TypeOK
  <1>3. result[u] # "nil" BY <1>2 DEF IInv, UInv, Counted
  <1> QED BY <1>1, <1>2, <1>3, ControlStep DEF ReturnSerial

LEMMA CancelStep ==
  ASSUME IInv, NEW u \in Uploads, Cancel(u)
  PROVE  IInv'
  <1>1. TypeOK' /\ Alone(u) BY DEF Cancel, call, IInv, TypeOK, Alone
  <1>2. phase'[u] = phase[u] /\ result'[u] = result[u] BY DEF Cancel, call
  <1>3. phase[u] # "done" BY DEF Cancel
  <1> QED BY <1>1, <1>2, <1>3, ControlStep DEF Cancel, call

-----------------------------------------------------------------------------
(* Steps of the call that change one of its requests.                      *)

LEMMA RequestType ==
  /\ \A h \in Hosts :
       /\ Request(h) \in Jobs
       /\ Request(h).host = h /\ Request(h).st = "sent"
       /\ [Request(h) EXCEPT !.block = TRUE] \in Jobs
       /\ [Request(h) EXCEPT !.block = TRUE].host = h
       /\ [Request(h) EXCEPT !.block = TRUE].st = "sent"
  /\ NoJob \in Jobs /\ NoJob.st = "none"
  BY DEF Request, Jobs, States, NoJob

(* A host that may still be chosen is asked to store a shard. *)
LEMMA AskStep ==
  ASSUME IInv, NEW u \in Uploads, NEW i \in Shards, NEW h \in newHosts[u],
         NEW j \in Jobs, j.host = h, j.st = "sent", SetJob(u, i, j),
         newHosts' = [newHosts EXCEPT ![u] = @ \ {h}],
         job[u][i].st \in {"none", "failed"},
         i \notin Skip(u),
         unsent' \in {unsent, [unsent EXCEPT ![u] = @ \ {i}]},
         i \notin unsent'[u],
         phase[u] \in {"send", "collect"} \/
           (phase[u] = "serial" /\ Inflight(u) = {} /\ rem[u] > 0),
         UNCHANGED <<user, uploader, chunk, sectors, phase, rem, cancelled, result>>
  PROVE  IInv'
  <1>1. h \in Hosts BY DEF IInv, TypeOK
  <1>2. /\ job' \in [Uploads -> [Shards -> Jobs]]
        /\ \A v \in Uploads, k \in Shards :
             job'[v][k] = IF v = u /\ k = i THEN j ELSE job[v][k]
    BY SetJobType DEF IInv
  <1>3. TypeOK'
    <2>1. unsent' \in [Uploads -> SUBSET Shards]
      <3>1. CASE unsent' = unsent BY <3>1 DEF IInv, TypeOK
      <3>2. CASE unsent' = [unsent EXCEPT ![u] = @ \ {i}] BY <3>2 DEF IInv, TypeOK
      <3> QED BY <3>1, <3>2
    <2> QED BY <1>2, <2>1 DEF IInv, TypeOK
  <1>4. Lent' BY LentStays
  <1>5. Alone(u)
    <2>1. \A v \in Uploads \ {u} : job'[v] = job[v] BY DEF SetJob, IInv, TypeOK
    <2> QED BY <2>1 DEF IInv, TypeOK, Alone
  <1>6. UInv(u) BY DEF IInv
  <1>7. Inflight(u)' = Inflight(u) \cup {i} /\ Skip(u)' = Skip(u)
    BY <1>2 DEF Inflight, Skip
  <1>8. newHosts'[u] = newHosts[u] \ {h} /\ unsent'[u] \subseteq unsent[u]
    BY DEF IInv, TypeOK
  <1>9. HostsApart(u)'
    <2>1. \A k \in Inflight(u)' : job'[u][k].host \in Hosts
            /\ job'[u][k].host \notin newHosts'[u]
            /\ \A m \in Shards : chunk'[u][m] # job'[u][k].host
      BY <1>1, <1>2, <1>6, <1>7, <1>8 DEF UInv, HostsApart, Inflight
    <2>2. \A k \in Inflight(u) \ {i} : job'[u][k].host = job[u][k].host
                                      /\ job[u][k].host # h
      BY <1>2, <1>6 DEF UInv, HostsApart, Inflight
    <2>3. \A k, m \in Inflight(u)' : job'[u][k].host = job'[u][m].host => k = m
      BY <1>2, <1>6, <1>7, <2>2 DEF UInv, HostsApart
    <2> QED BY <1>6, <1>8, <2>1, <2>3 DEF UInv, HostsApart, Spread
  <1>10. ShardsApart(u)' BY <1>6, <1>7, <1>8 DEF UInv, ShardsApart
  <1>11. Requests(u)' BY <1>6, <1>7 DEF UInv, Requests
  <1>12. Counted(u)' BY <1>6, <1>7 DEF UInv, Counted
  <1>13. UInv(u)' BY <1>9, <1>10, <1>11, <1>12 DEF UInv
  <1> QED BY <1>3, <1>4, <1>5, <1>13, OneCall

(* A request that is answered is dropped, and what it says forgotten. *)
LEMMA DropStep ==
  ASSUME IInv, NEW u \in Uploads, NEW i \in Shards, SetJob(u, i, NoJob),
         job[u][i].st \in Answered,
         UNCHANGED <<user, uploader, chunk, sectors, unsent, newHosts, rem, cancelled>>,
         \/ UNCHANGED <<phase, result>>
         \/ /\ Result(u, "error")
            /\ \/ Goto(u, "drain") /\ phase[u] = "collect"
               \/ Goto(u, "done") /\ phase[u] = "serial"
  PROVE  IInv'
  <1>1. NoJob \in Jobs /\ NoJob.st = "none" BY RequestType
  <1>2. /\ job' \in [Uploads -> [Shards -> Jobs]]
        /\ \A v \in Uploads, k \in Shards :
             job'[v][k] = IF v = u /\ k = i THEN NoJob ELSE job[v][k]
    BY <1>1, SetJobType DEF IInv
  <1>3. phase' \in [Uploads -> {"start", "send", "collect", "drain", "serial", "done"}]
        /\ result' \in [Uploads -> {"running", "nil", "error"}]
    BY DEF IInv, TypeOK, Goto, Result
  <1>4. TypeOK' BY <1>2, <1>3 DEF IInv, TypeOK
  <1>5. Lent' BY <1>1, LentStays DEF Answered
  <1>6. Alone(u)
    <2>1. \A v \in Uploads \ {u} : job'[v] = job[v] BY DEF SetJob, IInv, TypeOK
    <2>2. \A v \in Uploads \ {u} : phase'[v] = phase[v] /\ result'[v] = result[v]
      BY DEF Goto, Result, IInv, TypeOK
    <2> QED BY <2>1, <2>2 DEF Alone
  <1>7. UInv(u) BY DEF IInv
  <1>8. i \in Inflight(u) BY DEF Inflight, Answered
  <1>9. Inflight(u)' = Inflight(u) \ {i} /\ Skip(u)' = Skip(u)
    BY <1>1, <1>2 DEF Inflight, Skip
  <1>10. \/ phase'[u] = phase[u] /\ result'[u] = result[u]
         \/ phase'[u] = "drain" /\ phase[u] = "collect" /\ result'[u] = "error"
         \/ phase'[u] = "done" /\ phase[u] = "serial" /\ result'[u] = "error"
    BY DEF Goto, Result, IInv, TypeOK
  <1>11. HostsApart(u)'
    <2>1. \A k \in Inflight(u)' : job'[u][k] = job[u][k] BY <1>2, <1>9 DEF Inflight
    <2> QED BY <1>7, <1>9, <2>1 DEF UInv, HostsApart, Spread
  <1>12. ShardsApart(u)' BY <1>7, <1>9, <1>10 DEF UInv, ShardsApart
  <1>13. Requests(u)' BY <1>7, <1>8, <1>9, <1>10 DEF UInv, Requests
  <1>14. Counted(u)' BY <1>7, <1>9, <1>10 DEF UInv, Counted
  <1>15. UInv(u)' BY <1>11, <1>12, <1>13, <1>14 DEF UInv
  <1> QED BY <1>4, <1>5, <1>6, <1>15, OneCall

(* A shard is stored and recorded: one shard less to store. *)
LEMMA RecordStep ==
  ASSUME IInv, NEW u \in Uploads, NEW i \in Shards, SetJob(u, i, NoJob),
         phase[u] \in {"collect", "serial"}, job[u][i].st = "ok",
         chunk' = [chunk EXCEPT ![u][i] = job[u][i].host],
         rem' = [rem EXCEPT ![u] = @ - 1],
         UNCHANGED <<user, uploader, sectors, phase, unsent, newHosts, cancelled, result>>
  PROVE  IInv'
  <1> DEFINE h == job[u][i].host
  <1>1. NoJob \in Jobs /\ NoJob.st = "none" BY RequestType
  <1>2. /\ job' \in [Uploads -> [Shards -> Jobs]]
        /\ \A v \in Uploads, k \in Shards :
             job'[v][k] = IF v = u /\ k = i THEN NoJob ELSE job[v][k]
    BY <1>1, SetJobType DEF IInv
  <1>3. UInv(u) BY DEF IInv
  <1>4. i \in Inflight(u) BY DEF Inflight
  <1>5. h \in Hosts /\ h \notin newHosts[u] /\ \A k \in Shards : chunk[u][k] # h
    BY <1>3, <1>4 DEF UInv, HostsApart
  <1>6. i \notin Skip(u) /\ i \notin unsent[u] BY <1>3, <1>4 DEF UInv, ShardsApart
  <1>7. /\ chunk' \in [Uploads -> [Shards -> Hosts \cup OldHosts \cup {Unset}]]
        /\ \A v \in Uploads \ {u} : chunk'[v] = chunk[v]
        /\ \A k \in Shards : chunk'[u][k] = IF k = i THEN h ELSE chunk[u][k]
    BY <1>5 DEF IInv, TypeOK
  <1> HIDE DEF h
  <1>8. Inflight(u)' = Inflight(u) \ {i} BY <1>1, <1>2 DEF Inflight
  <1>9. Skip(u)' = Skip(u) \cup {i} /\ Skip(u) \in SUBSET Shards
    BY <1>5, <1>7 DEF Skip
  <1>10. /\ Cardinality(Skip(u)') = Cardinality(Skip(u)) + 1
         /\ Cardinality(Shards \ (Skip(u)')) = Cardinality(Shards \ Skip(u)) - 1
         /\ Cardinality(Shards \ Skip(u)) >= 1
    BY <1>6, <1>9, OneMore
  <1>11. Cardinality(Skip(u)) \in Nat /\ Cardinality(Shards \ Skip(u)) \in Nat
    BY <1>9, Finite
  <1>12. rem[u] >= 1 /\ rem[u] \in Nat /\ rem'[u] = rem[u] - 1
    <2>1. rem[u] \in Nat /\ rem'[u] = rem[u] - 1 BY DEF IInv, TypeOK
    <2>2. CASE phase[u] = "serial" BY <1>3, <1>4, <2>1, <2>2 DEF UInv, Requests
    <2>3. CASE phase[u] = "collect"
      <3>1. uploader[u] = "parallel" BY <1>3, <2>3 DEF UInv, Requests
      <3>2. rem[u] = Cardinality(Shards \ Skip(u)) BY <1>3, <2>3, <3>1 DEF UInv, Counted
      <3> QED BY <1>10, <2>1, <3>2
    <2> QED BY <2>2, <2>3
  <1>13. TypeOK'
    <2>1. rem' \in [Uploads -> Nat] BY <1>12 DEF IInv, TypeOK
    <2> QED BY <1>2, <1>7, <2>1 DEF IInv, TypeOK
  <1>14. Lent' BY <1>1, LentStays
  <1>15. Alone(u)
    <2>1. \A v \in Uploads \ {u} : job'[v] = job[v] BY DEF SetJob, IInv, TypeOK
    <2> QED BY <1>7, <2>1 DEF Alone, IInv, TypeOK
  <1>16. HostsApart(u)'
    <2>1. \A k \in Inflight(u)' :
            job'[u][k] = job[u][k] /\ k \in Inflight(u) /\ job[u][k].host # h
      BY <1>2, <1>3, <1>4, <1>8 DEF Inflight, UInv, HostsApart, h
    <2>2. \A k \in Inflight(u)' : \A m \in Shards : chunk'[u][m] # job'[u][k].host
      BY <1>3, <1>7, <2>1 DEF UInv, HostsApart
    <2>3. \A k \in Shards : chunk'[u][k] \notin newHosts'[u]
      BY <1>3, <1>5, <1>7 DEF UInv, HostsApart
    <2>4. Spread(chunk'[u])
      <3>1. Spread(chunk[u]) BY <1>3 DEF UInv, HostsApart
      <3> QED BY <1>5, <1>7, <3>1 DEF Spread
    <2> QED BY <1>3, <2>1, <2>2, <2>3, <2>4 DEF UInv, HostsApart
  <1>17. ShardsApart(u)' BY <1>3, <1>6, <1>8, <1>9 DEF UInv, ShardsApart
  <1>18. Requests(u)'
    BY <1>3, <1>4, <1>8 DEF UInv, Requests
  <1>19. Counted(u)'
    <2>1. result[u] # "nil" BY <1>3 DEF UInv, Counted
    <2> QED BY <1>3, <1>10, <1>11, <1>12, <2>1, UploadHostsAssumption DEF UInv, Counted
  <1>20. UInv(u)' BY <1>16, <1>17, <1>18, <1>19 DEF UInv
  <1> QED BY <1>13, <1>14, <1>15, <1>20, OneCall

LEMMA SendStep ==
  ASSUME IInv, NEW u \in Uploads, Send(u)
  PROVE  IInv'
  <1>1. PICK i \in unsent[u] :
          /\ unsent' = [unsent EXCEPT ![u] = @ \ {i}]
          /\ IF i \in Skip(u) \/ newHosts[u] = {}
             THEN UNCHANGED <<newHosts, job>>
             ELSE \E h \in newHosts[u] :
                    /\ newHosts' = [newHosts EXCEPT ![u] = @ \ {h}]
                    /\ SetJob(u, i, Request(h))
    BY DEF Send
  <1>2. phase[u] = "send" /\ i \in Shards /\ i \notin unsent'[u]
        /\ UNCHANGED <<user, uploader, chunk, sectors, phase, rem, cancelled, result>>
    BY <1>1 DEF Send, IInv, TypeOK
  <1>3. i \notin Inflight(u) /\ job[u][i].st = "none"
    BY <1>1, <1>2 DEF IInv, UInv, ShardsApart, Inflight
  <1>4. CASE UNCHANGED <<newHosts, job>>
    <2>1. TypeOK' /\ Alone(u) BY <1>1, <1>2, <1>4 DEF IInv, TypeOK, Alone
    <2>2. Lent' BY <1>2, <1>4 DEF IInv, Lent
    <2>3. UInv(u) /\ Inflight(u)' = Inflight(u) /\ Skip(u)' = Skip(u)
      BY <1>2, <1>4 DEF IInv, Inflight, Skip
    <2>4. unsent'[u] \subseteq unsent[u] BY <1>1 DEF IInv, TypeOK
    <2>5. HostsApart(u)' BY <1>2, <1>4, <2>3 DEF UInv, HostsApart, Spread
    <2>6. ShardsApart(u)' BY <1>2, <2>3, <2>4 DEF UInv, ShardsApart
    <2>7. Requests(u)' /\ Counted(u)' BY <1>2, <2>3 DEF UInv, Requests, Counted
    <2> QED BY <2>1, <2>2, <2>5, <2>6, <2>7, OneCall DEF UInv
  <1>5. CASE i \notin Skip(u) /\ newHosts[u] # {}
    <2>1. PICK h \in newHosts[u] :
            /\ newHosts' = [newHosts EXCEPT ![u] = @ \ {h}]
            /\ SetJob(u, i, Request(h))
      BY <1>1, <1>5
    <2>2. h \in Hosts BY DEF IInv, TypeOK
    <2> QED BY <1>1, <1>2, <1>3, <1>5, <2>1, <2>2, RequestType, AskStep
  <1> QED BY <1>1, <1>4, <1>5

LEMMA NextShardStep ==
  ASSUME IInv, NEW u \in Uploads, NextShard(u)
  PROVE  IInv'
  <1>1. PICK i \in unsent[u], h \in newHosts[u] :
          /\ unsent' = [unsent EXCEPT ![u] = @ \ {i}]
          /\ newHosts' = [newHosts EXCEPT ![u] = @ \ {h}]
          /\ SetJob(u, i, [Request(h) EXCEPT !.block = TRUE])
    BY DEF NextShard
  <1>2. phase[u] = "serial" /\ Inflight(u) = {} /\ rem[u] > 0 BY DEF NextShard
  <1>3. i \in Shards /\ i \notin unsent'[u] /\ h \in Hosts BY <1>1 DEF IInv, TypeOK
  <1>4. i \notin Skip(u) /\ job[u][i].st = "none"
    BY <1>1, <1>2, <1>3 DEF IInv, UInv, ShardsApart, Inflight
  <1> QED BY <1>1, <1>2, <1>3, <1>4, RequestType, AskStep DEF NextShard

LEMMA CollectFailedStep ==
  ASSUME IInv, NEW u \in Uploads, NEW i \in Shards, CollectFailed(u, i)
  PROVE  IInv'
  <1>1. PICK h \in newHosts[u] :
          /\ newHosts' = [newHosts EXCEPT ![u] = @ \ {h}]
          /\ SetJob(u, i, Request(h))
    BY DEF CollectFailed
  <1>2. phase[u] = "collect" /\ job[u][i].st = "failed" /\ unsent' = unsent
    BY DEF CollectFailed, Collecting
  <1>3. i \in Inflight(u) BY <1>2 DEF Inflight
  <1>4. i \notin Skip(u) /\ i \notin unsent'[u]
    BY <1>2, <1>3 DEF IInv, UInv, ShardsApart
  <1>5. h \in Hosts BY DEF IInv, TypeOK
  <1> QED BY <1>1, <1>2, <1>4, <1>5, RequestType, AskStep DEF CollectFailed

LEMMA CollectAcquiredStep ==
  ASSUME IInv, NEW u \in Uploads, NEW i \in Shards, CollectAcquired(u, i)
  PROVE  IInv'
  <1> DEFINE j == [Request(job[u][i].host) EXCEPT !.block = TRUE]
  <1>1. job[u][i].st = "acquired" BY DEF CollectAcquired, Collecting
  <1>2. job[u][i].host \in Hosts BY <1>1 DEF IInv, UInv, HostsApart, Inflight
  <1>3. j \in Jobs /\ j.host = job[u][i].host /\ j.st = "sent" BY <1>2, RequestType
  <1>4. SetJob(u, i, j) /\ UNCHANGED <<user, chunk, sectors, call, cancelled>>
    BY DEF CollectAcquired
  <1> HIDE DEF j
  <1>5. /\ job' \in [Uploads -> [Shards -> Jobs]]
        /\ \A v \in Uploads, k \in Shards :
             job'[v][k] = IF v = u /\ k = i THEN j ELSE job[v][k]
    BY <1>3, <1>4, SetJobType DEF IInv
  <1>6. TypeOK' BY <1>4, <1>5 DEF IInv, TypeOK, call
  <1>7. Lent' BY <1>1, <1>3, <1>4, LentStays
  <1>8. \A v \in Uploads \ {u} : job'[v] = job[v] BY <1>4 DEF SetJob, IInv, TypeOK
  <1> QED BY <1>1, <1>3, <1>4, <1>5, <1>6, <1>7, <1>8, SameHosts

LEMMA CollectStep ==
  ASSUME IInv, NEW u \in Uploads, NEW i \in Shards,
         Collect(u, i) \/ ShardDone(u, i) \/ ShardFailed(u, i)
  PROVE  IInv'
  <1>1. CASE CollectStored(u, i) BY <1>1, RecordStep DEF CollectStored, Collecting
  <1>2. CASE CollectUnrecorded(u, i)
    BY <1>2, DropStep DEF CollectUnrecorded, Collecting, Answered
  <1>3. CASE CollectAcquired(u, i) BY <1>3, CollectAcquiredStep
  <1>4. CASE CollectFailed(u, i) BY <1>4, CollectFailedStep
  <1>5. CASE CollectGivenUp(u, i)
    BY <1>5, DropStep DEF CollectGivenUp, Collecting, Answered, call
  <1>6. CASE Drain(u, i) BY <1>6, DropStep DEF Drain, call
  <1>7. CASE ShardDone(u, i) BY <1>7, RecordStep DEF ShardDone
  <1>8. CASE ShardFailed(u, i) BY <1>8, DropStep DEF ShardFailed, Answered
  <1> QED BY <1>1, <1>2, <1>3, <1>4, <1>5, <1>6, <1>7, <1>8 DEF Collect

LEMMA StutterStep == ASSUME IInv, UNCHANGED vars PROVE IInv'
  <1>1. \A u \in Uploads : Inflight(u)' = Inflight(u) /\ Skip(u)' = Skip(u)
    BY DEF vars, Inflight, Skip
  <1>2. TypeOK' BY DEF vars, IInv, TypeOK
  <1>3. Lent' BY DEF vars, IInv, Lent
  <1>4. ASSUME NEW u \in Uploads PROVE UInv(u)'
    <2>1. UInv(u) BY DEF IInv
    <2>2. HostsApart(u)' BY <1>1, <2>1 DEF vars, UInv, HostsApart, Spread
    <2>3. ShardsApart(u)' BY <1>1, <2>1 DEF vars, UInv, ShardsApart
    <2>4. Requests(u)' /\ Counted(u)' BY <1>1, <2>1 DEF vars, UInv, Requests, Counted
    <2> QED BY <2>2, <2>3, <2>4 DEF UInv
  <1> QED BY <1>2, <1>3, <1>4 DEF IInv

LEMMA StepInv == IInv /\ [Next]_vars => IInv'
  <1> SUFFICES ASSUME IInv, [Next]_vars PROVE IInv' OBVIOUS
  <1>1. ASSUME NEW u \in Uploads, Main(u) PROVE IInv'
    <2>1. CASE Start(u) BY <2>1, StartStep
    <2>2. CASE Refuse(u) BY <2>2, RefuseStep
    <2>3. CASE Send(u) BY <2>3, SendStep
    <2>4. CASE EndSend(u) BY <2>4, EndSendStep
    <2>5. CASE Interrupted(u) BY <2>5, InterruptedStep
    <2>6. CASE Return(u) BY <2>6, ReturnStep
    <2>7. CASE EndDrain(u) BY <2>7, EndDrainStep
    <2>8. CASE StartSerial(u) BY <2>8, StartSerialStep
    <2>9. CASE NextShard(u) BY <2>9, NextShardStep
    <2>10. CASE ReturnSerial(u) BY <2>10, ReturnSerialStep
    <2>11. CASE \E i \in Shards : Collect(u, i) \/ ShardDone(u, i) \/ ShardFailed(u, i)
      BY <2>11, CollectStep
    <2> QED BY <1>1, <2>1, <2>2, <2>3, <2>4, <2>5, <2>6, <2>7, <2>8, <2>9, <2>10, <2>11
            DEF Main
  <1>2. ASSUME NEW u \in Uploads, Cancel(u) PROVE IInv' BY <1>2, CancelStep
  <1>3. ASSUME NEW u \in Uploads, NEW i \in Shards, Work(u, i) PROVE IInv'
    BY <1>3, WorkStep
  <1>4. CASE OutsiderBorrows \/ OutsiderGivesBack BY <1>4, OutsiderStep
  <1>5. CASE UNCHANGED vars BY <1>5, StutterStep
  <1> QED BY <1>1, <1>2, <1>3, <1>4, <1>5 DEF Next

LEMMA Invariance == Spec => []IInv
  BY InitInv, StepInv, PTL DEF Spec

-----------------------------------------------------------------------------
(* What an upload promises, for every number of calls, shards and hosts.   *)

(* The state has its types; in particular the number of shards a call      *)
(* still has to store never falls below zero.                              *)
THEOREM UploadTypes == Spec => []TypeOK
  <1>1. IInv => TypeOK BY DEF IInv
  <1> QED BY <1>1, Invariance, PTL

(* No retry, and no repair of a partial upload, puts two shards of a chunk *)
(* on one host.                                                            *)
THEOREM ShardsSpread == Spec => []OneShardPerHost
  <1>1. IInv => OneShardPerHost BY DEF IInv, UInv, HostsApart, OneShardPerHost
  <1> QED BY <1>1, Invariance, PTL

(* UploadChunk returns nil only for a chunk that is stored as far as its   *)
(* uploader was asked to store it.                                         *)
THEOREM SuccessIsComplete == Spec => []CompleteOnSuccess
  <1>1. ASSUME IInv, NEW u \in Uploads, result[u] = "nil"
        PROVE  IF uploader[u] = "minimum" THEN Cardinality(Skip(u)) >= MinShards
               ELSE Skip(u) = Shards
    <2>1. UInv(u) /\ rem[u] = 0 BY <1>1 DEF IInv, UInv, Counted
    <2>2. Skip(u) \in SUBSET Shards BY DEF Skip
    <2>3. Cardinality(Skip(u)) \in Nat BY <2>2, Finite
    <2>4. CASE uploader[u] = "minimum" BY <1>1, <2>1, <2>3, <2>4 DEF UInv, Counted
    <2>5. CASE uploader[u] # "minimum"
      <3>1. Cardinality(Shards \ Skip(u)) = 0 BY <1>1, <2>1, <2>5 DEF UInv, Counted
      <3>2. IsFiniteSet(Shards \ Skip(u)) BY Finite
      <3>3. Shards \ Skip(u) = {} BY <3>1, <3>2, FS_EmptySet
      <3>4. Skip(u) = Shards BY <2>2, <3>3
      <3> QED BY <2>5, <3>4
    <2> QED BY <2>4, <2>5
  <1>2. IInv => CompleteOnSuccess BY <1>1 DEF CompleteOnSuccess
  <1> QED BY <1>2, Invariance, PTL

(* A call that has returned holds no host and leaves no worker behind. *)
THEOREM ReturnsClean == Spec => []NothingLeftBehind
  <1>1. ASSUME IInv, NEW u \in Uploads, phase[u] = "done"
        PROVE  Inflight(u) = {} /\ \A h \in Hosts, i \in Shards : user[h] # <<u, i>>
    <2>1. Inflight(u) = {} BY <1>1 DEF IInv, UInv, Requests
    <2> QED BY <1>1, <2>1 DEF IInv, Lent, Inflight
  <1>2. IInv => NothingLeftBehind BY <1>1 DEF NothingLeftBehind
  <1> QED BY <1>2, Invariance, PTL
=============================================================================
