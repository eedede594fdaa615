--------------------------- MODULE RenterHostProofs ---------------------------
(***************************************************************************)
(* Facts about the operators RenterHost is built from, its type            *)
(* correctness and its safety, for every set of sessions and sectors, all  *)
(* prices and payouts and every maximal revision number.                   *)
(***************************************************************************)
EXTENDS RenterHost, TLAPS

-----------------------------------------------------------------------------
(* Facts about revisions and edits. *)

(* The coins of a revision add up. *)
Conserved(rev) ==
  /\ rev.vr + rev.vh = RenterPayout + HostPayout
  /\ rev.mr + rev.mh + rev.mv = RenterPayout + HostPayout
  /\ rev.vr = rev.mr

(* A subtraction of coins never leaves the naturals. *)
LEMMA SubType ==
  ASSUME NEW x \in Nat, NEW y \in Nat
  PROVE  Sub(x, y) \in Nat
BY DEF Sub

(* Moving coins between the outputs of a revision gives a revision, and    *)
(* only its number and its outputs change.                                 *)
LEMMA ReviseType ==
  ASSUME NEW rev \in Revision, NEW cost \in Nat, NEW coll \in Nat
  PROVE  /\ Revise(rev, cost, coll) \in Revision
         /\ Revise(rev, cost, coll).num = rev.num + 1
         /\ Revise(rev, cost, coll).size = rev.size
         /\ Revise(rev, cost, coll).root = rev.root
         /\ Revise(rev, cost, coll).vr = Sub(rev.vr, cost)
         /\ Revise(rev, cost, coll).vh = rev.vh + cost
         /\ Revise(rev, cost, coll).mr = Sub(rev.mr, cost)
         /\ Revise(rev, cost, coll).mh = Sub(rev.mh, coll)
         /\ Revise(rev, cost, coll).mv = rev.mv + cost + coll
<1>. DEFINE r == [num |-> rev.num + 1, size |-> rev.size, root |-> rev.root,
                  vr |-> Sub(rev.vr, cost), vh |-> rev.vh + cost,
                  mr |-> Sub(rev.mr, cost), mh |-> Sub(rev.mh, coll),
                  mv |-> rev.mv + cost + coll]
<1>1. /\ Sub(rev.vr, cost) \in Nat
      /\ Sub(rev.mr, cost) \in Nat
      /\ Sub(rev.mh, coll) \in Nat
  BY SubType DEF Revision
<1>2. /\ rev.num + 1 \in Nat /\ rev.size \in Nat /\ rev.root \in Seq(Sectors)
      /\ rev.vh + cost \in Nat /\ rev.mv + cost + coll \in Nat
  BY SMTT(30) DEF Revision
<1>3. r \in Revision
  BY <1>1, <1>2, Zenon DEF Revision
<1>4. /\ r.num = rev.num + 1 /\ r.size = rev.size /\ r.root = rev.root
      /\ r.vr = Sub(rev.vr, cost) /\ r.vh = rev.vh + cost
      /\ r.mr = Sub(rev.mr, cost) /\ r.mh = Sub(rev.mh, coll)
      /\ r.mv = rev.mv + cost + coll
  OBVIOUS
<1>. HIDE DEF r
<1>5. Revise(rev, cost, coll) = r
  BY <1>3, <1>4 DEF Revise, UpdateRevisionOutputs, Revision
<1>. QED BY <1>3, <1>4, <1>5

(* What the renter asks the host to put at risk never exceeds what the     *)
(* host output of the missed payout holds.                                 *)
LEMMA CollateralType ==
  ASSUME NEW rev \in Revision, NEW e \in Edit, NEW c \in Nat
  PROVE  /\ CollateralOf(rev, e, c) \in Nat
         /\ CollateralOf(rev, e, c) <= rev.mh
BY DEF CollateralOf, Revision, Edit

(* A renter that has sufficient funds proposes a revision that moves coins *)
(* without creating or destroying any, and keeps its reserve.              *)
LEMMA ReviseConserves ==
  ASSUME NEW rev \in Revision, NEW cost \in Nat, NEW coll \in Nat,
         Conserved(rev), SufficientFunds(rev, cost), coll <= rev.mh
  PROVE  /\ Conserved(Revise(rev, cost, coll))
         /\ Revise(rev, cost, coll).vr >= 5 * BaseRPCPrice
<1>. DEFINE r == Revise(rev, cost, coll)
<1>1. /\ r.vr = Sub(rev.vr, cost) /\ r.vh = rev.vh + cost
      /\ r.mr = Sub(rev.mr, cost) /\ r.mh = Sub(rev.mh, coll)
      /\ r.mv = rev.mv + cost + coll
  BY ReviseType
<1>2. /\ rev.vr \in Nat /\ rev.vh \in Nat
      /\ rev.mr \in Nat /\ rev.mh \in Nat /\ rev.mv \in Nat
  BY DEF Revision
<1>. HIDE DEF r
<1>3. Conserved(r) /\ r.vr >= 5 * BaseRPCPrice
  BY <1>1, <1>2, RevisionAssumption DEF Sub, Conserved, SufficientFunds
<1>. QED BY <1>3 DEF r

(* A host that holds the revision a proposal was made from reconstructs    *)
(* exactly the proposal.                                                   *)
LEMMA AdoptsProposal ==
  ASSUME NEW rev \in Revision, NEW cost \in Nat, NEW coll \in Nat
  PROVE  AdoptValues(rev, Revise(rev, cost, coll)) = Revise(rev, cost, coll)
<1>. DEFINE r == Revise(rev, cost, coll)
<1>1. r \in Revision /\ r.size = rev.size /\ r.root = rev.root
  BY ReviseType
<1>. HIDE DEF r
<1>2. AdoptValues(rev, r) = r
  BY <1>1 DEF Revision, AdoptValues
<1>. QED BY <1>2 DEF r

(* A legal edit gives a list of sector roots, and its length is what the   *)
(* renter calculates from the file size alone.                             *)
LEMMA EditType ==
  ASSUME NEW roots \in Seq(Sectors), NEW e \in Edit, EditIsLegal(roots, e)
  PROVE  /\ EditRoots(roots, e) \in Seq(Sectors)
         /\ Len(EditRoots(roots, e)) = EditSize(Len(roots), e)
<1>1. CASE e.op = "append"
  BY <1>1 DEF EditRoots, EditSize, Edit
<1>2. CASE e.op = "trim"
  BY <1>2, RevisionAssumption
     DEF EditRoots, EditSize, Edit, EditIsLegal, Index
<1>3. CASE e.op = "swap"
  BY <1>3, RevisionAssumption
     DEF EditRoots, EditSize, Edit, EditIsLegal, Index
<1>. QED BY <1>1, <1>2, <1>3 DEF Edit

(* A legal edit brings in no root but that of the sector it appends. *)
LEMMA EditData ==
  ASSUME NEW roots \in Seq(Sectors), NEW e \in Edit, EditIsLegal(roots, e),
         NEW data, \A i \in 1 .. Len(roots) : roots[i] \in data
  PROVE  \A i \in 1 .. Len(EditRoots(roots, e)) :
            EditRoots(roots, e)[i] \in data \cup Gained(e)
<1>1. CASE e.op = "append"
  BY <1>1 DEF EditRoots, Edit, Gained
<1>2. CASE e.op = "trim"
  BY <1>2, RevisionAssumption, SMTT(30)
     DEF EditRoots, Edit, EditIsLegal, Index, Gained
<1>3. CASE e.op = "swap"
  <2>. DEFINE new == EditRoots(roots, e)
  <2>1. /\ e.i \in Nat /\ e.j \in Nat
        /\ e.i + 1 \in 1 .. Len(roots) /\ e.j + 1 \in 1 .. Len(roots)
    BY <1>3, RevisionAssumption DEF Edit, EditIsLegal, Index
  <2>2. new = [roots EXCEPT ![e.i + 1] = roots[e.j + 1],
                            ![e.j + 1] = roots[e.i + 1]]
    BY <1>3 DEF EditRoots
  <2>3. Len(new) = Len(roots)
    BY <2>2
  <2>4. ASSUME NEW i \in 1 .. Len(roots) PROVE new[i] \in data
    BY <2>1, <2>2
  <2>. QED BY <2>3, <2>4
<1>. QED BY <1>1, <1>2, <1>3 DEF Edit

-----------------------------------------------------------------------------
(* Type correctness. *)

(* The values that stand for nothing have the types of the others. *)
LEMMA EmptyTypes ==
  /\ NoRevision \in Revision
  /\ NoEdit \in Edit
  /\ NoProposal \in Proposals
  /\ NoWrite \in Writes
  /\ NoMessage \in Requests
  /\ NoResponse \in Responses
<1>1. NoRevision \in Revision
  BY DEF NoRevision, Revision
<1>2. NoEdit \in Edit
  BY RevisionAssumption DEF NoEdit, Edit, Index
<1>. QED
  BY <1>1, <1>2 DEF NoProposal, Proposals, NoWrite, Writes, NoMessage, Message,
     Requests, NoResponse, Reply, Response, Responses

(* A contract starts from a revision. *)
LEMMA InitialType ==
  ASSUME NEW v \in 0 .. HostPayout
  PROVE  InitialRevision(v) \in Revision
BY RevisionAssumption DEF InitialRevision, Revision

(* What the host builds from a request is a revision. *)
LEMMA AdoptType ==
  ASSUME NEW rev \in Revision, NEW prop \in Revision
  PROVE  AdoptValues(rev, prop) \in Revision
BY DEF AdoptValues, Revision

(* A revision stays one when the host or the renter sets its size and root. *)
LEMMA ResizeType ==
  ASSUME NEW rev \in Revision, NEW n \in Nat, NEW r \in Seq(Sectors)
  PROVE  /\ [rev EXCEPT !.size = n, !.root = r] \in Revision
         /\ [rev EXCEPT !.size = n, !.root = r].size = n
         /\ [rev EXCEPT !.size = n, !.root = r].root = r
BY DEF Revision

(* The renter calculates a natural number of sectors. *)
LEMMA EditSizeType ==
  ASSUME NEW n \in Nat, NEW e \in Edit
  PROVE  EditSize(n, e) \in Nat
BY RevisionAssumption DEF EditSize, FileSizes, Edit, Index

(* A proposal of a renter that has the contract locked is a revision. *)
LEMMA ProposalType ==
  ASSUME NEW rev \in Revision, NEW price \in Prices, NEW e \in Edit,
         NEW c \in Collaterals
  PROVE  /\ Revise(rev, price, 0) \in Revision
         /\ Revise(rev, price, CollateralOf(rev, e, c)) \in Revision
<1>1. price \in Nat /\ c \in Nat
  BY RevisionAssumption
<1>2. CollateralOf(rev, e, c) \in Nat
  BY <1>1, CollateralType
<1>. QED BY <1>1, <1>2, ReviseType

(* Requests are well typed, whether or not they are lost. *)
LEMMA SendType ==
  ASSUME NEW s \in Sessions, NEW m \in Requests, TypeOK, Send(s, m)
  PROVE  req' \in [Sessions -> Requests]
BY EmptyTypes DEF Send, TypeOK

(* The type invariant, and nothing else of the state, is preserved by every *)
(* step of a connection.                                                    *)
LEMMA TypeStep ==
  ASSUME TypeOK, [Next]_vars
  PROVE  TypeOK'
<1>. USE DEF contractVars, handlerVars, renterVars
<1>1. CASE UNCHANGED vars
  BY <1>1 DEF TypeOK, vars
<1>2. ASSUME NEW s \in Sessions, Connection(s) PROVE TypeOK'
  <2>1. CASE Dial(s)
    BY <2>1, EmptyTypes DEF Dial, TypeOK
  <2>2. CASE Close(s)
    BY <2>2, EmptyTypes DEF Close, Discard, TypeOK, Pcs
  <2>3. CASE RenterFail(s)
    BY <2>3, EmptyTypes DEF RenterFail, Discard, TypeOK, Pcs
  <2>4. CASE HostDrop(s)
    BY <2>4, EmptyTypes DEF HostDrop, HandlerReturns, TypeOK
  <2>. QED BY <1>2, <2>1, <2>2, <2>3, <2>4 DEF Connection
<1>3. ASSUME NEW s \in Sessions, RenterSends(s) PROVE TypeOK'
  <2>1. ASSUME NEW t \in Pcs, NEW rev \in Revision, NEW e \in Edit, NEW arg,
               Message(t, rev, arg) \in Requests, Propose(s, t, rev, e, arg)
        PROVE  TypeOK'
    <3>1. [rev |-> rev, edit |-> e] \in Proposals
      BY DEF Proposals
    <3>2. req' \in [Sessions -> Requests]
      BY <2>1, SendType DEF Propose
    <3>. QED BY <2>1, <3>1, <3>2 DEF Propose, TypeOK
  <2>2. CASE SendLock(s)
    <3>1. Message("lock", NoRevision, NoEdit) \in Requests
      BY EmptyTypes DEF Message, Requests
    <3>. QED BY <2>1, <2>2, <3>1, EmptyTypes DEF SendLock, Pcs
  <2>3. CASE SendUnlock(s)
    <3>1. Message("unlock", NoRevision, NoEdit) \in Requests
      BY EmptyTypes DEF Message, Requests
    <3>2. req' \in [Sessions -> Requests]
      BY <2>3, <3>1, SendType DEF SendUnlock
    <3>. QED BY <2>3, <3>2, EmptyTypes DEF SendUnlock, TypeOK
  <2>4. ASSUME NEW price \in Prices, SendSectorRoots(s, price) PROVE TypeOK'
    <3>1. Revise(rrev[s], price, 0) \in Revision
      BY RevisionAssumption, ReviseType DEF TypeOK
    <3>2. Message("roots", Revise(rrev[s], price, 0), NoEdit) \in Requests
      BY <3>1, EmptyTypes DEF Message, Requests
    <3>. QED BY <2>1, <2>4, <3>1, <3>2, EmptyTypes DEF SendSectorRoots, Pcs
  <2>5. ASSUME NEW price \in Prices, NEW x \in Sectors, SendRead(s, x, price)
        PROVE  TypeOK'
    <3>1. Revise(rrev[s], price, 0) \in Revision
      BY RevisionAssumption, ReviseType DEF TypeOK
    <3>2. Message("read", Revise(rrev[s], price, 0), x) \in Requests
      BY <3>1 DEF Message, Requests
    <3>. QED BY <2>1, <2>5, <3>1, <3>2, EmptyTypes DEF SendRead, Pcs
  <2>6. ASSUME NEW price \in Prices, NEW e \in Edit, NEW c \in Collaterals,
               SendWrite(s, e, price, c)
        PROVE  TypeOK'
    <3>. DEFINE p == Revise(rrev[s], price, CollateralOf(rrev[s], e, c))
    <3>1. p \in Revision
      BY ProposalType DEF TypeOK
    <3>2. Message("write", p, e) \in Requests
      BY <3>1 DEF Message, Requests
    <3>. QED BY <2>1, <2>6, <3>1, <3>2 DEF SendWrite, Pcs
  <2>. QED BY <1>3, <2>2, <2>3, <2>4, <2>5, <2>6 DEF RenterSends
<1>4. ASSUME NEW s \in Sessions, HostHandles(s) PROVE TypeOK'
  <2>. USE DEF Consumed, Respond
  <2>1. ASSUME NEW t, NEW rev \in Revision, NEW a \in Revision,
               NEW b \in Revision, NEW old \in Seq(Sectors),
               NEW new \in Seq(Sectors),
               t \in {"error", "lock", "busy", "roots", "data", "proof", "sig"}
        PROVE  Response(t, rev, a, b, old, new) \in Responses
    BY <2>1 DEF Response, Responses
  <2>2. /\ req[s].rev \in Revision
        /\ hrev \in Revision /\ hroots \in Seq(Sectors)
        /\ << >> \in Seq(Sectors)
        /\ AdoptValues(hrev, req[s].rev) \in Revision
    <3>1. req[s] \in Requests /\ hrev \in Revision /\ hroots \in Seq(Sectors)
      BY DEF TypeOK
    <3>2. req[s].rev \in Revision
      BY <3>1 DEF Requests
    <3>. QED BY <3>1, <3>2, AdoptType
  <2>3. CASE HostLock(s)
    <3>1. Response("lock", hrev, rsig, hsig, << >>, << >>) \in Responses
      BY <2>1, <2>2 DEF TypeOK
    <3>2. Reply("busy") \in Responses
      BY <2>1, <2>2, EmptyTypes DEF Reply
    <3>. QED BY <2>3, <3>1, <3>2, EmptyTypes DEF HostLock, TypeOK
  <2>4. CASE HostUnlock(s)
    BY <2>4, EmptyTypes DEF HostUnlock, TypeOK
  <2>5. CASE HostSectorRoots(s)
    <3>1. Response("roots", NoRevision, NoRevision,
                   AdoptValues(hrev, req[s].rev), hroots, << >>) \in Responses
      BY <2>1, <2>2, EmptyTypes
    <3>. QED
      BY <2>2, <2>5, <3>1, EmptyTypes DEF HostSectorRoots, Commit, TypeOK
  <2>6. CASE HostRead(s)
    <3>1. Response("data", NoRevision, NoRevision,
                   AdoptValues(hrev, req[s].rev), << >>, << >>) \in Responses
      BY <2>1, <2>2, EmptyTypes
    <3>2. Reply("error") \in Responses
      BY <2>1, <2>2, EmptyTypes DEF Reply
    <3>3. /\ hrev' \in Revision /\ rsig' \in Revision /\ hsig' \in Revision
          /\ UNCHANGED <<hroots, hdata, renterVars>>
      BY <2>2, <2>6 DEF HostRead, Commit
    <3>4. /\ resp' \in [Sessions -> Responses]
          /\ req' \in [Sessions -> Requests]
      BY <2>6, <3>1, <3>2, EmptyTypes DEF HostRead, HandlerReturns, TypeOK
    <3>5. /\ hst' \in [Sessions -> {"done", "loop", "stop", "sig"}]
          /\ hlocked' \in [Sessions -> BOOLEAN]
          /\ hpend' \in [Sessions -> Writes]
      <4>1. CASE req[s].arg \in hdata
        BY <2>6, <4>1 DEF HostRead, TypeOK
      <4>2. CASE req[s].arg \notin hdata
        <5>1. HandlerReturns(s)
          BY <2>6, <4>2 DEF HostRead
        <5>. QED BY <5>1, EmptyTypes DEF HandlerReturns, TypeOK
      <4>. QED BY <4>1, <4>2
    <3>. QED BY <3>3, <3>4, <3>5 DEF TypeOK
  <2>7. CASE HostStop(s)
    BY <2>7, EmptyTypes DEF HostStop, TypeOK
  <2>8. CASE HostWrite(s)
    <3>. DEFINE e   == req[s].arg
                new == EditRoots(hroots, e)
                n   == EditSize(hrev.size, e)
                rev == [AdoptValues(hrev, req[s].rev) EXCEPT
                          !.size = n, !.root = new]
    <3>1. e \in Edit
      <4>1. req[s] \in Requests /\ req[s].type = "write"
        BY <2>8 DEF HostWrite, Handles, TypeOK
      <4>. QED BY <4>1 DEF Requests
    <3>2. EditIsLegal(hroots, e)
      BY <2>8 DEF HostWrite
    <3>3. new \in Seq(Sectors)
      BY <2>2, <3>1, <3>2, EditType
    <3>4. n \in Nat
      BY <2>2, <3>1, EditSizeType DEF Revision
    <3>. HIDE DEF e, new, n
    <3>5. rev \in Revision
      BY <2>2, <3>3, <3>4, ResizeType
    <3>. HIDE DEF rev
    <3>6. [rev |-> rev, roots |-> new, edit |-> e] \in Writes
      BY <3>1, <3>3, <3>5 DEF Writes
    <3>7. Response("proof", NoRevision, NoRevision, NoRevision, hroots, new)
            \in Responses
      BY <2>1, <2>2, <3>3, EmptyTypes
    <3>8. /\ hpend' = [hpend EXCEPT ![s] =
                         [rev |-> rev, roots |-> new, edit |-> e]]
          /\ resp' = [resp EXCEPT ![s] =
                        Response("proof", NoRevision, NoRevision, NoRevision,
                                 hroots, new)]
      BY <2>8 DEF HostWrite, e, new, n, rev
    <3>9. /\ hst' = [hst EXCEPT ![s] = "sig"]
          /\ req' = [req EXCEPT ![s] = NoMessage]
          /\ UNCHANGED <<contractVars, hlocked, renterVars>>
      BY <2>8 DEF HostWrite
    <3>. QED BY <3>6, <3>7, <3>8, <3>9, EmptyTypes DEF TypeOK
  <2>9. CASE HostWriteSign(s)
    <3>1. hpend[s] \in Writes
      BY DEF TypeOK
    <3>2. /\ hpend[s].rev \in Revision /\ hpend[s].roots \in Seq(Sectors)
          /\ hpend[s].edit \in Edit
      BY <3>1 DEF Writes
    <3>3. Gained(hpend[s].edit) \subseteq Sectors
      BY <3>2 DEF Gained, Edit
    <3>4. Response("sig", NoRevision, NoRevision, hpend[s].rev, << >>, << >>)
            \in Responses
      BY <2>1, <2>2, <3>2, EmptyTypes
    <3>. QED
      BY <2>2, <2>9, <3>2, <3>3, <3>4, EmptyTypes
         DEF HostWriteSign, Commit, TypeOK
  <2>10. CASE HostReject(s)
    <3>1. Reply("error") \in Responses
      BY <2>1, <2>2, EmptyTypes DEF Reply
    <3>. QED
      BY <2>10, <3>1, EmptyTypes DEF HostReject, HandlerReturns, TypeOK
  <2>. QED
    BY <1>4, <2>3, <2>4, <2>5, <2>6, <2>7, <2>8, <2>9, <2>10 DEF HostHandles
<1>5. ASSUME NEW s \in Sessions, RenterReceives(s) PROVE TypeOK'
  <2>. USE DEF Respond, Pcs
  <2>1. /\ resp[s] \in Responses /\ pend[s] \in Proposals
        /\ rrev[s] \in Revision
    BY DEF TypeOK
  <2>2. /\ resp[s].rev \in Revision /\ resp[s].hsig \in Revision
        /\ resp[s].new \in Seq(Sectors)
    BY <2>1 DEF Responses
  <2>3. pend[s].rev \in Revision /\ pend[s].edit \in Edit
    BY <2>1 DEF Proposals
  <2>4. \A t \in {"stop", "refuse"} : Message(t, NoRevision, NoEdit) \in Requests
    BY EmptyTypes DEF Message, Requests
  <2>5. ASSUME Adopt(s), req' \in [Sessions -> Requests] PROVE TypeOK'
    <3>1. /\ rrev' = [rrev EXCEPT ![s] = pend[s].rev]
          /\ rhsig' = [rhsig EXCEPT ![s] = resp[s].hsig]
          /\ pc' = [pc EXCEPT ![s] = "idle"]
          /\ pend' = [pend EXCEPT ![s] = NoProposal]
          /\ resp' = [resp EXCEPT ![s] = NoResponse]
          /\ UNCHANGED <<contractVars, handlerVars, rst, rlocked>>
      BY <2>5 DEF Adopt
    <3>2. /\ rrev' \in [Sessions -> Revision] /\ rhsig' \in [Sessions -> Revision]
          /\ pc' \in [Sessions -> Pcs]
      BY <2>2, <2>3, <3>1 DEF TypeOK
    <3>3. /\ pend' \in [Sessions -> Proposals]
          /\ resp' \in [Sessions -> Responses]
      BY <3>1, EmptyTypes DEF TypeOK
    <3>. QED BY <2>5, <3>1, <3>2, <3>3 DEF TypeOK
  <2>6. CASE RecvLock(s)
    BY <2>2, <2>6, EmptyTypes DEF RecvLock, TypeOK
  <2>7. CASE RecvSectorRoots(s)
    BY <2>5, <2>7 DEF RecvSectorRoots, TypeOK
  <2>8. CASE RecvData(s)
    BY <2>4, <2>5, <2>8, SendType DEF RecvData
  <2>9. CASE RecvProof(s)
    <3>. DEFINE e   == pend[s].edit
                n   == EditSize(rrev[s].size, e)
                rev == [pend[s].rev EXCEPT !.size = n, !.root = resp[s].new]
    <3>1. n \in Nat
      BY <2>1, <2>3, EditSizeType DEF Revision
    <3>. HIDE DEF n
    <3>2. rev \in Revision
      BY <2>2, <2>3, <3>1, ResizeType
    <3>. HIDE DEF rev
    <3>3. Message("sign", rev, NoEdit) \in Requests
      BY <3>2, EmptyTypes DEF Message, Requests
    <3>4. [pend EXCEPT ![s].rev = rev] \in [Sessions -> Proposals]
      BY <3>2 DEF TypeOK, Proposals
    <3>5. \/ /\ Send(s, Message("refuse", NoRevision, NoEdit))
             /\ pc' = [pc EXCEPT ![s] = "idle"]
             /\ pend' = [pend EXCEPT ![s] = NoProposal]
          \/ /\ Send(s, Message("sign", rev, NoEdit))
             /\ pc' = [pc EXCEPT ![s] = "sign"]
             /\ pend' = [pend EXCEPT ![s].rev = rev]
      BY <2>9 DEF RecvProof, n, rev
    <3>6. /\ resp' = [resp EXCEPT ![s] = NoResponse]
          /\ UNCHANGED <<contractVars, handlerVars, rst, rlocked, rrev, rhsig>>
      BY <2>9 DEF RecvProof
    <3>7. req' \in [Sessions -> Requests]
      BY <2>4, <3>3, <3>5, SendType
    <3>8. pc' \in [Sessions -> Pcs]
      BY <3>5 DEF TypeOK
    <3>9. pend' \in [Sessions -> Proposals]
      <4>1. [pend EXCEPT ![s] = NoProposal] \in [Sessions -> Proposals]
        BY EmptyTypes DEF TypeOK
      <4>. QED BY <3>4, <3>5, <4>1
    <3>. QED BY <3>6, <3>7, <3>8, <3>9, EmptyTypes DEF TypeOK
  <2>10. CASE RecvSig(s)
    BY <2>5, <2>10 DEF RecvSig, TypeOK
  <2>11. CASE RecvError(s)
    <3>1. req' \in [Sessions -> Requests]
      BY <2>4, <2>11, SendType DEF RecvError, TypeOK
    <3>. QED BY <2>11, <3>1, EmptyTypes DEF RecvError, TypeOK
  <2>. QED
    BY <1>5, <2>6, <2>7, <2>8, <2>9, <2>10, <2>11 DEF RenterReceives
<1>. QED BY <1>1, <1>2, <1>3, <1>4, <1>5 DEF Next

(* Every variable of the protocol keeps its type: renter, host and messages *)
(* only ever hold well-formed revisions, edits and proposals.               *)
THEOREM TypeCorrect == Spec => []TypeOK
<1>1. Init => TypeOK
  <2>. SUFFICES ASSUME Init PROVE TypeOK
    OBVIOUS
  <2>1. PICK v \in 0 .. HostPayout : hrev = InitialRevision(v)
    BY DEF Init
  <2>. QED BY <2>1, InitialType, EmptyTypes DEF Init, TypeOK, Pcs
<1>2. TypeOK /\ [Next]_vars => TypeOK'
  BY TypeStep
<1>. QED BY <1>1, <1>2, PTL DEF Spec

-----------------------------------------------------------------------------
(* The safety of the protocol, with a host that locks a contract for one   *)
(* connection at a time.                                                   *)

(* The inductive invariant.                                                *)

(* At most one handler has the contract, and only a handler that runs;     *)
(* a handler waits in the middle of an RPC only with the contract locked;  *)
(* nothing is sent to a handler that has returned.                         *)
LockInv ==
  /\ \A s, t \in Sessions : hlocked[s] /\ hlocked[t] => s = t
  /\ \A s \in Sessions : hst[s] = "done" => ~hlocked[s]
  /\ \A s \in Sessions : hst[s] \in {"stop", "sig"} => hlocked[s]
  /\ \A s \in Sessions : hst[s] = "done" => req[s] = NoMessage

HostInv ==
  /\ SignaturesCoverRevision
  /\ hrev.root = hroots
  /\ hrev.size = Len(hroots)
  /\ \A i \in 1 .. Len(hroots) : hroots[i] \in hdata
  /\ Conserved(hrev)
  /\ RenewalReserveKept

(* p is what a renter that knows the host's revision proposes. *)
PayProposal(p) ==
  \E price \in Prices :
    /\ IsRevisable(hrev)
    /\ SufficientFunds(hrev, price)
    /\ p = Revise(hrev, price, 0)

StoreProposal(p, e) ==
  \E price \in Prices, c \in Collaterals :
    /\ IsRevisable(hrev)
    /\ SufficientFunds(hrev, price)
    /\ p = Revise(hrev, price, CollateralOf(hrev, e, c))

StoreRevision(p, e, new) ==
  \E price \in Prices, c \in Collaterals :
    /\ IsRevisable(hrev)
    /\ SufficientFunds(hrev, price)
    /\ p = [Revise(hrev, price, CollateralOf(hrev, e, c)) EXCEPT
              !.size = Len(new), !.root = new]

(* What a message to the handler that has the contract says: it was built  *)
(* from the host's current revision.                                       *)
RequestInv(s) ==
  hlocked[s] =>
    /\ req[s].type \in {"roots", "read"} => PayProposal(req[s].rev)
    /\ req[s].type = "write" =>
         /\ req[s].arg \in Edit
         /\ StoreProposal(req[s].rev, req[s].arg)
    /\ hst[s] = "sig" =>
         /\ EditIsLegal(hroots, hpend[s].edit)
         /\ hpend[s].roots = EditRoots(hroots, hpend[s].edit)
         /\ StoreRevision(hpend[s].rev, hpend[s].edit, hpend[s].roots)
    /\ req[s].type = "sign" => hst[s] = "sig" /\ req[s].rev = hpend[s].rev

(* What the renter of a connection knows. *)
RenterInv(s) ==
  /\ rst[s] # "skewed"
  /\ rst[s] = "closed" => pc[s] = "idle" /\ ~rlocked[s]
  /\ pc[s] = "idle" =>
       /\ rst[s] = "open" =>
            /\ resp[s] = NoResponse
            /\ req[s].type \in {"none", "unlock", "stop", "refuse"}
       /\ rlocked[s] /\ hlocked[s] => rrev[s] = hrev
  /\ pc[s] # "idle" => req[s].type \in {"none", pc[s]}
  /\ rst[s] = "open" /\ req[s].type # "none" => resp[s] = NoResponse
  /\ pc[s] \notin {"idle", "lock"} => rlocked[s] /\ Conserved(pend[s].rev)
  /\ rlocked[s] => rhsig[s] = rrev[s] /\ Conserved(rrev[s])
  /\ rst[s] = "open" /\ resp[s].type \in {"roots", "data", "sig"} =>
       resp[s].hsig = pend[s].rev
  /\ req[s].type = "stop" => hst[s] = "stop"
  /\ req[s].type \in {"sign", "refuse"} => hst[s] = "sig"
  /\ rst[s] = "open" /\ resp[s].type \in {"error", "busy"} => ~hlocked[s]
  /\ rst[s] = "open" /\ resp[s].type = "error" => hst[s] = "done"
  /\ rst[s] = "open" /\ resp[s].type = "busy" => pc[s] = "lock"
  /\ rst[s] = "open" /\ resp[s].type = "data" => hst[s] \in {"stop", "done"}
  /\ rst[s] = "open" /\ resp[s].type = "proof" => hst[s] \in {"sig", "done"}
  /\ rst[s] = "open" /\ resp[s].type = "lock" =>
       /\ pc[s] = "lock"
       /\ Conserved(resp[s].rev)
       /\ resp[s].rsig = resp[s].rev
       /\ resp[s].hsig = resp[s].rev
       /\ hlocked[s] => resp[s].rev = hrev
  /\ rst[s] = "open" /\ resp[s].type \in {"roots", "data", "sig"}
       /\ hlocked[s] => pend[s].rev = hrev
  /\ hlocked[s] /\ pc[s] \in {"roots", "read", "write", "sign"}
       /\ (req[s].type # "none" \/ resp[s].type = "proof") => rrev[s] = hrev
  /\ req[s].type = "write" /\ pc[s] = "write" =>
       pend[s] = [rev |-> req[s].rev, edit |-> req[s].arg]
  /\ req[s].type \in {"roots", "read", "sign"} /\ pc[s] # "idle" =>
       pend[s].rev = req[s].rev
  /\ resp[s].type = "proof" /\ hlocked[s] /\ pc[s] # "idle" =>
       /\ hst[s] = "sig"
       /\ pc[s] = "write"
       /\ resp[s].old = hroots
       /\ resp[s].new = hpend[s].roots
       /\ hpend[s].edit = pend[s].edit
       /\ hpend[s].rev = [pend[s].rev EXCEPT !.size = Len(hpend[s].roots),
                                             !.root = hpend[s].roots]

SessionInv(s) == RequestInv(s) /\ RenterInv(s)

IInv ==
  /\ TypeOK
  /\ LockInv
  /\ HostInv
  /\ \A s \in Sessions : SessionInv(s)

-----------------------------------------------------------------------------
(* Facts about messages. *)

(* The fields of a message are what it was made of. *)
LEMMA MessageFields ==
  /\ \A t, rev, arg : /\ Message(t, rev, arg).type = t
                      /\ Message(t, rev, arg).rev = rev
                      /\ Message(t, rev, arg).arg = arg
  /\ NoMessage.type = "none"
BY DEF Message, NoMessage

(* The fields of a response are what it was made of. *)
LEMMA ResponseFields ==
  /\ \A t, rev, a, b, old, new :
       /\ Response(t, rev, a, b, old, new).type = t
       /\ Response(t, rev, a, b, old, new).rev = rev
       /\ Response(t, rev, a, b, old, new).rsig = a
       /\ Response(t, rev, a, b, old, new).hsig = b
       /\ Response(t, rev, a, b, old, new).old = old
       /\ Response(t, rev, a, b, old, new).new = new
  /\ \A t : Reply(t).type = t
  /\ NoResponse.type = "none"
BY DEF Response, Reply, NoResponse

-----------------------------------------------------------------------------
(* A step of one session seen from another. *)

SameAt(t) ==
  /\ hst'[t] = hst[t] /\ hlocked'[t] = hlocked[t] /\ hpend'[t] = hpend[t]
  /\ rst'[t] = rst[t] /\ pc'[t] = pc[t] /\ rlocked'[t] = rlocked[t]
  /\ rrev'[t] = rrev[t] /\ rhsig'[t] = rhsig[t] /\ pend'[t] = pend[t]
  /\ req'[t] = req[t] /\ resp'[t] = resp[t]

(* What holds of the messages to a handler that has the contract is not    *)
(* disturbed by a step that leaves them and the contract alone.            *)
LEMMA RequestUnchanged ==
  ASSUME NEW t \in Sessions, RequestInv(t), hlocked'[t] => hlocked[t],
         hlocked[t] => hrev' = hrev /\ hroots' = hroots,
         req'[t] = req[t], hst'[t] = hst[t], hpend'[t] = hpend[t]
  PROVE  RequestInv(t)'
<1>1. CASE ~hlocked[t]
  BY <1>1 DEF RequestInv
<1>2. CASE hlocked[t]
  <2>1. hrev' = hrev /\ hroots' = hroots
    BY <1>2
  <2>2. PayProposal(req[t].rev) => PayProposal(req[t].rev)'
    BY <2>1 DEF PayProposal
  <2>3. StoreProposal(req[t].rev, req[t].arg)
          => StoreProposal(req[t].rev, req[t].arg)'
    BY <2>1 DEF StoreProposal
  <2>4. StoreRevision(hpend[t].rev, hpend[t].edit, hpend[t].roots)
          => StoreRevision(hpend[t].rev, hpend[t].edit, hpend[t].roots)'
    BY <2>1, ZenonT(60) DEF StoreRevision
  <2>. QED BY <1>2, <2>1, <2>2, <2>3, <2>4, ZenonT(30) DEF RequestInv
<1>. QED BY <1>1, <1>2

(* What holds of a session is not disturbed by a step that touches neither *)
(* its state nor, if its handler has the contract, the contract.           *)
LEMMA OtherSession ==
  ASSUME NEW t \in Sessions, SessionInv(t), SameAt(t),
         hlocked[t] => hrev' = hrev /\ hroots' = hroots
  PROVE  SessionInv(t)'
<1>1. RequestInv(t)'
  BY RequestUnchanged DEF SessionInv, SameAt
<1>2. RenterInv(t)'
  BY DEF SessionInv, RenterInv, SameAt
<1>. QED BY <1>1, <1>2 DEF SessionInv

(* A step of a session changes no other one, and the contract only if its  *)
(* own handler has it.                                                     *)
LEMMA OneSession ==
  ASSUME IInv, NEW s \in Sessions, NEW t \in Sessions, t # s,
         RenterSends(s) \/ HostHandles(s) \/ RenterReceives(s) \/ Connection(s)
  PROVE  SameAt(t) /\ (hlocked[t] => hrev' = hrev /\ hroots' = hroots)
<1>. USE DEF contractVars, handlerVars, renterVars, SameAt, TypeOK
<1>0. TypeOK /\ LockInv
  BY DEF IInv
<1>1. CASE Connection(s)
  BY <1>0, <1>1
     DEF Connection, Dial, Close, RenterFail, HostDrop, Discard, HandlerReturns
<1>2. CASE RenterSends(s)
  BY <1>0, <1>2
     DEF RenterSends, SendLock, SendUnlock, SendSectorRoots, SendRead,
         SendWrite, Propose, Send
<1>3. CASE RenterReceives(s)
  BY <1>0, <1>3
     DEF RenterReceives, RecvLock, RecvSectorRoots, RecvData, RecvProof,
         RecvSig, RecvError, Adopt, Send, Respond
<1>4. CASE HostHandles(s)
  BY <1>0, <1>4
     DEF HostHandles, HostLock, HostUnlock, HostSectorRoots, HostRead, HostStop,
         HostWrite, HostWriteSign, HostReject, HandlerReturns, Commit, Consumed,
         Respond, LockInv
<1>. QED BY <1>1, <1>2, <1>3, <1>4

-----------------------------------------------------------------------------
(* Each step preserves the invariant of the host and of its own session. *)

StepInv(s) == LockInv /\ HostInv /\ SessionInv(s)

(* A step that leaves the contract alone keeps what holds of the contract. *)
LEMMA HostInvUnchanged ==
  ASSUME HostInv, UNCHANGED contractVars
  PROVE  HostInv'
BY DEF HostInv, contractVars, SignaturesCoverRevision, Conserved,
       RenewalReserveKept

(* Connecting, closing and failing disturb nothing. *)
LEMMA ConnectionStep ==
  ASSUME IInv, NEW s \in Sessions, Connection(s)
  PROVE  StepInv(s)'
<1>. USE DEF contractVars, handlerVars, renterVars, TypeOK
<1>0. TypeOK /\ LockInv /\ HostInv /\ RequestInv(s) /\ RenterInv(s)
  BY DEF IInv, SessionInv
<1>1. HostInv'
  BY <1>0, HostInvUnchanged DEF Connection, Dial, Close, RenterFail, HostDrop
<1>2. CASE Dial(s)
  <2>1. LockInv'
    BY <1>0, <1>2 DEF Dial, LockInv
  <2>2. ~hlocked'[s]
    BY <1>0, <1>2 DEF Dial, LockInv
  <2>3. RequestInv(s)'
    BY <2>2 DEF RequestInv
  <2>4. RenterInv(s)'
    BY <1>0, <1>2, <2>2, MessageFields, ResponseFields DEF Dial, LockInv, RenterInv
  <2>. QED BY <1>1, <2>1, <2>3, <2>4 DEF StepInv, SessionInv
<1>3. CASE Discard(s) /\ UNCHANGED <<contractVars, handlerVars, req>>
  <2>1. LockInv'
    BY <1>0, <1>3 DEF LockInv
  <2>2. RequestInv(s)'
    BY <1>0, <1>3, RequestUnchanged
  <2>3. RenterInv(s)'
    BY <1>0, <1>3, ResponseFields DEF Discard, RenterInv
  <2>. QED BY <1>1, <2>1, <2>2, <2>3 DEF StepInv, SessionInv
<1>4. CASE HostDrop(s)
  <2>1. LockInv'
    BY <1>0, <1>4 DEF HostDrop, HandlerReturns, LockInv
  <2>2. ~hlocked'[s]
    BY <1>0, <1>4 DEF HostDrop, HandlerReturns
  <2>3. RequestInv(s)'
    BY <2>2 DEF RequestInv
  <2>4. RenterInv(s)'
    BY <1>0, <1>4, <2>2, MessageFields DEF HostDrop, HandlerReturns, RenterInv
  <2>. QED BY <1>1, <2>1, <2>3, <2>4 DEF StepInv, SessionInv
<1>. QED BY <1>2, <1>3, <1>4 DEF Connection, Close, RenterFail

(* A renter that starts an RPC proposes from the revision it knows: the     *)
(* host's, if the host's handler has the contract.                          *)
LEMMA SendStep ==
  ASSUME IInv, NEW s \in Sessions, RenterSends(s)
  PROVE  StepInv(s)'
<1>. USE DEF contractVars, handlerVars, renterVars
<1>0. TypeOK /\ LockInv /\ HostInv /\ RequestInv(s) /\ RenterInv(s)
  BY DEF IInv, SessionInv
<1>1. HostInv'
  BY <1>0, HostInvUnchanged
     DEF RenterSends, SendLock, SendUnlock, SendSectorRoots, SendRead,
         SendWrite, Propose
<1>2. hlocked[s] => hst[s] \in {"loop", "stop", "sig"}
  BY <1>0 DEF LockInv, TypeOK
<1>3. CanSend(s) => /\ rst[s] = "open" /\ pc[s] = "idle"
                    /\ req[s] = NoMessage /\ resp[s] = NoResponse
  BY DEF CanSend
<1>4. ASSUME NEW t \in {"lock", "roots", "read", "write"}, NEW rev, NEW e,
             NEW arg, Propose(s, t, rev, e, arg), CanSend(s),
             t # "lock" => rlocked[s] /\ Conserved(rev),
             t \in {"roots", "read"} /\ hlocked[s] => PayProposal(rev),
             t = "write" => e = arg /\ arg \in Edit,
             t = "write" /\ hlocked[s] => StoreProposal(rev, arg)
      PROVE  StepInv(s)'
  <2>1. /\ pc'[s] = t
        /\ pend'[s] = [rev |-> rev, edit |-> e]
        /\ req'[s] \in {NoMessage, Message(t, rev, arg)}
        /\ hst[s] = "done" => req'[s] = NoMessage
        /\ \A u \in Sessions : u # s => req'[u] = req[u]
        /\ UNCHANGED <<contractVars, handlerVars, rst, rlocked, rrev, rhsig,
                       resp>>
    BY <1>0, <1>4 DEF Propose, Send, TypeOK
  <2>2. LockInv'
    BY <1>0, <2>1 DEF LockInv
  <2>3. RequestInv(s)'
    <3>1. CASE ~hlocked[s]
      BY <2>1, <3>1 DEF RequestInv
    <3>2. CASE hlocked[s]
      <4>1. hrev' = hrev /\ hroots' = hroots /\ hpend'[s] = hpend[s]
              /\ hst'[s] = hst[s]
        BY <2>1
      <4>2. StoreRevision(hpend[s].rev, hpend[s].edit, hpend[s].roots)
              => StoreRevision(hpend[s].rev, hpend[s].edit, hpend[s].roots)'
        BY <4>1 DEF StoreRevision
      <4>3. PayProposal(rev) => PayProposal(rev)'
        BY <4>1 DEF PayProposal
      <4>4. StoreProposal(rev, arg) => StoreProposal(rev, arg)'
        BY <4>1 DEF StoreProposal
      <4>5. CASE req'[s] = NoMessage
        BY <1>0, <3>2, <4>1, <4>2, <4>5, MessageFields DEF RequestInv
      <4>6. CASE req'[s] = Message(t, rev, arg)
        <5>1. PayProposal(req[s].rev)' <=> PayProposal(rev)'
          BY <4>6, MessageFields DEF PayProposal
        <5>2. StoreProposal(req[s].rev, req[s].arg)' <=> StoreProposal(rev, arg)'
          BY <4>6, MessageFields DEF StoreProposal
        <5>3. req'[s].type = t /\ req'[s].arg = arg
          BY <4>6, MessageFields
        <5>. QED
          BY <1>0, <1>4, <3>2, <4>1, <4>2, <4>3, <4>4, <5>1, <5>2, <5>3
             DEF RequestInv
      <4>. QED BY <2>1, <4>5, <4>6
    <3>. QED BY <3>1, <3>2
  <2>4. RenterInv(s)'
    BY <1>0, <1>3, <1>4, <2>1, MessageFields, ResponseFields DEF RenterInv
  <2>. QED BY <1>1, <2>2, <2>3, <2>4 DEF StepInv, SessionInv
<1>5. ASSUME NEW price \in Prices, NEW coll \in Nat, coll <= rrev[s].mh,
             CanPay(s, price)
      PROVE  Conserved(Revise(rrev[s], price, coll))
  <2>1. rrev[s] \in Revision /\ price \in Nat
    BY <1>0, RevisionAssumption DEF TypeOK
  <2>2. Conserved(rrev[s]) /\ SufficientFunds(rrev[s], price)
    BY <1>0, <1>5 DEF CanPay, RenterInv
  <2>. QED BY <1>5, <2>1, <2>2, ReviseConserves
<1>6. ASSUME NEW price \in Prices, CanPay(s, price), CanSend(s), hlocked[s]
      PROVE  /\ PayProposal(Revise(rrev[s], price, 0))
             /\ \A e \in Edit, c \in Collaterals :
                  StoreProposal(Revise(rrev[s], price,
                                       CollateralOf(rrev[s], e, c)), e)
  <2>1. rrev[s] = hrev
    BY <1>0, <1>3, <1>6 DEF RenterInv, CanPay
  <2>. QED BY <1>6, <2>1 DEF CanPay, PayProposal, StoreProposal
<1>7. rrev[s] \in Revision /\ rrev[s].mh \in Nat
  BY <1>0 DEF TypeOK, Revision
<1>8. CASE SendLock(s)
  BY <1>4, <1>8 DEF SendLock, Propose
<1>9. CASE SendUnlock(s)
  <2>1. /\ ~rlocked'[s]
        /\ req'[s] \in {NoMessage, Message("unlock", NoRevision, NoEdit)}
        /\ hst[s] = "done" => req'[s] = NoMessage
        /\ \A u \in Sessions : u # s => req'[u] = req[u]
        /\ UNCHANGED <<contractVars, handlerVars, rst, pc, pend, resp>>
        /\ CanSend(s)
    BY <1>0, <1>9 DEF SendUnlock, Send, TypeOK
  <2>2. LockInv'
    BY <1>0, <2>1 DEF LockInv
  <2>3. req'[s].type \in {"none", "unlock"}
    BY <2>1, MessageFields
  <2>4. RequestInv(s)'
    <3>1. StoreRevision(hpend[s].rev, hpend[s].edit, hpend[s].roots)
            => StoreRevision(hpend[s].rev, hpend[s].edit, hpend[s].roots)'
      BY <2>1 DEF StoreRevision
    <3>. QED BY <1>0, <2>1, <2>3, <3>1 DEF RequestInv
  <2>5. RenterInv(s)'
    BY <1>0, <1>3, <2>1, <2>3, ResponseFields DEF RenterInv
  <2>. QED BY <1>1, <2>2, <2>4, <2>5 DEF StepInv, SessionInv
<1>10. ASSUME NEW price \in Prices, SendSectorRoots(s, price)
       PROVE  StepInv(s)'
  <2>1. CanPay(s, price) /\ CanSend(s)
    BY <1>10 DEF SendSectorRoots, Propose
  <2>2. Conserved(Revise(rrev[s], price, 0))
    BY <1>5, <1>7, <2>1
  <2>. QED BY <1>4, <1>6, <1>10, <2>1, <2>2 DEF SendSectorRoots, CanPay
<1>11. ASSUME NEW price \in Prices, NEW x \in Sectors, SendRead(s, x, price)
       PROVE  StepInv(s)'
  <2>1. CanPay(s, price) /\ CanSend(s)
    BY <1>11 DEF SendRead, Propose
  <2>2. Conserved(Revise(rrev[s], price, 0))
    BY <1>5, <1>7, <2>1
  <2>. QED BY <1>4, <1>6, <1>11, <2>1, <2>2 DEF SendRead, CanPay
<1>12. ASSUME NEW price \in Prices, NEW e \in Edit, NEW c \in Collaterals,
              SendWrite(s, e, price, c)
       PROVE  StepInv(s)'
  <2>1. /\ CollateralOf(rrev[s], e, c) \in Nat
        /\ CollateralOf(rrev[s], e, c) <= rrev[s].mh
    BY <1>7, RevisionAssumption, CollateralType
  <2>2. CanPay(s, price) /\ CanSend(s)
    BY <1>12 DEF SendWrite, Propose
  <2>3. Conserved(Revise(rrev[s], price, CollateralOf(rrev[s], e, c)))
    BY <1>5, <2>1, <2>2
  <2>. QED BY <1>4, <1>6, <1>12, <2>2, <2>3 DEF SendWrite, CanPay
<1>. QED
  BY <1>8, <1>9, <1>10, <1>11, <1>12 DEF RenterSends

(* A host that commits a paid proposal made from its own revision commits  *)
(* exactly what the renter signed.                                         *)
LEMMA PayCommit ==
  ASSUME TypeOK, HostInv, NEW p, PayProposal(p),
         Commit(AdoptValues(hrev, p), p), UNCHANGED <<hroots, hdata>>
  PROVE  AdoptValues(hrev, p) = p /\ hrev' = p /\ HostInv' /\ Conserved(p)
<1>1. PICK price \in Prices : /\ SufficientFunds(hrev, price)
                              /\ p = Revise(hrev, price, 0)
  BY DEF PayProposal
<1>2. hrev \in Revision /\ price \in Nat /\ hrev.mh \in Nat
  BY RevisionAssumption DEF TypeOK, Revision
<1>3. AdoptValues(hrev, p) = p
  BY <1>1, <1>2, AdoptsProposal
<1>4. Conserved(p) /\ p.vr >= 5 * BaseRPCPrice
  BY <1>1, <1>2, ReviseConserves DEF HostInv
<1>5. p.root = hrev.root /\ p.size = hrev.size
  <2>1. \A coll \in Nat : /\ Revise(hrev, price, coll).root = hrev.root
                          /\ Revise(hrev, price, coll).size = hrev.size
    BY <1>2, ReviseType
  <2>. QED BY <1>1, <2>1
<1>6. hrev' = p /\ rsig' = p /\ hsig' = p
  BY <1>3 DEF Commit
<1>7. Conserved(hrev)'
  BY <1>4, <1>6 DEF Conserved
<1>. QED
  BY <1>3, <1>4, <1>5, <1>6, <1>7
     DEF HostInv, SignaturesCoverRevision, RenewalReserveKept

(* The handler of a session that has the contract hands it out at its most *)
(* recent revision, or refuses.                                            *)
LEMMA HostLockStep ==
  ASSUME IInv, ExclusiveLock, NEW s \in Sessions, HostLock(s)
  PROVE  StepInv(s)'
<1>. USE DEF contractVars, handlerVars, renterVars
<1>0. TypeOK /\ LockInv /\ HostInv /\ RequestInv(s) /\ RenterInv(s)
  BY DEF IInv, SessionInv
<1>1. HostInv'
  BY <1>0, HostInvUnchanged DEF HostLock
<1>2. /\ req[s].type = "lock" /\ hst[s] = "loop" /\ ~hlocked[s]
      /\ req'[s] = NoMessage
      /\ \A u \in Sessions : u # s => /\ req'[u] = req[u]
                                      /\ hlocked'[u] = hlocked[u]
      /\ UNCHANGED <<contractVars, hst, hpend, renterVars>>
      /\ \/ /\ \A u \in Sessions : ~hlocked[u]
            /\ hlocked'[s] = TRUE
            /\ resp'[s] = Response("lock", hrev, rsig, hsig, << >>, << >>)
         \/ /\ hlocked'[s] = FALSE
            /\ resp'[s] = Reply("busy")
  BY <1>0
     DEF HostLock, Handles, Consumed, Respond, LockAvailable, TypeOK
<1>3. LockInv'
  BY <1>0, <1>2 DEF LockInv
<1>4. RequestInv(s)'
  BY <1>0, <1>2, MessageFields DEF RequestInv
<1>5. rst[s] = "open" => pc[s] = "lock"
  BY <1>0, <1>2 DEF RenterInv
<1>6. RenterInv(s)'
  BY <1>0, <1>2, <1>5, MessageFields, ResponseFields
     DEF RenterInv, HostInv, SignaturesCoverRevision, TypeOK
<1>. QED BY <1>1, <1>3, <1>4, <1>6 DEF StepInv, SessionInv

(* Releasing the contract and ending a Read leave the contract alone. *)
LEMMA HostReleaseStep ==
  ASSUME IInv, NEW s \in Sessions, HostUnlock(s) \/ HostStop(s) \/ HostReject(s)
  PROVE  StepInv(s)'
<1>. USE DEF contractVars, handlerVars, renterVars
<1>0. TypeOK /\ LockInv /\ HostInv /\ RequestInv(s) /\ RenterInv(s)
  BY DEF IInv, SessionInv
<1>1. HostInv'
  BY <1>0, HostInvUnchanged DEF HostUnlock, HostStop, HostReject
<1>2. CASE HostUnlock(s)
  <2>1. /\ ~hlocked'[s] /\ req'[s] = NoMessage /\ hst[s] = "loop"
        /\ \A u \in Sessions : u # s => /\ req'[u] = req[u]
                                        /\ hlocked'[u] = hlocked[u]
        /\ UNCHANGED <<contractVars, hst, hpend, renterVars, resp>>
    BY <1>0, <1>2 DEF HostUnlock, Handles, Consumed, TypeOK
  <2>2. LockInv'
    BY <1>0, <2>1 DEF LockInv
  <2>3. RequestInv(s)'
    BY <2>1 DEF RequestInv
  <2>4. RenterInv(s)'
    BY <1>0, <2>1, MessageFields DEF RenterInv
  <2>. QED BY <1>1, <2>2, <2>3, <2>4 DEF StepInv, SessionInv
<1>3. CASE HostStop(s)
  <2>1. /\ hst[s] = "stop" /\ hst'[s] = "loop" /\ req'[s] = NoMessage
        /\ req[s].type = "stop"
        /\ \A u \in Sessions : u # s => req'[u] = req[u] /\ hst'[u] = hst[u]
        /\ UNCHANGED <<contractVars, hlocked, hpend, renterVars, resp>>
    BY <1>0, <1>3 DEF HostStop, Consumed, TypeOK
  <2>2. LockInv'
    BY <1>0, <2>1 DEF LockInv
  <2>3. RequestInv(s)'
    BY <2>1, MessageFields DEF RequestInv
  <2>4. RenterInv(s)'
    BY <1>0, <2>1, MessageFields, ResponseFields DEF RenterInv
  <2>. QED BY <1>1, <2>2, <2>3, <2>4 DEF StepInv, SessionInv
<1>4. CASE HostReject(s)
  <2>1. /\ ~hlocked'[s] /\ req'[s] = NoMessage /\ hst'[s] = "done"
        /\ \/ hst[s] = "loop" /\ resp'[s] = Reply("error")
           \/ resp'[s] = resp[s]
        /\ \A u \in Sessions : u # s => /\ req'[u] = req[u]
                                        /\ hst'[u] = hst[u]
                                        /\ hlocked'[u] = hlocked[u]
        /\ UNCHANGED <<contractVars, renterVars>>
    BY <1>0, <1>4 DEF HostReject, HandlerReturns, Respond, TypeOK
  <2>2. req[s].type # "none" /\ (hst[s] = "loop" => req[s].type # "unlock")
    BY <1>4 DEF HostReject, Acceptable
  <2>3. LockInv'
    BY <1>0, <2>1 DEF LockInv
  <2>4. RequestInv(s)'
    BY <2>1 DEF RequestInv
  <2>5. RenterInv(s)'
    BY <1>0, <2>1, <2>2, MessageFields, ResponseFields DEF RenterInv
  <2>. QED BY <1>1, <2>3, <2>4, <2>5 DEF StepInv, SessionInv
<1>. QED BY <1>2, <1>3, <1>4

(* A paid RPC that stores nothing. *)
LEMMA HostPayStep ==
  ASSUME IInv, NEW s \in Sessions, HostSectorRoots(s) \/ HostRead(s)
  PROVE  StepInv(s)'
<1>. USE DEF contractVars, handlerVars, renterVars
<1>0. TypeOK /\ LockInv /\ HostInv /\ RequestInv(s) /\ RenterInv(s)
  BY DEF IInv, SessionInv
<1>. DEFINE p   == req[s].rev
            rev == AdoptValues(hrev, p)
<1>1. /\ req[s].type \in {"roots", "read"} /\ hst[s] = "loop" /\ hlocked[s]
      /\ Commit(rev, p)
      /\ UNCHANGED <<hroots, hdata, renterVars>>
  BY DEF HostSectorRoots, HostRead, Handles
<1>2. PayProposal(p)
  BY <1>0, <1>1 DEF RequestInv
<1>3. rev = p /\ hrev' = p /\ HostInv' /\ Conserved(p)
  BY <1>0, <1>1, <1>2, PayCommit
<1>. HIDE DEF rev
<1>4. /\ req'[s] = NoMessage
      /\ \A u \in Sessions : u # s => /\ req'[u] = req[u]
                                      /\ hst'[u] = hst[u]
                                      /\ hlocked'[u] = hlocked[u]
      /\ \/ /\ hst'[s] \in {"loop", "stop"} /\ hlocked'[s] = TRUE
            /\ resp'[s].type \in {"roots", "data"} /\ resp'[s].hsig = rev
            /\ resp'[s].type = "data" => hst'[s] = "stop"
         \/ /\ hst'[s] = "done" /\ hlocked'[s] = FALSE
            /\ resp'[s].type = "error"
  <2>1. CASE HostSectorRoots(s)
    BY <1>0, <1>1, <2>1, ResponseFields
       DEF HostSectorRoots, Consumed, Respond, TypeOK, rev
  <2>2. CASE HostRead(s)
    BY <1>0, <1>1, <2>2, ResponseFields
       DEF HostRead, HandlerReturns, Consumed, Respond, TypeOK, rev
  <2>. QED BY <2>1, <2>2
<1>5. LockInv'
  BY <1>0, <1>1, <1>4 DEF LockInv
<1>6. RequestInv(s)'
  BY <1>4, MessageFields DEF RequestInv
<1>7. rst[s] = "open" => pc[s] \in {"roots", "read"} /\ pend[s].rev = p
  BY <1>0, <1>1 DEF RenterInv
<1>8. RenterInv(s)'
  BY <1>0, <1>1, <1>3, <1>4, <1>7, MessageFields DEF RenterInv, TypeOK
<1>. QED BY <1>3, <1>5, <1>6, <1>8 DEF StepInv, SessionInv

(* The first round of a Write: the host works out the revision that the    *)
(* renter is about to sign.                                                *)
LEMMA HostWriteStep ==
  ASSUME IInv, NEW s \in Sessions, HostWrite(s)
  PROVE  StepInv(s)'
<1>. USE DEF contractVars, handlerVars, renterVars
<1>0. TypeOK /\ LockInv /\ HostInv /\ RequestInv(s) /\ RenterInv(s)
  BY DEF IInv, SessionInv
<1>1. HostInv'
  BY <1>0, HostInvUnchanged DEF HostWrite
<1>. DEFINE p   == req[s].rev
            e   == req[s].arg
            new == EditRoots(hroots, e)
            rev == [AdoptValues(hrev, p) EXCEPT
                      !.size = EditSize(hrev.size, e), !.root = new]
<1>2. /\ req[s].type = "write" /\ hst[s] = "loop" /\ hlocked[s]
      /\ EditIsLegal(hroots, e)
  BY DEF HostWrite, Handles
<1>3. /\ hpend'[s] = [rev |-> rev, roots |-> new, edit |-> e]
      /\ resp'[s] = Response("proof", NoRevision, NoRevision, NoRevision,
                             hroots, new)
      /\ hst'[s] = "sig" /\ req'[s] = NoMessage
      /\ \A u \in Sessions : u # s => /\ req'[u] = req[u] /\ hst'[u] = hst[u]
      /\ UNCHANGED <<contractVars, hlocked, renterVars>>
  BY <1>0 DEF HostWrite, Consumed, Respond, TypeOK
<1>4. e \in Edit /\ StoreProposal(p, e)
  BY <1>0, <1>2 DEF RequestInv
<1>5. PICK price \in Prices, c \in Collaterals :
        /\ IsRevisable(hrev) /\ SufficientFunds(hrev, price)
        /\ p = Revise(hrev, price, CollateralOf(hrev, e, c))
  BY <1>4 DEF StoreProposal
<1>6. hrev \in Revision /\ price \in Nat /\ CollateralOf(hrev, e, c) \in Nat
  BY <1>0, <1>4, RevisionAssumption, CollateralType DEF TypeOK
<1>7. AdoptValues(hrev, p) = p
  BY <1>5, <1>6, AdoptsProposal
<1>8. EditSize(hrev.size, e) = Len(new)
  BY <1>0, <1>2, <1>4, EditType DEF HostInv, TypeOK
<1>9. rev = [p EXCEPT !.size = Len(new), !.root = new]
  BY <1>7, <1>8
<1>. HIDE DEF rev, new, e, p
<1>10. LockInv'
  BY <1>0, <1>2, <1>3 DEF LockInv
<1>11. RequestInv(s)'
  <2>1. /\ EditIsLegal(hroots, hpend[s].edit)'
        /\ (hpend[s].roots = EditRoots(hroots, hpend[s].edit))'
    BY <1>2, <1>3 DEF new
  <2>2. StoreRevision(rev, e, new)
    BY <1>5, <1>9 DEF StoreRevision
  <2>3. StoreRevision(hpend[s].rev, hpend[s].edit, hpend[s].roots)'
    <3>1. /\ hpend'[s].rev = rev /\ hpend'[s].edit = e
          /\ hpend'[s].roots = new /\ hrev' = hrev
      BY <1>3
    <3>. QED BY <2>2, <3>1 DEF StoreRevision
  <2>. QED BY <1>3, <2>1, <2>3, MessageFields DEF RequestInv
<1>12. rst[s] = "open" =>
         /\ pc[s] = "write" /\ rrev[s] = hrev
         /\ pend[s] = [rev |-> p, edit |-> e]
  BY <1>0, <1>2 DEF RenterInv, p, e
<1>13. rst[s] = "closed" => pc[s] = "idle"
  BY <1>0 DEF RenterInv
<1>14. RenterInv(s)'
  <2>1. rst[s] \in {"open", "closed"}
    BY <1>0 DEF RenterInv, TypeOK
  <2>2. CASE rst[s] = "closed"
    BY <1>0, <1>3, <1>13, <2>2, MessageFields DEF RenterInv
  <2>3. CASE rst[s] = "open"
    <3>1. /\ hpend'[s].rev = rev /\ hpend'[s].edit = e /\ hpend'[s].roots = new
          /\ pend'[s].rev = p /\ pend'[s].edit = e
          /\ resp'[s].type = "proof" /\ resp'[s].old = hroots
          /\ resp'[s].new = new /\ req'[s].type = "none"
          /\ hst'[s] = "sig" /\ UNCHANGED <<hrev, hroots, hlocked, renterVars>>
      BY <1>3, <1>12, <2>3, MessageFields, ResponseFields
    <3>2. (hpend[s].rev = [pend[s].rev EXCEPT !.size = Len(hpend[s].roots),
                                              !.root = hpend[s].roots])'
      BY <1>9, <3>1
    <3>. QED BY <1>0, <1>2, <1>12, <2>3, <3>1, <3>2 DEF RenterInv
  <2>. QED BY <2>1, <2>2, <2>3
<1>. QED BY <1>1, <1>10, <1>11, <1>14 DEF StepInv, SessionInv

(* The second round: revision and sectors change together. *)
LEMMA HostWriteSignStep ==
  ASSUME IInv, NEW s \in Sessions, HostWriteSign(s)
  PROVE  StepInv(s)'
<1>. USE DEF contractVars, handlerVars, renterVars
<1>0. TypeOK /\ LockInv /\ HostInv /\ RequestInv(s) /\ RenterInv(s)
  BY DEF IInv, SessionInv
<1>. DEFINE p   == hpend[s].rev
            e   == hpend[s].edit
            new == hpend[s].roots
<1>1. /\ hst[s] = "sig" /\ req[s].type = "sign"
      /\ hrev' = p /\ hsig' = p /\ rsig' = req[s].rev /\ hroots' = new
      /\ hdata' = hdata \cup Gained(e)
      /\ hst'[s] = "loop" /\ hpend'[s] = NoWrite /\ req'[s] = NoMessage
      /\ resp'[s] = Response("sig", NoRevision, NoRevision, p, << >>, << >>)
      /\ \A u \in Sessions : u # s => /\ req'[u] = req[u] /\ hst'[u] = hst[u]
      /\ UNCHANGED <<hlocked, renterVars>>
  BY <1>0 DEF HostWriteSign, Commit, Consumed, Respond, TypeOK
<1>2. hlocked[s]
  BY <1>0, <1>1 DEF LockInv
<1>3. /\ req[s].rev = p /\ EditIsLegal(hroots, e)
      /\ new = EditRoots(hroots, e) /\ StoreRevision(p, e, new)
  BY <1>0, <1>1, <1>2 DEF RequestInv
<1>4. e \in Edit /\ hrev \in Revision /\ hroots \in Seq(Sectors)
  BY <1>0 DEF TypeOK, Writes
<1>5. PICK price \in Prices, c \in Collaterals :
        /\ SufficientFunds(hrev, price)
        /\ p = [Revise(hrev, price, CollateralOf(hrev, e, c)) EXCEPT
                  !.size = Len(new), !.root = new]
  BY <1>3 DEF StoreRevision
<1>. DEFINE coll == CollateralOf(hrev, e, c)
            r    == Revise(hrev, price, coll)
<1>6. /\ price \in Nat /\ coll \in Nat /\ coll <= hrev.mh
  BY <1>4, RevisionAssumption, CollateralType
<1>7. r \in Revision /\ Conserved(r) /\ r.vr >= 5 * BaseRPCPrice
  BY <1>0, <1>4, <1>5, <1>6, ReviseType, ReviseConserves DEF HostInv
<1>8. new \in Seq(Sectors)
  BY <1>3, <1>4, EditType
<1>9. p = [r EXCEPT !.size = Len(new), !.root = new]
  BY <1>5
<1>. HIDE DEF r, new, p, e
<1>10. /\ p.size = Len(new) /\ p.root = new
       /\ p.vr = r.vr /\ p.vh = r.vh /\ p.mr = r.mr /\ p.mh = r.mh
       /\ p.mv = r.mv
  BY <1>7, <1>8, <1>9 DEF Revision
<1>11. HostInv'
  <2>1. \A i \in 1 .. Len(new) : new[i] \in hdata \cup Gained(e)
    BY <1>0, <1>3, <1>4, EditData DEF HostInv
  <2>2. Conserved(p) /\ p.vr >= 5 * BaseRPCPrice
    BY <1>7, <1>10 DEF Conserved
  <2>3. Conserved(hrev)'
    BY <1>1, <2>2 DEF Conserved
  <2>4. /\ SignaturesCoverRevision' /\ RenewalReserveKept'
    BY <1>1, <1>3, <2>2 DEF SignaturesCoverRevision, RenewalReserveKept
  <2>. QED BY <1>1, <1>10, <2>1, <2>3, <2>4 DEF HostInv
<1>12. Conserved(p)
  BY <1>7, <1>10 DEF Conserved
<1>13. LockInv'
  BY <1>0, <1>1, <1>2 DEF LockInv
<1>14. RequestInv(s)'
  BY <1>1, MessageFields DEF RequestInv
<1>15. rst[s] = "open" => pc[s] = "sign" /\ pend[s].rev = p
  BY <1>0, <1>1, <1>3 DEF RenterInv
<1>16. RenterInv(s)'
  BY <1>0, <1>1, <1>2, <1>15, MessageFields, ResponseFields
     DEF RenterInv, TypeOK
<1>. QED BY <1>11, <1>13, <1>14, <1>16 DEF StepInv, SessionInv

(* An RPC returns: what the renter knows is what its handler on the host,   *)
(* if it still has the contract, stores.                                    *)
LEMMA ReceiveStep ==
  ASSUME IInv, NEW s \in Sessions, RenterReceives(s)
  PROVE  StepInv(s)'
<1>. USE DEF contractVars, handlerVars, renterVars
<1>0. TypeOK /\ LockInv /\ HostInv /\ RequestInv(s) /\ RenterInv(s)
  BY DEF IInv, SessionInv
<1>1. HostInv'
  BY <1>0, HostInvUnchanged
     DEF RenterReceives, RecvLock, RecvSectorRoots, RecvData, RecvProof,
         RecvSig, RecvError, Adopt
<1>2. pc[s] # "idle" => rst[s] = "open"
  BY <1>0 DEF RenterInv, TypeOK
<1>3. pc[s] # "idle" /\ resp[s].type # "none" => req[s].type = "none"
  BY <1>0, <1>2, ResponseFields DEF RenterInv
<1>4. ASSUME UNCHANGED <<contractVars, handlerVars>>,
             \A u \in Sessions : u # s => req'[u] = req[u],
             hst[s] = "done" /\ req[s] = NoMessage => req'[s] = NoMessage,
             \/ req'[s] = req[s]
             \/ req'[s].type \in {"none", "stop", "refuse"}
      PROVE  LockInv' /\ RequestInv(s)'
  <2>1. LockInv'
    BY <1>0, <1>4 DEF LockInv
  <2>2. CASE req'[s] = req[s]
    BY <1>0, <1>4, <2>1, <2>2, RequestUnchanged
  <2>3. CASE req'[s].type \in {"none", "stop", "refuse"}
    <3>1. StoreRevision(hpend[s].rev, hpend[s].edit, hpend[s].roots)
            => StoreRevision(hpend[s].rev, hpend[s].edit, hpend[s].roots)'
      BY <1>4 DEF StoreRevision
    <3>. QED BY <1>0, <1>4, <2>1, <2>3, <3>1 DEF RequestInv
  <2>. QED BY <1>4, <2>2, <2>3
<1>5. \A t, rev : Send(s, Message(t, rev, NoEdit)) =>
        /\ \A u \in Sessions : u # s => req'[u] = req[u]
        /\ hst[s] = "done" => req'[s] = NoMessage
        /\ hst[s] # "done" => req'[s] = Message(t, rev, NoEdit)
  BY <1>0 DEF Send, TypeOK
<1>6. CASE RecvLock(s)
  <2>1. /\ pc[s] = "lock" /\ resp[s].type = "lock"
        /\ pc'[s] = "idle" /\ resp'[s] = NoResponse
        /\ UNCHANGED <<contractVars, handlerVars, rst, req>>
        /\ resp[s].rsig = resp[s].rev /\ resp[s].hsig = resp[s].rev =>
             /\ rlocked'[s] = TRUE
             /\ rrev'[s] = resp[s].rev /\ rhsig'[s] = resp[s].hsig
    BY <1>0, <1>6 DEF RecvLock, Respond, TypeOK
  <2>2. RenterInv(s)'
    BY <1>0, <1>2, <1>3, <2>1, ResponseFields DEF RenterInv
  <2>. QED BY <1>1, <1>4, <2>1, <2>2 DEF StepInv, SessionInv
<1>7. ASSUME Adopt(s), pc[s] \notin {"idle", "lock"},
             resp[s].type \in {"roots", "data", "sig"},
             \A u \in Sessions : u # s => req'[u] = req[u],
             hst[s] = "done" => req'[s] = NoMessage,
             req'[s] = req[s] \/ req'[s].type \in {"none", "stop"},
             req'[s].type = "stop" => hst[s] = "stop"
      PROVE  StepInv(s)'
  <2>1. /\ pc'[s] = "idle" /\ resp'[s] = NoResponse
        /\ rrev'[s] = pend[s].rev /\ rhsig'[s] = resp[s].hsig
        /\ UNCHANGED <<contractVars, handlerVars, rst, rlocked>>
    BY <1>0, <1>7 DEF Adopt, Respond, TypeOK
  <2>2. /\ resp[s].hsig = pend[s].rev /\ Conserved(pend[s].rev)
        /\ hlocked[s] => pend[s].rev = hrev
        /\ req[s].type = "none"
    BY <1>0, <1>2, <1>3, <1>7 DEF RenterInv
  <2>3. Conserved(rrev[s])'
    BY <2>1, <2>2 DEF Conserved
  <2>4. RenterInv(s)'
    BY <1>0, <1>2, <1>7, <2>1, <2>2, <2>3, ResponseFields DEF RenterInv
  <2>. QED BY <1>1, <1>4, <1>7, <2>1, <2>4 DEF StepInv, SessionInv
<1>8. CASE RecvSectorRoots(s) \/ RecvSig(s)
  <2>1. /\ Adopt(s) /\ UNCHANGED req
        /\ pc[s] \in {"roots", "sign"} /\ resp[s].type \in {"roots", "sig"}
    BY <1>8 DEF RecvSectorRoots, RecvSig
  <2>2. req'[s].type = "none"
    BY <1>3, <2>1
  <2>. QED BY <1>0, <1>7, <2>1, <2>2 DEF LockInv
<1>9. CASE RecvData(s)
  <2>1. /\ Adopt(s) /\ Send(s, Message("stop", NoRevision, NoEdit))
        /\ pc[s] = "read" /\ resp[s].type = "data"
    BY <1>9 DEF RecvData
  <2>2. hst[s] \in {"stop", "done"}
    BY <1>0, <1>2, <2>1 DEF RenterInv
  <2>. QED BY <1>5, <1>7, <2>1, <2>2, MessageFields
<1>10. CASE RecvProof(s)
  <2>. DEFINE e    == pend[s].edit
              size == EditSize(rrev[s].size, e)
              rev  == [pend[s].rev EXCEPT !.size = size, !.root = resp[s].new]
  <2>1. /\ pc[s] = "write" /\ resp[s].type = "proof"
        /\ resp'[s] = NoResponse
        /\ UNCHANGED <<contractVars, handlerVars, rst, rlocked, rrev, rhsig>>
    BY <1>0, <1>10 DEF RecvProof, Respond, TypeOK
  <2>2. \/ /\ Send(s, Message("refuse", NoRevision, NoEdit))
           /\ pc'[s] = "idle"
        \/ /\ Send(s, Message("sign", rev, NoEdit))
           /\ pc'[s] = "sign" /\ pend'[s].rev = rev
    BY <1>0, <1>10 DEF RecvProof, TypeOK, Proposals
  <2>3. hst[s] \in {"sig", "done"}
    BY <1>0, <1>2, <2>1 DEF RenterInv
  <2>4. CASE /\ Send(s, Message("refuse", NoRevision, NoEdit))
             /\ pc'[s] = "idle"
    <3>1. /\ req'[s].type \in {"none", "refuse"}
          /\ req'[s].type = "refuse" => hst[s] = "sig"
      BY <1>5, <2>3, <2>4, MessageFields
    <3>2. LockInv' /\ RequestInv(s)'
      BY <1>4, <1>5, <2>1, <2>4, <3>1
    <3>3. rlocked[s] /\ hlocked[s] => rrev[s] = hrev
      BY <1>0, <1>2, <2>1 DEF RenterInv
    <3>4. RenterInv(s)'
      BY <1>0, <1>2, <2>1, <2>4, <3>1, <3>3, ResponseFields DEF RenterInv
    <3>. QED BY <1>1, <3>2, <3>4 DEF StepInv, SessionInv
  <2>5. CASE /\ Send(s, Message("sign", rev, NoEdit))
             /\ pc'[s] = "sign" /\ pend'[s].rev = rev
    <3>1. /\ pend[s].rev \in Revision /\ e \in Edit /\ rrev[s] \in Revision
          /\ resp[s].new \in Seq(Sectors) /\ size \in Nat
      <4>1. /\ pend[s] \in Proposals /\ rrev[s] \in Revision
            /\ resp[s] \in Responses
        BY <1>0 DEF TypeOK
      <4>2. /\ pend[s].rev \in Revision /\ e \in Edit /\ rrev[s].size \in Nat
            /\ resp[s].new \in Seq(Sectors)
        BY <4>1 DEF Proposals, Revision, Responses
      <4>. QED BY <4>1, <4>2, EditSizeType
    <3>2. Conserved(rev)
      <4>1. Conserved(pend[s].rev)
        BY <1>0, <2>1 DEF RenterInv
      <4>. QED BY <3>1, <4>1 DEF Conserved, Revision
    <3>3. hlocked[s] => /\ hst[s] = "sig" /\ rev = hpend[s].rev
                        /\ rrev[s] = hrev
      <4>. SUFFICES ASSUME hlocked[s]
                    PROVE  /\ hst[s] = "sig" /\ rev = hpend[s].rev
                           /\ rrev[s] = hrev
        OBVIOUS
      <4>1. /\ hst[s] = "sig" /\ rrev[s] = hrev
            /\ resp[s].new = hpend[s].roots /\ hpend[s].edit = e
            /\ hpend[s].rev = [pend[s].rev EXCEPT !.size = Len(hpend[s].roots),
                                                  !.root = hpend[s].roots]
        BY <1>0, <2>1 DEF RenterInv
      <4>2. /\ EditIsLegal(hroots, e) /\ hpend[s].roots = EditRoots(hroots, e)
        BY <1>0, <4>1 DEF RequestInv
      <4>3. size = Len(hpend[s].roots)
        BY <1>0, <3>1, <4>1, <4>2, EditType DEF HostInv, TypeOK
      <4>. QED BY <4>1, <4>3
    <3>. HIDE DEF rev
    <3>4. /\ \A u \in Sessions : u # s => req'[u] = req[u]
          /\ hst[s] = "done" => req'[s] = NoMessage
          /\ hst[s] # "done" => req'[s] = Message("sign", rev, NoEdit)
      BY <1>5, <2>5
    <3>5. LockInv'
      BY <1>0, <2>1, <3>4 DEF LockInv
    <3>6. RequestInv(s)'
      <4>1. CASE ~hlocked[s]
        BY <2>1, <4>1 DEF RequestInv
      <4>2. CASE hlocked[s]
        <5>1. req'[s].type = "sign" /\ req'[s].rev = hpend[s].rev
          BY <3>3, <3>4, <4>2, MessageFields
        <5>2. StoreRevision(hpend[s].rev, hpend[s].edit, hpend[s].roots)
                => StoreRevision(hpend[s].rev, hpend[s].edit, hpend[s].roots)'
          BY <2>1 DEF StoreRevision
        <5>. QED BY <1>0, <2>1, <3>3, <4>2, <5>1, <5>2 DEF RequestInv
      <4>. QED BY <4>1, <4>2
    <3>7. Conserved(pend[s].rev)'
      BY <2>5, <3>2 DEF Conserved
    <3>8. /\ req'[s].type \in {"none", "sign"}
          /\ req'[s].type = "sign" => req'[s].rev = rev /\ hst[s] = "sig"
      BY <2>3, <3>4, MessageFields
    <3>9. RenterInv(s)'
      BY <1>0, <1>2, <2>1, <2>5, <3>3, <3>7, <3>8, ResponseFields DEF RenterInv
    <3>. QED BY <1>1, <3>5, <3>6, <3>9 DEF StepInv, SessionInv
  <2>. QED BY <2>2, <2>4, <2>5
<1>11. CASE RecvError(s)
  <2>1. /\ pc[s] # "idle" /\ resp[s].type \in {"error", "busy"}
        /\ pc'[s] = "idle" /\ resp'[s] = NoResponse
        /\ \/ UNCHANGED req
           \/ pc[s] = "read" /\ Send(s, Message("stop", NoRevision, NoEdit))
        /\ UNCHANGED <<contractVars, handlerVars, rst, rlocked, rrev, rhsig>>
    BY <1>0, <1>11 DEF RecvError, Respond, TypeOK
  <2>2. ~hlocked[s] /\ req[s].type = "none" /\ (pc[s] = "read" => hst[s] = "done")
    BY <1>0, <1>2, <1>3, <2>1 DEF RenterInv
  <2>3. /\ \A u \in Sessions : u # s => req'[u] = req[u]
        /\ hst[s] = "done" /\ req[s] = NoMessage => req'[s] = NoMessage
        /\ req'[s].type = "none"
    BY <1>5, <2>1, <2>2, MessageFields
  <2>4. LockInv' /\ RequestInv(s)'
    BY <1>4, <2>1, <2>3
  <2>5. RenterInv(s)'
    BY <1>0, <1>2, <2>1, <2>2, <2>3, ResponseFields DEF RenterInv
  <2>. QED BY <1>1, <2>4, <2>5 DEF StepInv, SessionInv
<1>. QED BY <1>6, <1>8, <1>9, <1>10, <1>11 DEF RenterReceives

-----------------------------------------------------------------------------
(* The invariant is inductive. *)

(* Every step of the protocol preserves the invariant. *)
LEMMA InvariantStep ==
  ASSUME IInv, ExclusiveLock, [Next]_vars
  PROVE  IInv'
<1>1. TypeOK'
  BY TypeStep DEF IInv
<1>2. CASE UNCHANGED vars
  <2>1. LockInv' /\ HostInv'
    BY <1>2, HostInvUnchanged
       DEF IInv, vars, LockInv, handlerVars
  <2>2. ASSUME NEW t \in Sessions PROVE SessionInv(t)'
    BY <1>2, OtherSession
       DEF IInv, SameAt, vars, contractVars, handlerVars, renterVars
  <2>. QED BY <1>1, <2>1, <2>2 DEF IInv
<1>3. ASSUME NEW s \in Sessions,
             RenterSends(s) \/ HostHandles(s) \/ RenterReceives(s)
               \/ Connection(s)
      PROVE  IInv'
  <2>1. StepInv(s)'
    BY <1>3, ConnectionStep, SendStep, ReceiveStep, HostLockStep,
       HostReleaseStep, HostPayStep, HostWriteStep, HostWriteSignStep
       DEF HostHandles
  <2>2. ASSUME NEW t \in Sessions, t # s PROVE SessionInv(t)'
    BY <1>3, <2>2, OneSession, OtherSession DEF IInv
  <2>. QED BY <1>1, <2>1, <2>2 DEF IInv, StepInv
<1>. QED BY <1>2, <1>3 DEF Next

(* Every reachable state satisfies the invariant. *)
LEMMA Invariant == ExclusiveLock /\ Spec => []IInv
<1>. SUFFICES ASSUME ExclusiveLock PROVE Spec => []IInv
  OBVIOUS
<1>1. Init => IInv
  <2>. SUFFICES ASSUME Init PROVE IInv
    OBVIOUS
  <2>1. PICK v \in 0 .. HostPayout : hrev = InitialRevision(v)
    BY DEF Init
  <2>2. TypeOK
    BY <2>1, InitialType, EmptyTypes DEF Init, TypeOK, Pcs
  <2>3. LockInv
    BY DEF Init, LockInv
  <2>4. HostInv
    <3>1. Conserved(hrev) /\ hrev.num = 1 /\ hrev.size = 0 /\ hrev.root = << >>
      BY <2>1, RevisionAssumption DEF InitialRevision, Conserved
    <3>. QED
      BY <3>1 DEF Init, HostInv, SignaturesCoverRevision, RenewalReserveKept
  <2>5. ASSUME NEW s \in Sessions PROVE SessionInv(s)
    BY MessageFields, ResponseFields DEF Init, SessionInv, RequestInv, RenterInv
  <2>. QED BY <2>2, <2>3, <2>4, <2>5 DEF IInv
<1>2. IInv /\ [Next]_vars => IInv'
  BY InvariantStep
<1>. QED BY <1>1, <1>2, PTL DEF Spec

-----------------------------------------------------------------------------
(* Theorems. *)

(* Both signatures of the contract cover its revision, at every moment of  *)
(* every interleaving and after every broken connection.                   *)
THEOREM SignaturesCorrect == ExclusiveLock /\ Spec => []SignaturesCoverRevision
<1>1. IInv => SignaturesCoverRevision
  BY DEF IInv, HostInv
<1>. QED BY <1>1, Invariant, PTL

(* Session.Revision is the host's revision whenever no RPC is under way    *)
(* and the host still honours the lock.                                    *)
THEOREM RevisionCorrect == ExclusiveLock /\ Spec => []RevisionIsMostRecent
<1>1. IInv => RevisionIsMostRecent
  BY DEF IInv, SessionInv, RenterInv, RevisionIsMostRecent
<1>. QED BY <1>1, Invariant, PTL

(* The renter always holds the host's signature on its own revision, which *)
(* SubmitContractRevision relies on.                                       *)
THEOREM HostSignatureHeld == ExclusiveLock /\ Spec => []RenterHoldsHostSignature
<1>1. IInv => RenterHoldsHostSignature
  BY DEF IInv, SessionInv, RenterInv, RenterHoldsHostSignature
<1>. QED BY <1>1, Invariant, PTL

(* The revision the host stores describes the sectors the host stores. *)
THEOREM SectorsCorrect == ExclusiveLock /\ Spec => []RevisionMatchesSectors
<1>1. IInv => RevisionMatchesSectors
  BY DEF IInv, HostInv, RevisionMatchesSectors
<1>. QED BY <1>1, Invariant, PTL

(* updateRevisionOutputs never creates or destroys coins, on either side. *)
THEOREM PayoutsCorrect == ExclusiveLock /\ Spec => []PayoutsConserved
<1>1. IInv => PayoutsConserved
  <2>1. IInv => Conserved(hrev)
    BY DEF IInv, HostInv
  <2>2. IInv => \A s \in Sessions : rlocked[s] => Conserved(rrev[s])
    BY DEF IInv, SessionInv, RenterInv
  <2>. QED BY <2>1, <2>2 DEF Conserved, PayoutsConserved
<1>. QED BY <1>1, Invariant, PTL

(* sufficientFunds keeps the renewal reserve through every RPC. *)
THEOREM ReserveCorrect == ExclusiveLock /\ Spec => []RenewalReserveKept
<1>1. IInv => RenewalReserveKept
  BY DEF IInv, HostInv
<1>. QED BY <1>1, Invariant, PTL

(* The operators of the ledger are those of the protocol. *)
LEMMA SameOperators ==
  /\ Ledger!Edit = Edit
  /\ \A r : Ledger!IsRevisable(r) <=> IsRevisable(r)
  /\ \A r, p : Ledger!SufficientFunds(r, p) <=> SufficientFunds(r, p)
  /\ \A r, e : Ledger!EditIsLegal(r, e) <=> EditIsLegal(r, e)
  /\ \A r, e : Ledger!EditRoots(r, e) = EditRoots(r, e)
  /\ \A r, p, c : Ledger!Revise(r, p, c) = Revise(r, p, c)
  /\ \A r, e, c : Ledger!CollateralOf(r, e, c) = CollateralOf(r, e, c)
  /\ \A v : Ledger!InitialRevision(v) = InitialRevision(v)
<1>1. Ledger!Edit = Edit
  BY DEF Ledger!Edit, Edit, Ledger!Index, Index
<1>2. /\ \A r : Ledger!IsRevisable(r) <=> IsRevisable(r)
      /\ \A r, p : Ledger!SufficientFunds(r, p) <=> SufficientFunds(r, p)
  BY DEF Ledger!IsRevisable, IsRevisable, Ledger!SufficientFunds,
         SufficientFunds
<1>3. \A r, e : Ledger!EditIsLegal(r, e) <=> EditIsLegal(r, e)
  BY DEF Ledger!EditIsLegal, EditIsLegal
<1>4. \A r, e : Ledger!EditRoots(r, e) = EditRoots(r, e)
  BY DEF Ledger!EditRoots, EditRoots
<1>5. \A r, p, c : Ledger!Revise(r, p, c) = Revise(r, p, c)
  BY DEF Ledger!Revise, Revise, Ledger!UpdateRevisionOutputs,
         UpdateRevisionOutputs, Ledger!Sub, Sub
<1>6. \A r, e, c : Ledger!CollateralOf(r, e, c) = CollateralOf(r, e, c)
  BY DEF Ledger!CollateralOf, CollateralOf
<1>7. \A v : Ledger!InitialRevision(v) = InitialRevision(v)
  BY DEF Ledger!InitialRevision, InitialRevision
<1>. QED BY <1>1, <1>2, <1>3, <1>4, <1>5, <1>6, <1>7

(* A step of the protocol is a step of the ledger, or none. *)
LEMMA LedgerStep ==
  ASSUME IInv, [Next]_vars
  PROVE  [Ledger!Next]_(Ledger!vars)
<1>. USE DEF contractVars, handlerVars, renterVars
<1>1. CASE UNCHANGED <<hrev, hroots>>
  BY <1>1 DEF Ledger!vars
<1>2. ASSUME NEW s \in Sessions, HostSectorRoots(s) \/ HostRead(s)
      PROVE  Ledger!Next
  <2>1. /\ hlocked[s] /\ req[s].type \in {"roots", "read"}
        /\ Commit(AdoptValues(hrev, req[s].rev), req[s].rev)
        /\ UNCHANGED <<hroots, hdata>>
    BY <1>2 DEF HostSectorRoots, HostRead, Handles
  <2>2. PayProposal(req[s].rev)
    BY <2>1 DEF IInv, SessionInv, RequestInv
  <2>3. hrev' = req[s].rev
    BY <2>1, <2>2, PayCommit DEF IInv
  <2>4. PICK price \in Prices : /\ IsRevisable(hrev)
                                /\ SufficientFunds(hrev, price)
                                /\ req[s].rev = Revise(hrev, price, 0)
    BY <2>2 DEF PayProposal
  <2>5. Ledger!Pay(price)
    BY <2>1, <2>3, <2>4, SameOperators DEF Ledger!Pay
  <2>. QED BY <2>5 DEF Ledger!Next
<1>3. ASSUME NEW s \in Sessions, HostWriteSign(s)
      PROVE  Ledger!Next
  <2>. DEFINE p   == hpend[s].rev
              e   == hpend[s].edit
              new == hpend[s].roots
  <2>1. /\ hst[s] = "sig" /\ hrev' = p /\ hroots' = new
    BY <1>3 DEF HostWriteSign, Commit
  <2>2. /\ EditIsLegal(hroots, e) /\ new = EditRoots(hroots, e)
        /\ StoreRevision(p, e, new) /\ e \in Edit
    BY <2>1 DEF IInv, LockInv, SessionInv, RequestInv, TypeOK, Writes
  <2>3. PICK price \in Prices, c \in Collaterals :
          /\ IsRevisable(hrev) /\ SufficientFunds(hrev, price)
          /\ p = [Revise(hrev, price, CollateralOf(hrev, e, c)) EXCEPT
                    !.size = Len(new), !.root = new]
    BY <2>2 DEF StoreRevision
  <2>. HIDE DEF p, e, new
  <2>4. Ledger!Store(e, price, c)
    BY <2>1, <2>2, <2>3, SameOperators DEF Ledger!Store
  <2>. QED BY <2>2, <2>4, SameOperators DEF Ledger!Next
<1>4. ASSUME NEW s \in Sessions,
             RenterSends(s) \/ HostHandles(s) \/ RenterReceives(s)
               \/ Connection(s),
             ~HostSectorRoots(s), ~HostRead(s), ~HostWriteSign(s)
      PROVE  UNCHANGED <<hrev, hroots>>
  BY <1>4
     DEF RenterSends, SendLock, SendUnlock, SendSectorRoots, SendRead,
         SendWrite, Propose, HostHandles, HostLock, HostUnlock, HostStop,
         HostWrite, HostReject, RenterReceives, RecvLock, RecvSectorRoots,
         RecvData, RecvProof, RecvSig, RecvError, Adopt, Connection, Dial,
         Close, RenterFail, HostDrop
<1>5. CASE UNCHANGED vars
  BY <1>1, <1>5 DEF vars
<1>. QED BY <1>1, <1>2, <1>3, <1>4, <1>5 DEF Next

(* The protocol implements the ledger: whatever the sessions do, the       *)
(* contract the host stores only takes whole, paid and legal steps.        *)
THEOREM ImplementsLedger == ExclusiveLock /\ Spec => LedgerSpec
<1>1. Init => Ledger!Init
  BY SameOperators DEF Init, Ledger!Init
<1>2. IInv /\ [Next]_vars => [Ledger!Next]_(Ledger!vars)
  BY LedgerStep
<1>. QED BY <1>1, <1>2, Invariant, PTL DEF Spec, LedgerSpec, Ledger!Spec
=============================================================================
