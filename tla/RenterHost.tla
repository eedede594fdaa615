------------------------------ MODULE RenterHost ------------------------------
(***************************************************************************)
(* The renter-host protocol for one contract: the renter side              *)
(* (renter/proto/session.go, proto.Session), the host side                 *)
(* (ghost/session.go) and the connections between them                     *)
(* (renterhost/session.go).                                                *)
(*                                                                         *)
(* An RPC takes several steps - the renter sends, the host handles, the    *)
(* renter receives - and steps of different connections interleave.  A     *)
(* connection may break between any two steps, on either side, with        *)
(* messages still under way; the host may still handle what a renter that  *)
(* has given up sent earlier.                                              *)
(*                                                                         *)
(* Each direction of a connection holds at most one message.  RPCs are     *)
(* synchronous, so the only messages that could queue are Unlock and       *)
(* ReadStop ahead of the next request; a host handles one message at a     *)
(* time, so sending that request later is no different.                    *)
(***************************************************************************)
EXTENDS Revisions

CONSTANTS
  Sessions,       \* connections that can exist at the same time
  ExclusiveLock   \* does the host lock a contract for one connection?

ASSUME SessionAssumption == ExclusiveLock \in BOOLEAN

VARIABLES
  \* the host's hostContract
  hrev,      \* contract.rev
  hroots,    \* contract.sectorRoots
  hdata,     \* the keys of contract.sectorData
  rsig,      \* what contract.sigs[0], the renter's signature, covers
  hsig,      \* what contract.sigs[1], the host's signature, covers
  \* the host's handler of each connection
  hst,       \* "done", "loop", or waiting: "stop" (rpcRead), "sig" (rpcWrite)
  hlocked,   \* session.contract # nil
  hpend,     \* rpcWrite: newRevision and newRoots
  \* the renter's Session on each connection
  rst,       \* "closed" (or failed), "open", or "skewed"
  pc,        \* the RPC in progress, or "idle"
  rlocked,   \* Session.rev is valid
  rrev,      \* Session.rev.Revision
  rhsig,     \* what Session.rev.Signatures[1] covers
  pend,      \* the revision the RPC in progress proposes, and its edit
  \* the connection
  req,       \* the message on its way to the host
  resp       \* the message on its way to the renter

contractVars == <<hrev, hroots, hdata, rsig, hsig>>
handlerVars  == <<hst, hlocked, hpend>>
renterVars   == <<rst, pc, rlocked, rrev, rhsig, pend>>
vars == <<contractVars, handlerVars, renterVars, req, resp>>

-----------------------------------------------------------------------------
NoEdit == [op |-> "trim", n |-> 0]

(* What the renter and the host keep between the rounds of an RPC. *)
NoProposal == [rev |-> NoRevision, edit |-> NoEdit]
NoWrite == [rev |-> NoRevision, roots |-> << >>, edit |-> NoEdit]

(* A request proposes a revision; its argument is the edit of a Write or the *)
(* sector of a Read.                                                         *)
Message(t, rev, arg) == [type |-> t, rev |-> rev, arg |-> arg]
NoMessage == Message("none", NoRevision, NoEdit)

(* A response carries a revision with the host's signature, and for the    *)
(* Merkle proofs the roots before and after.                               *)
Response(t, rev, sig0, sig1, old, new) ==
  [type |-> t, rev |-> rev, rsig |-> sig0, hsig |-> sig1,
   old |-> old, new |-> new]
Reply(t) == Response(t, NoRevision, NoRevision, NoRevision, << >>, << >>)
NoResponse == Reply("none")

Pcs == {"idle", "lock", "roots", "read", "write", "sign"}
Proposals == [rev : Revision, edit : Edit]
Writes == [rev : Revision, roots : Seq(Sectors), edit : Edit]
Requests ==
  [type : {"none", "lock", "unlock", "roots", "stop", "write", "sign",
           "refuse"}, rev : Revision, arg : Edit]
    \cup [type : {"read"}, rev : Revision, arg : Sectors]
Responses ==
  [type : {"none", "error", "lock", "busy", "roots", "data", "proof", "sig"},
   rev : Revision, rsig : Revision, hsig : Revision,
   old : Seq(Sectors), new : Seq(Sectors)]

(* Both ends of a connection and the messages on it hold well-formed        *)
(* revisions, edits and proposals.                                          *)
TypeOK ==
  /\ hrev \in Revision
  /\ hroots \in Seq(Sectors)
  /\ hdata \subseteq Sectors
  /\ rsig \in Revision
  /\ hsig \in Revision
  /\ hst \in [Sessions -> {"done", "loop", "stop", "sig"}]
  /\ hlocked \in [Sessions -> BOOLEAN]
  /\ hpend \in [Sessions -> Writes]
  /\ rst \in [Sessions -> {"closed", "open", "skewed"}]
  /\ pc \in [Sessions -> Pcs]
  /\ rlocked \in [Sessions -> BOOLEAN]
  /\ rrev \in [Sessions -> Revision]
  /\ rhsig \in [Sessions -> Revision]
  /\ pend \in [Sessions -> Proposals]
  /\ req \in [Sessions -> Requests]
  /\ resp \in [Sessions -> Responses]

Init ==
  /\ \E v \in 0 .. HostPayout : hrev = InitialRevision(v)
  /\ hroots = << >>
  /\ hdata = {}
  /\ rsig = hrev
  /\ hsig = hrev
  /\ hst = [s \in Sessions |-> "done"]
  /\ hlocked = [s \in Sessions |-> FALSE]
  /\ hpend = [s \in Sessions |-> NoWrite]
  /\ rst = [s \in Sessions |-> "closed"]
  /\ pc = [s \in Sessions |-> "idle"]
  /\ rlocked = [s \in Sessions |-> FALSE]
  /\ rrev = [s \in Sessions |-> NoRevision]
  /\ rhsig = [s \in Sessions |-> NoRevision]
  /\ pend = [s \in Sessions |-> NoProposal]
  /\ req = [s \in Sessions |-> NoMessage]
  /\ resp = [s \in Sessions |-> NoResponse]

-----------------------------------------------------------------------------
(* Connections. *)

(* NewUnlockedSession: dial, handshake, start a handler on the host. *)
Dial(s) ==
  /\ rst[s] = "closed"
  /\ hst[s] = "done"
  /\ rst' = [rst EXCEPT ![s] = "open"]
  /\ hst' = [hst EXCEPT ![s] = "loop"]
  /\ resp' = [resp EXCEPT ![s] = NoResponse]
  /\ UNCHANGED <<contractVars, hlocked, hpend, pc, rlocked, rrev, rhsig, pend,
                 req>>

(* The Session of a connection that closed or failed is discarded. *)
Discard(s) ==
  /\ rst' = [rst EXCEPT ![s] = "closed"]
  /\ pc' = [pc EXCEPT ![s] = "idle"]
  /\ rlocked' = [rlocked EXCEPT ![s] = FALSE]
  /\ rrev' = [rrev EXCEPT ![s] = NoRevision]
  /\ rhsig' = [rhsig EXCEPT ![s] = NoRevision]
  /\ pend' = [pend EXCEPT ![s] = NoProposal]
  /\ resp' = [resp EXCEPT ![s] = NoResponse]

Close(s) ==
  /\ rst[s] # "closed"
  /\ pc[s] = "idle"
  /\ Discard(s)
  /\ UNCHANGED <<contractVars, handlerVars, req>>

(* An I/O error of the renter: setErr closes the connection.  What was sent *)
(* may still reach the host.                                                *)
RenterFail(s) ==
  /\ rst[s] = "open"
  /\ pc[s] # "idle"
  /\ Discard(s)
  /\ UNCHANGED <<contractVars, handlerVars, req>>

(* An RPC that fails without closing its connection.  A deadline that       *)
(* expires is a "temporary" net.Error, which setErr ignores; and a Read     *)
(* whose writer fails returns in the middle of a message.  The rest of the  *)
(* answer is still to come, so the connection is out of step from then on.  *)
(* The step is not part of Next but of NextAbandoning, which stops there:   *)
(* it does not follow what is read from a connection that is out of step.   *)
RenterAbandon(s) ==
  /\ rst[s] = "open"
  /\ pc[s] # "idle"
  /\ rst' = [rst EXCEPT ![s] = "skewed"]
  /\ pc' = [pc EXCEPT ![s] = "idle"]
  /\ UNCHANGED <<contractVars, handlerVars, rlocked, rrev, rhsig, pend,
                 req, resp>>

\* Mutant: a handler that returns forgets to release its contract.
HandlerReturnsLocked(s) ==
  /\ hst' = [hst EXCEPT ![s] = "done"]
  /\ hpend' = [hpend EXCEPT ![s] = NoWrite]
  /\ req' = [req EXCEPT ![s] = NoMessage]
  /\ UNCHANGED hlocked

(* The handler of a connection returns, whatever the reason; its contract   *)
(* is no longer locked and what was sent to it is lost.                     *)
HandlerReturns(s) ==
  /\ hst' = [hst EXCEPT ![s] = "done"]
  /\ hlocked' = [hlocked EXCEPT ![s] = FALSE]
  /\ hpend' = [hpend EXCEPT ![s] = NoWrite]
  /\ req' = [req EXCEPT ![s] = NoMessage]

(* The host reads loopExit or the end of the stream, or its deadline passes. *)
HostDrop(s) ==
  /\ hst[s] # "done"
  /\ HandlerReturns(s)
  /\ UNCHANGED <<contractVars, renterVars, resp>>

-----------------------------------------------------------------------------
(* Steps that several RPCs share. *)

CanSend(s) ==
  /\ rst[s] = "open"
  /\ pc[s] = "idle"
  /\ req[s] = NoMessage
  /\ resp[s] = NoResponse

(* A message to a handler that has returned is lost. *)
Send(s, m) ==
  req' = [req EXCEPT ![s] = IF hst[s] = "done" THEN NoMessage ELSE m]

(* The renter's checks before every RPC that costs money. *)
CanPay(s, price) ==
  /\ rlocked[s]
  /\ IsRevisable(rrev[s])
  /\ SufficientFunds(rrev[s], price)

(* Start an RPC that proposes revision rev. *)
Propose(s, t, rev, edit, arg) ==
  /\ CanSend(s)
  /\ pc' = [pc EXCEPT ![s] = t]
  /\ pend' = [pend EXCEPT ![s] = [rev |-> rev, edit |-> edit]]
  /\ Send(s, Message(t, rev, arg))
  /\ UNCHANGED <<contractVars, handlerVars, rst, rlocked, rrev, rhsig, resp>>

Handles(s, t) == hst[s] = "loop" /\ req[s].type = t
Consumed(s) == req' = [req EXCEPT ![s] = NoMessage]
Respond(s, m) == resp' = [resp EXCEPT ![s] = m]

(* The host takes the number and the output values from the request, and   *)
(* everything else from its own revision.                                  *)
AdoptValues(rev, prop) ==
  [rev EXCEPT !.num = prop.num, !.vr = prop.vr, !.vh = prop.vh,
              !.mr = prop.mr, !.mh = prop.mh, !.mv = prop.mv]

\* Mutant: the renter's signature on the new revision is not kept.
CommitKeepingRenterSig(rev, sig) ==
  /\ hrev' = rev
  /\ hsig' = rev
  /\ UNCHANGED rsig

Commit(rev, sig) ==
  /\ hrev' = rev
  /\ rsig' = sig
  /\ hsig' = rev

\* Mutant: the session's revision is not replaced by the accepted one.
AdoptKeepingRevision(s) ==
  /\ pc' = [pc EXCEPT ![s] = "idle"]
  /\ pend' = [pend EXCEPT ![s] = NoProposal]
  /\ Respond(s, NoResponse)
  /\ UNCHANGED <<contractVars, handlerVars, rst, rlocked, rrev, rhsig>>

(* The RPC in progress returns without an error: the proposed revision is  *)
(* the session's revision now.                                             *)
Adopt(s) ==
  /\ rrev' = [rrev EXCEPT ![s] = pend[s].rev]
  /\ rhsig' = [rhsig EXCEPT ![s] = resp[s].hsig]
  /\ pc' = [pc EXCEPT ![s] = "idle"]
  /\ pend' = [pend EXCEPT ![s] = NoProposal]
  /\ Respond(s, NoResponse)
  /\ UNCHANGED <<contractVars, handlerVars, rst, rlocked>>

-----------------------------------------------------------------------------
(* Lock and Unlock. *)

SendLock(s) == Propose(s, "lock", NoRevision, NoEdit, NoEdit)

(* A contract is available unless the handler of another connection has it. *)
LockAvailable(s) == ExclusiveLock => \A t \in Sessions : ~hlocked[t]

HostLock(s) ==
  /\ Handles(s, "lock")
  /\ ~hlocked[s]
  /\ IF LockAvailable(s)
       THEN /\ hlocked' = [hlocked EXCEPT ![s] = TRUE]
            /\ Respond(s, Response("lock", hrev, rsig, hsig, << >>, << >>))
       ELSE /\ Respond(s, Reply("busy"))
            /\ UNCHANGED hlocked
  /\ Consumed(s)
  /\ UNCHANGED <<contractVars, hst, hpend, renterVars>>

(* The renter accepts the claimed revision if both signatures cover it. *)
RecvLock(s) ==
  /\ pc[s] = "lock"
  /\ resp[s].type = "lock"
  /\ IF resp[s].rsig = resp[s].rev /\ resp[s].hsig = resp[s].rev
       THEN /\ rlocked' = [rlocked EXCEPT ![s] = TRUE]
            /\ rrev' = [rrev EXCEPT ![s] = resp[s].rev]
            /\ rhsig' = [rhsig EXCEPT ![s] = resp[s].hsig]
       ELSE UNCHANGED <<rlocked, rrev, rhsig>>
  /\ pc' = [pc EXCEPT ![s] = "idle"]
  /\ pend' = [pend EXCEPT ![s] = NoProposal]
  /\ Respond(s, NoResponse)
  /\ UNCHANGED <<contractVars, handlerVars, rst, req>>

SendUnlock(s) ==
  /\ CanSend(s)
  /\ rlocked[s]
  /\ Send(s, Message("unlock", NoRevision, NoEdit))
  /\ rlocked' = [rlocked EXCEPT ![s] = FALSE]
  /\ rrev' = [rrev EXCEPT ![s] = NoRevision]
  /\ rhsig' = [rhsig EXCEPT ![s] = NoRevision]
  /\ UNCHANGED <<contractVars, handlerVars, rst, pc, pend, resp>>

HostUnlock(s) ==
  /\ Handles(s, "unlock")
  /\ hlocked' = [hlocked EXCEPT ![s] = FALSE]
  /\ Consumed(s)
  /\ UNCHANGED <<contractVars, hst, hpend, renterVars, resp>>

-----------------------------------------------------------------------------
(* SectorRoots.  The renter asks for all the roots it knows of, as          *)
(* DeleteSectors does; the host charges before it answers.                  *)

SendSectorRoots(s, price) ==
  /\ CanPay(s, price)
  /\ rrev[s].size > 0
  /\ Propose(s, "roots", Revise(rrev[s], price, 0), NoEdit, NoEdit)

HostSectorRoots(s) ==
  /\ Handles(s, "roots")
  /\ hlocked[s]
  /\ req[s].rev.size <= Len(hroots)
  /\ LET rev == AdoptValues(hrev, req[s].rev)
     IN /\ Commit(rev, req[s].rev)
        /\ Respond(s, Response("roots", NoRevision, NoRevision, rev,
                               hroots, << >>))
  /\ Consumed(s)
  /\ UNCHANGED <<hroots, hdata, handlerVars, renterVars>>

(* The revision is adopted before the Merkle proof is looked at. *)
RecvSectorRoots(s) ==
  /\ pc[s] = "roots"
  /\ resp[s].type = "roots"
  /\ Adopt(s)
  /\ UNCHANGED req

-----------------------------------------------------------------------------
(* Read, of one section of one sector.  The host commits the revision       *)
(* before it looks for the sector, and waits for the renter's stop signal.  *)

SendRead(s, x, price) ==
  /\ CanPay(s, price)
  /\ Propose(s, "read", Revise(rrev[s], price, 0), NoEdit, x)

HostRead(s) ==
  /\ Handles(s, "read")
  /\ hlocked[s]
  /\ hrev.num # MaxNum
  /\ LET rev == AdoptValues(hrev, req[s].rev)
     IN /\ Commit(rev, req[s].rev)
        /\ IF req[s].arg \in hdata
             THEN /\ Respond(s, Response("data", NoRevision, NoRevision, rev,
                                         << >>, << >>))
                  /\ hst' = [hst EXCEPT ![s] = "stop"]
                  /\ Consumed(s)
                  /\ UNCHANGED <<hlocked, hpend>>
             ELSE /\ Respond(s, Reply("error"))
                  /\ HandlerReturns(s)
  /\ UNCHANGED <<hroots, hdata, renterVars>>

RecvData(s) ==
  /\ pc[s] = "read"
  /\ resp[s].type = "data"
  /\ Adopt(s)
  /\ Send(s, Message("stop", NoRevision, NoEdit))

HostStop(s) ==
  /\ hst[s] = "stop"
  /\ req[s].type = "stop"
  /\ hst' = [hst EXCEPT ![s] = "loop"]
  /\ Consumed(s)
  /\ UNCHANGED <<contractVars, hlocked, hpend, renterVars, resp>>

-----------------------------------------------------------------------------
(* Write.  Two rounds: the edit and its Merkle proof, then the signatures.  *)

\* Mutant: the revision that is proposed moves no money.
SendWriteFree(s, e, price, c) ==
  /\ CanPay(s, price)
  /\ e.op = "append" => rrev[s].size < MaxSectors
  /\ Propose(s, "write", [rrev[s] EXCEPT !.num = @ + 1], e, e)

SendWrite(s, e, price, c) ==
  /\ CanPay(s, price)
  /\ e.op = "append" => rrev[s].size < MaxSectors
  /\ Propose(s, "write",
             Revise(rrev[s], price, CollateralOf(rrev[s], e, c)), e, e)

HostWrite(s) ==
  /\ Handles(s, "write")
  /\ hlocked[s]
  /\ EditIsLegal(hroots, req[s].arg)
  /\ LET new == EditRoots(hroots, req[s].arg)
         rev == [AdoptValues(hrev, req[s].rev) EXCEPT
                   !.size = EditSize(hrev.size, req[s].arg), !.root = new]
     IN /\ hpend' = [hpend EXCEPT ![s] =
                       [rev |-> rev, roots |-> new, edit |-> req[s].arg]]
        /\ Respond(s, Response("proof", NoRevision, NoRevision, NoRevision,
                               hroots, new))
  /\ hst' = [hst EXCEPT ![s] = "sig"]
  /\ Consumed(s)
  /\ UNCHANGED <<contractVars, hlocked, renterVars>>

(* A diff proof is valid if it starts from the root the renter knows and   *)
(* leads to the root its own edit leads to.                                *)
VerifyDiffProof(rev, e, old, new) ==
  /\ old = rev.root
  /\ EditIsLegal(old, e)
  /\ new = EditRoots(old, e)

\* Mutant: the renter waits for the host's signature before it sends its own.
RecvProofUnsent(s) ==
  /\ pc[s] = "write"
  /\ resp[s].type = "proof"
  /\ pc' = [pc EXCEPT ![s] = "sign"]
  /\ pend' = [pend EXCEPT ![s].rev =
                 [@ EXCEPT !.size = EditSize(rrev[s].size, pend[s].edit),
                           !.root = resp[s].new]]
  /\ Respond(s, NoResponse)
  /\ UNCHANGED <<contractVars, handlerVars, rst, rlocked, rrev, rhsig, req>>

(* The renter signs the revision with the new root, or refuses.  A contract *)
(* that becomes empty is signed without looking at the proof.               *)
RecvProof(s) ==
  /\ pc[s] = "write"
  /\ resp[s].type = "proof"
  /\ LET e    == pend[s].edit
         size == EditSize(rrev[s].size, e)
         rev  == [pend[s].rev EXCEPT !.size = size, !.root = resp[s].new]
     IN IF size > 0
             /\ ~VerifyDiffProof(rrev[s], e, resp[s].old, resp[s].new)
          THEN /\ Send(s, Message("refuse", NoRevision, NoEdit))
               /\ pc' = [pc EXCEPT ![s] = "idle"]
               /\ pend' = [pend EXCEPT ![s] = NoProposal]
          ELSE /\ Send(s, Message("sign", rev, NoEdit))
               /\ pc' = [pc EXCEPT ![s] = "sign"]
               /\ pend' = [pend EXCEPT ![s].rev = rev]
  /\ Respond(s, NoResponse)
  /\ UNCHANGED <<contractVars, handlerVars, rst, rlocked, rrev, rhsig>>

Gained(e) == IF e.op = "append" THEN {e.sector} ELSE {}

HostWriteSign(s) ==
  /\ hst[s] = "sig"
  /\ req[s].type = "sign"
  /\ Commit(hpend[s].rev, req[s].rev)
  /\ hroots' = hpend[s].roots
  /\ hdata' = hdata \cup Gained(hpend[s].edit)
  /\ Respond(s, Response("sig", NoRevision, NoRevision, hpend[s].rev,
                         << >>, << >>))
  /\ hst' = [hst EXCEPT ![s] = "loop"]
  /\ hpend' = [hpend EXCEPT ![s] = NoWrite]
  /\ Consumed(s)
  /\ UNCHANGED <<hlocked, renterVars>>

RecvSig(s) ==
  /\ pc[s] = "sign"
  /\ resp[s].type = "sig"
  /\ Adopt(s)
  /\ UNCHANGED req

-----------------------------------------------------------------------------
(* Failures that the host reports. *)

(* The messages that the host handles, in the order it expects them, and    *)
(* under the conditions it checks.                                          *)
Acceptable(s) ==
  LET t == req[s].type
  IN \/ t = "none"
     \/ hst[s] = "stop" /\ t = "stop"
     \/ hst[s] = "sig" /\ t = "sign"
     \/ /\ hst[s] = "loop"
        /\ \/ t = "lock" /\ ~hlocked[s]
           \/ t = "unlock"
           \/ t = "roots" /\ hlocked[s] /\ req[s].rev.size <= Len(hroots)
           \/ t = "read" /\ hlocked[s] /\ hrev.num # MaxNum
           \/ t = "write" /\ hlocked[s] /\ EditIsLegal(hroots, req[s].arg)

(* The host answers a bad request with an error, and its handler returns;   *)
(* it does not answer when it waits for something else than a request.      *)
(* (rpcRead waits for the stop signal before it returns such an error, but  *)
(* never has to: the renter reads only from a contract that it has locked   *)
(* and that can be revised.)                                                *)
HostReject(s) ==
  /\ hst[s] # "done"
  /\ ~Acceptable(s)
  /\ IF hst[s] = "loop"
       THEN Respond(s, Reply("error"))
       ELSE UNCHANGED resp
  /\ HandlerReturns(s)
  /\ UNCHANGED <<contractVars, renterVars>>

(* The RPC returns an error and changes nothing; Read sends its stop signal *)
(* all the same.                                                            *)
RecvError(s) ==
  /\ pc[s] # "idle"
  /\ resp[s].type \in {"error", "busy"}
  /\ pc' = [pc EXCEPT ![s] = "idle"]
  /\ pend' = [pend EXCEPT ![s] = NoProposal]
  /\ Respond(s, NoResponse)
  /\ IF pc[s] = "read"
       THEN Send(s, Message("stop", NoRevision, NoEdit))
       ELSE UNCHANGED req
  /\ UNCHANGED <<contractVars, handlerVars, rst, rlocked, rrev, rhsig>>

-----------------------------------------------------------------------------
RenterSends(s) ==
  \/ SendLock(s)
  \/ SendUnlock(s)
  \/ \E price \in Prices :
       \/ SendSectorRoots(s, price)
       \/ \E x \in Sectors : SendRead(s, x, price)
       \/ \E e \in Edit, c \in Collaterals : SendWrite(s, e, price, c)

HostHandles(s) ==
  \/ HostLock(s)
  \/ HostUnlock(s)
  \/ HostSectorRoots(s)
  \/ HostRead(s)
  \/ HostStop(s)
  \/ HostWrite(s)
  \/ HostWriteSign(s)
  \/ HostReject(s)

RenterReceives(s) ==
  \/ RecvLock(s)
  \/ RecvSectorRoots(s)
  \/ RecvData(s)
  \/ RecvProof(s)
  \/ RecvSig(s)
  \/ RecvError(s)

Connection(s) ==
  \/ Dial(s)
  \/ Close(s)
  \/ RenterFail(s)
  \/ HostDrop(s)

Next ==
  \E s \in Sessions :
    \/ RenterSends(s)
    \/ HostHandles(s)
    \/ RenterReceives(s)
    \/ Connection(s)

Spec == Init /\ [][Next]_vars

NextAbandoning == Next \/ \E s \in Sessions : RenterAbandon(s)
SpecAbandoning == Init /\ [][NextAbandoning]_vars

(* Fairness: a host handles what it has read, a renter reads what has       *)
(* arrived, each side notices that the other has closed the connection.     *)
(* Nothing makes a renter call another RPC or dial again.                   *)
Fairness ==
  \A s \in Sessions :
    /\ WF_vars(HostHandles(s))
    /\ WF_vars(RenterReceives(s))
    /\ WF_vars(rst[s] = "closed" /\ HostDrop(s))
    /\ WF_vars(hst[s] = "done" /\ resp[s] = NoResponse /\ RenterFail(s))

FairSpec == Spec /\ Fairness

-----------------------------------------------------------------------------
(* Properties. *)

(* Whatever connections break in the middle of whatever RPC, both           *)
(* signatures the host stores cover the revision it stores, so that no      *)
(* later Lock fails on the renter's check of the claimed revision.          *)
SignaturesCoverRevision == rsig = hrev /\ hsig = hrev

(* A renter that has locked a contract holds a host signature on exactly    *)
(* the revision it believes in, although no RPC but Lock verifies one: it   *)
(* could submit that revision to the blockchain (SubmitContractRevision).   *)
RenterHoldsHostSignature ==
  \A s \in Sessions : rlocked[s] => rhsig[s] = rrev[s]

(* "Revision returns the most recent revision of the locked contract":      *)
(* between RPCs on a connection whose lock the host still honours, the      *)
(* renter's revision is the host's.                                         *)
RevisionIsMostRecent ==
  \A s \in Sessions :
    rlocked[s] /\ hlocked[s] /\ pc[s] = "idle" => rrev[s] = hrev

(* The host's revision commits to the sectors the host has: its Merkle root *)
(* and file size are those of the stored roots, and the data of every root  *)
(* is there.                                                                *)
RevisionMatchesSectors ==
  /\ hrev.root = hroots
  /\ hrev.size = Len(hroots)
  /\ \A i \in 1 .. Len(hroots) : hroots[i] \in hdata

(* No revision creates or destroys coins: valid and missed outputs keep     *)
(* adding up to what both parties put in, and the renter's valid and missed *)
(* outputs stay equal, so that neither subtraction can underflow.           *)
PayoutsConserved ==
  \A rev \in {hrev} \cup {rrev[s] : s \in {t \in Sessions : rlocked[t]}} :
    /\ rev.vr + rev.vh = RenterPayout + HostPayout
    /\ rev.mr + rev.mh + rev.mv = RenterPayout + HostPayout
    /\ rev.vr = rev.mr

(* Every paid RPC leaves the renter what it takes to renew the contract. *)
RenewalReserveKept == hrev.num > 1 => hrev.vr >= 5 * BaseRPCPrice

(* An RPC returns: it succeeds, is rejected, or its connection fails. *)
RPCReturns == \A s \in Sessions : pc[s] # "idle" ~> pc[s] = "idle"

(* "The host will automatically unlock any locked contracts when the        *)
(* connection closes."                                                      *)
LockReleased == \A s \in Sessions : rst[s] = "closed" ~> ~hlocked[s]

(* The protocol implements the ledger: the host's contract only ever takes  *)
(* whole, paid, legal steps.                                                *)
Ledger == INSTANCE ContractLedger WITH rev <- hrev, roots <- hroots
LedgerSpec == Ledger!Spec
=============================================================================
