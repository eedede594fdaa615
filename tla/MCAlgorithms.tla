---------------------------- MODULE MCAlgorithms ----------------------------
(* The pure algorithms on small inputs, each against its reference: messages   *)
(* are written and read back, Merkle proofs built and verified, coins chosen.  *)
(* A behaviour takes one input, makes something of it, and looks at the        *)
(* result.                                                                     *)
EXTENDS Merkle, Encoding, Coins, TLC

CONSTANTS Counts, Lengths,      \* of the lists and byte strings in a message
          Descriptions,         \* lengths of the text of a host's refusal
          MaxRoots,             \* sectors in a contract, for range proofs
          MaxEdited, MaxActions, \* sectors and actions, for diff proofs
          Values, MaxInputs, MaxAmount

VARIABLES job,    \* the input
          made,   \* what was sent, or the proof
          seen    \* what came of it

vars == <<job, made, seen>>

Nothing == <<>>

Requests ==
  [FormContract |-> RPCFormContractRequest, Renew |-> RPCRenewAndClearContractRequest,
   Lock |-> RPCLockRequest, Read |-> RPCReadRequest, SectorRoots |-> RPCSectorRootsRequest,
   Write |-> RPCWriteRequest, Signatures |-> RPCFormContractSignatures,
   RenewSignatures |-> RPCRenewAndClearContractSignatures]

Responses ==
  [Additions |-> RPCFormContractAdditions, Locked |-> RPCLockResponse,
   Sector |-> RPCReadResponse, Roots |-> RPCSectorRootsResponse,
   Settings |-> RPCSettingsResponse, Proof |-> RPCWriteMerkleProof,
   Written |-> RPCWriteResponse, Error |-> RPCError]

TypeOf(j) == IF j.kind = "request" THEN Requests[j.type] ELSE Responses[j.type]

(* nothing, one word, leading zeros, more than a word *)
Amounts == {<<>>, <<"1", "0", "0", "0">>, <<"0", "0", "0", "7">>,
            <<"5", "0", "0", "0", "6", "0", "0", "0">>}

MaxLen == 1000000

Segs == [i \in 1 .. SegmentsPerSector |-> <<"s", ToString(i)>>]
RootSeq(n) == [i \in 1 .. n |-> <<"r", ToString(i)>>]
Added == <<"new">>
Forged == <<"forged">>

(* Contracts to delete from, with sectors that are stored twice. *)
Contracts ==
  {RootSeq(n): n \in 1 .. 7}
    \cup UNION {[1 .. n -> Range(RootSeq(3))]: n \in 1 .. MaxEdited}

Messages(kind, types) ==
  [kind: {kind}, type: types, count: Counts, len: Lengths, coins: Amounts, flag: BOOLEAN]

Init ==
  /\ made = Nothing /\ seen = Nothing
  /\ \/ job \in Messages("request", DOMAIN Requests)
     \/ job \in Messages("response", DOMAIN Responses)
     \/ job \in [kind: {"section"}, len: {64, 128, 4096}, count: 0 .. 6]
     \/ job \in [kind: {"refusal"}, len: {64, 4096}, data: {0, 2}, desc: Descriptions]
     \/ job \in [kind: {"handshake"}, count: 0 .. 3]
     \/ \E i, j \in 0 .. SegmentsPerSector:
          i < j /\ job = [kind |-> "segments", start |-> i, end |-> j]
     \/ \E n \in 1 .. MaxRoots: \E i, j \in 0 .. n:
          i < j /\ job = [kind |-> "sectors", n |-> n, start |-> i, end |-> j]
     \/ \E n \in 0 .. MaxEdited: job = [kind |-> "edit", n |-> n, actions |-> <<>>]
     \/ \E rs \in Contracts: \E roots \in (SUBSET (Range(rs) \cup {Added})) \ {{}}:
          job = [kind |-> "delete", old |-> rs, roots |-> roots]
     \/ \E k \in 1 .. MaxInputs: \E ins \in [1 .. k -> Values], a \in 1 .. MaxAmount:
          job = [kind |-> "fund", amount |-> a, inputs |-> ins]
     \/ \E k \in 1 .. MaxInputs: \E ins \in [1 .. k -> Values], n \in 1 .. 2, per \in Values:
          job = [kind |-> "distribute", inputs |-> ins, n |-> n, per |-> per]

-----------------------------------------------------------------------------
(* Messages: the object, its frame, and what is read from the frame.  A        *)
(* message is also delivered cut short, by more than the tag that is left in   *)
(* the buffer.                                                                 *)

Make ==
  /\ job.kind \in {"request", "response"} /\ made = Nothing
  /\ made' = [obj |-> Object(TypeOf(job), job, <<>>)]
  /\ UNCHANGED <<job, seen>>

Send ==
  /\ job.kind \in {"request", "response"} /\ made # Nothing /\ DOMAIN made = {"obj"}
  /\ made' = [obj |-> made.obj,
              frame |-> IF job.kind = "request" THEN writeMessage(TypeOf(job), made.obj)
                        ELSE writeResponse(job.type = "Error", TypeOf(job), made.obj)]
  /\ UNCHANGED <<job, seen>>

Cut(frame, n) ==
  [size |-> frame.size - n, body |-> Within(frame.body, frame.size - n - NonceSize - Overhead)]

Deliver ==
  /\ job.kind \in {"request", "response"} /\ made # Nothing /\ DOMAIN made # {"obj"}
  /\ seen = Nothing
  /\ \E cut \in {0} \cup (IF made.frame.size > MinMessageSize - 8 THEN {17, 64} ELSE {}):
       LET frame == Cut(made.frame, cut)
       IN  seen' = [cut |-> cut,
                    got |-> IF job.kind = "request" THEN readMessage(frame, TypeOf(job), MaxLen)
                            ELSE readResponse(frame, TypeOf(job), MaxLen)]
  /\ UNCHANGED <<job, made>>

(* A section of a sector as Session.Read takes it off the stream, and the      *)
(* refusal of it                                                               *)
SectionObject ==
  [Signature |-> Chunk(64, <<"sig">>, NoLength), Data |-> Chunk(job.len, <<"data">>, NoLength),
   MerkleProof |-> [i \in 1 .. job.count |-> Chunk(HashSize, <<"hash">>, NoLength)]]

ReadSection ==
  /\ job.kind = "section" /\ seen = Nothing
  /\ made' = SectionObject
  /\ seen' = readSection(writeResponse(FALSE, RPCReadResponse, made'), job.len, job.count)
  /\ UNCHANGED job

Text(len, v) == IF len = 0 THEN Zero(0) ELSE Chunk(len, v, NoLength)

ReadRefusal ==
  /\ job.kind = "refusal" /\ seen = Nothing
  /\ made' = [Type |-> Chunk(SpecifierSize, <<"type">>, NoLength),
              Data |-> Text(job.data, <<"data">>), Description |-> Text(job.desc, <<"text">>)]
  /\ seen' = readSection(writeResponse(TRUE, RPCError, made'), job.len, 0)
  /\ UNCHANGED job

Handshake ==
  /\ job.kind = "handshake" /\ seen = Nothing
  /\ LET ciphers == [i \in 1 .. job.count |-> Chunk(SpecifierSize, <<"cipher">>, NoLength)]
         sig == Chunk(64, <<"sig">>, NoLength)
     IN  /\ made' = [ciphers |-> ciphers, key |-> <<sig, Chunk(SpecifierSize, <<"cipher">>, NoLength)>>]
         /\ seen' = [hello |-> readExchange(writeExchange(ciphers)),
                     key |-> readKey(writeKey(sig, Chunk(SpecifierSize, <<"cipher">>, NoLength)))]
  /\ UNCHANGED job

-----------------------------------------------------------------------------
(* Proofs *)

BuildSegments ==
  /\ job.kind = "segments" /\ made = Nothing
  /\ made' = [proof |-> BuildProof(Segs, job.start, job.end), root |-> SectorRoot(Segs)]
  /\ UNCHANGED <<job, seen>>

Proven(segs, proof) ==
  [whole |-> VerifyProof(proof, segs, job.start, job.end, made.root),
   stream |-> StreamVerify(proof, segs, job.start, job.end, made.root)]

VerifySegments ==
  /\ job.kind = "segments" /\ made # Nothing /\ seen = Nothing
  /\ LET segs == SubSeq(Segs, job.start + 1, job.end)
     IN  seen' = [right |-> Proven(segs, made.proof),
                  wrong |-> {Proven([segs EXCEPT ![i] = Forged], made.proof): i \in DOMAIN segs}
                            \cup {Proven(segs, [made.proof EXCEPT ![i] = Forged]):
                                    i \in DOMAIN made.proof}]
  /\ UNCHANGED <<job, made>>

BuildSectors ==
  /\ job.kind = "sectors" /\ made = Nothing
  /\ made' = [proof |-> BuildSectorRangeProof(RootSeq(job.n), job.start, job.end),
              root |-> MetaRoot(RootSeq(job.n))]
  /\ UNCHANGED <<job, seen>>

VerifySectors ==
  /\ job.kind = "sectors" /\ made # Nothing /\ seen = Nothing
  /\ LET roots == SubSeq(RootSeq(job.n), job.start + 1, job.end)
         ok(rs, proof) == VerifySectorRangeProof(proof, rs, job.start, job.end, job.n, made.root)
     IN  seen' = [right |-> ok(roots, made.proof),
                  wrong |-> {ok(Tail(roots), made.proof), ok(Append(roots, Added), made.proof)}
                            \cup {ok([roots EXCEPT ![i] = Forged], made.proof): i \in DOMAIN roots}
                            \cup {ok(roots, [made.proof EXCEPT ![i] = Forged]):
                                    i \in DOMAIN made.proof}]
  /\ UNCHANGED <<job, made>>

Edited(actions) == Edit(RootSeq(job.n), actions)

(* The actions of a Write RPC, one by one: each is valid where it is applied. *)
AddAction ==
  /\ job.kind = "edit" /\ made = Nothing /\ Len(job.actions) < MaxActions
  /\ \E size \in {Len(Edited(job.actions))}:
     \E action \in {[type |-> "append", root |-> Added]}
                     \cup [type: {"trim"}, a: 1 .. size]
                     \cup [type: {"swap"}, a: 0 .. size - 1, b: 0 .. size - 1]:
       job' = [job EXCEPT !.actions = Append(@, action)]
  /\ UNCHANGED <<made, seen>>

BuildDiff ==
  /\ job.kind = "edit" /\ made = Nothing
  /\ made' = [proof |-> BuildDiffProof(job.actions, RootSeq(job.n)),
              root |-> MetaRoot(RootSeq(job.n))]
  /\ UNCHANGED <<job, seen>>

VerifyDiff ==
  /\ job.kind = "edit" /\ made # Nothing /\ seen = Nothing
  /\ LET ok(proof, new) == VerifyDiffProof(job.actions, job.n, proof, made.root, new)
         after(k) == MetaRoot(Edited(SubSeq(job.actions, 1, k)))
         claims == {after(k): k \in 0 .. Len(job.actions)}
         forge(field) == {[made.proof EXCEPT ![field][i] = Forged]: i \in DOMAIN made.proof[field]}
     IN  seen' = [accepted |-> {c \in claims: ok(made.proof, c)},
                  due |-> after(Len(job.actions)),
                  forged |-> {p \in forge("tree") \cup forge("leaf"): ok(p, after(Len(job.actions)))}]
  /\ UNCHANGED <<job, made>>

(* DeleteSectors and the Write it ends with. *)
Delete ==
  /\ job.kind = "delete" /\ made = Nothing
  /\ made' = [actions |-> DeleteSectors(job.old, job.roots)]
  /\ UNCHANGED <<job, seen>>

Deleted ==
  /\ job.kind = "delete" /\ made # Nothing /\ seen = Nothing
  /\ LET new == Edit(job.old, made.actions)
     IN  seen' = IF ~RootsVerify(job.old) THEN [err |-> TRUE, new |-> job.old]
                 ELSE [new |-> new,
                       err |-> ~VerifyDiffProof(made.actions, Len(job.old),
                                                BuildDiffProof(made.actions, job.old),
                                                MetaRoot(job.old), MetaRoot(new))]
  /\ UNCHANGED <<job, made>>

-----------------------------------------------------------------------------
(* Coins *)

Fund ==
  /\ job.kind \in {"fund", "distribute"} /\ seen = Nothing
  /\ seen' = IF job.kind = "fund" THEN FundTransaction(job.amount, job.inputs)
             ELSE DistributeFunds(job.inputs, job.n, job.per)
  /\ UNCHANGED <<job, made>>

Next ==
  \/ Make \/ Send \/ Deliver \/ ReadSection \/ ReadRefusal \/ Handshake
  \/ BuildSegments \/ VerifySegments \/ BuildSectors \/ VerifySectors
  \/ AddAction \/ BuildDiff \/ VerifyDiff \/ Delete \/ Deleted \/ Fund

Spec == Init /\ [][Next]_vars

-----------------------------------------------------------------------------
(* Properties *)

(* ProofSize is the length of the proof: always where the range ends with the  *)
(* last sector or the tree is perfect.                                         *)
ProofSizeHolds(j) ==
  \/ j.end = j.n
  \/ \E k \in 0 .. 4: j.n = 2 ^ k
  \/ Len(made.proof) = ProofSize(j.n, j.start, j.end)

FillsLastBlock ==
  (writeResponse(TRUE, RPCError, made).size - NonceSize - Overhead) % 16 = 0

(* What one side writes the other reads, field for field and without error,    *)
(* whatever the lengths: marshalledSize promises what marshalBuffer writes,    *)
(* and the bounds that unmarshalBuffer puts on list lengths refuse no honest   *)
(* message; a message shorter than its fields is an error, never an object     *)
(* with zeros in it.  For the handshake and the streamed section too, and for  *)
(* the refusal of a section, except one whose ciphertext fills its last block: *)
(* VerifyTag pads that with a block too many (session.go:269; README, section  *)
(* 5).                                                                         *)
RoundTrips ==
  seen # Nothing =>
    /\ job.kind \in {"request", "response"} =>
         IF seen.cut = 0 THEN seen.got.val = made.obj /\ ~seen.got.buf.err
         ELSE seen.got.buf.err
    /\ job.kind = "section" => seen.val = made /\ ~seen.buf.err
    /\ job.kind = "refusal" /\ ~FillsLastBlock => seen.val = [err |-> made] /\ ~seen.buf.err
    /\ job.kind = "handshake" =>
         /\ seen.hello.val = made.ciphers /\ ~seen.hello.buf.err
         /\ seen.key.val = made.key /\ ~seen.key.buf.err

(* What the documentation says: "If the response was an RPCError, it is        *)
(* authenticated and returned immediately" (session.go:284), whatever the      *)
(* length of its text.  TLC refutes it (README, section 5); no run checks it.  *)
RefusalsArrive ==
  seen # Nothing /\ job.kind = "refusal" => seen.val = [err |-> made] /\ ~seen.buf.err

(* The roots are those of the tree, and an honest proof is accepted by every   *)
(* verifier: of a range of segments by the recursive and the streaming one, of *)
(* a range of sectors, and of any sequence of actions, before and after.  A    *)
(* proof of sectors is refused when ProofSize is not its length, which is so   *)
(* for some ranges that end before the last of a number of sectors that is not *)
(* a power of two (README, section 5).                                         *)
ProofsVerify ==
  /\ (made # Nothing /\ job.kind = "segments") =>
       made.root = Tree([i \in DOMAIN Segs |-> SumLeaf(Segs[i])])
  /\ (made # Nothing /\ job.kind \in {"sectors", "edit"}) => made.root = Tree(RootSeq(job.n))
  /\ seen # Nothing =>
       /\ job.kind = "segments" => seen.right.whole /\ seen.right.stream
       /\ (job.kind = "sectors" /\ ProofSizeHolds(job)) => seen.right = "yes"
       /\ job.kind = "edit" => seen.due \in seen.accepted

(* No verifier accepts a proof with one hash replaced, other segments or       *)
(* sectors than the tree holds, or an edit that ends elsewhere.                *)
ProofsBind ==
  seen # Nothing =>
    /\ job.kind = "segments" => \A w \in seen.wrong: ~w.whole /\ ~w.stream
    /\ job.kind = "sectors" => "yes" \notin seen.wrong
    /\ job.kind = "edit" => seen.forged = {} /\ seen.accepted \subseteq {seen.due}

(* DeleteSectors deletes the sectors it was given, one copy of each, and no    *)
(* other: whatever moved, every other root is still in the contract as often   *)
(* as before.  It fails only where a proof of some of the roots is refused     *)
(* because of its length, and then deletes nothing.                            *)
DeletesExactly ==
  (job.kind = "delete" /\ seen # Nothing) =>
    LET count(rs, r) == Cardinality({i \in DOMAIN rs: rs[i] = r})
        gone(r) == IF r \in job.roots /\ ~seen.err THEN 1 ELSE 0
    IN  /\ \A r \in Range(job.old): count(seen.new, r) = count(job.old, r) - gone(r)
        /\ Range(seen.new) \subseteq Range(job.old)
        /\ seen.err => Len(job.old) > RootsPerCall

(* The coins chosen pay for the amount and for their own fee, are the fewest   *)
(* of that order that do, and the change is the rest.  DistributeFunds, which  *)
(* looks for their number by bisection, is only held to it when every input is *)
(* worth its fee.                                                              *)
CoinsSuffice ==
  seen # Nothing =>
    /\ job.kind = "fund" => FewestInputs(seen, job.amount, job.inputs)
    /\ job.kind = "distribute" =>
         \E ins \in {Candidates(job.inputs, job.per)}:
           (\A i \in DOMAIN ins: ins[i] > FeePerInput) =>
             FewestInputs(seen, job.per * job.n, ins)
=============================================================================
