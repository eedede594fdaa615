------------------------------ MODULE Encoding ------------------------------
(* The messages of the renter-host protocol as bytes: renterhost/encoding.go, *)
(* and the frames of renterhost/session.go that carry them.                   *)
(*                                                                            *)
(* An object of the protocol has three methods that must agree, and that are  *)
(* written by hand for every type: marshalledSize, which sizes the frame,     *)
(* marshalBuffer and unmarshalBuffer.  A type is modelled by a record of what *)
(* the three say: the constant part of the size, the fields in the order they *)
(* are written, and the fields in the order they are read, each list with the *)
(* size per element that readPrefix holds against the bytes left.             *)
(*                                                                            *)
(* A buffer is a sequence of chunks: a field of w bytes, what they say, and,  *)
(* for a length prefix, its number.  The contents of a field are its path, so *)
(* that two fields never hold the same.                                       *)
EXTENDS Naturals, Sequences, SequencesExt, FiniteSetsExt, TLC, Steps

CONSTANT WordBytes      \* bytes of a big.Word: 8 or 4, by the build

HashSize == 32          \* crypto.HashSize
SpecifierSize == 16
MinMessageSize == 4096
NonceSize == 12         \* chacha20poly1305
Overhead == 16          \* its tag

(* A number that is not a length, in a place where a length is read.          *)
NoLength == 2147483647

Chunk(w, v, n) == [w |-> w, v |-> v, n |-> n]
Prefix(n) == Chunk(8, <<"length">>, n)
Zero(w) == Chunk(w, <<>>, 0)
Garbage(w) == Chunk(w, <<"garbage">>, NoLength)

(******************************* field kinds *********************************)
Num(name) == [kind |-> "num", name |-> name]                  \* writeUint64
Flag(name) == [kind |-> "flag", name |-> name]                \* writeBool
Fixed(name, w) == [kind |-> "fixed", name |-> name, w |-> w]  \* write(x[:])
Bytes(name) == [kind |-> "bytes", name |-> name]              \* writePrefixedBytes
Coins(name) == [kind |-> "coins", name |-> name]              \* objCurrency
One(name, type) == [kind |-> "one", name |-> name, type |-> type]
List(name, elem) == [kind |-> "list", name |-> name, elem |-> elem]
ListOf(name, elem, size) ==
  [kind |-> "list", name |-> name, elem |-> elem, size |-> size]

(* marshalledSize of the zero value of a type: what the sizeof variables hold.*)
RECURSIVE SizeOf(_)
SizeOf(type) ==
  type.fixed + Sum(LAMBDA f: CASE f.kind = "one" -> SizeOf(f.type)
                               [] f.kind = "coins" -> 8
                               [] OTHER -> 0, type.put)

sizeofCurrency == 8

(*************************** transactions' objects ***************************)
objSiaPublicKey ==
  [ fixed |-> SpecifierSize + 8,
    put |-> <<Fixed("Algorithm", SpecifierSize), Bytes("Key")>>,
    get |-> <<Fixed("Algorithm", SpecifierSize), Bytes("Key")>> ]

coveredLists == <<"SiacoinInputs", "SiacoinOutputs", "FileContracts",
  "FileContractRevisions", "StorageProofs", "SiafundInputs", "SiafundOutputs",
  "MinerFees", "ArbitraryData", "TransactionSignatures">>

objCoveredFields ==
  [ fixed |-> 1 + 8 * Len(coveredLists),
    put |-> <<Flag("WholeTransaction")>>
            \o [i \in DOMAIN coveredLists |-> List(coveredLists[i], Num("u"))],
    get |-> <<Flag("WholeTransaction")>>
            \o [i \in DOMAIN coveredLists |-> ListOf(coveredLists[i], Num("u"), 8)] ]

objTransactionSignature ==
  [ fixed |-> HashSize + 8 + 8 + 8,
    put |-> <<Fixed("ParentID", HashSize), Num("PublicKeyIndex"), Num("Timelock"),
              One("CoveredFields", objCoveredFields), Bytes("Signature")>>,
    get |-> <<Fixed("ParentID", HashSize), Num("PublicKeyIndex"), Num("Timelock"),
              One("CoveredFields", objCoveredFields), Bytes("Signature")>> ]

objUnlockConditions ==
  [ fixed |-> 8 + 8 + 8,
    put |-> <<Num("Timelock"), List("PublicKeys", One("key", objSiaPublicKey)),
              Num("SignaturesRequired")>>,
    get |-> <<Num("Timelock"),
              ListOf("PublicKeys", One("key", objSiaPublicKey), SizeOf(objSiaPublicKey)),
              Num("SignaturesRequired")>> ]

objSiacoinInput ==
  [ fixed |-> HashSize,
    put |-> <<Fixed("ParentID", HashSize), One("UnlockConditions", objUnlockConditions)>>,
    get |-> <<Fixed("ParentID", HashSize), One("UnlockConditions", objUnlockConditions)>> ]

objSiacoinOutput ==
  [ fixed |-> HashSize,
    put |-> <<Coins("Value"), Fixed("UnlockHash", HashSize)>>,
    get |-> <<Coins("Value"), Fixed("UnlockHash", HashSize)>> ]

objSiafundInput ==
  [ fixed |-> HashSize + HashSize,
    put |-> <<Fixed("ParentID", HashSize), One("UnlockConditions", objUnlockConditions),
              Fixed("ClaimUnlockHash", HashSize)>>,
    get |-> <<Fixed("ParentID", HashSize), One("UnlockConditions", objUnlockConditions),
              Fixed("ClaimUnlockHash", HashSize)>> ]

objSiafundOutput ==
  [ fixed |-> HashSize,
    put |-> <<Coins("Value"), Fixed("UnlockHash", HashSize), Coins("ClaimStart")>>,
    get |-> <<Coins("Value"), Fixed("UnlockHash", HashSize), Coins("ClaimStart")>> ]

Outputs(name) == List(name, One("output", objSiacoinOutput))
OutputsOf(name) == ListOf(name, One("output", objSiacoinOutput), SizeOf(objSiacoinOutput))

objFileContract ==
  [ fixed |-> 8 + HashSize + 8 + 8 + 8 + 8 + HashSize + 8,
    put |-> <<Num("FileSize"), Fixed("FileMerkleRoot", HashSize), Num("WindowStart"),
              Num("WindowEnd"), Coins("Payout"), Outputs("ValidProofOutputs"),
              Outputs("MissedProofOutputs"), Fixed("UnlockHash", HashSize),
              Num("RevisionNumber")>>,
    get |-> <<Num("FileSize"), Fixed("FileMerkleRoot", HashSize), Num("WindowStart"),
              Num("WindowEnd"), Coins("Payout"), OutputsOf("ValidProofOutputs"),
              OutputsOf("MissedProofOutputs"), Fixed("UnlockHash", HashSize),
              Num("RevisionNumber")>> ]

objFileContractRevision ==
  [ fixed |-> HashSize + 8 + 8 + HashSize + 8 + 8 + 8 + 8 + HashSize,
    put |-> <<Fixed("ParentID", HashSize), One("UnlockConditions", objUnlockConditions),
              Num("NewRevisionNumber"), Num("NewFileSize"),
              Fixed("NewFileMerkleRoot", HashSize), Num("NewWindowStart"),
              Num("NewWindowEnd"), Outputs("NewValidProofOutputs"),
              Outputs("NewMissedProofOutputs"), Fixed("NewUnlockHash", HashSize)>>,
    get |-> <<Fixed("ParentID", HashSize), One("UnlockConditions", objUnlockConditions),
              Num("NewRevisionNumber"), Num("NewFileSize"),
              Fixed("NewFileMerkleRoot", HashSize), Num("NewWindowStart"),
              Num("NewWindowEnd"), OutputsOf("NewValidProofOutputs"),
              OutputsOf("NewMissedProofOutputs"), Fixed("NewUnlockHash", HashSize)>> ]

Hashes(name) == List(name, Fixed("hash", HashSize))
HashesOf(name) == ListOf(name, Fixed("hash", HashSize), HashSize)

SegmentSize == 64

objStorageProof ==
  [ fixed |-> HashSize + SegmentSize + 8,
    put |-> <<Fixed("ParentID", HashSize), Fixed("Segment", SegmentSize), Hashes("HashSet")>>,
    get |-> <<Fixed("ParentID", HashSize), Fixed("Segment", SegmentSize), HashesOf("HashSet")>> ]

objTransaction ==
  [ fixed |-> 8 * 10,
    put |-> <<List("SiacoinInputs", One("x", objSiacoinInput)), Outputs("SiacoinOutputs"),
              List("FileContracts", One("x", objFileContract)),
              List("FileContractRevisions", One("x", objFileContractRevision)),
              List("StorageProofs", One("x", objStorageProof)),
              List("SiafundInputs", One("x", objSiafundInput)),
              List("SiafundOutputs", One("x", objSiafundOutput)),
              List("MinerFees", Coins("fee")), List("ArbitraryData", Bytes("data")),
              List("TransactionSignatures", One("x", objTransactionSignature))>>,
    get |-> <<ListOf("SiacoinInputs", One("x", objSiacoinInput), SizeOf(objSiacoinInput)),
              OutputsOf("SiacoinOutputs"),
              ListOf("FileContracts", One("x", objFileContract), SizeOf(objFileContract)),
              ListOf("FileContractRevisions", One("x", objFileContractRevision),
                     SizeOf(objFileContractRevision)),
              ListOf("StorageProofs", One("x", objStorageProof), SizeOf(objStorageProof)),
              ListOf("SiafundInputs", One("x", objSiafundInput), SizeOf(objSiafundInput)),
              ListOf("SiafundOutputs", One("x", objSiafundOutput), SizeOf(objSiafundOutput)),
              ListOf("MinerFees", Coins("fee"), sizeofCurrency),
              ListOf("ArbitraryData", Bytes("data"), 1),
              ListOf("TransactionSignatures", One("x", objTransactionSignature),
                     SizeOf(objTransactionSignature))>> ]

(***************************** RPC objects ***********************************)
Specifier ==
  [ fixed |-> SpecifierSize,
    put |-> <<Fixed("s", SpecifierSize)>>,
    get |-> <<Fixed("s", SpecifierSize)>> ]

RPCError ==
  [ fixed |-> SpecifierSize + 8 + 8,
    put |-> <<Fixed("Type", SpecifierSize), Bytes("Data"), Bytes("Description")>>,
    get |-> <<Fixed("Type", SpecifierSize), Bytes("Data"), Bytes("Description")>> ]

Txns(name) == List(name, One("txn", objTransaction))
TxnsOf(name) == ListOf(name, One("txn", objTransaction), SizeOf(objTransaction))
Sigs(name) == List(name, One("sig", objTransactionSignature))
SigsOf(name) == ListOf(name, One("sig", objTransactionSignature), SizeOf(objTransactionSignature))
ProofValues(name) == List(name, Coins("value"))
ProofValuesOf(name) == ListOf(name, Coins("value"), sizeofCurrency)

RPCFormContractRequest ==
  [ fixed |-> 8,
    put |-> <<Txns("Transactions"), One("RenterKey", objSiaPublicKey)>>,
    get |-> <<TxnsOf("Transactions"), One("RenterKey", objSiaPublicKey)>> ]

RPCFormContractAdditions ==
  [ fixed |-> 8 + 8 + 8,
    put |-> <<Txns("Parents"), List("Inputs", One("x", objSiacoinInput)), Outputs("Outputs")>>,
    get |-> <<TxnsOf("Parents"),
              ListOf("Inputs", One("x", objSiacoinInput), SizeOf(objSiacoinInput)),
              OutputsOf("Outputs")>> ]

RPCFormContractSignatures ==
  [ fixed |-> 8,
    put |-> <<Sigs("ContractSignatures"), One("RevisionSignature", objTransactionSignature)>>,
    get |-> <<SigsOf("ContractSignatures"), One("RevisionSignature", objTransactionSignature)>> ]

RPCRenewAndClearContractRequest ==
  [ fixed |-> 24,
    put |-> <<Txns("Transactions"), One("RenterKey", objSiaPublicKey),
              ProofValues("FinalValidProofValues"), ProofValues("FinalMissedProofValues")>>,
    get |-> <<TxnsOf("Transactions"), One("RenterKey", objSiaPublicKey),
              ProofValuesOf("FinalValidProofValues"), ProofValuesOf("FinalMissedProofValues")>> ]

RPCRenewAndClearContractSignatures ==
  [ fixed |-> 16,
    put |-> <<Sigs("ContractSignatures"), One("RevisionSignature", objTransactionSignature),
              Bytes("FinalRevisionSignature")>>,
    get |-> <<SigsOf("ContractSignatures"), One("RevisionSignature", objTransactionSignature),
              Bytes("FinalRevisionSignature")>> ]

RPCLockRequest ==
  [ fixed |-> HashSize + 8 + 8,
    put |-> <<Fixed("ContractID", HashSize), Bytes("Signature"), Num("Timeout")>>,
    get |-> <<Fixed("ContractID", HashSize), Bytes("Signature"), Num("Timeout")>> ]

RPCLockResponse ==
  [ fixed |-> 1 + SpecifierSize + 8,
    put |-> <<Flag("Acquired"), Fixed("NewChallenge", SpecifierSize),
              One("Revision", objFileContractRevision), Sigs("Signatures")>>,
    get |-> <<Flag("Acquired"), Fixed("NewChallenge", SpecifierSize),
              One("Revision", objFileContractRevision), SigsOf("Signatures")>> ]

section == LET fs == <<Fixed("MerkleRoot", HashSize), Num("Offset"), Num("Length")>>
           IN  [fixed |-> HashSize + 8 + 8, put |-> fs, get |-> fs]

RPCReadRequest ==
  [ fixed |-> 8 + 1 + 8 + 8 + 8 + 8,
    put |-> <<List("Sections", One("section", section)), Flag("MerkleProof"),
              Num("NewRevisionNumber"), ProofValues("NewValidProofValues"),
              ProofValues("NewMissedProofValues"), Bytes("Signature")>>,
    get |-> <<ListOf("Sections", One("section", section), HashSize + 8 + 8),
              Flag("MerkleProof"), Num("NewRevisionNumber"),
              ProofValuesOf("NewValidProofValues"), ProofValuesOf("NewMissedProofValues"),
              Bytes("Signature")>> ]

RPCReadResponse ==
  [ fixed |-> 8 + 8 + 8,
    put |-> <<Bytes("Signature"), Bytes("Data"), Hashes("MerkleProof")>>,
    get |-> <<Bytes("Signature"), Bytes("Data"), HashesOf("MerkleProof")>> ]

RPCSectorRootsRequest ==
  [ fixed |-> 8 + 8 + 8 + 8 + 8 + 8,
    put |-> <<Num("RootOffset"), Num("NumRoots"), Num("NewRevisionNumber"),
              ProofValues("NewValidProofValues"), ProofValues("NewMissedProofValues"),
              Bytes("Signature")>>,
    get |-> <<Num("RootOffset"), Num("NumRoots"), Num("NewRevisionNumber"),
              ProofValuesOf("NewValidProofValues"), ProofValuesOf("NewMissedProofValues"),
              Bytes("Signature")>> ]

RPCSectorRootsResponse ==
  [ fixed |-> 8 + 8 + 8,
    put |-> <<Bytes("Signature"), Hashes("SectorRoots"), Hashes("MerkleProof")>>,
    get |-> <<Bytes("Signature"), HashesOf("SectorRoots"), HashesOf("MerkleProof")>> ]

RPCSettingsResponse ==
  [ fixed |-> 8,
    put |-> <<Bytes("Settings")>>,
    get |-> <<Bytes("Settings")>> ]

writeAction ==
  LET fs == <<Fixed("Type", SpecifierSize), Num("A"), Num("B"), Bytes("Data")>>
  IN  [fixed |-> 8 + 8 + 8 + SpecifierSize, put |-> fs, get |-> fs]

RPCWriteRequest ==
  [ fixed |-> 8 + 1 + 8 + 8 + 8,
    put |-> <<List("Actions", One("action", writeAction)), Flag("MerkleProof"),
              Num("NewRevisionNumber"), ProofValues("NewValidProofValues"),
              ProofValues("NewMissedProofValues")>>,
    get |-> <<ListOf("Actions", One("action", writeAction), 16 + 8 + 8 + 8),
              Flag("MerkleProof"), Num("NewRevisionNumber"),
              ProofValuesOf("NewValidProofValues"), ProofValuesOf("NewMissedProofValues")>> ]

RPCWriteMerkleProof ==
  [ fixed |-> 8 + 8 + HashSize,
    put |-> <<Hashes("OldSubtreeHashes"), Hashes("OldLeafHashes"),
              Fixed("NewMerkleRoot", HashSize)>>,
    get |-> <<HashesOf("OldSubtreeHashes"), HashesOf("OldLeafHashes"),
              Fixed("NewMerkleRoot", HashSize)>> ]

RPCWriteResponse ==
  [ fixed |-> 8,
    put |-> <<Bytes("Signature")>>,
    get |-> <<Bytes("Signature")>> ]

(******************************* currencies **********************************)
(* A currency is the words of a big.Int: bytes, the least significant first,  *)
(* in whole words, the last of which is not zero.                             *)
Top(c) == Max({0} \union {i \in DOMAIN c: c[i] # "0"})

(* Mutant: every zero byte is taken for a leading one.                        *)
currencySizeSparse(c) == 8 + Cardinality({i \in DOMAIN c: c[i] # "0"})

currencySize(c) ==
  8 + Len(c) - Cardinality({i \in DOMAIN c: \A j \in i .. Len(c): c[j] = "0"})

putCurrency(c) ==
  <<Prefix(Top(c))>>
  \o IF Top(c) = 0 THEN <<>> ELSE <<Chunk(Top(c), Reverse(SubSeq(c, 1, Top(c))), NoLength)>>

(* big.Int.SetBytes: as many words as the bytes need.                         *)
SetBytes(v) ==
  LET words == (Len(v) + WordBytes - 1) \div WordBytes
  IN  Reverse(v) \o [i \in 1 .. words * WordBytes - Len(v) |-> "0"]

(******************************** writing ************************************)
RECURSIVE marshalledSize(_, _)
marshalledSize(type, x) ==
  LET ElemSize(f, v) == CASE f.kind = "num" -> 8
                          [] f.kind = "fixed" -> f.w
                          [] f.kind = "bytes" -> 8 + v.w
                          [] f.kind = "coins" -> currencySize(v)
                          [] f.kind = "one" -> marshalledSize(f.type, v)
      FieldSize(f) == LET v == x[f.name] IN
                      CASE f.kind = "bytes" -> v.w
                        [] f.kind \in {"coins", "one"} -> ElemSize(f, v)
                        [] f.kind = "list" -> Sum(LAMBDA e: ElemSize(f.elem, e), v)
                        [] OTHER -> 0
  IN  type.fixed + Sum(FieldSize, type.put)

writePrefixedBytes(v) == <<Prefix(v.w)>> \o IF v.w = 0 THEN <<>> ELSE <<v>>

RECURSIVE marshalBuffer(_, _)
marshalBuffer(type, x) ==
  LET Put(f, v) == CASE f.kind \in {"num", "fixed", "flag"} -> <<v>>
                     [] f.kind = "bytes" -> writePrefixedBytes(v)
                     [] f.kind = "coins" -> putCurrency(v)
                     [] f.kind = "one" -> marshalBuffer(f.type, v)
      PutField(f) == IF f.kind = "list"
                     THEN <<Prefix(Len(x[f.name]))>>
                          \o Concat(LAMBDA e: Put(f.elem, e), x[f.name])
                     ELSE Put(f, x[f.name])
  IN  Concat(PutField, type.put)

(******************************** reading ************************************)
(* A buffer that is read: its chunks, the bytes left in it, its sticky error. *)
Buffer(chunks, left) == [chunks |-> chunks, left |-> left, err |-> FALSE]
Got(val, buf) == [val |-> val, buf |-> buf]

Fail(b) == [chunks |-> <<>>, left |-> 0, err |-> TRUE]

(* objBuffer.read.  A read that does not fall on what was written as one      *)
(* field, or falls on padding, returns garbage.                               *)
read(b, w) ==
  CASE b.err -> Got(Zero(w), b)
    [] ~b.err /\ w > b.left -> Got(Zero(w), Fail(b))
    [] ~b.err /\ w = 0 -> Got(Zero(0), b)
    [] OTHER -> IF b.chunks # <<>> /\ Head(b.chunks).w = w
                THEN Got(Head(b.chunks), [b EXCEPT !.chunks = Tail(@), !.left = @ - w])
                ELSE Got(Garbage(w), [b EXCEPT !.chunks = <<>>, !.left = @ - w])

readUint64(b) == read(b, 8)

readBool(b) ==
  LET r == read(b, 1)
  IN  IF ~r.buf.err /\ r.val.v \notin {<<"true">>, <<"false">>}
      THEN Got(Zero(1), Fail(b)) ELSE r

readPrefix(b, elemSize) ==
  LET r == readUint64(b)
  IN  IF r.val.n > r.buf.left \div elemSize THEN Got(0, Fail(b)) ELSE Got(r.val.n, r.buf)

readPrefixedBytes(b) ==
  LET n == readPrefix(b, 1) IN read(n.buf, n.val)

(* One more element of a list that is read.                                   *)
Gather(acc, next) == Given(next, LAMBDA r: Got(Append(acc.val, r.val), r.buf))

RECURSIVE unmarshalBuffer(_, _)
unmarshalBuffer(type, buf) ==
  LET Get(f, b) == CASE f.kind = "num" -> readUint64(b)
                     [] f.kind = "fixed" -> read(b, f.w)
                     [] f.kind = "flag" -> readBool(b)
                     [] f.kind = "bytes" -> readPrefixedBytes(b)
                     [] f.kind = "coins" -> LET r == readPrefixedBytes(b)
                                            IN  Got(SetBytes(r.val.v), r.buf)
                     [] f.kind = "one" -> unmarshalBuffer(f.type, b)
      GetList(f, b) == LET n == readPrefix(b, f.size)
                       IN  Steps(LAMBDA acc, i: Gather(acc, Get(f.elem, acc.buf)),
                                 Got(<<>>, n.buf), Upto(n.val))
      GetField(f, b) == IF f.kind = "list" THEN GetList(f, b) ELSE Get(f, b)
      Assign(acc, f) == Given(GetField(f, acc.buf),
                              LAMBDA r: Got(acc.val @@ (f.name :> r.val), r.buf))
  IN  Steps(Assign, Got(<<>>, buf), type.get)

(********************************* frames ************************************)
Larger(a, b) == IF a > b THEN a ELSE b

(* The chunks that begin and end in the first n bytes.                        *)
Within(chunks, n) ==
  IF Sum(LAMBDA c: c.w, chunks) <= n THEN chunks
  ELSE Steps(LAMBDA acc, c: IF acc.left < c.w THEN [acc EXCEPT !.left = 0]
                            ELSE [chunks |-> Append(acc.chunks, c), left |-> acc.left - c.w],
             [chunks |-> <<>>, left |-> n], chunks).chunks

(* The frame has the size that marshalledSize promised: what is written past  *)
(* it is overwritten by the tag and cut off; what is missing is padding.      *)
Frame(size, chunks) ==
  LET msgSize == Larger(MinMessageSize, 8 + NonceSize + size + Overhead)
  IN  [size |-> msgSize - 8, body |-> Within(chunks, msgSize - 8 - NonceSize - Overhead)]

writeMessage(type, x) == Frame(marshalledSize(type, x), marshalBuffer(type, x))

(* The tag is not removed from the buffer that is unmarshalled.               *)
Open(frame, maxLen) ==
  IF frame.size > Larger(maxLen, MinMessageSize) \/ frame.size < NonceSize + Overhead
  THEN Fail(Buffer(<<>>, 0))
  ELSE Buffer(frame.body, frame.size - NonceSize)

readMessage(frame, type, maxLen) == unmarshalBuffer(type, Open(frame, maxLen))

(* rpcResponse: a flag, then the error or the data.                           *)
BoolChunk(p) == Chunk(1, IF p THEN <<"true">> ELSE <<"false">>, NoLength)

writeResponse(isErr, type, x) ==
  Frame(1 + marshalledSize(type, x), <<BoolChunk(isErr)>> \o marshalBuffer(type, x))

readResponse(frame, type, maxLen) ==
  LET r == readBool(Open(frame, maxLen))
  IN  unmarshalBuffer(IF r.val = BoolChunk(TRUE) THEN RPCError ELSE type, r.buf)

(* RawResponse, as Session.Read uses it: the message is not opened but read   *)
(* field by field, only as far as the proof, and its tag is verified at the   *)
(* end over the ciphertext, the padding of the last block and the lengths.    *)
tailSize(clen) == 32 - (clen % 16)

VerifyTag(clen) == tailSize(clen) = ((16 - (clen % 16)) % 16) + 16

RawResponse(frame, maxLen) ==
  readBool(IF frame.size > Larger(maxLen, MinMessageSize) \/ frame.size < NonceSize + Overhead
           THEN Fail(Buffer(<<>>, 0)) ELSE Buffer(frame.body, frame.size - NonceSize - Overhead))

readSection(frame, length, proofLen) ==
  LET clen == frame.size - NonceSize - Overhead
      bit == RawResponse(frame, 4096 + length)
      sigLen == readUint64(bit.buf)
      sig == read(sigLen.buf, sigLen.val.n)
      dataLen == readUint64(sig.buf)
      data == read(dataLen.buf, length)
      hashes == readUint64(data.buf)
      proof == Steps(LAMBDA acc, i: Gather(acc, read(acc.buf, HashSize)),
                     Got(<<>>, hashes.buf), Upto(proofLen))
      e == unmarshalBuffer(RPCError, bit.buf)
      refused == bit.val = BoolChunk(TRUE)
  IN  IF refused THEN Got([err |-> e.val], IF VerifyTag(clen) THEN e.buf ELSE Fail(e.buf))
      ELSE Got([Signature |-> sig.val, Data |-> data.val, MerkleProof |-> proof.val],
               IF /\ dataLen.val.n = length
                  /\ hashes.val.n = proofLen
                  /\ VerifyTag(clen)
               THEN proof.buf ELSE Fail(proof.buf))

(* The handshake is not encrypted and has no frame: the request is as long as *)
(* its ciphers make it, the response is read with a signature of 64 bytes.    *)
writeExchange(ciphers) ==
  <<Chunk(16, <<"loopEnter">>, NoLength), Chunk(32, <<"PublicKey">>, NoLength),
    Prefix(Len(ciphers))>> \o ciphers

readExchange(chunks) ==
  LET size == Sum(LAMBDA c: c.w, chunks)
      id == read(Buffer(chunks, size), 16)
      key == read(id.buf, 32)
      count == readUint64(key.buf)
  IN  IF \/ size < 56
         \/ id.val.v # <<"loopEnter">>
         \/ count.val.n > 16
         \/ 56 + count.val.n * SpecifierSize > size
      THEN Got(<<>>, Fail(count.buf))
      ELSE Steps(LAMBDA acc, i: Gather(acc, read(acc.buf, SpecifierSize)),
                 Got(<<>>, count.buf), Upto(count.val.n))

writeKey(sig, cipher) ==
  <<Chunk(32, <<"PublicKey">>, NoLength), Prefix(sig.w)>>
  \o (IF sig.w = 0 THEN <<>> ELSE <<sig>>) \o <<cipher>>

readKey(chunks) ==
  LET key == read(Buffer(chunks, Sum(LAMBDA c: c.w, chunks)), 32)
      sigLen == readUint64(key.buf)
      sig == read(sigLen.buf, 64)
      cipher == read(sig.buf, SpecifierSize)
  IN  Got(<<sig.val, cipher.val>>,
          IF sigLen.val.n = 64 THEN cipher.buf ELSE Fail(cipher.buf))

(***************************** sample objects ********************************)
(* An object of a type: every list has s.count elements, every byte string    *)
(* s.len bytes, every currency is s.coins and every flag s.flag; the contents *)
(* of a field are its path.                                                   *)
Digits == <<"1", "2", "3">>

RECURSIVE Object(_, _, _)
Object(type, s, path) ==
  LET Val(f, p) == CASE f.kind = "num" -> Chunk(8, p, NoLength)
                     [] f.kind = "fixed" -> Chunk(f.w, p, NoLength)
                     [] f.kind = "flag" -> BoolChunk(s.flag)
                     [] f.kind = "bytes" -> IF s.len = 0 THEN Zero(0) ELSE Chunk(s.len, p, NoLength)
                     [] f.kind = "coins" -> s.coins
                     [] f.kind = "one" -> Object(f.type, s, p)
      FieldVal(f) == IF f.kind = "list"
                     THEN [i \in 1 .. s.count |-> Val(f.elem, path \o <<f.name, Digits[i]>>)]
                     ELSE Val(f, Append(path, f.name))
      names == {type.put[i].name: i \in DOMAIN type.put}
  IN  [name \in names |-> FieldVal(type.put[CHOOSE i \in DOMAIN type.put: type.put[i].name = name])]
=============================================================================
