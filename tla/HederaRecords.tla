---------------------------- MODULE HederaRecords ----------------------------
(***************************************************************************)
(* The Hedera proofs of a service request: the recordings that intake, the *)
(* worker and the demo route make on the HCS topic and in NFT collections, *)
(* and the columns of the row they end up in.  Composed with Fulfilment:   *)
(* the worker starts its two recordings when it commits and does not wait  *)
(* for them, so they race with each other, with intake's, with the demo    *)
(* routes (app/api/demo), with POST /api/hedera/run-proof, which shares    *)
(* topic and collection, and with the end of the worker's process.         *)
(*                                                                         *)
(* Recordings follow lib/hedera/HederaService.ts (recordOnHedera: message  *)
(* and receipt NFT side by side) and mintAndTransferProofNFT.ts.           *)
(***************************************************************************)
EXTENDS Fulfilment, Sequences

CONSTANTS
    Recordings,  \* bound on recordings under way
    Fulfils,     \* calls of POST /api/demo/fulfill
    Skips,       \* calls of POST /api/demo/skip-payment
    Bounties,    \* calls of POST /api/hedera/run-proof
    MaxDemoCalls, \* bound on the calls of these three that are let through
    Server       \* the web server's process, which runs intake and the routes

ASSUME RecordsAssumption ==
    /\ Server \notin Workers
    /\ MaxDemoCalls \in Nat
    /\ Bounties \cap (Fulfils \cup Skips) = {}

VARIABLES
    collectionSet, \* HEDERA_NFT_TOKEN_ID is set; its collection is number 1
    topic,         \* the HCS topic: the request of each message
    collections,   \* the NFT collections: per serial, the request and the holder
    rec,           \* the recordings under way
    proof,         \* hcsSequenceNumber, htsTokenId, htsSerialNumber, htsNftSerial of the row
    called,        \* demo calls that were let through
    skipping       \* per call of skip-payment, the row it has found STAGED

recordVars == <<collectionSet, topic, collections, rec, proof>>
demoVars == <<called, skipping>>
allVars == <<vars, recordVars, demoVars>>

Null == 0       \* a column or a result that is null
Pending == -1   \* a result still awaited

Idle == [kind |-> "idle", req |-> NoReq, by |-> Server, hcs |-> Null,
         token |-> Null, serial |-> Null, moved |-> FALSE]

\* A recording of r as it starts, in process p.  Those of the kinds "anchor"
\* (intake) and "record" (worker) run recordOnHedera, "nft" (worker) runs
\* mintAndTransferProofNFT, "demo" and "bounty" submit a message and then do
\* that too.
Started(k, r, p) ==
    [Idle EXCEPT !.kind = k, !.req = r, !.by = p, !.serial = Pending,
                 !.hcs = IF k = "nft" THEN Null ELSE Pending]

Recording == [kind : {"idle", "anchor", "record", "nft", "demo", "bounty"},
              req : Requests \cup {NoReq}, by : Workers \cup {Server},
              hcs : Int, token : Nat, serial : Int, moved : BOOLEAN]

\* The NFT is one of r's and held by one of holders.
IsNFTOf(r, token, serial, holders) ==
    /\ token \in DOMAIN collections
    /\ serial \in DOMAIN collections[token]
    /\ collections[token][serial].req = r
    /\ collections[token][serial].holder \in holders

RecordsTypeOK ==
    /\ TypeOK
    /\ collectionSet \in BOOLEAN
    /\ topic \in Seq(Requests \cup {NoReq})
    /\ collections \in Seq(Seq([req : Requests \cup {NoReq}, holder : {"operator", "defendant"}]))
    /\ rec \in [Recordings -> Recording]
    /\ proof \in [Requests -> [seq : Nat, token : Nat, serial : Nat, nftSerial : Nat]]
    /\ called \subseteq Fulfils \cup Skips \cup Bounties
    /\ skipping \in [Skips -> Requests \cup {NoReq}]

RecordsInit ==
    /\ Init
    /\ collectionSet \in BOOLEAN
    /\ topic = <<>>
    /\ collections = << <<>> >>
    /\ rec = [i \in Recordings |-> Idle]
    /\ proof = [r \in Requests |-> [seq |-> Null, token |-> Null, serial |-> Null, nftSerial |-> Null]]
    /\ called = {}
    /\ skipping = [h \in Skips |-> NoReq]

-----------------------------------------------------------------------------
(* Steps of a recording.                                                   *)

\* The recording is over; nothing of it is kept.
End(i) == rec' = [rec EXCEPT ![i] = Idle]

\* submitToHCS: the message got its sequence number.
SubmitToHCS(i) ==
    /\ rec[i].hcs = Pending
    /\ topic' = Append(topic, rec[i].req)
    /\ rec' = [rec EXCEPT ![i].hcs = Len(topic')]
    /\ UNCHANGED <<collectionSet, collections, proof>>

\* Mutant of SubmitToHCSFails: the message is best-effort for the demo too.
SubmitToHCSOptional(i) ==
    /\ rec[i].hcs = Pending
    /\ rec' = [rec EXCEPT ![i].hcs = Null, ![i].serial = IF rec[i].kind = "demo" THEN Null ELSE @]
    /\ UNCHANGED <<collectionSet, topic, collections, proof>>

\* It returned null: not configured, or an error (a message that was accepted
\* all the same is one that no row names).  The demo route and run-proof answer
\* 502 and go no further.
SubmitToHCSFails(i) ==
    /\ rec[i].hcs = Pending
    /\ IF rec[i].kind \in {"demo", "bounty"} THEN End(i) ELSE rec' = [rec EXCEPT ![i].hcs = Null]
    /\ UNCHANGED <<collectionSet, topic, collections, proof>>

\* mintProofNFT, next to submitToHCS, in the configured collection.
MintProofNFT(i) ==
    /\ rec[i].kind \in {"anchor", "record"} /\ rec[i].serial = Pending
    /\ collectionSet
    /\ collections' = [collections EXCEPT ![1] = Append(@, [req |-> rec[i].req, holder |-> "operator"])]
    /\ rec' = [rec EXCEPT ![i].token = 1, ![i].serial = Len(collections'[1])]
    /\ UNCHANGED <<collectionSet, topic, proof>>

MintProofNFTFails(i) ==
    /\ rec[i].kind \in {"anchor", "record"} /\ rec[i].serial = Pending
    /\ rec' = [rec EXCEPT ![i].serial = Null]
    /\ UNCHANGED <<collectionSet, topic, collections, proof>>

\* mintAndTransferProofNFT is running: the demo route and run-proof call it
\* after their message, with the sequence number.
Transferring(i) ==
    \/ rec[i].kind = "nft"
    \/ rec[i].kind \in {"demo", "bounty"} /\ rec[i].hcs > Null /\ rec[i].serial # Null

\* Mutant of MintForTransfer: every call makes a collection of its own.
MintInNewCollection(i) ==
    LET token == Len(collections) + 1
        minted == [req |-> rec[i].req, holder |-> "operator"]
    IN  /\ Transferring(i) /\ rec[i].serial = Pending
        /\ collections' = Append(collections, <<minted>>)
        /\ rec' = [rec EXCEPT ![i].token = token, ![i].serial = 1]
        /\ UNCHANGED <<collectionSet, topic, proof>>

\* (1), (2) One NFT is minted in the configured collection, or in one created
\* for this call (nobody else learns of it before).
MintForTransfer(i) ==
    LET token == IF collectionSet THEN 1 ELSE Len(collections) + 1
        minted == [req |-> rec[i].req, holder |-> "operator"]
    IN  /\ Transferring(i) /\ rec[i].serial = Pending
        /\ collections' = IF collectionSet
                          THEN [collections EXCEPT ![1] = Append(@, minted)]
                          ELSE Append(collections, <<minted>>)
        /\ rec' = [rec EXCEPT ![i].token = token, ![i].serial = Len(collections'[token])]
        /\ UNCHANGED <<collectionSet, topic, proof>>

\* (3), (4) The defendant's account, configured or created, receives it.
TransferNFT(i) ==
    LET token == rec[i].token
        serial == rec[i].serial
    IN  /\ Transferring(i) /\ serial > Null /\ ~rec[i].moved
        /\ collections' = [collections EXCEPT ![token][serial].holder = "defendant"]
        /\ rec' = [rec EXCEPT ![i].moved = TRUE]
        /\ UNCHANGED <<collectionSet, topic, proof>>

\* A step of it throws (missing credentials, the mainnet guard, the network);
\* an NFT already minted stays with the operator.  The worker logs the error,
\* the two routes go on without an NFT.
TransferThrows(i) ==
    /\ Transferring(i) /\ ~rec[i].moved
    /\ IF rec[i].kind = "nft"
       THEN End(i)
       ELSE rec' = [rec EXCEPT ![i].token = Null, ![i].serial = Null]
    /\ UNCHANGED <<collectionSet, topic, collections, proof>>

\* Every call of the recording has returned.
Settled(i) ==
    /\ rec[i].hcs # Pending /\ rec[i].serial # Pending
    /\ rec[i].kind \in {"nft", "demo", "bounty"} => rec[i].moved \/ rec[i].serial = Null

\* Mutant of Columns: the transfer's update leaves the token to the receipt's.
ColumnsWithoutToken(p, x) ==
    [seq |-> IF x.hcs # Null THEN x.hcs ELSE p.seq,
     token |-> IF x.serial # Null /\ x.kind # "nft" THEN x.token ELSE p.token,
     serial |-> IF x.serial # Null /\ x.kind # "nft" THEN x.serial ELSE p.serial,
     nftSerial |-> IF x.moved THEN x.serial ELSE p.nftSerial]

\* The columns the final update sets, by kind; the others keep their values.
Columns(p, x) ==
    [seq |-> IF x.hcs # Null THEN x.hcs ELSE p.seq,
     token |-> IF x.serial # Null THEN x.token ELSE p.token,
     serial |-> IF x.serial # Null /\ x.kind # "nft" THEN x.serial ELSE p.serial,
     nftSerial |-> IF x.moved THEN x.serial ELSE p.nftSerial]

\* The update by id.  The demo route's also makes the row CONFIRMED.
WriteProof(i) ==
    LET x == rec[i]
    IN  /\ x.kind \notin {"idle", "bounty"} /\ Settled(i)
        /\ proof' = [proof EXCEPT ![x.req] = Columns(@, x)]
        /\ status' = IF x.kind = "demo" THEN [status EXCEPT ![x.req] = "CONFIRMED"] ELSE status
        /\ End(i)
        /\ UNCHANGED <<createdAt, txSignature, slot, usageCount, audits, workerVars,
                       chainVars, intake, collectionSet, topic, collections, demoVars>>

\* The update throws: logged, or a 500 of the demo route.
WriteProofFails(i) ==
    /\ rec[i].kind \notin {"idle", "bounty"} /\ Settled(i)
    /\ End(i)
    /\ UNCHANGED <<collectionSet, topic, collections, proof>>

\* run-proof answers with the ids it got; no row learns of them.
AnswerRunProof(i) ==
    /\ rec[i].kind = "bounty" /\ Settled(i)
    /\ End(i)
    /\ UNCHANGED <<collectionSet, topic, collections, proof>>

HederaStep(i) ==
    /\ \/ SubmitToHCS(i) \/ SubmitToHCSFails(i) \/ MintProofNFT(i) \/ MintProofNFTFails(i)
       \/ MintForTransfer(i) \/ TransferNFT(i) \/ TransferThrows(i)
       \/ WriteProofFails(i) \/ AnswerRunProof(i)
    /\ UNCHANGED <<vars, demoVars>>

-----------------------------------------------------------------------------
(* Who starts recordings, and what ends them.                              *)

Free == {i \in Recordings : rec[i].kind = "idle"}

\* The handler of the POST has created the row and anchors it.
CreateAndAnchor(r) ==
    /\ Create(r)
    /\ \E i \in Free : rec' = [rec EXCEPT ![i] = Started("anchor", r, Server)]
    /\ UNCHANGED <<collectionSet, topic, collections, proof, demoVars>>

IntakeStep ==
    \E r \in Requests :
        \/ CreateAndAnchor(r)
        \/ (Meter(r) \/ Refuse(r) \/ CreateFails(r)) /\ UNCHANGED <<recordVars, demoVars>>

\* The worker has committed (only Commit leads from there back to the poll):
\* two recordings start, and it goes on.
StartsRecordings(w) ==
    \E i, j \in Free :
        /\ i # j
        /\ rec' = [rec EXCEPT ![i] = Started("record", job[w], w), ![j] = Started("nft", job[w], w)]

\* The process is over (process.exit of a drain, a crash): what it had under
\* way is gone.
KillsRecordings(w) ==
    rec' = [i \in Recordings |-> IF rec[i].by = w THEN Idle ELSE rec[i]]

WorkerStep(w) ==
    /\ Start(w) \/ RunOnce(w) \/ DbRefuses(w) \/ DbReplyLost(w) \/ Crash(w)
    /\ IF pc[w] = "commit" /\ pc'[w] = "poll" THEN StartsRecordings(w)
       ELSE IF pc'[w] \in {"down", "exited"} THEN KillsRecordings(w)
       ELSE UNCHANGED rec
    /\ UNCHANGED <<intake, collectionSet, topic, collections, proof, demoVars>>

-----------------------------------------------------------------------------
(* The demo routes (only with NEXT_PUBLIC_DEMO_MODE=true) and run-proof.   *)

Call(c) ==
    /\ c \notin called /\ Cardinality(called) < MaxDemoCalls
    /\ called' = called \cup {c}

\* POST /api/demo/fulfill found the filer's row, neither CONFIRMED nor FAILED.
Fulfil(c) ==
    /\ Call(c)
    /\ \E r \in Rows, i \in Free :
          /\ status[r] \notin Terminal
          /\ rec' = [rec EXCEPT ![i] = Started("demo", r, Server)]
    /\ UNCHANGED <<vars, collectionSet, topic, collections, proof, skipping>>

\* POST /api/demo/skip-payment found the row STAGED.
FindStaged(h) ==
    /\ Call(h)
    /\ \E r \in Rows : status[r] = "STAGED" /\ skipping' = [skipping EXCEPT ![h] = r]
    /\ UNCHANGED <<vars, recordVars>>

\* Mutant of SkipPayment: the update is not limited to the row's id.
SkipPaymentOfAll(h) ==
    /\ skipping[h] # NoReq
    /\ status' = [r \in Requests |-> IF r \in Rows THEN "IN_PROGRESS" ELSE status[r]]
    /\ skipping' = [skipping EXCEPT ![h] = NoReq]
    /\ UNCHANGED <<createdAt, txSignature, slot, usageCount, audits, workerVars, chainVars,
                   intake, recordVars, called>>

\* Its update, by id.
SkipPayment(h) ==
    /\ skipping[h] # NoReq
    /\ status' = [status EXCEPT ![skipping[h]] = "IN_PROGRESS"]
    /\ skipping' = [skipping EXCEPT ![h] = NoReq]
    /\ UNCHANGED <<createdAt, txSignature, slot, usageCount, audits, workerVars, chainVars,
                   intake, recordVars, called>>

\* POST /api/hedera/run-proof, with its token and Hedera configured.
RunProof(c) ==
    /\ Call(c)
    /\ \E i \in Free : rec' = [rec EXCEPT ![i] = Started("bounty", NoReq, Server)]
    /\ UNCHANGED <<vars, collectionSet, topic, collections, proof, skipping>>

-----------------------------------------------------------------------------
RecordsNext ==
    \/ IntakeStep
    \/ \E w \in Workers : WorkerStep(w)
    \/ \E s \in Sigs : Chain!Settle(s) /\ UNCHANGED <<storeVars, workerVars, intake, recordVars, demoVars>>
    \/ \E i \in Recordings : HederaStep(i) \/ WriteProof(i)
    \/ \E c \in Fulfils : Fulfil(c)
    \/ \E h \in Skips : FindStaged(h) \/ SkipPayment(h)
    \/ \E c \in Bounties : RunProof(c)

RecordsSpec == RecordsInit /\ [][RecordsNext]_allVars

-----------------------------------------------------------------------------
\* The message a row names is one of its own, and the NFT it shows as
\* transferred (htsTokenId with htsNftSerial) is its own and in the
\* defendant's account: whichever recordings overwrite each other, whatever is
\* killed half-way, with a collection per call or one for all.
ProofsAreReal ==
    \A r \in Requests :
        /\ proof[r].seq # Null => proof[r].seq <= Len(topic) /\ topic[proof[r].seq] = r
        /\ proof[r].nftSerial # Null =>
              IsNFTOf(r, proof[r].token, proof[r].nftSerial, {"defendant"})

\* With one collection configured, the receipt the certificate prints
\* (htsTokenId with htsSerialNumber) is an NFT of the request too, although two
\* recordings write the token of the same row.
ReceiptIsReal ==
    collectionSet => \A r \in Requests : proof[r].serial # Null =>
        IsNFTOf(r, proof[r].token, proof[r].serial, {"operator", "defendant"})

\* However a row became CONFIRMED, there is something to show for it: a
\* finalized transaction with its memo or a message of its own on the topic.
\* (Neither demo route looks at the row again before it writes.)
EveryConfirmationProven ==
    \A r \in Requests : status[r] = "CONFIRMED" =>
        \/ \E s \in Sigs : memoOf[s] = r /\ Chain!Finalized(s)
        \/ proof[r].seq # Null

\* What a demo call can spoil is bounded: the meter misses at most one unit in
\* use for every call whose write came too late.
Drift(o) == Cardinality({r \in Requests : OrgOf[r] = o /\ Billed(r)}) - usageCount[o]

DriftCostsDemoCalls == \A o \in Orgs : Drift(o) \in 0..Cardinality(called \ Bounties)

=============================================================================
