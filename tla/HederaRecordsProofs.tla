------------------------ MODULE HederaRecordsProofs ------------------------
(***************************************************************************)
(* The proofs a row names are real, for any number of requests, workers,   *)
(* recordings and calls, with a collection per call or one for all, and a  *)
(* CONFIRMED row has one however it became so.                             *)
(***************************************************************************)
EXTENDS HederaRecords, FulfilmentProofs, SequenceTheorems

NFT == [req : Requests \cup {NoReq}, holder : {"operator", "defendant"}]

AnyHolder == {"operator", "defendant"}

\* The results a recording has so far are on the topic and in a collection.
\* Receipts are minted only in the configured collection.
TrueResult(x) ==
    /\ x.hcs \in {Null, Pending} \/ (x.hcs \in 1..Len(topic) /\ topic[x.hcs] = x.req)
    /\ x.kind = "demo" => x.hcs # Null
    /\ \/ x.serial \in {Null, Pending}
       \/ /\ x.serial > Null
          /\ IsNFTOf(x.req, x.token, x.serial, AnyHolder)
          /\ collectionSet => x.token = 1
          /\ x.kind \in {"anchor", "record"} => collectionSet
    /\ x.moved => /\ x.kind \in {"nft", "demo", "bounty"} /\ x.serial > Null
                  /\ IsNFTOf(x.req, x.token, x.serial, {"defendant"})

\* The same of the row, where several recordings write one column: with a
\* single collection they write the same token.
TrueProof(r) ==
    /\ proof[r].seq # Null => proof[r].seq \in 1..Len(topic) /\ topic[proof[r].seq] = r
    /\ proof[r].nftSerial # Null => IsNFTOf(r, proof[r].token, proof[r].nftSerial, {"defendant"})
    /\ collectionSet /\ (proof[r].serial # Null \/ proof[r].nftSerial # Null) => proof[r].token = 1
    /\ collectionSet /\ proof[r].serial # Null => IsNFTOf(r, 1, proof[r].serial, AnyHolder)

RecordsInv ==
    /\ RecordsTypeOK
    /\ 1 \in DOMAIN collections
    /\ \A i \in Recordings : TrueResult(rec[i])
    /\ \A r \in Requests : TrueProof(r)

\* Nothing is taken off the topic, and an NFT changes hands once.
Grows ==
    /\ Len(topic) <= Len(topic')
    /\ \A n \in 1..Len(topic) : topic'[n] = topic[n]
    /\ \A c \in DOMAIN collections :
          /\ c \in DOMAIN collections'
          /\ \A s \in DOMAIN collections[c] :
                /\ s \in DOMAIN collections'[c]
                /\ collections'[c][s].req = collections[c][s].req
                /\ collections'[c][s].holder \in {collections[c][s].holder, "defendant"}
    /\ collectionSet' = collectionSet

-----------------------------------------------------------------------------
\* What is real stays real.
LEMMA GrowsKeepsNFT ==
  ASSUME Grows, NEW r, NEW c, NEW s, NEW H \in {AnyHolder, {"defendant"}}, IsNFTOf(r, c, s, H)
  PROVE  IsNFTOf(r, c, s, H)'
BY DEF Grows, IsNFTOf, AnyHolder

\* So a recording's results do.
LEMMA GrowsKeepsResult ==
  ASSUME RecordsTypeOK, Grows, NEW x, TrueResult(x)
  PROVE  TrueResult(x)'
<1>1. Len(topic) \in Nat /\ Len(topic') >= Len(topic) /\ collectionSet' = collectionSet
  BY DEF RecordsTypeOK, Grows
<1>2. x.hcs \in 1..Len(topic) /\ topic[x.hcs] = x.req => x.hcs \in 1..Len(topic') /\ topic'[x.hcs] = x.req
  BY <1>1 DEF Grows
<1>3. \A H \in {AnyHolder, {"defendant"}} :
         IsNFTOf(x.req, x.token, x.serial, H) => IsNFTOf(x.req, x.token, x.serial, H)'
  BY GrowsKeepsNFT
<1> QED
  BY <1>1, <1>2, <1>3 DEF TrueResult

\* And so do a row's columns.
LEMMA GrowsKeepsProof ==
  ASSUME RecordsTypeOK, Grows, UNCHANGED proof, NEW r \in Requests, TrueProof(r)
  PROVE  TrueProof(r)'
<1>1. Len(topic) \in Nat /\ Len(topic') >= Len(topic) /\ collectionSet' = collectionSet
  BY DEF RecordsTypeOK, Grows
<1>2. proof[r].seq \in 1..Len(topic) /\ topic[proof[r].seq] = r =>
         proof[r].seq \in 1..Len(topic') /\ topic'[proof[r].seq] = r
  BY <1>1 DEF Grows
<1>3. \A c, s : \A H \in {AnyHolder, {"defendant"}} : IsNFTOf(r, c, s, H) => IsNFTOf(r, c, s, H)'
  BY GrowsKeepsNFT
<1> QED
  BY <1>1, <1>2, <1>3 DEF TrueProof

-----------------------------------------------------------------------------
\* The fields of a recording keep their types when one result arrives.
LEMMA RecordingFields ==
  ASSUME NEW x \in Recording, NEW n \in Int, NEW t \in Nat, NEW b \in BOOLEAN
  PROVE  /\ [x EXCEPT !.hcs = n] \in Recording
         /\ [x EXCEPT !.serial = n] \in Recording
         /\ [x EXCEPT !.token = t, !.serial = n] \in Recording
         /\ [x EXCEPT !.moved = TRUE] \in Recording
<1> USE DEF Recording
<1>1. [x EXCEPT !.hcs = n] \in Recording
  OBVIOUS
<1>2. [x EXCEPT !.serial = n] \in Recording
  OBVIOUS
<1>3. [x EXCEPT !.token = t, !.serial = n] \in Recording
  OBVIOUS
<1>4. [x EXCEPT !.moved = TRUE] \in Recording
  BY Zenon
<1> QED
  BY <1>1, <1>2, <1>3, <1>4

\* A recording as it starts, or over.
LEMMA StartedIsTrue ==
  ASSUME NEW k \in {"anchor", "record", "nft", "demo", "bounty"}, NEW r \in Requests \cup {NoReq},
         NEW p \in Workers \cup {Server}, NEW x \in {Idle, Started(k, r, p)}
  PROVE  x \in Recording /\ TrueResult(x)
<1>1. CASE x = Idle
  <2>1. Idle \in Recording
    BY DEF Idle, Recording, Null
  <2> QED
    BY <1>1, <2>1 DEF TrueResult, Idle, Null, Pending
<1>2. CASE x = Started(k, r, p)
  <2>1. x = [kind |-> k, req |-> r, by |-> p, hcs |-> IF k = "nft" THEN Null ELSE Pending,
             token |-> Null, serial |-> Pending, moved |-> FALSE]
    BY <1>2 DEF Started, Idle
  <2>2. x \in Recording
    BY <2>1 DEF Recording, Null, Pending
  <2> QED
    BY <2>1, <2>2 DEF TrueResult, Null, Pending
<1> QED
  BY <1>1, <1>2

\* A step that grows the ledgers and leaves the rows needs a look at the types
\* and at the recordings it changes only.
LEMMA GrowsStep ==
  ASSUME RecordsInv, Grows, UNCHANGED proof, RecordsTypeOK',
         \A i \in Recordings : rec'[i] # rec[i] => TrueResult(rec[i])'
  PROVE  RecordsInv'
<1>1. 1 \in DOMAIN collections'
  BY DEF RecordsInv, Grows
<1>2. ASSUME NEW i \in Recordings
      PROVE  TrueResult(rec[i])'
  <2>1. CASE rec'[i] = rec[i]
    <3>1. TrueResult(rec[i])
      BY DEF RecordsInv
    <3> DEFINE x == rec[i]
    <3>2. rec'[i] = x
      BY <2>1
    <3> HIDE DEF x
    <3> QED
      BY <3>1, <3>2, GrowsKeepsResult DEF RecordsInv, TrueResult, x
  <2> QED
    BY <2>1
<1>3. \A r \in Requests : TrueProof(r)'
  BY GrowsKeepsProof DEF RecordsInv
<1> QED
  BY <1>1, <1>2, <1>3 DEF RecordsInv

\* Steps of Fulfilment beside the recordings.
LEMMA NoGrowth ==
  ASSUME UNCHANGED <<topic, collections, collectionSet>>, RecordsTypeOK
  PROVE  Grows
BY DEF Grows, RecordsTypeOK

\* Types of what a step of a recording may change.
LedgerTypes ==
    /\ topic \in Seq(Requests \cup {NoReq})
    /\ collections \in Seq(Seq(NFT))
    /\ rec \in [Recordings -> Recording]

\* A step on the ledgers leaves the types of Fulfilment alone.
LEMMA HederaTypes ==
  ASSUME RecordsTypeOK, UNCHANGED <<vars, proof, demoVars, collectionSet>>, LedgerTypes'
  PROVE  RecordsTypeOK'
BY DEF RecordsTypeOK, LedgerTypes, NFT, vars, coreVars, storeVars, workerVars, chainVars, demoVars,
       TypeOK, WorkerTypeOK, StoreTypeOK, Chain!ChainTypeOK

\* One recording changes.
LEMMA RecUpdate ==
  ASSUME rec \in [Recordings -> Recording], NEW i \in Recordings, NEW y \in Recording,
         rec' = [rec EXCEPT ![i] = y]
  PROVE  /\ rec' \in [Recordings -> Recording] /\ rec'[i] = y
         /\ \A j \in Recordings : j # i => rec'[j] = rec[j]
OBVIOUS

\* A recording that is over leaves nothing.
LEMMA EndStep ==
  ASSUME RecordsAssumption, RecordsInv, NEW i \in Recordings, End(i),
         UNCHANGED <<vars, demoVars, collectionSet, topic, collections, proof>>
  PROVE  RecordsInv'
<1> USE DEF RecordsInv
<1>1. Idle \in Recording /\ TrueResult(Idle)
  <2>1. NoReq \in Requests \cup {NoReq} /\ Server \in Workers \cup {Server}
    OBVIOUS
  <2> QED
    BY <2>1, StartedIsTrue
<1>2. rec' \in [Recordings -> Recording] /\ rec'[i] = Idle /\ \A j \in Recordings : j # i => rec'[j] = rec[j]
  BY <1>1, RecUpdate DEF End, RecordsTypeOK
<1>3. TrueResult(rec[i])'
  BY <1>1, <1>2 DEF TrueResult, IsNFTOf
<1>4. RecordsTypeOK'
  BY <1>2, HederaTypes DEF LedgerTypes, RecordsTypeOK, NFT
<1> QED
  BY <1>2, <1>3, <1>4, NoGrowth, GrowsStep

\* The topic.
LEMMA SubmitStep ==
  ASSUME RecordsAssumption, RecordsInv, NEW i \in Recordings, UNCHANGED <<vars, demoVars>>,
         SubmitToHCS(i) \/ SubmitToHCSFails(i)
  PROVE  RecordsInv'
<1> USE DEF RecordsInv
<1>t. /\ topic \in Seq(Requests \cup {NoReq}) /\ collections \in Seq(Seq(NFT))
      /\ rec \in [Recordings -> Recording] /\ rec[i] \in Recording /\ Len(topic) \in Nat
  BY DEF RecordsTypeOK, NFT
<1>r. TrueResult(rec[i])
  OBVIOUS
<1>1. CASE SubmitToHCS(i)
  <2>1. /\ topic' = Append(topic, rec[i].req) /\ rec[i].req \in Requests \cup {NoReq}
        /\ rec' = [rec EXCEPT ![i] = [rec[i] EXCEPT !.hcs = Len(topic')]]
        /\ UNCHANGED <<collectionSet, collections, proof>>
    BY <1>1, <1>t DEF SubmitToHCS, Recording
  <2>2. /\ topic' \in Seq(Requests \cup {NoReq}) /\ Len(topic') = Len(topic) + 1
        /\ \A n \in 1..Len(topic) : topic'[n] = topic[n]
        /\ topic'[Len(topic')] = rec[i].req
    BY <1>t, <2>1
  <2>3. rec' \in [Recordings -> Recording] /\ rec'[i] = [rec[i] EXCEPT !.hcs = Len(topic')]
        /\ \A j \in Recordings : j # i => rec'[j] = rec[j]
    <3>1. Len(topic') \in Int
      BY <1>t, <2>2
    <3>2. [rec[i] EXCEPT !.hcs = Len(topic')] \in Recording
      BY <1>t, <3>1, RecordingFields
    <3> QED
      BY <1>t, <2>1, <3>2, RecUpdate
  <2>4. Grows
    BY <1>t, <2>1, <2>2 DEF Grows
  <2>5. TrueResult(rec[i])'
    <3>1. /\ rec'[i].hcs = Len(topic') /\ rec'[i].req = rec[i].req /\ rec'[i].kind = rec[i].kind
          /\ rec'[i].token = rec[i].token /\ rec'[i].serial = rec[i].serial /\ rec'[i].moved = rec[i].moved
      BY <1>t, <2>3 DEF Recording
    <3> HIDE DEF RecordsInv
    <3>2. Len(topic') \in 1..Len(topic') /\ Len(topic') # Null
      BY <1>t, <2>2 DEF Null
    <3>3. rec'[i].hcs \in 1..Len(topic') /\ topic'[rec'[i].hcs] = rec'[i].req /\ rec'[i].hcs # Null
      BY <2>2, <3>1, <3>2
    <3>4. \A t, n, H : IsNFTOf(rec[i].req, t, n, H) =>
            /\ t \in DOMAIN collections' /\ n \in DOMAIN collections'[t]
            /\ collections'[t][n].req = rec'[i].req /\ collections'[t][n].holder \in H
      BY <2>1, <3>1 DEF IsNFTOf
    <3> QED
      BY <1>r, <2>1, <3>1, <3>3, <3>4 DEF TrueResult, IsNFTOf
  <2>6. RecordsTypeOK'
    BY <1>t, <2>1, <2>2, <2>3, HederaTypes DEF LedgerTypes
  <2> QED
    BY <2>1, <2>3, <2>4, <2>5, <2>6, GrowsStep
<1>2. CASE SubmitToHCSFails(i)
  <2>1. UNCHANGED <<collectionSet, topic, collections, proof>>
    BY <1>2 DEF SubmitToHCSFails
  <2>2. \/ rec' = [rec EXCEPT ![i] = Idle]
        \/ rec[i].kind # "demo" /\ rec' = [rec EXCEPT ![i] = [rec[i] EXCEPT !.hcs = Null]]
    BY <1>2 DEF SubmitToHCSFails, End
  <2>3. CASE rec' = [rec EXCEPT ![i] = Idle]
    BY <2>1, <2>3, EndStep DEF End
  <2>4. CASE rec[i].kind # "demo" /\ rec' = [rec EXCEPT ![i] = [rec[i] EXCEPT !.hcs = Null]]
    <3>1. rec' \in [Recordings -> Recording] /\ rec'[i] = [rec[i] EXCEPT !.hcs = Null]
          /\ \A j \in Recordings : j # i => rec'[j] = rec[j]
      <4>1. Null \in Int
        BY DEF Null
      <4>2. [rec[i] EXCEPT !.hcs = Null] \in Recording
        BY <1>t, <4>1, RecordingFields
      <4> QED
        BY <1>t, <2>4, <4>2, RecUpdate
    <3>2. /\ rec'[i].hcs = Null /\ rec'[i].req = rec[i].req /\ rec'[i].kind = rec[i].kind
          /\ rec'[i].token = rec[i].token /\ rec'[i].serial = rec[i].serial /\ rec'[i].moved = rec[i].moved
      BY <1>t, <3>1 DEF Recording
    <3>3. TrueResult(rec[i])'
      BY <1>r, <2>1, <2>4, <3>2 DEF TrueResult, IsNFTOf
    <3>4. RecordsTypeOK'
      BY <1>t, <2>1, <3>1, HederaTypes DEF LedgerTypes
    <3> QED
      BY <2>1, <3>1, <3>3, <3>4, NoGrowth, GrowsStep
  <2> QED
    BY <2>2, <2>3, <2>4
<1> QED
  BY <1>1, <1>2

\* A mint makes m the serial n of collection t, the configured one or a new one.
Minted(m, t, n) ==
    /\ \/ collections' = [collections EXCEPT ![1] = Append(collections[1], m)] /\ t = 1
       \/ collections' = Append(collections, <<m>>) /\ t = Len(collections) + 1
    /\ n = Len(collections'[t])

\* A mint adds one NFT at the end of a collection or in a new one.
LEMMA MintGrows ==
  ASSUME collections \in Seq(Seq(NFT)), 1 \in DOMAIN collections, NEW m \in NFT, m.holder = "operator",
         UNCHANGED <<topic, collectionSet>>, Len(topic) \in Nat, NEW t, NEW n, Minted(m, t, n)
  PROVE  /\ collections' \in Seq(Seq(NFT)) /\ Grows
         /\ n \in Nat /\ n > Null /\ t \in Nat
         /\ t \in DOMAIN collections' /\ n \in DOMAIN collections'[t] /\ collections'[t][n] = m
<1> USE DEF Null
<1>0. /\ \/ collections' = [collections EXCEPT ![1] = Append(collections[1], m)] /\ t = 1
         \/ collections' = Append(collections, <<m>>) /\ t = Len(collections) + 1
      /\ n = Len(collections'[t])
  BY DEF Minted
<1>1. CASE collections' = [collections EXCEPT ![1] = Append(collections[1], m)] /\ t = 1
  <2>1. /\ collections[1] \in Seq(NFT) /\ Append(collections[1], m) \in Seq(NFT)
        /\ Len(Append(collections[1], m)) = Len(collections[1]) + 1
        /\ \A s \in DOMAIN collections[1] : s \in DOMAIN Append(collections[1], m)
                                           /\ Append(collections[1], m)[s] = collections[1][s]
        /\ Append(collections[1], m)[Len(collections[1]) + 1] = m
    OBVIOUS
  <2>2. /\ collections' \in Seq(Seq(NFT)) /\ DOMAIN collections' = DOMAIN collections
        /\ collections'[1] = Append(collections[1], m)
        /\ \A c \in DOMAIN collections : c # 1 => collections'[c] = collections[c]
    BY <1>1, <2>1
  <2>3. Grows
    <3>1. ASSUME NEW c \in DOMAIN collections, NEW s \in DOMAIN collections[c]
          PROVE  s \in DOMAIN collections'[c] /\ collections'[c][s] = collections[c][s]
      BY <2>1, <2>2
    <3> QED
      BY <2>2, <3>1 DEF Grows
  <2>4. n = Len(collections[1]) + 1 /\ Len(collections[1]) \in Nat
    BY <1>0, <1>1, <2>1, <2>2
  <2>5. n \in DOMAIN collections'[1] /\ collections'[1][n] = m
    BY <2>1, <2>2, <2>4
  <2> QED
    BY <1>1, <2>2, <2>3, <2>4, <2>5
<1>2. CASE collections' = Append(collections, <<m>>) /\ t = Len(collections) + 1
  <2>1. <<m>> \in Seq(NFT) /\ Len(<<m>>) = 1 /\ <<m>>[1] = m /\ 1 \in DOMAIN <<m>>
    OBVIOUS
  <2>2. /\ collections' \in Seq(Seq(NFT)) /\ t \in DOMAIN collections' /\ collections'[t] = <<m>>
        /\ \A c \in DOMAIN collections : c \in DOMAIN collections' /\ collections'[c] = collections[c]
        /\ t \in Nat
    BY <1>2, <2>1
  <2>3. Grows
    <3>1. ASSUME NEW c \in DOMAIN collections, NEW s \in DOMAIN collections[c]
          PROVE  s \in DOMAIN collections'[c] /\ collections'[c][s] = collections[c][s]
      BY <2>2
    <3> QED
      BY <2>2, <3>1 DEF Grows
  <2>4. n = 1
    BY <1>0, <2>1, <2>2
  <2> QED
    BY <2>1, <2>2, <2>3, <2>4
<1> QED
  BY <1>0, <1>1, <1>2

\* The receipt of recordOnHedera and the NFT that is then transferred.
LEMMA MintStep ==
  ASSUME RecordsAssumption, RecordsInv, NEW i \in Recordings, UNCHANGED <<vars, demoVars>>,
         MintProofNFT(i) \/ MintForTransfer(i)
  PROVE  RecordsInv'
<1> USE DEF RecordsInv
<1> DEFINE m == [req |-> rec[i].req, holder |-> "operator"]
           t == IF collectionSet THEN 1 ELSE Len(collections) + 1
           n == Len(collections'[t])
<1>t. /\ topic \in Seq(Requests \cup {NoReq}) /\ collections \in Seq(Seq(NFT))
      /\ rec \in [Recordings -> Recording] /\ rec[i] \in Recording /\ Len(topic) \in Nat
      /\ m \in NFT /\ m.holder = "operator" /\ m.req = rec[i].req
  BY DEF RecordsTypeOK, NFT, Recording
<1>1. /\ UNCHANGED <<topic, collectionSet, proof>> /\ rec[i].serial = Pending
      /\ \/ collections' = [collections EXCEPT ![1] = Append(collections[1], m)] /\ t = 1
         \/ collections' = Append(collections, <<m>>) /\ t = Len(collections) + 1
      /\ rec' = [rec EXCEPT ![i] = [rec[i] EXCEPT !.token = t, !.serial = n]]
      /\ rec[i].kind \in {"anchor", "record"} => collectionSet
  BY <1>t DEF MintProofNFT, MintForTransfer, Transferring
<1> HIDE DEF m, t, n
<1>2. /\ collections' \in Seq(Seq(NFT)) /\ Grows /\ n \in Nat /\ n > Null /\ t \in Nat
      /\ t \in DOMAIN collections' /\ n \in DOMAIN collections'[t] /\ collections'[t][n] = m
  <2>1. Minted(m, t, n)
    BY <1>1 DEF Minted, n
  <2>2. topic' = topic /\ collectionSet' = collectionSet /\ 1 \in DOMAIN collections
    BY <1>1
  <2> HIDE DEF RecordsInv
  <2> QED
    BY <1>t, <2>1, <2>2, MintGrows
<1>3. rec' \in [Recordings -> Recording] /\ rec'[i] = [rec[i] EXCEPT !.token = t, !.serial = n]
      /\ \A j \in Recordings : j # i => rec'[j] = rec[j]
  <2>1. n \in Int
    BY <1>2
  <2>2. [rec[i] EXCEPT !.token = t, !.serial = n] \in Recording
    BY <1>t, <1>2, <2>1, RecordingFields
  <2> QED
    BY <1>t, <1>1, <2>2, RecUpdate
<1>4. /\ rec'[i].hcs = rec[i].hcs /\ rec'[i].req = rec[i].req /\ rec'[i].kind = rec[i].kind
      /\ rec'[i].token = t /\ rec'[i].serial = n /\ rec'[i].moved = rec[i].moved
  BY <1>t, <1>3 DEF Recording
<1>5. ~rec[i].moved
  BY <1>1 DEF TrueResult, Null, Pending
<1>6. TrueResult(rec[i])'
  <2>1. TrueResult(rec[i])
    OBVIOUS
  <2>2. collectionSet' => t = 1
    BY <1>1 DEF t
  <2> QED
    <3>1. IsNFTOf(rec[i].req, rec[i].token, rec[i].serial, AnyHolder)'
      BY <1>t, <1>2, <1>4 DEF IsNFTOf, AnyHolder
    <3>2. \/ rec'[i].hcs \in {Null, Pending}
          \/ rec'[i].hcs \in 1..Len(topic') /\ topic'[rec'[i].hcs] = rec'[i].req
      BY <1>1, <1>4, <2>1 DEF TrueResult
    <3> QED
      BY <1>1, <1>2, <1>4, <1>5, <2>1, <2>2, <3>1, <3>2 DEF TrueResult
<1>7. RecordsTypeOK'
  BY <1>t, <1>1, <1>2, <1>3, HederaTypes DEF LedgerTypes
<1> QED
  BY <1>1, <1>2, <1>3, <1>6, <1>7, GrowsStep

\* A transfer moves the NFT of this recording and touches no other.
LEMMA TransferGrows ==
  ASSUME collections \in Seq(Seq(NFT)), Len(topic) \in Nat, UNCHANGED <<topic, collectionSet>>,
         NEW t \in DOMAIN collections, NEW n \in DOMAIN collections[t],
         collections' = [collections EXCEPT ![t][n].holder = "defendant"]
  PROVE  /\ collections' \in Seq(Seq(NFT)) /\ Grows
         /\ t \in DOMAIN collections' /\ n \in DOMAIN collections'[t]
         /\ collections'[t][n].req = collections[t][n].req /\ collections'[t][n].holder = "defendant"
<1> DEFINE old == collections[t][n]
           new == [old EXCEPT !.holder = "defendant"]
           coll == [collections[t] EXCEPT ![n] = new]
<1>1. collections[t] \in Seq(NFT) /\ old \in NFT
  OBVIOUS
<1>2. new \in NFT /\ new.req = old.req /\ new.holder = "defendant"
  BY <1>1 DEF NFT
<1>3. collections' = [collections EXCEPT ![t] = coll]
  OBVIOUS
<1> HIDE DEF new
<1>4. coll \in Seq(NFT) /\ DOMAIN coll = DOMAIN collections[t] /\ coll[n] = new
      /\ \A s \in DOMAIN coll : s # n => coll[s] = collections[t][s]
  BY <1>1, <1>2
<1> HIDE DEF coll
<1>5. collections' \in Seq(Seq(NFT)) /\ DOMAIN collections' = DOMAIN collections /\ collections'[t] = coll
      /\ \A c \in DOMAIN collections : c # t => collections'[c] = collections[c]
  <2>1. coll \in Seq(NFT) /\ t \in 1..Len(collections)
    BY <1>4
  <2>2. collections' \in Seq(Seq(NFT))
    <3>1. collections \in Seq(Seq(NFT))
      OBVIOUS
    <3>2. [collections EXCEPT ![t] = coll] \in Seq(Seq(NFT))
      BY <2>1, <3>1, ExceptSeq
    <3> QED
      BY <1>3, <3>2
  <2> QED
    BY <1>3, <2>2
<1>6. Grows
  <2>1. ASSUME NEW c \in DOMAIN collections, NEW s \in DOMAIN collections[c]
        PROVE  /\ s \in DOMAIN collections'[c] /\ collections'[c][s].req = collections[c][s].req
               /\ collections'[c][s].holder \in {collections[c][s].holder, "defendant"}
    BY <1>2, <1>4, <1>5
  <2> QED
    BY <1>5, <2>1 DEF Grows
<1> QED
  BY <1>2, <1>4, <1>5, <1>6

\* The transfer, and a mint or a transfer that fails.
LEMMA TransferStep ==
  ASSUME RecordsAssumption, RecordsInv, NEW i \in Recordings, UNCHANGED <<vars, demoVars>>,
         TransferNFT(i) \/ TransferThrows(i) \/ MintProofNFTFails(i)
  PROVE  RecordsInv'
<1> USE DEF RecordsInv
<1>t. /\ topic \in Seq(Requests \cup {NoReq}) /\ collections \in Seq(Seq(NFT))
      /\ rec \in [Recordings -> Recording] /\ rec[i] \in Recording /\ Len(topic) \in Nat
  BY DEF RecordsTypeOK, NFT
<1>r. TrueResult(rec[i])
  OBVIOUS
<1>1. CASE TransferNFT(i)
  <2> DEFINE t == rec[i].token
             n == rec[i].serial
  <2>1. /\ Transferring(i) /\ n > Null
        /\ collections' = [collections EXCEPT ![t][n].holder = "defendant"]
        /\ rec' = [rec EXCEPT ![i] = [rec[i] EXCEPT !.moved = TRUE]]
        /\ UNCHANGED <<collectionSet, topic, proof>>
    BY <1>1 DEF TransferNFT
  <2>2. n \notin {Null, Pending}
    BY <2>1 DEF Null, Pending
  <2>3. t \in DOMAIN collections /\ n \in DOMAIN collections[t] /\ collections[t][n].req = rec[i].req
        /\ (collectionSet => t = 1) /\ rec[i].kind \in {"nft", "demo", "bounty"}
    BY <1>r, <2>1, <2>2 DEF TrueResult, IsNFTOf, Transferring
  <2>4. /\ collections' \in Seq(Seq(NFT)) /\ Grows
        /\ t \in DOMAIN collections' /\ n \in DOMAIN collections'[t]
        /\ collections'[t][n].req = rec[i].req /\ collections'[t][n].holder = "defendant"
    BY <1>t, <2>1, <2>3, TransferGrows
  <2>5. rec' \in [Recordings -> Recording] /\ rec'[i] = [rec[i] EXCEPT !.moved = TRUE]
        /\ \A j \in Recordings : j # i => rec'[j] = rec[j]
    <3>1. 0 \in Int /\ 0 \in Nat /\ TRUE \in BOOLEAN
      OBVIOUS
    <3>2. [rec[i] EXCEPT !.moved = TRUE] \in Recording
      BY <1>t, <3>1, RecordingFields
    <3> QED
      BY <1>t, <2>1, <3>2, RecUpdate
  <2>6. /\ rec'[i].hcs = rec[i].hcs /\ rec'[i].req = rec[i].req /\ rec'[i].kind = rec[i].kind
        /\ rec'[i].token = t /\ rec'[i].serial = n
    BY <1>t, <2>5 DEF Recording
  <2>7. TrueResult(rec[i])'
    <3>1. IsNFTOf(rec[i].req, rec[i].token, rec[i].serial, AnyHolder)'
          /\ IsNFTOf(rec[i].req, rec[i].token, rec[i].serial, {"defendant"})'
      BY <2>4, <2>6 DEF IsNFTOf, AnyHolder
    <3>2. \/ rec'[i].hcs \in {Null, Pending}
          \/ rec'[i].hcs \in 1..Len(topic') /\ topic'[rec'[i].hcs] = rec'[i].req
      BY <1>r, <2>1, <2>6 DEF TrueResult
    <3>3. rec'[i].kind = "demo" => rec'[i].hcs # Null
      BY <1>r, <2>6 DEF TrueResult
    <3> QED
      BY <2>1, <2>3, <2>6, <3>1, <3>2, <3>3 DEF TrueResult
  <2>8. RecordsTypeOK'
    BY <1>t, <2>1, <2>4, <2>5, HederaTypes DEF LedgerTypes
  <2> QED
    BY <2>1, <2>4, <2>5, <2>7, <2>8, GrowsStep
<1>2. CASE TransferThrows(i) \/ MintProofNFTFails(i)
  <2>1. UNCHANGED <<collectionSet, topic, collections, proof>>
    BY <1>2 DEF TransferThrows, MintProofNFTFails
  <2>2. CASE End(i)
    BY <2>1, <2>2, EndStep
  <2>3. CASE ~End(i)
    <3>1. PICK t \in Nat : rec' = [rec EXCEPT ![i] = [rec[i] EXCEPT !.token = t, !.serial = Null]]
      <4>1. CASE TransferThrows(i)
        BY <2>3, <4>1 DEF TransferThrows, Null
      <4>2. CASE MintProofNFTFails(i)
        <5>1. rec' = [rec EXCEPT ![i] = [rec[i] EXCEPT !.serial = Null]]
          BY <4>2 DEF MintProofNFTFails
        <5>2. [rec[i] EXCEPT !.serial = Null] = [rec[i] EXCEPT !.token = rec[i].token, !.serial = Null]
              /\ rec[i].token \in Nat
          BY <1>t DEF Recording
        <5> QED
          BY <5>1, <5>2
      <4> QED
        BY <1>2, <4>1, <4>2
    <3>2. ~rec[i].moved
      BY <1>2, <1>r DEF TransferThrows, MintProofNFTFails, TrueResult, Null, Pending
    <3>3. rec' \in [Recordings -> Recording] /\ rec'[i] = [rec[i] EXCEPT !.token = t, !.serial = Null]
          /\ \A j \in Recordings : j # i => rec'[j] = rec[j]
      <4>1. Null \in Int
        BY DEF Null
      <4>2. [rec[i] EXCEPT !.token = t, !.serial = Null] \in Recording
        BY <1>t, <4>1, RecordingFields
      <4> QED
        BY <1>t, <3>1, <4>2, RecUpdate
    <3>4. /\ rec'[i].hcs = rec[i].hcs /\ rec'[i].req = rec[i].req /\ rec'[i].kind = rec[i].kind
          /\ rec'[i].serial = Null /\ rec'[i].moved = rec[i].moved
      BY <1>t, <3>3 DEF Recording
    <3>5. TrueResult(rec[i])'
      BY <1>r, <2>1, <3>2, <3>4 DEF TrueResult
    <3>6. RecordsTypeOK'
      BY <1>t, <2>1, <3>3, HederaTypes DEF LedgerTypes
    <3> QED
      BY <2>1, <3>3, <3>5, <3>6, NoGrowth, GrowsStep
  <2> QED
    BY <2>2, <2>3
<1> QED
  BY <1>1, <1>2

-----------------------------------------------------------------------------
\* The final update: token and serial number of a transferred NFT are written
\* together, and a receipt's token is the same one when it is written at all.
LEMMA ColumnsTrue ==
  ASSUME RecordsInv, NEW i \in Recordings, rec[i].req \in Requests,
         rec[i].kind \notin {"idle", "bounty"}, Settled(i), NEW y, y = Columns(proof[rec[i].req], rec[i])
  PROVE  /\ y \in [seq : Nat, token : Nat, serial : Nat, nftSerial : Nat]
         /\ y.seq # Null => y.seq \in 1..Len(topic) /\ topic[y.seq] = rec[i].req
         /\ y.nftSerial # Null => IsNFTOf(rec[i].req, y.token, y.nftSerial, {"defendant"})
         /\ collectionSet /\ (y.serial # Null \/ y.nftSerial # Null) => y.token = 1
         /\ collectionSet /\ y.serial # Null => IsNFTOf(rec[i].req, 1, y.serial, AnyHolder)
         /\ rec[i].kind = "demo" => y.seq # Null
         /\ proof[rec[i].req].seq # Null => y.seq # Null
<1> DEFINE x == rec[i]
           r == rec[i].req
           p == proof[rec[i].req]
<1>t. /\ Len(topic) \in Nat /\ p \in [seq : Nat, token : Nat, serial : Nat, nftSerial : Nat]
      /\ x \in Recording /\ x.token \in Nat
      /\ x.kind \in {"anchor", "record", "nft", "demo"}
  BY DEF RecordsInv, RecordsTypeOK, Recording
<1>x. TrueResult(x) /\ TrueProof(r)
  BY DEF RecordsInv
<1>y. /\ y.seq = IF x.hcs # Null THEN x.hcs ELSE p.seq
      /\ y.token = IF x.serial # Null THEN x.token ELSE p.token
      /\ y.serial = IF x.serial # Null /\ x.kind # "nft" THEN x.serial ELSE p.serial
      /\ y.nftSerial = IF x.moved THEN x.serial ELSE p.nftSerial
      /\ y = [seq |-> y.seq, token |-> y.token, serial |-> y.serial, nftSerial |-> y.nftSerial]
  BY DEF Columns
<1>h. x.hcs # Null => x.hcs \in 1..Len(topic) /\ topic[x.hcs] = r /\ x.hcs \in Nat
  BY <1>t, <1>x DEF TrueResult, Settled, Pending
<1>s. /\ x.serial # Null => /\ x.serial > Null /\ x.serial \in Nat
                            /\ IsNFTOf(r, x.token, x.serial, AnyHolder) /\ (collectionSet => x.token = 1)
                            /\ x.kind \in {"anchor", "record"} => collectionSet
                            /\ x.kind \in {"nft", "demo"} => x.moved
      /\ x.moved => /\ x.kind \in {"nft", "demo"} /\ x.serial # Null
                    /\ IsNFTOf(r, x.token, x.serial, {"defendant"})
  <2>1. x.serial \in Int
    BY <1>t DEF Recording
  <2> QED
    BY <1>t, <1>x, <2>1 DEF TrueResult, Settled, Pending, Null
<1> HIDE DEF x, r, p
<1>1. y \in [seq : Nat, token : Nat, serial : Nat, nftSerial : Nat]
  <2>1. y.seq \in Nat /\ y.token \in Nat /\ y.serial \in Nat /\ y.nftSerial \in Nat
    BY <1>t, <1>y, <1>h, <1>s
  <2> QED
    BY <2>1, <1>y
<1>2. y.seq # Null => y.seq \in 1..Len(topic) /\ topic[y.seq] = r
  BY <1>y, <1>h, <1>x DEF TrueProof, p, r
<1>3. y.nftSerial # Null => IsNFTOf(r, y.token, y.nftSerial, {"defendant"})
  <2>1. CASE x.moved
    BY <2>1, <1>y, <1>s
  <2>2. CASE ~x.moved /\ x.serial # Null
    BY <2>2, <1>t, <1>y, <1>s, <1>x DEF TrueProof, p, r
  <2>3. CASE ~x.moved /\ x.serial = Null
    BY <2>3, <1>y, <1>x DEF TrueProof, p, r
  <2> QED
    BY <2>1, <2>2, <2>3
<1>4. collectionSet /\ (y.serial # Null \/ y.nftSerial # Null) => y.token = 1
  BY <1>y, <1>s, <1>x DEF TrueProof, p, r
<1>5. collectionSet /\ y.serial # Null => IsNFTOf(r, 1, y.serial, AnyHolder)
  BY <1>y, <1>s, <1>x DEF TrueProof, p, r
<1>6. (x.kind = "demo" => y.seq # Null) /\ (p.seq # Null => y.seq # Null)
  BY <1>y, <1>x DEF TrueResult
<1> QED
  BY <1>1, <1>2, <1>3, <1>4, <1>5, <1>6 DEF x, r, p

\* The final update of a recording.
LEMMA WriteProofStep ==
  ASSUME RecordsAssumption, RecordsInv, NEW i \in Recordings, WriteProof(i)
  PROVE  RecordsInv' /\ TypeOK'
<1> USE DEF RecordsInv
<1>t. /\ rec \in [Recordings -> Recording]
      /\ proof \in [Requests -> [seq : Nat, token : Nat, serial : Nat, nftSerial : Nat]]
      /\ TypeOK
  BY DEF RecordsTypeOK
<1>w. /\ rec[i].kind \notin {"idle", "bounty"} /\ Settled(i) /\ End(i)
      /\ proof' = [proof EXCEPT ![rec[i].req] = Columns(proof[rec[i].req], rec[i])]
      /\ UNCHANGED <<createdAt, txSignature, slot, usageCount, audits, workerVars,
                     chainVars, intake, collectionSet, topic, collections, demoVars>>
      /\ status' = status \/ status' = [status EXCEPT ![rec[i].req] = "CONFIRMED"]
  BY DEF WriteProof
<1>1. TypeOK'
  <2>1. status' \in [Requests -> ServiceStatus \cup {"NONE"}]
    BY <1>t, <1>w DEF TypeOK, WorkerTypeOK, StoreTypeOK, ServiceStatus
  <2> QED
    BY <1>t, <1>w, <2>1 DEF TypeOK, WorkerTypeOK, StoreTypeOK, Chain!ChainTypeOK, workerVars, chainVars
<1>2. Idle \in Recording /\ TrueResult(Idle)
  <2>1. NoReq \in Requests \cup {NoReq} /\ Server \in Workers \cup {Server}
    OBVIOUS
  <2> QED
    BY <2>1, StartedIsTrue
<1>3. rec' \in [Recordings -> Recording] /\ rec'[i] = Idle /\ \A j \in Recordings : j # i => rec'[j] = rec[j]
  BY <1>2, <1>t, <1>w, RecUpdate DEF End
<1>4. \A j \in Recordings : TrueResult(rec[j])'
  <2> SUFFICES ASSUME NEW j \in Recordings
               PROVE  TrueResult(rec[j])'
    OBVIOUS
  <2>1. CASE j = i
    BY <1>2, <1>3, <1>w, <2>1 DEF TrueResult, IsNFTOf
  <2>2. CASE j # i
    <3>1. TrueResult(rec[j]) /\ rec'[j] = rec[j]
      BY <1>3, <2>2
    <3> QED
      BY <1>w, <3>1 DEF TrueResult, IsNFTOf
  <2> QED
    BY <2>1, <2>2
<1>5. CASE rec[i].req \notin Requests
  <2>1. proof' = proof
    BY <1>5, <1>t, <1>w
  <2>2. RecordsTypeOK'
    BY <1>1, <1>3, <1>w, <2>1 DEF RecordsTypeOK, demoVars
  <2>3. ASSUME NEW q \in Requests
        PROVE  TrueProof(q)'
    <3>1. TrueProof(q)
      OBVIOUS
    <3> QED
      BY <1>w, <2>1, <3>1 DEF TrueProof, IsNFTOf
  <2> QED
    BY <1>1, <1>4, <1>w, <2>2, <2>3
<1>6. CASE rec[i].req \in Requests
  <2> DEFINE y == Columns(proof[rec[i].req], rec[i])
  <2>1. /\ y \in [seq : Nat, token : Nat, serial : Nat, nftSerial : Nat]
        /\ y.seq # Null => y.seq \in 1..Len(topic) /\ topic[y.seq] = rec[i].req
        /\ y.nftSerial # Null => IsNFTOf(rec[i].req, y.token, y.nftSerial, {"defendant"})
        /\ collectionSet /\ (y.serial # Null \/ y.nftSerial # Null) => y.token = 1
        /\ collectionSet /\ y.serial # Null => IsNFTOf(rec[i].req, 1, y.serial, AnyHolder)
    BY <1>6, <1>w, ColumnsTrue
  <2> HIDE DEF y
  <2>2. /\ proof' \in [Requests -> [seq : Nat, token : Nat, serial : Nat, nftSerial : Nat]]
        /\ proof'[rec[i].req] = y /\ \A r \in Requests : r # rec[i].req => proof'[r] = proof[r]
    BY <1>6, <1>t, <1>w, <2>1 DEF y
  <2>3. RecordsTypeOK'
    <3>1. RecordsTypeOK
      OBVIOUS
    <3>2. UNCHANGED <<collectionSet, topic, collections, called, skipping>>
      BY <1>w DEF demoVars
    <3> HIDE DEF RecordsInv
    <3> QED
      BY <1>1, <1>3, <2>2, <3>1, <3>2, SMTT(30) DEF RecordsTypeOK
  <2>4. ASSUME NEW r \in Requests
        PROVE  TrueProof(r)'
    <3>1. CASE r = rec[i].req
      BY <3>1, <1>w, <2>1, <2>2 DEF TrueProof, IsNFTOf
    <3>2. CASE r # rec[i].req
      <4>1. TrueProof(r)
        OBVIOUS
      <4> QED
        BY <3>2, <4>1, <1>w, <2>2 DEF TrueProof, IsNFTOf
    <3> QED
      BY <3>1, <3>2
  <2> QED
    BY <1>1, <1>4, <1>w, <2>3, <2>4
<1> QED
  BY <1>1, <1>5, <1>6

\* Every other step: recordings start, or are over, and nothing is recorded.
LEMMA OtherStep ==
  ASSUME RecordsAssumption, RecordsInv, TypeOK', UNCHANGED recordVars \/ rec' \in [Recordings -> Recording],
         UNCHANGED <<collectionSet, topic, collections, proof>>,
         \A i \in Recordings :
            \/ rec'[i] = rec[i]
            \/ \E k \in {"anchor", "record", "nft", "demo", "bounty"}, r \in Requests \cup {NoReq},
                  p \in Workers \cup {Server} : rec'[i] \in {Idle, Started(k, r, p)},
         called' \subseteq Fulfils \cup Skips \cup Bounties,
         skipping' \in [Skips -> Requests \cup {NoReq}]
  PROVE  RecordsInv'
<1> USE DEF RecordsInv
<1>1. RecordsTypeOK'
  BY DEF RecordsTypeOK, recordVars
<1>2. ASSUME NEW i \in Recordings
      PROVE  TrueResult(rec[i])'
  <2>1. TrueResult(rec[i])
    OBVIOUS
  <2>2. CASE rec'[i] = rec[i]
    BY <2>1, <2>2 DEF TrueResult, IsNFTOf
  <2>3. CASE rec'[i] # rec[i]
    <3>1. PICK k \in {"anchor", "record", "nft", "demo", "bounty"}, r \in Requests \cup {NoReq},
               p \in Workers \cup {Server} : rec'[i] \in {Idle, Started(k, r, p)}
      BY <2>3
    <3> DEFINE x == rec'[i]
    <3>2. TrueResult(x)
      BY <3>1, StartedIsTrue
    <3> QED
      BY <3>2 DEF TrueResult, IsNFTOf
  <2> QED
    BY <2>2, <2>3
<1>3. \A r \in Requests : TrueProof(r)'
  BY DEF TrueProof, IsNFTOf
<1> QED
  BY <1>1, <1>2, <1>3

\* One recording starts.
LEMMA StartsOne ==
  ASSUME RecordsTypeOK, NEW i \in Recordings, NEW k \in {"anchor", "record", "nft", "demo", "bounty"},
         NEW r \in Requests \cup {NoReq}, NEW p \in Workers \cup {Server},
         rec' = [rec EXCEPT ![i] = Started(k, r, p)]
  PROVE  /\ rec' \in [Recordings -> Recording]
         /\ \A j \in Recordings : rec'[j] = rec[j] \/ rec'[j] \in {Idle, Started(k, r, p)}
<1>1. Started(k, r, p) \in Recording
  BY StartedIsTrue
<1> QED
  BY <1>1, RecUpdate DEF RecordsTypeOK

\* The steps of Fulfilment, each with what it does to the recordings.
LEMMA CoreStep ==
  ASSUME StoreAssumption, WorkerAssumption, RecordsAssumption, RecordsInv, UNCHANGED demoVars,
         \/ IntakeStep
         \/ \E w \in Workers : WorkerStep(w)
         \/ \E s \in Sigs : Chain!Settle(s) /\ UNCHANGED <<storeVars, workerVars, intake, recordVars, demoVars>>
  PROVE  RecordsInv' /\ TypeOK' /\ Next /\ UNCHANGED proof
<1> USE DEF RecordsInv, demoVars
<1>0. /\ TypeOK /\ RecordsTypeOK /\ called \subseteq Fulfils \cup Skips \cup Bounties
      /\ skipping \in [Skips -> Requests \cup {NoReq}] /\ rec \in [Recordings -> Recording]
  BY DEF RecordsTypeOK
<1>1. CASE IntakeStep
  <2>1. PICK r \in Requests :
           \/ CreateAndAnchor(r)
           \/ (Meter(r) \/ Refuse(r) \/ CreateFails(r)) /\ UNCHANGED <<recordVars, demoVars>>
    BY <1>1 DEF IntakeStep
  <2>2. Next
    BY <2>1 DEF Next, IntakeNext, CreateAndAnchor
  <2>3. TypeOK'
    BY <1>0, <2>2, TypeStep
  <2>4. UNCHANGED <<collectionSet, topic, collections, proof>>
    BY <2>1 DEF CreateAndAnchor, recordVars
  <2>5. CASE CreateAndAnchor(r)
    <3>1. PICK i \in Recordings : rec' = [rec EXCEPT ![i] = Started("anchor", r, Server)]
      BY <2>5 DEF CreateAndAnchor, Free
    <3>2. rec' \in [Recordings -> Recording]
          /\ \A j \in Recordings : rec'[j] = rec[j] \/ rec'[j] \in {Idle, Started("anchor", r, Server)}
      BY <1>0, <3>1, StartsOne
    <3> QED
      BY <1>0, <2>2, <2>3, <2>4, <3>2, OtherStep
  <2>6. CASE UNCHANGED recordVars
    BY <1>0, <2>2, <2>3, <2>4, <2>6, OtherStep DEF recordVars
  <2> QED
    BY <2>1, <2>5, <2>6
<1>2. ASSUME NEW w \in Workers, WorkerStep(w)
      PROVE  RecordsInv' /\ TypeOK' /\ Next /\ UNCHANGED proof
  <2>2. Next
    BY <1>2 DEF WorkerStep, Next, WorkerNext
  <2>3. TypeOK'
    BY <1>0, <2>2, TypeStep
  <2>4. UNCHANGED <<collectionSet, topic, collections, proof>>
    BY <1>2 DEF WorkerStep
  <2>5. CASE pc[w] = "commit" /\ StartsRecordings(w)
    <3>1. job[w] \in Requests
      BY <1>0, <2>5 DEF TypeOK, WorkerTypeOK
    <3>2. PICK i \in Recordings, j \in Recordings :
             rec' = [rec EXCEPT ![i] = Started("record", job[w], w), ![j] = Started("nft", job[w], w)]
      BY <2>5 DEF StartsRecordings, Free
    <3>3. Started("record", job[w], w) \in Recording /\ Started("nft", job[w], w) \in Recording
      BY <3>1, StartedIsTrue
    <3> DEFINE a == Started("record", job[w], w)
               b == Started("nft", job[w], w)
    <3> HIDE DEF a, b
    <3>4. rec' \in [Recordings -> Recording]
          /\ \A l \in Recordings : rec'[l] = rec[l] \/ rec'[l] = a \/ rec'[l] = b
      BY <1>0, <3>2, <3>3 DEF a, b
    <3>5. \A l \in Recordings :
            \/ rec'[l] = rec[l]
            \/ \E k \in {"anchor", "record", "nft", "demo", "bounty"}, r \in Requests \cup {NoReq},
                  p \in Workers \cup {Server} : rec'[l] \in {Idle, Started(k, r, p)}
      BY <3>1, <3>4 DEF a, b
    <3> QED
      BY <1>0, <2>2, <2>3, <2>4, <3>4, <3>5, OtherStep
  <2>6. CASE KillsRecordings(w)
    <3>1. Idle \in Recording
      BY DEF Idle, Recording, Null
    <3>2. rec' \in [Recordings -> Recording]
          /\ \A l \in Recordings : rec'[l] = rec[l] \/ rec'[l] = Idle
      BY <1>0, <2>6, <3>1 DEF KillsRecordings
    <3>3. \A l \in Recordings :
            \/ rec'[l] = rec[l]
            \/ \E k \in {"anchor", "record", "nft", "demo", "bounty"}, r \in Requests \cup {NoReq},
                  p \in Workers \cup {Server} : rec'[l] \in {Idle, Started(k, r, p)}
      BY <3>2
    <3> QED
      BY <1>0, <2>2, <2>3, <2>4, <3>2, <3>3, OtherStep
  <2>7. CASE UNCHANGED rec
    BY <1>0, <2>2, <2>3, <2>4, <2>7, OtherStep
  <2> QED
    BY <1>2, <2>5, <2>6, <2>7 DEF WorkerStep
<1>3. ASSUME NEW s \in Sigs, Chain!Settle(s), UNCHANGED <<storeVars, workerVars, intake, recordVars, demoVars>>
      PROVE  RecordsInv' /\ TypeOK' /\ Next /\ UNCHANGED proof
  <2>2. Next
    BY <1>3 DEF Next, WorkerNext
  <2>3. TypeOK'
    BY <1>0, <2>2, TypeStep
  <2> QED
    BY <1>0, <1>3, <2>2, <2>3, OtherStep DEF recordVars
<1> QED
  BY <1>1, <1>2, <1>3

\* The calls of the demo routes and of run-proof.
LEMMA CallStep ==
  ASSUME StoreAssumption, WorkerAssumption, RecordsAssumption, RecordsInv,
         \/ \E c \in Fulfils : Fulfil(c)
         \/ \E h \in Skips : FindStaged(h) \/ SkipPayment(h)
         \/ \E c \in Bounties : RunProof(c)
  PROVE  /\ RecordsInv' /\ TypeOK' /\ UNCHANGED <<proof, chainVars, workerVars>>
         /\ \A r \in Requests : status'[r] = "CONFIRMED" => status[r] = "CONFIRMED"
<1> USE DEF RecordsInv
<1>0. /\ TypeOK /\ RecordsTypeOK /\ called \subseteq Fulfils \cup Skips \cup Bounties
      /\ skipping \in [Skips -> Requests \cup {NoReq}] /\ rec \in [Recordings -> Recording]
      /\ status \in [Requests -> ServiceStatus \cup {"NONE"}]
  BY DEF RecordsTypeOK, TypeOK, WorkerTypeOK, StoreTypeOK
<1>v. UNCHANGED vars => TypeOK' /\ UNCHANGED <<chainVars, workerVars, status>>
  BY <1>0, TypeStep DEF vars, coreVars, storeVars
<1>1. ASSUME NEW k \in {"demo", "bounty"}, NEW r \in Requests \cup {NoReq}, NEW i \in Recordings,
             rec' = [rec EXCEPT ![i] = Started(k, r, Server)],
             UNCHANGED <<vars, collectionSet, topic, collections, proof, skipping>>,
             called' \subseteq Fulfils \cup Skips \cup Bounties
      PROVE  RecordsInv'
  <2>1. rec' \in [Recordings -> Recording]
        /\ \A j \in Recordings : rec'[j] = rec[j] \/ rec'[j] \in {Idle, Started(k, r, Server)}
    BY <1>0, <1>1, StartsOne
  <2> QED
    BY <1>0, <1>1, <1>v, <2>1, OtherStep
<1>2. ASSUME NEW c \in Fulfils, Fulfil(c)
      PROVE  RecordsInv' /\ UNCHANGED <<vars, proof>>
  <2>1. PICK r \in Requests, i \in Recordings : rec' = [rec EXCEPT ![i] = Started("demo", r, Server)]
    BY <1>2 DEF Fulfil, Rows, Free
  <2> QED
    BY <1>0, <1>1, <1>2, <2>1 DEF Fulfil, Call
<1>3. ASSUME NEW c \in Bounties, RunProof(c)
      PROVE  RecordsInv' /\ UNCHANGED <<vars, proof>>
  <2>1. PICK i \in Recordings : rec' = [rec EXCEPT ![i] = Started("bounty", NoReq, Server)]
    BY <1>3 DEF RunProof, Free
  <2> QED
    BY <1>0, <1>1, <1>3, <2>1 DEF RunProof, Call
<1>4. ASSUME NEW h \in Skips, FindStaged(h)
      PROVE  RecordsInv' /\ UNCHANGED <<vars, proof>>
  <2>1. UNCHANGED <<vars, recordVars>> /\ called' \subseteq Fulfils \cup Skips \cup Bounties
    BY <1>0, <1>4 DEF FindStaged, Call
  <2>2. skipping' \in [Skips -> Requests \cup {NoReq}]
    BY <1>0, <1>4 DEF FindStaged, Rows
  <2> QED
    BY <1>0, <1>v, <2>1, <2>2, OtherStep DEF recordVars
<1>5. ASSUME NEW h \in Skips, SkipPayment(h)
      PROVE  /\ RecordsInv' /\ TypeOK' /\ UNCHANGED <<proof, chainVars, workerVars>>
             /\ \A r \in Requests : status'[r] = "CONFIRMED" => status[r] = "CONFIRMED"
  <2>1. /\ status' = [status EXCEPT ![skipping[h]] = "IN_PROGRESS"]
        /\ UNCHANGED <<createdAt, txSignature, slot, usageCount, audits, workerVars, chainVars, intake,
                       recordVars, called>>
        /\ skipping' \in [Skips -> Requests \cup {NoReq}]
    BY <1>0, <1>5 DEF SkipPayment
  <2>2. status' \in [Requests -> ServiceStatus \cup {"NONE"}]
        /\ \A r \in Requests : status'[r] = "CONFIRMED" => status[r] = "CONFIRMED"
    BY <1>0, <2>1 DEF ServiceStatus
  <2>3. TypeOK'
    BY <1>0, <2>1, <2>2 DEF TypeOK, WorkerTypeOK, StoreTypeOK, Chain!ChainTypeOK, workerVars, chainVars
  <2> QED
    BY <1>0, <2>1, <2>2, <2>3, OtherStep DEF recordVars
<1> QED
  BY <1>v, <1>2, <1>3, <1>4, <1>5

\* The steps of the recordings keep it, whoever started them.
LEMMA RecordsStep ==
  ASSUME StoreAssumption, WorkerAssumption, RecordsAssumption, RecordsInv, [RecordsNext]_allVars
  PROVE  RecordsInv'
<1>1. CASE IntakeStep
  <2>1. UNCHANGED demoVars
    BY <1>1 DEF IntakeStep, CreateAndAnchor, demoVars
  <2> QED
    BY <1>1, <2>1, CoreStep
<1>2. CASE \E w \in Workers : WorkerStep(w)
  <2>1. UNCHANGED demoVars
    BY <1>2 DEF WorkerStep, demoVars
  <2> QED
    BY <1>2, <2>1, CoreStep
<1>3. CASE \E s \in Sigs : Chain!Settle(s) /\ UNCHANGED <<storeVars, workerVars, intake, recordVars, demoVars>>
  <2>1. UNCHANGED demoVars
    BY <1>3
  <2> QED
    BY <1>3, <2>1, CoreStep
<1>4. ASSUME NEW i \in Recordings, HederaStep(i)
      PROVE  RecordsInv'
  <2>1. UNCHANGED <<vars, demoVars>>
    BY <1>4 DEF HederaStep
  <2>2. CASE WriteProofFails(i) \/ AnswerRunProof(i)
    <3>1. End(i) /\ UNCHANGED <<collectionSet, topic, collections, proof>>
      BY <2>2 DEF WriteProofFails, AnswerRunProof
    <3> QED
      BY <2>1, <3>1, EndStep
  <2> QED
    BY <1>4, <2>1, <2>2, SubmitStep, MintStep, TransferStep DEF HederaStep
<1>5. ASSUME NEW i \in Recordings, WriteProof(i)
      PROVE  RecordsInv'
  BY <1>5, WriteProofStep
<1>6. CASE \/ \E c \in Fulfils : Fulfil(c)
           \/ \E h \in Skips : FindStaged(h) \/ SkipPayment(h)
           \/ \E c \in Bounties : RunProof(c)
  BY <1>6, CallStep
<1>7. CASE UNCHANGED allVars
  <2>1. UNCHANGED <<vars, recordVars, demoVars>>
    BY <1>7 DEF allVars
  <2>2. TypeOK'
    BY <2>1, TypeStep DEF RecordsInv, RecordsTypeOK
  <2> QED
    BY <2>1, <2>2, OtherStep DEF RecordsInv, RecordsTypeOK, recordVars, demoVars
<1> QED
  BY <1>1, <1>2, <1>3, <1>4, <1>5, <1>6, <1>7 DEF RecordsNext

\* And so it holds from the start.
LEMMA RecordsStart ==
  ASSUME StoreAssumption, WorkerAssumption, RecordsAssumption, RecordsInit
  PROVE  RecordsInv
<1>1. TypeOK
  BY DEF RecordsInit, Init, WorkerInit, StoreInit, TypeOK, WorkerTypeOK, StoreTypeOK, Locations,
         Chain!ChainInit, Chain!ChainTypeOK, StoreAssumption, WorkerAssumption
<1>2. Idle \in Recording /\ TrueResult(Idle)
  <2>1. NoReq \in Requests \cup {NoReq} /\ Server \in Workers \cup {Server}
    OBVIOUS
  <2> QED
    BY <2>1, StartedIsTrue
<1>3. RecordsTypeOK
  <2>1. collections = << <<>> >> /\ << <<>> >> \in Seq(Seq([req : Requests \cup {NoReq}, holder : {"operator", "defendant"}]))
    BY DEF RecordsInit
  <2> QED
    BY <1>1, <1>2, <2>1 DEF RecordsInit, RecordsTypeOK, Null
<1>4. 1 \in DOMAIN collections
  BY DEF RecordsInit
<1>5. (\A i \in Recordings : TrueResult(rec[i])) /\ (\A r \in Requests : TrueProof(r))
  BY <1>2 DEF RecordsInit, TrueProof
<1> QED
  BY <1>3, <1>4, <1>5 DEF RecordsInv

\* A row CONFIRMED by the worker has its transaction, one CONFIRMED by the
\* demo route its message.
LEMMA ConfirmationStep ==
  ASSUME StoreAssumption, WorkerAssumption, RecordsAssumption, RecordsInv, [RecordsNext]_allVars,
         Verified, EveryConfirmationProven
  PROVE  Verified' /\ EveryConfirmationProven'
<1>t. TypeOK
  BY DEF RecordsInv, RecordsTypeOK
<1>1. CASE TypeOK' /\ [Next]_vars /\ UNCHANGED proof
  <2>1. Verified' /\ NewlyProven
    BY <1>t, <1>1, VerifiedStep
  <2>2. \A s \in Sigs : Chain!Finalized(s) => Chain!Finalized(s)' /\ memoOf'[s] = memoOf[s]
    BY <1>t, <1>1, ChainMonotone
  <2> QED
    BY <1>1, <2>1, <2>2 DEF NewlyProven, EveryConfirmationProven
<1>2. ASSUME UNCHANGED <<chainVars, workerVars>>,
             \A r \in Requests :
                /\ status'[r] = "CONFIRMED" => status[r] = "CONFIRMED" \/ proof'[r].seq # Null
                /\ proof[r].seq # Null => proof'[r].seq # Null
      PROVE  Verified' /\ EveryConfirmationProven'
  BY <1>2 DEF Verified, EveryConfirmationProven, chainVars, workerVars, Chain!Finalized
<1>3. CASE \/ IntakeStep \/ \E w \in Workers : WorkerStep(w)
           \/ \E s \in Sigs : Chain!Settle(s) /\ UNCHANGED <<storeVars, workerVars, intake, recordVars, demoVars>>
  <2>1. UNCHANGED demoVars
    BY <1>3 DEF IntakeStep, CreateAndAnchor, WorkerStep, demoVars
  <2> QED
    BY <1>1, <1>3, <2>1, CoreStep
<1>4. ASSUME NEW i \in Recordings, HederaStep(i)
      PROVE  Verified' /\ EveryConfirmationProven'
  <2>1. UNCHANGED vars /\ UNCHANGED proof
    BY <1>4 DEF HederaStep, SubmitToHCS, SubmitToHCSFails, MintProofNFT, MintProofNFTFails, MintForTransfer,
         TransferNFT, TransferThrows, WriteProofFails, AnswerRunProof
  <2> QED
    BY <2>1, <1>2 DEF vars, coreVars, storeVars
<1>5. ASSUME NEW i \in Recordings, WriteProof(i)
      PROVE  Verified' /\ EveryConfirmationProven'
  <2> DEFINE y == Columns(proof[rec[i].req], rec[i])
  <2>1. /\ rec[i].kind \notin {"idle", "bounty"} /\ Settled(i) /\ UNCHANGED <<chainVars, workerVars>>
        /\ proof' = [proof EXCEPT ![rec[i].req] = y]
        /\ status' = IF rec[i].kind = "demo" THEN [status EXCEPT ![rec[i].req] = "CONFIRMED"] ELSE status
    BY <1>5 DEF WriteProof
  <2>2. /\ status \in [Requests -> ServiceStatus \cup {"NONE"}]
        /\ proof \in [Requests -> [seq : Nat, token : Nat, serial : Nat, nftSerial : Nat]]
    BY DEF RecordsInv, RecordsTypeOK, TypeOK, WorkerTypeOK, StoreTypeOK
  <2>3. rec[i].req \in Requests => /\ rec[i].kind = "demo" => y.seq # Null
                                   /\ proof[rec[i].req].seq # Null => y.seq # Null
    BY <2>1, ColumnsTrue
  <2> HIDE DEF y
  <2>4. ASSUME NEW r \in Requests
        PROVE  /\ status'[r] = "CONFIRMED" => status[r] = "CONFIRMED" \/ proof'[r].seq # Null
               /\ proof[r].seq # Null => proof'[r].seq # Null
    <3>1. CASE r = rec[i].req
      BY <2>1, <2>2, <2>3, <3>1
    <3>2. CASE r # rec[i].req
      BY <2>1, <2>2, <3>2
    <3> QED
      BY <3>1, <3>2
  <2> QED
    BY <1>2, <2>1, <2>4
<1>6. CASE \/ \E c \in Fulfils : Fulfil(c)
           \/ \E h \in Skips : FindStaged(h) \/ SkipPayment(h)
           \/ \E c \in Bounties : RunProof(c)
  BY <1>2, <1>6, CallStep
<1>7. CASE UNCHANGED allVars
  BY <1>2, <1>7 DEF allVars, vars, coreVars, storeVars, recordVars
<1> QED
  BY <1>3, <1>4, <1>5, <1>6, <1>7 DEF RecordsNext

-----------------------------------------------------------------------------
\* Topic, collections, recordings and rows fit together, whichever recordings
\* race, fail half-way or are killed.
THEOREM RecordsInvariant == RecordsSpec => []RecordsInv
<1> USE StoreAssumption, WorkerAssumption, RecordsAssumption
<1>1. RecordsInit => RecordsInv
  BY RecordsStart
<1>2. RecordsInv /\ [RecordsNext]_allVars => RecordsInv'
  BY RecordsStep
<1> QED
  BY <1>1, <1>2, PTL DEF RecordsSpec

\* The message and the transferred NFT that a row names are its own.
THEOREM ProofsReal == RecordsSpec => []ProofsAreReal
<1>1. RecordsInv => ProofsAreReal
  BY DEF RecordsInv, TrueProof, ProofsAreReal, RecordsTypeOK
<1> QED
  BY <1>1, RecordsInvariant, PTL

\* With a collection configured the receipt it names is too, although two
\* recordings write its token.
THEOREM ReceiptReal == RecordsSpec => []ReceiptIsReal
<1>1. RecordsInv => ReceiptIsReal
  BY DEF RecordsInv, TrueProof, ReceiptIsReal, AnyHolder
<1> QED
  BY <1>1, RecordsInvariant, PTL

\* No row is CONFIRMED with nothing to show for it, though the demo routes
\* write its status by id after a look that may be stale.
THEOREM ConfirmationsProven == RecordsSpec => []EveryConfirmationProven
<1> USE StoreAssumption, WorkerAssumption, RecordsAssumption
<1>1. RecordsInit => Verified /\ EveryConfirmationProven
  BY DEF RecordsInit, Init, WorkerInit, StoreInit, Verified, EveryConfirmationProven
<1>2. RecordsInv /\ [RecordsNext]_allVars /\ Verified /\ EveryConfirmationProven
        => Verified' /\ EveryConfirmationProven'
  BY ConfirmationStep
<1> QED
  BY <1>1, <1>2, RecordsInvariant, PTL DEF RecordsSpec

-----------------------------------------------------------------------------
(* What the demo calls cost the meter, with a single worker.               *)

SingleWorker == \A v, w \in Workers : v = w

\* The row in a worker's hands holds its unit: what a demo call may have made of
\* it meanwhile is IN_PROGRESS or CONFIRMED.
HeldOpen == \A w \in Workers : Holding(w) => status[job[w]] \in {"IN_PROGRESS", "CONFIRMED"}

\* A step that moves a unit between a submission and the meter, or none.
BillStep ==
    \/ UNCHANGED usageCount /\ \A q \in Requests : Billed(q)' <=> Billed(q)
    \/ \E r \in Requests :
         /\ \A q \in Requests : q # r => (Billed(q)' <=> Billed(q))
         /\ \/ /\ ~Billed(r) /\ Billed(r)'
               /\ IF OrgOf[r] = NoOrg THEN UNCHANGED usageCount ELSE CheckAndDecrementQuota(OrgOf[r])
            \/ /\ Billed(r) /\ ~Billed(r)'
               /\ OrgOf[r] # NoOrg /\ RestoreQuota(OrgOf[r])

\* A status written by id, after which the submission holds its unit.
StaleWrite ==
    /\ UNCHANGED usageCount
    /\ \E r \in Requests : /\ Billed(r)'
                          /\ \A q \in Requests : q # r => (Billed(q)' <=> Billed(q))

\* The first keeps the drift of every organization, or lowers it where the floor
\* of restoreQuota is reached; the second raises it by one at most.
LEMMA DriftStep ==
  ASSUME StoreAssumption, TypeOK, TypeOK', NEW o \in Orgs, Drift(o) >= 0
  PROVE  /\ IsFiniteSet(Holders(o)) /\ Drift(o) \in Int /\ Drift(o)' \in Int
         /\ BillStep => 0 <= Drift(o)' /\ Drift(o)' <= Drift(o)
         /\ StaleWrite => 0 <= Drift(o)' /\ Drift(o)' <= Drift(o) + 1
<1>t. /\ usageCount \in [Orgs -> Nat] /\ usageCount' \in [Orgs -> Nat] /\ o # NoOrg
  BY DEF TypeOK, WorkerTypeOK, StoreTypeOK, StoreAssumption
<1>f. IsFiniteSet(Holders(o)) /\ IsFiniteSet(Holders(o)')
  BY FS_Subset DEF Holders, StoreAssumption
<1>c. Cardinality(Holders(o)) \in Nat /\ Cardinality(Holders(o)') \in Nat
  BY <1>f, FS_CardinalityType
<1>d. /\ Drift(o) = Cardinality(Holders(o)) - usageCount[o]
      /\ Drift(o)' = Cardinality(Holders(o)') - usageCount'[o]
  BY DEF Drift, Holders
<1>s. \A q \in Requests : /\ q \in Holders(o) <=> OrgOf[q] = o /\ Billed(q)
                          /\ q \in Holders(o)' <=> OrgOf[q] = o /\ Billed(q)'
  BY DEF Holders
<1>r. Holders(o) \subseteq Requests /\ Holders(o)' \subseteq Requests
  BY DEF Holders
<1>i. Drift(o) \in Int /\ Drift(o)' \in Int
  BY <1>c, <1>d, <1>t
<1>1. ASSUME UNCHANGED usageCount, \A q \in Requests : Billed(q)' <=> Billed(q)
      PROVE  Drift(o)' = Drift(o)
  <2>1. Holders(o)' = Holders(o)
    BY <1>1, <1>r, <1>s
  <2> QED
    BY <1>1, <1>d, <2>1
<1>2. ASSUME NEW r \in Requests, \A q \in Requests : q # r => (Billed(q)' <=> Billed(q)),
             ~Billed(r), Billed(r)',
             IF OrgOf[r] = NoOrg THEN UNCHANGED usageCount ELSE CheckAndDecrementQuota(OrgOf[r])
      PROVE  Drift(o)' = Drift(o)
  <2>1. CASE OrgOf[r] = o
    <3>1. Holders(o)' = Holders(o) \cup {r} /\ r \notin Holders(o)
      BY <1>2, <1>r, <1>s, <2>1
    <3>2. Cardinality(Holders(o)') = Cardinality(Holders(o)) + 1
      BY <1>f, <3>1, FS_AddElement
    <3> QED
      BY <1>2, <1>c, <1>d, <1>t, <2>1, <3>2 DEF CheckAndDecrementQuota
  <2>2. CASE OrgOf[r] # o
    <3>1. Holders(o)' = Holders(o)
      BY <1>2, <1>r, <1>s, <2>2
    <3>2. usageCount'[o] = usageCount[o]
      BY <1>2, <1>t, <2>2 DEF CheckAndDecrementQuota
    <3> QED
      BY <1>d, <3>1, <3>2
  <2> QED
    BY <2>1, <2>2
<1>3. ASSUME NEW r \in Requests, \A q \in Requests : q # r => (Billed(q)' <=> Billed(q)),
             Billed(r), ~Billed(r)', OrgOf[r] # NoOrg, RestoreQuota(OrgOf[r])
      PROVE  0 <= Drift(o)' /\ Drift(o)' <= Drift(o)
  <2>1. CASE OrgOf[r] = o
    <3>1. Holders(o)' = Holders(o) \ {r} /\ r \in Holders(o)
      BY <1>3, <1>r, <1>s, <2>1
    <3>2. Cardinality(Holders(o)') = Cardinality(Holders(o)) - 1
      BY <1>f, <3>1, FS_RemoveElement
    <3>3. usageCount'[o] = IF usageCount[o] > 0 THEN usageCount[o] - 1 ELSE usageCount[o]
      BY <1>3, <1>t, <2>1 DEF RestoreQuota
    <3> QED
      BY <1>c, <1>d, <1>t, <3>2, <3>3
  <2>2. CASE OrgOf[r] # o
    <3>1. Holders(o)' = Holders(o)
      BY <1>3, <1>r, <1>s, <2>2
    <3>2. usageCount'[o] = usageCount[o]
      BY <1>3, <1>t, <2>2 DEF RestoreQuota
    <3> QED
      BY <1>d, <1>i, <3>1, <3>2
  <2> QED
    BY <2>1, <2>2
<1>4. BillStep => 0 <= Drift(o)' /\ Drift(o)' <= Drift(o)
  BY <1>1, <1>2, <1>3, <1>i DEF BillStep
<1>5. ASSUME UNCHANGED usageCount, NEW r \in Requests, Billed(r)',
             \A q \in Requests : q # r => (Billed(q)' <=> Billed(q))
      PROVE  0 <= Drift(o)' /\ Drift(o)' <= Drift(o) + 1
  <2>1. Holders(o)' = Holders(o) \/ Holders(o)' = Holders(o) \cup {r}
    BY <1>5, <1>r, <1>s
  <2>2. Cardinality(Holders(o)') \in {Cardinality(Holders(o)), Cardinality(Holders(o)) + 1}
    BY <1>f, <2>1, FS_AddElement
  <2> QED
    BY <1>5, <1>c, <1>d, <1>t, <2>2
<1> QED
  BY <1>f, <1>i, <1>4, <1>5 DEF StaleWrite

\* An update of the status of a row that exists.
LEMMA StatusBills ==
  ASSUME TypeOK, RowPerSubmission, UNCHANGED intake, NEW r \in Rows,
         NEW new \in {"IN_PROGRESS", "CONFIRMED", "FAILED"}, status' = [status EXCEPT ![r] = new]
  PROVE  /\ RowPerSubmission' /\ \A q \in Rows : q \in Rows'
         /\ \A q \in Requests : q # r => status'[q] = status[q] /\ (Billed(q)' <=> Billed(q))
         /\ status'[r] = new
         /\ Billed(r) <=> status[r] # "FAILED"
         /\ Billed(r)' <=> new # "FAILED"
<1>1. /\ status \in [Requests -> ServiceStatus \cup {"NONE"}] /\ r \in Requests /\ status[r] # "NONE"
  BY DEF TypeOK, WorkerTypeOK, StoreTypeOK, Rows
<1>2. intake[r] = "staged" /\ intake' = intake
  BY <1>1 DEF RowPerSubmission
<1>3. status'[r] = new /\ \A q \in Requests : q # r => status'[q] = status[q]
  BY <1>1
<1>4. RowPerSubmission' /\ \A q \in Rows : q \in Rows'
  BY <1>1, <1>2, <1>3 DEF RowPerSubmission, Rows
<1>5. /\ Billed(r) <=> status[r] # "FAILED"
      /\ Billed(r)' <=> new # "FAILED"
      /\ \A q \in Requests : q # r => (Billed(q)' <=> Billed(q))
  BY <1>2, <1>3 DEF Billed
<1> QED
  BY <1>3, <1>4, <1>5

\* Intake and the only worker keep the meter and the units together, whatever a
\* demo call has made of the rows.
LEMMA CoreBills ==
  ASSUME SingleWorker, TypeOK, RowPerSubmission, HeldOpen, [Next]_vars
  PROVE  BillStep /\ RowPerSubmission' /\ HeldOpen' /\ \A q \in Rows : q \in Rows'
<1>t. /\ intake \in [Requests -> {"idle", "metered", "staged", "refused", "lost"}]
      /\ status \in [Requests -> ServiceStatus \cup {"NONE"}]
      /\ pc \in [Workers -> Locations]
      /\ \A w \in Workers : pc[w] \notin {"down", "exited", "poll"} => job[w] \in Requests
      /\ \A w \in Workers : Holding(w) => job[w] \in Rows
  BY DEF TypeOK, WorkerTypeOK, StoreTypeOK, HeldOpen, Holding, Rows
<1>1. ASSUME UNCHANGED <<status, intake, usageCount>>
      PROVE  BillStep /\ RowPerSubmission' /\ \A q \in Rows : q \in Rows'
  BY <1>1 DEF BillStep, RowPerSubmission, Billed, Rows
<1>2. ASSUME NEW r \in Requests, Meter(r) \/ Refuse(r) \/ Create(r) \/ CreateFails(r)
      PROVE  BillStep /\ RowPerSubmission' /\ HeldOpen' /\ \A q \in Rows : q \in Rows'
  <2>1. UNCHANGED workerVars /\ \A q \in Rows : status'[q] = status[q]
    BY <1>2, <1>t DEF Meter, Refuse, Create, CreateFails, CreateRow, coreVars, storeVars, Rows
  <2>2. HeldOpen' /\ \A q \in Rows : q \in Rows'
    BY <1>t, <2>1 DEF HeldOpen, Holding, workerVars, Rows
  <2>3. RowPerSubmission'
    BY <1>2, IntakeMeters
  <2>4. \A q \in Requests : q # r => intake'[q] = intake[q] /\ status'[q] = status[q]
    BY <1>2, <1>t DEF Meter, Refuse, Create, CreateFails, CreateRow, coreVars, storeVars
  <2>5. \A q \in Requests : q # r => (Billed(q)' <=> Billed(q))
    BY <2>4 DEF Billed
  <2>6. CASE Meter(r)
    <3>1. ~Billed(r) /\ Billed(r)'
      BY <1>t, <2>6 DEF Meter, Billed
    <3> QED
      BY <2>2, <2>3, <2>5, <2>6, <3>1 DEF Meter, BillStep
  <2>7. CASE Refuse(r) \/ Create(r) \/ CreateFails(r)
    <3>1. UNCHANGED usageCount /\ (Billed(r)' <=> Billed(r))
      BY <1>t, <2>7 DEF Refuse, Create, CreateFails, CreateRow, coreVars, storeVars, Billed
    <3> QED
      BY <2>2, <2>3, <2>5, <3>1 DEF BillStep
  <2> QED
    BY <1>2, <2>6, <2>7
<1>3. ASSUME NEW w \in Workers, UNCHANGED intake,
             Start(w) \/ RunOnce(w) \/ DbRefuses(w) \/ DbReplyLost(w) \/ Crash(w)
      PROVE  BillStep /\ RowPerSubmission' /\ HeldOpen' /\ \A q \in Rows : q \in Rows'
  <2>0. \A v \in Workers : v = w
    BY DEF SingleWorker
  <2>1. \/ UNCHANGED <<status, usageCount>> /\ (Holding(w)' => Holding(w) /\ job'[w] = job[w])
        \/ /\ pc[w] = "claim" /\ FlipToInProgress(job[w])
           /\ Holding(w)' => job'[w] = job[w]
        \/ /\ pc[w] = "commit" /\ WriteConfirmed(job[w], slotRead[w])
           /\ Holding(w)' => job'[w] = job[w]
        \/ pc[w] = "fail" /\ FailServiceRequest(job[w]) /\ ~Holding(w)'
    BY <1>3, <1>t DEF RunOnce, Start, Find, FindNothing, Claim, LoseClaim, Send, SendFails, SendReplyLost,
       Persist, WriteSignature, Confirm, ConfirmFails, Verify, VerifyFails, Commit, Fail, FailThrows,
       DbRefuses, DbReplyLost, Crash, Goto, Forget, NothingClaimed, Thrown, storeVars, Holding
  <2>2. CASE UNCHANGED <<status, usageCount>> /\ (Holding(w)' => Holding(w) /\ job'[w] = job[w])
    <3>1. HeldOpen'
      BY <2>0, <2>2 DEF HeldOpen
    <3> QED
      BY <1>1, <1>3, <2>2, <3>1
  <2>3. ASSUME pc[w] \in {"claim", "commit"}, NEW new \in {"IN_PROGRESS", "CONFIRMED"},
               job[w] \in Rows, status[job[w]] # "FAILED",
               status' = [status EXCEPT ![job[w]] = new], UNCHANGED usageCount,
               Holding(w)' => job'[w] = job[w]
        PROVE  BillStep /\ RowPerSubmission' /\ HeldOpen' /\ \A q \in Rows : q \in Rows'
    <3>1. /\ RowPerSubmission' /\ \A q \in Rows : q \in Rows'
          /\ \A q \in Requests : Billed(q)' <=> Billed(q)
          /\ status'[job[w]] = new
      BY <1>3, <2>3, StatusBills
    <3>2. HeldOpen'
      BY <2>0, <2>3, <3>1 DEF HeldOpen
    <3> QED
      BY <2>3, <3>1, <3>2 DEF BillStep
  <2>4. CASE pc[w] = "claim" /\ FlipToInProgress(job[w]) /\ (Holding(w)' => job'[w] = job[w])
    BY <1>t, <2>3, <2>4 DEF FlipToInProgress, CLAIMABLE, Rows
  <2>5. CASE pc[w] = "commit" /\ WriteConfirmed(job[w], slotRead[w]) /\ (Holding(w)' => job'[w] = job[w])
    <3>1. job[w] \in Rows /\ status[job[w]] # "FAILED"
      BY <1>t, <2>5 DEF HeldOpen, Holding
    <3> QED
      BY <2>3, <2>5, <3>1 DEF WriteConfirmed
  <2>6. CASE pc[w] = "fail" /\ FailServiceRequest(job[w]) /\ ~Holding(w)'
    <3>1. PICK r \in Rows : r = job[w] /\ r \in Requests /\ status[r] # "FAILED"
      BY <1>t, <2>6 DEF HeldOpen, Holding, Rows
    <3>2. /\ status' = [status EXCEPT ![r] = "FAILED"]
          /\ OrgOf[r] # NoOrg /\ RestoreQuota(OrgOf[r])
      BY <2>6, <3>1 DEF FailServiceRequest
    <3>3. /\ RowPerSubmission' /\ \A q \in Rows : q \in Rows'
          /\ \A q \in Requests : q # r => (Billed(q)' <=> Billed(q))
          /\ Billed(r) /\ ~Billed(r)'
      BY <1>3, <3>1, <3>2, StatusBills
    <3>4. HeldOpen'
      BY <2>0, <2>6 DEF HeldOpen
    <3> QED
      BY <3>1, <3>2, <3>3, <3>4 DEF BillStep
  <2> QED
    BY <2>1, <2>2, <2>4, <2>5, <2>6
<1>4. ASSUME UNCHANGED <<storeVars, workerVars, intake>>
      PROVE  BillStep /\ RowPerSubmission' /\ HeldOpen' /\ \A q \in Rows : q \in Rows'
  <2>1. HeldOpen'
    BY <1>4 DEF HeldOpen, Holding, storeVars, workerVars
  <2> QED
    BY <1>1, <1>4, <2>1 DEF storeVars
<1> QED
  BY <1>2, <1>3, <1>4, NextCases DEF vars, coreVars

\* The calls of the demo routes whose write is still to come.
DemoRecs == {i \in Recordings : rec[i].kind = "demo"}
DemoSkips == {h \in Skips : skipping[h] # NoReq}
DemoCalls == called \ Bounties

\* They are about rows, and every unit the meter misses has its call: one that
\* has written, so none of those that have not.
DriftInv ==
    /\ RowPerSubmission /\ HeldOpen
    /\ \A i \in DemoRecs : rec[i].req \in Rows
    /\ \A h \in DemoSkips : skipping[h] \in Rows
    /\ IsFiniteSet(DemoRecs) /\ IsFiniteSet(DemoSkips) /\ IsFiniteSet(DemoCalls)
    /\ \A o \in Orgs :
          /\ Drift(o) >= 0
          /\ Drift(o) + Cardinality(DemoRecs) + Cardinality(DemoSkips) <= Cardinality(DemoCalls)

\* The arithmetic of it: a call's write costs what the call has paid.
LEMMA Budget ==
  ASSUME NEW d \in Int, NEW e \in Int, NEW n \in Nat, NEW m \in Nat, NEW k \in Nat,
         NEW p \in Nat, NEW q \in Nat, NEW j \in Nat, d + n + m <= k,
         \/ e <= d /\ p <= n /\ q <= m /\ j = k
         \/ e <= d + 1 /\ p + q = n + m - 1 /\ j = k
         \/ e <= d /\ p + q <= n + m + 1 /\ j = k + 1
  PROVE  e + p + q <= j
  OBVIOUS

\* A call that begins pays for what its write may spoil.
LEMMA DriftKept ==
  ASSUME StoreAssumption, TypeOK, TypeOK', DriftInv, RowPerSubmission', HeldOpen',
         \A i \in DemoRecs' : rec'[i].req \in Rows',
         \A h \in DemoSkips' : skipping'[h] \in Rows',
         \/ BillStep /\ DemoRecs' \subseteq DemoRecs /\ DemoSkips' \subseteq DemoSkips /\ DemoCalls' = DemoCalls
         \/ /\ StaleWrite /\ DemoCalls' = DemoCalls
            /\ \/ DemoSkips' = DemoSkips /\ \E i \in DemoRecs : DemoRecs' = DemoRecs \ {i}
               \/ DemoRecs' = DemoRecs /\ \E h \in DemoSkips : DemoSkips' = DemoSkips \ {h}
         \/ /\ BillStep /\ \E c : c \notin DemoCalls /\ DemoCalls' = DemoCalls \cup {c}
            /\ \/ DemoSkips' = DemoSkips /\ \E i : DemoRecs' = DemoRecs \cup {i}
               \/ DemoRecs' = DemoRecs /\ \E h : DemoSkips' = DemoSkips \cup {h}
  PROVE  DriftInv'
<1> DEFINE n == Cardinality(DemoRecs)
           m == Cardinality(DemoSkips)
           k == Cardinality(DemoCalls)
<1>1. /\ IsFiniteSet(DemoRecs) /\ IsFiniteSet(DemoSkips) /\ IsFiniteSet(DemoCalls)
      /\ n \in Nat /\ m \in Nat /\ k \in Nat
  BY FS_CardinalityType DEF DriftInv
<1>2. /\ IsFiniteSet(DemoRecs') /\ IsFiniteSet(DemoSkips') /\ IsFiniteSet(DemoCalls')
      /\ n' \in Nat /\ m' \in Nat /\ k' \in Nat
      /\ \/ BillStep /\ n' <= n /\ m' <= m /\ k' = k
         \/ StaleWrite /\ n' + m' = n + m - 1 /\ k' = k
         \/ BillStep /\ n' + m' <= n + m + 1 /\ k' = k + 1
  <2>1. CASE BillStep /\ DemoRecs' \subseteq DemoRecs /\ DemoSkips' \subseteq DemoSkips /\ DemoCalls' = DemoCalls
    <3>1. IsFiniteSet(DemoRecs') /\ n' <= n /\ IsFiniteSet(DemoSkips') /\ m' <= m
      BY <1>1, <2>1, FS_Subset
    <3> QED
      BY <1>1, <2>1, <3>1, FS_CardinalityType
  <2>2. CASE /\ StaleWrite /\ DemoCalls' = DemoCalls
             /\ \/ DemoSkips' = DemoSkips /\ \E i \in DemoRecs : DemoRecs' = DemoRecs \ {i}
                \/ DemoRecs' = DemoRecs /\ \E h \in DemoSkips : DemoSkips' = DemoSkips \ {h}
    <3>1. CASE DemoSkips' = DemoSkips /\ \E i \in DemoRecs : DemoRecs' = DemoRecs \ {i}
      <4>0. PICK i \in DemoRecs : DemoRecs' = DemoRecs \ {i}
        BY <3>1
      <4>1. IsFiniteSet(DemoRecs') /\ n' = n - 1
        <5>1. IsFiniteSet(DemoRecs \ {i}) /\ Cardinality(DemoRecs \ {i}) = Cardinality(DemoRecs) - 1
          BY <1>1, <4>0, FS_RemoveElement
        <5> QED
          BY <1>1, <4>0, <5>1
      <4> QED
        BY <1>1, <2>2, <3>1, <4>1, FS_CardinalityType
    <3>2. CASE DemoRecs' = DemoRecs /\ \E h \in DemoSkips : DemoSkips' = DemoSkips \ {h}
      <4>0. PICK h \in DemoSkips : DemoSkips' = DemoSkips \ {h}
        BY <3>2
      <4>1. IsFiniteSet(DemoSkips') /\ m' = m - 1
        <5>1. IsFiniteSet(DemoSkips \ {h}) /\ Cardinality(DemoSkips \ {h}) = Cardinality(DemoSkips) - 1
          BY <1>1, <4>0, FS_RemoveElement
        <5> QED
          BY <1>1, <4>0, <5>1
      <4> QED
        BY <1>1, <2>2, <3>2, <4>1, FS_CardinalityType
    <3> QED
      BY <2>2, <3>1, <3>2
  <2>3. CASE /\ BillStep /\ \E c : c \notin DemoCalls /\ DemoCalls' = DemoCalls \cup {c}
             /\ \/ DemoSkips' = DemoSkips /\ \E i : DemoRecs' = DemoRecs \cup {i}
                \/ DemoRecs' = DemoRecs /\ \E h : DemoSkips' = DemoSkips \cup {h}
    <3>0. PICK c : c \notin DemoCalls /\ DemoCalls' = DemoCalls \cup {c}
      BY <2>3
    <3>1. IsFiniteSet(DemoCalls') /\ k' = k + 1 /\ k' \in Nat
      <4>1. IsFiniteSet(DemoCalls \cup {c}) /\ Cardinality(DemoCalls \cup {c}) = Cardinality(DemoCalls) + 1
        BY <1>1, <3>0, FS_AddElement
      <4> QED
        BY <1>1, <3>0, <4>1
    <3>2. CASE DemoSkips' = DemoSkips /\ \E i : DemoRecs' = DemoRecs \cup {i}
      <4>0. PICK i : DemoRecs' = DemoRecs \cup {i}
        BY <3>2
      <4>1. IsFiniteSet(DemoRecs') /\ n' \in {n, n + 1}
        <5>1. IsFiniteSet(DemoRecs \cup {i}) /\ Cardinality(DemoRecs \cup {i}) \in {Cardinality(DemoRecs), Cardinality(DemoRecs) + 1}
          BY <1>1, <4>0, FS_AddElement
        <5> QED
          BY <1>1, <4>0, <5>1
      <4> QED
        BY <1>1, <2>3, <3>1, <3>2, <4>1
    <3>3. CASE DemoRecs' = DemoRecs /\ \E h : DemoSkips' = DemoSkips \cup {h}
      <4>0. PICK h : DemoSkips' = DemoSkips \cup {h}
        BY <3>3
      <4>1. IsFiniteSet(DemoSkips') /\ m' \in {m, m + 1}
        <5>1. IsFiniteSet(DemoSkips \cup {h}) /\ Cardinality(DemoSkips \cup {h}) \in {Cardinality(DemoSkips), Cardinality(DemoSkips) + 1}
          BY <1>1, <4>0, FS_AddElement
        <5> QED
          BY <1>1, <4>0, <5>1
      <4> QED
        BY <1>1, <2>3, <3>1, <3>3, <4>1
    <3> QED
      BY <2>3, <3>2, <3>3
  <2> QED
    BY <2>1, <2>2, <2>3
<1>3. ASSUME NEW o \in Orgs
      PROVE  Drift(o)' >= 0 /\ Drift(o)' + n' + m' <= k'
  <2>1. Drift(o) >= 0 /\ Drift(o) + n + m <= k
    BY DEF DriftInv
  <2>2. /\ Drift(o) \in Int /\ Drift(o)' \in Int
        /\ BillStep => 0 <= Drift(o)' /\ Drift(o)' <= Drift(o)
        /\ StaleWrite => 0 <= Drift(o)' /\ Drift(o)' <= Drift(o) + 1
    BY <2>1, DriftStep
  <2>3. /\ n \in Nat /\ m \in Nat /\ k \in Nat /\ n' \in Nat /\ m' \in Nat /\ k' \in Nat
    BY <1>1, <1>2
  <2>4. \/ Drift(o)' <= Drift(o) /\ n' <= n /\ m' <= m /\ k' = k
        \/ Drift(o)' <= Drift(o) + 1 /\ n' + m' = n + m - 1 /\ k' = k
        \/ Drift(o)' <= Drift(o) /\ n' + m' <= n + m + 1 /\ k' = k + 1
    BY <1>2, <2>2
  <2>5. Drift(o)' >= 0
    BY <1>2, <2>2
  <2>6. Drift(o)' + n' + m' <= k'
    BY <2>1, <2>2, <2>3, <2>4, Budget
  <2> QED
    BY <2>5, <2>6
<1> QED
  BY <1>2, <1>3 DEF DriftInv

\* A recording neither becomes one of the demo route on the way nor changes the
\* row it is about.
LEMMA RecsKept ==
  ASSUME RecordsTypeOK, [RecordsNext]_allVars, ~\E c \in Fulfils : Fulfil(c)
  PROVE  \A i \in DemoRecs' : i \in DemoRecs /\ rec'[i].req = rec[i].req
<1>t. rec \in [Recordings -> Recording]
  BY DEF RecordsTypeOK
<1>k. \A k \in {"anchor", "record", "nft", "demo", "bounty"} : \A r, p :
         Started(k, r, p).kind = k /\ Idle.kind = "idle"
  BY DEF Started, Idle
<1>1. ASSUME NEW i \in Recordings, NEW x, rec' = [rec EXCEPT ![i] = x],
             x.kind = "demo" => rec[i].kind = "demo" /\ x.req = rec[i].req
      PROVE  \A j \in DemoRecs' : j \in DemoRecs /\ rec'[j].req = rec[j].req
  <2> SUFFICES ASSUME NEW j \in Recordings, rec'[j].kind = "demo"
               PROVE  rec[j].kind = "demo" /\ rec'[j].req = rec[j].req
    BY DEF DemoRecs
  <2>1. CASE j = i
    <3>1. rec'[j] = x
      BY <1>1, <1>t, <2>1
    <3> QED
      BY <1>1, <2>1, <3>1
  <2>2. CASE j # i
    BY <1>1, <1>t, <2>2
  <2> QED
    BY <2>1, <2>2
<1>2. ASSUME UNCHANGED rec
      PROVE  \A j \in DemoRecs' : j \in DemoRecs /\ rec'[j].req = rec[j].req
  BY <1>2 DEF DemoRecs
<1>3. CASE IntakeStep
  <2>1. CASE \E r \in Requests : CreateAndAnchor(r)
    <3>1. PICK r \in Requests, i \in Recordings : rec' = [rec EXCEPT ![i] = Started("anchor", r, Server)]
      BY <2>1 DEF CreateAndAnchor, Free
    <3>2. Started("anchor", r, Server).kind = "anchor"
      BY <1>k
    <3> QED
      BY <1>1, <3>1, <3>2
  <2>2. CASE UNCHANGED rec
    BY <1>2, <2>2
  <2> QED
    BY <1>3, <2>1, <2>2 DEF IntakeStep, recordVars
<1>4. ASSUME NEW w \in Workers, WorkerStep(w)
      PROVE  \A j \in DemoRecs' : j \in DemoRecs /\ rec'[j].req = rec[j].req
  <2>1. CASE StartsRecordings(w)
    <3> DEFINE a == Started("record", job[w], w)
               b == Started("nft", job[w], w)
    <3>1. PICK i \in Recordings, j \in Recordings : rec' = [rec EXCEPT ![i] = a, ![j] = b]
      BY <2>1 DEF StartsRecordings, Free
    <3>2. a.kind = "record" /\ b.kind = "nft"
      BY <1>k
    <3> HIDE DEF a, b
    <3> QED
      BY <1>t, <3>1, <3>2 DEF DemoRecs
  <2>2. CASE KillsRecordings(w)
    <3>1. Idle.kind = "idle"
      BY <1>k
    <3> QED
      BY <1>t, <2>2, <3>1 DEF KillsRecordings, DemoRecs
  <2> QED
    BY <1>2, <1>4, <2>1, <2>2 DEF WorkerStep
<1>5. ASSUME NEW i \in Recordings, HederaStep(i) \/ WriteProof(i)
      PROVE  \A j \in DemoRecs' : j \in DemoRecs /\ rec'[j].req = rec[j].req
  <2>1. rec[i] \in Recording /\ Idle.kind = "idle"
    BY <1>k, <1>t
  <2>2. CASE End(i)
    BY <1>1, <2>1, <2>2 DEF End
  <2>3. ASSUME NEW n, rec' = [rec EXCEPT ![i] = [rec[i] EXCEPT !.hcs = n]]
        PROVE  \A j \in DemoRecs' : j \in DemoRecs /\ rec'[j].req = rec[j].req
    BY <1>1, <2>1, <2>3 DEF Recording
  <2>4. ASSUME NEW n, rec' = [rec EXCEPT ![i] = [rec[i] EXCEPT !.serial = n]]
        PROVE  \A j \in DemoRecs' : j \in DemoRecs /\ rec'[j].req = rec[j].req
    BY <1>1, <2>1, <2>4 DEF Recording
  <2>5. ASSUME NEW t, NEW n, rec' = [rec EXCEPT ![i].token = t, ![i].serial = n]
        PROVE  \A j \in DemoRecs' : j \in DemoRecs /\ rec'[j].req = rec[j].req
    <3> DEFINE x == [rec[i] EXCEPT !.token = t, !.serial = n]
    <3>1. x.kind = rec[i].kind /\ x.req = rec[i].req
      BY <2>1 DEF Recording
    <3>2. rec' = [rec EXCEPT ![i] = x]
      BY <1>t, <2>5
    <3> HIDE DEF x
    <3> QED
      BY <1>1, <3>1, <3>2
  <2>6. CASE rec' = [rec EXCEPT ![i] = [rec[i] EXCEPT !.moved = TRUE]]
    BY <1>1, <2>1, <2>6 DEF Recording
  <2>7. CASE SubmitToHCS(i) \/ SubmitToHCSFails(i)
    BY <2>2, <2>3, <2>7 DEF SubmitToHCS, SubmitToHCSFails
  <2>8. CASE MintProofNFT(i) \/ MintProofNFTFails(i) \/ MintForTransfer(i) \/ TransferThrows(i)
    <3>1. CASE MintProofNFT(i)
      BY <2>5, <3>1 DEF MintProofNFT
    <3>2. CASE MintForTransfer(i)
      BY <2>5, <3>2 DEF MintForTransfer
    <3>3. CASE MintProofNFTFails(i)
      BY <2>4, <3>3 DEF MintProofNFTFails
    <3>4. CASE TransferThrows(i)
      BY <2>2, <2>5, <3>4 DEF TransferThrows
    <3> QED
      BY <2>8, <3>1, <3>2, <3>3, <3>4
  <2>9. CASE TransferNFT(i)
    BY <2>6, <2>9 DEF TransferNFT
  <2>10. CASE WriteProofFails(i) \/ AnswerRunProof(i) \/ WriteProof(i)
    BY <2>2, <2>10 DEF WriteProofFails, AnswerRunProof, WriteProof
  <2> QED
    BY <1>5, <2>7, <2>8, <2>9, <2>10 DEF HederaStep
<1>6. CASE \E c \in Bounties : RunProof(c)
  <2>1. PICK i \in Recordings : rec' = [rec EXCEPT ![i] = Started("bounty", NoReq, Server)]
    BY <1>6 DEF RunProof, Free
  <2>2. Started("bounty", NoReq, Server).kind = "bounty"
    BY <1>k
  <2> QED
    BY <1>1, <2>1, <2>2
<1>7. CASE \/ \E s \in Sigs : Chain!Settle(s) /\ UNCHANGED <<storeVars, workerVars, intake, recordVars, demoVars>>
           \/ \E h \in Skips : FindStaged(h) \/ SkipPayment(h)
           \/ UNCHANGED allVars
  BY <1>2, <1>7 DEF FindStaged, SkipPayment, recordVars, allVars
<1> QED
  BY <1>3, <1>4, <1>5, <1>6, <1>7 DEF RecordsNext

\* Every step keeps it: only the two writes by id spoil anything.
LEMMA DemoStep ==
  ASSUME SingleWorker, StoreAssumption, WorkerAssumption, RecordsAssumption,
         RecordsInv, RecordsInv', DriftInv, [RecordsNext]_allVars
  PROVE  DriftInv'
<1>t. /\ TypeOK /\ TypeOK' /\ RecordsTypeOK
      /\ status \in [Requests -> ServiceStatus \cup {"NONE"}]
      /\ intake \in [Requests -> {"idle", "metered", "staged", "refused", "lost"}]
      /\ skipping \in [Skips -> Requests \cup {NoReq}] /\ rec \in [Recordings -> Recording]
      /\ RowPerSubmission /\ HeldOpen /\ Rows \subseteq Requests /\ NoReq \notin Requests
      /\ \A j \in DemoRecs : rec[j].req \in Rows
      /\ \A h \in DemoSkips : skipping[h] \in Rows
  BY DEF RecordsInv, RecordsTypeOK, TypeOK, WorkerTypeOK, StoreTypeOK, DriftInv, Rows, WorkerAssumption
<1>1. ASSUME BillStep, RowPerSubmission', HeldOpen', \A q \in Rows : q \in Rows', UNCHANGED demoVars,
             \A j \in DemoRecs' : j \in DemoRecs /\ rec'[j].req = rec[j].req
      PROVE  DriftInv'
  <2>1. DemoSkips' = DemoSkips /\ DemoCalls' = DemoCalls
    BY <1>1 DEF DemoSkips, DemoCalls, demoVars
  <2>2. DemoRecs' \subseteq DemoRecs /\ \A j \in DemoRecs' : rec'[j].req \in Rows'
    BY <1>1, <1>t
  <2>3. \A h \in DemoSkips' : skipping'[h] \in Rows'
    BY <1>1, <1>t, <2>1 DEF demoVars
  <2> QED
    BY <1>1, <1>t, <2>1, <2>2, <2>3, DriftKept
<1>q. ASSUME UNCHANGED vars
      PROVE  BillStep /\ RowPerSubmission' /\ HeldOpen' /\ UNCHANGED Rows
  BY <1>t, <1>q DEF vars, coreVars, storeVars, workerVars, BillStep, Billed, RowPerSubmission, HeldOpen,
     Holding, Rows
\* The status of a row, written by id.
<1>w. ASSUME NEW r \in Rows, NEW new \in {"IN_PROGRESS", "CONFIRMED"},
             status' = [status EXCEPT ![r] = new], UNCHANGED <<usageCount, workerVars, intake>>
      PROVE  StaleWrite /\ RowPerSubmission' /\ HeldOpen' /\ \A q \in Rows : q \in Rows'
  <2>1. /\ RowPerSubmission' /\ \A q \in Rows : q \in Rows'
        /\ \A q \in Requests : q # r => status'[q] = status[q] /\ (Billed(q)' <=> Billed(q))
        /\ status'[r] = new /\ Billed(r)'
    BY <1>t, <1>w, StatusBills
  <2>2. HeldOpen'
    <3>1. \A w \in Workers : (Holding(w)' <=> Holding(w)) /\ job'[w] = job[w]
      BY <1>w DEF Holding, workerVars
    <3>2. \A w \in Workers : Holding(w) => job[w] \in Requests
      BY DEF Holding, RecordsInv, RecordsTypeOK, TypeOK, WorkerTypeOK
    <3> QED
      BY <1>t, <1>w, <2>1, <3>1, <3>2 DEF HeldOpen
  <2> QED
    BY <1>t, <1>w, <2>1, <2>2 DEF StaleWrite
<1>2. CASE \/ IntakeStep \/ \E w \in Workers : WorkerStep(w)
           \/ \E s \in Sigs : Chain!Settle(s) /\ UNCHANGED <<storeVars, workerVars, intake, recordVars, demoVars>>
  <2>1. UNCHANGED demoVars
    BY <1>2 DEF IntakeStep, CreateAndAnchor, WorkerStep, demoVars
  <2>2. Next
    BY <1>2, <2>1, CoreStep
  <2>3. BillStep /\ RowPerSubmission' /\ HeldOpen' /\ \A q \in Rows : q \in Rows'
    BY <1>t, <2>2, CoreBills
  <2>4. ~\E c \in Fulfils : Fulfil(c)
    BY <2>1, <1>t DEF Fulfil, Call, demoVars
  <2> QED
    BY <1>1, <1>t, <2>1, <2>3, <2>4, RecsKept
<1>3. ASSUME NEW i \in Recordings, HederaStep(i)
      PROVE  DriftInv'
  <2>1. UNCHANGED <<vars, demoVars>>
    BY <1>3 DEF HederaStep
  <2>2. ~\E c \in Fulfils : Fulfil(c)
    BY <2>1 DEF Fulfil, Call, demoVars
  <2>3. \A j \in DemoRecs' : j \in DemoRecs /\ rec'[j].req = rec[j].req
    BY <1>3, <1>t, <2>2, RecsKept
  <2> QED
    BY <1>1, <1>q, <1>t, <2>1, <2>3
<1>4. ASSUME NEW i \in Recordings, WriteProof(i)
      PROVE  DriftInv'
  <2>1. /\ UNCHANGED <<usageCount, workerVars, intake, demoVars>> /\ rec' = [rec EXCEPT ![i] = Idle]
        /\ status' = IF rec[i].kind = "demo" THEN [status EXCEPT ![rec[i].req] = "CONFIRMED"] ELSE status
    BY <1>4 DEF WriteProof, End
  <2>2. ~\E c \in Fulfils : Fulfil(c)
    BY <2>1 DEF Fulfil, Call, demoVars
  <2>3. \A j \in DemoRecs' : j \in DemoRecs /\ rec'[j].req = rec[j].req
    BY <1>4, <1>t, <2>2, RecsKept
  <2>4. CASE rec[i].kind = "demo"
    <3>1. i \in DemoRecs
      BY <2>4 DEF DemoRecs
    <3>2. PICK r \in Rows : r = rec[i].req /\ status' = [status EXCEPT ![r] = "CONFIRMED"]
      BY <1>t, <2>1, <2>4, <3>1
    <3>3. StaleWrite /\ RowPerSubmission' /\ HeldOpen' /\ \A q \in Rows : q \in Rows'
      BY <1>w, <2>1, <3>2
    <3>4. DemoRecs' = DemoRecs \ {i}
      <4>1. Idle.kind # "demo" /\ rec'[i] = Idle /\ \A j \in Recordings : j # i => rec'[j] = rec[j]
        BY <1>t, <2>1 DEF Idle
      <4> QED
        BY <4>1 DEF DemoRecs
    <3>5. DemoSkips' = DemoSkips /\ DemoCalls' = DemoCalls /\ skipping' = skipping
      BY <2>1 DEF DemoSkips, DemoCalls, demoVars
    <3> QED
      BY <1>t, <2>3, <3>1, <3>3, <3>4, <3>5, DriftKept
  <2>5. CASE rec[i].kind # "demo"
    <3>1. UNCHANGED <<status, usageCount, intake, workerVars>>
      BY <2>1, <2>5
    <3>2. BillStep /\ RowPerSubmission' /\ HeldOpen' /\ UNCHANGED Rows
      BY <1>t, <3>1 DEF BillStep, Billed, RowPerSubmission, HeldOpen, Holding, Rows, workerVars
    <3> QED
      BY <1>1, <2>1, <2>3, <3>2
  <2> QED
    BY <2>4, <2>5
<1>5. ASSUME NEW c \in Fulfils, Fulfil(c)
      PROVE  DriftInv'
  <2>1. PICK r \in Rows, i \in Recordings : rec' = [rec EXCEPT ![i] = Started("demo", r, Server)]
    BY <1>5 DEF Fulfil, Free
  <2>2. /\ UNCHANGED <<vars, skipping>>
        /\ c \notin called /\ called' = called \cup {c} /\ c \notin Bounties
    BY <1>5 DEF Fulfil, Call, RecordsAssumption
  <2>3. /\ rec'[i].kind = "demo" /\ rec'[i].req = r
        /\ \A j \in Recordings : j # i => rec'[j] = rec[j]
    BY <1>t, <2>1 DEF Started, Idle
  <2>4. DemoRecs' = DemoRecs \cup {i} /\ \A j \in DemoRecs' : rec'[j].req \in Rows
    BY <1>t, <2>3 DEF DemoRecs
  <2>5. c \notin DemoCalls /\ DemoCalls' = DemoCalls \cup {c} /\ DemoSkips' = DemoSkips
    BY <2>2 DEF DemoCalls, DemoSkips
  <2> QED
    BY <1>q, <1>t, <2>2, <2>4, <2>5, DriftKept
<1>6. ASSUME NEW h \in Skips, FindStaged(h)
      PROVE  DriftInv'
  <2>1. /\ UNCHANGED <<vars, rec>>
        /\ h \notin called /\ called' = called \cup {h} /\ h \notin Bounties
    BY <1>6 DEF FindStaged, Call, RecordsAssumption, recordVars
  <2>2. PICK r \in Rows : skipping' = [skipping EXCEPT ![h] = r]
    BY <1>6 DEF FindStaged
  <2>3. skipping'[h] = r /\ r # NoReq /\ \A g \in Skips : g # h => skipping'[g] = skipping[g]
    BY <1>t, <2>2
  <2>4. DemoSkips' = DemoSkips \cup {h} /\ \A g \in DemoSkips' : skipping'[g] \in Rows
    BY <1>t, <2>3 DEF DemoSkips
  <2>5. /\ h \notin DemoCalls /\ DemoCalls' = DemoCalls \cup {h} /\ DemoRecs' = DemoRecs
        /\ \A j \in DemoRecs' : rec'[j].req \in Rows
    BY <1>t, <2>1 DEF DemoCalls, DemoRecs
  <2> QED
    BY <1>q, <1>t, <2>1, <2>4, <2>5, DriftKept
<1>7. ASSUME NEW h \in Skips, SkipPayment(h)
      PROVE  DriftInv'
  <2>1. /\ UNCHANGED <<usageCount, workerVars, intake, rec, called>>
        /\ skipping[h] # NoReq /\ skipping' = [skipping EXCEPT ![h] = NoReq]
        /\ status' = [status EXCEPT ![skipping[h]] = "IN_PROGRESS"]
    BY <1>7 DEF SkipPayment, recordVars
  <2>2. h \in DemoSkips /\ skipping[h] \in Rows
    BY <1>t, <2>1 DEF DemoSkips
  <2>3. StaleWrite /\ RowPerSubmission' /\ HeldOpen' /\ \A q \in Rows : q \in Rows'
    BY <1>w, <2>1, <2>2
  <2>4. skipping'[h] = NoReq /\ \A g \in Skips : g # h => skipping'[g] = skipping[g]
    BY <1>t, <2>1
  <2>5. /\ DemoSkips' = DemoSkips \ {h} /\ DemoRecs' = DemoRecs /\ DemoCalls' = DemoCalls
        /\ \A g \in DemoSkips' : skipping'[g] \in Rows'
        /\ \A j \in DemoRecs' : rec'[j].req \in Rows'
    BY <1>t, <2>1, <2>3, <2>4 DEF DemoSkips, DemoRecs, DemoCalls
  <2> QED
    BY <1>t, <2>2, <2>3, <2>5, DriftKept
<1>8. ASSUME NEW c \in Bounties, RunProof(c)
      PROVE  DriftInv'
  <2>1. /\ UNCHANGED <<vars, skipping>> /\ called' = called \cup {c}
    BY <1>8 DEF RunProof, Call
  <2>2. ~\E d \in Fulfils : Fulfil(d)
    <3> SUFFICES ASSUME NEW d \in Fulfils, Fulfil(d) PROVE FALSE
      OBVIOUS
    <3>1. d \notin called /\ called' = called \cup {d} /\ c \notin called /\ c # d
      BY <1>8 DEF Fulfil, RunProof, Call, RecordsAssumption
    <3> QED
      BY <2>1, <3>1
  <2>3. \A j \in DemoRecs' : j \in DemoRecs /\ rec'[j].req = rec[j].req
    BY <1>8, <1>t, <2>2, RecsKept
  <2>4. DemoCalls' = DemoCalls /\ DemoSkips' = DemoSkips /\ DemoRecs' \subseteq DemoRecs
    BY <2>1, <2>3 DEF DemoCalls, DemoSkips
  <2>5. /\ \A j \in DemoRecs' : rec'[j].req \in Rows
        /\ \A g \in DemoSkips' : skipping'[g] \in Rows
    BY <1>t, <2>1, <2>3, <2>4
  <2> QED
    BY <1>q, <1>t, <2>1, <2>4, <2>5, DriftKept
<1>9. CASE UNCHANGED allVars
  <2>1. UNCHANGED <<vars, rec, demoVars>>
    BY <1>9 DEF allVars, recordVars
  <2>2. \A j \in DemoRecs' : j \in DemoRecs /\ rec'[j].req = rec[j].req
    BY <2>1 DEF DemoRecs
  <2> QED
    BY <1>1, <1>q, <2>1, <2>2
<1> QED
  BY <1>2, <1>3, <1>4, <1>5, <1>6, <1>7, <1>8, <1>9 DEF RecordsNext

\* With a single worker the meter of an organization misses at most one unit in
\* use per call of the demo routes, and never counts one that nobody holds.
THEOREM DriftPaidFor == SingleWorker => (RecordsSpec => []DriftCostsDemoCalls)
<1> USE StoreAssumption, WorkerAssumption, RecordsAssumption
<1>1. RecordsInit => DriftInv
  <2> SUFFICES ASSUME RecordsInit PROVE DriftInv
    OBVIOUS
  <2>1. RowPerSubmission /\ HeldOpen
    BY DEF RecordsInit, Init, WorkerInit, StoreInit, RowPerSubmission, HeldOpen, Holding
  <2>2. DemoRecs = {} /\ DemoSkips = {} /\ DemoCalls = {}
    BY DEF RecordsInit, DemoRecs, DemoSkips, DemoCalls, Idle
  <2>3. ASSUME NEW o \in Orgs
        PROVE  Drift(o) = 0
    <3>1. {r \in Requests : OrgOf[r] = o /\ Billed(r)} = {}
      BY DEF RecordsInit, Init, Billed
    <3>2. usageCount[o] = 0
      BY DEF RecordsInit, Init, WorkerInit, StoreInit
    <3> QED
      BY <3>1, <3>2, FS_EmptySet DEF Drift
  <2> QED
    BY <2>1, <2>2, <2>3, FS_EmptySet DEF DriftInv
<1>2. SingleWorker /\ RecordsInv /\ RecordsInv' /\ DriftInv /\ [RecordsNext]_allVars => DriftInv'
  BY DemoStep
<1>3. RecordsInv /\ DriftInv => DriftCostsDemoCalls
  <2> SUFFICES ASSUME RecordsInv, DriftInv, NEW o \in Orgs
               PROVE  Drift(o) \in 0..Cardinality(called \ Bounties)
    BY DEF DriftCostsDemoCalls
  <2>1. /\ Drift(o) >= 0
        /\ Drift(o) + Cardinality(DemoRecs) + Cardinality(DemoSkips) <= Cardinality(DemoCalls)
    BY DEF DriftInv
  <2>2. Cardinality(DemoRecs) \in Nat /\ Cardinality(DemoSkips) \in Nat /\ Cardinality(DemoCalls) \in Nat
    BY FS_CardinalityType DEF DriftInv
  <2>3. Drift(o) \in Int
    <3>1. IsFiniteSet({r \in Requests : OrgOf[r] = o /\ Billed(r)})
      BY FS_Subset DEF StoreAssumption
    <3>2. usageCount[o] \in Nat
      BY DEF RecordsInv, RecordsTypeOK, TypeOK, WorkerTypeOK, StoreTypeOK
    <3> QED
      BY <3>1, <3>2, FS_CardinalityType DEF Drift
  <2> QED
    BY <2>1, <2>2, <2>3 DEF DemoCalls
<1>4. SUFFICES ASSUME SingleWorker PROVE RecordsSpec => []DriftCostsDemoCalls
  OBVIOUS
<1> QED
  BY <1>1, <1>2, <1>3, <1>4, RecordsInvariant, PTL DEF RecordsSpec

=============================================================================
