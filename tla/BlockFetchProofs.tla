-------------------------- MODULE BlockFetchProofs --------------------------
(***************************************************************************)
(* on_deliver_blk never meets a parent that is not delivered or a          *)
(* certificate's block that is not there, and a handler is forgotten only  *)
(* when its block came in chunks: for all peers, blocks, messages and      *)
(* crashes.                                                                *)
(***************************************************************************)
EXTENDS BlockFetch, TLAPS

\* What a call of async_deliver_blk no longer waits for is there.
Ready ==
  \A b \in continuing : "fetch" \notin awaits[b] =>
    /\ "qc_ref" \notin awaits[b] => QcRef[b] \in fetched
    /\ "parent" \notin awaits[b] => Parent[b] \in delivered

\* A block is delivered behind a call's back by decoding it only.
BehindBack ==
  /\ continuing \cap delivered \subseteq decoded
  /\ delivery_waiting \subseteq continuing \cup decoded

\* Delivering a block lets the handlers that wait for it pass.
PassedOn == \A m \in arrived : m.blk \in delivered => m \in passed \/ m.blk \in decoded

\* A handler that waits has a call, or will have one before the event is over.
Accounted ==
  \A m \in arrived \ passed :
    m.blk \in continuing \cup decoded \/ \E p \in Peer : <<m.blk, p>> \in calls

IInv == TypeOK /\ ~ halted /\ Ready /\ BehindBack /\ PassedOn /\ Accounted

\* At the start nobody waits.
LEMMA InitHolds == Init => IInv
  <1> SUFFICES ASSUME Init PROVE IInv
    OBVIOUS
  <1> USE ChainAssumption, MessageAssumption DEF Block, Genesis
  <1>1. (CHOOSE p \in Peer : TRUE) \in Peer
    OBVIOUS
  <1>2. TypeOK
    <2> DEFINE anyone == CHOOSE p \in Peer : TRUE
    <2>1. source = [b \in Block |-> anyone] /\ anyone \in Peer
      BY <1>1, Zenon DEF Init
    <2> HIDE DEF anyone
    <2>2. source \in [Block -> Peer]
      BY <2>1
    <2>3. /\ fetched = {0} /\ delivered = {0} /\ decoded = {} /\ fetch_waiting = {}
          /\ replica_ids = [b \in Block |-> {}] /\ requests = {} /\ delivery_waiting = {}
          /\ continuing = {} /\ calls = {} /\ awaits = [b \in Block |-> {}]
          /\ arrived = {} /\ passed = {} /\ responses = {} /\ running = Peer
          /\ halted = FALSE
      BY Zenon DEF Init, Genesis
    <2>4. replica_ids \in [Block -> SUBSET Peer] /\ awaits \in [Block -> SUBSET Await]
      BY <2>3
    <2>5. 0 \in Block
      OBVIOUS
    <2> QED
      BY <2>2, <2>3, <2>4, <2>5, Zenon DEF TypeOK
  <1>3. ~ halted /\ Ready /\ BehindBack /\ PassedOn /\ Accounted
    BY DEF Init, Ready, BehindBack, PassedOn, Accounted
  <1> QED
    BY <1>2, <1>3 DEF IInv

\* What FetchBlk leaves well-typed.
LEMMA FetchTyped ==
  ASSUME TypeOK, NEW bs \in SUBSET Block, NEW p \in Peer, FetchBlk(bs, p)
  PROVE  /\ fetch_waiting' \subseteq Block /\ replica_ids' \in [Block -> SUBSET Peer]
         /\ requests' \subseteq Block \X Peer
  BY DEF TypeOK, FetchBlk

\* Starting, or not starting, the delivery of a block.
LEMMA AsyncDeliverKeeps ==
  ASSUME IInv, NEW b \in Block, NEW p \in Peer, AsyncDeliver(b, p)
  PROVE  IInv'
  <1> USE ChainAssumption, MessageAssumption
  <1>1. TypeOK'
    <2>1. CASE b \in delivered \cup delivery_waiting
      BY <2>1 DEF AsyncDeliver, IInv, TypeOK, storageVars, handlerVars, peerVars, fetchVars
    <2>2. CASE b \notin delivered \cup delivery_waiting
      <3>1. QcRef[b] \in Block /\ Parent[b] \in Block
        OBVIOUS
      <3>2. StillNeeds(b) \subseteq Await
        BY DEF StillNeeds, Await
      <3>3. \E bs \in SUBSET Block : FetchBlk(bs, p)
        BY <2>2, <3>1 DEF AsyncDeliver
      <3>4. /\ fetch_waiting' \subseteq Block /\ replica_ids' \in [Block -> SUBSET Peer]
            /\ requests' \subseteq Block \X Peer
        BY <3>3, FetchTyped DEF IInv
      <3>5. calls' \subseteq Block \X Peer /\ awaits' \in [Block -> SUBSET Await]
        BY <2>2, <3>1, <3>2 DEF AsyncDeliver, ParentCall, IInv, TypeOK, Await
      <3> QED
        BY <2>2, <3>4, <3>5 DEF AsyncDeliver, IInv, TypeOK, storageVars, handlerVars, peerVars
    <2> QED
      BY <2>1, <2>2
  <1>2. Ready' /\ BehindBack' /\ PassedOn' /\ ~ halted'
    BY DEF AsyncDeliver, IInv, TypeOK, Ready, BehindBack, PassedOn, StillNeeds,
           storageVars, handlerVars, peerVars
  <1>3. Accounted'
    <2> SUFFICES ASSUME NEW m \in arrived' \ passed'
                 PROVE  (m.blk \in continuing \cup decoded
                           \/ \E r \in Peer : <<m.blk, r>> \in calls)'
      BY DEF Accounted
    <2>1. m \in arrived \ passed /\ decoded' = decoded /\ continuing \subseteq continuing'
      BY DEF AsyncDeliver, handlerVars, storageVars
    <2>2. CASE m.blk = b
      BY <2>1, <2>2 DEF AsyncDeliver, IInv, BehindBack, PassedOn
    <2>3. CASE m.blk # b
      BY <2>1, <2>3 DEF AsyncDeliver, IInv, Accounted
    <2> QED
      BY <2>2, <2>3
  <1> QED
    BY <1>1, <1>2, <1>3 DEF IInv

\* The end of a call: on_deliver_blk.
LEMMA OnDeliverKeeps ==
  ASSUME IInv, NEW b \in Block, OnDeliver(b)
  PROVE  IInv'
  <1> USE ChainAssumption, MessageAssumption
  <1>1. Parent[b] \in delivered /\ QcRef[b] \in fetched /\ ~ halted'
    BY DEF OnDeliver, Linkable, IInv, Ready
  <1>2. TypeOK'
    BY DEF OnDeliver, Linkable, Pass, IInv, TypeOK, fetchVars, peerVars
  <1>3. Ready'
    BY DEF OnDeliver, Linkable, IInv, TypeOK, Ready
  <1>4. BehindBack'
    BY <1>1 DEF OnDeliver, IInv, BehindBack
  <1>5. PassedOn' /\ Accounted'
    BY <1>1 DEF OnDeliver, Pass, IInv, BehindBack, PassedOn, Accounted
  <1> QED
    BY <1>1, <1>2, <1>3, <1>4, <1>5 DEF IInv

\* A message comes.
LEMMA ArriveKeeps ==
  ASSUME IInv, NEW m \in Message, Arrive(m)
  PROVE  IInv'
  <1> USE ChainAssumption, MessageAssumption
  <1>1. TypeOK'
    BY DEF Arrive, IInv, TypeOK, fetchVars, peerVars
  <1>2. Ready' /\ BehindBack' /\ PassedOn' /\ ~ halted'
    BY DEF Arrive, IInv, Ready, BehindBack, PassedOn
  <1>3. Accounted'
    BY DEF Arrive, Idle, IInv, Accounted
  <1> QED
    BY <1>1, <1>2, <1>3 DEF IInv

\* A block that was asked for comes.
LEMMA ReceiveRespBlockKeeps ==
  ASSUME IInv, NEW b \in Block, NEW p \in Peer, ReceiveRespBlock(b, p)
  PROVE  IInv'
  <1> USE ChainAssumption, MessageAssumption
  <1>1. TypeOK'
    <2>1. QcRef[b] \in Block /\ Parent[b] \in Block /\ source[b] \in Peer
      BY DEF IInv, TypeOK
    <2>2. StillNeeds(b) \subseteq Await
      BY DEF StillNeeds, Await
    <2>3. /\ fetched' \subseteq Block /\ responses' \subseteq Block \X Peer
          /\ calls' \subseteq Block \X Peer /\ awaits' \in [Block -> SUBSET Await]
      BY <2>1, <2>2 DEF ReceiveRespBlock, ParentCall, IInv, TypeOK
    <2>4. /\ fetch_waiting' \subseteq Block /\ replica_ids' \in [Block -> SUBSET Peer]
          /\ requests' \subseteq Block \X Peer
      BY <2>1 DEF ReceiveRespBlock, IInv, TypeOK
    <2> QED
      BY <2>3, <2>4 DEF ReceiveRespBlock, IInv, TypeOK, handlerVars
  <1>2. Ready'
    BY DEF ReceiveRespBlock, StillNeeds, IInv, TypeOK, Ready
  <1>3. BehindBack' /\ PassedOn' /\ ~ halted'
    BY DEF ReceiveRespBlock, IInv, BehindBack, PassedOn, handlerVars
  <1>4. Accounted'
    BY DEF ReceiveRespBlock, Idle, IInv, Accounted, handlerVars
  <1> QED
    BY <1>1, <1>2, <1>3, <1>4 DEF IInv

\* The other events.
LEMMA OthersKeep ==
  ASSUME IInv,
         \/ \E b \in Block : Verified(b) \/ Decode(b) \/ FetchTimeout(b)
         \/ \E b \in Block, p \in Peer : Answer(b, p)
         \/ \E p \in Peer : Crash(p)
  PROVE  IInv'
  <1> USE ChainAssumption, MessageAssumption
  <1>1. ASSUME NEW b \in Block, Verified(b) PROVE IInv'
    <2>1. TypeOK' /\ Ready'
      BY <1>1 DEF Verified, IInv, TypeOK, Ready, storageVars, fetchVars, handlerVars, peerVars
    <2> QED
      BY <1>1, <2>1 DEF Verified, IInv, BehindBack, PassedOn, Accounted, storageVars,
                        fetchVars, handlerVars, peerVars
  <1>2. ASSUME NEW b \in Block, Decode(b) PROVE IInv'
    <2>1. TypeOK'
      BY <1>2 DEF Decode, IInv, TypeOK, fetchVars, deliveryVars, handlerVars, peerVars
    <2> QED
      BY <1>2, <2>1 DEF Decode, IInv, Ready, BehindBack, PassedOn, Accounted, fetchVars,
                        deliveryVars, handlerVars, peerVars
  <1>3. ASSUME NEW b \in Block, FetchTimeout(b) PROVE IInv'
    <2>1. TypeOK'
      BY <1>3 DEF FetchTimeout, IInv, TypeOK, storageVars, deliveryVars, handlerVars, peerVars
    <2> QED
      BY <1>3, <2>1 DEF FetchTimeout, IInv, Ready, BehindBack, PassedOn, Accounted,
                        storageVars, deliveryVars, handlerVars, peerVars
  <1>4. ASSUME NEW b \in Block, NEW p \in Peer, Answer(b, p) PROVE IInv'
    <2>1. TypeOK'
      BY <1>4 DEF Answer, IInv, TypeOK, storageVars, deliveryVars, handlerVars
    <2> QED
      BY <1>4, <2>1 DEF Answer, IInv, Ready, BehindBack, PassedOn, Accounted,
                        storageVars, deliveryVars, handlerVars
  <1>5. ASSUME NEW p \in Peer, Crash(p) PROVE IInv'
    <2>1. TypeOK'
      BY <1>5 DEF Crash, IInv, TypeOK, storageVars, fetchVars, deliveryVars, handlerVars
    <2> QED
      BY <1>5, <2>1 DEF Crash, IInv, Ready, BehindBack, PassedOn, Accounted, storageVars,
                        fetchVars, deliveryVars, handlerVars
  <1> QED
    BY <1>1, <1>2, <1>3, <1>4, <1>5

\* The invariant is inductive.
THEOREM Invariance == Spec => []IInv
  <1>1. ASSUME IInv, [Next]_vars PROVE IInv'
    <2>1. CASE UNCHANGED vars
      BY <1>1, <2>1 DEF IInv, TypeOK, Ready, BehindBack, PassedOn, Accounted, vars,
                        storageVars, fetchVars, deliveryVars, handlerVars, peerVars
    <2>2. CASE Next
      BY <1>1, <2>2, AsyncDeliverKeeps, OnDeliverKeeps, ArriveKeeps,
         ReceiveRespBlockKeeps, OthersKeep DEF Next
    <2> QED
      BY <1>1, <2>1, <2>2
  <1> QED
    BY <1>1, InitHolds, PTL DEF Spec

\* The assertion and the exceptions of on_deliver_blk stay silent, whatever
\* comes in whatever order.
THEOREM DeliveryNeverThrows == Spec => []NoThrow
  <1>1. IInv => NoThrow
    BY DEF IInv, NoThrow
  <1> QED
    BY <1>1, Invariance, PTL

\* A handler whose block does not come in chunks is not forgotten.
THEOREM OnlyDecodeForgets == Spec => []ForgottenOnlyByDecode
  <1>1. IInv => ForgottenOnlyByDecode
    BY DEF IInv, Accounted, ForgottenOnlyByDecode, Idle
  <1> QED
    BY <1>1, Invariance, PTL

\* Every variable keeps its type, whatever the blocks and the messages are.
THEOREM TypeCorrect == Spec => []TypeOK
PROOF
  <1>1. IInv => TypeOK
    BY DEF IInv
  <1> QED
    BY <1>1, Invariance, PTL

=============================================================================
