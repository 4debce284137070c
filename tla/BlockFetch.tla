----------------------------- MODULE BlockFetch -----------------------------
(***************************************************************************)
(* How a replica gets hold of the blocks that the messages it receives are *)
(* about (HotStuffBase: async_fetch_blk, async_deliver_blk and what        *)
(* resolves their promises).  A block is fetched when it is in the         *)
(* storage, and delivered when its parents are delivered and linked.       *)
(*                                                                         *)
(* One replica and its peers.  A message is about one block; its handler   *)
(* waits for the promise that the block is delivered.  The other promises  *)
(* a handler waits for (the view, its own verification) do not touch this  *)
(* state and are left out.  A peer that has sent a message about a block   *)
(* has delivered it, and so can send it and all it stands on.              *)
(*                                                                         *)
(* A resolved promise runs what waits for it at once: calls holds the      *)
(* calls of async_deliver_blk made inside the running handler, and the     *)
(* event loop takes the next event when nothing is left to run (Idle).     *)
(***************************************************************************)
EXTENDS Integers, FiniteSets

CONSTANTS
  Peer,
  MaxBlock,          \* blocks are numbered, the genesis block is 0
  Parent,            \* parents[0] of a block
  QcRef,             \* the block its certificate is for (qc_ref)
  Message,           \* bound: the messages that may arrive, each once
  Chunked,           \* the blocks that may be put together from chunks
  MaxCrashes         \* bound: how many peers stop

Block == 0 .. MaxBlock
Genesis == 0

ASSUME ChainAssumption ==
  /\ MaxBlock \in Nat /\ Peer # {}
  /\ Parent \in [Block -> Block] /\ QcRef \in [Block -> Block]
  /\ \A b \in Block \ {Genesis} : Parent[b] < b /\ QcRef[b] < b
  /\ Parent[Genesis] = Genesis /\ QcRef[Genesis] = Genesis

ASSUME MessageAssumption ==
  /\ \A m \in Message : m.blk \in Block /\ m.from \in Peer /\ m.carries \in BOOLEAN
  /\ Chunked \subseteq Block /\ MaxCrashes \in Nat

VARIABLES
  fetched,           \* the keys of the storage
  delivered,         \* the blocks in it that are delivered
  fetch_waiting,     \* the keys of blk_fetch_waiting
  replica_ids,       \* FetchContext::replica_ids of a waiting fetch
  delivery_waiting,  \* the keys of blk_delivery_waiting
  continuing,        \* those whose call of async_deliver_blk is not over
  source,            \* the peer that call was given, while it waits for b
  awaits,            \* what it still waits for
  decoded,           \* blocks on_receive_proposal_echo has delivered
  arrived,           \* the messages whose handler was called
  passed,            \* those whose block's promise was resolved
  calls,             \* calls of async_deliver_blk to come: <<block, peer>>
  requests,          \* MsgReqBlock on the way
  responses,         \* MsgRespBlock on the way
  running,           \* the peers that have not stopped
  halted             \* an assertion failed or an exception was thrown

storageVars == <<fetched, delivered, decoded>>
fetchVars == <<fetch_waiting, replica_ids, requests>>
deliveryVars == <<delivery_waiting, continuing, source, awaits, calls>>
handlerVars == <<arrived, passed>>
peerVars == <<responses, running>>
vars == <<storageVars, fetchVars, deliveryVars, handlerVars, peerVars, halted>>

Await == {"fetch", "qc_ref", "parent", "verify"}

Init ==
  /\ fetched = {Genesis} /\ delivered = {Genesis} /\ decoded = {}
  /\ fetch_waiting = {} /\ replica_ids = [b \in Block |-> {}] /\ requests = {}
  /\ delivery_waiting = {} /\ continuing = {} /\ calls = {}
  /\ source = [b \in Block |-> CHOOSE p \in Peer : TRUE]
  /\ awaits = [b \in Block |-> {}]
  /\ arrived = {} /\ passed = {}
  /\ responses = {} /\ running = Peer
  /\ halted = FALSE

\* Nothing is left to run of the last event.
Idle ==
  /\ ~ halted /\ calls = {}
  /\ \A b \in continuing : awaits[b] # {}

-----------------------------------------------------------------------------
(* async_fetch_blk and async_deliver_blk.                                  *)

\* async_fetch_blk of the blocks bs for peer p: the first peer of a fetch is
\* asked at once, the others by its timer.
FetchBlk(bs, p) ==
  LET missing == bs \ fetched
  IN /\ fetch_waiting' = fetch_waiting \cup missing
     /\ replica_ids' = [b \in Block |-> IF b \in missing THEN replica_ids[b] \cup {p}
                                        ELSE replica_ids[b]]
     /\ requests' = requests \cup {<<b, p>> : b \in {c \in missing : replica_ids[c] = {}}}

\* Mutant: the parent need not be delivered.
StillNeedsNoParent(b) ==
  {"verify"} \cup (IF QcRef[b] \in fetched THEN {} ELSE {"qc_ref"})

\* What async_deliver_blk waits for once it has the block.
StillNeeds(b) ==
  {"verify"} \cup (IF QcRef[b] \in fetched THEN {} ELSE {"qc_ref"})
             \cup (IF Parent[b] \in delivered THEN {} ELSE {"parent"})

\* Mutant: the parent is not looked for.
ParentCallLeftOut(b, p) == {}

\* Mutant: the arguments are swapped.
ParentCallSwapped(b, p) == {<<p, Parent[b]>>}

\* Its call for the parent.
ParentCall(b, p) == IF Parent[b] \in delivered THEN {} ELSE {<<Parent[b], p>>}

\* async_deliver_blk: a block that is delivered or on its way there is left to
\* the call that came first, with the peer that one was given.
AsyncDeliver(b, p) ==
  /\ <<b, p>> \in calls
  /\ delivery_waiting' = delivery_waiting \cup ({b} \ delivered)
  /\ IF b \in delivered \cup delivery_waiting
     THEN /\ calls' = calls \ {<<b, p>>}
          /\ UNCHANGED <<continuing, source, awaits, fetchVars>>
     ELSE /\ continuing' = continuing \cup {b}
          /\ IF b \in fetched
             THEN /\ awaits' = [awaits EXCEPT ![b] = StillNeeds(b)]
                  /\ FetchBlk({QcRef[b]}, p)
                  /\ calls' = (calls \ {<<b, p>>}) \cup ParentCall(b, p)
                  /\ UNCHANGED source
             ELSE /\ awaits' = [awaits EXCEPT ![b] = {"fetch"}]
                  /\ FetchBlk({b}, p)
                  /\ calls' = calls \ {<<b, p>>}
                  /\ source' = [source EXCEPT ![b] = p]
  /\ UNCHANGED <<storageVars, handlerVars, peerVars, halted>>

\* Mutant: the entry is erased, and its promise not resolved.
PassNobody(b) == passed

\* The handlers whose promise for block b is resolved.
Pass(b) == passed \cup {m \in arrived : m.blk = b}

\* HotStuffCore::on_deliver_blk throws for any other block.
Linkable(b) == Parent[b] \in delivered /\ QcRef[b] \in fetched

\* The promise::all of async_deliver_blk is resolved: on_deliver_blk asserts
\* that the parents are delivered, and returns when the block is.  Otherwise
\* HotStuffCore::on_deliver_blk links it, and its promise is resolved.
OnDeliver(b) ==
  /\ ~ halted /\ b \in continuing /\ awaits[b] = {}
  /\ continuing' = continuing \ {b}
  /\ halted' = (\/ Parent[b] \notin delivered
                \/ b \notin delivered /\ ~ Linkable(b))
  /\ IF halted' \/ b \in delivered
     THEN UNCHANGED <<delivered, delivery_waiting, awaits, passed>>
     ELSE /\ delivered' = delivered \cup {b}
          /\ delivery_waiting' = delivery_waiting \ {b}
          /\ awaits' = [c \in Block |-> IF Parent[c] = b THEN awaits[c] \ {"parent"}
                                        ELSE awaits[c]]
          /\ passed' = Pass(b)
  /\ UNCHANGED <<fetched, decoded, source, calls, arrived, fetchVars, peerVars>>

-----------------------------------------------------------------------------
(* Events.                                                                 *)

\* A handler is called.  Parsing a proposal puts its block in the storage.
Arrive(m) ==
  /\ Idle /\ m \in Message \ arrived
  /\ arrived' = arrived \cup {m}
  /\ fetched' = IF m.carries THEN fetched \cup {m.blk} ELSE fetched
  /\ IF m.blk \in delivered
     THEN passed' = passed \cup {m} /\ UNCHANGED calls
     ELSE calls' = {<<m.blk, m.from>>} /\ UNCHANGED passed
  /\ UNCHANGED <<delivered, decoded, delivery_waiting, continuing, source, awaits,
                 fetchVars, peerVars, halted>>

\* resp_blk_handler: the block goes to the storage, and on_fetch_blk resolves
\* the fetch that waits for it.
ReceiveRespBlock(b, p) ==
  LET waiting == b \in fetch_waiting
      mine == waiting /\ "fetch" \in awaits[b]
  IN /\ Idle /\ <<b, p>> \in responses
     /\ responses' = responses \ {<<b, p>>}
     /\ fetched' = fetched \cup {b}
     /\ calls' = IF mine THEN ParentCall(b, source[b]) ELSE {}
     /\ awaits' = [c \in Block |->
                     IF c = b /\ mine THEN StillNeeds(b)
                     ELSE IF QcRef[c] = b /\ waiting THEN awaits[c] \ {"qc_ref"}
                     ELSE awaits[c]]
     /\ LET more == IF mine THEN {QcRef[b]} \ fetched ELSE {}
        IN /\ fetch_waiting' = (fetch_waiting \ {b}) \cup more
           /\ replica_ids' = [c \in Block |->
                                IF c = b THEN {}
                                ELSE IF c \in more THEN replica_ids[c] \cup {source[b]}
                                ELSE replica_ids[c]]
           /\ requests' = requests \cup
                {<<c, source[b]>> : c \in {d \in more : replica_ids[d] = {}}}
     /\ UNCHANGED <<delivered, decoded, delivery_waiting, continuing, source,
                    handlerVars, running, halted>>

\* The pool of threads has verified the certificate in block b, whose result
\* async_deliver_blk does not look at.
Verified(b) ==
  /\ Idle /\ b \in continuing /\ "verify" \in awaits[b]
  /\ awaits' = [awaits EXCEPT ![b] = @ \ {"verify"}]
  /\ UNCHANGED <<storageVars, fetchVars, delivery_waiting, continuing, source, calls,
                 handlerVars, peerVars, halted>>

\* on_receive_proposal_echo puts block b together and delivers it itself.  It
\* is handled in b's view, which is entered with the block of the view before,
\* b's parent and qc_ref, delivered.
Decode(b) ==
  /\ Idle /\ b \in Chunked \ delivered
  /\ Parent[b] \in delivered /\ QcRef[b] \in delivered
  /\ fetched' = fetched \cup {b}
  /\ delivered' = delivered \cup {b}
  /\ decoded' = decoded \cup {b}
  /\ UNCHANGED <<fetchVars, deliveryVars, handlerVars, peerVars, halted>>

\* FetchContext::timeout_cb asks all peers it knows of.
FetchTimeout(b) ==
  /\ Idle /\ b \in fetch_waiting
  /\ requests' = requests \cup {<<b, p>> : p \in replica_ids[b]}
  /\ UNCHANGED <<storageVars, fetch_waiting, replica_ids, deliveryVars, handlerVars,
                 peerVars, halted>>

\* req_blk_handler of peer p.
Answer(b, p) ==
  /\ p \in running /\ <<b, p>> \in requests
  /\ requests' = requests \ {<<b, p>>}
  /\ responses' = responses \cup {<<b, p>>}
  /\ UNCHANGED <<storageVars, fetch_waiting, replica_ids, deliveryVars, handlerVars,
                 running, halted>>

\* Peer p stops, and the answers it was sending are lost.
Crash(p) ==
  /\ p \in running /\ Cardinality(Peer \ running) < MaxCrashes
  /\ running' = running \ {p}
  /\ responses' = {m \in responses : m[2] # p}
  /\ UNCHANGED <<storageVars, fetchVars, deliveryVars, handlerVars, halted>>

Next ==
  \/ \E b \in Block, p \in Peer :
       AsyncDeliver(b, p) \/ ReceiveRespBlock(b, p) \/ Answer(b, p)
  \/ \E b \in Block : OnDeliver(b) \/ Verified(b) \/ Decode(b) \/ FetchTimeout(b)
  \/ \E m \in Message : Arrive(m)
  \/ \E p \in Peer : Crash(p)

Spec == Init /\ [][Next]_vars

\* A handler that has begun runs to its end, the pool answers, a running peer
\* answers, a connection delivers, and a timer that is armed fires again and
\* again.  Whether a message or the chunks arrive is left open.
Fairness ==
  \A b \in Block :
    /\ WF_vars(OnDeliver(b)) /\ WF_vars(Verified(b)) /\ SF_vars(FetchTimeout(b))
    /\ \A p \in Peer :
         WF_vars(AsyncDeliver(b, p)) /\ WF_vars(ReceiveRespBlock(b, p))
           /\ WF_vars(Answer(b, p))

FairSpec == Spec /\ Fairness

-----------------------------------------------------------------------------
(* Properties.                                                             *)

\* The type invariant.
TypeOK ==
  /\ fetched \subseteq Block /\ delivered \subseteq Block /\ decoded \subseteq Block
  /\ fetch_waiting \subseteq Block /\ replica_ids \in [Block -> SUBSET Peer]
  /\ delivery_waiting \subseteq Block /\ continuing \subseteq Block
  /\ source \in [Block -> Peer] /\ awaits \in [Block -> SUBSET Await]
  /\ arrived \subseteq Message /\ passed \subseteq Message
  /\ calls \subseteq Block \X Peer
  /\ requests \subseteq Block \X Peer /\ responses \subseteq Block \X Peer
  /\ running \subseteq Peer /\ halted \in BOOLEAN

\* on_deliver_blk finds the parents delivered and the block of the certificate
\* in the storage, in whatever order blocks, answers and verifications come
\* (its assertion, and the exceptions "block not delivered" and "block referred
\* by qc not fetched" of HotStuffCore).
NoThrow == ~ halted

\* Between events, a handler that waits for a block waits for a call of
\* async_deliver_blk that is going on, or the block came in chunks.
ForgottenOnlyByDecode ==
  Idle => \A m \in arrived \ passed : m.blk \in continuing \cup decoded

\* "Returns a promise resolved (with block_t blk) when Block is delivered"
\* (async_deliver_blk): no handler waits for a promise nobody will resolve.
NoHandlerForgotten == Idle => \A m \in arrived \ passed : m.blk \in continuing

\* A promise of block b, or of one below it, that will not be resolved: the
\* block came in chunks meanwhile, or all the peers its fetch asks have stopped.
Abandoned(b) ==
  \E a \in 1 .. b :
    \/ a \in delivery_waiting \ continuing
    \/ a \in fetch_waiting /\ replica_ids[a] \cap running = {}

\* Every other handler gets its block: also from a second peer when the first
\* has stopped, by the timer (FetchContext::timeout_cb).
GateOpens == \A m \in Message : m \in arrived ~> m \in passed \/ Abandoned(m.blk)

=============================================================================
