--------------------------- MODULE AggregateProofs ---------------------------
(***************************************************************************)
(* For every number of replicas from three on, wherever client commands    *)
(* come and wherever replicas are in haste: a proposer has the aggregate   *)
(* of its view when it proposes, unless a first command came late or the   *)
(* proposer was in haste, and an aggregate combines transcripts of         *)
(* different dealers, unless a second command made one of them deal again. *)
(*                                                                         *)
(* The transcripts for a view w of proposer d are dealt in one turn, d's   *)
(* own in the last view of that turn.  What q dealt is counted, or not     *)
(* needed any more, or on its way (Dealt).  When d gets to the last view   *)
(* of the turn it has heard from nmajority others, which are past their    *)
(* view of dealing, and nothing they sent by then is on its way (Heard):   *)
(* so nmajority transcripts have come before d adds its own (OwnLast), and *)
(* the last of them set off the aggregation (Counted).  The exceptions are *)
(* those in which d has not heard enough, or has heard from one that had   *)
(* not dealt yet (Excused).                                                *)
(*                                                                         *)
(* A replica with one command deals once for a view (DealsOnce): what it   *)
(* has on its way it dealt (Sent), and once it is counted for a view       *)
(* nothing more of it comes for that view (Single).                        *)
(***************************************************************************)
EXTENDS BeaconPipelineProofs

-----------------------------------------------------------------------------
(* The invariant.                                                          *)

\* q has run on_enter_view(u) to its end, when what it sent was marked s.
HasDealt(q, u, s) ==
  \/ u > 1 /\ u <= view[q] /\ s = u
  \/ u = 1 /\ <<q, s - 1>> \in commanded

\* The dealers of the transcripts for view w that have been kept.
DealersOf(w) == {transcript_ids[w][i] : i \in DOMAIN transcript_ids[w]}

Enough(w) == Len(transcript_ids[w]) >= NMajority

OnItsWay(q, u, s) == [for_view |-> ForView(q, u), sent_in |-> s] \in transcripts[q][Dest(q, u)]

\* The replica that deals for w in view 1 alone got to the last view but one of
\* the turn, if not further, without having dealt.
TooLate(w) ==
  \E q \in Replica :
    /\ ForView(q, 1) = w /\ view[q] > NReplicas - 2
    /\ \A c \in commanded : c[1] = q => c[2] > NReplicas - 2

Excused(w) == TooLate(w) \/ LeftInHaste(w)

DealTypes ==
  /\ heard \in [Replica -> SUBSET Replica]
  /\ transcripts \in [Replica -> [Replica -> SUBSET Transcript]]
  /\ transcript_ids \in [ForViews -> Seq(Replica)]
  /\ commanded \subseteq Commands

\* What is on its way has been dealt, and goes to the proposer it is for.
Sent ==
  \A q, r \in Replica : \A t \in transcripts[q][r] :
    /\ GetProposer(t.for_view) = r
    /\ \E u \in View : t.for_view = ForView(q, u) /\ HasDealt(q, u, t.sent_in)

Dealt ==
  \A q \in Replica, u \in View, s \in View :
    HasDealt(q, u, s) /\ Dest(q, u) # q =>
      \/ Enough(ForView(q, u))
      \/ q \in DealersOf(ForView(q, u))
      \/ OnItsWay(q, u, s)

\* A replica's own transcript comes after nmajority others.
OwnLast ==
  \A d \in Replica, u \in View :
    u <= view[d] /\ Dest(d, u) = d => Enough(ForView(d, u)) \/ Excused(ForView(d, u))

Heard ==
  \A r \in Replica : \A q \in heard[r] :
    /\ q # r /\ view[q] >= view[r]
    /\ \A t \in transcripts[q][r] : t.sent_in > view[r]

\* The aggregate of a view for which enough transcripts came is made, and those
\* of the set-up are there from the start.
Counted ==
  \A w \in ForViews :
    /\ w > 2 * NReplicas /\ Enough(w) =>
         view_agg_transcripts[GetProposer(w)][w] = w \/ Excused(w)
    /\ w <= 2 * NReplicas => view_agg_transcripts[GetProposer(w)][w] = w

DealInv == DealTypes /\ Sent /\ Dealt /\ OwnLast /\ Heard /\ Counted

-----------------------------------------------------------------------------
(* Turns.                                                                  *)

LEMMA DivModIs ==
  ASSUME NEW n \in Nat, n > 0, NEW k \in Nat, NEW x \in 0 .. n - 1
  PROVE  n * k + x \in Nat /\ (n * k + x) \div n = k /\ (n * k + x) % n = x
PROOF
  <1> DEFINE a == n * k + x
             q == a \div n
             y == a % n
  <1>1. a \in Nat
    OBVIOUS
  <1> HIDE DEF a
  <1>2. q \in Int /\ y \in Int /\ 0 <= y /\ y < n /\ a = n * q + y
    BY <1>1, DivMod
  <1> HIDE DEF q, y
  <1>3. n * q + y = n * k + x
    BY <1>2 DEF a
  <1>4. y \in 0 .. n - 1
    BY <1>2
  <1>5. q = k /\ y = x
    BY <1>2, <1>3, <1>4, DivModUnique
  <1> QED
    BY <1>1, <1>5 DEF a, q, y

\* The turn a view is in, and the place in it.
LEMMA TurnOf ==
  ASSUME NEW v \in Nat, v >= 1
  PROVE  /\ (v - 1) \div NReplicas \in Nat /\ (v - 1) % NReplicas \in 0 .. NReplicas - 1
         /\ v - 1 = NReplicas * ((v - 1) \div NReplicas) + ((v - 1) % NReplicas)
PROOF
  <1>1. v - 1 \in Nat /\ NReplicas \in Nat /\ NReplicas > 0
    BY Sizes
  <1> DEFINE k == (v - 1) \div NReplicas
             x == (v - 1) % NReplicas
  <1>2. k \in Int /\ x \in 0 .. NReplicas - 1 /\ v - 1 = NReplicas * k + x
    BY <1>1, DivMod
  <1> HIDE DEF k, x
  <1>3. k >= 0
    <2> SUFFICES ASSUME k <= -1 PROVE FALSE
      BY <1>2
    <2>1. NReplicas * k <= NReplicas * (-1)
      BY <1>1, <1>2
    <2> QED
      BY <1>1, <1>2, <2>1
  <1> QED
    BY <1>2, <1>3 DEF k, x

LEMMA DestType ==
  ASSUME NEW q \in Replica, NEW v \in View
  PROVE  Dest(q, v) \in Replica
PROOF
  <1>1. q + v \in Nat /\ NReplicas \in Nat /\ NReplicas > 0
    BY ViewType, Sizes DEF Replica
  <1> QED
    BY <1>1, DivMod DEF Dest, Replica

\* What q deals in view v is for a view of the one it is sent to, which comes
\* after those of the set-up.
LEMMA ForViewFacts ==
  ASSUME NEW q \in Replica, NEW v \in View
  PROVE  /\ ForView(q, v) \in ForViews /\ ForView(q, v) > 2 * NReplicas
         /\ GetProposer(ForView(q, v)) = Dest(q, v)
PROOF
  <1> DEFINE n == NReplicas
             k == (v - 1) \div n
             x == Dest(q, v)
  <1>1. n \in Nat /\ n > 0 /\ MaxView \in Nat /\ v \in Nat /\ v >= 1 /\ v <= MaxView + 1
    BY ViewType, Sizes
  <1>2. k \in Nat /\ n * k <= v - 1
    BY <1>1, TurnOf
  <1>3. x \in 0 .. n - 1
    BY DestType DEF Replica
  <1> HIDE DEF k, x
  <1>4. ForView(q, v) = n * (2 + k) + x + 1
    BY <1>1, <1>2, <1>3 DEF ForView, k, x
  <1>5. n * (2 + k) = 2 * n + n * k
    BY <1>1, <1>2
  <1>6. ForView(q, v) \in ForViews /\ ForView(q, v) > 2 * n
    BY <1>1, <1>2, <1>3, <1>4, <1>5 DEF ForViews
  <1>7. ForView(q, v) - 1 = n * (2 + k) + x
    BY <1>1, <1>2, <1>3, <1>4
  <1>8. (n * (2 + k) + x) % n = x
    BY <1>1, <1>2, <1>3, DivModIs
  <1> QED
    BY <1>6, <1>7, <1>8 DEF GetProposer, x

\* A replica deals to itself in the last view of a turn.
LEMMA OwnTurn ==
  ASSUME NEW d \in Replica, NEW v \in View, Dest(d, v) = d
  PROVE  v = NReplicas * ((v - 1) \div NReplicas) + NReplicas
PROOF
  <1> DEFINE n == NReplicas
             k == (v - 1) \div n
             x == (v - 1) % n
  <1>1. n \in Nat /\ n > 0 /\ v \in Nat /\ v >= 1 /\ d \in 0 .. n - 1
    BY ViewType, Sizes DEF Replica
  <1>2. k \in Nat /\ x \in 0 .. n - 1 /\ v - 1 = n * k + x
    BY <1>1, TurnOf
  <1> HIDE DEF k, x
  <1>3. (d + v) % n = d
    BY DEF Dest
  <1>4. d + v = n * k + (d + x + 1)
    BY <1>1, <1>2
  <1>5. CASE d + x + 1 <= n - 1
    <2>1. d + x + 1 \in 0 .. n - 1
      BY <1>1, <1>2, <1>5
    <2>2. (n * k + (d + x + 1)) % n = d + x + 1
      BY <1>1, <1>2, <2>1, DivModIs
    <2> QED
      BY <1>1, <1>2, <1>3, <1>4, <2>2
  <1>6. CASE d + x + 1 >= n
    <2>1. d + x + 1 - n \in 0 .. n - 1 /\ k + 1 \in Nat
      BY <1>1, <1>2, <1>6
    <2>2. n * (k + 1) + (d + x + 1 - n) = n * k + (d + x + 1)
      BY <1>1, <1>2
    <2>3. (n * (k + 1) + (d + x + 1 - n)) % n = d + x + 1 - n
      BY <1>1, <2>1, DivModIs
    <2>4. d + x + 1 - n = d
      BY <1>3, <1>4, <2>2, <2>3
    <2>5. x = n - 1
      BY <1>1, <1>2, <2>4
    <2> QED
      BY <1>1, <1>2, <2>5 DEF k
  <1> QED
    BY <1>1, <1>2, <1>5, <1>6

\* Nobody deals to itself in view 1.
LEMMA NotToItself ==
  ASSUME NEW r \in Replica
  PROVE  Dest(r, 1) # r
PROOF
  <1> SUFFICES ASSUME Dest(r, 1) = r PROVE FALSE
    OBVIOUS
  <1>1. 1 \in View
    BY Sizes DEF View
  <1>2. 1 = NReplicas * ((1 - 1) \div NReplicas) + NReplicas
    BY <1>1, OwnTurn
  <1>3. (1 - 1) \div NReplicas \in Nat
    BY TurnOf
  <1>4. NReplicas * ((1 - 1) \div NReplicas) >= 0
    BY <1>3, Sizes
  <1> QED
    BY <1>2, <1>4, Sizes

\* In the same turn each other replica has dealt to it for the same view.
LEMMA OthersTurn ==
  ASSUME NEW d \in Replica, NEW q \in Replica, q # d, NEW v \in View, Dest(d, v) = d
  PROVE  \E u \in View : /\ u < v /\ v < u + NReplicas /\ Dest(q, u) = d
                         /\ ForView(q, u) = ForView(d, v)
PROOF
  <1> DEFINE n == NReplicas
             k == (v - 1) \div n
             e == IF d > q THEN d - q ELSE d - q + n
             u == n * k + e
  <1>1. /\ n \in Nat /\ n > 0 /\ v \in Nat /\ v >= 1 /\ v <= MaxView + 1 /\ MaxView \in Nat
        /\ d \in 0 .. n - 1 /\ q \in 0 .. n - 1
    BY ViewType, Sizes DEF Replica
  <1>2. k \in Nat /\ v = n * k + n
    BY <1>1, TurnOf, OwnTurn
  <1>3. e \in Nat /\ e >= 1 /\ e <= n - 1
    BY <1>1
  <1>4. n * k \in Nat
    BY <1>1, <1>2
  <1> HIDE DEF k
  <1>5. u \in View /\ u < v /\ v < u + n
    BY <1>1, <1>2, <1>3, <1>4 DEF View
  <1>6. (u - 1) \div n = k
    <2>1. u - 1 = n * k + (e - 1) /\ e - 1 \in 0 .. n - 1
      BY <1>1, <1>3, <1>4
    <2>2. (n * k + (e - 1)) \div n = k
      BY <1>1, <1>2, <2>1, DivModIs
    <2> QED
      BY <2>1, <2>2
  <1>7. (q + u) % n = d
    <2>1. CASE d > q
      <3>1. q + u = n * k + d
        BY <1>1, <1>4, <2>1
      <3>2. (n * k + d) % n = d
        BY <1>1, <1>2, DivModIs, ZenonT(40)
      <3> QED
        BY <3>1, <3>2
    <2>2. CASE ~ (d > q)
      <3>1. q + u = n * (k + 1) + d /\ k + 1 \in Nat
        BY <1>1, <1>2, <1>4, <2>2
      <3>2. (n * (k + 1) + d) % n = d
        BY <1>1, <3>1, DivModIs
      <3> QED
        BY <3>1, <3>2
    <2> QED
      BY <2>1, <2>2
  <1> HIDE DEF u
  <1>8. Dest(q, u) = d
    BY <1>7 DEF Dest
  <1>9. ForView(q, u) = ForView(d, v)
    BY <1>6, <1>8 DEF ForView, k
  <1> QED
    BY <1>5, <1>8, <1>9

\* The own transcript for a view after those of the set-up is dealt before it.
LEMMA OwnView ==
  ASSUME NEW w \in View, w > 2 * NReplicas
  PROVE  \E u \in View : /\ u < w /\ Dest(GetProposer(w), u) = GetProposer(w)
                         /\ ForView(GetProposer(w), u) = w
PROOF
  <1> DEFINE n == NReplicas
             k == (w - 1) \div n
             d == (w - 1) % n
             u == n * (k - 1)
  <1>1. n \in Nat /\ n > 0 /\ w \in Nat /\ w >= 1 /\ w <= MaxView + 1 /\ MaxView \in Nat
    BY ViewType, Sizes
  <1>2. k \in Nat /\ d \in 0 .. n - 1 /\ w - 1 = n * k + d
    BY <1>1, TurnOf
  <1>3. GetProposer(w) = d
    BY DEF GetProposer
  <1> HIDE DEF k, d
  <1>4. k >= 2
    <2> SUFFICES ASSUME k <= 1 PROVE FALSE
      BY <1>2
    <2>1. n * k <= n
      BY <1>1, <1>2
    <2> QED
      BY <1>1, <1>2, <2>1
  <1>5. k - 1 \in Nat /\ k - 2 \in Nat
    BY <1>2, <1>4
  <1>6. /\ n * (k - 1) = n * k - n /\ n * (k - 1) = n * (k - 2) + n
        /\ n * k \in Nat /\ n * (k - 2) \in Nat
    BY <1>1, <1>2, <1>5
  <1>7. u \in View /\ u < w
    BY <1>1, <1>2, <1>6 DEF View
  <1>8. (u - 1) \div n = k - 2
    <2>1. u - 1 = n * (k - 2) + (n - 1) /\ n - 1 \in 0 .. n - 1
      BY <1>1, <1>5, <1>6
    <2>2. (n * (k - 2) + (n - 1)) \div n = k - 2
      BY <1>1, <1>5, <2>1, DivModIs
    <2> QED
      BY <2>1, <2>2
  <1>9. (d + u) % n = d
    <2>1. d + u = n * (k - 1) + d
      BY <1>1, <1>2, <1>6
    <2>2. (n * (k - 1) + d) % n = d
      BY <1>1, <1>2, <1>5, DivModIs
    <2> QED
      BY <2>1, <2>2
  <1> HIDE DEF u
  <1>10. Dest(d, u) = d
    BY <1>9 DEF Dest
  <1>11. ForView(d, u) = w
    <2>1. ForView(d, u) = (2 + (k - 2)) * n + d + 1
      BY <1>8, <1>10 DEF ForView
    <2>2. (2 + (k - 2)) * n = n * k
      BY <1>1, <1>2
    <2> QED
      BY <1>1, <1>2, <1>6, <2>1, <2>2
  <1> QED
    BY <1>3, <1>7, <1>10, <1>11


\* A replica deals to itself once for a view.
LEMMA OwnOnce ==
  ASSUME NEW d \in Replica, NEW u \in View, NEW v \in View,
         Dest(d, u) = d, Dest(d, v) = d, ForView(d, u) = ForView(d, v)
  PROVE  u = v
PROOF
  <1> DEFINE n == NReplicas
             k == (u - 1) \div n
             m == (v - 1) \div n
  <1>1. n \in Nat /\ n > 0 /\ d \in Nat
    BY Sizes DEF Replica
  <1>2. k \in Nat /\ m \in Nat /\ u = n * k + n /\ v = n * m + n
    BY ViewType, TurnOf, OwnTurn
  <1>3. ForView(d, u) = (2 + k) * n + d + 1 /\ ForView(d, v) = (2 + m) * n + d + 1
    BY DEF ForView
  <1> HIDE DEF k, m
  <1>4. n * k = n * m
    BY <1>1, <1>2, <1>3
  <1> QED
    BY <1>1, <1>2, <1>4

-----------------------------------------------------------------------------
(* Counting.                                                               *)

\* A list has no more members than places.
LEMMA Listed ==
  ASSUME NEW s \in Seq(Replica), NEW S, S \subseteq {s[i] : i \in DOMAIN s}
  PROVE  Cardinality(S) <= Len(s)
PROOF
  <1> DEFINE T == {s[i] : i \in DOMAIN s}
  <1>1. Len(s) \in Nat /\ DOMAIN s = 1 .. Len(s)
    OBVIOUS
  <1>2. IsFiniteSet(1 .. Len(s)) /\ Cardinality(1 .. Len(s)) = Len(s)
    BY <1>1, FS_Interval, SMTT(30)
  <1>3. s \in Surjection(1 .. Len(s), T)
    BY <1>1 DEF Surjection
  <1>4. IsFiniteSet(T) /\ Cardinality(T) <= Len(s)
    BY <1>2, <1>3, FS_Surjection
  <1>5. Cardinality(S) <= Cardinality(T) /\ Cardinality(S) \in Nat /\ Cardinality(T) \in Nat
    BY <1>4, FS_Subset, FS_CardinalityType
  <1> QED
    BY <1>1, <1>4, <1>5

\* What LeaveView asks for, but for a replica in haste, is nmajority others.
LEMMA Majority ==
  ASSUME NEW r \in Replica, heard \in [Replica -> SUBSET Replica], HeardEnough(r),
         <<r, view[r]>> \notin Hasty
  PROVE  Cardinality(heard[r]) >= NMajority
PROOF
  <1>1. IsFiniteSet(Replica)
    BY Sizes, FS_Interval DEF Replica
  <1>2. Cardinality(heard[r]) \in Nat
    BY <1>1, FS_Subset, FS_CardinalityType
  <1> QED
    BY <1>2, Sizes DEF HeardEnough

-----------------------------------------------------------------------------
(* The steps.                                                              *)

\* Lists of transcripts only grow.
Grow ==
  \A w \in ForViews :
    \/ transcript_ids'[w] = transcript_ids[w]
    \/ \E q \in Replica : transcript_ids'[w] = Append(transcript_ids[w], q)

LEMMA GrowKeeps ==
  ASSUME DealTypes, DealTypes', Grow, NEW w \in ForViews
  PROVE  /\ Enough(w) => Enough(w)'
         /\ DealersOf(w) \subseteq DealersOf(w)'
PROOF
  <1> DEFINE s == transcript_ids[w]
             t == transcript_ids'[w]
  <1>1. s \in Seq(Replica) /\ t \in Seq(Replica)
    BY DEF DealTypes
  <1>2. CASE t = s
    BY <1>2 DEF Enough, DealersOf
  <1>3. ASSUME NEW q \in Replica, t = Append(s, q)
        PROVE  Len(t) = Len(s) + 1 /\ \A i \in DOMAIN s : i \in DOMAIN t /\ t[i] = s[i]
    BY <1>1, <1>3
  <1>4. CASE \E q \in Replica : t = Append(s, q)
    <2>1. Len(t) = Len(s) + 1 /\ \A i \in DOMAIN s : i \in DOMAIN t /\ t[i] = s[i]
      BY <1>3, <1>4
    <2>2. Len(s) \in Nat
      BY <1>1
    <2>3. Enough(w) => Enough(w)'
      BY <2>1, <2>2, Sizes DEF Enough
    <2> QED
      BY <2>1, <2>3 DEF DealersOf
  <1> QED
    BY <1>2, <1>4 DEF Grow

\* What on_enter_view(v) deals, in r's view or on entering the next one.
Deals(r, v, now) ==
  IF Dest(r, v) = r
  THEN /\ transcript_ids' = [transcript_ids EXCEPT ![ForView(r, v)] = Append(@, r)]
       /\ transcripts' = transcripts
  ELSE /\ transcripts' = [transcripts EXCEPT ![r][Dest(r, v)] =
            @ \cup {[for_view |-> ForView(r, v), sent_in |-> now]}]
       /\ transcript_ids' = transcript_ids

Enters(r, v) ==
  /\ Deals(r, v, view[r] + 1)
  /\ view[r] \in View /\ view[r] + 1 \in View
  /\ \/ /\ v = 1 /\ Dest(r, v) # r
        /\ view' = view /\ heard' = heard
        /\ <<r, view[r]>> \in Commands \ commanded
        /\ commanded' = commanded \cup {<<r, view[r]>>}
     \/ /\ v = view[r] + 1
        /\ view' = [view EXCEPT ![r] = v] /\ heard' = [heard EXCEPT ![r] = {}]
        /\ commanded' = commanded
  /\ Dest(r, v) = r => Enough(ForView(r, v)) \/ Excused(ForView(r, v))
  /\ UNCHANGED view_agg_transcripts

\* A command is at a replica and in a view.
LEMMA CommandTypes ==
  ASSUME DealTypes, NEW c \in commanded
  PROVE  c = <<c[1], c[2]>> /\ c[1] \in Replica /\ c[2] \in Nat /\ c[2] >= 1 /\ c[2] <= MaxView
PROOF
  <1>1. c \in Replica \X (1 .. MaxView)
    BY PipelineAssumption DEF DealTypes
  <1> QED
    BY <1>1, Sizes

\* On entering a view or on a command one transcript more is dealt.
LEMMA DealsOneMore ==
  ASSUME DealTypes, Types, NEW r \in Replica, NEW v \in View, Enters(r, v)
  PROVE  /\ view[r] \in Nat /\ view' \in [Replica -> View]
         /\ \A q \in Replica : view[q] \in Nat /\ view'[q] \in Nat /\ view'[q] >= view[q]
         /\ commanded \subseteq commanded' /\ commanded' \subseteq Commands
         /\ commanded' \subseteq commanded \cup {<<r, view[r]>>}
         /\ \A q \in Replica, u \in View, s \in View :
              /\ HasDealt(q, u, s) => HasDealt(q, u, s)'
              /\ HasDealt(q, u, s)' =>
                   HasDealt(q, u, s) \/ (q = r /\ u = v /\ s = view[r] + 1)
         /\ \E s \in View : s = view[r] + 1 /\ HasDealt(r, v, s)'
         /\ \A p \in Replica : \A q \in heard'[p] : q \in heard[p] /\ view'[p] = view[p]
PROOF
  <1>1. /\ \A q \in Replica : view[q] \in View /\ view[q] \in Nat
        /\ \A u \in View : u \in Nat /\ u >= 1
        /\ view[r] + 1 \in View /\ view[r] + 1 \in Nat
    BY ViewType DEF Enters, Types
  <1>2. CASE /\ v = 1 /\ view' = view /\ heard' = heard
             /\ <<r, view[r]>> \in Commands \ commanded
             /\ commanded' = commanded \cup {<<r, view[r]>>}
    <2>1. view' \in [Replica -> View] /\ \A q \in Replica : view'[q] >= view[q]
      BY <1>1, <1>2 DEF Types
    <2>2. commanded \subseteq commanded' /\ commanded' \subseteq Commands
      BY <1>2 DEF DealTypes
    <2>3. ASSUME NEW q \in Replica, NEW u \in View, NEW s \in View
          PROVE  /\ HasDealt(q, u, s) => HasDealt(q, u, s)'
                 /\ HasDealt(q, u, s)' =>
                      HasDealt(q, u, s) \/ (q = r /\ u = v /\ s = view[r] + 1)
      BY <1>1, <1>2 DEF HasDealt
    <2>4. \E s \in View : s = view[r] + 1 /\ HasDealt(r, v, s)'
      <3>1. PICK s \in View : s = view[r] + 1
        BY <1>1
      <3>2. s - 1 = view[r]
        BY <1>1, <3>1
      <3> QED
        BY <1>2, <3>1, <3>2 DEF HasDealt
    <2> QED
      BY <1>1, <1>2, <2>1, <2>2, <2>3, <2>4
  <1>3. CASE /\ v = view[r] + 1
             /\ view' = [view EXCEPT ![r] = v] /\ heard' = [heard EXCEPT ![r] = {}]
             /\ commanded' = commanded
    <2>1. /\ \A q \in Replica : view'[q] = IF q = r THEN view[r] + 1 ELSE view[q]
          /\ \A q \in Replica : heard'[q] = IF q = r THEN {} ELSE heard[q]
          /\ view' \in [Replica -> View]
      BY <1>3 DEF Types, DealTypes
    <2>2. \A q \in Replica : view'[q] >= view[q] /\ view'[q] \in Nat
      BY <1>1, <2>1
    <2>3. ASSUME NEW q \in Replica, NEW u \in View, NEW s \in View
          PROVE  /\ HasDealt(q, u, s) => HasDealt(q, u, s)'
                 /\ HasDealt(q, u, s)' =>
                      HasDealt(q, u, s) \/ (q = r /\ u = v /\ s = view[r] + 1)
      BY <1>1, <1>3, <2>1 DEF HasDealt
    <2>4. \E s \in View : s = view[r] + 1 /\ HasDealt(r, v, s)'
      BY <1>1, <1>3, <2>1 DEF HasDealt
    <2>5. commanded' \subseteq Commands
      BY <1>3 DEF DealTypes
    <2>6. ASSUME NEW p \in Replica, NEW q \in heard'[p]
          PROVE  q \in heard[p] /\ view'[p] = view[p]
      BY <2>1, <2>6
    <2> QED
      BY <1>1, <1>3, <2>1, <2>2, <2>3, <2>4, <2>5, <2>6
  <1> QED
    BY <1>2, <1>3 DEF Enters

\* An excuse stays one: whoever was too late is past that view.
LEMMA ExcusedStays ==
  ASSUME DealTypes, Types, NEW r \in Replica, NEW v \in View, Enters(r, v), NEW w, Excused(w)
  PROVE  Excused(w)'
PROOF
  <1>1. CASE LeftInHaste(w)
    BY <1>1 DEF Excused, LeftInHaste
  <1>2. CASE TooLate(w)
    <2>1. PICK q \in Replica :
                 /\ ForView(q, 1) = w /\ view[q] > NReplicas - 2
                 /\ \A c \in commanded : c[1] = q => c[2] > NReplicas - 2
      BY <1>2 DEF TooLate
    <2>2. view'[q] > NReplicas - 2
      BY <2>1, DealsOneMore, Sizes
    <2>3. ASSUME NEW c \in commanded', c[1] = q
          PROVE  c[2] > NReplicas - 2
      <3>1. c \in commanded \/ c = <<r, view[r]>>
        BY DealsOneMore
      <3> QED
        BY <2>1, <2>3, <3>1
    <2> QED
      BY <2>1, <2>2, <2>3 DEF Excused, TooLate
  <1> QED
    BY <1>1, <1>2 DEF Excused

\* The channels from r grow by what it deals.
LEMMA Channels ==
  ASSUME DealTypes, Types, NEW r \in Replica, NEW v \in View, Enters(r, v)
  PROVE  /\ DealTypes' /\ Grow
         /\ \A q, p \in Replica :
              transcripts'[q][p] =
                IF q = r /\ p = Dest(r, v) /\ p # r
                THEN transcripts[q][p]
                       \cup {[for_view |-> ForView(r, v), sent_in |-> view[r] + 1]}
                ELSE transcripts[q][p]
PROOF
  <1> DEFINE m == [for_view |-> ForView(r, v), sent_in |-> view[r] + 1]
  <1>1. Dest(r, v) \in Replica /\ ForView(r, v) \in ForViews
    BY DestType, ForViewFacts
  <1>2. m \in Transcript
    BY <1>1 DEF Transcript, Enters
  <1>3. heard' \in [Replica -> SUBSET Replica] /\ commanded' \subseteq Commands
    <2>1. commanded' \subseteq Commands
      BY DealsOneMore
    <2> QED
      BY <2>1 DEF DealTypes, Enters
  <1>4. CASE Dest(r, v) = r
    <2>1. /\ transcript_ids' = [transcript_ids EXCEPT ![ForView(r, v)] = Append(@, r)]
          /\ transcripts' = transcripts
      BY <1>4 DEF Enters, Deals
    <2>2. transcript_ids[ForView(r, v)] \in Seq(Replica)
      BY <1>1 DEF DealTypes
    <2>3. Append(transcript_ids[ForView(r, v)], r) \in Seq(Replica)
      BY <2>2
    <2>4. DealTypes'
      BY <1>1, <1>3, <2>1, <2>3 DEF DealTypes
    <2>5. Grow
      BY <1>1, <2>1 DEF DealTypes, Grow
    <2> QED
      BY <1>4, <2>1, <2>4, <2>5
  <1>5. CASE Dest(r, v) # r
    <2> HIDE DEF m
    <2>1. /\ transcripts' = [transcripts EXCEPT ![r][Dest(r, v)] = @ \cup {m}]
          /\ transcript_ids' = transcript_ids
      BY <1>5 DEF Enters, Deals, m
    <2>2. \A q, p \in Replica :
            transcripts'[q][p] = IF q = r /\ p = Dest(r, v)
                                 THEN transcripts[q][p] \cup {m}
                                 ELSE transcripts[q][p]
      BY <1>1, <2>1 DEF DealTypes
    <2>3. DealTypes'
      BY <1>1, <1>2, <1>3, <2>1 DEF DealTypes
    <2>4. Grow
      BY <2>1 DEF Grow
    <2> QED
      BY <1>5, <2>2, <2>3, <2>4 DEF m
  <1> QED
    BY <1>4, <1>5

LEMMA EntersKeeps ==
  ASSUME DealInv, Types, NEW r \in Replica, NEW v \in View, Enters(r, v)
  PROVE  DealInv'
PROOF
  <1> DEFINE m == [for_view |-> ForView(r, v), sent_in |-> view[r] + 1]
  <1> USE DEF DealInv
  <1>1. DealTypes' /\ Grow
    BY Channels
  <1>2. \A q, p \in Replica :
          transcripts'[q][p] = IF q = r /\ p = Dest(r, v) /\ p # r
                               THEN transcripts[q][p] \cup {m} ELSE transcripts[q][p]
    BY Channels
  <1>3. m.for_view = ForView(r, v) /\ m.sent_in = view[r] + 1 /\ view[r] + 1 \in View
    BY DEF Enters
  <1> HIDE DEF m
  <1>4. ASSUME NEW q \in Replica, NEW u \in View
        PROVE  /\ Dest(q, u) \in Replica /\ ForView(q, u) \in ForViews
               /\ GetProposer(ForView(q, u)) = Dest(q, u)
    BY DestType, ForViewFacts
  <1>5. Sent'
    <2> SUFFICES ASSUME NEW q \in Replica, NEW p \in Replica, NEW t \in transcripts'[q][p]
                 PROVE  /\ GetProposer(t.for_view) = p
                        /\ \E u \in View :
                             t.for_view = ForView(q, u) /\ HasDealt(q, u, t.sent_in)'
      BY DEF Sent
    <2>1. CASE t \in transcripts[q][p]
      <3>1. PICK u \in View : t.for_view = ForView(q, u) /\ HasDealt(q, u, t.sent_in)
        BY <2>1 DEF Sent
      <3>2. t.sent_in \in View
        BY <2>1 DEF DealTypes, Transcript
      <3>3. GetProposer(t.for_view) = p
        BY <2>1 DEF Sent
      <3>4. HasDealt(q, u, t.sent_in)'
        BY <3>1, <3>2, DealsOneMore
      <3> QED
        BY <3>1, <3>3, <3>4
    <2>2. CASE t = m /\ q = r /\ p = Dest(r, v)
      <3>1. PICK s \in View : s = view[r] + 1 /\ HasDealt(r, v, s)'
        BY DealsOneMore
      <3>2. t.for_view = ForView(r, v) /\ t.sent_in = s
        BY <1>3, <2>2, <3>1
      <3>3. GetProposer(t.for_view) = p
        BY <1>4, <2>2, <3>2
      <3> QED
        BY <2>2, <3>1, <3>2, <3>3
    <2>3. t \in transcripts[q][p] \/ (t = m /\ q = r /\ p = Dest(r, v))
      BY <1>2
    <2> QED
      BY <2>1, <2>2, <2>3
  <1>6. Dealt'
    <2> SUFFICES ASSUME NEW q \in Replica, NEW u \in View, NEW s \in View,
                        HasDealt(q, u, s)', Dest(q, u) # q
                 PROVE  \/ Enough(ForView(q, u))'
                        \/ q \in DealersOf(ForView(q, u))'
                        \/ OnItsWay(q, u, s)'
      BY DEF Dealt
    <2>1. CASE HasDealt(q, u, s)
      <3>1. \/ Enough(ForView(q, u))
            \/ q \in DealersOf(ForView(q, u))
            \/ OnItsWay(q, u, s)
        BY <2>1 DEF Dealt
      <3>2. OnItsWay(q, u, s) => OnItsWay(q, u, s)'
        BY <1>2, <1>4 DEF OnItsWay
      <3> QED
        BY <1>1, <1>4, <3>1, <3>2, GrowKeeps
    <2>2. CASE q = r /\ u = v /\ s = view[r] + 1
      <3>1. m \in transcripts'[r][Dest(r, v)]
        BY <1>2, <1>4, <2>2
      <3> QED
        BY <2>2, <3>1 DEF OnItsWay, m
    <2> QED
      BY <2>1, <2>2, DealsOneMore
  <1>7. OwnLast'
    <2> SUFFICES ASSUME NEW d \in Replica, NEW u \in View, u <= view'[d], Dest(d, u) = d
                 PROVE  Enough(ForView(d, u))' \/ Excused(ForView(d, u))'
      BY DEF OwnLast
    <2>1. u <= view[d] \/ (d = r /\ u = v)
      <3>1. u \in Nat /\ view[d] \in Nat /\ view[r] \in Nat
        BY ViewType DEF Types
      <3>2. CASE view' = view
        BY <3>2
      <3>3. CASE v = view[r] + 1 /\ view' = [view EXCEPT ![r] = v]
        BY <3>1, <3>3 DEF Types
      <3> QED
        BY <3>2, <3>3 DEF Enters
    <2>2. Enough(ForView(d, u)) \/ Excused(ForView(d, u))
      BY <2>1 DEF OwnLast, Enters
    <2> QED
      BY <1>1, <1>4, <2>2, GrowKeeps, ExcusedStays
  <1>8. Heard'
    <2> SUFFICES ASSUME NEW p \in Replica, NEW q \in heard'[p]
                 PROVE  /\ q # p /\ view'[q] >= view'[p]
                        /\ \A t \in transcripts'[q][p] : t.sent_in > view'[p]
      BY DEF Heard
    <2>1. q \in heard[p] /\ view'[p] = view[p]
      BY DealsOneMore
    <2>2. /\ q \in Replica /\ q # p /\ view[q] >= view[p]
          /\ \A t \in transcripts[q][p] : t.sent_in > view[p]
      BY <2>1 DEF Heard, DealTypes
    <2>3. view'[q] >= view'[p]
      <3>1. view'[q] >= view[q] /\ view'[q] \in Nat /\ view[q] \in Nat /\ view[p] \in Nat
        BY <2>2, DealsOneMore
      <3> QED
        BY <2>1, <2>2, <3>1
    <2>4. ASSUME NEW t \in transcripts'[q][p]
          PROVE  t.sent_in > view[p]
      <3>1. CASE q = r /\ t = m
        <4>1. view[q] \in Nat /\ view[p] \in Nat
          BY <2>2, DealsOneMore
        <4> QED
          BY <1>3, <2>2, <3>1, <4>1
      <3>2. CASE t \in transcripts[q][p]
        BY <2>2, <3>2
      <3> QED
        BY <1>2, <2>2, <2>4, <3>1, <3>2
    <2> QED
      BY <2>1, <2>2, <2>3, <2>4
  <1>9. Counted'
    <2> SUFFICES ASSUME NEW w \in ForViews
                 PROVE  Enough(w)' => Enough(w) \/ Excused(w)
      <3>1. \A w \in ForViews : Excused(w) => Excused(w)'
        BY ExcusedStays
      <3> QED
        BY <3>1 DEF Counted, Enters
    <2>1. CASE transcript_ids'[w] = transcript_ids[w]
      BY <2>1 DEF Enough
    <2>2. CASE transcript_ids'[w] # transcript_ids[w]
      BY <2>2 DEF Enters, Deals, DealTypes
    <2> QED
      BY <2>1, <2>2
  <1> QED
    BY <1>1, <1>5, <1>6, <1>7, <1>8, <1>9

\* What q dealt for d's view by the view d is about to leave, d has once it has
\* heard from q.
LEMMA HeardDealer ==
  ASSUME DealInv, Types, NEW d \in Replica, NEW q \in heard[d],
         NEW u \in View, NEW s \in View, HasDealt(q, u, s), s <= view[d], Dest(q, u) = d
  PROVE  Enough(ForView(q, u)) \/ q \in DealersOf(ForView(q, u))
PROOF
  <1> USE DEF DealInv
  <1>1. q \in Replica /\ q # d /\ \A t \in transcripts[q][d] : t.sent_in > view[d]
    BY DEF Heard, DealTypes
  <1>2. ~ OnItsWay(q, u, s)
    <2> SUFFICES ASSUME OnItsWay(q, u, s) PROVE FALSE
      OBVIOUS
    <2>1. s > view[d]
      BY <1>1 DEF OnItsWay
    <2>2. s \in Nat /\ view[d] \in Nat
      BY ViewType DEF Types
    <2> QED
      BY <2>1, <2>2
  <1> QED
    BY <1>1, <1>2 DEF Dealt

\* When a replica enters the view in which it deals to itself, nmajority of the
\* others' transcripts are there.
LEMMA OthersFirst ==
  ASSUME DealInv, Types, NEW d \in Replica, LeaveView(d),
         NEW v \in View, v = view[d] + 1, Dest(d, v) = d
  PROVE  Enough(ForView(d, v)) \/ Excused(ForView(d, v))
PROOF
  <1> DEFINE w == ForView(d, v)
  <1> SUFFICES ASSUME ~ Enough(w), ~ Excused(w) PROVE FALSE
    OBVIOUS
  <1> USE DEF DealInv
  <1>0. v \in Nat /\ view[d] \in Nat /\ NReplicas \in Nat /\ v - 1 = view[d]
    <2> HIDE DEF w
    <2>1. view[d] \in Nat
      BY ViewType DEF Types
    <2> QED
      BY <2>1, Sizes
  <1>1. ASSUME NEW q \in heard[d]
        PROVE  q \in DealersOf(w)
    <2>1. q \in Replica /\ q # d /\ view[q] >= view[d] /\ view[q] \in Nat
      BY ViewType DEF Heard, DealTypes, Types
    <2>2. PICK u \in View : /\ u < v /\ v < u + NReplicas /\ Dest(q, u) = d
                            /\ ForView(q, u) = w
      BY <2>1, OthersTurn
    <2>3. u \in Nat /\ u >= 1 /\ u <= view[d] /\ u <= view[q]
      BY <1>0, <2>1, <2>2, ViewType
    <2>4. CASE u > 1
      <3>1. HasDealt(q, u, u)
        BY <2>3, <2>4 DEF HasDealt
      <3> QED
        BY <2>2, <2>3, <3>1, HeardDealer
    <2>5. CASE u = 1
      <3>1. v = NReplicas
        <4>1. v = NReplicas * ((v - 1) \div NReplicas) + NReplicas
          BY OwnTurn
        <4>2. (v - 1) \div NReplicas \in Nat
          BY <1>0, ViewType, TurnOf
        <4>3. NReplicas * ((v - 1) \div NReplicas) >= 0
          BY <1>0, <4>2
        <4> HIDE DEF w
        <4> QED
          BY <1>0, <2>2, <2>5, <4>1, <4>3
      <3>2. view[q] > NReplicas - 2
        BY <1>0, <2>1, <3>1
      <3>3. PICK c \in commanded : c[1] = q /\ ~ (c[2] > NReplicas - 2)
        BY <2>1, <2>2, <2>5, <3>2 DEF Excused, TooLate
      <3>4. /\ c = <<q, c[2]>> /\ c[2] \in Nat /\ c[2] >= 1 /\ c[2] <= MaxView
        BY <3>3, CommandTypes
      <3>5. c[2] + 1 \in View /\ c[2] + 1 <= view[d] /\ (c[2] + 1) - 1 = c[2]
        BY <1>0, <3>1, <3>3, <3>4, Sizes DEF View
      <3>6. HasDealt(q, 1, c[2] + 1)
        BY <3>4, <3>5 DEF HasDealt
      <3> QED
        BY <2>2, <2>5, <3>5, <3>6, HeardDealer
    <2> QED
      BY <2>3, <2>4, <2>5
  <1>2. w \in ForViews /\ GetProposer(w) = d
    BY ForViewFacts
  <1>3. transcript_ids[w] \in Seq(Replica)
    BY <1>2 DEF DealTypes
  <1>4. heard[d] \subseteq {transcript_ids[w][i] : i \in DOMAIN transcript_ids[w]}
    BY <1>1 DEF DealersOf
  <1>5. <<d, view[d]>> \notin Hasty
    <2> SUFFICES ASSUME <<d, view[d]>> \in Hasty PROVE FALSE
      OBVIOUS
    <2>1. <<GetProposer(w), v - 1>> \in Hasty
      BY <1>0, <1>2
    <2> QED
      BY <1>2, <2>1 DEF Excused, LeftInHaste
  <1> HIDE DEF w
  <1>6. Cardinality(heard[d]) <= Len(transcript_ids[w])
    BY <1>3, <1>4, Listed
  <1>7. Cardinality(heard[d]) >= NMajority
    BY <1>5, Majority DEF DealTypes, LeaveView
  <1>8. Cardinality(heard[d]) \in Nat
    <2>1. IsFiniteSet(Replica)
      BY Sizes, FS_Interval DEF Replica
    <2>2. heard[d] \in SUBSET Replica
      BY DEF DealTypes
    <2> QED
      BY <2>1, <2>2, FS_Subset, FS_CardinalityType
  <1> QED
    BY <1>3, <1>6, <1>7, <1>8, Sizes DEF Enough

LEMMA LeaveViewDeals ==
  ASSUME DealInv, Types, NEW r \in Replica, LeaveView(r)
  PROVE  view[r] + 1 \in View /\ Enters(r, view[r] + 1)
PROOF
  <1> DEFINE v == view[r] + 1
  <1>1. view[r] \in View /\ v \in View
    <2>1. view[r] \in View /\ view[r] \in Nat /\ view[r] <= MaxView
      BY ViewType DEF LeaveView, Types
    <2> QED
      BY <2>1, Sizes DEF View
  <1>2. /\ view' = [view EXCEPT ![r] = v] /\ heard' = [heard EXCEPT ![r] = {}]
        /\ UNCHANGED <<view_agg_transcripts, commanded>>
        /\ Deals(r, v, v)
    <2>1. CASE Dest(r, v) = r
      BY <2>1 DEF LeaveView, Deal, Deals
    <2>2. CASE Dest(r, v) # r
      BY <2>2 DEF LeaveView, Deal, Deals
    <2> QED
      BY <2>1, <2>2
  <1>3. Dest(r, v) = r => Enough(ForView(r, v)) \/ Excused(ForView(r, v))
    BY <1>1, OthersFirst
  <1> QED
    BY <1>1, <1>2, <1>3 DEF Enters

\* A command deals for view 1, never to the replica itself.
LEMMA CommandDeals ==
  ASSUME Types, NEW r \in Replica, Command(r)
  PROVE  1 \in View /\ Enters(r, 1)
PROOF
  <1>1. 1 \in View
    BY Sizes DEF View
  <1>2. view[r] \in View /\ view[r] + 1 \in View
    <2>1. <<r, view[r]>> \in Replica \X (1 .. MaxView)
      BY PipelineAssumption DEF Command
    <2> QED
      BY <2>1, Sizes DEF View
  <1>3. Dest(r, 1) # r
    BY NotToItself
  <1>4. /\ Deals(r, 1, view[r] + 1)
        /\ <<r, view[r]>> \in Commands \ commanded
        /\ commanded' = commanded \cup {<<r, view[r]>>}
        /\ UNCHANGED <<view, heard, view_agg_transcripts>>
    BY <1>3 DEF Command, Deal, Deals
  <1> QED
    BY <1>1, <1>2, <1>3, <1>4 DEF Enters


LEMMA TranscriptDeals ==
  ASSUME DealInv, Types, NEW r \in Replica, NEW q \in Replica,
         OnReceivePvssTranscript(r, q)
  PROVE  DealInv'
PROOF
  <1> USE DEF DealInv
  <1>1. PICK m \in transcripts[q][r] :
          /\ transcripts' = [transcripts EXCEPT ![q][r] = @ \ {m}]
          /\ transcript_ids' = IF Wanted(m.for_view)
                               THEN [transcript_ids EXCEPT ![m.for_view] = Append(@, q)]
                               ELSE transcript_ids
          /\ view_agg_transcripts' =
               IF Wanted(m.for_view) /\ Completes(m.for_view)
               THEN [view_agg_transcripts EXCEPT ![r][m.for_view] = m.for_view]
               ELSE view_agg_transcripts
    BY DEF OnReceivePvssTranscript
  <1>2. UNCHANGED <<view, heard, commanded>>
    BY DEF OnReceivePvssTranscript
  <1> DEFINE w == m.for_view
  <1>3. w \in ForViews /\ GetProposer(w) = r
    <2>1. m \in Transcript
      BY DEF DealTypes
    <2> QED
      BY <2>1 DEF Transcript, Sent
  <1>4. /\ transcript_ids' = IF Wanted(w)
                             THEN [transcript_ids EXCEPT ![w] = Append(@, q)]
                             ELSE transcript_ids
        /\ view_agg_transcripts' = IF Wanted(w) /\ Completes(w)
                                   THEN [view_agg_transcripts EXCEPT ![r][w] = w]
                                   ELSE view_agg_transcripts
    BY <1>1
  <1>5. \A p, o \in Replica : transcripts'[p][o] = IF p = q /\ o = r
                                                   THEN transcripts[q][r] \ {m}
                                                   ELSE transcripts[p][o]
    BY <1>1 DEF DealTypes
  <1>6. transcript_ids[w] \in Seq(Replica) /\ Append(transcript_ids[w], q) \in Seq(Replica)
    BY <1>3 DEF DealTypes
  <1> HIDE DEF w
  <1>7. DealTypes'
    <2>1. transcripts' \in [Replica -> [Replica -> SUBSET Transcript]]
      BY <1>1 DEF DealTypes
    <2>2. transcript_ids' \in [ForViews -> Seq(Replica)]
      BY <1>4, <1>6 DEF DealTypes
    <2> QED
      BY <1>2, <2>1, <2>2 DEF DealTypes
  <1>8. Grow
    BY <1>3, <1>4 DEF Grow, DealTypes
  <1>9. /\ \A p, o \in Replica : transcripts'[p][o] \subseteq transcripts[p][o]
        /\ \A p \in Replica, u, s \in View : HasDealt(p, u, s)' <=> HasDealt(p, u, s)
        /\ \A x : Excused(x)' <=> Excused(x)
    BY <1>2, <1>5 DEF HasDealt, Excused, TooLate, LeftInHaste
  <1>10. Sent'
    <2> SUFFICES ASSUME NEW p \in Replica, NEW o \in Replica, NEW t \in transcripts'[p][o]
                 PROVE  /\ GetProposer(t.for_view) = o
                        /\ \E u \in View :
                             t.for_view = ForView(p, u) /\ HasDealt(p, u, t.sent_in)'
      BY DEF Sent
    <2>1. t \in transcripts[p][o]
      BY <1>9
    <2>2. t.sent_in \in View
      BY <2>1 DEF DealTypes, Transcript
    <2> QED
      BY <1>9, <2>1, <2>2 DEF Sent
  <1>11. Heard'
    <2> SUFFICES ASSUME NEW p \in Replica, NEW o \in heard[p]
                 PROVE  /\ o # p /\ view[o] >= view[p]
                        /\ \A t \in transcripts'[o][p] : t.sent_in > view[p]
      BY <1>2 DEF Heard
    <2>1. o \in Replica /\ o # p /\ view[o] >= view[p]
      BY DEF Heard, DealTypes
    <2> QED
      BY <1>9, <2>1 DEF Heard
  <1>12. OwnLast'
    <2> SUFFICES ASSUME NEW d \in Replica, NEW u \in View, u <= view[d], Dest(d, u) = d
                 PROVE  Enough(ForView(d, u))' \/ Excused(ForView(d, u))'
      BY <1>2 DEF OwnLast
    <2>1. /\ Enough(ForView(d, u)) \/ Excused(ForView(d, u))
          /\ ForView(d, u) \in ForViews
      BY ForViewFacts DEF OwnLast
    <2> QED
      BY <1>7, <1>8, <1>9, <2>1, GrowKeeps
  <1>13. Dealt'
    <2> SUFFICES ASSUME NEW p \in Replica, NEW u \in View, NEW s \in View,
                        HasDealt(p, u, s), Dest(p, u) # p
                 PROVE  \/ Enough(ForView(p, u))'
                        \/ p \in DealersOf(ForView(p, u))'
                        \/ OnItsWay(p, u, s)'
      BY <1>9 DEF Dealt
    <2>1. ForView(p, u) \in ForViews /\ Dest(p, u) \in Replica
      BY ForViewFacts, DestType
    <2>2. \/ Enough(ForView(p, u))
          \/ p \in DealersOf(ForView(p, u))
          \/ OnItsWay(p, u, s)
      BY DEF Dealt
    <2>3. CASE Enough(ForView(p, u)) \/ p \in DealersOf(ForView(p, u))
      BY <1>7, <1>8, <2>1, <2>3, GrowKeeps
    <2>4. CASE OnItsWay(p, u, s)
      <3>1. CASE ~ (p = q /\ Dest(p, u) = r /\ m = [for_view |-> ForView(p, u), sent_in |-> s])
        <4>1. [for_view |-> ForView(p, u), sent_in |-> s] \in transcripts'[p][Dest(p, u)]
          BY <1>5, <2>1, <2>4, <3>1 DEF OnItsWay
        <4> QED
          BY <4>1 DEF OnItsWay
      <3>2. CASE p = q /\ Dest(p, u) = r /\ m = [for_view |-> ForView(p, u), sent_in |-> s]
        <4>1. w = ForView(p, u)
          BY <3>2 DEF w
        <4>2. CASE Wanted(w)
          <5>1. transcript_ids'[w] = Append(transcript_ids[w], q)
            BY <1>3, <1>4, <4>2 DEF DealTypes
          <5>2. q \in {transcript_ids'[w][j] : j \in DOMAIN transcript_ids'[w]}
            BY <1>6, <5>1
          <5> QED
            BY <3>2, <4>1, <5>2 DEF DealersOf
        <4>3. CASE ~ Wanted(w)
          <5>1. Enough(w)
            BY <1>6, <4>3, Sizes DEF Enough, Wanted
          <5> QED
            BY <1>7, <1>8, <2>1, <4>1, <5>1, GrowKeeps
        <4> QED
          BY <4>2, <4>3
      <3> QED
        BY <3>1, <3>2
    <2> QED
      BY <2>2, <2>3, <2>4
  <1>14. Counted'
    <2> SUFFICES ASSUME NEW x \in ForViews
                 PROVE  /\ x > 2 * NReplicas /\ Enough(x)' =>
                             view_agg_transcripts'[GetProposer(x)][x] = x \/ Excused(x)
                        /\ x <= 2 * NReplicas =>
                             view_agg_transcripts'[GetProposer(x)][x] = x
      BY <1>9 DEF Counted
    <2>1. GetProposer(x) \in Replica
      BY ViewType, ProposerType
    <2>2. view_agg_transcripts'[GetProposer(x)][x] =
            IF x = w /\ Wanted(w) /\ Completes(w) THEN x
            ELSE view_agg_transcripts[GetProposer(x)][x]
      BY <1>3, <1>4, <2>1 DEF Types
    <2>3. CASE x # w
      <3>1. transcript_ids'[x] = transcript_ids[x]
        BY <1>3, <1>4, <2>3 DEF DealTypes
      <3> QED
        BY <2>2, <2>3, <3>1 DEF Counted, Enough
    <2>4. CASE x = w /\ ~ Wanted(w)
      <3>1. transcript_ids'[x] = transcript_ids[x]
        BY <1>4, <2>4
      <3> QED
        BY <2>2, <2>4, <3>1 DEF Counted, Enough
    <2>5. CASE x = w /\ Wanted(w)
      <3>1. transcript_ids'[w] = Append(transcript_ids[w], q)
        BY <1>3, <1>4, <2>5 DEF DealTypes
      <3>2. Len(transcript_ids'[w]) = Len(transcript_ids[w]) + 1
            /\ Len(transcript_ids[w]) \in Nat
        BY <1>6, <3>1
      <3>3. Enough(x)' => Completes(w)
        BY <2>5, <3>2, Sizes DEF Enough, Wanted, Completes
      <3> QED
        BY <2>2, <2>5, <3>3 DEF Counted
    <2> QED
      BY <2>3, <2>4, <2>5
  <1> QED
    BY <1>7, <1>10, <1>11, <1>12, <1>13, <1>14

\* The variables the invariant speaks of, without the aggregates.
dealing == <<view, heard, transcripts, transcript_ids, commanded>>

LEMMA DealingKeeps ==
  ASSUME DealInv, UNCHANGED dealing, Counted'
  PROVE  DealInv'
PROOF
  <1>1. /\ UNCHANGED view /\ UNCHANGED heard /\ UNCHANGED transcripts
        /\ UNCHANGED transcript_ids /\ UNCHANGED commanded
    BY DEF dealing
  <1>2. \A q \in Replica, u, s \in View : /\ OnItsWay(q, u, s)' <=> OnItsWay(q, u, s)
                                         /\ HasDealt(q, u, s)' <=> HasDealt(q, u, s)
    BY <1>1 DEF OnItsWay, HasDealt
  <1>3. /\ \A w \in ForViews : /\ Enough(w)' <=> Enough(w)
                              /\ DealersOf(w)' = DealersOf(w)
        /\ \A w : Excused(w)' <=> Excused(w)
    BY <1>1 DEF Enough, DealersOf, Excused, TooLate, LeftInHaste
  <1>4. DealTypes' /\ Heard'
    BY <1>1 DEF DealInv, DealTypes, Heard
  <1>5. Sent'
    BY <1>1 DEF DealInv, Sent, HasDealt
  <1>6. Dealt'
    <2> SUFFICES ASSUME NEW q \in Replica, NEW u \in View, NEW s \in View,
                        HasDealt(q, u, s)', Dest(q, u) # q
                 PROVE  \/ Enough(ForView(q, u))'
                        \/ q \in DealersOf(ForView(q, u))'
                        \/ OnItsWay(q, u, s)'
      BY DEF Dealt
    <2>1. ForView(q, u) \in ForViews
      BY ForViewFacts
    <2>2. HasDealt(q, u, s)
      BY <1>1 DEF HasDealt
    <2> QED
      BY <1>2, <1>3, <2>1, <2>2 DEF DealInv, Dealt
  <1>7. OwnLast'
    <2> SUFFICES ASSUME NEW d \in Replica, NEW u \in View, u <= view[d], Dest(d, u) = d
                 PROVE  Enough(ForView(d, u))' \/ Excused(ForView(d, u))'
      BY <1>1 DEF OwnLast
    <2>1. ForView(d, u) \in ForViews
      BY ForViewFacts
    <2> QED
      BY <1>3, <2>1 DEF DealInv, OwnLast
  <1> QED
    BY <1>4, <1>5, <1>6, <1>7 DEF DealInv

\* What a replica keeps from a proposal is the aggregate of the view.
LEMMA ReceiveProposalDeals ==
  ASSUME DealInv, Types, Made, NEW r \in Replica, ReceiveProposal(r)
  PROVE  DealInv'
PROOF
  <1> DEFINE v == view[r]
  <1>1. /\ v \in ForViews /\ proposed[v] = v
        /\ view_agg_transcripts' = [view_agg_transcripts EXCEPT ![r][v] = proposed[v]]
        /\ UNCHANGED dealing
    BY ViewType DEF ReceiveProposal, Keep, Types, Made, dealing
  <1> HIDE DEF v
  <1>2. \A p \in Replica, w \in ForViews :
          view_agg_transcripts'[p][w] \in {w, view_agg_transcripts[p][w]}
    BY <1>1 DEF Types
  <1>3. Counted'
    <2> SUFFICES ASSUME NEW w \in ForViews
                 PROVE  /\ w > 2 * NReplicas /\ Enough(w)' =>
                             view_agg_transcripts'[GetProposer(w)][w] = w \/ Excused(w)'
                        /\ w <= 2 * NReplicas =>
                             view_agg_transcripts'[GetProposer(w)][w] = w
      BY DEF Counted
    <2>1. GetProposer(w) \in Replica
      BY ViewType, ProposerType
    <2>2. /\ Enough(w)' <=> Enough(w)
          /\ Excused(w)' <=> Excused(w)
      BY <1>1 DEF Enough, Excused, TooLate, LeftInHaste, dealing
    <2> QED
      BY <1>2, <2>1, <2>2 DEF DealInv, Counted
  <1> QED
    BY <1>1, <1>3, DealingKeeps

LEMMA HearDeals ==
  ASSUME DealInv, Types, NEW r \in Replica, NEW q \in Replica, Hear(r, q)
  PROVE  DealInv'
PROOF
  <1> USE DEF DealInv
  <1>1. /\ q # r /\ view[q] >= view[r]
        /\ \A t \in transcripts[q][r] : t.sent_in > view[r]
        /\ heard' = [heard EXCEPT ![r] = @ \cup {q}]
        /\ UNCHANGED <<view, transcripts, transcript_ids, view_agg_transcripts, commanded>>
    BY DEF Hear
  <1>2. DealTypes'
    BY <1>1 DEF DealTypes
  <1>3. Heard'
    <2> SUFFICES ASSUME NEW p \in Replica, NEW o \in heard'[p]
                 PROVE  /\ o # p /\ view[o] >= view[p]
                        /\ \A t \in transcripts[o][p] : t.sent_in > view[p]
      BY <1>1 DEF Heard
    <2>1. o \in heard[p] \/ (p = r /\ o = q)
      BY <1>1 DEF DealTypes
    <2> QED
      BY <1>1, <2>1 DEF Heard
  <1>4. /\ \A x : Excused(x)' <=> Excused(x)
        /\ \A p, u, s : HasDealt(p, u, s)' <=> HasDealt(p, u, s)
    BY <1>1 DEF Excused, TooLate, LeftInHaste, HasDealt
  <1>5. Sent' /\ Counted'
    BY <1>1, <1>4 DEF Sent, Counted, Enough
  <1>6. Dealt'
    BY <1>1, <1>4 DEF Dealt, Enough, DealersOf, OnItsWay
  <1>7. OwnLast'
    BY <1>1, <1>4 DEF OwnLast, Enough
  <1> QED
    BY <1>2, <1>3, <1>5, <1>6, <1>7

LEMMA InitDeals == Init => DealInv
PROOF
  <1> SUFFICES ASSUME Init PROVE DealInv
    OBVIOUS
  <1> USE DEF Init
  <1>1. 1 \in View
    BY Sizes DEF View
  <1>2. DealTypes /\ Sent /\ Heard
    BY DEF DealTypes, Sent, Heard
  <1>3. \A q \in Replica : view[q] = 1
    OBVIOUS
  <1>4. \A q \in Replica, u, s \in View : ~ HasDealt(q, u, s)
    BY <1>3, ViewType DEF HasDealt
  <1>5. Dealt
    BY <1>4 DEF Dealt
  <1>6. OwnLast
    <2> SUFFICES ASSUME NEW d \in Replica, NEW u \in View, u <= view[d], Dest(d, u) = d
                 PROVE  FALSE
      BY DEF OwnLast
    <2>1. u = 1
      BY <1>3, ViewType
    <2> QED
      BY <2>1, NotToItself
  <1>7. Counted
    <2> SUFFICES ASSUME NEW w \in ForViews
                 PROVE  ~ Enough(w) /\ (w <= 2 * NReplicas =>
                          view_agg_transcripts[GetProposer(w)][w] = w)
      BY DEF Counted
    <2>1. Len(transcript_ids[w]) = 0
      BY DEF Init
    <2>2. ~ Enough(w)
      BY <2>1, Sizes DEF Enough
    <2>3. GetProposer(w) \in Replica
      BY ViewType, ProposerType
    <2> QED
      BY <2>2, <2>3
  <1> QED
    BY <1>2, <1>5, <1>6, <1>7 DEF DealInv

LEMMA ProposeDeals ==
  ASSUME DealInv, NEW r \in Replica, Propose(r)
  PROVE  DealInv'
PROOF
  <1>1. UNCHANGED dealing /\ UNCHANGED view_agg_transcripts
    BY DEF Propose, dealing
  <1>2. Counted'
    BY <1>1 DEF DealInv, Counted, Enough, Excused, TooLate, LeftInHaste, dealing
  <1> QED
    BY <1>1, <1>2, DealingKeeps

\* The replica whose turn it is has dealt to itself for this view before.
LEMMA HasAggregate ==
  ASSUME DealInv, Types, NEW r \in Replica, r = GetProposer(view[r])
  PROVE  view_agg_transcripts[r][view[r]] = view[r] \/ Excused(view[r])
PROOF
  <1> DEFINE v == view[r]
  <1> USE DEF DealInv
  <1>1. v \in View /\ v \in ForViews /\ v \in Nat /\ NReplicas \in Nat
    BY ViewType, Sizes DEF Types
  <1>2. CASE v <= 2 * NReplicas
    BY <1>1, <1>2 DEF Counted
  <1>3. CASE v > 2 * NReplicas
    <2>1. PICK u \in View : u < v /\ Dest(r, u) = r /\ ForView(r, u) = v
      BY <1>1, <1>3, OwnView
    <2>2. u <= v
      BY <1>1, <2>1, ViewType
    <2>3. Enough(v) \/ Excused(v)
      BY <2>1, <2>2 DEF OwnLast
    <2> QED
      BY <1>1, <1>3, <2>3 DEF Counted
  <1> QED
    BY <1>1, <1>2, <1>3

\* A proposal without an aggregate has an excuse.
MissingExcused == \A v \in DOMAIN proposed : proposed[v] = Missing => Excused(v)

LEMMA ProposeReady ==
  ASSUME PipelineInv, DealInv, MissingExcused, NEW r \in Replica, Propose(r)
  PROVE  MissingExcused'
PROOF
  <1>1. \A w : Excused(w)' <=> Excused(w)
    BY DEF Propose, Excused, TooLate, LeftInHaste
  <1>2. view[r] # Missing
    BY ViewType DEF PipelineInv, Types
  <1>3. view_agg_transcripts[r][view[r]] = Missing => Excused(view[r])
    BY <1>2, HasAggregate DEF PipelineInv, Propose
  <1> QED
    BY <1>1, <1>3, ProposesNext DEF MissingExcused

\* An excuse is one of those AggregateInTime names.
LEMMA ExcuseHolds ==
  ASSUME NEW v, Excused(v)
  PROVE  StartedLate(v) \/ LeftInHaste(v)
PROOF
  BY DEF Excused, TooLate, StartedLate

-----------------------------------------------------------------------------
(* The theorem.                                                            *)

ReadyInv == PipelineInv /\ DealInv /\ MissingExcused

LEMMA NextReady == ReadyInv /\ [Next]_vars => ReadyInv'
PROOF
  <1> SUFFICES ASSUME ReadyInv, [Next]_vars PROVE ReadyInv'
    OBVIOUS
  <1> USE DEF ReadyInv
  <1>1. PipelineInv'
    BY NextKeeps
  <1>2. Types /\ Made /\ DealTypes
    BY DEF PipelineInv, DealInv
  \* The excuses of earlier proposals stay.
  <1>3. ASSUME UNCHANGED proposed, \A w : Excused(w) => Excused(w)'
        PROVE  MissingExcused'
    BY <1>3 DEF MissingExcused
  <1>4. ASSUME UNCHANGED <<view, commanded>>
        PROVE  \A w : Excused(w) => Excused(w)'
    BY <1>4 DEF Excused, TooLate, LeftInHaste
  <1>5. ASSUME NEW r \in Replica, Propose(r)
        PROVE  DealInv' /\ MissingExcused'
    BY <1>5, ProposeDeals, ProposeReady
  <1>6. ASSUME NEW r \in Replica, ReceiveProposal(r)
        PROVE  DealInv' /\ MissingExcused'
    <2>1. UNCHANGED proposed /\ UNCHANGED <<view, commanded>>
      BY <1>6 DEF ReceiveProposal
    <2> QED
      BY <1>2, <1>3, <1>4, <1>6, <2>1, ReceiveProposalDeals
  <1>7. ASSUME NEW r \in Replica, NEW v \in View, Enters(r, v), UNCHANGED proposed
        PROVE  DealInv' /\ MissingExcused'
    BY <1>2, <1>3, <1>7, EntersKeeps, ExcusedStays
  <1>8. ASSUME NEW r \in Replica, LeaveView(r)
        PROVE  DealInv' /\ MissingExcused'
    <2>1. UNCHANGED proposed
      BY <1>8 DEF LeaveView
    <2> QED
      BY <1>2, <1>7, <1>8, <2>1, LeaveViewDeals
  <1>9. ASSUME NEW r \in Replica, Command(r)
        PROVE  DealInv' /\ MissingExcused'
    <2>1. UNCHANGED proposed
      BY <1>9 DEF Command
    <2> QED
      BY <1>2, <1>7, <1>9, <2>1, CommandDeals
  <1>10. ASSUME NEW r \in Replica, NEW q \in Replica, Hear(r, q)
         PROVE  DealInv' /\ MissingExcused'
    <2>1. UNCHANGED proposed /\ UNCHANGED <<view, commanded>>
      BY <1>10 DEF Hear
    <2> QED
      BY <1>2, <1>3, <1>4, <1>10, <2>1, HearDeals
  <1>11. ASSUME NEW r \in Replica, NEW q \in Replica, OnReceivePvssTranscript(r, q)
         PROVE  DealInv' /\ MissingExcused'
    <2>1. UNCHANGED proposed /\ UNCHANGED <<view, commanded>>
      BY <1>11 DEF OnReceivePvssTranscript
    <2> QED
      BY <1>2, <1>3, <1>4, <1>11, <2>1, TranscriptDeals
  <1>12. CASE UNCHANGED vars
    <2>1. /\ UNCHANGED dealing /\ UNCHANGED view_agg_transcripts
          /\ UNCHANGED proposed /\ UNCHANGED <<view, commanded>>
      BY <1>12 DEF vars, dealing
    <2>2. Counted'
      BY <2>1 DEF DealInv, Counted, Enough, Excused, TooLate, LeftInHaste, dealing
    <2> QED
      BY <1>1, <1>3, <1>4, <2>1, <2>2, DealingKeeps
  <1> QED
    BY <1>1, <1>5, <1>6, <1>8, <1>9, <1>10, <1>11, <1>12 DEF Next

LEMMA InitReady == Init => ReadyInv
PROOF
  BY InitInv, InitDeals DEF ReadyInv, Init, MissingExcused

\* A proposal has the aggregate of its view, for every number of replicas from
\* three on and whenever the client commands come, unless the first command of
\* the replica that deals for it in view 1 alone came too late or its proposer
\* left in haste the view before it dealt to itself: the count that sets off
\* the aggregation is reached before the own transcript is added to the list
\* (on_enter_view, on_receive_pvss_transcript).
THEOREM AggregateReady == Spec => []AggregateInTime
PROOF
  <1>1. ReadyInv => AggregateInTime
    BY ExcuseHolds DEF ReadyInv, MissingExcused, AggregateInTime
  <1> QED
    BY <1>1, InitReady, NextReady, PTL DEF Spec

-----------------------------------------------------------------------------
(* The types, with the length of the lists.                                *)

\* A list has room for the own transcript until its view is entered.
Few ==
  /\ \A w \in ForViews : Len(transcript_ids[w]) <= NMajority + 1
  /\ \A d \in Replica, u \in View :
       u > view[d] /\ Dest(d, u) = d => Len(transcript_ids[ForView(d, u)]) <= NMajority

Ranges ==
  /\ last_view_proposal_received \in [Replica -> 0 .. MaxView]
  /\ proposed \in Seq(Aggregate) /\ Len(proposed) <= MaxView
  /\ agg_queue \in [Replica -> [Replica -> Aggregate]]
  /\ commanded \subseteq Commands

LEMMA EntersFew ==
  ASSUME Few, DealTypes, Types, NEW r \in Replica, NEW v \in View, Enters(r, v)
  PROVE  Few'
PROOF
  <1> DEFINE w == ForView(r, v)
  <1>1. /\ \A q \in Replica : view[q] \in Nat
        /\ w \in ForViews /\ GetProposer(w) = Dest(r, v) /\ view[r] + 1 \in Nat
    BY ViewType, ForViewFacts DEF Types
  <1>2. \A d \in Replica : view'[d] >= view[d]
    <2>1. CASE view' = view
      BY <1>1, <2>1
    <2>2. CASE v = view[r] + 1 /\ view' = [view EXCEPT ![r] = v]
      BY <1>1, <2>2 DEF Types
    <2> QED
      BY <2>1, <2>2 DEF Enters
  <1> HIDE DEF w
  <1>3. CASE Dest(r, v) # r
    <2>1. transcript_ids' = transcript_ids
      BY <1>3 DEF Enters, Deals
    <2>2. ASSUME NEW d \in Replica, NEW u \in View, u > view'[d], Dest(d, u) = d
          PROVE  Len(transcript_ids[ForView(d, u)]) <= NMajority
      <3>1. u \in Nat /\ view'[d] \in Nat
        <4>1. CASE view' = view
          BY <1>1, <4>1, ViewType
        <4>2. CASE v = view[r] + 1 /\ view' = [view EXCEPT ![r] = v]
          BY <1>1, <4>2, ViewType DEF Types
        <4> QED
          BY <4>1, <4>2 DEF Enters
      <3>2. u > view[d]
        BY <1>1, <1>2, <2>2, <3>1
      <3> QED
        BY <2>2, <3>2 DEF Few
    <2> QED
      BY <2>1, <2>2 DEF Few
  <1>4. CASE Dest(r, v) = r
    <2>1. /\ v = view[r] + 1 /\ view' = [view EXCEPT ![r] = v]
          /\ transcript_ids' = [transcript_ids EXCEPT ![w] = Append(@, r)]
      BY <1>4 DEF Enters, Deals, w
    <2>2. /\ \A q \in Replica : view'[q] = IF q = r THEN v ELSE view[q]
          /\ \A x \in ForViews : transcript_ids'[x] =
               IF x = w THEN Append(transcript_ids[w], r) ELSE transcript_ids[x]
      BY <2>1 DEF Types, DealTypes
    <2>3. Len(transcript_ids[w]) \in Nat /\ Len(transcript_ids'[w]) = Len(transcript_ids[w]) + 1
      <3>1. transcript_ids[w] \in Seq(Replica)
        BY <1>1 DEF DealTypes
      <3>2. transcript_ids'[w] = Append(transcript_ids[w], r)
        BY <1>1, <2>2
      <3> QED
        BY <3>1, <3>2
    <2>4. Len(transcript_ids[w]) <= NMajority
      BY <1>1, <1>4, <2>1 DEF Few, w
    <2>5. ASSUME NEW x \in ForViews
          PROVE  Len(transcript_ids'[x]) <= NMajority + 1
      BY <2>2, <2>3, <2>4, Sizes, SMTT(30) DEF Few
    <2>6. ASSUME NEW d \in Replica, NEW u \in View, u > view'[d], Dest(d, u) = d
          PROVE  Len(transcript_ids'[ForView(d, u)]) <= NMajority
      <3>1. ForView(d, u) \in ForViews /\ GetProposer(ForView(d, u)) = d
        BY <2>6, ForViewFacts
      <3>2. ForView(d, u) # w
        <4> SUFFICES ASSUME ForView(d, u) = w PROVE FALSE
          OBVIOUS
        <4>1. d = r
          BY <1>1, <1>4, <3>1
        <4>2. u = v
          BY <1>4, <2>6, <4>1, OwnOnce DEF w
        <4> QED
          BY <2>2, <2>6, <4>1, <4>2, ViewType
      <3>3. u > view[d]
        <4>1. u \in Nat /\ view'[d] \in Nat
          BY <1>1, <2>1, <2>2, ViewType
        <4> QED
          BY <1>1, <1>2, <2>6, <4>1
      <3> QED
        BY <2>2, <2>6, <3>1, <3>2, <3>3 DEF Few
    <2> QED
      BY <2>5, <2>6 DEF Few
  <1> QED
    BY <1>3, <1>4

LEMMA TranscriptFew ==
  ASSUME Few, DealTypes, Types, NEW r \in Replica, NEW q \in Replica,
         OnReceivePvssTranscript(r, q)
  PROVE  Few'
PROOF
  <1>0. PICK m \in transcripts[q][r] :
          transcript_ids' = IF Wanted(m.for_view)
                            THEN [transcript_ids EXCEPT ![m.for_view] = Append(@, q)]
                            ELSE transcript_ids
    BY DEF OnReceivePvssTranscript
  <1> DEFINE w == m.for_view
  <1>1. /\ transcript_ids' = IF Wanted(w)
                             THEN [transcript_ids EXCEPT ![w] = Append(@, q)]
                             ELSE transcript_ids
        /\ UNCHANGED view
    BY <1>0 DEF OnReceivePvssTranscript
  <1>2. w \in ForViews
    <2>1. m \in Transcript
      BY DEF DealTypes
    <2> QED
      BY <2>1 DEF Transcript
  <1> HIDE DEF w
  <1>3. CASE Wanted(w)
    <2>1. \A x \in ForViews : transcript_ids'[x] =
            IF x = w THEN Append(transcript_ids[w], q) ELSE transcript_ids[x]
      BY <1>1, <1>3 DEF DealTypes
    <2>2. Len(transcript_ids[w]) \in Nat /\ Len(transcript_ids'[w]) = Len(transcript_ids[w]) + 1
      <3>1. transcript_ids[w] \in Seq(Replica)
        BY <1>2 DEF DealTypes
      <3>2. transcript_ids'[w] = Append(transcript_ids[w], q)
        BY <1>2, <2>1
      <3> QED
        BY <3>1, <3>2
    <2>3. Len(transcript_ids'[w]) <= NMajority
      BY <1>3, <2>2, Sizes DEF Wanted
    <2>4. \A d \in Replica, u \in View : ForView(d, u) \in ForViews
      BY ForViewFacts
    <2> QED
      BY <1>1, <2>1, <2>2, <2>3, <2>4, Sizes DEF Few
  <1>4. CASE ~ Wanted(w)
    BY <1>1, <1>4 DEF Few
  <1> QED
    BY <1>3, <1>4

LEMMA NextFew ==
  ASSUME ReadyInv, Few, [Next]_vars
  PROVE  Few'
PROOF
  <1> USE DEF ReadyInv
  <1>1. Types /\ DealTypes
    BY DEF PipelineInv, DealInv
  <1>2. CASE UNCHANGED <<transcript_ids, view>>
    BY <1>2 DEF Few
  <1>3. ASSUME NEW r \in Replica, LeaveView(r)
        PROVE  Few'
    BY <1>1, <1>3, LeaveViewDeals, EntersFew
  <1>4. ASSUME NEW r \in Replica, Command(r)
        PROVE  Few'
    BY <1>1, <1>4, CommandDeals, EntersFew
  <1>5. ASSUME NEW r \in Replica, NEW q \in Replica, OnReceivePvssTranscript(r, q)
        PROVE  Few'
    BY <1>1, <1>5, TranscriptFew
  <1>6. ASSUME NEW r \in Replica, NEW q \in Replica,
               Propose(r) \/ ReceiveProposal(r) \/ Hear(r, q)
        PROVE  UNCHANGED <<transcript_ids, view>>
    BY <1>6 DEF Propose, ReceiveProposal, Hear
  <1>7. UNCHANGED vars => UNCHANGED <<transcript_ids, view>>
    BY DEF vars
  <1> QED
    BY <1>2, <1>3, <1>4, <1>5, <1>6, <1>7 DEF Next

LEMMA AggregateTypes ==
  ASSUME PipelineInv
  PROVE  /\ view_agg_transcripts \in [Replica -> [ForViews -> Aggregate]]
         /\ used \in [View -> SUBSET Aggregate]
PROOF
  <1> USE DEF PipelineInv
  <1>1. view_agg_transcripts \in [Replica -> [ForViews -> Aggregate]]
    BY DEF Types, Made, Aggregate
  <1>2. \A v \in View : Source(v) \in Aggregate
    BY ViewType, Sizes DEF Source, Aggregate, ForViews
  <1> QED
    BY <1>1, <1>2 DEF Types, Opened

LEMMA NextRanges ==
  ASSUME PipelineInv, Ranges, [Next]_vars
  PROVE  Ranges'
PROOF
  <1> USE DEF Ranges
  <1>1. Types /\ view_agg_transcripts \in [Replica -> [ForViews -> Aggregate]]
    BY AggregateTypes DEF PipelineInv
  <1>2. ASSUME NEW r \in Replica, Propose(r)
        PROVE  Ranges'
    <2> DEFINE v == view[r]
               a == view_agg_transcripts[r][v]
    <2>1. /\ v \in Nat /\ v \in ForViews /\ v >= 1 /\ v <= MaxView /\ v \notin DOMAIN proposed
          /\ proposed' = Append(proposed, a)
          /\ last_view_proposal_received' = [last_view_proposal_received EXCEPT ![r] = v]
          /\ UNCHANGED <<agg_queue, commanded>>
      BY <1>1, <1>2, ViewType DEF Propose, Types
    <2>2. a \in Aggregate
      BY <1>1, <2>1
    <2> HIDE DEF v, a
    <2>3. Len(proposed) \in Nat /\ Len(proposed) < v
      BY <2>1
    <2>4. proposed' \in Seq(Aggregate) /\ Len(proposed') = Len(proposed) + 1
      BY <2>1, <2>2
    <2> QED
      BY <2>1, <2>3, <2>4, Sizes
  <1>3. ASSUME NEW r \in Replica, ReceiveProposal(r)
        PROVE  Ranges'
    <2>1. /\ view[r] \in DOMAIN proposed
          /\ last_view_proposal_received' = [last_view_proposal_received EXCEPT ![r] = view[r]]
          /\ UNCHANGED <<proposed, agg_queue, commanded>>
      BY <1>3 DEF ReceiveProposal
    <2>2. view[r] \in 0 .. MaxView
      <3>1. Len(proposed) \in Nat /\ view[r] \in 1 .. Len(proposed)
        BY <2>1
      <3> QED
        BY <3>1, Sizes
    <2> QED
      BY <2>1, <2>2
  <1>4. ASSUME NEW r \in Replica, LeaveView(r)
        PROVE  Ranges'
    <2> DEFINE v == view[r]
               u == v - NMajority + 1
    <2>1. v \in Nat /\ v <= MaxView + 1 /\ v >= 1
      BY <1>1, ViewType DEF Types
    <2>2. /\ agg_queue' = UpdateAggQueue(r, v)
          /\ UNCHANGED <<last_view_proposal_received, proposed, commanded>>
      BY <1>4 DEF LeaveView
    <2>3. CASE v < NMajority
      BY <2>2, <2>3 DEF UpdateAggQueue
    <2>4. CASE v >= NMajority
      <3>1. u \in Nat /\ u >= 1 /\ u <= MaxView + 1
        BY <2>1, <2>4, Sizes
      <3>2. u \in ForViews /\ GetProposer(u) \in Replica
        BY <3>1, ProposerType, Sizes DEF ForViews
      <3>3. agg_queue' = [agg_queue EXCEPT ![r][GetProposer(u)] = view_agg_transcripts[r][u]]
        BY <2>1, <2>2, <2>4, Sizes DEF UpdateAggQueue
      <3>4. view_agg_transcripts[r][u] \in Aggregate
        BY <1>1, <3>2
      <3> HIDE DEF u
      <3>5. agg_queue' \in [Replica -> [Replica -> Aggregate]]
        BY <3>2, <3>3, <3>4
      <3> QED
        BY <2>2, <3>5
    <2> QED
      BY <2>1, <2>3, <2>4, Sizes
  <1>5. ASSUME NEW r \in Replica, Command(r)
        PROVE  Ranges'
    BY <1>5 DEF Command
  <1>6. ASSUME NEW r \in Replica, NEW q \in Replica,
               Hear(r, q) \/ OnReceivePvssTranscript(r, q)
        PROVE  Ranges'
    BY <1>6 DEF Hear, OnReceivePvssTranscript
  <1>7. CASE UNCHANGED vars
    BY <1>7 DEF vars
  <1> QED
    BY <1>2, <1>3, <1>4, <1>5, <1>6, <1>7 DEF Next

\* Type correctness, for every number of replicas from three on; a collector
\* keeps at most one transcript more than it needs, its own.
THEOREM TypeCorrect == Spec => []TypeOK
PROOF
  <1> DEFINE Inv == ReadyInv /\ Few /\ Ranges
  <1>1. Init => Inv
    <2> SUFFICES ASSUME Init PROVE Few /\ Ranges
      BY InitReady
    <2>1. \A w \in ForViews : transcript_ids[w] = <<>>
      BY DEF Init
    <2>2. Few
      <3>1. \A w \in ForViews : Len(transcript_ids[w]) = 0
        BY <2>1
      <3>2. \A d \in Replica, u \in View : ForView(d, u) \in ForViews
        BY ForViewFacts
      <3> QED
        BY <3>1, <3>2, Sizes DEF Few
    <2>3. agg_queue \in [Replica -> [Replica -> Aggregate]]
      BY Sizes DEF Init, Replica, Aggregate, ForViews
    <2> QED
      BY <2>2, <2>3, Sizes DEF Init, Ranges
  <1>2. Inv /\ [Next]_vars => Inv'
    BY NextReady, NextFew, NextRanges DEF ReadyInv
  <1>3. Inv => TypeOK
    <2> SUFFICES ASSUME Inv PROVE TypeOK
      OBVIOUS
    <2>1. Types /\ DealTypes
      BY DEF ReadyInv, PipelineInv, DealInv
    <2>2. /\ view_agg_transcripts \in [Replica -> [ForViews -> Aggregate]]
          /\ used \in [View -> SUBSET Aggregate]
      BY AggregateTypes DEF ReadyInv
    <2> QED
      BY <2>1, <2>2 DEF TypeOK, Types, DealTypes, Few, Ranges
  <1> QED
    BY <1>1, <1>2, <1>3, PTL DEF Spec


-----------------------------------------------------------------------------
(* The dealers: the invariant.                                             *)

\* The replica has had no second client command.
Regular(q) == \A c, e \in commanded : c[1] = q /\ e[1] = q => c = e

\* What q dealt for view w has been sent, and nothing of it is on its way.
Over(q, w) ==
  /\ \E u, s \in View : ForView(q, u) = w /\ HasDealt(q, u, s)
  /\ \A t \in transcripts[q][GetProposer(w)] : t.for_view # w

Single ==
  \A w \in ForViews, q \in Replica : \A i \in DOMAIN transcript_ids[w] :
    Regular(q) /\ transcript_ids[w][i] = q =>
      /\ Over(q, w)
      /\ \A j \in DOMAIN transcript_ids[w] : transcript_ids[w][j] = q => j = i

\* What a replica deals in two views is for two views.
LEMMA DealsOnce ==
  ASSUME NEW q \in Replica, NEW u \in View, NEW v \in View, ForView(q, u) = ForView(q, v)
  PROVE  u = v
PROOF
  <1> DEFINE n == NReplicas
             k == (u - 1) \div n
             m == (v - 1) \div n
             x == (u - 1) % n
             y == (v - 1) % n
  <1>1. n \in Nat /\ n > 0 /\ q \in Nat /\ u \in Nat /\ v \in Nat /\ u >= 1 /\ v >= 1
    BY ViewType, Sizes DEF Replica
  <1>2. /\ k \in Nat /\ m \in Nat /\ x \in 0 .. n - 1 /\ y \in 0 .. n - 1
        /\ u - 1 = n * k + x /\ v - 1 = n * m + y
    BY <1>1, TurnOf
  <1>3. Dest(q, u) = Dest(q, v) /\ Dest(q, u) \in Replica
    BY ForViewFacts, DestType
  <1>4. ForView(q, u) = (2 + k) * n + Dest(q, u) + 1
        /\ ForView(q, v) = (2 + m) * n + Dest(q, v) + 1
    BY DEF ForView
  <1> HIDE DEF k, m, x, y
  <1>5. (2 + k) * n = (2 + m) * n
    <2> DEFINE a == (2 + k) * n
               b == (2 + m) * n
    <2>1. Dest(q, u) \in Nat /\ a \in Nat /\ b \in Nat
      BY <1>1, <1>2, <1>3 DEF Replica
    <2>2. a + Dest(q, u) + 1 = b + Dest(q, u) + 1
      BY <1>3, <1>4
    <2> HIDE DEF a, b
    <2>3. a = b
      BY <2>1, <2>2
    <2> QED
      BY <2>3 DEF a, b
  <1>6. n * k = n * m
    BY <1>1, <1>2, <1>5
  <1>7. (q + u) % n = (q + v) % n
    BY <1>3 DEF Dest
  <1>8. CASE u < v
    <2>1. q + u < q + v /\ q + v < q + u + n /\ q + u \in Nat /\ q + v \in Nat
      BY <1>1, <1>2, <1>6, <1>8
    <2> QED
      BY <1>1, <1>7, <2>1, ModDiffers
  <1>9. CASE v < u
    <2>1. q + v < q + u /\ q + u < q + v + n /\ q + u \in Nat /\ q + v \in Nat
      BY <1>1, <1>2, <1>6, <1>9
    <2> QED
      BY <1>1, <1>7, <2>1, ModDiffers
  <1> QED
    BY <1>1, <1>8, <1>9


\* A regular replica deals in a view once.
LEMMA RegularOnce ==
  ASSUME NEW q \in Replica, Regular(q), NEW u \in View, NEW s \in View, NEW t \in View,
         HasDealt(q, u, s), HasDealt(q, u, t)
  PROVE  s = t
PROOF
  <1>1. s \in Nat /\ t \in Nat /\ u \in Nat
    BY ViewType
  <1>2. CASE u > 1
    BY <1>1, <1>2 DEF HasDealt
  <1>3. CASE u = 1
    <2>1. <<q, s - 1>> \in commanded /\ <<q, t - 1>> \in commanded
      BY <1>3 DEF HasDealt
    <2>2. <<q, s - 1>> = <<q, t - 1>>
      BY <2>1 DEF Regular
    <2> QED
      BY <1>1, <2>2
  <1> QED
    BY <1>2, <1>3 DEF HasDealt

\* What it deals on entering a view, it has not dealt before.
LEMMA FirstTime ==
  ASSUME DealTypes, Types, NEW r \in Replica, NEW v \in View, Enters(r, v), Regular(r)',
         NEW u \in View, NEW s \in View, ForView(r, u) = ForView(r, v), HasDealt(r, u, s)
  PROVE  FALSE
PROOF
  <1>1. u = v
    BY DealsOnce
  <1>2. s \in Nat /\ view[r] \in Nat
    BY ViewType DEF Types
  <1>3. CASE v = 1 /\ <<r, view[r]>> \notin commanded
             /\ commanded' = commanded \cup {<<r, view[r]>>}
    <2>1. <<r, s - 1>> \in commanded
      BY <1>1, <1>3 DEF HasDealt
    <2>2. <<r, s - 1>> \in commanded' /\ <<r, view[r]>> \in commanded'
      BY <1>3, <2>1
    <2>3. <<r, s - 1>> = <<r, view[r]>>
      BY <2>2 DEF Regular
    <2> QED
      BY <1>3, <2>1, <2>3
  <1>4. CASE v = view[r] + 1 /\ v # 1
    BY <1>1, <1>2, <1>4 DEF HasDealt
  <1>5. view[r] + 1 # 1
    BY <1>2, ViewType DEF Types
  <1> QED
    BY <1>3, <1>4, <1>5 DEF Enters

\* A list with one more member.
LEMMA OneMore ==
  ASSUME NEW S, NEW s \in Seq(S), NEW e \in S, NEW t, t = Append(s, e)
  PROVE  /\ Len(s) \in Nat /\ DOMAIN s = 1 .. Len(s) /\ DOMAIN t = 1 .. Len(s) + 1
         /\ \A i \in 1 .. Len(s) : t[i] = s[i]
         /\ t[Len(s) + 1] = e
PROOF
  OBVIOUS


\* One more transcript in a list, the first of its dealer if that is regular.
LEMMA SingleGrows ==
  ASSUME Single, DealTypes, NEW w0 \in ForViews, NEW p \in Replica,
         transcript_ids' = [transcript_ids EXCEPT ![w0] = Append(@, p)],
         \A q \in Replica : Regular(q)' => Regular(q),
         \A q \in Replica, w \in ForViews : Regular(q)' /\ Over(q, w) => Over(q, w)',
         Regular(p)' => Over(p, w0)',
         Regular(p)' => \A i \in DOMAIN transcript_ids[w0] : transcript_ids[w0][i] # p
  PROVE  Single'
PROOF
  <1> SUFFICES ASSUME NEW w \in ForViews, NEW q \in Replica,
                      NEW i \in DOMAIN transcript_ids'[w],
                      Regular(q)', transcript_ids'[w][i] = q
               PROVE  /\ Over(q, w)'
                      /\ \A j \in DOMAIN transcript_ids'[w] :
                           transcript_ids'[w][j] = q => j = i
    BY DEF Single
  <1>0. Regular(q)
    OBVIOUS
  <1>1. CASE w # w0
    <2>1. transcript_ids'[w] = transcript_ids[w]
      BY <1>1 DEF DealTypes
    <2> QED
      BY <1>0, <2>1 DEF Single
  <1>2. CASE w = w0
    <2> DEFINE s == transcript_ids[w0]
               t == transcript_ids'[w0]
    <2>1. t = Append(s, p) /\ s \in Seq(Replica)
      BY DEF DealTypes
    <2>2. \A j \in DOMAIN s : s[j] = q =>
            Over(q, w) /\ \A k \in DOMAIN s : s[k] = q => k = j
      BY <1>0, <1>2 DEF Single
    <2>3. Over(q, w) => Over(q, w)'
      OBVIOUS
    <2>4. q = p => Over(q, w)' /\ \A j \in DOMAIN s : s[j] # q
      BY <1>2
    <2>5. i \in DOMAIN t /\ t[i] = q
      BY <1>2
    <2> HIDE DEF s, t
    <2>6. /\ Len(s) \in Nat /\ DOMAIN s = 1 .. Len(s) /\ DOMAIN t = 1 .. Len(s) + 1
          /\ \A j \in 1 .. Len(s) : t[j] = s[j]
          /\ t[Len(s) + 1] = p
      BY <2>1, OneMore
    <2>7. Over(q, w)' /\ \A j \in DOMAIN t : t[j] = q => j = i
      <3>1. CASE q = p
        BY <2>4, <2>5, <2>6, <3>1
      <3>2. CASE q # p
        BY <2>2, <2>3, <2>5, <2>6, <3>2
      <3> QED
        BY <3>1, <3>2
    <2> QED
      BY <1>2, <2>7 DEF t
  <1> QED
    BY <1>1, <1>2

\* On entering a view or on a command: the transcript is the first that its
\* dealer deals for its view.
LEMMA EntersDealers ==
  ASSUME Single, DealInv, Types, NEW r \in Replica, NEW v \in View, Enters(r, v)
  PROVE  Single'
PROOF
  <1> DEFINE m == [for_view |-> ForView(r, v), sent_in |-> view[r] + 1]
             w0 == ForView(r, v)
  <1>1. DealTypes
    BY DEF DealInv
  <1>2. \A q, p \in Replica : \A t \in transcripts'[q][p] :
          t \in transcripts[q][p] \/ (q = r /\ t.for_view = w0)
    <2>1. m.for_view = w0
      OBVIOUS
    <2> HIDE DEF w0
    <2>2. \A q, p \in Replica :
            transcripts'[q][p] = IF q = r /\ p = Dest(r, v) /\ p # r
                                 THEN transcripts[q][p] \cup {m} ELSE transcripts[q][p]
      BY <1>1, Channels
    <2> HIDE DEF m
    <2> QED
      BY <2>1, <2>2
  <1>3. w0 \in ForViews /\ GetProposer(w0) = Dest(r, v)
    BY ForViewFacts
  <1>4. \A q \in Replica : Regular(q)' => Regular(q)
    BY <1>1, DealsOneMore DEF Regular
  <1> HIDE DEF m, w0
  <1>5. ASSUME NEW q \in Replica, NEW w \in ForViews, Regular(q)', Over(q, w)
        PROVE  Over(q, w)'
    <2>1. GetProposer(w) \in Replica
      BY ViewType, ProposerType
    <2>2. PICK u \in View, s \in View : ForView(q, u) = w /\ HasDealt(q, u, s)
      BY <1>5 DEF Over
    <2>3. HasDealt(q, u, s)'
      BY <1>1, <2>2, DealsOneMore
    <2>4. ASSUME NEW t \in transcripts'[q][GetProposer(w)]
          PROVE  t.for_view # w
      <3>1. CASE t \in transcripts[q][GetProposer(w)]
        BY <1>5, <3>1 DEF Over
      <3>2. CASE q = r /\ t.for_view = w0
        <4>1. w # w0
          BY <1>1, <1>5, <2>2, <3>2, FirstTime DEF w0
        <4> QED
          BY <3>2, <4>1
      <3> QED
        BY <1>2, <2>1, <2>4, <3>1, <3>2
    <2> QED
      BY <2>2, <2>3, <2>4 DEF Over
  <1>6. CASE Dest(r, v) # r
    <2>1. transcript_ids' = transcript_ids
      BY <1>6 DEF Enters, Deals
    <2> QED
      BY <1>4, <1>5, <2>1 DEF Single
  <1>7. CASE Dest(r, v) = r
    <2>1. /\ transcript_ids' = [transcript_ids EXCEPT ![w0] = Append(@, r)]
          /\ transcripts' = transcripts
      BY <1>7 DEF Enters, Deals, w0
    <2>2. ASSUME Regular(r)'
          PROVE  Over(r, w0)'
      <3>1. PICK s \in View : HasDealt(r, v, s)'
        BY <1>1, DealsOneMore
      <3>2. ASSUME NEW t \in transcripts[r][r], t.for_view = w0
            PROVE  FALSE
        <4>1. PICK u \in View : t.for_view = ForView(r, u) /\ HasDealt(r, u, t.sent_in)
          BY DEF DealInv, Sent
        <4>2. t.sent_in \in View
          BY <1>1 DEF DealTypes, Transcript
        <4> QED
          BY <1>1, <2>2, <3>2, <4>1, <4>2, FirstTime DEF w0
      <3>3. GetProposer(w0) = r
        BY <1>3, <1>7
      <3> QED
        BY <2>1, <3>1, <3>2, <3>3 DEF Over, w0
    <2>3. ASSUME Regular(r)', NEW i \in DOMAIN transcript_ids[w0]
          PROVE  transcript_ids[w0][i] # r
      <3> SUFFICES ASSUME transcript_ids[w0][i] = r PROVE FALSE
        OBVIOUS
      <3>1. Over(r, w0)
        BY <1>3, <1>4, <2>3 DEF Single
      <3> QED
        BY <1>1, <2>3, <3>1, FirstTime DEF Over, w0
    <2> QED
      BY <1>1, <1>3, <1>4, <1>5, <2>1, <2>2, <2>3, SingleGrows
  <1> QED
    BY <1>6, <1>7

\* A transcript comes to its collector: a regular dealer has no other on its way
\* for the same view.
LEMMA TranscriptDealers ==
  ASSUME Single, DealInv, Types, NEW r \in Replica, NEW q \in Replica,
         OnReceivePvssTranscript(r, q)
  PROVE  Single'
PROOF
  <1> USE DEF DealInv
  <1>1. PICK m \in transcripts[q][r] :
          /\ transcripts' = [transcripts EXCEPT ![q][r] = @ \ {m}]
          /\ transcript_ids' = IF Wanted(m.for_view)
                               THEN [transcript_ids EXCEPT ![m.for_view] = Append(@, q)]
                               ELSE transcript_ids
    BY DEF OnReceivePvssTranscript
  <1>2. UNCHANGED <<view, commanded>>
    BY DEF OnReceivePvssTranscript
  <1>3. /\ m \in Transcript /\ m.for_view \in ForViews /\ GetProposer(m.for_view) = r
    <2>1. m \in Transcript
      BY DEF DealTypes
    <2> QED
      BY <2>1 DEF Transcript, Sent
  <1>4. /\ \A p, o \in Replica : transcripts'[p][o] \subseteq transcripts[p][o]
        /\ transcripts'[q][r] = transcripts[q][r] \ {m}
    BY <1>1 DEF DealTypes
  <1>5. \A p \in Replica : Regular(p)' <=> Regular(p)
    BY <1>2 DEF Regular
  <1>6. \A p \in Replica, u, s \in View : HasDealt(p, u, s)' <=> HasDealt(p, u, s)
    BY <1>2 DEF HasDealt
  <1>7. ASSUME NEW p \in Replica, NEW w \in ForViews, Over(p, w)
        PROVE  Over(p, w)'
    <2>1. GetProposer(w) \in Replica
      BY ViewType, ProposerType
    <2> QED
      BY <1>4, <1>6, <1>7, <2>1 DEF Over
  <1>8. CASE ~ Wanted(m.for_view)
    <2>1. transcript_ids' = transcript_ids
      BY <1>1, <1>8
    <2> QED
      BY <1>5, <1>7, <2>1 DEF Single
  <1>9. CASE Wanted(m.for_view)
    <2> DEFINE w0 == m.for_view
    <2>1. transcript_ids' = [transcript_ids EXCEPT ![w0] = Append(@, q)]
      BY <1>1, <1>9
    <2>2. w0 \in ForViews /\ GetProposer(w0) = r
      BY <1>3
    <2>3. PICK u \in View : w0 = ForView(q, u) /\ HasDealt(q, u, m.sent_in)
      BY DEF Sent
    <2>4. m.sent_in \in View
      BY <1>3 DEF Transcript
    <2>5. ASSUME Regular(q)
          PROVE  Over(q, w0)'
      <3>1. ASSUME NEW t \in transcripts'[q][r], t.for_view = w0
            PROVE  FALSE
        <4>1. t \in transcripts[q][r] /\ t # m
          BY <1>4
        <4>2. PICK x \in View : t.for_view = ForView(q, x) /\ HasDealt(q, x, t.sent_in)
          BY <4>1 DEF Sent
        <4>3. t \in Transcript /\ t.sent_in \in View
          BY <4>1 DEF DealTypes, Transcript
        <4>4. x = u
          BY <2>3, <3>1, <4>2, DealsOnce
        <4>5. t.sent_in = m.sent_in
          BY <2>3, <2>4, <2>5, <4>2, <4>3, <4>4, RegularOnce
        <4> QED
          BY <1>3, <3>1, <4>1, <4>3, <4>5 DEF Transcript
      <3> HIDE DEF w0
      <3> QED
        BY <1>6, <2>2, <2>3, <2>4, <3>1 DEF Over
    <2>6. ASSUME Regular(q), NEW i \in DOMAIN transcript_ids[w0]
          PROVE  transcript_ids[w0][i] # q
      <3> SUFFICES ASSUME transcript_ids[w0][i] = q PROVE FALSE
        OBVIOUS
      <3>1. Over(q, w0)
        BY <2>2, <2>6 DEF Single
      <3> QED
        BY <2>2, <3>1 DEF Over
    <2> HIDE DEF w0
    <2> QED
      BY <1>5, <1>7, <2>1, <2>2, <2>5, <2>6, SingleGrows
  <1> QED
    BY <1>8, <1>9

LEMMA NextDealers ==
  ASSUME ReadyInv, Single, [Next]_vars
  PROVE  Single'
PROOF
  <1> USE DEF ReadyInv
  <1>1. Types
    BY DEF PipelineInv
  <1>2. CASE UNCHANGED <<view, transcripts, transcript_ids, commanded>>
    BY <1>2 DEF Single, Over, Regular, HasDealt
  <1>3. ASSUME NEW r \in Replica, LeaveView(r)
        PROVE  Single'
    BY <1>1, <1>3, LeaveViewDeals, EntersDealers
  <1>4. ASSUME NEW r \in Replica, Command(r)
        PROVE  Single'
    BY <1>1, <1>4, CommandDeals, EntersDealers
  <1>5. ASSUME NEW r \in Replica, NEW q \in Replica, OnReceivePvssTranscript(r, q)
        PROVE  Single'
    BY <1>1, <1>5, TranscriptDealers
  <1>6. ASSUME NEW r \in Replica, NEW q \in Replica,
               Propose(r) \/ ReceiveProposal(r) \/ Hear(r, q)
        PROVE  UNCHANGED <<view, transcripts, transcript_ids, commanded>>
    BY <1>6 DEF Propose, ReceiveProposal, Hear
  <1>7. UNCHANGED vars => UNCHANGED <<view, transcripts, transcript_ids, commanded>>
    BY DEF vars
  <1> QED
    BY <1>2, <1>3, <1>4, <1>5, <1>6, <1>7 DEF Next

\* No dealer is twice among the nmajority an aggregate is made of, for every
\* number of replicas from three on and whenever the client commands come,
\* unless a second command has made it run on_enter_view(1) again
\* (on_receive_pvss_transcript looks for no dealer).
THEOREM DealersDiffer == Spec => []DistinctDealers
PROOF
  <1>1. Init => ReadyInv /\ Single
    <2>1. Init => Single
      BY DEF Init, Single
    <2> QED
      BY <2>1, InitReady
  <1>2. ReadyInv /\ Single /\ [Next]_vars => (ReadyInv /\ Single)'
    BY NextReady, NextDealers
  <1>3. ReadyInv /\ Single => DistinctDealers
    <2> SUFFICES ASSUME DealTypes, Single, NEW w \in ForViews,
                        NEW i \in 1 .. NMajority, NEW j \in 1 .. NMajority,
                        i < j, j <= Len(transcript_ids[w]),
                        transcript_ids[w][i] = transcript_ids[w][j],
                        ~ \E c, e \in commanded :
                            c # e /\ {c[1], e[1]} = {transcript_ids[w][i]}
                 PROVE  FALSE
      BY DEF DistinctDealers, ReadyInv, DealInv
    <2>1. transcript_ids[w] \in Seq(Replica) /\ Len(transcript_ids[w]) \in Nat
      BY DEF DealTypes
    <2>2. i \in DOMAIN transcript_ids[w] /\ j \in DOMAIN transcript_ids[w]
          /\ transcript_ids[w][i] \in Replica
      BY <2>1, Sizes
    <2>3. Regular(transcript_ids[w][i])
      BY DEF Regular
    <2>4. j = i
      BY <2>2, <2>3 DEF Single
    <2> QED
      BY <2>4, Sizes
  <1> QED
    BY <1>1, <1>2, <1>3, PTL DEF Spec

=============================================================================
