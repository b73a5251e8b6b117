---------------------------- MODULE OneShotProofs ----------------------------
(***************************************************************************)
(* For calls of one dtype, two slots are enough: whatever the number of      *)
(* processes, the sizes of the calls and the order the blocks run in, no    *)
(* block adds a part of another call.                                       *)
(***************************************************************************)
EXTENDS OneShot, TLAPS, FiniteSetTheorems

\* All calls are of one dtype: a block covers the same cells in each.
OneWidth == \A c, d \in Call : Calls[c].width = Calls[d].width

\* The calls that block b of the kernel takes part in, and how many of the first n.
Includes(c, b) == Covered(c) /\ InGrid(c, b)
Epoch(n, b) == Cardinality({c \in 1..n : Includes(c, b)})

-----------------------------------------------------------------------------
(* The inductive invariant.                                                 *)

Types ==
  /\ stage \in [Rank -> {"zero", "barrier", "run"}]
  /\ call \in [Rank -> 0..Len(Calls)]
  /\ pc \in [Rank -> [Block -> {"idle", "store", "flag", "wait", "read", "done"}]]
  /\ left \in [Rank -> [Block -> SUBSET Rank]]
  /\ got \in [Rank -> [Block -> SUBSET (Rank \X Int)]]
  /\ counters \in [Rank -> [Block -> Nat]]
  /\ flags \in [Rank -> [Block -> [Rank -> Int]]]
  /\ buffer \in [Rank -> [{0, 1} -> [Block -> Int]]]

\* No process makes a call before every process has zeroed its flags.
Stages ==
  \A r \in Rank :
    /\ stage[r] = "run" => AllZero
    /\ stage[r] # "run" => call[r] = 0 /\ \A b \in Block : pc[r][b] = "idle"

\* A block's count is of the calls it has begun to store.
Counts ==
  \A r \in Rank, b \in Block :
    /\ counters[r][b] = Epoch(call[r], b) - (IF pc[r][b] = "store" THEN 1 ELSE 0)
    /\ pc[r][b] # "idle" => call[r] \in Call /\ Includes(call[r], b)

\* What a peer told is never more than it has stored, and never two behind the
\* block's own count; it is the block's own count once the block has heard it.
Heard ==
  \A r \in Rank, b \in Block : \A q \in Peers(r) :
    stage[r] # "zero" =>
      /\ flags[r][b][q] <= counters[q][b]
      /\ flags[r][b][q] >= counters[r][b] - 1
      /\ pc[r][b] \in {"idle", "store", "read", "done"} => flags[r][b][q] >= counters[r][b]
      /\ pc[r][b] = "wait" /\ q \notin left[r][b] => flags[r][b][q] >= counters[r][b]

\* The slots hold a block's part of its last two calls.
Stored ==
  \A q \in Rank, b \in Block : \A c \in Call :
    Includes(c, b) /\ Epoch(c, b) \in {counters[q][b], counters[q][b] - 1} =>
      \A x \in Place(c, b) : buffer[q][Slot(Epoch(c, b))][x] = c

\* A block has added the parts of the peers it is done with.
Added ==
  \A r \in Rank, b \in Block :
    /\ pc[r][b] \in {"flag", "wait", "read"} => left[r][b] \subseteq Peers(r)
    /\ pc[r][b] \in {"flag", "wait"} => got[r][b] = {}
    /\ pc[r][b] = "read" => got[r][b] = (Peers(r) \ left[r][b]) \X {call[r]}
    /\ pc[r][b] = "done" => got[r][b] = Peers(r) \X {call[r]}

IInv == Types /\ Stages /\ Counts /\ Heard /\ Stored /\ Added

-----------------------------------------------------------------------------
\* What the assumptions say of a call.
LEMMA CallFacts ==
  /\ World \in Nat /\ World > 1 /\ Cells \in Nat /\ Cells > 0
  /\ Len(Calls) \in Nat /\ Call = 1..Len(Calls)
  /\ \A c \in Call : /\ Calls[c].blocks \in Nat /\ Calls[c].blocks > 0
                      /\ Calls[c].width \in Nat /\ Calls[c].width > 0
<1>1. Call = 1..Len(Calls) /\ Len(Calls) \in Nat
  BY OneShotAssumption DEF OneShotAssumption, Call
<1>2. \A c \in Call : Calls[c] \in [blocks : Nat, width : Nat]
  <2> DEFINE R == [blocks : Nat, width : Nat]
  <2>1. Calls \in Seq(R)
    BY OneShotAssumption DEF OneShotAssumption
  <2> HIDE DEF R
  <2>2. \A c \in Call : Calls[c] \in R
    BY <2>1, <1>1
  <2> QED BY <2>2 DEF R
<1> QED BY <1>1, <1>2, OneShotAssumption DEF OneShotAssumption

-----------------------------------------------------------------------------
(* Counting a block's calls.                                                *)

\* A block's count goes up by one with each call that includes it, from zero.
LEMMA EpochStep ==
  ASSUME NEW n \in Nat, NEW b
  PROVE  /\ Epoch(n, b) \in Nat
         /\ Epoch(0, b) = 0
         /\ Epoch(n + 1, b) = Epoch(n, b) + (IF Includes(n + 1, b) THEN 1 ELSE 0)
<1> DEFINE E(m) == {c \in 1..m : Includes(c, b)}
<1>1. IsFiniteSet(E(n)) /\ Epoch(n, b) = Cardinality(E(n))
  <2>1. IsFiniteSet(1..n)
    BY FS_Interval
  <2>2. E(n) \subseteq 1..n
    OBVIOUS
  <2> QED BY <2>1, <2>2, FS_Subset DEF Epoch
<1>2. Epoch(n, b) \in Nat
  BY <1>1, FS_CardinalityType
<1>3. Epoch(0, b) = 0
  <2>1. {c \in 1..0 : Includes(c, b)} = {}
    OBVIOUS
  <2> QED BY <2>1, FS_EmptySet DEF Epoch
<1>4. CASE Includes(n + 1, b)
  <2>1. E(n + 1) = E(n) \cup {n + 1} /\ n + 1 \notin E(n)
    BY <1>4
  <2>2. Cardinality(E(n + 1)) = Cardinality(E(n)) + 1
    BY <2>1, <1>1, FS_AddElement
  <2> QED BY <2>2, <1>1, <1>2, <1>3, <1>4 DEF Epoch
<1>5. CASE ~Includes(n + 1, b)
  <2>1. E(n + 1) = E(n)
    BY <1>5
  <2> QED BY <2>1, <1>1, <1>2, <1>3, <1>5 DEF Epoch
<1> QED BY <1>4, <1>5

\* Counts do not go down.
LEMMA EpochMonotone ==
  ASSUME NEW m \in Nat, NEW n \in Nat, m <= n, NEW b
  PROVE  Epoch(m, b) <= Epoch(n, b)
<1> DEFINE E(k) == {c \in 1..k : Includes(c, b)}
<1>1. IsFiniteSet(1..n)
  BY FS_Interval
<1>2. E(n) \subseteq 1..n /\ E(m) \subseteq E(n)
  OBVIOUS
<1>3. IsFiniteSet(E(n))
  BY <1>1, <1>2, FS_Subset
<1> QED BY <1>2, <1>3, FS_Subset DEF Epoch

\* A count names one call.
LEMMA EpochNames ==
  ASSUME NEW b, NEW c \in Call, NEW d \in Call,
         Includes(c, b), Includes(d, b), Epoch(c, b) = Epoch(d, b)
  PROVE  c = d
<1>1. Call \subseteq Nat \ {0}
  BY CallFacts
<1>2. ASSUME NEW k \in Call, NEW n \in Call, Includes(n, b), k < n
      PROVE  Epoch(k, b) < Epoch(n, b)
  <2>1. k \in Nat /\ n - 1 \in Nat /\ k <= n - 1 /\ (n - 1) + 1 = n
    BY <1>1, <1>2
  <2>2. Epoch(k, b) <= Epoch(n - 1, b)
    BY <2>1, EpochMonotone
  <2>3. Epoch(n, b) = Epoch(n - 1, b) + 1 /\ Epoch(n - 1, b) \in Nat
    <3> DEFINE p == n - 1
    <3>1. p \in Nat /\ n = p + 1
      BY <2>1
    <3> HIDE DEF p
    <3>2. Epoch(p + 1, b) = Epoch(p, b) + 1 /\ Epoch(p, b) \in Nat
      BY <3>1, <1>2, EpochStep
    <3> QED BY <3>1, <3>2 DEF p
  <2>4. Epoch(k, b) \in Nat
    BY <2>1, EpochStep
  <2> QED BY <2>2, <2>3, <2>4
<1>3. Epoch(c, b) \in Nat /\ Epoch(d, b) \in Nat
  BY <1>1, EpochStep
<1> QED BY <1>1, <1>2, <1>3

\* The cells of a block are cells of the slot, at least one, and of no other block.
LEMMA Places ==
  ASSUME OneWidth, NEW b \in Block, NEW c \in Call, Includes(c, b)
  PROVE  /\ Place(c, b) # {} /\ Place(c, b) \subseteq Block
         /\ \A a \in Block : \A d \in Call : Includes(d, a) =>
              IF a = b THEN Place(d, a) = Place(c, b) ELSE Place(d, a) \cap Place(c, b) = {}
<1> DEFINE W == Calls[c].width
           B == Calls[c].blocks
<1>1. W \in Nat /\ W > 0 /\ B \in Nat /\ B > 0 /\ b \in Nat /\ Cells \in Nat
  BY CallFacts DEF Block
<1>2. B * W <= Cells /\ b < B
  BY DEF Includes, Covered, InGrid
<1>3. \A d \in Call : Calls[d].width = W
  BY DEF OneWidth
<1>4. \A d \in Call, a \in Block : Place(d, a) = (a * W)..((a + 1) * W - 1)
  BY <1>3 DEF Place
<1> HIDE DEF W, B
<1>5. ASSUME NEW k \in Nat, NEW n \in Nat, k < n
      PROVE  (k + 1) * W <= n * W /\ k * W \in Nat /\ n * W \in Nat /\ (k + 1) * W = k * W + W
  <2>1. PICK e \in Nat : n = k + 1 + e
    <3>1. n - (k + 1) \in Nat /\ n = k + 1 + (n - (k + 1))
      BY <1>5
    <3> QED BY <3>1
  <2>2. e * W \in Nat /\ k * W \in Nat /\ (k + 1) * W = k * W + W
    BY <1>1
  <2>3. n * W = k * W + W + e * W
    BY <2>1, <1>1
  <2> QED BY <2>2, <2>3, <1>1
<1>6. Place(c, b) # {} /\ Place(c, b) \subseteq Block
  <2>1. (b + 1) * W <= B * W /\ b * W \in Nat /\ (b + 1) * W = b * W + W
    BY <1>1, <1>2, <1>5
  <2>2. B * W \in Nat
    BY <1>1, <1>2, <1>5
  <2>3. (b + 1) * W <= Cells
    BY <2>1, <2>2, <1>1, <1>2
  <2>4. Place(c, b) = (b * W)..((b + 1) * W - 1)
    BY <1>4
  <2>5. b * W \in Place(c, b)
    BY <2>1, <2>4, <1>1
  <2>6. \A x \in Place(c, b) : x \in 0..(Cells - 1)
    BY <2>1, <2>3, <2>4, <1>1
  <2> QED BY <2>5, <2>6 DEF Block
<1>7. ASSUME NEW a \in Block, NEW d \in Call, a # b
      PROVE  Place(d, a) \cap Place(c, b) = {}
  <2>1. a \in Nat /\ (a < b \/ b < a)
    BY <1>7, <1>1 DEF Block
  <2>2. Place(d, a) = (a * W)..((a + 1) * W - 1) /\ Place(c, b) = (b * W)..((b + 1) * W - 1)
    BY <1>4
  <2>3. CASE a < b
    <3>1. (a + 1) * W <= b * W /\ a * W \in Nat /\ b * W \in Nat /\ (a + 1) * W = a * W + W
      BY <2>1, <2>3, <1>1, <1>5
    <3> QED BY <3>1, <2>2, <1>1
  <2>4. CASE b < a
    <3>1. (b + 1) * W <= a * W /\ a * W \in Nat /\ b * W \in Nat /\ (b + 1) * W = b * W + W
      BY <2>1, <2>4, <1>1, <1>5
    <3> QED BY <3>1, <2>2, <1>1
  <2> QED BY <2>1, <2>3, <2>4
<1> QED BY <1>4, <1>6, <1>7

-----------------------------------------------------------------------------
(* What the invariant says of two processes.                                *)

\* No process is two of a block's calls ahead of another: it waits to be told of
\* each before the next.
LEMMA Lockstep ==
  ASSUME IInv, AllZero, NEW r \in Rank, NEW q \in Peers(r), NEW b \in Block
  PROVE  /\ q \in Rank /\ r \in Peers(q)
         /\ counters[r][b] \in Nat /\ counters[q][b] \in Nat /\ flags[r][b][q] \in Int
         /\ counters[q][b] <= counters[r][b] + 1
<1>1. q \in Rank /\ r \in Peers(q)
  BY DEF Peers
<1>2. /\ counters[r][b] \in Nat /\ counters[q][b] \in Nat
      /\ flags[r][b][q] \in Int /\ flags[q][b][r] \in Int
  BY <1>1 DEF IInv, Types
<1>3. flags[q][b][r] <= counters[r][b] /\ flags[q][b][r] >= counters[q][b] - 1
  BY <1>1 DEF IInv, Heard, AllZero
<1> QED BY <1>1, <1>2, <1>3

\* A block that is not idle is one of a call being made, so every process has
\* zeroed its flags; once it has stored, its count names the call.
LEMMA Running ==
  ASSUME IInv, NEW r \in Rank, NEW b \in Block, pc[r][b] # "idle"
  PROVE  /\ stage[r] = "run" /\ AllZero
         /\ call[r] \in Call /\ Includes(call[r], b)
         /\ pc[r][b] # "store" => counters[r][b] = Epoch(call[r], b)
<1>1. stage[r] = "run"
  BY DEF IInv, Stages
<1>2. AllZero
  BY <1>1 DEF IInv, Stages
<1>3. call[r] \in Call /\ Includes(call[r], b)
  BY DEF IInv, Counts
<1>4. Epoch(call[r], b) \in Nat
  BY <1>3, CallFacts, EpochStep
<1>5. ASSUME pc[r][b] # "store" PROVE counters[r][b] = Epoch(call[r], b)
  <2>1. counters[r][b] = Epoch(call[r], b) - 0
    BY <1>5 DEF IInv, Counts
  <2> QED BY <2>1, <1>4
<1> QED BY <1>1, <1>2, <1>3, <1>5

\* What a block reads of a peer it has heard from is the peer's part of the call.
LEMMA PartIsOfCall ==
  ASSUME IInv, OneWidth, NEW r \in Rank, NEW b \in Block, NEW q \in Peers(r),
         pc[r][b] = "read"
  PROVE  Part(r, b, q) = {<<q, call[r]>>}
<1>1. /\ AllZero /\ stage[r] = "run" /\ call[r] \in Call /\ Includes(call[r], b)
      /\ counters[r][b] = Epoch(call[r], b)
  BY Running
<1>2. /\ q \in Rank
      /\ counters[r][b] \in Nat /\ counters[q][b] \in Nat /\ flags[r][b][q] \in Int
      /\ counters[q][b] <= counters[r][b] + 1
  BY <1>1, Lockstep
<1>3. flags[r][b][q] >= counters[r][b] /\ flags[r][b][q] <= counters[q][b]
  BY <1>1 DEF IInv, Heard
<1>4. Epoch(call[r], b) \in {counters[q][b], counters[q][b] - 1}
  BY <1>1, <1>2, <1>3
<1>5. \A x \in Place(call[r], b) : buffer[q][Slot(counters[r][b])][x] = call[r]
  BY <1>1, <1>2, <1>4 DEF IInv, Stored
<1>6. Place(call[r], b) # {}
  BY <1>1, Places
<1> QED BY <1>5, <1>6 DEF Part

\* Two slots: a call of a block takes another than the call before it.
LEMMA Slots ==
  ASSUME NEW e \in Nat
  PROVE  Slot(e) \in {0, 1} /\ Slot(e) # Slot(e + 1)
BY DEF Slot

\* A peer is dealt with: the last one takes the block to its next step.
LEMMA Dealing ==
  ASSUME Types, NEW r \in Rank, NEW b \in Block, NEW q \in Rank,
         NEW next \in {"wait", "read", "done"}, DealtWith(r, b, q, next)
  PROVE  /\ left' \in [Rank -> [Block -> SUBSET Rank]]
         /\ pc' \in [Rank -> [Block -> {"idle", "store", "flag", "wait", "read", "done"}]]
         /\ \A p \in Rank, a \in Block :
              ~(p = r /\ a = b) => pc'[p][a] = pc[p][a] /\ left'[p][a] = left[p][a]
         /\ IF left[r][b] = {q}
            THEN pc'[r][b] = next /\ left'[r][b] = Peers(r)
            ELSE pc'[r][b] = pc[r][b] /\ left'[r][b] = left[r][b] \ {q}
<1> DEFINE L == IF left[r][b] = {q} THEN Peers(r) ELSE left[r][b] \ {q}
           P == IF left[r][b] = {q} THEN next ELSE pc[r][b]
<1>1. left' = [left EXCEPT ![r][b] = L] /\ pc' = [pc EXCEPT ![r][b] = P]
  BY DEF DealtWith
<1>2. L \in SUBSET Rank
  BY DEF Types, Peers
<1>3. P \in {"idle", "store", "flag", "wait", "read", "done"}
  BY DEF Types
<1>4. left'[r][b] = L /\ pc'[r][b] = P
  BY <1>1 DEF Types
<1> HIDE DEF L, P
<1>5. left' \in [Rank -> [Block -> SUBSET Rank]]
  BY <1>1, <1>2 DEF Types
<1>6. pc' \in [Rank -> [Block -> {"idle", "store", "flag", "wait", "read", "done"}]]
  BY <1>1, <1>3 DEF Types
<1>7. \A p \in Rank, a \in Block :
        ~(p = r /\ a = b) => pc'[p][a] = pc[p][a] /\ left'[p][a] = left[p][a]
  BY <1>1 DEF Types
<1> QED BY <1>4, <1>5, <1>6, <1>7 DEF L, P

-----------------------------------------------------------------------------
(* Every step keeps the invariant.                                          *)

\* Zeroed flags tell of no call, and nobody has made one.
LEMMA ZeroKeeps ==
  ASSUME IInv, NEW r \in Rank, Zero(r)
  PROVE  IInv'
<1>1. \A q \in Rank : stage[q] # "run"
  BY DEF IInv, Stages, AllZero, Zero
<1>2. \A q \in Rank, b \in Block : call[q] = 0 /\ pc[q][b] = "idle"
  BY <1>1 DEF IInv, Stages
<1>3. \A q \in Rank, b \in Block : counters[q][b] = 0
  <2> SUFFICES ASSUME NEW q \in Rank, NEW b \in Block
               PROVE  counters[q][b] = 0
    OBVIOUS
  <2>1. counters[q][b] = Epoch(call[q], b) - 0
    BY <1>2 DEF IInv, Counts
  <2>2. Epoch(0, b) = 0
    BY EpochStep
  <2> QED BY <2>1, <2>2, <1>2
<1>4. Types'
  BY DEF IInv, Types, Zero
<1>5. Stages'
  BY <1>1, <1>2 DEF IInv, Types, Stages, AllZero, Zero
<1>6. Counts'
  BY DEF IInv, Counts, Zero
<1>7. Heard'
  <2> SUFFICES ASSUME NEW p \in Rank, NEW b \in Block, NEW q \in Peers(p),
                      (stage[p] # "zero")'
               PROVE  (/\ flags[p][b][q] <= counters[q][b]
                       /\ flags[p][b][q] >= counters[p][b] - 1
                       /\ flags[p][b][q] >= counters[p][b])'
    BY DEF Heard
  <2>1. q \in Rank
    BY DEF Peers
  <2>2. CASE p = r
    BY <2>1, <2>2, <1>3 DEF Zero, IInv, Types
  <2>3. CASE p # r
    <3>1. flags'[p] = flags[p] /\ stage[p] # "zero" /\ counters' = counters
      BY <2>3 DEF Zero, IInv, Types
    <3>2. flags[p][b][q] <= counters[q][b] /\ flags[p][b][q] >= counters[p][b]
      BY <3>1, <1>2 DEF IInv, Heard
    <3>3. flags[p][b][q] \in Int /\ counters[p][b] = 0
      BY <2>1, <1>3 DEF IInv, Types
    <3> QED BY <3>1, <3>2, <3>3
  <2> QED BY <2>2, <2>3
<1>8. Stored'
  BY DEF IInv, Stored, Zero
<1>9. Added'
  BY DEF IInv, Added, Zero
<1> QED BY <1>4, <1>5, <1>6, <1>7, <1>8, <1>9 DEF IInv

\* Past the barrier every process has zeroed its flags.
LEMMA BarrierKeeps ==
  ASSUME IInv, NEW r \in Rank, Barrier(r)
  PROVE  IInv'
<1>1. Types'
  BY DEF IInv, Types, Barrier
<1>2. Stages'
  BY DEF IInv, Types, Stages, AllZero, Barrier
<1>3. Counts'
  BY DEF IInv, Counts, Barrier
<1>4. Heard'
  BY DEF IInv, Types, Heard, Barrier
<1>5. Stored'
  BY DEF IInv, Stored, Barrier
<1>6. Added'
  BY DEF IInv, Added, Barrier
<1> QED BY <1>1, <1>2, <1>3, <1>4, <1>5, <1>6 DEF IInv

\* A call is made once the blocks of the one before are done, each having heard of
\* every peer.
LEMMA LaunchKeeps ==
  ASSUME IInv, NEW r \in Rank, Launch(r)
  PROVE  IInv'
<1> DEFINE next == call[r] + 1
<1>1. /\ stage[r] = "run" /\ call[r] < Len(Calls) /\ Ended(r)
      /\ call' = [call EXCEPT ![r] = next]
      /\ pc' = [pc EXCEPT ![r] = [b \in Block |->
           IF Covered(next) /\ InGrid(next, b) THEN "store" ELSE "idle"]]
      /\ UNCHANGED <<stage, left, got, counters, flags, buffer>>
  BY DEF Launch
<1>2. call[r] \in Nat /\ next \in Nat /\ next \in Call
  BY <1>1, CallFacts DEF IInv, Types
<1>3. \A b \in Block : pc[r][b] \in {"idle", "done"}
  <2> SUFFICES ASSUME NEW b \in Block, pc[r][b] # "idle"
               PROVE  pc[r][b] = "done"
    OBVIOUS
  <2>1. call[r] \in Call /\ Includes(call[r], b)
    BY Running
  <2> QED BY <2>1, <1>1, CallFacts DEF Ended, Includes
<1>4. \A b \in Block : pc'[r][b] = IF Includes(next, b) THEN "store" ELSE "idle"
  BY <1>1 DEF IInv, Types, Includes
<1> HIDE DEF next
<1>5. \A q \in Rank : q # r => pc'[q] = pc[q] /\ call'[q] = call[q]
  BY <1>1 DEF IInv, Types
<1>6. call'[r] = next
  BY <1>1 DEF IInv, Types
<1>7. Types'
  <2>1. call' \in [Rank -> 0..Len(Calls)]
    BY <1>1, <1>2, CallFacts DEF IInv, Types
  <2>2. pc' \in [Rank -> [Block -> {"idle", "store", "flag", "wait", "read", "done"}]]
    BY <1>1 DEF IInv, Types
  <2> QED BY <2>1, <2>2, <1>1 DEF IInv, Types
<1>8. Stages'
  BY <1>1, <1>5 DEF IInv, Stages, AllZero
<1>9. Counts'
  <2> SUFFICES ASSUME NEW q \in Rank, NEW b \in Block
               PROVE  /\ counters[q][b] = Epoch(call'[q], b) - (IF pc'[q][b] = "store" THEN 1 ELSE 0)
                      /\ pc'[q][b] # "idle" => call'[q] \in Call /\ Includes(call'[q], b)
    BY <1>1 DEF Counts
  <2>1. CASE q # r
    BY <2>1, <1>5 DEF IInv, Counts
  <2>2. CASE q = r
    <3>1. counters[r][b] = Epoch(call[r], b) - 0 /\ Epoch(call[r], b) \in Nat
      BY <1>2, <1>3, EpochStep DEF IInv, Counts
    <3>2. Epoch(next, b) = Epoch(call[r], b) + (IF Includes(next, b) THEN 1 ELSE 0)
      BY <1>2, EpochStep DEF next
    <3> QED BY <2>2, <3>1, <3>2, <1>2, <1>4, <1>6
  <2> QED BY <2>1, <2>2
<1>10. Heard'
  <2> SUFFICES ASSUME NEW p \in Rank, NEW b \in Block, NEW q \in Peers(p),
                      stage[p] # "zero"
               PROVE  /\ flags[p][b][q] <= counters[q][b]
                      /\ flags[p][b][q] >= counters[p][b] - 1
                      /\ pc'[p][b] \in {"idle", "store", "read", "done"}
                           => flags[p][b][q] >= counters[p][b]
                      /\ pc'[p][b] = "wait" /\ q \notin left[p][b]
                           => flags[p][b][q] >= counters[p][b]
    BY <1>1 DEF Heard
  <2>1. CASE p # r
    BY <2>1, <1>5 DEF IInv, Heard
  <2>2. CASE p = r
    BY <2>2, <1>3, <1>4 DEF IInv, Heard
  <2> QED BY <2>1, <2>2
<1>11. Stored'
  BY <1>1 DEF IInv, Stored
<1>12. Added'
  <2> SUFFICES ASSUME NEW p \in Rank, NEW b \in Block
               PROVE  /\ pc'[p][b] \in {"flag", "wait", "read"} => left[p][b] \subseteq Peers(p)
                      /\ pc'[p][b] \in {"flag", "wait"} => got[p][b] = {}
                      /\ pc'[p][b] = "read" => got[p][b] = (Peers(p) \ left[p][b]) \X {call'[p]}
                      /\ pc'[p][b] = "done" => got[p][b] = Peers(p) \X {call'[p]}
    BY <1>1 DEF Added
  <2>1. CASE p # r
    BY <2>1, <1>5 DEF IInv, Added
  <2>2. CASE p = r
    BY <2>2, <1>4
  <2> QED BY <2>1, <2>2
<1> QED BY <1>7, <1>8, <1>9, <1>10, <1>11, <1>12 DEF IInv

\* A block that stores may be a call ahead of the peers that still read: it takes
\* the other slot of its own cells.
LEMMA StoreKeeps ==
  ASSUME IInv, OneWidth, NEW r \in Rank, NEW b \in Block, Store(r, b)
  PROVE  IInv'
<1> DEFINE e == counters[r][b] + 1
<1>1. /\ AllZero /\ stage[r] = "run" /\ call[r] \in Call /\ Includes(call[r], b)
      /\ counters[r][b] \in Nat /\ e \in Nat /\ e = Epoch(call[r], b)
  <2>1. AllZero /\ stage[r] = "run" /\ call[r] \in Call /\ Includes(call[r], b)
    BY Running DEF Store
  <2>2. counters[r][b] = Epoch(call[r], b) - 1 /\ counters[r][b] \in Nat
    BY DEF IInv, Types, Counts, Store
  <2>3. Epoch(call[r], b) \in Nat
    BY <2>1, CallFacts, EpochStep
  <2> QED BY <2>1, <2>2, <2>3
<1>2. /\ counters'[r][b] = e /\ pc'[r][b] = "flag"
      /\ left'[r][b] = Peers(r) /\ got'[r][b] = {}
  BY DEF IInv, Types, Store
<1>3. ASSUME NEW q \in Rank, NEW a \in Block, ~(q = r /\ a = b)
      PROVE  /\ counters'[q][a] = counters[q][a] /\ pc'[q][a] = pc[q][a]
             /\ left'[q][a] = left[q][a] /\ got'[q][a] = got[q][a]
  BY <1>3 DEF IInv, Types, Store
<1>4. \A q \in Rank, s \in {0, 1}, x \in Block :
        buffer'[q][s][x] = IF q = r /\ s = Slot(e) /\ x \in Place(call[r], b)
                           THEN call[r] ELSE buffer[q][s][x]
  BY DEF IInv, Types, Store
<1>5. UNCHANGED <<stage, call, flags>>
  BY DEF Store
<1>6. e % 2 \in {0, 1}
  BY <1>1
<1> HIDE DEF e
<1>7. Types'
  <2>1. counters' \in [Rank -> [Block -> Nat]]
    BY <1>1 DEF IInv, Types, Store
  <2>2. pc' \in [Rank -> [Block -> {"idle", "store", "flag", "wait", "read", "done"}]]
    BY DEF IInv, Types, Store
  <2>3. left' \in [Rank -> [Block -> SUBSET Rank]]
    BY DEF IInv, Types, Store, Peers
  <2>4. got' \in [Rank -> [Block -> SUBSET (Rank \X Int)]]
    BY DEF IInv, Types, Store
  <2>5. buffer' \in [Rank -> [{0, 1} -> [Block -> Int]]]
    <3>1. call[r] \in Int
      BY <1>1, CallFacts
    <3>2. \A s \in {0, 1} :
            [x \in Block |-> IF x \in Place(call[r], b) THEN call[r] ELSE buffer[r][s][x]]
              \in [Block -> Int]
      BY <3>1 DEF IInv, Types
    <3> QED BY <3>2 DEF IInv, Types, Store
  <2> QED BY <2>1, <2>2, <2>3, <2>4, <2>5, <1>5 DEF IInv, Types
<1>8. Stages'
  BY <1>1, <1>3, <1>5 DEF IInv, Stages, AllZero
<1>9. Counts'
  <2> SUFFICES ASSUME NEW q \in Rank, NEW a \in Block
               PROVE  /\ counters'[q][a] = Epoch(call[q], a) - (IF pc'[q][a] = "store" THEN 1 ELSE 0)
                      /\ pc'[q][a] # "idle" => call[q] \in Call /\ Includes(call[q], a)
    BY <1>5 DEF Counts
  <2>1. CASE q = r /\ a = b
    BY <2>1, <1>1, <1>2
  <2>2. CASE ~(q = r /\ a = b)
    BY <2>2, <1>3 DEF IInv, Counts
  <2> QED BY <2>1, <2>2
<1>10. Heard'
  <2> SUFFICES ASSUME NEW p \in Rank, NEW a \in Block, NEW q \in Peers(p),
                      stage[p] # "zero"
               PROVE  /\ flags[p][a][q] <= counters'[q][a]
                      /\ flags[p][a][q] >= counters'[p][a] - 1
                      /\ pc'[p][a] \in {"idle", "store", "read", "done"}
                           => flags[p][a][q] >= counters'[p][a]
                      /\ pc'[p][a] = "wait" /\ q \notin left'[p][a]
                           => flags[p][a][q] >= counters'[p][a]
    BY <1>5 DEF Heard
  <2>1. q \in Rank /\ q # p /\ flags[p][a][q] \in Int /\ counters[q][a] \in Nat
    BY DEF Peers, IInv, Types
  <2>2. flags[p][a][q] <= counters'[q][a]
    <3>1. flags[p][a][q] <= counters[q][a]
      BY DEF IInv, Heard
    <3>2. counters'[q][a] = counters[q][a] \/ counters'[q][a] = counters[q][a] + 1
      BY <2>1, <1>1, <1>2, <1>3 DEF e
    <3> QED BY <3>1, <3>2, <2>1
  <2>3. CASE p = r /\ a = b
    <3>1. flags[r][b][q] >= counters[r][b]
      BY <2>3 DEF IInv, Heard, Store
    <3> QED BY <3>1, <2>1, <2>2, <2>3, <1>1, <1>2 DEF e
  <2>4. CASE ~(p = r /\ a = b)
    BY <2>2, <2>4, <1>3 DEF IInv, Heard
  <2> QED BY <2>3, <2>4
<1>11. Stored'
  <2> SUFFICES ASSUME NEW q \in Rank, NEW a \in Block, NEW c \in Call, Includes(c, a),
                      Epoch(c, a) \in {counters'[q][a], counters'[q][a] - 1},
                      NEW x \in Place(c, a)
               PROVE  buffer'[q][Slot(Epoch(c, a))][x] = c
    BY DEF Stored
  <2>1. Epoch(c, a) \in Nat /\ Slot(Epoch(c, a)) \in {0, 1}
    <3>1. c \in Nat
      BY CallFacts
    <3>2. Epoch(c, a) \in Nat
      BY <3>1, EpochStep
    <3> QED BY <3>2, Slots
  <2>2. x \in Block
    BY Places
  <2>3. CASE q = r /\ a = b
    <3>1. CASE Epoch(c, a) = e
      <4>1. c = call[r]
        BY <2>3, <3>1, <1>1, EpochNames
      <4> QED BY <4>1, <2>1, <2>2, <2>3, <3>1, <1>4
    <3>2. CASE Epoch(c, a) = e - 1
      <4>1. buffer[r][Slot(Epoch(c, a))][x] = c
        BY <2>3, <3>2, <1>1 DEF IInv, Stored, e
      <4>2. Slot(Epoch(c, a)) # Slot(e)
        BY <3>2, <2>1, <1>1, Slots
      <4> QED BY <4>1, <4>2, <2>1, <2>2, <2>3, <1>4
    <3> QED BY <3>1, <3>2, <2>3, <1>2
  <2>4. CASE q = r /\ a # b
    <3>1. buffer[q][Slot(Epoch(c, a))][x] = c
      BY <2>4, <1>3 DEF IInv, Stored
    <3>2. x \notin Place(call[r], b)
      BY <2>4, <1>1, Places
    <3> QED BY <3>1, <3>2, <2>1, <2>2, <2>4, <1>4
  <2>5. CASE q # r
    <3>1. buffer[q][Slot(Epoch(c, a))][x] = c
      BY <2>5, <1>3 DEF IInv, Stored
    <3> QED BY <3>1, <2>1, <2>2, <2>5, <1>4
  <2> QED BY <2>3, <2>4, <2>5
<1>12. Added'
  <2> SUFFICES ASSUME NEW p \in Rank, NEW a \in Block
               PROVE  /\ pc'[p][a] \in {"flag", "wait", "read"} => left'[p][a] \subseteq Peers(p)
                      /\ pc'[p][a] \in {"flag", "wait"} => got'[p][a] = {}
                      /\ pc'[p][a] = "read" => got'[p][a] = (Peers(p) \ left'[p][a]) \X {call[p]}
                      /\ pc'[p][a] = "done" => got'[p][a] = Peers(p) \X {call[p]}
    BY <1>5 DEF Added
  <2>1. CASE p = r /\ a = b
    BY <2>1, <1>2
  <2>2. CASE ~(p = r /\ a = b)
    BY <2>2, <1>3 DEF IInv, Added
  <2> QED BY <2>1, <2>2
<1> QED BY <1>7, <1>8, <1>9, <1>10, <1>11, <1>12 DEF IInv

\* A peer's flag is set to a count it has stored, at most one behind that peer's.
LEMMA FlagKeeps ==
  ASSUME IInv, NEW r \in Rank, NEW b \in Block, NEW q \in Rank, Flag(r, b, q)
  PROVE  IInv'
<1>1. /\ AllZero /\ stage[r] = "run" /\ call[r] \in Call /\ Includes(call[r], b)
      /\ counters[r][b] = Epoch(call[r], b)
  BY Running DEF Flag
<1>2. left[r][b] \subseteq Peers(r) /\ q \in Peers(r) /\ got[r][b] = {}
  BY DEF IInv, Added, Flag, IsNext
<1>3. /\ r \in Peers(q) /\ counters[r][b] \in Nat /\ counters[q][b] \in Nat
      /\ counters[q][b] <= counters[r][b] + 1
  BY <1>1, <1>2, Lockstep
<1>4. /\ left' \in [Rank -> [Block -> SUBSET Rank]]
      /\ pc' \in [Rank -> [Block -> {"idle", "store", "flag", "wait", "read", "done"}]]
      /\ \A p \in Rank, a \in Block :
           ~(p = r /\ a = b) => pc'[p][a] = pc[p][a] /\ left'[p][a] = left[p][a]
      /\ \/ pc'[r][b] = "flag" /\ left'[r][b] \subseteq Peers(r)
         \/ pc'[r][b] = "wait" /\ left'[r][b] = Peers(r)
  BY <1>2, Dealing DEF IInv, Flag
<1>5. ASSUME NEW p \in Rank, NEW a \in Block, ~(p = r /\ a = b)
      PROVE  pc'[p][a] = pc[p][a] /\ left'[p][a] = left[p][a]
  BY <1>4, <1>5
<1>6. /\ flags' \in [Rank -> [Block -> [Rank -> Int]]]
      /\ \A p \in Rank, a \in Block, o \in Rank :
           flags'[p][a][o] = IF p = q /\ a = b /\ o = r THEN counters[r][b] ELSE flags[p][a][o]
  <2> DEFINE n == counters[r][b]
  <2>1. n \in Int /\ flags' = [flags EXCEPT ![q][b][r] = n]
    BY <1>3 DEF Flag
  <2> HIDE DEF n
  <2>2. flags \in [Rank -> [Block -> [Rank -> Int]]]
    BY DEF IInv, Types
  <2>3. flags' \in [Rank -> [Block -> [Rank -> Int]]]
    BY <2>1, <2>2
  <2>4. flags'[q][b][r] = n
    BY <2>1, <2>2
  <2>5. \A p \in Rank, a \in Block, o \in Rank :
          ~(p = q /\ a = b /\ o = r) => flags'[p][a][o] = flags[p][a][o]
    BY <2>1, <2>2
  <2> QED BY <2>3, <2>4, <2>5 DEF n
<1>7. UNCHANGED <<stage, call, got, counters, buffer>>
  BY DEF Flag
<1>8. Types'
  BY <1>4, <1>6, <1>7 DEF IInv, Types
<1>9. Stages'
  BY <1>1, <1>5, <1>7 DEF IInv, Stages, AllZero
<1>10. Counts'
  <2> SUFFICES ASSUME NEW p \in Rank, NEW a \in Block
               PROVE  /\ counters[p][a] = Epoch(call[p], a) - (IF pc'[p][a] = "store" THEN 1 ELSE 0)
                      /\ pc'[p][a] # "idle" => call[p] \in Call /\ Includes(call[p], a)
    BY <1>7 DEF Counts
  <2>1. CASE p = r /\ a = b
    BY <2>1, <1>1, <1>3, <1>4
  <2>2. CASE ~(p = r /\ a = b)
    BY <2>2, <1>5 DEF IInv, Counts
  <2> QED BY <2>1, <2>2
<1>11. Heard'
  <2> SUFFICES ASSUME NEW p \in Rank, NEW a \in Block, NEW o \in Peers(p),
                      stage[p] # "zero"
               PROVE  /\ flags'[p][a][o] <= counters[o][a]
                      /\ flags'[p][a][o] >= counters[p][a] - 1
                      /\ pc'[p][a] \in {"idle", "store", "read", "done"}
                           => flags'[p][a][o] >= counters[p][a]
                      /\ pc'[p][a] = "wait" /\ o \notin left'[p][a]
                           => flags'[p][a][o] >= counters[p][a]
    BY <1>7 DEF Heard
  <2>1. o \in Rank /\ o # p /\ flags[p][a][o] \in Int /\ counters[p][a] \in Nat
    BY DEF Peers, IInv, Types
  <2>2. CASE p = r /\ a = b
    <3>1. flags'[p][a][o] = flags[p][a][o]
      BY <2>1, <2>2, <1>2, <1>6 DEF Peers
    <3> QED BY <3>1, <2>2, <1>4 DEF IInv, Heard
  <2>3. CASE p = q /\ a = b /\ o = r
    <3>1. flags'[p][a][o] = counters[r][b] /\ pc'[p][a] = pc[p][a] /\ left'[p][a] = left[p][a]
      BY <2>1, <2>3, <1>5, <1>6
    <3>2. /\ flags[q][b][r] <= counters[r][b]
          /\ pc[q][b] \in {"idle", "store", "read", "done"} => flags[q][b][r] >= counters[q][b]
          /\ pc[q][b] = "wait" /\ r \notin left[q][b] => flags[q][b][r] >= counters[q][b]
      BY <2>3 DEF IInv, Heard
    <3> QED BY <3>1, <3>2, <2>1, <2>3, <1>3
  <2>4. CASE ~(p = r /\ a = b) /\ ~(p = q /\ a = b /\ o = r)
    <3>1. /\ flags'[p][a][o] = flags[p][a][o]
          /\ pc'[p][a] = pc[p][a] /\ left'[p][a] = left[p][a]
      BY <2>1, <2>4, <1>5, <1>6
    <3> QED BY <3>1 DEF IInv, Heard
  <2> QED BY <2>2, <2>3, <2>4
<1>12. Stored'
  BY <1>7 DEF IInv, Stored
<1>13. Added'
  <2> SUFFICES ASSUME NEW p \in Rank, NEW a \in Block
               PROVE  /\ pc'[p][a] \in {"flag", "wait", "read"} => left'[p][a] \subseteq Peers(p)
                      /\ pc'[p][a] \in {"flag", "wait"} => got[p][a] = {}
                      /\ pc'[p][a] = "read" => got[p][a] = (Peers(p) \ left'[p][a]) \X {call[p]}
                      /\ pc'[p][a] = "done" => got[p][a] = Peers(p) \X {call[p]}
    BY <1>7 DEF Added
  <2>1. CASE p = r /\ a = b
    BY <2>1, <1>2, <1>4
  <2>2. CASE ~(p = r /\ a = b)
    BY <2>2, <1>5 DEF IInv, Added
  <2> QED BY <2>1, <2>2
<1> QED BY <1>8, <1>9, <1>10, <1>11, <1>12, <1>13 DEF IInv

\* A block goes on from its wait having heard of every peer.
LEMMA WaitKeeps ==
  ASSUME IInv, NEW r \in Rank, NEW b \in Block, NEW q \in Rank, Wait(r, b, q)
  PROVE  IInv'
<1>1. /\ AllZero /\ stage[r] = "run" /\ call[r] \in Call /\ Includes(call[r], b)
      /\ counters[r][b] = Epoch(call[r], b) /\ counters[r][b] \in Nat
  <2>1. Epoch(call[r], b) \in Nat
    BY Running, CallFacts, EpochStep DEF Wait
  <2> QED BY <2>1, Running DEF Wait
<1>2. /\ left[r][b] \subseteq Peers(r) /\ q \in Peers(r) /\ got[r][b] = {}
      /\ pc[r][b] = "wait" /\ flags[r][b][q] >= counters[r][b]
  BY DEF IInv, Added, Wait, IsNext, Told
<1>3. /\ left' \in [Rank -> [Block -> SUBSET Rank]]
      /\ pc' \in [Rank -> [Block -> {"idle", "store", "flag", "wait", "read", "done"}]]
      /\ \A p \in Rank, a \in Block :
           ~(p = r /\ a = b) => pc'[p][a] = pc[p][a] /\ left'[p][a] = left[p][a]
      /\ IF left[r][b] = {q}
         THEN pc'[r][b] = "read" /\ left'[r][b] = Peers(r)
         ELSE pc'[r][b] = "wait" /\ left'[r][b] = left[r][b] \ {q}
  BY <1>2, Dealing DEF IInv, Wait
<1>4. ASSUME NEW p \in Rank, NEW a \in Block, ~(p = r /\ a = b)
      PROVE  pc'[p][a] = pc[p][a] /\ left'[p][a] = left[p][a]
  BY <1>3, <1>4
<1>5. UNCHANGED <<stage, call, got, counters, flags, buffer>>
  BY DEF Wait
<1>6. Types'
  BY <1>3, <1>5 DEF IInv, Types
<1>7. Stages'
  BY <1>1, <1>4, <1>5 DEF IInv, Stages, AllZero
<1>8. Counts'
  <2> SUFFICES ASSUME NEW p \in Rank, NEW a \in Block
               PROVE  /\ counters[p][a] = Epoch(call[p], a) - (IF pc'[p][a] = "store" THEN 1 ELSE 0)
                      /\ pc'[p][a] # "idle" => call[p] \in Call /\ Includes(call[p], a)
    BY <1>5 DEF Counts
  <2>1. CASE p = r /\ a = b
    BY <2>1, <1>1, <1>3
  <2>2. CASE ~(p = r /\ a = b)
    BY <2>2, <1>4 DEF IInv, Counts
  <2> QED BY <2>1, <2>2
<1>9. Heard'
  <2> SUFFICES ASSUME NEW p \in Rank, NEW a \in Block, NEW o \in Peers(p),
                      stage[p] # "zero"
               PROVE  /\ flags[p][a][o] <= counters[o][a]
                      /\ flags[p][a][o] >= counters[p][a] - 1
                      /\ pc'[p][a] \in {"idle", "store", "read", "done"}
                           => flags[p][a][o] >= counters[p][a]
                      /\ pc'[p][a] = "wait" /\ o \notin left'[p][a]
                           => flags[p][a][o] >= counters[p][a]
    BY <1>5 DEF Heard
  <2>1. CASE p = r /\ a = b
    <3>1. o # q /\ o \notin left[r][b] => flags[r][b][o] >= counters[r][b]
      BY <2>1, <1>2 DEF IInv, Heard
    <3> QED BY <3>1, <2>1, <1>2, <1>3 DEF IInv, Heard
  <2>2. CASE ~(p = r /\ a = b)
    BY <2>2, <1>4 DEF IInv, Heard
  <2> QED BY <2>1, <2>2
<1>10. Stored'
  BY <1>5 DEF IInv, Stored
<1>11. Added'
  <2> SUFFICES ASSUME NEW p \in Rank, NEW a \in Block
               PROVE  /\ pc'[p][a] \in {"flag", "wait", "read"} => left'[p][a] \subseteq Peers(p)
                      /\ pc'[p][a] \in {"flag", "wait"} => got[p][a] = {}
                      /\ pc'[p][a] = "read" => got[p][a] = (Peers(p) \ left'[p][a]) \X {call[p]}
                      /\ pc'[p][a] = "done" => got[p][a] = Peers(p) \X {call[p]}
    BY <1>5 DEF Added
  <2>1. CASE p = r /\ a = b
    BY <2>1, <1>2, <1>3
  <2>2. CASE ~(p = r /\ a = b)
    BY <2>2, <1>4 DEF IInv, Added
  <2> QED BY <2>1, <2>2
<1> QED BY <1>6, <1>7, <1>8, <1>9, <1>10, <1>11 DEF IInv

\* A block adds the part each peer has of the call the block is one of.
LEMMA ReadKeeps ==
  ASSUME IInv, OneWidth, NEW r \in Rank, NEW b \in Block, NEW q \in Rank, Read(r, b, q)
  PROVE  IInv'
<1>1. /\ AllZero /\ stage[r] = "run" /\ call[r] \in Call /\ Includes(call[r], b)
      /\ counters[r][b] = Epoch(call[r], b) /\ counters[r][b] \in Nat
  <2>1. Epoch(call[r], b) \in Nat
    BY Running, CallFacts, EpochStep DEF Read
  <2> QED BY <2>1, Running DEF Read
<1>2. /\ left[r][b] \subseteq Peers(r) /\ q \in Peers(r) /\ pc[r][b] = "read"
      /\ got[r][b] = (Peers(r) \ left[r][b]) \X {call[r]} /\ q \in left[r][b]
  BY DEF IInv, Added, Read, IsNext
<1>3. /\ left' \in [Rank -> [Block -> SUBSET Rank]]
      /\ pc' \in [Rank -> [Block -> {"idle", "store", "flag", "wait", "read", "done"}]]
      /\ \A p \in Rank, a \in Block :
           ~(p = r /\ a = b) => pc'[p][a] = pc[p][a] /\ left'[p][a] = left[p][a]
      /\ IF left[r][b] = {q}
         THEN pc'[r][b] = "done" /\ left'[r][b] = Peers(r)
         ELSE pc'[r][b] = "read" /\ left'[r][b] = left[r][b] \ {q}
  <2>1. Types /\ DealtWith(r, b, q, "done")
    BY DEF IInv, Read
  <2> QED BY <2>1, <1>2, Dealing
<1>4. /\ got' \in [Rank -> [Block -> SUBSET (Rank \X Int)]]
      /\ got'[r][b] = (Peers(r) \ (left[r][b] \ {q})) \X {call[r]}
      /\ \A p \in Rank, a \in Block : ~(p = r /\ a = b) => got'[p][a] = got[p][a]
  <2> DEFINE G == got[r][b] \cup Part(r, b, q)
  <2>1. Part(r, b, q) = {<<q, call[r]>>}
    BY <1>2, PartIsOfCall
  <2>2. G = (Peers(r) \ (left[r][b] \ {q})) \X {call[r]}
    BY <2>1, <1>2
  <2>3. G \in SUBSET (Rank \X Int)
    BY <2>2, <1>1, CallFacts DEF Peers
  <2>4. got' = [got EXCEPT ![r][b] = G]
    BY DEF Read
  <2>5. got \in [Rank -> [Block -> SUBSET (Rank \X Int)]]
    BY DEF IInv, Types
  <2> HIDE DEF G
  <2>6. got' \in [Rank -> [Block -> SUBSET (Rank \X Int)]]
    BY <2>3, <2>4, <2>5
  <2>7. got'[r][b] = G
    BY <2>4, <2>5
  <2>8. \A p \in Rank, a \in Block : ~(p = r /\ a = b) => got'[p][a] = got[p][a]
    BY <2>4, <2>5
  <2> QED BY <2>2, <2>6, <2>7, <2>8
<1>5. ASSUME NEW p \in Rank, NEW a \in Block, ~(p = r /\ a = b)
      PROVE  pc'[p][a] = pc[p][a] /\ left'[p][a] = left[p][a] /\ got'[p][a] = got[p][a]
  BY <1>3, <1>4, <1>5
<1>6. UNCHANGED <<stage, call, counters, flags, buffer>>
  BY DEF Read
<1>7. Types'
  BY <1>3, <1>4, <1>6 DEF IInv, Types
<1>8. Stages'
  BY <1>1, <1>5, <1>6 DEF IInv, Stages, AllZero
<1>9. Counts'
  <2> SUFFICES ASSUME NEW p \in Rank, NEW a \in Block
               PROVE  /\ counters[p][a] = Epoch(call[p], a) - (IF pc'[p][a] = "store" THEN 1 ELSE 0)
                      /\ pc'[p][a] # "idle" => call[p] \in Call /\ Includes(call[p], a)
    BY <1>6 DEF Counts
  <2>1. CASE p = r /\ a = b
    BY <2>1, <1>1, <1>3
  <2>2. CASE ~(p = r /\ a = b)
    BY <2>2, <1>5 DEF IInv, Counts
  <2> QED BY <2>1, <2>2
<1>10. Heard'
  <2> SUFFICES ASSUME NEW p \in Rank, NEW a \in Block, NEW o \in Peers(p),
                      stage[p] # "zero"
               PROVE  /\ flags[p][a][o] <= counters[o][a]
                      /\ flags[p][a][o] >= counters[p][a] - 1
                      /\ pc'[p][a] \in {"idle", "store", "read", "done"}
                           => flags[p][a][o] >= counters[p][a]
                      /\ pc'[p][a] = "wait" /\ o \notin left'[p][a]
                           => flags[p][a][o] >= counters[p][a]
    BY <1>6 DEF Heard
  <2>1. CASE p = r /\ a = b
    BY <2>1, <1>2, <1>3 DEF IInv, Heard
  <2>2. CASE ~(p = r /\ a = b)
    BY <2>2, <1>5 DEF IInv, Heard
  <2> QED BY <2>1, <2>2
<1>11. Stored'
  BY <1>6 DEF IInv, Stored
<1>12. Added'
  <2> SUFFICES ASSUME NEW p \in Rank, NEW a \in Block
               PROVE  /\ pc'[p][a] \in {"flag", "wait", "read"} => left'[p][a] \subseteq Peers(p)
                      /\ pc'[p][a] \in {"flag", "wait"} => got'[p][a] = {}
                      /\ pc'[p][a] = "read" => got'[p][a] = (Peers(p) \ left'[p][a]) \X {call[p]}
                      /\ pc'[p][a] = "done" => got'[p][a] = Peers(p) \X {call[p]}
    BY <1>6 DEF Added
  <2>1. CASE p = r /\ a = b
    <3>1. CASE left[r][b] = {q}
      <4>1. Peers(r) \ (left[r][b] \ {q}) = Peers(r)
        BY <3>1
      <4> QED BY <4>1, <3>1, <2>1, <1>3, <1>4
    <3>2. CASE left[r][b] # {q}
      BY <3>2, <2>1, <1>2, <1>3, <1>4
    <3> QED BY <3>1, <3>2
  <2>2. CASE ~(p = r /\ a = b)
    BY <2>2, <1>5 DEF IInv, Added
  <2> QED BY <2>1, <2>2
<1> QED BY <1>7, <1>8, <1>9, <1>10, <1>11, <1>12 DEF IInv

-----------------------------------------------------------------------------
(* The theorem.                                                             *)

\* The group is made with its counts at zero and its flags whatever memory held.
LEMMA InitKeeps == Init => IInv
<1> SUFFICES ASSUME Init PROVE IInv
  OBVIOUS
<1>1. PICK g \in Garbage :
        flags = [r \in Rank |-> [b \in Block |-> [q \in Rank |-> g]]]
  BY DEF Init
<1>2. g \in Int
  BY OneShotAssumption DEF OneShotAssumption
<1>3. Types
  BY <1>1, <1>2, CallFacts DEF Init, Types
<1>4. Stages
  BY DEF Init, Stages
<1>5. Counts
  BY EpochStep DEF Init, Counts
<1>6. Heard
  BY DEF Init, Heard
<1>7. Stored
  <2> SUFFICES ASSUME NEW q \in Rank, NEW b \in Block, NEW c \in Call, Includes(c, b)
               PROVE  Epoch(c, b) \notin {counters[q][b], counters[q][b] - 1}
    BY DEF Stored
  <2>1. counters[q][b] = 0
    BY DEF Init
  <2> DEFINE p == c - 1
  <2>2. p \in Nat /\ c = p + 1
    BY CallFacts
  <2> HIDE DEF p
  <2>3. Epoch(p, b) \in Nat /\ Epoch(c, b) = Epoch(p, b) + 1
    BY <2>2, EpochStep
  <2> QED BY <2>1, <2>3
<1>8. Added
  BY DEF Init, Added
<1> QED BY <1>3, <1>4, <1>5, <1>6, <1>7, <1>8 DEF IInv

\* Calls of one dtype are summed right, whatever the number of processes, the sizes of
\* the messages and the order in which the processes and their blocks run: no block
\* adds a part of another call than its own, and one that ends has added every peer's
\* (one_shot_all_reduce_kernel).
THEOREM SumsOfOneDtype ==
  ASSUME OneWidth
  PROVE  Spec => []Sums
<1>1. Init => IInv
  BY InitKeeps
<1>2. IInv /\ [Next]_vars => IInv'
  <2> SUFFICES ASSUME IInv, [Next]_vars PROVE IInv'
    OBVIOUS
  <2>1. CASE Next
    <3>1. PICK r \in Rank : Zero(r) \/ Barrier(r) \/ Launch(r) \/ \E b \in Block : BlockStep(r, b)
      BY <2>1 DEF Next
    <3>2. CASE Zero(r)
      BY <3>2, ZeroKeeps
    <3>3. CASE Barrier(r)
      BY <3>3, BarrierKeeps
    <3>4. CASE Launch(r)
      BY <3>4, LaunchKeeps
    <3>5. CASE \E b \in Block : BlockStep(r, b)
      <4>1. PICK b \in Block :
              Store(r, b) \/ \E q \in Rank : Flag(r, b, q) \/ Wait(r, b, q) \/ Read(r, b, q)
        BY <3>5 DEF BlockStep
      <4>2. CASE Store(r, b)
        BY <4>2, StoreKeeps
      <4>3. ASSUME NEW q \in Rank, Flag(r, b, q) PROVE IInv'
        BY <4>3, FlagKeeps
      <4>4. ASSUME NEW q \in Rank, Wait(r, b, q) PROVE IInv'
        BY <4>4, WaitKeeps
      <4>5. ASSUME NEW q \in Rank, Read(r, b, q) PROVE IInv'
        BY <4>5, ReadKeeps
      <4> QED BY <4>1, <4>2, <4>3, <4>4, <4>5
    <3> QED BY <3>1, <3>2, <3>3, <3>4, <3>5
  <2>2. CASE UNCHANGED vars
    BY <2>2 DEF vars, IInv, Types, Stages, AllZero, Counts, Heard, Stored, Added
  <2> QED BY <2>1, <2>2
<1>3. IInv => Sums
  <2> SUFFICES ASSUME IInv, NEW r \in Rank, NEW b \in Block, pc[r][b] \notin {"idle", "store"}
               PROVE  /\ got[r][b] \subseteq Peers(r) \X {call[r]}
                      /\ pc[r][b] = "done" => got[r][b] = Peers(r) \X {call[r]}
    BY DEF Sums
  <2>1. pc[r][b] \in {"flag", "wait", "read", "done"}
    BY DEF IInv, Types
  <2> QED BY <2>1 DEF IInv, Added
<1> QED BY <1>1, <1>2, <1>3, PTL DEF Spec
=============================================================================
