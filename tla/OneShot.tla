------------------------------- MODULE OneShot -------------------------------
(***************************************************************************)
(* linnet.torch.collectives: the sums of a group's processes, by the        *)
(* one-shot kernel over memory they all can read, or by NCCL when the       *)
(* message is too large for it.  A process copies its part into its buffer, *)
(* flags every peer, waits for every peer's flag, and adds their parts.     *)
(*                                                                         *)
(* Every process makes the same calls, one after the other on one stream.   *)
(* A call is cut into blocks, which run in any order, each with a count of  *)
(* its own; a cell is what a block of the narrowest dtype covers, so that a *)
(* block of a dtype twice as wide covers two.  A part is named by its call. *)
(***************************************************************************)
EXTENDS Integers, Sequences

CONSTANTS
  World,          \* how many processes the group has
  Cells,          \* how many cells a slot has: ONE_SHOT_BYTES of them
  Calls,          \* the calls: how many blocks each has, how many cells a block
  Garbage         \* what memory nobody wrote may hold

Rank == 0..(World - 1)
Block == 0..(Cells - 1)
Call == DOMAIN Calls

ASSUME OneShotAssumption ==
  /\ World \in Nat /\ World > 1
  /\ Cells \in Nat /\ Cells > 0
  /\ Calls \in Seq([blocks : Nat, width : Nat])
  /\ \A c \in Call : Calls[c].blocks > 0 /\ Calls[c].width > 0
  /\ Garbage \subseteq Int /\ Garbage # {}

\* The counts and the flags, of 32 bits, hold the number of every call.
ASSUME CountsAssumption == Len(Calls) <= 2147483647

VARIABLES
  stage,          \* what each process is at: "zero", "barrier" or "run"
  call,           \* the call it makes
  pc,             \* where each block of the call is
  left,           \* the peers a block has still to flag, hear from or read
  got,            \* the parts a block has added: whose, and of which call
  counters,       \* each block's count of its calls
  flags,          \* the counts each process was told: of a block, by a peer
  buffer          \* each process's parts, in two slots

vars == <<stage, call, pc, left, got, counters, flags, buffer>>

Peers(r) == Rank \ {r}

\* A message the kernel takes: the buffer's slot holds it.
Covered(c) == Calls[c].blocks * Calls[c].width <= Cells
InGrid(c, b) == b < Calls[c].blocks

\* The cells of a block.
Place(c, b) == (b * Calls[c].width)..((b + 1) * Calls[c].width - 1)

SlotOne(epoch) == 0       \* mutant: one slot for every call
Slot(epoch) == epoch % 2

-----------------------------------------------------------------------------
(* OneShot.__init__: the buffers are made.                                  *)

Zero(r) ==
  /\ stage[r] = "zero"
  /\ flags' = [flags EXCEPT ![r] = [b \in Block |-> [q \in Rank |-> 0]]]
  /\ stage' = [stage EXCEPT ![r] = "barrier"]
  /\ UNCHANGED <<call, pc, left, got, counters, buffer>>

AllZero == \A q \in Rank : stage[q] # "zero"

Barrier(r) ==
  /\ stage[r] = "barrier"
  /\ AllZero
  /\ stage' = [stage EXCEPT ![r] = "run"]
  /\ UNCHANGED <<call, pc, left, got, counters, flags, buffer>>

-----------------------------------------------------------------------------
(* all_reduce                                                               *)

\* The call the process is at is over: all its blocks, or for NCCL's, every
\* process has made it.
Ended(r) ==
  call[r] # 0 =>
    IF Covered(call[r])
    THEN \A b \in Block : InGrid(call[r], b) => pc[r][b] = "done"
    ELSE \A q \in Rank : call[q] >= call[r]

Launch(r) ==
  /\ stage[r] = "run"
  /\ call[r] < Len(Calls)
  /\ Ended(r)
  /\ LET next == call[r] + 1
     IN  /\ call' = [call EXCEPT ![r] = next]
         /\ pc' = [pc EXCEPT ![r] = [b \in Block |->
              IF Covered(next) /\ InGrid(next, b) THEN "store" ELSE "idle"]]
  /\ UNCHANGED <<stage, left, got, counters, flags, buffer>>

-----------------------------------------------------------------------------
(* one_shot_all_reduce_kernel, a block of it.                               *)

\* Peers are dealt with in the order of their ranks.
IsNext(r, b, q) == q \in left[r][b] /\ \A p \in left[r][b] : q <= p

\* Goes to `next` once every peer is dealt with.
DealtWith(r, b, q, next) ==
  /\ left' = [left EXCEPT ![r][b] = IF @ = {q} THEN Peers(r) ELSE @ \ {q}]
  /\ pc' = [pc EXCEPT ![r][b] = IF left[r][b] = {q} THEN next ELSE @]

Store(r, b) ==
  /\ pc[r][b] = "store"
  /\ counters' = [counters EXCEPT ![r][b] = @ + 1]
  /\ buffer' = [buffer EXCEPT ![r][Slot(counters[r][b] + 1)] =
       [x \in Block |-> IF x \in Place(call[r], b) THEN call[r] ELSE @[x]]]
  /\ pc' = [pc EXCEPT ![r][b] = "flag"]
  /\ left' = [left EXCEPT ![r][b] = Peers(r)]
  /\ got' = [got EXCEPT ![r][b] = {}]
  /\ UNCHANGED <<stage, call, flags>>

Flag(r, b, q) ==
  /\ pc[r][b] = "flag"
  /\ IsNext(r, b, q)
  /\ flags' = [flags EXCEPT ![q][b][r] = counters[r][b]]
  /\ DealtWith(r, b, q, "wait")
  /\ UNCHANGED <<stage, call, got, counters, buffer>>

ToldPast(r, b, q) == flags[r][b][q] > counters[r][b]   \* mutant: the next call is waited for
Told(r, b, q) == flags[r][b][q] >= counters[r][b]

Wait(r, b, q) ==
  /\ pc[r][b] = "wait"
  /\ IsNext(r, b, q)
  /\ Told(r, b, q)
  /\ DealtWith(r, b, q, "read")
  /\ UNCHANGED <<stage, call, got, counters, flags, buffer>>

Part(r, b, q) ==
  {<<q, buffer[q][Slot(counters[r][b])][x]>> : x \in Place(call[r], b)}

Read(r, b, q) ==
  /\ pc[r][b] = "read"
  /\ IsNext(r, b, q)
  /\ got' = [got EXCEPT ![r][b] = @ \cup Part(r, b, q)]
  /\ DealtWith(r, b, q, "done")
  /\ UNCHANGED <<stage, call, counters, flags, buffer>>

-----------------------------------------------------------------------------
Init ==
  /\ stage = [r \in Rank |-> "zero"]
  /\ call = [r \in Rank |-> 0]
  /\ pc = [r \in Rank |-> [b \in Block |-> "idle"]]
  /\ left = [r \in Rank |-> [b \in Block |-> {}]]
  /\ got = [r \in Rank |-> [b \in Block |-> {}]]
  /\ counters = [r \in Rank |-> [b \in Block |-> 0]]
  /\ \E g \in Garbage : flags = [r \in Rank |-> [b \in Block |-> [q \in Rank |-> g]]]
  /\ buffer = [r \in Rank |-> [s \in {0, 1} |-> [x \in Block |-> 0]]]

BlockStep(r, b) ==
  Store(r, b) \/ \E q \in Rank : Flag(r, b, q) \/ Wait(r, b, q) \/ Read(r, b, q)

Done == \A r \in Rank : call[r] = Len(Calls) /\ Ended(r)

Next ==
  \E r \in Rank : Zero(r) \/ Barrier(r) \/ Launch(r) \/ \E b \in Block : BlockStep(r, b)

\* Each process goes on, and each block of a kernel that runs.
Fairness ==
  \A r \in Rank :
    /\ WF_vars(Zero(r)) /\ WF_vars(Barrier(r)) /\ WF_vars(Launch(r))
    /\ \A b \in Block : WF_vars(BlockStep(r, b))

Spec == Init /\ [][Next]_vars /\ Fairness

-----------------------------------------------------------------------------
(* What is checked of it.                                                   *)

\* A sum is of the parts of one call, the one each process makes: no block adds a
\* part of another call, and a finished one has added every peer's
\* (one_shot_all_reduce_kernel).
Sums ==
  \A r \in Rank, b \in Block :
    pc[r][b] \notin {"idle", "store"} =>
      /\ got[r][b] \subseteq Peers(r) \X {call[r]}
      /\ pc[r][b] = "done" => got[r][b] = Peers(r) \X {call[r]}

\* Every call ends: no process waits for a flag that was lost, or never comes.
EveryCallEnds == <>Done
=============================================================================
