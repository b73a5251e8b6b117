------------------------------ MODULE Batching ------------------------------
(***************************************************************************)
(* What linnet.serve.Engine promises its callers, whatever its cache: a     *)
(* request waits in line, is admitted into one of NSlots rows first come    *)
(* first served, and gets tokens one at a time until it ends, for a reason  *)
(* its own prompt and tokens decide.  Short of memory, the request admitted *)
(* last goes back to the head of the line with the tokens it has.           *)
(***************************************************************************)
EXTENDS Lines

CONSTANTS Request, NSlots, Prompt, MaxNew, MaxSeq, Token, Eos

VARIABLES
  submitted,      \* the requests in the order they were submitted
  waiting,        \* the line
  running,        \* the requests admitted, in the order of their admission
  tokens,         \* what each request has got
  reason          \* why it ended, "" while it has not

batchVars == <<submitted, waiting, running, tokens, reason>>

Submit(r) ==
  /\ r \notin Range(submitted)
  /\ submitted' = Append(submitted, r)
  /\ waiting' = Append(waiting, r)
  /\ UNCHANGED <<running, tokens, reason>>

Admit ==
  /\ waiting # <<>>
  /\ Len(running) < NSlots
  /\ running' = Append(running, Head(waiting))
  /\ waiting' = Tail(waiting)
  /\ UNCHANGED <<submitted, tokens, reason>>

\* Why a request that has got `text` is over: its last token ends it, its budget
\* is spent, or the next token would have no position left.
Verdict(r, text) ==
  IF Last(text) \in Eos THEN "eos"
  ELSE IF Len(text) >= MaxNew[r] THEN "length"
  ELSE IF Len(Prompt[r]) + Len(text) >= MaxSeq THEN "cache"
  ELSE ""

Emit(r) ==
  /\ r \in Range(running)
  /\ \E t \in Token :
       /\ tokens' = [tokens EXCEPT ![r] = Append(@, t)]
       /\ reason' = [reason EXCEPT ![r] = Verdict(r, Append(tokens[r], t))]
  /\ running' = IF reason'[r] = "" THEN running ELSE Without(running, r)
  /\ UNCHANGED <<submitted, waiting>>

Preempt ==
  /\ running # <<>>
  /\ waiting' = <<Last(running)>> \o waiting
  /\ running' = Front(running)
  /\ UNCHANGED <<submitted, tokens, reason>>

Cancel(r) ==
  /\ r \in Range(waiting) \cup Range(running)
  /\ reason' = [reason EXCEPT ![r] = "cancelled"]
  /\ waiting' = Without(waiting, r)
  /\ running' = Without(running, r)
  /\ UNCHANGED <<submitted, tokens>>

Init ==
  /\ submitted = <<>> /\ waiting = <<>> /\ running = <<>>
  /\ tokens = [r \in Request |-> <<>>]
  /\ reason = [r \in Request |-> ""]

\* Every request is forgotten, and may be submitted anew.
Reset ==
  /\ submitted' = <<>> /\ waiting' = <<>> /\ running' = <<>>
  /\ tokens' = [r \in Request |-> <<>>]
  /\ reason' = [r \in Request |-> ""]

Next ==
  \/ \E r \in Request : Submit(r) \/ Emit(r) \/ Cancel(r)
  \/ Admit \/ Preempt \/ Reset

Spec == Init /\ [][Next]_batchVars
=============================================================================
