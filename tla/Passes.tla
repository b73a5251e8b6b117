------------------------------- MODULE Passes -------------------------------
(***************************************************************************)
(* linnet::opt::run_pipeline over optimizing_passes, on one block:          *)
(* canonicalize, cse, dce, saturate, dce, in rounds until one changes       *)
(* nothing.                                                                 *)
(*                                                                         *)
(* Of canonicalize the rules on Permute, Neg and literals are kept; those   *)
(* on Reshape are like those on Permute, that on Not like that on Neg.  A   *)
(* call is one of a function that keeps state, called with what it stores.  *)
(***************************************************************************)
EXTENDS EGraph

VARIABLES
  pass,           \* which of the passes is run
  iteration,      \* how often all were
  moved           \* whether one has changed the block in this iteration

vars == <<blockVars, pc, saturationVars, altered, pass, iteration, moved>>

OptimizingPasses == <<"canonicalize", "cse", "dce", "saturate", "dce">>
Iterations == 8

-----------------------------------------------------------------------------
(* canonicalize                                                             *)

\* A literal of an integer type, and one of a dtype variable, is an integer.
LiteralKind(type) == IF type \in {"i", "n", "g"} THEN "const.int" ELSE "const.float"
Producer(list, value) ==
  IF value \notin DOMAIN list THEN "leaf"
  ELSE IF list[value].kind = "const" THEN LiteralKind(list[value].type) ELSE list[value].kind

ReplaceWith(acc, id, value) ==
  [ops |-> ReplaceUses(acc.ops, id, value), block |-> Without(acc.block, id), altered |-> TRUE]
Become(acc, id, op) == [acc EXCEPT !.ops[id] = op, !.altered = TRUE]

\* Folding that would overflow 64 bits is refused, whatever the type of the result.
Folded(kind, x, y) ==
  CASE kind = "add" -> x + y [] kind = "sub" -> x - y [] kind = "mul" -> x * y
Fits(n) == n = Wrapped("i", n)

AsLiteral(op, number) ==
  [op EXCEPT !.kind = "const", !.operands = <<>>, !.attr = <<number.neg, number.mag>>]

Canonicalized(acc, id) ==
  LET op       == acc.ops[id]
      kinds    == [i \in DOMAIN op.operands |-> Producer(acc.ops, op.operands[i])]
      of       == acc.ops[op.operands[1]]
      folded   == Folded(op.kind, Signed(Literal(of)), Signed(Literal(acc.ops[op.operands[2]])))
      negated  == 0 - Signed(Literal(of))
  IN  CASE op.kind = "permute" /\ op.attr = [i \in DOMAIN op.attr |-> i] ->
             ReplaceWith(acc, id, op.operands[1])
        [] op.kind = "permute" /\ op.attr # [i \in DOMAIN op.attr |-> i] /\ kinds[1] = "permute" ->
             Become(acc, id, [op EXCEPT !.operands = of.operands,
                                        !.attr = [i \in DOMAIN @ |-> of.attr[@[i]]]])
        [] op.kind = "neg" /\ kinds[1] = "neg" -> ReplaceWith(acc, id, of.operands[1])
        [] op.kind = "neg" /\ kinds[1] = "const.float" ->
             Become(acc, id, AsLiteral(op, [Literal(of) EXCEPT !.neg = ~@]))
        [] op.kind = "neg" /\ kinds[1] = "const.int" /\ Fits(negated) ->
             Become(acc, id, AsLiteral(op, Integer(negated)))
        [] op.kind \in {"add", "sub", "mul"} /\ kinds = <<"const.int", "const.int">> /\ Fits(folded) ->
             Become(acc, id, AsLiteral(op, Integer(folded)))
        [] OTHER -> acc

Pass(name, one(_, _), acc) ==
  /\ pc = name
  /\ LET all == FoldLeft(one, acc, block)
     IN  ops' = all.ops /\ block' = all.block /\ altered' = all.altered
  /\ pc' = "end"
  /\ UNCHANGED <<allowed, source, saturationVars, pass, iteration, moved>>

Canonicalize ==
  Pass("canonicalize", Canonicalized, [ops |-> ops, block |-> block, altered |-> FALSE])

-----------------------------------------------------------------------------
(* eliminate_common_subexpressions, eliminate_dead_code                     *)

HasEffects(op) == op.kind \in {"read", "write", "call"}

\* Attributes are compared by ==, for which zeros of both signs are equal.
SameOperation(a, b) ==
  /\ a.kind = b.kind /\ a.operands = b.operands /\ a.type = b.type
  /\ IF a.kind = "const" THEN Signed(Literal(a)) = Signed(Literal(b)) ELSE a.attr = b.attr

Merged(acc, id) ==
  LET op    == acc.ops[id]
      twins == SelectSeq(acc.seen, LAMBDA e : SameOperation(acc.ops[e], op))
  IN  IF op.kind = "return" \/ HasEffects(op) THEN acc
      ELSE IF twins = <<>> THEN [acc EXCEPT !.seen = Append(@, id)]
      ELSE ReplaceWith(acc, id, Head(twins)) @@ acc

Cse == Pass("cse", Merged, [ops |-> ops, block |-> block, altered |-> FALSE, seen |-> <<>>])

\* Each sweep removes what nothing in the block used before it.
Used(list) ==
  SelectSeq(list, LAMBDA id : \/ ops[id].kind = "return" \/ HasEffects(ops[id])
                              \/ \E user \in Range(list) : id \in Range(ops[user].operands))

Dce ==
  /\ pc = "dce"
  /\ block' = Repeat(Used, block, block)
  /\ altered' = (block' # block)
  /\ pc' = "end"
  /\ UNCHANGED <<allowed, source, ops, saturationVars, pass, iteration, moved>>

-----------------------------------------------------------------------------
(* run_pipeline                                                             *)

NextPass ==
  /\ pc = "end"
  /\ pass < Len(OptimizingPasses)
  /\ pass' = pass + 1
  /\ pc' = OptimizingPasses[pass']
  /\ moved' = (moved \/ altered)
  /\ UNCHANGED <<blockVars, saturationVars, altered, iteration>>

NextIteration ==
  /\ pc = "end"
  /\ pass = Len(OptimizingPasses)
  /\ iteration' = iteration + 1
  /\ pc' = IF (moved \/ altered) /\ iteration' < Iterations THEN OptimizingPasses[1] ELSE "done"
  /\ pass' = 1 /\ moved' = FALSE
  /\ UNCHANGED <<blockVars, saturationVars, altered>>

Init ==
  /\ allowed \in Legalities
  /\ source \in Blocks
  /\ ops = source /\ block = [i \in DOMAIN source |-> i]
  /\ pc = OptimizingPasses[1] /\ pass = 1 /\ iteration = 0 /\ moved = FALSE /\ altered = FALSE
  /\ graph = Empty /\ classes = <<>> /\ originals = <<>>
  /\ found = [adds |-> <<>>, merges |-> <<>>]
  /\ round = 0 /\ changed = FALSE /\ best = <<>>

Next ==
  \/ Canonicalize \/ Cse \/ Dce \/ NextPass \/ NextIteration
  \/ Saturate /\ UNCHANGED <<pass, iteration, moved>>

Spec == Init /\ [][Next]_vars

-----------------------------------------------------------------------------
\* "A pass changes no result": after each pass the block is well formed and
\* computes, on every input, the results and the state the source computes, to the
\* last bit when only exact rules are allowed, whatever the passes before it did.
Preserved ==
  /\ pc # "failed"
  /\ pc = "end" /\ altered => \A input \in Inputs : SameOn(input)

\* "A pass changes no result", much less every one: some result a block returns is,
\* on every input, what it was, even if only what that result needs is computed.
SomeResultKept ==
  pc = "end" /\ altered =>
    \E i \in DOMAIN Last(source).operands : \A input \in Inputs : SameResult(input, i)
=============================================================================
