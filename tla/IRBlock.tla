------------------------------- MODULE IRBlock -------------------------------
(***************************************************************************)
(* A block of linnet::ir's operations, as the passes of linnet::opt change  *)
(* it, and what it computes.  An operation has at most one result, so its   *)
(* number stands for its value; operations removed from the block keep      *)
(* their number.  Regions, and what has more results, are left out.         *)
(***************************************************************************)
EXTENDS Lines, FiniteSetsExt, TLC

CONSTANTS
  Legalities,     \* how far results may change, what a caller may allow
  Blocks,         \* the blocks that may be optimised: sequences of operations
  LeafType,       \* leaf -> its type: values from outside of the block
  Inputs,         \* leaf -> number: what a block is executed on
  Largest,        \* the greatest magnitude of a floating-point number
  Width           \* integer type -> its bits

\* A scalar, an integer of 64 bits and a narrower one, a scalar whose dtype is a
\* variable, and that is run as floating point, a vector and a tensor with three
\* axes, each of symbolic extent; scalars broadcast.
Rank == [s |-> 0, i |-> 0, n |-> 0, g |-> 0, v |-> 1, t |-> 3]

ASSUME IRBlockAssumption ==
  /\ Legalities \subseteq {"exact", "ieee", "numeric"}
  /\ LeafType \in [DOMAIN LeafType -> DOMAIN Rank]
  /\ Largest \in Nat \ {0}
  /\ Width \in [{"i", "n"} -> Nat \ {0}]
  /\ Width["n"] <= Width["i"]

VARIABLES
  allowed,        \* the legality allowed
  source,         \* the operations of the block, as they were
  ops,            \* the module's operations
  block           \* those in the block, in order

blockVars == <<allowed, source, ops, block>>

\* Module::replace_uses
ReplaceUses(list, from, to) ==
  [i \in DOMAIN list |-> [list[i] EXCEPT
     !.operands = [k \in DOMAIN @ |-> IF @[k] = from THEN to ELSE @[k]]]]

\* F, as often as there are elements: enough for a fixpoint over them.
Repeat(F(_), start, elements) == FoldLeft(LAMBDA value, e : F(value), start, elements)

-----------------------------------------------------------------------------
(* What a block computes.  A number is a magnitude with a sign, zero's too; *)
(* results are rounded to the greatest there is, unless reassociation is    *)
(* allowed; integers wrap around at their width.                            *)
(* A tensor is given at the cells whose indices are a permutation of 1..n,  *)
(* so that permuting its axes moves them.                                   *)

Number(neg, mag) == [neg |-> neg, mag |-> mag]
Signed(x) == IF x.neg THEN 0 - x.mag ELSE x.mag
Integer(n) == Number(n < 0, IF n < 0 THEN 0 - n ELSE n)

Rounded(n) == IF allowed = "numeric" THEN n ELSE Min({n, Largest})
Half(type) == 2 ^ (Width[type] - 1)
Wrapped(type, n) == ((n + Half(type)) % (2 * Half(type))) - Half(type)

\* The number computed as n, whose zero has the sign given.
AsNumber(type, n, zero) ==
  IF type \in DOMAIN Width THEN Integer(Wrapped(type, n))
  ELSE Number(n < 0 \/ (n = 0 /\ zero), Rounded(Integer(n).mag))

Compute(kind, type, x, y) ==
  CASE kind = "add" -> AsNumber(type, Signed(x) + Signed(y), x.neg /\ y.neg)
    [] kind = "sub" -> AsNumber(type, Signed(x) - Signed(y), x.neg /\ ~y.neg)
    [] kind = "mul" -> AsNumber(type, Signed(x) * Signed(y), x.neg # y.neg)
    [] kind = "neg" -> AsNumber(type, 0 - Signed(x), ~x.neg)

Cells(type) == {c \in [1..Rank[type] -> 1..Rank[type]] : Range(c) = 1..Rank[type]}
At(tensor, cell) == IF DOMAIN tensor = Cells("s") THEN tensor[<<>>] ELSE tensor[cell]
LeafValue(input, leaf) ==
  [c \in Cells(LeafType[leaf]) |->
     IF Rank[LeafType[leaf]] = 3 THEN Number(FALSE, 100 * c[1] + 10 * c[2] + c[3]) ELSE input[leaf]]

Literal(op) == Number(op.attr[1], op.attr[2])

\* What an operation yields from its operands' values and the state.
Result(op, args, state) ==
  CASE op.kind = "const"   -> [c \in Cells(op.type) |-> AsNumber(op.type, Signed(Literal(op)), op.attr[1])]
    [] op.kind = "read"    -> state
    [] op.kind = "call"    -> state
    [] op.kind = "permute" ->
         [c \in Cells(op.type) |-> args[1][[k \in DOMAIN c |-> c[IndexIn(op.attr, k)]]]]
    [] OTHER -> [c \in Cells(op.type) |-> Compute(op.kind, op.type, At(args[1], c), At(Last(args), c))]

\* Operands come before their use, and broadcast to the type the result is given; an
\* integer literal is one of its type.
WellFormed(op, run) ==
  /\ \A i \in DOMAIN op.operands : op.operands[i] \in DOMAIN run.values
  /\ op.kind \in {"add", "sub", "mul", "neg", "permute"} =>
       LET shapes == {DOMAIN run.values[o] : o \in Range(op.operands)}
       IN  Cells(op.type) \in shapes /\ shapes \subseteq {Cells(op.type), Cells("s")}
  /\ op.kind = "const" /\ op.type \in DOMAIN Width =>
       Signed(Literal(op)) = Wrapped(op.type, Signed(Literal(op)))

\* An operation that cannot be run has no value, nor have those that use it.
Missing == <<>>
Perform(list, run, id) ==
  LET op   == list[id]
      args == [i \in DOMAIN op.operands |->
                 IF op.operands[i] \in DOMAIN run.values THEN run.values[op.operands[i]] ELSE Missing]
  IN  IF op.kind = "return"
      THEN [run EXCEPT !.results = args, !.ok = @ /\ WellFormed(op, run)]
      ELSE IF ~WellFormed(op, run) THEN [run EXCEPT !.ok = FALSE]
      ELSE CASE op.kind = "write"  -> [run EXCEPT !.state = args[1]]
             [] OTHER -> [run EXCEPT
                  !.values = (id :> Result(op, args, run.state)) @@ @,
                  !.state = IF op.kind = "call" THEN args[1] ELSE @]

Executed(list, order_, input) ==
  FoldLeft(LAMBDA run, id : Perform(list, run, id),
           [values |-> [leaf \in DOMAIN LeafType |-> LeafValue(input, leaf)],
            state |-> [c \in Cells("v") |-> Number(FALSE, Largest)], results |-> <<>>, ok |-> TRUE],
           order_)

\* Bit-identical, or identical to a comparison, which does not see zero's sign.
SameTensor(a, b) ==
  /\ DOMAIN a = DOMAIN b
  /\ IF allowed = "exact" THEN a = b ELSE \A c \in DOMAIN a : Signed(a[c]) = Signed(b[c])

Before(input) == Executed(source, [i \in DOMAIN source |-> i], input)
After(input) == Executed(ops, block, input)

\* The block as it is computes, on an input, what the source computed: its results
\* and the state it leaves.
SameOn(input) ==
  LET before == Before(input)
      after  == After(input)
  IN  /\ after.ok
      /\ SameTensor(before.state, after.state)
      /\ Len(after.results) = Len(before.results)
      /\ \A i \in DOMAIN before.results : SameTensor(before.results[i], after.results[i])

\* The result is computed, whatever becomes of the others, and is the source's.
SameResult(input, i) == SameTensor(Before(input).results[i], After(input).results[i])
=============================================================================
