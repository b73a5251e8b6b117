------------------------------ MODULE MCPasses ------------------------------
(* Small blocks: two operations over two vectors, a scalar and constants;    *)
(* twins of equal terms; sums of products, grouped anew before they factor,  *)
(* and between effects; permutes.                                            *)
EXTENDS Passes
CONSTANTS x, y, w, z

Leaves == (x :> "v") @@ (y :> "v") @@ (w :> "s") @@ (z :> "t")
Numbers == {Number(TRUE, 0), Number(TRUE, 3), Number(FALSE, 2)}
AllInputs == [{x, y, w, z} -> Numbers]
Sampled == {f \in AllInputs : f[z] = f[w] /\ f[w] # f[y] /\ f[x] \notin {f[w], f[y]}}

Operation(kind, operands, attr, type) ==
  [kind |-> kind, operands |-> operands, attr |-> attr, type |-> type]
Const(n, type) == Operation("const", <<>>, <<FALSE, n>>, type)
Of(kind, operands, type) == Operation(kind, operands, <<>>, type)
Zero == Const(0, "s")
One  == Const(1, "s")
Kinds == {"add", "sub", "mul"}
Scalars == {w, 1, 2}
Returning(list, results) == Append(list, Operation("return", results, <<>>, "s"))

\* Operations 1 and 2 are the constants 0 and 1.  A zero literal is negated in
\* LiteralBlocks only.
Pure(kind, a, b, scalars) ==
  Operation(kind, <<a, b>>, <<>>, IF a \in scalars /\ b \in scalars THEN "s" ELSE "v")
Firsts == {Pure(k, a, b, Scalars) : k \in Kinds, a \in {x, w, 1, 2}, b \in {x, y, 1, 2}}
          \cup {Operation("neg", <<x>>, <<>>, "v")}
Seconds(first) ==
  LET scalars == IF first.type = "s" THEN Scalars \cup {3} ELSE Scalars
  IN  {Pure(k, 3, b, scalars) : k \in Kinds, b \in {x, y, 1, 2, 3}}
      \cup {Pure(k, b, 3, scalars) : k \in Kinds, b \in {x, w, 1, 2}}
      \cup IF Range(first.operands) \subseteq {1, 2} THEN {}
           ELSE {Operation("neg", <<3>>, <<>>, first.type)}
Chains == UNION {{Returning(<<Zero, One, f, s>>, <<3, 4>>) : s \in Seconds(f)} : f \in Firsts}

\* A term over what equals x, and the same over x.
Twins == {Returning(<<Zero, One, Pure(k[1], x, k[2], Scalars), Pure(m, 3, y, Scalars),
                      Pure(m, x, y, Scalars), Pure(n, 4, w, Scalars), Pure(n, w, 5, Scalars)>>, <<6, 7>>) :
            k \in {<<"add", 1>>, <<"sub", 1>>, <<"mul", 2>>, <<"mul", 1>>}, m \in Kinds, n \in Kinds}

\* Products that come together to be factored when their sum is grouped anew.
Nested ==
  {LET first == Pure("mul", b, c, {w})
       second == Pure("mul", d, c, {w})
       inner == Pure("add", a, 1, IF first.type = "s" THEN {w, 1} ELSE {w})
       small == {i \in 2..3 : <<second, inner>>[i - 1].type = "s"}
   IN  Returning(<<first, second, inner, Pure("add", 3, 2, small)>>, <<4>>) :
     a \in {x, w}, b \in {x, y, w}, c \in {x, y, w}, d \in {x, y, w}}

Product(a, b) == Pure("mul", a, b, {w})
Sums(effects) ==
  {LET at(i) == e[i].kind IN
   Returning(<<Product(p[1], p[2]), Product(q[1], q[2]), Pure("add", 1, 2, {})>> \o e,
             <<3>> \o SelectSeq(<<4, 5, 6>>, LAMBDA i : at(i - 3) # "write")) :
     p \in {<<x, y>>, <<y, x>>, <<w, y>>}, q \in {<<y, y>>, <<x, w>>, <<w, x>>}, e \in [1..3 -> effects]}
Effectful == {Operation("read", <<>>, <<>>, "v"), Operation("write", <<3>>, <<>>, "v"),
              Operation("write", <<x>>, <<>>, "v")}
Calls == {Operation("call", <<a>>, <<>>, "v") : a \in {x, 3}}

Orders == Cells("t")
Permutes ==
  {Returning(<<Operation("permute", <<z>>, p, "t"), Operation("neg", <<1>>, <<>>, "t"),
               Operation("permute", <<a>>, q, "t"), Operation("permute", <<3>>, p, "t")>>, <<b>>) :
     p \in Orders, q \in Orders, a \in {1, 2}, b \in {3, 4}}

\* Integers of a type that fold, or overflow when they do.
Integers(type, greatest) ==
  {Returning(<<Const(1, type), Const(greatest, type), Of("neg", <<2>>, type), Of(k, <<a, b>>, type), last>>,
             <<4, 5>>) :
     k \in Kinds, a \in 1..3, b \in 1..3,
     last \in {Of(m, <<4, c>>, type) : m \in Kinds, c \in 1..3} \cup {Of("neg", <<4>>, type)}}

AllBlocks ==
  Integers("i", 7) \cup Integers("n", 1) \cup Chains \cup Twins \cup Nested \cup Sums(Effectful) \cup Permutes
CallBlocks == Sums(Effectful \cup Calls)

\* Three results of literals: a sum past the limit of its integer type, a difference
\* rounded before if its dtype is a floating one, and a zero negated.
LiteralBlocks ==
  {Returning(<<Const(1, "n"), Const(3, "n"), Of("add", <<1, 2>>, "n"),
               Const(1, "g"), Const(Largest, "g"), Of("add", <<4, 5>>, "g"), Of("sub", <<6, 4>>, "g"),
               Zero, Of("neg", <<8>>, "s")>>, <<3, 7, 9>>)}

Bits == [i |-> 4, n |-> 3]
=============================================================================
