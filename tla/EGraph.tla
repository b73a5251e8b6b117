------------------------------- MODULE EGraph -------------------------------
(***************************************************************************)
(* linnet::opt::saturate, on one block: its operations become terms over    *)
(* e-classes, rules add equal terms and merge classes in rounds, and the    *)
(* cheapest term of each class is put back in place of the block's values.  *)
(*                                                                         *)
(* Of the rules those on one term and those with operands of other types    *)
(* are kept; reshapes and broadcasts compose as permutes do, and the rules  *)
(* on Not, Select, Compare, Div, Min and Max are like those here.           *)
(***************************************************************************)
EXTENDS IRBlock

CONSTANTS MaxRounds, MaxNodes, Extent      \* SaturationOptions

ASSUME EGraphAssumption == {MaxRounds, MaxNodes, Extent} \subseteq Nat \ {0}

VARIABLES
  pc,             \* where the pass is, or the name of the one to begin
  graph,          \* the e-graph
  classes,        \* value -> its class
  originals,      \* the operations that became terms, with their classes
  found,          \* what a round's matches add and merge
  round, changed, \* of the rounds
  best,           \* root class -> the term chosen and its cost
  altered         \* whether the pass has changed the block

roundVars == <<classes, originals, found, round, changed>>
saturationVars == <<graph, roundVars, best>>

-----------------------------------------------------------------------------
(* The e-graph.  A class's parent is never newer than the class.            *)

FindIn(parent, class) ==
  LET root[c \in 1..class] == IF parent[c] = c THEN c ELSE root[parent[c]] IN root[class]
Find(g, class) == FindIn(g.parent, class)

Canonical(g, node) ==
  [node EXCEPT !.children = [i \in DOMAIN node.children |-> Find(g, node.children[i])]]
Key(g, node) == [Canonical(g, node) EXCEPT !.op = 0]

Derived(kind, children, attr, type) ==
  [kind |-> kind, children |-> children, attr |-> attr, type |-> type, op |-> 0]

\* The class that holds a term, and the graph with it.
Add(g, node) ==
  LET key == Key(g, node)
      new == Len(g.parent) + 1
  IN  IF key \in DOMAIN g.hashcons THEN [graph |-> g, class |-> Find(g, g.hashcons[key])]
      ELSE [class |-> new,
            graph |-> [g EXCEPT !.parent = Append(@, new), !.types = Append(@, node.type),
                                !.nodes = Append(@, <<Canonical(g, node)>>),
                                !.hashcons = (key :> new) @@ @]]

\* Classes of different types are never merged.
Merge(g, a, b) ==
  LET l == Find(g, a)
      r == Find(g, b)
  IN  IF l = r \/ g.types[l] # g.types[r] THEN g
      ELSE [g EXCEPT !.parent[Max({l, r})] = Min({l, r}), !.dirty = TRUE]

Nodes(g, class) == g.nodes[Find(g, class)]
Type(g, class) == g.types[Find(g, class)]
Roots(g) == {c \in DOMAIN g.parent : Find(g, c) = c}
NodeCount(g) == FoldLeft(LAMBDA n, nodes : n + Len(nodes), 0, g.nodes)

\* Every node with the root of its class, in order.
AllNodes(g) ==
  FoldLeft(LAMBDA all, c : all \o [i \in DOMAIN g.nodes[c] |->
             [class |-> Find(g, c), node |-> Canonical(g, g.nodes[c][i])]],
           <<>>, [c \in DOMAIN g.parent |-> c])

JoinsUnseen(a, b) == FALSE      \* mutant: a term's parents are not looked at again
Joins(a, b) == a # b

\* The same term twice: one copy is kept, with the operation of either, and their
\* classes are one.
Deduplicate(acc, entry) ==
  LET key == Key(acc, entry.node)
  IN  IF key \notin DOMAIN acc.first
      THEN [acc EXCEPT !.first = (key :> Len(acc.kept) + 1) @@ @, !.kept = Append(@, entry)]
      ELSE LET at == acc.first[key]
               a  == Find(acc, acc.kept[at].class)
               b  == Find(acc, entry.class)
           IN  [acc EXCEPT
                 !.kept[at].node.op = IF @ = 0 THEN entry.node.op ELSE @,
                 !.parent[Max({a, b})] = Min({a, b}),
                 !.dirty = @ \/ Joins(a, b)]

\* One pass of `rebuild`.
Rebuilt(g) ==
  LET unique == FoldLeft(Deduplicate,
                         [parent |-> g.parent, first |-> <<>>, kept |-> <<>>, dirty |-> FALSE],
                         AllNodes(g))
      In(c)  == SelectSeq(unique.kept, LAMBDA entry : Find(unique, entry.class) = c)
  IN  [g EXCEPT !.parent = unique.parent, !.dirty = unique.dirty,
                !.nodes = [c \in DOMAIN g.parent |-> [i \in DOMAIN In(c) |-> In(c)[i].node]],
                !.hashcons = [key \in {Key(unique, entry.node) : entry \in Range(unique.kept)} |->
                  LET entry == Last(SelectSeq(unique.kept, LAMBDA e : Key(unique, e.node) = key))
                  IN  Find(unique, entry.class)]]

-----------------------------------------------------------------------------
(* The rules.                                                               *)

LegalityOf ==
  [permutes |-> "exact", negation |-> "exact", commutativity |-> "exact", one |-> "exact",
   zero |-> "ieee", reassociation |-> "numeric", factoring |-> "numeric"]

Level == [exact |-> 0, ieee |-> 1, numeric |-> 2]
Allows(rule) == Level[LegalityOf[rule]] <= Level[allowed]

Constant(g, class, n) == \E node \in Range(Nodes(g, class)) : node.kind = "const" /\ Signed(Literal(node)) = n

AddsOf(acc, class, nodes) ==
  [acc EXCEPT !.adds = @ \o [i \in DOMAIN nodes |-> [class |-> class, node |-> nodes[i]]]]
MergesOf(acc, class, others) ==
  [acc EXCEPT !.merges = @ \o [i \in DOMAIN others |-> <<class, others[i]>>]]

Inner(acc, node, kind) == SelectSeq(Nodes(acc.graph, node.children[1]), LAMBDA n : n.kind = kind)

\* permute(permute(x, p), q) = permute(x, p[q])
ComposePermutes(acc, class, node) ==
  LET inner == Inner(acc, node, "permute")
      Both(n) == Derived("permute", n.children, [i \in DOMAIN node.attr |-> n.attr[node.attr[i]]],
                         node.type)
  IN  AddsOf(acc, class, [i \in DOMAIN inner |-> Both(inner[i])])

\* neg(neg(x)) = x
DoubleNegation(acc, class, node) ==
  LET inner == SelectSeq(Inner(acc, node, "neg"),
                         LAMBDA n : Type(acc.graph, n.children[1]) = Type(acc.graph, class))
  IN  MergesOf(acc, class, [i \in DOMAIN inner |-> inner[i].children[1]])

Commute(acc, class, node) ==
  AddsOf(acc, class, <<[node EXCEPT !.children = <<@[2], @[1]>>, !.op = 0]>>)

\* x * 1 = x, x + 0 = x, on either side; x - 0 = x on the right.
SidesOf(kind) == IF kind = "sub" THEN <<2>> ELSE <<1, 2>>
Identity(acc, class, node) ==
  LET unit  == IF node.kind = "mul" THEN 1 ELSE 0
      Is(i) == /\ Type(acc.graph, node.children[3 - i]) = Type(acc.graph, class)
               /\ Constant(acc.graph, node.children[i], unit)
      sides == SelectSeq(SidesOf(node.kind), Is)
  IN  MergesOf(acc, class, [i \in DOMAIN sides |-> node.children[3 - sides[i]]])

\* (a + b) + c = a + (b + c), when all are of one type.
Reassociate(acc, class, node) ==
  LET OfType(c) == Type(acc.graph, c) = Type(acc.graph, class)
      Once(a, n) ==
        LET right == Add(a.graph, Derived(node.kind, <<n.children[2], node.children[2]>>,
                                          node.attr, node.type))
        IN  AddsOf([a EXCEPT !.graph = right.graph], class,
                   <<Derived(node.kind, <<n.children[1], right.class>>, node.attr, node.type)>>)
  IN  IF ~(\A i \in 1..2 : OfType(node.children[i])) THEN acc
      ELSE FoldLeft(Once, acc, SelectSeq(Inner(acc, node, node.kind),
                                         LAMBDA n : \A i \in 1..2 : OfType(n.children[i])))

\* a * c + b * c = (a + b) * c, when all are of one type.
Factor(acc, class, node) ==
  LET OfType(c) == Type(acc.graph, c) = Type(acc.graph, class)
      Products(i) == {n \in Range(Nodes(acc.graph, node.children[i])) : n.kind = "mul"}
      common == {<<l, r, i, j>> \in Products(1) \X Products(2) \X (1..2) \X (1..2) :
                   /\ l.children[i] = r.children[j]
                   /\ OfType(l.children[i]) /\ OfType(l.children[3 - i]) /\ OfType(r.children[3 - j])}
      Once(a, m) ==
        LET sum == Add(a.graph, Derived("add", <<m[1].children[3 - m[3]], m[2].children[3 - m[4]]>>,
                                        <<>>, node.type))
        IN  AddsOf([a EXCEPT !.graph = sum.graph], class,
                   <<Derived("mul", <<sum.class, m[1].children[m[3]]>>, <<>>, node.type)>>)
  IN  IF \A i \in 1..2 : OfType(node.children[i]) THEN FoldSet(LAMBDA m, a : Once(a, m), acc, common) ELSE acc

\* What a node's kind and the legality allow, one rule after the other.
RulesFor(kind) ==
  CASE kind = "permute" -> <<"permutes">>
    [] kind = "neg"     -> <<"negation">>
    [] kind = "sub"     -> <<"zero">>
    [] kind = "mul"     -> <<"commutativity", "one", "reassociation">>
    [] kind = "add"     -> <<"commutativity", "zero", "reassociation", "factoring">>
    [] OTHER            -> <<>>

Match(acc, class, node) ==
  LET With(a, rule) ==
        CASE rule = "permutes"         -> ComposePermutes(a, class, node)
          [] rule = "negation"         -> DoubleNegation(a, class, node)
          [] rule = "commutativity"    -> Commute(a, class, node)
          [] rule \in {"one", "zero"}  -> Identity(a, class, node)
          [] rule = "reassociation"    -> Reassociate(a, class, node)
          [] rule = "factoring"        -> Factor(a, class, node)
  IN  FoldLeft(With, acc, SelectSeq(RulesFor(node.kind), Allows))

-----------------------------------------------------------------------------
(* Saturator.run: the terms of the block, then rounds of rules.             *)

Terms == {"const", "add", "sub", "mul", "neg", "permute", "call"}

ClassOf(acc, value) ==
  IF value \in DOMAIN acc.classes THEN [acc EXCEPT !.children = Append(@, acc.classes[value])]
  ELSE LET type  == IF value \in DOMAIN LeafType THEN LeafType[value] ELSE ops[value].type
           added == Add(acc.graph, Derived("leaf", <<>>, <<value>>, type))
       IN  [acc EXCEPT !.graph = added.graph, !.classes = (value :> added.class) @@ @,
                       !.children = Append(@, added.class)]

\* Operations with one result become terms, other than reads.
Term(acc, id) ==
  LET op    == ops[id]
      of    == FoldLeft(ClassOf, [acc EXCEPT !.children = <<>>], op.operands)
      added == Add(of.graph, [kind |-> op.kind, children |-> of.children, attr |-> op.attr,
                              type |-> op.type, op |-> id])
  IN  IF op.kind \notin Terms THEN acc
      ELSE [graph |-> added.graph, classes |-> (id :> added.class) @@ of.classes, children |-> <<>>,
            originals |-> Append(acc.originals, [op |-> id, class |-> added.class])]

Empty == [parent |-> <<>>, types |-> <<>>, nodes |-> <<>>, hashcons |-> <<>>, dirty |-> FALSE]

Collect ==
  /\ pc = "saturate"
  /\ LET all == FoldLeft(Term, [graph |-> Empty, classes |-> <<>>, children |-> <<>>, originals |-> <<>>],
                         block)
     IN  /\ graph' = all.graph /\ classes' = all.classes /\ originals' = all.originals
         /\ pc' = IF all.originals = <<>> THEN "end" ELSE "match"
  /\ round' = 0 /\ altered' = FALSE
  /\ UNCHANGED <<blockVars, found, changed, best>>

\* Finds every match; the terms inside of what is found are added at once.
MatchRound ==
  /\ pc = "match"
  /\ LET ids   == SelectSeq([c \in DOMAIN graph.parent |-> c], LAMBDA c : c \in Roots(graph))
         Of(acc, c) == FoldLeft(LAMBDA a, node : Match(a, c, node), acc, graph.nodes[c])
         all   == FoldLeft(Of, [graph |-> graph, adds |-> <<>>, merges |-> <<>>], ids)
     IN  /\ graph' = all.graph
         /\ found' = [adds |-> all.adds, merges |-> all.merges]
  /\ pc' = "apply"
  /\ UNCHANGED <<blockVars, classes, originals, round, changed, best, altered>>

ApplyRound ==
  /\ pc = "apply"
  /\ LET AddOne(acc, addition) ==
           LET added == Add(acc.graph, addition.node)
               one   == Merge(added.graph, addition.class, added.class)
           IN  [graph |-> one, changed |-> acc.changed \/ one # added.graph]
         MergeOne(acc, pair) ==
           LET one == Merge(acc.graph, pair[1], pair[2])
           IN  [graph |-> one, changed |-> acc.changed \/ one # acc.graph]
         added == FoldLeft(AddOne, [graph |-> graph, changed |-> FALSE], found.adds)
         all   == FoldLeft(MergeOne, added, found.merges)
     IN  graph' = all.graph /\ changed' = all.changed
  /\ found' = [adds |-> <<>>, merges |-> <<>>]
  /\ pc' = "rebuild"
  /\ UNCHANGED <<blockVars, classes, originals, round, best, altered>>

Rebuild ==
  /\ pc = "rebuild"
  /\ graph.dirty
  /\ graph' = Rebuilt(graph)
  /\ UNCHANGED <<blockVars, roundVars, best, pc, altered>>

RoundDone ==
  /\ pc = "rebuild"
  /\ ~graph.dirty
  /\ round' = round + 1
  /\ pc' = IF ~changed \/ NodeCount(graph) > MaxNodes \/ round' = MaxRounds THEN "choose" ELSE "match"
  /\ UNCHANGED <<blockVars, graph, classes, originals, found, changed, best, altered>>

-----------------------------------------------------------------------------
(* Extraction: the cheapest term of each class.                             *)

Weight(kind) ==
  CASE kind = "const" -> 0 [] kind = "permute" -> 4 [] kind = "call" -> 8 [] OTHER -> 2
Count(type) == Extent ^ Rank[type]
NodeCost(node) == IF node.kind = "leaf" THEN 0 ELSE Weight(node.kind) * Count(node.type)

Infinite == 1000000
Total(cost, node) ==
  Min({Infinite, FoldLeft(LAMBDA n, c : n + cost[Find(graph, c)], NodeCost(node), node.children)})

\* The least cost of a term of each class.
Cost ==
  Repeat(LAMBDA cost : [c \in Roots(graph) |-> Min({Total(cost, n) : n \in Range(graph.nodes[c])})] @@ cost,
         [c \in Roots(graph) |-> Infinite], graph.parent)

\* Originals win ties; among others it is the first.
Chosen(cost, class) ==
  LET cheapest == SelectSeq(graph.nodes[class], LAMBDA n : Total(cost, n) = cost[class])
      own      == SelectSeq(cheapest, LAMBDA n : n.op # 0)
  IN  [cost |-> cost[class], node |-> Head(own \o cheapest)]

Choose ==
  /\ pc = "choose"
  /\ best' = LET cost == Cost IN [c \in Roots(graph) |-> Chosen(cost, c)]
  /\ pc' = "extract"
  /\ UNCHANGED <<blockVars, graph, roundVars, altered>>

IsNew(class) == best[class].node.kind # "leaf" /\ best[class].node.op = 0

\* Materializes what the originals' classes need, operands first, and puts each
\* class's value in place of its originals.
Extract ==
  /\ pc = "extract"
  /\ LET wanted == {Find(graph, o.class) : o \in Range(originals)}
         Inside(c) == {Find(graph, child) : child \in Range(best[c].node.children)}
         needed == Repeat(LAMBDA set : set \cup UNION {Inside(c) : c \in {d \in set : IsNew(d)}},
                          wanted, graph.parent)
         Wanted(c) == c \in needed /\ IsNew(c)
         made   == SortSeq(SelectSeq([c \in DOMAIN graph.parent |-> c], Wanted),
                           LAMBDA a, b : best[a].cost < best[b].cost)
         Value(c) == IF best[c].node.kind = "leaf" THEN best[c].node.attr[1]
                     ELSE IF IsNew(c) THEN Len(ops) + IndexIn(made, c) ELSE best[c].node.op
         OpOf(node) == [kind |-> node.kind, attr |-> node.attr, type |-> node.type,
                        operands |-> [i \in DOMAIN node.children |->
                                        Value(Find(graph, node.children[i]))]]
         Replaced(value) ==
           IF \E o \in Range(originals) : o.op = value
           THEN Value(Find(graph, classes[value])) ELSE value
         all    == ops \o [i \in DOMAIN made |-> OpOf(best[made[i]].node)]
     IN  IF \E c \in wanted : best[c].cost = Infinite
         THEN pc' = "failed" /\ UNCHANGED <<ops, block, altered>>
         ELSE /\ ops' = [i \in DOMAIN all |-> [all[i] EXCEPT
                  !.operands = [k \in DOMAIN all[i].operands |-> Replaced(all[i].operands[k])]]]
              /\ block' = block \o [i \in DOMAIN made |-> Len(ops) + i]
              /\ altered' = (\E o \in Range(originals) : Replaced(o.op) # o.op)
              /\ pc' = IF altered' THEN "reorder" ELSE "end"
  /\ UNCHANGED <<allowed, source, saturationVars>>

\* State reads and writes keep their order.
EffectsNone == {}       \* mutant: effects are ordered by what they use only
Effects == {"read", "write"}

Dependencies(id) ==
  LET before == SelectSeq(SubSeq(block, 1, IndexIn(block, id) - 1), LAMBDA i : ops[i].kind \in Effects)
  IN  (Range(ops[id].operands) \cap Range(block))
      \cup (IF ops[id].kind \in Effects /\ before # <<>> THEN {Last(before)} ELSE {})

\* What can be placed is, in the order it was in; the terminator comes last.
Placed(acc) ==
  FoldLeft(LAMBDA a, id : IF Dependencies(id) \subseteq Range(a.order)
                          THEN [a EXCEPT !.order = Append(@, id)]
                          ELSE [a EXCEPT !.left = Append(@, id)],
           [acc EXCEPT !.left = <<>>], acc.left)

Reorder ==
  /\ pc = "reorder"
  /\ LET Is(id) == ops[id].kind = "return"
         all    == Repeat(Placed, [order |-> <<>>, left |-> SelectSeq(block, LAMBDA id : ~Is(id))], block)
     IN  /\ block' = all.order \o SelectSeq(block, Is)
         /\ pc' = IF all.left = <<>> THEN "end" ELSE "failed"
  /\ UNCHANGED <<allowed, source, ops, saturationVars, altered>>

Saturate ==
  Collect \/ MatchRound \/ ApplyRound \/ Rebuild \/ RoundDone \/ Choose \/ Extract \/ Reorder

-----------------------------------------------------------------------------
\* Between rebuilds every node lives in its root class with canonical children,
\* equal terms share one class, and the term table leads to it: what the matches,
\* the deduplication of new terms and the extraction rely on (EGraph::rebuild).
CongruenceClosed ==
  ~graph.dirty =>
    \A c \in DOMAIN graph.parent : \A node \in Range(graph.nodes[c]) :
      /\ Find(graph, c) = c
      /\ node = Canonical(graph, node)
      /\ graph.hashcons[Key(graph, node)] = c
=============================================================================
