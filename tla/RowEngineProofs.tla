--------------------------- MODULE RowEngineProofs ---------------------------
(***************************************************************************)
(* The engine without pages keeps the promise of Batching, and each token   *)
(* it reads was drawn from its request's own text, however many requests    *)
(* there are and however the prompts are sorted, shared and grouped.        *)
(***************************************************************************)
EXTENDS RowEngine, LinesProofs, TLAPS

Place == [slot : Slot, req : Request]
Text == Seq(Token) \cup {Junk}
Draw == [slot : Slot, req : Request, token : Token, key : Request, text : Text, prompt : BOOLEAN]
Cell == 0..(MaxSeq - 1)

Rowed == {rows[s] : s \in InUse}

\* Passes that have the places of a set, each once.
Parts(batches, S) ==
  /\ batches \in Seq(Seq(Place))
  /\ \A i \in 1..Len(batches) : Once(batches[i])
  /\ \A i, j \in 1..Len(batches) : i # j => Range(batches[i]) \cap Range(batches[j]) = {}
  /\ UNION {Range(batches[i]) : i \in 1..Len(batches)} = S

\* The places whose prompts are still to pass: the leads, and those that share theirs.
Passing == UNION {Range(passes[i]) : i \in 1..Len(passes)}
Leading == Range(mixed) \cup Passing
Shared(leads) == UNION {Range(Sharers(p)) : p \in leads}
Due == Leading \cup Shared(Leading)

-----------------------------------------------------------------------------
(* The invariant.                                                           *)

Types ==
  /\ pack \in Packs
  /\ submitted \in Seq(Request) /\ waiting \in Seq(Request) /\ running \in Seq(Request)
  /\ tokens \in [Request -> Seq(Token)]
  /\ reason \in [Request -> {"", "eos", "length", "cache", "cancelled"}]
  /\ rows \in [Slot -> Request \cup {None}] /\ positions \in [Slot -> Nat]
  /\ reading \in Seq(Draw) /\ queued \in Seq(Seq(Draw)) /\ ahead \in Nat
  /\ pc \in {"idle", "admit", "pass", "mix", "decode", "read"}
  /\ admitted \in Seq(Request) /\ passes \in Seq(Seq(Place)) /\ mixed \in Seq(Place)
  /\ devPos \in [Slot -> Cell] /\ devTok \in [Slot -> Token \cup {Junk}] /\ devKey = rows
  /\ cache \in [Slot -> [Cell -> Text]]

\* Who is submitted and has not ended waits or runs.
Line ==
  /\ Once(submitted) /\ Once(waiting) /\ Once(running) /\ Once(admitted)
  /\ Range(waiting) \cap Range(running) = {}
  /\ Range(waiting) \cup Range(running) = {r \in Range(submitted) : reason[r] = ""}
  /\ \A r \in Request \ Range(submitted) : reason[r] = ""

\* Who runs has a row, or is to get one in this step.
Seats ==
  /\ \A s, t \in InUse : rows[s] = rows[t] => s = t
  /\ Range(running) = Rowed \cup Range(admitted) \cup {p.req : p \in Due}
  /\ Rowed \cap Range(admitted) = {}
  /\ Len(admitted) <= Cardinality(FreeSlots)

\* What each step of `step` leaves.
Steps ==
  /\ pc # "admit" => admitted = <<>>
  /\ pc # "pass" => passes = <<>>
  /\ pc \notin {"pass", "mix"} => mixed = <<>>
  /\ pc # "read" => reading = <<>>

\* The places of the prompts still to pass: each is one pass's, or shares the prompt
\* of one place of a pass.
Planned ==
  /\ \A p \in Due : p \in Place /\ rows[p.slot] = None /\ p.req \notin Rowed
  /\ \A p, q \in Due : p.slot = q.slot \/ p.req = q.req => p = q
Disjoint ==
  /\ Once(mixed) /\ Parts(passes, Passing) /\ Range(mixed) \cap Passing = {}
  /\ pack = 0 => Len(passes) <= 1 /\ \A i \in 1..Len(passes) : passes[i] # <<>>
Sharing ==
  /\ \A p \in Leading :
       /\ Sharers(p) \in Seq(Place) /\ Once(Sharers(p)) /\ Range(Sharers(p)) \cap Leading = {}
       /\ \A q \in Range(Sharers(p)) : Prompt[q.req] = Prompt[p.req]
  /\ \A p, q \in Leading : p # q => Range(Sharers(p)) \cap Range(Sharers(q)) = {}
Plan == Planned /\ Disjoint /\ Sharing

\* A pass draws a token for a request at most once, and of a request that has not
\* ended, for its row.
DrawnOnce(pass) == \A i, j \in 1..Len(pass) : pass[i].req = pass[j].req => i = j
DrawnInRow(pass) == \A i \in 1..Len(pass) : reason[pass[i].req] = "" => rows[pass[i].slot] = pass[i].req
Drawn ==
  /\ DrawnOnce(reading) /\ DrawnInRow(reading)
  /\ \A k \in 1..Len(queued) : DrawnOnce(queued[k]) /\ DrawnInRow(queued[k])

\* A request that has not ended has its budget, and a position, left; the host knows
\* the last position of its row.
Going ==
  /\ \A r \in Request : reason[r] = "" =>
       \/ tokens[r] = <<>>
       \/ Len(tokens[r]) < MaxNew[r] /\ Len(Prompt[r]) + Len(tokens[r]) < MaxSeq
  /\ \A r \in Request : reason[r] = "" /\ r \notin Rowed => tokens[r] = <<>>
  /\ \A s \in InUse : tokens[rows[s]] # <<>> =>
       positions[s] = Len(Prompt[rows[s]]) + Len(tokens[rows[s]]) - 1

\* A text whose next token may be of use: the prompt, or one within its budget and
\* the cache.
OnTrack(r, text) ==
  \/ text = Prompt[r]
  \/ Len(text) - Len(Prompt[r]) < MaxNew[r] /\ Len(text) <= MaxSeq

\* What a pass not read adds to a request's text, drawn from that text.
Adds(r, pass, before, after) ==
  /\ ~Draws(pass, r) => after = before
  /\ \A j \in 1..Len(pass) : pass[j].req = r =>
       /\ after = Append(before, pass[j].token)
       /\ pass[j].prompt <=> before = Prompt[r]
       /\ OnTrack(r, before) => pass[j].text = before /\ pass[j].key = r

\* A request's text grows pass by pass.
Grows(r, line, f) ==
  /\ f \in [0..Len(line) -> Seq(Token)]
  /\ \A k \in 1..Len(line) : Adds(r, line[k], f[k - 1], f[k])

\* The row of a request holds its text but for the last token, from which it steps.
Holds(row, text) == \A i \in 0..(Len(text) - 2) : row[i] = SubSeq(text, 1, i + 1)
Stands(s, text) ==
  /\ Len(text) > Len(Prompt[rows[s]])
  /\ OnTrack(rows[s], text) =>
       devPos[s] = Len(text) - 1 /\ devTok[s] = text[Len(text)] /\ Holds(cache[s], text)

\* It has grown from what is read by the passes that are not.
Whole(s, f) ==
  /\ Adds(rows[s], reading, Prompt[rows[s]] \o tokens[rows[s]], f[0])
  /\ Grows(rows[s], queued, f)
  /\ Stands(s, f[Len(queued)])
Texts == \A s \in InUse : \E f : Whole(s, f)

IInv == Types /\ Line /\ Seats /\ Steps /\ Plan /\ Drawn /\ Going /\ Texts

-----------------------------------------------------------------------------
(* Slots in order, and sequences in the order of a key.                      *)

\* Free slots in order: each once.
LEMMA SlotsInOrder ==
  ASSUME NEW S \in SUBSET Slot
  PROVE  /\ IsFiniteSet(S) /\ Cardinality(S) \in Nat
         /\ InOrder(S) \in Seq(S) /\ Len(InOrder(S)) = Cardinality(S)
         /\ Once(InOrder(S)) /\ Range(InOrder(S)) = S
<1> DEFINE n == Cardinality(S)  below(s) == {t \in S : t < s}  upto(s) == {t \in S : t <= s}
           At1(k) == CHOOSE s \in S : Cardinality(below(s)) = k - 1
<1>1. NSlots \in Nat
  BY RowEngineAssumption
<1>2. IsFiniteSet(S) /\ S \in SUBSET Nat
  <2>1. IsFiniteSet(1..NSlots) /\ S \in SUBSET (1..NSlots)
    BY <1>1, FS_Interval DEF Slot
  <2>2. S \in SUBSET Nat
    BY <2>1
  <2> QED
    BY <2>1, <2>2, FS_Subset
<1>3. /\ n \in Nat /\ \A s \in S : UpTo(S, s) \in 1..n
      /\ \A k \in 1..n : \E s \in S : UpTo(S, s) = k
  BY <1>2, Ranks
<1>4. ASSUME NEW s \in S
      PROVE  Cardinality(below(s)) = UpTo(S, s) - 1
  <2>1. upto(s) = below(s) \cup {s} /\ s \notin below(s)
    <3>1. \A t \in S : t \in Nat /\ (t <= s <=> t < s \/ t = s)
      BY <1>2
    <3>2. ~(s < s)
      BY <1>2
    <3> QED
      BY <3>1, <3>2
  <2>2. IsFiniteSet(below(s))
    BY <1>2, FS_Subset
  <2>3. Cardinality(upto(s)) = Cardinality(below(s)) + 1 /\ Cardinality(below(s)) \in Nat
    <3> HIDE DEF below, upto
    <3> QED
      BY <2>1, <2>2, FS_AddElement, FS_CardinalityType
  <2> QED
    BY <2>3 DEF UpTo
<1> HIDE DEF n
<1>5. ASSUME NEW k \in 1..n
      PROVE  At1(k) \in S /\ UpTo(S, At1(k)) = k
  <2>1. PICK s \in S : UpTo(S, s) = k
    BY <1>3
  <2>2. Cardinality(below(s)) = k - 1
    BY <1>4, <2>1
  <2> HIDE DEF below
  <2>3. At1(k) \in S /\ Cardinality(below(At1(k))) = k - 1
    BY <2>2
  <2> HIDE DEF At1
  <2>4. UpTo(S, At1(k)) - 1 = k - 1 /\ UpTo(S, At1(k)) \in Nat /\ k \in Nat
    BY <1>3, <1>4, <2>3
  <2> QED
    BY <2>3, <2>4
<1>6. InOrder(S) = [k \in 1..n |-> At1(k)]
  BY DEF InOrder, n
<1> DEFINE o == InOrder(S)
<1> HIDE DEF At1, o
<1>7. o \in Seq(S) /\ Len(o) = n /\ \A k \in 1..n : o[k] = At1(k)
  BY <1>3, <1>5, <1>6 DEF o
<1>8. Once(o)
  <2>1. \A i, j \in 1..n : o[i] = o[j] => i = j
    BY <1>5, <1>7
  <2> QED
    BY <1>7, <2>1, OnceOfLine
<1>9. ASSUME NEW s \in S
      PROVE  s \in Range(o)
  <2>1. UpTo(S, s) \in 1..n
    BY <1>3
  <2> DEFINE t == At1(UpTo(S, s))
  <2>2. t \in S /\ UpTo(S, t) = UpTo(S, s)
    BY <1>5, <2>1
  <2>3. t = s
    <3> HIDE DEF t
    <3>1. s \in Nat /\ t \in Nat /\ UpTo(S, s) \in Nat
      BY <1>2, <2>1, <2>2
    <3>2. \A a, b \in S : a < b => UpTo(S, a) < UpTo(S, b)
      BY <1>2, Ranks
    <3>3. ~(UpTo(S, s) < UpTo(S, s))
      BY <3>1
    <3>4. ~(s < t) /\ ~(t < s)
      BY <2>2, <3>2, <3>3
    <3> QED
      BY <3>1, <3>4
  <2>4. o[UpTo(S, s)] = s
    BY <1>7, <2>1, <2>3
  <2> QED
    BY <1>7, <2>1, <2>4, RangeOfLine
<1>10. Range(o) = S
  BY <1>7, <1>9, RangeOfLine
<1> QED
  BY <1>2, <1>3, <1>7, <1>8, <1>10 DEF o, n

\* The places before i, by their keys and then by their order.
BeforeIn(n, key, i) == {j \in 1..n : key[j] < key[i] \/ (key[j] = key[i] /\ j < i)}

\* There is one with k before it.
LEMMA KeyRanks ==
  ASSUME NEW n \in Nat, NEW key \in [1..n -> Int], NEW k \in 1..n
  PROVE  \E i \in 1..n : Cardinality(BeforeIn(n, key, i)) = k - 1
<1> DEFINE before(i) == BeforeIn(n, key, i)
           rank == [i \in 1..n |-> Cardinality(before(i)) + 1]
<1>1. IsFiniteSet(1..n) /\ Cardinality(1..n) = n
  <2>1. 1 \in Int /\ n \in Int /\ (1 > n => n = 0)
    OBVIOUS
  <2>2. IsFiniteSet(1..n) /\ Cardinality(1..n) = IF 1 > n THEN 0 ELSE n - 1 + 1
    BY FS_Interval
  <2> QED
    BY <2>1, <2>2
<1>2. \A i \in 1..n : before(i) \in SUBSET (1..n) /\ i \notin before(i)
  BY DEF BeforeIn
<1>3. ASSUME NEW i \in 1..n, NEW j \in 1..n, i \in before(j)
      PROVE  before(i) \in SUBSET before(j)
  <2> SUFFICES ASSUME NEW h \in before(i)
               PROVE  h \in before(j)
    OBVIOUS
  <2>1. h \in 1..n /\ (key[h] < key[i] \/ (key[h] = key[i] /\ h < i))
        /\ (key[i] < key[j] \/ (key[i] = key[j] /\ i < j))
    BY <1>3 DEF BeforeIn
  <2>2. key[h] \in Int /\ key[i] \in Int /\ key[j] \in Int
    BY <2>1
  <2>3. key[h] < key[j] \/ (key[h] = key[j] /\ h < j)
    BY <2>1, <2>2
  <2> QED
    BY <2>1, <2>3 DEF BeforeIn
<1>4. \A i, j \in 1..n : i # j => i \in before(j) \/ j \in before(i)
  <2> SUFFICES ASSUME NEW i \in 1..n, NEW j \in 1..n, i # j, i \notin before(j)
               PROVE  j \in before(i)
    OBVIOUS
  <2>1. key[i] \in Int /\ key[j] \in Int /\ ~(key[i] < key[j]) /\ ~(key[i] = key[j] /\ i < j)
    BY DEF BeforeIn
  <2>2. key[j] < key[i] \/ (key[j] = key[i] /\ j < i)
    BY <2>1
  <2> QED
    BY <2>2 DEF BeforeIn
<1> HIDE DEF before
<1>5. \A i \in 1..n : IsFiniteSet(before(i)) /\ Cardinality(before(i)) \in Nat
  BY <1>1, <1>2, FS_Subset, FS_CardinalityType
<1>6. ASSUME NEW i \in 1..n, NEW j \in 1..n, i \in before(j)
      PROVE  Cardinality(before(i)) < Cardinality(before(j))
  <2>1. before(i) \in SUBSET before(j) /\ before(i) # before(j) /\ IsFiniteSet(before(j))
    BY <1>2, <1>3, <1>5, <1>6
  <2>2. Cardinality(before(i)) <= Cardinality(before(j)) /\ Cardinality(before(i)) # Cardinality(before(j))
    BY <2>1, FS_Subset
  <2>3. Cardinality(before(i)) \in Nat /\ Cardinality(before(j)) \in Nat
    BY <1>5
  <2> QED
    BY <2>2, <2>3
<1>7. rank \in [1..n -> 1..n]
  <2> SUFFICES ASSUME NEW i \in 1..n
               PROVE  Cardinality(before(i)) + 1 \in 1..n
    OBVIOUS
  <2>1. Cardinality(before(i)) <= n /\ (before(i) # 1..n => Cardinality(before(i)) # n)
    BY <1>1, <1>2, FS_Subset
  <2>2. before(i) # 1..n
    BY <1>2
  <2> QED
    BY <1>5, <2>1, <2>2
<1>8. \A i, j \in 1..n : rank[i] = rank[j] => i = j
  <2> SUFFICES ASSUME NEW i \in 1..n, NEW j \in 1..n, i # j
               PROVE  rank[i] # rank[j]
    OBVIOUS
  <2>1. Cardinality(before(i)) # Cardinality(before(j))
    BY <1>4, <1>5, <1>6
  <2>2. Cardinality(before(i)) \in Nat /\ Cardinality(before(j)) \in Nat
    BY <1>5
  <2> QED
    BY <2>1, <2>2
<1>9. rank \in Surjection(1..n, 1..n)
  <2> HIDE DEF rank
  <2>1. rank \in Injection(1..n, 1..n)
    BY <1>7, <1>8 DEF Injection, IsInjective
  <2> QED
    BY <1>1, <2>1, FS_Injection
<1>10. PICK i \in 1..n : rank[i] = k
  <2> HIDE DEF rank
  <2> QED
    BY <1>9 DEF Surjection
<1>11. Cardinality(before(i)) + 1 = k /\ Cardinality(before(i)) \in Nat
  BY <1>5, <1>10
<1>12. Cardinality(before(i)) = k - 1
  BY <1>11
<1> QED
  BY <1>12 DEF before

\* Elements taken from places that differ are those of the sequence.
Taken(seq, nth) == [k \in 1..Len(seq) |-> seq[nth[k]]]

\* A line in another order has what it had.
LEMMA Rearranged ==
  ASSUME NEW S, NEW seq \in Seq(S), NEW nth \in [1..Len(seq) -> 1..Len(seq)],
         \A i, j \in 1..Len(seq) : nth[i] = nth[j] => i = j
  PROVE  /\ Taken(seq, nth) \in Seq(S) /\ Len(Taken(seq, nth)) = Len(seq)
         /\ Range(Taken(seq, nth)) = Range(seq)
         /\ Once(seq) => Once(Taken(seq, nth))
<1> DEFINE n == Len(seq)  out == Taken(seq, nth)
<1>1. n \in Nat /\ \A i \in 1..n : seq[i] \in S
  OBVIOUS
<1>2. IsFiniteSet(1..n) /\ Cardinality(1..n) = Cardinality(1..n)
  BY <1>1, FS_Interval
<1> HIDE DEF n
<1>3. nth \in Surjection(1..n, 1..n)
  <2>1. nth \in Injection(1..n, 1..n)
    BY DEF Injection, IsInjective, n
  <2> QED
    BY <1>2, <2>1, FS_Injection
<1>4. out \in Seq(S) /\ Len(out) = n /\ (\A k \in 1..n : out[k] = seq[nth[k]] /\ nth[k] \in 1..n)
  <2>1. \A k \in 1..n : nth[k] \in 1..n /\ seq[nth[k]] \in S
    BY <1>1 DEF n
  <2>2. out = [k \in 1..n |-> seq[nth[k]]] /\ n \in Nat
    BY <1>1 DEF n, Taken
  <2>3. out \in Seq(S) /\ Len(out) = n
    BY <2>1, <2>2
  <2>4. \A k \in 1..n : out[k] = seq[nth[k]]
    BY <2>2
  <2> QED
    BY <2>1, <2>3, <2>4
<1> HIDE DEF out
<1>8. /\ \A x \in Range(out) : \E k \in 1..n : out[k] = x
      /\ \A k \in 1..n : out[k] \in Range(out)
  <2>1. /\ \A x \in Range(out) : \E k \in 1..Len(out) : out[k] = x
        /\ \A k \in 1..Len(out) : out[k] \in Range(out)
    BY <1>4, RangeOfLine
  <2> QED
    BY <1>4, <2>1
<1>9. /\ \A x \in Range(seq) : \E k \in 1..n : seq[k] = x
      /\ \A k \in 1..n : seq[k] \in Range(seq)
  BY RangeOfLine DEF n
<1>5. Range(out) \subseteq Range(seq)
  <2> SUFFICES ASSUME NEW x \in Range(out)
               PROVE  x \in Range(seq)
    OBVIOUS
  <2>1. PICK k \in 1..n : out[k] = x
    BY <1>8
  <2>2. nth[k] \in 1..n /\ x = seq[nth[k]]
    BY <1>4, <2>1
  <2> QED
    BY <1>9, <2>2
<1>6. ASSUME NEW x \in Range(seq)
      PROVE  x \in Range(out)
  <2>1. PICK i \in 1..n : seq[i] = x
    BY <1>9
  <2>2. PICK k \in 1..n : nth[k] = i
    BY <1>3 DEF Surjection
  <2> QED
    BY <1>4, <1>8, <2>1, <2>2
<1>7. Once(seq) => Once(out)
  <2> SUFFICES ASSUME Once(seq), NEW i \in 1..n, NEW j \in 1..n, out[i] = out[j]
               PROVE  i = j
    <3>1. Once(out) <=> \A i, j \in 1..Len(out) : out[i] = out[j] => i = j
      BY <1>4, OnceOfLine
    <3> QED
      BY <1>4, <3>1
  <2>1. nth[i] = nth[j]
    <3>1. \A a, b \in 1..n : seq[a] = seq[b] => a = b
      BY OnceOfLine DEF n
    <3>2. nth[i] \in 1..n /\ nth[j] \in 1..n /\ seq[nth[i]] = seq[nth[j]]
      BY <1>4
    <3> QED
      BY <3>1, <3>2
  <2> QED
    BY <2>1 DEF n
<1> QED
  BY <1>4, <1>5, <1>6, <1>7 DEF n, out

\* The requests by the lengths of their prompts: the same requests.
LEMMA ShortestFirst ==
  ASSUME NEW seq \in Seq(Request)
  PROVE  /\ ByKey(seq, Shortest) \in Seq(Request) /\ Len(ByKey(seq, Shortest)) = Len(seq)
         /\ Range(ByKey(seq, Shortest)) = Range(seq)
         /\ Once(seq) => Once(ByKey(seq, Shortest))
<1> DEFINE n == Len(seq)
           key == [i \in 1..n |-> Shortest(seq[i])]
           Before(i) == {j \in DOMAIN seq : \/ Shortest(seq[j]) < Shortest(seq[i])
                                            \/ Shortest(seq[j]) = Shortest(seq[i]) /\ j < i}
           nth == [k \in 1..n |-> CHOOSE i \in DOMAIN seq : Cardinality(Before(i)) = k - 1]
<1>1. n \in Nat /\ DOMAIN seq = 1..n /\ \A i \in 1..n : seq[i] \in Request
  OBVIOUS
<1>2. key \in [1..n -> Int]
  BY <1>1, RowEngineAssumption DEF Shortest
<1>3. \A i \in 1..n : Before(i) = BeforeIn(n, key, i)
  BY <1>1 DEF BeforeIn
<1>4. ByKey(seq, Shortest) = [k \in 1..n |-> seq[nth[k]]]
  <2>1. ByKey(seq, Shortest) = [k \in DOMAIN seq |-> seq[CHOOSE i \in DOMAIN seq : Cardinality(Before(i)) = k - 1]]
    BY DEF ByKey
  <2> HIDE DEF Before
  <2>2. \A k \in 1..n : nth[k] = CHOOSE i \in DOMAIN seq : Cardinality(Before(i)) = k - 1
    OBVIOUS
  <2> HIDE DEF nth
  <2> QED
    BY <1>1, <2>1, <2>2
<1> HIDE DEF Before, key
<1>5. \A k \in 1..n : nth[k] \in 1..n /\ Cardinality(Before(nth[k])) = k - 1
  <2> SUFFICES ASSUME NEW k \in 1..n
               PROVE  nth[k] \in 1..n /\ Cardinality(Before(nth[k])) = k - 1
    OBVIOUS
  <2>1. \E i \in 1..n : Cardinality(BeforeIn(n, key, i)) = k - 1
    BY <1>1, <1>2, KeyRanks
  <2> QED
    BY <1>1, <1>3, <2>1
<1> DEFINE to == nth
<1>6. to \in [1..n -> 1..n] /\ \A i, j \in 1..n : to[i] = to[j] => i = j
  <2>1. to \in [1..n -> 1..n]
    BY <1>5
  <2> HIDE DEF to
  <2>2. \A i, j \in 1..n : to[i] = to[j] => i - 1 = j - 1
    BY <1>5 DEF to
  <2> QED
    BY <2>1, <2>2
<1> HIDE DEF nth, to
<1> DEFINE out == Taken(seq, to)
<1>7. ByKey(seq, Shortest) = out
  BY <1>4 DEF to, Taken
<1>8. /\ out \in Seq(Request) /\ Len(out) = Len(seq) /\ Range(out) = Range(seq)
      /\ Once(seq) => Once(out)
  BY <1>6, Rearranged
<1> HIDE DEF out
<1> QED
  BY <1>7, <1>8, Zenon

\* The places by the lengths of their prompts: the same places.
LEMMA LongestFirst ==
  ASSUME NEW seq \in Seq(Place)
  PROVE  /\ ByKey(seq, Longest) \in Seq(Place) /\ Len(ByKey(seq, Longest)) = Len(seq)
         /\ Range(ByKey(seq, Longest)) = Range(seq)
         /\ Once(seq) => Once(ByKey(seq, Longest))
<1> DEFINE n == Len(seq)
           key == [i \in 1..n |-> Longest(seq[i])]
           Before(i) == {j \in DOMAIN seq : \/ Longest(seq[j]) < Longest(seq[i])
                                            \/ Longest(seq[j]) = Longest(seq[i]) /\ j < i}
           nth == [k \in 1..n |-> CHOOSE i \in DOMAIN seq : Cardinality(Before(i)) = k - 1]
<1>1. n \in Nat /\ DOMAIN seq = 1..n /\ \A i \in 1..n : seq[i] \in Place
  OBVIOUS
<1>2. key \in [1..n -> Int]
  <2>1. \A i \in 1..n : seq[i].req \in Request
    BY <1>1 DEF Place
  <2> QED
    BY <2>1, RowEngineAssumption DEF Longest, Length
<1>3. \A i \in 1..n : Before(i) = BeforeIn(n, key, i)
  BY <1>1 DEF BeforeIn
<1>4. ByKey(seq, Longest) = [k \in 1..n |-> seq[nth[k]]]
  <2>1. ByKey(seq, Longest) = [k \in DOMAIN seq |-> seq[CHOOSE i \in DOMAIN seq : Cardinality(Before(i)) = k - 1]]
    BY DEF ByKey
  <2> HIDE DEF Before
  <2>2. \A k \in 1..n : nth[k] = CHOOSE i \in DOMAIN seq : Cardinality(Before(i)) = k - 1
    OBVIOUS
  <2> HIDE DEF nth
  <2> QED
    BY <1>1, <2>1, <2>2
<1> HIDE DEF Before, key
<1>5. \A k \in 1..n : nth[k] \in 1..n /\ Cardinality(Before(nth[k])) = k - 1
  <2> SUFFICES ASSUME NEW k \in 1..n
               PROVE  nth[k] \in 1..n /\ Cardinality(Before(nth[k])) = k - 1
    OBVIOUS
  <2>1. \E i \in 1..n : Cardinality(BeforeIn(n, key, i)) = k - 1
    BY <1>1, <1>2, KeyRanks
  <2> QED
    BY <1>1, <1>3, <2>1
<1> DEFINE to == nth
<1>6. to \in [1..n -> 1..n] /\ \A i, j \in 1..n : to[i] = to[j] => i = j
  <2>1. to \in [1..n -> 1..n]
    BY <1>5
  <2> HIDE DEF to
  <2>2. \A i, j \in 1..n : to[i] = to[j] => i - 1 = j - 1
    BY <1>5 DEF to
  <2> QED
    BY <2>1, <2>2
<1> HIDE DEF nth, to
<1> DEFINE out == Taken(seq, to)
<1>7. ByKey(seq, Longest) = out
  BY <1>4 DEF to, Taken
<1>8. /\ out \in Seq(Place) /\ Len(out) = Len(seq) /\ Range(out) = Range(seq)
      /\ Once(seq) => Once(out)
  BY <1>6, Rearranged
<1> HIDE DEF out
<1> QED
  BY <1>7, <1>8, Zenon

-----------------------------------------------------------------------------
(* What a step arranges.                                                    *)

\* The requests admitted in places of their own, in slots that are free.
LEMMA PlacedApart ==
  ASSUME Types, Once(admitted), Len(admitted) <= Cardinality(FreeSlots)
  PROVE  /\ Placed \in Seq(Place) /\ Once(Placed)
         /\ {p.req : p \in Range(Placed)} = Range(admitted)
         /\ \A p \in Range(Placed) : p.slot \in FreeSlots
         /\ \A p, q \in Range(Placed) : p.slot = q.slot \/ p.req = q.req => p = q
<1> DEFINE short == ByKey(admitted, Shortest)  n == Len(admitted)  order == InOrder(FreeSlots)
           out == Placed
<1>1. /\ short \in Seq(Request) /\ Len(short) = n /\ Range(short) = Range(admitted) /\ Once(short)
      /\ n \in Nat
  <2>1. admitted \in Seq(Request)
    BY DEF Types
  <2>2. n \in Nat
    BY <2>1
  <2> QED
    BY <2>1, <2>2, ShortestFirst
<1>2. /\ order \in Seq(FreeSlots) /\ Len(order) = Cardinality(FreeSlots) /\ Once(order)
      /\ FreeSlots \subseteq Slot /\ Cardinality(FreeSlots) \in Nat
  <2>1. FreeSlots \in SUBSET Slot
    BY DEF FreeSlots
  <2> QED
    BY <2>1, SlotsInOrder
<1>3. out = [i \in DOMAIN short |-> [slot |-> order[i], req |-> short[i]]]
  BY DEF Placed
<1> HIDE DEF short, order, out
<1>4. /\ \A i \in 1..n : order[i] \in FreeSlots /\ short[i] \in Request /\ i \in 1..Len(order)
      /\ \A i, j \in 1..n : order[i] = order[j] \/ short[i] = short[j] => i = j
  <2>1. \A i \in 1..n : i \in 1..Len(order) /\ i \in 1..Len(short)
    BY <1>1, <1>2
  <2>2. \A i, j \in 1..Len(order) : order[i] = order[j] => i = j
    BY <1>2, OnceOfLine
  <2>3. \A i, j \in 1..Len(short) : short[i] = short[j] => i = j
    BY <1>1, OnceOfLine
  <2> QED
    BY <1>1, <1>2, <2>1, <2>2, <2>3
<1>5. /\ out \in Seq(Place) /\ Len(out) = n
      /\ \A i \in 1..n : out[i].slot = order[i] /\ out[i].req = short[i]
  <2>1. DOMAIN short = 1..n
    BY <1>1
  <2>2. \A i \in 1..n : [slot |-> order[i], req |-> short[i]] \in Place
    BY <1>2, <1>4 DEF Place
  <2> QED
    BY <1>1, <1>3, <2>1, <2>2
<1>6. /\ \A i \in 1..n : out[i] \in Range(out)
      /\ \A p \in Range(out) : \E i \in 1..n : out[i] = p
  BY <1>5, RangeOfLine
<1>7. \A p, q \in Range(out) : p.slot = q.slot \/ p.req = q.req => p = q
  BY <1>4, <1>5, <1>6
<1>8. Once(out)
  BY <1>4, <1>5, OnceOfLine
<1>9. {p.req : p \in Range(out)} = Range(admitted)
  <2>1. /\ \A x \in Range(short) : \E i \in 1..n : short[i] = x
        /\ \A i \in 1..n : short[i] \in Range(short)
    BY <1>1, RangeOfLine
  <2> QED
    BY <1>1, <1>5, <1>6, <2>1
<1>10. \A p \in Range(out) : p.slot \in FreeSlots
  BY <1>4, <1>5, <1>6
<1> QED
  BY <1>5, <1>7, <1>8, <1>9, <1>10 DEF out

\* The lead of a place is the first with its prompt: one for each prompt.
LEMMA LeadOfPrompt ==
  ASSUME NEW places \in Seq(Place), NEW i \in 1..Len(places)
  PROVE  /\ LeadOf(places, i) \in Range(places)
         /\ Prompt[LeadOf(places, i).req] = Prompt[places[i].req]
         /\ \A j \in 1..Len(places) : Prompt[places[j].req] = Prompt[places[i].req] =>
              LeadOf(places, j) = LeadOf(places, i)
<1> DEFINE n == Len(places)
           P(j) == Prompt[places[j].req]
           First(j, k) == P(j) = P(k) /\ \A h \in 1..(j - 1) : P(h) # P(k)
           pick(k) == CHOOSE j \in DOMAIN places : First(j, k)
<1>1. n \in Nat /\ DOMAIN places = 1..n
  OBVIOUS
<1>2. \A k : LeadOf(places, k) = places[pick(k)]
  BY DEF LeadOf
<1> HIDE DEF P
<1>3. ASSUME NEW k \in 1..n
      PROVE  pick(k) \in 1..n /\ First(pick(k), k)
  <2> DEFINE same == {j \in 1..n : P(j) = P(k)}
  <2>1. k \in same /\ same \in SUBSET Nat
    OBVIOUS
  <2>2. PICK j \in same : \A h \in same : j <= h
    BY <2>1, LeastElement
  <2>3. \A h \in 1..(j - 1) : h \in 1..n /\ ~(j <= h)
    BY <1>1, <2>2
  <2>4. First(j, k) /\ j \in DOMAIN places
    BY <1>1, <2>2, <2>3
  <2> HIDE DEF First
  <2>5. \E h \in DOMAIN places : First(h, k)
    BY <2>4
  <2> QED
    BY <1>1, <2>5
<1>4. ASSUME NEW j \in 1..n, P(j) = P(i)
      PROVE  pick(j) = pick(i)
  <2> DEFINE a == pick(i)  b == pick(j)
  <2>1. a \in 1..n /\ b \in 1..n /\ First(a, i) /\ First(b, j)
    BY <1>3
  <2> HIDE DEF a, b
  <2>2. P(a) = P(i) /\ P(b) = P(i)
    BY <1>4, <2>1
  <2>3. ~(a < b) /\ ~(b < a)
    <3>1. a < b => a \in 1..(b - 1)
      BY <2>1
    <3>2. b < a => b \in 1..(a - 1)
      BY <2>1
    <3> QED
      BY <1>4, <2>1, <2>2, <3>1, <3>2
  <2>4. a = b
    BY <2>1, <2>3
  <2> QED
    BY <2>4 DEF a, b
<1> HIDE DEF pick
<1>5. places[pick(i)] \in Range(places)
  BY <1>3, RangeOfLine
<1>6. P(pick(i)) = P(i)
  BY <1>3
<1> QED
  BY <1>2, <1>4, <1>5, <1>6 DEF P

\* The leads are places, one for each prompt.
LEMMA LeadsApart ==
  ASSUME NEW places \in Seq(Place), Once(places)
  PROVE  /\ LeadSet(places) \subseteq Range(places)
         /\ Leads(places) \in Seq(Place) /\ Once(Leads(places)) /\ Range(Leads(places)) = LeadSet(places)
<1>1. LeadSet(places) \subseteq Range(places)
  <2>1. DOMAIN places = 1..Len(places)
    OBVIOUS
  <2> QED
    BY <2>1, LeadOfPrompt DEF LeadSet
<1>2. /\ Only(places, LeadSet(places)) \in Seq(Place \cap LeadSet(places))
      /\ Range(Only(places, LeadSet(places))) = Range(places) \cap LeadSet(places)
      /\ Once(Only(places, LeadSet(places)))
  BY OnlyRange, OnlyOnce
<1>3. Only(places, LeadSet(places)) \in Seq(Place)
  BY <1>2
<1> QED
  BY <1>1, <1>2, <1>3 DEF Leads

\* The other places share the prompt of one lead each.
LEMMA SharersApart ==
  ASSUME NEW places \in Seq(Place), Once(places), NEW lead \in LeadSet(places)
  PROVE  /\ SharersOf(places)[lead] \in Seq(Place) /\ Once(SharersOf(places)[lead])
         /\ Range(SharersOf(places)[lead]) \subseteq Range(places)
         /\ Range(SharersOf(places)[lead]) \cap LeadSet(places) = {}
         /\ \A p \in Range(SharersOf(places)[lead]) :
              Prompt[p.req] = Prompt[lead.req] /\ LeadOf(places, IndexIn(places, p)) = lead
<1> DEFINE led == Led(places, lead)  of == SharersOf(places)[lead]
<1>1. of = Only(places, led)
  BY DEF SharersOf
<1>2. Only(places, led) \in Seq(Place \cap led) /\ Range(Only(places, led)) = Range(places) \cap led
      /\ Once(Only(places, led))
  BY OnlyRange, OnlyOnce
<1>3. Only(places, led) \in Seq(Place)
  BY <1>2
<1>4. \A p \in Range(places) : IndexIn(places, p) \in 1..Len(places) /\ places[IndexIn(places, p)] = p
  <2> SUFFICES ASSUME NEW p \in Range(places)
               PROVE  IndexIn(places, p) \in 1..Len(places) /\ places[IndexIn(places, p)] = p
    OBVIOUS
  <2>1. \E i \in DOMAIN places : places[i] = p
    BY RangeOfLine
  <2>2. IndexIn(places, p) \in DOMAIN places /\ places[IndexIn(places, p)] = p
    BY <2>1 DEF IndexIn
  <2> QED
    BY <2>2
<1>5. \A p \in led : p \in Range(places) /\ p # lead /\ LeadOf(places, IndexIn(places, p)) = lead
  BY DEF Led
<1>6. \A p \in led : Prompt[p.req] = Prompt[lead.req]
  BY <1>4, <1>5, LeadOfPrompt
<1>7. ASSUME NEW p \in led
      PROVE  p \notin LeadSet(places)
  <2> SUFFICES ASSUME p \in LeadSet(places)
               PROVE  FALSE
    OBVIOUS
  <2>1. PICK i \in 1..Len(places) : p = LeadOf(places, i)
    <3>1. DOMAIN places = 1..Len(places)
      OBVIOUS
    <3> QED
      BY <3>1 DEF LeadSet
  <2> DEFINE j == IndexIn(places, p)
  <2>2. j \in 1..Len(places) /\ places[j] = p
    BY <1>4, <1>5
  <2> HIDE DEF j
  <2>3. Prompt[places[j].req] = Prompt[places[i].req]
    BY <2>1, <2>2, LeadOfPrompt
  <2>4. LeadOf(places, j) = LeadOf(places, i)
    BY <2>2, <2>3, LeadOfPrompt
  <2>5. LeadOf(places, j) = lead /\ p # lead
    BY <1>5 DEF j
  <2> QED
    BY <2>1, <2>4, <2>5
<1> HIDE DEF led, of
<1>8. of \in Seq(Place) /\ Once(of) /\ Range(of) = Range(places) \cap led
  BY <1>1, <1>2, <1>3
<1> QED
  BY <1>5, <1>6, <1>7, <1>8 DEF of

\* Each place is a lead or shares one's prompt.
LEMMA PlacesLed ==
  ASSUME NEW places \in Seq(Place), Once(places), NEW p \in Range(places)
  PROVE  \/ p \in LeadSet(places)
         \/ \E lead \in LeadSet(places) : p \in Range(SharersOf(places)[lead])
<1> DEFINE i == IndexIn(places, p)  lead == LeadOf(places, i)
<1>1. i \in 1..Len(places)
  <2>1. \E j \in DOMAIN places : places[j] = p
    BY RangeOfLine
  <2>2. i \in DOMAIN places
    BY <2>1 DEF IndexIn
  <2> QED
    BY <2>2
<1>2. lead \in LeadSet(places)
  <2>1. DOMAIN places = 1..Len(places)
    OBVIOUS
  <2> QED
    BY <1>1, <2>1 DEF LeadSet
<1>3. CASE p = lead
  BY <1>2, <1>3
<1>4. CASE p # lead
  <2>1. p \in Led(places, lead)
    BY <1>4 DEF Led
  <2> HIDE DEF lead
  <2>2. SharersOf(places)[lead] = Only(places, Led(places, lead))
    BY <1>2 DEF SharersOf
  <2>3. Range(Only(places, Led(places, lead))) = Range(places) \cap Led(places, lead)
    BY OnlyRange
  <2> QED
    BY <1>2, <2>1, <2>2, <2>3
<1> QED
  BY <1>3, <1>4

-----------------------------------------------------------------------------
(* The passes the prompts are packed into.                                  *)

\* The prompt tokens of a pass are a number.
LEMMA TotalIsNumber ==
  ASSUME NEW batch \in Seq(Place)
  PROVE  Total(batch) \in Nat
<1> DEFINE n == Len(batch)
           Is(f) == f = [k \in 0..n |-> IF k = 0 THEN 0 ELSE f[k - 1] + Length(batch[k])]
           sum == CHOOSE f : Is(f)
           step == [p \in (1..n) \X Nat |-> p[2] + Length(batch[p[1]])]
<1>1. n \in Nat /\ 0 \in Nat /\ \A k \in 1..n : Length(batch[k]) \in Nat
  <2>1. \A k \in 1..n : batch[k].req \in Request
    <3>1. \A k \in 1..n : batch[k] \in Place
      OBVIOUS
    <3> QED
      BY <3>1 DEF Place
  <2>2. \A k \in 1..n : Length(batch[k]) \in Nat
    BY <2>1, RowEngineAssumption DEF Length
  <2> QED
    BY <2>2
<1>2. step \in [(1..n) \X Nat -> Nat] /\ \A k \in 1..n : \A a \in Nat : step[<<k, a>>] = a + Length(batch[k])
  BY <1>1
<1> HIDE DEF step
<1>3. PICK g : GoesBy(g, Nat, 0, n, step)
  BY <1>1, <1>2, Stepwise
<1>4. g \in [0..n -> Nat] /\ g[0] = 0 /\ \A k \in 1..n : g[k] = step[<<k, g[k - 1]>>]
  BY <1>3 DEF GoesBy
<1>5. \A k \in 0..n : g[k] = IF k = 0 THEN 0 ELSE g[k - 1] + Length(batch[k])
  <2> SUFFICES ASSUME NEW k \in 0..n, k # 0
               PROVE  g[k] = g[k - 1] + Length(batch[k])
    BY <1>4
  <2>1. k \in 1..n /\ k - 1 \in 0..n
    BY <1>1
  <2> QED
    BY <1>2, <1>4, <2>1
<1>6. Is(g)
  <2>1. g = [k \in 0..n |-> g[k]]
    BY <1>4
  <2> QED
    BY <1>5, <2>1, Zenon
<1>7. Is(sum)
  <2> HIDE DEF Is
  <2> QED
    BY <1>6, Zenon
<1>8. Total(batch) = sum[n]
  BY Zenon DEF Total
<1> HIDE DEF sum
<1>9. \A k \in 0..n : sum[k] = IF k = 0 THEN 0 ELSE sum[k - 1] + Length(batch[k])
  BY <1>7, Zenon
<1> DEFINE holds == {k \in 0..n : sum[k] \in Nat}
<1>10. ASSUME NEW k \in 1..n, k - 1 \in holds
       PROVE  k \in holds
  <2>1. k \in 0..n /\ k # 0 /\ sum[k - 1] \in Nat
    BY <1>1, <1>10
  <2>2. sum[k] = sum[k - 1] + Length(batch[k])
    BY <1>9, <2>1
  <2> QED
    BY <1>1, <2>1, <2>2
<1>11. n \in holds
  <2>1. 0 \in holds /\ holds \in SUBSET (0..n)
    BY <1>1, <1>9
  <2> HIDE DEF holds
  <2> QED
    BY <1>1, <1>10, <2>1, Inductively
<1> QED
  BY <1>8, <1>11

\* Some pass is the smallest.
LEMMA SmallestIsOne ==
  ASSUME NEW batches \in Seq(Seq(Place)), batches # <<>>
  PROVE  SmallestOf(batches) \in 1..Len(batches)
<1> DEFINE n == Len(batches)  sizes == {Total(batches[i]) : i \in 1..n}
<1>1. n \in Nat /\ n # 0 /\ DOMAIN batches = 1..n /\ \A i \in 1..n : batches[i] \in Seq(Place)
  OBVIOUS
<1>2. \A i \in 1..n : Total(batches[i]) \in Nat
  BY <1>1, TotalIsNumber
<1>3. sizes \in SUBSET Nat /\ sizes # {}
  <2>1. 1 \in 1..n
    BY <1>1
  <2> QED
    BY <1>2, <2>1
<1>4. PICK least \in sizes : \A m \in sizes : least <= m
  BY <1>3, LeastElement
<1> DEFINE those == {i \in 1..n : Total(batches[i]) = least}
<1>5. those \in SUBSET Nat /\ those # {}
  BY <1>4
<1>6. PICK i \in those : \A j \in those : i <= j
  BY <1>5, LeastElement
<1>7. \A j \in 1..n : \/ Total(batches[i]) < Total(batches[j])
                      \/ Total(batches[i]) = Total(batches[j]) /\ i <= j
  <2> SUFFICES ASSUME NEW j \in 1..n, ~(Total(batches[i]) < Total(batches[j]))
               PROVE  Total(batches[i]) = Total(batches[j]) /\ i <= j
    OBVIOUS
  <2>1. Total(batches[i]) = least /\ Total(batches[j]) \in sizes /\ least \in Nat
    BY <1>3, <1>6
  <2>2. least <= Total(batches[j]) /\ Total(batches[j]) \in Nat
    BY <1>2, <1>4, <2>1
  <2>3. Total(batches[j]) = least
    BY <2>1, <2>2
  <2> QED
    BY <1>6, <2>1, <2>3
<1>8. i \in DOMAIN batches
  BY <1>1, <1>6
<1>9. SmallestOf(batches) \in DOMAIN batches
  BY <1>1, <1>7, <1>8 DEF SmallestOf
<1> QED
  BY <1>1, <1>9

\* What it says of each pass that passes have the places of a set.
LEMMA PartsAre ==
  ASSUME NEW batches, NEW S, Parts(batches, S)
  PROVE  /\ batches \in Seq(Seq(Place)) /\ Len(batches) \in Nat /\ DOMAIN batches = 1..Len(batches)
         /\ \A j \in 1..Len(batches) :
              batches[j] \in Seq(Place) /\ Once(batches[j]) /\ Range(batches[j]) \subseteq S
         /\ \A j, k \in 1..Len(batches) : j # k => Range(batches[j]) \cap Range(batches[k]) = {}
         /\ S = UNION {Range(batches[j]) : j \in 1..Len(batches)}
<1>1. batches \in Seq(Seq(Place))
  BY DEF Parts
<1>2. Len(batches) \in Nat /\ DOMAIN batches = 1..Len(batches)
  BY <1>1
<1>3. \A j \in 1..Len(batches) : batches[j] \in Seq(Place)
  BY <1>1
<1>4. S = UNION {Range(batches[j]) : j \in 1..Len(batches)}
  BY DEF Parts
<1>5. \A j \in 1..Len(batches) : Range(batches[j]) \subseteq S
  BY <1>4
<1> QED
  BY <1>1, <1>2, <1>3, <1>4, <1>5 DEF Parts

\* A place joins a pass.
LEMMA JoinsPart ==
  ASSUME NEW batches, NEW S, Parts(batches, S), NEW p \in Place, p \notin S, NEW i \in 1..Len(batches)
  PROVE  Parts([batches EXCEPT ![i] = Append(@, p)], S \cup {p})
<1> DEFINE n == Len(batches)  more == [batches EXCEPT ![i] = Append(@, p)]
<1>1. /\ batches \in Seq(Seq(Place)) /\ n \in Nat /\ DOMAIN batches = 1..n
      /\ \A j \in 1..n : batches[j] \in Seq(Place) /\ Once(batches[j]) /\ Range(batches[j]) \subseteq S
      /\ \A j, k \in 1..n : j # k => Range(batches[j]) \cap Range(batches[k]) = {}
      /\ S = UNION {Range(batches[j]) : j \in 1..n}
  BY PartsAre
<1>2. /\ Append(batches[i], p) \in Seq(Place) /\ Range(Append(batches[i], p)) = Range(batches[i]) \cup {p}
      /\ Once(Append(batches[i], p))
  BY <1>1, AppendOnce
<1>3. /\ more \in Seq(Seq(Place)) /\ Len(more) = n
      /\ more[i] = Append(batches[i], p) /\ \A j \in 1..n : j # i => more[j] = batches[j]
  BY <1>1, <1>2
<1> HIDE DEF more, n
<1>4. \A j \in 1..n : Once(more[j])
  BY <1>1, <1>2, <1>3
<1>5. \A j \in 1..n : Range(more[j]) = IF j = i THEN Range(batches[i]) \cup {p} ELSE Range(batches[j])
  BY <1>2, <1>3
<1>6. i \in 1..n
  BY DEF n
<1>7. \A j, k \in 1..n : j # k => Range(more[j]) \cap Range(more[k]) = {}
  BY <1>1, <1>5, <1>6
<1>8. UNION {Range(more[j]) : j \in 1..n} = S \cup {p}
  <2> DEFINE all == UNION {Range(more[j]) : j \in 1..n}
  <2>1. \A x \in all : x \in S \cup {p}
    BY <1>1, <1>5, <1>6
  <2>2. \A x \in S : x \in all
    <3> SUFFICES ASSUME NEW x \in S
                 PROVE  \E j \in 1..n : x \in Range(more[j])
      OBVIOUS
    <3>1. PICK j \in 1..n : x \in Range(batches[j])
      BY <1>1
    <3> QED
      BY <1>5, <3>1
  <2>3. p \in all
    BY <1>5, <1>6
  <2> QED
    BY <2>1, <2>2, <2>3
<1> QED
  BY <1>3, <1>4, <1>7, <1>8 DEF Parts, more

\* A place begins a pass.
LEMMA BeginsPart ==
  ASSUME NEW batches, NEW S, Parts(batches, S), NEW p \in Place, p \notin S
  PROVE  Parts(Append(batches, <<p>>), S \cup {p})
<1> DEFINE n == Len(batches)  more == Append(batches, <<p>>)
<1>1. /\ batches \in Seq(Seq(Place)) /\ n \in Nat
      /\ \A j \in 1..n : batches[j] \in Seq(Place) /\ Once(batches[j]) /\ Range(batches[j]) \subseteq S
      /\ \A j, k \in 1..n : j # k => Range(batches[j]) \cap Range(batches[k]) = {}
      /\ S = UNION {Range(batches[j]) : j \in 1..n}
  BY PartsAre
<1>2. <<p>> \in Seq(Place) /\ Range(<<p>>) = {p} /\ Once(<<p>>)
  <2>1. <<p>> \in Seq(Place) /\ Len(<<p>>) = 1 /\ <<p>>[1] = p
    OBVIOUS
  <2>2. \A i, j \in 1..1 : i = j
    OBVIOUS
  <2> DEFINE one == <<p>>
  <2> HIDE DEF one
  <2>3. one \in Seq(Place) /\ Len(one) = 1 /\ one[1] = p
    BY <2>1 DEF one
  <2>4. Once(one)
    BY <2>2, <2>3, OnceOfLine
  <2>5. Range(one) = {p}
    <3>1. 1 \in 1..Len(one) /\ \A i \in 1..Len(one) : i = 1
      BY <2>3
    <3> QED
      BY <2>3, <3>1, RangeOfLine
  <2> QED
    BY <2>3, <2>4, <2>5 DEF one
<1>3. /\ more \in Seq(Seq(Place)) /\ Len(more) = n + 1
      /\ more[n + 1] = <<p>> /\ \A j \in 1..n : more[j] = batches[j]
  BY <1>1, <1>2
<1> HIDE DEF more, n
<1>4. \A j \in 1..(n + 1) : j # n + 1 => j \in 1..n
  BY <1>1
<1>5. \A j \in 1..(n + 1) : Range(more[j]) = IF j = n + 1 THEN {p} ELSE Range(batches[j])
  BY <1>2, <1>3, <1>4
<1>6. \A j \in 1..(n + 1) : Once(more[j])
  BY <1>1, <1>2, <1>3, <1>4
<1>7. \A j, k \in 1..(n + 1) : j # k => Range(more[j]) \cap Range(more[k]) = {}
  <2> SUFFICES ASSUME NEW j \in 1..(n + 1), NEW k \in 1..(n + 1), j # k
               PROVE  Range(more[j]) \cap Range(more[k]) = {}
    OBVIOUS
  <2>1. CASE j = n + 1
    <3>1. k \in 1..n /\ Range(more[j]) = {p} /\ Range(more[k]) = Range(batches[k])
      BY <1>4, <1>5, <2>1
    <3> QED
      BY <1>1, <3>1
  <2>2. CASE k = n + 1
    <3>1. j \in 1..n /\ Range(more[k]) = {p} /\ Range(more[j]) = Range(batches[j])
      BY <1>4, <1>5, <2>2
    <3> QED
      BY <1>1, <3>1
  <2>3. CASE j # n + 1 /\ k # n + 1
    <3>1. j \in 1..n /\ k \in 1..n /\ Range(more[j]) = Range(batches[j]) /\ Range(more[k]) = Range(batches[k])
      BY <1>4, <1>5, <2>3
    <3> QED
      BY <1>1, <3>1
  <2> QED
    BY <2>1, <2>2, <2>3
<1>8. UNION {Range(more[j]) : j \in 1..(n + 1)} = S \cup {p}
  <2> DEFINE all == UNION {Range(more[j]) : j \in 1..(n + 1)}
  <2>1. \A x \in all : x \in S \cup {p}
    BY <1>1, <1>4, <1>5
  <2>2. \A x \in S : x \in all
    <3> SUFFICES ASSUME NEW x \in S
                 PROVE  \E j \in 1..(n + 1) : x \in Range(more[j])
      OBVIOUS
    <3>1. PICK j \in 1..n : x \in Range(batches[j])
      BY <1>1
    <3>2. j \in 1..(n + 1) /\ j # n + 1
      BY <1>1, <3>1
    <3> QED
      BY <1>5, <3>1, <3>2
  <2>3. p \in all
    <3>1. n + 1 \in 1..(n + 1)
      BY <1>1
    <3> QED
      BY <1>5, <3>1
  <2> QED
    BY <2>1, <2>2, <2>3
<1> QED
  BY <1>3, <1>6, <1>7, <1>8 DEF Parts, more

\* Each place is packed into one pass.
LEMMA PackedParts ==
  ASSUME NEW places \in Seq(Place), Once(places)
  PROVE  Parts(Packed(places), Range(places))
<1> DEFINE line == ByKey(places, Longest)  n == Len(line)
           Fits(batch, p) == Total(batch) + Length(p) <= pack /\ Len(batch) < NSlots
           Into(batches, p) ==
             IF \E i \in DOMAIN batches : Fits(batches[i], p)
             THEN LET i == CHOOSE i \in DOMAIN batches :
                             Fits(batches[i], p) /\ \A j \in 1..(i - 1) : ~Fits(batches[j], p)
                  IN  [batches EXCEPT ![i] = Append(@, p)]
             ELSE Append(batches, <<p>>)
           Is(f) == f = [k \in 0..n |-> IF k = 0 THEN <<>> ELSE Into(f[k - 1], line[k])]
           packed == CHOOSE f : Is(f)
           Passes == Seq(Seq(Place))
           step == [x \in (1..n) \X Passes |-> Into(x[2], line[x[1]])]
<1>1. line \in Seq(Place) /\ Once(line) /\ Range(line) = Range(places) /\ n \in Nat
  <2>1. line \in Seq(Place) /\ Once(line) /\ Range(line) = Range(places)
    BY LongestFirst
  <2> HIDE DEF line
  <2> QED
    BY <2>1
<1>2. Packed(places) = packed[n]
  BY Zenon DEF Packed
<1> HIDE DEF line, Fits
<1>3. ASSUME NEW b \in Passes, NEW p \in Place
      PROVE  \/ Into(b, p) = Append(b, <<p>>)
             \/ \E i \in 1..Len(b) : Into(b, p) = [b EXCEPT ![i] = Append(@, p)]
  <2> DEFINE fit == {i \in 1..Len(b) : Fits(b[i], p)}
             least == CHOOSE i \in DOMAIN b : Fits(b[i], p) /\ \A j \in 1..(i - 1) : ~Fits(b[j], p)
  <2>1. DOMAIN b = 1..Len(b) /\ Len(b) \in Nat
    OBVIOUS
  <2>2. CASE fit = {}
    BY <2>1, <2>2
  <2>3. CASE fit # {}
    <3>1. fit \in SUBSET Nat
      BY <2>1
    <3>2. PICK i \in fit : \A j \in fit : i <= j
      BY <2>3, <3>1, LeastElement
    <3>3. \A j \in 1..(i - 1) : j \in 1..Len(b) /\ ~(i <= j)
      BY <2>1, <3>2
    <3>4. i \in DOMAIN b /\ Fits(b[i], p) /\ \A j \in 1..(i - 1) : ~Fits(b[j], p)
      BY <2>1, <3>2, <3>3
    <3>5. least \in DOMAIN b
      BY <3>4
    <3>6. Into(b, p) = [b EXCEPT ![least] = Append(@, p)]
      <4>1. \E h \in DOMAIN b : Fits(b[h], p)
        BY <3>4
      <4> QED
        BY <4>1
    <3> HIDE DEF least, Into
    <3> QED
      BY <2>1, <3>5, <3>6
  <2> QED
    BY <2>2, <2>3
<1> HIDE DEF Into
<1>4. \A b \in Passes, p \in Place : Into(b, p) \in Passes
  <2> SUFFICES ASSUME NEW b \in Passes, NEW p \in Place
               PROVE  Into(b, p) \in Passes
    OBVIOUS
  <2>1. CASE Into(b, p) = Append(b, <<p>>)
    <3>1. <<p>> \in Seq(Place)
      OBVIOUS
    <3> QED
      BY <2>1, <3>1
  <2>2. ASSUME NEW i \in 1..Len(b), Into(b, p) = [b EXCEPT ![i] = Append(@, p)]
        PROVE  Into(b, p) \in Passes
    <3>1. b[i] \in Seq(Place)
      OBVIOUS
    <3>2. Append(b[i], p) \in Seq(Place)
      BY <3>1
    <3> QED
      BY <2>2, <3>2
  <2> QED
    BY <1>3, <2>1, <2>2
<1>5. \A k \in 1..n : line[k] \in Place
  BY <1>1
<1>6. step \in [(1..n) \X Passes -> Passes] /\ \A k \in 1..n : \A b \in Passes : step[<<k, b>>] = Into(b, line[k])
  <2> HIDE DEF Passes
  <2> QED
    BY <1>4, <1>5
<1>7. <<>> \in Passes
  OBVIOUS
<1> HIDE DEF step, Passes
<1>8. PICK g : GoesBy(g, Passes, <<>>, n, step)
  BY <1>1, <1>6, <1>7, Stepwise
<1>9. g \in [0..n -> Passes] /\ g[0] = <<>> /\ \A k \in 1..n : g[k] = step[<<k, g[k - 1]>>]
  BY <1>8 DEF GoesBy
<1>10. \A k \in 0..n : g[k] = IF k = 0 THEN <<>> ELSE Into(g[k - 1], line[k])
  <2> SUFFICES ASSUME NEW k \in 0..n, k # 0
               PROVE  g[k] = Into(g[k - 1], line[k])
    BY <1>9
  <2>1. k \in 1..n /\ k - 1 \in 0..n
    BY <1>1
  <2> QED
    BY <1>6, <1>9, <2>1
<1>11. Is(packed)
  <2>1. g = [k \in 0..n |-> g[k]]
    BY <1>9
  <2>2. Is(g)
    BY <1>10, <2>1, Zenon
  <2> HIDE DEF Is
  <2> QED
    BY <2>2, Zenon
<1> HIDE DEF packed
<1>12. \A k \in 0..n : packed[k] = IF k = 0 THEN <<>> ELSE Into(packed[k - 1], line[k])
  BY <1>11, Zenon
<1> DEFINE First(k) == {line[j] : j \in 1..k}
           holds == {k \in 0..n : Parts(packed[k], First(k))}
<1>13. ASSUME NEW k \in 1..n, k - 1 \in holds
       PROVE  k \in holds
  <2>1. k \in 0..n /\ k # 0 /\ Parts(packed[k - 1], First(k - 1)) /\ 1..k = 1..(k - 1) \cup {k}
        /\ 1..(k - 1) \subseteq 1..n /\ k \notin 1..(k - 1)
    BY <1>1, <1>13
  <2>2. packed[k] = Into(packed[k - 1], line[k])
    BY <1>12, <2>1
  <2>3. First(k) = First(k - 1) \cup {line[k]}
    BY <2>1
  <2>4. line[k] \notin First(k - 1)
    <3>1. \A i, j \in 1..n : line[i] = line[j] => i = j
      BY <1>1, OnceOfLine
    <3> QED
      BY <2>1, <3>1
  <2>5. line[k] \in Place
    BY <1>5
  <2>6. packed[k - 1] \in Passes
    BY <2>1, PartsAre DEF Passes
  <2> HIDE DEF First
  <2>7. CASE Into(packed[k - 1], line[k]) = Append(packed[k - 1], <<line[k]>>)
    <3>1. Parts(packed[k], First(k))
      BY <2>1, <2>2, <2>3, <2>4, <2>5, <2>7, BeginsPart
    <3> QED
      BY <2>1, <3>1
  <2>8. ASSUME NEW i \in 1..Len(packed[k - 1]),
               Into(packed[k - 1], line[k]) = [packed[k - 1] EXCEPT ![i] = Append(@, line[k])]
        PROVE  k \in holds
    <3>1. Parts([packed[k - 1] EXCEPT ![i] = Append(@, line[k])], First(k - 1) \cup {line[k]})
      BY <2>1, <2>4, <2>5, JoinsPart
    <3>2. Parts(packed[k], First(k))
      BY <2>2, <2>3, <2>8, <3>1
    <3> QED
      BY <2>1, <3>2
  <2> QED
    BY <1>3, <2>5, <2>6, <2>7, <2>8
<1>14. 0 \in holds
  <2>1. 0 \in 0..n /\ packed[0] = <<>>
    BY <1>1, <1>12
  <2>2. First(0) = {}
    OBVIOUS
  <2>3. Parts(<<>>, {})
    <3>1. <<>> \in Seq(Seq(Place)) /\ 1..Len(<<>>) = {}
      OBVIOUS
    <3> QED
      BY <3>1 DEF Parts
  <2> HIDE DEF First
  <2> QED
    BY <2>1, <2>2, <2>3
<1>15. n \in holds
  <2>1. holds \in SUBSET (0..n)
    OBVIOUS
  <2> HIDE DEF holds
  <2> QED
    BY <1>1, <1>13, <1>14, <2>1, Inductively
<1>16. First(n) = Range(line)
  <2>1. /\ \A i \in 1..n : line[i] \in Range(line)
        /\ \A x \in Range(line) : \E i \in 1..n : line[i] = x
    BY <1>1, RangeOfLine
  <2> QED
    BY <2>1
<1> QED
  BY <1>1, <1>2, <1>15, <1>16

-----------------------------------------------------------------------------
(* Lines of passes.                                                         *)

\* The other elements when one is taken out.
LEMMA OutOfLine ==
  ASSUME NEW S, NEW seq \in Seq(S), NEW k \in 1..Len(seq)
  PROVE  /\ RemoveAt(seq, k) \in Seq(S) /\ Len(RemoveAt(seq, k)) = Len(seq) - 1
         /\ \A i \in 1..(Len(seq) - 1) : RemoveAt(seq, k)[i] = seq[IF i < k THEN i ELSE i + 1]
<1> DEFINE n == Len(seq)  before == SubSeq(seq, 1, k - 1)  after == SubSeq(seq, k + 1, n)
<1>1. n \in Nat /\ k \in 1..n /\ k - 1 \in 0..n /\ k + 1 \in 1..(n + 1) /\ n - k \in Nat
  OBVIOUS
<1>2. RemoveAt(seq, k) = before \o after
  BY DEF RemoveAt
<1>3. /\ before \in Seq(S) /\ Len(before) = k - 1
      /\ \A i \in 1..(k - 1) : before[i] = seq[i]
  BY <1>1
<1>4. /\ after \in Seq(S) /\ Len(after) = n - k
      /\ \A i \in 1..(n - k) : after[i] = seq[i + k]
  <2>1. \A i \in (k + 1)..n : seq[i] \in S
    BY <1>1
  <2>2. after = [i \in 1..(n - (k + 1) + 1) |-> seq[i + (k + 1) - 1]]
    OBVIOUS
  <2>3. n - (k + 1) + 1 = n - k /\ \A i \in 1..(n - k) : i + (k + 1) - 1 = i + k /\ i + k \in 1..n
    BY <1>1
  <2> HIDE DEF after, n
  <2>4. after = [i \in 1..(n - k) |-> seq[i + (k + 1) - 1]]
    BY <2>2, <2>3
  <2>5. \A i \in 1..(n - k) : after[i] = seq[i + k]
    BY <2>3, <2>4
  <2>6. \A i \in 1..(n - k) : seq[i + (k + 1) - 1] \in S
    BY <2>3 DEF n
  <2> QED
    BY <1>1, <2>4, <2>5, <2>6
<1> HIDE DEF before, after, n
<1>5. /\ before \o after \in Seq(S) /\ Len(before \o after) = n - 1
      /\ \A i \in 1..(n - 1) : (before \o after)[i] = IF i <= k - 1 THEN before[i] ELSE after[i - (k - 1)]
  BY <1>1, <1>3, <1>4
<1>6. ASSUME NEW i \in 1..(n - 1)
      PROVE  (before \o after)[i] = seq[IF i < k THEN i ELSE i + 1]
  <2>1. CASE i < k
    <3>1. i \in 1..(k - 1) /\ i <= k - 1
      BY <1>1, <2>1
    <3> QED
      BY <1>3, <1>5, <2>1, <3>1
  <2>2. CASE ~(i < k)
    <3>1. i - (k - 1) \in 1..(n - k) /\ ~(i <= k - 1) /\ i - (k - 1) + k = i + 1
      BY <1>1, <2>2
    <3> QED
      BY <1>4, <1>5, <2>2, <3>1
  <2> QED
    BY <2>1, <2>2
<1> QED
  BY <1>2, <1>5, <1>6 DEF n

\* The other passes when one is taken out.
LEMMA PartOut ==
  ASSUME NEW batches, NEW S, Parts(batches, S), NEW k \in 1..Len(batches)
  PROVE  Parts(RemoveAt(batches, k), S \ Range(batches[k]))
<1> DEFINE n == Len(batches)  rest == RemoveAt(batches, k)
           from(i) == IF i < k THEN i ELSE i + 1
<1>1. /\ batches \in Seq(Seq(Place)) /\ n \in Nat /\ DOMAIN batches = 1..n
      /\ \A j \in 1..n : batches[j] \in Seq(Place) /\ Once(batches[j]) /\ Range(batches[j]) \subseteq S
      /\ \A i, j \in 1..n : i # j => Range(batches[i]) \cap Range(batches[j]) = {}
      /\ S = UNION {Range(batches[j]) : j \in 1..n}
  BY PartsAre
<1>2. k \in 1..n /\ n - 1 \in Nat
  BY <1>1
<1> HIDE DEF n
<1>3. /\ rest \in Seq(Seq(Place)) /\ Len(rest) = n - 1
      /\ \A i \in 1..(n - 1) : rest[i] = batches[from(i)]
  <2> DEFINE T == Seq(Place)
  <2>1. batches \in Seq(T)
    BY <1>1
  <2> HIDE DEF T
  <2>2. /\ rest \in Seq(T) /\ Len(rest) = n - 1
        /\ \A i \in 1..(n - 1) : rest[i] = batches[from(i)]
    BY <2>1, OutOfLine DEF n
  <2> QED
    BY <2>2 DEF T
<1> HIDE DEF rest
<1>4. /\ \A i \in 1..(n - 1) : from(i) \in 1..n /\ from(i) # k
      /\ \A i, j \in 1..(n - 1) : i # j => from(i) # from(j)
      /\ \A j \in 1..n : j # k => \E i \in 1..(n - 1) : from(i) = j
  <2>1. /\ \A i \in 1..(n - 1) : from(i) \in 1..n /\ from(i) # k
        /\ \A i, j \in 1..(n - 1) : i # j => from(i) # from(j)
    BY <1>1, <1>2
  <2>2. ASSUME NEW j \in 1..n, j # k
        PROVE  \E i \in 1..(n - 1) : from(i) = j
    <3>1. CASE j < k
      <4>1. j \in 1..(n - 1) /\ from(j) = j
        BY <1>1, <1>2, <3>1
      <4> QED
        BY <4>1
    <3>2. CASE ~(j < k)
      <4>1. j - 1 \in 1..(n - 1) /\ from(j - 1) = j
        BY <1>1, <1>2, <2>2, <3>2
      <4> QED
        BY <4>1
    <3> QED
      BY <3>1, <3>2
  <2> QED
    BY <2>1, <2>2
<1> HIDE DEF from
<1>5. UNION {Range(rest[i]) : i \in 1..(n - 1)} = S \ Range(batches[k])
  <2> DEFINE all == UNION {Range(rest[i]) : i \in 1..(n - 1)}
  <2>1. ASSUME NEW x \in all
        PROVE  x \in S \ Range(batches[k])
    <3>1. PICK i \in 1..(n - 1) : x \in Range(rest[i])
      OBVIOUS
    <3>2. x \in Range(batches[from(i)]) /\ from(i) \in 1..n /\ from(i) # k
      BY <1>3, <1>4, <3>1
    <3> QED
      BY <1>1, <1>2, <3>2
  <2>2. ASSUME NEW x \in S \ Range(batches[k])
        PROVE  x \in all
    <3>1. PICK j \in 1..n : x \in Range(batches[j])
      BY <1>1
    <3>2. j # k
      BY <3>1
    <3>3. PICK i \in 1..(n - 1) : from(i) = j
      BY <1>4, <3>2
    <3> QED
      BY <1>3, <3>1, <3>3
  <2> QED
    BY <2>1, <2>2
<1>6. \A i \in 1..(n - 1) : Once(rest[i])
  BY <1>1, <1>3, <1>4
<1>7. \A i, j \in 1..(n - 1) : i # j => Range(rest[i]) \cap Range(rest[j]) = {}
  BY <1>1, <1>3, <1>4
<1> QED
  BY <1>3, <1>5, <1>6, <1>7 DEF Parts, rest

\* The first pass taken out.
LEMMA FirstPart ==
  ASSUME NEW batches, NEW S, Parts(batches, S), batches # <<>>
  PROVE  /\ Head(batches) \in Seq(Place) /\ Once(Head(batches)) /\ Range(Head(batches)) \subseteq S
         /\ Parts(Tail(batches), S \ Range(Head(batches)))
<1> DEFINE n == Len(batches)
<1>1. /\ batches \in Seq(Seq(Place)) /\ n \in Nat
      /\ \A j \in 1..n : batches[j] \in Seq(Place) /\ Once(batches[j]) /\ Range(batches[j]) \subseteq S
  BY PartsAre
<1>2. n # 0 /\ 1 \in 1..n /\ Head(batches) = batches[1]
  BY <1>1
<1>3. RemoveAt(batches, 1) = Tail(batches)
  <2>1. RemoveAt(batches, 1) = SubSeq(batches, 1, 0) \o SubSeq(batches, 2, n)
    <3>1. 1 - 1 = 0 /\ 1 + 1 = 2
      OBVIOUS
    <3> QED
      BY <3>1 DEF RemoveAt
  <2>2. SubSeq(batches, 1, 0) = <<>> /\ SubSeq(batches, 2, n) = Tail(batches) /\ Tail(batches) \in Seq(Seq(Place))
    BY <1>1, <1>2
  <2>3. <<>> \o Tail(batches) = Tail(batches)
    BY <2>2
  <2> QED
    BY <2>1, <2>2, <2>3
<1>4. Parts(RemoveAt(batches, 1), S \ Range(batches[1]))
  BY <1>2, PartOut
<1> QED
  BY <1>1, <1>2, <1>3, <1>4

-----------------------------------------------------------------------------
(* Who takes part in a pass.                                                *)

\* A pass's rows are its prompts' and those that share them, each once.
LEMMA EveryoneOf ==
  ASSUME Plan, NEW batch \in Seq(Place), Once(batch), Range(batch) \subseteq Leading
  PROVE  /\ Everyone(batch) \in Seq(Place) /\ Once(Everyone(batch))
         /\ Range(Everyone(batch)) = Range(batch) \cup Shared(Range(batch))
         /\ Range(Everyone(batch)) \subseteq Due
<1> DEFINE n == Len(batch)  lines == [i \in DOMAIN batch |-> Sharers(batch[i])]  more == FlattenSeq(lines)
<1>1. DOMAIN batch = 1..n /\ n \in Nat
  OBVIOUS
<1>2. /\ \A i \in 1..n : batch[i] \in Range(batch) /\ batch[i] \in Leading
      /\ \A p \in Range(batch) : \E i \in 1..n : batch[i] = p
      /\ \A i, j \in 1..n : batch[i] = batch[j] => i = j
  BY RangeOfLine, OnceOfLine
<1>3. /\ \A p \in Leading : Sharers(p) \in Seq(Place) /\ Once(Sharers(p)) /\ Range(Sharers(p)) \cap Leading = {}
      /\ \A p, q \in Leading : p # q => Range(Sharers(p)) \cap Range(Sharers(q)) = {}
  BY DEF Plan, Sharing
<1>4. \A i \in 1..n : lines[i] = Sharers(batch[i]) /\ Sharers(batch[i]) \in Seq(Place)
  BY <1>1, <1>2, <1>3
<1>5. lines \in Seq(Seq(Place)) /\ Len(lines) = n
  BY <1>1, <1>4
<1> HIDE DEF lines, n
<1>6. \A i \in 1..n : Once(lines[i])
  BY <1>2, <1>3, <1>4
<1>7. \A i, j \in 1..n : i # j => Range(lines[i]) \cap Range(lines[j]) = {}
  BY <1>2, <1>3, <1>4
<1>8. more \in Seq(Place) /\ Once(more) /\ \A x : x \in Range(more) <=> \E i \in 1..n : x \in Range(lines[i])
  BY <1>5, <1>6, <1>7, Flattened
<1> HIDE DEF more
<1>9. Range(more) = Shared(Range(batch))
  <2>1. \A x : x \in Range(more) <=> \E p \in Range(batch) : x \in Range(Sharers(p))
    BY <1>2, <1>4, <1>8
  <2> QED
    BY <2>1 DEF Shared
<1>10. Range(batch) \cap Range(more) = {}
  BY <1>3, <1>9 DEF Shared
<1>11. Everyone(batch) = batch \o more
  BY DEF Everyone, more, lines
<1>12. /\ batch \o more \in Seq(Place) /\ Range(batch \o more) = Range(batch) \cup Range(more)
       /\ Once(batch \o more)
  BY <1>8, <1>10, ConcatOnce
<1>13. Range(batch) \cup Shared(Range(batch)) \subseteq Due
  BY DEF Due, Shared
<1> QED
  BY <1>9, <1>11, <1>12, <1>13

\* What is due when the leads of a pass are not any more.
LEMMA DueLeft ==
  ASSUME Plan, NEW batch \in Seq(Place), Once(batch), Range(batch) \subseteq Leading,
         Leading' = Leading \ Range(batch), UNCHANGED sharing
  PROVE  Due' = Due \ Range(Everyone(batch)) /\ Sharing'
<1> DEFINE B == Range(batch)
<1>1. Range(Everyone(batch)) = B \cup Shared(B)
  BY EveryoneOf
<1>2. \A p : Sharers(p)' = Sharers(p)
  BY DEF Sharers
<1>3. Due' = Leading' \cup UNION {Range(Sharers(p)) : p \in Leading'}
  BY <1>2 DEF Due, Shared
<1>4. /\ \A p \in Leading : Range(Sharers(p)) \cap Leading = {}
      /\ \A p, q \in Leading : p # q => Range(Sharers(p)) \cap Range(Sharers(q)) = {}
  BY DEF Plan, Sharing
<1>5. B \subseteq Leading
  OBVIOUS
<1> HIDE DEF B
<1>6. Due = Leading \cup UNION {Range(Sharers(p)) : p \in Leading}
  BY DEF Due, Shared
<1>7. Shared(B) = UNION {Range(Sharers(p)) : p \in B}
  BY DEF Shared
<1>8. ASSUME NEW x
      PROVE  x \in Due' <=> x \in Due /\ x \notin B \cup Shared(B)
  <2>1. CASE x \in Leading
    <3>1. \A p \in Leading : x \notin Range(Sharers(p))
      BY <1>4, <2>1
    <3> QED
      BY <1>3, <1>5, <1>6, <1>7, <2>1, <3>1 DEF B
  <2>2. CASE x \notin Leading
    <3>1. x \in Due' <=> \E p \in Leading : p \notin B /\ x \in Range(Sharers(p))
      BY <1>3, <2>2 DEF B
    <3>2. x \in Due /\ x \notin B \cup Shared(B) <=>
            /\ \E p \in Leading : x \in Range(Sharers(p))
            /\ \A p \in B : x \notin Range(Sharers(p))
      BY <1>5, <1>6, <1>7, <2>2
    <3> QED
      BY <1>4, <1>5, <3>1, <3>2
  <2> QED
    BY <2>1, <2>2
<1>9. Sharing'
  <2>1. Leading' \subseteq Leading
    BY DEF B
  <2> QED
    BY <1>2, <2>1 DEF Plan, Sharing
<1> QED
  BY <1>1, <1>8, <1>9

\* The request of a slot of a pass.
LEMMA RequestOfSlot ==
  ASSUME NEW everyone, \A p, q \in Range(everyone) : p.slot = q.slot \/ p.req = q.req => p = q
  PROVE  \A p \in Range(everyone) : p.slot \in SlotsOf(everyone) /\ RequestIn(everyone, p.slot) = p.req
<1> SUFFICES ASSUME NEW p \in Range(everyone)
             PROVE  p.slot \in SlotsOf(everyone) /\ RequestIn(everyone, p.slot) = p.req
  OBVIOUS
<1>1. p.slot \in SlotsOf(everyone)
  BY DEF SlotsOf
<1> DEFINE q == CHOOSE q \in Range(everyone) : q.slot = p.slot
<1>2. q \in Range(everyone) /\ q.slot = p.slot
  OBVIOUS
<1>3. q = p
  BY <1>2
<1> QED
  BY <1>1, <1>3 DEF RequestIn

\* What `Enter` does: each place gets its row, with its prompt and the token drawn.
Seated(everyone, draw, tok, at) ==
  /\ SlotsOf(everyone) \subseteq Slot
  /\ rows' \in [Slot -> Request \cup {None}] /\ devKey' = rows'
  /\ devTok' \in [Slot -> Token \cup {Junk}] /\ devPos' \in [Slot -> Cell]
  /\ \A p \in Range(everyone) :
       /\ rows'[p.slot] = p.req /\ devTok'[p.slot] = draw[p.slot]
       /\ devPos'[p.slot] = Len(Prompt[p.req])
  /\ \A s \in Slot \ SlotsOf(everyone) :
       rows'[s] = rows[s] /\ devTok'[s] = tok[s] /\ devPos'[s] = at[s]

\* The rows of a pass are their requests', the others stay.
LEMMA Entered ==
  ASSUME NEW everyone, \A p \in Range(everyone) : p \in Place,
         \A p, q \in Range(everyone) : p.slot = q.slot \/ p.req = q.req => p = q,
         NEW draw \in [SlotsOf(everyone) -> Token],
         Types, NEW tok \in [Slot -> Token \cup {Junk}], NEW at \in [Slot -> Cell],
         Enter(everyone, draw, tok, at)
  PROVE  Seated(everyone, draw, tok, at)
<1> DEFINE Of == [s \in SlotsOf(everyone) |-> RequestIn(everyone, s)]
           long == [s \in DOMAIN Of |-> Len(Prompt[Of[s]])]
           S == SlotsOf(everyone)
<1>1. rows' = Over(Of, rows) /\ devKey' = Over(Of, devKey) /\ devTok' = Over(draw, tok) /\ devPos' = Over(long, at)
  BY DEF Enter
<1>2. \A p \in Range(everyone) : p.slot \in S /\ RequestIn(everyone, p.slot) = p.req
  BY RequestOfSlot
<1>3. \A s \in S : \E p \in Range(everyone) : p.slot = s
  BY DEF SlotsOf
<1>4. \A p \in Range(everyone) : p.slot \in Slot /\ p.req \in Request
  BY DEF Place
<1>5. S \subseteq Slot
  BY <1>3, <1>4
<1>6. DOMAIN Of = S /\ DOMAIN long = S /\ DOMAIN draw = S
  OBVIOUS
<1> HIDE DEF S
<1>7. \A p \in Range(everyone) : Of[p.slot] = p.req /\ long[p.slot] = Len(Prompt[p.req])
  <2> SUFFICES ASSUME NEW p \in Range(everyone)
               PROVE  Of[p.slot] = p.req /\ long[p.slot] = Len(Prompt[p.req])
    OBVIOUS
  <2>1. Of[p.slot] = p.req
    BY <1>2 DEF S
  <2> HIDE DEF Of
  <2>2. long[p.slot] = Len(Prompt[Of[p.slot]])
    BY <1>2, <1>6
  <2> QED
    BY <2>1, <2>2
<1> HIDE DEF Of, long
<1>8. \A s \in S : Of[s] \in Request /\ long[s] \in Cell /\ draw[s] \in Token
  <2> SUFFICES ASSUME NEW s \in S
               PROVE  Of[s] \in Request /\ long[s] \in Cell /\ draw[s] \in Token
    OBVIOUS
  <2>1. PICK p \in Range(everyone) : p.slot = s
    BY <1>3
  <2>2. Of[s] = p.req /\ long[s] = Len(Prompt[p.req]) /\ p.req \in Request
    BY <1>4, <1>7, <2>1
  <2>3. Len(Prompt[p.req]) \in Cell
    BY <2>2, RowEngineAssumption DEF Cell
  <2>4. draw[s] \in Token
    BY DEF S
  <2> QED
    BY <2>2, <2>3, <2>4
<1>9. /\ \A s \in Slot : rows'[s] = IF s \in S THEN Of[s] ELSE rows[s]
      /\ \A s \in Slot : devTok'[s] = IF s \in S THEN draw[s] ELSE tok[s]
      /\ \A s \in Slot : devPos'[s] = IF s \in S THEN long[s] ELSE at[s]
  BY <1>1, <1>6 DEF Over
<1>10. /\ rows' \in [Slot -> Request \cup {None}] /\ devTok' \in [Slot -> Token \cup {Junk}]
       /\ devPos' \in [Slot -> Cell]
  <2>1. rows \in [Slot -> Request \cup {None}]
    BY DEF Types
  <2>2. \A s \in Slot : rows[s] \in Request \cup {None} /\ tok[s] \in Token \cup {Junk} /\ at[s] \in Cell
    BY <2>1
  <2> QED
    BY <1>1, <1>6, <1>8, <2>2 DEF Over
<1>11. devKey' = rows'
  <2>1. devKey = rows
    BY DEF Types
  <2> QED
    BY <1>1, <2>1
<1>12. \A p \in Range(everyone) : p.slot \in Slot /\ p.slot \in S
  BY <1>2, <1>4
<1> QED
  BY <1>5, <1>7, <1>9, <1>10, <1>11, <1>12 DEF S, Seated

-----------------------------------------------------------------------------
(* The steps that leave the rows as they are.                               *)

\* Nothing is due where no prompt is still to pass.
LEMMA NothingDue ==
  ASSUME passes = <<>>, mixed = <<>>
  PROVE  /\ Leading = {} /\ Due = {} /\ Passing = {}
         /\ Plan
<1>1. Passing = {}
  <2>1. Len(passes) = 0
    OBVIOUS
  <2>2. 1..Len(passes) = {}
    BY <2>1
  <2> QED
    BY <2>2 DEF Passing
<1>2. Leading = {}
  BY <1>1, EmptyLine DEF Leading
<1>3. Due = {}
  BY <1>2 DEF Due, Shared
<1>4. Parts(passes, {})
  <2>1. passes \in Seq(Seq(Place)) /\ 1..Len(passes) = {}
    OBVIOUS
  <2> QED
    BY <2>1 DEF Parts
<1>5. Disjoint
  <2>1. Once(mixed) /\ Range(mixed) = {}
    BY EmptyLine
  <2>2. Len(passes) <= 1 /\ 1..Len(passes) = {}
    OBVIOUS
  <2> QED
    BY <1>1, <1>4, <2>1, <2>2 DEF Disjoint
<1> QED
  BY <1>1, <1>2, <1>3, <1>5 DEF Plan, Planned, Sharing

\* What is to pass stays when no row is taken for it.
LEMMA PlanStays ==
  ASSUME Plan, UNCHANGED <<passes, mixed, sharing, pack>>,
         \A p \in Due : rows'[p.slot] = None /\ p.req \notin Rowed'
  PROVE  Plan' /\ Due' = Due
<1>1. \A p : Sharers(p)' = Sharers(p)
  BY DEF Sharers
<1>2. Passing' = Passing
  BY DEF Passing
<1>3. Leading' = Leading
  BY <1>2 DEF Leading
<1>4. Due' = Due
  BY <1>1, <1>3 DEF Due, Shared
<1>5. Planned'
  BY <1>4 DEF Plan, Planned
<1>6. Disjoint'
  <2>1. Parts(passes, Passing)'
    BY <1>2 DEF Plan, Disjoint, Parts
  <2> QED
    BY <1>2, <2>1 DEF Plan, Disjoint
<1>7. Sharing'
  BY <1>1, <1>3 DEF Plan, Sharing
<1> QED
  BY <1>4, <1>5, <1>6, <1>7 DEF Plan

\* A row's text grows as it did while its row, its tokens and the passes not read
\* are the same.
LEMMA WholeStays ==
  ASSUME NEW s, NEW f, Whole(s, f), UNCHANGED <<queued, reading>>,
         rows'[s] = rows[s], tokens'[rows[s]] = tokens[rows[s]],
         devPos'[s] = devPos[s], devTok'[s] = devTok[s], cache'[s] = cache[s]
  PROVE  Whole(s, f)'
<1>1. Stands(s, f[Len(queued)])'
  BY DEF Whole, Stands
<1> QED
  BY <1>1 DEF Whole

\* Texts stay where the rows in use, and what they hold, do.
LEMMA TextsStay ==
  ASSUME Texts, UNCHANGED <<queued, reading>>,
         \A s \in InUse' :
           /\ s \in InUse /\ rows'[s] = rows[s] /\ tokens'[rows[s]] = tokens[rows[s]]
           /\ devPos'[s] = devPos[s] /\ devTok'[s] = devTok[s] /\ cache'[s] = cache[s]
  PROVE  Texts'
<1> SUFFICES ASSUME NEW s \in InUse'
             PROVE  \E f : Whole(s, f)'
  BY DEF Texts
<1>1. PICK f : Whole(s, f)
  BY DEF Texts
<1>2. Whole(s, f)'
  BY <1>1, WholeStays
<1> QED
  BY <1>2

\* A step that queues, reads and admits nothing.
LEMMA QuietInv ==
  ASSUME IInv, BeginStep \/ PassesDone \/ DecodeNone \/ ReadDone \/ Rest \/ UNCHANGED vars
  PROVE  IInv'
<1>1. /\ UNCHANGED <<requestVars, lineVars, rows, positions, queued, reading, deviceVars>>
      /\ UNCHANGED <<admitted, passes, mixed>>
  BY DEF BeginStep, PassesDone, DecodeNone, ReadDone, Rest, vars, localVars, passVars
<1>2. UNCHANGED <<submitted, tokens, reason, pack, waiting, running, rows, positions, queued, reading,
                  devPos, devTok, devKey, cache, admitted, passes, mixed>>
  BY <1>1 DEF requestVars, lineVars, deviceVars
<1>3. /\ pc' \in {"idle", "admit", "pass", "mix", "decode", "read"}
      /\ (pc' # "admit" => admitted = <<>>) /\ (pc' # "pass" => passes = <<>>)
      /\ (pc' \notin {"pass", "mix"} => mixed = <<>>) /\ (pc' # "read" => reading = <<>>)
  <2>1. /\ (pc # "admit" => admitted = <<>>) /\ (pc # "pass" => passes = <<>>)
        /\ (pc \notin {"pass", "mix"} => mixed = <<>>) /\ (pc # "read" => reading = <<>>)
        /\ pc \in {"idle", "admit", "pass", "mix", "decode", "read"}
    BY DEF IInv, Steps, Types
  <2>2. CASE BeginStep
    BY <2>1, <2>2 DEF BeginStep, At, Goto
  <2>3. CASE PassesDone
    BY <2>1, <2>3 DEF PassesDone, At, Goto
  <2>4. CASE DecodeNone
    BY <2>1, <2>4 DEF DecodeNone, At, Goto
  <2>5. CASE ReadDone
    BY <2>1, <2>5 DEF ReadDone, At, Goto
  <2>6. CASE Rest \/ UNCHANGED vars
    BY <2>1, <2>6 DEF Rest, vars
  <2> QED
    BY <2>2, <2>3, <2>4, <2>5, <2>6
<1>4. Plan' /\ Due' = Due
  <2>1. CASE ReadDone
    <3>1. passes = <<>> /\ mixed = <<>>
      BY <2>1 DEF ReadDone, At, IInv, Steps
    <3>2. passes' = <<>> /\ mixed' = <<>>
      BY <1>2, <3>1
    <3>3. Plan' /\ Due' = {}
      <4>1. (passes = <<>> /\ mixed = <<>> => Due = {} /\ Plan)'
        BY NothingDue, PTL
      <4> QED
        BY <3>2, <4>1
    <3>4. Due = {}
      BY <3>1, NothingDue
    <3> QED
      BY <3>3, <3>4
  <2>2. CASE ~ReadDone
    <3>1. sharing' = sharing
      BY <2>2 DEF BeginStep, PassesDone, DecodeNone, Rest, vars, localVars
    <3>2. Rowed' = Rowed
      BY <1>2 DEF Rowed, InUse
    <3>3. Plan /\ \A p \in Due : rows'[p.slot] = None /\ p.req \notin Rowed'
      BY <1>2, <3>2 DEF IInv, Plan, Planned
    <3> QED
      BY <1>2, <3>1, <3>3, PlanStays
  <2> QED
    BY <2>1, <2>2
<1>5. InUse' = InUse /\ Rowed' = Rowed /\ FreeSlots' = FreeSlots
  BY <1>2 DEF Rowed, InUse, FreeSlots
<1>6. Types'
  <2>1. ahead' \in Nat
    <3>1. ahead' = ahead \/ ahead' = 0
      BY DEF BeginStep, PassesDone, DecodeNone, ReadDone, Rest, vars, passVars
    <3>2. ahead \in Nat
      BY DEF IInv, Types
    <3> QED
      BY <3>1, <3>2
  <2> QED
    BY <1>2, <1>3, <2>1 DEF IInv, Types
<1>7. Line'
  BY <1>2 DEF IInv, Line
<1>8. Seats'
  BY <1>2, <1>4, <1>5 DEF IInv, Seats
<1>9. Steps'
  BY <1>2, <1>3 DEF Steps
<1>10. Drawn'
  BY <1>2 DEF IInv, Drawn, DrawnOnce, DrawnInRow
<1>11. Going'
  BY <1>2, <1>5 DEF IInv, Going
<1>12. Texts'
  <2>1. Texts
    BY DEF IInv
  <2> QED
    BY <1>2, <1>5, <2>1, TextsStay
<1> QED
  BY <1>4, <1>6, <1>7, <1>8, <1>9, <1>10, <1>11, <1>12 DEF IInv

\* A row of nothing, and no passes.
LEMMA NothingIsRow == Nothing \in [Cell -> Text]
BY DEF Nothing, Cell, Text

\* The invariant holds at the start.
LEMMA InitInv ==
  ASSUME Init
  PROVE  IInv
<1>1. /\ submitted = <<>> /\ waiting = <<>> /\ running = <<>> /\ queued = <<>> /\ reading = <<>>
      /\ admitted = <<>> /\ passes = <<>> /\ mixed = <<>> /\ pc = "idle" /\ pack \in Packs
      /\ tokens = [r \in Request |-> <<>>] /\ reason = [r \in Request |-> ""]
      /\ rows = [s \in Slot |-> None] /\ positions = [s \in Slot |-> 0]
      /\ devPos = [s \in Slot |-> 0] /\ devTok = [s \in Slot |-> Junk] /\ devKey = [s \in Slot |-> None]
      /\ cache = [s \in Slot |-> Nothing]
  BY DEF Init
<1>2. InUse = {} /\ Rowed = {}
  BY <1>1 DEF InUse, Rowed
<1>3. Plan /\ Due = {}
  BY <1>1, NothingDue
<1>4. Types
  <2>1. 0 \in Cell
    BY RowEngineAssumption DEF Cell
  <2>2. devPos \in [Slot -> Cell] /\ cache \in [Slot -> [Cell -> Text]] /\ devKey = rows
    BY <1>1, <2>1, NothingIsRow
  <2>3. /\ rows \in [Slot -> Request \cup {None}] /\ positions \in [Slot -> Nat]
        /\ devTok \in [Slot -> Token \cup {Junk}]
        /\ tokens \in [Request -> Seq(Token)]
        /\ reason \in [Request -> {"", "eos", "length", "cache", "cancelled"}]
    <3>1. rows = [s \in Slot |-> None] /\ positions = [s \in Slot |-> 0] /\ devTok = [s \in Slot |-> Junk]
      BY <1>1
    <3>2. tokens = [r \in Request |-> <<>>] /\ <<>> \in Seq(Token)
      <4>1. tokens = [r \in Request |-> <<>>]
        BY <1>1
      <4>2. <<>> \in Seq(Token)
        OBVIOUS
      <4> QED
        BY <4>1, <4>2
    <3>3. reason = [r \in Request |-> ""]
      BY <1>1
    <3>4. rows \in [Slot -> Request \cup {None}] /\ positions \in [Slot -> Nat] /\ devTok \in [Slot -> Token \cup {Junk}]
      BY <3>1
    <3>5. tokens \in [Request -> Seq(Token)]
      BY <3>2
    <3> QED
      BY <3>3, <3>4, <3>5
  <2>5. ahead \in Nat
    BY DEF Init
  <2>4. /\ submitted \in Seq(Request) /\ waiting \in Seq(Request) /\ running \in Seq(Request)
        /\ reading \in Seq(Draw) /\ queued \in Seq(Seq(Draw)) /\ admitted \in Seq(Request)
        /\ passes \in Seq(Seq(Place)) /\ mixed \in Seq(Place)
    BY <1>1, EmptyLine, Zenon
  <2> QED
    BY <1>1, <2>2, <2>3, <2>4, <2>5 DEF Types
<1>5. Line
  BY <1>1, EmptyLine DEF Line
<1>6. Seats
  <2>1. FreeSlots \in SUBSET Slot
    BY DEF FreeSlots
  <2>2. Cardinality(FreeSlots) \in Nat
    BY <2>1, SlotsInOrder
  <2>3. Len(admitted) <= Cardinality(FreeSlots)
    <3>1. admitted = <<>>
      BY <1>1
    <3> QED
      BY <2>2, <3>1
  <2>4. Range(running) = {} /\ Range(admitted) = {}
    BY <1>1, EmptyLine
  <2> QED
    BY <1>2, <1>3, <2>3, <2>4 DEF Seats
<1>7. Steps
  BY <1>1 DEF Steps
<1>8. Drawn
  <2>1. 1..Len(reading) = {} /\ 1..Len(queued) = {}
    BY <1>1, NoPlaces, Zenon
  <2> QED
    BY <2>1 DEF Drawn, DrawnOnce, DrawnInRow
<1>9. Going
  BY <1>1, <1>2 DEF Going
<1>10. Texts
  BY <1>2 DEF Texts
<1> QED
  BY <1>3, <1>4, <1>5, <1>6, <1>7, <1>8, <1>9, <1>10 DEF IInv

\* A request submitted waits, last in the line.
LEMMA SubmitInv ==
  ASSUME IInv, NEW r \in Request, Submit(r)
  PROVE  IInv'
<1>1. /\ UNCHANGED <<pack, tokens, reason, running, rows, positions, queued, reading, ahead, pc,
                     admitted, passes, mixed, sharing, devPos, devTok, devKey, cache>>
      /\ submitted' = Append(submitted, r) /\ waiting' = Append(waiting, r) /\ r \notin Range(submitted)
  BY DEF Submit, passVars, localVars, deviceVars
<1>2. InUse' = InUse /\ Rowed' = Rowed /\ FreeSlots' = FreeSlots
  BY <1>1 DEF Rowed, InUse, FreeSlots
<1>3. Plan' /\ Due' = Due
  <2>1. Plan /\ \A p \in Due : rows'[p.slot] = None /\ p.req \notin Rowed'
    BY <1>1, <1>2 DEF IInv, Plan, Planned
  <2> QED
    BY <1>1, <2>1, PlanStays
<1>4. /\ submitted \in Seq(Request) /\ waiting \in Seq(Request)
      /\ Once(submitted) /\ Once(waiting) /\ reason[r] = ""
      /\ Range(waiting) \cup Range(running) = {q \in Range(submitted) : reason[q] = ""}
      /\ Range(waiting) \cap Range(running) = {}
  BY <1>1 DEF IInv, Types, Line
<1>5. /\ submitted' \in Seq(Request) /\ Range(submitted') = Range(submitted) \cup {r} /\ Once(submitted')
  <2>1. submitted \in Seq(Request) /\ Once(submitted) /\ r \notin Range(submitted) /\ submitted' = Append(submitted, r)
    BY <1>1, <1>4
  <2> QED
    BY <2>1, AppendOnce, Zenon
<1>6. r \notin Range(waiting) /\ r \notin Range(running)
  BY <1>1, <1>4
<1>7. waiting' \in Seq(Request) /\ Range(waiting') = Range(waiting) \cup {r} /\ Once(waiting')
  <2>1. waiting \in Seq(Request) /\ Once(waiting) /\ r \notin Range(waiting) /\ waiting' = Append(waiting, r)
    BY <1>1, <1>4, <1>6
  <2> QED
    BY <2>1, AppendOnce, Zenon
<1>8. Types'
  BY <1>1, <1>5, <1>7 DEF IInv, Types
<1>9. Line'
  <2>1. Range(waiting') \cap Range(running') = {}
    BY <1>1, <1>4, <1>6, <1>7
  <2>2. Range(waiting') \cup Range(running') = {q \in Range(submitted') : reason'[q] = ""}
    BY <1>1, <1>4, <1>5, <1>7
  <2>3. \A q \in Request \ Range(submitted') : reason'[q] = ""
    BY <1>1, <1>5 DEF IInv, Line
  <2>4. Once(running) /\ Once(admitted)
    BY DEF IInv, Line
  <2> QED
    BY <1>1, <1>5, <1>7, <2>1, <2>2, <2>3, <2>4 DEF Line
<1>10. Seats'
  BY <1>1, <1>2, <1>3 DEF IInv, Seats
<1>11. Steps'
  BY <1>1 DEF IInv, Steps
<1>12. Drawn'
  BY <1>1 DEF IInv, Drawn, DrawnOnce, DrawnInRow
<1>13. Going'
  BY <1>1, <1>2 DEF IInv, Going
<1>14. Texts'
  <2>1. Texts
    BY DEF IInv
  <2> QED
    BY <1>1, <1>2, <2>1, TextsStay
<1> QED
  BY <1>3, <1>8, <1>9, <1>10, <1>11, <1>12, <1>13, <1>14 DEF IInv

\* A request admitted runs, and is to get a row in this step.
LEMMA AdmitInv ==
  ASSUME IInv, Admit
  PROVE  IInv'
<1>1. /\ UNCHANGED <<pack, submitted, tokens, reason, rows, positions, queued, reading, ahead, pc,
                     passes, mixed, sharing, devPos, devTok, devKey, cache>>
      /\ waiting # <<>> /\ pc = "admit" /\ Len(admitted) < Cardinality(FreeSlots)
      /\ admitted' = Append(admitted, Head(waiting)) /\ running' = Append(running, Head(waiting))
      /\ waiting' = Tail(waiting)
  BY DEF Admit, requestVars, passVars, deviceVars, At
<1>2. InUse' = InUse /\ Rowed' = Rowed /\ FreeSlots' = FreeSlots
  BY <1>1 DEF Rowed, InUse, FreeSlots
<1>3. Plan' /\ Due' = Due
  <2>1. Plan /\ \A p \in Due : rows'[p.slot] = None /\ p.req \notin Rowed'
    BY <1>1, <1>2 DEF IInv, Plan, Planned
  <2> QED
    BY <1>1, <2>1, PlanStays
<1>4. /\ running \in Seq(Request) /\ waiting \in Seq(Request) /\ admitted \in Seq(Request)
      /\ Once(running) /\ Once(waiting) /\ Once(admitted)
      /\ Range(waiting) \cap Range(running) = {}
      /\ Range(waiting) \cup Range(running) = {q \in Range(submitted) : reason[q] = ""}
  BY DEF IInv, Types, Line
<1>5. /\ waiting' \in Seq(Request) /\ Head(waiting) \in Range(waiting)
      /\ Range(waiting') = Range(waiting) \ {Head(waiting)} /\ Once(waiting')
  BY <1>1, <1>4, TailOnce
<1>6. Head(waiting) \in Request
  BY <1>4, <1>5, RangeOfLine
<1>7. Head(waiting) \notin Range(running)
  BY <1>4, <1>5
<1>8. Range(running) = Rowed \cup Range(admitted) \cup {p.req : p \in Due} /\ Rowed \cap Range(admitted) = {}
  BY DEF IInv, Seats
<1>9. Head(waiting) \notin Rowed /\ Head(waiting) \notin Range(admitted)
  BY <1>7, <1>8
<1>10. /\ running' \in Seq(Request) /\ Range(running') = Range(running) \cup {Head(waiting)} /\ Once(running')
  <2>1. running' = Append(running, Head(waiting))
    BY <1>1
  <2> QED
    <3> DEFINE x == Head(waiting)
    <3>1. running \in Seq(Request) /\ x \in Request /\ x \notin Range(running) /\ Once(running)
      BY <1>4, <1>6, <1>7
    <3> HIDE DEF x
    <3>2. /\ Append(running, x) \in Seq(Request) /\ Range(Append(running, x)) = Range(running) \cup {x}
          /\ Once(Append(running, x))
      BY <3>1, AppendOnce
    <3> QED
      BY <2>1, <3>2 DEF x
<1>11. /\ admitted' \in Seq(Request) /\ Range(admitted') = Range(admitted) \cup {Head(waiting)} /\ Once(admitted')
  <2>1. admitted' = Append(admitted, Head(waiting))
    BY <1>1
  <2> QED
    <3> DEFINE x == Head(waiting)
    <3>1. admitted \in Seq(Request) /\ x \in Request /\ x \notin Range(admitted) /\ Once(admitted)
      BY <1>4, <1>6, <1>9
    <3> HIDE DEF x
    <3>2. /\ Append(admitted, x) \in Seq(Request) /\ Range(Append(admitted, x)) = Range(admitted) \cup {x}
          /\ Once(Append(admitted, x))
      BY <3>1, AppendOnce
    <3> QED
      BY <2>1, <3>2 DEF x
<1>12. Types'
  BY <1>1, <1>5, <1>10, <1>11 DEF IInv, Types
<1>13. Line'
  <2>1. Range(waiting') \cap Range(running') = {}
    BY <1>4, <1>5, <1>10
  <2>2. Range(waiting') \cup Range(running') = {q \in Range(submitted') : reason'[q] = ""}
    BY <1>1, <1>4, <1>5, <1>10
  <2> QED
    BY <1>1, <1>5, <1>10, <1>11, <2>1, <2>2 DEF IInv, Line
<1>14. Seats'
  <2>1. Range(running') = Rowed' \cup Range(admitted') \cup {p.req : p \in Due'}
    BY <1>2, <1>3, <1>8, <1>10, <1>11
  <2>2. Rowed' \cap Range(admitted') = {}
    BY <1>2, <1>8, <1>9, <1>11
  <2>3. Len(admitted') = Len(admitted) + 1 /\ Len(admitted) \in Nat
    <3>1. admitted' = Append(admitted, Head(waiting)) /\ admitted \in Seq(Request)
      BY <1>1, <1>4
    <3> QED
      BY <1>6, <3>1
  <2>4. FreeSlots \in SUBSET Slot
    BY DEF FreeSlots
  <2>5. Cardinality(FreeSlots) \in Nat
    BY <2>4, SlotsInOrder
  <2>6. Len(admitted') <= Cardinality(FreeSlots')
    BY <1>1, <1>2, <2>3, <2>5
  <2>7. \A s, t \in InUse' : rows'[s] = rows'[t] => s = t
    BY <1>1, <1>2 DEF IInv, Seats
  <2> QED
    BY <2>1, <2>2, <2>6, <2>7 DEF Seats
<1>15. Steps'
  BY <1>1 DEF IInv, Steps
<1>16. Drawn'
  BY <1>1 DEF IInv, Drawn, DrawnOnce, DrawnInRow
<1>17. Going'
  BY <1>1, <1>2 DEF IInv, Going
<1>18. Texts'
  <2>1. Texts
    BY DEF IInv
  <2> QED
    BY <1>1, <1>2, <2>1, TextsStay
<1> QED
  BY <1>3, <1>12, <1>13, <1>14, <1>15, <1>16, <1>17, <1>18 DEF IInv

-----------------------------------------------------------------------------
(* The end of a request.                                                    *)

\* The row of the request is free, and the others stay.
LEMMA Released ==
  ASSUME Types, \A s, t \in InUse : rows[s] = rows[t] => s = t, NEW r \in Request, Release(r)
  PROVE  /\ rows' \in [Slot -> Request \cup {None}] /\ devKey' = rows'
         /\ devPos' \in [Slot -> Cell] /\ devTok' \in [Slot -> Token \cup {Junk}]
         /\ cache' \in [Slot -> [Cell -> Text]]
         /\ InUse' = {s \in InUse : rows[s] # r} /\ Rowed' = Rowed \ {r}
         /\ \A s \in Slot : rows[s] # r =>
              /\ rows'[s] = rows[s] /\ devPos'[s] = devPos[s] /\ devTok'[s] = devTok[s]
              /\ cache'[s] = cache[s]
<1>1. /\ rows \in [Slot -> Request \cup {None}] /\ devKey = rows /\ devPos \in [Slot -> Cell]
      /\ devTok \in [Slot -> Token \cup {Junk}] /\ cache \in [Slot -> [Cell -> Text]]
  BY DEF Types
<1>2. r # None /\ 0 \in Cell
  BY RowEngineAssumption DEF Cell
<1>3. CASE ~ \E t \in Slot : rows[t] = r
  <2>1. UNCHANGED <<rows, devPos, devTok, devKey, cache>>
    BY <1>3 DEF Release, deviceVars
  <2>2. InUse' = InUse /\ Rowed' = Rowed
    BY <2>1 DEF InUse, Rowed
  <2>3. InUse = {s \in InUse : rows[s] # r} /\ Rowed = Rowed \ {r}
    BY <1>3 DEF InUse, Rowed
  <2> QED
    BY <1>1, <2>1, <2>2, <2>3
<1>4. CASE \E t \in Slot : rows[t] = r
  <2> DEFINE s == CHOOSE s \in Slot : rows[s] = r
  <2>1. s \in Slot /\ rows[s] = r
    BY <1>4
  <2>2. /\ rows' = [rows EXCEPT ![s] = None] /\ cache' = [cache EXCEPT ![s] = Nothing]
        /\ devTok' = [devTok EXCEPT ![s] = Junk] /\ devPos' = [devPos EXCEPT ![s] = 0]
        /\ devKey' = [devKey EXCEPT ![s] = None]
    BY <1>4 DEF Release
  <2> HIDE DEF s
  <2>3. \A t \in Slot : rows[t] = r => t = s
    BY <1>2, <2>1 DEF InUse
  <2>4. /\ rows' \in [Slot -> Request \cup {None}] /\ devKey' = rows'
        /\ devPos' \in [Slot -> Cell] /\ devTok' \in [Slot -> Token \cup {Junk}]
    BY <1>1, <1>2, <2>1, <2>2
  <2>5. cache' \in [Slot -> [Cell -> Text]]
    BY <1>1, <2>1, <2>2, NothingIsRow
  <2>6. \A t \in Slot : t # s =>
          /\ rows'[t] = rows[t] /\ devPos'[t] = devPos[t] /\ devTok'[t] = devTok[t] /\ cache'[t] = cache[t]
    BY <1>1, <2>2
  <2>7. rows'[s] = None
    BY <1>1, <2>1, <2>2
  <2>8. InUse' = {t \in InUse : rows[t] # r}
    BY <2>1, <2>3, <2>6, <2>7 DEF InUse
  <2>9. Rowed' = Rowed \ {r}
    <3>1. \A x : x \in Rowed' <=> \E t \in InUse : rows[t] # r /\ x = rows[t]
      <4>1. \A t \in InUse' : rows'[t] = rows[t]
        BY <2>1, <2>6, <2>8 DEF InUse
      <4> QED
        BY <2>8, <4>1 DEF Rowed
    <3> QED
      BY <3>1 DEF Rowed
  <2> QED
    BY <2>1, <2>4, <2>5, <2>6, <2>8, <2>9
<1> QED
  BY <1>3, <1>4

\* Nothing is fewer than none.
LEMMA NoneFewer == \A n \in Nat : 0 <= n
OBVIOUS

\* A request that ends leaves the line and its row.
LEMMA EndedLine ==
  ASSUME IInv, Due = {}, Due' = {}, admitted = <<>>, admitted' = <<>>,
         NEW r \in Request, reason[r] = "", r \in Range(submitted),
         NEW x \in {"eos", "length", "cache", "cancelled"},
         reason' = [reason EXCEPT ![r] = x],
         waiting' = Without(waiting, r), running' = Without(running, r), Release(r),
         UNCHANGED submitted
  PROVE  /\ Line' /\ Seats'
         /\ waiting' \in Seq(Request) /\ running' \in Seq(Request)
         /\ reason' \in [Request -> {"", "eos", "length", "cache", "cancelled"}]
         /\ \A q \in Request : reason'[q] = "" <=> reason[q] = "" /\ q # r
<1>1. Types /\ Line /\ Seats
  BY DEF IInv
<1>2. /\ waiting \in Seq(Request) /\ running \in Seq(Request)
      /\ reason \in [Request -> {"", "eos", "length", "cache", "cancelled"}]
      /\ submitted \in Seq(Request)
  BY <1>1 DEF Types
<1>3. /\ Once(waiting) /\ Once(running) /\ Once(submitted)
      /\ Range(waiting) \cap Range(running) = {}
      /\ Range(waiting) \cup Range(running) = {q \in Range(submitted) : reason[q] = ""}
      /\ \A q \in Request \ Range(submitted) : reason[q] = ""
  BY <1>1 DEF Line
<1>4. waiting' \in Seq(Request) /\ Range(waiting') = Range(waiting) \ {r} /\ Once(waiting')
  BY <1>2, <1>3, WithoutOnce
<1>5. running' \in Seq(Request) /\ Range(running') = Range(running) \ {r} /\ Once(running')
  BY <1>2, <1>3, WithoutOnce
<1>6. /\ reason' \in [Request -> {"", "eos", "length", "cache", "cancelled"}]
      /\ \A q \in Request : reason'[q] = "" <=> reason[q] = "" /\ q # r
  BY <1>2
<1>7. Range(submitted) \subseteq Request
  BY <1>2, RangeOfLine
<1>8. Line'
  <2>1. Range(waiting') \cap Range(running') = {}
    BY <1>3, <1>4, <1>5
  <2>2. Range(waiting') \cup Range(running') = {q \in Range(submitted') : reason'[q] = ""}
    BY <1>3, <1>4, <1>5, <1>6, <1>7
  <2>3. \A q \in Request \ Range(submitted') : reason'[q] = ""
    BY <1>3, <1>6
  <2>4. Once(submitted') /\ Once(admitted')
    BY <1>3, EmptyLine
  <2> QED
    BY <1>4, <1>5, <2>1, <2>2, <2>3, <2>4 DEF Line
<1>9. \A s, t \in InUse : rows[s] = rows[t] => s = t
  BY <1>1 DEF Seats
<1>10. InUse' = {s \in InUse : rows[s] # r} /\ Rowed' = Rowed \ {r}
       /\ \A s \in Slot : rows[s] # r => rows'[s] = rows[s]
  BY <1>1, <1>9, Released
<1>11. Seats'
  <2>1. Range(admitted) = {} /\ Range(admitted') = {} /\ Len(admitted') = 0
    BY EmptyLine
  <2>2. Range(running) = Rowed
    BY <1>1, <2>1 DEF Seats
  <2>3. Range(running') = Rowed' \cup Range(admitted') \cup {p.req : p \in Due'}
    BY <1>5, <1>10, <2>1, <2>2
  <2>4. \A s, t \in InUse' : rows'[s] = rows'[t] => s = t
    BY <1>9, <1>10 DEF InUse
  <2>5. FreeSlots' \in SUBSET Slot
    BY DEF FreeSlots
  <2>6. Cardinality(FreeSlots') \in Nat
    BY <2>5, SlotsInOrder
  <2>7. Len(admitted') <= Cardinality(FreeSlots')
    BY <2>1, <2>6, NoneFewer, Zenon
  <2>8. Rowed' \cap Range(admitted') = {}
    BY <2>1
  <2> QED
    BY <2>3, <2>4, <2>7, <2>8 DEF Seats
<1> QED
  BY <1>4, <1>5, <1>6, <1>8, <1>11

\* A request's row is one of those that are not the ended one's.
LEMMA DrawnStays ==
  ASSUME Types, NEW r \in Request, NEW pass \in Seq(Draw), DrawnInRow(pass),
         \A q \in Request : reason'[q] = "" => reason[q] = "" /\ q # r,
         \A s \in Slot : rows[s] # r => rows'[s] = rows[s]
  PROVE  \A i \in 1..Len(pass) : reason'[pass[i].req] = "" => rows'[pass[i].slot] = pass[i].req
<1> SUFFICES ASSUME NEW i \in 1..Len(pass), reason'[pass[i].req] = ""
             PROVE  rows'[pass[i].slot] = pass[i].req
  OBVIOUS
<1>1. pass[i] \in Draw
  BY PlacesOfLine, Zenon
<1>2. pass[i].slot \in Slot /\ pass[i].req \in Request
  BY <1>1 DEF Draw
<1>3. reason[pass[i].req] = "" /\ pass[i].req # r
  BY <1>2
<1>4. rows[pass[i].slot] = pass[i].req
  BY <1>3 DEF DrawnInRow
<1> QED
  BY <1>2, <1>3, <1>4

\* Between steps nothing is due, admitted or read.
LEMMA BetweenSteps ==
  ASSUME IInv, pc \in {"idle", "read"}
  PROVE  passes = <<>> /\ mixed = <<>> /\ admitted = <<>> /\ Due = {} /\ (pc = "idle" => reading = <<>>)
<1>1. passes = <<>> /\ mixed = <<>> /\ admitted = <<>> /\ (pc = "idle" => reading = <<>>)
  BY DEF IInv, Steps
<1> QED
  BY <1>1, NothingDue

\* A request cancelled leaves the others theirs.
LEMMA CancelInv ==
  ASSUME IInv, NEW r \in Request, Cancel(r)
  PROVE  IInv'
<1>1. /\ pc = "idle" /\ r \in Range(submitted) /\ reason[r] = ""
      /\ reason' = [reason EXCEPT ![r] = "cancelled"]
      /\ waiting' = Without(waiting, r) /\ running' = Without(running, r) /\ Release(r)
      /\ UNCHANGED <<pack, submitted, tokens, positions, queued, reading, ahead, pc, admitted, passes, mixed, sharing>>
  BY DEF Cancel, At, passVars, localVars
<1>2. passes = <<>> /\ mixed = <<>> /\ admitted = <<>> /\ Due = {} /\ reading = <<>>
  BY <1>1, BetweenSteps
<1>3. Plan' /\ Due' = {}
  <2>1. (passes = <<>> /\ mixed = <<>> => Due = {} /\ Plan)'
    BY NothingDue, PTL
  <2>2. passes' = <<>> /\ mixed' = <<>>
    BY <1>1, <1>2
  <2> QED
    BY <2>1, <2>2
<1>4. "cancelled" \in {"eos", "length", "cache", "cancelled"}
  OBVIOUS
<1>5. /\ Line' /\ Seats' /\ waiting' \in Seq(Request) /\ running' \in Seq(Request)
      /\ reason' \in [Request -> {"", "eos", "length", "cache", "cancelled"}]
      /\ \A q \in Request : reason'[q] = "" <=> reason[q] = "" /\ q # r
  <2>1. admitted' = <<>> /\ submitted' = submitted
    BY <1>1, <1>2
  <2> QED
    BY <1>1, <1>2, <1>3, <1>4, <2>1, EndedLine
<1>6. \A s, t \in InUse : rows[s] = rows[t] => s = t
  BY DEF IInv, Seats
<1>7. /\ rows' \in [Slot -> Request \cup {None}] /\ devKey' = rows'
      /\ devPos' \in [Slot -> Cell] /\ devTok' \in [Slot -> Token \cup {Junk}]
      /\ cache' \in [Slot -> [Cell -> Text]]
      /\ InUse' = {s \in InUse : rows[s] # r} /\ Rowed' = Rowed \ {r}
      /\ \A s \in Slot : rows[s] # r =>
           /\ rows'[s] = rows[s] /\ devPos'[s] = devPos[s] /\ devTok'[s] = devTok[s]
           /\ cache'[s] = cache[s]
  BY <1>1, <1>6, Released DEF IInv
<1>8. Types'
  BY <1>1, <1>5, <1>7 DEF IInv, Types
<1>9. Steps'
  BY <1>1, <1>2 DEF Steps
<1>10. Drawn'
  <2>1. Types /\ Drawn /\ queued \in Seq(Seq(Draw))
    BY DEF IInv, Types
  <2>2. ASSUME NEW k \in 1..Len(queued)
        PROVE  DrawnOnce(queued[k]) /\ \A i \in 1..Len(queued[k]) :
                 reason'[queued[k][i].req] = "" => rows'[queued[k][i].slot] = queued[k][i].req
    <3>1. queued[k] \in Seq(Draw)
      BY <2>1, PlacesOfLine, Zenon
    <3>2. DrawnOnce(queued[k]) /\ DrawnInRow(queued[k])
      BY <2>1 DEF Drawn
    <3> QED
      BY <1>5, <1>7, <2>1, <3>1, <3>2, DrawnStays
  <2>3. queued' = queued /\ reading' = <<>>
    BY <1>1, <1>2
  <2>4. 1..Len(reading') = {}
    BY <2>3, NoPlaces, Zenon
  <2> QED
    BY <2>2, <2>3, <2>4 DEF Drawn, DrawnOnce, DrawnInRow
<1>11. Going'
  <2>1. Going
    BY DEF IInv
  <2>2. tokens' = tokens /\ positions' = positions
    BY <1>1
  <2>3. \A s \in InUse' : s \in InUse /\ rows'[s] = rows[s]
    BY <1>7 DEF InUse
  <2> QED
    BY <1>5, <1>7, <2>1, <2>2, <2>3 DEF Going
<1>12. Texts'
  <2>1. Texts /\ UNCHANGED <<queued, reading, tokens>>
    BY <1>1 DEF IInv
  <2>2. \A s \in InUse' :
          /\ s \in InUse /\ rows'[s] = rows[s]
          /\ devPos'[s] = devPos[s] /\ devTok'[s] = devTok[s] /\ cache'[s] = cache[s]
    BY <1>7 DEF InUse
  <2> QED
    BY <2>1, <2>2, TextsStay
<1> QED
  BY <1>3, <1>5, <1>8, <1>9, <1>10, <1>11, <1>12 DEF IInv

-----------------------------------------------------------------------------
(* The passes read.                                                         *)

\* A pass draws for a request at one of its places.
LEMMA DrawsAt ==
  ASSUME NEW S, NEW pass \in Seq(S), NEW r
  PROVE  Draws(pass, r) <=> \E i \in 1..Len(pass) : pass[i].req = r
BY DEF Draws

\* The token read is a pass's first; the rest are other requests'.
LEMMA TokensLeft ==
  ASSUME NEW pass \in Seq(Draw), pass # <<>>, DrawnOnce(pass)
  PROVE  /\ 1 \in 1..Len(pass) /\ Head(pass) = pass[1] /\ Head(pass) \in Draw
         /\ Tail(pass) \in Seq(Draw) /\ Len(Tail(pass)) = Len(pass) - 1
         /\ \A i \in 1..Len(Tail(pass)) :
              i + 1 \in 1..Len(pass) /\ Tail(pass)[i] = pass[i + 1] /\ pass[i + 1].req # Head(pass).req
         /\ \A j \in 1..Len(pass) : j = 1 \/ j - 1 \in 1..Len(Tail(pass))
         /\ DrawnOnce(Tail(pass))
         /\ DrawnInRow(pass) => DrawnInRow(Tail(pass))
<1> DEFINE n == Len(pass)  rest == Tail(pass)
<1>1. n \in Nat /\ 1 \in 1..n /\ Head(pass) = pass[1]
  OBVIOUS
<1>2. rest \in Seq(Draw) /\ Len(rest) = n - 1 /\ \A i \in 1..(n - 1) : rest[i] = pass[i + 1]
  OBVIOUS
<1>3. Head(pass) \in Draw
  <2>1. \A i \in 1..Len(pass) : pass[i] \in Draw
    BY PlacesOfLine
  <2> QED
    BY <1>1, <2>1
<1> HIDE DEF n, rest
<1>4. \A i \in 1..Len(rest) : i + 1 \in 1..n /\ 1 # i + 1 /\ rest[i] = pass[i + 1]
  BY <1>1, <1>2
<1>5. \A j \in 1..n : j = 1 \/ j - 1 \in 1..Len(rest)
  BY <1>1, <1>2
<1>6. \A i, j \in 1..n : pass[i].req = pass[j].req => i = j
  BY DEF DrawnOnce, n
<1>7. \A i \in 1..Len(rest) : pass[i + 1].req # pass[1].req
  BY <1>1, <1>4, <1>6
<1>8. DrawnOnce(rest)
  <2>1. \A i, j \in 1..Len(rest) : i + 1 = j + 1 => i = j
    OBVIOUS
  <2> QED
    BY <1>4, <1>6, <2>1 DEF DrawnOnce
<1>9. DrawnInRow(pass) => DrawnInRow(rest)
  BY <1>4 DEF DrawnInRow, n
<1> QED
  BY <1>1, <1>2, <1>3, <1>4, <1>5, <1>7, <1>8, <1>9 DEF n, rest

\* What the tokens left of a pass add to another request's text.
LEMMA AddsLeft ==
  ASSUME NEW pass \in Seq(Draw), pass # <<>>, DrawnOnce(pass), NEW q, q # Head(pass).req,
         NEW before, NEW after, Adds(q, pass, before, after)
  PROVE  Adds(q, Tail(pass), before, after)
<1> DEFINE rest == Tail(pass)
<1>1. /\ 1 \in 1..Len(pass) /\ Head(pass) = pass[1] /\ rest \in Seq(Draw)
      /\ \A i \in 1..Len(rest) : i + 1 \in 1..Len(pass) /\ rest[i] = pass[i + 1]
      /\ \A j \in 1..Len(pass) : j = 1 \/ j - 1 \in 1..Len(rest)
  BY TokensLeft
<1>2. \A j \in 1..Len(pass) : (j - 1) + 1 = j
  OBVIOUS
<1> HIDE DEF rest
<1>3. ASSUME ~Draws(rest, q)
      PROVE  after = before
  <2>1. \A i \in 1..Len(rest) : rest[i].req # q
    BY <1>1, <1>3, DrawsAt
  <2>2. \A j \in 1..Len(pass) : pass[j].req # q
    <3> SUFFICES ASSUME NEW j \in 1..Len(pass)
                 PROVE  pass[j].req # q
      OBVIOUS
    <3>1. CASE j = 1
      BY <1>1, <3>1
    <3>2. CASE j # 1
      <4>1. j - 1 \in 1..Len(rest)
        BY <1>1, <3>2
      <4>2. rest[j - 1] = pass[j]
        BY <1>1, <1>2, <4>1
      <4> QED
        BY <2>1, <4>1, <4>2
    <3> QED
      BY <3>1, <3>2
  <2>3. ~Draws(pass, q)
    BY <2>2, DrawsAt
  <2> QED
    BY <2>3 DEF Adds
<1>4. \A i \in 1..Len(rest) : rest[i].req = q =>
        /\ after = Append(before, rest[i].token) /\ (rest[i].prompt <=> before = Prompt[q])
        /\ OnTrack(q, before) => rest[i].text = before /\ rest[i].key = q
  BY <1>1 DEF Adds
<1> QED
  BY <1>3, <1>4 DEF Adds, rest

\* Between steps and in reading, who has not ended and runs has a row.
LEMMA RowsRun ==
  ASSUME IInv
  PROVE  \A s \in InUse : rows[s] \in Request /\ rows[s] \in Range(running) /\ reason[rows[s]] = ""
<1>1. /\ Range(running) = Rowed \cup Range(admitted) \cup {p.req : p \in Due}
      /\ Range(waiting) \cup Range(running) = {r \in Range(submitted) : reason[r] = ""}
      /\ running \in Seq(Request)
  BY DEF IInv, Types, Line, Seats
<1>2. Range(running) \subseteq Request
  BY <1>1, RangeOfLine
<1> QED
  BY <1>1, <1>2 DEF Rowed

\* The next pass read.
LEMMA PopPassInv ==
  ASSUME IInv, PopPass
  PROVE  IInv'
<1>1. /\ pc = "read" /\ reading = <<>> /\ reading' = Head(queued) /\ queued' = Tail(queued)
      /\ Len(queued) > ahead
      /\ UNCHANGED <<submitted, tokens, reason, pack, waiting, running, rows, positions, pc,
                     admitted, passes, mixed, sharing, devPos, devTok, devKey, cache>>
  BY DEF PopPass, At, requestVars, lineVars, localVars, deviceVars
<1>2. InUse' = InUse /\ Rowed' = Rowed /\ FreeSlots' = FreeSlots
  BY <1>1 DEF Rowed, InUse, FreeSlots
<1>3. Plan' /\ Due' = Due
  <2>1. Plan /\ \A p \in Due : rows'[p.slot] = None /\ p.req \notin Rowed'
    BY <1>1, <1>2 DEF IInv, Plan, Planned
  <2> QED
    BY <1>1, <2>1, PlanStays
<1>4. queued \in Seq(Seq(Draw)) /\ reading \in Seq(Draw)
  BY DEF IInv, Types
<1>5. queued # <<>>
  <2>1. ahead \in Nat /\ Len(queued) > ahead
    BY <1>1 DEF IInv, Types
  <2>2. queued = <<>> => Len(queued) = 0
    OBVIOUS
  <2> QED
    BY <2>1, <2>2
<1>16. \E m, line : m = Len(queued) /\ line = Tail(queued)
  OBVIOUS
<1>17. PICK n, rest : n = Len(queued) /\ rest = Tail(queued)
  BY <1>16
<1>6. /\ n \in Nat /\ 1 \in 1..n /\ Head(queued) = queued[1]
      /\ rest \in Seq(Seq(Draw)) /\ Len(rest) = n - 1
      /\ \A k \in 1..(n - 1) : rest[k] = queued[k + 1] /\ k + 1 \in 1..n
  BY <1>4, <1>5, <1>17
<1>7. queued[1] \in Seq(Draw)
  BY <1>4, <1>6, <1>17, PlacesOfLine
<1>8. Types'
  <2>1. reading' \in Seq(Draw) /\ queued' \in Seq(Seq(Draw))
    BY <1>1, <1>6, <1>7, <1>17
  <2>2. ahead' = ahead
    BY DEF PopPass
  <2> QED
    BY <1>1, <2>1, <2>2 DEF IInv, Types
<1>9. Line'
  BY <1>1 DEF IInv, Line
<1>10. Seats'
  BY <1>1, <1>2, <1>3 DEF IInv, Seats
<1>11. Steps'
  BY <1>1 DEF IInv, Steps
<1>12. Drawn'
  <2>1. \A k \in 1..n : DrawnOnce(queued[k]) /\ DrawnInRow(queued[k])
    BY <1>17 DEF IInv, Drawn
  <2>2. ASSUME NEW k \in 1..n
        PROVE  DrawnOnce(queued[k]) /\ \A i \in 1..Len(queued[k]) :
                 reason'[queued[k][i].req] = "" => rows'[queued[k][i].slot] = queued[k][i].req
    BY <1>1, <2>1 DEF DrawnInRow
  <2>3. DrawnOnce(reading') /\ \A i \in 1..Len(reading') :
          reason'[reading'[i].req] = "" => rows'[reading'[i].slot] = reading'[i].req
    <3>1. reading' = queued[1] /\ 1 \in 1..n
      BY <1>1, <1>6
    <3> QED
      BY <2>2, <3>1
  <2>4. \A k \in 1..Len(queued') : queued'[k] = queued[k + 1] /\ k + 1 \in 1..n
    <3>1. queued' = rest /\ Len(rest) = n - 1
      BY <1>1, <1>6, <1>17
    <3> QED
      BY <1>6, <3>1
  <2>5. \A k \in 1..Len(queued') : DrawnOnce(queued'[k]) /\ \A i \in 1..Len(queued'[k]) :
          reason'[queued'[k][i].req] = "" => rows'[queued'[k][i].slot] = queued'[k][i].req
    <3> TAKE k \in 1..Len(queued')
    <3>1. PICK m \in 1..n : m = k + 1 /\ queued'[k] = queued[m]
      BY <2>4
    <3>2. PICK pass : pass = queued[m]
      OBVIOUS
    <3>3. DrawnOnce(pass) /\ \A i \in 1..Len(pass) :
            reason'[pass[i].req] = "" => rows'[pass[i].slot] = pass[i].req
      BY <2>2, <3>2
    <3>4. queued'[k] = pass
      BY <3>1, <3>2
    <3> QED
      BY <3>3, <3>4
  <2> QED
    BY <2>3, <2>5 DEF Drawn, DrawnOnce, DrawnInRow
<1>13. Going'
  BY <1>1, <1>2 DEF IInv, Going
<1>14. Texts'
  <2> SUFFICES ASSUME NEW s \in InUse'
               PROVE  \E f : Whole(s, f)'
    BY DEF Texts
  <2>11. PICK r, own : r = rows[s] /\ own = Prompt[r] \o tokens[r]
    OBVIOUS
  <2>1. PICK f : Whole(s, f)
    BY <1>2 DEF IInv, Texts
  <2>2. /\ Adds(r, reading, own, f[0]) /\ f \in [0..n -> Seq(Token)]
        /\ \A k \in 1..n : Adds(r, queued[k], f[k - 1], f[k])
        /\ Stands(s, f[n])
    BY <1>17, <2>1, <2>11 DEF Whole, Grows
  <2>3. f[0] = own
    <3>1. ~Draws(reading, r)
      BY <1>1, <1>4, NoPlaces, DrawsAt
    <3> QED
      BY <2>2, <3>1 DEF Adds
  <2>12. PICK g : g = [k \in 0..(n - 1) |-> f[k + 1]]
    OBVIOUS
  <2>4. /\ g \in [0..(n - 1) -> Seq(Token)] /\ g[0] = f[1] /\ g[n - 1] = f[n]
        /\ \A k \in 1..(n - 1) : g[k - 1] = f[k] /\ g[k] = f[k + 1] /\ k + 1 \in 1..n /\ (k + 1) - 1 = k
    <3>1. \A k \in 0..(n - 1) : k + 1 \in 0..n
      BY <1>6
    <3>2. g \in [0..(n - 1) -> Seq(Token)]
      BY <2>2, <2>12, <3>1
    <3>3. 0 \in 0..(n - 1) /\ n - 1 \in 0..(n - 1) /\ (n - 1) + 1 = n /\ 0 + 1 = 1
      BY <1>6
    <3>4. \A k \in 1..(n - 1) : k - 1 \in 0..(n - 1) /\ (k - 1) + 1 = k /\ k \in 0..(n - 1) /\ k + 1 \in 1..n /\ (k + 1) - 1 = k
      BY <1>6
    <3> QED
      BY <2>12, <3>2, <3>3, <3>4
  <2>5. Adds(r, queued[1], own, g[0])
    <3>1. 1 - 1 = 0 /\ 1 \in 1..n
      BY <1>6
    <3>2. Adds(r, queued[1], f[1 - 1], f[1])
      BY <2>2, <3>1
    <3> QED
      BY <2>3, <2>4, <3>1, <3>2
  <2>6. \A k \in 1..(n - 1) : Adds(r, rest[k], g[k - 1], g[k])
    <3> SUFFICES ASSUME NEW k \in 1..(n - 1)
                 PROVE  Adds(r, rest[k], g[k - 1], g[k])
      OBVIOUS
    <3>1. Adds(r, queued[k + 1], f[(k + 1) - 1], f[k + 1])
      BY <2>2, <2>4
    <3> QED
      BY <1>6, <2>4, <3>1
  <2>7. /\ rows'[s] = r /\ reading' = queued[1] /\ queued' = rest /\ Len(queued') = n - 1
        /\ Prompt[r] \o tokens'[r] = own
    BY <1>1, <1>6, <1>17, <2>11
  <2>8. Stands(s, g[n - 1])'
    <3>1. Stands(s, g[n - 1])
      BY <2>2, <2>4
    <3>2. UNCHANGED <<rows, devPos, devTok, cache>>
      BY <1>1
    <3> QED
      BY <3>1, <3>2 DEF Stands
  <2>9. Grows(r, rest, g)
    BY <1>6, <2>4, <2>6 DEF Grows
  <2>10. Whole(s, g)'
    BY <2>5, <2>7, <2>8, <2>9 DEF Whole
  <2> QED
    BY <2>10
<1> QED
  BY <1>3, <1>8, <1>9, <1>10, <1>11, <1>12, <1>13, <1>14 DEF IInv

\* A token of a request that has ended is passed over.
LEMMA SkipTokenInv ==
  ASSUME IInv, SkipToken
  PROVE  IInv'
<1>1. /\ pc = "read" /\ reading # <<>> /\ reason[Head(reading).req] # "" /\ reading' = Tail(reading)
      /\ UNCHANGED <<submitted, tokens, reason, pack, waiting, running, rows, positions, queued, ahead,
                     pc, admitted, passes, mixed, sharing, devPos, devTok, devKey, cache>>
  BY DEF SkipToken, At, requestVars, lineVars, localVars, deviceVars
<1>2. InUse' = InUse /\ Rowed' = Rowed /\ FreeSlots' = FreeSlots
  BY <1>1 DEF Rowed, InUse, FreeSlots
<1>3. Plan' /\ Due' = Due
  <2>1. Plan /\ \A p \in Due : rows'[p.slot] = None /\ p.req \notin Rowed'
    BY <1>1, <1>2 DEF IInv, Plan, Planned
  <2> QED
    BY <1>1, <2>1, PlanStays
<1>4. reading \in Seq(Draw) /\ DrawnOnce(reading) /\ DrawnInRow(reading)
  BY DEF IInv, Types, Drawn
<1>5. Tail(reading) \in Seq(Draw) /\ DrawnOnce(Tail(reading)) /\ DrawnInRow(Tail(reading))
  <2>1. reading # <<>>
    BY <1>1
  <2> QED
    BY <1>4, <2>1, TokensLeft, Zenon
<1>6. Types'
  BY <1>1, <1>5 DEF IInv, Types
<1>7. Line'
  BY <1>1 DEF IInv, Line
<1>8. Seats'
  BY <1>1, <1>2, <1>3 DEF IInv, Seats
<1>9. Steps'
  BY <1>1 DEF IInv, Steps
<1>10. Drawn'
  BY <1>1, <1>5 DEF IInv, Drawn, DrawnOnce, DrawnInRow
<1>11. Going'
  BY <1>1, <1>2 DEF IInv, Going
<1>12. Texts'
  <2> SUFFICES ASSUME NEW s \in InUse'
               PROVE  \E f : Whole(s, f)'
    BY DEF Texts
  <2>1. PICK f : Whole(s, f)
    BY <1>2 DEF IInv, Texts
  <2>2. rows[s] # Head(reading).req
    BY <1>1, <1>2, RowsRun
  <2>3. Adds(rows[s], Tail(reading), Prompt[rows[s]] \o tokens[rows[s]], f[0])
    <3>1. Adds(rows[s], reading, Prompt[rows[s]] \o tokens[rows[s]], f[0])
      BY <2>1 DEF Whole
    <3> QED
      BY <1>1, <1>4, <2>2, <3>1, AddsLeft
  <2>4. Stands(s, f[Len(queued)])'
    BY <1>1, <2>1 DEF Whole, Stands
  <2>5. Whole(s, f)'
    BY <1>1, <2>1, <2>3, <2>4 DEF Whole
  <2> QED
    BY <2>5
<1> QED
  BY <1>3, <1>6, <1>7, <1>8, <1>9, <1>10, <1>11, <1>12 DEF IInv

\* A prompt, and what follows it.
LEMMA TextAndMore ==
  ASSUME NEW S, NEW p \in Seq(S), NEW more \in Seq(S)
  PROVE  /\ p \o more \in Seq(S) /\ Len(p \o more) = Len(p) + Len(more)
         /\ Len(p) \in Nat /\ Len(more) \in Nat
         /\ p \o more = p <=> more = <<>>
         /\ \A x \in S : p \o Append(more, x) = Append(p \o more, x)
<1>1. Len(p \o more) = Len(p) + Len(more) /\ Len(p) \in Nat /\ Len(more) \in Nat /\ p \o more \in Seq(S)
  OBVIOUS
<1>2. p \o more = p <=> more = <<>>
  <2>1. ASSUME p \o more = p
        PROVE  more = <<>>
    <3>1. Len(more) = 0
      BY <1>1, <2>1
    <3> QED
      BY <3>1
  <2>2. p \o <<>> = p
    OBVIOUS
  <2> QED
    BY <2>1, <2>2
<1>3. \A x \in S : p \o Append(more, x) = Append(p \o more, x)
  BY LineParted
<1> QED
  BY <1>1, <1>2, <1>3

\* A request's own text with a token more.
LEMMA OwnGrows ==
  ASSUME NEW r \in Request, tokens \in [Request -> Seq(Token)], NEW x \in Token
  PROVE  Prompt[r] \o Append(tokens[r], x) = Append(Prompt[r] \o tokens[r], x)
<1>1. PICK p, t : p = Prompt[r] /\ t = tokens[r]
  OBVIOUS
<1>2. p \in Seq(Token) /\ t \in Seq(Token)
  BY <1>1, RowEngineAssumption
<1>3. p \o Append(t, x) = Append(p \o t, x)
  BY <1>2
<1> QED
  BY <1>1, <1>3

\* The length of a text within its budget.
LEMMA OnTrackLens ==
  ASSUME NEW a, NEW b \in Nat, NEW c \in Nat, a = b + c, NEW d \in Nat, NEW m \in Nat, c < d, b + c < m
  PROVE  a - b < d /\ a <= m
OBVIOUS

\* The token read, by the text its request has.
LEMMA TokenRead ==
  ASSUME IInv, reading # <<>>, reason[Head(reading).req] = ""
  PROVE  LET it == Head(reading)
             r  == it.req
         IN  /\ it \in Draw /\ r \in Request /\ it.slot \in InUse /\ rows[it.slot] = r
             /\ r \in Range(running) /\ r \in Range(submitted) /\ r \notin Range(waiting)
             /\ it.prompt <=> tokens[r] = <<>>
             /\ \A f : Whole(it.slot, f) => f[0] = Append(Prompt[r] \o tokens[r], it.token)
             /\ OnTrack(r, Prompt[r] \o tokens[r]) => it.text = Prompt[r] \o tokens[r] /\ it.key = r
             /\ OnTrack(r, Prompt[r] \o tokens[r])
<1>1. PICK it : it = Head(reading)
  OBVIOUS
<1>2. PICK r : r = it.req
  OBVIOUS
<1>3. reading \in Seq(Draw) /\ DrawnOnce(reading) /\ DrawnInRow(reading)
  BY DEF IInv, Types, Drawn
<1>4. 1 \in 1..Len(reading) /\ it = reading[1] /\ it \in Draw
  BY <1>1, <1>3, TokensLeft
<1>5. r \in Request /\ it.slot \in Slot /\ it.token \in Token
  BY <1>2, <1>4 DEF Draw
<1>6. rows[it.slot] = r
  BY <1>1, <1>2, <1>3, <1>4 DEF DrawnInRow
<1>7. it.slot \in InUse
  BY <1>5, <1>6, RowEngineAssumption DEF InUse
<1>8. r \in Range(running)
  BY <1>6, <1>7, RowsRun
<1>9. r \in Range(submitted) /\ r \notin Range(waiting)
  BY <1>8 DEF IInv, Line
<1>10. PICK own : own = Prompt[r] \o tokens[r]
  OBVIOUS
<1>11. PICK f : Whole(it.slot, f)
  BY <1>7 DEF IInv, Texts
<1>12. \A g : Whole(it.slot, g) => Adds(r, reading, own, g[0])
  BY <1>6, <1>10 DEF Whole
<1>13. /\ \A g : Whole(it.slot, g) => g[0] = Append(own, it.token)
       /\ it.prompt <=> own = Prompt[r]
       /\ OnTrack(r, own) => it.text = own /\ it.key = r
  BY <1>2, <1>4, <1>11, <1>12 DEF Adds
<1>14. Prompt[r] \in Seq(Token) /\ tokens[r] \in Seq(Token)
  BY <1>5, RowEngineAssumption DEF IInv, Types
<1>15. /\ own = Prompt[r] <=> tokens[r] = <<>>
       /\ Len(own) = Len(Prompt[r]) + Len(tokens[r]) /\ Len(Prompt[r]) \in Nat /\ Len(tokens[r]) \in Nat
  BY <1>10, <1>14, TextAndMore
<1>16. OnTrack(r, own)
  <2>1. tokens[r] = <<>> \/ (Len(tokens[r]) < MaxNew[r] /\ Len(Prompt[r]) + Len(tokens[r]) < MaxSeq)
    BY <1>1, <1>2, <1>5 DEF IInv, Going
  <2>2. Len(own) = Len(Prompt[r]) + Len(tokens[r]) /\ Len(Prompt[r]) \in Nat /\ Len(tokens[r]) \in Nat
    BY <1>15
  <2>3. MaxSeq \in Nat /\ MaxNew[r] \in Nat
    BY <1>5, RowEngineAssumption
  <2>4. CASE tokens[r] = <<>>
    BY <1>15, <2>4 DEF OnTrack
  <2>5. CASE Len(tokens[r]) < MaxNew[r] /\ Len(Prompt[r]) + Len(tokens[r]) < MaxSeq
    <3>1. Len(own) - Len(Prompt[r]) < MaxNew[r] /\ Len(own) <= MaxSeq
      BY <2>2, <2>3, <2>5, OnTrackLens
    <3> QED
      BY <3>1 DEF OnTrack
  <2> QED
    BY <2>1, <2>4, <2>5
<1> QED
  BY <1>1, <1>2, <1>4, <1>5, <1>6, <1>7, <1>8, <1>9, <1>10, <1>13, <1>15, <1>16

\* The position of a token after those before, and how far it is from the end.
LEMMA PositionOf ==
  ASSUME NEW n \in Nat, NEW old \in Nat, NEW new, new = old + 1, NEW at, at = n + new - 1
  PROVE  at \in Nat /\ at + 1 = n + new
OBVIOUS

\* The same position from the lengths.
LEMMA PositionBack ==
  ASSUME NEW n \in Nat, NEW k \in Nat, NEW at \in Nat, at + 1 = n + k
  PROVE  at = n + k - 1
OBVIOUS

\* What reading a token does: the position it gives is the text's last.
LEMMA ReadTokenDoes ==
  ASSUME IInv, ReadToken
  PROVE  \E it, r, text, at :
           /\ it = Head(reading) /\ r = it.req /\ text = Append(tokens[r], it.token)
           /\ reading # <<>> /\ reason[r] = ""
           /\ at \in Nat /\ at + 1 = Len(Prompt[r]) + Len(text)
           /\ tokens' = [tokens EXCEPT ![r] = text]
           /\ positions' = [positions EXCEPT ![it.slot] = at]
           /\ reason' = [reason EXCEPT ![r] = Reason(r, text, at)]
           /\ reason'[r] # "" => Release(r) /\ running' = Without(running, r)
           /\ reason'[r] = "" => UNCHANGED <<rows, running, devPos, devTok, devKey, cache>>
           /\ text \in Seq(Token) /\ Len(text) = Len(tokens[r]) + 1
           /\ reading' = Tail(reading)
<1>1. PICK it : it = Head(reading)
  OBVIOUS
<1>2. PICK r : r = it.req
  OBVIOUS
<1>3. PICK text : text = Append(tokens[r], it.token)
  OBVIOUS
<1>4. PICK at : at = IF it.prompt THEN Len(Prompt[r]) + Len(text) - 1 ELSE positions[it.slot] + 1
  OBVIOUS
<1>5. /\ reading # <<>> /\ reason[r] = "" /\ reading' = Tail(reading)
      /\ tokens' = [tokens EXCEPT ![r] = text]
      /\ positions' = [positions EXCEPT ![it.slot] = at]
      /\ reason' = [reason EXCEPT ![r] = Reason(r, text, at)]
      /\ IF reason'[r] # "" THEN Release(r) /\ running' = Without(running, r)
                            ELSE UNCHANGED <<rows, running, deviceVars>>
  BY <1>1, <1>2, <1>3, <1>4 DEF ReadToken
<1>6. /\ it \in Draw /\ r \in Request /\ it.slot \in InUse /\ rows[it.slot] = r
      /\ it.prompt <=> tokens[r] = <<>>
  BY <1>1, <1>2, <1>5, TokenRead
<1>7. it.token \in Token /\ tokens[r] \in Seq(Token) /\ Prompt[r] \in Seq(Token)
  BY <1>6, RowEngineAssumption DEF Draw, IInv, Types
<1>8. text \in Seq(Token) /\ Len(text) = Len(tokens[r]) + 1 /\ Len(tokens[r]) \in Nat
  BY <1>3, <1>7
<1>9. Len(Prompt[r]) \in Nat
  BY <1>7
<1>10. at = Len(Prompt[r]) + Len(text) - 1
  <2>1. CASE it.prompt
    BY <1>4, <2>1
  <2>2. CASE ~it.prompt
    <3>1. positions[it.slot] = Len(Prompt[r]) + Len(tokens[r]) - 1
      BY <1>6, <2>2 DEF IInv, Going
    <3>2. at = positions[it.slot] + 1
      BY <1>4, <2>2
    <3> QED
      <4>1. PICK p : p = positions[it.slot]
        OBVIOUS
      <4>2. p = Len(Prompt[r]) + Len(tokens[r]) - 1 /\ at = p + 1
        BY <3>1, <3>2, <4>1
      <4> QED
        BY <1>8, <1>9, <4>2
  <2> QED
    BY <2>1, <2>2
<1>11. at \in Nat /\ at + 1 = Len(Prompt[r]) + Len(text)
  BY <1>8, <1>9, <1>10, PositionOf, Zenon
<1>12. reason'[r] = "" => UNCHANGED <<rows, running, devPos, devTok, devKey, cache>>
  BY <1>5 DEF deviceVars
<1> QED
  BY <1>1, <1>2, <1>3, <1>5, <1>8, <1>11, <1>12

\* A request goes on while it has its budget and a position left.
LEMMA ReasonToEnd ==
  ASSUME NEW r \in Request, NEW text \in Seq(Token), NEW at \in Nat
  PROVE  /\ Reason(r, text, at) = "" \/ Reason(r, text, at) \in {"eos", "length", "cache", "cancelled"}
         /\ Reason(r, text, at) = "" => Len(text) < MaxNew[r] /\ at + 1 < MaxSeq
<1>1. Len(text) \in Nat /\ MaxNew[r] \in Nat /\ MaxSeq \in Nat
  BY RowEngineAssumption
<1>2. (~(Len(text) >= MaxNew[r]) => Len(text) < MaxNew[r]) /\ (~(at + 1 >= MaxSeq) => at + 1 < MaxSeq)
  BY <1>1
<1>3. Reason(r, text, at) = "" \/ Reason(r, text, at) \in {"eos", "length", "cache", "cancelled"}
  BY DEF Reason
<1>4. Reason(r, text, at) = "" => ~(Len(text) >= MaxNew[r]) /\ ~(at + 1 >= MaxSeq)
  BY Zenon DEF Reason
<1> QED
  BY <1>2, <1>3, <1>4

\* A token read of a request that goes on.
LEMMA ReadOnInv ==
  ASSUME IInv, ReadToken, reason'[Head(reading).req] = ""
  PROVE  IInv'
<1>1. PICK it, r, text, at :
        /\ it = Head(reading) /\ r = it.req /\ text = Append(tokens[r], it.token)
        /\ reading # <<>> /\ reason[r] = ""
        /\ at \in Nat /\ at + 1 = Len(Prompt[r]) + Len(text)
        /\ tokens' = [tokens EXCEPT ![r] = text]
        /\ positions' = [positions EXCEPT ![it.slot] = at]
        /\ reason' = [reason EXCEPT ![r] = Reason(r, text, at)]
        /\ reason'[r] # "" => Release(r) /\ running' = Without(running, r)
        /\ reason'[r] = "" => UNCHANGED <<rows, running, devPos, devTok, devKey, cache>>
        /\ text \in Seq(Token) /\ Len(text) = Len(tokens[r]) + 1
        /\ reading' = Tail(reading)
  BY ReadTokenDoes
<1>2. /\ it \in Draw /\ r \in Request /\ it.slot \in InUse /\ rows[it.slot] = r
      /\ \A f : Whole(it.slot, f) => f[0] = Append(Prompt[r] \o tokens[r], it.token)
  BY <1>1, TokenRead
<1>3. /\ UNCHANGED <<pack, submitted, waiting, queued, ahead, pc, admitted, passes, mixed, sharing>>
      /\ pc = "read"
  BY DEF ReadToken, At, localVars
<1>4. UNCHANGED <<rows, running, devPos, devTok, devKey, cache>> /\ reading' = Tail(reading)
  BY <1>1
<1>5. /\ tokens \in [Request -> Seq(Token)] /\ positions \in [Slot -> Nat]
      /\ reason \in [Request -> {"", "eos", "length", "cache", "cancelled"}]
      /\ it.slot \in Slot
  BY <1>2 DEF IInv, Types, InUse
<1>6. reason' = reason
  <2>1. Reason(r, text, at) = ""
    BY <1>1, <1>2, <1>5
  <2> QED
    BY <1>1, <1>2, <1>5, <2>1
<1>7. InUse' = InUse /\ Rowed' = Rowed /\ FreeSlots' = FreeSlots
  BY <1>4 DEF Rowed, InUse, FreeSlots
<1>8. Plan' /\ Due' = Due
  <2>1. Plan /\ \A p \in Due : rows'[p.slot] = None /\ p.req \notin Rowed'
    BY <1>4, <1>7 DEF IInv, Plan, Planned
  <2> QED
    BY <1>3, <2>1, PlanStays
<1>9. reading \in Seq(Draw) /\ DrawnOnce(reading) /\ DrawnInRow(reading) /\ reading # <<>>
  BY <1>1 DEF IInv, Types, Drawn
<1>10. Tail(reading) \in Seq(Draw) /\ DrawnOnce(Tail(reading)) /\ DrawnInRow(Tail(reading))
       /\ \A i \in 1..Len(Tail(reading)) : Tail(reading)[i].req # r
  BY <1>1, <1>9, TokensLeft
<1>11. Types'
  <2>1. tokens' \in [Request -> Seq(Token)] /\ positions' \in [Slot -> Nat]
    BY <1>1, <1>5
  <2> QED
    BY <1>3, <1>4, <1>6, <1>10, <2>1 DEF IInv, Types
<1>12. Line'
  BY <1>3, <1>4, <1>6 DEF IInv, Line
<1>13. Seats'
  BY <1>3, <1>4, <1>7, <1>8 DEF IInv, Seats
<1>14. Steps'
  BY <1>3 DEF IInv, Steps
<1>15. Drawn'
  BY <1>3, <1>4, <1>6, <1>10 DEF IInv, Drawn, DrawnOnce, DrawnInRow
<1>16. \A s, t \in InUse : rows[s] = rows[t] => s = t
  BY DEF IInv, Seats
<1>17. tokens'[r] = text /\ \A q \in Request : q # r => tokens'[q] = tokens[q]
  BY <1>1, <1>2, <1>5
<1>18. Going'
  <2>1. Going
    BY DEF IInv
  <2>2. Len(text) < MaxNew[r] /\ Len(Prompt[r]) + Len(text) < MaxSeq
    <3>1. Reason(r, text, at) = ""
      BY <1>1, <1>2, <1>5
    <3> QED
      BY <1>1, <1>2, <3>1, ReasonToEnd
  <2>3. \A q \in Request : reason'[q] = "" =>
          \/ tokens'[q] = <<>>
          \/ Len(tokens'[q]) < MaxNew[q] /\ Len(Prompt[q]) + Len(tokens'[q]) < MaxSeq
    BY <1>6, <1>17, <2>1, <2>2 DEF Going
  <2>4. r \in Rowed
    BY <1>2 DEF Rowed
  <2>5. \A q \in Request : reason'[q] = "" /\ q \notin Rowed' => tokens'[q] = <<>>
    BY <1>6, <1>7, <1>17, <2>1, <2>4 DEF Going
  <2>6. \A s \in InUse' : tokens'[rows'[s]] # <<>> =>
          positions'[s] = Len(Prompt[rows'[s]]) + Len(tokens'[rows'[s]]) - 1
    <3> SUFFICES ASSUME NEW s \in InUse, tokens'[rows[s]] # <<>>
                 PROVE  positions'[s] = Len(Prompt[rows[s]]) + Len(tokens'[rows[s]]) - 1
      BY <1>4, <1>7
    <3>1. CASE s = it.slot
      <4>1. positions'[s] = at
        BY <1>1, <1>5, <3>1
      <4>2. rows[s] = r /\ tokens'[rows[s]] = text
        BY <1>2, <1>17, <3>1
      <4>3. at = Len(Prompt[r]) + Len(text) - 1
        <5>1. Len(Prompt[r]) \in Nat /\ Len(text) \in Nat /\ at \in Nat /\ at + 1 = Len(Prompt[r]) + Len(text)
          <6>1. Prompt[r] \in Seq(Token)
            BY <1>2, RowEngineAssumption
          <6>2. Len(Prompt[r]) \in Nat /\ Len(text) \in Nat
            BY <1>1, <6>1, PlacesOfLine, Zenon
          <6> QED
            BY <1>1, <6>2, Zenon
        <5> QED
          BY <5>1, PositionBack, Zenon
      <4> QED
        BY <4>1, <4>2, <4>3
    <3>2. CASE s # it.slot
      <4>1. rows[s] # r /\ rows[s] \in Request
        BY <1>2, <1>16, <3>2, RowsRun
      <4>2. positions'[s] = positions[s] /\ tokens'[rows[s]] = tokens[rows[s]]
        BY <1>1, <1>5, <1>17, <3>2, <4>1 DEF InUse
      <4> QED
        BY <2>1, <4>2 DEF Going
    <3> QED
      BY <3>1, <3>2
  <2> QED
    BY <2>3, <2>5, <2>6 DEF Going
<1>19. Texts'
  <2> SUFFICES ASSUME NEW s \in InUse'
               PROVE  \E f : Whole(s, f)'
    BY DEF Texts
  <2>1. PICK f : Whole(s, f)
    BY <1>7 DEF IInv, Texts
  <2>2. Adds(rows[s], reading, Prompt[rows[s]] \o tokens[rows[s]], f[0])
        /\ Grows(rows[s], queued, f) /\ Stands(s, f[Len(queued)])
    BY <2>1 DEF Whole
  <2>3. Adds(rows[s], Tail(reading), Prompt[rows[s]] \o tokens'[rows[s]], f[0])
    <3>1. CASE s = it.slot
      <4>1. f[0] = Append(Prompt[r] \o tokens[r], it.token)
        BY <1>2, <2>1, <3>1
      <4>2. Prompt[r] \in Seq(Token) /\ tokens[r] \in Seq(Token) /\ it.token \in Token
        BY <1>2, <1>5, RowEngineAssumption DEF Draw
      <4>3. f[0] = Prompt[r] \o text
        <5>1. Prompt[r] \o Append(tokens[r], it.token) = Append(Prompt[r] \o tokens[r], it.token)
          BY <1>2, <1>5, <4>2, OwnGrows, Zenon
        <5> QED
          BY <1>1, <4>1, <5>1
      <4>4. rows[s] = r /\ tokens'[rows[s]] = text
        BY <1>2, <1>17, <3>1
      <4> QED
        BY <1>10, <4>3, <4>4 DEF Adds
    <3>2. CASE s # it.slot
      <4>1. rows[s] # r /\ rows[s] \in Request
        BY <1>2, <1>7, <1>16, <3>2, RowsRun
      <4>2. tokens'[rows[s]] = tokens[rows[s]]
        BY <1>17, <4>1
      <4>3. rows[s] # Head(reading).req
        BY <1>1, <4>1
      <4> QED
        BY <1>9, <2>2, <4>2, <4>3, AddsLeft
    <3> QED
      BY <3>1, <3>2
  <2>4. Stands(s, f[Len(queued)])'
    BY <1>3, <1>4, <2>2 DEF Stands
  <2>5. Whole(s, f)'
    BY <1>3, <1>4, <2>2, <2>3, <2>4 DEF Whole
  <2> QED
    BY <2>5
<1> QED
  BY <1>8, <1>11, <1>12, <1>13, <1>14, <1>15, <1>18, <1>19 DEF IInv

\* A token read of a request that ends.
LEMMA ReadEndInv ==
  ASSUME IInv, ReadToken, reason'[Head(reading).req] # ""
  PROVE  IInv'
<1>1. PICK it, r, text, at :
        /\ it = Head(reading) /\ r = it.req /\ text = Append(tokens[r], it.token)
        /\ reading # <<>> /\ reason[r] = ""
        /\ at \in Nat /\ at + 1 = Len(Prompt[r]) + Len(text)
        /\ tokens' = [tokens EXCEPT ![r] = text]
        /\ positions' = [positions EXCEPT ![it.slot] = at]
        /\ reason' = [reason EXCEPT ![r] = Reason(r, text, at)]
        /\ reason'[r] # "" => Release(r) /\ running' = Without(running, r)
        /\ reason'[r] = "" => UNCHANGED <<rows, running, devPos, devTok, devKey, cache>>
        /\ text \in Seq(Token) /\ Len(text) = Len(tokens[r]) + 1
        /\ reading' = Tail(reading)
  BY ReadTokenDoes
<1>2. /\ it \in Draw /\ r \in Request /\ it.slot \in InUse /\ rows[it.slot] = r
      /\ r \in Range(submitted) /\ r \notin Range(waiting)
  BY <1>1, TokenRead
<1>3. /\ UNCHANGED <<pack, submitted, waiting, queued, ahead, pc, admitted, passes, mixed, sharing>>
      /\ pc = "read"
  BY DEF ReadToken, At, localVars
<1>4. Release(r) /\ running' = Without(running, r) /\ reading' = Tail(reading)
  BY <1>1
<1>5. /\ tokens \in [Request -> Seq(Token)] /\ positions \in [Slot -> Nat]
      /\ reason \in [Request -> {"", "eos", "length", "cache", "cancelled"}]
      /\ it.slot \in Slot
  BY <1>2 DEF IInv, Types, InUse
<1>6. passes = <<>> /\ mixed = <<>> /\ admitted = <<>> /\ Due = {}
  BY <1>3, BetweenSteps
<1>7. Plan' /\ Due' = {}
  <2>1. (passes = <<>> /\ mixed = <<>> => Due = {} /\ Plan)'
    BY NothingDue, PTL
  <2>2. passes' = <<>> /\ mixed' = <<>>
    BY <1>3, <1>6
  <2> QED
    BY <2>1, <2>2
<1>8. Reason(r, text, at) \in {"eos", "length", "cache", "cancelled"}
  <2>1. Reason(r, text, at) # ""
    BY <1>1, <1>2, <1>5
  <2> QED
    BY <1>1, <1>2, <2>1, ReasonToEnd
<1>9. waiting' = Without(waiting, r)
  BY <1>2, <1>3 DEF Without
<1>10. /\ Line' /\ Seats' /\ waiting' \in Seq(Request) /\ running' \in Seq(Request)
       /\ reason' \in [Request -> {"", "eos", "length", "cache", "cancelled"}]
       /\ \A q \in Request : reason'[q] = "" <=> reason[q] = "" /\ q # r
  <2>1. admitted' = <<>> /\ submitted' = submitted
    BY <1>3, <1>6
  <2> QED
    BY <1>1, <1>2, <1>4, <1>6, <1>7, <1>8, <1>9, <2>1, EndedLine
<1>11. \A s, t \in InUse : rows[s] = rows[t] => s = t
  BY DEF IInv, Seats
<1>12. /\ rows' \in [Slot -> Request \cup {None}] /\ devKey' = rows'
       /\ devPos' \in [Slot -> Cell] /\ devTok' \in [Slot -> Token \cup {Junk}]
       /\ cache' \in [Slot -> [Cell -> Text]]
       /\ InUse' = {s \in InUse : rows[s] # r} /\ Rowed' = Rowed \ {r}
       /\ \A s \in Slot : rows[s] # r =>
            /\ rows'[s] = rows[s] /\ devPos'[s] = devPos[s] /\ devTok'[s] = devTok[s]
            /\ cache'[s] = cache[s]
  BY <1>2, <1>4, <1>11, Released DEF IInv
<1>13. reading \in Seq(Draw) /\ DrawnOnce(reading) /\ DrawnInRow(reading) /\ reading # <<>>
  BY <1>1 DEF IInv, Types, Drawn
<1>14. Tail(reading) \in Seq(Draw) /\ DrawnOnce(Tail(reading)) /\ DrawnInRow(Tail(reading))
  BY <1>13, TokensLeft
<1>15. tokens'[r] = text /\ \A q \in Request : q # r => tokens'[q] = tokens[q]
  BY <1>1, <1>2, <1>5
<1>16. \A s \in InUse' :
         /\ s \in InUse /\ s \in Slot /\ rows[s] \in Request /\ rows[s] # r /\ rows'[s] = rows[s] /\ s # it.slot
         /\ tokens'[rows[s]] = tokens[rows[s]] /\ positions'[s] = positions[s]
         /\ devPos'[s] = devPos[s] /\ devTok'[s] = devTok[s] /\ cache'[s] = cache[s]
  <2> SUFFICES ASSUME NEW s \in InUse'
               PROVE  /\ s \in InUse /\ s \in Slot /\ rows[s] \in Request /\ rows[s] # r
                      /\ rows'[s] = rows[s] /\ s # it.slot
                      /\ tokens'[rows[s]] = tokens[rows[s]] /\ positions'[s] = positions[s]
                      /\ devPos'[s] = devPos[s] /\ devTok'[s] = devTok[s] /\ cache'[s] = cache[s]
    OBVIOUS
  <2>1. s \in InUse /\ rows[s] # r
    BY <1>12
  <2>2. s \in Slot /\ rows[s] \in Request /\ s # it.slot
    BY <1>2, <2>1, RowsRun DEF InUse
  <2>3. positions'[s] = positions[s]
    BY <1>1, <1>5, <2>2
  <2> QED
    BY <1>12, <1>15, <2>1, <2>2, <2>3
<1>17. Types'
  <2>1. tokens' \in [Request -> Seq(Token)] /\ positions' \in [Slot -> Nat]
    BY <1>1, <1>5
  <2> QED
    BY <1>3, <1>4, <1>10, <1>12, <1>14, <2>1 DEF IInv, Types
<1>18. Steps'
  BY <1>3, <1>6 DEF Steps
<1>19. Drawn'
  <2>1. Types /\ Drawn /\ queued \in Seq(Seq(Draw))
    BY DEF IInv, Types
  <2>2. ASSUME NEW pass \in Seq(Draw), DrawnInRow(pass)
        PROVE  \A i \in 1..Len(pass) : reason'[pass[i].req] = "" => rows'[pass[i].slot] = pass[i].req
    <3>1. \A q \in Request : reason'[q] = "" => reason[q] = "" /\ q # r
      BY <1>10
    <3>2. \A s \in Slot : rows[s] # r => rows'[s] = rows[s]
      BY <1>12
    <3> QED
      BY <1>2, <2>1, <2>2, <3>1, <3>2, DrawnStays
  <2>3. ASSUME NEW k \in 1..Len(queued)
        PROVE  DrawnOnce(queued[k]) /\ \A i \in 1..Len(queued[k]) :
                 reason'[queued[k][i].req] = "" => rows'[queued[k][i].slot] = queued[k][i].req
    <3>1. queued[k] \in Seq(Draw)
      BY <2>1, PlacesOfLine, Zenon
    <3>2. DrawnOnce(queued[k]) /\ DrawnInRow(queued[k])
      BY <2>1 DEF Drawn
    <3> QED
      BY <2>2, <3>1, <3>2
  <2>4. DrawnOnce(reading') /\ \A i \in 1..Len(reading') :
          reason'[reading'[i].req] = "" => rows'[reading'[i].slot] = reading'[i].req
    BY <1>4, <1>14, <2>2
  <2>5. queued' = queued
    BY <1>3
  <2> QED
    BY <2>3, <2>4, <2>5 DEF Drawn, DrawnOnce, DrawnInRow
<1>20. Going'
  <2>1. Going
    BY DEF IInv
  <2>2. \A q \in Request : reason'[q] = "" => reason[q] = "" /\ q # r /\ tokens'[q] = tokens[q]
    BY <1>10, <1>15
  <2>3. \A q : q \notin Rowed' /\ q # r => q \notin Rowed
    BY <1>12
  <2>4. \A q \in Request : reason'[q] = "" =>
          \/ tokens'[q] = <<>>
          \/ Len(tokens'[q]) < MaxNew[q] /\ Len(Prompt[q]) + Len(tokens'[q]) < MaxSeq
    BY <2>1, <2>2 DEF Going
  <2>5. \A q \in Request : reason'[q] = "" /\ q \notin Rowed' => tokens'[q] = <<>>
    BY <2>1, <2>2, <2>3 DEF Going
  <2>6. \A s \in InUse' : tokens'[rows'[s]] # <<>> =>
          positions'[s] = Len(Prompt[rows'[s]]) + Len(tokens'[rows'[s]]) - 1
    <3> SUFFICES ASSUME NEW s \in InUse', tokens'[rows'[s]] # <<>>
                 PROVE  positions'[s] = Len(Prompt[rows'[s]]) + Len(tokens'[rows'[s]]) - 1
      OBVIOUS
    <3>1. s \in InUse /\ rows'[s] = rows[s] /\ tokens'[rows[s]] = tokens[rows[s]] /\ positions'[s] = positions[s]
      BY <1>16
    <3>2. positions[s] = Len(Prompt[rows[s]]) + Len(tokens[rows[s]]) - 1
      BY <2>1, <3>1 DEF Going
    <3> QED
      BY <3>1, <3>2
  <2> QED
    BY <2>4, <2>5, <2>6 DEF Going
<1>21. Texts'
  <2> SUFFICES ASSUME NEW s \in InUse'
               PROVE  \E f : Whole(s, f)'
    BY DEF Texts
  <2>1. PICK f : Whole(s, f)
    BY <1>16 DEF IInv, Texts
  <2>2. rows[s] # Head(reading).req
    BY <1>1, <1>16
  <2>3. Adds(rows[s], Tail(reading), Prompt[rows[s]] \o tokens[rows[s]], f[0])
    <3>1. Adds(rows[s], reading, Prompt[rows[s]] \o tokens[rows[s]], f[0])
      BY <2>1 DEF Whole
    <3> QED
      BY <1>13, <2>2, <3>1, AddsLeft
  <2>4. Stands(s, f[Len(queued)])'
    BY <1>3, <1>16, <2>1 DEF Whole, Stands
  <2>5. Whole(s, f)'
    BY <1>3, <1>4, <1>16, <2>1, <2>3, <2>4 DEF Whole
  <2> QED
    BY <2>5
<1> QED
  BY <1>7, <1>10, <1>17, <1>18, <1>19, <1>20, <1>21 DEF IInv

\* A token read.
LEMMA ReadTokenInv ==
  ASSUME IInv, ReadToken
  PROVE  IInv'
BY ReadOnInv, ReadEndInv

-----------------------------------------------------------------------------
(* The prompts' passes planned.                                             *)

\* The passes, and the one that carries the rows' step, have each lead once.
LEMMA PassesMade ==
  ASSUME NEW batches, NEW S, Parts(batches, S), pack' = pack,
         pack = 0 => Len(batches) <= 1 /\ \A i \in 1..Len(batches) : batches[i] # <<>>,
         \/ passes' = batches /\ mixed' = <<>>
         \/ pack # 0 /\ \E k \in 1..Len(batches) : passes' = RemoveAt(batches, k) /\ mixed' = batches[k]
  PROVE  Disjoint' /\ Leading' = S /\ passes' \in Seq(Seq(Place)) /\ mixed' \in Seq(Place)
<1>1. /\ batches \in Seq(Seq(Place))
      /\ \A j \in 1..Len(batches) :
           batches[j] \in Seq(Place) /\ Once(batches[j]) /\ Range(batches[j]) \subseteq S
      /\ S = UNION {Range(batches[j]) : j \in 1..Len(batches)}
  BY PartsAre
<1>2. CASE passes' = batches /\ mixed' = <<>>
  <2>1. Passing' = S
    BY <1>1, <1>2 DEF Passing
  <2>2. Range(mixed') = {} /\ Once(mixed') /\ mixed' \in Seq(Place)
    BY <1>2, EmptyLine
  <2>3. Leading' = S
    BY <2>1, <2>2 DEF Leading
  <2>4. Parts(passes, Passing)'
    BY <1>2, <2>1 DEF Parts
  <2>5. Disjoint'
    BY <1>2, <2>1, <2>2, <2>4 DEF Disjoint
  <2> QED
    BY <1>1, <1>2, <2>2, <2>3, <2>5
<1>3. ASSUME pack # 0, NEW k \in 1..Len(batches), passes' = RemoveAt(batches, k), mixed' = batches[k]
      PROVE  Disjoint' /\ Leading' = S /\ passes' \in Seq(Seq(Place)) /\ mixed' \in Seq(Place)
  <2>1. PICK rest : rest = RemoveAt(batches, k)
    OBVIOUS
  <2>2. Parts(rest, S \ Range(batches[k]))
    BY <2>1, PartOut
  <2>3. rest \in Seq(Seq(Place)) /\ S \ Range(batches[k]) = UNION {Range(rest[j]) : j \in 1..Len(rest)}
    BY <2>2, PartsAre
  <2>4. passes' = rest
    BY <1>3, <2>1
  <2>5. Passing' = S \ Range(batches[k])
    BY <2>3, <2>4 DEF Passing
  <2>6. batches[k] \in Seq(Place) /\ Once(batches[k]) /\ Range(batches[k]) \subseteq S
    BY <1>1
  <2>7. Leading' = S
    BY <1>3, <2>5, <2>6 DEF Leading
  <2>8. Parts(passes, Passing)'
    BY <2>2, <2>4, <2>5 DEF Parts
  <2>9. Disjoint'
    BY <1>3, <2>5, <2>6, <2>8 DEF Disjoint
  <2> QED
    BY <1>3, <2>3, <2>4, <2>6, <2>7, <2>9
<1> QED
  BY <1>2, <1>3

\* Everyone admitted is in a pass, or shares the prompt of one who is.
LEMMA SharingMade ==
  ASSUME NEW places \in Seq(Place), Once(places),
         sharing' = IF pack > 0 THEN SharersOf(places) ELSE <<>>,
         Leading' = IF pack > 0 THEN LeadSet(places) ELSE Range(places)
  PROVE  Sharing' /\ Due' = Range(places)
<1>1. CASE pack > 0
  <2>1. \A p \in LeadSet(places) : Sharers(p)' = SharersOf(places)[p]
    BY <1>1 DEF Sharers, SharersOf
  <2>2. \A lead \in LeadSet(places) :
          /\ SharersOf(places)[lead] \in Seq(Place) /\ Once(SharersOf(places)[lead])
          /\ Range(SharersOf(places)[lead]) \subseteq Range(places)
          /\ Range(SharersOf(places)[lead]) \cap LeadSet(places) = {}
          /\ \A p \in Range(SharersOf(places)[lead]) :
               Prompt[p.req] = Prompt[lead.req] /\ LeadOf(places, IndexIn(places, p)) = lead
    BY SharersApart
  <2>3. Leading' = LeadSet(places)
    BY <1>1
  <2>4. Sharing'
    <3>1. \A p, q \in LeadSet(places) : p # q =>
            Range(SharersOf(places)[p]) \cap Range(SharersOf(places)[q]) = {}
      <4> SUFFICES ASSUME NEW p \in LeadSet(places), NEW q \in LeadSet(places),
                          NEW x \in Range(SharersOf(places)[p]), x \in Range(SharersOf(places)[q])
                   PROVE  p = q
        OBVIOUS
      <4>1. LeadOf(places, IndexIn(places, x)) = p
        BY <2>2
      <4>2. LeadOf(places, IndexIn(places, x)) = q
        BY <2>2
      <4> QED
        BY <4>1, <4>2
    <3>2. PICK sh, leads : sh = SharersOf(places) /\ leads = LeadSet(places)
      OBVIOUS
    <3>3. /\ \A p \in leads : sh[p] \in Seq(Place) /\ Once(sh[p]) /\ Range(sh[p]) \cap leads = {}
          /\ \A p \in leads : \A q \in Range(sh[p]) : Prompt[q.req] = Prompt[p.req]
          /\ \A p, q \in leads : p # q => Range(sh[p]) \cap Range(sh[q]) = {}
          /\ \A p \in leads : Sharers(p)' = sh[p]
          /\ Leading' = leads
      BY <2>1, <2>2, <2>3, <3>1, <3>2
    <3> QED
      BY <3>3 DEF Sharing
  <2>5. LeadSet(places) \subseteq Range(places)
    BY LeadsApart
  <2>6. Due' = LeadSet(places) \cup UNION {Range(SharersOf(places)[p]) : p \in LeadSet(places)}
    BY <2>1, <2>3 DEF Due, Shared
  <2>7. \A p \in Range(places) : p \in Due'
    BY <2>6, PlacesLed
  <2>8. Due' \subseteq Range(places)
    BY <2>2, <2>5, <2>6
  <2> QED
    BY <2>4, <2>7, <2>8
<1>2. CASE ~(pack > 0)
  <2>1. \A p : Sharers(p)' = <<>>
    <3>1. sharing' = <<>>
      BY <1>2
    <3>2. DOMAIN sharing' = {}
      BY <3>1
    <3> QED
      BY <3>2 DEF Sharers
  <2>2. Range(<<>>) = {} /\ <<>> \in Seq(Place) /\ Once(<<>>)
    BY EmptyLine
  <2>3. Leading' = Range(places)
    BY <1>2
  <2>4. Sharing'
    BY <2>1, <2>2 DEF Sharing
  <2>5. Due' = Range(places)
    BY <2>1, <2>2, <2>3 DEF Due, Shared
  <2> QED
    BY <2>4, <2>5
<1> QED
  BY <1>1, <1>2

\* The passes of those admitted are planned.
LEMMA ArrangeInv ==
  ASSUME IInv, Arrange
  PROVE  IInv'
<1>1. /\ UNCHANGED <<submitted, tokens, reason, pack, waiting, running, rows, positions, queued, reading,
                     ahead, devPos, devTok, devKey, cache>>
      /\ pc = "admit" /\ pc' = "pass" /\ admitted' = <<>>
  BY DEF Arrange, At, Goto, requestVars, lineVars, passVars, deviceVars
<1>2. PICK places : places = Placed
  OBVIOUS
<1>3. PICK batches : batches = IF pack > 0 THEN Packed(Leads(places))
                               ELSE IF places = <<>> THEN <<>> ELSE <<places>>
  OBVIOUS
<1>4. /\ sharing' = IF pack > 0 THEN SharersOf(places) ELSE <<>>
      /\ IF batches # <<>> /\ InUse # {} /\ pack > 0 /\ Total(batches[SmallestOf(batches)]) <= MixSize
         THEN passes' = RemoveAt(batches, SmallestOf(batches)) /\ mixed' = batches[SmallestOf(batches)]
         ELSE passes' = batches /\ mixed' = <<>>
  BY <1>2, <1>3 DEF Arrange
<1>5. passes = <<>> /\ mixed = <<>> /\ reading = <<>>
  BY <1>1 DEF IInv, Steps
<1>6. Due = {}
  BY <1>5, NothingDue
<1>7. Types /\ Once(admitted) /\ Len(admitted) <= Cardinality(FreeSlots)
  BY DEF IInv, Line, Seats
<1>8. /\ places \in Seq(Place) /\ Once(places)
      /\ {p.req : p \in Range(places)} = Range(admitted)
      /\ \A p \in Range(places) : p.slot \in FreeSlots
      /\ \A p, q \in Range(places) : p.slot = q.slot \/ p.req = q.req => p = q
  BY <1>2, <1>7, PlacedApart
<1>9. pack \in Nat
  BY <1>7, RowEngineAssumption DEF Types
<1>10. PICK S : S = IF pack > 0 THEN LeadSet(places) ELSE Range(places)
  OBVIOUS
<1>11. Parts(batches, S) /\ (pack = 0 => Len(batches) <= 1 /\ \A i \in 1..Len(batches) : batches[i] # <<>>)
  <2>1. CASE pack > 0
    <3>1. Leads(places) \in Seq(Place) /\ Once(Leads(places)) /\ Range(Leads(places)) = LeadSet(places)
      BY <1>8, LeadsApart
    <3>2. Parts(Packed(Leads(places)), Range(Leads(places)))
      BY <3>1, PackedParts
    <3>3. batches = Packed(Leads(places)) /\ S = LeadSet(places) /\ pack # 0
      BY <1>3, <1>10, <2>1
    <3> QED
      BY <3>1, <3>2, <3>3
  <2>2. CASE ~(pack > 0) /\ places = <<>>
    <3>1. batches = <<>> /\ S = {}
      BY <1>3, <1>10, <2>2, EmptyLine
    <3>2. 1..Len(batches) = {} /\ Len(batches) <= 1 /\ batches \in Seq(Seq(Place))
      BY <3>1
    <3> QED
      BY <3>1, <3>2 DEF Parts
  <2>3. CASE ~(pack > 0) /\ places # <<>>
    <3>1. batches = <<places>> /\ S = Range(places)
      BY <1>3, <1>10, <2>3
    <3>2. Len(batches) = 1 /\ batches[1] = places /\ batches \in Seq(Seq(Place)) /\ 1..Len(batches) = {1}
      BY <1>8, <3>1
    <3>3. Parts(batches, S)
      BY <1>8, <3>1, <3>2 DEF Parts
    <3> QED
      BY <2>3, <3>2, <3>3
  <2> QED
    BY <2>1, <2>2, <2>3
<1>12. Disjoint' /\ Leading' = S /\ passes' \in Seq(Seq(Place)) /\ mixed' \in Seq(Place)
  <2>1. \/ passes' = batches /\ mixed' = <<>>
        \/ pack # 0 /\ \E k \in 1..Len(batches) : passes' = RemoveAt(batches, k) /\ mixed' = batches[k]
    <3>1. CASE passes' = batches /\ mixed' = <<>>
      BY <3>1
    <3>2. CASE ~(passes' = batches /\ mixed' = <<>>)
      <4>1. /\ batches # <<>> /\ pack > 0
            /\ passes' = RemoveAt(batches, SmallestOf(batches)) /\ mixed' = batches[SmallestOf(batches)]
        BY <1>4, <3>2
      <4>2. batches \in Seq(Seq(Place))
        BY <1>11 DEF Parts
      <4>3. SmallestOf(batches) \in 1..Len(batches)
        BY <4>1, <4>2, SmallestIsOne
      <4>4. pack # 0
        BY <1>9, <4>1
      <4> QED
        BY <4>1, <4>3, <4>4
    <3> QED
      BY <3>1, <3>2
  <2>2. pack' = pack
    BY <1>1
  <2> QED
    BY <1>11, <2>1, <2>2, PassesMade
<1>13. Sharing' /\ Due' = Range(places)
  BY <1>4, <1>8, <1>10, <1>12, SharingMade
<1>14. InUse' = InUse /\ Rowed' = Rowed /\ FreeSlots' = FreeSlots
  BY <1>1 DEF Rowed, InUse, FreeSlots
<1>15. Range(running) = Rowed \cup Range(admitted) /\ Rowed \cap Range(admitted) = {}
  BY <1>6 DEF IInv, Seats
<1>16. Plan'
  <2>1. \A p \in Range(places) : p \in Place /\ rows[p.slot] = None /\ p.req \notin Rowed
    <3>1. Range(places) \subseteq Place
      BY <1>8, RangeOfLine
    <3>2. \A p \in Range(places) : rows[p.slot] = None
      BY <1>8 DEF FreeSlots, InUse
    <3>3. \A p \in Range(places) : p.req \in Range(admitted)
      BY <1>8
    <3> QED
      BY <1>15, <3>1, <3>2, <3>3
  <2>2. Planned'
    BY <1>1, <1>8, <1>13, <1>14, <2>1 DEF Planned
  <2> QED
    BY <1>12, <1>13, <2>2 DEF Plan
<1>17. Types'
  <2>1. admitted' \in Seq(Request)
    BY <1>1, EmptyLine
  <2> QED
    BY <1>1, <1>7, <1>12, <2>1 DEF Types
<1>18. Line'
  <2>1. Once(admitted')
    BY <1>1, EmptyLine
  <2> QED
    BY <1>1, <2>1 DEF IInv, Line
<1>19. Seats'
  <2>1. Range(admitted') = {} /\ Len(admitted') = 0
    BY <1>1, EmptyLine
  <2>2. Range(running') = Rowed' \cup Range(admitted') \cup {p.req : p \in Due'}
    BY <1>1, <1>8, <1>13, <1>14, <1>15, <2>1
  <2>3. FreeSlots' \in SUBSET Slot
    BY DEF FreeSlots
  <2>4. Cardinality(FreeSlots') \in Nat
    BY <2>3, SlotsInOrder
  <2>5. Len(admitted') <= Cardinality(FreeSlots')
    BY <2>1, <2>4, NoneFewer, Zenon
  <2>6. Rowed' \cap Range(admitted') = {}
    BY <2>1
  <2>7. \A s, t \in InUse' : rows'[s] = rows'[t] => s = t
    BY <1>1, <1>14 DEF IInv, Seats
  <2> QED
    BY <2>2, <2>5, <2>6, <2>7 DEF Seats
<1>20. Steps'
  <2>1. CASE mixed' # <<>>
    BY <1>1, <1>5 DEF Steps
  <2>2. CASE mixed' = <<>>
    BY <1>1, <1>5 DEF Steps
  <2> QED
    BY <2>1, <2>2
<1>21. Drawn'
  BY <1>1 DEF IInv, Drawn, DrawnOnce, DrawnInRow
<1>22. Going'
  BY <1>1, <1>14 DEF IInv, Going
<1>23. Texts'
  <2>1. Texts
    BY DEF IInv
  <2> QED
    BY <1>1, <1>14, <2>1, TextsStay
<1> QED
  BY <1>16, <1>17, <1>18, <1>19, <1>20, <1>21, <1>22, <1>23 DEF IInv

-----------------------------------------------------------------------------
(* Texts and what a row sees of them.                                       *)

Start(text, n) == SubSeq(text, 1, n)
\* The start of a start of a text.
LEMMA StartOfStart ==
  ASSUME NEW text \in Seq(Token), NEW m \in 0..Len(text), NEW n \in 0..m
  PROVE  /\ Start(text, m) \in Seq(Token) /\ Len(Start(text, m)) = m
         /\ Start(Start(text, m), n) = Start(text, n)
<1>1. /\ Start(text, m) \in Seq(Token) /\ Len(Start(text, m)) = m
      /\ \A i \in 1..m : Start(text, m)[i] = text[i]
  <2>1. /\ SubSeq(text, 1, m) \in Seq(Token)
        /\ Len(SubSeq(text, 1, m)) = IF 1 <= m THEN m - 1 + 1 ELSE 0
        /\ \A i \in 1..Len(SubSeq(text, 1, m)) : SubSeq(text, 1, m)[i] = text[1 + i - 1]
    BY SubSeqOnce
  <2>2. Len(SubSeq(text, 1, m)) = m
    BY <2>1
  <2>3. \A i \in 1..m : 1 + i - 1 = i
    OBVIOUS
  <2> QED
    BY <2>1, <2>2, <2>3 DEF Start
<1>2. n \in 0..Len(text) /\ Len(text) \in Nat
  OBVIOUS
<1>3. /\ Start(text, n) \in Seq(Token) /\ Len(Start(text, n)) = n
      /\ \A i \in 1..n : Start(text, n)[i] = text[i]
  <2>1. /\ SubSeq(text, 1, n) \in Seq(Token)
        /\ Len(SubSeq(text, 1, n)) = IF 1 <= n THEN n - 1 + 1 ELSE 0
        /\ \A i \in 1..Len(SubSeq(text, 1, n)) : SubSeq(text, 1, n)[i] = text[1 + i - 1]
    BY <1>2, SubSeqOnce
  <2>2. Len(SubSeq(text, 1, n)) = n
    BY <2>1
  <2>3. \A i \in 1..n : 1 + i - 1 = i
    OBVIOUS
  <2> QED
    BY <2>1, <2>2, <2>3 DEF Start
<1>4. PICK head : head = Start(text, m)
  OBVIOUS
<1>5. /\ Start(head, n) \in Seq(Token) /\ Len(Start(head, n)) = n
      /\ \A i \in 1..n : Start(head, n)[i] = head[i]
  <2>1. head \in Seq(Token) /\ Len(head) = m /\ n \in 0..Len(head)
    BY <1>1, <1>4
  <2>2. /\ SubSeq(head, 1, n) \in Seq(Token)
        /\ Len(SubSeq(head, 1, n)) = IF 1 <= n THEN n - 1 + 1 ELSE 0
        /\ \A i \in 1..Len(SubSeq(head, 1, n)) : SubSeq(head, 1, n)[i] = head[1 + i - 1]
    BY <2>1, SubSeqOnce
  <2>3. Len(SubSeq(head, 1, n)) = n
    BY <2>2
  <2>4. \A i \in 1..n : 1 + i - 1 = i
    OBVIOUS
  <2> QED
    BY <2>2, <2>3, <2>4 DEF Start
<1>6. Start(head, n) = Start(text, n)
  <2>1. \A i \in 1..n : Start(head, n)[i] = Start(text, n)[i]
    BY <1>1, <1>3, <1>4, <1>5
  <2> QED
    BY <1>3, <1>5, <2>1
<1> QED
  BY <1>1, <1>4, <1>6

\* A text one token longer starts with the text.
LEMMA OneTokenMore ==
  ASSUME NEW text \in Seq(Token), NEW t \in Token
  PROVE  /\ Append(text, t) \in Seq(Token) \ {<<>>} /\ Len(Append(text, t)) = Len(text) + 1
         /\ Append(text, t)[Len(text) + 1] = t
         /\ \A m \in 0..Len(text) : Start(Append(text, t), m) = Start(text, m)
<1>1. PICK more : more = Append(text, t)
  OBVIOUS
<1>2. PICK n \in Nat : n = Len(text)
  OBVIOUS
<1>3. /\ more \in Seq(Token) /\ Len(more) = n + 1 /\ more[n + 1] = t
      /\ \A i \in 1..n : more[i] = text[i]
  BY <1>1, <1>2
<1>4. ASSUME NEW m \in 0..n
      PROVE  Start(more, m) = Start(text, m)
  <2>1. \A i \in 1..m : i \in 1..n
    OBVIOUS
  <2>2. SubSeq(more, 1, m) = [i \in 1..m |-> more[i]] /\ SubSeq(text, 1, m) = [i \in 1..m |-> text[i]]
    BY <1>2, <1>3
  <2> QED
    BY <1>3, <2>1, <2>2 DEF Start
<1>5. more # <<>>
  BY <1>3
<1> QED
  BY <1>1, <1>2, <1>3, <1>4, <1>5

\* What a row sees is the start of the text it holds.
LEMMA SeenText ==
  ASSUME NEW row, NEW text \in Seq(Token), NEW n \in 0..Len(text),
         \A i \in 0..(n - 1) : row[i] = Start(text, i + 1)
  PROVE  Seen(row, n) = Start(text, n)
<1>1. CASE n = 0
  <2>1. Start(text, 0) = <<>>
    BY DEF Start
  <2> QED
    BY <1>1, <2>1 DEF Seen
<1>2. CASE n # 0
  <2>1. n - 1 \in 0..(n - 1) /\ n - 1 + 1 = n /\ Len(text) \in Nat
    BY <1>2
  <2>2. row[n - 1] = Start(text, n) /\ Start(text, n) \in Seq(Token)
    BY <2>1, StartOfStart
  <2>3. row[n - 1] # Junk
    BY <2>2, RowEngineAssumption
  <2>4. ASSUME NEW i \in 0..(n - 1)
        PROVE  row[i] = SubSeq(row[n - 1], 1, i + 1)
    <3>1. i + 1 \in 0..n
      BY <2>1
    <3>2. Start(Start(text, n), i + 1) = Start(text, i + 1)
      BY <3>1, <2>1, StartOfStart
    <3>3. row[i] = Start(text, i + 1)
      OBVIOUS
    <3> QED
      BY <2>2, <3>2, <3>3 DEF Start
  <2> QED
    BY <1>2, <2>2, <2>3, <2>4 DEF Seen
<1> QED
  BY <1>1, <1>2

\* What a row sees is a text or junk.
LEMMA SeenIsText ==
  ASSUME NEW row \in [Cell -> Text], NEW n \in 0..MaxSeq
  PROVE  Seen(row, n) \in Text
<1>1. CASE n = 0
  BY <1>1 DEF Seen, Text
<1>2. CASE n # 0
  <2>1. n - 1 \in Cell
    BY <1>2, RowEngineAssumption DEF Cell
  <2>2. row[n - 1] \in Text
    BY <2>1
  <2>3. Seen(row, n) = row[n - 1] \/ Seen(row, n) = Junk
    BY <1>2 DEF Seen
  <2> QED
    BY <2>2, <2>3 DEF Text
<1> QED
  BY <1>1, <1>2

\* What a step computes is a text or junk.
LEMMA ExtendIsText ==
  ASSUME NEW text \in Text, NEW t \in Token \cup {Junk}
  PROVE  Extend(text, <<t>>) \in Text
<1>1. Range(<<t>>) = {t}
  BY DEF Range
<1>2. CASE text = Junk \/ t = Junk
  BY <1>1, <1>2 DEF Extend, Text
<1>3. CASE text # Junk /\ t # Junk
  <2>1. text \in Seq(Token) /\ t \in Token
    BY <1>3 DEF Text
  <2>2. text \o <<t>> \in Seq(Token)
    BY <2>1
  <2>3. Extend(text, <<t>>) = text \o <<t>>
    BY <1>1, <1>3 DEF Extend
  <2> QED
    BY <2>2, <2>3 DEF Text
<1> QED
  BY <1>2, <1>3

-----------------------------------------------------------------------------
(* How a text grows by passes.                                              *)

\* A text grows by the pass queued last.
LEMMA GrowsByPass ==
  ASSUME NEW line \in Seq(Seq(Draw)), NEW pass \in Seq(Draw), NEW r,
         NEW f, Grows(r, line, f), NEW more \in Seq(Token), Adds(r, pass, f[Len(line)], more)
  PROVE  \E g : Grows(r, Append(line, pass), g) /\ g[0] = f[0] /\ g[Len(line) + 1] = more
<1>1. PICK n \in Nat : n = Len(line)
  OBVIOUS
<1>2. PICK next : next = Append(line, pass)
  OBVIOUS
<1>3. Len(next) = n + 1 /\ next[n + 1] = pass /\ \A i \in 1..n : next[i] = line[i]
  BY <1>1, <1>2
<1>4. /\ \A i \in 0..(n + 1) : i \in 0..n \/ i = n + 1
      /\ \A i \in 1..(n + 1) : i \in 1..n \/ i = n + 1
      /\ \A i \in 1..n : i \in 0..n /\ i - 1 \in 0..n
      /\ \A i \in 0..n : i \in 0..(n + 1) /\ i # n + 1
      /\ n + 1 \in 0..(n + 1) /\ n + 1 - 1 = n /\ n \in 0..n /\ 0 \in 0..n
  <2>1. n \in Nat
    OBVIOUS
  <2>2. /\ \A i \in 0..(n + 1) : i \in 0..n \/ i = n + 1
        /\ \A i \in 1..(n + 1) : i \in 1..n \/ i = n + 1
    BY <2>1
  <2>3. /\ \A i \in 1..n : i \in 0..n /\ i - 1 \in 0..n
        /\ \A i \in 0..n : i \in 0..(n + 1) /\ i # n + 1
    BY <2>1
  <2>4. n + 1 \in 0..(n + 1) /\ n + 1 - 1 = n /\ n \in 0..n /\ 0 \in 0..n
    BY <2>1
  <2> QED
    BY <2>2, <2>3, <2>4
<1>5. f \in [0..n -> Seq(Token)] /\ \A k \in 1..n : Adds(r, line[k], f[k - 1], f[k])
  BY <1>1 DEF Grows
<1>6. PICK g \in [0..(n + 1) -> Seq(Token)] :
        g[n + 1] = more /\ \A i \in 0..n : g[i] = f[i]
  <2>1. /\ [i \in 0..(n + 1) |-> IF i = n + 1 THEN more ELSE f[i]]
             \in [0..(n + 1) -> Seq(Token)]
        /\ [i \in 0..(n + 1) |-> IF i = n + 1 THEN more ELSE f[i]][n + 1] = more
        /\ \A j \in 0..n : [i \in 0..(n + 1) |-> IF i = n + 1 THEN more ELSE f[i]][j] = f[j]
    BY <1>4, <1>5
  <2> QED
    BY <2>1
<1>7. Adds(r, next[n + 1], g[n], g[n + 1])
  BY <1>1, <1>3, <1>4, <1>6
<1>8. \A i \in 1..n : Adds(r, next[i], g[i - 1], g[i])
  BY <1>3, <1>4, <1>5, <1>6
<1>9. ASSUME NEW i \in 1..(n + 1)
      PROVE  Adds(r, next[i], g[i - 1], g[i])
  <2>1. i \in 1..n \/ i = n + 1
    BY <1>4
  <2>2. CASE i = n + 1
    <3>1. PICK k : k = i - 1
      OBVIOUS
    <3>2. k = n
      BY <2>2, <3>1
    <3>3. Adds(r, next[i], g[k], g[i])
      BY <1>7, <2>2, <3>2
    <3> QED
      BY <3>1, <3>3
  <2>3. CASE i \in 1..n
    BY <1>8, <2>3
  <2> QED
    BY <2>1, <2>2, <2>3
<1>10. Grows(r, next, g)
  BY <1>3, <1>6, <1>9 DEF Grows
<1>11. g[0] = f[0] /\ g[n + 1] = more
  BY <1>4, <1>6
<1> QED
  BY <1>1, <1>2, <1>10, <1>11

\* A text that no pass draws a token for.
LEMMA GrowsNot ==
  ASSUME NEW line \in Seq(Seq(Draw)), NEW r, NEW text \in Seq(Token),
         \A k \in 1..Len(line) : ~Draws(line[k], r)
  PROVE  \E f : Grows(r, line, f) /\ f[0] = text /\ f[Len(line)] = text
<1>1. PICK n \in Nat : n = Len(line)
  OBVIOUS
<1>2. PICK f : f = [i \in 0..n |-> text]
  OBVIOUS
<1>3. f \in [0..n -> Seq(Token)] /\ \A i \in 0..n : f[i] = text
  BY <1>2
<1>4. 0 \in 0..n /\ n \in 0..n /\ \A k \in 1..n : k \in 0..n /\ k - 1 \in 0..n
  BY <1>1
<1>5. ASSUME NEW k \in 1..n
      PROVE  Adds(r, line[k], f[k - 1], f[k])
  <2>1. line[k] \in Seq(Draw) /\ ~Draws(line[k], r)
    BY <1>1
  <2>2. \A j \in 1..Len(line[k]) : line[k][j].req # r
    BY <2>1, DrawsAt
  <2>3. f[k - 1] = text /\ f[k] = text
    BY <1>3, <1>4
  <2> QED
    BY <2>2, <2>3 DEF Adds
<1> QED
  BY <1>1, <1>3, <1>4, <1>5 DEF Grows

-----------------------------------------------------------------------------
(* The rows of a pass.                                                      *)

Rows == [Slot -> [Cell -> Text]]

\* A row carries a text from its first position.
Carries(row, text) == \A i \in 0..(Len(text) - 1) : row[i] = Start(text, i + 1)

\* The slots of places.
LEMMA SlotOfPlace ==
  ASSUME NEW places
  PROVE  \A s : s \in SlotsOf(places) <=> \E p \in Range(places) : p.slot = s
BY DEF SlotsOf

\* Those that share a prompt have a copy of its row.
LEMMA CopiedRows ==
  ASSUME Plan, NEW batch \in Seq(Place), Once(batch), Range(batch) \subseteq Leading,
         NEW base \in Rows, \A p \in Range(batch) : Carries(base[p.slot], Prompt[p.req])
  PROVE  /\ Copied(batch, base) \in Rows
         /\ \A p \in Range(Everyone(batch)) : Carries(Copied(batch, base)[p.slot], Prompt[p.req])
         /\ \A s \in Slot \ SlotsOf(Everyone(batch)) : Copied(batch, base)[s] = base[s]
<1> DEFINE B == Range(batch)  leads(s) == {p \in B : s \in SlotsOf(Sharers(p))}
           one(s) == CHOOSE p \in leads(s) : TRUE
<1>1. PICK cells : cells = Copied(batch, base)
  OBVIOUS
<1>2. /\ Range(Everyone(batch)) = B \cup Shared(B) /\ Range(Everyone(batch)) \subseteq Due
  BY EveryoneOf
<1>3. \A p \in Due : p \in Place
  BY DEF Plan, Planned
<1>4. \A p, q \in Due : p.slot = q.slot => p = q
  BY DEF Plan, Planned
<1>5. /\ \A p \in Leading : Range(Sharers(p)) \cap Leading = {}
      /\ \A p \in Leading : \A q \in Range(Sharers(p)) : Prompt[q.req] = Prompt[p.req]
      /\ \A p, q \in Leading : p # q => Range(Sharers(p)) \cap Range(Sharers(q)) = {}
  BY DEF Plan, Sharing
<1>6. \A x : x \in Shared(B) <=> \E p \in B : x \in Range(Sharers(p))
  BY DEF Shared
<1>7. /\ cells = [s \in Slot |-> IF leads(s) = {} THEN base[s] ELSE base[one(s).slot]]
  BY <1>1 DEF Copied
<1>8. \A s : \A p : p \in leads(s) <=> p \in B /\ \E x \in Range(Sharers(p)) : x.slot = s
  BY SlotOfPlace
<1>9. \A s : leads(s) # {} => one(s) \in leads(s)
  OBVIOUS
<1> HIDE DEF leads, one, B
<1>10. B \subseteq Leading /\ B \subseteq Due /\ \A p \in B : p.slot \in Slot
  <2>1. B \subseteq Leading /\ B \subseteq Due
    BY <1>2 DEF B
  <2> QED
    BY <1>3, <2>1 DEF Place
<1>11. \A s \in Slot : cells[s] = IF leads(s) = {} THEN base[s] ELSE base[one(s).slot]
  BY <1>7
<1>12. cells \in Rows
  <2>1. ASSUME NEW s \in Slot
        PROVE  (IF leads(s) = {} THEN base[s] ELSE base[one(s).slot]) \in [Cell -> Text]
    <3>1. leads(s) # {} => one(s).slot \in Slot
      BY <1>8, <1>9, <1>10
    <3> QED
      BY <3>1 DEF Rows
  <2> QED
    BY <1>7, <2>1 DEF Rows
<1>13. ASSUME NEW p \in B
       PROVE  cells[p.slot] = base[p.slot]
  <2>1. leads(p.slot) = {}
    <3> SUFFICES ASSUME NEW q \in B, NEW x \in Range(Sharers(q)), x.slot = p.slot
                 PROVE  FALSE
      BY <1>8
    <3>1. x \in Due /\ p \in Due
      BY <1>2, <1>6, <1>10
    <3>2. x = p
      BY <1>4, <3>1
    <3> QED
      BY <1>5, <1>10, <3>2
  <2> QED
    BY <1>10, <1>11, <2>1
<1>14. ASSUME NEW p \in B, NEW x \in Range(Sharers(p))
       PROVE  cells[x.slot] = base[p.slot] /\ Prompt[x.req] = Prompt[p.req]
  <2>1. x \in Due
    BY <1>2, <1>6
  <2>2. x.slot \in Slot
    BY <1>3, <2>1 DEF Place
  <2>3. leads(x.slot) # {}
    BY <1>8
  <2>4. PICK y \in Range(Sharers(one(x.slot))) : one(x.slot) \in B /\ y.slot = x.slot
    BY <1>8, <1>9, <2>3
  <2>5. y \in Due
    BY <1>2, <1>6, <2>4
  <2>6. y = x
    BY <1>4, <2>1, <2>4, <2>5
  <2>7. one(x.slot) = p
    BY <1>5, <1>10, <2>4, <2>6
  <2>8. Prompt[x.req] = Prompt[p.req]
    BY <1>5, <1>10
  <2> QED
    BY <1>11, <2>2, <2>3, <2>7, <2>8
<1>15. ASSUME NEW p \in Range(Everyone(batch))
       PROVE  Carries(cells[p.slot], Prompt[p.req])
  <2>1. CASE p \in B
    <3>1. Carries(base[p.slot], Prompt[p.req])
      BY <2>1 DEF B
    <3> QED
      BY <1>13, <2>1, <3>1
  <2>2. CASE p \in Shared(B)
    <3>1. PICK q \in B : p \in Range(Sharers(q))
      BY <1>6, <2>2
    <3>2. Carries(base[q.slot], Prompt[q.req])
      BY DEF B
    <3> QED
      BY <1>14, <3>1, <3>2
  <2> QED
    BY <1>2, <2>1, <2>2
<1>16. ASSUME NEW s \in Slot \ SlotsOf(Everyone(batch))
       PROVE  cells[s] = base[s]
  <2>1. leads(s) = {}
    <3> SUFFICES ASSUME NEW q \in B, NEW x \in Range(Sharers(q)), x.slot = s
                 PROVE  FALSE
      BY <1>8
    <3>1. x \in Range(Everyone(batch))
      BY <1>2, <1>6
    <3> QED
      BY <3>1, SlotOfPlace
  <2> QED
    BY <1>11, <2>1
<1> QED
  BY <1>1, <1>12, <1>15, <1>16

\* The rows a pass fills carry its prompts.
LEMMA FilledRows ==
  ASSUME Types, Plan, NEW batch \in Seq(Place), Range(batch) \subseteq Leading
  PROVE  /\ Filled(batch) \in Rows
         /\ \A p \in Range(batch) : Carries(Filled(batch)[p.slot], Prompt[p.req])
         /\ \A s \in Slot \ SlotsOf(batch) : Filled(batch)[s] = cache[s]
<1>1. Range(batch) \subseteq Due /\ Range(batch) \subseteq Place
  BY RangeOfLine DEF Due
<1>2. \A p, q \in Range(batch) : p.slot = q.slot \/ p.req = q.req => p = q
  BY <1>1 DEF Plan, Planned
<1>3. \A p \in Range(batch) : p.slot \in SlotsOf(batch) /\ RequestIn(batch, p.slot) = p.req
  BY <1>2, RequestOfSlot
<1>4. \A p \in Range(batch) : p.slot \in Slot /\ p.req \in Request
  BY <1>1 DEF Place
<1> DEFINE row(r) == [i \in 0..(MaxSeq - 1) |-> IF i < Len(Prompt[r]) THEN SubSeq(Prompt[r], 1, i + 1) ELSE Junk]
<1>5. Filled(batch) = [s \in Slot |-> IF s \notin SlotsOf(batch) THEN cache[s] ELSE row(RequestIn(batch, s))]
  BY DEF Filled
<1>6. ASSUME NEW r \in Request
      PROVE  row(r) \in [Cell -> Text] /\ Carries(row(r), Prompt[r])
  <2>1. Prompt[r] \in Seq(Token) /\ Len(Prompt[r]) \in Nat /\ Len(Prompt[r]) < MaxSeq /\ MaxSeq \in Nat
    BY RowEngineAssumption
  <2>2. ASSUME NEW i \in Cell, i < Len(Prompt[r])
        PROVE  SubSeq(Prompt[r], 1, i + 1) \in Seq(Token)
    <3>1. i + 1 \in 0..Len(Prompt[r])
      BY <2>1, <2>2 DEF Cell
    <3>2. Start(Prompt[r], i + 1) \in Seq(Token)
      <4>1. i + 1 \in 0..(i + 1) /\ 0 \in 0..(i + 1)
        BY <3>1
      <4> QED
        BY <2>1, <3>1, <4>1, StartOfStart
    <3> QED
      BY <3>2 DEF Start
  <2>3. row(r) \in [Cell -> Text]
    BY <2>2 DEF Cell, Text
  <2>4. ASSUME NEW i \in 0..(Len(Prompt[r]) - 1)
        PROVE  row(r)[i] = Start(Prompt[r], i + 1)
    <3>1. i \in 0..(MaxSeq - 1) /\ i < Len(Prompt[r])
      BY <2>1
    <3> QED
      BY <3>1 DEF Start
  <2> HIDE DEF row
  <2> QED
    BY <2>3, <2>4 DEF Carries
<1> HIDE DEF row
<1>7. cache \in Rows
  BY DEF Types, Rows
<1>8. \A s \in SlotsOf(batch) : \E p \in Range(batch) : p.slot = s
  BY SlotOfPlace
<1>9. \A s \in SlotsOf(batch) : RequestIn(batch, s) \in Request
  BY <1>3, <1>4, <1>8
<1>10. Filled(batch) \in Rows
  BY <1>5, <1>6, <1>7, <1>9 DEF Rows
<1>11. \A p \in Range(batch) : Filled(batch)[p.slot] = row(p.req)
  BY <1>3, <1>4, <1>5
<1>12. \A s \in Slot \ SlotsOf(batch) : Filled(batch)[s] = cache[s]
  BY <1>5
<1> QED
  BY <1>4, <1>6, <1>10, <1>11, <1>12

\* A pass has the token drawn after the prompt of each of its places.
PassOf(pass, everyone, draw) ==
  /\ pass \in Seq(Draw) /\ DrawnOnce(pass)
  /\ \A j \in 1..Len(pass) : \E p \in Range(everyone) :
       /\ pass[j].slot = p.slot /\ pass[j].req = p.req /\ pass[j].token = draw[p.slot]
       /\ pass[j].key = p.req /\ pass[j].text = Prompt[p.req] /\ pass[j].prompt
  /\ \A p \in Range(everyone) : \E j \in 1..Len(pass) : pass[j].req = p.req

\* The whole of a text is its start.
LEMMA WholeStart ==
  ASSUME NEW text \in Seq(Token)
  PROVE  Start(text, Len(text)) = text /\ Len(text) \in Nat /\ Len(text) \in 0..Len(text)
BY DEF Start

\* What a pass over prompts queues is its pass.
LEMMA PromptedPass ==
  ASSUME NEW everyone \in Seq(Place), Once(everyone),
         \A p, q \in Range(everyone) : p.slot = q.slot \/ p.req = q.req => p = q,
         NEW draw \in [SlotsOf(everyone) -> Token], NEW cells,
         \A p \in Range(everyone) : Carries(cells[p.slot], Prompt[p.req])
  PROVE  PassOf(Prompted(everyone, draw, cells), everyone, draw)
<1> DEFINE it(p) == [slot |-> p.slot, req |-> p.req, token |-> draw[p.slot], key |-> p.req,
                     text |-> Seen(cells[p.slot], Length(p)), prompt |-> TRUE]
<1>1. PICK pass : pass = Prompted(everyone, draw, cells)
  OBVIOUS
<1>2. pass = [i \in DOMAIN everyone |-> it(everyone[i])]
  BY <1>1 DEF Prompted
<1>3. DOMAIN everyone = 1..Len(everyone) /\ Len(everyone) \in Nat
  OBVIOUS
<1>4. /\ \A i \in 1..Len(everyone) : everyone[i] \in Range(everyone)
      /\ \A p \in Range(everyone) : \E i \in 1..Len(everyone) : everyone[i] = p
      /\ Range(everyone) \subseteq Place
      /\ \A i, j \in 1..Len(everyone) : everyone[i] = everyone[j] => i = j
  BY RangeOfLine, OnceOfLine
<1>5. ASSUME NEW p \in Range(everyone)
      PROVE  /\ it(p) \in Draw /\ it(p).slot = p.slot /\ it(p).req = p.req /\ it(p).token = draw[p.slot]
             /\ it(p).key = p.req /\ it(p).text = Prompt[p.req] /\ it(p).prompt
  <2>1. p.slot \in Slot /\ p.req \in Request
    BY <1>4 DEF Place
  <2>2. Prompt[p.req] \in Seq(Token)
    BY <2>1, RowEngineAssumption
  <2>3. p.slot \in SlotsOf(everyone)
    BY SlotOfPlace
  <2>4. draw[p.slot] \in Token
    BY <2>3
  <2>5. Seen(cells[p.slot], Length(p)) = Prompt[p.req]
    <3>1. PICK text \in Seq(Token) : text = Prompt[p.req]
      BY <2>2
    <3>2. Length(p) = Len(text) /\ Len(text) \in 0..Len(text) /\ Start(text, Len(text)) = text
      BY <3>1, WholeStart DEF Length
    <3>3. PICK row : row = cells[p.slot]
      OBVIOUS
    <3>4. PICK n \in 0..Len(text) : n = Len(text)
      BY <3>2
    <3>5. \A i \in 0..(n - 1) : row[i] = Start(text, i + 1)
      BY <3>1, <3>3, <3>4 DEF Carries
    <3>6. Seen(row, n) = Start(text, n)
      BY <3>5, SeenText
    <3> QED
      BY <3>1, <3>2, <3>3, <3>4, <3>6
  <2>6. Prompt[p.req] \in Text
    BY <2>2 DEF Text
  <2>7. it(p) = [slot |-> p.slot, req |-> p.req, token |-> draw[p.slot], key |-> p.req,
                 text |-> Prompt[p.req], prompt |-> TRUE]
    BY <2>5
  <2> HIDE DEF it
  <2> QED
    BY <2>1, <2>4, <2>6, <2>7 DEF Draw
<1> HIDE DEF it
<1>6. /\ pass \in Seq(Draw) /\ Len(pass) = Len(everyone)
      /\ \A i \in 1..Len(everyone) : pass[i] = it(everyone[i])
  <2>1. \A i \in 1..Len(everyone) : it(everyone[i]) \in Draw
    BY <1>4, <1>5
  <2> QED
    BY <1>2, <1>3, <2>1
<1>7. DrawnOnce(pass)
  <2> SUFFICES ASSUME NEW i \in 1..Len(everyone), NEW j \in 1..Len(everyone), pass[i].req = pass[j].req
               PROVE  i = j
    BY <1>6 DEF DrawnOnce
  <2>1. everyone[i].req = everyone[j].req
    BY <1>4, <1>5, <1>6
  <2>2. everyone[i] = everyone[j]
    BY <1>4, <2>1
  <2> QED
    BY <1>4, <2>2
<1>8. \A j \in 1..Len(pass) : \E p \in Range(everyone) : pass[j] = it(p)
  BY <1>4, <1>6
<1>9. \A p \in Range(everyone) : \E j \in 1..Len(pass) : pass[j] = it(p)
  BY <1>4, <1>6
<1>10. \A p \in Range(everyone) : \E j \in 1..Len(pass) : pass[j].req = p.req
  BY <1>5, <1>9
<1>11. \A j \in 1..Len(pass) : \E p \in Range(everyone) :
         /\ pass[j].slot = p.slot /\ pass[j].req = p.req /\ pass[j].token = draw[p.slot]
         /\ pass[j].key = p.req /\ pass[j].text = Prompt[p.req] /\ pass[j].prompt
  <2> SUFFICES ASSUME NEW j \in 1..Len(pass)
               PROVE  \E p \in Range(everyone) :
                        /\ pass[j].slot = p.slot /\ pass[j].req = p.req /\ pass[j].token = draw[p.slot]
                        /\ pass[j].key = p.req /\ pass[j].text = Prompt[p.req] /\ pass[j].prompt
    OBVIOUS
  <2>1. PICK p \in Range(everyone) : pass[j] = it(p)
    BY <1>8
  <2> QED
    BY <1>5, <2>1
<1> QED
  BY <1>1, <1>6, <1>7, <1>10, <1>11 DEF PassOf

\* What a pass over prompts adds: the tokens it drew, each after its own prompt.
LEMMA PromptsAdd ==
  ASSUME NEW everyone, NEW draw, NEW pass, PassOf(pass, everyone, draw),
         \A p, q \in Range(everyone) : p.slot = q.slot \/ p.req = q.req => p = q
  PROVE  /\ \A p \in Range(everyone) :
              Adds(p.req, pass, Prompt[p.req], Append(Prompt[p.req], draw[p.slot]))
         /\ \A r, text : (\A p \in Range(everyone) : p.req # r) => ~Draws(pass, r) /\ Adds(r, pass, text, text)
<1>1. /\ pass \in Seq(Draw)
      /\ \A j \in 1..Len(pass) : \E p \in Range(everyone) :
           /\ pass[j].slot = p.slot /\ pass[j].req = p.req /\ pass[j].token = draw[p.slot]
           /\ pass[j].key = p.req /\ pass[j].text = Prompt[p.req] /\ pass[j].prompt
      /\ \A p \in Range(everyone) : \E j \in 1..Len(pass) : pass[j].req = p.req
  BY DEF PassOf
<1>2. \A r : Draws(pass, r) <=> \E i \in 1..Len(pass) : pass[i].req = r
  BY <1>1, DrawsAt
<1>3. ASSUME NEW p \in Range(everyone)
      PROVE  Adds(p.req, pass, Prompt[p.req], Append(Prompt[p.req], draw[p.slot]))
  <2>1. Draws(pass, p.req)
    BY <1>1, <1>2
  <2>2. ASSUME NEW j \in 1..Len(pass), pass[j].req = p.req
        PROVE  /\ pass[j].token = draw[p.slot] /\ pass[j].key = p.req
               /\ pass[j].text = Prompt[p.req] /\ pass[j].prompt
    <3>1. PICK q \in Range(everyone) :
            /\ pass[j].slot = q.slot /\ pass[j].req = q.req /\ pass[j].token = draw[q.slot]
            /\ pass[j].key = q.req /\ pass[j].text = Prompt[q.req] /\ pass[j].prompt
      BY <1>1
    <3>2. q = p
      BY <2>2, <3>1
    <3> QED
      BY <3>1, <3>2
  <2> QED
    BY <2>1, <2>2 DEF Adds
<1>4. ASSUME NEW r, NEW text, \A p \in Range(everyone) : p.req # r
      PROVE  ~Draws(pass, r) /\ Adds(r, pass, text, text)
  <2>1. \A j \in 1..Len(pass) : pass[j].req # r
    BY <1>1, <1>4
  <2> QED
    BY <1>2, <2>1 DEF Adds
<1> QED
  BY <1>3, <1>4

\* No pass not read has a token of a request that is to get its row.
LEMMA NotDrawn ==
  ASSUME IInv, NEW p \in Due
  PROVE  /\ p \in Place /\ p.req \in Request /\ p.slot \in Slot /\ p.slot \notin InUse
         /\ p.req \notin Rowed /\ reason[p.req] = "" /\ tokens[p.req] = <<>>
         /\ \A k \in 1..Len(queued) : ~Draws(queued[k], p.req)
<1>1. p \in Place /\ rows[p.slot] = None /\ p.req \notin Rowed /\ p.req \in Request /\ p.slot \in Slot
  BY DEF IInv, Plan, Planned, Place
<1>2. p.req \in Range(running)
  BY DEF IInv, Seats
<1>3. reason[p.req] = ""
  BY <1>2 DEF IInv, Line
<1>4. tokens[p.req] = <<>>
  BY <1>1, <1>3 DEF IInv, Going
<1>5. ASSUME NEW k \in 1..Len(queued)
      PROVE  ~Draws(queued[k], p.req)
  <2>1. queued[k] \in Seq(Draw)
    <3>1. queued \in Seq(Seq(Draw))
      BY DEF IInv, Types
    <3> QED
      BY <3>1
  <2>2. DrawnInRow(queued[k])
    BY DEF IInv, Drawn
  <2> SUFFICES ASSUME NEW i \in 1..Len(queued[k]), queued[k][i].req = p.req
               PROVE  FALSE
    BY <2>1, DrawsAt
  <2>3. rows[queued[k][i].slot] = p.req
    BY <1>3, <2>2 DEF DrawnInRow
  <2>4. queued[k][i] \in Draw
    BY <2>1, PlacesOfLine
  <2>5. queued[k][i].slot \in Slot
    BY <2>4 DEF Draw
  <2>6. p.req # None
    BY <1>1, RowEngineAssumption
  <2> QED
    BY <1>1, <2>3, <2>5, <2>6 DEF Rowed, InUse
<1> QED
  BY <1>1, <1>3, <1>4, <1>5 DEF InUse

\* Places of the plan that take their rows: the rows in use stay as they are.
LEMMA SeatsTaken ==
  ASSUME IInv, NEW everyone, NEW S, S = Range(everyone), S \subseteq Due, Due' = Due \ S,
         rows' \in [Slot -> Request \cup {None}],
         \A p \in S : rows'[p.slot] = p.req,
         \A s \in Slot \ SlotsOf(everyone) : rows'[s] = rows[s],
         admitted = <<>>, UNCHANGED <<running, admitted, tokens, positions, reason>>
  PROVE  /\ InUse' = InUse \cup SlotsOf(everyone) /\ Rowed' = Rowed \cup {p.req : p \in S}
         /\ \A s \in InUse : s \notin SlotsOf(everyone) /\ rows'[s] = rows[s]
         /\ \A s \in SlotsOf(everyone) : \E p \in S : p.slot = s
         /\ Seats' /\ Planned' /\ Going'
         /\ \A pass \in Seq(Draw) : DrawnInRow(pass) => DrawnInRow(pass)'
<1>1. \A p \in S : /\ p \in Due /\ p \in Place /\ p.req \in Request /\ p.slot \in Slot /\ p.slot \notin InUse
                   /\ p.req \notin Rowed /\ reason[p.req] = "" /\ tokens[p.req] = <<>>
                   /\ p.slot \in SlotsOf(everyone)
  BY NotDrawn, SlotOfPlace
<1>2. \A s \in SlotsOf(everyone) : \E p \in S : p.slot = s
  BY SlotOfPlace
<1>3. \A p, q \in Due : p.slot = q.slot \/ p.req = q.req => p = q
  BY DEF IInv, Plan, Planned
<1>4. \A s \in InUse : s \notin SlotsOf(everyone) /\ rows'[s] = rows[s] /\ s \in Slot
  BY <1>1, <1>2 DEF InUse
<1>5. None \notin Request
  BY RowEngineAssumption
<1>6. InUse' = InUse \cup SlotsOf(everyone)
  <2>1. \A s \in Slot : s \in InUse' <=> rows'[s] # None
    BY DEF InUse
  <2>2. ASSUME NEW s \in SlotsOf(everyone)
        PROVE  s \in Slot /\ rows'[s] # None
    <3>1. PICK p \in S : p.slot = s
      BY <1>2
    <3>2. rows'[s] = p.req /\ p.req \in Request /\ s \in Slot
      BY <1>1, <3>1
    <3> QED
      BY <1>5, <3>2
  <2>3. \A s \in Slot : s \in InUse <=> rows[s] # None
    BY DEF InUse
  <2>4. InUse' \subseteq Slot /\ InUse \subseteq Slot
    BY DEF InUse
  <2> QED
    BY <1>4, <2>1, <2>2, <2>3, <2>4
<1>7. Rowed' = Rowed \cup {p.req : p \in S}
  <2>1. Rowed' = {rows'[s] : s \in InUse'}
    BY DEF Rowed
  <2>2. Rowed = {rows[s] : s \in InUse}
    BY DEF Rowed
  <2>3. ASSUME NEW s \in InUse'
        PROVE  rows'[s] \in Rowed \cup {p.req : p \in S}
    <3>1. CASE s \in InUse
      BY <1>4, <2>2, <3>1
    <3>2. CASE s \in SlotsOf(everyone)
      <4>1. PICK p \in S : p.slot = s
        BY <1>2, <3>2
      <4>2. rows'[s] = p.req
        BY <4>1
      <4> QED
        BY <4>2
    <3> QED
      BY <1>6, <3>1, <3>2
  <2>4. ASSUME NEW r \in Rowed
        PROVE  r \in Rowed'
    <3>1. PICK s \in InUse : rows[s] = r
      BY <2>2
    <3>2. s \in InUse' /\ rows'[s] = r
      BY <1>4, <1>6, <3>1
    <3> QED
      BY <2>1, <3>2
  <2>5. ASSUME NEW p \in S
        PROVE  p.req \in Rowed'
    <3>1. p.slot \in InUse' /\ rows'[p.slot] = p.req
      BY <1>1, <1>6
    <3> QED
      BY <2>1, <3>1
  <2> QED
    BY <2>1, <2>3, <2>4, <2>5
<1>8. Seats'
  <2>1. ASSUME NEW s \in InUse', NEW t \in InUse', rows'[s] = rows'[t]
        PROVE  s = t
    <3>1. \A a, b \in InUse : rows[a] = rows[b] => a = b
      BY DEF IInv, Seats
    <3>2. \A a \in InUse : rows'[a] \in Rowed
      BY <1>4 DEF Rowed
    <3>3. CASE s \in InUse /\ t \in InUse
      BY <1>4, <2>1, <3>1, <3>3
    <3> DEFINE new(a) == \E p \in S : p.slot = a /\ rows'[a] = p.req /\ rows'[a] \notin Rowed
    <3>7. \A a \in InUse' : a \in InUse \/ new(a)
      <4> SUFFICES ASSUME NEW a \in InUse', a \notin InUse
                   PROVE  new(a)
        OBVIOUS
      <4>1. PICK p \in S : p.slot = a
        BY <1>2, <1>6
      <4>2. rows'[a] = p.req /\ p.req \notin Rowed
        BY <1>1, <4>1
      <4> QED
        BY <4>1, <4>2
    <3>4. CASE s \in InUse /\ t \notin InUse
      BY <2>1, <3>2, <3>4, <3>7
    <3>5. CASE s \notin InUse /\ t \in InUse
      BY <2>1, <3>2, <3>5, <3>7
    <3>6. CASE s \notin InUse /\ t \notin InUse
      <4>1. PICK p \in S : p.slot = s
        BY <1>2, <1>6, <3>6
      <4>2. PICK q \in S : q.slot = t
        BY <1>2, <1>6, <3>6
      <4>3. p.req = q.req
        BY <2>1, <4>1, <4>2
      <4> QED
        BY <1>3, <4>1, <4>2, <4>3
    <3> QED
      BY <3>3, <3>4, <3>5, <3>6
  <2>2. Range(admitted) = {} /\ Range(admitted)' = {}
    BY EmptyLine
  <2>3. Range(running)' = Rowed' \cup Range(admitted)' \cup {p.req : p \in Due'}
    <3>1. Range(running) = Rowed \cup Range(admitted) \cup {p.req : p \in Due}
      BY DEF IInv, Seats
    <3>2. Range(running)' = Range(running)
      OBVIOUS
    <3> QED
      BY <1>7, <2>2, <3>1, <3>2
  <2>4. Len(admitted)' <= Cardinality(FreeSlots)'
    <3>1. FreeSlots' \in SUBSET Slot
      BY DEF FreeSlots
    <3>2. Cardinality(FreeSlots)' \in Nat
      BY <3>1, SlotsInOrder
    <3>3. Len(admitted)' = 0
      OBVIOUS
    <3> QED
      BY <3>2, <3>3, NoneFewer
  <2> QED
    BY <2>1, <2>2, <2>3, <2>4 DEF Seats
<1>9. Planned'
  <2>1. ASSUME NEW p \in Due'
        PROVE  p \in Place /\ rows'[p.slot] = None /\ p.req \notin Rowed'
    <3>1. p \in Due /\ p \notin S
      OBVIOUS
    <3>2. p \in Place /\ rows[p.slot] = None /\ p.req \notin Rowed /\ p.slot \in Slot
      BY <3>1 DEF IInv, Plan, Planned, Place
    <3>3. p.slot \notin SlotsOf(everyone)
      BY <1>1, <1>2, <1>3, <3>1
    <3>4. p.req \notin {q.req : q \in S}
      BY <1>1, <1>3, <3>1
    <3> QED
      BY <1>7, <3>2, <3>3, <3>4
  <2>2. \A p, q \in Due' : p.slot = q.slot \/ p.req = q.req => p = q
    BY <1>3
  <2> QED
    BY <2>1, <2>2 DEF Planned
<1>10. Going'
  <2>1. /\ \A r \in Request : reason[r] = "" =>
             \/ tokens[r] = <<>>
             \/ Len(tokens[r]) < MaxNew[r] /\ Len(Prompt[r]) + Len(tokens[r]) < MaxSeq
        /\ \A r \in Request : reason[r] = "" /\ r \notin Rowed => tokens[r] = <<>>
        /\ \A s \in InUse : tokens[rows[s]] # <<>> =>
             positions[s] = Len(Prompt[rows[s]]) + Len(tokens[rows[s]]) - 1
    BY DEF IInv, Going
  <2>2. ASSUME NEW s \in InUse', tokens'[rows'[s]] # <<>>
        PROVE  positions'[s] = Len(Prompt[rows'[s]]) + Len(tokens'[rows'[s]]) - 1
    <3>1. CASE s \in InUse
      <4>1. rows'[s] = rows[s] /\ tokens' = tokens /\ positions' = positions
        BY <1>4, <3>1
      <4> QED
        BY <2>1, <2>2, <3>1, <4>1
    <3>2. CASE s \notin InUse
      <4>1. PICK p \in S : p.slot = s
        BY <1>2, <1>6, <3>2
      <4>2. rows'[s] = p.req /\ tokens'[p.req] = <<>>
        BY <1>1, <4>1
      <4> QED
        BY <2>2, <4>2
    <3> QED
      BY <3>1, <3>2
  <2>3. \A r \in Request : reason'[r] = "" /\ r \notin Rowed' => tokens'[r] = <<>>
    BY <1>7, <2>1
  <2> QED
    BY <2>1, <2>2, <2>3 DEF Going
<1>11. ASSUME NEW pass \in Seq(Draw), DrawnInRow(pass)
       PROVE  \A i \in 1..Len(pass) : reason'[pass[i].req] = "" => rows'[pass[i].slot] = pass[i].req
  <2> SUFFICES ASSUME NEW i \in 1..Len(pass), reason'[pass[i].req] = ""
               PROVE  rows'[pass[i].slot] = pass[i].req
    OBVIOUS
  <2>1. pass[i] \in Draw
    BY PlacesOfLine
  <2>2. pass[i].slot \in Slot /\ pass[i].req \in Request
    BY <2>1 DEF Draw
  <2>3. rows[pass[i].slot] = pass[i].req
    BY <1>11 DEF DrawnInRow
  <2>4. pass[i].slot \in InUse
    BY <1>5, <2>2, <2>3 DEF InUse
  <2> QED
    BY <1>4, <2>3, <2>4
<1>12. \A pass \in Seq(Draw) : DrawnInRow(pass) => DrawnInRow(pass)'
  BY <1>11 DEF DrawnInRow
<1> QED
  BY <1>2, <1>4, <1>6, <1>7, <1>8, <1>9, <1>10, <1>12

\* A request that gets its row has its prompt there, and the token drawn after it.
LEMMA RowBegun ==
  ASSUME NEW p \in Place, NEW t \in Token, rows'[p.slot] = p.req, devTok'[p.slot] = t,
         devPos'[p.slot] = Len(Prompt[p.req]), Carries(cache'[p.slot], Prompt[p.req])
  PROVE  Stands(p.slot, Append(Prompt[p.req], t))'
<1>1. p.req \in Request
  BY DEF Place
<1>2. PICK text \in Seq(Token) : text = Prompt[p.req]
  BY <1>1, RowEngineAssumption
<1>3. PICK more : more = Append(text, t)
  OBVIOUS
<1>4. /\ more \in Seq(Token) /\ Len(more) = Len(text) + 1 /\ more[Len(text) + 1] = t /\ Len(text) \in Nat
      /\ \A m \in 0..Len(text) : Start(more, m) = Start(text, m)
  BY <1>3, OneTokenMore, WholeStart
<1>5. PICK row : row = cache'[p.slot]
  OBVIOUS
<1>6. \A i \in 0..(Len(text) - 1) : row[i] = Start(text, i + 1)
  BY <1>2, <1>5 DEF Carries
<1>7. \A i \in 0..(Len(more) - 2) : row[i] = SubSeq(more, 1, i + 1)
  <2> SUFFICES ASSUME NEW i \in 0..(Len(more) - 2)
               PROVE  row[i] = SubSeq(more, 1, i + 1)
    OBVIOUS
  <2>1. i \in 0..(Len(text) - 1) /\ i + 1 \in 0..Len(text)
    BY <1>4
  <2>2. row[i] = Start(text, i + 1) /\ Start(more, i + 1) = Start(text, i + 1)
    BY <1>4, <1>6, <2>1
  <2> QED
    BY <2>2 DEF Start
<1>8. Len(more) > Len(text) /\ Len(more) - 1 = Len(text) /\ more[Len(more)] = t
  BY <1>4
<1>9. Holds(cache'[p.slot], more)
  BY <1>5, <1>7 DEF Holds
<1> QED
  BY <1>2, <1>3, <1>8, <1>9 DEF Stands

\* Between `pass` and `read` no pass is being read.
LEMMA NothingRead ==
  ASSUME reading = <<>>, NEW r, NEW text
  PROVE  Adds(r, reading, text, text)
<1>1. \A j : j \notin 1..Len(reading) /\ j \notin DOMAIN reading
  BY NoPlaces
<1> QED
  BY <1>1 DEF Adds, Draws

\* A pass over the prompts of a batch and of those that share them.
LEMMA PromptPassInv ==
  ASSUME IInv, pc = "pass", NEW batch \in Seq(Place), Once(batch), Range(batch) \subseteq Leading,
         PromptPass(batch), Leading' = Leading \ Range(batch), passes' \in Seq(Seq(Place)), Disjoint'
  PROVE  IInv'
<1>1. PICK everyone : everyone = Everyone(batch)
  OBVIOUS
<1>2. PICK cells : cells = Copied(batch, Filled(batch))
  OBVIOUS
<1>3. PICK draw \in [SlotsOf(everyone) -> Token] :
        /\ cache' = cells
        /\ Enter(everyone, draw, devTok, devPos)
        /\ queued' = Append(queued, Prompted(everyone, draw, cells))
        /\ UNCHANGED <<requestVars, lineVars, positions, reading, ahead, pc, admitted, mixed, sharing>>
  BY <1>1, <1>2 DEF PromptPass
<1>4. /\ Types /\ Plan /\ Line /\ Steps /\ Drawn /\ Texts
      /\ reading = <<>> /\ admitted = <<>>
  BY DEF IInv, Steps
<1>5. /\ everyone \in Seq(Place) /\ Once(everyone) /\ Range(everyone) \subseteq Due
      /\ \A p \in Range(everyone) : p \in Place
  BY <1>1, <1>4, EveryoneOf, RangeOfLine
<1>6. \A p, q \in Range(everyone) : p.slot = q.slot \/ p.req = q.req => p = q
  BY <1>4, <1>5 DEF Plan, Planned
<1>7. Due' = Due \ Range(everyone) /\ Sharing'
  <2>1. UNCHANGED sharing
    BY <1>3
  <2> QED
    BY <1>1, <1>4, <2>1, DueLeft
<1>8. Filled(batch) \in Rows /\ \A p \in Range(batch) : Carries(Filled(batch)[p.slot], Prompt[p.req])
  BY <1>4, FilledRows
<1>9. /\ cells \in Rows
      /\ \A p \in Range(everyone) : Carries(cells[p.slot], Prompt[p.req])
      /\ \A s \in Slot \ SlotsOf(everyone) : cells[s] = cache[s]
  <2>1. /\ cells \in Rows
        /\ \A p \in Range(everyone) : Carries(cells[p.slot], Prompt[p.req])
        /\ \A s \in Slot \ SlotsOf(everyone) : cells[s] = Filled(batch)[s]
    BY <1>1, <1>2, <1>4, <1>8, CopiedRows
  <2>2. SlotsOf(batch) \subseteq SlotsOf(everyone)
    <3>1. Range(batch) \subseteq Range(everyone)
      BY <1>1, <1>4, EveryoneOf
    <3> QED
      BY <3>1, SlotOfPlace
  <2>3. \A s \in Slot \ SlotsOf(batch) : Filled(batch)[s] = cache[s]
    BY <1>4, FilledRows
  <2> QED
    BY <2>1, <2>2, <2>3
<1>10. /\ SlotsOf(everyone) \subseteq Slot
       /\ rows' \in [Slot -> Request \cup {None}] /\ devKey' = rows'
       /\ devTok' \in [Slot -> Token \cup {Junk}] /\ devPos' \in [Slot -> Cell]
       /\ \A p \in Range(everyone) :
            /\ rows'[p.slot] = p.req /\ devTok'[p.slot] = draw[p.slot]
            /\ devPos'[p.slot] = Len(Prompt[p.req])
       /\ \A s \in Slot \ SlotsOf(everyone) :
            rows'[s] = rows[s] /\ devTok'[s] = devTok[s] /\ devPos'[s] = devPos[s]
  <2>1. PICK tok \in [Slot -> Token \cup {Junk}] : tok = devTok
    BY <1>4 DEF Types
  <2>2. PICK at \in [Slot -> Cell] : at = devPos
    BY <1>4 DEF Types
  <2>3. Enter(everyone, draw, tok, at)
    BY <1>3, <2>1, <2>2
  <2>4. Seated(everyone, draw, tok, at)
    BY <1>4, <1>5, <1>6, <2>3, Entered
  <2> QED
    BY <2>1, <2>2, <2>4 DEF Seated
<1>11. PICK pass : pass = Prompted(everyone, draw, cells)
  OBVIOUS
<1>12. PassOf(pass, everyone, draw)
  BY <1>5, <1>6, <1>9, <1>11, PromptedPass
<1>13. pass \in Seq(Draw) /\ queued' = Append(queued, pass)
  BY <1>3, <1>11, <1>12 DEF PassOf
<1>14. /\ InUse' = InUse \cup SlotsOf(everyone) /\ Rowed' = Rowed \cup {p.req : p \in Range(everyone)}
       /\ \A s \in InUse : s \notin SlotsOf(everyone) /\ rows'[s] = rows[s]
       /\ \A s \in SlotsOf(everyone) : \E p \in Range(everyone) : p.slot = s
       /\ Seats' /\ Planned' /\ Going'
       /\ \A line \in Seq(Draw) : DrawnInRow(line) => DrawnInRow(line)'
  <2>1. UNCHANGED <<running, admitted, tokens, positions, reason>>
    BY <1>3 DEF requestVars, lineVars
  <2> QED
    BY <1>4, <1>5, <1>7, <1>10, <2>1, SeatsTaken
<1>15. /\ queued \in Seq(Seq(Draw)) /\ queued' \in Seq(Seq(Draw)) /\ Len(queued') = Len(queued) + 1
       /\ \A k \in 1..Len(queued') : (k \in 1..Len(queued) /\ queued'[k] = queued[k]) \/ queued'[k] = pass
  <2>1. queued \in Seq(Seq(Draw))
    BY <1>4 DEF Types
  <2> QED
    BY <1>13, <2>1
<1>16. Types'
  <2>1. UNCHANGED <<submitted, tokens, reason, pack, waiting, running, positions, reading, ahead, pc,
                    admitted, mixed>>
    BY <1>3 DEF requestVars, lineVars
  <2>2. cache' \in [Slot -> [Cell -> Text]]
    BY <1>3, <1>9 DEF Rows
  <2> QED
    BY <1>4, <1>10, <1>15, <2>1, <2>2 DEF Types
<1>17. Line'
  BY <1>3, <1>4 DEF Line, requestVars, lineVars
<1>18. Steps'
  BY <1>3, <1>4 DEF Steps
<1>19. Drawn'
  <2>1. DrawnOnce(pass)
    BY <1>12 DEF PassOf
  <2>2. \A j \in 1..Len(pass) : reason'[pass[j].req] = "" => rows'[pass[j].slot] = pass[j].req
    <3> SUFFICES ASSUME NEW j \in 1..Len(pass)
                 PROVE  rows'[pass[j].slot] = pass[j].req
      OBVIOUS
    <3>1. PICK p \in Range(everyone) : pass[j].slot = p.slot /\ pass[j].req = p.req
      BY <1>12 DEF PassOf
    <3> QED
      BY <1>10, <3>1
  <2>3. DrawnOnce(reading) /\ DrawnInRow(reading) /\ reading \in Seq(Draw) /\ reading' = reading
    BY <1>3, <1>4 DEF Drawn, Types
  <2>4. DrawnInRow(reading)'
    BY <1>14, <2>3 DEF DrawnInRow
  <2>5. ASSUME NEW k \in 1..Len(queued')
        PROVE  DrawnOnce(queued[k])' /\ DrawnInRow(queued[k])'
    <3>1. CASE k \in 1..Len(queued) /\ queued'[k] = queued[k]
      <4>1. DrawnOnce(queued[k]) /\ DrawnInRow(queued[k]) /\ queued[k] \in Seq(Draw)
        BY <1>4, <1>15, <3>1 DEF Drawn
      <4>2. PICK line : line = queued[k]
        OBVIOUS
      <4>3. DrawnInRow(line)'
        BY <1>14, <4>1, <4>2
      <4>4. queued'[k] = line
        BY <3>1, <4>2
      <4> QED
        BY <4>1, <4>2, <4>3, <4>4 DEF DrawnOnce, DrawnInRow
    <3>2. CASE queued'[k] = pass
      BY <2>1, <2>2, <3>2 DEF DrawnOnce, DrawnInRow
    <3> QED
      BY <1>15, <3>1, <3>2
  <2>6. DrawnOnce(reading)'
    BY <2>3 DEF DrawnOnce
  <2> QED
    BY <2>4, <2>5, <2>6 DEF Drawn
<1>20. ASSUME NEW s \in InUse
       PROVE  \E f : Whole(s, f)'
  <2>1. s \in Slot /\ s \notin SlotsOf(everyone) /\ rows'[s] = rows[s] /\ rows[s] \in Rowed
    BY <1>14 DEF InUse, Rowed
  <2>2. PICK f : Whole(s, f)
    BY <1>4 DEF Texts
  <2>3. PICK r : r = rows[s]
    OBVIOUS
  <2>4. PICK n : n = Len(queued)
    OBVIOUS
  <2>5. PICK last : last = f[n]
    OBVIOUS
  <2>6. Adds(r, reading, Prompt[r] \o tokens[r], f[0]) /\ Grows(r, queued, f) /\ Stands(s, last)
    BY <2>2, <2>3, <2>4, <2>5 DEF Whole
  <2>7. last \in Seq(Token)
    <3>1. f \in [0..n -> Seq(Token)] /\ n \in Nat
      BY <1>15, <2>4, <2>6, PlacesOfLine DEF Grows
    <3> QED
      BY <2>5, <3>1
  <2>8. \A p \in Range(everyone) : p.req # r
    BY <1>5, <2>1, <2>3, NotDrawn
  <2>9. Adds(r, pass, last, last)
    BY <1>6, <1>12, <2>8, PromptsAdd
  <2>10. PICK g : Grows(r, Append(queued, pass), g) /\ g[0] = f[0] /\ g[n + 1] = last
    BY <1>13, <1>15, <2>4, <2>5, <2>6, <2>7, <2>9, GrowsByPass
  <2>11. Stands(s, last)'
    <3>1. devPos'[s] = devPos[s] /\ devTok'[s] = devTok[s] /\ cache'[s] = cache[s]
      BY <1>3, <1>9, <1>10, <2>1
    <3> QED
      BY <2>1, <2>6, <3>1 DEF Stands
  <2>12. reading' = reading /\ tokens' = tokens
    BY <1>3 DEF requestVars
  <2>13. /\ Adds(rows'[s], reading', Prompt[rows'[s]] \o tokens'[rows'[s]], g[0])
         /\ Grows(rows'[s], queued', g) /\ g[Len(queued')] = last
    BY <1>13, <1>15, <2>1, <2>3, <2>4, <2>6, <2>10, <2>12
  <2> QED
    BY <2>11, <2>13 DEF Whole
<1>21. ASSUME NEW s \in SlotsOf(everyone)
       PROVE  \E f : Whole(s, f)'
  <2>1. PICK p \in Range(everyone) : p.slot = s
    BY <1>14
  <2>2. /\ p \in Due /\ p \in Place /\ p.req \in Request /\ tokens[p.req] = <<>>
        /\ \A k \in 1..Len(queued) : ~Draws(queued[k], p.req)
    BY <1>5, NotDrawn
  <2>3. PICK r : r = p.req
    OBVIOUS
  <2>4. PICK text \in Seq(Token) : text = Prompt[r]
    BY <2>2, <2>3, RowEngineAssumption
  <2>5. PICK t \in Token : t = draw[s]
    OBVIOUS
  <2>16. PICK line \in Seq(Seq(Draw)) : line = queued
    BY <1>15
  <2>17. PICK n : n = Len(line)
    OBVIOUS
  <2>18. \A k \in 1..Len(line) : ~Draws(line[k], r)
    BY <2>2, <2>3, <2>16
  <2>19. \E f : Grows(r, line, f) /\ f[0] = text /\ f[Len(line)] = text
    BY <2>18, GrowsNot
  <2>6. PICK f : Grows(r, line, f) /\ f[0] = text /\ f[n] = text
    BY <2>17, <2>19
  <2>7. PICK more : more = Append(text, t)
    OBVIOUS
  <2>8. more \in Seq(Token) /\ Adds(r, pass, text, more)
    BY <1>6, <1>12, <2>1, <2>3, <2>4, <2>5, <2>7, PromptsAdd, OneTokenMore
  <2>20. Adds(r, pass, f[Len(line)], more)
    BY <2>6, <2>8, <2>17
  <2>21. pass \in Seq(Draw) /\ more \in Seq(Token) /\ Grows(r, line, f)
    BY <1>13, <2>6, <2>8
  <2>22. \E g : Grows(r, Append(line, pass), g) /\ g[0] = f[0] /\ g[Len(line) + 1] = more
    BY <2>20, <2>21, GrowsByPass
  <2>9. PICK g : Grows(r, Append(line, pass), g) /\ g[0] = f[0] /\ g[Len(line) + 1] = more
    BY <2>22
  <2>10. Stands(p.slot, Append(Prompt[p.req], t))'
    <3>1. Carries(cache'[p.slot], Prompt[p.req])
      BY <1>3, <1>9
    <3>2. rows'[p.slot] = p.req /\ devTok'[p.slot] = t /\ devPos'[p.slot] = Len(Prompt[p.req])
      BY <1>10, <2>1, <2>5
    <3> QED
      BY <2>2, <3>1, <3>2, RowBegun
  <2>11. Stands(s, more)'
    BY <2>1, <2>3, <2>4, <2>7, <2>10
  <2>12. tokens'[r] = <<>> /\ reading' = reading /\ rows'[s] = r
    BY <1>3, <1>10, <2>1, <2>2, <2>3 DEF requestVars
  <2>13. Prompt[r] \o tokens'[r] = text
    BY <2>4, <2>12
  <2>14. Adds(r, reading, text, text)
    BY <1>4, NothingRead
  <2>15. /\ Adds(rows'[s], reading', Prompt[rows'[s]] \o tokens'[rows'[s]], g[0])
         /\ Grows(rows'[s], queued', g) /\ g[Len(queued')] = more
    BY <1>13, <1>15, <2>6, <2>9, <2>12, <2>13, <2>14, <2>16
  <2> QED
    BY <2>11, <2>15 DEF Whole
<1>22. Texts'
  BY <1>14, <1>20, <1>21 DEF Texts
<1>23. Plan'
  BY <1>7, <1>14 DEF Plan
<1> QED
  BY <1>14, <1>16, <1>17, <1>18, <1>19, <1>22, <1>23 DEF IInv

\* The first of the packed passes.
LEMMA PackedPassInv ==
  ASSUME IInv, PackedPass
  PROVE  IInv'
<1>1. /\ pc = "pass" /\ passes # <<>> /\ pack > 0 /\ PromptPass(Head(passes)) /\ passes' = Tail(passes)
  BY DEF PackedPass, At
<1>2. PICK batch : batch = Head(passes)
  OBVIOUS
<1>3. Once(mixed) /\ Parts(passes, Passing) /\ Range(mixed) \cap Passing = {}
  BY DEF IInv, Plan, Disjoint
<1>4. /\ batch \in Seq(Place) /\ Once(batch) /\ Range(batch) \subseteq Passing
      /\ Parts(passes', Passing \ Range(batch))
  BY <1>1, <1>2, <1>3, FirstPart
<1>5. PromptPass(batch)
  BY <1>1, <1>2
<1>6. mixed' = mixed /\ pack' = pack
  BY <1>5 DEF PromptPass, lineVars
<1>7. passes' \in Seq(Seq(Place)) /\ Passing' = Passing \ Range(batch)
  BY <1>4 DEF Parts, Passing
<1>8. Leading' = Leading \ Range(batch)
  BY <1>3, <1>4, <1>6, <1>7 DEF Leading
<1>9. Disjoint'
  <2>1. Range(mixed') \cap Passing' = {}
    BY <1>3, <1>6, <1>7
  <2>2. pack' # 0
    <3>1. pack \in Nat
      BY RowEngineAssumption DEF IInv, Types
    <3> QED
      BY <1>1, <1>6, <3>1
  <2>3. Parts(passes', Passing')
    BY <1>4, <1>7
  <2> QED
    BY <1>3, <1>6, <2>1, <2>2, <2>3 DEF Disjoint
<1>10. Range(batch) \subseteq Leading
  BY <1>4 DEF Leading
<1> QED
  BY <1>1, <1>4, <1>5, <1>7, <1>8, <1>9, <1>10, PromptPassInv

\* Where none is packed, a pass takes one prompt or more, and as many as there are at most.
LEMMA GroupFits ==
  ASSUME NEW n \in Nat \ {0}
  PROVE  Group(n) \in 1..n
<1> DEFINE S == {1} \cup {g \in 1..n : g <= MaxGroup /\ \E k \in 0..n : g = 2^k}
<1>1. S \in SUBSET (1..n) /\ S # {} /\ S \in SUBSET Nat
  OBVIOUS
<1>2. IsFiniteSet(1..n)
  <2>1. 1 \in Int /\ n \in Int
    OBVIOUS
  <2> QED
    BY <2>1, FS_Interval
<1>3. Group(n) = Max(S)
  BY DEF Group
<1> HIDE DEF S
<1>4. IsFiniteSet(S)
  BY <1>1, <1>2, FS_Subset
<1>5. Max(S) \in S
  BY <1>1, <1>4, MaxIsGreatest
<1> QED
  BY <1>1, <1>3, <1>5

\* The places of a line, cut in two.
LEMMA CutOnce ==
  ASSUME NEW S, NEW line \in Seq(S), Once(line), NEW g \in 1..Len(line)
  PROVE  /\ SubSeq(line, 1, g) \in Seq(S) /\ Once(SubSeq(line, 1, g))
         /\ SubSeq(line, g + 1, Len(line)) \in Seq(S) /\ Once(SubSeq(line, g + 1, Len(line)))
         /\ g # Len(line) => SubSeq(line, g + 1, Len(line)) # <<>>
         /\ g = Len(line) => SubSeq(line, 1, g) = line
         /\ Range(SubSeq(line, 1, g)) \subseteq Range(line)
         /\ Range(SubSeq(line, g + 1, Len(line))) = Range(line) \ Range(SubSeq(line, 1, g))
<1> DEFINE n == Len(line)  a == SubSeq(line, 1, g)  b == SubSeq(line, g + 1, n)
<1>1. n \in Nat /\ g \in Nat /\ 1 <= g /\ g <= n /\ g \in 0..n /\ n \in 0..n /\ g + 1 \in Nat \ {0} /\ 1 \in Nat \ {0}
  OBVIOUS
<1>2. /\ a \in Seq(S) /\ Once(a) /\ Len(a) = g /\ Range(a) \subseteq Range(line)
      /\ \A i \in 1..g : a[i] = line[i]
  <2>1. /\ a \in Seq(S) /\ Len(a) = (IF 1 <= g THEN g - 1 + 1 ELSE 0)
        /\ \A i \in 1..Len(a) : a[i] = line[1 + i - 1]
        /\ Range(a) \subseteq Range(line) /\ Once(a)
    BY <1>1, SubSeqOnce
  <2>2. \A i \in 1..g : 1 + i - 1 = i
    OBVIOUS
  <2> QED
    BY <1>1, <2>1, <2>2
<1>3. /\ b \in Seq(S) /\ Once(b) /\ Len(b) = n - g /\ Range(b) \subseteq Range(line)
      /\ \A i \in 1..(n - g) : b[i] = line[g + i]
  <2>1. /\ b \in Seq(S) /\ Len(b) = (IF g + 1 <= n THEN n - (g + 1) + 1 ELSE 0)
        /\ \A i \in 1..Len(b) : b[i] = line[g + 1 + i - 1]
        /\ Range(b) \subseteq Range(line) /\ Once(b)
    BY <1>1, SubSeqOnce
  <2>2. Len(b) = n - g
    BY <1>1, <2>1
  <2>3. \A i \in 1..(n - g) : g + 1 + i - 1 = g + i
    BY <1>1
  <2> QED
    BY <2>1, <2>2, <2>3
<1> HIDE DEF a, b, n
<1>4. \A i, j \in 1..n : line[i] = line[j] => i = j
  BY OnceOfLine DEF n
<1>5. \A i \in 1..n : i \in 1..g \/ (i - g \in 1..(n - g) /\ g + (i - g) = i)
  BY <1>1
<1>6. \A i \in 1..g, j \in 1..(n - g) : i \in 1..n /\ g + j \in 1..n /\ i # g + j
  BY <1>1
<1>7. Range(b) \subseteq Range(line) \ Range(a)
  <2> SUFFICES ASSUME NEW x \in Range(b), x \in Range(a)
               PROVE  FALSE
    BY <1>3
  <2>1. PICK j \in 1..(n - g) : line[g + j] = x
    BY <1>3, RangeOfLine
  <2>2. PICK i \in 1..g : line[i] = x
    BY <1>2, RangeOfLine
  <2> QED
    BY <1>4, <1>6, <2>1, <2>2
<1>8. Range(line) \ Range(a) \subseteq Range(b)
  <2> SUFFICES ASSUME NEW x \in Range(line), x \notin Range(a)
               PROVE  x \in Range(b)
    OBVIOUS
  <2>1. PICK i \in 1..n : line[i] = x
    BY RangeOfLine DEF n
  <2>2. i \notin 1..g
    BY <1>2, <2>1, RangeOfLine
  <2>3. i - g \in 1..(n - g) /\ b[i - g] = x
    BY <1>3, <1>5, <2>1, <2>2
  <2> QED
    BY <1>3, <2>3, RangeOfLine
<1>9. g # n => b # <<>>
  <2>1. Len(<<>>) = 0
    OBVIOUS
  <2> QED
    BY <1>1, <1>3, <2>1
<1>10. g = n => a = line
  BY <1>2 DEF n
<1> QED
  BY <1>2, <1>3, <1>7, <1>8, <1>9, <1>10 DEF a, b, n

\* A line of one.
LEMMA OneInLine ==
  ASSUME NEW S, NEW seq \in Seq(S), seq # <<>>, Len(seq) <= 1
  PROVE  Len(seq) = 1 /\ seq[1] = Head(seq)
<1>1. Len(seq) \in Nat /\ Len(seq) # 0
  OBVIOUS
<1> QED
  BY <1>1

\* The next prompts where none is packed.
LEMMA GroupedPassInv ==
  ASSUME IInv, GroupedPass
  PROVE  IInv'
<1>1. PICK places : places = Head(passes)
  OBVIOUS
<1>2. PICK g : g = Group(Len(places))
  OBVIOUS
<1>3. /\ pc = "pass" /\ passes # <<>> /\ pack = 0 /\ PromptPass(SubSeq(places, 1, g))
      /\ passes' = IF g = Len(places) THEN <<>> ELSE <<SubSeq(places, g + 1, Len(places))>>
  BY <1>1, <1>2 DEF GroupedPass, At
<1>4. PICK batch : batch = SubSeq(places, 1, g)
  OBVIOUS
<1>5. PICK rest : rest = SubSeq(places, g + 1, Len(places))
  OBVIOUS
<1>6. /\ Once(mixed) /\ Parts(passes, Passing) /\ Range(mixed) \cap Passing = {}
      /\ Len(passes) <= 1 /\ \A i \in 1..Len(passes) : passes[i] # <<>>
  BY <1>3 DEF IInv, Plan, Disjoint
<1>7. passes \in Seq(Seq(Place)) /\ Len(passes) = 1 /\ passes[1] = places
  <2>1. passes \in Seq(Seq(Place))
    BY <1>6 DEF Parts
  <2>2. passes # <<>>
    BY <1>3
  <2>3. Len(passes) <= 1
    BY <1>6
  <2> QED
    BY <1>1, <2>1, <2>2, <2>3, OneInLine
<1>8. places \in Seq(Place) /\ Once(places) /\ places # <<>> /\ Passing = Range(places)
  <2>1. 1 \in 1..Len(passes) /\ \A i \in 1..Len(passes) : i = 1
    BY <1>7
  <2>2. /\ places \in Seq(Place) /\ Once(places) /\ places # <<>>
    BY <1>6, <1>7, <2>1, PartsAre
  <2>3. UNION {Range(passes[i]) : i \in 1..Len(passes)} = Range(places)
    BY <1>7, <2>1
  <2> QED
    BY <2>2, <2>3 DEF Passing
<1>9. g \in 1..Len(places)
  <2>1. Len(places) \in Nat \ {0}
    BY <1>8
  <2> QED
    BY <1>2, <2>1, GroupFits
<1>10. /\ batch \in Seq(Place) /\ Once(batch) /\ rest \in Seq(Place) /\ Once(rest)
       /\ g # Len(places) => rest # <<>>
       /\ g = Len(places) => batch = places
       /\ Range(batch) \subseteq Range(places) /\ Range(rest) = Range(places) \ Range(batch)
  BY <1>4, <1>5, <1>8, <1>9, CutOnce
<1>11. PromptPass(batch)
  BY <1>3, <1>4
<1>12. mixed' = mixed /\ pack' = pack
  BY <1>11 DEF PromptPass, lineVars
<1>13. /\ passes' \in Seq(Seq(Place)) /\ Passing' = Passing \ Range(batch)
       /\ Parts(passes', Passing') /\ Len(passes') <= 1 /\ \A i \in 1..Len(passes') : passes'[i] # <<>>
  <2>1. CASE g = Len(places)
    <3>1. passes' = <<>> /\ Passing \ Range(batch) = {}
      BY <1>3, <1>8, <1>10, <2>1
    <3>2. passes' \in Seq(Seq(Place)) /\ 1..Len(passes') = {} /\ Len(passes') = 0
      BY <3>1
    <3>3. Passing' = {}
      BY <3>2 DEF Passing
    <3>4. Parts(passes', Passing')
      BY <3>2, <3>3 DEF Parts, Passing
    <3> QED
      BY <3>1, <3>2, <3>3, <3>4
  <2>2. CASE g # Len(places)
    <3>1. passes' = <<rest>> /\ rest # <<>>
      BY <1>3, <1>5, <1>10, <2>2
    <3>2. /\ passes' \in Seq(Seq(Place)) /\ Len(passes') = 1 /\ 1 \in 1..Len(passes')
          /\ \A i \in 1..Len(passes') : i = 1 /\ passes'[i] = rest
      BY <1>10, <3>1
    <3>3. Passing' = Range(rest)
      BY <3>2 DEF Passing
    <3>4. Parts(passes', Passing')
      BY <1>10, <3>2, <3>3 DEF Parts, Passing
    <3> QED
      BY <1>8, <1>10, <3>1, <3>2, <3>3, <3>4
  <2> QED
    BY <2>1, <2>2
<1>14. Leading' = Leading \ Range(batch)
  BY <1>6, <1>8, <1>10, <1>12, <1>13 DEF Leading
<1>15. Disjoint'
  <2>1. Range(mixed') \cap Passing' = {}
    BY <1>6, <1>12, <1>13
  <2> QED
    BY <1>6, <1>12, <1>13, <2>1 DEF Disjoint
<1>16. Range(batch) \subseteq Leading
  BY <1>8, <1>10 DEF Leading
<1> QED
  BY <1>3, <1>10, <1>11, <1>13, <1>14, <1>15, <1>16, PromptPassInv

-----------------------------------------------------------------------------
(* A step of the rows.                                                      *)

\* A text is its start with its last token.
LEMMA TextOfStart ==
  ASSUME NEW text \in Seq(Token), text # <<>>
  PROVE  /\ Len(text) \in Nat /\ Len(text) - 1 \in 0..Len(text) /\ text[Len(text)] \in Token
         /\ Extend(Start(text, Len(text) - 1), <<text[Len(text)]>>) = text
<1>1. Len(text) \in Nat \ {0} /\ text[Len(text)] \in Token
  OBVIOUS
<1>2. PICK t \in Token : t = text[Len(text)]
  BY <1>1
<1>3. PICK n \in Nat : n = Len(text) - 1
  BY <1>1
<1>4. PICK start \in Seq(Token) : start = Start(text, n) /\ Len(start) = n /\ \A i \in 1..n : start[i] = text[i]
  <2>1. SubSeq(text, 1, n) \in Seq(Token) /\ Len(SubSeq(text, 1, n)) = n
        /\ \A i \in 1..n : SubSeq(text, 1, n)[i] = text[i]
    BY <1>1, <1>3
  <2> QED
    BY <2>1 DEF Start
<1>5. start # Junk
  BY RowEngineAssumption
<1>6. Junk \notin Range(<<t>>)
  <2>1. Range(<<t>>) = {t}
    BY DEF Range
  <2> QED
    BY <2>1, RowEngineAssumption
<1>7. Extend(start, <<t>>) = start \o <<t>>
  BY <1>5, <1>6 DEF Extend
<1>8. start \o <<t>> = text
  BY <1>1, <1>2, <1>3, <1>4
<1> QED
  BY <1>1, <1>2, <1>3, <1>4, <1>7, <1>8

\* A row steps from its own text, and writes it at its position.
LEMMA OwnStep ==
  ASSUME Types, NEW s \in InUse, NEW parked, s \notin parked, NEW cells \in Rows, cells[s] = cache[s],
         NEW w \in Seq(Token), Stands(s, w), OnTrack(rows[s], w)
  PROVE  /\ StepText(cells, parked)[s] = w
         /\ StepCells(cells, parked)[s] = [cache[s] EXCEPT ![Len(w) - 1] = w]
<1>1. s \in Slot
  BY DEF InUse
<1>2. PICK n : n = Len(w) - 1
  OBVIOUS
<1>3. PICK row : row = cache[s]
  OBVIOUS
<1>4. devPos[s] = n /\ devTok[s] = w[Len(w)] /\ Holds(row, w) /\ Len(w) > Len(Prompt[rows[s]])
  BY <1>2, <1>3 DEF Stands
<1>5. w # <<>>
  <2>1. rows[s] \in Request
    BY <1>1 DEF Types, InUse
  <2>2. Len(Prompt[rows[s]]) \in Nat
    BY <2>1, RowEngineAssumption
  <2>3. Len(<<>>) = 0
    OBVIOUS
  <2> QED
    BY <1>4, <2>2, <2>3
<1>6. n \in 0..Len(w) /\ Extend(Start(w, n), <<w[Len(w)]>>) = w /\ Len(w) \in Nat
  BY <1>2, <1>5, TextOfStart
<1>7. \A i \in 0..(n - 1) : row[i] = Start(w, i + 1)
  <2>1. n - 1 = Len(w) - 2
    BY <1>2, <1>6
  <2> QED
    BY <1>4, <2>1 DEF Holds, Start
<1>8. Seen(row, n) = Start(w, n)
  BY <1>6, <1>7, SeenText
<1>9. PlaceOf(s, parked) = n
  BY <1>4 DEF PlaceOf
<1>10. StepText(cells, parked)[s] = w
  BY <1>1, <1>3, <1>4, <1>6, <1>8, <1>9 DEF StepText
<1>11. StepCells(cells, parked)[s] = [cells[s] EXCEPT ![n] = w]
  BY <1>1, <1>9, <1>10 DEF StepCells
<1> QED
  BY <1>2, <1>10, <1>11

\* The cells of a step are texts, and its positions are in the cache.
LEMMA StepTyped ==
  ASSUME Types, NEW cells \in Rows, NEW parked
  PROVE  /\ StepText(cells, parked) \in [Slot -> Text] /\ StepCells(cells, parked) \in Rows
         /\ PlaceAfter \in [Slot -> Cell]
         /\ \A s \in InUse : PlaceAfter[s] = Min({devPos[s] + 1, MaxSeq - 1})
<1>1. MaxSeq \in Nat \ {0}
  BY RowEngineAssumption
<1>2. \A s \in Slot : devPos[s] \in Cell /\ devTok[s] \in Token \cup {Junk} /\ cells[s] \in [Cell -> Text]
  BY DEF Types, Rows
<1>3. \A s \in Slot : PlaceOf(s, parked) \in Cell /\ PlaceOf(s, parked) \in 0..MaxSeq
  BY <1>1, <1>2 DEF PlaceOf, Cell
<1>4. ASSUME NEW s \in Slot
      PROVE  Extend(Seen(cells[s], PlaceOf(s, parked)), <<devTok[s]>>) \in Text
  <2>1. PICK t \in Token \cup {Junk} : t = devTok[s]
    BY <1>2
  <2>2. PICK row \in [Cell -> Text] : row = cells[s]
    BY <1>2
  <2>3. PICK n \in 0..MaxSeq : n = PlaceOf(s, parked)
    BY <1>3
  <2>4. Seen(row, n) \in Text
    BY SeenIsText
  <2>5. Extend(Seen(row, n), <<t>>) \in Text
    BY <2>4, ExtendIsText
  <2> QED
    BY <2>1, <2>2, <2>3, <2>5
<1>5. StepText(cells, parked) \in [Slot -> Text]
  BY <1>4 DEF StepText
<1>6. StepCells(cells, parked) \in Rows
  <2>1. PICK text \in [Slot -> Text] : text = StepText(cells, parked)
    BY <1>5
  <2>2. \A s \in Slot : [cells[s] EXCEPT ![PlaceOf(s, parked)] = text[s]] \in [Cell -> Text]
    BY <1>2, <1>3
  <2>3. StepCells(cells, parked) = [s \in Slot |-> [cells[s] EXCEPT ![PlaceOf(s, parked)] = text[s]]]
    BY <2>1 DEF StepCells
  <2> QED
    BY <2>2, <2>3 DEF Rows
<1>7. ASSUME NEW s \in Slot
      PROVE  Min({devPos[s] + 1, MaxSeq - 1}) \in Cell
  <2>1. devPos[s] \in 0..(MaxSeq - 1)
    BY <1>2 DEF Cell
  <2>2. devPos[s] + 1 \in Nat /\ MaxSeq - 1 \in Nat
    BY <1>1, <2>1
  <2>3. {devPos[s] + 1, MaxSeq - 1} \in SUBSET Nat /\ {devPos[s] + 1, MaxSeq - 1} # {}
    BY <2>2
  <2>4. /\ Min({devPos[s] + 1, MaxSeq - 1}) \in {devPos[s] + 1, MaxSeq - 1}
        /\ \A y \in {devPos[s] + 1, MaxSeq - 1} : Min({devPos[s] + 1, MaxSeq - 1}) <= y
    BY <2>3, MinIsLeast
  <2>5. PICK m : m = Min({devPos[s] + 1, MaxSeq - 1})
    OBVIOUS
  <2>6. m \in Nat /\ m <= MaxSeq - 1
    BY <2>2, <2>4, <2>5
  <2>7. m \in Cell
    BY <1>1, <2>6 DEF Cell
  <2> QED
    BY <2>5, <2>7
<1>8. PlaceAfter \in [Slot -> Cell] /\ \A s \in InUse : PlaceAfter[s] = Min({devPos[s] + 1, MaxSeq - 1})
  <2>1. InUse \subseteq Slot
    BY DEF InUse
  <2> QED
    BY <1>2, <1>7, <2>1 DEF PlaceAfter
<1> QED
  BY <1>5, <1>6, <1>8

\* A text a token longer is of use only if the text was, and had room for it.
LEMMA OnTrackBefore ==
  ASSUME NEW r \in Request, NEW w \in Seq(Token), NEW t \in Token, Len(w) > Len(Prompt[r]),
         OnTrack(r, Append(w, t))
  PROVE  OnTrack(r, w) /\ Len(w) \in Nat /\ Len(w) <= MaxSeq - 1
<1>1. PICK p \in Nat : p = Len(Prompt[r])
  BY RowEngineAssumption
<1>2. PICK m \in Nat : m = MaxNew[r]
  BY RowEngineAssumption
<1>3. PICK more \in Seq(Token) : more = Append(w, t) /\ Len(more) = Len(w) + 1
  BY OneTokenMore
<1>4. Len(w) \in Nat /\ MaxSeq \in Nat /\ Len(w) > p
  BY <1>1, RowEngineAssumption
<1>5. more # Prompt[r]
  BY <1>1, <1>3, <1>4
<1>6. Len(more) - p < m /\ Len(more) <= MaxSeq
  BY <1>1, <1>2, <1>3, <1>5 DEF OnTrack
<1>7. Len(w) - p < m /\ Len(w) <= MaxSeq - 1 /\ Len(w) <= MaxSeq
  BY <1>3, <1>4, <1>6
<1> QED
  BY <1>1, <1>2, <1>4, <1>7 DEF OnTrack

\* A row that has stepped holds its text with the token drawn.
LEMMA SteppedOn ==
  ASSUME Types, NEW s \in InUse, NEW w \in Seq(Token), NEW t \in Token, Stands(s, w),
         OnTrack(rows[s], w) => cache'[s] = [cache[s] EXCEPT ![Len(w) - 1] = w],
         rows'[s] = rows[s], devTok'[s] = t, devPos'[s] = Min({devPos[s] + 1, MaxSeq - 1})
  PROVE  Stands(s, Append(w, t))'
<1>1. s \in Slot /\ rows[s] \in Request
  BY DEF Types, InUse
<1>2. PICK r \in Request : r = rows[s]
  BY <1>1
<1>3. PICK more \in Seq(Token) : more = Append(w, t)
  BY OneTokenMore
<1>4. /\ Len(more) = Len(w) + 1 /\ more[Len(w) + 1] = t /\ Len(w) \in Nat
      /\ \A m \in 0..Len(w) : Start(more, m) = Start(w, m)
  BY <1>3, OneTokenMore
<1>5. Len(w) > Len(Prompt[r]) /\ Len(Prompt[r]) \in Nat
  BY <1>2, RowEngineAssumption DEF Stands
<1>6. ASSUME OnTrack(r, more)
      PROVE  devPos'[s] = Len(more) - 1 /\ devTok'[s] = more[Len(more)] /\ Holds(cache'[s], more)
  <2>1. OnTrack(r, w) /\ Len(w) <= MaxSeq - 1 /\ MaxSeq \in Nat
    BY <1>3, <1>5, <1>6, OnTrackBefore, RowEngineAssumption
  <2>2. devPos[s] = Len(w) - 1 /\ Holds(cache[s], w)
    BY <1>2, <2>1 DEF Stands
  <2>3. PICK n \in Nat : n = Len(w) /\ n >= 1
    BY <1>4, <1>5
  <2>4. devPos'[s] = n
    <3>1. PICK top \in Nat : top = MaxSeq - 1 /\ n <= top
      BY <2>1, <2>3
    <3>2. devPos[s] + 1 = n
      BY <2>2, <2>3
    <3>3. devPos'[s] = Min({n, top})
      BY <3>1, <3>2
    <3>4. Min({n, top}) \in {n, top} /\ \A y \in {n, top} : Min({n, top}) <= y
      <4>1. {n, top} \in SUBSET Nat /\ {n, top} # {}
        OBVIOUS
      <4> QED
        BY <4>1, MinIsLeast
    <3>5. PICK m : m = Min({n, top})
      OBVIOUS
    <3>6. m = n
      BY <3>1, <3>4, <3>5
    <3> QED
      BY <3>3, <3>5, <3>6
  <2>5. Holds(cache'[s], more)
    <3>1. PICK row \in [Cell -> Text] : row = cache[s]
      BY <1>1 DEF Types
    <3>2. cache'[s] = [row EXCEPT ![n - 1] = w]
      BY <1>2, <2>1, <2>3, <3>1
    <3>3. PICK new : new = [row EXCEPT ![n - 1] = w]
      OBVIOUS
    <3>4. ASSUME NEW i \in 0..(Len(more) - 2)
          PROVE  new[i] = SubSeq(more, 1, i + 1)
      <4>1. i \in 0..(n - 1) /\ i + 1 \in 0..n /\ i \in Cell /\ n - 1 \in Cell
        BY <1>4, <2>1, <2>3 DEF Cell
      <4>2. Start(more, i + 1) = Start(w, i + 1)
        BY <1>4, <2>3, <4>1
      <4>3. CASE i = n - 1
        <5>1. new[i] = w
          BY <3>1, <3>3, <4>1, <4>3
        <5>2. Start(w, i + 1) = w
          <6>1. i + 1 = Len(w)
            BY <2>3, <4>3
          <6> QED
            BY <6>1, WholeStart
        <5> QED
          BY <4>2, <5>1, <5>2 DEF Start
      <4>4. CASE i # n - 1
        <5>1. new[i] = row[i] /\ i \in 0..(Len(w) - 2)
          BY <2>3, <3>1, <3>3, <4>1, <4>4
        <5>2. row[i] = Start(w, i + 1)
          BY <2>2, <3>1, <5>1 DEF Holds, Start
        <5> QED
          BY <4>2, <5>1, <5>2 DEF Start
      <4> QED
        BY <4>3, <4>4
    <3> QED
      BY <3>2, <3>3, <3>4 DEF Holds
  <2>6. n = Len(more) - 1 /\ t = more[Len(more)]
    BY <1>4, <2>3
  <2> QED
    BY <2>4, <2>5, <2>6
<1>7. Len(more) > Len(Prompt[r])
  BY <1>4, <1>5
<1> QED
  BY <1>2, <1>3, <1>6, <1>7 DEF Stands

\* A row a pass fills keeps its prompt where a step writes it at the cache's end.
LEMMA ParkedCarries ==
  ASSUME NEW cells \in Rows, NEW parked, NEW s \in parked, s \in Slot, NEW r \in Request,
         Carries(cells[s], Prompt[r])
  PROVE  Carries(StepCells(cells, parked)[s], Prompt[r])
<1>1. PICK x : x = StepText(cells, parked)[s]
  OBVIOUS
<1>2. StepCells(cells, parked)[s] = [cells[s] EXCEPT ![MaxSeq - 1] = x]
  BY <1>1 DEF StepCells, PlaceOf
<1>3. PICK row \in [Cell -> Text] : row = cells[s]
  BY DEF Rows
<1>4. PICK new : new = [row EXCEPT ![MaxSeq - 1] = x]
  OBVIOUS
<1>5. ASSUME NEW i \in 0..(Len(Prompt[r]) - 1)
      PROVE  new[i] = Start(Prompt[r], i + 1)
  <2>1. PICK n \in Nat : n = Len(Prompt[r]) /\ n < MaxSeq /\ MaxSeq \in Nat
    BY RowEngineAssumption
  <2>2. i \in Cell /\ i # MaxSeq - 1
    BY <2>1 DEF Cell
  <2>3. new[i] = row[i]
    BY <1>3, <1>4, <2>2
  <2> QED
    BY <1>3, <2>3 DEF Carries
<1> QED
  BY <1>2, <1>3, <1>4, <1>5 DEF Carries

\* A step's pass has the token drawn for each of its rows.
StepOf(pass, S, draw, text) ==
  /\ pass \in Seq(Draw) /\ DrawnOnce(pass)
  /\ \A j \in 1..Len(pass) : \E s \in S :
       /\ pass[j].slot = s /\ pass[j].req = rows[s] /\ pass[j].token = draw[s]
       /\ pass[j].key = rows[s] /\ pass[j].text = text[s] /\ ~pass[j].prompt
  /\ \A s \in S : \E j \in 1..Len(pass) : pass[j].req = rows[s]

\* What a step queues is its pass.
LEMMA SteppedPass ==
  ASSUME Types, \A s, t \in InUse : rows[s] = rows[t] => s = t,
         NEW S \in SUBSET InUse, NEW draw \in [S -> Token], NEW text \in [Slot -> Text]
  PROVE  StepOf(Stepped(S, draw, text), S, draw, text)
<1> DEFINE it(s) == [slot |-> s, req |-> rows[s], token |-> draw[s], key |-> devKey[s],
                     text |-> text[s], prompt |-> FALSE]
<1>1. PICK pass : pass = Stepped(S, draw, text)
  OBVIOUS
<1>2. S \in SUBSET Slot
  BY DEF InUse
<1>3. PICK order : order = InOrder(S)
  OBVIOUS
<1>4. PICK n \in Nat : n = Cardinality(S)
  BY <1>2, SlotsInOrder
<1>5. order \in Seq(S) /\ Len(order) = n /\ Once(order) /\ Range(order) = S
  BY <1>2, <1>3, <1>4, SlotsInOrder
<1>6. pass = [i \in 1..n |-> it(order[i])]
  BY <1>1, <1>3, <1>4 DEF Stepped
<1>7. /\ \A i \in 1..n : order[i] \in S
      /\ \A s \in S : \E i \in 1..n : order[i] = s
      /\ \A i, j \in 1..n : order[i] = order[j] => i = j
  BY <1>5, RangeOfLine, OnceOfLine
<1>8. ASSUME NEW s \in S
      PROVE  /\ it(s) \in Draw /\ it(s).slot = s /\ it(s).req = rows[s] /\ it(s).token = draw[s]
             /\ it(s).key = rows[s] /\ it(s).text = text[s] /\ ~it(s).prompt
  <2>1. s \in Slot /\ rows[s] \in Request /\ draw[s] \in Token /\ text[s] \in Text /\ devKey[s] = rows[s]
    BY <1>2 DEF Types, InUse
  <2> QED
    BY <2>1 DEF Draw
<1> HIDE DEF it
<1>9. /\ pass \in Seq(Draw) /\ Len(pass) = n
      /\ \A i \in 1..n : pass[i] = it(order[i])
  <2>1. \A i \in 1..n : it(order[i]) \in Draw
    BY <1>7, <1>8
  <2> QED
    BY <1>6, <2>1
<1>10. DrawnOnce(pass)
  <2> SUFFICES ASSUME NEW i \in 1..n, NEW j \in 1..n, pass[i].req = pass[j].req
               PROVE  i = j
    BY <1>9 DEF DrawnOnce
  <2>1. order[i] \in S /\ order[j] \in S /\ S \subseteq InUse
    BY <1>7
  <2>2. rows[order[i]] = rows[order[j]]
    BY <1>8, <1>9, <2>1
  <2>3. order[i] = order[j]
    BY <2>1, <2>2
  <2> QED
    BY <1>7, <2>3
<1>11. \A j \in 1..Len(pass) : \E s \in S : pass[j] = it(s)
  BY <1>7, <1>9
<1>12. \A s \in S : \E j \in 1..Len(pass) : pass[j] = it(s)
  BY <1>7, <1>9
<1>13. \A s \in S : \E j \in 1..Len(pass) : pass[j].req = rows[s]
  BY <1>8, <1>12
<1>14. \A j \in 1..Len(pass) : \E s \in S :
         /\ pass[j].slot = s /\ pass[j].req = rows[s] /\ pass[j].token = draw[s]
         /\ pass[j].key = rows[s] /\ pass[j].text = text[s] /\ ~pass[j].prompt
  <2> SUFFICES ASSUME NEW j \in 1..Len(pass)
               PROVE  \E s \in S :
                        /\ pass[j].slot = s /\ pass[j].req = rows[s] /\ pass[j].token = draw[s]
                        /\ pass[j].key = rows[s] /\ pass[j].text = text[s] /\ ~pass[j].prompt
    OBVIOUS
  <2>1. PICK s \in S : pass[j] = it(s)
    BY <1>11
  <2> QED
    BY <1>8, <2>1
<1> QED
  BY <1>1, <1>9, <1>10, <1>13, <1>14 DEF StepOf

\* What a step's pass adds: to each of its rows the token drawn, from the row's own text.
LEMMA StepsAdd ==
  ASSUME NEW S, NEW draw, NEW text, NEW pass, StepOf(pass, S, draw, text),
         \A s, t \in S : rows[s] = rows[t] => s = t
  PROVE  /\ \A s \in S : \A w :
              w # Prompt[rows[s]] /\ (OnTrack(rows[s], w) => text[s] = w)
              => Adds(rows[s], pass, w, Append(w, draw[s]))
         /\ \A r, w : (\A s \in S : rows[s] # r) => ~Draws(pass, r) /\ Adds(r, pass, w, w)
<1>1. /\ pass \in Seq(Draw)
      /\ \A j \in 1..Len(pass) : \E s \in S :
           /\ pass[j].slot = s /\ pass[j].req = rows[s] /\ pass[j].token = draw[s]
           /\ pass[j].key = rows[s] /\ pass[j].text = text[s] /\ ~pass[j].prompt
      /\ \A s \in S : \E j \in 1..Len(pass) : pass[j].req = rows[s]
  BY DEF StepOf
<1>2. \A r : Draws(pass, r) <=> \E i \in 1..Len(pass) : pass[i].req = r
  BY <1>1, DrawsAt
<1>3. ASSUME NEW s \in S, NEW w, w # Prompt[rows[s]], OnTrack(rows[s], w) => text[s] = w
      PROVE  Adds(rows[s], pass, w, Append(w, draw[s]))
  <2>1. Draws(pass, rows[s])
    BY <1>1, <1>2
  <2>2. ASSUME NEW j \in 1..Len(pass), pass[j].req = rows[s]
        PROVE  /\ pass[j].token = draw[s] /\ pass[j].key = rows[s]
               /\ pass[j].text = text[s] /\ ~pass[j].prompt
    <3>1. PICK t \in S :
            /\ pass[j].slot = t /\ pass[j].req = rows[t] /\ pass[j].token = draw[t]
            /\ pass[j].key = rows[t] /\ pass[j].text = text[t] /\ ~pass[j].prompt
      BY <1>1
    <3>2. t = s
      BY <2>2, <3>1
    <3> QED
      BY <3>1, <3>2
  <2>3. ASSUME NEW j \in 1..Len(pass), pass[j].req = rows[s]
        PROVE  /\ Append(w, draw[s]) = Append(w, pass[j].token)
               /\ pass[j].prompt <=> w = Prompt[rows[s]]
               /\ OnTrack(rows[s], w) => pass[j].text = w /\ pass[j].key = rows[s]
    BY <1>3, <2>2, <2>3
  <2> QED
    BY <2>1, <2>3 DEF Adds
<1>4. ASSUME NEW r, NEW w, \A s \in S : rows[s] # r
      PROVE  ~Draws(pass, r) /\ Adds(r, pass, w, w)
  <2>1. \A j \in 1..Len(pass) : pass[j].req # r
    BY <1>1, <1>4
  <2> QED
    BY <1>2, <2>1 DEF Adds
<1> QED
  BY <1>3, <1>4

\* The passes that draw for a request make its text as much longer at least.
LEMMA GrowthCounted ==
  ASSUME NEW line \in Seq(Seq(Draw)), NEW r, NEW f, Grows(r, line, f)
  PROVE  /\ Cardinality({i \in DOMAIN line : Draws(line[i], r)}) \in Nat
         /\ Len(f[Len(line)]) >= Len(f[0]) + Cardinality({i \in DOMAIN line : Draws(line[i], r)})
<1> DEFINE D(k) == {i \in 1..k : Draws(line[i], r)}
<1>1. PICK n \in Nat : n = Len(line) /\ DOMAIN line = 1..n
  BY PlacesOfLine
<1>2. f \in [0..n -> Seq(Token)] /\ \A k \in 1..n : Adds(r, line[k], f[k - 1], f[k])
  BY <1>1 DEF Grows
<1>3. \A k \in 1..n : line[k] \in Seq(Draw)
  BY <1>1, PlacesOfLine
<1>4. PICK holds : holds = {k \in 0..n : /\ IsFiniteSet(D(k)) /\ Cardinality(D(k)) \in Nat
                                         /\ Len(f[k]) >= Len(f[0]) + Cardinality(D(k))}
  OBVIOUS
<1>5. 0 \in holds
  <2>1. D(0) = {}
    OBVIOUS
  <2>2. IsFiniteSet({}) /\ Cardinality({}) = 0
    BY FS_EmptySet
  <2>3. 0 \in 0..n /\ Len(f[0]) \in Nat
    BY <1>1, <1>2
  <2> QED
    BY <1>4, <2>1, <2>2, <2>3
<1>6. ASSUME NEW k \in 1..n, k - 1 \in holds
      PROVE  k \in holds
  <2>1. k \in Nat /\ k - 1 \in 0..n /\ k \in 0..n /\ k # 0
    BY <1>1
  <2>2. IsFiniteSet(D(k - 1)) /\ Cardinality(D(k - 1)) \in Nat
        /\ Len(f[k - 1]) >= Len(f[0]) + Cardinality(D(k - 1))
    BY <1>4, <1>6
  <2>3. f[k - 1] \in Seq(Token) /\ f[k] \in Seq(Token) /\ f[0] \in Seq(Token)
    BY <1>2, <2>1
  <2>4. Len(f[k - 1]) \in Nat /\ Len(f[0]) \in Nat
    BY <2>3
  <2>5. CASE Draws(line[k], r)
    <3>1. D(k) = D(k - 1) \cup {k} /\ k \notin D(k - 1)
      <4>1. \A i : i \in 1..k <=> i \in 1..(k - 1) \/ i = k
        BY <2>1
      <4>2. k \notin 1..(k - 1)
        BY <2>1
      <4> QED
        BY <2>5, <4>1, <4>2
    <3>2. PICK a, A, B : a \in Nat /\ a = Cardinality(D(k - 1)) /\ A = D(k - 1) /\ B = D(k)
      BY <2>2
    <3>8. IsFiniteSet(A) /\ B = A \cup {k} /\ k \notin A /\ Cardinality(A) = a
      BY <2>2, <3>1, <3>2
    <3>3. IsFiniteSet(B) /\ Cardinality(B) = a + 1
      BY <3>8, FS_AddElement
    <3>4. PICK j \in 1..Len(line[k]) : line[k][j].req = r
      BY <1>3, <2>5, DrawsAt
    <3>5. f[k] = Append(f[k - 1], line[k][j].token)
      BY <1>2, <3>4 DEF Adds
    <3>6. Len(f[k]) = Len(f[k - 1]) + 1
      <4>1. PICK w \in Seq(Token) : w = f[k - 1]
        BY <2>3
      <4>2. line[k][j] \in Draw
        BY <1>3, <3>4, PlacesOfLine
      <4>3. PICK t \in Token : t = line[k][j].token
        BY <4>2 DEF Draw
      <4>4. Len(Append(w, t)) = Len(w) + 1
        BY OneTokenMore
      <4> QED
        BY <3>5, <4>1, <4>3, <4>4
    <3>7. Len(f[k]) >= Len(f[0]) + (a + 1)
      BY <2>2, <2>4, <3>2, <3>6
    <3> QED
      BY <1>4, <2>1, <3>2, <3>3, <3>7
  <2>6. CASE ~Draws(line[k], r)
    <3>1. D(k) = D(k - 1)
      <4>1. \A i : i \in 1..k <=> i \in 1..(k - 1) \/ i = k
        BY <2>1
      <4> QED
        BY <2>6, <4>1
    <3>2. f[k] = f[k - 1]
      BY <1>2, <2>6 DEF Adds
    <3> HIDE DEF D
    <3> QED
      BY <1>4, <2>1, <2>2, <3>1, <3>2
  <2> QED
    BY <2>5, <2>6
<1>7. n \in holds
  <2>1. holds \in SUBSET (0..n)
    BY <1>4
  <2> HIDE DEF D
  <2> QED
    BY <1>5, <1>6, <2>1, Inductively
<1>8. {i \in DOMAIN line : Draws(line[i], r)} = D(n)
  BY <1>1
<1> HIDE DEF D
<1> QED
  BY <1>1, <1>4, <1>7, <1>8

\* A row that takes no part in a step has its budget drawn.
LEMMA DrawnEnough ==
  ASSUME Types, NEW s \in InUse, s \notin Decoding, NEW f, Grows(rows[s], queued, f),
         f[0] = Prompt[rows[s]] \o tokens[rows[s]], NEW w, w = f[Len(queued)],
         Len(w) > Len(Prompt[rows[s]])
  PROVE  ~OnTrack(rows[s], w)
<1>1. PICK r \in Request : r = rows[s]
  BY DEF Types, InUse
<1>2. PICK line \in Seq(Seq(Draw)) : line = queued
  BY DEF Types
<1>3. PICK own \in Seq(Token) : own = tokens[r]
  BY <1>1 DEF Types
<1>4. PICK pending : pending = Cardinality({i \in DOMAIN line : Draws(line[i], r)})
  OBVIOUS
<1>5. pending \in Nat /\ Len(f[Len(line)]) >= Len(f[0]) + pending
  BY <1>1, <1>2, <1>4, GrowthCounted
<1>6. PICK prompt \in Seq(Token) : prompt = Prompt[r]
  BY <1>1, RowEngineAssumption
<1>7. Len(f[0]) = Len(prompt) + Len(own) /\ Len(prompt) \in Nat /\ Len(own) \in Nat
  BY <1>1, <1>3, <1>6, TextAndMore
<1>8. PICK m \in Nat : m = MaxNew[r]
  BY <1>1, RowEngineAssumption
<1>9. ~(Len(own) + pending < m)
  BY <1>1, <1>2, <1>3, <1>4, <1>8 DEF Decoding, Pending
<1>10. PICK n : n = Len(w)
  OBVIOUS
<1>11. n >= Len(prompt) + Len(own) + pending /\ n > Len(prompt)
  BY <1>1, <1>2, <1>5, <1>6, <1>7, <1>10
<1>12. n \in Nat
  <2>1. w \in Seq(Token)
    BY <1>2, PlacesOfLine DEF Grows
  <2> QED
    BY <1>10, <2>1
<1>13. ~(n - Len(prompt) < m)
  BY <1>5, <1>7, <1>9, <1>11, <1>12
<1>14. w # prompt
  BY <1>7, <1>10, <1>11, <1>12
<1> QED
  BY <1>1, <1>6, <1>8, <1>10, <1>13, <1>14 DEF OnTrack

\* What the rows take after a step.
LEMMA StepTaken ==
  ASSUME Types, NEW S \in SUBSET InUse, NEW draw \in [S -> Token]
  PROVE  /\ TokenAfter(draw) \in [Slot -> Token \cup {Junk}]
         /\ \A s \in S : TokenAfter(draw)[s] = draw[s]
<1>1. S \subseteq Slot /\ DOMAIN draw = S /\ \A s \in S : draw[s] \in Token
  BY DEF InUse
<1>2. TokenAfter(draw) = [s \in Slot |-> IF s \in S THEN draw[s] ELSE Junk]
  BY <1>1 DEF TokenAfter, Over
<1> QED
  BY <1>1, <1>2

\* A step of the rows whose budgets are not drawn.
LEMMA DecodeStepInv ==
  ASSUME IInv, DecodeStep
  PROVE  IInv'
<1>1. /\ pc = "decode" /\ pc' = "read" /\ ahead' = 1 /\ cache' = StepCells(cache, {})
      /\ devPos' = PlaceAfter
      /\ UNCHANGED <<submitted, tokens, reason, pack, waiting, running, rows, positions, reading,
                     admitted, passes, mixed, sharing, devKey>>
  BY DEF DecodeStep, At, Goto, Ahead, requestVars, lineVars, localVars
<1>2. PICK text : text = StepText(cache, {})
  OBVIOUS
<1>3. PICK draw \in [Decoding -> Token] :
        devTok' = TokenAfter(draw) /\ queued' = Append(queued, Stepped(Decoding, draw, text))
  BY <1>2 DEF DecodeStep
<1>4. PICK pass : pass = Stepped(Decoding, draw, text)
  OBVIOUS
<1>5. PICK stepping : stepping = Decoding
  OBVIOUS
<1>6. /\ Types /\ Line /\ Seats /\ Steps /\ Plan /\ Drawn /\ Going /\ Texts
      /\ reading = <<>> /\ admitted = <<>> /\ passes = <<>> /\ mixed = <<>>
  BY <1>1 DEF IInv, Steps
<1>7. stepping \in SUBSET InUse /\ draw \in [stepping -> Token]
  BY <1>3, <1>5 DEF Decoding
<1>8. PICK cells \in Rows : cells = cache
  BY <1>6 DEF Types, Rows
<1>9. /\ text \in [Slot -> Text] /\ StepCells(cells, {}) \in Rows
      /\ devPos' \in [Slot -> Cell] /\ \A s \in InUse : devPos'[s] = Min({devPos[s] + 1, MaxSeq - 1})
  BY <1>1, <1>2, <1>6, <1>8, StepTyped
<1>10. devTok' \in [Slot -> Token \cup {Junk}] /\ \A s \in stepping : devTok'[s] = draw[s]
  BY <1>3, <1>6, <1>7, StepTaken
<1>11. \A s, t \in InUse : rows[s] = rows[t] => s = t
  BY <1>6 DEF Seats
<1>12. StepOf(pass, stepping, draw, text)
  BY <1>4, <1>5, <1>6, <1>7, <1>9, <1>11, SteppedPass
<1>13. pass \in Seq(Draw) /\ queued' = Append(queued, pass)
  BY <1>3, <1>4, <1>12 DEF StepOf
<1>14. /\ queued \in Seq(Seq(Draw)) /\ queued' \in Seq(Seq(Draw)) /\ Len(queued') = Len(queued) + 1
       /\ \A k \in 1..Len(queued') : (k \in 1..Len(queued) /\ queued'[k] = queued[k]) \/ queued'[k] = pass
  <2>1. queued \in Seq(Seq(Draw))
    BY <1>6 DEF Types
  <2> QED
    BY <1>13, <2>1
<1>15. Types'
  <2>1. cache' \in [Slot -> [Cell -> Text]]
    BY <1>1, <1>8, <1>9 DEF Rows
  <2>2. ahead' \in Nat
    BY <1>1
  <2> QED
    BY <1>1, <1>6, <1>9, <1>10, <1>14, <2>1, <2>2 DEF Types
<1>16. Line'
  BY <1>1, <1>6 DEF Line
<1>17. Plan' /\ Due' = Due
  <2>1. Due = {}
    BY <1>6, NothingDue
  <2> QED
    BY <1>1, <1>6, <2>1, PlanStays
<1>18. InUse' = InUse /\ Rowed' = Rowed /\ FreeSlots' = FreeSlots
  BY <1>1 DEF InUse, Rowed, FreeSlots
<1>19. Seats'
  BY <1>1, <1>6, <1>17, <1>18 DEF Seats
<1>20. Steps'
  BY <1>1, <1>6 DEF Steps
<1>21. Going'
  BY <1>1, <1>6, <1>18 DEF Going
<1>22. Drawn'
  <2>1. DrawnOnce(pass)
    BY <1>12 DEF StepOf
  <2>2. \A j \in 1..Len(pass) : rows'[pass[j].slot] = pass[j].req
    BY <1>1, <1>12 DEF StepOf
  <2>3. DrawnOnce(reading)' /\ DrawnInRow(reading)'
    BY <1>1, <1>6 DEF Drawn, DrawnOnce, DrawnInRow
  <2>4. ASSUME NEW k \in 1..Len(queued')
        PROVE  DrawnOnce(queued[k])' /\ DrawnInRow(queued[k])'
    <3>1. CASE k \in 1..Len(queued) /\ queued'[k] = queued[k]
      <4>1. PICK line : line = queued[k]
        OBVIOUS
      <4>2. DrawnOnce(line) /\ DrawnInRow(line)
        BY <1>6, <3>1, <4>1 DEF Drawn
      <4>3. rows' = rows /\ reason' = reason /\ queued'[k] = line
        BY <1>1, <3>1, <4>1
      <4>4. DrawnInRow(line)'
        BY <4>2, <4>3 DEF DrawnInRow
      <4> QED
        BY <4>2, <4>3, <4>4 DEF DrawnOnce, DrawnInRow
    <3>2. CASE queued'[k] = pass
      BY <2>1, <2>2, <3>2 DEF DrawnOnce, DrawnInRow
    <3> QED
      BY <1>14, <3>1, <3>2
  <2> QED
    BY <2>3, <2>4 DEF Drawn
<1>23. ASSUME NEW s \in InUse
       PROVE  \E f : Whole(s, f)'
  <2>1. PICK f : Whole(s, f)
    BY <1>6 DEF Texts
  <2>2. PICK r \in Request : r = rows[s]
    BY <1>6 DEF Types, InUse
  <2>3. PICK line \in Seq(Seq(Draw)) : line = queued
    BY <1>14
  <2>4. PICK n \in Nat : n = Len(line)
    BY PlacesOfLine
  <2>5. Grows(r, line, f)
    BY <2>1, <2>2, <2>3 DEF Whole
  <2>6. PICK w \in Seq(Token) : w = f[n]
    <3>1. f \in [0..n -> Seq(Token)]
      BY <2>4, <2>5 DEF Grows
    <3> QED
      BY <3>1
  <2>7. Stands(s, w)
    BY <2>1, <2>3, <2>4, <2>6 DEF Whole
  <2>8. Len(w) > Len(Prompt[r])
    BY <2>2, <2>7 DEF Stands
  <2>9. f[0] = Prompt[r] \o tokens[r]
    <3>1. Adds(r, reading, Prompt[r] \o tokens[r], f[0])
      BY <2>1, <2>2 DEF Whole
    <3>2. ~Draws(reading, r)
      BY <1>6, NoPlaces DEF Draws
    <3> QED
      BY <3>1, <3>2 DEF Adds
  <2>10. OnTrack(r, w) => text[s] = w /\ cache'[s] = [cache[s] EXCEPT ![Len(w) - 1] = w]
    <3> SUFFICES ASSUME OnTrack(r, w)
                 PROVE  text[s] = w /\ cache'[s] = [cache[s] EXCEPT ![Len(w) - 1] = w]
      OBVIOUS
    <3>1. /\ StepText(cells, {})[s] = w
          /\ StepCells(cells, {})[s] = [cache[s] EXCEPT ![Len(w) - 1] = w]
      BY <1>6, <1>8, <2>2, <2>7, OwnStep
    <3> QED
      BY <1>1, <1>2, <1>8, <3>1
  <2>11. \E more \in Seq(Token) : Adds(r, pass, w, more) /\ Stands(s, more)'
    <3>1. CASE s \in stepping
      <4>1. PICK t \in Token : t = draw[s]
        BY <1>7, <3>1
      <4>2. w # Prompt[r]
        <5>1. Len(Prompt[r]) \in Nat
          BY RowEngineAssumption
        <5>2. ~(Len(Prompt[r]) > Len(Prompt[r]))
          BY <5>1
        <5> QED
          BY <2>8, <5>2
      <4>3. Adds(r, pass, w, Append(w, t))
        BY <1>7, <1>11, <1>12, <2>2, <2>10, <3>1, <4>1, <4>2, StepsAdd
      <4>4. Stands(s, Append(w, t))'
        <5>1. rows'[s] = rows[s] /\ devTok'[s] = t /\ devPos'[s] = Min({devPos[s] + 1, MaxSeq - 1})
          BY <1>1, <1>9, <1>10, <3>1, <4>1
        <5> QED
          BY <1>6, <2>2, <2>7, <2>10, <5>1, SteppedOn
      <4>5. Append(w, t) \in Seq(Token)
        BY OneTokenMore
      <4> QED
        BY <4>3, <4>4, <4>5
    <3>2. CASE s \notin stepping
      <4>1. \A t \in stepping : rows[t] # r
        BY <1>7, <1>11, <2>2, <3>2
      <4>2. Adds(r, pass, w, w)
        BY <1>7, <1>11, <1>12, <4>1, StepsAdd
      <4>3. ~OnTrack(rows[s], w)
        <5>1. s \notin Decoding
          BY <1>5, <3>2
        <5>2. w = f[Len(queued)] /\ Grows(rows[s], queued, f) /\ f[0] = Prompt[rows[s]] \o tokens[rows[s]]
              /\ Len(w) > Len(Prompt[rows[s]])
          BY <2>2, <2>3, <2>4, <2>5, <2>6, <2>8, <2>9
        <5> QED
          BY <1>6, <5>1, <5>2, DrawnEnough
      <4>4. Stands(s, w)'
        BY <1>1, <2>2, <2>8, <4>3 DEF Stands, OnTrack
      <4> QED
        BY <4>2, <4>4
    <3> QED
      BY <3>1, <3>2
  <2>12. PICK more \in Seq(Token) : Adds(r, pass, w, more) /\ Stands(s, more)'
    BY <2>11
  <2>13. Adds(r, pass, f[Len(line)], more)
    BY <2>4, <2>6, <2>12
  <2>14. \E g : Grows(r, Append(line, pass), g) /\ g[0] = f[0] /\ g[Len(line) + 1] = more
    BY <1>13, <2>5, <2>13, GrowsByPass
  <2>15. PICK g : Grows(r, Append(line, pass), g) /\ g[0] = f[0] /\ g[Len(line) + 1] = more
    BY <2>14
  <2>16. Adds(r, reading, Prompt[r] \o tokens[r], f[0])
    BY <2>1, <2>2 DEF Whole
  <2>17. /\ Adds(rows'[s], reading', Prompt[rows'[s]] \o tokens'[rows'[s]], g[0])
         /\ Grows(rows'[s], queued', g) /\ g[Len(queued')] = more
    BY <1>1, <1>13, <1>14, <2>2, <2>3, <2>15, <2>16
  <2> QED
    BY <2>12, <2>17 DEF Whole
<1>24. Texts'
  BY <1>18, <1>23 DEF Texts
<1> QED
  BY <1>15, <1>16, <1>17, <1>19, <1>20, <1>21, <1>22, <1>24 DEF IInv

\* One element at the end of the line.
LEMMA OneMore ==
  ASSUME NEW S, NEW line \in Seq(S), NEW one \in S
  PROVE  Append(line, one) \in Seq(S) /\ Len(Append(line, one)) = Len(line) + 1 /\ Len(line) \in Nat
OBVIOUS

\* A text grows by two passes.
LEMMA GrowsByTwo ==
  ASSUME NEW line \in Seq(Seq(Draw)), NEW one \in Seq(Draw), NEW two \in Seq(Draw), NEW r,
         NEW f, Grows(r, line, f), NEW mid \in Seq(Token), NEW more \in Seq(Token),
         Adds(r, one, f[Len(line)], mid), Adds(r, two, mid, more)
  PROVE  \E g : /\ Grows(r, Append(Append(line, one), two), g) /\ g[0] = f[0]
                /\ g[Len(line) + 2] = more
<1>1. \E g : Grows(r, Append(line, one), g) /\ g[0] = f[0] /\ g[Len(line) + 1] = mid
  BY GrowsByPass
<1>2. PICK g : Grows(r, Append(line, one), g) /\ g[0] = f[0] /\ g[Len(line) + 1] = mid
  BY <1>1
<1>3. PICK longer \in Seq(Seq(Draw)) : longer = Append(line, one)
  BY OneMore
<1>4. Len(longer) = Len(line) + 1 /\ Len(line) \in Nat
  BY <1>3, OneMore
<1>5. Grows(r, longer, g) /\ Adds(r, two, g[Len(longer)], more)
  BY <1>2, <1>3, <1>4
<1>6. \E h : Grows(r, Append(longer, two), h) /\ h[0] = g[0] /\ h[Len(longer) + 1] = more
  BY <1>5, GrowsByPass
<1>7. PICK h : Grows(r, Append(longer, two), h) /\ h[0] = g[0] /\ h[Len(longer) + 1] = more
  BY <1>6
<1>8. Len(longer) + 1 = Len(line) + 2
  BY <1>4
<1> QED
  BY <1>2, <1>3, <1>7, <1>8

\* Two passes at the end of the line.
LEMMA TwoMore ==
  ASSUME NEW S, NEW line \in Seq(S), NEW one \in S, NEW two \in S
  PROVE  /\ line \o <<one, two>> = Append(Append(line, one), two)
         /\ line \o <<one, two>> \in Seq(S) /\ Len(line \o <<one, two>>) = Len(line) + 2
         /\ \A k \in 1..(Len(line) + 2) :
              \/ k \in 1..Len(line) /\ (line \o <<one, two>>)[k] = line[k]
              \/ (line \o <<one, two>>)[k] = one
              \/ (line \o <<one, two>>)[k] = two
OBVIOUS

\* The pass over the smallest batch of prompts, and the step of the rows it carries.
LEMMA MixPassInv ==
  ASSUME IInv, MixPass
  PROVE  IInv'
<1>1. PICK batch : batch = mixed
  OBVIOUS
<1>2. PICK everyone : everyone = Everyone(batch)
  OBVIOUS
<1>3. PICK parked : parked = SlotsOf(batch)
  OBVIOUS
<1>4. PICK filled : filled = Filled(batch)
  OBVIOUS
<1>5. PICK text : text = StepText(filled, parked)
  OBVIOUS
<1>6. PICK base : base = StepCells(filled, parked)
  OBVIOUS
<1>7. PICK cells : cells = Copied(batch, base)
  OBVIOUS
<1>8. PICK stepping : stepping = InUse
  OBVIOUS
<1>9. PICK first \in [SlotsOf(everyone) -> Token], draw \in [stepping -> Token] :
        /\ cache' = cells
        /\ Enter(everyone, first, TokenAfter(draw), PlaceAfter)
        /\ queued' = queued \o <<Prompted(everyone, first, cells), Stepped(stepping, draw, text)>>
  BY <1>1, <1>2, <1>3, <1>4, <1>5, <1>6, <1>7, <1>8 DEF MixPass
<1>10. /\ pc = "mix" /\ pc' = "read" /\ ahead' = 2 /\ mixed' = <<>>
       /\ UNCHANGED <<submitted, tokens, reason, pack, waiting, running, positions, reading,
                      admitted, passes, sharing>>
  BY DEF MixPass, At, Goto, Ahead, requestVars, lineVars
<1>11. /\ Types /\ Line /\ Seats /\ Steps /\ Plan /\ Drawn /\ Going /\ Texts
       /\ reading = <<>> /\ admitted = <<>> /\ passes = <<>>
  BY <1>10 DEF IInv, Steps
<1>12. Passing = {}
  BY <1>11, NoPlaces DEF Passing
<1>13. batch \in Seq(Place) /\ Once(batch) /\ Range(batch) \subseteq Leading /\ Leading = Range(batch)
  BY <1>1, <1>11, <1>12 DEF Types, Plan, Disjoint, Leading
<1>14. /\ everyone \in Seq(Place) /\ Once(everyone) /\ Range(everyone) = Due
       /\ Range(batch) \subseteq Range(everyone) /\ Range(batch) \subseteq Due
       /\ \A p \in Range(everyone) : p \in Place
  <2>1. /\ everyone \in Seq(Place) /\ Once(everyone)
        /\ Range(everyone) = Range(batch) \cup Shared(Range(batch))
    BY <1>2, <1>11, <1>13, EveryoneOf
  <2>2. Due = Range(batch) \cup Shared(Range(batch))
    BY <1>13 DEF Due
  <2> QED
    BY <2>1, <2>2, RangeOfLine
<1>15. \A p, q \in Range(everyone) : p.slot = q.slot \/ p.req = q.req => p = q
  BY <1>11, <1>14 DEF Plan, Planned
<1>16. Due' = {} /\ Plan'
  <2>1. (passes = <<>> /\ mixed = <<>> => Due = {} /\ Plan)'
    BY NothingDue, PTL
  <2> QED
    BY <1>10, <1>11, <2>1
<1>17. /\ filled \in Rows /\ \A p \in Range(batch) : Carries(filled[p.slot], Prompt[p.req])
       /\ \A s \in Slot \ parked : filled[s] = cache[s]
  BY <1>3, <1>4, <1>11, <1>13, FilledRows
<1>18. /\ text \in [Slot -> Text] /\ base \in Rows
       /\ PlaceAfter \in [Slot -> Cell]
       /\ \A s \in InUse : PlaceAfter[s] = Min({devPos[s] + 1, MaxSeq - 1})
  BY <1>5, <1>6, <1>11, <1>17, StepTyped
<1>19. \A p \in Range(batch) : Carries(base[p.slot], Prompt[p.req])
  <2> SUFFICES ASSUME NEW p \in Range(batch)
               PROVE  Carries(base[p.slot], Prompt[p.req])
    OBVIOUS
  <2>1. p \in Place
    BY <1>14
  <2>2. p.slot \in Slot /\ p.req \in Request
    BY <2>1 DEF Place
  <2>3. p.slot \in parked
    BY <1>3, SlotOfPlace
  <2>4. Carries(filled[p.slot], Prompt[p.req])
    BY <1>17
  <2>5. Carries(StepCells(filled, parked)[p.slot], Prompt[p.req])
    BY <1>17, <2>2, <2>3, <2>4, ParkedCarries
  <2> QED
    BY <1>6, <2>5
<1>20. /\ cells \in Rows
       /\ \A p \in Range(everyone) : Carries(cells[p.slot], Prompt[p.req])
       /\ \A s \in Slot \ SlotsOf(everyone) : cells[s] = base[s]
  BY <1>2, <1>7, <1>11, <1>13, <1>18, <1>19, CopiedRows
<1>21. PICK tok \in [Slot -> Token \cup {Junk}] : tok = TokenAfter(draw) /\ \A s \in InUse : tok[s] = draw[s]
  BY <1>8, <1>11, StepTaken
<1>22. PICK at \in [Slot -> Cell] : at = PlaceAfter
  BY <1>18
<1>23. Seated(everyone, first, tok, at)
  <2>1. Enter(everyone, first, tok, at)
    BY <1>9, <1>21, <1>22
  <2> QED
    BY <1>11, <1>14, <1>15, <2>1, Entered
<1>24. PICK one : one = Prompted(everyone, first, cells)
  OBVIOUS
<1>25. PICK two : two = Stepped(stepping, draw, text)
  OBVIOUS
<1>26. PassOf(one, everyone, first)
  BY <1>14, <1>15, <1>20, <1>24, PromptedPass
<1>27. \A s, t \in InUse : rows[s] = rows[t] => s = t
  BY <1>11 DEF Seats
<1>28. StepOf(two, stepping, draw, text)
  BY <1>8, <1>11, <1>18, <1>25, <1>27, SteppedPass
<1>29. /\ one \in Seq(Draw) /\ two \in Seq(Draw) /\ queued \in Seq(Seq(Draw))
       /\ queued' = queued \o <<one, two>>
  BY <1>9, <1>11, <1>24, <1>25, <1>26, <1>28 DEF PassOf, StepOf, Types
<1>30. /\ queued' = Append(Append(queued, one), two) /\ queued' \in Seq(Seq(Draw))
       /\ Len(queued') = Len(queued) + 2
       /\ \A k \in 1..Len(queued') :
            (k \in 1..Len(queued) /\ queued'[k] = queued[k]) \/ queued'[k] = one \/ queued'[k] = two
  BY <1>29, TwoMore
<1>31. /\ InUse' = InUse \cup SlotsOf(everyone) /\ Rowed' = Rowed \cup {p.req : p \in Range(everyone)}
       /\ \A s \in InUse : s \notin SlotsOf(everyone) /\ rows'[s] = rows[s]
       /\ \A s \in SlotsOf(everyone) : \E p \in Range(everyone) : p.slot = s
       /\ Seats' /\ Planned' /\ Going'
       /\ \A line \in Seq(Draw) : DrawnInRow(line) => DrawnInRow(line)'
  <2>1. Due' = Due \ Range(everyone)
    BY <1>14, <1>16
  <2>2. /\ rows' \in [Slot -> Request \cup {None}]
        /\ \A p \in Range(everyone) : rows'[p.slot] = p.req
        /\ \A s \in Slot \ SlotsOf(everyone) : rows'[s] = rows[s]
    BY <1>23 DEF Seated
  <2> QED
    BY <1>10, <1>11, <1>14, <2>1, <2>2, SeatsTaken
<1>32. Types'
  <2>1. cache' \in [Slot -> [Cell -> Text]]
    BY <1>9, <1>20 DEF Rows
  <2>2. ahead' \in Nat /\ mixed' \in Seq(Place)
    BY <1>10
  <2>3. /\ rows' \in [Slot -> Request \cup {None}] /\ devKey' = rows'
        /\ devTok' \in [Slot -> Token \cup {Junk}] /\ devPos' \in [Slot -> Cell]
    BY <1>23 DEF Seated
  <2> QED
    BY <1>10, <1>11, <1>30, <2>1, <2>2, <2>3 DEF Types
<1>33. Line'
  BY <1>10, <1>11 DEF Line
<1>34. Steps'
  BY <1>10, <1>11 DEF Steps
<1>35. Drawn'
  <2>1. DrawnOnce(one) /\ DrawnOnce(two)
    BY <1>26, <1>28 DEF PassOf, StepOf
  <2>2. \A j \in 1..Len(one) : rows'[one[j].slot] = one[j].req
    <3> SUFFICES ASSUME NEW j \in 1..Len(one)
                 PROVE  rows'[one[j].slot] = one[j].req
      OBVIOUS
    <3>1. PICK p \in Range(everyone) : one[j].slot = p.slot /\ one[j].req = p.req
      BY <1>26 DEF PassOf
    <3>2. rows'[p.slot] = p.req
      BY <1>23 DEF Seated
    <3> QED
      BY <3>1, <3>2
  <2>3. \A j \in 1..Len(two) : rows'[two[j].slot] = two[j].req
    <3> SUFFICES ASSUME NEW j \in 1..Len(two)
                 PROVE  rows'[two[j].slot] = two[j].req
      OBVIOUS
    <3>1. PICK s \in stepping : two[j].slot = s /\ two[j].req = rows[s]
      BY <1>28 DEF StepOf
    <3>2. rows'[s] = rows[s]
      BY <1>8, <1>31
    <3> QED
      BY <3>1, <3>2
  <2>4. DrawnOnce(reading)' /\ DrawnInRow(reading)'
    <3>1. DrawnOnce(reading) /\ DrawnInRow(reading) /\ reading \in Seq(Draw) /\ reading' = reading
      BY <1>10, <1>11 DEF Drawn, Types
    <3>2. DrawnInRow(reading)'
      BY <1>31, <3>1 DEF DrawnInRow
    <3> QED
      BY <3>1, <3>2 DEF DrawnOnce
  <2>5. ASSUME NEW k \in 1..Len(queued')
        PROVE  DrawnOnce(queued[k])' /\ DrawnInRow(queued[k])'
    <3>1. CASE k \in 1..Len(queued) /\ queued'[k] = queued[k]
      <4>1. DrawnOnce(queued[k]) /\ DrawnInRow(queued[k]) /\ queued[k] \in Seq(Draw)
        BY <1>11, <1>29, <3>1 DEF Drawn
      <4>2. PICK line : line = queued[k]
        OBVIOUS
      <4>3. DrawnInRow(line)'
        BY <1>31, <4>1, <4>2
      <4>4. queued'[k] = line
        BY <3>1, <4>2
      <4> QED
        BY <4>1, <4>2, <4>3, <4>4 DEF DrawnOnce, DrawnInRow
    <3>2. CASE queued'[k] = one
      BY <2>1, <2>2, <3>2 DEF DrawnOnce, DrawnInRow
    <3>3. CASE queued'[k] = two
      BY <2>1, <2>3, <3>3 DEF DrawnOnce, DrawnInRow
    <3> QED
      BY <1>30, <3>1, <3>2, <3>3
  <2> QED
    BY <2>4, <2>5 DEF Drawn
<1>36. ASSUME NEW s \in InUse
       PROVE  \E f : Whole(s, f)'
  <2>1. PICK f : Whole(s, f)
    BY <1>11 DEF Texts
  <2>2. PICK r \in Request : r = rows[s]
    BY <1>11 DEF Types, InUse
  <2>3. PICK line \in Seq(Seq(Draw)) : line = queued
    BY <1>29
  <2>4. PICK n \in Nat : n = Len(line)
    BY PlacesOfLine
  <2>5. Grows(r, line, f)
    BY <2>1, <2>2, <2>3 DEF Whole
  <2>6. PICK w \in Seq(Token) : w = f[n]
    <3>1. f \in [0..n -> Seq(Token)]
      BY <2>4, <2>5 DEF Grows
    <3> QED
      BY <3>1
  <2>7. Stands(s, w)
    BY <2>1, <2>3, <2>4, <2>6 DEF Whole
  <2>8. s \in Slot /\ s \notin SlotsOf(everyone) /\ rows'[s] = r /\ r \in Rowed
    BY <1>31, <2>2 DEF InUse, Rowed
  <2>9. s \notin parked
    <3>1. SlotsOf(batch) \subseteq SlotsOf(everyone)
      BY <1>14, SlotOfPlace
    <3> QED
      BY <1>3, <2>8, <3>1
  <2>10. OnTrack(r, w) => text[s] = w /\ cache'[s] = [cache[s] EXCEPT ![Len(w) - 1] = w]
    <3> SUFFICES ASSUME OnTrack(r, w)
                 PROVE  text[s] = w /\ cache'[s] = [cache[s] EXCEPT ![Len(w) - 1] = w]
      OBVIOUS
    <3>1. filled[s] = cache[s]
      BY <1>17, <2>8, <2>9
    <3>2. /\ StepText(filled, parked)[s] = w
          /\ StepCells(filled, parked)[s] = [cache[s] EXCEPT ![Len(w) - 1] = w]
      BY <1>11, <1>17, <2>2, <2>7, <2>9, <3>1, OwnStep
    <3>3. cache'[s] = base[s]
      BY <1>9, <1>20, <2>8
    <3> QED
      BY <1>5, <1>6, <3>2, <3>3
  <2>11. PICK t \in Token : t = draw[s]
    BY <1>8
  <2>12. w # Prompt[r]
    <3>1. Len(Prompt[r]) \in Nat /\ Len(w) > Len(Prompt[r])
      BY <2>2, <2>7, RowEngineAssumption DEF Stands
    <3>2. ~(Len(Prompt[r]) > Len(Prompt[r]))
      BY <3>1
    <3> QED
      BY <3>1, <3>2
  <2>13. Adds(r, two, w, Append(w, t))
    BY <1>8, <1>27, <1>28, <2>2, <2>10, <2>11, <2>12, StepsAdd
  <2>14. Adds(r, one, w, w)
    <3>1. \A p \in Range(everyone) : p.req # r
      BY <1>14, <2>8, NotDrawn
    <3> QED
      BY <1>15, <1>26, <3>1, PromptsAdd
  <2>15. PICK more \in Seq(Token) : more = Append(w, t)
    BY OneTokenMore
  <2>16. Stands(s, more)'
    <3>1. /\ rows'[s] = rows[s] /\ devTok'[s] = t /\ devPos'[s] = Min({devPos[s] + 1, MaxSeq - 1})
      BY <1>18, <1>21, <1>22, <1>23, <2>2, <2>8, <2>11 DEF Seated
    <3>2. Stands(s, Append(w, t))'
      BY <1>11, <2>2, <2>7, <2>10, <3>1, SteppedOn
    <3> QED
      BY <2>15, <3>2
  <2>17. Adds(r, one, f[Len(line)], w) /\ Adds(r, two, w, more)
    BY <2>4, <2>6, <2>13, <2>14, <2>15
  <2>18. \E g : Grows(r, Append(Append(line, one), two), g) /\ g[0] = f[0] /\ g[Len(line) + 2] = more
    BY <1>29, <2>5, <2>17, GrowsByTwo
  <2>19. PICK g : Grows(r, Append(Append(line, one), two), g) /\ g[0] = f[0] /\ g[Len(line) + 2] = more
    BY <2>18
  <2>20. Adds(r, reading, Prompt[r] \o tokens[r], f[0])
    BY <2>1, <2>2 DEF Whole
  <2>21. /\ Adds(rows'[s], reading', Prompt[rows'[s]] \o tokens'[rows'[s]], g[0])
         /\ Grows(rows'[s], queued', g) /\ g[Len(queued')] = more
    BY <1>10, <1>30, <2>3, <2>8, <2>19, <2>20
  <2> QED
    BY <2>16, <2>21 DEF Whole
<1>37. ASSUME NEW s \in SlotsOf(everyone)
       PROVE  \E f : Whole(s, f)'
  <2>1. PICK p \in Range(everyone) : p.slot = s
    BY <1>31
  <2>2. /\ p \in Due /\ p \in Place /\ p.req \in Request /\ p.req \notin Rowed /\ tokens[p.req] = <<>>
        /\ \A k \in 1..Len(queued) : ~Draws(queued[k], p.req)
    BY <1>14, NotDrawn
  <2>3. PICK r : r = p.req
    OBVIOUS
  <2>4. PICK own \in Seq(Token) : own = Prompt[r]
    BY <2>2, <2>3, RowEngineAssumption
  <2>5. PICK t \in Token : t = first[s]
    OBVIOUS
  <2>6. PICK line \in Seq(Seq(Draw)) : line = queued
    BY <1>29
  <2>7. \A k \in 1..Len(line) : ~Draws(line[k], r)
    BY <2>2, <2>3, <2>6
  <2>8. \E f : Grows(r, line, f) /\ f[0] = own /\ f[Len(line)] = own
    BY <2>7, GrowsNot
  <2>9. PICK f : Grows(r, line, f) /\ f[0] = own /\ f[Len(line)] = own
    BY <2>8
  <2>10. PICK more \in Seq(Token) : more = Append(own, t)
    BY OneTokenMore
  <2>11. Adds(r, one, own, more)
    BY <1>15, <1>26, <2>1, <2>3, <2>4, <2>5, <2>10, PromptsAdd
  <2>12. Adds(r, two, more, more)
    <3>1. \A x \in stepping : rows[x] # r
      BY <1>8, <2>2, <2>3 DEF Rowed
    <3> QED
      BY <1>8, <1>27, <1>28, <3>1, StepsAdd
  <2>22. PICK mid \in Seq(Token) : mid = more
    OBVIOUS
  <2>13. Adds(r, one, f[Len(line)], mid) /\ Adds(r, two, mid, more)
    BY <2>9, <2>11, <2>12, <2>22
  <2>14. \E g : Grows(r, Append(Append(line, one), two), g) /\ g[0] = f[0] /\ g[Len(line) + 2] = more
    <3>1. Grows(r, line, f) /\ one \in Seq(Draw) /\ two \in Seq(Draw)
      BY <1>29, <2>9
    <3>2. Adds(r, one, f[Len(line)], mid) /\ Adds(r, two, mid, more)
      BY <2>13
    <3> QED
      BY <3>1, <3>2, GrowsByTwo
  <2>15. PICK g : Grows(r, Append(Append(line, one), two), g) /\ g[0] = f[0] /\ g[Len(line) + 2] = more
    BY <2>14
  <2>16. Stands(p.slot, Append(Prompt[p.req], t))'
    <3>1. Carries(cache'[p.slot], Prompt[p.req])
      BY <1>9, <1>20
    <3>2. rows'[p.slot] = p.req /\ devTok'[p.slot] = t /\ devPos'[p.slot] = Len(Prompt[p.req])
      BY <1>23, <2>1, <2>5 DEF Seated
    <3> QED
      BY <2>2, <3>1, <3>2, RowBegun
  <2>17. Stands(s, more)'
    BY <2>1, <2>3, <2>4, <2>10, <2>16
  <2>18. tokens'[r] = <<>> /\ reading' = reading /\ rows'[s] = r
    BY <1>10, <1>23, <2>1, <2>2, <2>3 DEF Seated
  <2>19. Prompt[r] \o tokens'[r] = own
    BY <2>4, <2>18
  <2>20. Adds(r, reading, own, own)
    BY <1>11, NothingRead
  <2>21. /\ Adds(rows'[s], reading', Prompt[rows'[s]] \o tokens'[rows'[s]], g[0])
         /\ Grows(rows'[s], queued', g) /\ g[Len(queued')] = more
    BY <1>30, <2>6, <2>9, <2>15, <2>18, <2>19, <2>20
  <2> QED
    BY <2>17, <2>21 DEF Whole
<1>38. Texts'
  BY <1>31, <1>36, <1>37 DEF Texts
<1> QED
  BY <1>16, <1>31, <1>32, <1>33, <1>34, <1>35, <1>38 DEF IInv

-----------------------------------------------------------------------------
(* The theorems.                                                            *)

\* Every step keeps the invariant.
LEMMA StepInv ==
  ASSUME IInv, [Next]_vars
  PROVE  IInv'
<1>1. CASE \E r \in Request : Submit(r) \/ Cancel(r)
  BY <1>1, SubmitInv, CancelInv
<1>2. CASE BeginStep \/ PassesDone \/ DecodeNone \/ ReadDone \/ Rest \/ UNCHANGED vars
  BY <1>2, QuietInv
<1>3. CASE Admit
  BY <1>3, AdmitInv
<1>4. CASE Arrange
  BY <1>4, ArrangeInv
<1>5. CASE PackedPass
  BY <1>5, PackedPassInv
<1>6. CASE GroupedPass
  BY <1>6, GroupedPassInv
<1>7. CASE MixPass
  BY <1>7, MixPassInv
<1>8. CASE DecodeStep
  BY <1>8, DecodeStepInv
<1>9. CASE PopPass
  BY <1>9, PopPassInv
<1>10. CASE SkipToken
  BY <1>10, SkipTokenInv
<1>11. CASE ReadToken
  BY <1>11, ReadTokenInv
<1> QED
  BY <1>1, <1>2, <1>3, <1>4, <1>5, <1>6, <1>7, <1>8, <1>9, <1>10, <1>11 DEF Next, Step

\* The invariant holds in every state of the engine without pages.
THEOREM RowsInvariant == Spec => []IInv
<1>1. Init => IInv
  BY InitInv
<1>2. IInv /\ [Next]_vars => IInv'
  BY StepInv
<1> QED
  BY <1>1, <1>2, PTL DEF Spec

\* A token read of a request that still runs was drawn from that request's own text, with
\* its own sampling: admission into a freed row, the step that goes past a request's end,
\* a row copied from the first of a prompt and a pass with the step show in no other text
\* (Engine._admit, Engine._advance, Engine._read).
THEOREM RowsReadOwnText == Spec => []OwnText
<1>1. IInv => OwnText
  BY TokenRead DEF OwnText
<1> QED
  BY <1>1, RowsInvariant, PTL

-----------------------------------------------------------------------------
(* Every step is one of Batching, or none.                                  *)

\* Batching speaks of lines as the engine does.
LEMMA BatchLines ==
  /\ \A seq : Batch!Range(seq) = Range(seq)
  /\ \A seq, x : Batch!Without(seq, x) = Without(seq, x)
  /\ \A seq : Batch!Last(seq) = Last(seq) /\ Batch!Front(seq) = Front(seq)
BY DEF Batch!Range, Range, Batch!Without, Without, Batch!IndexIn, IndexIn,
       Batch!RemoveAt, RemoveAt, Batch!Last, Last, Batch!Front, Front

\* While a row is free for one more, fewer are admitted than there are rows.
LEMMA RowLeft ==
  ASSUME IInv, pc = "admit", Len(admitted) < Cardinality(FreeSlots)
  PROVE  Len(running) < NSlots
<1>1. /\ running \in Seq(Request) /\ admitted \in Seq(Request) /\ Once(running) /\ Once(admitted)
      /\ Range(running) = Rowed \cup Range(admitted) /\ Rowed \cap Range(admitted) = {}
      /\ \A s, t \in InUse : rows[s] = rows[t] => s = t
  <2>1. passes = <<>> /\ mixed = <<>>
    BY DEF IInv, Steps
  <2>2. Due = {}
    BY <2>1, NothingDue
  <2>3. running \in Seq(Request) /\ admitted \in Seq(Request) /\ Once(running) /\ Once(admitted)
    BY DEF IInv, Types, Line
  <2>4. {p.req : p \in Due} = {}
    BY <2>2
  <2> QED
    BY <2>3, <2>4 DEF IInv, Seats
<1>2. InUse \in SUBSET Slot /\ FreeSlots \in SUBSET Slot /\ InUse \cap FreeSlots = {} /\ InUse \cup FreeSlots = Slot
  BY DEF InUse, FreeSlots
<1>3. /\ IsFiniteSet(InUse) /\ IsFiniteSet(FreeSlots)
      /\ Cardinality(InUse) \in Nat /\ Cardinality(FreeSlots) \in Nat
  BY <1>2, SlotsInOrder
<1>4. Cardinality(Slot) = NSlots
  <2>1. NSlots \in Nat \ {0}
    BY RowEngineAssumption
  <2>2. 1 \in Int /\ NSlots \in Int /\ ~(1 > NSlots) /\ NSlots - 1 + 1 = NSlots
    BY <2>1
  <2> QED
    BY <2>2, FS_Interval DEF Slot
<1>5. Cardinality(InUse \cup FreeSlots) = Cardinality(InUse) + Cardinality(FreeSlots) - Cardinality(InUse \cap FreeSlots)
  BY <1>3, FS_Union
<1>6. IsFiniteSet(Rowed) /\ Cardinality(Rowed) <= Cardinality(InUse) /\ Cardinality(Rowed) \in Nat
  <2>1. PICK f : f = [s \in InUse |-> rows[s]]
    OBVIOUS
  <2>2. f \in Surjection(InUse, Rowed)
    BY <2>1 DEF Surjection, Rowed
  <2>3. IsFiniteSet(Rowed) /\ Cardinality(Rowed) <= Cardinality(InUse)
    BY <1>3, <2>2, FS_Surjection
  <2> QED
    BY <2>3, FS_CardinalityType
<1>7. /\ IsFiniteSet(Range(admitted)) /\ Cardinality(Range(admitted)) = Len(admitted)
      /\ Cardinality(Range(running)) = Len(running) /\ Len(admitted) \in Nat
  BY <1>1, OnceCounts, PlacesOfLine
<1>8. Cardinality(Range(running)) = Cardinality(Rowed) + Cardinality(Range(admitted)) - Cardinality(Rowed \cap Range(admitted))
  BY <1>1, <1>6, <1>7, FS_Union
<1>9. Cardinality({}) = 0
  BY FS_EmptySet
<1>10. PICK a, b, c, d, n :
         /\ a \in Nat /\ b \in Nat /\ c \in Nat /\ d \in Nat /\ a = Cardinality(InUse) /\ b = Cardinality(FreeSlots) /\ c = Cardinality(Rowed)
         /\ d = Len(admitted) /\ n = Len(running)
  BY <1>3, <1>6, <1>7
<1>11. NSlots = a + b - 0
  BY <1>2, <1>4, <1>5, <1>9, <1>10
<1>12. n = c + d - 0
  BY <1>1, <1>7, <1>8, <1>9, <1>10
<1>13. c <= a /\ d < b
  BY <1>6, <1>10
<1>15. a \in Nat /\ b \in Nat /\ c \in Nat /\ d \in Nat
  BY <1>10
<1>14. n < NSlots
  BY <1>11, <1>12, <1>13, <1>15
<1> QED
  BY <1>10, <1>14

\* A request joins the line.
LEMMA SubmitServes ==
  ASSUME NEW r \in Request, Submit(r)
  PROVE  Batch!Submit(r)
BY BatchLines DEF Submit, Batch!Submit

\* A request leaves the line, or its row.
LEMMA CancelServes ==
  ASSUME IInv, NEW r \in Request, Cancel(r)
  PROVE  Batch!Cancel(r)
<1>1. /\ r \in Range(submitted) /\ reason[r] = ""
      /\ reason' = [reason EXCEPT ![r] = "cancelled"]
      /\ waiting' = Without(waiting, r) /\ running' = Without(running, r)
      /\ UNCHANGED <<submitted, tokens>>
  BY DEF Cancel
<1>2. r \in Range(waiting) \cup Range(running)
  BY <1>1 DEF IInv, Line
<1> QED
  BY <1>1, <1>2, BatchLines DEF Batch!Cancel

\* The first in line is admitted.
LEMMA AdmitServes ==
  ASSUME IInv, Admit
  PROVE  Batch!Admit
<1>1. /\ pc = "admit" /\ waiting # <<>> /\ Len(admitted) < Cardinality(FreeSlots)
      /\ running' = Append(running, Head(waiting)) /\ waiting' = Tail(waiting)
      /\ UNCHANGED <<submitted, tokens, reason>>
  BY DEF Admit, At, requestVars
<1>2. Len(running) < NSlots
  BY <1>1, RowLeft
<1> QED
  BY <1>1, <1>2 DEF Batch!Admit

\* The position of the host's reckoning is the length of the text.
LEMMA VerdictIsReason ==
  ASSUME NEW r \in Request, NEW text \in Seq(Token), NEW at, at + 1 = Len(Prompt[r]) + Len(text)
  PROVE  Reason(r, text, at) = Batch!Verdict(r, text)
<1>1. at + 1 >= MaxSeq <=> Len(Prompt[r]) + Len(text) >= MaxSeq
  OBVIOUS
<1> QED
  BY <1>1, BatchLines DEF Reason, Batch!Verdict

\* A request gets a token, and the verdict of its own prompt and tokens.
LEMMA ReadServes ==
  ASSUME IInv, ReadToken
  PROVE  \E r \in Request : Batch!Emit(r)
<1>1. PICK it, r, text, at :
           /\ it = Head(reading) /\ r = it.req /\ text = Append(tokens[r], it.token)
           /\ reading # <<>> /\ reason[r] = ""
           /\ at \in Nat /\ at + 1 = Len(Prompt[r]) + Len(text)
           /\ tokens' = [tokens EXCEPT ![r] = text]
           /\ positions' = [positions EXCEPT ![it.slot] = at]
           /\ reason' = [reason EXCEPT ![r] = Reason(r, text, at)]
           /\ reason'[r] # "" => Release(r) /\ running' = Without(running, r)
           /\ reason'[r] = "" => UNCHANGED <<rows, running, devPos, devTok, devKey, cache>>
           /\ text \in Seq(Token) /\ Len(text) = Len(tokens[r]) + 1
           /\ reading' = Tail(reading)
  BY ReadTokenDoes
<1>2. it \in Draw /\ r \in Request /\ r \in Range(running)
  BY <1>1, TokenRead
<1>3. it.token \in Token
  BY <1>2 DEF Draw
<1>4. UNCHANGED <<submitted, waiting>>
  BY DEF ReadToken
<1>5. Reason(r, text, at) = Batch!Verdict(r, text)
  BY <1>1, <1>2, VerdictIsReason
<1>6. running' = IF reason'[r] = "" THEN running ELSE Without(running, r)
  BY <1>1
<1>7. Batch!Emit(r)
  BY <1>1, <1>2, <1>3, <1>4, <1>5, <1>6, BatchLines DEF Batch!Emit
<1> QED
  BY <1>2, <1>7

\* The actions that leave the requests, the line and the admission alone.
LEMMA OthersServe ==
  ASSUME [Next]_vars, ~(\E r \in Request : Submit(r) \/ Cancel(r)), ~Admit, ~ReadToken
  PROVE  UNCHANGED <<submitted, waiting, running, tokens, reason>>
<1> USE DEF requestVars, lineVars
<1>1. CASE BeginStep \/ Arrange \/ PackedPass \/ GroupedPass \/ PassesDone
  BY <1>1 DEF BeginStep, Arrange, PackedPass, GroupedPass, PromptPass, PassesDone
<1>2. CASE MixPass \/ DecodeStep \/ DecodeNone
  BY <1>2 DEF MixPass, DecodeStep, DecodeNone
<1>3. CASE PopPass \/ SkipToken \/ ReadDone
  BY <1>3 DEF PopPass, SkipToken, ReadDone
<1>4. CASE Rest \/ UNCHANGED vars
  BY <1>4 DEF Rest, vars
<1> QED
  BY <1>1, <1>2, <1>3, <1>4 DEF Next, Step

\* A step of the engine is a step of Batching, or leaves what Batching speaks of alone.
LEMMA StepServes ==
  ASSUME IInv, [Next]_vars
  PROVE  [Batch!Next]_<<submitted, waiting, running, tokens, reason>>
<1>1. CASE \E r \in Request : Submit(r) \/ Cancel(r)
  BY <1>1, SubmitServes, CancelServes DEF Batch!Next
<1>2. CASE Admit
  BY <1>2, AdmitServes DEF Batch!Next
<1>3. CASE ReadToken
  BY <1>3, ReadServes DEF Batch!Next
<1> QED
  BY <1>1, <1>2, <1>3, OthersServe

\* The engine without pages keeps the promise of Batching, for any prompts and any order of
\* calls: the requests it admits at once, the order, groups and sharing of their passes and
\* the tokens it reads late show in neither the order requests are served, nor the tokens
\* they have, nor the reason they end.
THEOREM RowsPromiseKept == Spec => ServesAsBatching
<1>1. Init => Batch!Init
  BY DEF Init, Batch!Init
<1>2. IInv /\ [Next]_vars => [Batch!Next]_Batch!batchVars
  BY StepServes DEF Batch!batchVars
<1> QED
  BY <1>1, <1>2, RowsInvariant, PTL DEF Spec, ServesAsBatching, Batch!Spec

=============================================================================
