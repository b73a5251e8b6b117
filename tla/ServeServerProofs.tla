-------------------------- MODULE ServeServerProofs --------------------------
(***************************************************************************)
(* Whatever the handlers, the engine's thread and the clients do and in      *)
(* whatever order, no row goes on for a choice nobody reads, no text that    *)
(* was sent is taken back, and each choice reads its own tokens in order.    *)
(* And a request for embeddings that is answered has its own vectors.        *)
(***************************************************************************)
EXTENDS Server, LinesProofs, TLAPS

Reasons == {"", "eos", "length", "cache"}
Event(h) == [req : Range(ChoicesOf[h]), token : Token, reason : Reasons]
            \cup [req : Range(ChoicesOf[h]), token : {Error}, reason : {"failed"}]
Inbox == [kind : {"submit", "cancel"}, req : Request]
\* The steps of each part, without fairness, which no proof here needs.
Steps == Init /\ [][Next]_vars
EmbedderSteps == EmbedderInit /\ [][EmbedderNext]_embedderVars

At == {"new", "submit", "open", "read", "write", "close"} \cup Over

-----------------------------------------------------------------------------
(* The choices of the handlers.                                             *)

\* Each request is a choice of one handler.
LEMMA HomeOfChoice ==
  /\ \A h \in Handler : ChoicesOf[h] \in Seq(Range(ChoicesOf[h])) /\ Range(ChoicesOf[h]) \subseteq Request
  /\ \A h \in Handler : \A r \in Range(ChoicesOf[h]) : HandlerOf(r) = h /\ r \in Request
  /\ \A r \in Request : HandlerOf(r) \in Handler /\ r \in Range(ChoicesOf[HandlerOf(r)])
<1>1. \A h \in Handler : \A r \in Range(ChoicesOf[h]) : HandlerOf(r) = h /\ r \in Request
  <2> TAKE h \in Handler
  <2> TAKE r \in Range(ChoicesOf[h])
  <2>1. HandlerOf(r) \in Handler /\ r \in Range(ChoicesOf[HandlerOf(r)])
    BY DEF HandlerOf
  <2>2. HandlerOf(r) # h => Range(ChoicesOf[HandlerOf(r)]) \cap Range(ChoicesOf[h]) = {}
    BY <2>1, ServerAssumption
  <2> QED
    BY <2>1, <2>2 DEF Request
<1>2. \A r \in Request : HandlerOf(r) \in Handler /\ r \in Range(ChoicesOf[HandlerOf(r)])
  <2> TAKE r \in Request
  <2>1. \E h \in Handler : r \in Range(ChoicesOf[h])
    BY DEF Request
  <2> QED
    BY <2>1 DEF HandlerOf
<1>3. \A h \in Handler : ChoicesOf[h] \in Seq(Range(ChoicesOf[h])) /\ Range(ChoicesOf[h]) \subseteq Request
  BY ServerAssumption DEF Request
<1> QED
  BY <1>1, <1>2, <1>3, Zenon

-----------------------------------------------------------------------------
(* Where stop strings are found.                                            *)

\* A stop string is at place i of a text, which counts from 0.
LEMMA FoundAt ==
  ASSUME NEW text \in Seq(Char), NEW stop \in Seq(Char), NEW i \in 0..Len(text)
  PROVE  IsPrefix(stop, SubSeq(text, i + 1, Len(text))) <=>
           /\ i + Len(stop) <= Len(text)
           /\ \A k \in 1..Len(stop) : stop[k] = text[i + k]
<1> DEFINE n == Len(text)  s == Len(stop)  rest == SubSeq(text, i + 1, n)
<1>1. n \in Nat /\ s \in Nat /\ i \in Nat /\ i <= n
  OBVIOUS
<1>2. rest \in Seq(Char) /\ Len(rest) = n - i /\ \A k \in 1..n - i : rest[k] = text[i + k]
  BY <1>1
<1>3. IsPrefix(stop, rest) <=> s <= Len(rest) /\ SubSeq(stop, 1, s) = SubSeq(rest, 1, s)
  BY DEF IsPrefix
<1>4. SubSeq(stop, 1, s) \in Seq(Char) /\ Len(SubSeq(stop, 1, s)) = s
      /\ \A k \in 1..s : SubSeq(stop, 1, s)[k] = stop[k]
  BY <1>1
<1>5. s <= Len(rest) =>
        SubSeq(rest, 1, s) \in Seq(Char) /\ Len(SubSeq(rest, 1, s)) = s
        /\ \A k \in 1..s : SubSeq(rest, 1, s)[k] = rest[k]
  <2> HIDE DEF rest
  <2> QED
    BY <1>1, <1>2
<1> DEFINE a == SubSeq(stop, 1, s)  b == SubSeq(rest, 1, s)
<1>6. s <= Len(rest) => (a = b <=> \A k \in 1..s : stop[k] = rest[k])
  <2> HIDE DEF a, b, s, rest
  <2>1. ASSUME s <= Len(rest), \A k \in 1..s : stop[k] = rest[k]
        PROVE  a = b
    <3>1. \A k \in 1..s : a[k] = b[k]
      BY <2>1, <1>4, <1>5 DEF a, b
    <3>2. a \in Seq(Char) /\ Len(a) = s /\ b \in Seq(Char) /\ Len(b) = s
      BY <2>1, <1>4, <1>5 DEF a, b
    <3> QED
      BY <3>1, <3>2, SeqEqual
  <2>2. ASSUME s <= Len(rest), a = b, NEW k \in 1..s
        PROVE  stop[k] = rest[k]
    <3>1. a[k] = stop[k] /\ b[k] = rest[k]
      BY <2>2, <1>4, <1>5 DEF a, b
    <3> QED
      BY <2>2, <3>1
  <2> QED
    BY <2>1, <2>2
<1>7. s <= Len(rest) <=> i + s <= n
  <2> HIDE DEF rest, s, n
  <2> QED
    BY <1>1, <1>2
<1>8. i + s <= n => \A k \in 1..s : rest[k] = text[i + k]
  <2> HIDE DEF rest, s, n
  <2> QED
    BY <1>1, <1>2
<1> HIDE DEF rest, s, n, a, b
<1>9. IsPrefix(stop, rest) <=> i + s <= n /\ \A k \in 1..s : stop[k] = text[i + k]
  BY <1>3, <1>6, <1>7, <1>8 DEF a, b
<1> QED
  BY <1>9 DEF rest, s, n

\* What is held back is short of every stop string by one.
LEMMA HoldShort ==
  ASSUME NEW h \in Handler
  PROVE  Hold(h) \in Nat /\ \A stop \in Stop[h] : stop \in Seq(Char) /\ Len(stop) <= Hold(h) + 1
<1> DEFINE lengths == {Len(stop) : stop \in Stop[h]}
<1>1. IsFiniteSet(Stop[h]) /\ \A stop \in Stop[h] : stop \in Seq(Char) /\ stop # <<>>
  BY ServerAssumption
<1>2. \A stop \in Stop[h] : Len(stop) \in Nat /\ Len(stop) >= 1
  BY <1>1
<1>3. CASE Stop[h] = {}
  BY <1>3 DEF Hold
<1>4. CASE Stop[h] # {}
  <2> DEFINE len == [stop \in Stop[h] |-> Len(stop)]
  <2>1. lengths \in SUBSET Nat /\ lengths # {} /\ \A n \in lengths : n >= 1
    BY <1>2, <1>4
  <2>2. len \in Surjection(Stop[h], lengths)
    BY DEF Surjection
  <2> HIDE DEF len, lengths
  <2>3. IsFiniteSet(lengths)
    BY <1>1, <2>2, FS_Surjection
  <2>4. Max(lengths) \in lengths /\ \A n \in lengths : n <= Max(lengths)
    BY <2>1, <2>3, MaxIsGreatest
  <2>5. Max(lengths) \in Nat /\ Max(lengths) >= 1
    BY <2>1, <2>4
  <2>6. Hold(h) = Max(lengths) - 1
    BY <1>4 DEF Hold, lengths
  <2>7. \A stop \in Stop[h] : Len(stop) <= Max(lengths)
    BY <2>4 DEF lengths
  <2> QED
    BY <1>1, <1>2, <2>5, <2>6, <2>7
<1> QED
  BY <1>3, <1>4

\* Text that is added brings no stop string that begins in what was sent: the
\* search finds all there are, and none before the end of what was sent.
LEMMA FoundPastSent ==
  ASSUME NEW h \in Handler, NEW old \in Seq(Char), NEW more \in Seq(Char), NEW given \in Nat,
         Found(old, Stop[h], 0) = {}, given = 0 \/ given + Hold(h) <= Len(old)
  PROVE  LET text == old \o more
             cuts == Found(text, Stop[h], Max({0, given - Hold(h)}))
         IN  /\ text \in Seq(Char) /\ Len(old) <= Len(text)
             /\ cuts \subseteq 0..Len(text) /\ \A i \in cuts : given <= i
             /\ cuts = Found(text, Stop[h], 0)
<1> DEFINE text == old \o more  n == Len(old)  H == Hold(h)  start == Max({0, given - H})
           cuts == Found(text, Stop[h], start)
<1>1. text \in Seq(Char) /\ n \in Nat /\ Len(text) \in Nat /\ n <= Len(text)
      /\ \A i \in 1..n : text[i] = old[i]
  OBVIOUS
<1>2. H \in Nat /\ \A stop \in Stop[h] : stop \in Seq(Char) /\ Len(stop) \in Nat /\ Len(stop) <= H + 1
  BY HoldShort
<1>3. start \in Nat /\ start = IF given > H THEN given - H ELSE 0
  <2>1. given - H \in Int
    BY <1>2
  <2> HIDE DEF H
  <2>2. start = IF 0 >= given - H THEN 0 ELSE given - H
    BY <2>1, MaxOfTwo
  <2> QED
    BY <1>2, <2>2
<1> HIDE DEF text, n, H, start
<1>4. ASSUME NEW i \in 0..Len(text), NEW stop \in Stop[h],
             IsPrefix(stop, SubSeq(text, i + 1, Len(text)))
      PROVE  given <= i
  <2> DEFINE s == Len(stop)
  <2>1. /\ stop \in Seq(Char) /\ s \in Nat /\ s <= H + 1
        /\ i + s <= Len(text) /\ \A k \in 1..s : stop[k] = text[i + k]
    BY <1>1, <1>2, <1>4, FoundAt
  <2> HIDE DEF s
  <2>2. ~(i + s <= n)
    <3> SUFFICES ASSUME i + s <= n  PROVE FALSE
      OBVIOUS
    <3>1. i \in 0..n /\ \A k \in 1..s : i + k \in 1..n
      BY <1>1, <2>1
    <3>2. \A k \in 1..s : stop[k] = old[i + k]
      BY <3>1, <1>1, <2>1
    <3>3. IsPrefix(stop, SubSeq(old, i + 1, Len(old)))
      BY <3>1, <3>2, <2>1, FoundAt DEF n, s
    <3>4. i \in Found(old, Stop[h], 0)
      BY <3>1, <3>3 DEF Found, n
    <3> QED
      BY <3>4
  <2>3. given = 0 \/ given + H <= n
    BY DEF H, n
  <2>4. i \in Nat
    BY <1>1
  <2> QED
    BY <2>1, <2>2, <2>3, <2>4, <1>1, <1>2
<1>5. \A i \in cuts : i \in 0..Len(text) /\ i \in start..Len(text)
                      /\ \E stop \in Stop[h] : IsPrefix(stop, SubSeq(text, i + 1, Len(text)))
  <2>1. start..Len(text) \subseteq 0..Len(text)
    BY <1>1, <1>3
  <2> QED
    BY <2>1 DEF Found
<1>6. \A i \in cuts : given <= i
  BY <1>4, <1>5
<1>7. ASSUME NEW i \in Found(text, Stop[h], 0)
      PROVE  i \in cuts
  <2>1. i \in 0..Len(text) /\ \E stop \in Stop[h] : IsPrefix(stop, SubSeq(text, i + 1, Len(text)))
    BY DEF Found
  <2>2. given <= i
    BY <1>4, <2>1
  <2>3. i \in start..Len(text)
    BY <1>1, <1>2, <1>3, <2>1, <2>2
  <2> QED
    BY <2>1, <2>3 DEF Found
<1>8. cuts = Found(text, Stop[h], 0)
  <2>1. \A i \in cuts : i \in Found(text, Stop[h], 0)
    BY <1>5 DEF Found
  <2> QED
    BY <1>7, <2>1
<1>9. cuts \subseteq 0..Len(text)
  BY <1>5
<1> HIDE DEF cuts
<1>10. /\ text \in Seq(Char) /\ Len(old) <= Len(text)
       /\ cuts \subseteq 0..Len(text) /\ \A i \in cuts : given <= i
       /\ cuts = Found(text, Stop[h], 0)
  BY <1>1, <1>6, <1>8, <1>9 DEF n
<1> QED
  BY <1>10 DEF cuts, text, start, H

-----------------------------------------------------------------------------
(* The inductive invariant.                                                 *)

EngineTypes ==
  /\ submitted \in Seq(Request) /\ waiting \in Seq(Request) /\ running \in Seq(Request)
  /\ tokens \in [Request -> Seq(Token)]
  /\ reason \in [Request -> Reasons \cup {"cancelled"}]

Types ==
  /\ EngineTypes
  /\ active \in Seq(Request) /\ epc \in {"run", "take", "step", "tell", "over"}
  /\ inbox \in Seq(Inbox) /\ failed \in BOOLEAN /\ stopping \in BOOLEAN
  /\ events = [h \in Handler |-> events[h]] /\ \A h \in Handler : events[h] \in Seq(Event(h))
  /\ hpc \in [Handler -> At] /\ todo \in [Handler -> Seq(Request)]
  /\ got \in [Request -> Seq(Token)] /\ ended \in [Request -> {"", "stop", "length"}]
  /\ written \in [Request -> Seq(Char)] /\ sent \in [Request -> Nat]

\* A request in line or in a row is in one place, was submitted, and has not ended;
\* one never submitted has not ended either.
Rows ==
  /\ Once(waiting) /\ Once(running) /\ Range(waiting) \cap Range(running) = {}
  /\ \A r \in Range(waiting) \cup Range(running) : r \in Range(submitted) /\ reason[r] = ""
  /\ \A r \in Request \ Range(submitted) : reason[r] = ""

\* A handler is told of an end that has come.
Told ==
  \A h \in Handler : \A e \in Range(events[h]) :
    e.token # Error /\ e.reason # "" => reason[e.req] # ""

\* The engine has r, or will find it in the inbox; and does before it finds a cancel of it.
HasAsked(r) == r \in Range(submitted) \/ Message("submit", r) \in Range(inbox)
InTurn ==
  \A i \in 1..Len(inbox) : inbox[i].kind = "cancel" =>
    \/ inbox[i].req \in Range(submitted)
    \/ \E j \in 1..(i - 1) : inbox[j] = Message("submit", inbox[i].req)

\* What a handler has given of its choices at each place, and has still to do.
HandlerFits(h) ==
  /\ todo[h] \in Seq(Range(ChoicesOf[h]))
  /\ hpc[h] \in {"submit", "close"} => todo[h] # <<>>
  /\ \A r \in Range(ChoicesOf[h]) :
       /\ hpc[h] = "submit" => r \in Range(todo[h]) \/ HasAsked(r)
       /\ hpc[h] \in {"open", "read", "write", "close"} => HasAsked(r)
       /\ hpc[h] = "close" => r \in Range(todo[h]) \/ Freed(r)
       /\ hpc[h] = "closed" => Freed(r)
       /\ hpc[h] = "answered" => ended[r] # ""
Handlers == \A h \in Handler : HandlerFits(h)

EndedFreed == \A r \in Request : ended[r] # "" => Freed(r)

\* No stop string is in the text of a choice that goes on, and what is sent of it is
\* short of its end by what is held back.
TextFits(r) ==
  /\ sent[r] <= Len(written[r])
  /\ ended[r] = "" =>
       /\ Found(written[r], Stop[HandlerOf(r)], 0) = {}
       /\ sent[r] = 0 \/ sent[r] + Hold(HandlerOf(r)) <= Len(written[r])
Texts == \A r \in Request : TextFits(r)

IInv == Types /\ Rows /\ Told /\ InTurn /\ Handlers /\ EndedFreed /\ Texts

-----------------------------------------------------------------------------
(* What the engine's steps keep.                                            *)

\* Batching's own operators on lines are those of Lines.
LEMMA EngineLines ==
  /\ \A s : Engine!Range(s) = Range(s) /\ Engine!Last(s) = Last(s) /\ Engine!Front(s) = Front(s)
  /\ \A s, x : Engine!Without(s, x) = Without(s, x)
BY DEF Engine!Range, Engine!Last, Engine!Front, Engine!Without, Engine!RemoveAt, Engine!IndexIn,
       Range, Last, Front, Without, RemoveAt, IndexIn

\* Submit: the request was not there.
LEMMA SubmitRows ==
  ASSUME EngineTypes, Rows, NEW r \in Request, Engine!Submit(r)
  PROVE  /\ EngineTypes' /\ Rows' /\ Range(submitted') = Range(submitted) \cup {r}
         /\ UNCHANGED <<tokens, reason>>
<1>1. /\ r \notin Range(submitted) /\ UNCHANGED <<running, tokens, reason>>
      /\ submitted' = Append(submitted, r) /\ waiting' = Append(waiting, r)
  BY EngineLines DEF Engine!Submit
<1>2. submitted \in Seq(Request) /\ waiting \in Seq(Request) /\ running \in Seq(Request)
  BY DEF EngineTypes
<1>3. r \notin Range(waiting) /\ r \notin Range(running) /\ reason[r] = ""
  BY <1>1 DEF Rows
<1>4. /\ submitted' \in Seq(Request) /\ Range(submitted') = Range(submitted) \cup {r}
      /\ waiting' \in Seq(Request) /\ Range(waiting') = Range(waiting) \cup {r} /\ Once(waiting')
  <2>1. Once(waiting)
    BY DEF Rows
  <2> QED
    BY <2>1, <1>1, <1>2, <1>3, AppendOnce
<1>5. EngineTypes'
  BY <1>1, <1>4 DEF EngineTypes
<1>6. Rows'
  BY <1>1, <1>3, <1>4 DEF Rows, Once
<1> QED
  BY <1>1, <1>4, <1>5, <1>6

\* Admit: the head of the line gets a row.
LEMMA AdmitRows ==
  ASSUME EngineTypes, Rows, Engine!Admit
  PROVE  EngineTypes' /\ Rows' /\ UNCHANGED <<submitted, tokens, reason>>
<1>1. /\ waiting # <<>> /\ UNCHANGED <<submitted, tokens, reason>>
      /\ running' = Append(running, Head(waiting)) /\ waiting' = Tail(waiting)
  BY EngineLines DEF Engine!Admit
<1>2. waiting \in Seq(Request) /\ running \in Seq(Request) /\ Once(waiting) /\ Once(running)
  BY DEF EngineTypes, Rows
<1>3. /\ Tail(waiting) \in Seq(Request) /\ Head(waiting) \in Range(waiting) /\ Head(waiting) \in Request
      /\ Range(Tail(waiting)) = Range(waiting) \ {Head(waiting)} /\ Once(Tail(waiting))
  BY <1>1, <1>2, TailOnce, RangeOfLine
<1>4. Head(waiting) \notin Range(running)
  BY <1>3 DEF Rows
<1>5. /\ running' \in Seq(Request) /\ Range(running') = Range(running) \cup {Head(waiting)}
      /\ Once(running')
  BY <1>1, <1>2, <1>3, <1>4, AppendOnce
<1>6. EngineTypes'
  BY <1>1, <1>3, <1>5 DEF EngineTypes
<1>7. Rows'
  BY <1>1, <1>3, <1>5 DEF Rows, Once
<1> QED
  BY <1>1, <1>6, <1>7

\* Preempt: the last row's request is at the head of the line.
LEMMA PreemptRows ==
  ASSUME EngineTypes, Rows, Engine!Preempt
  PROVE  EngineTypes' /\ Rows' /\ UNCHANGED <<submitted, tokens, reason>>
<1>1. /\ running # <<>> /\ UNCHANGED <<submitted, tokens, reason>>
      /\ waiting' = <<Last(running)>> \o waiting /\ running' = Front(running)
  BY EngineLines DEF Engine!Preempt
<1>2. waiting \in Seq(Request) /\ running \in Seq(Request) /\ Once(waiting) /\ Once(running)
  BY DEF EngineTypes, Rows
<1>3. /\ Front(running) \in Seq(Request) /\ Last(running) \in Range(running) /\ Last(running) \in Request
      /\ Range(Front(running)) = Range(running) \ {Last(running)} /\ Once(Front(running))
  BY <1>1, <1>2, FrontOnce, RangeOfLine
<1>4. Last(running) \notin Range(waiting)
  BY <1>3 DEF Rows
<1>5. /\ waiting' \in Seq(Request) /\ Range(waiting') = Range(waiting) \cup {Last(running)}
      /\ Once(waiting')
  BY <1>1, <1>2, <1>3, <1>4, ConsOnce
<1>6. EngineTypes'
  BY <1>1, <1>3, <1>5 DEF EngineTypes
<1>7. Rows'
  BY <1>1, <1>3, <1>5 DEF Rows, Once
<1> QED
  BY <1>1, <1>6, <1>7

\* Emit: a token for a request with a row, which leaves it with its end.
LEMMA EmitRows ==
  ASSUME EngineTypes, Rows, NEW r \in Request, Engine!Emit(r)
  PROVE  /\ EngineTypes' /\ Rows' /\ UNCHANGED submitted /\ reason[r] = ""
         /\ \E t \in Token : tokens' = [tokens EXCEPT ![r] = Append(tokens[r], t)]
         /\ \E why \in Reasons : reason' = [reason EXCEPT ![r] = why]
<1>1. /\ r \in Range(running) /\ UNCHANGED <<submitted, waiting>>
      /\ running' = IF reason'[r] = "" THEN running ELSE Without(running, r)
  BY EngineLines DEF Engine!Emit
<1>2. PICK t \in Token :
        /\ tokens' = [tokens EXCEPT ![r] = Append(tokens[r], t)]
        /\ reason' = [reason EXCEPT ![r] = Engine!Verdict(r, Append(tokens[r], t))]
  BY EngineLines DEF Engine!Emit
<1>3. PICK why \in Reasons : reason' = [reason EXCEPT ![r] = why]
  BY <1>2 DEF Engine!Verdict, Reasons
<1>4. waiting \in Seq(Request) /\ running \in Seq(Request) /\ Once(waiting) /\ Once(running)
  BY DEF EngineTypes, Rows
<1>5. /\ Without(running, r) \in Seq(Request) /\ Once(Without(running, r))
      /\ Range(Without(running, r)) = Range(running) \ {r}
  BY <1>4, WithoutOnce
<1>6. tokens' \in [Request -> Seq(Token)]
  <2>1. tokens \in [Request -> Seq(Token)]
    BY DEF EngineTypes
  <2>2. Append(tokens[r], t) \in Seq(Token)
    BY <2>1
  <2> QED
    BY <2>1, <2>2, <1>2
<1>7. reason' \in [Request -> Reasons \cup {"cancelled"}] /\ reason'[r] = why
      /\ \A q \in Request : q # r => reason'[q] = reason[q]
  BY <1>3 DEF EngineTypes
<1>8. reason[r] = "" /\ r \in Range(submitted) /\ r \notin Range(waiting)
  BY <1>1 DEF Rows
<1>9. running' \in Seq(Request) /\ Once(running') /\ Range(running') \subseteq Range(running)
      /\ (reason'[r] # "" => r \notin Range(running'))
  BY <1>1, <1>4, <1>5
<1>10. EngineTypes'
  BY <1>1, <1>6, <1>7, <1>9 DEF EngineTypes
<1>11. Rows'
  <2>1. Range(waiting) \subseteq Request /\ Range(running) \subseteq Request
    BY <1>4, RangeOfLine
  <2>2. \A q \in Range(waiting) \cup Range(running') : q \in Range(submitted) /\ reason'[q] = ""
    BY <2>1, <1>7, <1>8, <1>9 DEF Rows
  <2>3. \A q \in Request \ Range(submitted) : reason'[q] = ""
    BY <1>7, <1>8 DEF Rows
  <2>4. Range(waiting) \cap Range(running') = {}
    BY <1>9 DEF Rows
  <2> QED
    BY <2>2, <2>3, <2>4, <1>1, <1>4, <1>9 DEF Rows, Once
<1> QED
  BY <1>1, <1>2, <1>3, <1>8, <1>10, <1>11

\* Cancel: the request is in neither.
LEMMA CancelRows ==
  ASSUME EngineTypes, Rows, NEW r \in Request, Engine!Cancel(r)
  PROVE  /\ EngineTypes' /\ Rows' /\ UNCHANGED <<submitted, tokens>>
         /\ reason' = [reason EXCEPT ![r] = "cancelled"]
<1>1. /\ r \in Range(waiting) \cup Range(running) /\ UNCHANGED <<submitted, tokens>>
      /\ reason' = [reason EXCEPT ![r] = "cancelled"]
      /\ waiting' = Without(waiting, r) /\ running' = Without(running, r)
  BY EngineLines DEF Engine!Cancel
<1>2. waiting \in Seq(Request) /\ running \in Seq(Request) /\ Once(waiting) /\ Once(running)
  BY DEF EngineTypes, Rows
<1>3. /\ waiting' \in Seq(Request) /\ Once(waiting') /\ Range(waiting') = Range(waiting) \ {r}
      /\ running' \in Seq(Request) /\ Once(running') /\ Range(running') = Range(running) \ {r}
  BY <1>1, <1>2, WithoutOnce
<1>4. reason' \in [Request -> Reasons \cup {"cancelled"}]
      /\ \A q \in Request : q # r => reason'[q] = reason[q]
  BY <1>1 DEF EngineTypes
<1>5. EngineTypes'
  BY <1>1, <1>3, <1>4 DEF EngineTypes
<1>6. Rows'
  <2>1. Range(waiting) \subseteq Request /\ Range(running) \subseteq Request /\ r \in Range(submitted)
    BY <1>1, <1>2, RangeOfLine DEF Rows
  <2>2. \A q \in Range(waiting') \cup Range(running') : q \in Range(submitted) /\ reason'[q] = ""
    BY <2>1, <1>3, <1>4 DEF Rows
  <2>3. \A q \in Request \ Range(submitted) : reason'[q] = ""
    BY <2>1, <1>4 DEF Rows
  <2>4. Range(waiting') \cap Range(running') = {}
    BY <1>3 DEF Rows
  <2> QED
    BY <2>2, <2>3, <2>4, <1>1, <1>3 DEF Rows, Once
<1> QED
  BY <1>1, <1>5, <1>6

-----------------------------------------------------------------------------
(* What a step keeps of what was asked and freed.                           *)

\* A message stays in the inbox until it has been given.
Done(m) ==
  \/ m.kind = "submit" /\ m.req \in Range(submitted')
  \/ m.kind = "cancel" /\ reason'[m.req] # ""
Going ==
  /\ Range(submitted) \subseteq Range(submitted')
  /\ \A m \in Range(inbox) : m \in Range(inbox') \/ Done(m)
  /\ \A r \in Request : reason[r] # "" => reason'[r] # ""
  /\ \A r \in Request : ended[r] # "" => ended'[r] # ""

\* A request the engine has, or is to free, stays so.
LEMMA AskedStays ==
  ASSUME Going, NEW r \in Request
  PROVE  (HasAsked(r) => HasAsked(r)') /\ (Freed(r) => Freed(r)')
<1> DEFINE s == Message("submit", r)  c == Message("cancel", r)
<1>1. s.kind = "submit" /\ s.req = r /\ c.kind = "cancel" /\ c.req = r
  BY DEF Message
<1>2. s \in Range(inbox) => s \in Range(inbox') \/ r \in Range(submitted')
  <2>1. s \in Range(inbox) => s \in Range(inbox') \/ Done(s)
    BY DEF Going
  <2> QED
    BY <2>1, <1>1 DEF Done
<1>3. c \in Range(inbox) => c \in Range(inbox') \/ reason'[r] # ""
  <2>1. c \in Range(inbox) => c \in Range(inbox') \/ Done(c)
    BY DEF Going
  <2> QED
    BY <2>1, <1>1 DEF Done
<1>4. HasAsked(r) => HasAsked(r)'
  <2>1. s' = s
    BY DEF Message
  <2> QED
    BY <1>2, <2>1 DEF HasAsked, Going
<1>5. Freed(r) => Freed(r)'
  <2>1. c' = c
    BY DEF Message
  <2> QED
    BY <1>3, <2>1 DEF Freed, Going
<1> QED
  BY <1>4, <1>5

\* A handler that stays where it is still fits there.
LEMMA HandlerStays ==
  ASSUME Going, NEW h \in Handler, HandlerFits(h), hpc'[h] = hpc[h], todo'[h] = todo[h]
  PROVE  HandlerFits(h)'
<1>1. \A r \in Range(ChoicesOf[h]) :
        /\ HasAsked(r) => HasAsked(r)'
        /\ Freed(r) => Freed(r)'
        /\ ended[r] # "" => ended'[r] # ""
  BY AskedStays, HomeOfChoice DEF Going
<1>2. /\ todo'[h] \in Seq(Range(ChoicesOf[h]))
      /\ hpc'[h] \in {"submit", "close"} => todo'[h] # <<>>
  BY DEF HandlerFits
<1>3. ASSUME NEW r \in Range(ChoicesOf[h])
      PROVE  /\ hpc'[h] = "submit" => r \in Range(todo'[h]) \/ HasAsked(r)'
             /\ hpc'[h] \in {"open", "read", "write", "close"} => HasAsked(r)'
             /\ hpc'[h] = "close" => r \in Range(todo'[h]) \/ Freed(r)'
             /\ hpc'[h] = "closed" => Freed(r)'
             /\ hpc'[h] = "answered" => ended'[r] # ""
  <2>1. /\ hpc[h] = "submit" => r \in Range(todo[h]) \/ HasAsked(r)
        /\ hpc[h] \in {"open", "read", "write", "close"} => HasAsked(r)
        /\ hpc[h] = "close" => r \in Range(todo[h]) \/ Freed(r)
        /\ hpc[h] = "closed" => Freed(r)
        /\ hpc[h] = "answered" => ended[r] # ""
    BY DEF HandlerFits
  <2> QED
    BY <1>1, <2>1
<1> QED
  BY <1>2, <1>3 DEF HandlerFits

\* A step of the engine, its thread or a client moves no handler.
LEMMA HandlersStay ==
  ASSUME Going, Handlers, UNCHANGED <<hpc, todo>>
  PROVE  Handlers'
BY HandlerStays DEF Handlers

\* A step of one handler moves no other.
LEMMA HandlersMove ==
  ASSUME Going, Handlers, NEW h \in Handler, HandlerFits(h)',
         \A g \in Handler : g # h => hpc'[g] = hpc[g] /\ todo'[g] = todo[g]
  PROVE  Handlers'
<1>1. ASSUME NEW g \in Handler, g # h
      PROVE  HandlerFits(g)'
  BY <1>1, HandlerStays DEF Handlers
<1> QED
  BY <1>1 DEF Handlers

\* What has ended is still to be freed, if no more has.
LEMMA EndedStays ==
  ASSUME Going, EndedFreed, UNCHANGED ended
  PROVE  EndedFreed'
<1>1. ASSUME NEW r \in Request, ended[r] # ""
      PROVE  Freed(r)'
  BY <1>1, AskedStays DEF EndedFreed
<1> QED
  BY <1>1 DEF EndedFreed

\* What has been told stays true.
LEMMA ToldStays ==
  ASSUME Types, Told, Going, \A h \in Handler : Range(events'[h]) \subseteq Range(events[h])
  PROVE  Told'
<1>1. ASSUME NEW h \in Handler, NEW e \in Range(events'[h]), e.token # Error, e.reason # ""
      PROVE  reason'[e.req] # ""
  <2>1. e \in Range(events[h]) /\ events[h] \in Seq(Event(h))
    BY DEF Types
  <2>2. e \in Event(h)
    BY <2>1, RangeOfLine
  <2>3. e.req \in Request
    BY <2>2, HomeOfChoice DEF Event
  <2>4. reason[e.req] # ""
    BY <1>1, <2>1 DEF Told
  <2> QED
    BY <2>3, <2>4 DEF Going
<1> QED
  BY <1>1 DEF Told

\* The first of a line is its head, and the others its tail.
LEMMA HeadOrTail ==
  ASSUME NEW S, NEW seq \in Seq(S), seq # <<>>
  PROVE  /\ Range(seq) = {Head(seq)} \cup Range(Tail(seq))
         /\ Len(Tail(seq)) = Len(seq) - 1 /\ Head(seq) = seq[1]
         /\ \A i \in 1..Len(Tail(seq)) : Tail(seq)[i] = seq[i + 1]
<1>1. Tail(seq) \in Seq(S) /\ Len(Tail(seq)) = Len(seq) - 1 /\ Head(seq) = seq[1] /\ Len(seq) \in Nat
      /\ Len(seq) >= 1
  OBVIOUS
<1>2. \A i \in 1..Len(Tail(seq)) : Tail(seq)[i] = seq[i + 1]
  OBVIOUS
<1>3. Head(seq) \in Range(seq) /\ Range(Tail(seq)) \subseteq Range(seq)
  BY TailOnce
<1>4. ASSUME NEW x \in Range(seq), x # Head(seq)
      PROVE  x \in Range(Tail(seq))
  <2>1. PICK i \in 1..Len(seq) : seq[i] = x
    BY RangeOfLine
  <2>2. i # 1
    BY <2>1, <1>1, <1>4
  <2>3. i - 1 \in 1..Len(Tail(seq)) /\ (i - 1) + 1 = i
    BY <2>2, <1>1
  <2>4. Tail(seq)[i - 1] = x
    BY <2>1, <2>3, <1>2
  <2> QED
    BY <2>3, <2>4, <1>1, RangeOfLine
<1> QED
  BY <1>1, <1>2, <1>3, <1>4

\* In the inbox nothing comes before its turn: a message more is a submit, or the
\* cancel of a request that was put there before.
LEMMA InTurnMore ==
  ASSUME Types, InTurn, NEW kind \in {"submit", "cancel"}, NEW r \in Request,
         kind = "cancel" => HasAsked(r),
         inbox' = Append(inbox, Message(kind, r)), UNCHANGED submitted
  PROVE  /\ inbox' \in Seq(Inbox) /\ Range(inbox') = Range(inbox) \cup {Message(kind, r)}
         /\ InTurn'
<1> DEFINE m == Message(kind, r)  n == Len(inbox)
<1>1. m \in Inbox /\ m.kind = kind /\ m.req = r
  BY DEF Inbox, Message
<1>2. inbox \in Seq(Inbox)
  BY DEF Types
<1>3. inbox' \in Seq(Inbox) /\ Range(inbox') = Range(inbox) \cup {m}
  BY <1>1, <1>2, AppendOnce
<1> HIDE DEF m
<1>4. n \in Nat /\ Len(inbox') = n + 1 /\ inbox'[n + 1] = m /\ \A i \in 1..n : inbox'[i] = inbox[i]
  BY <1>1, <1>2 DEF m
<1> HIDE DEF n
<1>5. ASSUME NEW i \in 1..Len(inbox'), inbox'[i].kind = "cancel"
      PROVE  \/ inbox'[i].req \in Range(submitted)
             \/ \E j \in 1..(i - 1) : inbox'[j] = Message("submit", inbox'[i].req)
  <2>1. CASE i \in 1..n
    <3>1. \/ inbox[i].req \in Range(submitted)
          \/ \E j \in 1..(i - 1) : inbox[j] = Message("submit", inbox[i].req)
      BY <1>4, <1>5, <2>1 DEF InTurn, n
    <3>2. \A j \in 1..(i - 1) : j \in 1..n
      BY <1>4, <2>1
    <3> QED
      BY <1>4, <2>1, <3>1, <3>2
  <2>2. CASE i = n + 1
    <3>1. HasAsked(r) /\ inbox'[i] = m
      BY <1>1, <1>4, <1>5, <2>2
    <3>2. CASE Message("submit", r) \in Range(inbox)
      <4>1. PICK j \in 1..n : inbox[j] = Message("submit", r)
        BY <1>2, <3>2, RangeOfLine DEF n
      <4>2. j \in 1..(i - 1)
        BY <2>2, <1>4
      <4> QED
        BY <1>1, <1>4, <3>1, <4>1, <4>2
    <3> QED
      BY <3>1, <3>2, <1>1 DEF HasAsked
  <2> QED
    BY <2>1, <2>2, <1>4
<1>6. InTurn'
  BY <1>5 DEF InTurn
<1> QED
  BY <1>3, <1>6 DEF m

\* The first message of the inbox is the submit of a request, or a cancel after it.
LEMMA InTurnLess ==
  ASSUME Types, InTurn, inbox # <<>>, inbox' = Tail(inbox),
         Range(submitted) \subseteq Range(submitted'),
         Head(inbox).kind = "submit" => Head(inbox).req \in Range(submitted')
  PROVE  /\ inbox' \in Seq(Inbox) /\ Head(inbox) \in Inbox
         /\ Head(inbox).kind = "cancel" => Head(inbox).req \in Range(submitted)
         /\ Range(inbox) = {Head(inbox)} \cup Range(inbox')
         /\ InTurn'
<1> DEFINE n == Len(inbox)
<1>1. inbox \in Seq(Inbox)
  BY DEF Types
<1>2. /\ Range(inbox) = {Head(inbox)} \cup Range(inbox')
      /\ Len(inbox') = n - 1 /\ Head(inbox) = inbox[1]
      /\ \A i \in 1..Len(inbox') : inbox'[i] = inbox[i + 1]
  BY <1>1, HeadOrTail
<1>3. inbox' \in Seq(Inbox) /\ Head(inbox) \in Inbox /\ n \in Nat /\ n >= 1
  BY <1>1
<1> HIDE DEF n
<1>4. ASSUME NEW i \in 1..n, inbox[i].kind = "cancel"
      PROVE  \/ inbox[i].req \in Range(submitted)
             \/ \E j \in 1..(i - 1) : inbox[j] = Message("submit", inbox[i].req)
  BY <1>4 DEF InTurn, n
<1>5. Head(inbox).kind = "cancel" => Head(inbox).req \in Range(submitted)
  <2>1. 1 \in 1..n /\ 1..(1 - 1) = {}
    BY <1>3
  <2> QED
    BY <1>2, <1>4, <2>1
<1>6. ASSUME NEW i \in 1..Len(inbox'), inbox'[i].kind = "cancel"
      PROVE  \/ inbox'[i].req \in Range(submitted')
             \/ \E j \in 1..(i - 1) : inbox'[j] = Message("submit", inbox'[i].req)
  <2>1. i + 1 \in 1..n /\ inbox'[i] = inbox[i + 1] /\ (i + 1) - 1 = i
    BY <1>2, <1>3
  <2>2. CASE \E j \in 1..i : inbox[j] = Message("submit", inbox'[i].req)
    <3>1. PICK j \in 1..i : inbox[j] = Message("submit", inbox'[i].req)
      BY <2>2
    <3>2. CASE j = 1
      <4>1. Head(inbox) = Message("submit", inbox'[i].req)
        BY <1>2, <3>1, <3>2
      <4> QED
        BY <4>1 DEF Message
    <3>3. CASE j # 1
      <4>1. j - 1 \in 1..(i - 1) /\ j - 1 \in 1..Len(inbox') /\ (j - 1) + 1 = j
        BY <1>2, <1>3, <3>3
      <4> QED
        BY <1>2, <3>1, <4>1
    <3> QED
      BY <3>2, <3>3
  <2> QED
    BY <1>4, <1>6, <2>1, <2>2
<1>7. InTurn'
  BY <1>6 DEF InTurn
<1> QED
  BY <1>2, <1>3, <1>5, <1>7

-----------------------------------------------------------------------------
(* What each kind of step keeps.                                            *)

EventTypes == events = [h \in Handler |-> events[h]] /\ \A h \in Handler : events[h] \in Seq(Event(h))

\* An event told is the last of its handler's.
LEMMA TellMore ==
  ASSUME EventTypes, NEW r \in Request, NEW e \in Event(HandlerOf(r)), Tell(r, e)
  PROVE  /\ EventTypes'
         /\ Range(events'[HandlerOf(r)]) = Range(events[HandlerOf(r)]) \cup {e}
         /\ \A h \in Handler : h # HandlerOf(r) => events'[h] = events[h]
<1> DEFINE g == HandlerOf(r)
<1>1. g \in Handler
  BY HomeOfChoice
<1> HIDE DEF g
<1>2. events[g] \in Seq(Event(g)) /\ e \in Event(g) /\ DOMAIN events = Handler
  BY <1>1 DEF EventTypes, g
<1>3. Append(events[g], e) \in Seq(Event(g)) /\ Range(Append(events[g], e)) = Range(events[g]) \cup {e}
  BY <1>2, AppendOnce
<1>4. events' = [events EXCEPT ![g] = Append(events[g], e)]
  BY DEF Tell, g
<1>5. /\ events'[g] = Append(events[g], e) /\ \A h \in Handler : h # g => events'[h] = events[h]
      /\ events' = [h \in Handler |-> events'[h]]
  BY <1>1, <1>2, <1>4
<1>6. ASSUME NEW h \in Handler
      PROVE  events'[h] \in Seq(Event(h))
  <2>1. CASE h = g
    BY <2>1, <1>3, <1>5
  <2>2. CASE h # g
    BY <2>2, <1>5 DEF EventTypes
  <2> QED
    BY <2>1, <2>2
<1>7. EventTypes'
  BY <1>5, <1>6 DEF EventTypes, Event
<1> QED
  BY <1>3, <1>5, <1>7 DEF g

\* An event read is the first of its handler's.
LEMMA ReadLess ==
  ASSUME EventTypes, NEW h \in Handler, events[h] # <<>>,
         events' = [events EXCEPT ![h] = Tail(events[h])]
  PROVE  /\ EventTypes' /\ Head(events[h]) \in Event(h) /\ Head(events[h]) \in Range(events[h])
         /\ \A g \in Handler : Range(events'[g]) \subseteq Range(events[g])
<1>1. events[h] \in Seq(Event(h)) /\ DOMAIN events = Handler
  BY DEF EventTypes
<1>2. /\ Tail(events[h]) \in Seq(Event(h)) /\ Range(Tail(events[h])) \subseteq Range(events[h])
      /\ Head(events[h]) \in Range(events[h])
  BY <1>1, TailOnce
<1>3. /\ events'[h] = Tail(events[h]) /\ \A g \in Handler : g # h => events'[g] = events[g]
      /\ events' = [g \in Handler |-> events'[g]]
  BY <1>1
<1>4. ASSUME NEW g \in Handler
      PROVE  events'[g] \in Seq(Event(g)) /\ Range(events'[g]) \subseteq Range(events[g])
  <2>1. CASE g = h
    BY <2>1, <1>2, <1>3
  <2>2. CASE g # h
    BY <2>2, <1>3 DEF EventTypes
  <2> QED
    BY <2>1, <2>2
<1>5. EventTypes'
  BY <1>3, <1>4 DEF EventTypes, Event
<1>6. Head(events[h]) \in Event(h)
  BY <1>1, <1>2, RangeOfLine
<1> QED
  BY <1>2, <1>4, <1>5, <1>6

\* A step of the engine or its thread.
LEMMA EngineKeeps ==
  ASSUME IInv, Going, Types', Rows', Told', InTurn', UNCHANGED <<hpc, todo, textVars>>
  PROVE  IInv'
<1>1. UNCHANGED <<hpc, todo>> /\ UNCHANGED ended /\ UNCHANGED <<written, sent>>
  BY DEF textVars
<1>2. Handlers'
  BY <1>1, HandlersStay DEF IInv
<1>3. EndedFreed'
  BY <1>1, EndedStays DEF IInv
<1>4. Texts'
  BY <1>1 DEF IInv, Texts, TextFits
<1> QED
  BY <1>2, <1>3, <1>4 DEF IInv

\* A step of a handler that leaves the texts alone.
LEMMA MoveKeeps ==
  ASSUME IInv, Going, Types', InTurn', NEW h \in Handler, HandlerFits(h)',
         \A g \in Handler : g # h => hpc'[g] = hpc[g] /\ todo'[g] = todo[g],
         \A g \in Handler : Range(events'[g]) \subseteq Range(events[g]),
         UNCHANGED <<engineVars, textVars>>
  PROVE  IInv'
<1>1. UNCHANGED <<submitted, waiting, running, tokens, reason, written, sent>> /\ UNCHANGED ended
  BY DEF engineVars, textVars
<1>2. Handlers'
  BY HandlersMove DEF IInv
<1>3. EndedFreed'
  BY <1>1, EndedStays DEF IInv
<1>4. Texts'
  BY <1>1 DEF IInv, Texts, TextFits
<1>5. Rows'
  BY <1>1 DEF IInv, Rows
<1>6. Told'
  BY ToldStays DEF IInv
<1> QED
  BY <1>2, <1>3, <1>4, <1>5, <1>6 DEF IInv

\* Nothing is lost when the inbox grows, or nothing happens in it.
LEMMA GoingOn ==
  ASSUME UNCHANGED <<engineVars, ended>>, Range(inbox) \subseteq Range(inbox')
  PROVE  Going
BY DEF Going, engineVars

\* A step of the thread that does nothing in the engine.
LEMMA QuietKeeps ==
  ASSUME IInv, Types', Told', UNCHANGED <<engineVars, inbox, hpc, todo, textVars>>
  PROVE  IInv'
<1>1. /\ UNCHANGED <<engineVars, ended>> /\ UNCHANGED <<hpc, todo, textVars>>
      /\ UNCHANGED <<submitted, waiting, running, tokens, reason, inbox>>
  BY DEF engineVars, textVars
<1>2. Going
  BY <1>1, GoingOn
<1>3. Rows' /\ InTurn'
  BY <1>1 DEF IInv, Rows, InTurn
<1> QED
  BY <1>1, <1>2, <1>3, EngineKeeps

-----------------------------------------------------------------------------
(* The engine and its thread.                                               *)

\* Steps of the thread, and a fault, that touch neither engine nor inbox.
LEMMA ThreadKeeps ==
  ASSUME IInv, RunOn \/ TakeDone \/ StepDone \/ StepFails \/ TellDone \/ Shutdown
  PROVE  IInv'
<1> DEFINE still == UNCHANGED <<engineVars, inbox, hpc, todo, textVars>>
<1> DEFINE others == UNCHANGED <<submitted, waiting, running, tokens, reason, inbox, events, hpc, todo,
                                 got, written, sent, ended>>
<1>1. still /\ others
  BY DEF RunOn, TakeDone, StepDone, StepFails, TellDone, Shutdown,
         engineVars, threadVars, sharedVars, handlerVars, textVars
<1>2. active \in Seq(Request) /\ epc \in {"run", "take", "step", "tell", "over"}
      /\ failed \in BOOLEAN /\ stopping \in BOOLEAN
  BY DEF IInv, Types
<1>3. active' \in Seq(Request)
  <2>1. CASE StepDone
    <3> DEFINE live == {r \in Request : StillActive(r)}
    <3>1. active' = Only(active, live)
      BY <2>1 DEF StepDone
    <3>2. Request \cap live = live /\ live \subseteq Request
      OBVIOUS
    <3> HIDE DEF live
    <3>3. Only(active, live) \in Seq(live)
      BY <1>2, <3>2, OnlyRange
    <3> QED
      BY <3>1, <3>2, <3>3
  <2>2. CASE ~StepDone
    <3>1. active' = active
      BY <2>2 DEF RunOn, TakeDone, StepFails, TellDone, Shutdown, threadVars
    <3> QED
      BY <3>1, <1>2
  <2> QED
    BY <2>1, <2>2
<1>4. epc' \in {"run", "take", "step", "tell", "over"}
  BY <1>2 DEF RunOn, TakeDone, StepDone, StepFails, TellDone, Shutdown, threadVars
<1>5. failed' \in BOOLEAN /\ stopping' \in BOOLEAN
  BY <1>2 DEF RunOn, TakeDone, StepDone, StepFails, TellDone, Shutdown, sharedVars
<1>6. Types'
  <2>1. others /\ Types
    BY <1>1 DEF IInv
  <2>2. EngineTypes'
    BY <2>1 DEF Types, EngineTypes
  <2>3. /\ inbox' \in Seq(Inbox) /\ events' = [h \in Handler |-> events'[h]]
        /\ \A h \in Handler : events'[h] \in Seq(Event(h))
        /\ hpc' \in [Handler -> At] /\ todo' \in [Handler -> Seq(Request)]
        /\ got' \in [Request -> Seq(Token)] /\ ended' \in [Request -> {"", "stop", "length"}]
        /\ written' \in [Request -> Seq(Char)] /\ sent' \in [Request -> Nat]
    BY <2>1 DEF Types
  <2> QED
    BY <1>3, <1>4, <1>5, <2>2, <2>3 DEF Types, Event
<1>7. Told'
  BY <1>1 DEF IInv, Told
<1> QED
  BY <1>1, <1>6, <1>7, QuietKeeps

\* The thread tells the handler of an active request that the engine has failed.
LEMMA TellFailureKeeps ==
  ASSUME IInv, TellFailure
  PROVE  IInv'
<1> DEFINE r == Head(active)
           e == [req |-> r, token |-> Error, reason |-> "failed"]
<1>1. /\ active # <<>> /\ Tell(r, e) /\ active' = Tail(active)
      /\ UNCHANGED <<engineVars, inbox, hpc, todo, textVars>>
      /\ UNCHANGED <<submitted, waiting, running, tokens, reason, inbox, hpc, todo,
                     got, written, sent, ended, epc, failed, stopping>>
  BY DEF TellFailure, engineVars, handlerVars, textVars
<1>2. active \in Seq(Request) /\ EventTypes
  BY DEF IInv, Types, EventTypes
<1>3. r \in Request /\ active' \in Seq(Request)
  BY <1>1, <1>2
<1> HIDE DEF r
<1>4. e \in Event(HandlerOf(r)) /\ e.token = Error
  BY <1>3, HomeOfChoice DEF Event
<1> HIDE DEF e
<1>5. /\ EventTypes' /\ Range(events'[HandlerOf(r)]) = Range(events[HandlerOf(r)]) \cup {e}
      /\ \A h \in Handler : h # HandlerOf(r) => events'[h] = events[h]
  BY <1>1, <1>2, <1>3, <1>4, TellMore
<1>6. Types'
  <2>1. Types
    BY DEF IInv
  <2>2. EngineTypes'
    BY <2>1, <1>1 DEF Types, EngineTypes
  <2>3. /\ inbox' \in Seq(Inbox) /\ failed' \in BOOLEAN /\ stopping' \in BOOLEAN
        /\ epc' \in {"run", "take", "step", "tell", "over"}
        /\ hpc' \in [Handler -> At] /\ todo' \in [Handler -> Seq(Request)]
        /\ got' \in [Request -> Seq(Token)] /\ ended' \in [Request -> {"", "stop", "length"}]
        /\ written' \in [Request -> Seq(Char)] /\ sent' \in [Request -> Nat]
    BY <2>1, <1>1 DEF Types
  <2> QED
    BY <1>3, <1>5, <2>2, <2>3 DEF Types, EventTypes
<1>7. Told'
  <2>1. ASSUME NEW h \in Handler, NEW x \in Range(events'[h]), x.token # Error, x.reason # ""
        PROVE  reason'[x.req] # ""
    <3>1. x \in Range(events[h])
      BY <2>1, <1>4, <1>5
    <3> QED
      BY <3>1, <2>1, <1>1 DEF IInv, Told
  <2> QED
    BY <2>1 DEF Told
<1> QED
  BY <1>1, <1>6, <1>7, QuietKeeps

\* The engine moves a request between its line and its rows.
LEMMA StepRowsKeeps ==
  ASSUME IInv, StepAdmit \/ StepPreempt
  PROVE  IInv'
<1>1. /\ UNCHANGED <<epc, active, inbox, events, failed, stopping>>
      /\ UNCHANGED <<hpc, todo, textVars>> /\ UNCHANGED <<got, written, sent, ended>>
      /\ Engine!Admit \/ Engine!Preempt
  BY DEF StepAdmit, StepPreempt, threadVars, sharedVars, handlerVars, textVars
<1>2. EngineTypes' /\ Rows' /\ UNCHANGED <<submitted, tokens, reason>>
  BY <1>1, AdmitRows, PreemptRows DEF IInv, Types
<1>3. Types'
  BY <1>1, <1>2 DEF IInv, Types, Event
<1>4. Told' /\ InTurn'
  BY <1>1, <1>2 DEF IInv, Told, InTurn
<1>5. Going
  BY <1>1, <1>2 DEF Going
<1> QED
  BY <1>1, <1>2, <1>3, <1>4, <1>5, EngineKeeps

\* The engine reads a token of r, and its handler is told.
LEMMA StepEmitKeeps ==
  ASSUME IInv, NEW r \in Request, StepEmit(r)
  PROVE  IInv'
<1> DEFINE e == TokenOf(r)
<1>1. /\ UNCHANGED <<epc, active, inbox, failed, stopping>>
      /\ UNCHANGED <<hpc, todo, textVars>> /\ UNCHANGED <<got, written, sent, ended>>
      /\ Engine!Emit(r) /\ Tell(r, e)
  BY DEF StepEmit, threadVars, handlerVars, textVars
<1>2. /\ EngineTypes' /\ Rows' /\ UNCHANGED submitted /\ reason[r] = ""
      /\ \E t \in Token : tokens' = [tokens EXCEPT ![r] = Append(tokens[r], t)]
      /\ \E why \in Reasons : reason' = [reason EXCEPT ![r] = why]
  BY <1>1, EmitRows DEF IInv, Types
<1>3. PICK t \in Token : tokens' = [tokens EXCEPT ![r] = Append(tokens[r], t)]
  BY <1>2
<1>4. PICK why \in Reasons : reason' = [reason EXCEPT ![r] = why]
  BY <1>2
<1>5. tokens \in [Request -> Seq(Token)] /\ reason \in [Request -> Reasons \cup {"cancelled"}]
  BY DEF IInv, Types, EngineTypes
<1>6. reason'[r] = why /\ \A q \in Request : q # r => reason'[q] = reason[q]
  BY <1>4, <1>5
<1>7. Last(tokens'[r]) = t
  <2>1. tokens[r] \in Seq(Token) /\ tokens'[r] = Append(tokens[r], t)
    BY <1>3, <1>5
  <2>2. Append(tokens[r], t)[Len(Append(tokens[r], t))] = t
    BY <2>1
  <2> QED
    BY <2>1, <2>2 DEF Last
<1>8. e.req = r /\ e.token = t /\ e.reason = why /\ e \in Event(HandlerOf(r))
  <2>1. e = [req |-> r, token |-> t, reason |-> why]
    BY <1>6, <1>7 DEF TokenOf
  <2> QED
    BY <2>1, HomeOfChoice DEF Event
<1> HIDE DEF e
<1>9. /\ EventTypes' /\ Range(events'[HandlerOf(r)]) = Range(events[HandlerOf(r)]) \cup {e}
      /\ \A h \in Handler : h # HandlerOf(r) => events'[h] = events[h]
  <2>1. EventTypes
    BY DEF IInv, Types, EventTypes
  <2> QED
    BY <2>1, <1>1, <1>8, TellMore
<1>10. Types'
  <2>1. Types
    BY DEF IInv
  <2>2. /\ inbox' \in Seq(Inbox) /\ failed' \in BOOLEAN /\ stopping' \in BOOLEAN
        /\ epc' \in {"run", "take", "step", "tell", "over"} /\ active' \in Seq(Request)
        /\ hpc' \in [Handler -> At] /\ todo' \in [Handler -> Seq(Request)]
        /\ got' \in [Request -> Seq(Token)] /\ ended' \in [Request -> {"", "stop", "length"}]
        /\ written' \in [Request -> Seq(Char)] /\ sent' \in [Request -> Nat]
    BY <2>1, <1>1 DEF Types
  <2> QED
    BY <1>2, <1>9, <2>2 DEF Types, EventTypes
<1>11. Going
  BY <1>1, <1>2, <1>6 DEF Going
<1>12. Told'
  <2>1. ASSUME NEW h \in Handler, NEW x \in Range(events'[h]), x.token # Error, x.reason # ""
        PROVE  reason'[x.req] # ""
    <3>1. CASE x \in Range(events[h])
      <4>1. events[h] \in Seq(Event(h))
        BY DEF IInv, Types
      <4>2. x \in Event(h)
        BY <3>1, <4>1, RangeOfLine
      <4>3. x.req \in Request /\ reason[x.req] # ""
        BY <4>2, <3>1, <2>1, HomeOfChoice DEF Event, IInv, Told
      <4> QED
        BY <4>3, <1>11 DEF Going
    <3>2. CASE x = e
      BY <3>2, <2>1, <1>6, <1>8
    <3> QED
      BY <2>1, <3>1, <3>2, <1>9
  <2> QED
    BY <2>1 DEF Told
<1>13. InTurn'
  BY <1>1, <1>2 DEF IInv, InTurn
<1> QED
  BY <1>1, <1>2, <1>10, <1>11, <1>12, <1>13, EngineKeeps

\* The thread takes a message: a request goes to the line, or out of the engine.
LEMMA TakeMessageKeeps ==
  ASSUME IInv, TakeMessage
  PROVE  IInv'
<1> DEFINE m == Head(inbox)
<1>1. /\ inbox # <<>> /\ inbox' = Tail(inbox)
      /\ UNCHANGED <<epc, events, failed, stopping>>
      /\ UNCHANGED <<hpc, todo, textVars>> /\ UNCHANGED <<got, written, sent, ended>>
      /\ (m.kind = "submit" /\ TakeSubmit(m.req)) \/ (m.kind = "cancel" /\ TakeCancel(m.req))
  BY DEF TakeMessage, handlerVars, textVars
<1>2. m \in Inbox /\ Types /\ EngineTypes /\ Rows /\ InTurn /\ active \in Seq(Request)
  <2>1. Types /\ EngineTypes /\ Rows /\ InTurn /\ active \in Seq(Request) /\ inbox \in Seq(Inbox)
    BY DEF IInv, Types
  <2>2. m \in Inbox
    BY <1>1, <2>1
  <2> QED
    BY <2>1, <2>2
<1>3. m.req \in Request /\ m.kind \in {"submit", "cancel"}
  BY <1>2 DEF Inbox
<1> HIDE DEF m
<1>4. m.kind = "cancel" => m.req \in Range(submitted)
  <2>1. /\ 1 \in 1..Len(inbox) /\ inbox[1] = m /\ 1..(1 - 1) = {}
    <3>1. inbox \in Seq(Inbox)
      BY <1>2 DEF Types
    <3> QED
      BY <3>1, <1>1 DEF m
  <2> QED
    BY <2>1, <1>2 DEF InTurn
<1>5. /\ EngineTypes' /\ Rows' /\ active' \in Seq(Request)
      /\ Range(submitted) \subseteq Range(submitted')
      /\ \A q \in Request : reason[q] # "" => reason'[q] # ""
      /\ Done(m) /\ (m.kind = "submit" => m.req \in Range(submitted'))
  <2>1. CASE m.kind = "submit"
    <3>1. Engine!Submit(m.req) /\ active' = Append(active, m.req)
      BY <1>1, <2>1 DEF TakeSubmit
    <3>2. /\ EngineTypes' /\ Rows' /\ Range(submitted') = Range(submitted) \cup {m.req}
          /\ UNCHANGED <<tokens, reason>>
      BY <3>1, <1>2, <1>3, SubmitRows
    <3>3. active' \in Seq(Request)
      BY <3>1, <1>2, <1>3, AppendOnce
    <3> QED
      BY <3>2, <3>3, <2>1 DEF Done
  <2>2. CASE m.kind = "cancel"
    <3>1. active' = active
      BY <1>1, <2>2 DEF TakeCancel
    <3>2. CASE reason[m.req] = ""
      <4>1. Engine!Cancel(m.req)
        BY <1>1, <1>4, <2>2, <3>2 DEF TakeCancel
      <4>2. /\ EngineTypes' /\ Rows' /\ UNCHANGED <<submitted, tokens>>
            /\ reason' = [reason EXCEPT ![m.req] = "cancelled"]
        BY <4>1, <1>2, <1>3, CancelRows
      <4>3. reason'[m.req] = "cancelled" /\ \A q \in Request : q # m.req => reason'[q] = reason[q]
        BY <4>2, <1>2, <1>3 DEF EngineTypes
      <4> QED
        BY <4>2, <4>3, <3>1, <1>2, <2>2 DEF Done
    <3>3. CASE reason[m.req] # ""
      <4>1. UNCHANGED <<submitted, waiting, running, tokens, reason>>
        BY <1>1, <2>2, <3>3 DEF TakeCancel, engineVars
      <4> QED
        BY <4>1, <3>1, <3>3, <1>2, <2>2 DEF EngineTypes, Rows, Done
    <3> QED
      BY <3>2, <3>3
  <2> QED
    BY <1>3, <2>1, <2>2
<1>6. inbox' \in Seq(Inbox) /\ InTurn' /\ Range(inbox) = {m} \cup Range(inbox')
  BY <1>1, <1>2, <1>5, InTurnLess DEF m
<1>7. Going
  BY <1>1, <1>5, <1>6 DEF Going
<1>8. Types'
  BY <1>1, <1>2, <1>5, <1>6 DEF Types, Event
<1>9. Told'
  <2>1. \A h \in Handler : Range(events'[h]) \subseteq Range(events[h])
    BY <1>1
  <2> QED
    BY <2>1, <1>2, <1>7, ToldStays DEF IInv
<1> QED
  BY <1>1, <1>5, <1>6, <1>7, <1>8, <1>9, EngineKeeps

-----------------------------------------------------------------------------
(* The handlers.                                                            *)

\* A handler that goes to another place keeps the types, and moves no other.
LEMMA MoveTypes ==
  ASSUME Types, NEW h \in Handler, NEW label \in At, GoTo(h, label),
         \/ UNCHANGED todo
         \/ \E new \in Seq(Request) : todo' = [todo EXCEPT ![h] = new],
         inbox' \in Seq(Inbox), EventTypes',
         UNCHANGED <<engineVars, threadVars, failed, stopping, textVars>>
  PROVE  /\ Types' /\ hpc'[h] = label
         /\ \A g \in Handler : g # h => hpc'[g] = hpc[g] /\ todo'[g] = todo[g]
<1>1. hpc \in [Handler -> At] /\ todo \in [Handler -> Seq(Request)]
  BY DEF Types
<1>2. hpc' \in [Handler -> At] /\ hpc'[h] = label /\ \A g \in Handler : g # h => hpc'[g] = hpc[g]
  BY <1>1 DEF GoTo
<1>3. todo' \in [Handler -> Seq(Request)] /\ \A g \in Handler : g # h => todo'[g] = todo[g]
  <2>1. CASE UNCHANGED todo
    BY <2>1, <1>1
  <2>2. CASE \E new \in Seq(Request) : todo' = [todo EXCEPT ![h] = new]
    BY <2>2, <1>1
  <2> QED
    BY <2>1, <2>2
<1>4. UNCHANGED <<submitted, waiting, running, tokens, reason, epc, active, failed, stopping,
                  got, written, sent, ended>>
  BY DEF engineVars, threadVars, textVars
<1>5. EngineTypes'
  BY <1>4 DEF Types, EngineTypes
<1>6. Types'
  BY <1>2, <1>3, <1>4, <1>5 DEF Types, EventTypes
<1> QED
  BY <1>2, <1>3, <1>6

\* A handler goes on, or gives up, without putting or reading anything.
LEMMA WalkKeeps ==
  ASSUME IInv, NEW h \in Handler,
         Refuse(h) \/ Generate(h) \/ Open(h) \/ OpenFails(h) \/ Write(h) \/ Answer(h)
  PROVE  IInv'
<1>1. /\ UNCHANGED <<engineVars, textVars>> /\ UNCHANGED <<engineVars, ended>>
      /\ UNCHANGED <<inbox, events, submitted, reason, ended>>
      /\ UNCHANGED <<engineVars, threadVars, failed, stopping, textVars>>
  BY DEF Refuse, Generate, Open, OpenFails, Write, Answer, sharedVars, engineVars, textVars
<1>2. Types /\ InTurn /\ HandlerFits(h) /\ EventTypes /\ inbox \in Seq(Inbox)
  BY DEF IInv, Handlers, Types, EventTypes
<1>3. inbox' \in Seq(Inbox) /\ InTurn' /\ EventTypes' /\ Range(inbox) \subseteq Range(inbox')
  BY <1>1, <1>2 DEF InTurn, EventTypes, Event
<1>4. Going
  BY <1>1, <1>3, GoingOn
<1>5. /\ ChoicesOf[h] \in Seq(Range(ChoicesOf[h])) /\ ChoicesOf[h] # <<>>
      /\ ChoicesOf[h] \in Seq(Request)
  <2>1. ChoicesOf[h] \in Seq(Range(ChoicesOf[h])) /\ Range(ChoicesOf[h]) \subseteq Request
    BY HomeOfChoice
  <2>2. ChoicesOf[h] # <<>>
    BY ServerAssumption
  <2> QED
    BY <2>1, <2>2
<1>6. \E label \in At \ {"close", "closed", "write"} :
        /\ GoTo(h, label)
        /\ label = "submit" => todo' = [todo EXCEPT ![h] = ChoicesOf[h]]
        /\ label # "submit" => UNCHANGED todo
        /\ label \in {"open", "read"} => hpc[h] \in {"open", "write"}
        /\ label = "answered" => AllEnded(h)
  <2>1. CASE Refuse(h)
    <3>1. GoTo(h, "error") /\ UNCHANGED todo
      BY <2>1 DEF Refuse
    <3> QED
      BY <3>1 DEF At, Over
  <2>2. CASE Generate(h)
    <3>1. GoTo(h, "submit") /\ todo' = [todo EXCEPT ![h] = ChoicesOf[h]]
      BY <2>2 DEF Generate
    <3> QED
      BY <3>1 DEF At, Over
  <2>3. CASE Open(h) \/ Write(h)
    <3>1. GoTo(h, "read") /\ UNCHANGED todo /\ hpc[h] \in {"open", "write"}
      BY <2>3 DEF Open, Write
    <3> QED
      BY <3>1 DEF At, Over
  <2>4. CASE OpenFails(h)
    <3>1. GoTo(h, "unopened") /\ UNCHANGED todo
      BY <2>4 DEF OpenFails
    <3> QED
      BY <3>1 DEF At, Over
  <2>5. CASE Answer(h)
    <3>1. GoTo(h, "answered") /\ UNCHANGED todo /\ AllEnded(h)
      BY <2>5 DEF Answer
    <3> QED
      BY <3>1 DEF At, Over
  <2> QED
    BY <2>1, <2>2, <2>3, <2>4, <2>5
<1>7. PICK label \in At \ {"close", "closed", "write"} :
        /\ GoTo(h, label)
        /\ label = "submit" => todo' = [todo EXCEPT ![h] = ChoicesOf[h]]
        /\ label # "submit" => UNCHANGED todo
        /\ label \in {"open", "read"} => hpc[h] \in {"open", "write"}
        /\ label = "answered" => AllEnded(h)
  BY <1>6
<1>8. UNCHANGED todo \/ \E new \in Seq(Request) : todo' = [todo EXCEPT ![h] = new]
  BY <1>5, <1>7
<1>9. /\ Types' /\ hpc'[h] = label
      /\ \A g \in Handler : g # h => hpc'[g] = hpc[g] /\ todo'[g] = todo[g]
  BY <1>1, <1>2, <1>3, <1>7, <1>8, MoveTypes
<1>10. todo'[h] = IF label = "submit" THEN ChoicesOf[h] ELSE todo[h]
  <2>1. todo \in [Handler -> Seq(Request)]
    BY <1>2 DEF Types
  <2> QED
    BY <2>1, <1>7
<1>11. HandlerFits(h)'
  <2>1. todo'[h] \in Seq(Range(ChoicesOf[h])) /\ (label = "submit" => todo'[h] # <<>>)
    BY <1>2, <1>5, <1>10 DEF HandlerFits
  <2>2. ASSUME NEW r \in Range(ChoicesOf[h])
        PROVE  /\ label = "submit" => r \in Range(todo'[h])
               /\ label \in {"open", "read"} => HasAsked(r)'
               /\ label = "answered" => ended'[r] # ""
    <3>1. HasAsked(r) => HasAsked(r)'
      BY <1>4, AskedStays, HomeOfChoice
    <3>2. label \in {"open", "read"} => HasAsked(r)
      BY <1>2, <1>7 DEF HandlerFits
    <3>3. label = "answered" => ended'[r] # ""
      BY <1>1, <1>7 DEF AllEnded
    <3> QED
      BY <3>1, <3>2, <3>3, <1>10
  <2>3. label \notin {"close", "closed", "write"}
    OBVIOUS
  <2> QED
    BY <2>1, <2>2, <2>3, <1>9 DEF HandlerFits
<1> QED
  BY <1>1, <1>3, <1>4, <1>9, <1>11, MoveKeeps

\* The client left: the choices that have not ended are to be cancelled.
LEMMA WriteFailsKeeps ==
  ASSUME IInv, NEW h \in Handler, WriteFails(h)
  PROVE  IInv'
<1> DEFINE live == {r \in Request : ended[r] = ""}
           left == Only(ChoicesOf[h], live)
           label == IF left = <<>> THEN "closed" ELSE "close"
<1>1. /\ UNCHANGED <<engineVars, textVars>> /\ UNCHANGED <<engineVars, ended>>
      /\ UNCHANGED <<inbox, events, submitted, reason, ended>>
      /\ UNCHANGED <<engineVars, threadVars, failed, stopping, textVars>>
      /\ hpc[h] = "write" /\ todo' = [todo EXCEPT ![h] = left]
  BY DEF WriteFails, sharedVars, engineVars, textVars
<1>2. Types /\ InTurn /\ HandlerFits(h) /\ EventTypes /\ inbox \in Seq(Inbox) /\ EndedFreed
  BY DEF IInv, Handlers, Types, EventTypes
<1>3. inbox' \in Seq(Inbox) /\ InTurn' /\ EventTypes' /\ Range(inbox) \subseteq Range(inbox')
  BY <1>1, <1>2 DEF InTurn, EventTypes, Event
<1>4. Going
  BY <1>1, <1>3, GoingOn
<1>5. left \in Seq(Range(ChoicesOf[h])) /\ left \in Seq(Request)
      /\ \A r \in Range(ChoicesOf[h]) : r \in Range(left) \/ ended[r] # ""
  <2>1. ChoicesOf[h] \in Seq(Range(ChoicesOf[h])) /\ Range(ChoicesOf[h]) \subseteq Request
    BY HomeOfChoice
  <2>2. /\ left \in Seq(Range(ChoicesOf[h]) \cap live)
        /\ Range(left) = Range(ChoicesOf[h]) \cap live
    <3> HIDE DEF live
    <3> QED
      BY <2>1, OnlyRange
  <2>3. \A r \in Range(ChoicesOf[h]) : r \in live \/ ended[r] # ""
    BY <2>1
  <2> HIDE DEF left, live
  <2>4. left \in Seq(Range(ChoicesOf[h]))
    <3>1. Range(ChoicesOf[h]) \cap live \subseteq Range(ChoicesOf[h])
      OBVIOUS
    <3> QED
      BY <3>1, <2>2
  <2>5. left \in Seq(Request)
    BY <2>1, <2>4
  <2> QED
    BY <2>2, <2>3, <2>4, <2>5
<1>6. todo'[h] = left
  <2>1. todo \in [Handler -> Seq(Request)]
    BY <1>2 DEF Types
  <2> QED
    BY <2>1, <1>1
<1>7. GoTo(h, label) /\ label \in At /\ \E new \in Seq(Request) : todo' = [todo EXCEPT ![h] = new]
  <2>1. GoTo(h, IF todo'[h] = <<>> THEN "closed" ELSE "close")
    BY DEF WriteFails
  <2>2. label \in At
    BY DEF At, Over
  <2> QED
    BY <2>1, <2>2, <1>1, <1>5, <1>6
<1>8. /\ Types' /\ hpc'[h] = label
      /\ \A g \in Handler : g # h => hpc'[g] = hpc[g] /\ todo'[g] = todo[g]
  BY <1>1, <1>2, <1>3, <1>7, MoveTypes
<1>9. ASSUME NEW r \in Range(ChoicesOf[h])
      PROVE  HasAsked(r)' /\ (r \in Range(left) \/ Freed(r)')
  <2>1. r \in Request /\ HasAsked(r)
    BY <1>1, <1>2, HomeOfChoice DEF HandlerFits
  <2>2. ended[r] # "" => Freed(r)
    BY <2>1, <1>2 DEF EndedFreed
  <2> QED
    BY <2>1, <2>2, <1>4, <1>5, AskedStays
<1>10. left = <<>> => \A r \in Range(ChoicesOf[h]) : r \notin Range(left)
  <2>1. Range(<<>>) = {}
    BY EmptyLine
  <2> QED
    BY <2>1
<1>11. label \in {"close", "closed"} /\ (label = "close" <=> left # <<>>)
  OBVIOUS
<1> HIDE DEF left, label
<1>12. HandlerFits(h)'
  <2>1. ASSUME NEW r \in Range(ChoicesOf[h])
        PROVE  /\ label = "close" => HasAsked(r)' /\ (r \in Range(todo'[h]) \/ Freed(r)')
               /\ label = "closed" => Freed(r)'
    BY <1>6, <1>9, <1>10, <1>11
  <2> QED
    BY <2>1, <1>5, <1>6, <1>8, <1>11 DEF HandlerFits
<1> QED
  BY <1>1, <1>3, <1>4, <1>8, <1>12, MoveKeeps

\* A handler puts the submit, or the cancel, of the next of what it has to do.
LEMMA PutKeeps ==
  ASSUME IInv, NEW h \in Handler, PutSubmit(h) \/ PutCancel(h)
  PROVE  IInv'
<1> DEFINE r == Head(todo[h])  rest == Tail(todo[h])
<1>1. \E kind \in {"submit", "cancel"}, next \in {"open", "read", "closed"} :
        /\ Put(h, kind, next)
        /\ hpc[h] = (IF kind = "submit" THEN "submit" ELSE "close")
        /\ kind = "submit" <=> next # "closed"
  <2>1. CASE PutSubmit(h)
    <3> DEFINE next == IF h \in Streams THEN "open" ELSE "read"
    <3>1. Put(h, "submit", next) /\ hpc[h] = "submit" /\ next \in {"open", "read"}
      BY <2>1 DEF PutSubmit
    <3> QED
      BY <3>1
  <2>2. CASE PutCancel(h)
    <3>1. Put(h, "cancel", "closed") /\ hpc[h] = "close"
      BY <2>2 DEF PutCancel
    <3> QED
      BY <3>1
  <2> QED
    BY <2>1, <2>2
<1>2. PICK kind \in {"submit", "cancel"}, next \in {"open", "read", "closed"} :
        /\ Put(h, kind, next)
        /\ hpc[h] = (IF kind = "submit" THEN "submit" ELSE "close")
        /\ kind = "submit" <=> next # "closed"
  BY <1>1
<1> DEFINE label == IF rest = <<>> THEN next ELSE hpc[h]
<1>3. /\ inbox' = Append(inbox, Message(kind, r)) /\ todo' = [todo EXCEPT ![h] = rest]
      /\ GoTo(h, label)
      /\ UNCHANGED <<engineVars, threadVars, events, failed, stopping, textVars>>
      /\ UNCHANGED <<engineVars, textVars>> /\ UNCHANGED <<engineVars, ended>>
      /\ UNCHANGED <<submitted, reason>> /\ UNCHANGED events
  BY <1>2 DEF Put, engineVars, textVars
<1>4. Types /\ InTurn /\ HandlerFits(h) /\ EventTypes /\ todo \in [Handler -> Seq(Request)]
  BY DEF IInv, Handlers, Types, EventTypes
<1>5. todo[h] \in Seq(Range(ChoicesOf[h])) /\ todo[h] # <<>>
  BY <1>2, <1>4 DEF HandlerFits
<1>6. /\ r \in Range(ChoicesOf[h]) /\ rest \in Seq(Range(ChoicesOf[h]))
      /\ Range(todo[h]) = {r} \cup Range(rest)
  <2> DEFINE own == Range(ChoicesOf[h])
  <2>1. todo[h] \in Seq(own) /\ todo[h] # <<>>
    BY <1>5
  <2> HIDE DEF own
  <2>2. Range(todo[h]) = {r} \cup Range(rest)
    BY <2>1, HeadOrTail
  <2>3. rest \in Seq(own) /\ Range(todo[h]) \subseteq own
    BY <2>1, TailOnce, RangeOfLine
  <2> QED
    BY <2>2, <2>3 DEF own
<1> HIDE DEF r, rest
<1>7. r \in Request /\ rest \in Seq(Request)
  <2>1. Range(ChoicesOf[h]) \subseteq Request
    BY HomeOfChoice
  <2>2. Seq(Range(ChoicesOf[h])) \subseteq Seq(Request)
    BY <2>1
  <2> QED
    BY <2>1, <2>2, <1>6
<1>8. kind = "cancel" => HasAsked(r)
  BY <1>2, <1>4, <1>6 DEF HandlerFits
<1>9. /\ inbox' \in Seq(Inbox) /\ Range(inbox') = Range(inbox) \cup {Message(kind, r)}
      /\ InTurn'
  BY <1>3, <1>4, <1>7, <1>8, InTurnMore
<1>10. Going
  BY <1>3, <1>9, GoingOn
<1>11. label \in At
  BY <1>2, <1>4 DEF At, Over
<1>12. EventTypes'
  BY <1>3, <1>4 DEF EventTypes, Event
<1>13. /\ Types' /\ hpc'[h] = label
       /\ \A g \in Handler : g # h => hpc'[g] = hpc[g] /\ todo'[g] = todo[g]
  <2>1. \E new \in Seq(Request) : todo' = [todo EXCEPT ![h] = new]
    BY <1>3, <1>7
  <2> QED
    BY <2>1, <1>3, <1>4, <1>9, <1>11, <1>12, MoveTypes
<1>14. todo'[h] = rest
  BY <1>3, <1>4
<1>15. ASSUME NEW q \in Range(ChoicesOf[h])
       PROVE  /\ kind = "submit" => q \in Range(rest) \/ HasAsked(q)'
              /\ kind = "cancel" => HasAsked(q)' /\ (q \in Range(rest) \/ Freed(q)')
  <2>1. q \in Request /\ (HasAsked(q) => HasAsked(q)') /\ (Freed(q) => Freed(q)')
    BY <1>10, AskedStays, HomeOfChoice
  <2>2. /\ kind = "submit" => q \in Range(todo[h]) \/ HasAsked(q)
        /\ kind = "cancel" => HasAsked(q) /\ (q \in Range(todo[h]) \/ Freed(q))
    BY <1>2, <1>4 DEF HandlerFits
  <2>3. /\ kind = "submit" /\ q = r => HasAsked(q)'
        /\ kind = "cancel" /\ q = r => Freed(q)'
    BY <1>9 DEF HasAsked, Freed, Message
  <2> QED
    BY <2>1, <2>2, <2>3, <1>6
<1>16. rest = <<>> => \A q \in Range(ChoicesOf[h]) : q \notin Range(rest)
  <2>1. Range(<<>>) = {}
    BY EmptyLine
  <2> QED
    BY <2>1
<1>17. /\ label \in {"submit", "open", "read", "close", "closed"}
       /\ label \in {"submit", "close"} => rest # <<>>
       /\ label = "submit" => kind = "submit"
       /\ label \in {"open", "read"} => kind = "submit" /\ rest = <<>>
       /\ label = "close" => kind = "cancel"
       /\ label = "closed" => kind = "cancel" /\ rest = <<>>
  BY <1>2
<1> HIDE DEF label
<1>18. HandlerFits(h)'
  <2>1. ASSUME NEW q \in Range(ChoicesOf[h])
        PROVE  /\ label = "submit" => q \in Range(todo'[h]) \/ HasAsked(q)'
               /\ label \in {"open", "read", "close"} => HasAsked(q)'
               /\ label = "close" => q \in Range(todo'[h]) \/ Freed(q)'
               /\ label = "closed" => Freed(q)'
    BY <1>14, <1>15, <1>16, <1>17
  <2> QED
    BY <2>1, <1>6, <1>13, <1>14, <1>17 DEF HandlerFits
<1>19. \A g \in Handler : Range(events'[g]) \subseteq Range(events[g])
  BY <1>3
<1> QED
  BY <1>3, <1>9, <1>10, <1>13, <1>18, <1>19, MoveKeeps

\* A handler reads that the engine has failed, or a token of a choice that has ended.
LEMMA ReadPastKeeps ==
  ASSUME IInv, NEW h \in Handler, ReadFailure(h) \/ ReadLate(h)
  PROVE  IInv'
<1>1. /\ UNCHANGED <<engineVars, textVars>> /\ UNCHANGED <<engineVars, ended>>
      /\ UNCHANGED <<inbox, submitted, todo>>
      /\ UNCHANGED <<engineVars, threadVars, failed, stopping, textVars>>
      /\ hpc[h] = "read" /\ events[h] # <<>> /\ events' = [events EXCEPT ![h] = Tail(events[h])]
      /\ GoTo(h, "error") \/ UNCHANGED hpc
  BY DEF ReadFailure, ReadLate, handlerVars, engineVars, textVars
<1>2. Types /\ InTurn /\ HandlerFits(h) /\ EventTypes /\ inbox \in Seq(Inbox)
  BY DEF IInv, Handlers, Types, EventTypes
<1>3. EventTypes' /\ \A g \in Handler : Range(events'[g]) \subseteq Range(events[g])
  BY <1>1, <1>2, ReadLess
<1>4. inbox' \in Seq(Inbox) /\ InTurn' /\ Range(inbox) \subseteq Range(inbox')
  BY <1>1, <1>2 DEF InTurn
<1>5. Going
  BY <1>1, <1>4, GoingOn
<1>6. \E label \in {"error", "read"} : GoTo(h, label)
  <2>1. UNCHANGED hpc => GoTo(h, hpc[h])
    <3>1. hpc \in [Handler -> At]
      BY <1>2 DEF Types
    <3> QED
      BY <3>1 DEF GoTo
  <2> QED
    BY <2>1, <1>1
<1>7. PICK label \in {"error", "read"} : GoTo(h, label)
  BY <1>6
<1>8. label \in At
  BY DEF At, Over
<1>9. /\ Types' /\ hpc'[h] = label
      /\ \A g \in Handler : g # h => hpc'[g] = hpc[g] /\ todo'[g] = todo[g]
  BY <1>1, <1>2, <1>3, <1>4, <1>7, <1>8, MoveTypes
<1>10. HandlerFits(h)'
  <2>1. todo'[h] \in Seq(Range(ChoicesOf[h]))
    BY <1>1, <1>2 DEF HandlerFits
  <2>2. ASSUME NEW r \in Range(ChoicesOf[h])
        PROVE  HasAsked(r)'
    <3>1. HasAsked(r)
      BY <1>1, <1>2 DEF HandlerFits
    <3> QED
      BY <3>1, <1>5, AskedStays, HomeOfChoice
  <2> QED
    BY <2>1, <2>2, <1>9 DEF HandlerFits
<1> QED
  BY <1>1, <1>3, <1>4, <1>5, <1>9, <1>10, MoveKeeps

\* The start of a text is in every text it starts, and in what is left of that up
\* to a place past it.
LEMMA StartStays ==
  ASSUME NEW old \in Seq(Char), NEW more \in Seq(Char), NEW given \in 0..Len(old),
         NEW cut \in given..Len(old \o more)
  PROVE  /\ SubSeq(old \o more, 1, cut) \in Seq(Char) /\ Len(SubSeq(old \o more, 1, cut)) = cut
         /\ SubSeq(old \o more, 1, given) = SubSeq(old, 1, given)
         /\ SubSeq(SubSeq(old \o more, 1, cut), 1, given) = SubSeq(old, 1, given)
<1> DEFINE text == old \o more  kept == SubSeq(text, 1, cut)
<1>1. /\ text \in Seq(Char) /\ Len(old) \in Nat /\ Len(text) \in Nat /\ Len(old) <= Len(text)
      /\ \A i \in 1..Len(old) : text[i] = old[i]
  OBVIOUS
<1>2. given \in Nat /\ cut \in Nat /\ given <= Len(old) /\ given <= cut /\ cut <= Len(text)
  BY <1>1
<1> HIDE DEF text
<1>3. kept \in Seq(Char) /\ Len(kept) = cut /\ \A i \in 1..cut : kept[i] = text[i]
  BY <1>1, <1>2
<1> HIDE DEF kept
<1>4. ASSUME NEW s \in Seq(Char), given <= Len(s)
      PROVE  /\ SubSeq(s, 1, given) \in Seq(Char) /\ Len(SubSeq(s, 1, given)) = given
             /\ \A i \in 1..given : SubSeq(s, 1, given)[i] = s[i]
  BY <1>2, <1>4
<1>5. \A i \in 1..given : text[i] = old[i] /\ kept[i] = old[i]
  BY <1>1, <1>2, <1>3
<1>6. ASSUME NEW s \in Seq(Char), given <= Len(s), \A i \in 1..given : s[i] = old[i]
      PROVE  SubSeq(s, 1, given) = SubSeq(old, 1, given)
  <2> DEFINE a == SubSeq(s, 1, given)  b == SubSeq(old, 1, given)
  <2>1. a \in Seq(Char) /\ Len(a) = given /\ \A i \in 1..given : a[i] = s[i]
    BY <1>4, <1>6
  <2>2. b \in Seq(Char) /\ Len(b) = given /\ \A i \in 1..given : b[i] = old[i]
    BY <1>4, <1>2
  <2> HIDE DEF a, b
  <2>3. a = b
    BY <2>1, <2>2, <1>6, SeqEqual
  <2> QED
    BY <2>3 DEF a, b
<1>7. SubSeq(text, 1, given) = SubSeq(old, 1, given)
  BY <1>1, <1>2, <1>5, <1>6
<1>8. SubSeq(kept, 1, given) = SubSeq(old, 1, given)
  BY <1>2, <1>3, <1>5, <1>6
<1> QED
  BY <1>3, <1>7, <1>8 DEF text, kept

\* How much is sent: what was, or up to what is held back, unless the text has ended.
LEMMA SentUpTo ==
  ASSUME NEW s \in Nat, NEW H \in Nat, NEW L \in Nat, NEW O \in Nat, s <= O, O <= L,
         s = 0 \/ s + H <= O, NEW over \in BOOLEAN
  PROVE  LET end == IF over THEN L ELSE L - H
             n   == IF end >= s THEN end ELSE s
         IN  /\ Max({end, s}) = n /\ n \in Nat /\ n >= s /\ n <= L
             /\ ~over => n = 0 \/ n + H <= L
<1> DEFINE end == IF over THEN L ELSE L - H
           n   == IF end >= s THEN end ELSE s
<1>1. end \in Int /\ s \in Int
  <2>1. L \in Int /\ L - H \in Int /\ s \in Int
    OBVIOUS
  <2> QED
    BY <2>1
<1>2. n \in Nat /\ n >= s /\ n <= L /\ (~over => n = 0 \/ n + H <= L)
  <2>1. CASE over
    BY <2>1
  <2>2. CASE ~over
    BY <2>2
  <2> QED
    BY <2>1, <2>2
<1> HIDE DEF end
<1>3. Max({end, s}) = n
  BY <1>1, MaxOfTwo
<1> QED
  BY <1>2, <1>3 DEF end

\* What a token read does to the text of its choice: nothing that was sent changes,
\* and what is sent stops short of the first stop string there could be.
LEMMA TokenRead ==
  ASSUME Types, Told, Texts, NEW h \in Handler, ReadToken(h), NEW r, r = Head(events[h]).req
  PROVE  /\ r \in Range(ChoicesOf[h]) /\ Head(events[h]).token \in Token /\ ended[r] = ""
         /\ \E w \in Seq(Char) : written' = [written EXCEPT ![r] = w]
         /\ \E n \in Nat : sent' = [sent EXCEPT ![r] = n]
         /\ \E why \in {"", "stop", "length"} : ended' = [ended EXCEPT ![r] = why]
         /\ TextFits(r)'
         /\ sent'[r] >= sent[r]
         /\ SubSeq(written'[r], 1, sent[r]) = SubSeq(written[r], 1, sent[r])
         /\ inbox' = inbox \/ inbox' = Append(inbox, Message("cancel", r))
         /\ ended'[r] # "" => reason[r] # "" \/ inbox' = Append(inbox, Message("cancel", r))
<1> DEFINE event == Head(events[h])
           old   == written[r]
           more  == IF event.reason = "eos" THEN <<>> ELSE TextOf[event.token]
           text  == IF event.reason = "eos" THEN written[r] ELSE written[r] \o TextOf[event.token]
           cuts  == Found(text, Stop[h], Max({0, sent[r] - Hold(h)}))
           end   == IF ended'[r] # "" THEN Len(written'[r]) ELSE Len(text) - Hold(h)
<1>1. /\ event.token # Error /\ ended[r] = "" /\ events[h] # <<>>
      /\ \/ /\ cuts # {}
            /\ written' = [written EXCEPT ![r] = SubSeq(text, 1, Min(cuts))]
            /\ ended' = [ended EXCEPT ![r] = "stop"]
            /\ inbox' = Append(inbox, Message("cancel", r))
         \/ /\ cuts = {}
            /\ written' = [written EXCEPT ![r] = text]
            /\ ended' = IF event.reason = "" THEN ended
                        ELSE [ended EXCEPT ![r] = Finish(event.reason)]
            /\ inbox' = inbox
      /\ sent' = [sent EXCEPT ![r] = Max({end, sent[r]})]
  BY DEF ReadToken, CancelCut, Sendable
<1>2. event \in Event(h) /\ event \in Range(events[h])
  <2>1. events[h] \in Seq(Event(h)) /\ events[h] # <<>>
    BY <1>1 DEF Types
  <2> QED
    BY <2>1, TailOnce, RangeOfLine
<1> HIDE DEF event
<1>3. r = event.req /\ r \in Range(ChoicesOf[h]) /\ event.token \in Token /\ event.reason \in Reasons \cup {"failed"}
  BY <1>1, <1>2 DEF Event, event
<1>4. r \in Request /\ HandlerOf(r) = h
  BY <1>3, HomeOfChoice
<1>5. /\ written \in [Request -> Seq(Char)] /\ sent \in [Request -> Nat]
      /\ ended \in [Request -> {"", "stop", "length"}]
  BY DEF Types
<1>6. old \in Seq(Char) /\ sent[r] \in Nat /\ Len(old) \in Nat
  <2>1. old \in Seq(Char) /\ sent[r] \in Nat
    BY <1>4, <1>5
  <2> HIDE DEF old
  <2> QED
    BY <2>1
<1>7. more \in Seq(Char)
  BY <1>3, ServerAssumption
<1>8. text = old \o more
  <2>1. CASE event.reason = "eos"
    <3>1. old \o <<>> = old
      BY <1>6
    <3> QED
      BY <2>1, <3>1
  <2>2. CASE event.reason # "eos"
    BY <2>2
  <2> QED
    BY <2>1, <2>2
<1>9. /\ sent[r] <= Len(old) /\ Found(old, Stop[h], 0) = {}
      /\ sent[r] = 0 \/ sent[r] + Hold(h) <= Len(old)
  BY <1>1, <1>4 DEF Texts, TextFits
<1>10. Hold(h) \in Nat
  BY HoldShort
<1> HIDE DEF old, more, text
<1>11. /\ text \in Seq(Char) /\ Len(old) <= Len(text)
       /\ cuts \subseteq 0..Len(text) /\ \A i \in cuts : sent[r] <= i
       /\ cuts = {} => Found(text, Stop[h], 0) = {}
  <2>1. /\ text \in Seq(Char) /\ Len(old) <= Len(text)
        /\ cuts \subseteq 0..Len(text) /\ \A i \in cuts : sent[r] <= i
        /\ cuts = Found(text, Stop[h], 0)
    BY <1>6, <1>7, <1>8, <1>9, FoundPastSent
  <2> HIDE DEF cuts
  <2> QED
    BY <2>1
<1>12. Len(text) \in Nat
  BY <1>11
<1> HIDE DEF cuts, end
<1> DEFINE Goal ==
             /\ \E w \in Seq(Char) : written' = [written EXCEPT ![r] = w]
             /\ \E n \in Nat : sent' = [sent EXCEPT ![r] = n]
             /\ \E why \in {"", "stop", "length"} : ended' = [ended EXCEPT ![r] = why]
             /\ TextFits(r)'
             /\ sent'[r] >= sent[r]
             /\ SubSeq(written'[r], 1, sent[r]) = SubSeq(written[r], 1, sent[r])
             /\ inbox' = inbox \/ inbox' = Append(inbox, Message("cancel", r))
             /\ ended'[r] # "" => reason[r] # "" \/ inbox' = Append(inbox, Message("cancel", r))
<1>13. SUFFICES Goal
  BY <1>1, <1>3 DEF event
<1>14. CASE cuts # {}
  <2> DEFINE cut == Min(cuts)
  <2>1. cut \in cuts
    <3>1. cuts \in SUBSET Nat
      BY <1>11, <1>12
    <3> QED
      BY <3>1, <1>14, MinIsLeast
  <2> HIDE DEF cut
  <2>2. cut \in 0..Len(text) /\ sent[r] <= cut
    BY <2>1, <1>11
  <2>3. cut \in sent[r]..Len(old \o more) /\ sent[r] \in 0..Len(old)
    BY <2>2, <1>6, <1>8, <1>9, <1>12
  <2> DEFINE w == SubSeq(text, 1, cut)
  <2>4. w \in Seq(Char) /\ Len(w) = cut /\ SubSeq(w, 1, sent[r]) = SubSeq(old, 1, sent[r])
    BY <2>3, <1>6, <1>7, <1>8, StartStays
  <2>5. /\ written' = [written EXCEPT ![r] = w] /\ ended' = [ended EXCEPT ![r] = "stop"]
        /\ inbox' = Append(inbox, Message("cancel", r))
    BY <1>1, <1>14 DEF cut
  <2> HIDE DEF w
  <2>6. written'[r] = w /\ ended'[r] = "stop"
    BY <2>5, <1>4, <1>5
  <2>7. end = cut
    BY <2>4, <2>6 DEF end
  <2>8. Max({end, sent[r]}) = cut
    <3>1. cut \in Int /\ sent[r] \in Int /\ cut >= sent[r]
      BY <2>2, <1>6, <1>12
    <3> QED
      BY <3>1, <2>7, MaxOfTwo
  <2>9. sent' = [sent EXCEPT ![r] = cut] /\ sent'[r] = cut
    BY <2>8, <1>1, <1>4, <1>5
  <2>10. TextFits(r)'
    <3>1. sent'[r] <= Len(written'[r])
      BY <2>2, <2>4, <2>6, <2>9
    <3>2. ended'[r] # ""
      BY <2>6
    <3> QED
      BY <3>1, <3>2 DEF TextFits
  <2>11. cut \in Nat /\ sent'[r] >= sent[r]
    BY <2>2, <2>9, <1>6
  <2>12. SubSeq(written'[r], 1, sent[r]) = SubSeq(written[r], 1, sent[r])
    BY <2>4, <2>6 DEF old
  <2>13. (\E x \in Seq(Char) : written' = [written EXCEPT ![r] = x])
         /\ (\E n \in Nat : sent' = [sent EXCEPT ![r] = n])
         /\ (\E why \in {"", "stop", "length"} : ended' = [ended EXCEPT ![r] = why])
    BY <2>4, <2>5, <2>9, <2>11
  <2> QED
    BY <2>5, <2>10, <2>11, <2>12, <2>13
<1>15. CASE cuts = {}
  <2>1. /\ written' = [written EXCEPT ![r] = text] /\ inbox' = inbox
        /\ ended' = IF event.reason = "" THEN ended ELSE [ended EXCEPT ![r] = Finish(event.reason)]
    BY <1>1, <1>15
  <2>2. written'[r] = text
    BY <2>1, <1>4, <1>5
  <2>3. SubSeq(text, 1, sent[r]) = SubSeq(old, 1, sent[r])
    <3>1. sent[r] \in 0..Len(old) /\ Len(text) \in sent[r]..Len(old \o more)
      BY <1>6, <1>8, <1>9, <1>11, <1>12
    <3> QED
      BY <3>1, <1>6, <1>7, <1>8, StartStays
  <2>4. Finish(event.reason) \in {"stop", "length"}
    BY DEF Finish
  <2>5. \E why \in {"", "stop", "length"} :
          ended' = [ended EXCEPT ![r] = why] /\ (why = "" <=> event.reason = "")
    <3>1. CASE event.reason = ""
      <4>1. ended' = [ended EXCEPT ![r] = ""]
        BY <2>1, <3>1, <1>1, <1>4, <1>5
      <4> QED
        BY <4>1, <3>1
    <3>2. CASE event.reason # ""
      BY <2>1, <2>4, <3>2
    <3> QED
      BY <3>1, <3>2
  <2>6. PICK why \in {"", "stop", "length"} :
          ended' = [ended EXCEPT ![r] = why] /\ (why = "" <=> event.reason = "")
    BY <2>5
  <2>7. ended'[r] = why
    BY <2>6, <1>4, <1>5
  <2>8. end = IF why = "" THEN Len(text) - Hold(h) ELSE Len(text)
    BY <2>2, <2>7 DEF end
  <2> DEFINE upTo == IF why # "" THEN Len(text) ELSE Len(text) - Hold(h)
             total == IF upTo >= sent[r] THEN upTo ELSE sent[r]
  <2>9. /\ Max({upTo, sent[r]}) = total /\ total \in Nat /\ total >= sent[r] /\ total <= Len(text)
        /\ why = "" => total = 0 \/ total + Hold(h) <= Len(text)
    <3>1. (why # "") \in BOOLEAN
      OBVIOUS
    <3> QED
      BY <3>1, <1>6, <1>9, <1>10, <1>11, <1>12, SentUpTo
  <2> HIDE DEF upTo
  <2>10. end = upTo
    BY <2>8 DEF upTo
  <2>11. Max({end, sent[r]}) = total /\ sent' = [sent EXCEPT ![r] = total] /\ sent'[r] = total
    <3>1. Max({end, sent[r]}) = total
      BY <2>9, <2>10
    <3> HIDE DEF total
    <3>2. sent' = [sent EXCEPT ![r] = total]
      BY <3>1, <1>1
    <3> QED
      BY <3>1, <3>2, <1>4, <1>5
  <2> HIDE DEF total
  <2>12. TextFits(r)'
    <3>1. ended'[r] = "" => Found(written'[r], Stop[HandlerOf(r)], 0) = {}
      BY <1>4, <1>11, <1>15, <2>2
    <3>2. ended'[r] = "" => sent'[r] = 0 \/ sent'[r] + Hold(HandlerOf(r)) <= Len(written'[r])
      BY <1>4, <2>2, <2>7, <2>9, <2>11
    <3>3. sent'[r] <= Len(written'[r])
      BY <2>2, <2>9, <2>11
    <3> QED
      BY <3>1, <3>2, <3>3 DEF TextFits, Found, Hold
  <2>13. ended'[r] # "" => reason[r] # ""
    <3>1. event.reason # "" => reason[r] # ""
      BY <1>1, <1>2, <1>3 DEF Told
    <3> QED
      BY <3>1, <2>6, <2>7
  <2>15. (\E x \in Seq(Char) : written' = [written EXCEPT ![r] = x])
         /\ (\E n \in Nat : sent' = [sent EXCEPT ![r] = n])
         /\ (\E x \in {"", "stop", "length"} : ended' = [ended EXCEPT ![r] = x])
    BY <2>1, <2>6, <2>9, <2>11, <1>11
  <2>16. SubSeq(written'[r], 1, sent[r]) = SubSeq(written[r], 1, sent[r])
    BY <2>2, <2>3 DEF old
  <2> QED
    BY <2>1, <2>9, <2>11, <2>12, <2>13, <2>15, <2>16
<1> QED
  BY <1>14, <1>15

\* A handler reads a token of a choice that goes on.
LEMMA ReadTokenKeeps ==
  ASSUME IInv, NEW h \in Handler, ReadToken(h)
  PROVE  IInv'
<1> DEFINE r == Head(events[h]).req
<1>1. /\ hpc[h] = "read" /\ events[h] # <<>> /\ events' = [events EXCEPT ![h] = Tail(events[h])]
      /\ UNCHANGED <<submitted, waiting, running, tokens, reason, epc, active, failed, stopping, todo>>
      /\ got' = [got EXCEPT ![r] = Append(got[r], Head(events[h]).token)]
      /\ GoTo(h, "write") \/ UNCHANGED hpc
  BY DEF ReadToken, engineVars, threadVars
<1>2. /\ Types /\ Rows /\ Told /\ InTurn /\ HandlerFits(h) /\ EndedFreed /\ Texts /\ Handlers
      /\ EventTypes /\ inbox \in Seq(Inbox)
  BY DEF IInv, Handlers, Types, EventTypes
<1>3. PICK q \in Range(ChoicesOf[h]) : q = r
  BY <1>2, TokenRead
<1>4. /\ Head(events[h]).token \in Token /\ ended[q] = ""
      /\ \E w \in Seq(Char) : written' = [written EXCEPT ![q] = w]
      /\ \E n \in Nat : sent' = [sent EXCEPT ![q] = n]
      /\ \E why \in {"", "stop", "length"} : ended' = [ended EXCEPT ![q] = why]
      /\ TextFits(q)'
      /\ inbox' = inbox \/ inbox' = Append(inbox, Message("cancel", q))
      /\ ended'[q] # "" => reason[q] # "" \/ inbox' = Append(inbox, Message("cancel", q))
  BY <1>2, <1>3, TokenRead
<1>5. q \in Request
  BY HomeOfChoice
<1>6. got' = [got EXCEPT ![q] = Append(got[q], Head(events[h]).token)]
  BY <1>1, <1>3
<1> HIDE DEF r
<1>7. EventTypes' /\ \A g \in Handler : Range(events'[g]) \subseteq Range(events[g])
  BY <1>1, <1>2, ReadLess
<1>8. /\ inbox' \in Seq(Inbox) /\ InTurn' /\ Range(inbox) \subseteq Range(inbox')
      /\ inbox' = Append(inbox, Message("cancel", q)) => Message("cancel", q) \in Range(inbox')
  <2>1. CASE inbox' = inbox
    <3>1. InTurn'
      BY <2>1, <1>1, <1>2 DEF InTurn
    <3>2. inbox' # Append(inbox, Message("cancel", q))
      <4>1. Len(Append(inbox, Message("cancel", q))) = Len(inbox) + 1 /\ Len(inbox) \in Nat
        BY <1>2
      <4> QED
        BY <2>1, <4>1
    <3> QED
      BY <2>1, <3>1, <3>2, <1>2
  <2>2. CASE inbox' = Append(inbox, Message("cancel", q))
    <3>1. HasAsked(q)
      BY <1>1, <1>2 DEF HandlerFits
    <3>2. /\ inbox' \in Seq(Inbox) /\ Range(inbox') = Range(inbox) \cup {Message("cancel", q)}
          /\ InTurn'
      BY <2>2, <3>1, <1>1, <1>2, <1>5, InTurnMore
    <3> QED
      BY <3>2
  <2> QED
    BY <2>1, <2>2, <1>4
<1>9. /\ written \in [Request -> Seq(Char)] /\ sent \in [Request -> Nat]
      /\ ended \in [Request -> {"", "stop", "length"}] /\ got \in [Request -> Seq(Token)]
  BY <1>2 DEF Types
<1>10. /\ written' \in [Request -> Seq(Char)] /\ sent' \in [Request -> Nat]
       /\ ended' \in [Request -> {"", "stop", "length"}]
       /\ \A p \in Request : p # q => /\ written'[p] = written[p] /\ sent'[p] = sent[p]
                                      /\ ended'[p] = ended[p]
  <2>1. PICK w \in Seq(Char) : written' = [written EXCEPT ![q] = w]
    BY <1>4
  <2>2. PICK n \in Nat : sent' = [sent EXCEPT ![q] = n]
    BY <1>4
  <2>3. PICK why \in {"", "stop", "length"} : ended' = [ended EXCEPT ![q] = why]
    BY <1>4
  <2>4. written' \in [Request -> Seq(Char)] /\ \A p \in Request : p # q => written'[p] = written[p]
    BY <2>1, <1>9
  <2>5. sent' \in [Request -> Nat] /\ \A p \in Request : p # q => sent'[p] = sent[p]
    BY <2>2, <1>9
  <2>6. ended' \in [Request -> {"", "stop", "length"}]
        /\ \A p \in Request : p # q => ended'[p] = ended[p]
    BY <2>3, <1>9
  <2> QED
    BY <2>4, <2>5, <2>6
<1>11. got' \in [Request -> Seq(Token)]
  <2>1. Append(got[q], Head(events[h]).token) \in Seq(Token)
    <3>1. got[q] \in Seq(Token)
      BY <1>5, <1>9
    <3>2. \A s \in Seq(Token), x \in Token : Append(s, x) \in Seq(Token)
      OBVIOUS
    <3> QED
      BY <3>1, <3>2, <1>4, Zenon
  <2> QED
    BY <2>1, <1>6, <1>9
<1>12. Going
  <2>1. \A p \in Request : ended[p] # "" => ended'[p] # ""
    BY <1>4, <1>10
  <2> QED
    BY <2>1, <1>1, <1>8 DEF Going
<1>13. \E label \in {"write", "read"} : GoTo(h, label)
  <2>1. UNCHANGED hpc => GoTo(h, hpc[h])
    <3>1. hpc \in [Handler -> At]
      BY <1>2 DEF Types
    <3> QED
      BY <3>1 DEF GoTo
  <2> QED
    BY <2>1, <1>1
<1>14. PICK label \in {"write", "read"} : GoTo(h, label)
  BY <1>13
<1>15. /\ hpc' \in [Handler -> At] /\ hpc'[h] = label
       /\ \A g \in Handler : g # h => hpc'[g] = hpc[g] /\ todo'[g] = todo[g]
  <2>1. hpc \in [Handler -> At] /\ label \in At
    BY <1>2 DEF Types, At
  <2> QED
    BY <2>1, <1>1, <1>14 DEF GoTo
<1>16. Types'
  <2>1. EngineTypes'
    BY <1>1, <1>2 DEF Types, EngineTypes
  <2>2. /\ active' \in Seq(Request) /\ epc' \in {"run", "take", "step", "tell", "over"}
        /\ failed' \in BOOLEAN /\ stopping' \in BOOLEAN /\ todo' \in [Handler -> Seq(Request)]
    BY <1>1, <1>2 DEF Types
  <2> QED
    BY <2>1, <2>2, <1>7, <1>8, <1>10, <1>11, <1>15 DEF Types, EventTypes
<1>17. Rows' /\ Told'
  <2>1. Rows'
    BY <1>1, <1>2 DEF Rows
  <2> QED
    BY <2>1, <1>2, <1>7, <1>12, ToldStays
<1>18. HandlerFits(h)'
  <2>1. todo'[h] \in Seq(Range(ChoicesOf[h]))
    BY <1>1, <1>2 DEF HandlerFits
  <2>2. ASSUME NEW p \in Range(ChoicesOf[h])
        PROVE  HasAsked(p)'
    <3>1. HasAsked(p)
      BY <1>1, <1>2 DEF HandlerFits
    <3> QED
      BY <3>1, <1>12, AskedStays, HomeOfChoice
  <2> QED
    BY <2>1, <2>2, <1>15 DEF HandlerFits
<1>19. Handlers'
  BY <1>2, <1>12, <1>15, <1>18, HandlersMove
<1>20. EndedFreed'
  <2>1. ASSUME NEW p \in Request, ended'[p] # ""
        PROVE  Freed(p)'
    <3>1. CASE p = q
      <4>1. reason[q] # "" \/ Message("cancel", q) \in Range(inbox')
        BY <2>1, <3>1, <1>4, <1>8
      <4> QED
        BY <3>1, <4>1, <1>1 DEF Freed, Message
    <3>2. CASE p # q
      <4>1. Freed(p)
        BY <2>1, <3>2, <1>2, <1>10 DEF EndedFreed
      <4> QED
        BY <4>1, <1>12, AskedStays
    <3> QED
      BY <3>1, <3>2
  <2> QED
    BY <2>1 DEF EndedFreed
<1>21. Texts'
  <2>1. ASSUME NEW p \in Request, p # q
        PROVE  TextFits(p)'
    BY <2>1, <1>2, <1>10 DEF Texts, TextFits
  <2> QED
    BY <2>1, <1>4 DEF Texts
<1> QED
  BY <1>8, <1>16, <1>17, <1>19, <1>20, <1>21 DEF IInv

-----------------------------------------------------------------------------
(* The theorems.                                                            *)

\* Nothing has been put or told, and the empty text has no stop string in it.
LEMMA InitIInv == Init => IInv
<1> SUFFICES ASSUME Init  PROVE IInv
  OBVIOUS
<1>1. /\ submitted = <<>> /\ waiting = <<>> /\ running = <<>>
      /\ tokens = [r \in Request |-> <<>>] /\ reason = [r \in Request |-> ""]
      /\ epc = "run" /\ active = <<>>
      /\ inbox = <<>> /\ events = [h \in Handler |-> <<>>]
      /\ failed = FALSE /\ stopping = FALSE
      /\ hpc = [h \in Handler |-> "new"] /\ todo = [h \in Handler |-> <<>>]
      /\ got = [r \in Request |-> <<>>] /\ ended = [r \in Request |-> ""]
      /\ written = [r \in Request |-> <<>>] /\ sent = [r \in Request |-> 0]
  BY DEF Init, Engine!Init
<1>2. Range(<<>>) = {}
  BY EmptyLine
<1>3. Types
  <2>1. /\ events = [h \in Handler |-> events[h]] /\ \A h \in Handler : events[h] \in Seq(Event(h))
    <3>1. events = [h \in Handler |-> events[h]] /\ \A h \in Handler : events[h] = <<>>
      BY <1>1
    <3>2. \A S : <<>> \in Seq(S)
      OBVIOUS
    <3> QED
      BY <3>1, <3>2
  <2>2. hpc \in [Handler -> At]
    BY <1>1 DEF At
  <2>3. \A S : <<>> \in Seq(S)
    OBVIOUS
  <2>4. EngineTypes
    <3>1. tokens \in [Request -> Seq(Token)] /\ reason \in [Request -> Reasons \cup {"cancelled"}]
      BY <1>1, <2>3 DEF Reasons
    <3>2. submitted \in Seq(Request) /\ waiting \in Seq(Request) /\ running \in Seq(Request)
      BY <1>1, <2>3
    <3> QED
      BY <3>1, <3>2 DEF EngineTypes
  <2>5. /\ active \in Seq(Request) /\ inbox \in Seq(Inbox)
        /\ epc \in {"run", "take", "step", "tell", "over"} /\ failed \in BOOLEAN /\ stopping \in BOOLEAN
        /\ todo \in [Handler -> Seq(Request)] /\ got \in [Request -> Seq(Token)]
        /\ ended \in [Request -> {"", "stop", "length"}]
        /\ written \in [Request -> Seq(Char)] /\ sent \in [Request -> Nat]
    <3>1. active \in Seq(Request) /\ inbox \in Seq(Inbox)
      BY <1>1, <2>3
    <3>2. /\ todo \in [Handler -> Seq(Request)] /\ got \in [Request -> Seq(Token)]
          /\ written \in [Request -> Seq(Char)]
      BY <1>1, <2>3
    <3>3. ended \in [Request -> {"", "stop", "length"}] /\ sent \in [Request -> Nat]
      BY <1>1
    <3>4. epc \in {"run", "take", "step", "tell", "over"} /\ failed \in BOOLEAN /\ stopping \in BOOLEAN
      BY <1>1
    <3> QED
      BY <3>1, <3>2, <3>3, <3>4
  <2> QED
    BY <2>1, <2>2, <2>4, <2>5 DEF Types
<1>4. Rows
  <2>1. Once(<<>>)
    BY EmptyLine
  <2> QED
    BY <2>1, <1>1, <1>2 DEF Rows
<1>5. Told
  BY <1>1, <1>2 DEF Told
<1>6. InTurn
  BY <1>1, NoPlaces DEF InTurn
<1>7. Handlers
  <2>1. \A h \in Handler : todo[h] = <<>> /\ hpc[h] = "new"
    BY <1>1
  <2>2. \A S : <<>> \in Seq(S)
    OBVIOUS
  <2>3. ASSUME NEW h \in Handler
        PROVE  HandlerFits(h)
    <3>1. todo[h] = <<>> /\ hpc[h] = "new"
      BY <2>1
    <3>2. todo[h] \in Seq(Range(ChoicesOf[h]))
      BY <3>1, <2>2
    <3> QED
      BY <3>1, <3>2 DEF HandlerFits
  <2> QED
    BY <2>3 DEF Handlers
<1>8. EndedFreed
  BY <1>1 DEF EndedFreed
<1>9. Texts
  <2>1. ASSUME NEW r \in Request
        PROVE  Found(<<>>, Stop[HandlerOf(r)], 0) = {}
    <3>1. HandlerOf(r) \in Handler
      BY HomeOfChoice
    <3>2. \A stop \in Stop[HandlerOf(r)] : stop \in Seq(Char) /\ stop # <<>>
      BY <3>1, ServerAssumption
    <3>3. ASSUME NEW i \in Found(<<>>, Stop[HandlerOf(r)], 0)
          PROVE  FALSE
      <4>1. PICK stop \in Stop[HandlerOf(r)] : IsPrefix(stop, SubSeq(<<>>, i + 1, Len(<<>>)))
        BY DEF Found
      <4>2. i \in 0..Len(<<>>)
        BY DEF Found
      <4>3. stop \in Seq(Char) /\ <<>> \in Seq(Char)
        BY <3>2
      <4>4. i + Len(stop) <= Len(<<>>)
        BY <4>1, <4>2, <4>3, FoundAt
      <4>5. Len(stop) \in Nat /\ Len(stop) # 0
        BY <3>2
      <4>6. Len(<<>>) = 0 /\ i \in Nat
        BY <4>2
      <4> QED
        BY <4>4, <4>5, <4>6
    <3> QED
      BY <3>3
  <2>2. \A r \in Request : written[r] = <<>> /\ sent[r] = 0 /\ Len(<<>>) = 0
    BY <1>1
  <2>3. ASSUME NEW r \in Request
        PROVE  TextFits(r)
    <3>1. written[r] = <<>> /\ sent[r] = 0 /\ Len(written[r]) = 0
      BY <2>2
    <3>2. Found(written[r], Stop[HandlerOf(r)], 0) = {}
      BY <2>1, <3>1
    <3>3. sent[r] <= Len(written[r])
      BY <3>1
    <3> QED
      BY <3>1, <3>2, <3>3 DEF TextFits
  <2> QED
    BY <2>3 DEF Texts
<1> QED
  BY <1>3, <1>4, <1>5, <1>6, <1>7, <1>8, <1>9 DEF IInv

\* Every step keeps the invariant.
LEMMA NextIInv == IInv /\ [Next]_vars => IInv'
<1> SUFFICES ASSUME IInv, [Next]_vars  PROVE IInv'
  OBVIOUS
<1>1. CASE EngineThread
  <2>1. CASE TakeMessage
    BY <2>1, TakeMessageKeeps
  <2>2. CASE TellFailure
    BY <2>2, TellFailureKeeps
  <2>3. CASE RunOn \/ TakeDone \/ StepDone \/ TellDone
    BY <2>3, ThreadKeeps
  <2> QED
    BY <1>1, <2>1, <2>2, <2>3 DEF EngineThread
<1>2. CASE EngineStep
  BY <1>2, StepRowsKeeps, StepEmitKeeps DEF EngineStep
<1>3. CASE StepFails \/ Shutdown
  BY <1>3, ThreadKeeps
<1>4. ASSUME NEW h \in Handler, Generate(h) \/ HandlerThread(h)
      PROVE  IInv'
  <2>1. CASE Refuse(h) \/ Generate(h) \/ Open(h) \/ OpenFails(h) \/ Write(h) \/ Answer(h)
    BY <2>1, WalkKeeps
  <2>2. CASE PutSubmit(h) \/ PutCancel(h)
    BY <2>2, PutKeeps
  <2>3. CASE ReadFailure(h) \/ ReadLate(h)
    BY <2>3, ReadPastKeeps
  <2>4. CASE ReadToken(h)
    BY <2>4, ReadTokenKeeps
  <2>5. CASE WriteFails(h)
    BY <2>5, WriteFailsKeeps
  <2> QED
    BY <1>4, <2>1, <2>2, <2>3, <2>4, <2>5 DEF HandlerThread
<1>5. CASE Rest \/ UNCHANGED vars
  <2>1. UNCHANGED vars
    BY <1>5 DEF Rest
  <2>2. /\ UNCHANGED <<engineVars, inbox, hpc, todo, textVars>>
        /\ UNCHANGED <<submitted, waiting, running, tokens, reason, epc, active, inbox, events,
                       failed, stopping, hpc, todo, got, written, sent, ended>>
    BY <2>1 DEF vars, engineVars, threadVars, sharedVars, handlerVars, textVars
  <2>3. Types'
    BY <2>2 DEF IInv, Types, EngineTypes, Event
  <2>4. Told'
    BY <2>2 DEF IInv, Told
  <2> QED
    BY <2>2, <2>3, <2>4, QuietKeeps
<1> QED
  BY <1>1, <1>2, <1>3, <1>4, <1>5 DEF Next

\* The invariant holds of every state (Server, generate, pieces).
THEOREM ServerInvariant == Steps => []IInv
<1>1. Init => IInv
  BY InitIInv
<1>2. IInv /\ [Next]_vars => IInv'
  BY NextIInv
<1> QED
  BY <1>1, <1>2, PTL DEF Steps

\* Every variable of the server keeps its type; a choice ends for one of the two
\* reasons the API has (_finish).
THEOREM TypesHold == Steps => []TypeOK
<1>1. IInv => TypeOK
  <2> SUFFICES ASSUME IInv  PROVE TypeOK
    OBVIOUS
  <2>1. \A r \in Request : sent[r] \in 0..Len(written[r])
    <3>1. \A r \in Request : sent[r] \in Nat /\ written[r] \in Seq(Char) /\ sent[r] <= Len(written[r])
      BY DEF IInv, Types, Texts, TextFits
    <3>2. \A r \in Request : Len(written[r]) \in Nat
      BY <3>1
    <3> QED
      BY <3>1, <3>2
  <2>2. ASSUME NEW h \in Handler
        PROVE  events[h] \in Seq([req : Range(ChoicesOf[h]), token : Token \cup {Error},
                                  reason : {"", "eos", "length", "cache", "failed"}])
    <3> DEFINE Typed == [req : Range(ChoicesOf[h]), token : Token \cup {Error},
                         reason : {"", "eos", "length", "cache", "failed"}]
    <3>1. Event(h) \subseteq Typed
      BY DEF Event, Reasons
    <3>2. events[h] \in Seq(Event(h))
      BY DEF IInv, Types
    <3> HIDE DEF Typed
    <3>3. events[h] \in Seq(Typed)
      BY <3>1, <3>2
    <3> QED
      BY <3>3 DEF Typed
  <2>3. reason \in [Request -> {"", "eos", "length", "cache", "cancelled"}]
    <3>1. Reasons \cup {"cancelled"} = {"", "eos", "length", "cache", "cancelled"}
      BY DEF Reasons
    <3> QED
      BY <3>1 DEF IInv, Types, EngineTypes
  <2> QED
    BY <2>1, <2>2, <2>3 DEF IInv, Types, EngineTypes, TypeOK, Inbox, At
<1>2. Steps => []IInv
  BY ServerInvariant
<1> QED
  BY <1>1, <1>2, PTL

\* No row goes on for a choice nobody reads: whenever one has ended, or its handler
\* has answered or has lost its client part way, the engine has ended the request or
\* finds its cancel in the inbox, after its submit (pieces: the finally; _run).
THEOREM NoRowLeftOn == Steps => []RowsFreed
<1>1. IInv => RowsFreed
  <2> SUFFICES ASSUME IInv, NEW r \in Request,
                      ended[r] # "" \/ hpc[HandlerOf(r)] \in {"answered", "closed"}
               PROVE  Freed(r)
    BY DEF RowsFreed
  <2>1. HandlerOf(r) \in Handler /\ r \in Range(ChoicesOf[HandlerOf(r)])
    BY HomeOfChoice
  <2>2. HandlerFits(HandlerOf(r)) /\ EndedFreed
    BY <2>1 DEF IInv, Handlers
  <2> QED
    BY <2>1, <2>2 DEF HandlerFits, EndedFreed
<1>2. Steps => []IInv
  BY ServerInvariant
<1> QED
  BY <1>1, <1>2, PTL

\* What a client was sent of a choice is never taken back or changed, whatever its
\* stop strings are and however they are cut into tokens (pieces: the text held
\* back, and where it is searched).
THEOREM SentStands == Steps => NothingTakenBack
<1> DEFINE Stands == \A r \in Request :
             /\ sent'[r] >= sent[r]
             /\ SubSeq(written'[r], 1, sent[r]) = SubSeq(written[r], 1, sent[r])
           StandsWritten == \A r \in Request :
             /\ sent'[r] >= sent[r]
             /\ sent'[r] <= Len(written'[r])
             /\ SubSeq(written'[r], 1, sent[r]) = SubSeq(written[r], 1, sent[r])
<1>1. ASSUME IInv, [Next]_vars
      PROVE  [Stands]_vars
  <2>1. CASE UNCHANGED <<written, sent>>
    <3>1. \A r \in Request : sent[r] \in Nat
      BY <1>1 DEF IInv, Types
    <3>2. Stands
      BY <2>1, <3>1
    <3> QED
      BY <3>2
  <2>2. CASE \E h \in Handler : ReadToken(h)
    <3>1. PICK h \in Handler : ReadToken(h)
      BY <2>2
    <3>2. written \in [Request -> Seq(Char)] /\ sent \in [Request -> Nat]
      BY <1>1 DEF IInv, Types
    <3>3. Types /\ Told /\ Texts
      BY <1>1 DEF IInv
    <3> HIDE DEF Stands
    <3> DEFINE r0 == Head(events[h]).req
    <3>4. PICK q \in Range(ChoicesOf[h]) : q = r0
      BY <3>1, <3>3, TokenRead
    <3>5. /\ q \in Range(ChoicesOf[h])
          /\ \E w \in Seq(Char) : written' = [written EXCEPT ![q] = w]
          /\ \E n \in Nat : sent' = [sent EXCEPT ![q] = n]
          /\ sent'[q] >= sent[q]
          /\ SubSeq(written'[q], 1, sent[q]) = SubSeq(written[q], 1, sent[q])
      BY <3>1, <3>3, <3>4, TokenRead
    <3>6. \A r \in Request : r # q => written'[r] = written[r] /\ sent'[r] = sent[r]
      <4>1. \A r \in Request : r # q => written'[r] = written[r]
        BY <3>2, <3>5
      <4>2. \A r \in Request : r # q => sent'[r] = sent[r]
        BY <3>2, <3>5
      <4> QED
        BY <4>1, <4>2
    <3>7. ASSUME NEW r \in Request
          PROVE  /\ sent'[r] >= sent[r]
                 /\ SubSeq(written'[r], 1, sent[r]) = SubSeq(written[r], 1, sent[r])
      <4>1. CASE r = q
        BY <4>1, <3>5
      <4>2. CASE r # q
        BY <4>2, <3>2, <3>6
      <4> QED
        BY <4>1, <4>2
    <3> QED
      BY <3>7 DEF Stands
  <2>3. \/ UNCHANGED <<written, sent>>
        \/ \E h \in Handler : ReadToken(h)
    <3>1. CASE EngineThread
      BY <3>1 DEF EngineThread, RunOn, TakeMessage, TakeDone, StepDone, TellFailure, TellDone,
                  handlerVars, textVars
    <3>2. CASE EngineStep \/ StepFails \/ Shutdown
      BY <3>2 DEF EngineStep, StepAdmit, StepPreempt, StepEmit, StepFails, Shutdown,
                  handlerVars, textVars
    <3>3. ASSUME NEW h \in Handler, Generate(h) \/ HandlerThread(h), ~ReadToken(h)
          PROVE  UNCHANGED <<written, sent>>
      BY <3>3 DEF Generate, HandlerThread, Refuse, PutSubmit, PutCancel, Put, Open, OpenFails,
                  ReadFailure, ReadLate, Write, WriteFails, Answer, handlerVars, textVars
    <3>4. CASE Rest \/ UNCHANGED vars
      BY <3>4 DEF Rest, vars, handlerVars, textVars
    <3> QED
      BY <1>1, <3>1, <3>2, <3>3, <3>4 DEF Next
  <2> QED
    BY <2>1, <2>2, <2>3
<1>2. ASSUME IInv', [Stands]_vars
      PROVE  [StandsWritten]_vars
  <2>1. \A r \in Request : sent'[r] <= Len(written'[r])
    BY <1>2 DEF IInv, Texts, TextFits
  <2> QED
    BY <1>2, <2>1
<1> HIDE DEF Stands, StandsWritten
<1>3. Steps => []IInv
  BY ServerInvariant
<1>4. []IInv /\ [][Next]_vars => [][StandsWritten]_vars
  BY <1>1, <1>2, PTL
<1>5. Steps => [][StandsWritten]_vars
  BY <1>3, <1>4, PTL DEF Steps
<1> QED
  BY <1>5 DEF NothingTakenBack, StandsWritten

-----------------------------------------------------------------------------
(* Tokens in order.                                                         *)

\* The events that bring r a token, and those that are on their way.
Tells(r) == [req : {r}, token : Token, reason : {"", "eos", "length", "cache"}]
Own(r) == Only(events[HandlerOf(r)], Tells(r))

StartOf(some, all) == Len(some) <= Len(all) /\ \A i \in 1..Len(some) : some[i] = all[i]

\* What the handler of r has read is the start of what the engine gave r, and with
\* what is on its way all of it while the choice goes on.  An end is told last, and
\* with the reason the engine has; one for length comes after every token.
InOrder(r) ==
  /\ StartOf(got[r], tokens[r])
  /\ ended[r] = "" => got[r] \o Coming(r) = tokens[r]
  /\ \A i \in 1..Len(Own(r)) : Own(r)[i].reason # "" => i = Len(Own(r)) /\ Own(r)[i].reason = reason[r]
  /\ ended[r] = "length" => got[r] = tokens[r] /\ reason[r] \in {"length", "cache"}
TokensInOrder == \A r \in Request : InOrder(r)

\* The tokens of events: with one more, and without the first.
LEMMA TokensOf ==
  ASSUME NEW S, NEW own \in Seq(S), \A x \in S : x.token \in Token
  PROVE  LET of(s) == [i \in 1..Len(s) |-> s[i].token]
         IN  /\ of(own) \in Seq(Token) /\ Len(of(own)) = Len(own)
             /\ \A e \in S : of(Append(own, e)) = Append(of(own), e.token)
             /\ own # <<>> => of(own) = <<Head(own).token>> \o of(Tail(own))
<1> DEFINE of(s) == [i \in 1..Len(s) |-> s[i].token]
<1>1. ASSUME NEW s \in Seq(S)
      PROVE  of(s) \in Seq(Token) /\ Len(of(s)) = Len(s) /\ \A i \in 1..Len(s) : of(s)[i] = s[i].token
  <2>1. Len(s) \in Nat /\ \A i \in 1..Len(s) : s[i] \in S
    OBVIOUS
  <2>2. \A i \in 1..Len(s) : s[i].token \in Token
    BY <2>1
  <2> QED
    BY <2>1, <2>2
<1> HIDE DEF of
<1>2. ASSUME NEW e \in S
      PROVE  of(Append(own, e)) = Append(of(own), e.token)
  <2> DEFINE a == of(Append(own, e))  b == Append(of(own), e.token)  n == Len(own)
  <2>1. Append(own, e) \in Seq(S) /\ Len(Append(own, e)) = n + 1 /\ n \in Nat
        /\ Append(own, e)[n + 1] = e /\ \A i \in 1..n : Append(own, e)[i] = own[i]
    OBVIOUS
  <2>2. a \in Seq(Token) /\ Len(a) = n + 1 /\ \A i \in 1..n + 1 : a[i] = Append(own, e)[i].token
    BY <1>1, <2>1
  <2>3. of(own) \in Seq(Token) /\ Len(of(own)) = n /\ \A i \in 1..n : of(own)[i] = own[i].token
    BY <1>1
  <2>4. b \in Seq(Token) /\ Len(b) = n + 1 /\ b[n + 1] = e.token /\ \A i \in 1..n : b[i] = own[i].token
    BY <2>1, <2>3
  <2> HIDE DEF a, b, n
  <2>5. \A i \in 1..n + 1 : i \in 1..n \/ i = n + 1
    BY <2>1
  <2>6. \A i \in 1..n + 1 : a[i] = b[i]
    BY <2>1, <2>2, <2>4, <2>5
  <2>7. a = b
    BY <2>2, <2>4, <2>6, SeqEqual
  <2> QED
    BY <2>7 DEF a, b
<1>3. ASSUME own # <<>>
      PROVE  of(own) = <<Head(own).token>> \o of(Tail(own))
  <2> DEFINE a == of(own)  rest == of(Tail(own))  b == <<Head(own).token>> \o rest  n == Len(own)
  <2>1. Tail(own) \in Seq(S) /\ Len(Tail(own)) = n - 1 /\ n \in Nat /\ n >= 1 /\ Head(own) = own[1]
        /\ \A i \in 1..Len(Tail(own)) : Tail(own)[i] = own[i + 1]
    BY <1>3, HeadOrTail
  <2>2. a \in Seq(Token) /\ Len(a) = n /\ \A i \in 1..n : a[i] = own[i].token
    BY <1>1
  <2>3. rest \in Seq(Token) /\ Len(rest) = n - 1 /\ \A i \in 1..n - 1 : rest[i] = Tail(own)[i].token
    BY <1>1, <2>1
  <2>4. Head(own).token \in Token
    BY <2>1, <1>3
  <2> HIDE DEF a, rest, n
  <2>5. b \in Seq(Token) /\ Len(b) = 1 + Len(rest) /\ b[1] = Head(own).token
        /\ \A i \in 1..Len(rest) : b[i + 1] = rest[i]
    BY <2>3, <2>4
  <2> HIDE DEF b
  <2>6. \A i \in 1..n : i = 1 \/ (i - 1 \in 1..n - 1 /\ (i - 1) + 1 = i)
    BY <2>1
  <2>7. ASSUME NEW i \in 1..n
        PROVE  a[i] = b[i]
    <3>1. CASE i = 1
      BY <3>1, <2>1, <2>2, <2>5
    <3>2. CASE i # 1
      <4>1. i - 1 \in 1..n - 1 /\ (i - 1) + 1 = i
        BY <3>2, <2>6
      <4>2. b[i] = rest[i - 1] /\ rest[i - 1] = Tail(own)[i - 1].token /\ Tail(own)[i - 1] = own[i]
        BY <4>1, <2>1, <2>3, <2>5
      <4> QED
        BY <4>2, <2>2
    <3> QED
      BY <3>1, <3>2
  <2>8. Len(b) = n
    BY <2>1, <2>3, <2>5
  <2>9. a = b
    BY <2>2, <2>5, <2>7, <2>8, SeqEqual
  <2> QED
    BY <2>9 DEF a, b, rest
<1>4. of(own) \in Seq(Token) /\ Len(of(own)) = Len(own)
  BY <1>1
<1> QED
  BY <1>2, <1>3, <1>4 DEF of

\* A token read goes from the one line to the other.
LEMMA Passes ==
  ASSUME NEW a \in Seq(Token), NEW x \in Token, NEW b \in Seq(Token)
  PROVE  /\ Append(a, x) \o b = a \o (<<x>> \o b)
         /\ a \o Append(b, x) = Append(a \o b, x)
         /\ StartOf(a, a \o b) /\ StartOf(a, a) /\ a \o <<>> = a
<1>1. /\ Append(a, x) \in Seq(Token) /\ <<x>> \o b \in Seq(Token) /\ Append(b, x) \in Seq(Token)
      /\ a \o b \in Seq(Token) /\ Len(a) \in Nat /\ Len(b) \in Nat
  OBVIOUS
<1>2. Append(a, x) \o b = a \o (<<x>> \o b)
  <2> DEFINE l == Append(a, x) \o b  r == a \o (<<x>> \o b)  n == Len(a)
  <2>1. /\ l \in Seq(Token) /\ Len(l) = n + 1 + Len(b) /\ l[n + 1] = x
        /\ \A i \in 1..n : l[i] = a[i]
        /\ \A i \in 1..Len(b) : l[n + 1 + i] = b[i]
    OBVIOUS
  <2>2. /\ <<x>> \o b \in Seq(Token) /\ Len(<<x>> \o b) = 1 + Len(b) /\ (<<x>> \o b)[1] = x
        /\ \A i \in 1..Len(b) : (<<x>> \o b)[1 + i] = b[i]
    OBVIOUS
  <2> DEFINE c == <<x>> \o b
  <2>3. c \in Seq(Token) /\ Len(c) = 1 + Len(b) /\ c[1] = x /\ \A i \in 1..Len(b) : c[1 + i] = b[i]
    BY <2>2
  <2> HIDE DEF c
  <2>4. /\ a \o c \in Seq(Token) /\ Len(a \o c) = n + Len(c)
        /\ \A i \in 1..n : (a \o c)[i] = a[i]
        /\ \A i \in 1..Len(c) : (a \o c)[n + i] = c[i]
    BY <2>3
  <2>5. r = a \o c
    BY DEF c
  <2> HIDE DEF l, r
  <2>6. /\ r \in Seq(Token) /\ Len(r) = n + 1 + Len(b) /\ r[n + 1] = x
        /\ \A i \in 1..n : r[i] = a[i]
        /\ \A i \in 1..Len(b) : r[n + 1 + i] = b[i]
    <3>1. 1 \in 1..Len(c) /\ \A i \in 1..Len(b) : 1 + i \in 1..Len(c) /\ n + (1 + i) = n + 1 + i
      BY <1>1, <2>3
    <3>2. Len(r) = n + 1 + Len(b)
      BY <1>1, <2>3, <2>4, <2>5
    <3>3. r[n + 1] = x
      BY <2>3, <2>4, <2>5, <3>1
    <3>4. \A i \in 1..Len(b) : r[n + 1 + i] = b[i]
      BY <2>3, <2>4, <2>5, <3>1
    <3> QED
      BY <2>4, <2>5, <3>2, <3>3, <3>4
  <2>7. ASSUME NEW i \in 1..n + 1 + Len(b)
        PROVE  l[i] = r[i]
    <3> HIDE DEF n
    <3>1. n \in Nat
      BY <1>1 DEF n
    <3>2. i \in 1..n \/ i = n + 1 \/ (i - n - 1 \in 1..Len(b) /\ n + 1 + (i - n - 1) = i)
      BY <1>1, <3>1
    <3>3. CASE i - n - 1 \in 1..Len(b) /\ n + 1 + (i - n - 1) = i
      <4>1. l[n + 1 + (i - n - 1)] = b[i - n - 1] /\ r[n + 1 + (i - n - 1)] = b[i - n - 1]
        BY <3>3, <2>1, <2>6
      <4> QED
        BY <4>1, <3>3
    <3> QED
      BY <2>1, <2>6, <3>2, <3>3
  <2>8. l = r
    BY <2>1, <2>6, <2>7, SeqEqual
  <2> QED
    BY <2>8 DEF l, r
<1>3. a \o Append(b, x) = Append(a \o b, x)
  <2> DEFINE l == a \o Append(b, x)  r == Append(a \o b, x)  n == Len(a)
  <2>1. /\ l \in Seq(Token) /\ Len(l) = n + Len(b) + 1 /\ l[n + Len(b) + 1] = x
        /\ \A i \in 1..n : l[i] = a[i]
        /\ \A i \in 1..Len(b) : l[n + i] = b[i]
    OBVIOUS
  <2>2. /\ r \in Seq(Token) /\ Len(r) = n + Len(b) + 1 /\ r[n + Len(b) + 1] = x
        /\ \A i \in 1..n : r[i] = a[i]
        /\ \A i \in 1..Len(b) : r[n + i] = b[i]
    OBVIOUS
  <2> HIDE DEF l, r
  <2>3. ASSUME NEW i \in 1..n + Len(b) + 1
        PROVE  l[i] = r[i]
    <3> HIDE DEF n
    <3>1. n \in Nat
      BY <1>1 DEF n
    <3>2. i \in 1..n \/ i = n + Len(b) + 1 \/ (i - n \in 1..Len(b) /\ n + (i - n) = i)
      BY <1>1, <3>1
    <3>3. CASE i - n \in 1..Len(b) /\ n + (i - n) = i
      <4>1. l[n + (i - n)] = b[i - n] /\ r[n + (i - n)] = b[i - n]
        BY <3>3, <2>1, <2>2
      <4> QED
        BY <4>1, <3>3
    <3> QED
      BY <2>1, <2>2, <3>2, <3>3
  <2>4. l = r
    BY <2>1, <2>2, <2>3, SeqEqual
  <2> QED
    BY <2>4 DEF l, r
<1>4. StartOf(a, a \o b) /\ StartOf(a, a) /\ a \o <<>> = a
  <2>1. Len(a \o b) = Len(a) + Len(b) /\ \A i \in 1..Len(a) : (a \o b)[i] = a[i]
    OBVIOUS
  <2>2. Len(a) <= Len(a \o b)
    BY <1>1, <2>1
  <2>3. StartOf(a, a)
    BY <1>1 DEF StartOf
  <2> QED
    BY <2>1, <2>2, <2>3 DEF StartOf
<1> QED
  BY <1>2, <1>3, <1>4

\* What is on its way to the handler of r is of r, and brings it tokens.
LEMMA OwnTyped ==
  ASSUME Types, NEW r \in Request
  PROVE  /\ Own(r) \in Seq(Tells(r)) /\ Coming(r) \in Seq(Token)
         /\ Coming(r) = [i \in 1..Len(Own(r)) |-> Own(r)[i].token]
         /\ events[HandlerOf(r)] \in Seq(Event(HandlerOf(r)))
<1>1. events[HandlerOf(r)] \in Seq(Event(HandlerOf(r)))
  BY HomeOfChoice DEF Types
<1>2. Own(r) \in Seq(Event(HandlerOf(r)) \cap Tells(r))
  BY <1>1, OnlyRange DEF Own
<1>3. Own(r) \in Seq(Tells(r))
  <2>1. Event(HandlerOf(r)) \cap Tells(r) \subseteq Tells(r)
    OBVIOUS
  <2> HIDE DEF Own, Tells
  <2> QED
    BY <1>2, <2>1
<1>4. Coming(r) = [i \in 1..Len(Own(r)) |-> Own(r)[i].token]
  BY DEF Coming, Own, Tells
<1>5. \A x \in Tells(r) : x.token \in Token
  BY DEF Tells
<1>6. Coming(r) \in Seq(Token)
  BY <1>3, <1>4, <1>5, TokensOf
<1> QED
  BY <1>1, <1>3, <1>4, <1>6

\* Another token is on its way to r, or to another.
LEMMA OwnTold ==
  ASSUME Types, NEW r \in Request, NEW e \in Event(HandlerOf(r)), Tell(r, e), NEW p \in Request
  PROVE  Own(p)' = IF e \in Tells(p) /\ HandlerOf(p) = HandlerOf(r) THEN Append(Own(p), e) ELSE Own(p)
<1>1. EventTypes /\ HandlerOf(r) \in Handler /\ HandlerOf(p) \in Handler
  BY HomeOfChoice DEF Types, EventTypes
<1>2. events' = [events EXCEPT ![HandlerOf(r)] = Append(events[HandlerOf(r)], e)]
  BY DEF Tell
<1>3. Own(p)' = Only(events'[HandlerOf(p)], Tells(p))
  BY DEF Own, Tells
<1>4. CASE HandlerOf(p) = HandlerOf(r)
  <2>1. events'[HandlerOf(p)] = Append(events[HandlerOf(p)], e)
    BY <1>1, <1>2, <1>4 DEF EventTypes
  <2>2. events[HandlerOf(p)] \in Seq(Event(HandlerOf(p))) /\ e \in Event(HandlerOf(p))
    BY <1>1, <1>4 DEF EventTypes
  <2>3. Only(Append(events[HandlerOf(p)], e), Tells(p)) =
          IF e \in Tells(p) THEN Append(Only(events[HandlerOf(p)], Tells(p)), e)
          ELSE Only(events[HandlerOf(p)], Tells(p))
    <3> DEFINE s == events[HandlerOf(p)]  S == Event(HandlerOf(p))  T == Tells(p)
    <3>1. s \in Seq(S) /\ e \in S
      BY <2>2
    <3> HIDE DEF s, S, T
    <3>2. Only(Append(s, e), T) = IF e \in T THEN Append(Only(s, T), e) ELSE Only(s, T)
      BY <3>1, OnlyAppend
    <3> QED
      BY <3>2 DEF s, T
  <2> QED
    BY <1>3, <1>4, <2>1, <2>3 DEF Own
<1>5. CASE HandlerOf(p) # HandlerOf(r)
  <2>1. events'[HandlerOf(p)] = events[HandlerOf(p)]
    BY <1>1, <1>2, <1>5 DEF EventTypes
  <2> QED
    BY <1>3, <1>5, <2>1 DEF Own
<1> QED
  BY <1>4, <1>5

\* The first event is read: it brings r its token, or brings r nothing.
LEMMA OwnRead ==
  ASSUME Types, NEW h \in Handler, events[h] # <<>>,
         events' = [events EXCEPT ![h] = Tail(events[h])], NEW r \in Request
  PROVE  /\ HandlerOf(r) = h /\ Head(events[h]) \in Tells(r) =>
              Own(r) # <<>> /\ Head(Own(r)) = Head(events[h]) /\ Own(r)' = Tail(Own(r))
         /\ ~(HandlerOf(r) = h /\ Head(events[h]) \in Tells(r)) => Own(r)' = Own(r)
<1>1. EventTypes /\ HandlerOf(r) \in Handler
  BY HomeOfChoice DEF Types, EventTypes
<1>2. Own(r)' = Only(events'[HandlerOf(r)], Tells(r))
  BY DEF Own, Tells
<1>3. CASE HandlerOf(r) = h
  <2>1. events'[h] = Tail(events[h]) /\ events[h] \in Seq(Event(h))
    BY <1>1 DEF EventTypes
  <2>2. /\ Head(events[h]) \in Tells(r) =>
             Only(events[h], Tells(r)) # <<>> /\ Head(Only(events[h], Tells(r))) = Head(events[h])
        /\ Only(Tail(events[h]), Tells(r)) =
             IF Head(events[h]) \in Tells(r) THEN Tail(Only(events[h], Tells(r)))
             ELSE Only(events[h], Tells(r))
    BY <2>1, OnlyTail
  <2>3. Own(r) = Only(events[h], Tells(r)) /\ Own(r)' = Only(Tail(events[h]), Tells(r))
    BY <1>2, <1>3, <2>1 DEF Own
  <2> QED
    BY <1>3, <2>2, <2>3
<1>4. CASE HandlerOf(r) # h
  <2>1. events'[HandlerOf(r)] = events[HandlerOf(r)]
    BY <1>1, <1>4 DEF EventTypes
  <2> QED
    BY <1>2, <1>4, <2>1 DEF Own
<1> QED
  BY <1>3, <1>4

\* A step that neither gives r a token nor reads one, and ends it at most in the engine.
LEMMA OrderStays ==
  ASSUME NEW r \in Request, InOrder(r), got'[r] = got[r], ended'[r] = ended[r],
         tokens'[r] = tokens[r], Own(r)' = Own(r), reason'[r] = reason[r] \/ reason[r] = ""
  PROVE  InOrder(r)'
<1>1. Coming(r)' = Coming(r)
  <2>1. Coming(r)' = [i \in 1..Len(Own(r)') |-> Own(r)'[i].token]
    BY DEF Coming, Own, Tells
  <2>2. Coming(r) = [i \in 1..Len(Own(r)) |-> Own(r)[i].token]
    BY DEF Coming, Own, Tells
  <2> QED
    BY <2>1, <2>2
<1>2. StartOf(got'[r], tokens'[r]) /\ (ended'[r] = "" => got'[r] \o Coming(r)' = tokens'[r])
  BY <1>1 DEF InOrder
<1>3. ASSUME NEW i \in 1..Len(Own(r)'), Own(r)'[i].reason # ""
      PROVE  i = Len(Own(r)') /\ Own(r)'[i].reason = reason'[r]
  BY <1>3 DEF InOrder
<1>4. ended'[r] = "length" => got'[r] = tokens'[r] /\ reason'[r] \in {"length", "cache"}
  BY DEF InOrder
<1> QED
  BY <1>2, <1>3, <1>4 DEF InOrder, StartOf

\* The engine gives r a token, and its handler is told.
LEMMA EmitInOrder ==
  ASSUME IInv, TokensInOrder, NEW r \in Request, StepEmit(r)
  PROVE  TokensInOrder'
<1> DEFINE e == TokenOf(r)
<1>1. UNCHANGED <<got, ended>> /\ Engine!Emit(r) /\ Tell(r, e)
  BY DEF StepEmit, handlerVars, textVars
<1>2. Types /\ Rows /\ EngineTypes
  BY DEF IInv, Types
<1>3. /\ reason[r] = ""
      /\ \E t \in Token : tokens' = [tokens EXCEPT ![r] = Append(tokens[r], t)]
      /\ \E why \in Reasons : reason' = [reason EXCEPT ![r] = why]
  BY <1>1, <1>2, EmitRows
<1>4. PICK t \in Token : tokens' = [tokens EXCEPT ![r] = Append(tokens[r], t)]
  BY <1>3
<1>5. PICK why \in Reasons : reason' = [reason EXCEPT ![r] = why]
  BY <1>3
<1>6. tokens \in [Request -> Seq(Token)] /\ reason \in [Request -> Reasons \cup {"cancelled"}]
      /\ got \in [Request -> Seq(Token)]
  BY <1>2 DEF EngineTypes, Types
<1>7. /\ reason'[r] = why /\ tokens'[r] = Append(tokens[r], t)
      /\ \A p \in Request : p # r => reason'[p] = reason[p] /\ tokens'[p] = tokens[p]
  BY <1>4, <1>5, <1>6
<1>8. Last(Append(tokens[r], t)) = t
  <2>1. tokens[r] \in Seq(Token)
    BY <1>6
  <2>2. Append(tokens[r], t)[Len(Append(tokens[r], t))] = t
    BY <2>1
  <2> QED
    BY <2>2 DEF Last
<1>9. e = [req |-> r, token |-> t, reason |-> why]
  BY <1>7, <1>8 DEF TokenOf
<1> HIDE DEF e
<1>10. /\ e \in Event(HandlerOf(r)) /\ e \in Tells(r) /\ e.token = t /\ e.reason = why
       /\ \A p \in Request : p # r => e \notin Tells(p)
  BY <1>9, HomeOfChoice DEF Event, Tells, Reasons
<1>11. ASSUME NEW p \in Request, p # r
       PROVE  InOrder(p)'
  <2>1. Own(p)' = Own(p)
    BY <1>1, <1>2, <1>10, <1>11, OwnTold
  <2>2. InOrder(p) /\ got'[p] = got[p] /\ ended'[p] = ended[p]
    BY <1>1 DEF TokensInOrder
  <2> QED
    BY <1>7, <1>11, <2>1, <2>2, OrderStays
<1>12. Own(r)' = Append(Own(r), e)
  BY <1>1, <1>2, <1>10, OwnTold
<1>13. /\ Own(r) \in Seq(Tells(r)) /\ Coming(r) \in Seq(Token)
       /\ Coming(r) = [i \in 1..Len(Own(r)) |-> Own(r)[i].token]
  BY <1>2, OwnTyped
<1>14. Coming(r)' = Append(Coming(r), t)
  <2>1. Coming(r)' = [i \in 1..Len(Own(r)') |-> Own(r)'[i].token]
    BY DEF Coming, Own, Tells
  <2>2. \A x \in Tells(r) : x.token \in Token
    BY DEF Tells
  <2> QED
    BY <2>1, <2>2, <1>10, <1>12, <1>13, TokensOf
<1>15. InOrder(r)
  BY DEF TokensInOrder
<1>16. got[r] \in Seq(Token) /\ tokens[r] \in Seq(Token) /\ got'[r] = got[r] /\ ended'[r] = ended[r]
  BY <1>1, <1>6
<1>17. StartOf(got'[r], tokens'[r])
  <2>1. /\ Len(Append(tokens[r], t)) = Len(tokens[r]) + 1 /\ Len(tokens[r]) \in Nat /\ Len(got[r]) \in Nat
        /\ \A i \in 1..Len(tokens[r]) : Append(tokens[r], t)[i] = tokens[r][i]
    BY <1>16
  <2>2. StartOf(got[r], tokens[r])
    BY <1>15 DEF InOrder
  <2> QED
    BY <2>1, <2>2, <1>7, <1>16 DEF StartOf
<1>18. ended'[r] = "" => got'[r] \o Coming(r)' = tokens'[r]
  <2>1. got[r] \o Append(Coming(r), t) = Append(got[r] \o Coming(r), t)
    BY <1>13, <1>16, Passes
  <2> QED
    BY <2>1, <1>7, <1>14, <1>15, <1>16 DEF InOrder
<1>19. ASSUME NEW i \in 1..Len(Own(r)'), Own(r)'[i].reason # ""
       PROVE  i = Len(Own(r)') /\ Own(r)'[i].reason = reason'[r]
  <2> DEFINE n == Len(Own(r))
  <2>1. /\ n \in Nat /\ Len(Append(Own(r), e)) = n + 1 /\ Append(Own(r), e)[n + 1] = e
        /\ \A j \in 1..n : Append(Own(r), e)[j] = Own(r)[j]
    BY <1>10, <1>13
  <2>2. \A j \in 1..n : Own(r)[j].reason = ""
    BY <1>3, <1>15 DEF InOrder
  <2> HIDE DEF n
  <2>3. i = n + 1
    <3>1. i \in 1..n + 1 /\ Append(Own(r), e)[i].reason # ""
      BY <2>1, <1>12, <1>19
    <3>2. i \notin 1..n
      BY <2>1, <2>2, <3>1
    <3>3. \A j \in 1..n + 1 : j \in 1..n \/ j = n + 1
      <4>1. n \in Nat
        BY <2>1
      <4> QED
        BY <4>1
    <3> QED
      BY <3>1, <3>2, <3>3, Zenon
  <2> QED
    BY <2>1, <2>3, <1>7, <1>10, <1>12
<1>20. ended'[r] # "length"
  BY <1>3, <1>15, <1>16 DEF InOrder
<1>21. InOrder(r)'
  BY <1>17, <1>18, <1>19, <1>20 DEF InOrder, StartOf
<1> QED
  BY <1>11, <1>21 DEF TokensInOrder

\* A handler reads a token that comes too late for its choice.
LEMMA LateInOrder ==
  ASSUME IInv, TokensInOrder, NEW h \in Handler, ReadLate(h)
  PROVE  TokensInOrder'
<1> DEFINE e == Head(events[h])
<1>1. /\ UNCHANGED <<got, ended, tokens, reason>> /\ events[h] # <<>>
      /\ events' = [events EXCEPT ![h] = Tail(events[h])] /\ ended[e.req] # ""
  BY DEF ReadLate, engineVars, handlerVars, textVars
<1> HIDE DEF e
<1>2. ASSUME NEW r \in Request
      PROVE  InOrder(r)'
  <2>1. InOrder(r) /\ Types
    BY DEF TokensInOrder, IInv
  <2>2. CASE HandlerOf(r) = h /\ e \in Tells(r)
    <3>1. Own(r) # <<>> /\ Own(r)' = Tail(Own(r)) /\ Own(r) \in Seq(Tells(r))
      BY <1>1, <2>1, <2>2, OwnRead, OwnTyped DEF e
    <3>2. ended[r] # ""
      BY <1>1, <2>2 DEF Tells
    <3>3. /\ Len(Tail(Own(r))) = Len(Own(r)) - 1 /\ Len(Own(r)) \in Nat
          /\ \A i \in 1..Len(Tail(Own(r))) : Tail(Own(r))[i] = Own(r)[i + 1] /\ i + 1 \in 1..Len(Own(r))
      <4>1. Tail(Own(r)) \in Seq(Tells(r)) /\ Len(Tail(Own(r))) = Len(Own(r)) - 1
            /\ \A i \in 1..Len(Tail(Own(r))) : Tail(Own(r))[i] = Own(r)[i + 1]
        BY <3>1, HeadOrTail
      <4>2. Len(Own(r)) \in Nat
        BY <3>1
      <4> QED
        BY <4>1, <4>2
    <3>4. ASSUME NEW i \in 1..Len(Own(r)'), Own(r)'[i].reason # ""
          PROVE  i = Len(Own(r)') /\ Own(r)'[i].reason = reason'[r]
      <4>1. i + 1 \in 1..Len(Own(r)) /\ Own(r)[i + 1].reason # "" /\ Own(r)'[i] = Own(r)[i + 1]
        BY <3>1, <3>3, <3>4
      <4>2. i + 1 = Len(Own(r)) /\ Own(r)[i + 1].reason = reason[r]
        BY <4>1, <2>1 DEF InOrder
      <4>3. i = Len(Own(r)) - 1
        BY <4>2
      <4> QED
        BY <4>1, <4>2, <4>3, <3>1, <3>3, <1>1
    <3>5. /\ StartOf(got'[r], tokens'[r]) /\ ended'[r] # ""
          /\ ended'[r] = "length" => got'[r] = tokens'[r] /\ reason'[r] \in {"length", "cache"}
      BY <1>1, <2>1, <3>2 DEF InOrder
    <3> QED
      BY <3>4, <3>5 DEF InOrder, StartOf
  <2>3. CASE ~(HandlerOf(r) = h /\ e \in Tells(r))
    <3>1. Own(r)' = Own(r)
      BY <1>1, <2>1, <2>3, OwnRead DEF e
    <3> QED
      BY <1>1, <2>1, <3>1, OrderStays
  <2> QED
    BY <2>2, <2>3
<1> QED
  BY <1>2 DEF TokensInOrder

\* A handler reads a token of a choice that goes on: with the end told with it there
\* is nothing more on its way.
LEMMA ReadInOrder ==
  ASSUME IInv, TokensInOrder, NEW h \in Handler, ReadToken(h)
  PROVE  TokensInOrder'
<1> DEFINE e == Head(events[h])
<1>1. /\ UNCHANGED <<tokens, reason>> /\ events[h] # <<>>
      /\ events' = [events EXCEPT ![h] = Tail(events[h])]
      /\ e.token # Error
      /\ got' = [got EXCEPT ![e.req] = Append(got[e.req], e.token)]
      /\ \/ ended' = [ended EXCEPT ![e.req] = "stop"]
         \/ ended' = IF e.reason = "" THEN ended ELSE [ended EXCEPT ![e.req] = Finish(e.reason)]
  BY DEF ReadToken, engineVars
<1>2. Types /\ Told /\ Texts
  BY DEF IInv
<1>3. PICK r \in Range(ChoicesOf[h]) : r = e.req
  BY <1>2, TokenRead
<1>4. ended[r] = ""
  BY <1>2, <1>3, TokenRead
<1>5. r \in Request /\ HandlerOf(r) = h
  BY HomeOfChoice
<1>6. e \in Event(h)
  <2>1. events[h] \in Seq(Event(h))
    BY <1>2 DEF Types
  <2>2. e \in Range(events[h]) /\ Range(events[h]) \subseteq Event(h)
    BY <2>1, <1>1, TailOnce, RangeOfLine
  <2> QED
    BY <2>2
<1> HIDE DEF e
<1>7. e \in Tells(r) /\ e.token \in Token /\ \A p \in Request : p # r => e \notin Tells(p)
  BY <1>1, <1>3, <1>6 DEF Event, Tells, Reasons
<1>8. got \in [Request -> Seq(Token)] /\ ended \in [Request -> {"", "stop", "length"}]
      /\ tokens \in [Request -> Seq(Token)]
  BY <1>2 DEF Types, EngineTypes
<1>9. /\ got'[r] = Append(got[r], e.token)
      /\ \A p \in Request : p # r => got'[p] = got[p] /\ ended'[p] = ended[p]
      /\ ended'[r] = "length" => e.reason \in {"length", "cache"}
  <2>1. got'[r] = Append(got[r], e.token) /\ \A p \in Request : p # r => got'[p] = got[p]
    BY <1>1, <1>3, <1>5, <1>8
  <2>2. \A p \in Request : p # r => ended'[p] = ended[p]
    BY <1>1, <1>3, <1>8
  <2>3. ended'[r] = "length" => e.reason \in {"length", "cache"}
    <3>1. CASE ended' = [ended EXCEPT ![r] = "stop"]
      BY <3>1, <1>5, <1>8
    <3>2. CASE ended' = ended
      BY <3>2, <1>4
    <3>3. CASE ended' = [ended EXCEPT ![r] = Finish(e.reason)]
      <4>1. ended'[r] = Finish(e.reason)
        BY <3>3, <1>5, <1>8
      <4> QED
        BY <4>1 DEF Finish
    <3> QED
      BY <3>1, <3>2, <3>3, <1>1, <1>3
  <2> QED
    BY <2>1, <2>2, <2>3
<1>10. ASSUME NEW p \in Request, p # r
       PROVE  InOrder(p)'
  <2>1. Own(p)' = Own(p)
    BY <1>1, <1>2, <1>7, <1>10, OwnRead DEF e
  <2> QED
    BY <2>1, <1>1, <1>9, <1>10, OrderStays DEF TokensInOrder
<1>11. Own(r) # <<>> /\ Head(Own(r)) = e /\ Own(r)' = Tail(Own(r))
  BY <1>1, <1>2, <1>5, <1>7, OwnRead DEF e
<1>12. /\ Own(r) \in Seq(Tells(r)) /\ Coming(r) \in Seq(Token)
       /\ Coming(r) = [i \in 1..Len(Own(r)) |-> Own(r)[i].token]
  BY <1>2, <1>5, OwnTyped
<1>13. \A x \in Tells(r) : x.token \in Token
  BY DEF Tells
<1>14. Tail(Own(r)) \in Seq(Tells(r))
  BY <1>11, <1>12
<1>15. /\ Coming(r)' \in Seq(Token) /\ Len(Coming(r)') = Len(Tail(Own(r)))
       /\ Coming(r) = <<e.token>> \o Coming(r)'
  <2>1. Coming(r)' = [i \in 1..Len(Own(r)') |-> Own(r)'[i].token]
    BY DEF Coming, Own, Tells
  <2>2. Coming(r)' = [i \in 1..Len(Tail(Own(r))) |-> Tail(Own(r))[i].token]
    BY <2>1, <1>11
  <2>3. Coming(r)' \in Seq(Token) /\ Len(Coming(r)') = Len(Tail(Own(r)))
    BY <2>2, <1>13, <1>14, TokensOf
  <2>4. [i \in 1..Len(Own(r)) |-> Own(r)[i].token] =
          <<Head(Own(r)).token>> \o [i \in 1..Len(Tail(Own(r))) |-> Tail(Own(r))[i].token]
    BY <1>11, <1>12, <1>13, TokensOf
  <2> QED
    BY <2>2, <2>3, <2>4, <1>11, <1>12
<1>16. InOrder(r) /\ got[r] \in Seq(Token) /\ tokens[r] \in Seq(Token) /\ tokens'[r] = tokens[r]
  BY <1>1, <1>5, <1>8 DEF TokensInOrder
<1>17. got'[r] \o Coming(r)' = tokens'[r]
  <2>1. got[r] \o Coming(r) = tokens[r]
    BY <1>4, <1>16 DEF InOrder
  <2>2. Append(got[r], e.token) \o Coming(r)' = got[r] \o (<<e.token>> \o Coming(r)')
    BY <1>7, <1>15, <1>16, Passes
  <2> QED
    BY <2>1, <2>2, <1>9, <1>15, <1>16
<1>18. got'[r] \in Seq(Token)
  <2>1. \A s \in Seq(Token), x \in Token : Append(s, x) \in Seq(Token)
    OBVIOUS
  <2> QED
    BY <2>1, <1>7, <1>9, <1>16, Zenon
<1>19. StartOf(got'[r], tokens'[r])
  BY <1>7, <1>15, <1>17, <1>18, Passes
<1>20. /\ Len(Tail(Own(r))) = Len(Own(r)) - 1 /\ Len(Own(r)) \in Nat /\ Len(Own(r)) >= 1
       /\ Own(r)[1] = e
       /\ \A i \in 1..Len(Tail(Own(r))) : Tail(Own(r))[i] = Own(r)[i + 1] /\ i + 1 \in 1..Len(Own(r))
  <2>1. Tail(Own(r)) \in Seq(Tells(r)) /\ Len(Tail(Own(r))) = Len(Own(r)) - 1 /\ Head(Own(r)) = Own(r)[1]
        /\ \A i \in 1..Len(Tail(Own(r))) : Tail(Own(r))[i] = Own(r)[i + 1]
    BY <1>11, <1>12, <1>14, HeadOrTail
  <2>2. Len(Own(r)) \in Nat /\ Len(Own(r)) >= 1
    BY <1>11, <1>12
  <2> QED
    BY <2>1, <2>2, <1>11
<1>21. ASSUME NEW i \in 1..Len(Own(r)'), Own(r)'[i].reason # ""
       PROVE  i = Len(Own(r)') /\ Own(r)'[i].reason = reason'[r]
  <2>1. i + 1 \in 1..Len(Own(r)) /\ Own(r)[i + 1].reason # "" /\ Own(r)'[i] = Own(r)[i + 1]
    BY <1>11, <1>20, <1>21
  <2>2. i + 1 = Len(Own(r)) /\ Own(r)[i + 1].reason = reason[r]
    BY <2>1, <1>16 DEF InOrder
  <2>3. i = Len(Own(r)) - 1
    BY <2>2
  <2> QED
    BY <2>1, <2>2, <2>3, <1>1, <1>11, <1>20
<1>22. ended'[r] = "length" => got'[r] = tokens'[r] /\ reason'[r] \in {"length", "cache"}
  <2> SUFFICES ASSUME e.reason \in {"length", "cache"}
               PROVE  got'[r] = tokens'[r] /\ reason'[r] \in {"length", "cache"}
    BY <1>9
  <2>1. 1 \in 1..Len(Own(r)) /\ Own(r)[1].reason # ""
    <3> DEFINE n == Len(Own(r))
    <3>1. n \in Nat /\ n >= 1
      BY <1>20
    <3> HIDE DEF n
    <3>2. 1 \in 1..n
      BY <3>1
    <3>3. Own(r)[1].reason # ""
      BY <1>20
    <3> QED
      BY <3>2, <3>3 DEF n
  <2>2. 1 = Len(Own(r)) /\ Own(r)[1].reason = reason[r]
    BY <2>1, <1>16 DEF InOrder
  <2>3. Len(Coming(r)') = 0
    BY <2>2, <1>15, <1>20
  <2>4. Coming(r)' = <<>>
    BY <2>3, <1>15
  <2>5. got'[r] \o <<>> = got'[r]
    BY <1>18
  <2> QED
    BY <2>2, <2>4, <2>5, <1>1, <1>17, <1>20
<1>23. InOrder(r)'
  BY <1>17, <1>19, <1>21, <1>22 DEF InOrder, StartOf
<1> QED
  BY <1>5, <1>10, <1>23 DEF TokensInOrder

\* The engine fails, and its thread or a handler goes on with that.
LEMMA FailureInOrder ==
  ASSUME IInv, TokensInOrder, TellFailure \/ \E h \in Handler : ReadFailure(h)
  PROVE  TokensInOrder'
<1>1. UNCHANGED <<got, ended, tokens, reason>>
  BY DEF TellFailure, ReadFailure, engineVars, handlerVars, textVars
<1>2. Types
  BY DEF IInv
<1>3. ASSUME NEW r \in Request
      PROVE  Own(r)' = Own(r)
  <2>1. CASE TellFailure
    <3> DEFINE q == Head(active)  e == [req |-> q, token |-> Error, reason |-> "failed"]
    <3>1. active # <<>> /\ Tell(q, e) /\ active \in Seq(Request)
      BY <2>1, <1>2 DEF TellFailure, Types
    <3>2. q \in Request
      BY <3>1
    <3> HIDE DEF q
    <3>3. e \in Event(HandlerOf(q)) /\ e \notin Tells(r)
      BY <3>2, HomeOfChoice, ServerAssumption DEF Event, Tells
    <3> HIDE DEF e
    <3> QED
      BY <3>1, <3>2, <3>3, <1>2, OwnTold
  <2>2. CASE \E h \in Handler : ReadFailure(h)
    <3>1. PICK h \in Handler : ReadFailure(h)
      BY <2>2
    <3>2. /\ events[h] # <<>> /\ events' = [events EXCEPT ![h] = Tail(events[h])]
          /\ Head(events[h]).token = Error
      BY <3>1 DEF ReadFailure
    <3>3. Head(events[h]) \notin Tells(r)
      BY <3>2, ServerAssumption DEF Tells
    <3> QED
      BY <3>2, <3>3, <1>2, OwnRead
  <2> QED
    BY <2>1, <2>2
<1>4. ASSUME NEW r \in Request
      PROVE  InOrder(r)'
  BY <1>1, <1>3, OrderStays DEF TokensInOrder
<1> QED
  BY <1>4 DEF TokensInOrder

\* A step that moves no token; a message taken may end a request in the engine.
LEMMA OtherInOrder ==
  ASSUME TokensInOrder, UNCHANGED <<got, ended, tokens, events>>,
         \A r \in Request : reason'[r] = reason[r] \/ reason[r] = ""
  PROVE  TokensInOrder'
<1>1. ASSUME NEW r \in Request
      PROVE  InOrder(r)'
  <2>1. Own(r)' = Own(r)
    BY DEF Own, Tells
  <2> QED
    BY <2>1, OrderStays DEF TokensInOrder
<1> QED
  BY <1>1 DEF TokensInOrder

\* Each choice reads its own tokens, each once and in order: what its handler has read
\* is the start of what the engine gave it, with what is on its way all of it while
\* the choice goes on, and all of it when the choice is said to have run out of its
\* length (on_token, pieces).
THEOREM EachItsOwn == Steps => []TokensInOrder
<1>1. Init => TokensInOrder
  <2> SUFFICES ASSUME Init, NEW r \in Request  PROVE InOrder(r)
    BY DEF TokensInOrder
  <2>1. tokens[r] = <<>> /\ got[r] = <<>> /\ ended[r] = "" /\ events[HandlerOf(r)] = <<>>
    BY HomeOfChoice DEF Init, Engine!Init
  <2>2. Own(r) = <<>>
    BY <2>1, OnlyEmpty DEF Own
  <2>3. Types
    BY InitIInv DEF IInv
  <2>4. Coming(r) = <<>>
    <3>1. Coming(r) \in Seq(Token) /\ Coming(r) = [i \in 1..Len(Own(r)) |-> Own(r)[i].token]
      BY <2>3, OwnTyped
    <3>2. \A x \in Tells(r) : x.token \in Token
      BY DEF Tells
    <3>3. Len(Coming(r)) = Len(Own(r)) /\ Len(<<>>) = 0
      BY <3>1, <3>2, <2>3, OwnTyped, TokensOf
    <3> QED
      BY <3>1, <3>3, <2>2
  <2>5. <<>> \o <<>> = <<>> /\ StartOf(<<>>, <<>>)
    BY NoPlaces DEF StartOf
  <2>6. \A i \in 1..Len(Own(r)) : FALSE
    BY <2>2, NoPlaces
  <2> QED
    BY <2>1, <2>4, <2>5, <2>6 DEF InOrder
<1>2. IInv /\ TokensInOrder /\ [Next]_vars => TokensInOrder'
  <2> SUFFICES ASSUME IInv, TokensInOrder, [Next]_vars  PROVE TokensInOrder'
    OBVIOUS
  <2>1. CASE TellFailure \/ \E h \in Handler : ReadFailure(h)
    BY <2>1, FailureInOrder
  <2>2. CASE \E h \in Handler : ReadLate(h) \/ ReadToken(h)
    BY <2>2, LateInOrder, ReadInOrder
  <2>3. CASE \E r \in Request : StepEmit(r)
    BY <2>3, EmitInOrder
  <2>4. CASE StepAdmit \/ StepPreempt
    <3>1. UNCHANGED <<tokens, reason, events, got, ended>>
      BY <2>4 DEF StepAdmit, StepPreempt, Engine!Admit, Engine!Preempt, sharedVars,
                  handlerVars, textVars
    <3> QED
      BY <3>1, OtherInOrder
  <2>5. CASE TakeMessage
    <3>1. UNCHANGED <<tokens, events, got, ended>>
      BY <2>5 DEF TakeMessage, TakeSubmit, TakeCancel, Engine!Submit, Engine!Cancel, engineVars,
                  handlerVars, textVars
    <3>2. ASSUME NEW r \in Request
          PROVE  reason'[r] = reason[r] \/ reason[r] = ""
      <4>1. CASE UNCHANGED reason
        BY <4>1
      <4>2. CASE reason[Head(inbox).req] = ""
                 /\ reason' = [reason EXCEPT ![Head(inbox).req] = "cancelled"]
        BY <4>2 DEF IInv, Types, EngineTypes
      <4>3. UNCHANGED reason \/ (/\ reason[Head(inbox).req] = ""
                                 /\ reason' = [reason EXCEPT ![Head(inbox).req] = "cancelled"])
        BY <2>5 DEF TakeMessage, TakeSubmit, TakeCancel, Engine!Submit, Engine!Cancel, engineVars
      <4> QED
        BY <4>1, <4>2, <4>3
    <3> QED
      BY <3>1, <3>2, OtherInOrder
  <2>6. CASE UNCHANGED <<got, ended, tokens, events, reason>>
    BY <2>6, OtherInOrder
  <2>7. CASE RunOn \/ TakeDone \/ StepDone \/ TellDone \/ StepFails \/ Shutdown \/ Rest \/ UNCHANGED vars
    <3>1. UNCHANGED <<got, ended, tokens, events, reason>>
      BY <2>7 DEF RunOn, TakeDone, StepDone, TellDone, StepFails, Shutdown, Rest, vars, engineVars,
                  sharedVars, handlerVars, textVars
    <3> QED
      BY <3>1, <2>6
  <2>8. ASSUME NEW h \in Handler,
               \/ Generate(h) \/ Refuse(h) \/ PutSubmit(h) \/ PutCancel(h) \/ Open(h) \/ OpenFails(h)
               \/ Write(h) \/ WriteFails(h) \/ Answer(h)
        PROVE  TokensInOrder'
    <3>1. UNCHANGED <<got, ended, tokens, events, reason>>
      BY <2>8 DEF Generate, Refuse, PutSubmit, PutCancel, Put, Open, OpenFails, Write, WriteFails,
                  Answer, engineVars, sharedVars, textVars
    <3> QED
      BY <3>1, <2>6
  <2> QED
    BY <2>1, <2>2, <2>3, <2>4, <2>5, <2>7, <2>8
       DEF Next, EngineThread, EngineStep, HandlerThread
<1>3. Steps => []IInv
  BY ServerInvariant
<1> QED
  BY <1>1, <1>2, <1>3, PTL DEF Steps

-----------------------------------------------------------------------------
(* The text of tokens.                                                      *)

TextOfAll(ts) == FoldLeft(LAMBDA text, token : text \o TextOf[token], <<>>, ts)

\* What such a fold is: its value on the empty set, and on one with a greatest place.
After(g, ts, s) == IF s = {} THEN <<>> ELSE g[s \ {Max(s)}] \o TextOf[ts[Max(s)]]
Folds(g, ts) == g = [s \in SUBSET (DOMAIN ts) |-> After(g, ts, s)]

\* The greatest of the first places is the last of them.
LEMMA MaxOfFirst ==
  ASSUME NEW k \in Nat
  PROVE  Max(1..(k + 1)) = k + 1 /\ (1..(k + 1)) \ {k + 1} = 1..k /\ 1..(k + 1) # {}
<1>1. 1..(k + 1) \in SUBSET Nat /\ 1..(k + 1) # {} /\ IsFiniteSet(1..(k + 1)) /\ k + 1 \in 1..(k + 1)
  <2>1. k + 1 \in Int /\ 1 \in Int
    OBVIOUS
  <2>2. IsFiniteSet(1..(k + 1))
    BY <2>1, FS_Interval, Zenon
  <2>3. 1..(k + 1) \in SUBSET Nat /\ k + 1 \in 1..(k + 1)
    OBVIOUS
  <2> QED
    BY <2>2, <2>3
<1>2. Max(1..(k + 1)) \in 1..(k + 1) /\ k + 1 <= Max(1..(k + 1))
  BY <1>1, MaxIsGreatest
<1>3. (1..(k + 1)) \ {k + 1} = 1..k
  OBVIOUS
<1> QED
  BY <1>1, <1>2, <1>3

\* There is such a function of the first k places, for each k.
LEMMA FoldUpTo ==
  ASSUME NEW ts \in Seq(Token), NEW k \in 0..Len(ts)
  PROVE  \E g \in [SUBSET (1..k) -> Seq(Char)] : \A s \in SUBSET (1..k) : g[s] = After(g, ts, s)
<1> DEFINE Has(n) == \E g \in [SUBSET (1..n) -> Seq(Char)] :
                       \A s \in SUBSET (1..n) : g[s] = After(g, ts, s)
           bad == {n \in 0..Len(ts) : ~Has(n)}
<1>1. Has(0)
  <2> DEFINE g == [s \in SUBSET (1..0) |-> <<>>]
  <2>1. g \in [SUBSET (1..0) -> Seq(Char)]
    OBVIOUS
  <2>2. \A s \in SUBSET (1..0) : s = {} /\ g[s] = <<>>
    OBVIOUS
  <2> HIDE DEF g
  <2> QED
    BY <2>1, <2>2 DEF After
<1>2. ASSUME NEW n \in Nat, n + 1 <= Len(ts), Has(n)
      PROVE  Has(n + 1)
  <2>1. PICK g \in [SUBSET (1..n) -> Seq(Char)] : \A s \in SUBSET (1..n) : g[s] = After(g, ts, s)
    BY <1>2
  <2>2. ts[n + 1] \in Token /\ TextOf[ts[n + 1]] \in Seq(Char)
    BY <1>2, ServerAssumption
  <2>3. \A s \in SUBSET (1..(n + 1)) : s \ {n + 1} \in SUBSET (1..n)
    OBVIOUS
  <2> DEFINE f == [s \in SUBSET (1..(n + 1)) |->
                     IF n + 1 \in s THEN g[s \ {n + 1}] \o TextOf[ts[n + 1]] ELSE g[s]]
  <2>4. ASSUME NEW s \in SUBSET (1..(n + 1))
        PROVE  f[s] \in Seq(Char)
    <3>1. n + 1 \notin s => s \in SUBSET (1..n)
      OBVIOUS
    <3>2. g[s \ {n + 1}] \in Seq(Char) /\ (n + 1 \notin s => g[s] \in Seq(Char))
      BY <2>3, <3>1
    <3>3. \A a, b \in Seq(Char) : a \o b \in Seq(Char)
      OBVIOUS
    <3> QED
      BY <2>2, <3>2, <3>3
  <2>5. f \in [SUBSET (1..(n + 1)) -> Seq(Char)]
    BY <2>4
  <2>6. ASSUME NEW s \in SUBSET (1..(n + 1))
        PROVE  f[s] = After(f, ts, s)
    <3>1. CASE n + 1 \in s
      <4>1. s \in SUBSET Nat /\ s # {} /\ IsFiniteSet(s)
        <5>1. IsFiniteSet(1..(n + 1)) /\ 1..(n + 1) \subseteq Nat
          BY FS_Interval
        <5> QED
          BY <5>1, <3>1, FS_Subset
      <4>2. Max(s) = n + 1
        <5>1. Max(s) \in s /\ n + 1 <= Max(s)
          BY <3>1, <4>1, MaxIsGreatest
        <5>2. \A m \in s : m \in Int /\ m <= n + 1
          OBVIOUS
        <5>3. \A m \in Int : m <= n + 1 /\ n + 1 <= m => m = n + 1
          OBVIOUS
        <5> QED
          BY <5>1, <5>2, <5>3, Zenon
      <4>3. s \ {n + 1} \in SUBSET (1..(n + 1)) /\ n + 1 \notin s \ {n + 1}
        OBVIOUS
      <4>4. f[s \ {n + 1}] = g[s \ {n + 1}]
        BY <4>3
      <4>5. f[s] = g[s \ {n + 1}] \o TextOf[ts[n + 1]]
        BY <3>1
      <4> HIDE DEF f
      <4> QED
        BY <4>1, <4>2, <4>4, <4>5 DEF After
    <3>2. CASE n + 1 \notin s
      <4>1. s \in SUBSET (1..n) /\ f[s] = g[s]
        BY <3>2
      <4>2. CASE s = {}
        BY <4>1, <4>2, <2>1 DEF After
      <4>3. CASE s # {}
        <5>1. s \ {Max(s)} \in SUBSET (1..(n + 1)) /\ n + 1 \notin s \ {Max(s)}
          BY <3>2
        <5>2. f[s \ {Max(s)}] = g[s \ {Max(s)}]
          BY <5>1
        <5>3. g[s] = g[s \ {Max(s)}] \o TextOf[ts[Max(s)]]
          BY <4>1, <4>3, <2>1 DEF After
        <5> HIDE DEF f
        <5> QED
          BY <4>1, <4>3, <5>2, <5>3 DEF After
      <4> QED
        BY <4>2, <4>3
    <3> QED
      BY <3>1, <3>2
  <2> HIDE DEF f
  <2> QED
    BY <2>5, <2>6
<1> HIDE DEF Has
<1>3. bad = {}
  <2> SUFFICES ASSUME bad # {}  PROVE FALSE
    OBVIOUS
  <2>1. bad \in SUBSET Nat
    OBVIOUS
  <2>2. PICK n \in bad : \A m \in bad : n <= m
    BY <2>1, LeastElement
  <2>3. n \in Nat /\ n # 0 /\ n <= Len(ts)
    BY <1>1
  <2>4. n - 1 \in Nat /\ n - 1 \in 0..Len(ts) /\ (n - 1) + 1 = n /\ ~(n <= n - 1)
    BY <2>3
  <2>5. Has(n - 1)
    BY <2>2, <2>4
  <2> QED
    BY <2>3, <2>4, <2>5, <1>2
<1> QED
  BY <1>3 DEF Has

\* The text of tokens is such a function at all places.
LEMMA TextFolds ==
  ASSUME NEW ts \in Seq(Token)
  PROVE  \E g : Folds(g, ts) /\ TextOfAll(ts) = g[1..Len(ts)]
<1> DEFINE c == CHOOSE g : Folds(g, ts)
<1>1. PICK g \in [SUBSET (1..Len(ts)) -> Seq(Char)] :
        \A s \in SUBSET (1..Len(ts)) : g[s] = After(g, ts, s)
  <2>1. Len(ts) \in 0..Len(ts)
    OBVIOUS
  <2> QED
    BY <2>1, FoldUpTo
<1>2. DOMAIN ts = 1..Len(ts)
  OBVIOUS
<1>3. Folds(g, ts)
  <2>1. g = [s \in SUBSET (1..Len(ts)) |-> g[s]]
    OBVIOUS
  <2>2. [s \in SUBSET (1..Len(ts)) |-> g[s]] = [s \in SUBSET (1..Len(ts)) |-> After(g, ts, s)]
    BY <1>1, Zenon
  <2> QED
    BY <2>1, <2>2, <1>2, Zenon DEF Folds
<1>4. Folds(c, ts)
  BY <1>3
<1>5. TextOfAll(ts) = c[DOMAIN ts]
  BY DEF TextOfAll, FoldLeft, MapThenFoldSet, Folds, After
<1> QED
  BY <1>2, <1>4, <1>5

\* No tokens have no text.
LEMMA TextOfEmpty == TextOfAll(<<>>) = <<>>
<1>1. <<>> \in Seq(Token) /\ Len(<<>>) = 0 /\ DOMAIN <<>> = {} /\ 1..0 = {}
  OBVIOUS
<1>2. PICK h : Folds(h, <<>>) /\ TextOfAll(<<>>) = h[1..0]
  BY <1>1, TextFolds
<1>3. h = [s \in SUBSET {} |-> After(h, <<>>, s)]
  BY <1>1, <1>2 DEF Folds
<1>4. h[{}] = After(h, <<>>, {})
  BY <1>3
<1> QED
  BY <1>1, <1>2, <1>4 DEF After

\* It grows by the text of each token.
LEMMA TextOfMore ==
  ASSUME NEW ts \in Seq(Token), NEW t \in Token
  PROVE  /\ TextOfAll(ts) \in Seq(Char)
         /\ TextOfAll(Append(ts, t)) = TextOfAll(ts) \o TextOf[t]
<1>1. ASSUME NEW us \in Seq(Token), NEW g, Folds(g, us)
      PROVE  /\ g[1..0] = <<>>
             /\ \A k \in Nat : k + 1 <= Len(us) => g[1..(k + 1)] = g[1..k] \o TextOf[us[k + 1]]
  <2>1. \A s \in SUBSET (1..Len(us)) : g[s] = After(g, us, s)
    <3>1. DOMAIN us = 1..Len(us)
      OBVIOUS
    <3> QED
      BY <1>1, <3>1, Zenon DEF Folds
  <2>2. 1..0 \in SUBSET (1..Len(us)) /\ 1..0 = {}
    OBVIOUS
  <2>3. ASSUME NEW k \in Nat, k + 1 <= Len(us)
        PROVE  g[1..(k + 1)] = g[1..k] \o TextOf[us[k + 1]]
    <3>1. 1..(k + 1) \in SUBSET (1..Len(us))
      BY <2>3
    <3>2. g[1..(k + 1)] = After(g, us, 1..(k + 1))
      BY <2>1, <3>1, Zenon
    <3>3. Max(1..(k + 1)) = k + 1 /\ (1..(k + 1)) \ {k + 1} = 1..k /\ 1..(k + 1) # {}
      BY MaxOfFirst
    <3> QED
      BY <3>2, <3>3, Zenon DEF After
  <2> QED
    BY <2>1, <2>2, <2>3 DEF After
<1>2. PICK f : Folds(f, ts) /\ TextOfAll(ts) = f[1..Len(ts)]
  BY TextFolds
<1>3. /\ Append(ts, t) \in Seq(Token) /\ Len(Append(ts, t)) = Len(ts) + 1 /\ Len(ts) \in Nat
      /\ Append(ts, t)[Len(ts) + 1] = t /\ \A i \in 1..Len(ts) : Append(ts, t)[i] = ts[i]
  OBVIOUS
<1>4. PICK g : Folds(g, Append(ts, t)) /\ TextOfAll(Append(ts, t)) = g[1..(Len(ts) + 1)]
  BY <1>3, TextFolds
<1>5. \A k \in 0..Len(ts) : f[1..k] = g[1..k] /\ f[1..k] \in Seq(Char)
  <2> DEFINE Same(k) == f[1..k] = g[1..k] /\ f[1..k] \in Seq(Char)
             bad == {k \in 0..Len(ts) : ~Same(k)}
  <2>1. Same(0)
    <3>1. f[1..0] = <<>> /\ g[1..0] = <<>>
      BY <1>1, <1>2, <1>3, <1>4
    <3> QED
      BY <3>1
  <2>2. ASSUME NEW k \in Nat, k + 1 <= Len(ts), Same(k)
        PROVE  Same(k + 1)
    <3>1. f[1..(k + 1)] = f[1..k] \o TextOf[ts[k + 1]]
      BY <1>1, <1>2, <2>2
    <3>2. g[1..(k + 1)] = g[1..k] \o TextOf[Append(ts, t)[k + 1]]
      <4>1. k + 1 <= Len(Append(ts, t))
        BY <1>3, <2>2
      <4> QED
        BY <1>1, <1>3, <1>4, <4>1, Zenon
    <3>3. k + 1 \in 1..Len(ts)
      BY <2>2
    <3>4. ts[k + 1] \in Token
      BY <3>3
    <3>5. TextOf[ts[k + 1]] \in Seq(Char) /\ Append(ts, t)[k + 1] = ts[k + 1]
      BY <1>3, <3>3, <3>4, ServerAssumption
    <3>6. \A a, b \in Seq(Char) : a \o b \in Seq(Char)
      OBVIOUS
    <3> QED
      BY <2>2, <3>1, <3>2, <3>5, <3>6
  <2> HIDE DEF Same
  <2>3. bad = {}
    <3> SUFFICES ASSUME bad # {}  PROVE FALSE
      OBVIOUS
    <3>1. bad \in SUBSET Nat
      OBVIOUS
    <3>2. PICK n \in bad : \A m \in bad : n <= m
      BY <3>1, LeastElement
    <3>3. n \in Nat /\ n # 0 /\ n <= Len(ts)
      BY <2>1
    <3>4. n - 1 \in Nat /\ n - 1 \in 0..Len(ts) /\ (n - 1) + 1 = n /\ ~(n <= n - 1)
      BY <3>3
    <3>5. Same(n - 1)
      BY <3>2, <3>4
    <3> QED
      BY <3>3, <3>4, <3>5, <2>2
  <2> QED
    BY <2>3 DEF Same
<1>6. TextOfAll(ts) \in Seq(Char) /\ f[1..Len(ts)] = g[1..Len(ts)]
  <2>1. Len(ts) \in 0..Len(ts)
    BY <1>3
  <2> QED
    BY <2>1, <1>2, <1>5
<1>7. TextOfAll(Append(ts, t)) = TextOfAll(ts) \o TextOf[t]
  <2>1. g[1..(Len(ts) + 1)] = g[1..Len(ts)] \o TextOf[Append(ts, t)[Len(ts) + 1]]
    <3>1. Len(ts) + 1 <= Len(Append(ts, t))
      BY <1>3
    <3> QED
      BY <1>1, <1>3, <1>4, <3>1, Zenon
  <2> QED
    BY <2>1, <1>2, <1>3, <1>4, <1>6
<1> QED
  BY <1>6, <1>7

-----------------------------------------------------------------------------
(* What is sent, and what a choice ends with.                               *)

\* A token that ends a text is told as its end, and no other is.
EosTold ==
  \A h \in Handler : \A e \in Range(events[h]) :
    e.token # Error => (e.reason = "eos" <=> e.token \in Eos)

\* What SentStopsShort says of a choice.
Shown(r) ==
  /\ SubSeq(written[r], 1, sent[r]) = SubSeq(TextRead(r), 1, sent[r])
  /\ sent[r] <= FirstStop(r)
  /\ ended[r] # "" => sent[r] = FirstStop(r)
  /\ FirstStop(r) < Len(TextRead(r)) => ended[r] # ""

\* The text of a choice that goes on is that of its tokens, none of which ends it.
GoesOn(r) ==
  ended[r] = "" =>
    /\ got[r] = <<>> \/ Last(got[r]) \notin Eos
    /\ written[r] = TextOfAll(got[r])

\* A choice that ended without a stop string has all its tokens, and the reason.
EndsWhole(r) ==
  ended[r] # "" /\ ~WasCut(r) =>
    /\ Own(r) = <<>> /\ got[r] = tokens[r]
    /\ reason[r] # "" /\ ended[r] = Finish(reason[r])

SaidInv == EosTold /\ \A r \in Request : Shown(r) /\ GoesOn(r) /\ EndsWhole(r)

\* The text read is that of the tokens but one that ends it.
LEMMA TextReadOf ==
  ASSUME NEW r
  PROVE  TextRead(r) = TextOfAll(IF got[r] # <<>> /\ Last(got[r]) \in Eos THEN Front(got[r]) ELSE got[r])
BY DEF TextRead, TextOfAll

\* And so after a step.
LEMMA TextReadNext ==
  ASSUME NEW r
  PROVE  TextRead(r)' =
           TextOfAll(IF got'[r] # <<>> /\ Last(got'[r]) \in Eos THEN Front(got'[r]) ELSE got'[r])
BY DEF TextRead, TextOfAll, FoldLeft, MapThenFoldSet

\* The same of a choice that goes on.
LEMMA GoesOnNext ==
  ASSUME NEW r
  PROVE  GoesOn(r)' <=> (ended'[r] = "" =>
                           /\ got'[r] = <<>> \/ Last(got'[r]) \notin Eos
                           /\ written'[r] = TextOfAll(got'[r]))
BY DEF GoesOn, TextOfAll, FoldLeft, MapThenFoldSet

\* A token adds its text, unless it ends it.
LEMMA TextReadMore ==
  ASSUME NEW r, NEW gets \in Seq(Token), NEW t \in Token, got'[r] = Append(gets, t)
  PROVE  TextRead(r)' = IF t \in Eos THEN TextOfAll(gets) ELSE TextOfAll(Append(gets, t))
<1>1. /\ Append(gets, t) \in Seq(Token) /\ Len(Append(gets, t)) = Len(gets) + 1 /\ Len(gets) \in Nat
      /\ Append(gets, t)[Len(gets) + 1] = t /\ Append(gets, t) # <<>>
  OBVIOUS
<1>2. Last(Append(gets, t)) = t
  BY <1>1 DEF Last
<1>3. Front(Append(gets, t)) = gets
  BY <1>1 DEF Front
<1> QED
  BY <1>1, <1>2, <1>3, TextReadNext

\* What a step leaves of a choice as it is stays as true as it was.
LEMMA SaidStays ==
  ASSUME NEW r, got'[r] = got[r], written'[r] = written[r], sent'[r] = sent[r], ended'[r] = ended[r]
  PROVE  /\ TextRead(r)' = TextRead(r) /\ (WasCut(r)' <=> WasCut(r))
         /\ (Shown(r) => Shown(r)') /\ (GoesOn(r) => GoesOn(r)')
<1>1. TextRead(r)' = TextRead(r)
  BY TextReadOf, TextReadNext
<1>2. WasCut(r)' <=> WasCut(r)
  BY <1>1 DEF WasCut, Found
<1>3. FirstStop(r)' = FirstStop(r)
  BY <1>1 DEF FirstStop, Found
<1>4. Shown(r) => Shown(r)'
  BY <1>1, <1>3 DEF Shown
<1>5. GoesOn(r) => GoesOn(r)'
  BY GoesOnNext DEF GoesOn
<1> QED
  BY <1>1, <1>2, <1>4, <1>5

\* The start of a text, place by place, is its prefix.
LEMMA StartIsPrefix ==
  ASSUME NEW a \in Seq(Token), NEW b \in Seq(Token), StartOf(a, b)
  PROVE  IsPrefix(a, b)
<1>1. Len(a) \in Nat /\ Len(b) \in Nat /\ Len(a) <= Len(b) /\ \A i \in 1..Len(a) : a[i] = b[i]
  BY DEF StartOf
<1> DEFINE n == Len(a)  x == SubSeq(a, 1, n)  y == SubSeq(b, 1, n)
<1>2. x \in Seq(Token) /\ Len(x) = n /\ \A i \in 1..n : x[i] = a[i]
  OBVIOUS
<1>3. y \in Seq(Token) /\ Len(y) = n /\ \A i \in 1..n : y[i] = b[i]
  BY <1>1
<1> HIDE DEF n, x, y
<1>4. x = y
  BY <1>1, <1>2, <1>3, SeqEqual DEF n
<1> QED
  BY <1>1, <1>4 DEF IsPrefix, n, x, y

\* Of a choice that goes on, whose text stops short of every stop string, the first
\* stop string of the text with a token more is the first found, or its end.
LEMMA FirstFound ==
  ASSUME NEW n \in Nat, NEW cuts \in SUBSET (0..n)
  PROVE  /\ cuts = {} => Min(cuts \cup {n}) = n
         /\ cuts # {} => Min(cuts \cup {n}) = Min(cuts) /\ Min(cuts) \in cuts
<1>1. \A c \in cuts : c \in Nat /\ c <= n
  OBVIOUS
<1>2. cuts \cup {n} \in SUBSET Nat /\ cuts \cup {n} # {} /\ cuts \in SUBSET Nat
  BY <1>1
<1> DEFINE m == Min(cuts \cup {n})  c == Min(cuts)
<1>3. m \in cuts \cup {n} /\ \A x \in cuts \cup {n} : m <= x
  BY <1>2, MinIsLeast
<1>4. cuts # {} => c \in cuts /\ \A x \in cuts : c <= x
  BY <1>2, MinIsLeast
<1> HIDE DEF m, c
<1>5. cuts = {} => m = n
  BY <1>3
<1>6. cuts # {} => m = c
  <2> SUFFICES ASSUME cuts # {}  PROVE m = c
    OBVIOUS
  <2>1. c \in Nat /\ c <= n /\ m \in Nat /\ m <= c
    BY <1>1, <1>2, <1>3, <1>4
  <2>2. c <= m
    BY <1>3, <1>4, <2>1
  <2> QED
    BY <2>1, <2>2
<1> QED
  BY <1>4, <1>5, <1>6 DEF m, c

\* A token more is the last.
LEMMA LastOfMore ==
  ASSUME NEW s \in Seq(Token), NEW x \in Token
  PROVE  Last(Append(s, x)) = x
<1>1. Append(s, x)[Len(Append(s, x))] = x
  OBVIOUS
<1> QED
  BY <1>1 DEF Last

\* Numbers in order.
LEMMA Between ==
  ASSUME NEW a \in Nat, NEW b \in Nat, NEW c \in Nat, a <= b, b <= c
  PROVE  c >= a /\ a \in Int /\ c \in Int
OBVIOUS

\* A line of one.
LEMMA LineOfOne ==
  ASSUME NEW S, NEW own \in Seq(S), own # <<>>
  PROVE  /\ 1 \in 1..Len(own) /\ own[1] = Head(own)
         /\ Len(own) = 1 => 1..Len(own) = {1} /\ Tail(own) = <<>>
<1>1. Len(own) \in Nat /\ Len(own) >= 1 /\ own[1] = Head(own)
  OBVIOUS
<1>2. ASSUME Len(own) = 1
      PROVE  Tail(own) = <<>>
  <2>1. Tail(own) \in Seq(S) /\ Len(Tail(own)) = 0
    BY <1>2
  <2> DEFINE rest == Tail(own)
  <2>2. rest \in Seq(S) /\ Len(rest) = 0
    BY <2>1
  <2> HIDE DEF rest
  <2>3. rest = <<>>
    BY <2>2
  <2> QED
    BY <2>3 DEF rest
<1>3. 1 \in 1..Len(own) /\ (Len(own) = 1 => 1..Len(own) = {1})
  <2> DEFINE n == Len(own)
  <2>1. n \in Nat /\ n >= 1
    BY <1>1
  <2> HIDE DEF n
  <2>2. 1 \in 1..n /\ (n = 1 => 1..n = {1})
    BY <2>1
  <2> QED
    BY <2>2 DEF n
<1> QED
  BY <1>1, <1>2, <1>3

\* A token more, the one of a line of one.
LEMMA MoreIsJoined ==
  ASSUME NEW s \in Seq(Token), NEW x \in Token
  PROVE  Append(s, x) = s \o [i \in {1} |-> x]
<1>1. [i \in {1} |-> x] = <<x>>
  <2> DEFINE one == [i \in {1} |-> x]
  <2>1. one = [i \in 1..1 |-> x]
    OBVIOUS
  <2>2. one \in Seq(Token) /\ Len(one) = 1 /\ one[1] = x
    BY <2>1
  <2>3. <<x>> \in Seq(Token) /\ Len(<<x>>) = 1 /\ <<x>>[1] = x
    OBVIOUS
  <2> HIDE DEF one
  <2> QED
    BY <2>2, <2>3, SeqEqual
<1>2. Append(s, x) = s \o <<x>>
  <2> DEFINE a == Append(s, x)  b == s \o <<x>>  n == Len(s)
  <2>1. n \in Nat /\ a \in Seq(Token) /\ Len(a) = n + 1 /\ a[n + 1] = x
        /\ \A i \in 1..n : a[i] = s[i]
    OBVIOUS
  <2>2. b \in Seq(Token) /\ Len(b) = n + 1 /\ b[n + 1] = x /\ \A i \in 1..n : b[i] = s[i]
    OBVIOUS
  <2> HIDE DEF a, b, n
  <2>3. \A i \in 1..(n + 1) : i \in 1..n \/ i = n + 1
    BY <2>1
  <2>4. \A i \in 1..(n + 1) : a[i] = b[i]
    BY <2>1, <2>2, <2>3
  <2>5. a = b
    BY <2>1, <2>2, <2>4, SeqEqual
  <2> QED
    BY <2>5 DEF a, b
<1> QED
  BY <1>1, <1>2

\* What a token read does to what is sent of its choice.
LEMMA TokenSaid ==
  ASSUME IInv, SaidInv, NEW h \in Handler, ReadToken(h), NEW r \in Request, r = Head(events[h]).req
  PROVE  /\ Shown(r)' /\ GoesOn(r)'
         /\ ended'[r] # "" => \/ WasCut(r)'
                              \/ /\ Head(events[h]).reason # ""
                                 /\ ended'[r] = Finish(Head(events[h]).reason)
<1> DEFINE event == Head(events[h])
           old   == written[r]
           more  == IF event.reason = "eos" THEN <<>> ELSE TextOf[event.token]
           text  == IF event.reason = "eos" THEN written[r] ELSE written[r] \o TextOf[event.token]
           cuts  == Found(text, Stop[h], Max({0, sent[r] - Hold(h)}))
           end   == IF ended'[r] # "" THEN Len(written'[r]) ELSE Len(text) - Hold(h)
<1>1. /\ event.token # Error /\ ended[r] = "" /\ events[h] # <<>>
      /\ \/ /\ cuts # {}
            /\ written' = [written EXCEPT ![r] = SubSeq(text, 1, Min(cuts))]
            /\ ended' = [ended EXCEPT ![r] = "stop"]
         \/ /\ cuts = {}
            /\ written' = [written EXCEPT ![r] = text]
            /\ ended' = IF event.reason = "" THEN ended
                        ELSE [ended EXCEPT ![r] = Finish(event.reason)]
      /\ sent' = [sent EXCEPT ![r] = Max({end, sent[r]})]
      /\ got' = [got EXCEPT ![r] = Append(got[r], event.token)]
  BY DEF ReadToken, Sendable
<1>2. Types /\ Told /\ Texts /\ EosTold /\ Shown(r) /\ GoesOn(r) /\ TextFits(r)
  BY DEF IInv, SaidInv, Texts
<1>3. event \in Event(h) /\ event \in Range(events[h])
  <2>1. events[h] \in Seq(Event(h)) /\ events[h] # <<>>
    BY <1>1, <1>2 DEF Types
  <2> QED
    BY <2>1, TailOnce, RangeOfLine
<1>4. TextFits(r)' /\ r \in Range(ChoicesOf[h])
  BY <1>2, TokenRead
<1> HIDE DEF event
<1>5. event.token \in Token /\ (event.reason = "eos" <=> event.token \in Eos)
  BY <1>1, <1>2, <1>3 DEF Event, EosTold
<1>6. HandlerOf(r) = h
  BY <1>4, HomeOfChoice
<1>7. /\ written \in [Request -> Seq(Char)] /\ sent \in [Request -> Nat]
      /\ ended \in [Request -> {"", "stop", "length"}] /\ got \in [Request -> Seq(Token)]
  BY <1>2 DEF Types
<1>8. old \in Seq(Char) /\ sent[r] \in Nat /\ Len(old) \in Nat /\ got[r] \in Seq(Token)
  <2>1. old \in Seq(Char) /\ sent[r] \in Nat /\ got[r] \in Seq(Token)
    BY <1>7
  <2> HIDE DEF old
  <2> QED
    BY <2>1
<1>9. more \in Seq(Char)
  BY <1>5, ServerAssumption
<1>10. text = old \o more
  <2>1. CASE event.reason = "eos"
    <3>1. old \o <<>> = old
      BY <1>8
    <3> QED
      BY <2>1, <3>1
  <2>2. CASE event.reason # "eos"
    BY <2>2
  <2> QED
    BY <2>1, <2>2
<1>11. /\ sent[r] <= Len(old) /\ Found(old, Stop[h], 0) = {}
       /\ sent[r] = 0 \/ sent[r] + Hold(h) <= Len(old)
  BY <1>1, <1>2, <1>6 DEF TextFits
<1>12. got'[r] = Append(got[r], event.token) /\ written[r] = TextOfAll(got[r])
  BY <1>1, <1>2, <1>7 DEF GoesOn
<1>13. TextRead(r)' = text /\ (event.token \notin Eos => text = TextOfAll(got'[r]))
  <2>1. TextOfAll(Append(got[r], event.token)) = TextOfAll(got[r]) \o TextOf[event.token]
    BY <1>5, <1>8, TextOfMore
  <2>2. TextRead(r)' = IF event.token \in Eos THEN TextOfAll(got[r])
                       ELSE TextOfAll(Append(got[r], event.token))
    BY <1>5, <1>8, <1>12, TextReadMore
  <2>3. text = IF event.token \in Eos THEN TextOfAll(got[r])
               ELSE TextOfAll(got[r]) \o TextOf[event.token]
    BY <1>5, <1>12
  <2> QED
    BY <1>12, <2>1, <2>2, <2>3, Zenon
<1> HIDE DEF old, more, text
<1>14. /\ text \in Seq(Char) /\ Len(old) <= Len(text)
       /\ cuts \subseteq 0..Len(text) /\ \A i \in cuts : sent[r] <= i
       /\ cuts = Found(text, Stop[h], 0)
  BY <1>8, <1>9, <1>10, <1>11, FoundPastSent
<1>15. Len(text) \in Nat
  BY <1>14
<1>16. Found(TextRead(r)', Stop[HandlerOf(r)], 0) = cuts
  BY <1>6, <1>13, <1>14
<1>17. FirstStop(r)' = Min(cuts \cup {Len(text)})
  BY <1>13, <1>16 DEF FirstStop, Found
<1>18. WasCut(r)' <=> ended'[r] = "stop" /\ cuts # {}
  BY <1>16 DEF WasCut, Found
<1> HIDE DEF cuts, end
<1>19. CASE cuts # {}
  <2> DEFINE cut == Min(cuts)
  <2>1. cut \in cuts /\ FirstStop(r)' = cut
    BY <1>14, <1>15, <1>17, <1>19, FirstFound
  <2> HIDE DEF cut
  <2>2. cut \in 0..Len(text) /\ sent[r] <= cut
    BY <2>1, <1>14
  <2> DEFINE w == SubSeq(text, 1, cut)
  <2>3. /\ w \in Seq(Char) /\ Len(w) = cut /\ SubSeq(w, 1, cut) = SubSeq(text, 1, cut)
    <3>1. text \o <<>> = text /\ cut \in cut..Len(text) /\ <<>> \in Seq(Char)
      BY <2>2, <1>14, <1>15
    <3> QED
      BY <2>2, <3>1, <1>14, StartStays
  <2>4. /\ written' = [written EXCEPT ![r] = w] /\ ended' = [ended EXCEPT ![r] = "stop"]
    BY <1>1, <1>19 DEF cut
  <2> HIDE DEF w
  <2>5. written'[r] = w /\ ended'[r] = "stop"
    BY <2>4, <1>7
  <2>6. end = cut
    BY <2>3, <2>5 DEF end
  <2>7. Max({end, sent[r]}) = cut
    <3>1. cut \in Int /\ sent[r] \in Int /\ cut >= sent[r]
      BY <2>2, <1>8, <1>15
    <3> QED
      BY <3>1, <2>6, MaxOfTwo
  <2>8. sent'[r] = cut
    BY <2>7, <1>1, <1>7
  <2>9. SubSeq(written'[r], 1, sent'[r]) = SubSeq(TextRead(r)', 1, sent'[r])
    BY <2>3, <2>5, <2>8, <1>13 DEF w
  <2>10. cut <= cut
    BY <2>2, <1>15
  <2>11. Shown(r)'
    BY <2>1, <2>5, <2>8, <2>9, <2>10 DEF Shown
  <2>12. GoesOn(r)'
    BY <2>5, GoesOnNext
  <2> QED
    BY <2>5, <2>11, <2>12, <1>18, <1>19
<1>20. CASE cuts = {}
  <2>1. /\ written' = [written EXCEPT ![r] = text]
        /\ ended' = IF event.reason = "" THEN ended ELSE [ended EXCEPT ![r] = Finish(event.reason)]
    BY <1>1, <1>20
  <2>2. written'[r] = text /\ FirstStop(r)' = Len(text)
    <3>1. FirstStop(r)' = Len(text)
      BY <1>14, <1>15, <1>17, <1>20, FirstFound
    <3> QED
      BY <2>1, <3>1, <1>7
  <2>3. ended'[r] = IF event.reason = "" THEN "" ELSE Finish(event.reason)
    BY <2>1, <1>1, <1>7
  <2>4. Finish(event.reason) # ""
    BY DEF Finish
  <2>5. sent'[r] <= Len(text)
    BY <1>4, <2>2 DEF TextFits
  <2>6. ended'[r] # "" => sent'[r] = Len(text)
    <3> SUFFICES ASSUME ended'[r] # ""  PROVE sent'[r] = Len(text)
      OBVIOUS
    <3>1. end = Len(text)
      BY <2>2 DEF end
    <3>2. Len(text) \in Int /\ sent[r] \in Int /\ Len(text) >= sent[r]
      <4>1. sent[r] \in Nat /\ Len(old) \in Nat /\ Len(text) \in Nat
        BY <1>8, <1>15
      <4>2. sent[r] <= Len(old) /\ Len(old) <= Len(text)
        BY <1>11, <1>14
      <4> QED
        BY <4>1, <4>2, Between, Zenon
    <3>3. Max({end, sent[r]}) = Len(text)
      BY <3>1, <3>2, MaxOfTwo
    <3> QED
      BY <3>3, <1>1, <1>7
  <2>7. Shown(r)'
    <3>1. ~(Len(text) < Len(text))
      BY <1>15
    <3>2. SubSeq(written'[r], 1, sent'[r]) = SubSeq(TextRead(r)', 1, sent'[r])
      BY <1>13, <2>2
    <3> QED
      BY <1>13, <2>2, <2>5, <2>6, <3>1, <3>2 DEF Shown
  <2>8. GoesOn(r)'
    <3> SUFFICES ASSUME ended'[r] = ""
                 PROVE  /\ got'[r] = <<>> \/ Last(got'[r]) \notin Eos
                        /\ written'[r] = TextOfAll(got'[r])
      BY GoesOnNext
    <3>1. event.token \notin Eos
      BY <2>3, <2>4, <1>5
    <3>2. Last(Append(got[r], event.token)) = event.token
      BY <1>5, <1>8, LastOfMore
    <3> QED
      BY <1>12, <1>13, <2>2, <3>1, <3>2
  <2>9. ended'[r] # "" => event.reason # "" /\ ended'[r] = Finish(event.reason)
    BY <2>3
  <2> QED
    BY <2>7, <2>8, <2>9 DEF event
<1> QED
  BY <1>19, <1>20

\* A choice that has ended without a stop string is no longer told of.
LEMMA EndsStay ==
  ASSUME NEW r, EndsWhole(r), WasCut(r)' <=> WasCut(r), ended'[r] = ended[r],
         got'[r] = got[r], tokens'[r] = tokens[r], Own(r)' = Own(r),
         reason'[r] = reason[r] \/ reason[r] = ""
  PROVE  EndsWhole(r)'
BY DEF EndsWhole, Finish

\* A step that moves no token.
LEMMA OtherSaid ==
  ASSUME Types, SaidInv, UNCHANGED <<got, written, sent, ended, tokens>>,
         \A r \in Request : reason'[r] = reason[r] \/ reason[r] = "",
         \A r \in Request : Own(r)' = Own(r), EosTold'
  PROVE  SaidInv'
<1>1. ASSUME NEW r \in Request
      PROVE  Shown(r)' /\ GoesOn(r)' /\ EndsWhole(r)'
  <2>1. /\ Shown(r) /\ GoesOn(r) /\ EndsWhole(r) /\ Own(r)' = Own(r)
        /\ reason'[r] = reason[r] \/ reason[r] = ""
    BY DEF SaidInv
  <2>2. /\ got'[r] = got[r] /\ written'[r] = written[r] /\ sent'[r] = sent[r]
        /\ ended'[r] = ended[r] /\ tokens'[r] = tokens[r]
    OBVIOUS
  <2>3. (WasCut(r)' <=> WasCut(r)) /\ Shown(r)' /\ GoesOn(r)'
    BY <2>1, <2>2, SaidStays
  <2> QED
    BY <2>1, <2>2, <2>3, EndsStay
<1> QED
  BY <1>1 DEF SaidInv

\* Less told is as true.
LEMMA EosStays ==
  ASSUME EosTold, \A h \in Handler : Range(events'[h]) \subseteq Range(events[h])
  PROVE  EosTold'
BY DEF EosTold

\* The engine gives r a token: it ends the text if it is one that does.
LEMMA EmitSaid ==
  ASSUME IInv, SaidInv, NEW r \in Request, StepEmit(r)
  PROVE  SaidInv'
<1> DEFINE e == TokenOf(r)
<1>1. UNCHANGED <<got, ended, written, sent>> /\ Engine!Emit(r) /\ Tell(r, e)
  BY DEF StepEmit, handlerVars, textVars
<1>2. Types /\ Rows /\ EngineTypes /\ EosTold /\ EventTypes
  BY DEF IInv, Types, SaidInv, EventTypes
<1>3. reason[r] = ""
  BY <1>1, <1>2, EmitRows
<1>4. PICK t \in Token :
        /\ tokens' = [tokens EXCEPT ![r] = Append(tokens[r], t)]
        /\ reason' = [reason EXCEPT ![r] = Engine!Verdict(r, Append(tokens[r], t))]
  BY <1>1, EngineLines DEF Engine!Emit
<1>5. tokens \in [Request -> Seq(Token)] /\ reason \in [Request -> Reasons \cup {"cancelled"}]
  BY <1>2 DEF EngineTypes
<1> DEFINE why == Engine!Verdict(r, Append(tokens[r], t))
<1>6. Last(Append(tokens[r], t)) = t /\ tokens[r] \in Seq(Token)
  <2>1. tokens[r] \in Seq(Token)
    BY <1>5
  <2> QED
    BY <2>1, LastOfMore
<1>7. why \in Reasons /\ (why = "eos" <=> t \in Eos)
  BY <1>6, EngineLines DEF Engine!Verdict, Reasons
<1> HIDE DEF why
<1>8. /\ reason'[r] = why /\ tokens'[r] = Append(tokens[r], t)
      /\ \A p \in Request : p # r => reason'[p] = reason[p] /\ tokens'[p] = tokens[p]
  BY <1>4, <1>5 DEF why
<1>9. e = [req |-> r, token |-> t, reason |-> why]
  BY <1>6, <1>8 DEF TokenOf
<1> HIDE DEF e
<1>10. /\ e \in Event(HandlerOf(r)) /\ e.token = t /\ e.reason = why
       /\ \A p \in Request : p # r => e \notin Tells(p)
  BY <1>7, <1>9, HomeOfChoice DEF Event, Tells
<1>11. EosTold'
  <2>1. \A h \in Handler : \A x \in Range(events'[h]) : x \in Range(events[h]) \/ x = e
    BY <1>1, <1>2, <1>10, TellMore
  <2> QED
    BY <2>1, <1>2, <1>7, <1>10 DEF EosTold
<1>12. ASSUME NEW p \in Request
       PROVE  Shown(p)' /\ GoesOn(p)' /\ EndsWhole(p)'
  <2>1. Shown(p) /\ GoesOn(p) /\ EndsWhole(p)
    BY DEF SaidInv
  <2>2. got'[p] = got[p] /\ written'[p] = written[p] /\ sent'[p] = sent[p] /\ ended'[p] = ended[p]
    BY <1>1
  <2>3. Shown(p)' /\ GoesOn(p)' /\ (WasCut(p)' <=> WasCut(p))
    BY <2>1, <2>2, SaidStays
  <2>4. CASE p # r
    <3>1. Own(p)' = Own(p)
      BY <1>1, <1>2, <1>10, <2>4, OwnTold
    <3> QED
      BY <2>1, <2>2, <2>3, <2>4, <3>1, <1>8, EndsStay
  <2>5. CASE p = r
    <3>1. ~(ended[p] # "" /\ ~WasCut(p))
      BY <1>3, <2>1, <2>5 DEF EndsWhole
    <3>2. ~(ended'[p] # "" /\ ~WasCut(p)')
      BY <2>2, <2>3, <3>1
    <3> QED
      BY <2>3, <3>2 DEF EndsWhole
  <2> QED
    BY <2>3, <2>4, <2>5
<1> QED
  BY <1>11, <1>12 DEF SaidInv

\* A handler reads a token that comes too late: a stop string has cut its choice.
LEMMA LateSaid ==
  ASSUME IInv, SaidInv, NEW h \in Handler, ReadLate(h)
  PROVE  SaidInv'
<1> DEFINE e == Head(events[h])
<1>1. /\ UNCHANGED <<got, ended, written, sent, tokens, reason>> /\ events[h] # <<>>
      /\ events' = [events EXCEPT ![h] = Tail(events[h])] /\ ended[e.req] # ""
  BY DEF ReadLate, engineVars, handlerVars, textVars
<1>2. Types /\ EventTypes /\ EosTold
  BY DEF IInv, Types, EventTypes, SaidInv
<1>3. EosTold'
  BY <1>1, <1>2, ReadLess, EosStays
<1> HIDE DEF e
<1>4. ASSUME NEW p \in Request
      PROVE  Shown(p)' /\ GoesOn(p)' /\ EndsWhole(p)'
  <2>1. Shown(p) /\ GoesOn(p) /\ EndsWhole(p)
    BY DEF SaidInv
  <2>2. got'[p] = got[p] /\ written'[p] = written[p] /\ sent'[p] = sent[p] /\ ended'[p] = ended[p]
    BY <1>1
  <2>3. Shown(p)' /\ GoesOn(p)' /\ (WasCut(p)' <=> WasCut(p))
    BY <2>1, <2>2, SaidStays
  <2>4. CASE ~(HandlerOf(p) = h /\ e \in Tells(p))
    <3>1. Own(p)' = Own(p)
      BY <1>1, <1>2, <2>4, OwnRead DEF e
    <3> QED
      BY <2>1, <2>2, <2>3, <3>1, <1>1, EndsStay
  <2>5. CASE HandlerOf(p) = h /\ e \in Tells(p)
    <3>1. Own(p) # <<>> /\ ended[p] # ""
      BY <1>1, <1>2, <2>5, OwnRead DEF e, Tells
    <3>2. WasCut(p)
      BY <3>1, <2>1 DEF EndsWhole
    <3> QED
      BY <2>3, <3>2 DEF EndsWhole
  <2> QED
    BY <2>3, <2>4, <2>5
<1> QED
  BY <1>3, <1>4 DEF SaidInv

\* A handler reads a token of a choice that goes on.
LEMMA ReadSaid ==
  ASSUME IInv, TokensInOrder, TokensInOrder', SaidInv, NEW h \in Handler, ReadToken(h)
  PROVE  SaidInv'
<1> DEFINE e == Head(events[h])
<1>1. /\ UNCHANGED <<tokens, reason>> /\ events[h] # <<>>
      /\ events' = [events EXCEPT ![h] = Tail(events[h])]
      /\ e.token # Error
      /\ got' = [got EXCEPT ![e.req] = Append(got[e.req], e.token)]
  BY DEF ReadToken, engineVars
<1>2. Types /\ Told /\ Texts /\ EventTypes /\ EosTold
  BY DEF IInv, Types, EventTypes, SaidInv
<1>3. PICK r \in Range(ChoicesOf[h]) : r = e.req
  BY <1>2, TokenRead
<1>4. /\ ended[r] = ""
      /\ \E w \in Seq(Char) : written' = [written EXCEPT ![r] = w]
      /\ \E n \in Nat : sent' = [sent EXCEPT ![r] = n]
      /\ \E why \in {"", "stop", "length"} : ended' = [ended EXCEPT ![r] = why]
  BY <1>2, <1>3, TokenRead
<1>5. r \in Request /\ HandlerOf(r) = h
  BY HomeOfChoice
<1>6. EosTold'
  BY <1>1, <1>2, ReadLess, EosStays
<1>7. /\ Shown(r)' /\ GoesOn(r)'
      /\ ended'[r] # "" => WasCut(r)' \/ (e.reason # "" /\ ended'[r] = Finish(e.reason))
  BY <1>3, <1>5, TokenSaid
<1>8. e \in Event(h)
  BY <1>1, <1>2, ReadLess
<1> HIDE DEF e
<1>9. e \in Tells(r) /\ \A p \in Request : p # r => e \notin Tells(p)
  BY <1>1, <1>3, <1>8 DEF Event, Tells, Reasons
<1>10. \A p \in Request : p # r => /\ got'[p] = got[p] /\ written'[p] = written[p]
                                   /\ sent'[p] = sent[p] /\ ended'[p] = ended[p]
  <2>1. /\ written \in [Request -> Seq(Char)] /\ sent \in [Request -> Nat]
        /\ ended \in [Request -> {"", "stop", "length"}] /\ got \in [Request -> Seq(Token)]
    BY <1>2 DEF Types
  <2>2. \A p \in Request : p # r => got'[p] = got[p]
    BY <2>1, <1>1, <1>3
  <2>3. \A p \in Request : p # r => written'[p] = written[p]
    BY <2>1, <1>4
  <2>4. \A p \in Request : p # r => sent'[p] = sent[p]
    BY <2>1, <1>4
  <2>5. \A p \in Request : p # r => ended'[p] = ended[p]
    BY <2>1, <1>4
  <2> QED
    BY <2>2, <2>3, <2>4, <2>5
<1>11. ASSUME NEW p \in Request, p # r
       PROVE  Shown(p)' /\ GoesOn(p)' /\ EndsWhole(p)'
  <2>1. Shown(p) /\ GoesOn(p) /\ EndsWhole(p)
    BY DEF SaidInv
  <2>2. Shown(p)' /\ GoesOn(p)' /\ (WasCut(p)' <=> WasCut(p))
    BY <2>1, <1>10, <1>11, SaidStays
  <2>3. Own(p)' = Own(p)
    BY <1>1, <1>2, <1>9, <1>11, OwnRead DEF e
  <2> QED
    BY <2>1, <2>2, <2>3, <1>1, <1>10, <1>11, EndsStay
<1>12. EndsWhole(r)'
  <2> SUFFICES ASSUME ended'[r] # "", ~WasCut(r)'
               PROVE  /\ Own(r)' = <<>> /\ got'[r] = tokens'[r]
                      /\ reason'[r] # "" /\ ended'[r] = Finish(reason'[r])
    BY DEF EndsWhole
  <2>1. e.reason # "" /\ ended'[r] = Finish(e.reason)
    BY <1>7
  <2>2. Own(r) # <<>> /\ Head(Own(r)) = e /\ Own(r)' = Tail(Own(r)) /\ Own(r) \in Seq(Tells(r))
    BY <1>1, <1>2, <1>5, <1>9, OwnRead, OwnTyped DEF e
  <2>3. 1 \in 1..Len(Own(r)) /\ Own(r)[1] = e
    BY <2>2, LineOfOne
  <2>4. 1 = Len(Own(r)) /\ e.reason = reason[r]
    BY <2>1, <2>3, <1>5 DEF TokensInOrder, InOrder
  <2>5. Own(r)' = <<>> /\ 1..Len(Own(r)) = {1}
    BY <2>2, <2>4, LineOfOne
  <2>6. got'[r] = tokens'[r]
    <3>1. ended[r] = "" => got[r] \o Coming(r) = tokens[r]
      BY <1>5 DEF TokensInOrder, InOrder
    <3>2. Coming(r) = [i \in 1..Len(Own(r)) |-> Own(r)[i].token]
      BY <1>2, <1>5, OwnTyped
    <3>3. Coming(r) = [i \in {1} |-> e.token]
      BY <2>3, <2>5, <3>2
    <3>4. got[r] \in Seq(Token) /\ e.token \in Token
      BY <1>2, <1>5, <1>9 DEF Types, Tells
    <3>5. got'[r] = Append(got[r], e.token)
      BY <1>1, <1>2, <1>3, <1>5 DEF Types
    <3>6. Append(got[r], e.token) = got[r] \o [i \in {1} |-> e.token]
      BY <3>4, MoreIsJoined
    <3> QED
      BY <3>1, <3>3, <3>5, <3>6, <1>1, <1>4
  <2> QED
    BY <2>1, <2>4, <2>5, <2>6, <1>1
<1> QED
  BY <1>6, <1>7, <1>11, <1>12 DEF SaidInv

\* The engine fails, and its thread or a handler goes on with that.
LEMMA FailureSaid ==
  ASSUME IInv, SaidInv, TellFailure \/ \E h \in Handler : ReadFailure(h)
  PROVE  SaidInv'
<1>1. UNCHANGED <<got, written, sent, ended, tokens, reason>>
  BY DEF TellFailure, ReadFailure, engineVars, handlerVars, textVars
<1>2. Types /\ EventTypes /\ EosTold
  BY DEF IInv, Types, EventTypes, SaidInv
<1>3. CASE TellFailure
  <2> DEFINE q == Head(active)  e == [req |-> q, token |-> Error, reason |-> "failed"]
  <2>1. active # <<>> /\ Tell(q, e) /\ active \in Seq(Request)
    BY <1>3, <1>2 DEF TellFailure, Types
  <2>2. q \in Request
    BY <2>1
  <2> HIDE DEF q
  <2>3. e \in Event(HandlerOf(q)) /\ e.token = Error /\ \A r \in Request : e \notin Tells(r)
    BY <2>2, HomeOfChoice, ServerAssumption DEF Event, Tells
  <2> HIDE DEF e
  <2>4. \A h \in Handler : \A x \in Range(events'[h]) : x \in Range(events[h]) \/ x = e
    BY <2>1, <2>2, <2>3, <1>2, TellMore
  <2>5. EosTold'
    BY <2>3, <2>4, <1>2 DEF EosTold
  <2>6. \A r \in Request : Own(r)' = Own(r)
    BY <2>1, <2>2, <2>3, <1>2, OwnTold
  <2> QED
    BY <2>5, <2>6, <1>1, <1>2, OtherSaid
<1>4. CASE \E h \in Handler : ReadFailure(h)
  <2>1. PICK h \in Handler : ReadFailure(h)
    BY <1>4
  <2>2. /\ events[h] # <<>> /\ events' = [events EXCEPT ![h] = Tail(events[h])]
        /\ Head(events[h]).token = Error
    BY <2>1 DEF ReadFailure
  <2>3. EosTold'
    BY <2>2, <1>2, ReadLess, EosStays
  <2>4. \A r \in Request : Head(events[h]) \notin Tells(r)
    BY <2>2, ServerAssumption DEF Tells
  <2>5. \A r \in Request : Own(r)' = Own(r)
    BY <2>2, <2>4, <1>2, OwnRead
  <2> QED
    BY <2>3, <2>5, <1>1, <1>2, OtherSaid
<1> QED
  BY <1>3, <1>4

\* Nothing has been said, of nothing read.
LEMMA InitSaid == Init => SaidInv
<1> SUFFICES ASSUME Init  PROVE SaidInv
  OBVIOUS
<1>1. EosTold
  <2>1. \A h \in Handler : events[h] = <<>> /\ Range(<<>>) = {}
    BY EmptyLine DEF Init
  <2> QED
    BY <2>1 DEF EosTold
<1>2. IInv
  BY InitIInv
<1>3. ASSUME NEW r \in Request
      PROVE  Shown(r) /\ GoesOn(r) /\ EndsWhole(r)
  <2>1. got[r] = <<>> /\ written[r] = <<>> /\ sent[r] = 0 /\ ended[r] = "" /\ HandlerOf(r) \in Handler
    BY HomeOfChoice DEF Init
  <2>2. GoesOn(r)
    BY <2>1, TextOfEmpty DEF GoesOn
  <2>3. TextRead(r) = <<>>
    BY <2>1, TextOfEmpty, TextReadOf
  <2>4. Found(TextRead(r), Stop[HandlerOf(r)], 0) = {}
    BY <1>2, <2>1, <2>3 DEF IInv, Texts, TextFits
  <2>5. Len(<<>>) = 0 /\ {} \in SUBSET (0..0)
    OBVIOUS
  <2>6. FirstStop(r) = 0
    BY <2>3, <2>4, <2>5, FirstFound DEF FirstStop
  <2>7. Shown(r)
    <3>1. ~(0 < 0) /\ 0 <= 0
      OBVIOUS
    <3>2. SubSeq(written[r], 1, sent[r]) = SubSeq(TextRead(r), 1, sent[r])
      BY <2>1, <2>3
    <3>3. Len(TextRead(r)) = 0
      BY <2>3, <2>5
    <3> QED
      BY <2>1, <2>6, <3>1, <3>2, <3>3 DEF Shown
  <2> QED
    BY <2>1, <2>2, <2>7 DEF EndsWhole
<1> QED
  BY <1>1, <1>3 DEF SaidInv

\* Every step keeps it.
LEMMA NextSaid == IInv /\ TokensInOrder /\ TokensInOrder' /\ SaidInv /\ [Next]_vars => SaidInv'
<1> SUFFICES ASSUME IInv, TokensInOrder, TokensInOrder', SaidInv, [Next]_vars  PROVE SaidInv'
  OBVIOUS
<1>1. CASE TellFailure \/ \E h \in Handler : ReadFailure(h)
  BY <1>1, FailureSaid
<1>2. CASE \E h \in Handler : ReadLate(h) \/ ReadToken(h)
  BY <1>2, LateSaid, ReadSaid
<1>3. CASE \E r \in Request : StepEmit(r)
  BY <1>3, EmitSaid
<1>4. CASE UNCHANGED <<got, written, sent, ended, tokens, events>>
           /\ \A r \in Request : reason'[r] = reason[r] \/ reason[r] = ""
  <2>1. \A r \in Request : Own(r)' = Own(r)
    BY <1>4 DEF Own, Tells
  <2>2. EosTold'
    BY <1>4 DEF SaidInv, EosTold
  <2> QED
    BY <2>1, <2>2, <1>4, OtherSaid DEF IInv
<1>5. CASE UNCHANGED <<got, written, sent, ended, tokens, events, reason>>
  BY <1>4, <1>5
<1>6. CASE StepAdmit \/ StepPreempt
  <2>1. UNCHANGED <<got, written, sent, ended, tokens, events, reason>>
    BY <1>6 DEF StepAdmit, StepPreempt, Engine!Admit, Engine!Preempt, sharedVars,
                handlerVars, textVars
  <2> QED
    BY <2>1, <1>5
<1>7. CASE TakeMessage
  <2>1. UNCHANGED <<got, written, sent, ended, tokens, events>>
    BY <1>7 DEF TakeMessage, TakeSubmit, TakeCancel, Engine!Submit, Engine!Cancel, engineVars,
                handlerVars, textVars
  <2>2. ASSUME NEW r \in Request
        PROVE  reason'[r] = reason[r] \/ reason[r] = ""
    <3>1. CASE UNCHANGED reason
      BY <3>1
    <3>2. CASE reason[Head(inbox).req] = ""
               /\ reason' = [reason EXCEPT ![Head(inbox).req] = "cancelled"]
      BY <3>2 DEF IInv, Types, EngineTypes
    <3>3. UNCHANGED reason \/ (/\ reason[Head(inbox).req] = ""
                               /\ reason' = [reason EXCEPT ![Head(inbox).req] = "cancelled"])
      BY <1>7 DEF TakeMessage, TakeSubmit, TakeCancel, Engine!Submit, Engine!Cancel, engineVars
    <3> QED
      BY <3>1, <3>2, <3>3
  <2> QED
    BY <2>1, <2>2, <1>4
<1>8. CASE RunOn \/ TakeDone \/ StepDone \/ TellDone \/ StepFails \/ Shutdown \/ Rest \/ UNCHANGED vars
  <2>1. UNCHANGED <<got, written, sent, ended, tokens, events, reason>>
    BY <1>8 DEF RunOn, TakeDone, StepDone, TellDone, StepFails, Shutdown, Rest, vars, engineVars,
                sharedVars, handlerVars, textVars
  <2> QED
    BY <2>1, <1>5
<1>9. ASSUME NEW h \in Handler,
             \/ Generate(h) \/ Refuse(h) \/ PutSubmit(h) \/ PutCancel(h) \/ Open(h) \/ OpenFails(h)
             \/ Write(h) \/ WriteFails(h) \/ Answer(h)
      PROVE  SaidInv'
  <2>1. UNCHANGED <<got, written, sent, ended, tokens, events, reason>>
    BY <1>9 DEF Generate, Refuse, PutSubmit, PutCancel, Put, Open, OpenFails, Write, WriteFails,
                Answer, engineVars, sharedVars, textVars
  <2> QED
    BY <2>1, <1>5
<1> QED
  BY <1>1, <1>2, <1>3, <1>6, <1>7, <1>8, <1>9
     DEF Next, EngineThread, EngineStep, HandlerThread

\* With the tokens in order.
LEMMA AlwaysSaid == Steps => []SaidInv
<1>1. Init => SaidInv
  BY InitSaid
<1>2. IInv /\ TokensInOrder /\ TokensInOrder' /\ SaidInv /\ [Next]_vars => SaidInv'
  BY NextSaid
<1>3. Steps => []IInv
  BY ServerInvariant
<1>4. Steps => []TokensInOrder
  BY EachItsOwn
<1> QED
  BY <1>1, <1>2, <1>3, <1>4, PTL DEF Steps

\* What is sent of a choice is the start of its text, up to its first stop string and
\* none of that, for every vocabulary, every stop string and every way they are cut
\* into tokens and pieces; and all of it once the choice ends (pieces).
THEOREM SentToStop == Steps => []SentStopsShort
<1>1. SaidInv => SentStopsShort
  BY DEF SaidInv, Shown, SentStopsShort
<1> QED
  BY <1>1, AlwaysSaid, PTL

\* Each choice gets its own tokens, each once and in order, and the reason they ended
\* for: what was read and what is on its way are what the engine gave the request, or
\* their start when a stop string cut it (on_token, pieces).
THEOREM TokensDelivered == Steps => []Delivered
<1>1. IInv /\ TokensInOrder /\ SaidInv => Delivered
  <2> SUFFICES ASSUME IInv, TokensInOrder, SaidInv, NEW r \in Request
               PROVE  /\ WasCut(r) => IsPrefix(got[r], tokens[r])
                      /\ ~WasCut(r) => got[r] \o Coming(r) = tokens[r]
                      /\ ended[r] # "" /\ ~WasCut(r) => ended[r] = Finish(reason[r])
    BY DEF Delivered
  <2>1. InOrder(r) /\ EndsWhole(r) /\ Types
    BY DEF TokensInOrder, SaidInv, IInv
  <2>2. got[r] \in Seq(Token) /\ tokens[r] \in Seq(Token)
    BY <2>1 DEF Types, EngineTypes
  <2>3. IsPrefix(got[r], tokens[r])
    BY <2>1, <2>2, StartIsPrefix DEF InOrder
  <2>4. ASSUME ~WasCut(r)
        PROVE  got[r] \o Coming(r) = tokens[r]
    <3>1. CASE ended[r] = ""
      BY <2>1, <3>1 DEF InOrder
    <3>2. CASE ended[r] # ""
      <4>1. Own(r) = <<>> /\ got[r] = tokens[r]
        BY <2>1, <2>4, <3>2 DEF EndsWhole
      <4>2. Coming(r) \in Seq(Token) /\ Coming(r) = [i \in 1..Len(Own(r)) |-> Own(r)[i].token]
        BY <2>1, OwnTyped
      <4>3. Len(Coming(r)) = 0
        BY <4>1, <4>2
      <4>4. Coming(r) = <<>>
        BY <4>2, <4>3
      <4>5. got[r] \o <<>> = got[r]
        BY <2>2
      <4> QED
        BY <4>1, <4>4, <4>5
    <3> QED
      BY <3>1, <3>2
  <2> QED
    BY <2>1, <2>3, <2>4 DEF EndsWhole
<1>2. Steps => []IInv
  BY ServerInvariant
<1> QED
  BY <1>1, <1>2, EachItsOwn, AlwaysSaid, PTL

-----------------------------------------------------------------------------
(* The embedder, the thread beside the engine's to which the handlers of    *)
(* /v1/embeddings put their jobs (linnet.serve.embeddings).                  *)

InputPlace == UNION {{<<c, k>> : k \in DOMAIN Inputs[c]} : c \in Client}
VectorsOf(c) == [k \in DOMAIN Inputs[c] |-> <<c, k>>]

-----------------------------------------------------------------------------
EmbedderTypes ==
  /\ client \in [Client -> {"idle", "checked", "waiting", "answered", "raised"}]
  /\ jobInbox \in Seq(Client \cup {NoJob}) /\ Once(jobInbox)
  /\ stopped \in BOOLEAN /\ modelFailed \in BOOLEAN
  /\ thread \in {"get", "gather", "serve", "over"}
  /\ jobs \in Seq(Client) /\ Once(jobs)
  /\ places \in Seq(InputPlace)
  /\ error \in [Client -> BOOLEAN] /\ done \in [Client -> BOOLEAN]

\* A job is in the jobInbox, or with the thread, or done, once it is put.
JobsApart ==
  /\ NoJob \in Range(jobInbox) => stopped
  /\ \A c \in Client :
       /\ c \in Range(jobs) => c \notin Range(jobInbox) /\ ~done[c]
       /\ c \in Range(jobInbox) => ~done[c]
       /\ client[c] \in {"idle", "checked"} => c \notin Range(jobInbox) \cup Range(jobs) /\ ~done[c]
  /\ thread \in {"get", "over"} => jobs = <<>>

\* Each input of a job served has its vector, or has still to pass.
Passing(c) ==
  /\ vectors[c] = [k \in DOMAIN Inputs[c] |-> vectors[c][k]]
  /\ \A k \in DOMAIN Inputs[c] : vectors[c][k] = <<c, k>> \/ <<c, k>> \in Range(places)

\* Who is woken without an error has all vectors.
WokenWhole(c) ==
  /\ done[c] /\ ~error[c] => vectors[c] = VectorsOf(c)
  /\ client[c] = "answered" => done[c] /\ ~error[c]

EmbedderInv ==
  /\ EmbedderTypes /\ JobsApart
  /\ thread = "serve" /\ ~modelFailed => \A c \in Range(jobs) : Passing(c)
  /\ \A c \in Client : WokenWhole(c)

-----------------------------------------------------------------------------
\* Every input of every job is found.
LEMMA InputsInJobs ==
  ASSUME NEW all \in Seq(Client)
  PROVE  /\ InputsOf(all) \in Seq(InputPlace)
         /\ \A c \in Range(all) : \A k \in DOMAIN Inputs[c] : <<c, k>> \in Range(InputsOf(all))
<1> DEFINE line(i) == [k \in DOMAIN Inputs[all[i]] |-> <<all[i], k>>]
           lines == [i \in DOMAIN all |-> line(i)]
<1>1. DOMAIN all = 1..Len(all) /\ Len(all) \in Nat
  OBVIOUS
<1>2. ASSUME NEW i \in 1..Len(all)
      PROVE  /\ line(i) \in Seq(InputPlace)
             /\ \A k \in DOMAIN Inputs[all[i]] : <<all[i], k>> \in Range(line(i))
  <2>1. all[i] \in Client
    OBVIOUS
  <2>2. Inputs[all[i]] \in Seq(Nat) /\ DOMAIN Inputs[all[i]] = 1..Len(Inputs[all[i]])
        /\ Len(Inputs[all[i]]) \in Nat
    BY <2>1, EmbedderAssumption
  <2>3. \A k \in DOMAIN Inputs[all[i]] : <<all[i], k>> \in InputPlace
    BY <2>1 DEF InputPlace
  <2>4. line(i) \in [1..Len(Inputs[all[i]]) -> InputPlace]
    BY <2>2, <2>3
  <2>5. line(i) \in Seq(InputPlace)
    BY <2>2, <2>4
  <2>6. \A k \in DOMAIN Inputs[all[i]] : <<all[i], k>> \in Range(line(i))
    BY DEF Range
  <2> QED
    BY <2>5, <2>6
<1> HIDE DEF line
<1>3. lines \in Seq(Seq(InputPlace)) /\ Len(lines) = Len(all) /\ \A i \in 1..Len(all) : lines[i] = line(i)
  <2>1. lines \in [1..Len(all) -> Seq(InputPlace)] /\ \A i \in 1..Len(all) : lines[i] = line(i)
    BY <1>1, <1>2
  <2> HIDE DEF lines
  <2> QED
    BY <1>1, <2>1
<1>4. InputsOf(all) = FlattenSeq(lines)
  BY DEF InputsOf, line
<1> HIDE DEF lines
<1>5. /\ InputsOf(all) \in Seq(InputPlace)
      /\ \A x : x \in Range(InputsOf(all)) <=> \E i \in 1..Len(all) : x \in Range(line(i))
  BY <1>3, <1>4, Flattened
<1>6. ASSUME NEW c \in Range(all), NEW k \in DOMAIN Inputs[c]
      PROVE  <<c, k>> \in Range(InputsOf(all))
  <2>1. PICK i \in 1..Len(all) : all[i] = c
    BY RangeOfLine
  <2> QED
    BY <1>2, <1>5, <2>1
<1> QED
  BY <1>5, <1>6

\* Those of a length together are what was found: each is in the line of the first
\* input of its length.
LEMMA GroupedByLength ==
  ASSUME NEW S, NEW found \in Seq(S)
  PROVE  PlacesOf(found) \in Seq(S) /\ Range(found) \subseteq Range(PlacesOf(found))
<1> DEFINE size(i) == LengthOf(found[i])
           before(i) == \E j \in 1..(i - 1) : size(j) = size(i)
           line(i) == IF before(i) THEN <<>> ELSE OfLength(found, size(i))
           lines == [i \in DOMAIN found |-> line(i)]
<1>1. DOMAIN found = 1..Len(found) /\ Len(found) \in Nat
  OBVIOUS
<1>2. ASSUME NEW n
      PROVE  /\ OfLength(found, n) \in Seq(S)
             /\ \A i \in 1..Len(found) : size(i) = n => found[i] \in Range(OfLength(found, n))
  <2> DEFINE T == {p \in Range(found) : LengthOf(p) = n}
  <2>1. OfLength(found, n) = Only(found, T)
    BY DEF OfLength
  <2>2. \A i \in 1..Len(found) : size(i) = n => found[i] \in Range(found) \cap T
    BY <1>1 DEF Range
  <2> HIDE DEF T, size
  <2>3. Only(found, T) \in Seq(S \cap T) /\ Range(Only(found, T)) = Range(found) \cap T
    BY OnlyRange
  <2>4. Only(found, T) \in Seq(S)
    BY <2>3
  <2> QED
    BY <2>1, <2>2, <2>3, <2>4
<1> HIDE DEF size
<1>3. \A i \in 1..Len(found) : line(i) \in Seq(S)
  BY <1>2, EmptyLine
<1>4. lines \in Seq(Seq(S)) /\ Len(lines) = Len(found) /\ \A i \in 1..Len(found) : lines[i] = line(i)
  <2> HIDE DEF line
  <2>1. lines \in [1..Len(found) -> Seq(S)] /\ \A i \in 1..Len(found) : lines[i] = line(i)
    BY <1>1, <1>3
  <2> HIDE DEF lines
  <2> QED
    BY <1>1, <2>1
<1>5. PlacesOf(found) = FlattenSeq(lines)
  BY DEF PlacesOf, size
<1> HIDE DEF lines
<1>6. /\ PlacesOf(found) \in Seq(S)
      /\ \A x : x \in Range(PlacesOf(found)) <=> \E i \in 1..Len(found) : x \in Range(line(i))
  <2> HIDE DEF line
  <2> QED
    BY <1>4, <1>5, Flattened
<1>7. ASSUME NEW x \in Range(found)
      PROVE  x \in Range(PlacesOf(found))
  <2>1. PICK i \in 1..Len(found) : found[i] = x
    BY RangeOfLine
  <2> DEFINE those == {j \in 1..Len(found) : size(j) = size(i)}
  <2>2. those \in SUBSET Nat /\ i \in those
    BY <1>1
  <2>3. PICK j \in those : \A m \in those : j <= m
    BY <2>2, LeastElement
  <2>4. j \in 1..Len(found) /\ size(i) = size(j)
    OBVIOUS
  <2>5. ~before(j)
    <3> SUFFICES ASSUME NEW m \in 1..(j - 1), size(m) = size(j)
                 PROVE  FALSE
      OBVIOUS
    <3>1. m \in 1..Len(found) /\ ~(j <= m)
      BY <1>1, <2>4
    <3>2. m \in those
      BY <2>4, <3>1
    <3> QED
      BY <2>3, <3>1, <3>2
  <2>6. line(j) = OfLength(found, size(j))
    BY <2>5
  <2>7. x \in Range(line(j))
    BY <1>2, <2>1, <2>4, <2>6
  <2> QED
    BY <1>6, <2>4, <2>7
<1> QED
  BY <1>6, <1>7

\* Every input of every job is among the places.
LEMMA PlacesOfJobs ==
  ASSUME NEW all \in Seq(Client)
  PROVE  /\ PlacesOf(InputsOf(all)) \in Seq(InputPlace)
         /\ \A c \in Range(all) : \A k \in DOMAIN Inputs[c] : <<c, k>> \in Range(PlacesOf(InputsOf(all)))
<1>1. PICK found \in Seq(InputPlace) : found = InputsOf(all)
  BY InputsInJobs
<1>2. PlacesOf(found) \in Seq(InputPlace) /\ Range(found) \subseteq Range(PlacesOf(found))
  BY GroupedByLength
<1> QED
  BY <1>1, <1>2, InputsInJobs

\* What a pass leaves, and what it takes, are all the places.
LEMMA GroupAndRest ==
  ASSUME NEW S, places \in Seq(S)
  PROVE  Remaining \in Seq(S) /\ Range(places) \subseteq Range(Remaining) \cup Group
<1>1. /\ Remaining \in Seq(S \cap (Range(places) \ Group))
      /\ Range(Remaining) = Range(places) \cap (Range(places) \ Group)
  BY OnlyRange DEF Remaining
<1>2. Remaining \in Seq(S)
  BY <1>1
<1> QED
  BY <1>1, <1>2

-----------------------------------------------------------------------------
(* The steps of the clients.                                                *)

\* A client that looks whether the model has modelFailed.
LEMMA LookKeeps ==
  ASSUME EmbedderInv, NEW c \in Client, Look(c)
  PROVE  EmbedderInv'
<1>1. client' \in [Client -> {"idle", "checked", "waiting", "answered", "raised"}]
      /\ client[c] = "idle" /\ client'[c] \in {"raised", "checked"}
      /\ \A d \in Client : d # c => client'[d] = client[d]
  BY DEF Look, EmbedderInv, EmbedderTypes
<1>2. UNCHANGED <<jobInbox, stopped, modelFailed, thread, jobs, places, vectors, error, done>>
  BY DEF Look, runVars
<1>3. EmbedderTypes'
  BY <1>1, <1>2 DEF EmbedderInv, EmbedderTypes
<1>4. JobsApart'
  BY <1>1, <1>2 DEF EmbedderInv, JobsApart
<1>5. (thread = "serve" /\ ~modelFailed => \A d \in Range(jobs) : Passing(d))'
  BY <1>2 DEF EmbedderInv, Passing
<1>6. (\A d \in Client : WokenWhole(d))'
  BY <1>1, <1>2 DEF EmbedderInv, WokenWhole, VectorsOf
<1> QED
  BY <1>3, <1>4, <1>5, <1>6 DEF EmbedderInv

\* A client that puts its job.
LEMMA PutJobKeeps ==
  ASSUME EmbedderInv, NEW c \in Client, PutJob(c)
  PROVE  EmbedderInv'
<1>1. client' \in [Client -> {"idle", "checked", "waiting", "answered", "raised"}]
      /\ client[c] = "checked" /\ client'[c] = "waiting"
      /\ \A d \in Client : d # c => client'[d] = client[d]
  BY DEF PutJob, EmbedderInv, EmbedderTypes
<1>2. UNCHANGED <<stopped, modelFailed, thread, jobs, places, vectors, error, done>>
  BY DEF PutJob, runVars
<1>3. jobInbox' = Append(jobInbox, c) /\ c \notin Range(jobInbox) \cup Range(jobs) /\ ~done[c]
  BY <1>1 DEF PutJob, EmbedderInv, JobsApart
<1>4. /\ jobInbox' \in Seq(Client \cup {NoJob}) /\ Once(jobInbox')
      /\ Range(jobInbox') = Range(jobInbox) \cup {c}
  <2>1. jobInbox \in Seq(Client \cup {NoJob}) /\ Once(jobInbox) /\ c \in Client \cup {NoJob}
    BY DEF EmbedderInv, EmbedderTypes
  <2> QED
    BY <1>3, <2>1, AppendOnce
<1>5. EmbedderTypes'
  BY <1>1, <1>2, <1>4 DEF EmbedderInv, EmbedderTypes, Once
<1>6. JobsApart'
  <2>1. c # NoJob
    BY EmbedderAssumption
  <2> QED
    BY <1>1, <1>2, <1>3, <1>4, <2>1 DEF EmbedderInv, JobsApart
<1>7. (thread = "serve" /\ ~modelFailed => \A d \in Range(jobs) : Passing(d))'
  BY <1>2 DEF EmbedderInv, Passing
<1>8. (\A d \in Client : WokenWhole(d))'
  BY <1>1, <1>2 DEF EmbedderInv, WokenWhole, VectorsOf
<1> QED
  BY <1>5, <1>6, <1>7, <1>8 DEF EmbedderInv

\* A client that is woken.
LEMMA WakeKeeps ==
  ASSUME EmbedderInv, NEW c \in Client, Wake(c)
  PROVE  EmbedderInv'
<1>1. /\ client' \in [Client -> {"idle", "checked", "waiting", "answered", "raised"}]
      /\ client[c] = "waiting" /\ client'[c] \in {"raised", "answered"} /\ done[c]
      /\ client'[c] = "answered" => ~error[c]
      /\ \A d \in Client : d # c => client'[d] = client[d]
  BY DEF Wake, EmbedderInv, EmbedderTypes
<1>2. UNCHANGED <<jobInbox, stopped, modelFailed, thread, jobs, places, vectors, error, done>>
  BY DEF Wake, runVars
<1>3. EmbedderTypes'
  BY <1>1, <1>2 DEF EmbedderInv, EmbedderTypes
<1>4. JobsApart'
  BY <1>1, <1>2 DEF EmbedderInv, JobsApart
<1>5. (thread = "serve" /\ ~modelFailed => \A d \in Range(jobs) : Passing(d))'
  BY <1>2 DEF EmbedderInv, Passing
<1>6. (\A d \in Client : WokenWhole(d))'
  BY <1>1, <1>2 DEF EmbedderInv, WokenWhole, VectorsOf
<1> QED
  BY <1>3, <1>4, <1>5, <1>6 DEF EmbedderInv

\* The server that stops the thread.
LEMMA StopThreadKeeps ==
  ASSUME EmbedderInv, StopThread
  PROVE  EmbedderInv'
<1>1. UNCHANGED <<client, modelFailed, thread, jobs, places, vectors, error, done>>
  BY DEF StopThread, runVars
<1>2. stopped' = TRUE /\ jobInbox' = Append(jobInbox, NoJob) /\ NoJob \notin Range(jobInbox)
  BY DEF StopThread, EmbedderInv, JobsApart
<1>3. /\ jobInbox' \in Seq(Client \cup {NoJob}) /\ Once(jobInbox')
      /\ Range(jobInbox') = Range(jobInbox) \cup {NoJob}
  <2>1. jobInbox \in Seq(Client \cup {NoJob}) /\ Once(jobInbox) /\ NoJob \in Client \cup {NoJob}
    BY DEF EmbedderInv, EmbedderTypes
  <2> QED
    BY <1>2, <2>1, AppendOnce
<1>4. EmbedderTypes'
  BY <1>1, <1>2, <1>3 DEF EmbedderInv, EmbedderTypes, Once
<1>5. JobsApart'
  <2>1. \A c \in Client : c # NoJob
    BY EmbedderAssumption
  <2> QED
    BY <1>1, <1>2, <1>3, <2>1 DEF EmbedderInv, JobsApart
<1>6. (thread = "serve" /\ ~modelFailed => \A d \in Range(jobs) : Passing(d))'
  BY <1>1 DEF EmbedderInv, Passing
<1>7. (\A d \in Client : WokenWhole(d))'
  BY <1>1 DEF EmbedderInv, WokenWhole, VectorsOf
<1> QED
  BY <1>4, <1>5, <1>6, <1>7 DEF EmbedderInv

-----------------------------------------------------------------------------
(* The steps of the thread.                                                 *)

\* The thread takes a job, or the marker.
LEMMA TakeKeeps ==
  ASSUME EmbedderInv, Take
  PROVE  EmbedderInv'
<1>1. UNCHANGED <<client, stopped, modelFailed, places, vectors, error, done>>
  BY DEF Take
<1>2. /\ jobInbox # <<>> /\ jobInbox' = Tail(jobInbox) /\ jobInbox \in Seq(Client \cup {NoJob}) /\ Once(jobInbox)
      /\ jobs = <<>>
  BY DEF Take, EmbedderInv, EmbedderTypes, JobsApart
<1>3. /\ Tail(jobInbox) \in Seq(Client \cup {NoJob}) /\ Head(jobInbox) \in Range(jobInbox)
      /\ Range(jobInbox) \subseteq Client \cup {NoJob}
      /\ Once(Tail(jobInbox)) /\ Range(Tail(jobInbox)) = Range(jobInbox) \ {Head(jobInbox)}
  BY <1>2, TailOnce, RangeOfLine
<1>4. \/ thread' = "over" /\ jobs' = <<>>
      \/ Head(jobInbox) \in Client /\ thread' = "gather" /\ jobs' = <<Head(jobInbox)>>
  BY <1>2, <1>3 DEF Take
<1>5. /\ jobs' \in Seq(Client) /\ Once(jobs') /\ Range(jobs') \subseteq {Head(jobInbox)}
  <2>1. CASE jobs' = <<>>
    <3>1. <<>> \in Seq(Client) /\ Range(<<>>) = {} /\ Once(<<>>)
      BY EmptyLine
    <3> QED
      BY <2>1, <3>1
  <2>2. CASE Head(jobInbox) \in Client /\ jobs' = <<Head(jobInbox)>>
    <3>1. <<Head(jobInbox)>> = Append(<<>>, Head(jobInbox))
      OBVIOUS
    <3>2. <<>> \in Seq(Client) /\ Range(<<>>) = {} /\ Once(<<>>)
      BY EmptyLine
    <3>3. /\ Append(<<>>, Head(jobInbox)) \in Seq(Client) /\ Once(Append(<<>>, Head(jobInbox)))
          /\ Range(Append(<<>>, Head(jobInbox))) = Range(<<>>) \cup {Head(jobInbox)}
      BY <2>2, <3>2, AppendOnce, Zenon
    <3> QED
      BY <2>2, <3>1, <3>2, <3>3, Zenon
  <2> QED
    BY <1>4, <2>1, <2>2
<1>6. EmbedderTypes'
  BY <1>1, <1>2, <1>3, <1>4, <1>5 DEF EmbedderInv, EmbedderTypes, Once
<1>7. JobsApart'
  BY <1>1, <1>2, <1>3, <1>4, <1>5 DEF EmbedderInv, JobsApart
<1>8. (thread = "serve" /\ ~modelFailed => \A d \in Range(jobs) : Passing(d))'
  BY <1>4
<1>9. (\A d \in Client : WokenWhole(d))'
  BY <1>1 DEF EmbedderInv, WokenWhole, VectorsOf
<1> QED
  BY <1>6, <1>7, <1>8, <1>9 DEF EmbedderInv

\* It takes one more.
LEMMA GatherMoreKeeps ==
  ASSUME EmbedderInv, GatherMore
  PROVE  EmbedderInv'
<1>1. UNCHANGED <<client, stopped, modelFailed, thread, places, vectors, error, done>> /\ thread = "gather"
  BY DEF GatherMore
<1>2. /\ jobInbox # <<>> /\ jobInbox' = Tail(jobInbox) /\ jobInbox \in Seq(Client \cup {NoJob}) /\ Once(jobInbox)
      /\ Head(jobInbox) # NoJob /\ jobs' = Append(jobs, Head(jobInbox)) /\ jobs \in Seq(Client) /\ Once(jobs)
  BY DEF GatherMore, EmbedderInv, EmbedderTypes
<1>3. /\ Tail(jobInbox) \in Seq(Client \cup {NoJob}) /\ Head(jobInbox) \in Range(jobInbox)
      /\ Range(jobInbox) \subseteq Client \cup {NoJob}
      /\ Once(Tail(jobInbox)) /\ Range(Tail(jobInbox)) = Range(jobInbox) \ {Head(jobInbox)}
  BY <1>2, TailOnce, RangeOfLine
<1>4. Head(jobInbox) \in Client /\ Head(jobInbox) \notin Range(jobs)
  BY <1>2, <1>3 DEF EmbedderInv, JobsApart
<1>5. /\ jobs' \in Seq(Client) /\ Once(jobs') /\ Range(jobs') = Range(jobs) \cup {Head(jobInbox)}
  BY <1>2, <1>4, AppendOnce
<1>6. EmbedderTypes'
  BY <1>1, <1>2, <1>3, <1>5 DEF EmbedderInv, EmbedderTypes, Once
<1>7. JobsApart'
  BY <1>1, <1>2, <1>3, <1>5 DEF EmbedderInv, JobsApart
<1>8. (thread = "serve" /\ ~modelFailed => \A d \in Range(jobs) : Passing(d))'
  BY <1>1
<1>9. (\A d \in Client : WokenWhole(d))'
  BY <1>1 DEF EmbedderInv, WokenWhole, VectorsOf
<1> QED
  BY <1>6, <1>7, <1>8, <1>9 DEF EmbedderInv

\* It has gathered what waits: every input of its jobs has to pass, and no job it
\* serves was done before.
LEMMA GatherDoneKeeps ==
  ASSUME EmbedderInv, GatherDone
  PROVE  EmbedderInv'
<1>1. UNCHANGED <<client, stopped, modelFailed, jobs, error, done>> /\ thread = "gather" /\ thread' = "serve"
  BY DEF GatherDone
<1>2. jobInbox \in Seq(Client \cup {NoJob}) /\ Once(jobInbox) /\ jobs \in Seq(Client)
  BY DEF EmbedderInv, EmbedderTypes
<1>3. /\ jobInbox' \in Seq(Client \cup {NoJob}) /\ Once(jobInbox') /\ Range(jobInbox') = Range(jobInbox)
  <2>1. CASE jobInbox = <<>>
    <3>1. jobInbox' = jobInbox
      BY <2>1 DEF GatherDone
    <3> QED
      BY <1>2, <3>1
  <2>2. CASE jobInbox # <<>>
    <3>1. Head(jobInbox) = NoJob /\ jobInbox' = Append(Tail(jobInbox), NoJob)
      BY <2>2 DEF GatherDone, StopAgain
    <3>2. /\ Tail(jobInbox) \in Seq(Client \cup {NoJob}) /\ Head(jobInbox) \in Range(jobInbox)
          /\ Once(Tail(jobInbox)) /\ Range(Tail(jobInbox)) = Range(jobInbox) \ {NoJob}
      BY <1>2, <2>2, <3>1, TailOnce
    <3>3. NoJob \in Client \cup {NoJob} /\ NoJob \notin Range(Tail(jobInbox))
      BY <3>2
    <3>4. /\ Append(Tail(jobInbox), NoJob) \in Seq(Client \cup {NoJob})
          /\ Range(Append(Tail(jobInbox), NoJob)) = Range(Tail(jobInbox)) \cup {NoJob}
          /\ Once(Append(Tail(jobInbox), NoJob))
      <4> DEFINE S == Client \cup {NoJob}  rest == Tail(jobInbox)
      <4>1. rest \in Seq(S) /\ Once(rest) /\ NoJob \in S /\ NoJob \notin Range(rest)
        BY <3>2, <3>3
      <4> HIDE DEF S, rest
      <4>2. /\ Append(rest, NoJob) \in Seq(S) /\ Once(Append(rest, NoJob))
            /\ Range(Append(rest, NoJob)) = Range(rest) \cup {NoJob}
        BY <4>1, AppendOnce
      <4> QED
        BY <4>2 DEF S, rest
    <3>5. Range(Tail(jobInbox)) \cup {NoJob} = Range(jobInbox)
      BY <3>1, <3>2
    <3> QED
      BY <3>1, <3>4, <3>5
  <2> QED
    BY <2>1, <2>2
<1>4. /\ places' = PlacesOf(InputsOf(jobs)) /\ PlacesOf(InputsOf(jobs)) \in Seq(InputPlace)
      /\ \A c \in Range(jobs) : \A k \in DOMAIN Inputs[c] : <<c, k>> \in Range(places')
  BY <1>2, PlacesOfJobs DEF GatherDone, EmbedderInv
<1>5. EmbedderTypes'
  BY <1>1, <1>3, <1>4 DEF EmbedderInv, EmbedderTypes, Once
<1>6. JobsApart'
  BY <1>1, <1>3 DEF EmbedderInv, JobsApart
<1>7. \A c \in Client : vectors'[c] = IF c \in Range(jobs) THEN [k \in DOMAIN Inputs[c] |-> <<>>]
                                      ELSE vectors[c]
  BY DEF GatherDone
<1>8. (thread = "serve" /\ ~modelFailed => \A d \in Range(jobs) : Passing(d))'
  <2> SUFFICES ASSUME NEW d \in Range(jobs)
               PROVE  Passing(d)'
    BY <1>1
  <2>1. d \in Client
    BY <1>2, RangeOfLine
  <2>2. vectors'[d] = [k \in DOMAIN Inputs[d] |-> <<>>]
    BY <1>7, <2>1
  <2>3. vectors'[d] = [k \in DOMAIN Inputs[d] |-> vectors'[d][k]]
    BY <2>2
  <2> QED
    BY <1>4, <2>3 DEF Passing
<1>9. (\A d \in Client : WokenWhole(d))'
  BY <1>1, <1>7 DEF EmbedderInv, JobsApart, WokenWhole, VectorsOf
<1> QED
  BY <1>5, <1>6, <1>8, <1>9 DEF EmbedderInv

\* A pass gives vectors to the inputs it takes, and leaves the others.
LEMMA PassKeeps ==
  ASSUME EmbedderInv, Pass
  PROVE  EmbedderInv'
<1>1. UNCHANGED <<client, jobInbox, stopped, modelFailed, thread, jobs, error, done>> /\ thread = "serve"
  BY DEF Pass
<1>2. places' = Remaining /\ Remaining \in Seq(InputPlace) /\ Range(places) \subseteq Range(Remaining) \cup Group
  BY GroupAndRest DEF Pass, EmbedderInv, EmbedderTypes
<1>3. EmbedderTypes'
  BY <1>1, <1>2 DEF EmbedderInv, EmbedderTypes
<1>4. JobsApart'
  BY <1>1 DEF EmbedderInv, JobsApart
<1>5. \A c \in Client : vectors'[c] =
        [k \in DOMAIN vectors[c] |-> IF <<c, k>> \in Group THEN <<c, k>> ELSE vectors[c][k]]
  BY DEF Pass
<1>6. (thread = "serve" /\ ~modelFailed => \A d \in Range(jobs) : Passing(d))'
  <2> SUFFICES ASSUME ~modelFailed, NEW d \in Range(jobs)
               PROVE  Passing(d)'
    BY <1>1
  <2>1. d \in Client
    BY RangeOfLine DEF EmbedderInv, EmbedderTypes
  <2>2. Passing(d)
    BY <1>1 DEF EmbedderInv
  <2>3. DOMAIN vectors[d] = DOMAIN Inputs[d]
    <3> DEFINE own == vectors[d]
    <3>1. own = [k \in DOMAIN Inputs[d] |-> own[k]]
      BY <2>2 DEF Passing
    <3> HIDE DEF own
    <3>2. DOMAIN own = DOMAIN Inputs[d]
      BY <3>1
    <3> QED
      BY <3>2 DEF own
  <2>4. vectors'[d] = [k \in DOMAIN Inputs[d] |->
                         IF <<d, k>> \in Group THEN <<d, k>> ELSE vectors[d][k]]
    BY <1>5, <2>1, <2>3
  <2>5. vectors'[d] = [k \in DOMAIN Inputs[d] |-> vectors'[d][k]]
    BY <2>4
  <2>6. \A k \in DOMAIN Inputs[d] : vectors'[d][k] = <<d, k>> \/ <<d, k>> \in Range(places')
    BY <1>2, <2>2, <2>4 DEF Passing
  <2> QED
    BY <2>5, <2>6 DEF Passing
<1>7. (\A d \in Client : WokenWhole(d))'
  <2> SUFFICES ASSUME NEW d \in Client
               PROVE  WokenWhole(d)'
    OBVIOUS
  <2>1. WokenWhole(d)
    BY DEF EmbedderInv
  <2>2. ASSUME done[d], ~error[d]
        PROVE  vectors'[d] = VectorsOf(d)
    <3>1. vectors[d] = VectorsOf(d)
      BY <2>1, <2>2 DEF WokenWhole
    <3>2. DOMAIN vectors[d] = DOMAIN Inputs[d] /\ \A k \in DOMAIN Inputs[d] : vectors[d][k] = <<d, k>>
      BY <3>1 DEF VectorsOf
    <3>3. vectors'[d] = [k \in DOMAIN Inputs[d] |->
                           IF <<d, k>> \in Group THEN <<d, k>> ELSE vectors[d][k]]
      BY <1>5, <3>2
    <3> QED
      BY <3>2, <3>3 DEF VectorsOf
  <2> QED
    BY <1>1, <2>1, <2>2 DEF WokenWhole, VectorsOf
<1> QED
  BY <1>3, <1>4, <1>6, <1>7 DEF EmbedderInv

\* A pass that raises.
LEMMA RaiseKeeps ==
  ASSUME EmbedderInv, PassRaises
  PROVE  EmbedderInv'
<1>1. UNCHANGED <<client, jobInbox, stopped, thread, jobs, vectors, error, done>>
      /\ modelFailed' = TRUE /\ places' = <<>>
  BY DEF PassRaises
<1>2. EmbedderTypes'
  <2>1. places' \in Seq(InputPlace)
    BY <1>1, EmptyLine
  <2> QED
    BY <1>1, <2>1 DEF EmbedderInv, EmbedderTypes
<1>3. JobsApart'
  BY <1>1 DEF EmbedderInv, JobsApart
<1>4. (\A d \in Client : WokenWhole(d))'
  BY <1>1 DEF EmbedderInv, WokenWhole, VectorsOf
<1> QED
  BY <1>1, <1>2, <1>3, <1>4 DEF EmbedderInv

\* A job is woken when nothing has to pass.
LEMMA WakeJobKeeps ==
  ASSUME EmbedderInv, WakeJob
  PROVE  EmbedderInv'
<1> DEFINE c == Head(jobs)
<1>1. UNCHANGED <<client, jobInbox, stopped, modelFailed, places, vectors>> /\ places = <<>> /\ jobs # <<>>
      /\ thread = "serve" /\ thread' \in {"get", "serve"} /\ jobs' = Tail(jobs)
      /\ jobs \in Seq(Client) /\ Once(jobs)
  BY DEF WakeJob, EmbedderInv, EmbedderTypes
<1>2. /\ Tail(jobs) \in Seq(Client) /\ c \in Range(jobs) /\ Range(jobs) \subseteq Client
      /\ Once(Tail(jobs)) /\ Range(Tail(jobs)) = Range(jobs) \ {c}
  BY <1>1, TailOnce, RangeOfLine
<1>3. /\ c \in Client /\ error' = [error EXCEPT ![c] = modelFailed] /\ done' = [done EXCEPT ![c] = TRUE]
      /\ error \in [Client -> BOOLEAN] /\ done \in [Client -> BOOLEAN] /\ modelFailed \in BOOLEAN
  BY <1>2 DEF WakeJob, EmbedderInv, EmbedderTypes
<1> HIDE DEF c
<1>4. /\ error' \in [Client -> BOOLEAN] /\ done' \in [Client -> BOOLEAN]
      /\ error'[c] = modelFailed /\ done'[c]
      /\ \A d \in Client : d # c => error'[d] = error[d] /\ done'[d] = done[d]
  BY <1>3
<1>5. thread' = "get" => jobs' = <<>>
  <2>1. Len(jobs) = 1 => Tail(jobs) = <<>>
    BY <1>1
  <2> QED
    BY <1>1, <2>1 DEF WakeJob
<1>6. EmbedderTypes'
  BY <1>1, <1>2, <1>4 DEF EmbedderInv, EmbedderTypes, Once
<1>7. JobsApart'
  BY <1>1, <1>2, <1>3, <1>4, <1>5 DEF EmbedderInv, JobsApart
<1>8. (thread = "serve" /\ ~modelFailed => \A d \in Range(jobs) : Passing(d))'
  BY <1>1, <1>2 DEF EmbedderInv, Passing
<1>9. (\A d \in Client : WokenWhole(d))'
  <2> SUFFICES ASSUME NEW d \in Client
               PROVE  WokenWhole(d)'
    OBVIOUS
  <2>1. WokenWhole(d)
    BY DEF EmbedderInv
  <2>2. CASE d # c
    BY <1>1, <1>4, <2>1, <2>2 DEF WokenWhole, VectorsOf
  <2>3. CASE d = c
    <3>1. client[d] # "answered"
      BY <1>2, <2>1, <2>3 DEF WokenWhole, EmbedderInv, JobsApart
    <3>2. ASSUME ~modelFailed
          PROVE  vectors[d] = VectorsOf(d)
      <4>1. Passing(d) /\ Range(places) = {}
        BY <1>1, <1>2, <2>3, <3>2, EmptyLine DEF EmbedderInv
      <4>2. vectors[d] = [k \in DOMAIN Inputs[d] |-> vectors[d][k]]
            /\ \A k \in DOMAIN Inputs[d] : vectors[d][k] = <<d, k>>
        BY <4>1 DEF Passing
      <4>3. [k \in DOMAIN Inputs[d] |-> vectors[d][k]] = VectorsOf(d)
        BY <4>2, Zenon DEF VectorsOf
      <4> QED
        BY <4>2, <4>3
    <3> QED
      BY <1>1, <1>4, <2>3, <3>1, <3>2 DEF WokenWhole, VectorsOf
  <2> QED
    BY <2>2, <2>3
<1> QED
  BY <1>6, <1>7, <1>8, <1>9 DEF EmbedderInv

-----------------------------------------------------------------------------
\* The invariant holds at first.
LEMMA InitHolds ==
  ASSUME EmbedderInit
  PROVE  EmbedderInv
<1>1. <<>> \in Seq(Client \cup {NoJob}) /\ <<>> \in Seq(Client) /\ <<>> \in Seq(InputPlace)
      /\ Range(<<>>) = {} /\ Once(<<>>)
  BY EmptyLine
<1> QED
  BY <1>1 DEF EmbedderInit, EmbedderInv, EmbedderTypes, JobsApart, WokenWhole, VectorsOf

\* Every step keeps it.
LEMMA NextKeeps ==
  ASSUME EmbedderInv, [EmbedderNext]_embedderVars
  PROVE  EmbedderInv'
<1>1. CASE EmbedderNext
  BY <1>1, LookKeeps, PutJobKeeps, WakeKeeps, StopThreadKeeps, TakeKeeps, GatherMoreKeeps, GatherDoneKeeps,
     PassKeeps, RaiseKeeps, WakeJobKeeps DEF EmbedderNext, Thread
<1>2. CASE UNCHANGED embedderVars
  <2>1. UNCHANGED <<client, jobInbox, stopped, modelFailed, thread, jobs, places, vectors, error, done>>
    BY <1>2 DEF embedderVars, runVars
  <2> QED
    BY <2>1 DEF EmbedderInv, EmbedderTypes, JobsApart, Passing, WokenWhole, VectorsOf, Once
<1> QED
  BY <1>1, <1>2

\* Whatever waits together and however it is grouped: a request answered has the
\* vectors of its own inputs, in their order (embed, _serve).
THEOREM VectorsOwn == EmbedderSteps => []OwnVectors
<1>1. EmbedderInv => OwnVectors
  BY DEF EmbedderInv, WokenWhole, VectorsOf, OwnVectors
<1>2. EmbedderInit => EmbedderInv
  BY InitHolds
<1>3. EmbedderInv /\ [EmbedderNext]_embedderVars => EmbedderInv'
  BY NextKeeps
<1> QED
  BY <1>1, <1>2, <1>3, PTL DEF EmbedderSteps

-----------------------------------------------------------------------------
(* The server with either of them.                                          *)

\* What is proved of each part holds of a server in front of an engine or of an
\* embedder: it takes the steps of the one it has, and the other stands still.
THEOREM ServerPromises ==
  ServerSpec => /\ []TypeOK /\ []RowsFreed /\ []Delivered /\ []SentStopsShort
                /\ NothingTakenBack /\ []OwnVectors
<1>1. ServerInit => Init /\ EmbedderInit
  BY DEF ServerInit
<1>2. [ServerNext]_serverVars => [Next]_vars /\ [EmbedderNext]_embedderVars
  BY DEF ServerNext, serverVars, EmbedderRests
<1>3. ServerSpec => Steps /\ EmbedderSteps
  BY <1>1, <1>2, PTL DEF ServerSpec, Steps, EmbedderSteps
<1> QED
  BY <1>3, TypesHold, NoRowLeftOn, TokensDelivered, SentToStop, SentStands, VectorsOwn, PTL
=============================================================================
