-------------------------- MODULE PagedEngineTexts --------------------------
(***************************************************************************)
(* What the pages hold is the text of the request whose pages they are, so  *)
(* each token drawn is of its own request's text, whatever is in the batch  *)
(* beside it, and a page that is kept holds the text of its digest.         *)
(***************************************************************************)
EXTENDS PagedEngineProofs

-----------------------------------------------------------------------------
(* The invariant.                                                           *)

\* The first n tokens of a text.
Start(text, n) == SubSeq(text, 1, n)

\* The page and the place in it of a position of a request.
PageAt(r, n) == held[r][n \div PageSize + 1]

\* A piece still to pass writes position n of its request there.
Writes(piece, n, p, o) ==
  piece.start <= n /\ n < piece.stop /\ PageAt(piece.req, n) = p /\ n % PageSize = o

Unwritten(p, o) ==
  \A i \in 1..Len(chunks) : \A n \in Nat : ~Writes(chunks[i], n, p, o)

\* The cell holds `text` once the pieces have passed.
Will(p, o, text) ==
  /\ \A i \in 1..Len(chunks) : \A n \in Nat :
       Writes(chunks[i], n, p, o) => Start(PromptOf(chunks[i].req), n + 1) = text
  /\ Unwritten(p, o) => cache[p][o] = text

\* The first n positions of a request hold the text, or will.
WillHold(r, n, text) ==
  \A i \in 0..(n - 1) : Will(PageAt(r, i), i % PageSize, Start(text, i + 1))
Holds(r, n, text) ==
  \A i \in 0..(n - 1) : cache[PageAt(r, i)][i % PageSize] = Start(text, i + 1)

\* A page kept by a digest holds the end of the digest's text, or will.
KeptWill ==
  \A p \in DOMAIN digestOf : \A o \in Offset :
     Will(p, o, Start(digestOf[p], Len(digestOf[p]) - PageSize + o + 1))

\* The pieces of this step: what is placed has one, and a row filled that has none is
\* parked at the last position.
HasPiece(r) == \E i \in 1..Len(chunks) : chunks[i].req = r

Pieces ==
  /\ pc \notin Passing => chunks = <<>>
  /\ \A i \in 1..Len(chunks) : chunks[i].stop <= done[chunks[i].req]
  /\ \A r \in Range(placed) : HasPiece(r)
  /\ \A s \in Slot : rows[s] \in Range(filling) /\ ~HasPiece(rows[s]) => devPos[s] = MaxSeq - 1

\* A prompt in passing has what has passed.
Fillings == \A r \in Range(filling) \cup Range(placed) : WillHold(r, done[r], PromptOf(r))

\* The request being placed has the start of its text that was found, page by page.
FoundHolds ==
  pc = "sharing" =>
    LET r == Head(waiting)
    IN  /\ WillHold(r, Smaller(Len(held[r]) * PageSize, done[r]), PromptOf(r))
        /\ done[r] <= (Len(held[r]) + Len(found)) * PageSize
        /\ \A j \in 1..Len(found) :
             /\ (Len(held[r]) + j) * PageSize <= done[r]
             /\ digestOf[found[j]] = Start(PromptOf(r), (Len(held[r]) + j) * PageSize)

\* A page kept or shared is of the part of the prompt that has passed, and a page shared
\* is kept.
Private ==
  \A r \in Request : \A k \in 1..Len(held[r]) :
    (held[r][k] \in DOMAIN digestOf \/ \E q \in Request \ {r} : held[r][k] \in Range(held[q]))
      => k * PageSize <= done[r]

SharedKept ==
  \A r, q \in Request : r # q => Range(held[r]) \cap Range(held[q]) \subseteq DOMAIN digestOf

\* Who shares a page that a piece is still to write has its own piece after that.
InTurn ==
  \A i \in 1..Len(chunks) : \A n \in Nat : \A q \in Request \ {chunks[i].req} :
     chunks[i].start <= n /\ n < chunks[i].stop /\ PageAt(chunks[i].req, n) \in Range(held[q]) =>
       \/ \E j \in 1..Len(chunks) : i < j /\ chunks[j].req = q
       \/ pc = "sharing" /\ q = Head(waiting)

PageInv ==
  KeptWill /\ Pieces /\ Fillings /\ FoundHolds /\ Private /\ SharedKept /\ InTurn

\* The positions of a row its text fills, but for the last token.
Bounded(text) == Smaller(Len(text), MaxSeq) - 1

\* What a pass not read adds to a request's text, drawn from that text.
Passes(r, pass, before, after) ==
  /\ ~Drawn(r, pass) => after = before
  /\ \A j \in 1..Len(pass) : pass[j].req = r =>
       /\ after = Append(before, pass[j].token)
       /\ Len(before) < MaxSeq =>
            pass[j].text = before /\ pass[j].at = Len(before) /\ pass[j].key = r

\* A request's text grows from what is read, by each pass, to the whole.
Grows(r, f, whole) ==
  /\ Passes(r, reading, PromptOf(r), f[0])
  /\ \A i \in 1..Len(queued) : Passes(r, queued[i], f[i - 1], f[i])
  /\ Passes(r, Due, f[Len(queued)], whole)
  /\ \A i \in 0..Len(queued) : Len(f[i]) <= Len(whole) /\ Start(whole, Len(f[i])) = f[i]

\* The row of a request has the whole text, and where it steps, stands at its end.
Stands(s, whole) ==
  /\ done[rows[s]] <= Bounded(whole) /\ Bounded(whole) <= Len(held[rows[s]]) * PageSize
  /\ Holds(rows[s], Bounded(whole), whole)
  /\ Bounded(whole) <= devPos[s] /\ devKey[s] = rows[s]
  /\ StepsOn(s) /\ Len(whole) <= MaxSeq =>
       devPos[s] = Len(whole) - 1 /\ devTok[s] = whole[Len(whole)]

Filled(s) == rows[s] # None /\ rows[s] \notin Range(filling)

Texts ==
  \A s \in Slot : Filled(s) =>
    \E f \in [0..Len(queued) -> Seq(Token)], whole \in Seq(Token) \ {<<>>} :
      Grows(rows[s], f, whole) /\ Stands(s, whole)

TextInv == PageInv /\ Texts

-----------------------------------------------------------------------------
\* The page of a position within k pages is one of them.
LEMMA PageIndex ==
  ASSUME NEW n \in Nat, NEW k \in Nat, n < k * PageSize
  PROVE  n \div PageSize + 1 \in 1..k /\ n % PageSize \in Offset
<1>1. PageSize \in Nat \ {0}
  BY EngineAssumption
<1>2. n \div PageSize \in Nat /\ (n \div PageSize) * PageSize <= n /\ n % PageSize \in 0..(PageSize - 1)
  BY <1>1
<1> DEFINE d == n \div PageSize
<1> HIDE DEF d
<1>3. d \in Nat /\ d * PageSize <= n
  BY <1>2 DEF d
<1>4. d < k
  <2> SUFFICES ASSUME k <= d PROVE FALSE
    BY <1>3
  <2>1. k * PageSize <= d * PageSize /\ k * PageSize \in Nat /\ d * PageSize \in Nat
    BY <1>1, <1>3, Multiples
  <2> QED
    BY <1>3, <2>1
<1>5. d + 1 \in 1..k
  BY <1>3, <1>4
<1> QED
  BY <1>2, <1>5 DEF d, Offset

\* The end of the page of a position is past it.
LEMMA PageEnd ==
  ASSUME NEW n \in Nat
  PROVE  /\ n \div PageSize + 1 \in Nat /\ (n \div PageSize + 1) * PageSize \in Nat
         /\ n < (n \div PageSize + 1) * PageSize
         /\ n = (n \div PageSize) * PageSize + (n % PageSize)
         /\ n % PageSize \in Offset
<1>1. PageSize \in Nat \ {0}
  BY EngineAssumption
<1> QED
  BY <1>1 DEF Offset

\* Different positions of a request are different cells.
LEMMA CellsApart ==
  ASSUME NEW m \in Nat, NEW n \in Nat, m \div PageSize = n \div PageSize,
         m % PageSize = n % PageSize
  PROVE  m = n
<1>1. /\ m = (m \div PageSize) * PageSize + (m % PageSize)
      /\ n = (n \div PageSize) * PageSize + (n % PageSize)
  BY PageEnd
<1> QED
  BY <1>1, Zenon

\* With no piece to pass, a cell holds what it will.
LEMMA WillNow ==
  ASSUME chunks = <<>>, NEW p, NEW o, NEW text
  PROVE  Will(p, o, text) <=> cache[p][o] = text
<1>1. 1..Len(chunks) = {}
  BY NoPlaces
<1> QED
  BY <1>1 DEF Will, Unwritten

\* The same after the step.
LEMMA WillThen ==
  ASSUME chunks' = <<>>, NEW p, NEW o, NEW text
  PROVE  Will(p, o, text)' <=> cache'[p][o] = text
<1>1. 1..Len(chunks') = {}
  BY NoPlaces
<1> QED
  BY <1>1 DEF Will, Unwritten

\* The pieces are the same, and the pages they write.
PiecesSame ==
  /\ chunks' = chunks
  /\ chunks # <<>> => tokens' = tokens
  /\ \A i \in 1..Len(chunks) : \A n \in Nat :
       chunks[i].start <= n /\ n < chunks[i].stop =>
         PageAt(chunks[i].req, n)' = PageAt(chunks[i].req, n)

\* Then a cell that stays holds what it will.
LEMMA WillKept ==
  ASSUME PiecesSame, NEW p, NEW o, NEW text, Will(p, o, text), cache'[p][o] = cache[p][o]
  PROVE  Will(p, o, text)'
<1>1. CASE chunks = <<>>
  BY <1>1, WillNow, WillThen DEF PiecesSame
<1>2. CASE chunks # <<>>
  <2>1. /\ chunks' = chunks /\ tokens' = tokens
        /\ \A i \in 1..Len(chunks) : \A n \in Nat :
             chunks[i].start <= n /\ n < chunks[i].stop =>
               PageAt(chunks[i].req, n)' = PageAt(chunks[i].req, n)
    BY <1>2 DEF PiecesSame
  <2>2. \A i \in 1..Len(chunks) : \A n \in Nat :
          Writes(chunks[i], n, p, o)' <=> Writes(chunks[i], n, p, o)
    BY <2>1 DEF Writes
  <2>3. \A r : PromptOf(r)' = PromptOf(r)
    BY <2>1 DEF PromptOf
  <2>4. Unwritten(p, o)' => Unwritten(p, o)
    BY <2>1, <2>2 DEF Unwritten
  <2>5. \A i \in 1..Len(chunks) : \A n \in Nat :
          Writes(chunks[i], n, p, o)' => Start(PromptOf(chunks[i].req), n + 1)' = text
    BY <2>1, <2>2, <2>3 DEF Will, Start
  <2> QED
    BY <2>1, <2>4, <2>5 DEF Will
<1> QED
  BY <1>1, <1>2

\* Nothing of the pages has changed.
LEMMA PagesStay ==
  ASSUME PageInv, pc # "sharing", pc' # "sharing", pc' \notin Passing => chunks = <<>>,
         UNCHANGED <<cache, chunks, held, done, digestOf, filling, placed, rows, devPos>>,
         tokens' = tokens
  PROVE  PageInv'
<1>1. PiecesSame
  BY DEF PiecesSame, PageAt
<1>2. \A p, o, text : Will(p, o, text) => Will(p, o, text)'
  BY <1>1, WillKept
<1>3. KeptWill'
  BY <1>2 DEF PageInv, KeptWill
<1>4. Pieces'
  BY DEF PageInv, Pieces, HasPiece
<1>5. Fillings'
  <2> SUFFICES ASSUME NEW r \in Range(filling) \cup Range(placed), NEW i \in 0..(done[r] - 1)
               PROVE  Will(PageAt(r, i), i % PageSize, Start(PromptOf(r), i + 1))'
    BY DEF Fillings, WillHold
  <2>1. Will(PageAt(r, i), i % PageSize, Start(PromptOf(r), i + 1))
    BY DEF PageInv, Fillings, WillHold
  <2>2. PageAt(r, i)' = PageAt(r, i) /\ Start(PromptOf(r), i + 1)' = Start(PromptOf(r), i + 1)
    BY DEF PageAt, PromptOf
  <2> QED
    BY <2>1, <2>2, <1>2
<1>6. FoundHolds'
  BY DEF FoundHolds
<1>7. Private' /\ SharedKept'
  BY DEF PageInv, Private, SharedKept
<1>8. InTurn'
  BY DEF PageInv, InTurn, PageAt
<1> QED
  BY <1>3, <1>4, <1>5, <1>6, <1>7, <1>8 DEF PageInv

\* The texts grow as they did.
LEMMA GrowsSame ==
  ASSUME UNCHANGED <<queued, reading, tokens>>, Due' = Due, NEW r, NEW f, NEW whole,
         Grows(r, f, whole)
  PROVE  Grows(r, f, whole)'
<1>1. PromptOf(r)' = PromptOf(r)
  BY DEF PromptOf
<1>2. /\ Passes(r, reading, PromptOf(r), f[0])' /\ Passes(r, Due, f[Len(queued)], whole)'
  BY <1>1 DEF Grows
<1>3. \A i \in 1..Len(queued') : Passes(r, queued'[i], f[i - 1], f[i])
  BY DEF Grows
<1>4. \A i \in 1..Len(queued') : Passes(r, queued[i], f[i - 1], f[i])'
  BY <1>3
<1> QED
  BY <1>2, <1>4 DEF Grows

\* Rows that are filled were so, and stand.
LEMMA TextsKept ==
  ASSUME Texts, UNCHANGED <<queued, reading, tokens>>, Due' = Due,
         \A s \in Slot : Filled(s)' =>
           /\ Filled(s) /\ rows'[s] = rows[s]
           /\ \A whole \in Seq(Token) \ {<<>>} : Stands(s, whole) => Stands(s, whole)'
  PROVE  Texts'
<1> SUFFICES ASSUME NEW s \in Slot, Filled(s)'
             PROVE  \E f \in [0..Len(queued') -> Seq(Token)], whole \in Seq(Token) \ {<<>>} :
                      Grows(rows[s], f, whole)' /\ Stands(s, whole)'
  BY DEF Texts
<1>1. PICK f \in [0..Len(queued) -> Seq(Token)], whole \in Seq(Token) \ {<<>>} :
        Grows(rows[s], f, whole) /\ Stands(s, whole)
  BY DEF Texts
<1>2. PICK r : r = rows[s] /\ r = rows'[s]
  OBVIOUS
<1>3. Grows(r, f, whole)'
  BY <1>1, <1>2, GrowsSame
<1>4. Grows(rows[s], f, whole)'
  BY <1>2, <1>3 DEF Grows, PromptOf
<1> QED
  BY <1>1, <1>4

\* A row whose pages hold what they held stands.
LEMMA StandsKept ==
  ASSUME IInv, IInv', ReadInv, Onward, NEW s \in Slot, NEW whole, Filled(s), Stands(s, whole),
         rows'[s] = rows[s], done'[rows[s]] = done[rows[s]],
         Bounded(whole) <= Len(held'[rows[s]]) * PageSize,
         \A i \in 0..(Bounded(whole) - 1) :
           cache'[held'[rows[s]][i \div PageSize + 1]][i % PageSize]
             = cache[PageAt(rows[s], i)][i % PageSize],
         devPos'[s] = devPos[s], devTok'[s] = devTok[s], devKey'[s] = devKey[s]
  PROVE  Stands(s, whole)'
<1>1. Holds(rows[s], Bounded(whole), whole)'
  <2>1. \A i \in 0..(Bounded(whole) - 1) :
          cache[PageAt(rows[s], i)][i % PageSize] = Start(whole, i + 1)
    BY DEF Stands, Holds
  <2>2. \A i \in 0..(Bounded(whole) - 1) :
          cache'[held'[rows'[s]][i \div PageSize + 1]][i % PageSize] = Start(whole, i + 1)
    BY <2>1
  <2> QED
    BY <2>2 DEF Holds, PageAt
<1>2. StepsOn(s)' => StepsOn(s)
  BY SteppedBefore DEF Filled
<1> QED
  BY <1>1, <1>2 DEF Stands

\* Steps that change neither draws, nor rows, nor pages.
LEMMA TextsStay ==
  ASSUME IInv, IInv', ReadInv, Onward, Texts, UNCHANGED <<queued, reading, tokens>>, Due' = Due,
         UNCHANGED <<cache, held, done, rows, filling, devPos, devTok, devKey>>
  PROVE  Texts'
<1>1. \A s \in Slot : Filled(s)' => Filled(s)
  BY DEF Filled
<1>2. ASSUME NEW s \in Slot, Filled(s), NEW whole \in Seq(Token) \ {<<>>}, Stands(s, whole)
      PROVE  Stands(s, whole)'
  BY <1>2, StandsKept DEF Stands, PageAt
<1> QED
  BY <1>1, <1>2, TextsKept

\* The steps that change none of that.
LEMMA OthersTexts ==
  ASSUME IInv, IInv', ReadInv, TextInv,
         \/ \E r \in Request : Submit(r) \/ (Cancel(r) /\ CancelWaiting(r))
         \/ BeginStep \/ GrowRead \/ GrowDone \/ ChunkDone \/ PlaceStop
         \/ BindDone \/ PassesDone \/ DecodeNone \/ ReadDone \/ UNCHANGED vars
  PROVE  TextInv'
<1>1. Onward
  BY DEF Onward, Quiet
<1>2. UNCHANGED <<queued, reading, tokens>> /\ Due' = Due
  BY NoDraw DEF Quiet, DrawsStill
<1>3. CASE \/ \E r \in Request : Submit(r) \/ (Cancel(r) /\ CancelWaiting(r))
           \/ BeginStep \/ GrowRead \/ ChunkDone \/ PlaceStop
           \/ BindDone \/ PassesDone \/ DecodeNone \/ ReadDone
  <2>1. /\ UNCHANGED <<cache, chunks, held, done, digestOf, filling, placed, rows, devPos>>
        /\ UNCHANGED <<devTok, devKey>>
        /\ pc # "sharing" /\ pc' # "sharing"
        /\ pc \notin Passing \/ pc' \in Passing \/ chunks = <<>>
    BY <1>3 DEF Submit, Cancel, CancelWaiting, BeginStep, GrowRead, ChunkDone, PlaceStop,
         BindDone, PassesDone, DecodeNone, ReadDone, At, Goto, Reading, Passing, poolVars,
         rowVars, localVars, cellVars
  <2>2. pc' \notin Passing => chunks = <<>>
    BY <2>1 DEF TextInv, PageInv, Pieces
  <2>3. PageInv'
    BY <2>1, <2>2, <1>2, PagesStay DEF TextInv
  <2>4. Texts'
    BY <2>1, <1>1, <1>2, TextsStay DEF TextInv
  <2> QED
    BY <2>3, <2>4 DEF TextInv
<1>4. CASE GrowDone
  <2>1. /\ UNCHANGED <<cache, held, done, digestOf, filling, placed, rows, devPos>>
        /\ UNCHANGED <<devTok, devKey>>
        /\ pc = "grow" /\ pc' = "chunk" /\ chunks' = <<>>
    BY <1>4 DEF GrowDone, At, Goto, poolVars, rowVars, cellVars
  <2>2. chunks = <<>>
    BY <2>1 DEF TextInv, PageInv, Pieces, Passing
  <2>3. PageInv'
    BY <2>1, <2>2, <1>2, PagesStay DEF TextInv, Passing
  <2>4. Texts'
    BY <2>1, <1>1, <1>2, TextsStay DEF TextInv
  <2> QED
    BY <2>3, <2>4 DEF TextInv
<1>5. CASE UNCHANGED vars
  <2>1. UNCHANGED <<cache, chunks, held, done, digestOf, filling, placed, rows, devPos, devTok,
                    devKey, pc, found, waiting>>
    BY <1>5 DEF vars, poolVars, rowVars, localVars, cellVars
  <2>2. CASE pc = "sharing"
    <3>1. PageInv'
      <4>1. UNCHANGED <<tokens>>
        BY <1>2
      <4>2. PiecesSame
        BY <2>1, <4>1 DEF PiecesSame, PageAt
      <4>3. \A p, o, text : Will(p, o, text) => Will(p, o, text)'
        BY <2>1, <4>2, WillKept
      <4>4. KeptWill' /\ Pieces' /\ Private' /\ SharedKept' /\ InTurn'
        BY <2>1, <4>3 DEF TextInv, PageInv, KeptWill, Pieces, HasPiece, Private, SharedKept,
             InTurn, PageAt
      <4>5. ASSUME NEW r, NEW n, WillHold(r, n, PromptOf(r))
            PROVE  WillHold(r, n, PromptOf(r))'
        <5> SUFFICES ASSUME NEW i \in 0..(n - 1)
                     PROVE  Will(PageAt(r, i), i % PageSize, Start(PromptOf(r), i + 1))'
          BY DEF WillHold
        <5>1. Will(PageAt(r, i), i % PageSize, Start(PromptOf(r), i + 1))
          BY <4>5 DEF WillHold
        <5>2. PageAt(r, i)' = PageAt(r, i) /\ Start(PromptOf(r), i + 1)' = Start(PromptOf(r), i + 1)
          BY <2>1, <4>1 DEF PageAt, PromptOf
        <5> QED
          BY <5>1, <5>2, <4>3
      <4>6. Fillings'
        <5> SUFFICES ASSUME NEW r \in Range(filling) \cup Range(placed)
                     PROVE  WillHold(r, done[r], PromptOf(r))'
          BY <2>1 DEF Fillings
        <5>1. WillHold(r, done[r], PromptOf(r))
          BY DEF TextInv, PageInv, Fillings
        <5> QED
          BY <5>1, <4>5, <2>1 DEF WillHold
      <4>7. FoundHolds'
        <5>1. PICK r : r = Head(waiting) /\ r = Head(waiting')
          BY <2>1
        <5>2. /\ WillHold(r, Smaller(Len(held[r]) * PageSize, done[r]), PromptOf(r))
              /\ done[r] <= (Len(held[r]) + Len(found)) * PageSize
              /\ \A j \in 1..Len(found) :
                   /\ (Len(held[r]) + j) * PageSize <= done[r]
                   /\ digestOf[found[j]] = Start(PromptOf(r), (Len(held[r]) + j) * PageSize)
          BY <2>2, <5>1 DEF TextInv, PageInv, FoundHolds
        <5>3. WillHold(r, Smaller(Len(held[r]) * PageSize, done[r]), PromptOf(r))'
          BY <5>2, <4>5, <2>1 DEF WillHold
        <5>4. PromptOf(r)' = PromptOf(r)
          BY <4>1 DEF PromptOf
        <5> QED
          BY <5>1, <5>2, <5>3, <5>4, <2>1 DEF FoundHolds
      <4> QED
        BY <4>4, <4>6, <4>7 DEF PageInv
    <3>2. Texts'
      BY <2>1, <1>1, <1>2, TextsStay DEF TextInv
    <3> QED
      BY <3>1, <3>2 DEF TextInv
  <2>3. CASE pc # "sharing"
    <3>1. pc' # "sharing" /\ (pc' \notin Passing => chunks = <<>>)
      BY <2>1, <2>3 DEF TextInv, PageInv, Pieces
    <3>2. PageInv'
      BY <2>1, <2>3, <3>1, <1>2, PagesStay DEF TextInv
    <3>3. Texts'
      BY <2>1, <1>1, <1>2, TextsStay DEF TextInv
    <3> QED
      BY <3>2, <3>3 DEF TextInv
  <2> QED
    BY <2>2, <2>3
<1> QED
  BY <1>3, <1>4, <1>5

\* The pages of a prompt in passing hold its positions.
LEMMA FillPages ==
  ASSUME IInv, NEW r \in Range(filling) \cup Range(placed), NEW i \in 0..(done[r] - 1)
  PROVE  /\ r \in Request /\ i \in Nat /\ i \div PageSize + 1 \in 1..Len(held[r])
         /\ PageAt(r, i) \in Range(held[r]) /\ i % PageSize \in Offset
<1>1. r \in Request
  <2>1. filling \in Seq(Request) /\ placed \in Seq(Request)
    BY DEF IInv, RowTypes
  <2> QED
    BY <2>1, RangeOfLine
<1>2. /\ Len(held[r]) >= Len(PromptOf(r)) \div PageSize + 1 /\ done[r] <= Len(PromptOf(r))
  BY DEF IInv, FillingHold, PagesFor
<1>3. /\ done[r] \in Nat /\ held[r] \in Seq(Usable) /\ Len(held[r]) \in Nat
      /\ Len(PromptOf(r)) \in Nat
  <2>1. done \in [Request -> Nat] /\ held \in [Request -> Seq(Usable)]
    BY DEF IInv, RowTypes
  <2> QED
    BY <2>1, <1>1, TextOfRequest DEF IInv
<1>4. i \in Nat /\ i < Len(held[r]) * PageSize
  <2>1. PageSize \in Nat \ {0}
    BY EngineAssumption
  <2>2. PICK n \in Nat : n = Len(PromptOf(r))
    BY <1>3
  <2>3. /\ n \div PageSize + 1 \in Nat /\ (n \div PageSize + 1) * PageSize \in Nat
        /\ n < (n \div PageSize + 1) * PageSize
    BY PageEnd
  <2>4. /\ (n \div PageSize + 1) * PageSize <= Len(held[r]) * PageSize
        /\ Len(held[r]) * PageSize \in Nat
    BY <1>2, <1>3, <2>1, <2>2, <2>3, Multiples
  <2>5. i \in Nat /\ i < n
    BY <1>2, <1>3, <2>2
  <2> QED
    BY <2>3, <2>4, <2>5
<1>5. i \div PageSize + 1 \in 1..Len(held[r]) /\ i % PageSize \in Offset
  BY <1>3, <1>4, PageIndex
<1> QED
  BY <1>1, <1>3, <1>4, <1>5, RangeOfLine DEF PageAt

\* The pages of a row hold the positions of its text.
LEMMA RowPages ==
  ASSUME IInv, NEW s \in Slot, rows[s] # None, NEW whole \in Seq(Token) \ {<<>>}, Stands(s, whole),
         NEW i \in 0..(Bounded(whole) - 1)
  PROVE  /\ rows[s] \in Request /\ i \in Nat /\ i \div PageSize + 1 \in 1..Len(held[rows[s]])
         /\ PageAt(rows[s], i) \in Range(held[rows[s]]) /\ i % PageSize \in Offset
<1>1. PICK r \in Request : r = rows[s]
  BY RowRuns
<1>2. held[r] \in Seq(Usable) /\ Len(held[r]) \in Nat
  <2>1. held \in [Request -> Seq(Usable)]
    BY DEF IInv, RowTypes
  <2> QED
    BY <2>1
<1>3. Bounded(whole) \in Int /\ Bounded(whole) <= Len(held[r]) * PageSize
  <2>1. Len(whole) \in Nat /\ MaxSeq \in Nat
    BY EngineAssumption
  <2>2. Bounded(whole) \in Int
    BY <2>1 DEF Bounded, Smaller
  <2> QED
    BY <2>2, <1>1 DEF Stands
<1>4. i \in Nat /\ i < Len(held[r]) * PageSize
  <2>1. Len(held[r]) * PageSize \in Nat
    BY <1>2, EngineAssumption
  <2> QED
    BY <2>1, <1>3
<1>5. i \div PageSize + 1 \in 1..Len(held[r]) /\ i % PageSize \in Offset
  BY <1>2, <1>4, PageIndex
<1> QED
  BY <1>1, <1>2, <1>4, <1>5, RangeOfLine DEF PageAt

\* The pages kept hold what they held.
LEMMA KeptStay ==
  ASSUME KeptWill, PiecesSame,
         \A p \in DOMAIN digestOf' :
           /\ p \in DOMAIN digestOf /\ digestOf'[p] = digestOf[p]
           /\ \A o \in Offset : cache'[p][o] = cache[p][o]
  PROVE  KeptWill'
<1> SUFFICES ASSUME NEW p \in DOMAIN digestOf', NEW o \in Offset
             PROVE  Will(p, o, Start(digestOf[p], Len(digestOf[p]) - PageSize + o + 1))'
  BY DEF KeptWill
<1>1. PICK text : text = Start(digestOf[p], Len(digestOf[p]) - PageSize + o + 1)
  OBVIOUS
<1>2. Will(p, o, text)
  BY <1>1 DEF KeptWill
<1>3. Will(p, o, text)'
  BY <1>2, WillKept
<1>4. Start(digestOf[p], Len(digestOf[p]) - PageSize + o + 1)' = text
  BY <1>1
<1> QED
  BY <1>3, <1>4

\* The start of a request's text is where it was.
LEMMA StartStays ==
  ASSUME PiecesSame, NEW r, NEW n, WillHold(r, n, PromptOf(r)), PromptOf(r)' = PromptOf(r),
         \A i \in 0..(n - 1) :
           /\ PageAt(r, i)' = PageAt(r, i)
           /\ cache'[PageAt(r, i)][i % PageSize] = cache[PageAt(r, i)][i % PageSize]
  PROVE  WillHold(r, n, PromptOf(r))'
<1> SUFFICES ASSUME NEW i \in 0..(n - 1)
             PROVE  Will(PageAt(r, i), i % PageSize, Start(PromptOf(r), i + 1))'
  BY DEF WillHold
<1>1. PICK p, text : p = PageAt(r, i) /\ text = Start(PromptOf(r), i + 1)
  OBVIOUS
<1>2. Will(p, i % PageSize, text)
  BY <1>1 DEF WillHold
<1>3. Will(p, i % PageSize, text)'
  BY <1>1, <1>2, WillKept
<1>4. PageAt(r, i)' = p /\ Start(PromptOf(r), i + 1)' = text
  BY <1>1
<1> QED
  BY <1>3, <1>4

\* Prompts in passing have what they had.
LEMMA FillingsStay ==
  ASSUME Fillings, PiecesSame,
         \A r \in Range(filling') \cup Range(placed') :
           /\ r \in Range(filling) \cup Range(placed)
           /\ done'[r] = done[r] /\ PromptOf(r)' = PromptOf(r)
           /\ \A i \in 0..(done[r] - 1) :
                /\ PageAt(r, i)' = PageAt(r, i)
                /\ cache'[PageAt(r, i)][i % PageSize] = cache[PageAt(r, i)][i % PageSize]
  PROVE  Fillings'
<1> SUFFICES ASSUME NEW r \in Range(filling') \cup Range(placed')
             PROVE  WillHold(r, done[r], PromptOf(r))'
  BY DEF Fillings
<1>1. PICK n : n = done[r] /\ n = done'[r]
  OBVIOUS
<1>2. WillHold(r, n, PromptOf(r))
  BY <1>1 DEF Fillings
<1>3. WillHold(r, n, PromptOf(r))'
  BY <1>1, <1>2, StartStays
<1> QED
  BY <1>1, <1>3 DEF WillHold

\* A page given back and wiped is neither kept nor held.
LEMMA GivenUp ==
  ASSUME IInv, GiveBackPage, NEW p \in Page,
         p \in DOMAIN digestOf \/ \E r \in Request : p \in Range(held[r])
  PROVE  cache'[p] = cache[p]
<1> DEFINE q == Last(giving)
<1>1. cache' = IF refs[q] <= 1 /\ q \notin DOMAIN digestOf THEN [cache EXCEPT ![q] = Wiped] ELSE cache
  BY DEF GiveBackPage
<1>2. q \in Range(giving) /\ q \in Page
  <2>1. giving # <<>> /\ giving \in Seq(Usable)
    BY DEF GiveBackPage, IInv, RowTypes
  <2>2. q \in Range(giving) /\ q \in Usable
    BY <2>1, EndsOfLine, RangeOfLine
  <2> QED
    BY <2>2 DEF Usable
<1> HIDE DEF q
<1>3. cache \in [Page -> [Offset -> Text]]
  BY DEF IInv, DeviceTypes
<1>4. CASE p # q
  BY <1>1, <1>3, <1>4
<1>5. CASE p = q
  <2>1. CASE q \in DOMAIN digestOf
    BY <2>1, <1>1
  <2>2. CASE \E r \in Request : p \in Range(held[r])
    <3>1. Holders(q) # {} /\ IsFiniteSet(Holders(q))
      BY <2>2, <1>2, <1>5 DEF Holders, IInv, PagesHeld
    <3>2. Cardinality(Holders(q)) \in Nat /\ Cardinality(Holders(q)) # 0
      BY <3>1, FS_EmptySet, FS_CardinalityType
    <3>3. refs[q] = Cardinality(Holders(q)) + 1
      BY <1>2 DEF IInv, PagesHeld, RefsCountHolders
    <3>4. ~(refs[q] <= 1)
      BY <3>2, <3>3
    <3> QED
      BY <3>4, <1>1
  <2> QED
    BY <2>1, <2>2, <1>5
<1> QED
  BY <1>4, <1>5

\* The pages of a request are pages of the pool.
LEMMA HeldPages ==
  ASSUME IInv, NEW r \in Request
  PROVE  held[r] \in Seq(Usable) /\ Len(held[r]) \in Nat /\ Range(held[r]) \subseteq Page
<1>1. held \in [Request -> Seq(Usable)]
  BY DEF IInv, RowTypes
<1>2. held[r] \in Seq(Usable)
  BY <1>1
<1>3. Range(held[r]) \subseteq Usable
  BY <1>2, RangeOfLine
<1> QED
  BY <1>2, <1>3 DEF Usable

\* The pages kept are pages of the pool.
LEMMA KeptPages ==
  ASSUME IInv
  PROVE  DOMAIN digestOf \subseteq Page
BY DEF IInv, PoolOK, PoolTypeOK

\* A page given back is of no text.
LEMMA GiveBackPageTexts ==
  ASSUME IInv, IInv', ReadInv, SufficeInv, TextInv, GiveBackPage
  PROVE  TextInv'
<1>1. /\ UNCHANGED <<tokens, rows, filling, done, held, placed, chunks, digestOf, waiting, pc>>
      /\ UNCHANGED <<devPos, devTok, devKey, queued, reading>>
  BY DEF GiveBackPage, GiveBack, requestVars, passVars, localVars
<1>2. pc # "sharing"
  BY DEF SufficeInv, GiveBackPage
<1>3. Onward /\ Due' = Due
  BY NoDraw DEF Onward, Quiet, DrawsStill
<1>4. PiecesSame
  BY <1>1 DEF PiecesSame, PageAt
<1>5. KeptWill'
  <2>1. \A p \in DOMAIN digestOf : cache'[p] = cache[p]
    BY KeptPages, GivenUp
  <2> QED
    BY <1>1, <1>4, <2>1, KeptStay DEF TextInv, PageInv
<1>6. Pieces'
  BY <1>1 DEF TextInv, PageInv, Pieces, HasPiece
<1>7. Fillings'
  <2>1. ASSUME NEW r \in Range(filling) \cup Range(placed), NEW i \in 0..(done[r] - 1)
        PROVE  cache'[PageAt(r, i)] = cache[PageAt(r, i)]
    BY FillPages, HeldPages, GivenUp
  <2>2. \A r : PromptOf(r)' = PromptOf(r)
    BY <1>1 DEF PromptOf
  <2>3. \A r, i : PageAt(r, i)' = PageAt(r, i)
    BY <1>1 DEF PageAt
  <2> QED
    BY <1>1, <1>4, <2>1, <2>2, <2>3, FillingsStay DEF TextInv, PageInv
<1>8. FoundHolds' /\ Private' /\ SharedKept' /\ InTurn'
  BY <1>1, <1>2 DEF TextInv, PageInv, FoundHolds, Private, SharedKept, InTurn, PageAt
<1>9. Texts'
  <2>1. \A s \in Slot : Filled(s)' => Filled(s)
    BY <1>1 DEF Filled
  <2>2. ASSUME NEW s \in Slot, Filled(s), NEW whole \in Seq(Token) \ {<<>>}, Stands(s, whole)
        PROVE  Stands(s, whole)'
    <3>1. \A i \in 0..(Bounded(whole) - 1) :
            cache'[PageAt(rows[s], i)] = cache[PageAt(rows[s], i)]
      BY <2>2, RowPages, HeldPages, GivenUp DEF Filled
    <3>2. \A i \in 0..(Bounded(whole) - 1) :
            cache'[held'[rows[s]][i \div PageSize + 1]][i % PageSize]
              = cache[PageAt(rows[s], i)][i % PageSize]
      BY <3>1, <1>1 DEF PageAt
    <3>3. Bounded(whole) <= Len(held'[rows[s]]) * PageSize
      BY <2>2, <1>1 DEF Stands
    <3> QED
      BY <2>2, <3>2, <3>3, <1>1, <1>3, StandsKept
  <2> QED
    BY <2>1, <2>2, <1>1, <1>3, TextsKept DEF TextInv
<1> QED
  BY <1>5, <1>6, <1>7, <1>8, <1>9 DEF TextInv, PageInv

\* With nobody in a row and no page kept, there is no text to hold.
LEMMA NothingHeld ==
  ASSUME chunks = <<>>, placed = <<>>, filling = <<>>, digestOf = <<>>, pc = "idle",
         \A s \in Slot : rows[s] = None, \A r \in Request : held[r] = <<>>, None \notin Request
  PROVE  TextInv
<1>1. DOMAIN digestOf = {} /\ Range(placed) = {} /\ Range(filling) = {} /\ 1..Len(chunks) = {}
  BY NoPlaces, EmptyLine
<1>2. \A r \in Request : Range(held[r]) = {} /\ 1..Len(held[r]) = {}
  BY NoPlaces, EmptyLine
<1>3. KeptWill /\ Fillings
  BY <1>1 DEF KeptWill, Fillings
<1>4. Pieces
  BY <1>1 DEF Pieces, HasPiece
<1>5. FoundHolds /\ Private /\ SharedKept
  BY <1>2 DEF FoundHolds, Private, SharedKept
<1>6. InTurn
  BY <1>1 DEF InTurn
<1>7. Texts
  BY DEF Texts, Filled
<1> QED
  BY <1>3, <1>4, <1>5, <1>6, <1>7 DEF TextInv, PageInv

\* Nor is there at first.
LEMMA InitTexts ==
  ASSUME Init
  PROVE  TextInv
<1>1. /\ chunks = <<>> /\ placed = <<>> /\ filling = <<>> /\ digestOf = <<>> /\ pc = "idle"
      /\ \A s \in Slot : rows[s] = None
      /\ \A r \in Request : held[r] = <<>>
  BY DEF Init, PoolInit
<1> QED
  BY <1>1, NothingHeld, EngineAssumption

\* Or after a reset.
LEMMA ResetTexts ==
  ASSUME IInv, TextInv, Reset
  PROVE  TextInv'
<1>1. pc = "idle" /\ pc' = "idle" /\ chunks' = chunks /\ placed' = placed
  BY DEF Reset, At, localVars
<1>2. chunks' = <<>> /\ placed' = <<>>
  BY <1>1 DEF TextInv, PageInv, Pieces, Passing, IInv, Placement, Placing
<1>3. /\ filling' = <<>> /\ digestOf' = <<>>
      /\ \A s \in Slot : rows'[s] = None
      /\ \A r \in Request : held'[r] = <<>>
  BY DEF Reset
<1>4. DOMAIN digestOf' = {} /\ Range(placed') = {} /\ Range(filling') = {} /\ 1..Len(chunks') = {}
  BY <1>2, <1>3, NoPlaces, EmptyLine
<1>5. \A r \in Request : Range(held'[r]) = {} /\ 1..Len(held'[r]) = {}
  BY <1>3, NoPlaces, EmptyLine
<1>6. KeptWill' /\ Fillings'
  BY <1>4 DEF KeptWill, Fillings
<1>7. Pieces'
  <2>1. \A s \in Slot : rows'[s] \notin Range(filling')
    BY <1>4
  <2> QED
    BY <1>2, <1>4, <2>1 DEF Pieces, HasPiece
<1>8. FoundHolds' /\ Private' /\ SharedKept'
  BY <1>1, <1>5 DEF FoundHolds, Private, SharedKept
<1>9. InTurn'
  BY <1>4 DEF InTurn
<1>10. Texts'
  BY <1>3 DEF Texts, Filled
<1> QED
  BY <1>6, <1>7, <1>8, <1>9, <1>10 DEF TextInv, PageInv

\* Before the weights change every page is given up, and none is kept after.
LEMMA LoadWeightsTexts ==
  ASSUME IInv, IInv', TextInv, LoadWeights
  PROVE  TextInv'
<1>1. /\ pc = "idle" /\ pc' = "idle"
      /\ UNCHANGED <<chunks, placed, filling, rows, held, seniority, waiting>>
      /\ digestOf' = <<>>
  BY DEF LoadWeights, At, Forget, localVars, rowVars
<1>2. chunks' = <<>> /\ placed' = <<>>
  BY <1>1 DEF TextInv, PageInv, Pieces, Passing, IInv, Placement, Placing
<1>3. \A s \in Slot : rows'[s] = None
  BY <1>1 DEF LoadWeights, busy
<1>4. Rowed = {}
  BY <1>1, <1>3 DEF Rowed
<1>5. Range(filling') = {} /\ Range(seniority) = {}
  BY <1>1, <1>2, <1>4, EmptyLine DEF IInv, Admission
<1>6. \A r \in Request : held'[r] = <<>>
  BY <1>1, <1>5 DEF IInv, PagesHeld
<1>7. DOMAIN digestOf' = {} /\ Range(placed') = {} /\ 1..Len(chunks') = {}
  BY <1>1, <1>2, NoPlaces, EmptyLine
<1>8. \A r \in Request : Range(held'[r]) = {} /\ 1..Len(held'[r]) = {}
  BY <1>6, NoPlaces, EmptyLine
<1>9. KeptWill' /\ Fillings'
  BY <1>5, <1>7 DEF KeptWill, Fillings
<1>10. Pieces'
  <2>1. \A s \in Slot : rows'[s] \notin Range(filling')
    BY <1>5
  <2> QED
    BY <1>2, <1>7, <2>1 DEF Pieces, HasPiece
<1>11. FoundHolds' /\ Private' /\ SharedKept'
  BY <1>1, <1>8 DEF FoundHolds, Private, SharedKept
<1>12. InTurn'
  BY <1>7 DEF InTurn
<1>13. Texts'
  BY <1>3 DEF Texts, Filled
<1> QED
  BY <1>9, <1>10, <1>11, <1>12, <1>13 DEF TextInv, PageInv

\* The cells a piece is to write are of its request's pages.
LEMMA PieceCells ==
  ASSUME IInv, PiecesApart, Pieces, NEW i \in 1..Len(chunks), NEW n \in Nat,
         chunks[i].start <= n, n < chunks[i].stop
  PROVE  LET r == chunks[i].req
         IN  /\ r \in Range(filling) \cup Range(placed) /\ n \in 0..(done[r] - 1)
             /\ r \in Request /\ n \div PageSize + 1 \in 1..Len(held[r])
             /\ PageAt(r, n) \in Range(held[r]) /\ n % PageSize \in Offset
<1>1. PICK r : r = chunks[i].req
  OBVIOUS
<1>2. pc \in Passing
  <2>1. chunks # <<>>
    BY NoPlaces
  <2> QED
    BY <2>1 DEF Pieces
<1>3. r \in Range(filling) \cup Range(placed)
  BY <1>1, <1>2 DEF PiecesApart
<1>4. chunks[i].stop <= done[r] /\ chunks[i].stop \in Nat
  <2>1. chunks \in Seq(Piece)
    BY DEF IInv, PassTypes
  <2>2. chunks[i] \in Piece
    BY <2>1
  <2> QED
    BY <1>1, <2>2 DEF Pieces, Piece
<1>5. r \in Request
  <2>1. filling \in Seq(Request) /\ placed \in Seq(Request)
    BY DEF IInv, RowTypes
  <2> QED
    BY <1>3, <2>1, RangeOfLine
<1>6. done[r] \in Nat
  BY <1>5 DEF IInv, RowTypes
<1>7. n \in 0..(done[r] - 1)
  BY <1>4, <1>6
<1> QED
  BY <1>1, <1>3, <1>7, FillPages

\* The pages of each request are its pages before and maybe more.
Extended ==
  \A q \in Request :
    Len(held[q]) <= Len(held'[q]) /\ \A k \in 1..Len(held[q]) : held'[q][k] = held[q][k]

\* The pieces write where they did.
LEMMA PiecesExtended ==
  ASSUME IInv, PiecesApart, Pieces, Extended, UNCHANGED <<chunks, tokens>>
  PROVE  PiecesSame
<1>1. ASSUME NEW i \in 1..Len(chunks), NEW n \in Nat, chunks[i].start <= n, n < chunks[i].stop
      PROVE  PageAt(chunks[i].req, n)' = PageAt(chunks[i].req, n)
  <2>1. PICK r : r = chunks[i].req /\ r = chunks'[i].req
    OBVIOUS
  <2>2. r \in Request /\ n \div PageSize + 1 \in 1..Len(held[r])
    BY <1>1, <2>1, PieceCells
  <2> QED
    BY <2>1, <2>2 DEF PageAt, Extended
<1> QED
  BY <1>1 DEF PiecesSame

\* Prompts in passing, their pages where they were.
LEMMA FillingsExtended ==
  ASSUME IInv, Fillings, PiecesSame, Extended, UNCHANGED <<filling, placed, tokens>>,
         \A r \in Range(filling) \cup Range(placed) : done'[r] = done[r],
         \A r \in Request : \A p \in Range(held[r]) : cache'[p] = cache[p]
  PROVE  Fillings'
<1>1. ASSUME NEW r \in Range(filling) \cup Range(placed), NEW i \in 0..(done[r] - 1)
      PROVE  /\ PageAt(r, i)' = PageAt(r, i)
             /\ cache'[PageAt(r, i)] = cache[PageAt(r, i)]
  <2>1. /\ r \in Request /\ i \div PageSize + 1 \in 1..Len(held[r])
        /\ PageAt(r, i) \in Range(held[r])
    BY FillPages
  <2> QED
    BY <2>1 DEF PageAt, Extended
<1>2. \A r : PromptOf(r)' = PromptOf(r)
  BY DEF PromptOf
<1> QED
  BY <1>1, <1>2, FillingsStay

\* Rows filled, their pages where they were.
LEMMA TextsExtended ==
  ASSUME IInv, IInv', ReadInv, Onward, Texts, Extended, UNCHANGED <<queued, reading, tokens>>,
         Due' = Due, UNCHANGED <<rows, filling, devPos, devTok, devKey>>,
         \A s \in Slot : Filled(s) => done'[rows[s]] = done[rows[s]],
         \A r \in Request : \A p \in Range(held[r]) : cache'[p] = cache[p]
  PROVE  Texts'
<1>1. \A s \in Slot : Filled(s)' => Filled(s)
  BY DEF Filled
<1>2. ASSUME NEW s \in Slot, Filled(s), NEW whole \in Seq(Token) \ {<<>>}, Stands(s, whole)
      PROVE  Stands(s, whole)'
  <2>1. PICK r \in Request : r = rows[s]
    BY <1>2, RowRuns DEF Filled
  <2>2. ASSUME NEW i \in 0..(Bounded(whole) - 1)
        PROVE  cache'[held'[r][i \div PageSize + 1]][i % PageSize] = cache[PageAt(r, i)][i % PageSize]
    <3>1. i \div PageSize + 1 \in 1..Len(held[r]) /\ PageAt(r, i) \in Range(held[r])
      BY <1>2, <2>1, RowPages DEF Filled
    <3>2. held'[r][i \div PageSize + 1] = PageAt(r, i)
      BY <3>1 DEF PageAt, Extended
    <3> QED
      BY <3>1, <3>2
  <2>3. Bounded(whole) <= Len(held'[r]) * PageSize
    <3>1. Bounded(whole) <= Len(held[r]) * PageSize
      BY <1>2, <2>1 DEF Stands
    <3>2. Len(held[r]) \in Nat /\ Len(held'[r]) \in Nat
      <4>1. held \in [Request -> Seq(Usable)] /\ held' \in [Request -> Seq(Usable)]
        BY DEF IInv, RowTypes
      <4> QED
        BY <4>1
    <3>3. PageSize \in Nat \ {0} /\ Bounded(whole) \in Int
      <4>1. PageSize \in Nat \ {0} /\ MaxSeq \in Nat
        BY EngineAssumption
      <4> QED
        BY <4>1 DEF Bounded, Smaller
    <3>4. Len(held[r]) <= Len(held'[r])
      BY DEF Extended
    <3>5. /\ Len(held[r]) * PageSize <= Len(held'[r]) * PageSize
          /\ Len(held[r]) * PageSize \in Nat /\ Len(held'[r]) * PageSize \in Nat
      BY <3>2, <3>3, <3>4, Multiples
    <3> QED
      BY <3>1, <3>3, <3>5
  <2> QED
    BY <1>2, <2>1, <2>2, <2>3, StandsKept
<1> QED
  BY <1>1, <1>2, TextsKept

\* The page taken is of no request and, after, kept by no digest.
LEMMA PageTaken ==
  ASSUME IInv, NEW r \in Request, TakeFor(r)
  PROVE  \E p \in Usable :
           /\ \A q \in Request : p \notin Range(held[q])
           /\ held' = [held EXCEPT ![r] = Append(@, p)]
           /\ cache' = [cache EXCEPT ![p] = Wiped]
           /\ DOMAIN digestOf' = DOMAIN digestOf \ {p}
           /\ \A x \in DOMAIN digestOf' : digestOf'[x] = digestOf[x]
<1>1. PICK p : /\ Take(p)
               /\ held' = [held EXCEPT ![r] = Append(@, p)]
               /\ cache' = [cache EXCEPT ![p] = Wiped]
  BY DEF TakeFor
<1>2. p \in Usable /\ refs[p] = 0
  BY <1>1, TakePool DEF IInv
<1>3. \A q \in Request : p \notin Range(held[q])
  BY <1>2, UnusedNotHeld DEF IInv
<1>4. DOMAIN digestOf' = DOMAIN digestOf \ {p} /\ \A x \in DOMAIN digestOf' : digestOf'[x] = digestOf[x]
  <2>1. CASE TakeFree(p)
    <3>1. free # <<>> /\ p = Last(free) /\ digestOf' = digestOf
      BY <2>1 DEF TakeFree
    <3>2. free \in Seq(Page \ {SinkPage})
      BY DEF IInv, PoolOK, PoolTypeOK
    <3>3. p \in Range(free)
      BY <3>1, <3>2, EndsOfLine
    <3>4. p \notin DOMAIN digestOf
      BY <3>3 DEF IInv, PoolOK, PoolConsistent, ListsPartition
    <3> QED
      BY <3>1, <3>4
  <2>2. CASE TakeIdle(p)
    BY <2>2 DEF TakeIdle, Restrict
  <2> QED
    BY <1>1, <2>1, <2>2 DEF Take
<1> QED
  BY <1>1, <1>2, <1>3, <1>4

\* What the pages hold, a page more.
LEMMA TakeForTexts ==
  ASSUME IInv, IInv', PageInv, PiecesApart, NEW r \in Request, TakeFor(r),
         UNCHANGED <<filling, placed, done, chunks, tokens, pc, waiting>>
  PROVE  /\ Extended /\ PiecesSame
         /\ \A q \in Request : \A x \in Range(held[q]) : cache'[x] = cache[x]
         /\ KeptWill' /\ Fillings' /\ Private' /\ SharedKept' /\ InTurn'
         /\ \A q \in Request \ {r} : held'[q] = held[q]
         /\ Len(held'[r]) = Len(held[r]) + 1
<1>1. PICK p \in Usable :
           /\ \A q \in Request : p \notin Range(held[q])
           /\ held' = [held EXCEPT ![r] = Append(@, p)]
           /\ cache' = [cache EXCEPT ![p] = Wiped]
           /\ DOMAIN digestOf' = DOMAIN digestOf \ {p}
           /\ \A x \in DOMAIN digestOf' : digestOf'[x] = digestOf[x]
  BY PageTaken
<1>2. held \in [Request -> Seq(Usable)] /\ held' \in [Request -> Seq(Usable)]
  BY DEF IInv, RowTypes
<1>3. /\ \A q \in Request \ {r} : held'[q] = held[q]
      /\ held'[r] = Append(held[r], p)
  BY <1>1, <1>2
<1>4. /\ Len(held[r]) \in Nat /\ Len(held'[r]) = Len(held[r]) + 1
      /\ held'[r][Len(held[r]) + 1] = p
      /\ \A k \in 1..Len(held[r]) : held'[r][k] = held[r][k]
      /\ Range(held'[r]) = Range(held[r]) \cup {p}
  <2>1. held[r] \in Seq(Usable)
    BY <1>2
  <2>2. held'[r] \in Seq(Usable) /\ held'[r] # <<>> /\ Last(held'[r]) = p /\ Front(held'[r]) = held[r]
    BY <1>3, <2>1 DEF Last, Front
  <2>3. Range(held'[r]) = Range(held[r]) \cup {p}
    BY <2>2, EndsOfLine
  <2> QED
    BY <1>3, <2>1, <2>3
<1>5. Extended
  <2>1. ASSUME NEW q \in Request
        PROVE  Len(held[q]) <= Len(held'[q]) /\ \A k \in 1..Len(held[q]) : held'[q][k] = held[q][k]
    <3>1. CASE q = r
      BY <1>4, <3>1
    <3>2. CASE q # r
      BY <1>2, <1>3, <3>2
    <3> QED
      BY <3>1, <3>2
  <2> QED
    BY <2>1 DEF Extended
<1>6. PiecesSame
  BY <1>5, PiecesExtended DEF PageInv
<1>7. cache \in [Page -> [Offset -> Text]]
  BY DEF IInv, DeviceTypes
<1>8. \A x \in Page \ {p} : cache'[x] = cache[x]
  BY <1>1, <1>7
<1>9. \A q \in Request : \A x \in Range(held[q]) : cache'[x] = cache[x] /\ x # p
  BY <1>1, <1>8, HeldPages
<1>10. KeptWill'
  <2>1. \A x \in DOMAIN digestOf' : /\ x \in DOMAIN digestOf /\ digestOf'[x] = digestOf[x]
                                    /\ \A o \in Offset : cache'[x][o] = cache[x][o]
    BY <1>1, <1>8, KeptPages
  <2> QED
    BY <1>6, <2>1, KeptStay DEF PageInv
<1>11. Fillings'
  BY <1>5, <1>6, <1>9, FillingsExtended DEF PageInv
<1>12. \A q \in Request : Range(held'[q]) \subseteq Range(held[q]) \cup {p}
  BY <1>3, <1>4
<1>13. \A q \in Request \ {r} : p \notin Range(held'[q])
  BY <1>1, <1>3
<1>14. Private'
  <2> SUFFICES ASSUME NEW t \in Request, NEW k \in 1..Len(held'[t]),
                      \/ held'[t][k] \in DOMAIN digestOf'
                      \/ \E q \in Request \ {t} : held'[t][k] \in Range(held'[q])
               PROVE  k * PageSize <= done[t]
    BY DEF Private
  <2>1. held'[t][k] # p
    <3>1. CASE held'[t][k] \in DOMAIN digestOf'
      BY <3>1, <1>1
    <3>2. CASE \E q \in Request \ {t} : held'[t][k] \in Range(held'[q])
      <4>1. PICK q \in Request \ {t} : held'[t][k] \in Range(held'[q])
        BY <3>2
      <4>2. held'[t][k] \in Range(held'[t])
        BY <1>2, RangeOfLine
      <4> QED
        BY <4>1, <4>2, <1>13
    <3> QED
      BY <3>1, <3>2
  <2>2. k \in 1..Len(held[t]) /\ held'[t][k] = held[t][k]
    <3>1. CASE t = r
      BY <3>1, <2>1, <1>4
    <3>2. CASE t # r
      BY <3>2, <1>3
    <3> QED
      BY <3>1, <3>2
  <2>3. held[t][k] \in DOMAIN digestOf \/ \E q \in Request \ {t} : held[t][k] \in Range(held[q])
    BY <2>1, <2>2, <1>1, <1>12
  <2> QED
    BY <2>2, <2>3 DEF PageInv, Private
<1>15. SharedKept'
  <2> SUFFICES ASSUME NEW t \in Request, NEW q \in Request, t # q,
                      NEW x \in Range(held'[t]) \cap Range(held'[q])
               PROVE  x \in DOMAIN digestOf'
    BY DEF SharedKept
  <2>1. x # p
    BY <1>13
  <2>2. x \in Range(held[t]) \cap Range(held[q])
    BY <2>1, <1>12
  <2>3. x \in DOMAIN digestOf
    BY <2>2 DEF PageInv, SharedKept
  <2> QED
    BY <2>1, <2>3, <1>1
<1>16. InTurn'
  <2> SUFFICES ASSUME NEW i \in 1..Len(chunks), NEW n \in Nat, NEW q \in Request \ {chunks[i].req},
                      chunks[i].start <= n, n < chunks[i].stop,
                      PageAt(chunks[i].req, n)' \in Range(held'[q])
               PROVE  \/ \E j \in 1..Len(chunks) : i < j /\ chunks[j].req = q
                      \/ pc = "sharing" /\ q = Head(waiting)
    BY DEF InTurn
  <2>1. PageAt(chunks[i].req, n)' = PageAt(chunks[i].req, n)
    BY <1>6 DEF PiecesSame
  <2>2. chunks[i].req \in Request /\ PageAt(chunks[i].req, n) \in Range(held[chunks[i].req])
    BY PieceCells DEF PageInv
  <2>3. PageAt(chunks[i].req, n) \in Range(held[q])
    BY <2>1, <2>2, <1>9, <1>12
  <2> QED
    BY <2>3 DEF PageInv, InTurn
<1> QED
  BY <1>3, <1>4, <1>5, <1>6, <1>9, <1>10, <1>11, <1>14, <1>15, <1>16

\* A page for a row to grow into.
LEMMA GrowTakeTexts ==
  ASSUME IInv, IInv', ReadInv, PiecesApart, TextInv, GrowTake
  PROVE  TextInv'
<1>1. PICK r : r = rows[Min(Needy)] /\ TakeFor(r)
  BY DEF GrowTake
<1>2. /\ UNCHANGED <<tokens, rows, filling, done, placed, chunks, waiting, pc>>
      /\ UNCHANGED <<devPos, devTok, devKey, queued, reading>>
      /\ pc = "grow"
  BY DEF GrowTake, At, requestVars, passVars, localVars
<1>3. r \in Request
  <2>1. Needy # {} /\ Needy \subseteq Slot /\ Slot \subseteq Nat
    BY DEF GrowTake, Needy, Decoding, Slot
  <2>2. Min(Needy) \in Needy
    BY <2>1, MinIsLeast
  <2>3. Min(Needy) \in Slot /\ rows[Min(Needy)] # None
    BY <2>2 DEF Needy, Decoding
  <2> QED
    BY <1>1, <2>3, RowRuns
<1>4. /\ Extended /\ PiecesSame
      /\ \A q \in Request : \A x \in Range(held[q]) : cache'[x] = cache[x]
      /\ KeptWill' /\ Fillings' /\ Private' /\ SharedKept' /\ InTurn'
  BY <1>1, <1>2, <1>3, TakeForTexts DEF TextInv
<1>5. Pieces'
  BY <1>2 DEF TextInv, PageInv, Pieces, HasPiece
<1>6. FoundHolds'
  BY <1>2 DEF FoundHolds
<1>7. Onward /\ Due' = Due
  BY NoDraw DEF Onward, Quiet, DrawsStill
<1>8. Texts'
  BY <1>2, <1>4, <1>7, TextsExtended DEF TextInv
<1> QED
  BY <1>4, <1>5, <1>6, <1>8 DEF TextInv, PageInv

\* The request being placed waits, and is in no row.
LEMMA PlacedFromLine ==
  ASSUME IInv, waiting # <<>>
  PROVE  /\ Head(waiting) \in Request /\ Head(waiting) \notin Range(seniority)
         /\ Head(waiting) \notin Range(filling) \cup Range(placed)
         /\ \A s \in Slot : rows[s] # Head(waiting)
<1>1. Head(waiting) \in Range(waiting) /\ Head(waiting) \in Request
  <2>1. waiting \in Seq(Request)
    BY DEF IInv, RowTypes
  <2> QED
    BY <2>1, TailOnce
<1>2. Head(waiting) \notin Range(seniority)
  BY <1>1 DEF IInv, Admission
<1>3. Head(waiting) \notin Rowed /\ Head(waiting) \notin Range(placed)
  BY <1>2 DEF IInv, Admission
<1>4. Head(waiting) \notin Range(filling)
  BY <1>3 DEF IInv, Admission
<1>5. Head(waiting) # None
  BY <1>1, EngineAssumption
<1> QED
  BY <1>1, <1>2, <1>3, <1>4, <1>5 DEF Rowed

\* A page of its own for the request being placed.
LEMMA TakeOwnTexts ==
  ASSUME IInv, IInv', ReadInv, PiecesApart, TextInv, TakeOwn
  PROVE  TextInv'
<1>1. PICK r : r = Head(waiting) /\ r = Head(waiting') /\ TakeFor(r)
  BY DEF TakeOwn
<1>2. /\ UNCHANGED <<tokens, rows, filling, done, placed, chunks, waiting, pc>>
      /\ UNCHANGED <<devPos, devTok, devKey, queued, reading>>
      /\ pc = "sharing" /\ found = <<>> /\ found' = <<>>
  BY DEF TakeOwn, At, requestVars, passVars, localVars
<1>3. r \in Request /\ done[r] \in Nat
  <2>1. waiting # <<>>
    BY <1>2 DEF IInv, Placement
  <2>2. done \in [Request -> Nat]
    BY DEF IInv, RowTypes
  <2> QED
    BY <1>1, <2>1, <2>2, PlacedFromLine
<1>4. /\ Extended /\ PiecesSame
      /\ \A q \in Request : \A x \in Range(held[q]) : cache'[x] = cache[x]
      /\ KeptWill' /\ Fillings' /\ Private' /\ SharedKept' /\ InTurn'
      /\ Len(held'[r]) = Len(held[r]) + 1
  BY <1>1, <1>2, <1>3, TakeForTexts DEF TextInv
<1>5. Pieces'
  BY <1>2 DEF TextInv, PageInv, Pieces, HasPiece
<1>6. FoundHolds'
  <2>1. /\ WillHold(r, Smaller(Len(held[r]) * PageSize, done[r]), PromptOf(r))
        /\ done[r] <= (Len(held[r]) + Len(found)) * PageSize
    BY <1>1, <1>2 DEF TextInv, PageInv, FoundHolds
  <2>2. Len(found) = 0
    BY <1>2
  <2>3. PICK k \in Nat : k = Len(held[r]) /\ Len(held'[r]) = k + 1
    BY <1>3, <1>4, HeldPages
  <2>4. PICK d \in Nat : d = done[r] /\ d = done'[r]
    BY <1>2, <1>3
  <2>5. /\ WillHold(r, Smaller(k * PageSize, d), PromptOf(r))
        /\ d <= (k + 0) * PageSize
    BY <2>1, <2>2, <2>3, <2>4
  <2>6. /\ d <= k * PageSize /\ d <= (k + 1) * PageSize
        /\ Smaller(k * PageSize, d) = d /\ Smaller((k + 1) * PageSize, d) = d
    <3>1. PageSize \in Nat \ {0}
      BY EngineAssumption
    <3>2. k + 0 = k
      OBVIOUS
    <3>3. k * PageSize \in Nat /\ (k + 1) * PageSize \in Nat /\ k * PageSize <= (k + 1) * PageSize
      BY <3>1, Multiples
    <3>4. d <= k * PageSize
      BY <2>5, <3>2
    <3> QED
      BY <3>3, <3>4 DEF Smaller
  <2>7. WillHold(r, d, PromptOf(r))
    BY <2>5, <2>6
  <2>8. ASSUME NEW i \in 0..(d - 1)
        PROVE  /\ PageAt(r, i)' = PageAt(r, i)
               /\ cache'[PageAt(r, i)][i % PageSize] = cache[PageAt(r, i)][i % PageSize]
    <3>1. i \in Nat /\ i < k * PageSize
      <4>1. k * PageSize \in Nat
        BY EngineAssumption
      <4> QED
        BY <4>1, <2>6
    <3>2. i \div PageSize + 1 \in 1..Len(held[r])
      BY <2>3, <3>1, PageIndex
    <3>3. PageAt(r, i) \in Range(held[r])
      BY <1>3, <3>2, HeldPages, RangeOfLine DEF PageAt
    <3>4. PageAt(r, i)' = PageAt(r, i)
      BY <1>3, <1>4, <3>2 DEF PageAt, Extended
    <3> QED
      BY <1>3, <1>4, <3>3, <3>4
  <2>9. PromptOf(r)' = PromptOf(r)
    BY <1>2 DEF PromptOf
  <2>10. WillHold(r, d, PromptOf(r))'
    BY <1>4, <2>7, <2>8, <2>9, StartStays
  <2>11. 1..Len(found') = {} /\ Len(found') = 0
    BY <1>2, NoPlaces
  <2>12. WillHold(r, Smaller(Len(held[r]) * PageSize, done[r]), PromptOf(r))'
    <3>1. Smaller(Len(held'[r]) * PageSize, done'[r]) = d
      BY <2>3, <2>4, <2>6
    <3> QED
      BY <2>10, <3>1 DEF WillHold
  <2>13. done'[r] <= (Len(held'[r]) + Len(found')) * PageSize
    <3>1. k + 1 + 0 = k + 1
      OBVIOUS
    <3> QED
      BY <2>3, <2>4, <2>6, <2>11, <3>1
  <2> QED
    BY <1>1, <2>11, <2>12, <2>13 DEF FoundHolds
<1>7. Onward /\ Due' = Due
  BY NoDraw DEF Onward, Quiet, DrawsStill
<1>8. Texts'
  BY <1>2, <1>4, <1>7, TextsExtended DEF TextInv
<1> QED
  BY <1>4, <1>5, <1>6, <1>8 DEF TextInv, PageInv

\* The start of a start of a text.
LEMMA StartOfStart ==
  ASSUME NEW text \in Seq(Token), NEW m \in 0..Len(text), NEW n \in 0..m
  PROVE  /\ Start(text, m) \in Seq(Token) /\ Len(Start(text, m)) = m
         /\ Start(Start(text, m), n) = Start(text, n)
<1>1. /\ Start(text, m) \in Seq(Token) /\ Len(Start(text, m)) = m
      /\ \A i \in 1..m : Start(text, m)[i] = text[i]
  <2>1. /\ SubSeq(text, 1, m) \in Seq(Token)
        /\ Len(SubSeq(text, 1, m)) = IF 1 <= m THEN m - 1 + 1 ELSE 0
        /\ \A i \in 1..Len(SubSeq(text, 1, m)) : SubSeq(text, 1, m)[i] = text[1 + i - 1]
    BY SubSeqOnce
  <2>2. Len(SubSeq(text, 1, m)) = m
    BY <2>1
  <2>3. \A i \in 1..m : 1 + i - 1 = i
    OBVIOUS
  <2> QED
    BY <2>1, <2>2, <2>3 DEF Start
<1>2. n \in 0..Len(text) /\ Len(text) \in Nat
  OBVIOUS
<1>3. /\ Start(text, n) \in Seq(Token) /\ Len(Start(text, n)) = n
      /\ \A i \in 1..n : Start(text, n)[i] = text[i]
  <2>1. /\ SubSeq(text, 1, n) \in Seq(Token)
        /\ Len(SubSeq(text, 1, n)) = IF 1 <= n THEN n - 1 + 1 ELSE 0
        /\ \A i \in 1..Len(SubSeq(text, 1, n)) : SubSeq(text, 1, n)[i] = text[1 + i - 1]
    BY <1>2, SubSeqOnce
  <2>2. Len(SubSeq(text, 1, n)) = n
    BY <2>1
  <2>3. \A i \in 1..n : 1 + i - 1 = i
    OBVIOUS
  <2> QED
    BY <2>1, <2>2, <2>3 DEF Start
<1>4. PICK head : head = Start(text, m)
  OBVIOUS
<1>5. /\ Start(head, n) \in Seq(Token) /\ Len(Start(head, n)) = n
      /\ \A i \in 1..n : Start(head, n)[i] = head[i]
  <2>1. head \in Seq(Token) /\ Len(head) = m /\ n \in 0..Len(head)
    BY <1>1, <1>4
  <2>2. /\ SubSeq(head, 1, n) \in Seq(Token)
        /\ Len(SubSeq(head, 1, n)) = IF 1 <= n THEN n - 1 + 1 ELSE 0
        /\ \A i \in 1..Len(SubSeq(head, 1, n)) : SubSeq(head, 1, n)[i] = head[1 + i - 1]
    BY <2>1, SubSeqOnce
  <2>3. Len(SubSeq(head, 1, n)) = n
    BY <2>2
  <2>4. \A i \in 1..n : 1 + i - 1 = i
    OBVIOUS
  <2> QED
    BY <2>2, <2>3, <2>4 DEF Start
<1>6. Start(head, n) = Start(text, n)
  <2>1. \A i \in 1..n : Start(head, n)[i] = Start(text, n)[i]
    BY <1>1, <1>3, <1>4, <1>5
  <2> QED
    BY <1>3, <1>5, <2>1
<1> QED
  BY <1>1, <1>4, <1>6

\* The pages found are kept by the digests of the request's own text.
LEMMA FoundByDigest ==
  ASSUME IInv, NEW r \in Request, NEW j \in 1..Len(CachedStart(r))
  PROVE  digestOf[CachedStart(r)[j]] = Start(PromptOf(r), j * PageSize)
<1>1. ShareOn
  <2>1. ~ShareOn => CachedStart(r) = <<>>
    BY DEF CachedStart
  <2> QED
    BY <2>1, NoPlaces
<1>2. PICK text : text = PromptOf(r) /\ text \in Seq(Token) /\ Len(text) \in Nat \ {0}
  BY TextOfRequest DEF IInv
<1>3. PICK n : n = (Len(text) - 1) \div PageSize
  OBVIOUS
<1>4. n \in 0..(Len(text) \div PageSize)
  <2>1. PageSize \in Nat \ {0} /\ Len(text) - 1 \in Nat /\ Len(text) \in Nat /\ Len(text) - 1 <= Len(text)
    BY <1>2, EngineAssumption
  <2>2. (Len(text) - 1) \div PageSize \in Nat /\ Len(text) \div PageSize \in Nat
    BY <2>1, Division
  <2>3. (Len(text) - 1) \div PageSize <= Len(text) \div PageSize
    BY <2>1, DivisionGrows
  <2> QED
    BY <1>3, <2>2, <2>3
<1>5. PICK ds : ds = FirstDigests(text, n)
  OBVIOUS
<1>6. /\ ds \in Seq(Seq(Token)) /\ \A a, b \in 1..Len(ds) : ds[a] = ds[b] => a = b
      /\ Len(ds) = IF 1 <= n THEN n - 1 + 1 ELSE 0
  <2>1. ds = SubSeq(DigestsOf(text), 1, n)
    BY <1>5 DEF FirstDigests
  <2>2. /\ SubSeq(DigestsOf(text), 1, n) \in Seq(Seq(Token))
        /\ Len(SubSeq(DigestsOf(text), 1, n)) = IF 1 <= n THEN n - 1 + 1 ELSE 0
        /\ \A a, b \in 1..Len(SubSeq(DigestsOf(text), 1, n)) :
             SubSeq(DigestsOf(text), 1, n)[a] = SubSeq(DigestsOf(text), 1, n)[b] => a = b
    <3>1. 1 \in Nat \ {0} /\ text \in Seq(Token)
      BY <1>2
    <3> QED
      BY <3>1, <1>4, SomeDigests
  <2> QED
    BY <2>1, <2>2
<1>7. Len(ds) = n
  BY <1>4, <1>6
<1>8. CachedStart(r) = Cached(ds)
  BY <1>1, <1>2, <1>3, <1>5 DEF CachedStart
<1>9. /\ CachedLength(ds) \in 0..Len(ds) /\ Len(CachedStart(r)) = CachedLength(ds)
  BY <1>6, <1>8, CachedPages DEF IInv
<1>10. PICK m \in 0..Len(ds) : m = CachedLength(ds) /\ \A i \in 1..m : ds[i] \in DOMAIN pageOf
  <2> DEFINE P(k) == /\ \A i \in 1..k : ds[i] \in DOMAIN pageOf
                     /\ k < Len(ds) => ds[k + 1] \notin DOMAIN pageOf
             bad == {k \in 1..Len(ds) : ds[k] \notin DOMAIN pageOf}
  <2>1. Len(ds) \in Nat
    BY <1>6
  <2>2. \E k \in 0..Len(ds) : P(k)
    <3>1. CASE bad = {}
      <4>1. P(Len(ds)) /\ Len(ds) \in 0..Len(ds)
        BY <3>1, <2>1
      <4> QED
        BY <4>1
    <3>2. CASE bad # {}
      <4>1. bad \in SUBSET Nat
        BY <2>1
      <4>2. PICK b \in bad : \A c \in bad : b <= c
        BY <3>2, <4>1, LeastElement
      <4>3. P(b - 1) /\ b - 1 \in 0..Len(ds)
        BY <2>1, <4>2
      <4> QED
        BY <4>3
    <3> QED
      BY <3>1, <3>2
  <2>3. CachedLength(ds) = CHOOSE k \in 0..Len(ds) : P(k)
    BY DEF CachedLength
  <2>4. P(CachedLength(ds))
    <3> HIDE DEF P
    <3> QED
      BY <2>2, <2>3
  <2> QED
    BY <2>4, <1>9
<1>11. j \in 1..m /\ j \in 1..n /\ Len(CachedStart(r)) = m
  BY <1>7, <1>9, <1>10
<1>12. CachedStart(r)[j] = pageOf[ds[j]]
  <2>1. Cached(ds) = [i \in 1..m |-> pageOf[ds[i]]]
    BY <1>10 DEF Cached
  <2> QED
    BY <2>1, <1>8, <1>11
<1>13. ds[j] \in DOMAIN pageOf
  BY <1>10, <1>11
<1>14. digestOf[CachedStart(r)[j]] = ds[j]
  BY <1>12, <1>13 DEF IInv, PoolOK, PoolConsistent, IndexesAgree
<1>15. ds[j] = SubSeq(text, 1, j * PageSize)
  <2>1. DigestsOf(text) \in Seq(Seq(Token)) /\ Len(DigestsOf(text)) = Len(text) \div PageSize
    BY <1>2, DigestsOfText
  <2>2. SubSeq(DigestsOf(text), 1, n)[j] = DigestsOf(text)[1 + j - 1]
    BY <1>4, <1>5, <1>7, <1>11, <2>1, SubSeqOnce DEF FirstDigests
  <2>3. 1 + j - 1 = j /\ j \in 1..(Len(text) \div PageSize)
    <3>1. n \in Nat /\ j \in Nat /\ j >= 1 /\ j <= n
      BY <1>4, <1>11
    <3>2. n <= Len(text) \div PageSize /\ Len(text) \div PageSize \in Nat
      BY <1>4, <2>1
    <3> QED
      BY <3>1, <3>2
  <2>4. DigestsOf(text)[j] = SubSeq(text, 1, j * PageSize)
    BY <2>3 DEF DigestsOf
  <2> QED
    BY <1>5, <2>2, <2>3, <2>4 DEF FirstDigests
<1> QED
  BY <1>2, <1>14, <1>15 DEF Start

\* A request with the pages of its start found.
LEMMA PlaceStartTexts ==
  ASSUME IInv, IInv', ReadInv, PiecesApart, TextInv, PlaceStart
  PROVE  TextInv'
<1>1. PICK r : r = Head(waiting) /\ r = Head(waiting')
  BY DEF PlaceStart
<1>2. /\ UNCHANGED <<cache, digestOf, tokens, rows, filling, held, placed, chunks, waiting>>
      /\ UNCHANGED <<devPos, devTok, devKey, queued, reading>>
      /\ pc = "place" /\ pc' = "sharing" /\ waiting # <<>>
      /\ found' = CachedStart(r)
      /\ done' = [done EXCEPT ![r] = Len(CachedStart(r)) * PageSize]
  BY <1>1 DEF PlaceStart, At, Goto, MayPlace, requestVars, passVars, localVars, cellVars, poolVars
<1>3. /\ r \in Request /\ r \notin Range(seniority) /\ r \notin Range(filling) \cup Range(placed)
      /\ \A s \in Slot : rows[s] # r
  BY <1>1, <1>2, PlacedFromLine
<1>4. held[r] = <<>> /\ Len(held[r]) = 0
  BY <1>2, <1>3 DEF IInv, PagesHeld
<1>5. done \in [Request -> Nat]
  BY DEF IInv, RowTypes
<1>6. /\ done'[r] = Len(CachedStart(r)) * PageSize
      /\ \A q : q # r => done'[q] = done[q]
  BY <1>2, <1>3, <1>5
<1>7. PiecesSame
  BY <1>2 DEF PiecesSame, PageAt
<1>8. KeptWill'
  BY <1>2, <1>7, KeptStay DEF TextInv, PageInv
<1>9. Pieces'
  <2>1. \A i \in 1..Len(chunks) : chunks[i].req # r
    BY <1>2, <1>3 DEF PiecesApart, Passing
  <2>2. \A i \in 1..Len(chunks) : chunks'[i].stop <= done'[chunks'[i].req]
    BY <1>2, <1>6, <2>1 DEF TextInv, PageInv, Pieces
  <2>3. pc' \in Passing
    BY <1>2 DEF Passing
  <2> QED
    BY <1>2, <2>2, <2>3 DEF TextInv, PageInv, Pieces, HasPiece
<1>10. Fillings'
  <2>1. \A q : PromptOf(q)' = PromptOf(q)
    BY <1>2 DEF PromptOf
  <2>2. \A q, i : PageAt(q, i)' = PageAt(q, i)
    BY <1>2 DEF PageAt
  <2>3. \A q \in Range(filling) \cup Range(placed) : done'[q] = done[q]
    BY <1>3, <1>6
  <2> QED
    BY <1>2, <1>7, <2>1, <2>2, <2>3, FillingsStay DEF TextInv, PageInv
<1>11. FoundHolds'
  <2>1. /\ CachedStart(r) \in Seq(Usable) /\ Len(CachedStart(r)) * PageSize \in Nat
    BY <1>3, CachedStartPages DEF IInv
  <2>2. PICK n \in Nat : n = Len(CachedStart(r)) /\ n = Len(found')
    BY <2>1, <1>2
  <2>3. PageSize \in Nat \ {0}
    BY EngineAssumption
  <2>4. done'[r] = n * PageSize /\ n * PageSize \in Nat
    BY <1>6, <2>1, <2>2
  <2>5. Len(held'[r]) = 0
    BY <1>2, <1>4
  <2>6. WillHold(r, Smaller(Len(held[r]) * PageSize, done[r]), PromptOf(r))'
    <3>1. 0 * PageSize = 0 /\ 0 <= n * PageSize
      BY <2>3, <2>4
    <3>2. Smaller(Len(held'[r]) * PageSize, done'[r]) = 0
      BY <2>4, <2>5, <3>1 DEF Smaller
    <3>3. 0..(0 - 1) = {}
      OBVIOUS
    <3> QED
      BY <3>2, <3>3 DEF WillHold
  <2>7. done'[r] <= (Len(held'[r]) + Len(found')) * PageSize
    <3>1. 0 + n = n /\ n * PageSize <= n * PageSize
      BY <2>4
    <3> QED
      BY <2>2, <2>4, <2>5, <3>1
  <2>8. ASSUME NEW j \in 1..Len(found')
        PROVE  /\ (Len(held'[r]) + j) * PageSize <= done'[r]
               /\ digestOf'[found'[j]] = Start(PromptOf(r)', (Len(held'[r]) + j) * PageSize)
    <3>1. j \in Nat /\ j <= n /\ 0 + j = j
      BY <2>2
    <3>2. j * PageSize <= n * PageSize
      BY <2>3, <3>1, Multiples
    <3>3. digestOf[CachedStart(r)[j]] = Start(PromptOf(r), j * PageSize)
      BY <1>2, <1>3, <2>8, FoundByDigest
    <3>4. PromptOf(r)' = PromptOf(r)
      BY <1>2 DEF PromptOf
    <3>5. (Len(held'[r]) + j) * PageSize = j * PageSize
      BY <2>5, <3>1
    <3> QED
      BY <1>2, <2>4, <3>2, <3>3, <3>4, <3>5
  <2> QED
    BY <1>1, <2>6, <2>7, <2>8 DEF FoundHolds, Start
<1>12. Private' /\ SharedKept'
  <2>1. \A t \in Request : \A k \in 1..Len(held[t]) : t # r
    BY <1>4
  <2>2. Private'
    BY <1>2, <1>6, <2>1 DEF TextInv, PageInv, Private
  <2>3. SharedKept'
    BY <1>2 DEF TextInv, PageInv, SharedKept
  <2> QED
    BY <2>2, <2>3
<1>13. InTurn'
  <2>1. pc # "sharing"
    BY <1>2
  <2> QED
    BY <1>2, <2>1 DEF TextInv, PageInv, InTurn, PageAt
<1>14. Onward /\ Due' = Due
  BY NoDraw DEF Onward, Quiet, DrawsStill
<1>15. Texts'
  <2>1. Extended
    <3>1. held \in [Request -> Seq(Usable)]
      BY DEF IInv, RowTypes
    <3> QED
      BY <1>2, <3>1 DEF Extended
  <2>2. \A s \in Slot : done'[rows[s]] = done[rows[s]]
    BY <1>3, <1>6
  <2> QED
    BY <1>2, <1>14, <2>1, <2>2, TextsExtended DEF TextInv
<1> QED
  BY <1>8, <1>9, <1>10, <1>11, <1>12, <1>13, <1>15 DEF TextInv, PageInv

\* A page within a digest: its end is the text of the page.
LEMMA PageOfDigest ==
  ASSUME NEW text \in Seq(Token), NEW k \in Nat, (k + 1) * PageSize <= Len(text),
         NEW i \in Nat, k * PageSize <= i, i < (k + 1) * PageSize
  PROVE  LET d == Start(text, (k + 1) * PageSize)
         IN  /\ i \div PageSize = k /\ i % PageSize \in Offset
             /\ Start(d, Len(d) - PageSize + (i % PageSize) + 1) = Start(text, i + 1)
<1>1. PageSize \in Nat \ {0} /\ Len(text) \in Nat
  BY EngineAssumption
<1>2. i \div PageSize = k
  <2>1. (k + 1) * PageSize = k * PageSize + PageSize /\ k * PageSize \in Nat
    BY <1>1
  <2>2. /\ i \div PageSize + 1 \in Nat /\ (i \div PageSize + 1) * PageSize \in Nat
        /\ i < (i \div PageSize + 1) * PageSize
        /\ i = (i \div PageSize) * PageSize + (i % PageSize)
        /\ i % PageSize \in Offset
    BY PageEnd
  <2>3. i \div PageSize \in Nat
    BY <1>1
  <2>4. PICK q \in Nat : q = i \div PageSize
    BY <2>3
  <2>5. i < (q + 1) * PageSize /\ q * PageSize <= i
    <3>1. q * PageSize \in Nat /\ i % PageSize \in Nat
      BY <1>1, <2>2, <2>4
    <3> QED
      BY <2>2, <2>4, <3>1
  <2>6. ~(q < k)
    <3> SUFFICES ASSUME q < k PROVE FALSE
      OBVIOUS
    <3>1. q + 1 <= k
      BY <2>4
    <3>2. (q + 1) * PageSize <= k * PageSize /\ (q + 1) * PageSize \in Nat /\ k * PageSize \in Nat
      BY <1>1, <3>1, Multiples
    <3>3. \A a, b \in Nat : ~(a <= b /\ i < a /\ b <= i)
      OBVIOUS
    <3> QED
      BY <2>5, <3>2, <3>3, Zenon
  <2>7. ~(k < q)
    <3> SUFFICES ASSUME k < q PROVE FALSE
      OBVIOUS
    <3>1. k + 1 <= q
      BY <2>4
    <3>2. (k + 1) * PageSize <= q * PageSize /\ q * PageSize \in Nat /\ (k + 1) * PageSize \in Nat
      BY <1>1, <3>1, Multiples
    <3>3. \A a, b \in Nat : ~(a <= b /\ i < a /\ b <= i)
      OBVIOUS
    <3> QED
      BY <2>5, <3>2, <3>3, Zenon
  <2> QED
    BY <2>4, <2>6, <2>7
<1>3. PICK m : m = (k + 1) * PageSize
  OBVIOUS
<1>4. m \in 0..Len(text) /\ m = k * PageSize + PageSize /\ k * PageSize \in Nat
  BY <1>1, <1>3
<1>5. Start(text, m) \in Seq(Token) /\ Len(Start(text, m)) = m
  <2>1. m \in 0..m
    BY <1>4
  <2> QED
    BY <1>4, <2>1, StartOfStart
<1>6. i = k * PageSize + (i % PageSize) /\ i % PageSize \in Offset
  BY <1>2, PageEnd
<1>7. i % PageSize \in Nat
  BY <1>1, <1>6 DEF Offset
<1>8. m - PageSize + (i % PageSize) + 1 = i + 1 /\ i + 1 \in 0..m
  BY <1>1, <1>3, <1>4, <1>6, <1>7
<1>9. Start(Start(text, m), i + 1) = Start(text, i + 1)
  BY <1>4, <1>8, StartOfStart
<1> QED
  BY <1>2, <1>3, <1>5, <1>6, <1>8, <1>9

\* A page found joins the pages of the request being placed.
LEMMA ShareFoundTexts ==
  ASSUME IInv, IInv', ReadInv, PiecesApart, TextInv, ShareFound
  PROVE  TextInv'
<1>1. PICK r : r = Head(waiting) /\ r = Head(waiting')
  BY DEF ShareFound
<1>2. PICK p : p = Head(found)
  OBVIOUS
<1>3. /\ UNCHANGED <<cache, digestOf, tokens, rows, filling, done, placed, chunks, waiting, pc>>
      /\ UNCHANGED <<devPos, devTok, devKey, queued, reading>>
      /\ pc = "sharing" /\ found # <<>> /\ found' = Tail(found)
      /\ held' = [held EXCEPT ![r] = Append(@, p)]
  BY <1>1, <1>2 DEF ShareFound, Share, At, requestVars, passVars, localVars, cellVars
<1>4. /\ waiting # <<>> /\ Range(found) \subseteq DOMAIN digestOf
      /\ done[r] < Len(PromptOf(r))
  BY <1>1, <1>3 DEF IInv, Placement
<1>5. /\ r \in Request /\ r \notin Range(seniority) /\ r \notin Range(filling) \cup Range(placed)
      /\ \A s \in Slot : rows[s] # r
  BY <1>1, <1>4, PlacedFromLine
<1>6. /\ found \in Seq(Usable) /\ held \in [Request -> Seq(Usable)] /\ done \in [Request -> Nat]
      /\ held' \in [Request -> Seq(Usable)]
  BY DEF IInv, RowTypes
<1>7. p \in DOMAIN digestOf /\ p \in Usable /\ p = found[1] /\ 1 \in 1..Len(found)
  BY <1>2, <1>3, <1>4, <1>6, RangeOfLine
<1>8. PICK n \in Nat : n = Len(held[r])
  BY <1>5, <1>6
<1>9. PICK d \in Nat : d = done[r] /\ d = done'[r]
  BY <1>3, <1>5, <1>6
<1>10. /\ \A q \in Request \ {r} : held'[q] = held[q]
       /\ held'[r] = Append(held[r], p)
  BY <1>3, <1>5, <1>6
<1>11. /\ Len(held'[r]) = n + 1 /\ held'[r][n + 1] = p
       /\ \A k \in 1..n : held'[r][k] = held[r][k]
       /\ Range(held'[r]) = Range(held[r]) \cup {p}
  <2>1. held[r] \in Seq(Usable)
    BY <1>5, <1>6
  <2>2. Range(Append(held[r], p)) = Range(held[r]) \cup {p}
    BY <1>7, <2>1, AppendOnce
  <2>3. /\ Len(Append(held[r], p)) = Len(held[r]) + 1 /\ Append(held[r], p)[Len(held[r]) + 1] = p
        /\ \A k \in 1..Len(held[r]) : Append(held[r], p)[k] = held[r][k]
    BY <1>7, <2>1
  <2> QED
    BY <1>8, <1>10, <2>2, <2>3
<1>12. Extended
  <2>1. ASSUME NEW q \in Request
        PROVE  Len(held[q]) <= Len(held'[q]) /\ \A k \in 1..Len(held[q]) : held'[q][k] = held[q][k]
    <3>1. CASE q = r
      BY <1>8, <1>11, <3>1
    <3>2. CASE q # r
      BY <1>6, <1>10, <3>2
    <3> QED
      BY <3>1, <3>2
  <2> QED
    BY <2>1 DEF Extended
<1>13. PiecesSame
  BY <1>3, <1>12, PiecesExtended DEF TextInv, PageInv
<1>14. KeptWill'
  BY <1>3, <1>13, KeptStay DEF TextInv, PageInv
<1>15. Pieces'
  BY <1>3 DEF TextInv, PageInv, Pieces, HasPiece
<1>16. Fillings'
  BY <1>3, <1>12, <1>13, FillingsExtended DEF TextInv, PageInv
<1>17. /\ WillHold(r, Smaller(Len(held[r]) * PageSize, done[r]), PromptOf(r))
       /\ done[r] <= (Len(held[r]) + Len(found)) * PageSize
       /\ \A j \in 1..Len(found) :
            /\ (Len(held[r]) + j) * PageSize <= done[r]
            /\ digestOf[found[j]] = Start(PromptOf(r), (Len(held[r]) + j) * PageSize)
  BY <1>1, <1>3 DEF TextInv, PageInv, FoundHolds
<1>18. PageSize \in Nat \ {0} /\ n * PageSize \in Nat /\ (n + 1) * PageSize \in Nat
       /\ n * PageSize <= (n + 1) * PageSize
  BY EngineAssumption, Multiples
<1>19. (n + 1) * PageSize <= d /\ digestOf[p] = Start(PromptOf(r), (n + 1) * PageSize)
  BY <1>7, <1>8, <1>9, <1>17
<1>20. FoundHolds'
  <2>1. PICK text : text = PromptOf(r) /\ text = PromptOf(r)' /\ text \in Seq(Token)
    <3>1. PromptOf(r)' = PromptOf(r)
      BY <1>3 DEF PromptOf
    <3> QED
      BY <1>5, <3>1, TextOfRequest DEF IInv
  <2>2. Smaller(n * PageSize, d) = n * PageSize /\ Smaller((n + 1) * PageSize, d) = (n + 1) * PageSize
    BY <1>18, <1>19 DEF Smaller
  <2>3. (n + 1) * PageSize <= Len(text)
    <3>1. d < Len(text) /\ Len(text) \in Nat
      BY <1>4, <1>9, <2>1
    <3> QED
      BY <1>18, <1>19, <3>1
  <2>4. ASSUME NEW i \in 0..((n + 1) * PageSize - 1)
        PROVE  Will(PageAt(r, i), i % PageSize, Start(text, i + 1))'
    <3>1. CASE i < n * PageSize
      <4>1. i \in 0..(n * PageSize - 1) /\ i \in Nat
        BY <1>18, <3>1
      <4>2. Will(PageAt(r, i), i % PageSize, Start(text, i + 1))
        BY <1>8, <1>9, <1>17, <2>1, <2>2, <4>1 DEF WillHold
      <4>3. i \div PageSize + 1 \in 1..n
        BY <3>1, <4>1, PageIndex
      <4>4. PageAt(r, i)' = PageAt(r, i)
        BY <1>11, <4>3 DEF PageAt
      <4>5. PICK c : c = PageAt(r, i)
        OBVIOUS
      <4>6. Will(c, i % PageSize, Start(text, i + 1))'
        <5>1. PICK t : t = Start(text, i + 1)
          OBVIOUS
        <5>2. Will(c, i % PageSize, t)'
          BY <1>3, <1>13, <4>2, <4>5, <5>1, WillKept
        <5> QED
          BY <5>1, <5>2
      <4> QED
        BY <4>4, <4>5, <4>6
    <3>2. CASE ~(i < n * PageSize)
      <4>1. i \in Nat /\ n * PageSize <= i /\ i < (n + 1) * PageSize
        BY <1>18, <3>2
      <4>2. PICK e : e = Start(text, (n + 1) * PageSize)
        OBVIOUS
      <4>3. /\ i \div PageSize = n /\ i % PageSize \in Offset
            /\ Start(e, Len(e) - PageSize + (i % PageSize) + 1) = Start(text, i + 1)
        BY <2>1, <2>3, <4>1, <4>2, PageOfDigest
      <4>4. digestOf[p] = e
        BY <1>19, <2>1, <4>2
      <4>5. Will(p, i % PageSize, Start(text, i + 1))
        BY <1>7, <4>3, <4>4 DEF TextInv, PageInv, KeptWill
      <4>6. PageAt(r, i)' = p
        BY <1>11, <4>3 DEF PageAt
      <4>7. Will(p, i % PageSize, Start(text, i + 1))'
        <5>1. PICK t : t = Start(text, i + 1)
          OBVIOUS
        <5>2. Will(p, i % PageSize, t)'
          BY <1>3, <1>13, <4>5, <5>1, WillKept
        <5> QED
          BY <5>1, <5>2
      <4> QED
        BY <4>6, <4>7
    <3> QED
      BY <3>1, <3>2
  <2>5. WillHold(r, Smaller(Len(held[r]) * PageSize, done[r]), PromptOf(r))'
    <3>1. Smaller(Len(held'[r]) * PageSize, done'[r]) = (n + 1) * PageSize
      BY <1>9, <1>11, <2>2
    <3> QED
      BY <2>1, <2>4, <3>1 DEF WillHold
  <2>6. Len(found) \in Nat \ {0} /\ Len(Tail(found)) = Len(found) - 1
        /\ \A j \in 1..Len(Tail(found)) : j + 1 \in 1..Len(found) /\ Tail(found)[j] = found[j + 1]
    BY <1>3, <1>6
  <2>7. done'[r] <= (Len(held'[r]) + Len(found')) * PageSize
    <3>1. PICK m \in Nat : Len(found) = m + 1 /\ Len(found') = m
      <4>1. Len(found) - 1 \in Nat /\ Len(found) = Len(found) - 1 + 1 /\ Len(found') = Len(found) - 1
        BY <1>3, <2>6
      <4> QED
        BY <4>1
    <3>2. n + (m + 1) = n + 1 + m
      OBVIOUS
    <3> QED
      BY <1>8, <1>9, <1>11, <1>17, <3>1, <3>2
  <2>8. ASSUME NEW j \in 1..Len(found')
        PROVE  /\ (Len(held'[r]) + j) * PageSize <= done'[r]
               /\ digestOf'[found'[j]] = Start(PromptOf(r)', (Len(held'[r]) + j) * PageSize)
    <3>1. j + 1 \in 1..Len(found) /\ found'[j] = found[j + 1] /\ n + (j + 1) = n + 1 + j
      BY <1>3, <2>6
    <3>2. /\ (n + (j + 1)) * PageSize <= done[r]
          /\ digestOf[found[j + 1]] = Start(text, (n + (j + 1)) * PageSize)
      BY <1>8, <1>17, <2>1, <3>1
    <3> QED
      BY <1>3, <1>9, <1>11, <2>1, <3>1, <3>2
  <2> QED
    BY <1>1, <2>5, <2>7, <2>8 DEF FoundHolds, Start
<1>21. \A q \in Request : Range(held'[q]) \subseteq Range(held[q]) \cup (IF q = r THEN {p} ELSE {})
  BY <1>10, <1>11
<1>22. Private'
  <2> SUFFICES ASSUME NEW t \in Request, NEW k \in 1..Len(held'[t]),
                      \/ held'[t][k] \in DOMAIN digestOf
                      \/ \E q \in Request \ {t} : held'[t][k] \in Range(held'[q])
               PROVE  k * PageSize <= done[t]
    BY <1>3 DEF Private
  <2>1. CASE t = r /\ k = n + 1
    BY <1>9, <1>19, <2>1
  <2>2. CASE ~(t = r /\ k = n + 1)
    <3>1. k \in 1..Len(held[t]) /\ held'[t][k] = held[t][k]
      <4>1. CASE t = r
        BY <1>8, <1>11, <2>2, <4>1
      <4>2. CASE t # r
        BY <1>10, <4>2
      <4> QED
        BY <4>1, <4>2
    <3>2. held[t][k] \in DOMAIN digestOf \/ \E q \in Request \ {t} : held[t][k] \in Range(held[q])
      BY <1>7, <1>21, <3>1
    <3> QED
      BY <3>1, <3>2 DEF TextInv, PageInv, Private
  <2> QED
    BY <2>1, <2>2
<1>23. SharedKept'
  <2> SUFFICES ASSUME NEW t \in Request, NEW q \in Request, t # q,
                      NEW x \in Range(held'[t]) \cap Range(held'[q])
               PROVE  x \in DOMAIN digestOf
    BY <1>3 DEF SharedKept
  <2>1. CASE x = p
    BY <1>7, <2>1
  <2>2. CASE x # p
    <3>1. x \in Range(held[t]) \cap Range(held[q])
      BY <1>21, <2>2
    <3> QED
      BY <3>1 DEF TextInv, PageInv, SharedKept
  <2> QED
    BY <2>1, <2>2
<1>24. InTurn'
  <2> SUFFICES ASSUME NEW i \in 1..Len(chunks), NEW m \in Nat, NEW q \in Request \ {chunks[i].req},
                      chunks[i].start <= m, m < chunks[i].stop,
                      PageAt(chunks[i].req, m)' \in Range(held'[q])
               PROVE  \/ \E j \in 1..Len(chunks) : i < j /\ chunks[j].req = q
                      \/ pc = "sharing" /\ q = Head(waiting)
    BY <1>3 DEF InTurn
  <2>1. PageAt(chunks[i].req, m)' = PageAt(chunks[i].req, m)
    BY <1>13 DEF PiecesSame
  <2>2. CASE q = r
    BY <1>1, <1>3, <2>2
  <2>3. CASE q # r
    <3>1. PageAt(chunks[i].req, m) \in Range(held[q])
      BY <2>1, <2>3, <1>21
    <3> QED
      BY <3>1 DEF TextInv, PageInv, InTurn
  <2> QED
    BY <2>2, <2>3
<1>25. Onward /\ Due' = Due
  BY NoDraw DEF Onward, Quiet, DrawsStill
<1>26. Texts'
  BY <1>3, <1>12, <1>25, TextsExtended DEF TextInv
<1> QED
  BY <1>14, <1>15, <1>16, <1>20, <1>22, <1>23, <1>24, <1>26 DEF TextInv, PageInv

\* Pages kept stay kept, and a page kept anew is by its digest.
LEMMA KeepAdds ==
  ASSUME NEW ps, NEW ds, Keep(ps, ds)
  PROVE  /\ \A p \in DOMAIN digestOf : p \in DOMAIN digestOf' /\ digestOf'[p] = digestOf[p]
         /\ \A p \in DOMAIN digestOf' \ DOMAIN digestOf :
              \E i \in DOMAIN ps : p = ps[i] /\ digestOf'[p] = ds[i]
<1>1. PICK new : new = NewlyKept(ps, ds)
  OBVIOUS
<1>2. digestOf' = [p \in DOMAIN digestOf \cup {ps[i] : i \in new} |->
                     IF p \in DOMAIN digestOf THEN digestOf[p]
                     ELSE ds[CHOOSE i \in new : ps[i] = p]]
  BY <1>1 DEF Keep
<1>3. new \subseteq DOMAIN ps
  BY <1>1 DEF NewlyKept
<1>4. ASSUME NEW p \in DOMAIN digestOf' \ DOMAIN digestOf
      PROVE  \E i \in DOMAIN ps : p = ps[i] /\ digestOf'[p] = ds[i]
  <2>1. \E i \in new : ps[i] = p
    BY <1>2
  <2>2. PICK j : j = CHOOSE i \in new : ps[i] = p
    OBVIOUS
  <2>3. j \in new /\ ps[j] = p
    BY <2>1, <2>2
  <2>4. digestOf'[p] = ds[j]
    BY <1>2, <2>2
  <2> QED
    BY <1>3, <2>3, <2>4
<1> QED
  BY <1>2, <1>4

\* Pages kept of a request are kept by the digests of its text.
LEMMA PagesKept ==
  ASSUME IInv, NEW r \in Request, NEW text \in Seq(Token), NEW m \in Nat \ {0}, NEW n \in Nat,
         n <= Len(held[r]), n <= Len(text) \div PageSize,
         Keep(SubSeq(held[r], m, n), SubSeq(DigestsOf(text), m, n))
  PROVE  /\ \A p \in DOMAIN digestOf : p \in DOMAIN digestOf' /\ digestOf'[p] = digestOf[p]
         /\ \A p \in DOMAIN digestOf' \ DOMAIN digestOf :
              \E k \in m..n : p = held[r][k] /\ digestOf'[p] = Start(text, k * PageSize)
<1>1. PICK ps, ds : ps = SubSeq(held[r], m, n) /\ ds = SubSeq(DigestsOf(text), m, n)
  OBVIOUS
<1>2. /\ \A p \in DOMAIN digestOf : p \in DOMAIN digestOf' /\ digestOf'[p] = digestOf[p]
      /\ \A p \in DOMAIN digestOf' \ DOMAIN digestOf :
           \E i \in DOMAIN ps : p = ps[i] /\ digestOf'[p] = ds[i]
  <2>1. Keep(ps, ds)
    BY <1>1
  <2> QED
    BY <2>1, KeepAdds
<1>3. /\ held[r] \in Seq(Usable) /\ Len(held[r]) \in Nat /\ n \in 0..Len(held[r])
  BY HeldPages
<1>4. /\ DigestsOf(text) \in Seq(Seq(Token)) /\ Len(DigestsOf(text)) = Len(text) \div PageSize
      /\ n \in 0..Len(DigestsOf(text))
  <2>1. Len(text) \div PageSize \in Nat
    BY EngineAssumption, Division
  <2> QED
    BY <2>1, DigestsOfText
<1>5. /\ ps \in Seq(Usable) /\ Len(ps) = IF m <= n THEN n - m + 1 ELSE 0
      /\ \A i \in 1..Len(ps) : ps[i] = held[r][m + i - 1]
  BY <1>1, <1>3, SubSeqOnce
<1>6. /\ Len(ds) = IF m <= n THEN n - m + 1 ELSE 0
      /\ \A i \in 1..Len(ds) : ds[i] = DigestsOf(text)[m + i - 1]
  BY <1>1, <1>4, SubSeqOnce
<1>7. DOMAIN ps = 1..Len(ps)
  BY <1>5
<1>8. ASSUME NEW i \in 1..Len(ps)
      PROVE  /\ m + i - 1 \in m..n /\ ps[i] = held[r][m + i - 1]
             /\ ds[i] = Start(text, (m + i - 1) * PageSize)
  <2>1. m + i - 1 \in m..n
    BY <1>5
  <2>2. m + i - 1 \in 1..(Len(text) \div PageSize)
    <3>1. Len(text) \div PageSize \in Nat
      BY <1>4
    <3> QED
      BY <2>1, <3>1
  <2>3. ds[i] = DigestsOf(text)[m + i - 1]
    BY <1>5, <1>6
  <2>4. DigestsOf(text)[m + i - 1] = SubSeq(text, 1, (m + i - 1) * PageSize)
    BY <2>2 DEF DigestsOf
  <2> QED
    BY <1>5, <2>1, <2>3, <2>4 DEF Start
<1>9. ASSUME NEW p \in DOMAIN digestOf' \ DOMAIN digestOf
      PROVE  \E k \in m..n : p = held[r][k] /\ digestOf'[p] = Start(text, k * PageSize)
  <2>1. PICK i \in 1..Len(ps) : p = ps[i] /\ digestOf'[p] = ds[i]
    BY <1>2, <1>7
  <2> QED
    BY <2>1, <1>8
<1> QED
  BY <1>2, <1>9

\* A place in a page is a position of the text of the page.
LEMMA CellOfPage ==
  ASSUME NEW text \in Seq(Token), NEW k \in Nat \ {0}, k * PageSize <= Len(text), NEW o \in Offset
  PROVE  \E i \in Nat :
           /\ i < k * PageSize /\ i \div PageSize + 1 = k /\ i % PageSize = o
           /\ LET d == Start(text, k * PageSize)
              IN  Start(d, Len(d) - PageSize + o + 1) = Start(text, i + 1)
<1>1. PageSize \in Nat \ {0}
  BY EngineAssumption
<1>2. PICK h \in Nat : k = h + 1
  <2>1. k - 1 \in Nat /\ k = k - 1 + 1
    OBVIOUS
  <2> QED
    BY <2>1
<1>3. o \in Nat /\ o < PageSize
  BY <1>1 DEF Offset
<1>4. h * PageSize \in Nat /\ (h + 1) * PageSize = h * PageSize + PageSize
  BY <1>1
<1>5. PICK i \in Nat : i = h * PageSize + o
  BY <1>3, <1>4
<1>6. h * PageSize <= i /\ i < (h + 1) * PageSize
  BY <1>1, <1>3, <1>4, <1>5
<1>7. PICK d : d = Start(text, (h + 1) * PageSize)
  OBVIOUS
<1>8. /\ i \div PageSize = h
      /\ Start(d, Len(d) - PageSize + (i % PageSize) + 1) = Start(text, i + 1)
  BY <1>2, <1>6, <1>7, PageOfDigest
<1>9. i % PageSize = o
  <2>1. i = h * PageSize + (i % PageSize) /\ i % PageSize \in Nat
    <3>1. i = (i \div PageSize) * PageSize + (i % PageSize) /\ i % PageSize \in Offset
      BY PageEnd
    <3>2. Offset \subseteq Nat
      BY <1>1 DEF Offset
    <3> QED
      BY <1>8, <3>1, <3>2
  <2> QED
    BY <1>3, <1>4, <1>5, <2>1
<1>10. i \div PageSize + 1 = k /\ i < k * PageSize
  BY <1>2, <1>6, <1>8
<1>11. LET e == Start(text, k * PageSize)
       IN  Start(e, Len(e) - PageSize + o + 1) = Start(text, i + 1)
  BY <1>2, <1>7, <1>8, <1>9
<1> QED
  BY <1>9, <1>10, <1>11

\* A piece joins the others.
LEMMA OneMorePiece ==
  ASSUME chunks \in Seq(Piece), NEW piece, chunks' = Append(chunks, piece)
  PROVE  /\ Len(chunks) \in Nat /\ Len(chunks') = Len(chunks) + 1
         /\ chunks'[Len(chunks) + 1] = piece
         /\ \A i \in 1..Len(chunks) : chunks'[i] = chunks[i]
         /\ \A i \in 1..Len(chunks') : i \in 1..Len(chunks) \/ i = Len(chunks) + 1
OBVIOUS

\* A cell a new piece writes no other text to will hold what it would.
LEMMA WillOneMore ==
  ASSUME chunks \in Seq(Piece), NEW piece, chunks' = Append(chunks, piece),
         UNCHANGED <<cache, held, tokens>>, NEW p, NEW o, NEW text, Will(p, o, text),
         \A n \in Nat : Writes(piece, n, p, o) => Start(PromptOf(piece.req), n + 1) = text
  PROVE  Will(p, o, text)'
<1>1. PICK k : k = Len(chunks)
  OBVIOUS
<1>2. /\ k \in Nat /\ Len(chunks') = k + 1 /\ chunks'[k + 1] = piece
      /\ \A i \in 1..k : chunks'[i] = chunks[i]
      /\ \A i \in 1..(k + 1) : i \in 1..k \/ i = k + 1
  BY <1>1, OneMorePiece
<1>3. \A i \in 1..k : \A n \in Nat : Writes(chunks[i], n, p, o)' <=> Writes(chunks[i], n, p, o)
  BY <1>2 DEF Writes, PageAt
<1>4. \A n \in Nat : Writes(chunks[k + 1], n, p, o)' <=> Writes(piece, n, p, o)
  BY <1>2 DEF Writes, PageAt
<1>5. ASSUME NEW i \in 1..Len(chunks'), NEW n \in Nat, Writes(chunks[i], n, p, o)'
      PROVE  Start(PromptOf(chunks[i].req), n + 1)' = text
  <2>1. CASE i \in 1..k
    <3>1. Writes(chunks[i], n, p, o)
      BY <1>3, <1>5, <2>1
    <3>2. Start(PromptOf(chunks[i].req), n + 1) = text
      BY <1>1, <2>1, <3>1 DEF Will
    <3>3. chunks'[i] = chunks[i] /\ tokens' = tokens
      BY <1>2, <2>1
    <3> QED
      BY <3>2, <3>3 DEF PromptOf, Start
  <2>2. CASE i = k + 1
    <3>1. Writes(piece, n, p, o)
      BY <1>4, <1>5, <2>2
    <3>2. Start(PromptOf(piece.req), n + 1) = text
      BY <3>1
    <3>3. chunks'[i] = piece /\ tokens' = tokens
      BY <1>2, <2>2
    <3> QED
      BY <3>2, <3>3 DEF PromptOf, Start
  <2> QED
    BY <1>2, <2>1, <2>2
<1>6. Unwritten(p, o)' => Unwritten(p, o)
  <2>1. \A i \in 1..k : i \in 1..Len(chunks')
    BY <1>2
  <2> QED
    BY <1>1, <1>3, <2>1 DEF Unwritten
<1>7. Unwritten(p, o)' => cache'[p][o] = text
  BY <1>6 DEF Will
<1> QED
  BY <1>5, <1>7 DEF Will

\* Past what has passed, a page of a request is of nobody else and not kept.
LEMMA PastDone ==
  ASSUME IInv, Private, NEW r \in Request, NEW n \in Nat, done[r] <= n,
         n \div PageSize + 1 \in 1..Len(held[r])
  PROVE  /\ PageAt(r, n) \in Range(held[r]) /\ PageAt(r, n) \notin DOMAIN digestOf
         /\ \A q \in Request \ {r} : PageAt(r, n) \notin Range(held[q])
<1>1. PICK k \in 1..Len(held[r]) : k = n \div PageSize + 1
  OBVIOUS
<1>2. ~(k * PageSize <= done[r])
  <2>1. n < k * PageSize /\ k * PageSize \in Nat
    BY <1>1, PageEnd
  <2>2. done[r] \in Nat
    BY DEF IInv, RowTypes
  <2> QED
    BY <2>1, <2>2
<1>3. PageAt(r, n) = held[r][k]
  BY <1>1 DEF PageAt
<1>4. held[r][k] \in Range(held[r])
  BY HeldPages, RangeOfLine
<1> QED
  BY <1>2, <1>3, <1>4 DEF Private

\* Positions of a request in the same place of the same page are the same.
LEMMA SameCell ==
  ASSUME IInv, NEW r \in Request, NEW m \in Nat, NEW n \in Nat,
         m \div PageSize + 1 \in 1..Len(held[r]), n \div PageSize + 1 \in 1..Len(held[r]),
         PageAt(r, m) = PageAt(r, n), m % PageSize = n % PageSize
  PROVE  m = n
<1>1. held[r] \in Seq(Usable) /\ Once(held[r])
  BY HeldPages DEF IInv, PagesHeld
<1>2. m \div PageSize + 1 = n \div PageSize + 1
  BY <1>1, OnceOfLine DEF PageAt
<1>3. m \div PageSize \in Nat /\ n \div PageSize \in Nat
  BY EngineAssumption, Division
<1>4. m \div PageSize = n \div PageSize
  BY <1>2, <1>3
<1> QED
  BY <1>4, CellsApart

\* The next tokens of a prompt: the piece, and the pages kept for them.
LEMMA ChunkTaken ==
  ASSUME IInv, NEW r \in Request, MayPass, done[r] < Len(PromptOf(r)),
         Len(held[r]) >= PagesFor(Len(PromptOf(r))), TakeChunk(r)
  PROVE  \E end \in Nat, piece \in Piece :
           /\ done[r] < end /\ end <= Len(PromptOf(r)) /\ end <= Len(held[r]) * PageSize
           /\ piece.req = r /\ piece.start = done[r] /\ piece.stop = end
           /\ chunks' = Append(chunks, piece) /\ done'[r] = end
           /\ \A q \in Request \ {r} : done'[q] = done[q]
           /\ \A p \in DOMAIN digestOf : p \in DOMAIN digestOf' /\ digestOf'[p] = digestOf[p]
           /\ \A p \in DOMAIN digestOf' \ DOMAIN digestOf : \E k \in 1..Len(held[r]) :
                /\ p = held[r][k] /\ digestOf'[p] = Start(PromptOf(r), k * PageSize)
                /\ k * PageSize <= end
<1>1. /\ \A q \in Request \ {r} : done'[q] = done[q]
      /\ \E piece \in Piece :
           /\ chunks' = Append(chunks, piece)
           /\ piece.req = r /\ piece.start < piece.stop /\ piece.stop <= Len(PromptOf(r))
           /\ piece.stop = done'[r]
  BY TakePiece DEF IInv
<1>2. PICK end : end = ChunkEnd(r)
  OBVIOUS
<1>3. PICK text \in Seq(Token) : text = PromptOf(r) /\ text \in Seq(Token) /\ Len(text) \in Nat
  BY TextOfRequest DEF IInv
<1>4. PICK piece : piece = [req |-> r, start |-> done[r], stop |-> end]
  OBVIOUS
<1>5. /\ chunks' = Append(chunks, piece) /\ done' = [done EXCEPT ![r] = end]
      /\ IF ShareOn
         THEN Keep(SubSeq(held[r], done[r] \div PageSize + 1, end \div PageSize),
                   SubSeq(DigestsOf(text), done[r] \div PageSize + 1, end \div PageSize))
         ELSE UNCHANGED poolVars
  BY <1>2, <1>3, <1>4 DEF TakeChunk
<1>6. done \in [Request -> Nat] /\ done'[r] = end
  BY <1>5 DEF IInv, RowTypes
<1>7. done[r] < end /\ end <= Len(text) /\ end \in Nat
  <2>1. PICK other \in Piece :
           /\ chunks' = Append(chunks, other)
           /\ other.req = r /\ other.start < other.stop /\ other.stop <= Len(PromptOf(r))
           /\ other.stop = done'[r]
    BY <1>1
  <2>2. chunks \in Seq(Piece)
    BY DEF IInv, PassTypes
  <2>3. other = piece
    <3>1. chunks'[Len(chunks) + 1] = piece /\ chunks'[Len(chunks) + 1] = other
      BY <1>5, <2>1, <2>2, OneMorePiece
    <3> QED
      BY <3>1
  <2>4. other.start = done[r] /\ other.stop = end
    BY <1>4, <2>3
  <2>5. other.stop \in Nat
    BY DEF Piece
  <2> QED
    BY <1>3, <2>1, <2>4, <2>5
<1>8. PageSize \in Nat \ {0} /\ Len(held[r]) \in Nat /\ done[r] \in Nat
  BY EngineAssumption, HeldPages, <1>6
<1>9. end <= Len(held[r]) * PageSize
  <2>1. /\ Len(text) \div PageSize + 1 \in Nat /\ (Len(text) \div PageSize + 1) * PageSize \in Nat
        /\ Len(text) < (Len(text) \div PageSize + 1) * PageSize
    BY <1>3, PageEnd
  <2>2. Len(text) \div PageSize + 1 <= Len(held[r])
    BY <1>3, <1>8, <2>1 DEF PagesFor
  <2>3. (Len(text) \div PageSize + 1) * PageSize <= Len(held[r]) * PageSize /\ Len(held[r]) * PageSize \in Nat
    BY <1>8, <2>1, <2>2, Multiples
  <2>4. \A a, b, c, d \in Nat : a <= b /\ b < c /\ c <= d => a <= d
    OBVIOUS
  <2> QED
    BY <1>3, <1>7, <2>1, <2>3, <2>4, Zenon
<1>10. PICK first \in Nat \ {0} : first = done[r] \div PageSize + 1
  <2>1. done[r] \div PageSize \in Nat
    BY <1>8, Division
  <2>2. done[r] \div PageSize + 1 \in Nat \ {0}
    BY <2>1
  <2> QED
    BY <2>2
<1>11. PICK full \in Nat : full = end \div PageSize
  BY <1>7, <1>8, Division
<1>12. full <= Len(text) \div PageSize /\ full <= Len(held[r]) /\ full * PageSize <= end
  <2>1. full <= Len(text) \div PageSize
    BY <1>3, <1>7, <1>8, <1>11, DivisionGrows
  <2>2. Len(text) \div PageSize \in Nat /\ Len(text) \div PageSize + 1 <= Len(held[r])
    <3>1. Len(text) \div PageSize \in Nat
      BY <1>3, <1>8, Division
    <3> QED
      BY <3>1, <1>3, <1>8 DEF PagesFor
  <2>3. full * PageSize <= end
    BY <1>7, <1>8, <1>11, Division
  <2> QED
    BY <1>8, <2>1, <2>2, <2>3
<1>13. /\ \A p \in DOMAIN digestOf : p \in DOMAIN digestOf' /\ digestOf'[p] = digestOf[p]
       /\ \A p \in DOMAIN digestOf' \ DOMAIN digestOf : \E k \in 1..Len(held[r]) :
            /\ p = held[r][k] /\ digestOf'[p] = Start(text, k * PageSize)
            /\ k * PageSize <= end
  <2>1. CASE ShareOn
    <3>1. Keep(SubSeq(held[r], first, full), SubSeq(DigestsOf(text), first, full))
      BY <1>5, <1>10, <1>11, <2>1
    <3>2. /\ \A p \in DOMAIN digestOf : p \in DOMAIN digestOf' /\ digestOf'[p] = digestOf[p]
          /\ \A p \in DOMAIN digestOf' \ DOMAIN digestOf :
               \E k \in first..full : p = held[r][k] /\ digestOf'[p] = Start(text, k * PageSize)
      <4>1. text \in Seq(Token) /\ full <= Len(held[r]) /\ full <= Len(text) \div PageSize
        BY <1>3, <1>12
      <4>2. PICK m \in Nat \ {0} : m = first
        BY <1>10
      <4>3. Keep(SubSeq(held[r], m, full), SubSeq(DigestsOf(text), m, full))
        BY <3>1, <4>2
      <4>4. /\ \A p \in DOMAIN digestOf : p \in DOMAIN digestOf' /\ digestOf'[p] = digestOf[p]
            /\ \A p \in DOMAIN digestOf' \ DOMAIN digestOf :
                 \E k \in m..full : p = held[r][k] /\ digestOf'[p] = Start(text, k * PageSize)
        BY <4>1, <4>3, PagesKept
      <4> QED
        BY <4>2, <4>4
    <3>3. \A k \in first..full : k \in 1..Len(held[r]) /\ k * PageSize <= end
      <4> SUFFICES ASSUME NEW k \in first..full PROVE k \in 1..Len(held[r]) /\ k * PageSize <= end
        OBVIOUS
      <4>1. k \in Nat /\ k <= full
        OBVIOUS
      <4>2. k * PageSize <= full * PageSize /\ k * PageSize \in Nat /\ full * PageSize \in Nat
        BY <1>8, <4>1, Multiples
      <4>3. k \in 1..Len(held[r])
        BY <1>8, <1>12
      <4>4. \A a, b, c \in Nat : a <= b /\ b <= c => a <= c
        OBVIOUS
      <4> QED
        BY <1>7, <1>12, <4>2, <4>3, <4>4, Zenon
    <3> QED
      BY <3>2, <3>3
  <2>2. CASE ~ShareOn
    BY <1>5, <2>2 DEF poolVars
  <2> QED
    BY <2>1, <2>2
<1>14. piece.req = r /\ piece.start = done[r] /\ piece.stop = end
  BY <1>4
<1>15. /\ done[r] < end /\ end <= Len(PromptOf(r)) /\ end <= Len(held[r]) * PageSize
       /\ chunks' = Append(chunks, piece) /\ done'[r] = end
  BY <1>3, <1>5, <1>6, <1>7, <1>9
<1>16. \A p \in DOMAIN digestOf' \ DOMAIN digestOf : \E k \in 1..Len(held[r]) :
            /\ p = held[r][k] /\ digestOf'[p] = Start(PromptOf(r), k * PageSize)
            /\ k * PageSize <= end
  BY <1>3, <1>13
<1>17. piece \in Piece
  BY <1>4, <1>7, <1>8 DEF Piece
<1> QED
  BY <1>1, <1>7, <1>13, <1>14, <1>15, <1>16, <1>17

\* The cells a new piece writes will hold the request's text.
LEMMA WillNew ==
  ASSUME IInv, PageInv, PiecesApart, NEW r \in Request, NEW end \in Nat, end <= Len(held[r]) * PageSize,
         NEW piece, piece.req = r, piece.start = done[r], piece.stop = end,
         chunks' = Append(chunks, piece), UNCHANGED <<cache, held, tokens>>,
         \A i \in 1..Len(chunks) : chunks[i].req # r,
         NEW n \in Nat, done[r] <= n, n < end
  PROVE  Will(PageAt(r, n), n % PageSize, Start(PromptOf(r), n + 1))'
<1>1. PICK k : k = Len(chunks)
  OBVIOUS
<1>2. /\ k \in Nat /\ Len(chunks') = k + 1 /\ chunks'[k + 1] = piece
      /\ \A i \in 1..k : chunks'[i] = chunks[i]
      /\ \A i \in 1..(k + 1) : i \in 1..k \/ i = k + 1
  <2>1. chunks \in Seq(Piece)
    BY DEF IInv, PassTypes
  <2> QED
    BY <1>1, <2>1, OneMorePiece
<1>3. \A m \in Nat : m < end => m \div PageSize + 1 \in 1..Len(held[r])
  <2> SUFFICES ASSUME NEW m \in Nat, m < end PROVE m \div PageSize + 1 \in 1..Len(held[r])
    OBVIOUS
  <2>1. Len(held[r]) \in Nat /\ Len(held[r]) * PageSize \in Nat
    BY HeldPages, EngineAssumption
  <2>2. m < Len(held[r]) * PageSize
    BY <2>1
  <2> QED
    BY <2>1, <2>2, PageIndex
<1>4. PICK p : p = PageAt(r, n) /\ p = PageAt(r, n)'
  BY DEF PageAt
<1>5. \A q \in Request \ {r} : p \notin Range(held[q])
  <2>1. n \div PageSize + 1 \in 1..Len(held[r]) /\ Private
    BY <1>3 DEF PageInv
  <2>2. \A q \in Request \ {r} : PageAt(r, n) \notin Range(held[q])
    BY <2>1, PastDone
  <2> QED
    BY <1>4, <2>2
<1>6. PICK o : o = n % PageSize
  OBVIOUS
<1>7. PICK text : text = Start(PromptOf(r), n + 1) /\ text = Start(PromptOf(r), n + 1)'
  BY DEF PromptOf
<1>8. ASSUME NEW i \in 1..Len(chunks'), NEW m \in Nat, Writes(chunks[i], m, p, o)'
      PROVE  Start(PromptOf(chunks[i].req), m + 1)' = text
  <2>1. CASE i \in 1..k
    <3>1. chunks'[i] = chunks[i] /\ held' = held
      BY <1>2, <2>1
    <3>2. chunks[i].start <= m /\ m < chunks[i].stop /\ PageAt(chunks[i].req, m) = p
      BY <1>8, <3>1 DEF Writes, PageAt
    <3>3. chunks[i].req \in Request /\ p \in Range(held[chunks[i].req])
      BY <1>1, <2>1, <3>2, PieceCells DEF PageInv
    <3>4. chunks[i].req # r
      BY <1>1, <2>1
    <3> QED
      BY <1>5, <3>3, <3>4
  <2>2. CASE i = k + 1
    <3>1. chunks'[i] = piece /\ held' = held
      BY <1>2, <2>2
    <3>2. m < end /\ PageAt(r, m) = p /\ m % PageSize = o
      BY <1>8, <3>1 DEF Writes, PageAt
    <3>3. m = n
      BY <1>3, <1>4, <1>6, <3>2, SameCell
    <3>4. Start(PromptOf(r), m + 1)' = text
      BY <1>7, <3>3
    <3> QED
      BY <3>1, <3>4 DEF PromptOf, Start
  <2> QED
    BY <1>2, <2>1, <2>2
<1>9. ~Unwritten(p, o)'
  <2>1. Writes(chunks[k + 1], n, p, o)'
    BY <1>2, <1>4, <1>6 DEF Writes, PageAt
  <2>2. k + 1 \in 1..Len(chunks')
    BY <1>2
  <2> QED
    BY <2>1, <2>2 DEF Unwritten
<1>10. Will(p, o, text)'
  BY <1>8, <1>9 DEF Will
<1> QED
  BY <1>4, <1>6, <1>7, <1>10

\* A piece of a prompt whose start is there: what it keeps will hold its text.
LEMMA TakeChunkTexts ==
  ASSUME IInv, IInv', PageInv, PiecesApart, pc' \in Passing, pc' # "sharing",
         NEW r \in Request, MayPass, done[r] < Len(PromptOf(r)),
         Len(held[r]) >= PagesFor(Len(PromptOf(r))), TakeChunk(r),
         WillHold(r, done[r], PromptOf(r)), \A i \in 1..Len(chunks) : chunks[i].req # r,
         UNCHANGED <<cache, held, tokens, rows, filling, devPos>>,
         pc = "sharing" => r = Head(waiting),
         Range(placed') \subseteq Range(placed) \cup {r}
  PROVE  PageInv' /\ \A q \in Request \ {r} : done'[q] = done[q]
<1>1. PICK end \in Nat, piece \in Piece :
           /\ done[r] < end /\ end <= Len(PromptOf(r)) /\ end <= Len(held[r]) * PageSize
           /\ piece.req = r /\ piece.start = done[r] /\ piece.stop = end
           /\ chunks' = Append(chunks, piece) /\ done'[r] = end
           /\ \A q \in Request \ {r} : done'[q] = done[q]
           /\ \A p \in DOMAIN digestOf : p \in DOMAIN digestOf' /\ digestOf'[p] = digestOf[p]
           /\ \A p \in DOMAIN digestOf' \ DOMAIN digestOf : \E k \in 1..Len(held[r]) :
                /\ p = held[r][k] /\ digestOf'[p] = Start(PromptOf(r), k * PageSize)
                /\ k * PageSize <= end
  BY ChunkTaken
<1>2. chunks \in Seq(Piece) /\ held \in [Request -> Seq(Usable)] /\ done \in [Request -> Nat]
  BY DEF IInv, PassTypes, RowTypes
<1>3. PICK k : k = Len(chunks)
  OBVIOUS
<1>4. /\ k \in Nat /\ Len(chunks') = k + 1 /\ chunks'[k + 1] = piece
      /\ \A i \in 1..k : chunks'[i] = chunks[i]
      /\ \A i \in 1..(k + 1) : i \in 1..k \/ i = k + 1
  BY <1>1, <1>2, <1>3, OneMorePiece
<1>5. done[r] \in Nat /\ Len(held[r]) \in Nat /\ Len(held[r]) * PageSize \in Nat
  BY <1>2, HeldPages, EngineAssumption
<1>6. ASSUME NEW n \in Nat, done[r] <= n, n < end
      PROVE  /\ n \div PageSize + 1 \in 1..Len(held[r])
             /\ PageAt(r, n) \in Range(held[r]) /\ PageAt(r, n) \notin DOMAIN digestOf
             /\ \A q \in Request \ {r} : PageAt(r, n) \notin Range(held[q])
  <2>1. n < Len(held[r]) * PageSize
    BY <1>1, <1>5, <1>6
  <2>2. n \div PageSize + 1 \in 1..Len(held[r]) /\ Private
    BY <1>5, <2>1, PageIndex DEF PageInv
  <2> QED
    BY <1>6, <2>2, PastDone
<1>7. \A n \in Nat : \A p, o : Writes(piece, n, p, o) => done[r] <= n /\ n < end /\ p = PageAt(r, n) /\ n % PageSize = o
  BY <1>1 DEF Writes
<1>8. ASSUME NEW q \in Request \ {r}, NEW p \in Range(held[q]), NEW o, NEW text, Will(p, o, text)
      PROVE  Will(p, o, text)'
  <2>1. \A n \in Nat : ~Writes(piece, n, p, o)
    BY <1>6, <1>7
  <2> QED
    BY <1>1, <1>2, <1>8, <2>1, WillOneMore
<1>9. ASSUME NEW p \in DOMAIN digestOf, NEW o, NEW text, Will(p, o, text)
      PROVE  Will(p, o, text)'
  <2>1. \A n \in Nat : ~Writes(piece, n, p, o)
    BY <1>6, <1>7
  <2> QED
    BY <1>1, <1>2, <1>9, <2>1, WillOneMore
<1>10. PICK text : text = PromptOf(r) /\ text = PromptOf(r)' /\ text \in Seq(Token)
  <2>1. PromptOf(r)' = PromptOf(r)
    BY DEF PromptOf
  <2> QED
    BY <2>1, TextOfRequest DEF IInv
<1>11. ASSUME NEW n \in Nat, n < end
       PROVE  Will(PageAt(r, n), n % PageSize, Start(text, n + 1))'
  <2>1. CASE n < done[r]
    <3>1. PICK p, o, t : p = PageAt(r, n) /\ o = n % PageSize /\ t = Start(text, n + 1)
      OBVIOUS
    <3>2. Will(p, o, t)
      <4>1. n \in 0..(done[r] - 1)
        BY <1>5, <2>1
      <4> QED
        BY <1>10, <3>1, <4>1 DEF WillHold
    <3>3. ASSUME NEW m \in Nat, Writes(piece, m, p, o)
          PROVE  Start(PromptOf(piece.req), m + 1) = t
      <4>1. done[r] <= m /\ m < end /\ p = PageAt(r, m) /\ m % PageSize = o
        BY <1>7, <3>3
      <4>2. m \div PageSize + 1 \in 1..Len(held[r])
        BY <1>6, <4>1
      <4>3. n \div PageSize + 1 \in 1..Len(held[r])
        <5>1. n < Len(held[r]) * PageSize
          BY <1>1, <1>5, <1>11
        <5> QED
          BY <1>5, <5>1, PageIndex
      <4>4. m = n
        BY <3>1, <4>1, <4>2, <4>3, SameCell
      <4> QED
        BY <1>5, <2>1, <4>1, <4>4
    <3>4. Will(p, o, t)'
      BY <1>1, <1>2, <3>2, <3>3, WillOneMore
    <3> QED
      BY <3>1, <3>4 DEF PageAt
  <2>2. CASE ~(n < done[r])
    <3>1. done[r] <= n
      BY <1>5, <2>2
    <3>2. Will(PageAt(r, n), n % PageSize, Start(PromptOf(r), n + 1))'
      BY <1>1, <1>11, <3>1, WillNew
    <3> QED
      BY <1>10, <3>2
  <2> QED
    BY <2>1, <2>2
<1>12. KeptWill'
  <2> SUFFICES ASSUME NEW p \in DOMAIN digestOf', NEW o \in Offset
               PROVE  Will(p, o, Start(digestOf[p], Len(digestOf[p]) - PageSize + o + 1))'
    BY DEF KeptWill
  <2>1. PICK d : d = digestOf'[p]
    OBVIOUS
  <2>2. PICK t : t = Start(d, Len(d) - PageSize + o + 1)
    OBVIOUS
  <2>3. CASE p \in DOMAIN digestOf
    <3>1. d = digestOf[p]
      BY <1>1, <2>1, <2>3
    <3>2. Will(p, o, t)
      BY <2>2, <2>3, <3>1 DEF PageInv, KeptWill
    <3>3. Will(p, o, t)'
      BY <1>9, <2>3, <3>2
    <3> QED
      BY <2>1, <2>2, <3>3
  <2>4. CASE p \notin DOMAIN digestOf
    <3>1. PICK j \in 1..Len(held[r]) :
            p = held[r][j] /\ d = Start(text, j * PageSize) /\ j * PageSize <= end
      BY <1>1, <1>10, <2>1, <2>4
    <3>2. j \in Nat \ {0} /\ j * PageSize \in Nat
      BY EngineAssumption
    <3>3. j * PageSize <= Len(text)
      BY <1>1, <1>10, <3>1, <3>2
    <3>4. PICK i \in Nat :
            /\ i < j * PageSize /\ i \div PageSize + 1 = j /\ i % PageSize = o
            /\ Start(d, Len(d) - PageSize + o + 1) = Start(text, i + 1)
      BY <1>10, <3>1, <3>2, <3>3, CellOfPage
    <3>5. i < end
      BY <3>1, <3>2, <3>4
    <3>6. Will(PageAt(r, i), i % PageSize, Start(text, i + 1))'
      BY <1>11, <3>5
    <3>7. PageAt(r, i)' = p
      BY <3>1, <3>4 DEF PageAt
    <3>8. Will(p, o, t)'
      BY <2>2, <3>4, <3>6, <3>7
    <3> QED
      BY <2>1, <2>2, <3>8
  <2> QED
    BY <2>3, <2>4
<1>13. Pieces'
  <2>1. \A i \in 1..Len(chunks') : chunks'[i].stop <= done'[chunks'[i].req]
    <3> SUFFICES ASSUME NEW i \in 1..(k + 1) PROVE chunks'[i].stop <= done'[chunks'[i].req]
      BY <1>4
    <3>1. CASE i \in 1..k
      <4>1. chunks'[i] = chunks[i] /\ chunks[i].req # r
        BY <1>3, <1>4, <3>1
      <4>2. chunks[i].stop <= done[chunks[i].req]
        BY <1>3, <3>1 DEF PageInv, Pieces
      <4>3. chunks[i].req \in Request
        <5>1. chunks[i] \in Piece
          BY <1>2, <1>3, <3>1
        <5> QED
          BY <5>1 DEF Piece
      <4> QED
        BY <1>1, <4>1, <4>2, <4>3
    <3>2. CASE i = k + 1
      BY <1>1, <1>4, <3>2
    <3> QED
      BY <1>4, <3>1, <3>2
  <2>2. \A q : HasPiece(q) => HasPiece(q)'
    <3>1. \A i \in 1..k : i \in 1..(k + 1)
      BY <1>4
    <3> QED
      BY <1>3, <1>4, <3>1 DEF HasPiece
  <2>3. HasPiece(r)'
    <3>1. k + 1 \in 1..(k + 1)
      BY <1>4
    <3> QED
      BY <1>1, <1>4, <3>1 DEF HasPiece
  <2> QED
    BY <2>1, <2>2, <2>3 DEF PageInv, Pieces, HasPiece
<1>14. Fillings'
  <2> SUFFICES ASSUME NEW q \in Range(filling') \cup Range(placed'), NEW i \in 0..(done'[q] - 1)
               PROVE  Will(PageAt(q, i), i % PageSize, Start(PromptOf(q), i + 1))'
    BY DEF Fillings, WillHold
  <2>1. CASE q = r
    <3>1. i \in Nat /\ i < end
      BY <1>1, <2>1
    <3> QED
      BY <1>10, <1>11, <2>1, <3>1
  <2>2. CASE q # r
    <3>1. q \in Range(filling) \cup Range(placed)
      BY <2>2
    <3>2. q \in Request
      <4>1. filling \in Seq(Request) /\ placed \in Seq(Request)
        BY DEF IInv, RowTypes
      <4> QED
        BY <3>1, <4>1, RangeOfLine
    <3>3. i \in 0..(done[q] - 1)
      BY <1>1, <2>2, <3>2
    <3>4. Will(PageAt(q, i), i % PageSize, Start(PromptOf(q), i + 1))
      BY <3>1, <3>3 DEF PageInv, Fillings, WillHold
    <3>5. PageAt(q, i) \in Range(held[q])
      BY <3>1, <3>3, FillPages
    <3>6. PICK p, t : p = PageAt(q, i) /\ t = Start(PromptOf(q), i + 1)
      OBVIOUS
    <3>7. Will(p, i % PageSize, t)'
      BY <1>8, <2>2, <3>2, <3>4, <3>5, <3>6
    <3>8. PageAt(q, i)' = p /\ Start(PromptOf(q), i + 1)' = t
      BY <3>6 DEF PageAt, PromptOf
    <3> QED
      BY <3>7, <3>8
  <2> QED
    BY <2>1, <2>2
<1>15. FoundHolds'
  BY DEF FoundHolds
<1>16. \A q \in Request : done[q] <= done'[q]
  <2>1. ASSUME NEW q \in Request PROVE done[q] <= done'[q]
    <3>1. CASE q = r
      BY <1>1, <1>5, <3>1
    <3>2. CASE q # r
      <4>1. done'[q] = done[q] /\ done[q] \in Nat
        BY <1>1, <1>2, <3>2
      <4> QED
        BY <4>1
    <3> QED
      BY <3>1, <3>2
  <2> QED
    BY <2>1
<1>17. Private'
  <2> SUFFICES ASSUME NEW q \in Request, NEW j \in 1..Len(held[q]),
                      \/ held[q][j] \in DOMAIN digestOf'
                      \/ \E t \in Request \ {q} : held[q][j] \in Range(held[t])
               PROVE  j * PageSize <= done'[q]
    BY DEF Private
  <2>1. CASE held[q][j] \in DOMAIN digestOf \/ \E t \in Request \ {q} : held[q][j] \in Range(held[t])
    <3>1. j * PageSize <= done[q]
      BY <2>1 DEF PageInv, Private
    <3>2. done[q] <= done'[q] /\ done[q] \in Nat /\ done'[q] \in Nat /\ j * PageSize \in Nat
      <4>1. done' \in [Request -> Nat]
        BY DEF IInv, RowTypes
      <4>2. j * PageSize \in Nat
        BY EngineAssumption
      <4> QED
        BY <1>2, <1>16, <4>1, <4>2
    <3> QED
      BY <3>1, <3>2
  <2>2. CASE held[q][j] \in DOMAIN digestOf' \ DOMAIN digestOf
    <3>1. PICK m \in 1..Len(held[r]) : held[q][j] = held[r][m] /\ m * PageSize <= end
      BY <1>1, <2>2
    <3>2. CASE q = r
      <4>1. j = m
        <5>1. held[r] \in Seq(Usable) /\ Once(held[r])
          BY HeldPages DEF IInv, PagesHeld
        <5> QED
          BY <3>1, <3>2, <5>1, OnceOfLine
      <4> QED
        BY <1>1, <3>1, <3>2, <4>1
    <3>3. CASE q # r
      <4>1. held[q][j] \in Range(held[r])
        BY <3>1, HeldPages, RangeOfLine
      <4> QED
        BY <2>1, <3>3, <4>1
    <3> QED
      BY <3>2, <3>3
  <2> QED
    BY <2>1, <2>2
<1>18. SharedKept'
  BY <1>1 DEF PageInv, SharedKept
<1>19. InTurn'
  <2> SUFFICES ASSUME NEW i \in 1..(k + 1), NEW n \in Nat, NEW q \in Request \ {chunks'[i].req},
                      chunks'[i].start <= n, n < chunks'[i].stop,
                      PageAt(chunks'[i].req, n) \in Range(held[q])
               PROVE  \E j \in 1..(k + 1) : i < j /\ chunks'[j].req = q
    BY <1>4 DEF InTurn, PageAt
  <2>1. CASE i \in 1..k
    <3>1. chunks'[i] = chunks[i] /\ i \in 1..Len(chunks)
      BY <1>3, <1>4, <2>1
    <3>2. \/ \E j \in 1..Len(chunks) : i < j /\ chunks[j].req = q
          \/ pc = "sharing" /\ q = Head(waiting)
      BY <3>1 DEF PageInv, InTurn
    <3>3. CASE \E j \in 1..Len(chunks) : i < j /\ chunks[j].req = q
      <4>1. PICK j \in 1..k : i < j /\ chunks'[j].req = q
        BY <1>3, <1>4, <3>3
      <4>2. j \in 1..(k + 1)
        BY <1>4
      <4> QED
        BY <4>1, <4>2
    <3>4. CASE pc = "sharing" /\ q = Head(waiting)
      <4>1. q = r
        BY <3>4
      <4>2. k + 1 \in 1..(k + 1) /\ i < k + 1
        BY <1>4, <2>1
      <4>3. chunks'[k + 1].req = q
        BY <1>1, <1>4, <4>1
      <4> QED
        BY <4>2, <4>3
    <3> QED
      BY <3>2, <3>3, <3>4
  <2>2. CASE i = k + 1
    <3>1. chunks'[i].req = r /\ done[r] <= n /\ n < end
      BY <1>1, <1>4, <2>2
    <3> QED
      BY <1>6, <3>1
  <2> QED
    BY <1>4, <2>1, <2>2
<1> QED
  BY <1>1, <1>12, <1>13, <1>14, <1>15, <1>17, <1>18, <1>19 DEF PageInv

\* The next piece of a prompt being filled.
LEMMA ChunkFillingTexts ==
  ASSUME IInv, IInv', ReadInv, PiecesApart, TextInv, ChunkFilling
  PROVE  TextInv'
<1>1. PICK n, r : n = Len(chunks) /\ r = filling[n + 1]
  OBVIOUS
<1>2. /\ pc = "chunk" /\ pc' = "chunk" /\ MayPass /\ n < Len(filling) /\ TakeChunk(r)
      /\ UNCHANGED <<cache, held, tokens, rows, filling, placed>>
      /\ UNCHANGED <<devPos, devTok, devKey, queued, reading>>
  BY <1>1 DEF ChunkFilling, At, requestVars, passVars, cellVars
<1>3. filling \in Seq(Request) /\ Once(filling) /\ n \in Nat
  <2>1. chunks \in Seq(Piece)
    BY DEF IInv, PassTypes
  <2>2. n \in Nat
    BY <1>1, <2>1, PlacesOfLine
  <2>3. filling \in Seq(Request) /\ Once(filling)
    BY DEF IInv, RowTypes, Admission
  <2> QED
    BY <2>2, <2>3
<1>4. n + 1 \in 1..Len(filling) /\ \A i \in 1..n : i # n + 1
  BY <1>2, <1>3
<1>5. \A i \in 1..n : i \in 1..Len(filling) /\ chunks[i].req = filling[i]
  <2>1. \A i \in 1..Len(chunks) : i <= Len(filling) /\ chunks[i].req = filling[i]
    BY <1>2 DEF IInv, PiecesRun, Passing
  <2>2. \A i \in 1..n : i \in 1..Len(filling)
    BY <1>2, <1>3
  <2> QED
    BY <1>1, <2>1, <2>2
<1>6. r \in Range(filling) /\ r \in Request
  BY <1>1, <1>3, <1>4, RangeOfLine
<1>7. \A i \in 1..Len(chunks) : chunks[i].req # r
  <2>1. ASSUME NEW i \in 1..n PROVE filling[i] # filling[n + 1]
    BY <1>3, <1>4, <1>5, OnceOfLine
  <2> QED
    BY <1>1, <1>5, <2>1
<1>8. done[r] < Len(PromptOf(r)) /\ Len(held[r]) >= PagesFor(Len(PromptOf(r)))
  <2>1. /\ Len(held[r]) >= PagesFor(Len(PromptOf(r)))
        /\ \/ done[r] < Len(PromptOf(r))
           \/ \E i \in 1..Len(chunks) : chunks[i].req = r
    BY <1>6 DEF IInv, FillingHold
  <2> QED
    BY <1>7, <2>1
<1>9. WillHold(r, done[r], PromptOf(r))
  BY <1>6 DEF TextInv, PageInv, Fillings
<1>10. PageInv' /\ \A q \in Request \ {r} : done'[q] = done[q]
  <2>1. pc' \in Passing /\ pc' # "sharing" /\ pc # "sharing"
    BY <1>2 DEF Passing
  <2>2. Range(placed') \subseteq Range(placed) \cup {r}
    BY <1>2
  <2> QED
    BY <1>2, <1>6, <1>7, <1>8, <1>9, <2>1, <2>2, TakeChunkTexts DEF TextInv
<1>11. Onward /\ Due' = Due
  BY NoDraw DEF Onward, Quiet, DrawsStill
<1>12. Texts'
  <2>1. Extended
    <3>1. held \in [Request -> Seq(Usable)]
      BY DEF IInv, RowTypes
    <3> QED
      BY <1>2, <3>1 DEF Extended
  <2>2. \A s \in Slot : Filled(s) => done'[rows[s]] = done[rows[s]]
    <3> SUFFICES ASSUME NEW s \in Slot, Filled(s) PROVE done'[rows[s]] = done[rows[s]]
      OBVIOUS
    <3>1. rows[s] \in Request
      BY RowRuns DEF Filled
    <3>2. rows[s] # r
      BY <1>6 DEF Filled
    <3> QED
      BY <1>10, <3>1, <3>2
  <2> QED
    BY <1>2, <1>11, <2>1, <2>2, TextsExtended DEF TextInv
<1> QED
  BY <1>10, <1>12 DEF TextInv

\* The first piece of a request placed.
LEMMA PlaceDoneTexts ==
  ASSUME IInv, IInv', ReadInv, PiecesApart, TextInv, PlaceDone
  PROVE  TextInv'
<1>1. PICK r : r = Head(waiting)
  OBVIOUS
<1>2. /\ pc = "sharing" /\ pc' = "place" /\ found = <<>> /\ TakeChunk(r)
      /\ Len(held[r]) >= PagesFor(Len(PromptOf(r))) /\ placed' = Append(placed, r)
      /\ UNCHANGED <<cache, held, tokens, rows, filling>>
      /\ UNCHANGED <<devPos, devTok, devKey, queued, reading>>
  BY <1>1 DEF PlaceDone, At, Goto, requestVars, passVars, cellVars
<1>3. waiting # <<>> /\ MayPass /\ done[r] < Len(PromptOf(r))
  BY <1>1, <1>2 DEF IInv, Placement
<1>4. r \in Request /\ r \notin Range(filling) \cup Range(placed) /\ \A s \in Slot : rows[s] # r
  BY <1>1, <1>3, PlacedFromLine
<1>5. \A i \in 1..Len(chunks) : chunks[i].req # r
  <2>1. pc \in Passing
    BY <1>2 DEF Passing
  <2> QED
    BY <1>4, <2>1 DEF PiecesApart
<1>6. WillHold(r, done[r], PromptOf(r))
  <2>1. /\ WillHold(r, Smaller(Len(held[r]) * PageSize, done[r]), PromptOf(r))
        /\ done[r] <= (Len(held[r]) + Len(found)) * PageSize
    BY <1>1, <1>2 DEF TextInv, PageInv, FoundHolds
  <2>2. Len(found) = 0
    BY <1>2
  <2>3. Len(held[r]) \in Nat /\ done[r] \in Nat
    <3>1. done \in [Request -> Nat]
      BY DEF IInv, RowTypes
    <3> QED
      BY <1>4, <3>1, HeldPages
  <2>4. Len(held[r]) + Len(found) = Len(held[r])
    BY <2>2, <2>3
  <2>5. done[r] <= Len(held[r]) * PageSize /\ Len(held[r]) * PageSize \in Nat
    BY <2>1, <2>3, <2>4, EngineAssumption
  <2>6. Smaller(Len(held[r]) * PageSize, done[r]) = done[r]
    BY <2>3, <2>5 DEF Smaller
  <2> QED
    BY <2>1, <2>6
<1>7. Range(placed') = Range(placed) \cup {r}
  BY <1>2, <1>4, AppendOnce DEF IInv, RowTypes
<1>8. PageInv' /\ \A q \in Request \ {r} : done'[q] = done[q]
  <2>1. pc' \in Passing /\ pc' # "sharing"
    BY <1>2 DEF Passing
  <2>2. pc = "sharing" => r = Head(waiting)
    BY <1>1
  <2>3. Range(placed') \subseteq Range(placed) \cup {r}
    BY <1>7
  <2> QED
    BY <1>2, <1>3, <1>4, <1>5, <1>6, <2>1, <2>2, <2>3, TakeChunkTexts DEF TextInv
<1>9. Onward /\ Due' = Due
  BY NoDraw DEF Onward, Quiet, DrawsStill
<1>10. Texts'
  <2>1. Extended
    <3>1. held \in [Request -> Seq(Usable)]
      BY DEF IInv, RowTypes
    <3> QED
      BY <1>2, <3>1 DEF Extended
  <2>2. \A s \in Slot : Filled(s) => done'[rows[s]] = done[rows[s]]
    <3> SUFFICES ASSUME NEW s \in Slot, Filled(s) PROVE done'[rows[s]] = done[rows[s]]
      OBVIOUS
    <3>1. rows[s] \in Request
      BY RowRuns DEF Filled
    <3>2. rows[s] # r
      BY <1>4
    <3> QED
      BY <1>8, <3>1, <3>2
  <2> QED
    BY <1>2, <1>9, <2>1, <2>2, TextsExtended DEF TextInv
<1> QED
  BY <1>8, <1>10 DEF TextInv

\* A request placed takes its row.
LEMMA BindTexts ==
  ASSUME IInv, IInv', ReadInv, PiecesApart, TextInv, Bind
  PROVE  TextInv'
<1>1. PICK r, s : r = placed[Shortest] /\ s = Min(FreeSlots)
  OBVIOUS
<1>2. /\ pc = "bind" /\ pc' = "bind" /\ placed # <<>>
      /\ rows' = [rows EXCEPT ![s] = r] /\ filling' = Append(filling, r)
      /\ placed' = RemoveAt(placed, Shortest)
      /\ UNCHANGED <<cache, held, done, tokens, chunks, digestOf>>
      /\ UNCHANGED <<devPos, devTok, devKey, queued, reading>>
  BY <1>1 DEF Bind, At, requestVars, passVars, cellVars, poolVars
<1>3. /\ placed \in Seq(Request) /\ Once(placed) /\ Shortest \in 1..Len(placed)
      /\ r \in Request /\ s \in Slot
  BY <1>1, <1>2, BoundSlot
<1>4. Range(placed') = Range(placed) \ {r} /\ r \in Range(placed)
  BY <1>1, <1>2, <1>3, WithoutOnce, RemoveAtOnce, RangeOfLine
<1>5. Range(filling') = Range(filling) \cup {r}
  BY <1>2, <1>3, AppendOnce DEF IInv, RowTypes
<1>6. rows'[s] = r /\ \A t \in Slot \ {s} : rows'[t] = rows[t]
  BY <1>2, <1>3 DEF IInv, RowTypes
<1>7. PiecesSame
  BY <1>2 DEF PiecesSame, PageAt
<1>8. KeptWill'
  BY <1>2, <1>7, KeptStay DEF TextInv, PageInv
<1>9. Pieces'
  <2>1. HasPiece(r)
    BY <1>4 DEF TextInv, PageInv, Pieces
  <2>2. \A q : HasPiece(q)' <=> HasPiece(q)
    BY <1>2 DEF HasPiece
  <2>3. ASSUME NEW t \in Slot, NEW q, q = rows'[t], q \in Range(filling'), ~HasPiece(q)'
        PROVE  devPos'[t] = MaxSeq - 1
    <3>1. ~HasPiece(q)
      BY <2>2, <2>3
    <3>2. q # r
      BY <2>1, <3>1
    <3>3. rows[t] = q /\ q \in Range(filling)
      BY <1>5, <1>6, <2>3, <3>2
    <3> QED
      BY <1>2, <3>1, <3>3 DEF TextInv, PageInv, Pieces
  <2>4. pc' \in Passing
    BY <1>2 DEF Passing
  <2>5. \A q \in Range(placed') : HasPiece(q)'
    BY <1>4, <2>2 DEF TextInv, PageInv, Pieces
  <2>6. \A i \in 1..Len(chunks') : chunks'[i].stop <= done'[chunks'[i].req]
    BY <1>2 DEF TextInv, PageInv, Pieces
  <2>7. \A t \in Slot : rows'[t] \in Range(filling') /\ ~HasPiece(rows[t])' => devPos'[t] = MaxSeq - 1
    <3> SUFFICES ASSUME NEW t \in Slot, rows'[t] \in Range(filling'), ~HasPiece(rows[t])'
                 PROVE  devPos'[t] = MaxSeq - 1
      OBVIOUS
    <3>1. PICK q : q = rows'[t]
      OBVIOUS
    <3>2. ~HasPiece(q)'
      BY <3>1 DEF HasPiece
    <3> QED
      BY <2>3, <3>1, <3>2
  <2> QED
    BY <2>4, <2>5, <2>6, <2>7 DEF Pieces
<1>10. Fillings'
  <2>1. \A q : PromptOf(q)' = PromptOf(q)
    BY <1>2 DEF PromptOf
  <2>2. \A q, i : PageAt(q, i)' = PageAt(q, i)
    BY <1>2 DEF PageAt
  <2>3. Range(filling') \cup Range(placed') \subseteq Range(filling) \cup Range(placed)
    BY <1>4, <1>5
  <2> QED
    BY <1>2, <1>7, <2>1, <2>2, <2>3, FillingsStay DEF TextInv, PageInv
<1>11. FoundHolds'
  BY <1>2 DEF FoundHolds
<1>12. Private' /\ SharedKept'
  BY <1>2 DEF TextInv, PageInv, Private, SharedKept
<1>13. InTurn'
  <2>1. pc # "sharing" /\ pc' # "sharing"
    BY <1>2
  <2> QED
    BY <1>2, <2>1 DEF TextInv, PageInv, InTurn, PageAt
<1>14. Onward /\ Due' = Due
  BY NoDraw DEF Onward, DrawsStill
<1>15. \A t \in Slot : Filled(t)' => Filled(t) /\ rows'[t] = rows[t]
  BY <1>5, <1>6 DEF Filled
<1>16. Texts'
  <2>1. ASSUME NEW t \in Slot, Filled(t)', NEW whole \in Seq(Token) \ {<<>>}, Stands(t, whole)
        PROVE  Stands(t, whole)'
    <3>1. Filled(t) /\ rows'[t] = rows[t]
      BY <1>15, <2>1
    <3>2. /\ done'[rows[t]] = done[rows[t]] /\ Bounded(whole) <= Len(held'[rows[t]]) * PageSize
          /\ \A i \in 0..(Bounded(whole) - 1) :
               cache'[held'[rows[t]][i \div PageSize + 1]][i % PageSize]
                 = cache[PageAt(rows[t], i)][i % PageSize]
      BY <1>2, <2>1 DEF Stands, PageAt
    <3> QED
      BY <1>2, <1>14, <2>1, <3>1, <3>2, StandsKept
  <2> QED
    BY <1>2, <1>14, <1>15, <2>1, TextsKept DEF TextInv
<1> QED
  BY <1>8, <1>9, <1>10, <1>11, <1>12, <1>13, <1>16 DEF TextInv, PageInv

\* A text the whole starts with stands in the pages, but for its last token.
LEMMA StartHeld ==
  ASSUME IInv, NEW s \in Slot, Filled(s), NEW whole \in Seq(Token) \ {<<>>}, Stands(s, whole),
         NEW text \in Seq(Token), Len(text) <= Len(whole), Start(whole, Len(text)) = text,
         Len(text) <= MaxSeq, NEW i \in Nat, i < Len(text) - 1
  PROVE  cache[PageAt(rows[s], i)][i % PageSize] = Start(text, i + 1)
<1>1. Len(whole) \in Nat /\ Len(text) \in Nat /\ MaxSeq \in Nat
  BY EngineAssumption
<1>2. i \in 0..(Bounded(whole) - 1)
  BY <1>1 DEF Bounded, Smaller
<1>3. cache[PageAt(rows[s], i)][i % PageSize] = Start(whole, i + 1)
  BY <1>2 DEF Stands, Holds
<1>4. Len(text) \in 0..Len(whole) /\ i + 1 \in 0..Len(text)
  BY <1>1
<1>5. Start(Start(whole, Len(text)), i + 1) = Start(whole, i + 1)
  BY <1>4, StartOfStart
<1> QED
  BY <1>3, <1>5

\* A row is given up: the pages it leaves kept hold the text they are kept by.
LEMMA ReleasePages ==
  ASSUME IInv, IInv', PageInv, chunks = <<>>, pc \notin Passing, pc' \notin Passing,
         UNCHANGED <<cache, chunks, placed, devPos>>,
         NEW r \in Rowed, NEW text \in Seq(Token), Release(r, text),
         \A q \in Request \ {r} : tokens'[q] = tokens[q],
         NEW n \in Nat, n = Passed(r, text), n <= Len(text),
         \A i \in 0..(n - 1) : cache[PageAt(r, i)][i % PageSize] = Start(text, i + 1)
  PROVE  /\ PageInv' /\ r \in Request
         /\ \A q \in Request \ {r} : held'[q] = held[q] /\ done'[q] = done[q]
<1>1. r \in Request
  BY SlotOfRow DEF IInv
<1>2. /\ held' = [held EXCEPT ![r] = <<>>] /\ done' = [done EXCEPT ![r] = 0]
      /\ KeepFull(r, text)
  BY DEF Release
<1>3. /\ held \in [Request -> Seq(Usable)] /\ held' \in [Request -> Seq(Usable)]
      /\ done \in [Request -> Nat]
  BY DEF IInv, RowTypes
<1>4. /\ held'[r] = <<>> /\ done'[r] = 0
      /\ \A q \in Request \ {r} : held'[q] = held[q] /\ done'[q] = done[q]
  BY <1>1, <1>2, <1>3
<1>5. Range(held'[r]) = {} /\ 1..Len(held'[r]) = {} /\ 1..Len(chunks) = {} /\ chunks' = <<>>
  BY <1>4, NoPlaces, EmptyLine
<1>6. PageSize \in Nat \ {0} /\ Len(held[r]) \in Nat /\ Len(text) \in Nat
  BY <1>1, HeldPages, EngineAssumption
<1>7. PICK full \in Nat : full = Smaller(n \div PageSize, Len(held[r]))
  <2>1. n \div PageSize \in Nat
    BY <1>6, Division
  <2> QED
    BY <1>6, <2>1 DEF Smaller
<1>8. full <= Len(held[r]) /\ full <= Len(text) \div PageSize /\ full * PageSize <= n
  <2>1. n \div PageSize \in Nat /\ (n \div PageSize) * PageSize <= n
    BY <1>6, Division
  <2>2. n \div PageSize <= Len(text) \div PageSize /\ Len(text) \div PageSize \in Nat
    BY <1>6, DivisionGrows, Division
  <2>3. full <= n \div PageSize /\ full <= Len(held[r])
    BY <1>6, <1>7, <2>1 DEF Smaller
  <2>4. full * PageSize <= (n \div PageSize) * PageSize
    BY <1>6, <2>1, <2>3, Multiples
  <2>5. full * PageSize \in Nat /\ (n \div PageSize) * PageSize \in Nat
    BY <1>6, <2>1
  <2>6. \A a, b, c \in Nat : a <= b /\ b <= c => a <= c
    OBVIOUS
  <2>7. full * PageSize <= n
    BY <2>1, <2>4, <2>5, <2>6, Zenon
  <2>8. full <= Len(text) \div PageSize
    BY <2>1, <2>2, <2>3
  <2> QED
    BY <2>3, <2>7, <2>8
<1>9. /\ \A p \in DOMAIN digestOf : p \in DOMAIN digestOf' /\ digestOf'[p] = digestOf[p]
      /\ \A p \in DOMAIN digestOf' \ DOMAIN digestOf : \E k \in 1..full :
           p = held[r][k] /\ digestOf'[p] = Start(text, k * PageSize)
  <2>1. CASE ShareOn
    <3>1. Keep(SubSeq(held[r], 1, full), SubSeq(DigestsOf(text), 1, full))
      BY <1>2, <1>7, <2>1 DEF KeepFull, FirstDigests
    <3>2. 1 \in Nat \ {0} /\ full <= Len(held[r]) /\ full <= Len(text) \div PageSize
      BY <1>8
    <3>3. PICK m \in Nat \ {0} : m = 1
      OBVIOUS
    <3>4. text \in Seq(Token) /\ full \in Nat
      OBVIOUS
    <3>5. /\ full <= Len(held[r]) /\ full <= Len(text) \div PageSize
          /\ Keep(SubSeq(held[r], m, full), SubSeq(DigestsOf(text), m, full))
      BY <3>1, <3>2, <3>3
    <3>6. /\ \A p \in DOMAIN digestOf : p \in DOMAIN digestOf' /\ digestOf'[p] = digestOf[p]
          /\ \A p \in DOMAIN digestOf' \ DOMAIN digestOf : \E k \in m..full :
               p = held[r][k] /\ digestOf'[p] = Start(text, k * PageSize)
      BY <1>1, <3>4, <3>5, PagesKept
    <3>7. /\ \A p \in DOMAIN digestOf : p \in DOMAIN digestOf' /\ digestOf'[p] = digestOf[p]
          /\ \A p \in DOMAIN digestOf' \ DOMAIN digestOf : \E k \in 1..full :
               p = held[r][k] /\ digestOf'[p] = Start(text, k * PageSize)
      BY <3>3, <3>6
    <3> QED
      BY <3>7
  <2>2. CASE ~ShareOn
    <3>1. digestOf' = digestOf
      BY <1>2, <2>2 DEF KeepFull, poolVars
    <3> QED
      BY <3>1
  <2> QED
    BY <2>1, <2>2
<1>10. KeptWill'
  <2> SUFFICES ASSUME NEW p \in DOMAIN digestOf', NEW o \in Offset
               PROVE  Will(p, o, Start(digestOf[p], Len(digestOf[p]) - PageSize + o + 1))'
    BY DEF KeptWill
  <2>1. PICK d, t : d = digestOf'[p] /\ t = Start(d, Len(d) - PageSize + o + 1)
    OBVIOUS
  <2>2. cache[p][o] = t
    <3>1. CASE p \in DOMAIN digestOf
      <4>1. d = digestOf[p]
        BY <1>9, <2>1, <3>1
      <4>2. Will(p, o, t)
        BY <2>1, <3>1, <4>1 DEF PageInv, KeptWill
      <4> QED
        BY <4>2, WillNow
    <3>2. CASE p \notin DOMAIN digestOf
      <4>1. PICK k \in 1..full : p = held[r][k] /\ d = Start(text, k * PageSize)
        BY <1>9, <2>1, <3>2
      <4>2. k \in Nat \ {0} /\ k * PageSize \in Nat /\ k * PageSize <= n
        <5>1. k \in Nat \ {0} /\ k <= full
          OBVIOUS
        <5>2. k * PageSize \in Nat /\ full * PageSize \in Nat /\ k * PageSize <= full * PageSize
          BY <1>6, <5>1, Multiples
        <5>3. \A a, b, c \in Nat : a <= b /\ b <= c => a <= c
          OBVIOUS
        <5>4. k * PageSize <= n
          BY <1>8, <5>2, <5>3, Zenon
        <5> QED
          BY <5>1, <5>2, <5>4
      <4>3. k * PageSize <= Len(text)
        BY <1>6, <4>2
      <4>4. PICK i \in Nat :
              /\ i < k * PageSize /\ i \div PageSize + 1 = k /\ i % PageSize = o
              /\ Start(d, Len(d) - PageSize + o + 1) = Start(text, i + 1)
        BY <4>1, <4>2, <4>3, CellOfPage
      <4>5. i \in 0..(n - 1)
        BY <4>2, <4>4
      <4>6. cache[PageAt(r, i)][i % PageSize] = Start(text, i + 1)
        BY <4>5
      <4>7. PageAt(r, i) = p
        BY <4>1, <4>4 DEF PageAt
      <4> QED
        BY <2>1, <4>4, <4>6, <4>7
    <3> QED
      BY <3>1, <3>2
  <2>3. Will(p, o, t)'
    BY <1>5, <2>2, WillThen
  <2> QED
    BY <2>1, <2>3
<1>11. Pieces' /\ Fillings'
  <2>1. Range(filling') \subseteq Range(filling) \ {r}
    BY FreedRow
  <2>2. placed' = <<>> /\ Range(placed') = {}
    <3>1. placed = <<>>
      BY DEF IInv, Placement, Placing, Passing
    <3> QED
      BY <3>1, EmptyLine
  <2>3. \A t \in Slot : rows'[t] \in Range(filling') => rows[t] = rows'[t] /\ rows[t] \in Range(filling)
    <3>1. \A t \in Slot : rows'[t] = rows[t] \/ rows'[t] = None
      BY FreedRow
    <3>2. None \notin Range(filling)
      <4>1. filling \in Seq(Request)
        BY DEF IInv, RowTypes
      <4> QED
        BY <4>1, RangeOfLine, EngineAssumption
    <3> QED
      BY <2>1, <3>1, <3>2
  <2>4. \A q : ~HasPiece(q)
    BY <1>5 DEF HasPiece
  <2>5. Pieces'
    BY <1>5, <2>2, <2>3, <2>4 DEF PageInv, Pieces, HasPiece
  <2>6. Fillings'
    <3> SUFFICES ASSUME NEW q \in Range(filling'), NEW i \in 0..(done'[q] - 1)
                 PROVE  Will(PageAt(q, i), i % PageSize, Start(PromptOf(q), i + 1))'
      BY <2>2 DEF Fillings, WillHold
    <3>1. q \in Range(filling) /\ q # r
      BY <2>1
    <3>2. q \in Request
      <4>1. filling \in Seq(Request)
        BY DEF IInv, RowTypes
      <4> QED
        BY <3>1, <4>1, RangeOfLine
    <3>3. i \in 0..(done[q] - 1)
      BY <1>4, <3>1, <3>2
    <3>4. Will(PageAt(q, i), i % PageSize, Start(PromptOf(q), i + 1))
      BY <3>1, <3>3 DEF PageInv, Fillings, WillHold
    <3>5. PICK p, t : p = PageAt(q, i) /\ t = Start(PromptOf(q), i + 1)
      OBVIOUS
    <3>6. cache[p][i % PageSize] = t
      BY <3>4, <3>5, WillNow
    <3>7. Will(p, i % PageSize, t)'
      BY <1>5, <3>6, WillThen
    <3>8. PageAt(q, i)' = p /\ Start(PromptOf(q), i + 1)' = t
      <4>1. tokens'[q] = tokens[q] /\ held'[q] = held[q]
        BY <1>4, <3>1, <3>2
      <4> QED
        BY <3>5, <4>1 DEF PageAt, PromptOf
    <3> QED
      BY <3>7, <3>8
  <2> QED
    BY <2>5, <2>6
<1>12. FoundHolds'
  BY DEF FoundHolds, Passing
<1>13. \A q \in Request : Range(held'[q]) \subseteq Range(held[q])
  BY <1>4, <1>5
<1>14. Private'
  <2> SUFFICES ASSUME NEW q \in Request, NEW k \in 1..Len(held'[q]),
                      \/ held'[q][k] \in DOMAIN digestOf'
                      \/ \E t \in Request \ {q} : held'[q][k] \in Range(held'[t])
               PROVE  k * PageSize <= done'[q]
    BY DEF Private
  <2>1. q # r
    BY <1>5
  <2>2. held'[q] = held[q] /\ done'[q] = done[q]
    BY <1>4, <2>1
  <2>3. held[q][k] \in DOMAIN digestOf \/ \E t \in Request \ {q} : held[q][k] \in Range(held[t])
    <3>1. CASE held[q][k] \in DOMAIN digestOf' \ DOMAIN digestOf
      <4>1. PICK j \in 1..full : held[q][k] = held[r][j]
        BY <1>9, <3>1
      <4>2. j \in 1..Len(held[r])
        BY <1>6, <1>8
      <4>3. held[q][k] \in Range(held[r])
        BY <1>1, <4>1, <4>2, HeldPages, RangeOfLine
      <4> QED
        BY <1>1, <2>1, <4>3
    <3>2. CASE \E t \in Request \ {q} : held[q][k] \in Range(held'[t])
      BY <1>13, <3>2
    <3> QED
      BY <2>2, <3>1, <3>2
  <2> QED
    BY <2>2, <2>3 DEF PageInv, Private
<1>15. SharedKept'
  <2> SUFFICES ASSUME NEW q \in Request, NEW t \in Request, q # t,
                      NEW x \in Range(held'[q]) \cap Range(held'[t])
               PROVE  x \in DOMAIN digestOf'
    BY DEF SharedKept
  <2>1. x \in Range(held[q]) \cap Range(held[t])
    BY <1>13
  <2>2. x \in DOMAIN digestOf
    BY <2>1 DEF PageInv, SharedKept
  <2> QED
    BY <1>9, <2>2
<1>16. InTurn'
  BY <1>5 DEF InTurn
<1> QED
  BY <1>1, <1>4, <1>10, <1>11, <1>12, <1>14, <1>15, <1>16 DEF PageInv

\* The pages of a row hold what has passed of its text.
LEMMA PassedHolds ==
  ASSUME IInv, PageInv, chunks = <<>>, NEW r \in Rowed, NEW text \in Seq(Token),
         Len(text) > 0, Len(text) <= MaxSeq,
         r \in Range(filling) => text = PromptOf(r),
         r \notin Range(filling) =>
           \E whole \in Seq(Token) \ {<<>>} :
             /\ Stands(SlotOf(r), whole)
             /\ Len(text) <= Len(whole) /\ Start(whole, Len(text)) = text
  PROVE  \E n \in Nat :
           /\ n = Passed(r, text) /\ n <= Len(text)
           /\ \A i \in 0..(n - 1) : cache[PageAt(r, i)][i % PageSize] = Start(text, i + 1)
<1>1. SlotOf(r) \in Slot /\ rows[SlotOf(r)] = r /\ r \in Request
  BY SlotOfRow DEF IInv
<1>2. CASE r \in Range(filling)
  <2>1. PICK n \in Nat : n = done[r]
    BY <1>1 DEF IInv, RowTypes
  <2>2. n <= Len(text)
    BY <1>2, <2>1 DEF IInv, FillingHold
  <2>3. \A i \in 0..(n - 1) : Will(PageAt(r, i), i % PageSize, Start(text, i + 1))
    BY <1>2, <2>1 DEF PageInv, Fillings, WillHold
  <2>4. \A i \in 0..(n - 1) : cache[PageAt(r, i)][i % PageSize] = Start(text, i + 1)
    BY <2>3, WillNow
  <2> QED
    BY <1>2, <2>1, <2>2, <2>4 DEF Passed
<1>3. CASE r \notin Range(filling)
  <2>1. PICK whole \in Seq(Token) \ {<<>>} :
           /\ Stands(SlotOf(r), whole)
           /\ Len(text) <= Len(whole) /\ Start(whole, Len(text)) = text
    BY <1>3
  <2>2. PICK s \in Slot : s = SlotOf(r) /\ rows[s] = r /\ Filled(s)
    <3>1. r # None
      BY <1>1, EngineAssumption
    <3> QED
      BY <1>1, <1>3, <3>1 DEF Filled
  <2>3. PICK n \in Nat : n = Len(text) - 1
    OBVIOUS
  <2>4. \A i \in 0..(n - 1) : i \in Nat /\ i < Len(text) - 1
    BY <2>3
  <2>5. \A i \in 0..(n - 1) : cache[PageAt(r, i)][i % PageSize] = Start(text, i + 1)
    BY <2>1, <2>2, <2>4, StartHeld
  <2>6. n = Passed(r, text) /\ n <= Len(text)
    BY <1>3, <2>3 DEF Passed
  <2> QED
    BY <2>5, <2>6
<1> QED
  BY <1>2, <1>3

\* A request of a row that is filled has its text in the pages, but for draws not read.
LEMMA RowText ==
  ASSUME IInv, AheadInv, Texts, reading = <<>>, NEW r \in Rowed
  PROVE  /\ PromptOf(r) \in Seq(Token) /\ Len(PromptOf(r)) > 0 /\ Len(PromptOf(r)) <= MaxSeq
         /\ r \notin Range(filling) =>
              \E whole \in Seq(Token) \ {<<>>} :
                /\ Stands(SlotOf(r), whole)
                /\ Len(PromptOf(r)) <= Len(whole) /\ Start(whole, Len(PromptOf(r))) = PromptOf(r)
<1>1. SlotOf(r) \in Slot /\ rows[SlotOf(r)] = r /\ r \in Request
  BY SlotOfRow DEF IInv
<1>2. PromptOf(r) \in Seq(Token) /\ Len(PromptOf(r)) \in Nat \ {0}
  BY <1>1, TextOfRequest DEF IInv
<1>3. Len(PromptOf(r)) < MaxSeq /\ MaxSeq \in Nat
  <2>1. reason[r] = ""
    BY DEF IInv, Admission
  <2> QED
    BY <1>1, <2>1, EngineAssumption DEF AheadInv, Budgets, HasRoom
<1>4. ASSUME r \notin Range(filling)
      PROVE  \E whole \in Seq(Token) \ {<<>>} :
               /\ Stands(SlotOf(r), whole)
               /\ Len(PromptOf(r)) <= Len(whole) /\ Start(whole, Len(PromptOf(r))) = PromptOf(r)
  <2>1. Filled(SlotOf(r))
    <3>1. r # None
      BY <1>1, EngineAssumption
    <3> QED
      BY <1>1, <1>4, <3>1 DEF Filled
  <2>2. PICK f \in [0..Len(queued) -> Seq(Token)], whole \in Seq(Token) \ {<<>>} :
           Grows(r, f, whole) /\ Stands(SlotOf(r), whole)
    BY <1>1, <2>1 DEF Texts
  <2>3. ~Drawn(r, reading)
    BY NoPlaces DEF Drawn
  <2>4. f[0] = PromptOf(r)
    BY <2>2, <2>3 DEF Grows, Passes
  <2>5. 0 \in 0..Len(queued)
    BY DEF IInv, PassTypes
  <2>6. Len(f[0]) <= Len(whole) /\ Start(whole, Len(f[0])) = f[0]
    BY <2>2, <2>5 DEF Grows
  <2> QED
    BY <2>2, <2>4, <2>6
<1> QED
  BY <1>2, <1>3, <1>4

\* A row is given up that the passes are not read of: the others stand.
LEMMA OthersStand ==
  ASSUME IInv, IInv', ReadInv, Onward, NEW r \in Rowed, NEW text, Release(r, text),
         UNCHANGED <<cache, devPos, devTok, devKey>>,
         \A q \in Request \ {r} : held'[q] = held[q] /\ done'[q] = done[q],
         NEW s \in Slot, Filled(s)'
  PROVE  /\ Filled(s) /\ rows'[s] = rows[s] /\ rows[s] # r /\ rows[s] \in Request
         /\ \A whole \in Seq(Token) \ {<<>>} : Stands(s, whole) => Stands(s, whole)'
<1>1. rows'[s] # None /\ rows'[s] \notin Range(filling')
  BY DEF Filled
<1>2. s # SlotOf(r)
  BY <1>1, FreedRow
<1>3. rows'[s] = rows[s] /\ rows[s] # r
  BY <1>2, FreedRow
<1>4. Filled(s) /\ rows[s] \in Request
  <2>1. Range(filling') = Range(filling) \ {r}
    BY FreedRow
  <2> QED
    BY <1>1, <1>3, <2>1 DEF Filled, IInv, RowTypes
<1>5. ASSUME NEW whole \in Seq(Token) \ {<<>>}, Stands(s, whole)
      PROVE  Stands(s, whole)'
  <2>1. held'[rows[s]] = held[rows[s]] /\ done'[rows[s]] = done[rows[s]]
    BY <1>3, <1>4
  <2>2. /\ Bounded(whole) <= Len(held'[rows[s]]) * PageSize
        /\ \A i \in 0..(Bounded(whole) - 1) :
             cache'[held'[rows[s]][i \div PageSize + 1]][i % PageSize]
               = cache[PageAt(rows[s], i)][i % PageSize]
    BY <1>5, <2>1 DEF Stands, PageAt
  <2> QED
    BY <1>3, <1>4, <1>5, <2>1, <2>2, StandsKept
<1> QED
  BY <1>3, <1>4, <1>5

\* A row is given up between steps, or for want of pages.
LEMMA FreesTexts ==
  ASSUME IInv, IInv', ReadInv, AheadInv, TextInv,
         (\E r \in Request : Cancel(r) /\ CancelRow(r)) \/ GrowPreempt
  PROVE  TextInv'
<1>1. \E r \in Rowed : Release(r, PromptOf(r)) /\ pc \in {"idle", "grow"} /\ pc' = pc
  <2>1. CASE \E r \in Request : Cancel(r) /\ CancelRow(r)
    BY <2>1, EngineAssumption DEF Cancel, CancelRow, At, Rowed
  <2>2. CASE GrowPreempt
    <3>1. pc = "grow" /\ short /\ pc' = pc /\ Release(Victim, PromptOf(Victim))
      BY <2>2 DEF GrowPreempt, At
    <3> QED
      BY <3>1, VictimInRow
  <2> QED
    BY <2>1, <2>2
<1>2. PICK r \in Rowed : Release(r, PromptOf(r)) /\ pc \in {"idle", "grow"} /\ pc' = pc
  BY <1>1
<1>3. /\ UNCHANGED <<cache, chunks, placed, devPos, devTok, devKey, queued, reading, tokens>>
  BY DEF Cancel, GrowPreempt, localVars, cellVars, passVars, requestVars
<1>4. Onward /\ Due' = Due
  <2>1. GrowPreempt \/ \E q \in Request : Cancel(q)
    OBVIOUS
  <2> QED
    BY <2>1, NoDraw DEF Onward, DrawsStill
<1>5. chunks = <<>> /\ pc \notin Passing /\ pc' \notin Passing /\ reading = <<>>
  BY <1>2 DEF TextInv, PageInv, Pieces, Passing, IInv, DrawsLive
<1>6. PICK text \in Seq(Token) : text = PromptOf(r)
  BY <1>5, RowText DEF TextInv
<1>7. /\ Len(text) > 0 /\ Len(text) <= MaxSeq
      /\ r \notin Range(filling) =>
           \E whole \in Seq(Token) \ {<<>>} :
             /\ Stands(SlotOf(r), whole)
             /\ Len(text) <= Len(whole) /\ Start(whole, Len(text)) = text
  BY <1>5, <1>6, RowText DEF TextInv
<1>8. PICK n \in Nat :
           /\ n = Passed(r, text) /\ n <= Len(text)
           /\ \A i \in 0..(n - 1) : cache[PageAt(r, i)][i % PageSize] = Start(text, i + 1)
  BY <1>5, <1>6, <1>7, PassedHolds DEF TextInv
<1>9. Release(r, text)
  BY <1>2, <1>6
<1>10. /\ PageInv' /\ r \in Request
       /\ \A q \in Request \ {r} : held'[q] = held[q] /\ done'[q] = done[q]
  <2>1. \A q \in Request \ {r} : tokens'[q] = tokens[q]
    BY <1>3
  <2>2. UNCHANGED <<cache, chunks, placed, devPos>>
    BY <1>3
  <2> QED
    BY <1>5, <1>8, <1>9, <2>1, <2>2, ReleasePages DEF TextInv
<1>11. \A s \in Slot : Filled(s)' =>
           /\ Filled(s) /\ rows'[s] = rows[s]
           /\ \A whole \in Seq(Token) \ {<<>>} : Stands(s, whole) => Stands(s, whole)'
  BY <1>3, <1>4, <1>9, <1>10, OthersStand
<1>12. Texts'
  BY <1>3, <1>4, <1>11, TextsKept DEF TextInv
<1> QED
  BY <1>10, <1>12 DEF TextInv

\* The rows and their pages are as they were, and every text grows to the same whole.
LEMMA TextsGrow ==
  ASSUME IInv, IInv', ReadInv, Onward, Texts,
         UNCHANGED <<cache, held, done, rows, filling, devPos, devTok, devKey>>,
         \A r \in Running : \A f \in [0..Len(queued) -> Seq(Token)] :
           \A whole \in Seq(Token) \ {<<>>} : Grows(r, f, whole) =>
             \E g \in [0..Len(queued') -> Seq(Token)] : Grows(r, g, whole)'
  PROVE  Texts'
<1> SUFFICES ASSUME NEW s \in Slot, Filled(s)'
             PROVE  \E g \in [0..Len(queued') -> Seq(Token)], whole \in Seq(Token) \ {<<>>} :
                      Grows(rows[s], g, whole)' /\ Stands(s, whole)'
  BY DEF Texts
<1>1. Filled(s) /\ rows'[s] = rows[s]
  BY DEF Filled
<1>2. PICK f \in [0..Len(queued) -> Seq(Token)], whole \in Seq(Token) \ {<<>>} :
        Grows(rows[s], f, whole) /\ Stands(s, whole)
  BY <1>1 DEF Texts
<1>3. PICK r \in Running : r = rows[s] /\ r = rows'[s]
  BY <1>1, RowRuns DEF Filled
<1>4. PICK g \in [0..Len(queued') -> Seq(Token)] : Grows(r, g, whole)'
  BY <1>2, <1>3
<1>5. Grows(rows[s], g, whole)'
  BY <1>3, <1>4 DEF Grows, PromptOf
<1>6. Stands(s, whole)'
  BY <1>1, <1>2, StandsKept DEF Stands, PageAt
<1> QED
  BY <1>5, <1>6

\* A text all of which is there.
LEMMA WholeStart ==
  ASSUME NEW text \in Seq(Token)
  PROVE  Len(text) <= Len(text) /\ Start(text, Len(text)) = text
<1>1. Len(text) \in Nat
  OBVIOUS
<1>2. SubSeq(text, 1, Len(text)) = text
  OBVIOUS
<1> QED
  BY <1>1, <1>2 DEF Start

\* A pass is taken up to be read.
LEMMA PopPassTexts ==
  ASSUME IInv, IInv', ReadInv, TextInv, PopPass
  PROVE  TextInv'
<1>1. /\ pc \in {"read", "growread"} /\ pc' = pc /\ Len(queued) > ahead /\ reading = <<>>
      /\ reading' = Head(queued) /\ queued' = Tail(queued)
      /\ UNCHANGED <<tokens, rows, filling, held, done, cache, devPos, devTok, devKey>>
      /\ UNCHANGED <<chunks, digestOf, placed>>
  BY DEF PopPass, Reading, At, requestVars, rowVars, cellVars, localVars, poolVars
<1>2. queued \in Seq(Seq(Draw)) /\ queued # <<>>
  <2>1. queued \in Seq(Seq(Draw)) /\ ahead \in Nat
    BY DEF IInv, PassTypes
  <2>2. Len(<<>>) = 0
    OBVIOUS
  <2> QED BY <2>1, <2>2, <1>1
<1>3. PICK n \in Nat \ {0} : n = Len(queued)
  BY <1>2
<1>4. /\ reading' = queued[1] /\ Len(queued') = n - 1
      /\ \A i \in 1..(n - 1) : queued'[i] = queued[i + 1]
  BY <1>1, <1>2, <1>3
<1>5. Due' = Due
  BY <1>1 DEF Due
<1>6. PageInv'
  <2>1. pc # "sharing" /\ pc' # "sharing" /\ chunks = <<>>
    BY <1>1 DEF TextInv, PageInv, Pieces, Passing
  <2> QED
    BY <1>1, <2>1, PagesStay DEF TextInv
<1>7. ASSUME NEW r \in Running, NEW f \in [0..Len(queued) -> Seq(Token)],
             NEW whole \in Seq(Token) \ {<<>>}, Grows(r, f, whole)
      PROVE  \E g \in [0..Len(queued') -> Seq(Token)] : Grows(r, g, whole)'
  <2>1. /\ \A i \in 0..(n - 1) : i + 1 \in 0..n
        /\ \A i \in 1..(n - 1) : i \in 0..(n - 1) /\ i - 1 \in 0..(n - 1) /\ i + 1 \in 1..n
                                 /\ i + 1 - 1 = i /\ i - 1 + 1 = i
        /\ 1 \in 1..n /\ 1 - 1 = 0 /\ 0 \in 0..(n - 1) /\ n - 1 \in 0..(n - 1) /\ n - 1 + 1 = n
        /\ 0 + 1 = 1
    BY <1>3
  <2>2. PICK g \in [0..(n - 1) -> Seq(Token)] : \A i \in 0..(n - 1) : g[i] = f[i + 1]
    <3>1. [i \in 0..(n - 1) |-> f[i + 1]] \in [0..(n - 1) -> Seq(Token)]
      BY <1>3, <2>1
    <3> QED
      BY <3>1
  <2>3. PromptOf(r)' = PromptOf(r) /\ f[0] = PromptOf(r)
    <3>1. ~Drawn(r, reading)
      BY <1>1, NoPlaces DEF Drawn
    <3> QED
      BY <1>1, <1>7, <3>1 DEF Grows, Passes, PromptOf
  <2>4. /\ \A i \in 1..n : Passes(r, queued[i], f[i - 1], f[i])
        /\ Passes(r, Due, f[n], whole)
        /\ \A i \in 0..n : Len(f[i]) <= Len(whole) /\ Start(whole, Len(f[i])) = f[i]
    BY <1>3, <1>7 DEF Grows
  <2>5. Passes(r, reading', PromptOf(r)', g[0])
    <3>1. Passes(r, queued[1], f[0], f[1]) /\ g[0] = f[1]
      BY <2>1, <2>2, <2>4
    <3> QED
      BY <1>4, <2>3, <3>1
  <2>6. \A i \in 1..(n - 1) : Passes(r, queued'[i], g[i - 1], g[i])
    <3> SUFFICES ASSUME NEW i \in 1..(n - 1)
                 PROVE  Passes(r, queued'[i], g[i - 1], g[i])
      OBVIOUS
    <3>1. g[i] = f[i + 1] /\ g[i - 1] = f[i] /\ queued'[i] = queued[i + 1]
      BY <1>4, <2>1, <2>2
    <3>2. Passes(r, queued[i + 1], f[i], f[i + 1])
      BY <2>1, <2>4
    <3> QED
      BY <3>1, <3>2
  <2>7. Passes(r, Due', g[n - 1], whole)
    BY <1>5, <2>1, <2>2, <2>4
  <2>8. \A i \in 0..(n - 1) : Len(g[i]) <= Len(whole) /\ Start(whole, Len(g[i])) = g[i]
    BY <2>1, <2>2, <2>4
  <2>9. Grows(r, g, whole)'
    <3>1. Passes(r, reading, PromptOf(r), g[0])'
      BY <2>5 DEF Passes, Drawn
    <3>2. \A i \in 1..Len(queued') : Passes(r, queued[i], g[i - 1], g[i])'
      BY <1>4, <2>6 DEF Passes, Drawn
    <3>3. Passes(r, Due, g[Len(queued)], whole)'
      BY <1>4, <2>7 DEF Passes, Drawn
    <3>4. \A i \in 0..Len(queued') : Len(g[i]) <= Len(whole) /\ Start(whole, Len(g[i])) = g[i]
      BY <1>4, <2>8
    <3> QED
      BY <3>1, <3>2, <3>3, <3>4 DEF Grows
  <2> QED
    BY <1>4, <2>2, <2>9
<1>8. Texts'
  <2>1. Onward
    BY DEF Onward
  <2> QED
    BY <1>1, <1>7, <2>1, TextsGrow DEF TextInv
<1> QED
  BY <1>6, <1>8 DEF TextInv

\* A pass of prompts is queued.
LEMMA PassEndTexts ==
  ASSUME IInv, IInv', ReadInv, TextInv, PassEnd
  PROVE  TextInv'
<1>1. /\ pc = "pass" /\ pc' = "pass" /\ queued' = Append(queued, owners) /\ owners' = <<>>
      /\ reading' = reading
      /\ UNCHANGED <<tokens, rows, filling, held, done, cache, devPos, devTok, devKey>>
      /\ UNCHANGED <<chunks, digestOf, placed>>
  BY DEF PassEnd, At, requestVars, rowVars, cellVars, poolVars
<1>2. queued \in Seq(Seq(Draw)) /\ owners \in Seq(Draw)
  BY DEF IInv, PassTypes
<1>3. PICK n \in Nat : n = Len(queued)
  BY <1>2
<1>4. /\ Len(queued') = n + 1 /\ queued'[n + 1] = owners
      /\ \A i \in 1..n : queued'[i] = queued[i]
  BY <1>1, <1>2, <1>3
<1>5. Due = owners /\ Due' = <<>>
  BY <1>1 DEF Due
<1>6. PageInv'
  <2>1. pc # "sharing" /\ pc' # "sharing" /\ pc' \in Passing
    BY <1>1 DEF Passing
  <2> QED
    BY <1>1, <2>1, PagesStay DEF TextInv
<1>7. ASSUME NEW r \in Running, NEW f \in [0..Len(queued) -> Seq(Token)],
             NEW whole \in Seq(Token) \ {<<>>}, Grows(r, f, whole)
      PROVE  \E g \in [0..Len(queued') -> Seq(Token)] : Grows(r, g, whole)'
  <2>1. /\ \A i \in 0..(n + 1) : i \in 0..n \/ i = n + 1
        /\ \A i \in 1..(n + 1) : i \in 1..n \/ i = n + 1
        /\ \A i \in 1..n : i \in 0..n /\ i - 1 \in 0..n
        /\ \A i \in 0..n : i \in 0..(n + 1) /\ i # n + 1
        /\ n + 1 \in 0..(n + 1) /\ n + 1 - 1 = n /\ n \in 0..n /\ 0 \in 0..n
    <3>1. n \in Nat
      OBVIOUS
    <3>2. /\ \A i \in 0..(n + 1) : i \in 0..n \/ i = n + 1
          /\ \A i \in 1..(n + 1) : i \in 1..n \/ i = n + 1
      BY <3>1
    <3>3. /\ \A i \in 1..n : i \in 0..n /\ i - 1 \in 0..n
          /\ \A i \in 0..n : i \in 0..(n + 1) /\ i # n + 1
      BY <3>1
    <3>4. n + 1 \in 0..(n + 1) /\ n + 1 - 1 = n /\ n \in 0..n /\ 0 \in 0..n
      BY <3>1
    <3> QED
      BY <3>2, <3>3, <3>4
  <2>2. PICK g \in [0..(n + 1) -> Seq(Token)] :
          g[n + 1] = whole /\ \A i \in 0..n : g[i] = f[i]
    <3>1. /\ [i \in 0..(n + 1) |-> IF i = n + 1 THEN whole ELSE f[i]]
               \in [0..(n + 1) -> Seq(Token)]
          /\ [i \in 0..(n + 1) |-> IF i = n + 1 THEN whole ELSE f[i]][n + 1] = whole
          /\ \A j \in 0..n : [i \in 0..(n + 1) |-> IF i = n + 1 THEN whole ELSE f[i]][j] = f[j]
      BY <1>3, <2>1
    <3> QED
      BY <3>1
  <2>3. PromptOf(r)' = PromptOf(r)
    BY <1>1 DEF PromptOf
  <2>4. /\ Passes(r, reading, PromptOf(r), f[0])
        /\ \A i \in 1..n : Passes(r, queued[i], f[i - 1], f[i])
        /\ Passes(r, owners, f[n], whole)
        /\ \A i \in 0..n : Len(f[i]) <= Len(whole) /\ Start(whole, Len(f[i])) = f[i]
    BY <1>3, <1>5, <1>7 DEF Grows
  <2>5. Passes(r, reading', PromptOf(r)', g[0])
    BY <1>1, <2>1, <2>2, <2>3, <2>4
  <2>6. \A i \in 1..(n + 1) : Passes(r, queued'[i], g[i - 1], g[i])
    <3>1. Passes(r, queued'[n + 1], g[n], g[n + 1])
      BY <1>4, <2>1, <2>2, <2>4
    <3>2. \A i \in 1..n : Passes(r, queued'[i], g[i - 1], g[i])
      BY <1>4, <2>1, <2>2, <2>4
    <3> SUFFICES ASSUME NEW i \in 1..(n + 1)
                 PROVE  Passes(r, queued'[i], g[i - 1], g[i])
      OBVIOUS
    <3>3. i \in 1..n \/ i = n + 1
      BY <2>1
    <3>4. CASE i = n + 1
      <4>1. PICK k : k = i - 1
        OBVIOUS
      <4>2. k = n
        BY <3>4, <4>1
      <4>3. Passes(r, queued'[i], g[k], g[i])
        BY <3>1, <3>4, <4>2
      <4> QED
        BY <4>1, <4>3
    <3>5. CASE i \in 1..n
      BY <3>2, <3>5
    <3> QED
      BY <3>3, <3>4, <3>5
  <2>7. Passes(r, Due', g[n + 1], whole)
    BY <1>5, <2>2, NoPlaces DEF Passes, Drawn
  <2>8. \A i \in 0..(n + 1) : Len(g[i]) <= Len(whole) /\ Start(whole, Len(g[i])) = g[i]
    BY <2>1, <2>2, <2>4, WholeStart
  <2>9. Grows(r, g, whole)'
    <3>1. Passes(r, reading, PromptOf(r), g[0])'
      BY <2>5 DEF Passes, Drawn
    <3>2. \A i \in 1..Len(queued') : Passes(r, queued[i], g[i - 1], g[i])'
      BY <1>4, <2>6 DEF Passes, Drawn
    <3>3. Passes(r, Due, g[Len(queued)], whole)'
      BY <1>4, <2>7 DEF Passes, Drawn
    <3>4. \A i \in 0..Len(queued') : Len(g[i]) <= Len(whole) /\ Start(whole, Len(g[i])) = g[i]
      BY <1>4, <2>8
    <3> QED
      BY <3>1, <3>2, <3>3, <3>4 DEF Grows
  <2> QED
    BY <1>4, <2>2, <2>9
<1>8. Texts'
  <2>1. Onward
    BY DEF Onward
  <2> QED
    BY <1>1, <1>7, <2>1, TextsGrow DEF TextInv
<1> QED
  BY <1>6, <1>8 DEF TextInv

\* The pass of the prompts joins the line before the rows' step it came with.
LEMMA QueuedBefore ==
  ASSUME IInv, MixPassEnd
  PROVE  \E n \in Nat \ {0} :
           /\ n = Len(queued) /\ Len(queued') = n + 1
           /\ queued'[n] = owners /\ queued'[n + 1] = queued[n]
           /\ \A i \in 1..(n - 1) : queued'[i] = queued[i]
<1> DEFINE two == <<owners, Last(queued)>>
           f == Front(queued)
<1>1. pc = "mixpass" /\ queued' = f \o two
  BY DEF MixPassEnd, At
<1>2. queued \in Seq(Seq(Draw)) /\ owners \in Seq(Draw) /\ queued # <<>>
  BY <1>1 DEF IInv, PassTypes, DrawsLive
<1>3. PICK n \in Nat \ {0} : n = Len(queued)
  BY <1>2
<1>4. /\ f \in Seq(Seq(Draw)) /\ Len(f) = n - 1 /\ Last(queued) = queued[n]
      /\ \A i \in 1..(n - 1) : f[i] = queued[i]
  <2>1. f = [i \in 1..(n - 1) |-> queued[i]] /\ Last(queued) = queued[n]
    BY <1>2, <1>3 DEF Front, Last
  <2> QED
    BY <2>1, <1>2, <1>3
<1>5. two \in Seq(Seq(Draw)) /\ Len(two) = 2 /\ two[1] = owners /\ two[2] = queued[n]
  <2>1. queued[n] \in Seq(Draw)
    BY <1>2, <1>3
  <2> QED
    BY <2>1, <1>2, <1>4
<1> HIDE DEF f, two
<1>6. /\ Len(f \o two) = Len(f) + Len(two)
      /\ \A i \in 1..Len(f) : (f \o two)[i] = f[i]
      /\ \A j \in 1..Len(two) : (f \o two)[Len(f) + j] = two[j]
  <2>1. f \in Seq(Seq(Draw)) /\ two \in Seq(Seq(Draw))
    BY <1>4, <1>5
  <2> QED
    BY <2>1, PlacesOfParts
<1>7. n - 1 + 2 = n + 1 /\ n - 1 + 1 = n /\ 1 \in 1..2 /\ 2 \in 1..2
  BY <1>3
<1>8. /\ Len(f \o two) = n - 1 + 2
      /\ \A i \in 1..(n - 1) : (f \o two)[i] = f[i]
      /\ \A j \in 1..2 : (f \o two)[n - 1 + j] = two[j]
  BY <1>4, <1>5, <1>6
<1>9. (f \o two)[n] = two[1] /\ (f \o two)[n + 1] = two[2]
  BY <1>7, <1>8
<1>10. /\ Len(queued') = n + 1 /\ queued'[n] = owners /\ queued'[n + 1] = queued[n]
       /\ \A i \in 1..(n - 1) : queued'[i] = queued[i]
  BY <1>1, <1>4, <1>5, <1>7, <1>8, <1>9
<1> QED
  BY <1>3, <1>10

\* The pass of the prompts is queued, to be read before the rows' step: the two draw for
\* different requests.
LEMMA MixPassEndTexts ==
  ASSUME IInv, IInv', ReadInv, TextInv, MixPassEnd
  PROVE  TextInv'
<1>1. /\ pc = "mixpass" /\ pc' = "read" /\ chunks = <<>>
      /\ reading' = reading
      /\ UNCHANGED <<tokens, rows, filling, held, done, cache, devPos, devTok, devKey>>
      /\ UNCHANGED <<chunks, digestOf, placed>>
  BY DEF MixPassEnd, At, Goto, requestVars, rowVars, cellVars, poolVars
<1>2. PICK n \in Nat \ {0} :
        /\ n = Len(queued) /\ Len(queued') = n + 1
        /\ queued'[n] = owners /\ queued'[n + 1] = queued[n]
        /\ \A i \in 1..(n - 1) : queued'[i] = queued[i]
  BY QueuedBefore
<1>3. Due = owners /\ Due' = <<>>
  BY <1>1 DEF Due
<1>4. PageInv'
  <2>1. pc # "sharing" /\ pc' # "sharing"
    BY <1>1
  <2> QED
    BY <1>1, <2>1, PagesStay DEF TextInv
<1>5. ASSUME NEW r \in Running, NEW f \in [0..Len(queued) -> Seq(Token)],
             NEW whole \in Seq(Token) \ {<<>>}, Grows(r, f, whole)
      PROVE  \E g \in [0..Len(queued') -> Seq(Token)] : Grows(r, g, whole)'
  <2>1. n \in Nat /\ n - 1 \in Nat /\ n \in 1..n /\ n \in 0..n /\ n - 1 \in 0..n
    BY <1>2
  <2>2. /\ \A i \in 0..(n + 1) : i \in 0..(n - 1) \/ i = n \/ i = n + 1
        /\ \A i \in 1..(n + 1) : i \in 1..(n - 1) \/ i = n \/ i = n + 1
    BY <2>1
  <2>3. \A i \in 1..(n - 1) : i \in 1..n /\ i \in 0..(n - 1) /\ i - 1 \in 0..(n - 1)
    BY <2>1
  <2>4. \A i \in 0..(n - 1) : i \in 0..n /\ i \in 0..(n + 1) /\ i # n /\ i # n + 1
    BY <2>1
  <2>5. n + 1 \in 0..(n + 1) /\ n \in 0..(n + 1) /\ n # n + 1 /\ 0 \in 0..(n - 1)
        /\ n - 1 \in 0..(n - 1)
    BY <2>1
  <2>6. PICK mid \in Seq(Token) : mid = IF Drawn(r, owners) THEN whole ELSE f[n - 1]
    <3>1. f[n - 1] \in Seq(Token)
      BY <1>2, <2>1
    <3> QED
      BY <3>1
  <2>7. PICK g \in [0..(n + 1) -> Seq(Token)] :
          g[n + 1] = whole /\ g[n] = mid /\ \A i \in 0..(n - 1) : g[i] = f[i]
    <3> DEFINE h == [i \in 0..(n + 1) |-> IF i = n + 1 THEN whole
                                          ELSE IF i = n THEN mid ELSE f[i]]
    <3>1. \A i \in 0..(n - 1) : f[i] \in Seq(Token)
      BY <1>2, <2>4
    <3>2. h \in [0..(n + 1) -> Seq(Token)]
      BY <2>2, <3>1
    <3>3. h[n + 1] = whole /\ h[n] = mid
      BY <2>5
    <3>4. \A i \in 0..(n - 1) : h[i] = f[i]
      BY <2>4
    <3> HIDE DEF h
    <3> QED
      BY <3>2, <3>3, <3>4
  <2>8. /\ Passes(r, reading, PromptOf(r), f[0])
        /\ \A i \in 1..n : Passes(r, queued[i], f[i - 1], f[i])
        /\ Passes(r, owners, f[n], whole)
        /\ \A i \in 0..n : Len(f[i]) <= Len(whole) /\ Start(whole, Len(f[i])) = f[i]
    BY <1>2, <1>3, <1>5 DEF Grows
  <2>9. Passes(r, owners, f[n - 1], mid) /\ Passes(r, queued[n], mid, whole)
    <3>1. Passes(r, queued[n], f[n - 1], f[n])
      BY <2>1, <2>8
    <3>2. CASE Drawn(r, owners)
      <4>1. ~Drawn(r, queued[n])
        <5>1. r \in Request /\ reason[r] = "" /\ n \in 1..Len(queued)
          BY <1>2, <2>1 DEF Running
        <5> QED
          BY <1>3, <3>2, <5>1, DueApart DEF Apart
      <4>2. f[n] = f[n - 1] /\ mid = whole
        BY <2>6, <3>1, <3>2, <4>1 DEF Passes
      <4>3. Passes(r, queued[n], whole, whole)
        BY <4>1 DEF Passes, Drawn
      <4> QED
        BY <2>8, <4>2, <4>3
    <3>3. CASE ~Drawn(r, owners)
      <4>1. f[n] = whole /\ mid = f[n - 1]
        BY <2>6, <2>8, <3>3 DEF Passes
      <4>2. Passes(r, owners, f[n - 1], f[n - 1])
        BY <3>3 DEF Passes, Drawn
      <4> QED
        BY <3>1, <4>1, <4>2
    <3> QED
      BY <3>2, <3>3
  <2>10. \A i \in 1..(n + 1) : Passes(r, queued'[i], g[i - 1], g[i])
    <3> SUFFICES ASSUME NEW i \in 1..(n + 1)
                 PROVE  Passes(r, queued'[i], g[i - 1], g[i])
      OBVIOUS
    <3>1. PICK k : k = i - 1
      OBVIOUS
    <3>2. CASE i = n + 1
      <4>1. k = n
        BY <2>1, <3>1, <3>2
      <4>2. Passes(r, queued'[i], g[k], g[i])
        BY <1>2, <2>7, <2>9, <3>2, <4>1
      <4> QED
        BY <3>1, <4>2
    <3>3. CASE i = n
      <4>1. k = n - 1 /\ g[k] = f[n - 1]
        BY <2>5, <2>7, <3>1, <3>3
      <4>2. Passes(r, queued'[i], g[k], g[i])
        BY <1>2, <2>7, <2>9, <3>3, <4>1
      <4> QED
        BY <3>1, <4>2
    <3>4. CASE i \in 1..(n - 1)
      <4>1. g[i - 1] = f[i - 1] /\ g[i] = f[i] /\ queued'[i] = queued[i] /\ i \in 1..n
        BY <1>2, <2>3, <2>7, <3>4
      <4> QED
        BY <2>8, <4>1
    <3> QED
      BY <2>2, <3>2, <3>3, <3>4
  <2>11. \A i \in 0..(n + 1) : Len(g[i]) <= Len(whole) /\ Start(whole, Len(g[i])) = g[i]
    <3>1. /\ Len(whole) <= Len(whole) /\ Start(whole, Len(whole)) = whole
          /\ Len(f[n - 1]) <= Len(whole) /\ Start(whole, Len(f[n - 1])) = f[n - 1]
      BY <2>1, <2>8, WholeStart
    <3>2. Len(mid) <= Len(whole) /\ Start(whole, Len(mid)) = mid
      BY <2>6, <3>1
    <3>3. \A i \in 0..(n - 1) : Len(g[i]) <= Len(whole) /\ Start(whole, Len(g[i])) = g[i]
      BY <2>4, <2>7, <2>8
    <3> QED
      BY <2>2, <2>7, <3>1, <3>2, <3>3
  <2>12. Passes(r, Due', g[n + 1], whole)
    BY <1>3, <2>7, NoPlaces DEF Passes, Drawn
  <2>13. Grows(r, g, whole)'
    <3>1. Passes(r, reading, PromptOf(r), g[0])'
      <4>1. PromptOf(r)' = PromptOf(r) /\ g[0] = f[0]
        BY <1>1, <2>5, <2>7 DEF PromptOf
      <4>2. Passes(r, reading', PromptOf(r)', g[0])
        BY <1>1, <2>8, <4>1
      <4> QED
        BY <4>2 DEF Passes, Drawn
    <3>2. \A i \in 1..Len(queued') : Passes(r, queued[i], g[i - 1], g[i])'
      BY <1>2, <2>10 DEF Passes, Drawn
    <3>3. Passes(r, Due, g[Len(queued)], whole)'
      BY <1>2, <2>12 DEF Passes, Drawn
    <3>4. \A i \in 0..Len(queued') : Len(g[i]) <= Len(whole) /\ Start(whole, Len(g[i])) = g[i]
      BY <1>2, <2>11
    <3> QED
      BY <3>1, <3>2, <3>3, <3>4 DEF Grows
  <2> QED
    BY <1>2, <2>7, <2>13
<1>6. Texts'
  <2>1. Onward
    BY DEF Onward
  <2> QED
    BY <1>1, <1>5, <2>1, TextsGrow DEF TextInv
<1> QED
  BY <1>4, <1>6 DEF TextInv

\* A draw is read, or passed over: the others of its pass are as they were.
LEMMA PassesTail ==
  ASSUME IInv, reading # <<>>, reading' = Tail(reading), NEW q, q # Head(reading).req,
         NEW before, NEW after, Passes(q, reading, before, after)
  PROVE  Passes(q, reading', before, after)
<1>1. PICK n \in Nat \ {0}, it \in Draw :
           /\ n = Len(reading) /\ it = Head(reading) /\ it = reading[1] /\ 1 \in 1..n
           /\ Len(reading') = n - 1
           /\ \A i \in 1..(n - 1) :
                i + 1 \in 1..n /\ i + 1 # 1 /\ reading'[i] = reading[i + 1]
           /\ \A i \in 1..n :
                i = 1 \/ \E k \in 1..(n - 1) : k + 1 = i /\ reading'[k] = reading[i]
  BY NextDraw
<1>2. ~Drawn(q, reading') => ~Drawn(q, reading)
  <2> SUFFICES ASSUME NEW i \in 1..n, reading[i].req = q
               PROVE  \E k \in 1..(n - 1) : reading'[k].req = q
    BY <1>1 DEF Drawn
  <2>1. i # 1
    BY <1>1
  <2> QED
    BY <1>1, <2>1
<1>3. ~Drawn(q, reading') => after = before
  BY <1>2 DEF Passes
<1>4. ASSUME NEW j \in 1..(n - 1), reading'[j].req = q
      PROVE  /\ after = Append(before, reading'[j].token)
             /\ Len(before) < MaxSeq =>
                  /\ reading'[j].text = before /\ reading'[j].at = Len(before)
                  /\ reading'[j].key = q
  <2>1. PICK k \in 1..n : reading'[j] = reading[k]
    BY <1>1
  <2>2. reading[k].req = q /\ k \in 1..Len(reading)
    BY <1>1, <1>4, <2>1
  <2>3. /\ after = Append(before, reading[k].token)
        /\ Len(before) < MaxSeq =>
             reading[k].text = before /\ reading[k].at = Len(before) /\ reading[k].key = q
    BY <2>2 DEF Passes
  <2> QED
    BY <2>1, <2>3
<1> QED
  BY <1>1, <1>3, <1>4 DEF Passes

\* Then the text of any other request grows as it did.
LEMMA GrowsOther ==
  ASSUME IInv, reading # <<>>, reading' = Tail(reading), queued' = queued, Due' = Due,
         NEW q, q # Head(reading).req, tokens'[q] = tokens[q], NEW f, NEW whole,
         Grows(q, f, whole)
  PROVE  Grows(q, f, whole)'
<1>1. PromptOf(q)' = PromptOf(q)
  BY DEF PromptOf
<1>2. Passes(q, reading', PromptOf(q), f[0])
  BY PassesTail DEF Grows
<1>3. Passes(q, reading, PromptOf(q), f[0])'
  BY <1>1, <1>2 DEF Passes, Drawn
<1>4. \A i \in 1..Len(queued') : Passes(q, queued'[i], f[i - 1], f[i])
  BY DEF Grows
<1>5. \A i \in 1..Len(queued') : Passes(q, queued[i], f[i - 1], f[i])'
  BY <1>4
<1>6. Passes(q, Due, f[Len(queued)], whole)'
  BY DEF Grows, Passes, Drawn
<1> QED
  BY <1>3, <1>5, <1>6 DEF Grows

\* The draw read is the next token of its request.
LEMMA GrowsOwn ==
  ASSUME IInv, reading # <<>>, reading' = Tail(reading), queued' = queued, Due' = Due,
         OncePerPass(reading), NEW it \in Draw, it = Head(reading),
         NEW r \in Request, r = it.req, NEW text \in Seq(Token),
         text = Append(tokens[r], it.token), tokens'[r] = text, NEW f, NEW whole,
         Grows(r, f, whole)
  PROVE  /\ Grows(r, f, whole)' /\ f[0] = Prompt[r] \o text
         /\ Len(PromptOf(r)) < MaxSeq =>
              it.text = PromptOf(r) /\ it.at = Len(PromptOf(r)) /\ it.key = r
<1>1. PICK n \in Nat \ {0} :
           /\ n = Len(reading) /\ it = reading[1] /\ 1 \in 1..n
           /\ Len(reading') = n - 1
           /\ \A i \in 1..(n - 1) :
                i + 1 \in 1..n /\ i + 1 # 1 /\ reading'[i] = reading[i + 1]
  BY NextDraw
<1>2. ~Drawn(r, reading')
  BY <1>1 DEF Drawn, OncePerPass
<1>3. /\ f[0] = Append(PromptOf(r), it.token)
      /\ Len(PromptOf(r)) < MaxSeq =>
              it.text = PromptOf(r) /\ it.at = Len(PromptOf(r)) /\ it.key = r
  <2>1. Passes(r, reading, PromptOf(r), f[0]) /\ 1 \in 1..Len(reading) /\ reading[1].req = r
    BY <1>1 DEF Grows
  <2> QED
    BY <1>1, <2>1 DEF Passes
<1>4. Prompt[r] \o text = Append(PromptOf(r), it.token)
  <2>1. PICK first \in Seq(Token), old \in Seq(Token), t \in Token :
          first = Prompt[r] /\ old = tokens[r] /\ t = it.token
    BY RowTexts DEF Draw
  <2>2. first \o Append(old, t) = Append(first \o old, t)
    BY LineParted
  <2> QED
    BY <2>1, <2>2 DEF PromptOf
<1>5. PromptOf(r)' = Prompt[r] \o text
  BY DEF PromptOf
<1>6. Passes(r, reading, PromptOf(r), f[0])'
  <2>1. f[0] = PromptOf(r)'
    BY <1>3, <1>4, <1>5
  <2>2. \A j \in 1..Len(reading') : reading'[j].req # r
    BY <1>2 DEF Drawn
  <2> QED
    BY <2>1, <2>2 DEF Passes
<1>7. \A i \in 1..Len(queued') : Passes(r, queued'[i], f[i - 1], f[i])
  BY DEF Grows
<1>8. \A i \in 1..Len(queued') : Passes(r, queued[i], f[i - 1], f[i])'
  BY <1>7
<1>9. Passes(r, Due, f[Len(queued)], whole)'
  BY DEF Grows, Passes, Drawn
<1>10. Grows(r, f, whole)'
  BY <1>6, <1>8, <1>9 DEF Grows
<1> QED
  BY <1>3, <1>4, <1>10

\* A draw of a request that has ended is passed over.
LEMMA SkipTokenTexts ==
  ASSUME IInv, IInv', ReadInv, TextInv, SkipToken
  PROVE  TextInv'
<1>1. /\ pc \in {"read", "growread"} /\ pc' = pc /\ reading # <<>> /\ reading' = Tail(reading)
      /\ reason[Head(reading).req] # "" /\ queued' = queued
      /\ UNCHANGED <<tokens, rows, filling, held, done, cache, devPos, devTok, devKey>>
      /\ UNCHANGED <<chunks, digestOf, placed>>
  BY DEF SkipToken, Reading, At, requestVars, rowVars, cellVars, localVars, poolVars
<1>2. Due' = Due
  BY <1>1 DEF Due
<1>3. PageInv'
  <2>1. pc # "sharing" /\ pc' # "sharing" /\ chunks = <<>>
    BY <1>1 DEF TextInv, PageInv, Pieces, Passing
  <2> QED
    BY <1>1, <2>1, PagesStay DEF TextInv
<1>4. ASSUME NEW r \in Running, NEW f \in [0..Len(queued) -> Seq(Token)],
             NEW whole \in Seq(Token) \ {<<>>}, Grows(r, f, whole)
      PROVE  \E g \in [0..Len(queued') -> Seq(Token)] : Grows(r, g, whole)'
  <2>1. r # Head(reading).req /\ tokens'[r] = tokens[r]
    BY <1>1 DEF Running
  <2>2. Grows(r, f, whole)'
    BY <1>1, <1>2, <1>4, <2>1, GrowsOther
  <2> QED
    BY <1>1, <2>2
<1>5. Onward
  BY DEF Onward
<1>6. Texts'
  BY <1>1, <1>4, <1>5, TextsGrow DEF TextInv
<1> QED
  BY <1>3, <1>6 DEF TextInv

\* A token is read, of a request that goes on or ends with it.
LEMMA ReadTokenTexts ==
  ASSUME IInv, IInv', ReadInv, AheadInv, TextInv, ReadToken
  PROVE  TextInv'
<1>1. /\ pc \in {"read", "growread"} /\ pc' = pc /\ reading # <<>> /\ reading' = Tail(reading)
      /\ queued' = queued
      /\ UNCHANGED <<cache, devPos, devTok, devKey, chunks, placed>>
  BY DEF ReadToken, Reading, At, cellVars, localVars
<1>2. Due' = Due /\ OncePerPass(reading)
  BY <1>1 DEF Due, ReadInv, DrawsInPlace
<1>3. chunks = <<>> /\ pc \notin Passing /\ pc' \notin Passing
  BY <1>1 DEF TextInv, PageInv, Pieces, Passing
<1>4. PICK it \in Draw, r \in Request, text \in Seq(Token) :
           /\ it = Head(reading) /\ r = it.req /\ text = Append(tokens[r], it.token)
           /\ r \in Rowed \ Range(filling) /\ reason[r] = ""
           /\ tokens' = [tokens EXCEPT ![r] = text]
           /\ IF reason'[r] # "" THEN Release(r, Prompt[r] \o text)
                                 ELSE UNCHANGED <<poolVars, rowVars>>
  BY TokenRead
<1>5. tokens'[r] = text /\ \A q \in Request \ {r} : tokens'[q] = tokens[q]
  BY <1>4 DEF IInv, RowTypes
<1>6. Onward
  BY DEF Onward
<1>7. ASSUME NEW q \in Request, NEW f, NEW whole, Grows(q, f, whole)
      PROVE  Grows(q, f, whole)' /\ (q = r => f[0] = Prompt[r] \o text)
  <2>1. /\ reading # <<>> /\ reading' = Tail(reading) /\ queued' = queued /\ Due' = Due
        /\ OncePerPass(reading)
        /\ it = Head(reading) /\ r = it.req /\ text = Append(tokens[r], it.token)
        /\ tokens'[r] = text
    BY <1>1, <1>2, <1>4, <1>5
  <2>2. CASE q = r
    <3>1. Grows(r, f, whole)
      BY <1>7, <2>2
    <3>2. Grows(r, f, whole)' /\ f[0] = Prompt[r] \o text
      BY <2>1, <3>1, GrowsOwn, ZenonT(120)
    <3> QED
      BY <2>2, <3>2
  <2>3. CASE q # r
    BY <1>1, <1>2, <1>4, <1>5, <1>7, <2>3, GrowsOther
  <2> QED
    BY <2>2, <2>3
<1>8. CASE Release(r, Prompt[r] \o text)
  <2>1. PICK long : long = Prompt[r] \o text
    OBVIOUS
  <2>2. PICK s \in Slot : s = SlotOf(r) /\ rows[s] = r /\ Filled(s)
    <3>1. r # None /\ SlotOf(r) \in Slot /\ rows[SlotOf(r)] = r
      BY <1>4, EngineAssumption, SlotOfRow DEF IInv
    <3> QED
      BY <1>4, <3>1 DEF Filled
  <2>3. PICK f \in [0..Len(queued) -> Seq(Token)], whole \in Seq(Token) \ {<<>>} :
           Grows(r, f, whole) /\ Stands(s, whole)
    BY <2>2 DEF TextInv, Texts
  <2>4. f[0] = long
    <3>1. f[0] = Prompt[r] \o text
      BY <1>7, <2>3
    <3> QED
      BY <2>1, <3>1
  <2>5. /\ long \in Seq(Token) /\ Len(long) > 0 /\ Len(long) <= MaxSeq
    <3>1. Len(PromptOf(r)) < MaxSeq
      BY <1>4 DEF AheadInv, Budgets, HasRoom
    <3>2. /\ Prompt[r] \in Seq(Token) /\ Prompt[r] # <<>> /\ tokens[r] \in Seq(Token)
          /\ it.token \in Token
      BY RowTexts DEF Draw
    <3>3. PICK first \in Seq(Token), old \in Seq(Token), t \in Token :
            first = Prompt[r] /\ first # <<>> /\ old = tokens[r] /\ t = it.token
      BY <3>2
    <3>4. PICK m \in Nat \ {0}, k \in Nat :
            m = Len(first) /\ k = Len(old) /\ Len(first \o Append(old, t)) = m + (k + 1)
      <4>1. first # <<>>
        BY <3>3
      <4>2. /\ Len(Append(old, t)) = Len(old) + 1
            /\ Len(first) \in Nat \ {0} /\ Len(old) \in Nat
            /\ Len(first \o Append(old, t)) = Len(first) + Len(Append(old, t))
        BY <4>1, TextGrows
      <4> QED
        BY <4>2
    <3>5. long = first \o Append(old, t)
      BY <1>4, <2>1, <3>3
    <3>6. Len(PromptOf(r)) = m + k /\ MaxSeq \in Nat
      BY <3>3, <3>4, BudgetNumbers
    <3>7. m + (k + 1) > 0 /\ m + (k + 1) <= MaxSeq
      <4>1. m + k < MaxSeq
        BY <3>1, <3>6
      <4>2. MaxSeq \in Nat
        BY <3>6
      <4> QED
        BY <4>1, <4>2
    <3>8. long \in Seq(Token)
      BY <3>5
    <3>9. Len(long) = m + (k + 1)
      BY <3>4, <3>5
    <3> QED
      BY <3>7, <3>8, <3>9
  <2>6. Len(long) <= Len(whole) /\ Start(whole, Len(long)) = long
    <3>1. 0 \in 0..Len(queued)
      BY DEF IInv, PassTypes
    <3> QED
      BY <2>3, <2>4, <3>1 DEF Grows
  <2>7. PICK n \in Nat :
           /\ n = Passed(r, long) /\ n <= Len(long)
           /\ \A i \in 0..(n - 1) : cache[PageAt(r, i)][i % PageSize] = Start(long, i + 1)
    <3>1. r \in Rowed /\ r \notin Range(filling)
      BY <1>4
    <3>2. \E w \in Seq(Token) \ {<<>>} :
             /\ Stands(SlotOf(r), w)
             /\ Len(long) <= Len(w) /\ Start(w, Len(long)) = long
      BY <2>2, <2>3, <2>6
    <3> QED
      BY <1>3, <2>5, <3>1, <3>2, PassedHolds DEF TextInv
  <2>8. Release(r, long) /\ r \in Rowed
    BY <1>4, <1>8, <2>1
  <2>9. /\ PageInv'
        /\ \A q \in Request \ {r} : held'[q] = held[q] /\ done'[q] = done[q]
    BY <1>1, <1>3, <1>5, <2>5, <2>7, <2>8, ReleasePages DEF TextInv
  <2>10. Texts'
    <3> SUFFICES ASSUME NEW t \in Slot, Filled(t)'
                 PROVE  \E g \in [0..Len(queued') -> Seq(Token)], w \in Seq(Token) \ {<<>>} :
                          Grows(rows[t], g, w)' /\ Stands(t, w)'
      BY DEF Texts
    <3>1. /\ Filled(t) /\ rows'[t] = rows[t] /\ rows[t] # r /\ rows[t] \in Request
          /\ \A w \in Seq(Token) \ {<<>>} : Stands(t, w) => Stands(t, w)'
      BY <1>1, <1>6, <2>8, <2>9, OthersStand
    <3>2. PICK g \in [0..Len(queued) -> Seq(Token)], w \in Seq(Token) \ {<<>>} :
             Grows(rows[t], g, w) /\ Stands(t, w)
      BY <3>1 DEF TextInv, Texts
    <3>3. PICK q \in Request : q = rows[t] /\ q = rows'[t]
      BY <3>1
    <3>4. Grows(q, g, w)'
      BY <1>7, <3>2, <3>3
    <3>5. Grows(rows[t], g, w)'
      BY <3>3, <3>4 DEF Grows, PromptOf
    <3> QED
      BY <1>1, <3>1, <3>2, <3>5
  <2> QED
    BY <2>9, <2>10 DEF TextInv
<1>9. CASE UNCHANGED <<poolVars, rowVars>>
  <2>1. UNCHANGED <<digestOf, rows, filling, held, done>>
    BY <1>9 DEF poolVars, rowVars
  <2>2. PiecesSame
    BY <1>1, <1>3, NoPlaces DEF PiecesSame
  <2>3. KeptWill'
    BY <1>1, <2>1, <2>2, KeptStay DEF TextInv, PageInv
  <2>4. Fillings'
    <3>1. placed = <<>> /\ Range(placed') = {}
      <4>1. placed = <<>>
        BY <1>1 DEF IInv, Placement, Placing
      <4> QED
        BY <1>1, <4>1, EmptyLine
    <3>2. \A q \in Range(filling) : q # r /\ q \in Request
      <4>1. filling \in Seq(Request)
        BY DEF IInv, RowTypes
      <4> QED
        BY <1>4, <4>1, RangeOfLine
    <3>3. \A q \in Range(filling) : PromptOf(q)' = PromptOf(q)
      BY <1>5, <3>2 DEF PromptOf
    <3>4. \A q, i : PageAt(q, i)' = PageAt(q, i)
      BY <2>1 DEF PageAt
    <3>5. Range(filling') = Range(filling)
      BY <2>1
    <3> QED
      BY <1>1, <2>1, <2>2, <3>1, <3>3, <3>4, <3>5, FillingsStay DEF TextInv, PageInv
  <2>5. Pieces'
    BY <1>1, <1>3, <2>1 DEF TextInv, PageInv, Pieces, HasPiece
  <2>6. FoundHolds'
    BY <1>1 DEF FoundHolds
  <2>7. Private' /\ SharedKept'
    BY <2>1 DEF TextInv, PageInv, Private, SharedKept
  <2>8. InTurn'
    <3>1. 1..Len(chunks') = {}
      BY <1>1, <1>3, NoPlaces
    <3> QED
      BY <3>1 DEF InTurn
  <2>9. Texts'
    <3>1. \A q \in Running : \A f \in [0..Len(queued) -> Seq(Token)] :
            \A whole \in Seq(Token) \ {<<>>} : Grows(q, f, whole) =>
              \E g \in [0..Len(queued') -> Seq(Token)] : Grows(q, g, whole)'
      BY <1>1, <1>7 DEF Running
    <3> QED
      BY <1>1, <1>6, <2>1, <3>1, TextsGrow DEF TextInv
  <2> QED
    BY <2>3, <2>4, <2>5, <2>6, <2>7, <2>8, <2>9 DEF TextInv, PageInv
<1> QED
  BY <1>4, <1>8, <1>9

\* The rows whose prompts pass in this step.
Parked == {SlotOf(chunks[i].req) : i \in DOMAIN chunks}

\* A text is never longer than what has passed of it.
LEMMA DoneWithin ==
  ASSUME IInv, AheadInv, NEW r \in Range(filling)
  PROVE  r \in Request /\ done[r] \in Nat /\ done[r] <= MaxSeq - 1
<1>1. r \in Request /\ reason[r] = ""
  <2>1. filling \in Seq(Request)
    BY DEF IInv, RowTypes
  <2>2. r \in Request
    BY <2>1, RangeOfLine
  <2>3. reason[r] = ""
    BY DEF IInv, Admission
  <2> QED
    BY <2>2, <2>3
<1>2. Len(PromptOf(r)) < MaxSeq /\ Len(PromptOf(r)) \in Nat
  BY <1>1, TextOfRequest DEF AheadInv, Budgets, HasRoom, IInv
<1>3. done[r] <= Len(PromptOf(r)) /\ done[r] \in Nat
  BY <1>1 DEF IInv, FillingHold, RowTypes
<1>4. MaxSeq \in Nat
  BY EngineAssumption
<1>5. \A a, b, c \in Nat : a <= b /\ b < c => a <= c - 1
  OBVIOUS
<1>6. done[r] <= MaxSeq - 1
  BY <1>2, <1>3, <1>4, <1>5, Zenon
<1> QED
  BY <1>1, <1>3, <1>6

\* A row steps past what has passed of its text: where its text stands if it is filled, at
\* the last position if it is not.
LEMMA StepPast ==
  ASSUME IInv, PiecesApart, AheadInv, TextInv, pc \in {"mix", "decode"},
         NEW s \in Slot, rows[s] # None
  PROVE  /\ StepAt(s, Parked) \in Nat /\ done[rows[s]] <= StepAt(s, Parked)
         /\ Filled(s) => StepAt(s, Parked) = devPos[s] /\ s \notin Parked
         /\ ~Filled(s) => StepAt(s, Parked) = MaxSeq - 1
<1>1. MaxSeq \in Nat \ {0} /\ devPos[s] \in Nat
  BY EngineAssumption DEF IInv, DeviceTypes
<1>2. /\ chunks \in Seq(Piece) /\ DOMAIN chunks = 1..Len(chunks)
      /\ placed = <<>> /\ Range(placed) = {}
  <2>1. chunks \in Seq(Piece) /\ placed = <<>>
    BY DEF IInv, PassTypes, Placement, Placing
  <2> QED
    BY <2>1, EmptyLine
<1>3. ASSUME NEW i \in 1..Len(chunks)
      PROVE  chunks[i].req \in Range(filling) /\ rows[SlotOf(chunks[i].req)] = chunks[i].req
  <2>1. pc \in Passing
    <3>1. chunks # <<>>
      BY <1>3, NoPlaces
    <3> QED
      BY <3>1 DEF TextInv, PageInv, Pieces
  <2>2. chunks[i].req \in Range(filling)
    BY <1>2, <2>1 DEF PiecesApart
  <2> QED
    BY <2>2, SlotOfRow DEF IInv, Admission
<1>4. ASSUME Filled(s)
      PROVE  s \notin Parked /\ StepAt(s, Parked) = devPos[s]
  <2>1. s \notin Parked
    BY <1>2, <1>3, <1>4 DEF Parked, Filled
  <2> QED
    BY <2>1 DEF StepAt
<1>5. ASSUME ~Filled(s)
      PROVE  StepAt(s, Parked) = MaxSeq - 1 /\ rows[s] \in Range(filling)
  <2>1. rows[s] \in Range(filling)
    BY <1>5 DEF Filled
  <2>2. CASE s \in Parked
    BY <2>1, <2>2 DEF StepAt
  <2>3. CASE s \notin Parked
    <3>1. ~HasPiece(rows[s])
      <4> SUFFICES ASSUME NEW i \in 1..Len(chunks), chunks[i].req = rows[s]
                   PROVE  FALSE
        BY DEF HasPiece
      <4>1. rows[SlotOf(rows[s])] = rows[s] /\ SlotOf(rows[s]) \in Slot
        BY <2>1, SlotOfRow DEF IInv, Admission
      <4>2. SlotOf(rows[s]) = s
        BY <4>1 DEF IInv, Admission
      <4>3. s \in Parked
        BY <1>2, <4>2 DEF Parked
      <4> QED
        BY <2>3, <4>3
    <3>2. devPos[s] = MaxSeq - 1
      BY <2>1, <3>1 DEF TextInv, PageInv, Pieces
    <3> QED
      BY <2>1, <2>3, <3>2 DEF StepAt
  <2> QED
    BY <2>2, <2>3
<1>6. CASE Filled(s)
  <2>1. PICK whole : Stands(s, whole) /\ whole \in Seq(Token)
    BY <1>6 DEF TextInv, Texts
  <2>2. done[rows[s]] <= Bounded(whole) /\ Bounded(whole) <= devPos[s]
    BY <2>1 DEF Stands
  <2>3. done[rows[s]] \in Nat /\ Bounded(whole) \in Int
    <3>1. rows[s] \in Request
      BY DEF IInv, RowTypes
    <3>2. done[rows[s]] \in Nat
      BY <3>1 DEF IInv, RowTypes
    <3>3. Len(whole) \in Nat
      BY <2>1
    <3> QED
      BY <1>1, <3>2, <3>3 DEF Bounded, Smaller
  <2>4. done[rows[s]] <= devPos[s]
    BY <1>1, <2>2, <2>3
  <2> QED
    BY <1>1, <1>4, <1>6, <2>4
<1>7. CASE ~Filled(s)
  <2>1. done[rows[s]] <= MaxSeq - 1
    BY <1>5, <1>7, DoneWithin
  <2>2. MaxSeq - 1 \in Nat
    BY <1>1
  <2> QED
    BY <1>5, <1>7, <2>1, <2>2
<1> QED
  BY <1>6, <1>7

\* The page a row steps on, past the page of no use, is its own at that position.
LEMMA StepPage ==
  ASSUME IInv, PiecesApart, AheadInv, PlaceInv, TextInv, pc \in {"mix", "decode"},
         NEW s \in Slot, PlaceOf(s, StepAt(s, Parked)) # SinkPage
  PROVE  /\ rows[s] # None /\ rows[s] \in Request
         /\ StepAt(s, Parked) \div PageSize + 1 \in 1..Len(held[rows[s]])
         /\ PlaceOf(s, StepAt(s, Parked)) = PageAt(rows[s], StepAt(s, Parked))
<1>1. PICK w : w = StepAt(s, Parked)
  OBVIOUS
<1>2. w \in Nat
  BY <1>1, EngineAssumption DEF StepAt, IInv, DeviceTypes
<1>3. w \div PageSize \in Nat
  BY <1>2, EngineAssumption, Division
<1>4. w \div PageSize < Len(assigned[s]) /\ PlaceOf(s, w) = assigned[s][w \div PageSize + 1]
  BY <1>1 DEF PlaceOf
<1>5. Len(<<>>) = 0
  OBVIOUS
<1>6. assigned[s] # <<>>
  BY <1>3, <1>4, <1>5
<1>7. rows[s] # None /\ assigned[s] = held[rows[s]]
  BY <1>6 DEF PlaceInv, Tables
<1>8. rows[s] \in Request
  BY <1>7 DEF IInv, RowTypes
<1>9. Len(held[rows[s]]) \in Nat
  BY <1>8, HeldPages
<1>10. w \div PageSize + 1 \in 1..Len(held[rows[s]])
  BY <1>3, <1>4, <1>7, <1>9
<1>11. PlaceOf(s, w) = PageAt(rows[s], w)
  BY <1>4, <1>7 DEF PageAt
<1> QED
  BY <1>1, <1>7, <1>8, <1>10, <1>11

\* A step of the rows writes no other cell of a request than those its row steps on, and
\* none of a page that is kept.
LEMMA StepKeeps ==
  ASSUME IInv, PiecesApart, AheadInv, PlaceInv, TextInv, pc \in {"mix", "decode"},
         NEW stepping, NEW draw, DeviceStep(stepping, Parked, draw), NEW p \in Page, NEW o \in Offset,
         \/ p \in DOMAIN digestOf
         \/ \E r \in Request, i \in Nat :
              /\ i \div PageSize + 1 \in 1..Len(held[r]) /\ p = PageAt(r, i) /\ o = i % PageSize
              /\ \A s \in Slot : rows[s] = r => i # StepAt(s, Parked)
  PROVE  cache'[p][o] = cache[p][o]
<1>1. cache'[p][o] = IF p = SinkPage \/ Writers(p, o, Parked) = {} THEN cache[p][o]
                     ELSE StepText(CHOOSE s \in Writers(p, o, Parked) : TRUE, Parked)
  BY DEF DeviceStep
<1>2. ASSUME p # SinkPage, NEW s \in Writers(p, o, Parked)
      PROVE  FALSE
  <2>1. /\ s \in Slot /\ PlaceOf(s, StepAt(s, Parked)) = p /\ StepAt(s, Parked) % PageSize = o
    BY <1>2 DEF Writers
  <2>2. PICK w : w = StepAt(s, Parked)
    OBVIOUS
  <2>3. PICK q \in Request : q = rows[s]
    BY <1>2, <2>1, StepPage
  <2>4. /\ rows[s] # None /\ w \div PageSize + 1 \in 1..Len(held[q]) /\ p = PageAt(q, w)
    BY <1>2, <2>1, <2>2, <2>3, StepPage
  <2>5. w \in Nat /\ done[q] <= w
    BY <2>1, <2>2, <2>3, <2>4, StepPast
  <2>6. /\ p \in Range(held[q]) /\ p \notin DOMAIN digestOf
        /\ \A t \in Request \ {q} : p \notin Range(held[t])
    BY <2>4, <2>5, PastDone DEF TextInv, PageInv
  <2>7. PICK r \in Request, i \in Nat :
          /\ i \div PageSize + 1 \in 1..Len(held[r]) /\ p = PageAt(r, i) /\ o = i % PageSize
          /\ \A t \in Slot : rows[t] = r => i # StepAt(t, Parked)
    BY <2>6
  <2>8. p \in Range(held[r])
    BY <2>7, HeldPages, RangeOfLine DEF PageAt
  <2>9. r = q
    BY <2>6, <2>8
  <2>10. i = w
    BY <2>1, <2>2, <2>4, <2>5, <2>7, <2>9, SameCell
  <2> QED
    BY <2>1, <2>2, <2>3, <2>7, <2>9, <2>10
<1> QED
  BY <1>1, <1>2

\* The positions a text fills.
LEMMA BoundedNumbers ==
  ASSUME NEW text \in Seq(Token) \ {<<>>}
  PROVE  /\ Bounded(text) \in Nat /\ Bounded(text) <= MaxSeq - 1 /\ Bounded(text) < Len(text)
         /\ Len(text) <= MaxSeq => Bounded(text) = Len(text) - 1
         /\ Len(text) >= MaxSeq => Bounded(text) = MaxSeq - 1
<1>1. PICK n \in Nat \ {0} : n = Len(text)
  <2>1. Len(text) \in Nat \ {0}
    OBVIOUS
  <2> QED
    BY <2>1
<1>2. MaxSeq \in Nat \ {0}
  BY EngineAssumption
<1> QED
  BY <1>1, <1>2 DEF Bounded, Smaller

\* What a row sees is the start of the text its pages hold.
LEMMA SeenText ==
  ASSUME IInv, PlaceInv, NEW s \in Slot, rows[s] # None, NEW text \in Seq(Token),
         NEW n \in 0..Len(text), n <= Len(held[rows[s]]) * PageSize, Holds(rows[s], n, text)
  PROVE  Seen(s, n) = Start(text, n)
<1>1. PICK r \in Request : r = rows[s]
  BY RowRuns
<1>2. PICK k \in Nat : k = Len(held[r]) /\ n <= k * PageSize /\ assigned[s] = held[r]
  BY <1>1, HeldPages DEF PlaceInv, Tables
<1>3. ASSUME NEW i \in 0..(n - 1)
      PROVE  Cell(s, i) = Start(text, i + 1)
  <2>1. i \in Nat /\ i < n /\ n \in Nat
    OBVIOUS
  <2>2. k * PageSize \in Nat
    BY <1>2, EngineAssumption
  <2>3. i < k * PageSize
    BY <1>2, <2>1, <2>2
  <2>4. i \div PageSize + 1 \in 1..k /\ i \div PageSize \in Nat
    BY <1>2, <2>1, <2>3, PageIndex, EngineAssumption, Division
  <2>5. i \div PageSize < k
    BY <2>4
  <2>6. PlaceOf(s, i) = PageAt(r, i)
    BY <1>2, <2>5 DEF PlaceOf, PageAt
  <2>7. cache[PageAt(r, i)][i % PageSize] = Start(text, i + 1)
    BY <1>1 DEF Holds
  <2> QED
    BY <2>6, <2>7 DEF Cell
<1>4. CASE n = 0
  <2>1. Start(text, 0) = <<>>
    BY DEF Start
  <2> QED
    BY <1>4, <2>1 DEF Seen
<1>5. CASE n # 0
  <2>1. n - 1 \in 0..(n - 1) /\ n - 1 + 1 = n /\ Len(text) \in Nat
    BY <1>5
  <2>2. Cell(s, n - 1) = Start(text, n) /\ Start(text, n) \in Seq(Token)
    BY <1>3, <2>1, StartOfStart
  <2>3. Cell(s, n - 1) # Junk
    BY <2>2, EngineAssumption
  <2>4. ASSUME NEW i \in 0..(n - 1)
        PROVE  Cell(s, i) = SubSeq(Cell(s, n - 1), 1, i + 1)
    <3>1. i + 1 \in 0..n
      BY <2>1
    <3>2. Start(Start(text, n), i + 1) = Start(text, i + 1)
      BY <3>1, <2>1, StartOfStart
    <3>3. Cell(s, i) = Start(text, i + 1)
      BY <1>3
    <3> QED
      BY <2>2, <3>2, <3>3 DEF Start
  <2> QED
    BY <1>5, <2>2, <2>3, <2>4 DEF Seen
<1> QED
  BY <1>4, <1>5

\* All the slots of a set are in its order.
LEMMA AllInOrder ==
  ASSUME NEW slots \in SUBSET Slot, NEW s \in slots
  PROVE  \E i \in 1..Len(InOrder(slots)) : InOrder(slots)[i] = s
<1>1. /\ InOrder(slots) \in Seq(slots) /\ Len(InOrder(slots)) = Cardinality(slots)
      /\ Once(InOrder(slots))
  BY InOrderSlots
<1>2. IsFiniteSet(slots)
  <2>1. NSlots \in Nat
    BY EngineAssumption
  <2>2. IsFiniteSet(Slot)
    BY <2>1, FS_Interval DEF Slot
  <2> QED
    BY <2>2, FS_Subset
<1>3. Range(InOrder(slots)) \subseteq slots /\ Cardinality(Range(InOrder(slots))) = Cardinality(slots)
  BY <1>1, OnceCounts, RangeOfLine
<1>4. Range(InOrder(slots)) = slots
  <2>1. PICK line \in SUBSET slots : line = Range(InOrder(slots)) /\ Cardinality(line) = Cardinality(slots)
    BY <1>3
  <2>2. slots = line
    BY <1>2, <2>1, FS_Subset
  <2> QED
    BY <2>1, <2>2
<1> QED
  BY <1>1, <1>4, RangeOfLine

\* The pass of a step has the draw of each row that decodes.
LEMMA StepPass ==
  ASSUME IInv, NEW parked, NEW draw \in [Decoding -> Token]
  PROVE  LET pass == Stepped(Decoding, parked, draw)
         IN  /\ pass \in Seq(Draw)
             /\ \A s \in Slot : rows[s] # None => (Drawn(rows[s], pass) <=> s \in Decoding)
             /\ \A s \in Decoding : \A j \in 1..Len(pass) : pass[j].req = rows[s] =>
                  /\ pass[j].token = draw[s] /\ pass[j].text = StepText(s, parked)
                  /\ pass[j].at = devPos[s] + 1 /\ pass[j].key = devKey[s]
<1> DEFINE pass  == Stepped(Decoding, parked, draw)
           order == InOrder(Decoding)
           it(s) == [slot |-> s, req |-> rows[s], token |-> draw[s], key |-> devKey[s],
                     text |-> StepText(s, parked), at |-> devPos[s] + 1, prompt |-> FALSE]
<1>1. Decoding \in SUBSET Slot /\ \A s \in Decoding : rows[s] # None
  BY DEF Decoding
<1>2. /\ order \in Seq(Decoding)
      /\ \A s \in Decoding : \E i \in 1..Len(order) : order[i] = s
  BY <1>1, InOrderSlots, AllInOrder
<1>3. DOMAIN order = 1..Len(order) /\ Len(order) \in Nat
      /\ \A i \in 1..Len(order) : order[i] \in Decoding
  BY <1>2
<1>4. pass = [i \in 1..Len(order) |-> it(order[i])]
  BY <1>3 DEF Stepped
<1> HIDE DEF order
<1>5. ASSUME NEW s \in Decoding
      PROVE  /\ it(s) \in Draw /\ it(s).req = rows[s]
             /\ it(s).token = draw[s] /\ it(s).text = StepText(s, parked)
             /\ it(s).at = devPos[s] + 1 /\ it(s).key = devKey[s]
  <2>1. StepText(s, parked) \in Text /\ s \in Slot
    BY <1>1, StepTextIsText DEF IInv
  <2>2. /\ rows[s] \in Request /\ draw[s] \in Token /\ devKey[s] \in Request \cup {None}
        /\ devPos[s] \in Nat
    BY <1>1, <2>1, RowRuns DEF IInv, DeviceTypes
  <2> QED
    BY <2>1, <2>2 DEF Draw
<1> HIDE DEF it, pass
<1>6. pass \in Seq(Draw) /\ Len(pass) = Len(order)
  <2>1. \A s \in Decoding : it(s) \in Draw
    BY <1>5
  <2> QED
    BY <2>1, <1>3, <1>4
<1>7. \A i \in 1..Len(pass) : order[i] \in Decoding /\ pass[i] = it(order[i])
  BY <1>3, <1>4, <1>6
<1>8. ASSUME NEW s \in Slot, rows[s] # None, NEW i \in 1..Len(pass), pass[i].req = rows[s]
      PROVE  order[i] = s
  <2>1. rows[order[i]] = rows[s] /\ order[i] \in Slot
    BY <1>1, <1>5, <1>7, <1>8
  <2> QED
    BY <1>8, <2>1 DEF IInv, Admission
<1>9. ASSUME NEW s \in Slot, rows[s] # None
      PROVE  Drawn(rows[s], pass) <=> s \in Decoding
  <2>1. Drawn(rows[s], pass) => s \in Decoding
    BY <1>7, <1>8, <1>9 DEF Drawn
  <2>2. ASSUME s \in Decoding
        PROVE  Drawn(rows[s], pass)
    <3>1. PICK i \in 1..Len(pass) : order[i] = s
      BY <1>2, <1>6, <2>2 DEF order
    <3>2. pass[i].req = rows[s]
      BY <1>5, <1>7, <3>1
    <3> QED
      BY <3>2 DEF Drawn
  <2> QED
    BY <2>1, <2>2
<1>10. ASSUME NEW s \in Decoding, NEW j \in 1..Len(pass), pass[j].req = rows[s]
       PROVE  /\ pass[j].token = draw[s] /\ pass[j].text = StepText(s, parked)
              /\ pass[j].at = devPos[s] + 1 /\ pass[j].key = devKey[s]
  <2>1. order[j] = s
    BY <1>1, <1>8, <1>10
  <2> QED
    BY <2>1, <1>5, <1>7
<1> QED
  BY <1>6, <1>9, <1>10 DEF pass

\* A text one token longer starts with the text.
LEMMA OneTokenMore ==
  ASSUME NEW text \in Seq(Token), NEW t \in Token
  PROVE  /\ Append(text, t) \in Seq(Token) \ {<<>>} /\ Len(Append(text, t)) = Len(text) + 1
         /\ Append(text, t)[Len(text) + 1] = t
         /\ \A m \in 0..Len(text) : Start(Append(text, t), m) = Start(text, m)
<1>1. PICK more : more = Append(text, t)
  OBVIOUS
<1>2. PICK n \in Nat : n = Len(text)
  OBVIOUS
<1>3. /\ more \in Seq(Token) /\ Len(more) = n + 1 /\ more[n + 1] = t
      /\ \A i \in 1..n : more[i] = text[i]
  BY <1>1, <1>2
<1>4. ASSUME NEW m \in 0..n
      PROVE  Start(more, m) = Start(text, m)
  <2>1. \A i \in 1..m : i \in 1..n
    OBVIOUS
  <2>2. SubSeq(more, 1, m) = [i \in 1..m |-> more[i]] /\ SubSeq(text, 1, m) = [i \in 1..m |-> text[i]]
    BY <1>2, <1>3
  <2> QED
    BY <1>3, <2>1, <2>2 DEF Start
<1>5. more # <<>>
  BY <1>3
<1> QED
  BY <1>1, <1>2, <1>3, <1>4, <1>5

\* A row that steps, and whose text fits in it, computes from the whole of that text.
LEMMA OwnStep ==
  ASSUME IInv, PiecesApart, AheadInv, PlaceInv, TextInv, pc \in {"mix", "decode"},
         NEW s \in Slot, Filled(s), NEW whole \in Seq(Token) \ {<<>>}, Stands(s, whole),
         StepsOn(s), Len(whole) <= MaxSeq
  PROVE  /\ devPos[s] = Len(whole) - 1 /\ StepAt(s, Parked) = Len(whole) - 1
         /\ StepText(s, Parked) = whole
<1>1. PICK n \in Nat \ {0} : n = Len(whole)
  <2>1. Len(whole) \in Nat \ {0}
    OBVIOUS
  <2> QED
    BY <2>1
<1>2. devPos[s] = n - 1 /\ devTok[s] = whole[n]
  BY <1>1 DEF Stands
<1>3. StepAt(s, Parked) = n - 1
  BY <1>2, StepPast DEF Filled
<1>4. Bounded(whole) = n - 1
  BY <1>1, BoundedNumbers
<1>5. n - 1 \in 0..Len(whole) /\ n - 1 \in Nat
  BY <1>1
<1>6. n - 1 <= Len(held[rows[s]]) * PageSize /\ Holds(rows[s], n - 1, whole)
  BY <1>4 DEF Stands
<1>7. Seen(s, n - 1) = Start(whole, n - 1)
  BY <1>5, <1>6, SeenText DEF Filled
<1>8. Start(whole, n - 1) \in Seq(Token) /\ whole[n] \in Token
  BY <1>1, <1>5, StartOfStart
<1>9. Start(whole, n - 1) # Junk /\ Junk \notin Range(<<whole[n]>>)
  <2>1. Start(whole, n - 1) # Junk /\ whole[n] # Junk
    BY <1>8, EngineAssumption
  <2>2. Range(<<whole[n]>>) = {whole[n]}
    BY DEF Range
  <2> QED
    BY <2>1, <2>2
<1>10. Start(whole, n - 1) \o <<whole[n]>> = whole
  BY <1>1 DEF Start
<1>11. StepText(s, Parked) = Extend(Start(whole, n - 1), <<whole[n]>>)
  BY <1>2, <1>3, <1>7 DEF StepText
<1>12. StepText(s, Parked) = whole
  BY <1>9, <1>10, <1>11 DEF Extend
<1> QED
  BY <1>1, <1>2, <1>3, <1>12

\* The rows' step leaves a filled row's text in its pages.
LEMMA HoldsOn ==
  ASSUME IInv, PiecesApart, AheadInv, PlaceInv, TextInv, pc \in {"mix", "decode"},
         NEW stepping, NEW draw, DeviceStep(stepping, Parked, draw),
         NEW s \in Slot, Filled(s), NEW whole \in Seq(Token) \ {<<>>}, Stands(s, whole),
         NEW i \in 0..(Bounded(whole) - 1)
  PROVE  cache'[PageAt(rows[s], i)][i % PageSize] = cache[PageAt(rows[s], i)][i % PageSize]
<1>1. PICK r \in Request : r = rows[s] /\ r # None
  BY RowRuns DEF Filled
<1>2. /\ i \in Nat /\ i \div PageSize + 1 \in 1..Len(held[r])
      /\ PageAt(r, i) \in Range(held[r]) /\ i % PageSize \in Offset
  BY <1>1, RowPages
<1>3. PageAt(r, i) \in Page
  BY <1>2, HeldPages
<1>4. \A t \in Slot : rows[t] = r => t = s
  BY <1>1 DEF IInv, Admission
<1>5. i # StepAt(s, Parked)
  <2>1. StepAt(s, Parked) = devPos[s]
    BY StepPast DEF Filled
  <2>2. Bounded(whole) <= devPos[s] /\ devPos[s] \in Nat /\ Bounded(whole) \in Nat
    BY BoundedNumbers DEF Stands, IInv, DeviceTypes
  <2> QED
    BY <2>1, <2>2
<1>6. \A t \in Slot : rows[t] = r => i # StepAt(t, Parked)
  BY <1>4, <1>5
<1>7. cache'[PageAt(r, i)][i % PageSize] = cache[PageAt(r, i)][i % PageSize]
  BY <1>2, <1>3, <1>6, StepKeeps
<1> QED
  BY <1>1, <1>7

\* A filled row's position is past its text after a step as before.
LEMMA PastOn ==
  ASSUME IInv, PlaceInv, NEW stepping, NEW parked, NEW draw, DeviceStep(stepping, parked, draw),
         NEW s \in Slot, Filled(s), NEW whole \in Seq(Token) \ {<<>>}, Stands(s, whole)
  PROVE  Bounded(whole) <= devPos'[s] /\ devPos'[s] \in Nat
<1>1. devPos'[s] = IF assigned[s] = <<>> THEN 0 ELSE Smaller(devPos[s] + 1, MaxSeq - 1)
  BY DEF DeviceStep
<1>2. /\ Bounded(whole) <= devPos[s] /\ devPos[s] \in Nat
      /\ Bounded(whole) \in Nat /\ Bounded(whole) <= MaxSeq - 1
      /\ MaxSeq \in Nat \ {0}
  BY BoundedNumbers, EngineAssumption DEF Stands, IInv, DeviceTypes
<1>3. CASE assigned[s] = <<>>
  <2>1. Bounded(whole) <= Len(<<>>) * PageSize
    BY <1>3 DEF Stands, PlaceInv, Tables, Filled
  <2>2. Len(<<>>) * PageSize = 0
    <3>1. PageSize \in Nat
      BY EngineAssumption
    <3> QED
      BY <3>1
  <2>3. Bounded(whole) <= 0
    BY <2>1, <2>2
  <2>4. devPos'[s] = 0
    BY <1>1, <1>3
  <2> QED
    BY <2>3, <2>4
<1>4. CASE assigned[s] # <<>>
  <2>1. devPos'[s] = Smaller(devPos[s] + 1, MaxSeq - 1)
    BY <1>1, <1>4
  <2> QED
    BY <1>2, <2>1 DEF Smaller
<1> QED
  BY <1>3, <1>4

\* A row that steps writes the cell of its text's last token with its whole text.
LEMMA OwnCell ==
  ASSUME IInv, ReadInv, PiecesApart, AheadInv, PlaceInv, TextInv, pc \in {"mix", "decode"},
         NEW stepping, NEW draw, DeviceStep(stepping, Parked, draw),
         NEW s \in Decoding, Filled(s), NEW whole \in Seq(Token) \ {<<>>}, Stands(s, whole),
         NEW n \in Nat \ {0}, n = Len(whole), n <= MaxSeq
  PROVE  /\ n <= Len(held[rows[s]]) * PageSize
         /\ cache'[PageAt(rows[s], n - 1)][(n - 1) % PageSize] = whole
<1>1. s \in Slot
  BY DEF Decoding
<1>2. PICK r \in Request : r = rows[s] /\ r # None
  BY <1>1, RowRuns DEF Filled
<1>3. StepsOn(s)
  BY <1>1, DecodingStepsOn
<1>4. /\ devPos[s] = n - 1 /\ StepAt(s, Parked) = n - 1 /\ StepText(s, Parked) = whole
  BY <1>1, <1>3, OwnStep
<1>5. written[s] = n - 1 /\ HasPage(s) /\ assigned[s] = held[r]
  BY <1>1, <1>2, <1>3, <1>4 DEF PlaceInv, Agree, PageReady, Stepping, Tables
<1>6. PICK m \in Nat : m = n - 1
  OBVIOUS
<1>7. PICK k \in Nat : k = Len(held[r])
  BY HeldPages
<1>8. m \div PageSize < k /\ m \div PageSize \in Nat
  BY <1>2, <1>5, <1>6, <1>7, EngineAssumption, Division DEF HasPage
<1>9. m \div PageSize + 1 \in 1..k /\ m % PageSize \in Offset
  <2>1. \A d \in Nat : d < k => d + 1 \in 1..k
    OBVIOUS
  <2>2. m % PageSize \in Offset
    BY PageEnd
  <2> QED
    BY <1>8, <2>1, <2>2
<1>10. n <= k * PageSize
  <2>1. /\ m \div PageSize + 1 \in Nat /\ (m \div PageSize + 1) * PageSize \in Nat
        /\ m < (m \div PageSize + 1) * PageSize
    BY PageEnd
  <2>2. PICK d \in Nat : d = m \div PageSize + 1
    BY <2>1
  <2>3. d <= k
    BY <1>8, <2>2
  <2>4. d * PageSize <= k * PageSize /\ k * PageSize \in Nat
    BY <2>3, EngineAssumption, Multiples
  <2>5. m < d * PageSize /\ d * PageSize \in Nat
    BY <2>1, <2>2
  <2> QED
    BY <1>6, <2>4, <2>5
<1>11. PageAt(r, m) \in Range(held[r]) /\ PageAt(r, m) \in Usable /\ PageAt(r, m) = PlaceOf(s, m)
  <2>1. held[r] \in Seq(Usable)
    BY HeldPages
  <2> QED
    BY <1>5, <1>7, <1>8, <1>9, <2>1, RangeOfLine DEF PageAt, PlaceOf
<1>12. PageAt(r, m) # SinkPage /\ PageAt(r, m) \in Page
  BY <1>11, NPagesAssumption DEF Usable, SinkPage, Page
<1>13. done[r] <= m
  <2>1. done[r] <= Bounded(whole) /\ Bounded(whole) = n - 1
    BY <1>2, BoundedNumbers DEF Stands
  <2> QED
    BY <1>6, <2>1
<1>14. Writers(PageAt(r, m), m % PageSize, Parked) = {s}
  <2>1. s \in Writers(PageAt(r, m), m % PageSize, Parked)
    BY <1>1, <1>4, <1>6, <1>11 DEF Writers
  <2>2. ASSUME NEW t \in Writers(PageAt(r, m), m % PageSize, Parked)
        PROVE  t = s
    <3>1. t \in Slot /\ PlaceOf(t, StepAt(t, Parked)) = PageAt(r, m)
      BY DEF Writers
    <3>2. /\ rows[t] # None /\ rows[t] \in Request
          /\ StepAt(t, Parked) \div PageSize + 1 \in 1..Len(held[rows[t]])
          /\ PlaceOf(t, StepAt(t, Parked)) = PageAt(rows[t], StepAt(t, Parked))
      BY <1>12, <3>1, StepPage
    <3>3. PageAt(r, m) \in Range(held[rows[t]])
      BY <3>1, <3>2, HeldPages, RangeOfLine DEF PageAt
    <3>4. rows[t] = r
      BY <1>7, <1>9, <1>13, <3>2, <3>3, PastDone DEF TextInv, PageInv
    <3> QED
      BY <1>1, <1>2, <3>1, <3>4 DEF IInv, Admission
  <2> QED
    BY <2>1, <2>2
<1>15. cache'[PageAt(r, m)][m % PageSize] = whole
  <2>1. cache'[PageAt(r, m)][m % PageSize]
          = StepText(CHOOSE t \in Writers(PageAt(r, m), m % PageSize, Parked) : TRUE, Parked)
    BY <1>9, <1>12, <1>14 DEF DeviceStep
  <2>2. (CHOOSE t \in {s} : TRUE) = s
    OBVIOUS
  <2> QED
    BY <1>4, <1>14, <2>1, <2>2
<1> QED
  BY <1>2, <1>6, <1>7, <1>10, <1>15

\* A filled row that steps stands at the end of its text with the token drawn.
LEMMA StandsOn ==
  ASSUME IInv, ReadInv, PiecesApart, AheadInv, PlaceInv, TextInv, pc \in {"mix", "decode"},
         NEW draw \in [Decoding -> Token], DeviceStep(Decoding, Parked, draw),
         UNCHANGED <<rows, filling, held, done>>,
         NEW s \in Decoding, Filled(s), NEW whole \in Seq(Token) \ {<<>>}, Stands(s, whole),
         NEW more, more = Append(whole, draw[s])
  PROVE  Stands(s, more)'
<1>1. s \in Slot /\ draw[s] \in Token
  BY DEF Decoding
<1>2. PICK n \in Nat \ {0} : n = Len(whole)
  <2>1. Len(whole) \in Nat \ {0}
    OBVIOUS
  <2> QED
    BY <2>1
<1>3. /\ more \in Seq(Token) \ {<<>>} /\ Len(more) = n + 1 /\ more[n + 1] = draw[s]
      /\ \A m \in 0..n : Start(more, m) = Start(whole, m)
  BY <1>1, <1>2, OneTokenMore
<1>4. PICK r \in Request : r = rows[s] /\ r # None
  BY <1>1, RowRuns DEF Filled
<1>5. PICK b \in Nat : b = Bounded(whole) /\ b <= n
  BY <1>2, BoundedNumbers
<1>6. PICK k \in Nat : k = Len(held[r]) /\ k * PageSize \in Nat
  BY HeldPages, EngineAssumption
<1>7. done[r] \in Nat /\ done[r] <= b /\ b <= k * PageSize /\ devKey[s] = r
  BY <1>4, <1>5, <1>6 DEF Stands, IInv, RowTypes
<1>8. \A i \in 0..(b - 1) : cache'[PageAt(r, i)][i % PageSize] = Start(more, i + 1)
  <2> SUFFICES ASSUME NEW i \in 0..(b - 1)
               PROVE  cache'[PageAt(r, i)][i % PageSize] = Start(more, i + 1)
    OBVIOUS
  <2>1. cache'[PageAt(r, i)][i % PageSize] = cache[PageAt(r, i)][i % PageSize]
    BY <1>1, <1>4, <1>5, HoldsOn
  <2>2. cache[PageAt(r, i)][i % PageSize] = Start(whole, i + 1)
    BY <1>4, <1>5 DEF Stands, Holds
  <2>3. i + 1 \in 0..n
    BY <1>5
  <2> QED
    BY <1>3, <2>1, <2>2, <2>3
<1>9. devKey'[s] = devKey[s] /\ devTok'[s] = draw[s] /\ rows'[s] = r /\ held'[r] = held[r]
      /\ done'[r] = done[r]
  BY <1>1, <1>4 DEF DeviceStep
<1>10. CASE n < MaxSeq
  <2>1. b = n - 1 /\ Bounded(more) = n
    <3>1. MaxSeq \in Nat
      BY EngineAssumption
    <3>2. n <= MaxSeq /\ n + 1 <= MaxSeq /\ n + 1 - 1 = n
      BY <1>10, <3>1
    <3>3. Len(whole) <= MaxSeq
      BY <1>2, <3>2
    <3>4. b = n - 1
      BY <1>2, <1>5, <3>3, BoundedNumbers
    <3>5. Len(more) <= MaxSeq
      BY <1>3, <3>2
    <3>6. Bounded(more) = n + 1 - 1
      <4>1. more \in Seq(Token) \ {<<>>}
        BY <1>3
      <4>2. Bounded(more) = Len(more) - 1
        BY <3>5, <4>1, BoundedNumbers
      <4> QED
        BY <1>3, <4>2
    <3> QED
      BY <3>2, <3>4, <3>6
  <2>2. n <= k * PageSize /\ cache'[PageAt(r, n - 1)][(n - 1) % PageSize] = whole
    <3>1. n <= MaxSeq
      BY <1>10, EngineAssumption
    <3> QED
      BY <3>1, <1>2, <1>4, <1>6, OwnCell
  <2>3. \A i \in 0..(n - 1) : cache'[PageAt(r, i)][i % PageSize] = Start(more, i + 1)
    <3>1. Start(more, n) = whole
      <4>1. n \in 0..n
        OBVIOUS
      <4> QED
        BY <4>1, <1>2, <1>3, WholeStart
    <3> SUFFICES ASSUME NEW i \in 0..(n - 1)
                 PROVE  cache'[PageAt(r, i)][i % PageSize] = Start(more, i + 1)
      OBVIOUS
    <3>2. CASE i \in 0..(b - 1)
      BY <1>8, <3>2
    <3>3. CASE i \notin 0..(b - 1)
      <4>1. i = n - 1 /\ i + 1 = n
        BY <2>1, <3>3
      <4> QED
        BY <2>2, <3>1, <4>1
    <3> QED
      BY <3>2, <3>3
  <2>4. devPos[s] = n - 1 /\ assigned[s] # <<>>
    <3>1. devPos[s] = n - 1
      <4>1. StepsOn(s) /\ n <= MaxSeq
        BY <1>1, <1>10, DecodingStepsOn, EngineAssumption
      <4> QED
        BY <1>2, <4>1 DEF Stands
    <3>2. assigned[s] = held[r]
      BY <1>1, <1>4 DEF PlaceInv, Tables
    <3>3. k # 0
      <4> SUFFICES ASSUME k = 0 PROVE FALSE
        OBVIOUS
      <4>1. k * PageSize = 0
        <5>1. PageSize \in Nat
          BY EngineAssumption
        <5>2. \A m \in Nat : 0 * m = 0
          OBVIOUS
        <5> QED
          BY <5>1, <5>2
      <4> QED
        BY <2>2, <4>1
    <3>4. Len(<<>>) = 0
      OBVIOUS
    <3> QED
      BY <1>6, <3>1, <3>2, <3>3, <3>4
  <2>5. devPos'[s] = n
    <3>1. devPos'[s] = Smaller(devPos[s] + 1, MaxSeq - 1)
      BY <1>1, <2>4 DEF DeviceStep
    <3>2. MaxSeq \in Nat
      BY EngineAssumption
    <3> QED
      BY <1>10, <2>4, <3>1, <3>2 DEF Smaller
  <2>6. done[r] <= n /\ n <= n /\ n + 1 - 1 = n
    BY <1>5, <1>7, <2>1
  <2>7. Holds(r, n, more)'
    BY <1>9, <2>3 DEF Holds, PageAt
  <2>8. Holds(rows[s], Bounded(more), more)'
    BY <1>9, <2>1, <2>7 DEF Holds, PageAt
  <2> QED
    BY <1>3, <1>6, <1>7, <1>9, <2>1, <2>2, <2>5, <2>6, <2>8 DEF Stands
<1>11. CASE ~(n < MaxSeq)
  <2>1. Bounded(more) = b /\ ~(n + 1 <= MaxSeq)
    <3>1. MaxSeq \in Nat
      BY EngineAssumption
    <3>2. n >= MaxSeq /\ n + 1 >= MaxSeq /\ ~(n + 1 <= MaxSeq)
      BY <1>11, <3>1
    <3>3. b = MaxSeq - 1
      BY <1>2, <1>5, <3>2, BoundedNumbers
    <3>4. Bounded(more) = MaxSeq - 1
      BY <1>3, <3>2, BoundedNumbers
    <3> QED
      BY <3>2, <3>3, <3>4
  <2>2. Bounded(whole) <= devPos'[s]
    BY <1>1, PastOn
  <2>3. Holds(rows[s], Bounded(more), more)'
    BY <1>8, <1>9, <2>1 DEF Holds, PageAt
  <2> QED
    BY <1>3, <1>5, <1>6, <1>7, <1>9, <2>1, <2>2, <2>3 DEF Stands
<1> QED
  BY <1>10, <1>11

\* A text grows by the pass queued last.
LEMMA GrowsByPass ==
  ASSUME IInv, NEW pass, queued' = Append(queued, pass), Due = <<>>, Due' = <<>>,
         UNCHANGED <<reading, tokens>>,
         NEW r, NEW f \in [0..Len(queued) -> Seq(Token)], NEW whole \in Seq(Token),
         Grows(r, f, whole), NEW more \in Seq(Token), Len(whole) <= Len(more),
         \A m \in 0..Len(whole) : Start(more, m) = Start(whole, m),
         Passes(r, pass, whole, more)
  PROVE  \E g \in [0..Len(queued') -> Seq(Token)] : Grows(r, g, more)'
<1>1. queued \in Seq(Seq(Draw))
  BY DEF IInv, PassTypes
<1>2. PICK n \in Nat : n = Len(queued)
  BY <1>1
<1>3. /\ Len(queued') = n + 1 /\ queued'[n + 1] = pass
      /\ \A i \in 1..n : queued'[i] = queued[i]
  BY <1>1, <1>2
<1>4. /\ \A i \in 0..(n + 1) : i \in 0..n \/ i = n + 1
      /\ \A i \in 1..(n + 1) : i \in 1..n \/ i = n + 1
      /\ \A i \in 1..n : i \in 0..n /\ i - 1 \in 0..n
      /\ \A i \in 0..n : i \in 0..(n + 1) /\ i # n + 1
      /\ n + 1 \in 0..(n + 1) /\ n + 1 - 1 = n /\ n \in 0..n /\ 0 \in 0..n
  <2>1. n \in Nat
    OBVIOUS
  <2>2. /\ \A i \in 0..(n + 1) : i \in 0..n \/ i = n + 1
        /\ \A i \in 1..(n + 1) : i \in 1..n \/ i = n + 1
    BY <2>1
  <2>3. /\ \A i \in 1..n : i \in 0..n /\ i - 1 \in 0..n
        /\ \A i \in 0..n : i \in 0..(n + 1) /\ i # n + 1
    BY <2>1
  <2>4. n + 1 \in 0..(n + 1) /\ n + 1 - 1 = n /\ n \in 0..n /\ 0 \in 0..n
    BY <2>1
  <2> QED
    BY <2>2, <2>3, <2>4
<1>5. PICK g \in [0..(n + 1) -> Seq(Token)] :
        g[n + 1] = more /\ \A i \in 0..n : g[i] = f[i]
  <2>1. /\ [i \in 0..(n + 1) |-> IF i = n + 1 THEN more ELSE f[i]]
             \in [0..(n + 1) -> Seq(Token)]
        /\ [i \in 0..(n + 1) |-> IF i = n + 1 THEN more ELSE f[i]][n + 1] = more
        /\ \A j \in 0..n : [i \in 0..(n + 1) |-> IF i = n + 1 THEN more ELSE f[i]][j] = f[j]
    BY <1>2, <1>4
  <2> QED
    BY <2>1
<1>6. PromptOf(r)' = PromptOf(r)
  BY DEF PromptOf
<1>7. /\ Passes(r, reading, PromptOf(r), f[0])
      /\ \A i \in 1..n : Passes(r, queued[i], f[i - 1], f[i])
      /\ Passes(r, Due, f[n], whole)
      /\ \A i \in 0..n : Len(f[i]) <= Len(whole) /\ Start(whole, Len(f[i])) = f[i]
  BY <1>2 DEF Grows
<1>8. f[n] = whole
  BY <1>7, NoPlaces DEF Passes, Drawn
<1>9. Passes(r, reading', PromptOf(r)', g[0])
  BY <1>4, <1>5, <1>6, <1>7
<1>10. \A i \in 1..(n + 1) : Passes(r, queued'[i], g[i - 1], g[i])
  <2>1. Passes(r, queued'[n + 1], g[n], g[n + 1])
    BY <1>3, <1>4, <1>5, <1>8
  <2>2. \A i \in 1..n : Passes(r, queued'[i], g[i - 1], g[i])
    BY <1>3, <1>4, <1>5, <1>7
  <2> SUFFICES ASSUME NEW i \in 1..(n + 1)
               PROVE  Passes(r, queued'[i], g[i - 1], g[i])
    OBVIOUS
  <2>3. i \in 1..n \/ i = n + 1
    BY <1>4
  <2>4. CASE i = n + 1
    <3>1. PICK k : k = i - 1
      OBVIOUS
    <3>2. k = n
      BY <2>4, <3>1
    <3>3. Passes(r, queued'[i], g[k], g[i])
      BY <2>1, <2>4, <3>2
    <3> QED
      BY <3>1, <3>3
  <2>5. CASE i \in 1..n
    BY <2>2, <2>5
  <2> QED
    BY <2>3, <2>4, <2>5
<1>11. Passes(r, Due', g[n + 1], more)
  BY <1>5, NoPlaces DEF Passes, Drawn
<1>12. \A i \in 0..(n + 1) : Len(g[i]) <= Len(more) /\ Start(more, Len(g[i])) = g[i]
  <2>1. ASSUME NEW i \in 0..n
        PROVE  Len(g[i]) <= Len(more) /\ Start(more, Len(g[i])) = g[i]
    <3>1. g[i] = f[i] /\ Len(f[i]) <= Len(whole) /\ Start(whole, Len(f[i])) = f[i]
      BY <1>5, <1>7
    <3>2. PICK l \in Nat : l = Len(f[i])
      <4>1. f[i] \in Seq(Token)
        BY <1>2
      <4>2. Len(f[i]) \in Nat
        BY <4>1
      <4> QED
        BY <4>2
    <3>3. PICK w \in Nat : w = Len(whole)
      OBVIOUS
    <3>4. PICK m \in Nat : m = Len(more)
      OBVIOUS
    <3>5. l <= w /\ w <= m
      BY <3>1, <3>2, <3>3, <3>4
    <3>6. l \in 0..w /\ l <= m
      BY <3>5
    <3>7. Start(more, l) = Start(whole, l)
      BY <3>3, <3>6
    <3> QED
      BY <3>1, <3>2, <3>4, <3>6, <3>7
  <2>2. Len(more) <= Len(more) /\ Start(more, Len(more)) = more
    BY WholeStart
  <2> SUFFICES ASSUME NEW i \in 0..(n + 1)
               PROVE  Len(g[i]) <= Len(more) /\ Start(more, Len(g[i])) = g[i]
    OBVIOUS
  <2>3. CASE i \in 0..n
    BY <2>1, <2>3
  <2>4. CASE i = n + 1
    BY <1>5, <2>2, <2>4
  <2> QED
    BY <1>4, <2>3, <2>4
<1>13. Grows(r, g, more)'
  <2>1. Passes(r, reading, PromptOf(r), g[0])'
    BY <1>9 DEF Passes, Drawn
  <2>2. \A i \in 1..Len(queued') : Passes(r, queued[i], g[i - 1], g[i])'
    BY <1>3, <1>10 DEF Passes, Drawn
  <2>3. Passes(r, Due, g[Len(queued)], more)'
    BY <1>3, <1>11 DEF Passes, Drawn
  <2>4. \A i \in 0..Len(queued') : Len(g[i]) <= Len(more) /\ Start(more, Len(g[i])) = g[i]
    BY <1>3, <1>12
  <2> QED
    BY <2>1, <2>2, <2>3, <2>4 DEF Grows
<1> QED
  BY <1>3, <1>5, <1>13

\* A filled row whose request has all its tokens drawn stands through a step of the others.
LEMMA StillStands ==
  ASSUME IInv, IInv', ReadInv, Onward, PiecesApart, AheadInv, PlaceInv, TextInv,
         pc \in {"mix", "decode"}, NEW draw, DeviceStep(Decoding, Parked, draw),
         UNCHANGED <<rows, filling, held, done>>,
         NEW s \in Slot \ Decoding, Filled(s), NEW whole \in Seq(Token) \ {<<>>}, Stands(s, whole)
  PROVE  Stands(s, whole)'
<1>1. ~StepsOn(s)'
  <2>1. ~StepsOn(s)
    BY DecodingStepsOn
  <2> QED
    BY <2>1, SteppedBefore DEF Filled
<1>2. Bounded(whole) <= devPos'[s]
  BY PastOn
<1>3. devKey'[s] = devKey[s]
  BY DEF DeviceStep
<1>4. Holds(rows[s], Bounded(whole), whole)'
  <2>1. \A i \in 0..(Bounded(whole) - 1) :
          cache'[PageAt(rows[s], i)][i % PageSize] = Start(whole, i + 1)
    <3> SUFFICES ASSUME NEW i \in 0..(Bounded(whole) - 1)
                 PROVE  cache'[PageAt(rows[s], i)][i % PageSize] = Start(whole, i + 1)
      OBVIOUS
    <3>1. cache'[PageAt(rows[s], i)][i % PageSize] = cache[PageAt(rows[s], i)][i % PageSize]
      BY HoldsOn
    <3>2. cache[PageAt(rows[s], i)][i % PageSize] = Start(whole, i + 1)
      BY DEF Stands, Holds
    <3> QED
      BY <3>1, <3>2
  <2> QED
    BY <2>1 DEF Holds, PageAt
<1> QED
  BY <1>1, <1>2, <1>3, <1>4 DEF Stands

\* A step of the rows: the pages keep what they hold, and each row's text grows by its draw.
LEMMA StepTexts ==
  ASSUME IInv, IInv', ReadInv, PiecesApart, AheadInv, PlaceInv, TextInv, MixStep \/ DecodeStep
  PROVE  TextInv'
<1>1. /\ pc \in {"mix", "decode"} /\ pc' # "sharing" /\ pc # "sharing"
      /\ pc' \notin Passing => pc = "decode"
      /\ UNCHANGED <<rows, filling, held, done, tokens, reading, placed, digestOf, chunks>>
  BY DEF MixStep, DecodeStep, At, Goto, Passing, requestVars, localVars, poolVars
<1>2. Due = <<>> /\ Due' = <<>>
  BY DEF MixStep, DecodeStep, At, Goto, localVars, Due, ReadInv, Rooms
<1>3. pc = "decode" => chunks = <<>>
  BY DEF TextInv, PageInv, Pieces, Passing
<1>4. StepRows(Parked)
  <2>1. CASE MixStep
    BY <2>1 DEF MixStep, Parked
  <2>2. CASE DecodeStep
    <3>1. chunks = <<>>
      BY <2>2, <1>3 DEF DecodeStep, At
    <3>2. DOMAIN chunks = {}
      BY <3>1
    <3>3. Parked = {}
      BY <3>2 DEF Parked
    <3> QED
      BY <2>2, <3>3 DEF DecodeStep
  <2> QED
    BY <2>1, <2>2
<1>5. PICK draw \in [Decoding -> Token] :
        /\ DeviceStep(Decoding, Parked, draw)
        /\ queued' = Append(queued, Stepped(Decoding, Parked, draw))
  BY <1>4 DEF StepRows
<1>6. Onward
  BY DEF Onward
<1>7. PiecesSame
  BY <1>1 DEF PiecesSame, PageAt
<1>8. KeptWill'
  <2>1. \A p \in DOMAIN digestOf' :
          /\ p \in DOMAIN digestOf /\ digestOf'[p] = digestOf[p]
          /\ \A o \in Offset : cache'[p][o] = cache[p][o]
    <3> SUFFICES ASSUME NEW p \in DOMAIN digestOf, NEW o \in Offset
                 PROVE  cache'[p][o] = cache[p][o]
      BY <1>1
    <3>1. p \in Page
      BY KeptPages
    <3> QED
      BY <1>1, <1>5, <3>1, StepKeeps
  <2> QED
    BY <1>7, <2>1, KeptStay DEF TextInv, PageInv
<1>9. ASSUME NEW r \in Range(filling), NEW i \in 0..(done[r] - 1)
      PROVE  cache'[PageAt(r, i)][i % PageSize] = cache[PageAt(r, i)][i % PageSize]
  <2>1. /\ r \in Request /\ i \in Nat /\ i \div PageSize + 1 \in 1..Len(held[r])
        /\ PageAt(r, i) \in Range(held[r]) /\ i % PageSize \in Offset
    BY FillPages
  <2>2. PageAt(r, i) \in Page
    BY <2>1, HeldPages
  <2>3. r # None
    BY <2>1, EngineAssumption
  <2>4. ASSUME NEW s \in Slot, rows[s] = r
        PROVE  i # StepAt(s, Parked)
    <3>1. StepAt(s, Parked) \in Nat /\ done[r] <= StepAt(s, Parked)
      BY <1>1, <2>3, <2>4, StepPast
    <3>2. done[r] \in Nat
      BY <2>1 DEF IInv, RowTypes
    <3> QED
      BY <3>1, <3>2
  <2> QED
    BY <1>1, <1>5, <2>1, <2>2, <2>4, StepKeeps
<1>10. Fillings'
  <2>1. Range(placed) = {}
    <3>1. placed = <<>>
      BY <1>1 DEF IInv, Placement, Placing
    <3> QED
      BY <3>1, EmptyLine
  <2>2. \A r \in Range(filling') \cup Range(placed') :
          /\ r \in Range(filling) \cup Range(placed)
          /\ done'[r] = done[r] /\ PromptOf(r)' = PromptOf(r)
          /\ \A i \in 0..(done[r] - 1) :
               /\ PageAt(r, i)' = PageAt(r, i)
               /\ cache'[PageAt(r, i)][i % PageSize] = cache[PageAt(r, i)][i % PageSize]
    BY <1>1, <1>9, <2>1 DEF PageAt, PromptOf
  <2> QED
    BY <1>7, <2>2, FillingsStay DEF TextInv, PageInv
<1>11. Pieces'
  <2>1. pc' \notin Passing => chunks' = <<>>
    BY <1>1, <1>3
  <2>2. /\ \A i \in 1..Len(chunks') : chunks'[i].stop <= done'[chunks'[i].req]
        /\ \A r \in Range(placed') : HasPiece(r)'
    BY <1>1 DEF TextInv, PageInv, Pieces, HasPiece
  <2>3. ASSUME NEW s \in Slot, rows'[s] \in Range(filling'), ~HasPiece(rows[s])'
        PROVE  devPos'[s] = MaxSeq - 1
    <3>1. rows[s] \in Range(filling) /\ ~HasPiece(rows[s])
      BY <1>1, <2>3 DEF HasPiece
    <3>2. devPos[s] = MaxSeq - 1
      BY <3>1 DEF TextInv, PageInv, Pieces
    <3>3. rows[s] # None /\ assigned[s] = held[rows[s]] /\ held[rows[s]] # <<>>
      <4>1. rows[s] \in Request
        BY <3>1, RangeOfLine DEF IInv, RowTypes
      <4>2. rows[s] # None
        BY <4>1, EngineAssumption
      <4>3. Len(held[rows[s]]) >= Len(PromptOf(rows[s])) \div PageSize + 1
        BY <3>1 DEF IInv, FillingHold, PagesFor
      <4>4. Len(PromptOf(rows[s])) \div PageSize \in Nat
        BY <4>1, TextOfRequest, EngineAssumption, Division DEF IInv
      <4>5. Len(<<>>) = 0
        OBVIOUS
      <4>6. held[rows[s]] # <<>>
        BY <4>3, <4>4, <4>5
      <4> QED
        BY <4>2, <4>6 DEF PlaceInv, Tables
    <3>4. devPos'[s] = Smaller(devPos[s] + 1, MaxSeq - 1)
      BY <1>5, <3>3 DEF DeviceStep
    <3>5. MaxSeq \in Nat
      BY EngineAssumption
    <3> QED
      BY <3>2, <3>4, <3>5 DEF Smaller
  <2> QED
    BY <2>1, <2>2, <2>3 DEF Pieces
<1>12. FoundHolds' /\ Private' /\ SharedKept'
  BY <1>1 DEF TextInv, PageInv, FoundHolds, Private, SharedKept
<1>13. InTurn'
  <2> SUFFICES ASSUME NEW i \in 1..Len(chunks), NEW n \in Nat, NEW q \in Request \ {chunks[i].req},
                      chunks[i].start <= n, n < chunks[i].stop,
                      PageAt(chunks[i].req, n) \in Range(held[q])
               PROVE  \E j \in 1..Len(chunks) : i < j /\ chunks[j].req = q
    BY <1>1 DEF InTurn, PageAt
  <2> QED
    BY <1>1 DEF TextInv, PageInv, InTurn
<1>14. Texts'
  <2>1. PICK pass \in Seq(Draw) : pass = Stepped(Decoding, Parked, draw)
    BY StepPass
  <2>2. queued' = Append(queued, pass)
    BY <1>5, <2>1
  <2>3. /\ \A s \in Slot : rows[s] # None => (Drawn(rows[s], pass) <=> s \in Decoding)
        /\ \A s \in Decoding : \A j \in 1..Len(pass) : pass[j].req = rows[s] =>
             /\ pass[j].token = draw[s] /\ pass[j].text = StepText(s, Parked)
             /\ pass[j].at = devPos[s] + 1 /\ pass[j].key = devKey[s]
    BY <2>1, StepPass
  <2> SUFFICES ASSUME NEW s \in Slot, Filled(s)'
               PROVE  \E g \in [0..Len(queued') -> Seq(Token)], more \in Seq(Token) \ {<<>>} :
                        Grows(rows[s], g, more)' /\ Stands(s, more)'
    BY DEF Texts
  <2>4. Filled(s) /\ rows'[s] = rows[s]
    BY <1>1 DEF Filled
  <2>5. PICK f \in [0..Len(queued) -> Seq(Token)], whole \in Seq(Token) \ {<<>>} :
          Grows(rows[s], f, whole) /\ Stands(s, whole)
    BY <2>4 DEF TextInv, Texts
  <2>6. PICK r \in Request : r = rows[s] /\ r = rows'[s] /\ r # None
    BY <2>4, RowRuns DEF Filled
  <2>7. CASE s \in Decoding
    <3>1. draw[s] \in Token
      BY <2>7
    <3>2. PICK more \in Seq(Token) \ {<<>>} : more = Append(whole, draw[s])
      BY <3>1, OneTokenMore
    <3>3. /\ Len(whole) <= Len(more) /\ \A m \in 0..Len(whole) : Start(more, m) = Start(whole, m)
      <4>1. /\ Len(more) = Len(whole) + 1
            /\ \A m \in 0..Len(whole) : Start(more, m) = Start(whole, m)
        BY <3>1, <3>2, OneTokenMore
      <4>2. Len(whole) \in Nat
        OBVIOUS
      <4>3. Len(whole) <= Len(more)
        BY <4>1, <4>2
      <4> QED
        BY <4>1, <4>3
    <3>4. Stands(s, more)'
      BY <1>1, <1>5, <2>4, <2>5, <2>7, <3>2, StandsOn
    <3>5. Len(whole) < MaxSeq =>
            StepText(s, Parked) = whole /\ devPos[s] + 1 = Len(whole) /\ devKey[s] = r
      <4> SUFFICES ASSUME Len(whole) < MaxSeq
                   PROVE  StepText(s, Parked) = whole /\ devPos[s] + 1 = Len(whole) /\ devKey[s] = r
        OBVIOUS
      <4>1. Len(whole) <= MaxSeq /\ Len(whole) \in Nat
        BY EngineAssumption
      <4>2. StepsOn(s)
        BY <1>1, <2>7, DecodingStepsOn
      <4>3. devPos[s] = Len(whole) - 1 /\ StepText(s, Parked) = whole
        BY <1>1, <2>4, <2>5, <4>1, <4>2, OwnStep
      <4>4. devPos[s] + 1 = Len(whole)
        BY <4>1, <4>3
      <4> QED
        BY <2>5, <2>6, <4>3, <4>4 DEF Stands
    <3>6. Passes(r, pass, whole, more)
      <4>1. Drawn(r, pass)
        BY <2>3, <2>6, <2>7
      <4>2. ASSUME NEW j \in 1..Len(pass), pass[j].req = r
            PROVE  /\ more = Append(whole, pass[j].token)
                   /\ Len(whole) < MaxSeq =>
                        pass[j].text = whole /\ pass[j].at = Len(whole) /\ pass[j].key = r
        <5>1. /\ pass[j].token = draw[s] /\ pass[j].text = StepText(s, Parked)
              /\ pass[j].at = devPos[s] + 1 /\ pass[j].key = devKey[s]
          BY <2>3, <2>6, <2>7, <4>2
        <5> QED
          BY <3>2, <3>5, <5>1
      <4> QED
        BY <4>1, <4>2 DEF Passes
    <3>7. PICK g \in [0..Len(queued') -> Seq(Token)] : Grows(r, g, more)'
      BY <1>1, <1>2, <2>2, <2>5, <2>6, <3>3, <3>6, GrowsByPass
    <3>8. Grows(rows[s], g, more)'
      BY <2>6, <3>7 DEF Grows, PromptOf
    <3> QED
      BY <3>4, <3>8
  <2>8. CASE s \notin Decoding
    <3>1. Stands(s, whole)'
      BY <1>1, <1>5, <1>6, <2>4, <2>5, <2>8, StillStands
    <3>2. Passes(r, pass, whole, whole)
      <4>1. ~Drawn(r, pass)
        BY <2>3, <2>6, <2>8
      <4> QED
        BY <4>1 DEF Passes, Drawn
    <3>3. Len(whole) <= Len(whole) /\ \A m \in 0..Len(whole) : Start(whole, m) = Start(whole, m)
      BY WholeStart
    <3>4. PICK g \in [0..Len(queued') -> Seq(Token)] : Grows(r, g, whole)'
      BY <1>1, <1>2, <2>2, <2>5, <2>6, <3>2, <3>3, GrowsByPass
    <3>5. Grows(rows[s], g, whole)'
      BY <2>6, <3>4 DEF Grows, PromptOf
    <3> QED
      BY <3>1, <3>5
  <2> QED
    BY <2>7, <2>8
<1> QED
  BY <1>8, <1>10, <1>11, <1>12, <1>13, <1>14 DEF TextInv, PageInv

\* The first piece passes, to `stop`.
FirstPasses(piece, stop) ==
  /\ chunks # <<>> /\ piece = chunks[1]
  /\ piece.start < stop /\ stop <= piece.stop
  /\ Prefill(piece, stop)
  /\ \/ stop = piece.stop /\ chunks' = Tail(chunks)
     \/ stop < piece.stop /\ chunks' = [chunks EXCEPT ![1].start = stop]

\* A step that passes a piece passes the first, of a prompt being filled.
LEMMA PieceFirst ==
  ASSUME IInv, PiecesApart, TextInv, PassPiece
  PROVE  \E piece \in Piece, stop \in Nat, r \in Range(filling) :
           /\ FirstPasses(piece, stop) /\ piece.req = r /\ r \in Request
           /\ piece.stop <= done[r] /\ piece.stop <= Len(PromptOf(r)) /\ 1 \in 1..Len(chunks)
<1> DEFINE piece == Head(chunks)
           stop  == IF pc = "pass" THEN Smaller(piece.stop, piece.start + room) ELSE piece.stop
<1>1. /\ pc \in {"pass", "mixpass"} /\ chunks # <<>>
      /\ pc = "pass" => room > 0
      /\ Prefill(piece, stop)
      /\ chunks' = IF stop = piece.stop THEN Tail(chunks) ELSE [chunks EXCEPT ![1].start = stop]
  BY DEF PassPiece, At
<1>2. /\ chunks \in Seq(Piece) /\ Len(chunks) \in Nat \ {0} /\ piece = chunks[1]
      /\ piece \in Piece /\ 1 \in 1..Len(chunks)
  <2>1. chunks \in Seq(Piece) /\ chunks # <<>>
    BY <1>1 DEF IInv, PassTypes
  <2> QED
    BY <2>1
<1>3. PICK r \in Range(filling) : r = piece.req
  BY <1>1, <1>2, PieceFills
<1> HIDE DEF piece
<1>4. r \in Request
  BY <1>3, RangeOfLine DEF IInv, RowTypes
<1>5. piece.start < piece.stop /\ piece.stop <= Len(PromptOf(r))
  BY <1>1, <1>2, <1>3 DEF IInv, PiecesRun, Passing
<1>6. piece.stop <= done[r]
  BY <1>2, <1>3 DEF TextInv, PageInv, Pieces
<1>7. piece.start \in Nat /\ piece.stop \in Nat /\ room \in Int
  BY <1>2 DEF Piece, IInv, PassTypes
<1>8. stop \in Nat /\ piece.start < stop /\ stop <= piece.stop
  BY <1>1, <1>5, <1>7 DEF Smaller
<1> HIDE DEF stop
<1>9. stop = piece.stop \/ stop < piece.stop
  BY <1>7, <1>8
<1>10. FirstPasses(piece, stop)
  BY <1>1, <1>2, <1>8, <1>9 DEF FirstPasses
<1> QED
  BY <1>2, <1>3, <1>4, <1>5, <1>6, <1>8, <1>10

\* The pieces left are those there were but for the first, and what is left of it.
LEMMA PiecesLeft ==
  ASSUME IInv, NEW piece \in Piece, NEW stop \in Nat, FirstPasses(piece, stop)
  PROVE  \E k \in {0, 1} :
           /\ k = 1 <=> stop = piece.stop
           /\ \A i \in 1..Len(chunks') :
                /\ i + k \in 1..Len(chunks)
                /\ chunks'[i].req = chunks[i + k].req /\ chunks'[i].stop = chunks[i + k].stop
                /\ chunks[i + k].start <= chunks'[i].start
                /\ i + k = 1 => chunks'[i].start = stop
           /\ \A j \in 1..Len(chunks) : j # 1 \/ k = 0 =>
                /\ j - k \in 1..Len(chunks')
                /\ chunks'[j - k].req = chunks[j].req /\ chunks'[j - k].stop = chunks[j].stop
                /\ j # 1 => chunks'[j - k].start = chunks[j].start
<1>1. chunks \in Seq(Piece) /\ chunks # <<>> /\ piece = chunks[1]
  BY DEF FirstPasses, IInv, PassTypes
<1>2. PICK n \in Nat \ {0} : n = Len(chunks)
  <2>1. Len(chunks) \in Nat \ {0}
    BY <1>1
  <2> QED
    BY <2>1
<1>3. \A j \in 1..n : chunks[j] \in Piece /\ chunks[j].start \in Nat
  <2>1. \A j \in 1..n : chunks[j] \in Piece
    BY <1>1, <1>2
  <2>2. \A x \in Piece : x.start \in Nat
    BY DEF Piece
  <2> QED
    BY <2>1, <2>2
<1>4. CASE stop = piece.stop
  <2>1. chunks' = Tail(chunks)
    BY <1>4 DEF FirstPasses
  <2>2. Len(chunks') = n - 1 /\ \A i \in 1..(n - 1) : chunks'[i] = chunks[i + 1]
    BY <1>1, <1>2, <2>1
  <2>3. /\ \A i \in 1..(n - 1) : i + 1 \in 1..n /\ i + 1 # 1
        /\ \A j \in 1..n : j # 1 => j - 1 \in 1..(n - 1) /\ j - 1 + 1 = j
    OBVIOUS
  <2>4. \A i \in 1..(n - 1) : chunks[i + 1].start <= chunks[i + 1].start
    BY <1>3, <2>3
  <2>5. \A j \in 1..n : j # 1 => j - 1 \in 1..(n - 1) /\ chunks'[j - 1] = chunks[j]
    <3> SUFFICES ASSUME NEW j \in 1..n, j # 1
                 PROVE  j - 1 \in 1..(n - 1) /\ chunks'[j - 1] = chunks[j]
      OBVIOUS
    <3>1. PICK i \in 1..(n - 1) : i = j - 1 /\ i + 1 = j
      BY <2>3
    <3>2. chunks'[i] = chunks[i + 1]
      BY <2>2
    <3> QED
      BY <3>1, <3>2
  <2>6. /\ 1 \in {0, 1} /\ 1 # 0
        /\ \A i \in 1..Len(chunks') :
                /\ i + 1 \in 1..Len(chunks)
                /\ chunks'[i].req = chunks[i + 1].req /\ chunks'[i].stop = chunks[i + 1].stop
                /\ chunks[i + 1].start <= chunks'[i].start
                /\ i + 1 = 1 => chunks'[i].start = stop
    BY <1>2, <2>2, <2>3, <2>4
  <2>7. \A j \in 1..Len(chunks) : j # 1 \/ 1 = 0 =>
                /\ j - 1 \in 1..Len(chunks')
                /\ chunks'[j - 1].req = chunks[j].req /\ chunks'[j - 1].stop = chunks[j].stop
                /\ j # 1 => chunks'[j - 1].start = chunks[j].start
    BY <1>2, <2>2, <2>5
  <2>8. 1 = 1 <=> stop = piece.stop
    BY <1>4
  <2> QED
    BY <2>6, <2>7, <2>8
<1>5. CASE stop # piece.stop
  <2>1. chunks' = [chunks EXCEPT ![1] = [piece EXCEPT !.start = stop]]
    BY <1>1, <1>5 DEF FirstPasses
  <2>2. PICK rest : rest = [piece EXCEPT !.start = stop]
    OBVIOUS
  <2>3. rest.req = piece.req /\ rest.stop = piece.stop /\ rest.start = stop
    BY <2>2 DEF Piece
  <2>4. /\ Len(chunks') = n /\ chunks'[1] = rest
        /\ \A j \in 1..n : j # 1 => chunks'[j] = chunks[j]
    BY <1>1, <1>2, <2>1, <2>2
  <2>5. \A j \in 1..n : j + 0 = j /\ j - 0 = j
    OBVIOUS
  <2>6. piece.start <= stop
    <3>1. piece.start \in Nat /\ piece.start < stop
      BY DEF Piece, FirstPasses
    <3> QED
      BY <3>1
  <2>7. \A j \in 1..n :
          /\ chunks'[j].req = chunks[j].req /\ chunks'[j].stop = chunks[j].stop
          /\ chunks[j].start <= chunks'[j].start
          /\ j = 1 => chunks'[j].start = stop
          /\ j # 1 => chunks'[j].start = chunks[j].start
    <3> SUFFICES ASSUME NEW j \in 1..n
                 PROVE  /\ chunks'[j].req = chunks[j].req /\ chunks'[j].stop = chunks[j].stop
                        /\ chunks[j].start <= chunks'[j].start
                        /\ j = 1 => chunks'[j].start = stop
                        /\ j # 1 => chunks'[j].start = chunks[j].start
      OBVIOUS
    <3>1. CASE j = 1
      <4>1. chunks'[j] = rest /\ chunks[j] = piece
        BY <1>1, <2>4, <3>1
      <4> QED
        BY <2>3, <2>6, <3>1, <4>1
    <3>2. CASE j # 1
      <4>1. chunks'[j] = chunks[j] /\ chunks[j].start \in Nat
        BY <1>3, <2>4, <3>2
      <4>2. chunks[j].start <= chunks[j].start
        BY <4>1
      <4> QED
        BY <3>2, <4>1, <4>2
    <3> QED
      BY <3>1, <3>2
  <2>8. \A i \in 1..Len(chunks') :
                /\ i + 0 \in 1..Len(chunks)
                /\ chunks'[i].req = chunks[i + 0].req /\ chunks'[i].stop = chunks[i + 0].stop
                /\ chunks[i + 0].start <= chunks'[i].start
                /\ i + 0 = 1 => chunks'[i].start = stop
    BY <1>2, <2>4, <2>5, <2>7
  <2>9. \A j \in 1..Len(chunks) : j # 1 \/ 0 = 0 =>
                /\ j - 0 \in 1..Len(chunks')
                /\ chunks'[j - 0].req = chunks[j].req /\ chunks'[j - 0].stop = chunks[j].stop
                /\ j # 1 => chunks'[j - 0].start = chunks[j].start
    BY <1>2, <2>4, <2>5, <2>7
  <2>10. (0 = 1 <=> stop = piece.stop) /\ 0 \in {0, 1}
    BY <1>5
  <2> QED
    BY <2>8, <2>9, <2>10
<1> QED
  BY <1>4, <1>5

\* What has passed of a prompt is in its pages before its piece passes.
LEMMA StartPassed ==
  ASSUME IInv, PiecesApart, TextInv, pc \in {"pass", "mixpass"},
         NEW piece \in Piece, 1 \in 1..Len(chunks), piece = chunks[1],
         NEW r \in Range(filling), piece.req = r, r \in Request, piece.start <= done[r]
  PROVE  Holds(r, piece.start, PromptOf(r))
<1> SUFFICES ASSUME NEW i \in 0..(piece.start - 1)
             PROVE  cache[PageAt(r, i)][i % PageSize] = Start(PromptOf(r), i + 1)
  BY DEF Holds
<1>1. i \in Nat /\ i < piece.start /\ i \in 0..(done[r] - 1)
  <2>1. piece.start \in Nat /\ done[r] \in Nat
    BY DEF Piece, IInv, RowTypes
  <2> QED
    BY <2>1
<1>2. Will(PageAt(r, i), i % PageSize, Start(PromptOf(r), i + 1))
  BY <1>1 DEF TextInv, PageInv, Fillings, WillHold
<1>3. i \div PageSize + 1 \in 1..Len(held[r]) /\ PageAt(r, i) \in Range(held[r])
  BY <1>1, FillPages
<1>4. ASSUME NEW j \in 1..Len(chunks), NEW m \in Nat,
             Writes(chunks[j], m, PageAt(r, i), i % PageSize)
      PROVE  FALSE
  <2>1. chunks[j].start <= m /\ m < chunks[j].stop
        /\ PageAt(chunks[j].req, m) = PageAt(r, i) /\ m % PageSize = i % PageSize
    BY <1>4 DEF Writes
  <2>2. pc \in Passing /\ pc # "sharing"
    BY DEF Passing
  <2>3. CASE chunks[j].req = r
    <3>1. j = 1
      BY <2>2, <2>3 DEF PiecesApart
    <3>2. piece.start <= m /\ m \div PageSize + 1 \in 1..Len(held[r])
      BY <2>1, <2>3, <3>1, PieceCells DEF TextInv, PageInv
    <3>3. m = i
      BY <1>1, <1>3, <2>1, <2>3, <3>2, SameCell
    <3>4. piece.start \in Nat
      BY DEF Piece
    <3> QED
      BY <1>1, <3>2, <3>3, <3>4
  <2>4. CASE chunks[j].req # r
    <3>1. PICK k \in 1..Len(chunks) : j < k /\ chunks[k].req = r
      BY <1>3, <2>1, <2>2, <2>4 DEF TextInv, PageInv, InTurn
    <3>2. k = 1
      BY <2>2, <3>1 DEF PiecesApart
    <3> QED
      BY <3>1, <3>2
  <2> QED
    BY <2>3, <2>4
<1>5. Unwritten(PageAt(r, i), i % PageSize)
  BY <1>4 DEF Unwritten
<1> QED
  BY <1>2, <1>5 DEF Will

\* A text is its start and what comes after.
LEMMA StartAndMore ==
  ASSUME NEW text \in Seq(Token), NEW n \in 0..Len(text), NEW m \in 0..Len(text), n <= m
  PROVE  /\ SubSeq(text, n + 1, m) \in Seq(Token)
         /\ Start(text, n) \o SubSeq(text, n + 1, m) = Start(text, m)
<1>1. SubSeq(text, 1, n) \o SubSeq(text, n + 1, m) = SubSeq(text, 1, m)
  OBVIOUS
<1>2. SubSeq(text, n + 1, m) \in Seq(Token)
  OBVIOUS
<1> QED
  BY <1>1, <1>2 DEF Start

\* A piece that passes writes the start of its prompt at each of its positions, and
\* nothing elsewhere.
LEMMA PieceWrites ==
  ASSUME IInv, PiecesApart, PlaceInv, TextInv, pc \in {"pass", "mixpass"},
         NEW piece \in Piece, NEW stop \in Nat, FirstPasses(piece, stop), 1 \in 1..Len(chunks),
         NEW r \in Range(filling), piece.req = r, r \in Request,
         piece.stop <= done[r], piece.stop <= Len(PromptOf(r))
  PROVE  /\ \A i \in piece.start..(stop - 1) :
              cache'[PageAt(r, i)][i % PageSize] = Start(PromptOf(r), i + 1)
         /\ \A p \in Page, o \in Offset :
              (\A i \in piece.start..(stop - 1) : ~(PageAt(r, i) = p /\ i % PageSize = o)) =>
                cache'[p][o] = cache[p][o]
         /\ Extend(Seen(SlotOf(r), piece.start), SubSeq(PromptOf(r), piece.start + 1, stop))
              = Start(PromptOf(r), stop)
<1>1. PICK s \in Slot : s = SlotOf(r) /\ rows[s] = r /\ rows[s] # None
  BY SlotOfRow, EngineAssumption DEF IInv, Admission
<1>2. PICK text \in Seq(Token) : text = PromptOf(r)
  BY TextOfRequest DEF IInv
<1>3. PICK start \in Nat : start = piece.start
  BY DEF Piece
<1>4. PICK len \in Nat : len = Len(text)
  OBVIOUS
<1>5. start < stop /\ stop <= len /\ stop <= done[r] /\ done[r] \in Nat
  <2>1. start < stop /\ stop <= piece.stop /\ piece.stop \in Nat /\ piece.stop <= done[r]
        /\ piece.stop <= len /\ done[r] \in Nat
    BY <1>2, <1>3, <1>4 DEF FirstPasses, Piece, IInv, RowTypes
  <2> QED
    BY <2>1
<1>6. \A i \in start..(stop - 1) : i \in 0..(done[r] - 1) /\ i + 1 \in 0..len /\ start <= i + 1
  BY <1>5
<1>7. start \in 0..len /\ start <= done[r]
  BY <1>5
<1>8. \A i \in start..(stop - 1) :
        /\ i \in Nat /\ i \div PageSize + 1 \in 1..Len(held[r])
        /\ PageAt(r, i) \in Usable /\ PageAt(r, i) \in Page /\ PageAt(r, i) # SinkPage
        /\ i % PageSize \in Offset /\ PlaceOf(s, i) = PageAt(r, i)
  <2> SUFFICES ASSUME NEW i \in start..(stop - 1)
               PROVE  /\ i \in Nat /\ i \div PageSize + 1 \in 1..Len(held[r])
                      /\ PageAt(r, i) \in Usable /\ PageAt(r, i) \in Page /\ PageAt(r, i) # SinkPage
                      /\ i % PageSize \in Offset /\ PlaceOf(s, i) = PageAt(r, i)
    OBVIOUS
  <2>1. /\ i \in Nat /\ i \div PageSize + 1 \in 1..Len(held[r])
        /\ PageAt(r, i) \in Range(held[r]) /\ i % PageSize \in Offset
    BY <1>6, FillPages
  <2>2. PageAt(r, i) \in Usable
    BY <2>1, HeldPages, RangeOfLine
  <2>3. PageAt(r, i) \in Page /\ PageAt(r, i) # SinkPage
    BY <2>2, NPagesAssumption DEF Usable, SinkPage, Page
  <2>4. assigned[s] = held[r]
    BY <1>1 DEF PlaceInv, Tables
  <2>5. i \div PageSize < Len(held[r])
    <3>1. i \div PageSize \in Nat
      BY <2>1, EngineAssumption, Division
    <3>2. Len(held[r]) \in Nat
      BY HeldPages
    <3> QED
      BY <2>1, <3>1, <3>2
  <2> QED
    BY <2>1, <2>2, <2>3, <2>4, <2>5 DEF PlaceOf, PageAt
<1>9. Seen(s, start) = Start(text, start) /\ Start(text, start) \in Seq(Token)
  <2>1. Holds(r, start, text)
    BY <1>2, <1>3, <1>7, StartPassed DEF FirstPasses
  <2>2. start <= Len(held[r]) * PageSize
    <3>1. Len(held[r]) * PageSize \in Nat
      BY HeldPages, EngineAssumption
    <3>2. CASE start = 0
      BY <3>1, <3>2
    <3>3. CASE start # 0
      <4>1. PICK k \in Nat : k = Len(held[r])
        BY HeldPages
      <4>2. PICK i \in Nat : i = start - 1 /\ i \in 0..(done[r] - 1)
        BY <1>7, <1>5, <3>3
      <4>3. i \div PageSize + 1 \in 1..k
        BY <4>1, <4>2, FillPages
      <4>4. /\ i \div PageSize + 1 \in Nat /\ (i \div PageSize + 1) * PageSize \in Nat
            /\ i < (i \div PageSize + 1) * PageSize
        BY PageEnd
      <4>5. PICK d \in Nat : d = i \div PageSize + 1 /\ d <= k
        BY <4>3, <4>4
      <4>6. d * PageSize <= k * PageSize /\ i < d * PageSize /\ d * PageSize \in Nat /\ k * PageSize \in Nat
        BY <4>4, <4>5, EngineAssumption, Multiples
      <4> QED
        BY <4>1, <4>2, <4>6
    <3> QED
      BY <3>2, <3>3
  <2>3. Seen(s, start) = Start(text, start)
    BY <1>1, <1>4, <1>7, <2>1, <2>2, SeenText
  <2> QED
    BY <2>3, <1>4, <1>7, StartOfStart
<1>10. ASSUME NEW m \in 0..len, start <= m
       PROVE  Extend(Seen(s, start), SubSeq(text, start + 1, m)) = Start(text, m)
  <2>1. /\ SubSeq(text, start + 1, m) \in Seq(Token)
        /\ Start(text, start) \o SubSeq(text, start + 1, m) = Start(text, m)
    BY <1>4, <1>7, <1>10, StartAndMore
  <2>2. Junk \notin Range(SubSeq(text, start + 1, m))
    <3>1. Range(SubSeq(text, start + 1, m)) \subseteq Token
      BY <2>1, RangeOfLine
    <3> QED
      BY <3>1, EngineAssumption
  <2>3. Start(text, start) # Junk
    BY <1>9, EngineAssumption
  <2> QED
    BY <1>9, <2>1, <2>2, <2>3 DEF Extend
<1> DEFINE all == [i \in start..(stop - 1) |-> Extend(Seen(s, start), SubSeq(text, start + 1, i + 1))]
<1>11. cache' = Written(cache, s, start, stop, all)
  BY <1>1, <1>2, <1>3 DEF FirstPasses, Prefill
<1>12. \A i \in start..(stop - 1) : all[i] = Start(text, i + 1)
  BY <1>6, <1>10
<1> HIDE DEF all
<1>13. ASSUME NEW i \in start..(stop - 1)
       PROVE  cache'[PageAt(r, i)][i % PageSize] = Start(text, i + 1)
  <2>1. /\ PageAt(r, i) \in Page /\ PageAt(r, i) # SinkPage /\ i % PageSize \in Offset
        /\ PlaceOf(s, i) = PageAt(r, i)
    BY <1>8
  <2>2. cache'[PageAt(r, i)][i % PageSize]
          = all[CHOOSE j \in start..(stop - 1) :
                  PlaceOf(s, j) = PageAt(r, i) /\ j % PageSize = i % PageSize]
    BY <1>11, <2>1 DEF Written
  <2>3. \A j \in start..(stop - 1) :
          PlaceOf(s, j) = PageAt(r, i) /\ j % PageSize = i % PageSize => j = i
    BY <1>8, SameCell
  <2>4. PICK j \in start..(stop - 1) :
          /\ PlaceOf(s, j) = PageAt(r, i) /\ j % PageSize = i % PageSize
          /\ cache'[PageAt(r, i)][i % PageSize] = all[j]
    BY <2>1, <2>2
  <2>5. j = i
    BY <2>3, <2>4
  <2> QED
    BY <1>12, <2>4, <2>5
<1>14. ASSUME NEW p \in Page, NEW o \in Offset,
              \A i \in start..(stop - 1) : ~(PageAt(r, i) = p /\ i % PageSize = o)
       PROVE  cache'[p][o] = cache[p][o]
  <2>1. ~\E i \in start..(stop - 1) : PlaceOf(s, i) = p /\ i % PageSize = o
    BY <1>8, <1>14
  <2> QED
    BY <1>11, <2>1 DEF Written
<1>15. Extend(Seen(s, start), SubSeq(text, start + 1, stop)) = Start(text, stop)
  <2>1. stop \in 0..len /\ start <= stop
    BY <1>5
  <2> QED
    BY <2>1, <1>10
<1> QED
  BY <1>1, <1>2, <1>3, <1>13, <1>14, <1>15

\* What a cell will hold it will hold after a piece has passed.
LEMMA WillPassed ==
  ASSUME IInv, PiecesApart, PlaceInv, TextInv, pc \in {"pass", "mixpass"},
         NEW piece \in Piece, NEW stop \in Nat, FirstPasses(piece, stop), 1 \in 1..Len(chunks),
         NEW r \in Range(filling), piece.req = r, r \in Request,
         piece.stop <= done[r], piece.stop <= Len(PromptOf(r)), UNCHANGED <<held, tokens>>,
         NEW p \in Page, NEW o \in Offset, NEW text, Will(p, o, text)
  PROVE  Will(p, o, text)'
<1>1. PICK k \in {0, 1} :
        /\ k = 1 <=> stop = piece.stop
        /\ \A i \in 1..Len(chunks') :
             /\ i + k \in 1..Len(chunks)
             /\ chunks'[i].req = chunks[i + k].req /\ chunks'[i].stop = chunks[i + k].stop
             /\ chunks[i + k].start <= chunks'[i].start
             /\ i + k = 1 => chunks'[i].start = stop
        /\ \A j \in 1..Len(chunks) : j # 1 \/ k = 0 =>
             /\ j - k \in 1..Len(chunks')
             /\ chunks'[j - k].req = chunks[j].req /\ chunks'[j - k].stop = chunks[j].stop
             /\ j # 1 => chunks'[j - k].start = chunks[j].start
  BY PiecesLeft
<1>2. /\ piece = chunks[1] /\ piece.start \in Nat /\ piece.stop \in Nat
      /\ piece.start < stop /\ stop <= piece.stop
  BY DEF FirstPasses, Piece
<1>3. /\ \A x : PromptOf(x)' = PromptOf(x) /\ \A n : PageAt(x, n)' = PageAt(x, n)
  BY DEF PromptOf, PageAt
<1>4. \A j \in 1..Len(chunks) : chunks[j].start \in Nat /\ chunks[j].stop \in Nat
  <2>1. chunks \in Seq(Piece)
    BY DEF IInv, PassTypes
  <2>2. \A j \in 1..Len(chunks) : chunks[j] \in Piece
    BY <2>1
  <2>3. \A x \in Piece : x.start \in Nat /\ x.stop \in Nat
    BY DEF Piece
  <2> QED
    BY <2>2, <2>3
<1>5. \A i \in 1..Len(chunks') : chunks'[i].start \in Nat
  <2>1. chunks' \in Seq(Piece)
    <3>1. chunks \in Seq(Piece) /\ chunks # <<>>
      BY DEF IInv, PassTypes, FirstPasses
    <3>2. CASE chunks' = Tail(chunks)
      BY <3>1, <3>2
    <3>3. CASE chunks' = [chunks EXCEPT ![1].start = stop]
      <4>1. PICK rest \in Piece : rest = [piece EXCEPT !.start = stop]
        BY DEF Piece
      <4>2. chunks' = [chunks EXCEPT ![1] = rest]
        BY <1>2, <3>3, <4>1
      <4> QED
        BY <3>1, <4>1, <4>2
    <3> QED
      BY <3>2, <3>3 DEF FirstPasses
  <2>2. \A j \in 1..Len(chunks') : chunks'[j] \in Piece
    BY <2>1
  <2>3. \A x \in Piece : x.start \in Nat
    BY DEF Piece
  <2> QED
    BY <2>2, <2>3
<1>6. ASSUME NEW i \in 1..Len(chunks'), NEW n \in Nat, Writes(chunks[i], n, p, o)'
      PROVE  (Start(PromptOf(chunks[i].req), n + 1) = text)'
  <2>1. PICK j \in 1..Len(chunks) : j = i + k
    BY <1>1
  <2>2. /\ chunks'[i].req = chunks[j].req /\ chunks'[i].stop = chunks[j].stop
        /\ chunks[j].start <= chunks'[i].start
    BY <1>1, <2>1
  <2>3. /\ chunks'[i].start <= n /\ n < chunks'[i].stop
        /\ PageAt(chunks[j].req, n) = p /\ n % PageSize = o
    <3>1. PageAt(chunks[i].req, n)' = p
      BY <1>6 DEF Writes
    <3> QED
      BY <1>3, <1>6, <2>2, <3>1 DEF Writes
  <2>4. chunks[j].start <= n
    <3>1. chunks[j].start \in Nat /\ chunks'[i].start \in Nat
      BY <1>4, <1>5
    <3>2. \A a, b, c \in Nat : a <= b /\ b <= c => a <= c
      OBVIOUS
    <3> QED
      BY <2>2, <2>3, <3>1, <3>2, Zenon
  <2>5. Writes(chunks[j], n, p, o)
    BY <2>2, <2>3, <2>4 DEF Writes
  <2>6. Start(PromptOf(chunks[j].req), n + 1) = text
    BY <2>5 DEF Will
  <2> QED
    BY <1>3, <2>2, <2>6 DEF Start
<1>7. ASSUME Unwritten(p, o)'
      PROVE  cache'[p][o] = text
  <2>1. CASE \E i \in piece.start..(stop - 1) : PageAt(r, i) = p /\ i % PageSize = o
    <3>1. PICK i \in piece.start..(stop - 1) : PageAt(r, i) = p /\ i % PageSize = o
      BY <2>1
    <3>2. i \in Nat /\ piece.start <= i /\ i < piece.stop
      BY <1>2
    <3>3. Writes(chunks[1], i, p, o)
      BY <1>2, <3>1, <3>2 DEF Writes
    <3>4. Start(PromptOf(r), i + 1) = text
      BY <1>2, <3>2, <3>3 DEF Will
    <3>5. cache'[PageAt(r, i)][i % PageSize] = Start(PromptOf(r), i + 1)
      BY PieceWrites
    <3> QED
      BY <3>1, <3>4, <3>5
  <2>2. CASE ~\E i \in piece.start..(stop - 1) : PageAt(r, i) = p /\ i % PageSize = o
    <3>1. cache'[p][o] = cache[p][o]
      BY <2>2, PieceWrites
    <3>2. ASSUME NEW j \in 1..Len(chunks), NEW n \in Nat, Writes(chunks[j], n, p, o)
          PROVE  FALSE
      <4>1. /\ chunks[j].start <= n /\ n < chunks[j].stop
            /\ PageAt(chunks[j].req, n) = p /\ n % PageSize = o
        BY <3>2 DEF Writes
      <4>2. j = 1 => stop <= n
        <5> SUFFICES ASSUME j = 1 PROVE stop <= n
          OBVIOUS
        <5>1. piece.start <= n /\ PageAt(r, n) = p /\ n % PageSize = o
          BY <1>2, <4>1
        <5>2. n \notin piece.start..(stop - 1)
          BY <2>2, <5>1
        <5> QED
          BY <1>2, <5>1, <5>2
      <4>3. j # 1 \/ k = 0
        <5> SUFFICES ASSUME j = 1, k = 1 PROVE FALSE
          OBVIOUS
        <5>1. stop = piece.stop
          BY <1>1
        <5>2. stop <= n /\ n < piece.stop
          BY <1>2, <4>1, <4>2
        <5> QED
          BY <5>1, <5>2
      <4>4. PICK i \in 1..Len(chunks') : i = j - k
        BY <1>1, <4>3
      <4>5. /\ chunks'[i].req = chunks[j].req /\ chunks'[i].stop = chunks[j].stop
            /\ j # 1 => chunks'[i].start = chunks[j].start
        BY <1>1, <4>3, <4>4
      <4>6. j = 1 => chunks'[i].start = stop
        <5> SUFFICES ASSUME j = 1 PROVE chunks'[i].start = stop
          OBVIOUS
        <5>1. k = 0
          BY <4>3
        <5>2. i + k = 1
          BY <4>4, <5>1
        <5> QED
          BY <1>1, <5>2
      <4>7. chunks'[i].start <= n
        BY <4>1, <4>2, <4>5, <4>6
      <4>8. PageAt(chunks[i].req, n)' = p
        BY <1>3, <4>1, <4>5
      <4>9. Writes(chunks[i], n, p, o)'
        BY <4>1, <4>5, <4>7, <4>8 DEF Writes
      <4> QED
        BY <1>7, <4>9 DEF Unwritten
    <3>3. Unwritten(p, o)
      BY <3>2 DEF Unwritten
    <3> QED
      BY <3>1, <3>3 DEF Will
  <2> QED
    BY <2>1, <2>2
<1> QED
  BY <1>6, <1>7 DEF Will

\* What a piece that passes sets: its row's place on the device and, if it is the prompt's
\* last, a draw from the whole prompt.
LEMMA PieceSets ==
  ASSUME IInv, PiecesApart, PlaceInv, TextInv, pc \in {"pass", "mixpass"},
         NEW piece \in Piece, NEW stop \in Nat, FirstPasses(piece, stop), 1 \in 1..Len(chunks),
         NEW r \in Range(filling), piece.req = r, r \in Request,
         piece.stop <= done[r], piece.stop <= Len(PromptOf(r))
  PROVE  /\ \A t \in Slot : rows[t] # r =>
              devPos'[t] = devPos[t] /\ devTok'[t] = devTok[t] /\ devKey'[t] = devKey[t]
         /\ \/ /\ stop # Len(PromptOf(r)) /\ UNCHANGED <<owners, filling>>
               /\ \A t \in Slot : rows[t] = r => devPos'[t] = MaxSeq - 1
            \/ /\ stop = Len(PromptOf(r)) /\ Range(filling') = Range(filling) \ {r}
               /\ \E it :
                    /\ owners' = Append(owners, it) /\ it.req = r /\ it.token \in Token
                    /\ it.text = PromptOf(r) /\ it.at = Len(PromptOf(r)) /\ it.key = r
                    /\ \A t \in Slot : rows[t] = r =>
                         devPos'[t] = stop /\ devTok'[t] = it.token /\ devKey'[t] = r
<1>1. PICK s \in Slot : s = SlotOf(r) /\ rows[s] = r /\ rows[s] # None
  BY SlotOfRow, EngineAssumption DEF IInv, Admission
<1>2. \A t \in Slot : rows[t] = r <=> t = s
  BY <1>1 DEF IInv, Admission
<1>3. /\ devPos \in [Slot -> Nat] /\ devTok \in [Slot -> Token \cup {Junk}]
      /\ devKey \in [Slot -> Request \cup {None}]
  BY DEF IInv, DeviceTypes
<1> DEFINE q    == piece.req
           slot == SlotOf(q)
           seen == Seen(slot, piece.start)
           all  == [i \in piece.start..(stop - 1) |->
                      Extend(seen, SubSeq(PromptOf(q), piece.start + 1, i + 1))]
           last == all[stop - 1]
<1>4. /\ devKey' = [devKey EXCEPT ![s] = r]
      /\ \/ /\ stop = Len(PromptOf(r))
            /\ \E t \in Token :
                 /\ devTok' = [devTok EXCEPT ![s] = t]
                 /\ devPos' = [devPos EXCEPT ![s] = stop]
                 /\ owners' = Append(owners, [slot |-> s, req |-> r, token |-> t, key |-> r,
                                              text |-> last, at |-> stop, prompt |-> TRUE])
                 /\ filling' = Without(filling, r)
         \/ /\ stop # Len(PromptOf(r))
            /\ devTok' = [devTok EXCEPT ![s] = Junk]
            /\ devPos' = [devPos EXCEPT ![s] = MaxSeq - 1]
            /\ UNCHANGED <<owners, filling>>
  <2>1. Prefill(piece, stop)
    BY DEF FirstPasses
  <2>2. /\ devKey' = [devKey EXCEPT ![slot] = q]
        /\ \/ /\ stop = Len(PromptOf(q))
              /\ \E t \in Token :
                   /\ devTok' = [devTok EXCEPT ![slot] = t]
                   /\ devPos' = [devPos EXCEPT ![slot] = stop]
                   /\ owners' = Append(owners, [slot |-> slot, req |-> q, token |-> t, key |-> q,
                                                text |-> last, at |-> stop, prompt |-> TRUE])
                   /\ filling' = Without(filling, q)
           \/ /\ stop # Len(PromptOf(q))
              /\ devTok' = [devTok EXCEPT ![slot] = Junk]
              /\ devPos' = [devPos EXCEPT ![slot] = MaxSeq - 1]
              /\ UNCHANGED <<owners, filling>>
    BY <2>1 DEF Prefill
  <2> HIDE DEF last
  <2>3. q = r /\ slot = s
    BY <1>1
  <2> QED
    BY <2>2, <2>3
<1>5. last = Start(PromptOf(r), stop)
  <2>1. piece.start \in Nat /\ piece.start < stop
    BY DEF FirstPasses, Piece
  <2>2. stop - 1 \in piece.start..(stop - 1) /\ stop - 1 + 1 = stop
    BY <2>1
  <2>3. last = Extend(Seen(s, piece.start), SubSeq(PromptOf(r), piece.start + 1, stop))
    <3>1. last = Extend(seen, SubSeq(PromptOf(q), piece.start + 1, stop - 1 + 1))
      BY <2>2
    <3>2. seen = Seen(s, piece.start) /\ PromptOf(q) = PromptOf(r)
      BY <1>1
    <3> HIDE DEF q, slot, seen, all, last
    <3> QED
      BY <2>2, <3>1, <3>2
  <2> QED
    BY <1>1, <2>3, PieceWrites
<1> HIDE DEF last
<1>6. \A t \in Slot : rows[t] # r =>
        devPos'[t] = devPos[t] /\ devTok'[t] = devTok[t] /\ devKey'[t] = devKey[t]
  <2> SUFFICES ASSUME NEW t \in Slot, t # s
               PROVE  devPos'[t] = devPos[t] /\ devTok'[t] = devTok[t] /\ devKey'[t] = devKey[t]
    BY <1>2
  <2> QED
    BY <1>3, <1>4
<1>7. CASE stop # Len(PromptOf(r))
  <2>1. devPos'[s] = MaxSeq - 1 /\ UNCHANGED <<owners, filling>>
    BY <1>3, <1>4, <1>7
  <2> QED
    BY <1>2, <1>6, <1>7, <2>1
<1>8. CASE stop = Len(PromptOf(r))
  <2>1. PICK t \in Token :
          /\ devTok' = [devTok EXCEPT ![s] = t]
          /\ devPos' = [devPos EXCEPT ![s] = stop]
          /\ owners' = Append(owners, [slot |-> s, req |-> r, token |-> t, key |-> r,
                                       text |-> last, at |-> stop, prompt |-> TRUE])
          /\ filling' = Without(filling, r)
    BY <1>4, <1>8
  <2>2. PICK it : it = [slot |-> s, req |-> r, token |-> t, key |-> r,
                        text |-> last, at |-> stop, prompt |-> TRUE]
    OBVIOUS
  <2>3. it.req = r /\ it.token = t /\ it.text = last /\ it.at = stop /\ it.key = r
    BY <2>2
  <2>4. Range(filling') = Range(filling) \ {r}
    <3>1. filling \in Seq(Request) /\ Once(filling)
      BY DEF IInv, RowTypes, Admission
    <3> QED
      BY <2>1, <3>1, WithoutOnce
  <2>5. last = PromptOf(r)
    <3>1. PromptOf(r) \in Seq(Token)
      BY TextOfRequest DEF IInv
    <3> QED
      BY <1>5, <1>8, <3>1, WholeStart
  <2>6. \A u \in Slot : rows[u] = r => devPos'[u] = stop /\ devTok'[u] = t /\ devKey'[u] = r
    BY <1>2, <1>3, <1>4, <2>1
  <2>7. owners' = Append(owners, it)
    BY <2>1, <2>2
  <2> QED
    BY <1>6, <1>8, <2>3, <2>4, <2>5, <2>6, <2>7
<1> QED
  BY <1>7, <1>8

\* A piece passes: the pages will hold what they were to hold.
LEMMA PassPiecePages ==
  ASSUME IInv, PiecesApart, PlaceInv, TextInv, PassPiece
  PROVE  PageInv'
<1>1. /\ pc \in {"pass", "mixpass"} /\ pc' = pc /\ pc' # "sharing" /\ pc' \in Passing
      /\ UNCHANGED <<rows, held, done, tokens, placed, digestOf>>
  BY DEF PassPiece, At, Passing, requestVars, poolVars
<1>2. PICK piece \in Piece, stop \in Nat, r \in Range(filling) :
        /\ FirstPasses(piece, stop) /\ piece.req = r /\ r \in Request
        /\ piece.stop <= done[r] /\ piece.stop <= Len(PromptOf(r)) /\ 1 \in 1..Len(chunks)
  BY PieceFirst
<1>3. PICK k \in {0, 1} :
        /\ k = 1 <=> stop = piece.stop
        /\ \A i \in 1..Len(chunks') :
             /\ i + k \in 1..Len(chunks)
             /\ chunks'[i].req = chunks[i + k].req /\ chunks'[i].stop = chunks[i + k].stop
             /\ chunks[i + k].start <= chunks'[i].start
             /\ i + k = 1 => chunks'[i].start = stop
        /\ \A j \in 1..Len(chunks) : j # 1 \/ k = 0 =>
             /\ j - k \in 1..Len(chunks')
             /\ chunks'[j - k].req = chunks[j].req /\ chunks'[j - k].stop = chunks[j].stop
             /\ j # 1 => chunks'[j - k].start = chunks[j].start
  BY <1>2, PiecesLeft
<1>4. \A p \in Page, o \in Offset : \A text : Will(p, o, text) => Will(p, o, text)'
  BY <1>1, <1>2, WillPassed
<1>5. Range(filling') \subseteq Range(filling)
  BY <1>1, <1>2, PieceSets
<1>6. placed = <<>> /\ Range(placed) = {}
  <2>1. placed = <<>>
    BY <1>1 DEF IInv, Placement, Placing
  <2> QED
    BY <2>1, EmptyLine
<1>7. KeptWill'
  <2> SUFFICES ASSUME NEW p \in DOMAIN digestOf, NEW o \in Offset
               PROVE  Will(p, o, Start(digestOf[p], Len(digestOf[p]) - PageSize + o + 1))'
    BY <1>1 DEF KeptWill
  <2>1. PICK text : text = Start(digestOf[p], Len(digestOf[p]) - PageSize + o + 1)
    OBVIOUS
  <2>2. Will(p, o, text)
    BY <2>1 DEF TextInv, PageInv, KeptWill
  <2>3. Will(p, o, text)'
    BY <1>4, <2>2, KeptPages
  <2> QED
    BY <1>1, <2>1, <2>3 DEF Will
<1>8. Pieces'
  <2>1. ASSUME NEW i \in 1..Len(chunks')
        PROVE  chunks'[i].stop <= done'[chunks'[i].req]
    <3>1. PICK j \in 1..Len(chunks) : j = i + k
      BY <1>3
    <3>2. chunks'[i].req = chunks[j].req /\ chunks'[i].stop = chunks[j].stop
      BY <1>3, <3>1
    <3> QED
      BY <1>1, <3>2 DEF TextInv, PageInv, Pieces
  <2>2. ASSUME NEW t \in Slot, rows'[t] \in Range(filling'), ~HasPiece(rows[t])'
        PROVE  devPos'[t] = MaxSeq - 1
    <3>1. rows[t] \in Range(filling)
      BY <1>1, <1>5, <2>2
    <3>2. CASE rows[t] = r
      BY <1>1, <1>2, <2>2, <3>2, PieceSets
    <3>3. CASE rows[t] # r
      <4>1. ~HasPiece(rows[t])
        <5> SUFFICES ASSUME NEW j \in 1..Len(chunks), chunks[j].req = rows[t]
                     PROVE  FALSE
          BY DEF HasPiece
        <5>1. j # 1
          BY <1>2, <3>3 DEF FirstPasses
        <5>2. PICK i \in 1..Len(chunks') : i = j - k
          BY <1>3, <5>1
        <5>3. chunks'[i].req = chunks[j].req
          BY <1>3, <5>1, <5>2
        <5> QED
          BY <1>1, <2>2, <5>3 DEF HasPiece
      <4>2. devPos[t] = MaxSeq - 1
        BY <3>1, <4>1 DEF TextInv, PageInv, Pieces
      <4>3. devPos'[t] = devPos[t]
        BY <1>1, <1>2, <3>3, PieceSets
      <4> QED
        BY <4>2, <4>3
    <3> QED
      BY <3>2, <3>3
  <2> QED
    BY <1>1, <1>6, <2>1, <2>2 DEF Pieces
<1>9. Fillings'
  <2> SUFFICES ASSUME NEW q \in Range(filling)
               PROVE  WillHold(q, done[q], PromptOf(q))'
    BY <1>1, <1>5, <1>6 DEF Fillings
  <2> SUFFICES ASSUME NEW i \in 0..(done[q] - 1)
               PROVE  Will(PageAt(q, i), i % PageSize, Start(PromptOf(q), i + 1))'
    BY <1>1 DEF WillHold
  <2>1. PICK p \in Page : p = PageAt(q, i)
    BY FillPages, HeldPages
  <2>2. PICK o \in Offset : o = i % PageSize
    BY FillPages
  <2>3. PICK text : text = Start(PromptOf(q), i + 1)
    OBVIOUS
  <2>4. Will(p, o, text)
    BY <2>1, <2>2, <2>3 DEF TextInv, PageInv, Fillings, WillHold
  <2>5. Will(p, o, text)'
    BY <1>4, <2>4
  <2>6. PageAt(q, i)' = p /\ Start(PromptOf(q), i + 1)' = text
    BY <1>1, <2>1, <2>3 DEF PageAt, PromptOf
  <2> QED
    BY <2>2, <2>5, <2>6
<1>10. FoundHolds' /\ Private' /\ SharedKept'
  BY <1>1 DEF TextInv, PageInv, FoundHolds, Private, SharedKept
<1>11. InTurn'
  <2> SUFFICES ASSUME NEW i \in 1..Len(chunks'), NEW n \in Nat, NEW q \in Request \ {chunks'[i].req},
                      chunks'[i].start <= n, n < chunks'[i].stop,
                      PageAt(chunks'[i].req, n) \in Range(held[q])
               PROVE  \E j \in 1..Len(chunks') : i < j /\ chunks'[j].req = q
    BY <1>1 DEF InTurn, PageAt
  <2>1. PICK j \in 1..Len(chunks) : j = i + k
    BY <1>3
  <2>2. /\ chunks'[i].req = chunks[j].req /\ chunks'[i].stop = chunks[j].stop
        /\ chunks[j].start <= chunks'[i].start
    BY <1>3, <2>1
  <2>3. chunks[j].start <= n
    <3>1. chunks[j].start \in Nat
      <4>1. chunks \in Seq(Piece)
        BY DEF IInv, PassTypes
      <4>2. chunks[j] \in Piece
        BY <4>1
      <4> QED
        BY <4>2 DEF Piece
    <3>2. chunks'[i].start \in Nat
      <4>1. chunks' \in Seq(Piece)
        <5>1. chunks \in Seq(Piece) /\ chunks # <<>>
          BY <1>2 DEF IInv, PassTypes, FirstPasses
        <5>2. CASE chunks' = Tail(chunks)
          BY <5>1, <5>2
        <5>3. CASE chunks' = [chunks EXCEPT ![1].start = stop]
          <6>1. PICK rest \in Piece : rest = [piece EXCEPT !.start = stop]
            BY DEF Piece
          <6>2. chunks' = [chunks EXCEPT ![1] = rest]
            BY <1>2, <5>3, <6>1 DEF FirstPasses
          <6> QED
            BY <5>1, <6>1, <6>2
        <5> QED
          BY <1>2, <5>2, <5>3 DEF FirstPasses
      <4>2. chunks'[i] \in Piece
        BY <4>1
      <4> QED
        BY <4>2 DEF Piece
    <3>3. \A a, b, c \in Nat : a <= b /\ b <= c => a <= c
      OBVIOUS
    <3> QED
      BY <2>2, <3>1, <3>2, <3>3, Zenon
  <2>4. PICK l \in 1..Len(chunks) : j < l /\ chunks[l].req = q
    BY <1>1, <2>2, <2>3 DEF TextInv, PageInv, InTurn
  <2>5. l # 1 /\ i < l - k
    BY <2>1, <2>4
  <2>6. l - k \in 1..Len(chunks') /\ chunks'[l - k].req = q
    BY <1>3, <2>4, <2>5
  <2> QED
    BY <2>5, <2>6
<1> QED
  BY <1>7, <1>8, <1>9, <1>10, <1>11 DEF PageInv

\* The other rows stand as they did when a piece passes.
LEMMA OthersStandOn ==
  ASSUME IInv, IInv', ReadInv, PiecesApart, PlaceInv, TextInv, PassPiece,
         NEW piece \in Piece, NEW stop \in Nat, FirstPasses(piece, stop), 1 \in 1..Len(chunks),
         NEW r \in Range(filling), piece.req = r, r \in Request,
         piece.stop <= done[r], piece.stop <= Len(PromptOf(r)),
         NEW t \in Slot, Filled(t), rows[t] # r,
         NEW whole \in Seq(Token) \ {<<>>}, Stands(t, whole)
  PROVE  Stands(t, whole)'
<1>1. /\ pc \in {"pass", "mixpass"} /\ pc \in Passing /\ pc # "sharing"
      /\ UNCHANGED <<rows, held, done>>
  BY DEF PassPiece, At, Passing
<1>2. PICK q \in Request : q = rows[t] /\ q # None /\ q # r /\ q \notin Range(filling)
  BY RowRuns DEF Filled
<1>3. placed = <<>> /\ Range(placed) = {}
  <2>1. placed = <<>>
    BY <1>1 DEF IInv, Placement, Placing
  <2> QED
    BY <2>1, EmptyLine
<1>4. /\ piece = chunks[1] /\ piece.start \in Nat /\ piece.stop \in Nat /\ stop <= piece.stop
  BY DEF FirstPasses, Piece
<1>5. ASSUME NEW i \in 0..(Bounded(whole) - 1)
      PROVE  cache'[PageAt(q, i)][i % PageSize] = cache[PageAt(q, i)][i % PageSize]
  <2>1. PageAt(q, i) \in Range(held[q]) /\ i % PageSize \in Offset
    BY <1>2, RowPages
  <2>2. PageAt(q, i) \in Page
    BY <2>1, HeldPages
  <2>3. ASSUME NEW m \in piece.start..(stop - 1), PageAt(r, m) = PageAt(q, i)
        PROVE  FALSE
    <3>1. m \in Nat /\ piece.start <= m /\ m < piece.stop
      BY <1>4
    <3>2. PICK j \in 1..Len(chunks) : 1 < j /\ chunks[j].req = q
      BY <1>1, <1>2, <1>4, <2>1, <2>3, <3>1 DEF TextInv, PageInv, InTurn
    <3>3. q \in Range(filling) \cup Range(placed)
      BY <1>1, <3>2 DEF PiecesApart
    <3> QED
      BY <1>2, <1>3, <3>3
  <2> QED
    BY <1>1, <2>1, <2>2, <2>3, PieceWrites
<1>6. devPos'[t] = devPos[t] /\ devTok'[t] = devTok[t] /\ devKey'[t] = devKey[t]
  BY <1>1, PieceSets
<1>7. Onward
  BY DEF Onward
<1>8. Bounded(whole) <= Len(held'[rows[t]]) * PageSize
  BY <1>1 DEF Stands
<1>9. \A i \in 0..(Bounded(whole) - 1) :
        cache'[held'[rows[t]][i \div PageSize + 1]][i % PageSize]
          = cache[PageAt(rows[t], i)][i % PageSize]
  BY <1>1, <1>2, <1>5 DEF PageAt
<1> QED
  BY <1>1, <1>6, <1>7, <1>8, <1>9, StandsKept

\* What is drawn of another request leaves a text growing as it did.
LEMMA GrowsBeside ==
  ASSUME UNCHANGED <<queued, reading, tokens>>, NEW q, NEW f, NEW whole, Grows(q, f, whole),
         \/ Due' = Due
         \/ Due \in Seq(Draw) /\ \E it : it.req # q /\ Due' = Append(Due, it)
  PROVE  Grows(q, f, whole)'
<1>1. PromptOf(q)' = PromptOf(q)
  BY DEF PromptOf
<1>2. Passes(q, Due', f[Len(queued)], whole)
  <2>1. Passes(q, Due, f[Len(queued)], whole)
    BY DEF Grows
  <2>2. CASE Due' = Due
    BY <2>1, <2>2
  <2>3. CASE Due' # Due
    <3>1. PICK it : it.req # q /\ Due' = Append(Due, it) /\ Due \in Seq(Draw)
      BY <2>3
    <3>2. PICK n \in Nat : n = Len(Due)
      BY <3>1
    <3>3. Len(Due') = n + 1 /\ Due'[n + 1] = it /\ \A j \in 1..n : Due'[j] = Due[j]
      BY <3>1, <3>2
    <3>4. \A j \in 1..(n + 1) : j \in 1..n \/ j = n + 1
      OBVIOUS
    <3>5. \A j \in 1..n : j \in 1..(n + 1)
      OBVIOUS
    <3>6. ~Drawn(q, Due') => ~Drawn(q, Due)
      BY <3>2, <3>3, <3>5 DEF Drawn
    <3>7. \A j \in 1..Len(Due') : Due'[j].req = q => j \in 1..Len(Due) /\ Due'[j] = Due[j]
      BY <3>1, <3>2, <3>3, <3>4
    <3> QED
      BY <2>1, <3>6, <3>7 DEF Passes
  <2> QED
    BY <2>2, <2>3
<1>3. Passes(q, reading, PromptOf(q), f[0])'
  BY <1>1 DEF Grows, Passes, Drawn
<1>4. Passes(q, Due, f[Len(queued)], whole)'
  BY <1>2 DEF Passes, Drawn
<1>5. \A i \in 1..Len(queued') : Passes(q, queued[i], f[i - 1], f[i])'
  BY DEF Grows, Passes, Drawn
<1> QED
  BY <1>3, <1>4, <1>5 DEF Grows

\* A prompt all of which has passed is in the pages of its row.
LEMMA WholeInPages ==
  ASSUME IInv, PiecesApart, PlaceInv, TextInv, UNCHANGED <<held, tokens>>,
         pc \in {"pass", "mixpass"},
         NEW piece \in Piece, NEW stop \in Nat, FirstPasses(piece, stop), 1 \in 1..Len(chunks),
         NEW r \in Range(filling), piece.req = r, r \in Request,
         piece.stop <= done[r], piece.stop <= Len(PromptOf(r)), stop = Len(PromptOf(r))
  PROVE  /\ done[r] = stop /\ stop <= Len(held[r]) * PageSize
         /\ \A i \in 0..(stop - 1) :
              cache'[PageAt(r, i)][i % PageSize] = Start(PromptOf(r), i + 1)
<1>1. /\ piece = chunks[1] /\ piece.start \in Nat /\ piece.stop \in Nat /\ stop <= piece.stop
      /\ stop = piece.stop
  <2>1. piece = chunks[1] /\ piece.start \in Nat /\ piece.stop \in Nat /\ stop <= piece.stop
    BY DEF FirstPasses, Piece
  <2>2. piece.stop <= stop
    OBVIOUS
  <2> QED
    BY <2>1, <2>2
<1>2. done[r] = stop
  <2>1. done[r] <= stop
    BY DEF IInv, FillingHold
  <2>2. stop <= done[r] /\ done[r] \in Nat
    BY <1>1 DEF IInv, RowTypes
  <2> QED
    BY <2>1, <2>2
<1>3. stop <= Len(held[r]) * PageSize
  <2>1. PICK k \in Nat : k = Len(held[r])
    BY HeldPages
  <2>2. /\ stop \div PageSize + 1 \in Nat /\ (stop \div PageSize + 1) * PageSize \in Nat
        /\ stop < (stop \div PageSize + 1) * PageSize
    BY PageEnd
  <2>3. PICK d \in Nat : d = stop \div PageSize + 1
    BY <2>2
  <2>4. d <= k
    <3>1. k >= d
      BY <2>1, <2>3 DEF IInv, FillingHold, PagesFor
    <3> QED
      BY <3>1
  <2>5. /\ d * PageSize <= k * PageSize /\ stop < d * PageSize /\ d * PageSize \in Nat
        /\ k * PageSize \in Nat
    BY <2>2, <2>3, <2>4, EngineAssumption, Multiples
  <2> QED
    BY <2>1, <2>5
<1>4. ASSUME NEW i \in 0..(stop - 1)
      PROVE  cache'[PageAt(r, i)][i % PageSize] = Start(PromptOf(r), i + 1)
  <2>1. i \in 0..(done[r] - 1)
    BY <1>2
  <2>2. /\ i \in Nat /\ PageAt(r, i) \in Range(held[r]) /\ PageAt(r, i) \in Page
        /\ i % PageSize \in Offset
    BY <2>1, FillPages, HeldPages
  <2>3. Will(PageAt(r, i), i % PageSize, Start(PromptOf(r), i + 1))
    BY <2>1 DEF TextInv, PageInv, Fillings, WillHold
  <2>4. PICK p \in Page, o \in Offset : p = PageAt(r, i) /\ o = i % PageSize
    BY <2>2
  <2>5. PICK text : text = Start(PromptOf(r), i + 1)
    OBVIOUS
  <2>6. Will(p, o, text)'
    BY <2>3, <2>4, <2>5, WillPassed
  <2>7. PICK k \in {0, 1} :
          /\ k = 1 <=> stop = piece.stop
          /\ \A j \in 1..Len(chunks') :
               /\ j + k \in 1..Len(chunks)
               /\ chunks'[j].req = chunks[j + k].req /\ chunks'[j].stop = chunks[j + k].stop
               /\ chunks[j + k].start <= chunks'[j].start
               /\ j + k = 1 => chunks'[j].start = stop
          /\ \A j \in 1..Len(chunks) : j # 1 \/ k = 0 =>
               /\ j - k \in 1..Len(chunks')
               /\ chunks'[j - k].req = chunks[j].req /\ chunks'[j - k].stop = chunks[j].stop
               /\ j # 1 => chunks'[j - k].start = chunks[j].start
    BY PiecesLeft
  <2>8. ASSUME NEW j \in 1..Len(chunks'), NEW m \in Nat, Writes(chunks[j], m, p, o)'
        PROVE  FALSE
    <3>1. PICK l \in 1..Len(chunks) : l = j + k /\ l # 1
      BY <1>1, <2>7
    <3>2. /\ chunks'[j].req = chunks[l].req /\ chunks'[j].stop = chunks[l].stop
          /\ chunks[l].start <= chunks'[j].start
      BY <2>7, <3>1
    <3>3. /\ chunks'[j].start <= m /\ m < chunks'[j].stop
          /\ PageAt(chunks[l].req, m) = p
      BY <2>8, <3>2 DEF Writes, PageAt
    <3>4. chunks[l].start <= m
      <4>1. chunks[l].start \in Nat
        <5>1. chunks \in Seq(Piece)
          BY DEF IInv, PassTypes
        <5>2. chunks[l] \in Piece
          BY <5>1
        <5> QED
          BY <5>2 DEF Piece
      <4>2. chunks'[j].start \in Nat
        <5>1. l - k = j
          BY <3>1
        <5>2. chunks'[l - k].start = chunks[l].start
          BY <1>1, <2>7, <3>1
        <5> QED
          BY <4>1, <5>1, <5>2
      <4>3. \A a, b, c \in Nat : a <= b /\ b <= c => a <= c
        OBVIOUS
      <4> QED
        BY <3>2, <3>3, <4>1, <4>2, <4>3, Zenon
    <3>5. pc \in Passing /\ pc # "sharing"
      BY DEF Passing
    <3>6. chunks[l].req # r
      BY <1>1, <3>1, <3>5 DEF PiecesApart
    <3>7. PICK h \in 1..Len(chunks) : l < h /\ chunks[h].req = r
      BY <2>2, <2>4, <3>2, <3>3, <3>4, <3>5, <3>6 DEF TextInv, PageInv, InTurn
    <3>8. h = 1
      BY <1>1, <3>5, <3>7 DEF PiecesApart
    <3> QED
      BY <3>7, <3>8
  <2>9. Unwritten(p, o)'
    BY <2>8 DEF Unwritten
  <2> QED
    BY <2>4, <2>6, <2>9, <2>5 DEF Will
<1> QED
  BY <1>2, <1>3, <1>4

\* The row of a prompt all of which has passed stands at the end of it, with the token drawn.
LEMMA WholeStands ==
  ASSUME IInv, AheadInv, PiecesApart, PlaceInv, TextInv, UNCHANGED <<held, tokens, rows, done>>,
         pc \in {"pass", "mixpass"},
         NEW piece \in Piece, NEW stop \in Nat, FirstPasses(piece, stop), 1 \in 1..Len(chunks),
         NEW r \in Range(filling), piece.req = r, r \in Request,
         piece.stop <= done[r], piece.stop <= Len(PromptOf(r)), stop = Len(PromptOf(r)),
         NEW token \in Token, NEW whole, whole = Append(PromptOf(r), token),
         NEW t \in Slot, rows[t] = r,
         devPos'[t] = stop, devTok'[t] = token, devKey'[t] = r
  PROVE  Stands(t, whole)'
<1>1. PICK text \in Seq(Token) : text = PromptOf(r)
  BY TextOfRequest DEF IInv
<1>2. stop < MaxSeq /\ MaxSeq \in Nat
  <2>1. reason[r] = ""
    BY NotDrawnYet
  <2> QED
    BY <2>1, EngineAssumption DEF AheadInv, Budgets, HasRoom
<1>3. /\ whole \in Seq(Token) \ {<<>>} /\ Len(whole) = stop + 1 /\ whole[stop + 1] = token
      /\ \A m \in 0..stop : Start(whole, m) = Start(text, m)
  BY <1>1, OneTokenMore
<1>4. Bounded(whole) = stop /\ Len(whole) - 1 = stop
  <2>1. stop + 1 <= MaxSeq /\ stop + 1 - 1 = stop
    BY <1>2
  <2>2. Len(whole) <= MaxSeq
    BY <1>3, <2>1
  <2>3. Bounded(whole) = Len(whole) - 1
    BY <1>3, <2>2, BoundedNumbers
  <2> QED
    BY <1>3, <2>1, <2>3
<1>5. /\ done[r] = stop /\ stop <= Len(held[r]) * PageSize
      /\ \A i \in 0..(stop - 1) :
           cache'[PageAt(r, i)][i % PageSize] = Start(text, i + 1)
  BY <1>1, WholeInPages
<1>6. \A i \in 0..(stop - 1) : cache'[PageAt(r, i)][i % PageSize] = Start(whole, i + 1)
  <2>1. \A i \in 0..(stop - 1) : i + 1 \in 0..stop
    OBVIOUS
  <2> QED
    BY <1>3, <1>5, <2>1
<1>7. Holds(rows[t], Bounded(whole), whole)'
  BY <1>4, <1>6 DEF Holds, PageAt
<1>8. stop <= stop
  OBVIOUS
<1> QED
  BY <1>3, <1>4, <1>5, <1>7, <1>8 DEF Stands

\* The text of a prompt all of which has passed is the prompt and the token drawn.
LEMMA WholeGrows ==
  ASSUME IInv, pc \in {"pass", "mixpass"}, pc' = pc, UNCHANGED <<queued, reading, tokens>>,
         NEW r \in Range(filling), r \in Request,
         NEW it, owners' = Append(owners, it), it.req = r, it.token \in Token,
         it.text = PromptOf(r), it.at = Len(PromptOf(r)), it.key = r,
         NEW whole, whole = Append(PromptOf(r), it.token)
  PROVE  \E f \in [0..Len(queued') -> Seq(Token)] : Grows(r, f, whole)'
<1>1. PICK text \in Seq(Token) : text = PromptOf(r)
  BY TextOfRequest DEF IInv
<1>2. PICK n \in Nat : n = Len(queued)
  BY DEF IInv, PassTypes
<1>3. PICK f : f = [i \in 0..n |-> text]
  OBVIOUS
<1>4. f \in [0..n -> Seq(Token)] /\ f[0] = text /\ f[n] = text
      /\ \A i \in 1..n : f[i] = text /\ f[i - 1] = text
  <2>1. 0 \in 0..n /\ n \in 0..n /\ \A i \in 1..n : i \in 0..n /\ i - 1 \in 0..n
    OBVIOUS
  <2> QED
    BY <1>3, <2>1
<1>5. \A i \in 0..n : Len(f[i]) <= Len(whole) /\ Start(whole, Len(f[i])) = f[i]
  <2>1. \A i \in 0..n : f[i] = text
    BY <1>3
  <2>2. /\ Len(whole) = Len(text) + 1
        /\ \A m \in 0..Len(text) : Start(whole, m) = Start(text, m)
    BY <1>1, OneTokenMore
  <2>3. Len(text) \in Nat /\ Len(text) \in 0..Len(text)
    BY <1>1
  <2>4. Len(text) <= Len(whole)
    BY <2>2, <2>3
  <2>5. Start(whole, Len(text)) = text
    BY <2>2, <2>3, WholeStart
  <2> QED
    BY <2>1, <2>4, <2>5
<1>6. ~Drawn(r, reading) /\ ~Drawn(r, owners) /\ \A i \in 1..n : ~Drawn(r, queued[i])
  BY <1>2, NotDrawnYet DEF Due
<1>7. PromptOf(r)' = text
  BY <1>1 DEF PromptOf
<1>8. Passes(r, reading, PromptOf(r), f[0])'
  <2>1. ~Drawn(r, reading')
    BY <1>6
  <2> QED
    BY <1>4, <1>7, <2>1 DEF Passes, Drawn
<1>9. \A i \in 1..Len(queued') : Passes(r, queued[i], f[i - 1], f[i])'
  <2>1. \A i \in 1..n : Passes(r, queued[i], f[i - 1], f[i])
    BY <1>4, <1>6 DEF Passes, Drawn
  <2> QED
    BY <1>2, <2>1
<1>10. Passes(r, Due', f[n], whole)
  <2>1. PICK k \in Nat : k = Len(owners) /\ owners \in Seq(Draw)
    BY DEF IInv, PassTypes
  <2>2. Due' = owners'
    BY DEF Due
  <2>3. Len(owners') = k + 1 /\ owners'[k + 1] = it /\ \A j \in 1..k : owners'[j] = owners[j]
    BY <2>1
  <2>4. k + 1 \in 1..(k + 1) /\ \A j \in 1..(k + 1) : j \in 1..k \/ j = k + 1
    BY <2>1
  <2>5. \A j \in 1..k : owners[j].req # r
    BY <1>6, <2>1 DEF Drawn
  <2>6. \A j \in 1..(k + 1) : owners'[j].req = r => owners'[j] = it
    BY <2>3, <2>4, <2>5
  <2>7. Drawn(r, owners')
    BY <2>3, <2>4 DEF Drawn
  <2> QED
    BY <1>1, <1>4, <2>2, <2>3, <2>6, <2>7 DEF Passes
<1>11. Passes(r, Due, f[Len(queued)], whole)'
  BY <1>2, <1>10 DEF Passes, Drawn
<1>12. f \in [0..Len(queued') -> Seq(Token)]
  BY <1>2, <1>4
<1>13. Grows(r, f, whole)'
  BY <1>2, <1>5, <1>8, <1>9, <1>11 DEF Grows
<1> QED
  BY <1>12, <1>13

\* A piece passes.
LEMMA PassPieceTexts ==
  ASSUME IInv, IInv', ReadInv, AheadInv, PiecesApart, PlaceInv, TextInv, PassPiece
  PROVE  TextInv'
<1>1. /\ pc \in {"pass", "mixpass"} /\ pc' = pc
      /\ UNCHANGED <<rows, held, done, tokens, queued, reading>>
  BY DEF PassPiece, At, requestVars, passVars
<1>2. PICK piece \in Piece, stop \in Nat, r \in Range(filling) :
        /\ FirstPasses(piece, stop) /\ piece.req = r /\ r \in Request
        /\ piece.stop <= done[r] /\ piece.stop <= Len(PromptOf(r)) /\ 1 \in 1..Len(chunks)
  BY PieceFirst
<1>3. PageInv'
  BY PassPiecePages
<1>4. Texts'
  <2> SUFFICES ASSUME NEW t \in Slot, Filled(t)'
               PROVE  \E f \in [0..Len(queued') -> Seq(Token)], whole \in Seq(Token) \ {<<>>} :
                        Grows(rows[t], f, whole)' /\ Stands(t, whole)'
    BY DEF Texts
  <2>1. PICK q \in Request : q = rows[t] /\ q = rows'[t] /\ q # None /\ q \notin Range(filling')
    BY <1>1, RowRuns DEF Filled
  <2>2. \/ UNCHANGED <<owners, filling>>
        \/ /\ stop = Len(PromptOf(r)) /\ Range(filling') = Range(filling) \ {r}
           /\ \E it :
                /\ owners' = Append(owners, it) /\ it.req = r /\ it.token \in Token
                /\ it.text = PromptOf(r) /\ it.at = Len(PromptOf(r)) /\ it.key = r
                /\ \A u \in Slot : rows[u] = r =>
                     devPos'[u] = stop /\ devTok'[u] = it.token /\ devKey'[u] = r
    BY <1>1, <1>2, PieceSets
  <2>3. CASE q # r
    <3>1. Filled(t) /\ rows[t] # r
      BY <2>1, <2>2, <2>3 DEF Filled
    <3>2. PICK f \in [0..Len(queued) -> Seq(Token)], whole \in Seq(Token) \ {<<>>} :
            Grows(rows[t], f, whole) /\ Stands(t, whole)
      BY <3>1 DEF TextInv, Texts
    <3>3. Stands(t, whole)'
      BY <1>2, <3>1, <3>2, OthersStandOn
    <3>4. Due = owners /\ Due' = owners' /\ owners \in Seq(Draw)
      BY <1>1 DEF Due, IInv, PassTypes
    <3>5. \/ Due' = Due
          \/ Due \in Seq(Draw) /\ \E it : it.req # q /\ Due' = Append(Due, it)
      BY <2>2, <2>3, <3>4
    <3>6. Grows(q, f, whole)'
      BY <1>1, <2>1, <3>2, <3>5, GrowsBeside
    <3>7. Grows(rows[t], f, whole)'
      BY <2>1, <3>6 DEF Grows, PromptOf
    <3> QED
      BY <1>1, <3>2, <3>3, <3>7
  <2>4. CASE q = r
    <3>1. /\ stop = Len(PromptOf(r))
          /\ \E it :
               /\ owners' = Append(owners, it) /\ it.req = r /\ it.token \in Token
               /\ it.text = PromptOf(r) /\ it.at = Len(PromptOf(r)) /\ it.key = r
               /\ \A u \in Slot : rows[u] = r =>
                    devPos'[u] = stop /\ devTok'[u] = it.token /\ devKey'[u] = r
      BY <2>1, <2>2, <2>4
    <3>2. PICK it :
               /\ owners' = Append(owners, it) /\ it.req = r /\ it.token \in Token
               /\ it.text = PromptOf(r) /\ it.at = Len(PromptOf(r)) /\ it.key = r
               /\ \A u \in Slot : rows[u] = r =>
                    devPos'[u] = stop /\ devTok'[u] = it.token /\ devKey'[u] = r
      BY <3>1
    <3>3. PICK token \in Token : token = it.token
      BY <3>2
    <3>4. PICK whole : whole = Append(PromptOf(r), token)
      OBVIOUS
    <3>5. whole \in Seq(Token) \ {<<>>}
      <4>1. PromptOf(r) \in Seq(Token)
        BY <1>2, TextOfRequest DEF IInv
      <4> QED
        BY <3>4, <4>1, OneTokenMore
    <3>6. devPos'[t] = stop /\ devTok'[t] = token /\ devKey'[t] = r /\ rows[t] = r
      BY <2>1, <2>4, <3>2, <3>3
    <3>7. Stands(t, whole)'
      BY <1>1, <1>2, <3>1, <3>3, <3>6, <3>4, WholeStands
    <3>8. PICK f \in [0..Len(queued') -> Seq(Token)] : Grows(r, f, whole)'
      BY <1>1, <1>2, <3>2, <3>3, <3>4, WholeGrows
    <3>9. Grows(rows[t], f, whole)'
      BY <2>1, <2>4, <3>8 DEF Grows, PromptOf
    <3> QED
      BY <3>5, <3>7, <3>8, <3>9
  <2> QED
    BY <2>3, <2>4
<1> QED
  BY <1>3, <1>4 DEF TextInv

\* Every step keeps it.
LEMMA TextNext ==
  ASSUME IInv, IInv', ReadInv, PiecesApart, AheadInv, SufficeInv, PlaceInv, TextInv, [Next]_vars
  PROVE  TextInv'
<1>1. CASE Reset
  BY <1>1, ResetTexts
<1>2. CASE LoadWeights
  BY <1>2, LoadWeightsTexts
<1>3. CASE \E r \in Request : Submit(r) \/ Cancel(r)
  <2>1. \/ \E r \in Request : Submit(r) \/ (Cancel(r) /\ CancelWaiting(r))
        \/ \E r \in Request : Cancel(r) /\ CancelRow(r)
    BY <1>3 DEF Cancel
  <2> QED
    BY <2>1, OthersTexts, FreesTexts
<1>4. CASE \/ BeginStep \/ GrowRead \/ GrowDone \/ ChunkDone \/ PlaceStop
           \/ BindDone \/ PassesDone \/ DecodeNone \/ ReadDone \/ UNCHANGED vars
  BY <1>4, OthersTexts
<1>5. CASE GiveBackPage
  BY <1>5, GiveBackPageTexts
<1>6. CASE GrowPreempt
  BY <1>6, FreesTexts
<1>7. CASE GrowTake \/ TakeOwn
  BY <1>7, GrowTakeTexts, TakeOwnTexts
<1>8. CASE ChunkFilling \/ PlaceDone
  BY <1>8, ChunkFillingTexts, PlaceDoneTexts
<1>9. CASE PlaceStart \/ ShareFound
  BY <1>9, PlaceStartTexts, ShareFoundTexts
<1>10. CASE Bind
  BY <1>10, BindTexts
<1>11. CASE MixStep \/ DecodeStep
  BY <1>11, StepTexts
<1>12. CASE PassPiece
  BY <1>12, PassPieceTexts
<1>13. CASE PassEnd \/ MixPassEnd
  BY <1>13, PassEndTexts, MixPassEndTexts
<1>14. CASE PopPass \/ SkipToken
  BY <1>14, PopPassTexts, SkipTokenTexts
<1>15. CASE ReadToken
  BY <1>15, ReadTokenTexts
<1> QED
  BY <1>1, <1>2, <1>3, <1>4, <1>5, <1>6, <1>7, <1>8, <1>9, <1>10, <1>11, <1>12, <1>13, <1>14,
     <1>15 DEF Next, Step, Client, Rest

\* The texts, with what they rest on.
LEMMA TextsStand == Spec => [](IInv /\ ReadInv /\ AheadInv /\ TextInv)
<1>1. Init => SufficeInv
  BY DEF Init, SufficeInv
<1>2. IInv /\ SufficeInv /\ [Next]_vars => SufficeInv'
  BY SufficeNext
<1>3. Init => TextInv
  BY InitTexts
<1>4. /\ IInv /\ IInv' /\ ReadInv /\ PiecesApart /\ AheadInv /\ SufficeInv /\ PlaceInv /\ TextInv
      /\ [Next]_vars
      => TextInv'
  BY TextNext
<1> QED
  BY <1>1, <1>2, <1>3, <1>4, DrawsStand, PlacesStand, PTL DEF Spec

\* What is read next of a pass.
LEMMA NextRead ==
  ASSUME IInv, reading # <<>>
  PROVE  1 \in 1..Len(reading) /\ Head(reading) = reading[1] /\ reading[1] \in Draw
<1>1. reading \in Seq(Draw)
  BY DEF IInv, PassTypes
<1>2. PICK n \in Nat \ {0} : n = Len(reading)
  BY <1>1
<1>3. 1 \in 1..n
  BY <1>2
<1>4. Head(reading) = reading[1]
  BY <1>1
<1>5. reading[1] \in Draw
  BY <1>1, <1>2, <1>3
<1> QED
  BY <1>2, <1>3, <1>4, <1>5

\* A token read of a request that still runs was drawn from that request's own text so far,
\* with its own sampling, at the position it takes, whatever was in the batch beside it
\* (Engine._pass, Engine._read).
THEOREM TokensOfOwnText == Spec => []OwnText
<1>1. IInv /\ ReadInv /\ AheadInv /\ TextInv => OwnText
  <2> SUFFICES ASSUME IInv, ReadInv, AheadInv, TextInv, reading # <<>>,
                      reason[Head(reading).req] = ""
               PROVE  LET it == Head(reading)
                      IN  /\ it.text = PromptOf(it.req) /\ it.key = it.req
                          /\ it.at = Len(PromptOf(it.req))
    BY DEF OwnText
  <2>1. 1 \in 1..Len(reading) /\ Head(reading) = reading[1] /\ reading[1] \in Draw
    BY NextRead
  <2>2. PICK it \in Draw, r \in Request : it = Head(reading) /\ it = reading[1] /\ r = it.req
    BY <2>1 DEF Draw
  <2>3. r \in Rowed \ Range(filling)
    BY <2>1, <2>2 DEF IInv, DrawsLive, Live
  <2>4. PICK s \in Slot : rows[s] = r /\ Filled(s)
    BY <2>3, EngineAssumption DEF Rowed, Filled
  <2>5. PICK f \in [0..Len(queued) -> Seq(Token)], whole \in Seq(Token) \ {<<>>} :
          Grows(r, f, whole)
    BY <2>4 DEF TextInv, Texts
  <2>6. Passes(r, reading, PromptOf(r), f[0])
    BY <2>5 DEF Grows
  <2>7. Len(PromptOf(r)) < MaxSeq
    BY <2>2 DEF AheadInv, Budgets, HasRoom
  <2>8. it.text = PromptOf(r) /\ it.at = Len(PromptOf(r)) /\ it.key = r
    BY <2>1, <2>2, <2>6, <2>7 DEF Passes
  <2> QED
    BY <2>2, <2>8
<1> QED
  BY <1>1, TextsStand, PTL

\* Once the pieces of a step have passed, a page kept by a digest holds exactly the text of
\* the digest, so a row that shares it sees its own prompt (_Pages.keep, _Pages.cached).
THEOREM KeptPagesTrue == Spec => []KeptPagesHold
<1>1. TextInv => KeptPagesHold
  <2> SUFFICES ASSUME TextInv, chunks = <<>>, NEW p \in DOMAIN digestOf, NEW o \in Offset
               PROVE  cache[p][o] = SubSeq(digestOf[p], 1, Len(digestOf[p]) - PageSize + o + 1)
    BY DEF KeptPagesHold
  <2>1. PICK text : text = Start(digestOf[p], Len(digestOf[p]) - PageSize + o + 1)
    OBVIOUS
  <2>2. Will(p, o, text)
    BY <2>1 DEF TextInv, PageInv, KeptWill
  <2>3. cache[p][o] = text
    BY <2>2, WillNow
  <2> QED
    BY <2>1, <2>3 DEF Start
<1> QED
  BY <1>1, TextsStand, PTL

=============================================================================
