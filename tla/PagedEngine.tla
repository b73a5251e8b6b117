----------------------------- MODULE PagedEngine -----------------------------
(***************************************************************************)
(* linnet.serve.Engine serving from pages (Engine._step_paged and what it   *)
(* calls) over the device state of _TorchBackend.                           *)
(*                                                                         *)
(* One call of Engine.step is a run of the actions below from pc = "idle"   *)
(* back to "idle", in the order of the code: grow, chunk, place, bind,      *)
(* pass, decode, read.  Loops of the code are actions repeated by pc.  One  *)
(* thread calls the engine, so submit, cancel, load_weights and reset come  *)
(* between steps.                                                          *)
(*                                                                         *)
(* The device runs the passes in the order they are queued, so a pass acts  *)
(* on the cache and the rows' tokens and positions when it is queued; the   *)
(* host learns what it drew only when it reads the pass.  A cell of the     *)
(* cache holds the tokens its key and value were computed from, or Junk:    *)
(* values computed from something that is no row's own text.                *)
(***************************************************************************)
EXTENDS PagePool

CONSTANTS
  Request,        \* the requests clients may submit
  NSlots,         \* rows of the batch
  PageSize,       \* positions of a page
  MaxSeq,         \* positions a row holds at most, a multiple of PageSize
  Prompt,         \* request -> its prompt
  MaxNew,         \* request -> max_new_tokens
  Token, Eos,     \* the vocabulary, and the tokens that end a request
  Pack,           \* prompt tokens of a pass, at most
  Chunk,          \* prompt tokens of a step while rows decode, at most
  Reserve,        \* pages kept free while rows decode
  Mix,            \* whether a pass carries the rows' step
  ShareOn,        \* whether full pages are kept by their digest
  Calls,          \* the calls clients make beside submit
  None, Junk

Slot == 1..NSlots

ASSUME EngineAssumption ==
  /\ NSlots \in Nat \ {0} /\ PageSize \in Nat \ {0}
  /\ MaxSeq \in Nat \ {0} /\ MaxSeq % PageSize = 0
  /\ MaxSeq <= (NPages - 1) * PageSize
  /\ Prompt \in [Request -> Seq(Token)]
  /\ \A r \in Request : 1 <= Len(Prompt[r]) /\ Len(Prompt[r]) < MaxSeq
  /\ MaxNew \in [Request -> Nat] /\ Eos \subseteq Token
  /\ Pack \in Nat \ {0} /\ Chunk \in 1..Pack /\ Reserve \in Nat
  /\ Mix \in BOOLEAN /\ ShareOn \in BOOLEAN
  /\ Calls \subseteq {"cancel", "load_weights", "reset"}
  /\ None \notin Request /\ Junk \notin Token /\ Junk \notin Seq(Token)

VARIABLES
  \* the requests: Completion
  submitted,      \* the requests in the order they were submitted
  tokens, reason,
  \* the host's rows: Engine
  waiting,        \* requests not in a row, in the order they are admitted
  rows,           \* slot -> its request
  filling,        \* the requests in rows whose prompts are passing
  seniority,      \* the requests admitted, in the order of _admission
  done,           \* tokens of a passing prompt that are in pages
  held,           \* the pages of a request, in order
  written,        \* positions of a slot the queued passes will have written
  positions,      \* the last position of a slot by the tokens read
  giving,         \* pages of a released row still to be given back
  \* passes
  queued,         \* passes not read: each the sequence of tokens it drew
  reading,        \* the tokens still to be read of the pass being read
  ahead,          \* passes this step leaves queued
  \* the step under way
  pc, left, chunks, placed, found, room, owners,
  \* the device
  assigned, devPos, devTok, devKey, cache

requestVars == <<submitted, tokens, reason>>
rowVars     == <<rows, filling, seniority, done, held, written, assigned, giving>>
passVars    == <<queued, reading, ahead>>
localVars   == <<left, chunks, placed, found, room, owners>>
cellVars    == <<devPos, devTok, devKey, cache>>
vars == <<poolVars, requestVars, waiting, rowVars, positions, passVars, pc,
          localVars, cellVars>>

NoLimit == -1      \* `left` when no row decodes
Offset == 0..(PageSize - 1)

-----------------------------------------------------------------------------
(* What the code computes from its state.                                   *)

PromptOf(r) == Prompt[r] \o tokens[r]

\* The digests of the full pages of a text.  A digest covers the tokens of its
\* page and the digest before, so it stands for the whole start.
DigestsOf(text) == [i \in 1..(Len(text) \div PageSize) |-> SubSeq(text, 1, i * PageSize)]
FirstDigests(text, n) == SubSeq(DigestsOf(text), 1, n)

PagesFor(length) == length \div PageSize + 1

SlotOf(r) == CHOOSE s \in Slot : rows[s] = r
FreeSlots == {s \in Slot : rows[s] = None}

\* Tokens drawn for r and not read: a pass draws one for a row at most.
Draws(pass, r) == \E i \in DOMAIN pass : pass[i].req = r
Pending(r) == Cardinality({i \in DOMAIN queued : Draws(queued[i], r)})

WantsMoreRead(r) == Len(tokens[r]) < MaxNew[r]      \* mutant: draws not read are forgotten
WantsMore(r) == Len(tokens[r]) + Pending(r) < MaxNew[r]

Decoding ==
  {s \in Slot : rows[s] # None /\ rows[s] \notin Range(filling) /\ WantsMore(rows[s])}

\* mutant: a page too late
NeedyLate == {s \in Decoding : written[s] \div PageSize > Len(held[rows[s]])}
Needy == {s \in Decoding : written[s] \div PageSize >= Len(held[rows[s]])}

busy == waiting # <<>> \/ (\E s \in Slot : rows[s] # None) \/ queued # <<>>

\* Between two engine calls; inside one, with no page left to give back.
At(label) == pc = label /\ giving = <<>>

Goto(label) == pc' = label

Smaller(a, b) == IF a <= b THEN a ELSE b

\* The slots of a set in order.
InOrder(slots) ==
  [i \in 1..Cardinality(slots) |->
     CHOOSE s \in slots : Cardinality({t \in slots : t < s}) = i - 1]

-----------------------------------------------------------------------------
(* The cache.                                                               *)

\* The page that holds a position of a slot, as the device's table has it.
PlaceOf(s, at) ==
  IF at \div PageSize < Len(assigned[s]) THEN assigned[s][at \div PageSize + 1]
                                         ELSE SinkPage
Cell(s, at) == cache[PlaceOf(s, at)][at % PageSize]

\* The text a slot's first n positions hold: what its attention sees.
Seen(s, n) ==
  IF n = 0 THEN <<>>
  ELSE IF /\ Cell(s, n - 1) # Junk
          /\ \A i \in 0..(n - 1) : Cell(s, i) = SubSeq(Cell(s, n - 1), 1, i + 1)
       THEN Cell(s, n - 1)
       ELSE Junk

Extend(text, more) == IF text = Junk \/ Junk \in Range(more) THEN Junk ELSE text \o more

\* The cells of a page once nobody may read them.
Wiped == [o \in Offset |-> Junk]

\* The cache after slot s writes text[i] at position i for the positions from
\* `start` to before `stop`; writes to the sink page are not kept.
Written(cells, s, start, stop, text) ==
  [p \in Page |-> [o \in Offset |->
     IF p # SinkPage /\ \E i \in start..(stop - 1) : PlaceOf(s, i) = p /\ i % PageSize = o
     THEN text[CHOOSE i \in start..(stop - 1) : PlaceOf(s, i) = p /\ i % PageSize = o]
     ELSE cells[p][o]]]

-----------------------------------------------------------------------------
(* release: the row of request r is free, its full pages are kept by what   *)
(* they hold, and its pages are given back, the last first.                 *)

\* The positions of r that hold `text`: of a prompt still passing what has passed,
\* else all but the last token, which no step may have taken yet.
PassedWhole(r, text) == IF r \in Range(filling) THEN done[r] ELSE Len(text)  \* mutant
Passed(r, text) == IF r \in Range(filling) THEN done[r] ELSE Len(text) - 1

KeepFull(r, text) ==
  IF ShareOn
  THEN LET full == Smaller(Passed(r, text) \div PageSize, Len(held[r]))
       IN  Keep(SubSeq(held[r], 1, full), FirstDigests(text, full))
  ELSE UNCHANGED poolVars

Release(r, text) ==
  LET s == SlotOf(r)
  IN  /\ KeepFull(r, text)
      /\ rows' = [rows EXCEPT ![s] = None]
      /\ filling' = Without(filling, r)
      /\ seniority' = Without(seniority, r)
      /\ done' = [done EXCEPT ![r] = 0]
      /\ giving' = held[r]
      /\ held' = [held EXCEPT ![r] = <<>>]
      /\ written' = [written EXCEPT ![s] = 0]
      /\ assigned' = [assigned EXCEPT ![s] = <<>>]

\* One page of a released row: a page that is free again holds nothing.
GiveBackPage ==
  /\ giving # <<>>
  /\ GiveBack(Last(giving))
  /\ giving' = Front(giving)
  /\ cache' = IF refs[Last(giving)] <= 1 /\ Last(giving) \notin DOMAIN digestOf
              THEN [cache EXCEPT ![Last(giving)] = Wiped]
              ELSE cache
  /\ UNCHANGED <<requestVars, waiting, rows, filling, seniority, done, held, written,
                 assigned, positions, passVars, pc, localVars, devPos, devTok, devKey>>

\* A page from the pool for request r.
TakeFor(r) ==
  \E p \in Page :
    /\ Take(p)
    /\ held' = [held EXCEPT ![r] = Append(@, p)]
    /\ cache' = [cache EXCEPT ![p] = Wiped]

-----------------------------------------------------------------------------
(* Calls between steps.                                                     *)

Submit(r) ==
  /\ At("idle")
  /\ r \notin Range(submitted)
  /\ submitted' = Append(submitted, r)
  /\ waiting' = Append(waiting, r)
  /\ UNCHANGED <<poolVars, tokens, reason, rowVars, positions, passVars, pc, localVars,
                 cellVars>>

CancelWaiting(r) ==
  /\ r \in Range(waiting)
  /\ waiting' = Without(waiting, r)
  /\ UNCHANGED <<poolVars, rowVars>>

\* mutant: the row is freed, its pages are not
CancelRowOnly(r) ==
  /\ \E s \in Slot : rows[s] = r
  /\ rows' = [rows EXCEPT ![SlotOf(r)] = None]
  /\ UNCHANGED <<waiting, poolVars, filling, seniority, done, held, written, assigned, giving>>

CancelRow(r) ==
  /\ \E s \in Slot : rows[s] = r
  /\ Release(r, PromptOf(r))
  /\ UNCHANGED waiting

Cancel(r) ==
  /\ "cancel" \in Calls
  /\ At("idle")
  /\ r \in Range(submitted)
  /\ reason[r] = ""
  /\ reason' = [reason EXCEPT ![r] = "cancelled"]
  /\ CancelWaiting(r) \/ CancelRow(r)
  /\ UNCHANGED <<submitted, tokens, positions, passVars, pc, localVars, cellVars>>

LoadWeights ==
  /\ "load_weights" \in Calls
  /\ At("idle")
  /\ ~busy
  /\ Forget
  /\ cache' = [p \in Page |-> Wiped]
  /\ UNCHANGED <<requestVars, waiting, rowVars, positions, passVars, pc, localVars,
                 devPos, devTok, devKey>>

\* Every request is forgotten; it may be submitted again, as a new completion.
Reset ==
  /\ "reset" \in Calls
  /\ At("idle")
  /\ submitted' = <<>>
  /\ tokens' = [r \in Request |-> <<>>]
  /\ reason' = [r \in Request |-> ""]
  /\ waiting' = <<>>
  /\ rows' = [s \in Slot |-> None]
  /\ positions' = [s \in Slot |-> 0]
  /\ queued' = <<>>
  /\ filling' = <<>> /\ seniority' = <<>>
  /\ done' = [r \in Request |-> 0]
  /\ held' = [r \in Request |-> <<>>]
  /\ written' = [s \in Slot |-> 0]
  /\ assigned' = [s \in Slot |-> <<>>]
  /\ free' = [i \in 1..(NPages - 1) |-> NPages - i]
  /\ refs' = [p \in Page |-> 0]
  /\ pageOf' = <<>> /\ digestOf' = <<>> /\ idle' = <<>>
  /\ cache' = [p \in Page |-> Wiped]
  /\ UNCHANGED <<giving, reading, ahead, pc, localVars, devPos, devTok, devKey>>

BeginStep ==
  /\ At("idle")
  /\ busy
  /\ Goto("grow")
  /\ UNCHANGED <<poolVars, requestVars, waiting, rowVars, positions, passVars, localVars,
                 cellVars>>

-----------------------------------------------------------------------------
(* grow: a page for every row whose next step starts one.                   *)

short == Cardinality(Needy) > available

GrowRead ==
  /\ At("grow")
  /\ short
  /\ queued # <<>>
  /\ ahead' = 0
  /\ Goto("growread")
  /\ UNCHANGED <<poolVars, requestVars, waiting, rowVars, positions, queued, reading,
                 localVars, cellVars>>

VictimFirst == Head(seniority)       \* mutant: the request admitted first
Victim == Last(seniority)

RequeueLost(r) == UNCHANGED waiting       \* mutant: it waits nowhere
Requeue(r) == waiting' = <<r>> \o waiting

GrowPreempt ==
  /\ At("grow")
  /\ short
  /\ queued = <<>>
  /\ LET r == Victim
     IN  /\ Release(r, PromptOf(r))
         /\ Requeue(r)
  /\ UNCHANGED <<requestVars, positions, passVars, pc, localVars, cellVars>>

GrowTake ==
  /\ At("grow")
  /\ ~short
  /\ Needy # {}
  /\ LET s == Min(Needy)
     IN  /\ TakeFor(rows[s])
         /\ assigned' = [assigned EXCEPT ![s] = held'[rows[s]]]
  /\ UNCHANGED <<requestVars, waiting, rows, filling, seniority, done, written, giving,
                 positions, passVars, pc, localVars, devPos, devTok, devKey>>

GrowDone ==
  /\ At("grow")
  /\ Needy = {}
  /\ left' = IF Decoding # {} THEN Chunk ELSE NoLimit
  /\ chunks' = <<>>
  /\ Goto("chunk")
  /\ UNCHANGED <<poolVars, requestVars, waiting, rowVars, positions, passVars, placed,
                 found, room, owners, cellVars>>

-----------------------------------------------------------------------------
(* chunk: the next tokens of a passing prompt, `left` at most; the full     *)
(* pages they write are kept from here on.                                  *)

ChunkEndWhole(r) == Len(PromptOf(r))       \* mutant: the whole prompt at once
ChunkEnd(r) ==
  IF left = NoLimit THEN Len(PromptOf(r)) ELSE Smaller(Len(PromptOf(r)), done[r] + left)

TakeChunk(r) ==
  LET text  == PromptOf(r)
      end   == ChunkEnd(r)
      first == done[r] \div PageSize + 1
      full  == end \div PageSize
  IN  /\ chunks' = Append(chunks, [req |-> r, start |-> done[r], stop |-> end])
      /\ IF ShareOn
         THEN Keep(SubSeq(held[r], first, full), SubSeq(DigestsOf(text), first, full))
         ELSE UNCHANGED poolVars
      /\ done' = [done EXCEPT ![r] = end]
      /\ left' = IF left = NoLimit THEN NoLimit ELSE left - (end - done[r])

MayPass == left = NoLimit \/ left > 0

ChunkFilling ==
  /\ At("chunk")
  /\ MayPass
  /\ Len(chunks) < Len(filling)
  /\ TakeChunk(filling[Len(chunks) + 1])
  /\ UNCHANGED <<requestVars, waiting, rows, filling, seniority, held, written, assigned,
                 giving, positions, passVars, pc, placed, found, room, owners, cellVars>>

ChunkDone ==
  /\ At("chunk")
  /\ ~MayPass \/ Len(chunks) = Len(filling)
  /\ Goto("place")
  /\ UNCHANGED <<poolVars, requestVars, waiting, rowVars, positions, passVars, localVars,
                 cellVars>>

-----------------------------------------------------------------------------
(* place: the request first in line, if the pool has the pages its prompt   *)
(* needs beside the cached ones it starts with.                             *)

CachedStart(r) ==
  LET text == PromptOf(r)
  IN  IF ShareOn THEN Cached(FirstDigests(text, (Len(text) - 1) \div PageSize)) ELSE <<>>

\* The pages kept for the rows that decode to grow into.
Spare == IF Decoding # {} THEN Reserve ELSE 0

\* The cached pages no row uses: sharing them leaves fewer to take.
IdleOfNone(pages) == 0       \* mutant: they are counted twice
IdleOf(pages) == Cardinality({i \in DOMAIN pages : refs[pages[i]] = 0})

Fits(r) ==
  LET start == CachedStart(r)
  IN  PagesFor(Len(PromptOf(r))) - Len(start) <= available - IdleOf(start) - Spare

MayPlace ==
  /\ waiting # <<>>
  /\ Len(placed) < Cardinality(FreeSlots)
  /\ MayPass
  /\ Fits(Head(waiting))

PlaceStart ==
  /\ At("place")
  /\ MayPlace
  /\ LET r == Head(waiting)
     IN  /\ found' = CachedStart(r)
         /\ done' = [done EXCEPT ![r] = Len(CachedStart(r)) * PageSize]
  /\ Goto("sharing")
  /\ UNCHANGED <<poolVars, requestVars, waiting, rows, filling, seniority, held, written,
                 assigned, giving, positions, passVars, left, chunks, placed, room, owners,
                 cellVars>>

ShareFound ==
  /\ At("sharing")
  /\ found # <<>>
  /\ Share(Head(found))
  /\ held' = [held EXCEPT ![Head(waiting)] = Append(@, Head(found))]
  /\ found' = Tail(found)
  /\ UNCHANGED <<requestVars, waiting, rows, filling, seniority, done, written, assigned,
                 giving, positions, passVars, pc, left, chunks, placed, room, owners,
                 cellVars>>

TakeOwn ==
  /\ At("sharing")
  /\ found = <<>>
  /\ Len(held[Head(waiting)]) < PagesFor(Len(PromptOf(Head(waiting))))
  /\ TakeFor(Head(waiting))
  /\ UNCHANGED <<requestVars, waiting, rows, filling, seniority, done, written, assigned,
                 giving, positions, passVars, pc, localVars, devPos, devTok, devKey>>

PlaceDone ==
  /\ At("sharing")
  /\ found = <<>>
  /\ LET r == Head(waiting)
     IN  /\ Len(held[r]) >= PagesFor(Len(PromptOf(r)))
         /\ TakeChunk(r)
         /\ placed' = Append(placed, r)
         /\ seniority' = Append(seniority, r)
  /\ waiting' = Tail(waiting)
  /\ Goto("place")
  /\ UNCHANGED <<requestVars, rows, filling, held, written, assigned, giving, positions,
                 passVars, found, room, owners, cellVars>>

PlaceStop ==
  /\ At("place")
  /\ ~MayPlace
  /\ Goto("bind")
  /\ UNCHANGED <<poolVars, requestVars, waiting, rowVars, positions, passVars, localVars,
                 cellVars>>

-----------------------------------------------------------------------------
(* bind: the requests placed take the free rows, the shortest prompt first. *)

Shortest ==
  LET length(i) == Len(PromptOf(placed[i]))
  IN  CHOOSE i \in DOMAIN placed :
        \A j \in DOMAIN placed : length(i) < length(j) \/ (length(i) = length(j) /\ i <= j)

Bind ==
  /\ At("bind")
  /\ placed # <<>>
  /\ LET r == placed[Shortest]
         s == Min(FreeSlots)
     IN  /\ rows' = [rows EXCEPT ![s] = r]
         /\ filling' = Append(filling, r)
         /\ written' = [written EXCEPT ![s] = 0]
         /\ assigned' = [assigned EXCEPT ![s] = held[r]]
  /\ placed' = RemoveAt(placed, Shortest)
  /\ UNCHANGED <<poolVars, requestVars, waiting, seniority, done, held, giving, positions,
                 passVars, pc, left, chunks, found, room, owners, cellVars>>

BindDone ==
  /\ At("bind")
  /\ placed = <<>>
  /\ room' = Pack
  /\ owners' = <<>>
  /\ Goto(IF chunks # <<>> /\ Decoding # {} /\ Mix THEN "mix" ELSE "pass")
  /\ UNCHANGED <<poolVars, requestVars, waiting, rowVars, positions, passVars, left,
                 chunks, placed, found, cellVars>>

-----------------------------------------------------------------------------
(* A step of every slot on the device: each writes its token's cell at its   *)
(* position, from what it sees before it, and draws the next.  Slots of      *)
(* `parked` step at the last position.  The tokens of the slots `stepping`   *)
(* are read; the others' are nobody's.                                      *)

StepAtRow(s, parked) == devPos[s]       \* mutant: rows being filled are not moved away
StepAt(s, parked) == IF s \in parked THEN MaxSeq - 1 ELSE devPos[s]

StepText(s, parked) == Extend(Seen(s, StepAt(s, parked)), <<devTok[s]>>)

Writers(p, o, parked) ==
  {s \in Slot : PlaceOf(s, StepAt(s, parked)) = p /\ StepAt(s, parked) % PageSize = o}

DeviceStep(stepping, parked, draw) ==
  /\ cache' = [p \in Page |-> [o \in Offset |->
                 IF p = SinkPage \/ Writers(p, o, parked) = {} THEN cache[p][o]
                 ELSE StepText(CHOOSE s \in Writers(p, o, parked) : TRUE, parked)]]
  /\ devTok' = [s \in Slot |-> IF s \in stepping THEN draw[s] ELSE Junk]
  /\ devPos' = [s \in Slot |-> IF assigned[s] = <<>> THEN 0
                               ELSE Smaller(devPos[s] + 1, MaxSeq - 1)]
  /\ UNCHANGED devKey

Stepped(stepping, parked, draw) ==
  LET order == InOrder(stepping)
  IN  [i \in DOMAIN order |->
         LET s == order[i]
         IN  [slot |-> s, req |-> rows[s], token |-> draw[s], key |-> devKey[s],
              text |-> StepText(s, parked), at |-> devPos[s] + 1, prompt |-> FALSE]]

\* What a queued step counts: one position more of each of its rows.
CountStepOn(stepping) ==       \* mutant: past the end
  written' = [s \in Slot |-> IF s \in stepping THEN written[s] + 1 ELSE written[s]]
CountStep(stepping) ==
  written' = [s \in Slot |-> IF s \in stepping THEN Smaller(written[s] + 1, MaxSeq - 1)
                                               ELSE written[s]]

StepRows(parked) ==
  \E draw \in [Decoding -> Token] :
    /\ DeviceStep(Decoding, parked, draw)
    /\ queued' = Append(queued, Stepped(Decoding, parked, draw))
    /\ CountStep(Decoding)

\* One pass for the chunks and the step: the step's draws come first here, and
\* the prompts' tokens then set their rows; the prompts' draws are read first.
MixStep ==
  /\ At("mix")
  /\ StepRows({SlotOf(chunks[i].req) : i \in DOMAIN chunks})
  /\ Goto("mixpass")
  /\ UNCHANGED <<poolVars, requestVars, waiting, rows, filling, seniority, done, held,
                 assigned, giving, positions, reading, ahead, localVars>>

\* A prompt's tokens from chunk.start to stop on the device.
Prefill(chunk, stop) ==
  LET r    == chunk.req
      s    == SlotOf(r)
      seen == Seen(s, chunk.start)
      text == [i \in chunk.start..(stop - 1) |->
                 Extend(seen, SubSeq(PromptOf(r), chunk.start + 1, i + 1))]
      last == text[stop - 1]
  IN  /\ cache' = Written(cache, s, chunk.start, stop, text)
      /\ devKey' = [devKey EXCEPT ![s] = r]
      /\ IF stop = Len(PromptOf(r))
         THEN \E t \in Token :
                /\ devTok' = [devTok EXCEPT ![s] = t]
                /\ devPos' = [devPos EXCEPT ![s] = stop]
                /\ owners' = Append(owners, [slot |-> s, req |-> r, token |-> t, key |-> r,
                                             text |-> last, at |-> stop, prompt |-> TRUE])
                /\ filling' = Without(filling, r)
                /\ written' = [written EXCEPT ![s] = stop]
         ELSE /\ devTok' = [devTok EXCEPT ![s] = Junk]
              /\ devPos' = [devPos EXCEPT ![s] = MaxSeq - 1]
              /\ UNCHANGED <<owners, filling, written>>

\* The chunk's part this pass has room for; with a step, the pass is not cut.
PassPiece ==
  /\ At("pass") \/ At("mixpass")
  /\ chunks # <<>>
  /\ pc = "pass" => room > 0
  /\ LET chunk == Head(chunks)
         stop  == IF pc = "pass" THEN Smaller(chunk.stop, chunk.start + room) ELSE chunk.stop
     IN  /\ Prefill(chunk, stop)
         /\ room' = room - (stop - chunk.start)
         /\ chunks' = IF stop = chunk.stop THEN Tail(chunks)
                      ELSE [chunks EXCEPT ![1].start = stop]
  /\ UNCHANGED <<poolVars, requestVars, waiting, rows, seniority, done, held, assigned,
                 giving, positions, passVars, pc, left, placed, found>>

PassEnd ==
  /\ At("pass")
  /\ room < Pack
  /\ room = 0 \/ chunks = <<>>
  /\ queued' = Append(queued, owners)
  /\ owners' = <<>>
  /\ room' = Pack
  /\ UNCHANGED <<poolVars, requestVars, waiting, rowVars, positions, reading, ahead, pc,
                 left, chunks, placed, found, cellVars>>

PassesDone ==
  /\ At("pass")
  /\ room = Pack
  /\ chunks = <<>>
  /\ Goto("decode")
  /\ UNCHANGED <<poolVars, requestVars, waiting, rowVars, positions, passVars, localVars,
                 cellVars>>

MixPassEnd ==
  /\ At("mixpass")
  /\ chunks = <<>>
  /\ queued' = Front(queued) \o <<owners, Last(queued)>>
  /\ owners' = <<>>
  /\ ahead' = 2
  /\ Goto("read")
  /\ UNCHANGED <<poolVars, requestVars, waiting, rowVars, positions, reading, left, chunks,
                 placed, found, room, cellVars>>

DecodeStep ==
  /\ At("decode")
  /\ Decoding # {}
  /\ StepRows({})
  /\ ahead' = 1
  /\ Goto("read")
  /\ UNCHANGED <<poolVars, requestVars, waiting, rows, filling, seniority, done, held,
                 assigned, giving, positions, reading, localVars>>

DecodeNone ==
  /\ At("decode")
  /\ Decoding = {}
  /\ ahead' = 0
  /\ Goto("read")
  /\ UNCHANGED <<poolVars, requestVars, waiting, rowVars, positions, queued, reading,
                 localVars, cellVars>>

-----------------------------------------------------------------------------
(* read: the passes queued but the last `ahead`.                            *)

Reading == At("read") \/ At("growread")

PopPass ==
  /\ Reading
  /\ reading = <<>>
  /\ Len(queued) > ahead
  /\ reading' = Head(queued)
  /\ queued' = Tail(queued)
  /\ UNCHANGED <<poolVars, requestVars, waiting, rowVars, positions, ahead, pc, localVars,
                 cellVars>>

\* Finished a step earlier: this token ran along.
SkipToken ==
  /\ Reading
  /\ reading # <<>>
  /\ reason[Head(reading).req] # ""
  /\ reading' = Tail(reading)
  /\ UNCHANGED <<poolVars, requestVars, waiting, rowVars, positions, queued, ahead, pc,
                 localVars, cellVars>>

FinishReason(r, text, at) ==
  CASE Last(text) \in Eos -> "eos"
    [] Last(text) \notin Eos /\ Len(text) >= MaxNew[r] -> "length"
    [] Last(text) \notin Eos /\ Len(text) < MaxNew[r] /\ at + 1 >= MaxSeq -> "cache"
    [] OTHER -> ""

\* The position of the token read: after a preemption the tokens before passed
\* with the prompt.
ReadAtPrompt(it, text) ==       \* mutant: those tokens are forgotten
  IF it.prompt THEN Len(Prompt[it.req]) ELSE positions[it.slot] + 1
ReadAt(it, text) ==
  IF it.prompt THEN Len(Prompt[it.req]) + Len(text) - 1 ELSE positions[it.slot] + 1

ReadToken ==
  /\ Reading
  /\ reading # <<>>
  /\ LET it   == Head(reading)
         r    == it.req
         text == Append(tokens[r], it.token)
         at   == ReadAt(it, text)
     IN  /\ reason[r] = ""
         /\ tokens' = [tokens EXCEPT ![r] = text]
         /\ positions' = [positions EXCEPT ![it.slot] = at]
         /\ reason' = [reason EXCEPT ![r] = FinishReason(r, text, at)]
         /\ IF reason'[r] # "" THEN Release(r, Prompt[r] \o text)
                               ELSE UNCHANGED <<poolVars, rowVars>>
  /\ reading' = Tail(reading)
  /\ UNCHANGED <<submitted, waiting, queued, ahead, pc, localVars, cellVars>>

ReadDone ==
  /\ Reading
  /\ reading = <<>>
  /\ Len(queued) <= ahead
  /\ Goto(IF pc = "read" THEN "idle" ELSE "grow")
  /\ ahead' = 0
  /\ left' = NoLimit
  /\ UNCHANGED <<poolVars, requestVars, waiting, rowVars, positions, queued, reading,
                 chunks, placed, found, room, owners, cellVars>>

-----------------------------------------------------------------------------
Init ==
  /\ PoolInit
  /\ submitted = <<>> /\ waiting = <<>>
  /\ tokens = [r \in Request |-> <<>>] /\ reason = [r \in Request |-> ""]
  /\ rows = [s \in Slot |-> None]
  /\ filling = <<>> /\ seniority = <<>> /\ giving = <<>>
  /\ done = [r \in Request |-> 0] /\ held = [r \in Request |-> <<>>]
  /\ written = [s \in Slot |-> 0] /\ positions = [s \in Slot |-> 0]
  /\ queued = <<>> /\ reading = <<>> /\ ahead = 0
  /\ pc = "idle" /\ left = NoLimit /\ room = Pack
  /\ chunks = <<>> /\ placed = <<>> /\ found = <<>> /\ owners = <<>>
  /\ assigned = [s \in Slot |-> <<>>]
  /\ devPos = [s \in Slot |-> 0]
  /\ devTok = [s \in Slot |-> Junk] /\ devKey = [s \in Slot |-> None]
  /\ cache = [p \in Page |-> Wiped]

Client == (\E r \in Request : Submit(r) \/ Cancel(r)) \/ LoadWeights \/ Reset

Step ==
  \/ BeginStep \/ GiveBackPage
  \/ GrowRead \/ GrowPreempt \/ GrowTake \/ GrowDone
  \/ ChunkFilling \/ ChunkDone
  \/ PlaceStart \/ ShareFound \/ TakeOwn \/ PlaceDone \/ PlaceStop
  \/ Bind \/ BindDone
  \/ MixStep \/ PassPiece \/ PassEnd \/ PassesDone \/ MixPassEnd
  \/ DecodeStep \/ DecodeNone
  \/ PopPass \/ SkipToken \/ ReadToken \/ ReadDone

\* With nothing to do, the engine waits for a call.
Rest == At("idle") /\ ~busy /\ UNCHANGED vars

Next == Client \/ Step \/ Rest

\* The engine is stepped while it is busy (Engine.run, Server._run).
Spec == Init /\ [][Next]_vars /\ WF_vars(Step)

-----------------------------------------------------------------------------
(* Properties.                                                              *)

Text == Seq(Token) \cup {Junk}

OwnerOK(it) ==
  /\ it.slot \in Slot /\ it.req \in Request /\ it.token \in Token
  /\ it.prompt \in BOOLEAN

\* Every variable has its type; a row's pages fit its row of the page table.
TypeOK ==
  /\ PoolTypeOK
  /\ submitted \in Seq(Request) /\ waiting \in Seq(Request)
  /\ tokens \in [Request -> Seq(Token)]
  /\ reason \in [Request -> {"", "eos", "length", "cache", "cancelled"}]
  /\ rows \in [Slot -> Request \cup {None}]
  /\ filling \in Seq(Request) /\ seniority \in Seq(Request) /\ placed \in Seq(Request)
  /\ done \in [Request -> Nat]
  /\ held \in [Request -> Seq(Page)] /\ assigned \in [Slot -> Seq(Page)]
  /\ \A s \in Slot : Len(assigned[s]) * PageSize <= MaxSeq
  /\ giving \in Seq(Page) /\ found \in Seq(Page)
  /\ written \in [Slot -> 0..(MaxSeq - 1)] /\ devPos \in [Slot -> 0..(MaxSeq - 1)]
  /\ positions \in [Slot -> Nat]
  /\ \A i \in DOMAIN queued : \A j \in DOMAIN queued[i] : OwnerOK(queued[i][j])
  /\ \A i \in DOMAIN reading : OwnerOK(reading[i])
  /\ \A i \in DOMAIN owners : OwnerOK(owners[i])
  /\ ahead \in 0..2 /\ left \in {NoLimit} \cup Nat /\ room \in Int
  /\ pc \in {"idle", "grow", "growread", "chunk", "place", "sharing", "bind", "mix",
             "mixpass", "pass", "decode", "read"}
  /\ devTok \in [Slot -> Token \cup {Junk}] /\ devKey \in [Slot -> Request \cup {None}]

\* A page is counted once for every request that holds it and for the release
\* under way, so no page is lost and none is given back twice.
Holders(p) == {r \in Request : p \in Range(held[r])}

RefsCountHolders ==
  \A p \in Page :
    refs[p] = Cardinality(Holders(p)) + (IF p \in Range(giving) THEN 1 ELSE 0)

\* Only a request in a row, or on its way into one, holds pages: a request that
\* ended, was cancelled, waits or was preempted holds none.
HoldersAdmitted ==
  \A r \in Request :
    held[r] # <<>> => \/ \E s \in Slot : rows[s] = r
                      \/ r \in Range(placed)
                      \/ pc = "sharing" /\ r = Head(waiting)

\* The placement under way has the pages it still takes, and the pages kept for
\* the rows that decode: `take` never finds the pool empty.
PagesSuffice ==
  pc = "sharing" /\ giving = <<>> =>
    LET r == Head(waiting)
    IN  PagesFor(Len(PromptOf(r))) - Len(held[r]) - Len(found)
          <= available - Cardinality({i \in DOMAIN found : refs[found[i]] = 0})
                       - (IF Decoding # {} THEN Reserve ELSE 0)

\* Once the chunks of a step have passed, a page kept by a digest holds exactly
\* the text of that digest: no row writes over a page others may share.
KeptPagesHold ==
  chunks = <<>> =>
    \A p \in DOMAIN digestOf : \A o \in Offset :
      cache[p][o] = SubSeq(digestOf[p], 1, Len(digestOf[p]) - PageSize + o + 1)

\* A token read for a request that still runs was drawn from that request's own
\* text so far, with its own sampling, at the position it takes: so a seed draws
\* the same tokens whatever else is in the batch.
OwnText ==
  reading # <<>> /\ reason[Head(reading).req] = "" =>
    LET it == Head(reading)
    IN  it.text = PromptOf(it.req) /\ it.key = it.req /\ it.at = Len(PromptOf(it.req))

\* Whenever the rows step, the host's count of a row's positions is the device's,
\* and the row has the page it writes.
StepHasPage ==
  At("mix") \/ At("decode") =>
    \A s \in Decoding : /\ written[s] = devPos[s]
                        /\ devPos[s] \div PageSize < Len(assigned[s])
                        /\ assigned[s] = held[rows[s]]

\* A pass holds the chunks it is given, also where it carries the rows' step and
\* is not cut; and at most one prompt is passed in part between steps.
PassFits == room >= 0 /\ (pc = "idle" => Len(filling) <= 1)

\* Between steps, at most one token of a request is drawn and not read; no step
\* is queued for a token past max_new_tokens.
OneAhead ==
  \A s \in Slot : rows[s] # None =>
    /\ pc = "idle" => Pending(rows[s]) <= 1
    /\ MaxNew[rows[s]] > 0 => Len(tokens[rows[s]]) + Pending(rows[s]) <= MaxNew[rows[s]]

\* Requests are served in the order they came, the preempted ones too: rows by
\* admission and then the waiting line are in the order of submission.
ServedInOrder ==
  LET line == seniority \o waiting
  IN  \A i, j \in DOMAIN line :
        i < j => IndexIn(submitted, line[i]) < IndexIn(submitted, line[j])

\* With no request in a row, the pool has every page again.
PoolWhole ==
  pc = "idle" /\ giving = <<>> /\ (\A s \in Slot : rows[s] = None) =>
    available = NPages - 1

Unfinished == {r \in Range(submitted) : reason[r] = ""}

\* Every request submitted ends: no row waits for pages for ever, and no request
\* is preempted for ever.
EveryRequestEnds == \A r \in Request : r \in Unfinished ~> r \notin Unfinished

\* The engine keeps the promise of Batching: its pages, chunks, passes and the
\* tokens it reads late show in neither the order requests are served, nor the
\* tokens they have, nor the reason they end.
Batch == INSTANCE Batching WITH running <- seniority
ServesAsBatching == Batch!Spec

=============================================================================
