------------------------------ MODULE RowEngine ------------------------------
(***************************************************************************)
(* linnet.serve.Engine serving without pages: every row has a row of the    *)
(* cache of its own (Engine.step and what it calls, over _TorchBackend, or  *)
(* over a _Grouped backend, which groups prompts and packs none).           *)
(*                                                                         *)
(* One call of Engine.step is a run of the actions below from pc = "idle"   *)
(* back to "idle": admit, arrange, pass, step, read.  Submit and cancel     *)
(* come between steps.  As in PagedEngine, a pass acts on the device when   *)
(* it is queued, the host learns what it drew when it reads the pass, and a *)
(* cell of the cache holds the text it was computed from, or Junk.          *)
(***************************************************************************)
EXTENDS Lines, FiniteSetsExt

CONSTANTS
  Request,        \* the requests clients may submit
  NSlots,         \* rows of the batch
  MaxSeq,         \* positions of a row
  Prompt,         \* request -> its prompt
  MaxNew,         \* request -> max_new_tokens
  Token, Eos,     \* the vocabulary, and the tokens that end a request
  Packs,          \* prompt tokens of a pass at most, 0 where none is packed: the settings
  MixSize,        \* prompt tokens of a pass that carries the rows' step, 0 if none may
  MaxGroup,       \* prompts of a pass at most where none is packed
  None, Junk

Slot == 1..NSlots

ASSUME RowEngineAssumption ==
  /\ NSlots \in Nat \ {0} /\ MaxSeq \in Nat \ {0} /\ MaxGroup \in Nat \ {0}
  /\ Prompt \in [Request -> Seq(Token)]
  /\ \A r \in Request : 1 <= Len(Prompt[r]) /\ Len(Prompt[r]) < MaxSeq
  /\ MaxNew \in [Request -> Nat] /\ Eos \subseteq Token
  /\ \A n \in Packs : n \in Nat /\ (n = 0 \/ n >= MaxSeq)
  /\ MixSize \in Nat
  /\ None \notin Request /\ Junk \notin Token /\ Junk \notin Seq(Token)

VARIABLES
  \* the requests: Completion
  submitted, tokens, reason,
  \* the host: Engine
  pack,           \* the setting of this engine
  waiting,        \* requests not admitted, in the order they are
  running,        \* history: those admitted that have not ended, in that order
  rows,           \* slot -> its request
  positions,      \* the last position of a slot by the tokens read
  queued,         \* passes not read: each the sequence of tokens it drew
  reading,        \* the tokens still to be read of the pass being read
  ahead,          \* passes this step leaves queued
  \* the step under way
  pc,
  admitted,       \* the requests this step admits
  passes,         \* the prompts' passes still to be queued: places in each
  mixed,          \* the places of the pass that carries the rows' step
  sharing,        \* place -> the places whose prompts are the same
  \* the device
  devPos, devTok, devKey, cache

requestVars == <<submitted, tokens, reason>>
lineVars == <<pack, waiting, running>>
passVars == <<queued, reading, ahead>>
localVars == <<admitted, passes, mixed, sharing>>
deviceVars == <<devPos, devTok, devKey, cache>>
vars == <<requestVars, lineVars, rows, positions, passVars, pc, localVars, deviceVars>>

At(label) == pc = label
Goto(label) == pc' = label

-----------------------------------------------------------------------------
(* What the code computes from its state.                                   *)

\* A place is a slot with the request it is for.
Length(place) == Len(Prompt[place.req])
InUse == {s \in Slot : rows[s] # None}
FreeSlots == Slot \ InUse

\* A sequence in the order of a key; `sort` keeps the order of equals.
ByKey(seq, Key(_)) ==
  LET Before(i) == {j \in DOMAIN seq : \/ Key(seq[j]) < Key(seq[i])
                                       \/ Key(seq[j]) = Key(seq[i]) /\ j < i}
  IN  [k \in DOMAIN seq |-> seq[CHOOSE i \in DOMAIN seq : Cardinality(Before(i)) = k - 1]]
InOrder(slots) ==
  [k \in 1..Cardinality(slots) |->
     CHOOSE s \in slots : Cardinality({t \in slots : t < s}) = k - 1]

busy == waiting # <<>> \/ InUse # {} \/ queued # <<>>

\* Tokens drawn for r and not read: a pass draws one for a row at most.
Draws(pass, r) == \E i \in DOMAIN pass : pass[i].req = r
Pending(r) == Cardinality({i \in DOMAIN queued : Draws(queued[i], r)})
Decoding == {s \in InUse : Len(tokens[rows[s]]) + Pending(rows[s]) < MaxNew[rows[s]]}

\* The requests admitted in the free slots, the shortest prompts first.
Shortest(r) == Len(Prompt[r])
Placed ==
  LET short == ByKey(admitted, Shortest)
  IN  [i \in DOMAIN short |-> [slot |-> InOrder(FreeSlots)[i], req |-> short[i]]]

\* The first place of those with one prompt passes it; the others share its row.
LeadOf(places, i) ==
  places[CHOOSE j \in DOMAIN places :
           /\ Prompt[places[j].req] = Prompt[places[i].req]
           /\ \A k \in 1..(j - 1) : Prompt[places[k].req] # Prompt[places[i].req]]
Led(places, lead) ==
  {p \in Range(places) : p # lead /\ LeadOf(places, IndexIn(places, p)) = lead}
LeadSet(places) == {LeadOf(places, i) : i \in DOMAIN places}
Leads(places) == Only(places, LeadSet(places))
SharersOf(places) == [lead \in LeadSet(places) |-> Only(places, Led(places, lead))]

Total(batch) ==
  LET sum[k \in 0..Len(batch)] == IF k = 0 THEN 0 ELSE sum[k - 1] + Length(batch[k])
  IN  sum[Len(batch)]

\* First fit, the longest first, into passes of pack tokens and NSlots prompts.
Longest(place) == -Length(place)
Packed(places) ==
  LET line == ByKey(places, Longest)
      Fits(batch, p) == Total(batch) + Length(p) <= pack /\ Len(batch) < NSlots
      Into(batches, p) ==
        IF \E i \in DOMAIN batches : Fits(batches[i], p)
        THEN LET i == CHOOSE i \in DOMAIN batches :
                        Fits(batches[i], p) /\ \A j \in 1..(i - 1) : ~Fits(batches[j], p)
             IN  [batches EXCEPT ![i] = Append(@, p)]
        ELSE Append(batches, <<p>>)
      packed[k \in 0..Len(line)] == IF k = 0 THEN <<>> ELSE Into(packed[k - 1], line[k])
  IN  packed[Len(line)]

\* The prompts of a pass where none is packed: a power of two of them.
Group(n) == Max({1} \cup {g \in 1..n : g <= MaxGroup /\ \E k \in 0..n : g = 2^k})

\* The smallest pass, the first of such.
SmallestOf(batches) ==
  CHOOSE i \in DOMAIN batches :
    \A j \in DOMAIN batches : \/ Total(batches[i]) < Total(batches[j])
                              \/ Total(batches[i]) = Total(batches[j]) /\ i <= j

SharersNone(place) == <<>>      \* mutant: only the first of a prompt is passed
Sharers(place) == IF place \in DOMAIN sharing THEN sharing[place] ELSE <<>>

\* A pass's rows: its prompts', then those that share them.
Everyone(batch) == batch \o FlattenSeq([i \in DOMAIN batch |-> Sharers(batch[i])])
SlotsOf(places) == {p.slot : p \in Range(places)}
RequestIn(places, s) == (CHOOSE p \in Range(places) : p.slot = s).req

-----------------------------------------------------------------------------
(* The cache.                                                               *)

Nothing == [i \in 0..(MaxSeq - 1) |-> Junk]      \* a row without a request

Extend(text, more) == IF text = Junk \/ Junk \in Range(more) THEN Junk ELSE text \o more

\* The text the first n positions of a row hold: what its attention sees.
Seen(row, n) ==
  IF n = 0 THEN <<>>
  ELSE IF /\ row[n - 1] # Junk
          /\ \A i \in 0..(n - 1) : row[i] = SubSeq(row[n - 1], 1, i + 1)
       THEN row[n - 1]
       ELSE Junk

\* The rows once a pass has written its prompts from their first position.
Filled(batch) ==
  [s \in Slot |->
     IF s \notin SlotsOf(batch) THEN cache[s]
     ELSE LET text == Prompt[RequestIn(batch, s)]
          IN  [i \in 0..(MaxSeq - 1) |-> IF i < Len(text) THEN SubSeq(text, 1, i + 1) ELSE Junk]]

\* _copy_rows: the rows that share a prompt of the pass copy its row.
Copied(batch, cells) ==
  [s \in Slot |->
     LET leads == {p \in Range(batch) : s \in SlotsOf(Sharers(p))}
     IN  IF leads = {} THEN cells[s] ELSE cells[(CHOOSE p \in leads : TRUE).slot]]

\* The rows given take what is given, the others keep theirs.
Over(given, all) == [s \in Slot |-> IF s \in DOMAIN given THEN given[s] ELSE all[s]]

\* _admit: the rows of a pass take the tokens drawn after their prompts.
Enter(everyone, draw, tok, at) ==
  LET Of == [s \in SlotsOf(everyone) |-> RequestIn(everyone, s)]
  IN  /\ rows' = Over(Of, rows)
      /\ devKey' = Over(Of, devKey)
      /\ devTok' = Over(draw, tok)
      /\ devPos' = Over([s \in DOMAIN Of |-> Len(Prompt[Of[s]])], at)

Prompted(everyone, draw, cells) ==
  [i \in DOMAIN everyone |->
     LET p == everyone[i]
     IN  [slot |-> p.slot, req |-> p.req, token |-> draw[p.slot], key |-> p.req,
          text |-> Seen(cells[p.slot], Length(p)), prompt |-> TRUE]]

\* A step writes every row, the rows a pass fills (`parked`) at the cache's last
\* position, and free ones along.
PlaceHere(s, parked) == devPos[s]        \* mutant: they are not parked
PlaceOf(s, parked) == IF s \in parked THEN MaxSeq - 1 ELSE devPos[s]
StepText(cells, parked) ==
  [s \in Slot |-> Extend(Seen(cells[s], PlaceOf(s, parked)), <<devTok[s]>>)]
StepCells(cells, parked) ==
  LET text == StepText(cells, parked)
  IN  [s \in Slot |-> [cells[s] EXCEPT ![PlaceOf(s, parked)] = text[s]]]

\* _advance: every row takes its token, and moves on within the cache; of a row
\* without a request neither is anybody's.
TokenAfter(draw) == Over(draw, [s \in Slot |-> Junk])
PlaceAfter == [s \in Slot |-> IF s \in InUse THEN Min({devPos[s] + 1, MaxSeq - 1}) ELSE devPos[s]]

Stepped(stepping, draw, text) ==
  [i \in 1..Cardinality(stepping) |->
     LET s == InOrder(stepping)[i]
     IN  [slot |-> s, req |-> rows[s], token |-> draw[s], key |-> devKey[s],
          text |-> text[s], prompt |-> FALSE]]

-----------------------------------------------------------------------------
(* Calls between steps.                                                     *)

Submit(r) ==
  /\ At("idle")
  /\ r \notin Range(submitted)
  /\ submitted' = Append(submitted, r)
  /\ waiting' = Append(waiting, r)
  /\ UNCHANGED <<pack, tokens, reason, running, rows, positions, passVars, pc, localVars, deviceVars>>

Release(r) ==
  LET s == CHOOSE s \in Slot : rows[s] = r
  IN  IF \E t \in Slot : rows[t] = r
      THEN /\ rows' = [rows EXCEPT ![s] = None]
           /\ cache' = [cache EXCEPT ![s] = Nothing]
           /\ devTok' = [devTok EXCEPT ![s] = Junk]
           /\ devPos' = [devPos EXCEPT ![s] = 0]
           /\ devKey' = [devKey EXCEPT ![s] = None]
      ELSE UNCHANGED <<rows, deviceVars>>

Cancel(r) ==
  /\ At("idle")
  /\ r \in Range(submitted)
  /\ reason[r] = ""
  /\ reason' = [reason EXCEPT ![r] = "cancelled"]
  /\ waiting' = Without(waiting, r)
  /\ running' = Without(running, r)
  /\ Release(r)
  /\ UNCHANGED <<pack, submitted, tokens, positions, passVars, pc, localVars>>

-----------------------------------------------------------------------------
(* step: the requests admitted, their passes, a step of the rows.           *)

BeginStep ==
  /\ At("idle")
  /\ busy
  /\ Goto("admit")
  /\ UNCHANGED <<requestVars, lineVars, rows, positions, passVars, localVars, deviceVars>>

Admit ==
  /\ At("admit")
  /\ waiting # <<>>
  /\ Len(admitted) < Cardinality(FreeSlots)
  /\ admitted' = Append(admitted, Head(waiting))
  /\ running' = Append(running, Head(waiting))
  /\ waiting' = Tail(waiting)
  /\ UNCHANGED <<pack, requestVars, rows, positions, passVars, pc, passes, mixed, sharing, deviceVars>>

\* The smallest pass carries the rows' step, if it is small enough.
Arrange ==
  /\ At("admit")
  /\ waiting = <<>> \/ Len(admitted) = Cardinality(FreeSlots)
  /\ \E places \in {Placed} :
       LET batches == IF pack > 0 THEN Packed(Leads(places))
                      ELSE IF places = <<>> THEN <<>> ELSE <<places>>
           least   == SmallestOf(batches)
       IN  /\ sharing' = IF pack > 0 THEN SharersOf(places) ELSE <<>>
           /\ IF batches # <<>> /\ InUse # {} /\ pack > 0 /\ Total(batches[least]) <= MixSize
              THEN passes' = RemoveAt(batches, least) /\ mixed' = batches[least]
              ELSE passes' = batches /\ mixed' = <<>>
  /\ admitted' = <<>>
  /\ Goto("pass")
  /\ UNCHANGED <<requestVars, lineVars, rows, positions, passVars, deviceVars>>

PromptPass(batch) ==
  LET everyone == Everyone(batch)
      cells    == Copied(batch, Filled(batch))
  IN  \E draw \in [SlotsOf(everyone) -> Token] :
        /\ cache' = cells
        /\ Enter(everyone, draw, devTok, devPos)
        /\ queued' = Append(queued, Prompted(everyone, draw, cells))
        /\ UNCHANGED <<requestVars, lineVars, positions, reading, ahead, pc, admitted, mixed,
                       sharing>>

PackedPass ==
  /\ At("pass")
  /\ passes # <<>> /\ pack > 0
  /\ PromptPass(Head(passes))
  /\ passes' = Tail(passes)

GroupedPass ==
  /\ At("pass")
  /\ passes # <<>> /\ pack = 0
  /\ LET places == Head(passes)
         group  == Group(Len(places))
     IN  /\ PromptPass(SubSeq(places, 1, group))
         /\ passes' = IF group = Len(places) THEN <<>>
                      ELSE <<SubSeq(places, group + 1, Len(places))>>

PassesDone ==
  /\ At("pass")
  /\ passes = <<>>
  /\ Goto(IF mixed # <<>> THEN "mix" ELSE "decode")
  /\ UNCHANGED <<requestVars, lineVars, rows, positions, passVars, localVars, deviceVars>>

Ahead(mixes) == IF mixes THEN 2 ELSE 1

\* The smallest pass with a step of every row in use but those it fills, which
\* have no token to step from yet.  The prompts' tokens are read first.
MixPass ==
  /\ At("mix")
  /\ LET everyone == Everyone(mixed)
         parked   == SlotsOf(mixed)
         cells    == Copied(mixed, StepCells(Filled(mixed), parked))
     IN  \E first \in [SlotsOf(everyone) -> Token], draw \in [InUse -> Token] :
           /\ cache' = cells
           /\ Enter(everyone, first, TokenAfter(draw), PlaceAfter)
           /\ queued' = queued \o <<Prompted(everyone, first, cells),
                                    Stepped(InUse, draw, StepText(Filled(mixed), parked))>>
  /\ mixed' = <<>>
  /\ ahead' = Ahead(TRUE)
  /\ Goto("read")
  /\ UNCHANGED <<requestVars, lineVars, positions, reading, admitted, passes, sharing>>

DecodeStep ==
  /\ At("decode")
  /\ Decoding # {}
  /\ cache' = StepCells(cache, {})
  /\ \E draw \in [Decoding -> Token] :
       /\ devTok' = TokenAfter(draw)
       /\ queued' = Append(queued, Stepped(Decoding, draw, StepText(cache, {})))
  /\ devPos' = PlaceAfter
  /\ ahead' = Ahead(FALSE)
  /\ Goto("read")
  /\ UNCHANGED <<requestVars, lineVars, rows, positions, reading, localVars, devKey>>

DecodeNone ==
  /\ At("decode")
  /\ Decoding = {}
  /\ ahead' = 0
  /\ Goto("read")
  /\ UNCHANGED <<requestVars, lineVars, rows, positions, queued, reading, localVars, deviceVars>>

-----------------------------------------------------------------------------
(* read: the passes queued but the last `ahead`.                            *)

PopPass ==
  /\ At("read")
  /\ reading = <<>>
  /\ Len(queued) > ahead
  /\ reading' = Head(queued)
  /\ queued' = Tail(queued)
  /\ UNCHANGED <<requestVars, lineVars, rows, positions, ahead, pc, localVars, deviceVars>>

\* Finished a step earlier: this token ran along.
SkipToken ==
  /\ At("read")
  /\ reading # <<>>
  /\ reason[Head(reading).req] # ""
  /\ reading' = Tail(reading)
  /\ UNCHANGED <<requestVars, lineVars, rows, positions, queued, ahead, pc, localVars, deviceVars>>

ReasonLate(r, text, at) ==              \* mutant: the cache's last position is used
  IF Last(text) \in Eos THEN "eos"
  ELSE IF Len(text) >= MaxNew[r] THEN "length"
  ELSE IF at >= MaxSeq THEN "cache" ELSE ""
Reason(r, text, at) ==
  IF Last(text) \in Eos THEN "eos"
  ELSE IF Len(text) >= MaxNew[r] THEN "length"
  ELSE IF at + 1 >= MaxSeq THEN "cache" ELSE ""

ReadToken ==
  /\ At("read")
  /\ reading # <<>>
  /\ LET it   == Head(reading)
         r    == it.req
         text == Append(tokens[r], it.token)
         at   == IF it.prompt THEN Len(Prompt[r]) + Len(text) - 1 ELSE positions[it.slot] + 1
     IN  /\ reason[r] = ""
         /\ tokens' = [tokens EXCEPT ![r] = text]
         /\ positions' = [positions EXCEPT ![it.slot] = at]
         /\ reason' = [reason EXCEPT ![r] = Reason(r, text, at)]
         /\ IF reason'[r] # "" THEN Release(r) /\ running' = Without(running, r)
                               ELSE UNCHANGED <<rows, running, deviceVars>>
  /\ reading' = Tail(reading)
  /\ UNCHANGED <<pack, submitted, waiting, queued, ahead, pc, localVars>>

ReadDone ==
  /\ At("read")
  /\ reading = <<>>
  /\ Len(queued) <= ahead
  /\ Goto("idle")
  /\ ahead' = 0
  /\ sharing' = <<>>
  /\ UNCHANGED <<requestVars, lineVars, rows, positions, queued, reading, admitted, passes,
                 mixed, deviceVars>>

-----------------------------------------------------------------------------
Init ==
  /\ pack \in Packs
  /\ submitted = <<>> /\ waiting = <<>> /\ running = <<>>
  /\ tokens = [r \in Request |-> <<>>] /\ reason = [r \in Request |-> ""]
  /\ rows = [s \in Slot |-> None] /\ positions = [s \in Slot |-> 0]
  /\ queued = <<>> /\ reading = <<>> /\ ahead = 0
  /\ pc = "idle" /\ admitted = <<>> /\ passes = <<>> /\ mixed = <<>> /\ sharing = <<>>
  /\ devPos = [s \in Slot |-> 0]
  /\ devTok = [s \in Slot |-> Junk] /\ devKey = [s \in Slot |-> None]
  /\ cache = [s \in Slot |-> Nothing]

Step ==
  \/ BeginStep \/ Admit \/ Arrange
  \/ PackedPass \/ GroupedPass \/ PassesDone \/ MixPass \/ DecodeStep \/ DecodeNone
  \/ PopPass \/ SkipToken \/ ReadToken \/ ReadDone

\* With nothing to do, the engine waits for a call.
Rest == At("idle") /\ ~busy /\ UNCHANGED vars

Next == (\E r \in Request : Submit(r) \/ Cancel(r)) \/ Step \/ Rest

\* The engine is stepped while it is busy (Engine.run, Server._run).
Spec == Init /\ [][Next]_vars /\ WF_vars(Step)

-----------------------------------------------------------------------------
(* Properties.                                                              *)

\* A token read for a request that still runs was drawn from the request's own
\* text so far with its own sampling: neither the request whose row it got, nor
\* the rows that stepped along beside it, nor the one whose row it copied shows.
OwnText ==
  reading # <<>> /\ reason[Head(reading).req] = "" =>
    LET it == Head(reading)
    IN  it.text = Prompt[it.req] \o tokens[it.req] /\ it.key = it.req

\* Every request submitted ends: whatever is asked of it meanwhile, the engine has
\* again and again nothing left to do.
EveryRequestEnds == []<>(\A r \in Range(submitted) : reason[r] # "")

\* The engine keeps the promise of Batching: that it admits several requests at
\* once, sorts, groups and shares their passes and reads late shows in neither
\* the order requests are served, nor the tokens they have, nor the reason they
\* end.
Batch == INSTANCE Batching
ServesAsBatching == Batch!Spec
=============================================================================
