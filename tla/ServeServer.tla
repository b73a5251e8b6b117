----------------------------- MODULE ServeServer -----------------------------
(***************************************************************************)
(* linnet.serve.Server: the thread that runs the engine, and one handler    *)
(* thread for each POST.  A handler puts one request for each choice into   *)
(* the inbox; the engine thread submits it, and puts an event into the      *)
(* handler's queue for each token read.  A handler that has enough, or has  *)
(* lost its client, puts a cancel into the inbox.                           *)
(*                                                                         *)
(* The engine is Batching, which PagedEngine is shown to implement.  Its    *)
(* state belongs to the engine thread.                                      *)
(***************************************************************************)
EXTENDS Lines, FiniteSetsExt

CONSTANTS
  Handler,        \* the POSTs clients may send
  ChoicesOf,        \* handler -> its requests, one for each choice
  Streams,        \* the handlers that stream their answer
  Stop,           \* handler -> its stop strings
  Char,
  TextOf,         \* token -> the text it adds, which may be none
  NSlots, Prompt, MaxNew, MaxSeq, Token, Eos,     \* of the engine
  Faults,         \* what may happen: "fail", "leave", "shutdown"
  Error           \* in place of a token: the engine has failed

Request == UNION {Range(ChoicesOf[h]) : h \in Handler}

ASSUME ServerAssumption ==
  /\ \A h \in Handler :
       ChoicesOf[h] \in Seq(Range(ChoicesOf[h])) /\ ChoicesOf[h] # <<>> /\ IsInjective(ChoicesOf[h])
  /\ \A h, g \in Handler : h # g => Range(ChoicesOf[h]) \cap Range(ChoicesOf[g]) = {}
  /\ Streams \subseteq Handler
  /\ \A h \in Handler : IsFiniteSet(Stop[h]) /\ \A stop \in Stop[h] : stop \in Seq(Char) /\ stop # <<>>
  /\ \A t \in Token : TextOf[t] \in Seq(Char)
  /\ \A r \in Request : MaxNew[r] \in 1..(MaxSeq - Len(Prompt[r]))
  /\ NSlots \in Nat \ {0} /\ Eos \subseteq Token /\ Error \notin Token
  /\ Faults \subseteq {"fail", "leave", "shutdown"}

VARIABLES
  \* the engine
  submitted, waiting, running, tokens, reason,
  \* the engine thread
  epc,            \* where it is
  active,         \* the requests it may still have to answer
  \* shared
  inbox,          \* what handlers sent: submits and cancels
  events,         \* handler -> what the engine thread sent it
  failed, stopping,
  \* the handlers
  hpc,            \* where each is
  todo,           \* requests a handler has still to submit, or to cancel
  got,            \* request -> the tokens its handler has read
  written,        \* request -> the text of its choice
  sent,           \* request -> how much of that has been yielded
  ended           \* request -> why its choice ended, "" while it has not

engineVars  == <<submitted, waiting, running, tokens, reason>>
threadVars  == <<epc, active>>
sharedVars  == <<inbox, events, failed, stopping>>
textVars == <<got, written, sent, ended>>
handlerVars == <<hpc, todo, textVars>>
vars == <<engineVars, threadVars, sharedVars, handlerVars>>

Engine == INSTANCE Batching

HandlerOf(r) == CHOOSE h \in Handler : r \in Range(ChoicesOf[h])

busy == waiting # <<>> \/ running # <<>>

Message(kind, r) == [kind |-> kind, req |-> r]

-----------------------------------------------------------------------------
(* The engine thread: Server._run.                                          *)

RunOn ==
  /\ epc = "run"
  /\ epc' = IF stopping THEN "over" ELSE "take"
  /\ UNCHANGED <<engineVars, active, sharedVars, handlerVars>>

TakeSubmit(r) ==
  /\ Engine!Submit(r)
  /\ active' = Append(active, r)

\* One never submitted, or already over, is left as it is.
TakeCancel(r) ==
  /\ IF r \in Range(submitted) /\ reason[r] = "" THEN Engine!Cancel(r)
     ELSE UNCHANGED engineVars
  /\ UNCHANGED active

TakeMessage ==
  /\ epc = "take"
  /\ inbox # <<>>
  /\ LET message == Head(inbox)
     IN  \/ message.kind = "submit" /\ TakeSubmit(message.req)
         \/ message.kind = "cancel" /\ TakeCancel(message.req)
  /\ inbox' = Tail(inbox)
  /\ UNCHANGED <<epc, events, failed, stopping, handlerVars>>

TakeDone ==
  /\ epc = "take"
  /\ inbox = <<>>
  /\ epc' = IF busy THEN "step" ELSE "run"
  /\ UNCHANGED <<engineVars, active, sharedVars, handlerVars>>

\* on_token: each choice's tokens carry its own index.
TokenOfLast(r) ==       \* mutant: the index of the loop's last choice
  [req |-> Last(ChoicesOf[HandlerOf(r)]), token |-> Last(tokens'[r]), reason |-> reason'[r]]
TokenOfEarly(r) ==      \* mutant: told before the reason is set
  [req |-> r, token |-> Last(tokens'[r]), reason |-> reason[r]]
TokenOf(r) == [req |-> r, token |-> Last(tokens'[r]), reason |-> reason'[r]]

Tell(r, event) == events' = [events EXCEPT ![HandlerOf(r)] = Append(@, event)]

StepEmit(r) ==
  /\ epc = "step"
  /\ Engine!Emit(r)
  /\ Tell(r, TokenOf(r))
  /\ UNCHANGED <<threadVars, inbox, failed, stopping, handlerVars>>

StepAdmit ==
  /\ epc = "step"
  /\ Engine!Admit
  /\ UNCHANGED <<threadVars, sharedVars, handlerVars>>

StepPreempt ==
  /\ epc = "step"
  /\ Engine!Preempt
  /\ UNCHANGED <<threadVars, sharedVars, handlerVars>>

StillActiveInRows(r) == r \in Range(running)      \* mutant: the line is forgotten
StillActive(r) == reason[r] = ""

StepDone ==
  /\ epc = "step"
  /\ active' = Only(active, {r \in Request : StillActive(r)})
  /\ epc' = "run"
  /\ UNCHANGED <<engineVars, sharedVars, handlerVars>>

StepFails ==
  /\ "fail" \in Faults
  /\ epc = "step"
  /\ failed' = TRUE
  /\ epc' = "tell"
  /\ UNCHANGED <<engineVars, active, inbox, events, stopping, handlerVars>>

TellFailure ==
  /\ epc = "tell"
  /\ active # <<>>
  /\ Tell(Head(active), [req |-> Head(active), token |-> Error, reason |-> "failed"])
  /\ active' = Tail(active)
  /\ UNCHANGED <<engineVars, epc, inbox, failed, stopping, handlerVars>>

TellDone ==
  /\ epc = "tell"
  /\ active = <<>>
  /\ epc' = "over"
  /\ UNCHANGED <<engineVars, active, sharedVars, handlerVars>>

Shutdown ==
  /\ "shutdown" \in Faults
  /\ ~stopping
  /\ stopping' = TRUE
  /\ UNCHANGED <<engineVars, threadVars, inbox, events, failed, handlerVars>>

-----------------------------------------------------------------------------
(* A handler: generate, pieces, and what writes them.                       *)

GoTo(h, label) == hpc' = [hpc EXCEPT ![h] = label]

Refuse(h) ==
  /\ hpc[h] = "new"
  /\ failed
  /\ GoTo(h, "error")
  /\ UNCHANGED <<engineVars, threadVars, sharedVars, todo, textVars>>

Generate(h) ==
  /\ hpc[h] = "new"
  /\ ~failed
  /\ todo' = [todo EXCEPT ![h] = ChoicesOf[h]]
  /\ GoTo(h, "submit")
  /\ UNCHANGED <<engineVars, threadVars, sharedVars, textVars>>

\* Sends the next of what is to do; goes to `next` with the last.
Put(h, kind, next) ==
  /\ inbox' = Append(inbox, Message(kind, Head(todo[h])))
  /\ todo' = [todo EXCEPT ![h] = Tail(@)]
  /\ GoTo(h, IF Tail(todo[h]) = <<>> THEN next ELSE hpc[h])
  /\ UNCHANGED <<engineVars, threadVars, events, failed, stopping, textVars>>

PutSubmit(h) ==
  /\ hpc[h] = "submit"
  /\ Put(h, "submit", IF h \in Streams THEN "open" ELSE "read")

\* The head of a stream is written before its first piece is asked for.
Open(h) ==
  /\ hpc[h] = "open"
  /\ GoTo(h, "read")
  /\ UNCHANGED <<engineVars, threadVars, sharedVars, todo, textVars>>

\* A client that left shows when it is written to, if then.
Left(h) == "leave" \in Faults /\ h \in Streams

\* A generator that never ran is closed without running any of it.
OpenFails(h) ==
  /\ hpc[h] = "open"
  /\ Left(h)
  /\ GoTo(h, "unopened")
  /\ UNCHANGED <<engineVars, threadVars, sharedVars, todo, textVars>>

AllEnded(h) == \A r \in Range(ChoicesOf[h]) : ended[r] # ""

ReadFailure(h) ==
  /\ hpc[h] = "read"
  /\ ~AllEnded(h)
  /\ events[h] # <<>>
  /\ Head(events[h]).token = Error
  /\ events' = [events EXCEPT ![h] = Tail(@)]
  /\ GoTo(h, "error")
  /\ UNCHANGED <<engineVars, threadVars, inbox, failed, stopping, todo, textVars>>

\* Read after a stop string ended it.
ReadLate(h) ==
  /\ hpc[h] = "read"
  /\ ~AllEnded(h)
  /\ events[h] # <<>>
  /\ Head(events[h]).token # Error
  /\ ended[Head(events[h]).req] # ""
  /\ events' = [events EXCEPT ![h] = Tail(@)]
  /\ UNCHANGED <<engineVars, threadVars, inbox, failed, stopping, handlerVars>>

FinishRaw(why) == why    \* mutant: the engine's reason is sent as it is
Finish(why) == IF why \in {"length", "cache"} THEN "length" ELSE "stop"

\* What could be the start of a stop string is held back.
HoldShortest(h) ==       \* mutant: enough for the shortest only
  IF Stop[h] = {} THEN 0 ELSE Min({Len(stop) : stop \in Stop[h]}) - 1
Hold(h) == IF Stop[h] = {} THEN 0 ELSE Max({Len(stop) : stop \in Stop[h]}) - 1

\* How much of a text that goes on may be sent.
SendableAll(h, text) == Len(text)       \* mutant: nothing is held back
Sendable(h, text) == Len(text) - Hold(h)

\* Where stop strings are found in a text, from `start` on, which counts from 0.
Found(text, stops, start) ==
  {i \in start..Len(text) : \E stop \in stops : IsPrefix(stop, SubSeq(text, i + 1, Len(text)))}

CancelNothing(r) == inbox' = inbox       \* mutant: a stopped choice keeps its row
CancelCut(r) == inbox' = Append(inbox, Message("cancel", r))

\* A stop string ends the text where it begins; the token that ends a text is
\* not in it.  A piece is yielded with the last of a choice, and when more of the
\* text can be sent.
ReadToken(h) ==
  /\ hpc[h] = "read"
  /\ ~AllEnded(h)
  /\ events[h] # <<>>
  /\ LET event == Head(events[h])
         r     == event.req
         text  == IF event.reason = "eos" THEN written[r] ELSE written[r] \o TextOf[event.token]
         cuts  == Found(text, Stop[h], Max({0, sent[r] - Hold(h)}))
         end   == IF ended'[r] # "" THEN Len(written'[r]) ELSE Sendable(h, text)
     IN  /\ event.token # Error
         /\ ended[r] = ""
         /\ got' = [got EXCEPT ![r] = Append(@, event.token)]
         /\ \/ /\ cuts # {}
               /\ written' = [written EXCEPT ![r] = SubSeq(text, 1, Min(cuts))]
               /\ ended' = [ended EXCEPT ![r] = "stop"]
               /\ CancelCut(r)
            \/ /\ cuts = {}
               /\ written' = [written EXCEPT ![r] = text]
               /\ ended' = IF event.reason = "" THEN ended
                           ELSE [ended EXCEPT ![r] = Finish(event.reason)]
               /\ UNCHANGED inbox
         /\ sent' = [sent EXCEPT ![r] = Max({end, @})]
         /\ IF (end > sent[r] \/ ended'[r] # "") /\ h \in Streams THEN GoTo(h, "write")
            ELSE UNCHANGED hpc
  /\ events' = [events EXCEPT ![h] = Tail(@)]
  /\ UNCHANGED <<engineVars, threadVars, failed, stopping, todo>>

Write(h) ==
  /\ hpc[h] = "write"
  /\ GoTo(h, "read")
  /\ UNCHANGED <<engineVars, threadVars, sharedVars, todo, textVars>>

\* The client left: the choices that have not ended are cancelled.
WriteFails(h) ==
  /\ hpc[h] = "write"
  /\ Left(h)
  /\ todo' = [todo EXCEPT ![h] = Only(ChoicesOf[h], {r \in Request : ended[r] = ""})]
  /\ GoTo(h, IF todo'[h] = <<>> THEN "closed" ELSE "close")
  /\ UNCHANGED <<engineVars, threadVars, sharedVars, textVars>>

PutCancel(h) == hpc[h] = "close" /\ Put(h, "cancel", "closed")

Answer(h) ==
  /\ hpc[h] = "read"
  /\ AllEnded(h)
  /\ GoTo(h, "answered")
  /\ UNCHANGED <<engineVars, threadVars, sharedVars, todo, textVars>>

-----------------------------------------------------------------------------
Init ==
  /\ Engine!Init
  /\ epc = "run" /\ active = <<>>
  /\ inbox = <<>> /\ events = [h \in Handler |-> <<>>]
  /\ failed = FALSE /\ stopping = FALSE
  /\ hpc = [h \in Handler |-> "new"] /\ todo = [h \in Handler |-> <<>>]
  /\ got = [r \in Request |-> <<>>] /\ ended = [r \in Request |-> ""]
  /\ written = [r \in Request |-> <<>>] /\ sent = [r \in Request |-> 0]

EngineStep ==
  \/ StepAdmit \/ StepPreempt \/ (\E r \in Request : StepEmit(r))

EngineThread ==
  \/ RunOn \/ TakeMessage \/ TakeDone \/ StepDone \/ TellFailure \/ TellDone

HandlerThread(h) ==
  \/ Refuse(h) \/ PutSubmit(h) \/ Open(h) \/ OpenFails(h)
  \/ ReadFailure(h) \/ ReadLate(h) \/ ReadToken(h) \/ Write(h) \/ WriteFails(h)
  \/ PutCancel(h) \/ Answer(h)

Over == {"answered", "error", "closed", "unopened"}

\* Nothing is left to do: every handler is over, or has nobody to hear from.
Rest ==
  /\ epc = "over"
  /\ \A h \in Handler : hpc[h] \in Over \/ (hpc[h] = "read" /\ events[h] = <<>>)
  /\ UNCHANGED vars

Next ==
  \/ EngineThread \/ EngineStep \/ StepFails \/ Shutdown
  \/ \E h \in Handler : Generate(h) \/ HandlerThread(h)
  \/ Rest

\* Threads run on.  The engine steps its requests to their ends, as PagedEngine
\* is shown to: one that can be admitted, or read, again and again is.
Fairness ==
  /\ WF_vars(EngineThread)
  /\ SF_vars(StepAdmit)
  /\ \A r \in Request : SF_vars(StepEmit(r))
  /\ \A h \in Handler : WF_vars(HandlerThread(h))

Spec == Init /\ [][Next]_vars /\ Fairness

-----------------------------------------------------------------------------
(* What is checked of it.                                                   *)

\* Every variable has its type; a choice ends for one of the two reasons the
\* API has.
TypeOK ==
  /\ submitted \in Seq(Request) /\ active \in Seq(Request)
  /\ waiting \in Seq(Request) /\ running \in Seq(Request)
  /\ tokens \in [Request -> Seq(Token)] /\ got \in [Request -> Seq(Token)]
  /\ reason \in [Request -> {"", "eos", "length", "cache", "cancelled"}]
  /\ epc \in {"run", "take", "step", "tell", "over"}
  /\ inbox \in Seq([kind : {"submit", "cancel"}, req : Request])
  /\ \A h \in Handler :
       events[h] \in Seq([req : Range(ChoicesOf[h]), token : Token \cup {Error},
                          reason : {"", "eos", "length", "cache", "failed"}])
  /\ failed \in BOOLEAN /\ stopping \in BOOLEAN
  /\ hpc \in [Handler -> {"new", "submit", "open", "read", "write", "close"} \cup Over]
  /\ todo \in [Handler -> Seq(Request)]
  /\ ended \in [Request -> {"", "stop", "length"}]
  /\ \A r \in Request : sent[r] \in 0..Len(written[r])

\* All the text of the tokens read, and where its first stop string begins.
TextRead(r) ==
  LET tokensRead == IF got[r] # <<>> /\ Last(got[r]) \in Eos THEN Front(got[r]) ELSE got[r]
  IN  FoldLeft(LAMBDA text, token : text \o TextOf[token], <<>>, tokensRead)
FirstStop(r) ==
  Min(Found(TextRead(r), Stop[HandlerOf(r)], 0) \cup {Len(TextRead(r))})

\* A stop string ended the choice.
WasCut(r) == ended[r] = "stop" /\ Found(TextRead(r), Stop[HandlerOf(r)], 0) # {}

\* What is sent of a choice is the start of its text, up to its first stop string
\* and none of that, however the string is cut into tokens and pieces; and all of
\* it once the choice ends (pieces: the text held back, and where it is searched).
SentStopsShort ==
  \A r \in Request :
    /\ SubSeq(written[r], 1, sent[r]) = SubSeq(TextRead(r), 1, sent[r])
    /\ sent[r] <= FirstStop(r)
    /\ ended[r] # "" => sent[r] = FirstStop(r)
    /\ FirstStop(r) < Len(TextRead(r)) => ended[r] # ""

\* Text a client was sent is not taken back or changed, however a stop string is
\* cut into tokens: what is yielded ends before the first place one could begin.
NothingTakenBack ==
  [][\A r \in Request : /\ sent'[r] >= sent[r]
                        /\ sent'[r] <= Len(written'[r])
                        /\ SubSeq(written'[r], 1, sent[r]) = SubSeq(written[r], 1, sent[r])]_vars

\* The tokens on their way to the handler of r.
Coming(r) ==
  LET own == Only(events[HandlerOf(r)],
                  [req : {r}, token : Token, reason : {"", "eos", "length", "cache"}])
  IN  [i \in 1..Len(own) |-> own[i].token]

\* Each choice gets its own tokens, each once and in order, and the reason they
\* ended for: what was read and what is on its way are what the engine gave the
\* request, or their start when a stop string cut it (on_token, pieces).
Delivered ==
  \A r \in Request :
    /\ WasCut(r) => IsPrefix(got[r], tokens[r])
    /\ ~WasCut(r) => got[r] \o Coming(r) = tokens[r]
    /\ ended[r] # "" /\ ~WasCut(r) => ended[r] = Finish(reason[r])

\* The engine has ended r, or has been asked to.
Freed(r) == reason[r] # "" \/ Message("cancel", r) \in Range(inbox)

\* No row goes on for a choice nobody reads any more: one that a stop string
\* ended, or whose handler has answered or has lost its client part way.
RowsFreed ==
  \A r \in Request :
    ended[r] # "" \/ hpc[HandlerOf(r)] \in {"answered", "closed"} => Freed(r)

\* Every POST is answered, or its client has left, as long as the engine's thread
\* runs: no handler waits for an event that never comes, whatever ends its choices
\* and in whatever order (pieces).
EveryHandlerEnds ==
  []<>(epc = "over" \/ \A h \in Handler : hpc[h] \in {"new"} \cup Over)

\* A handler with a request the engine holds when it fails is told, whether the
\* request is in a row, waits in line or was preempted (_active).
Held(h) == \E r \in Range(ChoicesOf[h]) : r \in Range(submitted) /\ reason[r] = ""
FailureHeard == []<>(failed => \A h \in Handler : Held(h) => hpc[h] \in Over)

\* "every request waiting on it gets the error" (_run): a handler that waits for
\* the engine when it fails does not wait for ever.
EveryRequestHears ==
  \A h \in Handler : failed /\ hpc[h] = "read" ~> hpc[h] \in Over
=============================================================================
