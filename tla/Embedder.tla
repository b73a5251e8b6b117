------------------------------ MODULE Embedder ------------------------------
(***************************************************************************)
(* linnet.serve.embeddings.Embedder: the threads of requests put their jobs *)
(* in one inbox and wait; the embedder's thread takes everything waiting,   *)
(* passes the inputs of all jobs together by their padded length, and wakes *)
(* the jobs.  A pass that raises is the end of the model: these jobs and    *)
(* every later one get its error.  It shares no state with the server's     *)
(* engine, and no name, so that it can stand beside it.                     *)
(***************************************************************************)
EXTENDS Lines, FiniteSets

CONSTANTS
  Client,         \* the threads, each with one request
  Inputs,         \* client -> the padded lengths of its inputs, in order
  Batch,          \* inputs of a pass at most
  NoJob           \* None, the marker that ends the thread

ASSUME EmbedderAssumption ==
  /\ Inputs \in [Client -> Seq(Nat)] /\ \A c \in Client : Inputs[c] # <<>>
  /\ Batch \in Nat \ {0}
  /\ NoJob \notin Client

VARIABLES
  client,         \* where each client is in `embed`
  jobInbox,
  modelFailed,    \* whether the model has raised
  thread,         \* where the embedder's thread is
  jobs,           \* the jobs it serves, to be woken
  places,         \* their inputs still to pass: a job's, by its index
  vectors,        \* the vectors of a job by input: whose input they are of
  error, done,    \* of a job
  stopped,        \* whether `stop` was called
  early           \* history: the jobs put before `stop`

runVars == <<modelFailed, thread, jobs, places, vectors, error, done>>
embedderVars == <<client, jobInbox, stopped, early, runVars>>

-----------------------------------------------------------------------------
(* embed, in a client's thread; stop, in the server's.                      *)

Look(c) ==
  /\ client[c] = "idle"
  /\ client' = [client EXCEPT ![c] = IF modelFailed THEN "raised" ELSE "checked"]
  /\ UNCHANGED <<jobInbox, stopped, early, runVars>>

PutJob(c) ==
  /\ client[c] = "checked"
  /\ client' = [client EXCEPT ![c] = "waiting"]
  /\ jobInbox' = Append(jobInbox, c)
  /\ early' = IF stopped THEN early ELSE early \cup {c}
  /\ UNCHANGED <<stopped, runVars>>

Wake(c) ==
  /\ client[c] = "waiting"
  /\ done[c]
  /\ client' = [client EXCEPT ![c] = IF error[c] THEN "raised" ELSE "answered"]
  /\ UNCHANGED <<jobInbox, stopped, early, runVars>>

StopThread ==
  /\ ~stopped
  /\ stopped' = TRUE
  /\ jobInbox' = Append(jobInbox, NoJob)
  /\ UNCHANGED <<client, early, runVars>>

-----------------------------------------------------------------------------
(* _run                                                                     *)

LengthOf(place) == Inputs[place[1]][place[2]]

\* The inputs of the jobs in the order found, and those of a length together.
InputsOf(all) ==
  FlattenSeq([i \in DOMAIN all |-> [k \in DOMAIN Inputs[all[i]] |-> <<all[i], k>>]])

OfLength(found, n) == Only(found, {p \in Range(found) : LengthOf(p) = n})

PlacesOf(found) ==
  FlattenSeq([i \in DOMAIN found |->
    IF \E j \in 1..(i - 1) : LengthOf(found[j]) = LengthOf(found[i]) THEN <<>>
    ELSE OfLength(found, LengthOf(found[i]))])

Take ==
  /\ thread = "get"
  /\ jobInbox # <<>>
  /\ jobInbox' = Tail(jobInbox)
  /\ IF Head(jobInbox) = NoJob
     THEN thread' = "over" /\ UNCHANGED jobs
     ELSE thread' = "gather" /\ jobs' = <<Head(jobInbox)>>
  /\ UNCHANGED <<client, stopped, early, modelFailed, places, vectors, error, done>>

GatherMore ==
  /\ thread = "gather"
  /\ jobInbox # <<>> /\ Head(jobInbox) # NoJob
  /\ jobInbox' = Tail(jobInbox)
  /\ jobs' = Append(jobs, Head(jobInbox))
  /\ UNCHANGED <<client, stopped, early, modelFailed, thread, places, vectors, error, done>>

StopLost(box) == box             \* mutant: the marker is taken and dropped
StopAgain(box) == Append(box, NoJob)

\* Nothing more waits, or the marker does, which goes behind what came after it.
GatherDone ==
  /\ thread = "gather"
  /\ jobInbox # <<>> => Head(jobInbox) = NoJob
  /\ jobInbox' = IF jobInbox = <<>> THEN jobInbox ELSE StopAgain(Tail(jobInbox))
  /\ thread' = "serve"
  /\ places' = PlacesOf(InputsOf(jobs))
  /\ vectors' = [c \in Client |-> IF c \in Range(jobs) THEN [k \in DOMAIN Inputs[c] |-> <<>>]
                                  ELSE vectors[c]]
  /\ UNCHANGED <<client, stopped, early, modelFailed, jobs, error, done>>

\* The inputs of the next pass: of one length, the first of them, Batch at most.
Alike == {p \in Range(places) : LengthOf(p) = LengthOf(Head(places))}
Group ==
  LET Upto(p) == {q \in Alike : IndexIn(places, q) <= IndexIn(places, p)}
  IN  {p \in Alike : Cardinality(Upto(p)) <= Batch}

RemainingOther == Only(places, Range(places) \ Alike)  \* mutant
Remaining == Only(places, Range(places) \ Group)

Pass ==
  /\ thread = "serve"
  /\ places # <<>>
  /\ vectors' = [c \in Client |-> [k \in DOMAIN vectors[c] |->
       IF <<c, k>> \in Group THEN <<c, k>> ELSE vectors[c][k]]]
  /\ places' = Remaining
  /\ UNCHANGED <<client, jobInbox, stopped, early, modelFailed, thread, jobs, error, done>>

PassRaises ==
  /\ thread = "serve"
  /\ places # <<>>
  /\ modelFailed' = TRUE
  /\ places' = <<>>
  /\ UNCHANGED <<client, jobInbox, stopped, early, thread, jobs, vectors, error, done>>

WakeJob ==
  /\ thread = "serve"
  /\ places = <<>> /\ jobs # <<>>
  /\ LET c == Head(jobs)
     IN  /\ error' = [error EXCEPT ![c] = modelFailed]
         /\ done' = [done EXCEPT ![c] = TRUE]
  /\ jobs' = Tail(jobs)
  /\ thread' = IF Len(jobs) = 1 THEN "get" ELSE thread
  /\ UNCHANGED <<client, jobInbox, stopped, early, modelFailed, places, vectors>>

-----------------------------------------------------------------------------
EmbedderInit ==
  /\ client = [c \in Client |-> "idle"]
  /\ jobInbox = <<>> /\ stopped = FALSE /\ early = {} /\ modelFailed = FALSE
  /\ thread = "get" /\ jobs = <<>> /\ places = <<>>
  /\ vectors = [c \in Client |-> <<>>]
  /\ error = [c \in Client |-> FALSE] /\ done = [c \in Client |-> FALSE]

Thread == Take \/ GatherMore \/ GatherDone \/ Pass \/ PassRaises \/ WakeJob

EmbedderNext == (\E c \in Client : Look(c) \/ PutJob(c) \/ Wake(c)) \/ StopThread \/ Thread

\* The threads run; nobody has to call, nor to stop.
EmbedderSpec == EmbedderInit /\ [][EmbedderNext]_embedderVars /\ WF_embedderVars(Thread) /\ \A c \in Client : WF_embedderVars(Wake(c))

-----------------------------------------------------------------------------
\* A request answered has the vectors of its own inputs, in their order, whatever
\* was passed with them; none is left out.
OwnVectors ==
  \A c \in Client :
    client[c] = "answered" => vectors[c] = [k \in DOMAIN Inputs[c] |-> <<c, k>>]

\* Stopping drains: the thread ends, though its marker is taken and put again behind
\* later jobs, and every request put before it is answered or told, for good.
StopDrains ==
  []<>(/\ stopped => thread = "over"
       /\ \A c \in early : client[c] \in {"answered", "raised"})
=============================================================================
