------------------------------- MODULE Server -------------------------------
(***************************************************************************)
(* linnet.serve.Server in front of what it is given: an Engine, for         *)
(* completions, as in ServeServer, or an Embedder, for embeddings.  Serving *)
(* starts the thread of the one it has, whose routes alone are answered,    *)
(* and its end stops the embedder's.                                        *)
(***************************************************************************)
EXTENDS ServeServer, Embedder

VARIABLE serves         \* which of the two it has

serverVars == <<vars, embedderVars, serves>>

ServesCompletions == serves = "completions"
ServesEmbeddings == serves = "embeddings"

ServerInit == Init /\ EmbedderInit /\ serves \in {"completions", "embeddings"}

\* The embedder's thread is over, and who still waits is not woken.
EmbedderRests ==
  /\ thread = "over"
  /\ \A c \in Client : client[c] \in {"answered", "raised"} \/ (client[c] = "waiting" /\ ~done[c])
  /\ UNCHANGED embedderVars

ServerNext ==
  \/ ServesCompletions /\ Next /\ UNCHANGED <<embedderVars, serves>>
  \/ ServesEmbeddings /\ (EmbedderNext \/ EmbedderRests) /\ UNCHANGED <<vars, serves>>

\* The threads of what is served run on, as in Fairness and EmbedderSpec; a client
\* is woken once, so those of all clients are as fair as one.
ServerFairness ==
  /\ WF_serverVars(\/ ServesCompletions /\ EngineThread /\ UNCHANGED <<embedderVars, serves>>
                   \/ ServesEmbeddings /\ Thread /\ UNCHANGED <<vars, serves>>)
  /\ SF_vars(ServesCompletions /\ StepAdmit)
  /\ \A r \in Request : SF_vars(ServesCompletions /\ StepEmit(r))
  /\ \A h \in Handler : WF_vars(ServesCompletions /\ HandlerThread(h))
  /\ WF_embedderVars(ServesEmbeddings /\ \E c \in Client : Wake(c))

ServerSpec == ServerInit /\ [][ServerNext]_serverVars /\ ServerFairness
=============================================================================
