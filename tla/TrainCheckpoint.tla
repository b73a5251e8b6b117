-------------------------- MODULE TrainCheckpoint --------------------------
(***************************************************************************)
(* linnet.train with checkpoints: the processes of a job take steps         *)
(* together, each on its own batches, and write a checkpoint every so many  *)
(* steps and at the end, each its part, with a marker last; the first       *)
(* process then removes old ones.  The job may be killed between any two    *)
(* files and started again, and goes on from the latest complete one.       *)
(***************************************************************************)
EXTENDS Integers, Sequences, FiniteSets

CONSTANTS
  Process,
  First,          \* the process that writes the marker and removes old checkpoints
  Batches,        \* process -> how many batches it has
  Accumulate,     \* batches of a step
  Asked,          \* what a job may ask for: its `steps`, the steps between two
                  \* checkpoints or 0 for one at the end (`every`), and how many
                  \* to `keep`
  MaxStep,        \* bounds the steps
  MaxCrashes      \* bounds the crashes

ASSUME TrainCheckpointAssumption ==
  /\ First \in Process /\ IsFiniteSet(Process)
  /\ Batches \in [Process -> Nat]
  /\ Accumulate \in Nat \ {0} /\ MaxStep \in Nat /\ MaxCrashes \in Nat
  /\ Asked \subseteq [steps : 1..MaxStep, every : Nat, keep : Nat \ {0}]

VARIABLES
  at,             \* where each process is
  step, start,    \* its count of steps, and what it was when it started
  iterator,       \* the batches it has taken
  learned,        \* the batches its copy of the model has learned from
  part, marker,   \* step -> files of its checkpoint: a process's part, the marker
  doomed,         \* the checkpoints `prune` is to remove
  asked,          \* what this job asked for
  attempt,        \* the count of starts
  ending          \* whether the loop is over

vars == <<at, step, start, iterator, learned, part, marker, doomed, asked, attempt, ending>>

None == [attempt |-> 0, step |-> 0, learned |-> <<>>]   \* no file

-----------------------------------------------------------------------------
(* runs.py: the checkpoints that are complete, and those to remove.         *)

Complete == {s \in 1..MaxStep : marker[s] # 0}

\* The n latest of a set of steps.
LatestOf(steps, n) == {s \in steps : Cardinality({t \in steps : t >= s}) <= n}
Latest == IF Complete = {} THEN 0 ELSE CHOOSE s \in LatestOf(Complete, 1) : TRUE

OldLatest == LatestOf(Complete, asked.keep)
Old == Complete \ LatestOf(Complete, asked.keep)

\* `unsaved`, and the test in the loop that it must be the other side of.
Due(s) == asked.every # 0 /\ s % asked.every = 0
UnsavedNever(s) == FALSE
Unsaved(s) == ~Due(s)

-----------------------------------------------------------------------------
(* load_checkpoint, and the batches its steps took skipped.                 *)

SkipNone(p, s) == 0
Skip(p, s) ==
  LET taken == s * Accumulate IN IF taken < Batches[p] THEN taken ELSE Batches[p]

Load(p) ==
  /\ at[p] = "load"
  /\ LET found == IF Latest = 0 THEN None ELSE part[Latest][p]
     IN /\ learned' = [learned EXCEPT ![p] = found.learned]
        /\ step' = [step EXCEPT ![p] = found.step]
        /\ start' = [start EXCEPT ![p] = found.step]
        /\ iterator' = [iterator EXCEPT ![p] = Skip(p, found.step)]
  /\ at' = [at EXCEPT ![p] = "train"]
  /\ UNCHANGED <<part, marker, doomed, asked, attempt, ending>>

-----------------------------------------------------------------------------
(* The loop.  The processes meet in the sums of each step.                  *)

\* How many batches the next step takes: fewer, or none, at the end.
Group(p) ==
  LET left == Batches[p] - iterator[p] IN IF left < Accumulate THEN left ELSE Accumulate

Ready == \A p \in Process : Group(p) > 0
All(where) == \A p \in Process : at[p] = where
Taken == \E p \in Process : step[p] = asked.steps

TrainStep ==
  /\ All("train")
  /\ ~Taken /\ Ready
  /\ iterator' = [p \in Process |-> iterator[p] + Group(p)]
  /\ learned' = [p \in Process |-> learned[p] \o [i \in 1..Group(p) |-> iterator[p] + i]]
  /\ step' = [p \in Process |-> step[p] + 1]
  /\ at' = [p \in Process |-> IF Due(step[p] + 1) THEN "save" ELSE "train"]
  /\ UNCHANGED <<start, part, marker, doomed, asked, attempt, ending>>

\* The steps are taken, or some process has no batch: all stop.
Stop ==
  /\ All("train")
  /\ Taken \/ ~Ready
  /\ iterator' = IF Taken THEN iterator ELSE [p \in Process |-> iterator[p] + Group(p)]
  /\ at' = [p \in Process |->
              IF step[p] > start[p] /\ Unsaved(step[p]) THEN "save" ELSE "over"]
  /\ ending' = TRUE
  /\ UNCHANGED <<step, start, learned, part, marker, doomed, asked, attempt>>

-----------------------------------------------------------------------------
(* save_checkpoint: dcp.save, then prune.                                   *)

WritePart(p) ==
  /\ at[p] = "save"
  /\ part' = [part EXCEPT ![step[p]][p] =
                [attempt |-> attempt, step |-> step[p], learned |-> learned[p]]]
  /\ at' = [at EXCEPT ![p] = "saved"]
  /\ UNCHANGED <<step, start, iterator, learned, marker, doomed, asked, attempt, ending>>

Onward == IF ending THEN "over" ELSE "train"

\* Every part is in place before the marker is.
PartsOwn == at[First] = "saved"
PartsWritten == All("saved")

WriteMarker ==
  /\ PartsWritten
  /\ marker' = [marker EXCEPT ![step[First]] = attempt]
  /\ at' = [p \in Process |-> IF p = First THEN "prune" ELSE Onward]
  /\ UNCHANGED <<step, start, iterator, learned, part, doomed, asked, attempt, ending>>

Prune ==
  /\ at[First] = "prune"
  /\ at' = [at EXCEPT ![First] = "remove"]
  /\ doomed' = Old
  /\ UNCHANGED <<step, start, iterator, learned, part, marker, asked, attempt, ending>>

\* rmtree, a file at a time in the order the directory lists them; one that
\* fails leaves what there is.
Remove ==
  /\ at[First] = "remove" /\ doomed # {}
  /\ LET s == CHOOSE s \in doomed : \A t \in doomed : s <= t
     IN \/ /\ marker[s] # 0
           /\ marker' = [marker EXCEPT ![s] = 0]
           /\ UNCHANGED <<part, doomed>>
        \/ \E p \in Process : /\ part[s][p] # None
                              /\ part' = [part EXCEPT ![s][p] = None]
                              /\ UNCHANGED <<marker, doomed>>
        \/ doomed' = doomed \ {s} /\ UNCHANGED <<part, marker>>
  /\ UNCHANGED <<at, step, start, iterator, learned, asked, attempt, ending>>

PruneDone ==
  /\ at[First] = "remove" /\ doomed = {}
  /\ at' = [at EXCEPT ![First] = Onward]
  /\ UNCHANGED <<step, start, iterator, learned, part, marker, doomed, asked, attempt, ending>>

-----------------------------------------------------------------------------

Crash ==
  /\ ~All("over")
  /\ attempt <= MaxCrashes
  /\ attempt' = attempt + 1
  /\ at' = [p \in Process |-> "load"]
  /\ doomed' = {}
  /\ ending' = FALSE
  /\ UNCHANGED <<step, start, iterator, learned, part, marker, asked>>

Work ==
  \/ TrainStep \/ Stop
  \/ WriteMarker \/ Prune \/ Remove \/ PruneDone
  \/ \E p \in Process : Load(p) \/ WritePart(p)

Next == Work \/ Crash

Init ==
  /\ at = [p \in Process |-> "load"]
  /\ step = [p \in Process |-> 0]
  /\ start = step
  /\ iterator = step
  /\ learned = [p \in Process |-> <<>>]
  /\ part = [s \in 1..MaxStep |-> [p \in Process |-> None]]
  /\ marker = [s \in 1..MaxStep |-> 0]
  /\ doomed = {}
  /\ asked \in Asked
  /\ attempt = 1
  /\ ending = FALSE

Spec == Init /\ [][Next]_vars /\ WF_vars(Work)

-----------------------------------------------------------------------------
(* Properties.                                                              *)

\* Each of the checkpoints that are to be kept is whole: every process's part
\* is there, written by the start that wrote the marker, for the same step.
\* Kills while parts are written or old checkpoints are removed included.
KeptAreWhole ==
  \A s \in LatestOf(Complete, asked.keep) : \A p \in Process :
    part[s][p].attempt = marker[s] /\ part[s][p].step = s

\* The model has learned from each batch of its process once and in order, as
\* many as its steps take, however often the job was killed and resumed.
EachBatchOnce ==
  \A p \in Process : at[p] # "load" =>
    /\ learned[p] = [i \in 1..Len(learned[p]) |-> i]
    /\ Len(learned[p]) \in {step[p] * Accumulate, Batches[p]}

\* What a job resumes from is never older than before.
NeverBack == [][Latest' >= Latest]_vars

\* The steps there are batches for.
LastStep ==
  LET steps(p) == (Batches[p] + Accumulate - 1) \div Accumulate
      all == {asked.steps} \cup {steps(p) : p \in Process}
  IN CHOOSE n \in all : \A m \in all : n <= m

\* The job ends, and its last step is the one to resume from.
LastStepKept == <>(All("over") /\ Latest = LastStep)
=============================================================================
