----------------------- MODULE TrainCheckpointProofs -----------------------
(***************************************************************************)
(* Wherever a training job is killed and however often, the checkpoints it  *)
(* keeps are whole, the one it resumes from is never older than before, and *)
(* its model learns from each batch once and in order.                      *)
(***************************************************************************)
EXTENDS TrainCheckpoint, SequenceTheorems, FiniteSetTheorems, WellFoundedInduction, TLAPS

Place == {"load", "train", "save", "saved", "prune", "remove", "over"}
File == [attempt : Nat, step : Nat, learned : Seq(Nat)]

\* The batches process p learns from in its first s steps.
TakenBy(p, s) == [i \in 1..Skip(p, s) |-> i]

\* The complete checkpoints that are to be kept.
Kept == LatestOf(Complete, asked.keep)

-----------------------------------------------------------------------------
(* The inductive invariant.                                                 *)

Types ==
  /\ at \in [Process -> Place]
  /\ asked \in Asked
  /\ step \in [Process -> 0..asked.steps] /\ start \in [Process -> Nat]
  /\ iterator \in [Process -> Nat] /\ learned \in [Process -> Seq(Nat)]
  /\ part \in [1..MaxStep -> [Process -> File]]
  /\ marker \in [1..MaxStep -> Nat] /\ \A s \in Complete : s <= asked.steps
  /\ doomed \subseteq 1..MaxStep
  /\ attempt \in Nat \ {0}
  /\ ending \in BOOLEAN

\* What is kept is whole and holds the first batches of its steps, and `prune`
\* removes none of it.
KeptAreTrue ==
  /\ \A s \in Kept, p \in Process :
       part[s][p] = [attempt |-> marker[s], step |-> s, learned |-> TakenBy(p, s)]
  /\ doomed \cap Kept = {}
  /\ at[First] # "remove" => doomed = {}

\* A process that has loaded has learned from the batches of its steps, and all
\* that have loaded are at the same step.
Learned ==
  \A p \in Process : at[p] # "load" =>
    /\ learned[p] = TakenBy(p, step[p])
    /\ ~ending => iterator[p] = Skip(p, step[p])
    /\ \A q \in Process : at[q] # "load" => step[q] = step[p]

\* None trains on before all have loaded, or while the first removes.
Phases ==
  /\ \A p, q \in Process : at[p] = "load" => at[q] \in {"load", "train"}
  /\ \A p \in Process \ {First} : at[p] \notin {"prune", "remove"}
  /\ at[First] \in {"prune", "remove"} => \A q \in Process \ {First} : at[q] = Onward
  /\ ending => \A p \in Process : at[p] \notin {"load", "train"}

\* A process goes on from the latest checkpoint, and what it writes is later than
\* every complete one: those written since it started are of steps that are due.
Ahead ==
  \A p \in Process :
    /\ at[p] # "load" =>
         /\ \A s \in Complete : s <= step[p] /\ (s <= start[p] \/ Due(s) \/ ending)
         /\ (\E q \in Process : at[q] = "load") => step[p] = Latest
    /\ at[p] \in {"save", "saved"} =>
         /\ step[p] > 0
         /\ ~ending => Due(step[p])
         /\ \A s \in Complete : s < step[p]
    /\ at[p] = "saved" =>
         part[step[p]][p] = [attempt |-> attempt, step |-> step[p], learned |-> learned[p]]

IInv == Types /\ KeptAreTrue /\ Learned /\ Phases /\ Ahead

-----------------------------------------------------------------------------
(* The latest of a set of steps.                                            *)

\* A set of steps that is not empty has a latest.
LEMMA HasLatest ==
  ASSUME NEW m \in Nat, NEW S \in SUBSET (0..m), S # {}
  PROVE  \E n \in S : \A t \in S : t <= n
<1> DEFINE before == OpToRel(<, Nat)  down == {m - s : s \in S}
<1>1. IsWellFoundedOn(before, Nat)
  BY NatLessThanWellFounded
<1>2. down \subseteq Nat /\ down # {}
  <2>1. \A s \in S : s \in 0..m
    OBVIOUS
  <2>2. \A s \in S : m - s \in Nat
    BY <2>1, SMT
  <2> QED
    BY <2>2
<1>3. \A e, d \in Nat : e < d => <<e, d>> \in before
  BY DEF OpToRel
<1> HIDE DEF before, down
<1>4. PICK d \in down : \A e \in down : ~(<<e, d>> \in before)
  BY <1>1, <1>2, WFMin
<1>5. \A e \in down : d <= e
  <2> SUFFICES ASSUME NEW e \in down  PROVE d <= e
    OBVIOUS
  <2>1. d \in Nat /\ e \in Nat
    BY <1>2
  <2>2. ~(e < d)
    BY <1>4, <1>3, <2>1, Zenon
  <2> QED
    BY <2>1, <2>2, SMT
<1>6. PICK n \in S : d = m - n
  BY <1>4 DEF down
<1>7. \A t \in S : m - t \in down
  BY DEF down
<1> QED
  BY <1>5, <1>6, <1>7, SMT

\* And a first.
LEMMA HasFirst ==
  ASSUME NEW m \in Nat, NEW S \in SUBSET (0..m), S # {}
  PROVE  \E n \in S : \A t \in S : n <= t
<1> DEFINE up == {m - s : s \in S}
<1>1. up \in SUBSET (0..m) /\ up # {}
  <2>1. \A s \in S : s \in 0..m
    OBVIOUS
  <2>2. \A s \in S : m - s \in 0..m
    BY <2>1, SMT
  <2> QED
    BY <2>2
<1> HIDE DEF up
<1>2. PICK d \in up : \A e \in up : e <= d
  BY <1>1, HasLatest
<1>3. PICK n \in S : d = m - n
  BY <1>2 DEF up
<1>4. \A t \in S : m - t \in up
  BY DEF up
<1> QED
  BY <1>2, <1>3, <1>4, SMT

\* The steps no older than s.
LEMMA Since ==
  ASSUME NEW S \in SUBSET Nat, IsFiniteSet(S), NEW s
  PROVE  /\ IsFiniteSet({t \in S : t >= s})
         /\ Cardinality({t \in S : t >= s}) \in Nat
<1>1. {t \in S : t >= s} \in SUBSET S
  OBVIOUS
<1>2. IsFiniteSet({t \in S : t >= s})
  BY <1>1, FS_Subset
<1> QED
  BY <1>2, FS_CardinalityType

\* The latest is among the n latest.
LEMMA LatestKept ==
  ASSUME NEW S \in SUBSET Nat, NEW m \in S, \A t \in S : t <= m, NEW n \in Nat \ {0}
  PROVE  m \in LatestOf(S, n)
<1>1. {t \in S : t >= m} = {m}
  <2>1. \A t \in S : t \in Nat /\ m \in Nat
    OBVIOUS
  <2>2. \A t \in S : t >= m <=> t = m
    BY <2>1, SMT
  <2> QED
    BY <2>2
<1>2. Cardinality({t \in S : t >= m}) = 1
  BY <1>1, FS_Singleton
<1> QED
  BY <1>2, SMT DEF LatestOf

\* There is no later one than the one latest.
LEMMA OneLatest ==
  ASSUME NEW S \in SUBSET Nat, IsFiniteSet(S), NEW s \in LatestOf(S, 1), NEW t \in S
  PROVE  t <= s
<1> DEFINE since == {u \in S : u >= s}
<1>1. s \in S /\ Cardinality(since) <= 1
  BY DEF LatestOf
<1>2. SUFFICES ASSUME t > s  PROVE FALSE
  BY <1>1, SMT
<1>3. {s, t} \in SUBSET since
  BY <1>1, <1>2, SMT
<1>4. IsFiniteSet(since) /\ Cardinality(since) \in Nat
  BY Since
<1>5. Cardinality({s} \cup {t}) = 2
  <2>1. IsFiniteSet({s}) /\ Cardinality({s}) = 1
    BY FS_Singleton
  <2>2. t \notin {s}
    BY <1>1, <1>2, SMT
  <2>3. Cardinality({s} \cup {t}) = Cardinality({s}) + 1
    BY <2>1, <2>2, FS_AddElement
  <2> QED
    BY <2>1, <2>3, SMT
<1>6. {s} \cup {t} = {s, t}
  OBVIOUS
<1>7. Cardinality({s, t}) <= Cardinality(since)
  BY <1>3, <1>4, FS_Subset
<1> QED
  BY <1>1, <1>4, <1>5, <1>6, <1>7, SMT

\* Without one that is not among the n latest, the n latest are the same.
LEMMA KeptWithout ==
  ASSUME NEW S \in SUBSET Nat, IsFiniteSet(S), NEW n \in Nat, NEW x \in S, x \notin LatestOf(S, n)
  PROVE  LatestOf(S \ {x}, n) \subseteq LatestOf(S, n)
<1> SUFFICES ASSUME NEW t \in LatestOf(S \ {x}, n)  PROVE t \in LatestOf(S, n)
  OBVIOUS
<1> DEFINE Back(y) == {u \in S : u >= y}
<1>1. t \in S /\ t # x /\ Cardinality({u \in S \ {x} : u >= t}) <= n
  BY DEF LatestOf
<1>2. {u \in S \ {x} : u >= t} = Back(t) \ {x}
  OBVIOUS
<1>3. /\ IsFiniteSet(Back(t)) /\ Cardinality(Back(t)) \in Nat
      /\ IsFiniteSet(Back(x)) /\ Cardinality(Back(x)) \in Nat
  BY Since
<1>4. Cardinality(Back(x)) > n
  <2>1. ~(Cardinality(Back(x)) <= n)
    BY DEF LatestOf
  <2> QED
    BY <2>1, <1>3, SMT
<1>5. CASE t > x
  <2>1. Back(t) \ {x} = Back(t)
    BY <1>5, <1>1, SMT
  <2> QED
    BY <2>1, <1>1, <1>2 DEF LatestOf
<1>6. CASE t < x
  <2>1. x \in Back(x) /\ t \notin Back(x) \ {x}
    BY <1>6, <1>1, SMT
  <2>2. IsFiniteSet(Back(x) \ {x}) /\ Cardinality(Back(x) \ {x}) = Cardinality(Back(x)) - 1
    <3>1. x \in Back(x) /\ IsFiniteSet(Back(x))
      BY <2>1, <1>3
    <3> HIDE DEF Back
    <3> QED
      BY <3>1, FS_RemoveElement
  <2>3. Cardinality((Back(x) \ {x}) \cup {t}) = Cardinality(Back(x) \ {x}) + 1
    BY <2>1, <2>2, FS_AddElement
  <2>4. (Back(x) \ {x}) \cup {t} \in SUBSET (Back(t) \ {x})
    <3>1. t \in Nat /\ x \in Nat /\ \A u \in S : u \in Nat
      BY <1>1
    <3>2. t >= t /\ \A u \in S : u >= x => u >= t
      BY <3>1, <1>6, SMT
    <3> QED
      BY <3>2, <1>1
  <2>5. IsFiniteSet(Back(t) \ {x})
    BY <1>3, FS_RemoveElement
  <2>6. Cardinality((Back(x) \ {x}) \cup {t}) <= Cardinality(Back(t) \ {x})
    BY <2>4, <2>5, FS_Subset
  <2>7. Cardinality(Back(t) \ {x}) \in Nat
    BY <2>5, FS_CardinalityType
  <2>8. Cardinality(Back(t) \ {x}) <= n
    BY <1>1, <1>2
  <2> HIDE DEF Back
  <2> QED
    BY <1>3, <1>4, <2>2, <2>3, <2>6, <2>7, <2>8, SMT
<1> QED
  BY <1>1, <1>5, <1>6, SMT

\* With a later one, the n latest are that one and some of those before.
LEMMA KeptWith ==
  ASSUME NEW S \in SUBSET Nat, IsFiniteSet(S), NEW n \in Nat, NEW x \in Nat, \A t \in S : t < x
  PROVE  LatestOf(S \cup {x}, n) \subseteq LatestOf(S, n) \cup {x}
<1> SUFFICES ASSUME NEW t \in LatestOf(S \cup {x}, n), t # x  PROVE t \in LatestOf(S, n)
  OBVIOUS
<1> DEFINE Back(y) == {u \in S : u >= y}
<1>1. t \in S /\ Cardinality({u \in S \cup {x} : u >= t}) <= n
  BY DEF LatestOf
<1>2. {u \in S \cup {x} : u >= t} = Back(t) \cup {x} /\ x \notin Back(t)
  BY <1>1, SMT
<1>3. IsFiniteSet(Back(t)) /\ Cardinality(Back(t)) \in Nat
  BY Since
<1>4. Cardinality(Back(t) \cup {x}) = Cardinality(Back(t)) + 1
  BY <1>2, <1>3, FS_AddElement
<1>5. Cardinality(Back(t) \cup {x}) <= n
  BY <1>1, <1>2
<1>6. Cardinality(Back(t)) <= n
  BY <1>3, <1>4, <1>5, SMT
<1> QED
  BY <1>1, <1>6 DEF LatestOf

LatestIs ==
  /\ Complete \in SUBSET Nat /\ IsFiniteSet(Complete)
  /\ Complete = {} => Latest = 0
  /\ Complete # {} => Latest \in Complete /\ \A t \in Complete : t <= Latest

\* What is complete is a finite set of steps; the one to resume from is the latest.
LEMMA CompleteLatest == LatestIs
<1>0. MaxStep \in Nat
  BY TrainCheckpointAssumption
<1>1. Complete \in SUBSET Nat /\ Complete \in SUBSET (0..MaxStep) /\ Complete \in SUBSET (1..MaxStep)
  BY DEF Complete
<1>2. IsFiniteSet(Complete)
  <2>1. MaxStep \in Int /\ 1 \in Int
    BY <1>0
  <2>2. IsFiniteSet(1..MaxStep)
    BY <2>1, FS_Interval
  <2> QED
    BY <1>1, <2>2, FS_Subset
<1>3. Complete = {} => Latest = 0
  BY DEF Latest
<1>4. ASSUME Complete # {}
      PROVE  Latest \in Complete /\ \A t \in Complete : t <= Latest
  <2>1. PICK m \in Complete : \A t \in Complete : t <= m
    BY <1>0, <1>1, <1>4, HasLatest
  <2>2. m \in LatestOf(Complete, 1)
    BY <1>1, <2>1, LatestKept
  <2>3. Latest \in LatestOf(Complete, 1)
    BY <1>4, <2>2 DEF Latest
  <2>4. \A t \in Complete : t <= Latest
    BY <1>1, <1>2, <2>3, OneLatest
  <2> QED
    BY <2>3, <2>4 DEF LatestOf
<1> QED
  BY <1>1, <1>2, <1>3, <1>4 DEF LatestIs

\* The latest is kept.
LEMMA ResumeKept ==
  ASSUME MaxStep \in Nat, NEW n \in Nat \ {0}, Complete # {}
  PROVE  Latest \in LatestOf(Complete, n)
<1>1. Complete \in SUBSET Nat /\ Latest \in Complete /\ \A t \in Complete : t <= Latest
  BY CompleteLatest DEF LatestIs
<1> QED
  BY <1>1, LatestKept

-----------------------------------------------------------------------------
(* The batches.                                                             *)

\* A process is never past its batches, and the next step takes it on.
LEMMA SkipOn ==
  ASSUME NEW p \in Process, NEW s \in Nat
  PROVE  /\ Skip(p, s) \in Nat /\ Skip(p, s) <= Batches[p]
         /\ Skip(p, s) \in {s * Accumulate, Batches[p]}
         /\ Skip(p, 0) = 0
         /\ iterator[p] = Skip(p, s) /\ Group(p) > 0 =>
              Group(p) \in Nat /\ Skip(p, s) + Group(p) = Skip(p, s + 1)
<1>1. Batches[p] \in Nat /\ Accumulate \in Nat /\ Accumulate > 0
  BY TrainCheckpointAssumption
<1>2. s * Accumulate \in Nat /\ (s + 1) * Accumulate = s * Accumulate + Accumulate /\ 0 * Accumulate = 0
  BY <1>1, SMT
<1> DEFINE done == s * Accumulate  more == (s + 1) * Accumulate
<1>3. done \in Nat /\ more = done + Accumulate
  BY <1>2
<1>4. /\ Skip(p, s) = IF done < Batches[p] THEN done ELSE Batches[p]
      /\ Skip(p, s + 1) = IF more < Batches[p] THEN more ELSE Batches[p]
      /\ Skip(p, 0) = IF 0 < Batches[p] THEN 0 ELSE Batches[p]
  BY <1>2 DEF Skip
<1>5. Group(p) = IF Batches[p] - iterator[p] < Accumulate THEN Batches[p] - iterator[p] ELSE Accumulate
  BY DEF Group
<1>6. Skip(p, s) \in {s * Accumulate, Batches[p]}
  BY <1>4
<1> HIDE DEF done, more
<1> QED
  BY <1>1, <1>3, <1>4, <1>5, <1>6, SMT

\* After the first n batches the next g.
LEMMA TakeOn ==
  ASSUME NEW n \in Nat, NEW g \in Nat
  PROVE  [i \in 1..n |-> i] \o [i \in 1..g |-> n + i] = [i \in 1..n + g |-> i]
<1> DEFINE a == [i \in 1..n |-> i]  b == [i \in 1..g |-> n + i]  c == [i \in 1..n + g |-> i]
<1>1. a \in Seq(Nat) /\ Len(a) = n /\ b \in Seq(Nat) /\ Len(b) = g /\ c \in Seq(Nat) /\ Len(c) = n + g
  BY SMT
<1>2. \A i \in 1..n + g : (a \o b)[i] = c[i]
  BY <1>1, SMT
<1>3. a \o b \in Seq(Nat) /\ Len(a \o b) = n + g
  BY <1>1, SMT
<1> HIDE DEF a, b, c
<1>4. a \o b = c
  BY <1>1, <1>2, <1>3, SeqEqual
<1> QED
  BY <1>4 DEF a, b, c

\* What a process has learned from.
LEMMA TakenType ==
  ASSUME NEW p \in Process, NEW s \in Nat
  PROVE  TakenBy(p, s) \in Seq(Nat) /\ Len(TakenBy(p, s)) = Skip(p, s) /\ TakenBy(p, 0) = <<>>
<1>1. Skip(p, s) \in Nat /\ Skip(p, 0) = 0
  BY SkipOn
<1> QED
  BY <1>1, SMT DEF TakenBy

-----------------------------------------------------------------------------
(* The invariant, action by action.                                         *)

\* The constants, and what a job may ask for.
LEMMA Constants ==
  ASSUME Types
  PROVE  /\ First \in Process /\ Accumulate \in Nat \ {0} /\ MaxStep \in Nat
         /\ asked.steps \in 1..MaxStep /\ asked.keep \in Nat \ {0}
         /\ Complete \subseteq 1..MaxStep /\ Kept \subseteq Complete
         /\ \A p \in Process : Onward # "load" /\ Onward \in Place
BY TrainCheckpointAssumption DEF Types, Complete, Kept, LatestOf, Onward, Place

\* Where no checkpoint is written or removed, what is kept stays true.
LEMMA SameKept ==
  ASSUME KeptAreTrue, UNCHANGED <<part, marker, asked>>
  PROVE  /\ Complete' = Complete /\ Kept' = Kept /\ Latest' = Latest
         /\ \A s : Due(s)' = Due(s)
         /\ \A s \in Kept', p \in Process :
              part'[s][p] = [attempt |-> marker'[s], step |-> s, learned |-> TakenBy(p, s)]
BY DEF KeptAreTrue, Complete, Kept, Latest, Due

\* At the start nothing is complete.
LEMMA StartsSound ==
  ASSUME Init
  PROVE  IInv
<1> USE DEF Init
<1>1. Complete = {} /\ Kept = {}
  BY DEF Complete, Kept, LatestOf
<1>2. Types
  <2>1. at \in [Process -> Place]
    BY DEF Place
  <2>6. asked \in Asked /\ doomed \subseteq 1..MaxStep /\ ending \in BOOLEAN
    BY Zenon
  <2>9. attempt \in Nat \ {0}
    OBVIOUS
  <2>7. start \in [Process -> Nat] /\ iterator \in [Process -> Nat]
    OBVIOUS
  <2>8. marker \in [1..MaxStep -> Nat]
    OBVIOUS
  <2>2. step \in [Process -> 0..asked.steps]
    BY TrainCheckpointAssumption, <2>6
  <2>3. None \in File
    BY DEF None, File
  <2>4. part \in [1..MaxStep -> [Process -> File]]
    BY <2>3
  <2>5. learned \in [Process -> Seq(Nat)]
    OBVIOUS
  <2> QED
    BY <1>1, <2>1, <2>2, <2>4, <2>5, <2>6, <2>7, <2>8, <2>9 DEF Types
<1>3. KeptAreTrue /\ Learned /\ Phases /\ Ahead
  <2>1. First \in Process /\ \A p \in Process : at[p] = "load"
    BY TrainCheckpointAssumption
  <2> QED
    BY <1>1, <2>1 DEF KeptAreTrue, Learned, Phases, Ahead
<1> QED
  BY <1>2, <1>3 DEF IInv

\* Load: a process goes on from the latest complete checkpoint, as those before it.
LEMMA LoadKeeps ==
  ASSUME IInv, NEW p \in Process, Load(p)
  PROVE  IInv'
<1> USE DEF Load, IInv
<1>1. UNCHANGED <<part, marker, doomed, asked, attempt, ending>> /\ at[p] = "load"
      /\ at' = [at EXCEPT ![p] = "train"]
  OBVIOUS
<1>2. /\ Complete' = Complete /\ Kept' = Kept /\ Latest' = Latest
      /\ \A s : Due(s)' = Due(s)
      /\ \A s \in Kept', q \in Process :
           part'[s][q] = [attempt |-> marker'[s], step |-> s, learned |-> TakenBy(q, s)]
  BY <1>1, SameKept
<1> DEFINE found == IF Latest = 0 THEN None ELSE part[Latest][p]
<1>3. /\ First \in Process /\ MaxStep \in Nat
      /\ asked.steps \in 1..MaxStep /\ asked.keep \in Nat \ {0}
      /\ Complete \subseteq 1..MaxStep
  BY Constants
<1>4. /\ Latest \in 0..asked.steps /\ \A s \in Complete : s <= Latest
      /\ found \in File /\ found.step = Latest /\ found.learned = TakenBy(p, Latest)
  <2>1. CASE Complete = {}
    <3>1. Latest = 0 /\ found = None
      BY <2>1, <1>3, CompleteLatest DEF LatestIs
    <3>2. TakenBy(p, 0) = <<>>
      BY TakenType
    <3> QED
      BY <2>1, <3>1, <3>2, <1>3 DEF None, File
  <2>2. CASE Complete # {}
    <3>1. Latest \in Complete /\ \A s \in Complete : s <= Latest
      BY <2>2, <1>3, CompleteLatest DEF LatestIs
    <3>2. Latest \in Kept
      BY <2>2, <1>3, ResumeKept DEF Kept
    <3>3. Latest \in 1..MaxStep /\ Latest <= asked.steps
      BY <3>1, <1>3 DEF Types
    <3>4. found = part[Latest][p]
      BY <3>3
    <3>5. found \in File
      <4>1. part \in [1..MaxStep -> [Process -> File]]
        BY DEF Types
      <4>2. part[Latest][p] \in File
        BY <4>1, <3>3, Zenon
      <4> QED
        BY <3>4, <4>2, Zenon
    <3>6. found = [attempt |-> marker[Latest], step |-> Latest, learned |-> TakenBy(p, Latest)]
      BY <3>2, <3>4 DEF KeptAreTrue
    <3> QED
      BY <3>1, <3>3, <3>5, <3>6, <1>3
  <2> QED
    BY <2>1, <2>2
<1>5. /\ learned' = [learned EXCEPT ![p] = TakenBy(p, Latest)]
      /\ step' = [step EXCEPT ![p] = Latest]
      /\ start' = [start EXCEPT ![p] = Latest]
      /\ iterator' = [iterator EXCEPT ![p] = Skip(p, Latest)]
  BY <1>4
<1>6. Latest \in Nat /\ Skip(p, Latest) \in Nat /\ TakenBy(p, Latest) \in Seq(Nat)
  BY <1>4, <1>3, SkipOn, TakenType
<1> HIDE DEF found, Load
<1>7. \A q \in Process : q # p => at'[q] = at[q] /\ step'[q] = step[q] /\ start'[q] = start[q]
                           /\ learned'[q] = learned[q] /\ iterator'[q] = iterator[q]
  BY <1>1, <1>5 DEF Types
<1>8. /\ at'[p] = "train" /\ step'[p] = Latest /\ start'[p] = Latest
      /\ learned'[p] = TakenBy(p, Latest) /\ iterator'[p] = Skip(p, Latest)
  BY <1>1, <1>5 DEF Types
<1>9. \A q \in Process : at[q] \in {"load", "train"} /\ (at[q] # "load" => step[q] = Latest)
  BY <1>1 DEF Phases, Ahead
<1>10. ~ending
  BY <1>1 DEF Phases
<1>11. Types'
  BY <1>1, <1>2, <1>4, <1>5, <1>6 DEF Types, Place
<1>12. KeptAreTrue'
  BY <1>1, <1>2, <1>7, <1>8, <1>9, <1>3 DEF KeptAreTrue
<1>13. Learned'
  <2> SUFFICES ASSUME NEW q \in Process, at'[q] # "load"
               PROVE  /\ learned'[q] = TakenBy(q, step'[q])
                      /\ iterator'[q] = Skip(q, step'[q])
                      /\ \A r \in Process : at'[r] # "load" => step'[r] = step'[q]
    BY DEF Learned, TakenBy, Skip
  <2>1. \A r \in Process : at'[r] # "load" => step'[r] = Latest
    BY <1>7, <1>8, <1>9
  <2>2. learned'[q] = TakenBy(q, step'[q]) /\ iterator'[q] = Skip(q, step'[q])
    BY <1>7, <1>8, <1>10 DEF Learned
  <2> QED
    BY <2>1, <2>2
<1>14. Phases'
  BY <1>1, <1>3, <1>7, <1>8, <1>9, <1>10 DEF Phases, Onward
<1>15. Ahead'
  <2> SUFFICES ASSUME NEW q \in Process
               PROVE  /\ at'[q] \in {"load", "train"}
                      /\ at'[q] # "load" =>
                           /\ \A s \in Complete' : s <= step'[q] /\ (s <= start'[q] \/ Due(s)')
                           /\ step'[q] = Latest'
    BY DEF Ahead, Due
  <2>1. CASE q = p
    BY <2>1, <1>2, <1>4, <1>8
  <2>2. CASE q # p
    BY <2>2, <1>2, <1>7, <1>9, <1>10 DEF Ahead
  <2> QED
    BY <2>1, <2>2
<1> QED
  BY <1>11, <1>12, <1>13, <1>14, <1>15

\* TrainStep: all take the next batches of their own, and are where a checkpoint
\* is due, or train on.
LEMMA TrainStepKeeps ==
  ASSUME IInv, TrainStep
  PROVE  IInv'
<1> USE DEF IInv
<1>1. /\ UNCHANGED <<start, part, marker, doomed, asked, attempt, ending>>
      /\ \A p \in Process : at[p] = "train" /\ step[p] # asked.steps /\ Group(p) > 0
      /\ iterator' = [p \in Process |-> iterator[p] + Group(p)]
      /\ learned' = [p \in Process |-> learned[p] \o [i \in 1..Group(p) |-> iterator[p] + i]]
      /\ step' = [p \in Process |-> step[p] + 1]
      /\ at' = [p \in Process |-> IF Due(step[p] + 1) THEN "save" ELSE "train"]
  BY DEF TrainStep, All, Taken, Ready
<1>2. /\ Complete' = Complete /\ Kept' = Kept /\ Latest' = Latest
      /\ \A s : Due(s)' = Due(s)
      /\ \A s \in Kept', q \in Process :
           part'[s][q] = [attempt |-> marker'[s], step |-> s, learned |-> TakenBy(q, s)]
  BY <1>1, SameKept
<1>3. /\ First \in Process /\ MaxStep \in Nat /\ asked.steps \in 1..MaxStep
      /\ Complete \subseteq 1..MaxStep
  BY Constants
<1>4. ~ending
  BY <1>1, <1>3 DEF Phases
<1>5. ASSUME NEW p \in Process
      PROVE  /\ step[p] \in 0..asked.steps /\ step[p] + 1 \in 0..asked.steps
             /\ iterator[p] = Skip(p, step[p]) /\ Skip(p, step[p]) \in Nat /\ Group(p) \in Nat
             /\ Skip(p, step[p]) + Group(p) = Skip(p, step[p] + 1)
             /\ learned[p] = TakenBy(p, step[p])
             /\ \A q \in Process : step[q] = step[p]
  <2>1. step[p] \in 0..asked.steps
    BY DEF Types
  <2>2. step[p] # asked.steps /\ Group(p) > 0
    BY <1>1
  <2>3. step[p] \in Nat /\ step[p] + 1 \in 0..asked.steps
    BY <2>1, <2>2, <1>3
  <2>4. iterator[p] = Skip(p, step[p]) /\ learned[p] = TakenBy(p, step[p])
        /\ \A q \in Process : step[q] = step[p]
    BY <1>1, <1>4 DEF Learned
  <2>5. Skip(p, step[p]) \in Nat /\ Group(p) \in Nat
        /\ Skip(p, step[p]) + Group(p) = Skip(p, step[p] + 1)
    BY <2>2, <2>3, <2>4, SkipOn
  <2> QED
    BY <2>1, <2>3, <2>4, <2>5
<1>6. ASSUME NEW p \in Process
      PROVE  learned'[p] = TakenBy(p, step[p] + 1)
  <2> DEFINE n == Skip(p, step[p])  g == Group(p)
  <2>1. n \in Nat /\ g \in Nat /\ n + g = Skip(p, step[p] + 1)
    BY <1>5
  <2>2. learned'[p] = TakenBy(p, step[p]) \o [i \in 1..g |-> n + i]
    BY <1>1, <1>5
  <2>3. [i \in 1..n |-> i] \o [i \in 1..g |-> n + i] = [i \in 1..n + g |-> i]
    BY <2>1, TakeOn
  <2> QED
    BY <2>1, <2>2, <2>3 DEF TakenBy
<1>7. \A p \in Process : /\ step'[p] = step[p] + 1 /\ start'[p] = start[p]
                         /\ iterator'[p] = Skip(p, step[p] + 1)
                         /\ at'[p] = IF Due(step[p] + 1) THEN "save" ELSE "train"
  BY <1>1, <1>5
<1>8. Types'
  <2>1. at' \in [Process -> Place]
    BY <1>1 DEF Place
  <2>2. step' \in [Process -> 0..asked.steps]
    BY <1>1, <1>5
  <2>3. ASSUME NEW p \in Process
        PROVE  iterator[p] + Group(p) \in Nat /\ learned'[p] \in Seq(Nat)
    <3>1. step[p] + 1 \in Nat
      BY <1>5
    <3>2. TakenBy(p, step[p] + 1) \in Seq(Nat)
      BY <3>1, TakenType
    <3>3. iterator[p] + Group(p) \in Nat
      BY <1>5
    <3> QED
      BY <1>6, <3>2, <3>3, Zenon
  <2>4. iterator' \in [Process -> Nat]
    BY <1>1, <2>3
  <2>5. learned' \in [Process -> Seq(Nat)]
    <3> DEFINE all == [p \in Process |-> learned[p] \o [i \in 1..Group(p) |-> iterator[p] + i]]
    <3>1. \A p \in Process : all[p] \in Seq(Nat)
      BY <1>1, <2>3
    <3>2. all \in [Process -> Seq(Nat)]
      BY <3>1
    <3> QED
      BY <3>2, <1>1
  <2> QED
    BY <1>1, <1>2, <2>1, <2>2, <2>4, <2>5 DEF Types
<1>9. KeptAreTrue'
  BY <1>1, <1>2, <1>3, <1>7 DEF KeptAreTrue
<1>10. Learned'
  <2> SUFFICES ASSUME NEW p \in Process
               PROVE  /\ learned'[p] = TakenBy(p, step'[p])
                      /\ iterator'[p] = Skip(p, step'[p])
                      /\ \A q \in Process : step'[q] = step'[p]
    BY DEF Learned, TakenBy, Skip
  <2> QED
    BY <1>5, <1>6, <1>7
<1>11. Phases'
  BY <1>1, <1>3, <1>4, <1>7 DEF Phases, Onward
<1>12. Ahead'
  <2> SUFFICES ASSUME NEW p \in Process
               PROVE  /\ \A s \in Complete' : s < step'[p] /\ (s <= start'[p] \/ Due(s)' \/ ending')
                      /\ at'[p] \in {"train", "save"} /\ step'[p] > 0
                      /\ at'[p] = "save" => Due(step'[p])
    <3>1. \A q \in Process : at'[q] # "load"
      BY <1>7
    <3>2. \A s \in Complete' : s \in 1..MaxStep
      BY <1>2, <1>3
    <3>3. \A q \in Process : step'[q] \in Nat
      BY <1>5, <1>7
    <3> QED
      BY <3>1, <3>2, <3>3, <1>1 DEF Ahead, Due
  <2>1. \A s \in Complete : s <= step[p] /\ (s <= start[p] \/ Due(s) \/ ending)
    BY <1>1 DEF Ahead
  <2>2. \A s \in Complete : s < step[p] + 1
    BY <2>1, <1>3, <1>5
  <2>3. at'[p] = "save" => Due(step'[p])
    BY <1>7
  <2> QED
    BY <1>1, <1>2, <1>5, <1>7, <2>1, <2>2, <2>3
<1> QED
  BY <1>8, <1>9, <1>10, <1>11, <1>12

\* Stop: a checkpoint at the end is only written where the loop has not written one
\* of the same step.
LEMMA StopKeeps ==
  ASSUME IInv, Stop
  PROVE  IInv'
<1> USE DEF IInv
<1>1. /\ UNCHANGED <<step, start, learned, part, marker, doomed, asked, attempt>>
      /\ \A p \in Process : at[p] = "train"
      /\ iterator' = IF Taken THEN iterator ELSE [p \in Process |-> iterator[p] + Group(p)]
      /\ at' = [p \in Process |-> IF step[p] > start[p] /\ Unsaved(step[p]) THEN "save" ELSE "over"]
      /\ ending'
  BY DEF Stop, All
<1>2. /\ Complete' = Complete /\ Kept' = Kept /\ Latest' = Latest
      /\ \A s : Due(s)' = Due(s)
      /\ \A s \in Kept', q \in Process :
           part'[s][q] = [attempt |-> marker'[s], step |-> s, learned |-> TakenBy(q, s)]
  BY <1>1, SameKept
<1>3. /\ First \in Process /\ MaxStep \in Nat /\ asked.steps \in 1..MaxStep
      /\ Complete \subseteq 1..MaxStep
  BY Constants
<1>4. ~ending
  BY <1>1, <1>3 DEF Phases
<1>5. \A p \in Process : step[p] \in Nat /\ start[p] \in Nat
  BY <1>3 DEF Types
<1>6. Types'
  <2>1. at' \in [Process -> Place]
    BY <1>1 DEF Place
  <2>2. ASSUME NEW p \in Process
        PROVE  iterator[p] + Group(p) \in Nat
    <3>1. iterator[p] = Skip(p, step[p])
      BY <1>1, <1>4 DEF Learned
    <3>2. iterator[p] \in Nat /\ iterator[p] <= Batches[p] /\ Batches[p] \in Nat
      BY <3>1, <1>5, SkipOn, TrainCheckpointAssumption
    <3>3. Accumulate \in Nat
      BY TrainCheckpointAssumption
    <3> QED
      BY <3>2, <3>3, SMT DEF Group
  <2>3. iterator' \in [Process -> Nat]
    BY <1>1, <2>2 DEF Types
  <2>4. ending' \in BOOLEAN
    BY DEF Stop
  <2> QED
    BY <1>1, <1>2, <2>1, <2>3, <2>4 DEF Types
<1>7. KeptAreTrue'
  BY <1>1, <1>2, <1>3 DEF KeptAreTrue
<1>8. Learned'
  BY <1>1, <1>4 DEF Learned, TakenBy, Skip
<1>9. \A p \in Process : at'[p] \in {"save", "over"}
                         /\ (at'[p] = "save" => step[p] > start[p] /\ ~Due(step[p]))
  BY <1>1 DEF Unsaved
<1>10. Phases'
  BY <1>1, <1>3, <1>9 DEF Phases
<1>11. Ahead'
  <2> SUFFICES ASSUME NEW p \in Process
               PROVE  /\ \A s \in Complete : s <= step[p]
                      /\ at'[p] = "save" => step[p] > 0 /\ \A s \in Complete : s < step[p]
    BY <1>1, <1>2, <1>9 DEF Ahead
  <2>1. \A s \in Complete : s <= step[p] /\ (s <= start[p] \/ Due(s))
    BY <1>1, <1>4 DEF Ahead
  <2>2. ASSUME at'[p] = "save", NEW s \in Complete
        PROVE  s < step[p]
    <3>1. s # step[p]
      BY <2>1, <2>2, <1>5, <1>9
    <3> QED
      BY <2>1, <3>1, <1>3, <1>5
  <2>3. at'[p] = "save" => step[p] > 0
    BY <1>5, <1>9
  <2> QED
    BY <2>1, <2>2, <2>3
<1> QED
  BY <1>6, <1>7, <1>8, <1>10, <1>11

\* save_checkpoint: a part is written where nothing kept is.
LEMMA WritePartKeeps ==
  ASSUME IInv, NEW p \in Process, WritePart(p)
  PROVE  IInv'
<1> USE DEF IInv
<1> DEFINE file == [attempt |-> attempt, step |-> step[p], learned |-> learned[p]]
<1>1. /\ UNCHANGED <<step, start, iterator, learned, marker, doomed, asked, attempt, ending>>
      /\ at[p] = "save" /\ at' = [at EXCEPT ![p] = "saved"]
      /\ part' = [part EXCEPT ![step[p]][p] = file]
  BY DEF WritePart
<1>2. /\ First \in Process /\ MaxStep \in Nat /\ asked.steps \in 1..MaxStep
      /\ Complete \subseteq 1..MaxStep /\ Kept \subseteq Complete
  BY Constants
<1>3. /\ Complete' = Complete /\ Kept' = Kept /\ Latest' = Latest
      /\ \A s : Due(s)' = Due(s)
  BY <1>1 DEF Complete, Kept, Latest, Due
<1>4. step[p] \in 1..MaxStep /\ step[p] \in Nat /\ \A s \in Complete : s < step[p]
  <2>1. step[p] > 0 /\ \A s \in Complete : s < step[p]
    BY <1>1 DEF Ahead
  <2>2. step[p] \in 0..asked.steps
    BY DEF Types
  <2> QED
    BY <2>1, <2>2, <1>2
<1>5. file \in File
  <2>1. attempt \in Nat /\ learned[p] \in Seq(Nat)
    BY DEF Types
  <2> QED
    BY <2>1, <1>4 DEF File
<1> HIDE DEF file
<1>6. /\ part' \in [1..MaxStep -> [Process -> File]]
      /\ part'[step[p]][p] = file
      /\ \A s \in 1..MaxStep, q \in Process : s # step[p] \/ q # p => part'[s][q] = part[s][q]
  <2>1. part \in [1..MaxStep -> [Process -> File]]
    BY DEF Types
  <2> QED
    BY <1>1, <1>4, <1>5, <2>1
<1>7. at'[p] = "saved" /\ \A q \in Process : q # p => at'[q] = at[q]
  BY <1>1 DEF Types
<1>8. Types'
  <2>1. at' \in [Process -> Place]
    BY <1>1 DEF Types, Place
  <2> QED
    BY <1>1, <1>3, <1>6, <2>1 DEF Types
<1>9. KeptAreTrue'
  <2>1. ASSUME NEW s \in Kept', NEW q \in Process
        PROVE  part'[s][q] = [attempt |-> marker'[s], step |-> s, learned |-> TakenBy(q, s)]
    <3>1. s \in Kept /\ s \in 1..MaxStep /\ s # step[p]
      BY <1>2, <1>3, <1>4
    <3> QED
      BY <3>1, <1>1, <1>6 DEF KeptAreTrue
  <2>2. doomed' \cap Kept' = {} /\ (at'[First] # "remove" => doomed' = {})
    BY <1>1, <1>3, <1>7, <1>2 DEF KeptAreTrue
  <2> QED
    BY <2>1, <2>2 DEF KeptAreTrue, TakenBy, Skip
<1>10. Learned'
  BY <1>1, <1>7 DEF Learned, TakenBy, Skip
<1>11. Phases'
  BY <1>1, <1>2, <1>7 DEF Phases, Onward
<1>12. Ahead'
  <2> SUFFICES ASSUME NEW q \in Process
               PROVE  (/\ at[q] # "load" =>
                            /\ \A s \in Complete : s <= step[q] /\ (s <= start[q] \/ Due(s) \/ ending)
                       /\ at'[q] # "load" /\ at[q] # "load"
                       /\ at'[q] \in {"save", "saved"} =>
                            /\ step[q] > 0 /\ (~ending => Due(step[q]))
                            /\ \A s \in Complete : s < step[q]
                       /\ at'[q] = "saved" =>
                            part'[step[q]][q] =
                              [attempt |-> attempt, step |-> step[q], learned |-> learned[q]])
    BY <1>1, <1>3, <1>7 DEF Ahead, Due
  <2>1. at[q] # "load" /\ at'[q] # "load"
    BY <1>1, <1>7 DEF Phases
  <2>2. \A s \in Complete : s <= step[q] /\ (s <= start[q] \/ Due(s) \/ ending)
    BY <2>1 DEF Ahead
  <2>3. at'[q] \in {"save", "saved"} => at[q] \in {"save", "saved"}
    BY <1>1, <1>7
  <2>4. at'[q] \in {"save", "saved"} =>
           /\ step[q] > 0 /\ (~ending => Due(step[q])) /\ \A s \in Complete : s < step[q]
    BY <2>3 DEF Ahead
  <2>5. ASSUME at'[q] = "saved"
        PROVE  part'[step[q]][q] = [attempt |-> attempt, step |-> step[q], learned |-> learned[q]]
    <3>1. CASE q = p
      BY <3>1, <1>6 DEF file
    <3>2. CASE q # p
      <4>1. at[q] = "saved" /\ step[q] \in 1..MaxStep
        BY <3>2, <2>5, <2>4, <1>2, <1>7 DEF Types
      <4> QED
        BY <3>2, <4>1, <1>6 DEF Ahead
    <3> QED
      BY <3>1, <3>2
  <2> QED
    BY <2>1, <2>2, <2>4, <2>5
<1> QED
  BY <1>8, <1>9, <1>10, <1>11, <1>12

\* The marker is written last, so the checkpoint it completes is whole.
LEMMA WriteMarkerKeeps ==
  ASSUME IInv, WriteMarker
  PROVE  IInv' /\ Latest' >= Latest
<1> USE DEF IInv
<1> DEFINE new == step[First]
<1>1. /\ UNCHANGED <<step, start, iterator, learned, part, doomed, asked, attempt, ending>>
      /\ \A p \in Process : at[p] = "saved"
      /\ marker' = [marker EXCEPT ![new] = attempt]
      /\ at' = [p \in Process |-> IF p = First THEN "prune" ELSE Onward]
  BY DEF WriteMarker, PartsWritten, All
<1>2. /\ First \in Process /\ MaxStep \in Nat
      /\ asked.steps \in 1..MaxStep /\ asked.keep \in Nat \ {0}
      /\ Complete \subseteq 1..MaxStep /\ Kept \subseteq Complete
      /\ Onward \in {"train", "over"}
  BY Constants DEF Onward
<1>3. /\ new \in 1..asked.steps /\ new \in 1..MaxStep /\ new \in Nat
      /\ \A s \in Complete : s < new
      /\ \A p \in Process : step[p] = new
      /\ ~ending => Due(new)
  <2>1. new > 0 /\ (\A s \in Complete : s < new) /\ (~ending => Due(new))
    BY <1>1, <1>2 DEF Ahead
  <2>2. new \in 0..asked.steps
    BY <1>2 DEF Types
  <2>3. \A p \in Process : step[p] = new
    BY <1>1, <1>2 DEF Learned
  <2> QED
    BY <2>1, <2>2, <2>3, <1>2
<1> HIDE DEF new
<1>4. /\ attempt \in Nat \ {0} /\ marker' \in [1..MaxStep -> Nat] /\ marker'[new] = attempt
      /\ \A s \in 1..MaxStep : s # new => marker'[s] = marker[s]
  <2>1. marker \in [1..MaxStep -> Nat] /\ attempt \in Nat \ {0}
    BY DEF Types
  <2> QED
    BY <2>1, <1>1, <1>3
<1>5. Complete' = Complete \cup {new}
  BY <1>3, <1>4 DEF Complete
<1>6. /\ Complete \in SUBSET Nat /\ IsFiniteSet(Complete)
      /\ Complete = {} => Latest = 0
      /\ Complete # {} => Latest \in Complete /\ \A t \in Complete : t <= Latest
  BY <1>2, CompleteLatest DEF LatestIs
<1>7. Kept' \subseteq Kept \cup {new}
  <2>1. LatestOf(Complete \cup {new}, asked.keep) \subseteq LatestOf(Complete, asked.keep) \cup {new}
    BY <1>2, <1>3, <1>6, KeptWith
  <2>2. Kept' = LatestOf(Complete', asked.keep)
    BY <1>1 DEF Kept, LatestOf
  <2> QED
    BY <2>1, <2>2, <1>5 DEF Kept
<1>8. Types'
  <2>1. at' \in [Process -> Place]
    BY <1>1, <1>2 DEF Place
  <2>2. \A s \in Complete' : s <= asked.steps
    BY <1>3, <1>5 DEF Types
  <2> QED
    BY <1>1, <1>4, <2>1, <2>2 DEF Types
<1>9. KeptAreTrue'
  <2>1. ASSUME NEW s \in Kept', NEW p \in Process
        PROVE  part'[s][p] = [attempt |-> marker'[s], step |-> s, learned |-> TakenBy(p, s)]
    <3>1. CASE s = new
      <4>1. part[new][p] = [attempt |-> attempt, step |-> new, learned |-> learned[p]]
        BY <1>1, <1>3 DEF Ahead
      <4>2. learned[p] = TakenBy(p, new)
        BY <1>1, <1>3 DEF Learned
      <4> QED
        BY <3>1, <4>1, <4>2, <1>1, <1>4
    <3>2. CASE s # new
      <4>1. s \in Kept /\ s \in 1..MaxStep
        BY <3>2, <1>7, <1>2
      <4> QED
        BY <3>2, <4>1, <1>1, <1>4 DEF KeptAreTrue
    <3> QED
      BY <3>1, <3>2
  <2>2. doomed' = {}
    BY <1>1, <1>2 DEF KeptAreTrue
  <2> QED
    BY <2>1, <2>2 DEF KeptAreTrue, TakenBy, Skip
<1>10. \A p \in Process : at'[p] = IF p = First THEN "prune" ELSE Onward
  BY <1>1
<1>11. Learned'
  BY <1>1 DEF Learned, TakenBy, Skip
<1>12. Phases'
  <2>1. Onward' = Onward
    BY <1>1 DEF Onward
  <2>2. ending => Onward = "over"
    BY DEF Onward
  <2>3. \A p \in Process : at'[p] \in {"prune", "train", "over"}
    BY <1>2, <1>10
  <2>4. \A p \in Process \ {First} : at'[p] = Onward /\ at'[p] \in {"train", "over"}
    BY <1>2, <1>10
  <2>5. ending' => \A p \in Process : at'[p] \in {"prune", "over"}
    BY <1>1, <1>10, <2>2
  <2> QED
    BY <2>1, <2>3, <2>4, <2>5, <1>1 DEF Phases
<1>13. Ahead'
  <2>1. \A p \in Process : at'[p] \in {"prune", "train", "over"}
    BY <1>2, <1>10
  <2>2. \A s : Due(s)' = Due(s)
    BY <1>1 DEF Due
  <2>3. ASSUME NEW p \in Process, NEW s \in Complete'
        PROVE  s <= step[p] /\ (s <= start[p] \/ Due(s) \/ ending)
    <3>1. CASE s = new
      BY <3>1, <1>3
    <3>2. CASE s # new
      BY <3>2, <1>1, <1>5 DEF Ahead
    <3> QED
      BY <3>1, <3>2
  <2> QED
    BY <2>1, <2>2, <2>3, <1>1 DEF Ahead
<1>14. Latest' >= Latest
  <2>1. new \in Complete' /\ MaxStep \in Nat
    BY <1>2, <1>5
  <2>2. LatestIs'
    BY CompleteLatest, PTL
  <2>3. Latest' \in Complete' /\ \A t \in Complete' : t <= Latest'
    BY <2>1, <2>2 DEF LatestIs
  <2>4. Latest' \in Nat
    BY <2>3, <1>3, <1>5, <1>6
  <2>5. CASE Complete = {}
    BY <2>4, <2>5, <1>6
  <2>6. CASE Complete # {}
    BY <2>3, <2>6, <1>5, <1>6
  <2> QED
    BY <2>5, <2>6
<1> QED
  BY <1>8, <1>9, <1>11, <1>12, <1>13, <1>14

\* prune: nothing that is kept is to be removed.
LEMMA PruneKeeps ==
  ASSUME IInv, Prune
  PROVE  IInv'
<1> USE DEF IInv
<1>1. /\ UNCHANGED <<step, start, iterator, learned, part, marker, asked, attempt, ending>>
      /\ at[First] = "prune" /\ at' = [at EXCEPT ![First] = "remove"]
      /\ doomed' = Complete \ Kept
  BY DEF Prune, Old, Kept
<1>2. /\ Complete' = Complete /\ Kept' = Kept /\ Latest' = Latest
      /\ \A s : Due(s)' = Due(s)
      /\ \A s \in Kept', q \in Process :
           part'[s][q] = [attempt |-> marker'[s], step |-> s, learned |-> TakenBy(q, s)]
  BY <1>1, SameKept
<1>3. First \in Process /\ Complete \subseteq 1..MaxStep
  BY Constants
<1>4. at'[First] = "remove" /\ \A p \in Process \ {First} : at'[p] = at[p]
  BY <1>1, <1>3 DEF Types
<1>5. Types'
  <2>1. at' \in [Process -> Place]
    BY <1>1 DEF Types, Place
  <2>2. doomed' \subseteq 1..MaxStep
    BY <1>1, <1>3
  <2> QED
    BY <1>1, <1>2, <2>1, <2>2 DEF Types
<1>6. KeptAreTrue'
  <2>1. doomed' \cap Kept' = {}
    BY <1>1, <1>2
  <2> QED
    BY <2>1, <1>2, <1>4 DEF KeptAreTrue
<1>7. Learned'
  BY <1>1, <1>3, <1>4 DEF Learned, TakenBy, Skip
<1>8. Phases'
  BY <1>1, <1>3, <1>4 DEF Phases, Onward
<1>9. Ahead'
  BY <1>1, <1>2, <1>3, <1>4 DEF Ahead, Due
<1> QED
  BY <1>5, <1>6, <1>7, <1>8, <1>9

\* rmtree: whatever of an old checkpoint is removed, what is kept is left alone.
LEMMA RemoveKeeps ==
  ASSUME IInv, Remove
  PROVE  IInv' /\ Latest' >= Latest
<1> USE DEF IInv
<1>1. /\ UNCHANGED <<at, step, start, iterator, learned, asked, attempt, ending>>
      /\ at[First] = "remove" /\ doomed # {}
  BY DEF Remove
<1>2. /\ First \in Process /\ MaxStep \in Nat
      /\ asked.steps \in 1..MaxStep /\ asked.keep \in Nat \ {0}
      /\ Complete \subseteq 1..MaxStep /\ Kept \subseteq Complete
  BY Constants
<1>3. doomed \subseteq 1..MaxStep /\ doomed \cap Kept = {} /\ doomed \in SUBSET (0..MaxStep)
  BY <1>2 DEF Types, KeptAreTrue
<1>4. PICK x \in doomed :
        \/ marker[x] # 0 /\ marker' = [marker EXCEPT ![x] = 0] /\ UNCHANGED <<part, doomed>>
        \/ \E p \in Process : /\ part' = [part EXCEPT ![x][p] = None]
                              /\ UNCHANGED <<marker, doomed>>
        \/ doomed' = doomed \ {x} /\ UNCHANGED <<part, marker>>
  <2> DEFINE x == CHOOSE s \in doomed : \A t \in doomed : s <= t
  <2>1. \E s \in doomed : \A t \in doomed : s <= t
    <3>1. doomed \in SUBSET (0..MaxStep) /\ doomed # {} /\ MaxStep \in Nat
      BY <1>1, <1>2, <1>3
    <3> HIDE DEF IInv
    <3> QED
      BY <3>1, HasFirst, Zenon
  <2>2. x \in doomed
    BY <2>1
  <2>3. \/ marker[x] # 0 /\ marker' = [marker EXCEPT ![x] = 0] /\ UNCHANGED <<part, doomed>>
        \/ \E p \in Process : /\ part' = [part EXCEPT ![x][p] = None]
                              /\ UNCHANGED <<marker, doomed>>
        \/ doomed' = doomed \ {x} /\ UNCHANGED <<part, marker>>
    BY DEF Remove
  <2> HIDE DEF x
  <2> QED
    BY <2>2, <2>3
<1>5. x \in 1..MaxStep /\ x \notin Kept
  BY <1>3
<1>6. /\ Complete \in SUBSET Nat /\ IsFiniteSet(Complete)
      /\ Complete = {} => Latest = 0
      /\ Complete # {} => Latest \in Complete /\ \A t \in Complete : t <= Latest
  BY <1>2, CompleteLatest DEF LatestIs
<1>7. /\ marker' \in [1..MaxStep -> Nat] /\ part' \in [1..MaxStep -> [Process -> File]]
      /\ doomed' \subseteq doomed
      /\ \A s \in 1..MaxStep : s # x => part'[s] = part[s] /\ marker'[s] = marker[s]
      /\ marker'[x] \in {0, marker[x]}
  <2>1. marker \in [1..MaxStep -> Nat] /\ part \in [1..MaxStep -> [Process -> File]]
    BY DEF Types
  <2>2. None \in File
    BY DEF None, File
  <2>3. CASE marker[x] # 0 /\ marker' = [marker EXCEPT ![x] = 0] /\ UNCHANGED <<part, doomed>>
    BY <1>5, <2>1, <2>3
  <2>4. ASSUME NEW p \in Process, part' = [part EXCEPT ![x][p] = None], UNCHANGED <<marker, doomed>>
        PROVE  /\ part' \in [1..MaxStep -> [Process -> File]]
               /\ \A s \in 1..MaxStep : s # x => part'[s] = part[s]
    <3>1. part[x] \in [Process -> File]
      BY <1>5, <2>1, Zenon
    <3>2. [part[x] EXCEPT ![p] = None] \in [Process -> File]
      BY <3>1, <2>2, Zenon
    <3>3. part' = [part EXCEPT ![x] = [part[x] EXCEPT ![p] = None]]
      BY <2>4, <2>1, <1>5
    <3> QED
      BY <3>2, <3>3, <2>1, <1>5, Zenon
  <2>5. CASE doomed' = doomed \ {x} /\ UNCHANGED <<part, marker>>
    BY <1>5, <2>1, <2>5
  <2> QED
    BY <1>4, <1>5, <2>1, <2>3, <2>4, <2>5
<1>8. Complete' = Complete \/ (x \in Complete /\ Complete' = Complete \ {x})
  BY <1>5, <1>7 DEF Complete
<1>9. Kept' \subseteq Kept
  <2>1. Kept' = LatestOf(Complete', asked.keep)
    BY <1>1 DEF Kept, LatestOf
  <2>2. x \in Complete => LatestOf(Complete \ {x}, asked.keep) \subseteq LatestOf(Complete, asked.keep)
    BY <1>2, <1>5, <1>6, KeptWithout DEF Kept
  <2> QED
    BY <1>8, <2>1, <2>2 DEF Kept
<1>10. Latest' >= Latest
  <2>1. LatestIs'
    BY CompleteLatest, PTL
  <2>2. Latest' \in Nat
    <3>1. Complete' = {} => Latest' = 0
      BY <2>1 DEF LatestIs
    <3>2. Complete' # {} => Latest' \in Complete'
      BY <2>1 DEF LatestIs
    <3>3. Complete' \subseteq Nat
      BY <2>1 DEF LatestIs
    <3>4. 0 \in Nat
      OBVIOUS
    <3> QED
      BY <3>1, <3>2, <3>3, <3>4, Zenon
  <2>3. CASE Complete = {}
    BY <2>2, <2>3, <1>6
  <2>4. CASE Complete # {}
    <3>1. Latest \in Kept
      BY <2>4, <1>2, ResumeKept DEF Kept
    <3>2. Latest \in Complete' /\ Latest \in Nat
      BY <3>1, <1>2, <1>5, <1>6, <1>8
    <3>3. Latest <= Latest'
      BY <3>2, <2>1 DEF LatestIs
    <3> QED
      BY <3>2, <3>3, <2>2
  <2> QED
    BY <2>3, <2>4
<1>11. \A p \in Process : at[p] \notin {"load", "saved", "save"}
  BY <1>1, <1>2 DEF Phases, Onward
<1>12. Complete' \subseteq Complete
  BY <1>8
<1>13. Types'
  <2>1. doomed' \subseteq 1..MaxStep /\ \A s \in Complete' : s <= asked.steps
    BY <1>3, <1>7, <1>12 DEF Types
  <2> QED
    BY <1>1, <1>7, <2>1 DEF Types
<1>14. KeptAreTrue'
  <2>1. ASSUME NEW s \in Kept', NEW p \in Process
        PROVE  part'[s][p] = [attempt |-> marker'[s], step |-> s, learned |-> TakenBy(p, s)]
    <3>1. s \in Kept /\ s # x /\ s \in 1..MaxStep
      BY <1>2, <1>5, <1>9
    <3> QED
      BY <3>1, <1>7 DEF KeptAreTrue
  <2>2. doomed' \cap Kept' = {}
    BY <1>3, <1>7, <1>9
  <2> QED
    BY <2>1, <2>2, <1>1 DEF KeptAreTrue, TakenBy, Skip
<1>15. Learned' /\ Phases'
  BY <1>1 DEF Learned, Phases, TakenBy, Skip, Onward
<1>16. Ahead'
  BY <1>1, <1>11, <1>12 DEF Ahead, Due
<1> QED
  BY <1>10, <1>13, <1>14, <1>15, <1>16

\* All removed, the first goes on as the others did.
LEMMA PruneDoneKeeps ==
  ASSUME IInv, PruneDone
  PROVE  IInv'
<1> USE DEF IInv
<1>1. /\ UNCHANGED <<step, start, iterator, learned, part, marker, doomed, asked, attempt, ending>>
      /\ at[First] = "remove" /\ at' = [at EXCEPT ![First] = Onward] /\ doomed = {}
  BY DEF PruneDone
<1>2. /\ Complete' = Complete /\ Kept' = Kept /\ Latest' = Latest
      /\ \A s : Due(s)' = Due(s)
      /\ \A s \in Kept', q \in Process :
           part'[s][q] = [attempt |-> marker'[s], step |-> s, learned |-> TakenBy(q, s)]
  BY <1>1, SameKept
<1>3. First \in Process /\ Onward \in Place /\ Onward \in {"train", "over"}
      /\ (ending => Onward = "over")
  BY Constants DEF Onward
<1>4. at'[First] = Onward /\ \A p \in Process \ {First} : at'[p] = at[p] /\ at[p] = Onward
  BY <1>1, <1>3 DEF Types, Phases
<1>5. \A p \in Process : at'[p] = Onward
  BY <1>3, <1>4
<1>6. Types'
  <2>1. at' \in [Process -> Place]
    BY <1>1, <1>3 DEF Types
  <2> QED
    BY <1>1, <1>2, <2>1 DEF Types
<1>7. KeptAreTrue'
  BY <1>1, <1>2 DEF KeptAreTrue
<1>8. \A p \in Process : at[p] # "load"
  BY <1>1, <1>3, <1>4
<1>9. Learned'
  BY <1>1, <1>8 DEF Learned, TakenBy, Skip
<1>10. Phases'
  BY <1>1, <1>3, <1>5 DEF Phases
<1>11. Ahead'
  BY <1>1, <1>2, <1>3, <1>5, <1>8 DEF Ahead, Due
<1> QED
  BY <1>6, <1>7, <1>9, <1>10, <1>11

\* A kill leaves the files as they are.
LEMMA CrashKeeps ==
  ASSUME IInv, Crash
  PROVE  IInv'
<1> USE DEF IInv
<1>1. /\ UNCHANGED <<step, start, iterator, learned, part, marker, asked>>
      /\ attempt' = attempt + 1 /\ doomed' = {} /\ ending' = FALSE
      /\ at' = [p \in Process |-> "load"]
  BY DEF Crash
<1>2. /\ Complete' = Complete /\ Kept' = Kept
      /\ \A s \in Kept', q \in Process :
           part'[s][q] = [attempt |-> marker'[s], step |-> s, learned |-> TakenBy(q, s)]
  BY <1>1, SameKept
<1>3. First \in Process /\ \A p \in Process : at'[p] = "load"
  BY <1>1, Constants
<1>4. Types'
  <2>1. at' \in [Process -> Place] /\ attempt' \in Nat \ {0} /\ ending' \in BOOLEAN /\ doomed' \subseteq 1..MaxStep
    <3>1. attempt \in Nat \ {0}
      BY DEF Types
    <3>2. attempt + 1 \in Nat \ {0}
      BY <3>1
    <3> QED
      BY <3>2, <1>1 DEF Place
  <2> QED
    BY <1>1, <1>2, <2>1 DEF Types
<1>5. KeptAreTrue'
  BY <1>1, <1>2 DEF KeptAreTrue
<1>6. Learned' /\ Phases' /\ Ahead'
  BY <1>1, <1>3 DEF Learned, Phases, Ahead
<1> QED
  BY <1>4, <1>5, <1>6

-----------------------------------------------------------------------------
(* The theorems.                                                            *)

\* Every step keeps the invariant, and none makes the checkpoint to resume from older.
LEMMA StepKeeps ==
  ASSUME IInv, [Next]_vars
  PROVE  IInv' /\ Latest' >= Latest
<1>1. ASSUME UNCHANGED marker
      PROVE  Latest' >= Latest
  <2>1. Complete' = Complete /\ Latest' = Latest
    BY <1>1 DEF Complete, Latest
  <2>2. Latest \in Nat
    <3>1. Complete = {} => Latest = 0
      BY CompleteLatest DEF LatestIs
    <3>2. Complete # {} => Latest \in Complete
      BY CompleteLatest DEF LatestIs
    <3>3. Complete \subseteq Nat
      BY CompleteLatest DEF LatestIs
    <3>4. 0 \in Nat
      OBVIOUS
    <3> QED
      BY <3>1, <3>2, <3>3, <3>4, Zenon
  <2> QED
    BY <2>1, <2>2
<1>2. CASE TrainStep
  BY <1>1, <1>2, TrainStepKeeps DEF TrainStep
<1>3. CASE Stop
  BY <1>1, <1>3, StopKeeps DEF Stop
<1>4. CASE WriteMarker
  BY <1>4, WriteMarkerKeeps
<1>5. CASE Prune
  BY <1>1, <1>5, PruneKeeps DEF Prune
<1>6. CASE Remove
  BY <1>6, RemoveKeeps
<1>7. CASE PruneDone
  BY <1>1, <1>7, PruneDoneKeeps DEF PruneDone
<1>8. ASSUME NEW p \in Process, Load(p)
      PROVE  IInv' /\ Latest' >= Latest
  BY <1>1, <1>8, LoadKeeps DEF Load
<1>9. ASSUME NEW p \in Process, WritePart(p)
      PROVE  IInv' /\ Latest' >= Latest
  BY <1>1, <1>9, WritePartKeeps DEF WritePart
<1>10. CASE Crash
  BY <1>1, <1>10, CrashKeeps DEF Crash
<1>11. CASE UNCHANGED vars
  <2>1. /\ UNCHANGED <<at, step, start, iterator, learned>>
        /\ UNCHANGED <<part, marker, doomed, asked, attempt, ending>>
    BY <1>11 DEF vars
  <2>2. /\ Complete' = Complete /\ Kept' = Kept /\ Latest' = Latest /\ Onward' = Onward
        /\ \A s : Due(s)' = Due(s)
    BY <2>1 DEF Complete, Kept, Latest, Onward, Due
  <2>3. Types'
    BY <2>1, <2>2 DEF IInv, Types
  <2>4. KeptAreTrue'
    BY <2>1, <2>2 DEF IInv, KeptAreTrue, TakenBy, Skip
  <2>5. Learned'
    BY <2>1, <2>2 DEF IInv, Learned, TakenBy, Skip
  <2>6. Phases'
    BY <2>1, <2>2 DEF IInv, Phases
  <2>7. Ahead'
    BY <2>1, <2>2 DEF IInv, Ahead, Due
  <2> QED
    BY <2>1, <2>3, <2>4, <2>5, <2>6, <2>7, <1>1 DEF IInv
<1> QED
  BY <1>2, <1>3, <1>4, <1>5, <1>6, <1>7, <1>8, <1>9, <1>10, <1>11 DEF Next, Work

\* Wherever a job is killed, the invariant holds: what is kept is whole and true.
THEOREM InvariantHolds == Spec => []IInv
<1>1. Init => IInv
  BY StartsSound
<1>2. IInv /\ [Next]_vars => IInv'
  BY StepKeeps
<1> QED
  BY <1>1, <1>2, PTL DEF Spec

\* Each checkpoint that is to be kept is whole, kills while parts are written and
\* old checkpoints are removed included.
THEOREM KeptStayWhole == Spec => []KeptAreWhole
<1>1. ASSUME IInv, NEW s \in LatestOf(Complete, asked.keep), NEW p \in Process
      PROVE  part[s][p].attempt = marker[s] /\ part[s][p].step = s
  <2>1. part[s][p] = [attempt |-> marker[s], step |-> s, learned |-> TakenBy(p, s)]
    BY <1>1 DEF IInv, KeptAreTrue, Kept
  <2> QED
    BY <2>1
<1>2. IInv => KeptAreWhole
  BY <1>1 DEF KeptAreWhole
<1> QED
  BY <1>2, InvariantHolds, PTL

\* However often it was killed and resumed, the model has learned from each batch
\* once and in order, as many as its steps take.
THEOREM BatchesOnce == Spec => []EachBatchOnce
<1>1. ASSUME IInv, NEW p \in Process, at[p] # "load"
      PROVE  /\ learned[p] = [i \in 1..Len(learned[p]) |-> i]
             /\ Len(learned[p]) \in {step[p] * Accumulate, Batches[p]}
  <2>1. step[p] \in 0..asked.steps /\ asked.steps \in 1..MaxStep /\ MaxStep \in Nat
    BY <1>1, Constants DEF IInv, Types
  <2>2. step[p] \in Nat /\ learned[p] = TakenBy(p, step[p])
    BY <1>1, <2>1 DEF IInv, Learned
  <2>3. Len(learned[p]) = Skip(p, step[p])
    BY <2>2, TakenType
  <2>4. Skip(p, step[p]) \in {step[p] * Accumulate, Batches[p]}
    BY <2>2, SkipOn
  <2> QED
    BY <2>2, <2>3, <2>4 DEF TakenBy
<1>2. IInv => EachBatchOnce
  BY <1>1 DEF EachBatchOnce
<1> QED
  BY <1>2, InvariantHolds, PTL

\* What a job resumes from is never older than before.
THEOREM ResumesOnward == Spec => NeverBack
<1>1. IInv /\ [Next]_vars => [Latest' >= Latest]_vars
  BY StepKeeps
<1> QED
  BY <1>1, InvariantHolds, PTL DEF Spec, NeverBack
=============================================================================
