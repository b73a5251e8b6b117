------------------------- MODULE PackageFetchProofs -------------------------
(***************************************************************************)
(* Whatever the number of processes and however they interleave, die and    *)
(* start again, none fails because of another except over linnet.lock and   *)
(* git's own locks, and one that succeeds has the whole closure.            *)
(***************************************************************************)
EXTENDS PackageFetch, LinesProofs, TLAPS

Package == Source \X (1..MaxCommit)

\* Where a process is while it resolves a dependency, and after the walk.
Resolving == {"clone", "place", "find", "refresh", "update", "name", "refetch",
              "check_out", "rename"}
Walked == {"compare", "truncate", "write", "done"}

\* A process's own state; it fails for no other reasons than these.
Run ==
  [at : {"start", "walk"} \cup Resolving \cup Walked,
   pins : Pins, deps : Seq(Source), stack : Seq(Package), seen : SUBSET Package,
   resolved : Pins, failures : SUBSET {"offline", "network", "absent", "lock", "locked"},
   commit : Nat, cloned : BOOLEAN, staged : 0..MaxCommit, base : 0..MaxCommit]

-----------------------------------------------------------------------------
(* The inductive invariant.                                                 *)

\* No snapshot is half made.
Types ==
  /\ remote \in [Repo -> 1..MaxCommit]
  /\ db \in [Repo -> 0..MaxCommit]
  /\ has \in [Repo -> SUBSET (1..MaxCommit)]
  /\ snapshot \in [Repo -> [1..MaxCommit -> {"none", "whole"}]]
  /\ lock \in Pins \cup {NoLock, Torn}
  /\ run \in [Process -> Run]

\* What a process knows at each place of Fetcher.resolve: the dependency is not
\* resolved yet, there is a clone, the commit to check out.
Placed(R, clones) ==
  /\ R.at \in Resolving => R.deps # <<>> /\ Head(R.deps) \notin DOMAIN R.resolved
  /\ R.at \in {"find", "refresh", "update", "name"} => clones[RepoOf[Head(R.deps)]] # 0
  /\ R.at \in {"place", "update"} => R.staged # 0
  /\ R.at = "refetch" => R.commit # 0
  /\ R.at \in {"check_out", "rename"} => R.commit \in 1..MaxCommit

\* What is resolved is in the cache.
InCache(R, snapshots) ==
  \A s \in DOMAIN R.resolved : snapshots[RepoOf[s]][R.resolved[s]] = "whole"

\* The packages walked and still to be walked are what is resolved.  As long as
\* nothing failed, each is to be walked, or its dependencies are resolved or about
\* to be; and so is the project.
Walks(R) ==
  /\ \A k \in Range(R.stack) \cup R.seen : k[1] \in DOMAIN R.resolved /\ R.resolved[k[1]] = k[2]
  /\ R.at \in {"truncate", "write"} => R.failures = {}
  /\ R.failures = {} =>
       /\ R.at \in Walked => R.deps = <<>> /\ R.stack = <<>>
       /\ Range(Root) \subseteq DOMAIN R.resolved \cup Range(R.deps)
       /\ \A s \in DOMAIN R.resolved :
            LET package == <<s, R.resolved[s]>>
            IN  /\ package \in Range(R.stack) \cup R.seen
                /\ package \in R.seen =>
                     Range(Deps[s][R.resolved[s]]) \subseteq DOMAIN R.resolved \cup Range(R.deps)

RunOK(R, clones, snapshots) == Placed(R, clones) /\ InCache(R, snapshots) /\ Walks(R)

IInv ==
  /\ Types
  /\ \A p \in Process : RunOK(run[p], db, snapshot)
  /\ LockUsable

-----------------------------------------------------------------------------
(* Pins and runs.                                                           *)

\* Pins are of sources, to commits.
LEMMA PinsFacts ==
  ASSUME NEW pins \in Pins
  PROVE  /\ DOMAIN pins \subseteq Source
         /\ \A s \in DOMAIN pins : s \in Source /\ RepoOf[s] \in Repo /\ pins[s] \in 1..MaxCommit
<1>1. PICK S \in SUBSET Source : pins \in [S -> 1..MaxCommit]
  BY DEF Pins
<1> QED BY <1>1, PackageFetchAssumption DEF PackageFetchAssumption

\* One more pin.
LEMMA WithFacts ==
  ASSUME NEW pins \in Pins, NEW s \in Source, NEW c \in 1..MaxCommit
  PROVE  /\ With(pins, s, c) \in Pins
         /\ DOMAIN With(pins, s, c) = DOMAIN pins \cup {s}
         /\ With(pins, s, c)[s] = c
         /\ \A x \in DOMAIN pins : x # s => With(pins, s, c)[x] = pins[x]
<1>1. DOMAIN With(pins, s, c) \in SUBSET Source
  BY PinsFacts DEF With
<1>2. With(pins, s, c) \in [DOMAIN pins \cup {s} -> 1..MaxCommit]
  BY PinsFacts DEF With
<1> QED BY <1>1, <1>2 DEF Pins, With

\* Commits are numbered, those a clone has from the first.
LEMMA CommitsUpTo ==
  /\ MaxCommit \in Nat \ {0} /\ 1..MaxCommit \subseteq Nat
  /\ \A n \in 1..MaxCommit : n \in 0..MaxCommit /\ 1..n \subseteq 1..MaxCommit
<1>1. MaxCommit \in Nat \ {0}
  BY PackageFetchAssumption DEF PackageFetchAssumption
<1> QED BY <1>1

\* A process that starts knows nothing.
LEMMA NewRunFacts == NewRun \in Run
<1>1. <<>> \in Pins
  <2>1. <<>> \in [{} -> 1..MaxCommit]
    OBVIOUS
  <2> QED BY <2>1 DEF Pins
<1>2. Root \in Seq(Source) /\ MaxCommit \in Nat
  BY PackageFetchAssumption DEF PackageFetchAssumption
<1> QED BY <1>1, <1>2 DEF NewRun, Run


\* The runs a failure, a commit resolved and a package visited make of a run.
Failed(R, why) ==
  [R EXCEPT !.at = "walk", !.deps = Tail(@), !.failures = @ \cup {why}]
Resolved(R, c) ==
  [R EXCEPT !.at = "walk", !.deps = Tail(@), !.resolved = With(@, Head(R.deps), c),
            !.stack = Append(@, <<Head(R.deps), c>>)]
Visited(R, package) ==
  [R EXCEPT !.stack = Front(@), !.seen = @ \cup {package},
            !.deps = IF package \in R.seen THEN <<>> ELSE Deps[package[1]][package[2]]]

\* The fields of a run.
LEMMA RunFields ==
  ASSUME NEW R \in Run
  PROVE  /\ R.pins \in Pins /\ R.deps \in Seq(Source) /\ R.stack \in Seq(Package)
         /\ R.seen \in SUBSET Package /\ R.resolved \in Pins /\ R.commit \in Nat
         /\ R.failures \in SUBSET {"offline", "network", "absent", "lock", "locked"}
         /\ R.staged \in 0..MaxCommit
         /\ R.deps # <<>> => /\ Head(R.deps) \in Source /\ RepoOf[Head(R.deps)] \in Repo
                             /\ Tail(R.deps) \in Seq(Source)
                             /\ Range(R.deps) = Range(Tail(R.deps)) \cup {Head(R.deps)}
<1>1. /\ R.pins \in Pins /\ R.deps \in Seq(Source) /\ R.stack \in Seq(Package)
      /\ R.seen \in SUBSET Package /\ R.resolved \in Pins /\ R.commit \in Nat
      /\ R.failures \in SUBSET {"offline", "network", "absent", "lock", "locked"}
      /\ R.staged \in 0..MaxCommit
  BY DEF Run
<1>2. ASSUME R.deps # <<>>
      PROVE  /\ Head(R.deps) \in Source /\ RepoOf[Head(R.deps)] \in Repo
             /\ Tail(R.deps) \in Seq(Source)
             /\ Range(R.deps) = Range(Tail(R.deps)) \cup {Head(R.deps)}
  <2>1. Head(R.deps) \in Source /\ Tail(R.deps) \in Seq(Source)
    BY <1>1, <1>2
  <2>2. RepoOf \in [Source -> Repo]
    BY PackageFetchAssumption DEF PackageFetchAssumption
  <2> QED BY <2>1, <2>2, <1>1, <1>2, EndsOfLine
<1> QED BY <1>1, <1>2

\* Nothing is in an empty sequence.
LEMMA NothingInEmpty == Range(<<>>) = {} /\ DOMAIN <<>> = {}
BY DEF Range

\* A run that starts: nothing is resolved, the project's dependencies are next.
LEMMA StartOK ==
  ASSUME NEW R \in Run, NEW clones, NEW snapshots,
         R.resolved = <<>>, R.deps = Root, R.stack = <<>>, R.seen = {},
         R.at \in {"start", "walk"} \/ (R.at = "done" /\ R.failures # {})
  PROVE  RunOK(R, clones, snapshots)
<1>1. Placed(R, clones)
  BY DEF Placed, Resolving
<1>2. InCache(R, snapshots)
  BY NothingInEmpty DEF InCache
<1>3. Walks(R)
  BY NothingInEmpty DEF Walks, Walked
<1> QED BY <1>1, <1>2, <1>3 DEF RunOK

\* A dependency that failed is passed over.
LEMMA FailedOK ==
  ASSUME NEW R \in Run, NEW clones, NEW snapshots, RunOK(R, clones, snapshots),
         R.deps # <<>>, NEW why \in {"offline", "network", "absent", "lock", "locked"}
  PROVE  Failed(R, why) \in Run /\ RunOK(Failed(R, why), clones, snapshots)
<1> DEFINE Q == Failed(R, why)
<1>1. Q \in Run
  <2> DEFINE d == Tail(R.deps)
             f == R.failures \cup {why}
  <2>1. d \in Seq(Source) /\ f \in SUBSET {"offline", "network", "absent", "lock", "locked"}
    BY RunFields
  <2>2. Q = [R EXCEPT !.at = "walk", !.deps = d, !.failures = f]
    BY DEF Failed
  <2> HIDE DEF d, f
  <2> QED BY <2>1, <2>2 DEF Run
<1>2. /\ Q.at = "walk" /\ Q.resolved = R.resolved /\ Q.stack = R.stack /\ Q.seen = R.seen
      /\ Q.failures = R.failures \cup {why}
  BY DEF Failed, Run
<1> HIDE DEF Q
<1>3. Placed(Q, clones)
  BY <1>2 DEF Placed, Resolving
<1>4. InCache(Q, snapshots)
  BY <1>2 DEF RunOK, InCache
<1>5. Walks(Q)
  BY <1>2 DEF RunOK, Walks
<1> QED BY <1>1, <1>3, <1>4, <1>5 DEF RunOK, Q

\* A dependency that resolved has its package walked later.
LEMMA ResolvedOK ==
  ASSUME NEW R \in Run, NEW clones, NEW snapshots, InCache(R, snapshots), Walks(R),
         R.deps # <<>>, NEW c \in 1..MaxCommit,
         snapshots[RepoOf[Head(R.deps)]][c] = "whole",
         Head(R.deps) \in DOMAIN R.resolved => R.resolved[Head(R.deps)] = c
  PROVE  Resolved(R, c) \in Run /\ RunOK(Resolved(R, c), clones, snapshots)
<1> DEFINE Q == Resolved(R, c)
           s == Head(R.deps)
           pins == With(R.resolved, s, c)
           d == Tail(R.deps)
           k == Append(R.stack, <<s, c>>)
<1>1. /\ s \in Source /\ d \in Seq(Source) /\ Range(R.deps) = Range(d) \cup {s}
      /\ R.resolved \in Pins /\ R.stack \in Seq(Package) /\ <<s, c>> \in Package
  BY RunFields DEF Package
<1>2. /\ pins \in Pins /\ DOMAIN pins = DOMAIN R.resolved \cup {s} /\ pins[s] = c
      /\ \A x \in DOMAIN R.resolved : pins[x] = R.resolved[x]
  <2>1. s \in DOMAIN R.resolved => R.resolved[s] = c
    OBVIOUS
  <2> HIDE DEF s
  <2>2. /\ pins \in Pins /\ DOMAIN pins = DOMAIN R.resolved \cup {s} /\ pins[s] = c
        /\ \A x \in DOMAIN R.resolved : x # s => pins[x] = R.resolved[x]
    <3> DEFINE f == R.resolved
    <3>1. f \in Pins /\ s \in Source /\ c \in 1..MaxCommit
      BY <1>1
    <3> HIDE DEF f
    <3>2. /\ With(f, s, c) \in Pins /\ DOMAIN With(f, s, c) = DOMAIN f \cup {s}
          /\ With(f, s, c)[s] = c /\ \A x \in DOMAIN f : x # s => With(f, s, c)[x] = f[x]
      BY <3>1, WithFacts
    <3> QED BY <3>2 DEF f
  <2> QED BY <2>1, <2>2
<1>3. k \in Seq(Package) /\ Range(k) = Range(R.stack) \cup {<<s, c>>}
  BY <1>1, AppendOnce
<1>4. Q = [R EXCEPT !.at = "walk", !.deps = d, !.resolved = pins, !.stack = k]
  BY DEF Resolved
<1> HIDE DEF Q, s, pins, d, k
<1>5. Q \in Run
  BY <1>1, <1>2, <1>3, <1>4 DEF Run
<1>6. /\ Q.at = "walk" /\ Q.deps = d /\ Q.resolved = pins /\ Q.stack = k
      /\ Q.seen = R.seen /\ Q.failures = R.failures
  BY <1>4 DEF Run
<1>7. Placed(Q, clones)
  BY <1>6 DEF Placed, Resolving
<1>8. InCache(Q, snapshots)
  BY <1>2, <1>6 DEF InCache, s
<1>9. Walks(Q)
  <2>1. \A g \in Range(k) \cup R.seen : g[1] \in DOMAIN pins /\ pins[g[1]] = g[2]
    BY <1>2, <1>3 DEF Walks
  <2>2. ASSUME R.failures = {}
        PROVE  /\ Range(Root) \subseteq DOMAIN pins \cup Range(d)
               /\ \A x \in DOMAIN pins :
                    /\ <<x, pins[x]>> \in Range(k) \cup R.seen
                    /\ <<x, pins[x]>> \in R.seen =>
                         Range(Deps[x][pins[x]]) \subseteq DOMAIN pins \cup Range(d)
    <3>1. DOMAIN R.resolved \cup Range(R.deps) = DOMAIN pins \cup Range(d)
      BY <1>1, <1>2
    <3>2. Range(Root) \subseteq DOMAIN pins \cup Range(d)
      BY <2>2, <3>1 DEF Walks
    <3>3. ASSUME NEW x \in DOMAIN pins
          PROVE  /\ <<x, pins[x]>> \in Range(k) \cup R.seen
                 /\ <<x, pins[x]>> \in R.seen =>
                      Range(Deps[x][pins[x]]) \subseteq DOMAIN pins \cup Range(d)
      <4>1. CASE x \in DOMAIN R.resolved
        BY <4>1, <2>2, <3>1, <1>2, <1>3 DEF Walks
      <4>2. CASE x \notin DOMAIN R.resolved
        <5>1. x = s /\ pins[x] = c
          BY <4>2, <1>2
        <5>2. <<s, c>> \notin R.seen
          BY <4>2, <5>1 DEF Walks
        <5> QED BY <5>1, <5>2, <1>3
      <4> QED BY <4>1, <4>2
    <3> QED BY <3>2, <3>3
  <2> QED BY <2>1, <2>2, <1>6 DEF Walks, Walked
<1> QED BY <1>5, <1>7, <1>8, <1>9 DEF RunOK, Q

\* The next package of the walk: its snapshot is whole, and its dependencies are
\* next, or are resolved when it was visited before.
LEMMA VisitedOK ==
  ASSUME NEW R \in Run, NEW clones, NEW snapshots, RunOK(R, clones, snapshots),
         R.at = "walk", R.deps = <<>>, R.stack # <<>>,
         NEW package, package = Last(R.stack)
  PROVE  /\ package[1] \in Source /\ package[2] \in 1..MaxCommit
         /\ snapshots[RepoOf[package[1]]][package[2]] = "whole"
         /\ Visited(R, package) \in Run
         /\ RunOK(Visited(R, package), clones, snapshots)
<1> DEFINE Q == Visited(R, package)
           k == Front(R.stack)
           n == R.seen \cup {package}
           d == IF package \in R.seen THEN <<>> ELSE Deps[package[1]][package[2]]
<1>1. R.stack \in Seq(Package) /\ R.seen \in SUBSET Package /\ R.resolved \in Pins
  BY RunFields
<1>2. /\ k \in Seq(Package) /\ package \in Package
      /\ Range(R.stack) = Range(k) \cup {package}
  BY <1>1, FrontOnce, EndsOfLine, RangeOfLine
<1>3. /\ package[1] \in Source /\ package[2] \in 1..MaxCommit
      /\ package = <<package[1], package[2]>>
  BY <1>2 DEF Package
<1>4. package[1] \in DOMAIN R.resolved /\ R.resolved[package[1]] = package[2]
  BY <1>2 DEF RunOK, Walks
<1>5. snapshots[RepoOf[package[1]]][package[2]] = "whole"
  BY <1>4 DEF RunOK, InCache
<1>6. d \in Seq(Source) /\ n \in SUBSET Package
  BY <1>1, <1>2, <1>3, PackageFetchAssumption DEF PackageFetchAssumption
<1>7. Q = [R EXCEPT !.stack = k, !.seen = n, !.deps = d]
  BY DEF Visited
<1> HIDE DEF Q, k, d
<1>8. Q \in Run
  <2> HIDE DEF n
  <2> QED BY <1>2, <1>6, <1>7 DEF Run
<1>9. /\ Q.at = "walk" /\ Q.deps = d /\ Q.resolved = R.resolved /\ Q.stack = k
      /\ Q.seen = n /\ Q.failures = R.failures
  <2> HIDE DEF n
  <2> QED BY <1>7 DEF Run
<1>10. Placed(Q, clones)
  BY <1>9 DEF Placed, Resolving
<1>11. InCache(Q, snapshots)
  BY <1>9 DEF RunOK, InCache
<1>12. Walks(Q)
  <2>1. \A g \in Range(k) \cup n : g[1] \in DOMAIN R.resolved /\ R.resolved[g[1]] = g[2]
    BY <1>2, <1>4 DEF RunOK, Walks
  <2>2. ASSUME R.failures = {}
        PROVE  /\ Range(Root) \subseteq DOMAIN R.resolved
               /\ \A x \in DOMAIN R.resolved :
                    /\ <<x, R.resolved[x]>> \in Range(k) \cup n
                    /\ <<x, R.resolved[x]>> \in n =>
                         Range(Deps[x][R.resolved[x]]) \subseteq DOMAIN R.resolved \cup Range(d)
    <3>1. Range(Root) \subseteq DOMAIN R.resolved
      BY <2>2, NothingInEmpty DEF RunOK, Walks
    <3>2. ASSUME NEW x \in DOMAIN R.resolved
          PROVE  /\ <<x, R.resolved[x]>> \in Range(k) \cup n
                 /\ <<x, R.resolved[x]>> \in n =>
                      Range(Deps[x][R.resolved[x]]) \subseteq DOMAIN R.resolved \cup Range(d)
      <4>1. /\ <<x, R.resolved[x]>> \in Range(k) \cup n
            /\ <<x, R.resolved[x]>> \in R.seen =>
                 Range(Deps[x][R.resolved[x]]) \subseteq DOMAIN R.resolved
        BY <2>2, <1>2, NothingInEmpty DEF RunOK, Walks
      <4>2. ASSUME <<x, R.resolved[x]>> = package, package \notin R.seen
            PROVE  Range(Deps[x][R.resolved[x]]) = Range(d)
        <5>1. x = package[1] /\ R.resolved[x] = package[2]
          BY <4>2, <1>3
        <5> QED BY <4>2, <5>1 DEF d
      <4> QED BY <4>1, <4>2
    <3> QED BY <3>1, <3>2
  <2> QED BY <2>1, <2>2, <1>9 DEF Walks, Walked
<1> QED BY <1>3, <1>5, <1>8, <1>10, <1>11, <1>12 DEF RunOK, Q

\* A process that goes on with the same dependency.
LEMMA MovedOK ==
  ASSUME NEW R \in Run, NEW Q \in Run, NEW clones, NEW snapshots,
         InCache(R, snapshots), Walks(R), Placed(Q, clones), Q.at \in Resolving,
         Q.deps = R.deps, Q.resolved = R.resolved, Q.stack = R.stack,
         Q.seen = R.seen, Q.failures = R.failures
  PROVE  RunOK(Q, clones, snapshots)
<1>1. InCache(Q, snapshots)
  BY DEF InCache
<1>2. Q.at \notin Walked
  BY DEF Resolving, Walked
<1>3. Walks(Q)
  BY <1>2 DEF Walks, Walked
<1> QED BY <1>1, <1>3 DEF RunOK

-----------------------------------------------------------------------------
(* What a step has to keep.                                                 *)

\* Clones and snapshots are there for good.
Grows ==
  /\ \A r \in Repo : db[r] # 0 => db'[r] # 0
  /\ \A r \in Repo, c \in 1..MaxCommit : snapshot[r][c] = "whole" => snapshot'[r][c] = "whole"

\* What the processes share has its type.
SharedTypes ==
  /\ remote \in [Repo -> 1..MaxCommit]
  /\ db \in [Repo -> 0..MaxCommit]
  /\ has \in [Repo -> SUBSET (1..MaxCommit)]
  /\ snapshot \in [Repo -> [1..MaxCommit -> {"none", "whole"}]]
  /\ lock \in Pins \cup {NoLock, Torn}

\* The other processes are as they were.
LEMMA RunKept ==
  ASSUME NEW R \in Run, RunOK(R, db, snapshot), Grows
  PROVE  RunOK(R, db', snapshot')
<1>1. Placed(R, db')
  BY RunFields DEF RunOK, Placed, Grows, Resolving
<1>2. InCache(R, snapshot')
  BY RunFields, PinsFacts DEF RunOK, InCache, Grows
<1> QED BY <1>1, <1>2 DEF RunOK

\* A step of one process.
LEMMA StepKeeps ==
  ASSUME IInv, NEW p \in Process, SharedTypes', Grows, LockUsable',
         run' = [run EXCEPT ![p] = run'[p]], run'[p] \in Run, RunOK(run'[p], db', snapshot')
  PROVE  IInv'
<1>1. Types'
  BY DEF IInv, Types, SharedTypes
<1>2. ASSUME NEW q \in Process PROVE RunOK(run'[q], db', snapshot')
  <2>1. CASE q = p
    BY <2>1
  <2>2. CASE q # p
    <3>1. run'[q] = run[q] /\ run[q] \in Run /\ RunOK(run[q], db, snapshot)
      BY <2>2 DEF IInv, Types
    <3> QED BY <3>1, RunKept
  <2> QED BY <2>1, <2>2
<1> QED BY <1>1, <1>2 DEF IInv

\* The lock that is there stays good.
LEMMA LockKept ==
  ASSUME IInv, Grows, UNCHANGED <<lock, written>>
  PROVE  LockUsable'
<1> SUFFICES ASSUME written, lock \notin {Torn, NoLock}
             PROVE  Closed(lock)'
  BY DEF LockUsable
<1>1. Closed(lock) /\ lock \in Pins
  BY DEF IInv, Types, LockUsable
<1> QED BY <1>1, PinsFacts DEF Closed, Grows

\* A step of one process that leaves the cache and the lock alone.
LEMMA LocalStepKeeps ==
  ASSUME IInv, NEW p \in Process, UNCHANGED <<remote, cacheVars, lock, written>>,
         run' = [run EXCEPT ![p] = run'[p]], run'[p] \in Run, RunOK(run'[p], db, snapshot)
  PROVE  IInv'
<1>1. SharedTypes' /\ Grows
  BY DEF IInv, Types, SharedTypes, Grows, cacheVars
<1>2. LockUsable'
  BY <1>1, LockKept
<1>3. RunOK(run'[p], db', snapshot')
  BY DEF cacheVars
<1> QED BY <1>1, <1>2, <1>3, StepKeeps

\* What the invariant says of a process.
LEMMA OfProcess ==
  ASSUME IInv, NEW p \in Process
  PROVE  /\ Types /\ SharedTypes /\ run[p] \in Run /\ RunOK(run[p], db, snapshot)
         /\ Placed(run[p], db) /\ InCache(run[p], snapshot) /\ Walks(run[p])
BY DEF IInv, Types, SharedTypes, RunOK

\* The walk is over and nothing failed: what is resolved is the whole closure.
LEMMA WalkedIsClosed ==
  ASSUME NEW R \in Run, InCache(R, snapshot), Walks(R), R.failures = {}, R.at \in Walked
  PROVE  Closed(R.resolved)
<1>1. R.deps = <<>> /\ R.stack = <<>>
  BY DEF Walks
<1>2. Range(R.deps) = {} /\ Range(R.stack) = {}
  BY <1>1, NothingInEmpty
<1> QED BY <1>2 DEF Walks, InCache, Closed

\* The moves of a process, as runs.
LEMMA Moves ==
  ASSUME Types, NEW p \in Process
  PROVE  /\ \A where : To(p, where) => run' = [run EXCEPT ![p] = [run[p] EXCEPT !.at = where]]
         /\ \A why : Fail(p, why) => run' = [run EXCEPT ![p] = Failed(run[p], why)]
         /\ \A c : Resolve(p, c) => run' = [run EXCEPT ![p] = Resolved(run[p], c)]
         /\ \A c : CheckOut(p, c) =>
              run' = [run EXCEPT ![p] = [run[p] EXCEPT !.at = "check_out", !.commit = c]]
<1>1. ASSUME NEW where, To(p, where)
      PROVE  run' = [run EXCEPT ![p] = [run[p] EXCEPT !.at = where]]
  BY <1>1 DEF Types, To
<1>2. ASSUME NEW why, Fail(p, why)
      PROVE  run' = [run EXCEPT ![p] = Failed(run[p], why)]
  BY <1>2 DEF Types, Fail, Failed
<1>3. ASSUME NEW c, Resolve(p, c)
      PROVE  run' = [run EXCEPT ![p] = Resolved(run[p], c)]
  BY <1>3 DEF Types, Resolve, Resolved, Now
<1>4. ASSUME NEW c, CheckOut(p, c)
      PROVE  run' = [run EXCEPT ![p] = [run[p] EXCEPT !.at = "check_out", !.commit = c]]
  BY <1>4 DEF Types, CheckOut
<1> QED BY <1>1, <1>2, <1>3, <1>4

\* A process's own entry, and nobody else's.
LEMMA OwnEntry ==
  ASSUME Types, NEW p \in Process, NEW STATE R, run' = [run EXCEPT ![p] = R]
  PROVE  run'[p] = R /\ run' = [run EXCEPT ![p] = run'[p]]
BY DEF Types

\* A dependency that failed, for one of the five reasons.
LEMMA FailMoveKeeps ==
  ASSUME IInv, NEW p \in Process, UNCHANGED <<remote, cacheVars, lock, written>>,
         run[p].deps # <<>>, NEW why \in {"offline", "network", "absent", "lock", "locked"}, Fail(p, why)
  PROVE  IInv'
<1>1. run' = [run EXCEPT ![p] = Failed(run[p], why)]
  BY OfProcess, Moves
<1>2. run'[p] = Failed(run[p], why) /\ run' = [run EXCEPT ![p] = run'[p]]
  BY <1>1, OfProcess, OwnEntry
<1>3. Failed(run[p], why) \in Run /\ RunOK(Failed(run[p], why), db, snapshot)
  BY OfProcess, FailedOK
<1> QED BY <1>2, <1>3, LocalStepKeeps

\* A dependency resolved to a commit that is in the cache.
LEMMA ResolveMoveKeeps ==
  ASSUME IInv, NEW p \in Process, UNCHANGED <<remote, cacheVars, lock, written>>,
         run[p].deps # <<>>, NEW STATE c, c \in 1..MaxCommit, Resolve(p, c),
         snapshot[Its(p)][c] = "whole",
         Now(p) \in DOMAIN run[p].resolved => run[p].resolved[Now(p)] = c
  PROVE  IInv'
<1>1. run' = [run EXCEPT ![p] = Resolved(run[p], c)]
  BY OfProcess, Moves
<1>2. run'[p] = Resolved(run[p], c) /\ run' = [run EXCEPT ![p] = run'[p]]
  BY <1>1, OfProcess, OwnEntry
<1>3. Resolved(run[p], c) \in Run /\ RunOK(Resolved(run[p], c), db, snapshot)
  BY OfProcess, ResolvedOK DEF Now, Its
<1> QED BY <1>2, <1>3, LocalStepKeeps

\* A commit to check out is known.
LEMMA CheckOutMoveKeeps ==
  ASSUME IInv, NEW p \in Process, UNCHANGED <<remote, cacheVars, lock, written>>,
         run[p].at \in Resolving, NEW STATE c, c \in 1..MaxCommit, CheckOut(p, c)
  PROVE  IInv'
<1> DEFINE Q == [run[p] EXCEPT !.at = "check_out", !.commit = c]
<1>1. run' = [run EXCEPT ![p] = Q]
  BY OfProcess, Moves
<1>2. run'[p] = Q /\ run' = [run EXCEPT ![p] = run'[p]]
  BY <1>1, OfProcess, OwnEntry
<1>3. run[p] \in Run /\ InCache(run[p], snapshot) /\ Walks(run[p]) /\ Placed(run[p], db)
  BY OfProcess
<1>4. Q \in Run
  <2>1. c \in Nat
    BY CommitsUpTo
  <2> QED BY <1>3, <2>1 DEF Run, Resolving
<1>5. /\ Q.at = "check_out" /\ Q.commit = c /\ Q.deps = run[p].deps
      /\ Q.resolved = run[p].resolved /\ Q.stack = run[p].stack
      /\ Q.seen = run[p].seen /\ Q.failures = run[p].failures
  BY <1>3 DEF Run
<1> HIDE DEF Q
<1>6. Placed(Q, db) /\ Q.at \in Resolving
  BY <1>3, <1>5 DEF Placed, Resolving
<1>7. RunOK(Q, db, snapshot)
  BY <1>3, <1>4, <1>5, <1>6, MovedOK
<1> QED BY <1>2, <1>4, <1>7, LocalStepKeeps

\* A process goes on with the same dependency, with what it has to know there.
LEMMA OnMoveKeeps ==
  ASSUME IInv, NEW p \in Process, UNCHANGED <<remote, cacheVars, lock, written>>,
         NEW STATE Q, Q \in Run, run' = [run EXCEPT ![p] = Q],
         Placed(Q, db), Q.at \in Resolving,
         Q.deps = run[p].deps, Q.resolved = run[p].resolved, Q.stack = run[p].stack,
         Q.seen = run[p].seen, Q.failures = run[p].failures
  PROVE  IInv'
<1>1. run'[p] = Q /\ run' = [run EXCEPT ![p] = run'[p]]
  BY OfProcess, OwnEntry
<1>2. RunOK(Q, db, snapshot)
  BY OfProcess, MovedOK
<1> QED BY <1>1, <1>2, LocalStepKeeps

-----------------------------------------------------------------------------
(* Every step keeps the invariant.                                          *)

\* The pins are those of the lock; part of one's text is refused.
LEMMA ReadLockKeeps ==
  ASSUME IInv, NEW p \in Process, ReadLock(p)
  PROVE  IInv'
<1> DEFINE pins == IF lock = NoLock THEN <<>> ELSE lock
           Q == IF lock = Torn
                THEN [NewRun EXCEPT !.at = "done", !.failures = {"lock"}]
                ELSE [NewRun EXCEPT !.at = "walk", !.pins = pins]
<1>1. run'[p] = Q /\ run' = [run EXCEPT ![p] = run'[p]]
  BY OfProcess, OwnEntry DEF ReadLock
<1>2. NewRun \in Run /\ NewRun.pins = <<>>
  BY NewRunFacts DEF NewRun
<1>3. lock # Torn => pins \in Pins
  <2>1. NewRun.pins \in Pins
    BY <1>2, RunFields
  <2> QED BY <2>1, <1>2, OfProcess DEF SharedTypes
<1>4. NewRun.resolved = <<>> /\ NewRun.deps = Root /\ NewRun.stack = <<>> /\ NewRun.seen = {}
  BY DEF NewRun
<1> HIDE DEF pins
<1>5. Q \in Run
  <2>1. [NewRun EXCEPT !.at = "done", !.failures = {"lock"}] \in Run
    BY <1>2 DEF Run, Walked
  <2>2. ASSUME pins \in Pins PROVE [NewRun EXCEPT !.at = "walk", !.pins = pins] \in Run
    BY <1>2, <2>2 DEF Run
  <2> QED BY <1>3, <2>1, <2>2
<1>6. /\ Q.resolved = <<>> /\ Q.deps = Root /\ Q.stack = <<>> /\ Q.seen = {}
      /\ Q.at = "walk" \/ (Q.at = "done" /\ Q.failures = {"lock"})
  BY <1>2, <1>4 DEF Run
<1> HIDE DEF Q
<1>7. RunOK(Q, db, snapshot)
  BY <1>5, <1>6, StartOK
<1> QED BY <1>1, <1>5, <1>7, LocalStepKeeps DEF ReadLock

\* A package's manifest is there: its snapshot is whole.
LEMMA VisitKeeps ==
  ASSUME IInv, NEW p \in Process, Visit(p)
  PROVE  IInv'
<1>1. run[p].at = "walk" /\ run[p].deps = <<>>
  BY DEF Visit
<1>2. run[p] \in Run /\ RunOK(run[p], db, snapshot)
  BY OfProcess
<1>3. UNCHANGED <<remote, cacheVars, lock, written>>
  BY DEF Visit
<1>4. CASE run[p].stack = <<>>
  <2> DEFINE Q == [run[p] EXCEPT !.at = "compare"]
  <2>1. run' = [run EXCEPT ![p] = Q]
    BY <1>4, OfProcess, Moves DEF Visit
  <2>2. run'[p] = Q /\ run' = [run EXCEPT ![p] = run'[p]]
    BY <2>1, OfProcess, OwnEntry
  <2>3. Q \in Run
    BY <1>2 DEF Run, Walked
  <2>4. /\ Q.at = "compare" /\ Q.deps = <<>> /\ Q.stack = <<>> /\ Q.resolved = run[p].resolved
        /\ Q.seen = run[p].seen /\ Q.failures = run[p].failures
    BY <1>1, <1>2, <1>4 DEF Run
  <2> HIDE DEF Q
  <2>5. RunOK(Q, db, snapshot)
    <3>1. Placed(Q, db)
      BY <2>4 DEF Placed, Resolving
    <3>2. InCache(Q, snapshot)
      BY <1>2, <2>4 DEF RunOK, InCache
    <3>3. Walks(Q)
      BY <1>1, <1>2, <1>4, <2>4 DEF RunOK, Walks
    <3> QED BY <3>1, <3>2, <3>3 DEF RunOK
  <2> QED BY <1>3, <2>2, <2>3, <2>5, LocalStepKeeps
<1>5. CASE run[p].stack # <<>>
  <2> DEFINE package == Last(run[p].stack)
             Q == Visited(run[p], package)
  <2>1. /\ package[1] \in Source /\ package[2] \in 1..MaxCommit
        /\ snapshot[RepoOf[package[1]]][package[2]] = "whole"
        /\ Q \in Run /\ RunOK(Q, db, snapshot)
    BY <1>1, <1>2, <1>5, VisitedOK
  <2>2. run' = [run EXCEPT ![p] = Q]
    <3>1. run' = [run EXCEPT
               ![p].stack = Front(@),
               ![p].seen = @ \cup {package},
               ![p].deps = Onward(p, package),
               ![p].failures = @]
      BY <1>5, <2>1 DEF Visit
    <3>2. run' = [run EXCEPT ![p] =
            [run[p] EXCEPT !.stack = Front(@), !.seen = @ \cup {package},
                           !.deps = Onward(p, package), !.failures = @]]
      <4> HIDE DEF package
      <4> QED BY <3>1, OfProcess DEF Types
    <3>3. [run[p] EXCEPT !.stack = Front(@), !.seen = @ \cup {package},
                         !.deps = Onward(p, package), !.failures = @] = Q
      <4> HIDE DEF package
      <4> QED BY <1>2 DEF Visited, Onward, Run
    <3> QED BY <3>2, <3>3
  <2>3. run'[p] = Q /\ run' = [run EXCEPT ![p] = run'[p]]
    BY <2>2, OfProcess, OwnEntry
  <2> QED BY <1>3, <2>1, <2>3, LocalStepKeeps
<1> QED BY <1>4, <1>5

\* What is resolved again is resolved to the same commit; a pin in the cache is whole.
LEMMA ChooseKeeps ==
  ASSUME IInv, NEW p \in Process, Choose(p)
  PROVE  IInv'
<1> DEFINE pin == Pinned(p)
<1>1. run[p] \in Run /\ RunOK(run[p], db, snapshot) /\ run[p].at = "walk" /\ run[p].deps # <<>>
  BY OfProcess DEF Choose
<1>2. UNCHANGED <<remote, cacheVars, lock, written>>
  BY DEF Choose
<1>3. Now(p) \in Source /\ Its(p) \in Repo /\ run[p].pins \in Pins /\ run[p].resolved \in Pins
  BY <1>1, RunFields DEF Now, Its
<1>4. pin \in Nat /\ (pin # 0 => pin \in 1..MaxCommit)
  <2>1. CASE Now(p) \in DOMAIN run[p].pins /\ mode[p] # "update"
    <3>1. pin = run[p].pins[Now(p)]
      BY <2>1 DEF Pinned
    <3>2. run[p].pins[Now(p)] \in 1..MaxCommit
      BY <1>3, <2>1, PinsFacts
    <3> QED BY <3>1, <3>2
  <2>2. CASE ~(Now(p) \in DOMAIN run[p].pins /\ mode[p] # "update")
    <3>1. pin = 0
      BY <2>2 DEF Pinned
    <3> QED BY <3>1
  <2> QED BY <2>1, <2>2
<1> HIDE DEF pin
<1>5. CASE Now(p) \in DOMAIN run[p].resolved
  <2>1. Resolve(p, run[p].resolved[Now(p)])
    BY <1>5 DEF Choose
  <2>2. /\ run[p].resolved[Now(p)] \in 1..MaxCommit
        /\ snapshot[Its(p)][run[p].resolved[Now(p)]] = "whole"
    BY <1>1, <1>3, <1>5, PinsFacts DEF RunOK, InCache, Its
  <2> QED BY <1>1, <1>2, <2>1, <2>2, ResolveMoveKeeps
<1>6. CASE Now(p) \notin DOMAIN run[p].resolved /\ pin # 0 /\ snapshot[Its(p)][pin] # "none"
  <2>1. Resolve(p, pin)
    BY <1>6 DEF Choose, pin
  <2>2. snapshot[Its(p)][pin] = "whole"
    BY <1>3, <1>4, <1>6, OfProcess DEF SharedTypes
  <2> QED BY <1>1, <1>2, <1>4, <1>6, <2>1, <2>2, ResolveMoveKeeps
<1>7. CASE Fail(p, "offline")
  BY <1>1, <1>2, <1>7, FailMoveKeeps
<1>8. CASE /\ Now(p) \notin DOMAIN run[p].resolved
           /\ run' = [run EXCEPT ![p].at = "clone", ![p].commit = pin]
  <2> DEFINE Q == [run[p] EXCEPT !.at = "clone", !.commit = pin]
  <2>1. run' = [run EXCEPT ![p] = Q]
    BY <1>8, OfProcess DEF Types
  <2>2. Q \in Run
    BY <1>1, <1>4 DEF Run, Resolving
  <2>3. /\ Q.at = "clone" /\ Q.deps = run[p].deps
        /\ Q.resolved = run[p].resolved /\ Q.stack = run[p].stack
        /\ Q.seen = run[p].seen /\ Q.failures = run[p].failures
    BY <1>1 DEF Run
  <2> HIDE DEF Q
  <2>4. Placed(Q, db) /\ Q.at \in Resolving
    BY <1>1, <1>8, <2>3 DEF Placed, Resolving, Now
  <2> QED BY <1>2, <2>1, <2>2, <2>3, <2>4, OnMoveKeeps
<1> QED BY <1>5, <1>6, <1>7, <1>8 DEF Choose, pin

\* A clone that is there is used; another's is made apart.
LEMMA CloneKeeps ==
  ASSUME IInv, NEW p \in Process, Clone(p)
  PROVE  IInv'
<1>1. /\ run[p] \in Run /\ Placed(run[p], db) /\ run[p].at = "clone" /\ run[p].deps # <<>>
      /\ Head(run[p].deps) \notin DOMAIN run[p].resolved /\ Its(p) \in Repo
      /\ Its(p) = RepoOf[Head(run[p].deps)]
  BY OfProcess, RunFields DEF Clone, Placed, Resolving, Its, Now
<1>2. UNCHANGED <<remote, cacheVars, lock, written>>
  BY DEF Clone
<1>3. CASE db[Its(p)] # 0 /\ run' = [run EXCEPT ![p].at = "find", ![p].cloned = FALSE]
  <2> DEFINE Q == [run[p] EXCEPT !.at = "find", !.cloned = FALSE]
  <2>1. run' = [run EXCEPT ![p] = Q]
    BY <1>3, OfProcess DEF Types
  <2>2. Q \in Run
    BY <1>1 DEF Run, Resolving
  <2>3. /\ Q.at = "find" /\ Q.deps = run[p].deps
        /\ Q.resolved = run[p].resolved /\ Q.stack = run[p].stack
        /\ Q.seen = run[p].seen /\ Q.failures = run[p].failures
    BY <1>1 DEF Run
  <2> HIDE DEF Q
  <2>4. Placed(Q, db) /\ Q.at \in Resolving
    BY <1>1, <1>3, <2>3 DEF Placed, Resolving
  <2> QED BY <1>2, <2>1, <2>2, <2>3, <2>4, OnMoveKeeps
<1>4. CASE run' = [run EXCEPT ![p].at = "place", ![p].staged = remote[Its(p)]]
  <2> DEFINE n == remote[Its(p)]
             Q == [run[p] EXCEPT !.at = "place", !.staged = n]
  <2>1. run' = [run EXCEPT ![p] = Q]
    BY <1>4, OfProcess DEF Types
  <2>2. n \in 1..MaxCommit /\ n \in 0..MaxCommit
    BY <1>1, OfProcess, CommitsUpTo DEF SharedTypes
  <2> HIDE DEF n
  <2>3. Q \in Run
    BY <1>1, <2>2 DEF Run, Resolving
  <2>4. /\ Q.at = "place" /\ Q.staged = n /\ Q.deps = run[p].deps
        /\ Q.resolved = run[p].resolved /\ Q.stack = run[p].stack
        /\ Q.seen = run[p].seen /\ Q.failures = run[p].failures
    BY <1>1 DEF Run
  <2> HIDE DEF Q
  <2>5. Placed(Q, db) /\ Q.at \in Resolving
    BY <1>1, <2>2, <2>4 DEF Placed, Resolving
  <2> QED BY <1>2, <2>1, <2>3, <2>4, <2>5, OnMoveKeeps
<1>5. CASE Fail(p, "network")
  BY <1>1, <1>2, <1>5, FailMoveKeeps
<1> QED BY <1>3, <1>4, <1>5 DEF Clone

\* Of two clones the first is kept, and either process uses it.
LEMMA PlaceKeeps ==
  ASSUME IInv, NEW p \in Process, Place(p)
  PROVE  IInv'
<1> DEFINE Q == [run[p] EXCEPT !.at = "find", !.cloned = TRUE]
           n == run[p].staged
<1>1. /\ run[p] \in Run /\ InCache(run[p], snapshot) /\ Walks(run[p])
      /\ run[p].at = "place" /\ run[p].deps # <<>>
      /\ Head(run[p].deps) \notin DOMAIN run[p].resolved /\ Its(p) \in Repo
      /\ Its(p) = RepoOf[Head(run[p].deps)] /\ n \in 1..MaxCommit
  BY OfProcess, RunFields DEF Place, Placed, Resolving, Its, Now
<1>2. run' = [run EXCEPT ![p] = Q]
  BY OfProcess DEF Types, Place
<1>3. run'[p] = Q /\ run' = [run EXCEPT ![p] = run'[p]]
  BY <1>2, OfProcess, OwnEntry
<1>4. Q \in Run
  BY <1>1 DEF Run, Resolving
<1>5. /\ Q.at = "find" /\ Q.deps = run[p].deps
      /\ Q.resolved = run[p].resolved /\ Q.stack = run[p].stack
      /\ Q.seen = run[p].seen /\ Q.failures = run[p].failures
  BY <1>1 DEF Run
<1> HIDE DEF Q, n
<1>6. /\ db' \in [Repo -> 0..MaxCommit] /\ db'[Its(p)] # 0
      /\ \A r \in Repo : db[r] # 0 => db'[r] # 0
  <2>1. db' = IF db[Its(p)] = 0 THEN [db EXCEPT ![Its(p)] = n] ELSE db
    BY DEF Place, n
  <2> QED BY <1>1, <2>1, OfProcess DEF SharedTypes
<1>7. has' \in [Repo -> SUBSET (1..MaxCommit)]
  <2>1. has' = IF db[Its(p)] = 0 THEN [has EXCEPT ![Its(p)] = 1..n] ELSE has
    BY DEF Place, n
  <2>2. 1..n \in SUBSET (1..MaxCommit)
    BY <1>1, CommitsUpTo
  <2> QED BY <1>1, <2>1, <2>2, OfProcess DEF SharedTypes
<1>8. UNCHANGED <<remote, snapshot, lock, written>>
  BY DEF Place
<1>9. SharedTypes' /\ Grows
  BY <1>6, <1>7, <1>8, OfProcess DEF SharedTypes, Grows
<1>10. LockUsable'
  BY <1>8, <1>9, LockKept
<1>11. Placed(Q, db') /\ Q.at \in Resolving
  BY <1>1, <1>5, <1>6 DEF Placed, Resolving
<1>12. RunOK(Q, db', snapshot')
  BY <1>1, <1>4, <1>5, <1>8, <1>11, MovedOK
<1> QED BY <1>3, <1>4, <1>9, <1>10, <1>12, StepKeeps

\* A commit that is looked for is one there is, or the network is asked for it.
LEMMA FindKeeps ==
  ASSUME IInv, NEW p \in Process, Find(p)
  PROVE  IInv'
<1>1. /\ run[p] \in Run /\ run[p].at = "find" /\ run[p].deps # <<>>
      /\ Head(run[p].deps) \notin DOMAIN run[p].resolved /\ Its(p) \in Repo
      /\ db[RepoOf[Head(run[p].deps)]] # 0 /\ run[p].commit \in Nat
  BY OfProcess, RunFields DEF Find, Placed, Resolving, Its, Now
<1>2. UNCHANGED <<remote, cacheVars, lock, written>>
  BY DEF Find
<1>3. CASE run[p].commit \in has[Its(p)] /\ CheckOut(p, run[p].commit)
  <2>1. run[p].commit \in 1..MaxCommit
    BY <1>1, <1>3, OfProcess DEF SharedTypes
  <2> QED BY <1>1, <1>2, <1>3, <2>1, CheckOutMoveKeeps DEF Resolving
<1>4. ASSUME NEW where \in {"name", "refresh", "refetch"}, To(p, where),
             where = "refetch" => run[p].commit # 0
      PROVE  IInv'
  <2> DEFINE Q == [run[p] EXCEPT !.at = where]
  <2>1. run' = [run EXCEPT ![p] = Q]
    BY <1>4, OfProcess, Moves
  <2>2. Q \in Run
    BY <1>1 DEF Run, Resolving
  <2>3. /\ Q.at = where /\ Q.deps = run[p].deps /\ Q.commit = run[p].commit
        /\ Q.resolved = run[p].resolved /\ Q.stack = run[p].stack
        /\ Q.seen = run[p].seen /\ Q.failures = run[p].failures
    BY <1>1 DEF Run
  <2> HIDE DEF Q
  <2>4. Placed(Q, db) /\ Q.at \in Resolving
    BY <1>1, <1>4, <2>3 DEF Placed, Resolving
  <2> QED BY <1>2, <2>1, <2>2, <2>3, <2>4, OnMoveKeeps
<1> QED BY <1>3, <1>4 DEF Find

\* A refresh adds commits.
LEMMA RefreshKeeps ==
  ASSUME IInv, NEW p \in Process, Refresh(p)
  PROVE  IInv'
<1>1. /\ run[p] \in Run /\ InCache(run[p], snapshot) /\ Walks(run[p])
      /\ run[p].at = "refresh" /\ run[p].deps # <<>>
      /\ Head(run[p].deps) \notin DOMAIN run[p].resolved /\ Its(p) \in Repo
      /\ Its(p) = RepoOf[Head(run[p].deps)] /\ db[Its(p)] # 0
  BY OfProcess, RunFields DEF Refresh, Placed, Resolving, Its, Now
<1>2. UNCHANGED <<remote, db, snapshot, lock, written>>
  BY DEF Refresh
<1>3. CASE Fail(p, "network") /\ UNCHANGED has
  BY <1>1, <1>2, <1>3, FailMoveKeeps DEF cacheVars
<1>4. CASE /\ run' = [run EXCEPT ![p].at = "update", ![p].base = db[Its(p)],
                                ![p].staged = remote[Its(p)]]
           /\ has' = [has EXCEPT ![Its(p)] = @ \cup 1..remote[Its(p)]]
  <2> DEFINE n == remote[Its(p)]
             b == db[Its(p)]
             Q == [run[p] EXCEPT !.at = "update", !.base = b, !.staged = n]
  <2>1. run' = [run EXCEPT ![p] = Q]
    BY <1>4, OfProcess DEF Types
  <2>2. run'[p] = Q /\ run' = [run EXCEPT ![p] = run'[p]]
    BY <2>1, OfProcess, OwnEntry
  <2>3. n \in 1..MaxCommit /\ n \in 0..MaxCommit /\ n # 0 /\ b \in 0..MaxCommit
    <3>1. n \in 1..MaxCommit /\ b \in 0..MaxCommit
      BY <1>1, OfProcess DEF SharedTypes
    <3> QED BY <3>1, CommitsUpTo
  <2> HIDE DEF n, b
  <2>4. Q \in Run
    BY <1>1, <2>3 DEF Run, Resolving
  <2>5. /\ Q.at = "update" /\ Q.deps = run[p].deps /\ Q.staged = n
        /\ Q.resolved = run[p].resolved /\ Q.stack = run[p].stack
        /\ Q.seen = run[p].seen /\ Q.failures = run[p].failures
    BY <1>1 DEF Run
  <2> HIDE DEF Q
  <2>6. has' \in [Repo -> SUBSET (1..MaxCommit)]
    <3>1. 1..n \subseteq 1..MaxCommit
      BY <2>3, CommitsUpTo
    <3>2. has[Its(p)] \cup 1..n \in SUBSET (1..MaxCommit)
      BY <1>1, <3>1, OfProcess DEF SharedTypes
    <3> QED BY <1>1, <1>4, <3>2, OfProcess DEF SharedTypes, n
  <2>7. SharedTypes' /\ Grows
    BY <1>2, <2>6, OfProcess DEF SharedTypes, Grows
  <2>8. LockUsable'
    BY <1>2, <2>7, LockKept
  <2>9. Placed(Q, db') /\ Q.at \in Resolving
    BY <1>1, <1>2, <2>3, <2>5 DEF Placed, Resolving
  <2>10. RunOK(Q, db', snapshot')
    BY <1>1, <1>2, <2>4, <2>5, <2>9, MovedOK
  <2> QED BY <2>2, <2>4, <2>7, <2>8, <2>10, StepKeeps
<1> QED BY <1>3, <1>4 DEF Refresh

\* A branch is moved to a commit.
LEMMA UpdateKeeps ==
  ASSUME IInv, NEW p \in Process, Update(p)
  PROVE  IInv'
<1>1. /\ run[p] \in Run /\ InCache(run[p], snapshot) /\ Walks(run[p])
      /\ run[p].at = "update" /\ run[p].deps # <<>>
      /\ Head(run[p].deps) \notin DOMAIN run[p].resolved /\ Its(p) \in Repo
      /\ Its(p) = RepoOf[Head(run[p].deps)] /\ db[Its(p)] # 0
      /\ run[p].staged \in 0..MaxCommit /\ run[p].staged # 0
  BY OfProcess, RunFields DEF Update, Placed, Resolving, Its, Now
<1>2. UNCHANGED <<remote, has, snapshot, lock, written>>
  BY DEF Update
<1>3. CASE Fail(p, "locked") /\ UNCHANGED db
  BY <1>1, <1>2, <1>3, FailMoveKeeps DEF cacheVars
<1>4. CASE /\ To(p, "name")
           /\ db' = db \/ db' = [db EXCEPT ![Its(p)] = run[p].staged]
  <2> DEFINE Q == [run[p] EXCEPT !.at = "name"]
  <2>1. run' = [run EXCEPT ![p] = Q]
    BY <1>4, OfProcess, Moves
  <2>2. run'[p] = Q /\ run' = [run EXCEPT ![p] = run'[p]]
    BY <2>1, OfProcess, OwnEntry
  <2>3. Q \in Run
    BY <1>1 DEF Run, Resolving
  <2>4. /\ Q.at = "name" /\ Q.deps = run[p].deps
        /\ Q.resolved = run[p].resolved /\ Q.stack = run[p].stack
        /\ Q.seen = run[p].seen /\ Q.failures = run[p].failures
    BY <1>1 DEF Run
  <2> HIDE DEF Q
  <2>5. /\ db' \in [Repo -> 0..MaxCommit] /\ db'[Its(p)] # 0
        /\ \A r \in Repo : db[r] # 0 => db'[r] # 0
    BY <1>1, <1>4, OfProcess DEF SharedTypes
  <2>6. SharedTypes' /\ Grows
    BY <1>2, <2>5, OfProcess DEF SharedTypes, Grows
  <2>7. LockUsable'
    BY <1>2, <2>6, LockKept
  <2>8. Placed(Q, db') /\ Q.at \in Resolving
    BY <1>1, <2>4, <2>5 DEF Placed, Resolving
  <2>9. RunOK(Q, db', snapshot')
    BY <1>1, <1>2, <2>3, <2>4, <2>8, MovedOK
  <2> QED BY <2>2, <2>3, <2>6, <2>7, <2>9, StepKeeps
<1>5. \/ Fail(p, "locked") /\ UNCHANGED db
      \/ /\ To(p, "name")
         /\ db' = db \/ db' = [db EXCEPT ![Its(p)] = run[p].staged]
  BY DEF Update
<1> QED BY <1>3, <1>4, <1>5

\* A source's reference names a commit of the clone, or one to ask the network for.
LEMMA NameKeeps ==
  ASSUME IInv, NEW p \in Process, Name(p)
  PROVE  IInv'
<1> DEFINE revision == Revision[Now(p)]
<1>1. /\ run[p] \in Run /\ run[p].at = "name" /\ run[p].deps # <<>>
      /\ Head(run[p].deps) \notin DOMAIN run[p].resolved /\ Its(p) \in Repo /\ Now(p) \in Source
      /\ db[Its(p)] # 0
  BY OfProcess, RunFields DEF Name, Placed, Resolving, Its, Now
<1>2. UNCHANGED <<remote, cacheVars, lock, written>>
  BY DEF Name
<1>3. revision \in Nat
  BY <1>1, PackageFetchAssumption DEF PackageFetchAssumption
<1> HIDE DEF revision
<1>4. CASE CheckOut(p, db[Its(p)])
  <2>1. db[Its(p)] \in 1..MaxCommit
    BY <1>1, OfProcess DEF SharedTypes
  <2> QED BY <1>1, <1>2, <1>4, <2>1, CheckOutMoveKeeps DEF Resolving
<1>5. CASE revision \in has[Its(p)] /\ CheckOut(p, revision)
  <2>1. revision \in 1..MaxCommit
    BY <1>1, <1>5, OfProcess DEF SharedTypes
  <2> QED BY <1>1, <1>2, <1>5, <2>1, CheckOutMoveKeeps DEF Resolving
<1>6. CASE revision # 0 /\ run' = [run EXCEPT ![p].at = "refetch", ![p].commit = revision]
  <2> DEFINE Q == [run[p] EXCEPT !.at = "refetch", !.commit = revision]
  <2>1. run' = [run EXCEPT ![p] = Q]
    BY <1>6, OfProcess DEF Types
  <2>2. Q \in Run
    BY <1>1, <1>3 DEF Run, Resolving
  <2>3. /\ Q.at = "refetch" /\ Q.deps = run[p].deps /\ Q.commit = revision
        /\ Q.resolved = run[p].resolved /\ Q.stack = run[p].stack
        /\ Q.seen = run[p].seen /\ Q.failures = run[p].failures
    BY <1>1 DEF Run
  <2> HIDE DEF Q
  <2>4. Placed(Q, db) /\ Q.at \in Resolving
    BY <1>1, <1>6, <2>3 DEF Placed, Resolving
  <2> QED BY <1>2, <2>1, <2>2, <2>3, <2>4, OnMoveKeeps
<1> QED BY <1>4, <1>5, <1>6 DEF Name, revision

\* A commit the network has is one to check out.
LEMMA RefetchKeeps ==
  ASSUME IInv, NEW p \in Process, Refetch(p)
  PROVE  IInv'
<1> DEFINE c == run[p].commit
           Q == [run[p] EXCEPT !.at = "check_out", !.commit = c]
<1>1. /\ run[p] \in Run /\ InCache(run[p], snapshot) /\ Walks(run[p])
      /\ run[p].at = "refetch" /\ run[p].deps # <<>> /\ c \in Nat /\ c # 0
      /\ Head(run[p].deps) \notin DOMAIN run[p].resolved /\ Its(p) \in Repo
  BY OfProcess, RunFields DEF Refetch, Placed, Resolving, Its, Now
<1>2. UNCHANGED <<remote, db, snapshot, lock, written>>
  BY DEF Refetch
<1>3. ASSUME NEW why \in {"network", "absent", "locked"}, Fail(p, why), UNCHANGED has
      PROVE  IInv'
  BY <1>1, <1>2, <1>3, FailMoveKeeps DEF cacheVars
<1>4. CASE /\ c <= remote[Its(p)] /\ CheckOut(p, c)
           /\ has' = [has EXCEPT ![Its(p)] = @ \cup 1..c]
  <2>1. run' = [run EXCEPT ![p] = Q]
    BY <1>4, OfProcess, Moves
  <2>2. run'[p] = Q /\ run' = [run EXCEPT ![p] = run'[p]]
    BY <2>1, OfProcess, OwnEntry
  <2>3. Q \in Run
    BY <1>1 DEF Run, Resolving
  <2>4. /\ Q.at = "check_out" /\ Q.commit = c /\ Q.deps = run[p].deps
        /\ Q.resolved = run[p].resolved /\ Q.stack = run[p].stack
        /\ Q.seen = run[p].seen /\ Q.failures = run[p].failures
    BY <1>1 DEF Run
  <2> HIDE DEF Q, c
  <2>5. c \in 1..MaxCommit
    <3>1. remote[Its(p)] \in 1..MaxCommit
      BY <1>1, OfProcess DEF SharedTypes
    <3> QED BY <1>1, <1>4, <3>1, CommitsUpTo
  <2>6. has' \in [Repo -> SUBSET (1..MaxCommit)]
    <3>1. 1..c \subseteq 1..MaxCommit
      BY <2>5, CommitsUpTo
    <3>2. has[Its(p)] \cup 1..c \in SUBSET (1..MaxCommit)
      BY <1>1, <3>1, OfProcess DEF SharedTypes
    <3> QED BY <1>1, <1>4, <3>2, OfProcess DEF SharedTypes
  <2>7. SharedTypes' /\ Grows
    BY <1>2, <2>6, OfProcess DEF SharedTypes, Grows
  <2>8. LockUsable'
    BY <1>2, <2>7, LockKept
  <2>9. Placed(Q, db') /\ Q.at \in Resolving
    BY <1>1, <2>4, <2>5 DEF Placed, Resolving
  <2>10. RunOK(Q, db', snapshot')
    BY <1>1, <1>2, <2>3, <2>4, <2>9, MovedOK
  <2> QED BY <2>2, <2>3, <2>7, <2>8, <2>10, StepKeeps
<1> QED BY <1>3, <1>4 DEF Refetch

\* A snapshot that is there is whole: it was renamed into place.
LEMMA LookKeeps ==
  ASSUME IInv, NEW p \in Process, Look(p)
  PROVE  IInv'
<1> DEFINE c == run[p].commit
<1>1. /\ run[p] \in Run /\ run[p].at = "check_out" /\ run[p].deps # <<>> /\ c \in 1..MaxCommit
      /\ Now(p) \notin DOMAIN run[p].resolved /\ Its(p) \in Repo
      /\ Head(run[p].deps) \notin DOMAIN run[p].resolved
  BY OfProcess, RunFields DEF Look, Placed, Resolving, Its, Now
<1>2. UNCHANGED <<remote, cacheVars, lock, written>>
  BY DEF Look, Staged, cacheVars
<1>3. CASE snapshot[Its(p)][c] # "none" /\ Resolve(p, c)
  <2>1. snapshot[Its(p)][c] = "whole"
    <3> HIDE DEF c
    <3> QED BY <1>1, <1>3, OfProcess DEF SharedTypes
  <2> QED BY <1>1, <1>2, <1>3, <2>1, ResolveMoveKeeps
<1>4. CASE To(p, "rename")
  <2> DEFINE Q == [run[p] EXCEPT !.at = "rename"]
  <2>1. run' = [run EXCEPT ![p] = Q]
    BY <1>4, OfProcess, Moves
  <2>2. Q \in Run
    BY <1>1 DEF Run, Resolving
  <2>3. /\ Q.at = "rename" /\ Q.commit = c /\ Q.deps = run[p].deps
        /\ Q.resolved = run[p].resolved /\ Q.stack = run[p].stack
        /\ Q.seen = run[p].seen /\ Q.failures = run[p].failures
    BY <1>1 DEF Run
  <2> HIDE DEF Q
  <2>4. Placed(Q, db) /\ Q.at \in Resolving
    BY <1>1, <2>3 DEF Placed, Resolving
  <2> QED BY <1>2, <2>1, <2>2, <2>3, <2>4, OnMoveKeeps
<1> QED BY <1>3, <1>4 DEF Look

\* Whoever renames first, the snapshot is whole.
LEMMA RenameKeeps ==
  ASSUME IInv, NEW p \in Process, Rename(p)
  PROVE  IInv'
<1> DEFINE c == run[p].commit
           Q == Resolved(run[p], c)
<1>1. /\ run[p] \in Run /\ InCache(run[p], snapshot) /\ Walks(run[p])
      /\ run[p].deps # <<>> /\ c \in 1..MaxCommit /\ Its(p) \in Repo
      /\ Its(p) = RepoOf[Head(run[p].deps)]
      /\ Head(run[p].deps) \notin DOMAIN run[p].resolved
  BY OfProcess, RunFields DEF Rename, Placed, Resolving, Its, Now
<1>2. run'[p] = Q /\ run' = [run EXCEPT ![p] = run'[p]]
  <2>1. run' = [run EXCEPT ![p] = Q]
    BY OfProcess, Moves DEF Rename
  <2> QED BY <2>1, OfProcess, OwnEntry
<1>3. UNCHANGED <<remote, db, has, lock, written>>
  BY DEF Rename
<1>4. /\ snapshot' \in [Repo -> [1..MaxCommit -> {"none", "whole"}]]
      /\ snapshot'[Its(p)][c] = "whole"
      /\ \A r \in Repo, d \in 1..MaxCommit : snapshot[r][d] = "whole" => snapshot'[r][d] = "whole"
  <2>1. snapshot' = [snapshot EXCEPT ![Its(p)][c] = "whole"]
    BY DEF Rename
  <2> HIDE DEF c
  <2> QED BY <1>1, <2>1, OfProcess DEF SharedTypes
<1>5. SharedTypes' /\ Grows
  BY <1>3, <1>4, OfProcess DEF SharedTypes, Grows
<1>6. LockUsable'
  BY <1>3, <1>5, LockKept
<1>7. Q \in Run /\ RunOK(Q, db', snapshot')
  <2>1. InCache(run[p], snapshot')
    BY <1>5, OfProcess, RunKept DEF RunOK
  <2> QED BY <1>1, <1>4, <2>1, ResolvedOK
<1> QED BY <1>2, <1>5, <1>6, <1>7, StepKeeps

\* A walked process goes on, with the same pins, when nothing failed.
LEMMA WalkedOK ==
  ASSUME IInv, NEW p \in Process, run[p].at \in Walked, NEW where \in Walked, To(p, where),
         where \in {"truncate", "write"} => run[p].failures = {}
  PROVE  /\ run' = [run EXCEPT ![p] = run'[p]]
         /\ run'[p] \in Run /\ RunOK(run'[p], db, snapshot)
<1> DEFINE Q == [run[p] EXCEPT !.at = where]
<1>1. run[p] \in Run /\ InCache(run[p], snapshot) /\ Walks(run[p])
  BY OfProcess
<1>2. run' = [run EXCEPT ![p] = Q]
  BY OfProcess, Moves
<1>3. run'[p] = Q /\ run' = [run EXCEPT ![p] = run'[p]]
  BY <1>2, OfProcess, OwnEntry
<1>4. Q \in Run
  BY <1>1 DEF Run
<1>5. /\ Q.at = where /\ Q.deps = run[p].deps
      /\ Q.resolved = run[p].resolved /\ Q.stack = run[p].stack
      /\ Q.seen = run[p].seen /\ Q.failures = run[p].failures
  BY <1>1 DEF Run
<1> HIDE DEF Q
<1>6. Placed(Q, db)
  BY <1>5 DEF Placed, Resolving, Walked
<1>7. InCache(Q, snapshot)
  BY <1>1, <1>5 DEF InCache
<1>8. Walks(Q)
  BY <1>1, <1>5 DEF Walks
<1> QED BY <1>3, <1>4, <1>6, <1>7, <1>8 DEF RunOK

\* The lock is written only when nothing failed.
LEMMA CompareKeeps ==
  ASSUME IInv, NEW p \in Process, Compare(p)
  PROVE  IInv'
<1>1. UNCHANGED <<remote, cacheVars, lock, written>>
  BY DEF Compare
<1>2. run[p].at \in Walked
  BY DEF Compare, Walked
<1>3. CASE Writes(p)
  <2>1. To(p, "truncate") /\ run[p].failures = {}
    BY <1>3 DEF Compare, Writes
  <2>2. /\ run' = [run EXCEPT ![p] = run'[p]]
        /\ run'[p] \in Run /\ RunOK(run'[p], db, snapshot)
    BY <1>2, <2>1, WalkedOK DEF Walked
  <2> QED BY <1>1, <2>2, LocalStepKeeps
<1>4. CASE ~Writes(p)
  <2>1. To(p, "done")
    BY <1>4 DEF Compare
  <2>2. /\ run' = [run EXCEPT ![p] = run'[p]]
        /\ run'[p] \in Run /\ RunOK(run'[p], db, snapshot)
    BY <1>2, <2>1, WalkedOK DEF Walked
  <2> QED BY <1>1, <2>2, LocalStepKeeps
<1> QED BY <1>3, <1>4

\* A lock that is being written cannot be read.
LEMMA TruncateKeeps ==
  ASSUME IInv, NEW p \in Process, Truncate(p)
  PROVE  IInv'
<1>1. run[p].at \in Walked /\ run[p].failures = {} /\ To(p, "write")
  BY OfProcess DEF Truncate, Walked, Walks
<1>2. /\ run' = [run EXCEPT ![p] = run'[p]]
      /\ run'[p] \in Run /\ RunOK(run'[p], db, snapshot)
  BY <1>1, WalkedOK DEF Walked
<1>3. UNCHANGED <<remote, db, has, snapshot>> /\ lock' = Torn
  BY DEF Truncate, cacheVars
<1>4. SharedTypes' /\ Grows /\ LockUsable'
  BY <1>3, OfProcess DEF SharedTypes, Grows, LockUsable
<1> QED BY <1>2, <1>3, <1>4, StepKeeps

\* What is written is a whole closure, or cannot be read.
LEMMA WriteKeeps ==
  ASSUME IInv, NEW p \in Process, Write(p)
  PROVE  IInv'
<1> DEFINE mine == run[p].resolved
<1>1. run[p] \in Run /\ run[p].at \in Walked /\ run[p].failures = {} /\ To(p, "done")
  BY OfProcess DEF Write, Walked, Walks
<1>2. /\ run' = [run EXCEPT ![p] = run'[p]]
      /\ run'[p] \in Run /\ RunOK(run'[p], db, snapshot)
  BY <1>1, WalkedOK DEF Walked
<1>3. Closed(mine) /\ mine \in Pins
  BY <1>1, OfProcess, WalkedIsClosed, RunFields
<1>4. UNCHANGED <<remote, db, has, snapshot>> /\ lock' \in {Torn, mine}
  BY DEF Write, cacheVars
<1> HIDE DEF mine
<1>5. SharedTypes' /\ Grows
  BY <1>3, <1>4, OfProcess DEF SharedTypes, Grows
<1>6. LockUsable'
  BY <1>3, <1>4 DEF LockUsable, Closed
<1> QED BY <1>2, <1>4, <1>5, <1>6, StepKeeps

\* A process that was killed begins again.
LEMMA CrashKeeps ==
  ASSUME IInv, NEW p \in Process, Crash(p)
  PROVE  IInv'
<1>1. run'[p] = NewRun /\ run' = [run EXCEPT ![p] = run'[p]]
  BY OfProcess, OwnEntry DEF Crash
<1>2. NewRun \in Run /\ RunOK(NewRun, db, snapshot)
  <2>1. /\ NewRun.resolved = <<>> /\ NewRun.deps = Root /\ NewRun.stack = <<>>
        /\ NewRun.seen = {} /\ NewRun.at = "start"
    BY DEF NewRun
  <2> QED BY <2>1, NewRunFacts, StartOK
<1> QED BY <1>1, <1>2, LocalStepKeeps DEF Crash

\* A push adds a commit to a repository.
LEMMA PushKeeps ==
  ASSUME IInv, NEW r \in Repo, Push(r)
  PROVE  IInv'
<1>1. UNCHANGED <<db, has, snapshot, lock, run, written>>
  BY DEF Push, cacheVars
<1>2. remote' \in [Repo -> 1..MaxCommit]
  <2>1. remote[r] + 1 \in 1..MaxCommit
    BY CommitsUpTo DEF IInv, Types, Push
  <2> QED BY <2>1 DEF IInv, Types, Push
<1> QED BY <1>1, <1>2 DEF IInv, Types, LockUsable, Closed

-----------------------------------------------------------------------------
(* The theorems.                                                            *)

\* The invariant holds in every state.
THEOREM FetchInvariant == Spec => []IInv
<1>1. Init => IInv
  <2> SUFFICES ASSUME Init PROVE IInv
    OBVIOUS
  <2>1. Types
    BY CommitsUpTo, NewRunFacts, PackageFetchAssumption DEF Init, Types, PackageFetchAssumption
  <2>2. ASSUME NEW p \in Process PROVE RunOK(run[p], db, snapshot)
    <3>1. /\ NewRun.resolved = <<>> /\ NewRun.deps = Root /\ NewRun.stack = <<>>
          /\ NewRun.seen = {} /\ NewRun.at = "start" /\ run[p] = NewRun
      BY DEF NewRun, Init
    <3> QED BY <3>1, NewRunFacts, StartOK
  <2>3. LockUsable
    BY DEF Init, LockUsable
  <2> QED BY <2>1, <2>2, <2>3 DEF IInv
<1>2. IInv /\ [Next]_vars => IInv'
  <2> SUFFICES ASSUME IInv, [Next]_vars PROVE IInv'
    OBVIOUS
  <2>1. ASSUME NEW p \in Process, Step(p) PROVE IInv'
    BY <2>1, ReadLockKeeps, VisitKeeps, ChooseKeeps, CloneKeeps, PlaceKeeps, FindKeeps,
       RefreshKeeps, UpdateKeeps, NameKeeps, RefetchKeeps, LookKeeps, RenameKeeps, CompareKeeps,
       TruncateKeeps, WriteKeeps DEF Step
  <2>2. ASSUME NEW p \in Process, Crash(p) PROVE IInv'
    BY <2>2, CrashKeeps
  <2>3. ASSUME NEW r \in Repo, Push(r) PROVE IInv'
    BY <2>3, PushKeeps
  <2>4. CASE UNCHANGED vars
    BY <2>4 DEF vars, cacheVars, IInv, Types, LockUsable, Closed
  <2> QED BY <2>1, <2>2, <2>3, <2>4 DEF Next
<1> QED BY <1>1, <1>2, PTL DEF Spec

\* A process that is offline is at no place where git is called, and fails for want of
\* a commit in the cache or of a lock only.
Offline(p) ==
  mode[p] \in {"offline", "editor"} =>
    run[p].at \notin Resolving /\ run[p].failures \subseteq {"offline", "lock"}

\* A step is of one process, and what it is does not change.
LEMMA StepsAlone ==
  ASSUME Types, NEW p \in Process, Step(p)
  PROVE  /\ UNCHANGED mode
         /\ \A q \in Process : q # p => run'[q] = run[q]
<1>1. UNCHANGED mode
  BY DEF Step, ReadLock, Visit, Choose, Clone, Place, Find, Refresh, Update, Name, Refetch,
         Look, Rename, Compare, Truncate, Write
<1>2. ASSUME ReadLock(p) \/ Visit(p) \/ Choose(p) \/ Clone(p) \/ Place(p)
      PROVE  \A q \in Process : q # p => run'[q] = run[q]
  BY <1>2 DEF Types, To, Fail, Resolve, ReadLock, Visit, Choose, Clone, Place
<1>3. ASSUME Find(p) \/ Refresh(p) \/ Update(p) \/ Name(p) \/ Refetch(p)
      PROVE  \A q \in Process : q # p => run'[q] = run[q]
  BY <1>3 DEF Types, To, Fail, CheckOut, Find, Refresh, Update, Name, Refetch
<1>4. ASSUME Look(p) \/ Rename(p) \/ Compare(p) \/ Truncate(p) \/ Write(p)
      PROVE  \A q \in Process : q # p => run'[q] = run[q]
  BY <1>4 DEF Types, To, Resolve, Look, Rename, Compare, Truncate, Write
<1> QED BY <1>1, <1>2, <1>3, <1>4 DEF Step

\* Only Choose leads to where git is called, and no process that is offline.
LEMMA OfflineStep ==
  ASSUME IInv, IInv', NEW p \in Process, Offline(p), Step(p)
  PROVE  Offline(p)'
<1>1. /\ Types /\ run[p] \in Run /\ UNCHANGED mode
      /\ run'[p].failures \subseteq {"offline", "network", "absent", "lock", "locked"}
  BY OfProcess, RunFields, StepsAlone DEF IInv, Types
<1> SUFFICES ASSUME mode[p] \in {"offline", "editor"}
             PROVE  /\ run'[p].at \notin Resolving
                    /\ run'[p].failures \subseteq {"offline", "lock"}
  BY <1>1 DEF Offline
<1>2. run[p].at \notin Resolving /\ run[p].failures \subseteq {"offline", "lock"}
  BY DEF Offline
<1>3. CASE ReadLock(p)
  <2>1. \/ run'[p] = [NewRun EXCEPT !.at = "done", !.failures = {"lock"}]
        \/ run'[p] = [NewRun EXCEPT !.at = "walk", !.pins = IF lock = NoLock THEN <<>> ELSE lock]
    BY <1>1, <1>3 DEF ReadLock, Types
  <2> QED BY <2>1 DEF NewRun, Resolving
<1>4. CASE Visit(p)
  <2>1. CASE run[p].stack = <<>>
    <3>1. run'[p] = [run[p] EXCEPT !.at = "compare"]
      BY <1>1, <1>4, <2>1 DEF Visit, To, Types
    <3>2. run'[p].at = "compare" /\ run'[p].failures = run[p].failures
      BY <3>1, <1>1 DEF Run
    <3> QED BY <3>2, <1>2 DEF Resolving
  <2>2. CASE run[p].stack # <<>>
    <3> DEFINE package == Last(run[p].stack)
               there == snapshot[RepoOf[package[1]]][package[2]] = "whole"
    <3>1. run'[p] = [run[p] EXCEPT
               !.stack = Front(@),
               !.seen = @ \cup {package},
               !.deps = IF there THEN Onward(p, package) ELSE <<>>,
               !.failures = IF there THEN @ ELSE @ \cup {"manifest"}]
      BY <1>1, <1>4, <2>2 DEF Visit, Types
    <3> HIDE DEF package, there
    <3>2. /\ run'[p].at = run[p].at
          /\ run'[p].failures = IF there THEN run[p].failures
                                ELSE run[p].failures \cup {"manifest"}
      BY <3>1, <1>1 DEF Run
    <3> QED BY <3>2, <1>1, <1>2
  <2> QED BY <2>1, <2>2
<1>5. CASE Choose(p)
  <2>1. \/ Resolve(p, run[p].resolved[Now(p)]) \/ Resolve(p, Pinned(p))
        \/ Fail(p, "offline")
    BY <1>5 DEF Choose
  <2>2. \/ run' = [run EXCEPT ![p] = Resolved(run[p], run[p].resolved[Now(p)])]
        \/ run' = [run EXCEPT ![p] = Resolved(run[p], Pinned(p))]
        \/ run' = [run EXCEPT ![p] = Failed(run[p], "offline")]
    BY <1>1, <2>1, Moves
  <2>3. \/ run'[p] = Resolved(run[p], run[p].resolved[Now(p)])
        \/ run'[p] = Resolved(run[p], Pinned(p))
        \/ run'[p] = Failed(run[p], "offline")
    BY <1>1, <2>2 DEF Types
  <2>4. ASSUME NEW c
        PROVE  Resolved(run[p], c).at = "walk" /\ Resolved(run[p], c).failures = run[p].failures
    BY <1>1 DEF Resolved, Run
  <2>5. /\ Failed(run[p], "offline").at = "walk"
        /\ Failed(run[p], "offline").failures = run[p].failures \cup {"offline"}
    BY <1>1 DEF Failed, Run
  <2>6. /\ run'[p].at = "walk"
        /\ \/ run'[p].failures = run[p].failures
           \/ run'[p].failures = run[p].failures \cup {"offline"}
    BY <2>3, <2>4, <2>5
  <2> QED BY <1>2, <2>6 DEF Resolving
<1>6. CASE Compare(p) \/ Truncate(p) \/ Write(p)
  <2>1. PICK where \in {"truncate", "write", "done"} : To(p, where)
    BY <1>6 DEF Compare, Truncate, Write
  <2>2. run'[p] = [run[p] EXCEPT !.at = where]
    BY <1>1, <2>1 DEF To, Types
  <2>3. run'[p].at = where /\ run'[p].failures = run[p].failures
    BY <1>1, <2>2 DEF Run
  <2> QED BY <1>2, <2>3 DEF Resolving
<1> QED BY <1>2, <1>3, <1>4, <1>5, <1>6
     DEF Step, Clone, Place, Find, Refresh, Update, Name, Refetch, Look, Rename, Resolving

\* A process that is offline never comes to git.
LEMMA OfflineStays == Spec => [](\A p \in Process : Offline(p))
<1>1. Init => \A p \in Process : Offline(p)
  BY DEF Init, NewRun, Offline, Resolving
<1>2. IInv /\ IInv' /\ (\A p \in Process : Offline(p)) /\ [Next]_vars
      => (\A p \in Process : Offline(p))'
  <2> SUFFICES ASSUME IInv, IInv', \A p \in Process : Offline(p), [Next]_vars, NEW q \in Process
               PROVE  Offline(q)'
    OBVIOUS
  <2>1. ASSUME NEW p \in Process, Step(p) PROVE Offline(q)'
    <3>1. CASE q = p
      BY <2>1, <3>1, OfflineStep
    <3>2. CASE q # p
      <4>1. run'[q] = run[q] /\ UNCHANGED mode
        BY <2>1, <3>2, OfProcess, StepsAlone
      <4> QED BY <4>1 DEF Offline
    <3> QED BY <3>1, <3>2
  <2>2. ASSUME NEW p \in Process, Crash(p) PROVE Offline(q)'
    <3>1. UNCHANGED mode /\ run'[q] \in {run[q], NewRun}
      BY <2>2 DEF Crash, IInv, Types
    <3> QED BY <3>1 DEF Offline, NewRun, Resolving
  <2>3. CASE (\E r \in Repo : Push(r)) \/ UNCHANGED vars
    BY <2>3 DEF Push, vars, Offline
  <2> QED BY <2>1, <2>2, <2>3 DEF Next
<1> QED BY <1>1, <1>2, FetchInvariant, PTL DEF Spec

\* However many processes there are, none fails over a clone or a snapshot that another
\* makes, and one that is offline fails over nothing but the lock (place, check_out,
\* refresh).
THEOREM OnlyOverLocks == Spec => []OnlyLocksFail
<1>1. IInv /\ (\A p \in Process : Offline(p)) => OnlyLocksFail
  BY RunFields DEF IInv, Types, Offline, OnlyLocksFail
<1> QED BY <1>1, FetchInvariant, OfflineStays, PTL

\* A process that reports success has the whole closure in the cache
\* (fetch_dependencies).
THEOREM SuccessIsWhole == Spec => []ClosureWhole
<1>1. IInv => ClosureWhole
  BY OfProcess, WalkedIsClosed DEF ClosureWhole, Walked
<1> QED BY <1>1, FetchInvariant, PTL

\* A lock that the processes wrote and that can be read pins a whole closure that is in
\* the cache, however two writers met and wherever one died (fetch_dependencies).
THEOREM WrittenLockIsUsable == Spec => []LockUsable
<1>1. IInv => LockUsable
  BY DEF IInv
<1> QED BY <1>1, FetchInvariant, PTL
=============================================================================
