---------------------------- MODULE PackageFetch ----------------------------
(***************************************************************************)
(* linnet::fetch_dependencies: processes of one project resolve its git     *)
(* dependencies at the same time.  They share the project's linnet.lock and *)
(* the cache under $LINNET_HOME/git: for each repository a bare clone and   *)
(* the snapshots of its commits.  Nothing locks either, but git the         *)
(* references it updates; a clone and a snapshot are made apart and renamed *)
(* into place, the lock is written in place.  Remote repositories move on   *)
(* meanwhile, the network may fail, and a process may be killed and run     *)
(* again.                                                                  *)
(***************************************************************************)
EXTENDS Integers, Sequences, SequencesExt

CONSTANTS
  Process,
  Modes,          \* what a process may be: "build", "update", "offline", "editor"
  Source,         \* git dependencies: a repository and a reference
  Repo, RepoOf,   \* the repositories, and a source's
  Revision,       \* a source's reference: a commit, or 0 for a branch
  Root,           \* the dependencies of the project's manifest, in order
  Deps,           \* source -> commit -> the dependencies of its manifest
  MaxCommit,      \* bounds the pushes: a repository's commits are 1..MaxCommit
  MaxCrashes,     \* bounds the crashes
  Locks,          \* what linnet.lock may hold at first: a function of pins, or
  NoLock, Torn    \* no file, or part of one's text

\* Pins of some sources.
Pins == UNION {[S -> 1..MaxCommit] : S \in SUBSET Source}

ASSUME PackageFetchAssumption ==
  /\ Modes \subseteq {"build", "update", "offline", "editor"}
  /\ RepoOf \in [Source -> Repo] /\ Revision \in [Source -> Nat]
  /\ MaxCommit \in Nat \ {0} /\ MaxCrashes \in Nat
  /\ Root \in Seq(Source)
  /\ \A s \in Source : Deps[s] \in [1..MaxCommit -> Seq(Source)]
  /\ Locks \subseteq Pins \cup {NoLock, Torn}

VARIABLES
  remote,         \* a repository's newest commit
  db,             \* its clone in the cache: 0 for none, else where its branch is
  has,            \* the commits in the clone
  snapshot,       \* by repository and commit: "none", "half" or "whole"
  lock,           \* linnet.lock
  mode,           \* of a process
  run,            \* a process's Fetched, Fetcher and place in the walk
  crashes,
  written         \* history: whether a process has written the lock

cacheVars == <<db, has, snapshot>>
vars == <<remote, cacheVars, lock, mode, run, crashes, written>>

\* A process before it starts; `at` is where it is in the code.
NewRun ==
  [at |-> "start", pins |-> <<>>, deps |-> Root, stack |-> <<>>, seen |-> {},
   resolved |-> <<>>, failures |-> {}, commit |-> 0, cloned |-> FALSE, staged |-> 0, base |-> 0]

Now(p) == Head(run[p].deps)     \* the dependency being resolved
Its(p) == RepoOf[Now(p)]

-----------------------------------------------------------------------------
(* Moves of one process in the walk.                                        *)

To(p, where) == run' = [run EXCEPT ![p].at = where]

\* The dependency failed; the walk goes on to the next.
Fail(p, why) ==
  run' = [run EXCEPT ![p].at = "walk", ![p].deps = Tail(@),
                     ![p].failures = @ \cup {why}]

\* Pins, and one more.
With(pins, s, c) == [x \in DOMAIN pins \cup {s} |-> IF x = s THEN c ELSE pins[x]]

\* Fetcher.resolve returned commit c: the package there is walked later.
Resolve(p, c) ==
  run' = [run EXCEPT ![p].at = "walk", ![p].deps = Tail(@),
                     ![p].resolved = With(@, Now(p), c),
                     ![p].stack = Append(@, <<Now(p), c>>)]

\* A commit is known; its snapshot is still to be made.
CheckOut(p, c) == run' = [run EXCEPT ![p].at = "check_out", ![p].commit = c]

-----------------------------------------------------------------------------
(* fetch_dependencies: the lock is read, then the packages are walked.      *)

ReadLock(p) ==
  /\ run[p].at = "start"
  /\ run' = [run EXCEPT ![p] =
       IF lock = Torn
       THEN [NewRun EXCEPT !.at = "done", !.failures = {"lock"}]
       ELSE [NewRun EXCEPT !.at = "walk", !.pins = IF lock = NoLock THEN <<>> ELSE lock]]
  /\ UNCHANGED <<remote, cacheVars, lock, mode, crashes, written>>

\* The dependencies to go on to from a package; none when it was visited.
OnwardNever(p, package) == <<>>
OnwardAgain(p, package) == Deps[package[1]][package[2]]
Onward(p, package) ==
  IF package \in run[p].seen THEN <<>> ELSE Deps[package[1]][package[2]]

\* The next directory of the walk: its manifest is read from the snapshot.
Visit(p) ==
  /\ run[p].at = "walk" /\ run[p].deps = <<>>
  /\ IF run[p].stack = <<>>
     THEN To(p, "compare")
     ELSE LET package == Last(run[p].stack)
              there == snapshot[RepoOf[package[1]]][package[2]] = "whole"
          IN run' = [run EXCEPT
               ![p].stack = Front(@),
               ![p].seen = @ \cup {package},
               ![p].deps = IF there THEN Onward(p, package) ELSE <<>>,
               ![p].failures = IF there THEN @ ELSE @ \cup {"manifest"}]
  /\ UNCHANGED <<remote, cacheVars, lock, mode, crashes, written>>

\* The lock's pin, unless the process updates.
Pinned(p) ==
  IF Now(p) \in DOMAIN run[p].pins /\ mode[p] # "update" THEN run[p].pins[Now(p)] ELSE 0

\* Fetcher.resolve, up to the first use of the network.
Choose(p) ==
  /\ run[p].at = "walk" /\ run[p].deps # <<>>
  /\ LET pin == Pinned(p)
         cached == pin # 0 /\ snapshot[Its(p)][pin] # "none"
     IN IF Now(p) \in DOMAIN run[p].resolved THEN Resolve(p, run[p].resolved[Now(p)])
        ELSE IF cached THEN Resolve(p, pin)
        ELSE IF mode[p] \in {"offline", "editor"} THEN Fail(p, "offline")
        ELSE run' = [run EXCEPT ![p].at = "clone", ![p].commit = pin]
  /\ UNCHANGED <<remote, cacheVars, lock, mode, crashes, written>>

-----------------------------------------------------------------------------
(* clone and refresh, by git.                                               *)

Clone(p) ==
  /\ run[p].at = "clone"
  /\ IF db[Its(p)] # 0
     THEN run' = [run EXCEPT ![p].at = "find", ![p].cloned = FALSE]
     ELSE \/ run' = [run EXCEPT ![p].at = "place", ![p].staged = remote[Its(p)]]
          \/ Fail(p, "network")
  /\ UNCHANGED <<remote, cacheVars, lock, mode, crashes, written>>

\* The rename: whoever comes second drops its own clone and uses the first's.
Place(p) ==
  /\ run[p].at = "place"
  /\ LET first == db[Its(p)] = 0
     IN /\ db' = IF first THEN [db EXCEPT ![Its(p)] = run[p].staged] ELSE db
        /\ has' = IF first THEN [has EXCEPT ![Its(p)] = 1..run[p].staged] ELSE has
  /\ run' = [run EXCEPT ![p].at = "find", ![p].cloned = TRUE]
  /\ UNCHANGED <<remote, snapshot, lock, mode, crashes, written>>

\* What there is to look for: a pin, in the clone or at the remote; or the
\* source's reference, after a refresh of a clone that was there before.
Find(p) ==
  /\ run[p].at = "find"
  /\ IF run[p].commit = 0
     THEN To(p, IF run[p].cloned THEN "name" ELSE "refresh")
     ELSE IF run[p].commit \in has[Its(p)] THEN CheckOut(p, run[p].commit)
     ELSE To(p, "refetch")
  /\ UNCHANGED <<remote, cacheVars, lock, mode, crashes, written>>

\* `git fetch` of every branch: where the branch is, and what the remote has.
Refresh(p) ==
  /\ run[p].at = "refresh"
  /\ \/ /\ run' = [run EXCEPT ![p].at = "update", ![p].base = db[Its(p)],
                              ![p].staged = remote[Its(p)]]
        /\ has' = [has EXCEPT ![Its(p)] = @ \cup 1..remote[Its(p)]]
     \/ Fail(p, "network") /\ UNCHANGED has
  /\ UNCHANGED <<remote, db, snapshot, lock, mode, crashes, written>>

\* The processes that hold, or are about to take, git's locks on a clone's references.
Updating(repo) ==
  {q \in Process : run[q].at \in {"update", "refetch"} /\ RepoOf[Now(q)] = repo}

\* Git then moves the branch, under a lock, from where it was: the fetch fails when
\* another process holds the lock or has moved the branch since.
Update(p) ==
  /\ run[p].at = "update"
  /\ LET moved == run[p].staged # run[p].base
         alone == db[Its(p)] = run[p].base
     IN \/ /\ moved => alone
           /\ db' = IF moved THEN [db EXCEPT ![Its(p)] = run[p].staged] ELSE db
           /\ To(p, "name")
        \/ /\ moved /\ (~alone \/ Updating(Its(p)) # {p})
           /\ Fail(p, "locked") /\ UNCHANGED db
  /\ UNCHANGED <<remote, has, snapshot, lock, mode, crashes, written>>

\* commit_of(revision_of(source))
Name(p) ==
  /\ run[p].at = "name"
  /\ LET revision == Revision[Now(p)]
     IN IF revision = 0 THEN CheckOut(p, db[Its(p)])
        ELSE IF revision \in has[Its(p)] THEN CheckOut(p, revision)
        ELSE run' = [run EXCEPT ![p].at = "refetch", ![p].commit = revision]
  /\ UNCHANGED <<remote, cacheVars, lock, mode, crashes, written>>

\* `git fetch` of one commit.  New tags come with it, and those are locked too.
Refetch(p) ==
  /\ run[p].at = "refetch"
  /\ \/ /\ run[p].commit <= remote[Its(p)]
        /\ CheckOut(p, run[p].commit)
        /\ has' = [has EXCEPT ![Its(p)] = @ \cup 1..run[p].commit]
     \/ /\ Fail(p, IF run[p].commit <= remote[Its(p)] THEN "network" ELSE "absent")
        /\ UNCHANGED has
     \/ Updating(Its(p)) # {p} /\ Fail(p, "locked") /\ UNCHANGED has
  /\ UNCHANGED <<remote, db, snapshot, lock, mode, crashes, written>>

-----------------------------------------------------------------------------
(* check_out: git writes the files to a staging directory, renamed after.   *)

\* The snapshots while git writes the files.
StagedInPlace(p) == [snapshot EXCEPT ![Its(p)][run[p].commit] = "half"]
Staged(p) == snapshot

Look(p) ==
  /\ run[p].at = "check_out"
  /\ IF snapshot[Its(p)][run[p].commit] # "none"
     THEN Resolve(p, run[p].commit) /\ UNCHANGED snapshot
     ELSE To(p, "rename") /\ snapshot' = Staged(p)
  /\ UNCHANGED <<remote, db, has, lock, mode, crashes, written>>

\* One that finds the snapshot made by another fails, and that will do.
Rename(p) ==
  /\ run[p].at = "rename"
  /\ Resolve(p, run[p].commit)
  /\ snapshot' = [snapshot EXCEPT ![Its(p)][run[p].commit] = "whole"]
  /\ UNCHANGED <<remote, db, has, lock, mode, crashes, written>>

-----------------------------------------------------------------------------
(* The lock is written when every dependency resolved and the text differs. *)

Differs(p) == lock # run[p].resolved /\ (lock # NoLock \/ run[p].resolved # <<>>)
WritesAnyway(p) == mode[p] # "editor" /\ Differs(p)
Writes(p) == mode[p] # "editor" /\ run[p].failures = {} /\ Differs(p)

Compare(p) ==
  /\ run[p].at = "compare"
  /\ To(p, IF Writes(p) THEN "truncate" ELSE "done")
  /\ UNCHANGED <<remote, cacheVars, lock, mode, crashes, written>>

Truncate(p) ==
  /\ run[p].at = "truncate"
  /\ To(p, "write")
  /\ lock' = Torn
  /\ UNCHANGED <<remote, cacheVars, mode, crashes, written>>

\* Another may have written since: its text's end stays when it is longer.
Write(p) ==
  /\ run[p].at = "write"
  /\ To(p, "done")
  /\ LET mine == run[p].resolved
         longer == lock \notin {Torn, NoLock} /\ ~(DOMAIN lock \subseteq DOMAIN mine)
     IN lock' = IF longer THEN Torn ELSE mine
  /\ written' = TRUE
  /\ UNCHANGED <<remote, cacheVars, mode, crashes>>

-----------------------------------------------------------------------------
(* What happens to the processes.                                           *)

Push(r) ==
  /\ remote[r] < MaxCommit
  /\ remote' = [remote EXCEPT ![r] = @ + 1]
  /\ UNCHANGED <<cacheVars, lock, mode, run, crashes, written>>

\* A killed process leaves its staging directories, which nobody reads.
Crash(p) ==
  /\ run[p].at \notin {"start", "done"}
  /\ crashes < MaxCrashes
  /\ crashes' = crashes + 1
  /\ run' = [run EXCEPT ![p] = NewRun]
  /\ UNCHANGED <<remote, cacheVars, lock, mode, written>>

Step(p) ==
  \/ ReadLock(p) \/ Visit(p) \/ Choose(p)
  \/ Clone(p) \/ Place(p) \/ Find(p) \/ Refresh(p) \/ Update(p) \/ Name(p) \/ Refetch(p)
  \/ Look(p) \/ Rename(p)
  \/ Compare(p) \/ Truncate(p) \/ Write(p)

Init ==
  /\ remote = [r \in Repo |-> 1]
  /\ db = [r \in Repo |-> 0]
  /\ has = [r \in Repo |-> {}]
  /\ snapshot = [r \in Repo |-> [c \in 1..MaxCommit |-> "none"]]
  /\ lock \in Locks
  /\ mode \in [Process -> Modes]
  /\ run = [p \in Process |-> NewRun]
  /\ crashes = 0
  /\ written = FALSE

Next ==
  \/ \E p \in Process : Step(p) \/ Crash(p)
  \/ \E r \in Repo : Push(r)

\* A process that runs goes on; git's own calls return.
Spec == Init /\ [][Next]_vars /\ \A p \in Process : WF_vars(Step(p))

-----------------------------------------------------------------------------
(* Properties.                                                              *)

\* Pins reach every package of the closure, each in the cache whole.
Closed(pins) ==
  LET deps(s) == Range(Deps[s][pins[s]])
  IN /\ Range(Root) \subseteq DOMAIN pins
     /\ \A s \in DOMAIN pins : /\ snapshot[RepoOf[s]][pins[s]] = "whole"
                               /\ deps(s) \subseteq DOMAIN pins

\* A process that reports success has every package of the closure at the
\* commits it resolved, none of them half written, whoever made them.
ClosureWhole ==
  \A p \in Process :
    run[p].at = "done" /\ run[p].failures = {} => Closed(run[p].resolved)

\* A lock the processes wrote and that can be read is one an offline build can
\* use: it pins a whole closure whose snapshots are there, however two writers
\* met and wherever a process died.
LockUsable == written /\ lock \notin {Torn, NoLock} => Closed(lock)

\* Of what the processes share, only linnet.lock and the references of a clone make
\* one fail for another's sake: reading the lock while another writes it, or has died
\* in writing it ("lock"), and `git fetch` in a clone another fetches in ("locked").
\* The races for a clone and for a snapshot fail nobody, and a process that is offline
\* never comes to git.
OnlyLocksFail ==
  \A p \in Process :
    /\ run[p].failures \subseteq {"offline", "network", "absent", "lock", "locked"}
    /\ mode[p] \in {"offline", "editor"} => run[p].failures \subseteq {"offline", "lock"}

\* Every process ends, packages that depend on each other included.
EveryFetchEnds == <>(\A p \in Process : run[p].at = "done")
=============================================================================
