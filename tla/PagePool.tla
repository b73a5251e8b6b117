------------------------------ MODULE PagePool ------------------------------
(***************************************************************************)
(* The pool of cache pages of linnet.serve (class _Pages): the free pages,  *)
(* how many rows use each page, the pages kept by the digest of what they   *)
(* hold, and the kept pages nobody uses, oldest first.                      *)
(*                                                                         *)
(* Every operation of the class is an action on the five variables; a      *)
(* module that owns a pool EXTENDS this one and conjoins them.  A digest   *)
(* is any value: equal digests mean equal starts (hash collisions of       *)
(* blake2b are not modelled).                                              *)
(***************************************************************************)
EXTENDS Lines, FiniteSets

CONSTANT NPages      \* pages of the pool, the first taking writes nobody reads

ASSUME NPagesAssumption == NPages \in Nat \ {0, 1}

VARIABLES
  free,              \* the free list, taken from its end
  refs,              \* how many rows use each page
  pageOf,            \* digest -> the page kept by it
  digestOf,          \* page -> the digest it is kept by
  idle               \* the kept pages no row uses, oldest first

poolVars == <<free, refs, pageOf, digestOf, idle>>

Page == 0..(NPages - 1)

\* Page 0 takes the writes nobody reads; it is never handed out.
SinkPage == 0

PoolInit ==
  /\ free = [i \in 1..(NPages - 1) |-> NPages - i]
  /\ refs = [p \in Page |-> 0]
  /\ pageOf = <<>>
  /\ digestOf = <<>>
  /\ idle = <<>>

available == Len(free) + Len(idle)

-----------------------------------------------------------------------------
(* take: a free page while there is one, else the idle page kept longest,   *)
(* whose digest is forgotten.                                              *)

TakeFree(p) ==
  /\ free # <<>>
  /\ p = Last(free)
  /\ free' = Front(free)
  /\ refs' = [refs EXCEPT ![p] = 1]
  /\ UNCHANGED <<pageOf, digestOf, idle>>

TakeIdle(p) ==
  /\ free = <<>>
  /\ idle # <<>>
  /\ p = Head(idle)
  /\ idle' = Tail(idle)
  /\ pageOf' = Restrict(pageOf, DOMAIN pageOf \ {digestOf[p]})
  /\ digestOf' = Restrict(digestOf, DOMAIN digestOf \ {p})
  /\ refs' = [refs EXCEPT ![p] = 1]
  /\ UNCHANGED free

Take(p) == TakeFree(p) \/ TakeIdle(p)

-----------------------------------------------------------------------------
\* One more row uses a kept page.
ShareFirst(p) ==
  /\ refs[p] = 0
  /\ idle' = Without(idle, p)

\* mutant: the page has one user
ShareAsOne(p) ==
  /\ \/ ShareFirst(p)
     \/ refs[p] > 0 /\ UNCHANGED idle
  /\ refs' = [refs EXCEPT ![p] = 1]
  /\ UNCHANGED <<free, pageOf, digestOf>>

Share(p) ==
  /\ \/ ShareFirst(p)
     \/ refs[p] > 0 /\ UNCHANGED idle
  /\ refs' = [refs EXCEPT ![p] = @ + 1]
  /\ UNCHANGED <<free, pageOf, digestOf>>

-----------------------------------------------------------------------------
(* give_back, one page: a page whose last user left goes idle if it is kept *)
(* by a digest, else free.                                                 *)

GiveBackUsed(p) ==
  /\ refs[p] > 1
  /\ UNCHANGED <<free, idle>>

GiveBackKept(p) ==
  /\ refs[p] <= 1
  /\ p \in DOMAIN digestOf
  /\ idle' = Append(idle, p)
  /\ UNCHANGED free

GiveBackPlain(p) ==
  /\ refs[p] <= 1
  /\ p \notin DOMAIN digestOf
  /\ free' = Append(free, p)
  /\ UNCHANGED idle

GiveBack(p) ==
  /\ GiveBackUsed(p) \/ GiveBackKept(p) \/ GiveBackPlain(p)
  /\ refs' = [refs EXCEPT ![p] = @ - 1]
  /\ UNCHANGED <<pageOf, digestOf>>

-----------------------------------------------------------------------------
\* The pages that hold the longest start of the digests ds.
CachedLength(ds) ==
  CHOOSE n \in 0..Len(ds) :
    /\ \A i \in 1..n : ds[i] \in DOMAIN pageOf
    /\ n < Len(ds) => ds[n + 1] \notin DOMAIN pageOf

Cached(ds) == [i \in 1..CachedLength(ds) |-> pageOf[ds[i]]]

\* keep over zip(ps, ds), whose pages and digests are distinct: each page is
\* kept by its digest unless the digest has a page or the page a digest.
NewlyKeptTwice(ps, ds) ==       \* mutant: a digest may have two pages
  {i \in DOMAIN ps : ps[i] \notin DOMAIN digestOf}
NewlyKept(ps, ds) ==
  {i \in DOMAIN ps : ds[i] \notin DOMAIN pageOf /\ ps[i] \notin DOMAIN digestOf}

Keep(ps, ds) ==
  LET new  == NewlyKept(ps, ds)
      at(p) == CHOOSE i \in new : ps[i] = p
      of(d) == CHOOSE i \in new : ds[i] = d
  IN  /\ digestOf' = [p \in DOMAIN digestOf \cup {ps[i] : i \in new} |->
                        IF p \in DOMAIN digestOf THEN digestOf[p] ELSE ds[at(p)]]
      /\ pageOf' = [d \in DOMAIN pageOf \cup {ds[i] : i \in new} |->
                      IF d \in DOMAIN pageOf THEN pageOf[d] ELSE ps[of(d)]]
      /\ UNCHANGED <<free, refs, idle>>

ForgetPages ==       \* mutant: the idle pages are dropped too
  /\ idle' = <<>>
  /\ pageOf' = <<>>
  /\ digestOf' = <<>>
  /\ UNCHANGED <<free, refs>>

\* Every digest is dropped: what the pages hold is stale.
Forget ==
  /\ free' = free \o idle
  /\ idle' = <<>>
  /\ pageOf' = <<>>
  /\ digestOf' = <<>>
  /\ UNCHANGED refs

-----------------------------------------------------------------------------
PoolTypeOK ==
  /\ free \in Seq(Page \ {SinkPage})
  /\ idle \in Seq(Page \ {SinkPage})
  /\ refs \in [Page -> Nat]
  /\ IsInjective(free)
  /\ IsInjective(idle)
  /\ DOMAIN digestOf \subseteq Page \ {SinkPage}
  /\ digestOf = [p \in DOMAIN digestOf |-> digestOf[p]]
  /\ pageOf = [d \in DOMAIN pageOf |-> pageOf[d]]

\* The two indexes of the kept pages are inverse to each other.
IndexesAgree ==
  /\ \A p \in DOMAIN digestOf :
       digestOf[p] \in DOMAIN pageOf /\ pageOf[digestOf[p]] = p
  /\ \A d \in DOMAIN pageOf :
       pageOf[d] \in DOMAIN digestOf /\ digestOf[pageOf[d]] = d

\* A page no row uses is in exactly one of the two lists, the idle list if it
\* is kept by a digest; a page a row uses is in neither.
ListsPartition ==
  /\ Range(free) = {p \in Page \ {SinkPage} : refs[p] = 0 /\ p \notin DOMAIN digestOf}
  /\ Range(idle) = {p \in DOMAIN digestOf : refs[p] = 0}
  /\ refs[SinkPage] = 0

PoolConsistent == IndexesAgree /\ ListsPartition
=============================================================================
