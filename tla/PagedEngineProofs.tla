-------------------------- MODULE PagedEngineProofs --------------------------
(***************************************************************************)
(* The inductive invariant of PagedEngine holds of every behaviour, and so  *)
(* do the properties of the pages that follow from it.  With where the      *)
(* draws not read stand, every step is one of Batching or none, and         *)
(* requests are served in their order.                                      *)
(***************************************************************************)
EXTENDS PagedEngine, LinesProofs

-----------------------------------------------------------------------------
(* Every operation of the pool keeps it consistent: the two indexes agree,   *)
(* and each page no row uses is in exactly one of the two lists.            *)

\* The pages a row may use.
Usable == Page \ {SinkPage}

PoolOK == PoolTypeOK /\ PoolConsistent

\* The lists of the pool in terms of lines.
LEMMA PoolLines ==
  PoolTypeOK <=> /\ free \in Seq(Usable) /\ Once(free)
                 /\ idle \in Seq(Usable) /\ Once(idle)
                 /\ refs \in [Page -> Nat]
                 /\ DOMAIN digestOf \subseteq Usable
                 /\ digestOf = [p \in DOMAIN digestOf |-> digestOf[p]]
                 /\ pageOf = [d \in DOMAIN pageOf |-> pageOf[d]]
BY DEF PoolTypeOK, Usable, Once

\* The pool a new engine has: every page is free.
LEMMA PoolStart == PoolInit => PoolOK
<1> SUFFICES ASSUME PoolInit PROVE PoolOK
  OBVIOUS
<1>1. NPages \in Nat /\ NPages > 1
  BY NPagesAssumption
<1>2. Usable = 1..(NPages - 1) /\ Page = 0..(NPages - 1) /\ SinkPage \notin Usable
  BY <1>1 DEF Usable, Page, SinkPage
<1>3. /\ free \in Seq(Usable) /\ Len(free) = NPages - 1
      /\ \A i \in 1..(NPages - 1) : free[i] = NPages - i
  BY <1>1, <1>2 DEF PoolInit
<1>4. Range(free) = Usable
  <2>1. ASSUME NEW p \in Usable PROVE p \in Range(free)
    <3>1. NPages - p \in 1..(NPages - 1) /\ NPages - (NPages - p) = p
      BY <1>1, <1>2
    <3> QED BY <3>1, <1>3, RangeOfLine
  <2> QED BY <2>1, <1>3, RangeOfLine
<1>5. Once(free)
  BY <1>1, <1>3, OnceOfLine
<1>6. idle \in Seq(Usable) /\ Range(idle) = {} /\ Once(idle)
  BY EmptyLine DEF PoolInit
<1>7. refs \in [Page -> Nat] /\ \A p \in Page : refs[p] = 0
  BY DEF PoolInit
<1>8. /\ DOMAIN digestOf = {} /\ DOMAIN pageOf = {}
      /\ digestOf = [p \in DOMAIN digestOf |-> digestOf[p]]
      /\ pageOf = [d \in DOMAIN pageOf |-> pageOf[d]]
  BY DEF PoolInit
<1>9. PoolTypeOK
  BY <1>3, <1>5, <1>6, <1>7, <1>8, PoolLines
<1>10. PoolConsistent
  BY <1>1, <1>2, <1>4, <1>6, <1>7, <1>8 DEF PoolConsistent, IndexesAgree, ListsPartition, Usable
<1> QED BY <1>9, <1>10 DEF PoolOK

\* A page taken was used by no row and is not the sink.
LEMMA TakePool ==
  ASSUME PoolOK, NEW p, Take(p)
  PROVE  /\ PoolOK'
         /\ p \in Usable /\ refs[p] = 0 /\ refs' = [refs EXCEPT ![p] = 1]
<1>1. /\ free \in Seq(Usable) /\ Once(free) /\ idle \in Seq(Usable) /\ Once(idle)
      /\ refs \in [Page -> Nat] /\ DOMAIN digestOf \subseteq Usable
      /\ digestOf = [q \in DOMAIN digestOf |-> digestOf[q]]
      /\ pageOf = [d \in DOMAIN pageOf |-> pageOf[d]]
  BY PoolLines DEF PoolOK
<1>2. IndexesAgree /\ ListsPartition
  BY DEF PoolOK, PoolConsistent
<1>3. CASE TakeFree(p)
  <2>1. /\ free' \in Seq(Usable) /\ Once(free') /\ p \in Range(free)
        /\ Range(free') = Range(free) \ {p}
    BY <1>1, <1>3, FrontOnce DEF TakeFree
  <2>2. p \in Usable /\ refs[p] = 0 /\ p \notin DOMAIN digestOf
    BY <2>1, <1>2 DEF ListsPartition, Usable
  <2>3. /\ refs' = [refs EXCEPT ![p] = 1] /\ refs' \in [Page -> Nat]
        /\ UNCHANGED <<pageOf, digestOf, idle>>
    BY <1>1, <1>3 DEF TakeFree
  <2>4. PoolTypeOK'
    BY <2>1, <2>3, <1>1 DEF PoolTypeOK, Usable, Once
  <2>5. IndexesAgree'
    BY <2>3, <1>2 DEF IndexesAgree
  <2>6. ListsPartition'
    BY <2>1, <2>2, <2>3, <1>1, <1>2 DEF ListsPartition, Usable
  <2> QED BY <2>2, <2>3, <2>4, <2>5, <2>6 DEF PoolOK, PoolConsistent
<1>4. CASE TakeIdle(p)
  <2>1. /\ idle' \in Seq(Usable) /\ Once(idle') /\ p \in Range(idle)
        /\ Range(idle') = Range(idle) \ {p}
    BY <1>1, <1>4, TailOnce DEF TakeIdle
  <2>2. p \in Usable /\ refs[p] = 0 /\ p \in DOMAIN digestOf
    BY <2>1, <1>1, <1>2 DEF ListsPartition
  <2>3. /\ refs' = [refs EXCEPT ![p] = 1] /\ refs' \in [Page -> Nat] /\ UNCHANGED free
        /\ DOMAIN digestOf' = DOMAIN digestOf \ {p}
        /\ DOMAIN pageOf' = DOMAIN pageOf \ {digestOf[p]}
        /\ \A q \in DOMAIN digestOf' : digestOf'[q] = digestOf[q]
        /\ \A d \in DOMAIN pageOf' : pageOf'[d] = pageOf[d]
        /\ digestOf' = [q \in DOMAIN digestOf' |-> digestOf'[q]]
        /\ pageOf' = [d \in DOMAIN pageOf' |-> pageOf'[d]]
    BY <1>1, <1>4 DEF TakeIdle, Restrict
  <2>4. PoolTypeOK'
    BY <2>1, <2>3, <1>1 DEF PoolTypeOK, Usable, Once
  <2>5. IndexesAgree'
    BY <2>2, <2>3, <1>2 DEF IndexesAgree
  <2>6. ListsPartition'
    BY <2>1, <2>2, <2>3, <1>1, <1>2 DEF ListsPartition, Usable
  <2> QED BY <2>2, <2>3, <2>4, <2>5, <2>6 DEF PoolOK, PoolConsistent
<1> QED BY <1>3, <1>4 DEF Take

\* A kept page may be shared.
LEMMA SharePool ==
  ASSUME PoolOK, NEW p \in DOMAIN digestOf, Share(p)
  PROVE  PoolOK' /\ p \in Usable /\ refs' = [refs EXCEPT ![p] = @ + 1]
<1>1. /\ free \in Seq(Usable) /\ Once(free) /\ idle \in Seq(Usable) /\ Once(idle)
      /\ refs \in [Page -> Nat] /\ DOMAIN digestOf \subseteq Usable
      /\ digestOf = [q \in DOMAIN digestOf |-> digestOf[q]]
      /\ pageOf = [d \in DOMAIN pageOf |-> pageOf[d]]
  BY PoolLines DEF PoolOK
<1>2. IndexesAgree /\ ListsPartition
  BY DEF PoolOK, PoolConsistent
<1>3. /\ p \in Usable /\ refs' = [refs EXCEPT ![p] = @ + 1] /\ refs' \in [Page -> Nat]
      /\ UNCHANGED <<free, pageOf, digestOf>>
  BY <1>1 DEF Share, Usable
<1>4. idle' \in Seq(Usable) /\ Once(idle') /\ Range(idle') = Range(idle) \ {p}
  <2>1. CASE ShareFirst(p)
    BY <2>1, <1>1, WithoutOnce DEF ShareFirst
  <2>2. CASE refs[p] > 0 /\ UNCHANGED idle
    <3>1. p \notin Range(idle)
      BY <2>2, <1>2 DEF ListsPartition
    <3> QED BY <3>1, <2>2, <1>1
  <2> QED BY <2>1, <2>2 DEF Share
<1>5. PoolTypeOK'
  BY <1>1, <1>3, <1>4 DEF PoolTypeOK, Usable, Once
<1>6. IndexesAgree'
  BY <1>2, <1>3 DEF IndexesAgree
<1>7. ListsPartition'
  <2>1. \A q \in Page : refs'[q] = 0 <=> refs[q] = 0 /\ q # p
    BY <1>1, <1>3
  <2>2. Page \ {SinkPage} \subseteq Page /\ SinkPage \in Page /\ SinkPage # p
    BY <1>3, NPagesAssumption DEF Usable, Page, SinkPage
  <2> QED BY <2>1, <2>2, <1>1, <1>2, <1>3, <1>4 DEF ListsPartition, Usable
<1> QED BY <1>3, <1>5, <1>6, <1>7 DEF PoolOK, PoolConsistent

\* A page in use may be given back.
LEMMA GiveBackPool ==
  ASSUME PoolOK, NEW p \in Usable, refs[p] > 0, GiveBack(p)
  PROVE  PoolOK' /\ refs' = [refs EXCEPT ![p] = @ - 1]
<1>1. /\ free \in Seq(Usable) /\ Once(free) /\ idle \in Seq(Usable) /\ Once(idle)
      /\ refs \in [Page -> Nat] /\ DOMAIN digestOf \subseteq Usable
      /\ digestOf = [q \in DOMAIN digestOf |-> digestOf[q]]
      /\ pageOf = [d \in DOMAIN pageOf |-> pageOf[d]]
  BY PoolLines DEF PoolOK
<1>2. IndexesAgree /\ ListsPartition
  BY DEF PoolOK, PoolConsistent
<1>3. /\ p \in Page /\ p # SinkPage /\ refs[p] \in Nat
      /\ refs' = [refs EXCEPT ![p] = @ - 1] /\ refs' \in [Page -> Nat]
      /\ UNCHANGED <<pageOf, digestOf>>
  BY <1>1 DEF GiveBack, Usable
<1>4. p \notin Range(free) /\ p \notin Range(idle)
  BY <1>2 DEF ListsPartition
<1>5. /\ \A q \in Page : q # p => refs'[q] = refs[q]
      /\ refs'[p] = refs[p] - 1
      /\ SinkPage \in Page
  BY <1>1, <1>3, NPagesAssumption DEF Page, SinkPage
<1>6. IndexesAgree'
  BY <1>2, <1>3 DEF IndexesAgree
<1>7. CASE GiveBackUsed(p)
  <2>1. UNCHANGED <<free, idle>> /\ refs'[p] # 0 /\ refs[p] # 0
    BY <1>7, <1>3, <1>5 DEF GiveBackUsed
  <2>2. PoolTypeOK'
    BY <2>1, <1>1, <1>3 DEF PoolTypeOK, Usable, Once
  <2>3. ListsPartition'
    BY <2>1, <1>1, <1>2, <1>3, <1>5 DEF ListsPartition, Usable
  <2> QED BY <2>2, <2>3, <1>3, <1>6 DEF PoolOK, PoolConsistent
<1>8. CASE GiveBackKept(p)
  <2>1. UNCHANGED free /\ refs'[p] = 0 /\ p \in DOMAIN digestOf
    BY <1>8, <1>3, <1>5 DEF GiveBackKept
  <2>2. idle' \in Seq(Usable) /\ Once(idle') /\ Range(idle') = Range(idle) \cup {p}
    BY <1>8, <1>1, <1>4, AppendOnce DEF GiveBackKept
  <2>3. PoolTypeOK'
    BY <2>1, <2>2, <1>1, <1>3 DEF PoolTypeOK, Usable, Once
  <2>4. ListsPartition'
    BY <2>1, <2>2, <1>1, <1>2, <1>3, <1>5 DEF ListsPartition, Usable
  <2> QED BY <2>3, <2>4, <1>3, <1>6 DEF PoolOK, PoolConsistent
<1>9. CASE GiveBackPlain(p)
  <2>1. UNCHANGED idle /\ refs'[p] = 0 /\ p \notin DOMAIN digestOf
    BY <1>9, <1>3, <1>5 DEF GiveBackPlain
  <2>2. free' \in Seq(Usable) /\ Once(free') /\ Range(free') = Range(free) \cup {p}
    BY <1>9, <1>1, <1>4, AppendOnce DEF GiveBackPlain
  <2>3. PoolTypeOK'
    BY <2>1, <2>2, <1>1, <1>3 DEF PoolTypeOK, Usable, Once
  <2>4. ListsPartition'
    BY <2>1, <2>2, <1>1, <1>2, <1>3, <1>5 DEF ListsPartition, Usable
  <2> QED BY <2>3, <2>4, <1>3, <1>6 DEF PoolOK, PoolConsistent
<1> QED BY <1>7, <1>8, <1>9 DEF GiveBack

\* Pages in use may be kept by digests of their own.
LEMMA KeepPool ==
  ASSUME PoolOK, NEW ps \in Seq(Usable), NEW ds, Once(ps),
         \A i \in 1..Len(ps) : refs[ps[i]] > 0,
         \A i, j \in 1..Len(ps) : ds[i] = ds[j] => i = j,
         Keep(ps, ds)
  PROVE  PoolOK' /\ UNCHANGED refs /\ DOMAIN digestOf \subseteq DOMAIN digestOf'
<1> DEFINE new   == NewlyKept(ps, ds)
           at(p) == CHOOSE i \in new : ps[i] = p
           of(d) == CHOOSE i \in new : ds[i] = d
<1>1. /\ free \in Seq(Usable) /\ Once(free) /\ idle \in Seq(Usable) /\ Once(idle)
      /\ refs \in [Page -> Nat] /\ DOMAIN digestOf \subseteq Usable
      /\ digestOf = [q \in DOMAIN digestOf |-> digestOf[q]]
      /\ pageOf = [d \in DOMAIN pageOf |-> pageOf[d]]
  BY PoolLines DEF PoolOK
<1>2. IndexesAgree /\ ListsPartition
  BY DEF PoolOK, PoolConsistent
<1>3. \A i, j \in 1..Len(ps) : ps[i] = ps[j] => i = j
  BY OnceOfLine
<1>4. /\ new \subseteq 1..Len(ps)
      /\ \A i \in new : ps[i] \notin DOMAIN digestOf /\ ds[i] \notin DOMAIN pageOf
  BY DEF NewlyKept
<1>5. /\ UNCHANGED <<free, refs, idle>>
      /\ DOMAIN digestOf' = DOMAIN digestOf \cup {ps[i] : i \in new}
      /\ DOMAIN pageOf' = DOMAIN pageOf \cup {ds[i] : i \in new}
      /\ \A q \in DOMAIN digestOf' :
           digestOf'[q] = IF q \in DOMAIN digestOf THEN digestOf[q] ELSE ds[at(q)]
      /\ \A d \in DOMAIN pageOf' :
           pageOf'[d] = IF d \in DOMAIN pageOf THEN pageOf[d] ELSE ps[of(d)]
      /\ digestOf' = [q \in DOMAIN digestOf' |-> digestOf'[q]]
      /\ pageOf' = [d \in DOMAIN pageOf' |-> pageOf'[d]]
  BY DEF Keep
<1> HIDE DEF new
<1>6. \A i \in new : at(ps[i]) = i /\ of(ds[i]) = i
  BY <1>3, <1>4
<1>7. \A i \in new : digestOf'[ps[i]] = ds[i] /\ pageOf'[ds[i]] = ps[i]
  BY <1>4, <1>5, <1>6
<1>8. /\ \A q \in DOMAIN digestOf : digestOf'[q] = digestOf[q]
      /\ \A d \in DOMAIN pageOf : pageOf'[d] = pageOf[d]
  BY <1>5
<1>9. PoolTypeOK'
  <2>1. DOMAIN digestOf' \subseteq Usable
    BY <1>1, <1>4, <1>5
  <2> QED BY <2>1, <1>1, <1>5 DEF PoolTypeOK, Usable, Once
<1>10. IndexesAgree'
  <2>1. ASSUME NEW q \in DOMAIN digestOf'
        PROVE  digestOf'[q] \in DOMAIN pageOf' /\ pageOf'[digestOf'[q]] = q
    <3>1. CASE q \in DOMAIN digestOf
      BY <3>1, <1>2, <1>5, <1>8 DEF IndexesAgree
    <3>2. CASE q \in {ps[i] : i \in new}
      BY <3>2, <1>5, <1>7
    <3> QED BY <3>1, <3>2, <1>5
  <2>2. ASSUME NEW d \in DOMAIN pageOf'
        PROVE  pageOf'[d] \in DOMAIN digestOf' /\ digestOf'[pageOf'[d]] = d
    <3>1. CASE d \in DOMAIN pageOf
      BY <3>1, <1>2, <1>5, <1>8 DEF IndexesAgree
    <3>2. CASE d \in {ds[i] : i \in new}
      BY <3>2, <1>5, <1>7
    <3> QED BY <3>1, <3>2, <1>5
  <2> QED BY <2>1, <2>2 DEF IndexesAgree
<1>11. ListsPartition'
  <2>1. \A q \in {ps[i] : i \in new} : refs[q] # 0
    BY <1>4
  <2>2. \A q : q \in DOMAIN digestOf' /\ refs[q] = 0 <=> q \in DOMAIN digestOf /\ refs[q] = 0
    BY <2>1, <1>5
  <2> QED BY <2>2, <1>2, <1>5 DEF ListsPartition
<1> QED BY <1>5, <1>9, <1>10, <1>11 DEF PoolOK, PoolConsistent

\* Every digest may be dropped.
LEMMA ForgetPool ==
  ASSUME PoolOK, Forget
  PROVE  PoolOK' /\ UNCHANGED refs
<1>1. /\ free \in Seq(Usable) /\ Once(free) /\ idle \in Seq(Usable) /\ Once(idle)
      /\ refs \in [Page -> Nat] /\ DOMAIN digestOf \subseteq Usable
  BY PoolLines DEF PoolOK
<1>2. ListsPartition
  BY DEF PoolOK, PoolConsistent
<1>3. /\ free' = free \o idle /\ UNCHANGED refs
      /\ idle' = <<>> /\ pageOf' = <<>> /\ digestOf' = <<>>
  BY DEF Forget
<1>4. Range(free) \cap Range(idle) = {}
  BY <1>2 DEF ListsPartition
<1>5. free' \in Seq(Usable) /\ Once(free') /\ Range(free') = Range(free) \cup Range(idle)
  BY <1>1, <1>3, <1>4, ConcatOnce
<1>6. idle' \in Seq(Usable) /\ Range(idle') = {} /\ Once(idle')
  BY <1>3, EmptyLine
<1>7. /\ DOMAIN digestOf' = {} /\ DOMAIN pageOf' = {}
      /\ digestOf' = [p \in DOMAIN digestOf' |-> digestOf'[p]]
      /\ pageOf' = [d \in DOMAIN pageOf' |-> pageOf'[d]]
  BY <1>3
<1>8. PoolTypeOK'
  BY <1>1, <1>3, <1>5, <1>6, <1>7 DEF PoolTypeOK, Usable, Once
<1>9. IndexesAgree'
  BY <1>7 DEF IndexesAgree
<1>10. ListsPartition'
  BY <1>1, <1>2, <1>3, <1>5, <1>6, <1>7 DEF ListsPartition, Usable
<1> QED BY <1>3, <1>8, <1>9, <1>10 DEF PoolOK, PoolConsistent

\* The pages found for a start are kept by its digests.
LEMMA CachedPages ==
  ASSUME PoolOK, NEW D, NEW ds \in Seq(D), \A i, j \in 1..Len(ds) : ds[i] = ds[j] => i = j
  PROVE  /\ CachedLength(ds) \in 0..Len(ds)
         /\ Cached(ds) \in Seq(Usable) /\ Len(Cached(ds)) = CachedLength(ds)
         /\ Once(Cached(ds)) /\ Range(Cached(ds)) \subseteq DOMAIN digestOf
<1> DEFINE ends == {n \in 0..Len(ds) : n < Len(ds) => ds[n + 1] \notin DOMAIN pageOf}
           n == CachedLength(ds)
           t == Cached(ds)
<1>1. DOMAIN digestOf \subseteq Usable /\ IndexesAgree
  BY PoolLines DEF PoolOK, PoolConsistent
<1>2. Len(ds) \in Nat
  OBVIOUS
<1>3. ends \in SUBSET Nat /\ Len(ds) \in ends
  BY <1>2
<1>4. PICK m \in ends : \A k \in ends : m <= k
  <2> HIDE DEF ends
  <2> QED BY <1>3, LeastElement
<1>5. m \in 0..Len(ds) /\ (m < Len(ds) => ds[m + 1] \notin DOMAIN pageOf)
  BY <1>4
<1>6. ASSUME NEW i \in 1..m PROVE ds[i] \in DOMAIN pageOf
  <2>1. i - 1 \in 0..Len(ds) /\ i - 1 < Len(ds) /\ (i - 1) + 1 = i /\ ~ (m <= i - 1)
    BY <1>2, <1>5
  <2>2. i - 1 \notin ends
    BY <2>1, <1>4
  <2> QED BY <2>1, <2>2
<1>7. /\ n \in 0..Len(ds) /\ \A i \in 1..n : ds[i] \in DOMAIN pageOf
  BY <1>5, <1>6 DEF CachedLength
<1> HIDE DEF n
<1>8. t = [i \in 1..n |-> pageOf[ds[i]]]
  BY DEF Cached, n
<1>9. \A i \in 1..n : pageOf[ds[i]] \in DOMAIN digestOf /\ digestOf[pageOf[ds[i]]] = ds[i]
  BY <1>1, <1>7 DEF IndexesAgree
<1>10. n \in Nat
  BY <1>2, <1>7
<1>11. t \in Seq(Usable) /\ Len(t) = n /\ \A i \in 1..n : t[i] = pageOf[ds[i]]
  BY <1>1, <1>8, <1>9, <1>10
<1> HIDE DEF t
<1>12. Once(t)
  <2> SUFFICES ASSUME NEW i \in 1..n, NEW j \in 1..n, t[i] = t[j] PROVE i = j
    BY <1>11, OnceOfLine
  <2>1. ds[i] = ds[j]
    BY <1>9, <1>11
  <2>2. i \in 1..Len(ds) /\ j \in 1..Len(ds)
    BY <1>2, <1>7
  <2> QED BY <2>1, <2>2
<1>13. Range(t) \subseteq DOMAIN digestOf
  BY <1>9, <1>11, RangeOfLine
<1> QED BY <1>7, <1>11, <1>12, <1>13 DEF n, t

-----------------------------------------------------------------------------
(* The types of what the engine keeps.                                      *)

Reason == {"", "eos", "length", "cache", "cancelled"}

Label == {"idle", "grow", "growread", "chunk", "place", "sharing", "bind", "mix",
          "mixpass", "pass", "decode", "read"}

\* A token a pass draws, with the row it is for.
Draw == [slot : Slot, req : Request, token : Token, key : Request \cup {None},
         text : Text, at : Nat, prompt : BOOLEAN]

\* The part of a prompt a step passes.
Piece == [req : Request, start : Nat, stop : Nat]

RowTypes ==
  /\ submitted \in Seq(Request) /\ waiting \in Seq(Request)
  /\ tokens \in [Request -> Seq(Token)] /\ reason \in [Request -> Reason]
  /\ rows \in [Slot -> Request \cup {None}]
  /\ filling \in Seq(Request) /\ seniority \in Seq(Request) /\ placed \in Seq(Request)
  /\ done \in [Request -> Nat] /\ held \in [Request -> Seq(Usable)]
  /\ giving \in Seq(Usable) /\ found \in Seq(Usable)

PassTypes ==
  /\ queued \in Seq(Seq(Draw)) /\ reading \in Seq(Draw) /\ owners \in Seq(Draw)
  /\ chunks \in Seq(Piece)
  /\ ahead \in Nat /\ left \in Nat \cup {NoLimit} /\ room \in Int /\ pc \in Label

DeviceTypes ==
  /\ written \in [Slot -> Nat] /\ positions \in [Slot -> Nat]
  /\ assigned \in [Slot -> Seq(Usable)]
  /\ devPos \in [Slot -> Nat]
  /\ devTok \in [Slot -> Token \cup {Junk}] /\ devKey \in [Slot -> Request \cup {None}]
  /\ cache \in [Page -> [Offset -> Text]]

-----------------------------------------------------------------------------
(* Where a request is: waiting, placed, or in one row.                      *)

Rowed == {rows[s] : s \in Slot} \ {None}

Admission ==
  /\ Once(waiting) /\ Once(seniority) /\ Once(placed) /\ Once(filling)
  /\ Range(waiting) \cap Range(seniority) = {}
  /\ Range(waiting) \cup Range(seniority) \subseteq Range(submitted)
  /\ \A s, t \in Slot : rows[s] = rows[t] /\ rows[s] # None => s = t
  /\ Range(seniority) = Rowed \cup Range(placed)
  /\ Rowed \cap Range(placed) = {}
  /\ Range(filling) \subseteq Rowed
  /\ \A r \in Range(waiting) \cup Range(seniority) : reason[r] = ""
  /\ \A r \in Request \ Range(submitted) : reason[r] = ""

\* A draw not read is of a request that ended, or of one whose prompt has passed.
Live(it) == reason[it.req] = "" => it.req \in Rowed \ Range(filling)

\* A pass draws for a request once.
OncePerPass(pass) == \A i, j \in 1..Len(pass) : pass[i].req = pass[j].req => i = j

DrawsLive ==
  /\ \A i \in 1..Len(queued) : \A j \in 1..Len(queued[i]) : Live(queued[i][j])
  /\ \A j \in 1..Len(reading) : Live(reading[j])
  /\ pc \in {"mix", "mixpass", "pass"} => \A j \in 1..Len(owners) : Live(owners[j])
  /\ pc \notin {"read", "growread"} => reading = <<>>
  /\ pc = "mixpass" => queued # <<>>

-----------------------------------------------------------------------------
(* The prompts that pass, and the placement under way.                      *)

Placing == {"place", "sharing", "bind"}
Passing == {"chunk", "place", "sharing", "bind", "mix", "mixpass", "pass"}

\* A prompt still passing has its pages, and more to pass than this step's pieces.
FillingHold ==
  \A r \in Range(filling) \cup Range(placed) :
    /\ Len(held[r]) >= PagesFor(Len(PromptOf(r)))
    /\ done[r] <= Len(PromptOf(r))
    /\ \/ done[r] < Len(PromptOf(r))
       \/ pc \in Passing /\ \E i \in 1..Len(chunks) :
            chunks[i].req = r /\ chunks[i].stop = Len(PromptOf(r))

PiecesRun ==
  pc \in Passing => \A i \in 1..Len(chunks) :
     /\ chunks[i].req \in Range(seniority)
     /\ chunks[i].start < chunks[i].stop
     /\ chunks[i].stop <= Len(PromptOf(chunks[i].req))
     /\ pc = "chunk" => i <= Len(filling) /\ chunks[i].req = filling[i]

Placement ==
  /\ placed # <<>> => pc \in Placing
  /\ pc \in Placing => Len(placed) <= Cardinality(FreeSlots)
  /\ pc = "sharing" =>
       /\ waiting # <<>>
       /\ MayPass
       /\ Len(placed) < Cardinality(FreeSlots)
       /\ Once(found) /\ Range(found) \subseteq DOMAIN digestOf
       /\ Range(found) \cap Range(held[Head(waiting)]) = {}
       /\ done[Head(waiting)] < Len(PromptOf(Head(waiting)))

-----------------------------------------------------------------------------
(* Who holds the pages.                                                     *)

PagesHeld ==
  /\ \A r \in Request : Once(held[r])
  /\ Once(giving)
  /\ \A p \in Page : IsFiniteSet(Holders(p))
  /\ RefsCountHolders
  /\ \A r \in Request : held[r] # <<>> =>
        r \in Range(seniority) \/ (pc = "sharing" /\ r = Head(waiting))

IInv ==
  /\ PoolOK
  /\ RowTypes /\ PassTypes /\ DeviceTypes
  /\ Admission /\ DrawsLive
  /\ FillingHold /\ PiecesRun /\ Placement
  /\ PagesHeld

-----------------------------------------------------------------------------
(* What the helpers return.                                                 *)

\* Division by a positive number.
LEMMA Division ==
  ASSUME NEW m \in Nat, NEW k \in Nat \ {0}
  PROVE  m \div k \in Nat /\ (m \div k) * k <= m
OBVIOUS

\* A longer text has no fewer pages.
LEMMA DivisionGrows ==
  ASSUME NEW m \in Nat, NEW n \in Nat, m <= n, NEW k \in Nat \ {0}
  PROVE  m \div k <= n \div k
OBVIOUS

\* Pages of k positions start at the multiples of k, each at its own.
LEMMA Multiples ==
  ASSUME NEW i \in Nat, NEW j \in Nat, NEW k \in Nat \ {0}
  PROVE  /\ i * k \in Nat
         /\ i <= j => i * k <= j * k
         /\ i * k = j * k => i = j
OBVIOUS

\* The digests of a text: one for each full page, each another start of it.
LEMMA DigestsOfText ==
  ASSUME NEW text \in Seq(Token)
  PROVE  /\ DigestsOf(text) \in Seq(Seq(Token))
         /\ Len(DigestsOf(text)) = Len(text) \div PageSize
         /\ \A i, j \in 1..Len(DigestsOf(text)) :
              DigestsOf(text)[i] = DigestsOf(text)[j] => i = j
<1> DEFINE n == Len(text) \div PageSize
           t == DigestsOf(text)
<1>1. PageSize \in Nat \ {0} /\ Len(text) \in Nat
  BY EngineAssumption
<1>2. n \in Nat /\ n * PageSize <= Len(text)
  BY <1>1, Division
<1> HIDE DEF n
<1>3. ASSUME NEW i \in 1..n
      PROVE  /\ SubSeq(text, 1, i * PageSize) \in Seq(Token)
             /\ Len(SubSeq(text, 1, i * PageSize)) = i * PageSize
  <2> DEFINE m == i * PageSize
  <2>1. m \in Nat /\ m <= n * PageSize
    BY <1>1, <1>2, Multiples
  <2>2. n * PageSize \in Nat
    BY <1>1, <1>2, Multiples
  <2> HIDE DEF m
  <2>3. m \in 0..Len(text)
    BY <2>1, <2>2, <1>1, <1>2
  <2>4. Len(SubSeq(text, 1, m)) = IF 1 <= m THEN m - 1 + 1 ELSE 0
    BY <2>3, SubSeqOnce
  <2>5. SubSeq(text, 1, m) \in Seq(Token)
    BY <2>3, SubSeqOnce
  <2>6. Len(SubSeq(text, 1, m)) = m
    BY <2>1, <2>4
  <2> QED BY <2>5, <2>6 DEF m
<1>4. t = [i \in 1..n |-> SubSeq(text, 1, i * PageSize)]
  BY DEF DigestsOf, n
<1>5. t \in Seq(Seq(Token)) /\ Len(t) = n
  BY <1>2, <1>3, <1>4
<1>6. ASSUME NEW i \in 1..n, NEW j \in 1..n, t[i] = t[j] PROVE i = j
  <2>1. i * PageSize = j * PageSize
    BY <1>3, <1>4, <1>6
  <2> QED BY <2>1, <1>1, <1>2, Multiples
<1> QED BY <1>5, <1>6 DEF n

\* Digests m to n of a text, for pages that are full.
LEMMA SomeDigests ==
  ASSUME NEW text \in Seq(Token), NEW m \in Nat \ {0}, NEW n \in 0..(Len(text) \div PageSize)
  PROVE  /\ SubSeq(DigestsOf(text), m, n) \in Seq(Seq(Token))
         /\ Len(SubSeq(DigestsOf(text), m, n)) = IF m <= n THEN n - m + 1 ELSE 0
         /\ \A i, j \in 1..Len(SubSeq(DigestsOf(text), m, n)) :
              SubSeq(DigestsOf(text), m, n)[i] = SubSeq(DigestsOf(text), m, n)[j] => i = j
<1> DEFINE t == DigestsOf(text)
           u == SubSeq(t, m, n)
<1>1. t \in Seq(Seq(Token)) /\ Len(t) = Len(text) \div PageSize
  BY DigestsOfText
<1>2. Once(t)
  BY <1>1, DigestsOfText, OnceOfLine
<1> HIDE DEF t
<1>3. u \in Seq(Seq(Token)) /\ Once(u) /\ Len(u) = IF m <= n THEN n - m + 1 ELSE 0
  BY <1>1, <1>2, SubSeqOnce
<1> HIDE DEF u
<1>4. \A i, j \in 1..Len(u) : u[i] = u[j] => i = j
  BY <1>3, OnceOfLine
<1> QED BY <1>3, <1>4 DEF t, u

\* A set of slots in order has each slot of the set once.
LEMMA InOrderSlots ==
  ASSUME NEW slots \in SUBSET Slot
  PROVE  /\ Cardinality(slots) \in Nat
         /\ InOrder(slots) \in Seq(slots) /\ Len(InOrder(slots)) = Cardinality(slots)
         /\ Once(InOrder(slots))
<1> DEFINE n == Cardinality(slots)
           below(s) == {t \in slots : t < s}
           rank == [s \in slots |-> Cardinality(below(s))]
<1>1. NSlots \in Nat /\ slots \subseteq Nat
  BY EngineAssumption DEF Slot
<1>2. IsFiniteSet(slots) /\ n \in Nat
  <2>1. IsFiniteSet(1..NSlots)
    BY <1>1, FS_Interval
  <2> QED BY <2>1, FS_Subset, FS_CardinalityType DEF Slot
<1>3. ASSUME NEW s \in slots
      PROVE  IsFiniteSet(below(s)) /\ Cardinality(below(s)) \in 0..(n - 1)
  <2>1. below(s) \in SUBSET slots /\ s \notin below(s)
    BY <1>1
  <2>2. IsFiniteSet(below(s)) /\ Cardinality(below(s)) <= n /\ Cardinality(below(s)) # n
    <3> HIDE DEF below
    <3> QED BY <2>1, <1>2, FS_Subset
  <2>3. Cardinality(below(s)) \in Nat
    BY <2>2, FS_CardinalityType
  <2> QED BY <2>2, <2>3, <1>2
<1>4. ASSUME NEW s \in slots, NEW t \in slots, s < t
      PROVE  Cardinality(below(s)) # Cardinality(below(t))
  <2>1. below(s) \in SUBSET below(t) /\ s \in below(t) /\ s \notin below(s)
    <3>1. \A u \in slots : u < s => u < t
      BY <1>1, <1>4
    <3>2. ~ (s < s)
      BY <1>1
    <3> QED BY <3>1, <3>2, <1>4
  <2> HIDE DEF below
  <2> QED BY <2>1, <1>3, FS_Subset
<1>5. IsFiniteSet(0..(n - 1)) /\ Cardinality(0..(n - 1)) = n
  <2>1. n - 1 \in Int /\ (0 > n - 1 => n = 0) /\ (n - 1) - 0 + 1 = n
    BY <1>2
  <2> HIDE DEF n
  <2> QED BY <2>1, FS_Interval
<1>6. rank \in Injection(slots, 0..(n - 1))
  <2>1. rank \in [slots -> 0..(n - 1)]
    BY <1>3
  <2>2. ASSUME NEW s \in slots, NEW t \in slots, rank[s] = rank[t] PROVE s = t
    <3>1. ~ (s < t) /\ ~ (t < s)
      BY <1>4, <2>2
    <3> QED BY <3>1, <1>1
  <2> HIDE DEF rank
  <2> QED BY <2>1, <2>2 DEF Injection, IsInjective
<1>7. rank \in Surjection(slots, 0..(n - 1))
  <2> HIDE DEF rank, n
  <2> QED BY <1>2, <1>5, <1>6, FS_Injection DEF n
<1>8. ASSUME NEW i \in 1..n
      PROVE  /\ (CHOOSE s \in slots : Cardinality(below(s)) = i - 1) \in slots
             /\ Cardinality(below(CHOOSE s \in slots : Cardinality(below(s)) = i - 1)) = i - 1
  <2>1. i - 1 \in 0..(n - 1)
    BY <1>2
  <2>2. \E s \in slots : rank[s] = i - 1
    BY <2>1, <1>7 DEF Surjection
  <2>3. \E s \in slots : Cardinality(below(s)) = i - 1
    BY <2>2
  <2> HIDE DEF below
  <2> QED BY <2>3
<1>9. InOrder(slots) = [i \in 1..n |-> CHOOSE s \in slots : Cardinality(below(s)) = i - 1]
  BY DEF InOrder
<1> HIDE DEF below
<1>10. InOrder(slots) \in [1..n -> slots]
  BY <1>8, <1>9
<1> HIDE DEF n
<1>11. InOrder(slots) \in Seq(slots) /\ Len(InOrder(slots)) = n
  BY <1>2, <1>10
<1>12. Once(InOrder(slots))
  <2>1. ASSUME NEW i \in 1..n, NEW j \in 1..n, InOrder(slots)[i] = InOrder(slots)[j]
        PROVE  i = j
    <3>1. /\ Cardinality(below(InOrder(slots)[i])) = i - 1
          /\ Cardinality(below(InOrder(slots)[j])) = j - 1
      BY <1>8, <1>9
    <3>2. i - 1 = j - 1
      BY <2>1, <3>1
    <3> QED BY <3>2, <1>2
  <2> QED BY <2>1, <1>11, OnceOfLine
<1> QED BY <1>2, <1>11, <1>12 DEF n

\* The text of a request: its prompt, never empty, and its tokens.
LEMMA TextOfRequest ==
  ASSUME RowTypes, NEW r \in Request
  PROVE  PromptOf(r) \in Seq(Token) /\ Len(PromptOf(r)) \in Nat \ {0}
<1>1. Prompt[r] \in Seq(Token) /\ Len(Prompt[r]) >= 1 /\ tokens[r] \in Seq(Token)
  BY EngineAssumption DEF RowTypes
<1> DEFINE text == Prompt[r] \o tokens[r]
<1>2. /\ text \in Seq(Token) /\ Len(text) = Len(Prompt[r]) + Len(tokens[r])
      /\ Len(Prompt[r]) \in Nat /\ Len(tokens[r]) \in Nat
  BY <1>1
<1> HIDE DEF text
<1>3. Len(text) \in Nat \ {0}
  <2> DEFINE m == Len(Prompt[r])
             n == Len(tokens[r])
  <2>1. m \in Nat /\ n \in Nat /\ m >= 1 /\ Len(text) = m + n
    BY <1>1, <1>2
  <2> HIDE DEF m, n
  <2>2. m + n \in Nat \ {0}
    BY <2>1
  <2> QED BY <2>1, <2>2
<1> QED BY <1>2, <1>3 DEF PromptOf, text

\* The row of an admitted request.
LEMMA SlotOfRow ==
  ASSUME RowTypes, NEW r \in Rowed
  PROVE  SlotOf(r) \in Slot /\ rows[SlotOf(r)] = r /\ r \in Request
<1>1. \E s \in Slot : rows[s] = r
  BY DEF Rowed
<1> QED BY <1>1 DEF SlotOf, RowTypes, Rowed

\* Of the requests placed, one has the shortest text.
LEMMA ShortestPlaced ==
  ASSUME RowTypes, placed # <<>>
  PROVE  Shortest \in 1..Len(placed)
<1> DEFINE length(i) == Len(PromptOf(placed[i]))
           D == 1..Len(placed)
<1>1. /\ Len(placed) \in Nat \ {0} /\ DOMAIN placed = D
      /\ \A i \in D : placed[i] \in Request
  BY DEF RowTypes
<1>2. \A i \in D : length(i) \in Nat
  BY <1>1, TextOfRequest
<1> HIDE DEF length
<1>3. PICK l \in {length(i) : i \in D} : \A m \in {length(i) : i \in D} : l <= m
  <2>1. {length(i) : i \in D} \in SUBSET Nat /\ 1 \in D
    BY <1>1, <1>2
  <2> HIDE DEF D
  <2> DEFINE S == {length(i) : i \in D}
  <2>2. S \in SUBSET Nat /\ S # {}
    BY <2>1
  <2> HIDE DEF S
  <2>3. \E l \in S : \A m \in S : l <= m
    BY <2>2, LeastElement
  <2> QED BY <2>3 DEF S
<1>4. PICK k \in {i \in D : length(i) = l} : \A i \in {j \in D : length(j) = l} : k <= i
  <2>1. {i \in D : length(i) = l} \in SUBSET Nat /\ {i \in D : length(i) = l} # {}
    BY <1>1, <1>3
  <2> HIDE DEF D
  <2> QED BY <2>1, LeastElement
<1>5. ASSUME NEW j \in D
      PROVE  length(k) < length(j) \/ (length(k) = length(j) /\ k <= j)
  <2>1. length(k) = l /\ l <= length(j) /\ l \in Nat /\ length(j) \in Nat
    BY <1>2, <1>3, <1>4
  <2>2. CASE l = length(j)
    BY <2>1, <2>2, <1>4
  <2>3. CASE l # length(j)
    BY <2>1, <2>3
  <2> QED BY <2>2, <2>3
<1>6. Shortest = CHOOSE i \in DOMAIN placed :
                   \A j \in DOMAIN placed :
                     length(i) < length(j) \/ (length(i) = length(j) /\ i <= j)
  BY DEF Shortest, length
<1>7. \E i \in DOMAIN placed :
        \A j \in DOMAIN placed : length(i) < length(j) \/ (length(i) = length(j) /\ i <= j)
  BY <1>1, <1>4, <1>5
<1> HIDE DEF D
<1> QED BY <1>1, <1>6, <1>7 DEF D

\* The start of a request found in the pool: pages kept by digests, fewer than its text fills.
LEMMA CachedStartPages ==
  ASSUME PoolOK, RowTypes, NEW r \in Request
  PROVE  /\ CachedStart(r) \in Seq(Usable) /\ Once(CachedStart(r))
         /\ Range(CachedStart(r)) \subseteq DOMAIN digestOf
         /\ Len(CachedStart(r)) * PageSize \in Nat
         /\ Len(CachedStart(r)) * PageSize < Len(PromptOf(r))
<1> DEFINE text == PromptOf(r)
           n == (Len(text) - 1) \div PageSize
           ds == FirstDigests(text, n)
           t == CachedStart(r)
<1>1. text \in Seq(Token) /\ Len(text) \in Nat \ {0} /\ PageSize \in Nat \ {0}
  BY TextOfRequest, EngineAssumption
<1> HIDE DEF text
<1>2. n \in Nat /\ n * PageSize <= Len(text) - 1 /\ n <= Len(text) \div PageSize
  <2>1. Len(text) - 1 \in Nat /\ Len(text) - 1 <= Len(text) /\ Len(text) \in Nat
    BY <1>1
  <2> QED BY <2>1, <1>1, Division, DivisionGrows
<1> HIDE DEF n
<1>3. n \in 0..(Len(text) \div PageSize) /\ (IF 1 <= n THEN n - 1 + 1 ELSE 0) = n
  <2>1. Len(text) \div PageSize \in Nat
    BY <1>1, Division
  <2> QED BY <2>1, <1>2
<1>4. ds \in Seq(Seq(Token)) /\ Len(ds) = n /\ \A i, j \in 1..Len(ds) : ds[i] = ds[j] => i = j
  <2>1. /\ SubSeq(DigestsOf(text), 1, n) \in Seq(Seq(Token))
        /\ Len(SubSeq(DigestsOf(text), 1, n)) = n
        /\ \A i, j \in 1..Len(SubSeq(DigestsOf(text), 1, n)) :
             SubSeq(DigestsOf(text), 1, n)[i] = SubSeq(DigestsOf(text), 1, n)[j] => i = j
    <3>1. 1 \in Nat \ {0}
      OBVIOUS
    <3>2. /\ SubSeq(DigestsOf(text), 1, n) \in Seq(Seq(Token))
          /\ Len(SubSeq(DigestsOf(text), 1, n)) = IF 1 <= n THEN n - 1 + 1 ELSE 0
          /\ \A i, j \in 1..Len(SubSeq(DigestsOf(text), 1, n)) :
               SubSeq(DigestsOf(text), 1, n)[i] = SubSeq(DigestsOf(text), 1, n)[j] => i = j
      BY <3>1, <1>1, <1>3, SomeDigests
    <3> QED BY <3>2, <1>3
  <2> QED BY <2>1 DEF FirstDigests
<1> HIDE DEF ds
<1>5. CASE ShareOn
  <2>1. t = Cached(ds)
    BY <1>5 DEF CachedStart, ds, n, text
  <2>2. /\ t \in Seq(Usable) /\ Once(t) /\ Range(t) \subseteq DOMAIN digestOf
        /\ Len(t) \in 0..n
    <3>1. /\ CachedLength(ds) \in 0..Len(ds)
          /\ Cached(ds) \in Seq(Usable) /\ Len(Cached(ds)) = CachedLength(ds)
          /\ Once(Cached(ds)) /\ Range(Cached(ds)) \subseteq DOMAIN digestOf
      BY <1>4, CachedPages
    <3> QED BY <3>1, <2>1, <1>4
  <2> HIDE DEF t
  <2>3. Len(t) \in Nat /\ Len(t) <= n
    BY <2>2, <1>2
  <2>4. Len(t) * PageSize \in Nat /\ Len(t) * PageSize <= n * PageSize /\ n * PageSize \in Nat
    BY <2>3, <1>1, <1>2, Multiples
  <2>5. Len(t) * PageSize < Len(text)
    BY <2>4, <1>1, <1>2
  <2> QED BY <2>2, <2>4, <2>5 DEF t, text
<1>6. CASE ~ShareOn
  <2>1. t = <<>>
    BY <1>6 DEF CachedStart
  <2>2. t \in Seq(Usable) /\ Range(t) = {} /\ Once(t) /\ Len(t) = 0
    BY <2>1, EmptyLine
  <2> HIDE DEF t
  <2>3. Len(t) * PageSize = 0
    BY <2>2, <1>1
  <2> QED BY <2>2, <2>3, <1>1 DEF t, text
<1> QED BY <1>5, <1>6

\* What a row sees is a text, or junk.
LEMMA SeenIsText ==
  ASSUME DeviceTypes, NEW s \in Slot, NEW n \in Nat
  PROVE  Seen(s, n) \in Text
<1>1. ASSUME NEW at \in Nat PROVE Cell(s, at) \in Text
  <2>1. PlaceOf(s, at) \in Page
    <3>1. /\ PageSize \in Nat \ {0} /\ assigned[s] \in Seq(Usable)
          /\ SinkPage \in Page /\ Usable \subseteq Page
      BY EngineAssumption, NPagesAssumption DEF DeviceTypes, Usable, SinkPage, Page
    <3>2. at \div PageSize \in Nat
      BY <3>1, Division
    <3>3. CASE at \div PageSize < Len(assigned[s])
      <4>1. at \div PageSize + 1 \in 1..Len(assigned[s])
        BY <3>1, <3>2, <3>3
      <4> QED BY <4>1, <3>1, <3>3 DEF PlaceOf
    <3>4. CASE ~ (at \div PageSize < Len(assigned[s]))
      BY <3>1, <3>4 DEF PlaceOf
    <3> QED BY <3>3, <3>4
  <2>2. at % PageSize \in Offset
    BY EngineAssumption DEF Offset
  <2> QED BY <2>1, <2>2 DEF Cell, DeviceTypes
<1>2. <<>> \in Text /\ Junk \in Text
  BY DEF Text
<1>3. CASE n = 0
  BY <1>2, <1>3 DEF Seen
<1>4. CASE n # 0
  <2>1. Cell(s, n - 1) \in Text
    BY <1>1, <1>4
  <2> QED BY <2>1, <1>2, <1>4 DEF Seen
<1> QED BY <1>3, <1>4

\* A text with more tokens is a text.
LEMMA ExtendIsText ==
  ASSUME NEW text \in Text, NEW more \in Seq(Token \cup {Junk})
  PROVE  Extend(text, more) \in Text
<1>1. CASE text = Junk \/ Junk \in Range(more)
  BY <1>1 DEF Extend, Text
<1>2. CASE ~ (text = Junk \/ Junk \in Range(more))
  <2>1. text \in Seq(Token)
    BY <1>2 DEF Text
  <2>2. \A i \in 1..Len(more) : more[i] \in Token
    BY <1>2, RangeOfLine
  <2>3. more \in Seq(Token)
    BY <2>2
  <2>4. text \o more \in Seq(Token)
    BY <2>1, <2>3
  <2> QED BY <2>4, <1>2 DEF Extend, Text
<1> QED BY <1>1, <1>2

\* What a step of a slot computes from.
LEMMA StepTextIsText ==
  ASSUME DeviceTypes, NEW s \in Slot, NEW parked
  PROVE  StepText(s, parked) \in Text
<1>1. StepAt(s, parked) \in Nat
  BY EngineAssumption DEF StepAt, DeviceTypes
<1>2. Seen(s, StepAt(s, parked)) \in Text
  BY <1>1, SeenIsText
<1>3. <<devTok[s]>> \in Seq(Token \cup {Junk})
  BY DEF DeviceTypes
<1> QED BY <1>2, <1>3, ExtendIsText DEF StepText

\* A step of the rows leaves the device well typed and queues a draw of each of the rows.
LEMMA DeviceStepTypes ==
  ASSUME DeviceTypes, RowTypes, NEW parked, StepRows(parked),
         \A s, t \in Slot : rows[s] = rows[t] /\ rows[s] # None => s = t
  PROVE  /\ cache' \in [Page -> [Offset -> Text]]
         /\ devPos' \in [Slot -> Nat] /\ devTok' \in [Slot -> Token \cup {Junk}]
         /\ devKey' \in [Slot -> Request \cup {None}]
         /\ written' \in [Slot -> Nat]
         /\ \E pass \in Seq(Draw) :
              /\ queued' = Append(queued, pass)
              /\ OncePerPass(pass)
              /\ \A i \in 1..Len(pass) :
                   /\ pass[i].req \in Rowed \ Range(filling)
                   /\ rows[pass[i].slot] = pass[i].req /\ ~pass[i].prompt
<1>step. PICK draw \in [Decoding -> Token] :
        /\ DeviceStep(Decoding, parked, draw)
        /\ queued' = Append(queued, Stepped(Decoding, parked, draw))
        /\ CountStep(Decoding)
  BY DEF StepRows
<1>rows. /\ Decoding \in SUBSET Slot
      /\ \A s \in Decoding : rows[s] # None /\ rows[s] \in Rowed \ Range(filling)
  BY DEF Decoding, Rowed
<1>counted. written' \in [Slot -> Nat]
  <2>1. MaxSeq - 1 \in Nat /\ written \in [Slot -> Nat]
    BY EngineAssumption DEF DeviceTypes
  <2> QED BY <2>1, <1>step DEF CountStep, Smaller
<1>1. MaxSeq - 1 \in Nat
  BY EngineAssumption
<1>2. \A s \in Slot : StepText(s, parked) \in Text
  BY StepTextIsText
<1>3. cache' \in [Page -> [Offset -> Text]]
  <2> DEFINE text(p, o) ==
        IF p = SinkPage \/ Writers(p, o, parked) = {} THEN cache[p][o]
        ELSE StepText(CHOOSE s \in Writers(p, o, parked) : TRUE, parked)
  <2>1. ASSUME NEW p \in Page, NEW o \in Offset PROVE text(p, o) \in Text
    <3>1. Writers(p, o, parked) # {} =>
            (CHOOSE s \in Writers(p, o, parked) : TRUE) \in Slot
      BY DEF Writers
    <3> QED BY <3>1, <1>2 DEF DeviceTypes
  <2>2. cache' = [p \in Page |-> [o \in Offset |-> text(p, o)]]
    BY <1>step DEF DeviceStep
  <2> HIDE DEF text
  <2> QED BY <2>1, <2>2
<1>4. devPos' \in [Slot -> Nat]
  BY <1>step, <1>1 DEF DeviceStep, DeviceTypes, Smaller
<1>5. devTok' \in [Slot -> Token \cup {Junk}] /\ devKey' \in [Slot -> Request \cup {None}]
  BY <1>step DEF DeviceStep, DeviceTypes
<1> DEFINE order == InOrder(Decoding)
           it(s) == [slot |-> s, req |-> rows[s], token |-> draw[s], key |-> devKey[s],
                     text |-> StepText(s, parked), at |-> devPos[s] + 1, prompt |-> FALSE]
           pass == Stepped(Decoding, parked, draw)
<1>6. order \in Seq(Decoding) /\ Once(order)
  BY <1>rows, InOrderSlots
<1> HIDE DEF order
<1>7. ASSUME NEW s \in Decoding
      PROVE  /\ it(s) \in Draw /\ it(s).req = rows[s]
             /\ it(s).slot = s /\ it(s).prompt = FALSE
  BY <1>step, <1>2, <1>7, <1>rows DEF Draw, DeviceTypes, RowTypes
<1>8. pass = [i \in 1..Len(order) |-> it(order[i])]
  <2>1. DOMAIN order = 1..Len(order)
    BY <1>6
  <2> QED BY <2>1 DEF Stepped, order
<1> HIDE DEF it, pass
<1>9. Len(order) \in Nat /\ \A i \in 1..Len(order) : order[i] \in Decoding
  BY <1>6
<1>10. pass \in Seq(Draw) /\ Len(pass) = Len(order)
  <2>1. \A s \in Decoding : it(s) \in Draw
    BY <1>7
  <2> QED BY <2>1, <1>8, <1>9
<1>11. \A i \in 1..Len(pass) :
          /\ pass[i].req \in Rowed \ Range(filling)
          /\ rows[pass[i].slot] = pass[i].req /\ ~pass[i].prompt
  <2> SUFFICES ASSUME NEW i \in 1..Len(order)
               PROVE  /\ pass[i].req \in Rowed \ Range(filling)
                      /\ rows[pass[i].slot] = pass[i].req /\ ~pass[i].prompt
    BY <1>10
  <2>1. order[i] \in Decoding /\ pass[i] = it(order[i])
    BY <1>8, <1>9
  <2>2. /\ pass[i].req = rows[order[i]] /\ pass[i].slot = order[i]
        /\ pass[i].prompt = FALSE
    BY <2>1, <1>7
  <2> QED BY <2>1, <2>2, <1>rows
<1>12. queued' = Append(queued, pass)
  BY <1>step DEF pass
<1>13. OncePerPass(pass)
  <2> SUFFICES ASSUME NEW i \in 1..Len(pass), NEW j \in 1..Len(pass), pass[i].req = pass[j].req
               PROVE  i = j
    BY DEF OncePerPass
  <2>1. i \in 1..Len(order) /\ j \in 1..Len(order) /\ order[i] \in Decoding /\ order[j] \in Decoding
    BY <1>9, <1>10
  <2>2. pass[i].req = rows[order[i]] /\ pass[j].req = rows[order[j]]
    BY <2>1, <1>7, <1>8
  <2>3. order[i] = order[j]
    BY <2>1, <2>2, <1>rows
  <2> QED BY <2>1, <2>3, <1>6, OnceOfLine
<1> QED BY <1>3, <1>4, <1>5, <1>10, <1>11, <1>12, <1>13, <1>counted

\* A part of a prompt that passes leaves the device well typed, and draws when it
\* is the last part.
LEMMA PrefillTypes ==
  ASSUME RowTypes, DeviceTypes, NEW chunk \in Piece, NEW stop \in Nat,
         chunk.req \in Rowed, chunk.start < stop, stop <= Len(PromptOf(chunk.req)),
         Prefill(chunk, stop)
  PROVE  /\ cache' \in [Page -> [Offset -> Text]]
         /\ devPos' \in [Slot -> Nat] /\ devTok' \in [Slot -> Token \cup {Junk}]
         /\ devKey' \in [Slot -> Request \cup {None}]
         /\ written' \in [Slot -> Nat]
         /\ \/ /\ stop = Len(PromptOf(chunk.req))
               /\ \E it \in Draw :
                    /\ it.req = chunk.req /\ it.slot = SlotOf(chunk.req) /\ it.prompt
                    /\ owners' = Append(owners, it)
               /\ filling' = Without(filling, chunk.req)
            \/ /\ stop # Len(PromptOf(chunk.req))
               /\ UNCHANGED <<owners, filling>>
<1> DEFINE r == chunk.req
           start == chunk.start
           s == SlotOf(r)
           seen == Seen(s, start)
           part(i) == SubSeq(PromptOf(r), start + 1, i + 1)
           text == [i \in start..(stop - 1) |-> Extend(seen, part(i))]
           last == text[stop - 1]
<1>1. /\ cache' = Written(cache, s, start, stop, text)
      /\ devKey' = [devKey EXCEPT ![s] = r]
      /\ \/ /\ stop = Len(PromptOf(r))
            /\ \E t \in Token :
                 /\ devTok' = [devTok EXCEPT ![s] = t]
                 /\ devPos' = [devPos EXCEPT ![s] = stop]
                 /\ owners' = Append(owners, [slot |-> s, req |-> r, token |-> t, key |-> r,
                                              text |-> last, at |-> stop, prompt |-> TRUE])
                 /\ filling' = Without(filling, r)
                 /\ written' = [written EXCEPT ![s] = stop]
         \/ /\ stop # Len(PromptOf(r))
            /\ devTok' = [devTok EXCEPT ![s] = Junk]
            /\ devPos' = [devPos EXCEPT ![s] = MaxSeq - 1]
            /\ UNCHANGED <<owners, filling, written>>
  BY DEF Prefill
<1>2. s \in Slot /\ r \in Request /\ start \in Nat /\ MaxSeq - 1 \in Nat
  BY SlotOfRow, EngineAssumption DEF Piece
<1>3. seen \in Text
  BY <1>2, SeenIsText
<1>4. PromptOf(r) \in Seq(Token)
  BY <1>2, TextOfRequest
<1> HIDE DEF r, s, seen, start
<1>5. ASSUME NEW i \in start..(stop - 1) PROVE Extend(seen, part(i)) \in Text
  <2>1. start + 1 \in Nat \ {0} /\ i + 1 \in 0..Len(PromptOf(r))
    BY <1>2, <1>4 DEF r
  <2>2. part(i) \in Seq(Token)
    BY <2>1, <1>4, SubSeqOnce
  <2> HIDE DEF part
  <2>3. part(i) \in Seq(Token \cup {Junk})
    BY <2>2
  <2> QED BY <2>3, <1>3, ExtendIsText
<1>6. text \in [start..(stop - 1) -> Text] /\ last \in Text
  <2>1. stop - 1 \in start..(stop - 1)
    BY <1>2 DEF start
  <2> HIDE DEF part
  <2> QED BY <2>1, <1>5
<1> HIDE DEF text, last
<1>7. cache' \in [Page -> [Offset -> Text]]
  <2> DEFINE cell(p, o) ==
        IF p # SinkPage
           /\ \E i \in start..(stop - 1) : PlaceOf(s, i) = p /\ i % PageSize = o
        THEN text[CHOOSE i \in start..(stop - 1) : PlaceOf(s, i) = p /\ i % PageSize = o]
        ELSE cache[p][o]
  <2>1. ASSUME NEW p \in Page, NEW o \in Offset PROVE cell(p, o) \in Text
    BY <1>6 DEF DeviceTypes
  <2>2. cache' = [p \in Page |-> [o \in Offset |-> cell(p, o)]]
    BY <1>1 DEF Written
  <2> HIDE DEF cell
  <2> QED BY <2>1, <2>2
<1>8. devKey' \in [Slot -> Request \cup {None}]
  BY <1>1, <1>2 DEF DeviceTypes
<1>9. CASE stop = Len(PromptOf(r))
  <2>1. PICK t \in Token :
          /\ devTok' = [devTok EXCEPT ![s] = t]
          /\ devPos' = [devPos EXCEPT ![s] = stop]
          /\ owners' = Append(owners, [slot |-> s, req |-> r, token |-> t, key |-> r,
                                       text |-> last, at |-> stop, prompt |-> TRUE])
          /\ filling' = Without(filling, r)
          /\ written' = [written EXCEPT ![s] = stop]
    BY <1>1, <1>9
  <2> DEFINE it == [slot |-> s, req |-> r, token |-> t, key |-> r, text |-> last, at |-> stop,
                    prompt |-> TRUE]
  <2>2. it \in Draw /\ it.req = r /\ it.slot = s /\ it.prompt = TRUE
    BY <1>2, <1>6 DEF Draw
  <2>3. /\ devTok' \in [Slot -> Token \cup {Junk}] /\ devPos' \in [Slot -> Nat]
        /\ written' \in [Slot -> Nat]
    BY <2>1 DEF DeviceTypes
  <2>4. \E x \in Draw : x.req = r /\ x.slot = s /\ x.prompt /\ owners' = Append(owners, x)
    BY <2>1, <2>2
  <2> QED BY <2>1, <2>3, <2>4, <1>7, <1>8, <1>9 DEF r, s
<1>10. CASE stop # Len(PromptOf(r))
  <2>1. /\ devTok' = [devTok EXCEPT ![s] = Junk]
        /\ devPos' = [devPos EXCEPT ![s] = MaxSeq - 1]
        /\ UNCHANGED <<owners, filling, written>>
    BY <1>1, <1>10
  <2>2. /\ devTok' \in [Slot -> Token \cup {Junk}] /\ devPos' \in [Slot -> Nat]
        /\ written' \in [Slot -> Nat]
    BY <2>1, <1>2 DEF DeviceTypes
  <2> QED BY <2>1, <2>2, <1>7, <1>8, <1>10 DEF r
<1> QED BY <1>9, <1>10

\* A pool left alone stays consistent.
LEMMA PoolUnchanged ==
  ASSUME PoolOK, UNCHANGED <<free, refs, pageOf, digestOf, idle>>
  PROVE  PoolOK' /\ UNCHANGED refs /\ DOMAIN digestOf \subseteq DOMAIN digestOf'
BY DEF PoolOK, PoolTypeOK, PoolConsistent, IndexesAgree, ListsPartition

-----------------------------------------------------------------------------
(* What the pages' holders do to the counts.                                *)

\* The pages a request holds are in use.
LEMMA HeldInUse ==
  ASSUME PoolOK, RowTypes, PagesHeld, NEW r \in Request, NEW i \in 1..Len(held[r])
  PROVE  held[r][i] \in Usable /\ refs[held[r][i]] > 0
<1> DEFINE p == held[r][i]
<1>1. p \in Usable /\ p \in Page /\ p \in Range(held[r])
  BY RangeOfLine DEF RowTypes, Usable
<1> HIDE DEF p
<1>2. /\ r \in Holders(p) /\ IsFiniteSet(Holders(p))
      /\ refs[p] = Cardinality(Holders(p)) + (IF p \in Range(giving) THEN 1 ELSE 0)
  BY <1>1 DEF Holders, PagesHeld, RefsCountHolders
<1>3. Cardinality(Holders(p)) \in Nat /\ Cardinality(Holders(p)) # 0
  BY <1>2, FS_CardinalityType, FS_EmptySet
<1>4. refs[p] > 0
  BY <1>2, <1>3
<1> QED BY <1>1, <1>4 DEF p

\* Full pages of a request may be kept by the digests of its text.
LEMMA KeepHeld ==
  ASSUME PoolOK, RowTypes, PagesHeld, NEW r \in Request, NEW text \in Seq(Token),
         NEW m \in Nat \ {0}, NEW n \in Nat, n <= Len(held[r]), n <= Len(text) \div PageSize,
         Keep(SubSeq(held[r], m, n), SubSeq(DigestsOf(text), m, n))
  PROVE  PoolOK' /\ UNCHANGED refs /\ DOMAIN digestOf \subseteq DOMAIN digestOf'
<1> DEFINE ps == SubSeq(held[r], m, n)
           ds == SubSeq(DigestsOf(text), m, n)
<1>1. held[r] \in Seq(Usable) /\ Once(held[r]) /\ n \in 0..Len(held[r])
  BY DEF RowTypes, PagesHeld
<1>2. /\ ps \in Seq(Usable) /\ Once(ps) /\ Range(ps) \subseteq Range(held[r])
      /\ Len(ps) = IF m <= n THEN n - m + 1 ELSE 0
  BY <1>1, SubSeqOnce
<1>3. n \in 0..(Len(text) \div PageSize)
  BY EngineAssumption, Division
<1>4. /\ Len(ds) = IF m <= n THEN n - m + 1 ELSE 0
      /\ \A i, j \in 1..Len(ds) : ds[i] = ds[j] => i = j
  BY <1>3, SomeDigests
<1> HIDE DEF ps, ds
<1>5. ASSUME NEW i \in 1..Len(ps) PROVE refs[ps[i]] > 0
  <2>1. ps[i] \in Range(held[r])
    BY <1>2, RangeOfLine
  <2>2. \E j \in 1..Len(held[r]) : held[r][j] = ps[i]
    BY <2>1, <1>1, RangeOfLine
  <2> QED BY <2>2, HeldInUse
<1>6. \A i, j \in 1..Len(ps) : ds[i] = ds[j] => i = j
  BY <1>2, <1>4
<1>7. Keep(ps, ds)
  BY DEF ps, ds
<1> QED BY <1>2, <1>5, <1>6, <1>7, KeepPool

\* A request lets its pages go, to be given back.
LEMMA HoldersReleased ==
  ASSUME RowTypes, PagesHeld, giving = <<>>, NEW r \in Request,
         UNCHANGED refs, giving' = held[r], held' = [held EXCEPT ![r] = <<>>]
  PROVE  /\ held' \in [Request -> Seq(Usable)] /\ giving' \in Seq(Usable)
         /\ \A q \in Request : Once(held'[q])
         /\ Once(giving')
         /\ \A p \in Page : IsFiniteSet(Holders(p)')
         /\ RefsCountHolders'
<1>1. <<>> \in Seq(Usable) /\ Once(<<>>) /\ Range(<<>>) = {}
  BY EmptyLine
<1>2. /\ held' \in [Request -> Seq(Usable)] /\ giving' \in Seq(Usable)
      /\ \A q \in Request : Once(held'[q])
      /\ Once(giving')
  BY <1>1 DEF RowTypes, PagesHeld
<1>3. ASSUME NEW p \in Page
      PROVE  /\ IsFiniteSet(Holders(p)')
             /\ refs'[p] = Cardinality(Holders(p)') + (IF p \in Range(giving') THEN 1 ELSE 0)
  <2>1. /\ IsFiniteSet(Holders(p)) /\ Range(giving) = {}
        /\ refs[p] = Cardinality(Holders(p)) + (IF p \in Range(giving) THEN 1 ELSE 0)
    BY <1>1 DEF PagesHeld, RefsCountHolders
  <2>2. Holders(p)' = Holders(p) \ {r}
    BY <1>1 DEF Holders, RowTypes
  <2>3. Cardinality(Holders(p)) \in Nat
    BY <2>1, FS_CardinalityType
  <2>4. /\ IsFiniteSet(Holders(p) \ {r})
        /\ Cardinality(Holders(p) \ {r})
             = IF r \in Holders(p) THEN Cardinality(Holders(p)) - 1 ELSE Cardinality(Holders(p))
    BY <2>1, FS_RemoveElement
  <2>5. p \in Range(giving') <=> r \in Holders(p)
    BY DEF Holders
  <2> QED BY <2>1, <2>2, <2>3, <2>4, <2>5
<1> QED BY <1>2, <1>3 DEF RefsCountHolders

\* A request gets a page it does not hold.
LEMMA HolderAdded ==
  ASSUME RowTypes, PagesHeld, PoolOK, NEW r \in Request, NEW q \in Usable,
         q \notin Range(held[r]), UNCHANGED giving,
         refs' = [refs EXCEPT ![q] = @ + 1], held' = [held EXCEPT ![r] = Append(@, q)]
  PROVE  /\ held' \in [Request -> Seq(Usable)]
         /\ \A t \in Request : Once(held'[t])
         /\ \A p \in Page : IsFiniteSet(Holders(p)')
         /\ RefsCountHolders'
         /\ Len(held'[r]) = Len(held[r]) + 1
<1>1. /\ held[r] \in Seq(Usable) /\ Once(held[r]) /\ held'[r] = Append(held[r], q)
      /\ \A t \in Request : t # r => held'[t] = held[t]
  BY DEF RowTypes, PagesHeld
<1>2. /\ held'[r] \in Seq(Usable) /\ Once(held'[r])
      /\ Range(held'[r]) = Range(held[r]) \cup {q}
      /\ Len(held'[r]) = Len(held[r]) + 1
  BY <1>1, AppendOnce
<1>3. held' \in [Request -> Seq(Usable)] /\ \A t \in Request : Once(held'[t])
  BY <1>1, <1>2 DEF RowTypes, PagesHeld
<1>4. refs \in [Page -> Nat]
  BY DEF PoolOK, PoolTypeOK
<1>5. ASSUME NEW p \in Page
      PROVE  /\ IsFiniteSet(Holders(p)')
             /\ refs'[p] = Cardinality(Holders(p)') + (IF p \in Range(giving') THEN 1 ELSE 0)
  <2>1. /\ IsFiniteSet(Holders(p))
        /\ refs[p] = Cardinality(Holders(p)) + (IF p \in Range(giving) THEN 1 ELSE 0)
    BY DEF PagesHeld, RefsCountHolders
  <2>2. Cardinality(Holders(p)) \in Nat
    BY <2>1, FS_CardinalityType
  <2>3. CASE p = q
    <3>1. Holders(p)' = Holders(p) \cup {r} /\ r \notin Holders(p)
      BY <2>3, <1>1, <1>2 DEF Holders
    <3>2. IsFiniteSet(Holders(p) \cup {r})
          /\ Cardinality(Holders(p) \cup {r}) = Cardinality(Holders(p)) + 1
      BY <3>1, <2>1, FS_AddElement
    <3>3. refs'[p] = refs[p] + 1
      BY <2>3, <1>4
    <3> QED BY <2>1, <2>2, <3>1, <3>2, <3>3
  <2>4. CASE p # q
    <3>1. Holders(p)' = Holders(p)
      BY <2>4, <1>1, <1>2 DEF Holders
    <3>2. refs'[p] = refs[p]
      BY <2>4, <1>4
    <3> QED BY <2>1, <3>1, <3>2
  <2> QED BY <2>3, <2>4
<1> QED BY <1>2, <1>3, <1>5 DEF RefsCountHolders

\* A page used by no row is held by no request.
LEMMA UnusedNotHeld ==
  ASSUME RowTypes, PagesHeld, PoolOK, NEW q \in Usable, refs[q] = 0, NEW r \in Request
  PROVE  q \notin Range(held[r])
<1>1. q \in Page
  BY DEF Usable
<1>2. IsFiniteSet(Holders(q)) /\ refs[q] = Cardinality(Holders(q)) + (IF q \in Range(giving) THEN 1 ELSE 0)
  BY <1>1 DEF PagesHeld, RefsCountHolders
<1>3. Cardinality(Holders(q)) \in Nat
  BY <1>2, FS_CardinalityType
<1>4. Cardinality(Holders(q)) = 0
  BY <1>2, <1>3
<1>5. Holders(q) = {}
  BY <1>2, <1>4, FS_EmptySet
<1> QED BY <1>5 DEF Holders

-----------------------------------------------------------------------------
(* What the steps shared by several actions keep.                           *)

\* A page the pool gives a request.
LEMMA TakePage ==
  ASSUME RowTypes, PagesHeld, PoolOK, DeviceTypes, NEW r \in Request, UNCHANGED giving,
         TakeFor(r)
  PROVE  /\ PoolOK' /\ held' \in [Request -> Seq(Usable)]
         /\ \A t \in Request : Once(held'[t])
         /\ \A p \in Page : IsFiniteSet(Holders(p)')
         /\ RefsCountHolders'
         /\ Len(held'[r]) = Len(held[r]) + 1
         /\ \A t \in Request \ {r} : held'[t] = held[t]
         /\ cache' \in [Page -> [Offset -> Text]]
<1>1. PICK q \in Page : /\ Take(q)
                        /\ held' = [held EXCEPT ![r] = Append(@, q)]
                        /\ cache' = [cache EXCEPT ![q] = Wiped]
  BY DEF TakeFor
<1>2. PoolOK' /\ q \in Usable /\ refs[q] = 0 /\ refs' = [refs EXCEPT ![q] = 1]
  BY <1>1, TakePool
<1>3. refs' = [refs EXCEPT ![q] = @ + 1]
  BY <1>2
<1>4. q \notin Range(held[r])
  BY <1>2, UnusedNotHeld
<1>5. /\ held' \in [Request -> Seq(Usable)]
      /\ \A t \in Request : Once(held'[t])
      /\ \A p \in Page : IsFiniteSet(Holders(p)')
      /\ RefsCountHolders'
      /\ Len(held'[r]) = Len(held[r]) + 1
  BY <1>1, <1>2, <1>3, <1>4, HolderAdded
<1>6. cache' \in [Page -> [Offset -> Text]]
  BY <1>1 DEF DeviceTypes, Wiped, Text
<1>7. \A t \in Request \ {r} : held'[t] = held[t]
  BY <1>1 DEF RowTypes
<1> QED BY <1>2, <1>5, <1>6, <1>7

\* The next piece of a prompt that has its pages.
LEMMA TakePiece ==
  ASSUME RowTypes, PassTypes, PagesHeld, PoolOK, NEW r \in Request, MayPass,
         done[r] < Len(PromptOf(r)), Len(held[r]) >= PagesFor(Len(PromptOf(r))),
         TakeChunk(r)
  PROVE  /\ PoolOK' /\ UNCHANGED refs /\ DOMAIN digestOf \subseteq DOMAIN digestOf'
         /\ left' \in Nat \cup {NoLimit}
         /\ done' \in [Request -> Nat]
         /\ \A t \in Request \ {r} : done'[t] = done[t]
         /\ done'[r] <= Len(PromptOf(r))
         /\ \E piece \in Piece :
              /\ chunks' = Append(chunks, piece)
              /\ piece.req = r /\ piece.start < piece.stop /\ piece.stop <= Len(PromptOf(r))
              /\ piece.stop = done'[r]
<1> DEFINE text  == PromptOf(r)
           end   == ChunkEnd(r)
           first == done[r] \div PageSize + 1
           full  == end \div PageSize
           piece == [req |-> r, start |-> done[r], stop |-> end]
<1>1. text \in Seq(Token) /\ Len(text) \in Nat \ {0} /\ PageSize \in Nat \ {0}
  BY TextOfRequest, EngineAssumption
<1>2. /\ done[r] \in Nat /\ done[r] < Len(text) /\ held[r] \in Seq(Usable)
      /\ Len(held[r]) >= Len(text) \div PageSize + 1
  BY DEF RowTypes, PagesFor
<1>3. left \in Nat \cup {NoLimit} /\ (left = NoLimit \/ left > 0) /\ NoLimit = -1
  BY DEF PassTypes, MayPass, NoLimit
<1>4. end = IF left = NoLimit THEN Len(text)
            ELSE IF Len(text) <= done[r] + left THEN Len(text) ELSE done[r] + left
  BY DEF ChunkEnd, Smaller
<1> HIDE DEF text, end
<1>5. /\ end \in Nat /\ done[r] < end /\ end <= Len(text)
      /\ left # NoLimit => left - (end - done[r]) \in Nat
  BY <1>1, <1>2, <1>3, <1>4
<1>6. /\ first \in Nat \ {0} /\ full \in Nat /\ full <= Len(text) \div PageSize
      /\ full <= Len(held[r])
  <2>1. Len(text) \in Nat
    BY <1>1
  <2>2. done[r] \div PageSize \in Nat /\ full \in Nat /\ Len(text) \div PageSize \in Nat
    BY <2>1, <1>1, <1>2, <1>5, Division
  <2>3. full <= Len(text) \div PageSize
    BY <2>1, <1>1, <1>5, DivisionGrows
  <2> HIDE DEF full
  <2>4. full <= Len(held[r])
    BY <2>2, <2>3, <1>2
  <2> QED BY <2>2, <2>3, <2>4
<1> HIDE DEF first, full
<1>7. /\ chunks' = Append(chunks, piece)
      /\ done' = [done EXCEPT ![r] = end]
      /\ left' = IF left = NoLimit THEN NoLimit ELSE left - (end - done[r])
      /\ IF ShareOn
         THEN Keep(SubSeq(held[r], first, full), SubSeq(DigestsOf(text), first, full))
         ELSE UNCHANGED poolVars
  BY DEF TakeChunk, text, end, first, full
<1>8. PoolOK' /\ UNCHANGED refs /\ DOMAIN digestOf \subseteq DOMAIN digestOf'
  <2>1. CASE ShareOn
    BY <2>1, <1>1, <1>6, <1>7, KeepHeld
  <2>2. CASE ~ShareOn
    <3>1. UNCHANGED poolVars
      BY <2>2, <1>7
    <3> QED BY <3>1, PoolUnchanged DEF poolVars
  <2> QED BY <2>1, <2>2
<1>9. piece \in Piece
  BY <1>2, <1>5 DEF Piece
<1>10. /\ left' \in Nat \cup {NoLimit} /\ done' \in [Request -> Nat] /\ done'[r] = end
       /\ \A t \in Request \ {r} : done'[t] = done[t]
  BY <1>5, <1>7 DEF RowTypes
<1> QED BY <1>5, <1>7, <1>8, <1>9, <1>10 DEF text

\* A row is freed, and its pages are to be given back.
LEMMA ReleaseRow ==
  ASSUME RowTypes, DeviceTypes, Admission, PagesHeld, PoolOK, giving = <<>>,
         NEW r \in Rowed, NEW text \in Seq(Token), Len(text) # 0,
         r \in Range(filling) => done[r] <= Len(text),
         Release(r, text)
  PROVE  /\ PoolOK'
         /\ rows' \in [Slot -> Request \cup {None}] /\ Rowed' = Rowed \ {r}
         /\ \A s, t \in Slot : rows'[s] = rows'[t] /\ rows'[s] # None => s = t
         /\ filling' \in Seq(Request) /\ Once(filling')
         /\ Range(filling') = Range(filling) \ {r}
         /\ seniority' \in Seq(Request) /\ Once(seniority')
         /\ Range(seniority') = Range(seniority) \ {r}
         /\ done' \in [Request -> Nat] /\ held' \in [Request -> Seq(Usable)]
         /\ giving' \in Seq(Usable)
         /\ written' \in [Slot -> Nat] /\ assigned' \in [Slot -> Seq(Usable)]
         /\ held'[r] = <<>>
         /\ \A q \in Request \ {r} : held'[q] = held[q] /\ done'[q] = done[q]
         /\ \A q \in Request : Once(held'[q])
         /\ Once(giving')
         /\ \A p \in Page : IsFiniteSet(Holders(p)')
         /\ RefsCountHolders'
<1> DEFINE s == SlotOf(r)
           passed == Passed(r, text)
           full == Smaller(passed \div PageSize, Len(held[r]))
<1>1. s \in Slot /\ rows[s] = r /\ r \in Request /\ r # None
  BY SlotOfRow DEF Rowed
<1>2. /\ rows' = [rows EXCEPT ![s] = None] /\ filling' = Without(filling, r)
      /\ seniority' = Without(seniority, r) /\ done' = [done EXCEPT ![r] = 0]
      /\ giving' = held[r] /\ held' = [held EXCEPT ![r] = <<>>]
      /\ written' = [written EXCEPT ![s] = 0] /\ assigned' = [assigned EXCEPT ![s] = <<>>]
      /\ KeepFull(r, text)
  BY DEF Release
<1> HIDE DEF s
<1>3. PoolOK' /\ UNCHANGED refs
  <2>1. CASE ShareOn
    <3>1. PageSize \in Nat \ {0} /\ Len(text) \in Nat /\ Len(held[r]) \in Nat /\ done[r] \in Nat
      BY <1>1, EngineAssumption DEF RowTypes
    <3>2. passed \in Nat /\ passed <= Len(text)
      BY <3>1 DEF Passed
    <3> HIDE DEF passed
    <3>3. passed \div PageSize \in Nat /\ passed \div PageSize <= Len(text) \div PageSize
      BY <3>1, <3>2, Division, DivisionGrows
    <3>4. Len(text) \div PageSize \in Nat
      BY <3>1, Division
    <3>5. full \in Nat /\ full <= Len(held[r]) /\ full <= Len(text) \div PageSize
      <4> DEFINE a == passed \div PageSize
                 b == Len(text) \div PageSize
                 c == Len(held[r])
      <4>1. a \in Nat /\ a <= b /\ b \in Nat /\ c \in Nat
        BY <3>1, <3>3, <3>4
      <4> HIDE DEF a, b, c
      <4>2. Smaller(a, c) \in Nat /\ Smaller(a, c) <= c /\ Smaller(a, c) <= b
        BY <4>1 DEF Smaller
      <4> QED BY <4>2 DEF a, b, c
    <3>6. Keep(SubSeq(held[r], 1, full), SubSeq(DigestsOf(text), 1, full))
      BY <2>1, <1>2 DEF KeepFull, FirstDigests, passed
    <3> HIDE DEF full
    <3>7. 1 \in Nat \ {0}
      OBVIOUS
    <3> QED BY <3>5, <3>6, <3>7, <1>1, KeepHeld
  <2>2. CASE ~ShareOn
    <3>1. UNCHANGED poolVars
      BY <2>2, <1>2 DEF KeepFull
    <3> QED BY <3>1, PoolUnchanged DEF poolVars
  <2> QED BY <2>1, <2>2
<1>4. /\ held' \in [Request -> Seq(Usable)] /\ giving' \in Seq(Usable)
      /\ \A q \in Request : Once(held'[q])
      /\ Once(giving')
      /\ \A p \in Page : IsFiniteSet(Holders(p)')
      /\ RefsCountHolders'
  BY <1>1, <1>2, <1>3, HoldersReleased
<1>5. /\ rows' \in [Slot -> Request \cup {None}] /\ Rowed' = Rowed \ {r}
      /\ \A t, u \in Slot : rows'[t] = rows'[u] /\ rows'[t] # None => t = u
  <2>1. /\ \A t, u \in Slot : rows[t] = rows[u] /\ rows[t] # None => t = u
        /\ rows \in [Slot -> Request \cup {None}]
    BY DEF Admission, RowTypes
  <2>2. \A t \in Slot : rows'[t] = IF t = s THEN None ELSE rows[t]
    BY <2>1, <1>1, <1>2
  <2>3. \A t \in Slot : t # s => rows[t] # r
    BY <2>1, <1>1
  <2>4. Rowed' = Rowed \ {r}
    BY <2>2, <2>3, <1>1 DEF Rowed
  <2>5. rows' \in [Slot -> Request \cup {None}]
    BY <2>1, <1>2
  <2> QED BY <2>1, <2>2, <2>4, <2>5
<1>6. /\ filling' \in Seq(Request) /\ Once(filling') /\ Range(filling') = Range(filling) \ {r}
      /\ seniority' \in Seq(Request) /\ Once(seniority')
      /\ Range(seniority') = Range(seniority) \ {r}
  BY <1>2, WithoutOnce DEF RowTypes, Admission
<1>7. done' \in [Request -> Nat] /\ written' \in [Slot -> Nat]
      /\ assigned' \in [Slot -> Seq(Usable)]
  BY <1>2 DEF RowTypes, DeviceTypes
<1>8. held'[r] = <<>> /\ \A q \in Request \ {r} : held'[q] = held[q] /\ done'[q] = done[q]
  BY <1>1, <1>2 DEF RowTypes
<1> QED BY <1>3, <1>4, <1>5, <1>6, <1>7, <1>8

-----------------------------------------------------------------------------
(* Parts of the invariant that depend on some variables only.               *)

\* Who is in line, admitted and in a row depends on these variables only.
LEMMA AdmissionKept ==
  ASSUME Admission, UNCHANGED <<submitted, waiting, reason, rows, filling, seniority, placed>>
  PROVE  Admission'
<1>1. Rowed' = Rowed
  BY DEF Rowed
<1> QED BY <1>1 DEF Admission

\* Who holds the pages depends on these variables only, beside whether a request is being placed.
LEMMA PagesHeldKept ==
  ASSUME PagesHeld, UNCHANGED <<refs, held, giving, seniority, waiting>>,
         pc = "sharing" => pc' = "sharing"
  PROVE  PagesHeld'
<1>1. \A p \in Page : Holders(p)' = Holders(p)
  BY DEF Holders
<1> QED BY <1>1 DEF PagesHeld, RefsCountHolders, Once, IsInjective

\* The pages of the prompts in passing cover them still if no prompt, page or chunk changes.
LEMMA FillingHoldKept ==
  ASSUME FillingHold, UNCHANGED <<filling, placed, held, done, tokens, chunks>>,
         pc \in Passing => pc' \in Passing \/ chunks = <<>>
  PROVE  FillingHold'
<1>1. pc \in Passing /\ pc' \notin Passing => Len(chunks) = 0
  OBVIOUS
<1>2. \A r : PromptOf(r)' = PromptOf(r)
  BY DEF PromptOf
<1> SUFFICES ASSUME NEW r \in Range(filling) \cup Range(placed)
             PROVE  /\ Len(held[r]) >= PagesFor(Len(PromptOf(r)))
                    /\ done[r] <= Len(PromptOf(r))
                    /\ \/ done[r] < Len(PromptOf(r))
                       \/ pc' \in Passing /\ \E i \in 1..Len(chunks) :
                            chunks[i].req = r /\ chunks[i].stop = Len(PromptOf(r))
  BY <1>2 DEF FillingHold, Passing
<1>3. /\ Len(held[r]) >= PagesFor(Len(PromptOf(r)))
      /\ done[r] <= Len(PromptOf(r))
      /\ \/ done[r] < Len(PromptOf(r))
         \/ pc \in Passing /\ \E i \in 1..Len(chunks) :
              chunks[i].req = r /\ chunks[i].stop = Len(PromptOf(r))
  BY DEF FillingHold
<1> QED BY <1>1, <1>3

\* The chunks of a step still follow one another if no chunk, prompt or admission changes.
LEMMA PiecesRunKept ==
  ASSUME PiecesRun, UNCHANGED <<chunks, seniority, tokens, filling>>,
         pc' \in Passing => pc \in Passing /\ (pc' = "chunk" => pc = "chunk")
  PROVE  PiecesRun'
BY DEF PiecesRun, PromptOf

\* The lines are lines of requests.
LEMMA LinesOfRequests ==
  ASSUME RowTypes
  PROVE  /\ Range(submitted) \subseteq Request /\ Range(waiting) \subseteq Request
         /\ Range(seniority) \subseteq Request /\ Range(filling) \subseteq Request
         /\ Range(placed) \subseteq Request
BY RangeOfLine DEF RowTypes

\* The draws not read are still of requests submitted if no row, pass or verdict changes.
LEMMA DrawsLiveKept ==
  ASSUME DrawsLive, UNCHANGED <<reason, rows, filling, queued, reading>>,
         pc' \notin {"read", "growread"} => pc \notin {"read", "growread"} \/ reading = <<>>,
         pc' \notin {"mix", "mixpass", "pass"} \/ UNCHANGED <<pc, owners>>
  PROVE  DrawsLive'
<1>1. \A it : Live(it)' = Live(it)
  BY DEF Live, Rowed
<1>2. (\A i \in 1..Len(queued) : \A j \in 1..Len(queued[i]) : Live(queued[i][j]))'
  BY <1>1 DEF DrawsLive
<1>3. (\A j \in 1..Len(reading) : Live(reading[j]))'
  BY <1>1 DEF DrawsLive
<1>4. (pc \in {"mix", "mixpass", "pass"} => \A j \in 1..Len(owners) : Live(owners[j]))'
  BY <1>1 DEF DrawsLive
<1>5. /\ pc' \notin {"read", "growread"} => reading' = <<>>
      /\ pc' = "mixpass" => queued' # <<>>
  BY DEF DrawsLive
<1> QED BY <1>2, <1>3, <1>4, <1>5 DEF DrawsLive

\* A step that moves on, and changes nothing about rows and pages.
LEMMA MovesOn ==
  ASSUME IInv,
         UNCHANGED <<free, refs, pageOf, digestOf, idle, submitted, tokens, reason, waiting,
                     rows, filling, seniority, done, held, written, assigned, giving,
                     positions, chunks, placed, found, devPos, devTok, devKey, cache>>,
         PassTypes', DrawsLive',
         pc # "sharing", pc' # "sharing",
         pc' \in Placing => Len(placed) <= Cardinality(FreeSlots),
         placed # <<>> => pc' \in Placing,
         pc \in Passing => pc' \in Passing \/ chunks = <<>>,
         pc' \in Passing => pc \in Passing /\ (pc' = "chunk" => pc = "chunk")
  PROVE  IInv'
<1>1. PoolOK'
  BY PoolUnchanged DEF IInv
<1>2. RowTypes' /\ DeviceTypes'
  BY DEF IInv, RowTypes, DeviceTypes
<1>3. Admission' /\ PagesHeld'
  BY AdmissionKept, PagesHeldKept DEF IInv
<1>4. FillingHold' /\ PiecesRun'
  BY FillingHoldKept, PiecesRunKept DEF IInv
<1>5. Placement'
  BY DEF IInv, Placement, FreeSlots
<1> QED BY <1>1, <1>2, <1>3, <1>4, <1>5 DEF IInv

\* The free rows can be counted.
LEMMA FreeSlotsFinite ==
  IsFiniteSet(FreeSlots) /\ Cardinality(FreeSlots) \in Nat /\ FreeSlots \in SUBSET Nat
<1>1. NSlots \in Nat /\ FreeSlots \in SUBSET (1..NSlots)
  BY EngineAssumption DEF FreeSlots, Slot
<1>2. IsFiniteSet(1..NSlots)
  BY <1>1, FS_Interval
<1>3. IsFiniteSet(FreeSlots)
  BY <1>1, <1>2, FS_Subset
<1>4. FreeSlots \in SUBSET Nat
  BY <1>1
<1> QED BY <1>3, <1>4, FS_CardinalityType

-----------------------------------------------------------------------------
\* The engine starts with its invariant.
LEMMA InitInv ==
  ASSUME Init
  PROVE  IInv
<1>1. PoolInit
  BY DEF Init
<1>2. PoolOK /\ refs = [p \in Page |-> 0]
  BY <1>1, PoolStart DEF PoolInit
<1>3. \A S : <<>> \in Seq(S) /\ Range(<<>>) = {} /\ Once(<<>>)
  BY EmptyLine
<1>4. RowTypes
  BY <1>3 DEF Init, RowTypes, Reason
<1>5. PassTypes
  <2>1. Pack \in Int
    BY EngineAssumption
  <2> QED BY <2>1, <1>3 DEF Init, PassTypes, Label
<1>6. DeviceTypes
  BY <1>3 DEF Init, DeviceTypes, Wiped, Text
<1>7. Rowed = {}
  BY DEF Init, Rowed
<1>8. Admission
  BY <1>3, <1>7 DEF Init, Admission
<1>9. DrawsLive
  <2>1. queued = <<>> /\ reading = <<>> /\ pc = "idle"
    BY DEF Init
  <2>2. Len(queued) = 0 /\ Len(reading) = 0
    BY <2>1
  <2> QED BY <2>1, <2>2 DEF DrawsLive
<1>10. FillingHold /\ PiecesRun /\ Placement
  BY <1>3 DEF Init, FillingHold, PiecesRun, Placement, Passing, Placing
<1>11. PagesHeld
  <2>1. \A p \in Page : Holders(p) = {}
    BY <1>3 DEF Init, Holders
  <2>2. IsFiniteSet({}) /\ Cardinality({}) = 0
    BY FS_EmptySet
  <2>3. RefsCountHolders
    <3>1. Range(giving) = {}
      BY <1>3 DEF Init
    <3> QED BY <2>1, <2>2, <3>1, <1>2 DEF RefsCountHolders
  <2> QED BY <2>1, <2>2, <2>3, <1>3 DEF Init, PagesHeld
<1> QED BY <1>2, <1>4, <1>5, <1>6, <1>8, <1>9, <1>10, <1>11 DEF IInv

-----------------------------------------------------------------------------
(* The calls.                                                               *)

\* Submit keeps the invariant.
LEMMA SubmitInv ==
  ASSUME IInv, NEW r \in Request, Submit(r)
  PROVE  IInv'
<1>1. /\ submitted' = Append(submitted, r) /\ waiting' = Append(waiting, r)
      /\ r \notin Range(submitted) /\ pc = "idle" /\ giving = <<>>
      /\ UNCHANGED <<free, refs, pageOf, digestOf, idle, tokens, reason, rows, filling,
                     seniority, done, held, written, assigned, giving, positions, queued,
                     reading, ahead, pc, left, chunks, placed, found, room, owners, devPos,
                     devTok, devKey, cache>>
  BY DEF Submit, At, poolVars, rowVars, passVars, localVars, cellVars
<1>2. /\ submitted' \in Seq(Request) /\ Range(submitted') = Range(submitted) \cup {r}
      /\ waiting' \in Seq(Request) /\ Range(waiting') = Range(waiting) \cup {r}
      /\ Once(waiting')
  <2>1. submitted \in Seq(Request) /\ waiting \in Seq(Request) /\ Once(waiting)
        /\ r \notin Range(waiting)
    BY <1>1 DEF IInv, RowTypes, Admission
  <2> QED BY <2>1, <1>1, AppendOnce
<1>3. PoolOK'
  BY <1>1, PoolUnchanged DEF IInv
<1>4. RowTypes' /\ PassTypes' /\ DeviceTypes'
  BY <1>1, <1>2 DEF IInv, RowTypes, PassTypes, DeviceTypes
<1>5. Admission'
  <2>1. Rowed' = Rowed
    BY <1>1 DEF Rowed
  <2>2. Range(waiting') \cap Range(seniority') = {}
    BY <1>1, <1>2 DEF IInv, Admission
  <2> QED BY <2>1, <2>2, <1>1, <1>2 DEF IInv, Admission
<1>6. DrawsLive'
  BY <1>1, DrawsLiveKept DEF IInv
<1>7. FillingHold' /\ PiecesRun' /\ Placement'
  BY <1>1 DEF IInv, FillingHold, PiecesRun, Placement, PromptOf, Passing, Placing
<1>8. PagesHeld'
  <2>1. \A p \in Page : Holders(p)' = Holders(p)
    BY <1>1 DEF Holders
  <2> QED BY <2>1, <1>1 DEF IInv, PagesHeld, RefsCountHolders, Once, IsInjective
<1> QED BY <1>3, <1>4, <1>5, <1>6, <1>7, <1>8 DEF IInv

\* A step begins with every pass, page and row as the calls before it left them.
LEMMA BeginStepInv ==
  ASSUME IInv, BeginStep
  PROVE  IInv'
<1>1. /\ pc = "idle" /\ pc' = "grow"
      /\ UNCHANGED <<free, refs, pageOf, digestOf, idle, submitted, tokens, reason, waiting,
                     rows, filling, seniority, done, held, written, assigned, giving,
                     positions, queued, reading, ahead, left, chunks, placed, found, room,
                     owners, devPos, devTok, devKey, cache>>
  BY DEF BeginStep, At, Goto, poolVars, requestVars, rowVars, passVars, localVars, cellVars
<1>2. PassTypes'
  BY <1>1 DEF IInv, PassTypes, Label
<1>3. DrawsLive'
  BY <1>1, DrawsLiveKept DEF IInv
<1>4. placed = <<>>
  BY <1>1 DEF IInv, Placement, Placing
<1> QED BY <1>1, <1>2, <1>3, <1>4, MovesOn DEF Passing, Placing

\* Cancel keeps the invariant: a request that waits leaves the line, one in a row
\* its row; its draws are not read.
LEMMA CancelInv ==
  ASSUME IInv, NEW r \in Request, Cancel(r)
  PROVE  IInv'
<1>1. /\ pc = "idle" /\ pc' = "idle" /\ giving = <<>> /\ r \in Range(submitted)
      /\ reason' = [reason EXCEPT ![r] = "cancelled"]
      /\ UNCHANGED <<submitted, tokens, positions, queued, reading, ahead, left, chunks,
                     placed, found, room, owners, devPos, devTok, devKey, cache>>
      /\ CancelWaiting(r) \/ CancelRow(r)
  BY DEF Cancel, At, passVars, localVars, cellVars
<1>2. /\ reason' \in [Request -> Reason] /\ reason'[r] = "cancelled"
      /\ \A q \in Request \ {r} : reason'[q] = reason[q]
  BY <1>1 DEF IInv, RowTypes, Reason
<1>3. placed = <<>> /\ Range(placed) = {}
  BY <1>1, EmptyLine DEF IInv, Placement, Placing
<1>4. CASE CancelWaiting(r)
  <2>1. /\ r \in Range(waiting) /\ waiting' = Without(waiting, r)
        /\ UNCHANGED <<free, refs, pageOf, digestOf, idle, rows, filling, seniority, done,
                       held, written, assigned, giving>>
    BY <1>4 DEF CancelWaiting, poolVars, rowVars
  <2>2. /\ waiting' \in Seq(Request) /\ Once(waiting')
        /\ Range(waiting') = Range(waiting) \ {r}
    BY <2>1, WithoutOnce DEF IInv, RowTypes, Admission
  <2>3. Rowed' = Rowed /\ r \notin Range(seniority) /\ r \notin Rowed
    BY <2>1 DEF Rowed, IInv, Admission
  <2>4. PoolOK'
    BY <2>1, PoolUnchanged DEF IInv
  <2>5. RowTypes' /\ PassTypes' /\ DeviceTypes'
    BY <1>1, <1>2, <2>1, <2>2 DEF IInv, RowTypes, PassTypes, DeviceTypes
  <2>6. Admission'
    <3>1. \A q \in Range(waiting') \cup Range(seniority') : reason'[q] = ""
      BY <1>2, <2>1, <2>2, <2>3, LinesOfRequests DEF IInv, Admission
    <3>2. \A q \in Request \ Range(submitted) : reason'[q] = ""
      BY <1>1, <1>2 DEF IInv, Admission
    <3> QED BY <3>1, <3>2, <1>1, <2>1, <2>2, <2>3 DEF IInv, Admission
  <2>7. DrawsLive'
    <3>1. ASSUME NEW it \in Draw, Live(it) PROVE Live(it)'
      BY <3>1, <1>2, <2>1, <2>3 DEF Live, Draw
    <3> QED BY <3>1, <1>1 DEF IInv, DrawsLive, PassTypes
  <2>8. FillingHold' /\ PiecesRun' /\ Placement'
    BY <1>1, <2>1 DEF IInv, FillingHold, PiecesRun, Placement, PromptOf, Passing, Placing
  <2>9. PagesHeld'
    <3>1. \A p \in Page : Holders(p)' = Holders(p)
      BY <2>1 DEF Holders
    <3> QED BY <3>1, <1>1, <2>1 DEF IInv, PagesHeld, RefsCountHolders
  <2> QED BY <2>4, <2>5, <2>6, <2>7, <2>8, <2>9 DEF IInv
<1>5. CASE CancelRow(r)
  <2> DEFINE text == PromptOf(r)
  <2>1. Release(r, text) /\ UNCHANGED waiting /\ r \in Rowed
    BY <1>5, EngineAssumption DEF CancelRow, Rowed
  <2>2. text \in Seq(Token) /\ Len(text) # 0
    BY TextOfRequest DEF IInv
  <2>3. r \in Range(filling) => done[r] <= Len(text)
    BY DEF IInv, FillingHold
  <2> HIDE DEF text
  <2>4. /\ PoolOK'
        /\ rows' \in [Slot -> Request \cup {None}] /\ Rowed' = Rowed \ {r}
        /\ \A s, t \in Slot : rows'[s] = rows'[t] /\ rows'[s] # None => s = t
        /\ filling' \in Seq(Request) /\ Once(filling')
        /\ Range(filling') = Range(filling) \ {r}
        /\ seniority' \in Seq(Request) /\ Once(seniority')
        /\ Range(seniority') = Range(seniority) \ {r}
        /\ done' \in [Request -> Nat] /\ held' \in [Request -> Seq(Usable)]
        /\ giving' \in Seq(Usable)
        /\ written' \in [Slot -> Nat] /\ assigned' \in [Slot -> Seq(Usable)]
        /\ held'[r] = <<>>
        /\ \A q \in Request \ {r} : held'[q] = held[q] /\ done'[q] = done[q]
        /\ \A q \in Request : Once(held'[q])
        /\ Once(giving')
        /\ \A p \in Page : IsFiniteSet(Holders(p)')
        /\ RefsCountHolders'
    BY <1>1, <2>1, <2>2, <2>3, ReleaseRow DEF IInv
  <2>5. RowTypes' /\ PassTypes' /\ DeviceTypes'
    BY <1>1, <1>2, <2>1, <2>4 DEF IInv, RowTypes, PassTypes, DeviceTypes
  <2>6. Admission'
    <3>1. r \in Range(seniority)
      BY <2>1 DEF IInv, Admission
    <3>2. \A q \in Range(waiting') \cup Range(seniority') : reason'[q] = ""
      BY <3>1, <1>2, <2>1, <2>4, LinesOfRequests DEF IInv, Admission
    <3>3. \A q \in Request \ Range(submitted) : reason'[q] = ""
      BY <1>1, <1>2 DEF IInv, Admission
    <3>4. /\ Range(seniority') = Rowed' \cup Range(placed')
          /\ Rowed' \cap Range(placed') = {} /\ Range(filling') \subseteq Rowed'
      BY <1>1, <1>3, <2>4 DEF IInv, Admission
    <3> QED BY <3>2, <3>3, <3>4, <1>1, <2>1, <2>4 DEF IInv, Admission
  <2>7. DrawsLive'
    <3>1. ASSUME NEW it \in Draw, Live(it) PROVE Live(it)'
      BY <3>1, <1>2, <2>4 DEF Live, Draw
    <3> QED BY <3>1, <1>1 DEF IInv, DrawsLive, PassTypes
  <2>8. FillingHold'
    <3>1. ASSUME NEW q \in Range(filling') \cup Range(placed')
          PROVE  /\ Len(held'[q]) >= PagesFor(Len(PromptOf(q)))
                 /\ done'[q] < Len(PromptOf(q)) /\ done'[q] <= Len(PromptOf(q))
      <4>1. q \in Range(filling) /\ q \in Request \ {r}
        BY <3>1, <1>1, <1>3, <2>4, RangeOfLine DEF IInv, RowTypes
      <4> QED BY <4>1, <1>1, <2>4 DEF IInv, FillingHold, Passing
    <3>2. \A q : PromptOf(q)' = PromptOf(q)
      BY <1>1 DEF PromptOf
    <3> QED BY <3>1, <3>2 DEF FillingHold
  <2>9. PiecesRun' /\ Placement'
    BY <1>1, <1>3 DEF PiecesRun, Placement, IInv, Passing, Placing
  <2>10. PagesHeld'
    BY <1>1, <2>1, <2>4 DEF IInv, PagesHeld
  <2> QED BY <2>4, <2>5, <2>6, <2>7, <2>8, <2>9, <2>10 DEF IInv
<1> QED BY <1>1, <1>4, <1>5

\* New weights keep the invariant: nothing is in a row, and the pool forgets.
LEMMA LoadWeightsInv ==
  ASSUME IInv, LoadWeights
  PROVE  IInv'
<1>1. /\ Forget /\ pc = "idle" /\ pc' = "idle"
      /\ cache' = [p \in Page |-> Wiped]
      /\ UNCHANGED <<submitted, tokens, reason, waiting, rows, filling, seniority, done, held,
                     written, assigned, giving, positions, queued, reading, ahead, left,
                     chunks, placed, found, room, owners, devPos, devTok, devKey>>
  BY DEF LoadWeights, At, requestVars, rowVars, passVars, localVars
<1>2. PoolOK' /\ UNCHANGED refs
  BY <1>1, ForgetPool DEF IInv
<1>3. RowTypes' /\ PassTypes'
  BY <1>1 DEF IInv, RowTypes, PassTypes
<1>4. DeviceTypes'
  BY <1>1 DEF IInv, DeviceTypes, Wiped, Text
<1>5. Admission' /\ DrawsLive'
  BY <1>1, AdmissionKept, DrawsLiveKept DEF IInv
<1>6. FillingHold' /\ PiecesRun' /\ PagesHeld'
  BY <1>1, <1>2, FillingHoldKept, PiecesRunKept, PagesHeldKept DEF IInv
<1>7. Placement'
  BY <1>1 DEF IInv, Placement, Placing
<1> QED BY <1>2, <1>3, <1>4, <1>5, <1>6, <1>7 DEF IInv

\* Reset keeps the invariant: the engine is as a new one.
LEMMA ResetInv ==
  ASSUME IInv, Reset
  PROVE  IInv'
<1>1. /\ pc = "idle" /\ pc' = "idle" /\ giving = <<>> /\ giving' = <<>>
      /\ submitted' = <<>> /\ waiting' = <<>> /\ filling' = <<>> /\ seniority' = <<>>
      /\ tokens' = [r \in Request |-> <<>>] /\ reason' = [r \in Request |-> ""]
      /\ rows' = [s \in Slot |-> None]
      /\ positions' = [s \in Slot |-> 0] /\ written' = [s \in Slot |-> 0]
      /\ queued' = <<>>
      /\ done' = [r \in Request |-> 0] /\ held' = [r \in Request |-> <<>>]
      /\ assigned' = [s \in Slot |-> <<>>]
      /\ free' = [i \in 1..(NPages - 1) |-> NPages - i]
      /\ refs' = [p \in Page |-> 0]
      /\ pageOf' = <<>> /\ digestOf' = <<>> /\ idle' = <<>>
      /\ cache' = [p \in Page |-> Wiped]
      /\ UNCHANGED <<reading, ahead, left, chunks, placed, found, room, owners, devPos, devTok,
                     devKey>>
  BY DEF Reset, At, localVars
<1>2. PoolOK'
  <2>1. PoolInit'
    BY <1>1 DEF PoolInit, Page
  <2> QED BY <2>1, PoolStart, PTL
<1>3. \A S : <<>> \in Seq(S) /\ Range(<<>>) = {} /\ Once(<<>>)
  BY EmptyLine
<1>4. RowTypes' /\ PassTypes' /\ DeviceTypes'
  BY <1>1, <1>3 DEF IInv, RowTypes, PassTypes, DeviceTypes, Reason, Wiped, Text
<1>5. Rowed' = {} /\ placed = <<>> /\ reading = <<>>
  BY <1>1 DEF Rowed, IInv, Placement, Placing, DrawsLive
<1>6. Admission'
  BY <1>1, <1>3, <1>5 DEF Admission
<1>7. DrawsLive'
  <2>1. queued' = <<>> /\ reading' = <<>> /\ pc' = "idle"
    BY <1>1, <1>5
  <2>2. Len(queued') = 0 /\ Len(reading') = 0
    BY <2>1
  <2>3. 1..0 = {}
    OBVIOUS
  <2> HIDE <1>1
  <2> QED BY <2>1, <2>2, <2>3 DEF DrawsLive
<1>8. FillingHold' /\ PiecesRun' /\ Placement'
  BY <1>1, <1>3, <1>5 DEF FillingHold, PiecesRun, Placement, Passing, Placing
<1>9. PagesHeld'
  <2>1. \A p \in Page : Holders(p)' = {}
    BY <1>1, <1>3 DEF Holders
  <2>2. IsFiniteSet({}) /\ Cardinality({}) = 0
    BY FS_EmptySet
  <2>3. RefsCountHolders'
    <3>1. Range(giving') = {}
      BY <1>1, <1>3
    <3>2. ASSUME NEW p \in Page
          PROVE  refs'[p] = Cardinality(Holders(p)') + (IF p \in Range(giving') THEN 1 ELSE 0)
      <4>1. refs'[p] = 0 /\ Cardinality(Holders(p)') = 0 /\ p \notin Range(giving')
        BY <2>1, <2>2, <3>1, <1>1
      <4> QED BY <4>1
    <3> QED BY <3>2 DEF RefsCountHolders
  <2> QED BY <2>1, <2>2, <2>3, <1>1, <1>3 DEF PagesHeld
<1> QED BY <1>2, <1>4, <1>6, <1>7, <1>8, <1>9 DEF IInv

-----------------------------------------------------------------------------
(* A released page, and growing.                                            *)

\* A page given back is counted for one request less.
LEMMA GiveBackPageInv ==
  ASSUME IInv, GiveBackPage
  PROVE  IInv'
<1> DEFINE q == Last(giving)
<1>1. /\ giving # <<>> /\ GiveBack(q) /\ giving' = Front(giving)
      /\ cache' = IF refs[q] <= 1 /\ q \notin DOMAIN digestOf
                  THEN [cache EXCEPT ![q] = Wiped] ELSE cache
      /\ UNCHANGED <<submitted, tokens, reason, waiting, rows, filling, seniority, done, held,
                     written, assigned, positions, queued, reading, ahead, pc, left, chunks,
                     placed, found, room, owners, devPos, devTok, devKey>>
  BY DEF GiveBackPage, requestVars, passVars, localVars
<1>2. /\ giving' \in Seq(Usable) /\ Once(giving') /\ Range(giving') = Range(giving) \ {q}
      /\ q \in Range(giving) /\ q \in Usable /\ q \in Page
  <2>1. giving \in Seq(Usable) /\ Once(giving)
    BY DEF IInv, RowTypes, PagesHeld
  <2> QED BY <2>1, <1>1, FrontOnce, RangeOfLine DEF Usable
<1> HIDE DEF q
<1>3. \A p \in Page :
        /\ IsFiniteSet(Holders(p)) /\ Cardinality(Holders(p)) \in Nat
        /\ refs[p] = Cardinality(Holders(p)) + (IF p \in Range(giving) THEN 1 ELSE 0)
  BY FS_CardinalityType DEF IInv, PagesHeld, RefsCountHolders
<1>4. refs[q] > 0 /\ refs \in [Page -> Nat]
  BY <1>2, <1>3 DEF IInv, PoolOK, PoolTypeOK
<1>5. PoolOK' /\ refs' = [refs EXCEPT ![q] = @ - 1] /\ UNCHANGED digestOf
  <2>1. PoolOK' /\ refs' = [refs EXCEPT ![q] = @ - 1]
    BY <1>1, <1>2, <1>4, GiveBackPool DEF IInv
  <2> QED BY <2>1, <1>1 DEF GiveBack
<1>6. RowTypes' /\ PassTypes'
  BY <1>1, <1>2 DEF IInv, RowTypes, PassTypes
<1>7. DeviceTypes'
  BY <1>1 DEF IInv, DeviceTypes, Wiped, Text
<1>8. Admission'
  BY <1>1, AdmissionKept DEF IInv
<1>9. DrawsLive'
  BY <1>1, DrawsLiveKept DEF IInv
<1>10. FillingHold' /\ PiecesRun'
  BY <1>1, FillingHoldKept, PiecesRunKept DEF IInv
<1>11. Placement'
  BY <1>1, <1>5 DEF IInv, Placement, FreeSlots, PromptOf, MayPass
<1>12. PagesHeld'
  <2>1. \A p \in Page : Holders(p)' = Holders(p)
    BY <1>1 DEF Holders
  <2>2. ASSUME NEW p \in Page
        PROVE  refs'[p] = Cardinality(Holders(p)') + (IF p \in Range(giving') THEN 1 ELSE 0)
    <3>1. CASE p = q
      <4>1. refs'[p] = refs[p] - 1 /\ p \in Range(giving) /\ p \notin Range(giving')
        BY <3>1, <1>2, <1>4, <1>5
      <4> QED BY <4>1, <2>1, <1>3
    <3>2. CASE p # q
      <4>1. refs'[p] = refs[p] /\ (p \in Range(giving) <=> p \in Range(giving'))
        BY <3>2, <1>2, <1>4, <1>5
      <4> QED BY <4>1, <2>1, <1>3
    <3> QED BY <3>1, <3>2
  <2>3. RefsCountHolders'
    BY <2>2 DEF RefsCountHolders
  <2> QED BY <2>1, <2>3, <1>1, <1>2 DEF IInv, PagesHeld
<1> QED BY <1>5, <1>6, <1>7, <1>8, <1>9, <1>10, <1>11, <1>12 DEF IInv

\* Short of pages, the queued passes are read first.
LEMMA GrowReadInv ==
  ASSUME IInv, GrowRead
  PROVE  IInv'
<1>1. /\ pc = "grow" /\ pc' = "growread" /\ ahead' = 0
      /\ UNCHANGED <<free, refs, pageOf, digestOf, idle, submitted, tokens, reason, waiting,
                     rows, filling, seniority, done, held, written, assigned, giving,
                     positions, queued, reading, left, chunks, placed, found, room,
                     owners, devPos, devTok, devKey, cache>>
  BY DEF GrowRead, At, Goto, poolVars, requestVars, rowVars, localVars, cellVars
<1>2. PassTypes'
  BY <1>1 DEF IInv, PassTypes, Label
<1>3. DrawsLive'
  BY <1>1, DrawsLiveKept DEF IInv
<1>4. placed = <<>>
  BY <1>1 DEF IInv, Placement, Placing
<1> QED BY <1>1, <1>2, <1>3, <1>4, MovesOn DEF Passing, Placing

\* Short of pages there is a row to preempt.
LEMMA VictimInRow ==
  ASSUME IInv, pc = "grow", short
  PROVE  /\ Rowed # {} /\ seniority # <<>>
         /\ Victim \in Rowed /\ Victim \in Request /\ Victim \in Range(seniority)
<1>1. placed = <<>> /\ Range(placed) = {}
  BY EmptyLine DEF IInv, Placement, Placing
<1>2. Rowed # {}
  <2>1. free \in Seq(Usable) /\ idle \in Seq(Usable)
    BY PoolLines DEF IInv, PoolOK
  <2>2. available \in Nat
    BY <2>1 DEF available
  <2>3. Cardinality({}) = 0
    BY FS_EmptySet
  <2>4. Needy # {}
    <3> SUFFICES ASSUME Needy = {} PROVE FALSE
      OBVIOUS
    <3>1. Cardinality(Needy) = 0 /\ Cardinality(Needy) > available
      BY <2>3 DEF short
    <3> HIDE DEF Needy
    <3> QED BY <3>1, <2>2
  <2> QED BY <2>4 DEF Needy, Decoding, Rowed
<1>3. seniority # <<>> /\ Victim \in Rowed /\ Victim \in Request /\ Victim \in Range(seniority)
  <2>1. seniority \in Seq(Request) /\ Range(seniority) = Rowed
    BY <1>1 DEF IInv, RowTypes, Admission
  <2>2. seniority # <<>>
    BY <1>2, <2>1, EmptyLine
  <2> QED BY <2>1, <2>2, FrontOnce, RangeOfLine DEF Victim
<1> QED BY <1>2, <1>3

\* The request admitted last goes back to the head of the line: it is in a row, and
\* nothing drawn for it is queued.
LEMMA GrowPreemptInv ==
  ASSUME IInv, GrowPreempt
  PROVE  IInv'
<1> DEFINE r == Victim
           text == PromptOf(r)
<1>1. /\ pc = "grow" /\ pc' = "grow" /\ giving = <<>> /\ short /\ queued = <<>>
      /\ Release(r, text) /\ waiting' = <<r>> \o waiting
      /\ UNCHANGED <<submitted, tokens, reason, positions, queued, reading, ahead, left, chunks,
                     placed, found, room, owners, devPos, devTok, devKey, cache>>
  BY DEF GrowPreempt, Requeue, At, requestVars, passVars, localVars, cellVars
<1>2. placed = <<>> /\ Range(placed) = {} /\ reading = <<>>
  BY <1>1, EmptyLine DEF IInv, Placement, Placing, DrawsLive
<1>4. Rowed # {} /\ r \in Rowed /\ r \in Request /\ r \in Range(seniority)
  BY <1>1, VictimInRow
<1> HIDE DEF r
<1>5. text \in Seq(Token) /\ Len(text) # 0
  BY <1>4, TextOfRequest DEF IInv
<1>6. r \in Range(filling) => done[r] <= Len(text)
  BY DEF IInv, FillingHold
<1> HIDE DEF text
<1>7. /\ PoolOK'
      /\ rows' \in [Slot -> Request \cup {None}] /\ Rowed' = Rowed \ {r}
      /\ \A s, t \in Slot : rows'[s] = rows'[t] /\ rows'[s] # None => s = t
      /\ filling' \in Seq(Request) /\ Once(filling')
      /\ Range(filling') = Range(filling) \ {r}
      /\ seniority' \in Seq(Request) /\ Once(seniority')
      /\ Range(seniority') = Range(seniority) \ {r}
      /\ done' \in [Request -> Nat] /\ held' \in [Request -> Seq(Usable)]
      /\ giving' \in Seq(Usable)
      /\ written' \in [Slot -> Nat] /\ assigned' \in [Slot -> Seq(Usable)]
      /\ held'[r] = <<>>
      /\ \A q \in Request \ {r} : held'[q] = held[q] /\ done'[q] = done[q]
      /\ \A q \in Request : Once(held'[q])
      /\ Once(giving')
      /\ \A p \in Page : IsFiniteSet(Holders(p)')
      /\ RefsCountHolders'
  BY <1>1, <1>4, <1>5, <1>6, ReleaseRow DEF IInv
<1>8. /\ waiting' \in Seq(Request) /\ Once(waiting')
      /\ Range(waiting') = Range(waiting) \cup {r}
  <2>1. waiting \in Seq(Request) /\ Once(waiting) /\ r \notin Range(waiting)
    BY <1>4 DEF IInv, RowTypes, Admission
  <2> QED BY <2>1, <1>1, <1>4, ConsOnce
<1>9. RowTypes' /\ PassTypes' /\ DeviceTypes'
  BY <1>1, <1>7, <1>8 DEF IInv, RowTypes, PassTypes, DeviceTypes
<1>10. Admission'
  <2>1. \A q \in Range(waiting') \cup Range(seniority') : reason'[q] = ""
    BY <1>1, <1>4, <1>7, <1>8 DEF IInv, Admission
  <2>2. /\ Range(waiting') \cap Range(seniority') = {}
        /\ Range(waiting') \cup Range(seniority') \subseteq Range(submitted')
    BY <1>1, <1>4, <1>7, <1>8 DEF IInv, Admission
  <2>3. /\ Range(seniority') = Rowed' \cup Range(placed')
        /\ Rowed' \cap Range(placed') = {} /\ Range(filling') \subseteq Rowed'
    BY <1>1, <1>2, <1>7 DEF IInv, Admission
  <2> QED BY <2>1, <2>2, <2>3, <1>1, <1>7, <1>8 DEF IInv, Admission
<1>11. DrawsLive'
  <2>1. Len(queued) = 0 /\ Len(reading) = 0
    BY <1>1, <1>2
  <2> QED BY <2>1, <1>1, <1>2 DEF DrawsLive
<1>12. FillingHold'
  <2>1. ASSUME NEW q \in Range(filling') \cup Range(placed')
        PROVE  /\ Len(held'[q]) >= PagesFor(Len(PromptOf(q)))
               /\ done'[q] < Len(PromptOf(q)) /\ done'[q] <= Len(PromptOf(q))
    <3>1. q \in Range(filling) /\ q \in Request \ {r}
      BY <2>1, <1>1, <1>2, <1>7, LinesOfRequests DEF IInv
    <3> QED BY <3>1, <1>1, <1>7 DEF IInv, FillingHold, Passing
  <2>2. \A q : PromptOf(q)' = PromptOf(q)
    BY <1>1 DEF PromptOf
  <2> QED BY <2>1, <2>2 DEF FillingHold
<1>13. PiecesRun' /\ Placement'
  BY <1>1, <1>2 DEF PiecesRun, Placement, Passing, Placing
<1>14. PagesHeld'
  BY <1>1, <1>7 DEF IInv, PagesHeld
<1> QED BY <1>7, <1>9, <1>10, <1>11, <1>12, <1>13, <1>14 DEF IInv

\* A row that starts a page gets one.
LEMMA GrowTakeInv ==
  ASSUME IInv, GrowTake
  PROVE  IInv'
<1> DEFINE s == Min(Needy)
           r == rows[s]
<1>1. /\ pc = "grow" /\ pc' = "grow" /\ giving = <<>> /\ Needy # {}
      /\ TakeFor(r) /\ assigned' = [assigned EXCEPT ![s] = held'[r]]
      /\ UNCHANGED <<submitted, tokens, reason, waiting, rows, filling, seniority, done,
                     written, giving, positions, queued, reading, ahead, left, chunks, placed,
                     found, room, owners, devPos, devTok, devKey>>
  BY DEF GrowTake, At, requestVars, passVars, localVars
<1>2. s \in Slot /\ r \in Rowed /\ r \in Request
  <2>1. Needy \in SUBSET Nat /\ Needy \subseteq Slot
    BY EngineAssumption DEF Needy, Decoding, Slot
  <2>2. s \in Needy
    BY <2>1, <1>1, MinIsLeast
  <2> QED BY <2>1, <2>2 DEF Needy, Decoding, Rowed, IInv, RowTypes
<1> HIDE DEF s, r
<1>3. /\ PoolOK' /\ held' \in [Request -> Seq(Usable)]
      /\ \A t \in Request : Once(held'[t])
      /\ \A p \in Page : IsFiniteSet(Holders(p)')
      /\ RefsCountHolders'
      /\ Len(held'[r]) = Len(held[r]) + 1
      /\ \A t \in Request \ {r} : held'[t] = held[t]
      /\ cache' \in [Page -> [Offset -> Text]]
  BY <1>1, <1>2, TakePage DEF IInv
<1>4. RowTypes' /\ PassTypes' /\ DeviceTypes'
  BY <1>1, <1>2, <1>3 DEF IInv, RowTypes, PassTypes, DeviceTypes
<1>5. Admission'
  BY <1>1, AdmissionKept DEF IInv
<1>6. DrawsLive' /\ PiecesRun'
  BY <1>1, DrawsLiveKept, PiecesRunKept DEF IInv
<1>7. FillingHold'
  <2>1. ASSUME NEW q \in Range(filling) \cup Range(placed)
        PROVE  /\ Len(held'[q]) >= PagesFor(Len(PromptOf(q)))
               /\ done[q] < Len(PromptOf(q)) /\ done[q] <= Len(PromptOf(q))
    <3>1. /\ Len(held[q]) >= PagesFor(Len(PromptOf(q)))
          /\ done[q] < Len(PromptOf(q)) /\ done[q] <= Len(PromptOf(q))
      BY <2>1, <1>1 DEF IInv, FillingHold, Passing
    <3>2. q \in Request
      BY <2>1, LinesOfRequests DEF IInv
    <3>3. CASE q = r
      <4> DEFINE a == PagesFor(Len(PromptOf(q)))
                 b == Len(held[r])
      <4>1. a \in Nat /\ b \in Nat
        <5>1. Len(PromptOf(q)) \in Nat /\ PageSize \in Nat \ {0}
          BY <3>2, TextOfRequest, EngineAssumption DEF IInv
        <5>2. Len(PromptOf(q)) \div PageSize \in Nat
          BY <5>1, Division
        <5> QED BY <5>2, <1>2 DEF PagesFor, IInv, RowTypes
      <4>2. Len(held'[q]) = b + 1 /\ b >= a
        BY <3>1, <3>3, <1>3
      <4> HIDE DEF a, b
      <4>3. Len(held'[q]) >= a
        BY <4>1, <4>2
      <4> QED BY <4>3, <3>1 DEF a
    <3>4. CASE q # r
      BY <3>1, <3>2, <3>4, <1>3
    <3> QED BY <3>3, <3>4
  <2>2. \A q : PromptOf(q)' = PromptOf(q)
    BY <1>1 DEF PromptOf
  <2> QED BY <2>1, <2>2, <1>1 DEF FillingHold
<1>8. Placement'
  BY <1>1 DEF IInv, Placement, Placing
<1>9. PagesHeld'
  <2>1. \A q \in Request : held'[q] # <<>> => q \in Range(seniority)
    BY <1>1, <1>2, <1>3 DEF IInv, PagesHeld, Admission
  <2> QED BY <2>1, <1>1, <1>3 DEF IInv, PagesHeld
<1> QED BY <1>3, <1>4, <1>5, <1>6, <1>7, <1>8, <1>9 DEF IInv

\* Every row has its page: the prompts may pass.
LEMMA GrowDoneInv ==
  ASSUME IInv, GrowDone
  PROVE  IInv'
<1>1. /\ pc = "grow" /\ pc' = "chunk" /\ chunks' = <<>> /\ giving = <<>>
      /\ left' \in {Chunk, NoLimit}
      /\ UNCHANGED <<free, refs, pageOf, digestOf, idle, submitted, tokens, reason, waiting,
                     rows, filling, seniority, done, held, written, assigned, giving,
                     positions, queued, reading, ahead, placed, found, room, owners, devPos,
                     devTok, devKey, cache>>
  BY DEF GrowDone, At, Goto, poolVars, requestVars, rowVars, passVars, cellVars
<1>2. Chunk \in Nat
  BY EngineAssumption
<1>3. <<>> \in Seq(Piece) /\ Len(<<>>) = 0
  BY EmptyLine
<1>4. PassTypes'
  BY <1>1, <1>2, <1>3 DEF IInv, PassTypes, Label
<1>5. PoolOK' /\ RowTypes' /\ DeviceTypes'
  BY <1>1, PoolUnchanged DEF IInv, RowTypes, DeviceTypes
<1>6. Admission' /\ DrawsLive' /\ PagesHeld'
  BY <1>1, AdmissionKept, DrawsLiveKept, PagesHeldKept DEF IInv
<1>7. FillingHold'
  <2>1. \A q : PromptOf(q)' = PromptOf(q)
    BY <1>1 DEF PromptOf
  <2> QED BY <2>1, <1>1 DEF IInv, FillingHold, Passing
<1>8. PiecesRun'
  BY <1>1, <1>3 DEF PiecesRun
<1>9. Placement'
  BY <1>1 DEF IInv, Placement, Placing
<1> QED BY <1>4, <1>5, <1>6, <1>7, <1>8, <1>9 DEF IInv

-----------------------------------------------------------------------------
(* Chunks and places.                                                       *)

\* A prompt in a row passes its next piece.
LEMMA ChunkFillingInv ==
  ASSUME IInv, ChunkFilling
  PROVE  IInv'
<1> DEFINE n == Len(chunks)
           r == filling[n + 1]
<1>1. /\ pc = "chunk" /\ pc' = "chunk" /\ MayPass /\ n < Len(filling) /\ TakeChunk(r)
      /\ UNCHANGED <<submitted, tokens, reason, waiting, rows, filling, seniority, held, written,
                     assigned, giving, positions, queued, reading, ahead, placed, found,
                     room, owners, devPos, devTok, devKey, cache>>
  BY DEF ChunkFilling, At, requestVars, passVars, cellVars
<1>2. n \in Nat /\ n + 1 \in 1..Len(filling) /\ r \in Range(filling) /\ r \in Request
  <2>1. filling \in Seq(Request) /\ n \in Nat
    BY DEF IInv, RowTypes, PassTypes
  <2>2. n + 1 \in 1..Len(filling)
    BY <2>1, <1>1
  <2> QED BY <2>1, <2>2, RangeOfLine
<1> HIDE DEF n
<1>3. done[r] < Len(PromptOf(r)) /\ Len(held[r]) >= PagesFor(Len(PromptOf(r)))
  <2>1. \A i \in 1..Len(chunks) : i # n + 1 /\ i \in 1..Len(filling) /\ chunks[i].req = filling[i]
    BY <1>1, <1>2 DEF IInv, PiecesRun, Passing, n
  <2>2. \A i \in 1..Len(filling) : filling[i] = filling[n + 1] => i = n + 1
    BY <1>2, OnceOfLine DEF IInv, RowTypes, Admission
  <2>3. \A i \in 1..Len(chunks) : chunks[i].req # r
    BY <2>1, <2>2
  <2> HIDE DEF r
  <2> QED BY <2>3, <1>2 DEF IInv, FillingHold
<1> HIDE DEF r
<1>4. /\ PoolOK' /\ UNCHANGED refs /\ DOMAIN digestOf \subseteq DOMAIN digestOf'
      /\ left' \in Nat \cup {NoLimit} /\ done' \in [Request -> Nat]
      /\ \A t \in Request \ {r} : done'[t] = done[t]
      /\ done'[r] <= Len(PromptOf(r))
      /\ \E piece \in Piece :
           /\ chunks' = Append(chunks, piece)
           /\ piece.req = r /\ piece.start < piece.stop /\ piece.stop <= Len(PromptOf(r))
           /\ piece.stop = done'[r]
  BY <1>1, <1>2, <1>3, TakePiece DEF IInv
<1>5. PICK piece \in Piece :
        /\ chunks' = Append(chunks, piece)
        /\ piece.req = r /\ piece.start < piece.stop /\ piece.stop <= Len(PromptOf(r))
        /\ piece.stop = done'[r]
  BY <1>4
<1>6. /\ chunks' \in Seq(Piece) /\ Len(chunks') = n + 1 /\ chunks'[n + 1] = piece
      /\ \A i \in 1..n : chunks'[i] = chunks[i]
      /\ 1..(n + 1) = 1..n \cup {n + 1}
  BY <1>5, <1>2 DEF IInv, PassTypes, n
<1>7. RowTypes' /\ PassTypes' /\ DeviceTypes'
  BY <1>1, <1>4, <1>6 DEF IInv, RowTypes, PassTypes, DeviceTypes
<1>8. Admission' /\ DrawsLive'
  BY <1>1, AdmissionKept, DrawsLiveKept DEF IInv
<1>9. placed = <<>> /\ Range(placed) = {}
  BY <1>1, EmptyLine DEF IInv, Placement, Placing
<1>10. \A q : PromptOf(q)' = PromptOf(q)
  BY <1>1 DEF PromptOf
<1>11. FillingHold'
  <2>1. ASSUME NEW q \in Range(filling)
        PROVE  /\ Len(held[q]) >= PagesFor(Len(PromptOf(q)))
               /\ done'[q] <= Len(PromptOf(q))
               /\ \/ done'[q] < Len(PromptOf(q))
                  \/ \E i \in 1..Len(chunks') :
                       chunks'[i].req = q /\ chunks'[i].stop = Len(PromptOf(q))
    <3>1. /\ Len(held[q]) >= PagesFor(Len(PromptOf(q)))
          /\ done[q] <= Len(PromptOf(q))
          /\ \/ done[q] < Len(PromptOf(q))
             \/ \E i \in 1..n : chunks[i].req = q /\ chunks[i].stop = Len(PromptOf(q))
      BY <2>1 DEF IInv, FillingHold, n
    <3>2. q \in Request /\ Len(PromptOf(q)) \in Nat /\ done'[q] \in Nat
      BY <2>1, <1>4, LinesOfRequests, TextOfRequest DEF IInv
    <3>3. CASE q = r
      <4>1. CASE done'[q] = Len(PromptOf(q))
        BY <4>1, <3>1, <3>3, <1>4, <1>5, <1>6
      <4>2. CASE done'[q] # Len(PromptOf(q))
        BY <4>2, <3>1, <3>2, <3>3, <1>4
      <4> QED BY <4>1, <4>2
    <3>4. CASE q # r
      <4>1. done'[q] = done[q]
        BY <3>2, <3>4, <1>4
      <4>2. (\E i \in 1..n : chunks[i].req = q /\ chunks[i].stop = Len(PromptOf(q)))
              => \E i \in 1..Len(chunks') :
                       chunks'[i].req = q /\ chunks'[i].stop = Len(PromptOf(q))
        BY <1>6
      <4> QED BY <4>1, <4>2, <3>1
    <3> QED BY <3>3, <3>4
  <2> QED BY <2>1, <1>1, <1>9, <1>10 DEF FillingHold, Passing
<1>12. PiecesRun'
  <2>1. ASSUME NEW i \in 1..Len(chunks')
        PROVE  /\ chunks'[i].req \in Range(seniority)
               /\ chunks'[i].start < chunks'[i].stop
               /\ chunks'[i].stop <= Len(PromptOf(chunks'[i].req))
               /\ i <= Len(filling) /\ chunks'[i].req = filling[i]
    <3>1. CASE i \in 1..n
      BY <3>1, <1>1, <1>6 DEF IInv, PiecesRun, Passing, n
    <3>2. CASE i = n + 1
      <4>1. r \in Range(seniority)
        BY <1>2 DEF IInv, Admission
      <4>2. chunks'[i] = piece /\ i <= Len(filling) /\ filling[i] = r
        BY <3>2, <1>2, <1>6 DEF r
      <4> QED BY <4>1, <4>2, <1>5
    <3> QED BY <3>1, <3>2, <1>6
  <2> QED BY <2>1, <1>1, <1>10 DEF PiecesRun
<1>13. Placement'
  BY <1>1, <1>9 DEF Placement, Placing
<1>14. PagesHeld'
  BY <1>1, <1>4, PagesHeldKept DEF IInv
<1> QED BY <1>4, <1>7, <1>8, <1>11, <1>12, <1>13, <1>14 DEF IInv

\* Placing begins.
LEMMA ChunkDoneInv ==
  ASSUME IInv, ChunkDone
  PROVE  IInv'
<1>1. /\ pc = "chunk" /\ pc' = "place" /\ giving = <<>>
      /\ UNCHANGED <<free, refs, pageOf, digestOf, idle, submitted, tokens, reason, waiting,
                     rows, filling, seniority, done, held, written, assigned, giving,
                     positions, queued, reading, ahead, left, chunks, placed, found, room,
                     owners, devPos, devTok, devKey, cache>>
  BY DEF ChunkDone, At, Goto, poolVars, requestVars, rowVars, passVars, localVars, cellVars
<1>2. PassTypes'
  BY <1>1 DEF IInv, PassTypes, Label
<1>3. DrawsLive'
  BY <1>1, DrawsLiveKept DEF IInv
<1>4. placed = <<>> /\ Len(placed) = 0
  BY <1>1 DEF IInv, Placement, Placing
<1>5. Cardinality(FreeSlots) \in Nat
  BY FreeSlotsFinite
<1> QED BY <1>1, <1>2, <1>3, <1>4, <1>5, MovesOn DEF Passing, Placing

\* The request first in line is placed: its cached start is found.
LEMMA PlaceStartInv ==
  ASSUME IInv, PlaceStart
  PROVE  IInv'
<1> DEFINE r == Head(waiting)
<1>1. /\ pc = "place" /\ pc' = "sharing" /\ giving = <<>> /\ MayPlace
      /\ found' = CachedStart(r)
      /\ done' = [done EXCEPT ![r] = Len(CachedStart(r)) * PageSize]
      /\ UNCHANGED <<free, refs, pageOf, digestOf, idle, submitted, tokens, reason, waiting,
                     rows, filling, seniority, held, written, assigned, giving,
                     positions, queued, reading, ahead, left, chunks, placed, room,
                     owners, devPos, devTok, devKey, cache>>
  BY DEF PlaceStart, At, Goto, poolVars, requestVars, passVars, cellVars
<1>2. /\ waiting # <<>> /\ r \in Range(waiting) /\ r \in Request
      /\ Len(placed) < Cardinality(FreeSlots) /\ MayPass
  <2>1. waiting # <<>> /\ waiting \in Seq(Request)
    BY <1>1 DEF MayPlace, IInv, RowTypes
  <2> QED BY <2>1, <1>1, TailOnce, RangeOfLine DEF MayPlace
<1> HIDE DEF r
<1>3. /\ found' \in Seq(Usable) /\ Once(found') /\ Range(found') \subseteq DOMAIN digestOf
      /\ Len(CachedStart(r)) * PageSize \in Nat
      /\ Len(CachedStart(r)) * PageSize < Len(PromptOf(r))
  BY <1>1, <1>2, CachedStartPages DEF IInv
<1>4. done' \in [Request -> Nat] /\ done'[r] < Len(PromptOf(r))
      /\ \A q \in Request \ {r} : done'[q] = done[q]
  BY <1>1, <1>2, <1>3 DEF IInv, RowTypes
<1>5. r \notin Range(seniority) /\ held[r] = <<>> /\ Range(held[r]) = {}
  <2>1. r \notin Range(seniority)
    BY <1>2 DEF IInv, Admission
  <2>2. held[r] = <<>>
    BY <2>1, <1>1, <1>2 DEF IInv, PagesHeld
  <2> QED BY <2>1, <2>2, EmptyLine
<1>6. PoolOK' /\ RowTypes' /\ PassTypes' /\ DeviceTypes'
  BY <1>1, <1>3, <1>4, PoolUnchanged DEF IInv, RowTypes, PassTypes, DeviceTypes, Label
<1>7. Admission' /\ DrawsLive' /\ PiecesRun'
  BY <1>1, AdmissionKept, DrawsLiveKept, PiecesRunKept DEF IInv, Passing
<1>8. \A q : PromptOf(q)' = PromptOf(q)
  BY <1>1 DEF PromptOf
<1>9. FillingHold'
  <2>1. \A q \in Range(filling) \cup Range(placed) : done'[q] = done[q]
    BY <1>4, <1>5, LinesOfRequests DEF IInv, Admission
  <2> QED BY <2>1, <1>1, <1>8 DEF IInv, FillingHold, Passing
<1>10. Placement'
  <2>1. FreeSlots' = FreeSlots /\ MayPass' /\ Head(waiting') = r
    BY <1>1, <1>2 DEF FreeSlots, MayPass, r
  <2>2. Range(found') \cap Range(held'[r]) = {}
    BY <1>1, <1>5
  <2> QED BY <2>1, <2>2, <1>1, <1>2, <1>3, <1>4, <1>8 DEF IInv, Placement, Placing
<1>11. PagesHeld'
  BY <1>1, PagesHeldKept DEF IInv
<1> QED BY <1>6, <1>7, <1>9, <1>10, <1>11 DEF IInv

\* A page of the cached start gets one more holder.
LEMMA ShareFoundInv ==
  ASSUME IInv, ShareFound
  PROVE  IInv'
<1> DEFINE r == Head(waiting)
           q == Head(found)
<1>1. /\ pc = "sharing" /\ pc' = "sharing" /\ giving = <<>> /\ found # <<>>
      /\ Share(q) /\ held' = [held EXCEPT ![r] = Append(@, q)] /\ found' = Tail(found)
      /\ UNCHANGED <<submitted, tokens, reason, waiting, rows, filling, seniority, done,
                     written, assigned, giving, positions, queued, reading, ahead, left,
                     chunks, placed, room, owners, devPos, devTok, devKey, cache>>
  BY DEF ShareFound, At, requestVars, passVars, cellVars
<1>2. /\ waiting # <<>> /\ MayPass /\ Len(placed) < Cardinality(FreeSlots)
      /\ Once(found) /\ Range(found) \subseteq DOMAIN digestOf
      /\ Range(found) \cap Range(held[r]) = {} /\ done[r] < Len(PromptOf(r))
  BY <1>1 DEF IInv, Placement
<1>3. r \in Range(waiting) /\ r \in Request /\ r \notin Range(seniority)
  <2>1. waiting \in Seq(Request)
    BY DEF IInv, RowTypes
  <2> QED BY <2>1, <1>2, TailOnce, RangeOfLine DEF IInv, Admission
<1>4. /\ q \in Range(found) /\ found' \in Seq(Usable) /\ Once(found')
      /\ Range(found') = Range(found) \ {q}
  <2>1. found \in Seq(Usable)
    BY DEF IInv, RowTypes
  <2> QED BY <2>1, <1>1, <1>2, TailOnce
<1> HIDE DEF r, q
<1>5. PoolOK' /\ q \in Usable /\ refs' = [refs EXCEPT ![q] = @ + 1] /\ UNCHANGED digestOf
  <2>1. q \in DOMAIN digestOf
    BY <1>2, <1>4
  <2>2. PoolOK' /\ q \in Usable /\ refs' = [refs EXCEPT ![q] = @ + 1]
    BY <2>1, <1>1, SharePool DEF IInv
  <2> QED BY <2>2, <1>1 DEF Share
<1>6. /\ held' \in [Request -> Seq(Usable)]
      /\ \A t \in Request : Once(held'[t])
      /\ \A p \in Page : IsFiniteSet(Holders(p)')
      /\ RefsCountHolders'
  BY <1>1, <1>2, <1>3, <1>4, <1>5, HolderAdded DEF IInv
<1>7. /\ Range(held'[r]) = Range(held[r]) \cup {q}
      /\ \A t \in Request \ {r} : held'[t] = held[t]
  <2>1. held[r] \in Seq(Usable) /\ held'[r] = Append(held[r], q)
    BY <1>1, <1>3 DEF IInv, RowTypes
  <2>2. Range(held'[r]) = Range(held[r]) \cup {q}
    BY <2>1, <1>5, AppendOnce
  <2> QED BY <2>2, <1>1, <1>3 DEF IInv, RowTypes
<1>8. RowTypes' /\ PassTypes' /\ DeviceTypes'
  BY <1>1, <1>4, <1>6 DEF IInv, RowTypes, PassTypes, DeviceTypes
<1>9. Admission' /\ DrawsLive' /\ PiecesRun'
  BY <1>1, AdmissionKept, DrawsLiveKept, PiecesRunKept DEF IInv
<1>10. \A t : PromptOf(t)' = PromptOf(t)
  BY <1>1 DEF PromptOf
<1>11. FillingHold'
  <2>1. \A t \in Range(filling) \cup Range(placed) : held'[t] = held[t]
    BY <1>3, <1>7, LinesOfRequests DEF IInv, Admission
  <2> QED BY <2>1, <1>1, <1>10 DEF IInv, FillingHold, Passing
<1>12. Placement'
  <2>1. FreeSlots' = FreeSlots /\ MayPass' /\ Head(waiting') = r
    BY <1>1, <1>2 DEF FreeSlots, MayPass, r
  <2>2. Range(found') \cap Range(held'[r]) = {}
    BY <1>2, <1>4, <1>7
  <2>3. Range(found') \subseteq DOMAIN digestOf'
    BY <1>2, <1>4, <1>5
  <2> QED BY <2>1, <2>2, <2>3, <1>1, <1>2, <1>4, <1>10 DEF IInv, Placement, Placing
<1>13. PagesHeld'
  <2>1. \A t \in Request : held'[t] # <<>> => t \in Range(seniority) \/ t = Head(waiting)
    BY <1>1, <1>7 DEF IInv, PagesHeld, r
  <2> QED BY <2>1, <1>1, <1>6 DEF IInv, PagesHeld
<1> QED BY <1>5, <1>8, <1>9, <1>11, <1>12, <1>13 DEF IInv

\* The request placed gets a page of its own.
LEMMA TakeOwnInv ==
  ASSUME IInv, TakeOwn
  PROVE  IInv'
<1> DEFINE r == Head(waiting)
<1>1. /\ pc = "sharing" /\ pc' = "sharing" /\ giving = <<>> /\ found = <<>> /\ TakeFor(r)
      /\ UNCHANGED <<submitted, tokens, reason, waiting, rows, filling, seniority, done,
                     written, assigned, giving, positions, queued, reading, ahead, left,
                     chunks, placed, found, room, owners, devPos, devTok, devKey>>
  BY DEF TakeOwn, At, requestVars, passVars, localVars
<1>2. /\ waiting # <<>> /\ MayPass /\ Len(placed) < Cardinality(FreeSlots)
      /\ Once(found) /\ done[r] < Len(PromptOf(r))
  BY <1>1 DEF IInv, Placement
<1>3. r \in Range(waiting) /\ r \in Request /\ r \notin Range(seniority)
  <2>1. waiting \in Seq(Request)
    BY DEF IInv, RowTypes
  <2> QED BY <2>1, <1>2, TailOnce, RangeOfLine DEF IInv, Admission
<1> HIDE DEF r
<1>4. /\ PoolOK' /\ held' \in [Request -> Seq(Usable)]
      /\ \A t \in Request : Once(held'[t])
      /\ \A p \in Page : IsFiniteSet(Holders(p)')
      /\ RefsCountHolders'
      /\ \A t \in Request \ {r} : held'[t] = held[t]
      /\ cache' \in [Page -> [Offset -> Text]]
  BY <1>1, <1>3, TakePage DEF IInv
<1>5. RowTypes' /\ PassTypes' /\ DeviceTypes'
  BY <1>1, <1>4 DEF IInv, RowTypes, PassTypes, DeviceTypes
<1>6. Admission' /\ DrawsLive' /\ PiecesRun'
  BY <1>1, AdmissionKept, DrawsLiveKept, PiecesRunKept DEF IInv
<1>7. \A t : PromptOf(t)' = PromptOf(t)
  BY <1>1 DEF PromptOf
<1>8. FillingHold'
  <2>1. \A t \in Range(filling) \cup Range(placed) : held'[t] = held[t]
    BY <1>3, <1>4, LinesOfRequests DEF IInv, Admission
  <2> QED BY <2>1, <1>1, <1>7 DEF IInv, FillingHold, Passing
<1>9. Placement'
  <2>1. FreeSlots' = FreeSlots /\ MayPass' /\ Head(waiting') = r
    BY <1>1, <1>2 DEF FreeSlots, MayPass, r
  <2>2. Range(found') = {}
    BY <1>1, EmptyLine
  <2> QED BY <2>1, <2>2, <1>1, <1>2, <1>7 DEF IInv, Placement, Placing
<1>10. PagesHeld'
  <2>1. \A t \in Request : held'[t] # <<>> => t \in Range(seniority) \/ t = Head(waiting)
    BY <1>1, <1>4 DEF IInv, PagesHeld, r
  <2> QED BY <2>1, <1>1, <1>4 DEF IInv, PagesHeld
<1> QED BY <1>4, <1>5, <1>6, <1>8, <1>9, <1>10 DEF IInv

\* The request placed has its pages, and leaves the line.
LEMMA PlaceDoneInv ==
  ASSUME IInv, PlaceDone
  PROVE  IInv'
<1> DEFINE n == Len(chunks)
           r == Head(waiting)
<1>1. /\ pc = "sharing" /\ pc' = "place" /\ giving = <<>> /\ found = <<>>
      /\ Len(held[r]) >= PagesFor(Len(PromptOf(r))) /\ TakeChunk(r)
      /\ placed' = Append(placed, r) /\ seniority' = Append(seniority, r)
      /\ waiting' = Tail(waiting)
      /\ UNCHANGED <<submitted, tokens, reason, rows, filling, held, written, assigned, giving,
                     positions, queued, reading, ahead, found, room, owners, devPos, devTok,
                     devKey, cache>>
  BY DEF PlaceDone, At, Goto, requestVars, passVars, cellVars
<1>2. /\ waiting # <<>> /\ MayPass /\ Len(placed) < Cardinality(FreeSlots)
      /\ done[r] < Len(PromptOf(r))
  BY <1>1 DEF IInv, Placement
<1>3. /\ r \in Range(waiting) /\ r \in Request /\ r \notin Range(seniority)
      /\ waiting' \in Seq(Request) /\ Once(waiting')
      /\ Range(waiting') = Range(waiting) \ {r}
  <2>1. waiting \in Seq(Request) /\ Once(waiting)
    BY DEF IInv, RowTypes, Admission
  <2> QED BY <2>1, <1>1, <1>2, TailOnce, RangeOfLine DEF IInv, Admission
<1>4. r \notin Range(placed) /\ r \notin Rowed /\ r \notin Range(filling)
  BY <1>3 DEF IInv, Admission
<1>5. /\ seniority' \in Seq(Request) /\ Once(seniority')
      /\ Range(seniority') = Range(seniority) \cup {r}
      /\ placed' \in Seq(Request) /\ Once(placed')
      /\ Range(placed') = Range(placed) \cup {r}
      /\ Len(placed') = Len(placed) + 1 /\ Len(placed) \in Nat
  <2>1. /\ seniority \in Seq(Request) /\ placed \in Seq(Request)
        /\ Once(seniority) /\ Once(placed)
    BY DEF IInv, RowTypes, Admission
  <2> QED BY <2>1, <1>1, <1>3, <1>4, AppendOnce
<1> HIDE DEF r, n
<1>6. /\ PoolOK' /\ UNCHANGED refs /\ DOMAIN digestOf \subseteq DOMAIN digestOf'
      /\ left' \in Nat \cup {NoLimit} /\ done' \in [Request -> Nat]
      /\ \A t \in Request \ {r} : done'[t] = done[t]
      /\ done'[r] <= Len(PromptOf(r))
      /\ \E piece \in Piece :
           /\ chunks' = Append(chunks, piece)
           /\ piece.req = r /\ piece.start < piece.stop /\ piece.stop <= Len(PromptOf(r))
           /\ piece.stop = done'[r]
  BY <1>1, <1>2, <1>3, TakePiece DEF IInv
<1>7. PICK piece \in Piece :
        /\ chunks' = Append(chunks, piece)
        /\ piece.req = r /\ piece.start < piece.stop /\ piece.stop <= Len(PromptOf(r))
        /\ piece.stop = done'[r]
  BY <1>6
<1>8. /\ chunks' \in Seq(Piece) /\ Len(chunks') = n + 1 /\ chunks'[n + 1] = piece
      /\ \A i \in 1..n : chunks'[i] = chunks[i]
      /\ 1..(n + 1) = 1..n \cup {n + 1} /\ n + 1 \in 1..(n + 1)
  BY <1>7 DEF IInv, PassTypes, n
<1>9. RowTypes' /\ PassTypes' /\ DeviceTypes'
  BY <1>1, <1>3, <1>5, <1>6, <1>8 DEF IInv, RowTypes, PassTypes, DeviceTypes, Label
<1>10. Admission'
  <2>1. Rowed' = Rowed
    BY <1>1 DEF Rowed
  <2>2. Range(waiting') \cap Range(seniority') = {} /\ Rowed' \cap Range(placed') = {}
    BY <2>1, <1>3, <1>4, <1>5 DEF IInv, Admission
  <2>3. /\ Range(waiting') \cup Range(seniority') = Range(waiting) \cup Range(seniority)
        /\ Range(seniority') = Rowed' \cup Range(placed')
    BY <2>1, <1>3, <1>5 DEF IInv, Admission
  <2> QED BY <2>1, <2>2, <2>3, <1>1, <1>3, <1>5 DEF IInv, Admission
<1>11. DrawsLive'
  BY <1>1, DrawsLiveKept DEF IInv
<1>12. \A q : PromptOf(q)' = PromptOf(q)
  BY <1>1 DEF PromptOf
<1>13. FillingHold'
  <2>1. ASSUME NEW q \in Range(filling) \cup Range(placed')
        PROVE  /\ Len(held[q]) >= PagesFor(Len(PromptOf(q)))
               /\ done'[q] <= Len(PromptOf(q))
               /\ \/ done'[q] < Len(PromptOf(q))
                  \/ \E i \in 1..Len(chunks') :
                       chunks'[i].req = q /\ chunks'[i].stop = Len(PromptOf(q))
    <3>1. CASE q = r
      <4>1. Len(PromptOf(q)) \in Nat /\ done'[q] \in Nat
        BY <3>1, <1>3, <1>6, TextOfRequest DEF IInv
      <4>2. CASE done'[q] = Len(PromptOf(q))
        BY <4>2, <3>1, <1>1, <1>6, <1>7, <1>8
      <4>3. CASE done'[q] # Len(PromptOf(q))
        BY <4>1, <4>3, <3>1, <1>1, <1>6
      <4> QED BY <4>2, <4>3
    <3>2. CASE q # r
      <4>1. q \in Range(filling) \cup Range(placed) /\ q \in Request
        BY <3>2, <1>5, LinesOfRequests DEF IInv
      <4>2. /\ Len(held[q]) >= PagesFor(Len(PromptOf(q)))
            /\ done[q] <= Len(PromptOf(q))
            /\ \/ done[q] < Len(PromptOf(q))
               \/ \E i \in 1..n : chunks[i].req = q /\ chunks[i].stop = Len(PromptOf(q))
        BY <4>1 DEF IInv, FillingHold, n
      <4>3. done'[q] = done[q]
        BY <3>2, <4>1, <1>6
      <4>4. (\E i \in 1..n : chunks[i].req = q /\ chunks[i].stop = Len(PromptOf(q)))
              => \E i \in 1..Len(chunks') :
                       chunks'[i].req = q /\ chunks'[i].stop = Len(PromptOf(q))
        BY <1>8
      <4> QED BY <4>2, <4>3, <4>4
    <3> QED BY <3>1, <3>2
  <2> QED BY <2>1, <1>1, <1>12 DEF FillingHold, Passing
<1>14. PiecesRun'
  <2>1. ASSUME NEW i \in 1..Len(chunks')
        PROVE  /\ chunks'[i].req \in Range(seniority')
               /\ chunks'[i].start < chunks'[i].stop
               /\ chunks'[i].stop <= Len(PromptOf(chunks'[i].req))
    <3>1. CASE i \in 1..n
      BY <3>1, <1>1, <1>5, <1>8 DEF IInv, PiecesRun, Passing, n
    <3>2. CASE i = n + 1
      BY <3>2, <1>5, <1>7, <1>8
    <3> QED BY <3>1, <3>2, <1>8
  <2> QED BY <2>1, <1>1, <1>12 DEF PiecesRun
<1>15. Placement'
  <2>1. FreeSlots' = FreeSlots /\ Cardinality(FreeSlots) \in Nat
    BY <1>1, FreeSlotsFinite DEF FreeSlots
  <2>2. Len(placed') <= Cardinality(FreeSlots)
    BY <2>1, <1>2, <1>5
  <2> QED BY <2>1, <2>2, <1>1 DEF Placement, Placing
<1>16. PagesHeld'
  <2>1. \A p \in Page : Holders(p)' = Holders(p)
    BY <1>1 DEF Holders
  <2>2. \A t \in Request : held[t] # <<>> => t \in Range(seniority')
    BY <1>1, <1>5 DEF IInv, PagesHeld, r
  <2> QED BY <2>1, <2>2, <1>1, <1>6 DEF IInv, PagesHeld, RefsCountHolders
<1> QED BY <1>6, <1>9, <1>10, <1>11, <1>13, <1>14, <1>15, <1>16 DEF IInv

\* Placing ends.
LEMMA PlaceStopInv ==
  ASSUME IInv, PlaceStop
  PROVE  IInv'
<1>1. /\ pc = "place" /\ pc' = "bind" /\ giving = <<>>
      /\ UNCHANGED <<free, refs, pageOf, digestOf, idle, submitted, tokens, reason, waiting,
                     rows, filling, seniority, done, held, written, assigned, giving,
                     positions, queued, reading, ahead, left, chunks, placed, found, room,
                     owners, devPos, devTok, devKey, cache>>
  BY DEF PlaceStop, At, Goto, poolVars, requestVars, rowVars, passVars, localVars, cellVars
<1>2. PassTypes'
  BY <1>1 DEF IInv, PassTypes, Label
<1>3. DrawsLive'
  BY <1>1, DrawsLiveKept DEF IInv
<1>4. Len(placed) <= Cardinality(FreeSlots)
  BY <1>1 DEF IInv, Placement, Placing
<1> QED BY <1>1, <1>2, <1>3, <1>4, MovesOn DEF Passing, Placing

\* The request bound next, and the slot it gets.
LEMMA BoundSlot ==
  ASSUME IInv, pc = "bind", placed # <<>>
  PROVE  LET k == Shortest
             r == placed[k]
             s == Min(FreeSlots)
         IN  /\ placed \in Seq(Request) /\ Once(placed) /\ k \in 1..Len(placed)
             /\ r \in Range(placed) /\ r \in Request /\ Len(placed) \in Nat
             /\ s \in FreeSlots /\ s \in Slot /\ rows[s] = None
<1> DEFINE k == Shortest
           r == placed[k]
           s == Min(FreeSlots)
<1>1. /\ placed \in Seq(Request) /\ Once(placed) /\ k \in 1..Len(placed)
      /\ r \in Range(placed) /\ r \in Request /\ Len(placed) \in Nat
  <2>1. placed \in Seq(Request) /\ Once(placed)
    BY DEF IInv, RowTypes, Admission
  <2>2. k \in 1..Len(placed)
    BY ShortestPlaced DEF IInv
  <2> HIDE DEF k
  <2>3. placed[k] \in Range(placed) /\ Range(placed) \subseteq Request
    BY <2>1, <2>2, RangeOfLine
  <2> QED BY <2>1, <2>2, <2>3
<1> HIDE DEF k
<1>2. s \in FreeSlots /\ s \in Slot /\ rows[s] = None
  <2>1. FreeSlots \in SUBSET Nat /\ IsFiniteSet(FreeSlots)
    BY FreeSlotsFinite
  <2>2. Len(placed) <= Cardinality(FreeSlots) /\ Len(placed) >= 1
    BY <1>1 DEF IInv, Placement, Placing
  <2>3. FreeSlots # {}
    <3> SUFFICES ASSUME FreeSlots = {} PROVE FALSE
      OBVIOUS
    <3>1. Cardinality(FreeSlots) = 0
      BY <2>1, FS_EmptySet
    <3> QED BY <3>1, <2>2, <1>1
  <2>4. s \in FreeSlots
    BY <2>1, <2>3, MinIsLeast
  <2> QED BY <2>4 DEF FreeSlots
<1> QED BY <1>1, <1>2 DEF k

\* A request placed takes a free row.
LEMMA BindInv ==
  ASSUME IInv, Bind
  PROVE  IInv'
<1> DEFINE k == Shortest
           r == placed[k]
           s == Min(FreeSlots)
<1>1. /\ pc = "bind" /\ pc' = "bind" /\ giving = <<>> /\ placed # <<>>
      /\ rows' = [rows EXCEPT ![s] = r] /\ filling' = Append(filling, r)
      /\ written' = [written EXCEPT ![s] = 0] /\ assigned' = [assigned EXCEPT ![s] = held[r]]
      /\ placed' = RemoveAt(placed, k)
      /\ UNCHANGED <<free, refs, pageOf, digestOf, idle, submitted, tokens, reason, waiting,
                     seniority, done, held, giving, positions, queued, reading, ahead, left,
                     chunks, found, room, owners, devPos, devTok, devKey, cache>>
  BY DEF Bind, At, poolVars, requestVars, passVars, cellVars
<1>2. /\ placed \in Seq(Request) /\ Once(placed) /\ k \in 1..Len(placed)
      /\ r \in Range(placed) /\ r \in Request /\ Len(placed) \in Nat
  BY <1>1, BoundSlot
<1> HIDE DEF k
<1>3. /\ placed' \in Seq(Request) /\ Once(placed') /\ Range(placed') = Range(placed) \ {r}
      /\ Len(placed') = Len(placed) - 1
  BY <1>1, <1>2, WithoutOnce, RemoveAtOnce
<1>4. s \in FreeSlots /\ s \in Slot /\ rows[s] = None
  BY <1>1, BoundSlot
<1> HIDE DEF r, s
<1>5. r \notin Rowed /\ r \notin Range(filling) /\ r # None
  BY <1>2, EngineAssumption DEF IInv, Admission
<1>6. /\ rows' \in [Slot -> Request \cup {None}]
      /\ \A t \in Slot : rows'[t] = IF t = s THEN r ELSE rows[t]
  BY <1>1, <1>2, <1>4 DEF IInv, RowTypes
<1>7. Rowed' = Rowed \cup {r}
  BY <1>4, <1>5, <1>6 DEF Rowed
<1>8. \A t, u \in Slot : rows'[t] = rows'[u] /\ rows'[t] # None => t = u
  <2>1. \A t \in Slot : rows[t] # r
    BY <1>5 DEF Rowed
  <2> QED BY <2>1, <1>6 DEF IInv, Admission
<1>9. /\ filling' \in Seq(Request) /\ Once(filling')
      /\ Range(filling') = Range(filling) \cup {r}
  <2>1. filling \in Seq(Request) /\ Once(filling)
    BY DEF IInv, RowTypes, Admission
  <2> QED BY <2>1, <1>1, <1>2, <1>5, AppendOnce
<1>10. PoolOK' /\ RowTypes' /\ PassTypes'
  BY <1>1, <1>3, <1>6, <1>9, PoolUnchanged DEF IInv, RowTypes, PassTypes
<1>11. DeviceTypes'
  BY <1>1, <1>2 DEF IInv, DeviceTypes, RowTypes
<1>12. Admission'
  <2>1. /\ Range(seniority') = Rowed' \cup Range(placed')
        /\ Rowed' \cap Range(placed') = {} /\ Range(filling') \subseteq Rowed'
    BY <1>1, <1>2, <1>3, <1>7, <1>9 DEF IInv, Admission
  <2> QED BY <2>1, <1>1, <1>3, <1>8, <1>9 DEF IInv, Admission
<1>13. DrawsLive'
  <2>1. ASSUME NEW it \in Draw, Live(it) PROVE Live(it)'
    <3>1. it.req \in Rowed \ Range(filling) => it.req \in Rowed' \ Range(filling')
      BY <1>5, <1>7, <1>9
    <3> QED BY <2>1, <3>1, <1>1 DEF Live
  <2> QED BY <2>1, <1>1 DEF IInv, DrawsLive, PassTypes
<1>14. \A q : PromptOf(q)' = PromptOf(q)
  BY <1>1 DEF PromptOf
<1>15. FillingHold'
  <2>1. Range(filling') \cup Range(placed') = Range(filling) \cup Range(placed)
    BY <1>2, <1>3, <1>9
  <2> QED BY <2>1, <1>1, <1>14 DEF IInv, FillingHold, Passing
<1>16. PiecesRun'
  BY <1>1, <1>14 DEF IInv, PiecesRun
<1>17. Placement'
  <2>1. FreeSlots' = FreeSlots \ {s}
    BY <1>4, <1>5, <1>6 DEF FreeSlots
  <2>2. /\ Cardinality(FreeSlots \ {s}) = Cardinality(FreeSlots) - 1
        /\ Cardinality(FreeSlots) \in Nat
    BY <1>4, FreeSlotsFinite, FS_RemoveElement
  <2>3. Len(placed) <= Cardinality(FreeSlots)
    BY <1>1 DEF IInv, Placement, Placing
  <2>4. Len(placed') <= Cardinality(FreeSlots')
    BY <2>1, <2>2, <2>3, <1>2, <1>3
  <2> QED BY <2>4, <1>1 DEF Placement, Placing
<1>18. PagesHeld'
  BY <1>1, PagesHeldKept DEF IInv
<1> QED BY <1>10, <1>11, <1>12, <1>13, <1>15, <1>16, <1>17, <1>18 DEF IInv

\* The passes begin.
LEMMA BindDoneInv ==
  ASSUME IInv, BindDone
  PROVE  IInv'
<1>1. /\ pc = "bind" /\ pc' \in {"mix", "pass"} /\ giving = <<>> /\ placed = <<>>
      /\ room' = Pack /\ owners' = <<>>
      /\ UNCHANGED <<free, refs, pageOf, digestOf, idle, submitted, tokens, reason, waiting,
                     rows, filling, seniority, done, held, written, assigned, giving,
                     positions, queued, reading, ahead, left, chunks, placed, found, devPos,
                     devTok, devKey, cache>>
  BY DEF BindDone, At, Goto, poolVars, requestVars, rowVars, passVars, cellVars
<1>2. PassTypes'
  <2>1. Pack \in Int /\ <<>> \in Seq(Draw)
    BY EngineAssumption
  <2> QED BY <2>1, <1>1 DEF IInv, PassTypes, Label
<1>3. DrawsLive'
  <2>1. owners' = <<>> /\ Len(owners') = 0 /\ 1..0 = {}
    BY <1>1
  <2>3. \A it : Live(it)' <=> Live(it)
    BY <1>1 DEF Live, Rowed
  <2>4. queued' = queued /\ reading' = <<>> /\ pc' \in {"mix", "pass"}
    BY <1>1 DEF IInv, DrawsLive
  <2>5. \A i \in 1..Len(queued) : \A j \in 1..Len(queued[i]) : Live(queued[i][j])
    BY DEF IInv, DrawsLive
  <2>6. (\A i \in 1..Len(queued) : \A j \in 1..Len(queued[i]) : Live(queued[i][j]))'
    BY <2>3, <2>4, <2>5
  <2>7. (\A j \in 1..Len(reading) : Live(reading[j]))'
    BY <2>1, <2>4
  <2>8. (\A j \in 1..Len(owners) : Live(owners[j]))'
    BY <2>1
  <2> QED BY <2>4, <2>6, <2>7, <2>8 DEF DrawsLive
<1>4. placed = <<>>
  BY <1>1
<1> QED BY <1>1, <1>2, <1>3, <1>4, MovesOn DEF Passing, Placing

-----------------------------------------------------------------------------
(* The passes that end, and reading them.                                   *)

\* A pass with the prompts' draws is queued.
LEMMA PassEndInv ==
  ASSUME IInv, PassEnd
  PROVE  IInv'
<1>1. /\ pc = "pass" /\ pc' = "pass"
      /\ queued' = Append(queued, owners) /\ owners' = <<>> /\ room' = Pack
      /\ UNCHANGED <<free, refs, pageOf, digestOf, idle, submitted, tokens, reason, waiting,
                     rows, filling, seniority, done, held, written, assigned, giving,
                     positions, reading, ahead, left, chunks, placed, found, devPos, devTok,
                     devKey, cache>>
  BY DEF PassEnd, At, poolVars, requestVars, rowVars, cellVars
<1>2. /\ queued \in Seq(Seq(Draw)) /\ owners \in Seq(Draw)
      /\ queued' \in Seq(Seq(Draw)) /\ <<>> \in Seq(Draw)
  BY <1>1 DEF IInv, PassTypes
<1>3. PassTypes'
  <2>1. Pack \in Int
    BY EngineAssumption
  <2> QED BY <2>1, <1>1, <1>2 DEF IInv, PassTypes
<1>4. DrawsLive'
  <2>1. \A it : Live(it)' <=> Live(it)
    BY <1>1 DEF Live, Rowed
  <2>2. ASSUME NEW i \in 1..Len(queued'), NEW j \in 1..Len(queued'[i])
        PROVE  Live(queued[i][j])'
    <3>1. CASE i \in 1..Len(queued)
      <4>1. queued'[i] = queued[i]
        BY <3>1, <1>1, <1>2
      <4> QED BY <4>1, <3>1, <2>1 DEF IInv, DrawsLive
    <3>2. CASE i \notin 1..Len(queued)
      <4>1. queued'[i] = owners
        BY <3>2, <1>1, <1>2
      <4> QED BY <4>1, <2>1, <1>1 DEF IInv, DrawsLive
    <3> QED BY <3>1, <3>2
  <2>3. reading' = <<>> /\ Len(reading') = 0 /\ Len(owners') = 0 /\ 1..0 = {}
    BY <1>1 DEF IInv, DrawsLive
  <2>4. (\A i \in 1..Len(queued) : \A j \in 1..Len(queued[i]) : Live(queued[i][j]))'
    BY <2>2
  <2>5. (\A j \in 1..Len(reading) : Live(reading[j]))' /\ (\A j \in 1..Len(owners) : Live(owners[j]))'
    BY <2>3
  <2> QED BY <2>3, <2>4, <2>5, <1>1 DEF DrawsLive
<1>5. placed = <<>>
  BY <1>1 DEF IInv, Placement, Placing
<1> QED BY <1>1, <1>3, <1>4, <1>5, MovesOn DEF Passing, Placing

\* All the pieces have passed.
LEMMA PassesDoneInv ==
  ASSUME IInv, PassesDone
  PROVE  IInv'
<1>1. /\ pc = "pass" /\ pc' = "decode" /\ chunks = <<>>
      /\ UNCHANGED <<free, refs, pageOf, digestOf, idle, submitted, tokens, reason, waiting,
                     rows, filling, seniority, done, held, written, assigned, giving,
                     positions, queued, reading, ahead, left, chunks, placed, found, room,
                     owners, devPos, devTok, devKey, cache>>
  BY DEF PassesDone, At, Goto, poolVars, requestVars, rowVars, passVars, localVars, cellVars
<1>2. PassTypes'
  BY <1>1 DEF IInv, PassTypes, Label
<1>3. DrawsLive'
  BY <1>1, DrawsLiveKept DEF IInv
<1>4. placed = <<>>
  BY <1>1 DEF IInv, Placement, Placing
<1> QED BY <1>1, <1>2, <1>3, <1>4, MovesOn DEF Passing, Placing

\* The draws of the prompts a step carried are queued to be read before the step's.
LEMMA MixPassEndInv ==
  ASSUME IInv, MixPassEnd
  PROVE  IInv'
<1>1. /\ pc = "mixpass" /\ pc' = "read" /\ chunks = <<>>
      /\ queued' = Front(queued) \o <<owners, Last(queued)>>
      /\ owners' = <<>> /\ ahead' = 2
      /\ UNCHANGED <<free, refs, pageOf, digestOf, idle, submitted, tokens, reason, waiting,
                     rows, filling, seniority, done, held, written, assigned, giving,
                     positions, reading, left, chunks, placed, found, room, devPos, devTok,
                     devKey, cache>>
  BY DEF MixPassEnd, At, Goto, poolVars, requestVars, rowVars, cellVars
<1> DEFINE two == <<owners, Last(queued)>>
<1>2. /\ queued \in Seq(Seq(Draw)) /\ owners \in Seq(Draw) /\ <<>> \in Seq(Draw)
      /\ queued # <<>>
  BY <1>1 DEF IInv, PassTypes, DrawsLive
<1>3. /\ Front(queued) \in Seq(Seq(Draw)) /\ Last(queued) \in Range(queued)
      /\ Range(Front(queued)) \subseteq Range(queued) /\ Last(queued) \in Seq(Draw)
  BY <1>2, FrontOnce, RangeOfLine
<1>4. two \in Seq(Seq(Draw)) /\ Range(two) = {owners, Last(queued)}
  <2>1. two \in Seq(Seq(Draw))
    BY <1>2, <1>3
  <2>2. two[1] = owners /\ two[2] = Last(queued) /\ DOMAIN two = {1, 2}
    OBVIOUS
  <2> QED BY <2>1, <2>2 DEF Range
<1> HIDE DEF two
<1>5. queued' \in Seq(Seq(Draw)) /\ Range(queued') \subseteq Range(queued) \cup {owners}
  <2>1. queued' = Front(queued) \o two
    BY <1>1 DEF two
  <2> QED BY <2>1, <1>3, <1>4, ConcatOnce
<1>6. PassTypes'
  BY <1>1, <1>2, <1>5 DEF IInv, PassTypes, Label
<1>7. DrawsLive'
  <2>1. \A it : Live(it)' <=> Live(it)
    BY <1>1 DEF Live, Rowed
  <2>2. ASSUME NEW pass \in Range(queued) \cup {owners}, NEW j \in 1..Len(pass)
        PROVE  Live(pass[j])
    <3>1. CASE pass \in Range(queued)
      <4>1. PICK i \in 1..Len(queued) : queued[i] = pass
        BY <3>1, <1>2, RangeOfLine
      <4> QED BY <4>1 DEF IInv, DrawsLive
    <3>2. CASE pass = owners
      BY <3>2, <1>1 DEF IInv, DrawsLive
    <3> QED BY <3>1, <3>2
  <2>3. ASSUME NEW i \in 1..Len(queued'), NEW j \in 1..Len(queued'[i])
        PROVE  Live(queued[i][j])'
    <3>1. queued'[i] \in Range(queued')
      BY <1>5, RangeOfLine
    <3> QED BY <3>1, <1>5, <2>1, <2>2
  <2>4. (\A i \in 1..Len(queued) : \A j \in 1..Len(queued[i]) : Live(queued[i][j]))'
    BY <2>3
  <2>5. reading' = <<>> /\ Len(reading') = 0 /\ 1..0 = {}
    BY <1>1 DEF IInv, DrawsLive
  <2>6. (\A j \in 1..Len(reading) : Live(reading[j]))'
    BY <2>5
  <2> QED BY <2>4, <2>6, <1>1 DEF DrawsLive
<1>8. placed = <<>>
  BY <1>1 DEF IInv, Placement, Placing
<1> QED BY <1>1, <1>6, <1>7, <1>8, MovesOn DEF Passing, Placing

\* No row decodes.
LEMMA DecodeNoneInv ==
  ASSUME IInv, DecodeNone
  PROVE  IInv'
<1>1. /\ pc = "decode" /\ pc' = "read" /\ ahead' = 0
      /\ UNCHANGED <<free, refs, pageOf, digestOf, idle, submitted, tokens, reason, waiting,
                     rows, filling, seniority, done, held, written, assigned, giving,
                     positions, queued, reading, left, chunks, placed, found, room,
                     owners, devPos, devTok, devKey, cache>>
  BY DEF DecodeNone, At, Goto, poolVars, requestVars, rowVars, localVars, cellVars
<1>2. PassTypes'
  BY <1>1 DEF IInv, PassTypes, Label
<1>3. DrawsLive'
  BY <1>1, DrawsLiveKept DEF IInv
<1>4. placed = <<>>
  BY <1>1 DEF IInv, Placement, Placing
<1> QED BY <1>1, <1>2, <1>3, <1>4, MovesOn DEF Passing, Placing

\* The next pass is read.
LEMMA PopPassInv ==
  ASSUME IInv, PopPass
  PROVE  IInv'
<1>1. /\ pc \in {"read", "growread"} /\ pc' = pc /\ Len(queued) > ahead
      /\ reading' = Head(queued) /\ queued' = Tail(queued)
      /\ UNCHANGED <<free, refs, pageOf, digestOf, idle, submitted, tokens, reason, waiting,
                     rows, filling, seniority, done, held, written, assigned, giving,
                     positions, ahead, left, chunks, placed, found, room,
                     owners, devPos, devTok, devKey, cache>>
  BY DEF PopPass, Reading, At, poolVars, requestVars, rowVars, localVars, cellVars
<1>2. /\ queued \in Seq(Seq(Draw)) /\ Len(queued) \in Nat \ {0}
      /\ Head(queued) = queued[1] /\ queued[1] \in Seq(Draw)
      /\ Tail(queued) \in Seq(Seq(Draw)) /\ Len(Tail(queued)) = Len(queued) - 1
      /\ \A i \in 1..(Len(queued) - 1) : Tail(queued)[i] = queued[i + 1]
  <2>1. queued \in Seq(Seq(Draw)) /\ ahead \in Nat
    BY DEF IInv, PassTypes
  <2>2. Len(queued) \in Nat \ {0}
    <3>1. Len(queued) \in Nat
      BY <2>1
    <3> DEFINE n == Len(queued)
    <3>2. n \in Nat /\ n > ahead /\ ahead \in Nat
      BY <3>1, <2>1, <1>1
    <3> HIDE DEF n
    <3>3. n # 0
      BY <3>2
    <3> QED BY <3>1, <3>3 DEF n
  <2>3. queued # <<>>
    BY <2>2
  <2> QED BY <2>1, <2>2, <2>3
<1>3. PassTypes'
  BY <1>1, <1>2 DEF IInv, PassTypes
<1>4. DrawsLive'
  <2>1. \A it : Live(it)' <=> Live(it)
    BY <1>1 DEF Live, Rowed
  <2>2. \A i \in 1..Len(queued) : \A j \in 1..Len(queued[i]) : Live(queued[i][j])
    BY DEF IInv, DrawsLive
  <2>3. ASSUME NEW i \in 1..Len(queued'), NEW j \in 1..Len(queued'[i])
        PROVE  Live(queued[i][j])'
    <3>1. i \in 1..(Len(queued) - 1) /\ i + 1 \in 1..Len(queued)
      BY <1>1, <1>2
    <3>2. queued'[i] = queued[i + 1]
      BY <3>1, <1>1, <1>2
    <3> QED BY <3>1, <3>2, <2>1, <2>2
  <2>4. ASSUME NEW j \in 1..Len(reading') PROVE Live(reading[j])'
    <3>1. 1 \in 1..Len(queued)
      BY <1>2
    <3> QED BY <3>1, <1>1, <1>2, <2>1, <2>2
  <2>5. (\A i \in 1..Len(queued) : \A j \in 1..Len(queued[i]) : Live(queued[i][j]))'
    BY <2>3
  <2>6. (\A j \in 1..Len(reading) : Live(reading[j]))'
    BY <2>4
  <2> QED BY <2>5, <2>6, <1>1 DEF DrawsLive
<1>5. placed = <<>>
  BY <1>1 DEF IInv, Placement, Placing
<1> QED BY <1>1, <1>3, <1>4, <1>5, MovesOn DEF Passing, Placing

\* A draw of a request that ended is dropped.
LEMMA SkipTokenInv ==
  ASSUME IInv, SkipToken
  PROVE  IInv'
<1>1. /\ pc \in {"read", "growread"} /\ pc' = pc /\ reading # <<>>
      /\ reading' = Tail(reading)
      /\ UNCHANGED <<free, refs, pageOf, digestOf, idle, submitted, tokens, reason, waiting,
                     rows, filling, seniority, done, held, written, assigned, giving,
                     positions, queued, ahead, left, chunks, placed, found, room,
                     owners, devPos, devTok, devKey, cache>>
  BY DEF SkipToken, Reading, At, poolVars, requestVars, rowVars, localVars, cellVars
<1>2. /\ reading \in Seq(Draw) /\ reading' \in Seq(Draw)
      /\ Len(reading) \in Nat /\ Len(reading') = Len(reading) - 1
      /\ \A i \in 1..(Len(reading) - 1) : reading'[i] = reading[i + 1]
  <2>1. reading \in Seq(Draw)
    BY DEF IInv, PassTypes
  <2> QED BY <2>1, <1>1
<1>3. PassTypes'
  BY <1>1, <1>2 DEF IInv, PassTypes
<1>4. DrawsLive'
  <2>1. \A it : Live(it)' <=> Live(it)
    BY <1>1 DEF Live, Rowed
  <2>2. ASSUME NEW j \in 1..Len(reading') PROVE Live(reading[j])'
    <3>1. j \in 1..(Len(reading) - 1) /\ j + 1 \in 1..Len(reading)
      BY <1>2
    <3> QED BY <3>1, <1>2, <2>1 DEF IInv, DrawsLive
  <2>3. (\A i \in 1..Len(queued) : \A j \in 1..Len(queued[i]) : Live(queued[i][j]))'
    BY <2>1, <1>1 DEF IInv, DrawsLive
  <2>4. (\A j \in 1..Len(reading) : Live(reading[j]))'
    BY <2>2
  <2> QED BY <2>3, <2>4, <1>1 DEF DrawsLive
<1>5. placed = <<>>
  BY <1>1 DEF IInv, Placement, Placing
<1> QED BY <1>1, <1>3, <1>4, <1>5, MovesOn DEF Passing, Placing

\* The passes of the step have been read.
LEMMA ReadDoneInv ==
  ASSUME IInv, ReadDone
  PROVE  IInv'
<1>1. /\ pc \in {"read", "growread"} /\ pc' \in {"idle", "grow"} /\ reading = <<>>
      /\ ahead' = 0 /\ left' = NoLimit
      /\ UNCHANGED <<free, refs, pageOf, digestOf, idle, submitted, tokens, reason, waiting,
                     rows, filling, seniority, done, held, written, assigned, giving,
                     positions, queued, reading, chunks, placed, found, room,
                     owners, devPos, devTok, devKey, cache>>
  BY DEF ReadDone, Reading, At, Goto, poolVars, requestVars, rowVars, cellVars
<1>2. PassTypes'
  BY <1>1 DEF IInv, PassTypes, Label
<1>3. DrawsLive'
  BY <1>1, DrawsLiveKept DEF IInv
<1>4. placed = <<>>
  BY <1>1 DEF IInv, Placement, Placing
<1> QED BY <1>1, <1>2, <1>3, <1>4, MovesOn DEF Passing, Placing

-----------------------------------------------------------------------------
(* The passes on the device.                                                *)

\* A step of the rows queues draws of the rows that decode.
LEMMA StepRowsInv ==
  ASSUME IInv, NEW parked, StepRows(parked), pc \in {"mix", "decode"}, ahead' \in Nat,
         pc' = IF pc = "mix" THEN "mixpass" ELSE "read",
         UNCHANGED <<free, refs, pageOf, digestOf, idle, submitted, tokens, reason, waiting,
                     rows, filling, seniority, done, held, assigned, giving, positions,
                     reading, left, chunks, placed, found, room, owners>>
  PROVE  IInv'
<1>1. /\ cache' \in [Page -> [Offset -> Text]]
      /\ devPos' \in [Slot -> Nat] /\ devTok' \in [Slot -> Token \cup {Junk}]
      /\ devKey' \in [Slot -> Request \cup {None}] /\ written' \in [Slot -> Nat]
      /\ \E pass \in Seq(Draw) :
           /\ queued' = Append(queued, pass)
           /\ \A i \in 1..Len(pass) : pass[i].req \in Rowed \ Range(filling)
  BY DeviceStepTypes DEF IInv, Admission
<1>2. PICK pass \in Seq(Draw) :
        /\ queued' = Append(queued, pass)
        /\ \A i \in 1..Len(pass) : pass[i].req \in Rowed \ Range(filling)
  BY <1>1
<1>5. /\ queued \in Seq(Seq(Draw)) /\ queued' \in Seq(Seq(Draw)) /\ queued' # <<>>
      /\ Len(queued') = Len(queued) + 1 /\ Len(queued) \in Nat
      /\ queued'[Len(queued) + 1] = pass
      /\ \A i \in 1..Len(queued) : queued'[i] = queued[i]
  <2>1. queued \in Seq(Seq(Draw)) /\ queued' = Append(queued, pass)
    BY <1>2 DEF IInv, PassTypes
  <2> QED BY <2>1
<1>6. PoolOK'
  BY PoolUnchanged DEF IInv
<1>7. RowTypes' /\ PassTypes' /\ DeviceTypes'
  BY <1>1, <1>5 DEF IInv, RowTypes, PassTypes, DeviceTypes, Label
<1>8. Admission' /\ PagesHeld'
  BY AdmissionKept, PagesHeldKept DEF IInv
<1>9. DrawsLive'
  <2>1. \A it : Live(it)' <=> Live(it)
    BY DEF Live, Rowed
  <2>2. ASSUME NEW i \in 1..Len(queued'), NEW j \in 1..Len(queued'[i])
        PROVE  Live(queued[i][j])'
    <3>1. CASE i \in 1..Len(queued)
      BY <3>1, <1>5, <2>1 DEF IInv, DrawsLive
    <3>2. CASE i \notin 1..Len(queued)
      <4>1. queued'[i] = pass
        BY <3>2, <1>5
      <4>2. pass[j].req \in Rowed \ Range(filling)
        BY <4>1, <1>2
      <4>3. Live(pass[j])
        BY <4>2 DEF Live
      <4> QED BY <4>1, <4>3, <2>1
    <3> QED BY <3>1, <3>2
  <2>3. reading' = <<>> /\ Len(reading') = 0 /\ 1..0 = {}
    BY DEF IInv, DrawsLive
  <2>4. (\A i \in 1..Len(queued) : \A j \in 1..Len(queued[i]) : Live(queued[i][j]))'
    BY <2>2
  <2>5. (\A j \in 1..Len(reading) : Live(reading[j]))'
    BY <2>3
  <2>6. pc = "mix" => (\A j \in 1..Len(owners) : Live(owners[j]))'
    BY <2>1 DEF IInv, DrawsLive
  <2> QED BY <2>3, <2>4, <2>5, <2>6, <1>5 DEF DrawsLive
<1>10. FillingHold' /\ PiecesRun'
  <2>1. pc \in Passing <=> pc' \in Passing
    BY DEF Passing
  <2> QED BY <2>1, FillingHoldKept, PiecesRunKept DEF IInv
<1>11. Placement'
  BY DEF IInv, Placement, Placing
<1> QED BY <1>6, <1>7, <1>8, <1>9, <1>10, <1>11 DEF IInv

\* One pass carries the pieces and the rows' step: the step's draws.
LEMMA MixStepInv ==
  ASSUME IInv, MixStep
  PROVE  IInv'
<1> DEFINE parked == {SlotOf(chunks[i].req) : i \in DOMAIN chunks}
<1>1. /\ pc = "mix" /\ pc' = "mixpass" /\ StepRows(parked)
      /\ UNCHANGED <<free, refs, pageOf, digestOf, idle, submitted, tokens, reason, waiting,
                     rows, filling, seniority, done, held, assigned, giving, positions,
                     reading, ahead, left, chunks, placed, found, room, owners>>
  BY DEF MixStep, At, Goto, poolVars, requestVars, localVars
<1> HIDE DEF parked
<1>2. ahead' \in Nat
  BY <1>1 DEF IInv, PassTypes
<1> QED BY <1>1, <1>2, StepRowsInv

\* The rows' step, alone in its pass.
LEMMA DecodeStepInv ==
  ASSUME IInv, DecodeStep
  PROVE  IInv'
<1>1. /\ pc = "decode" /\ pc' = "read" /\ StepRows({}) /\ ahead' = 1
      /\ UNCHANGED <<free, refs, pageOf, digestOf, idle, submitted, tokens, reason, waiting,
                     rows, filling, seniority, done, held, assigned, giving, positions,
                     reading, left, chunks, placed, found, room, owners>>
  BY DEF DecodeStep, At, Goto, poolVars, requestVars, localVars
<1> QED BY <1>1, StepRowsInv

\* A piece of a prompt passes; with its last piece the prompt draws, and the row decodes.
LEMMA PassPieceInv ==
  ASSUME IInv, PassPiece
  PROVE  IInv'
<1> DEFINE chunk == Head(chunks)
           stop  == IF pc = "pass" THEN Smaller(chunk.stop, chunk.start + room) ELSE chunk.stop
           r     == chunk.req
<1>1. /\ pc \in {"pass", "mixpass"} /\ pc' = pc /\ chunks # <<>> /\ giving = <<>>
      /\ pc = "pass" => room > 0
      /\ Prefill(chunk, stop)
      /\ room' = room - (stop - chunk.start)
      /\ chunks' = IF stop = chunk.stop THEN Tail(chunks) ELSE [chunks EXCEPT ![1].start = stop]
      /\ UNCHANGED <<free, refs, pageOf, digestOf, idle, submitted, tokens, reason, waiting,
                     rows, seniority, done, held, assigned, giving, positions, queued,
                     reading, ahead, left, placed, found>>
  BY DEF PassPiece, At, poolVars, requestVars, passVars
<1>2. placed = <<>> /\ Range(placed) = {}
  BY <1>1, EmptyLine DEF IInv, Placement, Placing
<1>3. /\ chunks \in Seq(Piece) /\ Len(chunks) \in Nat \ {0} /\ chunk = chunks[1]
      /\ chunk \in Piece
  <2>1. chunks \in Seq(Piece) /\ chunks # <<>>
    BY <1>1 DEF IInv, PassTypes
  <2> QED BY <2>1
<1>4. /\ r \in Rowed /\ r \in Request /\ chunk.start < chunk.stop
      /\ chunk.stop <= Len(PromptOf(r))
  <2>1. 1 \in 1..Len(chunks) /\ pc \in Passing
    BY <1>1, <1>3 DEF Passing
  <2>2. /\ chunks[1].req \in Range(seniority) /\ chunks[1].start < chunks[1].stop
        /\ chunks[1].stop <= Len(PromptOf(chunks[1].req))
    BY <2>1 DEF IInv, PiecesRun
  <2>3. Range(seniority) = Rowed
    BY <1>2 DEF IInv, Admission
  <2> QED BY <2>2, <2>3, <1>3 DEF Piece
<1> HIDE DEF chunk
<1>5. Len(PromptOf(r)) \in Nat /\ chunk.start \in Nat /\ chunk.stop \in Nat /\ room \in Int
  BY <1>3, <1>4, TextOfRequest DEF IInv, Piece, PassTypes
<1> HIDE DEF r
<1>6. stop \in Nat /\ chunk.start < stop /\ stop <= chunk.stop
  BY <1>1, <1>4, <1>5 DEF Smaller
<1> HIDE DEF stop
<1>7. stop <= Len(PromptOf(r))
  BY <1>4, <1>5, <1>6
<1>8. /\ cache' \in [Page -> [Offset -> Text]]
      /\ devPos' \in [Slot -> Nat] /\ devTok' \in [Slot -> Token \cup {Junk}]
      /\ devKey' \in [Slot -> Request \cup {None}]
      /\ written' \in [Slot -> Nat]
      /\ \/ /\ stop = Len(PromptOf(r))
            /\ \E it \in Draw : it.req = r /\ owners' = Append(owners, it)
            /\ filling' = Without(filling, r)
         \/ /\ stop # Len(PromptOf(r))
            /\ UNCHANGED <<owners, filling>>
  BY <1>1, <1>3, <1>4, <1>6, <1>7, PrefillTypes DEF IInv, r
<1>9. /\ filling' \in Seq(Request) /\ Once(filling')
      /\ Range(filling') \subseteq Range(filling)
      /\ stop = Len(PromptOf(r)) => r \notin Range(filling')
  <2>1. filling \in Seq(Request) /\ Once(filling)
    BY DEF IInv, RowTypes, Admission
  <2> QED BY <2>1, <1>8, WithoutOnce
<1>10. /\ owners \in Seq(Draw) /\ owners' \in Seq(Draw) /\ Len(owners) \in Nat
       /\ \A j \in 1..Len(owners') :
            \/ j \in 1..Len(owners) /\ owners'[j] = owners[j]
            \/ owners'[j].req = r /\ stop = Len(PromptOf(r))
  <2>1. owners \in Seq(Draw)
    BY DEF IInv, PassTypes
  <2>2. CASE stop = Len(PromptOf(r))
    <3>1. PICK it \in Draw : it.req = r /\ owners' = Append(owners, it)
      BY <2>2, <1>8
    <3> QED BY <2>1, <2>2, <3>1
  <2>3. CASE stop # Len(PromptOf(r))
    BY <2>1, <2>3, <1>8
  <2> QED BY <2>2, <2>3
<1>11. /\ chunks' \in Seq(Piece)
       /\ \A i \in 1..Len(chunks') :
            \/ /\ i + 1 \in 1..Len(chunks) /\ chunks'[i] = chunks[i + 1]
            \/ /\ i \in 1..Len(chunks) /\ chunks'[i].req = chunks[i].req
               /\ chunks'[i].stop = chunks[i].stop
               /\ chunks'[i].start < chunks'[i].stop
       /\ \A i \in 1..Len(chunks) :
            \/ i = 1 /\ stop = chunk.stop
            \/ \E j \in 1..Len(chunks') :
                 chunks'[j].req = chunks[i].req /\ chunks'[j].stop = chunks[i].stop
  <2>1. CASE stop = chunk.stop
    <3>1. /\ chunks' = Tail(chunks) /\ chunks' \in Seq(Piece)
          /\ Len(chunks') = Len(chunks) - 1
          /\ \A i \in 1..Len(chunks') : chunks'[i] = chunks[i + 1]
      BY <2>1, <1>1, <1>3
    <3>2. \A i \in 1..Len(chunks') : i + 1 \in 1..Len(chunks)
      BY <3>1, <1>3
    <3>3. ASSUME NEW i \in 1..Len(chunks), i # 1
          PROVE  i - 1 \in 1..Len(chunks') /\ chunks'[i - 1] = chunks[i]
      BY <3>1, <3>3, <1>3
    <3> QED BY <2>1, <3>1, <3>2, <3>3
  <2>2. CASE stop # chunk.stop
    <3> DEFINE rest == [chunk EXCEPT !.start = stop]
    <3>1. chunks' = [chunks EXCEPT ![1] = rest]
      BY <2>2, <1>1, <1>3
    <3>2. /\ rest \in Piece /\ rest.req = chunk.req /\ rest.stop = chunk.stop
          /\ rest.start = stop
      BY <1>3, <1>6 DEF Piece
    <3> HIDE DEF rest
    <3>3. /\ chunks' \in Seq(Piece) /\ Len(chunks') = Len(chunks) /\ chunks'[1] = rest
          /\ \A i \in 1..Len(chunks) : i # 1 => chunks'[i] = chunks[i]
      BY <3>1, <3>2, <1>3
    <3>4. stop < chunk.stop
      BY <2>2, <1>5, <1>6
    <3>5. \A i \in 1..Len(chunks) : chunks[i].start < chunks[i].stop
      BY <1>1 DEF IInv, PiecesRun, Passing
    <3>6. ASSUME NEW i \in 1..Len(chunks)
          PROVE  /\ chunks'[i].req = chunks[i].req /\ chunks'[i].stop = chunks[i].stop
                 /\ chunks'[i].start < chunks'[i].stop
      <4>1. CASE i = 1
        BY <4>1, <3>2, <3>3, <3>4, <1>3
      <4>2. CASE i # 1
        BY <4>2, <3>3, <3>5
      <4> QED BY <4>1, <4>2
    <3> QED BY <3>3, <3>6
  <2> QED BY <2>1, <2>2
<1>12. PoolOK'
  BY <1>1, PoolUnchanged DEF IInv
<1>13. RowTypes'
  BY <1>1, <1>9 DEF IInv, RowTypes
<1>14. PassTypes'
  <2>1. room' \in Int
    BY <1>1, <1>5, <1>6
  <2> QED BY <2>1, <1>1, <1>10, <1>11 DEF IInv, PassTypes
<1>15. DeviceTypes'
  BY <1>1, <1>8 DEF IInv, DeviceTypes
<1>16. Rowed' = Rowed
  BY <1>1 DEF Rowed
<1>17. Admission'
  BY <1>1, <1>9, <1>16 DEF IInv, Admission
<1>18. DrawsLive'
  <2>1. ASSUME NEW it, Live(it) PROVE Live(it)'
    BY <2>1, <1>1, <1>9, <1>16 DEF Live
  <2>2. ASSUME NEW j \in 1..Len(owners') PROVE Live(owners[j])'
    <3>1. CASE j \in 1..Len(owners) /\ owners'[j] = owners[j]
      <4>1. Live(owners[j])
        BY <3>1, <1>1 DEF IInv, DrawsLive
      <4> QED BY <3>1, <4>1, <2>1
    <3>2. CASE owners'[j].req = r /\ stop = Len(PromptOf(r))
      BY <3>2, <1>4, <1>9, <1>16 DEF Live
    <3> QED BY <3>1, <3>2, <1>10
  <2>3. (\A j \in 1..Len(owners) : Live(owners[j]))'
    BY <2>2
  <2>4. (\A i \in 1..Len(queued) : \A j \in 1..Len(queued[i]) : Live(queued[i][j]))'
    BY <2>1, <1>1 DEF IInv, DrawsLive
  <2>5. reading' = <<>> /\ Len(reading') = 0 /\ 1..0 = {}
    BY <1>1 DEF IInv, DrawsLive
  <2>6. (\A j \in 1..Len(reading) : Live(reading[j]))'
    BY <2>5
  <2> QED BY <2>3, <2>4, <2>5, <2>6, <1>1 DEF IInv, DrawsLive
<1>19. \A q : PromptOf(q)' = PromptOf(q)
  BY <1>1 DEF PromptOf
<1>20. FillingHold'
  <2>1. ASSUME NEW q \in Range(filling')
        PROVE  /\ Len(held[q]) >= PagesFor(Len(PromptOf(q)))
               /\ done[q] <= Len(PromptOf(q))
               /\ \/ done[q] < Len(PromptOf(q))
                  \/ \E i \in 1..Len(chunks') :
                       chunks'[i].req = q /\ chunks'[i].stop = Len(PromptOf(q))
    <3>1. /\ Len(held[q]) >= PagesFor(Len(PromptOf(q)))
          /\ done[q] <= Len(PromptOf(q))
          /\ \/ done[q] < Len(PromptOf(q))
             \/ \E i \in 1..Len(chunks) : chunks[i].req = q /\ chunks[i].stop = Len(PromptOf(q))
      BY <1>9 DEF IInv, FillingHold
    <3>2. ASSUME NEW i \in 1..Len(chunks), chunks[i].req = q,
                 chunks[i].stop = Len(PromptOf(q))
          PROVE  \E j \in 1..Len(chunks') :
                   chunks'[j].req = q /\ chunks'[j].stop = Len(PromptOf(q))
      <4>1. CASE i = 1 /\ stop = chunk.stop
        <5>1. q = r /\ stop = Len(PromptOf(r))
          BY <3>2, <4>1, <1>3 DEF r
        <5> QED BY <5>1, <1>9
      <4>2. CASE ~ (i = 1 /\ stop = chunk.stop)
        BY <3>2, <4>2, <1>11
      <4> QED BY <4>1, <4>2
    <3> QED BY <3>1, <3>2
  <2> QED BY <2>1, <1>1, <1>2, <1>19 DEF FillingHold, Passing
<1>21. PiecesRun'
  <2>1. ASSUME NEW i \in 1..Len(chunks')
        PROVE  /\ chunks'[i].req \in Range(seniority)
               /\ chunks'[i].start < chunks'[i].stop
               /\ chunks'[i].stop <= Len(PromptOf(chunks'[i].req))
    <3>1. \A k \in 1..Len(chunks) :
            /\ chunks[k].req \in Range(seniority)
            /\ chunks[k].start < chunks[k].stop
            /\ chunks[k].stop <= Len(PromptOf(chunks[k].req))
      BY <1>1 DEF IInv, PiecesRun, Passing
    <3> QED BY <3>1, <1>11
  <2> QED BY <2>1, <1>1, <1>19 DEF PiecesRun
<1>22. Placement'
  BY <1>1, <1>2 DEF Placement, Placing
<1>23. PagesHeld'
  BY <1>1, PagesHeldKept DEF IInv
<1> QED BY <1>12, <1>13, <1>14, <1>15, <1>17, <1>18, <1>20, <1>21, <1>22, <1>23 DEF IInv

\* A token read either ends its request, whose row is freed, or leaves its row alone.
LEMMA ReadTokenInv ==
  ASSUME IInv, ReadToken
  PROVE  IInv'
<1> DEFINE it   == Head(reading)
           r    == it.req
           text == Append(tokens[r], it.token)
           at   == ReadAt(it, text)
           whole == Prompt[r] \o text
<1>1. /\ pc \in {"read", "growread"} /\ pc' = pc /\ giving = <<>> /\ reading # <<>>
      /\ reason[r] = ""
      /\ tokens' = [tokens EXCEPT ![r] = text]
      /\ positions' = [positions EXCEPT ![it.slot] = at]
      /\ reason' = [reason EXCEPT ![r] = FinishReason(r, text, at)]
      /\ IF reason'[r] # "" THEN Release(r, whole)
         ELSE UNCHANGED <<free, refs, pageOf, digestOf, idle, rows, filling, seniority, done,
                          held, written, assigned, giving>>
      /\ reading' = Tail(reading)
      /\ UNCHANGED <<submitted, waiting, queued, ahead, left, chunks, placed, found, room,
                     owners, devPos, devTok, devKey, cache>>
  BY DEF ReadToken, Reading, At, poolVars, rowVars, localVars, cellVars
<1>2. placed = <<>> /\ Range(placed) = {}
  BY <1>1, EmptyLine DEF IInv, Placement, Placing
<1>3. /\ reading \in Seq(Draw) /\ reading' \in Seq(Draw) /\ Len(reading) \in Nat \ {0}
      /\ Len(reading') = Len(reading) - 1 /\ it = reading[1] /\ it \in Draw
      /\ \A i \in 1..(Len(reading) - 1) : reading'[i] = reading[i + 1]
  <2>1. reading \in Seq(Draw)
    BY DEF IInv, PassTypes
  <2>2. reading # <<>> /\ reading' = Tail(reading)
    BY <1>1
  <2>3. Len(reading) \in Nat \ {0}
    BY <2>1, <2>2
  <2>4. /\ Tail(reading) \in Seq(Draw) /\ Len(Tail(reading)) = Len(reading) - 1
        /\ \A i \in 1..(Len(reading) - 1) : Tail(reading)[i] = reading[i + 1]
    BY <2>1, <2>2
  <2>5. it = reading[1] /\ it \in Draw
    BY <2>1, <2>2
  <2> QED BY <2>1, <2>2, <2>3, <2>4, <2>5
<1>4. /\ it.slot \in Slot /\ it.req \in Request /\ it.token \in Token
      /\ it.prompt \in BOOLEAN /\ r \in Rowed \ Range(filling) /\ r \in Request
  <2>1. 1 \in 1..Len(reading)
    BY <1>3
  <2>2. Live(it)
    BY <2>1, <1>3 DEF IInv, DrawsLive
  <2> QED BY <2>2, <1>1, <1>3 DEF Live, Draw
<1> HIDE DEF it
<1>5. text \in Seq(Token) /\ Len(text) = Len(tokens[r]) + 1 /\ Len(tokens[r]) \in Nat
  <2>1. tokens[r] \in Seq(Token)
    BY <1>4 DEF IInv, RowTypes
  <2> QED BY <2>1, <1>4
<1>6. Prompt[r] \in Seq(Token) /\ Len(Prompt[r]) \in Nat /\ Len(Prompt[r]) >= 1
  <2>1. Prompt[r] \in Seq(Token) /\ Len(Prompt[r]) >= 1
    BY <1>4, EngineAssumption
  <2> QED BY <2>1
<1> HIDE DEF text
<1>7. at \in Nat
  <2>1. positions[it.slot] + 1 \in Nat
    BY <1>4 DEF IInv, DeviceTypes
  <2>2. Len(Prompt[it.req]) + Len(text) - 1 \in Nat
    <3> DEFINE m == Len(Prompt[r])
               n == Len(tokens[r])
    <3>1. m \in Nat /\ n \in Nat /\ m >= 1 /\ Len(text) = n + 1
      BY <1>5, <1>6
    <3> HIDE DEF m, n
    <3>2. m + Len(text) - 1 \in Nat
      BY <3>1
    <3> QED BY <3>2 DEF m, r
  <2> QED BY <2>1, <2>2 DEF ReadAt
<1>8. whole \in Seq(Token) /\ Len(whole) # 0
  <2>1. whole \in Seq(Token) /\ Len(whole) = Len(Prompt[r]) + Len(text)
    <3>1. Prompt[r] \in Seq(Token) /\ text \in Seq(Token)
      BY <1>5, <1>6
    <3> QED BY <3>1
  <2> DEFINE m == Len(Prompt[r])
             n == Len(text)
  <2>2. m \in Nat /\ n \in Nat /\ m >= 1 /\ Len(whole) = m + n
    BY <2>1, <1>5, <1>6
  <2> HIDE DEF m, n, whole
  <2> QED BY <2>1, <2>2
<1> HIDE DEF r, at, whole
<1>9. /\ reason' \in [Request -> Reason] /\ \A q \in Request \ {r} : reason'[q] = reason[q]
      /\ tokens' \in [Request -> Seq(Token)]
      /\ \A q \in Request \ {r} : PromptOf(q)' = PromptOf(q)
      /\ positions' \in [Slot -> Nat]
  <2>1. FinishReason(r, text, at) \in Reason
    BY DEF FinishReason, Reason
  <2>2. tokens \in [Request -> Seq(Token)] /\ reason \in [Request -> Reason]
        /\ positions \in [Slot -> Nat]
    BY DEF IInv, RowTypes, DeviceTypes
  <2>3. /\ reason' \in [Request -> Reason]
        /\ \A q \in Request \ {r} : reason'[q] = reason[q]
    BY <2>1, <2>2, <1>1
  <2>4. /\ tokens' \in [Request -> Seq(Token)]
        /\ \A q \in Request \ {r} : tokens'[q] = tokens[q]
    BY <2>2, <1>1, <1>5
  <2>5. positions' \in [Slot -> Nat]
    BY <2>2, <1>1, <1>7
  <2> QED BY <2>3, <2>4, <2>5 DEF PromptOf
<1>10. r \in Range(seniority) /\ r \notin Range(waiting)
  BY <1>4 DEF IInv, Admission
<1>11. r \in Range(submitted)
  BY <1>10 DEF IInv, Admission
<1>12. CASE reason'[r] # ""
  <2>1. Release(r, whole)
    BY <1>1, <1>12
  <2>2. r \in Range(filling) => done[r] <= Len(whole)
    BY <1>4
  <2>3. /\ PoolOK'
        /\ rows' \in [Slot -> Request \cup {None}] /\ Rowed' = Rowed \ {r}
        /\ \A s, t \in Slot : rows'[s] = rows'[t] /\ rows'[s] # None => s = t
        /\ filling' \in Seq(Request) /\ Once(filling')
        /\ Range(filling') = Range(filling) \ {r}
        /\ seniority' \in Seq(Request) /\ Once(seniority')
        /\ Range(seniority') = Range(seniority) \ {r}
        /\ done' \in [Request -> Nat] /\ held' \in [Request -> Seq(Usable)]
        /\ giving' \in Seq(Usable)
        /\ written' \in [Slot -> Nat] /\ assigned' \in [Slot -> Seq(Usable)]
        /\ held'[r] = <<>>
        /\ \A q \in Request \ {r} : held'[q] = held[q] /\ done'[q] = done[q]
        /\ \A q \in Request : Once(held'[q])
        /\ Once(giving')
        /\ \A p \in Page : IsFiniteSet(Holders(p)')
        /\ RefsCountHolders'
    BY <1>1, <1>4, <1>8, <2>1, <2>2, ReleaseRow DEF IInv
  <2>4. RowTypes' /\ PassTypes' /\ DeviceTypes'
    BY <1>1, <1>3, <1>9, <2>3 DEF IInv, RowTypes, PassTypes, DeviceTypes
  <2>5. Admission'
    <3>1. \A q \in Range(waiting') \cup Range(seniority') : reason'[q] = ""
      BY <1>1, <1>9, <1>10, <2>3, LinesOfRequests DEF IInv, Admission
    <3>2. \A q \in Request \ Range(submitted') : reason'[q] = ""
      BY <1>1, <1>9, <1>11 DEF IInv, Admission
    <3>3. /\ Range(seniority') = Rowed' \cup Range(placed')
          /\ Rowed' \cap Range(placed') = {} /\ Range(filling') \subseteq Rowed'
      BY <1>1, <1>2, <2>3 DEF IInv, Admission
    <3> QED BY <3>1, <3>2, <3>3, <1>1, <2>3 DEF IInv, Admission
  <2>6. ASSUME NEW x \in Draw, Live(x) PROVE Live(x)'
    BY <2>6, <1>9, <1>12, <2>3 DEF Live, Draw
  <2>7. DrawsLive'
    <3>1. ASSUME NEW j \in 1..Len(reading') PROVE Live(reading[j])'
      <4>1. j \in 1..(Len(reading) - 1) /\ j + 1 \in 1..Len(reading)
        BY <1>3
      <4> QED BY <4>1, <1>3, <2>6 DEF IInv, DrawsLive
    <3>2. (\A i \in 1..Len(queued) : \A j \in 1..Len(queued[i]) : Live(queued[i][j]))'
      <4>1. queued \in Seq(Seq(Draw)) /\ queued' = queued
        BY <1>1 DEF IInv, PassTypes
      <4>2. ASSUME NEW i \in 1..Len(queued), NEW j \in 1..Len(queued[i])
            PROVE  Live(queued[i][j])'
        <5>1. queued[i][j] \in Draw
          BY <4>1
        <5>2. Live(queued[i][j])
          BY DEF IInv, DrawsLive
        <5> DEFINE x == queued[i][j]
        <5>3. Live(x)'
          <6>1. x.req \in Request /\ Live(x) /\ x \in Draw
            BY <5>1, <5>2 DEF Draw
          <6> QED BY <6>1, <1>9, <1>12, <2>3, <4>1 DEF Live
        <5> QED BY <5>3
      <4> QED BY <4>1, <4>2
    <3>3. (\A j \in 1..Len(reading) : Live(reading[j]))'
      BY <3>1
    <3> QED BY <3>2, <3>3, <1>1 DEF DrawsLive
  <2>8. FillingHold'
    <3>1. ASSUME NEW q \in Range(filling') \cup Range(placed')
          PROVE  /\ Len(held'[q]) >= PagesFor(Len(PromptOf(q)'))
                 /\ done'[q] < Len(PromptOf(q)') /\ done'[q] <= Len(PromptOf(q)')
      <4>1. q \in Range(filling) /\ q \in Request \ {r}
        BY <3>1, <1>1, <1>2, <2>3, RangeOfLine DEF IInv, RowTypes
      <4> QED BY <4>1, <1>1, <1>9, <2>3 DEF IInv, FillingHold, Passing
    <3> QED BY <3>1 DEF FillingHold, PagesFor
  <2>9. PiecesRun' /\ Placement'
    BY <1>1, <1>2 DEF PiecesRun, Placement, IInv, Passing, Placing
  <2>10. PagesHeld'
    <3>1. \A t \in Request : held'[t] # <<>> => t \in Range(seniority')
      BY <1>1, <2>3 DEF IInv, PagesHeld
    <3> QED BY <3>1, <2>3 DEF PagesHeld
  <2> QED BY <2>3, <2>4, <2>5, <2>7, <2>8, <2>9, <2>10 DEF IInv
<1>13. CASE reason'[r] = ""
  <2>1. UNCHANGED <<free, refs, pageOf, digestOf, idle, rows, filling, seniority, done,
                    held, written, assigned, giving>>
    BY <1>1, <1>13
  <2>2. reason' = reason
    <3>1. reason \in [Request -> Reason] /\ \A q \in Request : reason'[q] = reason[q]
      BY <1>1, <1>9, <1>13 DEF IInv, RowTypes
    <3> QED BY <3>1, <1>9
  <2>3. PoolOK'
    BY <2>1, PoolUnchanged DEF IInv
  <2>4. RowTypes' /\ PassTypes' /\ DeviceTypes'
    BY <1>1, <1>3, <1>9, <2>1 DEF IInv, RowTypes, PassTypes, DeviceTypes
  <2>5. Admission' /\ PagesHeld'
    BY <1>1, <2>1, <2>2, AdmissionKept, PagesHeldKept DEF IInv
  <2>6. \A x : Live(x)' <=> Live(x)
    BY <2>1, <2>2 DEF Live, Rowed
  <2>7. DrawsLive'
    <3>1. ASSUME NEW j \in 1..Len(reading') PROVE Live(reading[j])'
      <4>1. j \in 1..(Len(reading) - 1) /\ j + 1 \in 1..Len(reading)
        BY <1>3
      <4> QED BY <4>1, <1>3, <2>6 DEF IInv, DrawsLive
    <3>2. (\A i \in 1..Len(queued) : \A j \in 1..Len(queued[i]) : Live(queued[i][j]))'
      BY <2>6, <1>1 DEF IInv, DrawsLive
    <3>3. (\A j \in 1..Len(reading) : Live(reading[j]))'
      BY <3>1
    <3> QED BY <3>2, <3>3, <1>1 DEF DrawsLive
  <2>8. FillingHold'
    <3>1. ASSUME NEW q \in Range(filling') \cup Range(placed')
          PROVE  /\ Len(held'[q]) >= PagesFor(Len(PromptOf(q)'))
                 /\ done'[q] < Len(PromptOf(q)') /\ done'[q] <= Len(PromptOf(q)')
      <4>1. q \in Range(filling) /\ q \in Request \ {r}
        BY <3>1, <1>1, <1>2, <1>4, <2>1, RangeOfLine DEF IInv, RowTypes
      <4> QED BY <4>1, <1>1, <1>9, <2>1 DEF IInv, FillingHold, Passing
    <3> QED BY <3>1 DEF FillingHold, PagesFor
  <2>9. PiecesRun' /\ Placement'
    BY <1>1, <1>2 DEF PiecesRun, Placement, IInv, Passing, Placing
  <2> QED BY <2>3, <2>4, <2>5, <2>7, <2>8, <2>9 DEF IInv
<1> QED BY <1>12, <1>13

-----------------------------------------------------------------------------
(* The theorems.                                                            *)

\* Every step of the engine, and every call, keeps the invariant.
LEMMA NextInv ==
  ASSUME IInv, [Next]_vars
  PROVE  IInv'
<1>1. CASE UNCHANGED vars
  <2>1. UNCHANGED <<free, refs, pageOf, digestOf, idle, submitted, tokens, reason, waiting,
                    rows, filling, seniority, done, held, written, assigned, giving,
                    positions, queued, reading, ahead, pc, left, chunks, placed, found,
                    room, owners, devPos, devTok, devKey, cache>>
    BY <1>1 DEF vars, poolVars, requestVars, rowVars, passVars, localVars, cellVars
  <2>2. PoolOK'
    BY <2>1, PoolUnchanged DEF IInv
  <2>3. RowTypes' /\ PassTypes' /\ DeviceTypes'
    BY <2>1 DEF IInv, RowTypes, PassTypes, DeviceTypes
  <2>4. Admission' /\ PagesHeld'
    BY <2>1, AdmissionKept, PagesHeldKept DEF IInv
  <2>5. DrawsLive'
    BY <2>1, DrawsLiveKept DEF IInv
  <2>6. FillingHold' /\ PiecesRun'
    BY <2>1, FillingHoldKept, PiecesRunKept DEF IInv
  <2>7. Placement'
    BY <2>1 DEF IInv, Placement, MayPass, FreeSlots, PromptOf
  <2> QED BY <2>2, <2>3, <2>4, <2>5, <2>6, <2>7 DEF IInv
<1>2. ASSUME NEW r \in Request, Submit(r) PROVE IInv'
  BY <1>2, SubmitInv
<1>3. ASSUME NEW r \in Request, Cancel(r) PROVE IInv'
  BY <1>3, CancelInv
<1>4. CASE LoadWeights \/ Reset
  BY <1>4, LoadWeightsInv, ResetInv
<1>5. CASE Client
  BY <1>2, <1>3, <1>4, <1>5 DEF Client
<1>6. CASE BeginStep \/ GiveBackPage
  BY <1>6, BeginStepInv, GiveBackPageInv
<1>7. CASE GrowRead \/ GrowPreempt \/ GrowTake \/ GrowDone
  BY <1>7, GrowReadInv, GrowPreemptInv, GrowTakeInv, GrowDoneInv
<1>8. CASE ChunkFilling \/ ChunkDone
  BY <1>8, ChunkFillingInv, ChunkDoneInv
<1>9. CASE PlaceStart \/ ShareFound \/ TakeOwn \/ PlaceDone \/ PlaceStop
  BY <1>9, PlaceStartInv, ShareFoundInv, TakeOwnInv, PlaceDoneInv, PlaceStopInv
<1>10. CASE Bind \/ BindDone
  BY <1>10, BindInv, BindDoneInv
<1>11. CASE MixStep \/ PassPiece \/ PassEnd \/ PassesDone \/ MixPassEnd
  BY <1>11, MixStepInv, PassPieceInv, PassEndInv, PassesDoneInv, MixPassEndInv
<1>12. CASE DecodeStep \/ DecodeNone
  BY <1>12, DecodeStepInv, DecodeNoneInv
<1>13. CASE PopPass \/ SkipToken \/ ReadToken \/ ReadDone
  BY <1>13, PopPassInv, SkipTokenInv, ReadTokenInv, ReadDoneInv
<1>14. CASE Step
  BY <1>6, <1>7, <1>8, <1>9, <1>10, <1>11, <1>12, <1>13, <1>14 DEF Step
<1>15. CASE Rest
  BY <1>1, <1>15 DEF Rest
<1> QED BY <1>1, <1>5, <1>14, <1>15 DEF Next

\* The invariant holds in every state of every behaviour of the engine, for any
\* number of rows and pages, any prompts, and any order of calls.
THEOREM EngineInvariant == Spec => []IInv
<1>1. Init => IInv
  BY InitInv
<1>2. IInv /\ [Next]_vars => IInv'
  BY NextInv
<1> QED BY <1>1, <1>2, PTL DEF Spec

\* The pool never has a page both free and in use, keeps no page under two digests and
\* no digest for two pages, and hands the sink page to nobody.
THEOREM PoolIsConsistent == Spec => []PoolConsistent
<1>1. IInv => PoolConsistent
  BY DEF IInv, PoolOK
<1> QED BY <1>1, EngineInvariant, PTL

\* The count of a page is the number of requests that hold it, with the release under
\* way: over any run of shares, preemptions, cancels and ends no page is lost or given
\* back twice.
THEOREM CountsAreHolders == Spec => []RefsCountHolders
<1>1. IInv => RefsCountHolders
  BY DEF IInv, PagesHeld
<1> QED BY <1>1, EngineInvariant, PTL

\* A request that waits, was preempted, was cancelled or ended holds no page.
THEOREM OnlyAdmittedHold == Spec => []HoldersAdmitted
<1>1. ASSUME IInv PROVE HoldersAdmitted
  <2>1. SUFFICES ASSUME NEW r \in Request, held[r] # <<>>
                 PROVE  \/ \E s \in Slot : rows[s] = r
                        \/ r \in Range(placed)
                        \/ pc = "sharing" /\ r = Head(waiting)
    BY DEF HoldersAdmitted
  <2>2. r \in Range(seniority) \/ (pc = "sharing" /\ r = Head(waiting))
    BY <1>1, <2>1 DEF IInv, PagesHeld
  <2>3. Range(seniority) = Rowed \cup Range(placed)
    BY <1>1 DEF IInv, Admission
  <2> QED BY <2>2, <2>3 DEF Rowed
<1> QED BY <1>1, EngineInvariant, PTL

\* With no request in a row, every page but the sink is free or idle.
LEMMA WholeWhenEmpty ==
  ASSUME IInv, pc = "idle", giving = <<>>, \A s \in Slot : rows[s] = None
  PROVE  available = NPages - 1
<1>1. Rowed = {} /\ placed = <<>>
  BY DEF Rowed, IInv, Placement, Placing
<1>2. Range(<<>>) = {}
  BY EmptyLine
<1>3. \A r \in Request : held[r] = <<>>
  BY <1>1, <1>2 DEF IInv, PagesHeld, Admission
<1>4. ASSUME NEW p \in Page PROVE refs[p] = 0
  <2>1. Holders(p) = {} /\ p \notin Range(giving)
    BY <1>2, <1>3 DEF Holders
  <2>2. refs[p] = Cardinality(Holders(p)) + (IF p \in Range(giving) THEN 1 ELSE 0)
    BY DEF IInv, PagesHeld, RefsCountHolders
  <2> QED BY <2>1, <2>2, FS_EmptySet
<1>5. /\ free \in Seq(Usable) /\ idle \in Seq(Usable) /\ Once(free) /\ Once(idle)
  BY PoolLines DEF IInv, PoolOK
<1>6. /\ Range(free) \cap Range(idle) = {}
      /\ Range(free) \cup Range(idle) = Page \ {SinkPage}
  BY <1>4 DEF IInv, PoolOK, PoolTypeOK, PoolConsistent, ListsPartition
<1>7. Page \ {SinkPage} = 1..(NPages - 1) /\ NPages - 1 \in Nat
  BY NPagesAssumption DEF Page, SinkPage
<1>8. /\ IsFiniteSet(Range(free)) /\ Cardinality(Range(free)) = Len(free)
      /\ IsFiniteSet(Range(idle)) /\ Cardinality(Range(idle)) = Len(idle)
  BY <1>5, OnceCounts
<1>9. Cardinality(Range(free) \cup Range(idle)) = Len(free) + Len(idle)
  <2>1. Cardinality(Range(free) \cup Range(idle))
          = Cardinality(Range(free)) + Cardinality(Range(idle))
              - Cardinality(Range(free) \cap Range(idle))
    BY <1>8, FS_Union
  <2>2. Cardinality(Range(free) \cap Range(idle)) = 0
    BY <1>6, FS_EmptySet
  <2>3. Len(free) \in Nat /\ Len(idle) \in Nat
    BY <1>5
  <2> QED BY <2>1, <2>2, <2>3, <1>8
<1>10. Cardinality(1..(NPages - 1)) = NPages - 1
  <2> DEFINE n == NPages - 1
  <2>1. n \in Nat
    BY <1>7
  <2> HIDE DEF n
  <2>2. (1 > n => n = 0) /\ n - 1 + 1 = n /\ n \in Int
    BY <2>1
  <2>3. Cardinality(1..n) = IF 1 > n THEN 0 ELSE n - 1 + 1
    BY <2>2, FS_Interval
  <2> QED BY <2>2, <2>3 DEF n
<1> QED BY <1>6, <1>7, <1>9, <1>10 DEF available

\* Once no request is in a row, the pool has every page again: no run of the engine
\* leaks one.
THEOREM NoPageLost == Spec => []PoolWhole
<1>1. IInv => PoolWhole
  BY WholeWhenEmpty DEF PoolWhole
<1> QED BY <1>1, EngineInvariant, PTL

-----------------------------------------------------------------------------
(* The promise of Batching.  A token read is at the position Batching counts  *)
(* only if a prompt's draw is read before the row's others, so the invariant  *)
(* of the pages says also where the draws not read stand.                     *)

\* The draws of the pass being put together.
Due == IF pc \in {"mix", "mixpass", "pass"} THEN owners ELSE <<>>

Drawn(r, pass) == \E j \in 1..Len(pass) : pass[j].req = r
PromptDrawn(r, pass) == \E j \in 1..Len(pass) : pass[j].req = r /\ pass[j].prompt

AllRead == queued = <<>> /\ reading = <<>> /\ Due = <<>>

\* A draw of a request that runs is for the row of the request.
InSlot(it) == reason[it.req] = "" => rows[it.slot] = it.req

\* The draw of a prompt is read before any other draw of its request; n passes are
\* read before it.
PromptFirst(it, n) ==
  it.prompt /\ reason[it.req] = "" =>
    ~Drawn(it.req, reading) /\ \A k \in 1..n : ~Drawn(it.req, queued[k])

PassInPlace(pass, n) ==
  OncePerPass(pass) /\ \A j \in 1..Len(pass) : InSlot(pass[j]) /\ PromptFirst(pass[j], n)

DrawsInPlace ==
  /\ OncePerPass(reading) /\ \A j \in 1..Len(reading) : InSlot(reading[j])
  /\ \A i \in 1..Len(queued) : PassInPlace(queued[i], i - 1)
  /\ PassInPlace(Due, Len(queued)) /\ \A j \in 1..Len(Due) : Due[j].prompt

\* The last position of a row is that of the tokens read, unless its prompt's draw
\* is not read yet.
PromptUnread(r) ==
  \/ PromptDrawn(r, reading) \/ Drawn(r, Due)
  \/ \E i \in 1..Len(queued) : PromptDrawn(r, queued[i])

LastPosition(r) == Len(Prompt[r]) + Len(tokens[r]) - 1

PositionsRead ==
  \A s \in Slot : rows[s] # None /\ rows[s] \notin Range(filling) =>
    PromptUnread(rows[s]) \/ positions[s] = LastPosition(rows[s])

Rooms ==
  /\ pc = "mix" => owners = <<>>
  /\ pc = "pass" => room \in 0..Pack /\ (room = Pack => owners = <<>>)

ReadInv == DrawsInPlace /\ PositionsRead /\ Rooms

\* The draws are draws.
LEMMA DrawsTyped ==
  ASSUME IInv
  PROVE  /\ queued \in Seq(Seq(Draw)) /\ reading \in Seq(Draw) /\ Due \in Seq(Draw)
         /\ \A i \in 1..Len(queued) : queued[i] \in Seq(Draw)
<1>1. queued \in Seq(Seq(Draw)) /\ reading \in Seq(Draw) /\ owners \in Seq(Draw)
  BY DEF IInv, PassTypes
<1>2. <<>> \in Seq(Draw)
  OBVIOUS
<1>3. Due \in Seq(Draw)
  BY <1>1, <1>2 DEF Due
<1> QED BY <1>1, <1>3

\* A draw of a pass.
LEMMA DrawOfPass ==
  ASSUME NEW pass \in Seq(Draw), NEW j \in 1..Len(pass)
  PROVE  /\ pass # <<>> /\ pass[j] \in Draw
         /\ pass[j].req \in Request /\ pass[j].slot \in Slot /\ pass[j].token \in Token
         /\ pass[j].prompt \in BOOLEAN
<1>1. pass # <<>> /\ pass[j] \in Draw
  OBVIOUS
<1> QED BY <1>1 DEF Draw

\* Rows are freed or bound, and requests end: no draw and no count changes.
LEMMA RowsMove ==
  ASSUME IInv, ReadInv, UNCHANGED <<queued, reading, tokens, positions>>, Due' = Due, Rooms',
         \A q \in Request : reason'[q] = "" => reason[q] = "",
         \/ AllRead
         \/ \A s \in Slot : rows[s] \in Request /\ reason'[rows[s]] = "" => rows'[s] = rows[s],
         \A s \in Slot : rows'[s] # None /\ rows'[s] \notin Range(filling') =>
                           rows'[s] = rows[s] /\ rows[s] \notin Range(filling)
  PROVE  ReadInv'
<1>1. /\ queued \in Seq(Seq(Draw)) /\ reading \in Seq(Draw) /\ Due \in Seq(Draw)
      /\ \A i \in 1..Len(queued) : queued[i] \in Seq(Draw)
  BY DrawsTyped
<1> HIDE DEF Due
<1>2. ASSUME NEW pass \in Seq(Draw), NEW n \in Nat, PassInPlace(pass, n),
             \A s \in Slot : rows[s] \in Request /\ reason'[rows[s]] = "" => rows'[s] = rows[s]
      PROVE  PassInPlace(pass, n)'
  <2>1. ASSUME NEW j \in 1..Len(pass) PROVE InSlot(pass[j])' /\ PromptFirst(pass[j], n)'
    <3>2. pass[j].req \in Request
      BY DrawOfPass
    <3>3. InSlot(pass[j])'
      BY <1>2, DrawOfPass DEF PassInPlace, InSlot
    <3>4. PromptFirst(pass[j], n)'
      BY <1>2, <3>2 DEF PassInPlace, PromptFirst, Drawn
    <3> QED BY <3>3, <3>4
  <2>2. OncePerPass(pass)
    BY <1>2 DEF PassInPlace
  <2> QED BY <2>1, <2>2 DEF PassInPlace
<1>3. DrawsInPlace'
  <2>1. CASE AllRead
    <3>1. 1..Len(<<>>) = {}
      BY <1>1, PlacesOfLine
    <3> QED BY <2>1, <3>1 DEF AllRead, DrawsInPlace, PassInPlace, OncePerPass
  <2>2. CASE \A s \in Slot : rows[s] \in Request /\ reason'[rows[s]] = "" => rows'[s] = rows[s]
    <3>1. ASSUME NEW j \in 1..Len(reading) PROVE InSlot(reading[j])'
      <4>1. reading[j].req \in Request /\ reading[j].slot \in Slot
        BY <1>1, DrawOfPass
      <4>2. InSlot(reading[j])
        BY DEF ReadInv, DrawsInPlace
      <4> QED BY <4>1, <4>2, <2>2 DEF InSlot
    <3>2. ASSUME NEW i \in 1..Len(queued) PROVE PassInPlace(queued[i], i - 1)'
      <4>1. queued[i] \in Seq(Draw)
        BY <1>1
      <4>2. i - 1 \in Nat
        BY <1>1, PlacesOfLine
      <4>3. PassInPlace(queued[i], i - 1)
        BY DEF ReadInv, DrawsInPlace
      <4> DEFINE n == i - 1
                 pass == queued[i]
      <4> HIDE DEF n, pass
      <4>4. PassInPlace(pass, n)'
        BY <4>1, <4>2, <4>3, <1>2, <2>2 DEF pass, n
      <4> QED BY <4>4 DEF n, pass
    <3>3. PassInPlace(Due, Len(queued))'
      <4>1. Due \in Seq(Draw)
        BY <1>1
      <4>2. Len(queued) \in Nat
        BY <1>1, PlacesOfLine
      <4>3. PassInPlace(Due, Len(queued))
        BY DEF ReadInv, DrawsInPlace
      <4> DEFINE n == Len(queued)
                 pass == Due
      <4> HIDE DEF n, pass
      <4>4. PassInPlace(pass, n)'
        BY <4>1, <4>2, <4>3, <1>2, <2>2 DEF pass, n
      <4> QED BY <4>4 DEF n, pass
    <3>4. OncePerPass(reading') /\ \A j \in 1..Len(Due') : Due'[j].prompt
      BY DEF ReadInv, DrawsInPlace
    <3> QED BY <3>1, <3>2, <3>3, <3>4 DEF DrawsInPlace
  <2> QED BY <2>1, <2>2
<1>4. PositionsRead'
  BY DEF ReadInv, PositionsRead, PromptUnread, Drawn, PromptDrawn, LastPosition
<1> QED BY <1>3, <1>4 DEF ReadInv

\* The rows, the requests that end and the draws are as before.
LEMMA RowsStay ==
  ASSUME IInv, ReadInv, Due' = Due, Rooms',
         UNCHANGED <<queued, reading, tokens, positions, reason, rows, filling>>
  PROVE  ReadInv'
BY RowsMove

\* The actions that neither draw, read, bind a row nor free one.
Quiet ==
  \/ \E r \in Request : Submit(r) \/ (Cancel(r) /\ CancelWaiting(r))
  \/ LoadWeights \/ BeginStep \/ GiveBackPage
  \/ GrowRead \/ GrowTake \/ GrowDone \/ ChunkFilling \/ ChunkDone
  \/ PlaceStart \/ ShareFound \/ TakeOwn \/ PlaceDone \/ PlaceStop
  \/ BindDone \/ PassesDone \/ DecodeNone \/ ReadDone

\* None of them disturbs the draws not read or the last positions.
LEMMA QuietKeeps ==
  ASSUME IInv, ReadInv, Quiet
  PROVE  ReadInv'
<1> DEFINE Still == UNCHANGED <<queued, reading, tokens, positions, rows, filling>>
           Moved == Still /\ UNCHANGED reason /\ Due' = Due /\ Rooms'
<1>1. Moved => ReadInv'
  BY RowsStay
<1> USE DEF At, Goto
<1>2. ASSUME NEW r \in Request, Submit(r) PROVE Moved
  BY <1>2 DEF Submit, requestVars, rowVars, passVars, localVars, Due, Rooms
<1>3. ASSUME NEW r \in Request, Cancel(r), CancelWaiting(r) PROVE ReadInv'
  <2>1. /\ Still /\ Due' = Due /\ Rooms' /\ r \in Range(waiting)
        /\ reason' = [reason EXCEPT ![r] = "cancelled"]
    BY <1>3 DEF Cancel, CancelWaiting, rowVars, passVars, localVars, Due, Rooms
  <2>2. reason \in [Request -> Reason]
    BY DEF IInv, RowTypes
  <2>3. \A q \in Request : reason'[q] = "" => reason[q] = ""
    BY <2>1, <2>2
  <2>4. \A s \in Slot : rows[s] \in Request /\ reason'[rows[s]] = "" => rows'[s] = rows[s]
    BY <2>1
  <2>5. \A s \in Slot : rows'[s] # None /\ rows'[s] \notin Range(filling') =>
                          rows'[s] = rows[s] /\ rows[s] \notin Range(filling)
    BY <2>1
  <2> QED BY <2>1, <2>3, <2>4, <2>5, RowsMove
<1>4. ASSUME LoadWeights PROVE Moved
  BY <1>4 DEF LoadWeights, requestVars, rowVars, passVars, localVars, Due, Rooms
<1>5. ASSUME BeginStep PROVE Moved
  BY <1>5 DEF BeginStep, requestVars, rowVars, passVars, localVars, Due, Rooms
<1>6. ASSUME GiveBackPage PROVE Moved
  BY <1>6 DEF GiveBackPage, ReadInv, requestVars, passVars, localVars, Due, Rooms
<1>7. ASSUME GrowRead PROVE Moved
  BY <1>7 DEF GrowRead, requestVars, rowVars, localVars, Due, Rooms
<1>8. ASSUME GrowTake PROVE Moved
  BY <1>8 DEF GrowTake, requestVars, passVars, localVars, Due, Rooms
<1>9. ASSUME GrowDone PROVE Moved
  BY <1>9 DEF GrowDone, requestVars, rowVars, passVars, Due, Rooms
<1>10. ASSUME ChunkFilling PROVE Moved
  BY <1>10 DEF ChunkFilling, requestVars, passVars, Due, Rooms
<1>11. ASSUME ChunkDone PROVE Moved
  BY <1>11 DEF ChunkDone, requestVars, rowVars, passVars, localVars, Due, Rooms
<1>12. ASSUME PlaceStart PROVE Moved
  BY <1>12 DEF PlaceStart, requestVars, passVars, Due, Rooms
<1>13. ASSUME ShareFound PROVE Moved
  BY <1>13 DEF ShareFound, requestVars, passVars, Due, Rooms
<1>14. ASSUME TakeOwn PROVE Moved
  BY <1>14 DEF TakeOwn, requestVars, passVars, localVars, Due, Rooms
<1>15. ASSUME PlaceDone PROVE Moved
  BY <1>15 DEF PlaceDone, requestVars, passVars, Due, Rooms
<1>16. ASSUME PlaceStop PROVE Moved
  BY <1>16 DEF PlaceStop, requestVars, rowVars, passVars, localVars, Due, Rooms
<1>17. ASSUME BindDone PROVE Moved
  <2>1. Still /\ UNCHANGED reason /\ owners' = <<>> /\ room' = Pack /\ pc = "bind"
    BY <1>17 DEF BindDone, requestVars, rowVars, passVars
  <2>2. Pack \in 0..Pack
    BY EngineAssumption
  <2> QED BY <2>1, <2>2 DEF Due, Rooms
<1>18. ASSUME PassesDone PROVE Moved
  BY <1>18 DEF PassesDone, ReadInv, requestVars, rowVars, passVars, localVars, Due, Rooms
<1>19. ASSUME DecodeNone PROVE Moved
  BY <1>19 DEF DecodeNone, requestVars, rowVars, localVars, Due, Rooms
<1>20. ASSUME ReadDone PROVE Moved
  BY <1>20 DEF ReadDone, Reading, requestVars, rowVars, Due, Rooms
<1> HIDE DEF Moved
<1> QED BY <1>1, <1>2, <1>3, <1>4, <1>5, <1>6, <1>7, <1>8, <1>9, <1>10, <1>11, <1>12,
           <1>13, <1>14, <1>15, <1>16, <1>17, <1>18, <1>19, <1>20 DEF Quiet

\* The row that is freed, and the others.
LEMMA FreedRow ==
  ASSUME IInv, NEW r \in Rowed, NEW text, Release(r, text)
  PROVE  /\ SlotOf(r) \in Slot /\ rows[SlotOf(r)] = r /\ r \in Request
         /\ rows'[SlotOf(r)] = None
         /\ \A s \in Slot \ {SlotOf(r)} : rows'[s] = rows[s] /\ rows[s] # r
         /\ Range(filling') = Range(filling) \ {r}
<1>1. SlotOf(r) \in Slot /\ rows[SlotOf(r)] = r /\ r \in Request /\ r # None
  BY SlotOfRow, EngineAssumption DEF IInv
<1>2. rows' = [rows EXCEPT ![SlotOf(r)] = None] /\ filling' = Without(filling, r)
  BY DEF Release
<1>3. rows \in [Slot -> Request \cup {None}] /\ filling \in Seq(Request) /\ Once(filling)
  BY DEF IInv, RowTypes, Admission
<1>4. Range(filling') = Range(filling) \ {r}
  BY <1>2, <1>3, WithoutOnce
<1>5. \A s \in Slot : rows[s] = rows[SlotOf(r)] /\ rows[s] # None => s = SlotOf(r)
  BY <1>1 DEF IInv, Admission
<1> HIDE DEF SlotOf
<1>6. \A s \in Slot \ {SlotOf(r)} : rows'[s] = rows[s]
  BY <1>1, <1>2, <1>3
<1>7. rows'[SlotOf(r)] = None
  BY <1>1, <1>2, <1>3
<1> QED BY <1>1, <1>4, <1>5, <1>6, <1>7

\* A cancelled row is freed: its draws are not read.
LEMMA CancelRowReads ==
  ASSUME IInv, ReadInv, NEW r \in Request, Cancel(r), CancelRow(r)
  PROVE  ReadInv'
<1>1. /\ reason' = [reason EXCEPT ![r] = "cancelled"] /\ pc = "idle" /\ pc' = "idle"
      /\ UNCHANGED <<queued, reading, tokens, positions>>
      /\ r \in Rowed /\ Release(r, PromptOf(r))
  BY EngineAssumption DEF Cancel, CancelRow, At, passVars, localVars, Rowed
<1>2. /\ SlotOf(r) \in Slot /\ rows[SlotOf(r)] = r /\ rows'[SlotOf(r)] = None
      /\ \A s \in Slot \ {SlotOf(r)} : rows'[s] = rows[s] /\ rows[s] # r
      /\ Range(filling') = Range(filling) \ {r}
  BY <1>1, FreedRow
<1>3. reason' \in [Request -> Reason] /\ \A q \in Request \ {r} : reason'[q] = reason[q]
  BY <1>1 DEF IInv, RowTypes, Reason
<1>4. reason'[r] = "cancelled"
  BY <1>1 DEF IInv, RowTypes
<1>5. \A q \in Request : reason'[q] = "" => reason[q] = ""
  BY <1>3, <1>4
<1>6. \A s \in Slot : rows[s] \in Request /\ reason'[rows[s]] = "" => rows'[s] = rows[s]
  BY <1>2, <1>4
<1>7. \A s \in Slot : rows'[s] # None /\ rows'[s] \notin Range(filling') =>
                        rows'[s] = rows[s] /\ rows[s] \notin Range(filling)
  BY <1>2
<1>8. Due' = Due /\ Rooms'
  BY <1>1 DEF Due, Rooms
<1> QED BY <1>1, <1>5, <1>6, <1>7, <1>8, RowsMove

\* A request is preempted only when every pass has been read.
LEMMA GrowPreemptReads ==
  ASSUME IInv, ReadInv, GrowPreempt
  PROVE  ReadInv'
<1> DEFINE r == Victim
<1>1. /\ pc = "grow" /\ pc' = "grow" /\ queued = <<>> /\ short
      /\ UNCHANGED <<queued, reading, tokens, positions, reason>>
      /\ Release(r, PromptOf(r))
  BY DEF GrowPreempt, At, passVars, requestVars
<1>2. r \in Rowed
  BY <1>1, VictimInRow
<1> HIDE DEF r
<1>3. /\ SlotOf(r) \in Slot /\ rows[SlotOf(r)] = r /\ rows'[SlotOf(r)] = None
      /\ \A s \in Slot \ {SlotOf(r)} : rows'[s] = rows[s] /\ rows[s] # r
      /\ Range(filling') = Range(filling) \ {r}
  BY <1>1, <1>2, FreedRow
<1>4. \A s \in Slot : rows'[s] # None /\ rows'[s] \notin Range(filling') =>
                        rows'[s] = rows[s] /\ rows[s] \notin Range(filling)
  BY <1>3
<1>5. Due' = Due /\ Due = <<>> /\ Rooms'
  BY <1>1 DEF Due, Rooms
<1>6. AllRead
  BY <1>1, <1>5 DEF AllRead, IInv, DrawsLive
<1>7. \A q \in Request : reason'[q] = "" => reason[q] = ""
  BY <1>1
<1> QED BY <1>1, <1>4, <1>5, <1>6, <1>7, RowsMove

\* A request that gets a row has not drawn yet.
LEMMA BindReads ==
  ASSUME IInv, ReadInv, Bind
  PROVE  ReadInv'
<1> DEFINE r == placed[Shortest]
           s == Min(FreeSlots)
<1>1. /\ pc = "bind" /\ pc' = "bind" /\ placed # <<>>
      /\ UNCHANGED <<queued, reading, tokens, positions, reason>>
      /\ rows' = [rows EXCEPT ![s] = r] /\ filling' = Append(filling, r)
  BY DEF Bind, At, passVars, requestVars
<1>2. r \in Request /\ s \in Slot /\ rows[s] = None
  BY <1>1, BoundSlot
<1> HIDE DEF r, s
<1>3. rows \in [Slot -> Request \cup {None}] /\ filling \in Seq(Request)
  BY DEF IInv, RowTypes
<1>4. rows'[s] = r /\ \A t \in Slot \ {s} : rows'[t] = rows[t]
  BY <1>1, <1>2, <1>3
<1>5. Range(filling') = Range(filling) \cup {r}
  BY <1>1, <1>2, <1>3, AppendOnce
<1>6. \A t \in Slot : rows[t] \in Request /\ reason'[rows[t]] = "" => rows'[t] = rows[t]
  BY <1>2, <1>4, EngineAssumption
<1>7. \A t \in Slot : rows'[t] # None /\ rows'[t] \notin Range(filling') =>
                        rows'[t] = rows[t] /\ rows[t] \notin Range(filling)
  BY <1>4, <1>5
<1>8. Due' = Due /\ Rooms'
  BY <1>1 DEF Due, Rooms
<1>9. \A q \in Request : reason'[q] = "" => reason[q] = ""
  BY <1>1
<1> QED BY <1>1, <1>6, <1>7, <1>8, <1>9, RowsMove

\* Nothing is drawn of a request that is to be submitted anew.
LEMMA ResetReads ==
  ASSUME IInv, Reset
  PROVE  ReadInv'
<1>1. /\ pc = "idle" /\ pc' = "idle" /\ queued' = <<>> /\ reading' = reading
      /\ rows' = [t \in Slot |-> None]
  BY DEF Reset, At
<1>2. reading' = <<>> /\ Due' = <<>>
  BY <1>1 DEF IInv, DrawsLive, Due
<1>3. 1..Len(<<>>) = {}
  BY NoPlaces
<1>4. DrawsInPlace'
  BY <1>1, <1>2, <1>3 DEF DrawsInPlace, PassInPlace, OncePerPass
<1>5. PositionsRead' /\ Rooms'
  BY <1>1 DEF PositionsRead, Rooms
<1> QED BY <1>4, <1>5 DEF ReadInv

\* The engine starts with nothing drawn.
LEMMA InitReads ==
  ASSUME Init
  PROVE  ReadInv
<1>1. /\ pc = "idle" /\ queued = <<>> /\ reading = <<>> /\ Due = <<>>
      /\ rows = [t \in Slot |-> None]
  BY DEF Init, Due
<1>2. 1..Len(<<>>) = {}
  BY NoPlaces
<1>3. DrawsInPlace
  BY <1>1, <1>2 DEF DrawsInPlace, PassInPlace, OncePerPass
<1>4. PositionsRead /\ Rooms
  BY <1>1 DEF PositionsRead, Rooms
<1> QED BY <1>3, <1>4 DEF ReadInv

\* A pass is in place still if no request starts to run, those in rows that run stay
\* there, and no more is to be read before it.
LEMMA InPlaceKept ==
  ASSUME NEW pass \in Seq(Draw), NEW n \in Nat, NEW m \in Nat, PassInPlace(pass, n),
         \A q \in Request : reason'[q] = "" => reason[q] = "",
         \A s \in Slot : rows[s] \in Request /\ reason'[rows[s]] = "" => rows'[s] = rows[s],
         \A q \in Request :
           Drawn(q, reading') \/ (\E k \in 1..m : Drawn(q, queued'[k])) =>
             Drawn(q, reading) \/ (\E k \in 1..n : Drawn(q, queued[k]))
  PROVE  PassInPlace(pass, m)'
<1>1. ASSUME NEW j \in 1..Len(pass) PROVE InSlot(pass[j])' /\ PromptFirst(pass[j], m)'
  <2>1. pass[j].req \in Request /\ pass[j].slot \in Slot
    BY DrawOfPass
  <2>2. InSlot(pass[j]) /\ PromptFirst(pass[j], n)
    BY DEF PassInPlace
  <2>3. InSlot(pass[j])'
    BY <2>1, <2>2 DEF InSlot
  <2>4. PromptFirst(pass[j], m)'
    BY <2>1, <2>2 DEF PromptFirst
  <2> QED BY <2>3, <2>4
<1>2. OncePerPass(pass)
  BY DEF PassInPlace
<1> QED BY <1>1, <1>2 DEF PassInPlace

\* A pass that is queued is read after the passes queued before it.
LEMMA PassQueued ==
  ASSUME IInv, ReadInv, NEW pass \in Seq(Draw), queued' = Append(queued, pass),
         PassInPlace(pass, Len(queued)), Due = <<>> \/ pass = Due, Due' = <<>>, Rooms',
         UNCHANGED <<tokens, reason, rows, filling, positions, reading>>
  PROVE  ReadInv'
<1> DEFINE n == Len(queued)
<1>1. /\ queued \in Seq(Seq(Draw)) /\ reading \in Seq(Draw)
      /\ \A i \in 1..n : queued[i] \in Seq(Draw)
  BY DrawsTyped
<1>2. /\ n \in Nat /\ Len(queued') = n + 1 /\ queued'[n + 1] = pass
      /\ \A i \in 1..n : queued'[i] = queued[i]
  <2>1. queued \in Seq(Seq(Draw)) /\ pass \in Seq(Draw)
    BY <1>1
  <2> QED BY <2>1
<1> HIDE DEF n
<1>3. \A i \in 1..(n + 1) : i \in 1..n \/ i = n + 1
  BY <1>2
<1>4. \A i \in 1..n : i - 1 \in Nat /\ 1..(i - 1) \subseteq 1..n /\ i \in 1..(n + 1)
  BY <1>2
<1>5. n + 1 \in 1..(n + 1) /\ n + 1 - 1 = n /\ 1..Len(<<>>) = {}
  BY <1>2, NoPlaces
<1>6. ASSUME NEW some \in Seq(Draw), NEW k \in Nat, 1..k \subseteq 1..n, PassInPlace(some, k)
      PROVE  PassInPlace(some, k)'
  <2>1. \A q \in Request :
          Drawn(q, reading') \/ (\E l \in 1..k : Drawn(q, queued'[l])) =>
            Drawn(q, reading) \/ (\E l \in 1..k : Drawn(q, queued[l]))
    BY <1>2, <1>6
  <2>2. \A q \in Request : reason'[q] = "" => reason[q] = ""
    OBVIOUS
  <2>3. \A s \in Slot : rows[s] \in Request /\ reason'[rows[s]] = "" => rows'[s] = rows[s]
    OBVIOUS
  <2> QED BY <2>1, <2>2, <2>3, <1>6, InPlaceKept
<1>7. ASSUME NEW i \in 1..(n + 1) PROVE PassInPlace(queued[i], i - 1)'
  <2>1. CASE i \in 1..n
    <3>1. PICK some \in Seq(Draw) : some = queued[i]
      BY <2>1, <1>1
    <3>2. PICK k \in Nat : k = i - 1
      BY <2>1, <1>4
    <3>3. PassInPlace(some, k) /\ 1..k \subseteq 1..n
      BY <2>1, <3>1, <3>2, <1>4 DEF ReadInv, DrawsInPlace, n
    <3>4. PassInPlace(some, k)'
      BY <3>3, <1>6
    <3>5. queued'[i] = some
      BY <2>1, <3>1, <1>2
    <3> QED BY <3>2, <3>4, <3>5 DEF PassInPlace
  <2>2. CASE i = n + 1
    <3>1. PICK k \in Nat : k = n
      BY <1>2
    <3>2. PassInPlace(pass, k)'
      BY <3>1, <1>6 DEF n
    <3>3. queued'[i] = pass /\ i - 1 = k
      BY <2>2, <3>1, <1>2, <1>5
    <3> QED BY <3>2, <3>3 DEF PassInPlace
  <2> QED BY <2>1, <2>2, <1>3
<1>8. \A j \in 1..Len(reading) : InSlot(reading[j])'
  BY DEF ReadInv, DrawsInPlace, InSlot
<1>9. DrawsInPlace'
  <2>1. OncePerPass(reading)
    BY DEF ReadInv, DrawsInPlace
  <2>2. PassInPlace(Due, Len(queued))' /\ \A j \in 1..Len(Due') : Due'[j].prompt
    BY <1>5 DEF PassInPlace, OncePerPass
  <2> QED BY <2>1, <2>2, <1>2, <1>7, <1>8 DEF DrawsInPlace
<1>10. \A q \in Request : PromptUnread(q) => PromptUnread(q)'
  <2> SUFFICES ASSUME NEW q \in Request, PromptUnread(q) PROVE PromptUnread(q)'
    OBVIOUS
  <2>1. CASE PromptDrawn(q, reading)
    BY <2>1 DEF PromptUnread
  <2>2. CASE Drawn(q, Due)
    <3>1. pass = Due
      BY <2>2, <1>5 DEF Drawn
    <3>2. PromptDrawn(q, pass)
      BY <2>2, <3>1 DEF Drawn, PromptDrawn, ReadInv, DrawsInPlace
    <3> QED BY <3>2, <1>2, <1>5 DEF PromptUnread
  <2>3. CASE \E i \in 1..n : PromptDrawn(q, queued[i])
    BY <2>3, <1>2, <1>4 DEF PromptUnread
  <2> QED BY <2>1, <2>2, <2>3 DEF PromptUnread, n
<1>11. PositionsRead'
  BY <1>10 DEF ReadInv, PositionsRead, LastPosition, IInv, RowTypes
<1> QED BY <1>9, <1>11 DEF ReadInv

\* The pass of the rows' step is queued last: its rows have no prompt to draw for.
LEMMA StepRowsReads ==
  ASSUME IInv, ReadInv, NEW parked, StepRows(parked), Due' = <<>>, Due = <<>>, Rooms',
         UNCHANGED <<tokens, reason, rows, filling, positions, reading>>
  PROVE  ReadInv'
<1>1. PICK pass \in Seq(Draw) :
        /\ queued' = Append(queued, pass)
        /\ OncePerPass(pass)
        /\ \A i \in 1..Len(pass) :
             /\ pass[i].req \in Rowed \ Range(filling)
             /\ rows[pass[i].slot] = pass[i].req /\ ~pass[i].prompt
  BY DeviceStepTypes DEF IInv, Admission
<1>2. PassInPlace(pass, Len(queued))
  BY <1>1 DEF PassInPlace, InSlot, PromptFirst
<1> QED BY <1>1, <1>2, PassQueued

\* The rows' step in the pass of the chunks.
LEMMA MixStepReads ==
  ASSUME IInv, ReadInv, MixStep
  PROVE  ReadInv'
<1> DEFINE parked == {SlotOf(chunks[i].req) : i \in DOMAIN chunks}
<1>1. /\ pc = "mix" /\ pc' = "mixpass" /\ StepRows(parked)
      /\ UNCHANGED <<tokens, reason, rows, filling, positions, reading, owners>>
  BY DEF MixStep, At, Goto, requestVars, localVars
<1> HIDE DEF parked
<1>2. Due = <<>> /\ Due' = <<>> /\ Rooms'
  BY <1>1 DEF Due, Rooms, ReadInv
<1> QED BY <1>1, <1>2, StepRowsReads

\* The rows' step alone.
LEMMA DecodeStepReads ==
  ASSUME IInv, ReadInv, DecodeStep
  PROVE  ReadInv'
<1>1. /\ pc = "decode" /\ pc' = "read" /\ StepRows({})
      /\ UNCHANGED <<tokens, reason, rows, filling, positions, reading, owners>>
  BY DEF DecodeStep, At, Goto, requestVars, localVars
<1>2. Due = <<>> /\ Due' = <<>> /\ Rooms'
  BY <1>1 DEF Due, Rooms
<1> QED BY <1>1, <1>2, StepRowsReads

\* The draws of prompts are queued when a pass is full or the chunks are through.
LEMMA PassEndReads ==
  ASSUME IInv, ReadInv, PassEnd
  PROVE  ReadInv'
<1>1. /\ pc = "pass" /\ pc' = "pass" /\ queued' = Append(queued, owners) /\ owners' = <<>>
      /\ room' = Pack
      /\ UNCHANGED <<tokens, reason, rows, filling, positions, reading>>
  BY DEF PassEnd, At, requestVars, rowVars
<1>2. Due = owners /\ Due' = <<>>
  BY <1>1 DEF Due
<1>3. Rooms'
  <2>1. Pack \in 0..Pack
    BY EngineAssumption
  <2> QED BY <2>1, <1>1 DEF Rooms
<1>4. owners \in Seq(Draw) /\ PassInPlace(owners, Len(queued))
  BY <1>2, DrawsTyped DEF ReadInv, DrawsInPlace
<1> QED BY <1>1, <1>2, <1>3, <1>4, PassQueued

-----------------------------------------------------------------------------
(* The pieces of a step are of different prompts, each still to pass.       *)

PiecesApart ==
  pc \in Passing =>
    /\ \A i \in 1..Len(chunks) : chunks[i].req \in Range(filling) \cup Range(placed)
    /\ \A i, j \in 1..Len(chunks) : chunks[i].req = chunks[j].req => i = j

\* No piece is added, and no prompt of a piece leaves.
LEMMA PiecesStay ==
  ASSUME PiecesApart, pc' \in Passing => pc \in Passing, UNCHANGED chunks,
         Range(filling) \cup Range(placed) \subseteq Range(filling') \cup Range(placed')
  PROVE  PiecesApart'
BY DEF PiecesApart

\* A piece is added, of a prompt that has none.
LEMMA PieceAdded ==
  ASSUME IInv, PiecesApart, pc \in Passing, NEW r \in Request, TakeChunk(r),
         r \in Range(filling) \cup Range(placed'),
         \A i \in 1..Len(chunks) : chunks[i].req # r,
         UNCHANGED filling, Range(placed) \subseteq Range(placed')
  PROVE  PiecesApart'
<1>1. PICK piece : chunks' = Append(chunks, piece) /\ piece.req = r
  BY DEF TakeChunk
<1> DEFINE n == Len(chunks)
<1>2. /\ n \in Nat /\ Len(chunks') = n + 1 /\ chunks'[n + 1] = piece
      /\ \A i \in 1..n : chunks'[i] = chunks[i]
  <2>1. chunks \in Seq(Piece)
    BY DEF IInv, PassTypes
  <2> QED BY <2>1, <1>1
<1> HIDE DEF n
<1>3. \A i \in 1..(n + 1) : i \in 1..n \/ i = n + 1
  BY <1>2
<1>4. ASSUME NEW i \in 1..(n + 1)
      PROVE  chunks'[i].req \in Range(filling') \cup Range(placed')
  BY <1>1, <1>2, <1>3 DEF PiecesApart, n
<1>5. ASSUME NEW i \in 1..(n + 1), NEW j \in 1..(n + 1), chunks'[i].req = chunks'[j].req
      PROVE  i = j
  BY <1>1, <1>2, <1>3, <1>5 DEF PiecesApart, n
<1> QED BY <1>2, <1>4, <1>5 DEF PiecesApart

\* A piece passes, whole or in part; a prompt leaves with its last piece.
LEMMA PiecePassed ==
  ASSUME IInv, PiecesApart, PassPiece
  PROVE  PiecesApart'
<1> DEFINE chunk == Head(chunks)
           stop  == IF pc = "pass" THEN Smaller(chunk.stop, chunk.start + room) ELSE chunk.stop
           r     == chunk.req
<1>1. /\ pc \in Passing /\ pc' = pc /\ chunks # <<>>
      /\ Prefill(chunk, stop)
      /\ chunks' = IF stop = chunk.stop THEN Tail(chunks) ELSE [chunks EXCEPT ![1].start = stop]
      /\ UNCHANGED placed
  BY DEF PassPiece, At, Passing
<1>2. /\ chunks \in Seq(Piece) /\ Len(chunks) \in Nat \ {0} /\ chunk = chunks[1]
      /\ 1 \in 1..Len(chunks)
  <2>1. chunks \in Seq(Piece) /\ chunks # <<>>
    BY <1>1 DEF IInv, PassTypes
  <2> QED BY <2>1
<1>3. /\ filling' = filling \/ (stop = Len(PromptOf(r)) /\ filling' = Without(filling, r))
      /\ filling \in Seq(Request) /\ Once(filling)
  BY <1>1 DEF Prefill, IInv, RowTypes, Admission
<1>4. Range(filling) \ {r} \subseteq Range(filling')
  BY <1>3, WithoutOnce
<1>5. stop = Len(PromptOf(r)) => stop = chunk.stop
  <2>1. chunk.stop <= Len(PromptOf(r)) /\ chunk.start < chunk.stop
    BY <1>1, <1>2 DEF IInv, PiecesRun
  <2>2. chunk \in Piece /\ r \in Request
    <3>1. chunk \in Piece
      BY <1>2, PlacesOfLine
    <3> HIDE DEF chunk
    <3> QED BY <3>1 DEF Piece
  <2>3. chunk.stop \in Nat /\ Len(PromptOf(r)) \in Nat /\ chunk.start \in Nat /\ room \in Int
    BY <2>2, TextOfRequest DEF IInv, Piece, PassTypes
  <2>4. stop <= chunk.stop
    BY <2>3 DEF Smaller
  <2>5. stop \in Int
    BY <2>3 DEF Smaller
  <2> HIDE DEF stop, chunk, r
  <2> QED BY <2>1, <2>3, <2>4, <2>5
<1>6. CASE stop = chunk.stop
  <2>1. /\ Len(chunks') = Len(chunks) - 1
        /\ \A i \in 1..(Len(chunks) - 1) : chunks'[i] = chunks[i + 1]
    BY <1>1, <1>2, <1>6
  <2>2. \A i \in 1..(Len(chunks) - 1) : i + 1 \in 1..Len(chunks) /\ i + 1 # 1
    BY <1>2
  <2>3. \A i \in 1..(Len(chunks) - 1) : chunks'[i].req # r
    BY <2>1, <2>2, <1>1, <1>2 DEF PiecesApart
  <2>4. \A i \in 1..(Len(chunks) - 1) : chunks'[i].req \in Range(filling') \cup Range(placed')
    BY <2>1, <2>2, <2>3, <1>1, <1>4 DEF PiecesApart
  <2>5. ASSUME NEW i \in 1..(Len(chunks) - 1), NEW j \in 1..(Len(chunks) - 1),
               chunks'[i].req = chunks'[j].req
        PROVE  i = j
    <3>1. i + 1 = j + 1
      BY <2>1, <2>2, <2>5, <1>1 DEF PiecesApart
    <3> QED BY <3>1
  <2> QED BY <2>1, <2>4, <2>5 DEF PiecesApart
<1>7. CASE stop # chunk.stop
  <2>1. UNCHANGED filling
    BY <1>3, <1>5, <1>7
  <2>2. Len(chunks') = Len(chunks) /\ \A i \in 1..Len(chunks) : chunks'[i].req = chunks[i].req
    <3> DEFINE rest == [chunk EXCEPT !.start = stop]
    <3>1. chunks' = [chunks EXCEPT ![1] = rest]
      BY <1>1, <1>2, <1>7
    <3>2. rest.req = chunk.req
      BY <1>2 DEF Piece
    <3> HIDE DEF rest, chunk, stop
    <3> QED BY <3>1, <3>2, <1>2
  <2> HIDE DEF stop, chunk
  <2> QED BY <2>1, <2>2, <1>1 DEF PiecesApart
<1> QED BY <1>6, <1>7

\* Every step keeps the pieces apart.
LEMMA PiecesApartNext ==
  ASSUME IInv, PiecesApart, [Next]_vars
  PROVE  PiecesApart'
<1>1. CASE pc' \notin Passing
  BY <1>1 DEF PiecesApart
<1>2. ASSUME GiveBackPage PROVE PiecesApart'
  BY <1>2, PiecesStay DEF GiveBackPage, localVars
<1>3. ASSUME GrowDone PROVE PiecesApart'
  <2>1. chunks' = <<>>
    BY <1>3 DEF GrowDone
  <2> QED BY <2>1, NoPlaces DEF PiecesApart
<1>4. ASSUME ChunkFilling PROVE PiecesApart'
  <2> DEFINE n == Len(chunks)
             r == filling[n + 1]
  <2>1. /\ pc = "chunk" /\ n < Len(filling) /\ TakeChunk(r)
        /\ UNCHANGED <<filling, placed>>
    BY <1>4 DEF ChunkFilling, At
  <2>2. filling \in Seq(Request) /\ Once(filling) /\ n \in Nat
    <3>1. chunks \in Seq(Piece)
      BY DEF IInv, PassTypes
    <3>2. n \in Nat
      BY <3>1, PlacesOfLine
    <3>3. filling \in Seq(Request) /\ Once(filling)
      BY DEF IInv, RowTypes, Admission
    <3> QED BY <3>2, <3>3
  <2>3. n + 1 \in 1..Len(filling) /\ \A i \in 1..n : i # n + 1
    BY <2>1, <2>2
  <2>4. \A i \in 1..n : i \in 1..Len(filling) /\ chunks[i].req = filling[i]
    BY <2>1 DEF IInv, PiecesRun, Passing
  <2>5. r \in Range(filling) /\ r \in Request
    BY <2>2, <2>3, RangeOfLine
  <2>6. \A i \in 1..n : chunks[i].req # r
    BY <2>2, <2>3, <2>4, OnceOfLine
  <2> HIDE DEF r, n
  <2> QED BY <2>1, <2>5, <2>6, PieceAdded DEF Passing, n
<1>5. ASSUME ChunkDone PROVE PiecesApart'
  BY <1>5, PiecesStay DEF ChunkDone, At, rowVars, localVars, Passing
<1>6. ASSUME PlaceStart PROVE PiecesApart'
  BY <1>6, PiecesStay DEF PlaceStart, At, Passing
<1>7. ASSUME ShareFound PROVE PiecesApart'
  BY <1>7, PiecesStay DEF ShareFound, At, Passing
<1>8. ASSUME TakeOwn PROVE PiecesApart'
  BY <1>8, PiecesStay DEF TakeOwn, At, Passing, localVars
<1>9. ASSUME PlaceDone PROVE PiecesApart'
  <2> DEFINE r == Head(waiting)
  <2>1. /\ pc = "sharing" /\ TakeChunk(r) /\ placed' = Append(placed, r)
        /\ UNCHANGED filling
    BY <1>9 DEF PlaceDone, At
  <2>2. r \in Request /\ r \in Range(waiting)
    <3>1. waiting \in Seq(Request) /\ waiting # <<>>
      BY <2>1 DEF IInv, RowTypes, Placement
    <3> QED BY <3>1, TailOnce, RangeOfLine
  <2> HIDE DEF r
  <2>3. Range(placed') = Range(placed) \cup {r}
    BY <2>1, <2>2, AppendOnce DEF IInv, RowTypes
  <2>4. r \notin Range(filling) \cup Range(placed)
    BY <2>2 DEF IInv, Admission
  <2>5. \A i \in 1..Len(chunks) : chunks[i].req # r
    BY <2>1, <2>4 DEF PiecesApart, Passing
  <2> QED BY <2>1, <2>2, <2>3, <2>5, PieceAdded DEF Passing
<1>10. ASSUME PlaceStop PROVE PiecesApart'
  BY <1>10, PiecesStay DEF PlaceStop, At, rowVars, localVars, Passing
<1>11. ASSUME Bind PROVE PiecesApart'
  <2> DEFINE r == placed[Shortest]
  <2>1. /\ pc = "bind" /\ placed # <<>> /\ filling' = Append(filling, r) /\ UNCHANGED chunks
        /\ placed' = RemoveAt(placed, Shortest)
    BY <1>11 DEF Bind, At
  <2>2. /\ placed \in Seq(Request) /\ Once(placed) /\ Shortest \in 1..Len(placed)
        /\ r \in Request
    BY <2>1, BoundSlot
  <2>3. Range(placed') = Range(placed) \ {r}
    BY <2>1, <2>2, WithoutOnce, RemoveAtOnce
  <2> HIDE DEF r
  <2>4. Range(filling') = Range(filling) \cup {r}
    BY <2>1, <2>2, AppendOnce DEF IInv, RowTypes
  <2> QED BY <2>1, <2>3, <2>4, PiecesStay DEF Passing
<1>12. ASSUME BindDone PROVE PiecesApart'
  BY <1>12, PiecesStay DEF BindDone, At, rowVars, Passing
<1>13. ASSUME MixStep PROVE PiecesApart'
  BY <1>13, PiecesStay DEF MixStep, At, localVars, Passing
<1>14. ASSUME PassPiece PROVE PiecesApart'
  BY <1>14, PiecePassed
<1>15. ASSUME PassEnd PROVE PiecesApart'
  BY <1>15, PiecesStay DEF PassEnd, At, rowVars
<1>16. CASE UNCHANGED vars
  BY <1>16, PiecesStay DEF vars, localVars, rowVars
<1> USE DEF At, Goto, Passing
<1>17. ASSUME Client PROVE pc' \notin Passing
  BY <1>17 DEF Client, Submit, Cancel, LoadWeights, Reset
<1>18. ASSUME BeginStep \/ GrowRead \/ GrowPreempt \/ GrowTake PROVE pc' \notin Passing
  BY <1>18 DEF BeginStep, GrowRead, GrowPreempt, GrowTake
<1>19. ASSUME PassesDone \/ MixPassEnd \/ DecodeStep \/ DecodeNone PROVE pc' \notin Passing
  BY <1>19 DEF PassesDone, MixPassEnd, DecodeStep, DecodeNone
<1>20. ASSUME PopPass \/ SkipToken \/ ReadToken \/ ReadDone PROVE pc' \notin Passing
  BY <1>20 DEF PopPass, SkipToken, ReadToken, ReadDone, Reading
<1> HIDE DEF Passing, PiecesApart
<1> QED BY <1>1, <1>2, <1>3, <1>4, <1>5, <1>6, <1>7, <1>8, <1>9, <1>10, <1>11, <1>12, <1>13,
           <1>14, <1>15, <1>16, <1>17, <1>18, <1>19, <1>20 DEF Next, Step, Rest

\* A pass is in place still if, of the requests that run whose prompts it draws for, no
\* more is to be read before it.
LEMMA InPlaceMoved ==
  ASSUME NEW pass \in Seq(Draw), NEW n \in Nat, NEW m \in Nat, PassInPlace(pass, n),
         UNCHANGED <<reason, rows>>,
         \A q \in Request :
           /\ reason[q] = "" /\ PromptDrawn(q, pass)
           /\ Drawn(q, reading') \/ (\E k \in 1..m : Drawn(q, queued'[k]))
           => Drawn(q, reading) \/ (\E k \in 1..n : Drawn(q, queued[k]))
  PROVE  PassInPlace(pass, m)'
<1>1. ASSUME NEW j \in 1..Len(pass) PROVE InSlot(pass[j])' /\ PromptFirst(pass[j], m)'
  <2>1. pass[j].req \in Request /\ pass[j].slot \in Slot
    BY DrawOfPass
  <2>2. InSlot(pass[j]) /\ PromptFirst(pass[j], n)
    BY DEF PassInPlace
  <2>3. InSlot(pass[j])'
    BY <2>1, <2>2 DEF InSlot
  <2>4. PromptFirst(pass[j], m)'
    BY <2>1, <2>2 DEF PromptFirst, PromptDrawn
  <2> QED BY <2>3, <2>4
<1>2. OncePerPass(pass)
  BY DEF PassInPlace
<1> QED BY <1>1, <1>2 DEF PassInPlace

\* The piece that passes.
LEMMA PieceThatPasses ==
  ASSUME IInv, PassPiece
  PROVE  \E chunk \in Piece, stop \in Nat :
           /\ chunks # <<>> /\ 1 \in 1..Len(chunks) /\ chunk = chunks[1]
           /\ chunk.req \in Rowed /\ chunk.req \in Request
           /\ chunk.start < stop /\ stop <= Len(PromptOf(chunk.req))
           /\ Prefill(chunk, stop)
           /\ room' \in Int /\ room' < room
           /\ pc = "pass" => room' >= 0
<1> DEFINE chunk == Head(chunks)
           stop  == IF pc = "pass" THEN Smaller(chunk.stop, chunk.start + room) ELSE chunk.stop
           r     == chunk.req
<1>1. /\ pc \in {"pass", "mixpass"} /\ chunks # <<>>
      /\ pc = "pass" => room > 0
      /\ Prefill(chunk, stop)
      /\ room' = room - (stop - chunk.start)
  BY DEF PassPiece, At
<1>2. /\ chunks \in Seq(Piece) /\ Len(chunks) \in Nat \ {0} /\ chunk = chunks[1]
      /\ chunk \in Piece /\ 1 \in 1..Len(chunks)
  <2>1. chunks \in Seq(Piece) /\ chunks # <<>>
    BY <1>1 DEF IInv, PassTypes
  <2> QED BY <2>1
<1>3. /\ r \in Rowed /\ r \in Request /\ chunk.start < chunk.stop
      /\ chunk.stop <= Len(PromptOf(r))
  <2>1. /\ chunks[1].req \in Range(seniority) /\ chunks[1].start < chunks[1].stop
        /\ chunks[1].stop <= Len(PromptOf(chunks[1].req))
    BY <1>1, <1>2 DEF IInv, PiecesRun, Passing
  <2>2. Range(seniority) = Rowed
    <3>1. placed = <<>>
      BY <1>1 DEF IInv, Placement, Placing
    <3> QED BY <3>1, EmptyLine DEF IInv, Admission
  <2> QED BY <2>1, <2>2, <1>2 DEF Piece
<1> HIDE DEF chunk
<1>4. Len(PromptOf(r)) \in Nat /\ chunk.start \in Nat /\ chunk.stop \in Nat /\ room \in Int
  BY <1>2, <1>3, TextOfRequest DEF IInv, Piece, PassTypes
<1> HIDE DEF r
<1>5. /\ stop \in Nat /\ chunk.start < stop /\ stop <= chunk.stop
      /\ pc = "pass" => stop <= chunk.start + room
  BY <1>1, <1>3, <1>4 DEF Smaller
<1> HIDE DEF stop
<1>6. stop <= Len(PromptOf(r))
  BY <1>3, <1>4, <1>5
<1>7. room' \in Int /\ room' < room /\ (pc = "pass" => room' >= 0)
  BY <1>1, <1>4, <1>5
<1> QED BY <1>1, <1>2, <1>3, <1>5, <1>6, <1>7 DEF r

\* No token has been drawn of a prompt that passes.
LEMMA NotDrawnYet ==
  ASSUME IInv, pc \in {"pass", "mixpass"}, NEW r \in Range(filling)
  PROVE  /\ reason[r] = "" /\ ~Drawn(r, reading) /\ ~Drawn(r, Due)
         /\ \A k \in 1..Len(queued) : ~Drawn(r, queued[k])
<1>1. reason[r] = ""
  BY DEF IInv, Admission
<1>2. \A it : Live(it) => it.req # r
  BY <1>1 DEF Live
<1>3. Due = owners
  BY DEF Due
<1> QED BY <1>1, <1>2, <1>3 DEF IInv, DrawsLive, Drawn

\* A prompt's last piece draws its token, into the pass being put together.
LEMMA LastPieceReads ==
  ASSUME IInv, ReadInv, pc \in {"pass", "mixpass"}, pc' = pc, Rooms',
         UNCHANGED <<queued, reading, tokens, positions, reason, rows>>,
         NEW r \in Rowed, r \in Request, r \in Range(filling), filling' = Without(filling, r),
         NEW it \in Draw, it.req = r, it.slot = SlotOf(r), it.prompt,
         owners' = Append(owners, it)
  PROVE  ReadInv'
<1> DEFINE n == Len(queued)
           m == Len(owners)
<1>1. /\ n \in Nat /\ queued \in Seq(Seq(Draw)) /\ owners \in Seq(Draw)
      /\ \A i \in 1..n : i - 1 \in Nat /\ queued[i] \in Seq(Draw)
      /\ Due = owners /\ Due' = owners'
  <2>1. Due = owners /\ Due' = owners'
    BY DEF Due
  <2>2. queued \in Seq(Seq(Draw)) /\ owners \in Seq(Draw)
    BY DEF IInv, PassTypes
  <2> QED BY <2>1, <2>2, PlacesOfLine
<1>2. /\ m \in Nat /\ Len(owners') = m + 1 /\ owners'[m + 1] = it
      /\ owners' \in Seq(Draw)
      /\ \A j \in 1..m : owners'[j] = owners[j]
  <2>1. owners \in Seq(Draw) /\ it \in Draw
    BY <1>1
  <2> QED BY <2>1
<1> HIDE DEF n, m
<1>3. \A j \in 1..(m + 1) : j \in 1..m \/ j = m + 1
  BY <1>2
<1>4. m + 1 \in 1..(m + 1) /\ \A j \in 1..m : j \in 1..(m + 1)
  BY <1>2
<1>5. /\ reason[r] = "" /\ ~Drawn(r, reading) /\ ~Drawn(r, owners)
      /\ \A k \in 1..n : ~Drawn(r, queued[k])
  BY <1>1, NotDrawnYet DEF n
<1>6. SlotOf(r) \in Slot /\ rows[SlotOf(r)] = r
  BY SlotOfRow DEF IInv
<1>7. Range(filling') = Range(filling) \ {r}
  <2>1. filling \in Seq(Request) /\ Once(filling)
    BY DEF IInv, RowTypes, Admission
  <2> QED BY <2>1, WithoutOnce
<1>8. ASSUME NEW i \in 1..n PROVE PassInPlace(queued[i], i - 1)'
  <2>1. PICK pass \in Seq(Draw) : pass = queued[i]
    BY <1>1
  <2>2. PICK k \in Nat : k = i - 1
    BY <1>1
  <2>3. PassInPlace(pass, k)
    BY <2>1, <2>2 DEF ReadInv, DrawsInPlace, n
  <2>4. PassInPlace(pass, k)'
    BY <2>3, InPlaceMoved
  <2> QED BY <2>1, <2>2, <2>4 DEF PassInPlace
<1>9. PassInPlace(owners, n)
  BY <1>1 DEF ReadInv, DrawsInPlace, n
<1>10. OncePerPass(owners')
  <2>1. OncePerPass(owners)
    BY <1>9 DEF PassInPlace
  <2>2. ASSUME NEW i \in 1..(m + 1), NEW j \in 1..(m + 1), owners'[i].req = owners'[j].req
        PROVE  i = j
    <3>1. \A l \in 1..m : owners'[l].req # r
      BY <1>2, <1>5 DEF Drawn, m
    <3> QED BY <3>1, <2>1, <2>2, <1>2, <1>3 DEF OncePerPass, m
  <2> QED BY <2>2, <1>2 DEF OncePerPass
<1>11. ASSUME NEW j \in 1..(m + 1), NEW x, x = owners'[j], NEW k, k = n
       PROVE  InSlot(x)' /\ PromptFirst(x, k)' /\ x.prompt
  <2>1. CASE j = m + 1
    BY <2>1, <1>2, <1>5, <1>6, <1>11 DEF InSlot, PromptFirst
  <2>2. CASE j \in 1..m
    <3>1. x = owners[j]
      BY <2>2, <1>2, <1>11
    <3>2. InSlot(x) /\ PromptFirst(x, k)
      BY <2>2, <3>1, <1>9, <1>11 DEF PassInPlace, m
    <3>3. x.prompt
      BY <2>2, <3>1, <1>1 DEF ReadInv, DrawsInPlace, m
    <3>4. InSlot(x)'
      BY <3>2 DEF InSlot
    <3>5. PromptFirst(x, k)'
      BY <3>2 DEF PromptFirst
    <3> QED BY <3>3, <3>4, <3>5
  <2> QED BY <2>1, <2>2, <1>3
<1>12. DrawsInPlace'
  <2>1. OncePerPass(reading') /\ \A j \in 1..Len(reading') : InSlot(reading[j])'
    BY DEF ReadInv, DrawsInPlace, InSlot
  <2>2. PassInPlace(Due, Len(queued))' /\ \A j \in 1..Len(Due') : Due'[j].prompt
    <3>1. PICK pass : pass = owners'
      OBVIOUS
    <3>2. PICK k : k = n
      OBVIOUS
    <3>3. Len(pass) = m + 1 /\ OncePerPass(pass)
      BY <3>1, <1>2, <1>10
    <3>4. PassInPlace(pass, k)' /\ \A j \in 1..Len(pass) : pass[j].prompt
      BY <3>1, <3>2, <3>3, <1>11 DEF PassInPlace
    <3> QED BY <3>1, <3>2, <3>4, <1>1 DEF n
  <2> QED BY <2>1, <2>2, <1>8 DEF DrawsInPlace, n
<1>13. PositionsRead'
  <2> SUFFICES ASSUME NEW s \in Slot, rows'[s] # None, rows'[s] \notin Range(filling')
               PROVE  PromptUnread(rows[s])' \/ positions'[s] = LastPosition(rows[s])'
    BY DEF PositionsRead
  <2>1. CASE rows[s] = r
    <3>1. Drawn(r, owners')
      BY <1>2, <1>4 DEF Drawn
    <3> QED BY <2>1, <3>1, <1>1 DEF PromptUnread
  <2>2. CASE rows[s] # r
    <3>1. PromptUnread(rows[s]) \/ positions[s] = LastPosition(rows[s])
      BY <2>2, <1>7 DEF ReadInv, PositionsRead
    <3>2. Drawn(rows[s], owners) => Drawn(rows[s], owners')
      BY <1>2, <1>4 DEF Drawn, m
    <3> QED BY <3>1, <3>2, <1>1 DEF PromptUnread, LastPosition
  <2> QED BY <2>1, <2>2
<1> QED BY <1>12, <1>13 DEF ReadInv

\* A piece that passes.
LEMMA PassPieceReads ==
  ASSUME IInv, ReadInv, PiecesApart, PassPiece
  PROVE  ReadInv'
<1>1. /\ pc \in {"pass", "mixpass"} /\ pc' = pc
      /\ UNCHANGED <<queued, reading, tokens, positions, reason, rows>>
  BY DEF PassPiece, At, requestVars, passVars
<1>2. PICK chunk \in Piece, stop \in Nat :
           /\ chunks # <<>> /\ 1 \in 1..Len(chunks) /\ chunk = chunks[1]
           /\ chunk.req \in Rowed /\ chunk.req \in Request
           /\ chunk.start < stop /\ stop <= Len(PromptOf(chunk.req))
           /\ Prefill(chunk, stop)
           /\ room' \in Int /\ room' < room
           /\ pc = "pass" => room' >= 0
  BY PieceThatPasses
<1>3. Rooms'
  <2>1. pc = "pass" => room \in 0..Pack
    BY DEF ReadInv, Rooms
  <2>2. pc = "pass" => room' \in 0..Pack /\ room' # Pack
    BY <1>2, <2>1, EngineAssumption
  <2> QED BY <2>2, <1>1 DEF Rooms
<1>4. \/ /\ \E it \in Draw :
              /\ it.req = chunk.req /\ it.slot = SlotOf(chunk.req) /\ it.prompt
              /\ owners' = Append(owners, it)
         /\ filling' = Without(filling, chunk.req)
      \/ UNCHANGED <<owners, filling>>
  BY <1>2, PrefillTypes DEF IInv
<1>5. CASE UNCHANGED <<owners, filling>>
  <2>1. Due' = Due
    BY <1>1, <1>5 DEF Due
  <2> QED BY <1>1, <1>3, <1>5, <2>1, RowsStay
<1>6. ASSUME NEW it \in Draw, it.req = chunk.req, it.slot = SlotOf(chunk.req), it.prompt,
             owners' = Append(owners, it), filling' = Without(filling, chunk.req)
      PROVE  ReadInv'
  <2>1. chunk.req \in Range(filling)
    <3>1. placed = <<>> /\ Range(<<>>) = {}
      BY <1>1, EmptyLine DEF IInv, Placement, Placing
    <3> QED BY <3>1, <1>1, <1>2 DEF PiecesApart, Passing
  <2> QED BY <2>1, <1>1, <1>2, <1>3, <1>6, LastPieceReads
<1> QED BY <1>4, <1>5, <1>6

\* The prompts' pass is read before the step's, though it is queued after it.
LEMMA MixPassEndReads ==
  ASSUME IInv, ReadInv, MixPassEnd
  PROVE  ReadInv'
<1> DEFINE two == <<owners, Last(queued)>>
           f == Front(queued)
<1>1. /\ pc = "mixpass" /\ pc' = "read" /\ queued' = f \o two
      /\ UNCHANGED <<tokens, reason, rows, filling, positions, reading>>
  BY DEF MixPassEnd, At, Goto, requestVars, rowVars
<1>2. queued \in Seq(Seq(Draw)) /\ owners \in Seq(Draw) /\ queued # <<>>
  BY <1>1 DEF IInv, PassTypes, DrawsLive
<1>3. PICK n \in Nat \ {0} : n = Len(queued)
  BY <1>2
<1>4. /\ f \in Seq(Seq(Draw)) /\ Len(f) = n - 1 /\ Last(queued) = queued[n]
      /\ \A i \in 1..(n - 1) : f[i] = queued[i]
  <2>1. f = [i \in 1..(n - 1) |-> queued[i]] /\ Last(queued) = queued[n]
    BY <1>2, <1>3 DEF Front, Last
  <2> QED BY <2>1, <1>2, <1>3
<1>5. \A i \in 1..n : queued[i] \in Seq(Draw) /\ i - 1 \in Nat
  BY <1>2, <1>3
<1>6. two \in Seq(Seq(Draw)) /\ Len(two) = 2 /\ two[1] = owners /\ two[2] = queued[n]
  BY <1>2, <1>3, <1>4, <1>5
<1> HIDE DEF f, two
<1>7. /\ Len(queued') = n + 1 /\ queued'[n] = owners /\ queued'[n + 1] = queued[n]
      /\ \A i \in 1..(n - 1) : queued'[i] = queued[i]
  <2>1. /\ Len(f \o two) = n - 1 + 2
        /\ \A i \in 1..(n - 1) : (f \o two)[i] = f[i]
        /\ \A j \in 1..2 : (f \o two)[n - 1 + j] = two[j]
    <3>1. f \in Seq(Seq(Draw)) /\ two \in Seq(Seq(Draw))
      BY <1>4, <1>6
    <3>2. /\ Len(f \o two) = Len(f) + Len(two)
          /\ \A i \in 1..Len(f) : (f \o two)[i] = f[i]
          /\ \A j \in 1..Len(two) : (f \o two)[Len(f) + j] = two[j]
      BY <3>1, PlacesOfParts
    <3>3. Len(f) = n - 1 /\ Len(two) = 2
      BY <1>4, <1>6
    <3> QED BY <3>2, <3>3
  <2>2. n - 1 + 2 = n + 1 /\ n - 1 + 1 = n /\ 1 \in 1..2 /\ 2 \in 1..2
    BY <1>3
  <2>3. (f \o two)[n] = two[1] /\ (f \o two)[n + 1] = two[2]
    BY <2>1, <2>2
  <2> QED BY <2>1, <2>2, <2>3, <1>1, <1>4, <1>6
<1>8. Due = owners /\ Due' = <<>> /\ reading = <<>>
  BY <1>1 DEF Due, IInv, DrawsLive
<1>9. /\ n \in 1..n /\ n + 1 \in 1..(n + 1) /\ 1..0 = {} /\ n - 1 \in Nat
      /\ \A i \in 1..n : 1..(i - 1) \subseteq 1..(n - 1)
      /\ \A i \in 1..(n + 1) : i \in 1..(n - 1) \/ i = n \/ i = n + 1
      /\ \A i \in 1..(n - 1) : i \in 1..n /\ i \in 1..(n + 1)
      /\ \A i \in 1..n : i \in 1..(n - 1) \/ i = n
  BY <1>3
<1>10. PassInPlace(owners, n) /\ \A i \in 1..n : PassInPlace(queued[i], i - 1)
  BY <1>3, <1>8 DEF ReadInv, DrawsInPlace
<1>11. ASSUME NEW i \in 1..(n - 1) PROVE PassInPlace(queued[i], i - 1)'
  <2>1. i \in 1..n
    BY <1>9
  <2>2. PICK pass \in Seq(Draw) : pass = queued[i]
    BY <2>1, <1>5
  <2>3. PICK k \in Nat : k = i - 1
    BY <2>1, <1>5
  <2>4. PassInPlace(pass, k) /\ 1..k \subseteq 1..(n - 1)
    BY <2>1, <2>2, <2>3, <1>9, <1>10
  <2>5. \A q \in Request :
          Drawn(q, reading') \/ (\E l \in 1..k : Drawn(q, queued'[l])) =>
            Drawn(q, reading) \/ (\E l \in 1..k : Drawn(q, queued[l]))
    BY <2>4, <1>1, <1>7
  <2>6. PassInPlace(pass, k)'
    BY <2>4, <2>5, <1>1, InPlaceMoved
  <2> QED BY <2>2, <2>3, <2>6, <1>7 DEF PassInPlace
<1>12. ASSUME NEW i, i = n PROVE PassInPlace(queued[i], i - 1)'
  <2>1. PICK pass \in Seq(Draw) : pass = owners
    BY <1>2
  <2>2. PICK k \in Nat : k = n - 1
    BY <1>9
  <2>3. 1..k \subseteq 1..n /\ 1..k \subseteq 1..(n - 1)
    BY <1>3, <2>2
  <2>4. \A q \in Request :
          Drawn(q, reading') \/ (\E l \in 1..k : Drawn(q, queued'[l])) =>
            Drawn(q, reading) \/ (\E l \in 1..n : Drawn(q, queued[l]))
    BY <2>3, <1>1, <1>7
  <2>5. PassInPlace(pass, n)
    BY <2>1, <1>10
  <2>6. PassInPlace(pass, k)'
    BY <2>4, <2>5, <1>1, InPlaceMoved
  <2> QED BY <1>12, <2>1, <2>2, <2>6, <1>7 DEF PassInPlace
<1>13. ASSUME NEW i, i = n + 1 PROVE PassInPlace(queued[i], i - 1)'
  <2>1. PICK pass \in Seq(Draw) : pass = queued[n]
    BY <1>5, <1>9
  <2>2. PICK k \in Nat : k = n - 1
    BY <1>9
  <2>3. PassInPlace(pass, k)
    BY <2>1, <2>2, <1>9, <1>10
  <2>4. ASSUME NEW q \in Request, reason[q] = "", PromptDrawn(q, pass), Drawn(q, owners)
        PROVE  FALSE
    <3>1. PICK j \in 1..Len(owners) : owners[j].req = q
      BY <2>4 DEF Drawn
    <3>2. owners[j].prompt /\ PromptFirst(owners[j], n)
      BY <1>8, <1>10 DEF ReadInv, DrawsInPlace, PassInPlace
    <3>3. ~Drawn(q, queued[n])
      BY <3>1, <3>2, <2>4, <1>9 DEF PromptFirst
    <3> QED BY <3>3, <2>1, <2>4 DEF Drawn, PromptDrawn
  <2>5. ASSUME NEW q \in Request, reason[q] = "", PromptDrawn(q, pass),
               NEW l \in 1..n, Drawn(q, queued'[l])
        PROVE  \E h \in 1..k : Drawn(q, queued[h])
    <3>1. l # n
      BY <2>4, <2>5, <1>7
    <3>2. l \in 1..k
      BY <3>1, <2>2, <1>9
    <3> QED BY <3>2, <2>2, <2>5, <1>7
  <2>6. PassInPlace(pass, n)'
    BY <2>3, <2>5, <1>1, <1>3, InPlaceMoved
  <2>7. queued'[i] = pass /\ i - 1 = n
    BY <1>13, <2>1, <1>3, <1>7
  <2> QED BY <2>6, <2>7 DEF PassInPlace
<1>14. DrawsInPlace'
  <2>1. \A i \in 1..Len(queued') : PassInPlace(queued[i], i - 1)'
    BY <1>7, <1>9, <1>11, <1>12, <1>13
  <2>2. PassInPlace(Due, Len(queued))' /\ \A j \in 1..Len(Due') : Due'[j].prompt
    BY <1>8, NoPlaces DEF PassInPlace, OncePerPass
  <2>3. OncePerPass(reading') /\ \A j \in 1..Len(reading') : InSlot(reading[j])'
    BY <1>1, <1>8, NoPlaces DEF OncePerPass
  <2> QED BY <2>1, <2>2, <2>3 DEF DrawsInPlace
<1>15. \A q \in Request : PromptUnread(q) => PromptUnread(q)'
  <2> SUFFICES ASSUME NEW q \in Request, PromptUnread(q) PROVE PromptUnread(q)'
    OBVIOUS
  <2>1. CASE PromptDrawn(q, reading)
    BY <2>1, <1>8, NoPlaces DEF PromptDrawn
  <2>2. CASE Drawn(q, Due)
    <3>1. PromptDrawn(q, owners)
      BY <2>2, <1>8 DEF Drawn, PromptDrawn, ReadInv, DrawsInPlace
    <3>2. PromptDrawn(q, queued'[n]) /\ n \in 1..(n + 1)
      BY <3>1, <1>3, <1>7
    <3> QED BY <3>2, <1>7 DEF PromptUnread
  <2>3. CASE \E i \in 1..n : PromptDrawn(q, queued[i])
    <3>1. PICK i \in 1..n : PromptDrawn(q, queued[i])
      BY <2>3
    <3>2. CASE i = n
      BY <3>1, <3>2, <1>7, <1>9 DEF PromptUnread
    <3>3. CASE i \in 1..(n - 1)
      BY <3>1, <3>3, <1>7, <1>9 DEF PromptUnread
    <3> QED BY <3>2, <3>3, <1>9
  <2> QED BY <2>1, <2>2, <2>3, <1>3 DEF PromptUnread
<1>16. PositionsRead' /\ Rooms'
  BY <1>1, <1>15 DEF ReadInv, PositionsRead, LastPosition, IInv, RowTypes, Rooms
<1> QED BY <1>14, <1>16 DEF ReadInv

\* The oldest pass is read.
LEMMA PopPassReads ==
  ASSUME IInv, ReadInv, PopPass
  PROVE  ReadInv'
<1>1. /\ pc \in {"read", "growread"} /\ pc' = pc /\ Len(queued) > ahead /\ reading = <<>>
      /\ reading' = Head(queued) /\ queued' = Tail(queued)
      /\ UNCHANGED <<tokens, reason, rows, filling, positions>>
  BY DEF PopPass, Reading, At, requestVars, rowVars
<1>2. queued \in Seq(Seq(Draw)) /\ queued # <<>>
  <2>1. queued \in Seq(Seq(Draw)) /\ ahead \in Nat
    BY DEF IInv, PassTypes
  <2>2. Len(<<>>) = 0
    OBVIOUS
  <2> QED BY <2>1, <2>2, <1>1
<1>3. PICK n \in Nat \ {0} : n = Len(queued)
  BY <1>2
<1>4. /\ reading' = queued[1] /\ Len(queued') = n - 1
      /\ \A i \in 1..(n - 1) : queued'[i] = queued[i + 1]
  BY <1>1, <1>2, <1>3
<1>5. /\ 1 \in 1..n /\ 1 - 1 = 0
      /\ \A i \in 1..(n - 1) : i \in Nat /\ i - 1 \in Nat /\ i + 1 \in 1..n /\ i + 1 - 1 = i
      /\ \A i \in 1..(n - 1) : \A k \in 1..(i - 1) : k \in 1..(n - 1) /\ k + 1 \in 1..i
      /\ \A i \in 1..(n - 1) : 1 \in 1..i
      /\ \A i \in 1..n : i = 1 \/ (i - 1 \in 1..(n - 1) /\ i - 1 + 1 = i)
  BY <1>3
<1>6. \A i \in 1..n : queued[i] \in Seq(Draw) /\ PassInPlace(queued[i], i - 1)
  BY <1>2, <1>3 DEF ReadInv, DrawsInPlace
<1>7. Due = <<>> /\ Due' = <<>>
  BY <1>1 DEF Due
<1>8. ASSUME NEW i \in 1..(n - 1) PROVE PassInPlace(queued[i], i - 1)'
  <2>1. PICK pass \in Seq(Draw) : pass = queued[i + 1]
    BY <1>5, <1>6
  <2>2. PICK k \in Nat : k = i - 1
    BY <1>5
  <2>3. PassInPlace(pass, i) /\ i \in Nat
    BY <2>1, <1>5, <1>6
  <2>4. \A l \in 1..k : queued'[l] = queued[l + 1] /\ l + 1 \in 1..i
    BY <2>2, <1>4, <1>5
  <2>5. 1 \in 1..i
    BY <1>5
  <2>6. \A q \in Request :
          Drawn(q, reading') \/ (\E l \in 1..k : Drawn(q, queued'[l])) =>
            Drawn(q, reading) \/ (\E l \in 1..i : Drawn(q, queued[l]))
    BY <2>4, <2>5, <1>4
  <2>7. PassInPlace(pass, k)'
    BY <2>3, <2>6, <1>1, InPlaceMoved
  <2> QED BY <2>1, <2>2, <2>7, <1>4 DEF PassInPlace
<1>9. DrawsInPlace'
  <2>1. \A i \in 1..Len(queued') : PassInPlace(queued[i], i - 1)'
    BY <1>4, <1>8
  <2>2. PassInPlace(Due, Len(queued))' /\ \A j \in 1..Len(Due') : Due'[j].prompt
    BY <1>7, NoPlaces DEF PassInPlace, OncePerPass
  <2>3. OncePerPass(reading') /\ \A j \in 1..Len(reading') : InSlot(reading[j])'
    BY <1>1, <1>4, <1>5, <1>6 DEF PassInPlace, InSlot
  <2> QED BY <2>1, <2>2, <2>3 DEF DrawsInPlace
<1>10. \A q \in Request : PromptUnread(q) => PromptUnread(q)'
  <2> SUFFICES ASSUME NEW q \in Request, PromptUnread(q) PROVE PromptUnread(q)'
    OBVIOUS
  <2>1. ~PromptDrawn(q, reading) /\ ~Drawn(q, Due)
    BY <1>1, <1>7, NoPlaces DEF PromptDrawn, Drawn
  <2>2. PICK i \in 1..n : PromptDrawn(q, queued[i])
    BY <2>1, <1>3 DEF PromptUnread
  <2>3. CASE i = 1
    BY <2>2, <2>3, <1>4 DEF PromptUnread
  <2>4. CASE i # 1
    <3>1. PICK k \in 1..(n - 1) : k + 1 = i
      BY <2>4, <1>5
    <3> QED BY <2>2, <3>1, <1>4 DEF PromptUnread
  <2> QED BY <2>3, <2>4
<1>11. PositionsRead' /\ Rooms'
  BY <1>1, <1>10 DEF ReadInv, PositionsRead, LastPosition, IInv, RowTypes, Rooms
<1> QED BY <1>9, <1>11 DEF ReadInv

\* The draw that is read, and those after it.
LEMMA NextDraw ==
  ASSUME IInv, reading # <<>>, reading' = Tail(reading)
  PROVE  \E n \in Nat \ {0}, it \in Draw :
           /\ n = Len(reading) /\ it = Head(reading) /\ it = reading[1] /\ 1 \in 1..n
           /\ Len(reading') = n - 1
           /\ \A i \in 1..(n - 1) :
                i + 1 \in 1..n /\ i + 1 # 1 /\ reading'[i] = reading[i + 1]
           /\ \A i \in 1..n :
                i = 1 \/ \E k \in 1..(n - 1) : k + 1 = i /\ reading'[k] = reading[i]
           /\ \A q : Drawn(q, reading') => Drawn(q, reading)
           /\ \A q : q # it.req /\ PromptDrawn(q, reading) => PromptDrawn(q, reading')
           /\ OncePerPass(reading) => OncePerPass(reading')
<1>1. reading \in Seq(Draw)
  BY DEF IInv, PassTypes
<1>2. PICK n \in Nat \ {0} : n = Len(reading)
  BY <1>1
<1>3. PICK it \in Draw : it = Head(reading)
  BY <1>1
<1>4. /\ it = reading[1] /\ Len(reading') = n - 1
      /\ \A i \in 1..(n - 1) : reading'[i] = reading[i + 1]
  BY <1>1, <1>2, <1>3
<1>5. /\ 1 \in 1..n /\ \A i \in 1..(n - 1) : i + 1 \in 1..n /\ i + 1 # 1
      /\ \A i \in 1..n : i = 1 \/ (i - 1 \in 1..(n - 1) /\ i - 1 + 1 = i)
  BY <1>2
<1>6. ASSUME NEW i \in 1..n, i # 1
      PROVE  \E k \in 1..(n - 1) : k + 1 = i /\ reading'[k] = reading[i]
  <2>1. PICK k \in 1..(n - 1) : k + 1 = i
    BY <1>5, <1>6
  <2> QED BY <2>1, <1>4
<1>7. \A q : Drawn(q, reading') => Drawn(q, reading)
  BY <1>2, <1>4, <1>5 DEF Drawn
<1>8. \A q : q # it.req /\ PromptDrawn(q, reading) => PromptDrawn(q, reading')
  BY <1>2, <1>4, <1>6 DEF PromptDrawn
<1>9. ASSUME OncePerPass(reading), NEW i \in 1..(n - 1), NEW j \in 1..(n - 1),
             reading'[i].req = reading'[j].req
      PROVE  i = j
  <2>1. i + 1 = j + 1
    BY <1>2, <1>4, <1>5, <1>9 DEF OncePerPass
  <2> QED BY <2>1, <1>2
<1>10. OncePerPass(reading) => OncePerPass(reading')
  BY <1>4, <1>9 DEF OncePerPass
<1> QED BY <1>2, <1>3, <1>4, <1>5, <1>6, <1>7, <1>8, <1>10

\* A draw leaves the pass being read; the requests but its own are as they were.
LEMMA DrawRead ==
  ASSUME IInv, ReadInv, reading # <<>>, reading' = Tail(reading), Due = <<>>, Due' = <<>>,
         UNCHANGED queued,
         \A q \in Request : reason'[q] = "" => reason[q] = "",
         \A s \in Slot : rows[s] \in Request /\ reason'[rows[s]] = "" => rows'[s] = rows[s]
  PROVE  DrawsInPlace'
<1>1. PICK n \in Nat \ {0}, it \in Draw :
           /\ n = Len(reading) /\ it = Head(reading) /\ it = reading[1] /\ 1 \in 1..n
           /\ Len(reading') = n - 1
           /\ \A i \in 1..(n - 1) :
                i + 1 \in 1..n /\ i + 1 # 1 /\ reading'[i] = reading[i + 1]
           /\ \A i \in 1..n :
                i = 1 \/ \E k \in 1..(n - 1) : k + 1 = i /\ reading'[k] = reading[i]
           /\ \A q : Drawn(q, reading') => Drawn(q, reading)
           /\ \A q : q # it.req /\ PromptDrawn(q, reading) => PromptDrawn(q, reading')
  BY NextDraw
<1>2. OncePerPass(reading')
  BY NextDraw DEF ReadInv, DrawsInPlace
<1>3. reading \in Seq(Draw) /\ queued \in Seq(Seq(Draw))
  BY DrawsTyped
<1>4. ASSUME NEW x \in Draw, InSlot(x) PROVE InSlot(x)'
  <2>1. x.req \in Request /\ x.slot \in Slot
    BY <1>4 DEF Draw
  <2> QED BY <2>1, <1>4 DEF InSlot
<1>5. ASSUME NEW j \in 1..Len(reading') PROVE InSlot(reading[j])'
  <2>1. PICK x \in Draw : x = reading[j + 1]
    BY <1>1, <1>3, PlacesOfLine
  <2>2. InSlot(x)
    BY <2>1, <1>1 DEF ReadInv, DrawsInPlace
  <2>3. InSlot(x)'
    BY <2>2, <1>4
  <2>4. reading'[j] = x
    BY <2>1, <1>1
  <2> QED BY <2>3, <2>4
<1>6. ASSUME NEW i \in 1..Len(queued) PROVE PassInPlace(queued[i], i - 1)'
  <2>1. PICK pass \in Seq(Draw) : pass = queued[i]
    BY <1>3, PlacesOfLine
  <2>2. PICK k \in Nat : k = i - 1
    BY <1>3, PlacesOfLine
  <2>3. PassInPlace(pass, k)
    BY <2>1, <2>2 DEF ReadInv, DrawsInPlace
  <2>4. \A q \in Request :
          Drawn(q, reading') \/ (\E l \in 1..k : Drawn(q, queued'[l])) =>
            Drawn(q, reading) \/ (\E l \in 1..k : Drawn(q, queued[l]))
    BY <1>1
  <2>5. PassInPlace(pass, k)'
    BY <2>3, <2>4, InPlaceKept
  <2> QED BY <2>1, <2>2, <2>5 DEF PassInPlace
<1>7. PassInPlace(Due, Len(queued))' /\ \A j \in 1..Len(Due') : Due'[j].prompt
  BY NoPlaces DEF PassInPlace, OncePerPass
<1> QED BY <1>2, <1>5, <1>6, <1>7 DEF DrawsInPlace

\* A draw of a request that ended is dropped.
LEMMA SkipTokenReads ==
  ASSUME IInv, ReadInv, SkipToken
  PROVE  ReadInv'
<1>1. /\ pc \in {"read", "growread"} /\ pc' = pc /\ reading # <<>>
      /\ reason[Head(reading).req] # "" /\ reading' = Tail(reading)
      /\ UNCHANGED <<queued, tokens, reason, rows, filling, positions>>
  BY DEF SkipToken, Reading, At, requestVars, rowVars
<1>2. Due = <<>> /\ Due' = <<>>
  BY <1>1 DEF Due
<1>3. DrawsInPlace'
  BY <1>1, <1>2, DrawRead
<1>4. PositionsRead'
  <2> SUFFICES ASSUME NEW s \in Slot, rows[s] # None, rows[s] \notin Range(filling)
               PROVE  PromptUnread(rows[s])' \/ positions[s] = LastPosition(rows[s])
    BY <1>1 DEF PositionsRead, LastPosition
  <2>1. PICK q \in Request : q = rows[s]
    BY DEF IInv, RowTypes
  <2>2. reason[q] = ""
    BY <2>1 DEF IInv, Admission, Rowed
  <2>3. q # Head(reading).req
    BY <2>2, <1>1
  <2>4. PromptDrawn(q, reading) => PromptDrawn(q, reading')
    BY <2>3, <1>1, NextDraw
  <2>5. PromptUnread(q) => PromptUnread(q)'
    BY <2>4, <1>1, <1>2 DEF PromptUnread
  <2>6. PromptUnread(rows[s]) \/ positions[s] = LastPosition(rows[s])
    BY DEF ReadInv, PositionsRead
  <2>7. PromptUnread(rows[s])' <=> PromptUnread(q)'
    BY <2>1, <1>1 DEF PromptUnread
  <2> QED BY <2>1, <2>5, <2>6, <2>7
<1>5. Rooms'
  BY <1>1 DEF Rooms
<1> QED BY <1>3, <1>4, <1>5 DEF ReadInv

\* The token read is its request's next, and its position that of the text so far.
LEMMA TokenRead ==
  ASSUME IInv, ReadInv, ReadToken
  PROVE  \E it \in Draw, r \in Request, text \in Seq(Token) :
           /\ it = Head(reading) /\ r = it.req /\ text = Append(tokens[r], it.token)
           /\ it.slot \in Slot /\ it.token \in Token /\ rows[it.slot] = r
           /\ r \in Rowed \ Range(filling) /\ r \in Range(seniority) /\ reason[r] = ""
           /\ tokens' = [tokens EXCEPT ![r] = text]
           /\ positions' = [positions EXCEPT ![it.slot] = Len(Prompt[r]) + Len(text) - 1]
           /\ reason' = [reason EXCEPT
                           ![r] = FinishReason(r, text, Len(Prompt[r]) + Len(text) - 1)]
           /\ IF reason'[r] # "" THEN Release(r, Prompt[r] \o text)
                                 ELSE UNCHANGED <<poolVars, rowVars>>
<1>1. PICK n \in Nat \ {0}, it \in Draw :
           n = Len(reading) /\ it = Head(reading) /\ it = reading[1] /\ 1 \in 1..n
  <2>1. reading \in Seq(Draw) /\ reading # <<>>
    BY DEF IInv, PassTypes, ReadToken
  <2> QED BY <2>1
<1>2. PICK r \in Request : r = it.req
  BY DEF Draw
<1>3. it.slot \in Slot /\ it.token \in Token /\ it.prompt \in BOOLEAN
  BY DEF Draw
<1>4. tokens[r] \in Seq(Token)
  BY DEF IInv, RowTypes
<1>5. PICK text \in Seq(Token) : text = Append(tokens[r], it.token)
  <2>1. Append(tokens[r], it.token) \in Seq(Token)
    BY <1>3, <1>4
  <2> QED BY <2>1
<1>6. /\ pc \in {"read", "growread"} /\ reason[r] = ""
      /\ tokens' = [tokens EXCEPT ![r] = text]
      /\ positions' = [positions EXCEPT ![it.slot] = ReadAt(it, text)]
      /\ reason' = [reason EXCEPT ![r] = FinishReason(r, text, ReadAt(it, text))]
      /\ IF reason'[r] # "" THEN Release(r, Prompt[r] \o text)
                            ELSE UNCHANGED <<poolVars, rowVars>>
  BY <1>1, <1>2, <1>5 DEF ReadToken, Reading, At
<1>7. r \in Rowed \ Range(filling) /\ r \in Range(seniority)
  <2>1. Live(it)
    BY <1>1 DEF IInv, DrawsLive
  <2> QED BY <2>1, <1>2, <1>6 DEF Live, IInv, Admission
<1>8. rows[it.slot] = r
  <2>1. InSlot(it)
    BY <1>1 DEF ReadInv, DrawsInPlace
  <2> QED BY <2>1, <1>2, <1>6 DEF InSlot
<1>9. ReadAt(it, text) = Len(Prompt[r]) + Len(text) - 1
  <2>1. CASE it.prompt
    BY <2>1, <1>2 DEF ReadAt
  <2>2. CASE ~it.prompt
    <3>1. ~PromptDrawn(r, reading)
      BY <2>2, <1>1, <1>2 DEF PromptDrawn, ReadInv, DrawsInPlace, OncePerPass
    <3>2. Drawn(r, reading)
      BY <1>1, <1>2 DEF Drawn
    <3>3. ASSUME NEW i \in 1..Len(queued), PromptDrawn(r, queued[i]) PROVE FALSE
      <4>1. PICK j \in 1..Len(queued[i]) : queued[i][j].req = r /\ queued[i][j].prompt
        BY <3>3 DEF PromptDrawn
      <4>2. PromptFirst(queued[i][j], i - 1)
        BY DEF ReadInv, DrawsInPlace, PassInPlace
      <4> QED BY <4>1, <4>2, <3>2, <1>6 DEF PromptFirst
    <3>4. ~Drawn(r, Due)
      BY <1>6, NoPlaces DEF Due, Drawn
    <3>5. ~PromptUnread(r)
      BY <3>1, <3>3, <3>4 DEF PromptUnread
    <3>6. r # None
      BY EngineAssumption
    <3>7. positions[it.slot] = LastPosition(r)
      BY <3>5, <3>6, <1>3, <1>7, <1>8 DEF ReadInv, PositionsRead
    <3>8. ReadAt(it, text) = LastPosition(r) + 1
      BY <2>2, <3>7 DEF ReadAt
    <3> DEFINE m == Len(Prompt[r])
               k == Len(tokens[r])
    <3>9. m \in Nat /\ k \in Nat /\ Len(text) = k + 1
      <4>1. Prompt[r] \in Seq(Token)
        BY EngineAssumption
      <4> QED BY <4>1, <1>3, <1>4, <1>5
    <3>10. ReadAt(it, text) = m + k - 1 + 1
      BY <3>8 DEF LastPosition
    <3> HIDE DEF m, k
    <3>11. m + k - 1 + 1 = m + (k + 1) - 1
      BY <3>9
    <3> QED BY <3>9, <3>10, <3>11 DEF m
  <2> QED BY <2>1, <2>2
<1> QED BY <1>1, <1>2, <1>3, <1>5, <1>6, <1>7, <1>8, <1>9

\* A token is read: it moves the last position of its row, or frees the row.
LEMMA ReadTokenReads ==
  ASSUME IInv, ReadInv, ReadToken
  PROVE  ReadInv'
<1>1. /\ pc \in {"read", "growread"} /\ pc' = pc /\ reading # <<>>
      /\ reading' = Tail(reading) /\ UNCHANGED queued
  BY DEF ReadToken, Reading, At
<1>2. PICK it \in Draw, r \in Request, text \in Seq(Token) :
           /\ it = Head(reading) /\ r = it.req /\ text = Append(tokens[r], it.token)
           /\ it.slot \in Slot /\ it.token \in Token /\ rows[it.slot] = r
           /\ r \in Rowed \ Range(filling) /\ r \in Range(seniority) /\ reason[r] = ""
           /\ tokens' = [tokens EXCEPT ![r] = text]
           /\ positions' = [positions EXCEPT ![it.slot] = Len(Prompt[r]) + Len(text) - 1]
           /\ reason' = [reason EXCEPT
                           ![r] = FinishReason(r, text, Len(Prompt[r]) + Len(text) - 1)]
           /\ IF reason'[r] # "" THEN Release(r, Prompt[r] \o text)
                                 ELSE UNCHANGED <<poolVars, rowVars>>
  BY TokenRead
<1>3. Due = <<>> /\ Due' = <<>> /\ Rooms'
  BY <1>1 DEF Due, Rooms
<1>4. /\ tokens'[r] = text /\ \A q \in Request \ {r} : tokens'[q] = tokens[q]
      /\ \A q \in Request \ {r} : reason'[q] = reason[q]
      /\ positions'[it.slot] = Len(Prompt[r]) + Len(text) - 1
      /\ \A s \in Slot \ {it.slot} : positions'[s] = positions[s]
  BY <1>2 DEF IInv, RowTypes, DeviceTypes
<1>5. \A q \in Request : reason'[q] = "" => reason[q] = ""
  BY <1>2, <1>4
<1>6. \A s \in Slot : rows[s] = r => s = it.slot
  BY <1>2, EngineAssumption DEF IInv, Admission
<1>7. /\ \A s \in Slot : rows[s] # r => rows'[s] = rows[s]
      /\ \A s \in Slot : rows'[s] # None => rows'[s] = rows[s]
      /\ Range(filling') \cup {r} = Range(filling) \cup {r}
      /\ \/ rows' = rows
         \/ reason'[r] # "" /\ rows'[it.slot] = None
  <2>1. CASE reason'[r] # ""
    <3>1. Release(r, Prompt[r] \o text)
      BY <1>2, <2>1
    <3>2. /\ SlotOf(r) \in Slot /\ rows[SlotOf(r)] = r /\ rows'[SlotOf(r)] = None
          /\ \A s \in Slot \ {SlotOf(r)} : rows'[s] = rows[s] /\ rows[s] # r
          /\ Range(filling') = Range(filling) \ {r}
      BY <1>2, <3>1, FreedRow
    <3>3. SlotOf(r) = it.slot
      BY <3>2, <1>6
    <3> QED BY <2>1, <3>2, <3>3
  <2>2. CASE reason'[r] = ""
    <3>1. UNCHANGED <<rows, filling>>
      BY <1>2, <2>2 DEF rowVars
    <3> QED BY <3>1
  <2> QED BY <2>1, <2>2
<1>8. ASSUME NEW s \in Slot, rows[s] \in Request, reason'[rows[s]] = ""
      PROVE  rows'[s] = rows[s]
  <2>1. CASE rows' = rows
    BY <2>1
  <2>2. CASE reason'[r] # ""
    <3>1. rows[s] # r
      BY <1>8, <2>2
    <3> QED BY <3>1, <1>7
  <2> QED BY <2>1, <2>2, <1>7
<1>9. DrawsInPlace'
  BY <1>1, <1>3, <1>5, <1>8, DrawRead
<1>10. PositionsRead'
  <2> SUFFICES ASSUME NEW s \in Slot, rows'[s] # None, rows'[s] \notin Range(filling')
               PROVE  PromptUnread(rows[s])' \/ positions'[s] = LastPosition(rows[s])'
    BY DEF PositionsRead
  <2>1. rows'[s] = rows[s]
    BY <1>7
  <2>2. CASE rows[s] = r
    <3>1. s = it.slot
      BY <2>2, <1>6
    <3> QED BY <3>1, <2>1, <2>2, <1>4 DEF LastPosition
  <2>3. CASE rows[s] # r
    <3>1. PICK q \in Request \ {r} : q = rows[s]
      BY <2>1, <2>3 DEF IInv, RowTypes
    <3>2. q \notin Range(filling) /\ q # None
      BY <2>1, <3>1, <1>7
    <3>3. PromptUnread(q) \/ positions[s] = LastPosition(q)
      BY <3>1, <3>2 DEF ReadInv, PositionsRead
    <3>4. PromptDrawn(q, reading) => PromptDrawn(q, reading')
      BY <3>1, <1>1, <1>2, NextDraw
    <3>5. PromptUnread(q) => PromptUnread(q)'
      BY <3>4, <1>1, <1>3 DEF PromptUnread
    <3>6. s # it.slot
      BY <2>3, <1>2
    <3>7. LastPosition(q)' = LastPosition(q) /\ positions'[s] = positions[s]
      BY <3>1, <3>6, <1>4 DEF LastPosition
    <3>8. PromptUnread(q)' \/ positions'[s] = LastPosition(q)'
      BY <3>3, <3>5, <3>7
    <3>9. rows'[s] = q
      BY <2>1, <3>1
    <3> QED BY <3>8, <3>9 DEF PromptUnread, LastPosition
  <2> QED BY <2>2, <2>3
<1> QED BY <1>3, <1>9, <1>10 DEF ReadInv

\* Every step, and every call, keeps the draws not read and the last positions.
LEMMA ReadInvNext ==
  ASSUME IInv, ReadInv, PiecesApart, [Next]_vars
  PROVE  ReadInv'
<1>1. ASSUME NEW r \in Request, Cancel(r) PROVE ReadInv'
  <2>1. CancelWaiting(r) \/ CancelRow(r)
    BY <1>1 DEF Cancel
  <2> QED BY <1>1, <2>1, CancelRowReads, QuietKeeps DEF Quiet
<1>2. CASE Client
  BY <1>1, <1>2, QuietKeeps, ResetReads DEF Client, Quiet
<1>3. CASE GrowPreempt \/ Bind \/ MixStep \/ PassPiece \/ PassEnd
  BY <1>3, GrowPreemptReads, BindReads, MixStepReads, PassPieceReads, PassEndReads
<1>4. CASE MixPassEnd \/ DecodeStep \/ PopPass \/ SkipToken \/ ReadToken
  BY <1>4, MixPassEndReads, DecodeStepReads, PopPassReads, SkipTokenReads, ReadTokenReads
<1>5. CASE UNCHANGED vars
  <2>1. Due' = Due /\ Rooms'
    BY <1>5 DEF ReadInv, vars, Due, Rooms, localVars
  <2>2. UNCHANGED <<queued, reading, tokens, positions, reason, rows, filling>>
    BY <1>5 DEF vars, passVars, requestVars, rowVars
  <2> QED BY <2>1, <2>2, RowsStay
<1>6. CASE Quiet
  BY <1>6, QuietKeeps
<1> QED BY <1>2, <1>3, <1>4, <1>5, <1>6 DEF Next, Step, Rest, Quiet

\* In every state the draws not read stand in their rows, a prompt's before the others of
\* its request, and the last position of a row is that of the tokens read.
THEOREM DrawsStand == Spec => [](IInv /\ ReadInv /\ PiecesApart)
<1>1. Init => IInv /\ ReadInv /\ PiecesApart
  <2>1. Init => PiecesApart
    BY DEF Init, PiecesApart, Passing
  <2> QED BY <2>1, InitInv, InitReads
<1>2. IInv /\ ReadInv /\ PiecesApart /\ [Next]_vars => (IInv /\ ReadInv /\ PiecesApart)'
  BY NextInv, ReadInvNext, PiecesApartNext
<1> QED BY <1>1, <1>2, PTL DEF Spec

-----------------------------------------------------------------------------
(* Every step is one of Batching, or none.                                  *)

\* Batching speaks of lines as the engine does.
LEMMA BatchLines ==
  /\ \A seq : Batch!Range(seq) = Range(seq)
  /\ \A seq, x : Batch!Without(seq, x) = Without(seq, x)
  /\ \A seq : Batch!Last(seq) = Last(seq) /\ Batch!Front(seq) = Front(seq)
BY DEF Batch!Range, Range, Batch!Without, Without, Batch!IndexIn, IndexIn,
       Batch!RemoveAt, RemoveAt, Batch!Last, Last, Batch!Front, Front

\* While a row is free for one more, fewer are admitted than there are rows.
LEMMA RowFree ==
  ASSUME IInv, Len(placed) < Cardinality(FreeSlots)
  PROVE  Len(seniority) < NSlots
<1> DEFINE Busy == Slot \ FreeSlots
           f == [s \in Busy |-> rows[s]]
<1>1. NSlots \in Nat /\ IsFiniteSet(Slot) /\ Cardinality(Slot) = NSlots
  <2>1. NSlots \in Nat /\ NSlots >= 1
    BY EngineAssumption
  <2>2. IsFiniteSet(1..NSlots) /\ Cardinality(1..NSlots) = NSlots - 1 + 1
    BY <2>1, FS_Interval
  <2> QED BY <2>1, <2>2 DEF Slot
<1>2. /\ IsFiniteSet(Busy) /\ Cardinality(Busy) = NSlots - Cardinality(FreeSlots)
      /\ Cardinality(FreeSlots) \in Nat
  <2>1. Slot \cap FreeSlots = FreeSlots
    BY DEF FreeSlots
  <2> QED BY <2>1, <1>1, FS_Difference, FreeSlotsFinite
<1>3. IsFiniteSet(Rowed) /\ Cardinality(Rowed) <= Cardinality(Busy)
  <2>1. f \in Surjection(Busy, Rowed)
    BY DEF Surjection, Rowed, FreeSlots
  <2> HIDE DEF f
  <2> QED BY <2>1, <1>2, FS_Surjection
<1>4. IsFiniteSet(Range(placed)) /\ Cardinality(Range(placed)) = Len(placed)
  BY OnceCounts DEF IInv, RowTypes, Admission
<1>5. Cardinality(Range(seniority)) = Len(seniority)
  BY OnceCounts DEF IInv, RowTypes, Admission
<1>6. Range(seniority) = Rowed \cup Range(placed) /\ Rowed \cap Range(placed) = {}
  BY DEF IInv, Admission
<1>7. Len(seniority) = Cardinality(Rowed) + Len(placed)
  <2>1. Cardinality(Rowed \cup Range(placed)) =
          Cardinality(Rowed) + Cardinality(Range(placed)) - Cardinality({})
    BY <1>3, <1>4, <1>6, FS_Union
  <2>2. Cardinality({}) = 0
    BY FS_EmptySet
  <2>3. Cardinality(Rowed) \in Nat /\ Cardinality(Range(placed)) \in Nat
    BY <1>3, <1>4, FS_CardinalityType
  <2> QED BY <2>1, <2>2, <2>3, <1>4, <1>5, <1>6
<1>8. /\ Cardinality(Rowed) \in Nat /\ Cardinality(Busy) \in Nat /\ Len(placed) \in Nat
  BY <1>2, <1>3, <1>4, FS_CardinalityType
<1> HIDE DEF Busy
<1> QED BY <1>1, <1>2, <1>3, <1>7, <1>8

\* A request joins the line.
LEMMA SubmitServes ==
  ASSUME NEW r \in Request, Submit(r)
  PROVE  Batch!Submit(r)
BY BatchLines DEF Submit, rowVars, Batch!Submit

\* A request leaves the line, or its row.
LEMMA CancelServes ==
  ASSUME IInv, NEW r \in Request, Cancel(r)
  PROVE  Batch!Cancel(r)
<1>1. reason' = [reason EXCEPT ![r] = "cancelled"] /\ UNCHANGED <<submitted, tokens>>
  BY DEF Cancel
<1>2. Range(waiting) \cap Range(seniority) = {}
  BY DEF IInv, Admission
<1>3. CASE CancelWaiting(r)
  <2>1. r \in Range(waiting) /\ waiting' = Without(waiting, r) /\ seniority' = seniority
    BY <1>3 DEF CancelWaiting, rowVars
  <2>2. Without(seniority, r) = seniority
    BY <2>1, <1>2 DEF Without
  <2> QED BY <2>1, <2>2, <1>1, BatchLines DEF Batch!Cancel
<1>4. CASE CancelRow(r)
  <2>1. /\ \E s \in Slot : rows[s] = r
        /\ seniority' = Without(seniority, r) /\ waiting' = waiting
    BY <1>4 DEF CancelRow, Release
  <2>2. r \in Range(seniority)
    BY <2>1, EngineAssumption DEF IInv, Admission, Rowed
  <2>3. Without(waiting, r) = waiting
    BY <2>2, <1>2 DEF Without
  <2> QED BY <2>1, <2>2, <2>3, <1>1, BatchLines DEF Batch!Cancel
<1> QED BY <1>3, <1>4 DEF Cancel

\* Every request is forgotten.
LEMMA ResetServes ==
  ASSUME Reset
  PROVE  Batch!Reset
BY DEF Reset, Batch!Reset

\* The request admitted last goes back to the head of the line.
LEMMA PreemptServes ==
  ASSUME IInv, GrowPreempt
  PROVE  Batch!Preempt
<1>1. /\ pc = "grow" /\ short /\ queued = <<>>
      /\ seniority' = Without(seniority, Last(seniority))
      /\ waiting' = <<Last(seniority)>> \o waiting
      /\ UNCHANGED <<submitted, tokens, reason>>
  BY DEF GrowPreempt, At, Release, Requeue, Victim, requestVars
<1>2. seniority \in Seq(Request) /\ Once(seniority)
  BY DEF IInv, RowTypes, Admission
<1>3. seniority # <<>>
  <2>1. Victim \in Rowed
    BY <1>1, VictimInRow
  <2>2. Rowed \subseteq Range(seniority)
    BY DEF IInv, Admission
  <2> QED BY <2>1, <2>2, EmptyLine
<1>4. seniority' = Front(seniority)
  BY <1>1, <1>2, <1>3, WithoutLast
<1> QED BY <1>1, <1>3, <1>4, BatchLines DEF Batch!Preempt

\* The first in line is admitted.
LEMMA PlaceServes ==
  ASSUME IInv, PlaceDone
  PROVE  Batch!Admit
<1>1. /\ pc = "sharing" /\ waiting' = Tail(waiting)
      /\ seniority' = Append(seniority, Head(waiting))
      /\ UNCHANGED <<submitted, tokens, reason>>
  BY DEF PlaceDone, At, requestVars
<1>2. waiting # <<>> /\ Len(placed) < Cardinality(FreeSlots)
  BY <1>1 DEF IInv, Placement
<1> QED BY <1>1, <1>2, RowFree DEF Batch!Admit

\* A request gets a token, and the verdict of its own prompt and tokens.
LEMMA ReadServes ==
  ASSUME IInv, ReadInv, ReadToken
  PROVE  \E r \in Request : Batch!Emit(r)
<1>1. PICK it \in Draw, r \in Request, text \in Seq(Token) :
           /\ it = Head(reading) /\ r = it.req /\ text = Append(tokens[r], it.token)
           /\ it.slot \in Slot /\ it.token \in Token /\ rows[it.slot] = r
           /\ r \in Rowed \ Range(filling) /\ r \in Range(seniority) /\ reason[r] = ""
           /\ tokens' = [tokens EXCEPT ![r] = text]
           /\ positions' = [positions EXCEPT ![it.slot] = Len(Prompt[r]) + Len(text) - 1]
           /\ reason' = [reason EXCEPT
                           ![r] = FinishReason(r, text, Len(Prompt[r]) + Len(text) - 1)]
           /\ IF reason'[r] # "" THEN Release(r, Prompt[r] \o text)
                                 ELSE UNCHANGED <<poolVars, rowVars>>
  BY TokenRead
<1>2. UNCHANGED <<submitted, waiting>>
  BY DEF ReadToken
<1> DEFINE p == Len(Prompt[r])
           n == Len(text)
<1>3. p \in Nat /\ n \in Nat /\ MaxSeq \in Nat /\ MaxNew[r] \in Nat
  <2>1. Prompt[r] \in Seq(Token)
    BY EngineAssumption
  <2>2. Len(Prompt[r]) \in Nat /\ Len(text) \in Nat
    BY <2>1, <1>1, PlacesOfLine
  <2> QED BY <2>2, EngineAssumption
<1> HIDE DEF p, n
<1>4. p + n - 1 + 1 >= MaxSeq <=> p + n >= MaxSeq
  BY <1>3
<1>5. FinishReason(r, text, Len(Prompt[r]) + Len(text) - 1) = Batch!Verdict(r, text)
  <2>1. n < MaxNew[r] <=> ~(n >= MaxNew[r])
    BY <1>3
  <2> QED BY <2>1, <1>4, BatchLines DEF FinishReason, Batch!Verdict, p, n
<1>6. seniority' = IF reason'[r] = "" THEN seniority ELSE Without(seniority, r)
  BY <1>1 DEF Release, rowVars
<1>7. tokens' = [tokens EXCEPT ![r] = Append(tokens[r], it.token)]
  BY <1>1
<1>8. Batch!Emit(r)
  BY <1>1, <1>2, <1>5, <1>6, <1>7, BatchLines DEF Batch!Emit
<1> QED BY <1>8

\* The actions that leave the requests, the line and the admission alone.
LEMMA OthersServe ==
  ASSUME [Next]_vars, ~Client, ~GrowPreempt, ~PlaceDone, ~ReadToken
  PROVE  UNCHANGED <<submitted, waiting, seniority, tokens, reason>>
<1> USE DEF requestVars, rowVars
<1>1. CASE BeginStep \/ GiveBackPage \/ GrowRead \/ GrowTake \/ GrowDone
  BY <1>1 DEF BeginStep, GiveBackPage, GrowRead, GrowTake, GrowDone
<1>2. CASE ChunkFilling \/ ChunkDone \/ PlaceStart \/ ShareFound \/ TakeOwn \/ PlaceStop
  BY <1>2 DEF ChunkFilling, ChunkDone, PlaceStart, ShareFound, TakeOwn, PlaceStop
<1>3. CASE Bind \/ BindDone \/ MixStep \/ PassPiece \/ PassEnd \/ PassesDone \/ MixPassEnd
  BY <1>3 DEF Bind, BindDone, MixStep, PassPiece, PassEnd, PassesDone, MixPassEnd
<1>4. CASE DecodeStep \/ DecodeNone \/ PopPass \/ SkipToken \/ ReadDone
  BY <1>4 DEF DecodeStep, DecodeNone, PopPass, SkipToken, ReadDone
<1>5. CASE UNCHANGED vars
  BY <1>5 DEF vars
<1> QED BY <1>1, <1>2, <1>3, <1>4, <1>5 DEF Next, Step, Rest

\* A step of the engine is a step of Batching, or leaves what Batching speaks of alone.
LEMMA StepServes ==
  ASSUME IInv, ReadInv, [Next]_vars
  PROVE  [Batch!Next]_<<submitted, waiting, seniority, tokens, reason>>
<1>1. CASE Client
  <2>1. ASSUME NEW r \in Request, Submit(r) PROVE Batch!Next
    BY <2>1, SubmitServes DEF Batch!Next
  <2>2. ASSUME NEW r \in Request, Cancel(r) PROVE Batch!Next
    BY <2>2, CancelServes DEF Batch!Next
  <2>3. ASSUME LoadWeights PROVE UNCHANGED <<submitted, waiting, seniority, tokens, reason>>
    BY <2>3 DEF LoadWeights, requestVars, rowVars
  <2>4. ASSUME Reset PROVE Batch!Next
    BY <2>4, ResetServes DEF Batch!Next
  <2> QED BY <1>1, <2>1, <2>2, <2>3, <2>4 DEF Client
<1>2. CASE GrowPreempt
  BY <1>2, PreemptServes DEF Batch!Next
<1>3. CASE PlaceDone
  BY <1>3, PlaceServes DEF Batch!Next
<1>4. CASE ReadToken
  BY <1>4, ReadServes DEF Batch!Next
<1> QED BY <1>1, <1>2, <1>3, <1>4, OthersServe

\* The engine keeps the promise of Batching, for any prompts and any order of calls: its
\* pages, chunks, passes and the tokens it reads late show in neither the order requests
\* are served, nor the tokens they have, nor the reason they end.
THEOREM PromiseKept == Spec => ServesAsBatching
<1>1. Init => Batch!Init
  BY DEF Init, Batch!Init
<1>2. IInv /\ ReadInv /\ [Next]_vars => [Batch!Next]_Batch!batchVars
  BY StepServes DEF Batch!batchVars
<1> QED BY <1>1, <1>2, DrawsStand, PTL DEF Spec, ServesAsBatching, Batch!Spec

\* The lines the requests stand in, the rows' first.
Line == seniority \o waiting

Served == Once(submitted) /\ Follows(Line, submitted)

\* Every step of Batching keeps the order.
LEMMA ServedNext ==
  ASSUME IInv, Served, [Batch!Next]_<<submitted, waiting, seniority, tokens, reason>>
  PROVE  Served'
<1>1. /\ seniority \in Seq(Request) /\ waiting \in Seq(Request) /\ submitted \in Seq(Request)
      /\ Once(seniority) /\ Once(waiting)
      /\ Range(seniority) \cup Range(waiting) \subseteq Range(submitted)
  BY DEF IInv, RowTypes, Admission
<1>2. Line \in Seq(Request) /\ Range(Line) = Range(seniority) \cup Range(waiting)
  BY <1>1, ConcatOnce DEF Line
<1>3. CASE Line' = Line /\ submitted' = submitted
  BY <1>3 DEF Served
<1>4. ASSUME NEW r \in Request, Batch!Submit(r) PROVE Served'
  <2>1. /\ r \notin Range(submitted) /\ submitted' = Append(submitted, r)
        /\ waiting' = Append(waiting, r) /\ seniority' = seniority
    BY <1>4, BatchLines DEF Batch!Submit
  <2>2. Line' = Append(Line, r)
    BY <2>1, <1>1, LineParted DEF Line
  <2> QED BY <2>1, <2>2, <1>1, <1>2, JoinedLast DEF Served
<1>5. ASSUME NEW r \in Request, Batch!Emit(r) PROVE Served'
  <2>1. /\ submitted' = submitted /\ waiting' = waiting
        /\ seniority' = seniority \/ seniority' = Without(seniority, r)
    BY <1>5, BatchLines DEF Batch!Emit
  <2>2. CASE seniority' = seniority
    BY <2>1, <2>2, <1>3 DEF Line
  <2>3. CASE seniority' = Without(seniority, r)
    BY <2>1, <2>3, <1>1, LeftInOrder DEF Served, Line
  <2> QED BY <2>1, <2>2, <2>3
<1>6. ASSUME NEW r \in Request, Batch!Cancel(r) PROVE Served'
  <2>1. /\ submitted' = submitted /\ waiting' = Without(waiting, r)
        /\ seniority' = Without(seniority, r)
    BY <1>6, BatchLines DEF Batch!Cancel
  <2> QED BY <2>1, <1>1, LeftInOrder DEF Served, Line
<1>7. CASE Batch!Admit
  <2>1. /\ waiting # <<>> /\ submitted' = submitted /\ waiting' = Tail(waiting)
        /\ seniority' = Append(seniority, Head(waiting))
    BY <1>7 DEF Batch!Admit
  <2> QED BY <2>1, <1>1, <1>3, LineParted DEF Line
<1>8. CASE Batch!Preempt
  <2>1. /\ seniority # <<>> /\ submitted' = submitted
        /\ waiting' = <<Last(seniority)>> \o waiting /\ seniority' = Front(seniority)
    BY <1>8, BatchLines DEF Batch!Preempt
  <2> QED BY <2>1, <1>1, <1>3, LineParted DEF Line
<1>9. CASE Batch!Reset
  <2>1. submitted' = <<>> /\ Line' = <<>>
    <3>1. submitted' = <<>> /\ waiting' = <<>> /\ seniority' = <<>>
      BY <1>9 DEF Batch!Reset
    <3>2. <<>> \o <<>> = <<>>
      BY EmptyLine, LineParted
    <3> QED BY <3>1, <3>2 DEF Line
  <2>2. Once(<<>>)
    BY EmptyLine
  <2> QED BY <2>1, <2>2, NoPlaces DEF Served, Follows
<1>10. CASE UNCHANGED <<submitted, waiting, seniority, tokens, reason>>
  BY <1>3, <1>10 DEF Line
<1> QED BY <1>4, <1>5, <1>6, <1>7, <1>8, <1>9, <1>10 DEF Batch!Next

\* Requests are served in the order they came, the preempted ones too: no preemption,
\* cancel or late placement lets one overtake another.
THEOREM OrderKept == Spec => []ServedInOrder
<1>1. Init => Served
  <2> SUFFICES ASSUME Init PROVE Served
    OBVIOUS
  <2>1. submitted = <<>> /\ Line = <<>>
    <3>1. submitted = <<>> /\ waiting = <<>> /\ seniority = <<>>
      BY DEF Init
    <3>2. <<>> \o <<>> = <<>>
      BY EmptyLine, LineParted
    <3> QED BY <3>1, <3>2 DEF Line
  <2>2. Once(<<>>)
    BY EmptyLine
  <2> QED BY <2>1, <2>2, NoPlaces DEF Served, Follows
<1>2. IInv /\ ReadInv /\ Served /\ [Next]_vars => Served'
  BY StepServes, ServedNext
<1>3. IInv /\ Served => ServedInOrder
  <2> SUFFICES ASSUME IInv, Served PROVE ServedInOrder
    OBVIOUS
  <2>1. Line \in Seq(Request)
    BY ConcatOnce DEF IInv, RowTypes, Admission, Line
  <2>2. DOMAIN Line = 1..Len(Line)
    BY <2>1
  <2> QED BY <2>2 DEF Served, Follows, ServedInOrder, Line
<1> QED BY <1>1, <1>2, <1>3, DrawsStand, PTL DEF Spec

-----------------------------------------------------------------------------
(* Draws not read: never more than a request has tokens left, and between    *)
(* steps one at most.                                                       *)

One(b) == IF b THEN 1 ELSE 0

\* The passes that draw for r.
DrawnAt(r, passes) == {i \in 1..Len(passes) : Drawn(r, passes[i])}

\* There is a number of them.
LEMMA DrawnFinite ==
  ASSUME NEW r, NEW S, NEW passes \in Seq(S)
  PROVE  /\ DrawnAt(r, passes) \in SUBSET Nat /\ IsFiniteSet(DrawnAt(r, passes))
         /\ Cardinality(DrawnAt(r, passes)) \in Nat
<1>1. Len(passes) \in Nat
  OBVIOUS
<1>2. IsFiniteSet(1..Len(passes))
  BY <1>1, FS_Interval
<1>3. DrawnAt(r, passes) \subseteq 1..Len(passes)
  BY DEF DrawnAt
<1>4. IsFiniteSet(DrawnAt(r, passes))
  BY <1>2, <1>3, FS_Subset
<1> QED
  BY <1>1, <1>3, <1>4, FS_CardinalityType

\* A pass more at the end.
LEMMA DrawnAppend ==
  ASSUME NEW r, NEW S, NEW passes \in Seq(S), NEW pass \in S
  PROVE  Cardinality(DrawnAt(r, Append(passes, pass)))
           = Cardinality(DrawnAt(r, passes)) + One(Drawn(r, pass))
<1> DEFINE n == Len(passes)
           more == Append(passes, pass)
<1>1. /\ n \in Nat /\ more \in Seq(S) /\ Len(more) = n + 1 /\ more[n + 1] = pass
      /\ \A i \in 1..n : more[i] = passes[i]
  OBVIOUS
<1> HIDE DEF more
<1>2. /\ IsFiniteSet(DrawnAt(r, passes)) /\ Cardinality(DrawnAt(r, passes)) \in Nat
      /\ n + 1 \notin DrawnAt(r, passes)
  <2>1. n + 1 \notin 1..n
    BY <1>1
  <2>2. n + 1 \notin DrawnAt(r, passes)
    BY <2>1 DEF DrawnAt
  <2> QED
    BY <2>2, DrawnFinite
<1>3. 1..(n + 1) = 1..n \cup {n + 1}
  BY <1>1
<1>4. CASE Drawn(r, pass)
  <2>1. DrawnAt(r, more) = DrawnAt(r, passes) \cup {n + 1}
    BY <1>1, <1>3, <1>4 DEF DrawnAt
  <2>2. Cardinality(DrawnAt(r, passes) \cup {n + 1}) = Cardinality(DrawnAt(r, passes)) + 1
    BY <1>2, FS_AddElement
  <2> QED
    BY <2>1, <2>2, <1>4 DEF One, more
<1>5. CASE ~Drawn(r, pass)
  <2>1. DrawnAt(r, more) = DrawnAt(r, passes)
    BY <1>1, <1>3, <1>5 DEF DrawnAt
  <2> QED
    BY <2>1, <1>2, <1>5 DEF One, more
<1> QED
  BY <1>4, <1>5

\* The first pass read.
LEMMA DrawnTail ==
  ASSUME NEW r, NEW S, NEW passes \in Seq(S), passes # <<>>
  PROVE  Cardinality(DrawnAt(r, passes))
           = Cardinality(DrawnAt(r, Tail(passes))) + One(Drawn(r, Head(passes)))
<1> DEFINE n == Len(passes)
           rest == Tail(passes)
           later == DrawnAt(r, passes) \ {1}
<1>1. /\ n \in Nat \ {0} /\ rest \in Seq(S) /\ Len(rest) = n - 1 /\ Head(passes) = passes[1]
      /\ \A i \in 1..(n - 1) : rest[i] = passes[i + 1]
  OBVIOUS
<1> HIDE DEF rest
<1>2. /\ IsFiniteSet(DrawnAt(r, passes)) /\ Cardinality(DrawnAt(r, passes)) \in Nat
      /\ DrawnAt(r, passes) \in SUBSET Nat
  BY DrawnFinite
<1>3. DrawnAt(r, rest) \in SUBSET Nat
  BY <1>1, DrawnFinite
<1>4. later \in SUBSET (Nat \ {0}) /\ IsFiniteSet(later)
  <2>1. later \in SUBSET (Nat \ {0})
    BY DEF DrawnAt
  <2> QED
    BY <2>1, <1>2, FS_Subset
<1>5. \A j \in Nat : j \in DrawnAt(r, rest) <=> j + 1 \in later
  <2> TAKE j \in Nat
  <2>1. j \in 1..(n - 1) <=> j + 1 \in 1..n /\ j + 1 # 1
    BY <1>1
  <2>2. j \in DrawnAt(r, rest) <=> j \in 1..(n - 1) /\ Drawn(r, passes[j + 1])
    BY <1>1 DEF DrawnAt
  <2> QED
    BY <2>1, <2>2 DEF DrawnAt
<1> HIDE DEF later
<1>6. Cardinality(DrawnAt(r, rest)) = Cardinality(later)
  BY <1>3, <1>4, <1>5, CountMoved
<1>7. Cardinality(later) \in Nat
  BY <1>4, FS_CardinalityType
<1>8. CASE Drawn(r, Head(passes))
  <2>1. 1 \in DrawnAt(r, passes)
    BY <1>1, <1>8 DEF DrawnAt
  <2>2. Cardinality(later) = Cardinality(DrawnAt(r, passes)) - 1
    BY <2>1, <1>2, FS_RemoveElement DEF later
  <2> QED
    BY <2>2, <1>2, <1>6, <1>7, <1>8 DEF One, rest
<1>9. CASE ~Drawn(r, Head(passes))
  <2>1. later = DrawnAt(r, passes)
    BY <1>1, <1>9 DEF DrawnAt, later
  <2> QED
    BY <2>1, <1>6, <1>7, <1>9 DEF One, rest
<1> QED
  BY <1>8, <1>9

\* A pass put before the last.
LEMMA DrawnInsert ==
  ASSUME NEW r, NEW S, NEW passes \in Seq(S), passes # <<>>, NEW pass \in S
  PROVE  Cardinality(DrawnAt(r, Front(passes) \o <<pass, Last(passes)>>))
           = Cardinality(DrawnAt(r, passes)) + One(Drawn(r, pass))
<1>1. Front(passes) \in Seq(S) /\ Last(passes) \in S
  <2>1. Last(passes) \in Range(passes) /\ Front(passes) \in Seq(S)
    BY FrontOnce
  <2> QED
    BY <2>1, RangeOfLine
<1> DEFINE front == Front(passes)
           last  == Last(passes)
<1>2. passes = Append(front, last)
  BY DEF Front, Last
<1> HIDE DEF front, last
<1>3. front \in Seq(S) /\ last \in S
  BY <1>1 DEF front, last
<1>4. front \o <<pass, last>> = Append(Append(front, pass), last) /\ Append(front, pass) \in Seq(S)
  BY <1>3
<1> DEFINE a == Cardinality(DrawnAt(r, front))
<1>5. a \in Nat
  BY <1>3, DrawnFinite
<1>6. Cardinality(DrawnAt(r, Append(front, last))) = a + One(Drawn(r, last))
  BY <1>3, DrawnAppend
<1>7. Cardinality(DrawnAt(r, Append(front, pass))) = a + One(Drawn(r, pass))
  BY <1>3, DrawnAppend
<1>8. Cardinality(DrawnAt(r, Append(Append(front, pass), last)))
        = Cardinality(DrawnAt(r, Append(front, pass))) + One(Drawn(r, last))
  BY <1>3, <1>4, DrawnAppend
<1>9. One(Drawn(r, last)) \in Int /\ One(Drawn(r, pass)) \in Int
  BY DEF One
<1> HIDE DEF a
<1>10. Cardinality(DrawnAt(r, Append(Append(front, pass), last)))
         = Cardinality(DrawnAt(r, Append(front, last))) + One(Drawn(r, pass))
  BY <1>5, <1>6, <1>7, <1>8, <1>9
<1> QED
  BY <1>2, <1>4, <1>10 DEF front, last

\* No two passes, no two draws.
LEMMA DrawnOnce ==
  ASSUME NEW r, NEW S, NEW passes \in Seq(S),
         \A i, j \in 1..Len(passes) : i < j => ~(Drawn(r, passes[i]) /\ Drawn(r, passes[j]))
  PROVE  Cardinality(DrawnAt(r, passes)) <= 1
<1>1. CASE DrawnAt(r, passes) = {}
  BY <1>1, FS_EmptySet
<1>2. CASE DrawnAt(r, passes) # {}
  <2>1. PICK i : i \in DrawnAt(r, passes)
    BY <1>2
  <2>2. \A j \in DrawnAt(r, passes) : j = i
    <3> TAKE j \in DrawnAt(r, passes)
    <3>1. i \in 1..Len(passes) /\ j \in 1..Len(passes) /\ Drawn(r, passes[i]) /\ Drawn(r, passes[j])
      BY <2>1 DEF DrawnAt
    <3>2. ~(i < j) /\ ~(j < i)
      BY <3>1
    <3> QED
      BY <3>1, <3>2
  <2>3. DrawnAt(r, passes) = {i}
    BY <2>1, <2>2
  <2>4. Cardinality({i}) = 1
    BY FS_Singleton
  <2> QED
    BY <2>3, <2>4
<1> QED
  BY <1>1, <1>2

\* The tokens drawn for a request and not read: in passes queued, in the pass
\* being read, in the one being put together.
Unread(r) == Cardinality(DrawnAt(r, queued)) + One(Drawn(r, reading)) + One(Drawn(r, Due))

\* A request that runs has room for its next token, and one to draw: those drawn
\* and not read are counted.
HasRoom(r) ==
  /\ Len(PromptOf(r)) < MaxSeq
  /\ MaxNew[r] > 0 => Len(tokens[r]) < MaxNew[r] /\ Len(tokens[r]) + Unread(r) <= MaxNew[r]

Budgets == \A r \in Request : reason[r] = "" => HasRoom(r)

\* Two passes draw for no running request both.
Apart(one, two) == \A r \in Request : reason[r] = "" => ~(Drawn(r, one) /\ Drawn(r, two))

\* Passes queued draw for different requests, but the rows' step of this engine
\* step, queued last; that step and the prompts' pass it came with do too.
Trail ==
  /\ ahead \in 0..2 /\ (pc # "read" => ahead = 0)
  /\ \A i, j \in 1..Len(queued) : i < j =>
       \/ Apart(queued[i], queued[j])
       \/ pc \in {"mixpass", "read"} /\ j = Len(queued) /\ ~(ahead = 2 /\ i + 1 = j)

AheadInv == Budgets /\ Trail

\* Pending of the specification counts the passes queued.
LEMMA PendingDrawn ==
  ASSUME IInv, NEW r
  PROVE  Pending(r) = Cardinality(DrawnAt(r, queued)) /\ Pending(r) \in Nat
<1>1. /\ queued \in Seq(Seq(Draw)) /\ DOMAIN queued = 1..Len(queued)
      /\ \A i \in 1..Len(queued) : DOMAIN queued[i] = 1..Len(queued[i])
  <2>1. queued \in Seq(Seq(Draw)) /\ \A i \in 1..Len(queued) : queued[i] \in Seq(Draw)
    BY DrawsTyped
  <2> QED
    BY <2>1
<1>2. {i \in DOMAIN queued : Draws(queued[i], r)} = DrawnAt(r, queued)
  BY <1>1 DEF Draws, DrawnAt, Drawn
<1>3. Cardinality(DrawnAt(r, queued)) \in Nat
  BY <1>1, DrawnFinite
<1> QED
  BY <1>2, <1>3 DEF Pending

\* The numbers the budgets compare.
LEMMA BudgetNumbers ==
  ASSUME IInv, NEW r \in Request
  PROVE  /\ Len(tokens[r]) \in Nat /\ MaxNew[r] \in Nat /\ Unread(r) \in Nat
         /\ tokens[r] \in Seq(Token) /\ Prompt[r] \in Seq(Token) /\ MaxSeq \in Nat
         /\ Len(PromptOf(r)) = Len(Prompt[r]) + Len(tokens[r]) /\ Len(Prompt[r]) \in Nat
         /\ Cardinality(DrawnAt(r, queued)) \in Nat
<1>1. tokens[r] \in Seq(Token) /\ Prompt[r] \in Seq(Token) /\ MaxNew[r] \in Nat /\ MaxSeq \in Nat
  BY EngineAssumption DEF IInv, RowTypes
<1>2. Len(tokens[r]) \in Nat /\ Len(Prompt[r]) \in Nat
  BY <1>1
<1>3. Len(PromptOf(r)) = Len(Prompt[r]) + Len(tokens[r])
  BY <1>1 DEF PromptOf
<1>4. Cardinality(DrawnAt(r, queued)) \in Nat
  BY PendingDrawn
<1>5. Unread(r) \in Nat
  BY <1>4 DEF Unread, One
<1> QED
  BY <1>1, <1>2, <1>3, <1>4, <1>5

\* The tokens not read after a step are a number.
LEMMA UnreadAfter ==
  ASSUME IInv', NEW r
  PROVE  Unread(r)' \in Nat
<1>1. queued' \in Seq(Seq(Draw))
  BY DEF IInv, PassTypes
<1>2. Cardinality(DrawnAt(r, queued')) \in Nat
  BY <1>1, DrawnFinite
<1>3. Cardinality(DrawnAt(r, queued))' \in Nat
  BY <1>2
<1>4. One(Drawn(r, reading))' \in Nat /\ One(Drawn(r, Due))' \in Nat
  BY DEF One
<1> QED
  BY <1>3, <1>4 DEF Unread

\* What does not grow stays within its bound.
LEMMA WithinBound ==
  ASSUME NEW m \in Nat, NEW n \in Nat, NEW u \in Nat, NEW v \in Nat, v <= u, n + u <= m
  PROVE  n + v <= m
OBVIOUS

\* What is below a bound may grow by one.
LEMMA OneMoreWithin ==
  ASSUME NEW m \in Nat, NEW n \in Nat, NEW u \in Nat, n + u < m
  PROVE  n + (u + 1) <= m
OBVIOUS

\* A request that has the tokens it had keeps to its budget while what is drawn
\* and not read for it does not grow past it.
LEMMA RoomKept ==
  ASSUME IInv, IInv', NEW r \in Request, HasRoom(r), tokens'[r] = tokens[r],
         \/ Unread(r)' <= Unread(r)
         \/ MaxNew[r] > 0 => Len(tokens[r]) + Unread(r)' <= MaxNew[r]
  PROVE  HasRoom(r)'
<1>1. Len(PromptOf(r))' = Len(PromptOf(r))
  BY DEF PromptOf
<1>2. /\ Len(tokens[r]) \in Nat /\ MaxNew[r] \in Nat /\ Unread(r) \in Nat /\ Unread(r)' \in Nat
  BY BudgetNumbers, UnreadAfter
<1>3. MaxNew[r] > 0 => Len(tokens[r]) + Unread(r)' <= MaxNew[r]
  BY <1>2, WithinBound DEF HasRoom
<1> QED
  BY <1>1, <1>3 DEF HasRoom

\* So do all.
LEMMA BudgetsKept ==
  ASSUME IInv, IInv', Budgets,
         \A r \in Request : reason'[r] = "" =>
            /\ reason[r] = "" /\ tokens'[r] = tokens[r]
            /\ \/ Unread(r)' <= Unread(r)
               \/ MaxNew[r] > 0 => Len(tokens[r]) + Unread(r)' <= MaxNew[r]
  PROVE  Budgets'
BY RoomKept DEF Budgets

\* What is not read stays while no pass is queued, read or filled.
LEMMA UnreadStays ==
  ASSUME IInv, UNCHANGED <<queued, reading>>, Due' = Due, NEW r \in Request
  PROVE  Unread(r)' = Unread(r) /\ Unread(r)' <= Unread(r)
<1>1. Unread(r)' = Unread(r)
  BY DEF Unread
<1>2. Unread(r) \in Nat
  BY BudgetNumbers
<1> QED
  BY <1>1, <1>2

\* Requests only leave those that run: passes that drew for different ones still do.
LEMMA ApartStays ==
  ASSUME \A r \in Request : reason'[r] = "" => reason[r] = "", NEW one, NEW two,
         Apart(one, two)
  PROVE  Apart(one, two)'
BY DEF Apart

\* The passes queued stay as they are.
LEMMA TrailStays ==
  ASSUME Trail, UNCHANGED queued, ahead' = ahead \/ (ahead' = 0 /\ pc # "read"),
         pc' # "read" => ahead' = 0,
         pc \in {"mixpass", "read"} => pc' \in {"mixpass", "read"},
         \A r \in Request : reason'[r] = "" => reason[r] = ""
  PROVE  Trail'
<1>1. ahead' = ahead
  BY DEF Trail
<1>2. ahead' \in 0..2
  BY <1>1 DEF Trail
<1>3. \A i, j \in 1..Len(queued) : Apart(queued[i], queued[j]) => Apart(queued[i], queued[j])'
  <2> TAKE i, j \in 1..Len(queued)
  <2>1. PICK one : one = queued[i]
    OBVIOUS
  <2>2. PICK two : two = queued[j]
    OBVIOUS
  <2>3. Apart(one, two) => Apart(one, two)'
    BY ApartStays
  <2> QED
    BY <2>1, <2>2, <2>3 DEF Apart
<1> QED
  BY <1>1, <1>2, <1>3 DEF Trail

\* A step that draws, reads and queues nothing.
LEMMA AheadStays ==
  ASSUME IInv, IInv', AheadInv, UNCHANGED <<queued, reading, tokens>>, Due' = Due,
         ahead' = ahead \/ (ahead' = 0 /\ pc # "read"), pc' # "read" => ahead' = 0,
         pc \in {"mixpass", "read"} => pc' \in {"mixpass", "read"},
         \A r \in Request : reason'[r] = "" => reason[r] = ""
  PROVE  AheadInv'
<1>1. \A r \in Request : Unread(r)' <= Unread(r)
  BY UnreadStays
<1>2. Budgets'
  BY <1>1, BudgetsKept DEF AheadInv
<1>3. Trail'
  BY TrailStays DEF AheadInv
<1> QED
  BY <1>2, <1>3 DEF AheadInv

\* The steps that leave the passes and the tokens alone, but the last of a step.
LEMMA QuietAhead ==
  ASSUME IInv, IInv', ReadInv, AheadInv,
         \/ Quiet /\ ~ReadDone
         \/ \E r \in Request : Cancel(r)
         \/ GrowPreempt \/ Bind
  PROVE  AheadInv'
<1> DEFINE Still == UNCHANGED <<queued, reading, tokens>> /\ Due' = Due
           Same  == UNCHANGED <<reason, ahead>>
           Moved == /\ Still /\ \A r \in Request : reason'[r] = "" => reason[r] = ""
                    /\ ahead' = ahead \/ (ahead' = 0 /\ pc # "read")
                    /\ pc' # "read" => ahead' = 0
                    /\ pc \in {"mixpass", "read"} => pc' \in {"mixpass", "read"}
           Calm  == /\ Still /\ Same
                    /\ pc' # "read" => pc # "read"
                    /\ pc \in {"mixpass", "read"} => pc' \in {"mixpass", "read"}
<1>1. pc # "read" => ahead = 0
  BY DEF AheadInv, Trail
<1>2. Calm => Moved
  <2> HIDE DEF Still
  <2> SUFFICES ASSUME Calm PROVE Moved
    OBVIOUS
  <2>1. /\ Still /\ reason' = reason /\ ahead' = ahead /\ (pc' # "read" => pc # "read")
        /\ pc \in {"mixpass", "read"} => pc' \in {"mixpass", "read"}
    OBVIOUS
  <2>2. pc' # "read" => ahead' = 0
    BY <2>1, <1>1
  <2>3. \A r \in Request : reason'[r] = "" => reason[r] = ""
    BY <2>1
  <2> QED
    BY <2>1, <2>2, <2>3
<1> USE DEF At, Goto
<1>3. ASSUME NEW r \in Request, Submit(r) PROVE Calm
  BY <1>3 DEF Submit, requestVars, rowVars, passVars, localVars, Due
<1>4. ASSUME NEW r \in Request, Cancel(r) PROVE Moved
  <2>1. /\ Still /\ UNCHANGED <<ahead, pc>> /\ pc = "idle"
        /\ reason' = [reason EXCEPT ![r] = "cancelled"]
    BY <1>4 DEF Cancel, passVars, localVars, Due
  <2>2. reason \in [Request -> Reason]
    BY DEF IInv, RowTypes
  <2>3. \A q \in Request : reason'[q] = "" => reason[q] = ""
    BY <2>1, <2>2
  <2> QED
    BY <2>1, <2>3, <1>1
<1>5. ASSUME LoadWeights PROVE Calm
  BY <1>5 DEF LoadWeights, requestVars, rowVars, passVars, localVars, Due
<1>6. ASSUME BeginStep PROVE Calm
  BY <1>6 DEF BeginStep, requestVars, rowVars, passVars, localVars, Due
<1>7. ASSUME GiveBackPage PROVE Calm
  BY <1>7 DEF GiveBackPage, requestVars, passVars, localVars, Due
<1>8. ASSUME GrowRead PROVE Moved
  BY <1>8 DEF GrowRead, requestVars, rowVars, localVars, Due
<1>9. ASSUME GrowTake PROVE Calm
  BY <1>9 DEF GrowTake, requestVars, passVars, localVars, Due
<1>10. ASSUME GrowDone PROVE Calm
  BY <1>10 DEF GrowDone, requestVars, rowVars, passVars, Due
<1>11. ASSUME ChunkFilling PROVE Calm
  BY <1>11 DEF ChunkFilling, requestVars, passVars, Due
<1>12. ASSUME ChunkDone PROVE Calm
  BY <1>12 DEF ChunkDone, requestVars, rowVars, passVars, localVars, Due
<1>13. ASSUME PlaceStart PROVE Calm
  BY <1>13 DEF PlaceStart, requestVars, passVars, Due
<1>14. ASSUME ShareFound PROVE Calm
  BY <1>14 DEF ShareFound, requestVars, passVars, Due
<1>15. ASSUME TakeOwn PROVE Calm
  BY <1>15 DEF TakeOwn, requestVars, passVars, localVars, Due
<1>16. ASSUME PlaceDone PROVE Calm
  BY <1>16 DEF PlaceDone, requestVars, passVars, Due
<1>17. ASSUME PlaceStop PROVE Calm
  BY <1>17 DEF PlaceStop, requestVars, rowVars, passVars, localVars, Due
<1>18. ASSUME BindDone PROVE Calm
  BY <1>18 DEF BindDone, requestVars, rowVars, passVars, Due
<1>19. ASSUME PassesDone PROVE Calm
  BY <1>19 DEF PassesDone, ReadInv, Rooms, requestVars, rowVars, passVars, localVars, Due
<1>20. ASSUME DecodeNone PROVE Moved
  BY <1>20 DEF DecodeNone, requestVars, rowVars, localVars, Due
<1>21. ASSUME GrowPreempt PROVE Calm
  BY <1>21 DEF GrowPreempt, requestVars, passVars, localVars, Due
<1>22. ASSUME Bind PROVE Calm
  BY <1>22 DEF Bind, requestVars, passVars, Due
<1>23. Moved => AheadInv'
  BY AheadStays
<1> HIDE DEF Moved, Calm
<1> QED
  BY <1>2, <1>3, <1>4, <1>5, <1>6, <1>7, <1>8, <1>9, <1>10, <1>11, <1>12, <1>13, <1>14, <1>15,
     <1>16, <1>17, <1>18, <1>19, <1>20, <1>21, <1>22, <1>23 DEF Quiet

\* A new engine has drawn nothing, and so has one that was reset.
LEMMA NothingDrawn ==
  ASSUME IInv', queued' = <<>>, reading' = <<>>, Due' = <<>>, ahead' = 0,
         \A r \in Request : tokens'[r] = <<>>
  PROVE  AheadInv'
<1>1. ASSUME NEW r \in Request
      PROVE  Unread(r)' = 0
  <2>1. DrawnAt(r, <<>>) = {} /\ ~Drawn(r, <<>>)
    BY NoPlaces DEF DrawnAt, Drawn
  <2>2. Cardinality({}) = 0
    BY FS_EmptySet
  <2>3. DrawnAt(r, queued)' = {} /\ ~Drawn(r, reading)' /\ ~Drawn(r, Due)'
    BY <2>1
  <2>4. One(Drawn(r, reading))' = 0 /\ One(Drawn(r, Due))' = 0
    BY <2>3 DEF One
  <2>5. Cardinality(DrawnAt(r, queued))' = 0
    BY <2>2, <2>3
  <2> QED
    BY <2>4, <2>5 DEF Unread
<1>2. Budgets'
  <2>1. ASSUME NEW r \in Request
        PROVE  HasRoom(r)'
    <3>1. /\ Prompt[r] \in Seq(Token) /\ Len(Prompt[r]) < MaxSeq /\ MaxNew[r] \in Nat
      BY EngineAssumption
    <3>2. PromptOf(r)' = Prompt[r]
      <4>1. PromptOf(r)' = Prompt[r] \o <<>>
        BY DEF PromptOf
      <4> QED
        BY <4>1, <3>1
    <3>3. Len(tokens'[r]) = 0
      OBVIOUS
    <3> QED
      BY <1>1, <3>1, <3>2, <3>3 DEF HasRoom
  <2> QED
    BY <2>1 DEF Budgets
<1>3. Trail'
  <2>1. 1..Len(queued') = {}
    BY NoPlaces
  <2> QED
    BY <2>1 DEF Trail
<1> QED
  BY <1>2, <1>3 DEF AheadInv

\* The rows' step draws for the rows that decode.
LEMMA StepDraws ==
  ASSUME IInv, NEW parked, StepRows(parked)
  PROVE  \E pass \in Seq(Draw) :
           /\ queued' = Append(queued, pass)
           /\ \A q : Drawn(q, pass) => \E s \in Decoding : rows[s] = q
<1>1. PICK draw \in [Decoding -> Token] :
        queued' = Append(queued, Stepped(Decoding, parked, draw))
  BY DEF StepRows
<1>2. PICK pass \in Seq(Draw) : queued' = Append(queued, pass)
  BY DeviceStepTypes DEF IInv, Admission
<1> DEFINE order == InOrder(Decoding)
           step  == Stepped(Decoding, parked, draw)
<1>3. pass = step
  <2>1. queued \in Seq(Seq(Draw))
    BY DEF IInv, PassTypes
  <2> HIDE DEF step
  <2>2. Append(queued, pass)[Len(queued) + 1] = pass /\ Append(queued, step)[Len(queued) + 1] = step
    BY <2>1
  <2> QED
    BY <2>2, <1>1, <1>2 DEF step
<1>4. order \in Seq(Decoding)
  <2>1. Decoding \in SUBSET Slot
    BY DEF Decoding
  <2> QED
    BY <2>1, InOrderSlots
<1> HIDE DEF order
<1>5. /\ Len(pass) = Len(order)
      /\ \A i \in 1..Len(order) : order[i] \in Decoding /\ pass[i].req = rows[order[i]]
  <2>1. DOMAIN order = 1..Len(order) /\ Len(order) \in Nat
        /\ \A i \in 1..Len(order) : order[i] \in Decoding
    BY <1>4
  <2>2. /\ step = [i \in 1..Len(order) |->
                    [slot |-> order[i], req |-> rows[order[i]], token |-> draw[order[i]],
                     key |-> devKey[order[i]], text |-> StepText(order[i], parked),
                     at |-> devPos[order[i]] + 1, prompt |-> FALSE]]
    BY <2>1 DEF Stepped, order
  <2>3. DOMAIN pass = 1..Len(pass) /\ DOMAIN step = 1..Len(order) /\ Len(pass) \in Nat
    BY <2>1, <2>2, <1>2
  <2>4. Len(pass) = Len(order)
    <3>1. \A m, n \in Nat : 1..m = 1..n => m = n
      <4> SUFFICES ASSUME NEW m \in Nat, NEW n \in Nat, 1..m = 1..n, m # n
                   PROVE  FALSE
        OBVIOUS
      <4>1. m \in 1..m <=> m \in 1..n
        OBVIOUS
      <4>2. n \in 1..m <=> n \in 1..n
        OBVIOUS
      <4> QED
        BY <4>1, <4>2
    <3> QED
      BY <3>1, <2>1, <2>3, <1>3
  <2> QED
    BY <2>1, <2>2, <2>4, <1>3
<1>6. \A q : Drawn(q, pass) => \E s \in Decoding : rows[s] = q
  BY <1>5 DEF Drawn
<1> QED
  BY <1>2, <1>6

\* The rows' step draws a token only where one is missing, counting those not read.
LEMMA StepRowsAhead ==
  ASSUME IInv, IInv', AheadInv, NEW parked, StepRows(parked), Due = <<>>, Due' = <<>>,
         reading = <<>>, UNCHANGED <<tokens, reason, reading>>,
         pc \notin {"mixpass", "read"}, pc' \in {"mixpass", "read"},
         ahead' \in 0..1, pc' = "mixpass" => ahead' = 0
  PROVE  AheadInv'
<1>1. PICK pass \in Seq(Draw) :
        /\ queued' = Append(queued, pass)
        /\ \A q : Drawn(q, pass) => \E s \in Decoding : rows[s] = q
  BY StepDraws
<1>2. queued \in Seq(Seq(Draw))
  BY DEF IInv, PassTypes
<1>3. \A r : ~Drawn(r, <<>>)
  BY NoPlaces DEF Drawn
<1>4. ASSUME NEW r \in Request
      PROVE  /\ ~Drawn(r, pass) => Unread(r)' <= Unread(r)
             /\ Drawn(r, pass) => Len(tokens[r]) + Unread(r)' <= MaxNew[r]
  <2> DEFINE c == Cardinality(DrawnAt(r, queued))
             d == Cardinality(DrawnAt(r, queued))'
  <2>1. c \in Nat /\ Len(tokens[r]) \in Nat /\ MaxNew[r] \in Nat
    BY BudgetNumbers
  <2>2. d = c + One(Drawn(r, pass))
    <3>1. Cardinality(DrawnAt(r, Append(queued, pass))) = c + One(Drawn(r, pass))
      BY <1>1, <1>2, DrawnAppend
    <3> QED
      BY <3>1, <1>1
  <2>3. Unread(r) = c /\ Unread(r)' = d
    <3>1. One(Drawn(r, reading)) = 0 /\ One(Drawn(r, Due)) = 0
      BY <1>3 DEF One
    <3>2. One(Drawn(r, reading))' = 0 /\ One(Drawn(r, Due))' = 0
      BY <1>3 DEF One
    <3>3. d \in Nat
      BY <2>1, <2>2 DEF One
    <3> QED
      BY <2>1, <3>1, <3>2, <3>3 DEF Unread
  <2>4. Pending(r) = c
    BY PendingDrawn
  <2> HIDE DEF c, d
  <2>5. ASSUME ~Drawn(r, pass)
        PROVE  Unread(r)' <= Unread(r)
    BY <2>1, <2>2, <2>3, <2>5 DEF One
  <2>6. ASSUME Drawn(r, pass)
        PROVE  Len(tokens[r]) + Unread(r)' <= MaxNew[r]
    <3>1. PICK s \in Decoding : rows[s] = r
      BY <1>1, <2>6
    <3>2. Len(tokens[r]) + c < MaxNew[r]
      BY <3>1, <2>4 DEF Decoding, WantsMore
    <3>3. Unread(r)' = c + 1
      BY <2>2, <2>3, <2>6 DEF One
    <3> QED
      BY <3>2, <3>3, <2>1, OneMoreWithin
  <2> QED
    BY <2>5, <2>6
<1>5. Budgets'
  BY <1>4, BudgetsKept DEF AheadInv
<1>6. Trail'
  <2>1. PICK n \in Nat : n = Len(queued)
    BY <1>2
  <2>2. /\ Len(queued') = n + 1 /\ \A i \in 1..n : queued'[i] = queued[i]
    BY <2>1, <1>1, <1>2
  <2>3. ASSUME NEW i \in 1..(n + 1), NEW j \in 1..(n + 1), i < j
        PROVE  j = n + 1 \/ (i \in 1..n /\ j \in 1..n)
    BY <2>1, <2>3
  <2>4. ASSUME NEW i \in 1..n, NEW j \in 1..n, i < j
        PROVE  Apart(queued[i], queued[j])'
    <3>1. Apart(queued[i], queued[j])
      BY <2>1, <2>4 DEF AheadInv, Trail
    <3> QED
      BY <3>1, <2>2 DEF Apart
  <2>5. ahead' \in 0..2 /\ ahead' # 2
    OBVIOUS
  <2>6. \A i, j \in 1..Len(queued') : i < j =>
          \/ Apart(queued[i], queued[j])'
          \/ pc' \in {"mixpass", "read"} /\ j = Len(queued') /\ ~(ahead' = 2 /\ i + 1 = j)
    BY <2>2, <2>3, <2>4, <2>5
  <2> QED
    BY <2>5, <2>6 DEF Trail
<1> QED
  BY <1>5, <1>6 DEF AheadInv

\* The rows' step, in the pass of the chunks or alone.
LEMMA StepsAhead ==
  ASSUME IInv, IInv', ReadInv, AheadInv, MixStep \/ DecodeStep
  PROVE  AheadInv'
<1>1. CASE MixStep
  <2> DEFINE parked == {SlotOf(chunks[i].req) : i \in DOMAIN chunks}
  <2>1. /\ pc = "mix" /\ pc' = "mixpass" /\ StepRows(parked)
        /\ UNCHANGED <<tokens, reason, reading, owners, ahead>>
    BY <1>1 DEF MixStep, At, Goto, requestVars, localVars
  <2> HIDE DEF parked
  <2>2. Due = <<>> /\ Due' = <<>> /\ reading = <<>>
    BY <2>1 DEF Due, ReadInv, Rooms, IInv, DrawsLive
  <2>3. ahead' = 0
    BY <2>1 DEF AheadInv, Trail
  <2>4. ahead' \in 0..1
    BY <2>3
  <2> QED
    BY <2>1, <2>2, <2>3, <2>4, StepRowsAhead
<1>2. CASE DecodeStep
  <2>1. /\ pc = "decode" /\ pc' = "read" /\ StepRows({}) /\ ahead' = 1
        /\ UNCHANGED <<tokens, reason, reading, owners>>
    BY <1>2 DEF DecodeStep, At, Goto, requestVars, localVars
  <2>2. Due = <<>> /\ Due' = <<>> /\ reading = <<>>
    BY <2>1 DEF Due, IInv, DrawsLive
  <2>3. ahead' \in 0..1
    BY <2>1
  <2> QED
    BY <2>1, <2>2, <2>3, StepRowsAhead
<1> QED
  BY <1>1, <1>2

\* The draws of a pass with one more.
LEMMA DrawnOfAppend ==
  ASSUME NEW pass \in Seq(Draw), NEW it \in Draw, NEW q
  PROVE  Drawn(q, Append(pass, it)) <=> Drawn(q, pass) \/ it.req = q
<1> DEFINE m == Len(pass)
           more == Append(pass, it)
<1>1. m \in Nat /\ Len(more) = m + 1 /\ more[m + 1] = it /\ \A j \in 1..m : more[j] = pass[j]
  OBVIOUS
<1> HIDE DEF more
<1>2. 1..(m + 1) = 1..m \cup {m + 1}
  BY <1>1
<1>3. Drawn(q, more) <=> Drawn(q, pass) \/ it.req = q
  BY <1>1, <1>2 DEF Drawn
<1> QED
  BY <1>3 DEF more

\* No pass draws for a request: none is counted.
LEMMA NoneQueued ==
  ASSUME NEW r, \A k \in 1..Len(queued) : ~Drawn(r, queued[k])
  PROVE  Cardinality(DrawnAt(r, queued)) = 0
<1>1. DrawnAt(r, queued) = {}
  BY DEF DrawnAt
<1> QED
  BY <1>1, FS_EmptySet

\* The first token drawn for a request that has room for one.
LEMMA FirstDraw ==
  ASSUME IInv, NEW r \in Request, HasRoom(r), UNCHANGED <<queued, reading>>,
         ~Drawn(r, reading), \A k \in 1..Len(queued) : ~Drawn(r, queued[k])
  PROVE  MaxNew[r] > 0 => Len(tokens[r]) + Unread(r)' <= MaxNew[r]
<1>1. Cardinality(DrawnAt(r, queued)) = 0 /\ One(Drawn(r, reading)) = 0
  BY NoneQueued DEF One
<1>2. Unread(r)' = One(Drawn(r, Due))' /\ One(Drawn(r, Due))' \in 0..1
  BY <1>1 DEF Unread, One
<1>3. Len(tokens[r]) \in Nat /\ MaxNew[r] \in Nat
  BY BudgetNumbers
<1> QED
  BY <1>2, <1>3 DEF HasRoom

\* The last piece of a prompt draws for it, the first time since it was placed.
LEMMA PassPieceAhead ==
  ASSUME IInv, IInv', ReadInv, PiecesApart, AheadInv, PassPiece
  PROVE  AheadInv'
<1>1. /\ pc \in {"pass", "mixpass"} /\ pc' = pc
      /\ UNCHANGED <<queued, reading, tokens, reason, ahead>>
  BY DEF PassPiece, At, requestVars, passVars
<1>2. PICK chunk \in Piece, stop \in Nat :
           /\ chunks # <<>> /\ 1 \in 1..Len(chunks) /\ chunk = chunks[1]
           /\ chunk.req \in Rowed /\ chunk.req \in Request
           /\ chunk.start < stop /\ stop <= Len(PromptOf(chunk.req))
           /\ Prefill(chunk, stop)
           /\ room' \in Int /\ room' < room
           /\ pc = "pass" => room' >= 0
  BY PieceThatPasses
<1>3. \/ \E it \in Draw : it.req = chunk.req /\ owners' = Append(owners, it)
      \/ UNCHANGED owners
  BY <1>2, PrefillTypes DEF IInv
<1>4. pc' # "read" => ahead' = 0
  BY <1>1 DEF AheadInv, Trail
<1>5. CASE UNCHANGED owners
  <2>1. Due' = Due
    BY <1>1, <1>5 DEF Due
  <2> QED
    BY <1>1, <1>4, <2>1, AheadStays
<1>6. ASSUME NEW it \in Draw, it.req = chunk.req, owners' = Append(owners, it)
      PROVE  AheadInv'
  <2>1. chunk.req \in Range(filling)
    <3>1. placed = <<>> /\ Range(<<>>) = {}
      BY <1>1, EmptyLine DEF IInv, Placement, Placing
    <3> QED
      BY <3>1, <1>1, <1>2 DEF PiecesApart, Passing
  <2>2. Due = owners /\ Due' = owners' /\ owners \in Seq(Draw)
    BY <1>1 DEF Due, IInv, PassTypes
  <2>3. ASSUME NEW r \in Request, r # chunk.req
        PROVE  Unread(r)' <= Unread(r)
    <3>1. Drawn(r, Due)' <=> Drawn(r, Due)
      BY <1>6, <2>2, <2>3, DrawnOfAppend
    <3>2. One(Drawn(r, Due))' = One(Drawn(r, Due))
      BY <3>1 DEF One
    <3>3. Unread(r)' = Unread(r) /\ Unread(r) \in Nat
      BY <3>2, <1>1, BudgetNumbers DEF Unread
    <3> QED
      BY <3>3
  <2>4. ASSUME NEW r \in Request, r = chunk.req
        PROVE  MaxNew[r] > 0 => Len(tokens[r]) + Unread(r)' <= MaxNew[r]
    <3>1. /\ reason[r] = "" /\ ~Drawn(r, reading)
          /\ \A k \in 1..Len(queued) : ~Drawn(r, queued[k])
      BY <1>1, <2>1, <2>4, NotDrawnYet
    <3> QED
      BY <3>1, <1>1, FirstDraw DEF AheadInv, Budgets
  <2>5. Budgets'
    BY <1>1, <2>3, <2>4, BudgetsKept DEF AheadInv
  <2>6. Trail'
    BY <1>1, <1>4, TrailStays DEF AheadInv
  <2> QED
    BY <2>5, <2>6 DEF AheadInv
<1> QED
  BY <1>3, <1>5, <1>6

\* The prompts of the pass being put together have no other draw.
LEMMA DueApart ==
  ASSUME IInv, ReadInv, NEW k \in 1..Len(queued)
  PROVE  Apart(queued[k], Due) /\ Apart(Due, queued[k])
<1> SUFFICES ASSUME NEW r \in Request, reason[r] = "", Drawn(r, Due), Drawn(r, queued[k])
             PROVE  FALSE
  BY DEF Apart
<1>1. PICK j \in 1..Len(Due) : Due[j].req = r
  BY DEF Drawn
<1>2. Due[j].prompt /\ PromptFirst(Due[j], Len(queued))
  BY <1>1 DEF ReadInv, DrawsInPlace, PassInPlace
<1> QED
  BY <1>1, <1>2 DEF PromptFirst

\* A pass put together, queued or taken up to be read is counted as it was.
LEMMA PassCounted ==
  ASSUME IInv, PassEnd \/ MixPassEnd \/ PopPass, NEW r \in Request
  PROVE  Unread(r)' = Unread(r) /\ Unread(r)' <= Unread(r)
<1>1. ~Drawn(r, <<>>)
  BY NoPlaces DEF Drawn
<1>2. /\ Cardinality(DrawnAt(r, queued)) \in Nat /\ One(Drawn(r, reading)) \in Nat
      /\ One(Drawn(r, owners)) \in Nat /\ Unread(r) \in Nat
  BY BudgetNumbers DEF One
<1>3. ASSUME PassEnd \/ MixPassEnd
      PROVE  Unread(r)' = Unread(r)
  <2>1. /\ Due = owners /\ Due' = <<>> /\ reading' = reading
        /\ \/ queued' = Append(queued, owners)
           \/ queued' = Front(queued) \o <<owners, Last(queued)>> /\ queued # <<>>
    BY <1>3 DEF PassEnd, MixPassEnd, At, Goto, Due, IInv, DrawsLive
  <2>2. queued \in Seq(Seq(Draw)) /\ owners \in Seq(Draw)
    BY DEF IInv, PassTypes
  <2>3. Cardinality(DrawnAt(r, queued)) + One(Drawn(r, owners)) = Cardinality(DrawnAt(r, queued'))
    BY <2>1, <2>2, DrawnAppend, DrawnInsert
  <2>4. Cardinality(DrawnAt(r, queued))' = Cardinality(DrawnAt(r, queued)) + One(Drawn(r, owners))
    BY <2>3
  <2>5. /\ One(Drawn(r, Due)) = One(Drawn(r, owners)) /\ One(Drawn(r, Due))' = 0
        /\ One(Drawn(r, reading))' = One(Drawn(r, reading))
    BY <1>1, <2>1 DEF One
  <2> QED
    BY <1>2, <2>4, <2>5 DEF Unread
<1>4. ASSUME PopPass
      PROVE  Unread(r)' = Unread(r)
  <2>1. /\ pc \in {"read", "growread"} /\ pc' = pc /\ queued' = Tail(queued) /\ reading = <<>>
        /\ reading' = Head(queued) /\ Len(queued) > ahead
    BY <1>4 DEF PopPass, Reading, At
  <2>2. queued \in Seq(Seq(Draw)) /\ queued # <<>> /\ Tail(queued) \in Seq(Seq(Draw))
    <3>1. queued \in Seq(Seq(Draw)) /\ ahead \in Nat
      BY DEF IInv, PassTypes
    <3>2. Len(<<>>) = 0
      OBVIOUS
    <3>3. queued # <<>>
      BY <3>1, <3>2, <2>1
    <3> QED
      BY <3>1, <3>3
  <2>3. Due = <<>> /\ Due' = <<>>
    BY <2>1 DEF Due
  <2>4. Cardinality(DrawnAt(r, queued))
          = Cardinality(DrawnAt(r, Tail(queued))) + One(Drawn(r, Head(queued)))
    BY <2>2, DrawnTail
  <2>5. /\ Cardinality(DrawnAt(r, queued))' = Cardinality(DrawnAt(r, Tail(queued)))
        /\ One(Drawn(r, reading))' = One(Drawn(r, Head(queued)))
    BY <2>1
  <2>6. One(Drawn(r, reading)) = 0 /\ One(Drawn(r, Due)) = 0 /\ One(Drawn(r, Due))' = 0
    BY <1>1, <2>1, <2>3 DEF One
  <2>7. One(Drawn(r, Head(queued))) \in Nat /\ Cardinality(DrawnAt(r, Tail(queued))) \in Nat
    BY <2>2, DrawnFinite DEF One
  <2> QED
    BY <1>2, <2>4, <2>5, <2>6, <2>7 DEF Unread
<1>5. Unread(r)' = Unread(r)
  BY <1>3, <1>4
<1> QED
  BY <1>2, <1>5

\* A pass of prompts is queued.
LEMMA PassEndAhead ==
  ASSUME IInv, IInv', ReadInv, AheadInv, PassEnd
  PROVE  AheadInv'
<1>1. /\ pc = "pass" /\ pc' = "pass" /\ queued' = Append(queued, owners)
      /\ UNCHANGED <<reading, tokens, reason, ahead>>
  BY DEF PassEnd, At, requestVars
<1>2. Due = owners
  BY <1>1 DEF Due
<1>3. Due' = <<>>
  BY DEF PassEnd, Due
<1>4. queued \in Seq(Seq(Draw)) /\ owners \in Seq(Draw)
  BY DEF IInv, PassTypes
<1>5. ASSUME NEW r \in Request
      PROVE  Unread(r)' <= Unread(r)
  BY PassCounted
<1>6. Budgets'
  BY <1>1, <1>5, BudgetsKept DEF AheadInv
<1>7. Trail'
  <2>1. PICK n \in Nat : n = Len(queued)
    BY <1>4
  <2>2. Len(queued') = n + 1 /\ queued'[n + 1] = owners /\ \A i \in 1..n : queued'[i] = queued[i]
    BY <2>1, <1>1, <1>4
  <2>3. ASSUME NEW i \in 1..(n + 1), NEW j \in 1..(n + 1), i < j
        PROVE  i \in 1..n /\ (j = n + 1 \/ j \in 1..n)
    BY <2>1, <2>3
  <2>4. ASSUME NEW i \in 1..n, NEW j \in 1..n, i < j
        PROVE  Apart(queued[i], queued[j])'
    <3>1. Apart(queued[i], queued[j])
      BY <2>1, <2>4, <1>1 DEF AheadInv, Trail
    <3> QED
      BY <3>1, <2>2, <1>1 DEF Apart
  <2>5. ASSUME NEW i \in 1..n, NEW j, j = n + 1
        PROVE  Apart(queued[i], queued[j])'
    <3>1. Apart(queued[i], owners)
      BY <2>1, <1>2, DueApart
    <3> QED
      BY <3>1, <2>2, <2>5, <1>1 DEF Apart
  <2>6. \A i, j \in 1..Len(queued') : i < j => Apart(queued[i], queued[j])'
    BY <2>2, <2>3, <2>4, <2>5
  <2>7. ahead' \in 0..2 /\ (pc' # "read" => ahead' = 0)
    BY <1>1 DEF AheadInv, Trail
  <2> QED
    BY <2>6, <2>7 DEF Trail
<1> QED
  BY <1>6, <1>7 DEF AheadInv

\* The pass of the prompts goes before that of the step they came with.
LEMMA MixPassEndAhead ==
  ASSUME IInv, IInv', ReadInv, AheadInv, MixPassEnd
  PROVE  AheadInv'
<1>1. /\ pc = "mixpass" /\ pc' = "read" /\ queued' = Front(queued) \o <<owners, Last(queued)>>
      /\ ahead' = 2
      /\ UNCHANGED <<reading, tokens, reason>>
  BY DEF MixPassEnd, At, Goto, requestVars
<1>2. queued \in Seq(Seq(Draw)) /\ owners \in Seq(Draw) /\ queued # <<>>
  BY <1>1 DEF IInv, PassTypes, DrawsLive
<1>3. Due = owners /\ Due' = <<>>
  BY <1>1 DEF Due
<1>4. ASSUME NEW r \in Request
      PROVE  Unread(r)' <= Unread(r)
  BY PassCounted
<1>5. Budgets'
  BY <1>1, <1>4, BudgetsKept DEF AheadInv
<1>6. Trail'
  <2> DEFINE two == <<owners, Last(queued)>>
             f == Front(queued)
  <2>1. PICK n \in Nat \ {0} : n = Len(queued)
    BY <1>2
  <2>2. /\ f \in Seq(Seq(Draw)) /\ Len(f) = n - 1 /\ Last(queued) = queued[n]
        /\ \A i \in 1..(n - 1) : f[i] = queued[i]
    <3>1. f = [i \in 1..(n - 1) |-> queued[i]] /\ Last(queued) = queued[n]
      BY <1>2, <2>1 DEF Front, Last
    <3> QED
      BY <3>1, <1>2, <2>1
  <2>3. two \in Seq(Seq(Draw)) /\ Len(two) = 2 /\ two[1] = owners /\ two[2] = queued[n]
    <3>1. queued[n] \in Seq(Draw)
      BY <1>2, <2>1
    <3> QED
      BY <3>1, <1>2, <2>2
  <2> HIDE DEF f, two
  <2>4. /\ Len(queued') = n + 1 /\ queued'[n] = owners /\ queued'[n + 1] = queued[n]
        /\ \A i \in 1..(n - 1) : queued'[i] = queued[i]
    <3>1. /\ Len(f \o two) = Len(f) + Len(two)
          /\ \A i \in 1..Len(f) : (f \o two)[i] = f[i]
          /\ \A j \in 1..Len(two) : (f \o two)[Len(f) + j] = two[j]
      <4>1. f \in Seq(Seq(Draw)) /\ two \in Seq(Seq(Draw))
        BY <2>2, <2>3
      <4> QED
        BY <4>1, PlacesOfParts
    <3>2. n - 1 + 2 = n + 1 /\ n - 1 + 1 = n /\ 1 \in 1..2 /\ 2 \in 1..2
      BY <2>1
    <3>3. /\ Len(f \o two) = n - 1 + 2
          /\ \A i \in 1..(n - 1) : (f \o two)[i] = f[i]
          /\ \A j \in 1..2 : (f \o two)[n - 1 + j] = two[j]
      BY <3>1, <2>2, <2>3
    <3>4. (f \o two)[n] = two[1] /\ (f \o two)[n + 1] = two[2]
      BY <3>2, <3>3
    <3>5. queued' = f \o two
      BY <1>1 DEF f, two
    <3> QED
      BY <3>2, <3>3, <3>4, <3>5, <2>2, <2>3
  <2>5. ASSUME NEW i \in 1..(n + 1), NEW j \in 1..(n + 1), i < j
        PROVE  \/ i \in 1..(n - 1) /\ j \in 1..(n - 1)
               \/ i \in 1..(n - 1) /\ j = n
               \/ i \in 1..(n - 1) /\ j = n + 1 /\ i + 1 # j
               \/ i = n /\ j = n + 1
    BY <2>1, <2>5
  <2>6. n \in 1..n /\ \A i \in 1..(n - 1) : i \in 1..n
    BY <2>1
  <2>7. ASSUME NEW i \in 1..(n - 1), NEW j \in 1..(n - 1), i < j
        PROVE  Apart(queued[i], queued[j])'
    <3>1. j # n
      BY <2>1, <2>7
    <3>2. Apart(queued[i], queued[j])
      BY <3>1, <2>1, <2>6, <2>7 DEF AheadInv, Trail
    <3> QED
      BY <3>2, <2>4, <1>1 DEF Apart
  <2>8. ASSUME NEW i \in 1..(n - 1), NEW j, j = n
        PROVE  Apart(queued[i], queued[j])'
    <3>1. Apart(queued[i], owners)
      BY <2>1, <2>6, <1>3, DueApart
    <3> QED
      BY <3>1, <2>4, <2>8, <1>1 DEF Apart
  <2>9. ASSUME NEW i, NEW j, i = n, j = n + 1
        PROVE  Apart(queued[i], queued[j])'
    <3>1. Apart(owners, queued[n])
      BY <2>1, <2>6, <1>3, DueApart
    <3> QED
      BY <3>1, <2>4, <2>9, <1>1 DEF Apart
  <2>10. \A i, j \in 1..Len(queued') : i < j =>
           \/ Apart(queued[i], queued[j])'
           \/ pc' \in {"mixpass", "read"} /\ j = Len(queued') /\ ~(ahead' = 2 /\ i + 1 = j)
    <3> TAKE i, j \in 1..Len(queued')
    <3> HAVE i < j
    <3>1. \/ i \in 1..(n - 1) /\ j \in 1..(n - 1)
          \/ i \in 1..(n - 1) /\ j = n
          \/ i \in 1..(n - 1) /\ j = n + 1 /\ i + 1 # j
          \/ i = n /\ j = n + 1
      BY <2>4, <2>5
    <3>2. CASE i \in 1..(n - 1) /\ j \in 1..(n - 1)
      BY <3>2, <2>7
    <3>3. CASE i \in 1..(n - 1) /\ j = n
      BY <3>3, <2>8
    <3>4. CASE i \in 1..(n - 1) /\ j = n + 1 /\ i + 1 # j
      BY <3>4, <2>4, <1>1
    <3>5. CASE i = n /\ j = n + 1
      BY <3>5, <2>9
    <3> QED
      BY <3>1, <3>2, <3>3, <3>4, <3>5
  <2>11. ahead' \in 0..2 /\ (pc' # "read" => ahead' = 0)
    BY <1>1
  <2> QED
    BY <2>10, <2>11 DEF Trail
<1> QED
  BY <1>5, <1>6 DEF AheadInv

\* The oldest pass is read: what it drew is not counted twice.
LEMMA PopPassAhead ==
  ASSUME IInv, IInv', AheadInv, PopPass
  PROVE  AheadInv'
<1>1. /\ pc \in {"read", "growread"} /\ pc' = pc /\ queued' = Tail(queued) /\ reading = <<>>
      /\ reading' = Head(queued) /\ Len(queued) > ahead
      /\ UNCHANGED <<tokens, reason, ahead>>
  BY DEF PopPass, Reading, At, requestVars
<1>2. queued \in Seq(Seq(Draw)) /\ queued # <<>>
  <2>1. queued \in Seq(Seq(Draw)) /\ ahead \in Nat
    BY DEF IInv, PassTypes
  <2>2. Len(<<>>) = 0
    OBVIOUS
  <2> QED
    BY <2>1, <2>2, <1>1
<1>3. Due = <<>> /\ Due' = <<>>
  BY <1>1 DEF Due
<1>4. ASSUME NEW r \in Request
      PROVE  Unread(r)' <= Unread(r)
  BY PassCounted
<1>5. Budgets'
  BY <1>1, <1>4, BudgetsKept DEF AheadInv
<1>6. Trail'
  <2>1. PICK n \in Nat \ {0} : n = Len(queued)
    BY <1>2
  <2>2. Len(queued') = n - 1 /\ \A i \in 1..(n - 1) : queued'[i] = queued[i + 1]
    BY <1>1, <1>2, <2>1
  <2>3. ASSUME NEW i \in 1..(n - 1), NEW j \in 1..(n - 1), i < j
        PROVE  /\ i + 1 \in 1..n /\ j + 1 \in 1..n /\ i + 1 < j + 1
               /\ j + 1 = n => j = n - 1
               /\ i + 1 + 1 = j + 1 <=> i + 1 = j
    BY <2>1, <2>3
  <2>4. ASSUME NEW i \in 1..(n - 1), NEW j \in 1..(n - 1), i < j
        PROVE  \/ Apart(queued[i], queued[j])'
               \/ pc' \in {"mixpass", "read"} /\ j = n - 1 /\ ~(ahead' = 2 /\ i + 1 = j)
    <3>1. \/ Apart(queued[i + 1], queued[j + 1])
          \/ pc \in {"mixpass", "read"} /\ j + 1 = n /\ ~(ahead = 2 /\ i + 1 + 1 = j + 1)
      BY <2>1, <2>3, <2>4 DEF AheadInv, Trail
    <3>2. CASE Apart(queued[i + 1], queued[j + 1])
      BY <3>2, <2>2, <2>4, <1>1 DEF Apart
    <3>3. CASE pc \in {"mixpass", "read"} /\ j + 1 = n /\ ~(ahead = 2 /\ i + 1 + 1 = j + 1)
      BY <3>3, <2>3, <2>4, <1>1
    <3> QED
      BY <3>1, <3>2, <3>3
  <2>5. \A i, j \in 1..Len(queued') : i < j =>
          \/ Apart(queued[i], queued[j])'
          \/ pc' \in {"mixpass", "read"} /\ j = Len(queued') /\ ~(ahead' = 2 /\ i + 1 = j)
    BY <2>2, <2>4
  <2>6. ahead' \in 0..2 /\ (pc' # "read" => ahead' = 0)
    BY <1>1 DEF AheadInv, Trail
  <2> QED
    BY <2>5, <2>6 DEF Trail
<1> QED
  BY <1>5, <1>6 DEF AheadInv

\* What is not at its bound is below it.
LEMMA BelowBounds ==
  ASSUME NEW r \in Request, NEW n \in Nat, NEW at \in Nat
  PROVE  /\ n < MaxNew[r] <=> ~(n >= MaxNew[r])
         /\ at + 1 < MaxSeq <=> ~(at + 1 >= MaxSeq)
BY EngineAssumption

\* A token was read and more are to come: there is room for the next.
LEMMA GoesOn ==
  ASSUME NEW r \in Request, NEW text, NEW at, FinishReason(r, text, at) = "",
         Len(text) \in Nat, at \in Nat
  PROVE  Len(text) < MaxNew[r] /\ at + 1 < MaxSeq
<1> DEFINE A == Last(text) \in Eos
           B == Len(text) >= MaxNew[r]
           C == at + 1 >= MaxSeq
           D == Len(text) < MaxNew[r]
<1>1. (D <=> ~B) /\ (at + 1 < MaxSeq <=> ~C)
  BY BelowBounds
<1>2. FinishReason(r, text, at) = CASE A -> "eos" [] ~A /\ B -> "length"
                                    [] ~A /\ D /\ C -> "cache" [] OTHER -> ""
  BY DEF FinishReason
<1> HIDE DEF A, B, C, D
<1>3. ~B /\ ~C
  BY <1>1, <1>2
<1>4. D /\ at + 1 < MaxSeq
  BY <1>1, <1>3
<1> QED
  BY <1>4 DEF D

\* The text of a request with one token more, and where its prompt then ends.
LEMMA TextGrows ==
  ASSUME NEW prompt \in Seq(Token), prompt # <<>>, NEW old \in Seq(Token), NEW t \in Token
  PROVE  /\ Len(Append(old, t)) = Len(old) + 1 /\ Append(old, t) \in Seq(Token)
         /\ Len(Append(old, t)) \in Nat
         /\ Len(prompt) \in Nat \ {0} /\ Len(old) \in Nat
         /\ Len(prompt) + Len(Append(old, t)) - 1 \in Nat
         /\ Len(prompt \o Append(old, t)) = Len(prompt) + Len(Append(old, t))
OBVIOUS

\* Room for the next token, of which one fewer is not read.
LEMMA RoomForNext ==
  ASSUME NEW m \in Nat, NEW k \in Nat, NEW x \in Nat, NEW u \in Nat, NEW v \in Nat,
         k + 1 < x, m + (k + 1) - 1 + 1 < MaxSeq, x > 0 => k + u <= x, u = v + 1
  PROVE  m + (k + 1) < MaxSeq /\ (k + 1) + v <= x
BY EngineAssumption

\* One token fewer to read of a pass.
LEMMA OneReadLess ==
  ASSUME IInv, IInv', reading # <<>>, reading' = Tail(reading), Due = <<>>, Due' = <<>>,
         UNCHANGED queued, OncePerPass(reading), NEW r \in Request
  PROVE  /\ Unread(r)' <= Unread(r)
         /\ r = Head(reading).req => Unread(r) = Unread(r)' + 1
         /\ r # Head(reading).req => Unread(r)' = Unread(r)
<1>1. PICK n \in Nat \ {0}, it \in Draw :
           /\ n = Len(reading) /\ it = Head(reading) /\ it = reading[1] /\ 1 \in 1..n
           /\ Len(reading') = n - 1
           /\ \A i \in 1..(n - 1) :
                i + 1 \in 1..n /\ i + 1 # 1 /\ reading'[i] = reading[i + 1]
           /\ \A q : Drawn(q, reading') => Drawn(q, reading)
  BY NextDraw
<1> DEFINE c == Cardinality(DrawnAt(r, queued))
<1>2. c \in Nat
  BY BudgetNumbers
<1>3. Unread(r) = c + One(Drawn(r, reading)) /\ Unread(r)' = c + One(Drawn(r, reading'))
  <2>1. One(Drawn(r, Due)) = 0 /\ One(Drawn(r, Due))' = 0
    BY NoPlaces DEF One, Drawn
  <2>2. One(Drawn(r, reading)) \in Nat /\ One(Drawn(r, reading')) \in Nat
    BY DEF One
  <2>3. Unread(r)' = c + One(Drawn(r, reading)') + One(Drawn(r, Due)')
    BY DEF Unread
  <2> QED
    BY <1>2, <2>1, <2>2, <2>3 DEF Unread
<1>4. One(Drawn(r, reading')) <= One(Drawn(r, reading))
  BY <1>1 DEF One
<1>5. ASSUME r = it.req
      PROVE  Drawn(r, reading) /\ ~Drawn(r, reading')
  BY <1>1, <1>5 DEF Drawn, OncePerPass
<1>6. One(Drawn(r, reading)) \in Nat /\ One(Drawn(r, reading')) \in Nat
  BY DEF One
<1> HIDE DEF c
<1>7. Unread(r)' <= Unread(r)
  BY <1>2, <1>3, <1>4, <1>6
<1>8. r = it.req => Unread(r) = Unread(r)' + 1
  BY <1>2, <1>3, <1>5 DEF One
<1>9. ASSUME r # it.req
      PROVE  Drawn(r, reading) <=> Drawn(r, reading')
  <2>1. ASSUME NEW j \in 1..n, reading[j].req = r
        PROVE  \E i \in 1..(n - 1) : reading'[i].req = r
    <3>1. j # 1
      BY <1>1, <1>9, <2>1
    <3>2. j - 1 \in 1..(n - 1) /\ j - 1 + 1 = j
      BY <3>1
    <3>3. reading'[j - 1] = reading[j]
      BY <1>1, <3>2
    <3> QED
      BY <2>1, <3>2, <3>3
  <2> QED
    BY <1>1, <2>1 DEF Drawn
<1>10. r # it.req => Unread(r)' = Unread(r)
  BY <1>3, <1>9 DEF One
<1> QED
  BY <1>1, <1>7, <1>8, <1>10

\* The prompt and the tokens of a request.
LEMMA RowTexts ==
  ASSUME IInv, NEW r \in Request
  PROVE  Prompt[r] \in Seq(Token) /\ Prompt[r] # <<>> /\ tokens[r] \in Seq(Token)
<1>1. Prompt[r] \in Seq(Token) /\ 1 <= Len(Prompt[r])
  BY EngineAssumption
<1>2. Len(<<>>) = 0
  OBVIOUS
<1>3. Prompt[r] # <<>>
  BY <1>1, <1>2
<1> QED
  BY <1>1, <1>3 DEF IInv, RowTypes

\* A token is read, or passed over because its request has ended.
LEMMA ReadsAhead ==
  ASSUME IInv, IInv', ReadInv, AheadInv, SkipToken \/ ReadToken
  PROVE  AheadInv'
<1>1. /\ pc \in {"read", "growread"} /\ pc' = pc /\ reading # <<>> /\ reading' = Tail(reading)
      /\ UNCHANGED <<queued, ahead>>
  BY DEF SkipToken, ReadToken, Reading, At
<1>2. Due = <<>> /\ Due' = <<>>
  BY <1>1 DEF Due
<1>3. OncePerPass(reading)
  BY DEF ReadInv, DrawsInPlace
<1>4. \A q \in Request : /\ Unread(q)' <= Unread(q)
                         /\ q = Head(reading).req => Unread(q) = Unread(q)' + 1
  BY <1>1, <1>2, <1>3, OneReadLess
<1>5. pc' # "read" => ahead' = 0
  BY <1>1 DEF AheadInv, Trail
<1>6. CASE SkipToken
  <2>1. UNCHANGED <<tokens, reason>>
    BY <1>6 DEF SkipToken, requestVars
  <2>2. Budgets'
    BY <1>4, <2>1, BudgetsKept DEF AheadInv
  <2>3. Trail'
    BY <1>1, <1>5, <2>1, TrailStays DEF AheadInv
  <2> QED
    BY <2>2, <2>3 DEF AheadInv
<1>7. CASE ReadToken
  <2>1. PICK it \in Draw, r \in Request, text \in Seq(Token) :
           /\ it = Head(reading) /\ r = it.req /\ text = Append(tokens[r], it.token)
           /\ it.token \in Token /\ reason[r] = ""
           /\ tokens' = [tokens EXCEPT ![r] = text]
           /\ reason' = [reason EXCEPT
                           ![r] = FinishReason(r, text, Len(Prompt[r]) + Len(text) - 1)]
    BY <1>7, TokenRead
  <2>2. /\ tokens'[r] = text /\ \A q \in Request \ {r} : tokens'[q] = tokens[q]
        /\ reason'[r] = FinishReason(r, text, Len(Prompt[r]) + Len(text) - 1)
        /\ \A q \in Request \ {r} : reason'[q] = reason[q]
    BY <2>1 DEF IInv, RowTypes
  <2>3. \A q \in Request : reason'[q] = "" => reason[q] = ""
    BY <2>1, <2>2
  <2>4. ASSUME NEW q \in Request \ {r}, reason'[q] = ""
        PROVE  HasRoom(q)'
    <3>1. HasRoom(q) /\ tokens'[q] = tokens[q]
      BY <2>2, <2>3, <2>4 DEF AheadInv, Budgets
    <3> QED
      BY <3>1, <1>4, RoomKept
  <2>5. ASSUME reason'[r] = ""
        PROVE  HasRoom(r)'
    <3>1. /\ Prompt[r] \in Seq(Token) /\ Prompt[r] # <<>> /\ tokens[r] \in Seq(Token)
          /\ text = Append(tokens[r], it.token) /\ it.token \in Token
      BY <2>1, RowTexts
    <3>2. /\ Len(text) = Len(tokens[r]) + 1 /\ text \in Seq(Token) /\ Len(text) \in Nat
          /\ Len(Prompt[r]) \in Nat \ {0} /\ Len(tokens[r]) \in Nat
          /\ Len(Prompt[r]) + Len(text) - 1 \in Nat
          /\ Len(Prompt[r] \o text) = Len(Prompt[r]) + Len(text)
      BY <3>1, TextGrows
    <3>3. FinishReason(r, text, Len(Prompt[r]) + Len(text) - 1) = ""
      BY <2>2, <2>5
    <3>4. Len(text) < MaxNew[r] /\ Len(Prompt[r]) + Len(text) - 1 + 1 < MaxSeq
      <4>1. Len(text) \in Nat /\ Len(Prompt[r]) + Len(text) - 1 \in Nat
        BY <3>2, Zenon
      <4> QED
        BY <4>1, <3>3, GoesOn
    <3>5. MaxNew[r] > 0 => Len(tokens[r]) + Unread(r) <= MaxNew[r]
      BY <2>1 DEF AheadInv, Budgets, HasRoom
    <3>6. Unread(r) = Unread(r)' + 1 /\ Unread(r)' \in Nat /\ Unread(r) \in Nat
          /\ MaxNew[r] \in Nat
      BY <1>4, <2>1, UnreadAfter, BudgetNumbers
    <3>7. Len(Prompt[r]) + Len(text) < MaxSeq /\ Len(text) + Unread(r)' <= MaxNew[r]
      BY <3>2, <3>4, <3>5, <3>6, RoomForNext
    <3>8. PromptOf(r)' = Prompt[r] \o text
      BY <2>2 DEF PromptOf
    <3>9. Len(tokens[r])' = Len(text) /\ Len(PromptOf(r))' = Len(Prompt[r]) + Len(text)
      BY <2>2, <3>2, <3>8
    <3> QED
      BY <3>4, <3>7, <3>9 DEF HasRoom
  <2>6. Budgets'
    BY <2>4, <2>5 DEF Budgets
  <2>7. Trail'
    BY <1>1, <1>5, <2>3, TrailStays DEF AheadInv
  <2> QED
    BY <2>6, <2>7 DEF AheadInv
<1> QED
  BY <1>6, <1>7

\* The reading of a step ends: no more passes are queued than are to be.
LEMMA ReadDoneAhead ==
  ASSUME IInv, IInv', AheadInv, ReadDone
  PROVE  AheadInv'
<1>1. /\ pc \in {"read", "growread"} /\ pc' \in {"idle", "grow"} /\ Len(queued) <= ahead
      /\ ahead' = 0 /\ UNCHANGED <<queued, reading, tokens, reason>>
  BY DEF ReadDone, Reading, At, Goto, requestVars
<1>2. Due' = Due
  BY <1>1 DEF Due
<1>3. \A r \in Request : Unread(r)' <= Unread(r)
  BY <1>1, <1>2, UnreadStays
<1>4. Budgets'
  BY <1>1, <1>3, BudgetsKept DEF AheadInv
<1>5. Trail'
  <2>1. PICK n \in Nat : n = Len(queued)
    BY DEF IInv, PassTypes
  <2>2. ahead \in 0..2 /\ (pc # "read" => ahead = 0)
    BY DEF AheadInv, Trail
  <2>3. ASSUME NEW i \in 1..n, NEW j \in 1..n, i < j
        PROVE  j = n /\ i + 1 = j /\ ahead = 2
    BY <2>1, <2>2, <2>3, <1>1
  <2>4. ASSUME NEW i \in 1..n, NEW j \in 1..n, i < j
        PROVE  Apart(queued[i], queued[j])'
    <3>1. Apart(queued[i], queued[j])
      BY <2>1, <2>3, <2>4 DEF AheadInv, Trail
    <3> QED
      BY <3>1, <1>1 DEF Apart
  <2>5. \A i, j \in 1..Len(queued') : i < j => Apart(queued[i], queued[j])'
    BY <2>1, <2>4, <1>1
  <2>6. ahead' \in 0..2 /\ (pc' # "read" => ahead' = 0)
    BY <1>1
  <2> QED
    BY <2>5, <2>6 DEF Trail
<1> QED
  BY <1>4, <1>5 DEF AheadInv

\* A part of what keeps within a bound does.
LEMMA PartWithin ==
  ASSUME NEW m \in Nat, NEW n \in Nat, NEW p \in Nat, NEW u \in Nat, NEW v \in Nat, NEW w,
         w = p + u + v, m > 0 => n + w <= m
  PROVE  m > 0 => n + p <= m
OBVIOUS

\* Every step keeps to the budgets.
LEMMA AheadNext ==
  ASSUME IInv, IInv', ReadInv, PiecesApart, AheadInv, [Next]_vars
  PROVE  AheadInv'
<1>1. CASE Quiet /\ ~ReadDone
  BY <1>1, QuietAhead
<1>2. CASE ReadDone
  BY <1>2, ReadDoneAhead
<1>3. CASE GrowPreempt \/ Bind \/ \E r \in Request : Cancel(r)
  BY <1>3, QuietAhead
<1>4. CASE Reset
  <2>1. /\ queued' = <<>> /\ pc = "idle" /\ pc' = "idle" /\ UNCHANGED <<reading, ahead>>
        /\ tokens' = [r \in Request |-> <<>>]
    BY <1>4 DEF Reset, At
  <2>2. reading = <<>> /\ ahead = 0 /\ Due' = <<>>
    BY <2>1 DEF Due, IInv, DrawsLive, AheadInv, Trail
  <2> QED
    BY <2>1, <2>2, NothingDrawn
<1>5. CASE MixStep \/ DecodeStep
  BY <1>5, StepsAhead
<1>6. CASE PassPiece \/ PassEnd \/ MixPassEnd
  BY <1>6, PassPieceAhead, PassEndAhead, MixPassEndAhead
<1>7. CASE PopPass \/ SkipToken \/ ReadToken
  BY <1>7, PopPassAhead, ReadsAhead
<1>8. CASE UNCHANGED vars
  <2>1. /\ UNCHANGED <<queued, reading, tokens, reason, ahead, pc>> /\ Due' = Due
    BY <1>8 DEF vars, passVars, requestVars, localVars, Due
  <2>2. pc' # "read" => ahead' = 0
    BY <2>1 DEF AheadInv, Trail
  <2> QED
    BY <2>1, <2>2, AheadStays
<1> QED
  BY <1>1, <1>2, <1>3, <1>4, <1>5, <1>6, <1>7, <1>8 DEF Next, Step, Client, Rest, Quiet

\* The budgets hold in every state, and with them that a token of a request at most is
\* drawn and not read between steps, and none past max_new_tokens.
THEOREM TokensInBounds == Spec => [](AheadInv /\ OneAhead)
<1>1. Init /\ IInv => AheadInv
  <2>1. ASSUME NEW r \in Request, Init PROVE HasRoom(r)
    <3>1. Prompt[r] \in Seq(Token) /\ Len(Prompt[r]) < MaxSeq /\ MaxNew[r] \in Nat
      BY EngineAssumption
    <3>2. tokens[r] = <<>> /\ queued = <<>> /\ reading = <<>> /\ Due = <<>>
      BY <2>1 DEF Init, Due
    <3>3. DrawnAt(r, <<>>) = {} /\ ~Drawn(r, <<>>) /\ Cardinality({}) = 0
      BY NoPlaces, FS_EmptySet DEF DrawnAt, Drawn
    <3>4. Unread(r) = 0
      BY <3>2, <3>3 DEF Unread, One
    <3>5. PromptOf(r) = Prompt[r] /\ Len(tokens[r]) = 0
      BY <3>1, <3>2 DEF PromptOf
    <3> QED
      BY <3>1, <3>4, <3>5 DEF HasRoom
  <2>2. Init => ahead \in 0..2 /\ (pc # "read" => ahead = 0) /\ 1..Len(queued) = {}
    <3>1. Init => ahead = 0 /\ queued = <<>>
      BY DEF Init
    <3>2. 0 \in 0..2 /\ 1..Len(<<>>) = {}
      BY NoPlaces
    <3> QED
      BY <3>1, <3>2
  <2>3. Init => Trail
    BY <2>2 DEF Trail
  <2> QED
    BY <2>1, <2>3 DEF AheadInv, Budgets
<1>2. (IInv /\ ReadInv /\ PiecesApart) /\ (IInv /\ ReadInv /\ PiecesApart)' /\ AheadInv
        /\ [Next]_vars => AheadInv'
  BY AheadNext
<1>3. IInv /\ AheadInv => OneAhead
  <2> SUFFICES ASSUME IInv, AheadInv, NEW s \in Slot, rows[s] # None
               PROVE  /\ pc = "idle" => Pending(rows[s]) <= 1
                      /\ MaxNew[rows[s]] > 0 =>
                           Len(tokens[rows[s]]) + Pending(rows[s]) <= MaxNew[rows[s]]
    BY DEF OneAhead
  <2>1. PICK r \in Request : r = rows[s] /\ reason[r] = ""
    <3>1. rows[s] \in Request /\ rows[s] \in Rowed
      BY DEF IInv, RowTypes, Rowed
    <3>2. rows[s] \in Range(seniority)
      BY <3>1 DEF IInv, Admission
    <3>3. reason[rows[s]] = ""
      BY <3>2 DEF IInv, Admission
    <3> QED
      BY <3>1, <3>3
  <2>2. Pending(r) = Cardinality(DrawnAt(r, queued)) /\ queued \in Seq(Seq(Draw))
    BY PendingDrawn DEF IInv, PassTypes
  <2>3. ASSUME pc = "idle" PROVE Pending(r) <= 1
    <3>1. \A i, j \in 1..Len(queued) : i < j => Apart(queued[i], queued[j])
      BY <2>3 DEF AheadInv, Trail
    <3>2. \A i, j \in 1..Len(queued) : i < j => ~(Drawn(r, queued[i]) /\ Drawn(r, queued[j]))
      BY <3>1, <2>1 DEF Apart
    <3> QED
      BY <2>2, <3>2, DrawnOnce
  <2>4. MaxNew[r] > 0 => Len(tokens[r]) + Pending(r) <= MaxNew[r]
    <3>1. MaxNew[r] > 0 => Len(tokens[r]) + Unread(r) <= MaxNew[r]
      BY <2>1 DEF AheadInv, Budgets, HasRoom
    <3>2. /\ Pending(r) \in Nat /\ Len(tokens[r]) \in Nat /\ MaxNew[r] \in Nat
          /\ One(Drawn(r, reading)) \in Nat /\ One(Drawn(r, Due)) \in Nat
      BY PendingDrawn, BudgetNumbers DEF One
    <3>3. Unread(r) = Pending(r) + One(Drawn(r, reading)) + One(Drawn(r, Due))
      BY <2>2 DEF Unread
    <3> QED
      BY <3>1, <3>2, <3>3, PartWithin
  <2> QED
    BY <2>1, <2>3, <2>4
<1> QED
  BY <1>1, <1>2, <1>3, DrawsStand, PTL DEF Spec

-----------------------------------------------------------------------------
(* The prompts' parts: what a step passes fits its pass, and one prompt at    *)
(* most is passed in part.                                                  *)

Size(piece) == piece.stop - piece.start

\* The pieces of a line take n tokens at most: g[i] counts those from the i-th on.
PiecesFit(line, n) ==
  \E g \in [1..(Len(line) + 1) -> Nat] :
    g[1] <= n /\ \A i \in 1..Len(line) : g[i + 1] + Size(line[i]) <= g[i]

\* No piece takes none.
LEMMA NoneFits ==
  ASSUME NEW n \in Nat
  PROVE  PiecesFit(<<>>, n)
<1> DEFINE g == [i \in 1..1 |-> 0]
<1>1. Len(<<>>) = 0 /\ 1..(0 + 1) = 1..1 /\ 1..0 = {} /\ 1 \in 1..1
  OBVIOUS
<1>2. g \in [1..(Len(<<>>) + 1) -> Nat] /\ g[1] <= n /\ 1..Len(<<>>) = {}
  BY <1>1
<1> QED
  BY <1>2 DEF PiecesFit

\* What fits less room fits more.
LEMMA FitsMore ==
  ASSUME NEW line, NEW m \in Nat, NEW n \in Nat, m <= n, PiecesFit(line, m)
  PROVE  PiecesFit(line, n)
<1>1. PICK g \in [1..(Len(line) + 1) -> Nat] :
         g[1] <= m /\ \A i \in 1..Len(line) : g[i + 1] + Size(line[i]) <= g[i]
  BY DEF PiecesFit
<1>2. g[1] \in Int \/ ~(1 \in 1..(Len(line) + 1))
  BY <1>1
<1> QED
  BY <1>1, <1>2 DEF PiecesFit

\* A piece more takes its size more.
LEMMA PieceJoins ==
  ASSUME NEW line \in Seq(Piece), NEW piece \in Piece, NEW n \in Nat, NEW m \in Nat,
         piece.start <= piece.stop, m = n + Size(piece), PiecesFit(line, n)
  PROVE  PiecesFit(Append(line, piece), m)
<1> DEFINE k == Len(line)
           z == Size(piece)
           more == Append(line, piece)
<1>1. PICK g \in [1..(k + 1) -> Nat] :
         g[1] <= n /\ \A i \in 1..k : g[i + 1] + Size(line[i]) <= g[i]
  BY DEF PiecesFit
<1>2. k \in Nat /\ z \in Nat
  BY DEF Piece, Size
<1>3. /\ Len(more) = k + 1 /\ more[k + 1] = piece
      /\ \A i \in 1..k : more[i] = line[i] /\ line[i] \in Piece
  OBVIOUS
<1> DEFINE h == [i \in 1..(k + 1 + 1) |-> IF i = k + 1 + 1 THEN 0 ELSE g[i] + z]
<1> HIDE DEF k, z, more
<1>4. h \in [1..(k + 1 + 1) -> Nat]
  BY <1>1, <1>2
<1>5. h[1] <= m
  BY <1>1, <1>2 DEF z
<1>6. ASSUME NEW i \in 1..(k + 1)
      PROVE  h[i + 1] + Size(more[i]) <= h[i]
  <2>1. CASE i = k + 1
    <3>1. h[i + 1] = 0 /\ h[i] = g[k + 1] + z /\ g[k + 1] \in Nat /\ Size(more[i]) = z
      BY <1>1, <1>2, <1>3, <2>1 DEF z
    <3> QED
      BY <3>1, <1>2
  <2>2. CASE i # k + 1
    <3>1. i \in 1..k /\ i + 1 \in 1..(k + 1) /\ i + 1 # k + 1 + 1
      BY <1>2, <2>2
    <3>2. h[i + 1] = g[i + 1] + z /\ h[i] = g[i] + z /\ g[i + 1] \in Nat /\ g[i] \in Nat
      BY <1>1, <1>2, <3>1
    <3>3. g[i + 1] + Size(line[i]) <= g[i] /\ line[i] \in Piece
      BY <1>1, <1>3, <3>1
    <3>5. Size(line[i]) \in Int
      BY <3>3 DEF Piece, Size
    <3>4. more[i] = line[i]
      BY <1>3, <3>1
    <3> HIDE DEF h
    <3> QED
      BY <1>2, <3>2, <3>3, <3>4, <3>5
  <2> QED
    BY <2>1, <2>2
<1> HIDE DEF h
<1> QED
  BY <1>3, <1>4, <1>5, <1>6 DEF PiecesFit, more

\* The first piece leaves room for the others.
LEMMA PieceLeaves ==
  ASSUME NEW line \in Seq(Piece), line # <<>>, NEW n \in Nat, PiecesFit(line, n)
  PROVE  /\ n - Size(Head(line)) \in Nat
         /\ PiecesFit(Tail(line), n - Size(Head(line)))
<1> DEFINE k == Len(line)
           z == Size(Head(line))
           rest == Tail(line)
<1>1. PICK g \in [1..(k + 1) -> Nat] :
         g[1] <= n /\ \A i \in 1..k : g[i + 1] + Size(line[i]) <= g[i]
  BY DEF PiecesFit
<1>2. /\ k \in Nat \ {0} /\ Head(line) = line[1] /\ line[1] \in Piece
      /\ Len(rest) = k - 1 /\ \A i \in 1..(k - 1) : rest[i] = line[i + 1]
  OBVIOUS
<1>3. z \in Int /\ z = Size(line[1])
  BY <1>2 DEF Piece, Size
<1> DEFINE h == [i \in 1..(k - 1 + 1) |-> g[i + 1]]
<1> HIDE DEF k, z, rest
<1>4. g[1] \in Nat /\ g[1 + 1] \in Nat /\ g[1 + 1] + z <= g[1]
  <2>1. 1 \in 1..(k + 1) /\ 1 + 1 \in 1..(k + 1) /\ 1 \in 1..k
    BY <1>2
  <2> QED
    BY <2>1, <1>1, <1>3
<1>5. n - z \in Nat /\ g[1 + 1] <= n - z
  BY <1>1, <1>3, <1>4
<1>6. h \in [1..(k - 1 + 1) -> Nat] /\ h[1] = g[1 + 1]
  <2>1. \A i \in 1..(k - 1 + 1) : i + 1 \in 1..(k + 1)
    BY <1>2
  <2>2. 1 \in 1..(k - 1 + 1)
    BY <1>2
  <2> QED
    BY <1>1, <2>1, <2>2
<1>7. ASSUME NEW i \in 1..(k - 1)
      PROVE  h[i + 1] + Size(rest[i]) <= h[i]
  <2>1. i + 1 \in 1..k /\ i + 1 \in 1..(k - 1 + 1) /\ i \in 1..(k - 1 + 1)
    BY <1>2
  <2>2. h[i + 1] = g[i + 1 + 1] /\ h[i] = g[i + 1] /\ rest[i] = line[i + 1]
    BY <1>2, <2>1
  <2> QED
    BY <1>1, <2>1, <2>2
<1> HIDE DEF h
<1>8. PiecesFit(rest, n - z)
  BY <1>2, <1>5, <1>6, <1>7 DEF PiecesFit
<1> QED
  BY <1>5, <1>8 DEF z, rest

\* The prompts a step under way has not passed whole.
Unpassed == {r \in Range(filling) \cup Range(placed) : done[r] < Len(PromptOf(r))}

\* A step that carries prompts and rows has room in one pass for its pieces.
RoomLeft ==
  /\ room \in Nat
  /\ pc \in {"chunk", "place", "sharing", "bind"} =>
       /\ Decoding # {} => left # NoLimit
       /\ left # NoLimit => left \in 0..Pack /\ PiecesFit(chunks, Pack - left)
  /\ pc \in {"mix", "mixpass"} => PiecesFit(chunks, room)

\* One prompt is passed in part, the last of the step's.
OnePartial ==
  /\ \A q, r \in Unpassed : q = r
  /\ pc = "chunk" => Len(filling) <= 1 /\ (chunks = <<>> => MayPass)
  /\ pc = "chunk" /\ chunks # <<>> /\ MayPass => Unpassed = {}
  /\ pc \in {"place", "sharing", "bind"} /\ MayPass => Unpassed = {}

FitInv == RoomLeft /\ OnePartial

\* Who decodes depends on the rows and on the tokens drawn.
LEMMA DecodingSame ==
  ASSUME UNCHANGED <<rows, filling, tokens, queued>>
  PROVE  Decoding' = Decoding
BY DEF Decoding, WantsMore, Pending

\* A prompt that passes still was passing before.
LEMMA UnpassedShrinks ==
  ASSUME \A r \in Range(filling') \cup Range(placed') :
            /\ r \in Range(filling) \cup Range(placed)
            /\ done'[r] = done[r] /\ tokens'[r] = tokens[r]
  PROVE  Unpassed' \subseteq Unpassed
<1>1. ASSUME NEW r, tokens'[r] = tokens[r]
      PROVE  PromptOf(r)' = PromptOf(r)
  BY <1>1 DEF PromptOf
<1> QED
  BY <1>1 DEF Unpassed

\* A step that passes no prompt leaves their parts alone.
LEMMA FitStays ==
  ASSUME OnePartial, room' \in Nat, Unpassed' \subseteq Unpassed,
         pc' \notin {"chunk", "place", "sharing", "bind", "mix", "mixpass"}
  PROVE  FitInv'
BY DEF FitInv, RoomLeft, OnePartial

\* So does a step that changes nothing of them.
LEMMA FitSame ==
  ASSUME FitInv, UNCHANGED <<pc, room, left, chunks, filling, placed, done, tokens, rows, queued>>
  PROVE  FitInv'
<1>1. Decoding' = Decoding
  BY DecodingSame
<1>2. Unpassed' = Unpassed
  BY DEF Unpassed, PromptOf
<1>3. MayPass' = MayPass
  BY DEF MayPass
<1> QED
  BY <1>1, <1>2, <1>3 DEF FitInv, RoomLeft, OnePartial

\* From the pieces of the prompts that pass on to those placed.
LEMMA FitGoesOn ==
  ASSUME FitInv, pc \in {"chunk", "place", "sharing", "bind"}, pc' \in {"place", "sharing", "bind"},
         UNCHANGED <<left, chunks, room>>, Decoding' = Decoding, Unpassed' \subseteq Unpassed,
         pc = "chunk" /\ MayPass => Unpassed = {}
  PROVE  FitInv'
<1>1. MayPass' = MayPass
  BY DEF MayPass
<1>2. RoomLeft'
  BY DEF FitInv, RoomLeft
<1>3. MayPass' => Unpassed' = {}
  BY <1>1 DEF FitInv, OnePartial
<1>4. OnePartial'
  BY <1>3 DEF FitInv, OnePartial
<1> QED
  BY <1>2, <1>4 DEF FitInv

\* The steps that pass no prompt.
LEMMA OthersFit ==
  ASSUME IInv, ReadInv, FitInv,
         \/ \E r \in Request : Submit(r)
         \/ LoadWeights \/ Reset \/ BeginStep \/ GiveBackPage
         \/ GrowRead \/ GrowTake \/ PassEnd \/ PassesDone \/ MixPassEnd
         \/ DecodeStep \/ DecodeNone \/ PopPass \/ SkipToken \/ ReadDone
         \/ ShareFound \/ TakeOwn \/ UNCHANGED vars
  PROVE  FitInv'
<1> DEFINE Kept == UNCHANGED <<filling, placed, done, tokens>>
           Out  == pc' \notin {"chunk", "place", "sharing", "bind", "mix", "mixpass"}
           Same == UNCHANGED <<pc, room, left, chunks, filling, placed, done, tokens, rows, queued>>
<1>1. ASSUME Kept, Out, room' = room PROVE FitInv'
  <2>1. Unpassed' \subseteq Unpassed
    BY <1>1, UnpassedShrinks
  <2> QED
    BY <1>1, <2>1, FitStays DEF FitInv, RoomLeft
<1> USE DEF At, Goto
<1>2. ASSUME NEW r \in Request, Submit(r) PROVE Kept /\ Out /\ room' = room
  BY <1>2 DEF Submit, rowVars, localVars
<1>3. ASSUME LoadWeights PROVE Kept /\ Out /\ room' = room
  BY <1>3 DEF LoadWeights, requestVars, rowVars, localVars
<1>4. ASSUME Reset PROVE FitInv'
  <2>1. filling' = <<>> /\ placed' = placed /\ room' = room /\ pc = "idle" /\ pc' = "idle"
    BY <1>4 DEF Reset, localVars
  <2>2. placed = <<>> /\ Range(<<>>) = {}
    BY <2>1, EmptyLine DEF IInv, Placement, Placing
  <2>3. Unpassed' \subseteq Unpassed
    BY <2>1, <2>2 DEF Unpassed
  <2> QED
    BY <2>1, <2>3, FitStays DEF FitInv, RoomLeft
<1>5. ASSUME BeginStep PROVE Kept /\ Out /\ room' = room
  BY <1>5 DEF BeginStep, requestVars, rowVars, localVars
<1>6. ASSUME GiveBackPage PROVE Same
  BY <1>6 DEF GiveBackPage, requestVars, passVars, localVars
<1>7. ASSUME GrowRead PROVE Kept /\ Out /\ room' = room
  BY <1>7 DEF GrowRead, requestVars, rowVars, localVars
<1>8. ASSUME GrowTake PROVE Kept /\ Out /\ room' = room
  BY <1>8 DEF GrowTake, requestVars, localVars
<1>9. ASSUME PassEnd PROVE FitInv'
  <2>1. Kept /\ Out /\ room' = Pack
    BY <1>9 DEF PassEnd, requestVars, rowVars
  <2>2. room' \in Nat
    BY <2>1, EngineAssumption
  <2>3. Unpassed' \subseteq Unpassed
    BY <2>1, UnpassedShrinks
  <2> QED
    BY <2>1, <2>2, <2>3, FitStays DEF FitInv
<1>10. ASSUME PassesDone PROVE Kept /\ Out /\ room' = room
  BY <1>10 DEF PassesDone, requestVars, rowVars, localVars
<1>11. ASSUME MixPassEnd PROVE Kept /\ Out /\ room' = room
  BY <1>11 DEF MixPassEnd, requestVars, rowVars
<1>12. ASSUME DecodeStep PROVE Kept /\ Out /\ room' = room
  BY <1>12 DEF DecodeStep, requestVars, localVars
<1>13. ASSUME DecodeNone PROVE Kept /\ Out /\ room' = room
  BY <1>13 DEF DecodeNone, requestVars, rowVars, localVars
<1>14. ASSUME PopPass PROVE Kept /\ Out /\ room' = room
  BY <1>14 DEF PopPass, Reading, requestVars, rowVars, localVars
<1>15. ASSUME SkipToken PROVE Kept /\ Out /\ room' = room
  BY <1>15 DEF SkipToken, Reading, requestVars, rowVars, localVars
<1>16. ASSUME ReadDone PROVE Kept /\ Out /\ room' = room
  BY <1>16 DEF ReadDone, Reading, requestVars, rowVars
<1>17. ASSUME ShareFound PROVE Same
  BY <1>17 DEF ShareFound, requestVars, passVars
<1>18. ASSUME TakeOwn PROVE Same
  BY <1>18 DEF TakeOwn, requestVars, passVars, localVars
<1>19. ASSUME UNCHANGED vars PROVE Same
  BY <1>19 DEF vars, requestVars, rowVars, passVars, localVars
<1>20. ASSUME Same PROVE FitInv'
  BY <1>20, FitSame
<1> HIDE DEF Kept, Out, Same
<1> QED
  BY <1>1, <1>2, <1>3, <1>4, <1>5, <1>6, <1>7, <1>8, <1>9, <1>10, <1>11, <1>12, <1>13, <1>14,
     <1>15, <1>16, <1>17, <1>18, <1>19, <1>20

\* A row is freed: its prompt passes no more.
LEMMA ReleaseFits ==
  ASSUME IInv, FitInv, NEW r \in Rowed, NEW text, Release(r, text), pc' = pc,
         pc \in {"idle", "grow", "read", "growread"},
         UNCHANGED <<placed, room>>, \A q \in Range(filling) \ {r} : tokens'[q] = tokens[q]
  PROVE  FitInv'
<1>1. Range(filling') = Range(filling) \ {r} /\ r \in Request
  BY FreedRow
<1>2. placed = <<>> /\ Range(<<>>) = {}
  BY EmptyLine DEF IInv, Placement, Placing
<1>3. done' = [done EXCEPT ![r] = 0] /\ done \in [Request -> Nat] /\ filling \in Seq(Request)
  BY DEF Release, IInv, RowTypes
<1>4. \A q \in Range(filling) \ {r} : done'[q] = done[q]
  <2>1. Range(filling) \subseteq Request
    BY <1>3, RangeOfLine
  <2> QED
    BY <2>1, <1>3
<1>5. Unpassed' \subseteq Unpassed
  BY <1>1, <1>2, <1>4, UnpassedShrinks
<1> QED
  BY <1>5, FitStays DEF FitInv, RoomLeft

\* A request cancelled, preempted or at its end passes no more.
LEMMA EndsFit ==
  ASSUME IInv, ReadInv, FitInv,
         (\E r \in Request : Cancel(r)) \/ GrowPreempt \/ ReadToken
  PROVE  FitInv'
<1>1. ASSUME NEW r \in Request, Cancel(r) PROVE FitInv'
  <2>1. pc = "idle" /\ pc' = pc /\ UNCHANGED <<placed, room, tokens>>
        /\ (CancelWaiting(r) \/ CancelRow(r))
    BY <1>1 DEF Cancel, At, localVars
  <2>2. CASE CancelWaiting(r)
    <3>1. UNCHANGED <<filling, done>>
      BY <2>2 DEF CancelWaiting, rowVars
    <3>2. Unpassed' \subseteq Unpassed
      BY <2>1, <3>1, UnpassedShrinks
    <3> QED
      BY <2>1, <3>2, FitStays DEF FitInv, RoomLeft
  <2>3. CASE CancelRow(r)
    <3>1. r \in Rowed /\ Release(r, PromptOf(r))
      BY <2>3, EngineAssumption DEF CancelRow, Rowed
    <3> QED
      BY <2>1, <3>1, ReleaseFits
  <2> QED
    BY <2>1, <2>2, <2>3
<1>2. CASE GrowPreempt
  <2>1. /\ pc = "grow" /\ pc' = pc /\ short /\ UNCHANGED <<placed, room, tokens>>
        /\ Release(Victim, PromptOf(Victim))
    BY <1>2 DEF GrowPreempt, At, requestVars, localVars
  <2>2. Victim \in Rowed
    BY <2>1, VictimInRow
  <2> QED
    BY <2>1, <2>2, ReleaseFits
<1>3. CASE ReadToken
  <2>1. PICK it \in Draw, r \in Request, text \in Seq(Token) :
           /\ r \in Rowed \ Range(filling) /\ tokens' = [tokens EXCEPT ![r] = text]
           /\ IF reason'[r] # "" THEN Release(r, Prompt[r] \o text)
                                 ELSE UNCHANGED <<poolVars, rowVars>>
    BY <1>3, TokenRead
  <2>2. pc \in {"read", "growread"} /\ pc' = pc /\ UNCHANGED <<placed, room>>
    BY <1>3 DEF ReadToken, Reading, At, localVars
  <2>3. \A q \in Range(filling) : tokens'[q] = tokens[q]
    <3>1. Range(filling) \subseteq Request /\ tokens \in [Request -> Seq(Token)]
      BY RangeOfLine DEF IInv, RowTypes
    <3> QED
      BY <2>1, <3>1
  <2>4. CASE Release(r, Prompt[r] \o text)
    BY <2>1, <2>2, <2>3, <2>4, ReleaseFits
  <2>5. CASE UNCHANGED <<poolVars, rowVars>>
    <3>1. UNCHANGED <<filling, done>> /\ placed = <<>> /\ Range(<<>>) = {}
      BY <2>2, <2>5, EmptyLine DEF rowVars, IInv, Placement, Placing
    <3>2. Unpassed' \subseteq Unpassed
      BY <2>2, <2>3, <3>1, UnpassedShrinks
    <3> QED
      BY <2>2, <3>2, FitStays DEF FitInv, RoomLeft
  <2> QED
    BY <2>1, <2>4, <2>5
<1> QED
  BY <1>1, <1>2, <1>3

\* At most one place, at most one element.
LEMMA OneElement ==
  ASSUME NEW S, NEW seq \in Seq(S), Once(seq), \A q, r \in Range(seq) : q = r
  PROVE  Len(seq) <= 1
<1>1. \A i \in 1..Len(seq) : seq[i] \in Range(seq)
  BY RangeOfLine
<1>2. \A i, j \in 1..Len(seq) : i = j
  BY <1>1, OnceOfLine
<1>3. Len(seq) \in Nat
  OBVIOUS
<1> QED
  BY <1>2, <1>3

\* Between the passes of prompts every prompt that passes has more to pass, so there
\* is one at most.
LEMMA OnlyOneFills ==
  ASSUME IInv, FitInv, pc \notin Passing
  PROVE  Len(filling) <= 1
<1>1. \A r \in Range(filling) : r \in Unpassed
  BY DEF IInv, FillingHold, Unpassed
<1>2. \A q, r \in Range(filling) : q = r
  BY <1>1 DEF FitInv, OnePartial
<1>3. filling \in Seq(Request) /\ Once(filling)
  BY DEF IInv, RowTypes, Admission
<1> QED
  BY <1>2, <1>3, OneElement

\* A step begins to pass prompts, with `left` tokens to pass.
LEMMA GrowDoneFits ==
  ASSUME IInv, FitInv, GrowDone
  PROVE  FitInv'
<1>1. /\ pc = "grow" /\ pc' = "chunk" /\ chunks' = <<>>
      /\ left' = IF Decoding # {} THEN Chunk ELSE NoLimit
      /\ UNCHANGED <<room, placed, filling, rows, tokens, queued, done>>
  BY DEF GrowDone, At, Goto, requestVars, rowVars, passVars
<1>2. Decoding' = Decoding
  BY <1>1, DecodingSame
<1>3. Len(filling) <= 1
  BY <1>1, OnlyOneFills DEF Passing
<1>4. Chunk \in 1..Pack /\ Pack \in Nat /\ Chunk \in 0..Pack /\ Pack - Chunk \in Nat /\ Chunk > 0
      /\ NoLimit = -1 /\ Chunk # NoLimit
  BY EngineAssumption DEF NoLimit
<1>5. PiecesFit(<<>>, Pack - Chunk)
  BY <1>4, NoneFits
<1>6. /\ Decoding' # {} => left' # NoLimit
      /\ left' # NoLimit => left' = Chunk
  BY <1>1, <1>2, <1>4
<1>7. left' # NoLimit => left' \in 0..Pack /\ PiecesFit(chunks', Pack - left')
  BY <1>1, <1>4, <1>5, <1>6
<1>8. RoomLeft'
  BY <1>1, <1>6, <1>7 DEF RoomLeft, FitInv
<1>9. MayPass' /\ Unpassed' \subseteq Unpassed
  <2>1. MayPass'
    BY <1>4, <1>6 DEF MayPass
  <2> QED
    BY <2>1, <1>1, UnpassedShrinks
<1>10. OnePartial'
  BY <1>1, <1>3, <1>9 DEF OnePartial, FitInv
<1> QED
  BY <1>8, <1>10 DEF FitInv

\* The next piece of a prompt: the last of the prompt, or of the step.
LEMMA PieceSpends ==
  ASSUME IInv, RoomLeft, pc \in {"chunk", "place", "sharing", "bind"}, NEW r \in Request,
         MayPass, done[r] < Len(PromptOf(r)), TakeChunk(r)
  PROVE  /\ left = NoLimit <=> left' = NoLimit
         /\ left' # NoLimit => left' \in 0..Pack /\ PiecesFit(chunks', Pack - left')
         /\ done'[r] = Len(PromptOf(r)) \/ (left' # NoLimit /\ ~(left' > 0))
         /\ \A q \in Request \ {r} : done'[q] = done[q]
<1> DEFINE d == done[r]
           l == Len(PromptOf(r))
           end == ChunkEnd(r)
           piece == [req |-> r, start |-> done[r], stop |-> end]
<1>1. /\ chunks' = Append(chunks, piece)
      /\ done' = [done EXCEPT ![r] = end]
      /\ left' = IF left = NoLimit THEN NoLimit ELSE left - (end - d)
      /\ end = IF left = NoLimit THEN l ELSE IF l <= d + left THEN l ELSE d + left
  BY DEF TakeChunk, ChunkEnd, Smaller
<1>2. d \in Nat /\ l \in Nat /\ d < l /\ done \in [Request -> Nat] /\ chunks \in Seq(Piece)
  BY TextOfRequest DEF IInv, RowTypes, PassTypes
<1>3. left = NoLimit \/ left > 0
  BY DEF MayPass
<1>4. /\ left # NoLimit => left \in 0..Pack /\ PiecesFit(chunks, Pack - left)
      /\ Pack \in Nat /\ NoLimit = -1
  BY EngineAssumption DEF RoomLeft, NoLimit
<1>5. done'[r] = end /\ \A q \in Request \ {r} : done'[q] = done[q]
  BY <1>1, <1>2
<1> HIDE DEF d, l, end
<1>6. CASE left = NoLimit
  <2>1. end = l /\ left' = NoLimit
    BY <1>1, <1>6
  <2> QED
    BY <2>1, <1>5, <1>6 DEF l
<1>7. CASE left # NoLimit
  <2>1. left \in 0..Pack /\ left > 0
    BY <1>3, <1>4, <1>7
  <2>2. /\ end \in Nat /\ d <= end /\ left' = left - (end - d) /\ left' \in 0..Pack
        /\ left' # NoLimit /\ Pack - left \in Nat /\ Pack - left' \in Nat
        /\ Pack - left' = Pack - left + (end - d)
        /\ end = l \/ left' = 0
    BY <1>1, <1>2, <1>4, <1>7, <2>1
  <2>3. piece \in Piece /\ Size(piece) = end - d /\ piece.start <= piece.stop
    BY <1>2, <2>2 DEF Piece, Size, d
  <2> HIDE DEF piece
  <2>4. PiecesFit(chunks', Pack - left')
    <3>1. PiecesFit(chunks, Pack - left)
      BY <1>4, <1>7
    <3>2. PiecesFit(Append(chunks, piece), Pack - left')
      BY <1>2, <2>2, <2>3, <3>1, PieceJoins
    <3> QED
      BY <3>2, <1>1
  <2>5. done'[r] = l \/ (left' # NoLimit /\ ~(left' > 0))
    BY <1>5, <2>2
  <2> QED
    BY <1>5, <1>7, <2>2, <2>4, <2>5 DEF l
<1> QED
  BY <1>6, <1>7

\* The piece of a prompt taken leaves it unpassed only when no more may pass.
LEMMA PieceTaken ==
  ASSUME IInv, FitInv, pc \in {"chunk", "place", "sharing", "bind"}, NEW r \in Request,
         MayPass, done[r] < Len(PromptOf(r)), TakeChunk(r), Unpassed \subseteq {r},
         pc' \in {"chunk", "place", "sharing", "bind"},
         UNCHANGED <<room, rows, filling, tokens, queued>>,
         Range(filling') \cup Range(placed') \subseteq Range(filling) \cup Range(placed) \cup {r}
  PROVE  /\ RoomLeft' /\ Unpassed' \subseteq {r} /\ (MayPass' => Unpassed' = {})
<1>1. /\ left = NoLimit <=> left' = NoLimit
      /\ left' # NoLimit => left' \in 0..Pack /\ PiecesFit(chunks', Pack - left')
      /\ done'[r] = Len(PromptOf(r)) \/ (left' # NoLimit /\ ~(left' > 0))
      /\ \A q \in Request \ {r} : done'[q] = done[q]
  BY PieceSpends DEF FitInv
<1>2. Decoding' = Decoding
  BY DecodingSame
<1>3. RoomLeft'
  BY <1>1, <1>2 DEF FitInv, RoomLeft
<1>4. Range(filling) \cup Range(placed) \subseteq Request
  BY RangeOfLine DEF IInv, RowTypes
<1>5. \A q \in Request : PromptOf(q)' = PromptOf(q)
  BY DEF PromptOf
<1>6. Unpassed' \subseteq {r}
  <2>1. ASSUME NEW q \in Unpassed', q # r PROVE FALSE
    <3>1. q \in Range(filling) \cup Range(placed) /\ q \in Request \ {r}
          /\ done'[q] < Len(PromptOf(q)')
      BY <2>1, <1>4 DEF Unpassed
    <3>2. q \in Unpassed
      BY <3>1, <1>1, <1>5 DEF Unpassed
    <3> QED
      BY <3>2, <2>1
  <2> QED
    BY <2>1
<1>7. ASSUME MayPass' PROVE Unpassed' = {}
  <2>1. left' = NoLimit \/ left' > 0
    BY <1>7 DEF MayPass
  <2>2. done'[r] = Len(PromptOf(r)) /\ Len(PromptOf(r)) \in Nat
    BY <1>1, <2>1, TextOfRequest DEF IInv
  <2>3. ~(done'[r] < Len(PromptOf(r)'))
    BY <1>5, <2>2
  <2>4. r \notin Unpassed'
    BY <2>3 DEF Unpassed
  <2> QED
    BY <1>6, <2>4
<1> QED
  BY <1>3, <1>6, <1>7

\* Below one there is none.
LEMMA OnlyPlace ==
  ASSUME NEW m \in Nat, NEW n \in Nat, m < n, n <= 1
  PROVE  m = 0 /\ n = 1 /\ m + 1 = 1 /\ 1..m = {}
OBVIOUS

\* The pieces of the prompts that pass, in a step under way.
LEMMA ChunkFits ==
  ASSUME IInv, FitInv, ChunkFilling \/ ChunkDone
  PROVE  FitInv'
<1>1. pc = "chunk" /\ placed = <<>> /\ Range(<<>>) = {} /\ Len(filling) <= 1
  <2>1. pc = "chunk"
    BY DEF ChunkFilling, ChunkDone, At
  <2> QED
    BY <2>1, EmptyLine DEF IInv, Placement, Placing, FitInv, OnePartial
<1>2. filling \in Seq(Request) /\ chunks \in Seq(Piece) /\ Len(filling) \in Nat /\ Len(chunks) \in Nat
  <2>1. filling \in Seq(Request) /\ chunks \in Seq(Piece)
    BY DEF IInv, RowTypes, PassTypes
  <2> QED
    BY <2>1
<1>3. CASE ChunkFilling
  <2> DEFINE r == filling[Len(chunks) + 1]
  <2>1. /\ MayPass /\ Len(chunks) < Len(filling) /\ TakeChunk(r) /\ pc' = pc
        /\ UNCHANGED <<rows, filling, placed, tokens, queued, room>>
    BY <1>3 DEF ChunkFilling, requestVars, passVars
  <2>2. Len(chunks) = 0 /\ Len(filling) = 1 /\ r = filling[1] /\ r \in Request
        /\ 1..Len(chunks) = {}
    <3>1. Len(chunks) < Len(filling) /\ Len(filling) <= 1
      BY <1>1, <2>1
    <3>2. Len(chunks) = 0 /\ Len(filling) = 1 /\ Len(chunks) + 1 = 1 /\ 1..Len(chunks) = {}
      BY <1>2, <3>1, OnlyPlace
    <3>3. r = filling[1]
      BY <3>2
    <3>4. filling[1] \in Request
      BY <1>2, <3>2
    <3> QED
      BY <3>2, <3>3, <3>4
  <2>3. Range(filling) = {r}
    <3>1. \A i \in 1..Len(filling) : i = 1
      BY <2>2
    <3>2. DOMAIN filling = 1..Len(filling) /\ 1 \in 1..Len(filling)
      BY <1>2, <2>2
    <3> QED
      BY <2>2, <3>1, <3>2 DEF Range
  <2> HIDE DEF r
  <2>4. done[r] < Len(PromptOf(r))
    <3>1. r \in Range(filling) \cup Range(placed)
      BY <2>3
    <3>2. \/ done[r] < Len(PromptOf(r))
          \/ \E i \in 1..Len(chunks) : chunks[i].req = r /\ chunks[i].stop = Len(PromptOf(r))
      BY <3>1 DEF IInv, FillingHold
    <3> QED
      BY <3>2, <2>2
  <2>5. Unpassed \subseteq {r}
    BY <1>1, <2>3 DEF Unpassed
  <2>6. RoomLeft' /\ Unpassed' \subseteq {r} /\ (MayPass' => Unpassed' = {})
    BY <1>1, <2>1, <2>2, <2>4, <2>5, PieceTaken
  <2>7. chunks' # <<>>
    <3>1. \E piece : chunks' = Append(chunks, piece)
      BY <2>1 DEF TakeChunk
    <3> QED
      BY <3>1, <1>2
  <2> QED
    BY <1>1, <2>1, <2>6, <2>7 DEF FitInv, OnePartial
<1>4. CASE ChunkDone
  <2>1. /\ ~MayPass \/ Len(chunks) = Len(filling)
        /\ pc' = "place" /\ UNCHANGED <<left, chunks, room, rows, filling, placed, done, tokens, queued>>
    BY <1>4 DEF ChunkDone, Goto, requestVars, rowVars, passVars, localVars
  <2>2. ASSUME MayPass PROVE Unpassed = {}
    <3>1. CASE chunks = <<>>
      <4>1. Len(filling) = 0
        BY <2>1, <2>2, <3>1
      <4>2. filling = <<>>
        BY <4>1, <1>2
      <4> QED
        BY <1>1, <4>2 DEF Unpassed
    <3>2. CASE chunks # <<>>
      BY <1>1, <2>2, <3>2 DEF FitInv, OnePartial
    <3> QED
      BY <3>1, <3>2
  <2>3. Decoding' = Decoding /\ Unpassed' \subseteq Unpassed
    BY <2>1, DecodingSame, UnpassedShrinks
  <2> QED
    BY <1>1, <2>1, <2>2, <2>3, FitGoesOn
<1> QED
  BY <1>3, <1>4

\* A request placed is the last the step passes, unless all of its prompt passes.
LEMMA PlaceFits ==
  ASSUME IInv, FitInv, PlaceStart \/ PlaceDone \/ PlaceStop
  PROVE  FitInv'
<1>1. CASE PlaceStart
  <2>1. /\ pc = "place" /\ pc' = "sharing" /\ waiting # <<>>
        /\ done' = [done EXCEPT ![Head(waiting)] = Len(CachedStart(Head(waiting))) * PageSize]
        /\ UNCHANGED <<left, chunks, room, rows, filling, placed, tokens, queued>>
    BY <1>1 DEF PlaceStart, MayPlace, At, Goto, requestVars, passVars
  <2>2. Head(waiting) \in Range(waiting) /\ done \in [Request -> Nat]
    BY <2>1, TailOnce DEF IInv, RowTypes
  <2>3. ASSUME NEW q \in Range(filling) \cup Range(placed)
        PROVE  done'[q] = done[q]
    <3>1. q \in Range(seniority) /\ q \in Request
      BY RangeOfLine DEF IInv, Admission, RowTypes
    <3>2. q # Head(waiting)
      BY <3>1, <2>2 DEF IInv, Admission
    <3> QED
      BY <2>1, <2>2, <3>1, <3>2
  <2>4. Decoding' = Decoding /\ Unpassed' \subseteq Unpassed
    BY <2>1, <2>3, DecodingSame, UnpassedShrinks
  <2> QED
    BY <2>1, <2>4, FitGoesOn
<1>2. CASE PlaceStop
  <2>1. /\ pc = "place" /\ pc' = "bind"
        /\ UNCHANGED <<left, chunks, room, rows, filling, placed, done, tokens, queued>>
    BY <1>2 DEF PlaceStop, At, Goto, requestVars, rowVars, passVars, localVars
  <2>2. Decoding' = Decoding /\ Unpassed' \subseteq Unpassed
    BY <2>1, DecodingSame, UnpassedShrinks
  <2> QED
    BY <2>1, <2>2, FitGoesOn
<1>3. CASE PlaceDone
  <2> DEFINE r == Head(waiting)
  <2>1. /\ pc = "sharing" /\ pc' = "place" /\ TakeChunk(r) /\ placed' = Append(placed, r)
        /\ UNCHANGED <<room, rows, filling, tokens, queued>>
    BY <1>3 DEF PlaceDone, At, Goto, requestVars, passVars
  <2>2. waiting # <<>> /\ MayPass /\ done[r] < Len(PromptOf(r))
    BY <2>1 DEF IInv, Placement
  <2>3. r \in Request /\ placed \in Seq(Request)
    <3>1. r \in Range(waiting) /\ Range(waiting) \subseteq Request
      BY <2>2, TailOnce, RangeOfLine DEF IInv, RowTypes
    <3> QED
      BY <3>1 DEF IInv, RowTypes
  <2> HIDE DEF r
  <2>4. Range(placed') = Range(placed) \cup {r}
    BY <2>1, <2>3, AppendOnce
  <2>5. Unpassed = {}
    BY <2>1, <2>2 DEF FitInv, OnePartial
  <2>6. RoomLeft' /\ Unpassed' \subseteq {r} /\ (MayPass' => Unpassed' = {})
    BY <2>1, <2>2, <2>3, <2>4, <2>5, PieceTaken
  <2> QED
    BY <2>1, <2>6 DEF FitInv, OnePartial
<1> QED
  BY <1>1, <1>2, <1>3

\* A request bound was placed; it does not decode.
LEMMA BindFits ==
  ASSUME IInv, FitInv, Bind \/ BindDone
  PROVE  FitInv'
<1>1. CASE Bind
  <2> DEFINE r == placed[Shortest]
             s == Min(FreeSlots)
  <2>1. /\ pc = "bind" /\ pc' = "bind" /\ placed # <<>>
        /\ UNCHANGED <<left, chunks, room, tokens, queued, done>>
        /\ rows' = [rows EXCEPT ![s] = r] /\ filling' = Append(filling, r)
        /\ placed' = RemoveAt(placed, Shortest)
    BY <1>1 DEF Bind, At, passVars, requestVars
  <2>2. /\ placed \in Seq(Request) /\ Once(placed) /\ Shortest \in 1..Len(placed)
        /\ r \in Range(placed) /\ r \in Request /\ s \in Slot /\ rows[s] = None
    BY <2>1, BoundSlot
  <2>3. placed' = Without(placed, r)
    BY <2>1, <2>2, RemoveAtOnce
  <2> HIDE DEF r, s
  <2>4. Range(placed') = Range(placed) \ {r} /\ Range(filling') = Range(filling) \cup {r}
    <3>1. placed \in Seq(Request) /\ Once(placed) /\ r \in Request
      BY <2>2
    <3>2. filling \in Seq(Request)
      BY DEF IInv, RowTypes
    <3>3. Range(placed') = Range(placed) \ {r}
      BY <2>3, <3>1, WithoutOnce
    <3>4. Range(filling') = Range(filling) \cup {r}
      BY <2>1, <3>1, <3>2, AppendOnce
    <3> QED
      BY <3>3, <3>4
  <2>5. Unpassed' \subseteq Unpassed
    BY <2>1, <2>2, <2>4, UnpassedShrinks
  <2>6. Decoding' = Decoding
    <3>1. rows'[s] = r /\ \A t \in Slot \ {s} : rows'[t] = rows[t] /\ (rows[t] # r \/ rows[t] = None)
      <4>1. rows \in [Slot -> Request \cup {None}]
        BY DEF IInv, RowTypes
      <4>2. r \notin Rowed
        BY <2>2 DEF IInv, Admission
      <4>3. \A t \in Slot : rows[t] # r \/ rows[t] = None
        BY <4>2 DEF Rowed
      <4> QED
        BY <2>1, <2>2, <4>1, <4>3
    <3>2. \A t \in Slot \ {s} : rows'[t] = rows[t]
      <4>1. rows \in [Slot -> Request \cup {None}]
        BY DEF IInv, RowTypes
      <4> QED
        BY <2>1, <4>1
    <3>3. \A q : WantsMore(q)' <=> WantsMore(q)
      BY <2>1 DEF WantsMore, Pending
    <3>4. s \notin Decoding /\ s \notin Decoding'
      BY <2>2, <2>4, <3>1 DEF Decoding
    <3>5. \A t \in Slot \ {s} : t \in Decoding' <=> t \in Decoding
      BY <2>4, <3>1, <3>2, <3>3 DEF Decoding
    <3> QED
      BY <3>4, <3>5 DEF Decoding
  <2> QED
    BY <2>1, <2>5, <2>6, FitGoesOn
<1>2. CASE BindDone
  <2>1. /\ pc = "bind" /\ room' = Pack
        /\ pc' = IF chunks # <<>> /\ Decoding # {} /\ Mix THEN "mix" ELSE "pass"
        /\ UNCHANGED <<chunks, rows, filling, tokens, queued, placed, done>>
    BY <1>2 DEF BindDone, At, Goto, requestVars, rowVars, passVars
  <2>2. Unpassed' \subseteq Unpassed /\ Pack \in Nat
    BY <2>1, UnpassedShrinks, EngineAssumption
  <2>3. pc' = "mix" => PiecesFit(chunks, Pack)
    <3>1. pc' = "mix" => left \in 0..Pack /\ PiecesFit(chunks, Pack - left)
      BY <2>1 DEF FitInv, RoomLeft
    <3>2. ASSUME left \in 0..Pack PROVE Pack - left \in Nat /\ Pack - left <= Pack
      BY <2>2, <3>2
    <3> QED
      BY <2>2, <3>1, <3>2, FitsMore
  <2> QED
    BY <2>1, <2>2, <2>3 DEF FitInv, RoomLeft, OnePartial
<1> QED
  BY <1>1, <1>2

\* The pieces go into the pass, or into passes with room for them.
LEMMA PassFitsOn ==
  ASSUME IInv, ReadInv, FitInv, MixStep \/ PassPiece
  PROVE  FitInv'
<1>1. CASE MixStep
  <2>1. /\ pc = "mix" /\ pc' = "mixpass" /\ UNCHANGED <<chunks, room, filling, placed, done, tokens>>
    BY <1>1 DEF MixStep, At, Goto, requestVars, localVars
  <2>2. Unpassed' \subseteq Unpassed
    BY <2>1, UnpassedShrinks
  <2> QED
    BY <2>1, <2>2 DEF FitInv, RoomLeft, OnePartial
<1>2. CASE PassPiece
  <2>1. PICK chunk \in Piece, stop \in Nat :
           /\ chunks # <<>> /\ chunk = chunks[1] /\ chunk.req \in Rowed
           /\ chunk.start < stop /\ stop <= Len(PromptOf(chunk.req))
           /\ Prefill(chunk, stop)
           /\ room' \in Int /\ (pc = "pass" => room' >= 0)
    BY <1>2, PieceThatPasses
  <2>2. /\ pc \in {"pass", "mixpass"} /\ pc' = pc /\ UNCHANGED <<placed, done, tokens>>
        /\ pc = "mixpass" => /\ room' = room - (Head(chunks).stop - Head(chunks).start)
                             /\ chunks' = Tail(chunks)
    BY <1>2 DEF PassPiece, At, requestVars
  <2>3. Range(filling') \subseteq Range(filling)
    <3>1. filling' = Without(filling, chunk.req) \/ filling' = filling
      BY <2>1, PrefillTypes DEF IInv
    <3>2. filling \in Seq(Request) /\ Once(filling)
      BY DEF IInv, RowTypes, Admission
    <3>3. Range(Without(filling, chunk.req)) = Range(filling) \ {chunk.req}
      BY <3>2, WithoutOnce
    <3> QED
      BY <3>1, <3>3
  <2>4. Unpassed' \subseteq Unpassed
    BY <2>2, <2>3, UnpassedShrinks
  <2>5. CASE pc = "pass"
    <3>1. room' \in Nat
      BY <2>1, <2>5
    <3> QED
      BY <2>2, <2>4, <2>5, <3>1, FitStays DEF FitInv
  <2>6. CASE pc = "mixpass"
    <3>1. chunks \in Seq(Piece) /\ PiecesFit(chunks, room) /\ room \in Nat
      BY <2>6 DEF IInv, PassTypes, FitInv, RoomLeft
    <3>2. room' \in Nat /\ PiecesFit(chunks', room')
      BY <2>1, <2>2, <2>6, <3>1, PieceLeaves DEF Size
    <3> QED
      BY <2>2, <2>4, <2>6, <3>2 DEF FitInv, RoomLeft, OnePartial
  <2> QED
    BY <2>2, <2>5, <2>6
<1> QED
  BY <1>1, <1>2

\* Every step passes one prompt at most in part, with room for its pieces.
LEMMA FitNext ==
  ASSUME IInv, ReadInv, FitInv, [Next]_vars
  PROVE  FitInv'
<1>1. CASE (\E r \in Request : Cancel(r)) \/ GrowPreempt \/ ReadToken
  BY <1>1, EndsFit
<1>2. CASE GrowDone
  BY <1>2, GrowDoneFits
<1>3. CASE ChunkFilling \/ ChunkDone
  BY <1>3, ChunkFits
<1>4. CASE PlaceStart \/ PlaceDone \/ PlaceStop
  BY <1>4, PlaceFits
<1>5. CASE Bind \/ BindDone
  BY <1>5, BindFits
<1>6. CASE MixStep \/ PassPiece
  BY <1>6, PassFitsOn
<1>7. CASE \/ \E r \in Request : Submit(r)
           \/ LoadWeights \/ Reset \/ BeginStep \/ GiveBackPage
           \/ GrowRead \/ GrowTake \/ PassEnd \/ PassesDone \/ MixPassEnd
           \/ DecodeStep \/ DecodeNone \/ PopPass \/ SkipToken \/ ReadDone
           \/ ShareFound \/ TakeOwn \/ UNCHANGED vars
  BY <1>7, OthersFit
<1> QED
  BY <1>1, <1>2, <1>3, <1>4, <1>5, <1>6, <1>7 DEF Next, Step, Client, Rest

\* A pass holds the chunks it is given, also where it carries the rows' step and is not
\* cut, and at most one prompt is passed in part between steps (the packing of
\* _step_paged).
THEOREM PassesFit == Spec => []PassFits
<1>1. Init => FitInv
  <2> SUFFICES ASSUME Init PROVE FitInv
    OBVIOUS
  <2>1. room = Pack /\ pc = "idle" /\ filling = <<>> /\ placed = <<>>
    BY DEF Init
  <2>2. Unpassed = {} /\ Pack \in Nat
    BY <2>1, EmptyLine, EngineAssumption DEF Unpassed
  <2> QED
    BY <2>1, <2>2 DEF FitInv, RoomLeft, OnePartial
<1>2. (IInv /\ ReadInv /\ PiecesApart) /\ FitInv /\ [Next]_vars => FitInv'
  BY FitNext
<1>3. IInv /\ FitInv => PassFits
  <2> SUFFICES ASSUME IInv, FitInv PROVE PassFits
    OBVIOUS
  <2>1. room \in Nat
    BY DEF FitInv, RoomLeft
  <2>2. pc = "idle" => Len(filling) <= 1
    BY OnlyOneFills DEF Passing
  <2>3. room >= 0
    BY <2>1
  <2> QED
    BY <2>2, <2>3 DEF PassFits
<1> QED
  BY <1>1, <1>2, <1>3, DrawsStand, PTL DEF Spec

-----------------------------------------------------------------------------
(* The pages of a placement: those it still takes are there.                 *)

\* A page shared leaves the pages to take, if no row used it.
LEMMA ShareLeaves ==
  ASSUME PoolOK, NEW p \in DOMAIN digestOf, Share(p)
  PROVE  available \in Nat /\ available' = available - One(refs[p] = 0)
<1>1. /\ free \in Seq(Usable) /\ idle \in Seq(Usable) /\ Once(idle) /\ ListsPartition
      /\ refs \in [Page -> Nat] /\ p \in Page
  <2>1. /\ free \in Seq(Usable) /\ idle \in Seq(Usable) /\ Once(idle)
        /\ refs \in [Page -> Nat] /\ DOMAIN digestOf \subseteq Usable
    BY PoolLines DEF PoolOK
  <2> QED
    BY <2>1 DEF PoolOK, PoolConsistent, Usable
<1>2. available \in Nat /\ Len(free) \in Nat /\ Len(idle) \in Nat
  BY <1>1 DEF available
<1>3. CASE refs[p] = 0
  <2>1. p \in Range(idle)
    BY <1>1, <1>3 DEF ListsPartition
  <2>2. idle' = Without(idle, p) /\ free' = free
    BY <1>3 DEF Share, ShareFirst
  <2>3. IndexIn(idle, p) \in 1..Len(idle) /\ idle' = RemoveAt(idle, IndexIn(idle, p))
    BY <1>1, <2>1, <2>2, PlaceInLine DEF Without
  <2>4. Len(idle') = Len(idle) - 1
    BY <1>1, <2>3, RemoveAtOnce
  <2>5. available' = Len(free) + (Len(idle) - 1)
    BY <2>2, <2>4 DEF available
  <2> QED
    BY <1>2, <1>3, <2>5 DEF available, One
<1>4. CASE refs[p] # 0
  <2>1. UNCHANGED <<free, idle>>
    BY <1>4 DEF Share, ShareFirst
  <2> QED
    BY <1>2, <1>4, <2>1 DEF available, One
<1> QED
  BY <1>3, <1>4

\* A page taken is no longer there to take.
LEMMA TakeLeaves ==
  ASSUME PoolOK, NEW p, Take(p)
  PROVE  available \in Nat /\ available' = available - 1
<1>1. free \in Seq(Usable) /\ idle \in Seq(Usable)
  BY PoolLines DEF PoolOK
<1>2. Len(free) \in Nat /\ Len(idle) \in Nat
  BY <1>1
<1>3. CASE TakeFree(p)
  <2>1. free # <<>> /\ free' = Front(free) /\ idle' = idle
    BY <1>3 DEF TakeFree
  <2>2. Len(Front(free)) = Len(free) - 1
    <3>1. Len(free) \in Nat /\ Len(free) > 0
      BY <1>1, <2>1
    <3>2. Front(free) = [i \in 1..(Len(free) - 1) |-> free[i]]
      BY <3>1 DEF Front
    <3> QED
      BY <3>1, <3>2
  <2> QED
    BY <1>2, <2>1, <2>2 DEF available
<1>4. CASE TakeIdle(p)
  <2>1. idle # <<>> /\ idle' = Tail(idle) /\ free' = free
    BY <1>4 DEF TakeIdle
  <2>2. Len(Tail(idle)) = Len(idle) - 1
    BY <1>1, <2>1
  <2> QED
    BY <1>2, <2>1, <2>2 DEF available
<1> QED
  BY <1>3, <1>4 DEF Take

\* The places of a line whose pages no row uses, by the counts given.
UnusedIn(pages, counts) == {i \in 1..Len(pages) : counts[pages[i]] = 0}

\* There is a number of them; a line with no page has none.
LEMMA UnusedFinite ==
  ASSUME NEW pages \in Seq(Usable), NEW counts
  PROVE  /\ UnusedIn(pages, counts) \in SUBSET (Nat \ {0}) /\ IsFiniteSet(UnusedIn(pages, counts))
         /\ Cardinality(UnusedIn(pages, counts)) \in Nat
         /\ pages = <<>> => Cardinality(UnusedIn(pages, counts)) = 0
<1>1. Len(pages) \in Nat /\ 1..Len(pages) \subseteq Nat \ {0}
  OBVIOUS
<1>2. IsFiniteSet(1..Len(pages))
  BY <1>1, FS_Interval
<1>3. UnusedIn(pages, counts) \subseteq 1..Len(pages)
  BY DEF UnusedIn
<1>4. IsFiniteSet(UnusedIn(pages, counts))
  BY <1>2, <1>3, FS_Subset
<1>5. pages = <<>> => UnusedIn(pages, counts) = {}
  BY NoPlaces DEF UnusedIn
<1> QED
  BY <1>1, <1>3, <1>4, <1>5, FS_CardinalityType, FS_EmptySet

\* The first page of the cached start is shared: of the others as many are unused.
LEMMA UnusedTail ==
  ASSUME NEW pages \in Seq(Usable), pages # <<>>, Once(pages), NEW counts \in [Page -> Nat],
         NEW after, after = [counts EXCEPT ![Head(pages)] = @ + 1]
  PROVE  Cardinality(UnusedIn(Tail(pages), after))
           = Cardinality(UnusedIn(pages, counts)) - One(counts[Head(pages)] = 0)
<1> DEFINE n == Len(pages)
           A == UnusedIn(pages, counts) \ {1}
           B == UnusedIn(Tail(pages), after)
           rest == Tail(pages)
<1>1. /\ n \in Nat \ {0} /\ rest \in Seq(Usable) /\ Len(rest) = n - 1
      /\ Head(pages) = pages[1] /\ 1 \in 1..n
      /\ \A i \in 1..(n - 1) : rest[i] = pages[i + 1]
  OBVIOUS
<1>2. \A i \in 1..n : pages[i] \in Page
  BY DEF Usable
<1>3. \A i \in 1..n : i # 1 => after[pages[i]] = counts[pages[i]]
  <2> TAKE i \in 1..n
  <2> HAVE i # 1
  <2>1. pages[i] # pages[1]
    BY <1>1, OnceOfLine
  <2> QED
    BY <1>1, <1>2, <2>1
<1>4. /\ UnusedIn(pages, counts) \in SUBSET (Nat \ {0}) /\ IsFiniteSet(UnusedIn(pages, counts))
      /\ Cardinality(UnusedIn(pages, counts)) \in Nat
  BY UnusedFinite
<1>5. A \in SUBSET (Nat \ {0}) /\ IsFiniteSet(A) /\ Cardinality(A) \in Nat
  BY <1>4, FS_Subset, FS_CardinalityType
<1> HIDE DEF rest
<1>6. B \in SUBSET Nat
  BY <1>1, UnusedFinite DEF rest
<1>7. \A j \in Nat : j \in B <=> j + 1 \in A
  <2> TAKE j \in Nat
  <2>1. j \in 1..(n - 1) <=> j + 1 \in 1..n /\ j + 1 # 1
    BY <1>1
  <2>2. j \in B <=> j \in 1..(n - 1) /\ after[pages[j + 1]] = 0
    BY <1>1 DEF UnusedIn, rest
  <2>3. j + 1 \in A <=> j + 1 \in 1..n /\ j + 1 # 1 /\ counts[pages[j + 1]] = 0
    BY DEF UnusedIn
  <2> QED
    BY <1>3, <2>1, <2>2, <2>3
<1> HIDE DEF A, B
<1>8. Cardinality(B) = Cardinality(A)
  BY <1>5, <1>6, <1>7, CountMoved
<1>9. CASE counts[Head(pages)] = 0
  <2>1. 1 \in UnusedIn(pages, counts)
    BY <1>1, <1>9 DEF UnusedIn
  <2>2. Cardinality(A) = Cardinality(UnusedIn(pages, counts)) - 1
    BY <1>4, <2>1, FS_RemoveElement DEF A
  <2> QED
    BY <1>8, <1>9, <2>2 DEF One, B
<1>10. CASE counts[Head(pages)] # 0
  <2>1. A = UnusedIn(pages, counts)
    BY <1>1, <1>10 DEF UnusedIn, A
  <2> QED
    BY <1>4, <1>8, <1>10, <2>1 DEF One, B
<1> QED
  BY <1>9, <1>10

\* So many multiples below a number, so many in it.
LEMMA DivisionOfMultiple ==
  ASSUME NEW n \in Nat, NEW k \in Nat \ {0}, NEW l \in Nat, n * k <= l
  PROVE  n <= l \div k
<1>1. l \div k \in Nat /\ l < (l \div k + 1) * k
  OBVIOUS
<1> DEFINE d == l \div k
<1> HIDE DEF d
<1>2. d \in Nat /\ n * k < (d + 1) * k
  BY <1>1 DEF d
<1>3. n < d + 1
  <2>1. ASSUME d + 1 <= n PROVE (d + 1) * k <= n * k
    BY <1>2, <2>1, Multiples
  <2> QED
    BY <1>2, <2>1
<1>4. n <= d
  BY <1>2, <1>3
<1> QED
  BY <1>4 DEF d

\* The pages of the request being placed, still to be shared and to be taken.
Needed(r) == PagesFor(Len(PromptOf(r)))

Enough(r) ==
  Needed(r) - Len(held[r]) - Len(found) <= available - Cardinality(UnusedIn(found, refs)) - Spare

SufficeInv ==
  pc = "sharing" =>
    /\ giving = <<>> /\ Enough(Head(waiting))
    /\ Len(held[Head(waiting)]) + Len(found) <= Needed(Head(waiting))

\* The pages a text needs are a number, more than those of a start of it.
LEMMA NeededPages ==
  ASSUME PoolOK, RowTypes, NEW r \in Request
  PROVE  /\ Needed(r) \in Nat /\ Len(CachedStart(r)) \in Nat
         /\ Len(CachedStart(r)) <= Needed(r)
<1>1. /\ CachedStart(r) \in Seq(Usable)
      /\ Len(CachedStart(r)) * PageSize \in Nat
      /\ Len(CachedStart(r)) * PageSize < Len(PromptOf(r))
  BY CachedStartPages
<1>2. Len(PromptOf(r)) \in Nat /\ PageSize \in Nat \ {0}
  BY TextOfRequest, EngineAssumption
<1> DEFINE l == Len(PromptOf(r))
           n == Len(CachedStart(r))
           k == PageSize
<1>3. n \in Nat /\ n * k < l /\ n * k \in Nat
  BY <1>1
<1>4. Needed(r) = l \div k + 1
  BY DEF Needed, PagesFor
<1> HIDE DEF l, n, k
<1>5. l \div k \in Nat
  BY <1>2, Division DEF l, k
<1>6. n * k <= l
  BY <1>2, <1>3 DEF l
<1>7. n <= l \div k
  BY <1>2, <1>3, <1>6, DivisionOfMultiple DEF l, k
<1> QED
  BY <1>3, <1>4, <1>5, <1>7 DEF n

\* The placement begins: its pages fit beside those of the start found for it.
LEMMA PlaceStartSuffices ==
  ASSUME IInv, PlaceStart
  PROVE  SufficeInv'
<1>1. /\ giving = <<>> /\ MayPlace /\ found' = CachedStart(Head(waiting))
      /\ UNCHANGED <<free, refs, idle, tokens, waiting, rows, filling, held, giving, queued>>
  BY DEF PlaceStart, At, poolVars, requestVars, passVars
<1>2. PICK r \in Request : r = Head(waiting) /\ Fits(r) /\ r \in Range(waiting)
  <2>1. waiting # <<>> /\ waiting \in Seq(Request)
    BY <1>1 DEF MayPlace, IInv, RowTypes
  <2> QED
    BY <2>1, <1>1, TailOnce, RangeOfLine DEF MayPlace
<1>3. held[r] = <<>>
  <2>1. pc # "sharing" /\ r \notin Range(seniority)
    BY <1>2 DEF PlaceStart, At, IInv, Admission
  <2> QED
    BY <2>1, <1>2 DEF IInv, PagesHeld
<1>4. Head(waiting') = r /\ found' = CachedStart(r)
  BY <1>1, <1>2
<1>5. /\ Needed(r) \in Nat /\ Len(CachedStart(r)) \in Nat
      /\ Len(CachedStart(r)) <= Needed(r) /\ CachedStart(r) \in Seq(Usable)
  BY <1>2, NeededPages, CachedStartPages DEF IInv
<1>6. IdleOf(CachedStart(r)) = Cardinality(UnusedIn(CachedStart(r), refs))
  <2>1. DOMAIN CachedStart(r) = 1..Len(CachedStart(r))
    BY <1>5
  <2> QED
    BY <2>1 DEF IdleOf, UnusedIn
<1>7. Needed(r)' = Needed(r) /\ available' = available /\ Spare' = Spare
  <2>1. Decoding' = Decoding
    BY <1>1, DecodingSame
  <2> QED
    BY <2>1, <1>1 DEF Needed, PromptOf, available, Spare
<1>8. Len(held'[r]) = 0 /\ refs' = refs
  BY <1>1, <1>3
<1>9. Needed(r) - Len(CachedStart(r)) <= available - Cardinality(UnusedIn(CachedStart(r), refs)) - Spare
  BY <1>2, <1>6 DEF Fits, Needed
<1>10. Needed(r) - 0 - Len(CachedStart(r)) = Needed(r) - Len(CachedStart(r))
       /\ 0 + Len(CachedStart(r)) <= Needed(r)
  BY <1>5
<1>11. Cardinality(UnusedIn(found, refs))' = Cardinality(UnusedIn(CachedStart(r), refs))
  BY <1>4, <1>8 DEF UnusedIn
<1>12. /\ Enough(r)'
       /\ (Len(held[r]) + Len(found) <= Needed(r))'
  BY <1>4, <1>7, <1>8, <1>9, <1>10, <1>11 DEF Enough
<1> QED
  BY <1>1, <1>4, <1>12 DEF SufficeInv

\* As many pages needed less as there are fewer to take.
LEMMA EnoughKept ==
  ASSUME NEW n \in Nat, NEW h \in Nat, NEW f \in Nat, NEW a \in Nat, NEW u \in Nat, NEW s \in Nat,
         NEW e \in {0, 1}, n - h - f <= a - u - s
  PROVE  /\ f > 0 => n - (h + 1) - (f - 1) <= (a - e) - (u - e) - s
         /\ f > 0 /\ h + f <= n => (h + 1) + (f - 1) <= n
         /\ f = 0 => n - (h + 1) - f <= (a - 1) - u - s
         /\ f = 0 /\ h < n => (h + 1) + f <= n
OBVIOUS

\* The pages kept for the rows that decode are a number of them.
LEMMA SpareNumber == Spare \in Nat
BY EngineAssumption DEF Spare

\* The request being placed has its pages from the start found and from the pool.
LEMMA SharingSuffices ==
  ASSUME IInv, SufficeInv, ShareFound \/ TakeOwn
  PROVE  SufficeInv'
<1> DEFINE q == Head(found)
<1>1. /\ pc = "sharing" /\ giving = <<>> /\ giving' = <<>>
      /\ UNCHANGED <<tokens, waiting, rows, filling, queued>>
  BY DEF ShareFound, TakeOwn, At, requestVars, passVars
<1>2. PICK r \in Request : r = Head(waiting)
  <2>1. waiting # <<>> /\ waiting \in Seq(Request)
    BY <1>1 DEF IInv, Placement, RowTypes
  <2> QED
    BY <2>1
<1>3. Head(waiting') = r
  BY <1>1, <1>2
<1>4. Enough(r) /\ Len(held[r]) + Len(found) <= Needed(r)
  BY <1>1, <1>2 DEF SufficeInv
<1>5. /\ ShareFound \/ TakeOwn
      /\ ShareFound => /\ found # <<>> /\ Share(q) /\ found' = Tail(found)
                       /\ held' = [held EXCEPT ![r] = Append(@, q)]
      /\ TakeOwn => /\ found = <<>> /\ found' = <<>> /\ Len(held[r]) < Needed(r) /\ TakeFor(r)
  BY <1>2 DEF ShareFound, TakeOwn, localVars, Needed
<1>6. /\ PoolOK /\ RowTypes /\ found \in Seq(Usable) /\ Once(found)
      /\ Range(found) \subseteq DOMAIN digestOf
      /\ held \in [Request -> Seq(Usable)] /\ refs \in [Page -> Nat]
  <2>1. refs \in [Page -> Nat]
    BY PoolLines DEF IInv, PoolOK
  <2> QED
    BY <2>1, <1>1 DEF IInv, RowTypes, Placement
<1>7. Needed(r)' = Needed(r) /\ Spare' = Spare
  BY <1>1, DecodingSame DEF Needed, PromptOf, Spare
<1>8. q \in Range(found) \/ found = <<>>
  BY <1>6, TailOnce
<1> HIDE DEF q
<1> DEFINE n == Needed(r)
           h == Len(held[r])
           f == Len(found)
           u == Cardinality(UnusedIn(found, refs))
<1>9. n \in Nat /\ h \in Nat /\ f \in Nat /\ u \in Nat /\ Spare \in Nat
  BY <1>2, <1>6, NeededPages, UnusedFinite, SpareNumber
<1>10. n - h - f <= available - u - Spare /\ h + f <= n
  BY <1>4 DEF Enough
<1>11. CASE ShareFound
  <2>1. f > 0 /\ Len(found') = f - 1 /\ q \in DOMAIN digestOf
    BY <1>5, <1>6, <1>8, <1>11
  <2>2. available \in Nat /\ available' = available - One(refs[q] = 0)
    BY <1>5, <1>6, <1>11, <2>1, ShareLeaves
  <2>3. Len(held'[r]) = h + 1
    BY <1>2, <1>5, <1>6, <1>11, <2>1 DEF PoolOK, PoolTypeOK, Usable
  <2>4. Cardinality(UnusedIn(Tail(found), refs')) = u - One(refs[q] = 0)
    <3>1. refs' = [refs EXCEPT ![q] = @ + 1]
      BY <1>5, <1>11 DEF Share
    <3> QED
      BY <3>1, <1>5, <1>6, <1>11, UnusedTail DEF q
  <2>5. One(refs[q] = 0) \in {0, 1}
    BY DEF One
  <2> DEFINE e == One(refs[q] = 0)
  <2> HIDE DEF e, n, h, f, u
  <2>6. n - (h + 1) - (f - 1) <= (available - e) - (u - e) - Spare
        /\ (h + 1) + (f - 1) <= n
    <3>1. e \in {0, 1}
      BY <2>5 DEF e
    <3> QED
      BY <3>1, <1>9, <1>10, <2>1, <2>2, EnoughKept
  <2>7. Cardinality(UnusedIn(found', refs')) = u - e /\ available' = available - e
    BY <1>5, <1>11, <2>2, <2>4 DEF e
  <2>8. Cardinality(UnusedIn(found, refs))' = u - e
    BY <2>7 DEF UnusedIn
  <2>9. Enough(r)' /\ (Len(held[r]) + Len(found) <= Needed(r))'
    BY <1>7, <2>1, <2>3, <2>6, <2>7, <2>8 DEF Enough, n
  <2> QED
    BY <1>1, <1>3, <2>9 DEF SufficeInv
<1>12. CASE TakeOwn
  <2>1. f = 0 /\ u = 0 /\ Len(found') = 0 /\ h < n
    BY <1>5, <1>6, <1>12, UnusedFinite
  <2>2. PICK p : Take(p)
    BY <1>5, <1>12 DEF TakeFor
  <2>3. available \in Nat /\ available' = available - 1
    BY <1>6, <2>2, TakeLeaves
  <2>4. Len(held'[r]) = h + 1
    BY <1>1, <1>2, <1>5, <1>12, TakePage DEF IInv
  <2>5. Cardinality(UnusedIn(found', refs')) = 0
    <3>1. found' = <<>> /\ found' \in Seq(Usable)
      BY <1>5, <1>6, <1>12
    <3> QED
      BY <3>1, UnusedFinite
  <2> HIDE DEF n, h, f, u
  <2>6. n - (h + 1) - f <= (available - 1) - u - Spare /\ (h + 1) + f <= n
    BY <1>9, <1>10, <2>1, <2>3, EnoughKept
  <2>7. Cardinality(UnusedIn(found, refs))' = 0
    BY <2>5 DEF UnusedIn
  <2>8. Enough(r)' /\ (Len(held[r]) + Len(found) <= Needed(r))'
    BY <1>7, <2>1, <2>3, <2>4, <2>6, <2>7 DEF Enough, n
  <2> QED
    BY <1>1, <1>3, <2>8 DEF SufficeInv
<1> QED
  BY <1>5, <1>11, <1>12

\* Every step keeps the pages of the placement under way.
LEMMA SufficeNext ==
  ASSUME IInv, SufficeInv, [Next]_vars
  PROVE  SufficeInv'
<1>1. CASE PlaceStart
  BY <1>1, PlaceStartSuffices
<1>2. CASE ShareFound \/ TakeOwn
  BY <1>2, SharingSuffices
<1>3. CASE \/ Client \/ BeginStep
           \/ GrowRead \/ GrowPreempt \/ GrowTake \/ GrowDone
           \/ ChunkFilling \/ ChunkDone
           \/ PlaceDone \/ PlaceStop
           \/ Bind \/ BindDone
           \/ MixStep \/ PassPiece \/ PassEnd \/ PassesDone \/ MixPassEnd
           \/ DecodeStep \/ DecodeNone
           \/ PopPass \/ SkipToken \/ ReadToken \/ ReadDone
  <2>1. pc' # "sharing"
    BY <1>3 DEF Client, Submit, Cancel, LoadWeights, Reset, BeginStep, GrowRead, GrowPreempt,
         GrowTake, GrowDone, ChunkFilling, ChunkDone, PlaceDone, PlaceStop, Bind, BindDone,
         MixStep, PassPiece, PassEnd, PassesDone, MixPassEnd, DecodeStep, DecodeNone, PopPass,
         SkipToken, ReadToken, ReadDone, At, Goto, Reading
  <2> QED
    BY <2>1 DEF SufficeInv
<1>4. CASE GiveBackPage
  <2>1. pc' # "sharing"
    BY <1>4 DEF GiveBackPage, SufficeInv
  <2> QED
    BY <2>1 DEF SufficeInv
<1>5. CASE UNCHANGED vars
  <2>1. /\ UNCHANGED <<free, refs, idle, tokens, waiting, rows, filling, held, giving, queued,
                       pc, found>>
    BY <1>5 DEF vars, poolVars, requestVars, rowVars, passVars, localVars
  <2>2. Spare' = Spare /\ available' = available /\ \A r : Needed(r)' = Needed(r)
    BY <2>1, DecodingSame DEF Needed, PromptOf, available, Spare
  <2>3. UnusedIn(found, refs)' = UnusedIn(found, refs)
    BY <2>1 DEF UnusedIn
  <2>4. \A r : Enough(r)' <=> Enough(r)
    BY <2>1, <2>2, <2>3 DEF Enough
  <2> QED
    BY <2>1, <2>2, <2>4 DEF SufficeInv
<1> QED
  BY <1>1, <1>2, <1>3, <1>4, <1>5 DEF Next, Step, Rest

\* The placement under way has the pages it still takes beside those kept for the rows that
\* decode: `take` never finds the pool empty (_place).
THEOREM PlacementHasPages == Spec => []PagesSuffice
<1>1. Init => SufficeInv
  BY DEF Init, SufficeInv
<1>2. IInv /\ SufficeInv /\ [Next]_vars => SufficeInv'
  BY SufficeNext
<1>3. IInv /\ SufficeInv => PagesSuffice
  <2> SUFFICES ASSUME IInv, SufficeInv, pc = "sharing" PROVE PagesSuffice
    BY DEF PagesSuffice
  <2>1. Enough(Head(waiting)) /\ found \in Seq(Usable)
    BY DEF SufficeInv, IInv, RowTypes
  <2>2. DOMAIN found = 1..Len(found)
    BY <2>1
  <2>3. {i \in DOMAIN found : refs[found[i]] = 0} = UnusedIn(found, refs)
    BY <2>2 DEF UnusedIn
  <2> QED
    BY <2>1, <2>3 DEF PagesSuffice, Enough, Needed, Spare
<1> QED
  BY <1>1, <1>2, <1>3, EngineInvariant, PTL DEF Spec


-----------------------------------------------------------------------------
(* The positions: the host's count of a row is the device's, and the row has  *)
(* the page its next step writes.                                            *)

\* The requests that have not ended.
Running == {r \in Request : reason[r] = ""}

\* The tokens of a request, read or not.
Total(r) == Len(tokens[r]) + Unread(r)

\* What the passes and the reads leave alone.
DrawsStill == UNCHANGED <<queued, reading, tokens>> /\ Due' = Due

\* The actions that neither draw nor read.
LEMMA NoDraw ==
  ASSUME ReadInv,
         \/ Quiet \/ GrowPreempt \/ Bind \/ UNCHANGED vars
         \/ \E r \in Request : Cancel(r)
  PROVE  DrawsStill
<1> USE DEF DrawsStill, At, Goto, requestVars, rowVars, passVars, localVars, Due
<1>1. ASSUME (\E r \in Request : Submit(r) \/ Cancel(r)) \/ LoadWeights \/ BeginStep
      PROVE  DrawsStill
  BY <1>1 DEF Submit, Cancel, LoadWeights, BeginStep
<1>2. ASSUME GiveBackPage
      PROVE  DrawsStill
  BY <1>2 DEF GiveBackPage
<1>3. ASSUME GrowRead \/ GrowTake \/ GrowDone \/ GrowPreempt
      PROVE  DrawsStill
  BY <1>3 DEF GrowRead, GrowTake, GrowDone, GrowPreempt
<1>4. ASSUME ChunkFilling \/ ChunkDone \/ PlaceStart \/ ShareFound \/ TakeOwn \/ PlaceDone
               \/ PlaceStop
      PROVE  DrawsStill
  BY <1>4 DEF ChunkFilling, ChunkDone, PlaceStart, ShareFound, TakeOwn, PlaceDone, PlaceStop
<1>5. ASSUME Bind
      PROVE  DrawsStill
  BY <1>5 DEF Bind
<1>6. ASSUME BindDone
      PROVE  DrawsStill
  BY <1>6 DEF BindDone
<1>7. ASSUME PassesDone
      PROVE  DrawsStill
  BY <1>7 DEF PassesDone, ReadInv, Rooms
<1>8. ASSUME DecodeNone
      PROVE  DrawsStill
  BY <1>8 DEF DecodeNone
<1>9. ASSUME ReadDone
      PROVE  DrawsStill
  BY <1>9 DEF ReadDone, Reading
<1>10. ASSUME UNCHANGED vars
      PROVE  DrawsStill
  BY <1>10 DEF vars
<1> HIDE DEF DrawsStill
<1> QED
  BY <1>1, <1>2, <1>3, <1>4, <1>5, <1>6, <1>7, <1>8, <1>9, <1>10 DEF Quiet

\* A step of the rows draws, and forgets no token drawn.
LEMMA StepCounts ==
  ASSUME IInv, NEW parked, StepRows(parked), Due = <<>>, Due' = <<>>, UNCHANGED reading,
         NEW r \in Request
  PROVE  Unread(r) <= Unread(r)'
<1>1. PICK pass \in Seq(Draw) : queued' = Append(queued, pass)
  BY StepDraws
<1>2. queued \in Seq(Seq(Draw))
  BY DEF IInv, PassTypes
<1>3. Cardinality(DrawnAt(r, queued')) = Cardinality(DrawnAt(r, queued)) + One(Drawn(r, pass))
  BY <1>1, <1>2, DrawnAppend
<1>4. Cardinality(DrawnAt(r, queued))' = Cardinality(DrawnAt(r, queued)) + One(Drawn(r, pass))
  BY <1>3
<1>5. One(Drawn(r, reading))' = One(Drawn(r, reading)) /\ One(Drawn(r, Due))' = One(Drawn(r, Due))
  OBVIOUS
<1>6. /\ Cardinality(DrawnAt(r, queued)) \in Nat /\ One(Drawn(r, pass)) \in Nat
      /\ One(Drawn(r, reading)) \in Nat /\ One(Drawn(r, Due)) \in Nat
  BY BudgetNumbers DEF One
<1> QED
  BY <1>4, <1>5, <1>6 DEF Unread

\* Every step but a reset.
Onward ==
  \/ Quiet \/ GrowPreempt \/ Bind \/ UNCHANGED vars
  \/ \E r \in Request : Cancel(r)
  \/ MixStep \/ PassPiece \/ PassEnd \/ MixPassEnd \/ DecodeStep \/ PopPass
  \/ SkipToken \/ ReadToken

\* The tokens drawn for a request that runs are read or still to be read: none is lost.
LEMMA NoneLost ==
  ASSUME IInv, IInv', ReadInv, Onward, NEW r \in Running
  PROVE  Total(r) <= Total(r)'
<1>r. r \in Request
  BY DEF Running
<1>1. /\ Len(tokens[r]) \in Nat /\ Unread(r) \in Nat /\ Unread(r)' \in Nat
      /\ Len(tokens[r])' \in Nat
  <2>1. tokens' \in [Request -> Seq(Token)]
    BY DEF IInv, RowTypes
  <2>2. Len(tokens[r])' \in Nat
    BY <2>1, <1>r
  <2> QED
    BY <2>2, <1>r, BudgetNumbers, UnreadAfter
<1>2. ASSUME tokens' = tokens, Unread(r) <= Unread(r)'
      PROVE  Total(r) <= Total(r)'
  BY <1>1, <1>2 DEF Total
<1>3. ASSUME DrawsStill
      PROVE  Total(r) <= Total(r)'
  <2>1. Unread(r)' = Unread(r) /\ tokens' = tokens
    BY <1>3, <1>r, UnreadStays DEF DrawsStill
  <2> QED
    BY <2>1, <1>1, <1>2
<1>4. ASSUME MixStep \/ DecodeStep
      PROVE  Total(r) <= Total(r)'
  <2>1. /\ UNCHANGED <<tokens, reading>> /\ Due = <<>> /\ Due' = <<>>
        /\ \E parked : StepRows(parked)
    BY <1>4 DEF MixStep, DecodeStep, At, Goto, requestVars, localVars, Due, ReadInv, Rooms
  <2> QED
    BY <2>1, <1>2, <1>r, StepCounts
<1>5. ASSUME PassEnd \/ MixPassEnd \/ PopPass
      PROVE  Total(r) <= Total(r)'
  <2>1. tokens' = tokens
    BY <1>5 DEF PassEnd, MixPassEnd, PopPass, requestVars
  <2>2. Unread(r)' = Unread(r)
    BY <1>5, <1>r, PassCounted
  <2> QED
    BY <2>1, <2>2, <1>1, <1>2
<1>6. ASSUME PassPiece
      PROVE  Total(r) <= Total(r)'
  <2>1. UNCHANGED <<tokens, queued, reading>> /\ Due = owners /\ Due' = owners'
        /\ owners \in Seq(Draw)
    BY <1>6 DEF PassPiece, At, requestVars, passVars, Due, IInv, PassTypes
  <2>2. (\E it \in Draw : owners' = Append(owners, it)) \/ UNCHANGED owners
    <3>1. PICK chunk \in Piece, stop \in Nat :
             /\ chunk.req \in Rowed /\ chunk.start < stop /\ stop <= Len(PromptOf(chunk.req))
             /\ Prefill(chunk, stop)
      BY <1>6, PieceThatPasses
    <3> QED
      BY <3>1, PrefillTypes DEF IInv
  <2>3. Drawn(r, Due) => Drawn(r, Due')
    BY <2>1, <2>2, DrawnOfAppend
  <2>4. /\ One(Drawn(r, Due)) <= One(Drawn(r, Due')) /\ One(Drawn(r, Due)) \in Nat
        /\ One(Drawn(r, Due')) \in Nat /\ One(Drawn(r, reading)) \in Nat
    BY <2>3 DEF One
  <2>c. Cardinality(DrawnAt(r, queued)) \in Nat
    BY <1>r, BudgetNumbers
  <2>5. Unread(r)' = Cardinality(DrawnAt(r, queued)) + One(Drawn(r, reading)) + One(Drawn(r, Due'))
    BY <2>1 DEF Unread
  <2>6. Unread(r) <= Unread(r)'
    BY <2>4, <2>c, <2>5 DEF Unread
  <2> QED
    BY <2>1, <2>6, <1>2
<1>7. ASSUME SkipToken \/ ReadToken
      PROVE  Total(r) <= Total(r)'
  <2>1. /\ reading # <<>> /\ reading' = Tail(reading) /\ UNCHANGED queued
        /\ Due = <<>> /\ Due' = <<>> /\ OncePerPass(reading)
    BY <1>7 DEF SkipToken, ReadToken, Reading, At, Due, ReadInv, DrawsInPlace
  <2>2. /\ r = Head(reading).req => Unread(r) = Unread(r)' + 1
        /\ r # Head(reading).req => Unread(r)' = Unread(r)
    BY <2>1, <1>r, OneReadLess
  <2>3. CASE SkipToken
    <3>1. r # Head(reading).req /\ tokens' = tokens
      BY <2>3 DEF SkipToken, requestVars, Running
    <3> QED
      BY <3>1, <2>2, <1>1, <1>2
  <2>4. CASE ReadToken
    <3>1. PICK it \in Draw, q \in Request, text \in Seq(Token) :
             /\ it = Head(reading) /\ q = it.req /\ text = Append(tokens[q], it.token)
             /\ it.token \in Token /\ tokens' = [tokens EXCEPT ![q] = text]
      BY <2>4, TokenRead
    <3>2. tokens \in [Request -> Seq(Token)]
      BY DEF IInv, RowTypes
    <3>3. CASE r = q
      <4>1. Len(tokens[r])' = Len(tokens[r]) + 1
        BY <3>1, <3>2, <3>3
      <4>2. Unread(r) = Unread(r)' + 1
        BY <2>2, <3>1, <3>3
      <4> QED
        BY <1>1, <4>1, <4>2 DEF Total
    <3>4. CASE r # q
      <4>1. Len(tokens[r])' = Len(tokens[r]) /\ Unread(r)' = Unread(r)
        BY <2>2, <3>1, <3>2, <3>4
      <4> QED
        BY <1>1, <4>1 DEF Total
    <3> QED
      BY <3>3, <3>4
  <2> QED
    BY <1>7, <2>3, <2>4
<1>8. CASE Quiet \/ GrowPreempt \/ Bind \/ UNCHANGED vars \/ \E q \in Request : Cancel(q)
  BY <1>3, <1>8, NoDraw
<1> QED
  BY <1>4, <1>5, <1>6, <1>7, <1>8 DEF Onward

\* No position is past the end of a row.
Within == \A s \in Slot : written[s] < MaxSeq /\ devPos[s] < MaxSeq

\* A row's line of the device's table is the pages of its request.
Tables == \A s \in Slot : assigned[s] = IF rows[s] = None THEN <<>> ELSE held[rows[s]]

\* No request holds more pages than a row has.
HeldFit == \A r \in Request : Len(held[r]) * PageSize <= MaxSeq

\* A row that steps, or will when what is drawn is read.
StepsOn(s) ==
  rows[s] # None /\ rows[s] \notin Range(filling) /\ Total(rows[s]) < MaxNew[rows[s]]

Agree == \A s \in Slot : StepsOn(s) => written[s] = devPos[s]

\* From grow to the step the rows have their pages.
Stepping == {"chunk", "place", "sharing", "bind", "mix", "pass", "decode"}
HasPage(s) == written[s] \div PageSize < Len(held[rows[s]])
PageReady == pc \in Stepping => \A s \in Decoding : HasPage(s)

PlaceInv == Within /\ Tables /\ HeldFit /\ Agree /\ PageReady

\* The request of a row runs.
LEMMA RowRuns ==
  ASSUME IInv, NEW s \in Slot, rows[s] # None
  PROVE  rows[s] \in Running /\ rows[s] \in Request /\ rows[s] \in Rowed
<1>1. rows[s] \in Rowed /\ rows[s] \in Request
  BY DEF Rowed, IInv, RowTypes
<1> QED
  BY <1>1 DEF IInv, Admission, Running

\* A row that steps on did so before.
LEMMA SteppedBefore ==
  ASSUME IInv, IInv', ReadInv, Onward, NEW s \in Slot, rows'[s] = rows[s],
         StepsOn(s)', rows[s] \notin Range(filling)
  PROVE  StepsOn(s)
<1>1. rows[s] # None
  BY DEF StepsOn
<1>2. PICK r \in Running : r = rows[s] /\ r \in Request
  BY <1>1, RowRuns
<1>3. Total(r) <= Total(r)' /\ Total(r)' < MaxNew[r]
  BY <1>2, NoneLost DEF StepsOn
<1>4. Total(r) \in Nat /\ Total(r)' \in Nat /\ MaxNew[r] \in Nat
  <2>1. tokens' \in [Request -> Seq(Token)]
    BY DEF IInv, RowTypes
  <2>2. Len(tokens[r])' \in Nat
    BY <2>1, <1>2
  <2>3. Len(tokens[r]) \in Nat /\ MaxNew[r] \in Nat /\ Unread(r) \in Nat /\ Unread(r)' \in Nat
    BY <1>2, BudgetNumbers, UnreadAfter
  <2> QED
    BY <2>2, <2>3 DEF Total
<1>5. Total(r) < MaxNew[r]
  BY <1>3, <1>4
<1> QED
  BY <1>1, <1>2, <1>5 DEF StepsOn

\* The rows that decode step on, and only they do when all is read but what is queued.
LEMMA DecodingStepsOn ==
  ASSUME IInv, ReadInv, pc \in {"mix", "decode"}, NEW s \in Slot
  PROVE  s \in Decoding <=> StepsOn(s)
<1>1. reading = <<>> /\ Due = <<>>
  BY DEF IInv, DrawsLive, ReadInv, Rooms, Due
<1>2. ASSUME rows[s] # None
      PROVE  WantsMore(rows[s]) <=> Total(rows[s]) < MaxNew[rows[s]]
  <2>1. PICK r \in Request : r = rows[s]
    BY <1>2, RowRuns
  <2>2. One(Drawn(r, reading)) = 0 /\ One(Drawn(r, Due)) = 0
    BY <1>1, NoPlaces DEF One, Drawn
  <2>3. Pending(r) = Cardinality(DrawnAt(r, queued)) /\ Pending(r) \in Nat
    BY PendingDrawn
  <2>4. Unread(r) = Pending(r)
    BY <2>2, <2>3 DEF Unread
  <2> QED
    BY <2>1, <2>4 DEF WantsMore, Total
<1> QED
  BY <1>2 DEF Decoding, StepsOn

\* No more pages than a text within the row needs fit in the row.
LEMMA PagesFit ==
  ASSUME NEW l \in Nat, l < MaxSeq, NEW k \in Nat, k <= l \div PageSize + 1
  PROVE  k * PageSize <= MaxSeq
<1>1. PageSize \in Nat \ {0} /\ MaxSeq \in Nat \ {0} /\ MaxSeq % PageSize = 0
  BY EngineAssumption
<1> DEFINE m == MaxSeq \div PageSize
           d == l \div PageSize
<1>2. m \in Nat /\ MaxSeq = m * PageSize
  BY <1>1
<1>3. d \in Nat /\ d * PageSize <= l
  BY <1>1, Division
<1> HIDE DEF m, d
<1>4. d < m
  <2> SUFFICES ASSUME m <= d PROVE FALSE
    BY <1>2, <1>3
  <2>1. m * PageSize <= d * PageSize
    BY <1>1, <1>2, <1>3, Multiples
  <2>2. m * PageSize \in Nat /\ d * PageSize \in Nat
    BY <1>1, <1>2, <1>3, Multiples
  <2> QED
    BY <1>2, <1>3, <2>1, <2>2
<1>5. k <= m
  BY <1>2, <1>3, <1>4 DEF d
<1>6. k * PageSize <= m * PageSize
  BY <1>1, <1>2, <1>5, Multiples
<1> QED
  BY <1>2, <1>6

\* Who decodes still did before.
LEMMA ReadyKept ==
  ASSUME PageReady, UNCHANGED <<written, held, rows>>, pc' \in Stepping => pc \in Stepping,
         Decoding' \subseteq Decoding
  PROVE  PageReady'
<1>1. \A s \in Decoding' : HasPage(s) => HasPage(s)'
  BY DEF HasPage
<1> QED
  BY <1>1 DEF PageReady

\* The rows and their pages are as they were.
LEMMA PlacesStay ==
  ASSUME IInv, IInv', ReadInv, PlaceInv, Onward, PageReady',
         UNCHANGED <<written, devPos, rows, filling, assigned, held>>
  PROVE  PlaceInv'
<1>1. Within' /\ Tables' /\ HeldFit'
  BY DEF PlaceInv, Within, Tables, HeldFit
<1>2. Agree'
  BY SteppedBefore DEF PlaceInv, Agree, StepsOn
<1> QED
  BY <1>1, <1>2 DEF PlaceInv

\* The passes that draw for a request, as the specification counts them.
LEMMA DrawsDrawn ==
  ASSUME NEW passes \in Seq(Seq(Draw)), NEW r
  PROVE  {i \in DOMAIN passes : Draws(passes[i], r)} = DrawnAt(r, passes)
<1>1. DOMAIN passes = 1..Len(passes) /\ \A i \in 1..Len(passes) : passes[i] \in Seq(Draw)
  BY ElementOfSeq
<1>2. \A i \in 1..Len(passes) : DOMAIN passes[i] = 1..Len(passes[i])
  BY <1>1
<1> QED
  BY <1>1, <1>2 DEF Draws, DrawnAt, Drawn

\* A pass queued makes nobody decode who did not.
LEMMA QueuedDecoding ==
  ASSUME IInv, NEW pass \in Seq(Draw), queued' = Append(queued, pass),
         UNCHANGED <<tokens, rows, filling>>
  PROVE  Decoding' \subseteq Decoding
<1>1. queued \in Seq(Seq(Draw)) /\ queued' \in Seq(Seq(Draw))
  BY DEF IInv, PassTypes
<1>2. ASSUME NEW r \in Request, WantsMore(r)'
      PROVE  WantsMore(r)
  <2>1. Cardinality(DrawnAt(r, queued')) = Cardinality(DrawnAt(r, queued)) + One(Drawn(r, pass))
    BY <1>1, DrawnAppend
  <2>2. Pending(r) = Cardinality(DrawnAt(r, queued)) /\ Pending(r) \in Nat
    BY PendingDrawn
  <2>3. {i \in DOMAIN queued' : Draws(queued'[i], r)} = DrawnAt(r, queued')
    BY <1>1, DrawsDrawn
  <2>4. Pending(r)' = Cardinality(DrawnAt(r, queued'))
    BY <2>3 DEF Pending
  <2>5. One(Drawn(r, pass)) \in Nat
    BY DEF One
  <2>6. Pending(r)' = Pending(r) + One(Drawn(r, pass))
    BY <2>1, <2>2, <2>4
  <2>7. Len(tokens[r]) + Pending(r)' < MaxNew[r]
    BY <1>2 DEF WantsMore
  <2>8. Len(tokens[r]) \in Nat /\ MaxNew[r] \in Nat
    BY BudgetNumbers
  <2>9. Len(tokens[r]) + Pending(r) < MaxNew[r]
    BY <2>2, <2>5, <2>6, <2>7, <2>8
  <2> QED
    BY <2>9 DEF WantsMore
<1>3. \A s \in Slot : rows[s] # None => rows[s] \in Request
  BY RowRuns
<1> QED
  BY <1>2, <1>3 DEF Decoding

\* The steps that change neither a row nor its pages.
LEMMA OthersPlaces ==
  ASSUME IInv, IInv', ReadInv, PlaceInv,
         \/ \E r \in Request : Submit(r) \/ (Cancel(r) /\ CancelWaiting(r))
         \/ LoadWeights \/ BeginStep \/ GiveBackPage
         \/ GrowRead \/ GrowDone \/ ChunkFilling \/ ChunkDone
         \/ PlaceStart \/ PlaceDone \/ PlaceStop
         \/ BindDone \/ PassEnd \/ PassesDone \/ MixPassEnd
         \/ DecodeNone \/ PopPass \/ SkipToken \/ ReadDone
         \/ UNCHANGED vars
  PROVE  PlaceInv'
<1> DEFINE Stand == UNCHANGED <<written, devPos, rows, filling, assigned, held>>
<1>1. ASSUME \/ \E r \in Request : Submit(r) \/ (Cancel(r) /\ CancelWaiting(r))
             \/ LoadWeights \/ BeginStep
             \/ GrowRead \/ MixPassEnd \/ DecodeNone \/ PopPass \/ SkipToken \/ ReadDone
      PROVE  Stand /\ pc' \notin Stepping
  BY <1>1 DEF Submit, Cancel, CancelWaiting, LoadWeights, BeginStep, GrowRead, MixPassEnd,
       DecodeNone, PopPass, SkipToken, ReadDone, Stepping, At, Goto, rowVars, cellVars, Reading
<1>2. ASSUME \/ GiveBackPage \/ ChunkFilling \/ ChunkDone \/ PlaceStart \/ PlaceDone \/ PlaceStop
             \/ BindDone \/ PassEnd \/ PassesDone \/ UNCHANGED vars
      PROVE  Stand /\ (pc' \in Stepping => pc \in Stepping)
  BY <1>2 DEF GiveBackPage, ChunkFilling, ChunkDone, PlaceStart, PlaceDone, PlaceStop, BindDone,
       PassEnd, PassesDone, vars, Stepping, At, Goto, rowVars, cellVars
<1>3. ASSUME GrowDone
      PROVE  Stand /\ Needy = {}
  BY <1>3 DEF GrowDone, rowVars, cellVars
<1>4. ASSUME \/ GiveBackPage \/ ChunkFilling \/ ChunkDone \/ PlaceStart \/ PlaceDone \/ PlaceStop
             \/ BindDone \/ PassesDone \/ UNCHANGED vars \/ GrowDone
      PROVE  Decoding' \subseteq Decoding
  <2>1. DrawsStill
    BY <1>4, NoDraw DEF Quiet
  <2>2. UNCHANGED <<tokens, queued, rows, filling>>
    BY <2>1, <1>2, <1>3, <1>4 DEF DrawsStill
  <2> QED
    BY <2>2, DecodingSame
<1>5. ASSUME PassEnd
      PROVE  Decoding' \subseteq Decoding
  <2>1. /\ queued' = Append(queued, owners) /\ UNCHANGED <<tokens, rows, filling>>
    BY <1>5 DEF PassEnd, requestVars, rowVars
  <2>2. owners \in Seq(Draw)
    BY DEF IInv, PassTypes
  <2> QED
    BY <2>1, <2>2, QueuedDecoding
<1>6. CASE \/ \E r \in Request : Submit(r) \/ (Cancel(r) /\ CancelWaiting(r))
           \/ LoadWeights \/ BeginStep
           \/ GrowRead \/ MixPassEnd \/ DecodeNone \/ PopPass \/ SkipToken \/ ReadDone
  <2>1. PageReady'
    BY <1>1, <1>6 DEF PageReady
  <2>2. Onward
    BY <1>6 DEF Onward, Quiet
  <2> QED
    BY <2>1, <2>2, <1>1, <1>6, PlacesStay
<1>7. CASE \/ GiveBackPage \/ ChunkFilling \/ ChunkDone \/ PlaceStart \/ PlaceDone \/ PlaceStop
           \/ BindDone \/ PassEnd \/ PassesDone \/ UNCHANGED vars
  <2>1. Decoding' \subseteq Decoding
    BY <1>4, <1>5, <1>7
  <2>2. PageReady'
    BY <2>1, <1>2, <1>7, ReadyKept DEF PlaceInv
  <2>3. Onward
    BY <1>7 DEF Onward, Quiet
  <2> QED
    BY <2>2, <2>3, <1>2, <1>7, PlacesStay
<1>8. CASE GrowDone
  <2>1. \A s \in Decoding : written[s] \in Nat /\ Len(held[rows[s]]) \in Nat
    <3>1. \A s \in Decoding : s \in Slot /\ rows[s] \in Request
      BY RowRuns DEF Decoding
    <3> QED
      BY <3>1 DEF IInv, RowTypes, DeviceTypes
  <2>2. \A s \in Decoding : HasPage(s)
    <3> TAKE s \in Decoding
    <3>1. ~(written[s] \div PageSize >= Len(held[rows[s]]))
      BY <1>3, <1>8 DEF Needy
    <3>2. written[s] \div PageSize \in Nat /\ Len(held[rows[s]]) \in Nat
      BY <2>1, EngineAssumption, Division
    <3> QED
      BY <3>1, <3>2 DEF HasPage
  <2>3. \A s \in Decoding' : HasPage(s)'
    BY <2>2, <1>3, <1>4, <1>8 DEF HasPage
  <2>4. PageReady' /\ Onward
    BY <2>3, <1>8 DEF PageReady, Onward, Quiet
  <2> QED
    BY <2>4, <1>3, <1>8, PlacesStay
<1> QED
  BY <1>6, <1>7, <1>8

\* Pages for a request in no row, as many as a row has.
LEMMA HeldGrows ==
  ASSUME IInv, IInv', ReadInv, PlaceInv, Onward, NEW r \in Request \ Rowed,
         \A q \in Request \ {r} : held'[q] = held[q], Len(held'[r]) * PageSize <= MaxSeq,
         UNCHANGED <<written, devPos, rows, filling, assigned, tokens, queued, pc>>
  PROVE  PlaceInv'
<1>1. \A s \in Slot : rows[s] # None => rows[s] \in Request \ {r}
  BY RowRuns
<1>2. Within' /\ HeldFit'
  BY DEF PlaceInv, Within, HeldFit
<1>3. Tables'
  BY <1>1 DEF PlaceInv, Tables
<1>4. Agree'
  BY SteppedBefore DEF PlaceInv, Agree, StepsOn
<1>5. Decoding' = Decoding
  BY DecodingSame
<1>6. \A s \in Decoding : HasPage(s) => HasPage(s)'
  BY <1>1 DEF HasPage, Decoding
<1>7. PageReady'
  BY <1>5, <1>6 DEF PlaceInv, PageReady
<1> QED
  BY <1>2, <1>3, <1>4, <1>7 DEF PlaceInv

\* The request being placed takes no more pages than its text needs.
LEMMA SharingPlaces ==
  ASSUME IInv, IInv', ReadInv, AheadInv, SufficeInv', PlaceInv, ShareFound \/ TakeOwn
  PROVE  PlaceInv'
<1>1. /\ pc = "sharing" /\ pc' = "sharing"
      /\ UNCHANGED <<written, devPos, rows, filling, assigned, tokens, queued, pc, waiting>>
  BY DEF ShareFound, TakeOwn, At, requestVars, passVars, cellVars
<1>2. PICK r \in Request : r = Head(waiting) /\ r \in Range(waiting)
  <2>1. waiting # <<>> /\ waiting \in Seq(Request)
    BY <1>1 DEF IInv, Placement, RowTypes
  <2> QED
    BY <2>1, EndsOfLine
<1>3. r \notin Rowed /\ reason[r] = ""
  BY <1>2 DEF IInv, Admission
<1>4. \A q \in Request \ {r} : held'[q] = held[q]
  <2>1. held \in [Request -> Seq(Usable)]
    BY DEF IInv, RowTypes
  <2> QED
    BY <2>1, <1>2 DEF ShareFound, TakeOwn, TakeFor
<1>5. Len(held'[r]) + Len(found') <= Needed(r)
  <2>1. Len(held'[Head(waiting')]) + Len(found') <= Needed(Head(waiting))'
    BY <1>1 DEF SufficeInv
  <2>2. Needed(Head(waiting))' = Needed(Head(waiting))
    BY <1>1 DEF Needed, PromptOf
  <2> QED
    BY <2>1, <2>2, <1>1, <1>2
<1>6. Len(held'[r]) \in Nat /\ Len(found') \in Nat
  <2>1. held' \in [Request -> Seq(Usable)] /\ found' \in Seq(Usable)
    BY DEF IInv, RowTypes
  <2> QED
    BY <2>1
<1>7. Len(PromptOf(r)) \in Nat /\ Len(PromptOf(r)) < MaxSeq
  BY <1>3, TextOfRequest DEF AheadInv, Budgets, HasRoom, IInv
<1>8. Len(PromptOf(r)) \div PageSize + 1 = Needed(r) /\ Len(PromptOf(r)) \div PageSize \in Nat
  BY <1>7, EngineAssumption, Division DEF Needed, PagesFor
<1>9. Len(held'[r]) <= Len(PromptOf(r)) \div PageSize + 1
  BY <1>5, <1>6, <1>8
<1>10. Len(held'[r]) * PageSize <= MaxSeq
  BY <1>6, <1>7, <1>9, PagesFit
<1>11. Onward
  BY DEF Onward, Quiet
<1> QED
  BY <1>1, <1>3, <1>4, <1>10, <1>11, HeldGrows

\* A row at the end of its pages takes the next.
LEMMA GrowTakePlaces ==
  ASSUME IInv, IInv', ReadInv, PlaceInv, GrowTake
  PROVE  PlaceInv'
<1>1. /\ pc' = "grow" /\ UNCHANGED <<written, devPos, rows, filling, giving>> /\ Needy # {}
  BY DEF GrowTake, At
<1>2. PICK s \in Slot : s = Min(Needy) /\ s \in Needy /\ rows[s] # None
  <2>1. Needy \in SUBSET Nat /\ Needy \subseteq Slot
    BY EngineAssumption DEF Needy, Decoding, Slot
  <2>2. Min(Needy) \in Needy
    BY <2>1, <1>1, MinIsLeast
  <2> QED
    BY <2>1, <2>2 DEF Needy, Decoding
<1>3. PICK r \in Request : r = rows[s]
  BY <1>2, RowRuns
<1>4. TakeFor(r) /\ assigned' = [assigned EXCEPT ![s] = held'[r]]
  BY <1>2, <1>3 DEF GrowTake
<1>5. /\ Len(held'[r]) = Len(held[r]) + 1 /\ \A t \in Request \ {r} : held'[t] = held[t]
      /\ held' \in [Request -> Seq(Usable)]
  BY <1>1, <1>4, TakePage DEF IInv
<1>6. /\ written[s] \in Nat /\ written[s] < MaxSeq /\ Len(held[r]) \in Nat
      /\ assigned \in [Slot -> Seq(Usable)]
  <2>1. /\ written \in [Slot -> Nat] /\ held \in [Request -> Seq(Usable)]
        /\ assigned \in [Slot -> Seq(Usable)]
    BY DEF IInv, RowTypes, DeviceTypes
  <2>2. written[s] < MaxSeq
    BY DEF PlaceInv, Within
  <2> QED
    BY <2>1, <2>2
<1>7. written[s] \div PageSize >= Len(held[r])
  BY <1>2, <1>3 DEF Needy
<1>8. Len(held'[r]) * PageSize <= MaxSeq
  <2>1. written[s] \div PageSize \in Nat
    BY <1>6, EngineAssumption, Division
  <2>2. Len(held'[r]) \in Nat /\ Len(held'[r]) <= written[s] \div PageSize + 1
    BY <1>5, <1>6, <1>7, <2>1
  <2> QED
    BY <2>2, <1>6, PagesFit
<1>9. Within'
  BY <1>1 DEF PlaceInv, Within
<1>10. HeldFit'
  BY <1>5, <1>8 DEF PlaceInv, HeldFit
<1>11. Tables'
  <2>1. \A t \in Slot \ {s} : rows[t] # None => rows[t] \in Request \ {r}
    BY <1>2, <1>3, RowRuns DEF IInv, Admission
  <2>2. \A t \in Slot \ {s} : assigned'[t] = assigned[t]
    BY <1>4, <1>6
  <2>3. assigned'[s] = held'[r]
    BY <1>4, <1>6
  <2> QED
    BY <1>1, <1>2, <1>3, <1>5, <2>1, <2>2, <2>3 DEF PlaceInv, Tables
<1>12. Agree'
  <2>1. Onward
    BY DEF Onward, Quiet
  <2> QED
    BY <2>1, <1>1, SteppedBefore DEF PlaceInv, Agree, StepsOn
<1>13. PageReady'
  BY <1>1 DEF PageReady, Stepping
<1> QED
  BY <1>9, <1>10, <1>11, <1>12, <1>13 DEF PlaceInv

\* A row is freed: its pages leave the device's table, the others stand.
LEMMA ReleasePlaces ==
  ASSUME IInv, IInv', ReadInv, PlaceInv, Onward, NEW r \in Rowed, NEW text, Release(r, text),
         UNCHANGED devPos, pc' \notin Stepping
  PROVE  PlaceInv'
<1>1. PICK s \in Slot : s = SlotOf(r) /\ rows[s] = r /\ rows'[s] = None
  BY FreedRow
<1>2. /\ r \in Request /\ \A t \in Slot \ {s} : rows'[t] = rows[t] /\ rows[t] # r
      /\ Range(filling') = Range(filling) \ {r}
  BY <1>1, FreedRow
<1>3. /\ held' = [held EXCEPT ![r] = <<>>] /\ written' = [written EXCEPT ![s] = 0]
      /\ assigned' = [assigned EXCEPT ![s] = <<>>]
  BY <1>1 DEF Release
<1>4. /\ held \in [Request -> Seq(Usable)] /\ written \in [Slot -> Nat]
      /\ assigned \in [Slot -> Seq(Usable)]
  BY DEF IInv, RowTypes, DeviceTypes
<1>5. /\ written'[s] = 0 /\ assigned'[s] = <<>> /\ held'[r] = <<>>
      /\ \A t \in Slot \ {s} : written'[t] = written[t] /\ assigned'[t] = assigned[t]
      /\ \A q \in Request \ {r} : held'[q] = held[q]
  BY <1>2, <1>3, <1>4
<1>6. Within'
  <2>1. 0 < MaxSeq
    BY EngineAssumption
  <2> QED
    BY <2>1, <1>5 DEF PlaceInv, Within
<1>7. Tables'
  <2>1. \A t \in Slot \ {s} : rows[t] # None => rows[t] \in Request \ {r}
    BY <1>2, RowRuns
  <2> QED
    BY <2>1, <1>1, <1>2, <1>5 DEF PlaceInv, Tables
<1>8. HeldFit'
  <2>1. Len(<<>>) * PageSize <= MaxSeq
    BY EngineAssumption
  <2> QED
    BY <2>1, <1>5 DEF PlaceInv, HeldFit
<1>9. Agree'
  <2> SUFFICES ASSUME NEW t \in Slot, StepsOn(t)' PROVE written'[t] = devPos'[t]
    BY DEF Agree
  <2>1. rows'[t] # None /\ rows'[t] \notin Range(filling')
    BY DEF StepsOn
  <2>2. t \in Slot \ {s} /\ rows'[t] = rows[t] /\ rows[t] \notin Range(filling)
    BY <2>1, <1>1, <1>2
  <2>3. StepsOn(t)
    BY <2>2, SteppedBefore
  <2> QED
    BY <2>2, <2>3, <1>5 DEF PlaceInv, Agree
<1>10. PageReady'
  BY DEF PageReady
<1> QED
  BY <1>6, <1>7, <1>8, <1>9, <1>10 DEF PlaceInv

\* The actions that free a row.
LEMMA FreesPlaces ==
  ASSUME IInv, IInv', ReadInv, PlaceInv,
         \/ \E r \in Request : Cancel(r) /\ CancelRow(r)
         \/ GrowPreempt \/ ReadToken
  PROVE  PlaceInv'
<1>1. ASSUME NEW r \in Request, Cancel(r), CancelRow(r)
      PROVE  PlaceInv'
  <2>1. /\ pc' = "idle" /\ UNCHANGED devPos /\ r \in Rowed /\ Release(r, PromptOf(r))
    BY <1>1, EngineAssumption DEF Cancel, CancelRow, At, cellVars, Rowed
  <2>2. Onward
    BY <1>1 DEF Onward
  <2> QED
    BY <2>1, <2>2, ReleasePlaces DEF Stepping
<1>2. CASE GrowPreempt
  <2>1. /\ pc = "grow" /\ short /\ pc' = "grow" /\ UNCHANGED devPos
        /\ Release(Victim, PromptOf(Victim))
    BY <1>2 DEF GrowPreempt, At, cellVars
  <2>2. Victim \in Rowed
    BY <2>1, VictimInRow
  <2>3. Onward
    BY <1>2 DEF Onward
  <2> QED
    BY <2>1, <2>2, <2>3, ReleasePlaces DEF Stepping
<1>3. CASE ReadToken
  <2>1. /\ pc' \notin Stepping /\ UNCHANGED devPos
    BY <1>3 DEF ReadToken, Reading, At, Stepping, cellVars
  <2>2. Onward
    BY <1>3 DEF Onward
  <2>3. PICK r \in Rowed, text \in Seq(Token) :
          Release(r, text) \/ UNCHANGED <<poolVars, rowVars>>
    <3>1. PICK it \in Draw, r \in Request, text \in Seq(Token) :
             /\ r \in Rowed \ Range(filling)
             /\ IF reason'[r] # "" THEN Release(r, Prompt[r] \o text)
                                   ELSE UNCHANGED <<poolVars, rowVars>>
      BY <1>3, TokenRead
    <3>2. Prompt[r] \o text \in Seq(Token)
      BY RowTexts
    <3> QED
      BY <3>1, <3>2
  <2>4. CASE Release(r, text)
    BY <2>1, <2>2, <2>4, ReleasePlaces
  <2>5. CASE UNCHANGED <<poolVars, rowVars>>
    <3>1. UNCHANGED <<written, devPos, rows, filling, assigned, held>>
      BY <2>1, <2>5 DEF rowVars
    <3>2. PageReady'
      BY <2>1 DEF PageReady
    <3> QED
      BY <3>1, <3>2, <2>2, PlacesStay
  <2> QED
    BY <2>3, <2>4, <2>5
<1> QED
  BY <1>1, <1>2, <1>3

\* A request placed takes a row: its prompt is still to pass.
LEMMA BindPlaces ==
  ASSUME IInv, IInv', ReadInv, PlaceInv, Bind
  PROVE  PlaceInv'
<1> DEFINE q == placed[Shortest]
           z == Min(FreeSlots)
<1>1. /\ pc = "bind" /\ pc' = "bind" /\ placed # <<>>
      /\ UNCHANGED <<tokens, queued, held, devPos>>
      /\ rows' = [rows EXCEPT ![z] = q] /\ filling' = Append(filling, q)
      /\ written' = [written EXCEPT ![z] = 0] /\ assigned' = [assigned EXCEPT ![z] = held[q]]
  BY DEF Bind, At, passVars, requestVars, cellVars
<1>2. q \in Range(placed) /\ q \in Request /\ z \in Slot /\ rows[z] = None
  BY <1>1, BoundSlot
<1>3. PICK r \in Request, s \in Slot :
        /\ r \in Range(placed) /\ rows[s] = None
        /\ rows' = [rows EXCEPT ![s] = r] /\ filling' = Append(filling, r)
        /\ written' = [written EXCEPT ![s] = 0] /\ assigned' = [assigned EXCEPT ![s] = held[r]]
  BY <1>1, <1>2
<1> HIDE DEF q, z
<1>4. Range(filling') = Range(filling) \cup {r}
  BY <1>3, AppendOnce DEF IInv, RowTypes
<1>5. /\ rows'[s] = r /\ written'[s] = 0 /\ assigned'[s] = held[r]
      /\ \A t \in Slot \ {s} :
           rows'[t] = rows[t] /\ written'[t] = written[t] /\ assigned'[t] = assigned[t]
  <2>1. /\ rows \in [Slot -> Request \cup {None}] /\ written \in [Slot -> Nat]
        /\ assigned \in [Slot -> Seq(Usable)]
    BY DEF IInv, RowTypes, DeviceTypes
  <2> QED
    BY <2>1, <1>3
<1>6. Within'
  <2>1. 0 < MaxSeq
    BY EngineAssumption
  <2> QED
    BY <2>1, <1>1, <1>5 DEF PlaceInv, Within
<1>7. r # None
  BY EngineAssumption
<1>8. Tables' /\ HeldFit'
  BY <1>1, <1>5, <1>7 DEF PlaceInv, Tables, HeldFit
<1>9. Agree'
  <2> SUFFICES ASSUME NEW t \in Slot, StepsOn(t)' PROVE written'[t] = devPos'[t]
    BY DEF Agree
  <2>1. rows'[t] # None /\ rows'[t] \notin Range(filling')
    BY DEF StepsOn
  <2>2. t \in Slot \ {s} /\ rows'[t] = rows[t] /\ rows[t] \notin Range(filling)
    BY <2>1, <1>4, <1>5
  <2>3. Onward
    BY DEF Onward
  <2>4. StepsOn(t)
    BY <2>2, <2>3, SteppedBefore
  <2> QED
    BY <2>2, <2>4, <1>1, <1>5 DEF PlaceInv, Agree
<1>10. PageReady'
  <2>1. \A t : WantsMore(t)' <=> WantsMore(t)
    BY <1>1 DEF WantsMore, Pending
  <2>2. ASSUME NEW t \in Decoding'
        PROVE  t \in Decoding /\ t \in Slot \ {s}
    BY <2>1, <1>4, <1>5 DEF Decoding
  <2>3. \A t \in Decoding : HasPage(t)
    BY <1>1 DEF PlaceInv, PageReady, Stepping
  <2> QED
    BY <2>2, <2>3, <1>1, <1>5 DEF PageReady, HasPage
<1> QED
  BY <1>6, <1>8, <1>9, <1>10 DEF PlaceInv

\* The number of a row's position is bounded by the row.
LEMMA NextPosition ==
  ASSUME NEW n \in Nat
  PROVE  Smaller(n + 1, MaxSeq - 1) < MaxSeq /\ Smaller(n + 1, MaxSeq - 1) \in Nat
BY EngineAssumption DEF Smaller

\* A step of the rows: each that decodes is one position on, on the host and on the device.
LEMMA StepPlaces ==
  ASSUME IInv, IInv', ReadInv, PlaceInv, MixStep \/ DecodeStep
  PROVE  PlaceInv'
<1>1. /\ pc \in {"mix", "decode"} /\ pc' \notin Stepping
      /\ UNCHANGED <<rows, filling, held, assigned>> /\ \E parked : StepRows(parked)
  BY DEF MixStep, DecodeStep, At, Goto, Stepping
<1>2. /\ written' = [s \in Slot |-> IF s \in Decoding THEN Smaller(written[s] + 1, MaxSeq - 1)
                                                      ELSE written[s]]
      /\ devPos' = [s \in Slot |-> IF assigned[s] = <<>> THEN 0
                                   ELSE Smaller(devPos[s] + 1, MaxSeq - 1)]
  BY <1>1 DEF StepRows, DeviceStep, CountStep
<1>3. written \in [Slot -> Nat] /\ devPos \in [Slot -> Nat]
  BY DEF IInv, DeviceTypes
<1>4. Within'
  <2> SUFFICES ASSUME NEW s \in Slot PROVE written'[s] < MaxSeq /\ devPos'[s] < MaxSeq
    BY DEF Within
  <2>1. /\ Smaller(written[s] + 1, MaxSeq - 1) < MaxSeq
        /\ Smaller(devPos[s] + 1, MaxSeq - 1) < MaxSeq
    BY <1>3, NextPosition
  <2>2. written[s] < MaxSeq /\ 0 < MaxSeq
    BY EngineAssumption DEF PlaceInv, Within
  <2>3. written'[s] = Smaller(written[s] + 1, MaxSeq - 1) \/ written'[s] = written[s]
    BY <1>2
  <2>4. devPos'[s] = Smaller(devPos[s] + 1, MaxSeq - 1) \/ devPos'[s] = 0
    BY <1>2
  <2> QED
    BY <2>1, <2>2, <2>3, <2>4
<1>5. Tables' /\ HeldFit'
  BY <1>1 DEF PlaceInv, Tables, HeldFit
<1>6. Agree'
  <2> SUFFICES ASSUME NEW s \in Slot, StepsOn(s)' PROVE written'[s] = devPos'[s]
    BY DEF Agree
  <2>1. rows'[s] = rows[s] /\ rows[s] # None /\ rows[s] \notin Range(filling)
    BY <1>1 DEF StepsOn
  <2>2. StepsOn(s)
    <3>1. Onward
      BY DEF Onward
    <3> QED
      BY <3>1, <2>1, SteppedBefore
  <2>3. s \in Decoding
    BY <2>2, <1>1, DecodingStepsOn
  <2>4. written[s] = devPos[s] /\ HasPage(s) /\ assigned[s] = held[rows[s]]
    BY <2>1, <2>2, <2>3, <1>1 DEF PlaceInv, Agree, PageReady, Stepping, Tables
  <2>5. assigned[s] # <<>>
    <3>1. written[s] \div PageSize \in Nat
      BY <1>3, EngineAssumption, Division
    <3>2. written[s] \div PageSize < Len(assigned[s])
      BY <2>4 DEF HasPage
    <3>3. Len(assigned[s]) # 0
      BY <3>1, <3>2
    <3>4. Len(<<>>) = 0
      OBVIOUS
    <3> QED
      BY <3>3, <3>4
  <2> QED
    BY <1>2, <2>3, <2>4, <2>5
<1>7. PageReady'
  BY <1>1 DEF PageReady
<1> QED
  BY <1>4, <1>5, <1>6, <1>7 DEF PlaceInv

\* The prompt of a piece that passes is being filled.
LEMMA PieceFills ==
  ASSUME IInv, PiecesApart, pc \in {"pass", "mixpass"}, chunks # <<>>
  PROVE  chunks[1].req \in Range(filling)
<1>1. chunks \in Seq(Piece) /\ placed = <<>>
  BY DEF IInv, PassTypes, Placement, Placing
<1>2. 1 \in 1..Len(chunks)
  BY <1>1
<1> QED
  BY <1>1, <1>2, EmptyLine DEF PiecesApart, Passing

\* A piece passes: with the last, the row is at the end of its prompt, whose pages it has.
LEMMA PassPlaces ==
  ASSUME IInv, IInv', ReadInv, PiecesApart, AheadInv, PlaceInv, PassPiece
  PROVE  PlaceInv'
<1>1. PICK chunk \in Piece, stop \in Nat :
         /\ chunks # <<>> /\ chunk = chunks[1]
         /\ chunk.req \in Rowed /\ stop <= Len(PromptOf(chunk.req))
         /\ Prefill(chunk, stop)
  BY PieceThatPasses
<1>2. /\ pc \in {"pass", "mixpass"} /\ pc' = pc
      /\ UNCHANGED <<tokens, queued, rows, held, assigned>>
  BY DEF PassPiece, At, requestVars, passVars
<1>3. PICK r \in Rowed : r = chunk.req /\ r \in Request
  BY <1>1, SlotOfRow DEF IInv
<1>4. r \in Range(filling)
  BY <1>1, <1>2, <1>3, PieceFills
<1>5. PICK s \in Slot : s = SlotOf(r) /\ rows[s] = r
  BY SlotOfRow DEF IInv
<1>6. \/ /\ stop = Len(PromptOf(r))
         /\ devPos' = [devPos EXCEPT ![s] = stop]
         /\ filling' = Without(filling, r)
         /\ written' = [written EXCEPT ![s] = stop]
      \/ /\ devPos' = [devPos EXCEPT ![s] = MaxSeq - 1]
         /\ UNCHANGED <<filling, written>>
  BY <1>1, <1>3, <1>5 DEF Prefill
<1>7. \A t \in Slot \ {s} : rows[t] # r
  BY <1>5, EngineAssumption DEF IInv, Admission, Rowed
<1>8. \A t \in Slot \ {s} : written'[t] = written[t] /\ devPos'[t] = devPos[t]
  <2>1. written \in [Slot -> Nat] /\ devPos \in [Slot -> Nat]
    BY DEF IInv, DeviceTypes
  <2> QED
    BY <2>1, <1>6
<1>9. \A q : q # r => (q \in Range(filling') <=> q \in Range(filling))
  <2>1. filling \in Seq(Request) /\ Once(filling)
    BY DEF IInv, RowTypes, Admission
  <2>2. Range(Without(filling, r)) = Range(filling) \ {r}
    BY <2>1, WithoutOnce
  <2> QED
    BY <2>2, <1>6
<1>10. \/ /\ stop = Len(PromptOf(r)) /\ written'[s] = stop /\ devPos'[s] = stop
       \/ /\ written'[s] = written[s] /\ devPos'[s] = MaxSeq - 1 /\ r \in Range(filling')
  <2>1. written \in [Slot -> Nat] /\ devPos \in [Slot -> Nat]
    BY DEF IInv, DeviceTypes
  <2> QED
    BY <2>1, <1>4, <1>6
<1>11. Len(PromptOf(r)) < MaxSeq /\ Len(PromptOf(r)) \in Nat
  <2>1. reason[r] = ""
    BY <1>4 DEF IInv, Admission
  <2> QED
    BY <2>1, <1>3, TextOfRequest DEF AheadInv, Budgets, HasRoom, IInv
<1>12. Within'
  <2>1. MaxSeq - 1 < MaxSeq
    BY EngineAssumption
  <2>2. written'[s] < MaxSeq /\ devPos'[s] < MaxSeq
    BY <2>1, <1>10, <1>11 DEF PlaceInv, Within
  <2> QED
    BY <2>2, <1>8 DEF PlaceInv, Within
<1>13. Tables' /\ HeldFit'
  BY <1>2 DEF PlaceInv, Tables, HeldFit
<1>14. Agree'
  <2> SUFFICES ASSUME NEW t \in Slot, StepsOn(t)' PROVE written'[t] = devPos'[t]
    BY DEF Agree
  <2>1. rows'[t] # None /\ rows'[t] \notin Range(filling')
    BY DEF StepsOn
  <2>2. CASE t = s
    BY <2>1, <2>2, <1>2, <1>5, <1>10
  <2>3. CASE t # s
    <3>1. rows'[t] = rows[t] /\ rows[t] \notin Range(filling)
      BY <2>1, <2>3, <1>2, <1>7, <1>9
    <3>2. Onward
      BY DEF Onward
    <3>3. StepsOn(t)
      BY <3>1, <3>2, SteppedBefore
    <3> QED
      BY <2>3, <3>3, <1>8 DEF PlaceInv, Agree
  <2> QED
    BY <2>2, <2>3
<1>15. PageReady'
  <2> SUFFICES ASSUME pc \in Stepping, NEW t \in Decoding' PROVE HasPage(t)'
    BY <1>2 DEF PageReady
  <2>1. t \in Slot /\ rows[t] # None /\ rows[t] \notin Range(filling') /\ WantsMore(rows[t])
    BY <1>2 DEF Decoding, WantsMore, Pending
  <2>2. CASE t = s
    <3>1. written'[s] = Len(PromptOf(r))
      BY <2>1, <2>2, <1>5, <1>10
    <3>2. Len(held[r]) >= Len(PromptOf(r)) \div PageSize + 1
      BY <1>4 DEF IInv, FillingHold, PagesFor
    <3>3. Len(PromptOf(r)) \div PageSize \in Nat /\ Len(held[r]) \in Nat
      <4>1. Len(PromptOf(r)) \div PageSize \in Nat
        BY <1>11, EngineAssumption, Division
      <4>2. held \in [Request -> Seq(Usable)]
        BY DEF IInv, RowTypes
      <4> QED
        BY <4>1, <4>2, <1>3
    <3>4. Len(PromptOf(r)) \div PageSize < Len(held[r])
      BY <3>2, <3>3
    <3> QED
      BY <3>1, <3>4, <2>2, <1>2, <1>5 DEF HasPage
  <2>3. CASE t # s
    <3>1. t \in Decoding
      BY <2>1, <2>3, <1>7, <1>9 DEF Decoding
    <3>2. HasPage(t)
      BY <3>1 DEF PlaceInv, PageReady
    <3> QED
      BY <3>2, <2>1, <2>3, <1>2, <1>8 DEF HasPage
  <2> QED
    BY <2>2, <2>3
<1> QED
  BY <1>12, <1>13, <1>14, <1>15 DEF PlaceInv

\* All forgotten: no row has a request.
LEMMA ResetPlaces ==
  ASSUME IInv, PlaceInv, Reset
  PROVE  PlaceInv'
<1>1. /\ rows' = [s \in Slot |-> None] /\ held' = [r \in Request |-> <<>>]
      /\ written' = [s \in Slot |-> 0] /\ assigned' = [s \in Slot |-> <<>>]
      /\ devPos' = devPos /\ pc' = "idle"
  BY DEF Reset, At
<1>2. 0 < MaxSeq /\ Len(<<>>) * PageSize <= MaxSeq
  BY EngineAssumption
<1>3. Within' /\ Tables' /\ HeldFit'
  BY <1>1, <1>2 DEF PlaceInv, Within, Tables, HeldFit
<1>4. Agree' /\ PageReady'
  BY <1>1 DEF Agree, StepsOn, PageReady, Stepping
<1> QED
  BY <1>3, <1>4 DEF PlaceInv

\* It begins so.
LEMMA InitPlaces ==
  ASSUME Init
  PROVE  PlaceInv
<1>1. /\ rows = [s \in Slot |-> None] /\ held = [r \in Request |-> <<>>]
      /\ written = [s \in Slot |-> 0] /\ assigned = [s \in Slot |-> <<>>]
      /\ devPos = [s \in Slot |-> 0] /\ pc = "idle"
  BY DEF Init
<1>2. 0 < MaxSeq /\ Len(<<>>) * PageSize <= MaxSeq
  BY EngineAssumption
<1>3. Within /\ Tables /\ HeldFit
  BY <1>1, <1>2 DEF Within, Tables, HeldFit
<1>4. Agree /\ PageReady
  BY <1>1 DEF Agree, StepsOn, PageReady, Stepping
<1> QED
  BY <1>3, <1>4 DEF PlaceInv

\* Every step keeps it.
LEMMA PlaceNext ==
  ASSUME IInv, IInv', ReadInv, PiecesApart, AheadInv, SufficeInv', PlaceInv, [Next]_vars
  PROVE  PlaceInv'
<1>1. CASE Reset
  BY <1>1, ResetPlaces
<1>2. CASE \E r \in Request : Submit(r) \/ Cancel(r)
  <2>1. \/ \E r \in Request : Submit(r) \/ (Cancel(r) /\ CancelWaiting(r))
        \/ \E r \in Request : Cancel(r) /\ CancelRow(r)
    BY <1>2 DEF Cancel
  <2> QED
    BY <2>1, OthersPlaces, FreesPlaces
<1>3. CASE \/ LoadWeights \/ BeginStep \/ GiveBackPage
           \/ GrowRead \/ GrowDone \/ ChunkFilling \/ ChunkDone
           \/ PlaceStart \/ PlaceDone \/ PlaceStop
           \/ BindDone \/ PassEnd \/ PassesDone \/ MixPassEnd
           \/ DecodeNone \/ PopPass \/ SkipToken \/ ReadDone
           \/ UNCHANGED vars
  BY <1>3, OthersPlaces
<1>4. CASE ShareFound \/ TakeOwn
  BY <1>4, SharingPlaces
<1>5. CASE GrowTake
  BY <1>5, GrowTakePlaces
<1>6. CASE GrowPreempt \/ ReadToken
  BY <1>6, FreesPlaces
<1>7. CASE Bind
  BY <1>7, BindPlaces
<1>8. CASE MixStep \/ DecodeStep
  BY <1>8, StepPlaces
<1>9. CASE PassPiece
  BY <1>9, PassPlaces
<1> QED
  BY <1>1, <1>2, <1>3, <1>4, <1>5, <1>6, <1>7, <1>8, <1>9 DEF Next, Step, Client, Rest

\* The rows' positions, with what they rest on.
LEMMA PlacesStand == Spec => [](IInv /\ ReadInv /\ AheadInv /\ PlaceInv)
<1>1. Init => SufficeInv /\ PlaceInv
  BY InitPlaces DEF Init, SufficeInv
<1>2. IInv /\ SufficeInv /\ [Next]_vars => SufficeInv'
  BY SufficeNext
<1>3. /\ IInv /\ IInv' /\ ReadInv /\ PiecesApart /\ AheadInv /\ SufficeInv' /\ PlaceInv
      /\ [Next]_vars
      => PlaceInv'
  BY PlaceNext
<1> QED
  BY <1>1, <1>2, <1>3, DrawsStand, TokensInBounds, PTL DEF Spec

\* A row that steps has on the host the position it has on the device, and the page it
\* writes is its own and in the device's table: `grow` comes before the step, and a row at
\* its end steps in place (_grow, _decode).
THEOREM RowsHavePages == Spec => []StepHasPage
<1>1. IInv /\ ReadInv /\ PlaceInv => StepHasPage
  <2> SUFFICES ASSUME IInv, ReadInv, PlaceInv, pc \in {"mix", "decode"}, NEW s \in Decoding
               PROVE  /\ written[s] = devPos[s]
                      /\ devPos[s] \div PageSize < Len(assigned[s])
                      /\ assigned[s] = held[rows[s]]
    BY DEF StepHasPage, At
  <2>1. s \in Slot /\ rows[s] # None
    BY DEF Decoding
  <2>2. StepsOn(s)
    BY <2>1, DecodingStepsOn
  <2>3. written[s] = devPos[s] /\ HasPage(s) /\ assigned[s] = held[rows[s]]
    BY <2>1, <2>2 DEF PlaceInv, Agree, PageReady, Stepping, Tables
  <2> QED
    BY <2>3 DEF HasPage
<1> QED
  BY <1>1, PlacesStand, PTL

\* What each variable of the engine holds; a row's pages fit its line of the table and its
\* position is within the row.
THEOREM EngineTypes == Spec => []TypeOK
<1>1. IInv /\ AheadInv /\ PlaceInv => TypeOK
  <2> SUFFICES ASSUME IInv, AheadInv, PlaceInv PROVE TypeOK
    OBVIOUS
  <2>1. PoolTypeOK
    BY DEF IInv, PoolOK
  <2>2. RowTypes /\ PassTypes /\ DeviceTypes
    BY DEF IInv
  <2>3. Seq(Usable) \subseteq Seq(Page)
    <3>1. Usable \subseteq Page
      BY DEF Usable
    <3> QED
      BY <3>1
  <2>4. \A s \in Slot : Len(assigned[s]) * PageSize <= MaxSeq
    <3> TAKE s \in Slot
    <3>1. assigned[s] = IF rows[s] = None THEN <<>> ELSE held[rows[s]]
      BY DEF PlaceInv, Tables
    <3>2. Len(<<>>) * PageSize <= MaxSeq
      BY EngineAssumption
    <3>3. CASE rows[s] = None
      BY <3>1, <3>2, <3>3
    <3>4. CASE rows[s] # None
      <4>1. rows[s] \in Request
        BY <3>4, RowRuns
      <4> QED
        BY <3>1, <3>4, <4>1 DEF PlaceInv, HeldFit
    <3> QED
      BY <3>3, <3>4
  <2>5. written \in [Slot -> 0..(MaxSeq - 1)] /\ devPos \in [Slot -> 0..(MaxSeq - 1)]
    <3>1. written \in [Slot -> Nat] /\ devPos \in [Slot -> Nat] /\ MaxSeq \in Nat
      BY <2>2, EngineAssumption DEF DeviceTypes
    <3>2. \A s \in Slot : written[s] < MaxSeq /\ devPos[s] < MaxSeq
      BY DEF PlaceInv, Within
    <3>3. \A s \in Slot : written[s] \in 0..(MaxSeq - 1) /\ devPos[s] \in 0..(MaxSeq - 1)
      BY <3>1, <3>2
    <3> QED
      BY <3>1, <3>3
  <2>6. \A pass \in Seq(Draw) : \A j \in DOMAIN pass : OwnerOK(pass[j])
    <3>1. \A it \in Draw : OwnerOK(it)
      BY DEF Draw, OwnerOK
    <3>2. ASSUME NEW pass \in Seq(Draw), NEW j \in DOMAIN pass PROVE pass[j] \in Draw
      OBVIOUS
    <3> QED
      BY <3>1, <3>2
  <2>7. /\ \A i \in DOMAIN queued : \A j \in DOMAIN queued[i] : OwnerOK(queued[i][j])
        /\ \A i \in DOMAIN reading : OwnerOK(reading[i])
        /\ \A i \in DOMAIN owners : OwnerOK(owners[i])
    <3>1. reading \in Seq(Draw) /\ owners \in Seq(Draw) /\ queued \in Seq(Seq(Draw))
      BY <2>2 DEF PassTypes
    <3>2. \A i \in DOMAIN queued : queued[i] \in Seq(Draw)
      BY <3>1
    <3> QED
      BY <3>1, <3>2, <2>6
  <2>8. ahead \in 0..2
    BY DEF AheadInv, Trail
  <2>9. held \in [Request -> Seq(Page)] /\ assigned \in [Slot -> Seq(Page)]
    BY <2>2, <2>3 DEF RowTypes, DeviceTypes
  <2>10. giving \in Seq(Page) /\ found \in Seq(Page)
    BY <2>2, <2>3 DEF RowTypes
  <2> QED
    BY <2>1, <2>2, <2>4, <2>5, <2>7, <2>8, <2>9, <2>10
    DEF TypeOK, RowTypes, PassTypes, DeviceTypes, Reason, Label
<1> QED
  BY <1>1, PlacesStand, PTL
=============================================================================
