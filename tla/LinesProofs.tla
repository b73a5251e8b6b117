----------------------------- MODULE LinesProofs -----------------------------
(* What the operations on lines do to the set of their elements, and that    *)
(* they keep a line free of repetition.                                     *)
EXTENDS Lines, TLAPS, SequenceTheorems, WellFoundedInduction, FiniteSetTheorems

\* A line without repetition.
Once(seq) == IsInjective(seq)

\* The elements of a sequence over S are its values, and belong to S.
LEMMA RangeOfLine ==
  ASSUME NEW S, NEW seq \in Seq(S)
  PROVE  /\ \A i \in 1..Len(seq) : seq[i] \in Range(seq)
         /\ \A x \in Range(seq) : \E i \in 1..Len(seq) : seq[i] = x
         /\ Range(seq) \subseteq S
<1>1. DOMAIN seq = 1..Len(seq) /\ \A i \in 1..Len(seq) : seq[i] \in S
  OBVIOUS
<1> QED BY <1>1 DEF Range

\* A line is free of repetition when its values at different places differ.
LEMMA OnceOfLine ==
  ASSUME NEW S, NEW seq \in Seq(S)
  PROVE  Once(seq) <=> \A i, j \in 1..Len(seq) : seq[i] = seq[j] => i = j
<1>1. DOMAIN seq = 1..Len(seq)
  OBVIOUS
<1> QED BY <1>1 DEF Once, IsInjective

\* An element not in a line may join it at its end.
LEMMA AppendOnce ==
  ASSUME NEW S, NEW seq \in Seq(S), NEW x \in S
  PROVE  /\ Append(seq, x) \in Seq(S)
         /\ Range(Append(seq, x)) = Range(seq) \cup {x}
         /\ Once(seq) /\ x \notin Range(seq) => Once(Append(seq, x))
<1> DEFINE t == Append(seq, x)
<1>1. t \in Seq(S) /\ Len(t) = Len(seq) + 1
  OBVIOUS
<1>2. \A i \in 1..Len(seq) : t[i] = seq[i]
  OBVIOUS
<1>3. t[Len(seq) + 1] = x
  OBVIOUS
<1> HIDE DEF t
<1>4. Range(t) = Range(seq) \cup {x}
  <2>1. DOMAIN t = 1..(Len(seq) + 1) /\ DOMAIN seq = 1..Len(seq)
    BY <1>1
  <2>2. \A i \in 1..(Len(seq) + 1) : i \in 1..Len(seq) \/ i = Len(seq) + 1
    OBVIOUS
  <2>3. Len(seq) + 1 \in 1..(Len(seq) + 1) /\ 1..Len(seq) \subseteq 1..(Len(seq) + 1)
    OBVIOUS
  <2> QED BY <2>1, <2>2, <2>3, <1>2, <1>3 DEF Range
<1>5. ASSUME Once(seq), x \notin Range(seq) PROVE Once(t)
  BY <1>1, <1>2, <1>3, <1>5, RangeOfLine, OnceOfLine
<1> QED BY <1>1, <1>4, <1>5 DEF t

\* The first of a line leaves it.
LEMMA TailOnce ==
  ASSUME NEW S, NEW seq \in Seq(S), seq # <<>>
  PROVE  /\ Tail(seq) \in Seq(S)
         /\ Head(seq) \in Range(seq)
         /\ Range(Tail(seq)) \subseteq Range(seq)
         /\ Once(seq) => Once(Tail(seq)) /\ Range(Tail(seq)) = Range(seq) \ {Head(seq)}
<1> DEFINE t == Tail(seq)
<1>1. t \in Seq(S) /\ Len(t) = Len(seq) - 1 /\ Len(seq) \in Nat \ {0} /\ Head(seq) = seq[1]
  OBVIOUS
<1>2. \A i \in 1..Len(t) : t[i] = seq[i + 1]
  OBVIOUS
<1> HIDE DEF t
<1>3. Head(seq) \in Range(seq)
  BY <1>1, RangeOfLine
<1>4. Range(t) \subseteq Range(seq)
  BY <1>1, <1>2, RangeOfLine
<1>5. ASSUME Once(seq) PROVE Once(t) /\ Range(t) = Range(seq) \ {Head(seq)}
  <2>1. Once(t)
    BY <1>1, <1>2, <1>5, OnceOfLine
  <2>2. Head(seq) \notin Range(t)
    <3> SUFFICES ASSUME NEW i \in 1..Len(t), t[i] = seq[1] PROVE FALSE
      BY <1>1, RangeOfLine
    <3>1. i + 1 \in 1..Len(seq) /\ 1 \in 1..Len(seq) /\ i + 1 # 1 /\ seq[i + 1] = seq[1]
      BY <1>1, <1>2
    <3> QED BY <3>1, <1>5, OnceOfLine
  <2>3. ASSUME NEW i \in 1..Len(seq), seq[i] # seq[1] PROVE seq[i] \in Range(t)
    <3>1. i - 1 \in 1..Len(t) /\ t[i - 1] = seq[i]
      BY <1>1, <1>2, <2>3
    <3> QED BY <3>1, <1>1, RangeOfLine
  <2> QED BY <2>1, <2>2, <2>3, <1>1, <1>4, RangeOfLine
<1> QED BY <1>1, <1>3, <1>4, <1>5 DEF t

\* The last of a line leaves it.
LEMMA FrontOnce ==
  ASSUME NEW S, NEW seq \in Seq(S), seq # <<>>
  PROVE  /\ Front(seq) \in Seq(S)
         /\ Last(seq) \in Range(seq)
         /\ Range(Front(seq)) \subseteq Range(seq)
         /\ Once(seq) => Once(Front(seq)) /\ Range(Front(seq)) = Range(seq) \ {Last(seq)}
<1> DEFINE t == Front(seq)
           n == Len(seq)
<1>1. n \in Nat /\ n > 0 /\ Last(seq) = seq[n]
  BY DEF Last
<1>2. t \in Seq(S) /\ Len(t) = n - 1 /\ \A i \in 1..Len(t) : t[i] = seq[i]
  <2>1. t = [i \in 1..(n - 1) |-> seq[i]]
    BY <1>1 DEF Front
  <2> QED BY <2>1, <1>1
<1> HIDE DEF t
<1>3. Last(seq) \in Range(seq)
  BY <1>1, RangeOfLine
<1>4. Range(t) \subseteq Range(seq)
  BY <1>1, <1>2, RangeOfLine
<1>5. ASSUME Once(seq) PROVE Once(t) /\ Range(t) = Range(seq) \ {Last(seq)}
  <2>1. Once(t)
    BY <1>1, <1>2, <1>5, OnceOfLine
  <2>2. Last(seq) \notin Range(t)
    BY <1>1, <1>2, <1>5, OnceOfLine, RangeOfLine
  <2>3. ASSUME NEW i \in 1..n, seq[i] # seq[n] PROVE seq[i] \in Range(t)
    BY <1>1, <1>2, <2>3, RangeOfLine
  <2> QED BY <2>1, <2>2, <2>3, <1>1, <1>4, RangeOfLine
<1> QED BY <1>2, <1>3, <1>4, <1>5 DEF t

\* A line is its first and the rest, or its last and those before.
LEMMA EndsOfLine ==
  ASSUME NEW S, NEW seq \in Seq(S), seq # <<>>
  PROVE  /\ Range(seq) = Range(Tail(seq)) \cup {Head(seq)}
         /\ Range(seq) = Range(Front(seq)) \cup {Last(seq)}
<1> DEFINE n == Len(seq)
           t == Tail(seq)
           f == Front(seq)
<1>1. n \in Nat /\ n > 0 /\ Head(seq) = seq[1] /\ Last(seq) = seq[n]
  BY DEF Last
<1>2. t \in Seq(S) /\ Len(t) = n - 1 /\ \A i \in 1..Len(t) : t[i] = seq[i + 1]
  OBVIOUS
<1>3. f \in Seq(S) /\ Len(f) = n - 1 /\ \A i \in 1..Len(f) : f[i] = seq[i]
  <2>1. f = [i \in 1..(n - 1) |-> seq[i]]
    BY <1>1 DEF Front
  <2> QED BY <2>1, <1>1
<1>4. Range(t) \subseteq Range(seq) /\ Range(f) \subseteq Range(seq)
  BY TailOnce, FrontOnce
<1> HIDE DEF t, f
<1>5. ASSUME NEW i \in 1..n
      PROVE  seq[i] \in Range(t) \cup {Head(seq)} /\ seq[i] \in Range(f) \cup {Last(seq)}
  <2>1. i = 1 \/ (i - 1 \in 1..Len(t) /\ t[i - 1] = seq[i])
    BY <1>1, <1>2
  <2>2. i = n \/ (i \in 1..Len(f) /\ f[i] = seq[i])
    BY <1>1, <1>3
  <2> QED BY <2>1, <2>2, <1>1, <1>2, <1>3, RangeOfLine
<1>6. Head(seq) \in Range(seq) /\ Last(seq) \in Range(seq)
  BY TailOnce, FrontOnce
<1> QED BY <1>4, <1>5, <1>6, RangeOfLine DEF t, f

\* Two lines with nothing in common make one.
LEMMA ConcatOnce ==
  ASSUME NEW S, NEW seq \in Seq(S), NEW more \in Seq(S)
  PROVE  /\ seq \o more \in Seq(S)
         /\ Range(seq \o more) = Range(seq) \cup Range(more)
         /\ Once(seq) /\ Once(more) /\ Range(seq) \cap Range(more) = {} => Once(seq \o more)
<1> DEFINE t == seq \o more
           n == Len(seq)
<1>1. t \in Seq(S) /\ Len(t) = n + Len(more) /\ n \in Nat /\ Len(more) \in Nat
  OBVIOUS
<1>2. \A i \in 1..n : t[i] = seq[i]
  OBVIOUS
<1>3. \A i \in 1..Len(more) : t[n + i] = more[i]
  OBVIOUS
<1> HIDE DEF t
<1>4. \A i \in 1..Len(t) : i \in 1..n \/ (i - n \in 1..Len(more) /\ t[i] = more[i - n])
  <2> TAKE i \in 1..Len(t)
  <2> SUFFICES ASSUME i \notin 1..n PROVE i - n \in 1..Len(more) /\ t[i] = more[i - n]
    OBVIOUS
  <2>1. i - n \in 1..Len(more) /\ n + (i - n) = i
    BY <1>1
  <2> QED BY <2>1, <1>3
<1>5. Range(t) = Range(seq) \cup Range(more)
  <2>1. ASSUME NEW i \in 1..Len(t) PROVE t[i] \in Range(seq) \cup Range(more)
    <3>1. CASE i \in 1..n
      BY <3>1, <1>2, RangeOfLine
    <3>2. CASE i \notin 1..n
      BY <3>2, <1>4, RangeOfLine
    <3> QED BY <3>1, <3>2
  <2>2. ASSUME NEW i \in 1..n PROVE seq[i] \in Range(t)
    BY <1>1, <1>2, RangeOfLine
  <2>3. ASSUME NEW i \in 1..Len(more) PROVE more[i] \in Range(t)
    <3>1. n + i \in 1..Len(t)
      BY <1>1
    <3> QED BY <3>1, <1>1, <1>3, RangeOfLine
  <2>4. Range(t) \subseteq Range(seq) \cup Range(more)
    BY <2>1, <1>1, RangeOfLine
  <2>5. Range(seq) \subseteq Range(t)
    BY <2>2, <1>1, RangeOfLine
  <2>6. Range(more) \subseteq Range(t)
    BY <2>3, <1>1, RangeOfLine
  <2> QED BY <2>4, <2>5, <2>6
<1>6. ASSUME Once(seq), Once(more), Range(seq) \cap Range(more) = {} PROVE Once(t)
  <2> SUFFICES ASSUME NEW i \in 1..Len(t), NEW j \in 1..Len(t), t[i] = t[j] PROVE i = j
    BY <1>1, OnceOfLine
  <2>1. CASE i \in 1..n /\ j \in 1..n
    BY <2>1, <1>2, <1>6, OnceOfLine
  <2>5. /\ \A k \in 1..n : t[k] \in Range(seq)
        /\ \A k \in 1..Len(t) : k \notin 1..n => t[k] \in Range(more)
    BY <1>2, <1>4, RangeOfLine
  <2>2. CASE i \in 1..n /\ j \notin 1..n
    BY <2>2, <2>5, <1>6
  <2>3. CASE i \notin 1..n /\ j \in 1..n
    BY <2>3, <2>5, <1>6
  <2>4. CASE i \notin 1..n /\ j \notin 1..n
    <3>1. i - n = j - n
      BY <2>4, <1>4, <1>6, OnceOfLine
    <3> QED BY <3>1, <1>1
  <2> QED BY <2>1, <2>2, <2>3, <2>4
<1> QED BY <1>1, <1>5, <1>6 DEF t

\* A slice of a line.
LEMMA SubSeqOnce ==
  ASSUME NEW S, NEW seq \in Seq(S), NEW m \in Nat \ {0}, NEW n \in 0..Len(seq)
  PROVE  /\ SubSeq(seq, m, n) \in Seq(S)
         /\ Len(SubSeq(seq, m, n)) = IF m <= n THEN n - m + 1 ELSE 0
         /\ \A i \in 1..Len(SubSeq(seq, m, n)) : SubSeq(seq, m, n)[i] = seq[m + i - 1]
         /\ Range(SubSeq(seq, m, n)) \subseteq Range(seq)
         /\ Once(seq) => Once(SubSeq(seq, m, n))
<1> DEFINE t == SubSeq(seq, m, n)
<1>1. t \in Seq(S) /\ Len(t) = IF m <= n THEN n - m + 1 ELSE 0
  OBVIOUS
<1>2. \A i \in 1..Len(t) : t[i] = seq[m + i - 1]
  OBVIOUS
<1> HIDE DEF t
<1>3. \A i \in 1..Len(t) : m + i - 1 \in 1..Len(seq)
  BY <1>1
<1>4. Range(t) \subseteq Range(seq)
  <2> SUFFICES ASSUME NEW i \in 1..Len(t) PROVE t[i] \in Range(seq)
    BY <1>1, RangeOfLine
  <2>1. t[i] = seq[m + i - 1] /\ m + i - 1 \in 1..Len(seq)
    BY <1>2, <1>3
  <2>2. \A j \in 1..Len(seq) : seq[j] \in Range(seq)
    BY RangeOfLine
  <2> QED BY <2>1, <2>2
<1>5. ASSUME Once(seq) PROVE Once(t)
  <2> SUFFICES ASSUME NEW i \in 1..Len(t), NEW j \in 1..Len(t), t[i] = t[j] PROVE i = j
    BY <1>1, OnceOfLine
  <2>1. m + i - 1 = m + j - 1
    <3>1. \A k, l \in 1..Len(seq) : seq[k] = seq[l] => k = l
      BY <1>5, OnceOfLine
    <3>2. /\ m + i - 1 \in 1..Len(seq) /\ m + j - 1 \in 1..Len(seq)
          /\ seq[m + i - 1] = seq[m + j - 1]
      BY <1>2, <1>3
    <3> QED BY <3>1, <3>2
  <2> QED BY <2>1
<1> QED BY <1>1, <1>2, <1>4, <1>5 DEF t

\* A line without repetition loses x and nothing else.
LEMMA WithoutOnce ==
  ASSUME NEW S, NEW seq \in Seq(S), NEW x, Once(seq)
  PROVE  /\ Without(seq, x) \in Seq(S)
         /\ Range(Without(seq, x)) = Range(seq) \ {x}
         /\ Once(Without(seq, x))
<1>1. CASE x \notin Range(seq)
  BY <1>1 DEF Without
<1>2. CASE x \in Range(seq)
  <2> DEFINE k == IndexIn(seq, x)
             n == Len(seq)
             before == SubSeq(seq, 1, k - 1)
             after == SubSeq(seq, k + 1, n)
  <2>1. n \in Nat /\ DOMAIN seq = 1..n
    OBVIOUS
  <2>2. k \in 1..n /\ seq[k] = x
    <3>1. \E i \in DOMAIN seq : seq[i] = x
      BY <1>2, <2>1, RangeOfLine
    <3> QED BY <3>1, <2>1 DEF IndexIn
  <2>3. Without(seq, x) = before \o after
    BY <1>2 DEF Without, RemoveAt
  <2> HIDE DEF k
  <2>4. k - 1 \in 0..n /\ k + 1 \in Nat \ {0} /\ n \in 0..n
    BY <2>1, <2>2
  <2>5. /\ before \in Seq(S) /\ Range(before) \subseteq Range(seq) /\ Once(before)
        /\ Len(before) = k - 1 /\ \A i \in 1..(k - 1) : before[i] = seq[i]
    <3>1. /\ before \in Seq(S) /\ Range(before) \subseteq Range(seq) /\ Once(before)
          /\ Len(before) = IF 1 <= k - 1 THEN (k - 1) - 1 + 1 ELSE 0
          /\ \A i \in 1..Len(before) : before[i] = seq[1 + i - 1]
      BY <2>4, SubSeqOnce
    <3>2. Len(before) = k - 1
      BY <3>1, <2>2
    <3> HIDE DEF before
    <3> QED BY <3>1, <3>2
  <2>6. /\ after \in Seq(S) /\ Range(after) \subseteq Range(seq) /\ Once(after)
        /\ Len(after) = n - k /\ \A i \in 1..(n - k) : after[i] = seq[k + i]
    <3>1. /\ after \in Seq(S) /\ Range(after) \subseteq Range(seq) /\ Once(after)
          /\ Len(after) = IF k + 1 <= n THEN n - (k + 1) + 1 ELSE 0
          /\ \A i \in 1..Len(after) : after[i] = seq[k + 1 + i - 1]
      BY <2>4, SubSeqOnce
    <3> HIDE DEF after, before, n
    <3>2. Len(after) = n - k
      <4> DEFINE length == Len(after)
      <4>1. length = IF k + 1 <= n THEN n - (k + 1) + 1 ELSE 0
        BY <3>1
      <4>2. n \in Nat /\ k \in Nat /\ k <= n
        BY <2>1, <2>2
      <4> HIDE DEF length
      <4>3. length = n - k
        BY <4>1, <4>2
      <4> QED BY <4>3 DEF length
    <3>3. \A i \in 1..(n - k) : k + 1 + i - 1 = k + i
      BY <2>1, <2>2
    <3> QED BY <3>1, <3>2, <3>3
  <2> HIDE DEF before, after
  <2>7. Range(before) \cap Range(after) = {}
    <3> SUFFICES ASSUME NEW i \in 1..(k - 1), NEW j \in 1..(n - k), seq[i] = seq[k + j]
                 PROVE  FALSE
      BY <2>5, <2>6, RangeOfLine
    <3>1. i \in 1..n /\ k + j \in 1..n /\ i # k + j
      BY <2>1, <2>2
    <3> QED BY <3>1, OnceOfLine
  <2>8. x \notin Range(before) /\ x \notin Range(after)
    <3>1. ASSUME NEW i \in 1..(k - 1) PROVE seq[i] # x
      <4>1. i \in 1..n /\ i # k
        BY <2>1, <2>2
      <4> QED BY <4>1, <2>2, OnceOfLine
    <3>2. ASSUME NEW j \in 1..(n - k) PROVE seq[k + j] # x
      <4>1. k + j \in 1..n /\ k + j # k
        BY <2>1, <2>2
      <4> QED BY <4>1, <2>2, OnceOfLine
    <3>3. x \notin Range(before)
      BY <3>1, <2>5, RangeOfLine
    <3>4. x \notin Range(after)
      BY <3>2, <2>6, RangeOfLine
    <3> QED BY <3>3, <3>4
  <2>9. Range(seq) \ {x} \subseteq Range(before) \cup Range(after)
    <3> SUFFICES ASSUME NEW i \in 1..n, seq[i] # x
                 PROVE  seq[i] \in Range(before) \cup Range(after)
      BY <2>1, RangeOfLine
    <3>1. CASE i < k
      <4>1. i \in 1..(k - 1)
        BY <3>1, <2>2
      <4> QED BY <4>1, <2>5, RangeOfLine
    <3>2. CASE i > k
      <4>1. i - k \in 1..(n - k) /\ k + (i - k) = i
        BY <3>2, <2>1, <2>2
      <4> QED BY <4>1, <2>6, RangeOfLine
    <3> QED BY <3>1, <3>2, <2>2
  <2> QED BY <2>3, <2>5, <2>6, <2>7, <2>8, <2>9, ConcatOnce
<1> QED BY <1>1, <1>2

\* Taking the k-th of a line away is taking it out of the line.
LEMMA RemoveAtOnce ==
  ASSUME NEW S, NEW seq \in Seq(S), Once(seq), NEW k \in 1..Len(seq)
  PROVE  RemoveAt(seq, k) = Without(seq, seq[k]) /\ Len(RemoveAt(seq, k)) = Len(seq) - 1
<1>1. seq[k] \in Range(seq) /\ DOMAIN seq = 1..Len(seq) /\ Len(seq) \in Nat
  BY RangeOfLine
<1>2. IndexIn(seq, seq[k]) = k
  <2>1. \A i \in 1..Len(seq) : seq[i] = seq[k] => i = k
    BY OnceOfLine
  <2> QED BY <2>1, <1>1 DEF IndexIn
<1> DEFINE n == Len(seq)
           before == SubSeq(seq, 1, k - 1)
           after == SubSeq(seq, k + 1, n)
<1>3. k - 1 \in 0..n /\ k + 1 \in Nat \ {0} /\ n \in 0..n /\ 1 \in Nat \ {0}
  BY <1>1
<1>4. before \in Seq(S) /\ Len(before) = IF 1 <= k - 1 THEN (k - 1) - 1 + 1 ELSE 0
  BY <1>3, SubSeqOnce
<1>5. after \in Seq(S) /\ Len(after) = IF k + 1 <= n THEN n - (k + 1) + 1 ELSE 0
  BY <1>3, SubSeqOnce
<1> HIDE DEF before, after
<1>6. Len(before \o after) = Len(before) + Len(after)
  <2>1. before \in Seq(S) /\ after \in Seq(S)
    BY <1>4, <1>5
  <2> QED BY <2>1
<1>7. Len(before) = k - 1 /\ Len(after) = n - k
  <2> DEFINE a == Len(before)
             b == Len(after)
  <2>1. /\ a = IF 1 <= k - 1 THEN (k - 1) - 1 + 1 ELSE 0
        /\ b = IF k + 1 <= n THEN n - (k + 1) + 1 ELSE 0
    BY <1>4, <1>5
  <2> HIDE DEF a, b, n
  <2>2. k \in Nat /\ n \in Nat /\ 1 <= k /\ k <= n
    BY <1>1 DEF n
  <2>3. a = k - 1 /\ b = n - k
    BY <2>1, <2>2
  <2> QED BY <2>3 DEF a, b
<1>8. RemoveAt(seq, k) = before \o after
  BY DEF RemoveAt, before, after
<1>9. Len(before \o after) = n - 1
  BY <1>1, <1>6, <1>7
<1> QED BY <1>1, <1>2, <1>8, <1>9 DEF Without

\* An element not in a line may go to its head.
LEMMA ConsOnce ==
  ASSUME NEW S, NEW seq \in Seq(S), NEW x \in S
  PROVE  /\ <<x>> \o seq \in Seq(S)
         /\ Range(<<x>> \o seq) = Range(seq) \cup {x}
         /\ Once(seq) /\ x \notin Range(seq) => Once(<<x>> \o seq)
<1> DEFINE one == <<x>>
<1>1. one \in Seq(S) /\ Len(one) = 1 /\ one[1] = x
  OBVIOUS
<1> HIDE DEF one
<1>2. \A i \in 1..Len(one) : i = 1
  BY <1>1
<1>3. Range(one) = {x}
  BY <1>1, <1>2, RangeOfLine
<1>4. Once(one)
  BY <1>1, <1>2, OnceOfLine
<1>5. /\ one \o seq \in Seq(S)
      /\ Range(one \o seq) = Range(seq) \cup {x}
      /\ Once(seq) /\ x \notin Range(seq) => Once(one \o seq)
  BY <1>1, <1>3, <1>4, ConcatOnce
<1> QED BY <1>5 DEF one

\* Nothing in a line is nothing in its range.
LEMMA EmptyLine ==
  ASSUME NEW S
  PROVE  <<>> \in Seq(S) /\ Range(<<>>) = {} /\ Once(<<>>)
BY DEF Range, Once, IsInjective
-----------------------------------------------------------------------------
\* A set of naturals has a least element.
LEMMA LeastElement ==
  ASSUME NEW S \in SUBSET Nat, S # {}
  PROVE  \E x \in S : \A y \in S : x <= y
<1> DEFINE less == OpToRel(<, Nat)
<1>1. IsWellFoundedOn(less, Nat)
  BY NatLessThanWellFounded
<1>2. \A m, n \in Nat : m < n => <<m, n>> \in less
  BY DEF OpToRel
<1> HIDE DEF less
<1>3. PICK x \in S : \A y \in S : ~ (<<y, x>> \in less)
  BY <1>1, WFMin
<1>4. ASSUME NEW y \in S PROVE x <= y
  <2>1. x \in Nat /\ y \in Nat
    OBVIOUS
  <2>2. ~ (y < x)
    BY <2>1, <1>2, <1>3, Zenon
  <2> QED BY <2>1, <2>2
<1> QED BY <1>4

\* Min is it.
LEMMA MinIsLeast ==
  ASSUME NEW S \in SUBSET Nat, S # {}
  PROVE  Min(S) \in S /\ \A y \in S : Min(S) <= y
BY LeastElement DEF Min

\* A line free of repetition has as many places as elements.
LEMMA OnceCounts ==
  ASSUME NEW S, NEW seq \in Seq(S), Once(seq)
  PROVE  IsFiniteSet(Range(seq)) /\ Cardinality(Range(seq)) = Len(seq)
<1> DEFINE n == Len(seq)
<1>1. n \in Nat /\ seq \in [1..n -> S] /\ Range(seq) = {seq[i] : i \in 1..n}
  BY DEF Range
<1>2. \A i, j \in 1..n : seq[i] = seq[j] => i = j
  BY OnceOfLine
<1>3. seq \in Bijection(1..n, Range(seq))
  <2>1. seq \in [1..n -> Range(seq)]
    BY <1>1
  <2> HIDE DEF n
  <2>2. seq \in Injection(1..n, Range(seq))
    BY <2>1, <1>2 DEF Injection, IsInjective
  <2>3. seq \in Surjection(1..n, Range(seq))
    BY <2>1, <1>1 DEF Surjection
  <2> QED BY <2>2, <2>3 DEF Bijection
<1>4. IsFiniteSet(1..n) /\ Cardinality(1..n) = n
  <2>1. (1 > n => n = 0) /\ n - 1 + 1 = n /\ n \in Int
    BY <1>1
  <2> HIDE DEF n
  <2> QED BY <2>1, FS_Interval
<1> HIDE DEF n
<1>5. IsFiniteSet(Range(seq)) /\ Cardinality(Range(seq)) = Cardinality(1..n)
  BY <1>3, <1>4, FS_Bijection DEF ExistsBijection
<1> QED BY <1>4, <1>5 DEF n

\* The places of a line.
LEMMA PlacesOfLine ==
  ASSUME NEW S, NEW seq \in Seq(S)
  PROVE  /\ Len(seq) \in Nat
         /\ \A i \in 1..Len(seq) : i - 1 \in Nat /\ seq[i] \in S
         /\ 1..Len(<<>>) = {}
OBVIOUS

\* An empty line has no places.
LEMMA NoPlaces == 1..Len(<<>>) = {}
OBVIOUS

-----------------------------------------------------------------------------
(* The order of a line by another.                                          *)

\* The elements of a line stand in it as they stand in another.
Follows(line, other) ==
  \A i, j \in 1..Len(line) : i < j => IndexIn(other, line[i]) < IndexIn(other, line[j])

\* The place of an element of a line.
LEMMA PlaceInLine ==
  ASSUME NEW S, NEW seq \in Seq(S), NEW x \in Range(seq)
  PROVE  /\ IndexIn(seq, x) \in 1..Len(seq) /\ seq[IndexIn(seq, x)] = x
         /\ Once(seq) => \A i \in 1..Len(seq) : seq[i] = x => i = IndexIn(seq, x)
<1>1. DOMAIN seq = 1..Len(seq) /\ \E i \in DOMAIN seq : seq[i] = x
  BY RangeOfLine
<1>2. IndexIn(seq, x) \in 1..Len(seq) /\ seq[IndexIn(seq, x)] = x
  BY <1>1 DEF IndexIn
<1> QED BY <1>2, OnceOfLine

\* Who joins a line at its end stands after all who are in it, and moves none of them.
LEMMA PlaceAtEnd ==
  ASSUME NEW S, NEW seq \in Seq(S), Once(seq), NEW x \in S, x \notin Range(seq)
  PROVE  \A y \in Range(seq) :
           /\ IndexIn(Append(seq, x), y) = IndexIn(seq, y)
           /\ IndexIn(Append(seq, x), y) < IndexIn(Append(seq, x), x)
<1> DEFINE t == Append(seq, x)
           n == Len(seq)
<1>1. /\ t \in Seq(S) /\ Len(t) = n + 1 /\ n \in Nat /\ t[n + 1] = x
      /\ \A i \in 1..n : t[i] = seq[i]
  OBVIOUS
<1>2. Once(t) /\ Range(t) = Range(seq) \cup {x}
  BY AppendOnce
<1> HIDE DEF t
<1>3. IndexIn(t, x) = n + 1
  <2>1. x \in Range(t) /\ n + 1 \in 1..Len(t)
    BY <1>1, <1>2
  <2> QED BY <2>1, <1>1, <1>2, PlaceInLine
<1>4. ASSUME NEW y \in Range(seq) PROVE IndexIn(t, y) = IndexIn(seq, y) /\ IndexIn(seq, y) \in 1..n
  <2>1. IndexIn(seq, y) \in 1..n /\ seq[IndexIn(seq, y)] = y
    BY PlaceInLine
  <2>2. IndexIn(seq, y) \in 1..Len(t) /\ t[IndexIn(seq, y)] = y
    BY <2>1, <1>1
  <2>3. y \in Range(t)
    BY <1>2
  <2> QED BY <2>1, <2>2, <2>3, <1>1, <1>2, PlaceInLine
<1> QED BY <1>1, <1>3, <1>4 DEF t

\* The places of a line in two parts.
LEMMA PlacesOfParts ==
  ASSUME NEW S, NEW seq \in Seq(S), NEW more \in Seq(S)
  PROVE  /\ Len(seq \o more) = Len(seq) + Len(more)
         /\ \A i \in 1..Len(seq) : (seq \o more)[i] = seq[i]
         /\ \A j \in 1..Len(more) : (seq \o more)[Len(seq) + j] = more[j]
OBVIOUS

\* A line of two parts stands as another when each part does, and all of the first
\* stand before all of the second.
LEMMA FollowsInParts ==
  ASSUME NEW S, NEW seq \in Seq(S), NEW more \in Seq(S), NEW other
  PROVE  Follows(seq \o more, other) <=>
           /\ Follows(seq, other) /\ Follows(more, other)
           /\ \A x \in Range(seq), y \in Range(more) : IndexIn(other, x) < IndexIn(other, y)
<1> DEFINE t == seq \o more
           n == Len(seq)
           m == Len(more)
           At(x) == IndexIn(other, x)
<1>1. /\ n \in Nat /\ m \in Nat /\ Len(t) = n + m
      /\ \A i \in 1..n : t[i] = seq[i]
      /\ \A j \in 1..m : t[n + j] = more[j]
  OBVIOUS
<1> HIDE DEF t, n, m, At
<1>2. \A i \in 1..n : i \in 1..(n + m)
  BY <1>1
<1>3. \A j \in 1..m : n + j \in 1..(n + m)
  BY <1>1
<1>4. ASSUME Follows(t, other)
      PROVE  /\ Follows(seq, other) /\ Follows(more, other)
             /\ \A x \in Range(seq), y \in Range(more) : At(x) < At(y)
  <2>1. \A i, j \in 1..(n + m) : i < j => At(t[i]) < At(t[j])
    BY <1>1, <1>4 DEF Follows, At
  <2>2. Follows(seq, other)
    <3>1. \A i, j \in 1..n : i < j => At(seq[i]) < At(seq[j])
      BY <2>1, <1>1, <1>2
    <3> QED BY <3>1 DEF Follows, At, n
  <2>3. Follows(more, other)
    <3>1. ASSUME NEW i \in 1..m, NEW j \in 1..m, i < j PROVE At(more[i]) < At(more[j])
      <4>1. n + i \in 1..(n + m) /\ n + j \in 1..(n + m) /\ n + i < n + j
        BY <3>1, <1>1
      <4>2. t[n + i] = more[i] /\ t[n + j] = more[j]
        BY <1>1
      <4> QED BY <4>1, <4>2, <2>1
    <3> QED BY <3>1 DEF Follows, At, m
  <2>4. ASSUME NEW x \in Range(seq), NEW y \in Range(more) PROVE At(x) < At(y)
    <3>1. PICK i \in 1..n : seq[i] = x
      BY RangeOfLine DEF n
    <3>2. PICK j \in 1..m : more[j] = y
      BY RangeOfLine DEF m
    <3>3. i \in 1..(n + m) /\ n + j \in 1..(n + m) /\ i < n + j
      BY <1>1
    <3> QED BY <3>1, <3>2, <3>3, <2>1, <1>1
  <2> QED BY <2>2, <2>3, <2>4
<1>5. ASSUME Follows(seq, other), Follows(more, other),
             \A x \in Range(seq), y \in Range(more) : At(x) < At(y)
      PROVE  Follows(t, other)
  <2>1. SUFFICES ASSUME NEW i \in 1..(n + m), NEW j \in 1..(n + m), i < j
                 PROVE  At(t[i]) < At(t[j])
    BY <1>1 DEF Follows, At
  <2>2. CASE j \in 1..n
    <3>1. i \in 1..n
      BY <2>1, <2>2, <1>1
    <3> QED BY <3>1, <2>1, <2>2, <1>1, <1>5 DEF Follows, At, n
  <2>3. CASE i \notin 1..n
    <3>1. i - n \in 1..m /\ j - n \in 1..m /\ i - n < j - n /\ n + (i - n) = i /\ n + (j - n) = j
      BY <2>1, <2>3, <1>1
    <3>2. At(more[i - n]) < At(more[j - n])
      BY <3>1, <1>5 DEF Follows, At, m
    <3>3. t[i] = more[i - n] /\ t[j] = more[j - n]
      <4>1. t[n + (i - n)] = more[i - n] /\ t[n + (j - n)] = more[j - n]
        BY <3>1, <1>1
      <4> QED BY <3>1, <4>1
    <3> QED BY <3>2, <3>3
  <2>4. CASE i \in 1..n /\ j \notin 1..n
    <3>1. j - n \in 1..m /\ n + (j - n) = j
      BY <2>4, <1>1
    <3>2. t[i] = seq[i] /\ t[j] = more[j - n]
      BY <3>1, <2>4, <1>1
    <3>3. seq[i] \in Range(seq) /\ more[j - n] \in Range(more)
      BY <3>1, <2>4, RangeOfLine DEF n, m
    <3> QED BY <3>2, <3>3, <1>5
  <2> QED BY <2>2, <2>3, <2>4
<1> QED BY <1>4, <1>5 DEF t, At

\* One who leaves does not change the order of the others.
LEMMA FollowsWithout ==
  ASSUME NEW S, NEW seq \in Seq(S), NEW x, NEW other, Follows(seq, other)
  PROVE  Follows(Without(seq, x), other)
<1>1. CASE x \notin Range(seq)
  BY <1>1 DEF Without
<1>2. CASE x \in Range(seq)
  <2> DEFINE k == IndexIn(seq, x)
             n == Len(seq)
             t == Without(seq, x)
             At(y) == IndexIn(other, y)
  <2>1. n \in Nat /\ k \in 1..n
    BY <1>2, PlaceInLine
  <2>2. t = SubSeq(seq, 1, k - 1) \o SubSeq(seq, k + 1, n)
    BY <1>2 DEF Without, RemoveAt
  <2> HIDE DEF k
  <2>3. /\ Len(t) = n - 1
        /\ \A i \in 1..(n - 1) : t[i] = IF i < k THEN seq[i] ELSE seq[i + 1]
    <3> DEFINE before == SubSeq(seq, 1, k - 1)
               after  == SubSeq(seq, k + 1, n)
    <3>1. before \in Seq(S) /\ Len(before) = k - 1 /\ \A i \in 1..(k - 1) : before[i] = seq[i]
      BY <2>1
    <3>2. /\ after \in Seq(S) /\ Len(after) = n - k
          /\ \A i \in 1..(n - k) : after[i] = seq[k + i]
      BY <2>1
    <3> HIDE DEF before, after
    <3>3. /\ Len(before \o after) = Len(before) + Len(after)
          /\ \A i \in 1..Len(before) : (before \o after)[i] = before[i]
          /\ \A i \in 1..Len(after) : (before \o after)[Len(before) + i] = after[i]
      <4>1. before \in Seq(S) /\ after \in Seq(S)
        BY <3>1, <3>2
      <4> QED BY <4>1
    <3>4. t = before \o after
      BY <2>2 DEF before, after
    <3> HIDE DEF t, n
    <3>5. Len(t) = n - 1
      <4>1. Len(t) = (k - 1) + (n - k)
        BY <3>1, <3>2, <3>3, <3>4
      <4> DEFINE length == Len(t)
      <4> HIDE DEF length
      <4>2. length = (k - 1) + (n - k)
        BY <4>1 DEF length
      <4>3. length = n - 1
        BY <4>2, <2>1
      <4> QED BY <4>3 DEF length
    <3>6. ASSUME NEW i \in 1..(n - 1) PROVE t[i] = IF i < k THEN seq[i] ELSE seq[i + 1]
      <4>1. CASE i < k
        <5>1. i \in 1..(k - 1)
          BY <4>1, <2>1
        <5> QED BY <5>1, <4>1, <3>1, <3>3, <3>4
      <4>2. CASE ~(i < k)
        <5>1. i - (k - 1) \in 1..(n - k) /\ k - 1 + (i - (k - 1)) = i
              /\ k + (i - (k - 1)) = i + 1
          BY <4>2, <2>1
        <5>2. t[k - 1 + (i - (k - 1))] = after[i - (k - 1)]
          BY <5>1, <3>1, <3>2, <3>3, <3>4
        <5>3. after[i - (k - 1)] = seq[i + 1]
          BY <5>1, <3>2
        <5> QED BY <5>1, <5>2, <5>3, <4>2
      <4> QED BY <4>1, <4>2
    <3> QED BY <3>5, <3>6
  <2> HIDE DEF t, At, n
  <2>4. \A i, j \in 1..n : i < j => At(seq[i]) < At(seq[j])
    BY DEF Follows, At, n
  <2>5. ASSUME NEW i \in 1..(n - 1), NEW j \in 1..(n - 1), i < j
        PROVE  At(t[i]) < At(t[j])
    <3> DEFINE up(l) == IF l < k THEN l ELSE l + 1
    <3>1. up(i) \in 1..n /\ up(j) \in 1..n /\ up(i) < up(j)
      BY <2>1, <2>5
    <3>2. t[i] = seq[up(i)] /\ t[j] = seq[up(j)]
      BY <2>3
    <3> HIDE DEF up
    <3> QED BY <3>1, <3>2, <2>4
  <2> QED BY <2>3, <2>5 DEF Follows, At, t
<1> QED BY <1>1, <1>2

\* The line is its first and the rest; or the others, and its last.
LEMMA FollowsEnds ==
  ASSUME NEW S, NEW seq \in Seq(S), seq # <<>>, NEW other, Follows(seq, other)
  PROVE  /\ Follows(Tail(seq), other)
         /\ \A x \in Range(Tail(seq)) : IndexIn(other, Head(seq)) < IndexIn(other, x)
         /\ \A x \in Range(Front(seq)) : IndexIn(other, x) < IndexIn(other, Last(seq))
<1> DEFINE n == Len(seq)
           t == Tail(seq)
           f == Front(seq)
           At(x) == IndexIn(other, x)
<1>1. n \in Nat /\ n > 0 /\ Head(seq) = seq[1] /\ Last(seq) = seq[n]
  BY DEF Last
<1>2. t \in Seq(S) /\ Len(t) = n - 1 /\ \A i \in 1..(n - 1) : t[i] = seq[i + 1]
  OBVIOUS
<1>3. f \in Seq(S) /\ Len(f) = n - 1 /\ \A i \in 1..(n - 1) : f[i] = seq[i]
  <2>1. f = [i \in 1..(n - 1) |-> seq[i]]
    BY <1>1 DEF Front
  <2> QED BY <2>1, <1>1
<1> HIDE DEF t, f, At, n
<1>4. \A i, j \in 1..n : i < j => At(seq[i]) < At(seq[j])
  BY DEF Follows, At, n
<1>5. ASSUME NEW i \in 1..(n - 1), NEW j \in 1..(n - 1), i < j PROVE At(t[i]) < At(t[j])
  <2>1. i + 1 \in 1..n /\ j + 1 \in 1..n /\ i + 1 < j + 1
    BY <1>1, <1>5
  <2> QED BY <2>1, <1>2, <1>4
<1>6. ASSUME NEW x \in Range(t) PROVE At(Head(seq)) < At(x)
  <2>1. PICK i \in 1..(n - 1) : t[i] = x
    BY <1>2, RangeOfLine
  <2>2. 1 \in 1..n /\ i + 1 \in 1..n /\ 1 < i + 1
    BY <1>1
  <2> QED BY <2>1, <2>2, <1>1, <1>2, <1>4
<1>7. ASSUME NEW x \in Range(f) PROVE At(x) < At(Last(seq))
  <2>1. PICK i \in 1..(n - 1) : f[i] = x
    BY <1>3, RangeOfLine
  <2>2. i \in 1..n /\ n \in 1..n /\ i < n
    BY <1>1
  <2> QED BY <2>1, <2>2, <1>1, <1>3, <1>4
<1> QED BY <1>2, <1>5, <1>6, <1>7 DEF Follows, At, t, f

\* The last of a line leaves those before it.
LEMMA WithoutLast ==
  ASSUME NEW S, NEW seq \in Seq(S), seq # <<>>, Once(seq)
  PROVE  Without(seq, Last(seq)) = Front(seq)
<1> DEFINE n == Len(seq)
<1>1. n \in Nat /\ n > 0 /\ Last(seq) = seq[n]
  BY DEF Last
<1>2. Last(seq) \in Range(seq) /\ n \in 1..n
  BY <1>1, RangeOfLine
<1>3. IndexIn(seq, Last(seq)) = n
  BY <1>1, <1>2, PlaceInLine
<1>4. RemoveAt(seq, n) = SubSeq(seq, 1, n - 1) \o SubSeq(seq, n + 1, n)
  BY DEF RemoveAt
<1>5. SubSeq(seq, n + 1, n) = <<>>
  BY <1>1
<1>6. SubSeq(seq, 1, n - 1) \in Seq(S) /\ SubSeq(seq, 1, n - 1) = Front(seq)
  BY <1>1 DEF Front
<1> DEFINE f == SubSeq(seq, 1, n - 1)
<1> HIDE DEF f
<1>7. f \in Seq(S) => f \o <<>> = f
  OBVIOUS
<1> QED BY <1>2, <1>3, <1>4, <1>5, <1>6, <1>7 DEF Without, f

\* A line is the same however it is parted.
LEMMA LineParted ==
  ASSUME NEW S, NEW seq \in Seq(S), NEW more \in Seq(S)
  PROVE  /\ more # <<>> => Append(seq, Head(more)) \o Tail(more) = seq \o more
         /\ seq # <<>> => Front(seq) \o (<<Last(seq)>> \o more) = seq \o more
         /\ \A x \in S : seq \o Append(more, x) = Append(seq \o more, x)
         /\ seq \o <<>> = seq
<1>1. ASSUME more # <<>> PROVE Append(seq, Head(more)) \o Tail(more) = seq \o more
  BY <1>1
<1>2. ASSUME seq # <<>> PROVE Front(seq) \o (<<Last(seq)>> \o more) = seq \o more
  <2>1. Front(seq) \in Seq(S) /\ Last(seq) \in S /\ seq = Append(Front(seq), Last(seq))
    <3> DEFINE n == Len(seq)
    <3>1. n \in Nat /\ n > 0 /\ Last(seq) = seq[n] /\ n \in 1..n
      BY <1>2 DEF Last
    <3>2. Front(seq) = [i \in 1..(n - 1) |-> seq[i]]
      BY <3>1 DEF Front
    <3>3. Front(seq) \in Seq(S) /\ Last(seq) \in S
      BY <3>1, <3>2
    <3>4. Append(Front(seq), Last(seq)) = seq
      BY <3>1, <3>2, <3>3
    <3> QED BY <3>3, <3>4
  <2>2. \A f \in Seq(S), x \in S : Append(f, x) \o more = f \o (<<x>> \o more)
    OBVIOUS
  <2> QED BY <2>1, <2>2
<1>3. ASSUME NEW x \in S PROVE seq \o Append(more, x) = Append(seq \o more, x)
  OBVIOUS
<1>4. seq \o <<>> = seq
  OBVIOUS
<1> QED BY <1>1, <1>2, <1>3, <1>4

\* A request that joins follows all who are there.
LEMMA JoinedLast ==
  ASSUME NEW S, NEW line \in Seq(S), NEW other \in Seq(S), Once(other), Follows(line, other),
         Range(line) \subseteq Range(other), NEW x \in S, x \notin Range(other)
  PROVE  Once(Append(other, x)) /\ Follows(Append(line, x), Append(other, x))
<1> DEFINE n == Len(line)
           t == Append(line, x)
           o == Append(other, x)
<1>1. /\ n \in Nat /\ Len(t) = n + 1 /\ t[n + 1] = x
      /\ \A i \in 1..n : t[i] = line[i] /\ line[i] \in Range(other)
      /\ \A i \in 1..(n + 1) : i \in 1..n \/ i = n + 1
  BY RangeOfLine
<1>2. \A y \in Range(other) : IndexIn(o, y) = IndexIn(other, y) /\ IndexIn(o, y) < IndexIn(o, x)
  BY PlaceAtEnd
<1>3. Once(o)
  BY AppendOnce
<1> HIDE DEF n, t, o
<1>4. ASSUME NEW i \in 1..(n + 1), NEW j \in 1..(n + 1), i < j
      PROVE  IndexIn(o, t[i]) < IndexIn(o, t[j])
  <2>1. i \in 1..n
    BY <1>1, <1>4
  <2>2. CASE j \in 1..n
    BY <2>1, <2>2, <1>1, <1>2, <1>4 DEF Follows, n
  <2>3. CASE j = n + 1
    BY <2>1, <2>3, <1>1, <1>2
  <2> QED BY <2>2, <2>3, <1>1
<1> QED BY <1>1, <1>3, <1>4 DEF Follows, t, o

\* A request that leaves one part or the other.
LEMMA LeftInOrder ==
  ASSUME NEW S, NEW seq \in Seq(S), NEW more \in Seq(S), NEW other, Once(seq), Once(more),
         Follows(seq \o more, other), NEW x
  PROVE  /\ Follows(Without(seq, x) \o more, other)
         /\ Follows(Without(seq, x) \o Without(more, x), other)
<1>1. /\ Follows(seq, other) /\ Follows(more, other)
      /\ \A y \in Range(seq), z \in Range(more) : IndexIn(other, y) < IndexIn(other, z)
  BY FollowsInParts
<1>2. /\ Without(seq, x) \in Seq(S) /\ Range(Without(seq, x)) \subseteq Range(seq)
      /\ Without(more, x) \in Seq(S) /\ Range(Without(more, x)) \subseteq Range(more)
  BY WithoutOnce
<1>3. Follows(Without(seq, x), other) /\ Follows(Without(more, x), other)
  BY <1>1, FollowsWithout
<1> QED BY <1>1, <1>2, <1>3, FollowsInParts
-----------------------------------------------------------------------------
(* The elements of a line that are in a set, in their order.                *)

\* How many of a set of numbers are no greater than i.
UpTo(P, i) == Cardinality({j \in P : j <= i})

\* Each of a finite set of numbers has a rank, and no two the same.
LEMMA Ranks ==
  ASSUME NEW P \in SUBSET Nat, IsFiniteSet(P)
  PROVE  /\ Cardinality(P) \in Nat
         /\ \A i \in P : UpTo(P, i) \in 1..Cardinality(P)
         /\ \A i, j \in P : i < j => UpTo(P, i) < UpTo(P, j)
         /\ \A k \in 1..Cardinality(P) : \E i \in P : UpTo(P, i) = k
<1> DEFINE n == Cardinality(P)  to(i) == {j \in P : j <= i}
<1>1. n \in Nat
  BY FS_CardinalityType
<1>2. \A i : IsFiniteSet(to(i)) /\ Cardinality(to(i)) \in Nat /\ Cardinality(to(i)) <= n
  <2> TAKE i
  <2>1. to(i) \in SUBSET P
    OBVIOUS
  <2>2. IsFiniteSet(to(i)) /\ Cardinality(to(i)) <= n
    BY <2>1, FS_Subset
  <2> QED
    BY <2>2, FS_CardinalityType
<1>3. ASSUME NEW i \in P
      PROVE  UpTo(P, i) \in 1..n
  <2>1. i \in to(i)
    OBVIOUS
  <2>2. to(i) # {}
    BY <2>1
  <2>3. Cardinality(to(i)) # 0
    BY <1>2, <2>2, FS_EmptySet
  <2> QED
    BY <1>1, <1>2, <2>3 DEF UpTo
<1>4. ASSUME NEW i \in P, NEW j \in P, i < j
      PROVE  UpTo(P, i) < UpTo(P, j)
  <2>1. i \in Nat /\ j \in Nat
    OBVIOUS
  <2>2. to(i) \in SUBSET to(j) /\ j \in to(j) /\ j \notin to(i)
    <3>1. \A m \in P : m <= i => m <= j
      BY <1>4, <2>1
    <3>2. j <= j /\ ~(j <= i)
      BY <1>4, <2>1
    <3> QED
      BY <3>1, <3>2
  <2>3. to(i) # to(j)
    BY <2>2
  <2>4. Cardinality(to(i)) <= Cardinality(to(j)) /\ Cardinality(to(i)) # Cardinality(to(j))
    <3> HIDE DEF to
    <3> QED
      BY <1>2, <2>2, <2>3, FS_Subset
  <2>5. Cardinality(to(i)) \in Nat /\ Cardinality(to(j)) \in Nat
    BY <1>2
  <2>6. Cardinality(to(i)) < Cardinality(to(j))
    <3> HIDE DEF to
    <3> QED
      BY <2>4, <2>5
  <2> QED
    BY <2>6 DEF UpTo
<1>5. ASSUME NEW k \in 1..n
      PROVE  \E i \in P : UpTo(P, i) = k
  <2> DEFINE rank == [i \in P |-> UpTo(P, i)]
  <2>1. rank \in [P -> 1..n]
    BY <1>3
  <2>2. \A i, j \in P : rank[i] = rank[j] => i = j
    <3> SUFFICES ASSUME NEW i \in P, NEW j \in P, i # j
                 PROVE  UpTo(P, i) # UpTo(P, j)
      OBVIOUS
    <3>1. i \in Nat /\ j \in Nat /\ UpTo(P, i) \in Nat /\ UpTo(P, j) \in Nat
      BY <1>3
    <3>2. CASE i < j
      BY <3>1, <3>2, <1>4
    <3>3. CASE j < i
      BY <3>1, <3>3, <1>4
    <3> QED
      BY <3>1, <3>2, <3>3
  <2>3. rank \in Injection(P, 1..n)
    BY <2>1, <2>2 DEF Injection, IsInjective
  <2>4. IsFiniteSet(1..n) /\ Cardinality(1..n) = n
    <3>1. 1 \in Int /\ n \in Int
      BY <1>1
    <3> HIDE DEF n
    <3>2. IsFiniteSet(1..n) /\ Cardinality(1..n) = IF 1 > n THEN 0 ELSE n - 1 + 1
      BY <3>1, FS_Interval
    <3>3. n \in Nat
      BY <1>1
    <3> QED
      BY <3>2, <3>3
  <2>5. rank \in Surjection(P, 1..n)
    <3> HIDE DEF rank
    <3> QED
      BY <2>3, <2>4, FS_Injection
  <2>6. \E i \in P : rank[i] = k
    BY <2>5 DEF Surjection
  <2> QED
    BY <2>6
<1> QED
  BY <1>1, <1>3, <1>4, <1>5

\* Where an element of `Only` stands in the sequence, and that all that are in the
\* set stand there, in their order.
NthOf(P, k) == CHOOSE i \in P : UpTo(P, i) = k
PlacesIn(seq, T) == {i \in DOMAIN seq : seq[i] \in T}

LEMMA OnlyPlaces ==
  ASSUME NEW S, NEW seq \in Seq(S), NEW T
  PROVE  /\ PlacesIn(seq, T) \in SUBSET (1..Len(seq)) /\ PlacesIn(seq, T) \in SUBSET Nat
         /\ IsFiniteSet(PlacesIn(seq, T)) /\ Cardinality(PlacesIn(seq, T)) \in Nat
         /\ Only(seq, T) = [k \in 1..Cardinality(PlacesIn(seq, T)) |-> seq[NthOf(PlacesIn(seq, T), k)]]
         /\ \A k \in 1..Cardinality(PlacesIn(seq, T)) :
              /\ NthOf(PlacesIn(seq, T), k) \in PlacesIn(seq, T)
              /\ UpTo(PlacesIn(seq, T), NthOf(PlacesIn(seq, T), k)) = k
         /\ \A i \in PlacesIn(seq, T) :
              NthOf(PlacesIn(seq, T), UpTo(PlacesIn(seq, T), i)) = i
<1> DEFINE P == PlacesIn(seq, T)
<1>1. DOMAIN seq = 1..Len(seq) /\ Len(seq) \in Nat
  OBVIOUS
<1>2. P \in SUBSET (1..Len(seq)) /\ P \in SUBSET Nat
  BY <1>1 DEF PlacesIn
<1>3. IsFiniteSet(P)
  <2>1. IsFiniteSet(1..Len(seq))
    BY <1>1, FS_Interval
  <2> QED
    BY <1>2, <2>1, FS_Subset
<1>4. Cardinality(P) \in Nat
  BY <1>3, FS_CardinalityType
<1>5. Only(seq, T) = [k \in 1..Cardinality(P) |-> seq[NthOf(P, k)]]
  BY DEF Only, NthOf, UpTo, PlacesIn
<1> HIDE DEF P
<1>6. \A k \in 1..Cardinality(P) : NthOf(P, k) \in P /\ UpTo(P, NthOf(P, k)) = k
  BY <1>2, <1>3, Ranks DEF NthOf
<1>7. ASSUME NEW i \in P
      PROVE  NthOf(P, UpTo(P, i)) = i
  <2> DEFINE j == NthOf(P, UpTo(P, i))
  <2>1. j \in P /\ UpTo(P, j) = UpTo(P, i)
    BY <1>2, <1>3, <1>6, Ranks
  <2> HIDE DEF j
  <2>2. i \in Nat /\ j \in Nat /\ UpTo(P, i) \in Nat
    BY <2>1, <1>2, <1>3, <1>4, Ranks
  <2>3. ~(i < j) /\ ~(j < i)
    <3>1. \A a, b \in P : a < b => UpTo(P, a) < UpTo(P, b)
      BY <1>2, <1>3, Ranks
    <3>2. ~(UpTo(P, i) < UpTo(P, i))
      BY <2>2
    <3> QED
      BY <3>1, <3>2, <2>1
  <2> QED
    BY <2>2, <2>3 DEF j
<1> QED
  BY <1>2, <1>3, <1>4, <1>5, <1>6, <1>7 DEF P

\* What is left of a sequence: those of its elements that are in the set.
LEMMA OnlyRange ==
  ASSUME NEW S, NEW seq \in Seq(S), NEW T
  PROVE  /\ Only(seq, T) \in Seq(S \cap T)
         /\ Range(Only(seq, T)) = Range(seq) \cap T
<1> DEFINE P == PlacesIn(seq, T)  n == Cardinality(P)
<1>1. /\ P \in SUBSET (1..Len(seq)) /\ n \in Nat
      /\ Only(seq, T) = [k \in 1..n |-> seq[NthOf(P, k)]]
      /\ \A k \in 1..n : NthOf(P, k) \in P
      /\ \A i \in P : NthOf(P, UpTo(P, i)) = i
  BY OnlyPlaces
<1>2. \A i \in P : seq[i] \in S \cap T /\ seq[i] \in Range(seq)
  BY <1>1, RangeOfLine DEF PlacesIn
<1>3. Only(seq, T) \in Seq(S \cap T) /\ Len(Only(seq, T)) = n
  <2> HIDE DEF P, n
  <2>1. \A k \in 1..n : seq[NthOf(P, k)] \in S \cap T
    BY <1>1, <1>2
  <2> QED
    BY <1>1, <2>1
<1>4. Range(Only(seq, T)) \subseteq Range(seq) \cap T
  <2> SUFFICES ASSUME NEW k \in 1..n
               PROVE  Only(seq, T)[k] \in Range(seq) \cap T
    BY <1>3, RangeOfLine
  <2> HIDE DEF P, n
  <2> QED
    BY <1>1, <1>2
<1>5. ASSUME NEW x \in Range(seq) \cap T
      PROVE  x \in Range(Only(seq, T))
  <2>1. PICK i \in 1..Len(seq) : seq[i] = x
    BY RangeOfLine
  <2>2. i \in P
    BY <2>1 DEF PlacesIn
  <2>3. UpTo(P, i) \in 1..n
    BY <2>2, OnlyPlaces, Ranks
  <2>4. Only(seq, T)[UpTo(P, i)] = x
    <3> HIDE DEF P, n
    <3> QED
      BY <1>1, <2>1, <2>2, <2>3
  <2> QED
    BY <1>3, <2>3, <2>4, RangeOfLine
<1> QED
  BY <1>3, <1>4, <1>5

\* An element that is in the sequence once is once in what is left.
LEMMA OnlyOnce ==
  ASSUME NEW S, NEW seq \in Seq(S), NEW T, Once(seq)
  PROVE  Once(Only(seq, T))
<1> DEFINE P == PlacesIn(seq, T)  n == Cardinality(P)  left == Only(seq, T)
<1>1. /\ P \in SUBSET (1..Len(seq)) /\ n \in Nat
      /\ left = [k \in 1..n |-> seq[NthOf(P, k)]]
      /\ \A k \in 1..n : NthOf(P, k) \in P /\ UpTo(P, NthOf(P, k)) = k
  BY OnlyPlaces
<1>2. left \in Seq(S \cap T)
  BY OnlyRange
<1> HIDE DEF P, n, left
<1>3. Len(left) = n
  BY <1>1, <1>2
<1>4. \A i, j \in P : seq[i] = seq[j] => i = j
  BY <1>1, OnceOfLine
<1>5. \A i, j \in 1..n : left[i] = left[j] => i = j
  <2> SUFFICES ASSUME NEW i \in 1..n, NEW j \in 1..n, left[i] = left[j]
               PROVE  i = j
    OBVIOUS
  <2>1. NthOf(P, i) = NthOf(P, j)
    BY <1>1, <1>4
  <2>2. UpTo(P, NthOf(P, i)) = i /\ UpTo(P, NthOf(P, j)) = j
    BY <1>1
  <2> QED
    BY <2>1, <2>2
<1> QED
  BY <1>2, <1>3, <1>5, OnceOfLine DEF left

\* What is left when one more is put at the end.
LEMMA OnlyAppend ==
  ASSUME NEW S, NEW seq \in Seq(S), NEW T, NEW x \in S
  PROVE  Only(Append(seq, x), T) = IF x \in T THEN Append(Only(seq, T), x) ELSE Only(seq, T)
<1> DEFINE L == Len(seq)  more == Append(seq, x)
           P == PlacesIn(seq, T)  Q == PlacesIn(more, T)
           n == Cardinality(P)  m == Cardinality(Q)
<1>1. /\ more \in Seq(S) /\ Len(more) = L + 1 /\ more[L + 1] = x /\ L \in Nat
      /\ \A i \in 1..L : more[i] = seq[i]
  OBVIOUS
<1>2. /\ P \in SUBSET (1..L) /\ P \in SUBSET Nat /\ IsFiniteSet(P) /\ n \in Nat
      /\ Only(seq, T) = [k \in 1..n |-> seq[NthOf(P, k)]]
      /\ \A k \in 1..n : NthOf(P, k) \in P /\ UpTo(P, NthOf(P, k)) = k
  BY OnlyPlaces
<1>3. /\ Q \in SUBSET Nat /\ IsFiniteSet(Q) /\ m \in Nat
      /\ Only(more, T) = [k \in 1..m |-> more[NthOf(Q, k)]]
      /\ \A i \in Q : NthOf(Q, UpTo(Q, i)) = i
  <2> HIDE DEF more
  <2>1. more \in Seq(S)
    BY <1>1
  <2> QED
    BY <2>1, OnlyPlaces
<1>4. Q = IF x \in T THEN P \cup {L + 1} ELSE P
  <2>1. DOMAIN more = 1..L + 1 /\ DOMAIN seq = 1..L
    BY <1>1
  <2> HIDE DEF more, L
  <2>2. 1..L + 1 = (1..L) \cup {L + 1} /\ L + 1 \notin 1..L
    BY <1>1
  <2> QED
    BY <1>1, <2>1, <2>2 DEF PlacesIn
<1>5. L + 1 \notin P
  BY <1>1, <1>2
<1>6. m = IF x \in T THEN n + 1 ELSE n
  <2> HIDE DEF P, Q, L, more
  <2> QED
    BY <1>2, <1>4, <1>5, FS_AddElement
<1>7. ASSUME NEW i \in P
      PROVE  UpTo(Q, i) = UpTo(P, i)
  <2>1. i <= L /\ i \in Nat
    BY <1>1, <1>2
  <2> HIDE DEF P, Q, L, more
  <2>2. ~(L + 1 <= i)
    BY <2>1, <1>1
  <2>3. {j \in Q : j <= i} = {j \in P : j <= i}
    BY <1>4, <2>2
  <2> QED
    BY <2>3 DEF UpTo
<1>8. \A k \in 1..n : NthOf(Q, k) = NthOf(P, k) /\ NthOf(P, k) \in 1..L
  <2> HIDE DEF P, Q, L, more, n, m
  <2> TAKE k \in 1..n
  <2>1. NthOf(P, k) \in P /\ UpTo(P, NthOf(P, k)) = k
    BY <1>2
  <2>2. NthOf(P, k) \in Q /\ UpTo(Q, NthOf(P, k)) = k
    BY <2>1, <1>4, <1>7
  <2> QED
    BY <2>1, <2>2, <1>2, <1>3
<1>9. CASE x \notin T
  <2> HIDE DEF P, Q, L, more, n, m
  <2>1. m = n /\ \A k \in 1..n : more[NthOf(Q, k)] = seq[NthOf(P, k)]
    BY <1>1, <1>6, <1>8, <1>9
  <2>2. Only(more, T) = Only(seq, T)
    BY <2>1, <1>2, <1>3
  <2> QED
    BY <2>2, <1>9 DEF more
<1>10. CASE x \in T
  <2>1. UpTo(Q, L + 1) = m
    <3> HIDE DEF P, Q, more
    <3>1. \A j \in 1..L : j <= L + 1
      BY <1>1
    <3>2. L + 1 <= L + 1
      BY <1>1
    <3>3. \A j \in Q : j <= L + 1
      BY <3>1, <3>2, <1>2, <1>4, <1>10
    <3>4. {j \in Q : j <= L + 1} = Q
      BY <3>3
    <3> QED
      BY <3>4 DEF UpTo
  <2> HIDE DEF P, Q, L, more, n, m
  <2>2. NthOf(Q, m) = L + 1
    BY <2>1, <1>3, <1>4, <1>10
  <2>3. m = n + 1 /\ n \in Nat
    BY <1>2, <1>6, <1>10
  <2> DEFINE o == Only(seq, T)
  <2>4. o \in Seq(S) /\ Len(o) = n /\ \A k \in 1..n : o[k] = seq[NthOf(P, k)]
    <3>1. \A k \in 1..n : seq[NthOf(P, k)] \in S
      BY <1>8 DEF L
    <3> QED
      BY <3>1, <1>2
  <2> HIDE DEF o
  <2>5. \A k \in 1..n + 1 : Append(o, x)[k] = Only(more, T)[k]
    <3> TAKE k \in 1..n + 1
    <3>1. CASE k = n + 1
      BY <3>1, <2>2, <2>3, <2>4, <1>1, <1>3
    <3>2. CASE k # n + 1
      <4>1. k \in 1..n
        BY <3>2, <2>3
      <4>2. Append(o, x)[k] = o[k]
        BY <4>1, <2>4
      <4>3. Only(more, T)[k] = more[NthOf(P, k)]
        BY <4>1, <2>3, <1>3, <1>8
      <4> QED
        BY <4>1, <4>2, <4>3, <2>4, <1>1, <1>8
    <3> QED
      BY <3>1, <3>2
  <2>6. Append(o, x) = [k \in 1..n + 1 |-> Append(o, x)[k]]
    <3>1. Append(o, x) \in Seq(S) /\ Len(Append(o, x)) = n + 1
      BY <2>4
    <3> DEFINE longer == Append(o, x)
    <3> HIDE DEF longer
    <3>2. longer \in Seq(S) /\ Len(longer) = n + 1
      BY <3>1 DEF longer
    <3>3. longer = [k \in 1..Len(longer) |-> longer[k]]
      BY <3>2
    <3> QED
      BY <3>2, <3>3 DEF longer
  <2>7. Only(more, T) = [k \in 1..n + 1 |-> Only(more, T)[k]]
    BY <1>3, <2>3
  <2>8. Append(o, x) = Only(more, T)
    BY <2>5, <2>6, <2>7, Zenon
  <2> QED
    BY <2>8, <1>10 DEF o, more
<1> QED
  BY <1>9, <1>10

\* Nothing is left of nothing.
LEMMA OnlyEmpty ==
  ASSUME NEW T
  PROVE  Only(<<>>, T) = <<>>
<1>1. <<>> \in Seq({}) /\ Range(<<>>) = {}
  BY EmptyLine
<1> DEFINE none == <<>>
<1> HIDE DEF none
<1>2. Only(none, T) \in Seq({} \cap T)
  BY <1>1, OnlyRange DEF none
<1>3. Only(none, T) \in Seq({})
  <2>1. {} \cap T = {}
    OBVIOUS
  <2> QED
    BY <2>1, <1>2
<1> QED
  BY <1>3 DEF none

\* A set of numbers moved down by one is as large.
LEMMA CountMoved ==
  ASSUME NEW A \in SUBSET (Nat \ {0}), IsFiniteSet(A), NEW B \in SUBSET Nat,
         \A j \in Nat : j \in B <=> j + 1 \in A
  PROVE  IsFiniteSet(B) /\ Cardinality(B) = Cardinality(A)
<1> DEFINE down == [a \in A |-> a - 1]
<1>1. ASSUME NEW a \in A
      PROVE  a \in Nat /\ a - 1 \in Nat /\ a - 1 + 1 = a /\ a - 1 \in B
  <2>1. a \in Nat /\ a # 0
    OBVIOUS
  <2>2. a - 1 \in Nat /\ a - 1 + 1 = a
    BY <2>1
  <2> QED
    BY <2>1, <2>2
<1>2. down \in [A -> B]
  BY <1>1
<1>3. \A a, b \in A : down[a] = down[b] => a = b
  BY <1>1
<1>4. \A j \in B : \E a \in A : down[a] = j
  <2> TAKE j \in B
  <2>1. j \in Nat /\ j + 1 \in A /\ j + 1 - 1 = j
    OBVIOUS
  <2> QED
    BY <2>1
<1> HIDE DEF down
<1>5. down \in Injection(A, B)
  BY <1>2, <1>3 DEF Injection, IsInjective
<1>6. down \in Surjection(A, B)
  BY <1>2, <1>4 DEF Surjection
<1>7. down \in Bijection(A, B)
  BY <1>5, <1>6 DEF Bijection
<1> QED
  BY <1>7, FS_Bijection DEF ExistsBijection

\* What is left without the first.
LEMMA OnlyTail ==
  ASSUME NEW S, NEW seq \in Seq(S), NEW T, seq # <<>>
  PROVE  /\ Head(seq) \in T => Only(seq, T) # <<>> /\ Head(Only(seq, T)) = Head(seq)
         /\ Only(Tail(seq), T) = IF Head(seq) \in T THEN Tail(Only(seq, T)) ELSE Only(seq, T)
<1> DEFINE L == Len(seq)  rest == Tail(seq)
           P == PlacesIn(seq, T)  Q == PlacesIn(rest, T)
           n == Cardinality(P)  m == Cardinality(Q)
           d == IF Head(seq) \in T THEN 1 ELSE 0
<1>1. /\ rest \in Seq(S) /\ Len(rest) = L - 1 /\ L \in Nat /\ L >= 1 /\ seq[1] = Head(seq)
      /\ \A i \in 1..L - 1 : rest[i] = seq[i + 1]
  OBVIOUS
<1>2. /\ P \in SUBSET (1..L) /\ P \in SUBSET Nat /\ IsFiniteSet(P) /\ n \in Nat
      /\ Only(seq, T) = [k \in 1..n |-> seq[NthOf(P, k)]]
      /\ \A k \in 1..n : NthOf(P, k) \in P /\ UpTo(P, NthOf(P, k)) = k
      /\ \A i \in P : NthOf(P, UpTo(P, i)) = i
  BY OnlyPlaces
<1>3. /\ Q \in SUBSET (1..L - 1) /\ Q \in SUBSET Nat /\ IsFiniteSet(Q) /\ m \in Nat
      /\ Only(rest, T) = [k \in 1..m |-> rest[NthOf(Q, k)]]
      /\ \A k \in 1..m : NthOf(Q, k) \in Q /\ UpTo(Q, NthOf(Q, k)) = k
      /\ \A i \in Q : NthOf(Q, UpTo(Q, i)) = i
  <2> HIDE DEF rest
  <2>1. rest \in Seq(S) /\ Len(rest) = L - 1
    BY <1>1
  <2> QED
    BY <2>1, OnlyPlaces
<1>4. /\ \A j \in Nat : j \in Q <=> j + 1 \in P /\ j + 1 # 1
      /\ 1 \in P <=> Head(seq) \in T
  <2>1. DOMAIN rest = 1..L - 1 /\ DOMAIN seq = 1..L
    BY <1>1
  <2>2. ASSUME NEW j \in Nat
        PROVE  j \in 1..L - 1 <=> j + 1 \in 1..L /\ j + 1 # 1
    BY <1>1
  <2> HIDE DEF rest, L
  <2>3. \A j \in Nat : j \in Q <=> j + 1 \in P /\ j + 1 # 1
    BY <1>1, <2>1, <2>2 DEF PlacesIn
  <2>4. 1 \in 1..L
    BY <1>1
  <2>5. 1 \in P <=> Head(seq) \in T
    BY <1>1, <2>1, <2>4 DEF PlacesIn
  <2> QED
    BY <2>3, <2>5
<1> HIDE DEF P, Q, L, rest
<1>5. ASSUME NEW C \in SUBSET P, NEW D \in SUBSET Q, IsFiniteSet(C),
             \A j \in Nat : j \in D <=> j + 1 \in C /\ j + 1 # 1,
             1 \in P => 1 \in C
      PROVE  Cardinality(D) = Cardinality(C) - d
  <2>1. C \ {1} \in SUBSET (Nat \ {0}) /\ D \in SUBSET Nat
    BY <1>1, <1>2, <1>3
  <2>2. IsFiniteSet(C \ {1}) /\ Cardinality(C \ {1}) = IF 1 \in C THEN Cardinality(C) - 1 ELSE Cardinality(C)
    BY <1>5, FS_RemoveElement
  <2>3. \A j \in Nat : j \in D <=> j + 1 \in C \ {1}
    BY <1>5
  <2>4. Cardinality(D) = Cardinality(C \ {1})
    BY <2>1, <2>2, <2>3, CountMoved
  <2>5. 1 \in C <=> Head(seq) \in T
    BY <1>4, <1>5
  <2>6. Cardinality(C) \in Nat
    BY <1>5, FS_CardinalityType
  <2> QED
    BY <2>2, <2>4, <2>5, <2>6
<1>6. m = n - d
  <2>1. P \in SUBSET P /\ Q \in SUBSET Q
    OBVIOUS
  <2> QED
    BY <2>1, <1>2, <1>4, <1>5
<1>7. ASSUME NEW i \in Q
      PROVE  i \in Nat /\ i + 1 \in P /\ UpTo(Q, i) = UpTo(P, i + 1) - d
  <2> DEFINE C == {j \in P : j <= i + 1}  D == {j \in Q : j <= i}
  <2>1. i \in Nat /\ i + 1 \in P
    BY <1>3, <1>4
  <2>2. C \in SUBSET P /\ D \in SUBSET Q /\ IsFiniteSet(C)
    <3>1. C \in SUBSET P /\ D \in SUBSET Q
      OBVIOUS
    <3> QED
      BY <3>1, <1>2, FS_Subset
  <2>3. \A j \in Nat : j \in D <=> j + 1 \in C /\ j + 1 # 1
    <3>1. \A j \in Nat : j <= i <=> j + 1 <= i + 1
      BY <2>1
    <3> QED
      BY <3>1, <1>4
  <2>4. 1 \in P => 1 \in C
    <3>1. 1 <= i + 1
      BY <2>1
    <3> QED
      BY <3>1
  <2>5. UpTo(Q, i) = Cardinality(D) /\ UpTo(P, i + 1) = Cardinality(C)
    BY DEF UpTo
  <2> HIDE DEF C, D, d
  <2>6. Cardinality(D) = Cardinality(C) - d
    BY <2>2, <2>3, <2>4, <1>5
  <2> QED
    BY <2>1, <2>5, <2>6
<1>8. d \in {0, 1}
  OBVIOUS
<1> HIDE DEF d
<1>9. ASSUME NEW k \in 1..m
      PROVE  k + d \in 1..n /\ Only(rest, T)[k] = Only(seq, T)[k + d]
  <2> DEFINE i == NthOf(Q, k)
  <2>1. i \in Q /\ UpTo(Q, i) = k
    BY <1>3
  <2> HIDE DEF i
  <2>2. i \in Nat /\ i + 1 \in P /\ k = UpTo(P, i + 1) - d /\ i \in 1..L - 1
    BY <2>1, <1>3, <1>7
  <2>3. UpTo(P, i + 1) \in 1..n
    BY <2>2, <1>2, Ranks
  <2> HIDE DEF n, m
  <2>4. k + d = UpTo(P, i + 1) /\ k + d \in 1..n
    BY <2>2, <2>3, <1>8, <1>2
  <2>5. NthOf(P, k + d) = i + 1
    BY <2>2, <2>4, <1>2
  <2>6. Only(seq, T)[k + d] = seq[i + 1]
    BY <2>4, <2>5, <1>2
  <2>7. Only(rest, T)[k] = rest[i]
    BY <1>3 DEF i
  <2> QED
    BY <2>2, <2>4, <2>6, <2>7, <1>1
<1>10. /\ Only(seq, T) \in Seq(S \cap T) /\ Len(Only(seq, T)) = n
       /\ Only(rest, T) \in Seq(S \cap T) /\ Len(Only(rest, T)) = m
  <2>1. Only(seq, T) \in Seq(S \cap T) /\ Only(rest, T) \in Seq(S \cap T)
    BY <1>1, OnlyRange
  <2> HIDE DEF n, m
  <2> QED
    BY <2>1, <1>2, <1>3
<1>11. CASE Head(seq) \in T
  <2>1. d = 1 /\ 1 \in P
    BY <1>4, <1>11 DEF d
  <2>2. UpTo(P, 1) = 1
    <3>1. \A j \in P : j <= 1 <=> j = 1
      BY <1>2
    <3>2. {j \in P : j <= 1} = {1}
      BY <3>1, <2>1
    <3> QED
      BY <3>2, FS_Singleton DEF UpTo
  <2>3. NthOf(P, 1) = 1 /\ 1 \in 1..n
    <3>1. UpTo(P, 1) \in 1..n
      BY <2>1, <1>2, Ranks
    <3> QED
      BY <3>1, <2>1, <2>2, <1>2
  <2> DEFINE o == Only(seq, T)  t == Only(rest, T)
  <2> HIDE DEF n, m
  <2>4. o[1] = Head(seq)
    BY <2>3, <1>1, <1>2
  <2>5. o \in Seq(S \cap T) /\ Len(o) = n /\ t \in Seq(S \cap T) /\ Len(t) = m /\ m = n - 1 /\ n \in Nat /\ n >= 1
    BY <1>2, <1>6, <1>10, <2>1, <2>3
  <2>6. \A k \in 1..m : t[k] = o[k + 1]
    BY <1>9, <2>1
  <2> HIDE DEF o, t
  <2>7. o # <<>> /\ Head(o) = Head(seq)
    BY <2>4, <2>5
  <2>8. t = Tail(o)
    <3>1. Tail(o) \in Seq(S \cap T) /\ Len(Tail(o)) = m /\ \A k \in 1..m : Tail(o)[k] = o[k + 1]
      BY <2>5
    <3> DEFINE u == Tail(o)
    <3> HIDE DEF u
    <3>2. u \in Seq(S \cap T) /\ Len(u) = m /\ \A k \in 1..m : u[k] = t[k]
      BY <3>1, <2>6 DEF u
    <3>3. u = t
      BY <3>2, <2>5, SeqEqual
    <3> QED
      BY <3>3 DEF u
  <2> QED
    BY <2>7, <2>8, <1>11 DEF o, t, rest
<1>12. CASE Head(seq) \notin T
  <2>1. d = 0 /\ m = n
    <3>1. d = 0
      BY <1>12 DEF d
    <3> HIDE DEF n, m
    <3> QED
      BY <3>1, <1>2, <1>6
  <2> DEFINE o == Only(seq, T)  t == Only(rest, T)
  <2>2. o \in Seq(S \cap T) /\ Len(o) = n /\ t \in Seq(S \cap T) /\ Len(t) = n
    BY <1>10, <2>1
  <2>3. \A k \in 1..n : t[k] = o[k]
    <3> HIDE DEF n, m, o, t
    <3> TAKE k \in 1..n
    <3>1. t[k] = o[k + 0] /\ k + 0 = k
      BY <1>9, <2>1, <1>2 DEF o, t
    <3> QED
      BY <3>1
  <2> HIDE DEF o, t, n
  <2>4. t = o
    BY <2>2, <2>3, SeqEqual
  <2> QED
    BY <2>4, <1>12 DEF o, t, rest
<1> QED
  BY <1>11, <1>12

-----------------------------------------------------------------------------
(* The greatest of a set.                                                   *)

\* A finite set of numbers has a greatest.
LEMMA GreatestElement ==
  ASSUME NEW S \in SUBSET Nat, IsFiniteSet(S), S # {}
  PROVE  \E x \in S : \A y \in S : y <= x
<1>1. Cardinality(S) \in Nat /\ Cardinality(S) # 0
  BY FS_CardinalityType, FS_EmptySet
<1>2. PICK x \in S : UpTo(S, x) = Cardinality(S)
  <2>1. Cardinality(S) \in 1..Cardinality(S)
    BY <1>1
  <2> QED
    BY <2>1, Ranks
<1>3. ASSUME NEW y \in S
      PROVE  y <= x
  <2>1. x \in Nat /\ y \in Nat /\ UpTo(S, y) \in 1..Cardinality(S)
    BY Ranks
  <2>2. ~(x < y)
    <3>1. x < y => UpTo(S, x) < UpTo(S, y)
      BY Ranks
    <3> QED
      BY <3>1, <2>1, <1>1, <1>2
  <2> QED
    BY <2>1, <2>2
<1> QED
  BY <1>3

\* `Max` is that one.
LEMMA MaxIsGreatest ==
  ASSUME NEW S \in SUBSET Nat, IsFiniteSet(S), S # {}
  PROVE  Max(S) \in S /\ \A y \in S : y <= Max(S)
<1>1. \E x \in S : \A y \in S : x >= y
  BY GreatestElement
<1>2. Max(S) \in S /\ \A y \in S : Max(S) >= y
  BY <1>1 DEF Max
<1> QED
  BY <1>2

\* And of two numbers the greater.
LEMMA MaxOfTwo ==
  ASSUME NEW a \in Int, NEW b \in Int
  PROVE  Max({a, b}) = IF a >= b THEN a ELSE b
<1>1. \E x \in {a, b} : \A y \in {a, b} : x >= y
  OBVIOUS
<1>2. Max({a, b}) \in {a, b} /\ \A y \in {a, b} : Max({a, b}) >= y
  BY <1>1 DEF Max
<1> QED
  BY <1>2
-----------------------------------------------------------------------------
(* What is computed place by place.                                         *)

\* A function of 0 to n goes from value to value of S by the steps.
GoesBy(f, S, base, n, step) ==
  f \in [0..n -> S] /\ f[0] = base /\ \A k \in 1..n : f[k] = step[<<k, f[k - 1]>>]

\* There is such a function.
LEMMA Stepwise ==
  ASSUME NEW S, NEW base \in S, NEW n \in Nat, NEW step \in [(1..n) \X S -> S]
  PROVE  \E f : GoesBy(f, S, base, n, step)
<1> DEFINE Has(m) == \E f \in [0..m -> S] :
                       f[0] = base /\ \A k \in 1..m : f[k] = step[<<k, f[k - 1]>>]
           bad == {m \in 0..n : ~Has(m)}
<1>1. Has(0)
  <2> DEFINE f == [k \in 0..0 |-> base]
  <2>1. f \in [0..0 -> S] /\ f[0] = base /\ 1..0 = {}
    OBVIOUS
  <2> HIDE DEF f
  <2> QED
    BY <2>1
<1>2. ASSUME NEW m \in 0..n, m # 0, Has(m - 1)
      PROVE  Has(m)
  <2>1. PICK f \in [0..(m - 1) -> S] :
          f[0] = base /\ \A k \in 1..(m - 1) : f[k] = step[<<k, f[k - 1]>>]
    BY <1>2
  <2>2. m \in 1..n /\ m - 1 \in 0..(m - 1) /\ m \notin 0..(m - 1) /\ 0 \in 0..(m - 1)
    BY <1>2
  <2> DEFINE g == [k \in 0..m |-> IF k = m THEN step[<<m, f[m - 1]>>] ELSE f[k]]
  <2>3. step[<<m, f[m - 1]>>] \in S
    <3>1. f[m - 1] \in S
      BY <2>2
    <3> QED
      BY <2>2, <3>1
  <2>4. \A k \in 0..m : k # m => k \in 0..(m - 1)
    BY <2>2
  <2>5. g \in [0..m -> S]
    BY <2>3, <2>4
  <2>6. \A k \in 0..(m - 1) : k \in 0..m /\ k # m
    BY <2>2
  <2>7. \A k \in 0..(m - 1) : g[k] = f[k]
    BY <2>6
  <2>8. g[m] = step[<<m, f[m - 1]>>]
    BY <2>2
  <2>9. \A k \in 1..m : k - 1 \in 0..(m - 1) /\ (k # m => k \in 1..(m - 1) /\ k \in 0..(m - 1))
    BY <2>2
  <2> HIDE DEF g
  <2>10. \A k \in 1..m : g[k] = step[<<k, g[k - 1]>>]
    BY <2>1, <2>2, <2>7, <2>8, <2>9
  <2> QED
    BY <2>1, <2>2, <2>5, <2>7, <2>10
<1> HIDE DEF Has
<1>3. bad = {}
  <2> SUFFICES ASSUME bad # {}
               PROVE  FALSE
    OBVIOUS
  <2>1. bad \in SUBSET Nat
    OBVIOUS
  <2>2. PICK m \in bad : \A k \in bad : m <= k
    BY <2>1, LeastElement
  <2>3. m # 0 /\ m \in 0..n
    BY <1>1, <2>2
  <2>4. m - 1 \in 0..n /\ ~(m <= m - 1)
    BY <2>3
  <2>5. Has(m - 1)
    BY <2>2, <2>4
  <2> QED
    BY <1>2, <2>2, <2>3, <2>5
<1>4. n \in 0..n
  OBVIOUS
<1>5. Has(n)
  BY <1>3, <1>4
<1> QED
  BY <1>5 DEF Has, GoesBy

\* What holds first and after each step where it held holds at all of 0 to n.
LEMMA Inductively ==
  ASSUME NEW n \in Nat, NEW holds \in SUBSET (0..n), 0 \in holds,
         \A k \in 1..n : k - 1 \in holds => k \in holds
  PROVE  n \in holds /\ holds = 0..n
<1> DEFINE bad == (0..n) \ holds
<1>1. bad = {}
  <2> SUFFICES ASSUME bad # {}
               PROVE  FALSE
    OBVIOUS
  <2>1. bad \in SUBSET Nat
    OBVIOUS
  <2>2. PICK m \in bad : \A k \in bad : m <= k
    BY <2>1, LeastElement
  <2>3. m # 0 /\ m \in 1..n
    BY <2>2
  <2>4. m - 1 \in 0..n /\ ~(m <= m - 1)
    BY <2>3
  <2> QED
    BY <2>2, <2>3, <2>4
<1>2. n \in 0..n
  OBVIOUS
<1> QED
  BY <1>1, <1>2

\* The lines of a sequence one after the other: their elements, and each once if
\* the lines are free of repetition and have no element in common.
LEMMA Flattened ==
  ASSUME NEW S, NEW seqs \in Seq(Seq(S))
  PROVE  /\ FlattenSeq(seqs) \in Seq(S)
         /\ \A x : x \in Range(FlattenSeq(seqs)) <=> \E i \in 1..Len(seqs) : x \in Range(seqs[i])
         /\ (/\ \A i \in 1..Len(seqs) : Once(seqs[i])
             /\ \A i, j \in 1..Len(seqs) : i # j => Range(seqs[i]) \cap Range(seqs[j]) = {})
            => Once(FlattenSeq(seqs))
<1> DEFINE n == Len(seqs)
           Is(f) == f = [i \in 1..n |-> IF i = 1 THEN seqs[i] ELSE f[i - 1] \o seqs[i]]
           flatten == CHOOSE f : Is(f)
           Parts(i) == \A x : x \in Range(flatten[i]) <=> \E j \in 1..i : x \in Range(seqs[j])
           Apart == /\ \A i \in 1..n : Once(seqs[i])
                    /\ \A i, j \in 1..n : i # j => Range(seqs[i]) \cap Range(seqs[j]) = {}
           Good(i) == flatten[i] \in Seq(S) /\ Parts(i) /\ (Apart => Once(flatten[i]))
<1>1. n \in Nat /\ \A i \in 1..n : seqs[i] \in Seq(S)
  OBVIOUS
<1>2. CASE n = 0
  <2>1. seqs = <<>> /\ FlattenSeq(seqs) = <<>> /\ 1..n = {}
    BY <1>2 DEF FlattenSeq
  <2>2. <<>> \in Seq(S) /\ Range(<<>>) = {} /\ Once(<<>>)
    BY EmptyLine
  <2> QED
    BY <2>1, <2>2
<1>3. CASE n # 0
  <2>1. FlattenSeq(seqs) = flatten[n]
    BY <1>3, Zenon DEF FlattenSeq
  <2>2. Is(flatten)
    <3> DEFINE step == [p \in (1..n) \X Seq(S) |-> IF p[1] = 1 THEN seqs[1] ELSE p[2] \o seqs[p[1]]]
    <3>1. step \in [(1..n) \X Seq(S) -> Seq(S)]
      <4>1. \A a, b \in Seq(S) : a \o b \in Seq(S)
        OBVIOUS
      <4>2. 1 \in 1..n
        BY <1>1, <1>3
      <4> QED
        BY <1>1, <4>1, <4>2
    <3>2. <<>> \in Seq(S)
      OBVIOUS
    <3> HIDE DEF step
    <3>3. PICK h : GoesBy(h, Seq(S), <<>>, n, step)
      BY <1>1, <3>1, <3>2, Stepwise
    <3>6. PICK g \in [0..n -> Seq(S)] : \A k \in 1..n : g[k] = step[<<k, g[k - 1]>>]
      BY <3>3 DEF GoesBy
    <3> DEFINE f == [i \in 1..n |-> g[i]]
    <3>4. ASSUME NEW i \in 1..n
          PROVE  f[i] = IF i = 1 THEN seqs[i] ELSE f[i - 1] \o seqs[i]
      <4>1. i - 1 \in 0..n /\ g[i - 1] \in Seq(S) /\ f[i] = g[i]
        <5>1. i - 1 \in 0..n /\ f[i] = g[i]
          BY <1>1
        <5> QED
          BY <5>1
      <4>2. g[i] = IF i = 1 THEN seqs[1] ELSE g[i - 1] \o seqs[i]
        BY <4>1, <3>6 DEF step
      <4>3. i # 1 => i - 1 \in 1..n
        BY <1>1
      <4>4. i # 1 => f[i - 1] = g[i - 1]
        BY <4>3
      <4> QED
        BY <4>1, <4>2, <4>4
    <3>5. Is(f)
      <4>1. f = [i \in 1..n |-> f[i]]
        OBVIOUS
      <4> HIDE DEF f
      <4>2. [i \in 1..n |-> f[i]] = [i \in 1..n |-> IF i = 1 THEN seqs[i] ELSE f[i - 1] \o seqs[i]]
        BY <3>4, Zenon
      <4> QED
        BY <4>1, <4>2
    <3> HIDE DEF f, Is
    <3> QED
      BY <3>5, Zenon
  <2>3. \A i \in 1..n : flatten[i] = IF i = 1 THEN seqs[i] ELSE flatten[i - 1] \o seqs[i]
    <3> HIDE DEF flatten
    <3> QED
      BY <2>2, Zenon
  <2> HIDE DEF flatten, Good, Parts, Apart
  <2> DEFINE holds == {k \in 0..n : k = 0 \/ Good(k)}
  <2>4. ASSUME NEW k \in 1..n, k - 1 \in holds
        PROVE  k \in holds
    <3>1. CASE k = 1
      <4>1. flatten[k] = seqs[1] /\ 1..k = {1} /\ seqs[1] \in Seq(S)
        BY <1>1, <2>3, <3>1
      <4>2. Parts(k)
        BY <4>1 DEF Parts
      <4>3. Apart => Once(flatten[k])
        BY <4>1, <3>1 DEF Apart
      <4> QED
        BY <4>1, <4>2, <4>3 DEF Good
    <3>2. CASE k # 1
      <4>1. k - 1 \in 1..n /\ 1..k = 1..(k - 1) \cup {k} /\ k \notin 1..(k - 1) /\ 1..(k - 1) \subseteq 1..n
        BY <1>1, <3>2
      <4>2. Good(k - 1) /\ flatten[k] = flatten[k - 1] \o seqs[k] /\ seqs[k] \in Seq(S)
        <5>1. k - 1 # 0
          BY <1>1, <3>2
        <5> QED
          BY <1>1, <2>3, <2>4, <3>2, <5>1
      <4>3. /\ flatten[k] \in Seq(S) /\ Range(flatten[k]) = Range(flatten[k - 1]) \cup Range(seqs[k])
            /\ Once(flatten[k - 1]) /\ Once(seqs[k]) /\ Range(flatten[k - 1]) \cap Range(seqs[k]) = {}
               => Once(flatten[k])
        BY <4>2, ConcatOnce DEF Good
      <4>4. Parts(k)
        <5> SUFFICES ASSUME NEW x
                     PROVE  x \in Range(flatten[k]) <=> \E j \in 1..k : x \in Range(seqs[j])
          BY DEF Parts
        <5>1. x \in Range(flatten[k]) <=> x \in Range(flatten[k - 1]) \/ x \in Range(seqs[k])
          BY <4>3
        <5>2. x \in Range(flatten[k - 1]) <=> \E j \in 1..(k - 1) : x \in Range(seqs[j])
          BY <4>2 DEF Good, Parts
        <5> QED
          BY <5>1, <5>2, <4>1
      <4>5. ASSUME Apart
            PROVE  Once(flatten[k])
        <5>1. Once(flatten[k - 1]) /\ Once(seqs[k])
          BY <4>2, <4>5 DEF Good, Apart
        <5>2. ASSUME NEW x \in Range(flatten[k - 1]), x \in Range(seqs[k])
              PROVE  FALSE
          <6>1. PICK j \in 1..(k - 1) : x \in Range(seqs[j])
            BY <4>2, <5>2 DEF Good, Parts
          <6>2. j \in 1..n /\ j # k
            BY <4>1, <6>1
          <6> QED
            BY <4>5, <5>2, <6>1, <6>2 DEF Apart
        <5> QED
          BY <4>3, <5>1, <5>2
      <4>6. Good(k)
        BY <4>2, <4>3, <4>4, <4>5 DEF Good
      <4>7. k \in 0..n
        BY <1>1
      <4> QED
        BY <4>6, <4>7
    <3> QED
      BY <3>1, <3>2
  <2>5. n \in holds
    <3>1. holds \in SUBSET (0..n) /\ 0 \in holds
      BY <1>1
    <3> HIDE DEF holds
    <3> QED
      BY <1>1, <2>4, <3>1, Inductively
  <2>6. Good(n)
    BY <1>3, <2>5
  <2> QED
    BY <2>1, <2>6 DEF Good, Parts, Apart
<1> QED
  BY <1>2, <1>3
=============================================================================
