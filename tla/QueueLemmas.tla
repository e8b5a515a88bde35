----------------------------- MODULE QueueLemmas -----------------------------
(* What the operations on a queue do to its entries. *)
EXTENDS Queues, Functions, SequenceTheorems, TLAPS

(* The backends that are tried on a leaf, and the time they may take.      *)
USE ZenonT(10), SMTT(20)

(* What the operations on a queue do to the set of its entries. *)
LEMMA AppendFacts ==
  ASSUME NEW S, NEW q \in Seq(S), NEW r \in S, IsInjective(q), r \notin Range(q)
  PROVE  /\ Append(q, r) \in Seq(S) /\ IsInjective(Append(q, r))
         /\ Range(Append(q, r)) = Range(q) \cup {r}
<1>1. Append(q, r) \in Seq(S) /\ Len(Append(q, r)) = Len(q) + 1
  BY SMT
<1>2. \A i \in 1..Len(q) : Append(q, r)[i] = q[i]
  BY SMT
<1>3. Append(q, r)[Len(q) + 1] = r
  BY SMT
<1>4. DOMAIN q = 1..Len(q) /\ DOMAIN Append(q, r) = 1..(Len(q) + 1)
  BY <1>1, SMT
<1>5. Range(Append(q, r)) = Range(q) \cup {r}
  BY <1>1, <1>2, <1>3, <1>4, SMT DEF Range
<1>6. IsInjective(Append(q, r))
  BY <1>1, <1>2, <1>3, <1>4, SMT DEF Range, IsInjective
<1>. QED  BY <1>1, <1>5, <1>6

LEMMA HeadFacts ==
  ASSUME NEW S, NEW q \in Seq(S), q # << >>
  PROVE  Head(q) \in S /\ Head(q) \in Range(q)
<1>1. Head(q) = q[1] /\ 1 \in DOMAIN q
  BY SMT
<1>. QED  BY <1>1, SMT DEF Range

LEMMA TailFacts ==
  ASSUME NEW S, NEW q \in Seq(S), IsInjective(q), q # << >>
  PROVE  /\ Head(q) \in S /\ Head(q) \in Range(q) /\ Head(q) = q[1]
         /\ Tail(q) \in Seq(S) /\ IsInjective(Tail(q))
         /\ Range(Tail(q)) = Range(q) \ {Head(q)}
<1>1. Head(q) = q[1] /\ Len(q) \in Nat \ {0} /\ DOMAIN q = 1..Len(q)
  BY SMT
<1>2. Tail(q) \in Seq(S) /\ Len(Tail(q)) = Len(q) - 1
  BY SMT
<1>3. DOMAIN Tail(q) = 1..(Len(q) - 1) /\ \A i \in 1..(Len(q) - 1) : Tail(q)[i] = q[i + 1]
  BY <1>1, <1>2, SMT
<1>4. Range(Tail(q)) \subseteq Range(q) \ {Head(q)}
  BY <1>1, <1>3, SMT DEF Range, IsInjective
<1>5. ASSUME NEW x \in Range(q) \ {Head(q)}  PROVE x \in Range(Tail(q))
  <2>1. PICK i \in 1..Len(q) : q[i] = x
    BY <1>1 DEF Range
  <2>2. i # 1 /\ i - 1 \in 1..(Len(q) - 1) /\ Tail(q)[i - 1] = x
    BY <1>1, <1>3, <2>1, SMT
  <2>. QED  BY <1>3, <2>2 DEF Range
<1>6. IsInjective(Tail(q))
  BY <1>1, <1>3, SMT DEF IsInjective
<1>7. Head(q) \in S /\ Head(q) \in Range(q)
  BY <1>1, SMT DEF Range
<1>. QED  BY <1>1, <1>2, <1>4, <1>5, <1>6, <1>7

(* The ends of a queue have the right types. *)
LEMMA EndsType ==
  ASSUME NEW S, NEW q \in Seq(S), q # << >>
  PROVE  Head(q) \in S /\ Tail(q) \in Seq(S)
BY SMT

LEMMA WithoutFacts ==
  ASSUME NEW S, NEW q \in Seq(S), IsInjective(q), NEW n \in 1..Len(q)
  PROVE  /\ Without(q, n) \in Seq(S) /\ IsInjective(Without(q, n))
         /\ Range(Without(q, n)) = Range(q) \ {q[n]}
<1>. DEFINE t == Without(q, n)
            a == SubSeq(q, 1, n - 1)
            b == SubSeq(q, n + 1, Len(q))
<1>1. DOMAIN q = 1..Len(q) /\ Len(q) \in Nat
  BY SMT
<1>a. a \in Seq(S) /\ Len(a) = n - 1 /\ \A j \in 1..(n - 1) : a[j] = q[j]
  BY <1>1, SubSeqProperties, SMT
<1>b. b \in Seq(S) /\ Len(b) = Len(q) - n /\ \A j \in 1..(Len(q) - n) : b[j] = q[n + j]
  <2>1. PICK m \in Int : m = n + 1
    BY SMT
  <2>2. Len(q) \in Int /\ \A j \in m..Len(q) : q[j] \in S
    BY <1>1, <2>1, SMT
  <2>3. /\ b \in Seq(S)
        /\ Len(b) = IF m <= Len(q) THEN Len(q) - m + 1 ELSE 0
        /\ \A j \in 1..(Len(q) - m + 1) : b[j] = q[m + j - 1]
    BY <2>1, <2>2, SubSeqProperties, SMT
  <2>. HIDE DEF b
  <2>4. Len(b) = Len(q) - n
    <3>1. CASE m <= Len(q)
      <4>1. Len(b) = Len(q) - m + 1
        BY <2>3, <3>1
      <4>. QED  BY <1>1, <2>1, <4>1, SMT
    <3>2. CASE ~(m <= Len(q))
      <4>1. Len(b) = 0
        BY <2>3, <3>2
      <4>2. \A k, l \in Int : k <= l /\ ~(k + 1 <= l) => l - k = 0
        BY SMT
      <4>3. n \in Int /\ Len(q) \in Int /\ n <= Len(q)
        BY <1>1, SMT
      <4>. QED  BY <2>1, <3>2, <4>1, <4>2, <4>3
    <3>. QED  BY <3>1, <3>2
  <2>5. ASSUME NEW j \in 1..(Len(q) - n)  PROVE b[j] = q[n + j]
    <3>1. j \in 1..(Len(q) - m + 1) /\ m + j - 1 = n + j
      BY <1>1, <2>1, SMT
    <3>. QED  BY <2>3, <3>1
  <2>. QED  BY <2>3, <2>4, <2>5
<1>c. t = a \o b
  BY DEF Without
<1>. HIDE DEF a, b, t
<1>2. t \in Seq(S) /\ Len(t) = Len(q) - 1
  <2>1. t \in Seq(S) /\ Len(t) = Len(a) + Len(b)
    BY <1>a, <1>b, <1>c, ConcatProperties
  <2>. QED  BY <1>1, <1>a, <1>b, <2>1, SMT
<1>3. \A j \in 1..(Len(q) - 1) : t[j] = IF j < n THEN q[j] ELSE q[j + 1]
  <2>. SUFFICES ASSUME NEW j \in 1..(Len(q) - 1)
                PROVE  t[j] = IF j < n THEN q[j] ELSE q[j + 1]
    OBVIOUS
  <2>1. CASE j < n
    BY <1>1, <1>a, <1>b, <1>c, <2>1, SMT
  <2>2. CASE ~(j < n)
    <3>1. j - (n - 1) \in 1..(Len(q) - n) /\ t[j] = b[j - (n - 1)]
      BY <1>1, <1>a, <1>b, <1>c, <2>2, SMT
    <3>. QED  BY <1>1, <1>b, <2>2, <3>1, SMT
  <2>. QED  BY <2>1, <2>2
<1>4. DOMAIN t = 1..(Len(q) - 1)
  BY <1>1, <1>2, SMT
<1>5. ASSUME NEW x \in Range(t)  PROVE x \in Range(q) \ {q[n]}
  <2>1. PICK j \in 1..(Len(q) - 1) : t[j] = x
    BY <1>4 DEF Range
  <2>2. CASE j < n
    BY <1>1, <1>3, <2>1, <2>2, SMT DEF Range, IsInjective
  <2>3. CASE ~(j < n)
    BY <1>1, <1>3, <2>1, <2>3, SMT DEF Range, IsInjective
  <2>. QED  BY <2>2, <2>3
<1>6. ASSUME NEW x \in Range(q) \ {q[n]}  PROVE x \in Range(t)
  <2>1. PICK i \in 1..Len(q) : q[i] = x
    BY <1>1 DEF Range
  <2>2. CASE i < n
    <3>1. i \in 1..(Len(q) - 1) /\ t[i] = x
      BY <1>1, <1>3, <2>1, <2>2, SMT
    <3>. QED  BY <3>1, <1>4 DEF Range
  <2>3. CASE i > n
    <3>1. i - 1 \in 1..(Len(q) - 1) /\ t[i - 1] = x
      BY <1>1, <1>3, <2>1, <2>3, SMT
    <3>. QED  BY <3>1, <1>4 DEF Range
  <2>. QED  BY <1>1, <2>1, <2>2, <2>3, SMT
<1>7. IsInjective(t)
  <2>. SUFFICES ASSUME NEW i \in 1..(Len(q) - 1), NEW j \in 1..(Len(q) - 1), t[i] = t[j]
                PROVE  i = j
    BY <1>4 DEF IsInjective
  <2>. DEFINE old(k) == IF k < n THEN k ELSE k + 1
  <2>1. old(i) \in 1..Len(q) /\ old(j) \in 1..Len(q)
    BY <1>1, SMT
  <2>2. q[old(i)] = q[old(j)]
    BY <1>3
  <2>3. old(i) = old(j)
    <3>. HIDE DEF old
    <3>. QED  BY <1>1, <2>1, <2>2 DEF IsInjective
  <2>. QED  BY <1>1, <2>3, SMT
<1>. QED  BY <1>2, <1>5, <1>6, <1>7 DEF t
=============================================================================
