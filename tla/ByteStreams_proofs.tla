-------------------------- MODULE ByteStreams_proofs --------------------------
(***************************************************************************)
(* Laws of byte streams.  Bytes concatenates what the messages carry with  *)
(* FlattenSeq, a recursive function of the library: that it exists, and    *)
(* what it computes, is an induction on the length, here over sets of      *)
(* numbers.  The laws that the proofs about sessions and the client use    *)
(* follow: a stream's type, what one more message adds to it or takes off, *)
(* and how counts join and split.                                          *)
(***************************************************************************)
EXTENDS ByteStreams, SequenceTheorems, WellFoundedInduction, TLAPS

\* The order of the numbers is well-founded.
LEMMA LessIsWellFounded ==
  \E R : (\A x, y \in Nat : <<y, x>> \in R <=> y < x) /\ IsWellFoundedOn(R, Nat)
<1>1. \A x, y \in Nat : <<y, x>> \in OpToRel(<, Nat) <=> y < x
  BY DEF OpToRel
<1> QED
  BY <1>1, NatLessThanWellFounded, Zenon

\* A set of numbers that is not empty has a least element.
LEMMA LeastNumber ==
  ASSUME NEW T \in SUBSET Nat, T # {}
  PROVE  \E n \in T : \A m \in T : n <= m
<1>1. PICK R : (\A x, y \in Nat : <<y, x>> \in R <=> y < x) /\ IsWellFoundedOn(R, Nat)
  BY LessIsWellFounded
<1>2. \E x \in T : \A y \in T : ~ (<<y, x>> \in R)
  BY <1>1, WFMin
<1>3. \A x, y \in T : <<y, x>> \notin R => x <= y
  BY <1>1
<1> QED
  BY <1>2, <1>3

\* Induction, over the set of the numbers that have the property.
LEMMA NumberInduction ==
  ASSUME NEW T, 0 \in T, \A n \in Nat : n \in T => n + 1 \in T
  PROVE  Nat \subseteq T
<1> SUFFICES ASSUME ~ (Nat \subseteq T) PROVE FALSE
  OBVIOUS
<1>1. PICK n \in Nat \ T : \A m \in Nat \ T : n <= m
  BY LeastNumber
<1>2. n # 0 /\ n - 1 \in Nat /\ n - 1 \in T
  BY <1>1
<1> QED
  BY <1>1, <1>2

-----------------------------------------------------------------------------
\* The concatenations of the first 1, 2, ... n elements of s.
Partial(f, s, n) == f = [i \in 1..n |-> IF i = 1 THEN s[i] ELSE f[i-1] \o s[i]]

\* The library's recursion has a solution for every length.
LEMMA PartialExists ==
  ASSUME NEW s, NEW n \in Nat
  PROVE  \E f : Partial(f, s, n)
<1> DEFINE T == {k \in Nat : \E f : Partial(f, s, k)}
<1>1. 0 \in T
  <2>1. Partial([i \in 1..0 |-> s[i]], s, 0)
    BY DEF Partial
  <2> QED
    BY <2>1
<1>2. ASSUME NEW k \in Nat, k \in T
      PROVE  k + 1 \in T
  <2>1. PICK f : Partial(f, s, k)
    BY <1>2
  <2> DEFINE last == IF k + 1 = 1 THEN s[k + 1] ELSE f[k] \o s[k + 1]
             g == [i \in 1..(k+1) |-> IF i = k + 1 THEN last ELSE f[i]]
  <2>2. \A i \in 1..k : f[i] = IF i = 1 THEN s[i] ELSE f[i-1] \o s[i]
    BY <2>1 DEF Partial
  <2>3. \A i \in 1..k : g[i] = f[i]
    OBVIOUS
  <2>4. g[k+1] = last
    OBVIOUS
  <2> DEFINE e(i) == IF i = 1 THEN s[i] ELSE g[i-1] \o s[i]
  <2>5. ASSUME NEW i \in 1..(k+1) PROVE g[i] = e(i)
    <3>1. CASE i = k + 1 /\ k = 0
      BY <3>1, <2>4
    <3>2. CASE i = k + 1 /\ k # 0
      <4>1. g[k] = f[k]
        BY <2>3, <3>2
      <4> QED
        BY <3>2, <2>4, <4>1
    <3>3. CASE i \in 1..k
      <4>1. i # 1 => g[i-1] = f[i-1]
        BY <2>3, <3>3
      <4> HIDE DEF g, last
      <4> QED
        BY <3>3, <2>2, <2>3, <4>1
    <3> QED
      BY <3>1, <3>2, <3>3
  <2>6. g = [i \in 1..(k+1) |-> g[i]]
    OBVIOUS
  <2> HIDE DEF g
  <2>7. g = [i \in 1..(k+1) |-> e(i)]
    BY <2>5, <2>6
  <2>8. Partial(g, s, k + 1)
    BY <2>7 DEF Partial
  <2>9. \E h : Partial(h, s, k + 1)
    BY <2>8
  <2> QED
    BY <2>9
<1> HIDE DEF T
<1>3. Nat \subseteq T
  BY <1>1, <1>2, NumberInduction
<1> QED
  BY <1>3 DEF T

\* What FlattenSeq computes, one element at a time.
LEMMA FlattenSteps ==
  ASSUME NEW s, Len(s) \in Nat \ {0}
  PROVE  \E f : Partial(f, s, Len(s)) /\ FlattenSeq(s) = f[Len(s)]
<1>1. \E f : Partial(f, s, Len(s))
  BY PartialExists
<1> QED
  BY <1>1 DEF FlattenSeq, Partial

\* The partial concatenations are sequences, and the same for s and any
\* sequence that begins with s.
LEMMA PartialType ==
  ASSUME NEW V, NEW s \in Seq(Seq(V)), NEW n \in 0..Len(s), NEW f, Partial(f, s, n)
  PROVE  \A k \in 1..n : f[k] \in Seq(V)
<1> DEFINE T == {k \in Nat : k \in 1..n => f[k] \in Seq(V)}
<1>1. \A k \in 1..n : f[k] = IF k = 1 THEN s[k] ELSE f[k-1] \o s[k]
  BY DEF Partial
<1>2. \A k \in 1..Len(s) : s[k] \in Seq(V)
  BY ElementOfSeq
<1>3. ASSUME NEW k \in Nat, k \in T
      PROVE  k + 1 \in T
  <2>1. CASE k + 1 \in 1..n /\ k # 0
    <3>0. k \in 1..n /\ k + 1 # 1 /\ (k + 1) - 1 = k /\ k + 1 \in 1..Len(s)
      BY <2>1
    <3>1. f[k] \in Seq(V) /\ s[k+1] \in Seq(V) /\ f[k+1] = f[k] \o s[k+1]
      BY <1>1, <1>2, <1>3, <2>1, <3>0
    <3>2. f[k+1] \in Seq(V)
      BY <3>1, ConcatProperties
    <3> QED
      BY <3>2
  <2>2. CASE k = 0 /\ k + 1 \in 1..n
    BY <1>1, <1>2, <2>2
  <2> QED
    BY <2>1, <2>2
<1>4. 0 \in T
  OBVIOUS
<1> HIDE DEF T
<1>5. Nat \subseteq T
  BY <1>3, <1>4, NumberInduction
<1> QED
  BY <1>5 DEF T

\* What comes at the end of a sequence changes none of the concatenations before.
LEMMA PartialAgree ==
  ASSUME NEW V, NEW s \in Seq(Seq(V)), NEW e \in Seq(V),
         NEW f, Partial(f, s, Len(s)), NEW g, Partial(g, Append(s, e), Len(s) + 1)
  PROVE  \A k \in 1..Len(s) : g[k] = f[k]
<1> DEFINE n == Len(s)
           t == Append(s, e)
           T == {k \in Nat : k \in 1..n => g[k] = f[k]}
<1>0. n \in Nat /\ \A k \in 1..n : t[k] = s[k]
  OBVIOUS
<1>1. \A k \in 1..n : f[k] = IF k = 1 THEN s[k] ELSE f[k-1] \o s[k]
  BY DEF Partial
<1>2. \A k \in 1..(n+1) : g[k] = IF k = 1 THEN t[k] ELSE g[k-1] \o t[k]
  BY DEF Partial
<1> HIDE DEF t, n
<1>3. ASSUME NEW k \in Nat, k \in T
      PROVE  k + 1 \in T
  <2>1. CASE k + 1 \in 1..n /\ k # 0
    BY <1>0, <1>1, <1>2, <1>3, <2>1
  <2>2. CASE k = 0 /\ k + 1 \in 1..n
    BY <1>0, <1>1, <1>2, <2>2
  <2> QED
    BY <2>1, <2>2
<1>4. 0 \in T
  OBVIOUS
<1> HIDE DEF T
<1>5. Nat \subseteq T
  BY <1>3, <1>4, NumberInduction
<1> QED
  BY <1>5 DEF T, n

-----------------------------------------------------------------------------
\* No pieces make the empty sequence,
LEMMA FlattenEmpty == FlattenSeq(<<>>) = <<>>
BY DEF FlattenSeq

\* pieces over V make a sequence over V,
LEMMA FlattenType ==
  ASSUME NEW V, NEW s \in Seq(Seq(V))
  PROVE  FlattenSeq(s) \in Seq(V)
<1>1. CASE Len(s) = 0
  <2>1. s = <<>>
    BY <1>1, EmptySeq
  <2>2. <<>> \in Seq(V)
    BY EmptySeq
  <2> QED
    BY <2>1, <2>2, FlattenEmpty
<1>2. CASE Len(s) # 0
  <2>1. PICK f : Partial(f, s, Len(s)) /\ FlattenSeq(s) = f[Len(s)]
    BY <1>2, FlattenSteps
  <2>2. Len(s) \in 0..Len(s) /\ Len(s) \in 1..Len(s)
    BY <1>2
  <2> QED
    BY <2>1, <2>2, PartialType
<1> QED
  BY <1>1, <1>2

\* One more element is one more concatenation.
LEMMA FlattenAppend ==
  ASSUME NEW V, NEW s \in Seq(Seq(V)), NEW e \in Seq(V)
  PROVE  FlattenSeq(Append(s, e)) = FlattenSeq(s) \o e
<1> DEFINE n == Len(s)
           t == Append(s, e)
<1>1. n \in Nat /\ Len(t) = n + 1 /\ t[n+1] = e /\ t \in Seq(Seq(V))
  OBVIOUS
<1>2. PICK g : Partial(g, t, n + 1) /\ FlattenSeq(t) = g[n+1]
  <2>1. Len(t) \in Nat \ {0}
    BY <1>1
  <2> HIDE DEF t, n
  <2> QED
    BY <1>1, <2>1, FlattenSteps
<1>3. \A k \in 1..(n+1) : g[k] = IF k = 1 THEN t[k] ELSE g[k-1] \o t[k]
  <2> HIDE DEF t, n
  <2> QED
    BY <1>2 DEF Partial
<1>4. CASE n = 0
  <2>1. s = <<>> /\ FlattenSeq(s) = <<>>
    BY <1>4, EmptySeq, FlattenEmpty
  <2>2. FlattenSeq(t) = e
    <3> HIDE DEF t, n
    <3> QED
      BY <1>1, <1>2, <1>3, <1>4
  <2>3. <<>> \o e = e
    BY ConcatEmptySeq
  <2> HIDE DEF t, n
  <2>4. FlattenSeq(t) = FlattenSeq(s) \o e
    BY <2>1, <2>2, <2>3
  <2> QED
    BY <2>4 DEF t
<1>5. CASE n # 0
  <2>1. PICK f : Partial(f, s, n) /\ FlattenSeq(s) = f[n]
    BY <1>1, <1>5, FlattenSteps
  <2>2. g[n] = f[n]
    <3>1. \A k \in 1..Len(s) : g[k] = f[k]
      BY <1>2, <2>1, PartialAgree
    <3> QED
      BY <1>1, <1>5, <3>1
  <2> HIDE DEF t, n
  <2>3. g[n+1] = g[n] \o e
    <3>1. n + 1 \in 1..(n+1) /\ n + 1 # 1 /\ (n + 1) - 1 = n
      BY <1>1, <1>5
    <3> QED
      BY <1>1, <1>3, <3>1
  <2>4. FlattenSeq(t) = FlattenSeq(s) \o e
    BY <1>2, <2>1, <2>2, <2>3
  <2> QED
    BY <2>4 DEF t
<1> QED
  BY <1>4, <1>5

\* One piece is itself.
LEMMA FlattenOne ==
  ASSUME NEW V, NEW e \in Seq(V)
  PROVE  FlattenSeq(<<e>>) = e
<1>1. <<e>> = Append(<<>>, e)
  OBVIOUS
<1>2. <<>> \in Seq(Seq(V))
  OBVIOUS
<1>3. FlattenSeq(<<e>>) = <<>> \o e
  BY <1>1, <1>2, FlattenAppend, FlattenEmpty
<1> QED
  BY <1>3, ConcatEmptySeq

\* Flattening distributes over concatenation.
LEMMA FlattenConcat ==
  ASSUME NEW V, NEW s \in Seq(Seq(V)), NEW t \in Seq(Seq(V))
  PROVE  FlattenSeq(s \o t) = FlattenSeq(s) \o FlattenSeq(t)
<1> DEFINE T == {n \in Nat : \A u \in Seq(Seq(V)) :
                   Len(u) = n => FlattenSeq(s \o u) = FlattenSeq(s) \o FlattenSeq(u)}
<1>0. FlattenSeq(s) \in Seq(V)
  BY FlattenType
<1>1. 0 \in T
  <2>1. \A u \in Seq(Seq(V)) : Len(u) = 0 => u = <<>>
    BY EmptySeq
  <2>2. s \o <<>> = s /\ FlattenSeq(s) \o <<>> = FlattenSeq(s)
    BY <1>0, ConcatEmptySeq
  <2> QED
    BY <2>1, <2>2, FlattenEmpty
<1>2. ASSUME NEW n \in Nat, n \in T
      PROVE  n + 1 \in T
  <2>1. ASSUME NEW u \in Seq(Seq(V)), Len(u) = n + 1
        PROVE  FlattenSeq(s \o u) = FlattenSeq(s) \o FlattenSeq(u)
    <3> DEFINE v == SubSeq(u, 1, n)
               e == u[n+1]
    <3>1. v \in Seq(Seq(V)) /\ Len(v) = n /\ e \in Seq(V) /\ u = Append(v, e)
      BY <2>1
    <3> HIDE DEF v, e
    <3>2. s \o u = Append(s \o v, e) /\ s \o v \in Seq(Seq(V))
      BY <3>1
    <3>3. FlattenSeq(s \o u) = FlattenSeq(s \o v) \o e
      BY <3>1, <3>2, FlattenAppend
    <3>4. FlattenSeq(u) = FlattenSeq(v) \o e
      BY <3>1, FlattenAppend
    <3>5. FlattenSeq(s \o v) = FlattenSeq(s) \o FlattenSeq(v)
      BY <1>2, <3>1
    <3>6. FlattenSeq(v) \in Seq(V)
      BY <3>1, FlattenType
    <3>7. (FlattenSeq(s) \o FlattenSeq(v)) \o e = FlattenSeq(s) \o (FlattenSeq(v) \o e)
      BY <1>0, <3>1, <3>6, ConcatAssociative, SMTT(30)
    <3> QED
      BY <3>3, <3>4, <3>5, <3>7
  <2> QED
    BY <2>1
<1> HIDE DEF T
<1>3. Nat \subseteq T
  BY <1>1, <1>2, NumberInduction
<1>4. Len(t) \in T
  BY <1>3
<1> QED
  BY <1>4 DEF T

-----------------------------------------------------------------------------
(* Queues, counts and streams. *)

\* A queue at its two ends.
LEMMA QueueFacts ==
  ASSUME NEW S, NEW q \in Seq(S)
  PROVE  /\ Len(q) \in Nat
         /\ \A e \in S : Append(q, e) \in Seq(S) /\ Len(Append(q, e)) = Len(q) + 1
         /\ q # <<>> => /\ Head(q) \in S /\ Tail(q) \in Seq(S)
                        /\ Len(Tail(q)) = Len(q) - 1 /\ q = <<Head(q)>> \o Tail(q)
<1>1. q # <<>> => /\ Head(q) \in S /\ Tail(q) \in Seq(S)
                  /\ Len(Tail(q)) = Len(q) - 1
  BY HeadTailProperties
<1>2. q # <<>> => q = <<Head(q)>> \o Tail(q)
  OBVIOUS
<1> QED
  BY <1>1, <1>2, AppendProperties, LenProperties

\* A sequence cut in two.
LEMMA SplitFacts ==
  ASSUME NEW S, NEW q \in Seq(S), NEW n \in Nat, n <= Len(q)
  PROVE  /\ SubSeq(q, 1, n) \in Seq(S) /\ SubSeq(q, n + 1, Len(q)) \in Seq(S)
         /\ Len(SubSeq(q, n + 1, Len(q))) = Len(q) - n
         /\ SubSeq(q, 1, n) \o SubSeq(q, n + 1, Len(q)) = q
<1>1. Len(q) \in Nat /\ \A i \in 1..Len(q) : q[i] \in S
  OBVIOUS
<1>2. SubSeq(q, 1, n) \in Seq(S)
  BY <1>1, SubSeqProperties
<1>3. /\ SubSeq(q, n + 1, Len(q)) \in Seq(S)
      /\ Len(SubSeq(q, n + 1, Len(q))) = Len(q) - n
  <2>1. /\ SubSeq(q, n + 1, Len(q)) \in Seq(S)
        /\ Len(SubSeq(q, n + 1, Len(q))) = IF n + 1 <= Len(q) THEN Len(q) - (n + 1) + 1 ELSE 0
    <3>1. n + 1 \in Int /\ Len(q) \in Int /\ \A i \in (n + 1)..Len(q) : q[i] \in S
      BY <1>1
    <3> QED
      BY <3>1, SubSeqProperties
  <2> QED
    BY <1>1, <2>1
<1>4. SubSeq(q, 1, n) \o SubSeq(q, n + 1, Len(q)) = SubSeq(q, 1, Len(q))
  <2>1. /\ 1 \in 1 .. Len(q) + 1 /\ n \in 1 - 1 .. Len(q)
        /\ Len(q) \in n .. Len(q)
    BY <1>1
  <2> QED
    BY <2>1, ConcatAdjacentSubSeq
<1>5. SubSeq(q, 1, Len(q)) = q
  BY SubSeqFull
<1> QED
  BY <1>2, <1>3, <1>4, <1>5

\* A count is a sequence of its length.
LEMMA CountType ==
  ASSUME NEW k \in Nat, NEW n \in Nat
  PROVE  Count(k, n) \in Seq(Int) /\ Len(Count(k, n)) = n
<1>1. Count(k, n) \in [1..n -> Int]
  BY DEF Count
<1>2. Count(k, n) \in Seq(Int)
  BY <1>1, SeqDef
<1>3. /\ DOMAIN Count(k, n) = 1..n /\ DOMAIN Count(k, n) = 1..Len(Count(k, n))
      /\ Len(Count(k, n)) \in Nat
  BY <1>1, <1>2, LenProperties
<1>4. Len(Count(k, n)) = n
  BY <1>3
<1> QED
  BY <1>2, <1>4

\* The messages of either direction, and none.
Kinds == {"none", "output", "exited", "failed", "error", "pong",
          "input", "resize", "bad", "ping", "close"}
AnyMessage == [kind : Kinds, data : Seq(Int)]

\* A set of messages of some kinds is one of them.
LEMMA KindsFacts == \A K : K \subseteq Kinds => [kind : K, data : Seq(Int)] \subseteq AnyMessage
BY DEF AnyMessage

\* What a message carries is a sequence of bytes.
LEMMA DataType ==
  ASSUME NEW K, NEW m \in AnyMessage
  PROVE  Data(K, m) \in Seq(Int)
<1>1. m.data \in Seq(Int)
  BY DEF AnyMessage
<1>2. <<>> \in Seq(Int)
  OBVIOUS
<1> QED
  BY <1>1, <1>2 DEF Data

Chunks(K, s) == [i \in DOMAIN s |-> Data(K, s[i])]

\* The pieces of a stream: one per message.
LEMMA ChunkFacts ==
  ASSUME NEW K, NEW s \in Seq(AnyMessage)
  PROVE  /\ Chunks(K, s) \in Seq(Seq(Int))
         /\ Len(Chunks(K, s)) = Len(s)
         /\ \A i \in 1..Len(s) : Chunks(K, s)[i] = Data(K, s[i])
<1>1. DOMAIN s = 1..Len(s) /\ Len(s) \in Nat /\ \A i \in 1..Len(s) : s[i] \in AnyMessage
  BY LenProperties, ElementOfSeq
<1>2. \A i \in 1..Len(s) : Data(K, s[i]) \in Seq(Int)
  BY <1>1, DataType
<1>3. Chunks(K, s) \in [1..Len(s) -> Seq(Int)]
  BY <1>1, <1>2 DEF Chunks
<1>4. Chunks(K, s) \in Seq(Seq(Int))
  BY <1>1, <1>3, SeqDef
<1>5. DOMAIN Chunks(K, s) = 1..Len(s) /\ DOMAIN Chunks(K, s) = 1..Len(Chunks(K, s))
      /\ Len(Chunks(K, s)) \in Nat
  BY <1>3, <1>4, LenProperties
<1>6. Len(Chunks(K, s)) = Len(s)
  BY <1>1, <1>5
<1> QED
  BY <1>1, <1>4, <1>6 DEF Chunks

\* Bytes makes a sequence of bytes,
LEMMA BytesType ==
  ASSUME NEW K, NEW s \in Seq(AnyMessage)
  PROVE  Bytes(K, s) \in Seq(Int)
<1>1. Bytes(K, s) = FlattenSeq(Chunks(K, s))
  BY DEF Bytes, Chunks
<1> QED
  BY <1>1, ChunkFacts, FlattenType

\* distributes over what was sent first and what was sent after,
LEMMA BytesConcat ==
  ASSUME NEW K, NEW s \in Seq(AnyMessage), NEW t \in Seq(AnyMessage)
  PROVE  Bytes(K, s \o t) = Bytes(K, s) \o Bytes(K, t)
<1>1. /\ s \o t \in Seq(AnyMessage) /\ Len(s \o t) = Len(s) + Len(t)
      /\ Len(s) \in Nat /\ Len(t) \in Nat
  BY ConcatProperties, LenProperties
<1>2. /\ Chunks(K, s) \in Seq(Seq(Int)) /\ Chunks(K, t) \in Seq(Seq(Int))
      /\ Chunks(K, s \o t) \in Seq(Seq(Int))
      /\ Chunks(K, s) \o Chunks(K, t) \in Seq(Seq(Int))
  BY <1>1, ChunkFacts, ConcatProperties
<1>a. /\ Len(Chunks(K, s)) = Len(s) /\ Len(Chunks(K, t)) = Len(t)
      /\ Len(Chunks(K, s \o t)) = Len(s \o t)
  BY <1>1, ChunkFacts
<1>b. Len(Chunks(K, s) \o Chunks(K, t)) = Len(Chunks(K, s)) + Len(Chunks(K, t))
  BY <1>2, ConcatProperties
<1>3. /\ Len(Chunks(K, s)) = Len(s) /\ Len(Chunks(K, t)) = Len(t)
      /\ Len(Chunks(K, s \o t)) = Len(s) + Len(t)
      /\ Len(Chunks(K, s) \o Chunks(K, t)) = Len(s) + Len(t)
  BY <1>1, <1>a, <1>b
<1>4. ASSUME NEW i \in 1..(Len(s) + Len(t))
      PROVE  Chunks(K, s \o t)[i] = (Chunks(K, s) \o Chunks(K, t))[i]
  <2>1. Chunks(K, s \o t)[i] = Data(K, (s \o t)[i])
    <3>1. i \in 1..Len(s \o t)
      BY <1>1
    <3> QED
      BY <1>1, <3>1, ChunkFacts
  <2>2. (s \o t)[i] = IF i <= Len(s) THEN s[i] ELSE t[i - Len(s)]
    BY ConcatProperties
  <2>3. (Chunks(K, s) \o Chunks(K, t))[i]
          = IF i <= Len(s) THEN Chunks(K, s)[i] ELSE Chunks(K, t)[i - Len(s)]
    <3> DEFINE x == Chunks(K, s)
               y == Chunks(K, t)
    <3>1. x \in Seq(Seq(Int)) /\ y \in Seq(Seq(Int)) /\ i \in 1 .. Len(x) + Len(y)
          /\ Len(x) = Len(s)
      BY <1>2, <1>3
    <3> HIDE DEF x, y
    <3>2. (x \o y)[i] = IF i <= Len(x) THEN x[i] ELSE y[i - Len(x)]
      BY <3>1, ConcatProperties
    <3>3. (x \o y)[i] = IF i <= Len(s) THEN x[i] ELSE y[i - Len(s)]
      BY <3>1, <3>2
    <3> QED
      BY <3>3 DEF x, y
  <2>4. CASE i <= Len(s)
    <3>1. i \in 1..Len(s)
      BY <1>1, <2>4
    <3> QED
      BY <2>1, <2>2, <2>3, <2>4, <3>1, ChunkFacts
  <2>5. CASE ~(i <= Len(s))
    <3>1. i - Len(s) \in 1..Len(t)
      BY <1>1, <2>5
    <3> QED
      BY <2>1, <2>2, <2>3, <2>5, <3>1, ChunkFacts
  <2> QED
    BY <2>4, <2>5
<1>5. Chunks(K, s \o t) = Chunks(K, s) \o Chunks(K, t)
  <2>1. Len(Chunks(K, s \o t)) = Len(Chunks(K, s) \o Chunks(K, t))
    BY <1>3
  <2>2. \A i \in 1..Len(Chunks(K, s \o t)) :
          Chunks(K, s \o t)[i] = (Chunks(K, s) \o Chunks(K, t))[i]
    BY <1>3, <1>4
  <2> QED
    BY <1>2, <2>1, <2>2, SeqEqual
<1> QED
  BY <1>2, <1>5, FlattenConcat DEF Bytes, Chunks

\* finds nothing in no message
LEMMA BytesEmpty ==
  ASSUME NEW K
  PROVE  Bytes(K, <<>>) = <<>>
<1>1. <<>> \in Seq(AnyMessage) /\ Len(<<>>) = 0
  BY EmptySeq
<1>2. Chunks(K, <<>>) \in Seq(Seq(Int)) /\ Len(Chunks(K, <<>>)) = 0
  BY <1>1, ChunkFacts
<1>3. Chunks(K, <<>>) = <<>>
  BY <1>2, EmptySeq
<1> QED
  BY <1>3, FlattenEmpty DEF Bytes, Chunks

\* and in one message what it carries.
LEMMA BytesOne ==
  ASSUME NEW K, NEW m \in AnyMessage
  PROVE  Bytes(K, <<m>>) = Data(K, m)
<1>1. <<m>> \in Seq(AnyMessage) /\ Len(<<m>>) = 1 /\ <<m>>[1] = m
  OBVIOUS
<1>2. Data(K, m) \in Seq(Int)
  BY DataType
<1>3. /\ Chunks(K, <<m>>) \in Seq(Seq(Int)) /\ Len(Chunks(K, <<m>>)) = 1
      /\ Chunks(K, <<m>>)[1] = Data(K, m)
  <2>1. 1 \in 1..Len(<<m>>)
    BY <1>1
  <2>2. Len(Chunks(K, <<m>>)) = Len(<<m>>) /\ Chunks(K, <<m>>)[1] = Data(K, <<m>>[1])
    BY <1>1, <2>1, ChunkFacts
  <2> QED
    BY <1>1, <2>2, ChunkFacts
<1>4. Chunks(K, <<m>>) = <<Data(K, m)>>
  BY <1>2, <1>3, SeqEqual
<1> QED
  BY <1>2, <1>4, FlattenOne DEF Bytes, Chunks

\* So one more message adds what it carries.
LEMMA BytesAppend ==
  ASSUME NEW K, NEW s \in Seq(AnyMessage), NEW m \in AnyMessage
  PROVE  Bytes(K, Append(s, m)) = Bytes(K, s) \o Data(K, m)
<1>1. Append(s, m) = s \o <<m>> /\ <<m>> \in Seq(AnyMessage)
  OBVIOUS
<1> QED
  BY <1>1, BytesConcat, BytesOne

\* Taking the head off a queue takes its bytes off the stream.
LEMMA BytesTail ==
  ASSUME NEW K, NEW s \in Seq(AnyMessage), s # <<>>
  PROVE  Bytes(K, s) = Data(K, Head(s)) \o Bytes(K, Tail(s))
<1>1. Head(s) \in AnyMessage /\ Tail(s) \in Seq(AnyMessage) /\ s = <<Head(s)>> \o Tail(s)
  BY QueueFacts
<1>2. <<Head(s)>> \in Seq(AnyMessage)
  BY <1>1
<1>3. Bytes(K, <<Head(s)>> \o Tail(s)) = Bytes(K, <<Head(s)>>) \o Bytes(K, Tail(s))
  BY <1>1, <1>2, BytesConcat
<1> QED
  BY <1>1, <1>3, BytesOne

\* Concatenation of streams is associative, and the empty stream is its unit.
LEMMA Associative == \A a, b, c \in Seq(Int) : (a \o b) \o c = a \o (b \o c)
<1> SUFFICES ASSUME NEW a \in Seq(Int), NEW b \in Seq(Int), NEW c \in Seq(Int)
             PROVE  (a \o b) \o c = a \o (b \o c)
  OBVIOUS
<1> QED
  BY ConcatAssociative

\* What is joined is a stream, and joining nothing changes nothing.
LEMMA Joined ==
  \A a, b \in Seq(Int) : a \o b \in Seq(Int) /\ a \o <<>> = a /\ <<>> \o a = a
<1> SUFFICES ASSUME NEW a \in Seq(Int), NEW b \in Seq(Int)
             PROVE  a \o b \in Seq(Int) /\ a \o <<>> = a /\ <<>> \o a = a
  OBVIOUS
<1> QED
  BY ConcatProperties, ConcatEmptySeq

\* A count goes on where another ends.
LEMMA CountFacts ==
  ASSUME NEW n \in Nat
  PROVE  /\ Count(0, 0) = <<>>
         /\ Count(0, n) \o <<n + 1>> = Count(0, n + 1)
         /\ \A m \in Nat : Count(0, n) \o Count(n, m) = Count(0, n + m)
<1>1. Count(0, 0) = <<>>
  BY CountType, EmptySeq
<1>2. ASSUME NEW m \in Nat PROVE Count(0, n) \o Count(n, m) = Count(0, n + m)
  <2> DEFINE x == Count(0, n)
             y == Count(n, m)
             z == Count(0, n + m)
  <2>1. /\ x \in Seq(Int) /\ Len(x) = n /\ y \in Seq(Int) /\ Len(y) = m
        /\ z \in Seq(Int) /\ Len(z) = n + m
    BY CountType
  <2>2. /\ \A i \in 1..n : x[i] = i
        /\ \A i \in 1..m : y[i] = n + i
        /\ \A i \in 1..(n + m) : z[i] = i
    BY DEF Count
  <2> HIDE DEF x, y, z
  <2>3. x \o y \in Seq(Int) /\ Len(x \o y) = n + m
    BY <2>1, ConcatProperties
  <2>4. ASSUME NEW i \in 1..(n + m) PROVE (x \o y)[i] = z[i]
    <3>1. (x \o y)[i] = IF i <= n THEN x[i] ELSE y[i - n]
      BY <2>1, ConcatProperties
    <3>2. CASE i <= n
      BY <2>2, <3>1, <3>2
    <3>3. CASE ~(i <= n)
      <4>1. i - n \in 1..m
        BY <3>3
      <4>2. y[i - n] = n + (i - n)
        BY <2>2, <4>1
      <4> QED
        BY <2>2, <3>1, <3>3, <4>2
    <3> QED
      BY <3>2, <3>3
  <2>5. x \o y = z
    BY <2>1, <2>3, <2>4, SeqEqual
  <2> QED
    BY <2>5 DEF x, y, z
<1>3. Count(n, 1) = <<n + 1>>
  <2>1. Count(n, 1) \in Seq(Int) /\ Len(Count(n, 1)) = 1
    BY CountType
  <2>2. Count(n, 1)[1] = n + 1
    BY DEF Count
  <2>3. <<n + 1>> \in Seq(Int) /\ Len(<<n + 1>>) = 1 /\ <<n + 1>>[1] = n + 1
    OBVIOUS
  <2>4. \A i \in 1..1 : Count(n, 1)[i] = <<n + 1>>[i]
    BY <2>2, <2>3
  <2> QED
    BY <2>1, <2>3, <2>4, SeqEqual
<1>4. Count(0, n) \o <<n + 1>> = Count(0, n + 1)
  BY <1>2, <1>3
<1> QED
  BY <1>1, <1>2, <1>4

\* Concatenation under a name of its own: the provers take an equation between
\* concatenations apart, element by element, wherever they see one.
Cat(a, b) == a \o b

\* The same laws under this name.
LEMMA CatAssociative ==
  \A a, b, c \in Seq(Int) : Cat(Cat(a, b), c) = Cat(a, Cat(b, c))
BY Associative, Zenon DEF Cat

\* Cat makes streams, is associative and has the empty stream as its unit.
LEMMA CatFacts ==
  /\ \A a, b \in Seq(Int) : Cat(a, b) \in Seq(Int)
  /\ \A a, b, c \in Seq(Int) : Cat(Cat(a, b), c) = Cat(a, Cat(b, c))
  /\ \A a \in Seq(Int) : Cat(a, <<>>) = a /\ Cat(<<>>, a) = a
<1>1. \A a, b \in Seq(Int) : Cat(a, b) \in Seq(Int)
  BY Joined DEF Cat
<1>2. \A a, b, c \in Seq(Int) : Cat(Cat(a, b), c) = Cat(a, Cat(b, c))
  BY CatAssociative
<1>3. \A a \in Seq(Int) : Cat(a, <<>>) = a /\ Cat(<<>>, a) = a
  BY Joined, Zenon DEF Cat
<1> QED
  BY <1>1, <1>2, <1>3

\* What is the beginning and the end of a count.
LEMMA CountSplit ==
  ASSUME NEW a \in Seq(Int), NEW b \in Seq(Int), NEW n \in Nat, Cat(a, b) = Count(0, n)
  PROVE  /\ Len(a) \in Nat /\ Len(b) \in Nat /\ Len(a) + Len(b) = n
         /\ a = Count(0, Len(a)) /\ b = Count(Len(a), Len(b))
<1>0. a \o b = Count(0, n)
  BY DEF Cat
<1>1. Len(a) \in Nat /\ Len(b) \in Nat
  BY LenProperties
<1>2. Len(a) + Len(b) = n
  <2>1. Len(a \o b) = Len(a) + Len(b)
    BY ConcatProperties
  <2>2. Len(Count(0, n)) = n
    BY CountType
  <2> QED
    BY <1>0, <2>1, <2>2
<1>3. /\ \A i \in 1..Len(a) : Count(0, Len(a))[i] = i
      /\ \A i \in 1..Len(b) : Count(Len(a), Len(b))[i] = Len(a) + i
  BY <1>1 DEF Count
<1>4. \A i \in 1..n : (a \o b)[i] = i
  <2>1. \A i \in 1..n : Count(0, n)[i] = i
    BY DEF Count
  <2> QED
    BY <1>0, <2>1
<1>5. \A i \in 1..n : (a \o b)[i] = IF i <= Len(a) THEN a[i] ELSE b[i - Len(a)]
  BY <1>2, ConcatProperties
<1>6. ASSUME NEW i \in 1..Len(a) PROVE a[i] = Count(0, Len(a))[i]
  <2>1. i \in 1..n /\ i <= Len(a)
    BY <1>1, <1>2
  <2>2. a[i] = i
    BY <1>4, <1>5, <2>1
  <2> QED
    BY <1>3, <2>2
<1>7. ASSUME NEW i \in 1..Len(b) PROVE b[i] = Count(Len(a), Len(b))[i]
  <2>1. /\ Len(a) + i \in 1..n /\ ~(Len(a) + i <= Len(a)) /\ (Len(a) + i) - Len(a) = i
    BY <1>1, <1>2
  <2>2. b[i] = Len(a) + i
    BY <1>4, <1>5, <2>1
  <2> QED
    BY <1>1, <1>3, <2>2
<1>8. a = Count(0, Len(a))
  BY <1>1, <1>6, CountType, SeqEqual
<1>9. b = Count(Len(a), Len(b))
  BY <1>1, <1>7, CountType, SeqEqual
<1> QED
  BY <1>1, <1>2, <1>8, <1>9
=============================================================================
