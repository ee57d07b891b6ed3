------------------------------ MODULE LogProofs ------------------------------
(***************************************************************************)
(* What LogPipeline keeps for every number of lines, every size of pipe,   *)
(* buffer, poll and file, and every number of days: nothing is lost but to *)
(* a cause the code names, what is read back is in order, and polls of     *)
(* Docker that find no more than they ask for leave no gap.                *)
(***************************************************************************)
EXTENDS LogPipeline, SequenceTheorems, FiniteSetTheorems, WellFoundedInduction, TLAPS

-------------------------------------------------------------------------------
(* The invariant                                                               *)

\* b may come after a: later on the host; with Docker later, the same, or its beginning.
Follows(k, f, a, b) ==
  \/ a < b
  \/ k = "host" /\ f[LineOf(a)] # f[LineOf(b)]
  \/ k = "docker" /\ a <= b + 1
Ordered(k, f, s) == \A i, j \in DOMAIN s : i < j => Follows(k, f, s[i], s[j])
Before(k, f, s, t) == \A a \in ToSet(s), b \in ToSet(t) : Follows(k, f, a, b)
Apart(s, t) == ToSet(s) \cap ToSet(t) = {}

InFiles == UNION {ToSet(file[d]) \cup ToSet(rotated[d]) : d \in Day}

\* Two tokens are a line, and a collector at rest has nothing in hand.
PairInv ==
  /\ \A s \in Stream : \E n \in Nat : Len(pipe[s]) = 2 * n
  /\ collector.pc \in {"idle", "open", "ended"} => collector.batch = <<>>

\* The files are in order, one after the other, the batch comes after them, and the
\* days to come have none.
FilesInv ==
  /\ \A d \in Day : Ordered(kind, stream, file[d]) /\ Before(kind, stream, file[d], collector.batch)
  /\ \A d, e \in Day : d < e => Before(kind, stream, file[d], file[e])
  /\ \A d \in Day : d > day => file[d] = <<>>
  /\ Ordered(kind, stream, collector.batch)

\* On the host what is written later is later on its way, ...
HostOrder ==
  kind = "host" =>
    /\ Ordered(kind, stream, shown) /\ Ordered(kind, stream, buf)
    /\ Before(kind, stream, collector.batch, buf) /\ Before(kind, stream, shown, buf)
    /\ \A d \in Day :
         /\ Ordered(kind, stream, rotated[d]) /\ Before(kind, stream, rotated[d], collector.batch)
         /\ Before(kind, stream, file[d], buf) /\ Before(kind, stream, rotated[d], buf)

\* ... what is in the pipe of a stream is of this stream and comes last, ...
PipesInv ==
  kind = "host" =>
    \A s \in Stream :
      /\ Ordered(kind, stream, pipe[s]) /\ \A t \in ToSet(pipe[s]) : StreamOf(t) = s
      /\ Before(kind, stream, buf, pipe[s]) /\ Before(kind, stream, collector.batch, pipe[s])
      /\ Before(kind, stream, shown, pipe[s])
      /\ \A d \in Day : Before(kind, stream, file[d], pipe[s]) /\ Before(kind, stream, rotated[d], pipe[s])

\* ... what is not in this order is apart, ...
HostApart ==
  kind = "host" =>
    /\ Apart(shown, collector.batch)
    /\ \A d \in Day : Apart(shown, file[d]) /\ Apart(shown, rotated[d])
    /\ \A d, e \in Day : Apart(file[d], rotated[e])
    /\ \A d, e \in Day : d # e => Apart(rotated[d], rotated[e])

\* ... and all that was written is somewhere, or lost.
InPipes == UNION {ToSet(pipe[s]) : s \in Stream}
OnTheWay == ToSet(shown) \cup ToSet(collector.batch) \cup ToSet(buf) \cup InPipes
HostAll ==
  kind = "host" =>
    /\ InFiles \cup OnTheWay \cup lost = 1..(2 * written)
    /\ (InFiles \cup OnTheWay) \cap lost = {}

\* With Docker the collector alone holds output, up to its last timestamp.
DockerInv ==
  kind = "docker" =>
    /\ \A s \in Stream : pipe[s] = <<>>
    /\ buf = <<>> /\ shown = <<>> /\ collector.pc \notin {"open", "peeked"}
    /\ collector.last <= written
    /\ \A t \in InFiles \cup ToSet(collector.batch) : t <= 2 * collector.last
    /\ ~skipped /\ lost = {} =>
         InFiles \cup ToSet(collector.batch) = 1..(2 * collector.last)

LogIInv ==
  LogTypeOK /\ PairInv /\ FilesInv /\ HostOrder /\ PipesInv /\ HostApart /\ HostAll /\ DockerInv

LEMMA Bounds ==
  /\ MaxLines \in Nat /\ PipeMax \in Nat /\ BufMax \in Nat /\ TailMax \in Nat /\ MaxDay \in Nat
  /\ MaxViews \in Nat /\ MaxRotations \in Nat
  /\ BufMax >= 2 /\ PipeMax >= 2 /\ TailMax >= 1
BY LogAssumption

-------------------------------------------------------------------------------
(* Sequences                                                                   *)

\* The elements of two sequences one after the other.
LEMMA SetConcat ==
  ASSUME NEW T, NEW s \in Seq(T), NEW t \in Seq(T)
  PROVE  s \o t \in Seq(T) /\ Len(s \o t) = Len(s) + Len(t) /\ ToSet(s \o t) = ToSet(s) \cup ToSet(t)
<1>1. s \o t \in Seq(T) /\ Len(s \o t) = Len(s) + Len(t) /\ DOMAIN (s \o t) = 1..(Len(s) + Len(t))
  BY ConcatProperties, LenProperties
<1>2. \A i \in 1..Len(s) : (s \o t)[i] = s[i]
  BY ConcatProperties
<1>3. \A i \in 1..Len(t) : (s \o t)[Len(s) + i] = t[i]
  BY ConcatProperties
<1>4. \A i \in 1..(Len(s) + Len(t)) : i \in 1..Len(s) \/ \E j \in 1..Len(t) : i = Len(s) + j
  <2>1. SUFFICES ASSUME NEW i \in 1..(Len(s) + Len(t)), i \notin 1..Len(s)
                 PROVE  \E j \in 1..Len(t) : i = Len(s) + j
    OBVIOUS
  <2>2. i - Len(s) \in 1..Len(t) /\ i = Len(s) + (i - Len(s))
    BY <2>1
  <2> QED
    BY <2>2
<1>5. \A i \in 1..Len(s) : i \in DOMAIN (s \o t)
  BY <1>1
<1>6. \A i \in 1..Len(t) : Len(s) + i \in DOMAIN (s \o t)
  BY <1>1
<1>7. DOMAIN s = 1..Len(s) /\ DOMAIN t = 1..Len(t)
  OBVIOUS
<1>8. ASSUME NEW x \in ToSet(s \o t) PROVE x \in ToSet(s) \cup ToSet(t)
  <2>1. PICK i \in 1..(Len(s) + Len(t)) : x = (s \o t)[i]
    BY <1>1 DEF ToSet
  <2>2. CASE i \in 1..Len(s)
    BY <1>2, <1>7, <2>1, <2>2 DEF ToSet
  <2>3. CASE i \notin 1..Len(s)
    <3>1. PICK j \in 1..Len(t) : i = Len(s) + j
      BY <1>4, <2>3
    <3> QED
      BY <1>3, <1>7, <2>1, <3>1 DEF ToSet
  <2> QED
    BY <2>2, <2>3
<1>9. ToSet(s) \cup ToSet(t) \subseteq ToSet(s \o t)
  BY <1>2, <1>3, <1>5, <1>6, <1>7 DEF ToSet
<1> QED
  BY <1>1, <1>8, <1>9

\* In order one after the other.
LEMMA OrderConcat ==
  ASSUME NEW k, NEW f, NEW s \in Seq(Nat), NEW t \in Seq(Nat), Ordered(k, f, s), Ordered(k, f, t), Before(k, f, s, t)
  PROVE  Ordered(k, f, s \o t)
<1>1. DOMAIN (s \o t) = 1..(Len(s) + Len(t)) /\ DOMAIN s = 1..Len(s) /\ DOMAIN t = 1..Len(t)
  BY ConcatProperties, LenProperties
<1>2. SUFFICES ASSUME NEW i \in 1..(Len(s) + Len(t)), NEW j \in 1..(Len(s) + Len(t)), i < j
               PROVE  Follows(k, f, (s \o t)[i], (s \o t)[j])
  BY <1>1 DEF Ordered
<1>3. \A n \in 1..(Len(s) + Len(t)) : (s \o t)[n] = IF n <= Len(s) THEN s[n] ELSE t[n - Len(s)]
  BY ConcatProperties
<1>4. CASE j <= Len(s)
  <2>1. i \in 1..Len(s) /\ j \in 1..Len(s) /\ i <= Len(s)
    BY <1>2, <1>4
  <2>2. (s \o t)[i] = s[i] /\ (s \o t)[j] = s[j]
    BY <1>3, <1>4, <2>1
  <2> QED
    BY <1>1, <1>2, <2>1, <2>2 DEF Ordered
<1>5. CASE ~(i <= Len(s))
  <2>1. i - Len(s) \in 1..Len(t) /\ j - Len(s) \in 1..Len(t) /\ i - Len(s) < j - Len(s) /\ ~(j <= Len(s))
    BY <1>2, <1>5
  <2> QED
    BY <1>1, <1>3, <1>5, <2>1 DEF Ordered
<1>6. CASE i <= Len(s) /\ ~(j <= Len(s))
  <2>1. i \in 1..Len(s) /\ j - Len(s) \in 1..Len(t)
    BY <1>2, <1>6
  <2>2. s[i] \in ToSet(s) /\ t[j - Len(s)] \in ToSet(t)
    BY <1>1, <2>1 DEF ToSet
  <2> QED
    BY <1>3, <1>6, <2>2 DEF Before
<1> QED
  BY <1>4, <1>5, <1>6

\* A sequence cut in two.
LEMMA Split ==
  ASSUME NEW T, NEW s \in Seq(T), NEW m \in 0..Len(s)
  PROVE  LET a == SubSeq(s, 1, m)
             b == SubSeq(s, m + 1, Len(s))
         IN  /\ a \in Seq(T) /\ b \in Seq(T) /\ Len(a) = m /\ Len(b) = Len(s) - m
             /\ ToSet(s) = ToSet(a) \cup ToSet(b)
             /\ \A k, f : Ordered(k, f, s) => Ordered(k, f, a) /\ Ordered(k, f, b) /\ Before(k, f, a, b)
<1> DEFINE a == SubSeq(s, 1, m)
           b == SubSeq(s, m + 1, Len(s))
<1>1. a \in Seq(T) /\ Len(a) = m /\ \A i \in 1..m : a[i] = s[i]
  OBVIOUS
<1>2. b \in Seq(T) /\ Len(b) = Len(s) - m /\ \A i \in 1..(Len(s) - m) : b[i] = s[m + i]
  OBVIOUS
<1> HIDE DEF a, b
<1>3. DOMAIN s = 1..Len(s) /\ DOMAIN a = 1..m /\ DOMAIN b = 1..(Len(s) - m)
  BY <1>1, <1>2
<1>4. \A i \in 1..Len(s) : i \in 1..m \/ \E j \in 1..(Len(s) - m) : i = m + j
  <2>1. SUFFICES ASSUME NEW i \in 1..Len(s), i \notin 1..m PROVE \E j \in 1..(Len(s) - m) : i = m + j
    OBVIOUS
  <2>2. i - m \in 1..(Len(s) - m) /\ i = m + (i - m)
    BY <2>1
  <2> QED
    BY <2>2
<1>5. \A i \in 1..m : i \in 1..Len(s)
  OBVIOUS
<1>6. \A i \in 1..(Len(s) - m) : m + i \in 1..Len(s)
  OBVIOUS
<1>7. ToSet(s) = ToSet(a) \cup ToSet(b)
  <2>1. ASSUME NEW x \in ToSet(s) PROVE x \in ToSet(a) \/ x \in ToSet(b)
    <3>1. PICK i \in 1..Len(s) : x = s[i]
      BY <1>3 DEF ToSet
    <3>2. CASE i \in 1..m
      <4>1. x = a[i]
        BY <1>1, <3>1, <3>2
      <4> QED
        BY <1>3, <3>2, <4>1 DEF ToSet
    <3>3. CASE i \notin 1..m
      <4>1. PICK j \in 1..(Len(s) - m) : i = m + j
        BY <1>4, <3>3
      <4>2. x = b[j]
        BY <1>2, <3>1, <4>1
      <4> QED
        BY <1>3, <4>2 DEF ToSet
    <3> QED
      BY <3>2, <3>3
  <2>2. ASSUME NEW x \in ToSet(a) PROVE x \in ToSet(s)
    <3>1. PICK i \in 1..m : x = a[i]
      BY <1>3 DEF ToSet
    <3> QED
      BY <1>1, <1>3, <1>5, <3>1 DEF ToSet
  <2>3. ASSUME NEW x \in ToSet(b) PROVE x \in ToSet(s)
    <3>1. PICK i \in 1..(Len(s) - m) : x = b[i]
      BY <1>3 DEF ToSet
    <3> QED
      BY <1>2, <1>3, <1>6, <3>1 DEF ToSet
  <2> QED
    BY <2>1, <2>2, <2>3
<1>8. ASSUME NEW k, NEW f, Ordered(k, f, s) PROVE Ordered(k, f, a) /\ Ordered(k, f, b) /\ Before(k, f, a, b)
  <2>1. Ordered(k, f, a)
    BY <1>1, <1>3, <1>5, <1>8 DEF Ordered
  <2>2. Ordered(k, f, b)
    <3>1. SUFFICES ASSUME NEW i \in 1..(Len(s) - m), NEW j \in 1..(Len(s) - m), i < j
                   PROVE  Follows(k, f, b[i], b[j])
      BY <1>3 DEF Ordered
    <3>2. m + i < m + j /\ m + i \in 1..Len(s) /\ m + j \in 1..Len(s)
      BY <3>1
    <3> QED
      BY <1>2, <1>3, <1>8, <3>2 DEF Ordered
  <2>3. Before(k, f, a, b)
    <3>1. SUFFICES ASSUME NEW i \in 1..m, NEW j \in 1..(Len(s) - m) PROVE Follows(k, f, a[i], b[j])
      BY <1>3 DEF Before, ToSet
    <3>2. i < m + j /\ i \in 1..Len(s) /\ m + j \in 1..Len(s)
      OBVIOUS
    <3> QED
      BY <1>1, <1>2, <1>3, <1>8, <3>2 DEF Ordered
  <2> QED
    BY <2>1, <2>2, <2>3
<1> QED
  BY <1>1, <1>2, <1>7, <1>8 DEF a, b

\* Nothing, and one element.
LEMMA SmallSeqs ==
  /\ ToSet(<<>>) = {} /\ \A x : ToSet(<<x>>) = {x}
  /\ \A k, f : Ordered(k, f, <<>>) /\ \A x : Ordered(k, f, <<x>>)
<1>1. DOMAIN <<>> = {}
  OBVIOUS
<1>2. ToSet(<<>>) = {} /\ \A k, f : Ordered(k, f, <<>>)
  BY <1>1 DEF ToSet, Ordered
<1>3. ASSUME NEW x PROVE ToSet(<<x>>) = {x} /\ \A k, f : Ordered(k, f, <<x>>)
  <2>1. DOMAIN <<x>> = {1} /\ <<x>>[1] = x
    OBVIOUS
  <2> QED
    BY <2>1 DEF ToSet, Ordered
<1> QED
  BY <1>2, <1>3

-------------------------------------------------------------------------------
(* Sequences of sequences                                                      *)

\* A set that has 1 and with each number the next has all of them up to N.
LEMMA UpTo ==
  ASSUME NEW N \in Nat, NEW G \in SUBSET (1..N), N >= 1 => 1 \in G,
         \A n \in G : n < N => n + 1 \in G
  PROVE  G = 1..N
<1> DEFINE R == OpToRel(<, Nat)
<1>1. SUFFICES ASSUME NEW x \in 1..N, x \notin G PROVE FALSE
  OBVIOUS
<1> DEFINE T == {n \in 1..N : n \notin G}
<1>2. T \subseteq Nat /\ T # {}
  BY <1>1
<1>3. \E y \in T : \A z \in T : ~(<<z, y>> \in R)
  BY <1>2, NatLessThanWellFounded, WFMin
<1>4. PICK y \in T : \A z \in T : ~(<<z, y>> \in R)
  BY <1>3
<1>5. \A z \in T : ~(z < y)
  BY <1>2, <1>4 DEF OpToRel
<1>6. y # 1 /\ y \in Nat /\ y - 1 \in 1..N /\ y - 1 \in G
  BY <1>5
<1> QED
  BY <1>6

\* F is what flatten computes on the first n sequences of q.
Fits(F, q, n) == \A i \in 1..n : F[i] = IF i = 1 THEN q[i] ELSE F[i-1] \o q[i]

\* FlattenSeq is such an F at its end.
LEMMA FlattenFcn ==
  ASSUME NEW T, NEW N \in Nat \ {0}, NEW q \in Seq(Seq(T)), Len(q) = N
  PROVE  \E F \in [1..N -> Seq(T)] : Fits(F, q, N) /\ FlattenSeq(q) = F[N]
<1> DEFINE G == {n \in 1..N : \E F \in [1..n -> Seq(T)] : Fits(F, q, n)}
<1>1. \A i \in 1..N : q[i] \in Seq(T)
  OBVIOUS
<1>2. 1 \in G
  <2> DEFINE F == [i \in 1..1 |-> q[1]]
  <2>1. F \in [1..1 -> Seq(T)]
    BY <1>1
  <2>2. Fits(F, q, 1)
    BY DEF Fits
  <2> HIDE DEF F
  <2> QED
    BY <2>1, <2>2
<1>3. ASSUME NEW n \in G, n < N PROVE n + 1 \in G
  <2>1. PICK F \in [1..n -> Seq(T)] : Fits(F, q, n)
    OBVIOUS
  <2> DEFINE H == [i \in 1..(n+1) |-> IF i <= n THEN F[i] ELSE F[n] \o q[n+1]]
  <2>2. n \in 1..N /\ n + 1 \in 1..N /\ F[n] \in Seq(T) /\ q[n+1] \in Seq(T)
    BY <1>1, <1>3
  <2>3. H \in [1..(n+1) -> Seq(T)]
    BY <2>2
  <2>4. \A i \in 1..n : H[i] = F[i]
    BY <2>2
  <2>5. H[n+1] = F[n] \o q[n+1]
    BY <2>2
  <2> HIDE DEF H
  <2>6. Fits(H, q, n+1)
    <3>1. SUFFICES ASSUME NEW i \in 1..(n+1) PROVE H[i] = IF i = 1 THEN q[i] ELSE H[i-1] \o q[i]
      BY DEF Fits
    <3>2. CASE i = n + 1
      <4>1. i # 1 /\ i - 1 = n /\ n \in 1..n
        BY <2>2, <3>2
      <4>2. H[i] = H[i-1] \o q[i]
        BY <2>4, <2>5, <3>2, <4>1
      <4> QED
        BY <4>1, <4>2
    <3>3. CASE i # n + 1
      <4>1. i \in 1..n /\ (i # 1 => i - 1 \in 1..n)
        BY <2>2, <3>3
      <4> QED
        BY <2>1, <2>4, <4>1 DEF Fits
    <3> QED
      BY <3>2, <3>3
  <2> QED
    BY <2>2, <2>3, <2>6
<1>4. G = 1..N
  <2> HIDE DEF G
  <2>1. G \in SUBSET (1..N)
    BY DEF G
  <2> QED
    BY <1>2, <1>3, <2>1, UpTo
<1>5. PICK F \in [1..N -> Seq(T)] : Fits(F, q, N)
  <2>1. N \in G
    BY <1>4
  <2> QED
    BY <2>1
<1>6. F = [i \in 1..N |-> IF i = 1 THEN q[i] ELSE F[i-1] \o q[i]]
  BY <1>5 DEF Fits
<1> DEFINE C == CHOOSE f : f = [i \in 1..Len(q) |-> IF i = 1 THEN q[i] ELSE f[i-1] \o q[i]]
<1>7. C = [i \in 1..N |-> IF i = 1 THEN q[i] ELSE C[i-1] \o q[i]]
  BY <1>6
<1>8. FlattenSeq(q) = C[N]
  BY DEF FlattenSeq
<1> HIDE DEF C
<1>9. Fits(C, q, N)
  BY <1>7 DEF Fits
<1> DEFINE K == {n \in 1..N : C[n] \in Seq(T)}
<1>10. 1 \in K
  BY <1>1, <1>9 DEF Fits
<1>11. ASSUME NEW n \in K, n < N PROVE n + 1 \in K
  <2>1. n \in 1..N /\ n + 1 \in 1..N /\ n + 1 # 1 /\ (n + 1) - 1 = n /\ C[n] \in Seq(T)
    BY <1>11
  <2>2. C[n+1] = C[n] \o q[n+1]
    <3>1. C[n+1] = IF n + 1 = 1 THEN q[n+1] ELSE C[(n+1)-1] \o q[n+1]
      BY <1>9, <2>1 DEF Fits
    <3> QED
      BY <2>1, <3>1
  <2>3. q[n+1] \in Seq(T)
    BY <1>1, <2>1
  <2>4. C[n] \o q[n+1] \in Seq(T)
    BY <2>1, <2>3, ConcatProperties
  <2> QED
    BY <2>1, <2>2, <2>4
<1>12. K = 1..N
  <2> HIDE DEF K
  <2>1. K \in SUBSET (1..N)
    BY DEF K
  <2> QED
    BY <1>10, <1>11, <2>1, UpTo
<1>13. \A n \in 1..N : C[n] \in Seq(T)
  BY <1>12
<1>14. C \in [1..N -> Seq(T)]
  BY <1>7, <1>13
<1> QED
  BY <1>8, <1>9, <1>14

\* The elements of the first n sequences of q.
Within(q, n) == UNION {ToSet(q[i]) : i \in 1..n}

\* What such an F ends with holds the elements of all of them, ...
LEMMA FitsSet ==
  ASSUME NEW T, NEW N \in Nat \ {0}, NEW q \in Seq(Seq(T)), Len(q) = N,
         NEW F \in [1..N -> Seq(T)], Fits(F, q, N)
  PROVE  F[N] \in Seq(T) /\ ToSet(F[N]) = Within(q, N)
<1> DEFINE G == {n \in 1..N : ToSet(F[n]) = Within(q, n)}
<1>1. F[1] = q[1] /\ \A n \in 1..N : n < N => F[n+1] = F[n] \o q[n+1]
  <2>1. F[1] = q[1]
    BY DEF Fits
  <2>2. ASSUME NEW n \in 1..N, n < N PROVE F[n+1] = F[n] \o q[n+1]
    <3>1. n + 1 \in 1..N /\ n + 1 # 1 /\ (n + 1) - 1 = n
      BY <2>2
    <3>2. F[n+1] = IF n + 1 = 1 THEN q[n+1] ELSE F[(n+1) - 1] \o q[n+1]
      BY <3>1 DEF Fits
    <3> QED
      BY <3>1, <3>2
  <2> QED
    BY <2>1, <2>2
<1>2. \A n \in 1..N : F[n] \in Seq(T) /\ q[n] \in Seq(T)
  OBVIOUS
<1>3. 1 \in G
  BY <1>1 DEF Within
<1>4. ASSUME NEW n \in G, n < N PROVE n + 1 \in G
  <2>1. n \in 1..N /\ n + 1 \in 1..N /\ ToSet(F[n]) = Within(q, n)
    BY <1>4
  <2>2. ToSet(F[n+1]) = ToSet(F[n]) \cup ToSet(q[n+1])
    <3>1. F[n+1] = F[n] \o q[n+1] /\ F[n] \in Seq(T) /\ q[n+1] \in Seq(T)
      BY <1>1, <1>2, <1>4, <2>1
    <3> QED
      BY <3>1, SetConcat
  <2>3. 1..(n+1) = 1..n \cup {n+1}
    BY <2>1
  <2>4. Within(q, n+1) = Within(q, n) \cup ToSet(q[n+1])
    BY <2>3 DEF Within
  <2> QED
    BY <2>1, <2>2, <2>4
<1>5. G = 1..N
  <2> HIDE DEF G
  <2>1. G \in SUBSET (1..N)
    BY DEF G
  <2> QED
    BY <1>3, <1>4, <2>1, UpTo
<1>6. N \in G
  <2> HIDE DEF G
  <2> QED
    BY <1>5
<1>7. ToSet(F[N]) = Within(q, N)
  BY <1>6
<1> QED
  BY <1>2, <1>7

\* ... and so does FlattenSeq.
LEMMA FlattenElements ==
  ASSUME NEW T, NEW N \in Nat \ {0}, NEW q \in Seq(Seq(T)), Len(q) = N
  PROVE  FlattenSeq(q) \in Seq(T) /\ ToSet(FlattenSeq(q)) = Within(q, N)
<1>1. PICK G \in [1..N -> Seq(T)] : Fits(G, q, N) /\ FlattenSeq(q) = G[N]
  BY FlattenFcn
<1>2. G[N] \in Seq(T) /\ ToSet(G[N]) = Within(q, N)
  BY <1>1, FitsSet
<1>3. QED
  BY <1>1, <1>2

\* In order, when each is and comes before the next ones.
LEMMA FlattenOrder ==
  ASSUME NEW N \in Nat \ {0}, NEW q \in Seq(Seq(Nat)), Len(q) = N, NEW k, NEW f,
         \A i \in 1..N : Ordered(k, f, q[i]),
         \A i, j \in 1..N : i < j => Before(k, f, q[i], q[j])
  PROVE  Ordered(k, f, FlattenSeq(q))
<1>1. PICK F \in [1..N -> Seq(Nat)] : Fits(F, q, N) /\ FlattenSeq(q) = F[N]
  BY FlattenFcn
<1> DEFINE Sorts(n) == Ordered(k, f, F[n]) /\ \A j \in 1..N : n < j => Before(k, f, F[n], q[j])
           G == {n \in 1..N : Sorts(n)}
<1>2. \A n \in 1..N : F[n] \in Seq(Nat) /\ q[n] \in Seq(Nat)
  BY <1>1
<1>3. 1 \in G
  <2>1. F[1] = q[1] /\ 1 \in 1..N
    BY <1>1 DEF Fits
  <2> QED
    BY <2>1
<1>4. ASSUME NEW n \in G, n < N PROVE n + 1 \in G
  <2>1. n \in 1..N /\ n + 1 \in 1..N /\ Sorts(n) /\ n < n + 1
    BY <1>4
  <2>2. F[n+1] = F[n] \o q[n+1]
    <3>1. n + 1 # 1 /\ (n + 1) - 1 = n
      BY <2>1
    <3>2. F[n+1] = IF n + 1 = 1 THEN q[n+1] ELSE F[(n+1) - 1] \o q[n+1]
      BY <1>1, <2>1 DEF Fits
    <3> QED
      BY <3>1, <3>2
  <2>3. Before(k, f, F[n], q[n+1]) /\ Ordered(k, f, F[n]) /\ Ordered(k, f, q[n+1])
    BY <2>1
  <2>4. Ordered(k, f, F[n+1]) /\ ToSet(F[n+1]) = ToSet(F[n]) \cup ToSet(q[n+1])
    BY <1>2, <2>1, <2>2, <2>3, OrderConcat, SetConcat
  <2>5. ASSUME NEW j \in 1..N, n + 1 < j PROVE Before(k, f, F[n+1], q[j])
    <3>1. n < j
      BY <2>1, <2>5
    <3>2. Before(k, f, F[n], q[j]) /\ Before(k, f, q[n+1], q[j])
      BY <2>1, <2>5, <3>1
    <3> QED
      BY <2>4, <3>2 DEF Before
  <2> QED
    BY <2>1, <2>4, <2>5
<1>5. G = 1..N
  <2> HIDE DEF G
  <2>1. G \in SUBSET (1..N)
    BY DEF G
  <2> QED
    BY <1>3, <1>4, <2>1, UpTo
<1>6. N \in G
  <2> HIDE DEF G
  <2> QED
    BY <1>5
<1> QED
  BY <1>1, <1>6

\* No element comes twice.
OneEach(s) == \A i, j \in DOMAIN s : s[i] = s[j] => i = j

\* Two sequences without a repetition that share nothing, one after the other.
LEMMA OneEachConcat ==
  ASSUME NEW T, NEW s \in Seq(T), NEW t \in Seq(T), OneEach(s), OneEach(t), ToSet(s) \cap ToSet(t) = {}
  PROVE  OneEach(s \o t)
<1>1. DOMAIN (s \o t) = 1..(Len(s) + Len(t)) /\ DOMAIN s = 1..Len(s) /\ DOMAIN t = 1..Len(t)
  BY ConcatProperties, LenProperties
<1>2. SUFFICES ASSUME NEW i \in 1..(Len(s) + Len(t)), NEW j \in 1..(Len(s) + Len(t)),
                      (s \o t)[i] = (s \o t)[j], i # j
               PROVE  FALSE
  BY <1>1 DEF OneEach
<1>3. \A n \in 1..(Len(s) + Len(t)) :
        IF n <= Len(s) THEN n \in DOMAIN s /\ (s \o t)[n] = s[n] /\ s[n] \in ToSet(s)
                       ELSE n - Len(s) \in DOMAIN t /\ (s \o t)[n] = t[n - Len(s)] /\ t[n - Len(s)] \in ToSet(t)
  <2>1. \A n \in 1..(Len(s) + Len(t)) : (s \o t)[n] = IF n <= Len(s) THEN s[n] ELSE t[n - Len(s)]
    BY ConcatProperties
  <2>2. \A n \in 1..(Len(s) + Len(t)) : IF n <= Len(s) THEN n \in 1..Len(s) ELSE n - Len(s) \in 1..Len(t)
    OBVIOUS
  <2> QED
    BY <1>1, <2>1, <2>2 DEF ToSet
<1>4. CASE i <= Len(s) /\ j <= Len(s)
  BY <1>2, <1>3, <1>4 DEF OneEach
<1>5. CASE ~(i <= Len(s)) /\ ~(j <= Len(s))
  <2>1. i - Len(s) = j - Len(s)
    BY <1>2, <1>3, <1>5 DEF OneEach
  <2> QED
    BY <1>2, <2>1
<1>6. CASE (i <= Len(s) /\ ~(j <= Len(s))) \/ (~(i <= Len(s)) /\ j <= Len(s))
  BY <1>2, <1>3, <1>6
<1> QED
  BY <1>4, <1>5, <1>6

\* The same for any number of them.
LEMMA FlattenOneEach ==
  ASSUME NEW T, NEW N \in Nat \ {0}, NEW q \in Seq(Seq(T)), Len(q) = N,
         \A i \in 1..N : OneEach(q[i]),
         \A i, j \in 1..N : i # j => ToSet(q[i]) \cap ToSet(q[j]) = {}
  PROVE  OneEach(FlattenSeq(q))
<1>1. PICK F \in [1..N -> Seq(T)] : Fits(F, q, N) /\ FlattenSeq(q) = F[N]
  BY FlattenFcn
<1> DEFINE Single(n) == OneEach(F[n]) /\ \A j \in 1..N : n < j => ToSet(F[n]) \cap ToSet(q[j]) = {}
           G == {n \in 1..N : Single(n)}
<1>2. \A n \in 1..N : F[n] \in Seq(T) /\ q[n] \in Seq(T)
  BY <1>1
<1>3. 1 \in G
  <2>1. F[1] = q[1] /\ 1 \in 1..N
    BY <1>1 DEF Fits
  <2> QED
    BY <2>1
<1>4. ASSUME NEW n \in G, n < N PROVE n + 1 \in G
  <2>1. n \in 1..N /\ n + 1 \in 1..N /\ Single(n) /\ n < n + 1
    BY <1>4
  <2>2. F[n+1] = F[n] \o q[n+1]
    <3>1. n + 1 # 1 /\ (n + 1) - 1 = n
      BY <2>1
    <3>2. F[n+1] = IF n + 1 = 1 THEN q[n+1] ELSE F[(n+1) - 1] \o q[n+1]
      BY <1>1, <2>1 DEF Fits
    <3> QED
      BY <3>1, <3>2
  <2>3. ToSet(F[n]) \cap ToSet(q[n+1]) = {} /\ OneEach(F[n]) /\ OneEach(q[n+1])
    BY <2>1
  <2>4. OneEach(F[n+1]) /\ ToSet(F[n+1]) = ToSet(F[n]) \cup ToSet(q[n+1])
    BY <1>2, <2>1, <2>2, <2>3, OneEachConcat, SetConcat
  <2>5. ASSUME NEW j \in 1..N, n + 1 < j PROVE ToSet(F[n+1]) \cap ToSet(q[j]) = {}
    <3>1. n < j /\ n + 1 # j
      BY <2>1, <2>5
    <3>2. ToSet(F[n]) \cap ToSet(q[j]) = {} /\ ToSet(q[n+1]) \cap ToSet(q[j]) = {}
      BY <2>1, <2>5, <3>1
    <3> QED
      BY <2>4, <3>2
  <2> QED
    BY <2>1, <2>4, <2>5
<1>5. G = 1..N
  <2> HIDE DEF G
  <2>1. G \in SUBSET (1..N)
    BY DEF G
  <2> QED
    BY <1>3, <1>4, <2>1, UpTo
<1>6. N \in G
  <2> HIDE DEF G
  <2> QED
    BY <1>5
<1> QED
  BY <1>1, <1>6

LEMMA Pair ==
  ASSUME NEW x \in Nat, NEW y \in Nat, x < y
  PROVE  ToSet(<<x, y>>) = {x, y} /\ \A k, f : Ordered(k, f, <<x, y>>)
<1>1. DOMAIN <<x, y>> = {1, 2} /\ <<x, y>>[1] = x /\ <<x, y>>[2] = y
  OBVIOUS
<1> QED
  BY <1>1 DEF ToSet, Ordered, Follows

\* The elements are of the sequence's type.
LEMMA Elements ==
  ASSUME NEW T, NEW s \in Seq(T)
  PROVE  ToSet(s) \subseteq T /\ (ToSet(s) = {} <=> s = <<>>) /\ (Len(s) > 0 <=> s # <<>>)
<1>1. DOMAIN s = 1..Len(s) /\ \A i \in 1..Len(s) : s[i] \in T
  OBVIOUS
<1>2. s # <<>> <=> Len(s) > 0
  OBVIOUS
<1>3. Len(s) > 0 <=> 1 \in DOMAIN s
  BY <1>1
<1>4. ToSet(s) \subseteq T
  BY <1>1 DEF ToSet
<1>5. ToSet(s) = {} <=> ~(Len(s) > 0)
  <2>1. Len(s) \in Nat
    OBVIOUS
  <2>2. CASE Len(s) > 0
    BY <1>3, <2>2 DEF ToSet
  <2>3. CASE ~(Len(s) > 0)
    <3>1. DOMAIN s = {}
      BY <1>1, <2>1, <2>3
    <3> QED
      BY <2>3, <3>1 DEF ToSet
  <2> QED
    BY <2>2, <2>3
<1> QED
  BY <1>2, <1>4, <1>5

\* A sequence of tokens is one of numbers.
LEMMA NatSeq ==
  ASSUME NEW s \in Seq(Token)
  PROVE  s \in Seq(Nat)
<1>1. Token \subseteq Nat
  BY Bounds DEF Token
<1> QED
  BY <1>1, SeqMonotonic

\* Two sequences of tokens one after the other.
LEMMA Joined ==
  ASSUME NEW s \in Seq(Token), NEW t \in Seq(Token)
  PROVE  /\ s \o t \in Seq(Token) /\ Len(s \o t) = Len(s) + Len(t)
         /\ ToSet(s \o t) = ToSet(s) \cup ToSet(t)
         /\ \A k, f : Ordered(k, f, s) /\ Ordered(k, f, t) /\ Before(k, f, s, t) => Ordered(k, f, s \o t)
<1>1. s \in Seq(Nat) /\ t \in Seq(Nat)
  BY NatSeq
<1> QED
  BY <1>1, SetConcat, OrderConcat

-------------------------------------------------------------------------------
(* What is where                                                               *)

\* All that is held are tokens, and on the host tokens that have been written.
LEMMA Held ==
  ASSUME LogIInv
  PROVE  /\ MaxLines \in Nat /\ MaxDay \in Nat /\ Token \subseteq Nat /\ written \in 0..MaxLines
         /\ ToSet(buf) \subseteq Token /\ ToSet(shown) \subseteq Token
         /\ ToSet(collector.batch) \subseteq Token
         /\ \A s \in Stream : ToSet(pipe[s]) \subseteq Token /\ ToSet(pipe[s]) \subseteq InPipes
         /\ InPipes \subseteq Token
         /\ \A d \in Day : ToSet(file[d]) \subseteq Token /\ ToSet(rotated[d]) \subseteq Token
         /\ \A d \in Day : ToSet(file[d]) \subseteq InFiles /\ ToSet(rotated[d]) \subseteq InFiles
         /\ InFiles \subseteq Token
         /\ kind = "host" => InFiles \cup OnTheWay \cup lost \subseteq 1..(2 * written)
<1>1. MaxLines \in Nat /\ MaxDay \in Nat /\ Token \subseteq Nat /\ written \in 0..MaxLines
  <2>1. MaxLines \in Nat /\ MaxDay \in Nat
    BY Bounds
  <2> QED
    BY <2>1 DEF LogIInv, LogTypeOK, Token
<1>2. buf \in Seq(Token) /\ shown \in Seq(Token) /\ collector.batch \in Seq(Token)
      /\ \A s \in Stream : pipe[s] \in Seq(Token)
  BY DEF LogIInv, LogTypeOK
<1>3. \A d \in Day : file[d] \in Seq(Token) /\ rotated[d] \in Seq(Token)
  BY DEF LogIInv, LogTypeOK
<1>4. \A d \in Day : ToSet(file[d]) \subseteq Token /\ ToSet(rotated[d]) \subseteq Token
  BY <1>3, Elements
<1>5. \A d \in Day : ToSet(file[d]) \subseteq InFiles /\ ToSet(rotated[d]) \subseteq InFiles
  BY DEF InFiles
<1>6. InFiles \subseteq Token
  BY <1>4 DEF InFiles
<1>7. kind = "host" => InFiles \cup OnTheWay \cup lost \subseteq 1..(2 * written)
  BY DEF LogIInv, HostAll
<1>8. ToSet(buf) \subseteq Token /\ ToSet(shown) \subseteq Token /\ ToSet(collector.batch) \subseteq Token
  BY <1>2, Elements
<1>9. \A s \in Stream : ToSet(pipe[s]) \subseteq Token /\ ToSet(pipe[s]) \subseteq InPipes
  BY <1>2, Elements DEF InPipes
<1>10. InPipes \subseteq Token
  BY <1>9 DEF InPipes
<1> QED
  BY <1>1, <1>4, <1>5, <1>6, <1>7, <1>8, <1>9, <1>10

\* While the files stay as they are, so does what is in them.
LEMMA FilesStay ==
  ASSUME UNCHANGED <<file, rotated>>
  PROVE  InFiles' = InFiles
BY DEF InFiles

\* So with the pipes.
LEMMA PipesStay ==
  ASSUME UNCHANGED pipe
  PROVE  InPipes' = InPipes
BY DEF InPipes

\* When one pipe changes, the pipes hold what it holds and what the others held.
LEMMA OnePipe ==
  ASSUME LogTypeOK, NEW s \in Stream, NEW q \in Seq(Token), pipe' = [pipe EXCEPT ![s] = q], Len(q) <= PipeMax
  PROVE  /\ pipe'[s] = q /\ \A r \in Stream : r # s => pipe'[r] = pipe[r]
         /\ pipe' \in [Stream -> Seq(Token)] /\ \A r \in Stream : Len(pipe'[r]) <= PipeMax
         /\ InPipes' = ToSet(q) \cup UNION {ToSet(pipe[r]) : r \in Stream \ {s}}
         /\ InPipes = ToSet(pipe[s]) \cup UNION {ToSet(pipe[r]) : r \in Stream \ {s}}
<1>1. pipe \in [Stream -> Seq(Token)] /\ \A r \in Stream : Len(pipe[r]) <= PipeMax
  BY DEF LogTypeOK
<1>2. pipe'[s] = q /\ \A r \in Stream : r # s => pipe'[r] = pipe[r]
  BY <1>1
<1>3. pipe' \in [Stream -> Seq(Token)] /\ \A r \in Stream : Len(pipe'[r]) <= PipeMax
  BY <1>1, <1>2
<1>4. InPipes' = ToSet(q) \cup UNION {ToSet(pipe[r]) : r \in Stream \ {s}}
  <2>1. \A r \in Stream : ToSet(pipe'[r]) = IF r = s THEN ToSet(q) ELSE ToSet(pipe[r])
    BY <1>2
  <2> QED
    BY <2>1 DEF InPipes
<1>5. InPipes = ToSet(pipe[s]) \cup UNION {ToSet(pipe[r]) : r \in Stream \ {s}}
  BY DEF InPipes
<1> QED
  BY <1>2, <1>3, <1>4, <1>5

-------------------------------------------------------------------------------
(* The service and the goroutines around it                                    *)

LEMMA WriteKeeps ==
  ASSUME LogIInv, Write
  PROVE  LogIInv'
<1>1. LogTypeOK /\ PairInv /\ FilesInv /\ HostOrder /\ PipesInv /\ HostApart /\ HostAll /\ DockerInv
  BY DEF LogIInv
<1>2. InFiles' = InFiles
  BY FilesStay DEF Write, Disk
<1>3. UNCHANGED <<kind, stream, process, scanner, removed, buf, collector, day, file, rotated, viewer, shown, lost, skipped, views, rotations>>
      /\ written' = written + 1 /\ written < MaxLines
  BY DEF Write, Disk, History
<1> DEFINE new == Tokens(written + 1)
           st == stream[written + 1]
<1>4. MaxLines \in Nat /\ written \in Nat /\ PipeMax \in Nat /\ st \in Stream
  <2>1. MaxLines \in Nat /\ PipeMax \in Nat /\ written \in 0..MaxLines /\ stream \in [1..MaxLines -> Stream]
    BY <1>1, Bounds DEF LogTypeOK
  <2>2. written + 1 \in 1..MaxLines
    BY <1>3, <2>1
  <2> QED
    BY <2>1, <2>2
<1>5. new \in Seq(Token) /\ new \in Seq(Nat) /\ Len(new) = 2
  BY <1>3, <1>4 DEF Tokens, Token
<1>6. ToSet(new) = {2 * written + 1, 2 * written + 2} /\ \A k, f : Ordered(k, f, new)
  <2>1. new = <<2 * written + 1, 2 * written + 2>>
    BY <1>4 DEF Tokens
  <2> QED
    BY <1>4, <2>1, Pair
<1>7. \A t \in ToSet(new) : StreamOf(t) = st
  <2>1. \A t \in {2 * written + 1, 2 * written + 2} : (t + 1) \div 2 = written + 1
    BY <1>4
  <2> QED
    BY <1>6, <2>1 DEF StreamOf, LineOf
<1> HIDE DEF new
<1>8. CASE kind = "docker"
  <2>1. UNCHANGED pipe
    BY <1>8 DEF Write
  <2>2. written' \in 0..MaxLines
    BY <1>3, <1>4
  <2>3. LogTypeOK'
    BY <1>1, <1>3, <2>1, <2>2 DEF LogTypeOK
  <2>4. PairInv' /\ FilesInv'
    BY <1>1, <1>3, <2>1 DEF PairInv, FilesInv
  <2>5. DockerInv'
    BY <1>1, <1>2, <1>3, <1>4, <1>8, <2>1 DEF DockerInv, LogTypeOK
  <2> QED
    BY <1>3, <1>8, <2>3, <2>4, <2>5 DEF LogIInv, HostOrder, PipesInv, HostApart, HostAll
<1>9. CASE kind = "host"
  <2> DEFINE q == pipe[st] \o new
  <2>1. pipe' = [pipe EXCEPT ![st] = q] /\ Len(pipe[st]) + 2 <= PipeMax
    BY <1>9 DEF Write, new
  <2> HIDE DEF st
  <2>2. pipe[st] \in Seq(Token) /\ q \in Seq(Token) /\ Len(q) = Len(pipe[st]) + 2
        /\ ToSet(q) = ToSet(pipe[st]) \cup ToSet(new)
    <3>1. pipe[st] \in Seq(Token)
      BY <1>1, <1>4 DEF LogTypeOK
    <3> QED
      BY <1>5, <3>1, Joined
  <2>3. InFiles \cup OnTheWay \cup lost \subseteq 1..(2 * written)
    BY <1>9, Held
  <2>4. \A s : ToSet(s) \subseteq InFiles \cup OnTheWay => Before(kind, stream, s, new)
    BY <1>4, <1>6, <2>3 DEF Before, Follows
  <2>5. \A s : ToSet(s) \subseteq InFiles \cup OnTheWay /\ Before(kind, stream, s, pipe[st]) => Before(kind, stream, s, q)
    <3> HIDE DEF q
    <3> QED
      BY <2>2, <2>4 DEF Before
  <2>6. Ordered(kind, stream, q) /\ \A t \in ToSet(q) : StreamOf(t) = st
    <3>1. ToSet(pipe[st]) \subseteq OnTheWay
      BY <1>4, Held DEF OnTheWay
    <3>2. Before(kind, stream, pipe[st], new) /\ Ordered(kind, stream, pipe[st])
          /\ \A t \in ToSet(pipe[st]) : StreamOf(t) = st
      BY <1>1, <1>4, <1>9, <2>4, <3>1 DEF PipesInv
    <3>3. Ordered(kind, stream, q)
      BY <1>5, <1>6, <2>2, <3>2, Joined
    <3>4. \A t \in ToSet(q) : StreamOf(t) = st
      BY <1>7, <2>2, <3>2
    <3> QED
      BY <3>3, <3>4
  <2> HIDE DEF q
  <2>7. Len(q) <= PipeMax
    BY <1>4, <2>1, <2>2
  <2>8. /\ pipe'[st] = q /\ \A r \in Stream : r # st => pipe'[r] = pipe[r]
        /\ pipe' \in [Stream -> Seq(Token)] /\ \A r \in Stream : Len(pipe'[r]) <= PipeMax
        /\ InPipes' = ToSet(q) \cup UNION {ToSet(pipe[r]) : r \in Stream \ {st}}
        /\ InPipes = ToSet(pipe[st]) \cup UNION {ToSet(pipe[r]) : r \in Stream \ {st}}
    BY <1>1, <1>4, <2>1, <2>2, <2>7, OnePipe
  <2>9. InPipes' = InPipes \cup ToSet(new)
    BY <2>2, <2>8
  <2>10. LogTypeOK'
    <3>1. written' \in 0..MaxLines
      BY <1>3, <1>4
    <3> QED
      BY <1>1, <1>3, <2>8, <3>1 DEF LogTypeOK
  <2>11. PairInv'
    <3>1. PICK n \in Nat : Len(pipe[st]) = 2 * n
      BY <1>1, <1>4 DEF PairInv
    <3>2. Len(q) = 2 * (n + 1) /\ n + 1 \in Nat
      BY <2>2, <3>1
    <3> QED
      BY <1>1, <1>3, <2>8, <3>2 DEF PairInv
  <2>12. FilesInv' /\ HostOrder' /\ HostApart' /\ DockerInv'
    BY <1>1, <1>3, <1>9 DEF FilesInv, HostOrder, HostApart, DockerInv
  <2>13. PipesInv'
    <3>1. ToSet(buf) \subseteq OnTheWay /\ ToSet(collector.batch) \subseteq OnTheWay /\ ToSet(shown) \subseteq OnTheWay
      BY DEF OnTheWay
    <3>2. \A d \in Day : ToSet(file[d]) \subseteq InFiles /\ ToSet(rotated[d]) \subseteq InFiles
      BY Held
    <3>3. \A t : StreamOf(t)' = StreamOf(t)
      BY <1>3 DEF StreamOf
    <3>4. ASSUME NEW s \in Stream
          PROVE  /\ Ordered(kind, stream, pipe'[s]) /\ \A t \in ToSet(pipe'[s]) : StreamOf(t) = s
                 /\ Before(kind, stream, buf, pipe'[s]) /\ Before(kind, stream, collector.batch, pipe'[s])
                 /\ Before(kind, stream, shown, pipe'[s])
                 /\ \A d \in Day : Before(kind, stream, file[d], pipe'[s]) /\ Before(kind, stream, rotated[d], pipe'[s])
      <4>1. CASE s = st
        BY <1>1, <1>9, <2>5, <2>6, <2>8, <3>1, <3>2, <4>1 DEF PipesInv
      <4>2. CASE s # st
        BY <1>1, <1>9, <2>8, <4>2 DEF PipesInv
      <4> QED
        BY <4>1, <4>2
    <3> QED
      BY <1>3, <3>3, <3>4 DEF PipesInv
  <2>14. HostAll'
    <3>1. OnTheWay' = OnTheWay \cup {2 * written + 1, 2 * written + 2}
      BY <1>3, <1>6, <2>9 DEF OnTheWay
    <3>2. 1..(2 * written') = 1..(2 * written) \cup {2 * written + 1, 2 * written + 2}
      BY <1>3, <1>4
    <3>3. 2 * written + 1 \notin lost /\ 2 * written + 2 \notin lost
      BY <1>4, <2>3
    <3> QED
      BY <1>1, <1>2, <1>3, <1>9, <3>1, <3>2, <3>3 DEF HostAll
  <2> QED
    BY <2>10, <2>11, <2>12, <2>13, <2>14 DEF LogIInv
<1> QED
  BY <1>1, <1>8, <1>9 DEF LogTypeOK

LEMMA BeforeApart ==
  ASSUME kind = "host"
  PROVE  \A s, t : /\ Before(kind, stream, s, t) /\ ToSet(s) \subseteq Nat /\ ToSet(t) \subseteq Nat
                  => ToSet(s) \cap ToSet(t) = {}
BY DEF Before, Follows

\* On the host no two places hold the same.
LEMMA AllApart ==
  ASSUME LogIInv, kind = "host"
  PROVE  /\ InFiles \cap OnTheWay = {}
         /\ ToSet(shown) \cap (ToSet(collector.batch) \cup ToSet(buf) \cup InPipes) = {}
         /\ ToSet(collector.batch) \cap (ToSet(buf) \cup InPipes) = {}
         /\ ToSet(buf) \cap InPipes = {}
         /\ \A r, s \in Stream : r # s => ToSet(pipe[r]) \cap ToSet(pipe[s]) = {}
<1>1. \A s, t : /\ Before(kind, stream, s, t) /\ ToSet(s) \subseteq Nat /\ ToSet(t) \subseteq Nat
                => ToSet(s) \cap ToSet(t) = {}
  BY BeforeApart
<1>2. /\ ToSet(buf) \subseteq Nat /\ ToSet(shown) \subseteq Nat /\ ToSet(collector.batch) \subseteq Nat
      /\ \A s \in Stream : ToSet(pipe[s]) \subseteq Nat
      /\ \A d \in Day : ToSet(file[d]) \subseteq Nat /\ ToSet(rotated[d]) \subseteq Nat
  BY Held
<1>3. HostOrder /\ PipesInv /\ HostApart /\ FilesInv
  BY DEF LogIInv
<1>4. ASSUME NEW t, ToSet(t) \subseteq Nat, \A s \in Stream : Before(kind, stream, t, pipe[s])
      PROVE  ToSet(t) \cap InPipes = {}
  <2>1. \A s \in Stream : ToSet(t) \cap ToSet(pipe[s]) = {}
    BY <1>1, <1>2, <1>4
  <2> QED
    BY <2>1 DEF InPipes
<1>5. ToSet(buf) \cap InPipes = {} /\ ToSet(collector.batch) \cap InPipes = {} /\ ToSet(shown) \cap InPipes = {}
  BY <1>2, <1>3, <1>4 DEF PipesInv
<1>6. ToSet(collector.batch) \cap ToSet(buf) = {} /\ ToSet(shown) \cap ToSet(buf) = {}
  BY <1>1, <1>2, <1>3 DEF HostOrder
<1>7. ToSet(shown) \cap ToSet(collector.batch) = {}
  BY <1>3 DEF HostApart, Apart
<1>8. ASSUME NEW d \in Day PROVE (ToSet(file[d]) \cup ToSet(rotated[d])) \cap OnTheWay = {}
  <2>1. ToSet(file[d]) \cap ToSet(collector.batch) = {}
    BY <1>1, <1>2, <1>3 DEF FilesInv
  <2>2. ToSet(rotated[d]) \cap ToSet(collector.batch) = {}
    BY <1>1, <1>2, <1>3 DEF HostOrder
  <2>3. ToSet(file[d]) \cap ToSet(buf) = {} /\ ToSet(rotated[d]) \cap ToSet(buf) = {}
    BY <1>1, <1>2, <1>3 DEF HostOrder
  <2>4. ToSet(file[d]) \cap InPipes = {} /\ ToSet(rotated[d]) \cap InPipes = {}
    BY <1>2, <1>3, <1>4 DEF PipesInv
  <2>5. ToSet(file[d]) \cap ToSet(shown) = {} /\ ToSet(rotated[d]) \cap ToSet(shown) = {}
    BY <1>3 DEF HostApart, Apart
  <2> QED
    BY <2>1, <2>2, <2>3, <2>4, <2>5 DEF OnTheWay
<1>9. InFiles \cap OnTheWay = {}
  BY <1>8 DEF InFiles
<1>10. \A r, s \in Stream : r # s => ToSet(pipe[r]) \cap ToSet(pipe[s]) = {}
  BY <1>3 DEF PipesInv
<1> QED
  BY <1>5, <1>6, <1>7, <1>9, <1>10

\* What is scanned is a line; it comes after what was scanned before, and what is left
\* in the pipe after it; with what is in the other pipe it has no order.
LEMMA ALine ==
  ASSUME LogIInv, NEW s \in Stream, Len(pipe[s]) > 0
  PROVE  LET line == SubSeq(pipe[s], 1, 2)
             rest == SubSeq(pipe[s], 3, Len(pipe[s]))
         IN  /\ kind = "host"
             /\ line \in Seq(Token) /\ rest \in Seq(Token) /\ Len(rest) <= PipeMax
             /\ \E n \in Nat : Len(rest) = 2 * n
             /\ ToSet(pipe[s]) = ToSet(line) \cup ToSet(rest)
             /\ ToSet(line) = {pipe[s][1], pipe[s][2]} /\ ToSet(line) \cap ToSet(rest) = {}
             /\ Ordered(kind, stream, line) /\ Ordered(kind, stream, rest) /\ Before(kind, stream, line, rest)
             /\ \A r \in Stream : r # s => Before(kind, stream, line, pipe[r])
<1> DEFINE line == SubSeq(pipe[s], 1, 2)
           rest == SubSeq(pipe[s], 3, Len(pipe[s]))
<1>1. pipe[s] \in Seq(Token) /\ Len(pipe[s]) <= PipeMax /\ PipeMax \in Nat
  BY Bounds DEF LogIInv, LogTypeOK
<1>2. kind = "host"
  <2>1. pipe[s] # <<>>
    BY <1>1
  <2> QED
    BY <2>1 DEF LogIInv, DockerInv, LogTypeOK
<1>3. PICK n \in Nat : Len(pipe[s]) = 2 * n
  BY DEF LogIInv, PairInv
<1>4. n >= 1 /\ 2 \in 0..Len(pipe[s]) /\ 2 + 1 = 3 /\ n - 1 \in Nat /\ Len(pipe[s]) - 2 = 2 * (n - 1)
  BY <1>3
<1>5. /\ line \in Seq(Token) /\ rest \in Seq(Token) /\ Len(line) = 2 /\ Len(rest) = Len(pipe[s]) - 2
      /\ ToSet(pipe[s]) = ToSet(line) \cup ToSet(rest)
      /\ \A k, f : Ordered(k, f, pipe[s]) => Ordered(k, f, line) /\ Ordered(k, f, rest) /\ Before(k, f, line, rest)
  BY <1>1, <1>4, Split
<1>6. Ordered(kind, stream, line) /\ Ordered(kind, stream, rest) /\ Before(kind, stream, line, rest)
  BY <1>2, <1>5 DEF LogIInv, PipesInv
<1>7. ToSet(line) = {pipe[s][1], pipe[s][2]}
  <2>1. line[1] = pipe[s][1] /\ line[2] = pipe[s][2]
    BY <1>1, <1>4
  <2>2. DOMAIN line = {1, 2}
    BY <1>5
  <2> QED
    BY <2>1, <2>2 DEF ToSet
<1>8. ToSet(line) \cap ToSet(rest) = {}
  <2>1. ToSet(line) \subseteq Token /\ ToSet(rest) \subseteq Token /\ Token \subseteq Nat
    BY <1>5, Elements, Held
  <2> HIDE DEF line, rest
  <2> QED
    BY <1>2, <1>6, <2>1, BeforeApart
<1>9. Len(rest) <= PipeMax /\ Len(rest) = 2 * (n - 1)
  BY <1>1, <1>4, <1>5
<1> HIDE DEF line, rest
<1>10. ASSUME NEW r \in Stream, r # s PROVE Before(kind, stream, line, pipe[r])
  <2>1. ToSet(line) \subseteq ToSet(pipe[s])
    BY <1>5
  <2>2. \A t \in ToSet(line) : stream[LineOf(t)] = s
    BY <1>2, <2>1 DEF LogIInv, PipesInv, StreamOf
  <2>3. \A t \in ToSet(pipe[r]) : stream[LineOf(t)] = r
    BY <1>2 DEF LogIInv, PipesInv, StreamOf
  <2> QED
    BY <1>2, <1>10, <2>2, <2>3 DEF Before, Follows
<1> QED
  BY <1>2, <1>4, <1>5, <1>6, <1>7, <1>8, <1>9, <1>10 DEF line, rest

\* What a full buffer keeps is the end.
LEMMA KeptEnd ==
  ASSUME NEW s \in Seq(Token)
  PROVE  /\ Kept(s) \in Seq(Token) /\ Len(Kept(s)) <= BufMax /\ ToSet(Kept(s)) \subseteq ToSet(s)
         /\ \A k, f : Ordered(k, f, s) => Ordered(k, f, Kept(s))
<1>1. BufMax \in Nat /\ Len(s) \in Nat
  BY Bounds
<1>2. CASE Len(s) <= BufMax
  BY <1>2 DEF Kept
<1>3. CASE ~(Len(s) <= BufMax)
  <2> DEFINE m == Len(s) - BufMax
             b == SubSeq(s, m + 1, Len(s))
  <2>1. m \in 0..Len(s) /\ Len(s) - m = BufMax
    BY <1>1, <1>3
  <2>2. Kept(s) = b
    BY <1>3 DEF Kept
  <2> HIDE DEF m
  <2>3. b \in Seq(Token) /\ Len(b) = Len(s) - m /\ ToSet(b) \subseteq ToSet(s)
        /\ \A k, f : Ordered(k, f, s) => Ordered(k, f, b)
    BY <2>1, Split
  <2> QED
    BY <1>1, <2>1, <2>2, <2>3
<1> QED
  BY <1>2, <1>3

\* Nothing at all.
LEMMA Nothing ==
  ASSUME NEW s, s = <<>>
  PROVE  /\ s \in Seq(Token) /\ ToSet(s) = {}
         /\ \A k, f : Ordered(k, f, s) /\ \A t : Before(k, f, s, t) /\ Before(k, f, t, s)
<1>1. ToSet(s) = {} /\ \A k, f : Ordered(k, f, s)
  BY SmallSeqs
<1> QED
  BY <1>1 DEF Before

\* A line leaves its pipe; the buffer holds some of what it held and of the line, in
\* order, and what it does not hold any more is lost.
LEMMA LineTaken ==
  ASSUME LogIInv, NEW s \in Stream, Len(pipe[s]) > 0,
         UNCHANGED <<kind, stream, written, process, removed, collector, day, file, rotated, viewer, shown,
                     skipped, views, rotations>>,
         pipe' = [pipe EXCEPT ![s] = SubSeq(@, 3, Len(@))],
         scanner' \in [Stream -> {"on", "stuck"}],
         buf' \in Seq(Token), Len(buf') <= BufMax, Ordered(kind, stream, buf'),
         ToSet(buf') \subseteq ToSet(buf) \cup ToSet(SubSeq(pipe[s], 1, 2)),
         lost' = lost \cup ((ToSet(buf) \cup ToSet(SubSeq(pipe[s], 1, 2))) \ ToSet(buf'))
  PROVE  LogIInv'
<1> DEFINE line == SubSeq(pipe[s], 1, 2)
           rest == SubSeq(pipe[s], 3, Len(pipe[s]))
           all == ToSet(buf) \cup ToSet(line)
           others == UNION {ToSet(pipe[r]) : r \in Stream \ {s}}
<1>1. LogTypeOK /\ PairInv /\ FilesInv /\ HostOrder /\ PipesInv /\ HostApart /\ HostAll /\ DockerInv
  BY DEF LogIInv
<1>2. InFiles' = InFiles
  BY FilesStay
<1>3. /\ kind = "host" /\ line \in Seq(Token) /\ rest \in Seq(Token) /\ Len(rest) <= PipeMax
      /\ \E n \in Nat : Len(rest) = 2 * n
      /\ ToSet(pipe[s]) = ToSet(line) \cup ToSet(rest) /\ ToSet(line) \cap ToSet(rest) = {}
      /\ Ordered(kind, stream, line) /\ Ordered(kind, stream, rest) /\ Before(kind, stream, line, rest)
      /\ \A r \in Stream : r # s => Before(kind, stream, line, pipe[r])
  BY ALine
<1>4. /\ ToSet(buf') \subseteq all /\ lost' = lost \cup (all \ ToSet(buf'))
      /\ pipe' = [pipe EXCEPT ![s] = rest]
  OBVIOUS
<1> HIDE DEF line, rest
<1>5. /\ pipe'[s] = rest /\ \A r \in Stream : r # s => pipe'[r] = pipe[r]
      /\ pipe' \in [Stream -> Seq(Token)] /\ \A r \in Stream : Len(pipe'[r]) <= PipeMax
      /\ InPipes' = ToSet(rest) \cup others
      /\ InPipes = ToSet(pipe[s]) \cup others
  BY <1>1, <1>3, <1>4, OnePipe
<1>6. ASSUME NEW t, Before(kind, stream, t, pipe[s])
      PROVE  Before(kind, stream, t, line) /\ Before(kind, stream, t, rest)
  BY <1>3, <1>6 DEF Before
<1>7. ASSUME NEW t, Before(kind, stream, t, buf), Before(kind, stream, t, line)
      PROVE  Before(kind, stream, t, buf')
  BY <1>4, <1>7 DEF Before
<1>8. ASSUME NEW r \in Stream PROVE Before(kind, stream, buf', pipe'[r])
  <2>1. Before(kind, stream, buf, pipe[r]) /\ Before(kind, stream, buf, rest)
    BY <1>1, <1>3, <1>6 DEF PipesInv
  <2>2. Before(kind, stream, buf, pipe'[r]) /\ Before(kind, stream, line, pipe'[r])
    BY <1>3, <1>5, <2>1
  <2> QED
    BY <1>4, <2>2 DEF Before
<1>9. LogTypeOK'
  <2>1. all \subseteq Token
    BY <1>1, <1>3, Elements, Held
  <2>2. lost' \subseteq Token
    BY <1>1, <1>4, <2>1 DEF LogTypeOK
  <2> HIDE DEF all
  <2> QED
    BY <1>1, <1>5, <2>2 DEF LogTypeOK
<1>10. PairInv' /\ FilesInv' /\ HostApart' /\ DockerInv'
  BY <1>1, <1>3, <1>5 DEF PairInv, FilesInv, HostApart, DockerInv
<1>11. HostOrder'
  <2>1. \A t : Before(kind, stream, t, buf) /\ Before(kind, stream, t, pipe[s]) => Before(kind, stream, t, buf')
    BY <1>6, <1>7
  <2> QED
    BY <1>1, <1>3, <2>1 DEF HostOrder, PipesInv
<1>12. PipesInv'
  <2>1. \A t : StreamOf(t)' = StreamOf(t)
    BY DEF StreamOf
  <2>2. \A t : \A r \in Stream : Before(kind, stream, t, pipe[r]) => Before(kind, stream, t, pipe'[r])
    BY <1>5, <1>6
  <2>3. \A r \in Stream : Ordered(kind, stream, pipe'[r]) /\ ToSet(pipe'[r]) \subseteq ToSet(pipe[r])
    BY <1>1, <1>3, <1>5 DEF PipesInv
  <2>4. ASSUME NEW r \in Stream
        PROVE  /\ Ordered(kind, stream, pipe'[r]) /\ \A t \in ToSet(pipe'[r]) : StreamOf(t) = r
               /\ Before(kind, stream, buf', pipe'[r]) /\ Before(kind, stream, collector.batch, pipe'[r])
               /\ Before(kind, stream, shown, pipe'[r])
               /\ \A d \in Day : Before(kind, stream, file[d], pipe'[r]) /\ Before(kind, stream, rotated[d], pipe'[r])
    <3>1. \A t \in ToSet(pipe[r]) : StreamOf(t) = r
      BY <1>1, <1>3 DEF PipesInv
    <3>2. Ordered(kind, stream, pipe'[r]) /\ \A t \in ToSet(pipe'[r]) : StreamOf(t) = r
      BY <2>3, <3>1
    <3>3. Before(kind, stream, collector.batch, pipe'[r]) /\ Before(kind, stream, shown, pipe'[r])
          /\ \A d \in Day : Before(kind, stream, file[d], pipe'[r]) /\ Before(kind, stream, rotated[d], pipe'[r])
      BY <1>1, <1>3, <2>2 DEF PipesInv
    <3> QED
      BY <1>8, <3>2, <3>3
  <2> QED
    BY <2>1, <2>4 DEF PipesInv
<1>13. HostAll'
  <2> DEFINE apart == ToSet(shown) \cup ToSet(collector.batch)
  <2>1. OnTheWay = apart \cup all \cup ToSet(rest) \cup others
    BY <1>3, <1>5 DEF OnTheWay
  <2>2. OnTheWay' = apart \cup ToSet(buf') \cup ToSet(rest) \cup others
    BY <1>5 DEF OnTheWay
  <2>3. InFiles \cap OnTheWay = {} /\ (InFiles \cup OnTheWay) \cap lost = {}
        /\ InFiles \cup OnTheWay \cup lost = 1..(2 * written)
    BY <1>1, <1>3, AllApart DEF HostAll
  <2>4. all \cap apart = {}
    <3>1. ToSet(line) \subseteq InPipes
      BY <1>3, <1>5
    <3> QED
      BY <1>3, <3>1, AllApart
  <2>5. all \cap (ToSet(rest) \cup others) = {}
    <3>1. ToSet(buf) \cap InPipes = {} /\ \A r \in Stream : r # s => ToSet(pipe[s]) \cap ToSet(pipe[r]) = {}
      BY <1>3, AllApart
    <3>2. ToSet(line) \cap others = {}
      BY <1>3, <3>1
    <3> HIDE DEF others
    <3> QED
      BY <1>3, <1>5, <3>1, <3>2
  <2> HIDE DEF apart, all, others
  <2>6. InFiles \cup OnTheWay' \cup lost' = 1..(2 * written)
    BY <1>4, <2>1, <2>2, <2>3
  <2>7. (InFiles \cup OnTheWay') \cap lost' = {}
    BY <1>4, <2>1, <2>2, <2>3, <2>4, <2>5
  <2> QED
    BY <1>2, <2>6, <2>7 DEF HostAll
<1> QED
  BY <1>9, <1>10, <1>11, <1>12, <1>13 DEF LogIInv

LEMMA ScanKeeps ==
  ASSUME LogIInv, NEW s \in Stream, Scan(s)
  PROVE  LogIInv'
<1> DEFINE line == SubSeq(pipe[s], 1, 2)
           all == buf \o line
<1>1. /\ UNCHANGED <<kind, stream, written, process, scanner, removed, collector, day, file, rotated, viewer, shown,
                     skipped, views, rotations>>
      /\ pipe' = [pipe EXCEPT ![s] = SubSeq(@, 3, Len(@))]
      /\ buf' = IF Reachable THEN Kept(all) ELSE <<>>
      /\ lost' = lost \cup (ToSet(all) \ ToSet(buf')) /\ Len(pipe[s]) > 0
  BY DEF Scan, Disk
<1>2. /\ kind = "host" /\ line \in Seq(Token) /\ Ordered(kind, stream, line)
      /\ ToSet(pipe[s]) = ToSet(line) \cup ToSet(SubSeq(pipe[s], 3, Len(pipe[s])))
  BY <1>1, ALine
<1> HIDE DEF line
<1>3. buf \in Seq(Token) /\ Ordered(kind, stream, buf) /\ Before(kind, stream, buf, pipe[s])
  BY <1>2 DEF LogIInv, LogTypeOK, HostOrder, PipesInv
<1>4. Before(kind, stream, buf, line)
  BY <1>2, <1>3 DEF Before
<1>5. all \in Seq(Token) /\ ToSet(all) = ToSet(buf) \cup ToSet(line) /\ Ordered(kind, stream, all)
  BY <1>2, <1>3, <1>4, Joined
<1> HIDE DEF all
<1>6. buf' \in Seq(Token) /\ Len(buf') <= BufMax /\ Ordered(kind, stream, buf') /\ ToSet(buf') \subseteq ToSet(all)
  <2>1. CASE Reachable
    BY <1>1, <1>5, <2>1, KeptEnd
  <2>2. CASE ~Reachable
    <3>1. buf' = <<>> /\ Len(buf') <= BufMax
      BY <1>1, <2>2, Bounds
    <3> QED
      BY <3>1, Nothing
  <2> QED
    BY <2>1, <2>2
<1>7. scanner' \in [Stream -> {"on", "stuck"}]
  BY <1>1 DEF LogIInv, LogTypeOK
<1> QED
  BY <1>1, <1>5, <1>6, <1>7, LineTaken DEF line

LEMMA ScanTooLongKeeps ==
  ASSUME LogIInv, NEW s \in Stream, ScanTooLong(s)
  PROVE  LogIInv'
<1>1. /\ UNCHANGED <<kind, stream, written, process, removed, buf, collector, day, file, rotated, viewer, shown,
                     skipped, views, rotations>>
      /\ pipe' = [pipe EXCEPT ![s] = SubSeq(@, 3, Len(@))] /\ scanner' = [scanner EXCEPT ![s] = "stuck"]
      /\ lost' = lost \cup {pipe[s][1], pipe[s][2]} /\ Len(pipe[s]) > 0
  BY DEF ScanTooLong, Disk
<1> DEFINE line == SubSeq(pipe[s], 1, 2)
<1>2. /\ kind = "host" /\ ToSet(line) = {pipe[s][1], pipe[s][2]}
      /\ ToSet(pipe[s]) = ToSet(line) \cup ToSet(SubSeq(pipe[s], 3, Len(pipe[s])))
  BY <1>1, ALine
<1> HIDE DEF line
<1>3. ToSet(line) \cap ToSet(buf) = {}
  <2>1. ToSet(pipe[s]) \subseteq InPipes /\ ToSet(buf) \cap InPipes = {}
    BY <1>2, Held, AllApart
  <2> QED
    BY <1>2, <2>1
<1>4. lost' = lost \cup ((ToSet(buf) \cup ToSet(line)) \ ToSet(buf'))
  BY <1>1, <1>2, <1>3
<1>5. buf' \in Seq(Token) /\ Len(buf') <= BufMax /\ Ordered(kind, stream, buf')
      /\ ToSet(buf') \subseteq ToSet(buf) \cup ToSet(line) /\ scanner' \in [Stream -> {"on", "stuck"}]
  BY <1>1, <1>2 DEF LogIInv, LogTypeOK, HostOrder
<1> QED
  BY <1>1, <1>4, <1>5, LineTaken DEF line

LEMMA ProcessEndsKeeps ==
  ASSUME LogIInv, ProcessEnds
  PROVE  LogIInv'
<1>1. UNCHANGED <<kind, stream, removed, written, pipe, scanner, buf, collector, day, file, rotated, viewer, shown,
                  lost, skipped, views, rotations>> /\ process' = "ended"
  BY DEF ProcessEnds, Disk, History
<1>2. LogTypeOK'
  BY <1>1 DEF LogIInv, LogTypeOK
<1>3. PairInv' /\ FilesInv' /\ HostOrder' /\ HostApart'
  BY <1>1 DEF LogIInv, PairInv, FilesInv, HostOrder, HostApart
<1>4. PipesInv'
  BY <1>1 DEF LogIInv, PipesInv, StreamOf
<1>5. HostAll' /\ DockerInv'
  <2>1. InFiles' = InFiles /\ InPipes' = InPipes
    BY <1>1, FilesStay, PipesStay
  <2> QED
    BY <1>1, <2>1 DEF LogIInv, HostAll, DockerInv, OnTheWay
<1> QED
  BY <1>2, <1>3, <1>4, <1>5 DEF LogIInv

LEMMA WaitReturnsKeeps ==
  ASSUME LogIInv, WaitReturns
  PROVE  LogIInv'
<1>1. LogTypeOK /\ PairInv /\ FilesInv /\ HostOrder /\ PipesInv /\ HostApart /\ HostAll /\ DockerInv
  BY DEF LogIInv
<1>2. InFiles' = InFiles
  BY FilesStay DEF WaitReturns, Disk
<1>3. /\ UNCHANGED <<kind, stream, removed, written, scanner, buf, collector, day, file, rotated, viewer, shown,
                     skipped, views, rotations>>
      /\ pipe' = [s \in Stream |-> <<>>] /\ lost' = lost \cup InPipes /\ process' = "waited"
  BY DEF WaitReturns, Disk, InPipes
<1>4. \A s \in Stream : /\ pipe'[s] = <<>> /\ pipe'[s] \in Seq(Token) /\ ToSet(pipe'[s]) = {} /\ Len(pipe'[s]) = 0
                        /\ \A k, f : Ordered(k, f, pipe'[s]) /\ \A t : Before(k, f, t, pipe'[s])
  <2>1. SUFFICES ASSUME NEW s \in Stream
                 PROVE  /\ pipe'[s] = <<>> /\ pipe'[s] \in Seq(Token) /\ ToSet(pipe'[s]) = {} /\ Len(pipe'[s]) = 0
                        /\ \A k, f : Ordered(k, f, pipe'[s]) /\ \A t : Before(k, f, t, pipe'[s])
    OBVIOUS
  <2>2. pipe'[s] = <<>>
    BY <1>3
  <2>3. Len(pipe'[s]) = 0
    BY <2>2
  <2> QED
    BY <2>2, <2>3, Nothing
<1>5. InPipes' = {}
  BY <1>4 DEF InPipes
<1>6. LogTypeOK'
  <2>1. pipe' \in [Stream -> Seq(Token)] /\ \A s \in Stream : Len(pipe'[s]) <= PipeMax
    BY <1>3, <1>4, Bounds
  <2>2. lost' \subseteq Token
    BY <1>1, <1>3, Held DEF LogTypeOK
  <2> QED
    BY <1>1, <1>3, <2>1, <2>2 DEF LogTypeOK
<1>7. PairInv'
  <2>1. \A s \in Stream : Len(pipe'[s]) = 2 * 0 /\ 0 \in Nat
    BY <1>4
  <2> QED
    BY <1>1, <1>3, <2>1 DEF PairInv
<1>8. FilesInv' /\ HostOrder' /\ HostApart'
  BY <1>1, <1>3 DEF FilesInv, HostOrder, HostApart
<1>9. PipesInv'
  BY <1>1, <1>3, <1>4 DEF PipesInv
<1>10. HostAll'
  <2>1. SUFFICES ASSUME kind = "host" PROVE HostAll'
    BY <1>3 DEF HostAll
  <2>2. InFiles \cap OnTheWay = {} /\ ToSet(shown) \cap InPipes = {}
        /\ ToSet(collector.batch) \cap InPipes = {} /\ ToSet(buf) \cap InPipes = {}
    BY <2>1, AllApart
  <2>3. (InFiles \cup OnTheWay) \cap lost = {} /\ InFiles \cup OnTheWay \cup lost = 1..(2 * written)
    BY <1>1, <2>1 DEF HostAll
  <2>4. OnTheWay' = ToSet(shown) \cup ToSet(collector.batch) \cup ToSet(buf)
    BY <1>3, <1>5 DEF OnTheWay
  <2>5. OnTheWay = OnTheWay' \cup InPipes
    BY <2>4 DEF OnTheWay
  <2>6. InFiles \cup OnTheWay' \cup lost' = 1..(2 * written)
    BY <1>3, <2>3, <2>5
  <2>7. (InFiles \cup OnTheWay') \cap lost' = {}
    BY <1>3, <2>2, <2>3, <2>4, <2>5
  <2> QED
    BY <1>2, <1>3, <2>6, <2>7 DEF HostAll
<1>11. DockerInv'
  <2>1. SUFFICES ASSUME kind = "docker" PROVE DockerInv'
    BY <1>3 DEF DockerInv
  <2>2. \A s \in Stream : ToSet(pipe[s]) = {}
    BY <1>1, <2>1, SmallSeqs DEF DockerInv
  <2>3. lost' = lost
    BY <1>3, <2>2 DEF InPipes
  <2> QED
    BY <1>1, <1>2, <1>3, <1>4, <2>3 DEF DockerInv
<1> QED
  BY <1>6, <1>7, <1>8, <1>9, <1>10, <1>11 DEF LogIInv

\* The buffer is given up, and what is in it is lost.
LEMMA BufferLost ==
  ASSUME LogIInv,
         UNCHANGED <<kind, stream, written, process, pipe, scanner, collector, day, file, rotated, shown,
                     skipped, views, rotations>>,
         removed' \in BOOLEAN, viewer' \in BOOLEAN, buf' = <<>>, lost' = lost \cup ToSet(buf)
  PROVE  LogIInv'
<1>1. LogTypeOK /\ PairInv /\ FilesInv /\ HostOrder /\ PipesInv /\ HostApart /\ HostAll /\ DockerInv
  BY DEF LogIInv
<1>2. InFiles' = InFiles /\ InPipes' = InPipes
  BY FilesStay, PipesStay
<1>3. buf' \in Seq(Token) /\ Len(buf') <= BufMax /\ ToSet(buf') = {}
      /\ Ordered(kind, stream, buf') /\ \A t : Before(kind, stream, buf', t) /\ Before(kind, stream, t, buf')
  BY Bounds, Nothing
<1>4. LogTypeOK'
  <2>1. lost' \subseteq Token
    BY <1>1, Held DEF LogTypeOK
  <2> QED
    BY <1>1, <1>3, <2>1 DEF LogTypeOK
<1>5. PairInv' /\ FilesInv' /\ HostApart'
  BY <1>1 DEF PairInv, FilesInv, HostApart
<1>6. HostOrder' /\ PipesInv'
  BY <1>1, <1>3 DEF HostOrder, PipesInv, StreamOf
<1>7. HostAll'
  <2>1. SUFFICES ASSUME kind = "host" PROVE HostAll'
    BY DEF HostAll
  <2>2. InFiles \cap OnTheWay = {} /\ ToSet(shown) \cap ToSet(buf) = {}
        /\ ToSet(collector.batch) \cap ToSet(buf) = {} /\ ToSet(buf) \cap InPipes = {}
    BY <2>1, AllApart
  <2>3. (InFiles \cup OnTheWay) \cap lost = {} /\ InFiles \cup OnTheWay \cup lost = 1..(2 * written)
    BY <1>1, <2>1 DEF HostAll
  <2>4. OnTheWay' = ToSet(shown) \cup ToSet(collector.batch) \cup InPipes
    BY <1>2, <1>3 DEF OnTheWay
  <2>5. OnTheWay = OnTheWay' \cup ToSet(buf)
    BY <2>4 DEF OnTheWay
  <2>6. InFiles \cup OnTheWay' \cup lost' = 1..(2 * written)
    BY <2>3, <2>5
  <2>7. (InFiles \cup OnTheWay') \cap lost' = {}
    BY <2>2, <2>3, <2>4, <2>5
  <2> QED
    BY <1>2, <2>6, <2>7 DEF HostAll
<1>8. DockerInv'
  <2>1. SUFFICES ASSUME kind = "docker" PROVE DockerInv'
    BY DEF DockerInv
  <2>2. lost' = lost
    BY <1>1, <2>1, SmallSeqs DEF DockerInv
  <2> QED
    BY <1>1, <1>2, <2>2 DEF DockerInv
<1> QED
  BY <1>4, <1>5, <1>6, <1>7, <1>8 DEF LogIInv

LEMMA RemoveContainerKeeps ==
  ASSUME LogIInv, RemoveContainer
  PROVE  LogIInv'
<1>1. UNCHANGED <<kind, stream, written, process, pipe, scanner, collector, day, file, rotated, viewer, shown,
                  skipped, views, rotations>> /\ removed' = TRUE
  BY DEF RemoveContainer, Disk
<1>2. CASE UNCHANGED <<buf, lost>>
  <2>1. LogTypeOK'
    BY <1>1, <1>2 DEF LogIInv, LogTypeOK
  <2>2. PairInv' /\ FilesInv' /\ HostOrder' /\ HostApart'
    BY <1>1, <1>2 DEF LogIInv, PairInv, FilesInv, HostOrder, HostApart
  <2>3. PipesInv'
    BY <1>1, <1>2 DEF LogIInv, PipesInv, StreamOf
  <2>4. HostAll' /\ DockerInv'
    <3>1. InFiles' = InFiles /\ InPipes' = InPipes
      BY <1>1, FilesStay, PipesStay
    <3> QED
      BY <1>1, <1>2, <3>1 DEF LogIInv, HostAll, DockerInv, OnTheWay
  <2> QED
    BY <2>1, <2>2, <2>3, <2>4 DEF LogIInv
<1>3. CASE buf' = <<>> /\ lost' = lost \cup ToSet(buf)
  <2>1. viewer' \in BOOLEAN /\ removed' \in BOOLEAN
    BY <1>1 DEF LogIInv, LogTypeOK
  <2> QED
    BY <1>1, <1>3, <2>1, BufferLost
<1> QED
  BY <1>2, <1>3 DEF RemoveContainer

-------------------------------------------------------------------------------
(* The collector                                                               *)

LEMMA FirstAndRest ==
  ASSUME NEW s \in Seq(Token), s # <<>>
  PROVE  /\ <<s[1]>> \in Seq(Token) /\ Tail(s) \in Seq(Token) /\ Len(Tail(s)) <= Len(s)
         /\ ToSet(<<s[1]>>) = {s[1]} /\ ToSet(s) = {s[1]} \cup ToSet(Tail(s))
         /\ \A k, f : Ordered(k, f, s) => Ordered(k, f, Tail(s)) /\ Before(k, f, <<s[1]>>, Tail(s))
<1> DEFINE a == SubSeq(s, 1, 1)
           b == SubSeq(s, 2, Len(s))
<1>1. Len(s) \in Nat /\ Len(s) >= 1 /\ 1 \in 0..Len(s) /\ 1 + 1 = 2 /\ s[1] \in Token
  OBVIOUS
<1>2. /\ a \in Seq(Token) /\ b \in Seq(Token) /\ Len(a) = 1 /\ Len(b) = Len(s) - 1
      /\ ToSet(s) = ToSet(a) \cup ToSet(b)
      /\ \A k, f : Ordered(k, f, s) => Ordered(k, f, a) /\ Ordered(k, f, b) /\ Before(k, f, a, b)
  <2> DEFINE m == 1
  <2>1. m \in 0..Len(s) /\ a = SubSeq(s, 1, m) /\ b = SubSeq(s, m + 1, Len(s)) /\ m = 1
    BY <1>1
  <2> HIDE DEF m, a, b
  <2> QED
    BY <2>1, Split
<1>3. a = <<s[1]>>
  <2>1. a[1] = s[1] /\ <<s[1]>> \in Seq(Token) /\ Len(<<s[1]>>) = 1 /\ <<s[1]>>[1] = s[1]
    BY <1>1
  <2> HIDE DEF a
  <2> QED
    BY <1>2, <2>1, SeqEqual
<1>4. b = Tail(s)
  <2>1. Tail(s) \in Seq(Token) /\ Len(Tail(s)) = Len(s) - 1 /\ \A i \in 1..(Len(s) - 1) : Tail(s)[i] = s[i + 1]
    BY <1>1
  <2>2. \A i \in 1..(Len(s) - 1) : b[i] = s[i + 1]
    BY <1>1
  <2> QED
    BY <1>2, <2>1, <2>2, SeqEqual
<1> HIDE DEF a, b
<1>5. ToSet(<<s[1]>>) = {s[1]} /\ Len(b) <= Len(s)
  BY <1>1, <1>2, SmallSeqs
<1> QED
  BY <1>2, <1>3, <1>4, <1>5

LEMMA PeekKeeps ==
  ASSUME LogIInv, Peek, buf # <<>>
  PROVE  LogIInv'
<1>1. LogTypeOK /\ PairInv /\ FilesInv /\ HostOrder /\ PipesInv /\ HostApart /\ HostAll /\ DockerInv
  BY DEF LogIInv
<1>2. InFiles' = InFiles
  BY FilesStay DEF Peek, Disk
<1>3. /\ UNCHANGED <<kind, stream, removed, written, process, pipe, scanner, day, file, rotated, viewer, shown,
                     lost, skipped, views, rotations>>
      /\ collector.pc = "open" /\ buf' = Tail(buf)
      /\ collector' = [collector EXCEPT !.pc = "peeked", !.batch = <<buf[1]>>]
  BY DEF Peek, Source, Disk, History
<1>4. kind = "host"
  BY <1>1, <1>3 DEF DockerInv, LogTypeOK
<1>5. buf \in Seq(Token) /\ collector.batch = <<>> /\ ToSet(collector.batch) = {}
  BY <1>1, <1>3, Nothing DEF LogTypeOK, PairInv
<1>6. /\ <<buf[1]>> \in Seq(Token) /\ buf' \in Seq(Token) /\ Len(buf') <= Len(buf)
      /\ ToSet(buf) = {buf[1]} \cup ToSet(buf') /\ Ordered(kind, stream, buf')
      /\ Before(kind, stream, <<buf[1]>>, buf') /\ ToSet(<<buf[1]>>) = {buf[1]} /\ Ordered(kind, stream, <<buf[1]>>)
  BY <1>1, <1>3, <1>4, <1>5, FirstAndRest, SmallSeqs DEF HostOrder
<1> DEFINE one == <<buf[1]>>
<1>7. collector'.batch = one /\ collector'.pc = "peeked"
      /\ collector' \in [pc : {"idle", "open", "peeked", "append", "ended"}, batch : Seq(Token),
                         last : 0..MaxLines, done : BOOLEAN]
  BY <1>1, <1>3, <1>6 DEF LogTypeOK
<1> HIDE DEF one
<1>8. one \in Seq(Token) /\ ToSet(one) = {buf[1]} /\ Before(kind, stream, one, buf') /\ Ordered(kind, stream, one)
  BY <1>6 DEF one
<1>9. \A s : Before(kind, stream, s, buf) => Before(kind, stream, s, one) /\ Before(kind, stream, s, buf')
  BY <1>6, <1>8 DEF Before
<1>10. \A s : Before(kind, stream, buf, s) => Before(kind, stream, one, s) /\ Before(kind, stream, buf', s)
  BY <1>6, <1>8 DEF Before
<1>11. LogTypeOK'
  <2>1. Len(buf') <= BufMax
    <3>1. Len(buf) \in Nat /\ Len(buf') \in Nat /\ Len(buf) <= BufMax /\ Len(buf') <= Len(buf)
      BY <1>1, <1>5, <1>6, LenProperties DEF LogTypeOK
    <3> QED
      BY <3>1, Bounds
  <2> QED
    BY <1>1, <1>3, <1>6, <1>7, <2>1 DEF LogTypeOK
<1>12. PairInv' /\ DockerInv'
  BY <1>1, <1>3, <1>4, <1>7 DEF PairInv, DockerInv
<1>13. FilesInv'
  BY <1>1, <1>3, <1>4, <1>7, <1>8, <1>9 DEF FilesInv, HostOrder
<1>14. HostOrder'
  BY <1>1, <1>3, <1>6, <1>7, <1>8, <1>9, <1>10 DEF HostOrder
<1>15. PipesInv'
  BY <1>1, <1>3, <1>7, <1>10 DEF PipesInv, StreamOf
<1>16. HostApart'
  <2>1. ToSet(shown) \cap ToSet(buf) = {}
    BY <1>4, AllApart
  <2>2. Apart(shown, one)
    BY <1>6, <1>8, <2>1 DEF Apart
  <2> QED
    BY <1>1, <1>3, <1>7, <2>2 DEF HostApart
<1>17. HostAll'
  <2>1. OnTheWay' = OnTheWay
    BY <1>3, <1>5, <1>6, <1>7, <1>8, PipesStay DEF OnTheWay
  <2> QED
    BY <1>1, <1>2, <1>3, <2>1 DEF HostAll
<1> QED
  BY <1>11, <1>12, <1>13, <1>14, <1>15, <1>16, <1>17 DEF LogIInv

LEMMA ReadAllKeeps ==
  ASSUME LogIInv, ReadAll
  PROVE  LogIInv'
<1>1. LogTypeOK /\ PairInv /\ FilesInv /\ HostOrder /\ PipesInv /\ HostApart /\ HostAll /\ DockerInv
  BY DEF LogIInv
<1>2. InFiles' = InFiles
  BY FilesStay DEF ReadAll, Disk
<1>3. /\ UNCHANGED <<kind, stream, removed, written, process, pipe, scanner, day, file, rotated, viewer, shown,
                     lost, skipped, views, rotations>>
      /\ collector.pc = "peeked" /\ buf' = <<>>
      /\ collector' = [collector EXCEPT !.pc = "append", !.batch = @ \o buf]
  BY DEF ReadAll, Source, Disk, History
<1> DEFINE both == collector.batch \o buf
<1>4. kind = "host"
  BY <1>1, <1>3 DEF DockerInv, LogTypeOK
<1>5. buf \in Seq(Token) /\ collector.batch \in Seq(Token)
  BY <1>1 DEF LogTypeOK
<1>6. Ordered(kind, stream, collector.batch) /\ Ordered(kind, stream, buf) /\ Before(kind, stream, collector.batch, buf)
  BY <1>1, <1>4 DEF FilesInv, HostOrder
<1>7. both \in Seq(Token) /\ ToSet(both) = ToSet(collector.batch) \cup ToSet(buf) /\ Ordered(kind, stream, both)
  BY <1>5, <1>6, Joined
<1>8. collector'.batch = both /\ collector'.pc = "append"
      /\ collector' \in [pc : {"idle", "open", "peeked", "append", "ended"}, batch : Seq(Token),
                         last : 0..MaxLines, done : BOOLEAN]
  BY <1>1, <1>3, <1>7 DEF LogTypeOK
<1> HIDE DEF both
<1>9. buf' \in Seq(Token) /\ Len(buf') <= BufMax /\ ToSet(buf') = {}
      /\ Ordered(kind, stream, buf') /\ \A t : Before(kind, stream, buf', t) /\ Before(kind, stream, t, buf')
  BY <1>3, Bounds, Nothing
<1>10. \A s : Before(kind, stream, s, collector.batch) /\ Before(kind, stream, s, buf) => Before(kind, stream, s, both)
  BY <1>7 DEF Before
<1>11. \A s \in Stream : Before(kind, stream, both, pipe[s])
  BY <1>1, <1>4, <1>7 DEF Before, PipesInv
<1>12. LogTypeOK'
  BY <1>1, <1>3, <1>8, <1>9 DEF LogTypeOK
<1>13. PairInv' /\ DockerInv'
  BY <1>1, <1>3, <1>4, <1>8 DEF PairInv, DockerInv
<1>14. FilesInv'
  BY <1>1, <1>3, <1>4, <1>7, <1>8, <1>10 DEF FilesInv, HostOrder
<1>15. HostOrder'
  BY <1>1, <1>3, <1>4, <1>8, <1>9, <1>10 DEF HostOrder
<1>16. PipesInv'
  BY <1>1, <1>3, <1>4, <1>8, <1>9, <1>11 DEF PipesInv, StreamOf
<1>17. HostApart'
  <2>1. ToSet(shown) \cap (ToSet(collector.batch) \cup ToSet(buf)) = {}
    BY <1>4, AllApart
  <2>2. Apart(shown, both)
    BY <1>7, <2>1 DEF Apart
  <2> QED
    BY <1>1, <1>3, <1>4, <1>8, <2>2 DEF HostApart
<1>18. HostAll'
  <2>1. OnTheWay' = OnTheWay
    BY <1>3, <1>7, <1>8, <1>9, PipesStay DEF OnTheWay
  <2> QED
    BY <1>1, <1>2, <1>3, <2>1 DEF HostAll
<1> QED
  BY <1>12, <1>13, <1>14, <1>15, <1>16, <1>17, <1>18 DEF LogIInv

\* Lines from..to, as tokens.
LEMMA TheLines ==
  ASSUME NEW from \in Nat \ {0}, NEW to \in Nat, from <= to, to <= MaxLines
  PROVE  /\ Lines(from, to) \in Seq(Token)
         /\ ToSet(Lines(from, to)) = (2 * from - 1)..(2 * to)
         /\ \A k, f : Ordered(k, f, Lines(from, to))
<1> DEFINE n == 2 * (to - from + 1)
           s == [k \in 1..n |-> 2 * (from - 1) + k]
<1>1. n \in Nat /\ MaxLines \in Nat /\ Lines(from, to) = s
  BY Bounds DEF Lines
<1>2. \A k \in 1..n : 2 * (from - 1) + k \in (2 * from - 1)..(2 * to) /\ 2 * (from - 1) + k \in Token
  BY <1>1 DEF Token
<1>3. \A t \in (2 * from - 1)..(2 * to) : t - 2 * (from - 1) \in 1..n /\ t = 2 * (from - 1) + (t - 2 * (from - 1))
  OBVIOUS
<1> HIDE DEF n
<1>4. s \in Seq(Token)
  <2>1. s \in [1..n -> Token]
    BY <1>2
  <2> HIDE DEF s
  <2> QED
    BY <1>1, <2>1, SeqDef
<1>5. DOMAIN s = 1..n /\ \A k \in 1..n : s[k] = 2 * (from - 1) + k
  OBVIOUS
<1> HIDE DEF s
<1>6. ToSet(s) = (2 * from - 1)..(2 * to)
  <2>1. ToSet(s) \subseteq (2 * from - 1)..(2 * to)
    BY <1>2, <1>5 DEF ToSet
  <2>2. ASSUME NEW t \in (2 * from - 1)..(2 * to) PROVE t \in ToSet(s)
    <3>1. t - 2 * (from - 1) \in DOMAIN s /\ s[t - 2 * (from - 1)] = t
      BY <1>3, <1>5
    <3> QED
      BY <3>1 DEF ToSet
  <2> QED
    BY <2>1, <2>2
<1>7. \A k, f : Ordered(k, f, s)
  BY <1>1, <1>5 DEF Ordered, Follows
<1> QED
  BY <1>1, <1>4, <1>6, <1>7

LEMMA PollKeeps ==
  ASSUME LogIInv, Poll
  PROVE  LogIInv'
<1>1. LogTypeOK /\ PairInv /\ FilesInv /\ HostOrder /\ PipesInv /\ HostApart /\ HostAll /\ DockerInv
  BY DEF LogIInv
<1>2. InFiles' = InFiles
  BY FilesStay DEF Poll, Disk
<1> DEFINE since == Bigger(collector.last, 1)
           from == Bigger(since, (written + 1) - TailMax)
           new == Lines(from, written)
<1>3. /\ UNCHANGED <<kind, stream, removed, written, process, pipe, scanner, buf, day, file, rotated, viewer, shown,
                     lost, views, rotations>>
      /\ kind = "docker" /\ collector.pc = "idle" /\ written > 0
      /\ collector' = [collector EXCEPT !.pc = "append", !.last = written, !.batch = new]
      /\ skipped' = (skipped \/ from > collector.last + 1)
  BY DEF Poll, Source, Disk
<1>4. /\ collector.batch = <<>> /\ ToSet(collector.batch) = {} /\ collector.last \in Nat
      /\ collector.last <= written /\ written \in Nat /\ written \in 0..MaxLines /\ written <= MaxLines
      /\ MaxLines \in Nat /\ TailMax \in Nat /\ TailMax >= 1
  BY <1>1, <1>3, Bounds, Nothing DEF LogTypeOK, PairInv, DockerInv
<1>5. since \in Nat /\ since >= 1 /\ since >= collector.last /\ since <= written
  BY <1>3, <1>4 DEF Bigger
<1>6. from \in Nat \ {0} /\ from >= collector.last /\ from <= written
  <2> HIDE DEF since
  <2> QED
    BY <1>4, <1>5 DEF Bigger
<1> HIDE DEF from
<1>7. new \in Seq(Token) /\ ToSet(new) = (2 * from - 1)..(2 * written) /\ \A k, f : Ordered(k, f, new)
  BY <1>4, <1>6, TheLines
<1> HIDE DEF new
<1>8. collector'.batch = new /\ collector'.pc = "append" /\ collector'.last = written
      /\ collector' \in [pc : {"idle", "open", "peeked", "append", "ended"}, batch : Seq(Token),
                         last : 0..MaxLines, done : BOOLEAN]
  BY <1>1, <1>3, <1>4, <1>7 DEF LogTypeOK
<1>9. InFiles \subseteq Nat /\ \A t \in InFiles : t <= 2 * collector.last
  BY <1>1, <1>3, Held DEF DockerInv
<1>10. \A s : ToSet(s) \subseteq InFiles => Before(kind, stream, s, new)
  <2>1. \A t \in InFiles, u \in ToSet(new) : t <= u + 1
    <3>1. SUFFICES ASSUME NEW t \in InFiles, NEW u \in (2 * from - 1)..(2 * written) PROVE t <= u + 1
      BY <1>7
    <3>2. t \in Nat /\ t <= 2 * collector.last
      BY <1>9
    <3> QED
      BY <1>4, <1>6, <3>2
  <2> QED
    BY <1>3, <2>1 DEF Before, Follows
<1>11. LogTypeOK'
  <2>1. skipped' \in BOOLEAN
    BY <1>3
  <2> QED
    BY <1>1, <1>3, <1>8, <2>1 DEF LogTypeOK
<1>12. PairInv' /\ HostOrder' /\ PipesInv' /\ HostApart' /\ HostAll'
  BY <1>1, <1>3, <1>8 DEF PairInv, HostOrder, PipesInv, HostApart, HostAll
<1>13. FilesInv'
  <2>1. \A d \in Day : Before(kind, stream, file[d], new)
    BY <1>10, Held
  <2> QED
    BY <1>1, <1>3, <1>7, <1>8, <2>1 DEF FilesInv
<1>14. DockerInv'
  <2>1. \A t \in InFiles' \cup ToSet(collector'.batch) : t <= 2 * collector'.last
    <3>1. \A t \in ToSet(new) : t <= 2 * written
      BY <1>7
    <3>2. ASSUME NEW t \in InFiles PROVE t <= 2 * written
      <4>1. t \in Nat /\ t <= 2 * collector.last
        BY <1>9
      <4> QED
        BY <1>4, <4>1
    <3> QED
      BY <1>2, <1>8, <3>1, <3>2
  <2>2. ASSUME ~skipped', lost' = {}
        PROVE  InFiles' \cup ToSet(collector'.batch) = 1..(2 * collector'.last)
    <3>1. ~skipped /\ ~(from > collector.last + 1)
      BY <1>3, <2>2
    <3>2. InFiles = 1..(2 * collector.last)
      BY <1>1, <1>3, <1>4, <2>2, <3>1 DEF DockerInv
    <3>3. 1..(2 * collector.last) \cup (2 * from - 1)..(2 * written) = 1..(2 * written)
      BY <1>4, <1>6, <3>1
    <3> QED
      BY <1>2, <1>7, <1>8, <3>2, <3>3
  <2>3. collector'.last <= written'
    BY <1>3, <1>4, <1>8
  <2> QED
    BY <1>1, <1>3, <1>8, <2>1, <2>2, <2>3 DEF DockerInv
<1> QED
  BY <1>11, <1>12, <1>13, <1>14 DEF LogIInv

LEMMA AppendBatchKeeps ==
  ASSUME LogIInv, AppendBatch
  PROVE  LogIInv'
<1>1. LogTypeOK /\ PairInv /\ FilesInv /\ HostOrder /\ PipesInv /\ HostApart /\ HostAll /\ DockerInv
  BY DEF LogIInv
<1> DEFINE batch == collector.batch
<1>2. /\ UNCHANGED <<kind, stream, removed, written, process, pipe, scanner, buf, day, rotated, viewer, shown,
                     lost, skipped, views, rotations>>
      /\ file' = [file EXCEPT ![day] = @ \o batch]
      /\ collector' = [collector EXCEPT !.pc = "idle", !.batch = <<>>]
  BY DEF AppendBatch, Source, History
<1>3. day \in Day /\ file \in [Day -> Seq(Token)] /\ batch \in Seq(Token) /\ file[day] \in Seq(Token)
  BY <1>1 DEF LogTypeOK
<1>4. file'[day] = file[day] \o batch /\ \A d \in Day : d # day => file'[d] = file[d]
  BY <1>2, <1>3
<1>5. Ordered(kind, stream, file[day]) /\ Ordered(kind, stream, batch) /\ Before(kind, stream, file[day], batch)
  BY <1>1, <1>3 DEF FilesInv
<1>6. file'[day] \in Seq(Token) /\ ToSet(file'[day]) = ToSet(file[day]) \cup ToSet(batch)
      /\ Ordered(kind, stream, file'[day])
  BY <1>3, <1>4, <1>5, Joined
<1>7. \A d \in Day : ToSet(file'[d]) \subseteq ToSet(file[d]) \cup ToSet(batch)
  BY <1>4, <1>6
<1>8. collector'.batch = <<>> /\ collector'.pc = "idle" /\ collector'.last = collector.last
      /\ collector' \in [pc : {"idle", "open", "peeked", "append", "ended"}, batch : Seq(Token),
                         last : 0..MaxLines, done : BOOLEAN]
  BY <1>1, <1>2, Nothing DEF LogTypeOK
<1>9. ToSet(collector'.batch) = {} /\ Ordered(kind, stream, collector'.batch)
      /\ \A t : Before(kind, stream, collector'.batch, t) /\ Before(kind, stream, t, collector'.batch)
  BY <1>8, Nothing
<1> HIDE DEF batch
<1>10. InFiles' = InFiles \cup ToSet(batch)
  <2>1. \A d \in Day : ToSet(file'[d]) \cup ToSet(rotated'[d]) \subseteq InFiles \cup ToSet(batch)
    BY <1>2, <1>7 DEF InFiles
  <2>2. \A d \in Day : ToSet(file[d]) \cup ToSet(rotated[d]) \subseteq InFiles'
    BY <1>2, <1>4, <1>6 DEF InFiles
  <2>3. ToSet(batch) \subseteq InFiles'
    BY <1>3, <1>6 DEF InFiles
  <2> QED
    BY <2>1, <2>2, <2>3 DEF InFiles
<1>11. LogTypeOK'
  <2>1. file' \in [Day -> Seq(Token)]
    BY <1>2, <1>3, <1>4, <1>6
  <2> QED
    BY <1>1, <1>2, <1>8, <2>1 DEF LogTypeOK
<1>12. PairInv'
  BY <1>1, <1>2, <1>8 DEF PairInv
<1>13. FilesInv'
  <2>1. \A d \in Day : Ordered(kind, stream, file'[d])
    BY <1>1, <1>4, <1>6 DEF FilesInv
  <2>2. \A d \in Day : d > day => file'[d] = <<>>
    <3>1. \A d \in Day : d > day => d # day
      BY <1>3, Bounds DEF Day
    <3> QED
      BY <1>1, <1>4, <3>1 DEF FilesInv
  <2>3. ASSUME NEW d \in Day, NEW e \in Day, d < e PROVE Before(kind, stream, file'[d], file'[e])
    <3>1. Before(kind, stream, file[d], file[e]) /\ Before(kind, stream, file[d], batch)
      BY <1>1, <2>3 DEF FilesInv, batch
    <3>2. CASE d = day
      <4>1. e > day
        BY <2>3, <3>2, Bounds DEF Day
      <4>2. file'[e] = <<>>
        BY <2>2, <4>1
      <4> QED
        BY <4>2, Nothing
    <3>3. CASE d # day
      <4>1. file'[d] = file[d] /\ ToSet(file'[e]) \subseteq ToSet(file[e]) \cup ToSet(batch)
        BY <1>4, <1>7, <3>3
      <4> QED
        BY <3>1, <4>1 DEF Before
    <3> QED
      BY <3>2, <3>3
  <2> QED
    BY <1>2, <1>9, <2>1, <2>2, <2>3 DEF FilesInv
<1>14. HostOrder' /\ PipesInv'
  <2>1. SUFFICES ASSUME kind = "host" PROVE HostOrder' /\ PipesInv'
    BY <1>2 DEF HostOrder, PipesInv
  <2>2. ASSUME NEW s, NEW d \in Day, Before(kind, stream, file[d], s), Before(kind, stream, batch, s)
        PROVE  Before(kind, stream, file'[d], s)
    <3>1. ToSet(file'[d]) \subseteq ToSet(file[d]) \cup ToSet(batch)
      BY <1>7
    <3> QED
      BY <2>2, <3>1 DEF Before
  <2>3. Before(kind, stream, batch, buf) /\ \A s \in Stream : Before(kind, stream, batch, pipe[s])
    BY <1>1, <2>1 DEF HostOrder, PipesInv, batch
  <2>4. \A d \in Day : Before(kind, stream, file'[d], buf) /\ \A s \in Stream : Before(kind, stream, file'[d], pipe[s])
    BY <1>1, <2>1, <2>2, <2>3 DEF HostOrder, PipesInv
  <2>5. HostOrder'
    BY <1>1, <1>2, <1>9, <2>1, <2>4 DEF HostOrder
  <2>6. PipesInv'
    BY <1>1, <1>2, <1>9, <2>1, <2>4 DEF PipesInv, StreamOf
  <2> QED
    BY <2>5, <2>6
<1>15. HostApart'
  <2>1. SUFFICES ASSUME kind = "host" PROVE HostApart'
    BY <1>2 DEF HostApart
  <2>2. Apart(shown, collector'.batch)
    BY <1>9 DEF Apart
  <2>3. ToSet(batch) \cap ToSet(shown) = {}
    BY <2>1, AllApart DEF batch
  <2>4. \A d \in Day : ToSet(batch) \cap ToSet(rotated[d]) = {}
    <3>1. InFiles \cap ToSet(batch) = {}
      BY <2>1, AllApart DEF OnTheWay, batch
    <3> QED
      BY <3>1, Held
  <2>5. ASSUME NEW d \in Day PROVE Apart(shown, file'[d])
    <3>1. ToSet(file'[d]) \subseteq ToSet(file[d]) \cup ToSet(batch) /\ Apart(shown, file[d])
      BY <1>1, <1>7, <2>1 DEF HostApart
    <3> QED
      BY <2>3, <3>1 DEF Apart
  <2>6. ASSUME NEW d \in Day, NEW e \in Day PROVE Apart(file'[d], rotated[e])
    <3>1. ToSet(file'[d]) \subseteq ToSet(file[d]) \cup ToSet(batch) /\ Apart(file[d], rotated[e])
      BY <1>1, <1>7, <2>1 DEF HostApart
    <3> QED
      BY <2>4, <3>1 DEF Apart
  <2> QED
    BY <1>1, <1>2, <2>1, <2>2, <2>5, <2>6 DEF HostApart
<1>16. HostAll'
  <2>1. InFiles' \cup OnTheWay' = InFiles \cup OnTheWay
    BY <1>2, <1>9, <1>10, PipesStay DEF OnTheWay, batch
  <2> QED
    BY <1>1, <1>2, <2>1 DEF HostAll
<1>17. DockerInv'
  <2>1. InFiles' \cup ToSet(collector'.batch) = InFiles \cup ToSet(collector.batch)
    BY <1>9, <1>10 DEF batch
  <2> QED
    BY <1>1, <1>2, <1>8, <2>1 DEF DockerInv
<1> QED
  BY <1>11, <1>12, <1>13, <1>14, <1>15, <1>16, <1>17 DEF LogIInv

LEMMA AppendFailsKeeps ==
  ASSUME LogIInv, AppendFails
  PROVE  LogIInv'
<1>1. LogTypeOK /\ PairInv /\ FilesInv /\ HostOrder /\ PipesInv /\ HostApart /\ HostAll /\ DockerInv
  BY DEF LogIInv
<1>2. InFiles' = InFiles
  BY FilesStay DEF AppendFails, Disk
<1> DEFINE batch == collector.batch
<1>3. /\ UNCHANGED <<kind, stream, removed, written, process, pipe, scanner, buf, day, file, rotated, viewer, shown,
                     skipped, views>>
      /\ rotations < MaxRotations /\ rotations' = rotations + 1 /\ lost' = lost \cup ToSet(batch)
      /\ collector' = [collector EXCEPT !.pc = "idle", !.batch = <<>>]
  BY DEF AppendFails, Source, Disk
<1>4. batch \in Seq(Token) /\ ToSet(batch) \subseteq Token
  BY <1>1, Elements DEF LogTypeOK
<1>5. collector'.batch = <<>> /\ collector'.pc = "idle" /\ collector'.last = collector.last
      /\ collector' \in [pc : {"idle", "open", "peeked", "append", "ended"}, batch : Seq(Token),
                         last : 0..MaxLines, done : BOOLEAN]
  BY <1>1, <1>3, Nothing DEF LogTypeOK
<1>6. ToSet(collector'.batch) = {} /\ Ordered(kind, stream, collector'.batch)
      /\ \A t : Before(kind, stream, collector'.batch, t) /\ Before(kind, stream, t, collector'.batch)
  BY <1>5, Nothing
<1>7. LogTypeOK'
  <2>1. rotations' \in 0..MaxRotations
    <3>1. MaxRotations \in Nat
      BY Bounds
    <3> QED
      BY <1>1, <1>3, <3>1 DEF LogTypeOK
  <2> QED
    BY <1>1, <1>3, <1>4, <1>5, <2>1 DEF LogTypeOK
<1>8. PairInv' /\ FilesInv'
  BY <1>1, <1>3, <1>5, <1>6 DEF PairInv, FilesInv
<1>9. HostOrder' /\ PipesInv'
  BY <1>1, <1>3, <1>6 DEF HostOrder, PipesInv, StreamOf
<1>10. HostApart'
  <2>1. Apart(shown, collector'.batch)
    BY <1>6 DEF Apart
  <2> QED
    BY <1>1, <1>3, <2>1 DEF HostApart
<1>11. HostAll'
  <2>1. SUFFICES ASSUME kind = "host" PROVE HostAll'
    BY <1>3 DEF HostAll
  <2>2. OnTheWay \cup lost = OnTheWay' \cup lost'
    BY <1>3, <1>6, PipesStay DEF OnTheWay
  <2>3. (InFiles \cup OnTheWay') \cap lost' = {}
    <3>1. InFiles \cap OnTheWay = {} /\ ToSet(shown) \cap ToSet(batch) = {}
          /\ ToSet(batch) \cap (ToSet(buf) \cup InPipes) = {}
      BY <2>1, AllApart
    <3>2. (InFiles \cup OnTheWay) \cap lost = {}
      BY <1>1, <2>1 DEF HostAll
    <3>3. OnTheWay' = ToSet(shown) \cup ToSet(buf) \cup InPipes
          /\ OnTheWay' \subseteq OnTheWay /\ ToSet(batch) \subseteq OnTheWay
      BY <1>3, <1>6, PipesStay DEF OnTheWay
    <3> QED
      BY <1>3, <3>1, <3>2, <3>3
  <2> QED
    BY <1>1, <1>2, <1>3, <2>1, <2>2, <2>3 DEF HostAll
<1>12. DockerInv'
  <2>1. SUFFICES ASSUME kind = "docker" PROVE DockerInv'
    BY <1>3 DEF DockerInv
  <2>2. lost' = {} => lost = {} /\ ToSet(batch) = {}
    BY <1>3
  <2>3. InFiles' \cup ToSet(collector'.batch) \subseteq InFiles \cup ToSet(batch)
        /\ (lost' = {} => InFiles' \cup ToSet(collector'.batch) = InFiles \cup ToSet(batch))
    BY <1>2, <1>6, <2>2
  <2> QED
    BY <1>1, <1>3, <1>5, <2>1, <2>2, <2>3 DEF DockerInv
<1> QED
  BY <1>7, <1>8, <1>9, <1>10, <1>11, <1>12 DEF LogIInv

\* Who is told to stop, or stops, who finds the buffer, and who finds it empty, moves nothing.
LEMMA StopKeeps ==
  ASSUME LogIInv, StopCollector \/ CollectorEnds \/ Open \/ (Peek /\ buf = <<>>)
  PROVE  LogIInv'
<1>1. UNCHANGED <<kind, stream, removed, written, process, pipe, scanner, buf, day, file, rotated, viewer, shown,
                  lost, skipped, views, rotations>>
  BY DEF StopCollector, CollectorEnds, Open, Peek, Source, Disk, History
<1>2. /\ collector' \in [pc : {"idle", "open", "peeked", "append", "ended"}, batch : Seq(Token),
                         last : 0..MaxLines, done : BOOLEAN]
      /\ collector'.batch = collector.batch /\ collector'.last = collector.last
      /\ \/ collector'.pc = collector.pc
         \/ collector.pc \in {"idle", "open"} /\ collector'.pc \in {"idle", "ended"}
         \/ kind = "host" /\ collector.pc = "idle" /\ collector'.pc = "open"
  <2>1. collector \in [pc : {"idle", "open", "peeked", "append", "ended"}, batch : Seq(Token),
                       last : 0..MaxLines, done : BOOLEAN]
    BY DEF LogIInv, LogTypeOK
  <2>2. CASE StopCollector
    BY <2>1, <2>2 DEF StopCollector
  <2>3. CASE CollectorEnds
    BY <2>1, <2>3 DEF CollectorEnds
  <2>4. CASE Open
    BY <2>1, <2>4 DEF Open
  <2>5. CASE Peek /\ buf = <<>>
    BY <2>1, <2>5 DEF Peek
  <2> QED
    BY <2>2, <2>3, <2>4, <2>5
<1>3. LogTypeOK'
  BY <1>1, <1>2 DEF LogIInv, LogTypeOK
<1>4. PairInv' /\ FilesInv' /\ HostOrder' /\ HostApart'
  BY <1>1, <1>2 DEF LogIInv, PairInv, FilesInv, HostOrder, HostApart
<1>5. PipesInv'
  BY <1>1, <1>2 DEF LogIInv, PipesInv, StreamOf
<1>6. HostAll' /\ DockerInv'
  <2>1. InFiles' = InFiles /\ OnTheWay' = OnTheWay
    BY <1>1, <1>2, FilesStay, PipesStay DEF OnTheWay
  <2> QED
    BY <1>1, <1>2, <2>1 DEF LogIInv, HostAll, DockerInv
<1> QED
  BY <1>3, <1>4, <1>5, <1>6 DEF LogIInv

-------------------------------------------------------------------------------
(* The Logs RPC                                                                *)

LEMMA ViewKeeps ==
  ASSUME LogIInv, View
  PROVE  LogIInv'
<1>1. UNCHANGED <<kind, stream, removed, written, process, pipe, scanner, buf, collector, day, file, rotated, shown,
                  lost, skipped, rotations>>
      /\ viewer' = TRUE /\ views' = views + 1 /\ views < MaxViews
  BY DEF View, Source, Disk
<1>2. LogTypeOK'
  <2>1. MaxViews \in Nat
    BY Bounds
  <2> QED
    BY <1>1, <2>1 DEF LogIInv, LogTypeOK
<1>3. PairInv' /\ FilesInv' /\ HostOrder' /\ HostApart'
  BY <1>1 DEF LogIInv, PairInv, FilesInv, HostOrder, HostApart
<1>4. PipesInv'
  BY <1>1 DEF LogIInv, PipesInv, StreamOf
<1>5. HostAll' /\ DockerInv'
  <2>1. InFiles' = InFiles /\ InPipes' = InPipes
    BY <1>1, FilesStay, PipesStay
  <2> QED
    BY <1>1, <2>1 DEF LogIInv, HostAll, DockerInv, OnTheWay
<1> QED
  BY <1>2, <1>3, <1>4, <1>5 DEF LogIInv

LEMMA ViewFailsKeeps ==
  ASSUME LogIInv, ViewFails
  PROVE  LogIInv'
<1>1. UNCHANGED <<kind, stream, written, process, pipe, scanner, removed, collector, day, file, rotated, shown,
                  skipped, views, rotations>>
      /\ viewer' = FALSE /\ buf' = <<>> /\ lost' = lost \cup ToSet(buf)
  BY DEF ViewFails, Source, Disk
<1>2. removed' \in BOOLEAN /\ viewer' \in BOOLEAN
  BY <1>1 DEF LogIInv, LogTypeOK
<1> QED
  BY <1>1, <1>2, BufferLost

LEMMA ViewReadKeeps ==
  ASSUME LogIInv, ViewRead
  PROVE  LogIInv'
<1>1. LogTypeOK /\ PairInv /\ FilesInv /\ HostOrder /\ PipesInv /\ HostApart /\ HostAll /\ DockerInv
  BY DEF LogIInv
<1>2. InFiles' = InFiles
  BY FilesStay DEF ViewRead, Disk
<1>3. /\ UNCHANGED <<kind, stream, removed, written, process, pipe, scanner, collector, day, file, rotated,
                     lost, skipped, views, rotations>>
      /\ viewer' = (buf # <<>>) /\ shown' = shown \o buf /\ buf' = <<>>
  BY DEF ViewRead, Source, Disk, History
<1>4. buf \in Seq(Token) /\ shown \in Seq(Token)
  BY <1>1 DEF LogTypeOK
<1>5. shown' \in Seq(Token) /\ ToSet(shown') = ToSet(shown) \cup ToSet(buf)
  BY <1>3, <1>4, Joined
<1>6. buf' \in Seq(Token) /\ Len(buf') <= BufMax /\ ToSet(buf') = {}
      /\ Ordered(kind, stream, buf') /\ \A t : Before(kind, stream, buf', t) /\ Before(kind, stream, t, buf')
  BY <1>3, Bounds, Nothing
<1>7. LogTypeOK'
  BY <1>1, <1>3, <1>5, <1>6 DEF LogTypeOK
<1>8. PairInv' /\ FilesInv'
  BY <1>1, <1>3 DEF PairInv, FilesInv
<1>9. HostOrder'
  <2>1. SUFFICES ASSUME kind = "host" PROVE HostOrder'
    BY <1>3 DEF HostOrder
  <2>2. Ordered(kind, stream, shown')
    BY <1>1, <1>3, <1>4, <2>1, Joined DEF HostOrder
  <2> QED
    BY <1>1, <1>3, <1>6, <2>1, <2>2 DEF HostOrder
<1>10. PipesInv'
  <2>1. SUFFICES ASSUME kind = "host" PROVE PipesInv'
    BY <1>3 DEF PipesInv
  <2>2. \A s \in Stream : Before(kind, stream, shown', pipe[s])
    BY <1>1, <1>5, <2>1 DEF PipesInv, Before
  <2> QED
    BY <1>1, <1>3, <1>6, <2>1, <2>2 DEF PipesInv, StreamOf
<1>11. HostApart'
  <2>1. SUFFICES ASSUME kind = "host" PROVE HostApart'
    BY <1>3 DEF HostApart
  <2>2. ToSet(buf) \cap ToSet(collector.batch) = {} /\ ToSet(buf) \cap InFiles = {}
    BY <2>1, AllApart DEF OnTheWay
  <2>3. \A s : Apart(shown, s) /\ ToSet(buf) \cap ToSet(s) = {} => Apart(shown', s)
    BY <1>5 DEF Apart
  <2>4. \A d \in Day : ToSet(buf) \cap ToSet(file[d]) = {} /\ ToSet(buf) \cap ToSet(rotated[d]) = {}
    BY <2>2, Held
  <2> QED
    BY <1>1, <1>3, <2>1, <2>2, <2>3, <2>4 DEF HostApart
<1>12. HostAll'
  <2>1. OnTheWay' = OnTheWay
    BY <1>3, <1>5, <1>6, PipesStay DEF OnTheWay
  <2> QED
    BY <1>1, <1>2, <1>3, <2>1 DEF HostAll
<1>13. DockerInv'
  <2>1. SUFFICES ASSUME kind = "docker" PROVE DockerInv'
    BY <1>3 DEF DockerInv
  <2>2. shown' = <<>>
    <3>1. shown = <<>> /\ buf = <<>>
      BY <1>1, <2>1 DEF DockerInv
    <3> QED
      BY <1>3, <1>4, <3>1, ConcatEmptySeq
  <2> QED
    BY <1>1, <1>2, <1>3, <2>2 DEF DockerInv
<1> QED
  BY <1>7, <1>8, <1>9, <1>10, <1>11, <1>12, <1>13 DEF LogIInv

-------------------------------------------------------------------------------
(* The files                                                                   *)

LEMMA DayEndsKeeps ==
  ASSUME LogIInv, DayEnds
  PROVE  LogIInv'
<1>1. LogTypeOK /\ PairInv /\ FilesInv /\ HostOrder /\ PipesInv /\ HostApart /\ HostAll /\ DockerInv
  BY DEF LogIInv
<1>2. UNCHANGED <<kind, stream, removed, written, process, pipe, scanner, buf, collector, file, rotated, viewer,
                  shown, lost, skipped, views, rotations>>
      /\ day < MaxDay /\ day' = day + 1
  BY DEF DayEnds, Source, History
<1>3. day' \in Day /\ \A d \in Day : d > day' => d > day
  <2>1. MaxDay \in Nat /\ day \in 0..MaxDay
    BY <1>1, Bounds DEF LogTypeOK, Day
  <2> QED
    BY <1>2, <2>1 DEF Day
<1>4. LogTypeOK'
  BY <1>1, <1>2, <1>3 DEF LogTypeOK
<1>5. PairInv' /\ FilesInv' /\ HostOrder' /\ HostApart'
  BY <1>1, <1>2, <1>3 DEF PairInv, FilesInv, HostOrder, HostApart
<1>6. PipesInv'
  BY <1>1, <1>2 DEF PipesInv, StreamOf
<1>7. HostAll' /\ DockerInv'
  <2>1. InFiles' = InFiles /\ InPipes' = InPipes
    BY <1>2, FilesStay, PipesStay
  <2> QED
    BY <1>1, <1>2, <2>1 DEF HostAll, DockerInv, OnTheWay
<1> QED
  BY <1>4, <1>5, <1>6, <1>7 DEF LogIInv

\* On the host no two files hold the same.
LEMMA FilesApart ==
  ASSUME LogIInv, kind = "host", NEW d \in Day, NEW e \in Day
  PROVE  /\ ToSet(file[d]) \cap ToSet(rotated[e]) = {}
         /\ d # e => /\ ToSet(file[d]) \cap ToSet(file[e]) = {}
                     /\ ToSet(rotated[d]) \cap ToSet(rotated[e]) = {}
<1>1. HostApart /\ FilesInv
  BY DEF LogIInv
<1>2. d # e => d < e \/ e < d
  BY Bounds DEF Day
<1>3. ToSet(file[d]) \subseteq Nat /\ ToSet(file[e]) \subseteq Nat
  BY Held
<1>4. d # e => ToSet(file[d]) \cap ToSet(file[e]) = {}
  <2>1. CASE d < e
    BY <1>1, <1>3, <2>1, BeforeApart DEF FilesInv
  <2>2. CASE e < d
    <3>1. ToSet(file[e]) \cap ToSet(file[d]) = {}
      BY <1>1, <1>3, <2>2, BeforeApart DEF FilesInv
    <3> QED
      BY <3>1
  <2> QED
    BY <1>2, <2>1, <2>2
<1> QED
  BY <1>1, <1>4 DEF HostApart, Apart

\* Rotate takes no more out of the files than it counts as lost.
LEMMA RotateSets ==
  ASSUME LogIInv, Rotate
  PROVE  /\ InFiles' \subseteq InFiles /\ lost \subseteq lost'
         /\ InFiles' \cup lost' = InFiles \cup lost
         /\ kind = "host" => InFiles' \cap (lost' \ lost) = {}
         /\ lost' \subseteq lost \cup InFiles
<1>1. /\ rotated' = [d \in Day |-> IF d \in rotateFile THEN file[d] ELSE rotated[d]]
      /\ file' = [d \in Day |-> IF d \in rotateFile \cup cleanupOldLogs THEN <<>> ELSE file[d]]
      /\ lost' = lost \cup (UNION {ToSet(rotated[d]) : d \in rotateFile})
                      \cup (UNION {ToSet(file[d]) : d \in cleanupOldLogs})
  BY DEF Rotate
<1>2. rotateFile \subseteq Day /\ cleanupOldLogs \subseteq Day /\ rotateFile \cap cleanupOldLogs = {}
  BY DEF rotateFile, cleanupOldLogs
<1>3. ToSet(<<>>) = {}
  BY SmallSeqs
<1>4. \A d \in Day : /\ d \in rotateFile => ToSet(rotated'[d]) = ToSet(file[d]) /\ ToSet(file'[d]) = {}
                     /\ d \in cleanupOldLogs => ToSet(rotated'[d]) = ToSet(rotated[d]) /\ ToSet(file'[d]) = {}
                     /\ d \notin rotateFile \cup cleanupOldLogs
                          => ToSet(rotated'[d]) = ToSet(rotated[d]) /\ ToSet(file'[d]) = ToSet(file[d])
  BY <1>1, <1>2, <1>3
<1>5. \A x : /\ x \in InFiles <=> \E d \in Day : x \in ToSet(file[d]) \/ x \in ToSet(rotated[d])
             /\ x \in InFiles' <=> \E d \in Day : x \in ToSet(file'[d]) \/ x \in ToSet(rotated'[d])
  BY DEF InFiles
<1>6. \A x : x \in lost' <=> \/ x \in lost
                             \/ \E d \in rotateFile : x \in ToSet(rotated[d])
                             \/ \E d \in cleanupOldLogs : x \in ToSet(file[d])
  <2> DEFINE A == UNION {ToSet(rotated[d]) : d \in rotateFile}
             B == UNION {ToSet(file[d]) : d \in cleanupOldLogs}
  <2>1. \A x : x \in A <=> \E d \in rotateFile : x \in ToSet(rotated[d])
    OBVIOUS
  <2>2. \A x : x \in B <=> \E d \in cleanupOldLogs : x \in ToSet(file[d])
    OBVIOUS
  <2>3. lost' = lost \cup A \cup B
    BY <1>1
  <2> HIDE DEF A, B
  <2> QED
    BY <2>1, <2>2, <2>3
<1>7. InFiles' \subseteq InFiles
  BY <1>2, <1>4, <1>5
<1>8. lost' \subseteq lost \cup InFiles /\ lost \subseteq lost'
  BY <1>2, <1>5, <1>6
<1>9. InFiles \subseteq InFiles' \cup lost'
  <2>1. SUFFICES ASSUME NEW x, NEW d \in Day, x \in ToSet(file[d]) \/ x \in ToSet(rotated[d])
                 PROVE  x \in InFiles' \/ x \in lost'
    BY <1>5
  <2>2. CASE d \in rotateFile
    BY <1>4, <1>5, <1>6, <2>1, <2>2
  <2>3. CASE d \in cleanupOldLogs
    BY <1>4, <1>5, <1>6, <2>1, <2>3
  <2>4. CASE d \notin rotateFile \cup cleanupOldLogs
    BY <1>4, <1>5, <2>1, <2>4
  <2> QED
    BY <2>2, <2>3, <2>4
<1>10. ASSUME kind = "host", NEW x, x \in InFiles', x \in lost', x \notin lost PROVE FALSE
  <2>1. PICK e \in Day : x \in ToSet(file'[e]) \/ x \in ToSet(rotated'[e])
    BY <1>5, <1>10
  <2>2. \/ /\ e \in rotateFile /\ x \in ToSet(file[e])
        \/ /\ e \notin rotateFile /\ x \in ToSet(rotated[e])
        \/ /\ e \notin rotateFile \cup cleanupOldLogs /\ x \in ToSet(file[e])
    BY <1>2, <1>4, <2>1
  <2>3. CASE \E d \in rotateFile : x \in ToSet(rotated[d])
    <3>1. PICK d \in rotateFile : x \in ToSet(rotated[d])
      BY <2>3
    <3>2. d \in Day /\ ToSet(file[e]) \cap ToSet(rotated[d]) = {}
          /\ (d # e => ToSet(rotated[d]) \cap ToSet(rotated[e]) = {})
      BY <1>2, <1>10, FilesApart
    <3> QED
      BY <2>2, <3>1, <3>2
  <2>4. CASE \E d \in cleanupOldLogs : x \in ToSet(file[d])
    <3>1. PICK d \in cleanupOldLogs : x \in ToSet(file[d])
      BY <2>4
    <3>2. d \in Day /\ ToSet(file[d]) \cap ToSet(rotated[e]) = {}
          /\ (d # e => ToSet(file[d]) \cap ToSet(file[e]) = {})
      BY <1>2, <1>10, FilesApart
    <3> QED
      BY <1>2, <2>2, <3>1, <3>2
  <2> QED
    BY <1>6, <1>10, <2>3, <2>4
<1> QED
  BY <1>7, <1>8, <1>9, <1>10

LEMMA RotateKeeps ==
  ASSUME LogIInv, Rotate
  PROVE  LogIInv'
<1>1. LogTypeOK /\ PairInv /\ FilesInv /\ HostOrder /\ PipesInv /\ HostApart /\ HostAll /\ DockerInv
  BY DEF LogIInv
<1>2. /\ UNCHANGED <<kind, stream, removed, written, process, pipe, scanner, buf, collector, day, viewer, shown,
                     skipped, views>>
      /\ rotations < MaxRotations /\ rotations' = rotations + 1
      /\ rotated' = [d \in Day |-> IF d \in rotateFile THEN file[d] ELSE rotated[d]]
      /\ file' = [d \in Day |-> IF d \in rotateFile \cup cleanupOldLogs THEN <<>> ELSE file[d]]
  BY DEF Rotate, Source
<1>3. /\ InFiles' \subseteq InFiles /\ lost \subseteq lost' /\ lost' \subseteq lost \cup InFiles
      /\ InFiles' \cup lost' = InFiles \cup lost
      /\ kind = "host" => InFiles' \cap (lost' \ lost) = {}
  BY RotateSets
<1>4. \A d \in Day : (rotated'[d] = rotated[d] \/ (d \in rotateFile /\ rotated'[d] = file[d]))
                     /\ (file'[d] = <<>> \/ (d \notin rotateFile /\ file'[d] = file[d]))
  BY <1>2
<1>5. \A d \in Day : rotated'[d] = file[d] \/ (d \notin rotateFile /\ rotated'[d] = rotated[d])
  BY <1>2
<1>6. LogTypeOK'
  <2>1. \A d \in Day : file[d] \in Seq(Token) /\ rotated[d] \in Seq(Token) /\ <<>> \in Seq(Token)
    BY <1>1, Nothing DEF LogTypeOK
  <2>2. file' \in [Day -> Seq(Token)] /\ rotated' \in [Day -> Seq(Token)]
    BY <1>2, <2>1
  <2>3. rotations' \in 0..MaxRotations
    <3>1. MaxRotations \in Nat
      BY Bounds
    <3> QED
      BY <1>1, <1>2, <3>1 DEF LogTypeOK
  <2>4. lost' \subseteq Token
    BY <1>1, <1>3, Held DEF LogTypeOK
  <2> QED
    BY <1>1, <1>2, <2>2, <2>3, <2>4 DEF LogTypeOK
<1>7. PairInv'
  BY <1>1, <1>2 DEF PairInv
<1>8. FilesInv'
  <2>1. \A s : s = <<>> => Ordered(kind, stream, s) /\ \A t : Before(kind, stream, s, t) /\ Before(kind, stream, t, s)
    BY Nothing
  <2>2. \A d \in Day : Ordered(kind, stream, file'[d]) /\ Before(kind, stream, file'[d], collector.batch)
    BY <1>1, <1>4, <2>1 DEF FilesInv
  <2>3. \A d, e \in Day : d < e => Before(kind, stream, file'[d], file'[e])
    BY <1>1, <1>4, <2>1 DEF FilesInv
  <2>4. \A d \in Day : d > day => file'[d] = <<>>
    BY <1>1, <1>4 DEF FilesInv
  <2> QED
    BY <1>1, <1>2, <2>2, <2>3, <2>4 DEF FilesInv
<1>9. HostOrder'
  <2>1. SUFFICES ASSUME kind = "host" PROVE HostOrder'
    BY <1>2 DEF HostOrder
  <2>2. \A s : s = <<>> => \A t : Before(kind, stream, s, t)
    BY Nothing
  <2>3. \A d \in Day : Ordered(kind, stream, rotated'[d]) /\ Before(kind, stream, rotated'[d], collector.batch)
    BY <1>1, <1>4, <2>1 DEF HostOrder, FilesInv
  <2>4. \A d \in Day : Before(kind, stream, file'[d], buf) /\ Before(kind, stream, rotated'[d], buf)
    BY <1>1, <1>4, <2>1, <2>2 DEF HostOrder
  <2> QED
    BY <1>1, <1>2, <2>1, <2>3, <2>4 DEF HostOrder
<1>10. PipesInv'
  <2>1. SUFFICES ASSUME kind = "host" PROVE PipesInv'
    BY <1>2 DEF PipesInv
  <2>2. \A s : s = <<>> => \A t : Before(kind, stream, s, t)
    BY Nothing
  <2>3. \A d \in Day, s \in Stream :
          Before(kind, stream, file'[d], pipe[s]) /\ Before(kind, stream, rotated'[d], pipe[s])
    BY <1>1, <1>4, <2>1, <2>2 DEF PipesInv
  <2> QED
    BY <1>1, <1>2, <2>1, <2>3 DEF PipesInv, StreamOf
<1>11. HostApart'
  <2>1. SUFFICES ASSUME kind = "host" PROVE HostApart'
    BY <1>2 DEF HostApart
  <2>2. \A s, t : s = <<>> \/ t = <<>> => Apart(s, t)
    BY Nothing DEF Apart
  <2>3. \A d \in Day : Apart(shown, file'[d]) /\ Apart(shown, rotated'[d])
    BY <1>1, <1>4, <2>1, <2>2 DEF HostApart
  <2>4. \A d, e \in Day : /\ Apart(file[d], rotated[e])
                          /\ d # e => Apart(file[d], file[e]) /\ Apart(rotated[d], rotated[e])
    BY <2>1, FilesApart DEF Apart
  <2>5. \A d, e \in Day : Apart(file'[d], rotated'[e])
    BY <1>4, <2>2, <2>4
  <2>6. \A d, e \in Day : d # e => Apart(rotated'[d], rotated'[e])
    <3>1. \A s, t : Apart(s, t) => Apart(t, s)
      BY DEF Apart
    <3> QED
      BY <1>4, <2>4, <3>1
  <2> QED
    BY <1>1, <1>2, <2>1, <2>3, <2>5, <2>6 DEF HostApart
<1>12. HostAll'
  <2>1. SUFFICES ASSUME kind = "host" PROVE HostAll'
    BY <1>2 DEF HostAll
  <2>2. OnTheWay' = OnTheWay
    BY <1>2, PipesStay DEF OnTheWay
  <2>3. InFiles \cap OnTheWay = {}
    BY <2>1, AllApart
  <2>4. (InFiles \cup OnTheWay) \cap lost = {} /\ InFiles \cup OnTheWay \cup lost = 1..(2 * written)
    BY <1>1, <2>1 DEF HostAll
  <2>5. InFiles' \cup OnTheWay' \cup lost' = 1..(2 * written')
    BY <1>2, <1>3, <2>2, <2>4
  <2>6. (InFiles' \cup OnTheWay') \cap lost' = {}
    BY <1>3, <2>1, <2>2, <2>3, <2>4
  <2> QED
    BY <2>5, <2>6 DEF HostAll
<1>13. DockerInv'
  <2>1. lost' = {} => lost = {} /\ InFiles' = InFiles
    BY <1>3
  <2> QED
    BY <1>1, <1>2, <1>3, <2>1 DEF DockerInv
<1> QED
  BY <1>6, <1>7, <1>8, <1>9, <1>10, <1>11, <1>12, <1>13 DEF LogIInv

\* All that is in the files, each piece once on the host.
LEMMA StoredIs ==
  ASSUME LogIInv
  PROVE  /\ Stored \in Seq(Token) /\ ToSet(Stored) = InFiles
         /\ kind = "host" => OneEach(Stored)
<1> DEFINE N == MaxDay + 1
           q == [k \in 1..N |-> rotated[k - 1] \o file[k - 1]]
<1>1. N \in Nat \ {0} /\ \A k \in 1..N : k - 1 \in Day
  BY Bounds DEF Day
<1>2. \A d \in Day : file[d] \in Seq(Token) /\ rotated[d] \in Seq(Token)
  BY DEF LogIInv, LogTypeOK
<1>3. \A d \in Day : rotated[d] \o file[d] \in Seq(Token)
                     /\ ToSet(rotated[d] \o file[d]) = ToSet(rotated[d]) \cup ToSet(file[d])
  BY <1>2, Joined
<1>4. Stored = FlattenSeq(q)
  BY DEF Stored
<1>5. DOMAIN q = 1..N /\ \A k \in 1..N : q[k] = rotated[k - 1] \o file[k - 1]
  OBVIOUS
<1>6. q \in Seq(Seq(Token)) /\ Len(q) = N
  <2>1. \A k \in 1..N : rotated[k - 1] \o file[k - 1] \in Seq(Token)
    BY <1>1, <1>3
  <2>2. q \in [1..N -> Seq(Token)]
    BY <2>1
  <2> HIDE DEF N, q
  <2>3. q \in Seq(Seq(Token))
    BY <1>1, <2>2, SeqDef
  <2> QED
    BY <1>1, <1>5, <2>3, LenProperties
<1> HIDE DEF q
<1>7. Stored \in Seq(Token) /\ ToSet(Stored) = Within(q, N)
  <2> HIDE DEF N
  <2> QED
    BY <1>1, <1>4, <1>6, FlattenElements
<1>8. \A k \in 1..N : ToSet(q[k]) = ToSet(rotated[k - 1]) \cup ToSet(file[k - 1])
  BY <1>1, <1>3, <1>5
<1>9. Within(q, N) = InFiles
  <2>1. \A x : x \in Within(q, N) <=> \E k \in 1..N : x \in ToSet(q[k])
    BY DEF Within
  <2>2. \A x : x \in InFiles <=> \E d \in Day : x \in ToSet(file[d]) \cup ToSet(rotated[d])
    BY DEF InFiles
  <2>3. ASSUME NEW x \in InFiles PROVE x \in Within(q, N)
    <3>1. PICK d \in Day : x \in ToSet(file[d]) \cup ToSet(rotated[d])
      BY <2>2
    <3>2. d + 1 \in 1..N /\ (d + 1) - 1 = d
      BY Bounds DEF Day
    <3>3. ToSet(q[d + 1]) = ToSet(rotated[d]) \cup ToSet(file[d])
      BY <1>8, <3>2
    <3> QED
      BY <2>1, <3>1, <3>2, <3>3
  <2>4. ASSUME NEW x \in Within(q, N) PROVE x \in InFiles
    <3>1. PICK k \in 1..N : x \in ToSet(q[k])
      BY <2>1
    <3>2. k - 1 \in Day /\ x \in ToSet(file[k - 1]) \cup ToSet(rotated[k - 1])
      BY <1>1, <1>8, <3>1
    <3> QED
      BY <2>2, <3>2
  <2> QED
    BY <2>3, <2>4
<1>10. ASSUME kind = "host" PROVE OneEach(Stored)
  <2>1. ASSUME NEW s \in Seq(Token), Ordered(kind, stream, s) PROVE OneEach(s)
    <3>1. \A i \in DOMAIN s : s[i] \in Nat
      BY NatSeq
    <3>2. \A i, j \in DOMAIN s : i < j \/ j < i \/ i = j
      OBVIOUS
    <3> QED
      BY <1>10, <2>1, <3>1, <3>2 DEF Ordered, Follows, OneEach
  <2>2. \A d \in Day : OneEach(file[d]) /\ OneEach(rotated[d])
    BY <1>2, <1>10, <2>1 DEF LogIInv, FilesInv, HostOrder
  <2>3. \A d \in Day : OneEach(rotated[d] \o file[d])
    <3>1. SUFFICES ASSUME NEW d \in Day PROVE OneEach(rotated[d] \o file[d])
      OBVIOUS
    <3>2. ToSet(rotated[d]) \cap ToSet(file[d]) = {}
      BY <1>10, FilesApart
    <3> QED
      BY <1>2, <2>2, <3>2, OneEachConcat
  <2>4. \A k \in 1..N : OneEach(q[k])
    BY <1>1, <1>5, <2>3
  <2>5. ASSUME NEW i \in 1..N, NEW j \in 1..N, i # j PROVE ToSet(q[i]) \cap ToSet(q[j]) = {}
    <3> DEFINE d == i - 1
               e == j - 1
    <3>1. d \in Day /\ e \in Day /\ d # e
      BY <1>1, <2>5
    <3>2. ToSet(q[i]) = ToSet(rotated[d]) \cup ToSet(file[d]) /\ ToSet(q[j]) = ToSet(rotated[e]) \cup ToSet(file[e])
      BY <1>8
    <3> HIDE DEF d, e
    <3>3. ToSet(file[d]) \cap ToSet(rotated[e]) = {} /\ ToSet(file[e]) \cap ToSet(rotated[d]) = {}
          /\ ToSet(file[d]) \cap ToSet(file[e]) = {} /\ ToSet(rotated[d]) \cap ToSet(rotated[e]) = {}
      BY <1>10, <3>1, FilesApart
    <3> QED
      BY <3>2, <3>3
  <2> HIDE DEF N
  <2>6. OneEach(FlattenSeq(q))
    BY <1>1, <1>6, <2>4, <2>5, FlattenOneEach
  <2> QED
    BY <1>4, <2>6
<1> QED
  BY <1>7, <1>9, <1>10

LEMMA ClearKeeps ==
  ASSUME LogIInv, Clear
  PROVE  LogIInv'
<1>1. LogTypeOK /\ PairInv /\ FilesInv /\ HostOrder /\ PipesInv /\ HostApart /\ HostAll /\ DockerInv
  BY DEF LogIInv
<1>2. /\ UNCHANGED <<kind, stream, removed, written, process, pipe, scanner, buf, collector, day, viewer, shown,
                     skipped, views>>
      /\ rotations < MaxRotations /\ rotations' = rotations + 1
      /\ rotated' = [d \in Day |-> <<>>] /\ file' = [d \in Day |-> <<>>]
      /\ lost' = lost \cup InFiles
  BY StoredIs DEF Clear, Source
<1>3. \A d \in Day : file'[d] = <<>> /\ rotated'[d] = <<>>
  BY <1>2
<1>4. \A s : s = <<>> => /\ s \in Seq(Token) /\ ToSet(s) = {}
                         /\ \A k, f : Ordered(k, f, s) /\ \A t : Before(k, f, s, t) /\ Before(k, f, t, s)
                         /\ \A t : Apart(s, t) /\ Apart(t, s)
  BY Nothing DEF Apart
<1>5. InFiles' = {}
  BY <1>3, <1>4 DEF InFiles
<1>6. LogTypeOK'
  <2>1. file' \in [Day -> Seq(Token)] /\ rotated' \in [Day -> Seq(Token)]
    BY <1>2, <1>4
  <2>2. rotations' \in 0..MaxRotations
    <3>1. MaxRotations \in Nat
      BY Bounds
    <3> QED
      BY <1>1, <1>2, <3>1 DEF LogTypeOK
  <2>3. lost' \subseteq Token
    BY <1>1, <1>2, Held DEF LogTypeOK
  <2> QED
    BY <1>1, <1>2, <2>1, <2>2, <2>3 DEF LogTypeOK
<1>7. PairInv'
  BY <1>1, <1>2 DEF PairInv
<1>8. FilesInv'
  BY <1>1, <1>2, <1>3, <1>4 DEF FilesInv
<1>9. HostOrder'
  BY <1>1, <1>2, <1>3, <1>4 DEF HostOrder
<1>10. PipesInv'
  BY <1>1, <1>2, <1>3, <1>4 DEF PipesInv, StreamOf
<1>11. HostApart'
  BY <1>1, <1>2, <1>3, <1>4 DEF HostApart
<1>12. HostAll'
  <2>1. SUFFICES ASSUME kind = "host" PROVE HostAll'
    BY <1>2 DEF HostAll
  <2>2. OnTheWay' = OnTheWay
    BY <1>2, PipesStay DEF OnTheWay
  <2>3. InFiles \cap OnTheWay = {}
    BY <2>1, AllApart
  <2>4. (InFiles \cup OnTheWay) \cap lost = {} /\ InFiles \cup OnTheWay \cup lost = 1..(2 * written)
    BY <1>1, <2>1 DEF HostAll
  <2>5. InFiles' \cup OnTheWay' \cup lost' = 1..(2 * written')
    BY <1>2, <1>5, <2>2, <2>4
  <2>6. (InFiles' \cup OnTheWay') \cap lost' = {}
    BY <1>2, <1>5, <2>2, <2>3, <2>4
  <2> QED
    BY <2>5, <2>6 DEF HostAll
<1>13. DockerInv'
  <2>1. lost' = {} => lost = {} /\ InFiles' = InFiles
    BY <1>2, <1>5
  <2>2. InFiles' \subseteq InFiles
    BY <1>5
  <2> QED
    BY <1>1, <1>2, <2>1, <2>2 DEF DockerInv
<1> QED
  BY <1>6, <1>7, <1>8, <1>9, <1>10, <1>11, <1>12, <1>13 DEF LogIInv

LEMMA LogInitially ==
  ASSUME LogInit
  PROVE  LogIInv
<1>1. /\ kind \in {"host", "docker"} /\ stream \in [1..MaxLines -> Stream]
      /\ written = 0 /\ process = "up" /\ removed = FALSE /\ buf = <<>>
      /\ pipe = [s \in Stream |-> <<>>] /\ scanner = [s \in Stream |-> "on"]
      /\ collector = [pc |-> "idle", batch |-> <<>>, last |-> 0, done |-> FALSE]
      /\ day = 0 /\ file = [d \in Day |-> <<>>] /\ rotated = [d \in Day |-> <<>>]
      /\ viewer = FALSE /\ shown = <<>> /\ lost = {} /\ skipped = FALSE
      /\ views = 0 /\ rotations = 0
  BY LogAssumption DEF LogInit
<1>2. \A s : s = <<>> => /\ s \in Seq(Token) /\ ToSet(s) = {} /\ Len(s) = 0
                         /\ \A k, f : Ordered(k, f, s) /\ \A t : Before(k, f, s, t) /\ Before(k, f, t, s)
                         /\ \A t : Apart(s, t) /\ Apart(t, s)
  BY Nothing DEF Apart
<1>3. collector.batch = <<>> /\ collector.pc = "idle" /\ collector.last = 0
  BY <1>1
<1>4. \A d \in Day : file[d] = <<>> /\ rotated[d] = <<>>
  BY <1>1
<1>5. \A s \in Stream : pipe[s] = <<>>
  BY <1>1
<1>6. InFiles = {} /\ OnTheWay = {}
  BY <1>1, <1>2, <1>3, <1>4, <1>5 DEF InFiles, InPipes, OnTheWay
<1>7. LogTypeOK
  <2>1. MaxLines \in Nat /\ PipeMax \in Nat /\ BufMax \in Nat /\ MaxDay \in Nat /\ MaxViews \in Nat
        /\ MaxRotations \in Nat
    BY Bounds
  <2>2. 0 \in Day /\ 0 \in 0..MaxLines /\ 0 \in 0..MaxViews /\ 0 \in 0..MaxRotations
    BY <2>1 DEF Day
  <2>3. pipe \in [Stream -> Seq(Token)] /\ \A s \in Stream : Len(pipe[s]) <= PipeMax
    BY <1>1, <1>2, <1>5, <2>1
  <2>4. buf \in Seq(Token) /\ Len(buf) <= BufMax
        /\ shown \in Seq(Token)
    BY <1>1, <1>2, <2>1
  <2>5. file \in [Day -> Seq(Token)] /\ rotated \in [Day -> Seq(Token)]
    BY <1>1, <1>2
  <2>6. collector \in [pc : {"idle", "open", "peeked", "append", "ended"}, batch : Seq(Token),
                       last : 0..MaxLines, done : BOOLEAN]
    BY <1>1, <1>2, <2>2
  <2> QED
    BY <1>1, <2>2, <2>3, <2>4, <2>5, <2>6 DEF LogTypeOK
<1>8. PairInv
  <2>1. \A s \in Stream : Len(pipe[s]) = 2 * 0 /\ 0 \in Nat
    BY <1>2, <1>5
  <2> QED
    BY <1>3, <2>1 DEF PairInv
<1>9. FilesInv
  BY <1>2, <1>3, <1>4 DEF FilesInv
<1>10. HostOrder /\ PipesInv
  BY <1>1, <1>2, <1>3, <1>4, <1>5 DEF HostOrder, PipesInv
<1>11. HostApart
  BY <1>1, <1>2, <1>4 DEF HostApart
<1>12. HostAll /\ DockerInv
  <2>1. 1..(2 * 0) = {}
    OBVIOUS
  <2>2. ToSet(collector.batch) = {}
    BY <1>2, <1>3
  <2> QED
    BY <1>1, <1>3, <1>5, <1>6, <2>1, <2>2 DEF HostAll, DockerInv
<1> QED
  BY <1>7, <1>8, <1>9, <1>10, <1>11, <1>12 DEF LogIInv

-------------------------------------------------------------------------------
(* The theorems                                                                *)

LEMMA LogStep ==
  ASSUME LogIInv, [LogNext]_logVars
  PROVE  LogIInv'
<1>1. CASE UNCHANGED logVars
  <2>1. UNCHANGED <<kind, stream, removed, written, process, pipe, scanner, buf, collector, day, file, rotated,
                    viewer, shown, lost, skipped, views, rotations>>
    BY <1>1 DEF logVars
  <2>2. LogTypeOK'
    BY <2>1 DEF LogIInv, LogTypeOK
  <2>3. PairInv' /\ FilesInv' /\ HostApart'
    BY <2>1 DEF LogIInv, PairInv, FilesInv, HostApart
  <2>4. HostOrder' /\ PipesInv'
    BY <2>1 DEF LogIInv, HostOrder, PipesInv, StreamOf
  <2>5. HostAll' /\ DockerInv'
    <3>1. InFiles' = InFiles /\ InPipes' = InPipes
      BY <2>1, FilesStay, PipesStay
    <3> QED
      BY <2>1, <3>1 DEF LogIInv, HostAll, DockerInv, OnTheWay
  <2> QED
    BY <2>2, <2>3, <2>4, <2>5 DEF LogIInv
<1>2. CASE Write
  BY <1>2, WriteKeeps
<1>3. CASE \E s \in Stream : Scan(s) \/ ScanTooLong(s)
  BY <1>3, ScanKeeps, ScanTooLongKeeps
<1>4. CASE RemoveContainer
  BY <1>4, RemoveContainerKeeps
<1>5. CASE ProcessEnds
  BY <1>5, ProcessEndsKeeps
<1>6. CASE WaitReturns
  BY <1>6, WaitReturnsKeeps
<1>7. CASE Collect
  <2>1. CASE Peek
    <3>1. CASE buf = <<>>
      BY <2>1, <3>1, StopKeeps
    <3>2. CASE buf # <<>>
      BY <2>1, <3>2, PeekKeeps
    <3> QED
      BY <3>1, <3>2
  <2>2. CASE ReadAll
    BY <2>2, ReadAllKeeps
  <2>3. CASE Poll
    BY <2>3, PollKeeps
  <2>4. CASE AppendBatch
    BY <2>4, AppendBatchKeeps
  <2>5. CASE AppendFails
    BY <2>5, AppendFailsKeeps
  <2>6. CASE CollectorEnds
    BY <2>6, StopKeeps
  <2>7. CASE Open
    BY <2>7, StopKeeps
  <2> QED
    BY <1>7, <2>1, <2>2, <2>3, <2>4, <2>5, <2>6, <2>7 DEF Collect
<1>8. CASE StopCollector
  BY <1>8, StopKeeps
<1>9. CASE View
  BY <1>9, ViewKeeps
<1>10. CASE ViewRead
  BY <1>10, ViewReadKeeps
<1>11. CASE DayEnds
  BY <1>11, DayEndsKeeps
<1>12. CASE Rotate
  BY <1>12, RotateKeeps
<1>13. CASE Clear
  BY <1>13, ClearKeeps
<1>14. CASE ViewFails
  BY <1>14, ViewFailsKeeps
<1> QED
  BY <1>1, <1>2, <1>3, <1>4, <1>5, <1>6, <1>7, <1>8, <1>9, <1>10, <1>11, <1>12, <1>13, <1>14 DEF LogNext

\* Order and place of every piece of output, from the process to the files, hold in
\* every state.
THEOREM LogInvariance == LogSpec => []LogIInv
<1>1. LogInit => LogIInv
  BY LogInitially
<1>2. LogIInv /\ [LogNext]_logVars => LogIInv'
  BY LogStep
<1> QED
  BY <1>1, <1>2, PTL DEF LogSpec

\* All that is anywhere, each piece once on the host.
LEMMA PlacesIs ==
  ASSUME LogIInv
  PROVE  /\ Places \in Seq(Token) /\ ToSet(Places) = InFiles \cup OnTheWay
         /\ kind = "host" => OneEach(Places)
<1> DEFINE s1 == Stored \o shown
           s2 == s1 \o collector.batch
           s3 == s2 \o buf
           s4 == s3 \o pipe["stdout"]
<1>1. /\ Stored \in Seq(Token) /\ shown \in Seq(Token) /\ collector.batch \in Seq(Token)
      /\ buf \in Seq(Token) /\ pipe["stdout"] \in Seq(Token) /\ pipe["stderr"] \in Seq(Token)
      /\ ToSet(Stored) = InFiles
      /\ kind = "host" => OneEach(Stored)
  BY StoredIs DEF LogIInv, LogTypeOK, Stream
<1>2. ASSUME NEW s \in Seq(Token), Ordered(kind, stream, s), kind = "host" PROVE OneEach(s)
  <2>1. \A i \in DOMAIN s : s[i] \in Nat
    BY NatSeq
  <2>2. \A i, j \in DOMAIN s : i < j \/ j < i \/ i = j
    OBVIOUS
  <2> QED
    BY <1>2, <2>1, <2>2 DEF Ordered, Follows, OneEach
<1>3. kind = "host" => OneEach(shown) /\ OneEach(collector.batch) /\ OneEach(buf)
                       /\ OneEach(pipe["stdout"]) /\ OneEach(pipe["stderr"])
  BY <1>1, <1>2 DEF LogIInv, HostOrder, PipesInv, FilesInv, Stream
<1>4. /\ s1 \in Seq(Token) /\ ToSet(s1) = InFiles \cup ToSet(shown)
      /\ kind = "host" => OneEach(s1)
  <2>1. kind = "host" => InFiles \cap ToSet(shown) = {}
    BY AllApart DEF OnTheWay
  <2> QED
    BY <1>1, <1>3, <2>1, Joined, OneEachConcat
<1> HIDE DEF s1
<1>5. /\ s2 \in Seq(Token) /\ ToSet(s2) = InFiles \cup ToSet(shown) \cup ToSet(collector.batch)
      /\ kind = "host" => OneEach(s2)
  <2>1. kind = "host" => ToSet(s1) \cap ToSet(collector.batch) = {}
    BY <1>4, AllApart DEF OnTheWay
  <2> QED
    BY <1>1, <1>3, <1>4, <2>1, Joined, OneEachConcat
<1> HIDE DEF s2
<1>6. /\ s3 \in Seq(Token)
      /\ ToSet(s3) = InFiles \cup ToSet(shown) \cup ToSet(collector.batch) \cup ToSet(buf)
      /\ kind = "host" => OneEach(s3)
  <2>1. kind = "host" => ToSet(s2) \cap ToSet(buf) = {}
    BY <1>5, AllApart DEF OnTheWay
  <2> QED
    BY <1>1, <1>3, <1>5, <2>1, Joined, OneEachConcat
<1> HIDE DEF s3
<1>7. InPipes = ToSet(pipe["stdout"]) \cup ToSet(pipe["stderr"])
  BY DEF InPipes, Stream
<1>8. /\ s4 \in Seq(Token) /\ ToSet(s4) = ToSet(s3) \cup ToSet(pipe["stdout"])
      /\ kind = "host" => OneEach(s4)
  <2>1. kind = "host" => ToSet(s3) \cap ToSet(pipe["stdout"]) = {}
    BY <1>6, <1>7, AllApart DEF OnTheWay
  <2> QED
    BY <1>1, <1>3, <1>6, <2>1, Joined, OneEachConcat
<1> HIDE DEF s4
<1>9. kind = "host" => ToSet(s4) \cap ToSet(pipe["stderr"]) = {}
  <2>1. kind = "host" => ToSet(pipe["stdout"]) \cap ToSet(pipe["stderr"]) = {}
    BY AllApart DEF Stream
  <2>2. kind = "host" => ToSet(s3) \cap ToSet(pipe["stderr"]) = {}
    BY <1>6, <1>7, AllApart DEF OnTheWay
  <2> QED
    BY <1>8, <2>1, <2>2
<1>10. s4 \o pipe["stderr"] \in Seq(Token) /\ ToSet(s4 \o pipe["stderr"]) = ToSet(s4) \cup ToSet(pipe["stderr"])
       /\ (kind = "host" => OneEach(s4 \o pipe["stderr"]))
  BY <1>1, <1>3, <1>8, <1>9, Joined, OneEachConcat
<1>11. Places = s4 \o pipe["stderr"]
  BY DEF Places, s1, s2, s3, s4
<1> QED
  BY <1>6, <1>7, <1>8, <1>10, <1>11 DEF OnTheWay

\* On the host every piece of output is in one place, or lost to a cause the code has.
THEOREM LogCorrect == LogSpec => []LogInv
<1>1. LogIInv => LogInv
  <2>1. SUFFICES ASSUME LogIInv, kind = "host", NEW t \in 1..(2 * written)
                 PROVE  Count(t) + (IF t \in lost THEN 1 ELSE 0) = 1
    BY DEF LogInv, LogIInv, Accounted
  <2>2. Places \in Seq(Token) /\ ToSet(Places) = InFiles \cup OnTheWay /\ OneEach(Places)
    BY <2>1, PlacesIs
  <2>3. (InFiles \cup OnTheWay) \cap lost = {} /\ t \in InFiles \cup OnTheWay \cup lost
    BY <2>1 DEF LogIInv, HostAll
  <2> DEFINE K == {k \in DOMAIN Places : Places[k] = t}
  <2>4. Count(t) = Cardinality(K)
    BY DEF Count
  <2>5. CASE t \in lost
    <3>1. t \notin ToSet(Places)
      BY <2>2, <2>3, <2>5
    <3>2. K = {}
      BY <3>1 DEF ToSet
    <3> QED
      BY <2>4, <2>5, <3>2, FS_EmptySet
  <2>6. CASE t \notin lost
    <3>1. t \in ToSet(Places)
      BY <2>2, <2>3, <2>6
    <3>2. PICK k \in DOMAIN Places : Places[k] = t
      BY <3>1 DEF ToSet
    <3>3. K = {k}
      BY <2>2, <3>2 DEF OneEach
    <3>4. Cardinality({k}) = 1
      BY FS_Singleton
    <3> QED
      BY <2>4, <2>6, <3>3, <3>4
  <2> QED
    BY <2>5, <2>6
<1> QED
  BY <1>1, LogInvariance, PTL

\* What is read back of a stream, since any day, is in the order in which it was written.
THEOREM LogReadInOrder == LogSpec => []ReadInOrder
<1>1. LogIInv => ReadInOrder
  <2>1. SUFFICES ASSUME LogIInv, NEW since \in Day
                 PROVE  LET s == Read(since, 0) IN
                        IF kind = "host"
                          THEN \A i, j \in DOMAIN s : i < j /\ StreamOf(s[i]) = StreamOf(s[j]) => s[i] < s[j]
                          ELSE \A i \in 1..(Len(s) - 1) : s[i] < s[i + 1] \/ s[i + 1] \in {s[i], s[i] - 1}
    BY DEF ReadInOrder
  <2> DEFINE N == (MaxDay + 1) - since
             q == [k \in 1..N |-> file[since + k - 1]]
             s == FlattenSeq(q)
  <2>2. N \in Nat \ {0} /\ \A k \in 1..N : since + k - 1 \in Day
    BY Bounds DEF Day
  <2>3. \A d \in Day : file[d] \in Seq(Token) /\ file[d] \in Seq(Nat)
    BY <2>1, NatSeq DEF LogIInv, LogTypeOK
  <2>4. DOMAIN q = 1..N /\ \A k \in 1..N : q[k] = file[since + k - 1]
    OBVIOUS
  <2>5. q \in Seq(Seq(Nat)) /\ q \in Seq(Seq(Token)) /\ Len(q) = N
    <3>1. q \in [1..N -> Seq(Nat)] /\ q \in [1..N -> Seq(Token)]
      BY <2>2, <2>3
    <3> HIDE DEF N, q
    <3>2. q \in Seq(Seq(Nat)) /\ q \in Seq(Seq(Token))
      BY <2>2, <3>1, SeqDef
    <3> QED
      BY <2>2, <2>4, <3>2, LenProperties
  <2>6. Read(since, 0) = s
    BY DEF Read
  <2>7. \A k \in 1..N : Ordered(kind, stream, q[k])
    BY <2>1, <2>2, <2>4 DEF LogIInv, FilesInv
  <2>8. \A i, j \in 1..N : i < j => Before(kind, stream, q[i], q[j])
    <3>1. SUFFICES ASSUME NEW i \in 1..N, NEW j \in 1..N, i < j PROVE Before(kind, stream, q[i], q[j])
      OBVIOUS
    <3>2. since + i - 1 \in Day /\ since + j - 1 \in Day /\ since + i - 1 < since + j - 1
      BY <2>2, <3>1, Bounds DEF Day
    <3> QED
      BY <2>1, <2>4, <3>2 DEF LogIInv, FilesInv
  <2> HIDE DEF N, q
  <2>9. Ordered(kind, stream, s)
    BY <2>2, <2>5, <2>7, <2>8, FlattenOrder
  <2>10. s \in Seq(Nat)
    BY <2>2, <2>5, FlattenElements
  <2> HIDE DEF s
  <2>11. kind \in {"host", "docker"}
    BY <2>1 DEF LogIInv, LogTypeOK
  <2>12. CASE kind = "host"
    <3>1. ASSUME NEW i \in DOMAIN s, NEW j \in DOMAIN s, i < j, StreamOf(s[i]) = StreamOf(s[j]) PROVE s[i] < s[j]
      <4>1. Follows(kind, stream, s[i], s[j])
        BY <2>9, <3>1 DEF Ordered
      <4> QED
        BY <2>12, <3>1, <4>1 DEF Follows, StreamOf
    <3> QED
      BY <2>6, <2>12, <3>1
  <2>13. CASE kind = "docker"
    <3>1. ASSUME NEW i \in 1..(Len(s) - 1) PROVE s[i] < s[i + 1] \/ s[i + 1] \in {s[i], s[i] - 1}
      <4>1. i \in DOMAIN s /\ i + 1 \in DOMAIN s /\ i < i + 1 /\ s[i] \in Nat /\ s[i + 1] \in Nat
        BY <2>10
      <4>2. Follows(kind, stream, s[i], s[i + 1])
        BY <2>9, <4>1 DEF Ordered
      <4> QED
        BY <2>13, <4>1, <4>2 DEF Follows
    <3> QED
      BY <2>6, <2>13, <3>1
  <2> QED
    BY <2>11, <2>12, <2>13
<1> QED
  BY <1>1, LogInvariance, PTL

\* With Docker no line is left out between polls that find no more than they ask for.
THEOREM LogNoGap == LogSpec => []NoGap
<1>1. LogIInv => NoGap
  BY StoredIs DEF NoGap, LogIInv, DockerInv
<1> QED
  BY <1>1, LogInvariance, PTL
=============================================================================
