----------------------------- MODULE StartProofs -----------------------------
(***************************************************************************)
(* What a Start works out before it starts anything: the order of the      *)
(* services and their ports.                                               *)
(*                                                                         *)
(* The dependency graph (KahnGraph) is right on every finite graph: its    *)
(* first Resolve or Reverse returns an order of all names with             *)
(* prerequisites first (or last), or "circular dependency" exactly when    *)
(* there is a cycle.                                                       *)
(*                                                                         *)
(* The ports that `devbox init` writes (ProjectScan) are distinct, services*)
(* move only for others, simple projects validate, and a Start (StartPorts)*)
(* that nobody disturbs gets its ports.                                    *)
(***************************************************************************)
EXTENDS KahnGraph, StartPorts, FiniteSetTheorems, SequenceTheorems,
        WellFoundedInduction, TLAPS

\* ---- Sequences as ordered sets

\* What Append does to the elements of a sequence.
LEMMA AppendElements ==
  ASSUME NEW S, NEW q \in Seq(S), NEW x \in S
  PROVE  /\ Append(q, x) \in Seq(S)
         /\ Range(Append(q, x)) = Range(q) \cup {x}
         /\ IsInjective(q) /\ x \notin Range(q) => IsInjective(Append(q, x))
<1>1. /\ Append(q, x) \in Seq(S) /\ Len(q) \in Nat /\ Len(Append(q, x)) = Len(q) + 1
      /\ \A i \in 1..Len(q) : Append(q, x)[i] = q[i]
      /\ Append(q, x)[Len(q) + 1] = x
      /\ DOMAIN q = 1..Len(q) /\ DOMAIN Append(q, x) = 1..(Len(q) + 1)
  BY AppendProperties, LenProperties
<1>2. \A i \in 1..(Len(q) + 1) : i \in 1..Len(q) \/ i = Len(q) + 1
  BY <1>1
<1>3. Range(Append(q, x)) = Range(q) \cup {x}
  BY <1>1, <1>2 DEF Range
<1>4. ASSUME IsInjective(q), x \notin Range(q)
      PROVE  IsInjective(Append(q, x))
  BY <1>1, <1>2, <1>4 DEF Range, IsInjective
<1>5. QED
  BY <1>1, <1>3, <1>4

\* And what taking the head off does.
LEMMA TailElements ==
  ASSUME NEW S, NEW q \in Seq(S), q # <<>>
  PROVE  /\ Head(q) \in S /\ Tail(q) \in Seq(S)
         /\ Range(q) = {Head(q)} \cup Range(Tail(q))
         /\ IsInjective(q) => IsInjective(Tail(q)) /\ Head(q) \notin Range(Tail(q))
<1>1. /\ Head(q) \in S /\ Tail(q) \in Seq(S) /\ Len(q) \in Nat \ {0}
      /\ Len(Tail(q)) = Len(q) - 1 /\ Head(q) = q[1]
      /\ \A i \in 1..Len(Tail(q)) : Tail(q)[i] = q[i + 1]
      /\ DOMAIN q = 1..Len(q) /\ DOMAIN Tail(q) = 1..(Len(q) - 1)
  BY HeadTailProperties, LenProperties, EmptySeq
<1>2. \A i \in 1..(Len(q) - 1) : i + 1 \in 1..Len(q) /\ i + 1 # 1
  BY <1>1
<1>3. \A i \in 1..Len(q) : i = 1 \/ (i - 1 \in 1..(Len(q) - 1) /\ q[i] = Tail(q)[i - 1])
  BY <1>1
<1>4. 1 \in 1..Len(q)
  BY <1>1
<1>5. Range(q) = {Head(q)} \cup Range(Tail(q))
  <2>1. ASSUME NEW y \in Range(q)
        PROVE  y \in {Head(q)} \cup Range(Tail(q))
    <3>1. PICK i \in 1..Len(q) : y = q[i]
      BY <1>1 DEF Range
    <3>2. CASE i = 1
      BY <1>1, <3>1, <3>2
    <3>3. CASE i - 1 \in 1..(Len(q) - 1) /\ q[i] = Tail(q)[i - 1]
      BY <1>1, <3>1, <3>3 DEF Range
    <3>4. QED
      BY <1>3, <3>2, <3>3
  <2>2. ASSUME NEW y \in Range(Tail(q))
        PROVE  y \in Range(q)
    BY <1>1, <1>2 DEF Range
  <2>3. Head(q) \in Range(q)
    BY <1>1, <1>4 DEF Range
  <2>4. QED
    BY <2>1, <2>2, <2>3
<1>6. ASSUME IsInjective(q)
      PROVE  IsInjective(Tail(q)) /\ Head(q) \notin Range(Tail(q))
  <2>1. \A i, j \in 1..(Len(q) - 1) : Tail(q)[i] = Tail(q)[j] => i = j
    <3>1. \A i, j \in 1..(Len(q) - 1) : q[i + 1] = q[j + 1] => i + 1 = j + 1
      BY <1>1, <1>2, <1>6 DEF IsInjective
    <3>2. QED
      BY <1>1, <3>1
  <2>2. \A i \in 1..(Len(q) - 1) : Tail(q)[i] # q[1]
    BY <1>1, <1>2, <1>4, <1>6 DEF IsInjective
  <2>3. QED
    BY <1>1, <2>1, <2>2 DEF IsInjective, Range
<1>7. QED
  BY <1>1, <1>5, <1>6

\* Without repetitions, the length is the number of elements.
LEMMA LengthCounts ==
  ASSUME NEW S, NEW q \in Seq(S), IsInjective(q)
  PROVE  IsFiniteSet(Range(q)) /\ Cardinality(Range(q)) = Len(q)
<1>1. Len(q) \in Nat /\ DOMAIN q = 1..Len(q) /\ q \in [1..Len(q) -> Range(q)]
  BY LenProperties DEF Range
<1>2. q \in Bijection(1..Len(q), Range(q))
  BY <1>1 DEF Bijection, Injection, Surjection, IsInjective, Range
<1>3. ExistsBijection(1..Len(q), Range(q))
  BY <1>2 DEF ExistsBijection
<1>4. IsFiniteSet(1..Len(q)) /\ Cardinality(1..Len(q)) = Len(q)
  BY <1>1, FS_Interval
<1>5. QED
  BY <1>3, <1>4, FS_Bijection

\* Turning a sequence round twice.
LEMMA BackwardsTwice ==
  ASSUME NEW S, NEW q \in Seq(S)
  PROVE  Abstract!Backwards(q) \in Seq(S) /\ Abstract!Backwards(Abstract!Backwards(q)) = q
<1>1. Len(q) \in Nat /\ q = [i \in 1..Len(q) |-> q[i]] /\ \A i \in 1..Len(q) : q[i] \in S
  BY LenProperties
<1> DEFINE b == [i \in 1..Len(q) |-> q[Len(q) + 1 - i]]
<1>2. \A i \in 1..Len(q) : Len(q) + 1 - i \in 1..Len(q) /\ Len(q) + 1 - (Len(q) + 1 - i) = i
  BY <1>1
<1>3. b \in Seq(S) /\ Len(b) = Len(q)
  BY <1>1, <1>2
<1>4. [i \in 1..Len(b) |-> b[Len(b) + 1 - i]] = q
  BY <1>1, <1>2, <1>3
<1>5. QED
  BY <1>3, <1>4 DEF Abstract!Backwards

\* ---- The inductive invariant

\* An empty graph.
LEMMA InitEstablishes == ASSUME Init PROVE KahnInv
<1>1. /\ Range(<<>>) = {} /\ IsInjective(<<>>) /\ <<>> \in Seq(Node)
  BY DEF Range, IsInjective
<1>2. TypeOK
  <2>1. dependents \in [Node -> Seq(Node)]
    BY <1>1 DEF Init
  <2>2. queue \in Seq(Node) /\ result \in Seq(Node) /\ todo \in Seq(Node)
    BY <1>1 DEF Init
  <2>3. /\ nodes \in [Node -> SUBSET Node] /\ inDegree \in [Node -> Int]
        /\ declared \in SUBSET Node /\ known \in SUBSET Node /\ unseeded \in SUBSET known
    BY DEF Init
  <2>4. pc = "build" /\ reverse = FALSE /\ calls = 0
    BY DEF Init
  <2>5. QED
    BY <2>1, <2>2, <2>3, <2>4 DEF TypeOK
<1>3. GraphInv
  BY <1>1 DEF Init, GraphInv
<1>4. DegreeInv
  <2>1. \A n \in Node : Waiting(n) = {} /\ inDegree[n] = 0
    BY DEF Init, Waiting
  <2>2. QED
    BY <2>1, FS_EmptySet DEF DegreeInv
<1>5. calls <= MaxResolves /\ OrderSound /\ CycleExact
  BY KahnAssumption DEF Init, OrderSound, CycleExact
<1>6. QED
  BY <1>2, <1>3, <1>4, <1>5 DEF Init, KahnInv

\* A prerequisite counts whether it is known already or not.
LEMMA AddNodeKeeps ==
  ASSUME KahnInv, NEW n \in Node, NEW ds \in SUBSET Node, AddNode(n, ds)
  PROVE  KahnInv'
<1>1. /\ TypeOK /\ GraphInv /\ DegreeInv /\ pc = "build" /\ calls = 0
      /\ queue = <<>> /\ result = <<>> /\ todo = <<>> /\ unseeded = {}
      /\ n \notin declared /\ nodes[n] = {}
      /\ UNCHANGED <<pc, reverse, unseeded, queue, result, todo, calls>>
  BY DEF KahnInv, GraphInv, AddNode
<1>2. /\ nodes' \in [Node -> SUBSET Node] /\ nodes'[n] = ds
      /\ \A m \in Node \ {n} : nodes'[m] = nodes[m]
  BY <1>1 DEF TypeOK, AddNode
<1>3. IsFiniteSet(ds) /\ Cardinality(ds) \in Nat
  BY KahnAssumption, FS_Subset, FS_CardinalityType
<1>4. \A m \in Node : Waiting(m) = nodes[m] /\ Waiting(m)' = nodes'[m]
  BY <1>1 DEF Waiting, Range
<1>5. inDegree[n] = 0
  BY <1>1, <1>4, FS_EmptySet DEF DegreeInv
<1>6. /\ inDegree' \in [Node -> Int] /\ inDegree'[n] = Cardinality(ds)
      /\ \A m \in Node \ {n} : inDegree'[m] = inDegree[m]
  BY <1>1, <1>3, <1>5 DEF TypeOK, AddNode
<1>7. DegreeInv'
  BY <1>1, <1>2, <1>4, <1>6 DEF DegreeInv
<1>8. ASSUME NEW d \in Node
      PROVE  /\ dependents'[d] \in Seq(Node)
             /\ Range(dependents'[d]) = {m \in Node : d \in nodes'[m]}
             /\ IsInjective(dependents'[d])
  <2>1. /\ dependents[d] \in Seq(Node) /\ IsInjective(dependents[d])
        /\ Range(dependents[d]) = {m \in Node : d \in nodes[m]}
        /\ n \notin Range(dependents[d])
    BY <1>1 DEF TypeOK, GraphInv
  <2>2. CASE d \in ds
    <3>1. dependents'[d] = Append(dependents[d], n)
      BY <2>2 DEF AddNode
    <3>2. /\ dependents'[d] \in Seq(Node) /\ IsInjective(dependents'[d])
          /\ Range(dependents'[d]) = Range(dependents[d]) \cup {n}
      BY <2>1, <3>1, AppendElements
    <3>3. QED
      BY <1>2, <2>1, <2>2, <3>2
  <2>3. CASE d \notin ds
    <3>1. dependents'[d] = dependents[d]
      BY <2>3 DEF AddNode
    <3>2. QED
      BY <1>1, <1>2, <2>1, <2>3, <3>1
  <2>4. QED
    BY <2>2, <2>3
<1>9. dependents' \in [Node -> Seq(Node)]
  <2>1. dependents' = [d \in Node |-> dependents'[d]]
    BY DEF AddNode
  <2>2. QED
    BY <1>8, <2>1
<1>10. declared' = declared \cup {n} /\ known' = known \cup {n} \cup ds
  BY DEF AddNode
<1>11. TypeOK'
  BY <1>1, <1>2, <1>6, <1>9, <1>10 DEF TypeOK
<1>12. GraphInv'
  <2>1. known' = declared' \cup UNION {nodes'[m] : m \in declared'}
    <3>1. UNION {nodes'[m] : m \in declared'} = ds \cup UNION {nodes[m] : m \in declared}
      <4>1. declared \subseteq Node /\ n \in declared' /\ nodes'[n] = ds
        BY <1>1, <1>2, <1>10 DEF TypeOK
      <4>2. \A m \in declared : m \in declared' /\ nodes'[m] = nodes[m]
        BY <1>1, <1>2, <1>10, <4>1
      <4>3. \A m \in declared' : m = n \/ m \in declared
        BY <1>10
      <4>4. QED
        BY <4>1, <4>2, <4>3
    <3>2. QED
      BY <1>1, <1>10, <3>1 DEF GraphInv
  <2>2. \A m \in Node \ declared' : nodes'[m] = {}
    BY <1>1, <1>2, <1>10 DEF GraphInv
  <2>3. QED
    BY <1>8, <2>1, <2>2 DEF GraphInv
<1>13. OrderSound' /\ CycleExact' /\ calls' <= MaxResolves
  BY <1>1 DEF OrderSound, CycleExact, KahnInv
<1>14. QED
  BY <1>1, <1>7, <1>11, <1>12, <1>13 DEF KahnInv

\* Resolve begins with the degrees AddNode left, if it is the first.
LEMMA CallKeeps == ASSUME KahnInv, NEW r \in BOOLEAN, Call(r) PROVE KahnInv'
<1>1. /\ TypeOK /\ GraphInv /\ UNCHANGED graph /\ calls' = calls + 1 /\ calls \in Nat
      /\ pc' = "resolve" /\ reverse' = r /\ unseeded' = known
      /\ queue' = <<>> /\ result' = <<>> /\ todo' = <<>>
  BY DEF KahnInv, Call, TypeOK
<1>2. TypeOK'
  BY <1>1 DEF TypeOK, graph
<1>3. GraphInv'
  BY <1>1 DEF GraphInv, graph
<1>4. ASSUME calls' = 1
      PROVE  DegreeInv' /\ PlaceInv' /\ ResultInv'
  <2>1. pc = "build" /\ result = <<>>
    BY <1>1, <1>4 DEF KahnInv
  <2>2. \A n \in Node : Waiting(n)' = Waiting(n)
    BY <1>1, <2>1 DEF Waiting, graph, Range
  <2>3. DegreeInv'
    BY <1>1, <2>1, <2>2 DEF KahnInv, DegreeInv, graph
  <2>4. Range(<<>>) = {} /\ IsInjective(<<>>)
    BY DEF Range, IsInjective
  <2>5. PlaceInv'
    BY <1>1, <2>4 DEF PlaceInv, graph
  <2>6. ResultInv'
    BY <1>1, <2>4 DEF ResultInv
  <2>7. QED
    BY <2>3, <2>5, <2>6
<1>5. OrderSound' /\ CycleExact' /\ calls' <= MaxResolves
  BY <1>1, KahnAssumption DEF OrderSound, CycleExact, Call
<1>6. QED
  BY <1>1, <1>2, <1>3, <1>4, <1>5 DEF KahnInv

\* The first loop queues the names that wait for nothing.
LEMMA SeedKeeps == ASSUME KahnInv, NEW n \in Node, Seed(n) PROVE KahnInv'
<1>1. /\ TypeOK /\ GraphInv /\ UNCHANGED <<graph, pc, reverse, result, todo, calls>>
      /\ pc = "resolve" /\ n \in unseeded /\ unseeded' = unseeded \ {n}
  BY DEF KahnInv, Seed
<1>2. TypeOK' /\ GraphInv'
  <2>1. queue' \in Seq(Node)
    BY AppendElements DEF KahnInv, Seed, TypeOK
  <2>2. QED
    BY <1>1, <2>1 DEF TypeOK, GraphInv, graph
<1>3. ASSUME calls' = 1
      PROVE  DegreeInv' /\ PlaceInv' /\ ResultInv'
  <2>1. DegreeInv /\ PlaceInv /\ ResultInv /\ result = <<>>
    BY <1>1, <1>3 DEF KahnInv, PlaceInv
  <2>2. \A m \in Node : Waiting(m)' = Waiting(m)
    BY <1>1 DEF Waiting, graph
  <2>3. DegreeInv' /\ ResultInv'
    BY <1>1, <2>1, <2>2 DEF DegreeInv, ResultInv, graph, Abstract!Blocked
  <2>4. inDegree[n] = 0 <=> Waiting(n) = {}
    <3>1. IsFiniteSet(Waiting(n))
      BY <1>1, KahnAssumption, FS_Subset DEF Waiting, TypeOK
    <3>2. QED
      BY <2>1, <3>1, FS_EmptySet DEF DegreeInv
  <2>5. n \notin Range(queue) /\ n \notin Range(result) /\ n \in known
    BY <1>1, <2>1 DEF PlaceInv, TypeOK
  <2>6. /\ IsInjective(queue')
        /\ Range(queue') = Range(queue) \cup (IF Waiting(n) = {} THEN {n} ELSE {})
    BY <1>1, <2>1, <2>4, <2>5, AppendElements DEF Seed, PlaceInv, TypeOK
  <2>7. PlaceInv'
    <3>1. todo = <<>> /\ IsInjective(result') /\ IsInjective(todo')
      BY <1>1, <2>1 DEF PlaceInv
    <3>2. Range(queue') \cap Range(result') = {}
      BY <1>1, <2>1, <2>5, <2>6 DEF PlaceInv
    <3>3. {m \in known' \ unseeded' : Waiting(m)' = {}} =
          {m \in known \ unseeded : Waiting(m) = {}} \cup (IF Waiting(n) = {} THEN {n} ELSE {})
      BY <1>1, <2>2, <2>5 DEF graph, TypeOK
    <3>4. Range(queue') \cup Range(result') = {m \in known' \ unseeded' : Waiting(m)' = {}}
      BY <1>1, <2>1, <2>6, <3>3 DEF PlaceInv
    <3>5. QED
      BY <1>1, <2>1, <2>6, <3>1, <3>2, <3>4 DEF PlaceInv
  <2>8. QED
    BY <2>3, <2>7
<1>4. OrderSound' /\ CycleExact' /\ calls' <= MaxResolves
  BY <1>1 DEF OrderSound, CycleExact, KahnInv
<1>5. QED
  BY <1>1, <1>2, <1>3, <1>4 DEF KahnInv

\* What waits in front of the queue has everything before it in the result;
\* taking it leaves its dependents waiting until they are relaxed.
LEMMA TakeKeeps == ASSUME KahnInv, Take PROVE KahnInv'
<1>0. PICK h \in Node : h = Head(queue)
  BY TailElements DEF KahnInv, Take, TypeOK
<1>1. /\ TypeOK /\ GraphInv /\ UNCHANGED <<graph, pc, reverse, unseeded, calls>>
      /\ pc = "resolve" /\ unseeded = {} /\ todo = <<>> /\ queue # <<>>
      /\ result' = Append(result, h) /\ queue' = Tail(queue) /\ todo' = dependents[h]
  BY <1>0 DEF KahnInv, Take
<1>2. /\ queue' \in Seq(Node) /\ Range(queue) = {h} \cup Range(queue')
      /\ IsInjective(queue) => IsInjective(queue') /\ h \notin Range(queue')
  BY <1>0, <1>1, TailElements DEF TypeOK
<1>3. /\ result' \in Seq(Node) /\ Range(result') = Range(result) \cup {h}
      /\ IsInjective(result) /\ h \notin Range(result) => IsInjective(result')
      /\ Len(result) \in Nat /\ Len(result') = Len(result) + 1 /\ result'[Len(result')] = h
      /\ result' # <<>> /\ \A i \in 1..Len(result) : result'[i] = result[i]
  <2>1. result \in Seq(Node) /\ Len(result) \in Nat
    BY <1>1, LenProperties DEF TypeOK
  <2>2. /\ result' \in Seq(Node) /\ Range(result') = Range(result) \cup {h}
        /\ IsInjective(result) /\ h \notin Range(result) => IsInjective(result')
    BY <1>1, <2>1, AppendElements
  <2>3. /\ Len(result') = Len(result) + 1 /\ result'[Len(result) + 1] = h
        /\ result' # <<>> /\ \A i \in 1..Len(result) : result'[i] = result[i]
    BY <1>1, <2>1, AppendProperties
  <2>4. QED
    BY <2>1, <2>2, <2>3
<1>4. /\ todo' \in Seq(Node) /\ IsInjective(todo')
      /\ Range(todo') = {n \in Node : h \in nodes[n]}
  BY <1>1, <1>2 DEF TypeOK, GraphInv
<1>5. TypeOK'
  BY <1>1, <1>2, <1>3, <1>4 DEF TypeOK, graph
<1>6. GraphInv'
  BY <1>1 DEF GraphInv, graph
<1>7. ASSUME calls' = 1
      PROVE  DegreeInv' /\ PlaceInv' /\ ResultInv'
  <2>1. DegreeInv /\ PlaceInv /\ ResultInv
    BY <1>1, <1>7 DEF KahnInv
  <2>2. /\ IsInjective(queue) /\ IsInjective(result) /\ Range(queue) \cap Range(result) = {}
        /\ Range(queue) \cup Range(result) = {n \in known \ unseeded : Waiting(n) = {}}
    BY <2>1 DEF PlaceInv
  <2>3. h \notin Range(result) /\ Waiting(h) = {} /\ Range(todo) = {}
    <3>1. h \in Range(queue)
      BY <1>2
    <3>2. Range(todo) = {}
      BY <1>1 DEF Range
    <3>3. QED
      BY <2>2, <3>1, <3>2
  <2>4. ASSUME NEW m \in Node
        PROVE  Waiting(m)' = Waiting(m)
    <3>1. Waiting(m) = {d \in nodes[m] : d \notin Range(result)}
      BY <2>3 DEF Waiting
    <3>2. Waiting(m)' = {d \in nodes[m] : d \notin Range(result') \/ (d = h /\ m \in Range(todo'))}
      BY <1>1, <1>3 DEF Waiting, graph
    <3>3. \A d \in nodes[m] : d = h => m \in Range(todo')
      BY <1>4
    <3>4. QED
      BY <1>3, <2>3, <3>1, <3>2, <3>3
  <2>5. DegreeInv'
    BY <1>1, <2>1, <2>4 DEF DegreeInv, graph
  <2>6. PlaceInv'
    <3>1. /\ Range(queue') \cap Range(result') = {}
          /\ Range(queue') \cup Range(result') = Range(queue) \cup Range(result)
          /\ IsInjective(queue') /\ IsInjective(result')
      BY <1>2, <1>3, <2>2, <2>3
    <3>2. {n \in known' \ unseeded' : Waiting(n)' = {}} = {n \in known \ unseeded : Waiting(n) = {}}
      BY <1>1, <2>4 DEF graph, TypeOK
    <3>3. Range(todo') \subseteq Range(dependents'[result'[Len(result')]])
      BY <1>1, <1>3 DEF graph
    <3>4. QED
      BY <1>1, <1>3, <1>4, <2>2, <3>1, <3>2, <3>3 DEF PlaceInv
  <2>7. \A d \in nodes[h] : d \in Range(result)
    BY <2>3 DEF Waiting
  <2>8. ResultInv'
    <3>1. ASSUME NEW i \in 1..Len(result'), NEW d \in nodes[result'[i]]
          PROVE  \E j \in 1..(i - 1) : result'[j] = d
      <4>1. CASE i = Len(result) + 1
        <5>1. d \in Range(result)
          BY <1>3, <2>7, <3>1, <4>1
        <5>2. PICK j \in 1..Len(result) : result[j] = d
          BY <1>1, <5>1, LenProperties DEF Range, TypeOK
        <5>3. j \in 1..(i - 1) /\ result'[j] = d
          BY <1>3, <4>1, <5>2
        <5>4. QED
          BY <5>3
      <4>2. CASE i \in 1..Len(result)
        <5>1. PICK j \in 1..(i - 1) : result[j] = d
          BY <1>3, <2>1, <3>1, <4>2 DEF ResultInv
        <5>2. j \in 1..Len(result)
          BY <1>3, <4>2
        <5>3. QED
          BY <1>3, <5>1, <5>2
      <4>3. QED
        BY <1>3, <4>1, <4>2
    <3>2. ASSUME NEW X \in SUBSET Node, \A n \in X : nodes[n] \cap X # {}
          PROVE  X \cap Range(result') = {}
      <4>1. X \cap Range(result) = {}
        BY <2>1, <3>2 DEF ResultInv, Abstract!Blocked
      <4>2. h \notin X
        BY <2>7, <3>2, <4>1
      <4>3. QED
        BY <1>3, <4>1, <4>2
    <3>3. QED
      BY <1>1, <3>1, <3>2 DEF ResultInv, graph, Abstract!Blocked
  <2>9. QED
    BY <2>5, <2>6, <2>8
<1>8. OrderSound' /\ CycleExact' /\ calls' <= MaxResolves
  BY <1>1 DEF OrderSound, CycleExact, KahnInv
<1>9. QED
  BY <1>1, <1>5, <1>6, <1>7, <1>8 DEF KahnInv

\* Relaxing a dependent takes one prerequisite off what it waits for, and
\* queues it with the last one.
LEMMA RelaxKeeps == ASSUME KahnInv, Relax PROVE KahnInv'
<1>0. PICK n \in Node : n = Head(todo)
  BY TailElements DEF KahnInv, Relax, TypeOK
<1> DEFINE d == result[Len(result)]
<1>1. /\ TypeOK /\ GraphInv /\ pc = "resolve" /\ todo # <<>> /\ todo' = Tail(todo)
      /\ inDegree' = [inDegree EXCEPT ![n] = @ - 1]
      /\ queue' = IF inDegree[n] = 1 THEN Append(queue, n) ELSE queue
      /\ UNCHANGED <<nodes, declared, dependents, known, pc, reverse, unseeded, result, calls>>
  BY <1>0 DEF KahnInv, Relax
<1>2. /\ todo' \in Seq(Node) /\ Range(todo) = {n} \cup Range(todo')
      /\ IsInjective(todo) => IsInjective(todo') /\ n \notin Range(todo')
  BY <1>0, <1>1, TailElements DEF TypeOK
<1>3. /\ inDegree' \in [Node -> Int] /\ inDegree'[n] = inDegree[n] - 1
      /\ \A m \in Node \ {n} : inDegree'[m] = inDegree[m]
  BY <1>1, <1>2 DEF TypeOK
<1>4. queue' \in Seq(Node)
  BY <1>1, <1>2, AppendElements DEF TypeOK
<1>5. TypeOK' /\ GraphInv'
  BY <1>1, <1>2, <1>3, <1>4 DEF TypeOK, GraphInv
<1>6. ASSUME calls' = 1
      PROVE  DegreeInv' /\ PlaceInv' /\ ResultInv'
  <2>1. DegreeInv /\ PlaceInv /\ ResultInv
    BY <1>1, <1>6 DEF KahnInv
  <2>2. /\ IsInjective(queue) /\ IsInjective(result) /\ IsInjective(todo)
        /\ Range(queue) \cap Range(result) = {}
        /\ Range(queue) \cup Range(result) = {m \in known \ unseeded : Waiting(m) = {}}
        /\ result # <<>> /\ Range(todo) \subseteq Range(dependents[d]) /\ unseeded = {}
    BY <1>1, <2>1 DEF PlaceInv
  <2>3. d \in Node /\ d \in Range(result)
    <3>1. Len(result) \in 1..Len(result) /\ DOMAIN result = 1..Len(result)
      BY <1>1, <2>2, EmptySeq, LenProperties DEF TypeOK
    <3>2. QED
      BY <1>1, <3>1, ElementOfSeq DEF TypeOK, Range
  <2>4. d \in nodes[n]
    BY <1>1, <1>2, <2>2, <2>3 DEF GraphInv
  <2>5. Waiting(n)' = Waiting(n) \ {d} /\ d \in Waiting(n)
    BY <1>1, <1>2, <2>2, <2>3, <2>4 DEF Waiting
  <2>6. \A m \in Node \ {n} : Waiting(m)' = Waiting(m)
    BY <1>1, <1>2 DEF Waiting
  <2>7. /\ IsFiniteSet(Waiting(n)) /\ IsFiniteSet(Waiting(n)')
        /\ Cardinality(Waiting(n)') = Cardinality(Waiting(n)) - 1
    <3>1. IsFiniteSet(Waiting(n))
      BY <1>1, <1>2, KahnAssumption, FS_Subset DEF Waiting, TypeOK
    <3>2. QED
      BY <2>5, <3>1, FS_RemoveElement
  <2>8. DegreeInv'
    BY <1>2, <1>3, <2>1, <2>6, <2>7 DEF DegreeInv
  <2>9. inDegree[n] = 1 <=> Waiting(n)' = {}
    <3>1. Cardinality(Waiting(n)') = 0 <=> Waiting(n)' = {}
      BY <2>7, FS_EmptySet
    <3>2. inDegree[n] = Cardinality(Waiting(n)) /\ Cardinality(Waiting(n)) \in Nat
      BY <1>2, <2>1, <2>7, FS_CardinalityType DEF DegreeInv
    <3>3. QED
      BY <2>7, <3>1, <3>2
  <2>10. n \in known
    <3>1. n \in declared
      BY <1>1, <1>2, <2>4 DEF GraphInv
    <3>2. QED
      BY <1>1, <3>1 DEF GraphInv
  <2>11. n \notin Range(queue) /\ n \notin Range(result)
    BY <2>2, <2>5
  <2>12. /\ IsInjective(queue')
         /\ Range(queue') = Range(queue) \cup (IF Waiting(n)' = {} THEN {n} ELSE {})
    BY <1>1, <1>2, <2>2, <2>9, <2>11, AppendElements DEF TypeOK
  <2>13. PlaceInv'
    <3>1. {m \in known' \ unseeded' : Waiting(m)' = {}} =
          {m \in known \ unseeded : Waiting(m) = {}} \cup (IF Waiting(n)' = {} THEN {n} ELSE {})
      BY <1>1, <2>2, <2>5, <2>6, <2>10 DEF TypeOK
    <3>2. Range(queue') \cap Range(result') = {}
      BY <1>1, <2>2, <2>11, <2>12
    <3>3. Range(queue') \cup Range(result') = {m \in known' \ unseeded' : Waiting(m)' = {}}
      BY <1>1, <2>2, <2>12, <3>1
    <3>4. Range(todo') \subseteq Range(dependents'[result'[Len(result')]]) /\ IsInjective(todo')
      BY <1>1, <1>2, <2>2
    <3>5. QED
      BY <1>1, <2>2, <2>12, <3>2, <3>3, <3>4 DEF PlaceInv
  <2>14. ResultInv'
    BY <1>1, <2>1 DEF ResultInv, Abstract!Blocked
  <2>15. QED
    BY <2>8, <2>13, <2>14
<1>7. OrderSound' /\ CycleExact' /\ calls' <= MaxResolves
  BY <1>1 DEF OrderSound, CycleExact, KahnInv
<1>8. QED
  BY <1>1, <1>5, <1>6, <1>7 DEF KahnInv

\* Resolve returns: with every name in the result no cycle is left, with names
\* missing these wait for each other.
LEMMA ReturnKeeps == ASSUME KahnInv, Return PROVE KahnInv'
<1>1. /\ TypeOK /\ GraphInv /\ UNCHANGED <<graph, reverse, unseeded, queue, todo, calls>>
      /\ pc = "resolve" /\ pc' \in {"ordered", "cycle"} /\ calls >= 1 /\ calls \in Nat
      /\ unseeded = {} /\ todo = <<>> /\ queue = <<>> /\ calls <= MaxResolves
      /\ result' \in {result, Abstract!Backwards(result)}
  BY DEF KahnInv, Return, TypeOK
<1>2. result' \in Seq(Node)
  BY <1>1, BackwardsTwice DEF TypeOK
<1>3. TypeOK' /\ GraphInv'
  BY <1>1, <1>2 DEF TypeOK, GraphInv, graph
<1>4. ASSUME calls' <= 1
      PROVE  OrderSound' /\ CycleExact'
  <2>1. DegreeInv /\ PlaceInv /\ ResultInv
    BY <1>1, <1>4 DEF KahnInv
  <2>2. /\ Range(queue) = {} /\ Range(todo) = {} /\ IsInjective(result)
        /\ Range(result) = {n \in known : Waiting(n) = {}}
    <3>1. Range(<<>>) = {}
      BY DEF Range
    <3>2. QED
      BY <1>1, <2>1, <3>1 DEF PlaceInv
  <2>3. /\ IsFiniteSet(known) /\ IsFiniteSet(Range(result)) /\ Range(result) \subseteq known
        /\ Cardinality(Range(result)) = Len(result)
    BY <1>1, <2>2, KahnAssumption, FS_Subset, LengthCounts DEF TypeOK
  <2>4. UNCHANGED <<nodes, known, reverse>>
    BY <1>1 DEF graph
  <2>5. CASE Len(result) # Cardinality(known)
    <3> DEFINE X == known \ Range(result)
    <3>1. pc' = "cycle"
      BY <2>5 DEF Return
    <3>2. X # {} /\ X \in SUBSET known
      BY <2>3, <2>5
    <3>3. ASSUME NEW n \in X
          PROVE  nodes[n] \cap X # {}
      <4>1. PICK d \in nodes[n] : d \notin Range(result)
        BY <2>2, <3>3 DEF Waiting
      <4>2. n \in declared
        BY <1>1, <3>3 DEF GraphInv, TypeOK
      <4>3. d \in known
        BY <1>1, <4>2 DEF GraphInv
      <4>4. QED
        BY <4>1, <4>3
    <3>4. Abstract!Cyclic'
      BY <2>4, <3>2, <3>3 DEF Abstract!Cyclic, Abstract!Blocked
    <3>5. QED
      BY <3>1, <3>4 DEF OrderSound, CycleExact
  <2>6. CASE Len(result) = Cardinality(known)
    <3>1. /\ pc' = "ordered"
          /\ result' = IF reverse THEN Abstract!Backwards(result) ELSE result
      BY <2>6 DEF Return
    <3>2. Range(result) = known
      BY <2>3, <2>6, FS_Subset
    <3>3. (IF reverse' THEN Abstract!Backwards(result') ELSE result') = result
      BY <1>1, <3>1, BackwardsTwice DEF TypeOK
    <3>4. /\ Range(result) = known' /\ IsInjective(result)
          /\ \A i \in 1..Len(result) : \A d \in nodes'[result[i]] :
               \E j \in 1..(i - 1) : result[j] = d
      BY <2>1, <2>2, <2>4, <3>2 DEF ResultInv
    <3>5. OrderSound'
      <4>1. CASE reverse'
        <5>1. Abstract!Backwards(result') = result
          BY <3>3, <4>1
        <5>2. QED
          BY <3>4, <4>1, <5>1 DEF OrderSound, Abstract!IsStartOrder, Abstract!Range, Abstract!IsInjective, Range, IsInjective
      <4>2. CASE ~reverse'
        <5>1. result' = result
          BY <3>3, <4>2
        <5>2. QED
          BY <3>4, <4>2, <5>1 DEF OrderSound, Abstract!IsStartOrder, Abstract!Range, Abstract!IsInjective, Range, IsInjective
      <4>3. QED
        BY <4>1, <4>2
    <3>6. ASSUME NEW X \in SUBSET known, X # {}, Abstract!Blocked(X)
          PROVE  FALSE
      BY <1>1, <2>1, <3>2, <3>6 DEF ResultInv, TypeOK
    <3>7. CycleExact'
      BY <2>4, <3>1, <3>6 DEF CycleExact, Abstract!Cyclic, Abstract!Blocked
    <3>8. QED
      BY <3>5, <3>7
  <2>7. QED
    BY <2>5, <2>6
<1>5. QED
  BY <1>1, <1>3, <1>4 DEF KahnInv

\* Nothing happens.
LEMMA StutterKeeps == ASSUME KahnInv, UNCHANGED vars PROVE KahnInv'
<1>1. TypeOK' <=> TypeOK
  BY DEF vars, TypeOK
<1>2. GraphInv' <=> GraphInv
  BY DEF vars, GraphInv
<1>3. DegreeInv' <=> DegreeInv
  BY DEF vars, DegreeInv, Waiting
<1>4. PlaceInv' <=> PlaceInv
  BY DEF vars, PlaceInv, Waiting
<1>5. ResultInv' <=> ResultInv
  BY DEF vars, ResultInv, Abstract!Blocked
<1>6. OrderSound' <=> OrderSound
  BY DEF vars, OrderSound, Abstract!IsStartOrder, Abstract!Backwards
<1>7. CycleExact' <=> CycleExact
  BY DEF vars, CycleExact, Abstract!Cyclic, Abstract!Blocked
<1>8. QED
  BY <1>1, <1>2, <1>3, <1>4, <1>5, <1>6, <1>7 DEF KahnInv, vars

\* The counting invariant holds on every finite graph.
THEOREM KahnInvariance == Spec => []KahnInv
<1>1. Init => KahnInv
  BY InitEstablishes
<1>2. KahnInv /\ [Next]_vars => KahnInv'
  BY AddNodeKeeps, CallKeeps, SeedKeeps, TakeKeeps, RelaxKeeps, ReturnKeeps, StutterKeeps
  DEF Next
<1>3. QED
  BY <1>1, <1>2, PTL DEF Spec

\* The first Resolve or Reverse on a graph returns every name once, on the right
\* side of its prerequisites (graph.go:36, :68).
THEOREM OrderCorrect == ASSUME MaxResolves = 1 PROVE Spec => []OrderSound
<1>1. KahnInv => OrderSound
  BY DEF KahnInv, TypeOK
<1>2. QED
  BY <1>1, KahnInvariance, PTL

\* And it returns the error exactly when there is a cycle (graph.go:61).
THEOREM CycleCorrect == ASSUME MaxResolves = 1 PROVE Spec => []CycleExact
<1>1. KahnInv => CycleExact
  BY DEF KahnInv, TypeOK
<1>2. QED
  BY <1>1, KahnInvariance, PTL

\* So the graph, with its in-degrees, queue and loops, is a StartOrder.
THEOREM Refinement == ASSUME MaxResolves = 1 PROVE Spec => Implements
<1>1. Init => Abstract!Init
  BY DEF Init, Abstract!Init, Answer, Abstract!Unanswered
<1>2. ASSUME KahnInv, KahnInv', [Next]_vars
      PROVE  [Abstract!Next]_<<nodes, known, Answer>>
  <2>1. CASE \E n \in Node, ds \in SUBSET Node : AddNode(n, ds)
    <3>1. PICK n \in Node, ds \in SUBSET Node : AddNode(n, ds)
      BY <2>1
    <3>2. nodes[n] = {}
      BY <1>2, <3>1 DEF KahnInv, GraphInv, AddNode
    <3>3. Abstract!Add(n, ds)
      BY <3>1, <3>2 DEF AddNode, Abstract!Add, Answer, Abstract!Unanswered
    <3>4. QED
      BY <3>3 DEF Abstract!Next
  <2>2. CASE \E r \in BOOLEAN : Call(r)
    <3>1. pc = "build" /\ pc' = "resolve" /\ UNCHANGED graph
      BY <1>2, <2>2 DEF Call, KahnInv, TypeOK
    <3>2. QED
      BY <3>1 DEF Answer, graph
  <2>3. CASE (\E n \in Node : Seed(n)) \/ Take \/ Relax
    <3>1. pc = "resolve" /\ pc' = "resolve" /\ UNCHANGED <<nodes, known>>
      BY <2>3 DEF Seed, Take, Relax, graph
    <3>2. QED
      BY <3>1 DEF Answer
  <2>4. CASE Return
    <3>1. /\ pc = "resolve" /\ pc' \in {"ordered", "cycle"} /\ UNCHANGED <<nodes, known>>
          /\ OrderSound' /\ CycleExact'
      BY <1>2, <2>4 DEF Return, KahnInv, graph, TypeOK
    <3>2. Answer = Abstract!Unanswered
      BY <3>1 DEF Answer, Abstract!Unanswered
    <3>3. CASE pc' = "ordered"
      <4>1. Answer' = [verdict |-> "ordered", reverse |-> reverse', order |-> result']
        BY <3>3 DEF Answer
      <4>2. /\ Answer'.verdict = "ordered" /\ Answer'.reverse = reverse'
            /\ Answer'.order = result'
        BY <4>1
      <4>3. Abstract!IsStartOrder(IF reverse' THEN Abstract!Backwards(result') ELSE result')
        BY <3>1, <3>3 DEF OrderSound, Abstract!IsStartOrder
      <4>4. Abstract!Order
        BY <3>1, <3>2, <4>2, <4>3 DEF Abstract!Order
      <4>5. QED
        BY <4>4 DEF Abstract!Next
    <3>4. CASE pc' = "cycle"
      <4>1. Answer'.verdict = "cycle"
        BY <3>4 DEF Answer
      <4>2. Abstract!Cyclic
        BY <3>1, <3>4 DEF CycleExact, Abstract!Cyclic, Abstract!Blocked
      <4>3. Abstract!Refuse
        BY <3>1, <3>2, <4>1, <4>2 DEF Abstract!Refuse
      <4>4. QED
        BY <4>3 DEF Abstract!Next
    <3>5. QED
      BY <3>1, <3>3, <3>4
  <2>5. CASE UNCHANGED vars
    BY <2>5 DEF vars, Answer
  <2>6. QED
    BY <1>2, <2>1, <2>2, <2>3, <2>4, <2>5 DEF Next
<1>3. QED
  BY <1>1, <1>2, KahnInvariance, PTL DEF Spec, Implements, Abstract!Spec

-----------------------------------------------------------------------------
(* Numbers.                                                                *)

\* A set of numbers has a least one.
LEMMA Least ==
  ASSUME NEW T \in SUBSET Nat, T # {}
  PROVE  \E x \in T : \A y \in T : x <= y
<1> DEFINE R == OpToRel(<, Nat)
<1>1. PICK x \in T : \A y \in T : ~(<<y, x>> \in R)
  BY NatLessThanWellFounded, WFMin
<1>2. \A y \in T : ~(y < x)
  BY <1>1 DEF OpToRel
<1> QED
  BY <1>2

\* Induction on the numbers up to some number, as a fact about sets.
LEMMA AllUpTo ==
  ASSUME NEW N \in Nat, NEW G \in SUBSET (0..N), 0 \in G,
         \A n \in G : n < N => n + 1 \in G
  PROVE  G = 0..N
<1> SUFFICES ASSUME NEW x \in 0..N, x \notin G PROVE FALSE
  OBVIOUS
<1> DEFINE T == {n \in 0..N : n \notin G}
<1>1. T \in SUBSET Nat /\ T # {}
  OBVIOUS
<1> HIDE DEF T
<1>2. PICK y \in T : \A z \in T : y <= z
  BY <1>1, Least
<1>3. y \in 0..N /\ y # 0 /\ y \notin G
  BY <1>2 DEF T
<1>4. y - 1 \in 0..N /\ y - 1 < N /\ ~(y <= y - 1)
  BY <1>3
<1>5. y - 1 \in G
  BY <1>2, <1>4 DEF T
<1> QED
  BY <1>3, <1>4, <1>5

\* Among more numbers in a row than a set has, there is a first one outside it.
LEMMA FreeAbove ==
  ASSUME NEW U, IsFiniteSet(U), NEW a \in Nat, NEW b \in Nat, b >= a + Cardinality(U)
  PROVE  \E k \in a..b : k \notin U /\ \A j \in a..(k - 1) : j \in U
<1>1. Cardinality(U) \in Nat
  BY FS_CardinalityType
<1>2. Cardinality(a..b) = b - a + 1
  BY <1>1, FS_Interval
<1>3. ASSUME a..b \subseteq U PROVE FALSE
  BY <1>1, <1>2, <1>3, FS_Subset
<1> DEFINE T == {k \in a..b : k \notin U}
<1>4. T \in SUBSET Nat /\ T # {}
  BY <1>3
<1> HIDE DEF T
<1>5. PICK k \in T : \A y \in T : k <= y
  BY <1>4, Least
<1>6. k \in a..b /\ k \notin U
  BY <1>5 DEF T
<1>7. ASSUME NEW j \in a..(k - 1) PROVE j \in U
  <2>1. j \in a..b /\ ~(k <= j)
    BY <1>6
  <2> QED
    BY <1>5, <2>1 DEF T
<1> QED
  BY <1>6, <1>7

-----------------------------------------------------------------------------
(* The resolution of port conflicts.                                       *)

\* NextPort moves a service up, to a port nobody has.
LEMMA NextPortFree ==
  ASSUME NEW st, NEW port \in Nat, IsFiniteSet(st.used), Moves(st, port) \in Nat
  PROVE  NextPort(st, port) \in Nat \ {0} /\ port + NextPort(st, port) \notin st.used
<1> DEFINE c == Cardinality(st.used)
           m == Moves(st, port)
           a == port + m + 1
           b == port + m + 1 + c
           Good(k) == /\ port + k \notin st.used
                      /\ \A j \in (m + 1)..(k - 1) : port + j \in st.used
<1>1. c \in Nat
  BY FS_CardinalityType
<1>2. m \in Nat
  OBVIOUS
<1> HIDE DEF c, m
<1>3. a \in Nat /\ b \in Nat /\ b >= a + c
  BY <1>1, <1>2
<1>4. PICK x \in a..b : x \notin st.used /\ \A j \in a..(x - 1) : j \in st.used
  BY <1>3, FreeAbove DEF c
<1>5. x - port \in (m + 1)..(m + 1 + c) /\ port + (x - port) = x
  BY <1>1, <1>2, <1>3, <1>4
<1>6. ASSUME NEW j \in (m + 1)..((x - port) - 1) PROVE port + j \in st.used
  <2>1. port + j \in a..(x - 1)
    BY <1>2, <1>5
  <2> QED
    BY <1>4, <2>1
<1>7. Good(x - port)
  BY <1>4, <1>5, <1>6
<1>8. NextPort(st, port) = CHOOSE k \in (m + 1)..(m + 1 + c) : Good(k)
  BY DEF NextPort, m, c
<1> HIDE DEF Good
<1>9. NextPort(st, port) \in (m + 1)..(m + 1 + c) /\ Good(NextPort(st, port))
  BY <1>5, <1>7, <1>8
<1> QED
  BY <1>1, <1>2, <1>9 DEF Good

\* So far no two services have one port, and every port given is marked as used.
Apart(st, asked) ==
  /\ IsFiniteSet(st.used) /\ st.used \subseteq Nat
  /\ \A p \in DOMAIN st.moves : st.moves[p] \in Nat
  /\ DOMAIN st.got \subseteq DOMAIN asked
  /\ \A n \in DOMAIN st.got : st.got[n] \in st.used \ {0}
  /\ \A m, n \in DOMAIN st.got : m # n => st.got[m] # st.got[n]

\* The services seen so far are those of S: each that asks has a port, every used
\* port is somebody's, and who moved did so for another.
Fair(st, asked, S) ==
  /\ DOMAIN st.got = S \cap DOMAIN asked
  /\ \A u \in st.used : \E n \in DOMAIN st.got : st.got[n] = u
  /\ \A n \in DOMAIN st.got : st.got[n] # asked[n] =>
       \E m \in DOMAIN st.got : m # n /\ st.got[m] = asked[n]

\* Resolve gives n a port nobody has, its own if that is not used.
LEMMA ResolveGives ==
  ASSUME NEW st, NEW n, NEW port \in Nat \ {0}, IsFiniteSet(st.used),
         \A p \in DOMAIN st.moves : st.moves[p] \in Nat
  PROVE  LET new == Resolve(st, n, port)
             p == new.got[n]
         IN /\ p \in Nat \ {0} /\ p \notin st.used
            /\ port \notin st.used => p = port
            /\ new.used = st.used \cup {p} /\ new.got = With(st.got, n, p)
            /\ \A q \in DOMAIN new.moves : new.moves[q] \in Nat
<1> DEFINE k == NextPort(st, port)
<1>1. Moves(st, port) \in Nat
  BY DEF Moves
<1>2. k \in Nat \ {0} /\ port + k \notin st.used
  BY <1>1, NextPortFree
<1> HIDE DEF k
<1>3. \A p : With(st.got, n, p)[n] = p
  BY DEF With
<1>4. CASE port \notin st.used
  <2>1. Resolve(st, n, port) = [used |-> st.used \cup {port}, moves |-> st.moves,
                                got |-> With(st.got, n, port)]
    BY <1>4 DEF Resolve
  <2> QED
    BY <1>3, <1>4, <2>1
<1>5. CASE port \in st.used
  <2>1. Resolve(st, n, port) = [used |-> st.used \cup {port + k},
                                moves |-> With(st.moves, port, k),
                                got |-> With(st.got, n, port + k)]
    BY <1>5 DEF Resolve, k
  <2>2. \A q \in DOMAIN With(st.moves, port, k) : With(st.moves, port, k)[q] \in Nat
    BY <1>2 DEF With
  <2>3. port + k \in Nat \ {0}
    BY <1>2
  <2> QED
    BY <1>2, <1>3, <1>5, <2>1, <2>2, <2>3
<1> QED
  BY <1>4, <1>5

LEMMA ApartKept ==
  ASSUME NEW asked, \A n \in DOMAIN asked : asked[n] \in Nat \ {0},
         NEW st, NEW n, Apart(st, asked)
  PROVE  Apart(ResolveNext(st, n, asked), asked)
<1> DEFINE new == ResolveNext(st, n, asked)
<1>1. CASE n \notin DOMAIN asked
  BY <1>1 DEF ResolveNext
<1>2. CASE n \in DOMAIN asked
  <2> DEFINE p == new.got[n]
  <2>1. new = Resolve(st, n, asked[n])
    BY <1>2 DEF ResolveNext
  <2>2. /\ p \in Nat \ {0} /\ p \notin st.used
        /\ new.used = st.used \cup {p} /\ new.got = With(st.got, n, p)
        /\ \A q \in DOMAIN new.moves : new.moves[q] \in Nat
    BY <1>2, <2>1, ResolveGives DEF Apart
  <2> HIDE DEF new, p
  <2>3. IsFiniteSet(new.used) /\ new.used \subseteq Nat
    BY <2>2, FS_AddElement DEF Apart
  <2>4. /\ DOMAIN new.got = DOMAIN st.got \cup {n} /\ new.got[n] = p
        /\ \A m \in DOMAIN st.got \ {n} : new.got[m] = st.got[m]
    <3>1. /\ DOMAIN With(st.got, n, p) = DOMAIN st.got \cup {n}
          /\ With(st.got, n, p)[n] = p
          /\ \A m \in DOMAIN st.got \ {n} : With(st.got, n, p)[m] = st.got[m]
      BY DEF With
    <3> QED
      BY <2>2, <3>1
  <2>5. DOMAIN new.got \subseteq DOMAIN asked
    BY <1>2, <2>4 DEF Apart
  <2>6. \A m \in DOMAIN new.got : new.got[m] \in new.used \ {0}
    BY <2>2, <2>4 DEF Apart
  <2>7. \A l, m \in DOMAIN new.got : l # m => new.got[l] # new.got[m]
    BY <2>2, <2>4 DEF Apart
  <2> QED
    BY <2>2, <2>3, <2>5, <2>6, <2>7 DEF Apart, new
<1> QED
  BY <1>1, <1>2

LEMMA FairKept ==
  ASSUME NEW asked, \A n \in DOMAIN asked : asked[n] \in Nat \ {0},
         NEW st, NEW S, NEW n, n \notin S, Apart(st, asked), Fair(st, asked, S)
  PROVE  Fair(ResolveNext(st, n, asked), asked, S \cup {n})
<1> DEFINE new == ResolveNext(st, n, asked)
<1>1. CASE n \notin DOMAIN asked
  BY <1>1 DEF ResolveNext, Fair
<1>2. CASE n \in DOMAIN asked
  <2> DEFINE p == new.got[n]
  <2>1. new = Resolve(st, n, asked[n])
    BY <1>2 DEF ResolveNext
  <2>2. /\ p \in Nat \ {0} /\ p \notin st.used
        /\ asked[n] \notin st.used => p = asked[n]
        /\ new.used = st.used \cup {p} /\ new.got = With(st.got, n, p)
    BY <1>2, <2>1, ResolveGives DEF Apart
  <2> HIDE DEF new, p
  <2>3. n \notin DOMAIN st.got
    BY DEF Fair
  <2>4. /\ DOMAIN new.got = DOMAIN st.got \cup {n} /\ new.got[n] = p
        /\ \A m \in DOMAIN st.got : new.got[m] = st.got[m]
    <3>1. /\ DOMAIN With(st.got, n, p) = DOMAIN st.got \cup {n}
          /\ With(st.got, n, p)[n] = p
          /\ \A m \in DOMAIN st.got \ {n} : With(st.got, n, p)[m] = st.got[m]
      BY DEF With
    <3> QED
      BY <2>2, <2>3, <3>1
  <2>5. DOMAIN new.got = (S \cup {n}) \cap DOMAIN asked
    BY <1>2, <2>4 DEF Fair
  <2>6. ASSUME NEW u \in new.used PROVE \E m \in DOMAIN new.got : new.got[m] = u
    BY <2>2, <2>4, <2>6 DEF Fair
  <2>7. ASSUME NEW l \in DOMAIN new.got, new.got[l] # asked[l]
        PROVE  \E m \in DOMAIN new.got : m # l /\ new.got[m] = asked[l]
    <3>1. CASE l = n
      <4>1. asked[n] \in st.used
        BY <2>2, <2>4, <2>7, <3>1
      <4>2. PICK m \in DOMAIN st.got : st.got[m] = asked[n]
        BY <4>1 DEF Fair
      <4> QED
        BY <2>3, <2>4, <3>1, <4>2
    <3>2. CASE l # n
      <4>1. l \in DOMAIN st.got /\ st.got[l] # asked[l]
        BY <2>4, <2>7, <3>2
      <4>2. PICK m \in DOMAIN st.got : m # l /\ st.got[m] = asked[l]
        BY <4>1 DEF Fair
      <4> QED
        BY <2>4, <4>2
    <3> QED
      BY <3>1, <3>2
  <2> QED
    BY <2>5, <2>6, <2>7 DEF Fair, new
<1> QED
  BY <1>1, <1>2

\* Resolution is such a function.
Follows(F, names, total, asked) ==
  /\ F[0] = Unresolved
  /\ \A i \in 1..total : F[i] = ResolveNext(F[i - 1], names[i], asked)

LEMMA ResolutionFollows ==
  ASSUME NEW names, NEW total \in Nat, NEW asked
  PROVE  Follows(Resolution(names, total, asked), names, total, asked)
<1> DEFINE Body(f, n) ==
             [i \in 0..n |-> IF i = 0 THEN Unresolved
                             ELSE ResolveNext(f[i - 1], names[i], asked)]
           Goal(n) == \E f : f = Body(f, n)
           G == {n \in 0..total : Goal(n)}
<1>1. 0 \in G
  <2> DEFINE f == [i \in 0..0 |-> Unresolved]
  <2>1. f = Body(f, 0)
    OBVIOUS
  <2> HIDE DEF f
  <2> QED
    BY <2>1, 0 \in 0..total
<1>2. ASSUME NEW n \in G, n < total PROVE n + 1 \in G
  <2>1. PICK f : f = Body(f, n)
    BY <1>2
  <2> DEFINE g == [i \in 0..(n + 1) |->
                     IF i <= n THEN f[i] ELSE ResolveNext(f[n], names[n + 1], asked)]
  <2>2. n \in Nat
    OBVIOUS
  <2>3. ASSUME NEW i \in 0..(n + 1) PROVE g[i] = Body(g, n + 1)[i]
    <3>1. CASE i = 0
      BY <2>1, <2>2, <3>1
    <3>2. CASE i \in 1..n
      <4>1. g[i] = f[i] /\ g[i - 1] = f[i - 1]
        BY <2>2, <3>2
      <4>2. f[i] = ResolveNext(f[i - 1], names[i], asked)
        BY <2>1, <2>2, <3>2
      <4> QED
        BY <2>2, <3>2, <4>1, <4>2
    <3>3. CASE i = n + 1
      <4>1. g[i] = ResolveNext(f[n], names[n + 1], asked) /\ g[i - 1] = f[n] /\ i # 0
        BY <2>2, <3>3
      <4> QED
        BY <3>3, <4>1
    <3> QED
      BY <2>2, <3>1, <3>2, <3>3
  <2>4. g = Body(g, n + 1)
    BY <2>3
  <2> HIDE DEF g
  <2>5. Goal(n + 1) /\ n + 1 \in 0..total
    BY <2>2, <2>4, <1>2
  <2> QED
    BY <2>5
<1>3. total \in G
  <2> HIDE DEF G
  <2>1. G \in SUBSET (0..total)
    BY DEF G
  <2>2. G = 0..total
    BY <1>1, <1>2, <2>1, AllUpTo
  <2> QED
    BY <2>2
<1>4. PICK f : f = Body(f, total)
  BY <1>3
<1> DEFINE C == CHOOSE g : g = [i \in 0..total |-> IF i = 0 THEN Unresolved
                             ELSE ResolveNext(g[i - 1], names[i], asked)]
<1>5. C = Body(C, total)
  BY <1>4
<1>6. Resolution(names, total, asked) = C
  BY DEF Resolution
<1> HIDE DEF C
<1>7. Follows(C, names, total, asked)
  BY <1>5 DEF Follows
<1> QED
  BY <1>6, <1>7

\* What has been resolved at the end is apart, ...
LEMMA ResolvedApart ==
  ASSUME NEW names, NEW total \in Nat, NEW asked,
         \A n \in DOMAIN asked : asked[n] \in Nat \ {0}
  PROVE  Apart(Resolution(names, total, asked)[total], asked)
<1> DEFINE F == Resolution(names, total, asked)
           G == {i \in 0..total : Apart(F[i], asked)}
<1>1. Follows(F, names, total, asked)
  BY ResolutionFollows
<1> HIDE DEF F
<1>2. 0 \in G
  <2>1. F[0] = Unresolved
    BY <1>1 DEF Follows
  <2>2. Apart(Unresolved, asked)
    BY FS_EmptySet DEF Apart, Unresolved, Absent
  <2> QED
    BY <2>1, <2>2
<1>3. ASSUME NEW n \in G, n < total PROVE n + 1 \in G
  <2>1. n + 1 \in 1..total /\ (n + 1) - 1 = n /\ n + 1 \in 0..total
    BY <1>3
  <2>2. F[n + 1] = ResolveNext(F[n], names[n + 1], asked)
    BY <1>1, <2>1 DEF Follows
  <2> QED
    BY <2>1, <2>2, ApartKept
<1>4. total \in G
  <2> HIDE DEF G
  <2>1. G \in SUBSET (0..total)
    BY DEF G
  <2>2. G = 0..total
    BY <1>2, <1>3, <2>1, AllUpTo
  <2> QED
    BY <2>2
<1> QED
  BY <1>4 DEF F

\* ... and fair, if no name comes twice.
LEMMA ResolvedFair ==
  ASSUME NEW names, NEW total \in Nat, NEW asked,
         \A n \in DOMAIN asked : asked[n] \in Nat \ {0},
         \A i, j \in 1..total : i # j => names[i] # names[j]
  PROVE  Fair(Resolution(names, total, asked)[total], asked, {names[i] : i \in 1..total})
<1> DEFINE F == Resolution(names, total, asked)
           S(k) == {names[i] : i \in 1..k}
           G == {k \in 0..total : Apart(F[k], asked) /\ Fair(F[k], asked, S(k))}
<1>1. Follows(F, names, total, asked)
  BY ResolutionFollows
<1> HIDE DEF F
<1>2. 0 \in G
  <2>1. F[0] = Unresolved
    BY <1>1 DEF Follows
  <2>2. Apart(Unresolved, asked) /\ Fair(Unresolved, asked, S(0))
    BY FS_EmptySet DEF Apart, Fair, Unresolved, Absent
  <2> QED
    BY <2>1, <2>2
<1>3. ASSUME NEW n \in G, n < total PROVE n + 1 \in G
  <2>1. n + 1 \in 1..total /\ (n + 1) - 1 = n /\ n + 1 \in 0..total /\ n \in Nat
    BY <1>3
  <2>2. F[n + 1] = ResolveNext(F[n], names[n + 1], asked)
    BY <1>1, <2>1 DEF Follows
  <2>3. names[n + 1] \notin S(n)
    BY <2>1
  <2>4. S(n + 1) = S(n) \cup {names[n + 1]}
    BY <2>1
  <2> HIDE DEF S
  <2>5. Apart(F[n], asked) /\ Fair(F[n], asked, S(n))
    OBVIOUS
  <2>6. Apart(F[n + 1], asked)
    BY <2>2, <2>5, ApartKept
  <2>7. Fair(F[n + 1], asked, S(n + 1))
    BY <2>2, <2>3, <2>4, <2>5, FairKept
  <2> QED
    BY <2>1, <2>6, <2>7
<1>4. total \in G
  <2> HIDE DEF G
  <2>1. G \in SUBSET (0..total)
    BY DEF G
  <2>2. G = 0..total
    BY <1>2, <1>3, <2>1, AllUpTo
  <2> QED
    BY <2>2
<1> QED
  BY <1>4 DEF F

-----------------------------------------------------------------------------
(* The order of the names.                                                 *)

Named(results) ==
  /\ DOMAIN results \subseteq Dir
  /\ \A d \in DOMAIN results : results[d].name \in Nat \ {0}

LEMMA FewDirs ==
  ASSUME NEW results, Named(results)
  PROVE  IsFiniteSet(DOMAIN results) /\ Cardinality(DOMAIN results) \in 0..3
<1>1. IsFiniteSet(0..2) /\ Cardinality(0..2) = 3
  <2>1. IsFiniteSet({0}) /\ Cardinality({0}) = 1
    BY FS_Singleton
  <2>2. IsFiniteSet({0} \cup {1}) /\ Cardinality({0} \cup {1}) = 2
    BY <2>1, FS_AddElement
  <2>3. IsFiniteSet(({0} \cup {1}) \cup {2}) /\ Cardinality(({0} \cup {1}) \cup {2}) = 3
    BY <2>2, FS_AddElement
  <2>4. 0..2 = ({0} \cup {1}) \cup {2}
    OBVIOUS
  <2> QED
    BY <2>3, <2>4
<1>2. DOMAIN results \in SUBSET (0..2)
  BY DEF Named, Dir
<1>3. IsFiniteSet(DOMAIN results) /\ Cardinality(DOMAIN results) <= 3
  BY <1>1, <1>2, FS_Subset
<1> QED
  BY <1>3, FS_CardinalityType

\* Every directory has a place of its own among the sorted names.
LEMMA Places ==
  ASSUME NEW results, Named(results)
  PROVE  LET D == DOMAIN results
             N == Cardinality(D)
             Place(d) == Cardinality(UpToName(results, d))
         IN /\ \A d \in D : Place(d) \in 1..N
            /\ \A d, e \in D : d # e => Place(d) # Place(e)
            /\ \A i \in 1..N : \E d \in D : Place(d) = i
<1> DEFINE D == DOMAIN results
           N == Cardinality(D)
           U(d) == UpToName(results, d)
           Place(d) == Cardinality(UpToName(results, d))
<1>1. IsFiniteSet(D) /\ N \in Nat /\ D \subseteq Int
  BY FewDirs DEF Named, Dir
<1>2. \A d \in D : results[d].name \in Int
  BY DEF Named
<1>3. \A d \in D : U(d) \in SUBSET D /\ d \in U(d)
  BY <1>1 DEF UpToName
<1>4. ASSUME NEW d \in D, NEW e \in D, d # e
      PROVE  \/ U(d) \subseteq U(e) /\ e \notin U(d)
             \/ U(e) \subseteq U(d) /\ d \notin U(e)
  BY <1>1, <1>2, <1>4 DEF UpToName
<1> HIDE DEF D, U
<1>5. ASSUME NEW d \in D PROVE IsFiniteSet(U(d)) /\ Cardinality(U(d)) \in 1..N
  <2>1. IsFiniteSet(U(d)) /\ Cardinality(U(d)) <= N
    BY <1>1, <1>3, FS_Subset
  <2>2. Cardinality(U(d)) \in Nat /\ Cardinality(U(d)) # 0
    BY <1>3, <2>1, FS_CardinalityType, FS_EmptySet
  <2> QED
    BY <1>1, <2>1, <2>2
<1>6. ASSUME NEW d \in D, NEW e \in D, U(d) \subseteq U(e), e \notin U(d)
      PROVE  Cardinality(U(d)) # Cardinality(U(e))
  <2>1. U(d) \in SUBSET U(e)
    BY <1>6
  <2> QED
    BY <1>3, <1>5, <1>6, <2>1, FS_Subset
<1>7. \A d, e \in D : d # e => Cardinality(U(d)) # Cardinality(U(e))
  BY <1>4, <1>6
<1> DEFINE f == [d \in D |-> Cardinality(U(d))]
<1>8. f \in Injection(D, 1..N)
  BY <1>5, <1>7 DEF Injection, IsInjective
<1>9. IsFiniteSet(1..N) /\ Cardinality(1..N) = N
  BY <1>1, FS_Interval
<1>10. f \in Surjection(D, 1..N)
  <2> HIDE DEF f
  <2> QED
    BY <1>8, <1>9, FS_Injection
<1>11. \A i \in 1..N : \E d \in D : Cardinality(U(d)) = i
  BY <1>10 DEF Surjection
<1> QED
  BY <1>5, <1>7, <1>11 DEF D, U

\* ServiceNames has all names of the results and no other, each as often as there
\* are directories of it.
LEMMA NamesSorted ==
  ASSUME NEW results, Named(results)
  PROVE  LET D == DOMAIN results
             N == Cardinality(D)
             names == ServiceNames(results)
         IN /\ {names[i] : i \in 1..N} = NamesOf(results)
            /\ (\A d, e \in D : results[d].name = results[e].name => d = e) =>
                 \A i, j \in 1..N : i # j => names[i] # names[j]
<1> DEFINE D == DOMAIN results
           N == Cardinality(D)
           names == ServiceNames(results)
           Place(d) == Cardinality(UpToName(results, d))
           at(i) == CHOOSE d \in D : Place(d) = i
<1>1. /\ \A d \in D : Place(d) \in 1..N
      /\ \A d, e \in D : d # e => Place(d) # Place(e)
      /\ \A i \in 1..N : \E d \in D : Place(d) = i
  BY Places
<1>2. \A i \in 1..N : names[i] = results[at(i)].name
  BY DEF ServiceNames
<1> HIDE DEF names, Place
<1>3. \A i \in 1..N : at(i) \in D /\ Place(at(i)) = i
  BY <1>1
<1>4. \A d \in D : at(Place(d)) = d
  BY <1>1, <1>3
<1> HIDE DEF at
<1>5. {names[i] : i \in 1..N} = {results[d].name : d \in D}
  <2>1. \A i \in 1..N : \E d \in D : names[i] = results[d].name
    BY <1>2, <1>3
  <2>2. \A d \in D : Place(d) \in 1..N /\ names[Place(d)] = results[d].name
    BY <1>1, <1>2, <1>4
  <2> QED
    BY <2>1, <2>2
<1>6. ASSUME \A d, e \in D : results[d].name = results[e].name => d = e,
             NEW i \in 1..N, NEW j \in 1..N, names[i] = names[j]
      PROVE  i = j
  BY <1>2, <1>3, <1>6
<1> QED
  BY <1>5, <1>6 DEF NamesOf, names

\* findResult finds one of that name.
LEMMA FindsOne ==
  ASSUME NEW results, Named(results), NEW n \in NamesOf(results)
  PROVE  \E d \in DOMAIN results : findResult(n, results) = results[d] /\ results[d].name = n
<1> DEFINE T == {d \in DOMAIN results : results[d].name = n}
<1>1. T \in SUBSET Nat /\ T # {}
  BY DEF NamesOf, Named, Dir
<1> HIDE DEF T
<1>2. PICK x \in T : \A y \in T : x <= y
  BY <1>1, Least
<1>3. x \in DOMAIN results /\ results[x].name = n
      /\ \A e \in DOMAIN results : results[e].name = n => x <= e
  BY <1>2 DEF T
<1> QED
  BY <1>3 DEF findResult

-----------------------------------------------------------------------------
(* The ports that are asked for.                                           *)

Number == PortFound \cup {8080}
Port == [port : Number, priority : 0..10]

LEMMA Numbers ==
  /\ Number \subseteq Nat \ {0} /\ IsFiniteSet(Number)
  /\ \A f \in File : f.port \in Number \cup {0}
<1>1. \A f \in File : f.port \in Number \cup {0}
  BY DEF File, Number
<1> QED
  BY <1>1, ScanAssumption, FS_AddElement DEF Number

\* bestPort is one of them.
LEMMA BestIsOne ==
  ASSUME NEW S \in SUBSET Port, S # {}
  PROVE  bestPort(S) \in Nat \ {0}
<1> DEFINE low == {10 - p.priority : p \in S}
<1>1. low \in SUBSET Nat /\ low # {}
  BY DEF Port
<1>2. PICK x \in low : \A y \in low : x <= y
  BY <1>1, Least
<1>3. PICK p \in S : x = 10 - p.priority
  BY <1>2
<1>4. ASSUME NEW q \in S PROVE q.priority <= p.priority
  <2>1. x <= 10 - q.priority
    BY <1>2
  <2> QED
    BY <1>3, <2>1 DEF Port
<1> DEFINE top == {q \in S : \A r \in S : r.priority <= q.priority}
           nums == {q.port : q \in top}
<1>5. nums \in SUBSET Number /\ nums # {}
  <2>1. p \in top
    BY <1>4
  <2>2. p.port \in nums
    BY <2>1
  <2> QED
    BY <2>2 DEF Port
<1>6. PICK m \in nums : \A n \in nums : m <= n
  <2> HIDE DEF nums
  <2>1. nums \in SUBSET Nat
    BY <1>5, Numbers
  <2> QED
    BY <1>5, <2>1, Least
<1>7. \A q \in top : m <= q.port
  BY <1>6
<1>8. bestPort(S) \in nums
  BY <1>6, <1>7 DEF bestPort
<1> QED
  BY <1>5, <1>8, Numbers

\* The language of a service, and what every result of a scan is like.
Language == Commands \cup Images \cup {"docker", "none"}

ResultRec(r) ==
  /\ r.ports \in SUBSET Port
  /\ r.language \in Language
  /\ r.command \in BOOLEAN /\ r.build \in BOOLEAN
  /\ r.language # "none" => r.command \/ r.language \in Images \/ r.build

Results(R) ==
  /\ Named(R) /\ DOMAIN R # {}
  /\ \A d \in DOMAIN R :
       R[d].dir = d /\ ResultRec(R[d]) /\ (R[d].build => hasFile(d, "Dockerfile"))

LEMMA OriginalPortType ==
  ASSUME NEW r, ResultRec(r)
  PROVE  OriginalPort(r) \in Nat
<1>1. ASSUME r.ports # {} PROVE OriginalPort(r) \in Nat
  BY <1>1, BestIsOne DEF OriginalPort, ResultRec
<1>2. ASSUME r.language # "none" PROVE KnownDefault[r.language] \in Nat
  <2>1. r.language \in Commands \cup Images \cup {"docker"}
    BY <1>2 DEF ResultRec, Language
  <2> QED
    BY <2>1 DEF KnownDefault, Commands, Images
<1> QED
  BY <1>1, <1>2 DEF OriginalPort

LEMMA FoundResult ==
  ASSUME NEW R, Results(R), NEW n \in NamesOf(R)
  PROVE  /\ ResultRec(findResult(n, R))
         /\ OriginalPort(findResult(n, R)) \in Nat
         /\ \E d \in DOMAIN R : findResult(n, R) = R[d]
<1>1. PICK d \in DOMAIN R : findResult(n, R) = R[d]
  BY FindsOne DEF Results
<1>2. ResultRec(findResult(n, R))
  BY <1>1 DEF Results
<1> QED
  BY <1>1, <1>2, OriginalPortType

LEMMA AskedFacts ==
  ASSUME NEW R, Results(R)
  PROVE  LET asked == AskedPorts(R)
         IN /\ \A n \in DOMAIN asked : asked[n] \in Nat \ {0}
            /\ DOMAIN asked \subseteq NamesOf(R)
            /\ \A n \in NamesOf(R) :
                 IF n \in DOMAIN asked THEN asked[n] = OriginalPort(findResult(n, R))
                                       ELSE OriginalPort(findResult(n, R)) = 0
<1> DEFINE asked == AskedPorts(R)
           of(n) == OriginalPort(findResult(n, R))
<1>1. asked = [n \in {m \in NamesOf(R) : of(m) # 0} |-> of(n)]
  BY DEF AskedPorts
<1>2. \A n \in NamesOf(R) : of(n) \in Nat
  BY FoundResult
<1> HIDE DEF asked, of
<1>3. /\ \A n \in DOMAIN asked : asked[n] \in Nat \ {0}
      /\ DOMAIN asked \subseteq NamesOf(R)
      /\ \A n \in NamesOf(R) :
           IF n \in DOMAIN asked THEN asked[n] = of(n) ELSE of(n) = 0
  BY <1>1, <1>2
<1> QED
  BY <1>3 DEF asked, of

\* The resolved ports: every name that asks has one, no two the same one, and
\* who does not have what it asked for made room for another.
LEMMA ResolvedPorts ==
  ASSUME NEW R, Results(R)
  PROVE  LET got == ResolveConflicts(R)
             asked == AskedPorts(R)
         IN /\ DOMAIN got \subseteq DOMAIN asked
            /\ \A n \in DOMAIN got : got[n] \in Nat \ {0}
            /\ \A m, n \in DOMAIN got : m # n => got[m] # got[n]
            /\ (\A d, e \in DOMAIN R : R[d].name = R[e].name => d = e) =>
                 /\ DOMAIN got = DOMAIN asked
                 /\ \A n \in DOMAIN got : got[n] # asked[n] =>
                      \E m \in DOMAIN got : m # n /\ got[m] = asked[n]
<1> DEFINE got == ResolveConflicts(R)
           asked == AskedPorts(R)
           N == Cardinality(DOMAIN R)
           names == ServiceNames(R)
           last == Resolution(names, N, asked)[N]
<1>1. Named(R) /\ N \in Nat
  BY FewDirs DEF Results
<1>2. \A n \in DOMAIN asked : asked[n] \in Nat \ {0}
  BY AskedFacts
<1>3. DOMAIN asked \subseteq NamesOf(R)
  BY AskedFacts
<1>4. got = last.got
  BY DEF ResolveConflicts
<1>5. /\ {names[i] : i \in 1..N} = NamesOf(R)
      /\ (\A d, e \in DOMAIN R : R[d].name = R[e].name => d = e) =>
           \A i, j \in 1..N : i # j => names[i] # names[j]
  BY <1>1, NamesSorted
<1> HIDE DEF names, N, asked, got
<1>6. Apart(last, asked)
  BY <1>1, <1>2, ResolvedApart
<1>7. ASSUME \A d, e \in DOMAIN R : R[d].name = R[e].name => d = e
      PROVE  Fair(last, asked, NamesOf(R))
  <2>1. \A i, j \in 1..N : i # j => names[i] # names[j]
    BY <1>5, <1>7
  <2>2. Fair(last, asked, {names[i] : i \in 1..N})
    BY <1>1, <1>2, <2>1, ResolvedFair
  <2> QED
    BY <1>5, <2>2
<1> HIDE DEF last
<1>8. /\ DOMAIN got \subseteq DOMAIN asked
      /\ \A n \in DOMAIN got : got[n] \in Nat \ {0}
      /\ \A m, n \in DOMAIN got : m # n => got[m] # got[n]
  BY <1>4, <1>6 DEF Apart
<1>9. ASSUME \A d, e \in DOMAIN R : R[d].name = R[e].name => d = e
      PROVE  /\ DOMAIN got = DOMAIN asked
             /\ \A n \in DOMAIN got : got[n] # asked[n] =>
                  \E m \in DOMAIN got : m # n /\ got[m] = asked[n]
  BY <1>3, <1>4, <1>7, <1>9 DEF Fair
<1> QED
  BY <1>8, <1>9 DEF got, asked

ServiceRec == [port : Nat, ports : SUBSET Nat, command : BOOLEAN,
               image : BOOLEAN, build : BOOLEAN]

\* The configuration that is made of the results of a scan.
LEMMA DetectedServices ==
  ASSUME NEW R, Results(R)
  PROVE  LET Y == AutoDetect(R)
             got == ResolveConflicts(R)
         IN /\ DOMAIN Y = NamesOf(R) /\ NamesOf(R) # {}
            /\ \A n \in NamesOf(R) :
                 LET r == findResult(n, R)
                     all == {p.port : p \in r.ports}
                 IN /\ Y[n] \in ServiceRec
                    /\ Y[n].port = IF n \in DOMAIN got THEN got[n] ELSE 0
                    /\ Y[n].ports = IF Cardinality(all) > 1 THEN all ELSE {}
                    /\ Y[n].command = r.command
                    /\ Y[n].image = (r.language \in Images)
                    /\ Y[n].build = r.build
<1> DEFINE Y == AutoDetect(R)
           got == ResolveConflicts(R)
<1>1. \A n \in DOMAIN got : got[n] \in Nat
  BY ResolvedPorts
<1>2. NamesOf(R) # {} /\ DOMAIN Y = NamesOf(R)
  BY DEF NamesOf, AutoDetect, Results
<1>3. ASSUME NEW n \in NamesOf(R)
      PROVE  LET r == findResult(n, R)
                 all == {p.port : p \in r.ports}
             IN /\ Y[n] \in ServiceRec
                /\ Y[n].port = IF n \in DOMAIN got THEN got[n] ELSE 0
                /\ Y[n].ports = IF Cardinality(all) > 1 THEN all ELSE {}
                /\ Y[n].command = r.command
                /\ Y[n].image = (r.language \in Images)
                /\ Y[n].build = r.build
  <2> DEFINE r == findResult(n, R)
             all == {p.port : p \in r.ports}
             few == IF Cardinality(all) > 1 THEN all ELSE {}
             num == IF n \in DOMAIN got THEN got[n] ELSE 0
  <2>1. Y[n] = [port |-> num, ports |-> few, command |-> r.command,
                image |-> r.language \in Images, build |-> r.build]
    BY DEF AutoDetect
  <2>2. ResultRec(r)
    BY FoundResult
  <2>3. all \in SUBSET Nat
    BY <2>2, Numbers DEF ResultRec, Port
  <2> HIDE DEF r, all
  <2>4. few \in SUBSET Nat /\ num \in Nat
    BY <1>1, <2>3
  <2> HIDE DEF few, num
  <2>5. r.command \in BOOLEAN /\ r.build \in BOOLEAN
    BY <2>2 DEF ResultRec
  <2>6. Y[n] \in ServiceRec
    BY <2>1, <2>4, <2>5 DEF ServiceRec
  <2>7. /\ Y[n].port = num /\ Y[n].ports = few /\ Y[n].command = r.command
        /\ Y[n].image = (r.language \in Images) /\ Y[n].build = r.build
    BY <2>1
  <2> QED
    BY <2>6, <2>7 DEF r, all, few, num
<1> QED
  BY <1>2, <1>3

-----------------------------------------------------------------------------
(* The scan.                                                               *)

Detectors(D) == \A t \in D : t.priority \in 0..10

LEMMA AllDetectors ==
  /\ Detectors(scanEnvFile) /\ Detectors(scanConfigFiles) /\ Detectors(scanRustPattern)
  /\ \A l \in Languages : Detectors(l.by)
<1>1. Detectors(scanEnvFile) /\ Detectors(scanConfigFiles) /\ Detectors(scanRustPattern)
  BY DEF Detectors, scanEnvFile, scanConfigFiles, scanRustPattern, Tree, Own
<1>2. /\ Detectors(scanNodeJS) /\ Detectors(scanGo) /\ Detectors(scanRust)
      /\ Detectors(scanPython)
  BY DEF Detectors, scanNodeJS, scanPackageJSON, scanViteConfig, scanNextConfig,
         scanGo, scanRust, scanPython, Tree, Own
<1>3. /\ Detectors(scanJava) /\ Detectors(scanRuby) /\ Detectors(scanPHP)
      /\ Detectors(scanDockerfile)
  BY DEF Detectors, scanJava, scanRuby, scanPHP, scanDockerfile, Tree, Own
<1>4. /\ Detectors(scanPostgreSQL) /\ Detectors(scanMySQL) /\ Detectors(scanRedis)
      /\ Detectors(scanMongoDB)
  BY DEF Detectors, scanPostgreSQL, scanMySQL, scanRedis, scanMongoDB, Tree, Own
<1>5. ASSUME NEW l \in Languages
      PROVE  l.by \in {scanNodeJS, scanGo, scanRust, scanPython, scanJava, scanRuby, scanPHP,
                       scanDockerfile, scanPostgreSQL, scanMySQL, scanRedis, scanMongoDB}
  BY DEF Languages
<1> QED
  BY <1>1, <1>2, <1>3, <1>4, <1>5

\* The languages: those of a command, those of an image, and "docker", which a
\* Dockerfile shows.
LEMMA LanguageFacts ==
  ASSUME NEW l \in Languages
  PROVE  /\ l.is \in Commands \cup Images \cup {"docker"}
         /\ l.is = "docker" => l.shown = "Dockerfile"
         /\ \E i \in 1..12 : Precedence[i] = l.is
<1>1. /\ l.is \in Commands \cup Images \cup {"docker"}
      /\ l.is = "docker" => l.shown = "Dockerfile"
  BY DEF Languages, Commands, Images
<1>2. /\ Precedence[1] = "python" /\ Precedence[2] = "rust" /\ Precedence[3] = "go"
      /\ Precedence[4] = "node" /\ Precedence[5] = "java" /\ Precedence[6] = "ruby"
      /\ Precedence[7] = "php" /\ Precedence[8] = "docker" /\ Precedence[9] = "postgres"
      /\ Precedence[10] = "mysql" /\ Precedence[11] = "redis" /\ Precedence[12] = "mongo"
  BY DEF Precedence
<1>3. \E i \in 1..12 : Precedence[i] = l.is
  <2> HIDE DEF Precedence
  <2> QED
    BY <1>1, <1>2 DEF Commands, Images
<1> QED
  BY <1>1, <1>3

LEMMA DetectedType ==
  ASSUME files \subseteq File, NEW d, NEW D, Detectors(D)
  PROVE  DetectedPorts(d, D) \in SUBSET Port
<1> SUFFICES ASSUME NEW x \in DetectedPorts(d, D) PROVE x \in Port
  OBVIOUS
<1>1. PICK p \in files \X D : p[1].port # 0 /\ x = [port |-> p[1].port, priority |-> p[2].priority]
  BY DEF DetectedPorts
<1>2. p[1] \in File /\ p[2] \in D
  OBVIOUS
<1>3. p[1].port \in Number
  BY <1>1, <1>2, Numbers
<1> QED
  BY <1>1, <1>2, <1>3 DEF Port, Detectors

LEMMA LanguagePortsType ==
  ASSUME files \subseteq File, NEW d, NEW L \in SUBSET Languages
  PROVE  LanguagePorts(d, L) \in SUBSET Port
<1> DEFINE of(l) == IF l.is = "rust" /\ DetectedPorts(d, l.by) = {}
                      THEN DetectedPorts(d, scanRustPattern)
                      ELSE DetectedPorts(d, l.by)
<1>1. ASSUME NEW l \in L PROVE of(l) \in SUBSET Port
  <2>1. Detectors(l.by) /\ Detectors(scanRustPattern)
    BY AllDetectors
  <2>2. DetectedPorts(d, l.by) \in SUBSET Port /\ DetectedPorts(d, scanRustPattern) \in SUBSET Port
    BY <2>1, DetectedType
  <2> QED
    BY <2>2
<1>2. LanguagePorts(d, L) = UNION {of(l) : l \in L}
  BY DEF LanguagePorts
<1> HIDE DEF of
<1> QED
  BY <1>1, <1>2

LEMMA ComposePortsType ==
  ASSUME files \subseteq File, NEW d, NEW sofar, NEW c \in ComposePorts(d, sofar)
  PROVE  c \in SUBSET Port
<1> DEFINE of(f) == IF f.port = 0 THEN [port |-> 8080, priority |-> 1]
                                  ELSE [port |-> f.port, priority |-> 8]
           all == {f \in files : f.dir = d /\ f.kind = Compose}
           own == {of(f) : f \in {g \in all : g.service = name[d]}}
<1>1. ASSUME NEW f \in all PROVE of(f) \in Port
  <2> HIDE DEF of
  <2>1. f \in File
    OBVIOUS
  <2>2. f.port \in Number \cup {0}
    BY <2>1, Numbers
  <2>3. 8080 \in Number
    BY DEF Number
  <2> QED
    BY <2>2, <2>3 DEF Port, of
<1>2. c \in IF sofar # {} \/ all = {} THEN {own} ELSE {own \cup {of(f)} : f \in all}
  BY DEF ComposePorts
<1> HIDE DEF of
<1>3. own \in SUBSET Port
  BY <1>1
<1> HIDE DEF own
<1> QED
  BY <1>1, <1>2, <1>3

\* What shows a directory's language also says what it runs.
LEMMA LanguageOfFacts ==
  ASSUME NEW d
  PROVE  /\ LanguageOf(d) \in Language
         /\ LanguageOf(d) # "none" =>
              \/ \E l \in Shown(d) : l.is \in Commands
              \/ LanguageOf(d) \in Images
              \/ hasFile(d, "Dockerfile")
<1> DEFINE shown == {l.is : l \in Shown(d)}
           G == {i \in 1..12 : Precedence[i] \in shown}
<1>1. CASE shown = {}
  BY <1>1 DEF LanguageOf, Language
<1>2. CASE shown # {}
  <2>1. G \in SUBSET Nat /\ G # {}
    <3>1. PICK l \in Shown(d) : TRUE
      BY <1>2
    <3>2. l \in Languages
      BY DEF Shown
    <3>3. PICK i \in 1..12 : Precedence[i] = l.is
      BY <3>2, LanguageFacts
    <3> QED
      BY <3>3
  <2>2. PICK x \in G : \A y \in G : x <= y
    <3> HIDE DEF G
    <3> QED
      BY <2>1, Least
  <2>3. \A j \in 1..(x - 1) : Precedence[j] \notin shown
    BY <2>2
  <2>4. DOMAIN Precedence = 1..12
    BY DEF Precedence
  <2> HIDE DEF shown, Precedence
  <2>5. Precedence[First(shown)] \in shown
    BY <2>2, <2>3, <2>4 DEF First
  <2>6. LanguageOf(d) \in shown
    BY <1>2, <2>5 DEF LanguageOf, shown
  <2>7. PICK l \in Shown(d) : l.is = LanguageOf(d)
    BY <2>6 DEF shown
  <2>8. l \in Languages /\ hasFile(d, l.shown)
    BY DEF Shown
  <2>9. /\ l.is \in Commands \cup Images \cup {"docker"}
        /\ l.is = "docker" => l.shown = "Dockerfile"
    BY <2>8, LanguageFacts
  <2> QED
    BY <2>7, <2>8, <2>9 DEF Language
<1> QED
  BY <1>1, <1>2

LEMMA ScanDirFacts ==
  ASSUME files \subseteq File, NEW d, NEW r \in scanDir(d)
  PROVE  /\ r.dir = d /\ r.name = name[d] /\ ResultRec(r)
         /\ r.build => hasFile(d, "Dockerfile")
<1> DEFINE early == {l \in Shown(d) : l.is \notin Images}
           command == \E l \in Shown(d) : l.is \in Commands
           all(c) == LanguagePorts(d, Shown(d)) \cup c \cup DetectedPorts(d, scanEnvFile)
<1>1. PICK c \in ComposePorts(d, LanguagePorts(d, early)) :
        r = [dir |-> d, name |-> name[d], language |-> LanguageOf(d), command |-> command,
             build |-> hasFile(d, "Dockerfile"), ports |-> dedupePorts(all(c))]
  BY DEF scanDir
<1>2. c \in SUBSET Port
  BY ComposePortsType
<1>3. LanguagePorts(d, Shown(d)) \in SUBSET Port
  BY LanguagePortsType DEF Shown
<1>4. DetectedPorts(d, scanEnvFile) \in SUBSET Port
  BY AllDetectors, DetectedType
<1>5. all(c) \in SUBSET Port
  BY <1>2, <1>3, <1>4
<1> HIDE DEF all
<1>6. dedupePorts(all(c)) \in SUBSET Port
  BY <1>5 DEF dedupePorts
<1>7. hasFile(d, "Dockerfile") \in BOOLEAN /\ command \in BOOLEAN
  BY DEF hasFile
<1>8. /\ LanguageOf(d) \in Language
      /\ LanguageOf(d) # "none" =>
           command \/ LanguageOf(d) \in Images \/ hasFile(d, "Dockerfile")
  BY LanguageOfFacts
<1> HIDE DEF command
<1> QED
  BY <1>1, <1>6, <1>7, <1>8 DEF ResultRec

LEMMA GenericFacts ==
  ASSUME files \subseteq File, name \in [Dir -> Nat \ {0}], scanGeneric # Absent
  PROVE  Results(scanGeneric)
<1> DEFINE env == IF hasFile(Root, ".env") THEN scanEnvFile ELSE {}
           P == DetectedPorts(Root, env) \cup DetectedPorts(Root, scanConfigFiles)
           r == [dir |-> Root, name |-> name[Root], language |-> "none",
                 command |-> FALSE, build |-> FALSE, ports |-> dedupePorts(P)]
<1>1. Detectors(env) /\ Detectors(scanConfigFiles)
  BY AllDetectors DEF Detectors
<1>2. P \in SUBSET Port
  BY <1>1, DetectedType
<1>3. scanGeneric = IF P = {} THEN Absent ELSE
                      [d \in {Root} |->
                         [dir |-> d, name |-> name[d], language |-> "none",
                          command |-> FALSE, build |-> FALSE, ports |-> dedupePorts(P)]]
  BY DEF scanGeneric
<1> HIDE DEF P
<1>4. DOMAIN scanGeneric = {Root} /\ scanGeneric[Root] = r
  BY <1>3
<1>5. dedupePorts(P) \in SUBSET Port
  BY <1>2 DEF dedupePorts
<1>6. r.dir = Root /\ ResultRec(r) /\ r.build = FALSE /\ r.name \in Nat \ {0}
  BY <1>5 DEF ResultRec, Language, Root, Dir
<1> HIDE DEF r
<1> QED
  BY <1>4, <1>6 DEF Results, Named, Root, Dir

\* Every result of a scan is as Results says.
LEMMA ScanFacts ==
  ASSUME files \subseteq File, name \in NameOf,
         NEW depth \in 1..2, NEW R \in Scan(depth), R # Absent
  PROVE  Results(R)
<1> DEFINE dirs == {d \in findProjectGroups(depth) : scanDir(d) # {}}
<1>1. name \in [Dir -> Nat \ {0}]
  BY ScanAssumption
<1>2. CASE dirs = {}
  <2>1. R = scanGeneric
    BY <1>2 DEF Scan
  <2> QED
    BY <1>1, <2>1, GenericFacts
<1>3. CASE dirs # {}
  <2>1. DOMAIN R = dirs /\ \A d \in dirs : R[d] \in scanDir(d)
    BY <1>3 DEF Scan
  <2>2. dirs \subseteq Dir
    BY DEF findProjectGroups, Dir
  <2> HIDE DEF dirs
  <2>3. \A d \in dirs : /\ R[d].dir = d /\ R[d].name = name[d] /\ ResultRec(R[d])
                        /\ R[d].build => hasFile(d, "Dockerfile")
    BY <2>1, ScanDirFacts
  <2>4. Named(R)
    BY <1>1, <2>1, <2>2, <2>3 DEF Named
  <2> QED
    BY <1>3, <2>1, <2>3, <2>4 DEF Results
<1> QED
  BY <1>2, <1>3

-----------------------------------------------------------------------------
(* The project's files, and devbox.yml made of them.                       *)

ScanInv ==
  /\ name \in NameOf /\ files \subseteq File /\ added \in 0..MaxFiles
  /\ \/ yml = Absent /\ found = Absent
     \/ Results(found) /\ yml = AutoDetect(found)

LEMMA WrittenFacts ==
  ASSUME Results(found), yml = AutoDetect(found)
  PROVE  /\ yml # Absent /\ DOMAIN yml = NamesOf(found)
         /\ \A n \in DOMAIN yml : yml[n] \in ServiceRec
<1>1. DOMAIN yml = NamesOf(found) /\ NamesOf(found) # {}
  BY DetectedServices
<1>2. \A n \in NamesOf(found) : yml[n] \in ServiceRec
  BY DetectedServices
<1>3. yml # Absent
  BY <1>1 DEF Absent
<1> QED
  BY <1>1, <1>2, <1>3

LEMMA ScanTyped ==
  ASSUME ScanInv
  PROVE  ScanTypeOK
<1>1. CASE yml = Absent /\ found = Absent
  BY <1>1 DEF ScanInv, ScanTypeOK, Absent
<1>2. CASE Results(found) /\ yml = AutoDetect(found)
  <2>1. DOMAIN yml = NamesOf(found) /\ \A n \in DOMAIN yml : yml[n] \in ServiceRec
    BY <1>2, WrittenFacts
  <2>2. DOMAIN found \subseteq Dir /\ \A d \in DOMAIN found : found[d].dir = d
    BY <1>2 DEF Results, Named
  <2> QED
    BY <2>1, <2>2 DEF ScanInv, ScanTypeOK, ServiceRec, NamesOf
<1> QED
  BY <1>1, <1>2 DEF ScanInv

LEMMA YmlDistinct ==
  ASSUME ScanInv
  PROVE  PortsDistinct
<1>1. CASE yml = Absent
  BY <1>1 DEF PortsDistinct, Absent
<1>2. CASE Results(found) /\ yml = AutoDetect(found)
  <2> DEFINE got == ResolveConflicts(found)
  <2>1. /\ \A n \in DOMAIN got : got[n] \in Nat \ {0}
        /\ \A m, n \in DOMAIN got : m # n => got[m] # got[n]
    BY <1>2, ResolvedPorts
  <2>2. /\ DOMAIN yml = NamesOf(found)
        /\ \A n \in NamesOf(found) : yml[n].port = IF n \in DOMAIN got THEN got[n] ELSE 0
    BY <1>2, DetectedServices
  <2> HIDE DEF got
  <2> QED
    BY <2>1, <2>2 DEF PortsDistinct
<1> QED
  BY <1>1, <1>2 DEF ScanInv

LEMMA YmlFair ==
  ASSUME ScanInv
  PROVE  MovedForAnother
<1>1. CASE yml = Absent
  BY <1>1 DEF MovedForAnother, Absent
<1>2. CASE Results(found) /\ yml = AutoDetect(found)
  <2> SUFFICES ASSUME \A n \in DOMAIN yml : OwnName(n),
                      NEW n \in DOMAIN yml, yml[n].port # Asked(n)
               PROVE  \E m \in DOMAIN yml \ {n} : yml[m].port = Asked(n)
    BY DEF MovedForAnother
  <2> DEFINE got == ResolveConflicts(found)
             asked == AskedPorts(found)
  <2>1. /\ DOMAIN yml = NamesOf(found)
        /\ \A m \in NamesOf(found) : yml[m].port = IF m \in DOMAIN got THEN got[m] ELSE 0
    BY <1>2, DetectedServices
  <2>2. ASSUME NEW d \in DOMAIN found, NEW e \in DOMAIN found, found[d].name = found[e].name
        PROVE  d = e
    <3> DEFINE T == {x \in DOMAIN found : found[x].name = found[d].name}
    <3>1. found[d].name \in DOMAIN yml
      BY <2>1 DEF NamesOf
    <3>2. Cardinality(T) = 1
      BY <3>1 DEF OwnName
    <3>3. IsFiniteSet(DOMAIN found) /\ T \in SUBSET (DOMAIN found)
      BY <1>2, FewDirs DEF Results
    <3>4. d \in T /\ e \in T
      BY <2>2
    <3> HIDE DEF T
    <3>5. IsFiniteSet(T)
      BY <3>3, FS_Subset
    <3>6. PICK x : T = {x}
      BY <3>2, <3>5, FS_Singleton
    <3> QED
      BY <3>4, <3>6
  <2>3. /\ DOMAIN got = DOMAIN asked
        /\ \A m \in DOMAIN got : got[m] # asked[m] =>
             \E k \in DOMAIN got : k # m /\ got[k] = asked[m]
    BY <1>2, <2>2, ResolvedPorts
  <2>4. /\ DOMAIN asked \subseteq NamesOf(found)
        /\ IF n \in DOMAIN asked THEN asked[n] = Asked(n) ELSE Asked(n) = 0
    BY <1>2, <2>1, AskedFacts DEF Asked
  <2> HIDE DEF got, asked
  <2>5. n \in DOMAIN got /\ got[n] # asked[n] /\ asked[n] = Asked(n)
    BY <2>1, <2>3, <2>4
  <2>6. PICK m \in DOMAIN got : m # n /\ got[m] = asked[n]
    BY <2>3, <2>5
  <2> QED
    BY <2>1, <2>3, <2>4, <2>5, <2>6
<1> QED
  BY <1>1, <1>2 DEF ScanInv

LEMMA YmlValid ==
  ASSUME ScanInv
  PROVE  SimpleValidates
<1>1. CASE yml = Absent
  BY <1>1 DEF SimpleValidates, Written
<1>2. CASE Results(found) /\ yml = AutoDetect(found)
  <2> SUFFICES ASSUME \A d \in DOMAIN found :
                        /\ found[d].language # "none"
                        /\ Cardinality({p.port : p \in found[d].ports}) <= 1
                        /\ found[d].build => d = Root
               PROVE  runValidate(yml)
    BY DEF SimpleValidates
  <2>1. DOMAIN yml = NamesOf(found) /\ \A n \in DOMAIN yml : yml[n] \in ServiceRec
    BY <1>2, WrittenFacts
  <2>2. ASSUME NEW n \in DOMAIN yml
        PROVE  /\ yml[n].command \/ yml[n].image \/ yml[n].build
               /\ yml[n].ports = {}
               /\ BuildsFrom(yml[n])
    <3> DEFINE r == findResult(n, found)
               all == {p.port : p \in r.ports}
    <3>1. /\ yml[n].ports = IF Cardinality(all) > 1 THEN all ELSE {}
          /\ yml[n].command = r.command
          /\ yml[n].image = (r.language \in Images)
          /\ yml[n].build = r.build
      BY <1>2, <2>1, DetectedServices
    <3>2. PICK d \in DOMAIN found : r = found[d]
      BY <1>2, <2>1, FoundResult
    <3>3. ResultRec(r) /\ (r.build => hasFile(d, "Dockerfile"))
      BY <1>2, <3>2 DEF Results
    <3>4. r.language # "none" /\ Cardinality(all) <= 1 /\ (r.build => d = Root)
      BY <3>2
    <3>5. all \in SUBSET Number
      BY <3>3 DEF ResultRec, Port
    <3>6. Cardinality(all) \in Nat
      BY <3>5, Numbers, FS_Subset, FS_CardinalityType
    <3>7. ~(Cardinality(all) > 1)
      BY <3>4, <3>6
    <3> HIDE DEF r, all
    <3> QED
      BY <3>1, <3>3, <3>4, <3>7 DEF ResultRec, BuildsFrom
  <2>3. \A m, n \in DOMAIN yml : m # n => HostPorts(yml[m]) \cap HostPorts(yml[n]) = {}
    BY <2>2, YmlDistinct DEF HostPorts, PortsDistinct
  <2> QED
    BY <2>2, <2>3 DEF runValidate, Validate, NotBoth
<1> QED
  BY <1>1, <1>2 DEF ScanInv

LEMMA ScanStarts ==
  ASSUME ScanInit
  PROVE  ScanInv
BY ScanAssumption DEF ScanInit, ScanInv

LEMMA ScanKept ==
  ASSUME ScanInv, ScanNext \/ UNCHANGED scanVars
  PROVE  ScanInv'
<1>1. CASE UNCHANGED scanVars
  <2>1. CASE yml = Absent /\ found = Absent
    BY <1>1, <2>1 DEF ScanInv, scanVars
  <2>2. CASE Results(found) /\ yml = AutoDetect(found)
    <3>1. files' = files /\ found' = found /\ yml' = yml /\ name' = name /\ added' = added
      BY <1>1 DEF scanVars
    <3>2. Results(found)'
      BY <2>2, <3>1 DEF Results, hasFile
    <3> QED
      BY <2>2, <3>1, <3>2 DEF ScanInv
  <2> QED
    BY <2>1, <2>2 DEF ScanInv
<1>2. CASE AddFile
  <2>1. yml = Absent /\ found = Absent
    <3>1. ASSUME Results(found), yml = AutoDetect(found) PROVE yml # Absent
      BY <3>1, WrittenFacts
    <3> QED
      BY <1>2, <3>1 DEF ScanInv, AddFile
  <2>2. name' = name /\ found' = found /\ yml' = yml /\ added' = added + 1 /\ added < MaxFiles
    BY <1>2 DEF AddFile
  <2>3. files' \subseteq File
    BY <1>2 DEF AddFile, ScanInv
  <2> QED
    BY <2>1, <2>2, <2>3, ScanAssumption DEF ScanInv
<1>3. CASE runInit
  <2> DEFINE Writes(results) ==
               results # Absent /\ found' = results /\ yml' = AutoDetect(results)
  <2>0. PICK depth \in 1..2 : \E results \in Scan(depth) : Writes(results)
    BY <1>3 DEF runInit
  <2>1. PICK results \in Scan(depth) : Writes(results)
    BY <2>0
  <2>2. name' = name /\ files' = files /\ added' = added
    BY <1>3 DEF runInit
  <2>3. Results(results)
    BY <2>1, ScanFacts DEF ScanInv
  <2>4. Results(found)'
    BY <2>1, <2>2, <2>3 DEF Results, hasFile
  <2> QED
    BY <2>1, <2>2, <2>4 DEF ScanInv
<1> QED
  BY <1>1, <1>2, <1>3 DEF ScanNext

-----------------------------------------------------------------------------
(* The ports of a Start.                                                   *)

AllOnDocker == \A n \in Services : OnDocker(n)

PortsTyped ==
  /\ phase \in {"off", "plan", "launch", "up", "failed"}
  /\ pending \subseteq Services /\ binding \subseteq Services
  /\ outside \subseteq OutsidePorts /\ disturbed \in BOOLEAN
  /\ moves \in 0..MaxOutside /\ starts \in 0..MaxStarts
  /\ phase = "off" => pending = {} /\ binding = {} /\ listens = Absent
  /\ phase # "off" =>
       yml # Absent /\ ports \in [Services -> Nat] /\ listens \in [Services -> Nat]

\* A port is replaced, and a service created, in the middle of a Start.
NowOK ==
  \/ now = Nobody
  \/ now \in [service : Services, step : {"find"}] /\ phase \in {"plan", "launch"}
  \/ now \in [service : Services, step : {"create"}] /\ phase = "launch"

\* Where Docker runs everything and no other program came in between, the port
\* of the service to be created next is free.
NextIsFree == ports[now.service] = 0 \/ CanBind(ports[now.service])

Undisturbed ==
  AllOnDocker =>
    /\ binding = {}
    /\ ~disturbed /\ now.step = "create" => NextIsFree

PortsInv == PortsTyped /\ NowOK /\ Undisturbed

ProjectIInv == ScanInv /\ PortsInv

\* The services of a configuration that is there are of the type of a service.
LEMMA TypedServices ==
  ASSUME ScanInv, yml # Absent
  PROVE  \A n \in Services : yml[n] \in ServiceRec
<1>1. Results(found) /\ yml = AutoDetect(found)
  BY DEF ScanInv
<1> QED
  BY <1>1, WrittenFacts DEF Services

\* FindFreePort finds a port that can be bound, if one of those it tries can.
LEMMA FreePort ==
  ASSUME NEW p \in Nat, FreePorts(p) # {}
  PROVE  FindFreePort(p) \in Nat /\ CanBind(FindFreePort(p))
<1> DEFINE F == FreePorts(p)
<1>1. F \in SUBSET Nat /\ \A q \in F : CanBind(q)
  BY PortsAssumption DEF FreePorts
<1>2. F # {}
  OBVIOUS
<1>3. FindFreePort(p) = CHOOSE q \in F : \A r \in F : q <= r
  BY DEF FindFreePort
<1> HIDE DEF F
<1>4. PICK q \in F : \A r \in F : q <= r
  BY <1>1, <1>2, Least
<1>5. FindFreePort(p) \in F
  BY <1>3, <1>4
<1> QED
  BY <1>1, <1>5

LEMMA StartProjectKeeps ==
  ASSUME ProjectIInv, StartProject, UNCHANGED scanVars
  PROVE  PortsInv'
<1>1. yml' = yml /\ Services' = Services
  BY DEF scanVars, Services
<1>2. /\ now' = Nobody /\ phase' = "plan" /\ binding' = binding /\ disturbed' = FALSE
      /\ outside' = outside /\ moves' = moves /\ starts' = starts + 1 /\ starts < MaxStarts
      /\ yml # Absent
  BY DEF StartProject, ProjectIInv, PortsInv, NowOK, Starting
<1>3. \A n \in Services : yml[n].port \in Nat
  BY <1>2, TypedServices DEF ProjectIInv, ServiceRec
<1>4. ports' \in [Services -> Nat] /\ listens' \in [Services -> Nat] /\ pending' \subseteq Services
  BY <1>3 DEF StartProject, ProjectIInv, PortsInv, PortsTyped
<1>5. PortsTyped'
  <2>1. starts' \in 0..MaxStarts
    BY <1>2, PortsAssumption DEF ProjectIInv, PortsInv, PortsTyped
  <2> QED
    BY <1>1, <1>2, <1>4, <2>1 DEF ProjectIInv, PortsInv, PortsTyped
<1>6. NowOK'
  BY <1>2 DEF ProjectIInv, PortsInv, NowOK
<1>7. Undisturbed'
  BY <1>1, <1>2 DEF ProjectIInv, PortsInv, Undisturbed, AllOnDocker, OnDocker, Nobody
<1> QED
  BY <1>5, <1>6, <1>7 DEF PortsInv

LEMMA PlanKeeps ==
  ASSUME ProjectIInv, UNCHANGED scanVars,
         PlanDone \/ StartDone \/ \E n \in Services : PlanCheck(n)
  PROVE  PortsInv'
<1>1. yml' = yml /\ Services' = Services
  BY DEF scanVars, Services
<1>2. /\ ports' = ports /\ listens' = listens /\ binding' = binding /\ outside' = outside
      /\ disturbed' = disturbed /\ moves' = moves /\ starts' = starts
      /\ phase \in {"plan", "launch"} /\ phase' \in {"plan", "launch", "up"}
      /\ pending' \subseteq Services
      /\ \/ now' = Nobody
         \/ phase' = "plan" /\ now' \in [service : Services, step : {"find"}]
  BY DEF PlanDone, StartDone, PlanCheck, ProjectIInv, PortsInv, PortsTyped, Services
<1>3. PortsTyped'
  BY <1>1, <1>2 DEF ProjectIInv, PortsInv, PortsTyped
<1>4. NowOK'
  BY <1>1, <1>2 DEF ProjectIInv, PortsInv, NowOK
<1>5. Undisturbed'
  <2>1. now'.step # "create"
    BY <1>2 DEF Nobody
  <2> QED
    BY <1>1, <1>2, <2>1 DEF ProjectIInv, PortsInv, Undisturbed, AllOnDocker, OnDocker
<1> QED
  BY <1>3, <1>4, <1>5 DEF PortsInv

\* cleanup leaves services without a port, and forgets only host processes.
LEMMA CleanupFacts ==
  ASSUME NEW old \in SUBSET Services, listens \in [Services -> Nat], Cleanup(old)
  PROVE  /\ listens' \in [Services -> Nat] /\ binding' \subseteq binding
         /\ pending' = {} /\ phase' = "failed"
BY DEF Cleanup

LEMMA FindKeeps ==
  ASSUME ProjectIInv, Find, UNCHANGED scanVars
  PROVE  PortsInv'
<1> DEFINE n == now.service
           free == FreePorts(ports[n])
           q == FindFreePort(ports[n])
<1>1. yml' = yml /\ Services' = Services
  BY DEF scanVars, Services
<1>2. /\ now \in [service : Services, step : {"find"}] /\ n \in Services
      /\ phase \in {"plan", "launch"}
  BY DEF Find, ProjectIInv, PortsInv, NowOK, Nobody
<1>3. /\ ports \in [Services -> Nat] /\ listens \in [Services -> Nat] /\ yml # Absent
      /\ pending \subseteq Services /\ binding \subseteq Services
  BY <1>2 DEF ProjectIInv, PortsInv, PortsTyped
<1>4. /\ outside' = outside /\ disturbed' = disturbed /\ moves' = moves /\ starts' = starts
      /\ ports' = IF free = {} THEN ports ELSE [ports EXCEPT ![n] = q]
      /\ now' = IF phase = "launch" /\ free # {} THEN [service |-> n, step |-> "create"]
                ELSE Nobody
  BY <1>2 DEF Find
<1>5. \/ phase = "launch" /\ free = {} /\ Cleanup(pending \cup {n})
      \/ phase' = phase /\ pending' = pending /\ listens' = listens /\ binding' = binding
  BY DEF Find
<1>6. free # {} => q \in Nat /\ CanBind(q)
  BY <1>2, <1>3, FreePort
<1> HIDE DEF n, free, q
<1>7. ports' \in [Services -> Nat] /\ (free # {} => ports'[n] = q)
  BY <1>2, <1>3, <1>4, <1>6
<1>8. /\ listens' \in [Services -> Nat] /\ binding' \subseteq binding
      /\ pending' \subseteq Services /\ phase' \in {"plan", "launch", "failed"}
  <2>1. pending \cup {n} \in SUBSET Services
    BY <1>2, <1>3
  <2> QED
    BY <1>2, <1>3, <1>5, <2>1, CleanupFacts
<1>9. PortsTyped'
  BY <1>1, <1>3, <1>4, <1>7, <1>8 DEF ProjectIInv, PortsInv, PortsTyped
<1>10. NowOK'
  BY <1>1, <1>2, <1>4, <1>5 DEF NowOK
<1>11. Undisturbed'
  <2>1. ASSUME now'.step = "create" PROVE NextIsFree'
    <3>1. free # {} /\ listens' = listens /\ now'.service = n
      BY <1>4, <1>5, <2>1 DEF Nobody
    <3>2. CanBind(q) /\ ports'[now'.service] = q
      BY <1>6, <1>7, <3>1
    <3> QED
      BY <1>4, <3>1, <3>2 DEF NextIsFree, CanBind, Taken
  <2>2. AllOnDocker' => binding' = {}
    BY <1>1, <1>8 DEF ProjectIInv, PortsInv, Undisturbed, AllOnDocker, OnDocker
  <2> QED
    BY <2>1, <2>2 DEF Undisturbed
<1> QED
  BY <1>9, <1>10, <1>11 DEF PortsInv

LEMMA LaunchCheckKeeps ==
  ASSUME ProjectIInv, NEW n \in Services, LaunchCheck(n), UNCHANGED scanVars
  PROVE  PortsInv'
<1>1. yml' = yml /\ Services' = Services
  BY DEF scanVars, Services
<1>2. /\ ports' = ports /\ listens' = listens /\ binding' = binding /\ outside' = outside
      /\ disturbed' = disturbed /\ moves' = moves /\ starts' = starts
      /\ phase = "launch" /\ phase' = "launch" /\ pending' = pending \ {n}
  BY DEF LaunchCheck
<1>3. \/ now' = [service |-> n, step |-> "find"]
      \/ now' = [service |-> n, step |-> "create"] /\ (ports[n] = 0 \/ CanBind(ports[n]))
  BY DEF LaunchCheck
<1>4. PortsTyped'
  BY <1>1, <1>2 DEF ProjectIInv, PortsInv, PortsTyped
<1>5. NowOK'
  BY <1>1, <1>2, <1>3 DEF ProjectIInv, PortsInv, NowOK
<1>6. Undisturbed'
  <2>1. now'.step = "create" => NextIsFree'
    BY <1>2, <1>3 DEF NextIsFree, CanBind, Taken
  <2> QED
    BY <1>1, <1>2, <2>1 DEF ProjectIInv, PortsInv, Undisturbed, AllOnDocker, OnDocker
<1> QED
  BY <1>4, <1>5, <1>6 DEF PortsInv

LEMMA CreateKeeps ==
  ASSUME ProjectIInv, Create, UNCHANGED scanVars
  PROVE  PortsInv'
<1> DEFINE n == now.service
           p == ports[n]
           other == [listens EXCEPT ![n] = 0]
           busy == p > MaxPort \/ p \in outside \/ \E m \in Services : other[m] = p
<1>1. yml' = yml /\ Services' = Services
  BY DEF scanVars, Services
<1>2. n \in Services /\ phase = "launch" /\ now.step = "create"
  BY DEF Create, ProjectIInv, PortsInv, NowOK, Nobody
<1>3. ports \in [Services -> Nat] /\ listens \in [Services -> Nat] /\ yml # Absent
  BY <1>2 DEF ProjectIInv, PortsInv, PortsTyped
<1>4. /\ now' = Nobody /\ ports' = ports /\ outside' = outside /\ disturbed' = disturbed
      /\ moves' = moves /\ starts' = starts
  BY DEF Create
<1>5. \/ /\ p = 0 \/ ~OnDocker(n)
         /\ listens' = other /\ phase' = phase /\ pending' = pending
         /\ binding' = IF p = 0 THEN binding \ {n} ELSE binding \cup {n}
      \/ p # 0 /\ busy /\ Cleanup(pending)
      \/ /\ listens' = [listens EXCEPT ![n] = p] /\ phase' = phase /\ pending' = pending
         /\ binding' = binding \ {n}
  BY DEF Create
<1>6. /\ listens' \in [Services -> Nat] /\ binding' \subseteq Services
      /\ pending' \subseteq Services /\ phase' \in {"launch", "failed"}
  <2>1. p \in Nat /\ other \in [Services -> Nat] /\ [listens EXCEPT ![n] = p] \in [Services -> Nat]
    BY <1>2, <1>3
  <2>2. binding \subseteq Services /\ pending \subseteq Services
    BY DEF ProjectIInv, PortsInv, PortsTyped
  <2>3. CASE Cleanup(pending)
    BY <1>3, <2>2, <2>3, CleanupFacts
  <2> HIDE DEF n, p, other, busy
  <2> QED
    BY <1>2, <1>5, <2>1, <2>2, <2>3
<1>7. PortsTyped'
  BY <1>1, <1>3, <1>4, <1>6 DEF ProjectIInv, PortsInv, PortsTyped
<1>8. NowOK'
  BY <1>4 DEF ProjectIInv, PortsInv, NowOK
<1>9. ASSUME AllOnDocker PROVE binding' = {}
  <2>0. pending \in SUBSET Services
    BY DEF ProjectIInv, PortsInv, PortsTyped
  <2>1. binding = {} /\ OnDocker(n)
    BY <1>2, <1>9 DEF ProjectIInv, PortsInv, Undisturbed, AllOnDocker
  <2>2. CASE Cleanup(pending)
    BY <1>3, <2>0, <2>1, <2>2, CleanupFacts
  <2> HIDE DEF n, p, other, busy
  <2> QED
    BY <1>5, <2>1, <2>2
<1>10. AllOnDocker' <=> AllOnDocker
  BY <1>1 DEF AllOnDocker, OnDocker
<1>11. Undisturbed'
  BY <1>4, <1>9, <1>10 DEF Undisturbed, Nobody
<1> QED
  BY <1>7, <1>8, <1>11 DEF PortsInv

LEMMA BindKeeps ==
  ASSUME ProjectIInv, NEW n \in Services, Bind(n), UNCHANGED scanVars
  PROVE  PortsInv'
<1>1. yml' = yml /\ Services' = Services
  BY DEF scanVars, Services
<1>2. /\ ports' = ports /\ outside' = outside /\ pending' = pending /\ now' = now
      /\ disturbed' = disturbed /\ moves' = moves /\ starts' = starts
      /\ phase' = phase /\ binding' = binding \ {n} /\ n \in binding
  BY DEF Bind
<1>3. phase # "off" /\ ~AllOnDocker
  BY <1>2 DEF ProjectIInv, PortsInv, PortsTyped, Undisturbed
<1>4. ports \in [Services -> Nat] /\ listens \in [Services -> Nat]
  BY <1>3 DEF ProjectIInv, PortsInv, PortsTyped
<1>5. listens' \in [Services -> Nat]
  BY <1>4 DEF Bind
<1>6. PortsTyped'
  BY <1>1, <1>2, <1>3, <1>5 DEF ProjectIInv, PortsInv, PortsTyped
<1>7. NowOK'
  BY <1>1, <1>2 DEF ProjectIInv, PortsInv, NowOK
<1>8. Undisturbed'
  BY <1>1, <1>3 DEF Undisturbed, AllOnDocker, OnDocker
<1> QED
  BY <1>6, <1>7, <1>8 DEF PortsInv

LEMMA OutsideKeeps ==
  ASSUME ProjectIInv, UNCHANGED scanVars, NEW p \in OutsidePorts,
         OutsideBinds(p) \/ OutsideFrees(p)
  PROVE  PortsInv'
<1>1. yml' = yml /\ Services' = Services
  BY DEF scanVars, Services
<1>2. /\ ports' = ports /\ listens' = listens /\ pending' = pending /\ now' = now
      /\ binding' = binding /\ starts' = starts /\ phase' = phase
  BY DEF OutsideBinds, OutsideFrees
<1>3. \/ /\ outside' = outside \cup {p} /\ moves' = moves + 1 /\ moves < MaxOutside
         /\ disturbed' = (disturbed \/ Starting)
      \/ outside' = outside \ {p} /\ moves' = moves /\ disturbed' = disturbed
  BY DEF OutsideBinds, OutsideFrees
<1>4. moves \in Nat /\ MaxOutside \in Nat /\ moves' \in 0..MaxOutside
  BY <1>3, PortsAssumption DEF ProjectIInv, PortsInv, PortsTyped
<1>5. outside' \subseteq OutsidePorts /\ disturbed' \in BOOLEAN
  BY <1>3 DEF ProjectIInv, PortsInv, PortsTyped, Starting
<1>6. PortsTyped'
  BY <1>1, <1>2, <1>4, <1>5 DEF ProjectIInv, PortsInv, PortsTyped
<1>7. NowOK'
  BY <1>1, <1>2 DEF ProjectIInv, PortsInv, NowOK
<1>8. AllOnDocker' <=> AllOnDocker
  BY <1>1 DEF AllOnDocker, OnDocker
<1>9. ASSUME AllOnDocker, ~disturbed', now.step = "create" PROVE NextIsFree'
  <2>0. ~disturbed
    BY <1>3, <1>9
  <2>1. NextIsFree
    BY <1>9, <2>0 DEF ProjectIInv, PortsInv, Undisturbed
  <2>2. Starting
    BY <1>9 DEF ProjectIInv, PortsInv, NowOK, Nobody, Starting
  <2>3. outside' = outside \ {p}
    BY <1>3, <1>9, <2>2
  <2> QED
    BY <1>2, <2>1, <2>3 DEF NextIsFree, CanBind, Taken
<1>10. Undisturbed'
  BY <1>2, <1>8, <1>9 DEF ProjectIInv, PortsInv, Undisturbed
<1> QED
  BY <1>6, <1>7, <1>10 DEF PortsInv

\* A step of the user or of `devbox init` comes before the first Start.
LEMMA ScanStepKeeps ==
  ASSUME ProjectIInv, ScanNext, UNCHANGED portVars
  PROVE  PortsInv'
<1>1. yml = Absent
  BY DEF ScanNext, AddFile, runInit
<1>2. phase = "off"
  BY <1>1 DEF ProjectIInv, PortsInv, PortsTyped
<1>3. now = Nobody
  BY <1>2 DEF ProjectIInv, PortsInv, NowOK
<1>4. /\ phase' = phase /\ ports' = ports /\ pending' = pending /\ now' = now
      /\ listens' = listens /\ binding' = binding /\ outside' = outside
      /\ disturbed' = disturbed /\ moves' = moves /\ starts' = starts
  BY DEF portVars
<1>5. PortsTyped'
  BY <1>2, <1>4 DEF ProjectIInv, PortsInv, PortsTyped
<1>6. NowOK'
  BY <1>3, <1>4 DEF ProjectIInv, PortsInv, NowOK
<1>7. Undisturbed'
  BY <1>2, <1>3, <1>4 DEF ProjectIInv, PortsInv, PortsTyped, Undisturbed, Nobody
<1> QED
  BY <1>5, <1>6, <1>7 DEF PortsInv

LEMMA ProjectStarts ==
  ASSUME ProjectInit
  PROVE  ProjectIInv
<1>1. ScanInv
  BY ScanStarts DEF ProjectInit
<1>2. PortsTyped
  <2>1. moves \in 0..MaxOutside /\ starts \in 0..MaxStarts
    BY PortsAssumption DEF ProjectInit
  <2> QED
    BY <2>1 DEF ProjectInit, PortsTyped
<1>3. NowOK /\ Undisturbed
  BY DEF ProjectInit, NowOK, Undisturbed, Nobody
<1> QED
  BY <1>1, <1>2, <1>3 DEF ProjectIInv, PortsInv

LEMMA ProjectKept ==
  ASSUME ProjectIInv, [ProjectNext]_projectVars
  PROVE  ProjectIInv'
<1>1. ScanInv'
  <2>1. ScanNext \/ UNCHANGED scanVars
    BY DEF ProjectNext, projectVars
  <2> QED
    BY <2>1, ScanKept DEF ProjectIInv
<1>2. PortsInv'
  <2>1. CASE UNCHANGED projectVars
    <3>1. Services' = Services /\ yml' = yml
      BY <2>1 DEF projectVars, scanVars, Services
    <3>2. /\ phase' = phase /\ ports' = ports /\ pending' = pending /\ now' = now
          /\ listens' = listens /\ binding' = binding /\ outside' = outside
          /\ disturbed' = disturbed /\ moves' = moves /\ starts' = starts
      BY <2>1 DEF projectVars, portVars
    <3>3. PortsTyped' /\ NowOK'
      BY <3>1, <3>2 DEF ProjectIInv, PortsInv, PortsTyped, NowOK
    <3>4. Undisturbed'
      BY <3>1, <3>2 DEF ProjectIInv, PortsInv, Undisturbed, AllOnDocker, OnDocker,
                        NextIsFree, CanBind, Taken
    <3> QED
      BY <3>3, <3>4 DEF PortsInv
  <2>2. CASE ScanNext /\ UNCHANGED portVars
    BY <2>2, ScanStepKeeps
  <2>3. CASE StartProject /\ UNCHANGED scanVars
    BY <2>3, StartProjectKeeps
  <2>4. CASE Find /\ UNCHANGED scanVars
    BY <2>4, FindKeeps
  <2>5. CASE /\ PlanDone \/ StartDone \/ \E n \in Services : PlanCheck(n)
             /\ UNCHANGED scanVars
    BY <2>5, PlanKeeps
  <2>6. CASE Create /\ UNCHANGED scanVars
    BY <2>6, CreateKeeps
  <2>7. ASSUME NEW n \in Services, LaunchCheck(n) \/ Bind(n), UNCHANGED scanVars
        PROVE  PortsInv'
    BY <2>7, LaunchCheckKeeps, BindKeeps
  <2>8. ASSUME NEW p \in OutsidePorts, OutsideBinds(p) \/ OutsideFrees(p), UNCHANGED scanVars
        PROVE  PortsInv'
    BY <2>8, OutsideKeeps
  <2> QED
    BY <2>1, <2>2, <2>3, <2>4, <2>5, <2>6, <2>7, <2>8 DEF ProjectNext
<1> QED
  BY <1>1, <1>2 DEF ProjectIInv

\* In every reachable state the configuration is the one made of what the scan
\* found (AutoDetect), and the Start's memory and the bound ports fit it; the
\* service to be created next has a port that can be bound, where Docker runs
\* every service and no other program took a port during the Start.
THEOREM ProjectInvariance == ProjectSpec => []ProjectIInv
BY ProjectStarts, ProjectKept, PTL DEF ProjectSpec

\* The ports of a generated configuration are distinct, for every project and
\* however many services asked for one port (ResolveConflicts).
THEOREM ProjectCorrect == ProjectSpec => []ProjectInv
<1>1. ASSUME ProjectIInv PROVE ProjectInv
  <2>1. ScanTypeOK /\ PortsDistinct
    BY <1>1, ScanTyped, YmlDistinct DEF ProjectIInv
  <2>2. PortTypeOK
    BY <1>1, <2>1 DEF ProjectIInv, PortsInv, PortsTyped, NowOK, PortTypeOK, Nobody
  <2> QED
    BY <2>1, <2>2 DEF ProjectInv
<1> QED
  BY <1>1, ProjectInvariance, PTL

\* In a project with no two directories of one name, a service leaves the port it
\* asked for only to a service that has it (Resolve).
THEOREM FairMoves == ProjectSpec => []MovedForAnother
<1>1. ProjectIInv => MovedForAnother
  BY YmlFair DEF ProjectIInv
<1> QED
  BY <1>1, ProjectInvariance, PTL

\* What `devbox init` writes for a simple project `devbox validate` accepts
\* (AutoDetect, runValidate).
THEOREM InitAgrees == ProjectSpec => []SimpleValidates
<1>1. ProjectIInv => SimpleValidates
  BY YmlValid DEF ProjectIInv
<1> QED
  BY <1>1, ProjectInvariance, PTL

\* A step on which Create fails finds the port bound: by a program that took it
\* during this Start, or by a host process.
LEMMA CreateFails ==
  ASSUME ProjectIInv, Create, phase' = "failed"
  PROVE  disturbed \/ ~AllOnDocker
<1> DEFINE n == now.service
           p == ports[n]
           other == [listens EXCEPT ![n] = 0]
           busy == p > MaxPort \/ p \in outside \/ \E m \in Services : other[m] = p
<1>1. n \in Services /\ phase = "launch" /\ now.step = "create"
  BY DEF Create, ProjectIInv, PortsInv, NowOK, Nobody
<1>2. ports \in [Services -> Nat] /\ listens \in [Services -> Nat]
  BY <1>1 DEF ProjectIInv, PortsInv, PortsTyped
<1>3. p # 0 /\ busy
  BY <1>1 DEF Create
<1>4. ASSUME AllOnDocker, ~disturbed PROVE FALSE
  <2>1. p <= MaxPort /\ ~Taken(p)
    BY <1>1, <1>3, <1>4 DEF ProjectIInv, PortsInv, Undisturbed, NextIsFree, CanBind
  <2>2. p \in Nat /\ ~(p > MaxPort)
    BY <1>1, <1>2, <2>1, PortsAssumption
  <2>3. p \notin outside /\ \A m \in Services : listens[m] # p
    BY <1>2, <2>1 DEF Taken
  <2>4. \A m \in Services : other[m] # p
    BY <1>2, <1>3, <2>3
  <2> HIDE DEF p, other
  <2> QED
    BY <1>3, <2>2, <2>3, <2>4
<1> QED
  BY <1>4

\* A Start fails for a port only if none of those that FindFreePort tries can be
\* bound, if another program took one during it, or if a service is a host process,
\* which binds late (FindFreePort, resolvePortConflicts, Start).
THEOREM PortsGot == ProjectSpec => StartGetsPorts
<1> DEFINE A == phase # "failed" /\ phase' = "failed" =>
                  \/ disturbed
                  \/ \E n \in Services : ~OnDocker(n)
                  \/ FreePorts(ports[now.service]) = {}
<1>1. ASSUME ProjectIInv, [ProjectNext]_projectVars, phase # "failed", phase' = "failed"
      PROVE  \/ disturbed \/ ~AllOnDocker
             \/ FreePorts(ports[now.service]) = {}
  <2>1. ProjectNext /\ ~(UNCHANGED portVars)
    BY <1>1 DEF projectVars, portVars
  <2>2. Find \/ Create
    BY <1>1, <2>1 DEF ProjectNext, StartProject, PlanDone, StartDone, PlanCheck,
                      LaunchCheck, Bind, OutsideBinds, OutsideFrees
  <2>3. CASE Find
    BY <1>1, <2>3 DEF Find
  <2>4. CASE Create
    BY <1>1, <2>4, CreateFails
  <2> QED
    BY <2>2, <2>3, <2>4
<1>2. ProjectIInv /\ [ProjectNext]_projectVars => [A]_projectVars
  BY <1>1 DEF AllOnDocker
<1>3. ProjectSpec => [][A]_projectVars
  BY <1>2, ProjectInvariance, PTL DEF ProjectSpec
<1> QED
  BY <1>3 DEF StartGetsPorts
=============================================================================
