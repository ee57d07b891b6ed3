------------------------------ MODULE KahnGraph ------------------------------
(***************************************************************************)
(* The dependency graph of engine/internal/orchestrator/graph.go: AddNode  *)
(* for each service of the configuration, in any order (it is a Go map),   *)
(* then one Resolve or Reverse, Kahn's algorithm with in-degrees that it   *)
(* counts down in place.                                                   *)
(*                                                                         *)
(* The prerequisites of a service are a set: the schema of devbox.yml has  *)
(* depends_on with uniqueItems.                                            *)
(***************************************************************************)
EXTENDS Integers, FiniteSets, Sequences, Functions

CONSTANTS
  Node,          \* names of services, and names only mentioned in depends_on
  MaxResolves    \* bound: how often Resolve or Reverse is called on the graph

ASSUME KahnAssumption == IsFiniteSet(Node) /\ MaxResolves \in Nat

VARIABLES
  nodes,        \* g.nodes: name -> prerequisites, {} for a name without entry
  declared,     \* the names that have an entry
  dependents,   \* g.dependents: name -> list of nodes that depend on it
  inDegree,     \* g.inDegree; 0 for a name without entry
  known,        \* the names that have an entry in g.inDegree
  pc,           \* "build", "resolve", or Resolve's verdict: "ordered", "cycle"
  reverse,      \* is it Reverse that was called?
  unseeded,     \* names the first loop of Resolve has not come to yet
  queue, result,
  todo,         \* dependents of the last node of result still to be relaxed
  calls         \* how often Resolve was called

graph == <<nodes, declared, dependents, inDegree, known>>
vars == <<nodes, declared, dependents, inDegree, known, pc, reverse,
          unseeded, queue, result, todo, calls>>

Answer ==
  CASE pc = "ordered" -> [verdict |-> "ordered", reverse |-> reverse, order |-> result]
    [] pc = "cycle" -> [verdict |-> "cycle", reverse |-> reverse, order |-> <<>>]
    [] OTHER -> [verdict |-> "none", reverse |-> FALSE, order |-> <<>>]

Abstract == INSTANCE StartOrder WITH answer <- Answer

TypeOK ==
  /\ nodes \in [Node -> SUBSET Node] /\ declared \in SUBSET Node
  /\ dependents \in [Node -> Seq(Node)]
  /\ inDegree \in [Node -> Int] /\ known \in SUBSET Node
  /\ pc \in {"build", "resolve", "ordered", "cycle"} /\ reverse \in BOOLEAN
  /\ unseeded \in SUBSET known
  /\ queue \in Seq(Node) /\ result \in Seq(Node) /\ todo \in Seq(Node)
  /\ calls \in Nat

Init ==
  /\ nodes = [n \in Node |-> {}] /\ declared = {}
  /\ dependents = [n \in Node |-> <<>>]
  /\ inDegree = [n \in Node |-> 0] /\ known = {}
  /\ pc = "build" /\ reverse = FALSE /\ unseeded = {}
  /\ queue = <<>> /\ result = <<>> /\ todo = <<>>
  /\ calls = 0

\* Mutant: a prerequisite not yet declared is not counted.
AddNodeKnownOnly(n, ds) ==
  /\ pc = "build" /\ n \notin declared
  /\ nodes' = [nodes EXCEPT ![n] = ds]
  /\ declared' = declared \cup {n}
  /\ inDegree' = [inDegree EXCEPT ![n] = @ + Cardinality(ds \cap known)]
  /\ dependents' = [d \in Node |-> IF d \in ds \cap known THEN Append(dependents[d], n)
                                   ELSE dependents[d]]
  /\ known' = known \cup {n} \cup ds
  /\ UNCHANGED <<pc, reverse, unseeded, queue, result, todo, calls>>

\* AddNode(n, ds), once for each service.
AddNode(n, ds) ==
  /\ pc = "build" /\ n \notin declared
  /\ nodes' = [nodes EXCEPT ![n] = ds]
  /\ declared' = declared \cup {n}
  /\ inDegree' = [inDegree EXCEPT ![n] = @ + Cardinality(ds)]
  /\ dependents' = [d \in Node |-> IF d \in ds THEN Append(dependents[d], n)
                                   ELSE dependents[d]]
  /\ known' = known \cup {n} \cup ds
  /\ UNCHANGED <<pc, reverse, unseeded, queue, result, todo, calls>>

\* Resolve, or Reverse which calls it, begins.
Call(r) ==
  /\ pc # "resolve" /\ calls < MaxResolves
  /\ calls' = calls + 1
  /\ pc' = "resolve" /\ reverse' = r
  /\ unseeded' = known /\ queue' = <<>> /\ result' = <<>> /\ todo' = <<>>
  /\ UNCHANGED graph

\* The first loop visits the entries of inDegree in any order.
Seed(n) ==
  /\ pc = "resolve" /\ n \in unseeded
  /\ unseeded' = unseeded \ {n}
  /\ queue' = IF inDegree[n] = 0 THEN Append(queue, n) ELSE queue
  /\ UNCHANGED <<graph, pc, reverse, result, todo, calls>>

\* The next node of the queue goes into the result.
Take ==
  /\ pc = "resolve" /\ unseeded = {} /\ todo = <<>> /\ queue # <<>>
  /\ result' = Append(result, Head(queue))
  /\ queue' = Tail(queue)
  /\ todo' = dependents[Head(queue)]
  /\ UNCHANGED <<graph, pc, reverse, unseeded, calls>>

\* Mutants: a dependent is ready when one prerequisite is left, or at once.
RelaxEarly ==
  /\ pc = "resolve" /\ todo # <<>>
  /\ LET n == Head(todo) IN
       /\ inDegree' = [inDegree EXCEPT ![n] = @ - 1]
       /\ queue' = IF inDegree[n] = 2 THEN Append(queue, n) ELSE queue
  /\ todo' = Tail(todo)
  /\ UNCHANGED <<nodes, declared, dependents, known, pc, reverse, unseeded, result, calls>>

RelaxAtOnce ==
  /\ pc = "resolve" /\ todo # <<>>
  /\ LET n == Head(todo) IN
       /\ inDegree' = [inDegree EXCEPT ![n] = 0]
       /\ queue' = IF inDegree[n] # 0 THEN Append(queue, n) ELSE queue
  /\ todo' = Tail(todo)
  /\ UNCHANGED <<nodes, declared, dependents, known, pc, reverse, unseeded, result, calls>>

\* One of its dependents has one prerequisite less.
Relax ==
  /\ pc = "resolve" /\ todo # <<>>
  /\ LET n == Head(todo) IN
       /\ inDegree' = [inDegree EXCEPT ![n] = @ - 1]
       /\ queue' = IF inDegree[n] = 1 THEN Append(queue, n) ELSE queue
  /\ todo' = Tail(todo)
  /\ UNCHANGED <<nodes, declared, dependents, known, pc, reverse, unseeded, result, calls>>

\* Mutant: only an empty result is an error.
ReturnNonEmpty ==
  /\ pc = "resolve" /\ unseeded = {} /\ todo = <<>> /\ queue = <<>>
  /\ IF result = <<>> /\ known # {}
     THEN pc' = "cycle" /\ UNCHANGED result
     ELSE pc' = "ordered" /\ result' = IF reverse THEN Abstract!Backwards(result) ELSE result
  /\ UNCHANGED <<graph, reverse, unseeded, queue, todo, calls>>

\* Every node is in the result, or there is a cycle; Reverse turns it round.
Return ==
  /\ pc = "resolve" /\ unseeded = {} /\ todo = <<>> /\ queue = <<>>
  /\ IF Len(result) # Cardinality(known)
     THEN pc' = "cycle" /\ UNCHANGED result
     ELSE pc' = "ordered" /\ result' = IF reverse THEN Abstract!Backwards(result) ELSE result
  /\ UNCHANGED <<graph, reverse, unseeded, queue, todo, calls>>

Next ==
  \/ \E n \in Node, ds \in SUBSET Node : AddNode(n, ds)
  \/ \E r \in BOOLEAN : Call(r)
  \/ \E n \in Node : Seed(n)
  \/ Take \/ Relax \/ Return

Spec == Init /\ [][Next]_vars

-------------------------------------------------------------------------------
(* Properties *)

\* What Resolve returns lists every known name once with its prerequisites
\* before it, what Reverse returns the other way round (graph.go:36, :68).
OrderSound ==
  pc = "ordered" =>
    Abstract!IsStartOrder(IF reverse THEN Abstract!Backwards(result) ELSE result)

\* The error "circular dependency" is returned exactly when there is a cycle
\* (graph.go:61), although only a count is compared.
CycleExact ==
  /\ pc = "cycle" => Abstract!Cyclic
  /\ pc = "ordered" => ~Abstract!Cyclic

\* The graph is an implementation of StartOrder.
Implements == Abstract!Spec

(* The inductive invariant of the first Resolve on a graph *)

\* What n still waits for: prerequisites whose dependents have not all been
\* relaxed, n among them.
Waiting(n) ==
  {d \in nodes[n] : \/ d \notin Range(result)
                    \/ d = result[Len(result)] /\ n \in Range(todo)}

\* The three maps say the same.
GraphInv ==
  /\ \A d \in Node : /\ Range(dependents[d]) = {n \in Node : d \in nodes[n]}
                     /\ IsInjective(dependents[d])
  /\ known = declared \cup UNION {nodes[n] : n \in declared}
  /\ \A n \in Node \ declared : nodes[n] = {}

\* In-degrees count what is waited for; a node is in the queue or the result
\* exactly when it waits for nothing and has been looked at.
DegreeInv == \A n \in Node : inDegree[n] = Cardinality(Waiting(n))

PlaceInv ==
  /\ unseeded # {} => result = <<>>
  /\ todo # <<>> => result # <<>> /\ Range(todo) \subseteq Range(dependents[result[Len(result)]])
  /\ \A s \in {queue, result, todo} : IsInjective(s)
  /\ Range(queue) \cap Range(result) = {}
  /\ Range(queue) \cup Range(result) = {n \in known \ unseeded : Waiting(n) = {}}

\* The result is in order, and no node of a cycle is in it.
ResultInv ==
  /\ \A i \in 1..Len(result) : \A d \in nodes[result[i]] : \E j \in 1..(i - 1) : result[j] = d
  /\ \A X \in SUBSET Node : Abstract!Blocked(X) => X \cap Range(result) = {}

KahnInv ==
  /\ TypeOK
  /\ GraphInv
  /\ pc = "build" => /\ queue = <<>> /\ result = <<>> /\ todo = <<>> /\ unseeded = {}
                     /\ calls = 0 /\ DegreeInv
  /\ pc # "build" => calls >= 1
  /\ calls <= MaxResolves
  /\ pc = "resolve" /\ calls = 1 => DegreeInv /\ PlaceInv /\ ResultInv
  /\ calls <= 1 => OrderSound /\ CycleExact

===============================================================================
