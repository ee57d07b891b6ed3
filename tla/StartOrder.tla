------------------------------ MODULE StartOrder ------------------------------
(***************************************************************************)
(* What the dependency graph promises the orchestrator: services and their *)
(* prerequisites go in, and one question later either an order comes out   *)
(* in which every service follows its prerequisites (reversed for Stop),   *)
(* or the verdict that there is none.  KahnGraph implements this; Engine   *)
(* relies on it (StartReady, StopReady, Cyclic).                           *)
(***************************************************************************)
EXTENDS Integers, Functions, Sequences

CONSTANT Node
VARIABLES
  nodes,      \* the prerequisites of each node
  known,      \* the nodes named so far, as services or as prerequisites
  answer      \* what Resolve or Reverse returned

Unanswered == [verdict |-> "none", reverse |-> FALSE, order |-> <<>>]

Backwards(q) == [i \in 1..Len(q) |-> q[Len(q) + 1 - i]]

\* q lists every known node once, after its prerequisites.
IsStartOrder(q) ==
  /\ Range(q) = known
  /\ IsInjective(q)
  /\ \A i \in 1..Len(q) : \A d \in nodes[q[i]] : \E j \in 1..(i - 1) : q[j] = d

\* Nodes that wait for each other.
Blocked(X) == \A n \in X : nodes[n] \cap X # {}
Cyclic == \E X \in SUBSET known : X # {} /\ Blocked(X)

Init == nodes = [n \in Node |-> {}] /\ known = {} /\ answer = Unanswered

Add(n, ds) ==
  /\ answer = Unanswered /\ nodes[n] = {}
  /\ nodes' = [nodes EXCEPT ![n] = ds]
  /\ known' = known \cup {n} \cup ds
  /\ UNCHANGED answer

Order ==
  /\ answer = Unanswered /\ answer'.verdict = "ordered"
  /\ IsStartOrder(IF answer'.reverse THEN Backwards(answer'.order) ELSE answer'.order)
  /\ UNCHANGED <<nodes, known>>

Refuse ==
  /\ answer = Unanswered /\ answer'.verdict = "cycle"
  /\ Cyclic
  /\ UNCHANGED <<nodes, known>>

Next == (\E n \in Node, ds \in SUBSET Node : Add(n, ds)) \/ Order \/ Refuse
Spec == Init /\ [][Next]_<<nodes, known, answer>>
===============================================================================
