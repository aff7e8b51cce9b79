---------------------------- MODULE CycleSearch ----------------------------
(***************************************************************************)
(* The cycle detector of the architecture linter (graph/rules/cycles.py):  *)
(* one depth-first search per start node over the live edges, each frame   *)
(* carrying its own path, and the cycles told apart by their rotation that *)
(* starts with the least node.                                             *)
(*                                                                         *)
(* Nodes are numbers, in the order in which Python sorts their names.  The *)
(* stack is the set of its frames: those of the greatest length are the    *)
(* ones pushed last, siblings of one another, in the order in which the    *)
(* query returned their edges - an order no ORDER BY fixes, so any of them *)
(* may be popped.                                                          *)
(***************************************************************************)
EXTENDS Naturals, Sequences, FiniteSets

CONSTANTS
  Nodes,       \* the nodes of the graph
  MaxDepth     \* max_depth of the rule; what is below 1 behaves as 0

ASSUME NodesAreOrdered == Nodes \subseteq Nat
ASSUME MaxDepthAssumption == MaxDepth \in Nat

VARIABLES
  adj,         \* the live edges of the rule's kinds
  todo,        \* start nodes whose search has not begun
  frames,      \* the paths on the stack
  reported     \* the cycles found, each in the rotation it was found in

search == <<adj, todo, frames, reported>>

Participants(links) == {l[1] : l \in links} \cup {l[2] : l \in links}

NodesOn(path) == {path[i] : i \in 1..Len(path)}
Tip(path) == path[Len(path)]

\* _normalize_cycle: the rotation that starts with the least node.
LeastAt(c) == CHOOSE i \in 1..Len(c) : \A j \in 1..Len(c) : c[i] <= c[j]
NormalizeNever(c) == c                        \* mutant: rotations stay apart
Normalize(c) == SubSeq(c, LeastAt(c), Len(c)) \o SubSeq(c, 1, LeastAt(c) - 1)

Seen == {Normalize(c) : c \in reported}

\* _record_cycle: from the first occurrence of the closing node to the tip.
ClosingWhole(path, i) == path                 \* mutant: the lead-in is kept
Closing(path, i) == SubSeq(path, i, Len(path))

ClosedBy(path) ==
  {Closing(path, i) : i \in {j \in 1..Len(path) : <<Tip(path), path[j]>> \in adj}}

DeeperShort(path) == Len(path) + 1 < MaxDepth \* mutant: off by one
Deeper(path) == Len(path) < MaxDepth

Pushed(path) ==
  IF Deeper(path)
  THEN {Append(path, n) : n \in {m \in Nodes \ NodesOn(path) : <<Tip(path), m>> \in adj}}
  ELSE {}

SearchTypeOK ==
  /\ adj \subseteq Nodes \X Nodes
  /\ todo \subseteq Nodes
  /\ frames \subseteq Seq(Nodes)
  /\ reported \subseteq Seq(Nodes)

SearchInit ==
  /\ adj \in SUBSET (Nodes \X Nodes)
  /\ todo = Participants(adj)
  /\ frames = {} /\ reported = {}

\* evaluate_cycle_rules: the next start node, in sorted order.
NextStart ==
  /\ frames = {}
  /\ \E s \in todo :
       /\ \A t \in todo : s <= t
       /\ frames' = {<<s>>}
       /\ todo' = todo \ {s}
  /\ UNCHANGED <<adj, reported>>

\* _walk_cycles: pop a frame, report what its tip closes, push what extends it.
PopFrame ==
  /\ \E path \in frames :
       /\ \A other \in frames : Len(other) <= Len(path)
       /\ reported' = reported \cup {c \in ClosedBy(path) : Normalize(c) \notin Seen}
       /\ frames' = (frames \ {path}) \cup Pushed(path)
  /\ UNCHANGED <<adj, todo>>

SearchDone == todo = {} /\ frames = {}

SearchNext == NextStart \/ PopFrame

SearchSpec == SearchInit /\ [][SearchNext]_search

(***************************************************************************)
(* What the search promises, in terms that know nothing of paths, stacks   *)
(* and rotations: a cycle is its set of edges.                             *)
(***************************************************************************)
SimplePath(p) ==
  /\ Len(p) >= 1
  /\ \A i, j \in 1..Len(p) : p[i] = p[j] => i = j
  /\ \A i \in 1..(Len(p) - 1) : <<p[i], p[i + 1]>> \in adj

SimpleCycle(c) == SimplePath(c) /\ <<Tip(c), c[1]>> \in adj

Links(c) == {<<c[i], IF i = Len(c) THEN c[1] ELSE c[i + 1]>> : i \in 1..Len(c)}

Cycles == {c \in UNION {[1..k -> Nodes] : k \in 1..MaxDepth} : SimpleCycle(c)}

\* "the same set of unique normalized cycles": every simple cycle of at most
\* MaxDepth nodes is reported once the search is over, although the searches
\* from the different nodes of a cycle meet it in different rotations and the
\* first one to close it decides.
EveryCycleFound ==
  SearchDone => \A c \in Cycles : \E r \in reported : Links(r) = Links(c)

\* What is reported is a cycle of live edges, closed at its ends, without the lead-in
\* by which the search came to it.
CyclesAreReal == \A r \in reported : SimpleCycle(r)

\* A cycle is reported in one of its rotations only, from however many starts and in
\* whatever order it is met.
ReportedOnce == \A r, s \in reported : Links(r) = Links(s) => r = s

=============================================================================
