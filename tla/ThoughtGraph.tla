---------------------------- MODULE ThoughtGraph ----------------------------
(***************************************************************************)
(* GraphView: the queries over the thought DAG.  A graph is                *)
(*   nodes   the ids a projection supplies ({} over the audit store)       *)
(*   edges   records with kind, from and to; two thoughts may be linked by *)
(*           edges of several kinds, and the "DAG" may have cycles         *)
(* Breadth-first layers are sets: the order inside a layer is left out.    *)
(***************************************************************************)
EXTENDS Naturals, Sequences, FiniteSets

LOCAL INSTANCE SequencesExt

Kinds == {"sequence", "branch", "merge", "verifies", "critiques", "derives_from", "tool_invocation", "revises"}
AnyKind == {}
Nowhere == 1000             \* no root reaches the node

Audit(edges) == [nodes |-> {}, edges |-> edges]

Nodes(g) == g.nodes \cup {e.from : e \in g.edges} \cup {e.to : e \in g.edges}
HasIncoming(g) == {e.to : e \in g.edges}
Outgoing(g, id) == {e \in g.edges : e.from = id}
Incoming(g, id) == {e \in g.edges : e.to = id}

Inbound(g, id) == {[id |-> e.from, kind |-> e.kind] : e \in Incoming(g, id)}
Outbound(g, id) == {[id |-> e.to, kind |-> e.kind] : e \in Outgoing(g, id)}

Roots(g) == Nodes(g) \ HasIncoming(g)
Leaves(g) == {id \in Nodes(g) : Outgoing(g, id) = {}}

Allowed(edges, kinds) == IF kinds = AnyKind THEN edges ELSE {e \in edges : e.kind \in kinds}
Reversed(edges) == {[e EXCEPT !.from = e.to, !.to = e.from] : e \in edges}

\* What breadth-first search finds within a number of layers.
Within(edges, start, layers) ==
    LET within[d \in 0..layers] ==
            IF d = 0 THEN start
            ELSE LET before == within[d - 1] IN
                 before \cup {e.to : e \in {x \in edges : x.from \in before}} IN
    within[layers]

\* Without a depth cap the search ends when a layer is empty, after at most as many layers as edges.
Reached(edges, start) == Within(edges, start, Cardinality(edges))

Chronological(g) == Reached(g.edges, Roots(g))

DepthFromRoots(g, id) ==
    IF id \notin Chronological(g) THEN Nowhere
    ELSE CHOOSE d \in 0..Cardinality(g.edges) :
            /\ id \in Within(g.edges, Roots(g), d)
            /\ d > 0 => id \notin Within(g.edges, Roots(g), d - 1)

BranchIdsFrom(g, root) == Reached(Allowed(g.edges, {"branch"}), {root})

Descendants(g, id, kinds) == Reached(Allowed(g.edges, kinds), {id}) \ {id}
Ancestors(g, id, kinds) == Reached(Reversed(Allowed(g.edges, kinds)), {id}) \ {id}
Children(g, id) == Within(g.edges, {id}, 1) \ {id}

\* By one or more edges: a cycle leads a node back to itself.
HasPath(g, from, to, kinds) ==
    LET edges == Allowed(g.edges, kinds) IN
    \E e \in edges : e.to = to /\ e.from \in Reached(edges, {from})

\* Mutant: the in-degree goes down once for each neighbour.
ByNeighbour(g, id, next) == IF Outgoing(g, id) \cap Incoming(g, next) = {} THEN 0 ELSE 1

\* How much of a node's in-degree goes when another one is taken from the queue.
Released(g, id, next) == Cardinality(Outgoing(g, id) \cap Incoming(g, next))

\* Kahn's algorithm, the queue with the longest distance to each node.
Kahn(g) ==
    LET start == [queue |-> SetToSeq(Roots(g)),
                  degree |-> [id \in Nodes(g) |-> Cardinality(Incoming(g, id))],
                  distance |-> [id \in Nodes(g) |-> 0]]
        run[head \in 0..Cardinality(Nodes(g))] ==
            IF head = 0 THEN start
            ELSE LET r == run[head - 1] IN
                 IF head > Len(r.queue) THEN r
                 ELSE LET node == r.queue[head]
                          degree == [id \in Nodes(g) |-> r.degree[id] - Released(g, node, id)]
                          free == {id \in Nodes(g) : degree[id] = 0 /\ r.degree[id] > 0} IN
                      [queue |-> r.queue \o SetToSeq(free),
                       degree |-> degree,
                       distance |-> [id \in Nodes(g) |->
                            IF id \in {e.to : e \in Outgoing(g, node)} /\ r.distance[node] >= r.distance[id]
                            THEN r.distance[node] + 1 ELSE r.distance[id]]] IN
    run[Cardinality(Nodes(g))]

\* topological throws when the queue runs dry before every node was in it.
CycleDetected(g) == Len(Kahn(g).queue) # Cardinality(Nodes(g))
Topological(g) == Kahn(g).queue

Greatest(numbers) == CHOOSE n \in numbers \cup {0} : \A m \in numbers : m <= n

Cyclic == 1000             \* null
LongestPath(g) ==
    IF CycleDetected(g) THEN Cyclic
    ELSE Greatest({Kahn(g).distance[id] : id \in Nodes(g)})

Components(g) == {Reached(g.edges \cup Reversed(g.edges), {id}) : id \in Nodes(g)}

Metrics(g) ==
    [node_count |-> Cardinality(Nodes(g)),
     edge_count |-> Cardinality(g.edges),
     root_count |-> Cardinality(Nodes(g)) - Cardinality(HasIncoming(g)),
     leaf_count |-> Cardinality(Nodes(g)) - Cardinality({e.from : e \in g.edges}),
     longest_path |-> LongestPath(g),
     max_out_degree |-> Greatest({Cardinality(Outgoing(g, id)) : id \in Nodes(g)}),
     max_in_degree |-> Greatest({Cardinality(Incoming(g, id)) : id \in Nodes(g)}),
     edge_kind_counts |-> [kind \in Kinds |-> Cardinality({e \in g.edges : e.kind = kind})],
     component_count |-> Cardinality(Components(g))]

\* The leaves of what is explored from the roots within depthCap layers.
Frontier(g, roots, depthCap) ==
    LET explored == Within(g.edges, roots, depthCap)
        last == explored \ (IF depthCap = 0 THEN {} ELSE Within(g.edges, roots, depthCap - 1)) IN
    IF depthCap = 0 THEN roots ELSE last \cup {id \in explored : Children(g, id) = {}}

\* What a summary of the subtree of a root covers.
Covered(edges, root) == {root} \cup Descendants(Audit(edges), root, AnyKind)
=============================================================================
