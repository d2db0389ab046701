---------------------------- MODULE ContextGraph ----------------------------
(***************************************************************************)
(* The write path of utils/context_graph.py: upsert_node and upsert_edge,  *)
(* the latter with its gate, its deduplication and apply_supersession, by  *)
(* several sessions at once.  A session reads the rows that are committed, *)
(* and its own writes become visible when it commits; nothing but the      *)
(* query protects a (from, to, kind, writer), there is no constraint.      *)
(* Names that begin with Mut are wrong variants.                           *)
(***************************************************************************)
EXTENDS GraphRules

CONSTANTS
  Session,        \* concurrent writers
  NodeInput,      \* what callers pass to upsert_node
  EdgeInput,      \* what callers pass to upsert_edge
  MaxNodes,       \* bound: rows of context_nodes
  MaxEdges        \* bound: rows of context_edges, written or about to be

\* A row of context_edges.
EdgeRow == [from : Nat, to : Nat, kind : STRING, by : STRING \cup {None},
            tier : STRING \cup {None}, conf : Int \cup {None}, earned : BOOLEAN,
            marked : BOOLEAN, sup : Nat \cup {None}]

\* A row of context_nodes.
NodeRow == [type : STRING, sub : STRING, acct : Nat, at : Int \cup {None}, impact : Int \cup {None},
            tag : STRING \cup {None}, conf : Int \cup {None}, pconf : Int \cup {None},
            earned : BOOLEAN, arc : STRING \cup {None}, title : STRING, live : BOOLEAN,
            src : STRING \cup {None}]

\* Every caller makes the event ids of its nodes from the rows of one table, so that
\* an id says what type its node is.
ASSUME GraphAssumption ==
  /\ EdgeInput \subseteq EdgeRow /\ NodeInput \subseteq NodeRow /\ None \notin Nat
  /\ \A m, n \in NodeInput : m.src # None /\ m.src = n.src /\ m.acct = n.acct => m.type = n.type

VARIABLES
  node,           \* context_nodes, in order of id
  edge,           \* context_edges, in order of commit
  writing,        \* what each session has decided and not committed, or {}
  retold,         \* nodes whose subtype an update replaced (history)
  retiered        \* an update in place changed the tier of an edge (history)

gvars == <<node, edge, writing, retold, retiered>>

GraphInit ==
  /\ node = <<>> /\ edge = <<>>
  /\ writing = [w \in Session |-> {}]
  /\ retold = {} /\ retiered = FALSE

-----------------------------------------------------------------------------
\* upsert_node.  A row with the same source_event_id is written over; its type,
\* account and source stay.
SameSource(n) == {i \in Nodes(node) : n.src # None /\ node[i].src = n.src /\ node[i].acct = n.acct}

UpsertNode(input) ==
  LET n == CleanNode(input)
      old == SameSource(n)
  IN /\ IF old = {}
        THEN /\ Len(node) < MaxNodes
             /\ node' = Append(node, n)
             /\ UNCHANGED retold
        ELSE \E i \in old :
               /\ node' = [node EXCEPT ![i] = [n EXCEPT !.type = node[i].type]]
               /\ retold' = IF n.sub = node[i].sub THEN retold ELSE retold \cup {i}
     /\ UNCHANGED <<edge, writing, retiered>>

\* The same outcome loaded again, under a new id and no event id.
Reload(i) ==
  /\ i \in Outcomes(node) /\ Len(node) < MaxNodes
  /\ node' = Append(node, [node[i] EXCEPT !.src = None])
  /\ UNCHANGED <<edge, writing, retold, retiered>>

-----------------------------------------------------------------------------
\* The rows upsert_edge finds for a write.
Triple(e) == {k \in Edges(edge) : SameTriple(edge[k], e)}
Own(e) == {k \in Triple(e) : edge[k].by = e.by}
Others(e) == {k \in Triple(e) : edge[k].sup = None}
Weaker(e) == {k \in Others(e) : ShouldSupersede(edge[k], e)}
Stronger(e) == {k \in Others(e) : ~ShouldSupersede(edge[k], e) /\ OutranksByWriter(edge[k], e)}

MutLosers(e) ==
  {[kills |-> K, born |-> IF m = {} THEN None ELSE CHOOSE k \in m : TRUE] :
     K \in {Others(e)}, m \in {{k} : k \in Stronger(e)} \cup {{}}}

\* apply_supersession visits the live rows in whatever order the query returns
\* them and stops at the first that outranks the new one.
Losers(e) ==
  IF Stronger(e) = {} THEN {[kills |-> Weaker(e), born |-> None]}
  ELSE {[kills |-> K, born |-> m] : K \in SUBSET Weaker(e), m \in Stronger(e)}

Pending(w) == writing[w] # {}

\* upsert_edge up to the flush: gate (called without moments), deduplication by
\* writer, supersession for a new row.
EdgeRead(w, input) ==
  LET e == CleanEdge(input) IN
  /\ ~Pending(w)
  /\ Len(edge) + Cardinality({v \in Session : Pending(v)}) < MaxEdges
  /\ {e.from, e.to} \subseteq Nodes(node)
  /\ GateAccepts(node[e.from], node[e.to], e.kind, FALSE)
  /\ IF Own(e) # {}
     THEN \E k \in Own(e) :
            writing' = [writing EXCEPT ![w] = {[row |-> e, over |-> k, kills |-> {}, born |-> None]}]
     ELSE \E l \in Losers(e) :
            writing' = [writing EXCEPT ![w] = {[row |-> e, over |-> 0, kills |-> l.kills, born |-> l.born]}]
  /\ UNCHANGED <<node, edge, retold, retiered>>

\* The commit of the session.
MutSuperseding(rows, K, by) == [k \in DOMAIN rows |->
  IF k \in K THEN [rows[k] EXCEPT !.sup = by + 1] ELSE rows[k]]

Superseding(rows, K, by) == [k \in DOMAIN rows |->
  IF k \in K THEN [rows[k] EXCEPT !.sup = by] ELSE rows[k]]

EdgeCommit(w) ==
  \E p \in writing[w] :
    /\ IF p.over = 0
       THEN /\ edge' = Append(Superseding(edge, p.kills, Len(edge) + 1),
                              [p.row EXCEPT !.sup = p.born])
            /\ UNCHANGED retiered
       ELSE /\ edge' = [edge EXCEPT ![p.over] = [p.row EXCEPT !.sup = edge[p.over].sup]]
            /\ retiered' = (retiered \/ Tier(p.row) # Tier(edge[p.over]))
    /\ writing' = [writing EXCEPT ![w] = {}]
    /\ UNCHANGED <<node, retold>>

\* The caller's transaction is rolled back.
EdgeRollback(w) ==
  /\ Pending(w)
  /\ writing' = [writing EXCEPT ![w] = {}]
  /\ UNCHANGED <<node, edge, retold, retiered>>

GraphNext ==
  \/ \E n \in NodeInput : UpsertNode(n)
  \/ \E i \in 1..MaxNodes : Reload(i)
  \/ \E w \in Session :
       \/ \E e \in EdgeInput : EdgeRead(w, e)
       \/ EdgeCommit(w)
       \/ EdgeRollback(w)

GraphSpec == GraphInit /\ [][GraphNext]_gvars

-----------------------------------------------------------------------------
GraphTypeOK ==
  /\ Len(node) <= MaxNodes /\ Len(edge) <= MaxEdges
  /\ \A k \in Edges(edge) :
       {edge[k].from, edge[k].to} \subseteq Nodes(node) /\ edge[k].sup \in Edges(edge) \cup {None}
  /\ \A w \in Session : Cardinality(writing[w]) <= 1
  /\ retold \subseteq Nodes(node) /\ retiered \in BOOLEAN

\* A row is outranked by another when its tier is lower, or both are inferred and
\* its writer ranks lower.
Outranks(strong, weak) ==
  \/ TierRank[Tier(strong)] > TierRank[Tier(weak)]
  \/ OutranksByWriter(strong, weak)

\* However many sessions write at once, a claim is never lost: every (from, to,
\* kind) with a row keeps a live one that nothing on record outranks, as long as
\* no writer changes the tier of its own row (supersession.py:190-280,
\* context_graph.py:1239-1242: "there is no different, existing row to compare
\* against in that case").
StrongestLive ==
  ~retiered =>
    \A k \in Edges(edge) :
      \E m \in Triple(edge[k]) :
        edge[m].sup = None /\ \A r \in Triple(edge[k]) : ~Outranks(edge[r], edge[m])

\* What the gate and the clamps let in the audit does not report: no edge runs
\* from an outcome to an outcome, no confidence is out of bounds, and an edge
\* against its polarity has an end whose subtype an update replaced after the gate
\* looked (context_graph.py:1096-1135).
GateMatchesAudit ==
  \A v \in GraphAudit(node, edge) :
    /\ v[1] \notin {"I1", "I4 nodes", "I4 edges", "I4 props"}
    /\ v[1] = "I2" => \A k \in v[2] : {edge[k].from, edge[k].to} \cap retold # {}

\* An outcome written without evidence or reference never counts as revenue of
\* its account, whatever confidence its writer claimed
\* (context_graph_invariants.py:1367-1382).
UnearnedNotCounted ==
  \A i \in Outcomes(node) : ~node[i].earned => i \notin Counted(node, node[i].acct)

\* The same of the rollup over accounts the CFO and CRO read ("The MOD-004
\* read-side filter then excludes it from CFO/CRO aggregates").
UnearnedNotRolledUp ==
  \A i \in Outcomes(node) : ~node[i].earned => i \notin RolledUp(node, {node[i].acct})

\* Loading an outcome a second time leaves the two reads that deduplicate as they were, an
\* account's revenue and the rollup over accounts (context_graph.py:384-440).  Wizard B does
\* not deduplicate: it counts the copy wherever it counts the original
\* (wizard_b_hindsight.py:144-156), and of the four subtypes I13 looks at the audit
\* reports both rows (context_graph_invariants.py:840-898).
ReloadIsTold ==
  [][\A i \in 1..MaxNodes : Reload(i) =>
       /\ \A a \in {node[j].acct : j \in Nodes(node)} :
            /\ AccountRevenue(node', a) = AccountRevenue(node, a)
            /\ Rollup(node', {a}) = Rollup(node, {a})
       /\ \A b \in Buckets : i \in Realizing(node, node[i].acct, b) =>
            {i, Len(node')} \subseteq Realizing(node', node[i].acct, b)
       /\ node[i].sub \in Definitive => {i, Len(node')} \subseteq I13(node')]_gvars

\* Said without the walk: m causes n through at most depth live causal edges.
Causes(depth, m, n) ==
  \E path \in UNION {[1..(d + 1) -> Nodes(node)] : d \in 1..depth} :
    /\ path[1] = m /\ path[Len(path)] = n
    /\ \A j \in 1..(Len(path) - 1) :
         \E k \in LiveCausal(edge) : edge[k].from = path[j] /\ edge[k].to = path[j + 1]

\* get_causal_chain, bounded at a depth, finds exactly the causes of a node within it,
\* and downstream is the mirror of upstream.
ChainFinds(depth) ==
  \A n \in Nodes(node) :
    /\ Chain(edge, n, TRUE, depth) = {m \in Nodes(node) \ {n} : Causes(depth, m, n)}
    /\ \A m \in Nodes(node) :
         m \in Chain(edge, n, FALSE, depth) <=> n \in Chain(edge, m, TRUE, depth)

\* get_causal_chain finds what causes a node and nothing else, whatever cycles the edges
\* form, at every depth a caller may ask for; what is two hops away is also in the
\* neighbourhood traverse_2hop shows (context_graph.py:209-366).
ChainIsCauses ==
  /\ \A depth \in 0..3 : ChainFinds(depth)
  /\ \A n \in Nodes(node) : \A m \in Chain(edge, n, TRUE, 2) :
       node[m].acct = node[n].acct => m \in Ego(node, edge, node[n].acct, n)
=============================================================================
