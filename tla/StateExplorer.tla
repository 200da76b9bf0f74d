---------------------------- MODULE StateExplorer ----------------------------
(***************************************************************************)
(* rfsn_kernel/model_check.py: the kernel's own explorer of decision       *)
(* graphs, breadth first or depth first.  A graph is what get_actions and  *)
(* transition compute: for each state the sequence of its next states,     *)
(* where Raises stands for a transition that raises an exception.          *)
(***************************************************************************)
EXTENDS Naturals, Sequences, FiniteSets, SequencesExt

CONSTANTS
    Nodes, Root, Raises,
    Graphs,      \* the graphs that are explored
    Budgets,     \* values of max_states
    MaxDepth     \* max_depth

ASSUME ExplorerAssumption ==
    /\ Root \in Nodes /\ Raises \notin Nodes /\ MaxDepth \in Nat
    /\ Graphs \subseteq [Nodes -> Seq(Nodes \cup {Raises})]

VARIABLES
    search,    \* explore_bfs or explore_dfs, the graph, the states whose invariant fails, max_states
    open,      \* the queue or the stack: states and their depths
    met,       \* visited
    explored,  \* result.visited
    found      \* result.violations and deadlocks, as <<kind, state, depth>>

explorerVars == <<search, open, met, explored, found>>

ExplorerInit ==
    /\ search \in [how : {"bfs", "dfs"}, graph : Graphs, bad : SUBSET Nodes, budget : Budgets]
    /\ open = <<<<Root, 0>>>>
    /\ met = {Root}
    /\ explored = 0
    /\ found = {}

\* Bug: the breadth-first search takes the state it met last.
TakenFromTheBack == open[Len(open)]
Taken == IF search.how = "bfs" THEN Head(open) ELSE open[Len(open)]
Rest == IF Taken = Head(open) THEN Tail(open) ELSE Front(open)

\* The states that are new, in the order in which they are put away; each is marked
\* when it is put away, not when it is taken.
NextStates(s) == IF search.how = "bfs" THEN search.graph[s] ELSE Reverse(search.graph[s])
Fresh(q) == {i \in DOMAIN q : q[i] \notin met \cup {Raises} /\ \A j \in 1..(i - 1) : q[j] # q[i]}
Nth(S, k) == CHOOSE i \in S : Cardinality({j \in S : j <= i}) = k
NewOf(q) == [k \in 1..Cardinality(Fresh(q)) |-> q[Nth(Fresh(q), k)]]

More == open # <<>> /\ explored < search.budget

ViolatingState ==
    /\ More /\ Taken[1] \in search.bad
    /\ found' = found \cup {<<"violation", Taken[1], Taken[2]>>}
    /\ open' = Rest
    /\ explored' = explored + 1
    /\ UNCHANGED <<search, met>>

DepthReached ==
    /\ More /\ Taken[1] \notin search.bad /\ Taken[2] >= MaxDepth
    /\ open' = Rest
    /\ explored' = explored + 1
    /\ UNCHANGED <<search, met, found>>

Deadlocked ==
    /\ More /\ Taken[1] \notin search.bad /\ Taken[2] < MaxDepth
    /\ search.graph[Taken[1]] = <<>>
    /\ found' = found \cup {<<"deadlock", Taken[1], Taken[2]>>}
    /\ open' = Rest
    /\ explored' = explored + 1
    /\ UNCHANGED <<search, met>>

Expand ==
    /\ More /\ Taken[1] \notin search.bad /\ Taken[2] < MaxDepth
    /\ search.graph[Taken[1]] # <<>>
    /\ LET fresh == NewOf(NextStates(Taken[1])) IN
       /\ open' = Rest \o [i \in DOMAIN fresh |-> <<fresh[i], Taken[2] + 1>>]
       /\ met' = met \cup ToSet(fresh)
       /\ found' = IF Contains(search.graph[Taken[1]], Raises)
                   THEN found \cup {<<"raised", Taken[1], Taken[2] + 1>>} ELSE found
    /\ explored' = explored + 1
    /\ UNCHANGED search

ExplorerNext == ViolatingState \/ DepthReached \/ Deadlocked \/ Expand

ExplorerSpec == ExplorerInit /\ [][ExplorerNext]_explorerVars

-----------------------------------------------------------------------------
(* Properties *)

\* The reference for a search g: the states some path of n transitions reaches, where no
\* path leads on from a state whose invariant fails.
Successors(g, s) == IF s \in g.bad THEN {} ELSE ToSet(g.graph[s]) \ {Raises}
ReachedIn(g) ==
    LET r[n \in 0..MaxDepth] == IF n = 0 THEN {Root} ELSE UNION {Successors(g, s) : s \in r[n - 1]}
    IN r
DistanceIs(g, s, n) == s \in ReachedIn(g)[n] /\ \A m \in 0..(n - 1) : s \notin ReachedIn(g)[m]

\* A breadth-first search that its budget lets run to the end finds the failing states within the
\* depth it is given, all of them and no other, each at its distance; and neither
\* search tells of a state that no path reaches (model_check.py:84-127, 144-194).
SearchComplete ==
    /\ search.how = "bfs" /\ open = <<>> =>
           \A s \in Nodes, n \in 0..MaxDepth :
               (<<"violation", s, n>> \in found <=> s \in search.bad /\ DistanceIs(search, s, n))
    /\ \A f \in found : f[1] # "raised" => f[2] \in ReachedIn(search)[f[3]]
=============================================================================
