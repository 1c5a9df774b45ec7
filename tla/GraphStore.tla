------------------------------- MODULE GraphStore -------------------------------
(***************************************************************************)
(* What the requests of the optimizer see of the transport graph: a graph  *)
(* that changes only while nobody works on it, and that is always one the  *)
(* database could have shown to two queries, one for the nodes and a later *)
(* one for the edges.  Of locks, loads, failures and disconnections it     *)
(* knows nothing; GraphService implements it.                              *)
(***************************************************************************)
EXTENDS Naturals, Sequences

CONSTANTS Nodes, Edges, Ends, Readers

VARIABLES
    history,  \* contents of the database, oldest first
    graph,    \* the graph requests work on
    reading   \* requests at work on it

vars == <<history, graph, reading>>

Content == [nodes : SUBSET Nodes, edges : SUBSET Edges]

Joined(e, ns) == Ends[e][1] \in ns /\ Ends[e][2] \in ns

\* g shows the nodes of one content and, of a content no older, edges between
\* these nodes; none is missing that was there, with its ends, all the while.
View(h, g) ==
    \E nv, ev \in 1..Len(h) :
        /\ nv <= ev
        /\ g.nodes = h[nv].nodes
        /\ \A e \in g.edges : e \in h[ev].edges /\ Joined(e, g.nodes)
        /\ \A e \in Edges :
              (\A v \in nv..ev : e \in h[v].edges /\ Joined(e, h[v].nodes)) => e \in g.edges

Init ==
    /\ \E c \in Content : history = <<c>>
    /\ graph = [nodes |-> {}, edges |-> {}]
    /\ reading = {}

Write ==
    /\ \E c \in Content : history' = Append(history, c)
    /\ UNCHANGED <<graph, reading>>

Begin(r) ==
    /\ r \notin reading
    /\ reading' = reading \cup {r}
    /\ UNCHANGED <<history, graph>>

End(r) ==
    /\ r \in reading
    /\ reading' = reading \ {r}
    /\ UNCHANGED <<history, graph>>

Replace ==
    /\ reading = {}
    /\ View(history, graph')
    /\ UNCHANGED <<history, reading>>

Next ==
    \/ Write
    \/ \E r \in Readers : Begin(r) \/ End(r)
    \/ Replace

Spec == Init /\ [][Next]_vars
================================================================================
