----------------------------- MODULE GraphService -----------------------------
(***************************************************************************)
(* The route optimizer process around its one piece of shared state,       *)
(* AppState.graph : RwLock<TransportGraph> (rust-routing main.rs, db/mod.rs *)
(* and grpc/mod.rs):                                                       *)
(*                                                                         *)
(*   - startup loads the graph while it holds the write lock, and only     *)
(*     then starts the servers and the reload task;                        *)
(*   - the reload task and the reload requests (HTTP and gRPC) load a      *)
(*     graph without the lock, then take the write lock to install it;     *)
(*   - optimize and status requests hold the read lock while they work.    *)
(*                                                                         *)
(* A load is two queries, active nodes and then active edges, in no        *)
(* transaction; other clients of the database write between them.  Either  *)
(* query fails when the database is away or a row does not deserialize.  A *)
(* client that disconnects cancels its handler at the next await.          *)
(***************************************************************************)
EXTENDS Naturals, Sequences, FiniteSets, SequencesExt

CONSTANTS
    Nodes, Edges,  \* rows of transport_node and transport_edge
    Ends,          \* Ends[e]: the pair of nodes edge e joins
    Operators,     \* reload requests that may be in progress at once
    Readers,       \* optimize and status requests that may be in progress
    MaxWrites      \* bound: changes other clients make to the database

ASSUME ServiceAssumption ==
    /\ Ends \in [Edges -> Nodes \X Nodes]
    /\ MaxWrites \in Nat
    /\ Operators \cap Readers = {}
    /\ {"startup", "reloader"} \cap (Operators \cup Readers) = {}

Loaders == {"startup", "reloader"} \cup Operators

Clients == Operators \cup Readers

VARIABLES
    history,  \* contents of the database, oldest first: the last is current
    dbUp,     \* whether queries succeed: it answers, with rows that deserialize
    graph,    \* the graph behind the lock
    pc,       \* where each task is
    load,     \* the graph each loader has read so far
    holders,  \* tasks holding the lock, shared or exclusive
    queue     \* tasks waiting for the lock, first come first served

vars == <<history, dbUp, graph, pc, load, holders, queue>>

Content == [nodes : SUBSET Nodes, edges : SUBSET Edges]

\* A TransportGraph.  nv and ev are not in the code: they number the contents
\* of the database that the two queries saw, 0 before they ran.
Graph == [nodes : SUBSET Nodes, edges : SUBSET Edges, nv : Nat, ev : Nat]

EmptyGraph == [nodes |-> {}, edges |-> {}, nv |-> 0, ev |-> 0]

Now == Len(history)

MutAddEdges(ns, es) == es

\* add_edge refuses an edge with an end that is not in the graph, and the
\* loader ignores the refusal.
AddEdges(ns, es) == {e \in es : Ends[e][1] \in ns /\ Ends[e][2] \in ns}

ServersUp == pc["startup"] = "up"

-------------------------------------------------------------------------------
(***************************************************************************)
(* The tokio RwLock: tasks get it in the order in which they asked, and a  *)
(* reader waits behind an earlier writer.                                  *)
(***************************************************************************)
Compatible(t) == IF t \in Readers THEN holders \subseteq Readers ELSE holders = {}

Acquire(t) == queue' = Append(queue, t)

Grant(t) ==
    /\ queue # <<>> /\ t = Head(queue)
    /\ pc[t] = "waiting"
    /\ Compatible(t)
    /\ queue' = Tail(queue)
    /\ holders' = holders \cup {t}
    /\ pc' = [pc EXCEPT ![t] = "holding"]
    /\ UNCHANGED <<history, dbUp, graph, load>>

-------------------------------------------------------------------------------
Init ==
    /\ \E c \in Content : history = <<c>>
    /\ dbUp \in BOOLEAN
    /\ graph = EmptyGraph
    /\ pc = [t \in Loaders \cup Readers |->
               CASE t = "startup" -> "nodes" [] t = "reloader" -> "off" [] OTHER -> "idle"]
    /\ load = [l \in Loaders |-> EmptyGraph]
    /\ holders = {"startup"}
    /\ queue = <<>>

(***************************************************************************)
(* load_graph_from_surrealdb, one step for each query.                     *)
(***************************************************************************)
QueryNodes(l) ==
    /\ pc[l] = "nodes" /\ dbUp
    /\ load' = [load EXCEPT ![l] = [EmptyGraph EXCEPT !.nodes = history[Now].nodes, !.nv = Now]]
    /\ pc' = [pc EXCEPT ![l] = "edges"]
    /\ UNCHANGED <<history, dbUp, graph, holders, queue>>

\* The second query and the construction of the graph.  A reloader then asks
\* for the write lock; startup holds it already.
QueryEdges(l) ==
    /\ pc[l] = "edges" /\ dbUp
    /\ load' = [load EXCEPT ![l].edges = AddEdges(load[l].nodes, history[Now].edges),
                            ![l].ev = Now]
    /\ IF l = "startup"
       THEN pc' = [pc EXCEPT ![l] = "holding"] /\ UNCHANGED queue
       ELSE pc' = [pc EXCEPT ![l] = "waiting"] /\ Acquire(l)
    /\ UNCHANGED <<history, dbUp, graph, holders>>

MutRest(l) == IF l = "startup" THEN "up" ELSE "idle"

\* Where a task goes when its work is over; the reload task ticks again.
Rest(l) == IF l = "startup" THEN "up" ELSE IF l = "reloader" THEN "ticking" ELSE "idle"

\* Startup ends: the lock is released and the servers and the reload task run.
Finished(l) ==
    IF l = "startup" THEN [pc EXCEPT ![l] = "up", !["reloader"] = "ticking"]
    ELSE [pc EXCEPT ![l] = Rest(l)]

MutLoadFails(l) ==
    /\ pc[l] \in {"nodes", "edges"} /\ ~dbUp
    /\ pc' = IF l = "reloader" THEN [pc EXCEPT ![l] = "off"] ELSE Finished(l)
    /\ holders' = holders \ {l}
    /\ load' = [load EXCEPT ![l] = EmptyGraph]
    /\ UNCHANGED <<history, dbUp, graph, queue>>

\* A query returns an error.  Startup goes on with the empty graph; the reload
\* task ignores the error; a reload request reports it.
LoadFails(l) ==
    /\ pc[l] \in {"nodes", "edges"} /\ ~dbUp
    /\ pc' = Finished(l)
    /\ holders' = holders \ {l}
    /\ load' = [load EXCEPT ![l] = EmptyGraph]
    /\ UNCHANGED <<history, dbUp, graph, queue>>

\* `*graph = new_graph` and the end of the guard's scope.
Install(l) ==
    /\ l \in Loaders /\ pc[l] = "holding"
    /\ graph' = load[l]
    /\ load' = [load EXCEPT ![l] = EmptyGraph]
    /\ holders' = holders \ {l}
    /\ pc' = Finished(l)
    /\ UNCHANGED <<history, dbUp, queue>>

MutStartLoad(l) ==
    /\ ServersUp
    /\ \/ l = "reloader" /\ pc[l] = "ticking"
       \/ l \in Operators /\ pc[l] = "idle"
    /\ holders = {} /\ queue = <<>>
    /\ holders' = {l}
    /\ pc' = [pc EXCEPT ![l] = "nodes"]
    /\ UNCHANGED <<history, dbUp, graph, load, queue>>

\* The interval ticks, or a reload request arrives.
StartLoad(l) ==
    /\ ServersUp
    /\ \/ l = "reloader" /\ pc[l] = "ticking"
       \/ l \in Operators /\ pc[l] = "idle"
    /\ pc' = [pc EXCEPT ![l] = "nodes"]
    /\ UNCHANGED <<history, dbUp, graph, load, holders, queue>>

(***************************************************************************)
(* Optimize and status requests.                                           *)
(***************************************************************************)
StartRead(r) ==
    /\ ServersUp /\ pc[r] = "idle"
    /\ pc' = [pc EXCEPT ![r] = "waiting"]
    /\ Acquire(r)
    /\ UNCHANGED <<history, dbUp, graph, load, holders>>

\* No await between taking the lock and the response.
Respond(r) ==
    /\ r \in Readers /\ pc[r] = "holding"
    /\ pc' = [pc EXCEPT ![r] = "idle"]
    /\ holders' = holders \ {r}
    /\ UNCHANGED <<history, dbUp, graph, load, queue>>

\* The client goes away: its handler is dropped where it awaits.
Cancel(t) ==
    /\ pc[t] \in {"nodes", "edges", "waiting"}
    /\ pc' = [pc EXCEPT ![t] = "idle"]
    /\ \/ pc[t] # "waiting" /\ UNCHANGED queue
       \/ \E i \in 1..Len(queue) : queue[i] = t /\ queue' = RemoveAt(queue, i)
    /\ load' = [l \in Loaders |-> IF l = t THEN EmptyGraph ELSE load[l]]
    /\ UNCHANGED <<history, dbUp, graph, holders>>

(***************************************************************************)
(* The database and its other clients.                                     *)
(***************************************************************************)
Toggle(S, x) == IF x \in S THEN S \ {x} ELSE S \cup {x}

WriteDb ==
    /\ Now <= MaxWrites
    /\ \/ \E n \in Nodes :
            history' = Append(history, [history[Now] EXCEPT !.nodes = Toggle(@, n)])
       \/ \E e \in Edges :
            history' = Append(history, [history[Now] EXCEPT !.edges = Toggle(@, e)])
    /\ UNCHANGED <<dbUp, graph, pc, load, holders, queue>>

\* The database goes away or comes back, or a bad row is written or mended.
DbUpDown ==
    /\ dbUp' = ~dbUp
    /\ UNCHANGED <<history, graph, pc, load, holders, queue>>

-------------------------------------------------------------------------------
LoadStep(l) == QueryNodes(l) \/ QueryEdges(l) \/ LoadFails(l) \/ Install(l)

Next ==
    \/ \E l \in Loaders : StartLoad(l) \/ LoadStep(l)
    \/ \E r \in Readers : StartRead(r) \/ Respond(r)
    \/ \E t \in Clients : Cancel(t)
    \/ \E t \in Loaders \cup Readers : Grant(t)
    \/ WriteDb
    \/ DbUpDown

(***************************************************************************)
(* Tasks that can run are run, queries are answered by a database that is  *)
(* up, the interval ticks.  Requests, writes, failures and disconnections  *)
(* may never happen.                                                       *)
(***************************************************************************)
Fairness ==
    /\ \A l \in Loaders : WF_vars(LoadStep(l))
    /\ WF_vars(StartLoad("reloader"))
    /\ \A r \in Readers : WF_vars(Respond(r))
    /\ \A t \in Loaders \cup Readers : WF_vars(Grant(t))

Spec == Init /\ [][Next]_vars /\ Fairness
-------------------------------------------------------------------------------
Places == {"off", "idle", "ticking", "nodes", "edges", "waiting", "holding", "up"}

(***************************************************************************)
(* Each kind of task is only ever in its own places: the reload task never *)
(* ends, startup never waits for the lock it creates, and requests do not  *)
(* begin, nor the reload task tick, before the servers are up.             *)
(***************************************************************************)
TypeOK ==
    /\ history \in Seq(Content) /\ Now \in 1..MaxWrites + 1
    /\ dbUp \in BOOLEAN
    /\ graph \in Graph
    /\ pc \in [Loaders \cup Readers -> Places]
    /\ pc["startup"] \in {"nodes", "edges", "holding", "up"}
    /\ \A t \in Clients : pc[t] \notin {"off", "ticking", "up"}
    /\ pc["reloader"] \notin {"idle", "up"}
    /\ ServersUp <=> pc["reloader"] # "off"
    /\ ~ServersUp => \A t \in Clients : pc[t] = "idle"
    /\ \A r \in Readers : pc[r] \notin {"nodes", "edges"}
    /\ load \in [Loaders -> Graph]
    /\ holders \subseteq Loaders \cup Readers
    /\ queue \in Seq(Loaders \cup Readers)

LockHeld ==
    /\ \A l \in Loaders : l \in holders => holders = {l}
    /\ \A t \in Loaders \cup Readers : pc[t] = "holding" => t \in holders
    /\ \A t \in holders : t # "startup" => pc[t] = "holding"

LockQueue ==
    /\ \A t \in Loaders \cup Readers :
          pc[t] = "waiting" <=> \E i \in 1..Len(queue) : queue[i] = t
    /\ \A i, j \in 1..Len(queue) : i # j => queue[i] # queue[j]

(***************************************************************************)
(* A task that installs a graph holds the lock alone, and those that wait  *)
(* for the lock are exactly the tasks in its queue, each once: neither a   *)
(* cancelled handler nor a failed load leaves a holder or a waiter behind. *)
(***************************************************************************)
LockSafe == LockHeld /\ LockQueue

(***************************************************************************)
(* Requests see the store that GraphStore describes: whatever the lock,    *)
(* the loads and the failures do, the graph is replaced only while no      *)
(* request works on it, and only by one the database could have shown.     *)
(***************************************************************************)
Store == INSTANCE GraphStore WITH
    graph <- [nodes |-> graph.nodes, edges |-> graph.edges],
    reading <- holders \cap Readers

ImplementsStore == Store!Spec

(***************************************************************************)
(* A request works on one graph: the graph never changes under a reader.   *)
(***************************************************************************)
GraphStableUnderReaders ==
    [][graph' # graph => holders \cap Readers = {}]_vars

(***************************************************************************)
(* Once the servers run, nobody holds the lock across a database call, so  *)
(* a slow or absent database delays no optimize or status request.         *)
(***************************************************************************)
NoLockAcrossQuery ==
    ServersUp => \A t \in holders : pc[t] \notin {"nodes", "edges"}

\* g is what a node query at content g.nv of h and an edge query at a content
\* g.ev no older make of it.
Steady(h, g) ==
    /\ 1 <= g.nv /\ g.nv <= g.ev /\ g.ev <= Len(h)
    /\ g.nodes = h[g.nv].nodes
    /\ g.edges \subseteq h[g.ev].edges
    /\ \A e \in g.edges : {Ends[e][1], Ends[e][2]} \subseteq g.nodes
    /\ \A e \in Edges :
          (\A v \in g.nv..g.ev :
              /\ e \in h[v].edges
              /\ {Ends[e][1], Ends[e][2]} \subseteq h[v].nodes)
          => e \in g.edges

(***************************************************************************)
(* Although a load is not a snapshot, the graph behind the lock has the    *)
(* nodes of its first query, no edge that was inactive at its second, no   *)
(* edge without its ends, and every edge that was active, between active   *)
(* nodes, at each content from the first query to the second.              *)
(***************************************************************************)
SteadyEdgesServed == graph = EmptyGraph \/ Steady(history, graph)

(***************************************************************************)
(* A request for the lock is served, or its client goes away: readers do   *)
(* not starve behind reloads, nor reloads behind readers.                  *)
(***************************************************************************)
WaitersServed ==
    \A t \in Loaders \cup Readers : pc[t] = "waiting" ~> pc[t] # "waiting"

(***************************************************************************)
(* When queries succeed from some moment on (the contents change only      *)
(* MaxWrites times), the served graph becomes, and stays, the one the      *)
(* database holds, even though an overtaken reload may first install an    *)
(* older one.                                                              *)
(***************************************************************************)
Fresh ==
    /\ graph.nodes = history[Now].nodes
    /\ graph.edges = AddEdges(history[Now].nodes, history[Now].edges)

EventuallyFresh == <>[]dbUp => <>[]Fresh

-------------------------------------------------------------------------------
\* Before the servers are up startup holds the lock and nobody waits for it;
\* afterwards startup has let go of it.
StartupLock ==
    IF ServersUp THEN "startup" \notin holders ELSE holders = {"startup"} /\ queue = <<>>

\* What a load has read so far.
LoadsInv ==
    \A l \in Loaders :
        /\ pc[l] = "edges" =>
              /\ load[l].nv \in 1..Now
              /\ load[l].nodes = history[load[l].nv].nodes
        /\ pc[l] \in {"waiting", "holding"} => Steady(history, load[l])

\* The invariant GraphServiceProofs shows to be inductive.
IInv ==
    /\ TypeOK
    /\ LockSafe
    /\ NoLockAcrossQuery
    /\ StartupLock
    /\ LoadsInv
    /\ SteadyEdgesServed
===============================================================================
