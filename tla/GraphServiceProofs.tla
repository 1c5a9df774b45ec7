-------------------------- MODULE GraphServiceProofs --------------------------
(***************************************************************************)
(* The lock and the loads of the optimizer process, for every number of    *)
(* tasks, every database and every history of its contents.                *)
(***************************************************************************)
EXTENDS GraphService, SequenceTheorems, TLAPS

-------------------------------------------------------------------------------
\* What is left of a queue when its i-th entry goes away.
LEMMA RemoveAtFacts ==
    ASSUME NEW S, NEW q \in Seq(S), NEW i \in 1..Len(q)
    PROVE  /\ RemoveAt(q, i) \in Seq(S)
           /\ Len(RemoveAt(q, i)) = Len(q) - 1
           /\ \A j \in 1..Len(q) - 1 :
                 RemoveAt(q, i)[j] = IF j < i THEN q[j] ELSE q[j + 1]
<1> DEFINE a == SubSeq(q, 1, i - 1)
<1> DEFINE b == SubSeq(q, i + 1, Len(q))
<1>1. /\ a \in Seq(S) /\ Len(a) = i - 1
      /\ \A j \in 1..i - 1 : a[j] = q[j]
  OBVIOUS
<1>2. /\ b \in Seq(S) /\ Len(b) = Len(q) - i
      /\ \A j \in 1..Len(q) - i : b[j] = q[i + j]
  OBVIOUS
<1>3. RemoveAt(q, i) = a \o b
  BY DEF RemoveAt
<1> HIDE DEF a, b
<1>4. /\ a \o b \in Seq(S) /\ Len(a \o b) = Len(q) - 1
      /\ Len(q) \in Nat
  <2>1. Len(q) \in Nat
    OBVIOUS
  <2>2. a \o b \in Seq(S) /\ Len(a \o b) = Len(a) + Len(b)
    BY <1>1, <1>2, ConcatProperties
  <2>3. QED
    BY <1>1, <1>2, <2>1, <2>2
<1>5. ASSUME NEW j \in 1..Len(q) - 1
      PROVE  (a \o b)[j] = IF j < i THEN q[j] ELSE q[j + 1]
  <2>1. CASE j < i
    <3>1. (a \o b)[j] = a[j]
      BY <1>1, <1>2, <1>4, <2>1, ConcatProperties
    <3>2. QED
      BY <1>1, <1>4, <2>1, <3>1
  <2>2. CASE j >= i
    <3>1. (a \o b)[j] = b[j - (i - 1)]
      BY <1>1, <1>2, <1>4, <2>2, ConcatProperties
    <3>2. j - (i - 1) \in 1..Len(q) - i
      BY <1>4, <2>2
    <3>3. b[j - (i - 1)] = q[i + (j - (i - 1))]
      BY <1>2, <3>2
    <3>4. i + (j - (i - 1)) = j + 1
      BY <1>4
    <3>5. QED
      BY <2>2, <3>1, <3>3, <3>4
  <2>3. QED
    BY <1>4, <2>1, <2>2
<1>6. QED
  BY <1>3, <1>4, <1>5

\* A later content of the database changes nothing about an earlier load.
LEMMA SteadyStays ==
    ASSUME NEW h \in Seq(Content), NEW c \in Content, NEW g \in Graph, Steady(h, g)
    PROVE  Steady(Append(h, c), g)
<1>1. Len(Append(h, c)) = Len(h) + 1 /\ Len(h) \in Nat
  OBVIOUS
<1>2. \A v \in 1..Len(h) : Append(h, c)[v] = h[v]
  OBVIOUS
<1>3. g.nv \in Nat /\ g.ev \in Nat
  BY DEF Graph
<1>4. \A v \in g.nv..g.ev : Append(h, c)[v] = h[v]
  BY <1>1, <1>2, <1>3 DEF Steady
<1>5. g.nv \in g.nv..g.ev /\ g.ev \in g.nv..g.ev
  BY <1>3 DEF Steady
<1>6. QED
  BY <1>1, <1>3, <1>4, <1>5 DEF Steady

\* The names of the tasks are apart.
LEMMA Tasks ==
    /\ "startup" \in Loaders /\ "reloader" \in Loaders
    /\ Operators \subseteq Loaders
    /\ "startup" \notin Clients /\ "reloader" \notin Clients
    /\ Clients \subseteq Loaders \cup Readers
    /\ \A r \in Readers : r \notin Loaders
    /\ \A l \in Loaders : l \in Operators \/ l = "startup" \/ l = "reloader"
BY ServiceAssumption DEF Loaders, Clients

-------------------------------------------------------------------------------
LEMMA InitIInv == Init => IInv
<1> SUFFICES ASSUME Init
             PROVE  IInv
  OBVIOUS
<1>1. PICK c \in Content : history = <<c>>
  BY DEF Init
<1>2. history \in Seq(Content) /\ Now = 1
  BY <1>1 DEF Now
<1>3. EmptyGraph \in Graph
  BY DEF EmptyGraph, Graph
<1>4. /\ pc["startup"] = "nodes" /\ pc["reloader"] = "off"
      /\ \A t \in Clients : pc[t] = "idle"
      /\ pc \in [Loaders \cup Readers -> Places]
      /\ \A t \in Loaders \cup Readers : pc[t] \in {"nodes", "off", "idle"}
      /\ \A t \in Loaders \cup Readers : pc[t] = "nodes" => t = "startup"
  BY Tasks DEF Init, Places
<1>5. ~ServersUp
  BY <1>4 DEF ServersUp
<1>6. TypeOK
  BY <1>2, <1>3, <1>4, <1>5, Tasks, ServiceAssumption DEF Init, TypeOK, Clients
<1>7. LockSafe
  BY <1>4, Tasks DEF Init, LockSafe, LockHeld, LockQueue
<1>8. NoLockAcrossQuery /\ StartupLock /\ SteadyEdgesServed
  BY <1>5 DEF Init, NoLockAcrossQuery, StartupLock, SteadyEdgesServed
<1>9. LoadsInv
  BY <1>4, Tasks DEF LoadsInv
<1>10. QED
  BY <1>6, <1>7, <1>8, <1>9 DEF IInv

-------------------------------------------------------------------------------
(***************************************************************************)
(* What keeps the parts of the invariant.                                  *)
(***************************************************************************)

\* A load that reads nothing keeps what it has read.
LEMMA LoadsKept ==
    ASSUME LoadsInv, history' = history,
           \A l \in Loaders :
              /\ pc'[l] = "edges" => pc[l] = "edges" /\ load'[l] = load[l]
              /\ pc'[l] \in {"waiting", "holding"} =>
                    pc[l] \in {"waiting", "holding"} /\ load'[l] = load[l]
    PROVE  LoadsInv'
BY DEF LoadsInv, Now

\* A task joins the queue.
LEMMA QueuePlus ==
    ASSUME TypeOK, LockQueue, NEW t \in Loaders \cup Readers,
           pc[t] # "waiting", queue' = Append(queue, t),
           pc' = [pc EXCEPT ![t] = "waiting"]
    PROVE  LockQueue'
<1> DEFINE n == Len(queue)
<1>1. /\ queue \in Seq(Loaders \cup Readers) /\ n \in Nat
      /\ pc \in [Loaders \cup Readers -> Places]
  BY DEF TypeOK
<1>2. Len(queue') = n + 1 /\ queue'[n + 1] = t /\ \A i \in 1..n : queue'[i] = queue[i]
  BY <1>1
<1>3. \A i \in 1..n : queue[i] # t
  BY DEF LockQueue
<1> HIDE DEF n
<1>4. ASSUME NEW u \in Loaders \cup Readers
      PROVE  pc'[u] = "waiting" <=> \E i \in 1..n + 1 : queue'[i] = u
  <2>1. CASE u = t
    BY <1>1, <1>2, <2>1
  <2>2. CASE u # t
    BY <1>1, <1>2, <2>2 DEF LockQueue, n
  <2>3. QED
    BY <2>1, <2>2
<1>5. ASSUME NEW i \in 1..n + 1, NEW j \in 1..n + 1, i # j
      PROVE  queue'[i] # queue'[j]
  BY <1>1, <1>2, <1>3, <1>5 DEF LockQueue, n
<1>6. QED
  BY <1>2, <1>4, <1>5 DEF LockQueue

\* A task leaves the queue.
LEMMA QueueMinus ==
    ASSUME TypeOK, LockQueue, NEW i \in 1..Len(queue), NEW place, place # "waiting",
           queue' \in Seq(Loaders \cup Readers), Len(queue') = Len(queue) - 1,
           \A j \in 1..Len(queue) - 1 :
              queue'[j] = IF j < i THEN queue[j] ELSE queue[j + 1],
           pc' = [pc EXCEPT ![queue[i]] = place]
    PROVE  LockQueue'
<1> DEFINE n == Len(queue)
<1>1. /\ queue \in Seq(Loaders \cup Readers) /\ n \in Nat /\ i \in 1..n
      /\ pc \in [Loaders \cup Readers -> Places]
  BY DEF TypeOK
<1>2. /\ \A j \in 1..n - 1 : queue'[j] = IF j < i THEN queue[j] ELSE queue[j + 1]
      /\ Len(queue') = n - 1
      /\ \A u \in Loaders \cup Readers :
            pc[u] = "waiting" <=> \E j \in 1..n : queue[j] = u
      /\ \A j, m \in 1..n : j # m => queue[j] # queue[m]
      /\ queue[i] \in Loaders \cup Readers
  BY <1>1 DEF LockQueue
<1> HIDE DEF n
<1>3. ASSUME NEW j \in 1..n - 1
      PROVE  queue'[j] # queue[i]
  BY <1>1, <1>2
<1>4. ASSUME NEW j \in 1..n, j # i
      PROVE  \E m \in 1..n - 1 : queue'[m] = queue[j]
  <2>1. CASE j < i
    BY <1>1, <1>2, <2>1
  <2>2. CASE j > i
    <3>1. j - 1 \in 1..n - 1 /\ ~(j - 1 < i) /\ (j - 1) + 1 = j
      BY <1>1, <2>2
    <3>2. QED
      BY <1>2, <3>1
  <2>3. QED
    BY <1>1, <1>4, <2>1, <2>2
<1>5. ASSUME NEW u \in Loaders \cup Readers
      PROVE  pc'[u] = "waiting" <=> \E j \in 1..n - 1 : queue'[j] = u
  <2>1. CASE u = queue[i]
    BY <1>1, <1>2, <1>3, <2>1
  <2>2. CASE u # queue[i]
    <3>1. pc'[u] = pc[u]
      BY <1>1, <2>2
    <3>2. pc[u] = "waiting" => \E j \in 1..n - 1 : queue'[j] = u
      BY <1>2, <1>4, <2>2
    <3>3. ASSUME NEW j \in 1..n - 1, queue'[j] = u
          PROVE  pc[u] = "waiting"
      <4>1. j \in 1..n /\ j + 1 \in 1..n
        BY <1>1
      <4>2. QED
        BY <1>2, <3>3, <4>1
    <3>4. QED
      BY <3>1, <3>2, <3>3
  <2>3. QED
    BY <2>1, <2>2
<1>6. ASSUME NEW j \in 1..n - 1, NEW m \in 1..n - 1, j # m
      PROVE  queue'[j] # queue'[m]
  BY <1>1, <1>2, <1>6
<1>7. QED
  BY <1>2, <1>5, <1>6 DEF LockQueue

\* The queue and who waits in it are untouched.
LEMMA QueueKept ==
    ASSUME LockQueue, queue' = queue,
           \A t \in Loaders \cup Readers : pc'[t] = "waiting" <=> pc[t] = "waiting"
    PROVE  LockQueue'
BY DEF LockQueue

-------------------------------------------------------------------------------
(***************************************************************************)
(* One lemma for each action.                                              *)
(***************************************************************************)

\* The first query of a load.
LEMMA QueryNodesInv ==
    ASSUME IInv, NEW l \in Loaders, QueryNodes(l)
    PROVE  IInv'
<1>1. /\ pc[l] = "nodes" /\ pc' = [pc EXCEPT ![l] = "edges"]
      /\ load' = [load EXCEPT ![l] = [EmptyGraph EXCEPT !.nodes = history[Now].nodes, !.nv = Now]]
      /\ UNCHANGED <<history, dbUp, graph, holders, queue>>
      /\ pc \in [Loaders \cup Readers -> Places] /\ load \in [Loaders -> Graph]
      /\ history \in Seq(Content) /\ Now \in Nat /\ 1 <= Now /\ Now = Len(history)
  BY DEF QueryNodes, IInv, TypeOK, Now
<1>2. history[Now] \in Content
  BY <1>1
<1>3. /\ load'[l] \in Graph /\ load'[l].nodes = history[Now].nodes /\ load'[l].nv = Now
  BY <1>1, <1>2 DEF EmptyGraph, Graph, Content
<1>4. TypeOK'
  BY <1>1, <1>3, Tasks DEF IInv, TypeOK, Places, ServersUp, Now
<1>5. LockHeld'
  BY <1>1 DEF IInv, LockSafe, LockHeld
<1>6. LockQueue'
  BY <1>1, QueueKept DEF IInv, LockSafe
<1>7. NoLockAcrossQuery' /\ StartupLock'
  BY <1>1, Tasks DEF IInv, NoLockAcrossQuery, StartupLock, ServersUp, LockSafe, LockHeld
<1>8. LoadsInv'
  BY <1>1, <1>3 DEF IInv, LoadsInv, Now
<1>9. SteadyEdgesServed'
  BY <1>1 DEF IInv, SteadyEdgesServed
<1>10. QED
  BY <1>4, <1>5, <1>6, <1>7, <1>8, <1>9 DEF IInv, LockSafe

\* The second query of a load: what it makes of the two answers.
LEMMA QueryEdgesInv ==
    ASSUME IInv, NEW l \in Loaders, QueryEdges(l)
    PROVE  IInv'
<1>1. /\ pc[l] = "edges"
      /\ load' = [load EXCEPT ![l].edges = AddEdges(load[l].nodes, history[Now].edges),
                              ![l].ev = Now]
      /\ UNCHANGED <<history, dbUp, graph, holders>>
      /\ pc \in [Loaders \cup Readers -> Places] /\ load \in [Loaders -> Graph]
      /\ history \in Seq(Content) /\ Now \in Nat /\ 1 <= Now /\ Now = Len(history)
      /\ load[l].nv \in 1..Now /\ load[l].nodes = history[load[l].nv].nodes
  BY DEF QueryEdges, IInv, TypeOK, LoadsInv, Now
<1>2. history[Now] \in Content /\ load[l] \in Graph
  BY <1>1
<1>3. /\ load'[l] \in Graph /\ load'[l].nodes = load[l].nodes /\ load'[l].nv = load[l].nv
      /\ load'[l].edges = AddEdges(load[l].nodes, history[Now].edges) /\ load'[l].ev = Now
  BY <1>1, <1>2 DEF Graph, Content, AddEdges
<1>4. Steady(history, load'[l])
  <2> DEFINE g == load'[l]
  <2>1. /\ g.nv \in 1..Now /\ g.ev = Now /\ g.nodes = history[g.nv].nodes
        /\ \A e : e \in g.edges <=> /\ e \in history[Now].edges
                                    /\ Ends[e][1] \in g.nodes /\ Ends[e][2] \in g.nodes
    BY <1>1, <1>3 DEF AddEdges
  <2> HIDE DEF g
  <2>2. 1 <= g.nv /\ g.nv <= g.ev /\ g.ev <= Len(history)
    BY <1>1, <2>1
  <2>3. g.nv \in g.nv..g.ev /\ g.ev \in g.nv..g.ev
    BY <1>1, <2>1
  <2>4. Steady(history, g)
    BY <2>1, <2>2, <2>3 DEF Steady
  <2>5. QED
    BY <2>4 DEF g
<1>5. /\ pc' = [pc EXCEPT ![l] = IF l = "startup" THEN "holding" ELSE "waiting"]
      /\ queue' = IF l = "startup" THEN queue ELSE Append(queue, l)
  BY DEF QueryEdges, Acquire
<1>6. TypeOK'
  BY <1>1, <1>3, <1>5, Tasks DEF IInv, TypeOK, Places, ServersUp, Now
<1>7. LockHeld'
  BY <1>1, <1>5, Tasks DEF IInv, LockSafe, LockHeld, StartupLock, ServersUp
<1>8. LockQueue'
  <2>1. CASE l = "startup"
    BY <1>1, <1>5, <2>1, QueueKept DEF IInv, LockSafe
  <2>2. CASE l # "startup"
    BY <1>1, <1>5, <2>2, QueuePlus DEF IInv, LockSafe
  <2>3. QED
    BY <2>1, <2>2
<1>9. ServersUp' = ServersUp /\ (l # "startup" => ServersUp)
  BY <1>1, <1>5, Tasks DEF IInv, TypeOK, ServersUp, Clients
<1>10. NoLockAcrossQuery' /\ StartupLock'
  BY <1>1, <1>5, <1>9, Tasks DEF IInv, NoLockAcrossQuery, StartupLock, ServersUp
<1>11. LoadsInv'
  BY <1>1, <1>4, <1>5 DEF IInv, LoadsInv, Now
<1>12. SteadyEdgesServed'
  BY <1>1 DEF IInv, SteadyEdgesServed
<1>13. QED
  BY <1>6, <1>7, <1>8, <1>10, <1>11, <1>12 DEF IInv, LockSafe

\* A task that is done is at rest, and the first of all brings the servers up.
LEMMA FinishedFacts ==
    ASSUME TypeOK, NEW l \in Loaders, pc[l] # "waiting", pc[l] # "up", pc' = Finished(l),
           l # "startup" => ServersUp
    PROVE  /\ pc' \in [Loaders \cup Readers -> Places]
           /\ pc'[l] \in {"up", "ticking", "idle"}
           /\ \A t \in Loaders \cup Readers :
                 t # l => pc'[t] = pc[t] \/ (t = "reloader" /\ pc[t] = "off" /\ pc'[t] = "ticking")
           /\ ServersUp'
           /\ pc'["reloader"] \notin {"idle", "up", "off"}
           /\ pc'["startup"] = "up"
           /\ l \in Clients => pc'[l] = "idle"
           /\ l = "startup" => pc'["reloader"] = "ticking"
<1>1. pc \in [Loaders \cup Readers -> Places] /\ l \in Loaders \cup Readers
  BY DEF TypeOK
<1>2. CASE l = "startup"
  <2>1. ~ServersUp /\ pc["reloader"] = "off" /\ pc' = [pc EXCEPT ![l] = "up", !["reloader"] = "ticking"]
    BY <1>2 DEF TypeOK, ServersUp, Finished
  <2>2. QED
    BY <1>1, <1>2, <2>1, Tasks DEF Places, ServersUp
<1>3. CASE l # "startup"
  <2>1. /\ ServersUp /\ pc' = [pc EXCEPT ![l] = IF l = "reloader" THEN "ticking" ELSE "idle"]
        /\ pc["reloader"] \notin {"idle", "up", "off"}
    BY <1>3 DEF TypeOK, ServersUp, Finished, Rest
  <2>2. QED
    BY <1>1, <1>3, <2>1, Tasks DEF Places, ServersUp
<1>4. QED
  BY <1>2, <1>3

\* A query fails: the load is abandoned, and startup gives up the lock.
LEMMA LoadFailsInv ==
    ASSUME IInv, NEW l \in Loaders, LoadFails(l)
    PROVE  IInv'
<1>1. /\ pc[l] \in {"nodes", "edges"} /\ pc' = Finished(l)
      /\ holders' = holders \ {l} /\ load' = [load EXCEPT ![l] = EmptyGraph]
      /\ UNCHANGED <<history, dbUp, graph, queue>>
      /\ pc \in [Loaders \cup Readers -> Places] /\ load \in [Loaders -> Graph]
  BY DEF LoadFails, IInv, TypeOK
<1>2. l # "startup" => ServersUp
  BY <1>1, Tasks DEF IInv, TypeOK, Clients
<1>3. /\ pc' \in [Loaders \cup Readers -> Places]
      /\ pc'[l] \in {"up", "ticking", "idle"}
      /\ \A t \in Loaders \cup Readers :
            t # l => pc'[t] = pc[t] \/ (t = "reloader" /\ pc[t] = "off" /\ pc'[t] = "ticking")
      /\ ServersUp' /\ pc'["reloader"] \notin {"idle", "up", "off"} /\ pc'["startup"] = "up"
      /\ l \in Clients => pc'[l] = "idle"
  BY <1>1, <1>2, FinishedFacts DEF IInv
<1>4. EmptyGraph \in Graph
  BY DEF EmptyGraph, Graph
<1>5. TypeOK'
  BY <1>1, <1>3, <1>4, Tasks DEF IInv, TypeOK, Now
<1>6. LockHeld'
  BY <1>1, <1>3, Tasks DEF IInv, TypeOK, LockSafe, LockHeld
<1>7. LockQueue'
  BY <1>1, <1>3, QueueKept DEF IInv, LockSafe
<1>8. NoLockAcrossQuery' /\ StartupLock'
  BY <1>1, <1>2, <1>3, Tasks DEF IInv, TypeOK, NoLockAcrossQuery, StartupLock, LockSafe, LockHeld
<1>9. LoadsInv'
  BY <1>1, <1>3, LoadsKept DEF IInv
<1>10. SteadyEdgesServed'
  BY <1>1 DEF IInv, SteadyEdgesServed
<1>11. QED
  BY <1>5, <1>6, <1>7, <1>8, <1>9, <1>10 DEF IInv, LockSafe

\* A loaded graph replaces the one behind the lock.
LEMMA InstallInv ==
    ASSUME IInv, NEW l \in Loaders, Install(l)
    PROVE  IInv'
<1>1. /\ pc[l] = "holding" /\ pc' = Finished(l)
      /\ holders' = holders \ {l} /\ load' = [load EXCEPT ![l] = EmptyGraph]
      /\ graph' = load[l]
      /\ UNCHANGED <<history, dbUp, queue>>
      /\ pc \in [Loaders \cup Readers -> Places] /\ load \in [Loaders -> Graph]
  BY DEF Install, IInv, TypeOK
<1>2. l # "startup" => ServersUp
  BY <1>1, Tasks DEF IInv, TypeOK, Clients
<1>3. /\ pc' \in [Loaders \cup Readers -> Places]
      /\ pc'[l] \in {"up", "ticking", "idle"}
      /\ \A t \in Loaders \cup Readers :
            t # l => pc'[t] = pc[t] \/ (t = "reloader" /\ pc[t] = "off" /\ pc'[t] = "ticking")
      /\ ServersUp' /\ pc'["reloader"] \notin {"idle", "up", "off"} /\ pc'["startup"] = "up"
      /\ l \in Clients => pc'[l] = "idle"
  BY <1>1, <1>2, FinishedFacts DEF IInv
<1>4. EmptyGraph \in Graph
  BY DEF EmptyGraph, Graph
<1>5. TypeOK'
  BY <1>1, <1>3, <1>4, Tasks DEF IInv, TypeOK, Now
<1>6. LockHeld'
  BY <1>1, <1>3, Tasks DEF IInv, TypeOK, LockSafe, LockHeld
<1>7. LockQueue'
  BY <1>1, <1>3, QueueKept DEF IInv, LockSafe
<1>8. NoLockAcrossQuery' /\ StartupLock'
  BY <1>1, <1>2, <1>3, Tasks DEF IInv, TypeOK, NoLockAcrossQuery, StartupLock, LockSafe, LockHeld
<1>9. LoadsInv'
  BY <1>1, <1>3, LoadsKept DEF IInv
<1>10. SteadyEdgesServed'
  BY <1>1 DEF IInv, LoadsInv, SteadyEdgesServed
<1>11. QED
  BY <1>5, <1>6, <1>7, <1>8, <1>9, <1>10 DEF IInv, LockSafe

\* A load begins.
LEMMA StartLoadInv ==
    ASSUME IInv, NEW l \in Loaders, StartLoad(l)
    PROVE  IInv'
<1>1. /\ ServersUp /\ l # "startup" /\ pc[l] \in {"ticking", "idle"}
      /\ pc' = [pc EXCEPT ![l] = "nodes"]
      /\ UNCHANGED <<history, dbUp, graph, load, holders, queue>>
      /\ pc \in [Loaders \cup Readers -> Places]
  BY Tasks DEF StartLoad, IInv, TypeOK, Clients
<1>2. TypeOK'
  BY <1>1, Tasks DEF IInv, TypeOK, Places, ServersUp, Now
<1>3. LockHeld'
  BY <1>1 DEF IInv, LockSafe, LockHeld
<1>4. LockQueue'
  BY <1>1, QueueKept DEF IInv, LockSafe
<1>5. l \notin holders /\ ServersUp'
  BY <1>1, Tasks DEF IInv, LockSafe, LockHeld, ServersUp
<1>6. NoLockAcrossQuery' /\ StartupLock'
  BY <1>1, <1>5, Tasks DEF IInv, TypeOK, NoLockAcrossQuery, StartupLock, ServersUp
<1>7. LoadsInv'
  BY <1>1, LoadsKept DEF IInv
<1>8. SteadyEdgesServed'
  BY <1>1 DEF IInv, SteadyEdgesServed
<1>9. QED
  BY <1>2, <1>3, <1>4, <1>6, <1>7, <1>8 DEF IInv, LockSafe

\* A request asks for the lock.
LEMMA StartReadInv ==
    ASSUME IInv, NEW r \in Readers, StartRead(r)
    PROVE  IInv'
<1>1. /\ ServersUp /\ r # "startup" /\ pc[r] = "idle" /\ r \in Loaders \cup Readers
      /\ r \in Clients
      /\ pc' = [pc EXCEPT ![r] = "waiting"] /\ queue' = Append(queue, r)
      /\ UNCHANGED <<history, dbUp, graph, load, holders>>
      /\ pc \in [Loaders \cup Readers -> Places]
      /\ queue \in Seq(Loaders \cup Readers)
  BY Tasks DEF StartRead, Acquire, IInv, TypeOK, Clients
<1>2. TypeOK'
  BY <1>1, Tasks DEF IInv, TypeOK, Places, ServersUp, Now
<1>3. LockHeld'
  BY <1>1 DEF IInv, LockSafe, LockHeld
<1>4. LockQueue'
  BY <1>1, QueuePlus DEF IInv, LockSafe
<1>5. NoLockAcrossQuery' /\ StartupLock'
  BY <1>1, Tasks DEF IInv, TypeOK, NoLockAcrossQuery, StartupLock, ServersUp
<1>6. LoadsInv'
  BY <1>1, Tasks, LoadsKept DEF IInv
<1>7. SteadyEdgesServed'
  BY <1>1 DEF IInv, SteadyEdgesServed
<1>8. QED
  BY <1>2, <1>3, <1>4, <1>5, <1>6, <1>7 DEF IInv, LockSafe

\* A request is answered and gives up the lock.
LEMMA RespondInv ==
    ASSUME IInv, NEW r \in Readers, Respond(r)
    PROVE  IInv'
<1>1. /\ r # "startup" /\ pc[r] = "holding" /\ r \in Loaders \cup Readers
      /\ r \in Clients
      /\ pc' = [pc EXCEPT ![r] = "idle"] /\ holders' = holders \ {r}
      /\ UNCHANGED <<history, dbUp, graph, load, queue>>
      /\ pc \in [Loaders \cup Readers -> Places]
  BY Tasks DEF Respond, IInv, TypeOK, Clients
<1>2. TypeOK'
  BY <1>1, Tasks DEF IInv, TypeOK, Places, ServersUp, Now
<1>3. LockHeld'
  BY <1>1 DEF IInv, LockSafe, LockHeld
<1>4. LockQueue'
  BY <1>1, QueueKept DEF IInv, LockSafe
<1>5. NoLockAcrossQuery' /\ StartupLock'
  BY <1>1, Tasks DEF IInv, TypeOK, NoLockAcrossQuery, StartupLock, ServersUp
<1>6. LoadsInv'
  BY <1>1, Tasks, LoadsKept DEF IInv
<1>7. SteadyEdgesServed'
  BY <1>1 DEF IInv, SteadyEdgesServed
<1>8. QED
  BY <1>2, <1>3, <1>4, <1>5, <1>6, <1>7 DEF IInv, LockSafe

\* A client goes away while its handler waits.
LEMMA CancelInv ==
    ASSUME IInv, NEW t \in Clients, Cancel(t)
    PROVE  IInv'
<1>1. /\ pc[t] \in {"nodes", "edges", "waiting"} /\ pc' = [pc EXCEPT ![t] = "idle"]
      /\ load' = [l \in Loaders |-> IF l = t THEN EmptyGraph ELSE load[l]]
      /\ UNCHANGED <<history, dbUp, graph, holders>>
      /\ t \in Loaders \cup Readers /\ t # "startup" /\ t # "reloader"
      /\ pc \in [Loaders \cup Readers -> Places] /\ load \in [Loaders -> Graph]
      /\ queue \in Seq(Loaders \cup Readers)
  BY Tasks DEF Cancel, IInv, TypeOK
<1>2. queue' \in Seq(Loaders \cup Readers) /\ LockQueue'
  <2>1. CASE pc[t] # "waiting" /\ UNCHANGED queue
    BY <1>1, <2>1, QueueKept DEF IInv, LockSafe
  <2>2. CASE \E i \in 1..Len(queue) : queue[i] = t /\ queue' = RemoveAt(queue, i)
    <3>1. PICK i \in 1..Len(queue) : queue[i] = t /\ queue' = RemoveAt(queue, i)
      BY <2>2
    <3>2. /\ queue' \in Seq(Loaders \cup Readers) /\ Len(queue') = Len(queue) - 1
          /\ \A j \in 1..Len(queue) - 1 :
                queue'[j] = IF j < i THEN queue[j] ELSE queue[j + 1]
      BY <1>1, <3>1, RemoveAtFacts
    <3>3. pc' = [pc EXCEPT ![queue[i]] = "idle"]
      BY <1>1, <3>1
    <3>4. QED
      BY <3>2, <3>3, QueueMinus DEF IInv, LockSafe
  <2>3. QED
    BY <2>1, <2>2 DEF Cancel
<1>3. EmptyGraph \in Graph
  BY DEF EmptyGraph, Graph
<1>4. ServersUp /\ ServersUp'
  BY <1>1 DEF IInv, TypeOK, ServersUp
<1>5. TypeOK'
  BY <1>1, <1>2, <1>3, <1>4, Tasks DEF IInv, TypeOK, Places, Now
<1>6. LockHeld'
  BY <1>1 DEF IInv, LockSafe, LockHeld
<1>7. NoLockAcrossQuery' /\ StartupLock'
  BY <1>1, <1>4 DEF IInv, TypeOK, NoLockAcrossQuery, StartupLock
<1>8. LoadsInv'
  BY <1>1, LoadsKept DEF IInv
<1>9. SteadyEdgesServed'
  BY <1>1 DEF IInv, SteadyEdgesServed
<1>10. QED
  BY <1>2, <1>5, <1>6, <1>7, <1>8, <1>9 DEF IInv, LockSafe

\* The task at the head of the queue gets the lock.
LEMMA GrantInv ==
    ASSUME IInv, NEW t \in Loaders \cup Readers, Grant(t)
    PROVE  IInv'
<1>1. /\ queue # <<>> /\ t = Head(queue) /\ pc[t] = "waiting" /\ Compatible(t)
      /\ queue' = Tail(queue) /\ holders' = holders \cup {t}
      /\ pc' = [pc EXCEPT ![t] = "holding"]
      /\ UNCHANGED <<history, dbUp, graph, load>>
      /\ pc \in [Loaders \cup Readers -> Places]
      /\ queue \in Seq(Loaders \cup Readers) /\ Len(queue) \in Nat
  BY DEF Grant, IInv, TypeOK
<1>2. ServersUp /\ t # "startup"
  BY <1>1 DEF IInv, TypeOK, StartupLock
<1>3. /\ 1 \in 1..Len(queue) /\ queue[1] = t
      /\ queue' \in Seq(Loaders \cup Readers) /\ Len(queue') = Len(queue) - 1
      /\ \A j \in 1..Len(queue) - 1 : queue'[j] = queue[j + 1]
  BY <1>1
<1>4. LockQueue'
  <2>1. \A j \in 1..Len(queue) - 1 : queue'[j] = IF j < 1 THEN queue[j] ELSE queue[j + 1]
    BY <1>1, <1>3
  <2>2. pc' = [pc EXCEPT ![queue[1]] = "holding"]
    BY <1>1, <1>3
  <2>3. QED
    BY <1>3, <2>1, <2>2, QueueMinus DEF IInv, LockSafe
<1>5. ServersUp'
  BY <1>1, <1>2 DEF ServersUp, IInv, TypeOK
<1>6. TypeOK'
  BY <1>1, <1>2, <1>3, <1>5, Tasks DEF IInv, TypeOK, Places, Now
<1>7. LockHeld'
  BY <1>1, <1>2, Tasks DEF IInv, TypeOK, LockSafe, LockHeld, Compatible
<1>8. NoLockAcrossQuery' /\ StartupLock'
  BY <1>1, <1>2, <1>5 DEF IInv, TypeOK, NoLockAcrossQuery, StartupLock
<1>9. LoadsInv'
  BY <1>1, LoadsKept DEF IInv
<1>10. SteadyEdgesServed'
  BY <1>1 DEF IInv, SteadyEdgesServed
<1>11. QED
  BY <1>4, <1>6, <1>7, <1>8, <1>9, <1>10 DEF IInv, LockSafe

\* Another client changes a row.
LEMMA WriteDbInv ==
    ASSUME IInv, WriteDb
    PROVE  IInv'
<1>1. /\ Now <= MaxWrites /\ UNCHANGED <<dbUp, graph, pc, load, holders, queue>>
      /\ history \in Seq(Content) /\ Now \in Nat /\ 1 <= Now /\ Now = Len(history)
      /\ load \in [Loaders -> Graph] /\ graph \in Graph
  BY DEF WriteDb, IInv, TypeOK, Now
<1>2. PICK c \in Content : history' = Append(history, c)
  <2>1. history[Now] \in Content
    BY <1>1
  <2>2. ASSUME NEW n \in Nodes
        PROVE  [history[Now] EXCEPT !.nodes = Toggle(@, n)] \in Content
    BY <2>1 DEF Content, Toggle
  <2>3. ASSUME NEW e \in Edges
        PROVE  [history[Now] EXCEPT !.edges = Toggle(@, e)] \in Content
    BY <2>1 DEF Content, Toggle
  <2>4. QED
    BY <2>2, <2>3 DEF WriteDb
<1>3. /\ history' \in Seq(Content) /\ Len(history') = Now + 1
      /\ \A v \in 1..Now : history'[v] = history[v]
  BY <1>1, <1>2
<1>4. TypeOK'
  BY <1>1, <1>3, ServiceAssumption DEF IInv, TypeOK, Now, ServersUp
<1>5. LockSafe' /\ NoLockAcrossQuery' /\ StartupLock'
  BY <1>1 DEF IInv, LockSafe, LockHeld, LockQueue, NoLockAcrossQuery, StartupLock, ServersUp
<1>6. LoadsInv'
  <2> SUFFICES ASSUME NEW l \in Loaders
               PROVE  /\ pc[l] = "edges" =>
                           /\ load[l].nv \in 1..Now'
                           /\ load[l].nodes = history'[load[l].nv].nodes
                      /\ pc[l] \in {"waiting", "holding"} => Steady(history', load[l])
    BY <1>1 DEF LoadsInv
  <2>1. CASE pc[l] = "edges"
    BY <1>1, <1>3, <2>1 DEF IInv, LoadsInv, Now
  <2>2. CASE pc[l] \in {"waiting", "holding"}
    <3>1. load[l] \in Graph /\ Steady(history, load[l])
      BY <1>1, <2>2 DEF IInv, LoadsInv
    <3>2. QED
      BY <1>1, <1>2, <2>2, <3>1, SteadyStays
  <2>3. QED
    BY <2>1, <2>2
<1>7. SteadyEdgesServed'
  <2>1. CASE graph = EmptyGraph
    BY <1>1, <2>1 DEF SteadyEdgesServed
  <2>2. CASE Steady(history, graph)
    <3>1. Steady(history', graph)
      BY <1>1, <1>2, <2>2, SteadyStays
    <3>2. QED
      BY <1>1, <3>1 DEF SteadyEdgesServed
  <2>3. QED
    BY <2>1, <2>2 DEF IInv, SteadyEdgesServed
<1>8. QED
  BY <1>4, <1>5, <1>6, <1>7 DEF IInv

\* The database goes away or comes back, or nothing happens.
LEMMA StutterInv ==
    ASSUME IInv, UNCHANGED <<history, graph, pc, load, holders, queue>>, dbUp' \in BOOLEAN
    PROVE  IInv'
BY DEF IInv, TypeOK, LockSafe, LockHeld, LockQueue, NoLockAcrossQuery, StartupLock,
       LoadsInv, SteadyEdgesServed, ServersUp, Now

-------------------------------------------------------------------------------
(***************************************************************************)
(* The theorems.                                                           *)
(***************************************************************************)

\* Every step keeps the invariant.
LEMMA NextIInv == IInv /\ [Next]_vars => IInv'
<1> SUFFICES ASSUME IInv, [Next]_vars
             PROVE  IInv'
  OBVIOUS
<1>1. ASSUME NEW l \in Loaders, StartLoad(l) \/ LoadStep(l)
      PROVE  IInv'
  BY <1>1, StartLoadInv, QueryNodesInv, QueryEdgesInv, LoadFailsInv, InstallInv DEF LoadStep
<1>2. ASSUME NEW r \in Readers, StartRead(r) \/ Respond(r)
      PROVE  IInv'
  BY <1>2, StartReadInv, RespondInv
<1>3. ASSUME NEW t \in Clients, Cancel(t)
      PROVE  IInv'
  BY <1>3, CancelInv
<1>4. ASSUME NEW t \in Loaders \cup Readers, Grant(t)
      PROVE  IInv'
  BY <1>4, GrantInv
<1>5. CASE WriteDb
  BY <1>5, WriteDbInv
<1>6. CASE DbUpDown
  BY <1>6, StutterInv DEF DbUpDown, IInv, TypeOK
<1>7. CASE UNCHANGED vars
  BY <1>7, StutterInv DEF vars, IInv, TypeOK
<1>8. QED
  BY <1>1, <1>2, <1>3, <1>4, <1>5, <1>6, <1>7 DEF Next

(***************************************************************************)
(* Startup, reloads, requests, cancellations and database failures keep    *)
(* the invariant in every order.                                           *)
(***************************************************************************)
THEOREM ServiceInvariant == Spec => []IInv
BY InitIInv, NextIInv, PTL DEF Spec

\* No request runs before startup ended, and the reload task never ends.
THEOREM ServiceTypeOK == Spec => []TypeOK
BY ServiceInvariant, PTL DEF IInv

\* The write lock is exclusive, and cancelled handlers leave no waiter behind.
THEOREM ServiceLockSafe == Spec => []LockSafe
BY ServiceInvariant, PTL DEF IInv

\* Only startup ever holds the lock while it waits for the database.
THEOREM ServiceNoLockAcrossQuery == Spec => []NoLockAcrossQuery
BY ServiceInvariant, PTL DEF IInv

(***************************************************************************)
(* A load that is no snapshot still serves every edge that was active all  *)
(* through it, and none without its ends.                                  *)
(***************************************************************************)
THEOREM ServiceSteadyEdgesServed == Spec => []SteadyEdgesServed
BY ServiceInvariant, PTL DEF IInv

(***************************************************************************)
(* The graph is replaced only when no request is reading it, so an         *)
(* optimization runs on one graph from its search to its response.         *)
(***************************************************************************)
THEOREM ServiceGraphStable == Spec => GraphStableUnderReaders
<1>1. IInv /\ [Next]_vars => [graph' # graph => holders \cap Readers = {}]_vars
  <2> SUFFICES ASSUME IInv, Next, graph' # graph
               PROVE  holders \cap Readers = {}
    BY DEF vars
  <2>1. PICK l \in Loaders : Install(l)
    BY DEF Next, LoadStep, StartLoad, QueryNodes, QueryEdges, LoadFails, StartRead, Respond,
           Cancel, Grant, WriteDb, DbUpDown
  <2>2. l \in holders
    BY <2>1 DEF Install, IInv, LockSafe, LockHeld
  <2>3. QED
    BY <2>1, <2>2, Tasks DEF IInv, LockSafe, LockHeld
<1>2. QED
  BY <1>1, ServiceInvariant, PTL DEF Spec, GraphStableUnderReaders

(***************************************************************************)
(* The process implements GraphStore.                                      *)
(***************************************************************************)
Served(g) == [nodes |-> g.nodes, edges |-> g.edges]

\* A loaded graph is a view of the database.
LEMMA SteadyIsView ==
    ASSUME NEW h \in Seq(Content), NEW g \in Graph, Steady(h, g)
    PROVE  Store!View(h, Served(g))
<1>1. /\ g.nv \in 1..Len(h) /\ g.ev \in 1..Len(h) /\ g.nv <= g.ev
      /\ g.edges \subseteq Edges
  BY DEF Steady, Graph
<1>2. /\ Served(g).nodes = g.nodes /\ Served(g).edges = g.edges
  BY DEF Served
<1>3. \A e \in g.edges : e \in h[g.ev].edges /\ Store!Joined(e, g.nodes)
  BY DEF Steady, Store!Joined
<1>4. \A e \in Edges :
        (\A v \in g.nv..g.ev : e \in h[v].edges /\ Store!Joined(e, h[v].nodes)) => e \in g.edges
  BY DEF Steady, Store!Joined
<1>5. QED
  BY <1>1, <1>2, <1>3, <1>4 DEF Store!View, Steady

\* Initial states map to initial states.
LEMMA StoreInit == Init => Store!Init
<1> SUFFICES ASSUME Init
             PROVE  Store!Init
  OBVIOUS
<1>1. graph = EmptyGraph /\ holders = {"startup"}
  BY DEF Init
<1>2. "startup" \notin Readers
  BY ServiceAssumption
<1>3. QED
  BY <1>1, <1>2 DEF Init, EmptyGraph, Store!Init, Content, Store!Content

\* Every step of a task, a client or the database is one of the store, or
\* none.
LEMMA StoreStep == IInv /\ [Next]_vars => [Store!Next]_Store!vars
<1> SUFFICES ASSUME IInv, Next
             PROVE  Store!Next \/ UNCHANGED Store!vars
  BY DEF vars, Store!vars
<1>1. ASSUME NEW l \in Loaders, StartLoad(l) \/ QueryNodes(l) \/ QueryEdges(l)
      PROVE  UNCHANGED Store!vars
  BY <1>1 DEF StartLoad, QueryNodes, QueryEdges, Store!vars
<1>2. ASSUME NEW l \in Loaders, LoadFails(l)
      PROVE  UNCHANGED Store!vars
  <2>1. l \notin Readers
    BY <1>2, ServiceAssumption DEF LoadFails, IInv, TypeOK
  <2>2. QED
    BY <1>2, <2>1 DEF LoadFails, Store!vars
<1>3. ASSUME NEW l \in Loaders, Install(l)
      PROVE  Store!Replace
  <2>1. holders = {l} /\ l \notin Readers
    BY <1>3, Tasks, ServiceAssumption DEF Install, IInv, LockSafe, LockHeld, Loaders
  <2>2. holders' = {} /\ graph' = load[l] /\ history' = history
    BY <1>3, <2>1 DEF Install
  <2>3. Store!View(history, Served(load[l]))
    BY <1>3, SteadyIsView DEF Install, IInv, TypeOK, LoadsInv
  <2>4. QED
    BY <2>1, <2>2, <2>3 DEF Store!Replace, Served
<1>4. ASSUME NEW r \in Readers, StartRead(r)
      PROVE  UNCHANGED Store!vars
  BY <1>4 DEF StartRead, Store!vars
<1>5. ASSUME NEW r \in Readers, Respond(r)
      PROVE  Store!End(r)
  <2>1. r \in holders
    BY <1>5 DEF Respond, IInv, LockSafe, LockHeld
  <2>2. QED
    BY <1>5, <2>1 DEF Respond, Store!End
<1>6. ASSUME NEW t \in Clients, Cancel(t)
      PROVE  UNCHANGED Store!vars
  BY <1>6 DEF Cancel, Store!vars
<1>7. ASSUME NEW t \in Loaders \cup Readers, Grant(t)
      PROVE  Store!Next \/ UNCHANGED Store!vars
  <2>1. CASE t \in Readers
    <3>1. t \notin holders
      BY <1>7, <2>1, Tasks, ServiceAssumption DEF Grant, IInv, LockSafe, LockHeld, Loaders
    <3>2. Store!Begin(t)
      BY <1>7, <2>1, <3>1 DEF Grant, Store!Begin
    <3>3. QED
      BY <2>1, <3>2 DEF Store!Next
  <2>2. CASE t \notin Readers
    BY <1>7, <2>2 DEF Grant, Store!vars
  <2>3. QED
    BY <2>1, <2>2
<1>8. CASE WriteDb
  <2>1. PICK c \in Content : history' = Append(history, c)
    <3>1. history[Now] \in Content
      BY DEF IInv, TypeOK, Now
    <3>2. QED
      BY <1>8, <3>1 DEF WriteDb, Content, Toggle
  <2>2. Store!Write
    BY <1>8, <2>1 DEF WriteDb, Store!Write, Content, Store!Content
  <2>3. QED
    BY <2>2 DEF Store!Next
<1>9. CASE DbUpDown
  BY <1>9 DEF DbUpDown, Store!vars
<1>10. QED
  BY <1>1, <1>2, <1>3, <1>4, <1>5, <1>6, <1>7, <1>8, <1>9 DEF Next, LoadStep, Store!Next

(***************************************************************************)
(* Startup, reloads, the lock, failures and disconnections together        *)
(* implement the store the requests work with.                             *)
(***************************************************************************)
THEOREM ServiceImplementsStore == Spec => ImplementsStore
BY ServiceInvariant, StoreInit, StoreStep, PTL DEF Spec, Store!Spec, ImplementsStore
===============================================================================
