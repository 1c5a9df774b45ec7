--------------------------------- MODULE Startup ---------------------------------
(***************************************************************************)
(* How the route optimizer (rust-routing main.rs) and the API (deno-api    *)
(* main.ts) start, in any order, beside databases that come and go, and    *)
(* what API requests that need the optimizer meet afterwards.  Either      *)
(* process may crash, and its operator may start it again or not: the      *)
(* compose file has no restart policy.  The optimizer is the release build *)
(* of its image, where a panic of any task ends the process.               *)
(*                                                                         *)
(* Until its startup load is over the optimizer listens nowhere; module    *)
(* GraphService has what it does from then on.                             *)
(***************************************************************************)
EXTENDS FiniteSets, TLAPS

CONSTANT Requests     \* API requests that may be at the optimizer at once

Databases == {"surrealdb", "xtdb", "dragonfly"}

Ports == {"http", "grpc"}

\* What the optimizer's environment may say: everything it needs; something
\* missing or unreadable; or a reload interval of zero seconds.
Configs == {"good", "unreadable", "no_interval"}

\* In the order in which main() connects to them.
Services == Databases \cup {"optimizer"}

VARIABLES
    up,          \* databases that answer
    taken,       \* ports of the optimizer's host that another process has
    config,      \* the optimizer's environment variables
    optimizer,   \* how far the optimizer is
    http,        \* its HTTP server: "off" or "up"
    api,         \* how far the API is: which service it connects to next
    connected,   \* clients of the API whose connected flag is set
    request      \* by API request: what became of its call

vars == <<up, taken, config, optimizer, http, api, connected, request>>

Init ==
    /\ up \in SUBSET Databases /\ taken \in SUBSET Ports /\ config \in Configs
    /\ optimizer = "off" /\ http = "off"
    /\ api = "off" /\ connected = {}
    /\ request = [r \in Requests |-> "none"]
-------------------------------------------------------------------------------
(***************************************************************************)
(* The optimizer.                                                          *)
(***************************************************************************)
\* Config::from_env()?, and exit(1) in require_env.
StartOptimizer ==
    /\ optimizer \in {"off", "exited"}
    /\ optimizer' = IF config = "unreadable" THEN "exited" ELSE "connecting"
    /\ UNCHANGED <<up, taken, config, http, api, connected, request>>

\* ConnectionManager::new(..).await?: no optimizer without Dragonfly.
ConnectRedis ==
    /\ optimizer = "connecting"
    /\ optimizer' = IF "dragonfly" \in up THEN "loading" ELSE "exited"
    /\ UNCHANGED <<up, taken, config, http, api, connected, request>>

\* The load succeeds or fails; "Starting with empty graph".
LoadGraph ==
    /\ optimizer = "loading"
    /\ optimizer' = "spawning"
    /\ UNCHANGED <<up, taken, config, http, api, connected, request>>

\* tokio::time::interval panics on a period of zero.  With another interval the
\* task loads the graph on its ticks, see GraphService.
StartReloader ==
    /\ optimizer \in {"spawning", "serving"} /\ config = "no_interval"
    /\ optimizer' = "exited" /\ http' = "off"
    /\ UNCHANGED <<up, taken, config, api, connected, request>>

MutBindHttp ==
    /\ optimizer \in {"loading", "spawning", "serving"} /\ http = "off"
    /\ IF "http" \in taken THEN optimizer' = "exited" /\ UNCHANGED http
       ELSE http' = "up" /\ UNCHANGED optimizer
    /\ UNCHANGED <<up, taken, config, api, connected, request>>

MutBindHttpQuietly ==
    /\ optimizer \in {"spawning", "serving"} /\ http = "off" /\ "http" \notin taken
    /\ http' = "up"
    /\ UNCHANGED <<up, taken, config, optimizer, api, connected, request>>

\* bind(..).await.unwrap() in the task of the HTTP server: when it cannot have
\* its port the panic ends the process, which may be serving gRPC by then.
BindHttp ==
    /\ optimizer \in {"spawning", "serving"} /\ http = "off"
    /\ IF "http" \in taken THEN optimizer' = "exited" /\ UNCHANGED http
       ELSE http' = "up" /\ UNCHANGED optimizer
    /\ UNCHANGED <<up, taken, config, api, connected, request>>

\* serve(addr).await?: the end of main ends every task.
BindGrpc ==
    /\ optimizer = "spawning"
    /\ IF "grpc" \in taken THEN optimizer' = "exited" /\ http' = "off"
       ELSE optimizer' = "serving" /\ UNCHANGED http
    /\ UNCHANGED <<up, taken, config, api, connected, request>>

CrashOptimizer ==
    /\ optimizer \notin {"off", "exited"}
    /\ optimizer' = "off" /\ http' = "off"
    /\ UNCHANGED <<up, taken, config, api, connected, request>>
-------------------------------------------------------------------------------
(***************************************************************************)
(* The API.                                                                *)
(***************************************************************************)
StartApi ==
    /\ api = "off"
    /\ api' = "surrealdb" /\ connected' = {}
    /\ UNCHANGED <<up, taken, config, optimizer, http, request>>

\* Does connect() of a service come back without an exception, and with its
\* flag set?  Dragonfly's assumes that it works, the optimizer's catches.
Throws(s) == s \in {"surrealdb", "xtdb"} \ up

Answers(s) == IF s = "optimizer" THEN http = "up" ELSE ~Throws(s)

Following == [surrealdb |-> "xtdb", xtdb |-> "dragonfly", dragonfly |-> "optimizer",
              optimizer |-> "serving"]

MutConnect ==
    /\ api \in Services
    /\ connected' = IF Answers(api) THEN connected \cup {api} ELSE connected
    /\ api' = Following[api]
    /\ UNCHANGED <<up, taken, config, optimizer, http, request>>

MutConnectOutsideTry ==
    /\ api \in Services
    /\ connected' = IF Answers(api) THEN connected \cup {api} ELSE connected
    /\ api' = IF Throws(api) THEN "dead" ELSE Following[api]
    /\ UNCHANGED <<up, taken, config, optimizer, http, request>>

\* One try block around four connects: an exception skips those that are left,
\* and the API serves.
Connect ==
    /\ api \in Services
    /\ connected' = IF Answers(api) THEN connected \cup {api} ELSE connected
    /\ api' = IF Throws(api) THEN "serving" ELSE Following[api]
    /\ UNCHANGED <<up, taken, config, optimizer, http, request>>

CrashApi ==
    /\ api # "off"
    /\ api' = "off" /\ connected' = {}
    /\ request' = [r \in Requests |-> "none"]
    /\ UNCHANGED <<up, taken, config, optimizer, http>>

\* A request reaches fetch(`${url}/optimize`).
CallOptimizer(r) ==
    /\ api = "serving" /\ request[r] # "waiting"
    /\ request' = [request EXCEPT ![r] = "waiting"]
    /\ UNCHANGED <<up, taken, config, optimizer, http, api, connected>>

MutReply(r) ==
    /\ request[r] = "waiting"
    /\ request' = [request EXCEPT ![r] =
                      IF http = "up" /\ "optimizer" \in connected THEN "answered" ELSE "failed"]
    /\ UNCHANGED <<up, taken, config, optimizer, http, api, connected>>

\* An answer, whatever it says, or an exception, which the handler catches.
\* No flag is read and none is set.
Reply(r) ==
    /\ request[r] = "waiting"
    /\ request' = [request EXCEPT ![r] = IF http = "up" THEN "answered" ELSE "failed"]
    /\ UNCHANGED <<up, taken, config, optimizer, http, api, connected>>
-------------------------------------------------------------------------------
Toggle(S, x) == IF x \in S THEN S \ {x} ELSE S \cup {x}

DatabaseUpDown ==
    /\ \E d \in Databases : up' = Toggle(up, d)
    /\ UNCHANGED <<taken, config, optimizer, http, api, connected, request>>

Bound == {p \in Ports : \/ p = "http" /\ http = "up"
                        \/ p = "grpc" /\ optimizer = "serving"}

\* Another process takes a port that is free, or frees one.
PortTakenFreed ==
    /\ \E p \in Ports \ Bound : taken' = Toggle(taken, p)
    /\ UNCHANGED <<up, config, optimizer, http, api, connected, request>>

\* A process reads its environment when it starts.
Reconfigure ==
    /\ optimizer \in {"off", "exited"}
    /\ config' \in Configs
    /\ UNCHANGED <<up, taken, optimizer, http, api, connected, request>>

Next ==
    \/ StartOptimizer \/ ConnectRedis \/ LoadGraph \/ StartReloader \/ BindHttp \/ BindGrpc
    \/ CrashOptimizer
    \/ StartApi \/ Connect \/ CrashApi
    \/ \E r \in Requests : CallOptimizer(r) \/ Reply(r)
    \/ DatabaseUpDown \/ PortTakenFreed \/ Reconfigure

(***************************************************************************)
(* A process that runs goes on, and a fetch or a query comes back, if only *)
(* with an error.  Nobody need start a process, or start it again.         *)
(***************************************************************************)
Fairness ==
    /\ WF_vars(ConnectRedis) /\ WF_vars(LoadGraph)
    /\ WF_vars(StartReloader) /\ WF_vars(BindHttp) /\ WF_vars(BindGrpc)
    /\ WF_vars(Connect)
    /\ \A r \in Requests : WF_vars(Reply(r))

Spec == Init /\ [][Next]_vars /\ Fairness
-------------------------------------------------------------------------------
(***************************************************************************)
(* No HTTP server outlives its process or precedes the startup load, and   *)
(* no request is at work in an API that is not serving.                    *)
(***************************************************************************)
TypeOK ==
    /\ up \subseteq Databases /\ taken \subseteq Ports /\ config \in Configs
    /\ optimizer \in {"off", "connecting", "loading", "spawning", "serving", "exited"}
    /\ http \in {"off", "up"}
    /\ http = "up" => optimizer \in {"spawning", "serving"}
    /\ api \in Services \cup {"off", "serving"}
    /\ connected \subseteq Services
    /\ request \in [Requests -> {"none", "waiting", "answered", "failed"}]
    /\ api # "serving" => \A r \in Requests : request[r] = "none"

(***************************************************************************)
(* What /health of a serving API reports: a service is connected only if   *)
(* those before it are, so that SurrealDB or XTDB failing at the start     *)
(* hides what comes after, and Dragonfly, which is never asked, is         *)
(* connected exactly when XTDB is.                                         *)
(***************************************************************************)
HealthOfStart ==
    api = "serving" =>
        /\ "xtdb" \in connected => "surrealdb" \in connected
        /\ "dragonfly" \in connected <=> "xtdb" \in connected
        /\ "optimizer" \in connected => "dragonfly" \in connected

\* Before the API serves, every service it has been through is connected: one
\* that threw would have ended the connects.
ConnectsInOrder ==
    /\ api \in {"off", "surrealdb"} => connected = {}
    /\ api = "xtdb" => connected = {"surrealdb"}
    /\ api = "dragonfly" => connected = {"surrealdb", "xtdb"}
    /\ api = "optimizer" => connected = Databases

\* The inductive invariant.
IInv == TypeOK /\ ConnectsInOrder /\ HealthOfStart

(***************************************************************************)
(* Whatever is down or goes down meanwhile, an API that is started serves, *)
(* unless it crashes.                                                      *)
(***************************************************************************)
ApiServes == api = "surrealdb" ~> api \in {"serving", "off"}

\* Why the optimizer may end by itself: what its environment says when it
\* starts, Dragonfly away when it connects, and afterwards a reload interval of
\* zero, or a port that another process has while its server is not up.
ExitsForCause ==
    optimizer # "exited" /\ optimizer' = "exited" =>
        \/ optimizer = "off" /\ config = "unreadable"
        \/ optimizer = "connecting" /\ "dragonfly" \notin up
        \/ /\ optimizer \in {"spawning", "serving"}
           /\ \/ config = "no_interval"
              \/ http = "off" /\ "http" \in taken
              \/ optimizer = "spawning" /\ "grpc" \in taken

(***************************************************************************)
(* An optimizer that is started and does not crash serves both gRPC and    *)
(* HTTP, or ends: it never goes on with one of its servers only.  It ends  *)
(* by itself only for want of its configuration, of Dragonfly or of a      *)
(* port, never for want of SurrealDB, and not once both servers are up     *)
(* and the reload interval is positive.                                    *)
(***************************************************************************)
OptimizerServes ==
    /\ optimizer = "connecting" ~>
           \/ optimizer = "serving" /\ http = "up"
           \/ optimizer \in {"exited", "off"}
    /\ [][ExitsForCause]_vars

(***************************************************************************)
(* "Optimizer not available, will retry on requests": once the optimizer   *)
(* stays reachable, calls no longer fail, also in an API that started      *)
(* before it and goes on reporting it as disconnected.                     *)
(***************************************************************************)
CallsRecover ==
    /\ \A r \in Requests : request[r] = "waiting" ~> request[r] # "waiting"
    /\ <>[](http = "up") =>
          <>[][\A r \in Requests : request[r] = "waiting" => request'[r] # "failed"]_vars
-------------------------------------------------------------------------------
(***************************************************************************)
(* What holds at every moment of the two processes' lives, for any number  *)
(* of requests: IInv is inductive, and the invariants follow from it.      *)
(***************************************************************************)

\* Both processes are off, and nothing is connected.
LEMMA InitIInv == Init => IInv
BY DEF Init, IInv, TypeOK, ConnectsInOrder, HealthOfStart, Services, Databases

\* The steps of the optimizer leave the API alone.
LEMMA OptimizerInv ==
    ASSUME IInv,
           \/ StartOptimizer \/ ConnectRedis \/ LoadGraph \/ StartReloader
           \/ BindHttp \/ BindGrpc \/ CrashOptimizer
    PROVE  IInv'
<1>1. UNCHANGED <<up, taken, config, api, connected, request>>
  BY DEF StartOptimizer, ConnectRedis, LoadGraph, StartReloader, BindHttp,
         BindGrpc, CrashOptimizer
<1>2. /\ optimizer' \in {"off", "connecting", "loading", "spawning", "serving", "exited"}
      /\ http' \in {"off", "up"}
      /\ http' = "up" => optimizer' \in {"spawning", "serving"}
  BY DEF StartOptimizer, ConnectRedis, LoadGraph, StartReloader, BindHttp,
         BindGrpc, CrashOptimizer, IInv, TypeOK
<1>3. QED
  BY <1>1, <1>2 DEF IInv, TypeOK, ConnectsInOrder, HealthOfStart

\* One connect of the API.
LEMMA ConnectInv ==
    ASSUME IInv, Connect
    PROVE  IInv'
<1>1. /\ api \in Services
      /\ connected' = IF Answers(api) THEN connected \cup {api} ELSE connected
      /\ api' = IF Throws(api) THEN "serving" ELSE Following[api]
      /\ UNCHANGED <<up, taken, config, optimizer, http, request>>
  BY DEF Connect
<1>2. Following[api] \in Services \cup {"serving"} /\ api' \in Services \cup {"serving"}
  BY <1>1 DEF Services, Databases, Following
<1>3. TypeOK'
  BY <1>1, <1>2 DEF IInv, TypeOK, Services, Databases
<1>4. ConnectsInOrder' /\ HealthOfStart'
  <2>1. CASE api = "surrealdb"
    BY <1>1, <2>1 DEF IInv, ConnectsInOrder, HealthOfStart, Answers, Throws, Following, Databases
  <2>2. CASE api = "xtdb"
    BY <1>1, <2>2 DEF IInv, ConnectsInOrder, HealthOfStart, Answers, Throws, Following, Databases
  <2>3. CASE api = "dragonfly"
    BY <1>1, <2>3 DEF IInv, ConnectsInOrder, HealthOfStart, Answers, Throws, Following, Databases
  <2>4. CASE api = "optimizer"
    BY <1>1, <2>4 DEF IInv, ConnectsInOrder, HealthOfStart, Answers, Throws, Following, Databases
  <2>5. QED
    BY <1>1, <2>1, <2>2, <2>3, <2>4 DEF Services, Databases
<1>5. QED
  BY <1>3, <1>4 DEF IInv

\* The API begins or ends, or a request goes to the optimizer and back.
LEMMA ApiInv ==
    ASSUME IInv, StartApi \/ CrashApi \/ \E r \in Requests : CallOptimizer(r) \/ Reply(r)
    PROVE  IInv'
<1>1. CASE StartApi
  BY <1>1 DEF StartApi, IInv, TypeOK, ConnectsInOrder, HealthOfStart, Services, Databases
<1>2. CASE CrashApi
  BY <1>2 DEF CrashApi, IInv, TypeOK, ConnectsInOrder, HealthOfStart, Services, Databases
<1>3. ASSUME NEW r \in Requests, CallOptimizer(r) \/ Reply(r)
      PROVE  IInv'
  <2>1. api = "serving"
    BY <1>3 DEF CallOptimizer, Reply, IInv, TypeOK
  <2>2. /\ request' \in [Requests -> {"none", "waiting", "answered", "failed"}]
        /\ UNCHANGED <<up, taken, config, optimizer, http, api, connected>>
    BY <1>3 DEF CallOptimizer, Reply, IInv, TypeOK
  <2>3. QED
    BY <2>1, <2>2 DEF IInv, TypeOK, ConnectsInOrder, HealthOfStart
<1>4. QED
  BY <1>1, <1>2, <1>3

\* Databases come and go, ports are taken and freed, the environment of the
\* optimizer is edited, or nothing happens.
LEMMA EnvironmentInv ==
    ASSUME IInv, DatabaseUpDown \/ PortTakenFreed \/ Reconfigure \/ UNCHANGED vars
    PROVE  IInv'
<1>1. up' \subseteq Databases /\ taken' \subseteq Ports /\ config' \in Configs
  BY DEF DatabaseUpDown, PortTakenFreed, Reconfigure, Toggle, vars, IInv, TypeOK
<1>2. UNCHANGED <<optimizer, http, api, connected, request>>
  BY DEF DatabaseUpDown, PortTakenFreed, Reconfigure, vars
<1>3. QED
  BY <1>1, <1>2 DEF IInv, TypeOK, ConnectsInOrder, HealthOfStart

\* Starts, crashes and failures in any order keep the invariant.
THEOREM StartupInvariant == Spec => []IInv
<1>1. IInv /\ [Next]_vars => IInv'
  BY OptimizerInv, ConnectInv, ApiInv, EnvironmentInv DEF Next
<1>2. QED
  BY InitIInv, <1>1, PTL DEF Spec

\* The HTTP server runs only in a process that has done its startup load, and
\* no request is at work in an API that is not serving.
THEOREM StartupTypeOK == Spec => []TypeOK
BY StartupInvariant, PTL DEF IInv

\* A failed connect hides every later service from /health, and Dragonfly is
\* reported as XTDB is.
THEOREM StartupHealthOfStart == Spec => []HealthOfStart
BY StartupInvariant, PTL DEF IInv

(***************************************************************************)
(* Each way in which the optimizer ends by itself has its cause: an        *)
(* optimizer with a readable configuration, a positive reload interval and *)
(* both servers up only crashes or is stopped.  The safety half of         *)
(* OptimizerServes.                                                        *)
(***************************************************************************)
THEOREM StartupExits == Spec => [][ExitsForCause]_vars
<1>1. ASSUME Next
      PROVE  ExitsForCause
  <2>1. CASE UNCHANGED optimizer
    BY <2>1 DEF ExitsForCause
  <2>2. CASE StartOptimizer \/ ConnectRedis \/ LoadGraph \/ CrashOptimizer
    BY <2>2 DEF StartOptimizer, ConnectRedis, LoadGraph, CrashOptimizer, ExitsForCause
  <2>3. CASE StartReloader \/ BindHttp \/ BindGrpc
    BY <2>3 DEF StartReloader, BindHttp, BindGrpc, ExitsForCause
  <2>4. QED
    BY <1>1, <2>1, <2>2, <2>3 DEF Next, StartApi, Connect, CrashApi, CallOptimizer, Reply,
       DatabaseUpDown, PortTakenFreed, Reconfigure
<1>2. QED
  BY <1>1, PTL DEF Spec

(***************************************************************************)
(* Once the optimizer stays reachable calls stop failing, whatever         *)
(* /health says of it and whenever the API started: the half of            *)
(* CallsRecover that needs no fairness.                                    *)
(***************************************************************************)
THEOREM StartupRecovers ==
    Spec => (<>[](http = "up") =>
                <>[][\A r \in Requests : request[r] = "waiting" => request'[r] # "failed"]_vars)
<1> DEFINE Kept == \A r \in Requests : request[r] = "waiting" => request'[r] # "failed"
<1>1. ASSUME TypeOK, [Next]_vars, http = "up", vars' # vars
      PROVE  Kept
  <2>1. request \in [Requests -> {"none", "waiting", "answered", "failed"}]
    BY <1>1 DEF TypeOK
  <2>2. CASE UNCHANGED request
    BY <2>2
  <2>3. ASSUME NEW q \in Requests, CallOptimizer(q) \/ Reply(q)
        PROVE  Kept
    BY <1>1, <2>1, <2>3 DEF CallOptimizer, Reply
  <2>4. CASE CrashApi
    BY <2>4 DEF CrashApi
  <2>5. QED
    BY <1>1, <2>2, <2>3, <2>4 DEF Next, StartOptimizer, ConnectRedis, LoadGraph, StartReloader,
       BindHttp, BindGrpc, CrashOptimizer, StartApi, Connect, DatabaseUpDown, PortTakenFreed, Reconfigure
<1> HIDE DEF Kept
<1>2. TypeOK /\ [Next]_vars => [http = "up" => Kept]_vars
  BY <1>1
<1>3. Spec => (<>[](http = "up") => <>[][Kept]_vars)
  BY <1>2, StartupTypeOK, PTL DEF Spec
<1>4. QED
  BY <1>3 DEF Kept
================================================================================
