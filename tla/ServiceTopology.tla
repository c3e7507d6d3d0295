--------------------------- MODULE ServiceTopology --------------------------
(***************************************************************************)
(* The registry of services and the dependencies between them: requests    *)
(* that add a dependency search the present ones for a path back, on a     *)
(* thread each, while others add and delete services and dependencies.     *)
(*                                                                         *)
(* A transaction sees what was committed before each of its statements.    *)
(* The queries before the search can only refuse a request; services that  *)
(* are gone, or a dependency that is there, by the time of the insert are  *)
(* refused by its constraints.                                             *)
(***************************************************************************)
EXTENDS Naturals

CONSTANTS
    Services,   \* services that may come to exist
    FirstLive,  \* those there are at the beginning
    Requests,   \* requests to add a dependency
    MaxDeletions, \* bound on the deletions
    NoService   \* no service

ASSUME TopologyAssumption ==
    NoService \notin Services /\ FirstLive \subseteq Services /\ MaxDeletions \in Nat

VARIABLES
    service,    \* services: each "new", "live" or "deleted"
    edges,      \* service_dependencies, from source to target
    request,    \* where each request is
    deletions,  \* deletions so far
    raced       \* history: a dependency was added that a search had missed
                \* another one of

vars == <<service, edges, request, deletions, raced>>

Idle == [at |-> "idle", source |-> NoService, target |-> NoService,
         adjacency |-> {}, stack |-> {}, visited |-> {}]

RequestState ==
    [at : {"idle", "checked", "searching", "acyclic"},
     source : Services \cup {NoService}, target : Services \cup {NoService},
     adjacency : SUBSET (Services \X Services),
     stack : SUBSET Services, visited : SUBSET Services]

Live == {s \in Services : service[s] = "live"}

TypeOK ==
    /\ service \in [Services -> {"new", "live", "deleted"}]
    /\ edges \subseteq Live \X Live
    /\ request \in [Requests -> RequestState]
    /\ \A r \in Requests : request[r].at # "idle" =>
         /\ {request[r].source, request[r].target} \subseteq Services
         /\ request[r].source # request[r].target
    /\ deletions \in 0..MaxDeletions /\ raced \in BOOLEAN

Init ==
    /\ service = [s \in Services |-> IF s \in FirstLive THEN "live" ELSE "new"]
    /\ edges = {}
    /\ request = [r \in Requests |-> Idle]
    /\ deletions = 0
    /\ raced = FALSE

-----------------------------------------------------------------------------
(* add_dependency.                                                         *)

AddDependency(r, s, t) ==
    /\ request[r].at = "idle"
    /\ s \in Live /\ t \in Live /\ s # t /\ <<s, t>> \notin edges
    /\ request' = [request EXCEPT ![r] =
           [Idle EXCEPT !.at = "checked", !.source = s, !.target = t]]
    /\ UNCHANGED <<service, edges, deletions, raced>>

\* _would_create_cycle reads the dependencies and adds the new one.
ReadEdges(r) ==
    /\ request[r].at = "checked"
    /\ LET s == request[r].source
           t == request[r].target
       IN  request' = [request EXCEPT ![r].at = "searching",
               ![r].adjacency = edges \cup {<<s, t>>},
               ![r].stack = {t}, ![r].visited = {}]
    /\ UNCHANGED <<service, edges, deletions, raced>>

\* Slip: the direction of the dependencies is mistaken.
Sources(r, x) == {y \in Services : <<y, x>> \in request[r].adjacency}

Targets(r, x) == {y \in Services : <<x, y>> \in request[r].adjacency}

\* Slip: only the direct dependencies of the target are looked at.
VisitOnly(r, x) ==
    request' = [request EXCEPT ![r].visited = @ \cup {x}, ![r].stack = @ \ {x}]

\* The service taken from the stack is the source, or was visited, or is
\* visited now.  Which is taken does not matter, nor how often one is there.
Visit(r, x) ==
    request' = [request EXCEPT ![r].visited = @ \cup {x},
        ![r].stack = IF x \in request[r].visited THEN @ \ {x}
                     ELSE (@ \ {x}) \cup Targets(r, x)]

Search(r) ==
    /\ request[r].at = "searching"
    /\ IF request[r].stack = {}
       THEN request' = [request EXCEPT ![r].at = "acyclic", ![r].visited = {}]
       ELSE \E x \in request[r].stack :
              IF x = request[r].source THEN request' = [request EXCEPT ![r] = Idle]
              ELSE Visit(r, x)
    /\ UNCHANGED <<service, edges, deletions, raced>>

\* The insert and its commit, unless a constraint refuses it.
Insert(r) ==
    LET s == request[r].source
        t == request[r].target
    IN  /\ request[r].at = "acyclic"
        /\ request' = [request EXCEPT ![r] = Idle]
        /\ IF s \in Live /\ t \in Live /\ <<s, t>> \notin edges
           THEN /\ edges' = edges \cup {<<s, t>>}
                /\ raced' = (raced \/ edges \ request[r].adjacency # {})
           ELSE UNCHANGED <<edges, raced>>
        /\ UNCHANGED <<service, deletions>>

-----------------------------------------------------------------------------
(* The other requests commit once.                                         *)

CreateService(s) ==
    /\ service[s] = "new"
    /\ service' = [service EXCEPT ![s] = "live"]
    /\ UNCHANGED <<edges, request, deletions, raced>>

Delete == deletions < MaxDeletions /\ deletions' = deletions + 1

\* Its dependencies are deleted with it.
DeleteService(s) ==
    /\ service[s] = "live"
    /\ Delete
    /\ service' = [service EXCEPT ![s] = "deleted"]
    /\ edges' = {e \in edges : s \notin {e[1], e[2]}}
    /\ UNCHANGED <<request, raced>>

DeleteDependency(e) ==
    /\ Delete
    /\ edges' = edges \ {e}
    /\ UNCHANGED <<service, request, raced>>

Next ==
    \/ \E r \in Requests :
         \/ \E s, t \in Services : AddDependency(r, s, t)
         \/ ReadEdges(r) \/ Search(r) \/ Insert(r)
    \/ \E s \in Services : CreateService(s) \/ DeleteService(s)
    \/ \E e \in edges : DeleteDependency(e)

Spec == Init /\ [][Next]_vars

-----------------------------------------------------------------------------
(* Properties.                                                             *)

Closed(set, graph) == \A e \in graph : e[1] \in set => e[2] \in set

\* What can be reached from x lies in every set that holds x and is closed.
Reaches(x, y, graph) ==
    \A set \in SUBSET Services : x \in set /\ Closed(set, graph) => y \in set

Acyclic(graph) == \A e \in graph : ~Reaches(e[2], e[1], graph)

\* The search refuses a dependency exactly when its source can be reached
\* from its target in the dependencies that were read: by the time it has
\* none left to visit it cannot, and a service it takes for the source
\* proves that it can.
SearchIsRight ==
    \A r \in Requests :
        LET q == request[r]
        IN  /\ q.at = "acyclic" => ~Reaches(q.target, q.source, q.adjacency)
            /\ q.at = "searching" /\ q.source \in q.stack =>
                  Reaches(q.target, q.source, q.adjacency)

\* "Dependency would create a cycle" keeps the dependencies acyclic, whatever
\* is added and deleted at a time, unless one was added after a search that
\* had missed another.
AcyclicUnlessRaced == raced \/ Acyclic(edges)

=============================================================================
