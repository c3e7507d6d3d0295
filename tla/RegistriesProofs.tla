-------------------------- MODULE RegistriesProofs --------------------------
(***************************************************************************)
(* Proofs about the two registries whose requests look before they write,  *)
(* ServiceTopology and Users, which share no state.                        *)
(*                                                                         *)
(* The search of add_dependency is right and the dependencies are acyclic  *)
(* unless raced, for any number of services, requests and deletions.  A    *)
(* search keeps four facts: its target was visited or is on the stack, its *)
(* source was not visited, what a visited service depends on was visited   *)
(* or is on the stack, and all that is on the stack can be reached from    *)
(* the target.  With the stack empty the visited services are closed, hold *)
(* the target and lack the source.                                         *)
(*                                                                         *)
(* An administrator remains unless an update was overtaken, for any number *)
(* of accounts and updates.  An update that is ready to commit and has     *)
(* missed nothing since its last look either counted two administrators or *)
(* writes over the account it read, and then takes no administrator away.  *)
(***************************************************************************)
EXTENDS Users, ServiceTopology, FiniteSetTheorems, TLAPS

-----------------------------------------------------------------------------
(* ServiceTopology.                                                        *)

SearchInv(q) ==
    /\ q.target \in q.visited \cup q.stack
    /\ q.source \notin q.visited
    /\ \A e \in q.adjacency : e[1] \in q.visited => e[2] \in q.visited \cup q.stack
    /\ \A x \in q.stack : Reaches(q.target, x, q.adjacency)

RequestInv(q) ==
    /\ q.at = "searching" => SearchInv(q)
    /\ q.at = "acyclic" => ~Reaches(q.target, q.source, q.adjacency)

IInv ==
    /\ TypeOK
    /\ \A r \in Requests : RequestInv(request[r])
    /\ AcyclicUnlessRaced

-----------------------------------------------------------------------------
(* Reachability.                                                           *)

\* What is reached by more dependencies includes what is reached by fewer.
LEMMA FewerReachLess ==
    ASSUME NEW F, NEW E, F \subseteq E, NEW x, NEW y, Reaches(x, y, F)
    PROVE  Reaches(x, y, E)
  BY DEF Reaches, Closed

\* Without some of its dependencies an acyclic graph is acyclic.
LEMMA FewerAreAcyclic ==
    ASSUME NEW F, NEW E, F \subseteq E, Acyclic(E)
    PROVE  Acyclic(F)
  BY FewerReachLess DEF Acyclic

\* A dependency from what can be reached leads to what can be reached.
LEMMA NextIsReached ==
    ASSUME NEW E, NEW t, NEW x, NEW y, Reaches(t, x, E), <<x, y>> \in E
    PROVE  Reaches(t, y, E)
  BY DEF Reaches, Closed

\* A new dependency whose source its target does not reach closes no cycle.
LEMMA AddedIsAcyclic ==
    ASSUME NEW E, NEW s \in Services, NEW t \in Services,
           Acyclic(E), ~Reaches(t, s, E)
    PROVE  Acyclic(E \cup {<<s, t>>})
  <1> DEFINE More == E \cup {<<s, t>>}
  <1>1. PICK T \in SUBSET Services : t \in T /\ Closed(T, E) /\ s \notin T
    BY DEF Reaches
  <1>2. SUFFICES ASSUME NEW e \in More
                 PROVE  \E set \in SUBSET Services :
                            e[2] \in set /\ Closed(set, More) /\ e[1] \notin set
    BY DEF Acyclic, Reaches
  <1>3. CASE e = <<s, t>>
    BY <1>1, <1>3 DEF Closed
  <1>4. CASE e \in E
    <2>1. PICK R \in SUBSET Services :
              e[2] \in R /\ Closed(R, E) /\ e[1] \notin R
      BY <1>4 DEF Acyclic, Reaches
    <2>2. CASE s \notin R
      BY <2>1, <2>2 DEF Closed
    <2>3. CASE s \in R /\ e[1] \notin T
      <3>1. Closed(R \cup T, More)
        BY <1>1, <2>1 DEF Closed
      <3>2. e[2] \in R \cup T /\ e[1] \notin R \cup T /\ R \cup T \in SUBSET Services
        BY <2>1, <2>3
      <3> QED BY <3>1, <3>2
    <2>4. CASE s \in R /\ e[1] \in T
      <3>1. Closed(R \cap T, More)
        BY <1>1, <2>1 DEF Closed
      <3>2. e[2] \in R \cap T
        BY <1>1, <1>4, <2>1, <2>4 DEF Closed
      <3>3. e[1] \notin R \cap T /\ R \cap T \in SUBSET Services
        BY <2>1
      <3> QED BY <3>1, <3>2, <3>3
    <2> QED BY <2>2, <2>3, <2>4
  <1> QED BY <1>3, <1>4

\* A step that moves one request and deletes no service keeps the types.
LEMMA OneRequestTypes ==
    ASSUME TypeOK, NEW r \in Requests, NEW new \in RequestState,
           new.at # "idle" => /\ {new.source, new.target} \subseteq Services
                              /\ new.source # new.target,
           request' = [request EXCEPT ![r] = new],
           service' = service, deletions' = deletions,
           edges' \subseteq Live \X Live, raced' \in BOOLEAN
    PROVE  TypeOK'
  <1>1. Live' = Live
    BY DEF Live
  <1>2. request' \in [Requests -> RequestState]
    BY DEF TypeOK
  <1>3. \A p \in Requests : request'[p].at # "idle" =>
            /\ {request'[p].source, request'[p].target} \subseteq Services
            /\ request'[p].source # request'[p].target
    BY DEF TypeOK
  <1> QED BY <1>1, <1>2, <1>3 DEF TypeOK

LEMMA IdleIsState == Idle \in RequestState /\ Idle.at = "idle"
  BY DEF Idle, RequestState

\* The steps of other requests: they leave this one as it is.
OnlyOf(r) == \A p \in Requests : p # r => request'[p] = request[p]

-----------------------------------------------------------------------------
(* Each action keeps the invariant.                                        *)

LEMMA InitInv == Init => IInv
  <1> SUFFICES ASSUME Init PROVE IInv
    OBVIOUS
  <1>1. TypeOK
    <2>1. Idle \in RequestState
      BY DEF Idle, RequestState
    <2>2. request \in [Requests -> RequestState]
      BY <2>1 DEF Init
    <2>3. \A r \in Requests : request[r].at = "idle"
      BY DEF Init, Idle
    <2>4. 0 \in 0..MaxDeletions
      BY TopologyAssumption
    <2>5. service \in [Services -> {"new", "live", "deleted"}]
      BY DEF Init
    <2>6. edges \subseteq Live \X Live /\ deletions \in 0..MaxDeletions /\ raced \in BOOLEAN
      BY <2>4 DEF Init
    <2> QED BY <2>2, <2>3, <2>5, <2>6 DEF TypeOK
  <1>2. \A r \in Requests : RequestInv(request[r])
    BY DEF Init, Idle, RequestInv
  <1>3. AcyclicUnlessRaced
    BY DEF Init, AcyclicUnlessRaced, Acyclic
  <1> QED BY <1>1, <1>2, <1>3 DEF IInv

LEMMA AddDependencyInv ==
    ASSUME IInv, NEW r \in Requests, NEW s \in Services, NEW t \in Services,
           AddDependency(r, s, t)
    PROVE  IInv'
  <1> USE DEF IInv
  <1>1. TypeOK'
    BY DEF TypeOK, AddDependency, Idle, RequestState, Live
  <1>2. request'[r].at = "checked" /\ OnlyOf(r)
    BY DEF TypeOK, AddDependency, Idle, OnlyOf
  <1>3. \A p \in Requests : RequestInv(request'[p])
    BY <1>2 DEF RequestInv, OnlyOf
  <1>4. AcyclicUnlessRaced'
    BY DEF AddDependency, AcyclicUnlessRaced
  <1> QED BY <1>1, <1>3, <1>4

LEMMA ReadEdgesInv ==
    ASSUME IInv, NEW r \in Requests, ReadEdges(r)
    PROVE  IInv'
  <1> USE DEF IInv
  <1> DEFINE q == request[r]
  <1>0. q \in RequestState /\ q.source \in Services /\ q.target \in Services
    BY DEF TypeOK, ReadEdges
  <1> DEFINE new == [q EXCEPT !.at = "searching", !.stack = {q.target},
                !.visited = {}, !.adjacency = edges \cup {<<q.source, q.target>>}]
  <1>1. TypeOK'
    <2>0. edges \cup {<<q.source, q.target>>} \in SUBSET (Services \X Services)
      BY <1>0 DEF TypeOK, Live
    <2>1. new \in RequestState /\ new.source = q.source /\ new.target = q.target
      BY <1>0, <2>0 DEF RequestState
    <2>2. request' = [request EXCEPT ![r] = new] /\ UNCHANGED <<service, edges, deletions, raced>>
      BY <1>0 DEF ReadEdges
    <2>3. q.source # q.target
      BY DEF TypeOK, ReadEdges
    <2> QED BY <1>0, <2>1, <2>2, <2>3 DEF TypeOK, Live
  <1>2. request'[r] = new /\ OnlyOf(r)
    BY DEF TypeOK, ReadEdges, OnlyOf
  <1>3. RequestInv(request'[r])
    <2>1. /\ request'[r].at = "searching" /\ request'[r].target = q.target
          /\ request'[r].stack = {q.target} /\ request'[r].visited = {}
      BY <1>0, <1>2 DEF RequestState
    <2>2. Reaches(q.target, q.target, request'[r].adjacency)
      BY DEF Reaches
    <2> QED BY <2>1, <2>2 DEF RequestInv, SearchInv
  <1>4. \A p \in Requests : RequestInv(request'[p])
    BY <1>2, <1>3 DEF OnlyOf
  <1>5. AcyclicUnlessRaced'
    BY DEF ReadEdges, AcyclicUnlessRaced
  <1> QED BY <1>1, <1>4, <1>5

\* The search: it refuses, visits, skips or has nothing left to visit.
LEMMA SearchKeeps ==
    ASSUME IInv, NEW r \in Requests, Search(r)
    PROVE  IInv'
  <1> USE DEF IInv
  <1> DEFINE q == request[r]
  <1>0. /\ q \in RequestState /\ q.at = "searching" /\ SearchInv(q)
        /\ {q.source, q.target} \subseteq Services /\ q.source # q.target
    BY DEF TypeOK, Search, RequestInv
  <1>1. AcyclicUnlessRaced'
    BY DEF Search, AcyclicUnlessRaced
  <1>2. CASE q.stack = {}
    <2>1. /\ request' = [request EXCEPT ![r] = [q EXCEPT !.at = "acyclic", !.visited = {}]]
          /\ UNCHANGED <<service, edges, deletions, raced>>
      BY <1>2 DEF Search
    <2>2. TypeOK'
      BY <1>0, <2>1 DEF TypeOK, RequestState, Live
    <2>3. ~Reaches(q.target, q.source, q.adjacency)
      BY <1>0, <1>2 DEF SearchInv, Reaches, Closed, RequestState
    <2>4. /\ request'[r].at = "acyclic" /\ request'[r].target = q.target
          /\ request'[r].source = q.source /\ request'[r].adjacency = q.adjacency
          /\ OnlyOf(r)
      BY <1>0, <2>1 DEF TypeOK, RequestState, OnlyOf
    <2>5. \A p \in Requests : RequestInv(request'[p])
      BY <2>3, <2>4 DEF RequestInv, OnlyOf
    <2> QED BY <1>1, <2>2, <2>5
  <1>3. CASE \E x \in q.stack : x = q.source /\ request' = [request EXCEPT ![r] = Idle]
    <2>1. TypeOK'
      BY <1>0, <1>3 DEF TypeOK, Search, Idle, RequestState, Live
    <2>2. request'[r].at = "idle" /\ OnlyOf(r)
      BY <1>3 DEF TypeOK, Idle, OnlyOf
    <2>3. \A p \in Requests : RequestInv(request'[p])
      BY <2>2 DEF RequestInv, OnlyOf
    <2> QED BY <1>1, <2>1, <2>3
  <1>4. CASE \E x \in q.stack : x # q.source /\ Visit(r, x)
    <2>1. PICK x \in q.stack : x # q.source /\ Visit(r, x)
      BY <1>4
    <2> DEFINE Left == IF x \in q.visited THEN q.stack \ {x}
                       ELSE (q.stack \ {x}) \cup Targets(r, x)
    <2>2. /\ request' = [request EXCEPT ![r] =
                 [q EXCEPT !.visited = @ \cup {x}, !.stack = Left]]
          /\ UNCHANGED <<service, edges, deletions, raced>>
      BY <2>1 DEF Search, Visit
    <2>3. Left \subseteq Services
      BY <1>0 DEF Targets, RequestState
    <2>4. TypeOK'
      <3> DEFINE new == [q EXCEPT !.visited = @ \cup {x}, !.stack = Left]
      <3>1. q.visited \cup {x} \in SUBSET Services /\ Left \in SUBSET Services
        BY <1>0, <2>3 DEF RequestState
      <3>2. new \in RequestState /\ new.source = q.source /\ new.target = q.target
        <4> HIDE DEF Left
        <4> QED BY <1>0, <3>1 DEF RequestState
      <3>3. edges' \subseteq Live \X Live /\ raced' \in BOOLEAN
        BY <2>2 DEF TypeOK
      <3> HIDE DEF new
      <3>4. request' = [request EXCEPT ![r] = new]
        BY <2>2 DEF new
      <3>5. {new.source, new.target} \subseteq Services /\ new.source # new.target
        BY <1>0, <3>2
      <3> QED BY <2>2, <3>2, <3>3, <3>4, <3>5, OneRequestTypes
    <2>5. /\ request'[r].at = "searching" /\ request'[r].target = q.target
          /\ request'[r].source = q.source /\ request'[r].adjacency = q.adjacency
          /\ request'[r].visited = q.visited \cup {x} /\ request'[r].stack = Left
          /\ OnlyOf(r)
      BY <1>0, <2>2 DEF TypeOK, RequestState, OnlyOf
    <2>6. SearchInv(request'[r])
      <3>1. q.target \in (q.visited \cup {x}) \cup Left
        BY <1>0 DEF SearchInv
      <3>2. q.source \notin q.visited \cup {x}
        BY <1>0, <2>1 DEF SearchInv
      <3>3. \A e \in q.adjacency : e[1] \in q.visited \cup {x} =>
                e[2] \in (q.visited \cup {x}) \cup Left
        BY <1>0 DEF SearchInv, Targets, RequestState
      <3>4. \A y \in Left : Reaches(q.target, y, q.adjacency)
        BY <1>0, NextIsReached DEF SearchInv, Targets
      <3> QED BY <2>5, <3>1, <3>2, <3>3, <3>4 DEF SearchInv
    <2>7. \A p \in Requests : RequestInv(request'[p])
      BY <2>5, <2>6 DEF RequestInv, OnlyOf
    <2> QED BY <1>1, <2>4, <2>7
  <1> QED BY <1>2, <1>3, <1>4 DEF Search

\* The insert: if nothing was missed, what was searched had all there is.
LEMMA InsertInv ==
    ASSUME IInv, NEW r \in Requests, Insert(r)
    PROVE  IInv'
  <1> USE DEF IInv
  <1> DEFINE q == request[r]
  <1>0. /\ q \in RequestState /\ {q.source, q.target} \subseteq Services
        /\ ~Reaches(q.target, q.source, q.adjacency)
    BY DEF TypeOK, Insert, RequestInv
  <1>1. TypeOK'
    <2>1. edges' \subseteq Live \X Live /\ raced' \in BOOLEAN
      <3>1. edges' \subseteq Live \X Live
        <4>1. edges' = edges \/ (q.source \in Live /\ q.target \in Live
                               /\ edges' = edges \cup {<<q.source, q.target>>})
          BY DEF Insert
        <4> QED BY <4>1 DEF TypeOK
      <3>2. raced \in BOOLEAN
        BY DEF TypeOK
      <3>3. raced' = raced \/ raced' = (raced \/ edges \ q.adjacency # {})
        BY Zenon DEF Insert
      <3>4. raced' \in BOOLEAN
        BY <3>2, <3>3, Zenon
      <3> QED BY <3>1, <3>4
    <2>2. request' = [request EXCEPT ![r] = Idle] /\ UNCHANGED <<service, deletions>>
      BY Zenon DEF Insert
    <2> QED BY <2>1, <2>2, IdleIsState, OneRequestTypes
  <1>2. request'[r].at = "idle" /\ OnlyOf(r)
    BY DEF TypeOK, Insert, Idle, OnlyOf
  <1>3. \A p \in Requests : RequestInv(request'[p])
    BY <1>2 DEF RequestInv, OnlyOf
  <1>4. AcyclicUnlessRaced'
    <2>1. SUFFICES ASSUME ~raced' PROVE Acyclic(edges')
      BY DEF AcyclicUnlessRaced
    <2>2. CASE UNCHANGED <<edges, raced>>
      BY <2>1, <2>2 DEF AcyclicUnlessRaced
    <2>3. CASE /\ edges' = edges \cup {<<q.source, q.target>>}
               /\ raced' = (raced \/ edges \ q.adjacency # {})
      <3>1. Acyclic(edges) /\ edges \subseteq q.adjacency
        BY <2>1, <2>3 DEF AcyclicUnlessRaced
      <3>2. ~Reaches(q.target, q.source, edges)
        BY <1>0, <3>1, FewerReachLess
      <3> QED BY <1>0, <2>3, <3>1, <3>2, AddedIsAcyclic
    <2> QED BY <2>2, <2>3 DEF Insert
  <1> QED BY <1>1, <1>3, <1>4

\* The requests that commit once.
LEMMA OthersInv ==
    ASSUME IInv,
           \/ \E s \in Services : CreateService(s) \/ DeleteService(s)
           \/ \E e \in edges : DeleteDependency(e)
    PROVE  IInv'
  <1> USE DEF IInv
  <1>1. request' = request
    BY DEF CreateService, DeleteService, DeleteDependency
  <1>2. edges' \subseteq edges /\ raced' = raced
    BY DEF CreateService, DeleteService, DeleteDependency
  <1>3. service' \in [Services -> {"new", "live", "deleted"}] /\ deletions' \in 0..MaxDeletions
    BY TopologyAssumption DEF TypeOK, CreateService, DeleteService, DeleteDependency, Delete
  <1>4. edges' \subseteq Live' \X Live'
    <2>1. CASE \E s \in Services : CreateService(s)
      BY <2>1 DEF TypeOK, CreateService, Live
    <2>2. CASE \E s \in Services : DeleteService(s)
      <3>1. PICK s \in Services : DeleteService(s)
        BY <2>2
      <3>2. Live' = Live \ {s}
        BY <3>1 DEF TypeOK, DeleteService, Live
      <3> QED BY <3>1, <3>2 DEF TypeOK, DeleteService
    <2>3. CASE \E e \in edges : DeleteDependency(e)
      BY <2>3 DEF TypeOK, DeleteDependency, Live
    <2> QED BY <2>1, <2>2, <2>3
  <1>5. TypeOK'
    BY <1>1, <1>2, <1>3, <1>4 DEF TypeOK
  <1>6. AcyclicUnlessRaced'
    BY <1>2, FewerAreAcyclic DEF AcyclicUnlessRaced
  <1> QED BY <1>1, <1>5, <1>6

LEMMA NextInv == IInv /\ [Next]_vars => IInv'
  <1> SUFFICES ASSUME IInv, [Next]_vars PROVE IInv'
    OBVIOUS
  <1>1. CASE \E r \in Requests, s, t \in Services : AddDependency(r, s, t)
    BY <1>1, AddDependencyInv
  <1>2. CASE \E r \in Requests : ReadEdges(r) \/ Search(r) \/ Insert(r)
    BY <1>2, ReadEdgesInv, SearchKeeps, InsertInv
  <1>3. CASE \/ \E s \in Services : CreateService(s) \/ DeleteService(s)
             \/ \E e \in edges : DeleteDependency(e)
    BY <1>3, OthersInv
  <1>4. CASE UNCHANGED vars
    BY <1>4 DEF vars, IInv, TypeOK, Live, AcyclicUnlessRaced
  <1> QED BY <1>1, <1>2, <1>3, <1>4 DEF Next

LEMMA Invariance == Spec => []IInv
  <1>1. Init => IInv
    BY InitInv
  <1>2. IInv /\ [Next]_vars => IInv'
    BY NextInv
  <1> QED BY <1>1, <1>2, PTL DEF Spec

-----------------------------------------------------------------------------

\* _would_create_cycle answers what it is asked, whatever the dependencies
\* it read are and in whatever order it visits the services.
THEOREM SearchesAreRight == Spec => []SearchIsRight
  <1>1. IInv => SearchIsRight
    BY DEF IInv, RequestInv, SearchInv, SearchIsRight
  <1> QED BY <1>1, Invariance, PTL

\* Only a dependency that was committed between the search of another
\* request and its insert can close a cycle.
THEOREM OnlyRacesCloseCycles == Spec => []AcyclicUnlessRaced
  <1>1. IInv => AcyclicUnlessRaced
    BY DEF IInv
  <1> QED BY <1>1, Invariance, PTL

-----------------------------------------------------------------------------
(* Users.                                                                  *)

UpdateInv(q, accounts) ==
    /\ q.at = "caller" /\ ~q.stale => q.read = accounts[q.caller]
    /\ q.at # "caller" => accounts[q.user] # NoAccount
    /\ q.at = "user" => Removes(q)
    /\ q.at = "counted" /\ ~q.stale =>
          IF Removes(q) THEN \E u \in Ids : u # q.user /\ IsAdmin(accounts[u])
          ELSE q.read = accounts[q.user]

AccountsInv ==
    /\ UsersTypeOK
    /\ \A r \in Updates : update[r] # NoUpdate => UpdateInv(update[r], account)
    /\ AdminUnlessRaced

\* What is left when idle requests and busy ones are told apart.
LEMMA BusyIsNotIdle ==
    ASSUME UsersTypeOK, NEW r \in Updates
    PROVE  /\ update[r].at # "idle" => update[r] \in Busy
           /\ update[r] = NoUpdate \/ update[r].at # "idle"
  BY DEF UsersTypeOK, Busy, NoUpdate

LEMMA AccountsInit == UsersInit => AccountsInv
  <1> SUFFICES ASSUME UsersInit PROVE AccountsInv
    OBVIOUS
  <1>1. FirstAdmin \in Admins
    BY UsersAssumption DEF UsersInit, Admins, IsAdmin
  <1>2. UsersTypeOK
    BY DEF UsersInit, UsersTypeOK, Account, Roles, Activity
  <1> QED BY <1>1, <1>2 DEF AccountsInv, UsersInit, AdminUnlessRaced, AdminRemains

\* An account is only added, and only where there was none.
LEMMA AddInv ==
    ASSUME AccountsInv, NEW u \in Ids, NEW role \in Roles, Add(u, role)
    PROVE  AccountsInv'
  <1> USE DEF AccountsInv
  <1>1. UsersTypeOK'
    BY DEF UsersTypeOK, Add, Account, Activity
  <1>2. \A v \in Ids : v # u => account'[v] = account[v]
    BY DEF UsersTypeOK, Add
  <1>3. Admins \subseteq Admins'
    BY <1>2 DEF Add, Admins, IsAdmin, NoAccount
  <1>4. \A r \in Updates : update'[r] # NoUpdate => UpdateInv(update'[r], account')
    <2> SUFFICES ASSUME NEW r \in Updates, update[r] # NoUpdate
                 PROVE  UpdateInv(update[r], account')
      BY DEF Add
    <2>1. update[r] \in Busy /\ UpdateInv(update[r], account)
      BY DEF UsersTypeOK
    <2>2. update[r].read # NoAccount
      BY <2>1 DEF Busy, Account, Roles, NoAccount
    <2>3. \A v \in Ids : update[r].read = account[v] => account'[v] = account[v]
      BY <1>2, <2>2 DEF Add
    <2>4. \A v \in Ids : IsAdmin(account[v]) => IsAdmin(account'[v])
      BY <1>3 DEF Admins
    <2>5. \A v \in Ids : account[v] # NoAccount => account'[v] # NoAccount
      BY <1>2 DEF Add
    <2> QED BY <2>1, <2>3, <2>4, <2>5 DEF UpdateInv, Busy
  <1>5. AdminUnlessRaced'
    BY <1>3 DEF Add, AdminUnlessRaced, AdminRemains
  <1> QED BY <1>1, <1>4, <1>5

LEMMA AuthenticateInv ==
    ASSUME AccountsInv, NEW r \in Updates, NEW c \in Ids, NEW u \in Ids,
           NEW role \in Roles \cup {Keep}, NEW active \in Activity \cup {Keep},
           Authenticate(r, c, u, role, active)
    PROVE  AccountsInv'
  <1> USE DEF AccountsInv
  <1> DEFINE q == [at |-> "caller", caller |-> c, user |-> u, role |-> role,
                   active |-> active, read |-> account[c], stale |-> FALSE]
  <1>1. account[c] \in Account
    BY DEF UsersTypeOK, Authenticate, Admins, IsAdmin, NoAccount
  <1>2. q \in Busy
    BY <1>1 DEF Busy
  <1>3. update' = [update EXCEPT ![r] = q] /\ UNCHANGED <<account, overtaken>>
    BY DEF Authenticate
  <1>4. UsersTypeOK'
    BY <1>2, <1>3 DEF UsersTypeOK
  <1>5. UpdateInv(q, account)
    BY DEF UpdateInv
  <1>6. \A p \in Updates : update'[p] # NoUpdate => UpdateInv(update'[p], account')
    BY <1>3, <1>5 DEF UsersTypeOK
  <1>7. AdminUnlessRaced'
    BY <1>3 DEF AdminUnlessRaced, AdminRemains, Admins
  <1> QED BY <1>4, <1>6, <1>7

LEMMA FinishInv ==
    ASSUME AccountsInv, NEW r \in Updates, Finish(r)
    PROVE  AccountsInv'
  <1> USE DEF AccountsInv
  <1>1. UsersTypeOK'
    BY DEF UsersTypeOK, Finish
  <1>2. \A p \in Updates : update'[p] # NoUpdate => UpdateInv(update'[p], account')
    BY DEF UsersTypeOK, Finish
  <1>3. AdminUnlessRaced'
    BY DEF Finish, AdminUnlessRaced, AdminRemains, Admins
  <1> QED BY <1>1, <1>2, <1>3

\* A step of one request that leaves the accounts alone.
LEMMA OneRequestInv ==
    ASSUME AccountsInv, NEW r \in Updates, NEW q \in Busy, UpdateInv(q, account),
           update' = [update EXCEPT ![r] = q], UNCHANGED <<account, overtaken>>
    PROVE  AccountsInv'
  <1> USE DEF AccountsInv
  <1>1. UsersTypeOK'
    BY DEF UsersTypeOK
  <1>2. \A p \in Updates : update'[p] # NoUpdate => UpdateInv(update'[p], account')
    BY DEF UsersTypeOK
  <1>3. AdminUnlessRaced'
    BY DEF AdminUnlessRaced, AdminRemains, Admins
  <1> QED BY <1>1, <1>2, <1>3

LEMMA ReadUserInv ==
    ASSUME AccountsInv, NEW r \in Updates, ReadUser(r)
    PROVE  AccountsInv'
  <1> USE DEF AccountsInv
  <1> DEFINE q == update[r]
             seen == IF q.user = q.caller THEN q
                     ELSE [q EXCEPT !.read = account[q.user], !.stale = FALSE]
             new == [seen EXCEPT !.at = IF Removes(seen) THEN "user" ELSE "counted"]
  <1>1. q \in Busy /\ q.at = "caller" /\ UpdateInv(q, account)
    BY DEF ReadUser, UsersTypeOK, NoUpdate
  <1>2. CASE Finish(r)
    BY <1>2, FinishInv
  <1>3. CASE /\ account[q.user] # NoAccount
             /\ update' = [update EXCEPT ![r] = new] /\ UNCHANGED <<account, overtaken>>
    <2>1. account[q.user] \in Account
      BY <1>1, <1>3 DEF UsersTypeOK, Busy
    <2>2. seen \in Busy
      BY <1>1, <2>1 DEF Busy
    <2>3. ~seen.stale => seen.read = account[seen.user]
      <3>1. CASE q.user = q.caller
        BY <1>1, <3>1 DEF UpdateInv
      <3>2. CASE q.user # q.caller
        BY <1>1, <3>2 DEF Busy
      <3> QED BY <3>1, <3>2
    <2> HIDE DEF seen
    <2>4. new \in Busy
      BY <2>2 DEF Busy
    <2>5. /\ new.at = IF Removes(seen) THEN "user" ELSE "counted"
          /\ new.read = seen.read /\ new.stale = seen.stale /\ new.user = seen.user
          /\ new.role = seen.role /\ new.active = seen.active
      BY <2>2 DEF Busy
    <2>6. UpdateInv(new, account)
      <3>1. account[new.user] # NoAccount
        BY <1>3, <2>5 DEF seen
      <3>2. Removes(new) = Removes(seen)
        BY <2>5 DEF Removes
      <3> HIDE DEF new
      <3> QED BY <2>3, <2>5, <3>1, <3>2 DEF UpdateInv
    <2> HIDE DEF new
    <2> QED BY <1>3, <2>4, <2>6, OneRequestInv
  <1> QED BY <1>2, <1>3 DEF ReadUser

LEMMA CountAdminsInv ==
    ASSUME AccountsInv, NEW r \in Updates, CountAdmins(r)
    PROVE  AccountsInv'
  <1> USE DEF AccountsInv
  <1> DEFINE q == update[r]
             new == [q EXCEPT !.at = "counted", !.stale = FALSE]
  <1>1. q \in Busy /\ q.at = "user"
    BY DEF CountAdmins, UsersTypeOK, NoUpdate
  <1>2. CASE Finish(r)
    BY <1>2, FinishInv
  <1>3. CASE ~TooFew /\ update' = [update EXCEPT ![r] = new] /\ UNCHANGED <<account, overtaken>>
    <2>1. new \in Busy /\ new.user = q.user
      BY <1>1 DEF Busy
    <2>2. PICK u \in Admins : u # q.user
      <3>1. SUFFICES ASSUME Admins \subseteq {q.user} PROVE FALSE
        OBVIOUS
      <3>2. Cardinality(Admins) <= Cardinality({q.user})
        BY <3>1, FS_Singleton, FS_Subset
      <3>3. Cardinality(Admins) \in Nat
        <4>1. IsFiniteSet(Admins)
          BY <3>1, FS_Singleton, FS_Subset
        <4> QED BY <4>1, FS_CardinalityType
      <3> QED BY <1>3, <3>2, <3>3, FS_Singleton DEF TooFew
    <2>3. UpdateInv(new, account)
      <3>1. new.at = "counted" /\ Removes(q)
        BY <1>1 DEF Busy, UpdateInv, NoUpdate
      <3>2. Removes(new)
        BY <1>1, <3>1 DEF Busy, Removes
      <3>3. account[new.user] # NoAccount /\ UpdateInv(q, account)
        BY <1>1, <2>1 DEF UpdateInv, NoUpdate
      <3> HIDE DEF new
      <3> QED BY <2>1, <2>2, <3>1, <3>2, <3>3 DEF UpdateInv, Admins
    <2> HIDE DEF new
    <2> QED BY <1>3, <2>1, <2>3, OneRequestInv
  <1> QED BY <1>2, <1>3 DEF CountAdmins

\* The commit.  Whoever saw the accounts before it is now stale.
LEMMA CommitInv ==
    ASSUME AccountsInv, NEW r \in Updates, Commit(r)
    PROVE  AccountsInv'
  <1> USE DEF AccountsInv
  <1> DEFINE q == update[r]
             new == [account EXCEPT ![q.user] = Written(q)]
  <1>1. q \in Busy /\ q.at = "counted" /\ UpdateInv(q, account)
    BY DEF Commit, UsersTypeOK, NoUpdate
  <1>2. account' = new
    BY DEF Commit
  <1>3. account[q.user] \in Account /\ Written(q) \in Account
    BY <1>1 DEF UsersTypeOK, UpdateInv, Busy, Written, Account
  <1>4. UsersTypeOK'
    <2>1. account' \in [Ids -> Account \cup {NoAccount}]
      BY <1>2, <1>3 DEF UsersTypeOK
    <2>2. \A p \in Updates : update'[p] \in Busy \cup {NoUpdate}
      <3> SUFFICES ASSUME NEW p \in Updates PROVE update'[p] \in Busy \cup {NoUpdate}
        OBVIOUS
      <3>1. update[p] \in Busy \cup {NoUpdate}
        BY DEF UsersTypeOK
      <3>2. update[p] \in Busy => [update[p] EXCEPT !.stale = TRUE] \in Busy
        BY DEF Busy
      <3>3. update'[p] \in {NoUpdate, update[p]}
              \/ (update[p] # NoUpdate /\ update'[p] = [update[p] EXCEPT !.stale = TRUE])
        BY DEF Commit
      <3> QED BY <3>1, <3>2, <3>3
    <2>3. update' \in [Updates -> Busy \cup {NoUpdate}]
      BY <2>2 DEF Commit
    <2>4. overtaken' \in BOOLEAN
      BY DEF UsersTypeOK, Commit
    <2> QED BY <2>1, <2>3, <2>4 DEF UsersTypeOK
  <1>5. \A p \in Updates : update'[p] # NoUpdate => UpdateInv(update'[p], account')
    <2> SUFFICES ASSUME NEW p \in Updates, update'[p] # NoUpdate
                 PROVE  UpdateInv(update'[p], account')
      OBVIOUS
    <2>1. p # r /\ update[p] # NoUpdate
      BY DEF Commit
    <2>2. update[p] \in Busy /\ UpdateInv(update[p], account)
      BY <2>1 DEF UsersTypeOK
    <2>3. CASE new = account
      BY <1>2, <2>1, <2>2, <2>3 DEF Commit
    <2>4. CASE new # account
      <3>1. update'[p] = [update[p] EXCEPT !.stale = TRUE]
        BY <2>1, <2>4 DEF Commit
      <3>2. \A u \in Ids : account[u] # NoAccount => account'[u] # NoAccount
        BY <1>2, <1>3 DEF UsersTypeOK, Account, NoAccount, Roles
      <3>3. /\ update'[p].stale /\ update'[p].at = update[p].at
            /\ update'[p].user = update[p].user /\ update'[p].user \in Ids
            /\ update'[p].read = update[p].read /\ update'[p].role = update[p].role
            /\ update'[p].active = update[p].active
        BY <2>2, <3>1 DEF Busy
      <3> QED BY <2>2, <3>2, <3>3 DEF UpdateInv, Removes
    <2> QED BY <2>3, <2>4
  <1>6. AdminUnlessRaced'
    <2> SUFFICES ASSUME ~overtaken' PROVE Admins' # {}
      BY DEF AdminUnlessRaced, AdminRemains
    <2>1. ~overtaken /\ (q.stale => new = account)
      BY DEF Commit
    <2>2. CASE new = account
      BY <1>2, <2>1, <2>2 DEF AdminUnlessRaced, AdminRemains, Admins
    <2>3. CASE ~q.stale /\ Removes(q)
      <3>1. PICK u \in Ids : u # q.user /\ IsAdmin(account[u])
        BY <1>1, <2>3 DEF UpdateInv
      <3>2. account'[u] = account[u]
        BY <1>2, <3>1 DEF UsersTypeOK
      <3> QED BY <3>1, <3>2 DEF Admins
    <2>4. CASE ~q.stale /\ ~Removes(q)
      <3>1. PICK u \in Admins : TRUE
        BY <2>1 DEF AdminUnlessRaced, AdminRemains
      <3>2. u \in Ids /\ IsAdmin(account[u])
        BY <3>1 DEF Admins
      <3>3. IsAdmin(account'[u])
        <4>1. CASE u # q.user
          BY <1>2, <3>2, <4>1 DEF UsersTypeOK
        <4>2. CASE u = q.user
          <5>1. q.read = account[u] /\ account'[u] = Written(q)
            BY <1>1, <1>2, <2>4, <3>2, <4>2 DEF UpdateInv, UsersTypeOK
          <5>2. q.active # "no" /\ q.role \in {Keep, "admin"}
            BY <2>4, <3>2, <5>1 DEF Removes
          <5>3. q.active \in {Keep, "yes"}
            BY <1>1, <5>2 DEF Busy, Activity
          <5> QED BY <3>2, <4>2, <5>1, <5>2, <5>3 DEF Written, IsAdmin
        <4> QED BY <4>1, <4>2
      <3> QED BY <3>2, <3>3 DEF Admins
    <2> QED BY <2>1, <2>2, <2>3, <2>4
  <1> QED BY <1>4, <1>5, <1>6

LEMMA AccountsInvariance == UsersSpec => []AccountsInv
  <1>1. UsersInit => AccountsInv
    BY AccountsInit
  <1>2. AccountsInv /\ [UsersNext]_userVars => AccountsInv'
    <2> SUFFICES ASSUME AccountsInv, [UsersNext]_userVars PROVE AccountsInv'
      OBVIOUS
    <2>1. CASE \E u \in Ids : SignUp(u) \/ \E role \in Roles : CreateUser(u, role)
      BY <2>1, AddInv DEF SignUp, CreateUser, Roles
    <2>2. CASE \E r \in Updates, c, u \in Ids, role \in Roles \cup {Keep},
                 active \in Activity \cup {Keep} : Authenticate(r, c, u, role, active)
      BY <2>2, AuthenticateInv
    <2>3. CASE \E r \in Updates : ReadUser(r) \/ CountAdmins(r) \/ Commit(r)
      BY <2>3, ReadUserInv, CountAdminsInv, CommitInv
    <2>4. CASE UNCHANGED userVars
      BY <2>4 DEF userVars, AccountsInv, UsersTypeOK, AdminUnlessRaced, AdminRemains, Admins
    <2> QED BY <2>1, <2>2, <2>3, <2>4 DEF UsersNext
  <1> QED BY <1>1, <1>2, PTL DEF UsersSpec

-----------------------------------------------------------------------------

\* update_user leaves an active administrator, unless it commits after an
\* account changed behind its last look.
THEOREM OnlyRacesTakeTheLast == UsersSpec => []AdminUnlessRaced
  <1>1. AccountsInv => AdminUnlessRaced
    BY DEF AccountsInv
  <1> QED BY <1>1, AccountsInvariance, PTL

=============================================================================
