---------------------- MODULE TelemetryIngestionProofs ----------------------
(***************************************************************************)
(* Proofs about TelemetryIngestion: what the agent lets go of is stored,   *)
(* what is stored is processed, in the hands of a handler or given up, and *)
(* ingestion implements SampleLedger.                                      *)
(*                                                                         *)
(* The rule engine is then followed under ArrivalSpec, where samples come  *)
(* in any order and it may start again: what it has in memory of a rule is *)
(* what the log makes of it (RuleInv), so it agrees with the state that    *)
(* the samples call for, and an alert is due when it is raised.            *)
(***************************************************************************)
EXTENDS TelemetryIngestion, FiniteSetTheorems, SequenceTheorems,
        WellFoundedInduction, TLAPS

Samples == 1..Len(sample)

Agents == [at : {"collecting", "flushing", "ended"} \cup Slots, attempt : Int,
           last : Nat, stopping : BOOLEAN, final : BOOLEAN]

Handlers == [at : {"free", "sent", "processing"}, batch : SUBSET Nat, todo : SUBSET Nat]

Shape ==
    /\ sample \in Seq([seq : Nat, time : Nat, value : Values])
    /\ Len(sample) <= MaxSamples
    /\ clock \in Nat
    /\ agent \in Agents
    /\ pending \subseteq Samples
    /\ boot \in Nat \ {0} /\ boot <= Len(sample) + 1
    /\ request \in [Slots -> Handlers]
    /\ \A s \in Slots : request[s].batch \subseteq Samples
    /\ stored \subseteq Samples
    /\ log \in Seq(Nat)

LogIsStored == \A n \in DOMAIN log : log[n] \in stored

\* What a handler has still to process is stored, was not processed, and is
\* no other handler's.
TodoIsNew ==
    \A s \in Slots :
        /\ request[s].todo \subseteq stored
        /\ request[s].at # "processing" => request[s].todo = {}
        /\ \A n \in DOMAIN log : log[n] \notin request[s].todo

TodosDisjoint ==
    \A s, t \in Slots : s # t => request[s].todo \cap request[t].todo = {}

\* The samples of a process of the agent have distinct sequence numbers.
Numbered ==
    /\ \A i, j \in boot..Len(sample) : i < j => sample[i].seq < sample[j].seq
    /\ \A i \in boot..Len(sample) : sample[i].seq <= agent.last

\* The request an agent waits for carries what it has buffered.
Awaited ==
    agent.at \in Slots =>
        /\ request[agent.at].at # "free"
        /\ request[agent.at].batch = pending

HasRow(i) == \E j \in stored : sample[j].seq = sample[i].seq

Covered ==
    \A s \in Slots :
        request[s].at = "processing" => \A i \in request[s].batch : HasRow(i)

ReleasedHasRow == \A i \in boot..Len(sample) : i \in pending \/ HasRow(i)

\* The inductive invariant.
IInv ==
    /\ Shape
    /\ LogIsStored
    /\ TodoIsNew
    /\ TodosDisjoint
    /\ Numbered
    /\ Awaited
    /\ Covered
    /\ ReleasedHasRow
    /\ UnprocessedIsInFlight

-----------------------------------------------------------------------------
(* Operators.                                                              *)

\* First picks a member of what a handler has to process.
LEMMA FirstIsMember ==
    ASSUME NEW T, T \subseteq Nat, T # {}
    PROVE  First(T) \in T
<1> DEFINE less == OpToRel(<, Nat)
<1>1. \E i \in T : \A j \in T : <<j, i>> \notin less
  <2>1. IsWellFoundedOn(less, Nat)
    BY NatLessThanWellFounded
  <2> HIDE DEF less
  <2> QED
    BY <2>1, WFMin
<1>2. PICK i \in T : \A j \in T : <<j, i>> \notin less
  BY <1>1
<1>3. \A j \in T : i <= j
  <2> TAKE j \in T
  <2>1. i \in Nat /\ j \in Nat /\ ~(j < i)
    BY <1>2 DEF OpToRel
  <2> QED
    BY <2>1
<1> QED
  BY <1>3 DEF First

\* What a sequence holds.
LEMMA Members ==
    ASSUME NEW S, NEW q \in Seq(S)
    PROVE  Len(q) \in Nat /\ \A i \in 1..Len(q) : q[i] \in S
  OBVIOUS

\* A numbering of the samples goes on beyond the last number.
LEMMA NextSequenceGrows ==
    ASSUME agent \in Agents, NEW now \in Nat
    PROVE  NextSequence(now) \in Nat /\ NextSequence(now) > agent.last
  BY DEF NextSequence, Larger, Agents

\* The agent gives up an attempt, or a flush, for another one or for nothing:
\* it waits no longer.
LEMMA RetriedIsFree ==
    ASSUME agent \in Agents
    PROVE  /\ Retried(agent) \in Agents /\ Retried(agent).last = agent.last
           /\ Retried(agent).at \notin Slots
           /\ Returned(agent) \in Agents /\ Returned(agent).last = agent.last
           /\ Returned(agent).at \notin Slots
<1> DEFINE moved(n, at) == [agent EXCEPT !.attempt = n, !.at = at]
<1>0. ASSUME NEW n \in Int, NEW at \in {"collecting", "flushing", "ended"}
      PROVE  moved(n, at) \in Agents /\ moved(n, at).last = agent.last /\ moved(n, at).at = at
  BY <1>0 DEF Agents
<1>1. \/ Returned(agent) = moved(1, "ended")
      \/ Returned(agent) = moved(1, "collecting")
  BY DEF Returned
<1>2. \/ Retried(agent) = Returned(agent)
      \/ Retried(agent) = moved(agent.attempt + 1, "flushing")
  BY DEF Retried
<1>3. agent.attempt + 1 \in Int /\ 1 \in Int
  BY DEF Agents
<1> HIDE DEF moved
<1> QED
  BY <1>0, <1>1, <1>2, <1>3, IngestionAssumption

Codes == {200, 401, 422, 429, 500}

\* An answer frees the slot; it reaches an agent that waits for it, and only
\* success lets the agent empty its buffer.
LEMMA RespondFrees ==
    ASSUME IInv, NEW s \in Slots, NEW code \in Codes, Respond(s, code)
    PROVE  /\ request' = [request EXCEPT ![s] = Free]
           /\ agent' \in Agents /\ agent'.last = agent.last
           /\ agent'.at \in Slots => agent'.at = agent.at /\ agent.at # s
           /\ \/ pending' = pending
              \/ pending' = {} /\ code = 200 /\ agent.at = s
<1>0. agent \in Agents
  BY DEF IInv, Shape
<1>1. CASE agent.at # s
  BY <1>0, <1>1 DEF Respond, Receive
<1>2. CASE agent.at = s
  <2>1. request' = [request EXCEPT ![s] = Free]
    BY DEF Respond
  <2>2. pending' = IF code = 200 THEN {} ELSE pending
    BY <1>2 DEF Respond, Receive
  <2>3. \/ agent' = Returned(agent)
        \/ agent' = Retried(agent)
        \/ agent' = [agent EXCEPT !.at = "ended"]
    BY <1>2 DEF Respond, Receive, Codes
  <2>4. agent' \in Agents /\ agent'.last = agent.last /\ agent'.at \notin Slots
    <3>1. /\ [agent EXCEPT !.at = "ended"] \in Agents
          /\ [agent EXCEPT !.at = "ended"].last = agent.last
          /\ [agent EXCEPT !.at = "ended"].at = "ended"
      BY <1>0 DEF Agents
    <3> QED
      BY <2>3, <3>1, <1>0, RetriedIsFree, IngestionAssumption
  <2> QED
    BY <1>2, <2>1, <2>2, <2>4
<1> QED
  BY <1>1, <1>2

\* What is free has nothing to do.
LEMMA FreeIsHandler == Free \in Handlers /\ Free.at = "free" /\ Free.todo = {} /\ Free.batch = {}
  BY DEF Free, Handlers

\* The rules take what ingestion gives them, in that order.
LEMMA RulesKeepLog ==
    /\ \A i : Evaluate(i) \/ EvaluateFails(i) => log' = Append(log, i)
    /\ RestartRules \/ UNCHANGED ruleVars => log' = log
<1>1. ASSUME NEW i, Evaluate(i) \/ EvaluateFails(i)
      PROVE  log' = Append(log, i)
  BY <1>1 DEF Evaluate, EvaluateFails, Apply
<1>2. ASSUME RestartRules \/ UNCHANGED ruleVars
      PROVE  log' = log
  BY <1>2 DEF RestartRules, RestoreRules, ruleVars
<1> QED
  BY <1>1, <1>2

-----------------------------------------------------------------------------
(* The steps of the agent.                                                 *)

\* Whatever changes neither the samples nor what is known of them, and makes
\* the agent wait for nothing new, keeps the invariant.
LEMMA QuietKept ==
    ASSUME IInv, UNCHANGED <<sample, log, boot, pending, request, stored, abandoned>>,
           agent' \in Agents, agent'.last = agent.last, clock' \in Nat,
           agent'.at \in Slots => agent'.at = agent.at
    PROVE  IInv'
<1>1. Shape'
  BY DEF IInv, Shape, Samples
<1>2. LogIsStored' /\ TodoIsNew' /\ TodosDisjoint' /\ UnprocessedIsInFlight'
  BY DEF IInv, LogIsStored, TodoIsNew, TodosDisjoint, UnprocessedIsInFlight
<1>3. Numbered'
  BY DEF IInv, Numbered
<1>4. Awaited'
  BY DEF IInv, Awaited
<1>5. Covered' /\ ReleasedHasRow'
  BY DEF IInv, Covered, ReleasedHasRow, HasRow
<1> QED
  BY <1>1, <1>2, <1>3, <1>4, <1>5 DEF IInv

LEMMA AgentKept ==
    ASSUME IInv, \/ Signal \/ FinalFlush \/ PostFails
                 \/ \E t \in 0..(clock - 1) : SetBack(t)
                 \/ UNCHANGED vars
    PROVE  IInv' /\ UNCHANGED <<stored, log>>
<1>0. agent \in Agents /\ clock \in Nat
  BY DEF IInv, Shape
<1>1. CASE Signal
  <2>1. agent' \in Agents /\ agent'.last = agent.last /\ agent'.at = agent.at
    BY <1>0, <1>1 DEF Signal, Agents
  <2> QED
    BY <1>0, <1>1, <2>1, QuietKept DEF Signal, ruleVars, serverVars
<1>2. CASE FinalFlush
  <2>1. \/ agent' = [agent EXCEPT !.at = "ended", !.final = TRUE]
        \/ agent' = [agent EXCEPT !.at = "flushing", !.final = TRUE]
    BY <1>2 DEF FinalFlush
  <2>2. /\ agent' \in Agents /\ agent'.last = agent.last
        /\ agent'.at \in {"ended", "flushing"}
    BY <1>0, <2>1 DEF Agents
  <2> QED
    BY <1>0, <1>2, <2>2, IngestionAssumption, QuietKept
    DEF FinalFlush, ruleVars, serverVars
<1>3. CASE PostFails
  BY <1>0, <1>3, RetriedIsFree, QuietKept DEF PostFails, ruleVars, serverVars
<1>4. CASE \E t \in 0..(clock - 1) : SetBack(t)
  BY <1>0, <1>4, QuietKept DEF SetBack, ruleVars, serverVars
<1>5. CASE UNCHANGED vars
  BY <1>0, <1>5, QuietKept DEF vars, ruleVars
<1> QED
  BY <1>1, <1>2, <1>3, <1>4, <1>5

\* A new sample takes a number beyond those of its process, into the buffer.
LEMMA CollectKept ==
    ASSUME IInv, NEW v \in Values, Collect(v)
    PROVE  IInv' /\ UNCHANGED <<stored, log>>
<1> DEFINE new == [seq |-> NextSequence(clock'), time |-> clock', value |-> v]
<1>0. /\ agent \in Agents /\ clock' \in Nat
      /\ sample \in Seq([seq : Nat, time : Nat, value : Values])
      /\ stored \subseteq Samples
  BY DEF IInv, Shape, Collect
<1>1. /\ sample' = Append(sample, new)
      /\ pending' = pending \cup {Len(sample')}
      /\ UNCHANGED <<log, boot, request, stored, abandoned>>
  BY DEF Collect, ruleVars, serverVars
<1>2. new.seq \in Nat /\ new.seq > agent.last
  BY <1>0, NextSequenceGrows
<1>3. /\ agent' \in Agents /\ agent'.last = new.seq
      /\ agent'.at \in {"collecting", "flushing"}
  <2>1. \E at \in {"collecting", "flushing"} :
          agent' = [agent EXCEPT !.last = new.seq, !.at = at]
    BY DEF Collect
  <2> HIDE DEF new
  <2> QED
    BY <1>0, <1>2, <2>1 DEF Agents
<1>4. /\ sample' \in Seq([seq : Nat, time : Nat, value : Values])
      /\ Len(sample') = Len(sample) + 1 /\ Len(sample) \in Nat
      /\ \A i \in Samples : sample'[i] = sample[i]
      /\ sample'[Len(sample')] = new
  <2>1. new \in [seq : Nat, time : Nat, value : Values]
    BY <1>0, <1>2
  <2> HIDE DEF new
  <2> QED
    BY <1>0, <1>1, <2>1 DEF Samples
<1> HIDE DEF new
<1>5. Shape'
  <2>1. Len(sample') <= MaxSamples
    <3>1. Len(sample) < MaxSamples /\ MaxSamples \in Nat
      BY RulesAssumption DEF Collect
    <3> QED
      BY <1>4, <3>1
  <2>2. Samples \subseteq Samples'
    BY <1>4 DEF Samples
  <2>3. pending' \subseteq Samples'
    <3>1. pending \subseteq Samples
      BY DEF IInv, Shape
    <3>2. Len(sample') \in Samples'
      BY <1>4 DEF Samples
    <3> QED
      BY <1>1, <2>2, <3>1, <3>2
  <2>4. boot' \in Nat \ {0} /\ boot' <= Len(sample') + 1
    BY <1>1, <1>4 DEF IInv, Shape
  <2> QED
    BY <1>0, <1>1, <1>3, <1>4, <2>1, <2>2, <2>3, <2>4 DEF IInv, Shape
<1>6. LogIsStored' /\ TodoIsNew' /\ TodosDisjoint' /\ UnprocessedIsInFlight'
  BY <1>1 DEF IInv, LogIsStored, TodoIsNew, TodosDisjoint, UnprocessedIsInFlight
<1>7. Numbered'
  <2>0. boot \in Nat \ {0} /\ boot' = boot /\ Len(sample) \in Nat
    BY <1>1, <1>4 DEF IInv, Shape
  <2>1. \A i \in boot..Len(sample) : i \in Samples /\ sample[i].seq <= agent.last
    BY <2>0 DEF IInv, Numbered, Samples
  <2>2. \A i \in Samples : sample[i].seq \in Nat
    <3>1. \A i \in Samples : sample[i] \in [seq : Nat, time : Nat, value : Values]
      BY <1>0, Members DEF Samples
    <3> QED
      BY <3>1
  <2>3. agent.last \in Nat
    BY <1>0 DEF Agents
  <2>4. \A i \in boot..Len(sample) : sample'[i].seq < new.seq /\ sample'[i].seq <= agent'.last
    <3> SUFFICES ASSUME NEW i \in boot..Len(sample)
                 PROVE  sample'[i].seq < new.seq /\ sample'[i].seq <= agent'.last
      OBVIOUS
    <3>1. sample'[i] = sample[i] /\ sample[i].seq \in Nat /\ sample[i].seq <= agent.last
      BY <1>4, <2>1, <2>2
    <3> QED
      BY <1>2, <1>3, <2>3, <3>1
  <2>5. \A i \in (boot..Len(sample))' : i \in boot..Len(sample) \/ i = Len(sample')
    BY <1>4, <2>0
  <2>6. \A i, j \in (boot..Len(sample))' : i < j => sample'[i].seq < sample'[j].seq
    <3> SUFFICES ASSUME NEW i \in (boot..Len(sample))', NEW j \in (boot..Len(sample))', i < j
                 PROVE  sample'[i].seq < sample'[j].seq
      OBVIOUS
    <3>1. i \in boot..Len(sample)
      BY <1>1, <1>4 DEF IInv, Shape
    <3>2. CASE j = Len(sample')
      BY <1>4, <2>4, <3>1, <3>2
    <3>3. CASE j \in boot..Len(sample)
      BY <1>4, <2>1, <3>1, <3>3 DEF IInv, Numbered
    <3> QED
      BY <2>5, <3>2, <3>3
  <2>7. \A i \in (boot..Len(sample))' : sample'[i].seq <= agent'.last
    BY <1>2, <1>3, <1>4, <2>4, <2>5
  <2> QED
    BY <2>6, <2>7 DEF Numbered
<1>8. Awaited'
  BY <1>3, IngestionAssumption DEF Awaited
<1>9. \A i \in Samples : HasRow(i) => HasRow(i)'
  BY <1>0, <1>1, <1>4 DEF HasRow
<1>10. Covered'
  BY <1>1, <1>9 DEF IInv, Shape, Covered
<1>11. ReleasedHasRow'
  <2> SUFFICES ASSUME NEW i \in (boot..Len(sample))'
               PROVE  i \in pending' \/ HasRow(i)'
    BY DEF ReleasedHasRow
  <2>1. i \in boot..Len(sample) \/ i = Len(sample')
    BY <1>1, <1>4 DEF IInv, Shape
  <2>2. \A k \in boot..Len(sample) : k \in Samples
    BY DEF IInv, Shape, Samples
  <2> QED
    BY <1>1, <1>9, <2>1, <2>2 DEF IInv, ReleasedHasRow
<1> QED
  BY <1>1, <1>5, <1>6, <1>7, <1>8, <1>10, <1>11 DEF IInv

\* A request carries what is buffered when it is sent.
LEMMA PostKept ==
    ASSUME IInv, NEW s \in Slots, Post(s)
    PROVE  IInv' /\ UNCHANGED <<stored, log>>
<1> DEFINE sent == [at |-> "sent", batch |-> pending, todo |-> {}]
<1>0. /\ agent \in Agents /\ request \in [Slots -> Handlers]
      /\ pending \subseteq Samples /\ Samples \subseteq Nat
  BY DEF IInv, Shape, Samples
<1>1. /\ request' = [request EXCEPT ![s] = sent] /\ request[s].at = "free"
      /\ agent' = [agent EXCEPT !.at = s]
      /\ UNCHANGED <<sample, log, clock, pending, boot, stored, abandoned>>
  BY DEF Post, ruleVars
<1>2. agent' \in Agents /\ agent'.at = s /\ agent'.last = agent.last
  BY <1>0, <1>1 DEF Agents
<1>3. sent \in Handlers
  BY <1>0 DEF Handlers
<1>4. /\ request'[s] = sent
      /\ \A t \in Slots : t # s => request'[t] = request[t]
      /\ request' \in [Slots -> Handlers]
  BY <1>0, <1>1, <1>3
<1>5. sent.at = "sent" /\ sent.batch = pending /\ sent.todo = {}
  OBVIOUS
<1>6. request[s].todo = {}
  BY <1>1 DEF IInv, TodoIsNew
<1> HIDE DEF sent
<1>7. Shape'
  BY <1>0, <1>1, <1>2, <1>4, <1>5 DEF IInv, Shape, Samples
<1>8. LogIsStored' /\ TodoIsNew' /\ TodosDisjoint' /\ UnprocessedIsInFlight'
  <2>1. \A t \in Slots : request'[t].todo = request[t].todo
    BY <1>4, <1>5, <1>6
  <2>2. LogIsStored' /\ TodosDisjoint' /\ UnprocessedIsInFlight'
    BY <1>1, <2>1 DEF IInv, LogIsStored, TodosDisjoint, UnprocessedIsInFlight
  <2>3. TodoIsNew'
    BY <1>1, <1>4, <1>5, <2>1 DEF IInv, TodoIsNew
  <2> QED
    BY <2>2, <2>3
<1>9. Numbered' /\ ReleasedHasRow'
  BY <1>1, <1>2 DEF IInv, Numbered, ReleasedHasRow, HasRow
<1>10. Awaited'
  BY <1>1, <1>2, <1>4, <1>5 DEF Awaited
<1>11. Covered'
  BY <1>1, <1>4, <1>5 DEF IInv, Covered, HasRow
<1> QED
  BY <1>1, <1>7, <1>8, <1>9, <1>10, <1>11 DEF IInv

\* A new process of the agent starts with an empty buffer.
LEMMA RebootKept ==
    ASSUME IInv, Reboot
    PROVE  IInv' /\ UNCHANGED <<stored, log>>
<1>1. /\ agent' = Booted /\ pending' = {} /\ boot' = Len(sample) + 1
      /\ UNCHANGED <<sample, log, clock, request, stored, abandoned>>
  BY DEF Reboot, ruleVars, serverVars
<1>2. Booted \in Agents /\ Booted.at = "collecting"
  BY DEF Booted, Agents
<1>3. Len(sample) \in Nat
  BY DEF IInv, Shape
<1>4. Shape'
  BY <1>1, <1>2, <1>3 DEF IInv, Shape, Samples
<1>5. LogIsStored' /\ TodoIsNew' /\ TodosDisjoint' /\ UnprocessedIsInFlight'
  BY <1>1 DEF IInv, LogIsStored, TodoIsNew, TodosDisjoint, UnprocessedIsInFlight
<1>6. (boot..Len(sample))' = {}
  BY <1>1, <1>3
<1>7. Numbered' /\ ReleasedHasRow'
  BY <1>6 DEF Numbered, ReleasedHasRow
<1>8. Awaited' /\ Covered'
  BY <1>1, <1>2, IngestionAssumption DEF IInv, Awaited, Covered, HasRow
<1> QED
  BY <1>1, <1>4, <1>5, <1>7, <1>8 DEF IInv

-----------------------------------------------------------------------------
(* The steps of the server.                                                *)

\* The samples D, one or none, are the next in the log.
Logs(D) == \/ D = {} /\ log' = log
           \/ \E i \in Nat : D = {i} /\ log' = Append(log, i)

LEMMA LogsAdd ==
    ASSUME log \in Seq(Nat), NEW D, Logs(D)
    PROVE  /\ log' \in Seq(Nat)
           /\ \A n \in DOMAIN log' : log'[n] \in D \/ \E m \in DOMAIN log : log[m] = log'[n]
           /\ \A m \in DOMAIN log : \E n \in DOMAIN log' : log'[n] = log[m]
           /\ \A i \in D : \E n \in DOMAIN log' : log'[n] = i
<1>1. CASE D = {} /\ log' = log
  BY <1>1
<1>2. ASSUME NEW i \in Nat, D = {i}, log' = Append(log, i)
      PROVE  /\ log' \in Seq(Nat)
             /\ \A n \in DOMAIN log' : log'[n] \in D \/ \E m \in DOMAIN log : log[m] = log'[n]
             /\ \A m \in DOMAIN log : \E n \in DOMAIN log' : log'[n] = log[m]
             /\ \A k \in D : \E n \in DOMAIN log' : log'[n] = k
  <2>1. /\ log' \in Seq(Nat) /\ Len(log) \in Nat /\ Len(log') = Len(log) + 1
        /\ DOMAIN log = 1..Len(log) /\ DOMAIN log' = 1..(Len(log) + 1)
        /\ \A n \in 1..Len(log) : log'[n] = log[n]
        /\ log'[Len(log) + 1] = i
    BY <1>2
  <2>2. /\ DOMAIN log \subseteq DOMAIN log' /\ Len(log) + 1 \in DOMAIN log'
        /\ \A n \in DOMAIN log' : n \in DOMAIN log \/ n = Len(log) + 1
    BY <2>1
  <2> QED
    BY <1>2, <2>1, <2>2
<1> QED
  BY <1>1, <1>2 DEF Logs

\* What a step of a handler makes of the set T of samples it has to process:
\* D is processed; the rest is left to it, or given up with its answer.  It
\* goes on, or reports success, only once all of its batch has rows.
Handles(s, T, D) ==
    /\ D \subseteq T
    /\ Logs(D)
    /\ \/ /\ request' = [request EXCEPT ![s].at = "processing", ![s].todo = T \ D]
          /\ UNCHANGED <<agent, pending, abandoned>>
          /\ \A i \in request[s].batch : HasRow(i)'
       \/ /\ \E code \in Codes :
               /\ Respond(s, code)
               /\ code = 200 => \A i \in request[s].batch : HasRow(i)'
          /\ abandoned' = abandoned \cup (T \ D)

LEMMA ProcessFirstHandles ==
    ASSUME NEW s \in Slots, NEW T, T \subseteq Nat, T # {}, ProcessFirst(s, T),
           \A i \in request[s].batch : HasRow(i)'
    PROVE  \E D : Handles(s, T, D)
<1>0. 500 \in Codes /\ 500 # 200
  BY DEF Codes
<1>1. PICK i \in T : i = First(T)
  BY FirstIsMember
<1>2. CASE /\ Evaluate(i)
           /\ request' = [request EXCEPT ![s].at = "processing", ![s].todo = T \ {i}]
           /\ UNCHANGED <<agent, pending, abandoned>>
  <2>1. Logs({i})
    BY <1>0, <1>1, <1>2, RulesKeepLog DEF Logs
  <2>2. Handles(s, T, {i})
    BY <1>1, <1>2, <2>1 DEF Handles
  <2> QED
    BY <2>2
<1>3. CASE EvaluateFails(i) /\ abandoned' = abandoned \cup (T \ {i}) /\ Respond(s, 500)
  <2>1. Logs({i})
    BY <1>0, <1>1, <1>3, RulesKeepLog DEF Logs
  <2>2. Handles(s, T, {i})
    BY <1>0, <1>1, <1>3, <2>1 DEF Handles
  <2> QED
    BY <2>2
<1>4. CASE abandoned' = abandoned \cup T /\ Respond(s, 500) /\ UNCHANGED ruleVars
  <2>1. Logs({}) /\ T \ {} = T
    BY <1>4, RulesKeepLog DEF Logs
  <2>2. Handles(s, T, {})
    BY <1>0, <1>4, <2>1 DEF Handles
  <2> QED
    BY <2>2
<1> QED
  BY <1>1, <1>2, <1>3, <1>4 DEF ProcessFirst

\* Rows stay rows.
LEMMA RowsStay ==
    ASSUME UNCHANGED sample, stored \subseteq stored'
    PROVE  \A i : HasRow(i) => HasRow(i)'
  BY DEF HasRow

\* A handler that goes on with what is its own, among it all that was stored
\* in this step, keeps the invariant.
LEMMA HandlesKept ==
    ASSUME IInv, NEW s \in Slots, NEW T, NEW D, Handles(s, T, D),
           UNCHANGED <<sample, clock, boot>>,
           request[s].todo \subseteq T, T \subseteq stored',
           stored \subseteq stored', stored' \subseteq stored \cup T,
           stored' \subseteq Samples,
           \A n \in DOMAIN log : log[n] \notin T,
           \A t \in Slots : t # s => request[t].todo \cap T = {}
    PROVE  IInv'
<1>0. /\ agent \in Agents /\ request \in [Slots -> Handlers] /\ log \in Seq(Nat)
      /\ D \subseteq T /\ Samples \subseteq Nat /\ T \subseteq Nat
  BY DEF IInv, Shape, Samples, Handles
<1>1. /\ log' \in Seq(Nat)
      /\ \A n \in DOMAIN log' : log'[n] \in D \/ \E m \in DOMAIN log : log[m] = log'[n]
      /\ \A m \in DOMAIN log : \E n \in DOMAIN log' : log'[n] = log[m]
      /\ \A i \in D : \E n \in DOMAIN log' : log'[n] = i
  BY <1>0, LogsAdd DEF Handles
<1>2. \A i : HasRow(i) => HasRow(i)'
  BY RowsStay
<1> DEFINE
      Goes ==
        /\ request'[s].at = "processing" /\ request'[s].todo = T \ D
        /\ request'[s].batch = request[s].batch
        /\ agent' = agent /\ pending' = pending /\ abandoned' = abandoned
        /\ \A i \in request[s].batch : HasRow(i)'
      Answers ==
        /\ request'[s].at = "free" /\ request'[s].todo = {} /\ request'[s].batch = {}
        /\ agent' \in Agents /\ agent'.last = agent.last
        /\ agent'.at \in Slots => agent'.at = agent.at /\ agent.at # s
        /\ \/ pending' = pending
           \/ /\ pending' = {} /\ agent.at = s
              /\ \A i \in request[s].batch : HasRow(i)'
        /\ abandoned' = abandoned \cup (T \ D)
<1>3. /\ request' \in [Slots -> Handlers]
      /\ \A t \in Slots : t # s => request'[t] = request[t]
      /\ Goes \/ Answers
  <2>1. CASE /\ request' = [request EXCEPT ![s].at = "processing", ![s].todo = T \ D]
             /\ UNCHANGED <<agent, pending, abandoned>>
             /\ \A i \in request[s].batch : HasRow(i)'
    BY <1>0, <2>1 DEF Handlers
  <2>2. ASSUME NEW code \in Codes, Respond(s, code),
               code = 200 => \A i \in request[s].batch : HasRow(i)',
               abandoned' = abandoned \cup (T \ D)
        PROVE  /\ request' \in [Slots -> Handlers]
               /\ \A t \in Slots : t # s => request'[t] = request[t]
               /\ Answers
    <3>1. request' = [request EXCEPT ![s] = Free]
      BY <2>2, RespondFrees
    <3>2. /\ agent' \in Agents /\ agent'.last = agent.last
          /\ agent'.at \in Slots => agent'.at = agent.at /\ agent.at # s
          /\ \/ pending' = pending
             \/ pending' = {} /\ code = 200 /\ agent.at = s
      BY <2>2, RespondFrees
    <3>3. /\ request' \in [Slots -> Handlers] /\ request'[s] = Free
          /\ \A t \in Slots : t # s => request'[t] = request[t]
      BY <1>0, <3>1, FreeIsHandler
    <3> QED
      BY <2>2, <3>2, <3>3, FreeIsHandler
  <2> QED
    BY <2>1, <2>2 DEF Handles
<1>4. /\ agent' \in Agents /\ agent'.last = agent.last
      /\ request'[s].todo \subseteq T \ D
      /\ request'[s].batch \subseteq request[s].batch
      /\ pending' \subseteq pending
  BY <1>0, <1>3
<1> HIDE DEF Goes, Answers
<1>5. Shape'
  <2>1. \A t \in Slots : request'[t].batch \subseteq Samples
    BY <1>3, <1>4 DEF IInv, Shape
  <2> QED
    BY <1>1, <1>3, <1>4, <2>1 DEF IInv, Shape, Samples
<1>6. LogIsStored'
  BY <1>0, <1>1 DEF IInv, LogIsStored
<1>7. TodoIsNew'
  <2>1. /\ request'[s].todo \subseteq stored'
        /\ request'[s].at # "processing" => request'[s].todo = {}
        /\ \A n \in DOMAIN log' : log'[n] \notin request'[s].todo
    BY <1>1, <1>3, <1>4 DEF Goes, Answers
  <2>2. ASSUME NEW t \in Slots, t # s
        PROVE  /\ request'[t].todo \subseteq stored'
               /\ request'[t].at # "processing" => request'[t].todo = {}
               /\ \A n \in DOMAIN log' : log'[n] \notin request'[t].todo
    BY <1>0, <1>1, <1>3, <2>2 DEF IInv, TodoIsNew
  <2> QED
    BY <2>1, <2>2 DEF TodoIsNew
<1>8. TodosDisjoint'
  BY <1>3, <1>4 DEF IInv, TodosDisjoint
<1>9. UnprocessedIsInFlight'
  <2> SUFFICES ASSUME NEW i \in stored'
               PROVE  \/ \E n \in DOMAIN log' : log'[n] = i
                      \/ i \in abandoned'
                      \/ \E t \in Slots : i \in request'[t].todo
    BY DEF UnprocessedIsInFlight
  <2>1. CASE i \in T
    BY <1>1, <1>3, <2>1 DEF Goes, Answers
  <2>2. CASE i \in stored /\ i \notin T
    <3>1. abandoned \subseteq abandoned'
      BY <1>3 DEF Goes, Answers
    <3> QED
      BY <1>1, <1>3, <2>2, <3>1 DEF IInv, UnprocessedIsInFlight
  <2> QED
    BY <2>1, <2>2
<1>10. Numbered'
  BY <1>4 DEF IInv, Numbered
<1>11. Awaited'
  BY <1>3 DEF IInv, Awaited, Goes, Answers
<1>12. Covered'
  <2>1. request'[s].at = "processing" => \A i \in request'[s].batch : HasRow(i)'
    BY <1>3 DEF Goes, Answers
  <2>2. \A t \in Slots : t # s /\ request'[t].at = "processing" =>
            \A i \in request'[t].batch : HasRow(i)'
    BY <1>2, <1>3 DEF IInv, Covered
  <2> QED
    BY <2>1, <2>2 DEF Covered
<1>13. ReleasedHasRow'
  <2> SUFFICES ASSUME NEW i \in boot..Len(sample)
               PROVE  i \in pending' \/ HasRow(i)'
    BY DEF ReleasedHasRow
  <2>1. CASE pending' = pending
    BY <1>2, <2>1 DEF IInv, ReleasedHasRow
  <2>2. CASE /\ pending' = {} /\ agent.at = s
             /\ \A k \in request[s].batch : HasRow(k)'
    BY <1>2, <2>2 DEF IInv, ReleasedHasRow, Awaited
  <2> QED
    BY <1>3, <2>1, <2>2 DEF Goes, Answers
<1> QED
  BY <1>5, <1>6, <1>7, <1>8, <1>9, <1>10, <1>11, <1>12, <1>13 DEF IInv

\* A step of the ledger, or none.
LedgerStep == Ledger!Next \/ UNCHANGED <<stored, log>>

\* The ledger takes a step whenever a handler does.
LEMMA HandlesIsLedgerStep ==
    ASSUME IInv, NEW s \in Slots, NEW T, NEW D, Handles(s, T, D),
           T \subseteq stored', stored \subseteq stored', stored' \subseteq Samples,
           \A n \in DOMAIN log : log[n] \notin T
    PROVE  LedgerStep
<1>1. Samples \subseteq 1..MaxSamples
  BY Members, RulesAssumption DEF IInv, Shape, Samples
<1>2. Ledger!Store
  BY <1>1 DEF Ledger!Store
<1>3. CASE D = {} /\ log' = log
  BY <1>2, <1>3 DEF LedgerStep, Ledger!Next
<1>4. ASSUME NEW i \in Nat, D = {i}, log' = Append(log, i)
      PROVE  LedgerStep
  <2>1. i \in T /\ i \in 1..MaxSamples
    BY <1>1, <1>4 DEF Handles
  <2>2. Ledger!Process(i)
    BY <1>4, <2>1 DEF Ledger!Process
  <2> QED
    BY <1>2, <2>1, <2>2 DEF LedgerStep, Ledger!Next
<1> QED
  BY <1>3, <1>4 DEF Handles, Logs

\* A request is refused, before anything is stored.
LEMMA RefuseKept ==
    ASSUME IInv, NEW s \in Slots, NEW code \in {401, 422, 429, 500}, Refuse(s, code)
    PROVE  IInv' /\ LedgerStep
<1>1. /\ UNCHANGED <<sample, clock, boot, stored, abandoned, log>>
      /\ Respond(s, code) /\ code \in Codes /\ code # 200
      /\ request[s].at = "sent"
  BY DEF Refuse, ruleVars, Codes
<1>2. request[s].todo = {} /\ stored \subseteq Samples
  <2>1. request[s].at # "processing"
    BY <1>1
  <2> QED
    BY <2>1 DEF IInv, TodoIsNew, Shape
<1>3. Handles(s, {}, {})
  BY <1>1 DEF Handles, Logs
<1>4. IInv'
  BY <1>1, <1>2, <1>3, HandlesKept
<1> QED
  BY <1>1, <1>4 DEF LedgerStep

\* A request is lost that no agent waits for: as if it were refused.
LEMMA LoseKept ==
    ASSUME IInv, NEW s \in Slots, Lose(s)
    PROVE  IInv' /\ LedgerStep
<1>1. /\ UNCHANGED <<sample, clock, boot, agent, pending, stored, abandoned, log>>
      /\ request' = [request EXCEPT ![s] = Free] /\ agent.at # s
      /\ request[s].at = "sent"
  BY DEF Lose, agentVars, ruleVars
<1>2. request[s].todo = {} /\ stored \subseteq Samples
  <2>1. Shape /\ TodoIsNew
    BY DEF IInv
  <2> QED
    BY <1>1, <2>1 DEF TodoIsNew, Shape
<1>3. Respond(s, 500) /\ 500 \in Codes /\ 500 # 200
  BY <1>1 DEF Respond, Receive, Codes
<1>4. Handles(s, {}, {})
  BY <1>1, <1>3 DEF Handles, Logs
<1>5. IInv'
  BY <1>1, <1>2, <1>4, HandlesKept
<1> QED
  BY <1>1, <1>5 DEF LedgerStep

\* What a handler does once its batch has rows and T is left to process.
LEMMA ProcessHandles ==
    ASSUME NEW s \in Slots, NEW T, T \subseteq Nat,
           \A i \in request[s].batch : HasRow(i)',
           \/ T # {} /\ ProcessFirst(s, T)
           \/ T = {} /\ Respond(s, 200) /\ UNCHANGED <<ruleVars, abandoned>>
    PROVE  \E D : Handles(s, T, D)
<1>1. CASE T # {} /\ ProcessFirst(s, T)
  BY <1>1, ProcessFirstHandles
<1>2. CASE T = {} /\ Respond(s, 200) /\ UNCHANGED <<ruleVars, abandoned>>
  <2>1. Logs({}) /\ 200 \in Codes
    BY <1>2, RulesKeepLog DEF Logs, Codes
  <2>2. Handles(s, T, {})
    BY <1>2, <2>1 DEF Handles
  <2> QED
    BY <2>2
<1> QED
  BY <1>1, <1>2

LEMMA ContinueKept ==
    ASSUME IInv, NEW s \in Slots, Continue(s)
    PROVE  IInv' /\ LedgerStep
<1> DEFINE T == request[s].todo
<1>1. /\ UNCHANGED <<sample, clock, boot, stored>> /\ request[s].at = "processing"
      /\ \/ T # {} /\ ProcessFirst(s, T)
         \/ T = {} /\ Respond(s, 200) /\ UNCHANGED <<ruleVars, abandoned>>
  BY DEF Continue
<1>2. /\ T \subseteq stored /\ T \subseteq Nat /\ stored \subseteq Samples
      /\ \A n \in DOMAIN log : log[n] \notin T
      /\ \A t \in Slots : t # s => request[t].todo \cap T = {}
  <2>1. T \subseteq stored /\ \A n \in DOMAIN log : log[n] \notin T
    BY DEF IInv, TodoIsNew
  <2>2. stored \subseteq Samples /\ Samples \subseteq Nat
    BY DEF IInv, Shape, Samples
  <2>3. \A t \in Slots : t # s => request[t].todo \cap T = {}
    BY DEF IInv, TodosDisjoint
  <2> QED
    BY <2>1, <2>2, <2>3
<1>3. \A i \in request[s].batch : HasRow(i)'
  BY <1>1 DEF IInv, Covered, HasRow
<1> HIDE DEF T
<1>4. PICK D : Handles(s, T, D)
  BY <1>1, <1>2, <1>3, ProcessHandles
<1>5. IInv'
  BY <1>1, <1>2, <1>4, HandlesKept DEF T
<1>6. LedgerStep
  BY <1>1, <1>2, <1>4, HandlesIsLedgerStep
<1> QED
  BY <1>5, <1>6

LEMMA PersistKept ==
    ASSUME IInv, NEW s \in Slots, Persist(s)
    PROVE  IInv' /\ LedgerStep
<1> DEFINE T == Fresh(request[s].batch)
<1>1. /\ UNCHANGED <<sample, clock, boot>> /\ request[s].at = "sent"
      /\ stored' = stored \cup T
      /\ \/ T # {} /\ ProcessFirst(s, T)
         \/ T = {} /\ Respond(s, 200) /\ UNCHANGED <<ruleVars, abandoned>>
  BY DEF Persist
<1>2. /\ T \subseteq request[s].batch /\ T \cap stored = {}
      /\ \A i \in request[s].batch \ T : HasRow(i)
  BY DEF Fresh, HasRow
<1> HIDE DEF T
<1>3. /\ T \subseteq Samples /\ T \subseteq Nat /\ stored' \subseteq Samples
      /\ \A n \in DOMAIN log : log[n] \notin T
      /\ request[s].todo = {}
      /\ \A t \in Slots : request[t].todo \cap T = {}
  <2>1. T \subseteq Samples /\ Samples \subseteq Nat /\ stored \subseteq Samples
    BY <1>2 DEF IInv, Shape, Samples
  <2>2. \A n \in DOMAIN log : log[n] \notin T
    BY <1>2 DEF IInv, LogIsStored
  <2>3. request[s].todo = {} /\ \A t \in Slots : request[t].todo \cap T = {}
    BY <1>1, <1>2 DEF IInv, TodoIsNew
  <2> QED
    BY <1>1, <2>1, <2>2, <2>3
<1>4. \A i \in request[s].batch : HasRow(i)'
  <2>1. \A i \in T : HasRow(i)'
    BY <1>1 DEF HasRow
  <2> QED
    BY <1>1, <1>2, <2>1, RowsStay
<1>5. PICK D : Handles(s, T, D)
  BY <1>1, <1>3, <1>4, ProcessHandles
<1>6. IInv'
  BY <1>1, <1>3, <1>5, HandlesKept
<1>7. LedgerStep
  BY <1>1, <1>3, <1>5, HandlesIsLedgerStep
<1> QED
  BY <1>6, <1>7

\* The handlers are gone with what they had to process.
LEMMA CrashKept ==
    ASSUME IInv, CrashAndRestart
    PROVE  IInv' /\ LedgerStep
<1>1. /\ UNCHANGED <<sample, clock, pending, boot, stored>>
      /\ request' = [s \in Slots |-> Free]
      /\ abandoned' = abandoned \cup UNION {request[s].todo : s \in Slots}
      /\ agent' = IF agent.at \in Slots THEN Retried(agent) ELSE agent
  BY DEF CrashAndRestart
<1>2. log' = log
  BY RulesKeepLog DEF CrashAndRestart
<1>3. agent \in Agents
  BY DEF IInv, Shape
<1>4. agent' \in Agents /\ agent'.last = agent.last /\ agent'.at \notin Slots
  BY <1>1, <1>3, RetriedIsFree
<1>5. /\ request' \in [Slots -> Handlers]
      /\ \A s \in Slots : request'[s].at = "free" /\ request'[s].todo = {}
                         /\ request'[s].batch = {}
  BY <1>1, FreeIsHandler
<1>6. Shape'
  BY <1>1, <1>2, <1>4, <1>5 DEF IInv, Shape, Samples
<1>7. LogIsStored' /\ TodoIsNew' /\ TodosDisjoint'
  BY <1>1, <1>2, <1>5 DEF IInv, LogIsStored, TodoIsNew, TodosDisjoint
<1>8. UnprocessedIsInFlight'
  BY <1>1, <1>2 DEF IInv, UnprocessedIsInFlight
<1>9. Numbered' /\ Awaited'
  BY <1>1, <1>4 DEF IInv, Numbered, Awaited
<1>10. Covered' /\ ReleasedHasRow'
  BY <1>1, <1>5 DEF IInv, Covered, ReleasedHasRow, HasRow
<1>11. IInv'
  BY <1>6, <1>7, <1>8, <1>9, <1>10 DEF IInv
<1> QED
  BY <1>1, <1>2, <1>11 DEF LedgerStep

-----------------------------------------------------------------------------
(* The theorems.                                                           *)

LEMMA InitKept == Init => IInv /\ Ledger!Init
<1> SUFFICES ASSUME Init PROVE IInv /\ Ledger!Init
  OBVIOUS
<1>1. /\ sample = <<>> /\ log = <<>> /\ stored = {} /\ pending = {} /\ boot = 1
      /\ agent = Booted /\ clock = 0 /\ request = [s \in Slots |-> Free]
  BY DEF Init, RulesInit
<1>2. Booted \in Agents /\ Booted.at = "collecting"
  BY DEF Booted, Agents
<1>3. /\ request \in [Slots -> Handlers]
      /\ \A s \in Slots : request[s].at = "free" /\ request[s].todo = {}
                         /\ request[s].batch = {}
  BY <1>1, FreeIsHandler
<1>4. Shape
  BY <1>1, <1>2, <1>3, RulesAssumption DEF Shape, Samples
<1>5. /\ LogIsStored /\ TodoIsNew /\ TodosDisjoint /\ Covered
      /\ UnprocessedIsInFlight /\ Numbered /\ ReleasedHasRow
  BY <1>1, <1>3 DEF LogIsStored, TodoIsNew, TodosDisjoint, Covered,
       UnprocessedIsInFlight, Numbered, ReleasedHasRow
<1>6. Awaited
  BY <1>1, <1>2, IngestionAssumption DEF Awaited
<1> QED
  BY <1>1, <1>4, <1>5, <1>6 DEF IInv, Ledger!Init

LEMMA NextKept == IInv /\ [Next]_vars => IInv' /\ LedgerStep
<1> SUFFICES ASSUME IInv, [Next]_vars PROVE IInv' /\ LedgerStep
  OBVIOUS
<1>1. CASE \/ Signal \/ FinalFlush \/ PostFails
           \/ \E t \in 0..(clock - 1) : SetBack(t)
           \/ UNCHANGED vars
  BY <1>1, AgentKept DEF LedgerStep
<1>2. CASE \E v \in Values : Collect(v)
  BY <1>2, CollectKept DEF LedgerStep
<1>3. CASE Reboot
  BY <1>3, RebootKept DEF LedgerStep
<1>4. CASE \E s \in Slots : Post(s)
  BY <1>4, PostKept DEF LedgerStep
<1>5. CASE \E s \in Slots : Lose(s)
  BY <1>5, LoseKept
<1>6. CASE \E s \in Slots : Persist(s)
  BY <1>6, PersistKept
<1>7. CASE \E s \in Slots : Continue(s)
  BY <1>7, ContinueKept
<1>8. CASE \E s \in Slots : Refused(s)
  BY <1>8, RefuseKept DEF Refused, LimitRate, Reject, Invalidate, FailToStore
<1>9. CASE CrashAndRestart
  BY <1>9, CrashKept
<1> QED
  BY <1>1, <1>2, <1>3, <1>4, <1>5, <1>6, <1>7, <1>8, <1>9 DEF Next

\* A sample the agent has let go of has a row with its number, and within one
\* process of the agent no other sample has that number.
LEMMA IInvReleases == IInv => ReleasedIsStored
<1> SUFFICES ASSUME IInv, NEW i \in boot..Len(sample), i \notin pending, i \notin stored
             PROVE  \E j \in stored : j < boot /\ sample[j].seq = sample[i].seq
  BY DEF ReleasedIsStored
<1>1. PICK j \in stored : sample[j].seq = sample[i].seq
  BY DEF IInv, ReleasedHasRow, HasRow
<1>2. j \in Samples /\ i # j
  BY DEF IInv, Shape
<1>3. /\ sample[i].seq \in Nat /\ Len(sample) \in Nat /\ boot \in Nat \ {0}
      /\ j \in 1..Len(sample)
  <2>1. /\ sample \in Seq([seq : Nat, time : Nat, value : Values])
        /\ boot \in Nat \ {0}
    BY DEF IInv, Shape
  <2>2. Len(sample) \in Nat /\ \A k \in 1..Len(sample) : sample[k] \in [seq : Nat, time : Nat, value : Values]
    BY <2>1, Members
  <2> QED
    BY <1>2, <2>1, <2>2 DEF Samples
<1>4. ~(j \in boot..Len(sample))
  <2>1. \A k, l \in boot..Len(sample) : k < l => sample[k].seq < sample[l].seq
    BY DEF IInv, Numbered
  <2> QED
    BY <1>1, <1>2, <1>3, <2>1
<1> QED
  BY <1>1, <1>3, <1>4

\* What a running agent has let go of is stored, through timeouts, refusals,
\* retries that overtake one another, and crashes of the server.
THEOREM LetGoIsStored == Spec => []ReleasedIsStored
  BY InitKept, NextKept, IInvReleases, PTL DEF Spec

\* A stored sample is processed, waits for it in a handler, or was given
\* up by one that failed; no retry or overlap forgets it.
THEOREM StoredIsProcessed == Spec => []UnprocessedIsInFlight
<1>1. IInv => UnprocessedIsInFlight
  BY DEF IInv
<1> QED
  BY <1>1, InitKept, NextKept, PTL DEF Spec

\* Ingestion implements SampleLedger: no sample is evaluated twice, or before
\* it is stored, and no row is taken back.
THEOREM ImplementsLedger == Spec => RefinesLedger
<1>1. IInv /\ [Next]_vars => [Ledger!Next]_(Ledger!ledgerVars)
  BY NextKept DEF LedgerStep, Ledger!ledgerVars
<1> QED
  BY <1>1, InitKept, NextKept, PTL DEF Spec, RefinesLedger, Ledger!Spec

-----------------------------------------------------------------------------
(* The rules: shape.                                                       *)

Rows == Configs \cup {New, Gone}
States == [since : 0..Len(sample), fired : 0..Len(sample), on : 0..Len(sample)]
Founds == [Rules -> 0..Len(sample)]
Reloads == [at : {"idle", "committed", "read", "loaded", "listed"},
            rows : [Rules -> Rows], found : Founds]

RulesShape ==
    /\ Len(sample) \in Nat
    /\ log \in Seq(1..Len(sample))
    /\ table \in [Rules -> Rows] /\ loaded \in [Rules -> Rows]
    /\ state \in [Rules -> States]
    /\ alerts \in [Rules -> Seq(1..Len(sample))]
    /\ resolved \in [Rules -> SUBSET (1..Len(sample))]
    /\ held \in Founds
    /\ reload \in Reloads
    /\ persisting \in BOOLEAN
    /\ owed \in [Rules -> SUBSET (1..Len(sample))]
    /\ shown \in [Rules -> SUBSET SUBSET (1..Len(sample))]
    /\ \A r \in Rules : owed[r] \in shown[r]
    /\ edits \in 0..MaxEdits
    /\ edited \subseteq Rules /\ torn \subseteq Rules

LEMMA ShapeTypes == RulesShape => RulesTypeOK
<1> SUFFICES ASSUME RulesShape PROVE RulesTypeOK
  OBVIOUS
<1>1. \A n \in DOMAIN log : log[n] \in 1..Len(sample)
  BY DEF RulesShape
<1>2. /\ reload.at \in {"idle", "committed", "read", "loaded", "listed"}
      /\ reload.rows \in [Rules -> Rows] /\ reload.found \in Founds
  BY DEF RulesShape, Reloads
<1>3. \A r \in Rules : alerts[r] \in Seq(1..Len(sample)) /\ resolved[r] \subseteq 1..Len(sample)
  BY DEF RulesShape
<1>4. \A r \in Rules : owed[r] \in shown[r] /\ shown[r] \subseteq SUBSET (1..Len(sample))
  BY DEF RulesShape
<1> QED
  BY <1>1, <1>2, <1>3, <1>4 DEF RulesShape, RulesTypeOK, Rows, States, Founds

\* The last of a set of places in a sequence.
LEMMA LastIsMember ==
    ASSUME NEW U, NEW m \in Nat, U \subseteq 1..m, U # {}
    PROVE  LET last == CHOOSE n \in U : \A k \in U : k <= n
           IN  last \in U /\ \A k \in U : k <= last
<1> DEFINE less == OpToRel(<, Nat)
           T == {m - n : n \in U}
<1>1. T \subseteq Nat /\ T # {}
  <2>1. \A n \in U : m - n \in Nat
    OBVIOUS
  <2>2. PICK u \in U : TRUE
    OBVIOUS
  <2>3. m - u \in T
    OBVIOUS
  <2> QED
    BY <2>1, <2>3
<1>2. \E i \in T : \A j \in T : <<j, i>> \notin less
  <2>1. IsWellFoundedOn(less, Nat)
    BY NatLessThanWellFounded
  <2> HIDE DEF less, T
  <2> QED
    BY <1>1, <2>1, WFMin
<1>3. PICK n \in U : \A j \in T : <<j, m - n>> \notin less
  BY <1>2
<1>4. \A k \in U : k <= n
  <2> TAKE k \in U
  <2>1. m - k \in Nat /\ m - n \in Nat /\ m - k \in T
    BY <1>1
  <2>2. ~(m - k < m - n)
    BY <1>3, <2>1 DEF OpToRel
  <2> QED
    BY <2>1, <2>2
<1>5. \E l \in U : \A k \in U : k <= l
  BY <1>4
<1> QED
  BY <1>5, Zenon

LEMMA ListedShape ==
    ASSUME RulesShape
    PROVE  /\ Listed \in Founds
           /\ \A r \in Rules : Unresolved(r) # {} =>
                \E n \in Unresolved(r) : /\ \A m \in Unresolved(r) : m <= n
                                         /\ Listed[r] = alerts[r][n]
           /\ \A r \in Rules : Unresolved(r) = {} => Listed[r] = 0
<1>1. ASSUME NEW r \in Rules, Unresolved(r) # {}
      PROVE  \E n \in Unresolved(r) : /\ \A m \in Unresolved(r) : m <= n
                                      /\ Listed[r] = alerts[r][n]
  <2>1. Unresolved(r) \subseteq 1..Len(alerts[r]) /\ Len(alerts[r]) \in Nat
    BY DEF RulesShape, Unresolved
  <2> DEFINE last == CHOOSE n \in Unresolved(r) : \A k \in Unresolved(r) : k <= n
  <2>2. last \in Unresolved(r) /\ \A k \in Unresolved(r) : k <= last
    BY <1>1, <2>1, LastIsMember
  <2>3. Listed[r] = alerts[r][last]
    BY <1>1, Zenon DEF Listed
  <2> HIDE DEF last
  <2> QED
    BY <2>2, <2>3
<1>2. ASSUME NEW r \in Rules, Unresolved(r) = {}
      PROVE  Listed[r] = 0
  BY <1>2 DEF Listed
<1>3. ASSUME NEW r \in Rules PROVE Listed[r] \in 0..Len(sample)
  <2>1. CASE Unresolved(r) = {}
    <3>1. Len(sample) \in Nat
      BY DEF RulesShape
    <3> QED
      BY <1>2, <2>1, <3>1
  <2>2. CASE Unresolved(r) # {}
    <3>1. PICK n \in Unresolved(r) : Listed[r] = alerts[r][n]
      BY <1>1, <2>2
    <3>2. alerts[r][n] \in 1..Len(sample)
      BY <3>1 DEF RulesShape, Unresolved
    <3> QED
      BY <3>1, <3>2
  <2> QED
    BY <2>1, <2>2
<1>4. Listed \in Founds
  <2>1. Listed = [r \in Rules |-> Listed[r]]
    BY DEF Listed
  <2> QED
    BY <1>3, <2>1 DEF Founds
<1> QED
  BY <1>1, <1>2, <1>4

LEMMA NoStateShape == RulesShape => NoState \in States /\ NoState.since = 0
                                    /\ NoState.fired = 0 /\ NoState.on = 0
  BY DEF RulesShape, NoState, States

LEMMA HydratedShape ==
    ASSUME RulesShape, NEW states \in [Rules -> States], NEW found \in Founds
    PROVE  Hydrated(states, found) \in [Rules -> States]
  BY DEF RulesShape, Hydrated, Founds, States

LEMMA KeptShape ==
    ASSUME RulesShape, NEW rows, NEW states \in [Rules -> States]
    PROVE  Kept(rows, states) \in [Rules -> States]
  BY NoStateShape DEF Kept

LEMMA IdleShape == RulesShape => Idle \in Reloads /\ Idle.at = "idle"
                                 /\ Idle.rows = FirstRows
                                 /\ Idle.found = [r \in Rules |-> 0]
  BY RulesAssumption DEF RulesShape, Idle, Reloads, Founds, Rows

LEMMA ApplyShape ==
    ASSUME RulesShape, NEW i \in 1..Len(sample), NEW applied, NEW queued, Apply(i, applied, queued),
           sample' = sample
    PROVE  RulesShape'
<1>1. ASSUME NEW r \in Rules PROVE Step(r, i) \in States
  <2>1. state[r] \in States /\ i \in 0..Len(sample) /\ 0 \in 0..Len(sample)
    BY DEF RulesShape
  <2>2. CASE r \notin Evaluating
    BY <2>1, <2>2 DEF Step
  <2>3. CASE r \in Evaluating
    <3>1. Since(r, i) \in 0..Len(sample)
      BY <2>1 DEF Since, States
    <3>2. /\ (IF Met(r, i) THEN Since(r, i) ELSE 0) \in 0..Len(sample)
          /\ (IF r \in Fires(i) THEN i ELSE state[r].fired) \in 0..Len(sample)
          /\ (IF r \in Fires(i) THEN i
              ELSE IF Met(r, i) THEN state[r].on ELSE 0) \in 0..Len(sample)
      BY <2>1, <3>1 DEF States
    <3> QED
      BY <2>3, <3>2 DEF Step, States
  <2> QED
    BY <2>2, <2>3
<1>2. state' \in [Rules -> States]
  <2>1. state' = [r \in Rules |-> Step(r, i)]
    BY DEF Apply
  <2> QED
    BY <1>1, <2>1, Zenon
<1>3. alerts' \in [Rules -> Seq(1..Len(sample))]
  <2>1. alerts' = [r \in Rules |->
           IF r \in applied \cap Fires(i) THEN Append(alerts[r], i) ELSE alerts[r]]
    BY DEF Apply
  <2>2. \A r \in Rules : /\ alerts[r] \in Seq(1..Len(sample))
                         /\ Append(alerts[r], i) \in Seq(1..Len(sample))
    BY DEF RulesShape
  <2> QED
    BY <2>1, <2>2, Zenon
<1>4. resolved' \in [Rules -> SUBSET (1..Len(sample))]
  <2>1. \A r \in Rules : held[r] \in 0..Len(sample) /\ resolved[r] \in SUBSET (1..Len(sample))
    BY DEF RulesShape, Founds
  <2>2. \A r \in Rules : {held[r]} \ {0} \subseteq 1..Len(sample)
    BY <2>1 DEF RulesShape
  <2> QED
    BY <2>1, <2>2 DEF Apply
<1>5. held' \in Founds
  BY DEF Apply, RulesShape, Founds
<1>6. log' \in Seq(1..Len(sample))
  BY DEF Apply, RulesShape
<1>7. torn' \subseteq Rules
  BY DEF Apply, RulesShape, Fires, Clears, Evaluating
<1>8. owed' \in [Rules -> SUBSET (1..Len(sample))]
  BY DEF Apply, RulesShape
<1>9. /\ shown' \in [Rules -> SUBSET SUBSET (1..Len(sample))]
      /\ \A r \in Rules : owed'[r] \in shown'[r]
  <2>1. shown' = [r \in Rules |-> shown[r] \cup {owed'[r]}]
    BY DEF Apply
  <2>2. \A r \in Rules : shown[r] \in SUBSET SUBSET (1..Len(sample))
                         /\ owed'[r] \in SUBSET (1..Len(sample))
    BY <1>8 DEF RulesShape
  <2> QED
    BY <2>1, <2>2
<1> QED
  BY <1>2, <1>3, <1>4, <1>5, <1>6, <1>7, <1>8, <1>9
     DEF Apply, RulesShape, States, Founds, Reloads

LEMMA ByTimeShape ==
    ASSUME RulesShape, NEW rows \in SUBSET (1..Len(sample)), NEW at \in ByTime(rows)
    PROVE  /\ at \in Seq(1..Len(sample))
           /\ Cardinality(rows) \in Nat /\ Len(at) = Cardinality(rows)
           /\ DOMAIN at = 1..Len(at) /\ \A n \in DOMAIN at : at[n] \in rows
<1>1. Cardinality(rows) \in Nat
  <2>1. IsFiniteSet(1..Len(sample))
    BY FS_Interval DEF RulesShape
  <2> QED
    BY <2>1, FS_Subset, FS_CardinalityType
<1>2. at \in [1..Cardinality(rows) -> rows]
  BY DEF ByTime
<1>3. at \in [1..Cardinality(rows) -> 1..Len(sample)]
  BY <1>2
<1>4. at \in Seq(1..Len(sample))
  BY <1>1, <1>3, SeqDef
<1>5. DOMAIN at = 1..Len(at) /\ Len(at) \in Nat
  BY <1>4
<1>6. Len(at) = Cardinality(rows)
  BY <1>1, <1>2, <1>5
<1> QED
  BY <1>1, <1>2, <1>4, <1>5, <1>6

\* What a start finds of a rule.
LEMMA RestoredAs ==
    ASSUME RulesShape, NEW states, RestoreRules(states), NEW r \in Rules
    PROVE  /\ owed'[r] \in ActiveRows(r) /\ shown'[r] = {owed'[r]}
           /\ alerts'[r] \in ByTime(owed'[r])
           /\ owed'[r] \in SUBSET (1..Len(sample))
<1>1. PICK found \in [Rules -> UNION {ActiveRows(q) : q \in Rules}] :
        /\ \A q \in Rules : found[q] \in ActiveRows(q)
        /\ Settle(found)
        /\ \A q \in Rules : alerts'[q] \in ByTime(found[q])
  BY Zenon DEF RestoreRules
<1>2. owed' = found /\ shown'[r] = {found[r]}
  BY <1>1 DEF Settle
<1>3. \A rows \in ActiveRows(r) : rows \in SUBSET (1..Len(sample))
  BY DEF ActiveRows, RulesShape
<1> QED
  BY <1>1, <1>2, <1>3

LEMMA RestoreShape ==
    ASSUME RulesShape, NEW states \in [Rules -> States], RestoreRules(states),
           reload' \in Reloads, torn' \subseteq Rules, sample' = sample
    PROVE  RulesShape'
<1>1. \A r \in Rules : /\ alerts'[r] \in Seq(1..Len(sample))
                       /\ owed'[r] \in SUBSET (1..Len(sample)) /\ shown'[r] = {owed'[r]}
  BY RestoredAs, ByTimeShape
<1>2. alerts' \in [Rules -> Seq(1..Len(sample))]
  <2>1. PICK found : alerts' \in [Rules -> UNION {ByTime(found[r]) : r \in Rules}]
    BY Zenon DEF RestoreRules
  <2>2. alerts' = [r \in Rules |-> alerts'[r]]
    BY <2>1
  <2> QED
    BY <1>1, <2>2
<1>3. held' \in Founds
  <2>1. held' = [r \in Rules |-> IF alerts'[r] = <<>> THEN 0
                                  ELSE alerts'[r][Len(alerts'[r])]]
    BY DEF RestoreRules
  <2> QED
    BY <1>1, <2>1 DEF Founds, RulesShape
<1>4. state' \in [Rules -> States]
  BY <1>3, HydratedShape DEF RestoreRules
<1>5. resolved' \in [Rules -> SUBSET (1..Len(sample))]
  BY DEF RestoreRules
<1>6. /\ owed' \in [Rules -> SUBSET (1..Len(sample))]
      /\ shown' \in [Rules -> SUBSET SUBSET (1..Len(sample))]
      /\ \A r \in Rules : owed'[r] \in shown'[r]
  <2>1. PICK found \in [Rules -> UNION {ActiveRows(q) : q \in Rules}] : Settle(found)
    BY Zenon DEF RestoreRules
  <2>2. /\ owed' = [r \in Rules |-> owed'[r]]
        /\ shown' = [r \in Rules |-> shown'[r]]
    BY <2>1 DEF Settle
  <2> QED
    BY <1>1, <2>2
<1> QED
  BY <1>2, <1>3, <1>4, <1>5, <1>6 DEF RulesShape, RestoreRules, States, Founds, Reloads

LEMMA GrowShape ==
    ASSUME RulesShape, UNCHANGED ruleVars, Len(sample') \in Nat, Len(sample) <= Len(sample')
    PROVE  RulesShape'
<1>1. 1..Len(sample) \subseteq 1..Len(sample') /\ 0..Len(sample) \subseteq 0..Len(sample')
  BY DEF RulesShape
<1>2. \A q \in Seq(1..Len(sample)) : q \in Seq(1..Len(sample'))
  BY <1>1
<1>3. States \subseteq States' /\ Founds \subseteq Founds'
  BY <1>1 DEF States, Founds
<1>4. Reloads \subseteq Reloads'
  BY <1>3 DEF Reloads
<1>6. /\ persisting' \in BOOLEAN
      /\ owed' \in [Rules -> SUBSET (1..Len(sample'))]
      /\ shown' \in [Rules -> SUBSET SUBSET (1..Len(sample'))]
      /\ \A r \in Rules : owed'[r] \in shown'[r]
  <2>1. UNCHANGED <<persisting, owed, shown>>
    BY DEF ruleVars, rowVars
  <2>2. SUBSET (1..Len(sample)) \subseteq SUBSET (1..Len(sample'))
    BY <1>1
  <2>3. SUBSET SUBSET (1..Len(sample)) \subseteq SUBSET SUBSET (1..Len(sample'))
    BY <2>2
  <2> QED
    BY <2>1, <2>2, <2>3 DEF RulesShape
<1>5. /\ log' \in Seq(1..Len(sample')) /\ state' \in [Rules -> States']
      /\ alerts' \in [Rules -> Seq(1..Len(sample'))]
      /\ resolved' \in [Rules -> SUBSET (1..Len(sample'))]
      /\ held' \in Founds' /\ reload' \in Reloads'
  <2>1. UNCHANGED <<log, state, alerts, resolved, held, reload>>
    BY DEF ruleVars
  <2>2. /\ log \in Seq(1..Len(sample)) /\ state \in [Rules -> States]
        /\ alerts \in [Rules -> Seq(1..Len(sample))]
        /\ resolved \in [Rules -> SUBSET (1..Len(sample))]
        /\ held \in Founds /\ reload \in Reloads
    BY DEF RulesShape
  <2>3. resolved \in [Rules -> SUBSET (1..Len(sample'))]
    BY <1>1, <2>2
  <2> QED
    BY <1>2, <1>3, <1>4, <2>1, <2>2, <2>3
<1> QED
  BY <1>5, <1>6 DEF RulesShape, ruleVars

LEMMA InitShape ==
    ASSUME RulesInit, Len(sample) \in Nat
    PROVE  RulesShape
<1>1. /\ NoState \in States /\ [r \in Rules |-> 0] \in Founds /\ Idle \in Reloads
      /\ FirstRows \in [Rules -> Rows]
  BY RulesAssumption DEF States, NoState, Founds, Idle, Reloads, Rows
<1>2. <<>> \in Seq(1..Len(sample)) /\ 0 \in 0..MaxEdits
  BY RulesAssumption
<1>3. /\ owed \in [Rules -> SUBSET (1..Len(sample))]
      /\ shown \in [Rules -> SUBSET SUBSET (1..Len(sample))]
      /\ \A r \in Rules : owed[r] \in shown[r]
  BY DEF RulesInit
<1> QED
  BY <1>1, <1>2, <1>3 DEF RulesInit, RulesShape

-----------------------------------------------------------------------------
(* The rules: what holds as samples arrive and rules are edited.           *)

Logged == {log[n] : n \in DOMAIN log}

\* Alerts come from samples that were evaluated.
FromLog(r) ==
    /\ \A n \in DOMAIN alerts[r] : alerts[r][n] \in Logged
    /\ resolved[r] \subseteq Logged
    /\ held[r] # 0 => held[r] \in Logged

\* Of a rule that is not yet created nothing is known, nor will be.
Blank(r) ==
    table[r] = New =>
        /\ FirstRows[r] = New /\ loaded[r] = New
        /\ reload.rows[r] = New /\ reload.found[r] = 0
        /\ alerts[r] = <<>> /\ held[r] = 0 /\ state[r] = NoState

\* The engine has what the table has, but for a row just deleted.
Current(r) ==
    /\ table[r] \in Configs => loaded[r] = table[r]
    /\ loaded[r] \in Configs =>
         \/ loaded[r] = table[r]
         \/ table[r] = Gone /\ reload.at \in {"committed", "read"}

\* The unresolved alert is the last one, and it is the engine's; the engine
\* knows when the last alert fired, and none fired later.
Agreed(r) ==
    LET n == Len(alerts[r])
    IN  /\ state[r].on = held[r]
        /\ held[r] = 0 => Unresolved(r) = {}
        /\ held[r] # 0 => n # 0 /\ Unresolved(r) = {n} /\ alerts[r][n] = held[r]
        /\ n # 0 => state[r].fired = alerts[r][n]
        /\ \A j \in 1..n : Time(alerts[r][j]) <= Time(alerts[r][n])

\* The run of samples that met the condition, up to the last one.
RunKnown(r) ==
    state[r].since # 0 /\ state[r].on = 0 =>
        \E k \in DOMAIN log :
            /\ log[k] = state[r].since
            /\ \A j \in k..Len(log) : Matches(sample[log[j]].value, loaded[r])

\* The rows come from samples that were evaluated, and there is one at most
\* whenever all that the table is owed is the active alert's.
Tabled(r) ==
    /\ \A rows \in shown[r] : rows \subseteq Logged
    /\ \/ Adrift(r)
       \/ \A rows \in shown[r] : \A i, j \in rows : i = j

RuleInv(r) ==
    /\ FromLog(r) /\ Blank(r) /\ Tabled(r)
    /\ r \notin torn => Current(r)
    /\ r \notin torn /\ loaded[r] \in Configs => Agreed(r)
    /\ r \notin torn \cup edited /\ loaded[r] \in Configs /\ loaded[r].enabled => RunKnown(r)

TimesAreInts == \A i \in 1..Len(sample) : Time(i) \in Int

RulesInv == RulesShape /\ TimesAreInts /\ \A r \in Rules : RuleInv(r)

\* A sample evaluated for one rule.
LEMMA LogGrows ==
    ASSUME RulesShape, NEW i \in 1..Len(sample), log' = Append(log, i)
    PROVE  /\ Len(log) \in Nat /\ Len(log') = Len(log) + 1
           /\ DOMAIN log = 1..Len(log) /\ DOMAIN log' = 1..(Len(log) + 1)
           /\ \A n \in 1..Len(log) : log'[n] = log[n]
           /\ log'[Len(log) + 1] = i
           /\ Logged' = Logged \cup {i}
<1>1. /\ Len(log) \in Nat /\ Len(log') = Len(log) + 1
      /\ DOMAIN log = 1..Len(log) /\ DOMAIN log' = 1..(Len(log) + 1)
      /\ \A n \in 1..Len(log) : log'[n] = log[n]
      /\ log'[Len(log) + 1] = i
  BY DEF RulesShape
<1>2. \A n \in DOMAIN log' : n \in DOMAIN log \/ n = Len(log) + 1
  BY <1>1
<1>3. \A n \in DOMAIN log : n \in DOMAIN log'
  BY <1>1
<1>4. Len(log) + 1 \in DOMAIN log'
  BY <1>1
<1>5. Logged' = Logged \cup {i}
  BY <1>1, <1>2, <1>3, <1>4 DEF Logged
<1> QED
  BY <1>1, <1>5

\* What a sample does to a rule it does not concern, makes fire, clears, or
\* leaves as it is.
LEMMA ApplyCases ==
    ASSUME NEW r \in Rules, NEW i, NEW applied, NEW queued, Apply(i, applied, queued)
    PROVE  /\ table' = table /\ loaded' = loaded /\ reload' = reload /\ edited' = edited
           /\ log' = Append(log, i) /\ torn \subseteq torn'
           /\ state'[r] = Step(r, i)
           /\ r \in Fires(i) /\ r \in applied =>
                alerts'[r] = Append(alerts[r], i) /\ resolved'[r] = resolved[r] /\ held'[r] = i
           /\ r \in Clears(i) /\ r \in applied =>
                /\ alerts'[r] = alerts[r] /\ held'[r] = 0
                /\ resolved'[r] = resolved[r] \cup ({held[r]} \ {0})
           /\ r \notin Fires(i) \cup Clears(i) \/ r \notin applied =>
                alerts'[r] = alerts[r] /\ resolved'[r] = resolved[r] /\ held'[r] = held[r]
           /\ r \in Fires(i) \cup Clears(i) /\ r \notin torn' => r \in applied
<1>1. r \in Fires(i) => r \notin Clears(i)
  BY DEF Fires, Clears
<1>2. /\ state'[r] = Step(r, i)
      /\ alerts'[r] = IF r \in applied \cap Fires(i) THEN Append(alerts[r], i) ELSE alerts[r]
      /\ resolved'[r] = IF r \in applied \cap Clears(i)
                        THEN resolved[r] \cup ({held[r]} \ {0}) ELSE resolved[r]
      /\ held'[r] = IF r \in applied \cap Fires(i) THEN i
                    ELSE IF r \in applied \cap Clears(i) THEN 0 ELSE held[r]
  BY DEF Apply
<1>3. torn' = torn \cup ((Fires(i) \cup Clears(i)) \ applied)
  BY DEF Apply
<1> QED
  BY <1>1, <1>2, <1>3 DEF Apply

LEMMA ApplyFromLog ==
    ASSUME RulesShape, NEW r \in Rules, FromLog(r), Blank(r), NEW i \in 1..Len(sample),
           NEW applied, NEW queued, Apply(i, applied, queued)
    PROVE  FromLog(r)' /\ Blank(r)'
<1>1. log' = Append(log, i) /\ Logged' = Logged \cup {i}
  BY ApplyCases, LogGrows
<1>2. \/ alerts'[r] = alerts[r]
      \/ alerts'[r] = Append(alerts[r], i)
  BY ApplyCases
<1>3. /\ resolved'[r] \subseteq resolved[r] \cup ({held[r]} \ {0})
      /\ held'[r] \in {i, 0, held[r]}
  BY ApplyCases
<1>4. \A n \in DOMAIN alerts'[r] : alerts'[r][n] \in Logged'
  <2>1. alerts[r] \in Seq(1..Len(sample))
    BY DEF RulesShape
  <2>2. CASE alerts'[r] = alerts[r]
    BY <1>1, <2>2 DEF FromLog
  <2>3. CASE alerts'[r] = Append(alerts[r], i)
    <3>1. \A n \in DOMAIN Append(alerts[r], i) :
             (n \in DOMAIN alerts[r] /\ Append(alerts[r], i)[n] = alerts[r][n])
             \/ Append(alerts[r], i)[n] = i
      BY <2>1
    <3> QED
      BY <1>1, <2>3, <3>1 DEF FromLog
  <2> QED
    BY <1>2, <2>2, <2>3
<1>5. FromLog(r)'
  BY <1>1, <1>3, <1>4 DEF FromLog
<1>6. Blank(r)'
  <2> SUFFICES ASSUME table[r] = New PROVE Blank(r)'
    BY ApplyCases DEF Blank
  <2>1. loaded[r] = New /\ r \notin Evaluating
    BY RulesAssumption DEF Blank, Evaluating
  <2>2. r \notin Fires(i) \cup Clears(i) /\ Step(r, i) = state[r]
    BY <2>1 DEF Fires, Clears, Step
  <2>3. /\ table' = table /\ loaded' = loaded /\ reload' = reload
        /\ state'[r] = state[r] /\ alerts'[r] = alerts[r] /\ held'[r] = held[r]
    BY <2>2, ApplyCases
  <2> QED
    BY <2>3 DEF Blank
<1> QED
  BY <1>5, <1>6

\* A row that is owed beside the active alert's stays owed.
LEMMA ApplyTabled ==
    ASSUME RulesShape, NEW r \in Rules, FromLog(r), Tabled(r), NEW i \in 1..Len(sample),
           i \notin Logged, NEW applied, NEW queued, Apply(i, applied, queued)
    PROVE  Tabled(r)'
<1>1. Logged' = Logged \cup {i}
  BY ApplyCases, LogGrows
<1>2. /\ shown'[r] = shown[r] \cup {owed'[r]}
      /\ \/ owed'[r] = owed[r]
         \/ owed'[r] = owed[r] \cup {i}
         \/ owed'[r] = owed[r] \ {held[r]}
  BY DEF Apply
<1>3. held'[r] \in {i, 0, held[r]}
  BY ApplyCases
<1>4. owed[r] \in shown[r] /\ owed[r] \subseteq Logged /\ owed[r] \subseteq 1..Len(sample)
  BY DEF RulesShape, Tabled
<1>5. Adrift(r) => Adrift(r)'
  <2> SUFFICES ASSUME NEW k \in owed[r], k # held[r] PROVE Adrift(r)'
    BY DEF Adrift
  <2>1. k # i /\ k # 0
    BY <1>4
  <2>2. k \in owed'[r] /\ k # held'[r]
    BY <1>2, <1>3, <2>1
  <2> QED
    BY <2>2 DEF Adrift
<1>6. \A rows \in shown'[r] : rows \subseteq Logged'
  BY <1>1, <1>2, <1>4 DEF Tabled
<1>7. ASSUME ~Adrift(r)'
      PROVE  \A rows \in shown'[r] : \A j, k \in rows : j = k
  <2>1. owed'[r] \subseteq {held'[r]}
    BY <1>7 DEF Adrift
  <2> QED
    BY <1>2, <1>5, <1>7, <2>1 DEF Tabled
<1> QED
  BY <1>6, <1>7 DEF Tabled

\* A rule that fires did not hold an alert, and is due.
LEMMA FireKept ==
    ASSUME RulesShape, TimesAreInts, NEW r \in Rules, FromLog(r), Agreed(r),
           NEW i \in 1..Len(sample), i \notin Logged, NEW applied, NEW queued, Apply(i, applied, queued),
           sample' = sample, r \in Fires(i), r \in applied
    PROVE  Agreed(r)'
<1> DEFINE n == Len(alerts[r])
           c == loaded[r]
<1>0. /\ alerts[r] \in Seq(1..Len(sample)) /\ n \in Nat /\ DOMAIN alerts[r] = 1..n
      /\ resolved[r] \subseteq Logged
      /\ \A j \in 1..n : alerts[r][j] \in 1..Len(sample)
  BY DEF RulesShape, FromLog
<1>1. /\ alerts'[r] = Append(alerts[r], i) /\ resolved'[r] = resolved[r] /\ held'[r] = i
      /\ state'[r] = Step(r, i)
  BY ApplyCases
<1>2. /\ r \in Evaluating /\ state[r].on = 0 /\ Cooled(r, i) /\ c \in Configs
  BY DEF Fires, Evaluating
<1>3. state'[r].on = i /\ state'[r].fired = i
  BY <1>1, <1>2 DEF Step
<1>4. held[r] = 0 /\ Unresolved(r) = {}
  BY <1>2 DEF Agreed
<1>5. /\ Len(alerts'[r]) = n + 1 /\ DOMAIN alerts'[r] = 1..(n + 1)
      /\ \A j \in 1..n : alerts'[r][j] = alerts[r][j]
      /\ alerts'[r][n + 1] = i
  BY <1>0, <1>1
<1>6. Unresolved(r)' = {n + 1}
  <2>1. \A j \in 1..n : alerts[r][j] \in resolved[r]
    BY <1>0, <1>4 DEF Unresolved
  <2>2. i \notin resolved'[r] /\ \A j \in 1..n : alerts'[r][j] \in resolved'[r]
    BY <1>0, <1>1, <1>5, <2>1
  <2>3. \A j \in 1..(n + 1) : j \in 1..n \/ j = n + 1
    BY <1>0
  <2>4. n + 1 \in 1..(n + 1)
    BY <1>0
  <2> QED
    BY <1>5, <2>2, <2>3, <2>4 DEF Unresolved
<1>7. \A j \in 1..n : Time(alerts[r][j]) <= Time(i)
  <2> SUFFICES ASSUME NEW j \in 1..n PROVE Time(alerts[r][j]) <= Time(i)
    OBVIOUS
  <2>1. n # 0 /\ state[r].fired = alerts[r][n] /\ n \in 1..n
        /\ Time(alerts[r][j]) <= Time(alerts[r][n])
    BY <1>0 DEF Agreed
  <2>2. state[r].fired # 0
    BY <1>0, <2>1
  <2>3. Time(i) - Time(alerts[r][n]) >= c.cooldown
    BY <1>2, <2>1, <2>2 DEF Cooled
  <2>4. c.cooldown \in Nat
    BY <1>2, RulesAssumption
  <2>5. Time(i) \in Int /\ Time(alerts[r][n]) \in Int /\ Time(alerts[r][j]) \in Int
    BY <1>0, <2>1 DEF TimesAreInts
  <2> HIDE DEF c
  <2> QED
    BY <2>1, <2>3, <2>4, <2>5
<1>8. \A j \in 1..(n + 1) : sample'[alerts'[r][j]].time <= sample'[i].time
  <2>1. \A k : Time(k)' = sample[k].time /\ Time(k) = sample[k].time
    BY DEF Time
  <2>2. Time(i) \in Int
    BY DEF TimesAreInts
  <2>3. \A j \in 1..(n + 1) : j \in 1..n \/ j = n + 1
    BY <1>0
  <2>4. \A j \in 1..n : sample[alerts'[r][j]].time <= sample[i].time
    BY <1>5, <1>7, <2>1
  <2>5. sample[alerts'[r][n + 1]].time <= sample[i].time
    BY <1>5, <2>1, <2>2
  <2>6. \A j \in 1..(n + 1) : sample[alerts'[r][j]].time <= sample[i].time
    BY <2>3, <2>4, <2>5
  <2>7. sample' = sample
    OBVIOUS
  <2> QED
    BY <2>6, <2>7
<1> HIDE DEF n
<1>9. i # 0 /\ n + 1 # 0
  BY <1>0
<1> QED
  BY <1>1, <1>3, <1>5, <1>6, <1>8, <1>9 DEF Agreed, Time

\* A rule that clears resolves the one alert there is.
LEMMA ClearKept ==
    ASSUME RulesShape, NEW r \in Rules, Agreed(r), NEW i \in 1..Len(sample),
           NEW applied, NEW queued, Apply(i, applied, queued), sample' = sample, r \in Clears(i), r \in applied
    PROVE  Agreed(r)'
<1>1. /\ alerts'[r] = alerts[r] /\ held'[r] = 0
      /\ resolved'[r] = resolved[r] \cup ({held[r]} \ {0})
      /\ state'[r] = Step(r, i)
  BY ApplyCases
<1>2. r \in Evaluating /\ ~Met(r, i) /\ state[r].on # 0 /\ r \notin Fires(i)
  BY DEF Clears, Fires
<1>3. state'[r].on = 0 /\ state'[r].fired = state[r].fired
  BY <1>1, <1>2 DEF Step
<1>4. held[r] # 0 /\ Unresolved(r) = {Len(alerts[r])} /\ alerts[r][Len(alerts[r])] = held[r]
  BY <1>2 DEF Agreed
<1>5. Unresolved(r)' = {}
  BY <1>1, <1>4 DEF Unresolved
<1> QED
  BY <1>1, <1>3, <1>5 DEF Agreed, Time

\* Any other sample leaves the alerts of a rule alone.
LEMMA NeitherKept ==
    ASSUME RulesShape, NEW r \in Rules, Agreed(r), NEW i \in 1..Len(sample),
           NEW applied, NEW queued, Apply(i, applied, queued), sample' = sample, r \notin Fires(i) \cup Clears(i)
    PROVE  Agreed(r)'
<1>1. /\ alerts'[r] = alerts[r] /\ resolved'[r] = resolved[r] /\ held'[r] = held[r]
      /\ state'[r] = Step(r, i)
  BY ApplyCases
<1>2. state'[r].on = state[r].on /\ state'[r].fired = state[r].fired
  BY <1>1 DEF Step, Clears
<1> QED
  BY <1>1, <1>2 DEF Agreed, Time, Unresolved

\* The run goes on with a sample that meets the condition, and ends with one
\* that does not.
LEMMA RunGoesOn ==
    ASSUME RulesShape, NEW r \in Rules, r \in Evaluating, RunKnown(r), state[r].on = 0,
           NEW i \in 1..Len(sample), Met(r, i), log' = Append(log, i), sample' = sample
    PROVE  \E k \in 1..Len(log') :
              /\ log'[k] = Since(r, i)
              /\ \A j \in k..Len(log') : Matches(sample'[log'[j]].value, loaded[r])
<1>0. /\ Len(log) \in Nat /\ Len(log') = Len(log) + 1
      /\ DOMAIN log = 1..Len(log) /\ DOMAIN log' = 1..(Len(log) + 1)
      /\ \A n \in 1..Len(log) : log'[n] = log[n]
      /\ log'[Len(log) + 1] = i
  BY LogGrows
<1>1. Matches(sample'[i].value, loaded[r])
  BY DEF Met
<1>2. CASE state[r].since = 0
  <2>1. Since(r, i) = i
    BY <1>2 DEF Since
  <2>2. Len(log') \in 1..Len(log') /\ \A j \in Len(log')..Len(log') : log'[j] = i
    BY <1>0
  <2> QED
    BY <1>0, <1>1, <2>1, <2>2
<1>3. CASE state[r].since # 0
  <2>1. PICK k \in DOMAIN log :
          /\ log[k] = state[r].since
          /\ \A j \in k..Len(log) : Matches(sample[log[j]].value, loaded[r])
    BY <1>3 DEF RunKnown
  <2>2. Since(r, i) = log'[k] /\ k \in 1..Len(log) /\ k \in 1..Len(log')
    BY <1>0, <1>3, <2>1 DEF Since
  <2>3. \A j \in k..Len(log') : Matches(sample'[log'[j]].value, loaded[r])
    <3> SUFFICES ASSUME NEW j \in k..Len(log')
                 PROVE  Matches(sample'[log'[j]].value, loaded[r])
      OBVIOUS
    <3>1. (j \in k..Len(log) /\ j \in 1..Len(log)) \/ j = Len(log) + 1
      BY <1>0, <2>2
    <3> QED
      BY <1>0, <1>1, <2>1, <3>1
  <2> QED
    BY <2>2, <2>3
<1> QED
  BY <1>2, <1>3

LEMMA RunKept ==
    ASSUME RulesShape, NEW r \in Rules, r \in Evaluating, RunKnown(r),
           NEW i \in 1..Len(sample), NEW applied, NEW queued, Apply(i, applied, queued), sample' = sample
    PROVE  RunKnown(r)'
<1>1. log' = Append(log, i) /\ state'[r] = Step(r, i) /\ loaded' = loaded
  BY ApplyCases
<1>2. SUFFICES ASSUME state'[r].since # 0, state'[r].on = 0
               PROVE  \E k \in DOMAIN log' :
                         /\ log'[k] = state'[r].since
                         /\ \A j \in k..Len(log') : Matches(sample'[log'[j]].value, loaded'[r])
  BY DEF RunKnown
<1>3. Met(r, i) /\ state'[r].since = Since(r, i)
  BY <1>1, <1>2 DEF Step
<1>4. state[r].on = 0
  <2>1. i # 0
    OBVIOUS
  <2> QED
    BY <1>1, <1>2, <1>3, <2>1 DEF Step
<1>5. \E k \in 1..Len(log') :
        /\ log'[k] = Since(r, i)
        /\ \A j \in k..Len(log') : Matches(sample'[log'[j]].value, loaded[r])
  BY <1>1, <1>3, <1>4, RunGoesOn
<1>6. DOMAIN log' = 1..Len(log')
  BY <1>1, LogGrows
<1> QED
  BY <1>1, <1>3, <1>5, <1>6

\* A rule fires only when it is due.
LEMMA FireIsDue ==
    ASSUME RulesShape, TimesAreInts, NEW r \in Rules, Agreed(r), RunKnown(r),
           NEW i \in 1..Len(sample), NEW applied, NEW queued, Apply(i, applied, queued), sample' = sample,
           r \in Fires(i), r \in applied
    PROVE  DueNow(r)'
<1> DEFINE c == loaded[r]
           n == Len(alerts[r])
<1>1. /\ log' = Append(log, i) /\ loaded' = loaded
      /\ alerts'[r] = Append(alerts[r], i)
  BY ApplyCases
<1>2. /\ r \in Evaluating /\ Met(r, i) /\ state[r].on = 0 /\ Cooled(r, i) /\ c \in Configs
      /\ Time(i) - Time(Since(r, i)) >= c.duration
  BY DEF Fires, Evaluating
<1>3. PICK k \in 1..Len(log') :
        /\ log'[k] = Since(r, i)
        /\ \A j \in k..Len(log') : Matches(sample'[log'[j]].value, loaded[r])
  BY <1>1, <1>2, RunGoesOn
<1>4. log'[Len(log')] = i
  BY <1>1, LogGrows
<1>5. Time(log[Len(log)])' - Time(log[k])' >= c.duration
  BY <1>2, <1>3, <1>4 DEF Time
<1>6. ASSUME NEW j \in 1..(Len(alerts'[r]) - 1)
      PROVE  sample'[log'[Len(log')]].time - sample'[alerts'[r][j]].time >= c.cooldown
  <2>0. alerts[r] \in Seq(1..Len(sample)) /\ n \in Nat
        /\ \A m \in 1..n : alerts[r][m] \in 1..Len(sample)
    BY DEF RulesShape
  <2>1. j \in 1..n /\ alerts'[r][j] = alerts[r][j] /\ n # 0 /\ n \in 1..n
    BY <1>1, <1>6, <2>0
  <2>2. /\ state[r].fired = alerts[r][n] /\ state[r].fired # 0
        /\ Time(alerts[r][j]) <= Time(alerts[r][n])
    BY <2>0, <2>1 DEF Agreed
  <2>3. Time(i) - Time(alerts[r][n]) >= c.cooldown
    BY <1>2, <2>2 DEF Cooled
  <2>4. /\ c.cooldown \in Nat /\ Time(i) \in Int
        /\ Time(alerts[r][n]) \in Int /\ Time(alerts[r][j]) \in Int
    BY <1>2, <2>0, <2>1, RulesAssumption DEF TimesAreInts
  <2>5. Time(i) - Time(alerts[r][j]) >= c.cooldown
    <3> HIDE DEF c, n
    <3> QED
      BY <2>2, <2>3, <2>4
  <2> QED
    BY <1>4, <2>1, <2>5 DEF Time
<1> QED
  BY <1>1, <1>3, <1>5, <1>6 DEF DueNow, Time

\* A sample keeps what is known of a rule.
LEMMA ApplyKept ==
    ASSUME RulesShape, TimesAreInts, NEW r \in Rules, RuleInv(r),
           NEW i \in 1..Len(sample), i \notin Logged, NEW applied, NEW queued, Apply(i, applied, queued),
           sample' = sample
    PROVE  /\ RuleInv(r)'
           /\ r \notin edited' \cup torn' /\ Len(alerts'[r]) > Len(alerts[r]) => DueNow(r)'
<1>1. FromLog(r)' /\ Blank(r)' /\ Tabled(r)'
  BY ApplyFromLog, ApplyTabled DEF RuleInv
<1>2. /\ table' = table /\ loaded' = loaded /\ reload' = reload /\ edited' = edited
      /\ torn \subseteq torn'
      /\ r \in Fires(i) \cup Clears(i) /\ r \notin torn' => r \in applied
      /\ r \notin Fires(i) \cup Clears(i) \/ r \notin applied => alerts'[r] = alerts[r]
      /\ r \in Clears(i) /\ r \in applied => alerts'[r] = alerts[r]
  BY ApplyCases
<1>3. r \notin torn' => Current(r)'
  BY <1>2 DEF RuleInv, Current
<1>4. ASSUME r \notin torn', loaded[r] \in Configs
      PROVE  Agreed(r)'
  <2>1. Agreed(r) /\ FromLog(r)
    BY <1>2, <1>4 DEF RuleInv
  <2> QED
    BY <1>2, <1>4, <2>1, FireKept, ClearKept, NeitherKept
<1>5. ASSUME r \notin torn' \cup edited', loaded[r] \in Configs, loaded[r].enabled
      PROVE  RunKnown(r)'
  <2>1. RunKnown(r) /\ r \in Evaluating
    BY <1>2, <1>5 DEF RuleInv, Evaluating
  <2> QED
    BY <2>1, RunKept
<1>6. ASSUME r \notin edited' \cup torn', Len(alerts'[r]) > Len(alerts[r])
      PROVE  DueNow(r)'
  <2>1. r \in Fires(i) /\ r \in applied
    <3>1. Len(alerts[r]) \in Nat
      BY DEF RulesShape
    <3>2. alerts'[r] # alerts[r]
      BY <1>6, <3>1
    <3> QED
      BY <1>2, <1>6, <3>2
  <2>2. r \in Evaluating /\ loaded[r] \in Configs /\ loaded[r].enabled
    BY <2>1 DEF Fires, Evaluating
  <2>3. Agreed(r) /\ RunKnown(r)
    BY <1>2, <1>6, <2>2 DEF RuleInv
  <2> QED
    BY <2>1, <2>3, FireIsDue
<1> QED
  BY <1>1, <1>2, <1>3, <1>4, <1>5, <1>6 DEF RuleInv

\* Hydrating a rule with its unresolved alert, or with none, changes nothing
\* it agrees on.
LEMMA HydrateKept ==
    ASSUME RulesShape, NEW r \in Rules, Agreed(r), NEW f \in {0, Listed[r]},
           state'[r] = IF f = 0 THEN state[r] ELSE [since |-> f, fired |-> f, on |-> f],
           UNCHANGED <<sample, log, alerts, resolved, held>>
    PROVE  /\ Agreed(r)'
           /\ RunKnown(r) /\ loaded'[r] = loaded[r] => RunKnown(r)'
<1>1. CASE f = 0
  BY <1>1 DEF Agreed, RunKnown, Time, Unresolved
<1>2. CASE f # 0
  <2>1. f = Listed[r] /\ Listed[r] # 0
    BY <1>2
  <2>2. Unresolved(r) # {}
    BY <2>1, ListedShape
  <2>3. held[r] # 0 /\ Unresolved(r) = {Len(alerts[r])}
        /\ alerts[r][Len(alerts[r])] = held[r] /\ Len(alerts[r]) # 0
    BY <2>2 DEF Agreed
  <2>4. Listed[r] = held[r]
    <3>1. PICK n \in Unresolved(r) : Listed[r] = alerts[r][n]
      BY <2>2, ListedShape
    <3> QED
      BY <2>3, <3>1
  <2>5. state'[r] = [since |-> held[r], fired |-> held[r], on |-> held[r]]
    BY <1>2, <2>1, <2>4
  <2>6. state'[r].on = held[r] /\ state'[r].fired = held[r]
    BY <2>5
  <2>7. Agreed(r)'
    BY <2>3, <2>6 DEF Agreed, Time, Unresolved
  <2>8. RunKnown(r)'
    BY <2>3, <2>6 DEF RunKnown
  <2> QED
    BY <2>7, <2>8
<1> QED
  BY <1>1, <1>2

\* A start with nothing in memory takes over one alert of a rule at most,
\* unless the table was owed another than the active one.
LEMMA RestoreKept ==
    ASSUME RulesShape, TimesAreInts, NEW r \in Rules, RuleInv(r), sample' = sample,
           RestartRules \/ ResumeForgotten
    PROVE  RuleInv(r)'
<1>0. /\ loaded' = table /\ table' = table /\ log' = log /\ edited' = edited
      /\ resolved'[r] = {} /\ (reload' = reload \/ reload' = Idle)
      /\ held'[r] = IF alerts'[r] = <<>> THEN 0 ELSE alerts'[r][Len(alerts'[r])]
  BY DEF RestartRules, ResumeForgotten, RestoreRules
<1>1. /\ owed'[r] \in ActiveRows(r) /\ shown'[r] = {owed'[r]}
      /\ alerts'[r] \in ByTime(owed'[r])
      /\ owed'[r] \in SUBSET (1..Len(sample))
  BY RestoredAs DEF RestartRules, ResumeForgotten
<1>2. \/ state'[r] = IF held'[r] = 0 THEN NoState
                     ELSE [since |-> held'[r], fired |-> held'[r], on |-> held'[r]]
      \/ /\ ResumeForgotten
         /\ state'[r] = IF held'[r] = 0 THEN Kept(table, state)[r]
                        ELSE [since |-> held'[r], fired |-> held'[r], on |-> held'[r]]
  BY DEF RestartRules, ResumeForgotten, RestoreRules, Hydrated
<1>3. /\ alerts'[r] \in Seq(1..Len(sample)) /\ Len(alerts'[r]) \in Nat
      /\ Len(alerts'[r]) = Cardinality(owed'[r])
      /\ DOMAIN alerts'[r] = 1..Len(alerts'[r])
      /\ \A n \in DOMAIN alerts'[r] : alerts'[r][n] \in owed'[r]
  BY <1>1, ByTimeShape
<1>4. Logged' = Logged /\ owed'[r] \subseteq Logged
  BY <1>0, <1>1 DEF Logged, RuleInv, Tabled, ActiveRows
<1>5. FromLog(r)' /\ Tabled(r)'
  <2>1. alerts'[r] # <<>> => Len(alerts'[r]) \in DOMAIN alerts'[r]
    BY <1>3
  <2>2. FromLog(r)'
    BY <1>0, <1>3, <1>4, <2>1 DEF FromLog
  <2>3. ~Adrift(r)' => \A j, k \in owed'[r] : j = k
    BY DEF Adrift
  <2>4. Tabled(r)'
    BY <1>1, <1>4, <2>3 DEF Tabled
  <2> QED
    BY <2>2, <2>4
<1>6. Blank(r)'
  <2> SUFFICES ASSUME table[r] = New PROVE Blank(r)'
    BY <1>0 DEF Blank
  <2>1. FirstRows[r] = New /\ reload.rows[r] = New /\ reload.found[r] = 0
    BY DEF RuleInv, Blank
  <2>2. reload'.rows[r] = New /\ reload'.found[r] = 0
    BY <1>0, <2>1, IdleShape
  <2>3. owed'[r] = {}
    BY <1>1, RulesAssumption DEF ActiveRows
  <2>4. alerts'[r] = <<>> /\ held'[r] = 0
    <3>1. Len(alerts'[r]) = 0
      BY <1>3, <2>3, FS_EmptySet
    <3>2. alerts'[r] = <<>>
      BY <1>3, <3>1, EmptySeq
    <3> QED
      BY <1>0, <3>2
  <2>5. state'[r] = NoState
    BY <1>2, <2>4, RulesAssumption DEF Kept
  <2> QED
    BY <1>0, <2>1, <2>2, <2>4, <2>5 DEF Blank
<1>7. Current(r)'
  BY <1>0 DEF Current
<1>8. ASSUME r \notin torn' PROVE Len(alerts'[r]) <= 1
  <2>1. CASE Len(alerts'[r]) > 1 /\ Adrift(r)
    BY <1>8, <2>1 DEF RestartRules, ResumeForgotten, TornBack
  <2>2. CASE ~Adrift(r)
    <3>1. \A j, k \in owed'[r] : j = k
      BY <1>1, <2>2 DEF RuleInv, Tabled, ActiveRows
    <3>2. owed'[r] = {} \/ \E k : owed'[r] = {k}
      BY <3>1
    <3>3. Cardinality(owed'[r]) \in {0, 1}
      BY <3>2, FS_EmptySet, FS_Singleton
    <3> QED
      BY <1>3, <3>3
  <2> QED
    BY <1>3, <2>1, <2>2
<1>9. ASSUME ResumeForgotten, r \notin torn', table[r] \in Configs
      PROVE  /\ Kept(table, state)[r] = state[r] /\ state[r].on = 0
             /\ loaded[r] = table[r] /\ r \notin torn
  <2>1. r \notin torn /\ alerts[r] = <<>> /\ Len(alerts[r]) = 0
    BY <1>9 DEF ResumeForgotten
  <2>2. Agreed(r) /\ loaded[r] = table[r]
    BY <1>9, <2>1 DEF RuleInv, Current
  <2>3. state[r].on = 0
    BY <2>1, <2>2 DEF Agreed
  <2> QED
    BY <1>9, <2>1, <2>2, <2>3 DEF Kept
<1>10. ASSUME r \notin torn', loaded'[r] \in Configs PROVE Agreed(r)'
  <2>1. CASE alerts'[r] = <<>>
    <3>1. held'[r] = 0 /\ Len(alerts'[r]) = 0 /\ DOMAIN alerts'[r] = {}
      BY <1>0, <2>1
    <3>2. state'[r].on = 0
      BY <1>0, <1>2, <1>9, <1>10, <3>1, NoStateShape
    <3>3. Unresolved(r)' = {}
      BY <3>1 DEF Unresolved
    <3> QED
      BY <3>1, <3>2, <3>3 DEF Agreed
  <2>2. CASE alerts'[r] # <<>>
    <3>1. Len(alerts'[r]) = 1 /\ DOMAIN alerts'[r] = {1} /\ alerts'[r][1] \in 1..Len(sample)
      <4>1. Len(alerts'[r]) # 0
        <5>1. \A q \in Seq(1..Len(sample)) : q # <<>> => Len(q) # 0
          BY EmptySeq
        <5> QED
          BY <1>3, <2>2, <5>1
      <4>2. Len(alerts'[r]) = 1
        <5>1. Len(alerts'[r]) <= 1
          BY <1>8, <1>10
        <5>2. Len(alerts'[r]) \in Nat
          BY <1>3
        <5>3. \A m \in Nat : m # 0 /\ m <= 1 => m = 1
          OBVIOUS
        <5> QED
          BY <4>1, <5>1, <5>2, <5>3, Zenon
      <4>3. \A q \in Seq(1..Len(sample)) :
               Len(q) = 1 => DOMAIN q = {1} /\ q[1] \in 1..Len(sample)
        OBVIOUS
      <4> QED
        BY <1>3, <4>2, <4>3
    <3>2. held'[r] = alerts'[r][1] /\ held'[r] # 0
      BY <1>0, <2>2, <3>1
    <3>3. state'[r].on = held'[r] /\ state'[r].fired = held'[r]
      BY <1>2, <3>2
    <3>4. Unresolved(r)' = {1}
      BY <1>0, <3>1 DEF Unresolved
    <3>5. \A j \in 1..Len(alerts'[r]) : j = 1
      BY <3>1
    <3>6. sample'[alerts'[r][1]].time <= sample'[alerts'[r][1]].time
      <4>1. sample'[alerts'[r][1]].time \in Int
        BY <3>1 DEF TimesAreInts, Time
      <4> QED
        BY <4>1
    <3> QED
      BY <3>1, <3>2, <3>3, <3>4, <3>5, <3>6 DEF Agreed, Time
  <2> QED
    BY <2>1, <2>2
<1>11. ASSUME r \notin torn' \cup edited', loaded'[r] \in Configs, loaded'[r].enabled
       PROVE  RunKnown(r)'
  <2>1. CASE state'[r].since = 0 \/ state'[r].on # 0
    BY <2>1 DEF RunKnown
  <2>2. CASE ~(state'[r].since = 0 \/ state'[r].on # 0)
    <3>1. held'[r] = 0 /\ ResumeForgotten /\ state'[r] = Kept(table, state)[r]
      BY <1>2, <2>2, NoStateShape
    <3>2. state'[r] = state[r] /\ loaded'[r] = loaded[r] /\ r \notin torn /\ r \notin edited
      BY <1>0, <1>9, <1>11, <3>1
    <3>3. RunKnown(r)
      BY <1>11, <3>2 DEF RuleInv
    <3> QED
      BY <1>0, <3>2, <3>3 DEF RunKnown
  <2> QED
    BY <2>1, <2>2
<1> QED
  BY <1>5, <1>6, <1>7, <1>10, <1>11 DEF RuleInv

\* Of a rule not yet created there is nothing to disagree on.
LEMMA BlankAgrees ==
    ASSUME RulesShape, NEW r \in Rules, Blank(r), table[r] = New
    PROVE  /\ Agreed(r) /\ Unresolved(r) = {} /\ Listed[r] = 0
           /\ state[r] = NoState /\ alerts[r] = <<>>
<1>1. alerts[r] = <<>> /\ held[r] = 0 /\ state[r] = NoState
  BY DEF Blank
<1>2. Len(alerts[r]) = 0 /\ DOMAIN alerts[r] = {}
  BY <1>1
<1>3. Unresolved(r) = {} /\ state[r].on = 0
  BY <1>1, <1>2, NoStateShape DEF Unresolved
<1>4. Agreed(r)
  BY <1>1, <1>2, <1>3 DEF Agreed
<1> QED
  BY <1>1, <1>3, <1>4, ListedShape

\* An edit and a resume load what is in the table.
LEMMA ReloadKept ==
    ASSUME RulesShape, NEW r \in Rules, RuleInv(r), loaded' = table',
           state' = Hydrated(Kept(table', state), Listed),
           UNCHANGED <<sample, log, alerts, resolved, held, reload, owed, shown, torn>>,
           edited \subseteq edited',
           \/ table'[r] = table[r]
           \/ table[r] = New /\ table'[r] \in Configs
           \/ table[r] \in Configs /\ table'[r] \in Configs /\ r \in edited'
    PROVE  RuleInv(r)'
<1>1. FromLog(r)'
  BY DEF RuleInv, FromLog, Logged
<1>12. Tabled(r)'
  BY DEF RuleInv, Tabled, Adrift, Logged
<1>2. table'[r] = New => table[r] = New
  BY RulesAssumption
<1>3. table[r] = New => Agreed(r) /\ Listed[r] = 0 /\ state[r] = NoState
  BY BlankAgrees DEF RuleInv
<1>4. table[r] = New => state'[r] = NoState
  BY <1>3 DEF Hydrated, Kept
<1>5. Blank(r)'
  BY <1>2, <1>4 DEF RuleInv, Blank
<1>6. Current(r)'
  BY DEF Current
<1>7. ASSUME r \notin torn', loaded'[r] \in Configs
      PROVE  Agreed(r)'
  <2>1. Agreed(r)
    BY <1>3, <1>7 DEF RuleInv, Current
  <2>2. state'[r] = IF Listed[r] = 0 THEN state[r]
                    ELSE [since |-> Listed[r], fired |-> Listed[r], on |-> Listed[r]]
    BY <1>7 DEF Hydrated, Kept
  <2> QED
    BY <2>1, <2>2, HydrateKept
<1>8. ASSUME r \notin torn' \cup edited', loaded'[r] \in Configs, loaded'[r].enabled
      PROVE  RunKnown(r)'
  <2>1. CASE table[r] = New
    BY <1>4, <2>1, NoStateShape DEF RunKnown
  <2>2. CASE table'[r] = table[r]
    <3>1. loaded[r] = table[r] /\ loaded'[r] = loaded[r] /\ Agreed(r) /\ RunKnown(r)
      BY <1>8, <2>2 DEF RuleInv, Current
    <3>2. state'[r] = IF Listed[r] = 0 THEN state[r]
                      ELSE [since |-> Listed[r], fired |-> Listed[r], on |-> Listed[r]]
      BY <1>8 DEF Hydrated, Kept
    <3> QED
      BY <3>1, <3>2, HydrateKept
  <2> QED
    BY <1>8, <2>1, <2>2
<1> QED
  BY <1>1, <1>5, <1>6, <1>7, <1>8, <1>12 DEF RuleInv

\* The steps of a deletion.
LEMMA DeletionKept ==
    ASSUME RulesShape, NEW r \in Rules, RuleInv(r), sample' = sample,
           (\E q \in Rules : DeleteRule(q)) \/ ReadRules \/ ListAlerts
    PROVE  RuleInv(r)'
<1>0. UNCHANGED <<sample, log, loaded, state, alerts, resolved, held, owed, shown,
                  edited, torn>>
  BY DEF DeleteRule, ReadRules, ListAlerts, rowVars
<1>1. FromLog(r)' /\ Tabled(r)'
  BY <1>0 DEF RuleInv, FromLog, Tabled, Adrift, Logged
<1>2. Agreed(r) <=> Agreed(r)'
  BY <1>0 DEF Agreed, Unresolved, Time
<1>3. RunKnown(r) <=> RunKnown(r)'
  BY <1>0 DEF RunKnown
<1>4. Blank(r)' /\ (r \notin torn => Current(r)')
  <2>1. CASE \E q \in Rules : DeleteRule(q)
    <3>1. PICK q \in Rules : DeleteRule(q)
      BY <2>1
    <3>2. /\ table' = [table EXCEPT ![q] = Gone] /\ reload.at = "idle"
          /\ reload'.at = "committed" /\ reload'.rows = FirstRows
          /\ reload'.found = [p \in Rules |-> 0]
      BY <3>1, IdleShape DEF DeleteRule, Reloads
    <3>3. table'[r] = Gone \/ table'[r] = table[r]
      BY <3>2 DEF RulesShape
    <3>4. Blank(r)'
      BY <1>0, <3>2, <3>3, RulesAssumption DEF RuleInv, Blank
    <3>5. r \notin torn => Current(r)'
      BY <1>0, <3>2, <3>3, RulesAssumption DEF RuleInv, Current
    <3> QED
      BY <3>4, <3>5
  <2>2. CASE ReadRules
    <3>1. /\ table' = table /\ reload.at = "committed" /\ reload'.at = "read"
          /\ reload'.rows = table /\ reload'.found = reload.found
      BY <2>2 DEF ReadRules, RulesShape, Reloads
    <3> QED
      BY <1>0, <3>1 DEF RuleInv, Blank, Current
  <2>3. CASE ListAlerts
    <3>1. /\ table' = table /\ reload.at = "loaded"
          /\ \/ reload'.rows = reload.rows /\ reload'.found = Listed
             \/ reload'.rows = FirstRows /\ reload'.found = [p \in Rules |-> 0]
      BY <2>3, IdleShape DEF ListAlerts, RulesShape, Reloads
    <3>2. table[r] = New => Listed[r] = 0
      BY BlankAgrees DEF RuleInv
    <3>3. Blank(r)'
      BY <1>0, <3>1, <3>2 DEF RuleInv, Blank
    <3>4. r \notin torn => Current(r)'
      BY <1>0, <3>1 DEF RuleInv, Current
    <3> QED
      BY <3>3, <3>4
  <2> QED
    BY <2>1, <2>2, <2>3
<1> QED
  BY <1>0, <1>1, <1>2, <1>3, <1>4 DEF RuleInv

LEMMA LoadRulesKept ==
    ASSUME RulesShape, NEW r \in Rules, RuleInv(r), sample' = sample, LoadRules
    PROVE  RuleInv(r)'
<1>0. /\ UNCHANGED <<sample, log, table, alerts, resolved, held, owed, shown, edited>>
      /\ reload.at = "read" /\ loaded' = reload.rows
      /\ state'[r] = IF reload.rows[r] \in Configs THEN state[r] ELSE NoState
      /\ reload'.rows = reload.rows /\ reload'.found = reload.found
      /\ torn \subseteq torn' /\ (reload.rows[r] # table[r] => r \in torn')
  BY DEF LoadRules, Kept, RulesShape, Reloads, rowVars
<1>1. FromLog(r)' /\ Tabled(r)'
  BY <1>0 DEF RuleInv, FromLog, Tabled, Adrift, Logged
<1>2. Blank(r)'
  BY <1>0, RulesAssumption DEF RuleInv, Blank
<1>3. r \notin torn' => Current(r)'
  BY <1>0 DEF Current
<1>4. ASSUME r \notin torn', loaded'[r] \in Configs
      PROVE  /\ Agreed(r)' /\ loaded[r] = loaded'[r] /\ state'[r] = state[r]
  <2>1. loaded[r] = table[r] /\ Agreed(r) /\ state'[r] = state[r] /\ loaded[r] = loaded'[r]
    BY <1>0, <1>4 DEF RuleInv, Current
  <2> QED
    BY <1>0, <2>1 DEF Agreed, Unresolved, Time
<1>5. ASSUME r \notin torn' \cup edited', loaded'[r] \in Configs, loaded'[r].enabled
      PROVE  RunKnown(r)'
  <2>1. loaded[r] = loaded'[r] /\ state'[r] = state[r]
    BY <1>4, <1>5
  <2>2. RunKnown(r)
    BY <1>0, <1>5, <2>1 DEF RuleInv
  <2> QED
    BY <1>0, <2>1, <2>2 DEF RunKnown
<1> QED
  BY <1>1, <1>2, <1>3, <1>4, <1>5 DEF RuleInv

LEMMA HydrateAlertsKept ==
    ASSUME RulesShape, NEW r \in Rules, RuleInv(r), sample' = sample, HydrateAlerts
    PROVE  RuleInv(r)'
<1> DEFINE f == reload.found[r]
<1>0. /\ UNCHANGED <<sample, log, table, loaded, alerts, resolved, held, owed, shown, edited>>
      /\ reload.at = "listed" /\ reload' = Idle
      /\ state'[r] = IF f = 0 THEN state[r] ELSE [since |-> f, fired |-> f, on |-> f]
      /\ torn \subseteq torn' /\ (f \notin {0, Listed[r]} => r \in torn')
  BY DEF HydrateAlerts, Hydrated, rowVars
<1>1. FromLog(r)' /\ Tabled(r)'
  BY <1>0 DEF RuleInv, FromLog, Tabled, Adrift, Logged
<1>2. Blank(r)'
  BY <1>0, IdleShape DEF RuleInv, Blank
<1>3. r \notin torn' => Current(r)'
  BY <1>0 DEF RuleInv, Current
<1>4. ASSUME r \notin torn', Agreed(r)
      PROVE  /\ Agreed(r)'
             /\ RunKnown(r) => RunKnown(r)'
  <2>1. f \in {0, Listed[r]}
    BY <1>0, <1>4
  <2> HIDE DEF f
  <2> QED
    BY <1>0, <1>4, <2>1, HydrateKept
<1> QED
  BY <1>0, <1>1, <1>2, <1>3, <1>4 DEF RuleInv

LEMMA ForgetRulesKept ==
    ASSUME RulesShape, NEW r \in Rules, RuleInv(r), sample' = sample, ForgetRules
    PROVE  RuleInv(r)'
<1>0. /\ UNCHANGED <<sample, log, table, loaded, reload, edited, torn>>
      /\ alerts'[r] = <<>> /\ resolved'[r] = {} /\ held'[r] = 0 /\ state'[r] = NoState
      /\ Len(alerts'[r]) = 0
  BY DEF ForgetRules
<1>1. FromLog(r)'
  BY <1>0 DEF FromLog
<1>2. Blank(r)' /\ (r \notin torn => Current(r)')
  BY <1>0 DEF RuleInv, Blank, Current
<1>3. Unresolved(r)' = {} /\ state'[r].on = 0 /\ state'[r].since = 0
  BY <1>0, NoStateShape DEF Unresolved
<1>4. Agreed(r)' /\ RunKnown(r)'
  BY <1>0, <1>3 DEF Agreed, RunKnown
<1>5. Tabled(r)'
  <2>1. \/ owed'[r] = {} /\ shown'[r] = {{}}
        \/ owed'[r] = owed[r] /\ shown'[r] = shown[r]
    BY DEF ForgetRules, Settle
  <2>2. CASE owed'[r] = {} /\ shown'[r] = {{}}
    BY <2>2 DEF Tabled
  <2>3. CASE owed'[r] = owed[r] /\ shown'[r] = shown[r]
    <3>1. owed[r] \subseteq 1..Len(sample)
      BY DEF RulesShape
    <3>2. ~Adrift(r)' => owed[r] = {}
      BY <1>0, <2>3, <3>1 DEF Adrift
    <3>3. ~Adrift(r)' => ~Adrift(r)
      BY <3>2 DEF Adrift
    <3> QED
      BY <1>0, <2>3, <3>3 DEF RuleInv, Tabled, Logged
  <2> QED
    BY <2>1, <2>2, <2>3
<1> QED
  BY <1>0, <1>1, <1>2, <1>4, <1>5 DEF RuleInv

\* What a pause leaves of the queue is all that the table will show.
LEMMA PauseRulesKept ==
    ASSUME RulesShape, NEW r \in Rules, RuleInv(r), sample' = sample, PauseRules
    PROVE  RuleInv(r)'
<1>0. UNCHANGED <<sample, log, table, loaded, state, alerts, resolved, held, reload,
                  edited, torn>>
  BY DEF PauseRules
<1>1. owed'[r] \in shown[r] /\ shown'[r] = {owed'[r]}
  BY DEF PauseRules, Settle
<1>2. FromLog(r)' /\ Blank(r)' /\ (Current(r) <=> Current(r)')
  BY <1>0 DEF RuleInv, FromLog, Blank, Current, Logged
<1>3. (Agreed(r) <=> Agreed(r)') /\ (RunKnown(r) <=> RunKnown(r)')
  BY <1>0 DEF Agreed, RunKnown, Unresolved, Time
<1>4. Tabled(r)'
  <2>1. ~Adrift(r)' => \A j, k \in owed'[r] : j = k
    BY DEF Adrift
  <2> QED
    BY <1>0, <1>1, <2>1 DEF RuleInv, Tabled, Logged
<1> QED
  BY <1>0, <1>2, <1>3, <1>4 DEF RuleInv

-----------------------------------------------------------------------------
(* The rules on their own.                                                 *)

\* Every step keeps the shape.
LEMMA EditShape ==
    ASSUME RulesShape, sample' = sample, loaded' = table', table' \in [Rules -> Rows],
           state' = Hydrated(Kept(table', state), Listed),
           UNCHANGED <<log, alerts, resolved, held, reload, owed, shown, torn>>,
           persisting' \in BOOLEAN, edits' \in 0..MaxEdits, edited' \subseteq Rules
    PROVE  RulesShape'
<1>1. state' \in [Rules -> States]
  <2>1. Kept(table', state) \in [Rules -> States]
    BY KeptShape DEF RulesShape
  <2> QED
    BY <2>1, ListedShape, HydratedShape
<1> QED
  BY <1>1 DEF RulesShape, States, Founds, Reloads

LEMMA RulesNextShape ==
    ASSUME RulesShape, sample' = sample, RulesNext
    PROVE  RulesShape'
<1>0. edits \in 0..MaxEdits /\ (edits < MaxEdits => edits + 1 \in 0..MaxEdits)
  BY RulesAssumption DEF RulesShape
<1>1. ASSUME NEW r \in Rules, NEW c \in Configs, CreateRule(r, c) \/ UpdateRule(r, c)
      PROVE  RulesShape'
  <2>1. edited' \subseteq Rules
    BY <1>1 DEF CreateRule, UpdateRule, RulesShape
  <2>2. Edit(r, c)
    BY <1>1 DEF CreateRule, UpdateRule
  <2>3. table' = [table EXCEPT ![r] = c] /\ c \in Rows /\ edits' \in 0..MaxEdits
    BY <1>0, <2>2 DEF Edit, Rows
  <2>4. table' \in [Rules -> Rows]
    BY <2>3 DEF RulesShape
  <2>5. UNCHANGED <<owed, shown>> /\ persisting' \in BOOLEAN
    BY <2>2 DEF Edit, rowVars, RulesShape
  <2> QED
    BY <2>1, <2>2, <2>3, <2>4, <2>5, EditShape DEF Edit
<1>2. ASSUME NEW r \in Rules, DeleteRule(r)
      PROVE  RulesShape'
  <2>1. table' \in [Rules -> Rows]
    BY <1>2 DEF DeleteRule, RulesShape, Rows
  <2>2. reload' \in Reloads
    BY <1>2, IdleShape DEF DeleteRule, Reloads
  <2> QED
    BY <1>0, <1>2, <2>1, <2>2 DEF DeleteRule, rowVars, RulesShape, States, Founds, Reloads
<1>3. CASE ReadRules
  <2>1. reload' \in Reloads
    BY <1>3 DEF ReadRules, RulesShape, Reloads
  <2> QED
    BY <1>3, <2>1 DEF ReadRules, rowVars, RulesShape, States, Founds, Reloads
<1>4. CASE LoadRules
  <2>1. reload' \in Reloads /\ reload.rows \in [Rules -> Rows]
    BY <1>4 DEF LoadRules, RulesShape, Reloads
  <2>2. state' \in [Rules -> States]
    BY <1>4, KeptShape DEF LoadRules, RulesShape
  <2> QED
    BY <1>4, <2>1, <2>2 DEF LoadRules, rowVars, RulesShape, States, Founds, Reloads
<1>5. CASE ListAlerts
  <2>1. reload' \in Reloads
    BY <1>5, ListedShape, IdleShape DEF ListAlerts, RulesShape, Reloads
  <2> QED
    BY <1>5, <2>1 DEF ListAlerts, rowVars, RulesShape, States, Founds, Reloads
<1>6. CASE HydrateAlerts
  <2>1. reload' \in Reloads /\ reload.found \in Founds
    BY <1>6, IdleShape DEF HydrateAlerts, RulesShape, Reloads
  <2>2. state' \in [Rules -> States]
    BY <1>6, <2>1, HydratedShape DEF HydrateAlerts, RulesShape
  <2> QED
    BY <1>6, <2>1, <2>2 DEF HydrateAlerts, rowVars, RulesShape, States, Founds, Reloads
<1> QED
  BY <1>1, <1>2, <1>3, <1>4, <1>5, <1>6 DEF RulesNext

LEMMA PauseShape ==
    ASSUME RulesShape, sample' = sample, PauseRules
    PROVE  RulesShape'
<1>1. PICK found \in [Rules -> UNION {shown[r] : r \in Rules}] :
        (\A r \in Rules : found[r] \in shown[r]) /\ Settle(found)
  BY DEF PauseRules
<1>2. \A r \in Rules : found[r] \in SUBSET (1..Len(sample))
  BY <1>1 DEF RulesShape
<1>3. /\ owed' \in [Rules -> SUBSET (1..Len(sample))]
      /\ shown' \in [Rules -> SUBSET SUBSET (1..Len(sample))]
      /\ \A r \in Rules : owed'[r] \in shown'[r]
  BY <1>1, <1>2 DEF Settle
<1> QED
  BY <1>3 DEF PauseRules, RulesShape, States, Founds, Reloads

LEMMA ForgetShape ==
    ASSUME RulesShape, sample' = sample, ForgetRules
    PROVE  RulesShape'
<1>1. NoState \in States /\ <<>> \in Seq(1..Len(sample)) /\ 0 \in 0..Len(sample)
  BY NoStateShape DEF RulesShape
<1>2. /\ owed' \in [Rules -> SUBSET (1..Len(sample))]
      /\ shown' \in [Rules -> SUBSET SUBSET (1..Len(sample))]
      /\ \A r \in Rules : owed'[r] \in shown'[r]
  BY DEF ForgetRules, Settle, RulesShape
<1> QED
  BY <1>1, <1>2 DEF ForgetRules, RulesShape, States, Founds, Reloads

Others == RestartRules \/ PauseRules \/ ForgetRules \/ ResumeForgotten \/ ResumeRules

LEMMA OthersShape ==
    ASSUME RulesShape, sample' = sample, Others
    PROVE  RulesShape'
<1>0. TornBack \subseteq Rules /\ torn \subseteq Rules
  BY DEF TornBack, RulesShape
<1>1. CASE RestartRules
  <2>1. [r \in Rules |-> NoState] \in [Rules -> States] /\ reload' \in Reloads
    BY <1>1, IdleShape, NoStateShape DEF RestartRules
  <2>2. torn' \subseteq Rules
    BY <1>0, <1>1 DEF RestartRules
  <2> QED
    BY <1>1, <2>1, <2>2, RestoreShape DEF RestartRules
<1>2. CASE ResumeForgotten
  <2>1. Kept(table, state) \in [Rules -> States] /\ reload' \in Reloads
    BY <1>2, KeptShape DEF ResumeForgotten, RulesShape
  <2>2. torn' \subseteq Rules
    BY <1>0, <1>2 DEF ResumeForgotten
  <2> QED
    BY <1>2, <2>1, <2>2, RestoreShape DEF ResumeForgotten
<1>3. CASE ResumeRules
  BY <1>3, EditShape DEF ResumeRules, RulesShape
<1> QED
  BY <1>1, <1>2, <1>3, PauseShape, ForgetShape DEF Others

\* A rule fires when it is due, and only in a step that evaluates a sample.
Due(r) ==
    log' # log /\ r \notin edited' \cup torn' /\ Len(alerts'[r]) > Len(alerts[r])
        => DueNow(r)'

LEMMA RulesNextKept ==
    ASSUME RulesShape, sample' = sample, RulesNext, NEW r \in Rules, RuleInv(r)
    PROVE  RuleInv(r)' /\ log' = log
<1>1. ASSUME NEW q \in Rules, NEW c \in Configs, CreateRule(q, c) \/ UpdateRule(q, c)
      PROVE  RuleInv(r)'
  <2>1. /\ Edit(q, c) /\ edited \subseteq edited'
        /\ table[q] = New \/ (table[q] \in Configs /\ q \in edited')
    BY <1>1 DEF CreateRule, UpdateRule
  <2>2. table'[r] = IF r = q THEN c ELSE table[r]
    BY <2>1 DEF Edit, RulesShape
  <2> QED
    BY <2>1, <2>2, ReloadKept DEF Edit, rowVars
<1>2. log' = log
  BY DEF RulesNext, CreateRule, UpdateRule, Edit, DeleteRule, ReadRules, LoadRules,
         ListAlerts, HydrateAlerts
<1> QED
  BY <1>1, <1>2, DeletionKept, LoadRulesKept, HydrateAlertsKept DEF RulesNext

LEMMA OthersKept ==
    ASSUME RulesShape, TimesAreInts, sample' = sample, Others, NEW r \in Rules, RuleInv(r)
    PROVE  RuleInv(r)' /\ log' = log
<1>1. log' = log
  BY DEF Others, RestartRules, PauseRules, ForgetRules, ResumeForgotten, ResumeRules, RestoreRules
<1>2. CASE ResumeRules
  BY <1>2, ReloadKept DEF ResumeRules
<1> QED
  BY <1>1, <1>2, RestoreKept, PauseRulesKept, ForgetRulesKept DEF Others

LEMMA ArrivalKept ==
    ASSUME RulesInv, ArrivalNext
    PROVE  RulesInv' /\ \A r \in Rules : Due(r)
<1>0. sample' = sample /\ RulesShape /\ TimesAreInts /\ \A r \in Rules : RuleInv(r)
  BY DEF ArrivalNext, RulesInv
<1>1. TimesAreInts'
  BY <1>0 DEF TimesAreInts, Time
<1>2. ASSUME NEW i \in DOMAIN sample, Arrive(i)
      PROVE  RulesShape' /\ \A r \in Rules : RuleInv(r)' /\ Due(r)
  <2>1. i \in 1..Len(sample)
    BY <1>0, <1>2 DEF RulesShape
  <2>2. i \notin Logged
    BY <1>2 DEF Arrive, Logged
  <2>3. PICK applied, queued : Apply(i, applied, queued)
    BY <1>2, Zenon DEF Arrive, Evaluate, EvaluateFails
  <2>4. RulesShape'
    BY <1>0, <2>1, <2>3, ApplyShape
  <2> QED
    BY <1>0, <2>1, <2>2, <2>3, <2>4, ApplyKept DEF Due
<1>3. CASE RulesNext
  <2>1. RulesShape'
    BY <1>0, <1>3, RulesNextShape
  <2> QED
    BY <1>0, <1>1, <1>3, <2>1, RulesNextKept DEF RulesInv, Due
<1>4. CASE Others
  BY <1>0, <1>1, <1>4, OthersShape, OthersKept DEF RulesInv, Due
<1> QED
  BY <1>1, <1>2, <1>3, <1>4 DEF ArrivalNext, RulesInv, Others

LEMMA ArrivalsInit == Arrivals => RulesInv
<1> SUFFICES ASSUME Arrivals PROVE RulesInv
  OBVIOUS
<1>1. /\ Len(sample) = MaxSamples /\ MaxSamples \in Nat
      /\ \A i \in 1..MaxSamples : Time(i) = i
  <2>1. sample \in [1..MaxSamples -> [seq : {0}, time : 1..MaxSamples, value : Values]]
    BY DEF Arrivals
  <2>2. MaxSamples \in Nat
    BY RulesAssumption
  <2> DEFINE S == [seq : {0}, time : 1..MaxSamples, value : Values]
  <2>3. sample \in Seq(S)
    <3>1. sample \in [1..MaxSamples -> S]
      BY <2>1
    <3> HIDE DEF S
    <3> QED
      BY <2>2, <3>1, SeqDef
  <2>4. DOMAIN sample = 1..Len(sample) /\ Len(sample) \in Nat
    BY <2>3
  <2>5. DOMAIN sample = 1..MaxSamples
    BY <2>1
  <2> QED
    BY <2>2, <2>4, <2>5 DEF Arrivals
<1>2. RulesShape
  BY <1>1, InitShape DEF Arrivals
<1>3. TimesAreInts
  BY <1>1 DEF TimesAreInts
<1>4. ASSUME NEW r \in Rules
      PROVE  RuleInv(r)
  <2>1. /\ table[r] = FirstRows[r] /\ loaded[r] = FirstRows[r] /\ reload.at = "idle"
        /\ reload.rows[r] = FirstRows[r] /\ reload.found[r] = 0 /\ alerts[r] = <<>>
        /\ resolved[r] = {} /\ held[r] = 0 /\ state[r] = NoState /\ Len(alerts[r]) = 0
        /\ DOMAIN alerts[r] = {}
    BY <1>2, IdleShape DEF Arrivals, RulesInit
  <2>2. Unresolved(r) = {} /\ state[r].on = 0 /\ state[r].since = 0
    BY <1>2, <2>1, NoStateShape DEF Unresolved
  <2>3. FromLog(r) /\ Blank(r) /\ Current(r)
    BY <2>1 DEF FromLog, Blank, Current
  <2>4. Agreed(r) /\ RunKnown(r)
    BY <2>1, <2>2 DEF Agreed, RunKnown
  <2>5. Tabled(r)
    BY DEF Arrivals, RulesInit, Tabled
  <2> QED
    BY <2>3, <2>4, <2>5 DEF RuleInv
<1> QED
  BY <1>2, <1>3, <1>4 DEF RulesInv

LEMMA ArrivalInvariance ==
    RulesInv /\ [ArrivalNext]_<<sample, ruleVars>> => RulesInv' /\ \A r \in Rules : Due(r)
<1>1. ASSUME RulesInv, ArrivalNext
      PROVE  RulesInv' /\ \A r \in Rules : Due(r)
  BY <1>1, ArrivalKept
<1>2. ASSUME RulesInv, UNCHANGED <<sample, ruleVars>>
      PROVE  RulesInv' /\ \A r \in Rules : Due(r)
  <2>1. UNCHANGED <<sample, log, table, loaded, state, alerts, resolved, held, reload,
                    persisting, owed, shown, edits, edited, torn>>
    BY <1>2 DEF ruleVars, rowVars
  <2>2. RulesShape'
    BY <1>2, <2>1 DEF RulesInv, RulesShape, States, Founds, Reloads
  <2>3. TimesAreInts'
    BY <1>2, <2>1 DEF RulesInv, TimesAreInts, Time
  <2>4. ASSUME NEW r \in Rules PROVE RuleInv(r)'
    <3>1. (FromLog(r) <=> FromLog(r)') /\ (Tabled(r) <=> Tabled(r)')
      BY <2>1 DEF FromLog, Tabled, Adrift, Logged
    <3>2. (Blank(r) <=> Blank(r)') /\ (Current(r) <=> Current(r)')
      BY <2>1 DEF Blank, Current
    <3>3. Agreed(r) <=> Agreed(r)'
      BY <2>1 DEF Agreed, Unresolved, Time
    <3>4. RunKnown(r) <=> RunKnown(r)'
      BY <2>1 DEF RunKnown
    <3> QED
      BY <1>2, <2>1, <3>1, <3>2, <3>3, <3>4 DEF RulesInv, RuleInv
  <2> QED
    BY <2>1, <2>2, <2>3, <2>4 DEF RulesInv, Due
<1> QED
  BY <1>1, <1>2

LEMMA RulesInvAgrees == RulesInv => EngineAgrees /\ RulesAreCurrent
<1> SUFFICES ASSUME RulesInv PROVE EngineAgrees /\ RulesAreCurrent
  OBVIOUS
<1>1. EngineAgrees
  <2> SUFFICES ASSUME NEW r \in Rules \ torn, loaded[r] \in Configs
               PROVE  /\ state[r].on = held[r]
                      /\ IF held[r] = 0 THEN Unresolved(r) = {}
                         ELSE \E n \in DOMAIN alerts[r] :
                                Unresolved(r) = {n} /\ alerts[r][n] = held[r]
    BY DEF EngineAgrees
  <2>1. Agreed(r)
    BY DEF RulesInv, RuleInv
  <2>2. held[r] # 0 => Len(alerts[r]) \in DOMAIN alerts[r]
    BY <2>1 DEF Agreed, Unresolved
  <2> QED
    BY <2>1, <2>2 DEF Agreed
<1>2. RulesAreCurrent
  BY DEF RulesAreCurrent, RulesInv, RuleInv, Current
<1> QED
  BY <1>1, <1>2

\* The engine and the manager agree on the alert of a rule, and one at most
\* is unresolved, however samples, failing transitions, a full queue, edits,
\* deletions, pauses, resets and restarts follow each other; a start takes
\* several active rows of a rule for its alerts only when the table was owed
\* another than the active one, and those rules EngineAgrees excepts.
THEOREM RulesStayAgreed == ArrivalSpec => []EngineAgrees
<1> QED
  BY ArrivalsInit, ArrivalInvariance, RulesInvAgrees, PTL DEF ArrivalSpec

\* The engine evaluates the rules of the table, unless a deletion is under
\* way or loaded a list older than an edit's.
THEOREM RulesStayCurrent == ArrivalSpec => []RulesAreCurrent
<1> QED
  BY ArrivalsInit, ArrivalInvariance, RulesInvAgrees, PTL DEF ArrivalSpec

\* An alert is created only by a sample that ends a run of samples which met
\* the condition for the rule's duration, with the cooldown passed.
THEOREM AlertsAreDue == ArrivalSpec => FiresOnlyWhenDue
<1>1. RulesInv /\ [ArrivalNext]_<<sample, ruleVars>> =>
        [log' # log =>
            \A r \in Rules \ (edited' \cup torn') :
                Len(alerts'[r]) > Len(alerts[r]) => DueNow(r)']_ruleVars
  BY ArrivalInvariance, Zenon DEF Due
<1> QED
  BY <1>1, ArrivalsInit, ArrivalInvariance, PTL DEF ArrivalSpec, FiresOnlyWhenDue

-----------------------------------------------------------------------------
(* The rules of ingestion: the type invariant.                             *)

TypeRest ==
    /\ agent.attempt \in 1..MaxAttempts
    /\ \A s \in Slots : request[s].todo \subseteq request[s].batch
    /\ abandoned \subseteq stored
    /\ faults \in 0..MaxFaults

TypeInv == IInv /\ RulesShape /\ TypeRest

LEMMA TypeInvTypes == TypeInv => TypeOK
<1> SUFFICES ASSUME TypeInv PROVE TypeOK
  OBVIOUS
<1>1. RulesTypeOK
  BY ShapeTypes DEF TypeInv
<1>2. Shape
  BY DEF TypeInv, IInv
<1>3. boot \in 1..(MaxSamples + 1)
  <2>1. Len(sample) \in Nat /\ MaxSamples \in Nat
    BY <1>2, RulesAssumption DEF Shape
  <2> QED
    BY <1>2, <2>1 DEF Shape
<1>4. /\ agent.at \in {"collecting", "flushing", "ended"} \cup Slots
      /\ agent.last \in Nat /\ {agent.stopping, agent.final} \subseteq BOOLEAN
  BY <1>2 DEF Shape, Agents
<1>5. \A s \in Slots : request[s].at \in {"free", "sent", "processing"}
                       /\ request[s].batch \subseteq 1..Len(sample)
  BY <1>2 DEF Shape, Handlers, Samples
<1> QED
  BY <1>1, <1>2, <1>3, <1>4, <1>5 DEF TypeOK, TypeInv, TypeRest, Shape, Samples

\* The rules change with samples and restarts only.
LEMMA RulesMove ==
    ASSUME IInv, RulesShape, Next
    PROVE  RulesShape'
<1>0. IInv'
  BY NextKept
<1>1. Len(sample) \in Nat /\ Len(sample') \in Nat
  BY <1>0 DEF IInv, Shape
<1>2. ASSUME NEW s \in Slots, NEW todo \in SUBSET (1..Len(sample)), todo # {},
             ProcessFirst(s, todo), sample' = sample
      PROVE  RulesShape'
  <2>1. First(todo) \in 1..Len(sample)
    <3>1. todo \subseteq Nat
      BY <1>1
    <3>2. First(todo) \in todo
      BY <1>2, <3>1, FirstIsMember
    <3> QED
      BY <3>2
  <2>2. UNCHANGED ruleVars \/ \E applied, queued : Apply(First(todo), applied, queued)
    BY <1>2, Zenon DEF ProcessFirst, Evaluate, EvaluateFails
  <2> QED
    BY <1>1, <1>2, <2>1, <2>2, ApplyShape, GrowShape
<1>3. ASSUME NEW v \in Values, Collect(v) PROVE RulesShape'
  <2>1. UNCHANGED ruleVars /\ Len(sample') = Len(sample) + 1
    BY <1>3 DEF Collect, IInv, Shape
  <2> QED
    BY <1>1, <2>1, GrowShape
<1>4. ASSUME UNCHANGED <<sample, ruleVars>> PROVE RulesShape'
  BY <1>1, <1>4, GrowShape
<1>5. ASSUME NEW s \in Slots, Persist(s) PROVE RulesShape'
  <2>1. /\ sample' = sample /\ Fresh(request[s].batch) \subseteq 1..Len(sample)
        /\ \/ Fresh(request[s].batch) # {} /\ ProcessFirst(s, Fresh(request[s].batch))
           \/ UNCHANGED ruleVars
    BY <1>5 DEF Persist, Fresh, IInv, Shape, Samples
  <2> QED
    BY <1>2, <1>4, <2>1
<1>6. ASSUME NEW s \in Slots, Continue(s) PROVE RulesShape'
  <2>1. stored \subseteq 1..Len(sample) /\ request[s].todo \subseteq stored
    BY DEF IInv, Shape, Samples, TodoIsNew
  <2>2. /\ sample' = sample
        /\ \/ request[s].todo # {} /\ ProcessFirst(s, request[s].todo)
           \/ UNCHANGED ruleVars
    BY <1>6 DEF Continue
  <2> QED
    BY <1>2, <1>4, <2>1, <2>2
<1>7. CASE CrashAndRestart
  <2>1. RestartRules /\ sample' = sample
    BY <1>7 DEF CrashAndRestart
  <2> QED
    BY <2>1, OthersShape DEF Others
<1>8. ASSUME NEW s \in Slots, Post(s) \/ Refused(s) \/ Lose(s)
      PROVE  UNCHANGED <<sample, ruleVars>>
  BY <1>8 DEF Post, Refused, LimitRate, Reject, Invalidate, FailToStore, Refuse, Lose, agentVars
<1>9. ASSUME Signal \/ FinalFlush \/ PostFails \/ Reboot \/ \E t \in 0..(clock - 1) : SetBack(t)
      PROVE  UNCHANGED <<sample, ruleVars>>
  BY <1>9 DEF Signal, FinalFlush, PostFails, Reboot, SetBack
<1> QED
  BY <1>3, <1>4, <1>5, <1>6, <1>7, <1>8, <1>9 DEF Next

\* The attempts of a flush are within their bound.
LEMMA AttemptKept ==
    ASSUME agent \in Agents, agent.attempt \in 1..MaxAttempts
    PROVE  /\ Returned(agent).attempt \in 1..MaxAttempts
           /\ Retried(agent).attempt \in 1..MaxAttempts
           /\ \A at : [agent EXCEPT !.at = at].attempt = agent.attempt
<1>0. /\ 1 \in 1..MaxAttempts
      /\ agent.attempt # MaxAttempts => agent.attempt + 1 \in 1..MaxAttempts
  BY IngestionAssumption
<1>1. Returned(agent).attempt = 1
  BY DEF Returned, Agents
<1>2. agent.attempt # MaxAttempts => Retried(agent).attempt = agent.attempt + 1
  BY DEF Retried, Agents
<1>3. agent.attempt = MaxAttempts => Retried(agent) = Returned(agent)
  BY DEF Retried
<1>4. \A at : [agent EXCEPT !.at = at].attempt = agent.attempt
  BY DEF Agents
<1> QED
  BY <1>0, <1>1, <1>2, <1>3, <1>4

LEMMA RespondAttempt ==
    ASSUME IInv, TypeRest, NEW s \in Slots, NEW code \in Codes, Respond(s, code)
    PROVE  agent'.attempt \in 1..MaxAttempts
<1>0. agent \in Agents /\ agent.attempt \in 1..MaxAttempts
  BY DEF IInv, Shape, TypeRest
<1>1. \/ agent' = agent
      \/ agent' = Returned(agent)
      \/ agent' = Retried(agent)
      \/ agent' = [agent EXCEPT !.at = "ended"]
  BY DEF Respond, Receive, Codes
<1> QED
  BY <1>0, <1>1, AttemptKept

\* A handler keeps a part of its batch to process, and gives up what is
\* stored.
LEMMA RespondTypes ==
    ASSUME IInv, TypeRest, NEW s \in Slots, NEW code \in Codes, Respond(s, code),
           stored \subseteq stored', abandoned' \subseteq stored', faults' = faults
    PROVE  TypeRest'
<1>1. \A t \in Slots : request'[t].todo \subseteq request'[t].batch
  <2>1. request \in [Slots -> Handlers] /\ request' = [request EXCEPT ![s] = Free]
    BY RespondFrees DEF IInv, Shape
  <2>2. \A t \in Slots : request'[t] = request[t] \/ request'[t] = Free
    BY <2>1
  <2> QED
    BY <2>2, FreeIsHandler DEF TypeRest
<1> QED
  BY <1>1, RespondAttempt DEF TypeRest

LEMMA ProcessTypes ==
    ASSUME IInv, TypeRest, NEW s \in Slots, NEW todo \in SUBSET Nat,
           todo \subseteq request[s].batch, todo \subseteq stored',
           stored \subseteq stored', faults' = faults, ProcessFirst(s, todo)
    PROVE  TypeRest'
<1> DEFINE i == First(todo)
<1>0. abandoned \subseteq stored'
  BY DEF TypeRest
<1>1. CASE Respond(s, 500) /\ abandoned' \subseteq abandoned \cup todo
  BY <1>0, <1>1, RespondTypes DEF Codes
<1>2. CASE /\ request' = [request EXCEPT ![s].at = "processing", ![s].todo = todo \ {i}]
           /\ UNCHANGED <<agent, abandoned>>
  <2> HIDE DEF i
  <2>1. request \in [Slots -> Handlers]
    BY DEF IInv, Shape
  <2>2. \A t \in Slots : t # s => request'[t] = request[t]
    BY <1>2, <2>1
  <2>3. request'[s].todo = todo \ {i} /\ request'[s].batch = request[s].batch
    BY <1>2, <2>1 DEF Handlers
  <2>4. \A t \in Slots : request'[t].todo \subseteq request'[t].batch
    BY <2>2, <2>3 DEF TypeRest
  <2> QED
    BY <1>0, <1>2, <2>4 DEF TypeRest
<1>3. \/ Respond(s, 500) /\ abandoned' \subseteq abandoned \cup todo
      \/ /\ request' = [request EXCEPT ![s].at = "processing", ![s].todo = todo \ {i}]
         /\ UNCHANGED <<agent, abandoned>>
  BY DEF ProcessFirst
<1> QED
  BY <1>1, <1>2, <1>3

LEMMA AgentTypes ==
    ASSUME IInv, TypeRest,
           \/ Signal \/ FinalFlush \/ PostFails \/ Reboot
           \/ \E v \in Values : Collect(v)
           \/ \E t \in 0..(clock - 1) : SetBack(t)
    PROVE  TypeRest'
<1>0. agent \in Agents /\ agent.attempt \in 1..MaxAttempts
  BY DEF IInv, Shape, TypeRest
<1>1. UNCHANGED <<request, stored, abandoned>>
  BY DEF Signal, FinalFlush, PostFails, Reboot, Collect, SetBack, serverVars
<1>2. faults' \in 0..MaxFaults
  <2>1. faults' = faults \/ (faults < MaxFaults /\ faults' = faults + 1)
    BY DEF Signal, FinalFlush, PostFails, Reboot, Collect, SetBack, Faulty
  <2> QED
    BY <2>1, IngestionAssumption DEF TypeRest
<1>3. agent'.attempt \in 1..MaxAttempts
  <2>1. CASE Signal \/ FinalFlush
    BY <1>0, <2>1 DEF Signal, FinalFlush, Agents
  <2>2. CASE PostFails
    BY <1>0, <2>2, AttemptKept DEF PostFails
  <2>3. CASE Reboot
    BY <2>3, IngestionAssumption DEF Reboot, Booted
  <2>4. CASE \E v \in Values : Collect(v)
    BY <1>0, <2>4 DEF Collect, Agents
  <2>5. CASE \E t \in 0..(clock - 1) : SetBack(t)
    BY <1>0, <2>5 DEF SetBack
  <2> QED
    BY <2>1, <2>2, <2>3, <2>4, <2>5
<1> QED
  BY <1>1, <1>2, <1>3 DEF TypeRest

LEMMA ServerTypes ==
    ASSUME IInv, TypeRest, NEW s \in Slots,
           Post(s) \/ Refused(s) \/ Lose(s) \/ Persist(s) \/ Continue(s)
    PROVE  TypeRest'
<1>0. /\ agent \in Agents /\ request \in [Slots -> Handlers]
      /\ \A t \in Slots : request[t].batch \subseteq Nat /\ request[t].todo \subseteq Nat
  BY DEF IInv, Shape, Handlers
<1>1. CASE Post(s)
  <2>1. \A t \in Slots : request'[t] = request[t] \/ request'[t].todo = {}
    BY <1>0, <1>1 DEF Post
  <2>2. request' = [request EXCEPT ![s] = [at |-> "sent", batch |-> pending, todo |-> {}]]
        /\ UNCHANGED <<stored, abandoned, faults>> /\ agent' = [agent EXCEPT !.at = s]
    BY <1>1 DEF Post
  <2>3. agent'.attempt = agent.attempt
    BY <1>0, <2>2 DEF Agents
  <2> QED
    BY <2>1, <2>2, <2>3 DEF TypeRest
<1>2. CASE Refused(s)
  <2>1. PICK code \in Codes : Refuse(s, code)
    BY <1>2 DEF Refused, LimitRate, Reject, Invalidate, FailToStore, Codes
  <2> QED
    BY <2>1, RespondTypes DEF Refuse, TypeRest
<1>3. CASE Lose(s)
  <2>1. request' = [request EXCEPT ![s] = Free]
        /\ UNCHANGED <<agent, stored, abandoned>>
    BY <1>3 DEF Lose, agentVars
  <2>2. \A t \in Slots : request'[t] = request[t] \/ request'[t] = Free
    BY <1>0, <2>1
  <2>3. faults' = faults
    BY <1>3 DEF Lose
  <2> QED
    BY <2>1, <2>2, <2>3, FreeIsHandler DEF TypeRest
<1>4. CASE Persist(s)
  <2> DEFINE new == Fresh(request[s].batch)
  <2>1. new \subseteq request[s].batch
    BY DEF Fresh
  <2>2. /\ stored' = stored \cup new /\ faults' = faults
        /\ \/ ProcessFirst(s, new)
           \/ Respond(s, 200) /\ abandoned' = abandoned
    BY <1>4 DEF Persist
  <2> HIDE DEF new
  <2>3. CASE ProcessFirst(s, new)
    BY <1>0, <2>1, <2>2, <2>3, ProcessTypes
  <2>4. CASE Respond(s, 200) /\ abandoned' = abandoned
    BY <2>2, <2>4, RespondTypes DEF Codes, TypeRest
  <2> QED
    BY <2>2, <2>3, <2>4
<1>5. CASE Continue(s)
  <2>1. /\ stored' = stored /\ faults' = faults
        /\ \/ ProcessFirst(s, request[s].todo)
           \/ Respond(s, 200) /\ abandoned' = abandoned
    BY <1>5 DEF Continue
  <2>2. request[s].todo \subseteq request[s].batch /\ request[s].todo \subseteq stored
    BY DEF TypeRest, IInv, TodoIsNew
  <2>3. CASE ProcessFirst(s, request[s].todo)
    BY <1>0, <2>1, <2>2, <2>3, ProcessTypes
  <2>4. CASE Respond(s, 200) /\ abandoned' = abandoned
    BY <2>1, <2>4, RespondTypes DEF Codes, TypeRest
  <2> QED
    BY <2>1, <2>3, <2>4
<1> QED
  BY <1>1, <1>2, <1>3, <1>4, <1>5

LEMMA CrashTypes ==
    ASSUME IInv, TypeRest, CrashAndRestart
    PROVE  TypeRest'
<1>0. agent \in Agents /\ agent.attempt \in 1..MaxAttempts
  BY DEF IInv, Shape, TypeRest
<1>1. /\ stored' = stored /\ faults < MaxFaults /\ faults' = faults + 1
      /\ request' = [s \in Slots |-> Free]
      /\ abandoned' = abandoned \cup UNION {request[s].todo : s \in Slots}
      /\ agent' = Retried(agent) \/ agent' = agent
  BY DEF CrashAndRestart, Faulty
<1>2. abandoned' \subseteq stored'
  BY <1>1 DEF IInv, TodoIsNew, TypeRest
<1>3. agent'.attempt \in 1..MaxAttempts
  BY <1>0, <1>1, AttemptKept
<1>4. faults' \in 0..MaxFaults
  BY <1>1, IngestionAssumption DEF TypeRest
<1> QED
  BY <1>1, <1>2, <1>3, <1>4, FreeIsHandler DEF TypeRest

LEMMA TypeInvInit == Init => TypeInv
<1> SUFFICES ASSUME Init PROVE TypeInv
  OBVIOUS
<1>1. IInv
  BY InitKept
<1>2. RulesShape
  <2>1. Len(sample) \in Nat
    BY DEF Init
  <2> QED
    BY <2>1, InitShape DEF Init
<1>3. TypeRest
  BY FreeIsHandler, IngestionAssumption DEF Init, TypeRest, Booted
<1> QED
  BY <1>1, <1>2, <1>3 DEF TypeInv

LEMMA TypeInvKept == TypeInv /\ [Next]_vars => TypeInv'
<1> SUFFICES ASSUME TypeInv, [Next]_vars PROVE TypeInv'
  OBVIOUS
<1>0. IInv /\ RulesShape /\ TypeRest
  BY DEF TypeInv
<1>1. IInv'
  BY <1>0, NextKept
<1>2. RulesShape'
  <2>1. CASE UNCHANGED vars
    <3>1. UNCHANGED ruleVars /\ sample' = sample /\ Len(sample) \in Nat
      BY <1>0, <2>1 DEF vars, RulesShape
    <3> QED
      BY <1>0, <3>1, GrowShape
  <2> QED
    BY <1>0, <2>1, RulesMove
<1>3. TypeRest'
  <2>1. CASE UNCHANGED vars
    BY <1>0, <2>1 DEF TypeRest, vars
  <2> QED
    BY <1>0, <2>1, AgentTypes, ServerTypes, CrashTypes DEF Next
<1> QED
  BY <1>1, <1>2, <1>3 DEF TypeInv

\* The agent, the handlers, the table and the rules keep their types.
THEOREM TypeCorrect == Spec => []TypeOK
<1> QED
  BY TypeInvInit, TypeInvKept, TypeInvTypes, PTL DEF Spec

=============================================================================
