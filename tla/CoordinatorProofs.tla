--------------------------- MODULE CoordinatorProofs ---------------------------
(***************************************************************************)
(* Proofs about Coordinator for any plan, any number of concurrent callers *)
(* and any number of failures, wake-ups and restarts.                      *)
(*                                                                         *)
(* Every save is a swap of the whole row, so a caller that saves holds the *)
(* row itself.  For the limits of the side effects, what has to be known   *)
(* beyond the row is therefore only what an executing caller remembers:    *)
(* its nodes run and its plan is open.  For the feedback it is also what   *)
(* every old copy of the row still holds, for its caller may tell it.      *)
(***************************************************************************)
EXTENDS Coordinator, FiniteSetTheorems, TLAPS

(* The parts of a row and of a call the proofs speak of.  What the pending *)
(* feedback is made of does not matter here.                               *)
IsRow(r) ==
  /\ r = [status |-> r.status, node |-> r.node, attempts |-> r.attempts,
          linked |-> r.linked, pending |-> r.pending, version |-> r.version]
  /\ r.node \in [Nodes -> NodeStatus]
  /\ r.attempts \in [Nodes -> Nat]

IsCall(c) ==
  /\ c = [pc |-> c.pc, seen |-> c.seen, at |-> c.at, nodes |-> c.nodes,
          last |-> c.last]
  /\ c.nodes \subseteq Nodes
  /\ c.pc = "executing" =>
       /\ c.seen.status = "running"
       /\ \A n \in c.nodes : c.seen.node[n] = "running"

Limit(n) == IF n \in Retryable THEN RetryLimit[n] + 1 ELSE 1

(* A pending node can still be started within its limit. *)
WithinLimit(r) ==
  \A n \in Nodes \ TaskNodes :
    /\ r.attempts[n] <= Limit(n)
    /\ r.node[n] = "pending" => r.attempts[n] + 1 <= Limit(n)

InOrderOfEdges(r) ==
  \A e \in Before : r.attempts[e[2]] > 0 => r.node[e[1]] = "succeeded"

Calls == call = [a \in Callers |-> call[a]] /\ \A a \in Callers : IsCall(call[a])

IInv ==
  /\ IsRow(row)
  /\ ran = row.attempts
  /\ Calls
  /\ WithinLimit(row)
  /\ InOrderOfEdges(row)

LEMMA LimitIsNat == ASSUME NEW n \in Nodes PROVE Limit(n) \in Nat /\ Limit(n) >= 1
PROOF BY CoordinatorAssumption DEF Limit

LEMMA EdgesAreNodes == ASSUME NEW e \in Before PROVE e[1] \in Nodes /\ e[2] \in Nodes
PROOF BY CoordinatorAssumption

LEMMA CallersStartIdle == IsCall(Idle)
PROOF BY DEF IsCall, Idle

LEMMA FlushingIsACall ==
  ASSUME NEW seen, NEW at, NEW last PROVE IsCall(Flushing(seen, at, last))
PROOF BY DEF IsCall, Flushing

(* A caller that goes on is still a call. *)
LEMMA GoingOn ==
  ASSUME NEW c, IsCall(c), NEW d, NEW seen,
         d = [c EXCEPT !.pc = "flush", !.seen = seen]
  PROVE  IsCall(d)
PROOF
  <1>1. d.pc = "flush"
        BY DEF IsCall
  <1>2. QED
        BY <1>1 DEF IsCall

LEMMA StartingNodes ==
  ASSUME NEW c, IsCall(c), NEW d, NEW seen, NEW nodes \in SUBSET Nodes,
         d = [c EXCEPT !.pc = "executing", !.seen = seen, !.nodes = nodes],
         seen.status = "running", \A n \in nodes : seen.node[n] = "running"
  PROVE  IsCall(d)
PROOF
  <1>1. d.seen = seen /\ d.nodes = nodes
        BY DEF IsCall
  <1>2. QED
        BY <1>1 DEF IsCall

(* Callers that change leave the calls well formed when each new one is.   *)
LEMMA OneCall ==
  ASSUME Calls, NEW a \in Callers, NEW c, IsCall(c),
         call' = [call EXCEPT ![a] = c]
  PROVE  Calls'
PROOF BY DEF Calls

LEMMA InitIsSafe == Init => IInv
PROOF
  <1> SUFFICES ASSUME Init PROVE IInv
      OBVIOUS
  <1>1. IsRow(row) /\ ran = row.attempts
        BY DEF Init, Absent, IsRow, NodeStatus
  <1>2. Calls
        BY CallersStartIdle DEF Init, Calls
  <1>3. WithinLimit(row)
        BY LimitIsNat DEF Init, Absent, WithinLimit
  <1>4. InOrderOfEdges(row)
        BY EdgesAreNodes DEF Init, Absent, InOrderOfEdges
  <1>5. QED
        BY <1>1, <1>2, <1>3, <1>4 DEF IInv

(* A save that neither starts a node nor moves one back or off success.    *)
Harmless(r) ==
  /\ IsRow(r)
  /\ r.attempts = row.attempts
  /\ \A n \in Nodes :
       /\ row.node[n] = "succeeded" => r.node[n] = "succeeded"
       /\ n \notin TaskNodes /\ r.node[n] = "pending" =>
            row.node[n] = "pending" \/ row.attempts[n] + 1 <= Limit(n)

LEMMA HarmlessSave ==
  ASSUME IInv, Calls', Harmless(row'), ran' = ran
  PROVE  IInv'
PROOF
  <1>1. WithinLimit(row')
        BY DEF IInv, Harmless, WithinLimit
  <1>2. InOrderOfEdges(row')
        BY EdgesAreNodes DEF IInv, Harmless, InOrderOfEdges
  <1>3. QED
        BY <1>1, <1>2 DEF IInv, Harmless

LEMMA NoSave ==
  ASSUME IInv, Calls', row' = row, ran' = ran
  PROVE  IInv'
PROOF BY DEF IInv
-----------------------------------------------------------------------------
(***************************************************************************)
(* The actions, those that save the row first.                             *)
(***************************************************************************)
LEMMA SubmitIsSafe == ASSUME IInv, Submit PROVE IInv'
PROOF
  <1>1. Calls'
        BY DEF IInv, Calls, Submit
  <1>2. Harmless(row')
        BY DEF IInv, Submit, Absent, Harmless, IsRow
  <1>3. QED
        BY <1>1, <1>2, HarmlessSave DEF Submit

LEMMA AcknowledgeIsSafe ==
  ASSUME IInv, NEW a \in Callers, Acknowledge(a) PROVE IInv'
PROOF
  <1>1. row' = [row EXCEPT !.pending = Tail(@), !.version = @ + 1]
        BY DEF Acknowledge, Fresh
  <1>2. Harmless(row')
        BY <1>1 DEF IInv, Harmless, IsRow
  <1>3. PICK c : c = [call[a] EXCEPT !.pc = "flush", !.seen = row']
        OBVIOUS
  <1>4. call' = [call EXCEPT ![a] = c]
        BY <1>3 DEF Acknowledge, IInv, Calls
  <1>5. Calls'
        BY <1>3, <1>4, GoingOn, OneCall DEF IInv, Calls
  <1>6. QED
        BY <1>2, <1>5, HarmlessSave DEF Acknowledge

LEMMA ExpireIsSafe ==
  ASSUME IInv, NEW a \in Callers, Expire(a) PROVE IInv'
PROOF
  <1>1. row' = [row EXCEPT !.status = "expired", !.version = @ + 1,
                           !.pending = Append(@, Plan("expired"))]
        BY DEF Expire, Fresh
  <1>2. Harmless(row')
        BY <1>1 DEF IInv, Harmless, IsRow
  <1>3. Calls'
        BY FlushingIsACall, OneCall DEF IInv, Expire
  <1>4. QED
        BY <1>2, <1>3, HarmlessSave DEF Expire

LEMMA MissDeadlineIsSafe ==
  ASSUME IInv, NEW a \in Callers, MissDeadline(a) PROVE IInv'
PROOF
  <1> DEFINE late == Late(row, call[a].at)
             node == [n \in Nodes |-> IF n \in late THEN "failed" ELSE row.node[n]]
  <1>1. PICK told : row' = [row EXCEPT !.status = "failed", !.version = @ + 1,
                                       !.node = node, !.pending = told]
        BY DEF MissDeadline, Fresh
  <1>2. \A n \in late : row.node[n] = "pending"
        BY DEF Late, Runnable
  <1>3. node \in [Nodes -> NodeStatus]
        BY DEF IInv, IsRow, NodeStatus
  <1> HIDE DEF late
  <1>4. Harmless(row')
        BY <1>1, <1>2, <1>3 DEF IInv, Harmless, IsRow
  <1>5. Calls'
        BY FlushingIsACall, OneCall DEF IInv, MissDeadline
  <1>6. QED
        BY <1>4, <1>5, HarmlessSave DEF MissDeadline

LEMMA SelectIsSafe ==
  ASSUME IInv, NEW a \in Callers, Select(a) PROVE IInv'
PROOF
  <1> DEFINE chosen == Selected(row)
             node == [n \in Nodes |-> IF n \in chosen THEN "running" ELSE row.node[n]]
             attempts == [n \in Nodes |-> IF n \in chosen THEN row.attempts[n] + 1
                                          ELSE row.attempts[n]]
  <1>1. row' = [row EXCEPT !.status = "running", !.version = @ + 1,
                           !.node = node, !.attempts = attempts]
        BY DEF Select, Fresh
  <1>2. /\ chosen \subseteq Nodes
        /\ \A n \in chosen :
             /\ row.node[n] = "pending"
             /\ \A e \in Before : e[2] = n => row.node[e[1]] = "succeeded"
        BY DEF Selected, Runnable
  <1>3. PICK c : /\ c = [call[a] EXCEPT !.pc = "executing", !.seen = row',
                                        !.nodes = chosen]
                 /\ call' = [call EXCEPT ![a] = c]
        BY DEF Select, Fresh, IInv, Calls
  <1>4. ran' = [n \in Nodes |-> IF n \in chosen THEN ran[n] + 1 ELSE ran[n]]
        BY DEF Select, Fresh
  <1> HIDE DEF chosen
  <1>5. node \in [Nodes -> NodeStatus] /\ attempts \in [Nodes -> Nat]
        BY DEF IInv, IsRow, NodeStatus
  <1>6. IsRow(row') /\ row'.node = node /\ row'.attempts = attempts
                    /\ row'.status = "running"
        BY <1>1, <1>5 DEF IInv, IsRow
  <1>7. ran' = row'.attempts
        BY <1>4, <1>6 DEF IInv
  <1>8. Calls'
    <2>1. \A n \in chosen : row'.node[n] = "running"
          BY <1>2, <1>6
    <2>2. IsCall(call[a]) /\ row'.status = "running" /\ chosen \in SUBSET Nodes
          BY <1>2, <1>6 DEF IInv, Calls
    <2> HIDE DEF node, attempts
    <2>3. IsCall(c)
          BY <1>3, <2>1, <2>2, StartingNodes
    <2>4. QED
          BY <1>3, <2>3, OneCall DEF IInv
  <1>9. WithinLimit(row')
        BY <1>2, <1>6, LimitIsNat DEF IInv, WithinLimit, IsRow
  <1>10. InOrderOfEdges(row')
        BY <1>2, <1>6, EdgesAreNodes DEF IInv, InOrderOfEdges, IsRow
  <1>11. QED
        BY <1>6, <1>7, <1>8, <1>9, <1>10 DEF IInv

LEMMA FinishIsSafe ==
  ASSUME IInv, NEW a \in Callers, NEW outcome \in [call[a].nodes -> Outcomes],
         Finish(a, outcome)
  PROVE  IInv'
PROOF
  <1> DEFINE node == [n \in Nodes |-> IF n \in call[a].nodes
                        THEN Settled(row, n, outcome[n], call[a].at) ELSE row.node[n]]
  <1>1. PICK linked, told, status :
          row' = [row EXCEPT !.status = status, !.node = node, !.linked = linked,
                             !.pending = told, !.version = @ + 1]
        BY DEF Finish, Fresh
  <1>2. \A n \in call[a].nodes : n \in Nodes /\ row.node[n] = "running"
        BY DEF Finish, Fresh, IInv, Calls, IsCall
  <1>3. \A n \in call[a].nodes :
          /\ node[n] \in NodeStatus
          /\ node[n] = "pending" => row.attempts[n] <= RetryLimit[n] /\ n \in Retryable
        BY <1>2 DEF Settled, Outcomes, NodeStatus
  <1>4. node \in [Nodes -> NodeStatus]
        BY <1>3 DEF IInv, IsRow
  <1>5. \A n \in Nodes \ TaskNodes : node[n] = "pending" =>
          row.node[n] = "pending" \/ row.attempts[n] + 1 <= Limit(n)
    <2> SUFFICES ASSUME NEW n \in Nodes \ TaskNodes, n \in call[a].nodes,
                        node[n] = "pending"
                 PROVE  row.attempts[n] + 1 <= Limit(n)
        OBVIOUS
    <2>1. row.attempts[n] \in Nat /\ RetryLimit[n] \in Nat
        BY CoordinatorAssumption DEF IInv, IsRow
    <2>2. row.attempts[n] <= RetryLimit[n] /\ n \in Retryable
        BY <1>3
    <2>3. QED
        BY <2>1, <2>2 DEF Limit
  <1>6. \A n \in Nodes : row.node[n] = "succeeded" => node[n] = "succeeded"
        BY <1>2
  <1> HIDE DEF node
  <1>7. Harmless(row')
        BY <1>1, <1>4, <1>5, <1>6 DEF IInv, Harmless, IsRow
  <1>8. Calls'
        BY FlushingIsACall, OneCall DEF IInv, Finish
  <1>9. QED
        BY <1>7, <1>8, HarmlessSave DEF Finish

LEMMA WakeIsSafe == ASSUME IInv, Wake PROVE IInv'
PROOF
  <1> DEFINE node == [n \in Nodes |-> IF row.node[n] = "waiting" /\ n \in TaskNodes
                                      THEN "pending" ELSE row.node[n]]
  <1>1. row' = [row EXCEPT !.version = @ + 1, !.node = node]
        BY DEF Wake
  <1>2. node \in [Nodes -> NodeStatus]
        BY DEF IInv, IsRow, NodeStatus
  <1>3. Harmless(row')
        BY <1>1, <1>2 DEF IInv, Harmless, IsRow
  <1>4. Calls'
        BY DEF IInv, Calls, Wake
  <1>5. QED
        BY <1>3, <1>4, HarmlessSave DEF Wake

(* Steps of a caller or of the surroundings that save nothing.             *)
LEMMA CallerStepIsSafe ==
  ASSUME IInv, NEW a \in Callers,
         BeginAdvance(a) \/ Emit(a) \/ Return(a) \/ Conflict(a) \/ Abandon(a)
           \/ Start(a)
  PROVE  IInv'
PROOF
  <1>1. CASE BeginAdvance(a)
        BY <1>1, FlushingIsACall, OneCall, NoSave DEF IInv, BeginAdvance
  <1>2. CASE Emit(a)
    <2>1. PICK c : c = [call[a] EXCEPT !.pc = "emitted"] /\ call' = [call EXCEPT ![a] = c]
          BY <1>2 DEF Emit, IInv, Calls
    <2>2. c.pc = "emitted"
          BY <2>1 DEF IInv, Calls, IsCall
    <2>3. IsCall(c)
          BY <2>1, <2>2 DEF IInv, Calls, IsCall
    <2>4. QED
          BY <1>2, <2>1, <2>3, OneCall, NoSave DEF IInv, Emit
  <1>3. CASE Return(a) \/ Conflict(a) \/ Abandon(a)
        BY <1>3, CallersStartIdle, OneCall, NoSave
           DEF IInv, Return, Conflict, Abandon
  <1>4. CASE Start(a)
        BY <1>4, FlushingIsACall, OneCall, NoSave DEF IInv, Calls, Start
  <1>5. QED
        BY <1>1, <1>2, <1>3, <1>4

LEMMA SurroundingsAreSafe ==
  ASSUME IInv, Tick \/ Crash \/ UNCHANGED vars PROVE IInv'
PROOF
  <1>1. Calls'
        BY CallersStartIdle DEF IInv, Calls, Tick, Crash, vars
  <1>2. QED
        BY <1>1, NoSave DEF Tick, Crash, vars

LEMMA StepIsSafe == IInv /\ [Next]_vars => IInv'
PROOF
  <1> SUFFICES ASSUME IInv, [Next]_vars PROVE IInv'
      OBVIOUS
  <1>1. CASE Submit
        BY <1>1, SubmitIsSafe
  <1>2. ASSUME NEW a \in Callers, Advance(a) PROVE IInv'
        BY <1>2, CallerStepIsSafe, AcknowledgeIsSafe, ExpireIsSafe,
           MissDeadlineIsSafe, SelectIsSafe, FinishIsSafe DEF Advance
  <1>3. ASSUME NEW a \in Callers, Start(a) PROVE IInv'
        BY <1>3, CallerStepIsSafe
  <1>4. CASE Wake
        BY <1>4, WakeIsSafe
  <1>5. CASE Tick \/ Crash \/ UNCHANGED vars
        BY <1>5, SurroundingsAreSafe
  <1>6. QED
        BY <1>1, <1>2, <1>3, <1>4, <1>5 DEF Next
-----------------------------------------------------------------------------
THEOREM PlanInvariant == Spec => []IInv
PROOF BY InitIsSafe, StepIsSafe, PTL DEF Spec

(***************************************************************************)
(* The executor of a node without retries is started once, that of any     *)
(* other within its retry limit: no race of callers, exception, crash or   *)
(* wake-up makes advance repeat a side effect.                             *)
(***************************************************************************)
THEOREM SideEffectsWithinLimit == Spec => []RunsBounded
PROOF
  <1>1. IInv => RunsBounded
        BY DEF IInv, WithinLimit, Limit, RunsBounded
  <1>2. QED
        BY <1>1, PlanInvariant, PTL

(***************************************************************************)
(* No executor is started before its predecessors have succeeded, and they *)
(* never lose that status again.                                           *)
(***************************************************************************)
THEOREM EdgesAreRespected == Spec => []DependenciesFirst
PROOF
  <1>1. IInv => DependenciesFirst
        BY DEF IInv, InOrderOfEdges, DependenciesFirst
  <1>2. QED
        BY <1>1, PlanInvariant, PTL

(* A row that is over is not saved with another status by anybody.         *)
LEMMA StepRespectsEnd ==
  ASSUME IInv, [Next]_vars, row.status \in Over
  PROVE  row'.status = row.status /\ ran' = ran
PROOF
  <1> USE DEF Over
  <1>1. CASE Submit
        BY <1>1 DEF Submit, Absent
  <1>2. ASSUME NEW a \in Callers, Acknowledge(a)
        PROVE  row'.status = row.status /\ ran' = ran
        BY <1>2 DEF Acknowledge, Fresh, IInv, IsRow
  <1>3. ASSUME NEW a \in Callers, Expire(a) \/ MissDeadline(a) \/ Select(a)
        PROVE  FALSE
        BY <1>3 DEF Expire, MissDeadline, Select, Proceeds, Open, Fresh
  <1>4. ASSUME NEW a \in Callers, NEW outcome \in [call[a].nodes -> Outcomes],
               Finish(a, outcome)
        PROVE  FALSE
        BY <1>4 DEF Finish, Fresh, IInv, Calls, IsCall
  <1>5. CASE Wake
        BY <1>5 DEF Wake, IInv, IsRow
  <1>6. ASSUME NEW a \in Callers,
               BeginAdvance(a) \/ Emit(a) \/ Return(a) \/ Conflict(a)
                 \/ Abandon(a) \/ Start(a)
        PROVE  row'.status = row.status /\ ran' = ran
        BY <1>6 DEF BeginAdvance, Emit, Return, Conflict, Abandon, Start
  <1>7. CASE Tick \/ Crash \/ UNCHANGED vars
        BY <1>7 DEF Tick, Crash, vars
  <1>8. QED
        BY <1>1, <1>2, <1>3, <1>4, <1>5, <1>6, <1>7 DEF Next, Advance

(***************************************************************************)
(* A plan that is completed, failed or expired stays so and starts nothing *)
(* any more, whatever old copies of its row callers still hold.            *)
(***************************************************************************)
THEOREM OverForGood == Spec => OverIsOver
PROOF
  <1>1. IInv /\ [Next]_vars =>
          [row.status \in Over => row'.status = row.status /\ ran' = ran]_vars
        BY StepRespectsEnd
  <1>2. QED
        BY <1>1, PlanInvariant, PTL DEF Spec, OverIsOver
-----------------------------------------------------------------------------
(***************************************************************************)
(* Node ids have an order: a finite set of them is listed whole, and       *)
(* nothing else.  The place of an id is one more than the number of        *)
(* smaller ones; no two share a place, so every place is taken.            *)
(***************************************************************************)
LEMMA ListedInOrder ==
  ASSUME NEW S, S \subseteq Nat, IsFiniteSet(S)
  PROVE  /\ InOrder(S) \in Seq(S)
         /\ \A n \in S : \E i \in 1 .. Len(InOrder(S)) : InOrder(S)[i] = n
PROOF
  <1> DEFINE N == Cardinality(S)
             D == 1 .. N
             less(n) == {m \in S : m < n}
             place == [n \in S |-> Cardinality(less(n)) + 1]
  <1>1. N \in Nat /\ IsFiniteSet(D) /\ Cardinality(D) = N
        BY FS_CardinalityType, FS_Interval
  <1>2. ASSUME NEW n \in S PROVE IsFiniteSet(less(n)) /\ place[n] \in D
    <2>1. IsFiniteSet(less(n)) /\ Cardinality(less(n)) <= N /\ (Cardinality(less(n)) = N => S = less(n))
          BY FS_Subset
    <2>2. Cardinality(less(n)) \in Nat
          BY <2>1, FS_CardinalityType
    <2>3. n \notin less(n)
          OBVIOUS
    <2>4. Cardinality(less(n)) # N
          BY <2>1, <2>3
    <2>5. place[n] = Cardinality(less(n)) + 1
          OBVIOUS
    <2> HIDE DEF less, place, N
    <2>6. QED
          BY <1>1, <2>1, <2>2, <2>4, <2>5
  <1>3. ASSUME NEW m \in S, NEW n \in S, m < n PROVE place[m] < place[n]
    <2>1. less(m) \in SUBSET less(n) /\ m \in less(n) \ less(m)
      <3>1. m \in Nat /\ n \in Nat
            OBVIOUS
      <3>2. \A x \in S : x \in Nat /\ (x < m => x < n)
            BY <1>3, <3>1
      <3>3. m \in less(n) /\ m \notin less(m)
            BY <1>3, <3>1
      <3>4. QED
            BY <3>2, <3>3
    <2>2. Cardinality(less(m)) <= Cardinality(less(n)) /\ Cardinality(less(m)) # Cardinality(less(n))
          BY <1>2, <2>1, FS_Subset
    <2>3. place[m] = Cardinality(less(m)) + 1 /\ place[n] = Cardinality(less(n)) + 1
          OBVIOUS
    <2>4. Cardinality(less(m)) \in Nat /\ Cardinality(less(n)) \in Nat
          BY <1>2, FS_CardinalityType
    <2> HIDE DEF less, place
    <2>5. QED
          BY <2>2, <2>3, <2>4
  <1>4. place \in Injection(S, D)
    <2>1. place \in [S -> D]
          BY <1>2
    <2> HIDE DEF place, D
    <2>2. ASSUME NEW m \in S, NEW n \in S, place[m] = place[n] PROVE m = n
      <3>1. m \in Nat /\ n \in Nat
            OBVIOUS
      <3>2. place[m] \in Nat /\ place[n] \in Nat
            BY <2>1 DEF D
      <3>3. ~(m < n) /\ ~(n < m)
            BY <1>3, <2>2, <3>2
      <3>4. QED
            BY <3>1, <3>3
    <2>3. QED
          BY <2>1, <2>2 DEF Injection, IsInjective
  <1>5. place \in Surjection(S, D)
        BY <1>1, <1>4, FS_Injection
  <1> DEFINE at == [k \in D |-> CHOOSE n \in S : place[n] = k]
  <1>6. ASSUME NEW k \in D PROVE at[k] \in S /\ place[at[k]] = k
        BY <1>5 DEF Surjection
  <1>7. at \in SetToSeqs(S)
    <2>1. at \in [D -> S]
          BY <1>6
    <2>2. \A i, j \in D : i # j => at[i] # at[j]
          BY <1>6
    <2> HIDE DEF at
    <2>3. QED
          BY <2>1, <2>2 DEF SetToSeqs
  <1>8. DOMAIN at = D
        OBVIOUS
  <1> HIDE DEF at, place
  <1>9. ASSUME NEW i \in D, NEW j \in D, i < j PROVE at[i] < at[j]
    <2>1. /\ at[i] \in S /\ at[j] \in S
          /\ place[at[i]] = i /\ place[at[j]] = j
          BY <1>6
    <2>2. at[i] \in Nat /\ at[j] \in Nat
          BY <2>1
    <2>3. at[j] < at[i] => j < i
          BY <1>3, <2>1
    <2>4. at[i] # at[j]
          BY <1>9, <2>1, <2>2
    <2>5. i \in Int /\ j \in Int
          BY <1>1
    <2> HIDE DEF D
    <2>6. QED
          BY <1>9, <2>2, <2>3, <2>4, <2>5
  <1>10. InOrder(S) \in SetToSeqs(S)
        BY <1>7, <1>8, <1>9 DEF InOrder
  <1>11. InOrder(S) \in [D -> S] /\ \A i, j \in D : i # j => InOrder(S)[i] # InOrder(S)[j]
        BY <1>10 DEF SetToSeqs
  <1>12. InOrder(S) \in Seq(S) /\ Len(InOrder(S)) = N
        BY <1>1, <1>11
  <1>13. InOrder(S) \in Injection(D, S)
        BY <1>11 DEF Injection, IsInjective
  <1>14. InOrder(S) \in Surjection(D, S)
        BY <1>1, <1>13, FS_Injection
  <1>15. QED
        BY <1>12, <1>14 DEF Surjection
-----------------------------------------------------------------------------
(***************************************************************************)
(* The types, with what the pending feedback is made of.                   *)
(***************************************************************************)
LEMMA AboutTells ==
  ASSUME NEW n, NEW k, NEW what
  PROVE  About(n, k, what).node = n /\ About(n, k, what).attempt = k /\ About(n, k, what).what = what
PROOF BY DEF About

LEMMA FeedbackOfNode ==
  ASSUME NEW n \in Nodes \cup {NoNode}, NEW k \in Nat,
         NEW what \in NodeStatus \cup {"accepted", "completed", "expired", "deadline"}
  PROVE  About(n, k, what) \in Feedback
PROOF BY DEF About, Feedback

LEMMA NodesAreListed ==
  ASSUME NEW S, S \subseteq Nodes
  PROVE  /\ InOrder(S) \in Seq(S)
         /\ \A n \in S : \E i \in 1 .. Len(InOrder(S)) : InOrder(S)[i] = n
PROOF
  <1>1. S \subseteq Nat /\ IsFiniteSet(S)
        BY FS_Subset, CoordinatorAssumption
  <1>2. QED
        BY <1>1, ListedInOrder

(* The deadlines that were missed, node by node. *)
Missed(S) == [i \in 1 .. Len(InOrder(S)) |-> About(InOrder(S)[i], 0, "deadline")]

LEMMA MissedIsFeedback ==
  ASSUME NEW S, S \subseteq Nodes
  PROVE  /\ Missed(S) \in Seq(Feedback)
         /\ \A i \in 1 .. Len(Missed(S)) : Missed(S)[i].what = "deadline"
         /\ \A n \in S : \E i \in 1 .. Len(Missed(S)) : Missed(S)[i] = About(n, 0, "deadline")
PROOF
  <1> DEFINE ids == InOrder(S)
  <1>1. ids \in Seq(S) /\ \A n \in S : \E i \in 1 .. Len(ids) : ids[i] = n
        BY NodesAreListed
  <1> HIDE DEF ids
  <1>2. Missed(S) = [i \in 1 .. Len(ids) |-> About(ids[i], 0, "deadline")]
        BY DEF Missed, ids
  <1>3. Len(ids) \in Nat /\ \A i \in 1 .. Len(ids) : ids[i] \in Nodes
        BY <1>1
  <1>4. \A i \in 1 .. Len(ids) : About(ids[i], 0, "deadline") \in Feedback
        BY <1>3, FeedbackOfNode
  <1>5. Missed(S) \in Seq(Feedback) /\ Len(Missed(S)) = Len(ids)
        BY <1>2, <1>3, <1>4
  <1>6. \A i \in 1 .. Len(ids) : Missed(S)[i] = About(ids[i], 0, "deadline")
        BY <1>2
  <1>7. \A i \in 1 .. Len(ids) : Missed(S)[i].what = "deadline"
        BY <1>6, AboutTells
  <1>8. QED
        BY <1>1, <1>5, <1>6, <1>7

(* What a round reports: its nodes, then the completion of the plan. *)
IsReport(q, r, S, outcome, status) ==
  /\ q \in Seq(Feedback)
  /\ \A i \in 1 .. Len(q) :
       \/ q[i] = Plan("completed") /\ status = "completed"
       \/ \E n \in S : q[i] = About(n, r.attempts[n], outcome[n])
  /\ \A n \in S : \E i \in 1 .. Len(q) :
       /\ q[i] = About(n, r.attempts[n], outcome[n])
       /\ \A j \in 1 .. Len(q) : q[j] = Plan("completed") => i < j
  /\ status = "completed" => \E i \in 1 .. Len(q) : q[i] = Plan("completed")

LEMMA ReportIsFeedback ==
  ASSUME NEW r \in Execution, NEW S, S \subseteq Nodes,
         NEW outcome \in [S -> Outcomes], NEW status
  PROVE  IsReport(Report(r, outcome, status), r, S, outcome, status)
PROOF
  <1> DEFINE ids == InOrder(S)
             told == [i \in 1 .. Len(ids) |-> About(ids[i], r.attempts[ids[i]], outcome[ids[i]])]
             end == IF status = "completed" THEN <<Plan("completed")>> ELSE <<>>
             report == Report(r, outcome, status)
  <1>1. ids \in Seq(S) /\ \A n \in S : \E i \in 1 .. Len(ids) : ids[i] = n
        BY NodesAreListed
  <1>2. report = told \o end
        BY DEF Report
  <1>3. Plan("completed") \in Feedback /\ \A n \in S : Plan("completed") # About(n, r.attempts[n], outcome[n])
        BY FeedbackOfNode, CoordinatorAssumption DEF Plan, About
  <1>4. end \in Seq(Feedback) /\ Len(end) \in 0 .. 1 /\ (status = "completed" <=> Len(end) = 1)
                              /\ (Len(end) = 1 => end[1] = Plan("completed"))
        BY <1>3
  <1> HIDE DEF ids, end, report
  <1>5. Len(ids) \in Nat /\ \A i \in 1 .. Len(ids) : ids[i] \in S
        BY <1>1
  <1>6. \A i \in 1 .. Len(ids) : About(ids[i], r.attempts[ids[i]], outcome[ids[i]]) \in Feedback
        BY <1>5, FeedbackOfNode DEF Execution, Outcomes, NodeStatus
  <1>7. told \in Seq(Feedback) /\ Len(told) = Len(ids)
        BY <1>5, <1>6
  <1>8. \A i \in 1 .. Len(ids) : told[i] = About(ids[i], r.attempts[ids[i]], outcome[ids[i]])
        OBVIOUS
  <1> HIDE DEF told
  <1>9. /\ report \in Seq(Feedback) /\ Len(report) = Len(ids) + Len(end)
        /\ \A i \in 1 .. Len(ids) : report[i] = told[i]
        /\ Len(end) = 1 => report[Len(ids) + 1] = Plan("completed")
        BY <1>2, <1>4, <1>5, <1>7
  <1>10. ASSUME NEW i \in 1 .. Len(report)
         PROVE  i \in 1 .. Len(ids) \/ (i = Len(ids) + 1 /\ Len(end) = 1)
    <2>1. Len(report) = Len(ids) + Len(end)
          BY <1>9
    <2>2. Len(end) = 0 \/ Len(end) = 1
          BY <1>4
    <2>3. CASE Len(end) = 0
          BY <1>5, <2>1, <2>3
    <2>4. CASE Len(end) = 1
          BY <1>5, <2>1, <2>4
    <2>5. QED
          BY <2>2, <2>3, <2>4
  <1>11. \A i \in 1 .. Len(ids) : report[i] # Plan("completed")
        BY <1>3, <1>5, <1>8, <1>9
  <1>12. \A i \in 1 .. Len(ids) : \E n \in S : report[i] = About(n, r.attempts[n], outcome[n])
        BY <1>5, <1>8, <1>9
  <1>13. \A i \in 1 .. Len(report) :
           \/ report[i] = Plan("completed") /\ status = "completed"
           \/ \E n \in S : report[i] = About(n, r.attempts[n], outcome[n])
        BY <1>4, <1>9, <1>10, <1>12
  <1>14. ASSUME NEW n \in S
         PROVE  \E i \in 1 .. Len(report) :
                  /\ report[i] = About(n, r.attempts[n], outcome[n])
                  /\ \A j \in 1 .. Len(report) : report[j] = Plan("completed") => i < j
    <2>1. PICK i \in 1 .. Len(ids) : ids[i] = n
          BY <1>1
    <2>2. i \in 1 .. Len(report) /\ report[i] = About(n, r.attempts[n], outcome[n])
          BY <1>4, <1>5, <1>8, <1>9, <2>1
    <2>3. \A j \in 1 .. Len(report) : report[j] = Plan("completed") => i < j
          BY <1>5, <1>10, <1>11
    <2>4. QED
          BY <2>2, <2>3
  <1>15. ASSUME status = "completed"
         PROVE  \E i \in 1 .. Len(report) : report[i] = Plan("completed")
    <2>1. Len(end) = 1 /\ Len(report) = Len(ids) + 1 /\ report[Len(ids) + 1] = Plan("completed")
          BY <1>4, <1>9, <1>15
    <2>2. Len(ids) + 1 \in 1 .. Len(report)
          BY <1>5, <2>1
    <2>3. QED
          BY <2>1, <2>2
  <1>16. QED
        BY <1>9, <1>13, <1>14, <1>15 DEF report, IsReport
-----------------------------------------------------------------------------
(***************************************************************************)
(* The type invariant.                                                     *)
(***************************************************************************)
LEMMA FlushingIsTyped ==
  ASSUME NEW seen \in Execution, NEW at \in Nat, NEW last \in BOOLEAN
  PROVE  Flushing(seen, at, last) \in Call
PROOF BY DEF Flushing, Call

LEMMA AbsentIsTyped == Absent \in Execution /\ Idle \in Call
PROOF
  <1>1. <<>> \in Seq(Feedback) /\ Absent \in Execution
        BY DEF Absent, Execution, PlanStatus, NodeStatus
  <1>2. QED
        BY <1>1 DEF Idle, Call

LEMMA OneCallTyped ==
  ASSUME TypeOK, NEW a \in Callers, NEW c \in Call, call' = [call EXCEPT ![a] = c]
  PROVE  call' \in [Callers -> Call]
PROOF BY DEF TypeOK

LEMMA InitIsTyped == Init => TypeOK
PROOF BY AbsentIsTyped, CoordinatorAssumption DEF Init, TypeOK

(* The clocks and counters of a step. *)
CountersTyped ==
  /\ up \in BOOLEAN /\ now \in 0 .. MaxTime /\ wakes \in 0 .. MaxWakes
  /\ failures \in 0 .. MaxFailures /\ restarts \in 0 .. MaxRestarts

LEMMA CountersStayTyped ==
  ASSUME TypeOK, [Next]_vars PROVE CountersTyped'
PROOF
  <1> USE CoordinatorAssumption DEF TypeOK, CountersTyped
  <1>1. CASE Submit \/ Wake
        BY <1>1 DEF Submit, Wake
  <1>2. ASSUME NEW a \in Callers, Advance(a) PROVE CountersTyped'
    <2>1. CASE BeginAdvance(a) \/ Emit(a) \/ Acknowledge(a)
          BY <2>1 DEF BeginAdvance, Emit, Acknowledge
    <2>2. CASE Expire(a) \/ MissDeadline(a) \/ Select(a)
          BY <2>2 DEF Expire, MissDeadline, Select
    <2>3. CASE \E outcome \in [call[a].nodes -> Outcomes] : Finish(a, outcome)
          BY <2>3 DEF Finish
    <2>4. CASE Return(a) \/ Conflict(a) \/ Abandon(a)
          BY <2>4 DEF Return, Conflict, Abandon
    <2>5. QED
          BY <1>2, <2>1, <2>2, <2>3, <2>4 DEF Advance
  <1>3. ASSUME NEW a \in Callers, Start(a) PROVE CountersTyped'
        BY <1>3 DEF Start
  <1>4. CASE Tick
    <2>1. now \in Nat /\ now < MaxTime /\ now' = now + 1 /\ MaxTime \in Nat
          BY <1>4 DEF Tick
    <2>2. now' \in 0 .. MaxTime
          BY <2>1
    <2>3. QED
          BY <1>4, <2>2 DEF Tick
  <1>5. CASE Crash
    <2>1. /\ restarts \in Nat /\ restarts < MaxRestarts /\ restarts' = restarts + 1
          /\ MaxRestarts \in Nat
          BY <1>5 DEF Crash
    <2>2. restarts' \in 0 .. MaxRestarts
          BY <2>1
    <2>3. QED
          BY <1>5, <2>2 DEF Crash
  <1>6. CASE UNCHANGED vars
        BY <1>6 DEF vars
  <1>7. QED
        BY <1>1, <1>2, <1>3, <1>4, <1>5, <1>6 DEF Next

LEMMA AllTyped ==
  ASSUME row' \in Execution, inbox' \subseteq Feedback, call' \in [Callers -> Call],
         ran' \in [Nodes -> Nat], CountersTyped'
  PROVE  TypeOK'
PROOF BY DEF TypeOK, CountersTyped

(* A row has six parts; it is typed when each of them is. *)
Whole(r) ==
  r = [status |-> r.status, node |-> r.node, attempts |-> r.attempts,
       linked |-> r.linked, pending |-> r.pending, version |-> r.version]

LEMMA RowOf ==
  ASSUME NEW r \in Execution
  PROVE  /\ Whole(r)
         /\ r.status \in PlanStatus /\ r.node \in [Nodes -> NodeStatus]
         /\ r.attempts \in [Nodes -> Nat] /\ r.linked \in SUBSET Nodes
         /\ r.pending \in Seq(Feedback) /\ r.version \in Nat
PROOF BY DEF Execution, Whole

LEMMA RowIsTyped ==
  ASSUME NEW r, Whole(r),
         r.status \in PlanStatus, r.node \in [Nodes -> NodeStatus],
         r.attempts \in [Nodes -> Nat], r.linked \in SUBSET Nodes,
         r.pending \in Seq(Feedback), r.version \in Nat
  PROVE  r \in Execution
PROOF BY DEF Execution, Whole

LEMMA PlanFeedback ==
  ASSUME NEW what \in {"accepted", "completed", "expired"}
  PROVE  Plan(what) \in Feedback
PROOF BY FeedbackOfNode DEF Plan

(***************************************************************************)
(* The row after a step, as far as the proofs look at it: what a save      *)
(* leaves alone of the row it was made from.                               *)
(***************************************************************************)
LEMMA SubmitSaves ==
  ASSUME Submit
  PROVE  row' \in Execution /\ row'.status = "ready" /\ row'.pending = <<Plan("accepted")>>
         /\ row'.node = Absent.node /\ row'.attempts = Absent.attempts
PROOF
  <1>1. <<Plan("accepted")>> \in Seq(Feedback)
        BY PlanFeedback
  <1>2. row' = [status |-> "ready", node |-> Absent.node, attempts |-> Absent.attempts,
                linked |-> {}, pending |-> <<Plan("accepted")>>, version |-> 1]
        BY DEF Submit, Absent
  <1>3. QED
        BY <1>1, <1>2, AbsentIsTyped DEF Execution, PlanStatus

LEMMA AcknowledgeSaves ==
  ASSUME TypeOK, NEW a \in Callers, Acknowledge(a), row.pending # <<>>
  PROVE  /\ row' \in Execution /\ row'.pending = Tail(row.pending)
         /\ row'.status = row.status /\ row'.node = row.node
         /\ row'.attempts = row.attempts
PROOF
  <1>0. /\ Whole(row) /\ row.status \in PlanStatus /\ row.node \in [Nodes -> NodeStatus]
        /\ row.attempts \in [Nodes -> Nat] /\ row.linked \in SUBSET Nodes
        /\ row.pending \in Seq(Feedback) /\ row.version + 1 \in Nat
        BY RowOf DEF TypeOK
  <1>1. row' = [row EXCEPT !.pending = Tail(@), !.version = @ + 1]
        BY DEF Acknowledge, Fresh
  <1>2. row \in Execution
        BY DEF TypeOK
  <1>3. Tail(row.pending) \in Seq(Feedback)
        BY <1>2, RowOf
  <1>4. /\ Whole(row') /\ row'.pending = Tail(row.pending)
        /\ row'.status = row.status /\ row'.node = row.node
        /\ row'.attempts = row.attempts /\ row'.linked = row.linked
        /\ row'.version = row.version + 1
        BY <1>1, <1>0 DEF Whole
  <1>5. QED
        BY <1>0, <1>3, <1>4, RowIsTyped

LEMMA ExpireSaves ==
  ASSUME TypeOK, NEW a \in Callers, Expire(a)
  PROVE  /\ row' \in Execution /\ row'.pending = row.pending \o <<Plan("expired")>>
         /\ row'.status = "expired" /\ row'.node = row.node
         /\ row'.attempts = row.attempts
PROOF
  <1>0. /\ Whole(row) /\ row.status \in PlanStatus /\ row.node \in [Nodes -> NodeStatus]
        /\ row.attempts \in [Nodes -> Nat] /\ row.linked \in SUBSET Nodes
        /\ row.pending \in Seq(Feedback) /\ row.version + 1 \in Nat
        BY RowOf DEF TypeOK
  <1>1. row' = [row EXCEPT !.status = "expired", !.version = @ + 1,
                           !.pending = Append(@, Plan("expired"))]
        BY DEF Expire, Fresh
  <1>2. row \in Execution
        BY DEF TypeOK
  <1>3. /\ Append(row.pending, Plan("expired")) \in Seq(Feedback)
        /\ Append(row.pending, Plan("expired")) = row.pending \o <<Plan("expired")>>
        BY <1>2, RowOf, PlanFeedback
  <1>4. /\ Whole(row') /\ row'.pending = Append(row.pending, Plan("expired"))
        /\ row'.status = "expired" /\ row'.node = row.node
        /\ row'.attempts = row.attempts /\ row'.linked = row.linked
        /\ row'.version = row.version + 1
        BY <1>1, <1>0 DEF Whole
  <1>5. "expired" \in PlanStatus
        BY DEF PlanStatus
  <1>6. QED
        BY <1>0, <1>3, <1>4, <1>5, RowIsTyped

LEMMA MissDeadlineSaves ==
  ASSUME TypeOK, NEW a \in Callers, MissDeadline(a)
  PROVE  LET late == Late(row, call[a].at) IN
         /\ row' \in Execution /\ row'.pending = row.pending \o Missed(late)
         /\ row'.status = "failed" /\ row'.attempts = row.attempts
         /\ late \subseteq Nodes /\ \A n \in late : row.node[n] = "pending"
         /\ \A n \in Nodes : row'.node[n] = IF n \in late THEN "failed" ELSE row.node[n]
PROOF
  <1>0. /\ Whole(row) /\ row.status \in PlanStatus /\ row.node \in [Nodes -> NodeStatus]
        /\ row.attempts \in [Nodes -> Nat] /\ row.linked \in SUBSET Nodes
        /\ row.pending \in Seq(Feedback) /\ row.version + 1 \in Nat
        BY RowOf DEF TypeOK
  <1> DEFINE late == Late(row, call[a].at)
             node == [n \in Nodes |-> IF n \in late THEN "failed" ELSE row.node[n]]
  <1>1. row' = [row EXCEPT !.status = "failed", !.version = @ + 1, !.node = node,
                           !.pending = @ \o Missed(late)]
        BY DEF MissDeadline, Fresh, Missed
  <1>2. row \in Execution
        BY DEF TypeOK
  <1>3. late \subseteq Nodes /\ \A n \in late : row.node[n] = "pending"
        BY DEF Late, Runnable
  <1>4. row.pending \o Missed(late) \in Seq(Feedback)
        BY <1>2, <1>3, RowOf, MissedIsFeedback
  <1> HIDE DEF late
  <1>5. node \in [Nodes -> NodeStatus]
        BY <1>2, RowOf DEF NodeStatus
  <1> HIDE DEF node
  <1>6. /\ Whole(row') /\ row'.pending = row.pending \o Missed(late)
        /\ row'.status = "failed" /\ row'.node = node
        /\ row'.attempts = row.attempts /\ row'.linked = row.linked
        /\ row'.version = row.version + 1
        BY <1>1, <1>0 DEF Whole
  <1>7. "failed" \in PlanStatus
        BY DEF PlanStatus
  <1>8. row' \in Execution
        BY <1>0, <1>4, <1>5, <1>6, <1>7, RowIsTyped
  <1>9. QED
        BY <1>3, <1>6, <1>8 DEF late, node

LEMMA SelectSaves ==
  ASSUME TypeOK, NEW a \in Callers, Select(a)
  PROVE  LET chosen == Selected(row) IN
         /\ row' \in Execution /\ row'.pending = row.pending
         /\ row'.status = "running"
         /\ chosen \subseteq Nodes /\ \A n \in chosen : row.node[n] = "pending"
         /\ chosen # {}
         /\ \A n \in Nodes : row'.node[n] = IF n \in chosen THEN "running" ELSE row.node[n]
         /\ \A n \in Nodes \ chosen : row'.attempts[n] = row.attempts[n]
         /\ ran' \in [Nodes -> Nat]
PROOF
  <1>0. /\ Whole(row) /\ row.status \in PlanStatus /\ row.node \in [Nodes -> NodeStatus]
        /\ row.attempts \in [Nodes -> Nat] /\ row.linked \in SUBSET Nodes
        /\ row.pending \in Seq(Feedback) /\ row.version + 1 \in Nat
        BY RowOf DEF TypeOK
  <1> DEFINE chosen == Selected(row)
             node == [n \in Nodes |-> IF n \in chosen THEN "running" ELSE row.node[n]]
             attempts == [n \in Nodes |-> IF n \in chosen THEN row.attempts[n] + 1
                                          ELSE row.attempts[n]]
  <1>1. row' = [row EXCEPT !.status = "running", !.version = @ + 1,
                           !.node = node, !.attempts = attempts]
        BY DEF Select, Fresh
  <1>2. row \in Execution /\ ran \in [Nodes -> Nat]
        BY DEF TypeOK
  <1>3. chosen \subseteq Nodes /\ \A n \in chosen : row.node[n] = "pending"
        BY DEF Selected, Runnable
  <1>4. chosen # {} /\ ran' = [n \in Nodes |-> IF n \in chosen THEN ran[n] + 1 ELSE ran[n]]
        BY DEF Select, Fresh
  <1> HIDE DEF chosen
  <1>5. node \in [Nodes -> NodeStatus] /\ attempts \in [Nodes -> Nat]
        BY <1>2, RowOf DEF NodeStatus
  <1>6. ran' \in [Nodes -> Nat]
        BY <1>2, <1>4
  <1> HIDE DEF node, attempts
  <1>7. /\ Whole(row') /\ row'.pending = row.pending
        /\ row'.status = "running" /\ row'.node = node
        /\ row'.attempts = attempts /\ row'.linked = row.linked
        /\ row'.version = row.version + 1
        BY <1>1, <1>0 DEF Whole
  <1>8. "running" \in PlanStatus
        BY DEF PlanStatus
  <1>9. row' \in Execution
        BY <1>0, <1>5, <1>7, <1>8, RowIsTyped
  <1>10. QED
        BY <1>3, <1>4, <1>6, <1>7, <1>9 DEF chosen, node, attempts

LEMMA FinishSaves ==
  ASSUME TypeOK, IInv, NEW a \in Callers, NEW outcome \in [call[a].nodes -> Outcomes],
         Finish(a, outcome)
  PROVE  /\ row' \in Execution
         /\ row'.pending = row.pending \o Report(row, outcome, row'.status)
         /\ row'.status \in {"completed", "failed", "running"}
         /\ row'.status = "completed" => \A n \in Nodes : row'.node[n] = "succeeded"
         /\ row'.attempts = row.attempts
         /\ call[a].nodes \subseteq Nodes /\ \A n \in call[a].nodes : row.node[n] = "running"
         /\ \A n \in Nodes \ call[a].nodes : row'.node[n] = row.node[n]
         /\ \A n \in call[a].nodes : /\ row'.node[n] \in {"pending", outcome[n]}
                                     /\ outcome[n] = "succeeded" => row'.node[n] = "succeeded"
PROOF
  <1>0. /\ Whole(row) /\ row.status \in PlanStatus /\ row.node \in [Nodes -> NodeStatus]
        /\ row.attempts \in [Nodes -> Nat] /\ row.linked \in SUBSET Nodes
        /\ row.pending \in Seq(Feedback) /\ row.version + 1 \in Nat
        BY RowOf DEF TypeOK
  <1> DEFINE nodes == call[a].nodes
             node == [n \in Nodes |-> IF n \in nodes
                        THEN Settled(row, n, outcome[n], call[a].at) ELSE row.node[n]]
             linked == (row.linked \ nodes) \cup {n \in Linked \cap nodes : outcome[n] # "failed"}
             status == Verdict(node)
  <1>1. row' = [row EXCEPT !.status = status, !.node = node, !.linked = linked,
                           !.pending = @ \o Report(row, outcome, status),
                           !.version = @ + 1]
        BY DEF Finish, Fresh
  <1>2. row \in Execution
        BY DEF TypeOK
  <1>3. nodes \subseteq Nodes /\ \A n \in nodes : row.node[n] = "running"
        BY DEF Finish, Fresh, IInv, Calls, IsCall
  <1>4. \A n \in nodes : outcome[n] \in Outcomes
        OBVIOUS
  <1>5. \A n \in nodes : /\ node[n] \in {"pending", outcome[n]}
                         /\ outcome[n] = "succeeded" => node[n] = "succeeded"
        BY <1>3 DEF Settled
  <1>6. \A n \in Nodes \ nodes : node[n] = row.node[n]
        OBVIOUS
  <1>7. linked \in SUBSET Nodes
        BY <1>2, RowOf, CoordinatorAssumption
  <1>8. /\ status \in {"completed", "failed", "running"}
        /\ status = "completed" => \A n \in Nodes : node[n] = "succeeded"
        BY DEF Verdict
  <1>9. row.pending \o Report(row, outcome, status) \in Seq(Feedback)
    <2>1. Report(row, outcome, status) \in Seq(Feedback)
      <3> HIDE DEF status
      <3>1. QED
          BY <1>2, <1>3, ReportIsFeedback DEF IsReport
    <2>2. row.pending \in Seq(Feedback)
          BY <1>2, RowOf
    <2> HIDE DEF status
    <2>3. QED
          BY <2>1, <2>2
  <1>10. node \in [Nodes -> NodeStatus]
    <2>1. \A n \in Nodes : node[n] \in NodeStatus
          BY <1>2, <1>4, <1>5, <1>6, RowOf DEF NodeStatus, Outcomes
    <2>2. QED
          BY <2>1
  <1> HIDE DEF node, linked, status
  <1>11. /\ Whole(row') /\ row'.pending = row.pending \o Report(row, outcome, status)
         /\ row'.status = status /\ row'.node = node
         /\ row'.attempts = row.attempts /\ row'.linked = linked
         /\ row'.version = row.version + 1
        BY <1>1, <1>0 DEF Whole
  <1>12. status \in PlanStatus
        BY <1>8 DEF PlanStatus
  <1>13. row' \in Execution
        BY <1>0, <1>7, <1>9, <1>10, <1>11, <1>12, RowIsTyped
  <1>14. QED
        BY <1>3, <1>5, <1>6, <1>8, <1>11, <1>13

LEMMA WakeSaves ==
  ASSUME TypeOK, Wake
  PROVE  /\ row' \in Execution /\ row'.pending = row.pending
         /\ row'.status = row.status /\ row'.attempts = row.attempts
         /\ \A n \in Nodes : \/ row'.node[n] = row.node[n]
                             \/ row.node[n] = "waiting" /\ row'.node[n] = "pending"
PROOF
  <1>0. /\ Whole(row) /\ row.status \in PlanStatus /\ row.node \in [Nodes -> NodeStatus]
        /\ row.attempts \in [Nodes -> Nat] /\ row.linked \in SUBSET Nodes
        /\ row.pending \in Seq(Feedback) /\ row.version + 1 \in Nat
        BY RowOf DEF TypeOK
  <1> DEFINE node == [n \in Nodes |-> IF row.node[n] = "waiting" /\ n \in TaskNodes
                                      THEN "pending" ELSE row.node[n]]
  <1>1. row' = [row EXCEPT !.version = @ + 1, !.node = node]
        BY DEF Wake
  <1>2. row \in Execution
        BY DEF TypeOK
  <1>3. node \in [Nodes -> NodeStatus]
        BY <1>2, RowOf DEF NodeStatus
  <1>4. ASSUME NEW n \in Nodes
        PROVE  \/ node[n] = row.node[n]
               \/ row.node[n] = "waiting" /\ node[n] = "pending"
    <2>1. node[n] = IF row.node[n] = "waiting" /\ n \in TaskNodes THEN "pending" ELSE row.node[n]
          OBVIOUS
    <2> HIDE DEF node
    <2>2. QED
          BY <2>1
  <1> HIDE DEF node
  <1>5. /\ Whole(row') /\ row'.pending = row.pending
        /\ row'.status = row.status /\ row'.node = node
        /\ row'.attempts = row.attempts /\ row'.linked = row.linked
        /\ row'.version = row.version + 1
        BY <1>1, <1>0 DEF Whole
  <1>6. row' \in Execution
        BY <1>0, <1>3, <1>5, RowIsTyped
  <1>7. QED
        BY <1>4, <1>5, <1>6

(* The row, the log of the fabric and the executors after any step. *)
LEMMA StoredStaysTyped ==
  ASSUME TypeOK, IInv, [Next]_vars,
         \A a \in Callers : call[a].pc = "emitted" => call[a].seen.pending # <<>>
  PROVE  row' \in Execution /\ inbox' \subseteq Feedback /\ ran' \in [Nodes -> Nat]
PROOF
  <1> DEFINE Goal == row' \in Execution /\ inbox' \subseteq Feedback /\ ran' \in [Nodes -> Nat]
  <1>0. row \in Execution /\ inbox \subseteq Feedback /\ ran \in [Nodes -> Nat]
        /\ \A a \in Callers : call[a] \in Call
        BY DEF TypeOK
  <1>1. CASE Submit
        BY <1>0, <1>1, SubmitSaves DEF Submit
  <1>2. ASSUME NEW a \in Callers, Advance(a) PROVE Goal
    <2>1. CASE BeginAdvance(a) \/ Return(a) \/ Conflict(a) \/ Abandon(a)
          BY <1>0, <2>1 DEF BeginAdvance, Return, Conflict, Abandon
    <2>2. CASE Emit(a)
      <3>1. call[a].seen.pending \in Seq(Feedback) /\ call[a].seen.pending # <<>>
            BY <1>0, <2>2, RowOf DEF Emit, Call
      <3>2. Head(call[a].seen.pending) \in Feedback
            BY <3>1
      <3>3. QED
            BY <1>0, <2>2, <3>2 DEF Emit
    <2>3. CASE Acknowledge(a)
      <3>1. row.pending # <<>>
            BY <2>3 DEF Acknowledge, Fresh
      <3>2. QED
            BY <1>0, <2>3, <3>1, AcknowledgeSaves DEF Acknowledge
    <2>4. CASE Expire(a)
          BY <1>0, <2>4, ExpireSaves DEF Expire
    <2>5. CASE MissDeadline(a)
          BY <1>0, <2>5, MissDeadlineSaves DEF MissDeadline
    <2>6. CASE Select(a)
          BY <1>0, <2>6, SelectSaves DEF Select
    <2>7. ASSUME NEW outcome \in [call[a].nodes -> Outcomes], Finish(a, outcome)
          PROVE  Goal
          BY <1>0, <2>7, FinishSaves DEF Finish
    <2>8. QED
          BY <1>2, <2>1, <2>2, <2>3, <2>4, <2>5, <2>6, <2>7 DEF Advance
  <1>3. ASSUME NEW a \in Callers, Start(a) PROVE Goal
        BY <1>0, <1>3 DEF Start
  <1>4. CASE Wake
        BY <1>0, <1>4, WakeSaves DEF Wake
  <1>5. CASE Tick \/ Crash \/ UNCHANGED vars
        BY <1>0, <1>5 DEF Tick, Crash, vars
  <1>6. QED
        BY <1>1, <1>2, <1>3, <1>4, <1>5 DEF Next

LEMMA CallOf ==
  ASSUME NEW c \in Call
  PROVE  /\ c = [pc |-> c.pc, seen |-> c.seen, at |-> c.at, nodes |-> c.nodes, last |-> c.last]
         /\ c.seen \in Execution /\ c.at \in Nat /\ c.nodes \in SUBSET Nodes
         /\ c.last \in BOOLEAN
PROOF BY DEF Call

(* A call that goes on from its old state with another row. *)
LEMMA NextPartIsTyped ==
  ASSUME NEW c \in Call, NEW seen \in Execution, NEW nodes \in SUBSET Nodes,
         NEW pc \in {"idle", "flush", "emitted", "executing"}
  PROVE  /\ [c EXCEPT !.pc = pc] \in Call
         /\ [c EXCEPT !.pc = pc, !.seen = seen] \in Call
         /\ [c EXCEPT !.pc = pc, !.seen = seen, !.nodes = nodes] \in Call
PROOF BY DEF Call

LEMMA CallsStayTyped ==
  ASSUME TypeOK, IInv, [Next]_vars, row' \in Execution
  PROVE  call' \in [Callers -> Call]
PROOF
  <1> DEFINE Goal == call' \in [Callers -> Call]
  <1>0. row \in Execution /\ call \in [Callers -> Call] /\ now \in Nat
        /\ \A a \in Callers : call[a] \in Call /\ call[a].at \in Nat
        BY CoordinatorAssumption, CallOf DEF TypeOK
  <1>1. CASE Submit \/ Wake \/ Tick \/ UNCHANGED vars
        BY <1>0, <1>1 DEF Submit, Wake, Tick, vars
  <1>2. ASSUME NEW a \in Callers, Advance(a) PROVE Goal
    <2>1. CASE BeginAdvance(a)
          BY <1>0, <2>1, FlushingIsTyped, OneCallTyped DEF BeginAdvance
    <2>2. CASE Emit(a)
      <3>1. [call[a] EXCEPT !.pc = "emitted"] \in Call
            BY <1>0, NextPartIsTyped
      <3>2. call' = [call EXCEPT ![a] = [call[a] EXCEPT !.pc = "emitted"]]
            BY <1>0, <2>2 DEF Emit
      <3>3. QED
            BY <3>1, <3>2, OneCallTyped
    <2>3. CASE Acknowledge(a)
      <3>1. [call[a] EXCEPT !.pc = "flush", !.seen = row'] \in Call
            BY <1>0, NextPartIsTyped
      <3>2. call' = [call EXCEPT ![a] = [call[a] EXCEPT !.pc = "flush", !.seen = row']]
            BY <1>0, <2>3 DEF Acknowledge
      <3>3. QED
            BY <3>1, <3>2, OneCallTyped
    <2>4. CASE Expire(a) \/ MissDeadline(a)
          BY <1>0, <2>4, FlushingIsTyped, OneCallTyped DEF Expire, MissDeadline
    <2>5. CASE Select(a)
      <3>1. Selected(row) \in SUBSET Nodes
            BY <2>5, SelectSaves
      <3>2. [call[a] EXCEPT !.pc = "executing", !.seen = row', !.nodes = Selected(row)] \in Call
            BY <1>0, <3>1, NextPartIsTyped
      <3>3. call' = [call EXCEPT ![a] = [call[a] EXCEPT !.pc = "executing", !.seen = row',
                                                        !.nodes = Selected(row)]]
            BY <1>0, <2>5 DEF Select, Fresh
      <3>4. QED
            BY <3>2, <3>3, OneCallTyped
    <2>6. ASSUME NEW outcome \in [call[a].nodes -> Outcomes], Finish(a, outcome)
          PROVE  Goal
          BY <1>0, <2>6, FlushingIsTyped, OneCallTyped DEF Finish
    <2>7. CASE Return(a) \/ Conflict(a) \/ Abandon(a)
          BY <2>7, AbsentIsTyped, OneCallTyped DEF Return, Conflict, Abandon
    <2>8. QED
          BY <1>2, <2>1, <2>2, <2>3, <2>4, <2>5, <2>6, <2>7 DEF Advance
  <1>3. ASSUME NEW a \in Callers, Start(a) PROVE Goal
        BY <1>0, <1>3, FlushingIsTyped, OneCallTyped DEF Start
  <1>4. CASE Crash
        BY <1>4, AbsentIsTyped DEF Crash
  <1>5. QED
        BY <1>1, <1>2, <1>3, <1>4 DEF Next
-----------------------------------------------------------------------------
(***************************************************************************)
(* What is told of the plan.  Old copies of the row still hold feedback,   *)
(* and their callers may tell it again; so feedback must stay true of      *)
(* every later row, and in a copy the completion must stay behind the      *)
(* results that are not told yet.                                          *)
(***************************************************************************)
AllSucceeded(r) == \A n \in Nodes : r.node[n] = "succeeded"

IsTrue(r, f) ==
  /\ f.what = "succeeded" => f.node \in Nodes /\ r.node[f.node] = "succeeded"
  /\ f.what = "completed" => AllSucceeded(r)

Success(r, n) == About(n, r.attempts[n], "succeeded")

Honest(r, in, p) ==
  \A i \in 1 .. Len(p) :
    /\ IsTrue(r, p[i])
    /\ p[i].what = "completed" =>
         \A n \in Nodes : \/ Success(r, n) \in in
                          \/ \E j \in 1 .. Len(p) : j < i /\ p[j] = Success(r, n)

HonestCall(r, in, c) ==
  /\ Honest(r, in, c.seen.pending)
  /\ c.pc = "emitted" => c.seen.pending # <<>> /\ Head(c.seen.pending) \in in

Told(r, in, f) == f \in in \/ \E i \in 1 .. Len(r.pending) : r.pending[i] = f

AllTold(r, in) ==
  /\ r.status \in {"completed", "expired"} => Told(r, in, Plan(r.status))
  /\ \A n \in Nodes :
       /\ r.node[n] = "succeeded" => Told(r, in, Success(r, n))
       /\ r.node[n] = "failed" => \/ Told(r, in, About(n, r.attempts[n], "failed"))
                                  \/ Told(r, in, About(n, 0, "deadline"))

HonestLog(r, in) ==
  /\ \A f \in in : IsTrue(r, f)
  /\ \A f \in in : f.what = "completed" => \A n \in Nodes : Success(r, n) \in in

Fed ==
  /\ AllTold(row, inbox)
  /\ HonestLog(row, inbox)
  /\ Honest(row, inbox, row.pending)
  /\ \A a \in Callers : HonestCall(row, inbox, call[a])

FInv == TypeOK /\ IInv /\ Fed

(* A later row: what succeeded has, and after as many attempts. *)
Later(r, s) ==
  \A n \in Nodes : r.node[n] = "succeeded" =>
    s.node[n] = "succeeded" /\ s.attempts[n] = r.attempts[n]

LEMMA TrueStays ==
  ASSUME NEW r, NEW s, Later(r, s), NEW f, IsTrue(r, f)
  PROVE  IsTrue(s, f)
PROOF BY DEF Later, IsTrue, AllSucceeded

LEMMA SuccessStays ==
  ASSUME NEW r, NEW s, Later(r, s), AllSucceeded(r), NEW n \in Nodes
  PROVE  Success(s, n) = Success(r, n)
PROOF BY DEF Later, AllSucceeded, Success

LEMMA HonestStays ==
  ASSUME NEW r, NEW s, Later(r, s), NEW in, NEW more, in \subseteq more,
         NEW p, Honest(r, in, p)
  PROVE  Honest(s, more, p)
PROOF
  <1> SUFFICES ASSUME NEW i \in 1 .. Len(p)
               PROVE  /\ IsTrue(s, p[i])
                      /\ p[i].what = "completed" =>
                           \A n \in Nodes :
                             \/ Success(s, n) \in more
                             \/ \E j \in 1 .. Len(p) : j < i /\ p[j] = Success(s, n)
      BY DEF Honest
  <1>1. IsTrue(r, p[i])
        BY DEF Honest
  <1>2. IsTrue(s, p[i])
        BY <1>1, TrueStays
  <1>3. ASSUME p[i].what = "completed", NEW n \in Nodes
        PROVE  \/ Success(s, n) \in more
               \/ \E j \in 1 .. Len(p) : j < i /\ p[j] = Success(s, n)
    <2>1. Success(s, n) = Success(r, n)
          BY <1>1, <1>3, SuccessStays DEF IsTrue
    <2>2. \/ Success(r, n) \in in
          \/ \E j \in 1 .. Len(p) : j < i /\ p[j] = Success(r, n)
          BY <1>3 DEF Honest
    <2>3. QED
          BY <2>1, <2>2
  <1>4. QED
        BY <1>2, <1>3

LEMMA HonestCallStays ==
  ASSUME NEW r, NEW s, Later(r, s), NEW in, NEW more, in \subseteq more,
         NEW c, HonestCall(r, in, c)
  PROVE  HonestCall(s, more, c)
PROOF BY HonestStays DEF HonestCall

LEMMA HonestLogStays ==
  ASSUME NEW r, NEW s, Later(r, s), NEW in, HonestLog(r, in)
  PROVE  HonestLog(s, in)
PROOF
  <1>1. \A f \in in : IsTrue(s, f)
        BY TrueStays DEF HonestLog
  <1>2. ASSUME NEW f \in in, f.what = "completed", NEW n \in Nodes
        PROVE  Success(s, n) \in in
    <2>1. AllSucceeded(r) /\ Success(r, n) \in in
          BY <1>2 DEF HonestLog, IsTrue
    <2>2. QED
          BY <2>1, SuccessStays
  <1>3. QED
        BY <1>1, <1>2 DEF HonestLog

(* The oldest feedback has been told: the rest is as honest. *)
LEMMA HonestWithoutHead ==
  ASSUME NEW r, NEW in, NEW p \in Seq(Feedback), p # <<>>, Head(p) \in in,
         Honest(r, in, p)
  PROVE  Honest(r, in, Tail(p))
PROOF
  <1> DEFINE q == Tail(p)
  <1>1. /\ Len(p) \in Nat /\ Len(p) >= 1 /\ q \in Seq(Feedback)
        /\ Len(q) = Len(p) - 1 /\ p[1] \in in
        /\ \A i \in 1 .. Len(q) : q[i] = p[i + 1]
        OBVIOUS
  <1> HIDE DEF q
  <1> SUFFICES ASSUME NEW i \in 1 .. Len(q)
               PROVE  /\ IsTrue(r, q[i])
                      /\ q[i].what = "completed" =>
                           \A n \in Nodes :
                             \/ Success(r, n) \in in
                             \/ \E j \in 1 .. Len(q) : j < i /\ q[j] = Success(r, n)
      BY DEF Honest, q
  <1>2. i \in Nat /\ i + 1 \in 1 .. Len(p) /\ q[i] = p[i + 1]
        BY <1>1
  <1>3. IsTrue(r, q[i])
        BY <1>2 DEF Honest
  <1>4. ASSUME q[i].what = "completed", NEW n \in Nodes, Success(r, n) \notin in
        PROVE  \E j \in 1 .. Len(q) : j < i /\ q[j] = Success(r, n)
    <2>1. PICK j \in 1 .. Len(p) : j < i + 1 /\ p[j] = Success(r, n)
          BY <1>2, <1>4 DEF Honest
    <2>2. j # 1
          BY <1>1, <1>4, <2>1
    <2>3. j - 1 \in 1 .. Len(q) /\ j - 1 < i /\ (j - 1) + 1 = j
          BY <1>1, <1>2, <2>1, <2>2
    <2>4. q[j - 1] = p[j]
          BY <1>1, <2>3
    <2>5. QED
          BY <2>1, <2>3, <2>4
  <1>5. QED
        BY <1>3, <1>4

(* New feedback behind the old one: it has to be true, and a completion in *)
(* it has to be behind all results.                                        *)
LEMMA HonestWithMore ==
  ASSUME NEW r, NEW in, NEW p \in Seq(Feedback), NEW q \in Seq(Feedback),
         Honest(r, in, p),
         \A i \in 1 .. Len(q) :
           /\ IsTrue(r, q[i])
           /\ q[i].what = "completed" =>
                \A n \in Nodes :
                  \/ Success(r, n) \in in
                  \/ \E j \in 1 .. Len(p) : p[j] = Success(r, n)
                  \/ \E j \in 1 .. Len(q) : j < i /\ q[j] = Success(r, n)
  PROVE  Honest(r, in, p \o q)
PROOF
  <1> DEFINE w == p \o q
  <1>1. /\ Len(p) \in Nat /\ Len(q) \in Nat /\ Len(w) = Len(p) + Len(q)
        /\ \A i \in 1 .. Len(p) : i \in 1 .. Len(w) /\ w[i] = p[i]
        /\ \A i \in 1 .. Len(q) : Len(p) + i \in 1 .. Len(w) /\ w[Len(p) + i] = q[i]
        OBVIOUS
  <1> HIDE DEF w
  <1> SUFFICES ASSUME NEW i \in 1 .. Len(w)
               PROVE  /\ IsTrue(r, w[i])
                      /\ w[i].what = "completed" =>
                           \A n \in Nodes :
                             \/ Success(r, n) \in in
                             \/ \E j \in 1 .. Len(w) : j < i /\ w[j] = Success(r, n)
      BY DEF Honest, w
  <1>2. CASE i \in 1 .. Len(p)
    <2>1. w[i] = p[i] /\ IsTrue(r, w[i])
          BY <1>1, <1>2 DEF Honest
    <2>2. ASSUME w[i].what = "completed", NEW n \in Nodes, Success(r, n) \notin in
          PROVE  \E j \in 1 .. Len(w) : j < i /\ w[j] = Success(r, n)
      <3>1. PICK j \in 1 .. Len(p) : j < i /\ p[j] = Success(r, n)
            BY <1>2, <2>1, <2>2 DEF Honest
      <3>2. QED
            BY <1>1, <3>1
    <2>3. QED
          BY <2>1, <2>2
  <1>3. CASE i \notin 1 .. Len(p)
    <2>1. PICK k \in 1 .. Len(q) : i = Len(p) + k
      <3>1. i - Len(p) \in 1 .. Len(q) /\ i = Len(p) + (i - Len(p))
            BY <1>1, <1>3
      <3>2. QED
            BY <3>1
    <2>2. w[i] = q[k] /\ IsTrue(r, w[i])
          BY <1>1, <2>1
    <2>3. ASSUME w[i].what = "completed", NEW n \in Nodes, Success(r, n) \notin in
          PROVE  \E j \in 1 .. Len(w) : j < i /\ w[j] = Success(r, n)
      <3>1. \/ \E j \in 1 .. Len(p) : p[j] = Success(r, n)
            \/ \E j \in 1 .. Len(q) : j < k /\ q[j] = Success(r, n)
            BY <2>2, <2>3
      <3>2. CASE \E j \in 1 .. Len(p) : p[j] = Success(r, n)
        <4>1. PICK j \in 1 .. Len(p) : p[j] = Success(r, n)
              BY <3>2
        <4>2. j < i
              BY <1>1, <2>1
        <4>3. QED
              BY <1>1, <4>1, <4>2
      <3>3. CASE \E j \in 1 .. Len(q) : j < k /\ q[j] = Success(r, n)
        <4>1. PICK j \in 1 .. Len(q) : j < k /\ q[j] = Success(r, n)
              BY <3>3
        <4>2. Len(p) + j < i
              BY <1>1, <2>1, <4>1
        <4>3. QED
              BY <1>1, <4>1, <4>2
      <3>4. QED
            BY <3>1, <3>2, <3>3
    <2>4. QED
          BY <2>2, <2>3
  <1>4. QED
        BY <1>2, <1>3

(* Told stays told when feedback is added or the oldest has been told. *)
LEMMA ToldWithMore ==
  ASSUME NEW r, NEW s, NEW in, NEW q \in Seq(Feedback), r.pending \in Seq(Feedback),
         s.pending = r.pending \o q
  PROVE  /\ \A f : Told(r, in, f) => Told(s, in, f)
         /\ \A i \in 1 .. Len(q) : Told(s, in, q[i])
PROOF
  <1> DEFINE p == r.pending
             w == s.pending
  <1>1. /\ Len(p) \in Nat /\ Len(q) \in Nat /\ Len(w) = Len(p) + Len(q)
        /\ \A i \in 1 .. Len(p) : i \in 1 .. Len(w) /\ w[i] = p[i]
        /\ \A i \in 1 .. Len(q) : Len(p) + i \in 1 .. Len(w) /\ w[Len(p) + i] = q[i]
        OBVIOUS
  <1> HIDE DEF p, w
  <1>2. \A f : Told(r, in, f) => Told(s, in, f)
        BY <1>1 DEF Told, p, w
  <1>3. \A i \in 1 .. Len(q) : Told(s, in, q[i])
        BY <1>1 DEF Told, p, w
  <1>4. QED
        BY <1>2, <1>3

LEMMA ToldWithoutHead ==
  ASSUME NEW r, NEW s, NEW in, r.pending \in Seq(Feedback), r.pending # <<>>,
         Head(r.pending) \in in, s.pending = Tail(r.pending), NEW f, Told(r, in, f)
  PROVE  Told(s, in, f)
PROOF
  <1> DEFINE p == r.pending
             w == s.pending
  <1>1. /\ Len(p) \in Nat /\ Len(p) >= 1 /\ Len(w) = Len(p) - 1 /\ p[1] \in in
        /\ \A i \in 1 .. Len(w) : w[i] = p[i + 1]
        OBVIOUS
  <1> HIDE DEF p, w
  <1>2. CASE f \in in
        BY <1>2 DEF Told
  <1>3. CASE f \notin in
    <2>1. PICK i \in 1 .. Len(p) : p[i] = f
          BY <1>3 DEF Told, p
    <2>2. i # 1
          BY <1>1, <1>3, <2>1
    <2>3. i - 1 \in 1 .. Len(w) /\ (i - 1) + 1 = i
          BY <1>1, <2>1, <2>2
    <2>4. w[i - 1] = f
          BY <1>1, <2>1, <2>3
    <2>5. QED
          BY <2>3, <2>4 DEF Told, w
  <1>4. QED
        BY <1>2, <1>3
-----------------------------------------------------------------------------
(***************************************************************************)
(* The steps.                                                              *)
(***************************************************************************)
LEMMA NothingToTell ==
  ASSUME NEW r, NEW in, NEW c, c.seen.pending = <<>>, c.pc # "emitted"
  PROVE  HonestCall(r, in, c)
PROOF
  <1>1. Len(c.seen.pending) = 0
        OBVIOUS
  <1>2. QED
        BY <1>1 DEF HonestCall, Honest

LEMMA IdleIsHonest == ASSUME NEW r, NEW in PROVE HonestCall(r, in, Idle)
PROOF
  <1>1. Idle.seen.pending = <<>> /\ Idle.pc # "emitted"
        BY DEF Idle, Absent
  <1>2. QED
        BY <1>1, NothingToTell

LEMMA InitIsFed == Init => Fed
PROOF
  <1> SUFFICES ASSUME Init PROVE Fed
      OBVIOUS
  <1>1. row.pending = <<>> /\ row.status = "absent" /\ \A n \in Nodes : row.node[n] = "pending"
        BY DEF Init, Absent
  <1>2. AllTold(row, inbox)
        BY <1>1 DEF AllTold
  <1>3. Honest(row, inbox, row.pending)
        BY <1>1 DEF Honest
  <1>4. HonestLog(row, inbox)
        BY DEF Init, HonestLog
  <1>5. \A a \in Callers : HonestCall(row, inbox, call[a])
        BY IdleIsHonest DEF Init
  <1>6. QED
        BY <1>2, <1>3, <1>4, <1>5 DEF Fed

(* One caller changes; the others' copies stay honest of the new row.      *)
LEMMA OneHonestCall ==
  ASSUME FInv, NEW a \in Callers, NEW c, call' = [call EXCEPT ![a] = c],
         Later(row, row'), inbox \subseteq inbox', HonestCall(row', inbox', c)
  PROVE  \A b \in Callers : HonestCall(row', inbox', call'[b])
PROOF
  <1> SUFFICES ASSUME NEW b \in Callers PROVE HonestCall(row', inbox', call'[b])
      OBVIOUS
  <1>1. CASE b = a
    <2>1. call'[b] = c
          BY <1>1 DEF FInv, TypeOK
    <2>2. QED
          BY <2>1
  <1>2. CASE b # a
    <2>1. call'[b] = call[b]
          BY <1>2 DEF FInv, TypeOK
    <2>2. HonestCall(row, inbox, call[b])
          BY DEF FInv, Fed
    <2>3. QED
          BY <2>1, <2>2, HonestCallStays
  <1>3. QED
        BY <1>1, <1>2

(* Nobody saves and nothing is told. *)
LEMMA NothingSaved ==
  ASSUME FInv, row' = row, inbox' = inbox,
         \A b \in Callers : HonestCall(row, inbox, call'[b])
  PROVE  Fed'
PROOF BY DEF FInv, Fed

LEMMA FlushingIsHonest ==
  ASSUME NEW r, NEW in, NEW at, NEW last, Honest(r, in, r.pending)
  PROVE  HonestCall(r, in, Flushing(r, at, last))
PROOF BY DEF HonestCall, Flushing

LEMMA CallerKeepsFed ==
  ASSUME FInv, NEW a \in Callers,
         BeginAdvance(a) \/ Return(a) \/ Conflict(a) \/ Abandon(a) \/ Start(a)
  PROVE  Fed'
PROOF
  <1>1. row' = row /\ inbox' = inbox /\ Later(row, row')
        BY DEF BeginAdvance, Return, Conflict, Abandon, Start, Later
  <1>2. PICK c : /\ HonestCall(row, inbox, c)
                 /\ call' = [call EXCEPT ![a] = c] \/ call' = call
    <2>1. CASE BeginAdvance(a) \/ Start(a)
          BY <2>1, FlushingIsHonest DEF BeginAdvance, Start, FInv, Fed
    <2>2. CASE Return(a) \/ Conflict(a) \/ Abandon(a)
          BY <2>2, IdleIsHonest DEF Return, Conflict, Abandon
    <2>3. QED
          BY <2>1, <2>2
  <1>3. \A b \in Callers : HonestCall(row, inbox, call'[b])
    <2>1. CASE call' = [call EXCEPT ![a] = c]
          BY <1>1, <1>2, <2>1, OneHonestCall
    <2>2. CASE call' = call
          BY <2>2 DEF FInv, Fed
    <2>3. QED
          BY <1>2, <2>1, <2>2
  <1>4. QED
        BY <1>1, <1>3, NothingSaved

LEMMA SurroundingsKeepFed ==
  ASSUME FInv, Tick \/ Crash \/ UNCHANGED vars PROVE Fed'
PROOF
  <1>1. row' = row /\ inbox' = inbox
        BY DEF Tick, Crash, vars
  <1>2. \A b \in Callers : HonestCall(row, inbox, call'[b])
        BY IdleIsHonest DEF Tick, Crash, vars, FInv, Fed
  <1>3. QED
        BY <1>1, <1>2, NothingSaved

(* The oldest feedback of a copy reaches the fabric: it is true, and when  *)
(* it is the completion no result is in front of it any more.              *)
LEMMA EmitKeepsFed ==
  ASSUME FInv, NEW a \in Callers, Emit(a) PROVE Fed'
PROOF
  <1> DEFINE p == call[a].seen.pending
             f == Head(p)
  <1>1. /\ row' = row /\ inbox' = inbox \cup {f} /\ p # <<>>
        /\ call' = [call EXCEPT ![a] = [call[a] EXCEPT !.pc = "emitted"]]
        BY DEF Emit, FInv, TypeOK
  <1>2. call[a] \in Call /\ Honest(row, inbox, p)
        BY DEF FInv, TypeOK, Fed, HonestCall
  <1>3. p \in Seq(Feedback)
        BY <1>2, CallOf, RowOf
  <1>4. Len(p) \in Nat /\ 1 \in 1 .. Len(p) /\ p[1] = f
        BY <1>1, <1>3
  <1> HIDE DEF p, f
  <1>5. IsTrue(row, f)
        BY <1>2, <1>4 DEF Honest
  <1>6. f.what = "completed" => \A n \in Nodes : Success(row, n) \in inbox
    <2>1. \A j \in 1 .. Len(p) : ~(j < 1)
          OBVIOUS
    <2>2. QED
          BY <1>2, <1>4, <2>1 DEF Honest
  <1>7. HonestLog(row', inbox')
    <2>1. HonestLog(row, inbox)
          BY DEF FInv, Fed
    <2>2. QED
          BY <1>1, <1>5, <1>6, <2>1 DEF HonestLog
  <1>8. inbox \subseteq inbox' /\ Later(row, row')
        BY <1>1 DEF Later
  <1>9. Honest(row', inbox', row'.pending)
        BY <1>1, <1>8, HonestStays DEF FInv, Fed
  <1>10. AllTold(row', inbox')
    <2>1. \A g : Told(row, inbox, g) => Told(row', inbox', g)
          BY <1>1 DEF Told
    <2>2. AllTold(row, inbox)
          BY DEF FInv, Fed
    <2>3. QED
          BY <1>1, <2>1, <2>2 DEF AllTold
  <1>11. PICK c : c = [call[a] EXCEPT !.pc = "emitted"]
        OBVIOUS
  <1>12. c.seen = call[a].seen
        BY <1>2, <1>11, CallOf
  <1>13. HonestCall(row', inbox', c)
    <2>1. Honest(row', inbox', p)
          BY <1>2, <1>8, HonestStays
    <2>2. f \in inbox' /\ c.seen.pending = p /\ f = Head(p)
          BY <1>1, <1>12 DEF p, f
    <2>3. QED
          BY <1>1, <2>1, <2>2 DEF HonestCall
  <1>14. \A b \in Callers : HonestCall(row', inbox', call'[b])
        BY <1>1, <1>8, <1>11, <1>13, OneHonestCall
  <1>15. QED
        BY <1>7, <1>9, <1>10, <1>14 DEF Fed

(* A save tells nothing by itself.  The saved row has to be honest and to  *)
(* keep what the old one told.                                             *)
LEMMA SavedRow ==
  ASSUME FInv, inbox' = inbox, Later(row, row'), AllTold(row', inbox),
         Honest(row', inbox, row'.pending),
         \/ call' = call
         \/ \E a \in Callers : \E c : /\ call' = [call EXCEPT ![a] = c]
                                      /\ c.seen = row' /\ c.pc # "emitted"
  PROVE  Fed'
PROOF
  <1>1. HonestLog(row', inbox)
        BY HonestLogStays DEF FInv, Fed
  <1>2. \A b \in Callers : HonestCall(row', inbox', call'[b])
    <2>1. CASE call' = call
          BY <2>1, HonestCallStays DEF FInv, Fed
    <2>2. ASSUME NEW a \in Callers, NEW c, call' = [call EXCEPT ![a] = c],
                 c.seen = row', c.pc # "emitted"
          PROVE  \A b \in Callers : HonestCall(row', inbox', call'[b])
      <3>1. HonestCall(row', inbox', c)
            BY <2>2 DEF HonestCall
      <3>2. QED
            BY <2>2, <3>1, OneHonestCall
    <2>3. QED
          BY <2>1, <2>2
  <1>3. QED
        BY <1>1, <1>2 DEF Fed

LEMMA CallGoesOn ==
  ASSUME NEW c \in Call, NEW seen, NEW nodes
  PROVE  /\ [c EXCEPT !.pc = "flush", !.seen = seen].seen = seen
         /\ [c EXCEPT !.pc = "flush", !.seen = seen].pc = "flush"
         /\ [c EXCEPT !.pc = "executing", !.seen = seen, !.nodes = nodes].seen = seen
         /\ [c EXCEPT !.pc = "executing", !.seen = seen, !.nodes = nodes].pc = "executing"
PROOF BY DEF Call

LEMMA FlushingGoesOn ==
  ASSUME NEW seen, NEW at, NEW last
  PROVE  Flushing(seen, at, last).seen = seen /\ Flushing(seen, at, last).pc = "flush"
PROOF BY DEF Flushing

LEMMA FedNow ==
  ASSUME FInv
  PROVE  /\ row.pending \in Seq(Feedback) /\ row.attempts \in [Nodes -> Nat]
         /\ AllTold(row, inbox) /\ Honest(row, inbox, row.pending)
         /\ call \in [Callers -> Call]
PROOF BY RowOf DEF FInv, Fed, TypeOK

LEMMA SubmitKeepsFed == ASSUME FInv, Submit PROVE Fed'
PROOF
  <1>1. row'.status = "ready" /\ row'.pending = <<Plan("accepted")>>
        /\ \A n \in Nodes : row'.node[n] = "pending"
        BY SubmitSaves DEF Absent
  <1>2. \A n \in Nodes : row.node[n] = "pending"
        BY DEF Submit, Absent
  <1>3. AllTold(row', inbox) /\ Later(row, row')
        BY <1>1, <1>2 DEF AllTold, Later
  <1>4. Plan("accepted").what = "accepted"
        BY AboutTells DEF Plan
  <1>5. Honest(row', inbox, row'.pending)
        BY <1>1, <1>4 DEF Honest, IsTrue
  <1>6. QED
        BY <1>3, <1>5, SavedRow DEF Submit

LEMMA AcknowledgeKeepsFed ==
  ASSUME FInv, NEW a \in Callers, Acknowledge(a) PROVE Fed'
PROOF
  <1>1. row.pending # <<>> /\ Head(row.pending) \in inbox
        BY DEF Acknowledge, Fresh, FInv, Fed, HonestCall
  <1>2. /\ row'.pending = Tail(row.pending)
        /\ row'.status = row.status /\ row'.node = row.node
        /\ row'.attempts = row.attempts
        BY <1>1, AcknowledgeSaves DEF FInv
  <1>3. Later(row, row')
        BY <1>2 DEF Later
  <1>4. \A f : Told(row, inbox, f) => Told(row', inbox, f)
        BY <1>1, <1>2, FedNow, ToldWithoutHead
  <1>5. AllTold(row', inbox)
        BY <1>2, <1>4, FedNow DEF AllTold, Success
  <1>6. Honest(row', inbox, row'.pending)
    <2>1. Honest(row, inbox, Tail(row.pending))
          BY <1>1, FedNow, HonestWithoutHead
    <2>2. QED
          BY <1>2, <1>3, <2>1, HonestStays
  <1>7. PICK c : c = [call[a] EXCEPT !.pc = "flush", !.seen = row']
        OBVIOUS
  <1>8. c.seen = row' /\ c.pc # "emitted" /\ call' = [call EXCEPT ![a] = c]
    <2>1. call[a] \in Call
          BY FedNow
    <2>2. c.seen = row' /\ c.pc = "flush"
          BY <1>7, <2>1, CallGoesOn
    <2>3. call' = [call EXCEPT ![a] = c]
          BY <1>7, FedNow DEF Acknowledge
    <2>4. QED
          BY <2>2, <2>3
  <1>9. QED
        BY <1>3, <1>5, <1>6, <1>8, SavedRow DEF Acknowledge

LEMMA ExpireKeepsFed ==
  ASSUME FInv, NEW a \in Callers, Expire(a) PROVE Fed'
PROOF
  <1> DEFINE q == <<Plan("expired")>>
  <1>1. /\ row'.pending = row.pending \o q
        /\ row'.status = "expired" /\ row'.node = row.node
        /\ row'.attempts = row.attempts
        BY ExpireSaves DEF FInv
  <1>2. q \in Seq(Feedback) /\ Len(q) = 1 /\ q[1] = Plan("expired")
        BY PlanFeedback
  <1> HIDE DEF q
  <1>3. Later(row, row')
        BY <1>1 DEF Later
  <1>4. /\ \A f : Told(row, inbox, f) => Told(row', inbox, f)
        /\ Told(row', inbox, Plan("expired"))
    <2>1. /\ \A f : Told(row, inbox, f) => Told(row', inbox, f)
          /\ \A i \in 1 .. Len(q) : Told(row', inbox, q[i])
          BY <1>1, <1>2, FedNow, ToldWithMore
    <2>2. 1 \in 1 .. Len(q)
          BY <1>2
    <2>3. QED
          BY <1>2, <2>1, <2>2
  <1>5. AllTold(row', inbox)
        BY <1>1, <1>4, FedNow DEF AllTold, Success
  <1>6. Plan("expired").what = "expired"
        BY AboutTells DEF Plan
  <1>7. Honest(row', inbox, row'.pending)
    <2>1. Honest(row', inbox, row.pending)
          BY <1>3, FedNow, HonestStays
    <2>2. \A i \in 1 .. Len(q) : q[i].what = "expired"
          BY <1>2, <1>6
    <2>3. QED
          BY <1>1, <1>2, <2>1, <2>2, FedNow, HonestWithMore DEF IsTrue
  <1>8. QED
        BY <1>3, <1>5, <1>7, FlushingGoesOn, SavedRow DEF Expire

LEMMA MissDeadlineKeepsFed ==
  ASSUME FInv, NEW a \in Callers, MissDeadline(a) PROVE Fed'
PROOF
  <1> DEFINE late == Late(row, call[a].at)
             q == Missed(late)
  <1>1. /\ row'.pending = row.pending \o q
        /\ row'.status = "failed" /\ row'.attempts = row.attempts
        /\ late \subseteq Nodes /\ \A n \in late : row.node[n] = "pending"
        /\ \A n \in Nodes : row'.node[n] = IF n \in late THEN "failed" ELSE row.node[n]
        BY MissDeadlineSaves DEF FInv
  <1> HIDE DEF late
  <1>2. /\ q \in Seq(Feedback)
        /\ \A i \in 1 .. Len(q) : q[i].what = "deadline"
        /\ \A n \in late : \E i \in 1 .. Len(q) : q[i] = About(n, 0, "deadline")
        BY <1>1, MissedIsFeedback
  <1> HIDE DEF q
  <1>3. Later(row, row')
        BY <1>1 DEF Later
  <1>4. /\ \A f : Told(row, inbox, f) => Told(row', inbox, f)
        /\ \A i \in 1 .. Len(q) : Told(row', inbox, q[i])
        BY <1>1, <1>2, FedNow, ToldWithMore
  <1>5. AllTold(row', inbox)
    <2>1. ASSUME NEW n \in Nodes, n \in late
          PROVE  Told(row', inbox, About(n, 0, "deadline"))
          BY <1>2, <1>4, <2>1
    <2>2. QED
          BY <1>1, <1>4, <2>1, FedNow DEF AllTold, Success
  <1>6. Honest(row', inbox, row'.pending)
    <2>1. Honest(row', inbox, row.pending)
          BY <1>3, FedNow, HonestStays
    <2>2. QED
          BY <1>1, <1>2, <2>1, FedNow, HonestWithMore DEF IsTrue
  <1>7. QED
        BY <1>3, <1>5, <1>6, FlushingGoesOn, SavedRow DEF MissDeadline

LEMMA SelectKeepsFed ==
  ASSUME FInv, NEW a \in Callers, Select(a) PROVE Fed'
PROOF
  <1> DEFINE chosen == Selected(row)
  <1>1. /\ row'.pending = row.pending /\ row'.status = "running"
        /\ \A n \in chosen : row.node[n] = "pending"
        /\ \A n \in Nodes : row'.node[n] = IF n \in chosen THEN "running" ELSE row.node[n]
        /\ \A n \in Nodes \ chosen : row'.attempts[n] = row.attempts[n]
        BY SelectSaves DEF FInv
  <1>2. PICK c : c = [call[a] EXCEPT !.pc = "executing", !.seen = row', !.nodes = chosen]
        OBVIOUS
  <1>3. call' = [call EXCEPT ![a] = c] /\ c.seen = row' /\ c.pc # "emitted"
    <2>1. call[a] \in Call
          BY FedNow
    <2>2. c.seen = row' /\ c.pc = "executing"
          BY <1>2, <2>1, CallGoesOn
    <2>3. call' = [call EXCEPT ![a] = c]
          BY <1>2, FedNow DEF Select, Fresh
    <2>4. QED
          BY <2>2, <2>3
  <1> HIDE DEF chosen
  <1>4. Later(row, row')
        BY <1>1 DEF Later
  <1>5. AllTold(row', inbox)
    <2>1. \A f : Told(row, inbox, f) => Told(row', inbox, f)
          BY <1>1 DEF Told
    <2>2. \A n \in Nodes : row'.node[n] \in {"succeeded", "failed"} =>
            n \notin chosen /\ row'.node[n] = row.node[n] /\ row'.attempts[n] = row.attempts[n]
          BY <1>1
    <2>3. QED
          BY <1>1, <2>1, <2>2, FedNow DEF AllTold, Success
  <1>6. Honest(row', inbox, row'.pending)
        BY <1>1, <1>4, FedNow, HonestStays
  <1>7. QED
        BY <1>3, <1>4, <1>5, <1>6, SavedRow DEF Select

(* A round that ends: the nodes it ran are told, and when the plan is      *)
(* completed with it, the nodes of earlier rounds have been told or wait   *)
(* in front of the completion.                                             *)
LEMMA FinishKeepsFed ==
  ASSUME FInv, NEW a \in Callers, NEW outcome \in [call[a].nodes -> Outcomes],
         Finish(a, outcome)
  PROVE  Fed'
PROOF
  <1> DEFINE nodes == call[a].nodes
             q == Report(row, outcome, row'.status)
  <1>1. /\ row'.pending = row.pending \o q
        /\ row'.status \in {"completed", "failed", "running"}
        /\ row'.status = "completed" => AllSucceeded(row')
        /\ row'.attempts = row.attempts
        /\ nodes \subseteq Nodes /\ \A n \in nodes : row.node[n] = "running"
        /\ \A n \in Nodes \ nodes : row'.node[n] = row.node[n]
        /\ \A n \in nodes : /\ row'.node[n] \in {"pending", outcome[n]}
                            /\ outcome[n] = "succeeded" => row'.node[n] = "succeeded"
        BY FinishSaves DEF FInv, AllSucceeded
  <1>2. row \in Execution
        BY DEF FInv, TypeOK
  <1>3. /\ q \in Seq(Feedback)
        /\ \A i \in 1 .. Len(q) :
             \/ q[i] = Plan("completed") /\ row'.status = "completed"
             \/ \E n \in nodes : q[i] = About(n, row.attempts[n], outcome[n])
        /\ \A n \in nodes : \E i \in 1 .. Len(q) :
             /\ q[i] = About(n, row.attempts[n], outcome[n])
             /\ \A j \in 1 .. Len(q) : q[j] = Plan("completed") => i < j
        /\ row'.status = "completed" => \E i \in 1 .. Len(q) : q[i] = Plan("completed")
    <2>1. IsReport(q, row, nodes, outcome, row'.status)
          BY <1>1, <1>2, ReportIsFeedback
    <2> HIDE DEF q, nodes
    <2>2. QED
          BY <2>1 DEF IsReport
  <1> HIDE DEF q
  <1>4. Later(row, row')
        BY <1>1 DEF Later
  <1>5. /\ \A f : Told(row, inbox, f) => Told(row', inbox, f)
        /\ \A i \in 1 .. Len(q) : Told(row', inbox, q[i])
        BY <1>1, <1>3, FedNow, ToldWithMore
  <1>6. \A n \in nodes : outcome[n] \in Outcomes
        OBVIOUS
  <1>7. AllTold(row', inbox)
    <2>1. ASSUME NEW n \in nodes
          PROVE  Told(row', inbox, About(n, row.attempts[n], outcome[n]))
          BY <1>3, <1>5
    <2>2. ASSUME NEW n \in Nodes
          PROVE  /\ row'.node[n] = "succeeded" => Told(row', inbox, Success(row', n))
                 /\ row'.node[n] = "failed" =>
                      \/ Told(row', inbox, About(n, row'.attempts[n], "failed"))
                      \/ Told(row', inbox, About(n, 0, "deadline"))
      <3>1. CASE n \in nodes
            BY <1>1, <2>1, <3>1 DEF Success
      <3>2. CASE n \notin nodes
            BY <1>1, <1>5, <3>2, FedNow DEF AllTold, Success
      <3>3. QED
            BY <3>1, <3>2
    <2>3. row'.status = "completed" => Told(row', inbox, Plan("completed"))
          BY <1>3, <1>5
    <2>4. QED
          BY <1>1, <2>2, <2>3 DEF AllTold
  <1>8. Honest(row', inbox, row'.pending)
    <2>1. Honest(row', inbox, row.pending)
          BY <1>4, FedNow, HonestStays
    <2>2. Plan("completed").what = "completed"
          BY AboutTells DEF Plan
    <2>3. ASSUME NEW i \in 1 .. Len(q) PROVE IsTrue(row', q[i])
      <3>1. CASE q[i] = Plan("completed") /\ row'.status = "completed"
            BY <1>1, <2>2, <3>1 DEF IsTrue
      <3>2. ASSUME NEW n \in nodes, q[i] = About(n, row.attempts[n], outcome[n])
            PROVE  IsTrue(row', q[i])
        <4>0. q[i].node = n /\ q[i].what = outcome[n]
              BY <3>2, AboutTells
        <4>1. q[i].what \in Outcomes /\ q[i].node \in Nodes
              BY <1>1, <1>6, <4>0
        <4>2. q[i].what = "succeeded" => row'.node[q[i].node] = "succeeded"
              BY <1>1, <4>0
        <4>3. QED
              BY <4>1, <4>2 DEF IsTrue, Outcomes
      <3>3. QED
            BY <1>3, <3>1, <3>2
    <2>4. ASSUME NEW i \in 1 .. Len(q), q[i].what = "completed", NEW n \in Nodes
          PROVE  \/ Success(row', n) \in inbox
                 \/ \E j \in 1 .. Len(row.pending) : row.pending[j] = Success(row', n)
                 \/ \E j \in 1 .. Len(q) : j < i /\ q[j] = Success(row', n)
      <3>1. q[i] = Plan("completed") /\ row'.status = "completed"
        <4>1. ASSUME NEW m \in nodes, q[i] = About(m, row.attempts[m], outcome[m])
              PROVE  FALSE
          <5>1. q[i].what = outcome[m] /\ outcome[m] \in Outcomes
                BY <1>6, <4>1, AboutTells
          <5>2. QED
                BY <2>4, <5>1 DEF Outcomes
        <4>2. QED
              BY <1>3, <4>1
      <3>2. row'.node[n] = "succeeded" /\ Success(row', n) = Success(row, n)
            BY <1>1, <3>1 DEF AllSucceeded, Success
      <3>3. CASE n \in nodes
        <4>1. outcome[n] = "succeeded"
              BY <1>1, <3>2, <3>3
        <4>2. QED
              BY <1>3, <3>1, <3>2, <3>3, <4>1 DEF Success
      <3>4. CASE n \notin nodes
        <4>1. row.node[n] = "succeeded"
              BY <1>1, <3>2, <3>4
        <4>2. Told(row, inbox, Success(row, n))
              BY <4>1, FedNow DEF AllTold
        <4>3. QED
              BY <3>2, <4>2 DEF Told
      <3>5. QED
            BY <3>3, <3>4
    <2>5. q \in Seq(Feedback) /\ row.pending \in Seq(Feedback)
          BY <1>3, FedNow
    <2>6. Honest(row', inbox, row.pending \o q)
          BY <2>1, <2>3, <2>4, <2>5, HonestWithMore
    <2>7. QED
          BY <1>1, <2>6
  <1>9. inbox' = inbox /\ \E c : /\ call' = [call EXCEPT ![a] = c]
                                /\ c.seen = row' /\ c.pc # "emitted"
    <2>1. inbox' = inbox /\ call' = [call EXCEPT ![a] = Flushing(row', call[a].at, TRUE)]
          BY DEF Finish
    <2>2. QED
          BY <2>1, FlushingGoesOn
  <1>10. QED
        BY <1>4, <1>7, <1>8, <1>9, SavedRow

LEMMA WakeKeepsFed == ASSUME FInv, Wake PROVE Fed'
PROOF
  <1>1. /\ row'.pending = row.pending /\ row'.status = row.status
        /\ row'.attempts = row.attempts
        /\ \A n \in Nodes : \/ row'.node[n] = row.node[n]
                            \/ row.node[n] = "waiting" /\ row'.node[n] = "pending"
        BY WakeSaves DEF FInv
  <1>2. Later(row, row')
        BY <1>1 DEF Later
  <1>3. \A f : Told(row, inbox, f) => Told(row', inbox, f)
        BY <1>1 DEF Told
  <1>4. \A n \in Nodes : row'.node[n] \in {"succeeded", "failed"} => row'.node[n] = row.node[n]
        BY <1>1
  <1>5. AllTold(row', inbox)
        BY <1>1, <1>3, <1>4, FedNow DEF AllTold, Success
  <1>6. Honest(row', inbox, row'.pending)
        BY <1>1, <1>2, FedNow, HonestStays
  <1>7. QED
        BY <1>2, <1>5, <1>6, SavedRow DEF Wake

LEMMA StepIsFed == FInv /\ [Next]_vars => FInv'
PROOF
  <1> SUFFICES ASSUME FInv, [Next]_vars PROVE FInv'
      OBVIOUS
  <1>1. Fed'
    <2>1. ASSUME NEW a \in Callers, Advance(a) PROVE Fed'
          BY <2>1, CallerKeepsFed, EmitKeepsFed, AcknowledgeKeepsFed, ExpireKeepsFed,
             MissDeadlineKeepsFed, SelectKeepsFed, FinishKeepsFed DEF Advance
    <2>2. ASSUME NEW a \in Callers, Start(a) PROVE Fed'
          BY <2>2, CallerKeepsFed
    <2>3. QED
          BY <2>1, <2>2, SubmitKeepsFed, WakeKeepsFed, SurroundingsKeepFed DEF Next
  <1>2. IInv'
        BY StepIsSafe DEF FInv
  <1>3. \A a \in Callers : call[a].pc = "emitted" => call[a].seen.pending # <<>>
        BY DEF FInv, Fed, HonestCall
  <1>4. row' \in Execution /\ inbox' \subseteq Feedback /\ ran' \in [Nodes -> Nat]
        BY <1>3, StoredStaysTyped DEF FInv
  <1>5. TypeOK'
        BY <1>4, CallsStayTyped, CountersStayTyped, AllTyped DEF FInv
  <1>6. QED
        BY <1>1, <1>2, <1>5 DEF FInv
-----------------------------------------------------------------------------
THEOREM FeedbackInvariant == Spec => []FInv
PROOF
  <1>1. Init => FInv
        BY InitIsTyped, InitIsSafe, InitIsFed DEF FInv
  <1>2. QED
        BY <1>1, StepIsFed, PTL DEF Spec

(* Rows, calls and feedback keep their types. *)
THEOREM CoordinatorTypes == Spec => []TypeOK
PROOF
  <1>1. FInv => TypeOK
        BY DEF FInv
  <1>2. QED
        BY <1>1, FeedbackInvariant, PTL

(***************************************************************************)
(* Whatever races, raises or crashes, what the row says of a node or of    *)
(* the plan has reached the fabric or still waits in the row.              *)
(***************************************************************************)
THEOREM NoResultIsLost == Spec => []NothingUntold
PROOF
  <1>1. FInv => NothingUntold
        BY DEF FInv, Fed, AllTold, Told, Success, NothingUntold
  <1>2. QED
        BY <1>1, FeedbackInvariant, PTL

(***************************************************************************)
(* What was told is true and stays true, and the completion of the plan    *)
(* was told after the success of every node, also by callers that repeat   *)
(* feedback from an old copy of the row.                                   *)
(***************************************************************************)
THEOREM TruthInOrder == Spec => []ToldInOrder
PROOF
  <1>1. Plan("completed").what = "completed"
        BY AboutTells DEF Plan
  <1>2. FInv => ToldInOrder
        BY <1>1 DEF FInv, Fed, HonestLog, IsTrue, Success, ToldInOrder
  <1>3. QED
        BY <1>2, FeedbackInvariant, PTL
=============================================================================
