------------------------------ MODULE Coordinator ------------------------------
(***************************************************************************)
(* ExecutionCoordinator on one validated action plan.                      *)
(*                                                                         *)
(* The plan's execution is one row of action_plans.  Every change is a     *)
(* compare-and-swap of the whole encoded row, so a caller that read an     *)
(* older row loses with PlanExecutionConflict.  Between its transactions   *)
(* advance awaits the event sink, once per feedback, and the executors of  *)
(* the nodes it selected; another advance, the wake-up of task nodes, an   *)
(* exception and a crash of the process come in there.  The executors are  *)
(* not part of the repository's runtime: they may succeed, fail or wait.   *)
(***************************************************************************)
EXTENDS Naturals, Sequences, SequencesExt

CONSTANTS
  Nodes,        (* action nodes; their order is that of node_id            *)
  Before,       (* edges <<source, target>>                                *)
  Retryable,    (* nodes of a kind in _SAFE_AUTOMATIC_RETRY_KINDS          *)
  RetryLimit,   (* ActionNode.retry_limit                                  *)
  TaskNodes,    (* nodes of a kind in _TASK_EVENT_NODE_KINDS               *)
  Linked,       (* nodes whose output carries the task_id                  *)
  Deadline,     (* ActionNode.deadline_at, beyond MaxTime for None         *)
  ExpiresAt,    (* ActionPlan.expires_at                                   *)
  Concurrency,  (* ActionPlan.concurrency                                  *)
  Callers,      (* concurrent calls of advance                             *)
  MaxTime,      (* bound on the clock                                      *)
  MaxWakes,     (* bound on task events                                    *)
  MaxFailures,  (* bound on exceptions and cancellations                   *)
  MaxRestarts,  (* bound on crashes of the process                         *)
  NoNode        (* model value: feedback about the plan itself             *)

ASSUME CoordinatorAssumption ==
  /\ Nodes \subseteq Nat
  /\ IsFiniteSet(Nodes)
  /\ Before \subseteq Nodes \X Nodes
  /\ Retryable \subseteq Nodes /\ TaskNodes \subseteq Nodes /\ Linked \subseteq Nodes
  /\ RetryLimit \in [Nodes -> Nat]
  /\ Deadline \in [Nodes -> Nat]
  /\ ExpiresAt \in Nat
  /\ Concurrency \in Nat \ {0}
  /\ MaxTime \in Nat /\ MaxWakes \in Nat /\ MaxFailures \in Nat
  /\ MaxRestarts \in Nat
  /\ NoNode \notin Nodes

VARIABLES
  row,       (* the execution stored in action_plans                       *)
  inbox,     (* feedback events the fabric has made durable, each once     *)
  call,      (* what every call of advance or recover_feedback is doing    *)
  ran,       (* how often the executor of a node was started               *)
  up,        (* the process runs                                           *)
  now, wakes, failures, restarts

vars == <<row, inbox, call, ran, up, now, wakes, failures, restarts>>

NodeStatus == {"pending", "running", "waiting", "succeeded", "failed"}
PlanStatus == {"absent", "ready", "running", "completed", "failed", "expired"}
Over == {"completed", "failed", "expired"}

About(n, k, what) == [node |-> n, attempt |-> k, what |-> what]
Plan(what) == About(NoNode, 0, what)

Absent == [status |-> "absent", node |-> [n \in Nodes |-> "pending"],
           attempts |-> [n \in Nodes |-> 0], linked |-> {}, pending |-> <<>>,
           version |-> 0]
Idle == [pc |-> "idle", seen |-> Absent, at |-> 0, nodes |-> {}, last |-> FALSE]
Flushing(seen, at, last) ==
  [pc |-> "flush", seen |-> seen, at |-> at, nodes |-> {}, last |-> last]
-----------------------------------------------------------------------------
(* _runnable: pending nodes whose predecessors have all succeeded. *)
Runnable_anyAttempted(r) ==
  {n \in Nodes : /\ r.node[n] = "pending"
                 /\ \A e \in Before : e[2] = n => r.attempts[e[1]] > 0}
Runnable(r) ==
  {n \in Nodes : /\ r.node[n] = "pending"
                 /\ \A e \in Before : e[2] = n => r.node[e[1]] = "succeeded"}

(* runnable_node_ids[: concurrency] *)
Selected(r) ==
  {n \in Runnable(r) : Cardinality({m \in Runnable(r) : m < n}) < Concurrency}

Late(r, t) == {n \in Runnable(r) : Deadline[n] <= t}

(* _save: the swap succeeds only on the very row the caller has read. *)
Fresh(seen) == seen = row

(* A failed node goes back to pending while it may be retried. *)
Settled_always(r, n, outcome, t) ==
  IF outcome = "failed" /\ r.attempts[n] <= RetryLimit[n] THEN "pending" ELSE outcome
Settled(r, n, outcome, t) ==
  IF /\ outcome = "failed"
     /\ r.attempts[n] <= RetryLimit[n]
     /\ n \in Retryable
     /\ t < Deadline[n]
  THEN "pending" ELSE outcome

(* The status of the plan once the results of a round are in. *)
Verdict_waiting(node) ==
  IF \E n \in Nodes : node[n] = "waiting" THEN "waiting"
  ELSE IF \A n \in Nodes : node[n] = "succeeded" THEN "completed" ELSE "running"
Verdict(node) ==
  IF \A n \in Nodes : node[n] = "succeeded" THEN "completed"
  ELSE IF \E n \in Nodes : node[n] = "failed" THEN "failed" ELSE "running"

InOrder(S) ==
  CHOOSE s \in SetToSeqs(S) : \A i, j \in DOMAIN s : i < j => s[i] < s[j]

(* Feedback of a round: node by node, then the completion of the plan. *)
Report_completionFirst(r, outcome, status) ==
  LET ids == InOrder(DOMAIN outcome) IN
  (IF status = "completed" THEN <<Plan("completed")>> ELSE <<>>) \o
  [i \in 1 .. Len(ids) |-> About(ids[i], r.attempts[ids[i]], outcome[ids[i]])]
Report(r, outcome, status) ==
  LET ids == InOrder(DOMAIN outcome) IN
  [i \in 1 .. Len(ids) |-> About(ids[i], r.attempts[ids[i]], outcome[ids[i]])] \o
  (IF status = "completed" THEN <<Plan("completed")>> ELSE <<>>)

(* What an executor may return; one that raises has failed. *)
Outcomes == {"succeeded", "failed", "waiting"}

Open_unlessExpired(r) == r.status # "expired"
Open(r) == r.status \notin Over
-----------------------------------------------------------------------------
(* submit of a plan that is not stored yet; again it returns the row. *)
Submit ==
  /\ up
  /\ row = Absent
  /\ now < ExpiresAt
  /\ row' = [Absent EXCEPT !.status = "ready", !.pending = <<Plan("accepted")>>,
                           !.version = 1]
  /\ UNCHANGED <<inbox, call, ran, up, now, wakes, failures, restarts>>

BeginAdvance(a) ==
  /\ up
  /\ call[a] = Idle
  /\ row # Absent
  /\ call' = [call EXCEPT ![a] = Flushing(row, now, FALSE)]
  /\ UNCHANGED <<row, inbox, ran, up, now, wakes, failures, restarts>>

(* _flush_feedback hands the oldest feedback to the fabric, which stores   *)
(* an event id once.                                                       *)
Emit_swallowed(a) ==
  /\ call[a].pc = "flush"
  /\ call[a].seen.pending # <<>>
  /\ inbox' \in {inbox, inbox \cup {Head(call[a].seen.pending)}}
  /\ call' = [call EXCEPT ![a].pc = "emitted"]
  /\ UNCHANGED <<row, ran, up, now, wakes, failures, restarts>>
Emit(a) ==
  /\ call[a].pc = "flush"
  /\ call[a].seen.pending # <<>>
  /\ inbox' = inbox \cup {Head(call[a].seen.pending)}
  /\ call' = [call EXCEPT ![a].pc = "emitted"]
  /\ UNCHANGED <<row, ran, up, now, wakes, failures, restarts>>

(* ... and saves the row without it. *)
Acknowledge(a) ==
  /\ call[a].pc = "emitted"
  /\ Fresh(call[a].seen)
  /\ row' = [call[a].seen EXCEPT !.pending = Tail(@), !.version = @ + 1]
  /\ call' = [call EXCEPT ![a].pc = "flush", ![a].seen = row']
  /\ UNCHANGED <<inbox, ran, up, now, wakes, failures, restarts>>

(* advance has flushed and goes on; a save of it starts the last flush. *)
Flushed(a) ==
  /\ call[a].pc = "flush"
  /\ call[a].seen.pending = <<>>

Proceeds(a) ==
  /\ Flushed(a)
  /\ ~call[a].last
  /\ Open(call[a].seen)

Expire(a) ==
  /\ Proceeds(a)
  /\ ExpiresAt <= call[a].at
  /\ Fresh(call[a].seen)
  /\ row' = [call[a].seen EXCEPT !.status = "expired", !.version = @ + 1,
                                 !.pending = Append(@, Plan("expired"))]
  /\ call' = [call EXCEPT ![a] = Flushing(row', @.at, TRUE)]
  /\ UNCHANGED <<inbox, ran, up, now, wakes, failures, restarts>>

MissDeadline(a) ==
  LET seen == call[a].seen
      late == InOrder(Late(seen, call[a].at))
      told == [i \in 1 .. Len(late) |-> About(late[i], 0, "deadline")]
  IN
  /\ Proceeds(a)
  /\ call[a].at < ExpiresAt
  /\ Late(seen, call[a].at) # {}
  /\ Fresh(seen)
  /\ row' = [seen EXCEPT !.status = "failed", !.version = @ + 1,
       !.node = [n \in Nodes |-> IF n \in Late(seen, call[a].at) THEN "failed" ELSE @[n]],
       !.pending = @ \o told]
  /\ call' = [call EXCEPT ![a] = Flushing(row', @.at, TRUE)]
  /\ UNCHANGED <<inbox, ran, up, now, wakes, failures, restarts>>

(* The selected nodes are stored as running before their executors start. *)
Select(a) ==
  LET seen == call[a].seen
      chosen == Selected(seen)
  IN
  /\ Proceeds(a)
  /\ call[a].at < ExpiresAt
  /\ Late(seen, call[a].at) = {}
  /\ chosen # {}
  /\ Fresh(seen)
  /\ row' = [seen EXCEPT !.status = "running", !.version = @ + 1,
       !.node = [n \in Nodes |-> IF n \in chosen THEN "running" ELSE @[n]],
       !.attempts = [n \in Nodes |-> IF n \in chosen THEN @[n] + 1 ELSE @[n]]]
  /\ ran' = [n \in Nodes |-> IF n \in chosen THEN ran[n] + 1 ELSE ran[n]]
  /\ call' = [call EXCEPT ![a].pc = "executing", ![a].seen = row', ![a].nodes = chosen]
  /\ UNCHANGED <<inbox, up, now, wakes, failures, restarts>>

(* All executors have returned or raised: outcomes, retries, plan status. *)
Finish(a, outcome) ==
  LET seen == call[a].seen
      node == [n \in Nodes |-> IF n \in call[a].nodes
                 THEN Settled(seen, n, outcome[n], call[a].at) ELSE seen.node[n]]
      linked == {n \in Linked \cap call[a].nodes : outcome[n] # "failed"}
  IN
  /\ call[a].pc = "executing"
  /\ Fresh(seen)
  /\ row' = [seen EXCEPT !.status = Verdict(node), !.node = node,
       !.linked = (@ \ call[a].nodes) \cup linked,
       !.pending = @ \o Report(seen, outcome, Verdict(node)),
       !.version = @ + 1]
  /\ call' = [call EXCEPT ![a] = Flushing(row', @.at, TRUE)]
  /\ UNCHANGED <<inbox, ran, up, now, wakes, failures, restarts>>

(* Nothing left to do: the plan is over, or no node is runnable. *)
Return(a) ==
  LET seen == call[a].seen IN
  /\ Flushed(a)
  /\ \/ call[a].last
     \/ ~Open(seen)
     \/ call[a].at < ExpiresAt /\ Selected(seen) = {}
  /\ call' = [call EXCEPT ![a] = Idle]
  /\ UNCHANGED <<row, inbox, ran, up, now, wakes, failures, restarts>>

(* PlanExecutionConflict: the row moved on since the caller read it. *)
Conflict(a) ==
  /\ \/ call[a].pc \in {"emitted", "executing"}
     \/ Proceeds(a)
  /\ ~Fresh(call[a].seen)
  /\ call' = [call EXCEPT ![a] = Idle]
  /\ UNCHANGED <<row, inbox, ran, up, now, wakes, failures, restarts>>

(* The event sink raises, or the caller is cancelled in an await. *)
Abandon(a) ==
  /\ \/ call[a].pc \in {"executing", "emitted"}
     \/ call[a].pc = "flush" /\ call[a].seen.pending # <<>>
  /\ failures < MaxFailures
  /\ failures' = failures + 1
  /\ call' = [call EXCEPT ![a] = Idle]
  /\ UNCHANGED <<row, inbox, ran, up, now, wakes, restarts>>

(* _wake_task_nodes, after a provider event or a confirmation: the row is  *)
(* read and saved at once, also when no node waits.                        *)
Wake ==
  /\ up
  /\ wakes < MaxWakes
  /\ wakes' = wakes + 1
  /\ row.linked # {}
  /\ row' = [row EXCEPT !.version = @ + 1,
       !.node = [n \in Nodes |-> IF @[n] = "waiting" /\ n \in TaskNodes
                                 THEN "pending" ELSE @[n]]]
  /\ UNCHANGED <<inbox, call, ran, up, now, failures, restarts>>
-----------------------------------------------------------------------------
Tick ==
  /\ now < MaxTime
  /\ now' = now + 1
  /\ UNCHANGED <<row, inbox, call, ran, up, wakes, failures, restarts>>

Crash ==
  /\ up
  /\ restarts < MaxRestarts
  /\ restarts' = restarts + 1
  /\ up' = FALSE
  /\ call' = [a \in Callers |-> Idle]
  /\ UNCHANGED <<row, inbox, ran, now, wakes, failures>>

(* SocialRuntimeManager.start runs recover_feedback: it only flushes. *)
Start(a) ==
  /\ ~up
  /\ up' = TRUE
  /\ call' = IF row = Absent THEN call
             ELSE [call EXCEPT ![a] = Flushing(row, now, TRUE)]
  /\ UNCHANGED <<row, inbox, ran, now, wakes, failures, restarts>>
-----------------------------------------------------------------------------
Init ==
  /\ row = Absent
  /\ inbox = {}
  /\ call = [a \in Callers |-> Idle]
  /\ ran = [n \in Nodes |-> 0]
  /\ up = TRUE
  /\ now = 0
  /\ wakes = 0
  /\ failures = 0
  /\ restarts = 0

Advance(a) ==
  \/ BeginAdvance(a) \/ Emit(a) \/ Acknowledge(a)
  \/ Expire(a) \/ MissDeadline(a) \/ Select(a)
  \/ \E outcome \in [call[a].nodes -> Outcomes] : Finish(a, outcome)
  \/ Return(a) \/ Conflict(a) \/ Abandon(a)

Next ==
  \/ Submit
  \/ \E a \in Callers : Advance(a) \/ Start(a)
  \/ Wake
  \/ Tick
  \/ Crash

Spec == Init /\ [][Next]_vars

(* Time passes, the host starts the plugin again, executors return and     *)
(* advance is called.                                                      *)
Fairness == WF_vars(Tick) /\ \A a \in Callers : WF_vars(Advance(a)) /\ WF_vars(Start(a))

FairSpec == Spec /\ Fairness
-----------------------------------------------------------------------------
Feedback == [node : Nodes \cup {NoNode}, attempt : Nat,
             what : NodeStatus \cup {"accepted", "completed", "expired", "deadline"}]
Execution == [status : PlanStatus, node : [Nodes -> NodeStatus],
              attempts : [Nodes -> Nat], linked : SUBSET Nodes,
              pending : Seq(Feedback), version : Nat]
Call == [pc : {"idle", "flush", "emitted", "executing"}, seen : Execution,
         at : Nat, nodes : SUBSET Nodes, last : BOOLEAN]

TypeOK ==
  /\ row \in Execution
  /\ inbox \subseteq Feedback
  /\ call \in [Callers -> Call]
  /\ ran \in [Nodes -> Nat]
  /\ up \in BOOLEAN
  /\ now \in 0 .. MaxTime
  /\ wakes \in 0 .. MaxWakes
  /\ failures \in 0 .. MaxFailures
  /\ restarts \in 0 .. MaxRestarts

(***************************************************************************)
(* A side effect happens at most once: whatever callers race, raise, crash *)
(* and retry, the executor of a node that is not safe to retry is started  *)
(* once, and that of any other node once more than its retry limit.  Nodes *)
(* that wait for task events are started again on purpose.                 *)
(***************************************************************************)
RunsBounded ==
  \A n \in Nodes \ TaskNodes :
    ran[n] <= IF n \in Retryable THEN RetryLimit[n] + 1 ELSE 1

(***************************************************************************)
(* The plan is a DAG that is respected: an executor that was ever started  *)
(* had, and still has, all its predecessors succeeded in the row.          *)
(***************************************************************************)
DependenciesFirst ==
  \A e \in Before : ran[e[2]] > 0 => row.node[e[1]] = "succeeded"

(***************************************************************************)
(* No result is lost on the way to the scene: what the row says of a node  *)
(* or of the plan was told to the fabric or still waits in the row.        *)
(***************************************************************************)
NothingUntold ==
  LET told(f) == f \in inbox \/ \E i \in 1 .. Len(row.pending) : row.pending[i] = f
  IN  /\ row.status \in {"completed", "expired"} => told(Plan(row.status))
      /\ \A n \in Nodes :
           /\ row.node[n] = "succeeded" => told(About(n, row.attempts[n], "succeeded"))
           /\ row.node[n] = "failed" =>
                \/ told(About(n, row.attempts[n], "failed"))
                \/ told(About(n, 0, "deadline"))

(***************************************************************************)
(* The fabric hears the truth and in order: a node it was told succeeded   *)
(* has succeeded, and the completion comes after the results of all nodes, *)
(* although callers may repeat feedback another caller has delivered.      *)
(***************************************************************************)
ToldInOrder ==
  /\ \A f \in inbox : f.what = "succeeded" => row.node[f.node] = "succeeded"
  /\ Plan("completed") \in inbox =>
       \A n \in Nodes : About(n, row.attempts[n], "succeeded") \in inbox

(***************************************************************************)
(* A plan that is over stays over: no later call, wake-up or stale save    *)
(* changes its status or starts another executor.                          *)
(***************************************************************************)
OverIsOver ==
  [][row.status \in Over => row'.status = row.status /\ ran' = ran]_vars

(* A call that goes on within the lifetime of the plan and finds a node    *)
(* stored as running although no executor runs it any more.                *)
FindsOrphan(a, n) ==
  /\ Proceeds(a)
  /\ call[a].at < ExpiresAt
  /\ call[a].seen.node[n] = "running"
  /\ \A b \in Callers : n \notin call[b].nodes

(***************************************************************************)
(* "A restart resumes from the node state": a node that was running when   *)
(* the process stopped, and that a later advance finds so while the plan   *)
(* still lives, is taken up again or given up.  That the plan expires      *)
(* meanwhile is no excuse: it is then over with a node of which nobody was *)
(* told how it ended.                                                      *)
(***************************************************************************)
RunningIsResumed ==
  \A a \in Callers, n \in Nodes : FindsOrphan(a, n) ~> row.node[n] # "running"
=============================================================================
