------------------------------ MODULE TaskRuntime ------------------------------
(***************************************************************************)
(* TaskRuntime on one capability task and the workers that advance it.     *)
(*                                                                         *)
(* Every operation reads the task outside a transaction, computes the next *)
(* state, and then saves it and a task_events row in one transaction: the  *)
(* update is guarded by the version that was read, the insert by the       *)
(* primary key event_id.  apply_event looks its event up even before it    *)
(* reads the task.  Other workers may save in between, and a worker may    *)
(* die at any point.  Provider events come late, repeated and in any order.*)
(***************************************************************************)
EXTENDS Naturals, FiniteSets

CONSTANTS
  Events,      (* provider events                                          *)
  Kind,        (* ProviderEvent.kind                                       *)
  OccurredAt,  (* ProviderEvent.occurred_at                                *)
  Progress,    (* ProviderEvent.progress of the PROGRESS events            *)
  ExpiresAt,   (* CapabilityRequest.expires_at                             *)
  Workers,     (* concurrent users of the runtime                          *)
  MaxTime      (* bound on the clock                                       *)

ASSUME TaskAssumption ==
  /\ Kind \in [Events -> {"accepted", "progress", "succeeded", "failed", "canceled"}]
  /\ OccurredAt \in [Events -> Nat]
  /\ Progress \in [Events -> 0 .. 100]
  /\ ExpiresAt \in Nat \ {0}
  /\ MaxTime \in Nat

VARIABLES
  task,        (* the tasks row                                            *)
  log,         (* event ids of the task_events rows                        *)
  work,        (* what every worker holds between reading and saving       *)
  descriptor,  (* the capability's contract, fixed when it is proposed     *)
  now

vars == <<task, log, work, descriptor, now>>

Terminal == {"succeeded", "failed", "canceled", "expired", "unknown"}
Status == Terminal \cup {"proposed", "awaiting_confirmation", "queued", "running"}
Descriptor == [confirmation : BOOLEAN, progress : BOOLEAN]

(* Ids runtime:<task>:<version>:<status>, and those the provider chose. *)
ByRuntime(v, s) == [by |-> "runtime", version |-> v, status |-> s]
ByProvider(e) == [by |-> "provider", event |-> e]
EventIds ==
  [by : {"runtime"}, version : Nat, status : Status] \cup
  [by : {"provider"}, event : Events]

Idle == [pc |-> "idle"]
-----------------------------------------------------------------------------
(* TaskRun.transition *)
Moved(t, s, at) == [t EXCEPT !.status = s, !.version = @ + 1, !.updated = at]

AfterProposal_named(t) == "confirming"
AfterProposal_queued(t) == "queued"
AfterProposal(t) ==
  IF descriptor.confirmation THEN "awaiting_confirmation" ELSE "queued"

(* The checks of apply_event on the task it has read. *)
Accepts_failure(t, e) ==
  \/ Kind[e] = "failed"
  \/ t.status = "running" /\ OccurredAt[e] >= t.updated
Accepts_anyProgress(t, e) == t.status = "running" /\ OccurredAt[e] >= t.updated
Accepts(t, e) ==
  /\ OccurredAt[e] >= t.updated
  /\ CASE Kind[e] \in {"accepted", "canceled"} -> t.status \in {"queued", "running"}
       [] Kind[e] = "progress" -> /\ t.status = "running"
                                  /\ descriptor.progress
                                  /\ Progress[e] >= t.progress
       [] Kind[e] \in {"succeeded", "failed"} -> t.status = "running"

(* The task after an accepted event; its end may come too late to matter. *)
TargetOf(e) == IF Kind[e] \in {"accepted", "progress"} THEN "running" ELSE Kind[e]

ProgressAfter(t, e) ==
  IF Kind[e] = "progress" THEN Progress[e]
  ELSE IF Kind[e] = "succeeded" THEN 100 ELSE t.progress

InTime(e) == OccurredAt[e] < ExpiresAt \/ TargetOf(e) = "running"

After(t, e) ==
  [Moved(t, TargetOf(e), OccurredAt[e]) EXCEPT
     !.progress = ProgressAfter(t, e),
     !.relevant = IF InTime(e) THEN t.relevant ELSE FALSE]

(* UPDATE ... WHERE version = the version that was read *)
Current_always(w) == work[w].pc = "saving"
Current(w) == work[w].seen = task.version

(* event_id is the primary key of task_events. *)
Unlogged_always(id) == TRUE
Unlogged(id) == id \notin log

Holds(w, next, id) ==
  /\ work' = [work EXCEPT ![w] = [pc |-> "saving", seen |-> task.version,
                                  next |-> next, id |-> id]]
  /\ UNCHANGED <<task, log, descriptor, now>>

(* _transition at the present time, of the task that is stored now. *)
Transitions(w, s) ==
  /\ work[w] = Idle
  /\ Holds(w, Moved(task, s, now), ByRuntime(task.version + 1, s))
-----------------------------------------------------------------------------
Start(w) ==
  \/ task.status \notin Terminal /\ now >= ExpiresAt /\ Transitions(w, "expired")
  \/ task.status = "proposed" /\ now < ExpiresAt /\ Transitions(w, AfterProposal(task))
  \/ task.status = "queued" /\ now < ExpiresAt /\ Transitions(w, "running")

(* Only the requester can confirm. *)
Confirm(w) ==
  /\ work[w] = Idle
  /\ task.status = "awaiting_confirmation"
  /\ \/ now >= ExpiresAt /\ Transitions(w, "expired")
     \/ /\ now < ExpiresAt
        /\ Holds(w, [Moved(task, "queued", now) EXCEPT !.confirmed = TRUE],
                 ByRuntime(task.version + 1, "queued"))

Cancel(w) ==
  /\ task.status \in {"proposed", "awaiting_confirmation", "queued"}
  /\ Transitions(w, "canceled")

Expire(w) ==
  /\ task.status \notin Terminal
  /\ now >= ExpiresAt
  /\ Transitions(w, "expired")

(* recover of a running task whose provider cannot be asked; were it asked, *)
(* its answer would be an event like the others.                            *)
Recover(w) ==
  /\ task.status = "running"
  /\ now < ExpiresAt
  /\ Transitions(w, "unknown")

(* apply_event: the event is not logged yet ... *)
Receive(w, e) ==
  /\ work[w] = Idle
  /\ OccurredAt[e] <= now
  /\ Unlogged(ByProvider(e))
  /\ work' = [work EXCEPT ![w] = [pc |-> "received", event |-> e]]
  /\ UNCHANGED <<task, log, descriptor, now>>

(* ... then the task is read and the event is checked against it. *)
Apply(w) ==
  /\ work[w].pc = "received"
  /\ Accepts(task, work[w].event)
  /\ Holds(w, After(task, work[w].event), ByProvider(work[w].event))

Refuse(w) ==
  /\ work[w].pc = "received"
  /\ ~Accepts(task, work[w].event)
  /\ work' = [work EXCEPT ![w] = Idle]
  /\ UNCHANGED <<task, log, descriptor, now>>

Save(w) ==
  /\ work[w].pc = "saving"
  /\ Current(w)
  /\ Unlogged(work[w].id)
  /\ task' = work[w].next
  /\ log' = log \cup {work[w].id}
  /\ work' = [work EXCEPT ![w] = Idle]
  /\ UNCHANGED <<descriptor, now>>

(* TaskVersionConflict or a taken event id: the transaction rolls back.    *)
RollBack(w) ==
  /\ work[w].pc = "saving"
  /\ ~(Current(w) /\ Unlogged(work[w].id))
  /\ work' = [work EXCEPT ![w] = Idle]
  /\ UNCHANGED <<task, log, descriptor, now>>

Die(w) ==
  /\ work[w] # Idle
  /\ work' = [work EXCEPT ![w] = Idle]
  /\ UNCHANGED <<task, log, descriptor, now>>

Tick ==
  /\ now < MaxTime
  /\ now' = now + 1
  /\ UNCHANGED <<task, log, work, descriptor>>
-----------------------------------------------------------------------------
(* propose stored the task and its first event. *)
Init ==
  /\ task = [status |-> "proposed", progress |-> 0, relevant |-> TRUE,
             confirmed |-> FALSE, version |-> 1, updated |-> 0]
  /\ log = {ByRuntime(1, "proposed")}
  /\ work = [w \in Workers |-> Idle]
  /\ descriptor \in Descriptor
  /\ now = 0

Next ==
  \/ \E w \in Workers :
       \/ Start(w) \/ Confirm(w) \/ Cancel(w) \/ Expire(w) \/ Recover(w)
       \/ \E e \in Events : Receive(w, e)
       \/ Apply(w) \/ Refuse(w)
       \/ Save(w) \/ RollBack(w) \/ Die(w)
  \/ Tick

Spec == Init /\ [][Next]_vars
-----------------------------------------------------------------------------
Task == [status : Status, progress : 0 .. 100, relevant : BOOLEAN,
         confirmed : BOOLEAN, version : Nat \ {0}, updated : Nat]

Work ==
  {Idle} \cup
  [pc : {"received"}, event : Events] \cup
  [pc : {"saving"}, seen : Nat \ {0}, next : Task, id : EventIds]

TypeOK ==
  /\ task \in Task
  /\ log \subseteq EventIds
  /\ work \in [Workers -> Work]
  /\ descriptor \in Descriptor
  /\ now \in 0 .. MaxTime

(***************************************************************************)
(* The first durable end wins: whatever workers race, cancel, expire,      *)
(* recover and hear from the provider, a task that has ended stays as it   *)
(* is, with its result, progress and delivery relevance.                   *)
(***************************************************************************)
FirstEndWins ==
  [][task.status \in Terminal => task' = task]_vars

(***************************************************************************)
(* The history is complete and holds nothing twice: one event row for each *)
(* version the task has been through.                                      *)
(***************************************************************************)
OneEventPerVersion == Cardinality(log) = task.version

(***************************************************************************)
(* The history has an end exactly when the task has, and the same one.     *)
(***************************************************************************)
EndOf(id) == IF id.by = "runtime" THEN id.status ELSE Kind[id.event]
HistoryEndsLikeTask ==
  {EndOf(id) : id \in log} \cap Terminal = {task.status} \cap Terminal

(***************************************************************************)
(* Nothing that needs the requester's consent runs without it, not even    *)
(* when the provider's acceptance races the confirmation.                  *)
(***************************************************************************)
ConsentFirst ==
  descriptor.confirmation /\
  task.status \in {"queued", "running", "succeeded", "failed", "unknown"}
    => task.confirmed

(***************************************************************************)
(* Progress never goes back, however late and repeated the events come.    *)
(***************************************************************************)
ProgressForward == [][task'.progress >= task.progress]_vars
=============================================================================
