------------------------------ MODULE TaskProofs ------------------------------
(***************************************************************************)
(* Proofs about TaskRuntime for any number of workers and provider events. *)
(*                                                                         *)
(* The invariants say something about the stored task only.  What makes    *)
(* them inductive is what the workers hold in memory: an update is either  *)
(* out of date, so that the guarded UPDATE refuses it, or it is a legal    *)
(* move of the task exactly as it is stored.                               *)
(***************************************************************************)
EXTENDS TaskRuntime, FiniteSetTheorems, TLAPS

Consented(t) ==
  descriptor.confirmation /\
  t.status \in {"queued", "running", "succeeded", "failed", "unknown"}
    => t.confirmed

(* next may follow the stored task, logged under id. *)
Legal(next, id) ==
  /\ task.status \notin Terminal
  /\ next.version = task.version + 1
  /\ next.progress >= task.progress
  /\ {EndOf(id)} \cap Terminal = {next.status} \cap Terminal
  /\ Consented(next)

HeldIsLegal ==
  \A w \in Workers : work[w].pc = "saving" =>
    /\ work[w].seen <= task.version
    /\ work[w].seen = task.version => Legal(work[w].next, work[w].id)

IInv ==
  /\ TypeOK
  /\ IsFiniteSet(log)
  /\ OneEventPerVersion
  /\ HistoryEndsLikeTask
  /\ ConsentFirst
  /\ HeldIsLegal
-----------------------------------------------------------------------------
(* A transition keeps every field but three, and counts the version up. *)
LEMMA MovedFields ==
  ASSUME NEW t \in Task, NEW s \in Status, NEW at \in Nat
  PROVE  /\ Moved(t, s, at) \in Task
         /\ Moved(t, s, at).status = s
         /\ Moved(t, s, at).version = t.version + 1
         /\ Moved(t, s, at).progress = t.progress
         /\ Moved(t, s, at).confirmed = t.confirmed
PROOF
  <1>1. t.version + 1 \in Nat \ {0}
        BY DEF Task
  <1>2. Moved(t, s, at) \in Task
        BY <1>1 DEF Moved, Task
  <1>3. /\ Moved(t, s, at).status = s
        /\ Moved(t, s, at).version = t.version + 1
        /\ Moved(t, s, at).progress = t.progress
        /\ Moved(t, s, at).confirmed = t.confirmed
        BY DEF Moved, Task
  <1> QED BY <1>2, <1>3

(* The task a provider event leads to is well formed and a legal move. *)
LEMMA AfterIsLegal ==
  ASSUME IInv, NEW e \in Events, Accepts(task, e)
  PROVE  After(task, e) \in Task /\ Legal(After(task, e), ByProvider(e))
PROOF
  <1> DEFINE next == After(task, e)
  <1>1. /\ Kind[e] \in {"accepted", "progress", "succeeded", "failed", "canceled"}
        /\ OccurredAt[e] \in Nat
        /\ Progress[e] \in 0 .. 100
        BY TaskAssumption
  <1>2. task \in Task
        BY DEF IInv, TypeOK
  <1>3. TargetOf(e) \in Status
        BY <1>1 DEF TargetOf, Status, Terminal
  <1>4. /\ Moved(task, TargetOf(e), OccurredAt[e]) \in Task
        /\ Moved(task, TargetOf(e), OccurredAt[e]).status = TargetOf(e)
        /\ Moved(task, TargetOf(e), OccurredAt[e]).version = task.version + 1
        /\ Moved(task, TargetOf(e), OccurredAt[e]).confirmed = task.confirmed
        BY <1>1, <1>2, <1>3, MovedFields
  <1>5. ProgressAfter(task, e) \in 0 .. 100
        BY <1>1, <1>2 DEF ProgressAfter, Task
  <1>6. /\ next \in Task
        /\ next.status = TargetOf(e)
        /\ next.version = task.version + 1
        /\ next.confirmed = task.confirmed
        /\ next.progress = ProgressAfter(task, e)
        BY <1>2, <1>4, <1>5 DEF After, Task
  <1>7. ProgressAfter(task, e) >= task.progress
        <2>1. CASE Kind[e] = "progress"
              BY <2>1 DEF ProgressAfter, Accepts
        <2>2. CASE Kind[e] # "progress"
              BY <2>2, <1>2 DEF ProgressAfter, Task
        <2> QED BY <2>1, <2>2
  <1>8. task.status \in {"queued", "running"}
        BY <1>1 DEF Accepts
  <1>9. EndOf(ByProvider(e)) = Kind[e]
        BY DEF EndOf, ByProvider
  <1>10. {Kind[e]} \cap Terminal = {TargetOf(e)} \cap Terminal
        BY <1>1 DEF TargetOf, Terminal
  <1>11. Consented(next)
        BY <1>6, <1>8 DEF Consented, IInv, ConsentFirst
  <1> QED BY <1>6, <1>7, <1>8, <1>9, <1>10, <1>11 DEF Legal, Terminal

(* A move of the runtime itself is well formed, and legal when it respects *)
(* consent.                                                                *)
LEMMA MovedIsLegal ==
  ASSUME IInv, NEW s \in Status, task.status \notin Terminal,
         Consented(Moved(task, s, now))
  PROVE  /\ Moved(task, s, now) \in Task
         /\ Legal(Moved(task, s, now), ByRuntime(task.version + 1, s))
PROOF
  <1>1. task \in Task /\ now \in Nat
        BY TaskAssumption DEF IInv, TypeOK
  <1>2. /\ Moved(task, s, now) \in Task
        /\ Moved(task, s, now).status = s
        /\ Moved(task, s, now).version = task.version + 1
        /\ Moved(task, s, now).progress = task.progress
        BY <1>1, MovedFields
  <1>3. task.progress >= task.progress
        BY <1>1 DEF Task
  <1>4. EndOf(ByRuntime(task.version + 1, s)) = s
        BY DEF EndOf, ByRuntime
  <1> QED BY <1>2, <1>3, <1>4 DEF Legal

(* To hold a legal move keeps the invariant. *)
LEMMA HoldingIsSafe ==
  ASSUME IInv, NEW w \in Workers, NEW next \in Task, NEW id \in EventIds,
         Legal(next, id), Holds(w, next, id)
  PROVE  IInv'
PROOF
  <1> DEFINE held == [pc |-> "saving", seen |-> task.version, next |-> next, id |-> id]
  <1>1. /\ work' = [work EXCEPT ![w] = held]
        /\ UNCHANGED <<task, log, descriptor, now>>
        BY DEF Holds
  <1>2. task.version \in Nat \ {0}
        BY DEF IInv, TypeOK, Task
  <1>3. held \in Work
        BY <1>2 DEF Work
  <1>4. TypeOK'
        BY <1>1, <1>3 DEF IInv, TypeOK
  <1>5. HeldIsLegal'
        <2> SUFFICES ASSUME NEW v \in Workers, work'[v].pc = "saving"
                     PROVE  /\ work'[v].seen <= task.version
                            /\ work'[v].seen = task.version =>
                                 Legal(work'[v].next, work'[v].id)
              BY <1>1 DEF HeldIsLegal, Legal, Consented
        <2>1. CASE v = w
              <3>1. work'[v] = held
                    BY <2>1, <1>1 DEF IInv, TypeOK
              <3> QED BY <3>1, <1>2
        <2>2. CASE v # w
              <3>1. work'[v] = work[v]
                    BY <2>2, <1>1 DEF IInv, TypeOK
              <3> QED BY <3>1 DEF IInv, HeldIsLegal
        <2> QED BY <2>1, <2>2
  <1> QED BY <1>1, <1>4, <1>5
         DEF IInv, OneEventPerVersion, HistoryEndsLikeTask, ConsentFirst

(* A worker that lets go of what it held keeps the invariant. *)
LEMMA LettingGoIsSafe ==
  ASSUME IInv, NEW w \in Workers, NEW h \in Work, h.pc # "saving",
         work' = [work EXCEPT ![w] = h], UNCHANGED <<task, log, descriptor, now>>
  PROVE  IInv'
PROOF
  <1>1. TypeOK'
        BY DEF IInv, TypeOK
  <1>2. \A v \in Workers : work'[v].pc = "saving" => work'[v] = work[v]
        BY DEF IInv, TypeOK
  <1>3. HeldIsLegal'
        BY <1>2 DEF IInv, HeldIsLegal, Legal, Consented
  <1> QED BY <1>1, <1>3
         DEF IInv, OneEventPerVersion, HistoryEndsLikeTask, ConsentFirst

(* A save that goes through: the version, the history and the task advance *)
(* together, and whatever others hold is out of date from now on.          *)
LEMMA SavingIsSafe ==
  ASSUME IInv, NEW w \in Workers, Save(w)
  PROVE  IInv'
PROOF
  <1> DEFINE held == work[w]
  <1>1. /\ held.pc = "saving"
        /\ held.seen = task.version
        /\ held.id \notin log
        /\ task' = held.next
        /\ log' = log \cup {held.id}
        /\ work' = [work EXCEPT ![w] = Idle]
        /\ UNCHANGED <<descriptor, now>>
        BY DEF Save, Current, Unlogged
  <1>2. held \in [pc : {"saving"}, seen : Nat \ {0}, next : Task, id : EventIds]
        BY <1>1 DEF IInv, TypeOK, Work, Idle
  <1>3. Legal(held.next, held.id)
        BY <1>1 DEF IInv, HeldIsLegal
  <1>4. Idle \in Work /\ Idle.pc # "saving"
        BY DEF Work, Idle
  <1>5. TypeOK'
        BY <1>1, <1>2, <1>4 DEF IInv, TypeOK
  <1>6. task.version \in Nat /\ task'.version = task.version + 1
        BY <1>1, <1>3 DEF Legal, IInv, TypeOK, Task
  <1>7. IsFiniteSet(log') /\ Cardinality(log') = Cardinality(log) + 1
        BY <1>1, FS_AddElement DEF IInv
  <1>8. OneEventPerVersion'
        BY <1>6, <1>7 DEF IInv, OneEventPerVersion
  <1>9. HistoryEndsLikeTask'
        <2>1. {EndOf(id) : id \in log} \cap Terminal = {}
              BY <1>3 DEF IInv, HistoryEndsLikeTask, Legal
        <2>2. {EndOf(id) : id \in log'} = {EndOf(id) : id \in log} \cup {EndOf(held.id)}
              BY <1>1
        <2> QED BY <2>1, <2>2, <1>1, <1>3 DEF HistoryEndsLikeTask, Legal
  <1>10. ConsentFirst'
        BY <1>1, <1>3 DEF Legal, Consented, ConsentFirst
  <1>11. HeldIsLegal'
        <2> SUFFICES ASSUME NEW v \in Workers, work'[v].pc = "saving"
                     PROVE  /\ work'[v].seen <= task'.version
                            /\ work'[v].seen # task'.version
              BY DEF HeldIsLegal
        <2>1. v # w /\ work'[v] = work[v]
              BY <1>1, <1>4 DEF IInv, TypeOK
        <2>2. work[v] \in [pc : {"saving"}, seen : Nat \ {0}, next : Task, id : EventIds]
              BY <2>1 DEF IInv, TypeOK, Work, Idle
        <2>3. work[v].seen <= task.version
              BY <2>1 DEF IInv, HeldIsLegal
        <2> QED BY <2>1, <2>2, <2>3, <1>6
  <1> QED BY <1>5, <1>7, <1>8, <1>9, <1>10, <1>11 DEF IInv
-----------------------------------------------------------------------------
(* Transitions of a task that has not ended are safe, to a status in which *)
(* consent is not yet asked for or was given.                              *)
LEMMA TransitionIsSafe ==
  ASSUME IInv, NEW w \in Workers, NEW s \in Status, task.status \notin Terminal,
         Consented(Moved(task, s, now)), Transitions(w, s)
  PROVE  IInv'
PROOF
  <1>1. /\ Moved(task, s, now) \in Task
        /\ Legal(Moved(task, s, now), ByRuntime(task.version + 1, s))
        BY MovedIsLegal
  <1>2. ByRuntime(task.version + 1, s) \in EventIds
        BY DEF IInv, TypeOK, Task, ByRuntime, EventIds
  <1>3. Holds(w, Moved(task, s, now), ByRuntime(task.version + 1, s))
        BY DEF Transitions
  <1> QED BY <1>1, <1>2, <1>3, HoldingIsSafe

(* What the runtime's transitions carry over from the task. *)
LEMMA ConsentCarries ==
  ASSUME IInv, NEW s \in Status
  PROVE  /\ s \in {"awaiting_confirmation", "canceled", "expired"} =>
               Consented(Moved(task, s, now))
         /\ task.status \in {"queued", "running"} => Consented(Moved(task, s, now))
         /\ ~descriptor.confirmation => Consented(Moved(task, s, now))
PROOF
  <1>1. task \in Task /\ now \in Nat
        BY TaskAssumption DEF IInv, TypeOK
  <1>2. /\ Moved(task, s, now).status = s
        /\ Moved(task, s, now).confirmed = task.confirmed
        BY <1>1, MovedFields
  <1> QED BY <1>2 DEF Consented, IInv, ConsentFirst

(* Every step of the runtime preserves the invariant. *)
LEMMA StepIsSafe == IInv /\ [Next]_vars => IInv'
PROOF
  <1> SUFFICES ASSUME IInv, [Next]_vars PROVE IInv'
        OBVIOUS
  <1> USE DEF Status, Terminal
  <1>1. ASSUME NEW w \in Workers, Start(w) PROVE IInv'
        <2>1. CASE task.status \notin Terminal /\ Transitions(w, "expired")
              BY <2>1, ConsentCarries, TransitionIsSafe
        <2>2. CASE task.status = "proposed" /\ Transitions(w, AfterProposal(task))
              <3>1. CASE descriptor.confirmation
                    BY <3>1, <2>2, ConsentCarries, TransitionIsSafe DEF AfterProposal
              <3>2. CASE ~descriptor.confirmation
                    BY <3>2, <2>2, ConsentCarries, TransitionIsSafe DEF AfterProposal
              <3> QED BY <3>1, <3>2
        <2>3. CASE task.status = "queued" /\ Transitions(w, "running")
              BY <2>3, ConsentCarries, TransitionIsSafe
        <2> QED BY <1>1, <2>1, <2>2, <2>3 DEF Start
  <1>2. ASSUME NEW w \in Workers, Confirm(w) PROVE IInv'
        <2>1. task.status = "awaiting_confirmation"
              BY <1>2 DEF Confirm
        <2>2. CASE Transitions(w, "expired")
              BY <2>1, <2>2, ConsentCarries, TransitionIsSafe
        <2>3. CASE Holds(w, [Moved(task, "queued", now) EXCEPT !.confirmed = TRUE],
                         ByRuntime(task.version + 1, "queued"))
              <3> DEFINE moved == Moved(task, "queued", now)
                         next == [moved EXCEPT !.confirmed = TRUE]
              <3>1. task \in Task /\ now \in Nat
                    BY TaskAssumption DEF IInv, TypeOK
              <3>2. /\ moved \in Task
                    /\ moved.status = "queued"
                    /\ moved.version = task.version + 1
                    /\ moved.progress = task.progress
                    BY <3>1, MovedFields
              <3> HIDE DEF moved
              <3>3. /\ next \in Task
                    /\ next.status = "queued"
                    /\ next.version = task.version + 1
                    /\ next.progress = task.progress
                    /\ next.confirmed
                    BY <3>2 DEF Task
              <3>4. task.progress >= task.progress
                    BY <3>1 DEF Task
              <3>5. EndOf(ByRuntime(task.version + 1, "queued")) = "queued"
                    BY DEF EndOf, ByRuntime
              <3>6. ByRuntime(task.version + 1, "queued") \in EventIds
                    BY <3>1 DEF Task, ByRuntime, EventIds
              <3> HIDE DEF next
              <3>7. Legal(next, ByRuntime(task.version + 1, "queued"))
                    BY <2>1, <3>3, <3>4, <3>5 DEF Legal, Consented
              <3>8. Holds(w, next, ByRuntime(task.version + 1, "queued"))
                    BY <2>3 DEF next, moved
              <3> QED BY <3>3, <3>6, <3>7, <3>8, HoldingIsSafe
        <2> QED BY <1>2, <2>2, <2>3 DEF Confirm
  <1>3. ASSUME NEW w \in Workers, Cancel(w) PROVE IInv'
        BY <1>3, ConsentCarries, TransitionIsSafe DEF Cancel
  <1>4. ASSUME NEW w \in Workers, Expire(w) PROVE IInv'
        BY <1>4, ConsentCarries, TransitionIsSafe DEF Expire
  <1>5. ASSUME NEW w \in Workers, Recover(w) PROVE IInv'
        BY <1>5, ConsentCarries, TransitionIsSafe DEF Recover
  <1>6. ASSUME NEW w \in Workers, NEW e \in Events, Receive(w, e) PROVE IInv'
        <2>1. [pc |-> "received", event |-> e] \in Work
              BY DEF Work
        <2> QED BY <1>6, <2>1, LettingGoIsSafe DEF Receive
  <1>7. ASSUME NEW w \in Workers, Apply(w) PROVE IInv'
        <2>1. work[w] \in [pc : {"received"}, event : Events]
              BY <1>7 DEF Apply, IInv, TypeOK, Work, Idle
        <2>2. PICK e \in Events : e = work[w].event
              BY <2>1
        <2>3. /\ After(task, e) \in Task
              /\ Legal(After(task, e), ByProvider(e))
              BY <1>7, <2>2, AfterIsLegal DEF Apply
        <2>4. ByProvider(e) \in EventIds
              BY DEF ByProvider, EventIds
        <2> QED BY <1>7, <2>2, <2>3, <2>4, HoldingIsSafe DEF Apply
  <1>8. ASSUME NEW w \in Workers, Refuse(w) \/ RollBack(w) \/ Die(w) PROVE IInv'
        <2>1. Idle \in Work /\ Idle.pc # "saving"
              BY DEF Work, Idle
        <2> QED BY <1>8, <2>1, LettingGoIsSafe DEF Refuse, RollBack, Die
  <1>9. CASE Tick
        <2>1. UNCHANGED <<task, log, work, descriptor>> /\ now' \in 0 .. MaxTime
              BY <1>9, TaskAssumption DEF Tick, IInv, TypeOK
        <2> QED BY <2>1 DEF IInv, TypeOK, OneEventPerVersion, HistoryEndsLikeTask,
                            ConsentFirst, HeldIsLegal, Legal, Consented
  <1>10. CASE UNCHANGED vars
        BY <1>10 DEF vars, IInv, TypeOK, OneEventPerVersion, HistoryEndsLikeTask,
                     ConsentFirst, HeldIsLegal, Legal, Consented
  <1> QED BY <1>1, <1>2, <1>3, <1>4, <1>5, <1>6, <1>7, <1>8, <1>9, <1>10,
             SavingIsSafe DEF Next

LEMMA InitIsSafe == Init => IInv
PROOF
  <1> SUFFICES ASSUME Init PROVE IInv
        OBVIOUS
  <1>1. task \in Task
        BY DEF Init, Task, Status
  <1>2. log \subseteq EventIds
        BY DEF Init, EventIds, ByRuntime, Status
  <1>3. Idle \in Work /\ Idle.pc # "saving"
        BY DEF Idle, Work
  <1>4. TypeOK
        BY <1>1, <1>2, <1>3, TaskAssumption DEF Init, TypeOK
  <1>5. IsFiniteSet(log) /\ Cardinality(log) = 1
        BY FS_Singleton DEF Init
  <1>6. OneEventPerVersion
        BY <1>5 DEF OneEventPerVersion, Init
  <1>7. EndOf(ByRuntime(1, "proposed")) = "proposed"
        BY DEF EndOf, ByRuntime
  <1>8. HistoryEndsLikeTask
        BY <1>7 DEF HistoryEndsLikeTask, Init, Terminal
  <1>9. ConsentFirst
        BY DEF Init, ConsentFirst
  <1>10. HeldIsLegal
        BY <1>3 DEF Init, HeldIsLegal
  <1> QED BY <1>4, <1>5, <1>6, <1>8, <1>9, <1>10 DEF IInv
-----------------------------------------------------------------------------
(***************************************************************************)
(* The invariant holds for every number of workers, events and every       *)
(* length of the clock.                                                    *)
(***************************************************************************)
THEOREM TaskInvariant == Spec => []IInv
PROOF BY InitIsSafe, StepIsSafe, PTL DEF Spec

(***************************************************************************)
(* Type correctness of the tasks row, its history and what workers hold.   *)
(***************************************************************************)
THEOREM TaskTypes == Spec => []TypeOK
PROOF BY TaskInvariant, PTL DEF IInv

(***************************************************************************)
(* However the workers race, the history has one event for each version    *)
(* and ends exactly like the task.                                         *)
(***************************************************************************)
THEOREM HistoryIsExact == Spec => [](OneEventPerVersion /\ HistoryEndsLikeTask)
PROOF BY TaskInvariant, PTL DEF IInv

(***************************************************************************)
(* The history has an end exactly when the task has, and the same one.     *)
(***************************************************************************)
THEOREM EndIsRecorded == Spec => []HistoryEndsLikeTask
PROOF BY TaskInvariant, PTL DEF IInv

(***************************************************************************)
(* A task that needs the requester's consent never runs without it.        *)
(***************************************************************************)
THEOREM NeverWithoutConsent == Spec => []ConsentFirst
PROOF BY TaskInvariant, PTL DEF IInv

(* Only a save changes the task, and only a task that has not ended. *)
LEMMA StepRespectsEnd ==
  IInv /\ [Next]_vars =>
    /\ task.status \in Terminal => task' = task
    /\ task'.progress >= task.progress
PROOF
  <1> SUFFICES ASSUME IInv, [Next]_vars
               PROVE  /\ task.status \in Terminal => task' = task
                      /\ task'.progress >= task.progress
        OBVIOUS
  <1>1. task.progress >= task.progress
        BY DEF IInv, TypeOK, Task
  <1>2. ASSUME NEW w \in Workers, Save(w)
        PROVE  task.status \notin Terminal /\ task'.progress >= task.progress
        BY <1>2 DEF Save, Current, IInv, HeldIsLegal, Legal
  <1>3. CASE UNCHANGED task
        BY <1>3, <1>1
  <1>4. CASE \E w \in Workers : Save(w)
        BY <1>4, <1>2
  <1>5. UNCHANGED task \/ \E w \in Workers : Save(w)
        BY DEF Next, vars, Start, Confirm, Cancel, Expire, Recover, Receive, Apply,
               Refuse, RollBack, Die, Tick, Transitions, Holds
  <1> QED BY <1>3, <1>4, <1>5

(***************************************************************************)
(* The first durable end of a task wins over every later one.              *)
(***************************************************************************)
THEOREM EndIsFinal == Spec => FirstEndWins
PROOF
  <1>1. IInv /\ [Next]_vars => [task.status \in Terminal => task' = task]_vars
        BY StepRespectsEnd
  <1> QED BY <1>1, TaskInvariant, PTL DEF Spec, FirstEndWins

(***************************************************************************)
(* The progress a task shows never goes back.                              *)
(***************************************************************************)
THEOREM ProgressIsMonotonic == Spec => ProgressForward
PROOF
  <1>1. IInv /\ [Next]_vars => [task'.progress >= task.progress]_vars
        BY StepRespectsEnd
  <1> QED BY <1>1, TaskInvariant, PTL DEF Spec, ProgressForward
=============================================================================
