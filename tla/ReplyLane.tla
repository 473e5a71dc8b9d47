------------------------------ MODULE ReplyLane ------------------------------
(***************************************************************************)
(* The replies of one group (astrbot_bridge.py): a handler is a call of    *)
(* handle_event or a turn of the wake-up loop that drained a batch of      *)
(* evaluations.  It reserves the group's reply lane, prepares their        *)
(* knowledge outside the lock, waits for its predecessor, re-checks the    *)
(* scene under the lock and then interprets, plans, writes (replying.py)   *)
(* and sends, while every step is told to the message traces               *)
(* (message_traces.py).                                                    *)
(***************************************************************************)
EXTENDS Integers, Sequences, FiniteSets

CONSTANTS
  LaneMessages,   \* messages of the group
  LaneHandlers,   \* handlers, each with one batch
  LaneBatch,      \* handler -> evaluations in the order _handle_evaluations gives them
  LaneSource,     \* evaluation -> its source message
  LaneFocus,      \* evaluation -> focus_event_ids of its frame
  LaneAmbient,    \* evaluations of ambient frames
  LaneTopical,    \* evaluations with a topic understanding, so with a scene guard
  LaneMay         \* evaluation -> outcomes the governor may give

LaneEvaluations == UNION {{LaneBatch[h][i] : i \in DOMAIN LaneBatch[h]} : h \in LaneHandlers}
LaneOutcomes == {"ACT", "DEFER", "OBSERVE", "SILENCE"}
\* Every drain makes evaluations of its own.
ASSUME LaneConstants ==
  /\ IsFiniteSet(LaneHandlers) /\ "none" \notin LaneHandlers
  /\ \A h \in LaneHandlers : LaneBatch[h] \in Seq(LaneEvaluations) /\ LaneBatch[h] # <<>>
  /\ \A h, k \in LaneHandlers : \A i \in DOMAIN LaneBatch[h], j \in DOMAIN LaneBatch[k] :
       LaneBatch[h][i] = LaneBatch[k][j] => h = k /\ i = j
  /\ LaneSource \in [LaneEvaluations -> LaneMessages] /\ LaneFocus \in [LaneEvaluations -> SUBSET LaneMessages]
  /\ LaneAmbient \subseteq LaneEvaluations /\ LaneTopical \subseteq LaneEvaluations
  /\ LaneMay \in [LaneEvaluations -> SUBSET LaneOutcomes]

VARIABLES
  lnMode,      \* the group's runtime mode
  lnScene,     \* scene_version of the group's world
  lnTrace,     \* message_traces: the delivery status, by message
  lnEntered,   \* messages ingested
  lnPart,      \* the reply's delivery part, by source message
  lnPc, lnAt, lnFit,  \* by handler: where it is, the batch index, the evaluations still valid
  lnSeen,      \* by handler: scene_version its evaluations were frozen at
  lnOutcome,   \* by evaluation: the governor's outcome
  lnHandled,   \* by handler: handled_groups holds the group
  lnTail, lnAfter, lnDone, lnUsers,  \* the lane: tail, predecessor, completions, reservations
  lnLock, lnKey,   \* number of the lock in the registry (0: none), the one each handler got
  lnAnswered   \* history: evaluations whose reply opened or advanced the lease
lnVars == <<lnMode, lnScene, lnTrace, lnEntered, lnPart, lnPc, lnAt, lnFit, lnSeen, lnOutcome, lnHandled,
            lnTail, lnAfter, lnDone, lnUsers, lnLock, lnKey, lnAnswered>>

LaneNone == "none"
LaneInside == {"checking", "handling", "reading", "previewing", "writing", "leasing", "sending"}
LaneTerminal == {"SENT", "SILENT", "OBSERVED", "BLOCKED_BY_SHADOW", "HANDED_OFF", "FAILED", "UNKNOWN"}
LaneStatuses == LaneTerminal \cup {"absent", "RECEIVED", "DEFERRED", "PLANNING", "READY"}

LaneModes == {"SHADOW", "SOCIAL_RUNTIME"}
LaneShadowEvaluations == {o \in [LaneEvaluations -> LaneOutcomes] : \A x \in LaneEvaluations : o[x] \in LaneMay[x]}
LaneParts == {"none", "ready", "done"}
LaneInit ==
  /\ lnMode \in LaneModes /\ lnScene = 0
  /\ lnTrace = [e \in LaneMessages |-> "absent"] /\ lnEntered = {}
  /\ lnPart = [e \in LaneMessages |-> "none"]
  /\ lnPc = [h \in LaneHandlers |-> "idle"] /\ lnAt = [h \in LaneHandlers |-> 1]
  /\ lnFit = [h \in LaneHandlers |-> {}] /\ lnSeen = [h \in LaneHandlers |-> 0]
  /\ lnOutcome \in LaneShadowEvaluations
  /\ lnHandled = [h \in LaneHandlers |-> FALSE]
  /\ lnTail = LaneNone /\ lnAfter = [h \in LaneHandlers |-> LaneNone] /\ lnDone = {}
  /\ lnUsers = 0 /\ lnLock = 0 /\ lnKey = [h \in LaneHandlers |-> 0] /\ lnAnswered = {}

----------------------------------------------------------------------------
(* The traces.                                                             *)
LaneAdmin == <<lnTail, lnAfter, lnDone, lnUsers, lnLock, lnKey>>
LaneWorld == <<lnMode, lnEntered, lnSeen, lnOutcome>>

LaneReceive(e) ==
  /\ lnTrace[e] = "absent"
  /\ \E status \in {"RECEIVED", "HANDED_OFF"} : lnTrace' = [lnTrace EXCEPT ![e] = status]
  /\ UNCHANGED <<lnScene, lnPart, lnPc, lnAt, lnFit, lnHandled, lnAnswered>> /\ UNCHANGED LaneAdmin /\ UNCHANGED LaneWorld
\* A message of an external plugin only leaves a trace.
LaneEnter(e) ==
  /\ lnTrace[e] \notin {"absent", "HANDED_OFF"} /\ e \notin lnEntered
  /\ lnEntered' = lnEntered \cup {e} /\ lnScene' = lnScene + 1
  /\ UNCHANGED <<lnMode, lnTrace, lnPart, lnPc, lnAt, lnFit, lnSeen, lnOutcome, lnHandled, lnAnswered>> /\ UNCHANGED LaneAdmin

LaneJudged(x) ==
  CASE lnOutcome[x] = "SILENCE" -> "SILENT"
    [] lnOutcome[x] = "OBSERVE" -> "OBSERVED"
    [] lnOutcome[x] = "DEFER"   -> "DEFERRED"
    [] OTHER -> IF lnMode = "SHADOW" THEN "BLOCKED_BY_SHADOW" ELSE "PLANNING"
LaneContext_all(x) == IF x \in LaneAmbient THEN LaneFocus[x] \ {LaneSource[x]} ELSE {}
\* The other messages of an ambient window end with it, unless they have ended.
LaneContext(x) ==
  IF x \in LaneAmbient
  THEN {e \in LaneFocus[x] \ {LaneSource[x]} : lnTrace[e] \notin LaneTerminal \cup {"absent"}} ELSE {}
\* record_evaluation, and what the caller records of the source after it.
LaneTold(x, last) ==
  [e \in LaneMessages |-> IF e = LaneSource[x] THEN last
                          ELSE IF e \in LaneContext(x) THEN "OBSERVED" ELSE lnTrace[e]]

----------------------------------------------------------------------------
(* The lane.                                                               *)
LaneX(h) == LaneBatch[h][lnAt[h]]
LaneGoto(h, pc) == lnPc' = [lnPc EXCEPT ![h] = pc]
\* The index moves to the next evaluation still valid; after the last, to the end.
LaneStep(h, here, after) ==
  IF lnAt[h] < Len(LaneBatch[h])
  THEN lnAt' = [lnAt EXCEPT ![h] = @ + 1] /\ LaneGoto(h, here)
  ELSE lnAt' = [lnAt EXCEPT ![h] = 1] /\ LaneGoto(h, after)

LaneDrain(h) ==
  /\ lnPc[h] = "idle" /\ \A i \in DOMAIN LaneBatch[h] : LaneFocus[LaneBatch[h][i]] \subseteq lnEntered
  /\ lnSeen' = [lnSeen EXCEPT ![h] = lnScene] /\ LaneGoto(h, "drained")
  /\ UNCHANGED <<lnMode, lnScene, lnTrace, lnEntered, lnPart, lnAt, lnFit, lnOutcome, lnHandled, lnAnswered>> /\ UNCHANGED LaneAdmin

LaneReserve(h) ==
  /\ lnPc[h] = "drained" /\ LaneGoto(h, "preparing")
  /\ lnAfter' = [lnAfter EXCEPT ![h] = lnTail] /\ lnTail' = h /\ lnUsers' = lnUsers + 1
  /\ lnLock' = IF lnLock = 0 THEN Cardinality({lnKey[k] : k \in LaneHandlers} \ {0}) + 1 ELSE lnLock
  /\ lnKey' = [lnKey EXCEPT ![h] = lnLock']
  /\ UNCHANGED <<lnScene, lnTrace, lnPart, lnAt, lnFit, lnHandled, lnDone, lnAnswered>> /\ UNCHANGED LaneWorld

LaneGuarded(x) == x \in LaneTopical /\ lnOutcome[x] = "ACT"
LaneCurrent_always(h) == TRUE
\* The scene of the guard is still the group's.
LaneCurrent(h) == LaneGuarded(LaneX(h)) => lnScene = lnSeen[h]
\* A guarded evaluation may also be dropped because its knowledge could not be
\* enriched, or because its intention, target or lease went.
LaneKeep(h, keep) ==
  /\ keep => LaneCurrent(h)
  /\ ~keep => LaneGuarded(LaneX(h))
  /\ lnFit' = [lnFit EXCEPT ![h] = IF keep THEN @ \cup {lnAt[h]} ELSE @ \ {lnAt[h]}]
  /\ lnTrace' = IF keep THEN lnTrace ELSE LaneTold(LaneX(h), LaneJudged(LaneX(h)))
  /\ UNCHANGED <<lnScene, lnPart, lnHandled, lnAnswered>> /\ UNCHANGED LaneAdmin /\ UNCHANGED LaneWorld

LanePrepare(h) == lnPc[h] = "preparing" /\ LaneStep(h, "preparing", "waiting") /\ \E keep \in BOOLEAN : LaneKeep(h, keep)

LaneAcquire(h) ==
  /\ lnPc[h] = "waiting" /\ lnAfter[h] \in lnDone \cup {LaneNone}
  /\ IF lnFit[h] = {} THEN LaneGoto(h, "leaving")
     ELSE /\ \A k \in LaneHandlers \ {h} : lnPc[k] \in LaneInside => lnKey[k] # lnKey[h]
          /\ LaneGoto(h, "checking")
  /\ UNCHANGED <<lnScene, lnTrace, lnPart, lnAt, lnFit, lnHandled, lnAnswered>> /\ UNCHANGED LaneAdmin /\ UNCHANGED LaneWorld

LaneRecheck(h) ==
  /\ lnPc[h] = "checking" /\ LaneStep(h, "checking", "handling")
  /\ IF lnAt[h] \in lnFit[h] THEN \E keep \in BOOLEAN : LaneKeep(h, keep)
     ELSE UNCHANGED <<lnScene, lnTrace, lnPart, lnFit, lnHandled, lnAnswered>> /\ UNCHANGED LaneAdmin /\ UNCHANGED LaneWorld

LaneFinish_pops(h) ==
  /\ lnPc[h] = "leaving" /\ LaneGoto(h, "over")
  /\ lnDone' = lnDone \cup {h} /\ lnUsers' = lnUsers - 1
  /\ lnTail' = (IF lnTail = h THEN LaneNone ELSE lnTail)
  /\ lnLock' = (IF \E k \in LaneHandlers : lnPc[k] \in LaneInside /\ lnKey[k] = lnLock THEN lnLock ELSE 0)
  /\ UNCHANGED <<lnScene, lnTrace, lnPart, lnAt, lnFit, lnHandled, lnAfter, lnKey, lnAnswered>> /\ UNCHANGED LaneWorld
\* The tail and the lock leave the registry with their last user only.
LaneFinish(h) ==
  /\ lnPc[h] = "leaving" /\ LaneGoto(h, "over")
  /\ lnDone' = lnDone \cup {h} /\ lnUsers' = lnUsers - 1
  /\ IF lnUsers' > 0 THEN UNCHANGED <<lnTail, lnLock>>
     ELSE /\ lnTail' = IF lnTail = h THEN LaneNone ELSE lnTail
          /\ lnLock' = 0
  /\ UNCHANGED <<lnScene, lnTrace, lnPart, lnAt, lnFit, lnHandled, lnAfter, lnKey, lnAnswered>> /\ UNCHANGED LaneWorld

\* The task is cancelled at an await, or the await raises; only the finally
\* clause still runs.
LaneCancel(h) ==
  /\ lnPc[h] \in (LaneInside \cup {"preparing", "waiting"}) \ {"handling"} /\ LaneGoto(h, "leaving")
  /\ UNCHANGED <<lnScene, lnTrace, lnPart, lnAt, lnFit, lnHandled, lnAnswered>> /\ UNCHANGED LaneAdmin /\ UNCHANGED LaneWorld

----------------------------------------------------------------------------
(* Handling the batch under the lock.                                      *)
LaneQuiet == UNCHANGED lnScene /\ UNCHANGED <<lnPart, lnFit, lnAnswered>> /\ UNCHANGED LaneAdmin /\ UNCHANGED LaneWorld
LaneNext1(h) == LaneStep(h, "handling", "leaving")
LaneSay(h, last) == lnTrace' = LaneTold(LaneX(h), last)

\* What needs no model: an evaluation already dropped, a judgement not to speak,
\* a group already answered, an anchor that is no message.
LaneHandle(h) ==
  /\ lnPc[h] = "handling" /\ LaneQuiet /\ UNCHANGED lnHandled
  /\ LET x == LaneX(h) IN
     \/ lnAt[h] \notin lnFit[h] /\ LaneNext1(h) /\ UNCHANGED lnTrace
     \/ /\ lnAt[h] \in lnFit[h] /\ LaneNext1(h)
        /\ IF lnOutcome[x] = "ACT" \/ (lnOutcome[x] = "DEFER" /\ ~lnHandled[h])
           THEN LaneSay(h, "FAILED") ELSE LaneSay(h, LaneJudged(x))
     \/ lnAt[h] \in lnFit[h] /\ ~lnHandled[h] /\ lnOutcome[x] \in {"ACT", "DEFER"}
        /\ LaneGoto(h, "reading") /\ UNCHANGED <<lnAt, lnTrace>>

\* Interpreting the scene, the stance and the move may raise: the rest of the
\* batch is lost with it.  A silent move or no plan ends the evaluation; a
\* deferred one never gets a plan.
LaneRead(h) ==
  /\ lnPc[h] = "reading" /\ LaneQuiet
  /\ \/ LaneSay(h, "FAILED") /\ LaneGoto(h, "leaving") /\ UNCHANGED <<lnAt, lnHandled>>
     \/ LaneSay(h, "SILENT") /\ LaneNext1(h) /\ UNCHANGED lnHandled
     \/ LaneSay(h, "FAILED") /\ LaneNext1(h) /\ UNCHANGED lnHandled
     \/ lnOutcome[LaneX(h)] = "ACT" /\ lnMode = "SHADOW" /\ LaneGoto(h, "previewing") /\ UNCHANGED <<lnTrace, lnAt, lnHandled>>
     \* A rollout that blocks the reply leaves its plan silent.
     \/ lnOutcome[LaneX(h)] = "ACT" /\ LaneSay(h, IF lnMode = "SHADOW" THEN "BLOCKED_BY_SHADOW" ELSE "READY") /\ LaneNext1(h)
        /\ lnHandled' = [lnHandled EXCEPT ![h] = TRUE]
     \/ lnOutcome[LaneX(h)] = "ACT" /\ lnMode # "SHADOW" /\ LaneSay(h, "READY") /\ LaneGoto(h, "writing")
        /\ lnHandled' = [lnHandled EXCEPT ![h] = TRUE] /\ UNCHANGED lnAt

\* A preview is shown and never sent.
LanePreview(h) ==
  /\ lnPc[h] = "previewing" /\ LaneQuiet
  /\ \/ LaneSay(h, "FAILED") /\ LaneGoto(h, "leaving") /\ UNCHANGED <<lnAt, lnHandled>>
     \/ \E last \in {"BLOCKED_BY_SHADOW", "FAILED"} :
          LaneSay(h, last) /\ LaneNext1(h) /\ lnHandled' = [lnHandled EXCEPT ![h] = TRUE]

\* The executor: a usable reply, a fallback or a half-recorded reply that is in
\* the outbox though the trace calls it failed, or nothing.
LaneWrite(h) ==
  /\ lnPc[h] = "writing"
  /\ LET e == LaneSource[LaneX(h)] IN
     \/ LaneGoto(h, "leasing") /\ lnPart' = [lnPart EXCEPT ![e] = "ready"] /\ UNCHANGED <<lnTrace, lnAt>>
     \/ /\ LaneSay(h, "FAILED") /\ (LaneNext1(h) \/ (LaneGoto(h, "sending") /\ UNCHANGED lnAt))
        /\ \E part \in {"ready", lnPart[e]} : lnPart' = [lnPart EXCEPT ![e] = part]
  /\ UNCHANGED <<lnScene, lnFit, lnHandled, lnAnswered>> /\ UNCHANGED LaneAdmin /\ UNCHANGED LaneWorld

\* record_usable_reply: the lease event moves the scene; without a target, a
\* topic or a live lease there is none; it may raise.
LaneLease(h) ==
  /\ lnPc[h] = "leasing"
  /\ \/ LaneGoto(h, "sending") /\ lnScene' = lnScene + 1 /\ lnAnswered' = lnAnswered \cup {LaneX(h)} /\ UNCHANGED <<lnTrace, lnAt>>
     \/ LaneGoto(h, "sending") /\ UNCHANGED <<lnScene, lnAnswered, lnTrace, lnAt>>
     \/ LaneNext1(h) /\ LaneSay(h, "FAILED") /\ UNCHANGED <<lnScene, lnAnswered>>
  /\ UNCHANGED <<lnPart, lnFit, lnHandled>> /\ UNCHANGED LaneAdmin /\ UNCHANGED LaneWorld

\* _dispatch_ready runs in the lane and in the wake-up loop; a part that
\* expires has no receipt, and its trace is not told.
LaneSend(e) ==
  /\ lnPart[e] = "ready" /\ lnPart' = [lnPart EXCEPT ![e] = "done"]
  /\ \E last \in {"SENT", "FAILED", "UNKNOWN", lnTrace[e]} : lnTrace' = [lnTrace EXCEPT ![e] = last]
  /\ UNCHANGED <<lnScene, lnPc, lnAt, lnFit, lnHandled, lnAnswered>> /\ UNCHANGED LaneAdmin /\ UNCHANGED LaneWorld
LaneSent(h) ==
  /\ lnPc[h] = "sending" /\ LaneNext1(h) /\ LaneQuiet /\ UNCHANGED lnHandled
  /\ \/ UNCHANGED lnTrace /\ \A e \in LaneMessages : lnPart[e] # "ready"
     \/ LaneSay(h, "FAILED")

LaneHandlerNext(h) ==
  \/ LaneDrain(h) \/ LaneReserve(h) \/ LanePrepare(h) \/ LaneAcquire(h) \/ LaneRecheck(h) \/ LaneFinish(h)
  \/ LaneCancel(h) \/ LaneHandle(h) \/ LaneRead(h) \/ LanePreview(h) \/ LaneWrite(h) \/ LaneLease(h) \/ LaneSent(h)
LaneNext ==
  \/ \E e \in LaneMessages : LaneReceive(e) \/ LaneEnter(e) \/ LaneSend(e)
  \/ \E h \in LaneHandlers : LaneHandlerNext(h)
LaneSpec == LaneInit /\ [][LaneNext]_lnVars

----------------------------------------------------------------------------
LanePcs == LaneInside \cup {"idle", "drained", "preparing", "waiting", "leaving", "over"}
LaneTypeOK ==
  /\ lnMode \in LaneModes /\ lnScene \in Nat
  /\ lnTrace \in [LaneMessages -> LaneStatuses] /\ lnEntered \subseteq LaneMessages
  /\ lnPart \in [LaneMessages -> LaneParts]
  /\ lnPc \in [LaneHandlers -> LanePcs] /\ lnSeen \in [LaneHandlers -> Nat]
  /\ lnAt \in [LaneHandlers -> Nat] /\ \A h \in LaneHandlers : lnAt[h] \in DOMAIN LaneBatch[h]
  /\ lnFit \in [LaneHandlers -> SUBSET Nat] /\ \A h \in LaneHandlers : lnFit[h] \subseteq DOMAIN LaneBatch[h]
  /\ lnOutcome \in LaneShadowEvaluations /\ lnHandled \in [LaneHandlers -> BOOLEAN]
  /\ lnTail \in LaneHandlers \cup {LaneNone} /\ lnAfter \in [LaneHandlers -> LaneHandlers \cup {LaneNone}]
  /\ lnDone \subseteq LaneHandlers /\ lnUsers \in 0 .. Cardinality(LaneHandlers)
  /\ lnLock \in Nat /\ lnKey \in [LaneHandlers -> Nat] /\ lnAnswered \subseteq LaneEvaluations

\* One handler of the group is inside the lane at a time, although the lock
\* object is dropped when idle and a waiting handler may be cancelled.
LaneOneInside == \A h, k \in LaneHandlers : lnPc[h] \in LaneInside /\ lnPc[k] \in LaneInside => h = k

LaneSeenBy(x) == lnSeen[CHOOSE h \in LaneHandlers : \E i \in DOMAIN LaneBatch[h] : LaneBatch[h][i] = x]
\* Of two guarded judgements of one scene at most one gets an answer whose lease
\* event moves the scene: the second is checked again inside the lane.  Answers
\* whose lease event changed nothing are not counted, for nothing tells the second.
LaneOneAnswerPerScene ==
  \A x, y \in lnAnswered : LaneGuarded(x) /\ LaneGuarded(y) /\ LaneSeenBy(x) = LaneSeenBy(y) => x = y

\* Joining the context of another judgement never rewrites how a message ended,
\* so a reply recorded as sent is shown as context to nobody.
LaneContextKeepsEnd ==
  \A e \in LaneMessages, h \in LaneHandlers :
     lnPc'[h] # lnPc[h] \/ lnAt'[h] # lnAt[h] =>
       (lnTrace[e] \in LaneTerminal /\ lnTrace'[e] # lnTrace[e] => e = LaneSource[LaneX(h)])

\* docs/operations: a reply is not sent to a scene that has moved on.
LaneNothingToMovedScene ==
  [][\A h \in LaneHandlers :
       lnPc[h] = "writing" /\ lnPc'[h] = "leasing" /\ LaneGuarded(LaneX(h)) => lnScene = lnSeen[h]]_lnVars

\* The lane of a group holds one handler, and of the guarded judgements of one scene one at most moves it.
LaneSound == LaneOneInside /\ LaneOneAnswerPerScene
=============================================================================
