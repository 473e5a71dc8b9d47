------------------------------ MODULE Cognition ------------------------------
(***************************************************************************)
(* The evaluation of attention frames (cognition/service.py, manager.py    *)
(* _evaluate_cycle): the rule worker and the worker the frame asks for     *)
(* pass one priority gate shared by all the groups, each under a hard      *)
(* timeout that cancels a call but cannot stop one that swallows the       *)
(* cancellation; what came back in time goes on a blackboard, and          *)
(* participation.py, intentions.py and governor.py turn it into an         *)
(* outcome, which the scene's actor then takes or finds stale.             *)
(***************************************************************************)
EXTENDS Integers, Sequences, FiniteSets, SequencesExt

CONSTANTS
  CogFrames,    \* frames under evaluation, of any group
  CogKind,      \* frame -> trigger_kind
  CogWanted,    \* frames with a requested worker (an ambient frame always has one)
  CogKnown,     \* those whose worker is configured
  CogChorus,    \* ambient frames in a confirmed chorus
  CogMay,       \* frame -> what its worker may answer
  CogLimit,     \* max_worker_concurrency
  CogMaxCalls   \* max_worker_calls

CogLanes == <<"FAST", "CONTINUATION", "TEMPORAL", "AMBIENT">>
ASSUME CogConstants ==
  /\ IsFiniteSet(CogFrames) /\ CogKind \in [CogFrames -> {CogLanes[i] : i \in 1..4}]
  /\ CogKnown \subseteq CogWanted /\ CogWanted \subseteq CogFrames /\ CogChorus \subseteq CogFrames
  /\ CogLimit \in Nat \ {0} /\ CogMaxCalls \in Nat

VARIABLES
  cgPc,       \* by frame: where evaluate is
  cgTask,     \* by call: the task of the gate
  cgEnd,      \* by call: what evaluate got from it
  cgSaid,     \* history, by call: what the worker answered, in time or not
  cgQueue,    \* admissions, in the order of their sequence
  cgActive,   \* slots taken
  cgOutcome   \* by frame: the governor's outcome
cgVars == <<cgPc, cgTask, cgEnd, cgSaid, cgQueue, cgActive, cgOutcome>>

CogCalls == CogFrames \X {"rule", "model"}
\* What a model may send back: addressed: the last message is for another member, so it is not
\* asked; owned: the bot has a confirmed dialogue with one of the senders; anchored: the message
\* to answer, its sender and its topic are the frame's; evidence: so is the evidence; relation:
\* what it says of the dialogue, sure: with the confidence asked for; strays: one of a structured
\* worker's observations cites a message outside the frame.
CogRaws == [addressed : BOOLEAN, fault : {"none", "raises", "invalid"}, owned : BOOLEAN, anchored : BOOLEAN,
            evidence : BOOLEAN, relation : {"absent", "broken", "answers", "other"}, speaks : BOOLEAN,
            sure : BOOLEAN, strays : BOOLEAN]
CogRelated(r) == r.relation # "broken" /\ (r.relation = "answers" => r.owned)
\* In a dialogue of the bot only the relation decides.
CogOwned(r) ==
  CASE r.relation = "absent" \/ ~CogRelated(r) \/ (r.relation = "answers" /\ ~r.anchored) -> "invalid"
    [] r.relation = "answers" /\ r.sure -> "speak"
    [] OTHER -> "silence"
CogOpen(r) ==
  CASE ~CogRelated(r) \/ ~r.evidence \/ (r.speaks /\ ~r.anchored) -> "invalid"
    [] r.speaks -> IF r.sure THEN "speak" ELSE "timid"
    [] OTHER -> "silence"
CogDirect(r) ==
  CASE r.addressed -> "silence"
    [] ~r.addressed /\ r.fault # "none" -> r.fault
    [] OTHER -> IF r.owned THEN CogOwned(r) ELSE CogOpen(r)
\* A structured worker's observations are taken as they are; mixed: the board rejects one.
CogStructured(r) ==
  CASE r.fault # "none" -> r.fault
    [] r.speaks -> IF r.strays THEN "mixed" ELSE IF r.sure THEN "speak" ELSE "timid"
    [] OTHER -> "silence"
CogVerdicts == {CogDirect(r) : r \in CogRaws} \cup {CogStructured(r) : r \in CogRaws}
CogQueued == {"asleep", "awake", "leaving"}
CogHolding == {"calling", "dropped"}
CogOutcomes == {"ACT", "DEFER", "OBSERVE", "SILENCE"}

CogInit ==
  /\ cgPc = [f \in CogFrames |-> "idle"]
  /\ cgTask = [c \in CogCalls |-> "none"] /\ cgEnd = [c \in CogCalls |-> "pending"]
  /\ cgSaid = [c \in CogCalls |-> "nothing"] /\ cgQueue = <<>> /\ cgActive = 0
  /\ cgOutcome = [f \in CogFrames |-> "none"]

----------------------------------------------------------------------------
(* The gate.                                                               *)
CogRank(c) == CHOOSE i \in 1..4 : CogLanes[i] = CogKind[c[1]]
CogHead_fifo(q) == q[1]
\* peek: the lowest lane, then the oldest.
CogHead(q) ==
  q[CHOOSE i \in DOMAIN q : \A j \in DOMAIN q :
       CogRank(q[i]) < CogRank(q[j]) \/ (CogRank(q[i]) = CogRank(q[j]) /\ i <= j)]
CogMayPass_any(c, q) == cgActive <= CogLimit /\ CogHead(q) = c
CogMayPass(c, q) == cgActive < CogLimit /\ CogHead(q) = c
\* dequeue of the head, and discard, which leaves a queue without the call alone.
CogWithout(q, c) ==
  IF \E i \in DOMAIN q : q[i] = c THEN RemoveAt(q, CHOOSE i \in DOMAIN q : q[i] = c) ELSE q

\* notify_all, with what becomes of c itself.
CogNotified(c, to) ==
  [d \in CogCalls |-> IF d = c THEN to ELSE IF cgTask[d] = "asleep" THEN "awake" ELSE cgTask[d]]

\* The rule worker awaits nothing: it has its slot and gives it back within one step.
CogPass(c, q) ==
  /\ CogMayPass(c, q) /\ cgQueue' = CogWithout(q, c)
  /\ \/ /\ c[2] = "rule" /\ cgTask' = CogNotified(c, "over")
        /\ cgEnd' = [cgEnd EXCEPT ![c] = "silence"] /\ UNCHANGED cgActive
     \/ /\ c[2] = "model" /\ cgTask' = [cgTask EXCEPT ![c] = "calling"]
        /\ cgActive' = cgActive + 1 /\ UNCHANGED cgEnd

CogWait(c, q) ==
  /\ ~CogMayPass(c, q) /\ cgQueue' = q /\ cgTask' = [cgTask EXCEPT ![c] = "asleep"]
  /\ UNCHANGED <<cgEnd, cgActive>>

CogEnqueue(c) ==
  /\ cgPc[c[1]] = c[2] /\ cgTask[c] = "none"
  /\ LET q == Append(cgQueue, c) IN CogPass(c, q) \/ CogWait(c, q)
  /\ UNCHANGED <<cgPc, cgSaid, cgOutcome>>
CogWake(c) ==
  /\ cgTask[c] = "awake" /\ (CogPass(c, cgQueue) \/ CogWait(c, cgQueue))
  /\ UNCHANGED <<cgPc, cgSaid, cgOutcome>>

\* The provider answers; of a call evaluate gave up, nothing is read.
CogAnswer(c) ==
  /\ cgTask[c] \in CogHolding
  /\ \E v \in CogVerdicts \cap CogMay[c[1]] :
        /\ cgSaid' = [cgSaid EXCEPT ![c] = v]
        /\ cgEnd' = IF cgEnd[c] = "pending" THEN [cgEnd EXCEPT ![c] = v] ELSE cgEnd
  /\ cgTask' = CogNotified(c, "over") /\ cgActive' = cgActive - 1
  /\ UNCHANGED <<cgPc, cgQueue, cgOutcome>>

\* _detach_late_task: the cancellation reaches the task in a later step.
CogDetached(c) ==
  CASE cgTask[c] \in {"asleep", "awake"} -> "leaving"
    [] cgTask[c] = "calling" -> "dropped"
    [] OTHER -> cgTask[c]
CogTimeout(c) ==
  /\ cgTask[c] \in {"asleep", "awake", "calling"} /\ cgEnd[c] = "pending"
  /\ cgEnd' = [cgEnd EXCEPT ![c] = "timeout"] /\ cgTask' = [cgTask EXCEPT ![c] = CogDetached(c)]
  /\ UNCHANGED <<cgPc, cgSaid, cgQueue, cgActive, cgOutcome>>
CogDiscard_not(c) == cgQueue
CogDiscard(c) == CogWithout(cgQueue, c)
CogUnwind_all(c) ==
  /\ cgTask[c] \in {"leaving", "dropped"} /\ cgQueue' = CogDiscard(c) /\ cgActive' = cgActive - 1
  /\ cgTask' = CogNotified(c, "over")
  /\ UNCHANGED <<cgPc, cgEnd, cgSaid, cgOutcome>>
\* A call that ends on its cancellation; one that swallows it stays until it answers.
CogUnwind(c) ==
  /\ \/ cgTask[c] = "leaving" /\ cgQueue' = CogDiscard(c) /\ UNCHANGED cgActive
     \/ cgTask[c] = "dropped" /\ cgActive' = cgActive - 1 /\ UNCHANGED cgQueue
  /\ cgTask' = CogNotified(c, "over")
  /\ UNCHANGED <<cgPc, cgEnd, cgSaid, cgOutcome>>

----------------------------------------------------------------------------
(* evaluate.                                                               *)
CogStart(f) ==
  /\ cgPc[f] = "idle" /\ cgPc' = [cgPc EXCEPT ![f] = "rule"]
  /\ UNCHANGED <<cgTask, cgEnd, cgSaid, cgQueue, cgActive, cgOutcome>>
\* The admitted workers: one at most is asked for, and the budget may allow none.
CogGather(f) ==
  /\ cgPc[f] \in {"rule", "model"} /\ cgEnd[<<f, cgPc[f]>>] # "pending"
  /\ cgPc' = [cgPc EXCEPT ![f] =
                IF cgPc[f] = "rule" /\ f \in CogKnown /\ CogMaxCalls >= 1 THEN "model" ELSE "deciding"]
  /\ UNCHANGED <<cgTask, cgEnd, cgSaid, cgQueue, cgActive, cgOutcome>>

CogCompleted == {"speak", "timid", "silence"}
CogDegraded_never(f) == FALSE
CogDegraded(f) ==
  \/ cgEnd[<<f, "rule">>] = "timeout"
  \/ f \in CogWanted /\ cgEnd[<<f, "model">>] \notin CogCompleted
\* A lane that is taken without the model: its candidate is the frame's own.
CogDeterministic(f) ==
  \/ CogKind[f] = "FAST" /\ f \notin CogWanted
  \/ CogKind[f] \in {"CONTINUATION", "TEMPORAL"}
  \/ f \in CogChorus
\* _participation_allows, and an assessment the intention engine lets through.
CogInvited(f) == cgEnd[<<f, "model">>] \in {"speak", "mixed"}
CogForced(f) ==
  \/ CogDegraded(f) /\ ~CogDeterministic(f)
  \/ CogKind[f] = "AMBIENT" /\ f \notin CogChorus /\ ~CogInvited(f)
\* SocialGovernor.decide; gate: what the frame's governance snapshot lets through (blocked: a
\* hard reason, limited: the rate limit, low: the utility is below the minimum).
CogGates == {"open", "blocked", "limited", "low"}
CogDecision(f, gate) ==
  CASE CogForced(f) -> "OBSERVE"
    [] ~CogForced(f) /\ (gate \in {"blocked", "low"} \/ ~(CogDeterministic(f) \/ CogInvited(f))) ->
         "SILENCE"
    [] OTHER -> IF gate = "limited" THEN "DEFER" ELSE "ACT"
CogDecide(f) ==
  /\ cgPc[f] = "deciding" /\ cgPc' = [cgPc EXCEPT ![f] = "judged"]
  /\ \E gate \in CogGates : cgOutcome' = [cgOutcome EXCEPT ![f] = CogDecision(f, gate)]
  /\ UNCHANGED <<cgTask, cgEnd, cgSaid, cgQueue, cgActive>>
\* accept_result, or discard_work of an ambient frame whose deadline has passed.
CogHandIn(f) ==
  /\ cgPc[f] = "judged" /\ \E to \in {"accepted", "stale"} : cgPc' = [cgPc EXCEPT ![f] = to]
  /\ UNCHANGED <<cgTask, cgEnd, cgSaid, cgQueue, cgActive, cgOutcome>>
\* The host cancels the handler: its calls are detached.
CogCancel(f) ==
  /\ cgPc[f] \in {"rule", "model"} /\ cgPc' = [cgPc EXCEPT ![f] = "cancelled"]
  /\ cgTask' = [c \in CogCalls |-> IF c[1] = f THEN CogDetached(c) ELSE cgTask[c]]
  /\ cgEnd' = [c \in CogCalls |-> IF c[1] = f /\ cgEnd[c] = "pending" THEN "timeout" ELSE cgEnd[c]]
  /\ UNCHANGED <<cgSaid, cgQueue, cgActive, cgOutcome>>

CogNext ==
  \/ \E f \in CogFrames : CogStart(f) \/ CogGather(f) \/ CogDecide(f) \/ CogHandIn(f) \/ CogCancel(f)
  \/ \E c \in CogCalls : CogEnqueue(c) \/ CogWake(c) \/ CogAnswer(c) \/ CogTimeout(c) \/ CogUnwind(c)
CogSpec == CogInit /\ [][CogNext]_cgVars

----------------------------------------------------------------------------
CogRuns == [CogCalls -> CogVerdicts \cup {"pending", "timeout"}]
CogResults == [CogCalls -> CogVerdicts \cup {"nothing"}]
CogGovernorResults == [CogFrames -> CogOutcomes \cup {"none"}]
CogTypeOK ==
  /\ cgPc \in [CogFrames -> {"idle", "rule", "model", "deciding", "judged", "accepted", "stale", "cancelled"}]
  /\ cgTask \in [CogCalls -> CogQueued \cup CogHolding \cup {"none", "over"}]
  /\ cgEnd \in CogRuns
  /\ cgSaid \in CogResults
  /\ cgQueue \in Seq(CogCalls) /\ cgActive \in Nat
  /\ cgOutcome \in CogGovernorResults

\* The gate's books are right: the slots counted are the calls inside, never more than the limit,
\* a call its evaluation gave up included, and the queue holds exactly the calls that wait, so a
\* cancelled one never stays at its head and shuts the gate (service.py _WorkerConcurrencyGate).
CogGateKept ==
  /\ cgActive = Cardinality({c \in CogCalls : cgTask[c] \in CogHolding}) /\ cgActive <= CogLimit
  /\ {cgQueue[i] : i \in DOMAIN cgQueue} = {c \in CogCalls : cgTask[c] \in CogQueued}

\* No call enters the gate while one of a more urgent lane waits at it: a busy ambient group never
\* delays the direct work of another group (scheduling.py WorkerAdmissionQueue).
CogDirectFirst ==
  \A c, d \in CogCalls :
     (cgTask[c] \in {"none", "awake"} /\ cgTask[c]' \in {"calling", "over"} /\ cgTask[d] \in CogQueued)
       => CogRank(c) <= CogRank(d)

\* Outside the lanes taken without a model the bot speaks only on a verdict to speak that arrived
\* whole and before the hard timeout: never on a call that timed out and answered after it, failed,
\* or was partly rejected (participation.py, manager.py force_observe).
CogSpeaksOnVerdict ==
  \A f \in CogFrames : cgOutcome[f] = "ACT" =>
     CogDeterministic(f) \/ (cgEnd[<<f, "model">>] = "speak" /\ cgSaid[<<f, "model">>] = "speak" /\ cgEnd[<<f, "rule">>] # "timeout")

\* Timeouts, cancellations and late answers leave the gate's books right and never make the bot speak.
CogSound == CogGateKept /\ CogSpeaksOnVerdict
=============================================================================
