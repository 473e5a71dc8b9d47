----------------------------- MODULE Conventions -----------------------------
(***************************************************************************)
(* What a group means by an expression: the bounded observation queue      *)
(* (observation.py), the conventions and aliases its evidence builds, their *)
(* expiry and retention, and the administrator's corrections (repository   *)
(* .py).  One expression of one group, whose rival conventions differ in   *)
(* the entity they resolve to; the clock ticks in units of the stale age.  *)
(***************************************************************************)
EXTENDS Integers, Sequences, FiniteSets, SequencesExt

CONSTANTS
  ConvEntities,     \* active entities the expression may stand for
  ConvMessages,     \* human messages that yield an observation
  ConvSceneOf,      \* message -> scene_ref
  ConvKindsOf,      \* message -> the kinds its text may be taken for
  ConvAdmins,       \* messages of owners and administrators
  ConvCapacity, ConvThreshold,
  ConvLastTick      \* bound of the clock

ASSUME ConvConstants ==
  /\ IsFiniteSet(ConvMessages) /\ "nobody" \notin ConvEntities
  /\ ConvAdmins \subseteq ConvMessages /\ DOMAIN ConvSceneOf = ConvMessages
  /\ ConvKindsOf \in [ConvMessages -> SUBSET {"definition", "usage", "topic_mention", "unknown_game_mention"}]
  /\ ConvCapacity \in Nat \ {0} /\ ConvThreshold \in Nat /\ ConvLastTick \in Nat

VARIABLES
  convNow,
  convObs,       \* knowledge_observations
  convQueue,     \* _queue of the observation service, message ids
  convUp,        \* its task runs
  conv,          \* group_conventions, by entity
  convAlias,     \* group_knowledge_aliases, by entity
  convTrimmed,   \* observations whose text retention removed
  convMentions,  \* qualified mentions
  convLearning,  \* the learning job of the unknown game is enqueued
  convCommanded  \* history: meanings that hold by an administrator's command
convVars == <<convNow, convObs, convQueue, convUp, conv, convAlias, convTrimmed, convMentions, convLearning, convCommanded>>

ConvKinds == {"definition", "usage", "topic_mention", "unknown_game_mention"}
ConvNobody == "nobody"
ConvObservation ==
  [status : {"absent", "pending", "admitted", "rejected"}, kind : ConvKinds, entity : ConvEntities \cup {ConvNobody},
   at : 0 .. ConvLastTick]
ConvStates == {"none", "candidate", "active", "disputed", "stale", "rejected"}
ConvConvention == [status : ConvStates, evidence : SUBSET ConvMessages, seen : 0 .. ConvLastTick]

ConvInit ==
  /\ convNow = 0
  /\ convObs = [m \in ConvMessages |-> [status |-> "absent", kind |-> "usage", entity |-> ConvNobody, at |-> 0]]
  /\ convQueue = <<>> /\ convUp = FALSE
  /\ conv = [e \in ConvEntities |-> [status |-> "none", evidence |-> {}, seen |-> 0]]
  /\ convAlias = [e \in ConvEntities |-> "none"]
  /\ convTrimmed = {} /\ convMentions = {} /\ convLearning = FALSE /\ convCommanded = {}

ConvTick == convNow < ConvLastTick /\ convNow' = convNow + 1
  /\ UNCHANGED <<convObs, convQueue, convUp, conv, convAlias, convTrimmed, convMentions, convLearning, convCommanded>>

----------------------------------------------------------------------------
(* Observing and the queue.                                                *)
ConvRest == UNCHANGED <<convNow, conv, convAlias, convTrimmed, convMentions, convLearning, convCommanded>>
ConvQueued == ToSet(convQueue)
ConvSet(ms, status) == [m \in ConvMessages |-> IF m \in ms THEN [convObs[m] EXCEPT !.status = status] ELSE convObs[m]]
ConvPriority(m) == IF m \in ConvAdmins THEN 120 ELSE 100
\* A usage is attributed when it is observed: to the only entity whose
\* convention is then a candidate or active.
ConvAttributed(kind, e) ==
  CASE kind = "definition" -> e \in ConvEntities
    [] kind = "usage" -> {f \in ConvEntities : conv[f].status \in {"candidate", "active"}} = {e}
    [] OTHER -> e = ConvNobody

\* The row is stored first.  When the queue is full the least trusted of the
\* queued observations makes room for a more trusted one, or the new one goes.
ConvObserve(m) ==
  /\ convUp /\ convObs[m].status = "absent"
  /\ \E kind \in ConvKindsOf[m], e \in ConvEntities \cup {ConvNobody} :
       /\ ConvAttributed(kind, e)
       /\ LET row == [status |-> "pending", kind |-> kind, entity |-> e, at |-> convNow] IN
          IF Len(convQueue) < ConvCapacity
          THEN convQueue' = Append(convQueue, m) /\ convObs' = [convObs EXCEPT ![m] = row]
          ELSE \E i \in DOMAIN convQueue :
            /\ \A n \in ConvQueued : ConvPriority(convQueue[i]) <= ConvPriority(n)
            /\ IF ConvPriority(convQueue[i]) < ConvPriority(m)
               THEN /\ convQueue' = Append(RemoveAt(convQueue, i), m)
                    /\ convObs' = [convObs EXCEPT ![m] = row, ![convQueue[i]].status = "rejected"]
               ELSE /\ convObs' = [convObs EXCEPT ![m] = [row EXCEPT !.status = "rejected"]]
                    /\ UNCHANGED convQueue
  /\ ConvRest /\ UNCHANGED convUp

ConvStart_all ==
  /\ ~convUp /\ convUp' = TRUE
  /\ convQueue' = SetToSeq({m \in ConvMessages : convObs[m].status = "pending"}) /\ UNCHANGED convObs
  /\ ConvRest
\* Rows left pending by an earlier process are queued again as far as there is room.
ConvStart ==
  /\ ~convUp /\ convUp' = TRUE
  /\ LET pending == {m \in ConvMessages : convObs[m].status = "pending"} IN
     \E kept \in SUBSET pending :
       /\ kept = pending \/ Cardinality(kept) = ConvCapacity
       /\ Cardinality(kept) <= ConvCapacity
       /\ convQueue' = SetToSeq(kept) /\ convObs' = ConvSet(pending \ kept, "rejected")
  /\ ConvRest
\* A crash, or close after the drain it could complete.
ConvStop == convUp /\ convUp' = FALSE /\ convQueue' = <<>> /\ ConvRest /\ UNCHANGED convObs

----------------------------------------------------------------------------
(* Evidence.                                                               *)
\* A definition and two scenes, or an administrator's word.
ConvSettled(ms, admin) ==
  \/ admin
  \/ /\ \E m \in ms : convObs[m].kind = "definition" /\ m \notin convTrimmed
     /\ Cardinality({ConvSceneOf[m] : m \in ms}) >= 2
ConvRivals_open(e) == {f \in ConvEntities \ {e} : conv[f].status \in {"candidate", "disputed"}}
ConvRivals(e) == {f \in ConvEntities \ {e} : conv[f].status \in {"candidate", "active", "disputed"}}
\* The meaning was last seen when its newest message was said, however late that is projected.
ConvEvidence(m, e) ==
  LET ms     == conv[e].evidence \cup {m}
      status == IF ConvSettled(ms, m \in ConvAdmins /\ convObs[m].kind = "definition") THEN "active" ELSE "candidate"
      mine   == [status |-> status, evidence |-> ms, seen |-> Max({conv[e].seen, convObs[m].at})]
  IN  /\ IF ConvRivals(e) # {}
         THEN /\ conv' = [f \in ConvEntities |-> IF f = e THEN [mine EXCEPT !.status = "disputed"]
                            ELSE IF f \in ConvRivals(e) THEN [conv[f] EXCEPT !.status = "disputed"] ELSE conv[f]]
              /\ convAlias' = [f \in ConvEntities |-> IF convAlias[f] = "none" THEN "none" ELSE "disputed"]
         ELSE /\ conv' = [conv EXCEPT ![e] = mine]
              /\ convAlias' = [convAlias EXCEPT ![e] = IF status = "active" THEN "active" ELSE @]
      /\ convCommanded' = convCommanded \ (ConvRivals(e) \cup {e})

\* An administrator's word is enough to learn of an unknown game; others are counted.
ConvMentioned(m) ==
  LET kind == convObs[m].kind IN
  /\ convMentions' = convMentions \cup {m}
  /\ convLearning' = (convLearning \/ (kind = "unknown_game_mention" /\
       (m \in ConvAdmins \/ Cardinality({n \in convMentions' : convObs[n].kind = kind}) >= ConvThreshold)))
ConvProject(m) ==
  IF convObs[m].kind \in {"definition", "usage"}
  THEN ConvEvidence(m, convObs[m].entity) /\ UNCHANGED <<convMentions, convLearning>>
  ELSE ConvMentioned(m) /\ UNCHANGED <<conv, convAlias, convCommanded>>
\* The head is projected and marked; if the mark fails it has left the queue.
ConvProcess ==
  /\ convQueue # <<>>
  /\ ConvProject(Head(convQueue))
  /\ convQueue' = Tail(convQueue)
  /\ convObs' = ConvSet({Head(convQueue)}, "admitted") \/ convObs' = convObs
  /\ UNCHANGED <<convNow, convUp, convTrimmed>>
ConvFails ==
  /\ convQueue # <<>>
  /\ convQueue' = Append(Tail(convQueue), Head(convQueue))
  /\ ConvRest /\ UNCHANGED <<convUp, convObs>>

\* The housekeeping of every turn of the loop.
ConvExpired == {e \in ConvEntities : conv[e].status \in {"candidate", "active"} /\ conv[e].seen < convNow}
ConvExpire ==
  /\ convUp /\ ConvExpired # {}
  /\ conv' = [e \in ConvEntities |-> IF e \in ConvExpired THEN [conv[e] EXCEPT !.status = "stale"] ELSE conv[e]]
  /\ convAlias' = [e \in ConvEntities |-> IF e \in ConvExpired /\ convAlias[e] # "none" THEN "stale" ELSE convAlias[e]]
  /\ convCommanded' = convCommanded \ ConvExpired
  /\ UNCHANGED <<convNow, convObs, convQueue, convUp, convTrimmed, convMentions, convLearning>>
ConvRetain ==
  /\ convUp /\ convNow = ConvLastTick
  /\ convTrimmed' = {m \in ConvMessages : convObs[m].status \in {"admitted", "rejected"}}
  /\ UNCHANGED <<convNow, convObs, convQueue, convUp, conv, convAlias, convMentions, convLearning, convCommanded>>

----------------------------------------------------------------------------
(* Administration.                                                         *)
ConvAdminRest == UNCHANGED <<convNow, convObs, convQueue, convUp, convTrimmed, convMentions, convLearning>>
ConvConfirm(e) ==
  /\ conv[e].status # "none"
  /\ conv' = [conv EXCEPT ![e].status = "active"] /\ convAlias' = [convAlias EXCEPT ![e] = "active"]
  /\ convCommanded' = convCommanded \cup {e} /\ ConvAdminRest
ConvReject(e) ==
  /\ conv[e].status # "none"
  /\ conv' = [conv EXCEPT ![e].status = "rejected"]
  /\ convAlias' = [convAlias EXCEPT ![e] = IF @ = "none" THEN @ ELSE "rejected"]
  /\ convCommanded' = convCommanded \ {e} /\ ConvAdminRest
ConvSupersede(e, f) ==
  /\ e # f /\ convAlias[e] # "none"
  /\ convAlias' = [convAlias EXCEPT ![e] = "stale", ![f] = "active"]
  /\ convCommanded' = convCommanded \cup {f} /\ UNCHANGED conv /\ ConvAdminRest

ConvNext ==
  \/ ConvTick \/ ConvStart \/ ConvStop \/ ConvProcess \/ ConvFails \/ ConvExpire \/ ConvRetain
  \/ \E m \in ConvMessages : ConvObserve(m)
  \/ \E e \in ConvEntities : ConvConfirm(e) \/ ConvReject(e) \/ \E f \in ConvEntities : ConvSupersede(e, f)
ConvSpec == ConvInit /\ [][ConvNext]_convVars

----------------------------------------------------------------------------
ConvStored == [ConvMessages -> ConvObservation]
ConvConventions == [ConvEntities -> ConvConvention]
ConvAliases == [ConvEntities -> ConvStates]
ConvTypeOK ==
  /\ convNow \in 0 .. ConvLastTick
  /\ convObs \in ConvStored
  /\ convQueue \in Seq(ConvMessages) /\ convUp \in BOOLEAN
  /\ conv \in ConvConventions
  /\ convAlias \in ConvAliases
  /\ convTrimmed \subseteq ConvMessages /\ convMentions \subseteq ConvMessages
  /\ convLearning \in BOOLEAN /\ convCommanded \subseteq ConvEntities

\* Evidence for a rival disputes every open convention of the expression, stale
\* and rejected ones may come back, and evidence may be applied twice after a
\* crash: still, without an administrator's command, an expression never has
\* two active meanings at once, and the alias the resolver reads is not left
\* active when its convention was rejected, disputed or expired.
ConvOneMeaning ==
  /\ \A e, f \in ConvEntities :
       e # f /\ conv[e].status = "active" /\ conv[f].status = "active" => {e, f} \cap convCommanded # {}
  /\ \A e \in ConvEntities :
       convAlias[e] = "active" => conv[e].status \in {"candidate", "active"} \/ e \in convCommanded

\* Eviction, failed projections put back at the tail and recovery keep the
\* queue within its capacity, and nothing in it has been decided already: no
\* observation is rejected and projected all the same.
ConvQueueIsPending ==
  /\ Len(convQueue) <= ConvCapacity
  /\ Cardinality(ConvQueued) = Len(convQueue)
  /\ \A m \in ConvQueued : convObs[m].status = "pending"

\* Evidence, expiry, corrections and restarts leave an expression with one active meaning, and the
\* queue with nothing that was decided already.
ConvSound == ConvOneMeaning /\ ConvQueueIsPending
=============================================================================
