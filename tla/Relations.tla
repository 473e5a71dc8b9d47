------------------------------ MODULE Relations ------------------------------
(***************************************************************************)
(* What a member means to the persona: the relationship events an accepted *)
(* evaluation proposes (manager.py), the policy that scores them           *)
(* (relationship_events.py), the projection they add up to and the         *)
(* memories they leave (relationships.py, relationship_memory.py,          *)
(* repositories.py).  One member of one group; public affection is counted *)
(* in tenths, a weight in hundredths.                                      *)
(***************************************************************************)
EXTENDS Integers, Sequences, FiniteSets

CONSTANTS
  RelProposals,     \* proposal -> id, kind, severity 1..4, is it sure, is it private, day, the event it repairs
  RelEvaluations    \* evaluation -> the proposals of its verdict, in order

RelDimensions == {"familiarity", "warmth", "trust", "reciprocity", "play", "reliability", "care", "boundary"}

\* _AMOUNTS and _EVIDENCE_DIMENSIONS; an attempt to repair is only recorded.
RelAmounts ==
  [interaction |-> <<1, 1, 1, 1>>, warm_exchange |-> <<1, 2, 4, 6>>, trust_confirmed |-> <<1, 2, 4, 6>>,
   reciprocal_action |-> <<1, 1, 1, 1>>, play_accepted |-> <<1, 1, 2, 2>>, reliable_help |-> <<2, 2, 4, 6>>,
   care_permission |-> <<1, 1, 2, 2>>, boundary_pressure |-> <<1, 3, 8, 15>>, repair_confirmed |-> <<-1, -2, -4, -6>>]
RelDimensionOf ==
  [interaction |-> "familiarity", warm_exchange |-> "warmth", trust_confirmed |-> "trust", reciprocal_action |-> "reciprocity",
   play_accepted |-> "play", reliable_help |-> "reliability", care_permission |-> "care",
   boundary_pressure |-> "boundary", repair_confirmed |-> "boundary"]
RelKinds == DOMAIN RelAmounts \cup {"repair_attempt"}
RelBudget == 8

ASSUME RelConstants ==
  /\ \A p \in DOMAIN RelProposals :
       /\ RelProposals[p].kind \in RelKinds /\ RelProposals[p].severity \in 1 .. 4
       /\ RelProposals[p].kind = "repair_confirmed" => RelProposals[p].repairs # "none"
       /\ RelProposals[p].id # "none" /\ {RelProposals[p].sure, RelProposals[p].private} \subseteq BOOLEAN
  /\ \A e \in DOMAIN RelEvaluations : RelEvaluations[e] \in Seq(DOMAIN RelProposals)

VARIABLES
  relMode,      \* the mode of the group
  relSupplied,  \* evaluation -> memories its frame was given
  relLeft,      \* evaluation -> how far it is: the mode it was told in, the proposals not processed yet
  relEvents,    \* relationship_events, in the order they were written
  relValue,     \* the projection: dimension -> its value
  relEvidence,  \* the evidence it counted
  relMemory     \* memories: event -> whether and by which repair it is resolved
relVars == <<relMode, relSupplied, relLeft, relEvents, relValue, relEvidence, relMemory>>

RelModes == {"SHADOW", "SOCIAL_RUNTIME"}
RelAt(step) == [step |-> step, mode |-> "SHADOW", rest |-> <<>>]
RelStart == [d \in RelDimensions |-> 0]

RelInit ==
  /\ relMode \in RelModes /\ relSupplied = [e \in DOMAIN RelEvaluations |-> {}]
  /\ relLeft = [e \in DOMAIN RelEvaluations |-> RelAt("new")]
  /\ relEvents = <<>> /\ relValue = RelStart /\ relEvidence = {}
  /\ relMemory = <<>>

\* _cognitive_world_view: what is not private and not resolved when the frame
\* is put together.
RelView(e) ==
  /\ relLeft[e].step = "new" /\ relLeft' = [relLeft EXCEPT ![e] = RelAt("judged")]
  /\ relSupplied' = [relSupplied EXCEPT ![e] =
       {id \in DOMAIN relMemory : /\ relMemory[id].by = "none" /\ ~ relMemory[id].proposal.private
                                  /\ relMemory[id].proposal.kind \in {"boundary_pressure", "repair_attempt"}}]
  /\ UNCHANGED <<relMode, relEvents, relValue, relEvidence, relMemory>>

\* _relationship_observations: a repair names a memory the frame was given.
RelMayName_any(p, supplied) == TRUE
RelMayName(p, supplied) == p.kind = "repair_confirmed" => p.repairs \in supplied
RelVerdict(told, supplied) ==
  LET may[n \in 0 .. Len(told)] ==
        IF n = 0 THEN <<>> ELSE IF RelMayName(RelProposals[told[n]], supplied) THEN Append(may[n - 1], told[n]) ELSE may[n - 1]
  IN may[Len(told)]

\* The scene actor accepted the evaluation; the mode is read once for all it
\* proposes, and the loop over them does not wait: no other begins meanwhile.
RelBusy(e) == relLeft[e].rest # <<>>

RelBegin(e) ==
  /\ relLeft[e].step = "judged" /\ \A x \in DOMAIN RelEvaluations : ~ RelBusy(x)
  /\ relLeft' = [relLeft EXCEPT ![e] =
       [step |-> "told", mode |-> relMode, rest |-> RelVerdict(RelEvaluations[e], relSupplied[e])]]
  /\ UNCHANGED <<relMode, relSupplied, relEvents, relValue, relEvidence, relMemory>>

------------------------------------------------------------------------------
(* PublicAffection and RelationshipEventPolicy                              *)

RelClamp(v) == IF v > 100 THEN 100 ELSE IF v < -100 THEN -100 ELSE v
RelApplied(value, p) ==
  LET d == RelDimensionOf[p.kind] IN [value EXCEPT ![d] = RelClamp(@ + RelAmounts[p.kind][p.severity])]

RelRaw(value) ==
  value["familiarity"] * 15 + value["warmth"] * 18 + value["trust"] * 20 + value["reciprocity"] * 12
  + value["play"] * 8 + value["reliability"] * 12 + value["care"] * 15 - value["boundary"] * 40

\* Rounded to a tenth; a float that stands for a half goes either way.
RelTenths(value) ==
  LET y == RelRaw(value) + 100000 IN {(y + 5) \div 10 - 10000} \cup (IF y % 10 = 5 THEN {y \div 10 - 10000} ELSE {})
RelDeltas(p) == {a - b : a \in RelTenths(RelApplied(relValue, p)), b \in RelTenths(relValue)}

RelAccepted == {i \in DOMAIN relEvents : relEvents[i].outcome = "ACCEPT"}
RelGain(event, day, kinds) ==
  IF event.outcome = "ACCEPT" /\ event.proposal.day = day /\ event.proposal.kind \in kinds /\ event.delta > 0 THEN event.delta ELSE 0
RelGained(events, day, kinds) ==
  LET gained[n \in 0 .. Len(events)] == IF n = 0 THEN 0 ELSE gained[n - 1] + RelGain(events[n], day, kinds)
  IN gained[Len(events)]
RelPositiveToday(day) == RelGained(relEvents, day, RelKinds)

RelOverBudget_alone(p, delta) == delta > RelBudget
RelOverBudget(p, delta) == RelPositiveToday(p.day) + delta > RelBudget

\* decide: the outcomes, each with its public delta.
RelDecisions(p) ==
  IF ~ p.sure THEN {[outcome |-> "REJECT", delta |-> 0]}
  ELSE IF p.kind = "repair_attempt" THEN {[outcome |-> "ACCEPT", delta |-> 0]}
  ELSE {IF delta > 0 /\ p.kind # "repair_confirmed" /\ RelOverBudget(p, delta)
        THEN [outcome |-> "REJECT", delta |-> 0] ELSE [outcome |-> "ACCEPT", delta |-> delta] : delta \in RelDeltas(p)}

------------------------------------------------------------------------------
(* process_relationship_event: one transaction                              *)

RelKnown(id) == \E i \in DOMAIN relEvents : relEvents[i].proposal.id = id

\* relationship_memory_from_decision
RelWorthy(p) ==
  /\ p.kind \notin {"interaction", "reciprocal_action"}
  /\ p.severity > 1 \/ p.kind \in {"trust_confirmed", "reliable_help", "repair_confirmed"}

RelResolves_any(p, id) == p.kind = "repair_confirmed"
RelResolves(p, id) == p.kind = "repair_confirmed" /\ p.repairs = id

RelRemembered(p) ==
  LET resolved == [id \in DOMAIN relMemory |->
                     IF RelResolves(p, id) /\ relMemory[id].by = "none" THEN [relMemory[id] EXCEPT !.by = p.id] ELSE relMemory[id]]
      new == [id \in {p.id} |-> [proposal |-> p, by |-> "none"]]
  IN IF RelWorthy(p) THEN [id \in DOMAIN resolved \cup {p.id} |-> IF id \in DOMAIN resolved THEN resolved[id] ELSE new[id]]
     ELSE resolved

RelCounts_any(mode) == mode \in {"SHADOW", "SOCIAL_RUNTIME"}
RelCounts(mode) == mode = "SOCIAL_RUNTIME"

RelPast(left) == IF Len(left.rest) = 1 THEN RelAt("told") ELSE [left EXCEPT !.rest = Tail(@)]
RelOnward(e) == relLeft' = [relLeft EXCEPT ![e] = RelPast(@)]

RelWrite(p, mode, decision) ==
  LET accepted == decision.outcome = "ACCEPT"
      counts == accepted /\ RelCounts(mode)
      scores == counts /\ p.kind # "repair_attempt"
  IN /\ relEvents' = Append(relEvents, [proposal |-> p, delta |-> decision.delta,
          outcome |-> IF accepted /\ mode = "SHADOW" THEN "SUGGEST" ELSE decision.outcome])
     /\ relValue' = IF scores THEN RelApplied(relValue, p) ELSE relValue
     /\ relEvidence' = IF scores THEN relEvidence \cup {p.id} ELSE relEvidence
     /\ relMemory' = IF counts THEN RelRemembered(p) ELSE relMemory

\* What was known already, with the same content or not, changes nothing.
RelProcess(e) ==
  /\ RelBusy(e) /\ RelOnward(e)
  /\ LET p == RelProposals[Head(relLeft[e].rest)]
     IN IF RelKnown(p.id) THEN UNCHANGED <<relEvents, relValue, relEvidence, relMemory>>
        ELSE \E decision \in RelDecisions(p) : RelWrite(p, relLeft[e].mode, decision)
  /\ UNCHANGED <<relMode, relSupplied>>

\* The transaction raises: the proposal is skipped, the evaluation stays accepted.
RelFail(e) ==
  /\ RelBusy(e) /\ RelOnward(e)
  /\ UNCHANGED <<relMode, relSupplied, relEvents, relValue, relEvidence, relMemory>>

\* The process restarts, perhaps with other settings: an evaluation that was
\* accepted is not judged again and what it had left is never told; one that
\* was not accepted is judged on a new frame.
RelRestart ==
  /\ relMode' \in RelModes
  /\ relLeft' = [e \in DOMAIN RelEvaluations |->
                   IF RelBusy(e) THEN RelAt("told") ELSE IF relLeft[e].step = "judged" THEN RelAt("new") ELSE relLeft[e]]
  /\ relSupplied' = [e \in DOMAIN RelEvaluations |-> IF relLeft[e].step = "judged" THEN {} ELSE relSupplied[e]]
  /\ UNCHANGED <<relEvents, relValue, relEvidence, relMemory>>

RelNext ==
  \/ RelRestart
  \/ \E e \in DOMAIN RelEvaluations : RelView(e) \/ RelBegin(e) \/ RelProcess(e) \/ RelFail(e)

RelSpec == RelInit /\ [][RelNext]_relVars

------------------------------------------------------------------------------
(* RelationshipMemorySelector: what a reply may be reminded of              *)

RelCues == {id \in DOMAIN relMemory : relMemory[id].by = "none" /\ ~ relMemory[id].proposal.private}

------------------------------------------------------------------------------
RelTold == {RelProposals[p] : p \in DOMAIN RelProposals}
RelProjection == [RelDimensions -> -100 .. 100]
RelDecision == [proposal : RelTold, delta : Int, outcome : {"ACCEPT", "REJECT", "SUGGEST"}]
RelRecord == [proposal : RelTold, by : {"none"} \cup {p.id : p \in RelTold}]
RelProgress == [step : {"new", "judged", "told"}, mode : RelModes, rest : Seq(DOMAIN RelProposals)]
RelTypeOK ==
  /\ relMode \in RelModes /\ relValue \in RelProjection /\ relEvents \in Seq(RelDecision)
  /\ relLeft \in [DOMAIN RelEvaluations -> RelProgress]
  /\ relSupplied \in [DOMAIN RelEvaluations -> SUBSET DOMAIN relMemory]
  /\ relEvidence \subseteq {p.id : p \in RelTold}
  /\ DOMAIN relMemory \subseteq {p.id : p \in RelTold}
  /\ \A id \in DOMAIN relMemory : relMemory[id] \in RelRecord /\ relMemory[id].proposal.id = id

RelScored == {i \in RelAccepted : relEvents[i].proposal.kind # "repair_attempt"}
RelAdded(value, event) ==
  [d \in RelDimensions |->
     IF event.outcome = "ACCEPT" /\ event.proposal.kind # "repair_attempt" /\ RelDimensionOf[event.proposal.kind] = d
     THEN RelClamp(value[d] + RelAmounts[event.proposal.kind][event.proposal.severity]) ELSE value[d]]
RelReplay(events) ==
  LET value[n \in 0 .. Len(events)] == IF n = 0 THEN RelStart ELSE RelAdded(value[n - 1], events[n]) IN value[Len(events)]
\* The projection is what the accepted events add up to, each once and in the
\* order they were written, whatever was proposed twice, with another content,
\* or while the group was in SHADOW (process_relationship_event,
\* RelationshipProjector.apply).
RelIsSum ==
  /\ relEvidence = {relEvents[i].proposal.id : i \in RelScored} /\ Cardinality(relEvidence) = Cardinality(RelScored)
  /\ relValue = RelReplay(relEvents)

\* Apart from what repairs give back, nobody gains more than 0.8 of public
\* affection in a day, in whatever order late messages of the day arrive
\* (positive_daily_budget_exhausted).
RelDailyBudget ==
  \A i \in RelAccepted : RelGained(relEvents, relEvents[i].proposal.day, RelKinds \ {"repair_confirmed"}) <= RelBudget

RelRepairOf(i) ==
  {j \in RelAccepted : relEvents[j].proposal.kind = "repair_confirmed" /\ relEvents[j].proposal.repairs = relEvents[i].proposal.id}
\* A reply is reminded of a hurt until a repair that names it is accepted, and
\* no longer, however old the frame of that repair is; and no repair counts that
\* names nothing (resolve, repair_refs, RelationshipMemorySelector.select).
RelHurtsUntilRepaired ==
  /\ \A i \in RelAccepted :
       LET p == relEvents[i].proposal IN
       p.kind = "boundary_pressure" /\ p.severity > 1 /\ ~ p.private => (p.id \in RelCues <=> RelRepairOf(i) = {})
  /\ \A j \in RelAccepted : relEvents[j].proposal.kind = "repair_confirmed" => \E i \in 1 .. j - 1 : j \in RelRepairOf(i)
==============================================================================
