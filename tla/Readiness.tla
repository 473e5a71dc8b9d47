------------------------------ MODULE Readiness ------------------------------
(***************************************************************************)
(* The gate before a group is handed to the new runtime (readiness.py):    *)
(* evidence from the shadow run, the confirmation that the old instance    *)
(* stopped, the report that binds both to a control and a configuration    *)
(* version, the handoff of ownership, the phases of the rollout, and the   *)
(* health observations that pause it.  The commands that hand over and     *)
(* advance arrive through the control plane at the current control version *)
(* and raise it (commands.py _execute_on).                                 *)
(***************************************************************************)
EXTENDS Integers, Sequences, FiniteSets, FiniteSetsExt

CONSTANTS
  RdGroups, RdFirst,      \* allowlisted groups, and the explicit test group
  RdOperators,            \* administrators
  RdTokens,               \* confirmation tokens
  RdEvidence,             \* pieces of evidence that may be recorded
  RdSound,                \* evidence -> every check but those of versions and of the token passes
  RdAbout,                \* evidence -> the configuration version it is about
  RdMinimum,              \* phase -> how long it lasts at least
  RdLastVersion, RdLastConfig, RdLastTime   \* bounds of the versions and of the clock

\* READINESS phases in the order of the transitions table.
RdPhases == <<"SUPERVISED", "CANARY", "EXPANSION_1", "EXPANSION_3", "EXPANSION_10", "EXPANSION_ALL", "COMPLETE">>

ASSUME RdConstants ==
  /\ RdFirst \in RdGroups
  /\ RdSound \in [RdEvidence -> BOOLEAN] /\ RdAbout \in [RdEvidence -> Nat]
  /\ RdMinimum \in [1 .. Len(RdPhases) - 1 -> Nat \ {0}]
  /\ RdLastVersion \in Nat /\ RdLastConfig \in Nat /\ RdLastTime \in Nat

VARIABLES
  rdNow,
  rdVersion,    \* group -> control version
  rdConfig,     \* group -> published configuration version
  rdEvidence,   \* group -> the evidence recorded, or "none"
  rdToken,      \* token -> its confirmation
  rdReports,    \* immutable reports
  rdRollout,    \* group -> phase, its start, the report of the handoff
  rdHandoffs    \* history: handoffs, with what was recorded when they happened
rdVars == <<rdNow, rdVersion, rdConfig, rdEvidence, rdToken, rdReports, rdRollout, rdHandoffs>>

RdNone == "none"
RdUnused == [state |-> "absent"]
RdNoRollout == [phase |-> 0, since |-> 0]
RdPaused == 8   \* a phase of its own, outside the table

\* Tokens a report of the group may rest on.
RdConfirmed(g) ==
  {t \in RdTokens : /\ rdToken[t].state = "ready" /\ rdToken[t].group = g
                    /\ rdToken[t].version = rdVersion[g] /\ rdToken[t].quiet}

\* The latest one; those of one second are in no order.
RdLatest(ts) == {t \in ts : \A u \in ts : rdToken[u].at <= rdToken[t].at}

RdPasses(g, t) ==
  /\ t # RdNone /\ rdEvidence[g] # RdNone
  /\ RdSound[rdEvidence[g]] /\ RdAbout[rdEvidence[g]] = rdConfig[g]

RdReport(g, t) ==
  [group |-> g, passed |-> RdPasses(g, t), version |-> rdVersion[g], config |-> rdConfig[g], evidence |-> rdEvidence[g], token |-> t]

RdInit ==
  /\ rdNow = 0 /\ rdVersion = [g \in RdGroups |-> 0] /\ rdConfig = [g \in RdGroups |-> 0]
  /\ rdEvidence = [g \in RdGroups |-> RdNone] /\ rdToken = [t \in RdTokens |-> RdUnused]
  /\ rdReports = {} /\ rdRollout = [g \in RdGroups |-> RdNoRollout] /\ rdHandoffs = {}

RdTick ==
  /\ rdNow < RdLastTime /\ rdNow' = rdNow + 1
  /\ UNCHANGED <<rdVersion, rdConfig, rdEvidence, rdToken, rdReports, rdRollout, rdHandoffs>>

\* A configuration is published by a command of the group.
RdPublish(g) ==
  /\ rdVersion[g] < RdLastVersion /\ rdConfig[g] < RdLastConfig
  /\ rdVersion' = [rdVersion EXCEPT ![g] = @ + 1] /\ rdConfig' = [rdConfig EXCEPT ![g] = @ + 1]
  /\ UNCHANGED <<rdNow, rdEvidence, rdToken, rdReports, rdRollout, rdHandoffs>>

RdRecordEvidence(g) ==
  /\ \E e \in RdEvidence \ {rdEvidence[g]} : rdEvidence' = [rdEvidence EXCEPT ![g] = e]
  /\ UNCHANGED <<rdNow, rdVersion, rdConfig, rdToken, rdReports, rdRollout, rdHandoffs>>

\* The version the operator names is not compared with the current one.
RdConfirm(t) ==
  /\ rdToken[t].state = "absent"
  /\ \E g \in RdGroups, o \in RdOperators, v \in 0 .. RdLastVersion, quiet \in BOOLEAN :
       rdToken' = [rdToken EXCEPT ![t] = [state |-> "ready", group |-> g, operator |-> o, version |-> v, quiet |-> quiet, at |-> rdNow]]
  /\ UNCHANGED <<rdNow, rdVersion, rdConfig, rdEvidence, rdReports, rdRollout, rdHandoffs>>

RdEvaluate(g) ==
  /\ LET ts == RdConfirmed(g) IN
     \E t \in (IF ts = {} THEN {RdNone} ELSE RdLatest(ts)) : rdReports' = rdReports \cup {RdReport(g, t)}
  /\ UNCHANGED <<rdNow, rdVersion, rdConfig, rdEvidence, rdToken, rdRollout, rdHandoffs>>

\* authorize_social_runtime_on: the token is the operator's own ...
RdTokenServes(t, g, o) ==
  /\ rdToken[t].state = "ready" /\ rdToken[t].group = g /\ rdToken[t].operator = o
  /\ rdToken[t].version = rdVersion[g] /\ rdToken[t].quiet

\* ... the report rests on it and on what is recorded now ...
RdReportServes_published(r, t, g) ==
  /\ r.group = g /\ r.passed /\ r.token = t /\ r.version = rdVersion[g] /\ r.config = rdConfig[g]
RdReportServes(r, t, g) ==
  /\ r.group = g /\ r.passed /\ r.token = t
  /\ r.version = rdVersion[g] /\ r.config = rdConfig[g] /\ r.evidence = rdEvidence[g]

\* ... and the first rollout is the test group's.
RdActive == {g \in RdGroups : rdRollout[g].phase \notin {0, RdPaused, Len(RdPhases)}}
RdMayBegin_any(g) == g \in RdGroups
RdMayBegin(g) == RdActive # {} \/ g = RdFirst

RdAuthorize(g, o, t) ==
  /\ rdVersion[g] < RdLastVersion
  /\ RdTokenServes(t, g, o) /\ RdMayBegin(g)
  /\ \E r \in rdReports : RdReportServes(r, t, g)
  /\ rdToken' = [rdToken EXCEPT ![t].state = "consumed"]
  /\ rdRollout' = [rdRollout EXCEPT ![g] = [phase |-> 1, since |-> rdNow]]
  /\ rdVersion' = [rdVersion EXCEPT ![g] = @ + 1]
  /\ rdHandoffs' = rdHandoffs \cup {[group |-> g, token |-> t, at |-> rdNow, config |-> rdConfig[g], evidence |-> rdEvidence[g]]}
  /\ UNCHANGED <<rdNow, rdConfig, rdEvidence, rdReports>>

\* advance_rollout_on: the report of the handoff is named again; neither the
\* evidence nor the configuration is looked at a second time.
RdHandedAt(g) == Max({x.at : x \in {y \in rdHandoffs : y.group = g}})
RdWaited_handoff(g) == rdNow - RdHandedAt(g) >= RdMinimum[rdRollout[g].phase]
RdWaited(g) == rdNow - rdRollout[g].since >= RdMinimum[rdRollout[g].phase]

RdAdvance(g) ==
  /\ rdVersion[g] < RdLastVersion
  /\ rdRollout[g].phase \in 1 .. Len(RdPhases) - 1 /\ RdWaited(g)
  /\ rdRollout' = [rdRollout EXCEPT ![g] = [phase |-> @.phase + 1, since |-> rdNow]]
  /\ rdVersion' = [rdVersion EXCEPT ![g] = @ + 1]
  /\ UNCHANGED <<rdNow, rdConfig, rdEvidence, rdToken, rdReports, rdHandoffs>>

\* observe_runtime_health with a count that is not zero; a rollout that is over
\* pauses too.
RdObserve(g) ==
  /\ rdRollout[g].phase \notin {0, RdPaused}
  /\ rdRollout' = [rdRollout EXCEPT ![g] = [phase |-> RdPaused, since |-> rdNow]]
  /\ UNCHANGED <<rdNow, rdVersion, rdConfig, rdEvidence, rdToken, rdReports, rdHandoffs>>

RdNext ==
  \/ RdTick
  \/ \E g \in RdGroups : RdPublish(g) \/ RdRecordEvidence(g) \/ RdEvaluate(g) \/ RdAdvance(g) \/ RdObserve(g)
  \/ \E t \in RdTokens : RdConfirm(t)
  \/ \E g \in RdGroups, o \in RdOperators, t \in RdTokens : RdAuthorize(g, o, t)

RdSpec == RdInit /\ [][RdNext]_rdVars

------------------------------------------------------------------------------
RdStates == [RdGroups -> [phase : 0 .. 8, since : 0 .. RdLastTime]]
RdAuditEntry == [group : RdGroups, token : RdTokens, at : 0 .. RdLastTime, config : 0 .. RdLastConfig, evidence : RdEvidence]
RdReportRecord == [group : RdGroups, passed : BOOLEAN, version : 0 .. RdLastVersion, config : 0 .. RdLastConfig,
                   evidence : RdEvidence \cup {RdNone}, token : RdTokens \cup {RdNone}]
RdControlVersions == [RdGroups -> 0 .. RdLastVersion]
RdConfigVersions == [RdGroups -> 0 .. RdLastConfig]
RdRecorded == [RdGroups -> RdEvidence \cup {RdNone}]
RdConfirmation == [state : {"ready", "consumed"}, group : RdGroups, operator : RdOperators, version : 0 .. RdLastVersion,
                   quiet : BOOLEAN, at : 0 .. RdLastTime]
RdTypeOK ==
  /\ rdNow \in 0 .. RdLastTime
  /\ rdVersion \in RdControlVersions /\ rdConfig \in RdConfigVersions
  /\ rdEvidence \in RdRecorded
  /\ rdToken \in [RdTokens -> {RdUnused} \cup RdConfirmation]
  /\ rdRollout \in RdStates
  /\ rdReports \subseteq RdReportRecord /\ rdHandoffs \subseteq RdAuditEntry

\* A group is handed over on evidence that is sound, that is about the
\* configuration in force at that moment, and that nothing replaced since the
\* report was made (evaluate, authorize_social_runtime_on).
RdHandoffIsProven ==
  \A x \in rdHandoffs : RdSound[x.evidence] /\ RdAbout[x.evidence] = x.config

\* Each handoff uses up a confirmation of its own, and no group is handed over
\* before the test group (consumed_at, first_test_group_id).
RdHandoffIsOwn ==
  /\ \A x, y \in rdHandoffs : x.token = y.token => x = y
  /\ \A x \in rdHandoffs : \E y \in rdHandoffs : y.group = RdFirst /\ y.at <= x.at

\* How long the first phases last at least.
RdLeast[n \in 0 .. Len(RdPhases) - 1] == IF n = 0 THEN 0 ELSE RdLeast[n - 1] + RdMinimum[n]

\* No phase is reached before every earlier one lasted its minimum since the
\* last handoff, however the rollout was paused and begun again (transitions).
RdNoShortcut ==
  \A g \in RdGroups : rdRollout[g].phase \in 1 .. Len(RdPhases) =>
    rdRollout[g].since - RdHandedAt(g) >= RdLeast[rdRollout[g].phase - 1]
==============================================================================
