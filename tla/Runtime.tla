------------------------------ MODULE Runtime ------------------------------
(***************************************************************************)
(* The components of one process that share no variable with one another:  *)
(* each has a store, a lock or a task of its own, and what one learns of   *)
(* another is an input of its model.  The Outbox, the scene's actor, the   *)
(* coordinator and the tasks have modules of their own.                    *)
(***************************************************************************)
EXTENDS KnowledgeJobs, Conventions, GameFacts, ControlPlane, Projections, ReplyLane, Cognition,
        Lifecycle, Profiles, MemberStyle, Replies, Chorus, Readiness, Stickers, Autonomy, Relations

RuntimeParts ==
  {"jobs", "conv", "facts", "lane", "cog", "replies", "chorus", "prof", "style", "stickers", "relations",
   "ctl", "prj", "life", "readiness", "autonomy"}

VARIABLE part   \* the component that is looked at, any of them

\* The steps of different components are concurrent: none waits for another.
RuntimeSpec ==
  /\ part \in RuntimeParts /\ [][FALSE]_part
  /\ JobsSpec /\ ConvSpec /\ FactsSpec
  /\ LaneSpec /\ CogSpec /\ RpSpec /\ ChSpec
  /\ ProfSpec /\ StyleSpec /\ StkSpec /\ RelSpec
  /\ CtlSpec /\ PrjSpec /\ LifeSpec /\ RdSpec /\ AutSpec

\* Every component keeps its types.
RuntimeTypeOK ==
  CASE part = "jobs" -> JobsTypeOK
    [] part = "conv" -> ConvTypeOK
    [] part = "facts" -> FactsTypeOK
    [] part = "lane" -> LaneTypeOK
    [] part = "cog" -> CogTypeOK
    [] part = "replies" -> RpTypeOK
    [] part = "chorus" -> ChTypeOK
    [] part = "prof" -> ProfTypeOK
    [] part = "style" -> StyleTypeOK
    [] part = "stickers" -> StkTypeOK
    [] part = "relations" -> RelTypeOK
    [] part = "ctl" -> CtlTypeOK
    [] part = "prj" -> PrjTypeOK
    [] part = "life" -> LifeTypeOK
    [] part = "readiness" -> RdTypeOK
    [] part = "autonomy" -> AutTypeOK

\* What the bot keeps about members is honest: what a profile learns and an administrator decided,
\* what a way of speaking is learnt from, and what a relationship is the sum of (profile/,
\* society/).
MembersSound ==
  /\ part = "prof" => ProfLearnsHonestly
  /\ part = "style" => StyleByConsent
  /\ part = "relations" => RelIsSum /\ RelDailyBudget /\ RelHurtsUntilRepaired

\* What the bot joins in with and shows is everybody's, harmless and approved: an echo is shared, spares
\* the members it names and is never of a chain already marked; a sticker that is shown was confirmed, is
\* formed and was not rejected, and the pools keep their limits (chorus.py, social_moves.py, stickers/).
PresenceSound ==
  /\ part = "chorus" => ChEchoIsShared /\ ChEchoIsHarmless /\ ChMarkedIsFinal
  /\ part = "stickers" => StkRejectedStays /\ StkShownIsFormed /\ StkPoolsKept

\* What the runtime does without being asked is justified: a group is handed over on proven evidence, with
\* a confirmation of its own and after every phase; an opportunity speaks once, in its window and in a scene
\* that allowed it (readiness.py, autonomy/).
UnaskedSound ==
  /\ part = "readiness" => RdHandoffIsProven /\ RdHandoffIsOwn /\ RdNoShortcut
  /\ part = "autonomy" => AutSpeaksOnce /\ AutJustified

\* What no step does: move a release track back or release it unverified, rewrite how a message ended,
\* let ambient work overtake direct work at the gate, bring an ended imitation back, or replace the
\* meaning an administrator wrote (knowledge/repository.py, control/message_traces.py,
\* cognition/service.py, profile/style_service.py, control/stickers.py).
StepsSound ==
  /\ [][part = "facts" => FactsTracksForward]_factsVars
  /\ [][part = "lane" => LaneContextKeepsEnd]_lnVars
  /\ [][part = "cog" => CogDirectFirst]_cgVars
  /\ [][part = "style" => StyleEndedStays]_msVars
  /\ [][part = "stickers" => StkHandwrittenKept]_stkVars
=============================================================================
