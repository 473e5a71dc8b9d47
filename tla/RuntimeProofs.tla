--------------------------- MODULE RuntimeProofs ---------------------------
(***************************************************************************)
(* Theorems about all components together: each keeps its promise whatever *)
(* the others do, since no step of one touches what another keeps; and the *)
(* component that is looked at may be any of them.                         *)
(***************************************************************************)
EXTENDS Runtime, StoreProofs, ConversationProofs, MemberProofs, TLAPS

\* The component looked at stays the same.
LEMMA PartIsFixed == RuntimeSpec => [](part \in RuntimeParts)
<1>1. part \in RuntimeParts /\ [FALSE]_part => (part \in RuntimeParts)'
  OBVIOUS
<1> QED BY <1>1, PTL DEF RuntimeSpec

\* Every component keeps its types, in any interleaving with the others.
THEOREM RuntimeTypes == RuntimeSpec => []RuntimeTypeOK
<1>1. RuntimeSpec => [](JobsTypeOK /\ ConvTypeOK /\ FactsTypeOK)
  BY JobsTypes, ConvTypes, FactsTypes, PTL DEF RuntimeSpec
<1>2. RuntimeSpec => [](LaneTypeOK /\ CogTypeOK /\ RpTypeOK /\ ChTypeOK)
  BY LaneTypes, CogTypes, RpTypes, ChTypes, PTL DEF RuntimeSpec
<1>3. RuntimeSpec => [](ProfTypeOK /\ StyleTypeOK /\ StkTypeOK /\ RelTypeOK)
  BY ProfTypes, StyleTypes, StkTypes, RelTypes, PTL DEF RuntimeSpec
<1>4. RuntimeSpec => [](CtlTypeOK /\ PrjTypeOK /\ LifeTypeOK /\ RdTypeOK /\ AutTypeOK)
  BY CtlTypes, PrjTypes, LifeTypes, RdTypes, AutTypes, PTL DEF RuntimeSpec
<1>5. /\ part \in RuntimeParts
      /\ JobsTypeOK /\ ConvTypeOK /\ FactsTypeOK
      /\ LaneTypeOK /\ CogTypeOK /\ RpTypeOK /\ ChTypeOK
      /\ ProfTypeOK /\ StyleTypeOK /\ StkTypeOK /\ RelTypeOK
      /\ CtlTypeOK /\ PrjTypeOK /\ LifeTypeOK /\ RdTypeOK /\ AutTypeOK
      => RuntimeTypeOK
  BY DEF RuntimeTypeOK, RuntimeParts
<1> QED BY <1>1, <1>2, <1>3, <1>4, <1>5, PartIsFixed, PTL

\* What is kept of the members is honest: profiles rest on what was said and was not corrected,
\* ways of speaking on what an administrator let be collected, relationships on what was accepted.
THEOREM MembersStaySound == RuntimeSpec => []MembersSound
<1>1. ProfLearnsHonestly /\ StyleByConsent /\ RelIsSum /\ RelDailyBudget /\ RelHurtsUntilRepaired => MembersSound
  BY DEF MembersSound
<1> QED BY <1>1, ProfStaysHonest, StyleStaysByConsent, RelStaysSound, PTL DEF RuntimeSpec

\* What the bot echoes is shared and harmless, and what it shows was approved.
THEOREM PresenceStaysSound == RuntimeSpec => []PresenceSound
<1>1. /\ ChEchoIsShared /\ ChEchoIsHarmless /\ ChMarkedIsFinal
      /\ StkRejectedStays /\ StkShownIsFormed /\ StkPoolsKept
      => PresenceSound
  BY DEF PresenceSound
<1> QED BY <1>1, ChEchoesAreSound, StkStaysSound, PTL DEF RuntimeSpec

\* What the runtime does without being asked is justified by evidence, consent and time.
THEOREM UnaskedStaysSound == RuntimeSpec => []UnaskedSound
<1>1. RdHandoffIsProven /\ RdHandoffIsOwn /\ RdNoShortcut /\ AutSpeaksOnce /\ AutJustified => UnaskedSound
  BY DEF UnaskedSound
<1> QED
  BY <1>1, RdHandoffsAreProven, RdHandoffsAreOwn, RdNeverShortcuts, AutAlwaysSpeaksOnce, AutAlwaysJustified, PTL
     DEF RuntimeSpec

\* Neither tracks, nor ends, nor the order at the gate, nor ended imitations, nor the administrator's
\* words are taken back by any step.
THEOREM StepsStaySound == RuntimeSpec => StepsSound
<1>1. [FactsTracksForward]_factsVars => [part = "facts" => FactsTracksForward]_factsVars
  OBVIOUS
<1>2. [LaneContextKeepsEnd]_lnVars => [part = "lane" => LaneContextKeepsEnd]_lnVars
  OBVIOUS
<1>3. [CogDirectFirst]_cgVars => [part = "cog" => CogDirectFirst]_cgVars
  OBVIOUS
<1>4. [StyleEndedStays]_msVars => [part = "style" => StyleEndedStays]_msVars
  OBVIOUS
<1>5. [StkHandwrittenKept]_stkVars => [part = "stickers" => StkHandwrittenKept]_stkVars
  OBVIOUS
<1> QED
  BY <1>1, <1>2, <1>3, <1>4, <1>5,
     FactsMoveForward, LaneEndsStand, CogDirectGoesFirst, StyleEndsForGood, StkKeepsHandwriting, PTL
     DEF RuntimeSpec, StepsSound
=============================================================================
