------------------------------- MODULE Replies -------------------------------
(***************************************************************************)
(* How one accepted evaluation becomes a spoken reply: the authority over  *)
(* knowledge the planner grants (replying.py), the attempts of the model,   *)
(* what is reviewed after each (grounding.py, social_review.py, actions/    *)
(* generation.py, actions/member_style.py), the fallbacks, and the row of   *)
(* reply_plans the outbox asks before it takes or recovers a bundle.  The   *)
(* clock runs and the version state of the game moves under every call.    *)
(***************************************************************************)
EXTENDS Integers, FiniteSets, FiniteSetsExt

CONSTANTS
  RpFacts,           \* knowledge a snapshot may hold
  RpRiskOf,          \* fact -> its risk class, or "stable"
  RpGrace,           \* DELIVERY_GRACE_SECONDS, in ticks
  RpMaxAge,          \* MAX_REPLY_AGE_SECONDS; the message answered came at time 0
  RpEvaluations,     \* the evaluations that come up
  RpLastTime, RpLastRevision   \* bounds of the clock and of the releases

RpLanes == {"DIRECT_FAST", "AMBIENT", "CONTINUATION"}
RpRisks == {RpRiskOf[f] : f \in RpFacts} \ {"stable"}
RpNoSnapshot == [facts |-> {}, expires |-> 0, revision |-> 0, onTopic |-> FALSE]
RpSnapshots == [facts : SUBSET RpFacts, expires : Nat, revision : Nat, onTopic : BOOLEAN]
RpAllEvaluations == [lane : RpLanes, mode : {"SEND", "PREVIEW", "BLOCK"}, move : {"speak", "request", "chorus", "silence"},
                     risks : SUBSET RpRisks, lasts : Nat, unresolved : BOOLEAN, required : BOOLEAN, overlay : BOOLEAN, snapshot : RpSnapshots]

ASSUME RpConstants ==
  /\ DOMAIN RpRiskOf = RpFacts /\ RpGrace \in Nat \ {0} /\ RpMaxAge \in Nat
  /\ \A e \in RpEvaluations : e \in RpAllEvaluations
  /\ RpLastTime \in Nat /\ RpLastRevision \in Nat \ {0}

VARIABLES
  rpNow,
  rpRevision,   \* load_release_state: the current revision
  rpCase,       \* the evaluation being answered
  rpPlan,       \* the ReplyPlan
  rpRow,        \* reply_plans.status
  rpPhase,
  rpSpeech,     \* what is (to be) spoken
  rpBundle      \* the bundle of the outbox
rpVars == <<rpNow, rpRevision, rpCase, rpPlan, rpRow, rpPhase, rpSpeech, rpBundle>>

RpNoPlan == [policy |-> "NONE", must |-> {}, may |-> {}, missing |-> {}, asks |-> FALSE, until |-> 0, revision |-> 0,
             created |-> 0, expires |-> 0]
RpNoSpeech == [kind |-> "nothing", used |-> {}, at |-> 0, revision |-> 0]

------------------------------------------------------------------------------
(* ReplyPlanner._knowledge_authority and _build_plan                        *)

RpStrict(fs) == {f \in fs : RpRiskOf[f] # "stable"}

\* The detected risk classes nothing in the snapshot answers for.
RpMissing_none(risks, fs) == {}
RpMissing(risks, fs) == risks \ {RpRiskOf[f] : f \in RpStrict(fs)}

RpUsable(s) == s.facts # {} /\ s.onTopic /\ s.expires > rpNow

\* As long as the intention, at least the grace and never beyond the age of the message.
RpDeadline(e) == Min({Max({e.lasts, rpNow + RpGrace}), RpMaxAge})

\* A move to ask for evidence may be the planner's own or forced by the unknown game.
RpPlanOf(e) ==
  LET s == e.snapshot
      none == [RpNoPlan EXCEPT !.created = rpNow, !.expires = RpDeadline(e), !.missing = e.risks]
      spoken == [none EXCEPT !.asks = (e.move = "request")]
      granted == [spoken EXCEPT !.until = s.expires, !.revision = s.revision, !.expires = Min({RpDeadline(e), s.expires})]
  IN IF e.move \notin {"speak", "request"} THEN none
     ELSE IF e.unresolved /\ e.lane = "DIRECT_FAST" THEN [none EXCEPT !.asks = TRUE]
     ELSE IF ~ RpUsable(s) THEN spoken
     ELSE IF RpStrict(s.facts) # {}
       THEN [granted EXCEPT !.policy = "STRICT", !.must = RpStrict(s.facts), !.may = s.facts \ RpStrict(s.facts),
                            !.missing = RpMissing(e.risks, s.facts)]
     ELSE [granted EXCEPT !.policy = "GROUNDED", !.may = s.facts]

------------------------------------------------------------------------------
(* What an answer is checked against, each time one comes                   *)

\* _current_reply_knowledge_revision: only strict facts are versioned.
RpCurrentRevision == IF rpPlan.policy = "STRICT" THEN rpRevision ELSE rpPlan.revision

\* _knowledge_authority_violations, and the same two checks of GroundedReplyReviewer.
RpStale_once(readable) ==
  rpPhase = "begin" /\ rpPlan.policy # "NONE" /\ (rpNow >= rpPlan.until \/ ~ readable \/ RpCurrentRevision # rpPlan.revision)
RpStale(readable) ==
  rpPlan.policy # "NONE" /\ (rpNow >= rpPlan.until \/ ~ readable \/ RpCurrentRevision # rpPlan.revision)

\* asserts: a claim that no cited fact supports; fault: the reviewer that objects to the text.
RpAnswers == [used : SUBSET RpFacts, asserts : BOOLEAN, fault : {"none", "form", "social", "firewall", "identity"}]

\* A strict answer is fragments in order with connectives that claim nothing:
\* it cites what it is made of, all of the strict facts.
RpAssembles(a) == a.used = rpPlan.must /\ ~ a.asserts

\* A grounded answer cites what the plan allows and claims no more than it says.
RpGrounds(a) == a.used # {} /\ a.used \subseteq rpPlan.may /\ ~ a.asserts

RpForm(a) == a.fault = "form"
RpSocial(a) == a.fault = "social"
RpFirewall(a) == a.fault = "firewall"

\* Once the overlay is taken off nobody looks for the member it imitated.
RpImpersonates(a) == a.fault = "identity" /\ rpCase.overlay /\ rpPhase # "plain"

RpRejected(a) ==
  \/ RpForm(a) \/ RpSocial(a) \/ RpFirewall(a) \/ RpImpersonates(a)
  \/ rpPlan.policy = "STRICT" /\ ~ RpAssembles(a)
  \/ rpPlan.policy = "GROUNDED" /\ ~ RpGrounds(a)

------------------------------------------------------------------------------
RpInit ==
  /\ rpNow = 0 /\ rpRevision = 1 /\ rpPlan = RpNoPlan
  /\ rpCase \in RpEvaluations
  /\ rpRow = "none" /\ rpPhase = "idle" /\ rpSpeech = RpNoSpeech /\ rpBundle = "none"

RpTick ==
  /\ rpNow < RpLastTime /\ rpNow' = rpNow + 1
  /\ UNCHANGED <<rpRevision, rpCase, rpPlan, rpRow, rpPhase, rpSpeech, rpBundle>>

RpRelease ==
  /\ rpRevision < RpLastRevision /\ rpRevision' = rpRevision + 1
  /\ UNCHANGED <<rpNow, rpCase, rpPlan, rpRow, rpPhase, rpSpeech, rpBundle>>

\* A snapshot is resolved before its facts expire and from the current release.
RpPlanned ==
  /\ rpPhase = "idle"
  /\ rpCase.snapshot.revision <= rpRevision
  /\ rpPlan' = RpPlanOf(rpCase) /\ rpPhase' = "begin"
  /\ UNCHANGED <<rpNow, rpRevision, rpCase, rpRow, rpSpeech, rpBundle>>

RpSends == rpCase.mode = "SEND"

\* preview: the same attempts and reviews, for the eyes of the operator only.
RpPreviewed ==
  /\ rpCase.mode = "PREVIEW"
  /\ rpRow' = "planned" /\ rpPhase' = "done" /\ UNCHANGED <<rpSpeech, rpBundle>>

RpSilent ==
  \/ RpPreviewed
  \/ /\ rpCase.mode # "PREVIEW"
     /\ rpRow' = "silent" /\ rpPhase' = "done" /\ UNCHANGED <<rpSpeech, rpBundle>>

\* What the row says before the bundle is committed.
RpBeforeCommit_early == "enqueued"
RpBeforeCommit == "generated"

RpSpeak(kind, used) ==
  IF RpSends
  THEN /\ rpSpeech' = [kind |-> kind, used |-> used, at |-> rpNow, revision |-> rpRevision]
       /\ rpRow' = RpBeforeCommit /\ rpPhase' = "commit" /\ UNCHANGED rpBundle
  ELSE RpPreviewed

\* _failed: a required reply falls back to a text of the plan's own, reviewed as well.
RpFails == RpSilent \/ (rpCase.required /\ RpSpeak("fallback", {}))

\* _knowledge_failed: the fixed text that nothing reliable was found.
RpKnowledgeFails == RpSilent \/ (rpCase.lane # "AMBIENT" /\ RpSpeak("unverified", {}))

\* The head of execute_with_result, up to the first call of the model.
RpBegin ==
  /\ rpPhase = "begin"
  /\ \/ rpCase.mode = "BLOCK" /\ RpSilent
     \/ /\ rpCase.mode # "BLOCK" /\ rpPlan.missing # {} /\ ~ rpPlan.asks
        /\ RpFails
     \/ /\ rpCase.mode # "BLOCK" /\ (rpPlan.missing = {} \/ rpPlan.asks)
        /\ \E readable \in BOOLEAN :
             \/ RpStale(readable) /\ RpKnowledgeFails
             \/ /\ ~ RpStale(readable) /\ rpCase.move = "chorus"
                /\ (RpSilent \/ RpSpeak("chorus", {}))
             \/ /\ ~ RpStale(readable) /\ rpCase.move # "chorus"
                /\ rpPhase' = "asking" /\ rpRow' = (IF RpSends THEN "planned" ELSE rpRow)
                /\ UNCHANGED <<rpSpeech, rpBundle>>
  /\ UNCHANGED <<rpNow, rpRevision, rpCase, rpPlan>>

RpAsking == rpPhase \in {"asking", "repairing", "plain"}

\* An answer that cannot be read, or assembled, is turned down before its facts are looked at.
RpUnread(a) == RpForm(a) \/ (rpPlan.policy = "STRICT" /\ ~ RpAssembles(a))

\* The order in which an unacceptable answer is tried again: no repair for facts that are gone.
RpRetry(stale, a) ==
  CASE rpPhase = "asking" /\ (~ stale \/ RpUnread(a)) -> "repairing"
    [] rpPhase \in {"asking", "repairing"} /\ rpCase.overlay /\ rpPlan.policy = "NONE" -> "plain"
    [] OTHER -> "give up"

RpAnswered ==
  /\ RpAsking
  /\ \E a \in RpAnswers, readable \in BOOLEAN :
       LET stale == RpStale(readable)
           next == RpRetry(stale, a)
       IN \/ /\ ~ stale /\ ~ RpRejected(a)
             /\ RpSpeak("reply", IF rpPlan.policy = "NONE" THEN {} ELSE a.used)
          \/ /\ (stale \/ RpRejected(a)) /\ next # "give up"
             /\ rpPhase' = next /\ UNCHANGED <<rpRow, rpSpeech, rpBundle>>
          \/ /\ (stale \/ RpRejected(a)) /\ next = "give up"
             /\ IF rpPlan.policy = "NONE" THEN RpFails ELSE RpKnowledgeFails
  /\ UNCHANGED <<rpNow, rpRevision, rpCase, rpPlan>>

RpModelFails ==
  /\ RpAsking
  /\ IF rpPlan.policy = "STRICT" THEN RpKnowledgeFails ELSE RpFails
  /\ UNCHANGED <<rpNow, rpRevision, rpCase, rpPlan>>

------------------------------------------------------------------------------
(* The bundle and the row of the plan                                       *)

\* authorizes_bundle, asked at the commit and by every recovery of the outbox
\* (the bundle takes its times from the plan, so the row's status decides).
RpAuthorizes == rpRow \in {"planned", "generated", "enqueued", "sent"}

\* A bundle must live longer than a moment: one planned too late is refused, and nothing marks it.
RpCommit ==
  /\ rpPhase = "commit" /\ RpAuthorizes /\ rpPlan.created < rpPlan.expires
  /\ rpBundle' = "ready" /\ rpPhase' = "mark"
  /\ UNCHANGED <<rpNow, rpRevision, rpCase, rpPlan, rpRow, rpSpeech>>

RpTooLate ==
  /\ rpPhase = "commit" /\ rpPlan.expires <= rpPlan.created
  /\ rpPhase' = "done"
  /\ UNCHANGED <<rpNow, rpRevision, rpCase, rpPlan, rpRow, rpSpeech, rpBundle>>

RpMark ==
  /\ rpPhase = "mark"
  /\ rpRow' = "enqueued" /\ rpPhase' = "done"
  /\ UNCHANGED <<rpNow, rpRevision, rpCase, rpPlan, rpSpeech, rpBundle>>

\* The dispatcher takes the bundle, in time or not, and the row follows it.
RpDispatch ==
  /\ rpPhase = "done" /\ rpBundle = "ready" /\ RpAuthorizes
  /\ rpBundle' = IF rpNow < rpPlan.expires THEN "sent" ELSE "expired"
  /\ rpRow' = rpBundle'
  /\ UNCHANGED <<rpNow, rpRevision, rpCase, rpPlan, rpPhase, rpSpeech>>

\* The process stops: an answer under way is never taken up again.
RpCrash ==
  /\ rpPhase \notin {"idle", "done"}
  /\ rpPhase' = "done"
  /\ UNCHANGED <<rpNow, rpRevision, rpCase, rpPlan, rpRow, rpSpeech, rpBundle>>

RpNext ==
  RpTick \/ RpRelease \/ RpPlanned \/ RpBegin \/ RpAnswered \/ RpModelFails
  \/ RpCommit \/ RpTooLate \/ RpMark \/ RpDispatch \/ RpCrash

RpSpec == RpInit /\ [][RpNext]_rpVars

------------------------------------------------------------------------------
\* A plan without knowledge carries none; a strict one says which it must use.
RpPlans ==
  {p \in [policy : {"NONE", "GROUNDED", "STRICT"}, must : SUBSET RpFacts, may : SUBSET RpFacts, missing : SUBSET RpRisks,
          asks : BOOLEAN, until : Nat, revision : Nat, created : Nat, expires : Nat] :
     /\ p.policy = "NONE" => p.must \cup p.may = {}
     /\ p.policy = "STRICT" => p.must # {}}
RpPhases == {"idle", "begin", "asking", "repairing", "plain", "commit", "mark", "done"}
RpResult == [kind : {"nothing", "reply", "chorus", "fallback", "unverified"}, used : SUBSET RpFacts, at : Nat, revision : Nat]
RpTypeOK ==
  /\ rpNow \in 0 .. RpLastTime /\ rpRevision \in 1 .. RpLastRevision
  /\ rpCase \in RpEvaluations
  /\ rpPlan \in RpPlans
  /\ rpRow \in {"none", "planned", "generated", "enqueued", "silent", "sent", "expired"}
  /\ rpPhase \in RpPhases
  /\ rpSpeech \in RpResult
  /\ rpBundle \in {"none", "ready", "sent", "expired"}

\* However long the model and its repairs took, a reply that rests on knowledge
\* was enqueued while its facts were still valid and of the current release,
\* cites every strict fact the plan bound it to and nothing the plan did not
\* allow (replying.py _review_realized_reply, grounding.py review).
RpSpokenIsCurrent ==
  rpSpeech.kind = "reply" /\ rpPlan.policy # "NONE" =>
    /\ rpSpeech.at < rpPlan.until
    /\ rpPlan.policy = "STRICT" => rpSpeech.revision = rpPlan.revision
    /\ rpPlan.must \subseteq rpSpeech.used /\ rpSpeech.used \subseteq rpPlan.must \cup rpPlan.may
    /\ rpSpeech.used # {}

\* Where a message was found to touch versions, dates, numbers or rumours, a
\* generated reply either asks back or cites a strict fact for every risk class;
\* no chorus, repair or plain attempt gets around it (_knowledge_authority with
\* _knowledge_evidence_unavailable).
RpRisksBacked ==
  rpSpeech.kind \in {"reply", "chorus"} =>
    rpPlan.asks \/ rpCase.risks \subseteq {RpRiskOf[f] : f \in rpSpeech.used}

\* The row of the plan and the bundle never contradict each other, whatever
\* step the process stopped at: a bundle that waits is one a recovery would
\* still authorise, a silent plan left nothing behind, and a send that ran to
\* its end is silent or has its bundle (mark, authorizes_bundle, commit_bundle).
RpRowTellsBundle ==
  /\ rpBundle = "ready" => RpAuthorizes
  /\ rpRow = "silent" => rpBundle = "none"
  /\ rpRow = "enqueued" => rpBundle = "ready"
  /\ ~ RpSends => rpBundle = "none"

\* The plan of the grounded replies (docs/superpowers/plans/2026-08-28-game-
\* knowledge-grounded-replies.md:347): after a second failure a direct message
\* is told that nothing reliable was found.  The text is put in a bundle that
\* ends with the facts it could not use (_knowledge_failed, _enqueue).
RpUnverifiedCanArrive ==
  rpSpeech.kind = "unverified" => rpSpeech.at < rpPlan.expires

\* A reply that is enqueued is current and backed by the facts of its plan, and row and bundle agree
\* whatever step the process stopped at.
RpSound == RpSpokenIsCurrent /\ RpRisksBacked /\ RpRowTellsBundle
==============================================================================
