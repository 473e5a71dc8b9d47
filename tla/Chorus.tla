------------------------------- MODULE Chorus -------------------------------
(***************************************************************************)
(* From what a group says to what the persona does about it: the detector  *)
(* of a chorus and its memory (chorus.py), the interpretation of the scene *)
(* by a model bound to local evidence (social_scenes.py), the stance        *)
(* (stances.py), the move (social_moves.py), and the echo that is marked    *)
(* once the platform confirmed it (astrbot_bridge.py).  One group; its      *)
(* evaluations are drained as messages come and answered one at a time.    *)
(***************************************************************************)
EXTENDS Integers, Sequences, FiniteSets, FiniteSetsExt

CONSTANTS
  ChMembers,      \* humans of the group
  ChTexts,        \* texts they may send
  ChNamed,        \* text -> whom its words name: members, or "self" by an alias
  ChFirm,         \* members whose boundary pressure is at its threshold
  ChPlayful,      \* members who accept play
  ChReadings,     \* answers of the scene model
  ChWindow,       \* window_seconds of the detector
  ChHorizon,      \* how long a joined chain is remembered
  ChInFlight,     \* bound of the evaluations drained and not yet answered
  ChLastTime, ChLastEvent   \* bounds of the clock and of the messages

ChNobody == "nobody"
ChTargets == {"NONE", "SELF", "MEMBER", "OTHER", "UNKNOWN"}
ChTones == {"NONE", "SAFE_BANTER", "SENSITIVE", "ATTACK", "DANGEROUS", "UNKNOWN"}
ChMoves == {"SILENCE", "JOIN_CHORUS", "GROUP_RESPONSE", "FIRM_BOUNDARY", "SAFETY_MINIMUM", "PROACTIVE_JOIN", "CORRECT_SELF",
            "REQUEST_NEEDED_EVIDENCE", "LIMITED_ACCEPT", "REFUSE", "DIRECT_ANSWER", "PLAY"}

\* What the model answers: the kind of scene, whom it addresses (the author of
\* the message, somebody else, nobody), events it cites that are not there, the
\* target and tone of a chorus, whom it is about, missing information, and
\* whether it counts three repetitions.
ChAllReadings == [kind : {"danger_signal", "playful_negotiation", "technical_help", "proactive_join", "observe_only", "self_correction", "other"},
                  scope : {"INDIVIDUAL", "GROUP", "AMBIENT"}, addresses : {"author", "other", ChNobody}, invents : BOOLEAN,
                  target : ChTargets, about : ChMembers \cup {ChNobody, "stranger"}, tone : ChTones,
                  gaps : BOOLEAN, insists : BOOLEAN]

ASSUME ChConstants ==
  /\ DOMAIN ChNamed = ChTexts /\ \A t \in ChTexts : ChNamed[t] \subseteq ChMembers \cup {"self"}
  /\ ChFirm \subseteq ChMembers /\ ChPlayful \subseteq ChMembers
  /\ \A r \in ChReadings : r \in ChAllReadings
  /\ ChWindow \in Nat \ {0} /\ ChHorizon \in Nat /\ ChInFlight \in Nat \ {0} /\ ChLastTime \in Nat /\ ChLastEvent \in Nat

VARIABLES
  chNow,
  chEvents,     \* the text messages of humans, oldest first
  chJudged,     \* messages whose evaluation was drained
  chQueue,      \* drained evaluations, with the chorus evidence found then
  chJoined,     \* social_chorus_participation
  chReply,      \* the echo under way
  chSaid,       \* history: echoes the group has seen
  chAnswer      \* how the last evaluation was answered
chVars == <<chNow, chEvents, chJudged, chQueue, chJoined, chReply, chSaid, chAnswer>>

ChNoReply == [phase |-> "none"]
ChNoScene == [kind |-> "other", scope |-> "AMBIENT", target |-> "NONE", about |-> ChNobody, tone |-> "NONE", gaps |-> FALSE, insists |-> FALSE]
ChNoAnswer == [move |-> "SILENCE", failed |-> FALSE, ambient |-> FALSE]

------------------------------------------------------------------------------
(* ChorusDetector.detect                                                    *)

\* The equal texts within the window before the source, itself included.
ChMatching(i) ==
  {j \in DOMAIN chEvents :
     /\ chEvents[j].text = chEvents[i].text
     /\ chEvents[j].at <= chEvents[i].at /\ chEvents[i].at - chEvents[j].at <= ChWindow}

ChVoices_many(js) == Cardinality(js)
ChVoices(js) == Cardinality({chEvents[j].by : j \in js})

ChIsChorus(js) == ChVoices(js) >= 2

\* The chain is named after the oldest message in the window.
ChChain(js) == Min(js)

ChRecentJoined == {c \in chJoined : c.at >= chNow - ChHorizon}

ChEvidence(i) ==
  LET js == ChMatching(i)
  IN IF ChIsChorus(js)
     THEN [found |-> TRUE, events |-> js, chain |-> ChChain(js), joined |-> \E c \in ChRecentJoined : c.chain = ChChain(js)]
     ELSE [found |-> FALSE, events |-> {}, chain |-> 0, joined |-> FALSE]

------------------------------------------------------------------------------
(* SocialSceneInterpreter.interpret                                         *)

\* _fallback: the author of the message is always the target the bridge names.
ChFallback == [ChNoScene EXCEPT !.kind = "conservative_direct", !.scope = "INDIVIDUAL"]

ChUnknown == [ChNoScene EXCEPT !.kind = "group_chorus", !.scope = "GROUP", !.target = "UNKNOWN", !.tone = "UNKNOWN"]

\* _freeze_chorus_evidence: a target the model left open is read off the words.
ChNamedIn(text) == ChNamed[text] \cap ChMembers
ChFrozen(r, text) ==
  LET guessed == r.target = "NONE"
      target == IF ~ guessed THEN r.target
                ELSE IF "self" \in ChNamed[text] THEN "SELF"
                ELSE IF ChNamedIn(text) # {} THEN "MEMBER" ELSE "OTHER"
      about == IF target # "MEMBER" THEN ChNobody ELSE IF guessed THEN CHOOSE m \in ChNamedIn(text) : TRUE ELSE r.about
      tone == IF r.tone # "NONE" THEN r.tone ELSE IF target = "UNKNOWN" THEN "UNKNOWN" ELSE "SAFE_BANTER"
  IN [r EXCEPT !.target = target, !.about = about, !.tone = tone]

\* SocialScene.__post_init__ and the checks against the context.
ChAddressed(r) ==
  IF r.scope = "INDIVIDUAL" THEN r.addresses = "author" ELSE r.addresses = ChNobody

ChSceneOf(r) == [kind |-> r.kind, scope |-> r.scope, target |-> r.target, about |-> r.about, tone |-> r.tone,
                  gaps |-> r.gaps, insists |-> r.insists]

ChInterpreted(r, text, e) ==
  IF e.found
  THEN LET f == ChFrozen(r, text)
       IN CASE (f.target = "MEMBER" /\ f.about = ChNobody) \/ f.invents \/ ~ ChAddressed(f) -> ChFallback
            [] f.target = "MEMBER" /\ f.about = "stranger" -> ChUnknown
            [] OTHER -> ChSceneOf(f)
  ELSE IF r.target # "NONE" \/ r.tone # "NONE" \/ r.about # ChNobody \/ r.invents \/ ~ ChAddressed(r)
       THEN ChFallback ELSE ChSceneOf(r)

------------------------------------------------------------------------------
(* StancePolicy.decide: willingness and boundary                            *)

ChStand(will, boundary) == [will |-> will, boundary |-> boundary]
ChUnwilling == ChStand("UNWILLING", "SOFT")

\* _member_chorus: the member the chorus is about decides, not its author.
ChCompatible_author(scene, author, modes) ==
  scene.tone = "SAFE_BANTER" /\ author \in ChPlayful \ ChFirm /\ "avoid_play" \notin modes
ChCompatible(scene, author, modes) ==
  scene.tone = "SAFE_BANTER" /\ scene.about \in ChPlayful \ ChFirm /\ "avoid_play" \notin modes

ChStance(scene, author, modes) ==
  CASE scene.kind = "danger_signal" -> ChStand("REQUIRED_MINIMUM", "NONE")
    [] scene.kind # "danger_signal" /\ scene.target = "MEMBER" ->
         IF ChCompatible(scene, author, modes) THEN ChStand("WILLING", "NONE") ELSE ChUnwilling
    [] scene.kind # "danger_signal" /\ scene.target = "SELF" ->
         IF scene.tone \in {"SAFE_BANTER", "SENSITIVE", "ATTACK"}
         THEN ChStand("WILLING", IF scene.tone = "SAFE_BANTER" THEN "NONE" ELSE "SOFT") ELSE ChUnwilling
    [] scene.kind # "danger_signal" /\ scene.target = "OTHER" ->
         IF scene.tone = "SAFE_BANTER" THEN ChStand("WILLING", "NONE") ELSE ChUnwilling
    [] scene.kind # "danger_signal" /\ scene.target = "UNKNOWN" -> ChUnwilling
    [] scene.kind # "danger_signal" /\ scene.target = "NONE" ->
         IF author \in ChFirm \/ scene.insists THEN ChStand("UNWILLING", "FIRM")
         ELSE IF scene.kind = "playful_negotiation"
         THEN IF author \in ChPlayful THEN ChStand("LIMITED", "SOFT") ELSE ChUnwilling
         ELSE ChStand("WILLING", "NONE")

------------------------------------------------------------------------------
(* SocialMovePlanner.plan                                                   *)

ChChorusMove_again(scene, stance, e) ==
  IF scene.target = "SELF" /\ stance.will # "UNWILLING" THEN "GROUP_RESPONSE"
  ELSE IF scene.target \in {"MEMBER", "OTHER"} /\ scene.tone = "SAFE_BANTER" /\ stance.will = "WILLING" THEN "JOIN_CHORUS"
  ELSE "SILENCE"
ChChorusMove(scene, stance, e) ==
  IF e.joined THEN "SILENCE"
  ELSE IF scene.target = "SELF" /\ stance.will # "UNWILLING" THEN "GROUP_RESPONSE"
  ELSE IF scene.target \in {"MEMBER", "OTHER"} /\ scene.tone = "SAFE_BANTER" /\ stance.will = "WILLING" THEN "JOIN_CHORUS"
  ELSE "SILENCE"

ChPlainMove(scene, stance) ==
  CASE stance.boundary = "FIRM" -> "FIRM_BOUNDARY"
    [] stance.boundary # "FIRM" /\ scene.kind = "observe_only" -> "SILENCE"
    [] stance.boundary # "FIRM" /\ scene.kind = "proactive_join" ->
         IF stance.will = "UNWILLING" THEN "SILENCE" ELSE "PROACTIVE_JOIN"
    [] OTHER ->
         IF scene.scope = "GROUP" THEN "GROUP_RESPONSE"
         ELSE IF scene.kind = "self_correction" THEN "CORRECT_SELF"
         ELSE IF scene.gaps THEN "REQUEST_NEEDED_EVIDENCE"
         ELSE IF stance.will = "LIMITED" THEN "LIMITED_ACCEPT"
         ELSE IF stance.will = "UNWILLING" THEN "REFUSE"
         ELSE IF scene.kind = "playful_negotiation" THEN "PLAY" ELSE "DIRECT_ANSWER"

\* A scene carries a chain when its chorus fields survived the interpretation.
ChMove(scene, stance, e) ==
  IF stance.will = "REQUIRED_MINIMUM" THEN "SAFETY_MINIMUM"
  ELSE IF scene.target # "NONE" THEN ChChorusMove(scene, stance, e)
  ELSE ChPlainMove(scene, stance)

------------------------------------------------------------------------------
ChInit ==
  /\ chNow = 0 /\ chEvents = <<>> /\ chJudged = {} /\ chQueue = <<>>
  /\ chJoined = {} /\ chReply = ChNoReply /\ chSaid = {} /\ chAnswer = ChNoAnswer

ChTick ==
  /\ chNow < ChLastTime /\ chNow' = chNow + 1
  /\ UNCHANGED <<chEvents, chJudged, chQueue, chJoined, chReply, chSaid, chAnswer>>

ChSpeakUp ==
  /\ Len(chEvents) < ChLastEvent
  /\ \E m \in ChMembers, t \in ChTexts : chEvents' = Append(chEvents, [by |-> m, text |-> t, at |-> chNow])
  /\ UNCHANGED <<chNow, chJudged, chQueue, chJoined, chReply, chSaid, chAnswer>>

ChPending == Len(chQueue) + (IF chReply = ChNoReply THEN 0 ELSE 1)

\* _evaluate_cycle: the chorus is looked for when the evaluation is made; what
\* is not to be answered goes no further (Cognition).
ChEvaluate ==
  \E i \in DOMAIN chEvents \ chJudged, ambient \in BOOLEAN, act \in BOOLEAN :
    /\ ChPending < ChInFlight
    /\ chJudged' = chJudged \cup {i}
    /\ chAnswer' = ChNoAnswer
    /\ chQueue' = IF act THEN Append(chQueue, [source |-> i, evidence |-> ChEvidence(i), marked |-> chJoined,
                                                    ambient |-> ambient, at |-> chNow]) ELSE chQueue
    /\ UNCHANGED <<chNow, chEvents, chJoined, chReply, chSaid>>

\* The reply handler: scene, stance and move of the next evaluation.
ChAnswer(x, r, works, modes) ==
  LET event == chEvents[x.source]
      scene == IF works THEN ChInterpreted(r, event.text, x.evidence) ELSE ChFallback
      move == ChMove(scene, ChStance(scene, event.by, modes), x.evidence)
  IN /\ chAnswer' = [move |-> move, failed |-> scene = ChFallback, ambient |-> x.ambient]
     /\ chReply' = IF move = "JOIN_CHORUS"
                   THEN [phase |-> "sending", chain |-> x.evidence.chain, events |-> x.evidence.events, text |-> event.text,
                         target |-> scene.target, about |-> scene.about, marked |-> x.marked, judged |-> x.at]
                   ELSE ChNoReply
ChAnswered ==
  /\ chQueue # <<>> /\ chReply = ChNoReply
  /\ \E r \in ChReadings, works \in BOOLEAN, modes \in SUBSET {"avoid_play"} : ChAnswer(Head(chQueue), r, works, modes)
  /\ chQueue' = Tail(chQueue)
  /\ UNCHANGED <<chNow, chEvents, chJudged, chJoined, chSaid>>

\* The platform shows the echo; whether it says so decides what is marked.
ChSend ==
  /\ chReply.phase = "sending"
  /\ \/ /\ chSaid' = chSaid \cup {chReply} /\ \E p \in {"sent", "none"} : chReply' = IF p = "sent" THEN [chReply EXCEPT !.phase = "sent"] ELSE ChNoReply
     \/ chReply' = ChNoReply /\ UNCHANGED chSaid
  /\ UNCHANGED <<chNow, chEvents, chJudged, chQueue, chJoined, chAnswer>>

ChMark ==
  /\ chReply.phase = "sent"
  /\ chJoined' = (IF \E c \in chJoined : c.chain = chReply.chain THEN chJoined ELSE chJoined \cup {[chain |-> chReply.chain, at |-> chNow]})
  /\ chReply' = ChNoReply
  /\ UNCHANGED <<chNow, chEvents, chJudged, chQueue, chSaid, chAnswer>>

\* The process stops: what was drained and not answered is lost.
ChCrash ==
  /\ chReply # ChNoReply \/ chQueue # <<>>
  /\ chReply' = ChNoReply /\ chQueue' = <<>>
  /\ UNCHANGED <<chNow, chEvents, chJudged, chJoined, chSaid, chAnswer>>

ChNext == ChTick \/ ChSpeakUp \/ ChEvaluate \/ ChAnswered \/ ChSend \/ ChMark \/ ChCrash

ChSpec == ChInit /\ [][ChNext]_chVars

------------------------------------------------------------------------------
ChMessage == [by : ChMembers, text : ChTexts, at : 0 .. ChLastTime]
ChMarks == [chain : Nat, at : 0 .. ChLastTime]
ChChorusEvidence == [found : BOOLEAN, events : SUBSET Nat, chain : Nat, joined : BOOLEAN]
ChJudgement == [source : Nat, evidence : ChChorusEvidence, marked : SUBSET ChMarks, ambient : BOOLEAN, at : 0 .. ChLastTime]
\* Evidence is of events that are there, two at least by two humans (ChorusEvidence.__post_init__).
ChHolds(e) ==
  /\ e.events \subseteq DOMAIN chEvents
  /\ e.found => e.chain \in e.events /\ Cardinality(e.events) >= 2 /\ ChVoices(e.events) >= 2
\* _validate_realization: JOIN_CHORUS carries the words and the chain, and nothing else does.
ChEcho == [phase : {"sending", "sent"}, chain : Nat, events : SUBSET Nat, text : ChTexts,
           target : ChTargets, about : ChMembers \cup {ChNobody, "stranger"}, marked : SUBSET ChMarks, judged : 0 .. ChLastTime]
ChTypeOK ==
  /\ chNow \in 0 .. ChLastTime
  /\ chEvents \in Seq(ChMessage) /\ Len(chEvents) <= ChLastEvent
  /\ chJudged \subseteq DOMAIN chEvents
  /\ chJoined \subseteq ChMarks /\ \A c \in chJoined : c.chain \in DOMAIN chEvents
  /\ chQueue \in Seq(ChJudgement) /\ \A i \in DOMAIN chQueue : chQueue[i].source \in DOMAIN chEvents /\ ChHolds(chQueue[i].evidence)
  /\ chReply = ChNoReply \/ chReply \in ChEcho
  /\ chSaid \subseteq ChEcho
  /\ chAnswer \in [move : ChMoves, failed : BOOLEAN, ambient : BOOLEAN]

\* The persona echoes only what several people said: two humans at least, the
\* same words, all within the detector's window (chorus.py detect).
ChEchoIsShared ==
  \A s \in chSaid :
    /\ Cardinality({chEvents[j].by : j \in s.events}) >= 2
    /\ \A j \in s.events : chEvents[j].text = s.text
    /\ \A i, j \in s.events : chEvents[i].at - chEvents[j].at <= ChWindow

\* It never repeats words about itself, nor words about a member who does not
\* accept play or whose boundaries are strained, whoever started the chorus
\* (social_scenes.py, stances.py _member_chorus, social_moves.py _chorus).
ChEchoIsHarmless ==
  \A s \in chSaid :
    /\ s.target \in {"OTHER", "MEMBER"}
    /\ s.target = "MEMBER" => s.about \in ChPlayful \ ChFirm

\* A chain that was marked before an evaluation was made, less than the time it
\* is remembered, is not echoed by it, however long the answer took
\* (mark_joined, recent_joined_chain_ids, _chorus).
ChMarkedIsFinal ==
  \A s \in chSaid : \A c \in s.marked : c.chain = s.chain => c.at < s.judged - ChHorizon

\* The design of the speech style (docs/superpowers/specs/2026-08-27-aemeath-
\* smalltalk-style-system-design.md:148): the persona takes part in a chain at
\* most once.  An echo that was marked is the only one that rests on any of its
\* messages (chorus.py _chain_id names the chain after the oldest message that
\* the sliding window still holds).
ChJoinedOnce ==
  \A s, u \in chSaid : (\E c \in u.marked : c.chain = s.chain) => s.events \cap u.events = {}

\* The same design (line 144): where the scene cannot be read, an ambient
\* message is only observed.
ChAmbientObserves == chAnswer.failed /\ chAnswer.ambient => chAnswer.move = "SILENCE"
==============================================================================
