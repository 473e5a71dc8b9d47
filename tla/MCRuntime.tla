----------------------------- MODULE MCRuntime -----------------------------
(***************************************************************************)
(* Model checking of Runtime: in each behaviour only the component looked  *)
(* at moves, the others stay as they start.                                *)
(***************************************************************************)
EXTENDS Runtime, TLC

\* KnowledgeJobs: three questions about two facts, one of which only rumours answer, one hour
\* boundary; the second and the third are not both asked; either the replies or the scheduled jobs
\* move.
MCJobsHashOf == "q1" :> "h1" @@ "q2" :> "h1" @@ "q3" :> "h2"
MCJobsFocus ==
  \/ \A q \in JobsRequests : jobsReply[q] = "idle"
  \/ /\ jobsRow[<<"learn", 0>>].status = "absent"
     /\ \A d \in JobsHours : jobsRow[<<"daily", d>>].status \in {"absent", "pending"}
     /\ jobsReply["q1"] = "idle" => jobsReply["q2"] = "idle" /\ jobsReply["q3"] = "idle"
     /\ jobsReply["q2"] = "idle" \/ jobsReply["q3"] = "idle"

\* Conventions: two meanings of one expression, three messages from two scenes, one of them an
\* administrator's; a command outlasts a tick only once the third message is admitted.
MCConvSceneOf == "m1" :> "s1" @@ "m2" :> "s2" @@ "m3" :> "s1"
MCConvKindsOf == "m1" :> {"definition"} @@ "m2" :> {"usage"} @@ "m3" :> {"definition", "topic_mention"}
MCConvFocus ==
  /\ convObs["m1"].status = "absent" => convObs["m3"].status = "absent" /\ convNow = 0
  /\ convNow > 0 => convCommanded = {} \/ convObs["m3"].status = "admitted"
  /\ convObs["m1"].entity # "e2" /\ convObs["m3"].entity # "e1"
  /\ convAlias["e2"] # "rejected" /\ conv["e2"].status # "rejected"
  /\ convCommanded # {} => convNow = 0 \/ convObs["m2"].status # "absent"
  /\ convTrimmed # {} => convObs["m3"].status \in {"absent", "admitted"}

\* GameFacts: two release slots, two bundled seeds, an official and a corroborated claim; the claims
\* and the slots do not both move; the second memory of a search stands alone.
MCSlot(r, o, t) ==
  [at |-> [release |-> r, official |-> o, rumor |-> 4], checked |-> [release |-> 0, official |-> t, rumor |-> 0],
   announced |-> 0, revision |-> 1, status |-> "active"]
MCFactsInitial == "a" :> MCSlot(0, 3, 0) @@ "b" :> MCSlot(1, 4, 0)
MCFactsReleaseAt == "a" :> 1 @@ "b" :> 0
MCFactsLevel == "seed1" :> "bundled" @@ "seed2" :> "bundled" @@ "off" :> "official" @@ "corr" :> "corroborated"
MCFactsKind == [c \in DOMAIN MCFactsLevel |-> IF c = "off" THEN "public_fact" ELSE "stable_semantic"]
MCFactsChecked == [c \in DOMAIN MCFactsLevel |-> IF c = "off" THEN 1 ELSE 0]
MCFactsVersionOf == "seed1" :> 1 @@ "seed2" :> 2
MCFactsFocus ==
  /\ \/ \A c \in FactsClaims : factsClaim[c] = "absent"
     \/ /\ \A s \in FactsSlots : factsSlot[s].at = FactsInitial[s].at /\ factsSlot[s].checked = FactsInitial[s].checked
        /\ \A e \in FactsEditors : factsDraft[e] = FactsNoDraft
  /\ factsNegative["n2"].status = "absent" \/ \A e \in FactsEditors : factsDraft[e] = FactsNoDraft
  /\ factsNegative["n2"].status = "absent" \/ \A c \in FactsClaims : factsClaim[c] = "absent"

\* ControlPlane: two configurations with a restore and a pause of the same id, or seven profile
\* commands on three members.
MCCtlConfig(k, g, i) == [kind |-> k, config |-> g, id |-> i, confirmed |-> TRUE]
MCCtlConfigs ==
  [d1 |-> MCCtlConfig("draft", "x", "1"), d2 |-> MCCtlConfig("profile", "p", "2"),
   v1 |-> MCCtlConfig("validate", "x", "3"), v2 |-> MCCtlConfig("validate", "p", "4"),
   p1 |-> MCCtlConfig("publish", "x", "5"), p2 |-> MCCtlConfig("publish", "p", "6"),
   r |-> [kind |-> "restore", config |-> "x", version |-> 1, id |-> "7", confirmed |-> TRUE],
   s |-> [kind |-> "pause", id |-> "5", confirmed |-> FALSE]]
MCCtlProfile ==
  [c1 |-> [kind |-> "correct", member |-> "a", fact |-> "f", id |-> "11", confirmed |-> TRUE],
   c2 |-> [kind |-> "reject", member |-> "b", fact |-> "g", id |-> "12", confirmed |-> TRUE],
   m1 |-> [kind |-> "merge", source |-> "a", member |-> "b", id |-> "13", confirmed |-> TRUE],
   m2 |-> [kind |-> "merge", source |-> "b", member |-> "a", id |-> "14", confirmed |-> TRUE],
   sp |-> [kind |-> "split", member |-> "b", target |-> "n", facts |-> {"f"}, id |-> "15", confirmed |-> TRUE],
   on |-> [kind |-> "style", member |-> "a", enabled |-> TRUE, id |-> "16", confirmed |-> FALSE],
   off |-> [kind |-> "style", member |-> "a", enabled |-> FALSE, id |-> "17", confirmed |-> FALSE]]
MCCtlCommand == MCCtlConfigs @@ MCCtlProfile
MCCtlFactsOf == [f |-> "a", g |-> "b"]
MCCtlRevisions == [a |-> 3, b |-> -1, n |-> -1]
MCCtlFocus ==
  /\ \/ ctlNow = 0 /\ \A c \in DOMAIN MCCtlProfile : ctlSeen[c] = -1
     \/ \A c \in DOMAIN MCCtlConfigs : ctlSeen[c] = -1
  /\ ctlPublished \subseteq {"1", "11"}

\* Projections: four effects, batches of two, two projections and a reader; either projection may
\* be rebuilt, once.
MCPrjEntity == <<"x", "y", "x", "z">>
MCPrjGroup == <<"g", "h", "g", "h">>
MCPrjMatches == [a |-> {1, 2, 3, 4}, b |-> {1, 3}]
MCPrjReaders == [r |-> "g"]

\* ReplyLane: two messages and three handlers: the second has two evaluations, the third starts when
\* it is over; a handler starts when its messages have entered, and the third
\* is of interest beside the first or after an answer.
MCLaneBatch == "h1" :> <<"x1">> @@ "h2" :> <<"x2", "x3">> @@ "h3" :> <<"x4">>
MCLaneSource == "x1" :> "e1" @@ "x2" :> "e2" @@ "x3" :> "e1" @@ "x4" :> "e2"
MCLaneWindow == "x1" :> {"e1"} @@ "x2" :> {"e2"} @@ "x3" :> {"e1", "e2"} @@ "x4" :> {"e1", "e2"}
MCLaneMay == "x1" :> {"ACT"} @@ "x2" :> {"DEFER"} @@ "x3" :> {"ACT"} @@ "x4" :> {"ACT"}
MCLaneFocus ==
  /\ (\A h \in LaneHandlers : lnPc[h] = "idle") \/ lnEntered = LaneMessages
  /\ lnPc["h3"] # "idle" => lnPc["h2"] = "over" /\ lnMode # "SHADOW"
  /\ lnPc["h2"] # "idle" => lnPc["h1"] # "idle"
  /\ lnPc["h3"] # "idle" => lnPc["h1"] # "preparing" /\ (lnPc["h1"] = "over" => lnAnswered # {})

\* Cognition: an ambient frame, one in a chorus, a direct one and a reminder at a gate of one slot;
\* the reminder comes last.
MCCogKind == "a1" :> "AMBIENT" @@ "a2" :> "AMBIENT" @@ "f1" :> "FAST" @@ "t1" :> "TEMPORAL"
MCCogMay == "a1" :> {"speak", "timid", "mixed", "raises"} @@ "a2" :> {"silence"} @@ "f1" :> {} @@ "t1" :> {}
MCCogFocus ==
  /\ \A f \in {"a2", "f1", "t1"} : cgPc[f] \notin {"cancelled", "stale"} /\ cgOutcome[f] \in {"none", "ACT", "OBSERVE"}
  /\ cgPc["t1"] # "idle" => cgPc["a2"] = "accepted" /\ cgTask[<<"a2", "model">>] = "over" /\ cgPc["f1"] # "idle"
  /\ cgPc["f1"] # "idle" => cgPc["a2"] # "idle" /\ cgPc["a1"] # "idle"
  /\ cgPc["a2"] \in {"judged", "accepted"} \/ cgOutcome["a1"] = "none"
  /\ \A f \in {"a2", "f1", "t1"} : cgEnd[<<f, "rule">>] # "timeout"

\* Lifecycle: two callers of start and one terminate at a time.

\* Profiles: three messages of two members, two claims about one of them, one merge;
\* an administrator closes a claim after two messages at most.
MCProfAuthor == 1 :> "a" @@ 2 :> "b" @@ 3 :> "a"
MCProfAt == 1 :> 1 @@ 2 :> 2 @@ 3 :> 2
MCProfSubject == "f" :> "a" @@ "g" :> "a"
MCProfNeeds == "f" :> 1 @@ "g" :> 2
MCProfMerges == {<<"a", "b">>}
MCProfDelays == <<1, 2>>
MCProfFocus ==
  /\ pfObs[1].status = "absent" => pfObs[3].status = "absent" /\ pfWork.phase = "off"
  /\ pfBarred = {} \/ pfClaim["g"].status = "none"
  /\ pfBarred = {} \/ pfObs[3].status = "absent"

\* MemberStyle: two members, three messages, two sessions of at most two windows; the second session comes
\* after the third message or before any.
MCStyleAuthor == 1 :> 1 @@ 2 :> 2 @@ 3 :> 2
MCStyleAt == 1 :> 0 @@ 2 :> 0 @@ 3 :> 1
MCStyleFocus ==
  /\ Cardinality(msSessions) <= 2 /\ Cardinality(msWindows[1]) + Cardinality(msWindows[2]) <= 2
  /\ \A s \in msSessions : s.of = 1 => s.to = s.from + 1
  /\ 3 \in msSeen => 2 \in msSeen
  /\ Cardinality(msSessions) = 2 => 3 \in msSeen \/ msSeen = {}
  /\ Cardinality(msSessions) = 2 => \A a \in StyleMembers : Cardinality(msWindows[a]) <= 1

\* Replies: two strict facts and one stable one, snapshots that expire at different times, both
\* lanes and the three modes; intentions that outlast the message or not, and a planner that asks back.
MCRpFacts == {"v1", "d1", "lore"}
MCRpRisk == "v1" :> "version" @@ "d1" :> "date" @@ "lore" :> "stable"
MCRpSnapshots ==
  {RpNoSnapshot}
    \cup {[facts |-> fs, expires |-> t, revision |-> 1, onTopic |-> TRUE] : fs \in {{"v1", "lore"}, {"lore"}}, t \in 1 .. 2}
    \cup {[facts |-> {"v1", "d1"}, expires |-> 2, revision |-> 1, onTopic |-> o] : o \in BOOLEAN}
MCRpCases ==
  {e \in [lane : {"DIRECT_FAST", "AMBIENT"}, mode : {"SEND", "PREVIEW", "BLOCK"}, move : {"speak", "request", "chorus"},
          risks : {{}, {"version"}, {"version", "date"}}, lasts : {0, 3}, unresolved : BOOLEAN, required : BOOLEAN,
          overlay : BOOLEAN, snapshot : MCRpSnapshots] :
     /\ e.required = (e.lane = "DIRECT_FAST")
     /\ e.mode = "BLOCK" => e.lane = "AMBIENT" /\ e.snapshot.facts = {"lore"} /\ e.snapshot.expires = 1 /\ e.risks = {}
     /\ e.mode = "PREVIEW" => e.risks = {} /\ e.snapshot.facts # {"lore"}
     /\ e.mode # "SEND" => ~ e.unresolved /\ e.overlay
     /\ e.unresolved => e.lane = "DIRECT_FAST" /\ e.risks # {} /\ e.snapshot = RpNoSnapshot
     /\ e.overlay => e.risks = {}
     /\ e.lasts > 0 => e.mode = "SEND" /\ e.risks = {} /\ e.move = "speak" /\ ~ e.overlay /\ e.required
     /\ e.move = "request" => e.mode = "SEND" /\ e.required /\ ~ e.unresolved /\ ~ e.overlay /\ e.risks = {"version", "date"}
     /\ e.move = "chorus" => e.mode = "SEND" /\ ~ e.overlay /\ e.snapshot = RpNoSnapshot}

\* Chorus: two members, two texts of which one names a member, three messages of which the first is
\* a's.
MCChNamed == "joke" :> {} @@ "tease" :> {"b"}
MCChPlain ==
  [kind |-> "other", scope |-> "GROUP", addresses |-> ChNobody, invents |-> FALSE, target |-> "NONE", about |-> ChNobody,
   tone |-> "NONE", gaps |-> FALSE, insists |-> FALSE]
MCChAlone(kind, gaps) ==
  [MCChPlain EXCEPT !.kind = kind, !.scope = "INDIVIDUAL", !.addresses = "author", !.gaps = gaps]
MCChReadings ==
  {MCChPlain, [MCChPlain EXCEPT !.target = "SELF", !.tone = "ATTACK"],
   [MCChPlain EXCEPT !.invents = TRUE], [MCChPlain EXCEPT !.insists = TRUE],
   MCChAlone("danger_signal", FALSE), MCChAlone("playful_negotiation", FALSE), MCChAlone("technical_help", TRUE)}
    \cup {[MCChPlain EXCEPT !.target = "MEMBER", !.about = m] : m \in {"b", "stranger"}}
    \cup {[MCChPlain EXCEPT !.kind = k, !.scope = "AMBIENT"] : k \in {"proactive_join", "observe_only", "self_correction"}}
MCChFocus ==
  /\ chEvents # <<>> => chEvents[1].by = "a"
  /\ chNow > 0 => chEvents # <<>>
  /\ \A i \in chJudged, j \in DOMAIN chEvents : j < i => j \in chJudged

\* Readiness: two groups, two tokens, one configuration change; the evidence is sound.
MCRdSound == [e \in {"e0", "e1"} |-> TRUE]
MCRdAbout == "e0" :> 0 @@ "e1" :> 1
MCRdMinimum == [p \in 1 .. 6 |-> 1]
MCRdFocus ==
  /\ \A r \in rdReports : r.passed
  /\ rdToken["t1"].state = "absent" \/ (rdToken["t1"].group = "a" /\ rdToken["t1"].version \in {0, 1} /\ rdToken["t1"].quiet)
  /\ \/ rdToken["t2"].state = "absent"
     \/ /\ rdToken["t2"].group = "b" /\ rdToken["t2"].version = 0
        /\ rdHandoffs # {} \/ rdToken["t1"].state = "absent"
     \/ rdHandoffs # {} /\ rdToken["t2"].group = "a" /\ rdToken["t2"].version = 2 /\ rdToken["t2"].quiet
  /\ rdVersion["b"] <= 1 /\ rdConfig["b"] = 0
  /\ rdEvidence["b"] # "none" => rdEvidence["b"] = "e0" /\ (rdHandoffs # {} \/ rdEvidence["a"] = "none")
  /\ rdNow > 0 => rdHandoffs # {}

\* Stickers: two pictures, one place in every pool and one in the queue; the second picture moves as
\* the administrator's.
MCStkFocus ==
  LET q == stkCard["q"] IN
  /\ q = StkAbsent \/ q = StkNew \/ (q.source = "admin" /\ q.meaning = "good" /\ ~ q.judged /\ q.status # "disabled")
  /\ stkRejects \subseteq {"p"} /\ (q # StkAbsent => "q" \in stkFiles)
  /\ stkCard["p"].meaning # "generic"
  /\ stkAttached > 0 => ~ stkUp \/ q = StkAbsent
  /\ q # StkAbsent => stkCard["p"].source \in {"none", "admin"}

\* Autonomy: two opportunities and two overlapping runs; three versions of the scene, the second of
\* which forbids and only the first of which the second opportunity meets.
MCAutEarliest == "o1" :> 0 @@ "o2" :> 1
MCAutExpires == "o1" :> 2 @@ "o2" :> 2
MCAutAttempts == "o1" :> 2 @@ "o2" :> 1
MCAutAllows == <<TRUE, FALSE, TRUE>>
MCAutQuiet == <<0, 0, 1>>
MCAutFocus ==
  /\ autRun["r2"].phase # "idle" => autRun["r2"].phase = "list" \/ AutSpoken("o1") # {} \/ AutSpoken("o2") # {}
  /\ autRow["o2"].status = "absent" \/ autScene < 2
  /\ autRun["r2"].phase = "idle" \/ autRow["o1"].status # "absent"
  /\ autRow["o1"].status = "absent" => autNow = 0

\* Relations: two conversations, four evaluations with nine events of five kinds over two days, the
\* hurts and their repairs among them.
MCRelEvent(i, k, s, d, r) ==
  [id |-> i, kind |-> k, severity |-> s, sure |-> TRUE, private |-> FALSE, day |-> d, repairs |-> r]
MCRelProposals ==
  [w1 |-> MCRelEvent("a", "warm_exchange", 3, 0, "none"), w2 |-> MCRelEvent("a", "warm_exchange", 2, 0, "none"),
   w3 |-> MCRelEvent("b", "trust_confirmed", 2, 0, "none"), f |-> MCRelEvent("f", "interaction", 1, 1, "none"),
   h1 |-> MCRelEvent("h", "boundary_pressure", 2, 0, "none"), h2 |-> MCRelEvent("k", "boundary_pressure", 3, 1, "none"),
   v |-> [MCRelEvent("v", "boundary_pressure", 3, 1, "none") EXCEPT !.private = TRUE],
   r1 |-> MCRelEvent("r", "repair_confirmed", 2, 1, "h"), r2 |-> MCRelEvent("s", "repair_confirmed", 1, 1, "h"),
   t |-> MCRelEvent("t", "repair_attempt", 2, 1, "h"),
   u |-> [MCRelEvent("u", "play_accepted", 2, 1, "none") EXCEPT !.sure = FALSE]]
MCRelEvaluations ==
  [e1 |-> <<"w1", "h1">>, e2 |-> <<"w2", "u", "w3", "f">>, e3 |-> <<"h2", "r1">>, e4 |-> <<"t", "v", "r2">>]
MCRelFocus ==
  /\ relLeft["e2"] # RelAt("new") => relLeft["e1"] = RelAt("told") /\ relLeft["e3"] = RelAt("new")
  /\ relLeft["e4"] # RelAt("new") => relLeft["e1"] = RelAt("told")
  /\ relLeft["e3"] # RelAt("new") => relLeft["e1"] = RelAt("told")

----------------------------------------------------------------------------
CONSTANT MCParts   \* the components of this run
vars == <<part, jobsVars, convVars, factsVars, ctlVars, prjVars, lnVars, cgVars, lfVars, pfVars,
         msVars, rpVars, chVars, rdVars, stkVars, autVars, relVars>>

MCInit ==
  /\ part \in MCParts
  /\ JobsInit
  /\ ConvInit
  /\ FactsInit
  /\ CtlInit
  /\ PrjInit
  /\ LaneInit /\ (part # "lane" => lnMode = "SOCIAL_RUNTIME")
  /\ CogInit
  /\ LifeInit
  /\ ProfInit
  /\ StyleInit
  /\ RpInit /\ (part # "replies" => rpCase = CHOOSE c \in RpEvaluations : TRUE)
  /\ ChInit
  /\ RdInit
  /\ StkInit
  /\ AutInit
  /\ RelInit /\ (part # "relations" => relMode = "SOCIAL_RUNTIME")
  /\ vars = vars   \* TLC keeps an initial function unevaluated until it is read, and MCView reads one part

\* Whatever is not looked at rests.
MCRests ==
  /\ UNCHANGED part
  /\ IF part = "jobs" THEN TRUE ELSE UNCHANGED jobsVars
  /\ IF part = "conv" THEN TRUE ELSE UNCHANGED convVars
  /\ IF part = "facts" THEN TRUE ELSE UNCHANGED factsVars
  /\ IF part = "ctl" THEN TRUE ELSE UNCHANGED ctlVars
  /\ IF part = "prj" THEN TRUE ELSE UNCHANGED prjVars
  /\ IF part = "lane" THEN TRUE ELSE UNCHANGED lnVars
  /\ IF part = "cog" THEN TRUE ELSE UNCHANGED cgVars
  /\ IF part = "life" THEN TRUE ELSE UNCHANGED lfVars
  /\ IF part = "prof" THEN TRUE ELSE UNCHANGED pfVars
  /\ IF part = "style" THEN TRUE ELSE UNCHANGED msVars
  /\ IF part = "replies" THEN TRUE ELSE UNCHANGED rpVars
  /\ IF part = "chorus" THEN TRUE ELSE UNCHANGED chVars
  /\ IF part = "readiness" THEN TRUE ELSE UNCHANGED rdVars
  /\ IF part = "stickers" THEN TRUE ELSE UNCHANGED stkVars
  /\ IF part = "autonomy" THEN TRUE ELSE UNCHANGED autVars
  /\ IF part = "relations" THEN TRUE ELSE UNCHANGED relVars

\* The component looked at moves, within its focus.
MCMoves ==
  \/ part = "jobs" /\ JobsNext /\ MCJobsFocus'
  \/ part = "conv" /\ ConvNext /\ MCConvFocus'
  \/ part = "facts" /\ FactsNext /\ MCFactsFocus'
  \/ part = "ctl" /\ CtlNext /\ MCCtlFocus'
  \/ part = "prj" /\ PrjNext
  \/ part = "lane" /\ LaneNext /\ MCLaneFocus'
  \/ part = "cog" /\ CogNext /\ MCCogFocus'
  \/ part = "life" /\ LifeNext
  \/ part = "prof" /\ ProfNext /\ MCProfFocus'
  \/ part = "style" /\ StyleNext /\ MCStyleFocus'
  \/ part = "replies" /\ RpNext
  \/ part = "chorus" /\ ChNext /\ MCChFocus'
  \/ part = "readiness" /\ RdNext /\ MCRdFocus'
  \/ part = "stickers" /\ StkNext /\ MCStkFocus'
  \/ part = "autonomy" /\ AutNext /\ MCAutFocus'
  \/ part = "relations" /\ RelNext /\ MCRelFocus'

MCNext == MCRests /\ MCMoves   \* in this order: what rests is settled once for all moves

MCSpec == MCInit /\ [][MCNext]_vars

\* The other components are as they start: a state is told by the one that moves.
MCView ==
  CASE part = "jobs" -> <<part, jobsVars>>
    [] part = "conv" -> <<part, convVars>>
    [] part = "facts" -> <<part, factsVars>>
    [] part = "ctl" -> <<part, ctlVars>>
    [] part = "prj" -> <<part, prjVars>>
    [] part = "lane" -> <<part, lnVars>>
    [] part = "cog" -> <<part, cgVars>>
    [] part = "life" -> <<part, lfVars>>
    [] part = "prof" -> <<part, pfVars>>
    [] part = "style" -> <<part, msVars>>
    [] part = "replies" -> <<part, rpVars>>
    [] part = "chorus" -> <<part, chVars>>
    [] part = "readiness" -> <<part, rdVars>>
    [] part = "stickers" -> <<part, stkVars>>
    [] part = "autonomy" -> <<part, autVars>>
    [] part = "relations" -> <<part, relVars>>
=============================================================================
