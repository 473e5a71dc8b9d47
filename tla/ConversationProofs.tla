------------------------ MODULE ConversationProofs -------------------------
(***************************************************************************)
(* Theorems about how the bot comes to speak: the runtime's generations,   *)
(* the rollout to a group, the evaluation of frames at the gate, the lane  *)
(* of a group, the chorus, the reply, and what it says unasked.            *)
(***************************************************************************)
EXTENDS Lifecycle, Readiness, Cognition, ReplyLane, Chorus, Replies, Autonomy,
        FiniteSetTheorems, SequenceTheorems, NaturalsInduction, WellFoundedInduction, TLAPS

----------------------------------------------------------------------------
(***************************************************************************)
(* Theorems about starting and stopping the runtime, for any number of     *)
(* calls that start, use and take down generations of services.            *)
(***************************************************************************)

(***************************************************************************)
(* The inductive invariant.  A drain works with an open generation, whose  *)
(* mailboxes are up until the last drain is over.  The generation the      *)
(* bridge refers to was built completely and is open, since only the       *)
(* generation terminate has taken goes down.  What is still running of     *)
(* that one is what terminate has yet to close.                            *)
(***************************************************************************)
LifeUnbuilt == {"idle", "manager", "profile", "observer", "jobs"}

LifeWorking ==
  /\ \A t \in LifeTasks : lfPc[t] = "inside" => lfUses[t] \in LifeTasks /\ lfMgr[lfUses[t]] \in {"open", "closing"}
  /\ \A g \in LifeTasks : lfMgr[g] \in {"open", "closing"} => \A b \in LifeBoxes : lfBox[g][b] = "up"
  /\ \A t \in lfLate : lfPc[t] = "replying" /\ lfAsks[t] # LifeNone

LifeReferred ==
  /\ lfManager # LifeNone => lfMgr[lfManager] = "open" /\ lfPc[lfManager] \notin LifeUnbuilt
  /\ \A t \in LifeTasks : lfPc[t] \in {"profile", "observer", "jobs"} => lfMgr[t] = "open"

LifeTaken ==
  /\ lfCloser = LifeIdle \/ lfCloser.of \in LifeTasks \cup {LifeNone}
  /\ lfCloser.of \in LifeTasks =>
       /\ lfManager # lfCloser.of /\ lfPc[lfCloser.of] \notin LifeUnbuilt
       /\ lfCloser.left # <<>> /\ lfCloser.left[Len(lfCloser.left)] = "manager"
       /\ \A s \in lfUp[lfCloser.of] : s = "loop" \/ \E i \in DOMAIN lfCloser.left : lfCloser.left[i] = s
  /\ \A g \in lfGone : lfPc[g] \notin LifeUnbuilt /\ lfUp[g] \subseteq {"loop"} /\ g # lfManager

LifeInductive == LifeTypeOK /\ LifeWorking /\ LifeReferred /\ LifeTaken

LEMMA LifeInductiveIsSound == LifeInductive => LifeSound
<1> SUFFICES ASSUME LifeInductive PROVE LifeSound
  OBVIOUS
<1>1. LifeDrainAnswered
  BY DEF LifeInductive, LifeTypeOK, LifeWorking, LifeDrainAnswered
<1>2. LifeReferenceIsLive
  BY DEF LifeInductive, LifeReferred, LifeTaken, LifeReferenceIsLive
<1> QED
  BY <1>1, <1>2 DEF LifeSound

LEMMA LifeStarts == LifeInit => LifeInductive
<1> SUFFICES ASSUME LifeInit PROVE LifeInductive
  OBVIOUS
<1>1. LifeTypeOK
  <2>1. LifeIdle \in [of : LifeTasks \cup {LifeNone, "idle"}, left : Seq(LifeBuilding)]
    BY DEF LifeIdle
  <2>2. [b \in LifeBoxes |-> "down"] \in LifeMailboxes
    BY DEF LifeMailboxes
  <2> QED
    BY <2>1, <2>2 DEF LifeInit, LifeTypeOK, LifeManagers, LifeBuilding
<1>2. LifeWorking /\ LifeReferred
  BY DEF LifeInit, LifeWorking, LifeReferred
<1>3. LifeTaken
  BY LifeConstants DEF LifeInit, LifeTaken, LifeIdle
<1> QED
  BY <1>1, <1>2, <1>3 DEF LifeInductive

-----------------------------------------------------------------------------
(* The bridge.                                                             *)
LEMMA StartStep == ASSUME LifeInductive, NEW t \in LifeTasks, LifeStart(t) PROVE LifeInductive'
<1> USE DEF LifeInductive, LifeStart, LifeGoto, LifeWork
<1>1. LifeTypeOK'
  BY DEF LifeTypeOK, LifeBuilding
<1>2. LifeWorking'
  BY DEF LifeTypeOK, LifeWorking
<1>3. LifeReferred'
  BY DEF LifeTypeOK, LifeReferred, LifeUnbuilt
<1>4. LifeTaken'
  BY DEF LifeTypeOK, LifeTaken, LifeUnbuilt
<1> QED
  BY <1>1, <1>2, <1>3, <1>4

LEMMA ServeStep == ASSUME LifeInductive, NEW t \in LifeTasks, LifeServe(t) PROVE LifeInductive'
<1> USE DEF LifeInductive, LifeServe, LifeGoto, LifeWork, LifeAfter
<1>1. LifeTypeOK'
  <2>1. lfUp' \in [LifeTasks -> SUBSET (LifeBuilding \cup {"loop"})]
    BY DEF LifeTypeOK, LifeBuilding
  <2>2. lfMgr' \in [LifeTasks -> LifeManagers] /\ lfBox' \in [LifeTasks -> LifeMailboxes]
    <3>1. [b \in LifeBoxes |-> "up"] \in LifeMailboxes
      BY DEF LifeMailboxes
    <3> QED
      BY <3>1 DEF LifeTypeOK, LifeManagers
  <2>3. lfPc' \in [LifeTasks -> LifeBuilding \cup {"idle", "ready", "inside", "replying", "over", "failed"}]
    BY DEF LifeTypeOK, LifeBuilding
  <2> QED
    BY <2>1, <2>2, <2>3 DEF LifeTypeOK
<1>2. LifeWorking'
  BY DEF LifeTypeOK, LifeWorking
<1>3. LifeReferred'
  BY LifeConstants DEF LifeTypeOK, LifeReferred, LifeUnbuilt
<1>4. LifeTaken'
  BY DEF LifeTypeOK, LifeTaken, LifeUnbuilt
<1> QED
  BY <1>1, <1>2, <1>3, <1>4

LEMMA ServedStep == ASSUME LifeInductive, NEW t \in LifeTasks, LifeServed(t) PROVE LifeInductive'
<1> USE DEF LifeInductive, LifeServed, LifeGoto, LifeWork
<1>1. LifeTypeOK'
  BY DEF LifeTypeOK, LifeBuilding
<1>2. LifeWorking'
  BY DEF LifeTypeOK, LifeWorking
<1>3. LifeReferred'
  BY DEF LifeTypeOK, LifeReferred, LifeUnbuilt
<1>4. LifeTaken'
  BY DEF LifeTypeOK, LifeTaken, LifeUnbuilt
<1> QED
  BY <1>1, <1>2, <1>3, <1>4

LEMMA LoopEndsStep == ASSUME LifeInductive, NEW g \in LifeTasks, LifeLoopEnds(g) PROVE LifeInductive'
<1> USE DEF LifeInductive, LifeLoopEnds, LifeWork
<1>1. LifeTypeOK'
  BY DEF LifeTypeOK
<1>2. LifeWorking' /\ LifeReferred'
  BY DEF LifeTypeOK, LifeWorking, LifeReferred
<1>3. LifeTaken'
  BY DEF LifeTypeOK, LifeTaken
<1> QED
  BY <1>1, <1>2, <1>3

LEMMA FailStep == ASSUME LifeInductive, NEW t \in LifeTasks, LifeFail(t) PROVE LifeInductive'
<1> USE DEF LifeInductive, LifeFail, LifeGoto, LifeWork, LifeInside
<1>1. LifeTypeOK'
  BY DEF LifeTypeOK, LifeBuilding, LifeManagers, LifeMailboxes
<1>2. LifeWorking'
  BY DEF LifeTypeOK, LifeWorking, LifeBuilding
<1>3. LifeReferred'
  BY DEF LifeTypeOK, LifeReferred
<1>4. LifeTaken'
  BY LifeConstants DEF LifeTypeOK, LifeTaken, LifeUnbuilt
<1> QED
  BY <1>1, <1>2, <1>3, <1>4

LEMMA CloseStep == ASSUME LifeInductive, LifeClose PROVE LifeInductive'
<1> USE DEF LifeInductive, LifeClose, LifeWork, LifeTake
<1>1. LifeOrder \in Seq(LifeBuilding) /\ LifeOrder # <<>> /\ LifeOrder[Len(LifeOrder)] = "manager"
      /\ \A s \in LifeBuilding : \E i \in DOMAIN LifeOrder : LifeOrder[i] = s
  BY DEF LifeOrder, LifeBuilding
<1>2. LifeTypeOK'
  BY <1>1 DEF LifeTypeOK
<1>3. LifeWorking' /\ LifeReferred'
  BY DEF LifeTypeOK, LifeWorking, LifeReferred
<1>4. LifeTaken'
  BY <1>1, LifeConstants DEF LifeTypeOK, LifeTaken, LifeReferred
<1> QED
  BY <1>2, <1>3, <1>4

LEMMA CloseOneStep == ASSUME LifeInductive, LifeCloseOne PROVE LifeInductive'
<1> DEFINE q == lfCloser.left
<1>1. q \in Seq(LifeBuilding) /\ q # <<>> /\ Head(q) # "manager"
      /\ lfCloser' = [of |-> lfCloser.of, left |-> Tail(q)]
      /\ lfUp' = [lfUp EXCEPT ![lfCloser.of] = @ \ {Head(q)}]
  BY DEF LifeInductive, LifeTypeOK, LifeCloseOne, LifeRest
<1>2. Tail(q) \in Seq(LifeBuilding) /\ Len(q) \in Nat /\ Len(q) >= 1 /\ Len(Tail(q)) = Len(q) - 1
      /\ Head(q) = q[1] /\ \A i \in 1 .. Len(q) - 1 : Tail(q)[i] = q[i + 1]
  BY <1>1
<1> HIDE DEF q
<1> USE DEF LifeInductive, LifeWork
<1>3. LifeTypeOK'
  <2>1. lfCloser' \in [of : LifeTasks \cup {LifeNone, "idle"}, left : Seq(LifeBuilding)]
    BY <1>1, <1>2 DEF LifeTypeOK
  <2>2. lfUp' \in [LifeTasks -> SUBSET (LifeBuilding \cup {"loop"})]
    BY <1>1 DEF LifeTypeOK
  <2> QED
    BY <2>1, <2>2 DEF LifeTypeOK, LifeCloseOne
<1>4. LifeWorking' /\ LifeReferred'
  BY DEF LifeTypeOK, LifeWorking, LifeReferred, LifeCloseOne
<1>5. LifeTaken'
  <2>1. ASSUME lfCloser.of \in LifeTasks
        PROVE  /\ Tail(q) # <<>> /\ Tail(q)[Len(Tail(q))] = "manager"
               /\ \A s \in lfUp[lfCloser.of] \ {Head(q)} : s = "loop" \/ \E i \in DOMAIN Tail(q) : Tail(q)[i] = s
    <3>1. q[Len(q)] = "manager" /\ \A s \in lfUp[lfCloser.of] : s = "loop" \/ \E i \in 1 .. Len(q) : q[i] = s
      BY <1>1, <2>1 DEF LifeTaken, q
    <3>2. Len(q) > 1
      BY <1>1, <1>2, <3>1
    <3>3. Tail(q) # <<>> /\ Tail(q)[Len(Tail(q))] = "manager"
      BY <1>2, <3>1, <3>2
    <3>4. ASSUME NEW s \in lfUp[lfCloser.of] \ {Head(q)}, s # "loop"
          PROVE  \E i \in 1 .. Len(Tail(q)) : Tail(q)[i] = s
      <4>1. PICK i \in 1 .. Len(q) : q[i] = s
        BY <3>1, <3>4
      <4>2. i # 1
        BY <1>2, <3>4, <4>1
      <4>3. i - 1 \in 1 .. Len(q) - 1 /\ (i - 1) + 1 = i
        BY <1>2, <4>1, <4>2
      <4>4. Tail(q)[i - 1] = s
        BY <1>2, <4>1, <4>3
      <4> QED
        BY <1>2, <4>3, <4>4
    <3>5. DOMAIN Tail(q) = 1 .. Len(Tail(q))
      BY <1>2
    <3> QED
      BY <3>3, <3>4, <3>5
  <2>2. lfCloser # LifeIdle
    BY <1>1 DEF LifeIdle, q
  <2>3. lfCloser'.of = lfCloser.of /\ lfCloser'.left = Tail(q)
    BY <1>1
  <2>4. \A g \in LifeTasks : lfUp'[g] = IF g = lfCloser.of THEN lfUp[g] \ {Head(q)} ELSE lfUp[g]
    BY <1>1 DEF LifeTypeOK
  <2>5. lfManager' = lfManager /\ lfPc' = lfPc /\ lfGone' = lfGone
    BY DEF LifeCloseOne
  <2>6. lfCloser'.of \in LifeTasks \cup {LifeNone}
    BY <2>2, <2>3 DEF LifeTaken
  <2>7. ASSUME lfCloser'.of \in LifeTasks
        PROVE  /\ lfManager' # lfCloser'.of /\ lfPc'[lfCloser'.of] \notin LifeUnbuilt
               /\ lfCloser'.left # <<>> /\ lfCloser'.left[Len(lfCloser'.left)] = "manager"
               /\ \A s \in lfUp'[lfCloser'.of] :
                    s = "loop" \/ \E i \in DOMAIN lfCloser'.left : lfCloser'.left[i] = s
    <3>1. lfManager' # lfCloser'.of /\ lfPc'[lfCloser'.of] \notin LifeUnbuilt
      BY <2>3, <2>5, <2>7 DEF LifeTaken
    <3>2. lfUp'[lfCloser'.of] = lfUp[lfCloser.of] \ {Head(q)}
      BY <2>3, <2>4, <2>7
    <3> QED
      BY <2>1, <2>3, <2>7, <3>1, <3>2
  <2>8. \A g \in lfGone' : lfPc'[g] \notin LifeUnbuilt /\ lfUp'[g] \subseteq {"loop"} /\ g # lfManager'
    <3>1. \A g \in LifeTasks : lfUp'[g] \subseteq lfUp[g]
      BY <2>4
    <3> QED
      BY <2>5, <3>1 DEF LifeTypeOK, LifeTaken
  <2> QED
    BY <2>6, <2>7, <2>8 DEF LifeTaken
<1> QED
  BY <1>3, <1>4, <1>5

LEMMA ClosedStep == ASSUME LifeInductive, LifeClosed PROVE LifeInductive'
<1> USE DEF LifeInductive, LifeWork
<1>1. lfCloser.of \in LifeTasks \cup {LifeNone} /\ lfCloser' = LifeIdle
  BY DEF LifeClosed, LifeTaken
<1>2. lfGone' = lfGone \cup ({lfCloser.of} \ {LifeNone})
  BY DEF LifeClosed
<1>3. \A g \in LifeTasks : lfUp'[g] \subseteq lfUp[g]
  BY DEF LifeClosed, LifeTypeOK
<1>4. ASSUME lfCloser.of \in LifeTasks
      PROVE  lfUp'[lfCloser.of] \subseteq {"loop"}
  <2>1. lfCloser.left = <<"manager">> /\ lfUp' = [lfUp EXCEPT ![lfCloser.of] = @ \ {"manager"}]
    BY <1>4 DEF LifeClosed, LifeTaken
  <2>2. \A s \in lfUp[lfCloser.of] : s = "loop" \/ s = "manager"
    BY <1>4, <2>1 DEF LifeTaken
  <2> QED
    BY <1>4, <2>1, <2>2 DEF LifeTypeOK
<1>5. LifeTypeOK'
  <2>1. LifeIdle \in [of : LifeTasks \cup {LifeNone, "idle"}, left : Seq(LifeBuilding)]
    BY DEF LifeIdle
  <2>2. lfUp' \in [LifeTasks -> SUBSET (LifeBuilding \cup {"loop"})]
    BY DEF LifeClosed, LifeTypeOK
  <2>3. lfGone' \subseteq LifeTasks
    BY <1>1, <1>2 DEF LifeTypeOK
  <2> QED
    BY <1>1, <2>1, <2>2, <2>3 DEF LifeClosed, LifeTypeOK
<1>6. LifeWorking' /\ LifeReferred'
  BY DEF LifeClosed, LifeTypeOK, LifeWorking, LifeReferred
<1>7. LifeTaken'
  <2>1. lfCloser'.of \notin LifeTasks
    BY <1>1, LifeConstants DEF LifeIdle
  <2>2. lfManager' = lfManager /\ lfPc' = lfPc
    BY DEF LifeClosed
  <2>3. \A g \in lfGone : g \in LifeTasks /\ lfUp'[g] \subseteq {"loop"}
    BY <1>3 DEF LifeTaken, LifeTypeOK
  <2> QED
    BY <1>1, <1>2, <1>4, <2>1, <2>2, <2>3 DEF LifeTaken
<1> QED
  BY <1>5, <1>6, <1>7

-----------------------------------------------------------------------------
(* The manager and its mailboxes.                                          *)
LEMMA MgrCloseStep == ASSUME LifeInductive, NEW g \in LifeTasks, LifeMgrClose(g) PROVE LifeInductive'
<1> USE DEF LifeInductive, LifeMgrClose, LifeWork, LifeBridge, LifeStopping
<1>1. LifeTypeOK'
  <2>1. lfMgr' \in [LifeTasks -> LifeManagers]
    BY DEF LifeTypeOK, LifeManagers
  <2>2. \A b \in LifeBoxes : [lfBox[g] EXCEPT ![b] = "ending"] \in LifeMailboxes
    BY DEF LifeTypeOK, LifeMailboxes
  <2>3. lfBox' \in [LifeTasks -> LifeMailboxes]
    BY <2>2 DEF LifeTypeOK, LifeBoxes
  <2> QED
    BY <2>1, <2>3 DEF LifeTypeOK
<1>2. LifeWorking'
  <2>1. CASE lfMgr[g] = "open" /\ lfMgr' = [lfMgr EXCEPT ![g] = "closing"] /\ UNCHANGED lfBox
    BY <2>1 DEF LifeTypeOK, LifeWorking
  <2>2. CASE /\ lfMgr[g] = "closing" /\ LifeDrained(g) /\ lfMgr' = [lfMgr EXCEPT ![g] = "actors"]
             /\ lfBox' = [lfBox EXCEPT ![g]["actor"] = "ending"]
    BY <2>2 DEF LifeTypeOK, LifeWorking, LifeDrained, LifeInside
  <2>3. CASE /\ lfMgr[g] = "actors" /\ lfMgr' = [lfMgr EXCEPT ![g] = "persona"]
             /\ lfBox' = [lfBox EXCEPT ![g]["persona"] = "ending"]
    BY <2>3 DEF LifeTypeOK, LifeWorking
  <2>4. CASE lfMgr[g] = "persona" /\ lfMgr' = [lfMgr EXCEPT ![g] = "down"] /\ UNCHANGED lfBox
    BY <2>4 DEF LifeTypeOK, LifeWorking
  <2> QED
    BY <2>1, <2>2, <2>3, <2>4
<1>3. LifeReferred'
  BY DEF LifeTypeOK, LifeReferred, LifeTaken, LifeUnbuilt
<1>4. LifeTaken'
  BY DEF LifeTaken
<1> QED
  BY <1>1, <1>2, <1>3, <1>4

LEMMA BoxStopStep ==
  ASSUME LifeInductive, NEW g \in LifeTasks, NEW b \in LifeBoxes, LifeBoxStop(g, b) PROVE LifeInductive'
<1> USE DEF LifeInductive, LifeBoxStop, LifeWork, LifeBridge
<1>1. LifeTypeOK'
  <2>1. [lfBox[g] EXCEPT ![b] = "down"] \in LifeMailboxes
    BY DEF LifeTypeOK, LifeMailboxes
  <2> QED
    BY <2>1 DEF LifeTypeOK
<1>2. LifeWorking'
  BY DEF LifeTypeOK, LifeWorking, LifeMailboxes
<1>3. LifeReferred' /\ LifeTaken'
  BY DEF LifeReferred, LifeTaken
<1> QED
  BY <1>1, <1>2, <1>3

-----------------------------------------------------------------------------
(* The calls that use a manager.                                           *)
LEMMA UseStep ==
  ASSUME LifeInductive, NEW t \in LifeTasks, LifeBegin(t) \/ LifeAsk(t) \/ LifeAnswer(t) \/ LifeEnd(t)
  PROVE  LifeInductive'
<1> USE DEF LifeInductive, LifeGoto, LifeBridge
<1>1. CASE LifeBegin(t)
  <2>1. LifeTypeOK'
    BY <1>1 DEF LifeBegin, LifeTypeOK
  <2>2. LifeWorking'
    BY <1>1 DEF LifeBegin, LifeTypeOK, LifeWorking
  <2>3. LifeReferred' /\ LifeTaken'
    BY <1>1 DEF LifeBegin, LifeTypeOK, LifeReferred, LifeTaken, LifeUnbuilt
  <2> QED
    BY <2>1, <2>2, <2>3
<1>2. CASE LifeAsk(t)
  <2>1. LifeTypeOK'
    BY <1>2 DEF LifeAsk, LifeTypeOK, LifeBoxes
  <2>2. LifeWorking'
    <3>1. PICK b \in LifeBoxes :
            /\ lfAsks' = [lfAsks EXCEPT ![t] = b] /\ b # LifeNone
            /\ lfLate' = IF lfBox[lfUses[t]][b] = "ending" THEN lfLate \cup {t} ELSE lfLate
      BY <1>2 DEF LifeAsk, LifeBoxes, LifeNone
    <3>2. lfPc[t] = "inside" => lfBox[lfUses[t]][b] = "up"
      BY DEF LifeWorking
    <3> QED
      BY <1>2, <3>1, <3>2 DEF LifeAsk, LifeTypeOK, LifeWorking
  <2>3. LifeReferred' /\ LifeTaken'
    BY <1>2 DEF LifeAsk, LifeReferred, LifeTaken
  <2> QED
    BY <2>1, <2>2, <2>3
<1>3. CASE LifeAnswer(t)
  <2>1. LifeTypeOK'
    BY <1>3 DEF LifeAnswer, LifeTypeOK
  <2>2. LifeWorking'
    BY <1>3 DEF LifeAnswer, LifeTypeOK, LifeWorking
  <2>3. LifeReferred' /\ LifeTaken'
    BY <1>3 DEF LifeAnswer, LifeReferred, LifeTaken
  <2> QED
    BY <2>1, <2>2, <2>3
<1>4. CASE LifeEnd(t)
  <2>1. LifeTypeOK'
    BY <1>4 DEF LifeEnd, LifeTypeOK
  <2>2. LifeWorking'
    BY <1>4 DEF LifeEnd, LifeTypeOK, LifeWorking
  <2>3. LifeReferred' /\ LifeTaken'
    BY <1>4 DEF LifeEnd, LifeTypeOK, LifeReferred, LifeTaken, LifeUnbuilt
  <2> QED
    BY <2>1, <2>2, <2>3
<1> QED
  BY <1>1, <1>2, <1>3, <1>4

LEMMA LifeStep == LifeInductive /\ [LifeNext]_lfVars => LifeInductive'
<1> SUFFICES ASSUME LifeInductive, [LifeNext]_lfVars PROVE LifeInductive'
  OBVIOUS
<1>1. CASE UNCHANGED lfVars
  BY <1>1 DEF lfVars, LifeInductive, LifeTypeOK, LifeWorking, LifeReferred, LifeTaken
<1>2. CASE LifeNext
  BY <1>2, StartStep, ServeStep, ServedStep, LoopEndsStep, FailStep, CloseStep, CloseOneStep,
     ClosedStep, MgrCloseStep, BoxStopStep, UseStep DEF LifeNext
<1> QED
  BY <1>1, <1>2

LEMMA LifeAlways == LifeSpec => []LifeInductive
  BY LifeStarts, LifeStep, PTL DEF LifeSpec

-----------------------------------------------------------------------------
(* Every value of the starting and stopping runtime keeps its type.        *)
THEOREM LifeTypes == LifeSpec => []LifeTypeOK
<1>1. LifeInductive => LifeTypeOK
  BY DEF LifeInductive
<1> QED
  BY <1>1, LifeAlways, PTL

(* However many calls start, use and take down the services at once: no    *)
(* drain waits for a mailbox that has stopped, the bridge refers to no     *)
(* manager on its way down, and a terminate leaves nothing running of the  *)
(* generation it took (manager.py, astrbot_bridge.py).                     *)
THEOREM LifeStaysSound == LifeSpec => []LifeSound
  BY LifeAlways, LifeInductiveIsSound, PTL

----------------------------------------------------------------------------
(***************************************************************************)
(* Theorems about the gate before a group is handed over, for any groups,  *)
(* tokens, evidence and minimum times.                                     *)
(***************************************************************************)

(***************************************************************************)
(* The inductive invariant.  A report that passed says why; the token of a *)
(* handoff is used up; a rollout that ever began was handed over, and it   *)
(* is in its phase since a moment that has passed.                         *)
(***************************************************************************)
RdReportsAreTrue ==
  \A r \in rdReports : r.passed => /\ r.evidence # RdNone
                                   /\ RdSound[r.evidence] /\ RdAbout[r.evidence] = r.config
RdBooks ==
  /\ \A x \in rdHandoffs : x.at <= rdNow /\ rdToken[x.token].state = "consumed"
  /\ \A g \in RdGroups : rdRollout[g].phase # 0 => rdRollout[g].since <= rdNow /\ \E x \in rdHandoffs : x.group = g
RdInductive ==
  RdTypeOK /\ RdReportsAreTrue /\ RdBooks /\ RdHandoffIsProven /\ RdHandoffIsOwn /\ RdNoShortcut

LEMMA ChatLeast ==
  ASSUME NEW S \in SUBSET Nat, S # {}
  PROVE  Min(S) \in S /\ \A m \in S : Min(S) <= m
<1>1. PICK n \in S : \A m \in S : ~(<<m, n>> \in OpToRel(<, Nat))
  BY NatLessThanWellFounded, WFMin
<1>2. \A m \in S : ~(m < n)
  BY <1>1 DEF OpToRel
<1>3. \A m \in S : n <= m
  BY <1>2
<1> QED
  BY <1>3 DEF Min

LEMMA ChatGreatest ==
  ASSUME NEW S \in SUBSET Nat, S # {}, NEW n \in Nat, \A m \in S : m <= n
  PROVE  Max(S) \in S /\ \A m \in S : m <= Max(S)
<1> DEFINE T == {n - m : m \in S}
<1>1. \A m \in S : m \in Nat /\ m <= n
  OBVIOUS
<1>2. \A m \in S : n - m \in Nat /\ n - m \in T
  BY <1>1
<1>3. T \in SUBSET Nat
  BY <1>2
<1>4. T # {}
  <2>1. PICK m \in S : TRUE
    OBVIOUS
  <2> QED
    BY <2>1, <1>2
<1>5. Min(T) \in T /\ \A t \in T : Min(T) <= t
  <2> HIDE DEF T
  <2> QED
    BY <1>3, <1>4, ChatLeast
<1>6. PICK x \in S : Min(T) = n - x
  BY <1>5
<1>7. \A m \in S : n - x <= n - m
  BY <1>2, <1>5, <1>6
<1> HIDE DEF T
<1>8. ASSUME NEW m \in S PROVE m <= x
  <2>1. n - x <= n - m
    BY <1>7
  <2>2. m \in Nat /\ x \in Nat
    BY <1>1
  <2> QED
    BY <2>1, <2>2
<1>9. \A m \in S : x >= m
  <2> TAKE m \in S
  <2>1. m <= x /\ m \in Nat /\ x \in Nat
    BY <1>1, <1>8
  <2> QED
    BY <2>1
<1>10. Max(S) \in S /\ \A m \in S : Max(S) >= m
  BY <1>9 DEF Max
<1>11. \A m \in S : m <= Max(S)
  <2> TAKE m \in S
  <2>1. Max(S) \in Nat /\ m \in Nat /\ Max(S) >= m
    BY <1>1, <1>10
  <2> QED
    BY <2>1
<1> QED
  BY <1>10, <1>11

\* The sums of the first minimum times.
LEMMA RdSums ==
  /\ RdLeast[0] = 0
  /\ \A n \in 1 .. 6 : RdLeast[n] = RdLeast[n - 1] + RdMinimum[n]
  /\ \A n \in 0 .. 6 : RdLeast[n] \in Nat
<1> DEFINE m(n) == RdMinimum[n]
           eq(f) == f = [n \in 0 .. 6 |-> IF n = 0 THEN 0 ELSE f[n - 1] + m(n)]
           sums == [n \in 0 .. 6 |-> IF n = 0 THEN 0 ELSE IF n = 1 THEN m(1) ELSE IF n = 2 THEN m(1) + m(2)
                      ELSE IF n = 3 THEN m(1) + m(2) + m(3) ELSE IF n = 4 THEN m(1) + m(2) + m(3) + m(4)
                      ELSE IF n = 5 THEN m(1) + m(2) + m(3) + m(4) + m(5)
                      ELSE m(1) + m(2) + m(3) + m(4) + m(5) + m(6)]
<1>1. Len(RdPhases) - 1 = 6
  BY DEF RdPhases
<1>2. \A n \in 1 .. 6 : m(n) \in Nat
  BY <1>1, RdConstants
<1>3. \A n \in 0 .. 6 : sums[n] = IF n = 0 THEN 0 ELSE sums[n - 1] + m(n)
  <2> HIDE DEF m
  <2>1. m(1) \in Nat /\ m(2) \in Nat /\ m(3) \in Nat /\ m(4) \in Nat /\ m(5) \in Nat /\ m(6) \in Nat
    BY <1>2
  <2> QED
    BY <2>1
<1>4. eq(sums)
  <2> HIDE DEF m
  <2>1. sums = [n \in 0 .. 6 |-> sums[n]]
    OBVIOUS
  <2> HIDE DEF sums
  <2> QED
    BY <2>1, <1>3
<1>5. RdLeast = CHOOSE f : eq(f)
  BY <1>1 DEF RdLeast
<1> HIDE DEF sums
<1>6. eq(RdLeast)
  <2> HIDE DEF eq
  <2> QED
    BY <1>4, <1>5
<1>7. RdLeast[0] = 0 /\ \A n \in 1 .. 6 : RdLeast[n] = RdLeast[n - 1] + m(n)
  BY <1>6
<1> HIDE DEF m, eq
<1>8. \A n \in 0 .. 6 : RdLeast[n] \in Nat
  <2>1. RdLeast[1] = RdLeast[0] + m(1) /\ RdLeast[2] = RdLeast[1] + m(2) /\ RdLeast[3] = RdLeast[2] + m(3)
    BY <1>7
  <2>2. RdLeast[4] = RdLeast[3] + m(4) /\ RdLeast[5] = RdLeast[4] + m(5) /\ RdLeast[6] = RdLeast[5] + m(6)
    BY <1>7
  <2>3. m(1) \in Nat /\ m(2) \in Nat /\ m(3) \in Nat /\ m(4) \in Nat /\ m(5) \in Nat /\ m(6) \in Nat
    BY <1>2
  <2> QED
    BY <2>1, <2>2, <2>3, <1>7
<1> QED
  BY <1>7, <1>8 DEF m

\* The last handoff of a group.
LEMMA RdHanded ==
  ASSUME RdTypeOK, RdBooks, NEW g \in RdGroups, \E x \in rdHandoffs : x.group = g
  PROVE  RdHandedAt(g) \in Nat /\ RdHandedAt(g) <= rdNow
<1> DEFINE S == {x.at : x \in {y \in rdHandoffs : y.group = g}}
<1>1. rdNow \in Nat /\ \A x \in rdHandoffs : x.at \in Nat /\ x.at <= rdNow
  BY RdConstants DEF RdTypeOK, RdBooks, RdAuditEntry
<1>2. S \in SUBSET Nat /\ S # {} /\ \A n \in S : n <= rdNow
  BY <1>1
<1>3. RdHandedAt(g) = Max(S)
  BY DEF RdHandedAt
<1> HIDE DEF S
<1>4. Max(S) \in S
  BY <1>1, <1>2, ChatGreatest
<1> QED
  BY <1>2, <1>3, <1>4

LEMMA RdStarts == RdInit => RdInductive
<1> SUFFICES ASSUME RdInit PROVE RdInductive
  OBVIOUS
<1>1. RdTypeOK
  BY RdConstants DEF RdInit, RdTypeOK, RdControlVersions, RdConfigVersions, RdRecorded, RdStates, RdNoRollout
<1>2. RdReportsAreTrue /\ RdBooks /\ RdHandoffIsProven /\ RdHandoffIsOwn
  BY DEF RdInit, RdReportsAreTrue, RdBooks, RdHandoffIsProven, RdHandoffIsOwn, RdNoRollout
<1>3. RdNoShortcut
  BY DEF RdInit, RdNoShortcut, RdNoRollout
<1> QED
  BY <1>1, <1>2, <1>3 DEF RdInductive

\* Steps that touch neither tokens nor the rollout.
LEMMA RdPrepares ==
  ASSUME RdInductive, RdTick \/ \E g \in RdGroups : RdPublish(g) \/ RdRecordEvidence(g) \/ RdEvaluate(g)
  PROVE  RdInductive'
<1>1. UNCHANGED <<rdToken, rdRollout, rdHandoffs>>
  BY DEF RdTick, RdPublish, RdRecordEvidence, RdEvaluate
<1>2. rdNow \in Nat /\ rdNow' \in Nat /\ rdNow <= rdNow' /\ rdNow' \in 0 .. RdLastTime
  <2>1. rdNow \in 0 .. RdLastTime /\ RdLastTime \in Nat
    BY RdConstants DEF RdInductive, RdTypeOK
  <2>2. CASE rdNow' = rdNow
    BY <2>1, <2>2
  <2>3. CASE rdNow < RdLastTime /\ rdNow' = rdNow + 1
    BY <2>1, <2>3
  <2> QED
    BY <2>2, <2>3 DEF RdTick, RdPublish, RdRecordEvidence, RdEvaluate
<1>3. rdVersion' \in RdControlVersions /\ rdConfig' \in RdConfigVersions
  <2>1. rdVersion \in RdControlVersions /\ rdConfig \in RdConfigVersions
    BY DEF RdInductive, RdTypeOK
  <2>2. CASE rdVersion' = rdVersion /\ rdConfig' = rdConfig
    BY <2>1, <2>2
  <2>3. ASSUME NEW g \in RdGroups, RdPublish(g) PROVE rdVersion' \in RdControlVersions /\ rdConfig' \in RdConfigVersions
    <3>1. rdVersion[g] + 1 \in 0 .. RdLastVersion
      BY <2>1, <2>3, RdConstants DEF RdPublish, RdControlVersions
    <3>2. rdConfig[g] + 1 \in 0 .. RdLastConfig
      BY <2>1, <2>3, RdConstants DEF RdPublish, RdConfigVersions
    <3> QED
      BY <2>1, <2>3, <3>1, <3>2 DEF RdPublish, RdControlVersions, RdConfigVersions
  <2> QED
    BY <2>2, <2>3 DEF RdTick, RdRecordEvidence, RdEvaluate
<1>4. rdEvidence' \in RdRecorded
  BY DEF RdTick, RdPublish, RdRecordEvidence, RdEvaluate, RdInductive, RdTypeOK, RdRecorded
<1>5. rdReports' \in SUBSET RdReportRecord /\ RdReportsAreTrue'
  <2>1. CASE rdReports' = rdReports
    BY <2>1 DEF RdInductive, RdTypeOK, RdReportsAreTrue
  <2>2. ASSUME NEW g \in RdGroups, RdEvaluate(g) PROVE rdReports' \in SUBSET RdReportRecord /\ RdReportsAreTrue'
    <3>1. PICK t \in RdTokens \cup {RdNone} : rdReports' = rdReports \cup {RdReport(g, t)}
      BY <2>2 DEF RdEvaluate, RdLatest, RdConfirmed
    <3>2. RdPasses(g, t) \in BOOLEAN
      BY DEF RdPasses
    <3>3. rdVersion[g] \in 0 .. RdLastVersion /\ rdConfig[g] \in 0 .. RdLastConfig /\ rdEvidence[g] \in RdEvidence \cup {RdNone}
      BY DEF RdInductive, RdTypeOK, RdControlVersions, RdConfigVersions, RdRecorded
    <3>4. RdReport(g, t) \in RdReportRecord
      BY <3>2, <3>3 DEF RdReport, RdReportRecord
    <3>5. RdReport(g, t).passed => /\ RdReport(g, t).evidence # RdNone /\ RdSound[RdReport(g, t).evidence]
                                   /\ RdAbout[RdReport(g, t).evidence] = RdReport(g, t).config
      BY DEF RdReport, RdPasses
    <3> QED
      BY <3>1, <3>4, <3>5 DEF RdInductive, RdTypeOK, RdReportsAreTrue
  <2> QED
    BY <2>1, <2>2 DEF RdTick, RdPublish, RdRecordEvidence
<1>6. RdTypeOK'
  BY <1>1, <1>2, <1>3, <1>4, <1>5 DEF RdInductive, RdTypeOK
<1>7. RdBooks'
  <2>1. \A x \in rdHandoffs : x.at \in Nat /\ x.at <= rdNow
    BY RdConstants DEF RdInductive, RdTypeOK, RdBooks, RdAuditEntry
  <2>2. \A g \in RdGroups : rdRollout[g].since \in Nat
    BY RdConstants DEF RdInductive, RdTypeOK, RdStates
  <2> QED
    BY <1>1, <1>2, <2>1, <2>2 DEF RdInductive, RdBooks
<1>8. RdHandoffIsProven' /\ RdHandoffIsOwn' /\ RdNoShortcut'
  BY <1>1 DEF RdInductive, RdHandoffIsProven, RdHandoffIsOwn, RdNoShortcut, RdHandedAt
<1> QED
  BY <1>5, <1>6, <1>7, <1>8 DEF RdInductive

LEMMA RdConfirms ==
  ASSUME RdInductive, NEW t \in RdTokens, RdConfirm(t)
  PROVE  RdInductive'
<1>1. PICK g \in RdGroups, o \in RdOperators, v \in 0 .. RdLastVersion, quiet \in BOOLEAN :
        rdToken' = [rdToken EXCEPT ![t] = [state |-> "ready", group |-> g, operator |-> o, version |-> v, quiet |-> quiet, at |-> rdNow]]
  BY DEF RdConfirm
<1>2. UNCHANGED <<rdNow, rdVersion, rdConfig, rdEvidence, rdReports, rdRollout, rdHandoffs>> /\ rdToken[t].state = "absent"
  BY DEF RdConfirm
<1>3. RdTypeOK'
  BY <1>1, <1>2 DEF RdInductive, RdTypeOK, RdConfirmation
<1>4. RdBooks'
  BY <1>1, <1>2 DEF RdInductive, RdTypeOK, RdBooks
<1>5. RdReportsAreTrue' /\ RdHandoffIsProven' /\ RdHandoffIsOwn' /\ RdNoShortcut'
  BY <1>2 DEF RdInductive, RdReportsAreTrue, RdHandoffIsProven, RdHandoffIsOwn, RdNoShortcut, RdHandedAt
<1> QED
  BY <1>3, <1>4, <1>5 DEF RdInductive

LEMMA RdAuthorizes ==
  ASSUME RdInductive, NEW g \in RdGroups, NEW o \in RdOperators, NEW t \in RdTokens, RdAuthorize(g, o, t)
  PROVE  RdInductive'
<1> DEFINE new == [group |-> g, token |-> t, at |-> rdNow, config |-> rdConfig[g], evidence |-> rdEvidence[g]]
<1>1. PICK r \in rdReports : RdReportServes(r, t, g)
  BY DEF RdAuthorize
<1>2. /\ rdToken' = [rdToken EXCEPT ![t].state = "consumed"]
      /\ rdRollout' = [rdRollout EXCEPT ![g] = [phase |-> 1, since |-> rdNow]]
      /\ rdVersion' = [rdVersion EXCEPT ![g] = @ + 1] /\ rdVersion[g] < RdLastVersion
      /\ rdHandoffs' = rdHandoffs \cup {new}
      /\ UNCHANGED <<rdNow, rdConfig, rdEvidence, rdReports>>
      /\ RdMayBegin(g) /\ rdToken[t].state = "ready"
  BY DEF RdAuthorize, RdTokenServes
<1>3. /\ RdTypeOK /\ RdBooks /\ RdReportsAreTrue /\ RdHandoffIsProven /\ RdHandoffIsOwn /\ RdNoShortcut
      /\ rdNow \in 0 .. RdLastTime /\ rdNow \in Nat
  BY RdConstants DEF RdInductive, RdTypeOK
<1>4. /\ rdEvidence[g] # RdNone /\ RdSound[rdEvidence[g]] /\ RdAbout[rdEvidence[g]] = rdConfig[g]
  BY <1>1, <1>3 DEF RdReportServes, RdReportsAreTrue
<1>5. rdEvidence[g] \in RdEvidence /\ rdConfig[g] \in 0 .. RdLastConfig
  BY <1>3, <1>4 DEF RdTypeOK, RdRecorded, RdConfigVersions
<1>6. new \in RdAuditEntry
  BY <1>3, <1>5 DEF RdAuditEntry
<1>7. rdToken[t] \in RdConfirmation
  BY <1>2, <1>3 DEF RdTypeOK, RdUnused
<1>8. /\ rdToken' \in [RdTokens -> {RdUnused} \cup RdConfirmation] /\ rdToken'[t].state = "consumed"
      /\ \A u \in RdTokens \ {t} : rdToken'[u] = rdToken[u]
  <2>1. PICK used : used = [rdToken[t] EXCEPT !.state = "consumed"]
    OBVIOUS
  <2>2. used \in RdConfirmation /\ used.state = "consumed"
    BY <1>7, <2>1 DEF RdConfirmation
  <2>3. rdToken' = [rdToken EXCEPT ![t] = used] /\ rdToken \in [RdTokens -> {RdUnused} \cup RdConfirmation]
    BY <1>2, <1>3, <2>1 DEF RdTypeOK
  <2> QED
    BY <2>2, <2>3
<1>9. /\ rdRollout' \in RdStates /\ rdRollout'[g] = [phase |-> 1, since |-> rdNow]
      /\ \A h \in RdGroups \ {g} : rdRollout'[h] = rdRollout[h]
  BY <1>2, <1>3 DEF RdTypeOK, RdStates
<1>10. RdTypeOK'
  <2>1. rdVersion' \in RdControlVersions
    BY <1>2, <1>3, RdConstants DEF RdTypeOK, RdControlVersions
  <2> QED
    BY <2>1, <1>2, <1>3, <1>6, <1>8, <1>9 DEF RdTypeOK
<1>11. RdBooks'
  <2>1. \A x \in rdHandoffs : x.token \in RdTokens
    BY <1>3 DEF RdTypeOK, RdAuditEntry
  <2>2. \A x \in rdHandoffs' : x.at <= rdNow' /\ rdToken'[x.token].state = "consumed"
    BY <1>2, <1>3, <1>8, <2>1 DEF RdBooks
  <2>3. new \in rdHandoffs' /\ new.group = g
    BY <1>2
  <2> HIDE DEF new
  <2>4. \A h \in RdGroups : rdRollout'[h].phase # 0 => rdRollout'[h].since <= rdNow' /\ \E x \in rdHandoffs' : x.group = h
    BY <1>2, <1>3, <1>9, <2>3 DEF RdBooks
  <2> QED
    BY <2>2, <2>4 DEF RdBooks
<1>12. RdHandoffIsProven' /\ RdReportsAreTrue'
  BY <1>2, <1>3, <1>4 DEF RdHandoffIsProven, RdReportsAreTrue
<1>13. RdHandoffIsOwn'
  <2>1. \A x \in rdHandoffs : x.token # new.token /\ x.at <= rdNow
    BY <1>2, <1>3 DEF RdBooks
  <2>2. \E y \in rdHandoffs' : y.group = RdFirst /\ y.at <= new.at
    <3>1. CASE g = RdFirst
      <4>1. new \in rdHandoffs' /\ new.group = g /\ new.at = rdNow
        BY <1>2
      <4> HIDE DEF new
      <4> QED
        BY <3>1, <4>1, <1>3
    <3>2. CASE RdActive # {}
      <4>1. PICK h \in RdGroups : rdRollout[h].phase # 0
        BY <3>2 DEF RdActive
      <4>2. PICK x \in rdHandoffs : x.group = h
        BY <4>1, <1>3 DEF RdBooks
      <4>3. PICK y \in rdHandoffs : y.group = RdFirst /\ y.at <= x.at
        BY <4>2, <1>3 DEF RdHandoffIsOwn
      <4> QED
        BY <4>3, <2>1, <1>2
    <3> QED
      BY <3>1, <3>2, <1>2 DEF RdMayBegin
  <2>3. \A x, y \in rdHandoffs' : x.token = y.token => x = y
    <3> HIDE DEF new
    <3> QED
      BY <2>1, <1>2, <1>3 DEF RdHandoffIsOwn
  <2>4. \A x \in rdHandoffs' : \E y \in rdHandoffs' : y.group = RdFirst /\ y.at <= x.at
    <3> HIDE DEF new
    <3> QED
      BY <2>2, <1>2, <1>3 DEF RdHandoffIsOwn
  <2> QED
    BY <2>3, <2>4 DEF RdHandoffIsOwn
<1>14. RdNoShortcut'
  <2> SUFFICES ASSUME NEW h \in RdGroups, rdRollout'[h].phase \in 1 .. Len(RdPhases)
               PROVE  rdRollout'[h].since - RdHandedAt(h)' >= RdLeast[rdRollout'[h].phase - 1]
    BY DEF RdNoShortcut
  <2>1. CASE h = g
    <3> DEFINE S == {x.at : x \in {y \in rdHandoffs' : y.group = g}}
    <3>1. new \in rdHandoffs' /\ new.group = g /\ new.at = rdNow /\ \A x \in rdHandoffs' : x.at \in Nat /\ x.at <= rdNow
      BY <1>2, <1>3, <1>10, <1>11, RdConstants DEF RdTypeOK, RdBooks, RdAuditEntry
    <3> HIDE DEF new
    <3>2. rdNow \in S /\ S \in SUBSET Nat /\ \A m \in S : m <= rdNow
      BY <3>1
    <3>3. RdHandedAt(h)' = Max(S)
      BY <2>1 DEF RdHandedAt
    <3> HIDE DEF S
    <3>4. Max(S) = rdNow
      <4>1. Max(S) \in S /\ \A m \in S : m <= Max(S)
        BY <3>2, <1>3, ChatGreatest
      <4>2. Max(S) \in Nat /\ Max(S) <= rdNow /\ rdNow <= Max(S)
        BY <3>2, <4>1
      <4> QED
        BY <4>2, <1>3
    <3> QED
      BY <3>3, <3>4, <2>1, <1>3, <1>9, RdSums
  <2>2. CASE h # g
    <3>1. {y \in rdHandoffs' : y.group = h} = {y \in rdHandoffs : y.group = h}
      BY <2>2, <1>2
    <3>2. RdHandedAt(h)' = RdHandedAt(h) /\ rdRollout'[h] = rdRollout[h]
      BY <2>2, <3>1, <1>9 DEF RdHandedAt
    <3> QED
      BY <3>2, <1>3 DEF RdNoShortcut
  <2> QED
    BY <2>1, <2>2
<1> QED
  BY <1>10, <1>11, <1>12, <1>13, <1>14 DEF RdInductive

LEMMA RdAdvances ==
  ASSUME RdInductive, NEW g \in RdGroups, RdAdvance(g)
  PROVE  RdInductive'
<1> DEFINE n == rdRollout[g].phase
<1>1. /\ rdRollout' = [rdRollout EXCEPT ![g] = [phase |-> n + 1, since |-> rdNow]]
      /\ rdVersion' = [rdVersion EXCEPT ![g] = @ + 1] /\ rdVersion[g] < RdLastVersion
      /\ n \in 1 .. 6 /\ rdNow - rdRollout[g].since >= RdMinimum[n]
      /\ UNCHANGED <<rdNow, rdConfig, rdEvidence, rdToken, rdReports, rdHandoffs>>
  BY DEF RdAdvance, RdWaited, RdPhases
<1>2. /\ RdTypeOK /\ RdBooks /\ RdReportsAreTrue /\ RdHandoffIsProven /\ RdHandoffIsOwn /\ RdNoShortcut
      /\ rdNow \in 0 .. RdLastTime /\ rdNow \in Nat /\ rdRollout \in RdStates /\ rdRollout[g].since \in Nat
  BY RdConstants DEF RdInductive, RdTypeOK, RdStates
<1>3. RdTypeOK'
  <2>1. rdVersion' \in RdControlVersions
    BY <1>1, <1>2, RdConstants DEF RdTypeOK, RdControlVersions
  <2>2. rdRollout' \in RdStates
    BY <1>1, <1>2 DEF RdStates
  <2> QED
    BY <2>1, <2>2, <1>1, <1>2 DEF RdTypeOK
<1>4. rdRollout'[g].phase = n + 1 /\ rdRollout'[g].since = rdNow /\ \A h \in RdGroups \ {g} : rdRollout'[h] = rdRollout[h]
  BY <1>1, <1>2 DEF RdStates
<1>5. \E x \in rdHandoffs : x.group = g
  BY <1>1, <1>2 DEF RdBooks
<1>6. RdBooks'
  BY <1>1, <1>2, <1>4, <1>5 DEF RdBooks
<1>7. RdNoShortcut'
  <2>1. RdHandedAt(g) \in Nat
    BY <1>2, <1>5, RdHanded
  <2>2. rdRollout[g].since - RdHandedAt(g) >= RdLeast[n - 1]
    BY <1>1, <1>2 DEF RdNoShortcut, RdPhases
  <2>3. RdLeast[n] = RdLeast[n - 1] + RdMinimum[n] /\ RdLeast[n] \in Nat /\ RdLeast[n - 1] \in Nat /\ RdMinimum[n] \in Nat
    <3>1. n - 1 \in 0 .. 6 /\ n \in 0 .. 6 /\ Len(RdPhases) - 1 = 6
      BY <1>1 DEF RdPhases
    <3> HIDE DEF n
    <3> QED
      BY <1>1, <3>1, RdSums, RdConstants
  <2> HIDE DEF n
  <2>4. rdNow - RdHandedAt(g) >= RdLeast[n]
    BY <2>1, <2>2, <2>3, <1>1, <1>2
  <2>6. (n + 1) - 1 = n
    BY <1>1
  <2> SUFFICES ASSUME NEW h \in RdGroups, rdRollout'[h].phase \in 1 .. Len(RdPhases)
               PROVE  rdRollout'[h].since - RdHandedAt(h)' >= RdLeast[rdRollout'[h].phase - 1]
    BY DEF RdNoShortcut
  <2>5. RdHandedAt(h)' = RdHandedAt(h)
    BY <1>1 DEF RdHandedAt
  <2>7. CASE h = g
    <3>1. rdRollout'[h].since = rdNow /\ rdRollout'[h].phase - 1 = n
      <4>1. rdRollout'[h].since = rdNow /\ rdRollout'[h].phase = n + 1
        BY <2>7, <1>4
      <4> QED
        BY <4>1, <2>6
    <3>2. RdHandedAt(h) = RdHandedAt(g)
      BY <2>7
    <3> QED
      BY <3>1, <3>2, <2>4, <2>5
  <2>8. CASE h # g
    <3>1. rdRollout'[h] = rdRollout[h] /\ RdHandedAt(h)' = RdHandedAt(h)
      BY <2>5, <2>8, <1>4
    <3> QED
      BY <3>1, <1>2 DEF RdNoShortcut
  <2> QED
    BY <2>7, <2>8
<1>8. RdReportsAreTrue' /\ RdHandoffIsProven' /\ RdHandoffIsOwn'
  BY <1>1, <1>2 DEF RdReportsAreTrue, RdHandoffIsProven, RdHandoffIsOwn
<1> QED
  BY <1>3, <1>6, <1>7, <1>8 DEF RdInductive

LEMMA RdObserves ==
  ASSUME RdInductive, NEW g \in RdGroups, RdObserve(g)
  PROVE  RdInductive'
<1>1. /\ rdRollout' = [rdRollout EXCEPT ![g] = [phase |-> 8, since |-> rdNow]] /\ rdRollout[g].phase # 0
      /\ UNCHANGED <<rdNow, rdVersion, rdConfig, rdEvidence, rdToken, rdReports, rdHandoffs>>
  BY DEF RdObserve, RdPaused
<1>2. /\ RdTypeOK /\ RdBooks /\ RdReportsAreTrue /\ RdHandoffIsProven /\ RdHandoffIsOwn /\ RdNoShortcut
      /\ rdNow \in 0 .. RdLastTime /\ rdNow \in Nat /\ rdRollout \in RdStates
  BY RdConstants DEF RdInductive, RdTypeOK
<1>3. rdRollout' \in RdStates /\ rdRollout'[g].phase = 8 /\ rdRollout'[g].since = rdNow /\ \A h \in RdGroups \ {g} : rdRollout'[h] = rdRollout[h]
  BY <1>1, <1>2 DEF RdStates
<1>4. RdTypeOK' /\ RdBooks'
  BY <1>1, <1>2, <1>3 DEF RdTypeOK, RdBooks
<1>5. RdReportsAreTrue' /\ RdHandoffIsProven' /\ RdHandoffIsOwn'
  BY <1>1, <1>2 DEF RdReportsAreTrue, RdHandoffIsProven, RdHandoffIsOwn
<1>6. RdNoShortcut'
  <2>1. \A h \in RdGroups : RdHandedAt(h)' = RdHandedAt(h)
    BY <1>1 DEF RdHandedAt
  <2>2. Len(RdPhases) = 7
    BY DEF RdPhases
  <2> QED
    BY <2>1, <2>2, <1>2, <1>3 DEF RdNoShortcut
<1> QED
  BY <1>4, <1>5, <1>6 DEF RdInductive

(***************************************************************************)
(* The theorems.                                                           *)
(***************************************************************************)
LEMMA RdStep == RdInductive /\ [RdNext]_rdVars => RdInductive'
<1> SUFFICES ASSUME RdInductive, [RdNext]_rdVars PROVE RdInductive'
  OBVIOUS
<1>1. CASE UNCHANGED rdVars
  BY <1>1 DEF rdVars, RdInductive, RdTypeOK, RdReportsAreTrue, RdBooks, RdHandoffIsProven, RdHandoffIsOwn, RdNoShortcut, RdHandedAt
<1>2. CASE RdTick \/ \E g \in RdGroups : RdPublish(g) \/ RdRecordEvidence(g) \/ RdEvaluate(g)
  BY <1>2, RdPrepares
<1>3. ASSUME NEW g \in RdGroups, RdAdvance(g) \/ RdObserve(g) PROVE RdInductive'
  BY <1>3, RdAdvances, RdObserves
<1>4. ASSUME NEW t \in RdTokens, RdConfirm(t) PROVE RdInductive'
  BY <1>4, RdConfirms
<1>5. ASSUME NEW g \in RdGroups, NEW o \in RdOperators, NEW t \in RdTokens, RdAuthorize(g, o, t) PROVE RdInductive'
  BY <1>5, RdAuthorizes
<1> QED
  BY <1>1, <1>2, <1>3, <1>4, <1>5 DEF RdNext

LEMMA RdAlways == RdSpec => []RdInductive
BY RdStarts, RdStep, PTL DEF RdSpec

\* The state of the gate, its reports and its tokens keeps its types.
THEOREM RdTypes == RdSpec => []RdTypeOK
<1>1. RdInductive => RdTypeOK
  BY DEF RdInductive
<1> QED
  BY <1>1, RdAlways, PTL

\* A group is handed over on evidence that is sound and about the configuration in force.
THEOREM RdHandoffsAreProven == RdSpec => []RdHandoffIsProven
<1>1. RdInductive => RdHandoffIsProven
  BY DEF RdInductive
<1> QED
  BY <1>1, RdAlways, PTL

\* Each handoff uses up a confirmation of its own, and none is before the test group's.
THEOREM RdHandoffsAreOwn == RdSpec => []RdHandoffIsOwn
<1>1. RdInductive => RdHandoffIsOwn
  BY DEF RdInductive
<1> QED
  BY <1>1, RdAlways, PTL

\* No phase is reached before every earlier one lasted its minimum since the last handoff.
THEOREM RdNeverShortcuts == RdSpec => []RdNoShortcut
<1>1. RdInductive => RdNoShortcut
  BY DEF RdInductive
<1> QED
  BY <1>1, RdAlways, PTL

----------------------------------------------------------------------------
(***************************************************************************)
(* Theorems about the evaluation of frames at the shared gate, for any     *)
(* frames, calls and slots.                                                *)
(***************************************************************************)

(***************************************************************************)
(* The inductive invariant.  Every call that waits is in the queue once;   *)
(* a call has its end only when it is over or its evaluation gave it up;   *)
(* and a model was called only for a frame that asks for it, after the     *)
(* rule worker's call had ended.                                           *)
(***************************************************************************)
CogQueuedOnce == \A i, j \in DOMAIN cgQueue : cgQueue[i] = cgQueue[j] => i = j
CogEnded ==
  /\ \A c \in CogCalls : cgTask[c] # "over" => cgEnd[c] \in {"pending", "timeout"}
  /\ \A c \in CogCalls : c[2] = "model" /\ cgEnd[c] \notin {"pending", "timeout"} => cgSaid[c] = cgEnd[c]
CogAsked ==
  /\ \A f \in CogFrames :
       cgPc[f] # "cancelled" /\ (cgPc[f] = "model" \/ cgTask[<<f, "model">>] # "none" \/ cgEnd[<<f, "model">>] # "pending")
         => f \in CogKnown
  /\ \A f \in CogFrames : cgPc[f] \in {"model", "deciding", "judged", "accepted", "stale"} => cgEnd[<<f, "rule">>] # "pending"
  /\ \A f \in CogFrames : cgOutcome[f] # "none" => cgPc[f] \in {"judged", "accepted", "stale"}
CogInductive == CogTypeOK /\ CogGateKept /\ CogQueuedOnce /\ CogEnded /\ CogAsked /\ CogSpeaksOnVerdict

(***************************************************************************)
(* The queue: one element in, one element out, and its head.               *)
(***************************************************************************)
CogIn(q) == {q[i] : i \in DOMAIN q}
CogApart(q) == \A i, j \in DOMAIN q : q[i] = q[j] => i = j

LEMMA CogTakenOut ==
  ASSUME NEW S, NEW q \in Seq(S), NEW i \in DOMAIN q
  PROVE  /\ RemoveAt(q, i) \in Seq(S) /\ Len(RemoveAt(q, i)) = Len(q) - 1
         /\ \A j \in 1 .. Len(q) - 1 : RemoveAt(q, i)[j] = IF j < i THEN q[j] ELSE q[j + 1]
<1> DEFINE left == SubSeq(q, 1, i - 1)
           right == SubSeq(q, i + 1, Len(q))
<1>1. i \in 1 .. Len(q) /\ Len(q) \in Nat
  OBVIOUS
<1>2. left \in Seq(S) /\ Len(left) = i - 1 /\ \A j \in 1 .. i - 1 : left[j] = q[j]
  BY <1>1
<1>3. right \in Seq(S) /\ Len(right) = Len(q) - i /\ \A j \in 1 .. Len(q) - i : right[j] = q[j + i]
  BY <1>1
<1> HIDE DEF left, right
<1>4. RemoveAt(q, i) = left \o right
  BY DEF RemoveAt, left, right
<1>5. /\ left \o right \in Seq(S) /\ Len(left \o right) = Len(left) + Len(right)
      /\ \A j \in 1 .. Len(left) + Len(right) : (left \o right)[j] = IF j <= Len(left) THEN left[j] ELSE right[j - Len(left)]
  BY <1>2, <1>3, ConcatProperties
<1>6. Len(left) + Len(right) = Len(q) - 1
  BY <1>1, <1>2, <1>3
<1>7. ASSUME NEW j \in 1 .. Len(q) - 1 PROVE (left \o right)[j] = IF j < i THEN q[j] ELSE q[j + 1]
  <2>0. (left \o right)[j] = IF j <= Len(left) THEN left[j] ELSE right[j - Len(left)]
    BY <1>5, <1>6
  <2>1. CASE j < i
    <3>1. j \in 1 .. i - 1 /\ j <= Len(left)
      BY <2>1, <1>1, <1>2
    <3> QED
      BY <3>1, <2>0, <2>1, <1>2
  <2>2. CASE ~(j < i)
    <3>1. j - Len(left) \in 1 .. Len(q) - i /\ ~(j <= Len(left)) /\ (j - Len(left)) + i = j + 1
      BY <2>2, <1>1, <1>2
    <3> QED
      BY <3>1, <2>0, <2>2, <1>3
  <2> QED
    BY <2>1, <2>2
<1> QED
  BY <1>4, <1>5, <1>6, <1>7

\* A call taken out of a queue it was in once is gone, and the others stay.
LEMMA CogOut ==
  ASSUME NEW q \in Seq(CogCalls), CogApart(q), NEW c
  PROVE  /\ CogWithout(q, c) \in Seq(CogCalls) /\ CogApart(CogWithout(q, c))
         /\ CogIn(CogWithout(q, c)) = CogIn(q) \ {c}
<1>1. CASE ~\E i \in DOMAIN q : q[i] = c
  BY <1>1 DEF CogWithout, CogIn
<1>2. CASE \E i \in DOMAIN q : q[i] = c
  <2> DEFINE i == CHOOSE n \in DOMAIN q : q[n] = c
             r == RemoveAt(q, i)
             at(n) == IF n < i THEN n ELSE n + 1
  <2>1. i \in DOMAIN q /\ q[i] = c
    BY <1>2
  <2>2. CogWithout(q, c) = r
    BY <1>2 DEF CogWithout
  <2> HIDE DEF i
  <2>3. r \in Seq(CogCalls) /\ Len(r) = Len(q) - 1 /\ \A n \in 1 .. Len(q) - 1 : r[n] = IF n < i THEN q[n] ELSE q[n + 1]
    BY <2>1, CogTakenOut
  <2> HIDE DEF r
  <2>4. i \in 1 .. Len(q) /\ Len(q) \in Nat /\ DOMAIN q = 1 .. Len(q) /\ DOMAIN r = 1 .. Len(q) - 1
    BY <2>1, <2>3
  <2>5. \A n \in DOMAIN r : at(n) \in DOMAIN q /\ at(n) # i /\ r[n] = q[at(n)]
    BY <2>3, <2>4
  <2>6. \A n \in DOMAIN q : n # i => \E m \in DOMAIN r : at(m) = n
    <3> TAKE n \in DOMAIN q
    <3>1. CASE n < i
      BY <3>1, <2>4
    <3>2. CASE n > i
      <4>1. n - 1 \in DOMAIN r /\ at(n - 1) = n
        BY <3>2, <2>4
      <4> QED
        BY <4>1
    <3> QED
      BY <3>1, <3>2, <2>4
  <2>7. \A m, n \in DOMAIN r : at(m) = at(n) => m = n
    BY <2>4
  <2> HIDE DEF at
  <2>8. CogApart(r)
    BY <2>5, <2>7 DEF CogApart
  <2>9. CogIn(r) \subseteq CogIn(q) \ {c}
    BY <2>1, <2>5 DEF CogIn, CogApart
  <2>10. CogIn(q) \ {c} \subseteq CogIn(r)
    BY <2>1, <2>5, <2>6 DEF CogIn
  <2> QED
    BY <2>2, <2>3, <2>8, <2>9, <2>10
<1> QED
  BY <1>1, <1>2

LEMMA CogAppended ==
  ASSUME NEW q \in Seq(CogCalls), CogApart(q), NEW c \in CogCalls, c \notin CogIn(q)
  PROVE  /\ Append(q, c) \in Seq(CogCalls) /\ CogApart(Append(q, c))
         /\ CogIn(Append(q, c)) = CogIn(q) \cup {c}
<1> DEFINE r == Append(q, c)
<1>1. r \in Seq(CogCalls) /\ DOMAIN r = 1 .. Len(q) + 1 /\ DOMAIN q = 1 .. Len(q) /\ Len(q) \in Nat
  OBVIOUS
<1>2. r[Len(q) + 1] = c /\ \A i \in DOMAIN q : r[i] = q[i]
  OBVIOUS
<1> HIDE DEF r
<1>3. \A i \in DOMAIN r : i = Len(q) + 1 \/ i \in DOMAIN q
  BY <1>1
<1>4. \A i \in DOMAIN q : i \in DOMAIN r /\ q[i] # c
  BY <1>1 DEF CogIn
<1>5. CogApart(r)
  BY <1>2, <1>3, <1>4 DEF CogApart
<1>6. Len(q) + 1 \in DOMAIN r
  BY <1>1
<1>7. CogIn(r) = CogIn(q) \cup {c}
  BY <1>2, <1>3, <1>4, <1>6 DEF CogIn
<1> QED
  BY <1>1, <1>5, <1>7 DEF r

LEMMA CogLeast ==
  ASSUME NEW S \in SUBSET Nat, S # {}
  PROVE  \E n \in S : \A m \in S : n <= m
BY ChatLeast

LEMMA CogRanked == \A c \in CogCalls : CogRank(c) \in Nat
<1> TAKE c \in CogCalls
<1>1. c[1] \in CogFrames
  BY DEF CogCalls
<1>2. \E i \in 1 .. 4 : CogLanes[i] = CogKind[c[1]]
  BY <1>1, CogConstants
<1> QED
  BY <1>2 DEF CogRank

\* What stands at the head of a queue is in it, and no call of a more urgent lane is.
LEMMA CogHeadIsUrgent ==
  ASSUME NEW q \in Seq(CogCalls), CogIn(q) # {}
  PROVE  /\ CogHead(q) \in CogIn(q)
         /\ \A d \in CogIn(q) : CogRank(CogHead(q)) <= CogRank(d)
<1> DEFINE rank(i) == CogRank(q[i])
           first(i) == \A j \in DOMAIN q : rank(i) < rank(j) \/ (rank(i) = rank(j) /\ i <= j)
           ranks == {rank(i) : i \in DOMAIN q}
<1>1. DOMAIN q \subseteq Nat /\ DOMAIN q # {} /\ \A i \in DOMAIN q : q[i] \in CogCalls
  BY DEF CogIn
<1>2. \A i \in DOMAIN q : rank(i) \in Nat
  BY <1>1, CogRanked
<1> HIDE DEF rank
<1>3. ranks \subseteq Nat /\ ranks # {}
  BY <1>1, <1>2
<1>4. PICK low \in ranks : \A m \in ranks : low <= m
  BY <1>3, CogLeast
<1> DEFINE lows == {i \in DOMAIN q : rank(i) = low}
<1>5. lows \subseteq Nat /\ lows # {}
  BY <1>1, <1>4
<1>6. PICK i \in lows : \A j \in lows : i <= j
  BY <1>5, CogLeast
<1>7. low \in Nat /\ i \in DOMAIN q /\ rank(i) = low
  BY <1>3, <1>6
<1>8. first(i)
  <2> SUFFICES ASSUME NEW j \in DOMAIN q PROVE rank(i) < rank(j) \/ (rank(i) = rank(j) /\ i <= j)
    OBVIOUS
  <2>1. low <= rank(j) /\ rank(j) \in Nat
    BY <1>2, <1>4
  <2> QED
    BY <2>1, <1>6, <1>7
<1> DEFINE h == CHOOSE n \in DOMAIN q : first(n)
<1>9. h \in DOMAIN q /\ first(h)
  BY <1>7, <1>8
<1>10. CogHead(q) = q[h]
  BY DEF CogHead, rank
<1> HIDE DEF h
<1>11. \A j \in DOMAIN q : rank(h) <= rank(j)
  BY <1>2, <1>9
<1> QED
  BY <1>9, <1>10, <1>11 DEF CogIn, rank

(***************************************************************************)
(* What a worker may answer, and the slots of the gate.                    *)
(***************************************************************************)
CogAnswers == {"silence", "raises", "invalid", "speak", "timid", "mixed"}
LEMMA CogSays == CogVerdicts \subseteq CogAnswers /\ "silence" \in CogVerdicts
<1>1. \A r \in CogRaws : CogOwned(r) \in CogAnswers /\ CogOpen(r) \in CogAnswers
  BY DEF CogOwned, CogOpen, CogAnswers
<1>2. \A r \in CogRaws : r.fault # "none" => r.fault \in CogAnswers
  BY DEF CogRaws, CogAnswers
<1>3. \A r \in CogRaws : r.addressed \in BOOLEAN /\ r.speaks \in BOOLEAN
  BY DEF CogRaws
<1>4. \A r \in CogRaws : CogDirect(r) \in CogAnswers
  BY <1>1, <1>2, <1>3 DEF CogDirect, CogAnswers
<1>5. \A r \in CogRaws : CogStructured(r) \in CogAnswers
  BY <1>2, <1>3 DEF CogStructured, CogAnswers
<1> DEFINE r == [addressed |-> TRUE, fault |-> "none", owned |-> TRUE, anchored |-> TRUE, evidence |-> TRUE,
                 relation |-> "other", speaks |-> TRUE, sure |-> TRUE, strays |-> TRUE]
<1>6. r \in CogRaws /\ CogDirect(r) = "silence"
  BY DEF CogRaws, CogDirect
<1> HIDE DEF r
<1> QED
  BY <1>4, <1>5, <1>6 DEF CogVerdicts

CogTasks == [CogCalls -> CogQueued \cup CogHolding \cup {"none", "over"}]
CogHeld(task) == {c \in CogCalls : task[c] \in CogHolding}
CogWaiting(task) == {c \in CogCalls : task[c] \in CogQueued}

LEMMA CogHeldFinite == \A task : IsFiniteSet(CogHeld(task)) /\ Cardinality(CogHeld(task)) \in Nat
<1> TAKE task
<1>1. IsFiniteSet({"rule", "model"})
  <2>1. {"rule", "model"} = {"rule"} \cup {"model"}
    OBVIOUS
  <2>2. IsFiniteSet({"rule"})
    BY FS_Singleton
  <2>3. IsFiniteSet({"rule"} \cup {"model"})
    BY <2>2, FS_AddElement
  <2> QED
    BY <2>1, <2>3
<1>2. IsFiniteSet(CogCalls)
  BY <1>1, CogConstants, FS_Product DEF CogCalls
<1>3. CogHeld(task) \in SUBSET CogCalls
  BY DEF CogHeld
<1> QED
  BY <1>2, <1>3, FS_Subset, FS_CardinalityType

\* What one call's move does to the count of the calls inside.
LEMMA CogCounted ==
  ASSUME NEW t, NEW u, NEW c \in CogCalls,
         \A d \in CogCalls : d # c => (u[d] \in CogHolding <=> t[d] \in CogHolding)
  PROVE  /\ (u[c] \in CogHolding <=> t[c] \in CogHolding) => Cardinality(CogHeld(u)) = Cardinality(CogHeld(t))
         /\ u[c] \in CogHolding /\ t[c] \notin CogHolding => Cardinality(CogHeld(u)) = Cardinality(CogHeld(t)) + 1
         /\ u[c] \notin CogHolding /\ t[c] \in CogHolding => Cardinality(CogHeld(u)) = Cardinality(CogHeld(t)) - 1
<1>1. ASSUME u[c] \in CogHolding <=> t[c] \in CogHolding PROVE CogHeld(u) = CogHeld(t)
  BY <1>1 DEF CogHeld
<1>2. ASSUME u[c] \in CogHolding, t[c] \notin CogHolding
      PROVE  CogHeld(u) = CogHeld(t) \cup {c} /\ c \notin CogHeld(t)
  BY <1>2 DEF CogHeld
<1>3. ASSUME u[c] \notin CogHolding, t[c] \in CogHolding
      PROVE  CogHeld(u) = CogHeld(t) \ {c} /\ c \in CogHeld(t)
  BY <1>3 DEF CogHeld
<1>4. IsFiniteSet(CogHeld(t))
  BY CogHeldFinite
<1> QED
  BY <1>1, <1>2, <1>3, <1>4, FS_AddElement, FS_RemoveElement

\* notify_all moves no call but c into or out of the gate or its queue.
LEMMA CogNotifies ==
  ASSUME cgTask \in CogTasks, NEW c \in CogCalls, NEW to \in CogQueued \cup CogHolding \cup {"none", "over"}
  PROVE  /\ CogNotified(c, to) \in CogTasks /\ CogNotified(c, to)[c] = to
         /\ \A d \in CogCalls : d # c =>
              /\ CogNotified(c, to)[d] \in CogHolding <=> cgTask[d] \in CogHolding
              /\ CogNotified(c, to)[d] \in CogQueued <=> cgTask[d] \in CogQueued
              /\ CogNotified(c, to)[d] = "over" <=> cgTask[d] = "over"
              /\ CogNotified(c, to)[d] = "none" <=> cgTask[d] = "none"
BY DEF CogNotified, CogTasks, CogQueued, CogHolding

\* The books of the gate, of this state and of the next one.
LEMMA CogGateIs ==
  CogGateKept <=> /\ cgActive = Cardinality(CogHeld(cgTask)) /\ cgActive <= CogLimit
                  /\ CogIn(cgQueue) = CogWaiting(cgTask)
BY DEF CogGateKept, CogHeld, CogIn, CogWaiting
LEMMA CogGateWillBe ==
  CogGateKept' <=> /\ cgActive' = Cardinality(CogHeld(cgTask')) /\ cgActive' <= CogLimit
                   /\ CogIn(cgQueue') = CogWaiting(cgTask')
BY DEF CogGateKept, CogHeld, CogIn, CogWaiting

LEMMA CogSlots == CogLimit \in Nat /\ CogLimit > 0
BY CogConstants

LEMMA CogBegins == CogInit => CogInductive
<1> SUFFICES ASSUME CogInit PROVE CogInductive
  OBVIOUS
<1>1. CogTypeOK
  BY DEF CogInit, CogTypeOK, CogRuns, CogResults, CogGovernorResults
<1>2. CogHeld(cgTask) = {} /\ CogWaiting(cgTask) = {} /\ CogIn(cgQueue) = {}
  BY DEF CogInit, CogHeld, CogWaiting, CogIn, CogHolding, CogQueued
<1>3. CogGateKept
  <2>1. Cardinality({}) = 0 /\ cgActive = 0
    BY FS_EmptySet DEF CogInit
  <2> QED
    BY <2>1, <1>2, CogGateIs, CogSlots
<1>4. CogQueuedOnce /\ CogEnded
  BY DEF CogInit, CogQueuedOnce, CogEnded
<1>5. CogAsked
  BY DEF CogInit, CogAsked, CogCalls
<1>6. CogSpeaksOnVerdict
  BY DEF CogInit, CogSpeaksOnVerdict
<1> QED
  BY <1>1, <1>3, <1>4, <1>5, <1>6 DEF CogInductive

(***************************************************************************)
(* A call that reaches the gate, anew or woken, passes or goes to sleep.   *)
(***************************************************************************)
LEMMA CogReachesTheGate ==
  ASSUME CogInductive, NEW c \in CogCalls, NEW q \in Seq(CogCalls),
         (cgTask[c] = "none" /\ cgPc[c[1]] = c[2]) \/ cgTask[c] = "awake",
         CogApart(q), CogIn(q) = CogIn(cgQueue) \cup {c},
         CogPass(c, q) \/ CogWait(c, q), UNCHANGED <<cgPc, cgSaid, cgOutcome>>
  PROVE  CogInductive' /\ CogDirectFirst
<1> USE DEF CogInductive
<1>0. /\ cgTask \in CogTasks /\ cgEnd \in CogRuns /\ cgActive \in Nat /\ cgTask[c] \in {"none", "awake"}
      /\ c = <<c[1], c[2]>> /\ c[1] \in CogFrames /\ c[2] \in {"rule", "model"}
  BY DEF CogTypeOK, CogTasks, CogCalls
<1>1. cgActive = Cardinality(CogHeld(cgTask)) /\ cgActive <= CogLimit /\ CogIn(cgQueue) = CogWaiting(cgTask)
  BY CogGateIs
<1>2. cgTask[c] \notin CogHolding
  BY <1>0 DEF CogHolding
<1>3. CASE CogWait(c, q)
  <2>1. cgTask' = [cgTask EXCEPT ![c] = "asleep"] /\ cgQueue' = q /\ UNCHANGED <<cgEnd, cgActive, cgPc, cgSaid, cgOutcome>>
    BY <1>3 DEF CogWait
  <2>2. CogTypeOK'
    BY <2>1, <1>0 DEF CogTypeOK, CogQueued
  <2>3. CogHeld(cgTask') = CogHeld(cgTask)
    BY <2>1, <1>0, <1>2 DEF CogHeld, CogHolding, CogTasks
  <2>4. CogWaiting(cgTask') = CogWaiting(cgTask) \cup {c}
    BY <2>1, <1>0 DEF CogWaiting, CogQueued, CogTasks
  <2>5. CogGateKept'
    BY <2>1, <2>3, <2>4, <1>1, CogGateWillBe
  <2>6. CogQueuedOnce'
    BY <2>1 DEF CogQueuedOnce, CogApart
  <2>7. CogEnded' /\ CogSpeaksOnVerdict'
    BY <2>1, <1>0 DEF CogEnded, CogSpeaksOnVerdict, CogDeterministic, CogTasks
  <2>8. CogAsked'
    BY <2>1, <1>0 DEF CogAsked, CogTasks
  <2>9. CogDirectFirst
    BY <2>1, <1>0 DEF CogDirectFirst, CogTasks
  <2> QED
    BY <2>2, <2>5, <2>6, <2>7, <2>8, <2>9
<1>4. CASE CogPass(c, q)
  <2>1. cgQueue' = CogWithout(q, c) /\ cgActive < CogLimit /\ CogHead(q) = c
    BY <1>4 DEF CogPass, CogMayPass
  <2>2. cgQueue' \in Seq(CogCalls) /\ CogApart(cgQueue') /\ CogIn(cgQueue') = CogIn(q) \ {c}
    BY <2>1, CogOut
  <2>3. \A d \in CogCalls : cgTask[d] \in CogQueued => CogRank(c) <= CogRank(d)
    BY <2>1, <1>1, CogHeadIsUrgent DEF CogWaiting
  <2>4. CASE c[2] = "rule" /\ cgTask' = CogNotified(c, "over") /\ cgEnd' = [cgEnd EXCEPT ![c] = "silence"] /\ UNCHANGED cgActive
    <3> DEFINE u == CogNotified(c, "over")
    <3>1. /\ u \in CogTasks /\ u[c] = "over"
          /\ \A d \in CogCalls : d # c =>
               /\ u[d] \in CogHolding <=> cgTask[d] \in CogHolding
               /\ u[d] \in CogQueued <=> cgTask[d] \in CogQueued
               /\ u[d] = "over" <=> cgTask[d] = "over"
               /\ u[d] = "none" <=> cgTask[d] = "none"
      BY <1>0, CogNotifies
    <3>2. cgTask' = u
      BY <2>4
    <3> HIDE DEF u
    <3>3. CogTypeOK'
      BY <2>2, <2>4, <3>1, <3>2, <1>0, CogSays DEF CogTypeOK, CogTasks, CogRuns
    <3>4. CogHeld(u) = CogHeld(cgTask)
      BY <3>1, <1>2 DEF CogHeld, CogHolding
    <3>5. CogWaiting(u) = CogWaiting(cgTask) \ {c}
      BY <3>1 DEF CogWaiting, CogQueued
    <3>6. CogGateKept'
      BY <2>2, <2>4, <3>2, <3>4, <3>5, <1>1, CogGateWillBe
    <3>7. CogQueuedOnce'
      BY <2>2 DEF CogQueuedOnce, CogApart
    <3>8. CogEnded'
      BY <2>4, <3>1, <3>2, <1>0 DEF CogEnded, CogRuns
    <3>9. \A f \in CogFrames : <<f, "model">> \in CogCalls /\ <<f, "model">> # c /\ <<f, "rule">> \in CogCalls
      BY <2>4 DEF CogCalls
    <3>10. CogAsked'
      BY <2>4, <3>1, <3>2, <3>9, <1>0 DEF CogAsked, CogRuns
    <3>11. CogSpeaksOnVerdict'
      BY <2>4, <3>9, <1>0 DEF CogSpeaksOnVerdict, CogDeterministic, CogRuns
    <3>12. CogDirectFirst
      <4> SUFFICES ASSUME NEW x \in CogCalls, NEW d \in CogCalls, cgTask[x] \in {"none", "awake"},
                          cgTask'[x] \in {"calling", "over"}, cgTask[d] \in CogQueued
                   PROVE  CogRank(x) <= CogRank(d)
        BY DEF CogDirectFirst
      <4>1. x = c
        BY <3>1, <3>2 DEF CogHolding
      <4> QED
        BY <4>1, <2>3
    <3> QED
      BY <3>3, <3>6, <3>7, <3>8, <3>10, <3>11, <3>12
  <2>5. CASE c[2] = "model" /\ cgTask' = [cgTask EXCEPT ![c] = "calling"] /\ cgActive' = cgActive + 1 /\ UNCHANGED cgEnd
    <3>3. CogTypeOK'
      BY <2>2, <2>5, <1>0 DEF CogTypeOK, CogTasks, CogHolding
    <3>4. Cardinality(CogHeld(cgTask')) = Cardinality(CogHeld(cgTask)) + 1
      <4>1. \A d \in CogCalls : d # c => (cgTask'[d] \in CogHolding <=> cgTask[d] \in CogHolding)
        BY <2>5, <1>0 DEF CogTasks
      <4>2. cgTask'[c] \in CogHolding
        BY <2>5, <1>0 DEF CogTasks, CogHolding
      <4> QED
        BY <4>1, <4>2, <1>2, CogCounted
    <3>5. CogWaiting(cgTask') = CogWaiting(cgTask) \ {c}
      BY <2>5, <1>0 DEF CogWaiting, CogQueued, CogTasks
    <3>6. CogGateKept'
      <4>1. cgActive' = Cardinality(CogHeld(cgTask')) /\ cgActive' <= CogLimit
        BY <2>1, <2>5, <3>4, <1>0, <1>1, CogSlots
      <4>2. CogIn(cgQueue') = CogWaiting(cgTask')
        BY <2>2, <3>5, <1>1, <1>2, <1>0
      <4> QED
        BY <4>1, <4>2, CogGateWillBe
    <3>7. CogQueuedOnce'
      BY <2>2 DEF CogQueuedOnce, CogApart
    <3>8. CogEnded'
      BY <2>5, <1>0 DEF CogEnded, CogTasks
    <3>9. CogAsked'
      BY <2>5, <1>0 DEF CogAsked, CogTasks
    <3>10. CogSpeaksOnVerdict'
      BY <2>5 DEF CogSpeaksOnVerdict, CogDeterministic
    <3>11. CogDirectFirst
      BY <2>3, <2>5, <1>0 DEF CogDirectFirst, CogTasks
    <3> QED
      BY <3>3, <3>6, <3>7, <3>8, <3>9, <3>10, <3>11
  <2> QED
    BY <1>4, <2>4, <2>5 DEF CogPass
<1> QED
  BY <1>3, <1>4

LEMMA CogEnqueues ==
  ASSUME CogInductive, NEW c \in CogCalls, CogEnqueue(c)
  PROVE  CogInductive' /\ CogDirectFirst
<1> DEFINE q == Append(cgQueue, c)
<1>1. cgQueue \in Seq(CogCalls) /\ CogApart(cgQueue) /\ cgTask[c] = "none" /\ cgPc[c[1]] = c[2]
  BY DEF CogInductive, CogTypeOK, CogQueuedOnce, CogApart, CogEnqueue
<1>2. c \notin CogIn(cgQueue)
  BY <1>1, CogGateIs DEF CogInductive, CogWaiting, CogQueued
<1>3. q \in Seq(CogCalls) /\ CogApart(q) /\ CogIn(q) = CogIn(cgQueue) \cup {c}
  BY <1>1, <1>2, CogAppended
<1>4. (CogPass(c, q) \/ CogWait(c, q)) /\ UNCHANGED <<cgPc, cgSaid, cgOutcome>>
  BY DEF CogEnqueue
<1> QED
  BY <1>1, <1>3, <1>4, CogReachesTheGate

LEMMA CogWakes ==
  ASSUME CogInductive, NEW c \in CogCalls, CogWake(c)
  PROVE  CogInductive' /\ CogDirectFirst
<1>1. cgQueue \in Seq(CogCalls) /\ CogApart(cgQueue) /\ cgTask[c] = "awake"
  BY DEF CogInductive, CogTypeOK, CogQueuedOnce, CogApart, CogWake
<1>2. c \in CogIn(cgQueue)
  BY <1>1, CogGateIs DEF CogInductive, CogWaiting, CogQueued
<1>3. CogIn(cgQueue) = CogIn(cgQueue) \cup {c}
  BY <1>2
<1>4. (CogPass(c, cgQueue) \/ CogWait(c, cgQueue)) /\ UNCHANGED <<cgPc, cgSaid, cgOutcome>>
  BY DEF CogWake
<1> QED
  BY <1>1, <1>3, <1>4, CogReachesTheGate

(***************************************************************************)
(* A call that ends: its slot or its place in the queue is free.           *)
(***************************************************************************)
LEMMA CogAnswersIt ==
  ASSUME CogInductive, NEW c \in CogCalls, CogAnswer(c)
  PROVE  CogInductive' /\ CogDirectFirst
<1> USE DEF CogInductive
<1> DEFINE u == CogNotified(c, "over")
<1>1. PICK v \in CogVerdicts \cap CogMay[c[1]] :
        cgSaid' = [cgSaid EXCEPT ![c] = v] /\ cgEnd' = IF cgEnd[c] = "pending" THEN [cgEnd EXCEPT ![c] = v] ELSE cgEnd
  BY DEF CogAnswer
<1>2. /\ cgTask[c] \in CogHolding /\ cgTask' = u /\ cgActive' = cgActive - 1 /\ UNCHANGED <<cgPc, cgQueue, cgOutcome>>
      /\ cgTask \in CogTasks /\ cgEnd \in CogRuns /\ cgSaid \in CogResults /\ cgActive \in Nat /\ v \in CogAnswers
  BY CogSays DEF CogAnswer, CogTypeOK, CogTasks
<1>3. /\ u \in CogTasks /\ u[c] = "over"
      /\ \A d \in CogCalls : d # c =>
           /\ u[d] \in CogHolding <=> cgTask[d] \in CogHolding
           /\ u[d] \in CogQueued <=> cgTask[d] \in CogQueued
           /\ u[d] = "over" <=> cgTask[d] = "over"
           /\ u[d] = "none" <=> cgTask[d] = "none"
  BY <1>2, CogNotifies
<1> HIDE DEF u
<1>4. Cardinality(CogHeld(cgTask')) = Cardinality(CogHeld(cgTask)) - 1 /\ Cardinality(CogHeld(cgTask')) \in Nat
  <2>1. u[c] \notin CogHolding
    BY <1>3 DEF CogHolding
  <2> QED
    BY <2>1, <1>2, <1>3, CogCounted, CogHeldFinite
<1>5. CogWaiting(cgTask') = CogWaiting(cgTask)
  <2>1. u[c] \notin CogQueued /\ cgTask[c] \notin CogQueued
    BY <1>2, <1>3 DEF CogHolding, CogQueued
  <2> QED
    BY <2>1, <1>2, <1>3 DEF CogWaiting
<1>6. cgActive' = Cardinality(CogHeld(cgTask')) /\ cgActive' <= CogLimit /\ cgActive' \in Nat
  BY <1>2, <1>4, CogGateIs, CogSlots
<1>7. CogGateKept'
  BY <1>2, <1>5, <1>6, CogGateIs, CogGateWillBe
<1>8. CogTypeOK'
  BY <1>1, <1>2, <1>3, <1>6 DEF CogTypeOK, CogTasks, CogRuns, CogResults
<1>9. CogQueuedOnce'
  BY <1>2 DEF CogQueuedOnce
<1>10. cgTask[c] # "over" /\ cgTask[c] # "none" /\ cgEnd[c] \in {"pending", "timeout"}
  BY <1>2 DEF CogHolding, CogEnded
<1>11. CogEnded'
  BY <1>1, <1>2, <1>3, <1>10 DEF CogEnded, CogRuns, CogResults
<1>12. \A f \in CogFrames : <<f, "model">> \in CogCalls /\ <<f, "rule">> \in CogCalls
  BY DEF CogCalls
<1>13. CogAsked'
  <2>1. \A d \in CogCalls : (cgEnd[d] # "pending" => cgEnd'[d] # "pending") /\ (d # c => cgEnd'[d] = cgEnd[d])
    BY <1>1, <1>2 DEF CogRuns, CogAnswers
  <2>2. \A d \in CogCalls : cgTask'[d] # "none" => cgTask[d] # "none"
    BY <1>2, <1>3, <1>10
  <2> QED
    BY <2>1, <2>2, <1>2, <1>10, <1>12 DEF CogAsked
<1>14. CogSpeaksOnVerdict'
  <2>1. \A d \in CogCalls : (cgEnd[d] = "speak" => cgEnd'[d] = "speak" /\ cgSaid'[d] = cgSaid[d])
                            /\ (cgEnd[d] # "timeout" => cgEnd'[d] # "timeout")
    BY <1>1, <1>2, <1>10 DEF CogRuns, CogResults, CogAnswers
  <2> QED
    BY <2>1, <1>2, <1>12 DEF CogSpeaksOnVerdict, CogDeterministic
<1>15. CogDirectFirst
  <2>1. \A x \in CogCalls : cgTask[x] \in {"none", "awake"} => cgTask'[x] \notin {"calling", "over"}
    BY <1>2, <1>3 DEF CogHolding
  <2> QED
    BY <2>1 DEF CogDirectFirst
<1> QED
  BY <1>7, <1>8, <1>9, <1>11, <1>13, <1>14, <1>15

LEMMA CogUnwinds ==
  ASSUME CogInductive, NEW c \in CogCalls, CogUnwind(c)
  PROVE  CogInductive' /\ CogDirectFirst
<1> USE DEF CogInductive
<1> DEFINE u == CogNotified(c, "over")
<1>1. /\ cgTask' = u /\ UNCHANGED <<cgPc, cgEnd, cgSaid, cgOutcome>> /\ cgTask[c] \in {"leaving", "dropped"}
      /\ cgTask \in CogTasks /\ cgActive \in Nat /\ cgQueue \in Seq(CogCalls) /\ CogApart(cgQueue)
  BY DEF CogUnwind, CogTypeOK, CogTasks, CogQueuedOnce, CogApart
<1>2. /\ u \in CogTasks /\ u[c] = "over"
      /\ \A d \in CogCalls : d # c =>
           /\ u[d] \in CogHolding <=> cgTask[d] \in CogHolding
           /\ u[d] \in CogQueued <=> cgTask[d] \in CogQueued
           /\ u[d] = "over" <=> cgTask[d] = "over"
           /\ u[d] = "none" <=> cgTask[d] = "none"
  BY <1>1, CogNotifies
<1> HIDE DEF u
<1>3. /\ cgQueue' \in Seq(CogCalls) /\ CogApart(cgQueue') /\ CogIn(cgQueue') = CogWaiting(cgTask')
      /\ cgActive' = Cardinality(CogHeld(cgTask')) /\ cgActive' <= CogLimit /\ cgActive' \in Nat
  <2>1. CASE cgTask[c] = "leaving" /\ cgQueue' = CogDiscard(c) /\ UNCHANGED cgActive
    <3>1. cgQueue' \in Seq(CogCalls) /\ CogApart(cgQueue') /\ CogIn(cgQueue') = CogIn(cgQueue) \ {c}
      BY <2>1, <1>1, CogOut DEF CogDiscard
    <3>2. CogWaiting(u) = CogWaiting(cgTask) \ {c}
      BY <1>2 DEF CogWaiting, CogQueued
    <3>3. CogHeld(u) = CogHeld(cgTask)
      BY <2>1, <1>2 DEF CogHeld, CogHolding
    <3> QED
      BY <2>1, <3>1, <3>2, <3>3, <1>1, CogGateIs
  <2>2. CASE cgTask[c] = "dropped" /\ cgActive' = cgActive - 1 /\ UNCHANGED cgQueue
    <3>1. CogWaiting(u) = CogWaiting(cgTask)
      BY <2>2, <1>2 DEF CogWaiting, CogQueued
    <3>2. Cardinality(CogHeld(u)) = Cardinality(CogHeld(cgTask)) - 1 /\ Cardinality(CogHeld(u)) \in Nat
      <4>1. u[c] \notin CogHolding /\ cgTask[c] \in CogHolding
        BY <2>2, <1>2 DEF CogHolding
      <4> QED
        BY <4>1, <1>2, CogCounted, CogHeldFinite
    <3> QED
      BY <2>2, <3>1, <3>2, <1>1, CogGateIs, CogSlots
  <2> QED
    BY <2>1, <2>2 DEF CogUnwind
<1>4. CogGateKept' /\ CogQueuedOnce'
  BY <1>3, CogGateWillBe DEF CogQueuedOnce, CogApart
<1>5. CogTypeOK'
  BY <1>1, <1>2, <1>3 DEF CogTypeOK, CogTasks
<1>6. CogEnded' /\ CogSpeaksOnVerdict'
  BY <1>1, <1>2 DEF CogEnded, CogSpeaksOnVerdict, CogDeterministic
<1>7. CogAsked'
  <2>1. \A f \in CogFrames : <<f, "model">> \in CogCalls
    BY DEF CogCalls
  <2>2. \A d \in CogCalls : cgTask'[d] # "none" => cgTask[d] # "none"
    BY <1>1, <1>2
  <2> QED
    BY <2>1, <2>2, <1>1 DEF CogAsked
<1>8. CogDirectFirst
  <2>1. \A x \in CogCalls : cgTask[x] \in {"none", "awake"} => cgTask'[x] \notin {"calling", "over"}
    BY <1>1, <1>2 DEF CogHolding
  <2> QED
    BY <2>1 DEF CogDirectFirst
<1> QED
  BY <1>4, <1>5, <1>6, <1>7, <1>8

(***************************************************************************)
(* A call that is detached keeps its slot or its place.                    *)
(***************************************************************************)
LEMMA CogDetaches ==
  ASSUME cgTask \in CogTasks, NEW u \in CogTasks,
         \A c \in CogCalls : u[c] = cgTask[c] \/ u[c] = CogDetached(c)
  PROVE  /\ CogHeld(u) = CogHeld(cgTask) /\ CogWaiting(u) = CogWaiting(cgTask)
         /\ \A c \in CogCalls : /\ u[c] = "over" <=> cgTask[c] = "over"
                                /\ u[c] = "none" <=> cgTask[c] = "none"
                                /\ cgTask[c] \in {"none", "awake"} => u[c] \notin {"calling", "over"}
BY DEF CogDetached, CogHeld, CogWaiting, CogHolding, CogQueued, CogTasks

LEMMA CogTimesOut ==
  ASSUME CogInductive, NEW c \in CogCalls, CogTimeout(c)
  PROVE  CogInductive' /\ CogDirectFirst
<1> USE DEF CogInductive
<1>1. /\ cgEnd[c] = "pending" /\ cgEnd' = [cgEnd EXCEPT ![c] = "timeout"] /\ cgTask' = [cgTask EXCEPT ![c] = CogDetached(c)]
      /\ cgTask[c] \in {"asleep", "awake", "calling"}
      /\ UNCHANGED <<cgPc, cgSaid, cgQueue, cgActive, cgOutcome>> /\ cgTask \in CogTasks /\ cgEnd \in CogRuns
  BY DEF CogTimeout, CogTypeOK, CogTasks
<1>2. CogDetached(c) \in {"leaving", "dropped"}
  BY <1>1 DEF CogDetached
<1>3. cgTask' \in CogTasks /\ \A d \in CogCalls : cgTask'[d] = cgTask[d] \/ cgTask'[d] = CogDetached(d)
  BY <1>1, <1>2 DEF CogTasks, CogQueued, CogHolding
<1>4. /\ CogHeld(cgTask') = CogHeld(cgTask) /\ CogWaiting(cgTask') = CogWaiting(cgTask)
      /\ \A d \in CogCalls : /\ cgTask'[d] = "over" <=> cgTask[d] = "over"
                             /\ cgTask'[d] = "none" <=> cgTask[d] = "none"
                             /\ cgTask[d] \in {"none", "awake"} => cgTask'[d] \notin {"calling", "over"}
  BY <1>1, <1>3, CogDetaches
<1>5. CogGateKept'
  BY <1>1, <1>4, CogGateIs, CogGateWillBe
<1>6. CogTypeOK'
  BY <1>1, <1>3 DEF CogTypeOK, CogTasks, CogRuns
<1>7. CogQueuedOnce' /\ CogEnded'
  BY <1>1, <1>4 DEF CogQueuedOnce, CogEnded, CogRuns
<1>8. \A f \in CogFrames : <<f, "model">> \in CogCalls /\ <<f, "rule">> \in CogCalls
  BY DEF CogCalls
<1>9. CogAsked'
  BY <1>1, <1>4, <1>8 DEF CogAsked, CogRuns
<1>10. CogSpeaksOnVerdict'
  <2>1. ASSUME NEW f \in CogFrames, cgOutcome[f] = "ACT" PROVE cgEnd[<<f, "rule">>] # "pending"
    BY <2>1 DEF CogAsked
  <2> QED
    BY <2>1, <1>1, <1>8 DEF CogSpeaksOnVerdict, CogDeterministic, CogRuns
<1>11. CogDirectFirst
  BY <1>4 DEF CogDirectFirst
<1> QED
  BY <1>5, <1>6, <1>7, <1>9, <1>10, <1>11

LEMMA CogCancels ==
  ASSUME CogInductive, NEW f \in CogFrames, CogCancel(f)
  PROVE  CogInductive' /\ CogDirectFirst
<1> USE DEF CogInductive
<1>1. /\ cgPc[f] \in {"rule", "model"} /\ cgPc' = [cgPc EXCEPT ![f] = "cancelled"]
      /\ cgTask' = [c \in CogCalls |-> IF c[1] = f THEN CogDetached(c) ELSE cgTask[c]]
      /\ cgEnd' = [c \in CogCalls |-> IF c[1] = f /\ cgEnd[c] = "pending" THEN "timeout" ELSE cgEnd[c]]
      /\ UNCHANGED <<cgSaid, cgQueue, cgActive, cgOutcome>> /\ cgTask \in CogTasks /\ cgEnd \in CogRuns
      /\ cgPc \in [CogFrames -> {"idle", "rule", "model", "deciding", "judged", "accepted", "stale", "cancelled"}]
  BY DEF CogCancel, CogTypeOK, CogTasks
<1>2. \A c \in CogCalls : CogDetached(c) \in CogQueued \cup CogHolding \cup {"none", "over"}
  BY <1>1 DEF CogDetached, CogTasks, CogQueued, CogHolding
<1>3. cgTask' \in CogTasks /\ \A d \in CogCalls : cgTask'[d] = cgTask[d] \/ cgTask'[d] = CogDetached(d)
  BY <1>1, <1>2 DEF CogTasks
<1>4. /\ CogHeld(cgTask') = CogHeld(cgTask) /\ CogWaiting(cgTask') = CogWaiting(cgTask)
      /\ \A d \in CogCalls : /\ cgTask'[d] = "over" <=> cgTask[d] = "over"
                             /\ cgTask'[d] = "none" <=> cgTask[d] = "none"
                             /\ cgTask[d] \in {"none", "awake"} => cgTask'[d] \notin {"calling", "over"}
  BY <1>1, <1>3, CogDetaches
<1>5. CogGateKept'
  BY <1>1, <1>4, CogGateIs, CogGateWillBe
<1>6. CogTypeOK'
  BY <1>1, <1>3 DEF CogTypeOK, CogTasks, CogRuns
<1>7. CogQueuedOnce' /\ CogEnded'
  BY <1>1, <1>4 DEF CogQueuedOnce, CogEnded, CogRuns
<1>8. \A g \in CogFrames : <<g, "model">> \in CogCalls /\ <<g, "rule">> \in CogCalls
  BY DEF CogCalls
<1>9. \A g \in CogFrames : g # f => /\ cgEnd'[<<g, "model">>] = cgEnd[<<g, "model">>] /\ cgEnd'[<<g, "rule">>] = cgEnd[<<g, "rule">>]
                                    /\ cgPc'[g] = cgPc[g]
  BY <1>1, <1>8
<1>10. cgPc'[f] = "cancelled" /\ cgOutcome[f] = "none" /\ cgOutcome'[f] = "none"
  BY <1>1 DEF CogAsked, CogTypeOK, CogGovernorResults
<1>11. CogAsked'
  <2>1. \A g \in CogFrames : cgTask'[<<g, "model">>] = "none" <=> cgTask[<<g, "model">>] = "none"
    BY <1>4, <1>8
  <2> QED
    BY <2>1, <1>1, <1>9, <1>10 DEF CogAsked
<1>12. CogSpeaksOnVerdict'
  <2>1. ASSUME NEW g \in CogFrames, cgOutcome'[g] = "ACT" PROVE g # f /\ cgOutcome[g] = "ACT"
    BY <2>1, <1>1, <1>10
  <2>2. cgSaid' = cgSaid
    BY <1>1
  <2>3. ASSUME NEW g \in CogFrames, cgOutcome'[g] = "ACT", ~CogDeterministic(g)
        PROVE  cgEnd'[<<g, "model">>] = "speak" /\ cgSaid[<<g, "model">>] = "speak" /\ cgEnd'[<<g, "rule">>] # "timeout"
    BY <2>1, <2>3, <1>9 DEF CogSpeaksOnVerdict
  <2> QED
    BY <2>2, <2>3 DEF CogSpeaksOnVerdict, CogDeterministic
<1>13. CogDirectFirst
  BY <1>4 DEF CogDirectFirst
<1> QED
  BY <1>5, <1>6, <1>7, <1>11, <1>12, <1>13

(***************************************************************************)
(* The evaluation's own steps leave the gate alone.                        *)
(***************************************************************************)
LEMMA CogEvaluates ==
  ASSUME CogInductive, NEW f \in CogFrames, CogStart(f) \/ CogGather(f) \/ CogDecide(f) \/ CogHandIn(f)
  PROVE  CogInductive' /\ CogDirectFirst
<1> USE DEF CogInductive
<1>1. UNCHANGED <<cgTask, cgEnd, cgSaid, cgQueue, cgActive>>
  BY DEF CogStart, CogGather, CogDecide, CogHandIn
<1>2. CogGateKept' /\ CogQueuedOnce' /\ CogEnded' /\ CogDirectFirst
  BY <1>1 DEF CogGateKept, CogQueuedOnce, CogEnded, CogDirectFirst
<1>3. CASE CogStart(f)
  BY <1>1, <1>2, <1>3 DEF CogStart, CogTypeOK, CogAsked, CogSpeaksOnVerdict, CogDeterministic
<1>4. CASE CogGather(f)
  <2>1. CogTypeOK'
    BY <1>1, <1>4 DEF CogGather, CogTypeOK
  <2>2. CogAsked'
    BY <1>1, <1>4 DEF CogGather, CogAsked, CogTypeOK
  <2>3. CogSpeaksOnVerdict'
    BY <1>1, <1>4 DEF CogGather, CogSpeaksOnVerdict, CogDeterministic
  <2> QED
    BY <1>2, <2>1, <2>2, <2>3
<1>5. CASE CogHandIn(f)
  <2>1. PICK to \in {"accepted", "stale"} : cgPc' = [cgPc EXCEPT ![f] = to]
    BY <1>5 DEF CogHandIn
  <2>2. cgPc[f] = "judged" /\ UNCHANGED cgOutcome
    BY <1>5 DEF CogHandIn
  <2>3. CogTypeOK'
    BY <1>1, <2>1, <2>2 DEF CogTypeOK
  <2>4. CogAsked'
    BY <1>1, <2>1, <2>2 DEF CogAsked, CogTypeOK
  <2>5. CogSpeaksOnVerdict'
    BY <1>1, <2>2 DEF CogSpeaksOnVerdict, CogDeterministic
  <2> QED
    BY <1>2, <2>3, <2>4, <2>5
<1>6. CASE CogDecide(f)
  <2>1. PICK gate \in CogGates : cgOutcome' = [cgOutcome EXCEPT ![f] = CogDecision(f, gate)]
    BY <1>6 DEF CogDecide
  <2>2. cgPc[f] = "deciding" /\ cgPc' = [cgPc EXCEPT ![f] = "judged"]
    BY <1>6 DEF CogDecide
  <2>3. CogDecision(f, gate) \in CogOutcomes
    BY DEF CogDecision, CogOutcomes
  <2>4. CogTypeOK'
    BY <1>1, <2>1, <2>2, <2>3 DEF CogTypeOK, CogGovernorResults
  <2>5. CogAsked'
    BY <1>1, <2>1, <2>2 DEF CogAsked, CogTypeOK, CogGovernorResults
  <2>6. ASSUME CogDecision(f, gate) = "ACT"
        PROVE  CogDeterministic(f) \/ (cgEnd[<<f, "model">>] = "speak" /\ cgSaid[<<f, "model">>] = "speak" /\ cgEnd[<<f, "rule">>] # "timeout")
    <3>1. ~CogForced(f) /\ (CogDeterministic(f) \/ CogInvited(f))
      BY <2>6 DEF CogDecision
    <3>2. SUFFICES ASSUME ~CogDeterministic(f)
                   PROVE  cgEnd[<<f, "model">>] = "speak" /\ cgSaid[<<f, "model">>] = "speak" /\ cgEnd[<<f, "rule">>] # "timeout"
      OBVIOUS
    <3>3. ~CogDegraded(f) /\ cgEnd[<<f, "model">>] \in {"speak", "mixed"}
      BY <3>1, <3>2 DEF CogForced, CogInvited
    <3>4. f \in CogWanted
      BY <3>3, <2>2, CogConstants DEF CogAsked
    <3>5. cgEnd[<<f, "model">>] = "speak" /\ cgEnd[<<f, "rule">>] # "timeout"
      BY <3>3, <3>4 DEF CogDegraded, CogCompleted
    <3> QED
      BY <3>5 DEF CogEnded, CogCalls
  <2>7. CogSpeaksOnVerdict'
    BY <1>1, <2>1, <2>6 DEF CogSpeaksOnVerdict, CogDeterministic, CogTypeOK, CogGovernorResults
  <2> QED
    BY <1>2, <2>4, <2>5, <2>7
<1> QED
  BY <1>3, <1>4, <1>5, <1>6

LEMMA CogStep == CogInductive /\ [CogNext]_cgVars => CogInductive' /\ CogDirectFirst
<1> SUFFICES ASSUME CogInductive, [CogNext]_cgVars PROVE CogInductive' /\ CogDirectFirst
  OBVIOUS
<1>1. CASE UNCHANGED cgVars
  BY <1>1 DEF cgVars, CogInductive, CogTypeOK, CogGateKept, CogQueuedOnce, CogEnded, CogAsked, CogSpeaksOnVerdict, CogDeterministic, CogDirectFirst
<1>2. ASSUME NEW f \in CogFrames, CogStart(f) \/ CogGather(f) \/ CogDecide(f) \/ CogHandIn(f) PROVE CogInductive' /\ CogDirectFirst
  BY <1>2, CogEvaluates
<1>3. ASSUME NEW f \in CogFrames, CogCancel(f) PROVE CogInductive' /\ CogDirectFirst
  BY <1>3, CogCancels
<1>4. ASSUME NEW c \in CogCalls, CogEnqueue(c) \/ CogWake(c) PROVE CogInductive' /\ CogDirectFirst
  BY <1>4, CogEnqueues, CogWakes
<1>5. ASSUME NEW c \in CogCalls, CogAnswer(c) \/ CogTimeout(c) \/ CogUnwind(c) PROVE CogInductive' /\ CogDirectFirst
  BY <1>5, CogAnswersIt, CogTimesOut, CogUnwinds
<1> QED
  BY <1>1, <1>2, <1>3, <1>4, <1>5 DEF CogNext

LEMMA CogAlways == CogSpec => []CogInductive
<1>1. CogInductive /\ [CogNext]_cgVars => CogInductive'
  BY CogStep
<1> QED
  BY <1>1, CogBegins, PTL DEF CogSpec

\* Every variable of the evaluation keeps its type.
THEOREM CogTypes == CogSpec => []CogTypeOK
<1>1. CogInductive => CogTypeOK
  BY DEF CogInductive
<1> QED
  BY <1>1, CogAlways, PTL

\* However calls time out, are cancelled, or answer late: the gate counts the calls inside, its
\* queue holds the calls that wait, and the bot speaks only on a verdict that came in time.
THEOREM CogStaysSound == CogSpec => []CogSound
<1>1. CogInductive => CogSound
  BY DEF CogInductive, CogSound
<1> QED
  BY <1>1, CogAlways, PTL

\* No call passes the gate before one of a more urgent lane that waits at it.
THEOREM CogDirectGoesFirst == CogSpec => [][CogDirectFirst]_cgVars
<1>1. CogInductive /\ [CogNext]_cgVars => [CogDirectFirst]_cgVars
  BY CogStep
<1> QED
  BY <1>1, CogAlways, PTL DEF CogSpec

----------------------------------------------------------------------------
(***************************************************************************)
(* Theorems about the replies of a group, for any number of handlers,      *)
(* batches and messages.                                                   *)
(***************************************************************************)

(***************************************************************************)
(* The inductive invariant.  The registry of lanes counts the handlers     *)
(* that hold a reservation, and as long as there is one the lock is the    *)
(* one all of them got.  Whoever answered had handled its group, and its   *)
(* answer moved the scene away from the version it was judged at; what is  *)
(* still valid of another handler inside was checked after that.           *)
(***************************************************************************)
LaneReserved == {h \in LaneHandlers : lnPc[h] \in LaneInside \cup {"preparing", "waiting", "leaving"}}
LaneBooks ==
  /\ lnUsers = Cardinality(LaneReserved)
  /\ lnUsers = 0 => lnLock = 0
  /\ \A h \in LaneReserved : lnLock # 0 /\ lnKey[h] = lnLock

LaneOf(h) == {LaneBatch[h][i] : i \in DOMAIN LaneBatch[h]}
LaneAnswersOf(h) == lnAnswered \cap LaneOf(h)
\* What a handler inside checked against the scene and may still answer.
LaneChecked(h) ==
  {i \in lnFit[h] : \/ lnPc[h] \in LaneInside \ {"checking"}
                    \/ lnPc[h] = "checking" /\ i < lnAt[h]}
LaneAnswers ==
  /\ \A h \in LaneHandlers : lnSeen[h] <= lnScene
  /\ \A h \in LaneHandlers : lnPc[h] \in {"idle", "drained", "waiting"} => lnAt[h] = 1
  /\ \A h \in LaneHandlers : lnPc[h] \in {"reading", "previewing", "writing", "leasing"} => lnAt[h] \in lnFit[h]
  /\ \A h \in LaneHandlers : lnPc[h] \in {"writing", "leasing"} => lnHandled[h]
  /\ \A h \in LaneHandlers : LaneAnswersOf(h) # {} =>
       lnHandled[h] /\ lnPc[h] \in {"handling", "sending", "leaving", "over"} /\ lnSeen[h] < lnScene
  /\ \A h \in LaneHandlers : \A x, y \in LaneAnswersOf(h) : x = y
LaneApart ==
  /\ \A h, k \in LaneHandlers : \A i \in LaneChecked(k) : \A x \in LaneAnswersOf(h) :
       h # k /\ LaneGuarded(x) /\ LaneGuarded(LaneBatch[k][i]) => lnSeen[h] # lnSeen[k]
  /\ \A h, k \in LaneHandlers : \A x \in LaneAnswersOf(h), y \in LaneAnswersOf(k) :
       h # k /\ LaneGuarded(x) /\ LaneGuarded(y) => lnSeen[h] # lnSeen[k]

LaneInductive == LaneTypeOK /\ LaneBooks /\ LaneOneInside /\ LaneAnswers /\ LaneApart

LEMMA LaneStart == LaneInit => LaneInductive
<1> SUFFICES ASSUME LaneInit PROVE LaneInductive
  OBVIOUS
<1>1. Cardinality(LaneHandlers) \in Nat
  BY LaneConstants, FS_CardinalityType
<1>2. \A h \in LaneHandlers : 1 \in DOMAIN LaneBatch[h]
  BY LaneConstants
<1>3. LaneTypeOK
  BY <1>1, <1>2 DEF LaneInit, LaneTypeOK, LaneStatuses, LaneParts, LanePcs
<1>4. LaneReserved = {}
  BY DEF LaneInit, LaneReserved, LaneInside
<1>5. LaneBooks
  BY <1>4, FS_EmptySet DEF LaneBooks, LaneInit
<1>6. LaneOneInside /\ LaneAnswers /\ LaneApart
  BY DEF LaneInit, LaneOneInside, LaneInside, LaneAnswers, LaneAnswersOf, LaneApart
<1> QED
  BY <1>3, <1>5, <1>6 DEF LaneInductive

-----------------------------------------------------------------------------
(* What the helpers of the handlers return.                                *)
LEMMA LaneEvaluationOf ==
  ASSUME LaneTypeOK, NEW h \in LaneHandlers
  PROVE  LaneX(h) \in LaneEvaluations /\ LaneSource[LaneX(h)] \in LaneMessages /\ LaneX(h) \in LaneOf(h)
<1>1. lnAt[h] \in DOMAIN LaneBatch[h]
  BY DEF LaneTypeOK
<1> QED
  BY <1>1, LaneConstants DEF LaneX, LaneEvaluations, LaneOf

LEMMA LaneJudgedType ==
  ASSUME NEW x PROVE LaneJudged(x) \in LaneStatuses
BY DEF LaneJudged, LaneStatuses, LaneTerminal

LEMMA LaneToldType ==
  ASSUME LaneTypeOK, NEW x, NEW last \in LaneStatuses
  PROVE  LaneTold(x, last) \in [LaneMessages -> LaneStatuses]
<1>1. "OBSERVED" \in LaneStatuses
  BY DEF LaneStatuses, LaneTerminal
<1> QED
  BY <1>1 DEF LaneTold, LaneTypeOK

\* The index stays in the batch, and the handler is at one of two places.
LEMMA LaneStepMoves ==
  ASSUME LaneTypeOK, NEW h \in LaneHandlers, NEW here, NEW after, LaneStep(h, here, after)
  PROVE  \E at \in DOMAIN LaneBatch[h], pc \in {here, after} :
           /\ lnAt' = [lnAt EXCEPT ![h] = at] /\ lnPc' = [lnPc EXCEPT ![h] = pc]
           /\ \/ pc = here /\ at = lnAt[h] + 1
              \/ pc = after /\ at = 1 /\ lnAt[h] = Len(LaneBatch[h])
<1>1. /\ lnAt[h] \in DOMAIN LaneBatch[h] /\ DOMAIN LaneBatch[h] = 1 .. Len(LaneBatch[h])
      /\ Len(LaneBatch[h]) \in Nat /\ 1 \in DOMAIN LaneBatch[h]
  BY LaneConstants DEF LaneTypeOK
<1>2. CASE lnAt[h] < Len(LaneBatch[h])
  <2>1. lnAt[h] + 1 \in DOMAIN LaneBatch[h] /\ lnAt' = [lnAt EXCEPT ![h] = lnAt[h] + 1] /\ lnPc' = [lnPc EXCEPT ![h] = here]
    BY <1>1, <1>2 DEF LaneStep, LaneGoto
  <2> QED
    BY <2>1
<1>3. CASE ~(lnAt[h] < Len(LaneBatch[h]))
  <2>1. lnAt[h] = Len(LaneBatch[h]) /\ lnAt' = [lnAt EXCEPT ![h] = 1] /\ lnPc' = [lnPc EXCEPT ![h] = after]
    BY <1>1, <1>3 DEF LaneStep, LaneGoto
  <2> QED
    BY <1>1, <2>1
<1> QED
  BY <1>2, <1>3

-----------------------------------------------------------------------------
(***************************************************************************)
(* A handler that keeps its reservation and answers nothing.  It comes in  *)
(* only when nobody is inside, and what it may now answer it has checked.  *)
(***************************************************************************)
LaneHolding == LaneInside \cup {"preparing", "waiting", "leaving"}
LaneAnswering == {"reading", "previewing", "writing", "leasing"}
LEMMA LaneMoves ==
  ASSUME LaneInductive, NEW h \in LaneHandlers,
         lnPc[h] \in LaneHolding, NEW pc \in LaneHolding, lnPc' = [lnPc EXCEPT ![h] = pc],
         NEW at \in DOMAIN LaneBatch[h], lnAt' = [lnAt EXCEPT ![h] = at],
         NEW fit \in SUBSET DOMAIN LaneBatch[h], lnFit' = [lnFit EXCEPT ![h] = fit],
         NEW handled \in BOOLEAN, lnHandled' = [lnHandled EXCEPT ![h] = handled], lnHandled[h] => handled,
         UNCHANGED LaneAdmin, UNCHANGED LaneWorld, UNCHANGED lnAnswered,
         lnScene' \in Nat, lnScene <= lnScene',
         lnTrace' \in [LaneMessages -> LaneStatuses], lnPart' \in [LaneMessages -> LaneParts],
         pc \in LaneInside /\ lnPc[h] \notin LaneInside =>
           \A k \in LaneHandlers \ {h} : lnPc[k] \notin LaneInside,
         pc \in LaneAnswering => at \in fit, pc = "waiting" => at = 1,
         pc \in {"writing", "leasing"} => handled,
         LaneAnswersOf(h) # {} => pc \in {"handling", "sending", "leaving"},
         \A i \in LaneChecked(h)' : i \in LaneChecked(h) \/ ~LaneGuarded(LaneBatch[h][i]) \/ lnScene = lnSeen[h]
  PROVE  LaneInductive'
<1> USE DEF LaneInductive
<1>0. DOMAIN LaneBatch[h] \subseteq Nat
  BY LaneConstants
<1>1. LaneTypeOK'
  BY <1>0 DEF LaneTypeOK, LaneAdmin, LaneWorld, LaneHolding, LanePcs
<1>2. LaneBooks'
  <2>1. LaneReserved' = LaneReserved
    BY DEF LaneReserved, LaneHolding, LaneTypeOK
  <2> QED
    BY <2>1 DEF LaneBooks, LaneAdmin, LaneReserved
<1>3. LaneOneInside'
  BY DEF LaneOneInside, LaneTypeOK
<1>4. LaneAnswers'
  <2>1. \A k \in LaneHandlers : LaneAnswersOf(k)' = LaneAnswersOf(k) /\ lnSeen'[k] = lnSeen[k]
    BY DEF LaneAnswersOf, LaneWorld
  <2>2. \A k \in LaneHandlers : lnSeen[k] \in Nat /\ lnScene \in Nat
    BY DEF LaneTypeOK
  <2>3. /\ lnPc'[h] = pc /\ lnAt'[h] = at /\ lnFit'[h] = fit /\ lnHandled'[h] = handled
        /\ \A k \in LaneHandlers \ {h} : lnPc'[k] = lnPc[k] /\ lnAt'[k] = lnAt[k] /\ lnFit'[k] = lnFit[k] /\ lnHandled'[k] = lnHandled[k]
    BY DEF LaneTypeOK
  <2>4. \A k \in LaneHandlers : lnSeen'[k] <= lnScene'
    BY <2>1, <2>2 DEF LaneAnswers
  <2>5. \A k \in LaneHandlers : lnPc'[k] \in {"reading", "previewing", "writing", "leasing"} => lnAt'[k] \in lnFit'[k]
    BY <2>3 DEF LaneAnswers, LaneAnswering
  <2>6. \A k \in LaneHandlers : LaneAnswersOf(k)' # {} =>
          lnHandled'[k] /\ lnPc'[k] \in {"handling", "sending", "leaving", "over"} /\ lnSeen'[k] < lnScene'
    BY <2>1, <2>2, <2>3 DEF LaneAnswers
  <2>7. \A k \in LaneHandlers : \A x, y \in LaneAnswersOf(k)' : x = y
    BY <2>1 DEF LaneAnswers
  <2>8. \A k \in LaneHandlers : lnPc'[k] \in {"idle", "drained", "waiting"} => lnAt'[k] = 1
    BY <2>3 DEF LaneAnswers, LaneHolding, LaneInside
  <2>9. \A k \in LaneHandlers : lnPc'[k] \in {"writing", "leasing"} => lnHandled'[k]
    BY <2>3 DEF LaneAnswers
  <2> QED
    BY <2>4, <2>5, <2>6, <2>7, <2>8, <2>9 DEF LaneAnswers
<1>5. LaneApart'
  <2>1. \A k \in LaneHandlers : LaneAnswersOf(k)' = LaneAnswersOf(k) /\ lnSeen'[k] = lnSeen[k]
    BY DEF LaneAnswersOf, LaneWorld
  <2>2. \A x : LaneGuarded(x)' <=> LaneGuarded(x)
    BY DEF LaneGuarded, LaneWorld
  <2>3. \A k \in LaneHandlers \ {h} : LaneChecked(k)' = LaneChecked(k)
    BY DEF LaneChecked, LaneTypeOK
  <2>4. \A k \in LaneHandlers : LaneAnswersOf(k) # {} => lnSeen[k] # lnScene
    BY DEF LaneAnswers, LaneTypeOK
  <2>5. ASSUME NEW j \in LaneHandlers, NEW k \in LaneHandlers, NEW i \in LaneChecked(k)', NEW x \in LaneAnswersOf(j)',
               j # k, LaneGuarded(x)', LaneGuarded(LaneBatch[k][i])'
        PROVE  lnSeen'[j] # lnSeen'[k]
    <3>1. CASE i \in LaneChecked(k)
      BY <2>1, <2>2, <2>5, <3>1 DEF LaneApart
    <3>2. CASE i \notin LaneChecked(k)
      BY <2>1, <2>2, <2>3, <2>4, <2>5, <3>2
    <3> QED
      BY <3>1, <3>2
  <2>6. \A j, k \in LaneHandlers : \A x \in LaneAnswersOf(j)', y \in LaneAnswersOf(k)' :
          j # k /\ LaneGuarded(x)' /\ LaneGuarded(y)' => lnSeen'[j] # lnSeen'[k]
    BY <2>1, <2>2 DEF LaneApart
  <2> QED
    BY <2>5, <2>6 DEF LaneApart
<1> QED
  BY <1>1, <1>2, <1>3, <1>4, <1>5

\* The same for a step along the batch that leaves what is valid alone.
LEMMA LaneWalks ==
  ASSUME LaneInductive, NEW h \in LaneHandlers, lnPc[h] \in LaneInside,
         NEW pc \in (LaneInside \ {"checking"}) \cup {"leaving"}, lnPc' = [lnPc EXCEPT ![h] = pc],
         NEW at \in DOMAIN LaneBatch[h], lnAt' = [lnAt EXCEPT ![h] = at], UNCHANGED lnFit,
         NEW handled \in BOOLEAN, lnHandled' = [lnHandled EXCEPT ![h] = handled], lnHandled[h] => handled,
         UNCHANGED LaneAdmin, UNCHANGED LaneWorld, UNCHANGED lnAnswered, UNCHANGED lnScene,
         lnTrace' \in [LaneMessages -> LaneStatuses], lnPart' \in [LaneMessages -> LaneParts],
         lnPc[h] # "checking", pc \in {"writing", "leasing"} => handled,
         pc \in LaneAnswering => at \in lnFit[h] /\ LaneAnswersOf(h) = {}
  PROVE  LaneInductive'
<1> DEFINE fit == lnFit[h]
<1>1. fit \in SUBSET DOMAIN LaneBatch[h] /\ lnFit' = [lnFit EXCEPT ![h] = fit] /\ lnScene' \in Nat /\ lnScene <= lnScene'
  BY DEF LaneInductive, LaneTypeOK
<1>2. lnPc[h] \in LaneHolding /\ pc \in LaneHolding
  BY DEF LaneHolding
<1>3. (pc \in LaneAnswering => at \in fit) /\ (pc = "waiting" => at = 1)
  BY DEF LaneInside
<1>4. LaneAnswersOf(h) # {} => pc \in {"handling", "sending", "leaving"}
  BY DEF LaneInside, LaneAnswering
<1>5. \A i \in LaneChecked(h)' : i \in LaneChecked(h) \/ ~LaneGuarded(LaneBatch[h][i]) \/ lnScene = lnSeen[h]
  BY DEF LaneChecked
<1> HIDE DEF fit
<1> QED
  BY <1>1, <1>2, <1>3, <1>4, <1>5, LaneMoves

LEMMA LaneHandleStep ==
  ASSUME LaneInductive, NEW h \in LaneHandlers, LaneHandle(h) \/ LaneSent(h)
  PROVE  LaneInductive'
<1> DEFINE handled == lnHandled[h]
<1>0. LaneTypeOK /\ lnTrace \in [LaneMessages -> LaneStatuses] /\ lnPart' \in [LaneMessages -> LaneParts] /\ lnAt[h] \in DOMAIN LaneBatch[h]
      /\ handled \in BOOLEAN
  BY DEF LaneInductive, LaneTypeOK, LaneHandle, LaneSent, LaneQuiet
<1>1. lnHandled' = [lnHandled EXCEPT ![h] = handled]
  BY DEF LaneHandle, LaneSent, LaneInductive, LaneTypeOK
<1>2. lnTrace' \in [LaneMessages -> LaneStatuses]
  BY <1>0, LaneToldType, LaneJudgedType DEF LaneHandle, LaneSent, LaneSay, LaneStatuses, LaneTerminal
<1>3. CASE LaneNext1(h)
  <2>1. PICK at \in DOMAIN LaneBatch[h], pc \in {"handling", "leaving"} :
           lnAt' = [lnAt EXCEPT ![h] = at] /\ lnPc' = [lnPc EXCEPT ![h] = pc]
    BY <1>0, <1>3, LaneStepMoves DEF LaneNext1
  <2> QED
    BY <1>0, <1>1, <1>2, <2>1, LaneWalks DEF LaneHandle, LaneSent, LaneQuiet, LaneAnswering, LaneInside
<1>4. CASE ~LaneNext1(h)
  <2>1. LaneHandle(h) /\ lnPc' = [lnPc EXCEPT ![h] = "reading"] /\ lnAt' = [lnAt EXCEPT ![h] = lnAt[h]]
        /\ lnAt[h] \in lnFit[h] /\ ~lnHandled[h]
    BY <1>4 DEF LaneHandle, LaneSent, LaneGoto, LaneInductive, LaneTypeOK
  <2>2. LaneAnswersOf(h) = {}
    BY <2>1 DEF LaneInductive, LaneAnswers
  <2>3. UNCHANGED <<lnFit, lnScene, lnAnswered>> /\ UNCHANGED LaneAdmin /\ UNCHANGED LaneWorld /\ lnPc[h] = "handling"
    BY <2>1 DEF LaneHandle, LaneQuiet
  <2> DEFINE pc == "reading"
             at == lnAt[h]
  <2>4. /\ pc \in (LaneInside \ {"checking"}) \cup {"leaving"} /\ lnPc[h] \in LaneInside /\ pc \notin {"writing", "leasing"}
        /\ at \in DOMAIN LaneBatch[h] /\ lnPc' = [lnPc EXCEPT ![h] = pc] /\ lnAt' = [lnAt EXCEPT ![h] = at]
        /\ at \in lnFit[h]
    BY <1>0, <2>1, <2>3 DEF LaneInside
  <2> HIDE DEF handled, pc, at
  <2> QED
    BY <1>0, <1>1, <1>2, <2>1, <2>2, <2>3, <2>4, LaneWalks DEF handled
<1> QED
  BY <1>3, <1>4

LEMMA LaneReadStep ==
  ASSUME LaneInductive, NEW h \in LaneHandlers, LaneRead(h) \/ LanePreview(h)
  PROVE  LaneInductive'
<1>0. /\ LaneTypeOK /\ lnPart' \in [LaneMessages -> LaneParts] /\ lnAt[h] \in DOMAIN LaneBatch[h]
      /\ lnAt \in [LaneHandlers -> Nat] /\ lnHandled \in [LaneHandlers -> BOOLEAN]
      /\ lnPc[h] \in {"reading", "previewing"}
  BY DEF LaneInductive, LaneTypeOK, LaneRead, LanePreview, LaneQuiet
<1>1. lnAt[h] \in lnFit[h] /\ LaneAnswersOf(h) = {}
  BY <1>0 DEF LaneInductive, LaneAnswers
<1>2. PICK handled \in BOOLEAN : lnHandled' = [lnHandled EXCEPT ![h] = handled] /\ (lnHandled[h] => handled)
  <2>1. lnHandled' = lnHandled \/ lnHandled' = [lnHandled EXCEPT ![h] = TRUE]
    BY DEF LaneRead, LanePreview
  <2>2. lnHandled = [lnHandled EXCEPT ![h] = lnHandled[h]]
    BY <1>0
  <2> QED
    BY <1>0, <2>1, <2>2
<1>3. lnTrace' \in [LaneMessages -> LaneStatuses]
  <2>1. lnTrace \in [LaneMessages -> LaneStatuses]
    BY <1>0 DEF LaneTypeOK
  <2>2. lnTrace' = lnTrace \/ \E last \in LaneStatuses : lnTrace' = LaneTold(LaneX(h), last)
    BY DEF LaneRead, LanePreview, LaneSay, LaneStatuses, LaneTerminal
  <2> QED
    BY <1>0, <2>1, <2>2, LaneToldType
<1>4. UNCHANGED lnFit /\ UNCHANGED LaneAdmin /\ UNCHANGED LaneWorld /\ UNCHANGED lnAnswered /\ UNCHANGED lnScene
  BY DEF LaneRead, LanePreview, LaneQuiet
<1>5. CASE LaneNext1(h)
  <2>1. PICK at \in DOMAIN LaneBatch[h], pc \in {"handling", "leaving"} :
           lnAt' = [lnAt EXCEPT ![h] = at] /\ lnPc' = [lnPc EXCEPT ![h] = pc]
    BY <1>0, <1>5, LaneStepMoves DEF LaneNext1
  <2> QED
    BY <1>0, <1>2, <1>3, <1>4, <2>1, LaneWalks DEF LaneAnswering, LaneInside
<1>6. CASE ~LaneNext1(h)
  <2>1. PICK pc \in {"leaving", "previewing", "writing"} :
           /\ lnPc' = [lnPc EXCEPT ![h] = pc] /\ lnAt' = lnAt
           /\ pc = "writing" => lnHandled' = [lnHandled EXCEPT ![h] = TRUE]
    BY <1>6 DEF LaneRead, LanePreview, LaneGoto
  <2>3. pc = "writing" => handled
    BY <1>0, <1>2, <2>1
  <2>2. lnAt' = [lnAt EXCEPT ![h] = lnAt[h]]
    BY <1>0, <2>1
  <2> QED
    BY <1>0, <1>1, <1>2, <1>3, <1>4, <2>1, <2>2, <2>3, LaneWalks DEF LaneAnswering, LaneInside
<1> QED
  BY <1>5, <1>6

LEMMA LaneWriteStep ==
  ASSUME LaneInductive, NEW h \in LaneHandlers, LaneWrite(h)
  PROVE  LaneInductive'
<1>0. /\ LaneTypeOK /\ lnAt[h] \in DOMAIN LaneBatch[h] /\ lnPart \in [LaneMessages -> LaneParts]
      /\ lnAt \in [LaneHandlers -> Nat] /\ lnHandled \in [LaneHandlers -> BOOLEAN] /\ lnPc[h] = "writing"
  BY DEF LaneInductive, LaneTypeOK, LaneWrite
<1>1. lnAt[h] \in lnFit[h] /\ LaneAnswersOf(h) = {} /\ lnHandled[h]
  BY <1>0 DEF LaneInductive, LaneAnswers
<1>2. lnHandled' = [lnHandled EXCEPT ![h] = lnHandled[h]]
  BY <1>0 DEF LaneWrite
<1>3. lnTrace' \in [LaneMessages -> LaneStatuses]
  <2>1. lnTrace \in [LaneMessages -> LaneStatuses]
    BY <1>0 DEF LaneTypeOK
  <2>2. lnTrace' = lnTrace \/ lnTrace' = LaneTold(LaneX(h), "FAILED")
    BY DEF LaneWrite, LaneSay
  <2>3. "FAILED" \in LaneStatuses
    BY DEF LaneStatuses, LaneTerminal
  <2> QED
    BY <1>0, <2>1, <2>2, <2>3, LaneToldType
<1>4. lnPart' \in [LaneMessages -> LaneParts]
  <2>1. LaneSource[LaneX(h)] \in LaneMessages
    BY <1>0, LaneEvaluationOf
  <2>2. \E v \in {"ready", lnPart[LaneSource[LaneX(h)]]} : lnPart' = [lnPart EXCEPT ![LaneSource[LaneX(h)]] = v]
    BY DEF LaneWrite
  <2> QED
    BY <1>0, <2>1, <2>2 DEF LaneParts
<1>5. UNCHANGED lnFit /\ UNCHANGED LaneAdmin /\ UNCHANGED LaneWorld /\ UNCHANGED lnAnswered /\ UNCHANGED lnScene
  BY DEF LaneWrite
<1>6. CASE LaneNext1(h)
  <2>1. PICK at \in DOMAIN LaneBatch[h], pc \in {"handling", "leaving"} :
           lnAt' = [lnAt EXCEPT ![h] = at] /\ lnPc' = [lnPc EXCEPT ![h] = pc]
    BY <1>0, <1>6, LaneStepMoves DEF LaneNext1
  <2> QED
    BY <1>0, <1>2, <1>3, <1>4, <1>5, <2>1, LaneWalks DEF LaneAnswering, LaneInside
<1>7. CASE ~LaneNext1(h)
  <2>1. PICK pc \in {"leasing", "sending"} : lnPc' = [lnPc EXCEPT ![h] = pc] /\ lnAt' = lnAt
    BY <1>7 DEF LaneWrite, LaneGoto
  <2>2. lnAt' = [lnAt EXCEPT ![h] = lnAt[h]]
    BY <1>0, <2>1
  <2> QED
    BY <1>0, <1>1, <1>2, <1>3, <1>4, <1>5, <2>1, <2>2, LaneWalks DEF LaneAnswering, LaneInside
<1> QED
  BY <1>6, <1>7

\* Preparing, waiting, checking again, and a cancellation wherever it comes.
LEMMA LaneKeepStep ==
  ASSUME LaneInductive, NEW h \in LaneHandlers, LanePrepare(h) \/ LaneRecheck(h)
  PROVE  LaneInductive'
<1>0. /\ LaneTypeOK /\ lnAt[h] \in DOMAIN LaneBatch[h] /\ lnPart \in [LaneMessages -> LaneParts]
      /\ lnFit \in [LaneHandlers -> SUBSET Nat] /\ lnFit[h] \subseteq DOMAIN LaneBatch[h]
      /\ lnHandled \in [LaneHandlers -> BOOLEAN] /\ lnPc[h] \in {"preparing", "checking"} /\ lnPart' = lnPart
      /\ lnTrace \in [LaneMessages -> LaneStatuses] /\ lnScene \in Nat /\ lnPc \in [LaneHandlers -> LanePcs]
  BY DEF LaneInductive, LaneTypeOK, LanePrepare, LaneRecheck, LaneKeep
<1>1. LaneAnswersOf(h) = {}
  BY <1>0 DEF LaneInductive, LaneAnswers
<1>2. lnHandled' = [lnHandled EXCEPT ![h] = lnHandled[h]]
  BY <1>0 DEF LanePrepare, LaneRecheck, LaneKeep
<1>3. UNCHANGED LaneAdmin /\ UNCHANGED LaneWorld /\ UNCHANGED lnAnswered /\ lnScene' = lnScene
  BY DEF LanePrepare, LaneRecheck, LaneKeep
<1>4. PICK fit : /\ lnFit' = [lnFit EXCEPT ![h] = fit]
                 /\ \/ (fit = lnFit[h] \cup {lnAt[h]} /\ LaneCurrent(h)) \/ fit = lnFit[h] \ {lnAt[h]}
                    \/ fit = lnFit[h] /\ lnAt[h] \notin lnFit[h]
  <2>1. CASE \E keep \in BOOLEAN : LaneKeep(h, keep)
    BY <2>1 DEF LaneKeep
  <2>2. CASE lnAt[h] \notin lnFit[h] /\ lnFit' = lnFit
    BY <1>0, <2>2
  <2> QED
    BY <2>1, <2>2 DEF LanePrepare, LaneRecheck
<1>5. lnTrace' \in [LaneMessages -> LaneStatuses]
  <2>1. lnTrace' = lnTrace \/ lnTrace' = LaneTold(LaneX(h), LaneJudged(LaneX(h)))
    BY DEF LanePrepare, LaneRecheck, LaneKeep
  <2> QED
    BY <1>0, <2>1, LaneToldType, LaneJudgedType
<1>6. PICK at \in DOMAIN LaneBatch[h], pc \in {"preparing", "waiting", "checking", "handling"} :
        /\ lnAt' = [lnAt EXCEPT ![h] = at] /\ lnPc' = [lnPc EXCEPT ![h] = pc]
        /\ pc \in LaneInside => lnPc[h] = "checking"
        /\ \/ pc \in {"preparing", "checking"} /\ at = lnAt[h] + 1
           \/ lnAt[h] = Len(LaneBatch[h])
        /\ pc = "waiting" => at = 1
  <2>1. CASE LanePrepare(h)
    BY <1>0, <2>1, LaneStepMoves DEF LanePrepare, LaneInside
  <2>2. CASE LaneRecheck(h)
    BY <1>0, <2>2, LaneStepMoves DEF LaneRecheck, LaneInside
  <2> QED
    BY <2>1, <2>2
<1>7. \A i \in LaneChecked(h)' : i \in LaneChecked(h) \/ ~LaneGuarded(LaneBatch[h][i]) \/ lnScene = lnSeen[h]
  <2> SUFFICES ASSUME NEW i \in LaneChecked(h)', i \notin LaneChecked(h)
               PROVE  ~LaneGuarded(LaneBatch[h][i]) \/ lnScene = lnSeen[h]
    OBVIOUS
  <2>1. lnPc'[h] = pc /\ lnAt'[h] = at /\ lnFit'[h] = fit
    BY <1>0, <1>4, <1>6 DEF LaneTypeOK
  <2>2. pc \in {"checking", "handling"} /\ lnPc[h] = "checking" /\ i \in fit /\ (pc = "checking" => i < at)
    BY <1>6, <2>1 DEF LaneChecked, LaneInside
  <2>3. i \in DOMAIN LaneBatch[h] /\ DOMAIN LaneBatch[h] = 1 .. Len(LaneBatch[h]) /\ Len(LaneBatch[h]) \in Nat
    BY <1>0, <1>4, <2>2, LaneConstants
  <2>4. i \in lnFit[h] \/ i = lnAt[h]
    BY <1>4, <2>2
  <2>5. i >= lnAt[h]
    BY <1>0, <2>2, <2>3, <2>4 DEF LaneChecked
  <2>6. i = lnAt[h]
    BY <1>0, <1>6, <2>2, <2>3, <2>5
  <2>7. LaneCurrent(h)
    BY <1>4, <2>2, <2>6
  <2> QED
    BY <2>6, <2>7 DEF LaneCurrent, LaneX
<1>8. fit \in SUBSET DOMAIN LaneBatch[h]
  BY <1>0, <1>4
<1>9. /\ lnPc[h] \in LaneHolding /\ pc \in LaneHolding /\ pc \notin LaneAnswering /\ pc \notin {"writing", "leasing"}
      /\ pc \in LaneInside => lnPc[h] \in LaneInside
  BY <1>0, <1>6 DEF LaneHolding, LaneInside, LaneAnswering
<1>10. lnScene' \in Nat /\ lnScene <= lnScene' /\ lnPart' \in [LaneMessages -> LaneParts] /\ lnHandled[h] \in BOOLEAN
  BY <1>0, <1>3
<1> QED
  BY <1>1, <1>2, <1>3, <1>4, <1>5, <1>6, <1>7, <1>8, <1>9, <1>10, LaneMoves

LEMMA LaneWaitStep ==
  ASSUME LaneInductive, NEW h \in LaneHandlers, LaneAcquire(h) \/ LaneCancel(h)
  PROVE  LaneInductive'
<1>0. /\ LaneTypeOK /\ lnAt[h] \in DOMAIN LaneBatch[h] /\ lnPart' \in [LaneMessages -> LaneParts]
      /\ lnFit \in [LaneHandlers -> SUBSET Nat] /\ lnFit[h] \in SUBSET DOMAIN LaneBatch[h]
      /\ lnAt \in [LaneHandlers -> Nat] /\ lnPc \in [LaneHandlers -> LanePcs]
      /\ lnHandled \in [LaneHandlers -> BOOLEAN] /\ lnHandled[h] \in BOOLEAN
      /\ lnTrace' \in [LaneMessages -> LaneStatuses] /\ lnScene' \in Nat /\ lnScene <= lnScene'
  BY DEF LaneInductive, LaneTypeOK, LaneAcquire, LaneCancel
<1>1. /\ lnHandled' = [lnHandled EXCEPT ![h] = lnHandled[h]] /\ lnFit' = [lnFit EXCEPT ![h] = lnFit[h]]
      /\ lnAt' = [lnAt EXCEPT ![h] = lnAt[h]]
  BY <1>0 DEF LaneAcquire, LaneCancel
<1>2. UNCHANGED LaneAdmin /\ UNCHANGED LaneWorld /\ UNCHANGED lnAnswered
  BY DEF LaneAcquire, LaneCancel
<1>3. PICK pc \in {"leaving", "checking"} :
        /\ lnPc' = [lnPc EXCEPT ![h] = pc] /\ lnPc[h] \in LaneHolding
        /\ pc = "checking" => LaneAcquire(h) /\ lnPc[h] = "waiting" /\
             \A k \in LaneHandlers \ {h} : lnPc[k] \in LaneInside => lnKey[k] # lnKey[h]
  BY DEF LaneAcquire, LaneCancel, LaneGoto, LaneHolding
<1>4. pc \in LaneInside => \A k \in LaneHandlers \ {h} : lnPc[k] \notin LaneInside
  <2> SUFFICES ASSUME pc = "checking", NEW k \in LaneHandlers \ {h}, lnPc[k] \in LaneInside PROVE FALSE
    BY <1>3 DEF LaneInside
  <2>1. h \in LaneReserved /\ k \in LaneReserved
    BY <1>3 DEF LaneReserved
  <2> QED
    BY <1>3, <2>1 DEF LaneInductive, LaneBooks
<1>5. LaneAnswersOf(h) # {} => pc \in {"handling", "sending", "leaving"}
  BY <1>3 DEF LaneInductive, LaneAnswers
<1>6. LaneChecked(h)' \subseteq LaneChecked(h)
  <2>1. lnPc'[h] = pc /\ lnAt'[h] = lnAt[h] /\ lnFit'[h] = lnFit[h]
    BY <1>0, <1>1, <1>3
  <2>2. pc = "checking" => lnAt[h] = 1
    BY <1>3 DEF LaneInductive, LaneAnswers
  <2>3. \A i \in DOMAIN LaneBatch[h] : ~(i < 1)
    BY LaneConstants
  <2> QED
    BY <1>0, <1>3, <2>1, <2>2, <2>3 DEF LaneChecked, LaneInside
<1>7. pc \in LaneHolding /\ pc \notin LaneAnswering /\ pc \notin {"waiting", "writing", "leasing"}
  BY DEF LaneHolding, LaneInside, LaneAnswering
<1>8. \A i \in LaneChecked(h)' : i \in LaneChecked(h) \/ ~LaneGuarded(LaneBatch[h][i]) \/ lnScene = lnSeen[h]
  BY <1>6
<1>9. lnPc' = [lnPc EXCEPT ![h] = pc] /\ lnPc[h] \in LaneHolding
  BY <1>3
<1> DEFINE at == lnAt[h]
           fit == lnFit[h]
           handled == lnHandled[h]
<1>10. /\ at \in DOMAIN LaneBatch[h] /\ fit \in SUBSET DOMAIN LaneBatch[h] /\ handled \in BOOLEAN
       /\ lnHandled' = [lnHandled EXCEPT ![h] = handled] /\ lnFit' = [lnFit EXCEPT ![h] = fit]
       /\ lnAt' = [lnAt EXCEPT ![h] = at] /\ (lnHandled[h] => handled)
  BY <1>0, <1>1
<1> HIDE DEF at, fit, handled
<1> QED
  BY <1>0, <1>2, <1>4, <1>5, <1>7, <1>8, <1>9, <1>10, LaneMoves

LEMMA LaneFinishStep ==
  ASSUME LaneInductive, NEW h \in LaneHandlers, LaneFinish(h)
  PROVE  LaneInductive'
<1> USE DEF LaneInductive
<1>0. /\ IsFiniteSet(LaneReserved) /\ Cardinality(LaneReserved) \in Nat
      /\ lnPc \in [LaneHandlers -> LanePcs] /\ lnPc' = [lnPc EXCEPT ![h] = "over"] /\ lnPc[h] = "leaving"
  <2>1. LaneReserved \subseteq LaneHandlers
    BY DEF LaneReserved
  <2> QED
    BY <2>1, LaneConstants, FS_Subset, FS_CardinalityType DEF LaneTypeOK, LaneFinish, LaneGoto
<1>1. h \in LaneReserved /\ LaneReserved' = LaneReserved \ {h}
  BY <1>0 DEF LaneReserved, LaneInside
<1>2. Cardinality(LaneReserved') = lnUsers' /\ lnUsers' \in Nat /\ lnUsers' <= lnUsers
  <2>1. Cardinality(LaneReserved \ {h}) = Cardinality(LaneReserved) - 1 /\ IsFiniteSet(LaneReserved \ {h})
    BY <1>0, <1>1, FS_RemoveElement
  <2>2. Cardinality(LaneReserved \ {h}) \in Nat
    BY <2>1, FS_CardinalityType
  <2> QED
    BY <1>0, <1>1, <2>1, <2>2 DEF LaneBooks, LaneFinish
<1>3. LaneTypeOK'
  <2>1. lnUsers' \in 0 .. Cardinality(LaneHandlers)
    BY <1>2, LaneConstants, FS_CardinalityType DEF LaneTypeOK
  <2>2. lnPc' \in [LaneHandlers -> LanePcs]
    BY <1>0 DEF LanePcs
  <2>3. lnTail' \in LaneHandlers \cup {LaneNone} /\ lnLock' \in Nat /\ lnDone' \subseteq LaneHandlers
    BY DEF LaneTypeOK, LaneFinish
  <2> QED
    BY <2>1, <2>2, <2>3 DEF LaneTypeOK, LaneFinish, LaneWorld
<1>4. LaneBooks'
  <2>1. CASE lnUsers' > 0
    BY <1>1, <1>2, <2>1 DEF LaneBooks, LaneFinish
  <2>2. CASE lnUsers' = 0
    <3>1. LaneReserved' = {}
      BY <1>0, <1>1, <1>2, <2>2, FS_EmptySet, FS_RemoveElement
    <3> QED
      BY <1>2, <2>2, <3>1 DEF LaneBooks, LaneFinish
  <2> QED
    BY <1>2, <2>1, <2>2
<1>5. LaneOneInside'
  BY <1>0 DEF LaneOneInside, LaneInside
<1>6. LaneAnswers'
  BY <1>0 DEF LaneAnswers, LaneAnswersOf, LaneFinish, LaneWorld
<1>7. LaneApart'
  <2>1. \A k \in LaneHandlers : LaneChecked(k)' \subseteq LaneChecked(k)
    BY <1>0 DEF LaneChecked, LaneFinish, LaneInside
  <2>2. \A k \in LaneHandlers : LaneAnswersOf(k)' = LaneAnswersOf(k)
    BY DEF LaneAnswersOf, LaneFinish
  <2>3. \A x : LaneGuarded(x)' <=> LaneGuarded(x)
    BY DEF LaneGuarded, LaneFinish, LaneWorld
  <2> QED
    BY <2>1, <2>2, <2>3 DEF LaneApart, LaneFinish, LaneWorld
<1> QED
  BY <1>3, <1>4, <1>5, <1>6, <1>7

\* A drain and a reservation come from outside the lane.
LEMMA LaneOutsideKept ==
  ASSUME LaneInductive, NEW h \in LaneHandlers, NEW pc \in LanePcs \ LaneInside, lnPc[h] \notin LaneHolding,
         lnPc' = [lnPc EXCEPT ![h] = pc], pc # "over",
         UNCHANGED <<lnScene, lnAt, lnFit, lnHandled, lnOutcome, lnAnswered>>,
         lnPc[h] \in {"idle", "drained"},
         \A k \in LaneHandlers \ {h} : lnSeen'[k] = lnSeen[k], lnSeen'[h] \in {lnSeen[h], lnScene}
  PROVE  LaneOneInside' /\ LaneAnswers' /\ LaneApart'
<1> USE DEF LaneInductive
<1>0. /\ lnPc \in [LaneHandlers -> LanePcs] /\ lnPc'[h] = pc /\ \A k \in LaneHandlers \ {h} : lnPc'[k] = lnPc[k]
      /\ lnScene \in Nat /\ \A k \in LaneHandlers : lnSeen[k] \in Nat
  BY DEF LaneTypeOK
<1>1. LaneAnswersOf(h) = {} /\ lnAt[h] = 1
  BY DEF LaneAnswers
<1>2. \A k \in LaneHandlers : LaneAnswersOf(k)' = LaneAnswersOf(k)
  BY DEF LaneAnswersOf
<1>3. LaneOneInside'
  BY <1>0 DEF LaneOneInside
<1>4. LaneAnswers'
  BY <1>0, <1>1, <1>2 DEF LaneAnswers, LaneInside
<1>5. \A k \in LaneHandlers : LaneChecked(k)' \subseteq LaneChecked(k)
  BY <1>0 DEF LaneChecked, LaneInside
<1>6. \A x : LaneGuarded(x)' <=> LaneGuarded(x)
  BY DEF LaneGuarded
<1>7. LaneChecked(h) = {} /\ LaneChecked(h)' = {}
  BY <1>0 DEF LaneChecked, LaneInside
<1>8. LaneApart'
  BY <1>0, <1>1, <1>2, <1>5, <1>6, <1>7 DEF LaneApart
<1> QED
  BY <1>3, <1>4, <1>8

LEMMA LaneDrainStep ==
  ASSUME LaneInductive, NEW h \in LaneHandlers, LaneDrain(h)
  PROVE  LaneInductive'
<1> USE DEF LaneInductive
<1>0. lnPc \in [LaneHandlers -> LanePcs] /\ lnPc' = [lnPc EXCEPT ![h] = "drained"] /\ lnPc[h] = "idle"
  BY DEF LaneTypeOK, LaneDrain, LaneGoto
<1>1. LaneTypeOK'
  BY <1>0 DEF LaneTypeOK, LaneDrain, LaneAdmin, LanePcs
<1>2. LaneBooks'
  <2>1. LaneReserved' = LaneReserved
    BY <1>0 DEF LaneReserved, LaneInside
  <2> QED
    BY <2>1 DEF LaneBooks, LaneDrain, LaneAdmin
<1>3. LaneOneInside' /\ LaneAnswers' /\ LaneApart'
  <2>1. \A k \in LaneHandlers \ {h} : lnSeen'[k] = lnSeen[k]
    BY DEF LaneDrain, LaneTypeOK
  <2>2. lnSeen'[h] = lnScene
    BY DEF LaneDrain, LaneTypeOK
  <2> QED
    BY <1>0, <2>1, <2>2, LaneOutsideKept DEF LaneDrain, LaneHolding, LaneInside, LanePcs
<1> QED
  BY <1>1, <1>2, <1>3

LEMMA LaneReserveStep ==
  ASSUME LaneInductive, NEW h \in LaneHandlers, LaneReserve(h)
  PROVE  LaneInductive'
<1> USE DEF LaneInductive
<1>0. /\ lnPc \in [LaneHandlers -> LanePcs] /\ lnPc' = [lnPc EXCEPT ![h] = "preparing"] /\ lnPc[h] = "drained"
      /\ lnKey \in [LaneHandlers -> Nat]
  BY DEF LaneTypeOK, LaneReserve, LaneGoto
<1>1. IsFiniteSet(LaneReserved) /\ LaneReserved \subseteq LaneHandlers /\ LaneReserved' \subseteq LaneHandlers
  BY LaneConstants, FS_Subset DEF LaneReserved
<1>2. LaneReserved' = LaneReserved \cup {h} /\ h \notin LaneReserved
  BY <1>0 DEF LaneReserved, LaneInside
<1>3. /\ Cardinality(LaneReserved') = Cardinality(LaneReserved) + 1 /\ Cardinality(LaneReserved) \in Nat
      /\ Cardinality(LaneReserved') <= Cardinality(LaneHandlers) /\ Cardinality(LaneHandlers) \in Nat
  BY <1>1, <1>2, LaneConstants, FS_AddElement, FS_Subset, FS_CardinalityType
<1>4. lnUsers = Cardinality(LaneReserved) /\ lnUsers' = lnUsers + 1
  BY DEF LaneBooks, LaneReserve
<1>5. lnLock' \in Nat /\ lnLock' # 0 /\ (lnLock # 0 => lnLock' = lnLock)
  <2>1. IsFiniteSet({lnKey[k] : k \in LaneHandlers} \ {0})
    <3> DEFINE keys == {lnKey[k] : k \in LaneHandlers}
    <3>1. lnKey \in Surjection(LaneHandlers, keys)
      BY <1>0 DEF Surjection
    <3>2. IsFiniteSet(keys)
      BY <3>1, LaneConstants, FS_Surjection
    <3> QED
      BY <3>2, FS_Difference
  <2>2. Cardinality({lnKey[k] : k \in LaneHandlers} \ {0}) \in Nat
    BY <2>1, FS_CardinalityType
  <2> QED
    BY <2>2 DEF LaneReserve, LaneTypeOK
<1>6. LaneTypeOK'
  BY <1>0, <1>3, <1>4, <1>5 DEF LaneTypeOK, LaneReserve, LaneWorld, LanePcs
<1>7. LaneBooks'
  <2>1. lnKey'[h] = lnLock' /\ \A k \in LaneHandlers \ {h} : lnKey'[k] = lnKey[k]
    BY <1>0 DEF LaneReserve
  <2>2. \A k \in LaneReserved : k \in LaneHandlers \ {h} /\ lnKey[k] = lnLock /\ lnLock # 0
    BY <1>1, <1>2 DEF LaneBooks
  <2> QED
    BY <1>2, <1>3, <1>4, <1>5, <2>1, <2>2 DEF LaneBooks
<1>8. LaneOneInside' /\ LaneAnswers' /\ LaneApart'
  BY <1>0, LaneOutsideKept DEF LaneReserve, LaneWorld, LaneHolding, LaneInside, LanePcs
<1> QED
  BY <1>6, <1>7, <1>8

-----------------------------------------------------------------------------
\* The usable reply: it answers for the first time, and the scene moves on.
LEMMA LaneAnswerStep ==
  ASSUME LaneInductive, NEW h \in LaneHandlers, LaneLease(h), lnAnswered' # lnAnswered
  PROVE  LaneInductive'
<1> USE DEF LaneInductive
<1> DEFINE x == LaneX(h)
<1>0. /\ lnPc[h] = "leasing" /\ lnPc' = [lnPc EXCEPT ![h] = "sending"] /\ lnPc \in [LaneHandlers -> LanePcs]
      /\ lnScene' = lnScene + 1 /\ lnScene \in Nat /\ \A k \in LaneHandlers : lnSeen[k] \in Nat
      /\ lnAnswered' = lnAnswered \cup {x} /\ UNCHANGED <<lnTrace, lnAt, lnPart, lnFit, lnHandled>>
      /\ UNCHANGED LaneAdmin /\ UNCHANGED LaneWorld
  BY DEF LaneTypeOK, LaneLease, LaneGoto
<1>1. x \in LaneEvaluations /\ x = LaneBatch[h][lnAt[h]] /\ lnAt[h] \in DOMAIN LaneBatch[h] /\ x \in LaneOf(h)
  BY LaneEvaluationOf DEF LaneTypeOK, LaneX
<1>2. LaneAnswersOf(h) = {} /\ lnAt[h] \in lnFit[h] /\ lnAt[h] \in LaneChecked(h)
  BY <1>0 DEF LaneAnswers, LaneChecked, LaneInside
<1>3. \A k \in LaneHandlers \ {h} : x \notin LaneOf(k)
  BY <1>1, LaneConstants DEF LaneOf
<1>4. LaneAnswersOf(h)' = {x} /\ \A k \in LaneHandlers \ {h} : LaneAnswersOf(k)' = LaneAnswersOf(k)
  BY <1>0, <1>1, <1>2, <1>3 DEF LaneAnswersOf
<1> HIDE DEF x
<1>5. LaneTypeOK'
  BY <1>0, <1>1 DEF LaneTypeOK, LaneAdmin, LaneWorld, LanePcs, LaneInside
<1>6. LaneBooks'
  <2>1. LaneReserved' = LaneReserved
    BY <1>0 DEF LaneReserved, LaneInside
  <2> QED
    BY <1>0, <2>1 DEF LaneBooks, LaneAdmin
<1>7. LaneOneInside'
  BY <1>0 DEF LaneOneInside, LaneInside
<1>8. lnHandled[h]
  BY <1>0 DEF LaneAnswers
<1>9. LaneAnswers'
  BY <1>0, <1>4, <1>8 DEF LaneAnswers, LaneWorld
<1>10. \A k \in LaneHandlers \ {h} : LaneChecked(k)' = {}
  BY <1>0, <1>7 DEF LaneChecked, LaneOneInside, LaneInside
<1>11. LaneChecked(h)' \subseteq LaneChecked(h)
  BY <1>0 DEF LaneChecked, LaneInside
<1>12. \A y : LaneGuarded(y)' <=> LaneGuarded(y)
  BY <1>0 DEF LaneGuarded, LaneWorld
<1>13. lnSeen' = lnSeen
  BY <1>0 DEF LaneWorld
<1>14. LaneApart'
  <2>1. \A j, k \in LaneHandlers : \A i \in LaneChecked(k)' : \A y \in LaneAnswersOf(j)' :
           j # k /\ LaneGuarded(y)' /\ LaneGuarded(LaneBatch[k][i])' => lnSeen'[j] # lnSeen'[k]
    BY <1>4, <1>10, <1>11, <1>12, <1>13 DEF LaneApart
  <2>2. \A j, k \in LaneHandlers : \A y \in LaneAnswersOf(j)', z \in LaneAnswersOf(k)' :
           j # k /\ LaneGuarded(y)' /\ LaneGuarded(z)' => lnSeen'[j] # lnSeen'[k]
    BY <1>1, <1>2, <1>4, <1>12, <1>13 DEF LaneApart
  <2> QED
    BY <2>1, <2>2 DEF LaneApart
<1> QED
  BY <1>5, <1>6, <1>7, <1>9, <1>14

LEMMA LaneLeaseStep ==
  ASSUME LaneInductive, NEW h \in LaneHandlers, LaneLease(h)
  PROVE  LaneInductive'
<1>0. /\ LaneTypeOK /\ lnAt[h] \in DOMAIN LaneBatch[h] /\ lnPart' \in [LaneMessages -> LaneParts]
      /\ lnFit \in [LaneHandlers -> SUBSET Nat] /\ lnFit[h] \in SUBSET DOMAIN LaneBatch[h]
      /\ lnAt \in [LaneHandlers -> Nat] /\ lnPc[h] = "leasing" /\ lnPc \in [LaneHandlers -> LanePcs]
      /\ lnHandled \in [LaneHandlers -> BOOLEAN] /\ lnHandled[h] \in BOOLEAN
      /\ lnTrace \in [LaneMessages -> LaneStatuses] /\ lnScene' \in Nat /\ lnScene <= lnScene'
  BY DEF LaneInductive, LaneTypeOK, LaneLease
<1>1. CASE lnAnswered' # lnAnswered
  BY <1>1, LaneAnswerStep
<1>2. CASE lnAnswered' = lnAnswered
  <2>1. /\ lnHandled' = [lnHandled EXCEPT ![h] = lnHandled[h]] /\ lnFit' = [lnFit EXCEPT ![h] = lnFit[h]]
        /\ UNCHANGED LaneAdmin /\ UNCHANGED LaneWorld /\ UNCHANGED lnAnswered
    BY <1>0, <1>2 DEF LaneLease
  <2>2. lnTrace' \in [LaneMessages -> LaneStatuses]
    <3>1. lnTrace' = lnTrace \/ lnTrace' = LaneTold(LaneX(h), "FAILED")
      BY DEF LaneLease, LaneSay
    <3>2. "FAILED" \in LaneStatuses
      BY DEF LaneStatuses, LaneTerminal
    <3> QED
      BY <1>0, <3>1, <3>2, LaneToldType
  <2>3. PICK pc \in {"sending", "handling", "leaving"}, at \in DOMAIN LaneBatch[h] :
          lnPc' = [lnPc EXCEPT ![h] = pc] /\ lnAt' = [lnAt EXCEPT ![h] = at]
    <3>1. CASE LaneNext1(h)
      BY <1>0, <3>1, LaneStepMoves DEF LaneNext1
    <3>2. CASE lnPc' = [lnPc EXCEPT ![h] = "sending"] /\ lnAt' = lnAt
      <4>1. lnAt' = [lnAt EXCEPT ![h] = lnAt[h]]
        BY <1>0, <3>2
      <4> QED
        BY <1>0, <3>2, <4>1
    <3> QED
      BY <3>1, <3>2 DEF LaneLease, LaneGoto
  <2>4. LaneAnswersOf(h) = {}
    BY <1>0 DEF LaneInductive, LaneAnswers
  <2>5. \A i \in LaneChecked(h)' : i \in LaneChecked(h)
    BY <1>0, <2>1, <2>3 DEF LaneChecked, LaneInside
  <2>6. /\ lnPc[h] \in LaneHolding /\ pc \in LaneHolding /\ pc \notin LaneAnswering
        /\ pc \notin {"waiting", "writing", "leasing"} /\ lnPc[h] \in LaneInside
    BY <1>0 DEF LaneHolding, LaneInside, LaneAnswering
  <2> DEFINE fit == lnFit[h]
             handled == lnHandled[h]
  <2>7. /\ fit \in SUBSET DOMAIN LaneBatch[h] /\ handled \in BOOLEAN /\ (lnHandled[h] => handled)
        /\ lnHandled' = [lnHandled EXCEPT ![h] = handled] /\ lnFit' = [lnFit EXCEPT ![h] = fit]
    BY <1>0, <2>1
  <2> HIDE DEF fit, handled
  <2> QED
    BY <1>0, <2>1, <2>2, <2>3, <2>4, <2>5, <2>6, <2>7, LaneMoves
<1> QED
  BY <1>1, <1>2

\* Messages arrive, are ingested and sent.
LEMMA LaneWorldStep ==
  ASSUME LaneInductive, NEW e \in LaneMessages, LaneReceive(e) \/ LaneEnter(e) \/ LaneSend(e)
  PROVE  LaneInductive'
<1> USE DEF LaneInductive
<1>0. /\ UNCHANGED <<lnMode, lnPc, lnAt, lnFit, lnHandled, lnAnswered, lnSeen, lnOutcome>> /\ UNCHANGED LaneAdmin
      /\ lnScene' \in {lnScene, lnScene + 1} /\ lnScene \in Nat /\ \A k \in LaneHandlers : lnSeen[k] \in Nat
  BY DEF LaneReceive, LaneEnter, LaneSend, LaneWorld, LaneTypeOK
<1>1. LaneTypeOK'
  <2>1. lnTrace' \in [LaneMessages -> LaneStatuses] /\ lnPart' \in [LaneMessages -> LaneParts] /\ lnEntered' \subseteq LaneMessages
    BY DEF LaneReceive, LaneEnter, LaneSend, LaneWorld, LaneTypeOK, LaneStatuses, LaneTerminal, LaneParts
  <2> QED
    BY <1>0, <2>1 DEF LaneTypeOK, LaneAdmin
<1>2. LaneBooks' /\ LaneOneInside'
  BY <1>0 DEF LaneBooks, LaneReserved, LaneOneInside, LaneAdmin
<1>3. LaneAnswers'
  BY <1>0 DEF LaneAnswers, LaneAnswersOf
<1>4. LaneApart'
  BY <1>0 DEF LaneApart, LaneAnswersOf, LaneChecked, LaneGuarded
<1> QED
  BY <1>1, <1>2, <1>3, <1>4

LEMMA LaneInductiveStep == LaneInductive /\ [LaneNext]_lnVars => LaneInductive'
<1> SUFFICES ASSUME LaneInductive, [LaneNext]_lnVars PROVE LaneInductive'
  OBVIOUS
<1>1. ASSUME NEW e \in LaneMessages, LaneReceive(e) \/ LaneEnter(e) \/ LaneSend(e) PROVE LaneInductive'
  BY <1>1, LaneWorldStep
<1>2. ASSUME NEW h \in LaneHandlers, LaneHandlerNext(h) PROVE LaneInductive'
  BY <1>2, LaneDrainStep, LaneReserveStep, LaneKeepStep, LaneWaitStep, LaneFinishStep, LaneHandleStep,
     LaneReadStep, LaneWriteStep, LaneLeaseStep DEF LaneHandlerNext
<1>3. CASE UNCHANGED lnVars
  BY <1>3 DEF lnVars, LaneInductive, LaneTypeOK, LaneBooks, LaneReserved, LaneOneInside, LaneAnswers, LaneAnswersOf,
     LaneApart, LaneChecked, LaneGuarded
<1> QED
  BY <1>1, <1>2, <1>3 DEF LaneNext

LEMMA LaneAlways == LaneSpec => []LaneInductive
<1> QED
  BY LaneStart, LaneInductiveStep, PTL DEF LaneSpec

LEMMA LaneInductiveIsSound == LaneInductive => LaneSound
<1> SUFFICES ASSUME LaneInductive, NEW x \in lnAnswered, NEW y \in lnAnswered,
                    LaneGuarded(x), LaneGuarded(y), LaneSeenBy(x) = LaneSeenBy(y)
             PROVE  x = y
  BY DEF LaneInductive, LaneSound, LaneOneAnswerPerScene
<1>1. ASSUME NEW z \in lnAnswered
      PROVE  \E h \in LaneHandlers : z \in LaneAnswersOf(h) /\ LaneSeenBy(z) = lnSeen[h]
  <2>1. PICK h \in LaneHandlers : \E i \in DOMAIN LaneBatch[h] : LaneBatch[h][i] = z
    BY DEF LaneInductive, LaneTypeOK, LaneEvaluations
  <2>2. \A k \in LaneHandlers : (\E i \in DOMAIN LaneBatch[k] : LaneBatch[k][i] = z) => k = h
    BY <2>1, LaneConstants
  <2>3. (CHOOSE k \in LaneHandlers : \E i \in DOMAIN LaneBatch[k] : LaneBatch[k][i] = z) = h
    BY <2>1, <2>2
  <2> QED
    BY <2>1, <2>3 DEF LaneSeenBy, LaneAnswersOf, LaneOf
<1>2. PICK h \in LaneHandlers, k \in LaneHandlers :
         x \in LaneAnswersOf(h) /\ y \in LaneAnswersOf(k) /\ lnSeen[h] = lnSeen[k]
  BY <1>1
<1>3. h = k
  BY <1>2 DEF LaneInductive, LaneApart
<1> QED
  BY <1>2, <1>3 DEF LaneInductive, LaneAnswers

-----------------------------------------------------------------------------
(* The variables of the lane, its handlers and its traces keep their types. *)
THEOREM LaneTypes == LaneSpec => []LaneTypeOK
<1>1. LaneInductive => LaneTypeOK
  BY DEF LaneInductive
<1> QED
  BY <1>1, LaneAlways, PTL

\* One handler of a group is inside at a time, whoever waits, is cancelled
\* or raises, and of the guarded judgements made for one scene one answer
\* at most moved the scene by its lease event (astrbot_bridge.py, the reply
\* lanes).  A scene that moves while a reply is written is not excluded.
THEOREM LaneStaysSound == LaneSpec => []LaneSound
<1> QED
  BY LaneInductiveIsSound, LaneAlways, PTL

LEMMA LaneContextStep == LaneTypeOK /\ [LaneNext]_lnVars => LaneContextKeepsEnd
<1> SUFFICES ASSUME LaneTypeOK, [LaneNext]_lnVars, NEW e \in LaneMessages, NEW h \in LaneHandlers,
                    lnPc'[h] # lnPc[h] \/ lnAt'[h] # lnAt[h],
                    lnTrace[e] \in LaneTerminal, lnTrace'[e] # lnTrace[e]
             PROVE  e = LaneSource[LaneX(h)]
  BY DEF LaneContextKeepsEnd
<1>1. ASSUME NEW k \in LaneHandlers, LaneHandlerNext(k) PROVE e = LaneSource[LaneX(h)]
  <2>1. k = h
    BY <1>1 DEF LaneTypeOK, LaneHandlerNext, LaneDrain, LaneReserve, LanePrepare, LaneAcquire, LaneRecheck, LaneFinish,
       LaneCancel, LaneHandle, LaneRead, LanePreview, LaneWrite, LaneLease, LaneSent, LaneStep, LaneNext1, LaneGoto
  <2>2. \/ lnTrace' = lnTrace
        \/ \E last \in LaneStatuses : lnTrace' = LaneTold(LaneX(k), last)
    BY <1>1, LaneJudgedType DEF LaneHandlerNext, LaneDrain, LaneReserve, LanePrepare, LaneAcquire, LaneRecheck,
       LaneFinish, LaneCancel, LaneHandle, LaneRead, LanePreview, LaneWrite, LaneLease, LaneSent, LaneKeep, LaneSay,
       LaneStatuses, LaneTerminal
  <2> QED
    BY <2>1, <2>2 DEF LaneTold, LaneContext
<1>2. ASSUME NEW m \in LaneMessages, LaneReceive(m) \/ LaneEnter(m) \/ LaneSend(m) PROVE FALSE
  BY <1>2 DEF LaneReceive, LaneEnter, LaneSend
<1> QED
  BY <1>1, <1>2 DEF LaneNext, lnVars

(* No step of a handler rewrites how a message ended that is only context  *)
(* of its judgement (message_traces.py).                                   *)
THEOREM LaneEndsStand == LaneSpec => [][LaneContextKeepsEnd]_lnVars
<1> QED
  BY LaneTypes, LaneContextStep, PTL DEF LaneSpec

----------------------------------------------------------------------------
(***************************************************************************)
(* Theorems about the chorus, for any group, texts, readings and windows.  *)
(***************************************************************************)

(***************************************************************************)
(* The inductive invariant.  Evidence that was found is shared: the same   *)
(* words by two humans within the window; an evaluation that waits knows   *)
(* what it was told of the chains marked; an echo rests on such evidence,  *)
(* spares the members who do not play and is of a chain its evaluation did *)
(* not know as joined.                                                     *)
(***************************************************************************)
ChShared(js, text, events) ==
  /\ js \subseteq DOMAIN events /\ Cardinality({events[j].by : j \in js}) >= 2
  /\ \A j \in js : events[j].text = text
  /\ \A i, j \in js : events[i].at - events[j].at <= ChWindow
ChUnmarked(chain, marked, at) == \A c \in marked : c.chain = chain => c.at < at - ChHorizon
ChFair(x, events) ==
  /\ x.source \in DOMAIN events
  /\ x.evidence.found =>
       /\ ChShared(x.evidence.events, events[x.source].text, events) /\ x.evidence.chain \in x.evidence.events
       /\ Cardinality(x.evidence.events) >= 2
       /\ ~ x.evidence.joined => ChUnmarked(x.evidence.chain, x.marked, x.at)
  /\ ~ x.evidence.found => x.evidence.events = {}
ChFine(r, events) ==
  /\ r \in ChEcho /\ ChShared(r.events, r.text, events) /\ r.chain \in r.events
  /\ r.target \in {"OTHER", "MEMBER"} /\ (r.target = "MEMBER" => r.about \in ChPlayful \ ChFirm)
  /\ ChUnmarked(r.chain, r.marked, r.judged)
\* What a step must keep, in three parts.
ChBooksSound ==
  /\ chNow \in 0 .. ChLastTime /\ chEvents \in Seq(ChMessage) /\ Len(chEvents) <= ChLastEvent
  /\ chJudged \subseteq DOMAIN chEvents
  /\ chJoined \subseteq ChMarks /\ \A c \in chJoined : c.chain \in DOMAIN chEvents
  /\ chAnswer \in [move : ChMoves, failed : BOOLEAN, ambient : BOOLEAN]
ChQueueSound == chQueue \in Seq(ChJudgement) /\ \A i \in 1 .. Len(chQueue) : ChFair(chQueue[i], chEvents)
ChEchoesSound == (chReply = ChNoReply \/ ChFine(chReply, chEvents)) /\ \A s \in chSaid : ChFine(s, chEvents)
ChInductive == ChBooksSound /\ ChQueueSound /\ ChEchoesSound

(***************************************************************************)
(* The messages only grow in number: what was found among them stays.      *)
(***************************************************************************)
LEMMA ChSharedStays ==
  ASSUME NEW old \in Seq(ChMessage), NEW new \in Seq(ChMessage), \A i \in 1 .. Len(old) : i \in 1 .. Len(new) /\ new[i] = old[i],
         NEW js, NEW text, ChShared(js, text, old)
  PROVE  ChShared(js, text, new)
<1>1. js \subseteq 1 .. Len(old) /\ js \subseteq 1 .. Len(new) /\ \A j \in js : new[j] = old[j]
  BY DEF ChShared
<1>2. {new[j].by : j \in js} = {old[j].by : j \in js}
  BY <1>1
<1>3. js \subseteq DOMAIN new
  BY <1>1
<1>4. Cardinality({new[j].by : j \in js}) >= 2
  BY <1>2 DEF ChShared
<1>5. \A i, j \in js : new[i].at - new[j].at <= ChWindow
  BY <1>1 DEF ChShared
<1>6. \A j \in js : new[j].text = text
  BY <1>1 DEF ChShared
<1> QED
  BY <1>3, <1>4, <1>5, <1>6 DEF ChShared

LEMMA ChFairStays ==
  ASSUME NEW old \in Seq(ChMessage), NEW new \in Seq(ChMessage), \A i \in 1 .. Len(old) : i \in 1 .. Len(new) /\ new[i] = old[i],
         NEW x, ChFair(x, old)
  PROVE  ChFair(x, new)
<1>1. x.source \in 1 .. Len(old) /\ x.source \in 1 .. Len(new) /\ new[x.source] = old[x.source]
  BY DEF ChFair
<1>2. x.evidence.found => ChShared(x.evidence.events, new[x.source].text, new)
  BY <1>1, ChSharedStays DEF ChFair
<1> QED
  BY <1>1, <1>2 DEF ChFair

LEMMA ChFineStays ==
  ASSUME NEW old \in Seq(ChMessage), NEW new \in Seq(ChMessage), \A i \in 1 .. Len(old) : i \in 1 .. Len(new) /\ new[i] = old[i],
         NEW r, ChFine(r, old)
  PROVE  ChFine(r, new)
<1>1. ChShared(r.events, r.text, new)
  BY ChSharedStays DEF ChFine
<1> QED
  BY <1>1 DEF ChFine

\* What two humans said is two messages at least.
LEMMA ChTwoVoices ==
  ASSUME NEW events \in Seq(ChMessage), NEW js \in SUBSET DOMAIN events, Cardinality({events[j].by : j \in js}) >= 2
  PROVE  IsFiniteSet(js) /\ Cardinality(js) >= 2
<1> DEFINE voice == [j \in js |-> events[j].by]
           voices == {events[j].by : j \in js}
<1>1. IsFiniteSet(js)
  <2>1. IsFiniteSet(1 .. Len(events))
    BY FS_Interval
  <2>2. js \in SUBSET (1 .. Len(events))
    OBVIOUS
  <2> QED
    BY <2>1, <2>2, FS_Subset
<1>2. voice \in Surjection(js, voices)
  BY DEF Surjection
<1>3. Cardinality(voices) <= Cardinality(js) /\ IsFiniteSet(voices)
  BY <1>1, <1>2, FS_Surjection
<1>4. Cardinality(js) \in Nat /\ Cardinality(voices) \in Nat
  BY <1>1, <1>3, FS_CardinalityType
<1> QED
  BY <1>1, <1>3, <1>4

\* What the detector finds is a chorus that the memory of the last hour does not name.
LEMMA ChFound ==
  ASSUME ChBooksSound, NEW i \in DOMAIN chEvents, NEW e, e = ChEvidence(i)
  PROVE  /\ e \in ChChorusEvidence /\ (~ e.found => e.events = {})
         /\ e.found => /\ ChShared(e.events, chEvents[i].text, chEvents) /\ e.chain \in e.events /\ Cardinality(e.events) >= 2
                       /\ ~ e.joined => ChUnmarked(e.chain, chJoined, chNow)
<1>1. chEvents \in Seq(ChMessage) /\ DOMAIN chEvents = 1 .. Len(chEvents) /\ Len(chEvents) \in Nat /\ chNow \in Nat /\ ChHorizon \in Nat
      /\ ChWindow \in Nat /\ ChLastTime \in Nat
  BY ChConstants DEF ChBooksSound
<1>2. \A j \in DOMAIN chEvents : chEvents[j] \in ChMessage /\ chEvents[j].at \in Nat
  <2>1. \A j \in DOMAIN chEvents : chEvents[j] \in ChMessage
    BY <1>1
  <2> QED
    BY <2>1, <1>1 DEF ChMessage
<1>3. PICK js : js = ChMatching(i)
  OBVIOUS
<1>4. js \in SUBSET Nat /\ js \subseteq DOMAIN chEvents /\ i \in js
  BY <1>1, <1>2, <1>3 DEF ChMatching
<1>5. /\ \A j \in js : chEvents[j].text = chEvents[i].text
      /\ \A j, k \in js : chEvents[j].at - chEvents[k].at <= ChWindow
  <2>1. \A j \in js : chEvents[j].text = chEvents[i].text /\ chEvents[j].at <= chEvents[i].at /\ chEvents[i].at - chEvents[j].at <= ChWindow
    BY <1>3 DEF ChMatching
  <2>2. chEvents[i].at \in Nat /\ \A j \in js : chEvents[j].at \in Nat
    BY <1>2, <1>4
  <2>3. ASSUME NEW j \in js, NEW k \in js PROVE chEvents[j].at - chEvents[k].at <= ChWindow
    <3>1. chEvents[j].at <= chEvents[i].at /\ chEvents[i].at - chEvents[k].at <= ChWindow
      BY <2>1
    <3> QED
      BY <3>1, <2>2, <1>1
  <2> QED
    BY <2>1, <2>3
<1>6. Min(js) \in js /\ Min(js) \in Nat
  BY <1>4, ChatLeast
<1>7. CASE ChIsChorus(js)
  <2>1. PICK chain, joined : chain = Min(js) /\ joined = (\E c \in ChRecentJoined : c.chain = Min(js))
    OBVIOUS
  <2>2. joined \in BOOLEAN
    BY <2>1
  <2>3. e = [found |-> TRUE, events |-> js, chain |-> chain, joined |-> joined]
    BY <1>3, <1>7, <2>1 DEF ChEvidence, ChChain
  <2>4. e \in ChChorusEvidence /\ e.found /\ e.events = js /\ e.chain = chain /\ e.joined = joined
    BY <2>1, <2>2, <2>3, <1>4, <1>6 DEF ChChorusEvidence
  <2>5. ChShared(js, chEvents[i].text, chEvents)
    BY <1>4, <1>5, <1>7 DEF ChShared, ChIsChorus, ChVoices
  <2>6. Cardinality(js) >= 2
    BY <2>5, <1>1, <1>4, ChTwoVoices DEF ChShared
  <2>7. ~ joined => ChUnmarked(chain, chJoined, chNow)
    <3> SUFFICES ASSUME ~ joined, NEW c \in chJoined, c.chain = chain PROVE c.at < chNow - ChHorizon
      BY DEF ChUnmarked
    <3>1. ~(c.at >= chNow - ChHorizon)
      BY <2>1 DEF ChRecentJoined
    <3>2. c.at \in Nat
      BY <1>1 DEF ChBooksSound, ChMarks
    <3> QED
      BY <3>1, <3>2, <1>1
  <2> QED
    BY <2>1, <2>4, <2>5, <2>6, <2>7, <1>6
<1>8. CASE ~ ChIsChorus(js)
  <2>1. e = [found |-> FALSE, events |-> {}, chain |-> 0, joined |-> FALSE]
    BY <1>3, <1>8 DEF ChEvidence
  <2> QED
    BY <2>1 DEF ChChorusEvidence
<1> QED
  BY <1>7, <1>8

\* Only a chorus that was found and not joined is echoed, and only when whom it
\* is about plays along.
LEMMA ChMoveIsSafe ==
  ASSUME NEW r \in ChAllReadings, NEW works \in BOOLEAN, NEW text \in ChTexts, NEW author, NEW modes, NEW e,
         e.found \in BOOLEAN, e.joined \in BOOLEAN,
         NEW scene, scene = IF works THEN ChInterpreted(r, text, e) ELSE ChFallback,
         NEW move, move = ChMove(scene, ChStance(scene, author, modes), e)
  PROVE  /\ move \in ChMoves
         /\ move = "JOIN_CHORUS" =>
              /\ e.found /\ ~ e.joined /\ scene.target \in {"OTHER", "MEMBER"}
              /\ scene.about \in ChMembers \cup {ChNobody, "stranger"}
              /\ scene.target = "MEMBER" => scene.about \in ChPlayful \ ChFirm
<1>1. PICK stance : stance = ChStance(scene, author, modes)
  OBVIOUS
<1>2. move \in ChMoves
  BY <1>1 DEF ChMove, ChChorusMove, ChPlainMove, ChMoves
<1>3. ASSUME move = "JOIN_CHORUS"
      PROVE  ~ e.joined /\ scene.target \in {"OTHER", "MEMBER"} /\ scene.tone = "SAFE_BANTER" /\ stance.will = "WILLING"
  BY <1>1, <1>3 DEF ChMove, ChChorusMove, ChPlainMove
<1>4. ASSUME stance.will = "WILLING", scene.target = "MEMBER" PROVE scene.about \in ChPlayful \ ChFirm
  BY <1>1, <1>4 DEF ChStance, ChStand, ChUnwilling, ChCompatible
<1>5. ChFallback.target = "NONE" /\ ChUnknown.target = "UNKNOWN"
  BY DEF ChFallback, ChUnknown, ChNoScene
<1>6. ASSUME scene.target \in {"OTHER", "MEMBER"} PROVE e.found /\ scene.about \in ChMembers \cup {ChNobody, "stranger"}
  <2>1. works /\ scene = ChInterpreted(r, text, e)
    BY <1>5, <1>6
  <2>2. CASE e.found
    <3>1. PICK f : f = ChFrozen(r, text)
      OBVIOUS
    <3>2. f.about \in ChMembers \cup {ChNobody, "stranger"}
      <4>1. PICK guess : guess = CHOOSE m \in ChNamedIn(text) : TRUE
        OBVIOUS
      <4>2. ChNamedIn(text) # {} => guess \in ChMembers
        BY <4>1 DEF ChNamedIn
      <4> QED
        BY <3>1, <4>1, <4>2 DEF ChFrozen, ChAllReadings
    <3>3. scene = ChSceneOf(f)
      BY <2>1, <2>2, <3>1, <1>5, <1>6 DEF ChInterpreted
    <3> QED
      BY <3>2, <3>3, <2>2 DEF ChSceneOf
  <2>3. CASE ~ e.found
    <3>1. scene.target = "NONE"
      BY <2>1, <2>3, <1>5 DEF ChInterpreted, ChSceneOf
    <3> QED
      BY <3>1, <1>6
  <2> QED
    BY <2>2, <2>3
<1> QED
  BY <1>2, <1>3, <1>4, <1>6

(***************************************************************************)
(* The steps.                                                              *)
(***************************************************************************)
LEMMA ChStarts == ASSUME ChInit PROVE ChInductive
<1>1. ChBooksSound
  <2>1. chNow \in 0 .. ChLastTime /\ Len(chEvents) <= ChLastEvent /\ chEvents \in Seq(ChMessage)
    BY ChConstants DEF ChInit
  <2> QED
    BY <2>1 DEF ChInit, ChBooksSound, ChNoAnswer, ChMoves
<1>2. ChQueueSound
  BY DEF ChInit, ChQueueSound
<1>3. ChEchoesSound
  BY DEF ChInit, ChEchoesSound
<1> QED
  BY <1>1, <1>2, <1>3 DEF ChInductive

LEMMA ChSpeaks ==
  ASSUME ChInductive, ChSpeakUp PROVE ChInductive'
<1>1. PICK m \in ChMembers, t \in ChTexts : chEvents' = Append(chEvents, [by |-> m, text |-> t, at |-> chNow])
  BY DEF ChSpeakUp
<1>2. PICK new : new = [by |-> m, text |-> t, at |-> chNow]
  OBVIOUS
<1>3. UNCHANGED <<chNow, chJudged, chQueue, chJoined, chReply, chSaid, chAnswer>> /\ Len(chEvents) < ChLastEvent
  BY DEF ChSpeakUp
<1>4. chEvents \in Seq(ChMessage) /\ Len(chEvents) \in Nat /\ new \in ChMessage /\ chEvents' = Append(chEvents, new) /\ ChLastEvent \in Nat
  BY <1>1, <1>2, ChConstants DEF ChInductive, ChBooksSound, ChMessage
<1>5. chEvents' \in Seq(ChMessage) /\ Len(chEvents') = Len(chEvents) + 1 /\ \A i \in 1 .. Len(chEvents) : i \in 1 .. Len(chEvents') /\ chEvents'[i] = chEvents[i]
  BY <1>4
<1>6. ChBooksSound'
  <2>1. Len(chEvents') <= ChLastEvent /\ DOMAIN chEvents \subseteq DOMAIN chEvents'
    BY <1>3, <1>4, <1>5
  <2> QED
    BY <2>1, <1>3, <1>5 DEF ChInductive, ChBooksSound
<1>7. PICK old, now : old = chEvents /\ now = chEvents'
  OBVIOUS
<1>8. old \in Seq(ChMessage) /\ now \in Seq(ChMessage) /\ \A i \in 1 .. Len(old) : i \in 1 .. Len(now) /\ now[i] = old[i]
  BY <1>4, <1>5, <1>7
<1>9. \A x : ChFair(x, old) => ChFair(x, now)
  BY <1>8, ChFairStays
<1>10. \A r : ChFine(r, old) => ChFine(r, now)
  BY <1>8, ChFineStays
<1>11. ChQueueSound'
  BY <1>3, <1>7, <1>9 DEF ChInductive, ChQueueSound
<1>12. ChEchoesSound'
  BY <1>3, <1>7, <1>10 DEF ChInductive, ChEchoesSound
<1> QED
  BY <1>6, <1>11, <1>12 DEF ChInductive

LEMMA ChJudges ==
  ASSUME ChInductive, ChEvaluate PROVE ChInductive'
<1>1. PICK i \in DOMAIN chEvents \ chJudged, ambient \in BOOLEAN, act \in BOOLEAN :
        /\ chJudged' = chJudged \cup {i} /\ chAnswer' = ChNoAnswer
        /\ chQueue' = IF act THEN Append(chQueue, [source |-> i, evidence |-> ChEvidence(i), marked |-> chJoined, ambient |-> ambient, at |-> chNow])
                      ELSE chQueue
        /\ UNCHANGED <<chNow, chEvents, chJoined, chReply, chSaid>>
  BY DEF ChEvaluate
<1>2. ChBooksSound /\ ChQueueSound
  BY DEF ChInductive
<1>3. ChBooksSound' /\ ChEchoesSound'
  BY <1>1, <1>2 DEF ChInductive, ChBooksSound, ChEchoesSound, ChNoAnswer, ChMoves
<1>4. PICK e : e = ChEvidence(i)
  OBVIOUS
<1>5. PICK new : new = [source |-> i, evidence |-> e, marked |-> chJoined, ambient |-> ambient, at |-> chNow]
  OBVIOUS
<1>6. /\ e \in ChChorusEvidence /\ (~ e.found => e.events = {})
      /\ e.found => /\ ChShared(e.events, chEvents[i].text, chEvents) /\ e.chain \in e.events /\ Cardinality(e.events) >= 2
                    /\ ~ e.joined => ChUnmarked(e.chain, chJoined, chNow)
  BY <1>2, <1>4, ChFound
<1>7. i \in Nat /\ i \in DOMAIN chEvents
  BY <1>2 DEF ChBooksSound
<1>8. new \in ChJudgement /\ ChFair(new, chEvents)
  BY <1>2, <1>5, <1>6, <1>7 DEF ChBooksSound, ChJudgement, ChFair
<1>9. ChQueueSound'
  <2>1. CASE act
    <3>1. chQueue' = Append(chQueue, new) /\ chQueue \in Seq(ChJudgement) /\ Len(chQueue) \in Nat
      BY <1>1, <1>2, <1>4, <1>5, <2>1 DEF ChQueueSound
    <3>2. chQueue' \in Seq(ChJudgement) /\ \A j \in 1 .. Len(chQueue') : chQueue'[j] = new \/ (j \in 1 .. Len(chQueue) /\ chQueue'[j] = chQueue[j])
      BY <3>1, <1>8
    <3> QED
      BY <3>2, <1>1, <1>2, <1>8 DEF ChQueueSound
  <2>2. CASE ~ act
    BY <1>1, <1>2, <2>2 DEF ChQueueSound
  <2> QED
    BY <2>1, <2>2
<1> QED
  BY <1>3, <1>9 DEF ChInductive

LEMMA ChReplies ==
  ASSUME ChInductive, ChAnswered PROVE ChInductive'
<1>1. ChBooksSound /\ ChQueueSound /\ ChEchoesSound /\ chQueue \in Seq(ChJudgement) /\ chQueue # <<>> /\ Len(chQueue) \in Nat
  BY DEF ChInductive, ChQueueSound, ChAnswered
<1>2. UNCHANGED <<chNow, chEvents, chJudged, chJoined, chSaid>> /\ chQueue' = Tail(chQueue)
  BY DEF ChAnswered
<1>3. PICK x, e : x = Head(chQueue) /\ e = x.evidence
  OBVIOUS
<1>4. x \in ChJudgement /\ ChFair(x, chEvents) /\ e \in ChChorusEvidence
  <2>1. x = chQueue[1] /\ 1 \in 1 .. Len(chQueue)
    BY <1>1, <1>3
  <2>2. x \in ChJudgement
    BY <2>1, <1>1
  <2> QED
    BY <2>1, <2>2, <1>1, <1>3 DEF ChQueueSound, ChJudgement
<1>5. PICK event : event = chEvents[x.source]
  OBVIOUS
<1>6. event \in ChMessage
  BY <1>1, <1>4, <1>5 DEF ChBooksSound, ChFair
<1>7. PICK r \in ChReadings, works \in BOOLEAN, modes \in SUBSET {"avoid_play"} : ChAnswer(x, r, works, modes)
  BY <1>3 DEF ChAnswered
<1>8. PICK scene : scene = IF works THEN ChInterpreted(r, event.text, e) ELSE ChFallback
  OBVIOUS
<1>9. PICK move, failed : move = ChMove(scene, ChStance(scene, event.by, modes), e) /\ failed = (scene = ChFallback)
  OBVIOUS
<1>10. /\ chAnswer' = [move |-> move, failed |-> failed, ambient |-> x.ambient]
       /\ chReply' = IF move = "JOIN_CHORUS"
                     THEN [phase |-> "sending", chain |-> e.chain, events |-> e.events, text |-> event.text,
                           target |-> scene.target, about |-> scene.about, marked |-> x.marked, judged |-> x.at]
                     ELSE ChNoReply
  BY <1>3, <1>5, <1>7, <1>8, <1>9 DEF ChAnswer
<1>11. /\ move \in ChMoves
       /\ move = "JOIN_CHORUS" =>
            /\ e.found /\ ~ e.joined /\ scene.target \in {"OTHER", "MEMBER"}
            /\ scene.about \in ChMembers \cup {ChNobody, "stranger"}
            /\ scene.target = "MEMBER" => scene.about \in ChPlayful \ ChFirm
  <2>1. r \in ChAllReadings /\ event.text \in ChTexts /\ e.found \in BOOLEAN /\ e.joined \in BOOLEAN
    BY <1>4, <1>6, ChConstants DEF ChMessage, ChChorusEvidence
  <2> QED
    BY <2>1, <1>8, <1>9, ChMoveIsSafe
<1>12. ChBooksSound'
  <2>1. failed \in BOOLEAN /\ x.ambient \in BOOLEAN
    BY <1>4, <1>9 DEF ChJudgement
  <2> QED
    BY <2>1, <1>1, <1>2, <1>10, <1>11 DEF ChBooksSound
<1>13. ChQueueSound'
  <2>1. chQueue' \in Seq(ChJudgement) /\ \A j \in 1 .. Len(chQueue') : j + 1 \in 1 .. Len(chQueue) /\ chQueue'[j] = chQueue[j + 1]
    BY <1>1, <1>2
  <2> QED
    BY <2>1, <1>1, <1>2 DEF ChQueueSound
<1>14. ChEchoesSound'
  <2>1. CASE move = "JOIN_CHORUS"
    <3>1. PICK echo : echo = [phase |-> "sending", chain |-> e.chain, events |-> e.events, text |-> event.text,
                             target |-> scene.target, about |-> scene.about, marked |-> x.marked, judged |-> x.at]
      OBVIOUS
    <3>2. echo \in ChEcho
      BY <3>1, <2>1, <1>4, <1>6, <1>11 DEF ChEcho, ChTargets, ChMessage, ChJudgement, ChChorusEvidence
    <3>3. ChShared(e.events, event.text, chEvents) /\ e.chain \in e.events /\ ChUnmarked(e.chain, x.marked, x.at)
      BY <2>1, <1>3, <1>4, <1>5, <1>11 DEF ChFair
    <3>4. /\ echo.events = e.events /\ echo.text = event.text /\ echo.chain = e.chain /\ echo.target = scene.target /\ echo.about = scene.about
          /\ echo.marked = x.marked /\ echo.judged = x.at
      BY <3>1
    <3>5. ChFine(echo, chEvents)
      BY <3>2, <3>3, <3>4, <2>1, <1>11 DEF ChFine
    <3> QED
      BY <3>1, <3>5, <2>1, <1>1, <1>2, <1>10 DEF ChEchoesSound
  <2>2. CASE move # "JOIN_CHORUS"
    BY <2>2, <1>1, <1>2, <1>10 DEF ChEchoesSound
  <2> QED
    BY <2>1, <2>2
<1> QED
  BY <1>12, <1>13, <1>14 DEF ChInductive

LEMMA ChShows ==
  ASSUME ChInductive, ChSend PROVE ChInductive'
<1>1. UNCHANGED <<chNow, chEvents, chJudged, chQueue, chJoined, chAnswer>> /\ chReply.phase = "sending"
  BY DEF ChSend
<1>2. ChFine(chReply, chEvents)
  BY <1>1 DEF ChInductive, ChEchoesSound, ChNoReply
<1>3. PICK sent : sent = [chReply EXCEPT !.phase = "sent"]
  OBVIOUS
<1>4. ChFine(sent, chEvents)
  <2>1. sent \in ChEcho /\ sent.events = chReply.events /\ sent.text = chReply.text /\ sent.chain = chReply.chain /\ sent.target = chReply.target
        /\ sent.about = chReply.about /\ sent.marked = chReply.marked /\ sent.judged = chReply.judged
    BY <1>2, <1>3 DEF ChFine, ChEcho
  <2> QED
    BY <2>1, <1>2 DEF ChFine
<1>5. chReply' \in {sent, ChNoReply} /\ chSaid' \subseteq chSaid \cup {chReply}
  BY <1>3 DEF ChSend
<1>6. ChEchoesSound'
  BY <1>1, <1>2, <1>4, <1>5 DEF ChInductive, ChEchoesSound
<1> QED
  BY <1>1, <1>6 DEF ChInductive, ChBooksSound, ChQueueSound

LEMMA ChMarksIt ==
  ASSUME ChInductive, ChMark PROVE ChInductive'
<1>1. UNCHANGED <<chNow, chEvents, chJudged, chQueue, chSaid, chAnswer>> /\ chReply.phase = "sent" /\ chReply' = ChNoReply
      /\ chJoined' \subseteq chJoined \cup {[chain |-> chReply.chain, at |-> chNow]}
  BY DEF ChMark
<1>2. chReply \in ChEcho /\ chReply.chain \in DOMAIN chEvents
  BY <1>1 DEF ChInductive, ChEchoesSound, ChNoReply, ChFine, ChShared
<1>3. PICK new : new = [chain |-> chReply.chain, at |-> chNow]
  OBVIOUS
<1>4. new \in ChMarks /\ new.chain = chReply.chain
  BY <1>2, <1>3 DEF ChInductive, ChBooksSound, ChMarks, ChEcho
<1>5. ChBooksSound'
  BY <1>1, <1>2, <1>3, <1>4 DEF ChInductive, ChBooksSound
<1> QED
  BY <1>1, <1>5 DEF ChInductive, ChQueueSound, ChEchoesSound

LEMMA ChDies ==
  ASSUME ChInductive, ChCrash PROVE ChInductive'
<1>1. chQueue' \in Seq(ChJudgement) /\ Len(chQueue') = 0
  BY DEF ChCrash
<1> QED
  BY <1>1 DEF ChCrash, ChInductive, ChBooksSound, ChQueueSound, ChEchoesSound

LEMMA ChSteps ==
  ASSUME ChInductive, [ChNext]_chVars PROVE ChInductive'
<1>1. CASE UNCHANGED chVars
  BY <1>1 DEF chVars, ChInductive, ChBooksSound, ChQueueSound, ChEchoesSound
<1>2. CASE ChTick
  <2>1. chNow' \in 0 .. ChLastTime
    BY <1>2, ChConstants DEF ChTick, ChInductive, ChBooksSound
  <2> QED
    BY <2>1, <1>2 DEF ChTick, ChInductive, ChBooksSound, ChQueueSound, ChEchoesSound
<1> QED
  BY <1>1, <1>2, ChSpeaks, ChJudges, ChReplies, ChShows, ChMarksIt, ChDies DEF ChNext

LEMMA ChAlways == ChSpec => []ChInductive
<1>1. ChInit => ChInductive
  BY ChStarts
<1>2. ChInductive /\ [ChNext]_chVars => ChInductive'
  BY ChSteps
<1> QED
  BY <1>1, <1>2, PTL DEF ChSpec

(***************************************************************************)
(* The theorems.                                                           *)
(***************************************************************************)
\* What waits, is sent and was said keeps its types, and evidence is of two
\* messages by two humans (chorus.py, social_moves.py).
THEOREM ChTypes == ChSpec => []ChTypeOK
<1>1. ASSUME ChInductive PROVE ChTypeOK
  <2>1. chReply = ChNoReply \/ chReply \in ChEcho
    BY <1>1 DEF ChInductive, ChEchoesSound, ChFine
  <2>2. chSaid \subseteq ChEcho
    BY <1>1 DEF ChInductive, ChEchoesSound, ChFine
  <2>3. ASSUME NEW i \in DOMAIN chQueue PROVE chQueue[i].source \in DOMAIN chEvents /\ ChHolds(chQueue[i].evidence)
    <3>1. PICK x : x = chQueue[i]
      OBVIOUS
    <3>2. ChFair(x, chEvents) /\ x.evidence.found \in BOOLEAN
      <4>1. chQueue \in Seq(ChJudgement) /\ i \in 1 .. Len(chQueue)
        BY <1>1 DEF ChInductive, ChQueueSound
      <4>2. x \in ChJudgement
        BY <3>1, <4>1
      <4>3. x.evidence \in ChChorusEvidence
        BY <4>2 DEF ChJudgement
      <4> QED
        BY <1>1, <3>1, <4>1, <4>3 DEF ChInductive, ChQueueSound, ChChorusEvidence
    <3>3. ChHolds(x.evidence)
      BY <3>2 DEF ChFair, ChHolds, ChVoices, ChShared
    <3> QED
      BY <3>1, <3>2, <3>3 DEF ChFair
  <2> QED
    BY <1>1, <2>1, <2>2, <2>3 DEF ChInductive, ChBooksSound, ChQueueSound, ChTypeOK
<1> QED
  BY <1>1, ChAlways, PTL

\* An echo is of what two humans said within the window, spares the members
\* who do not play, and is of no chain its evaluation could know as marked
\* (chorus.py, stances.py, social_moves.py).
THEOREM ChEchoesAreSound == ChSpec => [](ChEchoIsShared /\ ChEchoIsHarmless /\ ChMarkedIsFinal)
<1>1. ASSUME ChInductive PROVE ChEchoIsShared /\ ChEchoIsHarmless /\ ChMarkedIsFinal
  <2>1. \A s \in chSaid : ChFine(s, chEvents)
    BY <1>1 DEF ChInductive, ChEchoesSound
  <2>2. ChEchoIsShared
    BY <2>1 DEF ChFine, ChShared, ChEchoIsShared
  <2>3. ChEchoIsHarmless
    BY <2>1 DEF ChFine, ChEchoIsHarmless
  <2>4. ChMarkedIsFinal
    BY <2>1 DEF ChFine, ChUnmarked, ChMarkedIsFinal
  <2> QED
    BY <2>2, <2>3, <2>4
<1> QED
  BY <1>1, ChAlways, PTL

----------------------------------------------------------------------------
(***************************************************************************)
(* Theorems about a reply for every set of facts and evaluations, any risk *)
(* classes and grace, and any bound on time and releases.                  *)
(***************************************************************************)

LEMMA EarlierOf ==
  ASSUME NEW a \in Nat, NEW b \in Nat PROVE Min({a, b}) \in Nat
<1>1. CASE a <= b
  <2>1. Min({a, b}) = a
    BY <1>1 DEF Min
  <2> QED
    BY <2>1
<1>2. CASE b < a
  <2>1. Min({a, b}) = b
    BY <1>2 DEF Min
  <2> QED
    BY <2>1
<1> QED
  BY <1>1, <1>2

LEMMA LaterOf ==
  ASSUME NEW a \in Nat, NEW b \in Nat PROVE Max({a, b}) \in Nat
<1>1. CASE a >= b
  <2>1. Max({a, b}) = a
    BY <1>1 DEF Max
  <2> QED
    BY <2>1
<1>2. CASE b > a
  <2>1. Max({a, b}) = b
    BY <1>2 DEF Max
  <2> QED
    BY <2>1
<1> QED
  BY <1>1, <1>2

-----------------------------------------------------------------------------
(***************************************************************************)
(* What the planner guarantees: a risk class is missing or has a strict    *)
(* fact the reply must use, and only a strict plan has such facts.         *)
(***************************************************************************)
RpCovers(e, p) ==
  /\ p \in RpPlans
  /\ e.risks \subseteq p.missing \cup {RpRiskOf[f] : f \in p.must}
  /\ p.policy # "STRICT" => p.must = {}
  /\ e.move = "chorus" => p.policy = "NONE"

LEMMA PlanCovers ==
  ASSUME NEW e \in RpAllEvaluations, rpNow \in Nat PROVE RpCovers(e, RpPlanOf(e))
<1> DEFINE s == e.snapshot
           end == RpDeadline(e)
           until == Min({end, s.expires})
           none == [RpNoPlan EXCEPT !.created = rpNow, !.expires = end, !.missing = e.risks]
           spoken == [none EXCEPT !.asks = (e.move = "request")]
           granted == [spoken EXCEPT !.until = s.expires, !.revision = s.revision, !.expires = until]
           strict == [granted EXCEPT !.policy = "STRICT", !.must = RpStrict(s.facts), !.may = s.facts \ RpStrict(s.facts),
                                     !.missing = RpMissing(e.risks, s.facts)]
           grounded == [granted EXCEPT !.policy = "GROUNDED", !.may = s.facts]
<1>1. /\ s.facts \subseteq RpFacts /\ s.expires \in Nat /\ s.revision \in Nat /\ e.risks \subseteq RpRisks
      /\ rpNow + RpGrace \in Nat /\ e.move \in {"speak", "request", "chorus", "silence"}
  BY RpConstants DEF RpAllEvaluations, RpSnapshots
<1>2. end \in Nat /\ until \in Nat
  <2>1. e.lasts \in Nat /\ RpMaxAge \in Nat
    BY RpConstants DEF RpAllEvaluations
  <2>2. Max({e.lasts, rpNow + RpGrace}) \in Nat
    BY <1>1, <2>1, LaterOf
  <2>3. end \in Nat
    BY <2>1, <2>2, EarlierOf DEF RpDeadline
  <2> QED
    BY <1>1, <2>3, EarlierOf
<1>3. /\ RpStrict(s.facts) \subseteq s.facts /\ RpMissing(e.risks, s.facts) \subseteq RpRisks
      /\ e.risks \subseteq RpMissing(e.risks, s.facts) \cup {RpRiskOf[f] : f \in RpStrict(s.facts)}
  BY <1>1 DEF RpStrict, RpMissing
<1>4. RpPlanOf(e) \in {none, spoken, [none EXCEPT !.asks = TRUE]}
      \/ (RpPlanOf(e) = strict /\ RpStrict(s.facts) # {} /\ e.move # "chorus")
      \/ (RpPlanOf(e) = grounded /\ e.move # "chorus")
  BY DEF RpPlanOf
<1> HIDE DEF end, until
<1>5. RpCovers(e, none) /\ RpCovers(e, spoken) /\ RpCovers(e, [none EXCEPT !.asks = TRUE])
  BY <1>1, <1>2, rpNow \in Nat DEF RpCovers, RpPlans, RpNoPlan
<1>6. ASSUME RpStrict(s.facts) # {}, e.move # "chorus" PROVE RpCovers(e, strict)
  BY <1>1, <1>2, <1>3, <1>6 DEF RpCovers, RpPlans, RpNoPlan
<1>7. ASSUME e.move # "chorus" PROVE RpCovers(e, grounded)
  BY <1>1, <1>2, <1>7 DEF RpCovers, RpPlans, RpNoPlan
<1> HIDE DEF none, spoken, granted, strict, grounded
<1> QED
  BY <1>4, <1>5, <1>6, <1>7

-----------------------------------------------------------------------------
(***************************************************************************)
(* The inductive invariant: types, what each phase tells of the row and of *)
(* the bundle, and that the model is only asked when no risk class is      *)
(* missing its evidence, unless the reply asks back.                       *)
(***************************************************************************)
RpUnsent == {"idle", "begin", "asking", "repairing", "plain"}
RpStages ==
  /\ rpPhase \in RpUnsent => rpBundle = "none" /\ rpRow \in {"none", "planned"}
  /\ rpPhase = "commit" => rpBundle = "none" /\ rpRow = "generated" /\ RpSends
  /\ rpPhase = "mark" => rpBundle = "ready" /\ rpRow = "generated" /\ RpSends
  /\ rpPhase = "done" => \/ rpBundle = "none" /\ rpRow \in {"none", "planned", "generated", "silent"}
                         \/ rpBundle = "ready" /\ rpRow \in {"generated", "enqueued"} /\ RpSends
                         \/ rpBundle \in {"sent", "expired"} /\ rpRow = rpBundle /\ RpSends
RpPlannedWell ==
  /\ rpPhase # "idle" => RpCovers(rpCase, rpPlan)
  /\ rpPhase = "idle" => rpSpeech.kind = "nothing"
  /\ RpAsking => rpPlan.missing = {} \/ rpPlan.asks

RpInductive == RpTypeOK /\ RpStages /\ RpPlannedWell /\ RpSpokenIsCurrent /\ RpRisksBacked

LEMMA RpStart == RpInit => RpInductive
<1> SUFFICES ASSUME RpInit PROVE RpInductive
  OBVIOUS
<1>1. RpNoPlan \in RpPlans
  BY DEF RpNoPlan, RpPlans
<1>2. RpNoSpeech \in RpResult /\ RpNoSpeech.kind = "nothing"
  BY DEF RpNoSpeech, RpResult
<1>3. RpTypeOK
  BY <1>1, <1>2, RpConstants DEF RpInit, RpTypeOK, RpPhases
<1> QED
  BY <1>2, <1>3 DEF RpInit, RpInductive, RpStages, RpUnsent, RpPlannedWell, RpAsking, RpSpokenIsCurrent, RpRisksBacked

LEMMA RpInductiveIsSound == RpInductive => RpSound
<1> SUFFICES ASSUME RpInductive PROVE RpRowTellsBundle
  BY DEF RpInductive, RpSound
<1> QED
  BY DEF RpInductive, RpStages, RpUnsent, RpRowTellsBundle, RpAuthorizes, RpTypeOK, RpPhases

-----------------------------------------------------------------------------
(***************************************************************************)
(* How an attempt ends: in silence, or in a text on its way to the outbox. *)
(* Nothing else is remembered of what was spoken.                          *)
(***************************************************************************)
RpKept == UNCHANGED <<rpNow, rpRevision, rpCase, rpPlan>>
RpWorking == rpPhase \in RpUnsent \ {"idle"}
\* What a text must be worth before it is spoken.
RpWorthy(kind, used) ==
  /\ kind \in {"reply", "chorus", "fallback", "unverified"} /\ used \subseteq RpFacts
  /\ kind = "reply" /\ rpPlan.policy # "NONE" =>
       /\ rpNow < rpPlan.until /\ (rpPlan.policy = "STRICT" => rpRevision = rpPlan.revision)
       /\ rpPlan.must \subseteq used /\ used \subseteq rpPlan.must \cup rpPlan.may /\ used # {}
  /\ kind \in {"reply", "chorus"} => rpPlan.asks \/ rpCase.risks \subseteq {RpRiskOf[f] : f \in used}

LEMMA PreviewedStep ==
  ASSUME RpInductive, RpWorking, RpKept, RpPreviewed PROVE RpInductive'
<1>1. RpTypeOK'
  BY DEF RpInductive, RpTypeOK, RpKept, RpPreviewed, RpPhases
<1>2. RpStages'
  BY DEF RpInductive, RpWorking, RpStages, RpPreviewed, RpKept, RpUnsent
<1>3. RpPlannedWell'
  BY DEF RpInductive, RpWorking, RpPlannedWell, RpPreviewed, RpKept, RpAsking, RpUnsent
<1>4. RpSpokenIsCurrent' /\ RpRisksBacked'
  BY DEF RpInductive, RpSpokenIsCurrent, RpRisksBacked, RpPreviewed, RpKept
<1> QED
  BY <1>1, <1>2, <1>3, <1>4 DEF RpInductive

LEMMA SilentStep ==
  ASSUME RpInductive, RpWorking, RpKept, RpSilent PROVE RpInductive'
<1>1. CASE RpPreviewed
  BY <1>1, PreviewedStep
<1>2. CASE rpCase.mode # "PREVIEW" /\ rpRow' = "silent" /\ rpPhase' = "done" /\ UNCHANGED <<rpSpeech, rpBundle>>
  <2>1. RpTypeOK'
    BY <1>2 DEF RpInductive, RpTypeOK, RpKept, RpPhases
  <2>2. RpStages'
    BY <1>2 DEF RpInductive, RpWorking, RpStages, RpKept, RpUnsent
  <2>3. RpPlannedWell'
    BY <1>2 DEF RpInductive, RpWorking, RpPlannedWell, RpKept, RpAsking, RpUnsent
  <2>4. RpSpokenIsCurrent' /\ RpRisksBacked'
    BY <1>2 DEF RpInductive, RpSpokenIsCurrent, RpRisksBacked, RpKept
  <2> QED
    BY <2>1, <2>2, <2>3, <2>4 DEF RpInductive
<1> QED
  BY <1>1, <1>2 DEF RpSilent

LEMMA SpeakStep ==
  ASSUME RpInductive, RpWorking, RpKept, NEW kind, NEW used, RpSpeak(kind, used), RpWorthy(kind, used)
  PROVE  RpInductive'
<1>1. CASE ~RpSends
  BY <1>1, PreviewedStep DEF RpSpeak
<1>2. CASE RpSends
  <2>1. /\ rpSpeech' = [kind |-> kind, used |-> used, at |-> rpNow, revision |-> rpRevision]
        /\ rpRow' = "generated" /\ rpPhase' = "commit" /\ rpBundle' = rpBundle
    BY <1>2 DEF RpSpeak, RpBeforeCommit
  <2>2. rpNow \in Nat /\ rpRevision \in Nat
    BY DEF RpInductive, RpTypeOK
  <2>3. rpSpeech' \in RpResult
    BY <2>1, <2>2 DEF RpResult, RpWorthy
  <2>4. RpTypeOK'
    BY <2>1, <2>3 DEF RpInductive, RpTypeOK, RpKept, RpPhases
  <2>5. RpStages'
    BY <1>2, <2>1 DEF RpInductive, RpWorking, RpStages, RpKept, RpUnsent, RpSends
  <2>6. RpPlannedWell'
    BY <2>1 DEF RpInductive, RpWorking, RpPlannedWell, RpKept, RpAsking, RpUnsent
  <2>7. RpSpokenIsCurrent' /\ RpRisksBacked'
    BY <2>1 DEF RpWorthy, RpSpokenIsCurrent, RpRisksBacked, RpKept
  <2> QED
    BY <2>4, <2>5, <2>6, <2>7 DEF RpInductive
<1> QED
  BY <1>1, <1>2

LEMMA FailsStep ==
  ASSUME RpInductive, RpWorking, RpKept, RpFails \/ RpKnowledgeFails PROVE RpInductive'
<1>1. RpWorthy("fallback", {}) /\ RpWorthy("unverified", {})
  BY DEF RpWorthy
<1> QED
  BY <1>1, SilentStep, SpeakStep DEF RpFails, RpKnowledgeFails

LEMMA BeginStep ==
  ASSUME RpInductive, RpBegin PROVE RpInductive'
<1>1. RpWorking /\ RpKept
  BY DEF RpBegin, RpWorking, RpKept, RpUnsent
<1>2. CASE RpSilent \/ RpFails
  BY <1>1, <1>2, SilentStep, FailsStep
<1>3. ASSUME rpPlan.missing = {} \/ rpPlan.asks, NEW readable \in BOOLEAN,
             \/ RpStale(readable) /\ RpKnowledgeFails
             \/ ~ RpStale(readable) /\ rpCase.move = "chorus" /\ (RpSilent \/ RpSpeak("chorus", {}))
             \/ /\ ~ RpStale(readable) /\ rpCase.move # "chorus"
                /\ rpPhase' = "asking" /\ rpRow' = (IF RpSends THEN "planned" ELSE rpRow)
                /\ UNCHANGED <<rpSpeech, rpBundle>>
      PROVE  RpInductive'
  <2>1. RpCovers(rpCase, rpPlan)
    BY DEF RpBegin, RpInductive, RpPlannedWell
  <2>2. CASE RpKnowledgeFails \/ RpSilent
    BY <1>1, <2>2, SilentStep, FailsStep
  <2>3. CASE rpCase.move = "chorus" /\ RpSpeak("chorus", {})
    <3>1. RpWorthy("chorus", {})
      BY <1>3, <2>1, <2>3 DEF RpWorthy, RpCovers
    <3> QED
      BY <1>1, <2>3, <3>1, SpeakStep
  <2>4. CASE rpPhase' = "asking" /\ rpRow' = (IF RpSends THEN "planned" ELSE rpRow) /\ UNCHANGED <<rpSpeech, rpBundle>>
    <3>1. RpTypeOK'
      BY <1>1, <2>4 DEF RpInductive, RpTypeOK, RpKept, RpPhases
    <3>2. RpStages'
      BY <1>1, <2>4 DEF RpInductive, RpWorking, RpStages, RpKept, RpUnsent
    <3>3. RpPlannedWell'
      BY <1>1, <1>3, <2>1, <2>4 DEF RpPlannedWell, RpKept
    <3>4. RpSpokenIsCurrent' /\ RpRisksBacked'
      BY <1>1, <2>4 DEF RpInductive, RpSpokenIsCurrent, RpRisksBacked, RpKept
    <3> QED
      BY <3>1, <3>2, <3>3, <3>4 DEF RpInductive
  <2> QED
    BY <1>3, <2>2, <2>3, <2>4
<1> QED
  BY <1>2, <1>3 DEF RpBegin

LEMMA AcceptedIsWorthy ==
  ASSUME RpInductive, RpAsking, NEW a \in RpAnswers, NEW readable \in BOOLEAN, ~RpStale(readable), ~RpRejected(a)
  PROVE  RpWorthy("reply", IF rpPlan.policy = "NONE" THEN {} ELSE a.used)
<1>1. RpCovers(rpCase, rpPlan) /\ (rpPlan.missing = {} \/ rpPlan.asks)
  BY DEF RpInductive, RpPlannedWell, RpAsking
<1>2. a.used \subseteq RpFacts
  BY DEF RpAnswers
<1>3. CASE rpPlan.policy = "NONE"
  BY <1>1, <1>3 DEF RpWorthy, RpCovers
<1>4. CASE rpPlan.policy = "STRICT"
  <2>1. a.used = rpPlan.must /\ rpPlan.must # {}
    BY <1>1, <1>4 DEF RpRejected, RpAssembles, RpCovers, RpPlans
  <2>2. rpNow < rpPlan.until /\ rpRevision = rpPlan.revision
    BY <1>1, <1>4 DEF RpStale, RpCurrentRevision, RpInductive, RpTypeOK, RpCovers, RpPlans
  <2> QED
    BY <1>1, <1>2, <1>4, <2>1, <2>2 DEF RpWorthy, RpCovers
<1>5. CASE rpPlan.policy = "GROUNDED"
  <2>1. a.used # {} /\ a.used \subseteq rpPlan.may
    BY <1>5 DEF RpRejected, RpGrounds
  <2>2. rpNow < rpPlan.until /\ rpPlan.must = {}
    BY <1>1, <1>5 DEF RpStale, RpInductive, RpTypeOK, RpCovers, RpPlans
  <2> QED
    BY <1>1, <1>2, <1>5, <2>1, <2>2 DEF RpWorthy, RpCovers
<1> QED
  BY <1>1, <1>3, <1>4, <1>5 DEF RpCovers, RpPlans

LEMMA AnsweredStep ==
  ASSUME RpInductive, RpAnswered PROVE RpInductive'
<1>1. RpWorking /\ RpKept /\ RpAsking
  BY DEF RpAnswered, RpAsking, RpWorking, RpKept, RpUnsent
<1>2. ASSUME NEW a \in RpAnswers, NEW readable \in BOOLEAN, ~RpStale(readable), ~RpRejected(a),
             RpSpeak("reply", IF rpPlan.policy = "NONE" THEN {} ELSE a.used)
      PROVE  RpInductive'
  BY <1>1, <1>2, AcceptedIsWorthy, SpeakStep
<1>3. ASSUME NEW next \in {"repairing", "plain"}, rpPhase' = next, UNCHANGED <<rpRow, rpSpeech, rpBundle>>
      PROVE  RpInductive'
  <2>1. RpTypeOK'
    BY <1>1, <1>3 DEF RpInductive, RpTypeOK, RpKept, RpPhases
  <2>2. RpStages'
    BY <1>1, <1>3 DEF RpInductive, RpWorking, RpStages, RpKept, RpUnsent
  <2>3. RpPlannedWell'
    BY <1>1, <1>3 DEF RpInductive, RpPlannedWell, RpKept, RpAsking
  <2>4. RpSpokenIsCurrent' /\ RpRisksBacked'
    BY <1>1, <1>3 DEF RpInductive, RpSpokenIsCurrent, RpRisksBacked, RpKept
  <2> QED
    BY <2>1, <2>2, <2>3, <2>4 DEF RpInductive
<1>4. \A stale \in BOOLEAN, a \in RpAnswers : RpRetry(stale, a) # "give up" => RpRetry(stale, a) \in {"repairing", "plain"}
  BY DEF RpRetry
<1>5. \A readable \in BOOLEAN : RpStale(readable) \in BOOLEAN
  BY DEF RpStale
<1>6. CASE RpFails \/ RpKnowledgeFails
  BY <1>1, <1>6, FailsStep
<1> QED
  BY <1>2, <1>3, <1>4, <1>5, <1>6 DEF RpAnswered

LEMMA OutboxStep ==
  ASSUME RpInductive, RpCommit \/ RpTooLate \/ RpMark \/ RpDispatch \/ RpCrash PROVE RpInductive'
<1>1. RpKept /\ rpSpeech' = rpSpeech /\ rpPhase # "idle" /\ rpPhase' \in {"mark", "done"}
  BY DEF RpCommit, RpTooLate, RpMark, RpDispatch, RpCrash, RpKept
<1>2. RpTypeOK'
  BY <1>1 DEF RpInductive, RpTypeOK, RpKept, RpPhases, RpCommit, RpTooLate, RpMark, RpDispatch, RpCrash
<1>3. RpStages'
  BY <1>1 DEF RpInductive, RpTypeOK, RpPhases, RpStages, RpUnsent, RpSends, RpKept, RpCommit, RpTooLate, RpMark, RpDispatch, RpCrash
<1>4. RpPlannedWell'
  BY <1>1 DEF RpInductive, RpPlannedWell, RpKept, RpAsking
<1>5. RpSpokenIsCurrent' /\ RpRisksBacked'
  BY <1>1 DEF RpInductive, RpSpokenIsCurrent, RpRisksBacked, RpKept
<1> QED
  BY <1>2, <1>3, <1>4, <1>5 DEF RpInductive

LEMMA PlannedStep ==
  ASSUME RpInductive, RpPlanned PROVE RpInductive'
<1>1. rpCase \in RpAllEvaluations /\ rpNow \in Nat
  BY RpConstants DEF RpInductive, RpTypeOK
<1>2. RpCovers(rpCase, rpPlan')
  BY <1>1, PlanCovers DEF RpPlanned
<1>3. RpTypeOK'
  BY <1>2 DEF RpPlanned, RpInductive, RpTypeOK, RpPhases, RpCovers
<1>4. RpStages'
  BY DEF RpPlanned, RpInductive, RpStages, RpUnsent
<1>5. RpPlannedWell'
  BY <1>2 DEF RpPlanned, RpPlannedWell, RpAsking
<1>6. RpSpokenIsCurrent' /\ RpRisksBacked'
  BY DEF RpPlanned, RpInductive, RpPlannedWell, RpSpokenIsCurrent, RpRisksBacked
<1> QED
  BY <1>3, <1>4, <1>5, <1>6 DEF RpInductive

LEMMA ClockStep ==
  ASSUME RpInductive, RpTick \/ RpRelease \/ UNCHANGED rpVars PROVE RpInductive'
<1>1. UNCHANGED <<rpCase, rpPlan, rpRow, rpPhase, rpSpeech, rpBundle>>
  BY DEF RpTick, RpRelease, rpVars
<1>2. rpNow' \in 0 .. RpLastTime /\ rpRevision' \in 1 .. RpLastRevision
  BY RpConstants DEF RpInductive, RpTypeOK, RpTick, RpRelease, rpVars
<1>3. RpTypeOK'
  BY <1>1, <1>2 DEF RpInductive, RpTypeOK
<1>4. RpStages' /\ RpPlannedWell' /\ RpSpokenIsCurrent' /\ RpRisksBacked'
  BY <1>1 DEF RpInductive, RpStages, RpSends, RpPlannedWell, RpCovers, RpAsking, RpSpokenIsCurrent, RpRisksBacked
<1> QED
  BY <1>3, <1>4 DEF RpInductive

LEMMA RpStep == RpInductive /\ [RpNext]_rpVars => RpInductive'
<1>1. ASSUME RpInductive, RpModelFails PROVE RpInductive'
  <2>1. RpWorking /\ RpKept
    BY <1>1 DEF RpModelFails, RpAsking, RpWorking, RpKept, RpUnsent
  <2> QED
    BY <1>1, <2>1, FailsStep DEF RpModelFails
<1> QED
  BY <1>1, PlannedStep, BeginStep, AnsweredStep, OutboxStep, ClockStep DEF RpNext

LEMMA RpAlways == RpSpec => []RpInductive
  BY RpStart, RpStep, PTL DEF RpSpec

-----------------------------------------------------------------------------
(* Every value keeps its type; a plan without knowledge carries none.      *)
THEOREM RpTypes == RpSpec => []RpTypeOK
<1>1. RpInductive => RpTypeOK
  BY DEF RpInductive
<1> QED
  BY <1>1, RpAlways, PTL

(* However long the model takes, however often it is asked again and       *)
(* wherever the process stops: what is enqueued is current, within its     *)
(* plan and backed for every risk class, and the row of the plan agrees    *)
(* with the bundle (replying.py, grounding.py, outbox.py).                 *)
THEOREM RpStaysSound == RpSpec => []RpSound
  BY RpAlways, RpInductiveIsSound, PTL

----------------------------------------------------------------------------
(***************************************************************************)
(* Theorems about the scheduler of autonomous opportunities, for any       *)
(* opportunities, windows, overlapping runs and scenes.                    *)
(***************************************************************************)

(***************************************************************************)
(* The inductive invariant.  An attempt that is not the first stands for a *)
(* follow-up, and the next one is not counted before its claim; an event   *)
(* is one of its opportunity's attempts.  What a run carries to the sink   *)
(* was claimed in its window by a look at a scene that allows it.          *)
(***************************************************************************)
AutTried(o, row) ==
  row # AutAbsent =>
    /\ row.attempts <= row.followups + (IF row.status = "scheduled" THEN 0 ELSE 1)
    /\ row.status \in {"emitting", "emitted"} => AutEarliest[o] <= autNow
AutRowsOK == \A o \in AutOpportunities : AutTried(o, autRow[o])
AutHeard ==
  /\ \A e \in autSent : /\ autRow[e.opportunity] # AutAbsent
                        /\ e.attempt <= autRow[e.opportunity].attempts
  /\ \A e, f \in autSent : e.opportunity = f.opportunity /\ e.attempt = f.attempt => e = f
AutCarries(run) ==
  LET o == Head(run.left) IN
  /\ run.row \in AutOpportunity(o) /\ run.row.status = "emitting" /\ run.row.scene >= 1
  /\ AutAllows[run.row.scene] /\ AutQuiet[run.row.scene] <= run.now /\ run.now < AutExpires[o]
  /\ autRow[o] # AutAbsent /\ run.row.attempts <= autRow[o].attempts
AutBusy(run) ==
  /\ run # AutIdle => /\ run.now <= autNow
                      /\ \A i \in DOMAIN run.left : AutEarliest[run.left[i]] <= run.now
                      /\ \A i \in DOMAIN run.left : autRow[run.left[i]] # AutAbsent
  /\ run.phase \in {"sink", "answered"} => AutCarries(run)
AutRunsOK == \A r \in AutRuns : AutBusy(autRun[r])
AutInductive == AutTypeOK /\ AutRowsOK /\ AutHeard /\ AutRunsOK /\ AutJustified

LEMMA AutRowTypes ==
  ASSUME NEW o \in AutOpportunities, NEW row \in AutOpportunity(o)
  PROVE  /\ row \in AutRecord /\ row # AutAbsent /\ row.attempts \in 0 .. 2 /\ row.followups \in 0 .. 1
         /\ row.earliest \in Nat /\ row.scene \in 0 .. AutVersions
         /\ row.earliest >= AutEarliest[o] /\ row.attempts <= AutMaxAttempts[o]
         /\ row.status \in {"scheduled", "emitting", "emitted", "expired"}
         /\ row.status \in {"emitting", "emitted"} => row.attempts > 0
<1>1. row \in AutRecord
  BY DEF AutOpportunity
<1>2. row.status \in {"scheduled", "emitting", "emitted", "expired"}
  BY <1>1 DEF AutRecord
<1>3. row # AutAbsent
  BY <1>2 DEF AutAbsent
<1> QED
  BY <1>1, <1>3 DEF AutOpportunity, AutRecord

LEMMA AutConstantTypes ==
  /\ AutEarliest \in [AutOpportunities -> Nat] /\ AutExpires \in [AutOpportunities -> Nat]
  /\ AutMaxAttempts \in [AutOpportunities -> 1 .. 2]
  /\ AutVersions \in Nat \ {0} /\ AutLastTime \in Nat
  /\ AutAllows \in [1 .. AutVersions -> BOOLEAN] /\ AutQuiet \in [1 .. AutVersions -> Nat]
<1>1. [allows |-> AutAllows, quiet |-> AutQuiet] \in [allows : [1 .. AutVersions -> BOOLEAN], quiet : [1 .. AutVersions -> Nat]]
  BY AutConstants DEF AutRevalidations
<1> QED
  BY <1>1, AutConstants

(***************************************************************************)
(* A step that changes one row never takes an attempt back.                *)
(***************************************************************************)
LEMMA AutRowMoves ==
  ASSUME AutInductive, NEW o \in AutOpportunities, NEW row \in AutOpportunity(o),
         autRow' = [autRow EXCEPT ![o] = row], AutTried(o, row),
         autRow[o] # AutAbsent => autRow[o].attempts <= row.attempts,
         UNCHANGED <<autNow, autSent>>
  PROVE  /\ DOMAIN autRow' = AutOpportunities
         /\ \A p \in AutOpportunities : autRow'[p] \in {AutAbsent} \cup AutOpportunity(p)
         /\ AutRowsOK' /\ AutHeard'
         /\ \A run \in AutRunStates : AutBusy(run) => AutBusy(run)'
<1>1. /\ DOMAIN autRow = AutOpportunities
      /\ \A p \in AutOpportunities : autRow[p] \in {AutAbsent} \cup AutOpportunity(p)
      /\ autSent \in SUBSET [opportunity : AutOpportunities, attempt : 1 .. 2, at : 0 .. AutLastTime, scene : 1 .. AutVersions]
  BY DEF AutInductive, AutTypeOK
<1>2. DOMAIN autRow' = AutOpportunities /\ autRow'[o] = row /\ \A p \in AutOpportunities \ {o} : autRow'[p] = autRow[p]
  BY <1>1
<1>3. row # AutAbsent /\ row.attempts \in 0 .. 2
  BY AutRowTypes
<1>4. \A p \in AutOpportunities : autRow[p] # AutAbsent =>
         autRow'[p] # AutAbsent /\ autRow[p].attempts <= autRow'[p].attempts
         /\ autRow[p].attempts \in Nat /\ autRow'[p].attempts \in Nat
  <2> TAKE p \in AutOpportunities
  <2>1. autRow[p] # AutAbsent => autRow[p].attempts \in 0 .. 2
    BY <1>1, AutRowTypes
  <2> QED
    BY <1>2, <1>3, <2>1
<1>5. AutRowsOK'
  BY <1>2 DEF AutRowsOK, AutTried, AutInductive
<1>6. AutHeard'
  <2>1. \A e \in autSent : /\ e.opportunity \in AutOpportunities /\ e.attempt \in Nat
                           /\ autRow[e.opportunity] # AutAbsent /\ e.attempt <= autRow[e.opportunity].attempts
    BY <1>1 DEF AutHeard, AutInductive
  <2>2. \A e \in autSent : autRow'[e.opportunity] # AutAbsent /\ e.attempt <= autRow'[e.opportunity].attempts
    BY <2>1, <1>4
  <2> QED
    BY <2>2 DEF AutHeard, AutInductive
<1>7. ASSUME NEW run \in AutRunStates, AutBusy(run) PROVE AutBusy(run)'
  <2>1. CASE run = AutIdle
    BY <2>1 DEF AutBusy, AutIdle
  <2>2. CASE run # AutIdle
    <3>1. run.left \in Seq(AutOpportunities) /\ run.left # <<>> /\ \A i \in DOMAIN run.left : run.left[i] \in AutOpportunities
      BY <2>2 DEF AutRunStates
    <3>2. Head(run.left) \in AutOpportunities
      BY <3>1
    <3>3. \A i \in DOMAIN run.left : autRow'[run.left[i]] # AutAbsent
      BY <1>4, <1>7, <2>2, <3>1 DEF AutBusy
    <3>4. ASSUME run.phase \in {"sink", "answered"} PROVE AutCarries(run)'
      <4>1. AutCarries(run)
        BY <1>7, <3>4 DEF AutBusy
      <4>2. run.row.attempts \in Nat
        BY <3>2, <4>1, AutRowTypes DEF AutCarries
      <4>3. /\ autRow'[Head(run.left)] # AutAbsent
            /\ run.row.attempts <= autRow'[Head(run.left)].attempts
        BY <4>1, <4>2, <3>2, <1>4 DEF AutCarries
      <4> QED
        BY <4>1, <4>3 DEF AutCarries
    <3> QED
      BY <1>7, <2>2, <3>3, <3>4 DEF AutBusy
  <2> QED
    BY <2>1, <2>2
<1>8. \A p \in AutOpportunities : autRow'[p] \in {AutAbsent} \cup AutOpportunity(p)
  BY <1>1, <1>2
<1> QED
  BY <1>2, <1>5, <1>6, <1>7, <1>8

\* A step that changes one run, and what becomes of the others.
LEMMA AutRunMoves ==
  ASSUME AutInductive, NEW r \in AutRuns, NEW run \in AutRunStates, autRun' = [autRun EXCEPT ![r] = run],
         AutBusy(run)', \A x \in AutRunStates : AutBusy(x) => AutBusy(x)'
  PROVE  autRun' \in [AutRuns -> AutRunStates] /\ AutRunsOK'
<1>1. autRun \in [AutRuns -> AutRunStates] /\ \A s \in AutRuns : AutBusy(autRun[s])
  BY DEF AutInductive, AutTypeOK, AutRunsOK
<1>3. autRun'[r] = run /\ \A s \in AutRuns \ {r} : autRun'[s] = autRun[s]
  BY <1>1
<1> QED
  BY <1>1, <1>3 DEF AutRunsOK

(***************************************************************************)
(* The steps.                                                              *)
(***************************************************************************)
LEMMA AutStarts == AutInit => AutInductive
<1> SUFFICES ASSUME AutInit PROVE AutInductive
  OBVIOUS
<1>1. AutTypeOK
  BY AutConstantTypes DEF AutInit, AutTypeOK, AutRunStates
<1>2. AutRowsOK /\ AutHeard /\ AutJustified
  BY DEF AutInit, AutRowsOK, AutTried, AutHeard, AutJustified
<1>3. AutRunsOK
  BY DEF AutInit, AutRunsOK, AutBusy, AutIdle
<1> QED
  BY <1>1, <1>2, <1>3 DEF AutInductive

LEMMA AutTimePasses ==
  ASSUME AutInductive, AutTick \/ AutSceneMoves
  PROVE  AutInductive'
<1>1. autNow' \in 0 .. AutLastTime /\ autNow <= autNow' /\ autScene' \in 1 .. AutVersions /\ autNow \in Nat /\ autNow' \in Nat
  BY AutConstantTypes DEF AutInductive, AutTypeOK, AutTick, AutSceneMoves
<1>2. UNCHANGED <<autRow, autRun, autSent>>
  BY DEF AutTick, AutSceneMoves
<1>3. AutTypeOK'
  BY <1>1, <1>2 DEF AutInductive, AutTypeOK
<1>4. AutRowsOK'
  BY <1>1, <1>2, AutConstantTypes DEF AutInductive, AutRowsOK, AutTried
<1>5. AutHeard' /\ AutJustified'
  BY <1>2 DEF AutInductive, AutHeard, AutJustified
<1>6. AutRunsOK'
  <2> SUFFICES ASSUME NEW r \in AutRuns PROVE AutBusy(autRun[r])'
    BY DEF AutRunsOK
  <2>1. AutBusy(autRun[r]) /\ autRun[r] \in AutRunStates
    BY DEF AutInductive, AutRunsOK, AutTypeOK
  <2>2. autRun[r] # AutIdle => autRun[r].now \in Nat
    BY <2>1 DEF AutRunStates
  <2> QED
    BY <1>1, <1>2, <2>1, <2>2 DEF AutBusy, AutCarries
<1> QED
  BY <1>3, <1>4, <1>5, <1>6 DEF AutInductive

\* What is left of an inductive step that changes one row and at most one run.
LEMMA AutTogether ==
  ASSUME AutInductive, NEW o \in AutOpportunities, NEW row \in AutOpportunity(o),
         autRow' = [autRow EXCEPT ![o] = row], AutTried(o, row),
         autRow[o] # AutAbsent => autRow[o].attempts <= row.attempts,
         UNCHANGED <<autNow, autScene, autSent>>,
         \/ UNCHANGED autRun
         \/ \E r \in AutRuns, run \in AutRunStates : autRun' = [autRun EXCEPT ![r] = run] /\ AutBusy(run)'
  PROVE  AutInductive'
<1>1. /\ DOMAIN autRow' = AutOpportunities
      /\ \A p \in AutOpportunities : autRow'[p] \in {AutAbsent} \cup AutOpportunity(p)
      /\ AutRowsOK' /\ AutHeard'
      /\ \A run \in AutRunStates : AutBusy(run) => AutBusy(run)'
  BY AutRowMoves
<1>2. autRun' \in [AutRuns -> AutRunStates] /\ AutRunsOK'
  <2>1. CASE UNCHANGED autRun
    <3>1. autRun \in [AutRuns -> AutRunStates] /\ \A r \in AutRuns : AutBusy(autRun[r])
      BY DEF AutInductive, AutTypeOK, AutRunsOK
    <3>2. \A r \in AutRuns : \A run \in AutRunStates : run = autRun[r] => AutBusy(run)'
      BY <3>1, <1>1
    <3> QED
      BY <2>1, <3>1, <3>2 DEF AutRunsOK
  <2>2. CASE \E r \in AutRuns, run \in AutRunStates : autRun' = [autRun EXCEPT ![r] = run] /\ AutBusy(run)'
    BY <2>2, <1>1, AutRunMoves
  <2> QED
    BY <2>1, <2>2
<1>3. AutTypeOK' /\ AutJustified'
  BY <1>1, <1>2 DEF AutInductive, AutTypeOK, AutJustified
<1> QED
  BY <1>1, <1>2, <1>3 DEF AutInductive

LEMMA AutSchedules ==
  ASSUME AutInductive, NEW o \in AutOpportunities, AutSchedule(o)
  PROVE  AutInductive'
<1> DEFINE row == [status |-> "scheduled", earliest |-> AutEarliest[o], attempts |-> 0, followups |-> 0, scene |-> 0]
<1>1. row \in AutOpportunity(o)
  <2>1. AutEarliest[o] \in Nat /\ AutMaxAttempts[o] \in Nat /\ AutVersions \in Nat
    BY AutConstantTypes
  <2>2. row \in AutRecord /\ row.earliest >= AutEarliest[o] /\ row.attempts <= AutMaxAttempts[o]
    BY <2>1 DEF AutRecord
  <2>3. row.status \notin {"emitting", "emitted"}
    OBVIOUS
  <2> QED
    BY <2>2, <2>3 DEF AutOpportunity
<1>2. autRow[o] = AutAbsent
  <2>1. autRow[o] \in {AutAbsent} \cup AutOpportunity(o)
    BY DEF AutInductive, AutTypeOK
  <2> QED
    BY <2>1, AutRowTypes DEF AutSchedule
<1>3. AutTried(o, row)
  BY DEF AutTried
<1>4. autRow' = [autRow EXCEPT ![o] = row] /\ UNCHANGED <<autNow, autScene, autSent, autRun>>
  BY DEF AutSchedule
<1> HIDE DEF row
<1>5. PICK new \in AutOpportunity(o) : new = row
  BY <1>1
<1> QED
  BY <1>2, <1>3, <1>4, <1>5, AutTogether

LEMMA AutFollowsUp ==
  ASSUME AutInductive, NEW o \in AutOpportunities, AutFollowUp(o)
  PROVE  AutInductive'
<1>1. PICK t \in autNow .. AutExpires[o] - 1 :
        autRow' = [autRow EXCEPT ![o].earliest = t, ![o].followups = @ + 1, ![o].status = "scheduled"]
  BY DEF AutFollowUp
<1>2. autRow[o] \in AutOpportunity(o) /\ autRow[o].status = "emitted" /\ autRow[o].followups < 1
  BY DEF AutFollowUp, AutMayFollowUp, AutInductive, AutTypeOK, AutAbsent
<1>3. AutTried(o, autRow[o]) /\ autRow[o] # AutAbsent /\ autRow[o] \in AutRecord /\ autNow \in Nat
  BY <1>2, AutRowTypes, AutConstantTypes DEF AutInductive, AutRowsOK, AutTypeOK
<1>4. /\ autRow[o].attempts \in 0 .. 2 /\ autRow[o].followups = 0 /\ autRow[o].scene \in 0 .. AutVersions
      /\ autRow[o].attempts <= AutMaxAttempts[o] /\ autRow[o].attempts <= 1 /\ AutEarliest[o] <= autNow
  BY <1>2, <1>3, AutRowTypes DEF AutTried
<1>5. PICK row : row = [autRow[o] EXCEPT !.earliest = t, !.followups = 1, !.status = "scheduled"]
  OBVIOUS
<1>6. t \in Nat /\ t >= AutEarliest[o]
  BY <1>3, <1>4, AutConstantTypes
<1>7. row \in AutRecord /\ row.earliest = t /\ row.followups = 1 /\ row.status = "scheduled" /\ row.attempts = autRow[o].attempts
  <2>1. row \in AutRecord
    <3>1. autRow[o] \in AutRecord /\ t \in Nat /\ 1 \in 0 .. 1
      BY <1>3, <1>6
    <3>2. PICK old \in AutRecord : old = autRow[o]
      BY <3>1
    <3>3. [old EXCEPT !.earliest = t] \in AutRecord
      BY <3>1 DEF AutRecord
    <3>4. [old EXCEPT !.earliest = t, !.followups = 1] \in AutRecord
      BY <3>1 DEF AutRecord
    <3> QED
      BY <3>1, <3>2, <3>4, <1>5 DEF AutRecord
  <2>2. row.earliest = t /\ row.followups = 1 /\ row.status = "scheduled" /\ row.attempts = autRow[o].attempts
    BY <1>3, <1>5 DEF AutRecord
  <2> QED
    BY <2>1, <2>2
<1>8. row \in AutOpportunity(o) /\ AutTried(o, row)
  BY <1>4, <1>6, <1>7 DEF AutOpportunity, AutTried
<1>9. autRow' = [autRow EXCEPT ![o] = row]
  <2>1. autRow[o].followups + 1 = 1 /\ DOMAIN autRow = AutOpportunities
    BY <1>4 DEF AutInductive, AutTypeOK
  <2>2. autRow' = [autRow EXCEPT ![o] = [autRow[o] EXCEPT !.earliest = t, !.followups = autRow[o].followups + 1, !.status = "scheduled"]]
    BY <1>1, <2>1
  <2> QED
    BY <1>5, <2>1, <2>2
<1>10. autRow[o].attempts <= row.attempts
  BY <1>4, <1>7
<1> QED
  BY <1>8, <1>9, <1>10, AutTogether DEF AutFollowUp

\* A step that changes runs only.
LEMMA AutRunsAlone ==
  ASSUME AutInductive, NEW r \in AutRuns, NEW run \in AutRunStates, autRun' = [autRun EXCEPT ![r] = run],
         AutBusy(run), UNCHANGED <<autNow, autScene, autRow, autSent>>
  PROVE  AutInductive'
<1>1. \A x \in AutRunStates : AutBusy(x) => AutBusy(x)'
  BY DEF AutBusy, AutCarries
<1>2. autRun' \in [AutRuns -> AutRunStates] /\ AutRunsOK'
  BY <1>1, AutRunMoves
<1>3. AutTypeOK' /\ AutRowsOK' /\ AutHeard' /\ AutJustified'
  BY <1>2 DEF AutInductive, AutTypeOK, AutRowsOK, AutTried, AutHeard, AutJustified
<1> QED
  BY <1>2, <1>3 DEF AutInductive

LEMMA AutBegins ==
  ASSUME AutInductive, NEW r \in AutRuns, AutBegin(r)
  PROVE  AutInductive'
<1>1. PICK s \in SetToSeqs(AutDue) : autRun' = [autRun EXCEPT ![r] = [phase |-> "list", now |-> autNow, left |-> s]]
  BY DEF AutBegin
<1>2. s \in [1 .. Cardinality(AutDue) -> AutDue]
  BY DEF SetToSeqs
<1>3. IsFiniteSet(AutDue) /\ AutDue # {} /\ AutDue \subseteq AutOpportunities
  <2>1. AutDue \in SUBSET AutOpportunities
    BY DEF AutDue
  <2> QED
    BY <2>1, AutConstants, FS_Subset DEF AutBegin
<1>4. Cardinality(AutDue) \in Nat /\ Cardinality(AutDue) # 0
  BY <1>3, FS_CardinalityType, FS_EmptySet
<1>5. s \in Seq(AutOpportunities) /\ s # <<>>
  BY <1>2, <1>3, <1>4
<1>6. PICK run : run = [phase |-> "list", now |-> autNow, left |-> s]
  OBVIOUS
<1>7. autNow \in 0 .. AutLastTime /\ autNow \in Nat
  BY AutConstantTypes DEF AutInductive, AutTypeOK
<1>8. run \in AutRunStates
  BY <1>5, <1>6, <1>7 DEF AutRunStates
<1>9. \A i \in DOMAIN s : AutEarliest[s[i]] <= autNow /\ autRow[s[i]] # AutAbsent
  <2> TAKE i \in DOMAIN s
  <2>1. s[i] \in AutOpportunities /\ autRow[s[i]].status \in {"scheduled", "emitting"} /\ autRow[s[i]].earliest <= autNow
    BY <1>2 DEF AutDue
  <2>2. autRow[s[i]] \in AutOpportunity(s[i])
    BY <2>1 DEF AutInductive, AutTypeOK, AutAbsent
  <2>3. autRow[s[i]].earliest \in Nat /\ autRow[s[i]].earliest >= AutEarliest[s[i]] /\ AutEarliest[s[i]] \in Nat /\ autRow[s[i]] # AutAbsent
    BY <2>1, <2>2, AutRowTypes, AutConstantTypes
  <2> QED
    BY <2>1, <2>3, <1>7
<1>10. AutBusy(run)
  BY <1>6, <1>7, <1>9 DEF AutBusy
<1> QED
  BY <1>1, <1>6, <1>8, <1>10, AutRunsAlone DEF AutBegin

LEMMA AutFails ==
  ASSUME AutInductive, NEW r \in AutRuns, AutFail(r)
  PROVE  AutInductive'
<1>1. AutIdle \in AutRunStates /\ AutBusy(AutIdle)
  BY DEF AutRunStates, AutBusy, AutIdle
<1> QED
  BY <1>1, AutRunsAlone DEF AutFail

\* A run that is not idle, and what is left of it after its first opportunity.
LEMMA AutRunTypes ==
  ASSUME AutInductive, NEW r \in AutRuns, autRun[r].phase # "idle"
  PROVE  /\ autRun[r] \in AutRunStates /\ AutBusy(autRun[r])
         /\ autRun[r].now \in 0 .. AutLastTime /\ autRun[r].now \in Nat /\ autRun[r].now <= autNow /\ autNow \in Nat
         /\ autRun[r].left \in Seq(AutOpportunities) \ {<<>>} /\ Head(autRun[r].left) \in AutOpportunities
         /\ AutEarliest[Head(autRun[r].left)] <= autRun[r].now
         /\ autRow[Head(autRun[r].left)] \in AutOpportunity(Head(autRun[r].left))
         /\ autRun[r].phase \in {"sink", "answered"} => AutCarries(autRun[r])
<1>1. autRun[r] \in AutRunStates /\ AutBusy(autRun[r]) /\ autNow \in Nat /\ AutLastTime \in Nat
  BY AutConstantTypes DEF AutInductive, AutTypeOK, AutRunsOK
<1>2. autRun[r] # AutIdle
  BY DEF AutIdle
<1>3. autRun[r].now \in 0 .. AutLastTime /\ autRun[r].left \in Seq(AutOpportunities) \ {<<>>}
  BY <1>1, <1>2 DEF AutRunStates
<1>4. /\ autRun[r].now <= autNow
      /\ \A i \in DOMAIN autRun[r].left : AutEarliest[autRun[r].left[i]] <= autRun[r].now
      /\ \A i \in DOMAIN autRun[r].left : autRow[autRun[r].left[i]] # AutAbsent
      /\ autRun[r].phase \in {"sink", "answered"} => AutCarries(autRun[r])
  BY <1>1, <1>2 DEF AutBusy
<1> DEFINE left == autRun[r].left
<1>5. 1 \in DOMAIN left /\ Head(left) = left[1] /\ left[1] \in AutOpportunities
  <2> HIDE DEF left
  <2>1. left \in Seq(AutOpportunities) /\ left # <<>>
    BY <1>3 DEF left
  <2> QED
    BY <2>1
<1> HIDE DEF left
<1>6. Head(left) \in AutOpportunities /\ AutEarliest[Head(left)] <= autRun[r].now /\ autRow[Head(left)] # AutAbsent
  BY <1>4, <1>5 DEF left
<1>7. autRow[Head(left)] \in AutOpportunity(Head(left))
  BY <1>6 DEF AutInductive, AutTypeOK
<1> QED
  BY <1>1, <1>3, <1>4, <1>6, <1>7 DEF left

LEMMA AutRests ==
  ASSUME AutInductive, NEW r \in AutRuns, autRun[r].phase # "idle"
  PROVE  AutRest(autRun[r]) \in AutRunStates /\ AutBusy(AutRest(autRun[r]))
<1>1. /\ autRun[r].now \in 0 .. AutLastTime /\ autRun[r].left \in Seq(AutOpportunities) \ {<<>>}
      /\ autRun[r].now <= autNow /\ AutBusy(autRun[r]) /\ autRun[r] # AutIdle
  BY AutRunTypes DEF AutIdle
<1>2. CASE Len(autRun[r].left) = 1
  BY <1>2 DEF AutRest, AutRunStates, AutBusy, AutIdle
<1>3. CASE Len(autRun[r].left) # 1
  <2> DEFINE left == autRun[r].left
             rest == [phase |-> "list", now |-> autRun[r].now, left |-> Tail(left)]
  <2>1. AutRest(autRun[r]) = rest
    BY <1>3 DEF AutRest
  <2>2. left \in Seq(AutOpportunities) /\ left # <<>> /\ Len(left) # 1
    BY <1>1, <1>3
  <2>3. /\ \A i \in DOMAIN left : AutEarliest[left[i]] <= autRun[r].now
        /\ \A i \in DOMAIN left : autRow[left[i]] # AutAbsent
    BY <1>1 DEF AutBusy
  <2> HIDE DEF left
  <2>4. Tail(left) \in Seq(AutOpportunities) /\ Tail(left) # <<>>
    <3>1. Tail(left) \in Seq(AutOpportunities) /\ Len(Tail(left)) = Len(left) - 1
      BY <2>2, HeadTailProperties
    <3>2. Len(left) \in Nat \ {0} /\ Len(left) # 1
      BY <2>2, EmptySeq
    <3>3. Len(Tail(left)) # 0
      BY <3>1, <3>2
    <3> QED
      BY <3>1, <3>3, EmptySeq
  <2>5. \A i \in DOMAIN Tail(left) : i + 1 \in DOMAIN left /\ Tail(left)[i] = left[i + 1]
    BY <2>2
  <2>6. rest \in AutRunStates
    BY <1>1, <2>4 DEF AutRunStates
  <2>7. /\ \A i \in DOMAIN Tail(left) : AutEarliest[Tail(left)[i]] <= autRun[r].now
        /\ \A i \in DOMAIN Tail(left) : autRow[Tail(left)[i]] # AutAbsent
    BY <2>3, <2>5
  <2>8. AutBusy(rest)
    BY <1>1, <2>7 DEF AutBusy
  <2> QED
    BY <2>1, <2>6, <2>8
<1> QED
  BY <1>2, <1>3

\* What an iteration makes of a row, and what it takes to the sink.
LEMMA AutLooks ==
  ASSUME AutInductive, NEW o \in AutOpportunities, autRow[o] \in AutOpportunity(o),
         NEW now \in Nat, now <= autNow, AutEarliest[o] <= now
  PROVE  /\ AutSeen(o, now) \in AutOpportunity(o) /\ AutTried(o, AutSeen(o, now))
         /\ autRow[o].attempts <= AutSeen(o, now).attempts
         /\ AutReaches(o, now) => /\ AutSeen(o, now).status = "emitting" /\ AutSeen(o, now).scene = autScene
                                  /\ AutAllows[autScene] /\ AutQuiet[autScene] <= now
<1> DEFINE old == autRow[o]
           row == [old EXCEPT !.scene = autScene]
           quiet == AutQuiet[autScene]
<1>1. autScene \in 1 .. AutVersions /\ quiet \in Nat /\ autNow \in Nat /\ AutEarliest[o] \in Nat
  BY AutConstantTypes DEF AutInductive, AutTypeOK
<1>2. /\ old \in AutRecord /\ old.attempts \in 0 .. 2 /\ old.followups \in 0 .. 1 /\ old.earliest \in Nat
      /\ old.earliest >= AutEarliest[o] /\ old.attempts <= AutMaxAttempts[o]
      /\ old.status \in {"emitting", "emitted"} => old.attempts > 0
      /\ old # AutAbsent /\ AutMaxAttempts[o] \in 1 .. 2
  BY AutRowTypes, AutConstantTypes
<1>3. /\ old.attempts <= old.followups + (IF old.status = "scheduled" THEN 0 ELSE 1)
  BY <1>2 DEF AutInductive, AutRowsOK, AutTried
<1> HIDE DEF quiet, old
<1>4. /\ row \in AutRecord /\ row.scene = autScene /\ row.status = old.status /\ row.earliest = old.earliest
      /\ row.attempts = old.attempts /\ row.followups = old.followups
  <2>1. autScene \in 0 .. AutVersions
    BY <1>1
  <2> QED
    BY <2>1, <1>2 DEF AutRecord
<1> HIDE DEF row
<1>5. \A new \in AutRecord :
         /\ new.earliest >= AutEarliest[o] /\ new.attempts <= AutMaxAttempts[o]
         /\ new.status \in {"emitting", "emitted"} => new.attempts > 0
         /\ new.attempts <= new.followups + (IF new.status = "scheduled" THEN 0 ELSE 1)
         => new \in AutOpportunity(o) /\ AutTried(o, new)
  BY <1>1 DEF AutOpportunity, AutTried
<1>6. CASE quiet > now
  <2>1. AutSeen(o, now) = IF quiet >= AutExpires[o] THEN [row EXCEPT !.status = "expired"] ELSE [row EXCEPT !.earliest = quiet]
    BY <1>6 DEF AutSeen, row, old, quiet
  <2>2. ~AutReaches(o, now)
    BY <1>1, <1>6 DEF AutReaches, quiet
  <2>3. PICK over : over = [row EXCEPT !.status = "expired"]
    OBVIOUS
  <2>4. PICK later : later = [row EXCEPT !.earliest = quiet]
    OBVIOUS
  <2>5. /\ over \in AutRecord /\ over.status = "expired" /\ over.earliest = row.earliest /\ over.attempts = row.attempts
        /\ over.followups = row.followups
        /\ later \in AutRecord /\ later.status = row.status /\ later.earliest = quiet /\ later.attempts = row.attempts
        /\ later.followups = row.followups
    BY <2>3, <2>4, <1>1, <1>4 DEF AutRecord
  <2>6. PICK new \in AutRecord :
           /\ new = AutSeen(o, now) /\ new.status \in {row.status, "expired"} /\ new.earliest \in {row.earliest, quiet}
           /\ new.attempts = row.attempts /\ new.followups = row.followups
    BY <2>1, <2>3, <2>4, <2>5
  <2>7. new \in AutOpportunity(o) /\ AutTried(o, new)
    <3>1. new.earliest >= AutEarliest[o]
      BY <1>1, <1>2, <1>4, <1>6, <2>6
    <3>2. new.status \in {"emitting", "emitted"} => new.attempts > 0
      BY <1>2, <1>4, <2>6
    <3>3. new.attempts <= new.followups + (IF new.status = "scheduled" THEN 0 ELSE 1) /\ new.attempts <= AutMaxAttempts[o]
      BY <1>2, <1>3, <1>4, <2>6
    <3> QED
      BY <3>1, <3>2, <3>3, <1>5
  <2>8. old.attempts <= new.attempts
    BY <1>2, <1>4, <2>6
  <2> QED
    BY <2>2, <2>6, <2>7, <2>8 DEF old
<1>7. CASE ~(quiet > now) /\ AutAllows[autScene] /\ old.status = "scheduled"
  <2>1. AutSeen(o, now) = IF old.attempts >= AutMaxAttempts[o] THEN [row EXCEPT !.status = "expired"]
                          ELSE [row EXCEPT !.attempts = row.attempts + 1, !.status = "emitting"]
    BY <1>4, <1>7 DEF AutSeen, row, old, quiet, AutClaimed, AutAllowed
  <2>2. CASE old.attempts >= AutMaxAttempts[o]
    <3>1. PICK new : new = [row EXCEPT !.status = "expired"]
      OBVIOUS
    <3>2. /\ new \in AutRecord /\ new.status = "expired" /\ new.earliest = row.earliest /\ new.attempts = row.attempts
          /\ new.followups = row.followups
      BY <3>1, <1>4 DEF AutRecord
    <3>3. new \in AutOpportunity(o) /\ AutTried(o, new)
      BY <3>2, <1>2, <1>3, <1>4, <1>5
    <3>4. new = AutSeen(o, now) /\ ~AutReaches(o, now) /\ old.attempts <= new.attempts
      BY <2>1, <2>2, <3>1, <3>2, <1>2, <1>4 DEF AutReaches
    <3> QED
      BY <3>3, <3>4 DEF old
  <2>3. CASE ~(old.attempts >= AutMaxAttempts[o])
    <3>1. PICK new : new = [row EXCEPT !.attempts = row.attempts + 1, !.status = "emitting"]
      OBVIOUS
    <3>2. /\ new \in AutRecord /\ new.status = "emitting" /\ new.earliest = row.earliest /\ new.attempts = old.attempts + 1
          /\ new.followups = row.followups /\ new.scene = row.scene
      <4>1. row.attempts + 1 \in 0 .. 2
        BY <1>2, <1>4, <2>3
      <4> QED
        BY <4>1, <3>1, <1>4 DEF AutRecord
    <3>3. new \in AutOpportunity(o) /\ AutTried(o, new)
      BY <3>2, <2>3, <1>2, <1>3, <1>4, <1>5, <1>7
    <3>4. new = AutSeen(o, now) /\ old.attempts <= new.attempts
      BY <2>1, <2>3, <3>1, <3>2, <1>2, <1>4
    <3>5. AutReaches(o, now) => AutAllows[autScene] /\ AutQuiet[autScene] <= now
      BY DEF AutReaches, AutAllowed
    <3> QED
      BY <3>2, <3>3, <3>4, <3>5, <1>4 DEF old
  <2> QED
    BY <2>2, <2>3
<1>8. CASE ~(quiet > now) /\ ~(AutAllows[autScene] /\ old.status = "scheduled")
  <2>1. AutSeen(o, now) = row
    BY <1>4, <1>8 DEF AutSeen, row, old, quiet, AutAllowed
  <2>2. row \in AutOpportunity(o) /\ AutTried(o, row)
    BY <1>2, <1>3, <1>4, <1>5
  <2>3. AutReaches(o, now) => row.status = "emitting" /\ AutAllows[autScene] /\ AutQuiet[autScene] <= now
    BY <2>1 DEF AutReaches, AutAllowed
  <2> QED
    BY <2>1, <2>2, <2>3, <1>2, <1>4 DEF old
<1> QED
  BY <1>6, <1>7, <1>8

LEMMA AutIterates ==
  ASSUME AutInductive, NEW r \in AutRuns, AutIterate(r)
  PROVE  AutInductive'
<1> DEFINE run == autRun[r]
           o == Head(run.left)
<1>1. /\ run \in AutRunStates /\ AutBusy(run) /\ run.now \in Nat /\ run.now <= autNow /\ o \in AutOpportunities
      /\ run.now \in 0 .. AutLastTime /\ run.left \in Seq(AutOpportunities) \ {<<>>}
      /\ AutEarliest[o] <= run.now /\ autRow[o] \in AutOpportunity(o) /\ run # AutIdle
  BY AutRunTypes DEF AutIterate, AutIdle
<1>2. UNCHANGED <<autNow, autScene, autSent>>
  BY DEF AutIterate
<1>3. PICK rest \in AutRunStates : rest = AutRest(run) /\ AutBusy(rest)
  BY AutRests DEF AutIterate
<1>4. CASE AutOver(o, run.now)
  <2>1. PICK row : row = [autRow[o] EXCEPT !.status = "expired"]
    OBVIOUS
  <2>2. autRow' = [autRow EXCEPT ![o] = row] /\ autRun' = [autRun EXCEPT ![r] = rest]
    BY <2>1, <1>3, <1>4 DEF AutIterate
  <2>3. /\ autRow[o] \in AutRecord /\ autRow[o].earliest >= AutEarliest[o] /\ autRow[o].attempts <= AutMaxAttempts[o]
        /\ autRow[o].attempts \in 0 .. 2 /\ autRow[o].followups \in 0 .. 1 /\ autRow[o] # AutAbsent
    BY <1>1, AutRowTypes
  <2>4. /\ row \in AutRecord /\ row.status = "expired" /\ row.earliest = autRow[o].earliest /\ row.attempts = autRow[o].attempts
        /\ row.followups = autRow[o].followups
    BY <2>1, <2>3 DEF AutRecord
  <2>5. autRow[o].attempts <= autRow[o].followups + 1
    BY <1>1, <2>3 DEF AutInductive, AutRowsOK, AutTried
  <2>6. row \in AutOpportunity(o) /\ AutTried(o, row) /\ autRow[o].attempts <= row.attempts
    BY <2>3, <2>4, <2>5 DEF AutOpportunity, AutTried
  <2>7. AutBusy(rest)'
    BY <2>2, <2>6, <1>1, <1>2, <1>3, AutRowMoves
  <2> QED
    BY <2>2, <2>6, <2>7, <1>1, <1>2, <1>3, AutTogether
<1>5. CASE ~AutOver(o, run.now)
  <2>1. /\ AutSeen(o, run.now) \in AutOpportunity(o) /\ AutTried(o, AutSeen(o, run.now))
        /\ autRow[o].attempts <= AutSeen(o, run.now).attempts
        /\ AutReaches(o, run.now) => /\ AutSeen(o, run.now).status = "emitting" /\ AutSeen(o, run.now).scene = autScene
                                     /\ AutAllows[autScene] /\ AutQuiet[autScene] <= run.now
    BY <1>1, AutLooks
  <2>2. PICK row \in AutOpportunity(o) : row = AutSeen(o, run.now)
    BY <2>1
  <2>3. autRow' = [autRow EXCEPT ![o] = row]
    BY <2>2, <1>5 DEF AutIterate
  <2>4. AutTried(o, row) /\ autRow[o].attempts <= row.attempts
    BY <2>1, <2>2
  <2>5. \A x \in AutRunStates : AutBusy(x) => AutBusy(x)'
    BY <2>3, <2>4, <1>1, <1>2, AutRowMoves
  <2>6. CASE ~AutReaches(o, run.now)
    <3>1. autRun' = [autRun EXCEPT ![r] = rest] /\ AutBusy(rest)'
      BY <2>5, <2>6, <1>3, <1>5 DEF AutIterate
    <3> QED
      BY <3>1, <2>3, <2>4, <1>1, <1>2, AutTogether
  <2>7. CASE AutReaches(o, run.now)
    <3>1. PICK sink : sink = [phase |-> "sink", now |-> run.now, left |-> run.left, row |-> row]
      OBVIOUS
    <3>2. autRun' = [autRun EXCEPT ![r] = sink]
      BY <2>2, <2>7, <3>1, <1>5 DEF AutIterate
    <3>3. row \in AutRecord /\ row # AutAbsent /\ row.attempts \in 0 .. 2 /\ autScene \in 1 .. AutVersions /\ AutVersions \in Nat
      BY <1>1, AutRowTypes, AutConstantTypes DEF AutInductive, AutTypeOK
    <3>4. sink \in AutRunStates
      BY <3>1, <3>3, <1>1 DEF AutRunStates
    <3>5. run.now < AutExpires[o]
      BY <1>1, <1>5, AutConstantTypes DEF AutOver
    <3>6. autRow'[o] = row /\ \A p \in AutOpportunities \ {o} : autRow'[p] = autRow[p]
      BY <2>3, <1>1 DEF AutInductive, AutTypeOK
    <3>7. /\ \A i \in DOMAIN run.left : AutEarliest[run.left[i]] <= run.now
          /\ \A i \in DOMAIN run.left : autRow[run.left[i]] # AutAbsent
          /\ \A i \in DOMAIN run.left : run.left[i] \in AutOpportunities
      BY <1>1 DEF AutBusy
    <3>8. AutCarries(sink)'
      <4>1. sink.row = row /\ sink.now = run.now /\ Head(sink.left) = o
        BY <3>1
      <4>2. autRow'[o] = row /\ row # AutAbsent /\ row.attempts <= row.attempts
        BY <3>3, <3>6
      <4>3. row.status = "emitting" /\ row.scene >= 1 /\ AutAllows[row.scene] /\ AutQuiet[row.scene] <= run.now
        BY <2>1, <2>2, <2>7, <3>3
      <4> HIDE DEF o, run
      <4> QED
        BY <4>1, <4>2, <4>3, <3>5 DEF AutCarries
    <3>9. \A i \in DOMAIN run.left : autRow'[run.left[i]] # AutAbsent
      BY <3>3, <3>6, <3>7
    <3>10. AutBusy(sink)'
      <4>1. sink.now = run.now /\ sink.left = run.left /\ autNow' = autNow
        BY <3>1, <1>2
      <4> HIDE DEF run, o
      <4> QED
        BY <4>1, <3>7, <3>8, <3>9, <1>1 DEF AutBusy
    <3> QED
      BY <2>3, <2>4, <3>2, <3>4, <3>10, <1>1, <1>2, AutTogether
  <2> QED
    BY <2>6, <2>7
<1> QED
  BY <1>4, <1>5

LEMMA AutSinks ==
  ASSUME AutInductive, NEW r \in AutRuns, AutSink(r)
  PROVE  AutInductive'
<1> DEFINE run == autRun[r]
           o == Head(run.left)
           event == AutEvent(o, run.row, run.now)
<1>1. /\ run \in AutRunStates /\ run.now \in 0 .. AutLastTime /\ o \in AutOpportunities /\ run.phase = "sink"
      /\ AutEarliest[o] <= run.now /\ autRow[o] \in AutOpportunity(o) /\ AutCarries(run) /\ AutBusy(run)
  BY AutRunTypes DEF AutSink, AutAtSink
<1>2. UNCHANGED <<autNow, autScene, autRow>>
  BY DEF AutSink
<1>3. /\ run.row.attempts \in 1 .. 2 /\ run.row.scene \in 1 .. AutVersions /\ autRow[o] # AutAbsent
      /\ run.row.attempts <= autRow[o].attempts
  BY <1>1, AutRowTypes, AutConstantTypes DEF AutCarries
<1>4. /\ event \in [opportunity : AutOpportunities, attempt : 1 .. 2, at : 0 .. AutLastTime, scene : 1 .. AutVersions]
      /\ event.opportunity = o /\ event.attempt = run.row.attempts /\ event.at = run.now /\ event.scene = run.row.scene
  BY <1>1, <1>3 DEF AutEvent
<1>5. AutEarliest[o] <= event.at /\ event.at < AutExpires[o] /\ AutAllows[event.scene] /\ AutQuiet[event.scene] <= event.at
  BY <1>1, <1>4 DEF AutCarries
<1>6. autSent' = autSent \/ (autSent' = autSent \cup {event} /\ ~AutKnown(o, run.row))
  BY DEF AutSink
<1> HIDE DEF event
<1>7. AutHeard'
  <2>1. AutHeard
    BY DEF AutInductive
  <2>2. CASE autSent' = autSent
    BY <2>1, <2>2, <1>2 DEF AutHeard
  <2>3. CASE autSent' = autSent \cup {event} /\ ~AutKnown(o, run.row)
    <3>1. \A e \in autSent : ~(e.opportunity = event.opportunity /\ e.attempt = event.attempt)
      BY <2>3, <1>4 DEF AutKnown
    <3>2. autRow[event.opportunity] # AutAbsent /\ event.attempt <= autRow[event.opportunity].attempts
      BY <1>3, <1>4
    <3> HIDE DEF o, run
    <3> QED
      BY <2>1, <2>3, <3>1, <3>2, <1>2 DEF AutHeard
  <2> QED
    BY <2>2, <2>3, <1>6
<1>8. AutJustified'
  <2> HIDE DEF o, run
  <2> QED
    BY <1>4, <1>5, <1>6 DEF AutInductive, AutJustified
<1>9. PICK answered : answered = [run EXCEPT !.phase = "answered"]
  OBVIOUS
<1>10. autRun' = [autRun EXCEPT ![r] = answered]
  BY <1>9 DEF AutSink
<1>11. run \in [phase : {"sink", "answered"}, now : 0 .. AutLastTime, left : Seq(AutOpportunities) \ {<<>>}, row : AutRecord]
  BY <1>1 DEF AutRunStates, AutIdle
<1>12. answered \in AutRunStates /\ answered.now = run.now /\ answered.left = run.left /\ answered.row = run.row
  <2> HIDE DEF run
  <2> QED
    BY <1>9, <1>11 DEF AutRunStates
<1>13. \A x \in AutRunStates : AutBusy(x) => AutBusy(x)'
  BY <1>2 DEF AutBusy, AutCarries
<1>14. AutBusy(answered)'
  <2>1. run # AutIdle
    BY <1>1 DEF AutIdle
  <2>2. AutCarries(answered)
    BY <1>1, <1>12 DEF AutCarries
  <2>3. AutBusy(answered)
    BY <1>1, <1>12, <2>1, <2>2 DEF AutBusy
  <2> QED
    BY <2>3, <1>12, <1>13
<1>15. autRun' \in [AutRuns -> AutRunStates] /\ AutRunsOK'
  BY <1>10, <1>12, <1>13, <1>14, AutRunMoves
<1>16. AutTypeOK' /\ AutRowsOK'
  <2> HIDE DEF o, run
  <2> QED
    BY <1>2, <1>4, <1>6, <1>15 DEF AutInductive, AutTypeOK, AutRowsOK, AutTried
<1> QED
  BY <1>7, <1>8, <1>15, <1>16 DEF AutInductive

LEMMA AutCompletes ==
  ASSUME AutInductive, NEW r \in AutRuns, AutComplete(r)
  PROVE  AutInductive'
<1> DEFINE run == autRun[r]
           o == Head(run.left)
<1>1. /\ run \in AutRunStates /\ o \in AutOpportunities /\ AutEarliest[o] <= run.now /\ run.now \in Nat /\ run.now <= autNow
      /\ autRow[o] \in AutOpportunity(o) /\ AutCarries(run) /\ AutBusy(run)
  BY AutRunTypes DEF AutComplete
<1>2. UNCHANGED <<autNow, autScene, autSent>>
  BY DEF AutComplete
<1>3. PICK rest \in AutRunStates : rest = AutRest(run) /\ AutBusy(rest)
  BY AutRests DEF AutComplete
<1>4. autRun' = [autRun EXCEPT ![r] = rest]
  BY <1>3 DEF AutComplete
<1>5. CASE ~AutStill(o, run.row)
  BY <1>2, <1>3, <1>4, <1>5, AutRunsAlone DEF AutComplete
<1>6. CASE AutStill(o, run.row)
  <2>1. PICK row : row = [autRow[o] EXCEPT !.status = "emitted"]
    OBVIOUS
  <2>2. autRow' = [autRow EXCEPT ![o] = row]
    BY <2>1, <1>6 DEF AutComplete, AutStill
  <2>3. /\ autRow[o] \in AutRecord /\ autRow[o].earliest >= AutEarliest[o] /\ autRow[o].attempts <= AutMaxAttempts[o]
        /\ autRow[o].attempts \in 0 .. 2 /\ autRow[o].followups \in 0 .. 1 /\ autRow[o] # AutAbsent
        /\ autRow[o].status = "emitting" /\ autRow[o].attempts > 0
    BY <1>1, <1>6, AutRowTypes DEF AutStill, AutCarries
  <2>4. /\ row \in AutRecord /\ row.status = "emitted" /\ row.earliest = autRow[o].earliest /\ row.attempts = autRow[o].attempts
        /\ row.followups = autRow[o].followups
    BY <2>1, <2>3 DEF AutRecord
  <2>5. autRow[o].attempts <= autRow[o].followups + 1 /\ AutEarliest[o] <= autNow
    BY <1>1, <2>3 DEF AutInductive, AutRowsOK, AutTried
  <2>6. row \in AutOpportunity(o) /\ AutTried(o, row) /\ autRow[o].attempts <= row.attempts
    BY <2>3, <2>4, <2>5 DEF AutOpportunity, AutTried
  <2>7. AutBusy(rest)'
    BY <2>2, <2>6, <1>1, <1>2, <1>3, AutRowMoves
  <2> QED
    BY <2>2, <2>6, <2>7, <1>1, <1>2, <1>3, <1>4, AutTogether
<1> QED
  BY <1>5, <1>6

(***************************************************************************)
(* The theorems.                                                           *)
(***************************************************************************)
LEMMA AutStep == AutInductive /\ [AutNext]_autVars => AutInductive'
<1> SUFFICES ASSUME AutInductive, [AutNext]_autVars PROVE AutInductive'
  OBVIOUS
<1>1. CASE UNCHANGED autVars
  BY <1>1 DEF autVars, AutInductive, AutTypeOK, AutRowsOK, AutTried, AutHeard, AutRunsOK, AutBusy, AutCarries, AutJustified
<1>2. CASE AutTick \/ AutSceneMoves
  BY <1>2, AutTimePasses
<1>3. ASSUME NEW o \in AutOpportunities, AutSchedule(o) \/ AutFollowUp(o) PROVE AutInductive'
  BY <1>3, AutSchedules, AutFollowsUp
<1>4. ASSUME NEW r \in AutRuns, AutBegin(r) \/ AutFail(r) PROVE AutInductive'
  BY <1>4, AutBegins, AutFails
<1>5. ASSUME NEW r \in AutRuns, AutIterate(r) \/ AutSink(r) \/ AutComplete(r) PROVE AutInductive'
  BY <1>5, AutIterates, AutSinks, AutCompletes
<1> QED
  BY <1>1, <1>2, <1>3, <1>4, <1>5 DEF AutNext

LEMMA AutAlways == AutSpec => []AutInductive
BY AutStarts, AutStep, PTL DEF AutSpec

LEMMA AutCounts == AutInductive => AutSpeaksOnce
<1> SUFFICES ASSUME AutInductive, NEW o \in AutOpportunities, AutSpoken(o) # {}
             PROVE  Cardinality(AutSpoken(o)) <= 1 + autRow[o].followups
  BY DEF AutSpeaksOnce
<1> DEFINE n == autRow[o].attempts
           attempt == [e \in AutSpoken(o) |-> e.attempt]
<1>1. /\ \A e \in AutSpoken(o) : e.attempt \in 1 .. 2 /\ e.attempt <= n /\ autRow[o] # AutAbsent
      /\ \A e, f \in AutSpoken(o) : e.attempt = f.attempt => e = f
  BY DEF AutInductive, AutTypeOK, AutHeard, AutSpoken
<1>2. autRow[o] \in AutOpportunity(o)
  BY <1>1 DEF AutInductive, AutTypeOK
<1>3. n \in 0 .. 2 /\ autRow[o].followups \in 0 .. 1 /\ n <= 1 + autRow[o].followups
  BY <1>1, <1>2, AutRowTypes DEF AutInductive, AutRowsOK, AutTried
<1> HIDE DEF n
<1>4. attempt \in Injection(AutSpoken(o), 1 .. n)
  BY <1>1, <1>3 DEF Injection, IsInjective
<1>5. IsFiniteSet(1 .. n) /\ Cardinality(1 .. n) = n
  <2>1. n \in Int /\ 1 \in Int /\ IF 1 > n THEN n = 0 ELSE n - 1 + 1 = n
    BY <1>3
  <2> QED
    BY <2>1, FS_Interval
<1> HIDE DEF attempt
<1>6. IsFiniteSet(AutSpoken(o)) /\ Cardinality(AutSpoken(o)) <= n
  BY <1>4, <1>5, FS_Injection
<1>7. Cardinality(AutSpoken(o)) \in Nat
  BY <1>6, FS_CardinalityType
<1> QED
  BY <1>3, <1>6, <1>7

\* The state of the scheduler, its rows and its runs keeps its types.
THEOREM AutTypes == AutSpec => []AutTypeOK
<1>1. AutInductive => AutTypeOK
  BY DEF AutInductive
<1> QED
  BY <1>1, AutAlways, PTL

\* However runs overlap, fail and begin again, an opportunity speaks once, and
\* once more only for its one follow-up.
THEOREM AutAlwaysSpeaksOnce == AutSpec => []AutSpeaksOnce
BY AutAlways, AutCounts, PTL

\* Every event lies in its opportunity's window and carries a scene that allowed it.
THEOREM AutAlwaysJustified == AutSpec => []AutJustified
<1>1. AutInductive => AutJustified
  BY DEF AutInductive
<1> QED
  BY <1>1, AutAlways, PTL
=============================================================================
