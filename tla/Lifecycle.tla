------------------------------ MODULE Lifecycle ------------------------------
(***************************************************************************)
(* Starting and stopping the runtime: the bridge (astrbot_bridge.py)       *)
(* builds a generation of services, from initialize or from the first      *)
(* event, and terminate takes the current one down; the manager            *)
(* (manager.py) lets its drains finish before it closes the group actors   *)
(* and then the persona supervisor, whose mailboxes answer commands in     *)
(* order and end at a stop command.                                        *)
(***************************************************************************)
EXTENDS Integers, Sequences, FiniteSets

CONSTANTS
  LifeTasks   \* calls of initialize or handle_event; a generation has the name of the call that built it

VARIABLES
  lfStarted,   \* bridge._started
  lfManager,   \* bridge._manager: the generation whose services the bridge refers to
  lfLoop,      \* the generation of bridge._attention_task
  lfUp,        \* by generation: services running
  lfMgr,       \* by generation: the manager
  lfBox,       \* by generation: the mailboxes of its group actor and its supervisor
  lfPc,        \* by task: where it is
  lfUses,      \* by task: the manager it works with
  lfAsks,      \* by task: the mailbox whose answer it awaits
  lfLate,      \* tasks whose command is behind the stop command
  lfCloser,    \* terminate: what it has still to close, of which generation
  lfGone       \* history: generations a terminate that returned had taken
lfVars == <<lfStarted, lfManager, lfLoop, lfUp, lfMgr, lfBox, lfPc, lfUses, lfAsks, lfLate, lfCloser, lfGone>>

LifeNone == "none"
ASSUME LifeConstants == LifeNone \notin LifeTasks /\ "idle" \notin LifeTasks
LifeBoxes == {"actor", "persona"}
LifeOrder == <<"vision", "jobs", "observer", "profile", "manager">>
LifeBuilding == {"manager", "profile", "observer", "jobs", "vision"}
LifeIdle == [of |-> "idle", left |-> <<>>]

LifeInit ==
  /\ lfStarted = FALSE /\ lfManager = LifeNone /\ lfLoop = LifeNone
  /\ lfUp = [g \in LifeTasks |-> {}] /\ lfMgr = [g \in LifeTasks |-> "new"]
  /\ lfBox = [g \in LifeTasks |-> [b \in LifeBoxes |-> "down"]]
  /\ lfPc = [t \in LifeTasks |-> "idle"] /\ lfUses = [t \in LifeTasks |-> LifeNone]
  /\ lfAsks = [t \in LifeTasks |-> LifeNone] /\ lfLate = {} /\ lfCloser = LifeIdle /\ lfGone = {}

----------------------------------------------------------------------------
(* The bridge.                                                             *)
LifeInside(g) == {t \in LifeTasks : lfPc[t] = "inside" /\ lfUses[t] = g}
LifeWork == <<lfUses, lfAsks, lfLate>>
LifeGoto(t, to) == lfPc' = [lfPc EXCEPT ![t] = to]

\* Nothing says that another call is already starting.
LifeStart(t) ==
  /\ lfPc[t] = "idle"
  /\ LifeGoto(t, IF lfStarted THEN "ready" ELSE "manager")
  /\ UNCHANGED <<lfStarted, lfManager, lfLoop, lfUp, lfMgr, lfBox, lfCloser, lfGone>> /\ UNCHANGED LifeWork

LifeAfter(step) == IF step = "manager" THEN "profile" ELSE IF step = "profile" THEN "observer"
                   ELSE IF step = "observer" THEN "jobs" ELSE "vision"
\* manager.start, then the start of each service; the references are set after the last.
LifeServe(t) ==
  /\ lfPc[t] \in {"manager", "profile", "observer", "jobs"}
  /\ lfUp' = [lfUp EXCEPT ![t] = @ \cup {lfPc[t]} \cup (IF lfPc[t] = "jobs" THEN {"vision"} ELSE {})]
  /\ IF lfPc[t] = "manager" THEN /\ lfMgr' = [lfMgr EXCEPT ![t] = "open"]
                                 /\ lfBox' = [lfBox EXCEPT ![t] = [b \in LifeBoxes |-> "up"]]
                            ELSE UNCHANGED <<lfMgr, lfBox>>
  /\ lfManager' = IF lfPc[t] = "jobs" THEN t ELSE lfManager
  /\ LifeGoto(t, LifeAfter(lfPc[t]))
  /\ UNCHANGED <<lfStarted, lfLoop, lfCloser, lfGone>> /\ UNCHANGED LifeWork
\* The attention loop of a generation that is no longer current ends by itself.
LifeServed(t) ==
  /\ lfPc[t] = "vision" /\ lfStarted' = TRUE /\ lfLoop' = t
  /\ lfUp' = [lfUp EXCEPT ![t] = @ \cup {"loop"}] /\ LifeGoto(t, "ready")
  /\ UNCHANGED <<lfManager, lfMgr, lfBox, lfCloser, lfGone>> /\ UNCHANGED LifeWork
LifeLoopEnds(g) ==
  /\ "loop" \in lfUp[g] /\ lfManager # g /\ lfUp' = [lfUp EXCEPT ![g] = @ \ {"loop"}]
  /\ UNCHANGED <<lfStarted, lfManager, lfLoop, lfMgr, lfBox, lfPc, lfCloser, lfGone>> /\ UNCHANGED LifeWork

\* A step of start raises: the references are dropped, whoever set them, and the services of this
\* start are closed, its manager once its drains are over; the vision worker closed is the one
\* the bridge refers to.
LifeFail(t) ==
  /\ lfPc[t] \in LifeBuilding /\ lfManager' = LifeNone
  /\ lfUp' = [g \in LifeTasks |->
                lfUp[g] \ ((IF g = t THEN LifeBuilding \ {"vision"} ELSE {}) \cup (IF g = lfManager THEN {"vision"} ELSE {}))]
  /\ lfMgr' = [lfMgr EXCEPT ![t] = IF @ = "new" THEN "new" ELSE "down"]
  /\ lfBox' = [lfBox EXCEPT ![t] = [b \in LifeBoxes |-> "down"]]
  /\ LifeInside(t) = {} /\ LifeGoto(t, "failed")
  /\ UNCHANGED <<lfStarted, lfLoop, lfCloser, lfGone>> /\ UNCHANGED LifeWork

LifeTake_keep == lfManager' = lfManager
LifeTake == lfManager' = LifeNone
\* close: the loop is cancelled, the references taken, then each service closed in turn.
LifeClose ==
  /\ lfCloser = LifeIdle /\ LifeTake
  /\ lfCloser' = [of |-> lfManager, left |-> IF lfManager = LifeNone THEN <<>> ELSE LifeOrder] /\ lfLoop' = LifeNone
  /\ lfUp' = [g \in LifeTasks |-> IF g = lfLoop THEN lfUp[g] \ {"loop"} ELSE lfUp[g]]
  /\ UNCHANGED <<lfStarted, lfMgr, lfBox, lfPc, lfGone>> /\ UNCHANGED LifeWork
LifeRest_raise(raised) == IF raised THEN <<>> ELSE Tail(lfCloser.left)
\* _close_resources: an error does not keep the next ones from being closed.
LifeRest(raised) == Tail(lfCloser.left)
LifeCloseOne ==
  /\ lfCloser.left # <<>> /\ Head(lfCloser.left) # "manager"
  /\ lfUp' = [lfUp EXCEPT ![lfCloser.of] = @ \ {Head(lfCloser.left)}]
  /\ \E raised \in BOOLEAN : lfCloser' = [lfCloser EXCEPT !.left = LifeRest(raised)]
  /\ UNCHANGED <<lfStarted, lfManager, lfLoop, lfMgr, lfBox, lfPc, lfGone>> /\ UNCHANGED LifeWork
LifeClosed ==
  /\ lfCloser # LifeIdle
  /\ \/ lfCloser.left = <<>>
     \/ lfCloser.left = <<"manager">> /\ lfMgr[lfCloser.of] = "down"
  /\ lfCloser' = LifeIdle /\ lfStarted' = FALSE /\ lfGone' = lfGone \cup ({lfCloser.of} \ {LifeNone})
  /\ lfUp' = IF lfCloser.left = <<>> THEN lfUp
             ELSE [lfUp EXCEPT ![lfCloser.of] = @ \ {"manager"}]
  /\ UNCHANGED <<lfManager, lfLoop, lfMgr, lfBox, lfPc>> /\ UNCHANGED LifeWork

----------------------------------------------------------------------------
(* The manager: close waits for the drains, then stops the actors, then    *)
(* the supervisor.                                                         *)
LifeDrained_now(g) == TRUE
LifeDrained(g) == LifeInside(g) = {}
LifeBridge == <<lfStarted, lfManager, lfLoop, lfUp, lfCloser, lfGone>>
LifeStopping(g) == lfCloser.of = g /\ lfCloser.left = <<"manager">>
LifeMgrClose(g) ==
  /\ LifeStopping(g)
  /\ \/ lfMgr[g] = "open" /\ lfMgr' = [lfMgr EXCEPT ![g] = "closing"] /\ UNCHANGED lfBox
     \/ /\ lfMgr[g] = "closing" /\ LifeDrained(g) /\ lfMgr' = [lfMgr EXCEPT ![g] = "actors"]
        /\ lfBox' = [lfBox EXCEPT ![g]["actor"] = "ending"]
     \/ /\ lfMgr[g] = "actors" /\ lfBox[g]["actor"] = "down" /\ lfMgr' = [lfMgr EXCEPT ![g] = "persona"]
        /\ lfBox' = [lfBox EXCEPT ![g]["persona"] = "ending"]
     \/ lfMgr[g] = "persona" /\ lfBox[g]["persona"] = "down" /\ lfMgr' = [lfMgr EXCEPT ![g] = "down"] /\ UNCHANGED lfBox
  /\ UNCHANGED lfPc /\ UNCHANGED LifeWork /\ UNCHANGED LifeBridge
\* What was sent before the stop command is answered first; what was sent after it never is.
LifeBoxStop(g, b) ==
  /\ lfBox[g][b] = "ending" /\ \A t \in LifeTasks : lfUses[t] = g /\ lfAsks[t] = b => t \in lfLate
  /\ lfBox' = [lfBox EXCEPT ![g][b] = "down"]
  /\ UNCHANGED <<lfMgr, lfPc>> /\ UNCHANGED LifeWork /\ UNCHANGED LifeBridge

\* handle_event: no manager, or one that no longer accepts work, ends it.
LifeBegin(t) ==
  /\ lfPc[t] = "ready"
  /\ IF lfManager # LifeNone /\ lfMgr[lfManager] = "open"
     THEN LifeGoto(t, "inside") /\ lfUses' = [lfUses EXCEPT ![t] = lfManager]
     ELSE LifeGoto(t, "over") /\ UNCHANGED lfUses
  /\ UNCHANGED <<lfMgr, lfBox, lfAsks, lfLate>> /\ UNCHANGED LifeBridge
\* Within a drain the group actor and the supervisor are asked; the reply to what was drained
\* asks the supervisor again, outside any drain (persona_snapshot).
LifeAsk(t) ==
  /\ lfPc[t] \in {"inside", "replying"} /\ lfAsks[t] = LifeNone
  /\ \E b \in IF lfPc[t] = "inside" THEN LifeBoxes ELSE {"persona"} :
       /\ lfBox[lfUses[t]][b] # "down" /\ lfAsks' = [lfAsks EXCEPT ![t] = b]
       /\ lfLate' = IF lfBox[lfUses[t]][b] = "ending" THEN lfLate \cup {t} ELSE lfLate
  /\ UNCHANGED <<lfMgr, lfBox, lfPc, lfUses>> /\ UNCHANGED LifeBridge
LifeAnswer(t) ==
  /\ lfAsks[t] # LifeNone /\ t \notin lfLate /\ lfBox[lfUses[t]][lfAsks[t]] # "down"
  /\ lfAsks' = [lfAsks EXCEPT ![t] = LifeNone]
  /\ UNCHANGED <<lfMgr, lfBox, lfPc, lfUses, lfLate>> /\ UNCHANGED LifeBridge
LifeEnd(t) ==
  /\ lfPc[t] \in {"inside", "replying"} /\ lfAsks[t] = LifeNone
  /\ LifeGoto(t, IF lfPc[t] = "inside" THEN "replying" ELSE "over")
  /\ UNCHANGED <<lfMgr, lfBox, lfUses, lfAsks, lfLate>> /\ UNCHANGED LifeBridge

LifeNext ==
  \/ \E t \in LifeTasks : \/ LifeStart(t) \/ LifeServe(t) \/ LifeServed(t) \/ LifeFail(t) \/ LifeLoopEnds(t)
                          \/ LifeBegin(t) \/ LifeAsk(t) \/ LifeAnswer(t) \/ LifeEnd(t)
                          \/ LifeMgrClose(t) \/ \E b \in LifeBoxes : LifeBoxStop(t, b)
  \/ LifeClose \/ LifeCloseOne \/ LifeClosed
LifeSpec == LifeInit /\ [][LifeNext]_lfVars

----------------------------------------------------------------------------
LifeManagers == {"new", "open", "closing", "actors", "persona", "down"}
LifeMailboxes == [LifeBoxes -> {"down", "up", "ending"}]
LifeTypeOK ==
  /\ lfStarted \in BOOLEAN /\ lfManager \in LifeTasks \cup {LifeNone} /\ lfLoop \in LifeTasks \cup {LifeNone}
  /\ lfUp \in [LifeTasks -> SUBSET (LifeBuilding \cup {"loop"})]
  /\ lfMgr \in [LifeTasks -> LifeManagers]
  /\ lfBox \in [LifeTasks -> LifeMailboxes]
  /\ lfPc \in [LifeTasks -> LifeBuilding \cup {"idle", "ready", "inside", "replying", "over", "failed"}]
  /\ lfUses \in [LifeTasks -> LifeTasks \cup {LifeNone}] /\ lfAsks \in [LifeTasks -> LifeBoxes \cup {LifeNone}]
  /\ lfLate \subseteq LifeTasks /\ lfGone \subseteq LifeTasks
  /\ lfCloser \in [of : LifeTasks \cup {LifeNone, "idle"}, left : Seq(LifeBuilding)]

\* No drain waits for an answer a stopped mailbox will never give: the manager closes the actors
\* and the supervisor only when the drains are over, in that order (manager.py close).
LifeDrainAnswered ==
  \A t \in LifeTasks : lfPc[t] = "inside" /\ lfAsks[t] # LifeNone => lfBox[lfUses[t]][lfAsks[t]] # "down" /\ t \notin lfLate

\* The bridge never refers to a manager on its way down, and terminate leaves nothing of the
\* generation it took running, even when closing one of its services raises (astrbot_bridge.py
\* close, _close_resources).
LifeReferenceIsLive ==
  /\ lfManager # LifeNone => lfMgr[lfManager] = "open"
  /\ \A g \in lfGone : lfUp[g] \subseteq {"loop"}

\* Starts, uses and a terminate that cross leave no drain waiting and no manager used on its way down.
LifeSound == LifeDrainAnswered /\ LifeReferenceIsLive
=============================================================================
