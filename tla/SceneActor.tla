------------------------------ MODULE SceneActor ------------------------------
(***************************************************************************)
(* One GroupSceneActor with its share of the event store, and the drains   *)
(* of SocialRuntimeManager that feed it and judge its work requests.       *)
(*                                                                         *)
(* Inbox, cursor, work requests, evaluations and the world snapshot are in *)
(* SQLite; the projected world, the ambient attention window, the cached   *)
(* request and the requests recovered at start live in memory and vanish   *)
(* with the process.  A drain awaits between two events and again before   *)
(* each judgement: there the other drains, new events, a change of persona *)
(* or configuration, a failure and a crash come in.                        *)
(***************************************************************************)
EXTENDS Integers, Sequences, FiniteSets

CONSTANTS
  Events,        (* events of the group                                     *)
  Fast,          (* events with a frame of their own (FAST, CONTINUATION)   *)
  External,      (* events with social_eligible = False                     *)
  Drains,        (* concurrent calls of SocialRuntimeManager.drain          *)
  Feedback,      (* those of _dispatch_ready, which reads no evaluation     *)
  MaxDrift,      (* MAX_SCENE_VERSION_DRIFT                                 *)
  RecentLimit,   (* length of PresenceHistory.recent_event_ids              *)
  SnapshotEvery, (* SNAPSHOT_INTERVAL                                       *)
  MaxPersona,    (* bound on persona and configuration changes              *)
  MaxFailures,   (* bound on exceptions                                     *)
  MaxRestarts    (* bound on crashes and closes                             *)

ASSUME SceneAssumption ==
  /\ IsFiniteSet(Events)
  /\ Fast \subseteq Events
  /\ External \subseteq Events \ Fast
  /\ Feedback \subseteq Drains
  /\ MaxDrift \in Nat
  /\ RecentLimit \in Nat \ {0}
  /\ SnapshotEvery \in Nat \ {0}
  /\ MaxPersona \in Nat /\ MaxFailures \in Nat /\ MaxRestarts \in Nat

VARIABLES
  inbox,       (* inbox rows in order of sequence                           *)
  status,      (* inbox.status                                              *)
  cursor,      (* actor_cursors.last_sequence                               *)
  work,        (* scene_work_requests, by the event that triggered them     *)
  evaluations, (* frames with a shadow.governor_evaluated journal row       *)
  saved,       (* the actor snapshot: last sequence and world               *)
  up,          (* the actor runs                                            *)
  world,       (* GroupWorldState: the events projected so far              *)
  window,      (* pending ambient window: no element or one                 *)
  cached,      (* _pending_requests: no request or one                      *)
  recovered,   (* _recovered_requests                                       *)
  lock,        (* holder of _drain_lock: no drain or one                    *)
  drain,       (* what every drain is doing                                 *)
  persona,     (* current persona state and configuration version           *)
  acted,       (* frames whose evaluation was accepted, in that order       *)
  handed,      (* frames whose evaluation was given to the reply lanes      *)
  failures, restarts

store == <<inbox, status, cursor, work, evaluations, saved>>
memory == <<up, world, window, cached, recovered>>
callers == <<lock, drain>>
results == <<acted, handed>>
vars == <<store, memory, callers, persona, results, failures, restarts>>

Versions == 0 .. Cardinality(Events) + 1
Frame == [lane : {"FAST", "AMBIENT"}, focus : SUBSET Events, sv : Versions,
          persona : 0 .. MaxPersona]
Window == [focus : SUBSET Events, sv : Versions, persona : 0 .. MaxPersona]
Task == Events \X Frame

NoWork == [status |-> "none", sv |-> 0, persona |-> 0, frames |-> {},
           window |-> {}, evaluated |-> {}]
Idle == [pc |-> "idle", batch |-> {}, todo |-> {}, kept |-> {}]

Numbers == 1 .. Len(inbox)
Pending(r) == work[r].status = "pending"
First(batch) == CHOOSE i \in batch : \A j \in batch : i <= j
Recent == {world[i] : i \in {j \in 1 .. Len(world) : j > Len(world) - RecentLimit}}
-----------------------------------------------------------------------------
(***************************************************************************)
(* The store and the actor, operation by operation.                        *)
(***************************************************************************)

(* Inbox rows claim hands out: everything unfinished behind the cursor.    *)
Claimable_skipsFailed ==
  {i \in Numbers : i > cursor /\ status[inbox[i]] \in {"pending", "processing"}}
Claimable ==
  {i \in Numbers :
     i > cursor /\ status[inbox[i]] \in {"pending", "failed", "processing"}}

(* AttentionScheduler.on_event: a frame at once, or a window that grows.   *)
FramesOf(e, v) ==
  IF e \in Fast
  THEN {[lane |-> "FAST", focus |-> {e}, sv |-> v, persona |-> persona]}
  ELSE {}

WindowAfter(e, v) ==
  LET focus == UNION {w.focus : w \in window}
      open(es) == {[focus |-> es, sv |-> v, persona |-> persona]}
  IN  IF e \in Fast \cup External
      THEN IF window = {} THEN {} ELSE open(focus)
      ELSE open(focus \cup {e})

AmbientFrame(w) ==
  [lane |-> "AMBIENT", focus |-> w.focus, sv |-> w.sv, persona |-> w.persona]

(* supersede: pending requests below the boundary are closed as stale. *)
Supersede_named(rows, boundary) ==
  [r \in Events |->
     IF rows[r].status = "pending" /\ rows[r].sv < boundary
     THEN [rows[r] EXCEPT !.status = "superseded"] ELSE rows[r]]
Supersede_never(rows, boundary) == rows
Supersede_resolved(rows, boundary) ==
  [r \in Events |->
     IF rows[r].sv < boundary THEN [rows[r] EXCEPT !.status = "stale"]
     ELSE rows[r]]
Supersede(rows, boundary) ==
  [r \in Events |->
     IF rows[r].status = "pending" /\ rows[r].sv < boundary
     THEN [rows[r] EXCEPT !.status = "stale"] ELSE rows[r]]

(* Deterministic replay of what the snapshot does not hold yet. *)
Replayed_twice ==
  saved.world \o SubSeq(inbox, IF saved.last = 0 THEN 1 ELSE saved.last, cursor)
Replayed == saved.world \o SubSeq(inbox, saved.last + 1, cursor)

(* What the manager still has to judge of a request. *)
Unjudged_all(r) == {<<r, f>> : f \in work[r].frames}
Unjudged(r) == {<<r, f>> : f \in work[r].frames \ work[r].evaluated}

(* resolve_scene_evaluation: only a pending row can be resolved. *)
Resolve(r, s) ==
  IF Pending(r) THEN [work EXCEPT ![r].status = s] ELSE work

Uncached_kept(r) == cached
Uncached(r) == cached \ {r}

(* _result_still_actionable on a request that is still pending. *)
Actionable(r, f) ==
  /\ Pending(r)
  /\ Len(world) - f.sv \in 0 .. MaxDrift
  /\ f.sv = work[r].sv
  /\ f.persona = work[r].persona
  /\ f.persona = persona
  /\ f \in work[r].frames
  /\ f.focus \cap Recent # {}

(* A drain that has nothing left to judge returns what was accepted; only  *)
(* some of its callers hand that to the reply lanes.                       *)
Judging(d, todo, kept) ==
  /\ drain' = [drain EXCEPT ![d] =
       IF todo = {} THEN Idle
       ELSE [pc |-> "judging", batch |-> {}, todo |-> todo, kept |-> kept]]
  /\ handed' = IF todo = {} /\ d \notin Feedback THEN handed \cup kept ELSE handed

Dropped(d) ==
  /\ drain' = [drain EXCEPT ![d] = Idle]
  /\ lock' = lock \ {d}
-----------------------------------------------------------------------------
(* SocialEventFabric.publish: the event is durable before anything else.   *)
Publish(e) ==
  /\ up
  /\ status[e] = "absent"
  /\ inbox' = Append(inbox, e)
  /\ status' = [status EXCEPT ![e] = "pending"]
  /\ UNCHANGED <<cursor, work, evaluations, saved, memory, callers, persona,
                 results, failures, restarts>>

(* The drain gets the lock and takes over the recovered requests. *)
BeginDrain(d) ==
  /\ up
  /\ drain[d] = Idle
  /\ lock = {}
  /\ lock' = {d}
  /\ drain' = [drain EXCEPT ![d] =
       [Idle EXCEPT !.pc = "claiming", !.todo = UNION {Unjudged(r) : r \in recovered}]]
  /\ recovered' = {}
  /\ UNCHANGED <<store, up, world, window, cached, persona, results, failures,
                 restarts>>

(* Cursor and claim; each claimed event is processed after an await. *)
Claim(d) ==
  /\ drain[d].pc = "claiming"
  /\ drain[d].batch = {}
  /\ Claimable # {}
  /\ status' = [e \in Events |->
       IF \E i \in Claimable : inbox[i] = e THEN "processing" ELSE status[e]]
  /\ drain' = [drain EXCEPT ![d].batch = Claimable]
  /\ UNCHANGED <<inbox, cursor, work, evaluations, saved, memory, lock, persona,
                 results, failures, restarts>>

(* _process: project, schedule attention, commit in one transaction, and   *)
(* only then replace the state and the cached request in memory.           *)
Process(d) ==
  LET i == First(drain[d].batch)
      e == inbox[i]
      v == Len(world) + 1
      row == [status |-> "pending", sv |-> v, persona |-> persona,
              frames |-> FramesOf(e, v), window |-> WindowAfter(e, v),
              evaluated |-> {}]
  IN
  /\ drain[d].pc = "claiming"
  /\ drain[d].batch # {}
  /\ world' = Append(world, e)
  /\ window' = WindowAfter(e, v)
  /\ work' = [Supersede(work, v - MaxDrift) EXCEPT ![e] = row]
  /\ cursor' = i
  /\ status' = [status EXCEPT ![e] = "committed"]
  /\ cached' = {e}
  /\ saved' \in {saved} \cup
       (IF v % SnapshotEvery = 0 THEN {[last |-> i, world |-> world']} ELSE {})
  /\ drain' = [drain EXCEPT ![d].batch = @ \ {i},
                            ![d].todo = @ \cup {<<e, f>> : f \in FramesOf(e, v)}]
  /\ UNCHANGED <<inbox, evaluations, up, recovered, lock, persona, results,
                 failures, restarts>>

(* The commit fails: the event is marked, the drain raises and drops what  *)
(* it produced, and the attention window keeps what on_event did to it.    *)
ProcessFails(d) ==
  LET e == inbox[First(drain[d].batch)] IN
  /\ drain[d].pc = "claiming"
  /\ drain[d].batch # {}
  /\ failures < MaxFailures
  /\ failures' = failures + 1
  /\ status' = [status EXCEPT ![e] = "failed"]
  /\ window' = WindowAfter(e, Len(world) + 1)
  /\ Dropped(d)
  /\ UNCHANGED <<inbox, cursor, work, evaluations, saved, up, world, cached,
                 recovered, persona, results, restarts>>

(* Tasks of requests of the newest scene version. *)
Newest(todo) == {t \in todo : work[t[1]].sv = Len(world)}

(* Nothing left to claim: the lock is released and only the requests of    *)
(* the newest scene version are returned.                                  *)
EndClaim(d) ==
  /\ drain[d].pc = "claiming"
  /\ drain[d].batch = {}
  /\ Claimable = {}
  /\ lock' = {}
  /\ drain' = [drain EXCEPT ![d].pc = "flushing", ![d].todo = Newest(@)]
  /\ UNCHANGED <<store, memory, persona, results, failures, restarts>>

(* flush_attention finds no window whose deadline has passed. *)
FlushNothing(d) ==
  /\ drain[d].pc = "flushing"
  /\ Judging(d, drain[d].todo, {})
  /\ UNCHANGED <<store, memory, lock, persona, acted, failures, restarts>>

(* The window is due: its frame joins the cached request, in memory and in *)
(* the store.  Without a cached request the frame is gone; were the cached *)
(* request resolved in the store, the window would be put back.            *)
FlushDue(d) ==
  LET added == cached \X {AmbientFrame(w) : w \in window} IN
  /\ drain[d].pc = "flushing"
  /\ window # {}
  /\ \A r \in cached : Pending(r)
  /\ window' = {}
  /\ work' = [r \in Events |->
       IF r \in cached
       THEN [work[r] EXCEPT !.frames = @ \cup {AmbientFrame(w) : w \in window},
                            !.window = {}]
       ELSE work[r]]
  /\ Judging(d, drain[d].todo \cup added, {})
  /\ UNCHANGED <<inbox, status, cursor, evaluations, saved, up, world, cached,
                 recovered, lock, persona, acted, failures, restarts>>

(* accept_result of an evaluation that is still actionable: the request    *)
(* stays pending while it has frames or a window to evaluate.              *)
Accept(d, r, f) ==
  LET row == [work[r] EXCEPT !.evaluated = @ \cup {f}]
      newest == row.sv = Len(world)
      keep == row.frames \ row.evaluated # {} \/ (newest /\ row.window # {})
  IN
  /\ <<r, f>> \in drain[d].todo
  /\ drain[d].pc = "judging"
  /\ Actionable(r, f)
  /\ work' = [work EXCEPT ![r] =
       [row EXCEPT !.status = IF keep THEN "pending" ELSE "accepted"]]
  /\ cached' = IF keep /\ newest THEN cached \cup {r} ELSE Uncached(r)
  /\ evaluations' = evaluations \cup {f}
  /\ acted' = Append(acted, f)
  /\ Judging(d, drain[d].todo \ {<<r, f>>}, drain[d].kept \cup {f})
  /\ UNCHANGED <<inbox, status, cursor, saved, up, world, window, recovered,
                 lock, persona, failures, restarts>>

(* accept_result otherwise: a pending request is closed as stale with all  *)
(* its frames; an evaluation that was recorded before is accepted again.   *)
Reject(d, r, f) ==
  /\ <<r, f>> \in drain[d].todo
  /\ drain[d].pc = "judging"
  /\ ~Actionable(r, f)
  /\ work' = Resolve(r, "stale")
  /\ cached' = Uncached(r)
  /\ IF work[r].status = "accepted" /\ f \in evaluations
     THEN /\ acted' = Append(acted, f)
          /\ Judging(d, drain[d].todo \ {<<r, f>>}, drain[d].kept \cup {f})
     ELSE /\ acted' = acted
          /\ Judging(d, drain[d].todo \ {<<r, f>>}, drain[d].kept)
  /\ UNCHANGED <<inbox, status, cursor, evaluations, saved, up, world, window,
                 recovered, lock, persona, failures, restarts>>

(* The ambient deadline passed before or during cognition: discard_work.   *)
Discard(d, r, f) ==
  /\ <<r, f>> \in drain[d].todo
  /\ drain[d].pc = "judging"
  /\ f.lane = "AMBIENT"
  /\ work' = Resolve(r, "stale")
  /\ cached' = Uncached(r)
  /\ Judging(d, drain[d].todo \ {<<r, f>>}, drain[d].kept)
  /\ UNCHANGED <<inbox, status, cursor, evaluations, saved, up, world, window,
                 recovered, lock, persona, acted, failures, restarts>>

(* An await of the drain raises or is cancelled: the persona snapshot of a *)
(* claimed event or the cognition of a frame.                              *)
DrainRaises(d) ==
  /\ \/ drain[d].pc = "claiming" /\ drain[d].batch # {}
     \/ drain[d].pc = "judging"
  /\ failures < MaxFailures
  /\ failures' = failures + 1
  /\ Dropped(d)
  /\ UNCHANGED <<store, memory, persona, results, restarts>>
-----------------------------------------------------------------------------
PersonaChanges ==
  /\ persona < MaxPersona
  /\ persona' = persona + 1
  /\ UNCHANGED <<store, memory, callers, results, failures, restarts>>

Forget ==
  /\ restarts < MaxRestarts
  /\ restarts' = restarts + 1
  /\ up' = FALSE
  /\ world' = <<>>
  /\ window' = {}
  /\ cached' = {}
  /\ recovered' = {}
  /\ lock' = {}
  /\ drain' = [d \in Drains |-> Idle]
  /\ UNCHANGED <<inbox, status, cursor, work, evaluations, persona, results,
                 failures>>

(* close waits for the drains and saves a snapshot, which may fail. *)
Close ==
  /\ up
  /\ \A d \in Drains : drain[d] = Idle
  /\ Forget
  /\ saved' \in {saved, [last |-> cursor, world |-> world]}

Crash ==
  /\ up
  /\ Forget
  /\ UNCHANGED saved

(* start: replay, close requests of older versions, reissue the newest.    *)
Start ==
  LET rows == Supersede(work, Len(Replayed))
      reissued == {r \in Events :
                     rows[r].status = "pending" /\ rows[r].sv = Len(Replayed)}
  IN
  /\ ~up
  /\ up' = TRUE
  /\ world' = Replayed
  /\ work' = rows
  /\ cached' = reissued
  /\ recovered' = reissued
  /\ window' = UNION {rows[r].window : r \in reissued}
  /\ UNCHANGED <<inbox, status, cursor, evaluations, saved, callers, persona,
                 results, failures, restarts>>
-----------------------------------------------------------------------------
Init ==
  /\ inbox = <<>>
  /\ status = [e \in Events |-> "absent"]
  /\ cursor = 0
  /\ work = [e \in Events |-> NoWork]
  /\ evaluations = {}
  /\ saved = [last |-> 0, world |-> <<>>]
  /\ up = TRUE
  /\ world = <<>>
  /\ window = {}
  /\ cached = {}
  /\ recovered = {}
  /\ lock = {}
  /\ drain = [d \in Drains |-> Idle]
  /\ persona = 0
  /\ acted = <<>>
  /\ handed = {}
  /\ failures = 0
  /\ restarts = 0

Judge(d) ==
  \E t \in drain[d].todo :
    Accept(d, t[1], t[2]) \/ Reject(d, t[1], t[2]) \/ Discard(d, t[1], t[2])

DrainStep(d) ==
  \/ Claim(d) \/ Process(d) \/ EndClaim(d)
  \/ FlushNothing(d) \/ FlushDue(d)
  \/ Judge(d)

Next ==
  \/ \E e \in Events : Publish(e)
  \/ \E d \in Drains :
       BeginDrain(d) \/ DrainStep(d) \/ ProcessFails(d) \/ DrainRaises(d)
  \/ PersonaChanges
  \/ Close \/ Crash \/ Start

Spec == Init /\ [][Next]_vars
-----------------------------------------------------------------------------
TypeOK ==
  /\ inbox \in Seq(Events)
  /\ status \in [Events -> {"absent", "pending", "processing", "failed", "committed"}]
  /\ cursor \in 0 .. Len(inbox)
  /\ work \in [Events -> [status : {"none", "pending", "accepted", "stale"},
                         sv : Versions, persona : 0 .. MaxPersona,
                         frames : SUBSET Frame, window : SUBSET Window,
                         evaluated : SUBSET Frame]]
  /\ evaluations \subseteq Frame
  /\ saved \in [last : Nat, world : Seq(Events)]
  /\ up \in BOOLEAN
  /\ world \in Seq(Events)
  /\ window \subseteq Window
  /\ cached \subseteq Events
  /\ recovered \subseteq Events
  /\ lock \subseteq Drains
  /\ drain \in [Drains -> [pc : {"idle", "claiming", "flushing", "judging"},
                           batch : SUBSET Nat, todo : SUBSET Task,
                           kept : SUBSET Frame]]
  /\ persona \in 0 .. MaxPersona
  /\ acted \in Seq(Frame)
  /\ handed \subseteq Frame
  /\ failures \in 0 .. MaxFailures
  /\ restarts \in 0 .. MaxRestarts

(***************************************************************************)
(* The live world, and the world a restart would recover from the snapshot *)
(* and the inbox, both are the committed events in inbox order, each once, *)
(* whatever failed, was claimed twice, or crashed on the way.              *)
(***************************************************************************)
WorldIsReplay ==
  /\ Replayed = SubSeq(inbox, 1, cursor)
  /\ up => world = Replayed

(***************************************************************************)
(* No event is overtaken: what is committed is exactly what the cursor has *)
(* passed, so a failed or abandoned event can always be claimed again.     *)
(***************************************************************************)
CommittedPrefix ==
  \A i \in Numbers : status[inbox[i]] = "committed" <=> i <= cursor

(***************************************************************************)
(* No opportunity is acted on twice: across failures, crashes and reissued *)
(* requests the evaluation of a frame is accepted at most once.            *)
(***************************************************************************)
ActedOnce ==
  \A i, j \in 1 .. Len(acted) : acted[i] = acted[j] => i = j

(***************************************************************************)
(* The cached request is the newest one and still pending in the store, so *)
(* a window that falls due never lands in a request that is already closed.*)
(***************************************************************************)
CachedIsOpen ==
  \A r \in cached : Pending(r) /\ work[r].sv = Len(world)

(***************************************************************************)
(* Requests do not pile up: nothing stays pending once the scene moved on  *)
(* by more than the drift a judgement would still be accepted at.          *)
(***************************************************************************)
PendingWithinDrift ==
  \A r \in Events : Pending(r) => cursor - work[r].sv <= MaxDrift

(***************************************************************************)
(* A request that was accepted or found stale is never touched again.      *)
(***************************************************************************)
ResolvedIsFinal ==
  [][\A r \in Events :
       work[r].status \in {"accepted", "stale"} => work'[r] = work[r]]_vars

(***************************************************************************)
(* "An explicit mention, reply or direct call produces a DIRECT_FAST       *)
(* candidate at once": while nothing fails, a FAST frame that is still     *)
(* open is in the hands of a drain that will judge it.                     *)
(***************************************************************************)
FastIsJudged ==
  failures = 0 /\ restarts = 0 =>
    \A e \in Events : \A f \in work[e].frames \ work[e].evaluated :
      Pending(e) /\ f.lane = "FAST" =>
        \E d \in Drains : <<e, f>> \in drain[d].todo

(***************************************************************************)
(* "After ACT the plan goes to the ReplyExecutor": while nothing fails, an *)
(* evaluation that was accepted is with the drain that will return it, or  *)
(* was handed to the reply lanes.                                          *)
(***************************************************************************)
AcceptedIsHanded ==
  failures = 0 /\ restarts = 0 =>
    \A i \in 1 .. Len(acted) :
      acted[i] \in handed \/ \E d \in Drains : acted[i] \in drain[d].kept
=============================================================================
