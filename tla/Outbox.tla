------------------------------- MODULE Outbox -------------------------------
(***************************************************************************)
(* The transactional Outbox and the dispatchers that drain it.             *)
(*                                                                         *)
(* OutboxService keeps delivery bundles and their parts in SQLite; every   *)
(* operation is one BEGIN IMMEDIATE transaction, hence one action here.    *)
(* Two kinds of coroutine run the dispatch loop of the AstrBot bridge: the *)
(* reply lanes and the attention wake-up loop.  They claim the next part   *)
(* (READY becomes SENDING), await the platform, record the receipt and     *)
(* finally mark the reply plan the bundle came from.  Everything between   *)
(* two awaits is atomic; between the awaits the other dispatchers, the     *)
(* platform, the clock, a governance pause, a reload of the plugin and a   *)
(* crash of the process may all step in.                                   *)
(***************************************************************************)
EXTENDS Naturals, FiniteSets

CONSTANTS
  Bundles,       (* delivery bundles, one per reply plan                    *)
  Parts,         (* delivery parts over all bundles                         *)
  Dispatchers,   (* coroutines that run the dispatch loop                   *)
  BundleOf,      (* the bundle of a part                                    *)
  Order,         (* DeliveryPart.order: position of a part in its bundle    *)
  KeyOf,         (* DeliveryPart.idempotency_key                            *)
  ExpiresAt,     (* DeliveryPart.expires_at                                 *)
  Decorative,    (* parts with decorative = True                            *)
  Progress,      (* parts with role "progress"                              *)
  Replaces,      (* Replaces[b]: progress parts whose task b gives a result *)
  ActionBundles, (* bundles backed by an action plan, the others by a reply *)
  MaxTime,       (* bound on the clock                                      *)
  MaxRestarts,   (* bound on closes and crashes of the process              *)
  NoPart, None   (* model values: no part, no receipt                       *)

ASSUME OutboxAssumption ==
  /\ IsFiniteSet(Bundles)
  /\ BundleOf \in [Parts -> Bundles]
  /\ Order \in [Parts -> Nat]
  /\ \A p, q \in Parts :
       BundleOf[p] = BundleOf[q] /\ Order[p] = Order[q] => p = q
  /\ ExpiresAt \in [Parts -> Nat]
  /\ Decorative \subseteq Parts
  /\ Progress \subseteq Parts
  /\ Replaces \in [Bundles -> SUBSET Progress]
  /\ ActionBundles \subseteq Bundles
  /\ MaxTime \in Nat
  /\ MaxRestarts \in Nat
  /\ NoPart \notin Parts

VARIABLES
  outbox,     (* outbox.status of every part, "absent" before its bundle    *)
  rowid,      (* delivery_bundles.rowid, 0 when the bundle is not stored    *)
  receipt,    (* status of outbox.receipt_json, None for NULL               *)
  journal,    (* journal rows of type delivery.receipt                      *)
  plan,       (* reply_plans.status of the plan behind each bundle          *)
  groupOn,    (* the group is in SOCIAL_RUNTIME mode and not paused         *)
  disp,       (* what every dispatcher is doing                             *)
  wire,       (* parts the platform was asked to post and may still post    *)
  posted,     (* how often the platform posted each part to the group       *)
  up,         (* the process has started its runtime                        *)
  restarts,   (* closes and crashes so far                                  *)
  now         (* the clock                                                  *)

durable == <<outbox, rowid, receipt, journal, plan>>
vars == <<durable, groupOn, disp, wire, posted, up, restarts, now>>

PartStatus == {"absent", "ready", "sending", "sent", "failed", "unknown",
               "expired", "suppressed"}
ReceiptStatus == {"success", "retryable", "permanent", "unknown"}
PlanStatus == {"planned", "silent", "generated", "enqueued", "sent", "ready",
               "failed", "unknown"}

Idle == [phase |-> "idle", part |-> NoPart, status |-> "absent"]
Sending(p) == [phase |-> "sending", part |-> p, status |-> "sending"]
Answered(p, s) == [phase |-> "answered", part |-> p, status |-> s]
DispatcherState ==
  {Idle} \cup {Sending(p) : p \in Parts} \cup
  {Answered(p, s) : p \in Parts, s \in {"sent", "ready", "failed", "unknown"}}

PartsOf(b) == {p \in Parts : BundleOf[p] = b}
Stored(b) == rowid[b] # 0
-----------------------------------------------------------------------------
(***************************************************************************)
(* What the operations of OutboxService are built from.                    *)
(***************************************************************************)

(* The composed authorizer: group release gate, and a reply plan whose     *)
(* status still allows sending or a running action plan.                   *)
Authorized(b) ==
  /\ groupOn
  /\ plan[b] \in {"planned", "generated", "enqueued", "sent"}

(* reply_plans.mark; a bundle of an action plan has no such row. *)
Marked(b, s) == IF b \in ActionBundles THEN plan ELSE [plan EXCEPT ![b] = s]

(* No stored part has the idempotency key of a part of b (UNIQUE column). *)
KeysFree_dropped(b) == TRUE
KeysFree(b) ==
  \A p \in PartsOf(b), q \in Parts : KeyOf[p] = KeyOf[q] /\ p # q =>
    outbox[q] = "absent" /\ BundleOf[q] # b

(* The statuses a waiting part is left in once its time is over. *)
Lapsed(p) == IF p \in Decorative THEN "suppressed" ELSE "expired"

ExpireReady_never(box) == box
ExpireReady(box) ==
  [p \in Parts |-> IF box[p] = "ready" /\ ExpiresAt[p] <= now
                   THEN Lapsed(p) ELSE box[p]]

(* Earlier parts that no longer stand in the way of a later one. *)
LetsPass_unknown == {"sent", "suppressed", "expired", "unknown"}
LetsPass == {"sent", "suppressed", "expired"}

Earlier(p) == {q \in PartsOf(BundleOf[p]) : Order[q] < Order[p]}

Claimable(box) ==
  {p \in Parts : /\ box[p] = "ready"
                 /\ Authorized(BundleOf[p])
                 /\ \A q \in Earlier(p) : box[q] \in LetsPass}

(* ORDER BY delivery_bundles.rowid, outbox.rowid *)
Before(p, q) ==
  \/ rowid[BundleOf[p]] < rowid[BundleOf[q]]
  \/ BundleOf[p] = BundleOf[q] /\ Order[p] < Order[q]

(* The row claim_ready takes with limit = 1, if any. *)
IsNext(p, box) ==
  /\ p \in Claimable(box)
  /\ \A q \in Claimable(box) \ {p} : Before(p, q)

Target_raw(r) == r
Target_unknownFails(r) ==
  CASE r = "success" -> "sent" [] r = "retryable" -> "ready"
    [] r = "permanent" -> "failed" [] r = "unknown" -> "failed"
Target(r) ==
  CASE r = "success" -> "sent" [] r = "retryable" -> "ready"
    [] r = "permanent" -> "failed" [] r = "unknown" -> "unknown"

Unfinished_sendingForgotten(b) == \E p \in PartsOf(b) : outbox[p] = "ready"
Unfinished(b) == \E p \in PartsOf(b) : outbox[p] \in {"ready", "sending"}
-----------------------------------------------------------------------------
(***************************************************************************)
(* The reply executor: reject a draft, or store its bundle.                *)
(***************************************************************************)

(* The draft is rejected or the model fails. *)
Silence(b) ==
  /\ up
  /\ b \notin ActionBundles
  /\ plan[b] = "planned"
  /\ plan' = Marked(b, "silent")
  /\ UNCHANGED <<outbox, rowid, receipt, journal, groupOn, disp, wire, posted,
                 up, restarts, now>>

(* commit_bundle on a bundle that is authorised and not yet stored; with a *)
(* key that is taken the whole transaction rolls back.                     *)
CommitBundle(b) ==
  /\ ~Stored(b)
  /\ Authorized(b)
  /\ KeysFree(b)
  /\ rowid' = [rowid EXCEPT ![b] = Cardinality({c \in Bundles : Stored(c)}) + 1]
  /\ outbox' = [p \in Parts |->
                  CASE BundleOf[p] = b -> "ready"
                    [] BundleOf[p] # b /\ p \in Replaces[b]
                         /\ outbox[p] = "ready" -> "suppressed"
                    [] OTHER -> outbox[p]]
  /\ UNCHANGED <<receipt, journal>>

(* mark "generated", commit_bundle, mark "enqueued": no await in between. *)
Enqueue(b) ==
  /\ up
  /\ plan[b] = "planned"
  /\ CommitBundle(b)
  /\ plan' = Marked(b, "enqueued")
  /\ UNCHANGED <<groupOn, disp, wire, posted, up, restarts, now>>

(* The process dies between commit_bundle and the mark that follows it. *)
CrashInEnqueue(b) ==
  /\ up
  /\ restarts < MaxRestarts
  /\ plan[b] = "planned"
  /\ CommitBundle(b)
  /\ plan' = Marked(b, "generated")
  /\ up' = FALSE
  /\ restarts' = restarts + 1
  /\ disp' = [d \in Dispatchers |-> Idle]
  /\ UNCHANGED <<groupOn, wire, posted, now>>
-----------------------------------------------------------------------------
(***************************************************************************)
(* A dispatcher: claim_ready, the check of dispatch, the await of send.    *)
(***************************************************************************)

(* claim_ready finds nothing to send but still expires what is overdue. *)
ClaimNothing ==
  /\ up
  /\ \E d \in Dispatchers : disp[d] = Idle
  /\ Claimable(ExpireReady(outbox)) = {}
  /\ outbox' = ExpireReady(outbox)
  /\ UNCHANGED <<rowid, receipt, journal, plan, groupOn, disp, wire, posted,
                 up, restarts, now>>

(* The durable row equals the claimed part, so the platform is asked. *)
ClaimAndSend(d) ==
  /\ up
  /\ disp[d] = Idle
  /\ \E p \in Parts :
       /\ IsNext(p, ExpireReady(outbox))
       /\ receipt[p] = None
       /\ outbox' = [ExpireReady(outbox) EXCEPT ![p] = "sending"]
       /\ disp' = [disp EXCEPT ![d] = Sending(p)]
       /\ wire' = wire \cup {p}
  /\ UNCHANGED <<rowid, receipt, journal, plan, groupOn, posted, up, restarts,
                 now>>

(* The row still carries the receipt of an earlier attempt, the claimed    *)
(* part carries none: dispatch raises OutboxStateConflict after the claim. *)
ClaimAndRefuse(d) ==
  /\ up
  /\ disp[d] = Idle
  /\ \E p \in Parts :
       /\ IsNext(p, ExpireReady(outbox))
       /\ receipt[p] # None
       /\ outbox' = [ExpireReady(outbox) EXCEPT ![p] = "sending"]
  /\ UNCHANGED <<rowid, receipt, journal, plan, groupOn, disp, wire, posted,
                 up, restarts, now>>

(* What OneBotDeliveryAdapter.send may report of part p: a message id only *)
(* after the post, a confirmed failure only instead of it, unknown always. *)
Reports(p) ==
  {"unknown"} \cup
  (IF p \in wire THEN {"retryable", "permanent"} ELSE {"success"})

(* record_receipt of a SENDING part. *)
RecordReceipt(d, r) ==
  LET p == disp[d].part IN
  /\ disp[d].phase = "sending"
  /\ r \in Reports(p)
  /\ outbox[p] = "sending"
  /\ outbox' = [outbox EXCEPT ![p] = Target(r)]
  /\ receipt' = [receipt EXCEPT ![p] = r]
  /\ journal' = journal \cup {<<p, r, now>>}
  /\ disp' = [disp EXCEPT ![d] = Answered(p, Target(r))]
  /\ wire' = IF r \in {"retryable", "permanent"} THEN wire \ {p} ELSE wire
  /\ UNCHANGED <<rowid, plan, groupOn, posted, up, restarts, now>>

(* The answer comes after recovery already settled the part: the receipt   *)
(* is refused with OutboxStateConflict and lost.                           *)
RefuseReceipt(d) ==
  LET p == disp[d].part IN
  /\ disp[d].phase = "sending"
  /\ outbox[p] # "sending"
  /\ \E r \in Reports(p) :
       wire' = IF r \in {"retryable", "permanent"} THEN wire \ {p} ELSE wire
  /\ disp' = [disp EXCEPT ![d] = Idle]
  /\ UNCHANGED <<durable, groupOn, posted, up, restarts, now>>

(* The feedback event is published and the reply plan is marked. *)
MarkPlan(d) ==
  LET b == BundleOf[disp[d].part]
      s == disp[d].status
  IN
  /\ up
  /\ disp[d].phase = "answered"
  /\ plan' = Marked(b, IF s = "sent" /\ Unfinished(b) THEN "enqueued" ELSE s)
  /\ disp' = [disp EXCEPT ![d] = Idle]
  /\ UNCHANGED <<outbox, rowid, receipt, journal, groupOn, wire, posted, up,
                 restarts, now>>

(* A dispatcher that outlived the manager cannot publish: no mark. *)
AbandonPlan(d) ==
  /\ ~up
  /\ disp[d].phase = "answered"
  /\ disp' = [disp EXCEPT ![d] = Idle]
  /\ UNCHANGED <<durable, groupOn, wire, posted, up, restarts, now>>
-----------------------------------------------------------------------------
(***************************************************************************)
(* The surroundings: platform, clock, governance, process.                 *)
(***************************************************************************)

Post(p) ==
  /\ p \in wire
  /\ wire' = wire \ {p}
  /\ posted' = [posted EXCEPT ![p] = @ + 1]
  /\ UNCHANGED <<durable, groupOn, disp, up, restarts, now>>

(* A request that no dispatcher awaits any more never reaches the group. *)
Lose(p) ==
  /\ p \in wire
  /\ \A d \in Dispatchers : disp[d] # Sending(p)
  /\ wire' = wire \ {p}
  /\ UNCHANGED <<durable, groupOn, disp, posted, up, restarts, now>>

Tick ==
  /\ now < MaxTime
  /\ now' = now + 1
  /\ UNCHANGED <<durable, groupOn, disp, wire, posted, up, restarts>>

Govern ==
  /\ groupOn' = ~groupOn
  /\ UNCHANGED <<durable, disp, wire, posted, up, restarts, now>>

(* Plugin close cancels the attention loop in the middle of its await; the *)
(* coroutines of message handlers run on.  A crash stops them all.         *)
Stop(gone) ==
  /\ up
  /\ restarts < MaxRestarts
  /\ up' = FALSE
  /\ restarts' = restarts + 1
  /\ disp' = [d \in Dispatchers |-> IF d \in gone THEN Idle ELSE disp[d]]
  /\ UNCHANGED <<durable, groupOn, wire, posted, now>>

(* SocialRuntimeManager.start: it re-emits feedback of receipts; the       *)
(* Outbox is left as it is.                                                *)
Start ==
  /\ ~up
  /\ up' = TRUE
  /\ UNCHANGED <<durable, groupOn, disp, wire, posted, restarts, now>>

(* recover_inflight, run by an operator while the runtime is stopped. *)
RecoverInflight_retries ==
  /\ ~up
  /\ \E p \in Parts : outbox[p] = "sending"
  /\ outbox' = ExpireReady([p \in Parts |->
                  IF outbox[p] = "sending" THEN "ready" ELSE outbox[p]])
  /\ UNCHANGED <<rowid, receipt, journal, plan, groupOn, disp, wire, posted,
                 up, restarts, now>>
RecoverInflight ==
  /\ ~up
  /\ \E p \in Parts : outbox[p] = "sending"
  /\ outbox' = ExpireReady([p \in Parts |->
                  IF outbox[p] = "sending" THEN "unknown" ELSE outbox[p]])
  /\ receipt' = [p \in Parts |->
                  IF outbox[p] = "sending" THEN "unknown" ELSE receipt[p]]
  /\ UNCHANGED <<rowid, journal, plan, groupOn, disp, wire, posted, up,
                 restarts, now>>
-----------------------------------------------------------------------------
Init ==
  /\ outbox = [p \in Parts |-> "absent"]
  /\ rowid = [b \in Bundles |-> 0]
  /\ receipt = [p \in Parts |-> None]
  /\ journal = {}
  /\ plan = [b \in Bundles |-> "planned"]
  /\ groupOn = TRUE
  /\ disp = [d \in Dispatchers |-> Idle]
  /\ wire = {}
  /\ posted = [p \in Parts |-> 0]
  /\ up = TRUE
  /\ restarts = 0
  /\ now = 0

Dispatch(d) ==
  \/ ClaimAndSend(d)
  \/ ClaimAndRefuse(d)
  \/ MarkPlan(d)
  \/ AbandonPlan(d)

Answer(d) == RefuseReceipt(d) \/ \E r \in ReceiptStatus : RecordReceipt(d, r)

Next ==
  \/ \E b \in Bundles : Silence(b) \/ Enqueue(b) \/ CrashInEnqueue(b)
  \/ ClaimNothing
  \/ \E d \in Dispatchers : Dispatch(d) \/ Answer(d)
  \/ \E p \in Parts : Post(p) \/ Lose(p)
  \/ Tick
  \/ Govern
  \/ \E gone \in SUBSET Dispatchers : Stop(gone)
  \/ Start
  \/ RecoverInflight

Spec == Init /\ [][Next]_vars

(* The wake-up loop polls once a second and survives every exception of    *)
(* the loop body, the platform call returns, time passes, the host starts  *)
(* the plugin again.                                                       *)
Fairness ==
  /\ WF_vars(ClaimNothing)
  /\ \A d \in Dispatchers : WF_vars(Dispatch(d)) /\ WF_vars(Answer(d))
  /\ WF_vars(Tick)
  /\ WF_vars(Start)

FairSpec == Spec /\ Fairness
-----------------------------------------------------------------------------
TypeOK ==
  /\ outbox \in [Parts -> PartStatus]
  /\ rowid \in [Bundles -> Nat]
  /\ receipt \in [Parts -> ReceiptStatus \cup {None}]
  /\ journal \subseteq (Parts \X ReceiptStatus \X (0 .. MaxTime))
  /\ plan \in [Bundles -> PlanStatus]
  /\ groupOn \in BOOLEAN
  /\ disp \in [Dispatchers -> DispatcherState]
  /\ wire \subseteq Parts
  /\ posted \in [Parts -> Nat]
  /\ up \in BOOLEAN
  /\ restarts \in 0 .. MaxRestarts
  /\ now \in 0 .. MaxTime

(***************************************************************************)
(* No idempotency key reaches the group twice: whatever crashes, late      *)
(* answers, reloads and recoveries happen around the platform call, each   *)
(* part is posted at most once, and so is each key.                        *)
(***************************************************************************)
AtMostOncePerKey ==
  \A p, q \in Parts :
    KeyOf[p] = KeyOf[q] /\ posted[p] > 0 /\ posted[q] > 0
      => p = q /\ posted[p] = 1

(***************************************************************************)
(* A bundle is never continued over a hole: when a part has been shown or  *)
(* may still be shown, every earlier part was delivered, or given up       *)
(* before it was ever sent.  A FAILED or UNKNOWN part stops the bundle.    *)
(***************************************************************************)
NoPartAfterHole ==
  \A p \in Parts : p \in wire \/ posted[p] > 0 =>
    \A q \in Earlier(p) : outbox[q] \in {"sent", "suppressed", "expired"}

(***************************************************************************)
(* The ledger does not lie: SENT means the group saw the part, and a part  *)
(* the group saw is SENT, UNKNOWN or still SENDING, never one that may be  *)
(* sent again or that is reported as not delivered.                        *)
(***************************************************************************)
LedgerAgreesWithGroup ==
  \A p \in Parts :
    /\ outbox[p] = "sent" => posted[p] = 1
    /\ posted[p] > 0 => outbox[p] \in {"sending", "sent", "unknown"}

(***************************************************************************)
(* A reply plan is marked "sent" only when nothing of its bundle can still *)
(* go out, although two dispatchers may mark the same plan out of order.   *)
(***************************************************************************)
SentPlanIsOver ==
  \A b \in Bundles : plan[b] = "sent" =>
    /\ ~\E p \in PartsOf(b) : outbox[p] \in {"absent", "ready", "sending"}
    /\ \E p \in PartsOf(b) : outbox[p] = "sent"

(***************************************************************************)
(* The queue drains: no part waits in READY for ever, whether it is sent,  *)
(* blocked behind a hole, unauthorised or paused.                          *)
(***************************************************************************)
QueueDrains == \A p \in Parts : <>[](outbox[p] # "ready")

(***************************************************************************)
(* "Only errors that are safe to retry are retried automatically": as long *)
(* as the process was never stopped, a claimed part, be it for the first   *)
(* time or again after a confirmed non-send, is in a dispatcher's hands.   *)
(***************************************************************************)
ClaimedPartIsBeingSent ==
  restarts = 0 =>
    \A p \in Parts : outbox[p] = "sending" =>
      \E d \in Dispatchers : disp[d] = Sending(p)

(***************************************************************************)
(* "After a partial success a restart recovers the unconfirmed parts":     *)
(* once the runtime has started again, no first attempt is left SENDING    *)
(* with nobody waiting for its receipt.                                    *)
(***************************************************************************)
NoLeftoverSending ==
  up => \A p \in Parts : outbox[p] = "sending" /\ receipt[p] = None =>
          \E d \in Dispatchers : disp[d] = Sending(p)

(***************************************************************************)
(* The Outbox with its dispatchers implements DeliveryPromise: each        *)
(* transaction, post, crash and recovery is a legal move of every part.    *)
(***************************************************************************)
StageOf(s) ==
  CASE s = "absent" -> "new" [] s = "ready" -> "waiting"
    [] s = "sending" -> "offered" [] s = "sent" -> "delivered"
    [] s = "failed" -> "failed" [] s = "unknown" -> "doubtful"
    [] s \in {"expired", "suppressed"} -> "dropped"

Promise == INSTANCE DeliveryPromise WITH
  stage <- [p \in Parts |-> StageOf(outbox[p])],
  shown <- {p \in Parts : posted[p] > 0}

KeepsPromise == Promise!Spec
=============================================================================
