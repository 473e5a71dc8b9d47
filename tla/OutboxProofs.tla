---------------------------- MODULE OutboxProofs ----------------------------
(***************************************************************************)
(* Theorems about the Outbox for every set of bundles, parts and           *)
(* dispatchers, every order, expiry and key assignment, and any bound on   *)
(* time and restarts.                                                      *)
(***************************************************************************)
EXTENDS Outbox, FiniteSetTheorems, TLAPS

(* A bundle's row id is never 0, so a committed bundle counts as stored. *)
LEMMA NewRowid == ASSUME rowid \in [Bundles -> Nat]
                  PROVE  Cardinality({c \in Bundles : Stored(c)}) \in Nat
<1>1. IsFiniteSet({c \in Bundles : Stored(c)})
  BY OutboxAssumption, FS_Subset
<1> QED
  BY <1>1, FS_CardinalityType

LEMMA ExpireReadyType ==
  ASSUME NEW box \in [Parts -> PartStatus]
  PROVE  /\ ExpireReady(box) \in [Parts -> PartStatus]
         /\ \A p \in Parts : \/ ExpireReady(box)[p] = box[p]
                             \/ /\ box[p] = "ready"
                                /\ ExpireReady(box)[p] \in {"expired", "suppressed"}
  BY DEF ExpireReady, Lapsed, PartStatus

LEMMA TargetType ==
  ASSUME NEW r \in ReceiptStatus
  PROVE  /\ Target(r) \in {"sent", "ready", "failed", "unknown"}
         /\ Target(r) \in PartStatus \cap PlanStatus
         /\ Target(r) = "sent" <=> r = "success"
         /\ Target(r) \in {"ready", "failed"} <=> r \in {"retryable", "permanent"}
  BY DEF Target, ReceiptStatus, PartStatus, PlanStatus
-----------------------------------------------------------------------------
(***************************************************************************)
(* Type correctness.                                                       *)
(***************************************************************************)

(* What the phase of a dispatcher tells about the rest of its state. *)
LEMMA DispatcherPhases ==
  ASSUME NEW x \in DispatcherState
  PROVE  /\ x.phase = "sending" => x.part \in Parts /\ x = Sending(x.part)
         /\ x.phase = "answered" =>
              /\ x.part \in Parts
              /\ x.status \in {"sent", "ready", "failed", "unknown"}
  BY DEF DispatcherState, Idle, Sending, Answered

LEMMA TypeInit == Init => TypeOK
  BY OutboxAssumption
     DEF Init, TypeOK, DispatcherState, PartStatus, PlanStatus

LEMMA TypeStep == TypeOK /\ [Next]_vars => TypeOK'
<1> SUFFICES ASSUME TypeOK, [Next]_vars PROVE TypeOK'
  OBVIOUS
<1> USE OutboxAssumption
<1>1. ASSUME NEW b \in Bundles, Silence(b) PROVE TypeOK'
  BY <1>1 DEF Silence, Marked, TypeOK, PlanStatus
<1>2. ASSUME NEW b \in Bundles, CommitBundle(b)
      PROVE /\ outbox' \in [Parts -> PartStatus]
            /\ rowid' \in [Bundles -> Nat]
            /\ receipt' = receipt
            /\ journal' = journal
  <2>1. rowid' \in [Bundles -> Nat]
    BY <1>2, NewRowid DEF CommitBundle, TypeOK
  <2>2. outbox' \in [Parts -> PartStatus]
    BY <1>2 DEF CommitBundle, TypeOK, PartStatus
  <2> QED
    BY <1>2, <2>1, <2>2 DEF CommitBundle
<1>3. ASSUME NEW b \in Bundles, Enqueue(b) PROVE TypeOK'
  BY <1>2, <1>3 DEF Enqueue, Marked, TypeOK, PlanStatus
<1>4. ASSUME NEW b \in Bundles, CrashInEnqueue(b) PROVE TypeOK'
  <2>1. restarts' \in 0 .. MaxRestarts
    BY <1>4 DEF CrashInEnqueue, TypeOK
  <2>2. plan' \in [Bundles -> PlanStatus]
    BY <1>4 DEF CrashInEnqueue, Marked, TypeOK, PlanStatus
  <2>3. disp' \in [Dispatchers -> DispatcherState]
    BY <1>4 DEF CrashInEnqueue, DispatcherState
  <2>4. CommitBundle(b) /\ UNCHANGED <<groupOn, wire, posted, now>> /\ up' = FALSE
    BY <1>4 DEF CrashInEnqueue
  <2> QED
    BY <1>2, <2>1, <2>2, <2>3, <2>4 DEF TypeOK
<1>5. CASE ClaimNothing
  BY <1>5, ExpireReadyType DEF ClaimNothing, TypeOK
<1>6. ASSUME NEW d \in Dispatchers, ClaimAndSend(d) PROVE TypeOK'
  <2>1. ExpireReady(outbox) \in [Parts -> PartStatus]
    BY ExpireReadyType DEF TypeOK
  <2> QED
    BY <1>6, <2>1 DEF ClaimAndSend, TypeOK, PartStatus, DispatcherState
<1>7. ASSUME NEW d \in Dispatchers, ClaimAndRefuse(d) PROVE TypeOK'
  <2>1. ExpireReady(outbox) \in [Parts -> PartStatus]
    BY ExpireReadyType DEF TypeOK
  <2> QED
    BY <1>7, <2>1 DEF ClaimAndRefuse, TypeOK, PartStatus
<1>8. ASSUME NEW d \in Dispatchers, MarkPlan(d) PROVE TypeOK'
  <2>1. /\ BundleOf[disp[d].part] \in Bundles
        /\ disp[d].status \in PlanStatus
    BY <1>8, DispatcherPhases DEF MarkPlan, TypeOK, PlanStatus
  <2>2. plan' \in [Bundles -> PlanStatus]
    BY <1>8, <2>1 DEF MarkPlan, Marked, TypeOK, PlanStatus
  <2> QED
    BY <1>8, <2>2 DEF MarkPlan, TypeOK, DispatcherState
<1>9. ASSUME NEW d \in Dispatchers, AbandonPlan(d) PROVE TypeOK'
  BY <1>9 DEF AbandonPlan, TypeOK, DispatcherState, durable
<1>10. ASSUME NEW d \in Dispatchers, RefuseReceipt(d) PROVE TypeOK'
  BY <1>10 DEF RefuseReceipt, TypeOK, DispatcherState, durable
<1>11. ASSUME NEW d \in Dispatchers, NEW r \in ReceiptStatus, RecordReceipt(d, r)
       PROVE TypeOK'
  <2>1. disp[d].part \in Parts
    BY <1>11, DispatcherPhases DEF RecordReceipt, TypeOK
  <2>2. disp' \in [Dispatchers -> DispatcherState]
    BY <1>11, <2>1, TargetType DEF RecordReceipt, TypeOK, DispatcherState
  <2>3. journal' \subseteq (Parts \X ReceiptStatus \X (0 .. MaxTime))
    BY <1>11, <2>1 DEF RecordReceipt, TypeOK
  <2>4. wire' \subseteq Parts
    BY <1>11 DEF RecordReceipt, TypeOK
  <2> QED
    BY <1>11, <2>1, <2>2, <2>3, <2>4, TargetType DEF RecordReceipt, TypeOK
<1>12. ASSUME NEW p \in Parts, Post(p) \/ Lose(p) PROVE TypeOK'
  BY <1>12 DEF Post, Lose, TypeOK, durable
<1>13. CASE Tick
  BY <1>13 DEF Tick, TypeOK, durable
<1>14. CASE Govern
  BY <1>14 DEF Govern, TypeOK, durable
<1>15. ASSUME NEW gone \in SUBSET Dispatchers, Stop(gone) PROVE TypeOK'
  <2>1. restarts' \in 0 .. MaxRestarts
    BY <1>15 DEF Stop, TypeOK
  <2>2. disp' \in [Dispatchers -> DispatcherState]
    BY <1>15 DEF Stop, TypeOK, DispatcherState
  <2>3. UNCHANGED <<durable, groupOn, wire, posted, now>> /\ up' = FALSE
    BY <1>15 DEF Stop
  <2> QED
    BY <2>1, <2>2, <2>3 DEF TypeOK, durable
<1>16. CASE Start
  BY <1>16 DEF Start, TypeOK, durable
<1>17. CASE RecoverInflight
  <2> DEFINE box == [p \in Parts |-> IF outbox[p] = "sending" THEN "unknown" ELSE outbox[p]]
  <2>1. box \in [Parts -> PartStatus]
    BY DEF TypeOK, PartStatus
  <2>2. ExpireReady(box) \in [Parts -> PartStatus]
    BY <2>1, ExpireReadyType
  <2> QED
    BY <1>17, <2>2 DEF RecoverInflight, TypeOK, ReceiptStatus
<1>18. CASE UNCHANGED vars
  BY <1>18 DEF vars, durable, TypeOK
<1> QED
  BY <1>1, <1>3, <1>4, <1>5, <1>6, <1>7, <1>8, <1>9, <1>10, <1>11, <1>12,
     <1>13, <1>14, <1>15, <1>16, <1>17, <1>18 DEF Next, Dispatch, Answer

(* Every variable keeps its type in every reachable state. *)
THEOREM TypeCorrect == Spec => []TypeOK
  BY TypeInit, TypeStep, PTL DEF Spec
-----------------------------------------------------------------------------
(***************************************************************************)
(* The inductive invariant.  The safety properties speak of what the group *)
(* saw; they are kept because a part that may still be posted is in one of *)
(* the two statuses no other transaction touches, one dispatcher at most   *)
(* awaits it, and a part is stored once per key.                           *)
(***************************************************************************)
InFlight ==
  /\ \A p \in wire : outbox[p] \in {"sending", "unknown"} /\ posted[p] = 0
  /\ \A p \in Parts : /\ posted[p] \in {0, 1}
                      /\ posted[p] = 1 => outbox[p] \in {"sending", "sent", "unknown"}
                      /\ outbox[p] = "sent" => posted[p] = 1

Awaits(d, p) == disp[d].phase = "sending" /\ disp[d].part = p

Awaited ==
  /\ \A d \in Dispatchers, p \in Parts : Awaits(d, p) =>
       /\ outbox[p] \in {"sending", "unknown"}
       /\ p \in wire \/ posted[p] = 1
  /\ \A d, e \in Dispatchers, p \in Parts : Awaits(d, p) /\ Awaits(e, p) => d = e

Fresh == \A p \in Parts : rowid[BundleOf[p]] = 0 => outbox[p] = "absent"

KeysDiffer ==
  \A p, q \in Parts : p # q /\ KeyOf[p] = KeyOf[q] =>
    outbox[p] = "absent" \/ outbox[q] = "absent"

IInv == TypeOK /\ InFlight /\ Awaited /\ Fresh /\ KeysDiffer /\ NoPartAfterHole

(* The inductive invariant contains the three properties.                  *)
LEMMA IInvSuffices ==
  IInv => AtMostOncePerKey /\ NoPartAfterHole /\ LedgerAgreesWithGroup
<1> SUFFICES ASSUME IInv PROVE AtMostOncePerKey /\ LedgerAgreesWithGroup
  BY DEF IInv
<1>1. AtMostOncePerKey
  BY DEF IInv, TypeOK, InFlight, KeysDiffer, AtMostOncePerKey
<1>2. LedgerAgreesWithGroup
  BY DEF IInv, TypeOK, InFlight, LedgerAgreesWithGroup
<1> QED
  BY <1>1, <1>2

LEMMA InvInit == Init => IInv
<1> SUFFICES ASSUME Init PROVE IInv
  OBVIOUS
<1> QED
  BY TypeInit, OutboxAssumption
     DEF Init, IInv, InFlight, Awaited, Awaits, Fresh, KeysDiffer,
         NoPartAfterHole, Earlier, PartsOf, Idle

(* A step that asks the platform nothing and posts nothing: parts that     *)
(* wait may lapse or be claimed in vain, an interrupted send becomes       *)
(* UNKNOWN, a dispatcher may only stop awaiting.                           *)
QuietPart(p) ==
  \/ outbox'[p] = outbox[p]
  \/ outbox[p] = "ready" /\ outbox'[p] \in {"expired", "suppressed", "sending"}
  \/ outbox[p] = "sending" /\ outbox'[p] = "unknown"

Quiet ==
  /\ UNCHANGED <<rowid, wire, posted>>
  /\ \A p \in Parts : QuietPart(p)
  /\ \A d \in Dispatchers : disp'[d] = disp[d] \/ disp'[d].phase # "sending"

LEMMA QuietStep == ASSUME IInv, TypeOK', Quiet PROVE IInv'
<1> USE DEF Quiet
<1>1. InFlight'
  BY DEF IInv, TypeOK, InFlight, QuietPart
<1>2. Awaited'
  BY DEF IInv, TypeOK, Awaited, Awaits, QuietPart
<1>3. Fresh'
  BY DEF IInv, TypeOK, Fresh, QuietPart
<1>4. KeysDiffer'
  BY DEF IInv, TypeOK, KeysDiffer, QuietPart
<1>5. NoPartAfterHole'
  BY DEF IInv, TypeOK, NoPartAfterHole, Earlier, PartsOf, QuietPart
<1> QED
  BY <1>1, <1>2, <1>3, <1>4, <1>5 DEF IInv

(* What committing a bundle does to the parts. *)
LEMMA CommitStep ==
  ASSUME IInv, TypeOK', NEW b \in Bundles, CommitBundle(b),
         UNCHANGED <<wire, posted>>,
         \A d \in Dispatchers : disp'[d] = disp[d] \/ disp'[d].phase # "sending"
  PROVE  IInv'
<1> USE OutboxAssumption
<1>1. \A p \in Parts :
        \/ BundleOf[p] = b /\ outbox[p] = "absent" /\ outbox'[p] = "ready"
        \/ /\ BundleOf[p] # b
           /\ \/ outbox'[p] = outbox[p]
              \/ outbox[p] = "ready" /\ outbox'[p] = "suppressed"
  BY DEF CommitBundle, IInv, Fresh, Stored
<1>2. \A c \in Bundles : rowid'[c] = 0 => rowid[c] = 0 /\ c # b
  BY NewRowid DEF CommitBundle, IInv, TypeOK
<1>3. InFlight'
  BY <1>1 DEF IInv, TypeOK, InFlight
<1>4. Awaited'
  BY <1>1 DEF IInv, TypeOK, Awaited, Awaits
<1>5. Fresh'
  BY <1>1, <1>2 DEF IInv, TypeOK, Fresh
<1>6. KeysDiffer'
  BY <1>1 DEF CommitBundle, KeysFree, PartsOf, IInv, TypeOK, KeysDiffer
<1>7. NoPartAfterHole'
  BY <1>1 DEF IInv, TypeOK, InFlight, NoPartAfterHole, Earlier, PartsOf
<1> QED
  BY <1>3, <1>4, <1>5, <1>6, <1>7 DEF IInv

(* Claiming a part that was never sent asks the platform for it. *)
LEMMA SendStep ==
  ASSUME IInv, TypeOK', NEW d \in Dispatchers, ClaimAndSend(d)
  PROVE  IInv'
<1> DEFINE box == ExpireReady(outbox)
<1>1. \A q \in Parts : \/ box[q] = outbox[q]
                       \/ outbox[q] = "ready" /\ box[q] \in {"expired", "suppressed"}
  BY ExpireReadyType DEF IInv, TypeOK
<1>2. box \in [Parts -> PartStatus]
  BY ExpireReadyType DEF IInv, TypeOK
<1>3. PICK p \in Parts : /\ IsNext(p, box)
                         /\ outbox' = [box EXCEPT ![p] = "sending"]
                         /\ disp' = [disp EXCEPT ![d] = Sending(p)]
                         /\ wire' = wire \cup {p}
  BY DEF ClaimAndSend
<1>4. UNCHANGED <<rowid, posted>>
  BY DEF ClaimAndSend
<1>5. /\ outbox[p] = "ready"
      /\ \A q \in Earlier(p) : box[q] \in {"sent", "suppressed", "expired"}
  BY <1>1, <1>3 DEF IsNext, Claimable, LetsPass
<1>6. /\ outbox'[p] = "sending"
      /\ \A q \in Parts \ {p} : outbox'[q] = box[q]
  BY <1>2, <1>3
<1>7. /\ disp'[d].phase = "sending" /\ disp'[d].part = p
      /\ \A e \in Dispatchers \ {d} : disp'[e] = disp[e]
  BY <1>3 DEF IInv, TypeOK, Sending
<1> HIDE DEF box
<1>8. InFlight'
  BY <1>1, <1>3, <1>4, <1>5, <1>6 DEF IInv, TypeOK, InFlight
<1>9. Awaited'
  <2>1. ASSUME NEW e \in Dispatchers, NEW q \in Parts, Awaits(e, q)'
        PROVE  \/ e = d /\ q = p
               \/ e # d /\ q # p /\ Awaits(e, q) /\ outbox'[q] = outbox[q]
    BY <1>1, <1>5, <1>6, <1>7, <2>1 DEF IInv, TypeOK, Awaited, Awaits
  <2> QED
    BY <1>3, <1>4, <1>6, <1>7, <2>1 DEF IInv, TypeOK, Awaited, Awaits
<1>10. Fresh'
  BY <1>1, <1>4, <1>5, <1>6 DEF IInv, TypeOK, Fresh
<1>11. KeysDiffer'
  BY <1>1, <1>5, <1>6 DEF IInv, TypeOK, KeysDiffer
<1>12. NoPartAfterHole'
  <2>1. p \notin Earlier(p)
    BY OutboxAssumption DEF Earlier
  <2>2. \A q \in Earlier(p) : outbox'[q] \in {"sent", "suppressed", "expired"}
    BY <1>5, <1>6, <2>1 DEF Earlier, PartsOf
  <2>3. ASSUME NEW r \in Parts, r \in wire \/ posted[r] > 0, NEW q \in Earlier(r)
        PROVE  outbox'[q] \in {"sent", "suppressed", "expired"}
    BY <1>1, <1>5, <1>6, <2>3 DEF IInv, TypeOK, NoPartAfterHole, Earlier, PartsOf
  <2> QED
    BY <1>3, <1>4, <2>2, <2>3 DEF NoPartAfterHole, Earlier, PartsOf
<1> QED
  BY <1>8, <1>9, <1>10, <1>11, <1>12 DEF IInv

(* A receipt settles the one part its dispatcher awaits. *)
LEMMA ReceiptStep ==
  ASSUME IInv, TypeOK', NEW d \in Dispatchers, NEW r \in ReceiptStatus,
         RecordReceipt(d, r)
  PROVE  IInv'
<1> DEFINE p == disp[d].part
<1>1. p \in Parts /\ Awaits(d, p) /\ outbox[p] = "sending"
  BY DispatcherPhases DEF RecordReceipt, Awaits, IInv, TypeOK
<1>2. /\ outbox'[p] = Target(r)
      /\ \A q \in Parts \ {p} : outbox'[q] = outbox[q]
      /\ UNCHANGED <<rowid, posted>>
  BY <1>1 DEF RecordReceipt, IInv, TypeOK
<1>3. /\ disp'[d].phase # "sending"
      /\ \A e \in Dispatchers \ {d} : disp'[e] = disp[e]
  BY DEF RecordReceipt, IInv, TypeOK, Answered
<1>4. /\ wire' \subseteq wire
      /\ wire \ {p} \subseteq wire'
      /\ r \in {"retryable", "permanent"} => p \notin wire'
  BY DEF RecordReceipt
<1>5. /\ r = "success" => p \notin wire
      /\ r \in {"retryable", "permanent"} => p \in wire
  BY DEF RecordReceipt, Reports
<1>6. posted[p] = 1 <=> p \notin wire
  BY <1>1 DEF IInv, InFlight, Awaited
<1> HIDE DEF p
<1>7. \A e \in Dispatchers, q \in Parts : Awaits(e, q)' => Awaits(e, q) /\ q # p
  BY <1>1, <1>3 DEF IInv, Awaited, Awaits
<1>8. \/ r = "success" /\ Target(r) = "sent"
      \/ r = "unknown" /\ Target(r) = "unknown"
      \/ r \in {"retryable", "permanent"} /\ Target(r) \in {"ready", "failed"}
  BY TargetType DEF ReceiptStatus, Target
<1>9. InFlight'
  BY <1>1, <1>2, <1>4, <1>5, <1>6, <1>8 DEF IInv, TypeOK, InFlight
<1>10. Awaited'
  BY <1>2, <1>4, <1>7 DEF IInv, Awaited
<1>11. Fresh'
  BY <1>1, <1>2 DEF IInv, Fresh
<1>12. KeysDiffer'
  BY <1>1, <1>2 DEF IInv, KeysDiffer
<1>13. NoPartAfterHole'
  BY <1>1, <1>2, <1>4 DEF IInv, NoPartAfterHole, Earlier, PartsOf
<1> QED
  BY <1>9, <1>10, <1>11, <1>12, <1>13 DEF IInv

(* A receipt that comes too late changes nothing that is stored. *)
LEMMA RefuseStep ==
  ASSUME IInv, TypeOK', NEW d \in Dispatchers, RefuseReceipt(d)
  PROVE  IInv'
<1> DEFINE p == disp[d].part
<1>1. p \in Parts /\ Awaits(d, p)
  BY DispatcherPhases DEF RefuseReceipt, Awaits, IInv, TypeOK
<1>2. /\ UNCHANGED <<outbox, rowid, posted>>
      /\ wire' \subseteq wire
      /\ wire \ {p} \subseteq wire'
  BY DEF RefuseReceipt, durable
<1>3. /\ disp'[d].phase # "sending"
      /\ \A e \in Dispatchers \ {d} : disp'[e] = disp[e]
  BY DEF RefuseReceipt, IInv, TypeOK, Idle
<1> HIDE DEF p
<1>4. \A e \in Dispatchers, q \in Parts : Awaits(e, q)' => Awaits(e, q) /\ q # p
  BY <1>1, <1>3 DEF IInv, Awaited, Awaits
<1>5. InFlight' /\ Awaited'
  BY <1>2, <1>4 DEF IInv, InFlight, Awaited
<1> QED
  BY <1>2, <1>5 DEF IInv, Fresh, KeysDiffer, NoPartAfterHole, Earlier, PartsOf

(* The platform posts a part, or the request gets lost. *)
LEMMA PlatformStep ==
  ASSUME IInv, TypeOK', NEW p \in Parts, Post(p) \/ Lose(p)
  PROVE  IInv'
<1>1. UNCHANGED <<outbox, rowid, disp>>
  BY DEF Post, Lose, durable
<1>2. p \in wire /\ wire' = wire \ {p}
  BY DEF Post, Lose
<1>3. /\ outbox[p] \in {"sending", "unknown"}
      /\ posted[p] = 0
  BY <1>2 DEF IInv, InFlight
<1>4. \A q \in Parts \ {p} : posted'[q] = posted[q]
  BY DEF Post, Lose, IInv, TypeOK
<1>5. \/ posted'[p] = 1
      \/ posted'[p] = 0 /\ \A d \in Dispatchers : ~Awaits(d, p)
  BY <1>3, DispatcherPhases DEF Post, Lose, Awaits, IInv, TypeOK
<1>6. InFlight'
  BY <1>1, <1>2, <1>3, <1>4, <1>5 DEF IInv, TypeOK, InFlight
<1>7. Awaited'
  BY <1>1, <1>2, <1>4, <1>5 DEF IInv, Awaited, Awaits
<1>8. NoPartAfterHole'
  BY <1>1, <1>2, <1>4 DEF IInv, NoPartAfterHole, Earlier, PartsOf
<1> QED
  BY <1>1, <1>6, <1>7, <1>8 DEF IInv, Fresh, KeysDiffer

(* The remaining actions are quiet. *)
LEMMA QuietActions ==
  ASSUME IInv, TypeOK',
         \/ \E b \in Bundles : Silence(b)
         \/ ClaimNothing
         \/ \E d \in Dispatchers : ClaimAndRefuse(d) \/ MarkPlan(d) \/ AbandonPlan(d)
         \/ Tick \/ Govern \/ Start \/ RecoverInflight
         \/ \E gone \in SUBSET Dispatchers : Stop(gone)
         \/ UNCHANGED vars
  PROVE  Quiet
<1> USE DEF Quiet, QuietPart
<1>1. ASSUME NEW b \in Bundles, Silence(b) PROVE Quiet
  BY <1>1 DEF Silence
<1>2. CASE ClaimNothing
  BY <1>2, ExpireReadyType DEF ClaimNothing, IInv, TypeOK
<1>3. ASSUME NEW d \in Dispatchers, ClaimAndRefuse(d) PROVE Quiet
  <2>1. ExpireReady(outbox) \in [Parts -> PartStatus]
    BY ExpireReadyType DEF IInv, TypeOK
  <2>2. PICK p \in Parts : /\ IsNext(p, ExpireReady(outbox))
                           /\ outbox' = [ExpireReady(outbox) EXCEPT ![p] = "sending"]
    BY <1>3 DEF ClaimAndRefuse
  <2>3. ExpireReady(outbox)[p] = "ready"
    BY <2>2 DEF IsNext, Claimable
  <2>4. outbox[p] = "ready"
    BY <2>3, ExpireReadyType DEF IInv, TypeOK
  <2>5. \A q \in Parts : QuietPart(q)
    BY <2>1, <2>2, <2>4, ExpireReadyType DEF IInv, TypeOK
  <2> QED
    BY <1>3, <2>5 DEF ClaimAndRefuse
<1>4. ASSUME NEW d \in Dispatchers, MarkPlan(d) \/ AbandonPlan(d) PROVE Quiet
  <2>1. UNCHANGED <<outbox, rowid, wire, posted>> /\ disp' = [disp EXCEPT ![d] = Idle]
    BY <1>4 DEF MarkPlan, AbandonPlan, durable
  <2> QED
    BY <2>1 DEF Idle, IInv, TypeOK
<1>5. CASE Tick \/ Govern \/ Start
  BY <1>5 DEF Tick, Govern, Start, durable
<1>6. CASE RecoverInflight
  <2> DEFINE box == [p \in Parts |-> IF outbox[p] = "sending" THEN "unknown" ELSE outbox[p]]
  <2>1. box \in [Parts -> PartStatus]
    BY DEF IInv, TypeOK, PartStatus
  <2>2. outbox' = ExpireReady(box)
    BY <1>6 DEF RecoverInflight
  <2>3. \A p \in Parts : QuietPart(p)
    BY <2>1, <2>2, ExpireReadyType DEF IInv, TypeOK
  <2> QED
    BY <1>6, <2>3 DEF RecoverInflight
<1>7. ASSUME NEW gone \in SUBSET Dispatchers, Stop(gone) PROVE Quiet
  <2>1. /\ UNCHANGED <<outbox, rowid, wire, posted>>
        /\ \A d \in Dispatchers : disp'[d] = disp[d] \/ disp'[d] = Idle
    BY <1>7 DEF Stop, durable
  <2> QED
    BY <2>1 DEF Idle
<1>8. CASE UNCHANGED vars
  BY <1>8 DEF vars, durable
<1> QED
  BY <1>1, <1>2, <1>3, <1>4, <1>5, <1>6, <1>7, <1>8

LEMMA InvStep == IInv /\ [Next]_vars => IInv'
<1> SUFFICES ASSUME IInv, [Next]_vars PROVE IInv'
  OBVIOUS
<1>1. TypeOK'
  BY TypeStep DEF IInv
<1>2. ASSUME NEW b \in Bundles, Enqueue(b) PROVE IInv'
  BY <1>1, <1>2, CommitStep DEF Enqueue
<1>3. ASSUME NEW b \in Bundles, CrashInEnqueue(b) PROVE IInv'
  BY <1>1, <1>3, CommitStep DEF CrashInEnqueue, Idle
<1>4. ASSUME NEW d \in Dispatchers, ClaimAndSend(d) PROVE IInv'
  BY <1>1, <1>4, SendStep
<1>5. ASSUME NEW d \in Dispatchers, NEW r \in ReceiptStatus, RecordReceipt(d, r)
      PROVE IInv'
  BY <1>1, <1>5, ReceiptStep
<1>6. ASSUME NEW d \in Dispatchers, RefuseReceipt(d) PROVE IInv'
  BY <1>1, <1>6, RefuseStep
<1>7. ASSUME NEW p \in Parts, Post(p) \/ Lose(p) PROVE IInv'
  BY <1>1, <1>7, PlatformStep
<1>8. CASE \/ \E b \in Bundles : Silence(b)
           \/ ClaimNothing
           \/ \E d \in Dispatchers : ClaimAndRefuse(d) \/ MarkPlan(d) \/ AbandonPlan(d)
           \/ Tick \/ Govern \/ Start \/ RecoverInflight
           \/ \E gone \in SUBSET Dispatchers : Stop(gone)
           \/ UNCHANGED vars
  BY <1>1, <1>8, QuietActions, QuietStep
<1> QED
  BY <1>2, <1>3, <1>4, <1>5, <1>6, <1>7, <1>8 DEF Next, Dispatch, Answer

THEOREM Inductive == Spec => []IInv
  BY InvInit, InvStep, PTL DEF Spec

(* No idempotency key is shown to the group twice, in any execution. *)
THEOREM NeverPostedTwice == Spec => []AtMostOncePerKey
  BY Inductive, IInvSuffices, PTL

(* No bundle is continued over a failed or doubtful part. *)
THEOREM NeverOverAHole == Spec => []NoPartAfterHole
  BY Inductive, IInvSuffices, PTL

(* What the ledger says of a part agrees with what the group saw. *)
THEOREM LedgerIsTruthful == Spec => []LedgerAgreesWithGroup
  BY Inductive, IInvSuffices, PTL
-----------------------------------------------------------------------------
(***************************************************************************)
(* The Outbox implements DeliveryPromise.                                  *)
(***************************************************************************)

(* What a step may do to a part, in terms of the stored status. *)
OutboxMove(p) ==
  \/ outbox'[p] = outbox[p]
  \/ /\ outbox[p] = "absent" /\ outbox'[p] = "ready"
     /\ \A q \in Parts \ {p} : KeyOf[q] = KeyOf[p] =>
          outbox[q] = "absent" /\ outbox'[q] = "absent"
  \/ /\ outbox[p] = "ready" /\ outbox'[p] = "sending"
     /\ \A q \in Earlier(p) : outbox'[q] \in {"sent", "suppressed", "expired"}
  \/ outbox[p] = "ready" /\ outbox'[p] \in {"expired", "suppressed"}
  \/ outbox[p] = "sending" /\ outbox'[p] = "sent" /\ posted[p] = 1
  \/ outbox[p] = "sending" /\ outbox'[p] \in {"failed", "ready"} /\ posted[p] = 0
  \/ outbox[p] = "sending" /\ outbox'[p] = "unknown"

PostsMove ==
  \A p \in Parts :
    \/ posted'[p] = posted[p]
    \/ posted[p] = 0 /\ posted'[p] = 1 /\ outbox[p] \in {"sending", "unknown"}

(* Claiming: the claimed part has nothing but settled parts ahead. *)
LEMMA ClaimMoves ==
  ASSUME IInv, NEW p \in Parts, IsNext(p, ExpireReady(outbox)),
         outbox' = [ExpireReady(outbox) EXCEPT ![p] = "sending"]
  PROVE  \A q \in Parts : OutboxMove(q)
<1> DEFINE box == ExpireReady(outbox)
<1>1. /\ box \in [Parts -> PartStatus]
      /\ \A q \in Parts : \/ box[q] = outbox[q]
                          \/ outbox[q] = "ready" /\ box[q] \in {"expired", "suppressed"}
  BY ExpireReadyType DEF IInv, TypeOK
<1>2. /\ outbox'[p] = "sending"
      /\ \A q \in Parts \ {p} : outbox'[q] = box[q]
  BY <1>1
<1>3. /\ outbox[p] = "ready"
      /\ \A q \in Earlier(p) : box[q] \in {"sent", "suppressed", "expired"}
  BY <1>1 DEF IsNext, Claimable, LetsPass
<1>4. \A q \in Earlier(p) : q \in Parts \ {p}
  BY OutboxAssumption DEF Earlier, PartsOf
<1> HIDE DEF box
<1> QED
  BY <1>1, <1>2, <1>3, <1>4 DEF OutboxMove

LEMMA StepMoves ==
  ASSUME IInv, [Next]_vars
  PROVE  (\A p \in Parts : OutboxMove(p)) /\ PostsMove
<1> USE OutboxAssumption
<1>1. ASSUME NEW b \in Bundles, CommitBundle(b) PROVE \A p \in Parts : OutboxMove(p)
  <2>1. \A p \in Parts :
          /\ BundleOf[p] = b => outbox[p] = "absent" /\ outbox'[p] = "ready"
          /\ BundleOf[p] # b => \/ outbox'[p] = outbox[p]
                                \/ outbox[p] = "ready" /\ outbox'[p] = "suppressed"
    BY <1>1 DEF CommitBundle, IInv, Fresh, Stored
  <2>2. \A p, q \in Parts : BundleOf[p] = b /\ KeyOf[p] = KeyOf[q] /\ p # q =>
          outbox[q] = "absent" /\ BundleOf[q] # b
    BY <1>1 DEF CommitBundle, KeysFree, PartsOf
  <2> QED
    BY <2>1, <2>2 DEF OutboxMove
<1>2. ASSUME NEW b \in Bundles, Silence(b) \/ Enqueue(b) \/ CrashInEnqueue(b)
      PROVE  (\A p \in Parts : OutboxMove(p)) /\ UNCHANGED posted
  BY <1>1, <1>2 DEF Silence, Enqueue, CrashInEnqueue, OutboxMove
<1>3. CASE ClaimNothing
  BY <1>3, ExpireReadyType DEF ClaimNothing, IInv, TypeOK, OutboxMove, PostsMove
<1>4. ASSUME NEW d \in Dispatchers, ClaimAndSend(d) \/ ClaimAndRefuse(d)
      PROVE  (\A p \in Parts : OutboxMove(p)) /\ UNCHANGED posted
  BY <1>4, ClaimMoves DEF ClaimAndSend, ClaimAndRefuse
<1>5. ASSUME NEW d \in Dispatchers, NEW r \in ReceiptStatus, RecordReceipt(d, r)
      PROVE  (\A p \in Parts : OutboxMove(p)) /\ UNCHANGED posted
  <2> DEFINE p == disp[d].part
  <2>1. p \in Parts /\ Awaits(d, p) /\ outbox[p] = "sending"
    BY <1>5, DispatcherPhases DEF RecordReceipt, Awaits, IInv, TypeOK
  <2>2. /\ outbox'[p] = Target(r)
        /\ \A q \in Parts \ {p} : outbox'[q] = outbox[q]
        /\ UNCHANGED posted
    BY <1>5, <2>1 DEF RecordReceipt, IInv, TypeOK
  <2>3. /\ posted[p] \in {0, 1}
        /\ posted[p] = 1 <=> p \notin wire
    BY <2>1 DEF IInv, InFlight, Awaited
  <2>4. \/ Target(r) = "sent" /\ p \notin wire
        \/ Target(r) \in {"ready", "failed"} /\ p \in wire
        \/ Target(r) = "unknown"
    BY <1>5 DEF RecordReceipt, Reports, ReceiptStatus, Target
  <2> HIDE DEF p
  <2> QED
    BY <2>1, <2>2, <2>3, <2>4 DEF OutboxMove
<1>6. ASSUME NEW p \in Parts, Post(p)
      PROVE  (\A q \in Parts : OutboxMove(q)) /\ PostsMove
  <2>1. posted[p] = 0 /\ outbox[p] \in {"sending", "unknown"}
    BY <1>6 DEF Post, IInv, InFlight
  <2> QED
    BY <1>6, <2>1 DEF Post, durable, IInv, TypeOK, OutboxMove, PostsMove
<1>7. CASE RecoverInflight
  <2> DEFINE box == [p \in Parts |-> IF outbox[p] = "sending" THEN "unknown" ELSE outbox[p]]
  <2>1. box \in [Parts -> PartStatus]
    BY DEF IInv, TypeOK, PartStatus
  <2>2. outbox' = ExpireReady(box) /\ UNCHANGED posted
    BY <1>7 DEF RecoverInflight
  <2> QED
    BY <2>1, <2>2, ExpireReadyType DEF OutboxMove, PostsMove
<1>8. ASSUME UNCHANGED <<outbox, posted>>
      PROVE  (\A p \in Parts : OutboxMove(p)) /\ PostsMove
  BY <1>8 DEF OutboxMove, PostsMove
<1>9. ASSUME \/ \E d \in Dispatchers : MarkPlan(d) \/ AbandonPlan(d) \/ RefuseReceipt(d)
             \/ \E p \in Parts : Lose(p)
             \/ Tick \/ Govern \/ Start
             \/ \E gone \in SUBSET Dispatchers : Stop(gone)
             \/ UNCHANGED vars
      PROVE  UNCHANGED <<outbox, posted>>
  BY <1>9 DEF MarkPlan, AbandonPlan, RefuseReceipt, Lose, Tick, Govern, Start,
              Stop, vars, durable
<1> QED
  BY <1>2, <1>3, <1>4, <1>5, <1>6, <1>7, <1>8, <1>9
     DEF Next, Dispatch, Answer, PostsMove

(* The stored status determines the stage. *)
LEMMA Stage ==
  ASSUME NEW s \in PartStatus
  PROVE  /\ StageOf(s) = "new" <=> s = "absent"
         /\ StageOf(s) = "waiting" <=> s = "ready"
         /\ StageOf(s) = "offered" <=> s = "sending"
         /\ StageOf(s) = "delivered" <=> s = "sent"
         /\ StageOf(s) = "failed" <=> s = "failed"
         /\ StageOf(s) = "doubtful" <=> s = "unknown"
         /\ StageOf(s) = "dropped" <=> s \in {"expired", "suppressed"}
  BY DEF StageOf, PartStatus

LEMMA PromiseInit == Init => Promise!Init
  BY DEF Init, Promise!Init, StageOf

LEMMA PromiseStep ==
  ASSUME IInv, TypeOK', [Next]_vars
  PROVE  Promise!Next
<1> DEFINE stage == [p \in Parts |-> StageOf(outbox[p])]
           shown == {p \in Parts : posted[p] > 0}
<1>1. \A p \in Parts : /\ outbox[p] \in PartStatus /\ stage[p] = StageOf(outbox[p])
                       /\ outbox'[p] \in PartStatus /\ stage'[p] = StageOf(outbox'[p])
                       /\ p \in shown <=> posted[p] = 1
  BY DEF IInv, TypeOK, InFlight
<1>2. ASSUME NEW p \in Parts PROVE Promise!Moves(p)
  <2>1. Promise!Ahead(p) = Earlier(p) /\ Earlier(p) \subseteq Parts
    BY OutboxAssumption DEF Promise!Ahead, Earlier, PartsOf
  <2>2. OutboxMove(p)
    BY StepMoves
  <2>3. \A q \in Parts :
          /\ StageOf(outbox[q]) = "new" <=> outbox[q] = "absent"
          /\ StageOf(outbox'[q]) = "new" <=> outbox'[q] = "absent"
          /\ outbox'[q] \in {"sent", "suppressed", "expired"} =>
               StageOf(outbox'[q]) \in {"delivered", "dropped"}
    BY <1>1, Stage
  <2>4. CASE outbox'[p] = outbox[p]
    BY <2>4 DEF Promise!Moves, Promise!Becomes
  <2>5. CASE /\ outbox[p] = "absent" /\ outbox'[p] = "ready"
             /\ \A q \in Parts \ {p} : KeyOf[q] = KeyOf[p] =>
                  outbox[q] = "absent" /\ outbox'[q] = "absent"
    <3>1. StageOf(outbox[p]) = "new" /\ StageOf(outbox'[p]) = "waiting"
      BY <2>5, <1>1, Stage
    <3>2. Promise!Accept(p)
      BY <2>3, <2>5, <3>1 DEF Promise!Accept, Promise!Becomes
    <3> QED
      BY <3>2 DEF Promise!Moves
  <2>6. CASE /\ outbox[p] = "ready" /\ outbox'[p] = "sending"
             /\ \A q \in Earlier(p) : outbox'[q] \in {"sent", "suppressed", "expired"}
    <3>1. StageOf(outbox[p]) = "waiting" /\ StageOf(outbox'[p]) = "offered"
      BY <2>6, <1>1, Stage
    <3>2. Promise!Offer(p)
      BY <2>1, <2>3, <2>6, <3>1 DEF Promise!Offer, Promise!Becomes
    <3> QED
      BY <3>2 DEF Promise!Moves
  <2>7. CASE outbox[p] = "ready" /\ outbox'[p] \in {"expired", "suppressed"}
    <3>1. StageOf(outbox[p]) = "waiting" /\ StageOf(outbox'[p]) = "dropped"
      BY <2>7, <1>1, Stage
    <3> QED
      BY <3>1 DEF Promise!Moves, Promise!Becomes
  <2>8. CASE \/ outbox[p] = "sending" /\ outbox'[p] = "sent" /\ posted[p] = 1
             \/ outbox[p] = "sending" /\ outbox'[p] \in {"failed", "ready"} /\ posted[p] = 0
             \/ outbox[p] = "sending" /\ outbox'[p] = "unknown"
    <3>1. /\ StageOf(outbox[p]) = "offered"
          /\ \/ StageOf(outbox'[p]) = "delivered" /\ p \in shown
             \/ StageOf(outbox'[p]) = "failed" /\ p \notin shown
             \/ StageOf(outbox'[p]) = "waiting" /\ p \notin shown
             \/ StageOf(outbox'[p]) = "doubtful"
      BY <2>8, <1>1, Stage
    <3>2. Promise!Verdict(p)
      BY <3>1 DEF Promise!Verdict, Promise!Becomes
    <3> QED
      BY <3>2 DEF Promise!Moves
  <2> QED
    BY <2>2, <2>4, <2>5, <2>6, <2>7, <2>8 DEF OutboxMove
<1>3. Promise!Shows
  BY <1>1, StepMoves DEF Promise!Shows, PostsMove, StageOf, IInv, TypeOK
<1> QED
  BY <1>2, <1>3 DEF Promise!Next

(* The Outbox with its dispatchers implements the abstract promise. *)
THEOREM Refinement == Spec => KeepsPromise
<1>1. IInv /\ TypeOK' /\ [Next]_vars => [Promise!Next]_(Promise!pvars)
  BY PromiseStep
<1>2. IInv => TypeOK
  BY DEF IInv
<1> QED
  BY <1>1, <1>2, PromiseInit, Inductive, PTL DEF Spec, KeepsPromise, Promise!Spec
-----------------------------------------------------------------------------
(***************************************************************************)
(* A plan marked "sent" is over.  Two more facts make this inductive: a    *)
(* bundle is stored with all its parts, and a dispatcher that remembers a  *)
(* success remembers it of a part that is SENT.                            *)
(***************************************************************************)
Complete == \A p \in Parts : outbox[p] = "absent" => rowid[BundleOf[p]] = 0

Remembered ==
  \A d \in Dispatchers : disp[d].phase = "answered" /\ disp[d].status = "sent" =>
    outbox[disp[d].part] = "sent"

SentInv == Complete /\ Remembered /\ SentPlanIsOver

LEMMA SentInit == Init => SentInv
  BY OutboxAssumption DEF Init, SentInv, SentPlanIsOver, Complete, Remembered, Idle

LEMMA SentStep ==
  ASSUME IInv, IInv', SentInv, [Next]_vars
  PROVE  SentInv'
<1> USE OutboxAssumption
<1>1. \A p \in Parts : outbox[p] \notin {"absent", "ready", "sending"} =>
        outbox'[p] = outbox[p]
  BY StepMoves DEF OutboxMove
<1>2. \A p \in Parts : outbox[p] # "absent" => outbox'[p] # "absent"
  BY StepMoves DEF OutboxMove
<1>3. Complete'
  <2>1. ASSUME NEW b \in Bundles, CommitBundle(b) PROVE Complete'
    BY <2>1, <1>2 DEF CommitBundle, SentInv, Complete, Stored, IInv, TypeOK
  <2>2. CASE rowid' = rowid
    BY <2>2, <1>2 DEF SentInv, Complete
  <2>3. rowid' = rowid \/ \E b \in Bundles : CommitBundle(b)
    BY DEF Next, Dispatch, Answer, Silence, Enqueue, CrashInEnqueue, ClaimNothing,
           ClaimAndSend, ClaimAndRefuse, MarkPlan, AbandonPlan, RefuseReceipt,
           RecordReceipt, Post, Lose, Tick, Govern, Stop, Start, RecoverInflight,
           vars, durable
  <2> QED
    BY <2>1, <2>2, <2>3
<1>4. Remembered'
  <2>1. ASSUME NEW d \in Dispatchers, NEW r \in ReceiptStatus, RecordReceipt(d, r)
        PROVE  Remembered'
    <3>1. disp[d].part \in Parts
      BY <2>1, DispatcherPhases DEF RecordReceipt, IInv, TypeOK
    <3>2. /\ disp'[d].part = disp[d].part
          /\ disp'[d].status = Target(r)
          /\ outbox'[disp[d].part] = Target(r)
          /\ \A e \in Dispatchers \ {d} : disp'[e] = disp[e]
      BY <2>1, <3>1 DEF RecordReceipt, IInv, TypeOK, Answered
    <3> QED
      BY <3>1, <3>2, <1>1, DispatcherPhases DEF Remembered, SentInv, IInv, TypeOK
  <2>2. CASE \A d \in Dispatchers :
               disp'[d] = disp[d] \/ disp'[d].phase # "answered"
    BY <2>2, <1>1, DispatcherPhases DEF Remembered, SentInv, IInv, TypeOK
  <2> DEFINE DispatchersCalm ==
        \A d \in Dispatchers : disp'[d] = disp[d] \/ disp'[d].phase # "answered"
  <2>3. \/ \E d \in Dispatchers, r \in ReceiptStatus : RecordReceipt(d, r)
        \/ \A d \in Dispatchers : disp'[d] = disp[d] \/ disp'[d].phase # "answered"
    <3>1. ASSUME NEW d \in Dispatchers, ClaimAndSend(d) PROVE DispatchersCalm
      BY <3>1 DEF ClaimAndSend, Sending, IInv, TypeOK
    <3>2. ASSUME NEW d \in Dispatchers, MarkPlan(d) \/ AbandonPlan(d) \/ RefuseReceipt(d)
          PROVE  DispatchersCalm
      <4>1. disp' = [disp EXCEPT ![d] = Idle]
        BY <3>2 DEF MarkPlan, AbandonPlan, RefuseReceipt
      <4> QED
        BY <4>1 DEF Idle, IInv, TypeOK
    <3>3. ASSUME NEW gone \in SUBSET Dispatchers, Stop(gone) PROVE DispatchersCalm
      <4>1. \A d \in Dispatchers : disp'[d] = disp[d] \/ disp'[d] = Idle
        BY <3>3 DEF Stop
      <4> QED
        BY <4>1 DEF Idle
    <3>4. ASSUME NEW b \in Bundles, CrashInEnqueue(b) PROVE DispatchersCalm
      BY <3>4 DEF CrashInEnqueue, Idle
    <3>5. ASSUME \/ \E b \in Bundles : Silence(b) \/ Enqueue(b)
                 \/ \E d \in Dispatchers : ClaimAndRefuse(d)
                 \/ \E p \in Parts : Post(p) \/ Lose(p)
                 \/ ClaimNothing \/ Tick \/ Govern \/ Start \/ RecoverInflight
                 \/ UNCHANGED vars
          PROVE  disp' = disp
      BY <3>5 DEF Silence, Enqueue, ClaimAndRefuse, Post, Lose, ClaimNothing, Tick,
                  Govern, Start, RecoverInflight, vars
    <3> QED
      BY <3>1, <3>2, <3>3, <3>4, <3>5 DEF Next, Dispatch, Answer
  <2> QED
    BY <2>1, <2>2, <2>3
<1>5. SentPlanIsOver'
  <2>1. ASSUME NEW d \in Dispatchers, MarkPlan(d) PROVE SentPlanIsOver'
    <3> DEFINE p == disp[d].part
               b == BundleOf[p]
    <3>1. p \in Parts /\ b \in Bundles
      BY <2>1, DispatcherPhases DEF MarkPlan, IInv, TypeOK
    <3>2. outbox' = outbox /\ rowid' = rowid
      BY <2>1 DEF MarkPlan
    <3>3. CASE plan'[b] = "sent" /\ plan[b] # "sent"
      <4>1. disp[d].status = "sent" /\ ~Unfinished(b)
        BY <2>1, <3>1, <3>3 DEF MarkPlan, Marked, IInv, TypeOK
      <4>2. outbox[p] = "sent" /\ p \in PartsOf(b)
        BY <2>1, <3>1, <4>1 DEF MarkPlan, SentInv, Remembered, PartsOf
      <4>3. \A q \in PartsOf(b) : outbox[q] # "absent"
        BY <3>1, <4>2 DEF SentInv, Complete, IInv, Fresh, PartsOf
      <4>4. \A c \in Bundles : plan'[c] = "sent" => c = b \/ plan[c] = "sent"
        BY <2>1, <3>1 DEF MarkPlan, Marked, IInv, TypeOK
      <4> QED
        BY <3>2, <4>1, <4>2, <4>3, <4>4
           DEF SentInv, SentPlanIsOver, Unfinished, PartsOf
    <3>4. CASE ~(plan'[b] = "sent" /\ plan[b] # "sent")
      <4>1. \A c \in Bundles : plan'[c] = "sent" => plan[c] = "sent"
        BY <2>1, <3>1, <3>4 DEF MarkPlan, Marked, IInv, TypeOK
      <4> QED
        BY <3>2, <4>1 DEF SentInv, SentPlanIsOver, PartsOf
    <3> QED
      BY <3>3, <3>4
  <2>2. CASE \A b \in Bundles : plan'[b] = "sent" => plan[b] = "sent"
    BY <2>2, <1>1 DEF SentInv, SentPlanIsOver, PartsOf
  <2>3. ASSUME NEW b \in Bundles, Silence(b) \/ Enqueue(b) \/ CrashInEnqueue(b)
        PROVE  \A c \in Bundles : plan'[c] = "sent" => plan[c] = "sent"
    BY <2>3 DEF Silence, Enqueue, CrashInEnqueue, Marked, IInv, TypeOK
  <2>4. \/ \E b \in Bundles : Silence(b) \/ Enqueue(b) \/ CrashInEnqueue(b)
        \/ \E d \in Dispatchers : MarkPlan(d)
        \/ plan' = plan
    BY DEF Next, Dispatch, Answer, ClaimNothing, ClaimAndSend, ClaimAndRefuse,
           AbandonPlan, RefuseReceipt, RecordReceipt, Post, Lose, Tick, Govern,
           Stop, Start, RecoverInflight, vars, durable
  <2> QED
    BY <2>1, <2>2, <2>3, <2>4
<1> QED
  BY <1>3, <1>4, <1>5 DEF SentInv

(* A reply plan marked "sent" has nothing left to send. *)
THEOREM SentPlansAreOver == Spec => []SentPlanIsOver
<1>1. Spec => []SentInv
  BY SentInit, SentStep, Inductive, PTL DEF Spec
<1>2. SentInv => SentPlanIsOver
  BY DEF SentInv
<1> QED
  BY <1>1, <1>2, PTL
=============================================================================
