--------------------------- MODULE DeliveryPromise ---------------------------
(***************************************************************************)
(* What the delivery subsystem promises a group, without queues, receipts, *)
(* dispatchers, crashes or recovery.  A part is accepted, waits, is        *)
(* offered to the platform and ends delivered, failed, dropped or, when    *)
(* nobody can tell, doubtful.  A step may move several parts at once, as   *)
(* one database transaction does, but each of them by one rule below.      *)
(***************************************************************************)
EXTENDS Naturals

CONSTANTS Parts, BundleOf, Order, KeyOf

VARIABLES
  stage,   (* the stage every part is in                                   *)
  shown    (* the parts the group has seen                                 *)

pvars == <<stage, shown>>

Stages == {"new", "waiting", "offered", "delivered", "failed", "dropped",
           "doubtful"}

Ahead(p) ==
  {q \in Parts : BundleOf[q] = BundleOf[p] /\ Order[q] < Order[p]}

Becomes(p, from, to) == stage[p] = from /\ stage'[p] = to

(* A key is accepted once. *)
Accept(p) ==
  /\ Becomes(p, "new", "waiting")
  /\ \A q \in Parts \ {p} : KeyOf[q] = KeyOf[p] => stage[q] = "new" /\ stage'[q] = "new"

(* Offered in order, and never over a part that failed or is in doubt. *)
Offer(p) ==
  /\ Becomes(p, "waiting", "offered")
  /\ \A q \in Ahead(p) : stage'[q] \in {"delivered", "dropped"}

(* Only what was shown is delivered, only what was not shown is retried or *)
(* failed.                                                                 *)
Verdict(p) ==
  \/ Becomes(p, "offered", "delivered") /\ p \in shown
  \/ Becomes(p, "offered", "failed") /\ p \notin shown
  \/ Becomes(p, "offered", "waiting") /\ p \notin shown
  \/ Becomes(p, "offered", "doubtful")

Moves(p) ==
  \/ Becomes(p, stage[p], stage[p])
  \/ Accept(p)
  \/ Offer(p)
  \/ Becomes(p, "waiting", "dropped")
  \/ Verdict(p)

(* The group sees an offered part, or late a part in doubt; it never       *)
(* unsees one.                                                             *)
Shows ==
  /\ shown \subseteq shown'
  /\ \A p \in shown' \ shown : stage[p] \in {"offered", "doubtful"}

Init ==
  /\ stage = [p \in Parts |-> "new"]
  /\ shown = {}

Next == (\A p \in Parts : Moves(p)) /\ Shows

Spec == Init /\ [][Next]_pvars
=============================================================================
