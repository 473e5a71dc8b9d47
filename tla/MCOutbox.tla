------------------------------ MODULE MCOutbox ------------------------------
(***************************************************************************)
(* Model values for Outbox.                                                *)
(***************************************************************************)
EXTENDS Outbox, TLC

CONSTANTS b1, b2, b3, a1, a2, c1, e1

(* b1 is a reply of two parts, b2 the progress note of a task and b3 the   *)
(* result that replaces it, with the key the reply uses for its first part *)
(* in the runs that share keys.                                            *)
MCBundles == {b1, b2, b3}
MCParts == {a1, a2, c1, e1}
MCBundleOf == a1 :> b1 @@ a2 :> b1 @@ c1 :> b2 @@ e1 :> b3
MCOrder == [p \in MCParts |-> IF p = a2 THEN 1 ELSE 0]
MCExpiresAt == [p \in MCParts |-> IF p \in {a1, c1} THEN 1 ELSE 2]
MCDecorative == {c1}
MCProgress == {c1}
MCReplaces == [b \in MCBundles |-> IF b = b3 THEN {c1} ELSE {}]
MCActionBundles == {b2, b3}
MCSharedKeyOf == [p \in MCParts |-> IF p = e1 THEN a1 ELSE p]

(* One reply of three parts. *)
MCReplyBundles == {b1}
MCReplyParts == {a1, a2, c1}
MCReplyBundleOf == [p \in MCReplyParts |-> b1]
MCReplyOrder == a1 :> 0 @@ a2 :> 1 @@ c1 :> 2
MCReplyExpiresAt == [p \in MCReplyParts |-> 2]
MCReplyReplaces == [b \in MCReplyBundles |-> {}]
MCReplyKeyOf == [p \in MCReplyParts |-> p]
=============================================================================
