------------------------------ MODULE Profiles ------------------------------
(***************************************************************************)
(* What the bot learns about the members of one group (profile/service.py, *)
(* repository.py, extractor.py, policy.py): messages wait in a durable     *)
(* queue, one worker claims a batch around a member, asks a model what it  *)
(* says, merges the answer into the claims it holds (facts and relations)  *)
(* and rewrites the portraits; administrators correct, reject and move     *)
(* facts meanwhile. Members a message only mentions are left out.          *)
(***************************************************************************)
EXTENDS Integers, Sequences, FiniteSets, FiniteSetsExt

CONSTANTS
  ProfMessages,   \* numbers, in the order of occurred_at and event_id
  ProfAuthor,     \* message -> member
  ProfAt,         \* message -> occurred_at
  ProfClaims,     \* fact_id or edge_id
  ProfSubject,    \* claim -> the member it is about, when it is first made
  ProfFacts,      \* the claims that are facts
  ProfNeeds,      \* claim -> distinct messages it takes to confirm it
  ProfBatch,      \* batch_size
  ProfFocus,      \* messages of one member in a batch
  ProfWindow,     \* distance of the messages of others
  ProfDelays,     \* retry delays of a model error
  ProfMerges,     \* pairs of accounts an administrator may merge
  ProfLastTime    \* bound of the clock

ProfMembers == {ProfAuthor[m] : m \in ProfMessages} \cup {ProfSubject[c] : c \in ProfClaims}

ASSUME ProfConstants ==
  /\ ProfMessages \subseteq Nat /\ ProfAt \in [ProfMessages -> Nat \ {0}] /\ ProfFacts \subseteq ProfClaims
  /\ DOMAIN ProfAuthor = ProfMessages /\ DOMAIN ProfSubject = ProfClaims
  /\ ProfNeeds \in [ProfClaims -> Nat \ {0}] /\ ProfDelays \in Seq(Nat) \ {<<>>} /\ ProfMerges \subseteq ProfMembers \X ProfMembers
  /\ {ProfBatch, ProfFocus} \subseteq Nat \ {0} /\ {ProfWindow, ProfLastTime} \subseteq Nat

VARIABLES
  pfNow,        \* clock
  pfObs,        \* by message: profile_observations
  pfWork,       \* the worker: its batch and the claims it told the model of
  pfClaim,      \* by claim: profile_facts, social_edges
  pfPortrait,   \* by member: profile_snapshots
  pfBarred      \* history: facts an administrator corrected or rejected
pfVars == <<pfNow, pfObs, pfWork, pfClaim, pfPortrait, pfBarred>>

ProfNobody == "nobody"
ProfClosed == {"stale", "rejected", "superseded"}
ProfUnknown == [c \in ProfFacts |-> ProfNobody]
ProfResting == [phase |-> "off", batch |-> {}, known |-> ProfUnknown]
ProfNoClaim == [status |-> "none", evidence |-> {}, sure |-> FALSE, of |-> ProfNobody]
ProfUndrawn == [revision |-> -1, shows |-> {}]

ProfInit ==
  /\ pfNow = 0 /\ pfWork = ProfResting /\ pfBarred = {}
  /\ pfObs = [m \in ProfMessages |-> [status |-> "absent", attempt |-> 0, due |-> 0]]
  /\ pfClaim = [c \in ProfClaims |-> ProfNoClaim]
  /\ pfPortrait = [a \in ProfMembers |-> ProfUndrawn]

ProfTick == pfNow < ProfLastTime /\ pfNow' = pfNow + 1 /\ UNCHANGED <<pfObs, pfWork, pfClaim, pfPortrait, pfBarred>>

----------------------------------------------------------------------------
(* The queue.                                                              *)
\* observe: a message that comes twice is queued once.
ProfObserve(m) ==
  /\ pfNow >= ProfAt[m] /\ pfObs[m].status = "absent"
  /\ pfObs' = [pfObs EXCEPT ![m].status = "pending"]
  /\ UNCHANGED <<pfNow, pfWork, pfClaim, pfPortrait, pfBarred>>

ProfDue == {m \in ProfMessages : pfObs[m].status \in {"pending", "retry"} /\ pfObs[m].due <= pfNow}
ProfFirst(k, s) == {m \in s : Cardinality({n \in s : n < m}) < k}
\* The member of the oldest due message, then what others said around it.
ProfClaimed ==
  LET focus == ProfFirst(ProfFocus, {m \in ProfDue : ProfAuthor[m] = ProfAuthor[Min(ProfDue)]})
      near == {m \in ProfDue : /\ ProfAuthor[m] # ProfAuthor[Min(ProfDue)]
                               /\ ProfAt[m] \in (ProfAt[Min(focus)] - ProfWindow)..(ProfAt[Max(focus)] + ProfWindow)}
  IN focus \cup ProfFirst(ProfBatch - Cardinality(focus), near)

ProfStart == pfWork.phase = "off" /\ pfWork' = [pfWork EXCEPT !.phase = "idle"]
             /\ UNCHANGED <<pfNow, pfObs, pfClaim, pfPortrait, pfBarred>>
\* claim_observations, and what is known of the members the batch is about.
ProfTake ==
  /\ pfWork.phase = "idle" /\ ProfDue # {}
  /\ pfObs' = [m \in ProfMessages |->
                 IF m \in ProfClaimed
                 THEN [pfObs[m] EXCEPT !.status = "processing", !.attempt = Min({@ + 1, Len(ProfDelays)})]
                 ELSE pfObs[m]]
  /\ pfWork' = [phase |-> "calling", batch |-> ProfClaimed,
                known |-> [c \in ProfFacts |-> IF pfClaim[c].of \in {ProfAuthor[m] : m \in ProfClaimed}
                                               THEN pfClaim[c].of ELSE ProfNobody]]
  /\ UNCHANGED <<pfNow, pfClaim, pfPortrait, pfBarred>>

----------------------------------------------------------------------------
(* The answer.                                                             *)
ProfDecide(c, e, sure) == IF Cardinality(e) >= ProfNeeds[c] /\ sure THEN "confirmed" ELSE "proposed"
ProfReinforced_open(c, e, sure, who) ==
  LET old == pfClaim[c] IN [old EXCEPT !.evidence = @ \cup e, !.sure = @ \/ sure, !.of = who,
                                       !.status = ProfDecide(c, old.evidence \cup e, old.sure \/ sure)]
\* A closed claim stays closed and a confirmed one confirmed; the others are judged on all that
\* was ever said for them.
ProfReinforced(c, e, sure, who) ==
  LET old == pfClaim[c]
      all == old.evidence \cup e
      best == old.sure \/ sure
  IN [old EXCEPT !.evidence = all, !.sure = best, !.of = who,
        !.status = IF old.status \in ProfClosed \cup {"confirmed"} THEN old.status ELSE ProfDecide(c, all, best)]
\* The member the model names: the one the words were first about (the identifier is derived from
\* them), or the one it was told the fact is about.
ProfNamed(c) == {ProfSubject[c]} \cup (IF c \in ProfFacts THEN {pfWork.known[c]} ELSE {})
\* A claim that was moved to another account since: the merge of the two refuses.
ProfMisplaced(c, who) == pfClaim[c].of \notin {ProfNobody, who}
ProfStaled(c) == [pfClaim[c] EXCEPT !.status = "stale"]

ProfShown(claims, a) == {c \in ProfClaims : claims[c].of = a /\ claims[c].status = "confirmed"}
ProfRevision == Max({ProfAt[m] : m \in pfWork.batch})
ProfNewer(a) == pfPortrait[a].revision <= ProfRevision
\* Only the members of the claims the model made are drawn again, not those of the facts it
\* declared stale.
ProfDrawn(claims, who) ==
  [a \in ProfMembers |-> IF a \in who /\ ProfNewer(a)
                         THEN [revision |-> ProfRevision, shows |-> ProfShown(claims, a)] ELSE pfPortrait[a]]

ProfPut(s) == pfObs' = [m \in ProfMessages |-> IF m \in pfWork.batch THEN [pfObs[m] EXCEPT !.status = s] ELSE pfObs[m]]
ProfPostpone(delay) ==
  pfObs' = [m \in ProfMessages |-> IF m \in pfWork.batch
              THEN [pfObs[m] EXCEPT !.status = "retry", !.due = pfNow + delay] ELSE pfObs[m]]
ProfIdle == pfWork' = [ProfResting EXCEPT !.phase = "idle"]

\* A model error waits longer each time.
ProfRefused ==
  /\ pfWork.phase = "calling" /\ ProfIdle
  /\ ProfPostpone(ProfDelays[Max({pfObs[m].attempt : m \in pfWork.batch})])
  /\ UNCHANGED <<pfNow, pfClaim, pfPortrait, pfBarred>>
\* An unusable answer, or one whose only candidate cites a message outside the batch; an empty one.
ProfNothing ==
  /\ pfWork.phase = "calling" /\ ProfIdle /\ (ProfPut("discarded") \/ ProfPut("completed"))
  /\ UNCHANGED <<pfNow, pfClaim, pfPortrait, pfBarred>>
\* One claim at most or one stale fact (a bound: an answer may hold several), each its own
\* transaction; an error after it leaves it and has the batch done again, a stop leaves the batch.
ProfEnds(done) ==
  \/ ProfPostpone(ProfDelays[1]) /\ ProfIdle /\ UNCHANGED pfPortrait
  \/ ProfPut("completed") /\ ProfIdle /\ pfPortrait' = done
  \/ pfWork' = ProfResting /\ UNCHANGED <<pfObs, pfPortrait>>
ProfSays(c, e, sure, who) ==
  /\ pfWork.phase = "calling" /\ e \subseteq pfWork.batch /\ e # {}
  /\ who \in ProfNamed(c) /\ who \in {ProfAuthor[m] : m \in pfWork.batch}
  /\ LET made == [pfClaim EXCEPT ![c] = ProfReinforced(c, e, sure, who)] IN
     \/ ProfMisplaced(c, who) /\ ProfPostpone(ProfDelays[1]) /\ ProfIdle /\ UNCHANGED <<pfClaim, pfPortrait>>
     \/ ~ProfMisplaced(c, who) /\ pfClaim' = made /\ ProfEnds(ProfDrawn(made, {who}))
  /\ UNCHANGED <<pfNow, pfBarred>>
ProfSaysStale(c) ==
  /\ pfWork.phase = "calling" /\ pfWork.known[c] # ProfNobody
  /\ pfClaim' = [pfClaim EXCEPT ![c] = ProfStaled(c)] /\ ProfEnds(pfPortrait)
  /\ UNCHANGED <<pfNow, pfBarred>>
\* close, or the process ends: what was being processed stays so.
ProfStop == pfWork.phase # "off" /\ pfWork' = ProfResting
            /\ UNCHANGED <<pfNow, pfObs, pfClaim, pfPortrait, pfBarred>>

----------------------------------------------------------------------------
(* Administrators (commands.py).                                           *)
\* Each fact once: doing it again changes nothing but the revision.
ProfStands(c) == c \in ProfFacts /\ pfClaim[c].status # "none" /\ c \notin pfBarred
\* The revision is what the administrator must have read of the member: it goes up by one, so that
\* a second command made from the same reading is refused. A batch whose last message is older than
\* that does not draw the portrait again.
ProfAdvanced(a, shows) ==
  pfPortrait' = IF pfPortrait[a].revision = -1 THEN pfPortrait
                ELSE [pfPortrait EXCEPT ![a] = [revision |-> @.revision + 1, shows |-> shows]]
ProfBar(c, as, shows) ==
  /\ ProfStands(c) /\ pfBarred' = pfBarred \cup {c}
  /\ pfClaim' = [pfClaim EXCEPT ![c].status = as]
  /\ ProfAdvanced(pfClaim[c].of, shows) /\ UNCHANGED <<pfNow, pfObs, pfWork>>
\* A rejected fact's words stay in the portrait.
ProfReject(c) == ProfBar(c, "rejected", pfPortrait[pfClaim[c].of].shows)
\* The words of a corrected one are replaced there.
ProfCorrect(c) == ProfBar(c, "superseded", pfPortrait[pfClaim[c].of].shows \ {c})
\* Merging two accounts moves the claims; the portrait of the one that goes is deleted. Merging when
\* there is nothing to move is left out.
ProfMerge(a, b) ==
  /\ \E c \in ProfFacts : pfClaim[c].of = a
  /\ pfClaim' = [c \in ProfClaims |-> IF pfClaim[c].of = a THEN [pfClaim[c] EXCEPT !.of = b] ELSE pfClaim[c]]
  /\ pfPortrait' = [m \in ProfMembers |-> CASE m = a -> ProfUndrawn
                                           [] m = b /\ m # a /\ pfPortrait[m].revision # -1 -> [pfPortrait[m] EXCEPT !.revision = @ + 1]
                                           [] OTHER -> pfPortrait[m]]
  /\ UNCHANGED <<pfNow, pfObs, pfWork, pfBarred>>

ProfNext ==
  \/ ProfTick \/ ProfStart \/ ProfTake \/ ProfRefused \/ ProfNothing \/ ProfStop
  \/ \E m \in ProfMessages : ProfObserve(m)
  \/ \E c \in ProfClaims, e \in SUBSET pfWork.batch, sure \in BOOLEAN : \E who \in ProfNamed(c) : ProfSays(c, e, sure, who)
  \/ \E c \in ProfFacts : ProfSaysStale(c) \/ ProfReject(c) \/ ProfCorrect(c)
  \/ \E p \in ProfMerges : ProfMerge(p[1], p[2])

ProfSpec == ProfInit /\ [][ProfNext]_pfVars

----------------------------------------------------------------------------
ProfObservation == [status : {"absent", "pending", "processing", "retry", "completed", "discarded"}, attempt : 0..Len(ProfDelays), due : Nat]
ProfClaim == [status : ProfClosed \cup {"none", "proposed", "confirmed"}, evidence : SUBSET ProfMessages, sure : BOOLEAN,
              of : ProfMembers \cup {ProfNobody}]
ProfWork == [phase : {"off", "idle", "calling"}, batch : SUBSET ProfMessages, known : [ProfFacts -> ProfMembers \cup {ProfNobody}]]
ProfPortrait == [revision : Int, shows : SUBSET ProfClaims]
ProfTypeOK ==
  /\ pfNow \in Nat /\ pfBarred \subseteq ProfFacts
  /\ pfObs \in [ProfMessages -> ProfObservation]
  /\ pfWork \in ProfWork
  /\ pfClaim \in [ProfClaims -> ProfClaim]
  /\ pfPortrait \in [ProfMembers -> ProfPortrait]

\* What an administrator corrected or rejected never counts as confirmed again, whatever the model
\* repeats, a batch that was with the model at that moment included; and a confirmed claim rests on
\* as many distinct messages, all of them observed, as its kind asks for, a retried batch included.
ProfLearnsHonestly ==
  /\ \A c \in pfBarred : pfClaim[c].status \in ProfClosed
  /\ \A c \in ProfClaims : pfClaim[c].status = "confirmed" =>
        /\ Cardinality(pfClaim[c].evidence) >= ProfNeeds[c]
        /\ \A m \in pfClaim[c].evidence : pfObs[m].status # "absent"

\* A rejected fact stops being told to the model that replies: neither as a fact nor in the portrait
\* (retrieval.py for_message).
ProfRejectedIsUntold == \A a \in ProfMembers : pfPortrait[a].shows \cap pfBarred = {}
=============================================================================
