--------------------------- MODULE MemberProofs ----------------------------
(***************************************************************************)
(* Theorems about what is kept of the members and shown to them: profiles, *)
(* ways of speaking, relationships and stickers.                           *)
(***************************************************************************)
EXTENDS Profiles, MemberStyle, Relations, Stickers, FiniteSetTheorems, SequenceTheorems,
        NaturalsInduction, WellFoundedInduction, TLAPS

----------------------------------------------------------------------------
(***************************************************************************)
(* Theorems about what is learnt of the members, for any messages, claims  *)
(* and sizes.                                                              *)
(***************************************************************************)

(***************************************************************************)
(* The inductive invariant.  A batch is of observed messages, each counted *)
(* as tried; a claim rests on observed messages and, once it is there, is  *)
(* about somebody; what the model was told of is about somebody still.     *)
(***************************************************************************)
ProfObserved == {m \in ProfMessages : pfObs[m].status # "absent"}
ProfQueueSound == pfNow \in Nat /\ pfObs \in [ProfMessages -> ProfObservation] /\ IsFiniteSet(ProfObserved)
                  /\ \A m \in ProfObserved : ProfAt[m] <= pfNow
ProfBatchSound(observed) ==
  /\ pfWork \in ProfWork /\ pfWork.batch \subseteq observed
  /\ pfWork.phase = "calling" => pfWork.batch # {} /\ \A m \in pfWork.batch : pfObs[m].attempt > 0
ProfKnownSound == \A c \in ProfFacts : pfWork.known[c] # ProfNobody => pfClaim[c].of \in ProfMembers
ProfSupported(claim, needs, observed) ==
  /\ claim.evidence \subseteq observed
  /\ claim.status # "none" => claim.of \in ProfMembers
  /\ claim.status = "confirmed" => Cardinality(claim.evidence) >= needs
ProfClaimsSound(observed) ==
  /\ pfClaim \in [ProfClaims -> ProfClaim] /\ pfPortrait \in [ProfMembers -> ProfPortrait] /\ pfBarred \subseteq ProfFacts
  /\ \A c \in ProfClaims : ProfSupported(pfClaim[c], ProfNeeds[c], observed)
  /\ \A c \in pfBarred : pfClaim[c].status \in ProfClosed
ProfInductive == ProfQueueSound /\ ProfBatchSound(ProfObserved) /\ ProfKnownSound /\ ProfClaimsSound(ProfObserved)

(***************************************************************************)
(* The least and the greatest of a set of numbers.                         *)
(***************************************************************************)
LEMMA MemberLeast ==
  ASSUME NEW S \in SUBSET Nat, S # {}
  PROVE  Min(S) \in S /\ \A m \in S : Min(S) <= m
<1>1. PICK n \in S : \A m \in S : ~(<<m, n>> \in OpToRel(<, Nat))
  BY NatLessThanWellFounded, WFMin
<1>2. \A m \in S : ~(m < n)
  BY <1>1 DEF OpToRel
<1>3. \A m \in S : n <= m
  BY <1>2
<1> QED
  BY <1>3 DEF Min

LEMMA MemberGreatest ==
  ASSUME NEW S \in SUBSET Nat, S # {}, NEW n \in Nat, \A m \in S : m <= n
  PROVE  Max(S) \in S /\ \A m \in S : m <= Max(S)
<1> DEFINE T == {n - m : m \in S}
<1>1. \A m \in S : m \in Nat /\ m <= n
  OBVIOUS
<1>2. \A m \in S : n - m \in Nat /\ n - m \in T
  BY <1>1
<1>3. T \in SUBSET Nat
  BY <1>2
<1>4. T # {}
  <2>1. PICK m \in S : TRUE
    OBVIOUS
  <2> QED
    BY <2>1, <1>2
<1>5. Min(T) \in T /\ \A t \in T : Min(T) <= t
  <2> HIDE DEF T
  <2> QED
    BY <1>3, <1>4, MemberLeast
<1>6. PICK x \in S : Min(T) = n - x
  BY <1>5
<1>7. \A m \in S : n - x <= n - m
  BY <1>2, <1>5, <1>6
<1> HIDE DEF T
<1>8. ASSUME NEW m \in S PROVE m <= x
  <2>1. n - x <= n - m
    BY <1>7
  <2>2. m \in Nat /\ x \in Nat
    BY <1>1
  <2> QED
    BY <2>1, <2>2
<1>9. \A m \in S : x >= m
  <2> TAKE m \in S
  <2>1. m <= x /\ m \in Nat /\ x \in Nat
    BY <1>1, <1>8
  <2> QED
    BY <2>1
<1>10. Max(S) \in S /\ \A m \in S : Max(S) >= m
  BY <1>9 DEF Max
<1>11. \A m \in S : m <= Max(S)
  <2> TAKE m \in S
  <2>1. Max(S) \in Nat /\ m \in Nat /\ Max(S) >= m
    BY <1>1, <1>10
  <2> QED
    BY <2>1
<1> QED
  BY <1>10, <1>11

(***************************************************************************)
(* The queue.                                                              *)
(***************************************************************************)
LEMMA ProfNumbers ==
  /\ ProfMessages \subseteq Nat /\ ProfAt \in [ProfMessages -> Nat] /\ ProfNeeds \in [ProfClaims -> Nat \ {0}]
  /\ ProfDelays \in Seq(Nat) /\ Len(ProfDelays) \in Nat \ {0} /\ \A i \in 1 .. Len(ProfDelays) : ProfDelays[i] \in Nat
<1>1. ProfDelays \in Seq(Nat) /\ ProfDelays # <<>>
  BY ProfConstants
<1>2. Len(ProfDelays) \in Nat \ {0} /\ \A i \in 1 .. Len(ProfDelays) : ProfDelays[i] \in Nat
  BY <1>1
<1> QED
  BY <1>1, <1>2, ProfConstants

\* A row that moves on stays one that was observed.
LEMMA ProfQueueMoves ==
  ASSUME ProfQueueSound, pfNow' = pfNow, pfObs' \in [ProfMessages -> ProfObservation],
         \A m \in ProfMessages : pfObs'[m].status = "absent" <=> pfObs[m].status = "absent"
  PROVE  ProfQueueSound' /\ ProfObserved' = ProfObserved
<1>1. ProfObserved' = ProfObserved
  BY DEF ProfObserved
<1> QED
  BY <1>1 DEF ProfQueueSound

LEMMA ProfStill ==
  ASSUME ProfQueueSound, UNCHANGED <<pfNow, pfObs>> PROVE ProfQueueSound' /\ ProfObserved' = ProfObserved
BY DEF ProfQueueSound, ProfObserved

LEMMA ProfAtRest ==
  ASSUME NEW observed, \/ pfWork' = ProfResting
                       \/ pfWork' = [ProfResting EXCEPT !.phase = "idle"]
  PROVE  ProfBatchSound(observed)' /\ ProfKnownSound'
<1>1. pfWork' \in ProfWork /\ pfWork'.batch = {} /\ pfWork'.phase # "calling" /\ \A c \in ProfFacts : pfWork'.known[c] = ProfNobody
  BY DEF ProfResting, ProfUnknown, ProfWork
<1> QED
  BY <1>1 DEF ProfBatchSound, ProfKnownSound

\* A batch that is put away or put off.
LEMMA ProfPuts ==
  ASSUME ProfQueueSound, ProfBatchSound(ProfObserved), pfNow' = pfNow, NEW s \in {"completed", "discarded"}, ProfPut(s)
  PROVE  ProfQueueSound' /\ ProfObserved' = ProfObserved
<1>1. pfObs' \in [ProfMessages -> ProfObservation]
  BY DEF ProfQueueSound, ProfPut, ProfObservation
<1>2. \A m \in ProfMessages : pfObs'[m].status = "absent" <=> pfObs[m].status = "absent"
  BY DEF ProfQueueSound, ProfPut, ProfObservation, ProfBatchSound, ProfObserved
<1> QED
  BY <1>1, <1>2, ProfQueueMoves

LEMMA ProfPostpones ==
  ASSUME ProfQueueSound, ProfBatchSound(ProfObserved), pfNow' = pfNow, NEW delay \in Nat, ProfPostpone(delay)
  PROVE  ProfQueueSound' /\ ProfObserved' = ProfObserved
<1>1. PICK due \in Nat : due = pfNow + delay
  BY DEF ProfQueueSound
<1>2. pfObs' = [m \in ProfMessages |-> IF m \in pfWork.batch THEN [pfObs[m] EXCEPT !.status = "retry", !.due = due] ELSE pfObs[m]]
  BY <1>1 DEF ProfPostpone
<1>3. pfObs' \in [ProfMessages -> ProfObservation]
  BY <1>2 DEF ProfQueueSound, ProfObservation
<1>4. \A m \in ProfMessages : pfObs'[m].status = "absent" <=> pfObs[m].status = "absent"
  BY <1>2 DEF ProfQueueSound, ProfObservation, ProfBatchSound, ProfObserved
<1> QED
  BY <1>3, <1>4, ProfQueueMoves

\* The delay of the attempt is one the settings have.
LEMMA ProfDelay ==
  ASSUME ProfQueueSound, ProfBatchSound(ProfObserved), pfWork.phase = "calling"
  PROVE  ProfDelays[Max({pfObs[m].attempt : m \in pfWork.batch})] \in Nat
<1> DEFINE attempts == {pfObs[m].attempt : m \in pfWork.batch}
<1>1. pfWork.batch \subseteq ProfMessages /\ pfWork.batch # {} /\ \A m \in pfWork.batch : pfObs[m].attempt > 0
  BY DEF ProfBatchSound, ProfWork
<1>2. ASSUME NEW m \in pfWork.batch PROVE pfObs[m].attempt \in 1 .. Len(ProfDelays)
  <2>1. m \in ProfMessages /\ pfObs[m].attempt > 0
    BY <1>1
  <2>2. pfObs[m] \in ProfObservation
    BY <2>1 DEF ProfQueueSound
  <2>3. pfObs[m].attempt \in 0 .. Len(ProfDelays) /\ Len(ProfDelays) \in Nat
    BY <2>2, ProfNumbers DEF ProfObservation
  <2> QED
    BY <2>1, <2>3
<1>3. attempts \subseteq 1 .. Len(ProfDelays) /\ attempts # {}
  BY <1>1, <1>2
<1> HIDE DEF attempts
<1>4. Max(attempts) \in attempts
  <2>1. attempts \in SUBSET Nat /\ Len(ProfDelays) \in Nat /\ \A i \in attempts : i <= Len(ProfDelays)
    BY <1>3, ProfNumbers
  <2> QED
    BY <2>1, <1>3, MemberGreatest
<1> QED
  BY <1>3, <1>4, ProfNumbers DEF attempts

\* The revision of a portrait is the time of a message.
LEMMA ProfRevisionIsTime ==
  ASSUME ProfQueueSound, ProfBatchSound(ProfObserved), pfWork.phase = "calling"
  PROVE  ProfRevision \in Nat
<1> DEFINE times == {ProfAt[m] : m \in pfWork.batch}
<1>1. pfWork.batch \subseteq ProfObserved /\ pfWork.batch # {} /\ pfWork.batch \subseteq ProfMessages
  BY DEF ProfBatchSound, ProfWork
<1>2. \A m \in pfWork.batch : ProfAt[m] \in Nat /\ ProfAt[m] <= pfNow
  BY <1>1, ProfNumbers DEF ProfQueueSound
<1>3. times \in SUBSET Nat /\ times # {} /\ \A t \in times : t <= pfNow
  BY <1>1, <1>2
<1> HIDE DEF times
<1>4. Max(times) \in times
  BY <1>3, MemberGreatest DEF ProfQueueSound
<1> QED
  BY <1>3, <1>4 DEF times, ProfRevision

(***************************************************************************)
(* The steps of the queue and the worker.                                  *)
(***************************************************************************)
LEMMA ProfStarts == ASSUME ProfInit PROVE ProfInductive
<1>1. ProfObserved = {}
  BY DEF ProfInit, ProfObserved
<1>2. ProfQueueSound
  BY <1>1, FS_EmptySet, ProfNumbers DEF ProfInit, ProfQueueSound, ProfObservation
<1>3. pfWork \in ProfWork /\ pfWork.batch = {} /\ pfWork.phase # "calling" /\ \A c \in ProfFacts : pfWork.known[c] = ProfNobody
  BY DEF ProfInit, ProfResting, ProfUnknown, ProfWork
<1>4. ProfClaimsSound(ProfObserved)
  <2>1. ProfNoClaim \in ProfClaim /\ ProfNoClaim.status = "none" /\ ProfNoClaim.evidence = {}
    BY DEF ProfNoClaim, ProfClaim
  <2>2. pfPortrait \in [ProfMembers -> ProfPortrait]
    <3>1. ProfUndrawn \in ProfPortrait
      BY DEF ProfPortrait, ProfUndrawn
    <3> QED
      BY <3>1 DEF ProfInit
  <2>3. pfClaim \in [ProfClaims -> ProfClaim] /\ pfBarred = {} /\ \A c \in ProfClaims : pfClaim[c] = ProfNoClaim
    BY <2>1 DEF ProfInit
  <2> QED
    BY <2>1, <2>2, <2>3 DEF ProfClaimsSound, ProfSupported
<1> QED
  BY <1>2, <1>3, <1>4 DEF ProfInductive, ProfBatchSound, ProfKnownSound

\* More is observed: what rested on observed messages still does.
LEMMA ProfObserves ==
  ASSUME ProfInductive, NEW m \in ProfMessages, ProfObserve(m) PROVE ProfInductive'
<1>1. UNCHANGED <<pfNow, pfWork, pfClaim, pfPortrait, pfBarred>> /\ pfNow >= ProfAt[m] /\ pfObs[m].status = "absent"
      /\ pfObs' = [pfObs EXCEPT ![m].status = "pending"] /\ pfObs \in [ProfMessages -> ProfObservation]
  BY DEF ProfObserve, ProfInductive, ProfQueueSound
<1>2. pfObs' \in [ProfMessages -> ProfObservation] /\ pfObs'[m].status = "pending" /\ \A n \in ProfMessages \ {m} : pfObs'[n] = pfObs[n]
  BY <1>1 DEF ProfObservation
<1>3. ProfObserved' = ProfObserved \cup {m} /\ m \notin ProfObserved
  BY <1>1, <1>2 DEF ProfObserved
<1>4. ProfQueueSound'
  <2>1. IsFiniteSet(ProfObserved \cup {m})
    BY FS_AddElement DEF ProfInductive, ProfQueueSound
  <2>2. \A n \in ProfObserved \cup {m} : ProfAt[n] <= pfNow
    BY <1>1, ProfNumbers DEF ProfInductive, ProfQueueSound
  <2> QED
    BY <2>1, <2>2, <1>1, <1>2, <1>3 DEF ProfInductive, ProfQueueSound
<1>5. ProfBatchSound(ProfObserved)' /\ ProfKnownSound'
  <2>1. pfWork.batch \subseteq ProfObserved /\ m \notin pfWork.batch /\ pfWork.batch \subseteq ProfMessages
    BY <1>3 DEF ProfInductive, ProfBatchSound, ProfWork
  <2> QED
    BY <2>1, <1>1, <1>2, <1>3 DEF ProfInductive, ProfBatchSound, ProfKnownSound
<1>6. ProfClaimsSound(ProfObserved)'
  BY <1>1, <1>3 DEF ProfInductive, ProfClaimsSound, ProfSupported
<1> QED
  BY <1>4, <1>5, <1>6 DEF ProfInductive

\* What the worker may take is due, and not nothing.
LEMMA ProfClaimedIsDue ==
  ASSUME ProfQueueSound, ProfDue # {} PROVE ProfClaimed \subseteq ProfDue /\ ProfClaimed # {} /\ ProfDue \subseteq ProfObserved
<1>1. ProfDue \in SUBSET Nat /\ ProfDue \subseteq ProfMessages /\ ProfDue \subseteq ProfObserved
  BY ProfNumbers DEF ProfDue, ProfObserved
<1>2. PICK first : first = Min(ProfDue)
  OBVIOUS
<1>3. first \in ProfDue
  BY <1>1, <1>2, MemberLeast
<1>4. PICK own, focus, near : /\ own = {m \in ProfDue : ProfAuthor[m] = ProfAuthor[first]} /\ focus = ProfFirst(ProfFocus, own)
                              /\ near = {m \in ProfDue : /\ ProfAuthor[m] # ProfAuthor[first]
                                                         /\ ProfAt[m] \in (ProfAt[Min(focus)] - ProfWindow)..(ProfAt[Max(focus)] + ProfWindow)}
  OBVIOUS
<1>5. ProfClaimed = focus \cup ProfFirst(ProfBatch - Cardinality(focus), near)
  BY <1>2, <1>4 DEF ProfClaimed
<1>6. first \in own /\ own \in SUBSET Nat
  BY <1>1, <1>3, <1>4
<1>7. first \in focus
  <2>1. {n \in own : n < first} = {}
    <3>1. \A n \in own : first <= n /\ n \in Nat /\ first \in Nat
      BY <1>1, <1>2, <1>3, <1>4, MemberLeast
    <3>2. \A n \in own : ~(n < first)
      BY <3>1
    <3> QED
      BY <3>2
  <2>2. Cardinality({n \in own : n < first}) < ProfFocus
    <3>1. 0 < ProfFocus
      BY ProfConstants
    <3> QED
      BY <2>1, <3>1, FS_EmptySet
  <2> QED
    BY <2>2, <1>4, <1>6 DEF ProfFirst
<1>8. ProfClaimed \subseteq ProfDue
  BY <1>4, <1>5 DEF ProfFirst
<1> QED
  BY <1>1, <1>5, <1>7, <1>8

LEMMA ProfTakes ==
  ASSUME ProfInductive, ProfTake PROVE ProfInductive'
<1>1. ProfQueueSound /\ ProfClaimsSound(ProfObserved) /\ UNCHANGED <<pfNow, pfClaim, pfPortrait, pfBarred>>
  BY DEF ProfInductive, ProfTake
<1>2. PICK claimed : claimed = ProfClaimed
  OBVIOUS
<1>3. claimed \subseteq ProfObserved /\ claimed # {} /\ claimed \subseteq ProfMessages
  BY <1>1, <1>2, ProfClaimedIsDue DEF ProfTake, ProfObserved
<1>4. PICK tried : tried = [m \in ProfMessages |-> Min({pfObs[m].attempt + 1, Len(ProfDelays)})]
  OBVIOUS
<1>5. tried \in [ProfMessages -> 1 .. Len(ProfDelays)]
  <2>1. ASSUME NEW m \in ProfMessages PROVE Min({pfObs[m].attempt + 1, Len(ProfDelays)}) \in 1 .. Len(ProfDelays)
    <3>1. PICK n, k : n = pfObs[m].attempt + 1 /\ k = Len(ProfDelays)
      OBVIOUS
    <3>2. n \in Nat \ {0} /\ k \in Nat \ {0}
      <4>1. pfObs[m].attempt \in 0 .. Len(ProfDelays)
        BY <1>1 DEF ProfQueueSound, ProfObservation
      <4> QED
        BY <3>1, <4>1, ProfNumbers
    <3>3. {n, k} \in SUBSET Nat /\ {n, k} # {}
      BY <3>2
    <3>4. Min({n, k}) \in {n, k} /\ \A i \in {n, k} : Min({n, k}) <= i
      BY <3>3, MemberLeast
    <3>5. Min({n, k}) <= k /\ Min({n, k}) \in Nat \ {0}
      BY <3>2, <3>4
    <3>6. Min({n, k}) \in 1 .. k
      BY <3>2, <3>5
    <3> QED
      BY <3>1, <3>6
  <2> QED
    BY <2>1, <1>4
<1>6. pfObs' = [m \in ProfMessages |-> IF m \in claimed THEN [pfObs[m] EXCEPT !.status = "processing", !.attempt = tried[m]] ELSE pfObs[m]]
  BY <1>2, <1>4 DEF ProfTake
<1>7. pfObs' \in [ProfMessages -> ProfObservation]
  <2>1. ASSUME NEW m \in ProfMessages PROVE [pfObs[m] EXCEPT !.status = "processing", !.attempt = tried[m]] \in ProfObservation
    <3>1. pfObs[m] \in ProfObservation /\ tried[m] \in 0 .. Len(ProfDelays)
      BY <1>1, <1>5, ProfNumbers DEF ProfQueueSound
    <3> QED
      BY <3>1 DEF ProfObservation
  <2>2. ASSUME NEW m \in ProfMessages PROVE pfObs'[m] \in ProfObservation
    BY <2>1, <1>1, <1>6 DEF ProfQueueSound
  <2> QED
    BY <2>2, <1>6
<1>8. \A m \in claimed : pfObs'[m].status = "processing" /\ pfObs'[m].attempt > 0
  <2> SUFFICES ASSUME NEW m \in claimed PROVE pfObs'[m].status = "processing" /\ pfObs'[m].attempt > 0
    OBVIOUS
  <2>1. m \in ProfMessages /\ pfObs[m] \in ProfObservation /\ tried[m] > 0
    BY <1>1, <1>3, <1>5, ProfNumbers DEF ProfQueueSound
  <2> QED
    BY <2>1, <1>6 DEF ProfObservation
<1>9. \A m \in ProfMessages : pfObs'[m].status = "absent" <=> pfObs[m].status = "absent"
  BY <1>3, <1>6, <1>8 DEF ProfObserved
<1>10. ProfQueueSound' /\ ProfObserved' = ProfObserved
  BY <1>1, <1>7, <1>9, ProfQueueMoves
<1>11. PICK known : known = [c \in ProfFacts |-> IF pfClaim[c].of \in {ProfAuthor[m] : m \in claimed} THEN pfClaim[c].of ELSE ProfNobody]
  OBVIOUS
<1>12. known \in [ProfFacts -> ProfMembers \cup {ProfNobody}] /\ \A c \in ProfFacts : known[c] # ProfNobody => pfClaim[c].of \in ProfMembers
  BY <1>3, <1>11 DEF ProfMembers
<1>13. pfWork' = [phase |-> "calling", batch |-> claimed, known |-> known]
  BY <1>2, <1>11 DEF ProfTake
<1>14. ProfBatchSound(ProfObserved)' /\ ProfKnownSound'
  <2>1. pfWork' \in ProfWork /\ pfWork'.batch = claimed /\ pfWork'.known = known
    BY <1>3, <1>12, <1>13 DEF ProfWork
  <2> QED
    BY <2>1, <1>1, <1>3, <1>8, <1>10, <1>12 DEF ProfBatchSound, ProfKnownSound
<1>15. ProfClaimsSound(ProfObserved)'
  BY <1>1, <1>10 DEF ProfClaimsSound
<1> QED
  BY <1>10, <1>14, <1>15 DEF ProfInductive

\* The steps that leave the claims alone.
LEMMA ProfRests ==
  ASSUME ProfInductive, ProfTick \/ ProfStart \/ ProfRefused \/ ProfNothing \/ ProfStop PROVE ProfInductive'
<1>1. ProfQueueSound /\ ProfBatchSound(ProfObserved) /\ ProfKnownSound /\ ProfClaimsSound(ProfObserved) /\ UNCHANGED <<pfClaim, pfPortrait, pfBarred>>
  BY DEF ProfInductive, ProfTick, ProfStart, ProfRefused, ProfNothing, ProfStop
<1>2. ProfQueueSound' /\ ProfObserved' = ProfObserved /\ ProfBatchSound(ProfObserved)' /\ ProfKnownSound'
  <2>1. CASE ProfTick
    <3>1. ProfObserved' = ProfObserved /\ UNCHANGED <<pfObs, pfWork>> /\ pfNow' = pfNow + 1
      BY <2>1 DEF ProfTick, ProfObserved
    <3>2. pfNow' \in Nat /\ \A m \in ProfObserved : ProfAt[m] <= pfNow'
      <4>1. pfNow \in Nat /\ ProfObserved \subseteq ProfMessages
        BY <1>1 DEF ProfQueueSound, ProfObserved
      <4> QED
        BY <4>1, <3>1, <1>1, ProfNumbers DEF ProfQueueSound
    <3> QED
      BY <3>1, <3>2, <1>1 DEF ProfQueueSound, ProfBatchSound, ProfKnownSound
  <2>2. CASE ProfStart
    <3>1. ProfQueueSound' /\ ProfObserved' = ProfObserved /\ pfWork' = [pfWork EXCEPT !.phase = "idle"] /\ pfObs' = pfObs
      BY <2>2, <1>1, ProfStill DEF ProfStart
    <3>2. pfWork' \in ProfWork /\ pfWork'.batch = pfWork.batch /\ pfWork'.known = pfWork.known /\ pfWork'.phase # "calling"
      BY <3>1, <1>1 DEF ProfBatchSound, ProfWork
    <3> QED
      BY <3>1, <3>2, <1>1 DEF ProfBatchSound, ProfKnownSound
  <2>3. CASE ProfRefused
    <3>1. PICK delay : delay = ProfDelays[Max({pfObs[m].attempt : m \in pfWork.batch})]
      OBVIOUS
    <3>2. delay \in Nat /\ ProfPostpone(delay) /\ ProfIdle /\ pfNow' = pfNow
      BY <2>3, <3>1, <1>1, ProfDelay DEF ProfRefused
    <3> QED
      BY <3>2, <1>1, ProfPostpones, ProfAtRest DEF ProfIdle
  <2>4. CASE ProfNothing
    <3>1. (ProfPut("discarded") \/ ProfPut("completed")) /\ ProfIdle /\ pfNow' = pfNow
      BY <2>4 DEF ProfNothing
    <3> QED
      BY <3>1, <1>1, ProfPuts, ProfAtRest DEF ProfIdle
  <2>5. CASE ProfStop
    BY <2>5, <1>1, ProfStill, ProfAtRest DEF ProfStop
  <2> QED
    BY <2>1, <2>2, <2>3, <2>4, <2>5
<1>3. ProfClaimsSound(ProfObserved)'
  BY <1>1, <1>2 DEF ProfClaimsSound
<1> QED
  BY <1>2, <1>3 DEF ProfInductive

(***************************************************************************)
(* The answer.                                                             *)
(***************************************************************************)
LEMMA ProfIsEnded ==
  ASSUME ProfInductive, pfNow' = pfNow, NEW done, ProfEnds(done)
  PROVE  ProfQueueSound' /\ ProfObserved' = ProfObserved /\ ProfBatchSound(ProfObserved)' /\ ProfKnownSound' /\ pfPortrait' \in {pfPortrait, done}
<1>1. ProfQueueSound /\ ProfBatchSound(ProfObserved)
  BY DEF ProfInductive
<1>2. pfWork' = ProfResting \/ pfWork' = [ProfResting EXCEPT !.phase = "idle"]
  BY DEF ProfEnds, ProfIdle
<1>3. ProfBatchSound(ProfObserved)' /\ ProfKnownSound'
  BY <1>2, ProfAtRest
<1>4. ProfQueueSound' /\ ProfObserved' = ProfObserved
  <2>1. PICK delay : delay = ProfDelays[1]
    OBVIOUS
  <2>2. delay \in Nat
    BY <2>1, ProfNumbers
  <2>3. ProfPostpone(delay) \/ ProfPut("completed") \/ pfObs' = pfObs
    BY <2>1 DEF ProfEnds
  <2> QED
    BY <2>2, <2>3, <1>1, ProfPostpones, ProfPuts, ProfStill
<1> QED
  BY <1>3, <1>4 DEF ProfEnds

\* One more saying: a claim counts what was said for it before and now.
LEMMA ProfReinforcedIsSupported ==
  ASSUME NEW c \in ProfClaims, NEW e, NEW sure \in BOOLEAN, NEW who \in ProfMembers, NEW observed \in SUBSET ProfMessages, IsFiniteSet(observed),
         e \subseteq observed, pfClaim \in [ProfClaims -> ProfClaim], ProfSupported(pfClaim[c], ProfNeeds[c], observed),
         NEW new, new = ProfReinforced(c, e, sure, who)
  PROVE  new \in ProfClaim /\ ProfSupported(new, ProfNeeds[c], observed) /\ (pfClaim[c].status \in ProfClosed => new.status = pfClaim[c].status)
<1>1. PICK old, all, best : old = pfClaim[c] /\ all = old.evidence \cup e /\ best = (old.sure \/ sure)
  OBVIOUS
<1>2. old \in ProfClaim /\ ProfSupported(old, ProfNeeds[c], observed) /\ best \in BOOLEAN
  BY <1>1 DEF ProfClaim
<1>3. all \subseteq observed /\ all \in SUBSET ProfMessages /\ old.evidence \subseteq all
  BY <1>1, <1>2 DEF ProfSupported
<1>4. PICK status : status = IF old.status \in ProfClosed \cup {"confirmed"} THEN old.status ELSE ProfDecide(c, all, best)
  OBVIOUS
<1>5. new = [old EXCEPT !.evidence = all, !.sure = best, !.of = who, !.status = status]
  BY <1>1, <1>4 DEF ProfReinforced
<1>6. status \in ProfClosed \cup {"proposed", "confirmed"}
  BY <1>4 DEF ProfDecide
<1>7. new \in ProfClaim /\ new.evidence = all /\ new.of = who /\ new.status = status
  BY <1>2, <1>3, <1>5, <1>6 DEF ProfClaim
<1>8. status = "confirmed" => Cardinality(all) >= ProfNeeds[c]
  <2>1. CASE old.status = "confirmed"
    <3>1. Cardinality(old.evidence) >= ProfNeeds[c]
      BY <2>1, <1>2 DEF ProfSupported
    <3>2. IsFiniteSet(all) /\ all \in SUBSET observed
      BY <1>3, FS_Subset
    <3>3. IsFiniteSet(old.evidence) /\ Cardinality(old.evidence) <= Cardinality(all)
      BY <1>3, <3>2, FS_Subset
    <3>4. Cardinality(old.evidence) \in Nat /\ Cardinality(all) \in Nat /\ ProfNeeds[c] \in Nat
      BY <3>2, <3>3, FS_CardinalityType, ProfNumbers
    <3> QED
      BY <3>1, <3>3, <3>4
  <2>2. CASE old.status # "confirmed"
    BY <2>2, <1>4 DEF ProfDecide, ProfClosed
  <2> QED
    BY <2>1, <2>2
<1>9. ProfSupported(new, ProfNeeds[c], observed)
  BY <1>3, <1>7, <1>8 DEF ProfSupported
<1> QED
  BY <1>1, <1>4, <1>7, <1>9

LEMMA ProfDrawnIsPortrait ==
  ASSUME ProfQueueSound, ProfBatchSound(ProfObserved), pfWork.phase = "calling", pfPortrait \in [ProfMembers -> ProfPortrait], NEW claims, NEW who
  PROVE  ProfDrawn(claims, who) \in [ProfMembers -> ProfPortrait]
<1>1. PICK revision \in Nat : revision = ProfRevision
  BY ProfRevisionIsTime
<1>2. \A a \in ProfMembers : [revision |-> revision, shows |-> ProfShown(claims, a)] \in ProfPortrait
  BY DEF ProfShown, ProfPortrait
<1> QED
  BY <1>1, <1>2 DEF ProfDrawn

LEMMA ProfLearns ==
  ASSUME ProfInductive, NEW c \in ProfClaims, NEW e \in SUBSET pfWork.batch, NEW sure \in BOOLEAN, NEW who \in ProfNamed(c), ProfSays(c, e, sure, who)
  PROVE  ProfInductive'
<1>1. ProfQueueSound /\ ProfBatchSound(ProfObserved) /\ ProfKnownSound /\ ProfClaimsSound(ProfObserved)
  BY DEF ProfInductive
<1>2. pfWork.phase = "calling" /\ pfNow' = pfNow /\ pfBarred' = pfBarred /\ who \in {ProfAuthor[m] : m \in pfWork.batch}
  BY DEF ProfSays
<1>3. who \in ProfMembers /\ pfWork.batch \subseteq ProfObserved /\ ProfObserved \in SUBSET ProfMessages
  BY <1>1, <1>2 DEF ProfBatchSound, ProfObserved, ProfMembers
<1>4. PICK new, made : new = ProfReinforced(c, e, sure, who) /\ made = [pfClaim EXCEPT ![c] = new]
  OBVIOUS
<1>5. CASE UNCHANGED <<pfClaim, pfPortrait>> /\ ProfPostpone(ProfDelays[1]) /\ ProfIdle
  <2>1. PICK delay : delay = ProfDelays[1]
    OBVIOUS
  <2>2. delay \in Nat /\ ProfPostpone(delay)
    BY <2>1, <1>5, ProfNumbers
  <2>3. ProfQueueSound' /\ ProfObserved' = ProfObserved
    BY <2>2, <1>1, <1>2, ProfPostpones
  <2>4. ProfBatchSound(ProfObserved)' /\ ProfKnownSound'
    BY <1>5, ProfAtRest DEF ProfIdle
  <2>5. ProfClaimsSound(ProfObserved)'
    BY <2>3, <1>1, <1>2, <1>5 DEF ProfClaimsSound
  <2> QED
    BY <2>3, <2>4, <2>5 DEF ProfInductive
<1>6. CASE pfClaim' = made /\ ProfEnds(ProfDrawn(made, {who}))
  <2>1. PICK done : done = ProfDrawn(made, {who})
    OBVIOUS
  <2>2. done \in [ProfMembers -> ProfPortrait]
    BY <2>1, <1>1, <1>2, ProfDrawnIsPortrait DEF ProfClaimsSound
  <2>3. ProfQueueSound' /\ ProfObserved' = ProfObserved /\ ProfBatchSound(ProfObserved)' /\ ProfKnownSound' /\ pfPortrait' \in [ProfMembers -> ProfPortrait]
    BY <2>1, <2>2, <1>1, <1>2, <1>6, ProfIsEnded DEF ProfClaimsSound
  <2>4. new \in ProfClaim /\ ProfSupported(new, ProfNeeds[c], ProfObserved) /\ (pfClaim[c].status \in ProfClosed => new.status = pfClaim[c].status)
    <3>1. PICK observed : observed = ProfObserved
      OBVIOUS
    <3>2. observed \in SUBSET ProfMessages /\ IsFiniteSet(observed) /\ e \subseteq observed /\ ProfSupported(pfClaim[c], ProfNeeds[c], observed)
      BY <3>1, <1>1, <1>3 DEF ProfQueueSound, ProfClaimsSound
    <3> QED
      BY <3>1, <3>2, <1>1, <1>3, <1>4, ProfReinforcedIsSupported DEF ProfClaimsSound
  <2>5. pfClaim' \in [ProfClaims -> ProfClaim] /\ pfClaim'[c] = new /\ \A d \in ProfClaims \ {c} : pfClaim'[d] = pfClaim[d]
    BY <2>4, <1>1, <1>4, <1>6 DEF ProfClaimsSound
  <2>6. ProfClaimsSound(ProfObserved)'
    BY <2>3, <2>4, <2>5, <1>1, <1>2, ProfConstants DEF ProfClaimsSound
  <2> QED
    BY <2>3, <2>6 DEF ProfInductive
<1> QED
  BY <1>4, <1>5, <1>6 DEF ProfSays

LEMMA ProfForgets ==
  ASSUME ProfInductive, NEW c \in ProfFacts, ProfSaysStale(c) PROVE ProfInductive'
<1>1. ProfQueueSound /\ ProfBatchSound(ProfObserved) /\ ProfKnownSound /\ ProfClaimsSound(ProfObserved) /\ c \in ProfClaims
  BY ProfConstants DEF ProfInductive
<1>2. pfWork.known[c] # ProfNobody /\ pfNow' = pfNow /\ pfBarred' = pfBarred /\ pfClaim' = [pfClaim EXCEPT ![c] = ProfStaled(c)] /\ ProfEnds(pfPortrait)
  BY DEF ProfSaysStale
<1>3. ProfQueueSound' /\ ProfObserved' = ProfObserved /\ ProfBatchSound(ProfObserved)' /\ ProfKnownSound' /\ pfPortrait' = pfPortrait
  <2>1. PICK done : done = pfPortrait
    OBVIOUS
  <2> QED
    BY <2>1, <1>2, ProfIsEnded
<1>4. PICK new : new = ProfStaled(c)
  OBVIOUS
<1>5. new \in ProfClaim /\ new.status = "stale" /\ new.evidence = pfClaim[c].evidence /\ new.of = pfClaim[c].of
  BY <1>1, <1>4 DEF ProfStaled, ProfClaimsSound, ProfClaim, ProfClosed
<1>6. pfClaim' \in [ProfClaims -> ProfClaim] /\ pfClaim'[c] = new /\ \A d \in ProfClaims \ {c} : pfClaim'[d] = pfClaim[d]
  BY <1>1, <1>2, <1>4, <1>5 DEF ProfClaimsSound
<1>7. ProfSupported(new, ProfNeeds[c], ProfObserved) /\ new.status \in ProfClosed
  BY <1>1, <1>2, <1>5 DEF ProfClaimsSound, ProfSupported, ProfKnownSound, ProfClosed
<1>8. ProfClaimsSound(ProfObserved)'
  BY <1>1, <1>2, <1>3, <1>6, <1>7, ProfConstants DEF ProfClaimsSound
<1> QED
  BY <1>3, <1>8 DEF ProfInductive

(***************************************************************************)
(* Administrators.                                                         *)
(***************************************************************************)
LEMMA ProfBars ==
  ASSUME ProfInductive, NEW c \in ProfFacts, ProfReject(c) \/ ProfCorrect(c) PROVE ProfInductive'
<1>1. ProfQueueSound /\ ProfBatchSound(ProfObserved) /\ ProfKnownSound /\ ProfClaimsSound(ProfObserved) /\ c \in ProfClaims
  BY ProfConstants DEF ProfInductive
<1>20. PICK a : a = pfClaim[c].of
  OBVIOUS
<1>2. PICK as \in {"rejected", "superseded"}, shows \in {pfPortrait[a].shows, pfPortrait[a].shows \ {c}} :
        /\ a = pfClaim[c].of /\ (shows = pfPortrait[a].shows \/ shows = pfPortrait[a].shows \ {c}) /\ ProfBar(c, as, shows)
  BY <1>20 DEF ProfReject, ProfCorrect
<1>3. /\ ProfStands(c) /\ pfBarred' = pfBarred \cup {c} /\ pfClaim' = [pfClaim EXCEPT ![c].status = as] /\ UNCHANGED <<pfNow, pfObs, pfWork>>
      /\ pfPortrait' = IF pfPortrait[a].revision = -1 THEN pfPortrait
                       ELSE [pfPortrait EXCEPT ![a] = [revision |-> pfPortrait[a].revision + 1, shows |-> shows]]
  BY <1>2 DEF ProfBar, ProfAdvanced
<1>4. a \in ProfMembers
  BY <1>1, <1>2, <1>3 DEF ProfStands, ProfClaimsSound, ProfSupported
<1>5. pfPortrait' \in [ProfMembers -> ProfPortrait]
  <2>1. pfPortrait[a] \in ProfPortrait /\ pfPortrait \in [ProfMembers -> ProfPortrait]
    BY <1>1, <1>4 DEF ProfClaimsSound
  <2>2. PICK n : n = pfPortrait[a].revision + 1
    OBVIOUS
  <2>3. n \in Int /\ shows \in SUBSET ProfClaims
    BY <2>1, <2>2, <1>2 DEF ProfPortrait
  <2>4. [revision |-> n, shows |-> shows] \in ProfPortrait
    BY <2>3 DEF ProfPortrait
  <2> QED
    BY <2>1, <2>2, <2>4, <1>3
<1>6. PICK new : new = [pfClaim[c] EXCEPT !.status = as]
  OBVIOUS
<1>7. new \in ProfClaim /\ new.status = as /\ new.evidence = pfClaim[c].evidence /\ new.of = pfClaim[c].of
  BY <1>1, <1>6 DEF ProfClaimsSound, ProfClaim, ProfClosed
<1>8. pfClaim' \in [ProfClaims -> ProfClaim] /\ pfClaim'[c] = new /\ \A d \in ProfClaims \ {c} : pfClaim'[d] = pfClaim[d]
  <2>1. pfClaim' = [pfClaim EXCEPT ![c] = new] /\ pfClaim \in [ProfClaims -> ProfClaim]
    BY <1>1, <1>3, <1>6 DEF ProfClaimsSound
  <2> QED
    BY <2>1, <1>1, <1>7
<1>9. ProfSupported(new, ProfNeeds[c], ProfObserved) /\ new.status \in ProfClosed
  BY <1>1, <1>2, <1>4, <1>7 DEF ProfClaimsSound, ProfSupported, ProfClosed
<1>10. ProfQueueSound' /\ ProfObserved' = ProfObserved
  BY <1>1, <1>3, ProfStill
<1>11. ProfClaimsSound(ProfObserved)'
  BY <1>1, <1>3, <1>5, <1>8, <1>9, <1>10, ProfConstants DEF ProfClaimsSound
<1>12. ProfBatchSound(ProfObserved)' /\ ProfKnownSound'
  <2>1. \A d \in ProfFacts : pfClaim'[d].of = pfClaim[d].of
    BY <1>7, <1>8, ProfConstants
  <2> QED
    BY <2>1, <1>1, <1>3, <1>10 DEF ProfBatchSound, ProfKnownSound
<1> QED
  BY <1>10, <1>11, <1>12 DEF ProfInductive

LEMMA ProfMerged ==
  ASSUME ProfInductive, NEW p \in ProfMerges, ProfMerge(p[1], p[2]) PROVE ProfInductive'
<1>1. ProfQueueSound /\ ProfBatchSound(ProfObserved) /\ ProfKnownSound /\ ProfClaimsSound(ProfObserved)
  BY DEF ProfInductive
<1>2. PICK a \in ProfMembers, b \in ProfMembers : a = p[1] /\ b = p[2]
  BY ProfConstants
<1>3. /\ pfClaim' = [c \in ProfClaims |-> IF pfClaim[c].of = a THEN [pfClaim[c] EXCEPT !.of = b] ELSE pfClaim[c]]
      /\ UNCHANGED <<pfNow, pfObs, pfWork, pfBarred>>
  BY <1>2 DEF ProfMerge
<1>4. pfPortrait' \in [ProfMembers -> ProfPortrait]
  <2>1. ASSUME NEW m \in ProfMembers PROVE pfPortrait'[m] \in ProfPortrait
    <3>1. pfPortrait[m] \in ProfPortrait /\ ProfUndrawn \in ProfPortrait
      BY <1>1 DEF ProfClaimsSound, ProfPortrait, ProfUndrawn
    <3>2. [pfPortrait[m] EXCEPT !.revision = @ + 1] \in ProfPortrait
      BY <3>1 DEF ProfPortrait
    <3>3. pfPortrait'[m] \in {ProfUndrawn, [pfPortrait[m] EXCEPT !.revision = @ + 1], pfPortrait[m]}
      BY <1>2 DEF ProfMerge
    <3> QED
      BY <3>1, <3>2, <3>3
  <2>2. \E f : pfPortrait' = [m \in ProfMembers |-> f[m]]
    BY <1>2 DEF ProfMerge
  <2> QED
    BY <2>1, <2>2
<1>5. \A c \in ProfClaims : /\ pfClaim'[c] \in ProfClaim /\ pfClaim'[c].status = pfClaim[c].status /\ pfClaim'[c].evidence = pfClaim[c].evidence
                            /\ (pfClaim[c].of \in ProfMembers => pfClaim'[c].of \in ProfMembers)
  <2> SUFFICES ASSUME NEW c \in ProfClaims
               PROVE  /\ pfClaim'[c] \in ProfClaim /\ pfClaim'[c].status = pfClaim[c].status /\ pfClaim'[c].evidence = pfClaim[c].evidence
                      /\ (pfClaim[c].of \in ProfMembers => pfClaim'[c].of \in ProfMembers)
    OBVIOUS
  <2>1. pfClaim[c] \in ProfClaim
    BY <1>1 DEF ProfClaimsSound
  <2> QED
    BY <2>1, <1>3 DEF ProfClaim
<1>6. ProfQueueSound' /\ ProfObserved' = ProfObserved
  BY <1>1, <1>3, ProfStill
<1>7. ProfClaimsSound(ProfObserved)'
  <2>1. pfClaim' \in [ProfClaims -> ProfClaim]
    BY <1>3, <1>5
  <2>2. \A c \in ProfClaims : ProfSupported(pfClaim'[c], ProfNeeds[c], ProfObserved)
    BY <1>1, <1>5 DEF ProfClaimsSound, ProfSupported
  <2> QED
    BY <2>1, <2>2, <1>1, <1>3, <1>4, <1>5, <1>6, ProfConstants DEF ProfClaimsSound
<1>8. ProfBatchSound(ProfObserved)' /\ ProfKnownSound'
  BY <1>1, <1>3, <1>5, <1>6, ProfConstants DEF ProfBatchSound, ProfKnownSound
<1> QED
  BY <1>6, <1>7, <1>8 DEF ProfInductive

LEMMA ProfSteps ==
  ASSUME ProfInductive, [ProfNext]_pfVars PROVE ProfInductive'
<1>1. CASE UNCHANGED pfVars
  <2>1. ProfQueueSound' /\ ProfObserved' = ProfObserved
    BY <1>1, ProfStill DEF pfVars, ProfInductive
  <2> QED
    BY <2>1, <1>1 DEF pfVars, ProfInductive, ProfBatchSound, ProfKnownSound, ProfClaimsSound
<1>2. ASSUME NEW m \in ProfMessages, ProfObserve(m) PROVE ProfInductive'
  BY <1>2, ProfObserves
<1>3. ASSUME NEW c \in ProfClaims, NEW e \in SUBSET pfWork.batch, NEW sure \in BOOLEAN, NEW who \in ProfNamed(c), ProfSays(c, e, sure, who)
      PROVE  ProfInductive'
  BY <1>3, ProfLearns
<1>4. ASSUME NEW c \in ProfFacts, ProfSaysStale(c) \/ ProfReject(c) \/ ProfCorrect(c) PROVE ProfInductive'
  BY <1>4, ProfForgets, ProfBars
<1>5. ASSUME NEW p \in ProfMerges, ProfMerge(p[1], p[2]) PROVE ProfInductive'
  BY <1>5, ProfMerged
<1> QED
  BY <1>1, <1>2, <1>3, <1>4, <1>5, ProfRests, ProfTakes DEF ProfNext

LEMMA ProfAlways == ProfSpec => []ProfInductive
<1>1. ProfInit => ProfInductive
  BY ProfStarts
<1>2. ProfInductive /\ [ProfNext]_pfVars => ProfInductive'
  BY ProfSteps
<1> QED
  BY <1>1, <1>2, PTL DEF ProfSpec

(***************************************************************************)
(* The theorems.                                                           *)
(***************************************************************************)
\* The queue, the claims and the portraits keep their types (profile/repository.py).
THEOREM ProfTypes == ProfSpec => []ProfTypeOK
<1>1. ProfInductive => ProfTypeOK
  BY DEF ProfInductive, ProfQueueSound, ProfBatchSound, ProfClaimsSound, ProfTypeOK
<1> QED
  BY <1>1, ProfAlways, PTL

\* What an administrator corrected or rejected is never confirmed again, and a
\* confirmed claim rests on as many observed messages as its kind asks for
\* (profile/policy.py, service.py, control/commands.py).
THEOREM ProfStaysHonest == ProfSpec => []ProfLearnsHonestly
<1>1. ProfInductive => ProfLearnsHonestly
  BY DEF ProfInductive, ProfClaimsSound, ProfSupported, ProfObserved, ProfLearnsHonestly
<1> QED
  BY <1>1, ProfAlways, PTL

----------------------------------------------------------------------------
(***************************************************************************)
(* Theorems about the ways of speaking that are learnt and lent, for any   *)
(* members, messages and sizes.                                            *)
(***************************************************************************)

(***************************************************************************)
(* The inductive invariant.  What is seen was said; what the model is      *)
(* shown, and what a version rests on, is the member's own and was said    *)
(* while a window was open; a version being made stands on more messages   *)
(* than the one before; sessions are told apart by member and second, and  *)
(* at most one of them is live.                                            *)
(***************************************************************************)
StyleOwn(a, e, now, windows) == \A m \in e : StyleAuthor[m] = a /\ StyleAt[m] <= now /\ \E w \in windows[a] : StyleAt[m] \in w[1] .. w[2]
StyleLive(s) == s.open /\ s.to > msNow
StyleSeenIsSaid == IsFiniteSet(msSeen) /\ \A m \in msSeen : StyleAt[m] <= msNow
StyleShownIsOwn ==
  msWork.phase = "asking" =>
    /\ StyleTurn \in StyleMembers /\ StyleOwn(StyleTurn, msWork.shown, msNow, msWindows)
    /\ LET n == Len(msStyles[StyleTurn]) IN
         msWork.version = n + 1 /\ n > 0 => msWork.count >= msStyles[StyleTurn][n].count + StyleGrowth
StyleLearntIsOwn ==
  \A a \in StyleMembers : \A i \in 1 .. Len(msStyles[a]) :
    /\ StyleOwn(a, msStyles[a][i].evidence, msNow, msWindows)
    /\ i > 1 => msStyles[a][i].count >= msStyles[a][i - 1].count + StyleGrowth
StyleSessionsApart ==
  /\ \A s, z \in msSessions : s.of = z.of /\ s.from = z.from => s = z
  /\ \A s, z \in msSessions : StyleLive(s) /\ StyleLive(z) => s = z
  /\ \A s \in msSessions : s.version <= Len(msStyles[s.of]) /\ (StyleLive(s) => s.of \in msEnabled)
StyleInductive == StyleTypeOK /\ StyleSeenIsSaid /\ StyleShownIsOwn /\ StyleLearntIsOwn /\ StyleSessionsApart

(***************************************************************************)
(* What a step must keep, in three parts.                                  *)
(***************************************************************************)
StyleBooksSound ==
  /\ msNow \in 0 .. StyleLastTime /\ msSeen \subseteq StyleMessages /\ msEnabled \subseteq StyleMembers
  /\ msWindows \in StyleSettings /\ msStyles \in StyleVersions
  /\ StyleSeenIsSaid /\ StyleLearntIsOwn
StyleWorkSound == msWork \in StyleWork /\ StyleShownIsOwn
StyleSessionsSound == msSessions \subseteq StyleSession /\ StyleSessionsApart

LEMMA StyleInThree == StyleInductive <=> StyleBooksSound /\ StyleWorkSound /\ StyleSessionsSound
BY DEF StyleInductive, StyleTypeOK, StyleBooksSound, StyleWorkSound, StyleSessionsSound
LEMMA StyleInThreeNext == StyleInductive' <=> StyleBooksSound' /\ StyleWorkSound' /\ StyleSessionsSound'
BY DEF StyleInductive, StyleTypeOK, StyleBooksSound, StyleWorkSound, StyleSessionsSound

LEMMA StyleNumbers ==
  ASSUME StyleBooksSound
  PROVE  /\ msNow \in Nat /\ \A m \in StyleMessages : StyleAt[m] \in Nat
         /\ StyleGrowth \in Nat /\ StyleLastTime \in Nat /\ StyleLimit \in Nat
         /\ \A a \in StyleMembers : \A w \in msWindows[a] : w \in Nat \X Nat
         /\ \A a \in StyleMembers : msStyles[a] \in Seq(StyleSpeechStyle) /\ Len(msStyles[a]) \in Nat
<1>1. msNow \in Nat /\ \A m \in StyleMessages : StyleAt[m] \in Nat
  BY StyleConstants DEF StyleBooksSound
<1>2. StyleGrowth \in Nat /\ StyleLastTime \in Nat /\ StyleLimit \in Nat
  BY StyleConstants
<1>3. msWindows \in [StyleMembers -> SUBSET (Nat \X Nat)]
  BY DEF StyleBooksSound, StyleSettings
<1>4. msStyles \in [StyleMembers -> Seq(StyleSpeechStyle)]
  BY DEF StyleBooksSound, StyleVersions
<1>5. \A a \in StyleMembers : msStyles[a] \in Seq(StyleSpeechStyle)
  BY <1>4
<1>6. \A a \in StyleMembers : Len(msStyles[a]) \in Nat
  BY <1>5
<1> QED
  BY <1>1, <1>2, <1>3, <1>5, <1>6

\* Time goes on and messages come: what was somebody's own stays so.
LEMMA StyleOwnLater ==
  ASSUME StyleBooksSound, NEW a \in StyleMembers, NEW e \in SUBSET StyleMessages, StyleOwn(a, e, msNow, msWindows),
         msNow' \in Nat, msNow <= msNow', msWindows'[a] = msWindows[a]
  PROVE  StyleOwn(a, e, msNow', msWindows')
BY StyleNumbers DEF StyleOwn

LEMMA StyleStarts == ASSUME StyleInit PROVE StyleInductive
<1>1. StyleIdle.phase = "idle" /\ msWork = [StyleIdle EXCEPT !.phase = "off"] /\ msWork \in StyleWork /\ msWork.phase = "off"
  BY DEF StyleInit, StyleIdle, StyleWork
<1>2. msStyles \in StyleVersions /\ \A a \in StyleMembers : Len(msStyles[a]) = 0
  BY DEF StyleInit, StyleVersions
<1>3. StyleBooksSound
  <2>1. StyleLearntIsOwn
    BY <1>2 DEF StyleLearntIsOwn
  <2>2. msNow \in 0 .. StyleLastTime
    BY StyleConstants DEF StyleInit
  <2> QED
    BY <2>1, <2>2, <1>2, FS_EmptySet DEF StyleInit, StyleBooksSound, StyleSettings, StyleSeenIsSaid
<1>4. StyleWorkSound
  BY <1>1 DEF StyleWorkSound, StyleShownIsOwn
<1>5. StyleSessionsSound
  BY DEF StyleInit, StyleSessionsSound, StyleSessionsApart
<1> QED
  BY <1>3, <1>4, <1>5, StyleInThree

(***************************************************************************)
(* Time, messages and the switch.                                          *)
(***************************************************************************)
\* The books change so that what was somebody's own stays so.
LEMMA StyleBooksGrow ==
  ASSUME StyleBooksSound, StyleWorkSound, UNCHANGED <<msStyles, msWork>>,
         msNow' \in 0 .. StyleLastTime, msSeen' \subseteq StyleMessages, msEnabled' \subseteq StyleMembers,
         msWindows' \in StyleSettings, StyleSeenIsSaid',
         \A a \in StyleMembers : \A e \in SUBSET StyleMessages : StyleOwn(a, e, msNow, msWindows) => StyleOwn(a, e, msNow', msWindows')
  PROVE  StyleBooksSound' /\ StyleWorkSound'
<1>1. \A a \in StyleMembers : \A i \in 1 .. Len(msStyles[a]) : msStyles[a][i].evidence \in SUBSET StyleMessages
  <2> SUFFICES ASSUME NEW a \in StyleMembers, NEW i \in 1 .. Len(msStyles[a])
               PROVE  msStyles[a][i].evidence \in SUBSET StyleMessages
    OBVIOUS
  <2>1. msStyles[a] \in Seq(StyleSpeechStyle)
    BY StyleNumbers
  <2>2. msStyles[a][i] \in StyleSpeechStyle
    BY <2>1, ElementOfSeq
  <2> QED
    BY <2>2 DEF StyleSpeechStyle
<1>2. StyleLearntIsOwn'
  <2> SUFFICES ASSUME NEW a \in StyleMembers, NEW i \in 1 .. Len(msStyles'[a])
               PROVE  StyleOwn(a, msStyles'[a][i].evidence, msNow', msWindows') /\ (i > 1 => msStyles'[a][i].count >= msStyles'[a][i - 1].count + StyleGrowth)
    BY DEF StyleLearntIsOwn
  <2>1. PICK e : e = msStyles[a][i].evidence
    OBVIOUS
  <2>2. StyleOwn(a, e, msNow, msWindows) /\ e \in SUBSET StyleMessages /\ (i > 1 => msStyles[a][i].count >= msStyles[a][i - 1].count + StyleGrowth)
    BY <2>1, <1>1 DEF StyleBooksSound, StyleLearntIsOwn
  <2>3. StyleOwn(a, e, msNow', msWindows')
    BY <2>2
  <2> QED
    BY <2>1, <2>2, <2>3
<1>3. StyleShownIsOwn'
  <2> SUFFICES ASSUME msWork.phase = "asking" PROVE StyleShownIsOwn'
    BY DEF StyleShownIsOwn
  <2>1. PICK a, e : a = StyleTurn /\ e = msWork.shown
    OBVIOUS
  <2>2. a \in StyleMembers /\ StyleOwn(a, e, msNow, msWindows) /\ e \in SUBSET StyleMessages
    BY <2>1 DEF StyleWorkSound, StyleShownIsOwn, StyleWork
  <2>3. StyleOwn(a, e, msNow', msWindows') /\ StyleTurn' = a
    BY <2>1, <2>2 DEF StyleTurn
  <2> QED
    BY <2>1, <2>2, <2>3 DEF StyleWorkSound, StyleShownIsOwn
<1> QED
  BY <1>2, <1>3 DEF StyleBooksSound, StyleWorkSound

LEMMA StyleTimePasses ==
  ASSUME StyleInductive, StyleTick \/ \E m \in StyleMessages : StyleObserve(m)
  PROVE  StyleInductive'
<1>1. StyleBooksSound /\ StyleWorkSound /\ StyleSessionsSound
  BY StyleInThree
<1>2. UNCHANGED <<msEnabled, msWindows, msStyles, msWork, msSessions>>
  BY DEF StyleTick, StyleObserve
<1>3. msNow' \in 0 .. StyleLastTime /\ msNow <= msNow' /\ msNow' \in Nat /\ msNow \in Nat
  <2>1. msNow \in 0 .. StyleLastTime /\ StyleLastTime \in Nat
    BY <1>1, StyleConstants DEF StyleBooksSound
  <2>2. CASE msNow' = msNow
    BY <2>1, <2>2
  <2>3. CASE msNow < StyleLastTime /\ msNow' = msNow + 1
    BY <2>1, <2>3
  <2> QED
    BY <2>2, <2>3 DEF StyleTick, StyleObserve
<1>4. msSeen' \subseteq StyleMessages /\ StyleSeenIsSaid'
  <2>1. msSeen \subseteq StyleMessages /\ StyleSeenIsSaid /\ \A m \in StyleMessages : StyleAt[m] \in Nat
    BY <1>1, StyleNumbers DEF StyleBooksSound
  <2>2. CASE msSeen' = msSeen
    BY <2>1, <2>2, <1>3 DEF StyleSeenIsSaid
  <2>3. ASSUME NEW m \in StyleMessages, StyleObserve(m) PROVE msSeen' \subseteq StyleMessages /\ StyleSeenIsSaid'
    <3>1. msSeen' = msSeen \cup {m} /\ StyleAt[m] <= msNow /\ msNow' = msNow
      BY <2>3 DEF StyleObserve
    <3> QED
      BY <3>1, <2>1, FS_AddElement DEF StyleSeenIsSaid
  <2> QED
    BY <2>2, <2>3 DEF StyleTick
<1>5. \A a \in StyleMembers : \A e \in SUBSET StyleMessages : StyleOwn(a, e, msNow, msWindows) => StyleOwn(a, e, msNow', msWindows')
  BY <1>1, <1>2, <1>3, StyleOwnLater
<1>6. StyleBooksSound' /\ StyleWorkSound'
  BY <1>1, <1>2, <1>3, <1>4, <1>5, StyleBooksGrow DEF StyleBooksSound
<1>7. StyleSessionsSound'
  <2>1. \A s \in msSessions : StyleLive(s)' => StyleLive(s)
    BY <1>1, <1>3 DEF StyleLive, StyleSessionsSound, StyleSession
  <2> QED
    BY <2>1, <1>1, <1>2 DEF StyleSessionsSound, StyleSessionsApart
<1> QED
  BY <1>6, <1>7, StyleInThreeNext

LEMMA StyleEnables ==
  ASSUME StyleInductive, NEW a \in StyleMembers, StyleEnable(a)
  PROVE  StyleInductive'
<1>1. StyleBooksSound /\ StyleWorkSound /\ StyleSessionsSound
  BY StyleInThree
<1>2. /\ msEnabled' = msEnabled \cup {a} /\ UNCHANGED <<msNow, msSeen, msStyles, msWork, msSessions>>
      /\ msWindows' = [msWindows EXCEPT ![a] = @ \cup {<<msNow, StyleNever>>}]
  BY DEF StyleEnable
<1>3. StyleNever \in Nat /\ msNow \in Nat
  BY <1>1, StyleNumbers DEF StyleNever
<1>4. msWindows' \in StyleSettings /\ \A b \in StyleMembers : msWindows[b] \subseteq msWindows'[b]
  BY <1>1, <1>2, <1>3 DEF StyleBooksSound, StyleSettings
<1>5. \A b \in StyleMembers : \A e \in SUBSET StyleMessages : StyleOwn(b, e, msNow, msWindows) => StyleOwn(b, e, msNow', msWindows')
  BY <1>2, <1>4 DEF StyleOwn
<1>6. StyleBooksSound' /\ StyleWorkSound'
  <2>1. StyleSeenIsSaid'
    BY <1>1, <1>2 DEF StyleBooksSound, StyleSeenIsSaid
  <2> QED
    BY <1>1, <1>2, <1>4, <1>5, <2>1, StyleBooksGrow DEF StyleBooksSound
<1>7. StyleSessionsSound'
  BY <1>1, <1>2 DEF StyleSessionsSound, StyleSessionsApart, StyleLive
<1> QED
  BY <1>6, <1>7, StyleInThreeNext

(***************************************************************************)
(* Sessions that are cut.                                                  *)
(***************************************************************************)
StyleCutOne(sel, s) == IF s \in sel /\ s.open /\ s.to > msNow THEN [s EXCEPT !.open = FALSE] ELSE s

LEMMA StyleCutKeeps ==
  ASSUME msSessions \subseteq StyleSession, StyleSessionsApart, NEW sel
  PROVE  /\ StyleCut(sel) \subseteq StyleSession
         /\ \A z \in StyleCut(sel) : \E s \in msSessions :
              /\ s.of = z.of /\ s.from = z.from /\ s.to = z.to /\ s.version = z.version
              /\ StyleLive(z) => s = z /\ s \notin sel
<1>1. \A s \in msSessions : /\ StyleCutOne(sel, s) \in StyleSession
                            /\ s.of = StyleCutOne(sel, s).of /\ s.from = StyleCutOne(sel, s).from
                            /\ s.to = StyleCutOne(sel, s).to /\ s.version = StyleCutOne(sel, s).version
                            /\ StyleLive(StyleCutOne(sel, s)) => s = StyleCutOne(sel, s) /\ s \notin sel
  BY DEF StyleCutOne, StyleSession, StyleLive
<1>2. StyleCut(sel) = {StyleCutOne(sel, s) : s \in msSessions}
  BY DEF StyleCut, StyleCutOne
<1> QED
  BY <1>1, <1>2

LEMMA StyleCutApart ==
  ASSUME msSessions \subseteq StyleSession, StyleSessionsApart, NEW sel
  PROVE  /\ \A s, z \in StyleCut(sel) : s.of = z.of /\ s.from = z.from => s = z
         /\ \A s, z \in StyleCut(sel) : StyleLive(s) /\ StyleLive(z) => s = z
         /\ \A s \in StyleCut(sel) : s.version <= Len(msStyles[s.of]) /\ (StyleLive(s) => s.of \in msEnabled)
<1>1. \A s \in msSessions : s.of = StyleCutOne(sel, s).of /\ s.from = StyleCutOne(sel, s).from
  BY DEF StyleCutOne, StyleSession
<1>2. StyleCut(sel) = {StyleCutOne(sel, s) : s \in msSessions}
  BY DEF StyleCut, StyleCutOne
<1>3. \A s, z \in StyleCut(sel) : s.of = z.of /\ s.from = z.from => s = z
  BY <1>1, <1>2 DEF StyleSessionsApart
<1> QED
  BY <1>3, StyleCutKeeps DEF StyleSessionsApart

LEMMA StyleDisables ==
  ASSUME StyleInductive, NEW a \in StyleMembers, StyleDisable(a)
  PROVE  StyleInductive'
<1>1. StyleBooksSound /\ StyleWorkSound /\ StyleSessionsSound
  BY StyleInThree
<1>2. /\ msEnabled' = msEnabled \ {a} /\ UNCHANGED <<msNow, msSeen, msStyles, msWork>>
      /\ msWindows' = [msWindows EXCEPT ![a] = {IF w[2] = StyleNever THEN <<w[1], msNow>> ELSE w : w \in @}]
      /\ msSessions' = StyleCut(StyleDisabledOf(a))
  BY DEF StyleDisable
<1>3. StyleNever \in Nat /\ msNow \in Nat /\ msWindows[a] \subseteq Nat \X Nat /\ \A m \in StyleMessages : StyleAt[m] \in Nat
  BY <1>1, StyleNumbers DEF StyleNever, StyleBooksSound, StyleSettings
<1> DEFINE shut(w) == IF w[2] = StyleNever THEN <<w[1], msNow>> ELSE w
<1>4. \A w \in msWindows[a] : shut(w) \in Nat \X Nat /\ shut(w)[1] = w[1] /\ (shut(w) = w \/ shut(w)[2] = msNow)
  BY <1>3
<1>5. msWindows'[a] = {shut(w) : w \in msWindows[a]} /\ msWindows' \in StyleSettings
      /\ \A b \in StyleMembers \ {a} : msWindows'[b] = msWindows[b]
  BY <1>1, <1>2, <1>4 DEF StyleBooksSound, StyleSettings
<1> HIDE DEF shut
<1>6. ASSUME NEW b \in StyleMembers, NEW e \in SUBSET StyleMessages, StyleOwn(b, e, msNow, msWindows) PROVE StyleOwn(b, e, msNow', msWindows')
  <2>1. CASE b # a
    BY <2>1, <1>2, <1>5, <1>6 DEF StyleOwn
  <2>2. CASE b = a
    <3>1. ASSUME NEW m \in e PROVE \E w \in msWindows'[a] : StyleAt[m] \in w[1] .. w[2]
      <4>1. PICK w \in msWindows[a] : StyleAt[m] \in w[1] .. w[2]
        BY <1>6, <2>2 DEF StyleOwn
      <4>2. StyleAt[m] \in Nat /\ StyleAt[m] <= msNow /\ w[1] \in Nat /\ w[2] \in Nat
        BY <1>3, <1>6 DEF StyleOwn
      <4>3. StyleAt[m] \in shut(w)[1] .. shut(w)[2]
        BY <4>1, <4>2, <1>3, <1>4
      <4> QED
        BY <4>3, <1>5
    <3> QED
      BY <2>2, <3>1, <1>2, <1>6 DEF StyleOwn
  <2> QED
    BY <2>1, <2>2
<1>7. StyleBooksSound' /\ StyleWorkSound'
  <2>1. StyleSeenIsSaid' /\ msEnabled' \subseteq StyleMembers
    BY <1>1, <1>2 DEF StyleBooksSound, StyleSeenIsSaid
  <2> QED
    BY <1>1, <1>2, <1>5, <1>6, <2>1, StyleBooksGrow DEF StyleBooksSound
<1>8. StyleSessionsSound'
  <2>1. PICK sel : sel = StyleDisabledOf(a)
    OBVIOUS
  <2>2. msSessions' = StyleCut(sel)
    BY <2>1, <1>2
  <2>3. \A z \in msSessions' : StyleLive(z) => z \in msSessions /\ z \notin sel
    BY <2>2, <1>1, StyleCutKeeps DEF StyleSessionsSound
  <2>4. \A z \in msSessions' : StyleLive(z) => z.of \in msEnabled'
    BY <2>1, <2>3, <1>1, <1>2 DEF StyleDisabledOf, StyleSessionsSound, StyleSessionsApart
  <2>5. \A z : StyleLive(z)' <=> StyleLive(z)
    BY <1>2 DEF StyleLive
  <2> QED
    BY <2>2, <2>4, <2>5, <1>1, <1>2, StyleCutKeeps, StyleCutApart DEF StyleSessionsSound, StyleSessionsApart
<1> QED
  BY <1>7, <1>8, StyleInThreeNext

LEMMA StyleImitates ==
  ASSUME StyleInductive, NEW a \in StyleMembers, NEW until \in 1 .. StyleNever, StyleImitate(a, until)
  PROVE  StyleInductive'
<1>1. StyleBooksSound /\ StyleWorkSound /\ StyleSessionsSound /\ msSessions \subseteq StyleSession /\ StyleSessionsApart
  BY StyleInThree DEF StyleSessionsSound
<1>2. /\ StyleReady(a) > 0 /\ UNCHANGED <<msNow, msSeen, msEnabled, msWindows, msStyles, msWork>>
      /\ \A s \in msSessions : <<s.of, s.from>> # <<a, msNow>>
      /\ msSessions' = StyleCut(msSessions) \cup {[of |-> a, from |-> msNow, to |-> until, version |-> StyleReady(a), open |-> TRUE]}
  BY DEF StyleImitate
<1>3. StyleReady(a) \in Nat /\ StyleReady(a) = Len(msStyles[a]) /\ a \in msEnabled /\ msNow \in Nat /\ until \in Nat
  BY <1>1, <1>2, StyleNumbers DEF StyleReady, StyleNever
<1>4. PICK new : new = [of |-> a, from |-> msNow, to |-> until, version |-> StyleReady(a), open |-> TRUE]
  OBVIOUS
<1>5. new \in StyleSession /\ new.of = a /\ new.from = msNow /\ new.version = StyleReady(a)
  BY <1>3, <1>4 DEF StyleSession
<1>6. PICK cut : cut = StyleCut(msSessions)
  OBVIOUS
<1>7. msSessions' = cut \cup {new}
  BY <1>2, <1>4, <1>6
<1>8. cut \subseteq StyleSession /\ \A z \in cut : ~ StyleLive(z) /\ ~(z.of = a /\ z.from = msNow)
  BY <1>1, <1>2, <1>6, StyleCutKeeps
<1>9. /\ \A s, z \in cut : s.of = z.of /\ s.from = z.from => s = z
      /\ \A s \in cut : s.version <= Len(msStyles[s.of])
  BY <1>1, <1>6, StyleCutApart
<1>10. \A z : StyleLive(z)' <=> StyleLive(z)
  BY <1>2 DEF StyleLive
<1>11. StyleSessionsApart'
  <2>1. \A s, z \in msSessions' : s.of = z.of /\ s.from = z.from => s = z
    BY <1>5, <1>7, <1>8, <1>9
  <2>2. \A s, z \in msSessions' : StyleLive(s)' /\ StyleLive(z)' => s = z
    BY <1>7, <1>8, <1>10
  <2>3. \A s \in msSessions' : s.version <= Len(msStyles'[s.of]) /\ (StyleLive(s)' => s.of \in msEnabled')
    BY <1>2, <1>3, <1>5, <1>7, <1>8, <1>9, <1>10
  <2> QED
    BY <2>1, <2>2, <2>3 DEF StyleSessionsApart
<1>12. StyleSessionsSound'
  BY <1>5, <1>7, <1>8, <1>11 DEF StyleSessionsSound
<1>13. StyleBooksSound' /\ StyleWorkSound'
  <2>1. StyleSeenIsSaid' /\ \A b \in StyleMembers : \A e \in SUBSET StyleMessages : StyleOwn(b, e, msNow, msWindows) => StyleOwn(b, e, msNow', msWindows')
    BY <1>1, <1>2 DEF StyleOwn, StyleSeenIsSaid, StyleBooksSound
  <2> QED
    BY <2>1, <1>1, <1>2, StyleBooksGrow DEF StyleBooksSound
<1> QED
  BY <1>12, <1>13, StyleInThreeNext

LEMMA StyleEndsOne ==
  ASSUME StyleInductive, NEW x \in StyleCurrent, StyleEnds(x)
  PROVE  StyleInductive'
<1>1. StyleBooksSound /\ StyleWorkSound /\ StyleSessionsSound /\ msSessions \subseteq StyleSession /\ StyleSessionsApart
  BY StyleInThree DEF StyleSessionsSound
<1>2. msSessions' = (msSessions \ {x}) \cup {[x EXCEPT !.open = FALSE]} /\ UNCHANGED <<msNow, msSeen, msEnabled, msWindows, msStyles, msWork>>
  BY DEF StyleEnds
<1>3. PICK new : new = [x EXCEPT !.open = FALSE]
  OBVIOUS
<1>4. x \in msSessions /\ new \in StyleSession /\ new.of = x.of /\ new.from = x.from /\ new.version = x.version /\ ~ StyleLive(new)
  BY <1>1, <1>3 DEF StyleCurrent, StyleSession, StyleLive
<1>5. \A z : StyleLive(z)' <=> StyleLive(z)
  BY <1>2 DEF StyleLive
<1>6. msSessions' = (msSessions \ {x}) \cup {new}
  BY <1>2, <1>3
<1>7. StyleSessionsSound'
  BY <1>1, <1>2, <1>4, <1>5, <1>6 DEF StyleSessionsSound, StyleSessionsApart
<1>8. StyleBooksSound' /\ StyleWorkSound'
  <2>1. StyleSeenIsSaid' /\ \A b \in StyleMembers : \A e \in SUBSET StyleMessages : StyleOwn(b, e, msNow, msWindows) => StyleOwn(b, e, msNow', msWindows')
    BY <1>1, <1>2 DEF StyleOwn, StyleSeenIsSaid, StyleBooksSound
  <2> QED
    BY <2>1, <1>1, <1>2, StyleBooksGrow DEF StyleBooksSound
<1> QED
  BY <1>7, <1>8, StyleInThreeNext

(***************************************************************************)
(* The worker.                                                             *)
(***************************************************************************)
LEMMA StyleOthersKept ==
  ASSUME StyleInductive, UNCHANGED <<msNow, msSeen, msEnabled, msWindows, msStyles, msSessions>>, StyleWorkSound'
  PROVE  StyleInductive'
<1>1. StyleBooksSound /\ StyleSessionsSound
  BY StyleInThree
<1>2. StyleBooksSound'
  BY <1>1 DEF StyleBooksSound, StyleSeenIsSaid, StyleLearntIsOwn
<1>3. StyleSessionsSound'
  BY <1>1 DEF StyleSessionsSound, StyleSessionsApart, StyleLive
<1> QED
  BY <1>2, <1>3, StyleInThreeNext

LEMMA StyleRests ==
  ASSUME StyleInductive, StyleStart \/ StylePass \/ StyleFails \/ StyleStop
  PROVE  StyleInductive'
<1>1. StyleBooksSound /\ StyleWorkSound /\ msWork \in StyleWork
  BY StyleInThree DEF StyleWorkSound
<1>2. UNCHANGED <<msNow, msSeen, msEnabled, msWindows, msStyles, msSessions>>
  BY DEF StyleStart, StylePass, StyleFails, StyleStop
<1>3. StyleIdle \in StyleWork /\ StyleIdle.phase = "idle"
  BY DEF StyleIdle, StyleWork
<1>4. msWork' \in StyleWork /\ msWork'.phase # "asking"
  <2>1. CASE StyleStart
    BY <2>1, <1>3 DEF StyleStart
  <2>2. CASE StylePass
    <3>1. msWork' = [StyleIdle EXCEPT !.todo = msEnabled] /\ msEnabled \in SUBSET StyleMembers
      BY <2>2, <1>1 DEF StylePass, StyleBooksSound
    <3> QED
      BY <3>1, <1>3 DEF StyleWork
  <2>3. CASE StyleFails
    <3>1. PICK rest \in SUBSET StyleMembers : rest = msWork.todo \ {StyleTurn}
      BY <1>1 DEF StyleWork
    <3>2. msWork' = [StyleIdle EXCEPT !.todo = rest]
      BY <2>3, <3>1 DEF StyleFails, StyleOn
    <3> QED
      BY <3>2, <1>3 DEF StyleWork
  <2>4. CASE StyleStop
    BY <2>4, <1>3 DEF StyleStop, StyleWork
  <2> QED
    BY <2>1, <2>2, <2>3, <2>4
<1> QED
  BY <1>2, <1>4, StyleOthersKept DEF StyleWorkSound, StyleShownIsOwn

LEMMA StyleLooks ==
  ASSUME StyleInductive, StyleLook
  PROVE  StyleInductive'
<1>1. StyleBooksSound /\ StyleWorkSound /\ msWork \in StyleWork
  BY StyleInThree DEF StyleWorkSound
<1>2. UNCHANGED <<msNow, msSeen, msEnabled, msWindows, msStyles, msSessions>> /\ msWork.phase = "idle" /\ msWork.todo # {}
  BY DEF StyleLook
<1>3. PICK a : a = StyleTurn
  OBVIOUS
<1>4. a \in StyleMembers /\ a \in msWork.todo
  <2>1. msWork.todo \in SUBSET Nat /\ msWork.todo \subseteq StyleMembers
    BY <1>1, StyleConstants DEF StyleWork
  <2> QED
    BY <2>1, <1>2, <1>3, MemberLeast DEF StyleTurn
<1>5. PICK seen, count, shown, ready : seen = StyleEligible(a) /\ count = Cardinality(seen) /\ shown = StyleNewest(StyleRecent, seen) /\ ready = StyleReady(a)
  OBVIOUS
<1>6. seen \subseteq msSeen /\ (\A m \in seen : StyleAuthor[m] = a /\ StyleInWindow(a, m)) /\ shown \subseteq seen
  BY <1>5 DEF StyleEligible, StyleOldest, StyleNewest
<1>7. count \in Nat
  <2>1. IsFiniteSet(msSeen) /\ seen \in SUBSET msSeen
    BY <1>1, <1>6 DEF StyleBooksSound, StyleSeenIsSaid
  <2> QED
    BY <2>1, <1>5, FS_Subset, FS_CardinalityType
<1>8. shown \subseteq StyleMessages /\ StyleOwn(a, shown, msNow, msWindows)
  <2>1. \A m \in seen : m \in StyleMessages /\ StyleAt[m] <= msNow
    BY <1>1, <1>6 DEF StyleBooksSound, StyleSeenIsSaid
  <2>2. \A m \in seen : \E w \in msWindows[a] : StyleAt[m] \in w[1] .. w[2]
    <3> TAKE m \in seen
    <3>1. PICK w \in msWindows[a] : w[1] <= StyleAt[m] /\ StyleAt[m] < w[2]
      BY <1>6 DEF StyleInWindow
    <3>2. w \in Nat \X Nat /\ StyleAt[m] \in Nat
      BY <1>1, <1>4, <2>1, StyleNumbers
    <3> QED
      BY <3>1, <3>2
  <2> QED
    BY <2>1, <2>2, <1>6 DEF StyleOwn
<1>9. ready \in Nat /\ (ready # 0 => ready = Len(msStyles[a])) /\ (StyleGrown(a) => (ready > 0 => count >= msStyles[a][Len(msStyles[a])].count + StyleGrowth))
  <2>1. Len(msStyles[a]) \in Nat /\ Last(msStyles[a]) = msStyles[a][Len(msStyles[a])]
    BY <1>1, <1>4, StyleNumbers DEF Last
  <2> QED
    BY <2>1, <1>5 DEF StyleReady, StyleGrown
<1>10. CASE StyleGrown(a)
  <2>1. msWork' = [msWork EXCEPT !.phase = "asking", !.version = ready + 1, !.shown = shown, !.count = count]
    BY <1>3, <1>5, <1>10 DEF StyleLook
  <2>2. msWork' \in StyleWork /\ msWork'.todo = msWork.todo /\ msWork'.version = ready + 1 /\ msWork'.shown = shown /\ msWork'.count = count
    <3>1. ready + 1 \in Nat /\ shown \in SUBSET StyleMessages
      BY <1>8, <1>9
    <3>2. PICK next : next = ready + 1
      OBVIOUS
    <3> QED
      BY <2>1, <1>1, <1>7, <3>1, <3>2 DEF StyleWork
  <2>3. StyleTurn' = a
    BY <2>2, <1>3 DEF StyleTurn
  <2>4. ready + 1 = Len(msStyles[a]) + 1 /\ Len(msStyles[a]) > 0 => count >= msStyles[a][Len(msStyles[a])].count + StyleGrowth
    <3>1. Len(msStyles[a]) \in Nat
      BY <1>1, <1>4, StyleNumbers
    <3> QED
      BY <3>1, <1>9, <1>10
  <2>5. StyleWorkSound'
    BY <2>2, <2>3, <2>4, <1>2, <1>4, <1>8 DEF StyleWorkSound, StyleShownIsOwn
  <2> QED
    BY <2>5, <1>2, StyleOthersKept
<1>11. CASE ~ StyleGrown(a)
  <2>1. msWork' = [msWork EXCEPT !.todo = msWork.todo \ {a}]
    BY <1>3, <1>11 DEF StyleLook
  <2>2. msWork' \in StyleWork /\ msWork'.phase = "idle"
    BY <2>1, <1>1, <1>2 DEF StyleWork
  <2> QED
    BY <2>2, <1>2, StyleOthersKept DEF StyleWorkSound, StyleShownIsOwn
<1> QED
  BY <1>10, <1>11

LEMMA StyleAnswers ==
  ASSUME StyleInductive, NEW e \in SUBSET msWork.shown, StyleAnswer(e)
  PROVE  StyleInductive'
<1>1. StyleBooksSound /\ StyleWorkSound /\ StyleSessionsSound /\ msWork \in StyleWork /\ msStyles \in StyleVersions
  BY StyleInThree DEF StyleWorkSound, StyleBooksSound
<1>2. UNCHANGED <<msNow, msSeen, msEnabled, msWindows, msSessions>> /\ msWork.phase = "asking"
      /\ msWork' = [StyleIdle EXCEPT !.todo = msWork.todo \ {StyleTurn}]
  BY DEF StyleAnswer, StyleOn
<1>3. msWork' \in StyleWork /\ msWork'.phase = "idle"
  BY <1>1, <1>2 DEF StyleWork, StyleIdle
<1>4. StyleWorkSound'
  BY <1>3 DEF StyleWorkSound, StyleShownIsOwn
<1>5. CASE msStyles' = msStyles
  BY <1>2, <1>4, <1>5, StyleOthersKept
<1>6. CASE msStyles' # msStyles
  <2>1. PICK a, new : a = StyleTurn /\ new = [evidence |-> e, count |-> msWork.count]
    OBVIOUS
  <2>2. StyleMayPublish(a) /\ msStyles' = [msStyles EXCEPT ![a] = Append(@, new)]
    BY <2>1, <1>6 DEF StyleAnswer
  <2>3. /\ a \in StyleMembers /\ StyleOwn(a, msWork.shown, msNow, msWindows) /\ msWork.version = Len(msStyles[a]) + 1
        /\ Len(msStyles[a]) > 0 => msWork.count >= msStyles[a][Len(msStyles[a])].count + StyleGrowth
    BY <2>1, <2>2, <1>1, <1>2 DEF StyleWorkSound, StyleShownIsOwn, StyleMayPublish
  <2>4. new \in StyleSpeechStyle /\ StyleOwn(a, new.evidence, msNow, msWindows) /\ new.count = msWork.count
    BY <2>1, <2>3, <1>1 DEF StyleSpeechStyle, StyleWork, StyleOwn
  <2>5. PICK old, n : old = msStyles[a] /\ n = Len(old)
    OBVIOUS
  <2>6. old \in Seq(StyleSpeechStyle) /\ n \in Nat
    BY <2>3, <2>5, <1>1, StyleNumbers
  <2>7. /\ Append(old, new) \in Seq(StyleSpeechStyle) /\ Len(Append(old, new)) = n + 1
        /\ Append(old, new)[n + 1] = new /\ \A i \in 1 .. n : Append(old, new)[i] = old[i]
    BY <2>4, <2>5, <2>6
  <2>8. msStyles' \in StyleVersions /\ msStyles'[a] = Append(old, new) /\ \A b \in StyleMembers \ {a} : msStyles'[b] = msStyles[b]
    BY <2>2, <2>3, <2>5, <2>7, <1>1 DEF StyleVersions
  <2>9. StyleLearntIsOwn'
    <3> SUFFICES ASSUME NEW b \in StyleMembers, NEW i \in 1 .. Len(msStyles'[b])
                 PROVE  /\ StyleOwn(b, msStyles'[b][i].evidence, msNow', msWindows')
                        /\ i > 1 => msStyles'[b][i].count >= msStyles'[b][i - 1].count + StyleGrowth
      BY DEF StyleLearntIsOwn
    <3>1. CASE b # a
      BY <3>1, <2>8, <1>1, <1>2 DEF StyleBooksSound, StyleLearntIsOwn
    <3>2. CASE b = a /\ i \in 1 .. n
      <4>1. msStyles'[b][i] = old[i] /\ (i > 1 => i - 1 \in 1 .. n /\ msStyles'[b][i - 1] = old[i - 1])
        BY <3>2, <2>6, <2>7, <2>8
      <4> QED
        BY <4>1, <3>2, <2>3, <2>5, <1>1, <1>2 DEF StyleBooksSound, StyleLearntIsOwn
    <3>3. CASE b = a /\ i = n + 1
      <4>1. msStyles'[b][i] = new
        BY <3>3, <2>7, <2>8
      <4>2. StyleOwn(b, msStyles'[b][i].evidence, msNow', msWindows')
        BY <3>3, <4>1, <2>4, <1>2
      <4>3. ASSUME i > 1 PROVE msStyles'[b][i].count >= msStyles'[b][i - 1].count + StyleGrowth
        <5>1. n > 0 /\ i - 1 = n /\ n \in 1 .. n
          BY <4>3, <3>3, <2>6
        <5>2. msStyles'[b][i - 1] = old[n]
          BY <3>3, <5>1, <2>7, <2>8
        <5> QED
          BY <4>1, <5>1, <5>2, <2>3, <2>4, <2>5
      <4> QED
        BY <4>2, <4>3
    <3>4. i \in 1 .. n \/ i = n + 1 \/ b # a
      BY <2>6, <2>7, <2>8
    <3> QED
      BY <3>1, <3>2, <3>3, <3>4
  <2>10. StyleBooksSound'
    BY <2>8, <2>9, <1>1, <1>2 DEF StyleBooksSound, StyleSeenIsSaid
  <2>11. StyleSessionsSound'
    <3>1. \A b \in StyleMembers : Len(msStyles[b]) <= Len(msStyles'[b]) /\ Len(msStyles[b]) \in Nat /\ Len(msStyles'[b]) \in Nat
      <4> TAKE b \in StyleMembers
      <4>1. CASE b = a
        BY <4>1, <2>5, <2>6, <2>7, <2>8
      <4>2. CASE b # a
        <5>1. Len(msStyles[b]) \in Nat
          BY <1>1, StyleNumbers
        <5> QED
          BY <4>2, <5>1, <2>8
      <4> QED
        BY <4>1, <4>2
    <3>2. \A s \in msSessions : s.of \in StyleMembers /\ s.version \in Nat /\ s.version <= Len(msStyles'[s.of])
      BY <3>1, <1>1 DEF StyleSessionsSound, StyleSessionsApart, StyleSession
    <3> QED
      BY <3>2, <1>1, <1>2 DEF StyleSessionsSound, StyleSessionsApart, StyleLive
  <2> QED
    BY <2>10, <2>11, <1>4, StyleInThreeNext
<1> QED
  BY <1>5, <1>6

LEMMA StyleSteps ==
  ASSUME StyleInductive, [StyleNext]_msVars PROVE StyleInductive'
<1>1. CASE UNCHANGED msVars
  <2>1. StyleWorkSound'
    BY <1>1, StyleInThree DEF msVars, StyleWorkSound, StyleShownIsOwn, StyleTurn
  <2> QED
    BY <1>1, <2>1, StyleOthersKept DEF msVars
<1>2. ASSUME NEW m \in StyleMessages, StyleObserve(m) PROVE StyleInductive'
  BY <1>2, StyleTimePasses
<1>3. ASSUME NEW e \in SUBSET msWork.shown, StyleAnswer(e) PROVE StyleInductive'
  BY <1>3, StyleAnswers
<1>4. ASSUME NEW a \in StyleMembers, StyleEnable(a) \/ StyleDisable(a) PROVE StyleInductive'
  BY <1>4, StyleEnables, StyleDisables
<1>5. ASSUME NEW a \in StyleMembers, NEW u \in 1 .. StyleNever, StyleImitate(a, u) PROVE StyleInductive'
  BY <1>5, StyleImitates
<1>6. ASSUME NEW s \in StyleCurrent, StyleEnds(s) PROVE StyleInductive'
  BY <1>6, StyleEndsOne
<1> QED
  BY <1>1, <1>2, <1>3, <1>4, <1>5, <1>6, StyleTimePasses, StyleRests, StyleLooks DEF StyleNext

LEMMA StyleAlways == StyleSpec => []StyleInductive
<1>1. StyleInit => StyleInductive
  BY StyleStarts
<1>2. StyleInductive /\ [StyleNext]_msVars => StyleInductive'
  BY StyleSteps
<1> QED
  BY <1>1, <1>2, PTL DEF StyleSpec

(***************************************************************************)
(* The theorems.                                                           *)
(***************************************************************************)
\* The books of the collection, the versions and the imitations keep their
\* types (style_repository.py).
THEOREM StyleTypes == StyleSpec => []StyleTypeOK
<1>1. StyleInductive => StyleTypeOK
  BY DEF StyleInductive
<1> QED
  BY <1>1, StyleAlways, PTL

\* A version rests on what the member said while an administrator let it be
\* collected, grows on the one before, and one imitation runs at most
\* (style_service.py, style_repository.py).
THEOREM StyleStaysByConsent == StyleSpec => []StyleByConsent
<1>1. ASSUME StyleInductive PROVE StyleByConsent
  <2> DEFINE active == {s \in msSessions : StyleActive(s)}
  <2>1. \A s, z \in active : s = z
    BY <1>1 DEF StyleInductive, StyleSessionsApart, StyleActive, StyleLive
  <2>2. Cardinality(active) <= 1
    <3>1. CASE active = {}
      BY <3>1, FS_EmptySet
    <3>2. CASE active # {}
      <4>1. PICK s : active = {s}
        BY <2>1, <3>2
      <4>2. Cardinality({s}) = 1
        BY FS_Singleton
      <4> QED
        BY <4>1, <4>2
    <3> QED
      BY <3>1, <3>2
  <2>3. \A a \in StyleMembers : \A i \in 1 .. Len(msStyles[a]) :
          /\ \A m \in msStyles[a][i].evidence : StyleAuthor[m] = a /\ \E w \in msWindows[a] : StyleAt[m] \in w[1] .. w[2]
          /\ i > 1 => msStyles[a][i].count >= msStyles[a][i - 1].count + StyleGrowth
    BY <1>1 DEF StyleInductive, StyleLearntIsOwn, StyleOwn
  <2> QED
    BY <2>2, <2>3 DEF StyleByConsent
<1> QED
  BY <1>1, StyleAlways, PTL

\* An imitation that ended never comes back (cut, active_session).
THEOREM StyleEndsForGood == StyleSpec => [][StyleEndedStays]_msVars
<1>1. ASSUME StyleInductive, StyleInductive', [StyleNext]_msVars PROVE [StyleEndedStays]_msVars
  <2> SUFFICES ASSUME StyleNext PROVE StyleEndedStays
    BY <1>1
  <2>0. /\ msSessions \subseteq StyleSession /\ StyleSessionsApart /\ msNow \in Nat /\ msNow' \in Nat
        /\ \A s \in msSessions : s.to \in Nat
    <3>1. msNow \in 0 .. StyleLastTime /\ msNow' \in 0 .. StyleLastTime /\ msSessions \subseteq StyleSession /\ StyleSessionsApart
      BY <1>1 DEF StyleInductive, StyleTypeOK
    <3> QED
      BY <3>1 DEF StyleSession
  <2>1. \A s \in msSessions : StyleActive(s) <=> StyleLive(s)
    BY <2>0 DEF StyleSessionsApart, StyleActive, StyleUsable, StyleLive
  <2>2. msNow <= msNow'
    <3>1. msNow' = msNow + 1 \/ msNow' = msNow
      BY DEF StyleNext, StyleTick, StyleStart, StylePass, StyleLook, StyleFails, StyleStop, StyleObserve, StyleAnswer, StyleEnable,
             StyleDisable, StyleImitate, StyleEnds
    <3> QED
      BY <2>0, <3>1
  <2>3. \A z \in msSessions' : \/ \E s \in msSessions : s.of = z.of /\ s.from = z.from /\ s.to = z.to /\ (z.open => s.open)
                               \/ \A s \in msSessions : ~(s.of = z.of /\ s.from = z.from)
    <3>1. CASE msSessions' = msSessions
      BY <3>1
    <3>2. ASSUME NEW sel, NEW new, msSessions' \subseteq StyleCut(sel) \cup new, \A z \in new : \A s \in msSessions : ~(s.of = z.of /\ s.from = z.from)
          PROVE  \A z \in msSessions' : \/ \E s \in msSessions : s.of = z.of /\ s.from = z.from /\ s.to = z.to /\ (z.open => s.open)
                                        \/ \A s \in msSessions : ~(s.of = z.of /\ s.from = z.from)
      <4>1. \A s \in msSessions : /\ s.of = StyleCutOne(sel, s).of /\ s.from = StyleCutOne(sel, s).from
                                  /\ s.to = StyleCutOne(sel, s).to /\ (StyleCutOne(sel, s).open => s.open)
        BY <2>0 DEF StyleCutOne, StyleSession
      <4>2. StyleCut(sel) = {StyleCutOne(sel, s) : s \in msSessions}
        BY DEF StyleCut, StyleCutOne
      <4> QED
        BY <3>2, <4>1, <4>2
    <3>3. ASSUME NEW a \in StyleMembers, StyleDisable(a)
          PROVE  \A z \in msSessions' : \/ \E s \in msSessions : s.of = z.of /\ s.from = z.from /\ s.to = z.to /\ (z.open => s.open)
                                        \/ \A s \in msSessions : ~(s.of = z.of /\ s.from = z.from)
      <4>1. PICK sel, new : sel = StyleDisabledOf(a) /\ new = {}
        OBVIOUS
      <4>2. msSessions' \subseteq StyleCut(sel) \cup new
        BY <4>1, <3>3 DEF StyleDisable
      <4>3. \A z \in new : \A s \in msSessions : ~(s.of = z.of /\ s.from = z.from)
        BY <4>1
      <4> QED
        BY <3>2, <4>2, <4>3
    <3>4. ASSUME NEW a \in StyleMembers, NEW u \in 1 .. StyleNever, StyleImitate(a, u)
          PROVE  \A z \in msSessions' : \/ \E s \in msSessions : s.of = z.of /\ s.from = z.from /\ s.to = z.to /\ (z.open => s.open)
                                        \/ \A s \in msSessions : ~(s.of = z.of /\ s.from = z.from)
      <4>1. PICK sel, new : sel = msSessions /\ new = {[of |-> a, from |-> msNow, to |-> u, version |-> StyleReady(a), open |-> TRUE]}
        OBVIOUS
      <4>2. msSessions' \subseteq StyleCut(sel) \cup new
        BY <4>1, <3>4 DEF StyleImitate
      <4>3. \A z \in new : \A s \in msSessions : ~(s.of = z.of /\ s.from = z.from)
        BY <4>1, <3>4 DEF StyleImitate
      <4> QED
        BY <3>2, <4>2, <4>3
    <3>5. ASSUME NEW x \in StyleCurrent, StyleEnds(x)
          PROVE  \A z \in msSessions' : \/ \E s \in msSessions : s.of = z.of /\ s.from = z.from /\ s.to = z.to /\ (z.open => s.open)
                                        \/ \A s \in msSessions : ~(s.of = z.of /\ s.from = z.from)
      <4>1. PICK new : new = [x EXCEPT !.open = FALSE]
        OBVIOUS
      <4>2. x \in msSessions /\ msSessions' = (msSessions \ {x}) \cup {new}
        BY <4>1, <3>5 DEF StyleEnds, StyleCurrent
      <4>3. new.of = x.of /\ new.from = x.from /\ new.to = x.to /\ ~ new.open
        BY <4>1, <4>2, <2>0 DEF StyleSession
      <4> QED
        BY <4>2, <4>3
    <3> QED
      BY <3>1, <3>3, <3>4, <3>5 DEF StyleNext, StyleTick, StyleStart, StylePass, StyleLook, StyleFails, StyleStop, StyleObserve, StyleAnswer, StyleEnable
  <2>4. ASSUME NEW s \in msSessions, ~ StyleActive(s), NEW z \in msSessions', z.of = s.of, z.from = s.from PROVE ~ StyleActive(z)'
    <3>1. PICK x \in msSessions : x.of = z.of /\ x.from = z.from /\ x.to = z.to /\ (z.open => x.open)
      BY <2>3, <2>4
    <3>2. x = s
      BY <3>1, <2>0, <2>4 DEF StyleSessionsApart
    <3>3. ~(s.open /\ s.to > msNow)
      BY <2>1, <2>4 DEF StyleLive
    <3> QED
      BY <3>1, <3>2, <3>3, <2>0, <2>2 DEF StyleActive
  <2> QED
    BY <2>4 DEF StyleEndedStays
<1> QED
  BY <1>1, StyleAlways, PTL DEF StyleSpec

----------------------------------------------------------------------------
(***************************************************************************)
(* Theorems about what a member means to the persona, for any proposals    *)
(* and evaluations.                                                        *)
(***************************************************************************)

(***************************************************************************)
(* The inductive invariant.  Every event is written once; what a frame was *)
(* given is remembered, so that the repairs of its verdict name something; *)
(* a memory is of an accepted event and is resolved by a repair of it.     *)
(***************************************************************************)
RelIds == {p.id : p \in RelTold}
RelAcceptedOf(events) == {i \in DOMAIN events : events[i].outcome = "ACCEPT"}
RelBooksSound ==
  /\ relMode \in RelModes /\ relEvents \in Seq(RelDecision) /\ relLeft \in [DOMAIN RelEvaluations -> RelProgress]
  /\ \A i, j \in 1 .. Len(relEvents) : relEvents[i].proposal.id = relEvents[j].proposal.id => i = j
RelSumSound ==
  /\ relValue = RelReplay(relEvents)
  /\ relEvidence = {relEvents[i].proposal.id : i \in {k \in RelAcceptedOf(relEvents) : relEvents[k].proposal.kind # "repair_attempt"}}
RelGainsSound(events) ==
  \A day : /\ RelGained(events, day, RelKinds \ {"repair_confirmed"}) <= RelGained(events, day, RelKinds)
           /\ RelGained(events, day, RelKinds \ {"repair_confirmed"}) <= RelBudget
RelHealedBy(events, id) == {j \in RelAcceptedOf(events) : RelResolves(events[j].proposal, id)}
RelMemorySound ==
  /\ DOMAIN relMemory \subseteq RelIds
  /\ \A id \in DOMAIN relMemory : /\ relMemory[id] \in RelRecord /\ relMemory[id].proposal.id = id
                                  /\ \E i \in RelAcceptedOf(relEvents) : relEvents[i].proposal = relMemory[id].proposal
                                  /\ relMemory[id].by = "none" <=> RelHealedBy(relEvents, id) = {}
  /\ \A i \in RelAcceptedOf(relEvents) : RelWorthy(relEvents[i].proposal) => relEvents[i].proposal.id \in DOMAIN relMemory
  /\ \A j \in RelAcceptedOf(relEvents) : relEvents[j].proposal.kind = "repair_confirmed" =>
        \E i \in 1 .. j - 1 : relEvents[i].proposal.id = relEvents[j].proposal.repairs
RelFramesSound ==
  /\ relSupplied \in [DOMAIN RelEvaluations -> SUBSET DOMAIN relMemory]
  /\ \A e \in DOMAIN RelEvaluations : \A i \in 1 .. Len(relLeft[e].rest) : RelMayName(RelProposals[relLeft[e].rest[i]], relSupplied[e])
RelInductive == RelBooksSound /\ RelSumSound /\ RelGainsSound(relEvents) /\ RelMemorySound /\ RelFramesSound

(***************************************************************************)
(* Recursion over the positions of a sequence: what holds at 0 and of each *)
(* position that follows one it holds of holds of all, and a step has a    *)
(* function that follows it.                                               *)
(***************************************************************************)
LEMMA RelUpTo ==
  ASSUME NEW N \in Nat, NEW S, 0 \in S, \A n \in 1 .. N : n - 1 \in S => n \in S
  PROVE  \A n \in 0 .. N : n \in S
<1> DEFINE T == {n \in Nat : n <= N /\ n \notin S}
<1>1. SUFFICES T = {}
  OBVIOUS
<1>2. SUFFICES ASSUME T # {} PROVE FALSE
  OBVIOUS
<1>3. PICK m \in T : \A n \in T : ~(<<n, m>> \in OpToRel(<, Nat))
  <2>1. T \in SUBSET Nat
    OBVIOUS
  <2> QED
    BY <1>2, <2>1, NatLessThanWellFounded, WFMin
<1>4. \A n \in T : ~(n < m)
  BY <1>3 DEF OpToRel
<1>5. m # 0 /\ m - 1 \in Nat /\ m \in 1 .. N
  OBVIOUS
<1>6. m - 1 \notin T
  BY <1>4, <1>5
<1> QED
  BY <1>5, <1>6

RelFollows(f, zero, N, step) == f[0] = zero /\ \A n \in 1 .. N : f[n] = step[<<f[n - 1], n>>]

LEMMA RelFolds ==
  ASSUME NEW S, NEW zero \in S, NEW N \in Nat, NEW step \in [S \X (1 .. N) -> S]
  PROVE  \E f \in [0 .. N -> S] : RelFollows(f, zero, N, step)
<1> DEFINE Is(f, m) == f[0] = zero /\ \A n \in 1 .. m : f[n] = step[<<f[n - 1], n>>]
           R == {m \in 0 .. N : \E f \in [0 .. m -> S] : Is(f, m)}
<1>1. 0 \in R
  <2> DEFINE g == [i \in 0 .. 0 |-> zero]
  <2>1. g \in [0 .. 0 -> S] /\ Is(g, 0)
    OBVIOUS
  <2>2. 0 \in 0 .. N
    OBVIOUS
  <2> HIDE DEF g
  <2> QED
    BY <2>1, <2>2
<1>2. ASSUME NEW m \in 1 .. N, m - 1 \in R PROVE m \in R
  <2>1. PICK f \in [0 .. m - 1 -> S] : Is(f, m - 1)
    BY <1>2
  <2> DEFINE g == [i \in 0 .. m |-> IF i = m THEN step[<<f[m - 1], m>>] ELSE f[i]]
  <2>2. step[<<f[m - 1], m>>] \in S
    <3>1. f[m - 1] \in S
      BY <2>1
    <3> QED
      BY <3>1
  <2>3. g \in [0 .. m -> S]
    BY <2>2
  <2>4. g[0] = zero
    BY <2>1
  <2>5. ASSUME NEW n \in 1 .. m PROVE g[n] = step[<<g[n - 1], n>>]
    <3>1. n - 1 \in 0 .. m /\ n - 1 # m /\ g[n - 1] = f[n - 1]
      OBVIOUS
    <3>2. CASE n = m
      BY <3>1, <3>2
    <3>3. CASE n # m
      <4>1. n \in 1 .. m - 1 /\ g[n] = f[n]
        BY <3>3
      <4> QED
        BY <2>1, <3>1, <4>1
    <3> QED
      BY <3>2, <3>3
  <2> HIDE DEF g
  <2> QED
    BY <2>3, <2>4, <2>5
<1>3. \A m \in 0 .. N : m \in R
  <2> HIDE DEF R
  <2> QED
    BY <1>1, <1>2, RelUpTo
<1>4. N \in R
  BY <1>3
<1> QED
  BY <1>4 DEF RelFollows

(***************************************************************************)
(* What the operators on proposals and events give.                        *)
(***************************************************************************)
LEMMA RelAmountsAreWhole ==
  ASSUME NEW k \in DOMAIN RelAmounts, NEW v \in 1 .. 4
  PROVE  RelAmounts[k][v] \in Int /\ RelDimensionOf[k] \in RelDimensions
<1>1. v = 1 \/ v = 2 \/ v = 3 \/ v = 4
  OBVIOUS
<1>2. /\ RelAmounts[k] \in {<<1, 1, 1, 1>>, <<1, 2, 4, 6>>, <<1, 1, 2, 2>>, <<2, 2, 4, 6>>, <<1, 3, 8, 15>>, <<-1, -2, -4, -6>>}
      /\ RelDimensionOf[k] \in RelDimensions
  BY DEF RelAmounts, RelDimensionOf, RelDimensions
<1> QED
  BY <1>1, <1>2

\* A verdict holds no repair but of what the frame was given (_relationship_observations).
LEMMA RelVerdictNames ==
  ASSUME NEW told \in Seq(DOMAIN RelProposals), NEW supplied
  PROVE  RelVerdict(told, supplied) \in Seq({p \in DOMAIN RelProposals : RelMayName(RelProposals[p], supplied)})
<1> DEFINE N == Len(told)
           Good == {p \in DOMAIN RelProposals : RelMayName(RelProposals[p], supplied)}
           On(v, n) == IF RelMayName(RelProposals[told[n]], supplied) THEN Append(v, told[n]) ELSE v
           step == [q \in Seq(Good) \X (1 .. N) |-> On(q[1], q[2])]
           may == CHOOSE f : f = [n \in 0 .. N |-> IF n = 0 THEN <<>> ELSE On(f[n - 1], n)]
<1>1. RelVerdict(told, supplied) = may[N]
  BY DEF RelVerdict
<1>2. N \in Nat /\ <<>> \in Seq(Good) /\ \A n \in 1 .. N : told[n] \in DOMAIN RelProposals
  BY LenProperties, ElementOfSeq, EmptySeq
<1>3. ASSUME NEW v \in Seq(Good), NEW n \in 1 .. N PROVE On(v, n) \in Seq(Good)
  BY <1>2
<1>4. step \in [Seq(Good) \X (1 .. N) -> Seq(Good)] /\ \A v \in Seq(Good), n \in 1 .. N : step[<<v, n>>] = On(v, n)
  BY <1>3
<1> HIDE DEF Good, On, step, N
<1>5. PICK f \in [0 .. N -> Seq(Good)] : RelFollows(f, <<>>, N, step)
  <2>1. <<>> \in Seq(Good) /\ N \in Nat /\ step \in [Seq(Good) \X (1 .. N) -> Seq(Good)]
    BY <1>2, <1>4
  <2> QED
    BY <2>1, RelFolds
<1>6. ASSUME NEW n \in 0 .. N PROVE f[n] = IF n = 0 THEN <<>> ELSE On(f[n - 1], n)
  <2>1. CASE n = 0
    BY <2>1, <1>5 DEF RelFollows
  <2>2. CASE n # 0
    <3>1. n \in 1 .. N /\ n - 1 \in 0 .. N
      BY <1>2, <2>2
    <3>2. f[n - 1] \in Seq(Good) /\ f[n] = step[<<f[n - 1], n>>]
      BY <1>5, <2>2, <3>1 DEF RelFollows
    <3>3. step[<<f[n - 1], n>>] = On(f[n - 1], n)
      BY <1>4, <3>1, <3>2
    <3> QED
      BY <2>2, <3>2, <3>3
  <2> QED
    BY <2>1, <2>2
<1>7. f = [n \in 0 .. N |-> IF n = 0 THEN <<>> ELSE On(f[n - 1], n)]
  BY <1>5, <1>6
<1>8. may = [n \in 0 .. N |-> IF n = 0 THEN <<>> ELSE On(may[n - 1], n)]
  BY <1>7
<1> HIDE DEF may
<1>9. \A n \in 0 .. N : n \in {i \in 0 .. N : may[i] \in Seq(Good)}
  <2> DEFINE T == {i \in 0 .. N : may[i] \in Seq(Good)}
  <2>1. 0 \in T
    BY <1>2, <1>8
  <2>2. ASSUME NEW n \in 1 .. N, n - 1 \in T PROVE n \in T
    <3>1. n \in 0 .. N /\ n # 0 /\ n - 1 \in 0 .. N /\ may[n - 1] \in Seq(Good)
      BY <1>2, <2>2
    <3>2. may[n] = On(may[n - 1], n)
      BY <1>8, <3>1
    <3> QED
      BY <3>1, <3>2, <1>3
  <2> HIDE DEF T
  <2>3. \A n \in 0 .. N : n \in T
    BY <1>2, <2>1, <2>2, RelUpTo
  <2> QED
    BY <2>3 DEF T
<1>10. may[N] \in Seq(Good)
  BY <1>2, <1>9
<1> QED
  BY <1>1, <1>10 DEF Good

LEMMA RelGainIsWhole ==
  ASSUME NEW event \in RelDecision, NEW day, NEW kinds
  PROVE  RelGain(event, day, kinds) \in Nat
BY DEF RelGain, RelDecision

LEMMA RelAddedIsProjection ==
  ASSUME NEW value \in RelProjection, NEW event \in RelDecision
  PROVE  RelAdded(value, event) \in RelProjection
<1>1. event.proposal \in RelTold /\ event.proposal.kind \in RelKinds /\ event.proposal.severity \in 1 .. 4
  BY RelConstants DEF RelDecision, RelTold
<1>2. event.proposal.kind # "repair_attempt" => RelAmounts[event.proposal.kind][event.proposal.severity] \in Int
  BY <1>1, RelAmountsAreWhole DEF RelKinds
<1>3. \A v \in Int : RelClamp(v) \in -100 .. 100
  BY DEF RelClamp
<1>4. ASSUME NEW d \in RelDimensions PROVE RelAdded(value, event)[d] \in -100 .. 100
  <2> DEFINE counts == event.outcome = "ACCEPT" /\ event.proposal.kind # "repair_attempt" /\ RelDimensionOf[event.proposal.kind] = d
             amount == RelAmounts[event.proposal.kind][event.proposal.severity]
  <2>1. value[d] \in -100 .. 100
    BY DEF RelProjection
  <2>2. RelAdded(value, event)[d] = IF counts THEN RelClamp(value[d] + amount) ELSE value[d]
    BY DEF RelAdded
  <2>3. counts => amount \in Int
    BY <1>2
  <2> HIDE DEF counts, amount
  <2>4. counts => value[d] + amount \in Int
    BY <2>1, <2>3
  <2> QED
    BY <2>1, <2>2, <2>4, <1>3
<1> QED
  BY <1>4 DEF RelAdded, RelProjection

\* What a day has gained, with one event more.
LEMMA RelGainedOnward ==
  ASSUME NEW events \in Seq(RelDecision), NEW event \in RelDecision, NEW day, NEW kinds
  PROVE  /\ RelGained(<<>>, day, kinds) = 0 /\ RelGained(events, day, kinds) \in Nat
         /\ RelGained(Append(events, event), day, kinds) = RelGained(events, day, kinds) + RelGain(event, day, kinds)
<1> DEFINE Sum(s) == CHOOSE f : f = [n \in 0 .. Len(s) |-> IF n = 0 THEN 0 ELSE f[n - 1] + RelGain(s[n], day, kinds)]
<1>1. ASSUME NEW s \in Seq(RelDecision)
      PROVE  /\ Sum(s) = [n \in 0 .. Len(s) |-> IF n = 0 THEN 0 ELSE Sum(s)[n - 1] + RelGain(s[n], day, kinds)]
             /\ \A n \in 0 .. Len(s) : Sum(s)[n] \in Nat
             /\ RelGained(s, day, kinds) = Sum(s)[Len(s)]
  <2> DEFINE N == Len(s)
             G == [n \in 1 .. N |-> RelGain(s[n], day, kinds)]
             step == [q \in Nat \X (1 .. N) |-> q[1] + G[q[2]]]
             sum == Sum(s)
  <2>1. RelGained(s, day, kinds) = sum[N]
    BY DEF RelGained
  <2>2. N \in Nat /\ 0 \in Nat
    BY LenProperties
  <2>3. \A n \in 1 .. N : G[n] \in Nat /\ G[n] = RelGain(s[n], day, kinds)
    BY ElementOfSeq, RelGainIsWhole
  <2> HIDE DEF G
  <2>4. step \in [Nat \X (1 .. N) -> Nat] /\ \A v \in Nat, n \in 1 .. N : step[<<v, n>>] = v + G[n]
    BY <2>3
  <2> HIDE DEF step, N
  <2>5. PICK f \in [0 .. N -> Nat] : RelFollows(f, 0, N, step)
    <3>1. 0 \in Nat /\ N \in Nat /\ step \in [Nat \X (1 .. N) -> Nat]
      BY <2>2, <2>4
    <3> QED
      BY <3>1, RelFolds
  <2>6. ASSUME NEW n \in 0 .. N PROVE f[n] = IF n = 0 THEN 0 ELSE f[n - 1] + RelGain(s[n], day, kinds)
    <3>1. CASE n = 0
      BY <3>1, <2>5 DEF RelFollows
    <3>2. CASE n # 0
      <4>1. n \in 1 .. N /\ n - 1 \in 0 .. N
        BY <2>2, <3>2
      <4>2. f[n - 1] \in Nat /\ f[n] = step[<<f[n - 1], n>>]
        BY <2>5, <3>2, <4>1 DEF RelFollows
      <4>3. step[<<f[n - 1], n>>] = f[n - 1] + G[n]
        BY <2>4, <4>1, <4>2
      <4> QED
        BY <2>3, <3>2, <4>1, <4>2, <4>3
    <3> QED
      BY <3>1, <3>2
  <2>7. f = [n \in 0 .. N |-> IF n = 0 THEN 0 ELSE f[n - 1] + RelGain(s[n], day, kinds)]
    BY <2>5, <2>6
  <2>8. sum = [n \in 0 .. N |-> IF n = 0 THEN 0 ELSE sum[n - 1] + RelGain(s[n], day, kinds)]
    BY <2>7 DEF N
  <2> HIDE DEF sum
  <2> DEFINE T == {i \in 0 .. N : sum[i] \in Nat}
  <2>9. 0 \in T
    BY <2>2, <2>8
  <2>10. ASSUME NEW n \in 1 .. N, n - 1 \in T PROVE n \in T
    <3>1. n \in 0 .. N /\ n # 0 /\ sum[n - 1] \in Nat
      BY <2>2, <2>10
    <3>2. sum[n] = sum[n - 1] + RelGain(s[n], day, kinds)
      BY <2>8, <3>1
    <3> QED
      BY <2>3, <3>1, <3>2
  <2> HIDE DEF T
  <2>11. \A n \in 0 .. N : n \in T
    BY <2>2, <2>9, <2>10, RelUpTo
  <2> QED
    BY <2>1, <2>8, <2>11 DEF T, N, sum
<1> HIDE DEF Sum
<1>2. <<>> \in Seq(RelDecision) /\ Len(<<>>) = 0 /\ Len(events) \in Nat
  BY EmptySeq, LenProperties
<1>3. RelGained(<<>>, day, kinds) = 0
  <2>1. 0 \in 0 .. Len(<<>>)
    BY <1>2
  <2> QED
    BY <1>1, <1>2, <2>1
<1>4. RelGained(events, day, kinds) \in Nat
  BY <1>1, <1>2
<1>5. RelGained(Append(events, event), day, kinds) = RelGained(events, day, kinds) + RelGain(event, day, kinds)
  <2> DEFINE more == Append(events, event)
             N == Len(events)
             f == Sum(events)
             g == Sum(more)
  <2>1. more \in Seq(RelDecision) /\ Len(more) = N + 1 /\ N \in Nat /\ more[N + 1] = event /\ \A n \in 1 .. N : more[n] = events[n]
    BY <1>2
  <2>2. g = [n \in 0 .. N + 1 |-> IF n = 0 THEN 0 ELSE g[n - 1] + RelGain(more[n], day, kinds)] /\ RelGained(more, day, kinds) = g[N + 1]
    BY <1>1, <2>1
  <2>3. f = [n \in 0 .. N |-> IF n = 0 THEN 0 ELSE f[n - 1] + RelGain(events[n], day, kinds)] /\ RelGained(events, day, kinds) = f[N]
    BY <1>1
  <2> HIDE DEF f, g, N, more
  <2> DEFINE T == {i \in 0 .. N : f[i] = g[i]}
  <2>4. 0 \in T
    BY <2>1, <2>2, <2>3
  <2>5. ASSUME NEW n \in 1 .. N, n - 1 \in T PROVE n \in T
    <3>1. n \in 0 .. N /\ n \in 0 .. N + 1 /\ n # 0 /\ f[n - 1] = g[n - 1] /\ more[n] = events[n]
      BY <2>1, <2>5
    <3>2. f[n] = f[n - 1] + RelGain(events[n], day, kinds) /\ g[n] = g[n - 1] + RelGain(more[n], day, kinds)
      BY <2>2, <2>3, <3>1
    <3> QED
      BY <3>1, <3>2
  <2> HIDE DEF T
  <2>6. \A n \in 0 .. N : n \in T
    BY <2>1, <2>4, <2>5, RelUpTo
  <2>7. f[N] = g[N]
    BY <2>1, <2>6 DEF T
  <2>8. g[N + 1] = g[N] + RelGain(more[N + 1], day, kinds)
    BY <2>1, <2>2
  <2> QED
    BY <2>1, <2>2, <2>3, <2>7, <2>8 DEF more
<1> QED
  BY <1>3, <1>4, <1>5

\* What the events add up to, with one event more.
LEMMA RelReplayOnward ==
  ASSUME NEW events \in Seq(RelDecision), NEW event \in RelDecision
  PROVE  /\ RelReplay(<<>>) = RelStart /\ RelReplay(events) \in RelProjection
         /\ RelReplay(Append(events, event)) = RelAdded(RelReplay(events), event)
<1> DEFINE Value(s) == CHOOSE f : f = [n \in 0 .. Len(s) |-> IF n = 0 THEN RelStart ELSE RelAdded(f[n - 1], s[n])]
<1>1. ASSUME NEW s \in Seq(RelDecision)
      PROVE  /\ Value(s) = [n \in 0 .. Len(s) |-> IF n = 0 THEN RelStart ELSE RelAdded(Value(s)[n - 1], s[n])]
             /\ \A n \in 0 .. Len(s) : Value(s)[n] \in RelProjection
             /\ RelReplay(s) = Value(s)[Len(s)]
  <2> DEFINE N == Len(s)
             step == [q \in RelProjection \X (1 .. N) |-> RelAdded(q[1], s[q[2]])]
             value == Value(s)
  <2>1. RelReplay(s) = value[N]
    BY DEF RelReplay
  <2>2. N \in Nat /\ RelStart \in RelProjection
    BY LenProperties DEF RelStart, RelProjection
  <2>3. \A n \in 1 .. N, v \in RelProjection : RelAdded(v, s[n]) \in RelProjection
    BY ElementOfSeq, RelAddedIsProjection
  <2>4. step \in [RelProjection \X (1 .. N) -> RelProjection] /\ \A v \in RelProjection, n \in 1 .. N : step[<<v, n>>] = RelAdded(v, s[n])
    BY <2>3
  <2> HIDE DEF step, N
  <2>5. PICK f \in [0 .. N -> RelProjection] : RelFollows(f, RelStart, N, step)
    <3>1. RelStart \in RelProjection /\ N \in Nat /\ step \in [RelProjection \X (1 .. N) -> RelProjection]
      BY <2>2, <2>4
    <3> QED
      BY <3>1, RelFolds
  <2>6. ASSUME NEW n \in 0 .. N PROVE f[n] = IF n = 0 THEN RelStart ELSE RelAdded(f[n - 1], s[n])
    <3>1. CASE n = 0
      BY <3>1, <2>5 DEF RelFollows
    <3>2. CASE n # 0
      <4>1. n \in 1 .. N /\ n - 1 \in 0 .. N
        BY <2>2, <3>2
      <4>2. f[n - 1] \in RelProjection /\ f[n] = step[<<f[n - 1], n>>]
        BY <2>5, <3>2, <4>1 DEF RelFollows
      <4>3. step[<<f[n - 1], n>>] = RelAdded(f[n - 1], s[n])
        BY <2>4, <4>1, <4>2
      <4> QED
        BY <2>3, <3>2, <4>1, <4>2, <4>3
    <3> QED
      BY <3>1, <3>2
  <2>7. f = [n \in 0 .. N |-> IF n = 0 THEN RelStart ELSE RelAdded(f[n - 1], s[n])]
    BY <2>5, <2>6
  <2>8. value = [n \in 0 .. N |-> IF n = 0 THEN RelStart ELSE RelAdded(value[n - 1], s[n])]
    BY <2>7 DEF N
  <2> HIDE DEF value
  <2> DEFINE T == {i \in 0 .. N : value[i] \in RelProjection}
  <2>9. 0 \in T
    BY <2>2, <2>8
  <2>10. ASSUME NEW n \in 1 .. N, n - 1 \in T PROVE n \in T
    <3>1. n \in 0 .. N /\ n # 0 /\ value[n - 1] \in RelProjection
      BY <2>2, <2>10
    <3>2. value[n] = RelAdded(value[n - 1], s[n])
      BY <2>8, <3>1
    <3> QED
      BY <2>3, <3>1, <3>2
  <2> HIDE DEF T
  <2>11. \A n \in 0 .. N : n \in T
    BY <2>2, <2>9, <2>10, RelUpTo
  <2> QED
    BY <2>1, <2>8, <2>11 DEF T, N, value
<1> HIDE DEF Value
<1>2. <<>> \in Seq(RelDecision) /\ Len(<<>>) = 0 /\ Len(events) \in Nat
  BY EmptySeq, LenProperties
<1>3. RelReplay(<<>>) = RelStart
  <2>1. 0 \in 0 .. Len(<<>>)
    BY <1>2
  <2> QED
    BY <1>1, <1>2, <2>1
<1>4. RelReplay(events) \in RelProjection
  BY <1>1, <1>2
<1>5. RelReplay(Append(events, event)) = RelAdded(RelReplay(events), event)
  <2> DEFINE more == Append(events, event)
             N == Len(events)
             f == Value(events)
             g == Value(more)
  <2>1. more \in Seq(RelDecision) /\ Len(more) = N + 1 /\ N \in Nat /\ more[N + 1] = event /\ \A n \in 1 .. N : more[n] = events[n]
    BY <1>2
  <2>2. g = [n \in 0 .. N + 1 |-> IF n = 0 THEN RelStart ELSE RelAdded(g[n - 1], more[n])] /\ RelReplay(more) = g[N + 1]
    BY <1>1, <2>1
  <2>3. f = [n \in 0 .. N |-> IF n = 0 THEN RelStart ELSE RelAdded(f[n - 1], events[n])] /\ RelReplay(events) = f[N]
    BY <1>1
  <2> HIDE DEF f, g, N, more
  <2> DEFINE T == {i \in 0 .. N : f[i] = g[i]}
  <2>4. 0 \in T
    BY <2>1, <2>2, <2>3
  <2>5. ASSUME NEW n \in 1 .. N, n - 1 \in T PROVE n \in T
    <3>1. n \in 0 .. N /\ n \in 0 .. N + 1 /\ n # 0 /\ f[n - 1] = g[n - 1] /\ more[n] = events[n]
      BY <2>1, <2>5
    <3>2. f[n] = RelAdded(f[n - 1], events[n]) /\ g[n] = RelAdded(g[n - 1], more[n])
      BY <2>2, <2>3, <3>1
    <3> QED
      BY <3>1, <3>2
  <2> HIDE DEF T
  <2>6. \A n \in 0 .. N : n \in T
    BY <2>1, <2>4, <2>5, RelUpTo
  <2>7. f[N] = g[N]
    BY <2>1, <2>6 DEF T
  <2>8. g[N + 1] = RelAdded(g[N], more[N + 1])
    BY <2>1, <2>2
  <2> QED
    BY <2>1, <2>2, <2>3, <2>7, <2>8 DEF more
<1> QED
  BY <1>3, <1>4, <1>5

(***************************************************************************)
(* One event more.                                                         *)
(***************************************************************************)
LEMMA RelMore ==
  ASSUME NEW events \in Seq(RelDecision), NEW event \in RelDecision
  PROVE  LET more == Append(events, event)
             n == Len(events) + 1
         IN /\ more \in Seq(RelDecision) /\ Len(more) = n /\ n \in Nat \ {0} /\ more[n] = event
            /\ \A i \in 1 .. Len(events) : i \in 1 .. n /\ i # n /\ more[i] = events[i]
            /\ \A i \in 1 .. n : i = n \/ i \in 1 .. Len(events)
            /\ DOMAIN events = 1 .. Len(events) /\ DOMAIN more = 1 .. n
            /\ event.outcome = "ACCEPT" => RelAcceptedOf(more) = RelAcceptedOf(events) \cup {n}
            /\ event.outcome # "ACCEPT" => RelAcceptedOf(more) = RelAcceptedOf(events)
<1> DEFINE more == Append(events, event)
           n == Len(events) + 1
<1>1. more \in Seq(RelDecision) /\ Len(more) = n /\ n \in Nat \ {0} /\ more[n] = event /\ \A i \in 1 .. Len(events) : more[i] = events[i]
  BY LenProperties
<1>2. /\ \A i \in 1 .. Len(events) : i \in 1 .. n /\ i # n
      /\ \A i \in 1 .. n : i = n \/ i \in 1 .. Len(events)
  BY <1>1
<1>3. DOMAIN events = 1 .. Len(events) /\ DOMAIN more = 1 .. n
  BY <1>1, LenProperties
<1> HIDE DEF more, n
<1>4. n \in 1 .. n
  BY <1>1
<1>5. event.outcome = "ACCEPT" => RelAcceptedOf(more) = RelAcceptedOf(events) \cup {n}
  BY <1>1, <1>2, <1>3, <1>4 DEF RelAcceptedOf
<1>6. event.outcome # "ACCEPT" => RelAcceptedOf(more) = RelAcceptedOf(events)
  BY <1>1, <1>2, <1>3, <1>4 DEF RelAcceptedOf
<1> QED
  BY <1>1, <1>2, <1>3, <1>5, <1>6 DEF more, n

LEMMA RelTenthsAreWhole ==
  ASSUME NEW value \in RelProjection PROVE \A a \in RelTenths(value) : a \in Int
<1>1. \A d \in RelDimensions : value[d] \in Int
  BY DEF RelProjection
<1>2. /\ value["familiarity"] \in Int /\ value["warmth"] \in Int /\ value["trust"] \in Int /\ value["reciprocity"] \in Int
      /\ value["play"] \in Int /\ value["reliability"] \in Int /\ value["care"] \in Int /\ value["boundary"] \in Int
  BY <1>1 DEF RelDimensions
<1>3. RelRaw(value) \in Int
  BY <1>2 DEF RelRaw
<1> QED
  BY <1>3 DEF RelTenths

\* A decision that adds to a day leaves it within the budget (RelationshipEventPolicy.decide).
LEMMA RelDecides ==
  ASSUME relValue \in RelProjection, relEvents \in Seq(RelDecision), NEW p \in RelTold, NEW decision \in RelDecisions(p)
  PROVE  /\ decision.outcome \in {"ACCEPT", "REJECT"} /\ decision.delta \in Int
         /\ decision.outcome = "ACCEPT" /\ decision.delta > 0 /\ p.kind # "repair_confirmed" =>
               RelPositiveToday(p.day) + decision.delta <= RelBudget
         /\ p.kind \in RelKinds /\ p.severity \in 1 .. 4
<1>1. p.kind \in RelKinds /\ p.severity \in 1 .. 4
  BY RelConstants DEF RelTold
<1>2. CASE ~ p.sure \/ p.kind = "repair_attempt"
  BY <1>1, <1>2 DEF RelDecisions
<1>3. CASE p.sure /\ p.kind # "repair_attempt"
  <2>1. p.kind \in DOMAIN RelAmounts
    BY <1>1, <1>3 DEF RelKinds
  <2>2. RelApplied(relValue, p) \in RelProjection
    <3>1. PICK d, v : d = RelDimensionOf[p.kind] /\ v = RelClamp(relValue[d] + RelAmounts[p.kind][p.severity])
      OBVIOUS
    <3>5. d \in RelDimensions /\ RelAmounts[p.kind][p.severity] \in Int
      BY <1>1, <2>1, <3>1, RelAmountsAreWhole
    <3>2. relValue[d] \in -100 .. 100
      BY <3>5 DEF RelProjection
    <3>6. PICK a, b : a = relValue[d] /\ b = RelAmounts[p.kind][p.severity]
      OBVIOUS
    <3>7. a \in -100 .. 100 /\ b \in Int /\ v = RelClamp(a + b)
      BY <3>1, <3>2, <3>5, <3>6
    <3>8. a + b \in Int
      BY <3>7
    <3>3. v \in -100 .. 100
      BY <3>7, <3>8 DEF RelClamp
    <3>4. RelApplied(relValue, p) = [relValue EXCEPT ![d] = v]
      BY <3>1 DEF RelApplied
    <3> QED
      BY <3>3, <3>4, <3>5 DEF RelProjection
  <2>3. \A delta \in RelDeltas(p) : delta \in Int
    <3>1. \A a \in RelTenths(RelApplied(relValue, p)) : a \in Int
      BY <2>2, RelTenthsAreWhole
    <3>2. \A b \in RelTenths(relValue) : b \in Int
      BY RelTenthsAreWhole
    <3> QED
      BY <3>1, <3>2 DEF RelDeltas
  <2>4. PICK delta \in RelDeltas(p) :
          decision = IF delta > 0 /\ p.kind # "repair_confirmed" /\ RelOverBudget(p, delta)
                     THEN [outcome |-> "REJECT", delta |-> 0] ELSE [outcome |-> "ACCEPT", delta |-> delta]
    BY <1>3 DEF RelDecisions
  <2>5. CASE delta > 0 /\ p.kind # "repair_confirmed" /\ RelOverBudget(p, delta)
    BY <1>1, <2>4, <2>5
  <2>6. CASE ~ (delta > 0 /\ p.kind # "repair_confirmed" /\ RelOverBudget(p, delta))
    <3>1. decision.outcome = "ACCEPT" /\ decision.delta = delta /\ delta \in Int
      BY <2>3, <2>4, <2>6
    <3>2. delta > 0 /\ p.kind # "repair_confirmed" => ~ (RelPositiveToday(p.day) + delta > RelBudget)
      BY <2>6 DEF RelOverBudget
    <3>4. RelPositiveToday(p.day) \in Int
      <4>1. [proposal |-> p, delta |-> 0, outcome |-> "ACCEPT"] \in RelDecision
        BY DEF RelDecision
      <4> QED
        BY <4>1, RelGainedOnward DEF RelPositiveToday
    <3>3. delta > 0 /\ p.kind # "repair_confirmed" => RelPositiveToday(p.day) + delta <= RelBudget
      BY <3>1, <3>2, <3>4 DEF RelBudget
    <3> QED
      BY <1>1, <3>1, <3>3
  <2> QED
    BY <2>5, <2>6
<1> QED
  BY <1>2, <1>3

LEMMA RelScores ==
  ASSUME NEW value \in RelProjection, NEW event \in RelDecision
  PROVE  RelAdded(value, event) = IF event.outcome = "ACCEPT" /\ event.proposal.kind # "repair_attempt"
                                  THEN RelApplied(value, event.proposal) ELSE value
<1>1. value \in [RelDimensions -> -100 .. 100]
  BY DEF RelProjection
<1>2. CASE event.outcome = "ACCEPT" /\ event.proposal.kind # "repair_attempt"
  <2>1. PICK d : d = RelDimensionOf[event.proposal.kind]
    OBVIOUS
  <2>2. RelApplied(value, event.proposal) = [value EXCEPT ![d] = RelClamp(@ + RelAmounts[event.proposal.kind][event.proposal.severity])]
    BY <2>1 DEF RelApplied
  <2>3. RelAdded(value, event) =
          [k \in RelDimensions |-> IF d = k THEN RelClamp(value[k] + RelAmounts[event.proposal.kind][event.proposal.severity]) ELSE value[k]]
    BY <1>2, <2>1 DEF RelAdded
  <2> QED
    BY <1>1, <1>2, <2>2, <2>3
<1>3. CASE ~ (event.outcome = "ACCEPT" /\ event.proposal.kind # "repair_attempt")
  <2>1. RelAdded(value, event) = [k \in RelDimensions |-> value[k]]
    BY <1>3 DEF RelAdded
  <2> QED
    BY <1>1, <1>3, <2>1
<1> QED
  BY <1>2, <1>3

\* What remembering an event leaves (_persist_relationship_memory).
LEMMA RelRemembers ==
  ASSUME NEW p \in RelTold, p.id \notin DOMAIN relMemory
  PROVE  LET m == RelRemembered(p) IN
         /\ DOMAIN m = DOMAIN relMemory \cup (IF RelWorthy(p) THEN {p.id} ELSE {})
         /\ \A id \in DOMAIN relMemory :
               m[id] = IF RelResolves(p, id) /\ relMemory[id].by = "none" THEN [relMemory[id] EXCEPT !.by = p.id] ELSE relMemory[id]
         /\ RelWorthy(p) => m[p.id] = [proposal |-> p, by |-> "none"]
<1> DEFINE resolved == [id \in DOMAIN relMemory |->
                          IF RelResolves(p, id) /\ relMemory[id].by = "none" THEN [relMemory[id] EXCEPT !.by = p.id] ELSE relMemory[id]]
           new == [id \in {p.id} |-> [proposal |-> p, by |-> "none"]]
<1>1. DOMAIN resolved = DOMAIN relMemory
  OBVIOUS
<1>2. CASE ~ RelWorthy(p)
  <2>1. RelRemembered(p) = resolved
    BY <1>2 DEF RelRemembered
  <2> QED
    BY <1>2, <2>1
<1>3. CASE RelWorthy(p)
  <2>1. RelRemembered(p) = [id \in DOMAIN resolved \cup {p.id} |-> IF id \in DOMAIN resolved THEN resolved[id] ELSE new[id]]
    BY <1>3 DEF RelRemembered
  <2>2. new[p.id] = [proposal |-> p, by |-> "none"]
    OBVIOUS
  <2>3. \A id \in DOMAIN relMemory : resolved[id] =
          IF RelResolves(p, id) /\ relMemory[id].by = "none" THEN [relMemory[id] EXCEPT !.by = p.id] ELSE relMemory[id]
    OBVIOUS
  <2> HIDE DEF resolved, new
  <2> QED
    BY <1>1, <1>3, <2>1, <2>2, <2>3
<1> QED
  BY <1>2, <1>3

LEMMA RelWrites ==
  ASSUME RelInductive, NEW p \in RelTold, NEW mode \in RelModes, ~ RelKnown(p.id), p.kind = "repair_confirmed" => p.repairs \in DOMAIN relMemory,
         NEW decision \in RelDecisions(p), RelWrite(p, mode, decision)
  PROVE  /\ relEvents' \in Seq(RelDecision) /\ \A i, j \in 1 .. Len(relEvents') : relEvents'[i].proposal.id = relEvents'[j].proposal.id => i = j
         /\ RelSumSound' /\ RelGainsSound(relEvents)' /\ RelMemorySound' /\ DOMAIN relMemory \subseteq DOMAIN relMemory'
<1>1. /\ relEvents \in Seq(RelDecision) /\ \A i, j \in 1 .. Len(relEvents) : relEvents[i].proposal.id = relEvents[j].proposal.id => i = j
      /\ RelSumSound /\ RelGainsSound(relEvents) /\ RelMemorySound
  BY DEF RelInductive, RelBooksSound
<1>2. relValue \in RelProjection
  <2>1. CASE RelDecision = {}
    <3>1. [proposal |-> p, delta |-> 0, outcome |-> "ACCEPT"] \in RelDecision
      BY DEF RelDecision
    <3> QED
      BY <2>1, <3>1
  <2>2. CASE RelDecision # {}
    BY <1>1, <2>2, RelReplayOnward DEF RelSumSound
  <2> QED
    BY <2>1, <2>2
<1>3. /\ decision.outcome \in {"ACCEPT", "REJECT"} /\ decision.delta \in Int
      /\ decision.outcome = "ACCEPT" /\ decision.delta > 0 /\ p.kind # "repair_confirmed" => RelPositiveToday(p.day) + decision.delta <= RelBudget
      /\ p.kind \in RelKinds /\ p.severity \in 1 .. 4
  BY <1>1, <1>2, RelDecides
<1> DEFINE counts == decision.outcome = "ACCEPT" /\ RelCounts(mode)
<1>4. PICK event : event = [proposal |-> p, delta |-> decision.delta,
                            outcome |-> IF decision.outcome = "ACCEPT" /\ mode = "SHADOW" THEN "SUGGEST" ELSE decision.outcome]
  OBVIOUS
<1>5. /\ relEvents' = Append(relEvents, event)
      /\ relValue' = IF counts /\ p.kind # "repair_attempt" THEN RelApplied(relValue, p) ELSE relValue
      /\ relEvidence' = IF counts /\ p.kind # "repair_attempt" THEN relEvidence \cup {p.id} ELSE relEvidence
      /\ relMemory' = IF counts THEN RelRemembered(p) ELSE relMemory
  BY <1>4 DEF RelWrite
<1>6. event \in RelDecision /\ event.proposal = p /\ event.delta = decision.delta /\ (event.outcome = "ACCEPT" <=> counts)
  BY <1>3, <1>4 DEF RelDecision, RelCounts, RelModes
<1> HIDE DEF counts
<1>7. PICK n, old, more : n = Len(relEvents) + 1 /\ old = relEvents /\ more = relEvents'
  OBVIOUS
<1>8. /\ more \in Seq(RelDecision) /\ Len(more) = n /\ n \in Nat \ {0} /\ more[n] = event
      /\ \A i \in 1 .. Len(old) : i \in 1 .. n /\ i # n /\ more[i] = old[i]
      /\ \A i \in 1 .. n : i = n \/ i \in 1 .. Len(old)
      /\ DOMAIN old = 1 .. Len(old) /\ DOMAIN more = 1 .. n
      /\ counts => RelAcceptedOf(more) = RelAcceptedOf(old) \cup {n}
      /\ ~ counts => RelAcceptedOf(more) = RelAcceptedOf(old)
  BY <1>1, <1>5, <1>6, <1>7, RelMore
<1>9. \A i \in 1 .. Len(old) : old[i].proposal.id # p.id
  BY <1>7, <1>8 DEF RelKnown
<1>10. \A i, j \in 1 .. Len(more) : more[i].proposal.id = more[j].proposal.id => i = j
  <2> SUFFICES ASSUME NEW i \in 1 .. n, NEW j \in 1 .. n, more[i].proposal.id = more[j].proposal.id PROVE i = j
    BY <1>8
  <2> QED
    BY <1>1, <1>6, <1>7, <1>8, <1>9
<1>11. \A i \in RelAcceptedOf(old) : i \in 1 .. Len(old) /\ more[i] = old[i]
  BY <1>8 DEF RelAcceptedOf
<1>12. RelSumSound'
  <2>1. relValue' = RelReplay(more)
    <3>1. RelReplay(more) = RelAdded(relValue, event)
      BY <1>1, <1>5, <1>6, <1>7, RelReplayOnward DEF RelSumSound
    <3> QED
      BY <1>2, <1>5, <1>6, <3>1, RelScores
  <2>2. relEvidence = {old[i].proposal.id : i \in {k \in RelAcceptedOf(old) : old[k].proposal.kind # "repair_attempt"}}
    BY <1>1, <1>7 DEF RelSumSound
  <2>3. relEvidence' = {more[i].proposal.id : i \in {k \in RelAcceptedOf(more) : more[k].proposal.kind # "repair_attempt"}}
    <3>1. CASE counts /\ p.kind # "repair_attempt"
      BY <1>5, <1>6, <1>8, <1>11, <2>2, <3>1
    <3>2. CASE ~ (counts /\ p.kind # "repair_attempt")
      <4>1. {k \in RelAcceptedOf(more) : more[k].proposal.kind # "repair_attempt"} = {k \in RelAcceptedOf(old) : old[k].proposal.kind # "repair_attempt"}
        BY <1>6, <1>8, <1>11, <3>2
      <4> QED
        BY <1>5, <1>11, <2>2, <3>2, <4>1
    <3> QED
      BY <3>1, <3>2
  <2> QED
    BY <1>7, <2>1, <2>3 DEF RelSumSound
<1>13. RelGainsSound(more)
  <2> SUFFICES ASSUME NEW day
               PROVE  /\ RelGained(more, day, RelKinds \ {"repair_confirmed"}) <= RelGained(more, day, RelKinds)
                      /\ RelGained(more, day, RelKinds \ {"repair_confirmed"}) <= RelBudget
    BY DEF RelGainsSound
  <2>1. PICK a, b, c, d : /\ a = RelGained(old, day, RelKinds \ {"repair_confirmed"}) /\ b = RelGained(old, day, RelKinds)
                          /\ c = RelGain(event, day, RelKinds \ {"repair_confirmed"}) /\ d = RelGain(event, day, RelKinds)
    OBVIOUS
  <2>2. a \in Nat /\ b \in Nat /\ RelGained(more, day, RelKinds \ {"repair_confirmed"}) = a + c /\ RelGained(more, day, RelKinds) = b + d
    BY <1>1, <1>5, <1>6, <1>7, <2>1, RelGainedOnward
  <2>3. c \in Nat /\ d \in Nat
    BY <1>6, <2>1, RelGainIsWhole
  <2>4. a <= b /\ a <= RelBudget
    BY <1>1, <1>7, <2>1 DEF RelGainsSound
  <2>5. c <= d
    BY <1>3, <1>6, <2>1 DEF RelGain
  <2>6. c # 0 => b + c <= RelBudget
    <3>1. c # 0 => event.outcome = "ACCEPT" /\ p.day = day /\ p.kind # "repair_confirmed" /\ decision.delta > 0 /\ c = decision.delta
      BY <1>6, <2>1 DEF RelGain
    <3>2. c # 0 => decision.outcome = "ACCEPT"
      BY <1>6, <3>1 DEF counts
    <3>3. p.day = day => RelPositiveToday(p.day) = b
      BY <1>7, <2>1 DEF RelPositiveToday
    <3> QED
      BY <1>3, <3>1, <3>2, <3>3
  <2> QED
    BY <2>2, <2>3, <2>4, <2>5, <2>6 DEF RelBudget
<1>16. /\ \A id \in DOMAIN relMemory : relMemory[id].proposal.id = id
       /\ \A id \in DOMAIN relMemory : relMemory[id].by = "none" <=> RelHealedBy(old, id) = {}
  BY <1>1, <1>7 DEF RelMemorySound
<1>17. ASSUME NEW id \in DOMAIN relMemory PROVE \E i \in RelAcceptedOf(old) : old[i].proposal = relMemory[id].proposal
  <2>1. \E i \in RelAcceptedOf(relEvents) : relEvents[i].proposal = relMemory[id].proposal
    BY <1>1 DEF RelMemorySound
  <2> QED
    BY <2>1, <1>7
<1>14. p.id \notin DOMAIN relMemory
  <2>1. ASSUME p.id \in DOMAIN relMemory PROVE FALSE
    <3>1. PICK i \in RelAcceptedOf(old) : old[i].proposal = relMemory[p.id].proposal
      BY <1>17, <2>1
    <3> QED
      BY <1>9, <1>11, <1>16, <2>1, <3>1
  <2> QED
    BY <2>1
<1>15. RelMemorySound' /\ DOMAIN relMemory \subseteq DOMAIN relMemory'
  <2>1. CASE ~ counts
    <3>1. relMemory' = relMemory /\ RelAcceptedOf(more) = RelAcceptedOf(old)
      BY <1>5, <1>8, <2>1
    <3>2. \A id : RelHealedBy(more, id) = RelHealedBy(old, id)
      BY <1>11, <3>1 DEF RelHealedBy
    <3>3. \A j \in RelAcceptedOf(old) : \A i \in 1 .. j - 1 : i \in 1 .. Len(old)
      <4> SUFFICES ASSUME NEW j \in 1 .. Len(old), NEW i \in 1 .. j - 1 PROVE i \in 1 .. Len(old)
        BY <1>11
      <4>1. Len(old) \in Nat
        BY <1>1, <1>7, LenProperties
      <4> QED
        BY <4>1
    <3>4. DOMAIN relMemory' \subseteq RelIds
      BY <1>1, <3>1 DEF RelMemorySound
    <3>5. \A id \in DOMAIN relMemory' :
            /\ relMemory'[id] \in RelRecord /\ relMemory'[id].proposal.id = id
            /\ \E i \in RelAcceptedOf(more) : more[i].proposal = relMemory'[id].proposal
            /\ relMemory'[id].by = "none" <=> RelHealedBy(more, id) = {}
      BY <1>1, <1>7, <1>11, <3>1, <3>2 DEF RelMemorySound
    <3>6. \A i \in RelAcceptedOf(more) : RelWorthy(more[i].proposal) => more[i].proposal.id \in DOMAIN relMemory'
      BY <1>1, <1>7, <1>11, <3>1 DEF RelMemorySound
    <3>7. \A j \in RelAcceptedOf(more) : more[j].proposal.kind = "repair_confirmed" =>
            \E i \in 1 .. j - 1 : more[i].proposal.id = more[j].proposal.repairs
      BY <1>1, <1>7, <1>8, <1>11, <3>1, <3>3 DEF RelMemorySound
    <3> QED
      BY <1>7, <3>1, <3>4, <3>5, <3>6, <3>7 DEF RelMemorySound
  <2>2. CASE counts
    <3> DEFINE m == RelRemembered(p)
    <3>1. /\ DOMAIN m = DOMAIN relMemory \cup (IF RelWorthy(p) THEN {p.id} ELSE {})
          /\ \A id \in DOMAIN relMemory :
                m[id] = IF RelResolves(p, id) /\ relMemory[id].by = "none" THEN [relMemory[id] EXCEPT !.by = p.id] ELSE relMemory[id]
          /\ RelWorthy(p) => m[p.id] = [proposal |-> p, by |-> "none"]
      BY <1>14, RelRemembers
    <3>2. relMemory' = m /\ RelAcceptedOf(more) = RelAcceptedOf(old) \cup {n}
      BY <1>5, <1>8, <2>2
    <3> HIDE DEF m
    <3>3. p.id \in RelIds /\ p.id # "none"
      BY RelConstants DEF RelIds, RelTold
    <3>4. \A id : RelHealedBy(more, id) = RelHealedBy(old, id) \cup (IF RelResolves(p, id) THEN {n} ELSE {})
      BY <1>6, <1>8, <1>11, <3>2 DEF RelHealedBy
    <3>5. ASSUME NEW id \in DOMAIN relMemory
          PROVE  /\ m[id] \in RelRecord /\ m[id].proposal = relMemory[id].proposal
                 /\ m[id].by = "none" <=> relMemory[id].by = "none" /\ ~ RelResolves(p, id)
      <4>1. relMemory[id] \in RelRecord
        BY <1>1 DEF RelMemorySound
      <4>2. CASE RelResolves(p, id) /\ relMemory[id].by = "none"
        <5>1. m[id] = [relMemory[id] EXCEPT !.by = p.id]
          BY <3>1, <4>2
        <5> QED
          BY <3>3, <4>1, <4>2, <5>1 DEF RelRecord, RelIds
      <4>3. CASE ~ (RelResolves(p, id) /\ relMemory[id].by = "none")
        <5>1. m[id] = relMemory[id]
          BY <3>1, <4>3
        <5> QED
          BY <4>1, <4>3, <5>1
      <4> QED
        BY <4>2, <4>3
    <3>6. RelHealedBy(more, p.id) = {}
      <4>1. ~ RelResolves(p, p.id)
        BY <1>14 DEF RelResolves
      <4>2. ASSUME NEW j \in RelHealedBy(old, p.id) PROVE FALSE
        <5>1. j \in RelAcceptedOf(old) /\ old[j].proposal.kind = "repair_confirmed" /\ old[j].proposal.repairs = p.id
          BY <4>2 DEF RelHealedBy, RelResolves
        <5>2. PICK i \in 1 .. j - 1 : old[i].proposal.id = p.id
          BY <1>1, <1>7, <5>1 DEF RelMemorySound
        <5>3. j \in 1 .. Len(old) /\ Len(old) \in Nat
          BY <1>1, <1>7, <1>11, <5>1, LenProperties
        <5>4. i \in 1 .. Len(old)
          BY <5>3
        <5> QED
          BY <1>9, <5>2, <5>4
      <4> QED
        BY <3>4, <4>1, <4>2
    <3>7. DOMAIN m \subseteq RelIds
      BY <1>1, <3>1, <3>3 DEF RelMemorySound
    <3>8. ASSUME NEW id \in DOMAIN m
          PROVE  /\ m[id] \in RelRecord /\ m[id].proposal.id = id
                 /\ \E i \in RelAcceptedOf(more) : more[i].proposal = m[id].proposal
                 /\ m[id].by = "none" <=> RelHealedBy(more, id) = {}
      <4>1. CASE id \in DOMAIN relMemory
        <5>1. relMemory[id].proposal.id = id /\ (relMemory[id].by = "none" <=> RelHealedBy(old, id) = {})
          BY <1>16, <4>1
        <5>2. PICK i \in RelAcceptedOf(old) : old[i].proposal = relMemory[id].proposal
          BY <1>17, <4>1
        <5>3. i \in RelAcceptedOf(more) /\ more[i].proposal = m[id].proposal
          BY <1>11, <3>2, <3>5, <4>1, <5>2
        <5>4. m[id] \in RelRecord /\ m[id].proposal.id = id
          BY <3>5, <4>1, <5>1
        <5>5. m[id].by = "none" <=> RelHealedBy(more, id) = {}
          BY <3>4, <3>5, <4>1, <5>1
        <5> QED
          BY <5>3, <5>4, <5>5
      <4>2. CASE id \notin DOMAIN relMemory
        <5>1. id = p.id /\ m[id] = [proposal |-> p, by |-> "none"]
          BY <3>1, <4>2
        <5>2. n \in RelAcceptedOf(more) /\ more[n].proposal = p
          BY <1>6, <1>8, <3>2
        <5>3. m[id] \in RelRecord
          BY <5>1 DEF RelRecord
        <5> QED
          BY <3>6, <5>1, <5>2, <5>3
      <4> QED
        BY <4>1, <4>2
    <3>9. ASSUME NEW i \in RelAcceptedOf(more), RelWorthy(more[i].proposal) PROVE more[i].proposal.id \in DOMAIN m
      <4>1. CASE i = n
        BY <1>6, <1>8, <3>1, <3>9, <4>1
      <4>2. CASE i # n
        BY <1>1, <1>7, <1>11, <3>1, <3>2, <3>9, <4>2 DEF RelMemorySound
      <4> QED
        BY <4>1, <4>2
    <3>10. ASSUME NEW j \in RelAcceptedOf(more), more[j].proposal.kind = "repair_confirmed"
           PROVE  \E i \in 1 .. j - 1 : more[i].proposal.id = more[j].proposal.repairs
      <4>1. Len(old) \in Nat
        BY <1>1, <1>7, LenProperties
      <4>2. CASE j = n
        <5>1. p.repairs \in DOMAIN relMemory /\ more[j].proposal = p
          BY <1>6, <1>8, <3>10, <4>2
        <5>2. PICK i \in RelAcceptedOf(old) : old[i].proposal = relMemory[p.repairs].proposal
          BY <1>17, <5>1
        <5>3. i \in 1 .. Len(old) /\ more[i].proposal.id = p.repairs
          BY <1>11, <1>16, <5>1, <5>2
        <5>4. i \in 1 .. j - 1
          BY <1>7, <4>1, <4>2, <5>3
        <5> QED
          BY <5>1, <5>3, <5>4
      <4>3. CASE j # n
        <5>1. j \in RelAcceptedOf(old) /\ j \in 1 .. Len(old) /\ more[j] = old[j]
          BY <1>11, <3>2, <4>3
        <5>2. PICK i \in 1 .. j - 1 : old[i].proposal.id = old[j].proposal.repairs
          BY <1>1, <1>7, <3>10, <5>1 DEF RelMemorySound
        <5>3. i \in 1 .. Len(old)
          BY <4>1, <5>1
        <5> QED
          BY <1>8, <5>1, <5>2, <5>3
      <4> QED
        BY <4>2, <4>3
    <3> QED
      BY <1>7, <3>1, <3>2, <3>7, <3>8, <3>9, <3>10 DEF RelMemorySound
  <2> QED
    BY <2>1, <2>2
<1> QED
  BY <1>7, <1>8, <1>10, <1>12, <1>13, <1>15

(***************************************************************************)
(* The steps.                                                              *)
(***************************************************************************)
LEMMA RelStarts == ASSUME RelInit PROVE RelInductive
<1>1. relEvents = <<>> /\ Len(relEvents) = 0 /\ relEvents \in Seq(RelDecision) /\ DOMAIN relEvents = {}
  BY DEF RelInit
<1>2. RelAcceptedOf(relEvents) = {} /\ DOMAIN relMemory = {}
  BY <1>1 DEF RelInit, RelAcceptedOf
<1>3. RelBooksSound
  <2>1. RelAt("new") \in RelProgress /\ <<>> \in Seq(DOMAIN RelProposals)
    BY DEF RelAt, RelProgress, RelModes
  <2> QED
    BY <1>1, <2>1 DEF RelInit, RelBooksSound
<1>4. RelSumSound /\ RelGainsSound(relEvents)
  <2>1. RelReplay(relEvents) = RelStart
    <3> DEFINE h == CHOOSE f : f = [n \in 0 .. Len(relEvents) |-> IF n = 0 THEN RelStart ELSE RelAdded(f[n - 1], relEvents[n])]
               g == [n \in 0 .. 0 |-> RelStart]
    <3>1. g = [n \in 0 .. Len(relEvents) |-> IF n = 0 THEN RelStart ELSE RelAdded(g[n - 1], relEvents[n])]
      BY <1>1
    <3>2. h = [n \in 0 .. Len(relEvents) |-> IF n = 0 THEN RelStart ELSE RelAdded(h[n - 1], relEvents[n])]
      <4> HIDE DEF g
      <4> QED
        BY <3>1
    <3>3. RelReplay(relEvents) = h[Len(relEvents)]
      BY DEF RelReplay
    <3> HIDE DEF h
    <3> QED
      BY <1>1, <3>2, <3>3
  <2>2. ASSUME NEW day, NEW kinds PROVE RelGained(relEvents, day, kinds) = 0
    <3> DEFINE h == CHOOSE f : f = [n \in 0 .. Len(relEvents) |-> IF n = 0 THEN 0 ELSE f[n - 1] + RelGain(relEvents[n], day, kinds)]
               g == [n \in 0 .. 0 |-> 0]
    <3>1. g = [n \in 0 .. Len(relEvents) |-> IF n = 0 THEN 0 ELSE g[n - 1] + RelGain(relEvents[n], day, kinds)]
      BY <1>1
    <3>2. h = [n \in 0 .. Len(relEvents) |-> IF n = 0 THEN 0 ELSE h[n - 1] + RelGain(relEvents[n], day, kinds)]
      <4> HIDE DEF g
      <4> QED
        BY <3>1
    <3>3. RelGained(relEvents, day, kinds) = h[Len(relEvents)]
      BY DEF RelGained
    <3> HIDE DEF h
    <3> QED
      BY <1>1, <3>2, <3>3
  <2>3. RelGainsSound(relEvents)
    BY <2>2 DEF RelGainsSound, RelBudget
  <2> QED
    BY <1>2, <2>1, <2>3 DEF RelSumSound, RelInit
<1>5. RelMemorySound /\ RelFramesSound
  <2>1. relSupplied \in [DOMAIN RelEvaluations -> SUBSET DOMAIN relMemory]
    BY DEF RelInit
  <2>2. \A e \in DOMAIN RelEvaluations : Len(relLeft[e].rest) = 0
    BY DEF RelInit, RelAt
  <2> QED
    BY <1>2, <2>1, <2>2 DEF RelMemorySound, RelFramesSound
<1> QED
  BY <1>3, <1>4, <1>5 DEF RelInductive

LEMMA RelStill ==
  ASSUME RelInductive, UNCHANGED <<relEvents, relValue, relEvidence, relMemory>>
  PROVE  RelSumSound' /\ RelGainsSound(relEvents)' /\ RelMemorySound'
<1>1. RelGainsSound(relEvents)'
  BY DEF RelInductive, RelGainsSound
<1>2. RelSumSound'
  BY DEF RelInductive, RelSumSound
<1>3. RelMemorySound'
  BY DEF RelInductive, RelMemorySound
<1> QED
  BY <1>1, <1>2, <1>3

LEMMA RelViews == ASSUME RelInductive, NEW e \in DOMAIN RelEvaluations, RelView(e) PROVE RelInductive'
<1>1. RelBooksSound /\ RelFramesSound
  BY DEF RelInductive
<1>2. PICK seen : seen = {id \in DOMAIN relMemory : /\ relMemory[id].by = "none" /\ ~ relMemory[id].proposal.private
                                                   /\ relMemory[id].proposal.kind \in {"boundary_pressure", "repair_attempt"}}
  OBVIOUS
<1>3. /\ relLeft' = [relLeft EXCEPT ![e] = RelAt("judged")] /\ relSupplied' = [relSupplied EXCEPT ![e] = seen]
      /\ UNCHANGED <<relMode, relEvents, relValue, relEvidence, relMemory>>
  BY <1>2 DEF RelView
<1>4. RelAt("judged") \in RelProgress /\ Len(RelAt("judged").rest) = 0
  BY DEF RelAt, RelProgress, RelModes
<1>5. RelBooksSound'
  BY <1>1, <1>3, <1>4 DEF RelBooksSound
<1>6. RelFramesSound'
  <2>1. relSupplied' \in [DOMAIN RelEvaluations -> SUBSET DOMAIN relMemory']
    BY <1>1, <1>2, <1>3 DEF RelFramesSound
  <2>2. ASSUME NEW x \in DOMAIN RelEvaluations, NEW i \in 1 .. Len(relLeft'[x].rest) PROVE RelMayName(RelProposals[relLeft'[x].rest[i]], relSupplied'[x])
    <3>1. relLeft \in [DOMAIN RelEvaluations -> RelProgress] /\ relSupplied \in [DOMAIN RelEvaluations -> SUBSET DOMAIN relMemory]
      BY <1>1 DEF RelBooksSound, RelFramesSound
    <3>2. CASE x = e
      <4>1. Len(relLeft'[x].rest) = 0
        BY <1>3, <1>4, <3>1, <3>2
      <4> QED
        BY <2>2, <4>1
    <3>3. CASE x # e
      <4>1. relLeft'[x] = relLeft[x] /\ relSupplied'[x] = relSupplied[x]
        BY <1>3, <3>1, <3>3
      <4> QED
        BY <1>1, <2>2, <4>1 DEF RelFramesSound
    <3> QED
      BY <3>2, <3>3
  <2> QED
    BY <2>1, <2>2 DEF RelFramesSound
<1> QED
  BY <1>3, <1>5, <1>6, RelStill DEF RelInductive

LEMMA RelBegins == ASSUME RelInductive, NEW e \in DOMAIN RelEvaluations, RelBegin(e) PROVE RelInductive'
<1>1. RelBooksSound /\ RelFramesSound
  BY DEF RelInductive
<1>2. PICK new : new = [step |-> "told", mode |-> relMode, rest |-> RelVerdict(RelEvaluations[e], relSupplied[e])]
  OBVIOUS
<1>3. relLeft' = [relLeft EXCEPT ![e] = new] /\ UNCHANGED <<relMode, relSupplied, relEvents, relValue, relEvidence, relMemory>>
  BY <1>2 DEF RelBegin
<1>4. new.rest \in Seq({p \in DOMAIN RelProposals : RelMayName(RelProposals[p], relSupplied[e])})
  <2>1. RelEvaluations[e] \in Seq(DOMAIN RelProposals)
    BY RelConstants
  <2>2. PICK supplied : supplied = relSupplied[e]
    OBVIOUS
  <2>3. RelVerdict(RelEvaluations[e], supplied) \in Seq({p \in DOMAIN RelProposals : RelMayName(RelProposals[p], supplied)})
    BY <2>1, RelVerdictNames
  <2> QED
    BY <1>2, <2>2, <2>3
<1>5. new.rest \in Seq(DOMAIN RelProposals) /\ \A i \in 1 .. Len(new.rest) : RelMayName(RelProposals[new.rest[i]], relSupplied[e])
  <2>1. PICK good, rest : good = {p \in DOMAIN RelProposals : RelMayName(RelProposals[p], relSupplied[e])} /\ rest = new.rest
    OBVIOUS
  <2>2. rest \in Seq(good) /\ good \subseteq DOMAIN RelProposals
    BY <1>4, <2>1
  <2>3. rest \in Seq(DOMAIN RelProposals)
    BY <2>2, SeqMonotonic
  <2>4. \A i \in 1 .. Len(rest) : rest[i] \in good
    BY <2>2, ElementOfSeq
  <2> QED
    BY <2>1, <2>3, <2>4
<1>6. new \in RelProgress
  BY <1>1, <1>2, <1>5 DEF RelBooksSound, RelProgress
<1>7. RelBooksSound'
  BY <1>1, <1>3, <1>6 DEF RelBooksSound
<1>8. RelFramesSound'
  <2>1. ASSUME NEW x \in DOMAIN RelEvaluations, NEW i \in 1 .. Len(relLeft'[x].rest) PROVE RelMayName(RelProposals[relLeft'[x].rest[i]], relSupplied'[x])
    <3>1. relLeft \in [DOMAIN RelEvaluations -> RelProgress] /\ relSupplied' = relSupplied
      BY <1>1, <1>3 DEF RelBooksSound
    <3>2. CASE x = e
      <4>1. relLeft'[x] = new
        BY <1>3, <3>1, <3>2
      <4> QED
        BY <1>5, <2>1, <3>1, <3>2, <4>1
    <3>3. CASE x # e
      <4>1. relLeft'[x] = relLeft[x]
        BY <1>3, <3>1, <3>3
      <4> QED
        BY <1>1, <2>1, <3>1, <4>1 DEF RelFramesSound
    <3> QED
      BY <3>2, <3>3
  <2> QED
    BY <1>1, <1>3, <2>1 DEF RelFramesSound
<1> QED
  BY <1>3, <1>7, <1>8, RelStill DEF RelInductive

\* What is left after a proposal is what followed it.
LEMMA RelGoesOn ==
  ASSUME RelInductive, NEW e \in DOMAIN RelEvaluations, RelBusy(e), RelOnward(e), UNCHANGED <<relMode, relSupplied>>,
         relEvents' \in Seq(RelDecision), \A i, j \in 1 .. Len(relEvents') : relEvents'[i].proposal.id = relEvents'[j].proposal.id => i = j,
         DOMAIN relMemory \subseteq DOMAIN relMemory'
  PROVE  RelBooksSound' /\ RelFramesSound'
<1>1. /\ relLeft \in [DOMAIN RelEvaluations -> RelProgress] /\ relSupplied \in [DOMAIN RelEvaluations -> SUBSET DOMAIN relMemory] /\ relMode \in RelModes
      /\ \A x \in DOMAIN RelEvaluations : \A i \in 1 .. Len(relLeft[x].rest) : RelMayName(RelProposals[relLeft[x].rest[i]], relSupplied[x])
  BY DEF RelInductive, RelBooksSound, RelFramesSound
<1>2. PICK old : old = relLeft[e]
  OBVIOUS
<1>3. old \in RelProgress /\ old.rest \in Seq(DOMAIN RelProposals) /\ old.rest # <<>>
  BY <1>1, <1>2 DEF RelProgress, RelBusy
<1>4. PICK new : new = IF Len(old.rest) = 1 THEN RelAt("told") ELSE [old EXCEPT !.rest = Tail(@)]
  OBVIOUS
<1>5. relLeft' = [relLeft EXCEPT ![e] = new]
  <2>1. new = RelPast(relLeft[e])
    BY <1>2, <1>4 DEF RelPast
  <2> QED
    BY <2>1 DEF RelOnward
<1>6. new \in RelProgress /\ \A i \in 1 .. Len(new.rest) : RelMayName(RelProposals[new.rest[i]], relSupplied[e])
  <2>1. CASE Len(old.rest) = 1
    BY <1>4, <2>1 DEF RelAt, RelProgress, RelModes
  <2>2. CASE Len(old.rest) # 1
    <3>1. PICK rest : rest = Tail(old.rest)
      OBVIOUS
    <3>2. rest \in Seq(DOMAIN RelProposals) /\ Len(rest) = Len(old.rest) - 1 /\ \A i \in 1 .. Len(rest) : rest[i] = old.rest[i + 1]
      BY <1>3, <3>1, HeadTailProperties
    <3>3. new.rest = rest /\ new \in RelProgress
      BY <1>3, <1>4, <2>2, <3>1, <3>2 DEF RelProgress
    <3>4. \A i \in 1 .. Len(rest) : i + 1 \in 1 .. Len(old.rest)
      <4>1. Len(old.rest) \in Nat
        BY <1>3, LenProperties
      <4> QED
        BY <3>2, <4>1
    <3> QED
      BY <1>1, <1>2, <3>2, <3>3, <3>4
  <2> QED
    BY <2>1, <2>2
<1>7. relLeft' \in [DOMAIN RelEvaluations -> RelProgress]
  BY <1>1, <1>5, <1>6
<1>8. ASSUME NEW x \in DOMAIN RelEvaluations, NEW i \in 1 .. Len(relLeft'[x].rest) PROVE RelMayName(RelProposals[relLeft'[x].rest[i]], relSupplied'[x])
  <2>1. CASE x = e
    <3>1. relLeft'[x] = new
      BY <1>1, <1>5, <2>1
    <3> QED
      BY <1>6, <1>8, <2>1, <3>1
  <2>2. CASE x # e
    <3>1. relLeft'[x] = relLeft[x]
      BY <1>1, <1>5, <2>2
    <3> QED
      BY <1>1, <1>8, <3>1
  <2> QED
    BY <2>1, <2>2
<1>9. relSupplied' \in [DOMAIN RelEvaluations -> SUBSET DOMAIN relMemory']
  BY <1>1
<1> QED
  BY <1>1, <1>7, <1>8, <1>9 DEF RelBooksSound, RelFramesSound

LEMMA RelProcesses == ASSUME RelInductive, NEW e \in DOMAIN RelEvaluations, RelProcess(e) \/ RelFail(e) PROVE RelInductive'
<1>1. RelBusy(e) /\ RelOnward(e) /\ UNCHANGED <<relMode, relSupplied>>
  BY DEF RelProcess, RelFail
<1>2. RelBooksSound /\ RelFramesSound
  BY DEF RelInductive
<1>3. CASE UNCHANGED <<relEvents, relValue, relEvidence, relMemory>>
  <2>1. relEvents' \in Seq(RelDecision) /\ \A i, j \in 1 .. Len(relEvents') : relEvents'[i].proposal.id = relEvents'[j].proposal.id => i = j
    BY <1>2, <1>3 DEF RelBooksSound
  <2>2. RelBooksSound' /\ RelFramesSound'
    BY <1>1, <1>3, <2>1, RelGoesOn
  <2> QED
    BY <1>3, <2>2, RelStill DEF RelInductive
<1>4. CASE ~ UNCHANGED <<relEvents, relValue, relEvidence, relMemory>>
  <2>1. PICK p, mode : p = RelProposals[Head(relLeft[e].rest)] /\ mode = relLeft[e].mode
    OBVIOUS
  <2>2. ~ RelKnown(p.id) /\ \E decision \in RelDecisions(p) : RelWrite(p, mode, decision)
    BY <1>4, <2>1 DEF RelProcess, RelFail
  <2>3. PICK decision \in RelDecisions(p) : RelWrite(p, mode, decision)
    BY <2>2
  <2>4. relLeft[e] \in RelProgress /\ relLeft[e].rest \in Seq(DOMAIN RelProposals) /\ relLeft[e].rest # <<>>
    BY <1>1, <1>2 DEF RelBooksSound, RelProgress, RelBusy
  <2>5. PICK rest : rest = relLeft[e].rest
    OBVIOUS
  <2>6. 1 \in 1 .. Len(rest) /\ Head(rest) = rest[1] /\ Head(rest) \in DOMAIN RelProposals
    <3>1. Len(rest) \in Nat \ {0}
      BY <2>4, <2>5, EmptySeq
    <3> QED
      BY <2>4, <2>5, <3>1, HeadTailProperties
  <2>7. mode \in RelModes /\ p \in RelTold
    BY <2>1, <2>4, <2>5, <2>6 DEF RelProgress, RelTold
  <2>8. p.kind = "repair_confirmed" => p.repairs \in DOMAIN relMemory
    BY <1>2, <2>1, <2>5, <2>6 DEF RelFramesSound, RelMayName
  <2>9. /\ relEvents' \in Seq(RelDecision) /\ \A i, j \in 1 .. Len(relEvents') : relEvents'[i].proposal.id = relEvents'[j].proposal.id => i = j
        /\ RelSumSound' /\ RelGainsSound(relEvents)' /\ RelMemorySound' /\ DOMAIN relMemory \subseteq DOMAIN relMemory'
    BY <2>2, <2>3, <2>7, <2>8, RelWrites
  <2>10. RelBooksSound' /\ RelFramesSound'
    BY <1>1, <2>9, RelGoesOn
  <2> QED
    BY <2>9, <2>10 DEF RelInductive
<1> QED
  BY <1>3, <1>4

LEMMA RelRestarts == ASSUME RelInductive, RelRestart PROVE RelInductive'
<1>1. RelBooksSound /\ RelFramesSound
  BY DEF RelInductive
<1>2. RelAt("told") \in RelProgress /\ RelAt("new") \in RelProgress /\ Len(RelAt("told").rest) = 0 /\ Len(RelAt("new").rest) = 0
  BY DEF RelAt, RelProgress, RelModes
<1>3. ASSUME NEW x \in DOMAIN RelEvaluations
      PROVE  /\ relLeft'[x] \in RelProgress /\ relSupplied'[x] \subseteq DOMAIN relMemory
             /\ Len(relLeft'[x].rest) = 0 \/ (relLeft'[x] = relLeft[x] /\ relSupplied'[x] = relSupplied[x])
  <2>1. relLeft[x] \in RelProgress /\ relSupplied[x] \subseteq DOMAIN relMemory
    BY <1>1 DEF RelBooksSound, RelFramesSound
  <2>2. relSupplied'[x] = IF relLeft[x].step = "judged" THEN {} ELSE relSupplied[x]
    BY DEF RelRestart
  <2>3. relLeft'[x] = IF RelBusy(x) THEN RelAt("told") ELSE IF relLeft[x].step = "judged" THEN RelAt("new") ELSE relLeft[x]
    BY DEF RelRestart
  <2> QED
    BY <1>2, <2>1, <2>2, <2>3
<1>4. relLeft' \in [DOMAIN RelEvaluations -> RelProgress] /\ relSupplied' \in [DOMAIN RelEvaluations -> SUBSET DOMAIN relMemory]
  <2>1. (\E f : relLeft' = [x \in DOMAIN RelEvaluations |-> f[x]]) /\ (\E f : relSupplied' = [x \in DOMAIN RelEvaluations |-> f[x]])
    BY DEF RelRestart
  <2> QED
    BY <1>3, <2>1
<1>5. relMode' \in RelModes /\ UNCHANGED <<relEvents, relValue, relEvidence, relMemory>>
  BY DEF RelRestart
<1>6. RelBooksSound'
  BY <1>1, <1>4, <1>5 DEF RelBooksSound
<1>7. RelFramesSound'
  <2>1. ASSUME NEW x \in DOMAIN RelEvaluations, NEW i \in 1 .. Len(relLeft'[x].rest) PROVE RelMayName(RelProposals[relLeft'[x].rest[i]], relSupplied'[x])
    <3>1. CASE Len(relLeft'[x].rest) = 0
      BY <2>1, <3>1
    <3>2. CASE relLeft'[x] = relLeft[x] /\ relSupplied'[x] = relSupplied[x]
      BY <1>1, <2>1, <3>2 DEF RelFramesSound
    <3> QED
      BY <1>3, <3>1, <3>2
  <2> QED
    BY <1>4, <1>5, <2>1 DEF RelFramesSound
<1> QED
  BY <1>5, <1>6, <1>7, RelStill DEF RelInductive

LEMMA RelAlways == RelSpec => []RelInductive
<1>1. RelInit => RelInductive
  BY RelStarts
<1>2. RelInductive /\ [RelNext]_relVars => RelInductive'
  <2> SUFFICES ASSUME RelInductive, [RelNext]_relVars PROVE RelInductive'
    OBVIOUS
  <2>1. CASE UNCHANGED relVars
    BY <2>1, RelStill DEF relVars, RelInductive, RelBooksSound, RelFramesSound
  <2>2. CASE RelNext
    BY <2>2, RelRestarts, RelViews, RelBegins, RelProcesses DEF RelNext
  <2> QED
    BY <2>1, <2>2
<1> QED
  BY <1>1, <1>2, PTL DEF RelSpec

(***************************************************************************)
(* The theorems.                                                           *)
(***************************************************************************)
LEMMA RelValueIsProjection == ASSUME RelInductive PROVE relValue \in RelProjection
<1>1. relEvents \in Seq(RelDecision) /\ relValue = RelReplay(relEvents)
  BY DEF RelInductive, RelBooksSound, RelSumSound
<1>2. CASE RelDecision # {}
  BY <1>1, <1>2, RelReplayOnward
<1>3. CASE RelDecision = {}
  <2> DEFINE h == CHOOSE f : f = [n \in 0 .. Len(relEvents) |-> IF n = 0 THEN RelStart ELSE RelAdded(f[n - 1], relEvents[n])]
             g == [n \in 0 .. 0 |-> RelStart]
  <2>1. Len(relEvents) = 0
    BY <1>1, <1>3
  <2>2. g = [n \in 0 .. Len(relEvents) |-> IF n = 0 THEN RelStart ELSE RelAdded(g[n - 1], relEvents[n])]
    BY <2>1
  <2>3. h = [n \in 0 .. Len(relEvents) |-> IF n = 0 THEN RelStart ELSE RelAdded(h[n - 1], relEvents[n])]
    <3> HIDE DEF g
    <3> QED
      BY <2>2
  <2>4. relValue = h[Len(relEvents)]
    BY <1>1 DEF RelReplay
  <2> HIDE DEF h
  <2> QED
    BY <2>1, <2>3, <2>4 DEF RelStart, RelProjection
<1> QED
  BY <1>2, <1>3

\* The events, the projection and the memories keep their types, and a frame is
\* given only what is remembered (repositories.py, manager.py).
THEOREM RelTypes == RelSpec => []RelTypeOK
<1>1. RelInductive => RelTypeOK
  <2> SUFFICES ASSUME RelInductive PROVE RelTypeOK
    OBVIOUS
  <2>1. /\ relMode \in RelModes /\ relEvents \in Seq(RelDecision) /\ relLeft \in [DOMAIN RelEvaluations -> RelProgress]
        /\ relSupplied \in [DOMAIN RelEvaluations -> SUBSET DOMAIN relMemory]
        /\ DOMAIN relMemory \subseteq RelIds /\ \A id \in DOMAIN relMemory : relMemory[id] \in RelRecord /\ relMemory[id].proposal.id = id
    BY DEF RelInductive, RelBooksSound, RelFramesSound, RelMemorySound
  <2>2. relEvidence \subseteq RelIds
    <3>1. \A i \in RelAcceptedOf(relEvents) : relEvents[i].proposal \in RelTold
      <4>1. \A i \in DOMAIN relEvents : relEvents[i] \in RelDecision
        BY <2>1, LenProperties, ElementOfSeq
      <4> QED
        BY <4>1 DEF RelAcceptedOf, RelDecision
    <3> QED
      BY <3>1 DEF RelInductive, RelSumSound, RelIds
  <2> QED
    BY <2>1, <2>2, RelValueIsProjection DEF RelTypeOK, RelIds
<1> QED
  BY <1>1, RelAlways, PTL

\* The projection is what the accepted events add up to, each once, nobody gains
\* more than the budget in a day, and a hurt is remembered until a repair of it is
\* accepted (society/repositories.py, relationship_events.py, relationship_memory.py).
THEOREM RelStaysSound == RelSpec => [](RelIsSum /\ RelDailyBudget /\ RelHurtsUntilRepaired)
<1>1. RelInductive => RelIsSum /\ RelDailyBudget /\ RelHurtsUntilRepaired
  <2> SUFFICES ASSUME RelInductive PROVE RelIsSum /\ RelDailyBudget /\ RelHurtsUntilRepaired
    OBVIOUS
  <2>1. /\ relEvents \in Seq(RelDecision) /\ RelSumSound /\ RelGainsSound(relEvents) /\ RelMemorySound
        /\ \A i, j \in 1 .. Len(relEvents) : relEvents[i].proposal.id = relEvents[j].proposal.id => i = j
    BY DEF RelInductive, RelBooksSound
  <2>2. RelAccepted = RelAcceptedOf(relEvents) /\ DOMAIN relEvents = 1 .. Len(relEvents) /\ Len(relEvents) \in Nat
    BY <2>1, LenProperties DEF RelAccepted, RelAcceptedOf
  <2>3. RelIsSum
    <3>1. relEvidence = {relEvents[i].proposal.id : i \in RelScored} /\ relValue = RelReplay(relEvents)
      BY <2>1, <2>2 DEF RelSumSound, RelScored
    <3>2. IsFiniteSet(RelScored) /\ RelScored \subseteq 1 .. Len(relEvents)
      <4>1. RelScored \subseteq 1 .. Len(relEvents)
        BY <2>2 DEF RelScored, RelAcceptedOf
      <4>2. IsFiniteSet(1 .. Len(relEvents))
        BY <2>2, FS_Interval
      <4> QED
        BY <4>1, <4>2, FS_Subset
    <3>3. Cardinality(relEvidence) = Cardinality(RelScored)
      <4> DEFINE f == [i \in RelScored |-> relEvents[i].proposal.id]
      <4>1. f \in Bijection(RelScored, relEvidence)
        <5>1. f \in [RelScored -> relEvidence] /\ \A y \in relEvidence : \E i \in RelScored : f[i] = y
          BY <3>1
        <5>2. \A i, j \in RelScored : f[i] = f[j] => i = j
          BY <2>1, <3>2
        <5> HIDE DEF f
        <5> QED
          BY <5>1, <5>2 DEF Bijection, Injection, Surjection, IsInjective
      <4>2. ExistsBijection(RelScored, relEvidence)
        <5> HIDE DEF f
        <5> QED
          BY <4>1 DEF ExistsBijection
      <4> QED
        BY <3>2, <4>2, FS_Bijection
    <3> QED
      BY <3>1, <3>3 DEF RelIsSum
  <2>4. RelDailyBudget
    BY <2>1 DEF RelDailyBudget, RelGainsSound
  <2>5. RelHurtsUntilRepaired
    <3>1. ASSUME NEW i \in RelAccepted
          PROVE  LET p == relEvents[i].proposal IN
                 p.kind = "boundary_pressure" /\ p.severity > 1 /\ ~ p.private => (p.id \in RelCues <=> RelRepairOf(i) = {})
      <4>1. PICK p : p = relEvents[i].proposal
        OBVIOUS
      <4> SUFFICES ASSUME p.kind = "boundary_pressure", p.severity > 1, ~ p.private PROVE p.id \in RelCues <=> RelRepairOf(i) = {}
        BY <4>1
      <4>2. RelWorthy(p)
        BY DEF RelWorthy
      <4>3. p.id \in DOMAIN relMemory
        BY <2>1, <2>2, <4>1, <4>2 DEF RelMemorySound
      <4>4. relMemory[p.id].proposal.id = p.id /\ (relMemory[p.id].by = "none" <=> RelHealedBy(relEvents, p.id) = {})
        BY <2>1, <4>3 DEF RelMemorySound
      <4>5. PICK k \in RelAcceptedOf(relEvents) : relEvents[k].proposal = relMemory[p.id].proposal
        BY <2>1, <4>3 DEF RelMemorySound
      <4>6. k = i
        BY <2>1, <2>2, <4>1, <4>4, <4>5 DEF RelAcceptedOf
      <4>7. p.id \in RelCues <=> relMemory[p.id].by = "none"
        BY <4>1, <4>3, <4>5, <4>6 DEF RelCues
      <4>8. RelRepairOf(i) = RelHealedBy(relEvents, p.id)
        BY <2>2, <4>1 DEF RelRepairOf, RelHealedBy, RelResolves
      <4> QED
        BY <4>4, <4>7, <4>8
    <3>2. ASSUME NEW j \in RelAccepted, relEvents[j].proposal.kind = "repair_confirmed" PROVE \E i \in 1 .. j - 1 : j \in RelRepairOf(i)
      <4>1. PICK i \in 1 .. j - 1 : relEvents[i].proposal.id = relEvents[j].proposal.repairs
        BY <2>1, <2>2, <3>2 DEF RelMemorySound
      <4> QED
        BY <3>2, <4>1 DEF RelRepairOf
    <3> QED
      BY <3>1, <3>2 DEF RelHurtsUntilRepaired
  <2> QED
    BY <2>3, <2>4, <2>5
<1> QED
  BY <1>1, RelAlways, PTL

----------------------------------------------------------------------------
(***************************************************************************)
(* Theorems about the sticker lexicon and its vision worker, for any       *)
(* pictures and limits.                                                    *)
(***************************************************************************)

(***************************************************************************)
(* The inductive invariant.  Whatever is ready was confirmed; a worker     *)
(* that is down holds nothing; the picture it works on is not in its queue;*)
(* and it works on a text of the administrator only when it was asked to.  *)
(***************************************************************************)
StkReadyIsConfirmed == \A p \in StkPictures : stkCard[p].status = "ready" => stkCard[p].confirmed
StkDownIsEmpty == ~ stkUp => stkQueue = <<>> /\ stkRun = StkIdle
StkOneJobEach == stkRun # StkIdle => \A i \in DOMAIN stkQueue : stkQueue[i].picture # stkRun.picture
StkAsked == stkRun # StkIdle /\ stkRun.written => stkRun.force
StkInductive ==
  /\ StkTypeOK /\ StkRejectedStays /\ StkReadyIsConfirmed /\ StkShownIsFormed
  /\ StkDownIsEmpty /\ StkOneJobEach /\ StkAsked /\ StkPoolsKept

(***************************************************************************)
(* The queue.                                                              *)
(***************************************************************************)
StkPictured(q) == {q[i].picture : i \in DOMAIN q}
StkApart(q) == \A i, j \in DOMAIN q : q[i].picture = q[j].picture => i = j
StkWorking(run) == IF run = StkIdle THEN 0 ELSE 1

LEMMA StkInjective ==
  ASSUME NEW q \in Seq(StkJob)
  PROVE  IsInjective([i \in DOMAIN q |-> q[i].picture]) <=> StkApart(q)
BY DEF IsInjective, StkApart

\* As many pictures as jobs.
LEMMA StkCounted ==
  ASSUME NEW q \in Seq(StkJob), StkApart(q)
  PROVE  IsFiniteSet(StkPictured(q)) /\ Cardinality(StkPictured(q)) = Len(q)
<1> DEFINE f == [i \in 1 .. Len(q) |-> q[i].picture]
<1>1. Len(q) \in Nat /\ DOMAIN q = 1 .. Len(q)
  OBVIOUS
<1>2. f \in Surjection(1 .. Len(q), StkPictured(q)) /\ f \in Injection(1 .. Len(q), StkPictured(q))
  BY <1>1 DEF Surjection, Injection, IsInjective, StkPictured, StkApart
<1>3. IsFiniteSet(1 .. Len(q)) /\ Cardinality(1 .. Len(q)) = Len(q)
  BY <1>1, FS_Interval
<1> HIDE DEF f
<1> QED
  BY <1>2, <1>3, FS_Surjection

LEMMA StkQueueTaken ==
  ASSUME NEW q \in Seq(StkJob), StkApart(q), q # <<>>
  PROVE  /\ Tail(q) \in Seq(StkJob) /\ StkApart(Tail(q)) /\ Len(Tail(q)) = Len(q) - 1 /\ Head(q) \in StkJob
         /\ \A i \in DOMAIN Tail(q) : Tail(q)[i].picture # Head(q).picture
<1>1. /\ Tail(q) \in Seq(StkJob) /\ Len(Tail(q)) = Len(q) - 1 /\ Head(q) \in StkJob
      /\ \A i \in 1 .. Len(Tail(q)) : Tail(q)[i] = q[i + 1]
  BY HeadTailProperties
<1>2. Len(q) \in Nat \ {0} /\ DOMAIN q = 1 .. Len(q) /\ DOMAIN Tail(q) = 1 .. Len(q) - 1 /\ Head(q) = q[1]
  BY <1>1
<1>3. \A i \in DOMAIN Tail(q) : i + 1 \in DOMAIN q /\ i + 1 # 1 /\ Tail(q)[i] = q[i + 1]
  BY <1>1, <1>2
<1>4. \A i, j \in DOMAIN Tail(q) : i + 1 = j + 1 => i = j
  BY <1>2
<1> QED
  BY <1>1, <1>2, <1>3, <1>4 DEF StkApart

\* A job is accepted only while there is room and its picture has none.
LEMMA StkQueueAdded ==
  ASSUME StkTypeOK, StkApart(stkQueue), StkOneJobEach, StkDownIsEmpty,
         Len(stkQueue) + StkWorking(stkRun) <= StkQueueLimit,
         NEW p \in StkPictures, NEW card, NEW force \in BOOLEAN, NEW q, q = StkEnqueued(stkQueue, p, card, force)
  PROVE  /\ q \in Seq(StkJob) /\ StkApart(q) /\ Len(q) + StkWorking(stkRun) <= StkQueueLimit
         /\ stkRun # StkIdle => \A i \in DOMAIN q : q[i].picture # stkRun.picture
         /\ ~ stkUp => q = <<>>
<1>0. stkQueue \in Seq(StkJob) /\ Len(stkQueue) \in Nat /\ DOMAIN stkQueue = 1 .. Len(stkQueue) /\ StkQueueLimit \in Nat
  BY StkConstants DEF StkTypeOK
<1>1. CASE ~ StkAccepts(stkQueue, p, card, force)
  BY <1>0, <1>1 DEF StkEnqueued, StkOneJobEach, StkDownIsEmpty
<1>2. CASE StkAccepts(stkQueue, p, card, force)
  <2> DEFINE job == [picture |-> p, force |-> force]
  <2>1. q = Append(stkQueue, job) /\ job \in StkJob /\ job.picture = p
    BY <1>2 DEF StkEnqueued, StkJob
  <2> HIDE DEF job
  <2>2. /\ q \in Seq(StkJob) /\ Len(q) = Len(stkQueue) + 1 /\ DOMAIN q = 1 .. Len(stkQueue) + 1
        /\ q[Len(stkQueue) + 1] = job /\ \A i \in DOMAIN stkQueue : q[i] = stkQueue[i]
    BY <2>1, <1>0
  <2>3. /\ stkUp /\ Cardinality(StkBusy(stkQueue)) < StkQueueLimit
        /\ p \notin StkPictured(stkQueue) /\ (stkRun # StkIdle => p # stkRun.picture)
    BY <1>2 DEF StkAccepts, StkBusy, StkPictured
  <2>4. StkApart(q)
    <3> SUFFICES ASSUME NEW i \in DOMAIN q, NEW j \in DOMAIN q, q[i].picture = q[j].picture PROVE i = j
      BY DEF StkApart
    <3>1. (i \in DOMAIN stkQueue \/ i = Len(stkQueue) + 1) /\ (j \in DOMAIN stkQueue \/ j = Len(stkQueue) + 1)
      BY <2>2, <1>0
    <3>2. \A k \in DOMAIN stkQueue : q[k].picture # p
      BY <2>2, <2>3 DEF StkPictured
    <3> QED
      BY <3>1, <3>2, <2>1, <2>2 DEF StkApart
  <2>5. Cardinality(StkBusy(stkQueue)) = Len(stkQueue) + StkWorking(stkRun)
    <3>1. IsFiniteSet(StkPictured(stkQueue)) /\ Cardinality(StkPictured(stkQueue)) = Len(stkQueue)
      BY <1>0, StkCounted
    <3>2. CASE stkRun = StkIdle
      <4>1. StkBusy(stkQueue) = StkPictured(stkQueue)
        BY <3>2 DEF StkBusy, StkPictured
      <4> QED
        BY <3>1, <3>2, <4>1, <1>0 DEF StkWorking
    <3>3. CASE stkRun # StkIdle
      <4>1. StkBusy(stkQueue) = StkPictured(stkQueue) \cup {stkRun.picture} /\ stkRun.picture \notin StkPictured(stkQueue)
        BY <3>3 DEF StkBusy, StkPictured, StkOneJobEach
      <4>2. Cardinality(StkPictured(stkQueue) \cup {stkRun.picture}) = Cardinality(StkPictured(stkQueue)) + 1
        BY <3>1, <4>1, FS_AddElement
      <4> QED
        BY <3>1, <3>3, <4>1, <4>2 DEF StkWorking
    <3> QED
      BY <3>2, <3>3
  <2>6. Len(q) + StkWorking(stkRun) <= StkQueueLimit
    BY <2>2, <2>3, <2>5, <1>0 DEF StkWorking
  <2>7. stkRun # StkIdle => \A i \in DOMAIN q : q[i].picture # stkRun.picture
    <3> SUFFICES ASSUME stkRun # StkIdle, NEW i \in DOMAIN q PROVE q[i].picture # stkRun.picture
      OBVIOUS
    <3>1. i \in DOMAIN stkQueue \/ i = Len(stkQueue) + 1
      BY <2>2, <1>0
    <3> QED
      BY <3>1, <2>1, <2>2, <2>3 DEF StkOneJobEach
  <2> QED
    BY <2>2, <2>3, <2>4, <2>6, <2>7
<1> QED
  BY <1>1, <1>2

(***************************************************************************)
(* The pool of candidates.                                                 *)
(***************************************************************************)
LEMMA StkPool ==
  /\ IsFiniteSet(StkOf({"candidate"})) /\ StkCandidates \in Nat
  /\ IsFiniteSet(StkOf({"candidate"})') /\ StkCandidates' \in Nat
<1>1. IsFiniteSet(StkPictures) /\ StkOf({"candidate"}) \in SUBSET StkPictures /\ StkOf({"candidate"})' \in SUBSET StkPictures
  BY StkConstants DEF StkOf
<1> QED
  BY <1>1, FS_Subset, FS_CardinalityType DEF StkCandidates

LEMMA StkNoMoreCandidates ==
  ASSUME StkCandidates <= StkPoolLimit, \A p \in StkPictures : stkCard'[p].status = "candidate" => stkCard[p].status = "candidate"
  PROVE  StkCandidates' <= StkPoolLimit
<1>1. StkOf({"candidate"})' \in SUBSET StkOf({"candidate"})
  BY DEF StkOf
<1>2. Cardinality(StkOf({"candidate"})') <= Cardinality(StkOf({"candidate"}))
  BY <1>1, StkPool, FS_Subset
<1> QED
  BY <1>2, StkPool, StkConstants DEF StkCandidates

LEMMA StkOneMoreCandidate ==
  ASSUME StkCandidates < StkPoolLimit, NEW p \in StkPictures, \A x \in StkPictures \ {p} : stkCard'[x] = stkCard[x]
  PROVE  StkCandidates' <= StkPoolLimit
<1>1. StkOf({"candidate"})' \in SUBSET (StkOf({"candidate"}) \cup {p})
  BY DEF StkOf
<1>2. /\ IsFiniteSet(StkOf({"candidate"}) \cup {p})
      /\ Cardinality(StkOf({"candidate"}) \cup {p}) <= Cardinality(StkOf({"candidate"})) + 1
  BY StkPool, FS_AddElement DEF StkCandidates
<1>3. Cardinality(StkOf({"candidate"})') <= Cardinality(StkOf({"candidate"}) \cup {p})
  BY <1>1, <1>2, FS_Subset
<1>4. Cardinality(StkOf({"candidate"}) \cup {p}) \in Nat
  BY <1>2, FS_CardinalityType
<1> QED
  BY <1>2, <1>3, <1>4, StkPool, StkConstants DEF StkCandidates

(***************************************************************************)
(* What a step must keep when it changes cards, and when it changes the    *)
(* queue and the run.                                                      *)
(***************************************************************************)
StkCardsSound ==
  /\ stkCard \in [StkPictures -> StkCards] /\ stkRejects \subseteq StkPictures /\ stkFiles \subseteq StkPictures
  /\ StkRejectedStays /\ StkReadyIsConfirmed /\ StkCandidates <= StkPoolLimit
StkJobsSound ==
  /\ stkQueue \in Seq(StkJob) /\ stkUp \in BOOLEAN /\ (stkRun = StkIdle \/ stkRun \in StkWork)
  /\ StkDownIsEmpty /\ StkOneJobEach /\ StkAsked
  /\ Len(stkQueue) + StkWorking(stkRun) <= StkQueueLimit /\ StkApart(stkQueue)
StkPartsSound ==
  /\ stkPending \subseteq StkParts /\ stkShown \subseteq StkParts /\ stkAttached \in 0 .. StkReplies /\ StkShownIsFormed

LEMMA StkInThree == StkInductive <=> StkCardsSound /\ StkJobsSound /\ StkPartsSound
<1>1. ASSUME stkQueue \in Seq(StkJob) PROVE IsInjective([i \in DOMAIN stkQueue |-> stkQueue[i].picture]) <=> StkApart(stkQueue)
  BY <1>1, StkInjective
<1> QED
  BY <1>1 DEF StkInductive, StkCardsSound, StkJobsSound, StkPartsSound, StkTypeOK, StkPoolsKept, StkWorking

LEMMA StkInThreeNext == StkInductive' <=> StkCardsSound' /\ StkJobsSound' /\ StkPartsSound'
<1>1. ASSUME stkQueue' \in Seq(StkJob) PROVE IsInjective([i \in DOMAIN stkQueue' |-> stkQueue'[i].picture]) <=> StkApart(stkQueue')
  BY <1>1, StkInjective
<1> QED
  BY <1>1 DEF StkInductive, StkCardsSound, StkJobsSound, StkPartsSound, StkTypeOK, StkPoolsKept, StkWorking, StkApart

LEMMA StkCardsKept ==
  ASSUME StkCardsSound, UNCHANGED <<stkCard, stkRejects, stkFiles>> PROVE StkCardsSound'
BY DEF StkCardsSound, StkRejectedStays, StkReadyIsConfirmed, StkCandidates, StkOf

LEMMA StkJobsKept ==
  ASSUME StkJobsSound, UNCHANGED <<stkQueue, stkUp, stkRun>> PROVE StkJobsSound'
BY DEF StkJobsSound, StkDownIsEmpty, StkOneJobEach, StkAsked, StkWorking, StkApart

LEMMA StkPartsKept ==
  ASSUME StkPartsSound, UNCHANGED <<stkPending, stkShown, stkAttached>> PROVE StkPartsSound'
BY DEF StkPartsSound, StkShownIsFormed

\* One card changes, to one that is not a new candidate.
LEMMA StkCardChanged ==
  ASSUME StkCardsSound, NEW p \in StkPictures, NEW card \in StkCards, stkCard' = [stkCard EXCEPT ![p] = card],
         stkRejects' \in {stkRejects, stkRejects \cup {p}}, stkFiles' \subseteq StkPictures,
         card.status = "candidate" => stkCard[p].status = "candidate",
         card.status = "ready" => card.confirmed,
         p \in stkRejects' => card.status \in {"absent", "rejected"}
  PROVE  StkCardsSound'
<1>1. stkCard' \in [StkPictures -> StkCards] /\ stkCard'[p] = card /\ \A x \in StkPictures \ {p} : stkCard'[x] = stkCard[x]
  BY DEF StkCardsSound
<1>2. StkRejectedStays' /\ StkReadyIsConfirmed' /\ stkRejects' \subseteq StkPictures
  BY <1>1 DEF StkCardsSound, StkRejectedStays, StkReadyIsConfirmed
<1>3. \A x \in StkPictures : stkCard'[x].status = "candidate" => stkCard[x].status = "candidate"
  BY <1>1
<1>4. StkCandidates' <= StkPoolLimit
  BY <1>3, StkNoMoreCandidates DEF StkCardsSound
<1> QED
  BY <1>1, <1>2, <1>4 DEF StkCardsSound

(***************************************************************************)
(* The actions.                                                            *)
(***************************************************************************)
LEMMA StkNothingToDo ==
  ASSUME NEW q, NEW run, q = <<>>, run = StkIdle
  PROVE  q \in Seq(StkJob) /\ StkApart(q) /\ Len(q) + StkWorking(run) <= StkQueueLimit
<1>1. StkQueueLimit \in Nat
  BY StkConstants
<1>2. q \in Seq(StkJob) /\ StkApart(q) /\ Len(q) = 0
  BY DEF StkApart
<1>3. StkWorking(run) = 0
  BY DEF StkWorking
<1> QED
  BY <1>1, <1>2, <1>3

LEMMA StkStarts == ASSUME StkInit PROVE StkInductive
<1>0. StkIdle.phase = "idle" /\ StkAbsent \in StkCards
  BY DEF StkIdle, StkAbsent, StkCards, StkMeanings, StkSources
<1>1. StkOf({"candidate"}) = {}
  BY DEF StkInit, StkOf, StkAbsent
<1>2. StkCandidates = 0
  BY <1>1, FS_EmptySet DEF StkCandidates
<1>3. StkCardsSound
  BY <1>0, <1>2, StkConstants DEF StkInit, StkCardsSound, StkRejectedStays, StkReadyIsConfirmed, StkAbsent
<1>4. StkJobsSound
  BY StkNothingToDo DEF StkInit, StkJobsSound, StkDownIsEmpty, StkOneJobEach, StkAsked
<1>5. StkPartsSound
  BY StkConstants DEF StkInit, StkPartsSound, StkShownIsFormed
<1> QED
  BY <1>3, <1>4, <1>5, StkInThree

LEMMA StkIngests ==
  ASSUME StkInductive, NEW p \in StkPictures, NEW captured \in BOOLEAN, StkIngest(p, captured)
  PROVE  StkInductive'
<1>1. StkCardsSound /\ StkJobsSound /\ StkPartsSound /\ stkCard[p] \in StkCards /\ StkTypeOK
  BY StkInThree DEF StkCardsSound, StkInductive
<1> DEFINE created == stkCard[p].status = "absent"
           base == IF created THEN StkNew ELSE stkCard[p]
<1> DEFINE written(m, card) ==
        /\ card = IF m = "empty" THEN base ELSE [base EXCEPT !.meaning = m, !.source = IF @ = "vision" THEN "mixed" ELSE "admin"]
        /\ stkCard' = [stkCard EXCEPT ![p] = card]
        /\ stkQueue' = IF created /\ m = "empty" THEN StkEnqueued(stkQueue, p, card, FALSE) ELSE stkQueue
        /\ stkFiles' = IF created THEN stkFiles \cup {p} ELSE stkFiles
<1>a. PICK m \in StkMeanings : \E card : written(m, card)
  BY DEF StkIngest, StkMeanings
<1>2. PICK card : written(m, card)
  BY <1>a
<1>3. StkNew \in StkCards /\ StkNew.status = "candidate"
  BY DEF StkNew, StkAbsent, StkCards, StkMeanings, StkSources
<1>4. base \in StkCards
  BY <1>1, <1>3
<1>5. card \in StkCards /\ card.status = base.status /\ card.confirmed = base.confirmed
  <2> HIDE DEF base
  <2> QED
    BY <1>2, <1>4 DEF StkCards, StkSources
<1>6. /\ created => p \notin stkRejects /\ StkCandidates < StkPoolLimit
      /\ UNCHANGED <<stkRejects, stkUp, stkRun, stkPending, stkShown, stkAttached>>
  BY DEF StkIngest, StkUnknown, StkHasRoom
<1>7. StkCardsSound'
  <2>1. CASE ~ created
    <3>1. base = stkCard[p] /\ stkFiles' = stkFiles
      BY <2>1, <1>2
    <3>2. card.status = "ready" => card.confirmed
      BY <3>1, <1>1, <1>5 DEF StkCardsSound, StkReadyIsConfirmed
    <3>3. p \in stkRejects' => card.status \in {"absent", "rejected"}
      BY <3>1, <1>1, <1>5, <1>6 DEF StkCardsSound, StkRejectedStays
    <3>4. stkRejects' = stkRejects /\ stkFiles' \subseteq StkPictures /\ (card.status = "candidate" => stkCard[p].status = "candidate")
      BY <3>1, <1>1, <1>5, <1>6 DEF StkCardsSound
    <3> HIDE DEF created, base
    <3> QED
      BY <3>2, <3>3, <3>4, <1>1, <1>2, <1>5, StkCardChanged
  <2>2. CASE created
    <3>1. card.status = "candidate"
      BY <2>2, <1>3, <1>5
    <3>2. stkCard' \in [StkPictures -> StkCards] /\ stkCard'[p] = card /\ \A x \in StkPictures \ {p} : stkCard'[x] = stkCard[x]
      BY <1>1, <1>2, <1>5 DEF StkCardsSound
    <3>3. StkCandidates' <= StkPoolLimit
      BY <2>2, <3>2, <1>6, StkOneMoreCandidate
    <3>4. StkRejectedStays' /\ StkReadyIsConfirmed' /\ stkRejects' \subseteq StkPictures /\ stkFiles' \subseteq StkPictures
      BY <2>2, <3>1, <3>2, <1>1, <1>2, <1>6 DEF StkCardsSound, StkRejectedStays, StkReadyIsConfirmed
    <3> QED
      BY <3>2, <3>3, <3>4 DEF StkCardsSound
  <2> QED
    BY <2>1, <2>2
<1>8. StkJobsSound'
  <2>1. CASE stkQueue' = stkQueue
    BY <2>1, <1>1, <1>6, StkJobsKept
  <2>2. CASE stkQueue' = StkEnqueued(stkQueue, p, card, FALSE)
    <3>0. PICK force \in BOOLEAN : force = FALSE
      OBVIOUS
    <3>1. PICK q : q = StkEnqueued(stkQueue, p, card, force)
      OBVIOUS
    <3>2. /\ q \in Seq(StkJob) /\ StkApart(q) /\ Len(q) + StkWorking(stkRun) <= StkQueueLimit
          /\ stkRun # StkIdle => \A i \in DOMAIN q : q[i].picture # stkRun.picture
          /\ ~ stkUp => q = <<>>
      BY <3>1, <1>1, StkQueueAdded DEF StkJobsSound
    <3>3. stkQueue' = q
      BY <2>2, <3>0, <3>1
    <3> QED
      BY <3>2, <3>3, <1>1, <1>6 DEF StkJobsSound, StkDownIsEmpty, StkOneJobEach, StkAsked, StkWorking, StkApart
  <2> QED
    BY <2>1, <2>2, <1>2
<1>9. StkPartsSound'
  BY <1>1, <1>6, StkPartsKept
<1> QED
  BY <1>7, <1>8, <1>9, StkInThreeNext

\* The administrator's commands on one card.
LEMMA StkAdministers ==
  ASSUME StkInductive, NEW p \in StkPictures,
         StkCaption(p) \/ StkConfirm(p) \/ StkDisable(p) \/ StkReject(p) \/ StkDelete(p)
  PROVE  StkInductive'
<1>1. StkCardsSound /\ StkJobsSound /\ StkPartsSound /\ stkCard \in [StkPictures -> StkCards] /\ stkCard[p] \in StkCards
  BY StkInThree DEF StkCardsSound
<1>2. StkJobsSound' /\ StkPartsSound'
  <2>1. UNCHANGED <<stkQueue, stkUp, stkRun, stkPending, stkShown, stkAttached>>
    BY DEF StkCaption, StkConfirm, StkDisable, StkReject, StkDelete, StkAdminUnchanged
  <2> QED
    BY <2>1, <1>1, StkJobsKept, StkPartsKept
<1>3. /\ stkCard[p].status = "ready" => stkCard[p].confirmed
      /\ p \in stkRejects => stkCard[p].status \in {"absent", "rejected"}
      /\ stkFiles \subseteq StkPictures /\ stkFiles \ {p} \subseteq StkPictures
  BY <1>1 DEF StkCardsSound, StkReadyIsConfirmed, StkRejectedStays
<1>4. CASE StkCaption(p)
  <2>0. PICK m \in StkMeanings :
          stkCard' = [stkCard EXCEPT ![p].meaning = m, ![p].source = IF @ = "vision" THEN "mixed" ELSE "admin"]
    BY <1>4 DEF StkCaption
  <2>1. PICK card : card = [stkCard[p] EXCEPT !.meaning = m, !.source = IF @ = "vision" THEN "mixed" ELSE "admin"]
    OBVIOUS
  <2>2. stkCard' = [stkCard EXCEPT ![p] = card]
    BY <2>0, <2>1, <1>1
  <2>3. card \in StkCards /\ card.status = stkCard[p].status /\ card.confirmed = stkCard[p].confirmed
    BY <2>1, <1>1 DEF StkCards, StkSources
  <2>4. stkRejects' = stkRejects /\ stkFiles' = stkFiles
    BY <1>4 DEF StkCaption
  <2>5. StkCardsSound'
    BY <2>2, <2>3, <2>4, <1>1, <1>3, StkCardChanged
  <2> QED
    BY <2>5, <1>2, StkInThreeNext
<1>5. CASE StkConfirm(p)
  <2>1. PICK card : card = [stkCard[p] EXCEPT !.status = "ready", !.confirmed = TRUE]
    OBVIOUS
  <2>2. stkCard' = [stkCard EXCEPT ![p] = card]
    BY <2>1, <1>1, <1>5 DEF StkConfirm
  <2>3. card \in StkCards /\ card.status = "ready" /\ card.confirmed /\ p \notin stkRejects
    BY <2>1, <1>1, <1>3, <1>5 DEF StkCards, StkConfirm
  <2>4. stkRejects' = stkRejects /\ stkFiles' = stkFiles
    BY <1>5 DEF StkConfirm
  <2>5. StkCardsSound'
    BY <2>2, <2>3, <2>4, <1>1, <1>3, StkCardChanged
  <2> QED
    BY <2>5, <1>2, StkInThreeNext
<1>6. CASE StkDisable(p)
  <2>1. PICK card : card = [stkCard[p] EXCEPT !.status = "disabled"]
    OBVIOUS
  <2>2. stkCard' = [stkCard EXCEPT ![p] = card]
    BY <2>1, <1>1, <1>6 DEF StkDisable
  <2>3. card \in StkCards /\ card.status = "disabled" /\ p \notin stkRejects
    BY <2>1, <1>1, <1>3, <1>6 DEF StkCards, StkDisable
  <2>4. stkRejects' = stkRejects /\ stkFiles' = stkFiles
    BY <1>6 DEF StkDisable
  <2>5. StkCardsSound'
    BY <2>2, <2>3, <2>4, <1>1, <1>3, StkCardChanged
  <2> QED
    BY <2>5, <1>2, StkInThreeNext
<1>7. CASE StkReject(p)
  <2>1. PICK card : card = [stkCard[p] EXCEPT !.status = "rejected"]
    OBVIOUS
  <2>2. stkCard' = [stkCard EXCEPT ![p] = card]
    BY <2>1, <1>1, <1>7 DEF StkReject, StkRejected
  <2>3. card \in StkCards /\ card.status = "rejected"
    BY <2>1, <1>1 DEF StkCards
  <2>4. stkRejects' = stkRejects \cup {p} /\ stkFiles' = stkFiles \ {p}
    BY <1>7 DEF StkReject, StkRejected
  <2>5. StkCardsSound'
    BY <2>2, <2>3, <2>4, <1>1, <1>3, StkCardChanged
  <2> QED
    BY <2>5, <1>2, StkInThreeNext
<1>8. CASE StkDelete(p)
  <2>1. StkAbsent \in StkCards /\ StkAbsent.status = "absent"
    BY DEF StkAbsent, StkCards, StkMeanings, StkSources
  <2>2. stkCard' = [stkCard EXCEPT ![p] = StkAbsent] /\ stkRejects' = stkRejects /\ stkFiles' = stkFiles \ {p}
    BY <1>8 DEF StkDelete
  <2>5. StkCardsSound'
    BY <2>1, <2>2, <1>1, <1>3, StkCardChanged
  <2> QED
    BY <2>5, <1>2, StkInThreeNext
<1> QED
  BY <1>4, <1>5, <1>6, <1>7, <1>8

LEMMA StkRecaptions ==
  ASSUME StkInductive, NEW p \in StkPictures, StkRecaption(p)
  PROVE  StkInductive'
<1>1. StkCardsSound /\ StkJobsSound /\ StkPartsSound /\ StkTypeOK
  BY StkInThree DEF StkInductive
<1>2. /\ stkQueue' = StkEnqueued(stkQueue, p, stkCard[p], TRUE)
      /\ UNCHANGED <<stkCard, stkRejects, stkFiles, stkUp, stkRun, stkPending, stkShown, stkAttached>>
  BY DEF StkRecaption, StkAdminUnchanged
<1>0. PICK force, card : force \in BOOLEAN /\ force = TRUE /\ card = stkCard[p]
  OBVIOUS
<1>3. PICK q : q = StkEnqueued(stkQueue, p, card, force)
  OBVIOUS
<1>4. /\ q \in Seq(StkJob) /\ StkApart(q) /\ Len(q) + StkWorking(stkRun) <= StkQueueLimit
      /\ stkRun # StkIdle => \A i \in DOMAIN q : q[i].picture # stkRun.picture
      /\ ~ stkUp => q = <<>>
  BY <1>0, <1>1, <1>3, StkQueueAdded DEF StkJobsSound
<1>5. StkJobsSound'
  BY <1>0, <1>1, <1>2, <1>3, <1>4 DEF StkJobsSound, StkDownIsEmpty, StkOneJobEach, StkAsked, StkWorking, StkApart
<1> QED
  BY <1>1, <1>2, <1>5, StkCardsKept, StkPartsKept, StkInThreeNext

LEMMA StkStartsWorker ==
  ASSUME StkInductive, StkStart
  PROVE  StkInductive'
<1>1. StkCardsSound /\ StkJobsSound /\ StkPartsSound
  BY StkInThree
<1>2. UNCHANGED <<stkCard, stkRejects, stkFiles, stkRun, stkPending, stkShown, stkAttached>> /\ stkUp' = TRUE /\ ~ stkUp
  BY DEF StkStart, StkVisionUnchanged
<1>3. stkRun = StkIdle
  BY <1>1, <1>2 DEF StkJobsSound, StkDownIsEmpty
<1> DEFINE inbox == {p \in StkOf({"candidate"}) : StkNeedsWork(stkCard[p])}
<1>4. PICK s \in SetToSeqs(inbox) :
        stkQueue' = [i \in 1 .. (IF Len(s) < StkQueueLimit THEN Len(s) ELSE StkQueueLimit) |-> [picture |-> s[i], force |-> FALSE]]
  BY DEF StkStart
<1>5. inbox \in SUBSET StkPictures /\ IsFiniteSet(inbox) /\ Cardinality(inbox) \in Nat
  <2>1. inbox \in SUBSET StkPictures
    BY DEF StkOf
  <2> QED
    BY <2>1, StkConstants, FS_Subset, FS_CardinalityType
<1> HIDE DEF inbox
<1>6. s \in [1 .. Cardinality(inbox) -> inbox] /\ \A i, j \in 1 .. Cardinality(inbox) : i # j => s[i] # s[j]
  BY <1>4 DEF SetToSeqs
<1>7. PICK n : n = IF Len(s) < StkQueueLimit THEN Len(s) ELSE StkQueueLimit
  OBVIOUS
<1>8. Len(s) = Cardinality(inbox)
  BY <1>5, <1>6
<1>9. n \in Nat /\ n <= StkQueueLimit /\ n <= Cardinality(inbox)
  BY <1>5, <1>7, <1>8, StkConstants
<1>10. stkQueue' = [i \in 1 .. n |-> [picture |-> s[i], force |-> FALSE]]
  BY <1>4, <1>7
<1>11. \A i \in 1 .. n : i \in 1 .. Cardinality(inbox) /\ s[i] \in StkPictures
  BY <1>5, <1>6, <1>9
<1>12. stkQueue' \in Seq(StkJob) /\ Len(stkQueue') = n /\ DOMAIN stkQueue' = 1 .. n /\ \A i \in 1 .. n : stkQueue'[i].picture = s[i]
  BY <1>9, <1>10, <1>11 DEF StkJob
<1>13. StkApart(stkQueue)'
  BY <1>6, <1>11, <1>12 DEF StkApart
<1>14. StkJobsSound'
  BY <1>1, <1>2, <1>3, <1>9, <1>12, <1>13, StkConstants DEF StkJobsSound, StkDownIsEmpty, StkOneJobEach, StkAsked, StkWorking
<1> QED
  BY <1>1, <1>2, <1>14, StkCardsKept, StkPartsKept, StkInThreeNext

LEMMA StkStops ==
  ASSUME StkInductive, StkStop \/ \E p \in StkPictures : StkStopsRejecting(p)
  PROVE  StkInductive'
<1>1. StkCardsSound /\ StkJobsSound /\ StkPartsSound /\ stkCard \in [StkPictures -> StkCards]
  BY StkInThree DEF StkCardsSound
<1>2. stkUp' = FALSE /\ stkQueue' = <<>> /\ stkRun' = StkIdle /\ UNCHANGED <<stkPending, stkShown, stkAttached>> /\ stkFiles' = stkFiles
  BY DEF StkStop, StkStopsRejecting, StkVisionUnchanged
<1>3. StkJobsSound' /\ StkPartsSound'
  <2>1. StkJobsSound'
    <3>1. /\ stkQueue' \in Seq(StkJob) /\ StkApart(stkQueue') /\ Len(stkQueue') + StkWorking(stkRun') <= StkQueueLimit
      BY <1>2, StkNothingToDo
    <3> QED
      BY <1>2, <3>1 DEF StkJobsSound, StkDownIsEmpty, StkOneJobEach, StkAsked, StkApart, StkWorking
  <2> QED
    BY <2>1, <1>1, <1>2, StkPartsKept
<1>4. StkCardsSound'
  <2>1. CASE StkStop
    BY <2>1, <1>1, StkCardsKept DEF StkStop
  <2>2. ASSUME NEW p \in StkPictures, StkStopsRejecting(p) PROVE StkCardsSound'
    <3>0. stkFiles' \subseteq StkPictures /\ (p \in stkRejects => stkCard[p].status \in {"absent", "rejected"})
      BY <1>1, <1>2 DEF StkCardsSound, StkRejectedStays
    <3>1. CASE StkRejected(p)
      <4>1. PICK card : card = [stkCard[p] EXCEPT !.status = "rejected"]
        OBVIOUS
      <4>2. stkCard' = [stkCard EXCEPT ![p] = card] /\ stkRejects' = stkRejects \cup {p}
        BY <4>1, <1>1, <3>1 DEF StkRejected
      <4>3. card \in StkCards /\ card.status = "rejected"
        BY <4>1, <1>1 DEF StkCards
      <4> QED
        BY <4>2, <4>3, <3>0, <1>1, StkCardChanged
    <3>2. CASE stkCard' = [stkCard EXCEPT ![p] = StkAbsent] /\ UNCHANGED stkRejects
      <4>1. StkAbsent \in StkCards /\ StkAbsent.status = "absent"
        BY DEF StkAbsent, StkCards, StkMeanings, StkSources
      <4> QED
        BY <3>2, <4>1, <3>0, <1>1, StkCardChanged
    <3> QED
      BY <2>2, <3>1, <3>2 DEF StkStopsRejecting
  <2> QED
    BY <2>1, <2>2
<1> QED
  BY <1>3, <1>4, StkInThreeNext

LEMMA StkTakes ==
  ASSUME StkInductive, StkTake
  PROVE  StkInductive'
<1>1. StkCardsSound /\ StkJobsSound /\ StkPartsSound /\ stkCard \in [StkPictures -> StkCards]
  BY StkInThree DEF StkCardsSound
<1>2. /\ stkUp /\ stkRun = StkIdle /\ stkQueue # <<>> /\ stkQueue' = Tail(stkQueue)
      /\ UNCHANGED <<stkCard, stkRejects, stkFiles, stkUp, stkPending, stkShown, stkAttached>>
  BY DEF StkTake, StkVisionUnchanged
<1>3. PICK job, card, left : job = Head(stkQueue) /\ card = stkCard[job.picture] /\ left = Tail(stkQueue)
  OBVIOUS
<1>4. /\ left \in Seq(StkJob) /\ StkApart(left) /\ Len(left) = Len(stkQueue) - 1 /\ job \in StkJob
      /\ \A i \in DOMAIN left : left[i].picture # job.picture
  BY <1>1, <1>2, <1>3, StkQueueTaken DEF StkJobsSound
<1>5. card \in StkCards /\ job.picture \in StkPictures /\ job.force \in BOOLEAN
  BY <1>1, <1>3, <1>4 DEF StkJob
<1>6. \/ stkRun' = StkIdle
      \/ /\ job.force \/ StkNeedsWork(card)
         /\ stkRun' = [phase |-> IF job.force \/ ~ card.judged THEN "judging" ELSE "captioning",
                       picture |-> job.picture, force |-> job.force, source |-> card.source, written |-> StkWritten(card)]
  BY <1>3 DEF StkTake
<1>7. stkRun' = StkIdle \/ (stkRun' \in StkWork /\ stkRun'.picture = job.picture /\ (stkRun'.written => stkRun'.force))
  <2>1. StkWritten(card) \in BOOLEAN /\ (StkNeedsWork(card) => ~ StkWritten(card))
    BY <1>5 DEF StkWritten, StkNeedsWork, StkCards
  <2> QED
    BY <2>1, <1>5, <1>6 DEF StkWork, StkCards
<1>8. Len(left) + StkWorking(stkRun') <= StkQueueLimit
  <2>1. Len(stkQueue) + StkWorking(stkRun) <= StkQueueLimit /\ StkWorking(stkRun) = 0 /\ StkQueueLimit \in Nat /\ Len(stkQueue) \in Nat
    BY <1>1, <1>2, StkConstants DEF StkJobsSound, StkWorking
  <2>2. StkWorking(stkRun') \in {0, 1}
    BY DEF StkWorking
  <2> QED
    BY <2>1, <2>2, <1>4
<1>9. StkJobsSound'
  <2>1. stkQueue' = left
    BY <1>2, <1>3
  <2>2. StkOneJobEach' /\ StkAsked' /\ StkDownIsEmpty'
    BY <2>1, <1>2, <1>4, <1>7 DEF StkOneJobEach, StkAsked, StkDownIsEmpty
  <2> QED
    BY <2>1, <2>2, <1>1, <1>2, <1>4, <1>7, <1>8 DEF StkJobsSound, StkWorking, StkApart
<1> QED
  BY <1>1, <1>2, <1>9, StkCardsKept, StkPartsKept, StkInThreeNext

\* The worker lets go of its picture, or goes on with it.
LEMMA StkRunOn ==
  ASSUME StkJobsSound, UNCHANGED <<stkQueue, stkUp>>, stkRun # StkIdle,
         stkRun' = StkIdle \/ (stkRun' \in StkWork /\ stkRun'.picture = stkRun.picture /\ (stkRun'.written => stkRun'.force))
  PROVE  StkJobsSound'
<1>1. stkUp
  BY DEF StkJobsSound, StkDownIsEmpty
<1>2. Len(stkQueue) + StkWorking(stkRun') <= StkQueueLimit
  <2>1. Len(stkQueue) \in Nat /\ StkQueueLimit \in Nat /\ StkWorking(stkRun) = 1 /\ StkWorking(stkRun') \in {0, 1}
    BY StkConstants DEF StkJobsSound, StkWorking
  <2> QED
    BY <2>1 DEF StkJobsSound
<1>3. StkOneJobEach' /\ StkAsked' /\ StkDownIsEmpty'
  BY <1>1 DEF StkJobsSound, StkOneJobEach, StkAsked, StkDownIsEmpty
<1> QED
  BY <1>2, <1>3 DEF StkJobsSound, StkWorking, StkApart

LEMMA StkJudges ==
  ASSUME StkInductive, StkJudged
  PROVE  StkInductive'
<1>1. StkCardsSound /\ StkJobsSound /\ StkPartsSound /\ stkCard \in [StkPictures -> StkCards]
  BY StkInThree DEF StkCardsSound
<1>2. UNCHANGED <<stkUp, stkQueue, stkPending, stkShown, stkAttached>> /\ stkRun.phase = "judging"
  BY DEF StkJudged, StkVisionUnchanged
<1>3. stkRun # StkIdle /\ stkRun \in StkWork
  BY <1>1, <1>2 DEF StkIdle, StkJobsSound
<1>4. PICK p, card : p = stkRun.picture /\ card = stkCard[p]
  OBVIOUS
<1>5. p \in StkPictures /\ card \in StkCards /\ (card.status = "ready" => card.confirmed)
      /\ (p \in stkRejects => card.status \in {"absent", "rejected"}) /\ stkFiles \subseteq StkPictures
  BY <1>1, <1>3, <1>4 DEF StkWork, StkCardsSound, StkReadyIsConfirmed, StkRejectedStays
<1>6. CASE card.status # "absent" /\ StkRejected(p) /\ stkFiles' = stkFiles \ {p} /\ stkRun' = StkIdle
  <2>1. PICK new : new = [card EXCEPT !.status = "rejected"]
    OBVIOUS
  <2>2. new \in StkCards /\ new.status = "rejected"
    BY <2>1, <1>5 DEF StkCards
  <2>3. stkCard' = [stkCard EXCEPT ![p] = new] /\ stkRejects' = stkRejects \cup {p} /\ stkFiles' \subseteq StkPictures
    BY <2>1, <1>1, <1>4, <1>5, <1>6 DEF StkRejected
  <2>4. StkCardsSound'
    BY <2>2, <2>3, <1>1, <1>5, StkCardChanged
  <2> QED
    BY <2>4, <1>1, <1>2, <1>3, <1>6, StkRunOn, StkPartsKept, StkInThreeNext
<1>7. CASE /\ card.status \notin {"absent", "rejected"}
           /\ stkCard' = [stkCard EXCEPT ![p].judged = TRUE]
           /\ stkRun' = IF StkSpares(stkRun, card) THEN StkIdle
                        ELSE [stkRun EXCEPT !.phase = "captioning", !.source = card.source, !.written = StkWritten(card)]
           /\ UNCHANGED <<stkRejects, stkFiles>>
  <2>1. PICK new : new = [card EXCEPT !.judged = TRUE]
    OBVIOUS
  <2>2. new \in StkCards /\ new.status = card.status /\ new.confirmed = card.confirmed
    BY <2>1, <1>5 DEF StkCards
  <2>3. stkCard' = [stkCard EXCEPT ![p] = new] /\ stkRejects' = stkRejects /\ stkFiles' \subseteq StkPictures
    BY <2>1, <1>1, <1>4, <1>5, <1>7
  <2>4. StkCardsSound'
    BY <2>2, <2>3, <1>1, <1>4, <1>5, StkCardChanged
  <2>5. StkWritten(card) \in BOOLEAN
    BY DEF StkWritten
  <2>6. stkRun' = StkIdle \/ (stkRun' \in StkWork /\ stkRun'.picture = stkRun.picture /\ (stkRun'.written => stkRun'.force))
    <3>1. CASE StkSpares(stkRun, card)
      BY <3>1, <1>7
    <3>2. CASE ~ StkSpares(stkRun, card)
      <4>1. stkRun' = [stkRun EXCEPT !.phase = "captioning", !.source = card.source, !.written = StkWritten(card)]
        BY <3>2, <1>7
      <4>2. stkRun' \in StkWork /\ stkRun'.picture = stkRun.picture /\ stkRun'.force = stkRun.force /\ stkRun'.written = StkWritten(card)
        BY <4>1, <2>5, <1>3, <1>5 DEF StkWork, StkCards
      <4> QED
        BY <4>2, <3>2 DEF StkSpares
    <3> QED
      BY <3>1, <3>2
  <2> QED
    BY <2>4, <2>6, <1>1, <1>2, <1>3, StkRunOn, StkPartsKept, StkInThreeNext
<1>8. CASE stkRun' = StkIdle /\ UNCHANGED <<stkCard, stkRejects, stkFiles>>
  BY <1>8, <1>1, <1>2, <1>3, StkRunOn, StkCardsKept, StkPartsKept, StkInThreeNext
<1> QED
  BY <1>4, <1>6, <1>7, <1>8 DEF StkJudged

LEMMA StkCaptions ==
  ASSUME StkInductive, StkCaptioned
  PROVE  StkInductive'
<1>1. StkCardsSound /\ StkJobsSound /\ StkPartsSound /\ stkCard \in [StkPictures -> StkCards]
  BY StkInThree DEF StkCardsSound
<1>2. /\ UNCHANGED <<stkUp, stkQueue, stkPending, stkShown, stkAttached, stkRejects, stkFiles>>
      /\ stkRun.phase = "captioning" /\ stkRun' = StkIdle
  BY DEF StkCaptioned, StkVisionUnchanged
<1>3. stkRun # StkIdle /\ stkRun \in StkWork
  BY <1>1, <1>2 DEF StkIdle, StkJobsSound
<1>4. PICK p, card, source : p = stkRun.picture /\ card = stkCard[p] /\ source = IF stkRun.source \in StkHandwritten THEN "mixed" ELSE "vision"
  OBVIOUS
<1>5. p \in StkPictures /\ card \in StkCards /\ source \in StkSources /\ (card.status = "ready" => card.confirmed)
      /\ (p \in stkRejects => card.status \in {"absent", "rejected"}) /\ stkFiles \subseteq StkPictures
  BY <1>1, <1>3, <1>4 DEF StkWork, StkCardsSound, StkReadyIsConfirmed, StkRejectedStays, StkSources
<1>6. StkCardsSound'
  <2>1. CASE stkCard' = stkCard
    BY <2>1, <1>1, <1>2, StkCardsKept
  <2>2. ASSUME NEW m \in StkMeanings, stkCard' = [stkCard EXCEPT ![p].meaning = m, ![p].source = source] PROVE StkCardsSound'
    <3>1. PICK new : new = [card EXCEPT !.meaning = m, !.source = source]
      OBVIOUS
    <3>2. new \in StkCards /\ new.status = card.status /\ new.confirmed = card.confirmed
      BY <3>1, <1>5 DEF StkCards
    <3>3. stkCard' = [stkCard EXCEPT ![p] = new]
      BY <2>2, <3>1, <1>1, <1>4, <1>5
    <3> QED
      BY <3>2, <3>3, <1>1, <1>2, <1>4, <1>5, StkCardChanged
  <2> QED
    BY <2>1, <2>2, <1>4 DEF StkCaptioned
<1> QED
  BY <1>1, <1>2, <1>3, <1>6, StkRunOn, StkPartsKept, StkInThreeNext

LEMMA StkReplying ==
  ASSUME StkInductive, StkAttach \/ \E x \in stkPending : StkSend(x)
  PROVE  StkInductive'
<1>1. StkCardsSound /\ StkJobsSound /\ StkPartsSound /\ stkCard \in [StkPictures -> StkCards]
  BY StkInThree DEF StkCardsSound
<1>2. UNCHANGED <<stkCard, stkRejects, stkFiles, stkUp, stkQueue, stkRun>>
  BY DEF StkAttach, StkSend
<1>3. StkPartsSound'
  <2>1. CASE StkAttach
    <3>1. PICK ps \in StkChoices : stkPending' = stkPending \cup {[picture |-> p, card |-> stkCard[p]] : p \in ps}
      BY <2>1 DEF StkAttach
    <3>2. \A p \in ps : p \in StkPictures /\ stkCard[p].status = "ready" /\ stkCard[p].meaning = "good" /\ stkCard[p].confirmed
      BY <1>1 DEF StkChoices, StkSendable, StkCardsSound, StkReadyIsConfirmed
    <3>3. \A x \in stkPending' : x \in stkPending \/ (x \in StkParts /\ x.card.confirmed /\ x.card.meaning = "good")
      BY <3>1, <3>2, <1>1 DEF StkParts
    <3>4. stkAttached' \in 0 .. StkReplies /\ stkShown' = stkShown
      BY <2>1, <1>1, StkConstants DEF StkAttach, StkPartsSound
    <3> QED
      BY <3>3, <3>4, <1>1 DEF StkPartsSound, StkShownIsFormed
  <2>2. ASSUME NEW x \in stkPending, StkSend(x) PROVE StkPartsSound'
    BY <2>2, <1>1 DEF StkSend, StkPartsSound, StkShownIsFormed
  <2> QED
    BY <2>1, <2>2
<1> QED
  BY <1>1, <1>2, <1>3, StkCardsKept, StkJobsKept, StkInThreeNext

LEMMA StkSteps ==
  ASSUME StkInductive, [StkNext]_stkVars PROVE StkInductive'
<1>1. CASE UNCHANGED stkVars
  BY <1>1, StkInThree, StkInThreeNext, StkCardsKept, StkJobsKept, StkPartsKept DEF stkVars
<1>2. ASSUME NEW p \in StkPictures, NEW captured \in BOOLEAN, StkIngest(p, captured) PROVE StkInductive'
  BY <1>2, StkIngests
<1>3. ASSUME NEW p \in StkPictures, StkCaption(p) \/ StkConfirm(p) \/ StkDisable(p) \/ StkReject(p) \/ StkDelete(p) PROVE StkInductive'
  BY <1>3, StkAdministers
<1>4. ASSUME NEW p \in StkPictures, StkRecaption(p) PROVE StkInductive'
  BY <1>4, StkRecaptions
<1>5. ASSUME NEW p \in StkPictures, StkStopsRejecting(p) PROVE StkInductive'
  BY <1>5, StkStops
<1> QED
  BY <1>1, <1>2, <1>3, <1>4, <1>5, StkStartsWorker, StkStops, StkTakes, StkJudges, StkCaptions, StkReplying DEF StkNext

LEMMA StkAlways == StkSpec => []StkInductive
<1>1. StkInit => StkInductive
  BY StkStarts
<1>2. StkInductive /\ [StkNext]_stkVars => StkInductive'
  BY StkSteps
<1> QED
  BY <1>1, <1>2, PTL DEF StkSpec

(***************************************************************************)
(* The theorems.                                                           *)
(***************************************************************************)
\* The cards, the queue and the work of the vision worker keep their types.
THEOREM StkTypes == StkSpec => []StkTypeOK
<1>1. StkInductive => StkTypeOK
  BY DEF StkInductive
<1> QED
  BY <1>1, StkAlways, PTL

\* What was rejected never comes back, what a group sees was confirmed and
\* formed, and the pools keep their limits (lexicon.py, vision.py).
THEOREM StkStaysSound == StkSpec => [](StkRejectedStays /\ StkShownIsFormed /\ StkPoolsKept)
<1>1. StkInductive => StkRejectedStays /\ StkShownIsFormed /\ StkPoolsKept
  BY DEF StkInductive
<1> QED
  BY <1>1, StkAlways, PTL

\* The vision worker replaces a meaning the administrator wrote only as it was
\* asked to, or when it had read the card before (vision.py _run_card).
THEOREM StkKeepsHandwriting == StkSpec => [][StkHandwrittenKept]_stkVars
<1>1. ASSUME StkInductive, [StkNext]_stkVars PROVE [StkHandwrittenKept]_stkVars
  <2>1. SUFFICES ASSUME StkNext, NEW p \in StkPictures, stkRun # StkIdle, stkRun' = StkIdle,
                        stkCard'[p].status # "absent", stkCard'[p].meaning # stkCard[p].meaning
                 PROVE  stkRun.force \/ ~ stkRun.written
    <3>1. CASE UNCHANGED stkVars
      BY <3>1 DEF stkVars
    <3>2. CASE StkNext
      BY <3>2, <1>1 DEF StkHandwrittenKept
    <3> QED
      BY <3>1, <3>2, <1>1
  <2> QED
    BY <1>1, <2>1 DEF StkInductive, StkAsked
<1> QED
  BY <1>1, StkAlways, PTL DEF StkSpec
=============================================================================
