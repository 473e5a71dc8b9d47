---------------------------- MODULE StoreProofs ----------------------------
(***************************************************************************)
(* Theorems about the stores that several writers share: the facts of a    *)
(* game, the conventions of a group, the jobs that look things up, the     *)
(* projections of the journal, and configurations with their commands.     *)
(***************************************************************************)
EXTENDS GameFacts, Conventions, KnowledgeJobs, Projections, ControlPlane, FiniteSetTheorems,
        SequenceTheorems, NaturalsInduction, WellFoundedInduction, TLAPS

----------------------------------------------------------------------------
(***************************************************************************)
(* Theorems about the facts of a game for every set of slots, editors,     *)
(* snapshots and claims, and any evidence levels, times and seed versions. *)
(***************************************************************************)

(* The newest revision of slots that share one is that one. *)
LEMMA SharedRevision ==
  ASSUME NEW slots, NEW r \in Nat, \A s \in FactsSlots : slots[s].revision = r
  PROVE  Max({slots[s].revision : s \in FactsSlots}) = r
<1>1. {slots[s].revision : s \in FactsSlots} = {r}
  BY FactsConstants
<1> QED
  BY <1>1 DEF Max

-----------------------------------------------------------------------------
(***************************************************************************)
(* What is true of the slots and of what was not found.  The revisions     *)
(* agree because every writer sets them all, so the newest one is the one  *)
(* a snapshot was taken at; and every writer forgets the snapshots.        *)
(***************************************************************************)
FactsShared == \A s, r \in FactsSlots : factsSlot[s].revision = factsSlot[r].revision
FactsOneMemory ==
  \A n, k \in FactsSnapshots :
    factsNegative[n].status = "active" /\ factsNegative[k].status = "active" =>
      n = k /\ \A s \in FactsSlots : factsNegative[n].revision = factsSlot[s].revision
FactsAlone ==
  \A c, d \in FactsComparable \ FactsBundled : c = d
FactsOfSeed ==
  \A c \in FactsBundled : factsClaim[c] = "active" => FactsVersionOf[c] = factsSeed

FactsInductive == FactsTypeOK /\ FactsShared /\ FactsOneMemory /\ FactsAlone /\ FactsOfSeed

(* An editor's draft and a probe are slots again. *)
LEMMA AppliedType ==
  ASSUME NEW s \in FactsSlots, NEW v \in FactsSlot, NEW track \in FactsTracks, NEW target \in 0 .. 4, NEW t \in FactsTimes
  PROVE  FactsApplied(s, v, track, target, t) \in FactsSlot
<1> DEFINE when == IF track = "official" /\ v.announced = FactsMissing THEN t ELSE v.announced
<1>1. /\ v.at \in [FactsTracks -> 0 .. 4] /\ v.checked \in [FactsTracks -> FactsTimes \cup {FactsMissing}]
      /\ when \in FactsTimes \cup {FactsMissing} /\ v.revision + 1 \in Nat
  BY DEF FactsSlot
<1> HIDE DEF when
<1>2. [v EXCEPT !.at[track] = target, !.checked[track] = t, !.revision = v.revision + 1, !.announced = when] \in FactsSlot
  BY <1>1 DEF FactsSlot
<1> QED
  BY <1>2 DEF FactsApplied, when

LEMMA ForgottenType ==
  ASSUME FactsTypeOK, NEW why \in {"invalidated", "expired"}, FactsForgotten(why)
  PROVE  /\ factsNegative' \in [FactsSnapshots -> FactsSnapshot]
         /\ \A n \in FactsSnapshots : factsNegative'[n].status # "active"
  BY DEF FactsTypeOK, FactsForgotten, FactsSnapshot

LEMMA WrittenType ==
  ASSUME FactsTypeOK, NEW slots \in FactsStates, NEW r \in Nat, FactsWrite(slots, r)
  PROVE  /\ factsSlot' \in FactsStates
         /\ \A s \in FactsSlots : factsSlot'[s].revision = r
         /\ factsNegative' \in [FactsSnapshots -> FactsSnapshot]
         /\ \A n \in FactsSnapshots : factsNegative'[n].status # "active"
<1>1. FactsForgotten("invalidated")
  BY DEF FactsWrite
<1>2. \A s \in FactsSlots : [slots[s] EXCEPT !.revision = r] \in FactsSlot /\ [slots[s] EXCEPT !.revision = r].revision = r
  BY DEF FactsStates, FactsSlot
<1> QED
  BY <1>1, <1>2, ForgottenType DEF FactsWrite, FactsStates

(* The newest revision, under the invariant. *)
LEMMA NewestRevision ==
  ASSUME FactsTypeOK, FactsShared
  PROVE  /\ FactsRevision \in Nat
         /\ \A s \in FactsSlots : factsSlot[s].revision = FactsRevision
<1>1. PICK s \in FactsSlots : TRUE
  BY FactsConstants
<1>2. factsSlot[s].revision \in Nat
  BY DEF FactsTypeOK, FactsStates, FactsSlot
<1>3. \A q \in FactsSlots : factsSlot[q].revision = factsSlot[s].revision
  BY <1>1 DEF FactsShared
<1>4. Max({factsSlot[q].revision : q \in FactsSlots}) = factsSlot[s].revision
  BY <1>2, <1>3, SharedRevision
<1> QED
  BY <1>2, <1>3, <1>4 DEF FactsRevision

LEMMA FactsStart == FactsInit => FactsInductive
<1> SUFFICES ASSUME FactsInit PROVE FactsInductive
  OBVIOUS
<1>1. FactsNoDraft \in FactsTransition
  BY FactsConstants DEF FactsNoDraft, FactsTransition
<1>2. FactsTypeOK
  BY <1>1, FactsConstants DEF FactsInit, FactsTypeOK, FactsStates, FactsSnapshot, FactsClaimStates, FactsSeedVersions, FactsTimes
<1>3. FactsShared
  BY FactsConstants DEF FactsInit, FactsShared
<1>4. FactsOneMemory /\ FactsAlone /\ FactsOfSeed
  BY DEF FactsInit, FactsOneMemory, FactsAlone, FactsComparable, FactsOfSeed, FactsBundled
<1> QED
  BY <1>2, <1>3, <1>4 DEF FactsInductive

-----------------------------------------------------------------------------
(***************************************************************************)
(* The steps.  A write of the slots renews the revision of all of them and *)
(* forgets; a claim that is admitted stands alone; a seed takes its own    *)
(* claims away.                                                            *)
(***************************************************************************)
FactsSlotsKept == factsSlot' = factsSlot /\ factsNegative' = factsNegative
FactsClaimsKept == factsClaim' = factsClaim /\ factsSeed' = factsSeed

LEMMA MemoryKept ==
  ASSUME FactsInductive, FactsSlotsKept PROVE FactsShared' /\ FactsOneMemory'
  BY DEF FactsInductive, FactsSlotsKept, FactsShared, FactsOneMemory

LEMMA ClaimsKept ==
  ASSUME FactsInductive, FactsClaimsKept PROVE FactsAlone' /\ FactsOfSeed'
  BY DEF FactsInductive, FactsClaimsKept, FactsAlone, FactsOfSeed, FactsComparable

LEMMA NothingRemembered ==
  ASSUME \A n \in FactsSnapshots : factsNegative'[n].status # "active" PROVE FactsOneMemory'
  BY DEF FactsOneMemory

LEMMA Written ==
  ASSUME FactsTypeOK, NEW slots \in FactsStates, NEW r \in Nat, FactsWrite(slots, r)
  PROVE  /\ factsSlot' \in FactsStates /\ factsNegative' \in [FactsSnapshots -> FactsSnapshot]
         /\ FactsShared' /\ FactsOneMemory'
<1>1. /\ factsSlot' \in FactsStates /\ factsNegative' \in [FactsSnapshots -> FactsSnapshot]
      /\ \A s \in FactsSlots : factsSlot'[s].revision = r
      /\ \A n \in FactsSnapshots : factsNegative'[n].status # "active"
  BY WrittenType
<1> QED
  BY <1>1, NothingRemembered DEF FactsShared

LEMMA Forgotten ==
  ASSUME FactsInductive, factsSlot' = factsSlot, FactsForgotten("invalidated")
  PROVE  /\ factsNegative' \in [FactsSnapshots -> FactsSnapshot]
         /\ FactsShared' /\ FactsOneMemory'
  BY ForgottenType, NothingRemembered DEF FactsInductive, FactsShared

LEMMA DeriveStep ==
  ASSUME FactsInductive, NEW e \in FactsEditors, NEW s \in FactsSlots, NEW track \in FactsTracks,
         NEW target \in 0 .. 4, NEW t \in FactsTimes, FactsDerive(e, s, track, target, t)
  PROVE  FactsInductive'
<1> DEFINE v == FactsApplied(s, factsSlot[s], track, target, t)
<1>1. v \in FactsSlot
  BY AppliedType DEF FactsInductive, FactsTypeOK, FactsStates
<1>2. FactsRevision \in Nat
  BY NewestRevision DEF FactsInductive
<1>3. [slot |-> s, state |-> v, expected |-> FactsRevision] \in FactsTransition
  BY <1>1, <1>2 DEF FactsTransition
<1>4. FactsTypeOK'
  BY <1>3 DEF FactsDerive, FactsInductive, FactsTypeOK
<1>5. FactsSlotsKept /\ FactsClaimsKept
  BY DEF FactsDerive, FactsSlotsKept, FactsClaimsKept
<1> QED
  BY <1>4, <1>5, MemoryKept, ClaimsKept DEF FactsInductive

LEMMA SaveStep ==
  ASSUME FactsInductive, NEW e \in FactsEditors, FactsSave(e)
  PROVE  FactsInductive'
<1> DEFINE d == factsDraft[e]
           slots == [factsSlot EXCEPT ![d.slot] = d.state]
<1>1. d \in FactsTransition
  BY DEF FactsInductive, FactsTypeOK
<1>2. slots \in FactsStates /\ d.state.revision \in Nat
  BY <1>1 DEF FactsInductive, FactsTypeOK, FactsStates, FactsTransition, FactsSlot
<1>3. FactsNoDraft \in FactsTransition
  BY FactsConstants DEF FactsNoDraft, FactsTransition
<1>4. factsDraft' \in [FactsEditors -> FactsTransition]
  BY <1>3 DEF FactsSave, FactsInductive, FactsTypeOK
<1>5. /\ factsSlot' \in FactsStates /\ factsNegative' \in [FactsSnapshots -> FactsSnapshot]
      /\ FactsShared' /\ FactsOneMemory'
  <2>1. CASE FactsCurrent(d)
    <3>1. FactsWrite(slots, d.state.revision)
      BY <2>1 DEF FactsSave
    <3> QED
      BY <1>2, <3>1, Written DEF FactsInductive
  <2>2. CASE ~FactsCurrent(d)
    <3>1. FactsSlotsKept
      BY <2>2 DEF FactsSave, FactsSlotsKept
    <3> QED
      BY <3>1, MemoryKept DEF FactsInductive, FactsTypeOK, FactsSlotsKept
  <2> QED
    BY <2>1, <2>2
<1>6. FactsTypeOK'
  BY <1>4, <1>5 DEF FactsSave, FactsInductive, FactsTypeOK
<1>7. FactsClaimsKept
  BY DEF FactsSave, FactsClaimsKept
<1> QED
  BY <1>5, <1>6, <1>7, ClaimsKept DEF FactsInductive

LEMMA ProbeStep ==
  ASSUME FactsInductive, NEW t \in FactsTimes, FactsProbe(t)
  PROVE  FactsInductive'
<1> DEFINE next == [s \in FactsSlots |-> IF factsSlot[s].at["official"] = 0 THEN factsSlot[s]
                      ELSE FactsApplied(s, factsSlot[s], "official", factsSlot[s].at["official"], t)]
<1>1. \A s \in FactsSlots : factsSlot[s] \in FactsSlot /\ factsSlot[s].at["official"] \in 0 .. 4
  BY DEF FactsInductive, FactsTypeOK, FactsStates, FactsSlot, FactsTracks
<1>2. "official" \in FactsTracks
  BY DEF FactsTracks
<1>3. next \in FactsStates
  BY <1>1, <1>2, AppliedType DEF FactsStates
<1>4. FactsRevision + 1 \in Nat
  BY NewestRevision DEF FactsInductive
<1>5. FactsWrite(next, FactsRevision + 1)
  BY DEF FactsProbe
<1>6. /\ factsSlot' \in FactsStates /\ factsNegative' \in [FactsSnapshots -> FactsSnapshot]
      /\ FactsShared' /\ FactsOneMemory'
  BY <1>3, <1>4, <1>5, Written DEF FactsInductive
<1>7. FactsTypeOK'
  BY <1>6 DEF FactsProbe, FactsInductive, FactsTypeOK
<1>8. FactsClaimsKept
  BY DEF FactsProbe, FactsClaimsKept
<1> QED
  BY <1>6, <1>7, <1>8, ClaimsKept DEF FactsInductive

LEMMA NothingFoundStep ==
  ASSUME FactsInductive, NEW n \in FactsSnapshots, NEW expires \in FactsTimes, FactsNothingFound(n, FactsRevision, expires)
  PROVE  FactsInductive'
<1>1. FactsRevision \in Nat /\ \A s \in FactsSlots : factsSlot[s].revision = FactsRevision
  BY NewestRevision DEF FactsInductive
<1>2. factsNegative' \in [FactsSnapshots -> FactsSnapshot]
  BY <1>1 DEF FactsNothingFound, FactsInductive, FactsTypeOK, FactsSnapshot
<1>3. /\ factsNegative'[n].revision = FactsRevision
      /\ \A k \in FactsSnapshots : k # n => factsNegative'[k].status # "active"
  BY DEF FactsNothingFound, FactsInductive, FactsTypeOK, FactsSnapshot
<1>4. factsSlot' = factsSlot /\ FactsClaimsKept
  BY DEF FactsNothingFound, FactsClaimsKept
<1>5. FactsShared' /\ FactsOneMemory'
  BY <1>1, <1>3, <1>4 DEF FactsInductive, FactsShared, FactsOneMemory
<1>6. FactsTypeOK'
  BY <1>2 DEF FactsNothingFound, FactsInductive, FactsTypeOK
<1> QED
  BY <1>4, <1>5, <1>6, ClaimsKept DEF FactsInductive

LEMMA ReadStep ==
  ASSUME FactsInductive, FactsRead PROVE FactsInductive'
<1>1. /\ factsNegative' \in [FactsSnapshots -> FactsSnapshot]
      /\ \A n \in FactsSnapshots : factsNegative'[n].status = "active" => factsNegative'[n] = factsNegative[n]
  BY DEF FactsRead, FactsInductive, FactsTypeOK, FactsSnapshot
<1>2. factsSlot' = factsSlot /\ FactsClaimsKept
  BY DEF FactsRead, FactsClaimsKept
<1>3. FactsShared' /\ FactsOneMemory'
  BY <1>1, <1>2 DEF FactsInductive, FactsShared, FactsOneMemory
<1>4. FactsTypeOK'
  BY <1>1 DEF FactsRead, FactsInductive, FactsTypeOK
<1> QED
  BY <1>2, <1>3, <1>4, ClaimsKept DEF FactsInductive

LEMMA NewsStep ==
  ASSUME FactsInductive, FactsNews PROVE FactsInductive'
<1>1. FactsForgotten("invalidated") /\ factsSlot' = factsSlot /\ FactsClaimsKept
  BY DEF FactsNews, FactsClaimsKept
<1>2. FactsTypeOK'
  BY <1>1, Forgotten DEF FactsNews, FactsInductive, FactsTypeOK
<1> QED
  BY <1>1, <1>2, Forgotten, ClaimsKept DEF FactsInductive

LEMMA AdmitStep ==
  ASSUME FactsInductive, NEW c \in FactsClaims, FactsAdmit(c) PROVE FactsInductive'
<1>1. /\ factsNegative' \in [FactsSnapshots -> FactsSnapshot]
      /\ FactsShared' /\ FactsOneMemory'
  <2>1. CASE FactsLevel[c] = "official"
    BY <2>1, Forgotten DEF FactsAdmit
  <2>2. CASE FactsLevel[c] # "official"
    BY <2>2, MemoryKept DEF FactsAdmit, FactsSlotsKept, FactsInductive, FactsTypeOK
  <2> QED
    BY <2>1, <2>2
<1>2. factsClaim' \in [FactsClaims -> FactsClaimStates]
  BY DEF FactsAdmit, FactsInductive, FactsTypeOK, FactsClaimStates
<1>3. FactsTypeOK'
  BY <1>1, <1>2 DEF FactsAdmit, FactsInductive, FactsTypeOK
<1>4. \A d \in FactsClaims : factsClaim'[d] = "active" => d = c \/ factsClaim[d] = "active"
  BY DEF FactsAdmit
<1>5. FactsAlone'
  <2>1. CASE FactsKind[c] # "rumor"
    <3>1. \A d \in FactsComparable' : d = c
      BY <1>4, <2>1 DEF FactsAdmit, FactsComparable
    <3> QED
      BY <3>1 DEF FactsAlone
  <2>2. CASE FactsKind[c] = "rumor"
    <3>1. FactsComparable' \subseteq FactsComparable
      BY <1>4, <2>2 DEF FactsComparable
    <3> QED
      BY <3>1 DEF FactsInductive, FactsAlone
  <2> QED
    BY <2>1, <2>2
<1>6. FactsOfSeed'
  BY <1>4 DEF FactsAdmit, FactsInductive, FactsOfSeed, FactsBundled
<1> QED
  BY <1>1, <1>3, <1>5, <1>6 DEF FactsInductive

LEMMA DisputeStep ==
  ASSUME FactsInductive, NEW c \in FactsClaims, FactsDispute(c) PROVE FactsInductive'
<1>1. FactsForgotten("invalidated") /\ factsSlot' = factsSlot
  BY DEF FactsDispute
<1>2. FactsTypeOK'
  BY <1>1, Forgotten DEF FactsDispute, FactsInductive, FactsTypeOK, FactsClaimStates
<1>3. \A d \in FactsClaims : factsClaim'[d] = "active" => factsClaim[d] = "active"
  BY DEF FactsDispute, FactsInductive, FactsTypeOK
<1>4. FactsAlone' /\ FactsOfSeed'
  BY <1>3 DEF FactsDispute, FactsInductive, FactsAlone, FactsOfSeed, FactsComparable, FactsBundled
<1> QED
  BY <1>1, <1>2, <1>4, Forgotten DEF FactsInductive

LEMMA ReplacedType ==
  ASSUME FactsTypeOK
  PROVE  /\ FactsReplaced \in [FactsClaims -> FactsClaimStates]
         /\ \A c \in FactsBundled : FactsReplaced[c] # "active"
         /\ \A c \in FactsClaims \ FactsBundled : FactsReplaced[c] = factsClaim[c]
  BY DEF FactsTypeOK, FactsReplaced, FactsClaimStates, FactsBundled

LEMMA ImportStep ==
  ASSUME FactsInductive, NEW b \in FactsBundled, FactsImport(FactsVersionOf[b]) PROVE FactsInductive'
<1> DEFINE v == FactsVersionOf[b]
<1>1. v \in Nat
  BY FactsConstants
<1>2. factsClaim' \in [FactsClaims -> FactsClaimStates]
  BY ReplacedType DEF FactsImport, FactsInductive, FactsClaimStates
<1>3. FactsTypeOK'
  BY <1>1, <1>2 DEF FactsImport, FactsInductive, FactsTypeOK, FactsSeedVersions
<1>4. \A c \in FactsBundled : factsClaim'[c] = "active" => FactsVersionOf[c] = factsSeed'
  BY ReplacedType DEF FactsImport, FactsInductive, FactsBundled
<1>5. \A c \in FactsClaims \ FactsBundled : factsClaim'[c] = factsClaim[c]
  BY ReplacedType DEF FactsImport, FactsInductive
<1>6. FactsAlone'
  BY <1>5 DEF FactsInductive, FactsAlone, FactsComparable
<1>7. FactsSlotsKept
  BY DEF FactsImport, FactsSlotsKept
<1> QED
  BY <1>3, <1>4, <1>6, <1>7, MemoryKept DEF FactsInductive, FactsOfSeed

LEMMA RetireStep ==
  ASSUME FactsInductive, FactsRetire PROVE FactsInductive'
<1>1. \A s \in FactsSlots : /\ [factsSlot[s] EXCEPT !.status = "superseded"] \in FactsSlot
                            /\ [factsSlot[s] EXCEPT !.status = "superseded"].revision = factsSlot[s].revision
  BY DEF FactsInductive, FactsTypeOK, FactsStates, FactsSlot
<1>2. factsSlot' \in FactsStates /\ \A s \in FactsSlots : factsSlot'[s].revision = factsSlot[s].revision
  BY <1>1 DEF FactsRetire, FactsStates
<1>3. FactsShared'
  BY <1>2 DEF FactsInductive, FactsShared
<1>4. FactsForgotten("invalidated")
  BY DEF FactsRetire
<1>5. factsNegative' \in [FactsSnapshots -> FactsSnapshot] /\ FactsOneMemory'
  BY <1>4, ForgottenType, NothingRemembered DEF FactsInductive
<1>6. FactsTypeOK'
  BY <1>2, <1>5, ReplacedType DEF FactsRetire, FactsInductive, FactsTypeOK
<1>7. FactsAlone' /\ FactsOfSeed'
  BY ReplacedType DEF FactsRetire, FactsInductive, FactsAlone, FactsOfSeed, FactsComparable
<1> QED
  BY <1>3, <1>5, <1>6, <1>7 DEF FactsInductive

LEMMA FactsStep == FactsInductive /\ [FactsNext]_factsVars => FactsInductive'
<1> SUFFICES ASSUME FactsInductive, [FactsNext]_factsVars PROVE FactsInductive'
  OBVIOUS
<1>1. CASE FactsTick \/ UNCHANGED factsVars
  <2>1. FactsSlotsKept /\ FactsClaimsKept
    BY <1>1 DEF FactsTick, factsVars, FactsSlotsKept, FactsClaimsKept
  <2>2. FactsTypeOK'
    BY <1>1, FactsConstants DEF FactsTick, factsVars, FactsInductive, FactsTypeOK, FactsTimes
  <2> QED
    BY <2>1, <2>2, MemoryKept, ClaimsKept DEF FactsInductive
<1>2. CASE FactsRead \/ FactsNews \/ FactsRetire
  BY <1>2, ReadStep, NewsStep, RetireStep
<1>3. ASSUME NEW e \in FactsEditors, FactsSave(e) PROVE FactsInductive'
  BY <1>3, SaveStep
<1>4. ASSUME NEW e \in FactsEditors, NEW s \in FactsSlots, NEW track \in FactsTracks, NEW target \in 0 .. 4, NEW t \in FactsTimes,
             FactsDerive(e, s, track, target, t)
      PROVE  FactsInductive'
  BY <1>4, DeriveStep
<1>5. ASSUME NEW t \in FactsTimes, FactsProbe(t) PROVE FactsInductive'
  BY <1>5, ProbeStep
<1>6. ASSUME NEW n \in FactsSnapshots, FactsNothingFound(n, FactsRevision, FactsLastTime) PROVE FactsInductive'
  <2>1. FactsLastTime \in FactsTimes
    BY FactsConstants DEF FactsTimes
  <2> QED
    BY <1>6, <2>1, NothingFoundStep
<1>7. ASSUME NEW c \in FactsClaims, FactsAdmit(c) \/ FactsDispute(c) PROVE FactsInductive'
  BY <1>7, AdmitStep, DisputeStep
<1>8. ASSUME NEW c \in FactsBundled, FactsImport(FactsVersionOf[c]) PROVE FactsInductive'
  BY <1>8, ImportStep
<1> QED
  BY <1>1, <1>2, <1>3, <1>4, <1>5, <1>6, <1>7, <1>8 DEF FactsNext

LEMMA FactsAlways == FactsSpec => []FactsInductive
  BY FactsStart, FactsStep, PTL DEF FactsSpec

-----------------------------------------------------------------------------
LEMMA InductiveIsSound == FactsInductive => FactsSound
<1> SUFFICES ASSUME FactsInductive PROVE FactsSound
  OBVIOUS
<1>1. FactsNegativeIsCurrent
  <2>1. \A s \in FactsSlots : factsSlot[s].revision = FactsRevision
    BY NewestRevision DEF FactsInductive
  <2> QED
    BY <2>1, FactsConstants DEF FactsInductive, FactsOneMemory, FactsNegativeIsCurrent
<1>2. Cardinality(FactsComparable \ FactsBundled) <= 1
  <2>1. CASE FactsComparable \ FactsBundled = {}
    BY <2>1, FS_EmptySet
  <2>2. CASE FactsComparable \ FactsBundled # {}
    <3>1. PICK c \in FactsComparable \ FactsBundled : TRUE
      BY <2>2
    <3>2. FactsComparable \ FactsBundled = {c}
      BY <3>1 DEF FactsInductive, FactsAlone
    <3> QED
      BY <3>2, FS_Singleton
  <2> QED
    BY <2>1, <2>2
<1> QED
  BY <1>1, <1>2 DEF FactsSound, FactsOneTruth, FactsInductive, FactsOfSeed

(* Every value keeps its type: slots, drafts, snapshots, claims and seeds. *)
THEOREM FactsTypes == FactsSpec => []FactsTypeOK
<1>1. FactsInductive => FactsTypeOK
  BY DEF FactsInductive
<1> QED
  BY <1>1, FactsAlways, PTL

(* Whatever probes, editors, sources and seeds do and in whatever order, a *)
(* remembered "nothing found" is of the current revision of every slot,    *)
(* one claim about each fact holds, and no bundled claim outlives its      *)
(* seed (release_state.py, repository.py, seeds.py).                       *)
THEOREM FactsStaySound == FactsSpec => []FactsSound
  BY FactsAlways, InductiveIsSound, PTL

-----------------------------------------------------------------------------
(***************************************************************************)
(* No update is lost.  A draft whose revision is still the current one was *)
(* derived from the slot as it is, since every write raises the revision   *)
(* and no draft knows a later one.                                         *)
(***************************************************************************)
FactsAhead(v, w) ==
  \A track \in FactsTracks :
    w.at[track] \in {v.at[track], v.at[track] + 1} /\ w.checked[track] >= v.checked[track]
FactsAllValid == \A s \in FactsSlots : FactsValid(s, factsSlot[s])
FactsFresh(d) ==
  /\ d.state.revision = d.expected + 1 /\ d.expected <= FactsRevision
  /\ d.expected = FactsRevision => FactsAhead(factsSlot[d.slot], d.state) /\ FactsValid(d.slot, d.state)
FactsDraftsFresh == \A e \in FactsEditors : factsDraft[e] # FactsNoDraft => FactsFresh(factsDraft[e])
FactsOrdered == FactsAllValid /\ FactsDraftsFresh

LEMMA AheadOfItself ==
  ASSUME NEW v \in FactsSlot PROVE FactsAhead(v, v)
<1>1. \A track \in FactsTracks : v.checked[track] \in Int
  BY DEF FactsSlot, FactsTimes, FactsMissing
<1> QED
  BY <1>1 DEF FactsAhead

LEMMA AppliedAhead ==
  ASSUME NEW s \in FactsSlots, NEW v \in FactsSlot, NEW track \in FactsTracks, NEW target \in 0 .. 4, NEW t \in FactsTimes
  PROVE  /\ FactsAhead(v, FactsApplied(s, v, track, target, t))
         /\ FactsApplied(s, v, track, target, t) # v => FactsApplied(s, v, track, target, t).revision = v.revision + 1
<1> DEFINE w == FactsApplied(s, v, track, target, t)
<1>1. CASE w = v
  BY <1>1, AheadOfItself
<1>2. CASE w # v
  <2>1. /\ ~FactsRefused(s, v, track, target, t)
        /\ w = [v EXCEPT !.at[track] = target, !.checked[track] = t, !.revision = @ + 1,
                         !.announced = IF track = "official" /\ @ = FactsMissing THEN t ELSE @]
    BY <1>2 DEF FactsApplied
  <2>2. target \in {v.at[track], v.at[track] + 1} /\ (v.checked[track] = FactsMissing \/ t >= v.checked[track])
    BY <2>1 DEF FactsRefused, FactsSlot, FactsTimes, FactsMissing
  <2>3. /\ \A k \in FactsTracks : w.at[k] = IF k = track THEN target ELSE v.at[k]
        /\ \A k \in FactsTracks : w.checked[k] = IF k = track THEN t ELSE v.checked[k]
        /\ w.revision = v.revision + 1
    BY <2>1 DEF FactsSlot
  <2>4. \A k \in FactsTracks : v.checked[k] \in Int /\ t \in Nat /\ FactsMissing = -1
    BY DEF FactsSlot, FactsTimes, FactsMissing
  <2> HIDE DEF w
  <2>5. FactsAhead(v, w)
    BY <2>2, <2>3, <2>4 DEF FactsAhead
  <2> QED
    BY <2>3, <2>5 DEF w
<1> QED
  BY <1>1, <1>2

LEMMA WrittenAhead ==
  ASSUME FactsTypeOK, NEW slots \in FactsStates, NEW r \in Nat, FactsWrite(slots, r),
         \A s \in FactsSlots : FactsAhead(factsSlot[s], slots[s]) /\ FactsValid(s, slots[s])
  PROVE  FactsTracksForward /\ FactsAllValid'
<1>1. \A s \in FactsSlots : slots[s] \in FactsSlot /\ factsSlot'[s] = [slots[s] EXCEPT !.revision = r]
  BY DEF FactsWrite, FactsStates
<1>2. \A s \in FactsSlots : /\ factsSlot'[s].at = slots[s].at /\ factsSlot'[s].checked = slots[s].checked
                            /\ factsSlot'[s].announced = slots[s].announced
  BY <1>1 DEF FactsSlot
<1>3. \A s \in FactsSlots : FactsValid(s, factsSlot'[s])
  BY <1>2 DEF FactsValid
<1>4. \A s \in FactsSlots : FactsAhead(factsSlot[s], factsSlot'[s])
  BY <1>2 DEF FactsAhead
<1> QED
  BY <1>3, <1>4 DEF FactsTracksForward, FactsAllValid, FactsAhead

LEMMA RevisionOf ==
  ASSUME FactsTypeOK', NEW r \in Nat, \A s \in FactsSlots : factsSlot'[s].revision = r
  PROVE  FactsRevision' = r
<1>1. Max({factsSlot'[s].revision : s \in FactsSlots}) = r
  BY SharedRevision
<1> QED
  BY <1>1 DEF FactsRevision

(* After a write every draft is of an older revision. *)
LEMMA DraftsAge ==
  ASSUME FactsInductive, FactsOrdered, FactsTypeOK', NEW slots \in FactsStates, FactsWrite(slots, FactsRevision + 1),
         \A e \in FactsEditors : factsDraft'[e] = factsDraft[e] \/ factsDraft'[e] = FactsNoDraft
  PROVE  FactsDraftsFresh'
<1>1. FactsRevision \in Nat
  BY NewestRevision DEF FactsInductive
<1>2. FactsRevision' = FactsRevision + 1
  BY <1>1, WrittenType, RevisionOf DEF FactsInductive
<1>3. \A e \in FactsEditors : factsDraft[e].expected \in Int
  BY DEF FactsInductive, FactsTypeOK, FactsTransition, FactsMissing
<1>4. ASSUME NEW e \in FactsEditors, factsDraft'[e] # FactsNoDraft PROVE FactsFresh(factsDraft[e])'
  <2>1. factsDraft'[e] = factsDraft[e] /\ FactsFresh(factsDraft[e])
    BY <1>4 DEF FactsOrdered, FactsDraftsFresh
  <2> QED
    BY <1>1, <1>2, <1>3, <2>1 DEF FactsFresh
<1> QED
  BY <1>4 DEF FactsDraftsFresh

LEMMA OrderedKept ==
  ASSUME FactsInductive, FactsOrdered, factsSlot' = factsSlot,
         \A e \in FactsEditors : factsDraft'[e] = factsDraft[e] \/ factsDraft'[e] = FactsNoDraft
  PROVE  FactsTracksForward /\ FactsOrdered'
<1>1. FactsRevision' = FactsRevision
  BY DEF FactsRevision
<1>2. FactsAllValid' /\ FactsDraftsFresh'
  BY <1>1 DEF FactsOrdered, FactsAllValid, FactsDraftsFresh, FactsFresh
<1>3. \A s \in FactsSlots : FactsAhead(factsSlot[s], factsSlot'[s])
  BY AheadOfItself DEF FactsInductive, FactsTypeOK, FactsStates
<1> QED
  BY <1>2, <1>3 DEF FactsOrdered, FactsTracksForward, FactsAhead, FactsAllValid

LEMMA OrderedDerive ==
  ASSUME FactsInductive, FactsOrdered, NEW e \in FactsEditors, NEW s \in FactsSlots, NEW track \in FactsTracks,
         NEW target \in 0 .. 4, NEW t \in FactsTimes, FactsDerive(e, s, track, target, t)
  PROVE  FactsTracksForward /\ FactsOrdered'
<1> DEFINE v == FactsApplied(s, factsSlot[s], track, target, t)
           d == [slot |-> s, state |-> v, expected |-> FactsRevision]
<1>1. factsSlot[s] \in FactsSlot
  BY DEF FactsInductive, FactsTypeOK, FactsStates
<1>2. FactsRevision \in Nat /\ factsSlot[s].revision = FactsRevision
  BY NewestRevision DEF FactsInductive
<1>3. FactsAhead(factsSlot[s], v) /\ v.revision = FactsRevision + 1 /\ FactsValid(s, v)
  BY <1>1, <1>2, AppliedAhead DEF FactsDerive
<1> HIDE DEF v
<1>4. factsSlot' = factsSlot /\ FactsRevision' = FactsRevision
  BY DEF FactsDerive, FactsRevision
<1>5. FactsFresh(d)
  BY <1>2, <1>3 DEF FactsFresh
<1>6. \A x \in FactsEditors : factsDraft'[x] = IF x = e THEN d ELSE factsDraft[x]
  BY DEF FactsDerive, FactsInductive, FactsTypeOK, v
<1> HIDE DEF d
<1>7. FactsDraftsFresh'
  BY <1>4, <1>5, <1>6 DEF FactsOrdered, FactsDraftsFresh, FactsFresh
<1>8. FactsAllValid' /\ \A q \in FactsSlots : FactsAhead(factsSlot[q], factsSlot'[q])
  BY <1>4, AheadOfItself DEF FactsOrdered, FactsAllValid, FactsInductive, FactsTypeOK, FactsStates
<1> QED
  BY <1>7, <1>8 DEF FactsOrdered, FactsTracksForward, FactsAhead, FactsAllValid

LEMMA OrderedSave ==
  ASSUME FactsInductive, FactsOrdered, FactsTypeOK', NEW e \in FactsEditors, FactsSave(e)
  PROVE  FactsTracksForward /\ FactsOrdered'
<1> DEFINE d == factsDraft[e]
           slots == [factsSlot EXCEPT ![d.slot] = d.state]
<1>1. d \in FactsTransition /\ FactsFresh(d)
  BY DEF FactsSave, FactsInductive, FactsTypeOK, FactsOrdered, FactsDraftsFresh
<1>2. \A x \in FactsEditors : factsDraft'[x] = factsDraft[x] \/ factsDraft'[x] = FactsNoDraft
  BY DEF FactsSave, FactsInductive, FactsTypeOK
<1>3. CASE FactsCurrent(d)
  <2>1. FactsWrite(slots, FactsRevision + 1)
    BY <1>1, <1>3 DEF FactsSave, FactsCurrent, FactsFresh
  <2>2. slots \in FactsStates
    BY <1>1 DEF FactsInductive, FactsTypeOK, FactsStates, FactsTransition
  <2>3. \A s \in FactsSlots : FactsAhead(factsSlot[s], slots[s]) /\ FactsValid(s, slots[s])
    <3> SUFFICES ASSUME NEW s \in FactsSlots PROVE FactsAhead(factsSlot[s], slots[s]) /\ FactsValid(s, slots[s])
      OBVIOUS
    <3>1. CASE s = d.slot
      BY <1>1, <1>3, <3>1 DEF FactsFresh, FactsCurrent, FactsInductive, FactsTypeOK, FactsStates
    <3>2. CASE s # d.slot
      BY <3>2, AheadOfItself DEF FactsOrdered, FactsAllValid, FactsInductive, FactsTypeOK, FactsStates
    <3> QED
      BY <3>1, <3>2
  <2>4. FactsRevision + 1 \in Nat
    BY NewestRevision DEF FactsInductive
  <2>5. FactsTracksForward /\ FactsAllValid'
    BY <2>1, <2>2, <2>3, <2>4, WrittenAhead DEF FactsInductive
  <2>6. FactsDraftsFresh'
    BY <1>2, <2>1, <2>2, DraftsAge
  <2> QED
    BY <2>5, <2>6 DEF FactsOrdered
<1>4. CASE ~FactsCurrent(d)
  BY <1>2, <1>4, OrderedKept DEF FactsSave
<1> QED
  BY <1>3, <1>4

LEMMA OrderedProbe ==
  ASSUME FactsInductive, FactsOrdered, FactsTypeOK', NEW t \in FactsTimes, FactsProbe(t)
  PROVE  FactsTracksForward /\ FactsOrdered'
<1> DEFINE next == [s \in FactsSlots |-> IF factsSlot[s].at["official"] = 0 THEN factsSlot[s]
                      ELSE FactsApplied(s, factsSlot[s], "official", factsSlot[s].at["official"], t)]
<1>1. \A s \in FactsSlots : factsSlot[s] \in FactsSlot /\ factsSlot[s].at["official"] \in 0 .. 4
  BY DEF FactsInductive, FactsTypeOK, FactsStates, FactsSlot, FactsTracks
<1>2. "official" \in FactsTracks
  BY DEF FactsTracks
<1>3. next \in FactsStates
  BY <1>1, <1>2, AppliedType DEF FactsStates
<1>4. \A s \in FactsSlots : FactsAhead(factsSlot[s], next[s])
  BY <1>1, <1>2, AppliedAhead, AheadOfItself
<1>5. FactsWrite(next, FactsRevision + 1) /\ \A s \in FactsSlots : FactsValid(s, next[s])
  BY DEF FactsProbe
<1>6. FactsRevision + 1 \in Nat
  BY NewestRevision DEF FactsInductive
<1> HIDE DEF next
<1>7. FactsTracksForward /\ FactsAllValid'
  BY <1>3, <1>4, <1>5, <1>6, WrittenAhead DEF FactsInductive
<1>8. FactsDraftsFresh'
  BY <1>3, <1>5, DraftsAge DEF FactsProbe
<1> QED
  BY <1>7, <1>8 DEF FactsOrdered

LEMMA OrderedRetire ==
  ASSUME FactsInductive, FactsOrdered, FactsTypeOK', FactsRetire
  PROVE  FactsTracksForward /\ FactsOrdered'
<1>1. \A s \in FactsSlots : /\ factsSlot[s] \in FactsSlot
                            /\ factsSlot'[s] = [factsSlot[s] EXCEPT !.status = "superseded"]
  BY DEF FactsRetire, FactsInductive, FactsTypeOK, FactsStates
<1>2. \A s \in FactsSlots : /\ factsSlot'[s].at = factsSlot[s].at /\ factsSlot'[s].checked = factsSlot[s].checked
                            /\ factsSlot'[s].announced = factsSlot[s].announced
                            /\ factsSlot'[s].revision = factsSlot[s].revision
  BY <1>1 DEF FactsSlot
<1>3. FactsRevision \in Nat /\ FactsRevision' = FactsRevision
  BY <1>2, NewestRevision, RevisionOf DEF FactsInductive
<1>4. \A s \in FactsSlots : FactsAhead(factsSlot[s], factsSlot'[s])
  BY <1>1, <1>2, AheadOfItself DEF FactsAhead
<1>5. FactsAllValid'
  BY <1>2 DEF FactsOrdered, FactsAllValid, FactsValid
<1>6. \A e \in FactsEditors : factsDraft[e].slot \in FactsSlots /\ factsDraft'[e] = factsDraft[e]
  BY DEF FactsRetire, FactsInductive, FactsTypeOK, FactsTransition
<1>7. ASSUME NEW e \in FactsEditors, factsDraft[e] # FactsNoDraft PROVE FactsFresh(factsDraft[e])'
  <2>1. FactsFresh(factsDraft[e])
    BY <1>7 DEF FactsOrdered, FactsDraftsFresh
  <2> QED
    BY <1>2, <1>3, <1>6, <2>1 DEF FactsFresh, FactsAhead
<1>8. FactsDraftsFresh'
  BY <1>6, <1>7 DEF FactsDraftsFresh
<1> QED
  BY <1>4, <1>5, <1>8 DEF FactsOrdered, FactsTracksForward, FactsAhead, FactsAllValid

LEMMA OrderedStart == FactsInit => FactsOrdered
  BY FactsFirstValid DEF FactsInit, FactsOrdered, FactsAllValid, FactsDraftsFresh

LEMMA OrderedStep ==
  ASSUME FactsInductive, FactsOrdered, FactsTypeOK', [FactsNext]_factsVars
  PROVE  FactsTracksForward /\ FactsOrdered'
<1>1. ASSUME factsSlot' = factsSlot, factsDraft' = factsDraft PROVE FactsTracksForward /\ FactsOrdered'
  BY <1>1, OrderedKept
<1>2. CASE FactsTick \/ FactsRead \/ FactsNews \/ UNCHANGED factsVars
  BY <1>1, <1>2 DEF FactsTick, FactsRead, FactsNews, factsVars
<1>3. CASE FactsRetire
  BY <1>3, OrderedRetire
<1>4. ASSUME NEW e \in FactsEditors, FactsSave(e) PROVE FactsTracksForward /\ FactsOrdered'
  BY <1>4, OrderedSave
<1>5. ASSUME NEW e \in FactsEditors, NEW s \in FactsSlots, NEW track \in FactsTracks, NEW target \in 0 .. 4, NEW t \in FactsTimes,
             FactsDerive(e, s, track, target, t)
      PROVE  FactsTracksForward /\ FactsOrdered'
  BY <1>5, OrderedDerive
<1>6. ASSUME NEW t \in FactsTimes, FactsProbe(t) PROVE FactsTracksForward /\ FactsOrdered'
  BY <1>6, OrderedProbe
<1>7. ASSUME NEW n \in FactsSnapshots, FactsNothingFound(n, FactsRevision, FactsLastTime) PROVE FactsTracksForward /\ FactsOrdered'
  BY <1>1, <1>7 DEF FactsNothingFound
<1>8. ASSUME NEW c \in FactsClaims, FactsAdmit(c) \/ FactsDispute(c) PROVE FactsTracksForward /\ FactsOrdered'
  BY <1>1, <1>8 DEF FactsAdmit, FactsDispute
<1>9. ASSUME NEW c \in FactsBundled, FactsImport(FactsVersionOf[c]) PROVE FactsTracksForward /\ FactsOrdered'
  BY <1>1, <1>9 DEF FactsImport
<1> QED
  BY <1>2, <1>3, <1>4, <1>5, <1>6, <1>7, <1>8, <1>9 DEF FactsNext

(* Editors that load, derive and save while probes write never lose an     *)
(* update: every step moves a track of a slot by one position at most,     *)
(* forward, its checks never get older, and what is stored is valid        *)
(* (release_state.py, save_release_state).                                 *)
THEOREM FactsMoveForward == FactsSpec => [][FactsTracksForward]_factsVars
<1>1. FactsInductive => FactsTypeOK
  BY DEF FactsInductive
<1>2. FactsInductive /\ FactsOrdered /\ FactsTypeOK' /\ [FactsNext]_factsVars => FactsOrdered'
  BY OrderedStep
<1>3. FactsInductive /\ FactsOrdered /\ FactsTypeOK' /\ [FactsNext]_factsVars => [FactsTracksForward]_factsVars
  BY OrderedStep
<1> QED
  BY <1>1, <1>2, <1>3, FactsAlways, OrderedStart, PTL DEF FactsSpec

----------------------------------------------------------------------------
(***************************************************************************)
(* Theorems about an expression of a group for every set of entities and   *)
(* messages, any capacity of the queue and any bound on time.              *)
(***************************************************************************)

\* Taking one element out of a sequence without repetition.
LEMMA TakenOut ==
  ASSUME NEW S, NEW q \in Seq(S), NEW i \in DOMAIN q
  PROVE  /\ RemoveAt(q, i) \in Seq(S) /\ Len(RemoveAt(q, i)) = Len(q) - 1
         /\ \A j \in 1 .. Len(q) - 1 : RemoveAt(q, i)[j] = IF j < i THEN q[j] ELSE q[j + 1]
<1> DEFINE left == SubSeq(q, 1, i - 1)
           right == SubSeq(q, i + 1, Len(q))
<1>1. i \in 1 .. Len(q) /\ Len(q) \in Nat
  OBVIOUS
<1>2. left \in Seq(S) /\ Len(left) = i - 1 /\ \A j \in 1 .. i - 1 : left[j] = q[j]
  BY <1>1
<1>3. right \in Seq(S) /\ Len(right) = Len(q) - i /\ \A j \in 1 .. Len(q) - i : right[j] = q[j + i]
  BY <1>1
<1> HIDE DEF left, right
<1>4. RemoveAt(q, i) = left \o right
  BY DEF RemoveAt, left, right
<1>5. /\ left \o right \in Seq(S) /\ Len(left \o right) = Len(left) + Len(right)
      /\ \A j \in 1 .. Len(left) + Len(right) : (left \o right)[j] = IF j <= Len(left) THEN left[j] ELSE right[j - Len(left)]
  BY <1>2, <1>3, ConcatProperties
<1>6. Len(left) + Len(right) = Len(q) - 1
  BY <1>1, <1>2, <1>3
<1>7. ASSUME NEW j \in 1 .. Len(q) - 1 PROVE (left \o right)[j] = IF j < i THEN q[j] ELSE q[j + 1]
  <2>0. (left \o right)[j] = IF j <= Len(left) THEN left[j] ELSE right[j - Len(left)]
    BY <1>5, <1>6
  <2>1. CASE j < i
    <3>1. j \in 1 .. i - 1 /\ j <= Len(left)
      BY <2>1, <1>1, <1>2
    <3> QED
      BY <2>0, <2>1, <3>1, <1>2
  <2>2. CASE ~(j < i)
    <3>1. j - Len(left) \in 1 .. Len(q) - i /\ (j - Len(left)) + i = j + 1 /\ ~(j <= Len(left))
      BY <2>2, <1>1, <1>2
    <3> QED
      BY <2>0, <2>2, <3>1, <1>3
  <2> QED
    BY <2>1, <2>2
<1>8. Len(left \o right) = Len(q) - 1
  BY <1>5, <1>6
<1> QED
  BY <1>4, <1>5, <1>7, <1>8

\* The sequence made of a finite set.
LEMMA InSomeOrder ==
  ASSUME NEW S, IsFiniteSet(S)
  PROVE  /\ SetToSeq(S) \in Seq(S) /\ Len(SetToSeq(S)) = Cardinality(S)
         /\ \A i, j \in DOMAIN SetToSeq(S) : SetToSeq(S)[i] = SetToSeq(S)[j] => i = j
<1>1. Cardinality(S) \in Nat /\ \E f \in [1 .. Cardinality(S) -> S] : IsInjective(f)
  BY FS_CardinalityType DEF ExistsBijection, Bijection, Injection
<1>2. SetToSeq(S) \in [1 .. Cardinality(S) -> S] /\ IsInjective(SetToSeq(S))
  BY <1>1 DEF SetToSeq
<1> QED
  BY <1>1, <1>2 DEF IsInjective

\* A sequence that repeats nothing is as long as the set of its elements.
LEMMA AsManyAsLong ==
  ASSUME NEW S, NEW q \in Seq(S), \A i, j \in DOMAIN q : q[i] = q[j] => i = j
  PROVE  Cardinality(ToSet(q)) = Len(q)
<1>1. DOMAIN q = 1 .. Len(q) /\ Len(q) \in Nat
  OBVIOUS
<1>2. q \in [1 .. Len(q) -> ToSet(q)]
  BY <1>1 DEF ToSet
<1>3. q \in Bijection(1 .. Len(q), ToSet(q))
  BY <1>1, <1>2 DEF Bijection, Injection, Surjection, IsInjective, ToSet
<1>4. IsFiniteSet(1 .. Len(q)) /\ Cardinality(1 .. Len(q)) = Len(q)
  BY <1>1, FS_Interval
<1> QED
  BY <1>3, <1>4, FS_Bijection DEF ExistsBijection

-----------------------------------------------------------------------------
(***************************************************************************)
(* The inductive invariant: a definition or a usage names an entity, and   *)
(* the queue holds pending observations, each once.                        *)
(***************************************************************************)
ConvNamesEntity ==
  \A m \in ConvMessages :
    convObs[m].status # "absent" /\ convObs[m].kind \in {"definition", "usage"} => convObs[m].entity \in ConvEntities
ConvEachOnce ==
  /\ Len(convQueue) <= ConvCapacity
  /\ \A i, j \in DOMAIN convQueue : convQueue[i] = convQueue[j] => i = j
  /\ \A i \in DOMAIN convQueue : convObs[convQueue[i]].status = "pending"
ConvKept == ConvTypeOK /\ ConvNamesEntity /\ ConvEachOnce

LEMMA KeptInit == ConvInit => ConvKept
<1> SUFFICES ASSUME ConvInit PROVE ConvKept
  OBVIOUS
<1> USE ConvConstants DEF ConvInit
<1>1. convObs \in ConvStored
  BY DEF ConvStored, ConvObservation, ConvKinds
<1>2. conv \in ConvConventions
  BY DEF ConvConventions, ConvConvention, ConvStates
<1>3. convAlias \in ConvAliases
  BY DEF ConvAliases, ConvStates
<1>4. ConvNamesEntity /\ ConvEachOnce
  BY DEF ConvNamesEntity, ConvEachOnce
<1>5. convNow \in 0 .. ConvLastTick /\ convQueue \in Seq(ConvMessages)
  OBVIOUS
<1>6. convUp \in BOOLEAN /\ convLearning \in BOOLEAN
  BY Zenon
<1>7. convTrimmed \subseteq ConvMessages /\ convMentions \subseteq ConvMessages /\ convCommanded \subseteq ConvEntities
  OBVIOUS
<1> QED
  BY <1>1, <1>2, <1>3, <1>4, <1>5, <1>6, <1>7, Zenon DEF ConvKept, ConvTypeOK

LEMMA LaterOfTwo ==
  ASSUME NEW n \in Nat, NEW a \in 0 .. n, NEW b \in 0 .. n PROVE Max({a, b}) \in 0 .. n
<1>1. CASE a >= b
  <2>1. Max({a, b}) = a
    BY <1>1 DEF Max
  <2> QED
    BY <2>1
<1>2. CASE b > a
  <2>1. Max({a, b}) = b
    BY <1>2 DEF Max
  <2> QED
    BY <2>1
<1> QED
  BY <1>1, <1>2

LEMMA KeptByEvidence ==
  ASSUME ConvKept, NEW m \in ConvMessages, NEW e \in ConvEntities, ConvEvidence(m, e)
  PROVE  conv' \in ConvConventions /\ convAlias' \in ConvAliases /\ convCommanded' \subseteq ConvEntities
<1> DEFINE ms == conv[e].evidence \cup {m}
           status == IF ConvSettled(ms, m \in ConvAdmins /\ convObs[m].kind = "definition") THEN "active" ELSE "candidate"
           mine == [status |-> status, evidence |-> ms, seen |-> Max({conv[e].seen, convObs[m].at})]
<1>1. ms \subseteq ConvMessages /\ status \in ConvStates
  BY DEF ConvKept, ConvTypeOK, ConvConventions, ConvConvention, ConvStates
<1>0. Max({conv[e].seen, convObs[m].at}) \in 0 .. ConvLastTick
  <2>1. conv[e].seen \in 0 .. ConvLastTick /\ convObs[m].at \in 0 .. ConvLastTick
    BY DEF ConvKept, ConvTypeOK, ConvConventions, ConvConvention, ConvStored, ConvObservation
  <2> QED
    BY <2>1, LaterOfTwo, ConvConstants
<1> HIDE DEF status, ms
<1>2. mine \in ConvConvention /\ [mine EXCEPT !.status = "disputed"] \in ConvConvention
  BY <1>0, <1>1 DEF ConvKept, ConvTypeOK, ConvConvention, ConvStates
<1>3. \A f \in ConvEntities : [conv[f] EXCEPT !.status = "disputed"] \in ConvConvention
  BY DEF ConvKept, ConvTypeOK, ConvConventions, ConvConvention, ConvStates
<1> HIDE DEF mine
<1>4. conv' \in ConvConventions
  BY <1>2, <1>3 DEF ConvEvidence, ms, status, mine, ConvKept, ConvTypeOK, ConvConventions
<1>5. convAlias' \in ConvAliases
  BY <1>1 DEF ConvEvidence, ms, status, ConvKept, ConvTypeOK, ConvAliases, ConvStates
<1>6. convCommanded' \subseteq ConvEntities
  BY DEF ConvEvidence, ConvKept, ConvTypeOK
<1> QED
  BY <1>4, <1>5, <1>6

LEMMA KeptByObserve ==
  ASSUME ConvKept, NEW m \in ConvMessages, ConvObserve(m) PROVE ConvKept'
<1> USE DEF ConvKept
<1>1. PICK kind \in ConvKindsOf[m], e \in ConvEntities \cup {ConvNobody} :
        /\ ConvAttributed(kind, e)
        /\ LET row == [status |-> "pending", kind |-> kind, entity |-> e, at |-> convNow] IN
           IF Len(convQueue) < ConvCapacity
           THEN convQueue' = Append(convQueue, m) /\ convObs' = [convObs EXCEPT ![m] = row]
           ELSE \E i \in DOMAIN convQueue :
             /\ \A n \in ConvQueued : ConvPriority(convQueue[i]) <= ConvPriority(n)
             /\ IF ConvPriority(convQueue[i]) < ConvPriority(m)
                THEN /\ convQueue' = Append(RemoveAt(convQueue, i), m)
                     /\ convObs' = [convObs EXCEPT ![m] = row, ![convQueue[i]].status = "rejected"]
                ELSE /\ convObs' = [convObs EXCEPT ![m] = [row EXCEPT !.status = "rejected"]]
                     /\ UNCHANGED convQueue
  BY DEF ConvObserve
<1> DEFINE row == [status |-> "pending", kind |-> kind, entity |-> e, at |-> convNow]
           gone == [status |-> "rejected", kind |-> kind, entity |-> e, at |-> convNow]
<1>2. row \in ConvObservation /\ gone \in ConvObservation
  BY ConvConstants DEF ConvObservation, ConvKinds, ConvTypeOK
<1>3. kind \in {"definition", "usage"} => e \in ConvEntities
  BY <1>1 DEF ConvAttributed
<1>4. convObs[m].status = "absent" /\ convObs \in ConvStored /\ convQueue \in Seq(ConvMessages)
  BY DEF ConvObserve, ConvTypeOK
<1>5. \A i \in DOMAIN convQueue : convQueue[i] \in ConvMessages /\ convQueue[i] # m
  BY <1>4 DEF ConvEachOnce
<1>6. SUFFICES /\ convObs' \in ConvStored /\ convQueue' \in Seq(ConvMessages)
               /\ ConvNamesEntity' /\ ConvEachOnce'
  BY DEF ConvObserve, ConvRest, ConvTypeOK
<1>7. CASE Len(convQueue) < ConvCapacity
  <2>1. convQueue' = Append(convQueue, m) /\ convObs' = [convObs EXCEPT ![m] = row]
    BY <1>1, <1>7
  <2>2. convObs' \in ConvStored /\ ConvNamesEntity'
    BY <2>1, <1>2, <1>3, <1>4 DEF ConvStored, ConvNamesEntity
  <2>3. convQueue' \in Seq(ConvMessages) /\ ConvEachOnce'
    BY <2>1, <1>4, <1>5, <1>7, ConvConstants DEF ConvStored, ConvEachOnce
  <2> QED
    BY <2>2, <2>3
<1>8. CASE ~(Len(convQueue) < ConvCapacity)
  <2>1. PICK i \in DOMAIN convQueue :
          IF ConvPriority(convQueue[i]) < ConvPriority(m)
          THEN /\ convQueue' = Append(RemoveAt(convQueue, i), m)
               /\ convObs' = [convObs EXCEPT ![m] = row, ![convQueue[i]].status = "rejected"]
          ELSE convObs' = [convObs EXCEPT ![m] = [row EXCEPT !.status = "rejected"]] /\ UNCHANGED convQueue
    BY <1>1, <1>8
  <2>2. CASE ConvPriority(convQueue[i]) < ConvPriority(m)
    <3> DEFINE rest == RemoveAt(convQueue, i)
    <3>1. /\ convQueue' = Append(rest, m)
          /\ convObs' = [[convObs EXCEPT ![m] = row] EXCEPT ![convQueue[i]] = [convObs[convQueue[i]] EXCEPT !.status = "rejected"]]
      BY <2>1, <2>2, <1>4, <1>5 DEF ConvStored
    <3>2. [convObs[convQueue[i]] EXCEPT !.status = "rejected"] \in ConvObservation
      <4>1. convObs[convQueue[i]] \in ConvObservation
        BY <1>4, <1>5 DEF ConvStored
      <4> QED
        BY <4>1 DEF ConvObservation
    <3>3. convObs' \in ConvStored
      BY <3>1, <3>2, <1>2, <1>4 DEF ConvStored
    <3>4. ConvNamesEntity'
      <4>1. convObs[convQueue[i]].status # "absent"
        BY DEF ConvEachOnce
      <4>2. convObs'[m] = row
        BY <3>1, <1>4, <1>5 DEF ConvStored
      <4>3. ASSUME NEW n \in ConvMessages \ {m}
            PROVE convObs'[n].kind = convObs[n].kind /\ convObs'[n].entity = convObs[n].entity /\ (convObs'[n].status # "absent" => convObs[n].status # "absent")
        BY <4>1, <3>1, <1>4, <1>5 DEF ConvStored, ConvObservation
      <4> QED
        BY <4>2, <4>3, <1>3 DEF ConvNamesEntity
    <3>5. /\ rest \in Seq(ConvMessages) /\ Len(rest) = Len(convQueue) - 1
          /\ \A j \in 1 .. Len(convQueue) - 1 : rest[j] = IF j < i THEN convQueue[j] ELSE convQueue[j + 1]
      BY <1>4, TakenOut
    <3> HIDE DEF rest
    <3>6. \A j \in DOMAIN rest : rest[j] # m /\ rest[j] # convQueue[i] /\ convObs[rest[j]].status = "pending"
      BY <3>5, <1>4, <1>5 DEF ConvEachOnce
    <3>7. ASSUME NEW j \in DOMAIN rest, NEW k \in DOMAIN rest, rest[j] = rest[k] PROVE j = k
      <4> DEFINE at(n) == IF n < i THEN n ELSE n + 1
      <4>1. i \in Nat /\ j \in Nat /\ k \in Nat /\ DOMAIN rest = 1 .. Len(convQueue) - 1 /\ Len(convQueue) \in Nat
        BY <3>5, <1>4
      <4>2. at(j) \in DOMAIN convQueue /\ at(k) \in DOMAIN convQueue
        BY <4>1, <1>4
      <4>3. rest[j] = convQueue[at(j)] /\ rest[k] = convQueue[at(k)]
        BY <4>1, <3>5
      <4>4. at(j) = at(k)
        BY <4>2, <4>3, <3>7 DEF ConvEachOnce
      <4> QED
        BY <4>1, <4>4
    <3>8. Len(rest) < ConvCapacity
      BY <3>5, <1>4, ConvConstants DEF ConvEachOnce
    <3>9. \A j \in DOMAIN rest : convObs'[rest[j]].status = "pending"
      BY <3>1, <3>5, <3>6, <1>4 DEF ConvStored
    <3>10. convObs'[m].status = "pending"
      BY <3>1, <1>4, <1>5 DEF ConvStored
    <3>11. convQueue' \in Seq(ConvMessages) /\ Len(convQueue') <= ConvCapacity
      BY <3>1, <3>5, <3>8, ConvConstants
    <3>12. \A j \in DOMAIN convQueue' : (j \in DOMAIN rest /\ convQueue'[j] = rest[j]) \/ (j = Len(rest) + 1 /\ convQueue'[j] = m)
      <4>1. Len(convQueue') = Len(rest) + 1 /\ (\A j \in 1 .. Len(rest) : convQueue'[j] = rest[j]) /\ convQueue'[Len(rest) + 1] = m
        BY <3>1, <3>5, AppendProperties
      <4>2. DOMAIN convQueue' = 1 .. Len(rest) + 1 /\ DOMAIN rest = 1 .. Len(rest) /\ Len(rest) \in Nat
        BY <4>1, <3>5, <3>11
      <4> QED
        BY <4>1, <4>2
    <3>13. ConvEachOnce'
      BY <3>6, <3>7, <3>9, <3>10, <3>11, <3>12 DEF ConvEachOnce
    <3> QED
      BY <3>3, <3>4, <3>11, <3>13
  <2>3. CASE ~(ConvPriority(convQueue[i]) < ConvPriority(m))
    <3>1. convObs' = [convObs EXCEPT ![m] = gone] /\ convQueue' = convQueue
      BY <2>1, <2>3
    <3>2. convObs' \in ConvStored /\ ConvNamesEntity'
      BY <3>1, <1>2, <1>3, <1>4 DEF ConvStored, ConvNamesEntity
    <3>3. ConvEachOnce'
      BY <3>1, <1>4, <1>5 DEF ConvStored, ConvEachOnce
    <3> QED
      BY <3>1, <3>2, <3>3, <1>4
  <2> QED
    BY <2>2, <2>3
<1> QED
  BY <1>7, <1>8

LEMMA KeptByStart == ASSUME ConvKept, ConvStart PROVE ConvKept'
<1> DEFINE pending == {m \in ConvMessages : convObs[m].status = "pending"}
<1>1. PICK kept \in SUBSET pending :
        /\ Cardinality(kept) <= ConvCapacity
        /\ convQueue' = SetToSeq(kept) /\ convObs' = ConvSet(pending \ kept, "rejected")
  BY DEF ConvStart
<1>2. /\ convQueue' \in Seq(kept) /\ Len(convQueue') = Cardinality(kept)
      /\ \A i, j \in DOMAIN convQueue' : convQueue'[i] = convQueue'[j] => i = j
  BY <1>1, InSomeOrder, FS_Subset, ConvConstants
<1>3. convQueue' \in Seq(ConvMessages) /\ \A i \in DOMAIN convQueue' : convQueue'[i] \in kept
  BY <1>2
<1>4. convObs \in ConvStored
  BY DEF ConvKept, ConvTypeOK
<1>5. \A m \in ConvMessages : [convObs[m] EXCEPT !.status = "rejected"] \in ConvObservation
  BY <1>4 DEF ConvStored, ConvObservation
<1>6. convObs' \in ConvStored
  BY <1>1, <1>4, <1>5 DEF ConvSet, ConvStored
<1>7. ASSUME NEW m \in ConvMessages PROVE convObs'[m] = IF m \in pending \ kept THEN [convObs[m] EXCEPT !.status = "rejected"] ELSE convObs[m]
  BY <1>1 DEF ConvSet
<1>8. ConvNamesEntity'
  BY <1>4, <1>7 DEF ConvNamesEntity, ConvKept, ConvStored, ConvObservation
<1>9. \A i \in DOMAIN convQueue' : convObs'[convQueue'[i]].status = "pending"
  BY <1>3, <1>7
<1>10. ConvEachOnce'
  BY <1>1, <1>2, <1>9 DEF ConvEachOnce
<1> QED
  BY <1>3, <1>6, <1>8, <1>10 DEF ConvKept, ConvTypeOK, ConvStart, ConvRest

LEMMA KeptByProcess == ASSUME ConvKept, ConvProcess PROVE ConvKept'
<1> DEFINE m == Head(convQueue)
<1>1. convQueue \in Seq(ConvMessages) /\ convQueue # <<>> /\ convObs \in ConvStored
  BY DEF ConvKept, ConvTypeOK, ConvProcess
<1>2. m \in ConvMessages /\ m = convQueue[1] /\ 1 \in DOMAIN convQueue
  BY <1>1
<1>3. convObs[m].status = "pending"
  BY <1>2 DEF ConvKept, ConvEachOnce
<1>4. convObs[m].kind \in {"definition", "usage"} => convObs[m].entity \in ConvEntities
  BY <1>2, <1>3 DEF ConvKept, ConvNamesEntity
<1>5. /\ conv' \in ConvConventions /\ convAlias' \in ConvAliases /\ convCommanded' \subseteq ConvEntities
      /\ convMentions' \subseteq ConvMessages /\ convLearning' \in BOOLEAN
  <2>1. CASE convObs[m].kind \in {"definition", "usage"}
    <3>1. ConvEvidence(m, convObs[m].entity) /\ UNCHANGED <<convMentions, convLearning>>
      BY <2>1 DEF ConvProcess, ConvProject
    <3> QED
      BY <3>1, <1>2, <1>4, <2>1, KeptByEvidence DEF ConvKept, ConvTypeOK
  <2>2. CASE ~(convObs[m].kind \in {"definition", "usage"})
    <3>1. ConvMentioned(m) /\ UNCHANGED <<conv, convAlias, convCommanded>>
      BY <2>2 DEF ConvProcess, ConvProject
    <3>2. convMentions' \subseteq ConvMessages
      BY <3>1, <1>2 DEF ConvMentioned, ConvKept, ConvTypeOK
    <3>3. convLearning' \in BOOLEAN
      BY <3>1, Zenon DEF ConvMentioned
    <3> QED
      BY <3>1, <3>2, <3>3 DEF ConvKept, ConvTypeOK
  <2> QED
    BY <2>1, <2>2
<1>6. convObs' = ConvSet({m}, "admitted") \/ convObs' = convObs
  BY DEF ConvProcess
<1>7. [convObs[m] EXCEPT !.status = "admitted"] \in ConvObservation
  BY <1>1, <1>2 DEF ConvStored, ConvObservation
<1>8. convObs' \in ConvStored
  BY <1>1, <1>6, <1>7 DEF ConvSet, ConvStored
<1>9. \A n \in ConvMessages : n # m => convObs'[n] = convObs[n]
  BY <1>1, <1>6 DEF ConvSet, ConvStored
<1>10. convObs'[m].kind = convObs[m].kind /\ convObs'[m].entity = convObs[m].entity
  BY <1>1, <1>2, <1>6 DEF ConvSet, ConvStored, ConvObservation
<1>11. ConvNamesEntity'
  BY <1>4, <1>9, <1>10 DEF ConvNamesEntity, ConvKept
<1>12. /\ convQueue' \in Seq(ConvMessages) /\ Len(convQueue') = Len(convQueue) - 1
       /\ \A i \in 1 .. Len(convQueue') : convQueue'[i] = convQueue[i + 1]
  BY <1>1, HeadTailProperties DEF ConvProcess
<1>13. \A i \in DOMAIN convQueue' : i + 1 \in DOMAIN convQueue /\ i + 1 # 1 /\ convQueue'[i] = convQueue[i + 1] /\ i \in Nat
  BY <1>1, <1>12
<1>14. \A i \in DOMAIN convQueue' : convQueue'[i] # m /\ convQueue'[i] \in ConvMessages
  BY <1>2, <1>12, <1>13 DEF ConvKept, ConvEachOnce
<1>15. ConvEachOnce'
  <2>1. Len(convQueue') <= ConvCapacity
    BY <1>1, <1>12, ConvConstants DEF ConvKept, ConvEachOnce
  <2>2. \A i, j \in DOMAIN convQueue' : convQueue'[i] = convQueue'[j] => i = j
    BY <1>13 DEF ConvKept, ConvEachOnce
  <2>3. \A i \in DOMAIN convQueue' : convObs'[convQueue'[i]].status = "pending"
    BY <1>9, <1>13, <1>14 DEF ConvKept, ConvEachOnce
  <2> QED
    BY <2>1, <2>2, <2>3 DEF ConvEachOnce
<1> QED
  BY <1>5, <1>8, <1>11, <1>12, <1>15 DEF ConvKept, ConvTypeOK, ConvProcess

LEMMA KeptByFails == ASSUME ConvKept, ConvFails PROVE ConvKept'
<1>1. convQueue \in Seq(ConvMessages) /\ convQueue # <<>>
  BY DEF ConvKept, ConvTypeOK, ConvFails
<1>2. /\ Head(convQueue) = convQueue[1] /\ Head(convQueue) \in ConvMessages
      /\ Tail(convQueue) \in Seq(ConvMessages) /\ Len(Tail(convQueue)) = Len(convQueue) - 1
      /\ \A i \in 1 .. Len(Tail(convQueue)) : Tail(convQueue)[i] = convQueue[i + 1]
  BY <1>1, HeadTailProperties
<1>3. /\ convQueue' \in Seq(ConvMessages) /\ Len(convQueue') = Len(convQueue)
      /\ \A i \in 1 .. Len(convQueue) - 1 : convQueue'[i] = convQueue[i + 1]
      /\ convQueue'[Len(convQueue)] = convQueue[1]
  <2>1. convQueue' = Append(Tail(convQueue), Head(convQueue))
    BY DEF ConvFails
  <2>2. Len(convQueue) \in Nat
    BY <1>1
  <2> QED
    BY <2>1, <2>2, <1>2, AppendProperties
<1> DEFINE from(i) == IF i = Len(convQueue) THEN 1 ELSE i + 1
<1>4. ASSUME NEW i \in DOMAIN convQueue' PROVE from(i) \in DOMAIN convQueue /\ convQueue'[i] = convQueue[from(i)] /\ i \in 1 .. Len(convQueue)
  BY <1>1, <1>3
<1>5. ASSUME NEW i \in DOMAIN convQueue', NEW j \in DOMAIN convQueue', convQueue'[i] = convQueue'[j] PROVE i = j
  <2>1. from(i) = from(j)
    BY <1>4, <1>5 DEF ConvKept, ConvEachOnce
  <2>2. i \in 1 .. Len(convQueue) /\ j \in 1 .. Len(convQueue) /\ Len(convQueue) \in Nat
    BY <1>1, <1>4
  <2> QED
    BY <2>1, <2>2
<1>6. \A i \in DOMAIN convQueue' : convObs[convQueue'[i]].status = "pending"
  BY <1>4 DEF ConvKept, ConvEachOnce
<1>7. ConvEachOnce'
  BY <1>3, <1>5, <1>6 DEF ConvEachOnce, ConvFails, ConvKept
<1> QED
  BY <1>3, <1>7 DEF ConvKept, ConvTypeOK, ConvFails, ConvRest, ConvNamesEntity

LEMMA KeptByAdministration ==
  ASSUME ConvKept, NEW e \in ConvEntities,
         ConvConfirm(e) \/ ConvReject(e) \/ \E f \in ConvEntities : ConvSupersede(e, f)
  PROVE  ConvKept'
<1>1. /\ conv' = conv \/ \E s \in {"active", "rejected"} : conv' = [conv EXCEPT ![e].status = s]
      /\ \/ \E s \in ConvStates : convAlias' = [convAlias EXCEPT ![e] = s]
         \/ \E f \in ConvEntities : convAlias' = [convAlias EXCEPT ![e] = "stale", ![f] = "active"]
      /\ convCommanded' \subseteq convCommanded \cup ConvEntities
      /\ UNCHANGED <<convNow, convObs, convQueue, convUp, convTrimmed, convMentions, convLearning>>
  BY DEF ConvConfirm, ConvReject, ConvSupersede, ConvAdminRest, ConvStates, ConvKept, ConvTypeOK, ConvAliases
<1>2. \A s \in {"active", "rejected"} : [conv[e] EXCEPT !.status = s] \in ConvConvention
  BY DEF ConvKept, ConvTypeOK, ConvConventions, ConvConvention, ConvStates
<1>3. conv' \in ConvConventions
  BY <1>1, <1>2 DEF ConvKept, ConvTypeOK, ConvConventions
<1>4. convAlias' \in ConvAliases
  BY <1>1 DEF ConvKept, ConvTypeOK, ConvAliases, ConvStates
<1> QED
  BY <1>1, <1>3, <1>4 DEF ConvKept, ConvTypeOK, ConvNamesEntity, ConvEachOnce

LEMMA KeptByHousekeeping == ASSUME ConvKept, ConvExpire \/ ConvRetain PROVE ConvKept'
<1>1. CASE ConvExpire
  <2>1. \A e \in ConvEntities : [conv[e] EXCEPT !.status = "stale"] \in ConvConvention
    BY DEF ConvKept, ConvTypeOK, ConvConventions, ConvConvention, ConvStates
  <2>2. conv' \in ConvConventions
    BY <1>1, <2>1 DEF ConvExpire, ConvKept, ConvTypeOK, ConvConventions
  <2>3. convAlias' \in ConvAliases
    BY <1>1 DEF ConvExpire, ConvKept, ConvTypeOK, ConvAliases, ConvStates
  <2> QED
    BY <1>1, <2>2, <2>3 DEF ConvExpire, ConvKept, ConvTypeOK, ConvNamesEntity, ConvEachOnce
<1>2. CASE ConvRetain
  BY <1>2 DEF ConvRetain, ConvKept, ConvTypeOK, ConvNamesEntity, ConvEachOnce
<1> QED
  BY <1>1, <1>2

LEMMA KeptStep == ASSUME ConvKept, [ConvNext]_convVars PROVE ConvKept'
<1>1. CASE UNCHANGED convVars
  BY <1>1 DEF convVars, ConvKept, ConvTypeOK, ConvNamesEntity, ConvEachOnce
<1>2. CASE ConvTick
  BY <1>2, ConvConstants DEF ConvTick, ConvKept, ConvTypeOK, ConvNamesEntity, ConvEachOnce
<1>3. CASE ConvStart
  BY <1>3, KeptByStart
<1>4. CASE ConvStop
  <2>1. convQueue' \in Seq(ConvMessages) /\ ConvEachOnce'
    BY <1>4, ConvConstants DEF ConvStop, ConvEachOnce
  <2> QED
    BY <1>4, <2>1 DEF ConvStop, ConvRest, ConvKept, ConvTypeOK, ConvNamesEntity
<1>5. CASE ConvProcess
  BY <1>5, KeptByProcess
<1>6. CASE ConvFails
  BY <1>6, KeptByFails
<1>7. CASE ConvExpire \/ ConvRetain
  BY <1>7, KeptByHousekeeping
<1>8. CASE \E m \in ConvMessages : ConvObserve(m)
  BY <1>8, KeptByObserve
<1>9. CASE \E e \in ConvEntities : ConvConfirm(e) \/ ConvReject(e) \/ \E f \in ConvEntities : ConvSupersede(e, f)
  BY <1>9, KeptByAdministration
<1> QED
  BY <1>1, <1>2, <1>3, <1>4, <1>5, <1>6, <1>7, <1>8, <1>9 DEF ConvNext

LEMMA ConvStaysKept == ConvSpec => []ConvKept
<1> QED
  BY KeptInit, KeptStep, PTL DEF ConvSpec

\* The tables, the queue and what is remembered of commands stay well typed,
\* whatever is observed, projected again, expired or corrected.
THEOREM ConvTypes == ConvSpec => []ConvTypeOK
<1>1. ConvKept => ConvTypeOK
  BY DEF ConvKept
<1> QED
  BY <1>1, ConvStaysKept, PTL

-----------------------------------------------------------------------------
(***************************************************************************)
(* One meaning.  Evidence activates a convention only when no rival is     *)
(* open, and takes the command back from every convention it touches.      *)
(***************************************************************************)
LEMMA OneMeaningByEvidence ==
  ASSUME ConvKept, ConvOneMeaning, NEW m \in ConvMessages, NEW e \in ConvEntities, ConvEvidence(m, e)
  PROVE  ConvOneMeaning'
<1> DEFINE ms == conv[e].evidence \cup {m}
           status == IF ConvSettled(ms, m \in ConvAdmins /\ convObs[m].kind = "definition") THEN "active" ELSE "candidate"
           mine == [status |-> status, evidence |-> ms, seen |-> Max({conv[e].seen, convObs[m].at})]
<1>1. conv \in ConvConventions /\ convAlias \in ConvAliases
  BY DEF ConvKept, ConvTypeOK
<1>2. convCommanded' = convCommanded \ (ConvRivals(e) \cup {e})
  BY DEF ConvEvidence
<1>3. status \in {"active", "candidate"} /\ mine.status = status /\ [mine EXCEPT !.status = "disputed"].status = "disputed"
  OBVIOUS
<1>4. CASE ConvRivals(e) # {}
  <2>1. /\ conv' = [f \in ConvEntities |-> IF f = e THEN [mine EXCEPT !.status = "disputed"]
                       ELSE IF f \in ConvRivals(e) THEN [conv[f] EXCEPT !.status = "disputed"] ELSE conv[f]]
        /\ convAlias' = [f \in ConvEntities |-> IF convAlias[f] = "none" THEN "none" ELSE "disputed"]
    BY <1>4 DEF ConvEvidence
  <2>2. \A f \in ConvEntities : convAlias'[f] # "active"
    BY <2>1
  <2>3. \A f \in ConvEntities : conv'[f].status # "active"
    BY <1>1, <2>1 DEF ConvRivals, ConvConventions, ConvConvention
  <2> QED
    BY <2>2, <2>3 DEF ConvOneMeaning
<1>5. CASE ConvRivals(e) = {}
  <2> HIDE DEF mine, status
  <2>1. /\ conv' = [conv EXCEPT ![e] = mine]
        /\ convAlias' = [convAlias EXCEPT ![e] = IF status = "active" THEN "active" ELSE @]
    BY <1>5 DEF ConvEvidence, ms, status, mine
  <2>2. \A f \in ConvEntities \ {e} : conv'[f] = conv[f] /\ conv[f].status # "active" /\ convAlias'[f] = convAlias[f]
    BY <1>1, <1>5, <2>1 DEF ConvRivals, ConvConventions, ConvAliases
  <2>3. conv'[e].status \in {"active", "candidate"}
    BY <1>1, <1>3, <2>1 DEF ConvConventions
  <2>4. \A f \in ConvEntities \ {e} : f \in convCommanded => f \in convCommanded'
    BY <1>2, <1>5
  <2> QED
    BY <2>2, <2>3, <2>4 DEF ConvOneMeaning
<1> QED
  BY <1>4, <1>5

LEMMA OneMeaningStep == ASSUME ConvKept, ConvOneMeaning, [ConvNext]_convVars PROVE ConvOneMeaning'
<1> USE DEF ConvOneMeaning
<1>0. conv \in ConvConventions /\ convAlias \in ConvAliases
  BY DEF ConvKept, ConvTypeOK
<1>1. CASE UNCHANGED <<conv, convAlias, convCommanded>>
  BY <1>1
<1>2. CASE ConvProcess
  <2>1. CASE convObs[Head(convQueue)].kind \in {"definition", "usage"}
    <3>1. Head(convQueue) \in ConvMessages /\ Head(convQueue) = convQueue[1] /\ 1 \in DOMAIN convQueue
      BY <1>2 DEF ConvProcess, ConvKept, ConvTypeOK
    <3>2. convObs[Head(convQueue)].entity \in ConvEntities
      BY <2>1, <3>1 DEF ConvKept, ConvNamesEntity, ConvEachOnce
    <3> QED
      BY <1>2, <2>1, <3>1, <3>2, OneMeaningByEvidence DEF ConvProcess, ConvProject
  <2>2. CASE ~(convObs[Head(convQueue)].kind \in {"definition", "usage"})
    BY <1>1, <1>2, <2>2 DEF ConvProcess, ConvProject
  <2> QED
    BY <2>1, <2>2
<1>3. CASE ConvExpire
  <2>1. \A e \in ConvEntities : IF e \in ConvExpired
          THEN conv'[e].status = "stale" /\ convAlias'[e] # "active"
          ELSE conv'[e] = conv[e] /\ convAlias'[e] = convAlias[e] /\ (e \in convCommanded => e \in convCommanded')
    BY <1>0, <1>3 DEF ConvExpire, ConvConventions, ConvConvention, ConvAliases
  <2> QED
    BY <2>1
<1>4. ASSUME NEW e \in ConvEntities, ConvConfirm(e) PROVE ConvOneMeaning'
  <2>1. \A f \in ConvEntities \ {e} : conv'[f] = conv[f] /\ convAlias'[f] = convAlias[f]
    BY <1>0, <1>4 DEF ConvConfirm, ConvConventions, ConvAliases
  <2>2. e \in convCommanded' /\ convCommanded \subseteq convCommanded'
    BY <1>4 DEF ConvConfirm
  <2> QED
    BY <2>1, <2>2
<1>5. ASSUME NEW e \in ConvEntities, ConvReject(e) PROVE ConvOneMeaning'
  <2>1. \A f \in ConvEntities \ {e} : conv'[f] = conv[f] /\ convAlias'[f] = convAlias[f] /\ (f \in convCommanded => f \in convCommanded')
    BY <1>0, <1>5 DEF ConvReject, ConvConventions, ConvAliases
  <2>2. conv'[e].status = "rejected" /\ convAlias'[e] # "active"
    BY <1>0, <1>5 DEF ConvReject, ConvConventions, ConvConvention, ConvAliases
  <2> QED
    BY <2>1, <2>2
<1>6. ASSUME NEW e \in ConvEntities, NEW f \in ConvEntities, ConvSupersede(e, f) PROVE ConvOneMeaning'
  <2>1. conv' = conv /\ convCommanded' = convCommanded \cup {f}
    BY <1>6 DEF ConvSupersede
  <2>2. \A g \in ConvEntities \ {f} : convAlias'[g] = "active" => convAlias[g] = "active"
    BY <1>0, <1>6 DEF ConvSupersede, ConvAliases
  <2> QED
    BY <2>1, <2>2
<1>7. CASE \E m \in ConvMessages : ConvObserve(m)
  BY <1>1, <1>7 DEF ConvObserve, ConvRest
<1>8. CASE ConvTick \/ ConvStart \/ ConvStop \/ ConvFails \/ ConvRetain \/ UNCHANGED convVars
  BY <1>1, <1>8 DEF ConvTick, ConvStart, ConvStop, ConvFails, ConvRetain, ConvRest, convVars
<1> QED
  BY <1>2, <1>3, <1>4, <1>5, <1>6, <1>7, <1>8 DEF ConvNext

\* In every run an expression has one active meaning unless an administrator
\* said otherwise, the resolver's alias follows its convention, and the queue
\* stays within its capacity and holds nothing that was decided already.
THEOREM ConvStaySound == ConvSpec => []ConvSound
<1>1. ConvInit => ConvOneMeaning
  BY DEF ConvInit, ConvOneMeaning
<1>2. ConvSpec => []ConvOneMeaning
  BY <1>1, ConvStaysKept, OneMeaningStep, PTL DEF ConvSpec
<1>3. ConvKept => ConvQueueIsPending
  <2> SUFFICES ASSUME ConvKept PROVE ConvQueueIsPending
    OBVIOUS
  <2>1. convQueue \in Seq(ConvMessages) /\ ConvEachOnce
    BY DEF ConvKept, ConvTypeOK
  <2>2. Cardinality(ConvQueued) = Len(convQueue)
    BY <2>1, AsManyAsLong DEF ConvQueued, ConvEachOnce
  <2> QED
    BY <2>1, <2>2 DEF ConvQueueIsPending, ConvEachOnce, ConvQueued, ToSet
<1> QED
  BY <1>2, <1>3, ConvStaysKept, PTL DEF ConvSound

----------------------------------------------------------------------------
(***************************************************************************)
(* Theorems about the durable jobs and the instant enrichment, for any     *)
(* hashes, callers, generations, hours and quotas.                         *)
(***************************************************************************)

(***************************************************************************)
(* The inductive invariant.  The worker holds a row exactly while it works *)
(* on it, and it holds the learning row in the stages of learning, each    *)
(* of which was stored before the next; a flight that waits for a provider *)
(* or an answer has a leg left and a row of its hash.                      *)
(***************************************************************************)
JobsLearning == {"search", "evidence", "claim", "alias", "active"}
JobsHands ==
  /\ jobsWorker.phase \in {"off", "idle"} <=> jobsWorker.row = JobsNoRow
  /\ jobsWorker.phase = "probe" => jobsWorker.row \in JobsRows \ (JobsInstant \cup {<<"learn", 0>>})
  /\ jobsWorker.phase \in JobsLearning => jobsWorker.row = <<"learn", 0>>
JobsBusy(f) == f.phase \in {"queued", "calling"}
JobsAir == \A h \in JobsHashes : JobsBusy(jobsFlight[h]) => jobsFlight[h].row \in JobsInstant /\ jobsFlight[h].todo # <<>>
JobsStages ==
  /\ jobsWorker.phase \in {"evidence", "claim", "alias"} => "evidence" \in jobsLearned
  /\ jobsWorker.phase \in {"claim", "alias"} => "claim" \in jobsLearned
  /\ jobsWorker.phase = "alias" => "alias" \in jobsLearned
  /\ jobsWorker.phase = "active" => "active" \in jobsLearned
JobsInductive ==
  /\ JobsTypeOK /\ JobsHands /\ JobsAir /\ JobsStages
  /\ JobsQuotaKept /\ JobsOneOwner /\ JobsActiveIsGrounded

\* The same, of what a step leaves in the table of jobs.
JobsTableOK ==
  /\ jobsRow \in [JobsRows -> JobsRecord] /\ JobsOneOwner
  /\ jobsRow[<<"learn", 0>>].status = "completed" => "active" \in jobsLearned
JobsWorkerOK ==
  /\ jobsWorker \in [phase : {"off", "idle", "probe", "search", "evidence", "claim", "alias", "active"},
                     row : JobsRows \cup {JobsNoRow}, accepting : BOOLEAN]
  /\ JobsHands /\ JobsStages /\ jobsLearned \subseteq JobsFinds
  /\ "active" \in jobsLearned => {"evidence", "claim", "alias"} \subseteq jobsLearned
JobsAirOK ==
  /\ jobsNow \in JobsHours /\ jobsFlight \in [JobsHashes -> JobsFlights] /\ jobsReply \in [JobsRequests -> JobsResults]
  /\ jobsUsage \in JobsUsages /\ jobsCalls \in [JobsHours -> Nat] /\ jobsCache \in JobsCaches
  /\ JobsAir /\ JobsQuotaKept

LEMMA JobsParts == JobsInductive <=> JobsTableOK /\ JobsWorkerOK /\ JobsAirOK
BY DEF JobsInductive, JobsTypeOK, JobsTableOK, JobsWorkerOK, JobsAirOK, JobsActiveIsGrounded
LEMMA JobsPartsNext == JobsTableOK' /\ JobsWorkerOK' /\ JobsAirOK' => JobsInductive'
BY DEF JobsInductive, JobsTypeOK, JobsTableOK, JobsWorkerOK, JobsAirOK, JobsActiveIsGrounded

(***************************************************************************)
(* Counting hashes.                                                        *)
(***************************************************************************)
LEMMA JobsDiffers ==
  ASSUME NEW S \in SUBSET JobsHashes, NEW T \in SUBSET JobsHashes, NEW h,
         \A x : x # h => (x \in S <=> x \in T)
  PROVE  /\ Cardinality(S) \in Nat /\ Cardinality(T) \in Nat
         /\ (h \in S <=> h \in T) => Cardinality(S) = Cardinality(T)
         /\ h \in S /\ h \notin T => Cardinality(S) = Cardinality(T) + 1
         /\ h \notin S /\ h \in T => Cardinality(S) = Cardinality(T) - 1
<1>1. IsFiniteSet(S) /\ IsFiniteSet(T) /\ Cardinality(S) \in Nat /\ Cardinality(T) \in Nat
  BY JobsConstants, FS_Subset, FS_CardinalityType
<1>2. ASSUME h \in S <=> h \in T PROVE S = T
  BY <1>2
<1>3. ASSUME h \in S, h \notin T PROVE S = T \cup {h}
  BY <1>3
<1>4. ASSUME h \notin S, h \in T PROVE S = T \ {h}
  BY <1>4
<1> QED
  BY <1>1, <1>2, <1>3, <1>4, FS_AddElement, FS_RemoveElement

JobsQueuedAt(flight, t) == {h \in JobsHashes : flight[h].phase = "queued" /\ flight[h].at = t}
JobsCallingIn(flight) == {h \in JobsHashes : flight[h].phase = "calling"}
LEMMA JobsQuotaIs ==
  JobsQuotaKept <=> /\ \A t \in JobsHours : /\ jobsUsage[t] <= JobsHourLimit
                                            /\ jobsCalls[t] + Cardinality(JobsQueuedAt(jobsFlight, t)) <= jobsUsage[t]
                    /\ Cardinality(JobsCallingIn(jobsFlight)) <= JobsGate
BY DEF JobsQuotaKept, JobsQueuedAt, JobsCallingIn, JobsCalling
LEMMA JobsQuotaWillBe ==
  JobsQuotaKept' <=> /\ \A t \in JobsHours : /\ jobsUsage'[t] <= JobsHourLimit
                                             /\ jobsCalls'[t] + Cardinality(JobsQueuedAt(jobsFlight', t)) <= jobsUsage'[t]
                     /\ Cardinality(JobsCallingIn(jobsFlight')) <= JobsGate
BY DEF JobsQuotaKept, JobsQueuedAt, JobsCallingIn, JobsCalling

(***************************************************************************)
(* The rows.                                                               *)
(***************************************************************************)
LEMMA JobsKinds ==
  /\ \A x \in JobsInstant : x \in JobsRows /\ x[1] \in JobsHashes /\ x # <<"learn", 0>> /\ x # <<"boundary", 0>> /\ x[1] # "daily"
  /\ JobsNoRow \notin JobsRows
  /\ <<"learn", 0>> \in JobsRows /\ <<"learn", 0>> # <<"boundary", 0>>
BY JobsConstants DEF JobsInstant, JobsRows, JobsNoRow

JobsTable == [JobsRows -> JobsRecord]
LEMMA JobsSchedules ==
  ASSUME jobsNow \in JobsHours, NEW rows \in JobsTable
  PROVE  /\ JobsScheduled(rows) \in JobsTable
         /\ \A x \in JobsRows : \/ JobsScheduled(rows)[x] = rows[x]
                                \/ /\ rows[x].status = "absent" /\ JobsScheduled(rows)[x].status = "pending"
                                   /\ x \notin JobsInstant /\ x # <<"learn", 0>>
<1> DEFINE s(x) == [rows[x] EXCEPT !.status = "pending", !.at = jobsNow]
<1>1. jobsNow \in Nat
  BY JobsConstants DEF JobsHours
<1>2. \A x \in JobsRows : s(x) \in JobsRecord /\ s(x).status = "pending"
  BY <1>1 DEF JobsTable, JobsRecord, JobsOpen
<1>3. \A x \in JobsRows : JobsWanted(rows, x) => x \notin JobsInstant /\ x # <<"learn", 0>>
  <2> SUFFICES ASSUME NEW x \in JobsRows, JobsWanted(rows, x) PROVE x \notin JobsInstant /\ x # <<"learn", 0>>
    OBVIOUS
  <2>1. x = <<"daily", JobsDay(jobsNow)>> \/ x = <<"boundary", 0>>
    BY DEF JobsWanted
  <2> QED
    BY <2>1, JobsKinds
<1>4. \A x \in JobsRows : JobsScheduled(rows)[x] = IF rows[x].status = "absent" /\ JobsWanted(rows, x) THEN s(x) ELSE rows[x]
  BY DEF JobsScheduled
<1>5. JobsScheduled(rows) \in JobsTable
  BY <1>2 DEF JobsScheduled, JobsTable
<1> HIDE DEF s
<1> QED
  BY <1>2, <1>3, <1>4, <1>5

\* What a step of the table must keep: the rows in use stay running, no instant row opens but one
\* whose hash had no open row, and learning is completed only once the game is active.
LEMMA JobsTableKept ==
  ASSUME JobsTableOK, jobsRow' \in JobsTable,
         jobsWorker'.row # JobsNoRow => jobsRow'[jobsWorker'.row].status = "running" /\ jobsWorker'.row \notin JobsInstant,
         \A h \in JobsHashes : JobsBusy(jobsFlight'[h]) =>
           jobsFlight'[h].row[1] = h /\ jobsRow'[jobsFlight'[h].row].status = "running",
         \A x \in JobsInstant : jobsRow'[x].status \in JobsOpen =>
           jobsRow[x].status \in JobsOpen \/ \A y \in JobsInstant : y[1] = x[1] /\ y # x => jobsRow'[y].status \notin JobsOpen,
         jobsRow'[<<"learn", 0>>].status = "completed" => "active" \in jobsLearned'
  PROVE  JobsTableOK'
<1>1. JobsOneOwner'
  <2>1. \A x, y \in JobsInstant :
          x[1] = y[1] /\ jobsRow'[x].status \in JobsOpen /\ jobsRow'[y].status \in JobsOpen => x = y
    BY DEF JobsTableOK, JobsOneOwner
  <2> QED
    BY <2>1 DEF JobsOneOwner, JobsBusy
<1> QED
  BY <1>1 DEF JobsTableOK, JobsTable

\* A step of the worker or of an administrator leaves the instant rows as open or shut as they were,
\* and those of a flight running.
LEMMA JobsWorks ==
  ASSUME JobsInductive, jobsRow' \in JobsTable, UNCHANGED <<jobsNow, jobsFlight, jobsReply, jobsUsage, jobsCalls, jobsCache>>,
         jobsWorker'.row # JobsNoRow => jobsRow'[jobsWorker'.row].status = "running" /\ jobsWorker'.row \notin JobsInstant,
         \A x \in JobsInstant : (jobsRow'[x].status \in JobsOpen => jobsRow[x].status \in JobsOpen),
         \A x \in JobsInstant : jobsRow[x].status = "running" => jobsRow'[x].status = "running" \/ \A h \in JobsHashes : ~JobsBusy(jobsFlight[h]),
         jobsRow'[<<"learn", 0>>].status = "completed" => "active" \in jobsLearned', JobsWorkerOK'
  PROVE  JobsInductive'
<1>1. JobsTableOK /\ JobsAirOK
  BY JobsParts
<1>2. JobsAirOK'
  BY <1>1, JobsQuotaIs, JobsQuotaWillBe DEF JobsAirOK, JobsAir
<1>3. \A h \in JobsHashes : JobsBusy(jobsFlight'[h]) =>
           jobsFlight'[h].row[1] = h /\ jobsRow'[jobsFlight'[h].row].status = "running"
  <2> SUFFICES ASSUME NEW h \in JobsHashes, JobsBusy(jobsFlight[h])
               PROVE  jobsFlight[h].row[1] = h /\ jobsRow'[jobsFlight[h].row].status = "running"
    OBVIOUS
  <2>1. jobsFlight[h].row \in JobsInstant /\ jobsFlight[h].row[1] = h /\ jobsRow[jobsFlight[h].row].status = "running"
    BY <1>1 DEF JobsAirOK, JobsAir, JobsTableOK, JobsOneOwner, JobsBusy
  <2> QED
    BY <2>1
<1>4. JobsTableOK'
  BY <1>1, <1>3, JobsTableKept
<1> QED
  BY <1>2, <1>4, JobsPartsNext

LEMMA JobsBegins == JobsInit => JobsInductive
<1> SUFFICES ASSUME JobsInit PROVE JobsInductive
  OBVIOUS
<1>1. JobsTableOK
  <2>1. JobsAbsent \in JobsRecord /\ JobsAbsent.status = "absent"
    BY DEF JobsAbsent, JobsRecord
  <2>2. jobsRow \in [JobsRows -> JobsRecord] /\ \A x \in JobsRows : jobsRow[x].status = "absent"
    BY <2>1 DEF JobsInit
  <2>3. jobsWorker.row = JobsNoRow /\ \A h \in JobsHashes : jobsFlight[h].phase = "none"
    BY DEF JobsInit, JobsIdleFlight
  <2>4. JobsOneOwner
    BY <2>2, <2>3, JobsKinds DEF JobsOneOwner, JobsOpen
  <2> QED
    BY <2>2, <2>4, JobsKinds DEF JobsTableOK
<1>2. JobsWorkerOK
  BY DEF JobsInit, JobsWorkerOK, JobsHands, JobsStages, JobsLearning
<1>3. JobsAirOK
  <2>1. JobsIdleFlight \in JobsFlights /\ JobsIdleFlight.phase = "none"
    BY JobsConstants DEF JobsIdleFlight, JobsFlights, JobsHours
  <2>2. jobsFlight \in [JobsHashes -> JobsFlights] /\ \A h \in JobsHashes : jobsFlight[h].phase = "none"
    BY <2>1 DEF JobsInit
  <2>3. JobsCallingIn(jobsFlight) = {} /\ \A t \in JobsHours : JobsQueuedAt(jobsFlight, t) = {}
    BY <2>2 DEF JobsCallingIn, JobsQueuedAt
  <2>4. JobsQuotaKept
    <3>1. Cardinality({}) = 0 /\ JobsHourLimit \in Nat /\ JobsGate \in Nat
      BY FS_EmptySet, JobsConstants
    <3>2. \A t \in JobsHours : jobsUsage[t] = 0 /\ jobsCalls[t] = 0
      BY DEF JobsInit
    <3> QED
      BY <3>1, <3>2, <2>3, JobsQuotaIs
  <2>5. jobsNow \in JobsHours /\ jobsUsage \in JobsUsages /\ jobsCalls \in [JobsHours -> Nat]
    BY JobsConstants DEF JobsInit, JobsHours, JobsUsages
  <2>6. jobsReply \in [JobsRequests -> JobsResults] /\ jobsCache \in JobsCaches
    BY DEF JobsInit, JobsResults, JobsCaches
  <2>7. JobsAir
    BY <2>2 DEF JobsAir, JobsBusy
  <2> QED
    BY <2>2, <2>4, <2>5, <2>6, <2>7 DEF JobsAirOK
<1> QED
  BY <1>1, <1>2, <1>3, JobsParts

(***************************************************************************)
(* The worker's steps.                                                     *)
(***************************************************************************)
LEMMA JobsFacts ==
  ASSUME JobsInductive
  PROVE  /\ jobsRow \in JobsTable /\ jobsNow \in JobsHours /\ jobsNow \in Nat /\ JobsWorkerOK
         /\ jobsWorker \in [phase : {"off", "idle", "probe", "search", "evidence", "claim", "alias", "active"},
                            row : JobsRows \cup {JobsNoRow}, accepting : BOOLEAN]
         /\ jobsWorker.row # JobsNoRow => jobsRow[jobsWorker.row].status = "running" /\ jobsWorker.row \notin JobsInstant /\ jobsWorker.row \in JobsRows
         /\ jobsRow[<<"learn", 0>>].status = "completed" => "active" \in jobsLearned
BY JobsParts, JobsConstants DEF JobsTableOK, JobsWorkerOK, JobsAirOK, JobsOneOwner, JobsTable, JobsHours

LEMMA JobsPutBack ==
  ASSUME jobsNow \in Nat, NEW r \in JobsRecord
  PROVE  /\ JobsClaimed(r) \in JobsRecord /\ JobsClaimed(r).status = "running"
         /\ JobsBackoff(r) \in JobsRecord /\ JobsBackoff(r).status = "retry"
         /\ JobsBackoff(JobsClaimed(r)) \in JobsRecord /\ JobsBackoff(JobsClaimed(r)).status = "retry"
         /\ [r EXCEPT !.status = "completed", !.at = jobsNow] \in JobsRecord
<1>1. ASSUME NEW q \in JobsRecord PROVE JobsBackoff(q) \in JobsRecord /\ JobsBackoff(q).status = "retry"
  <2>1. jobsNow + 1 \in Nat \cup {-1} /\ "retry" \in JobsOpen
    BY DEF JobsOpen
  <2> DEFINE later == jobsNow + 1
  <2>2. later \in Nat \cup {-1}
    BY <2>1
  <2>3. JobsBackoff(q) = [q EXCEPT !.status = "retry", !.at = later]
    BY DEF JobsBackoff
  <2> HIDE DEF later
  <2> QED
    BY <1>1, <2>1, <2>2, <2>3 DEF JobsRecord
<1>2. JobsClaimed(r) \in JobsRecord /\ JobsClaimed(r).status = "running"
  BY DEF JobsClaimed, JobsRecord, JobsOpen
<1>3. [r EXCEPT !.status = "completed", !.at = jobsNow] \in JobsRecord
  BY DEF JobsRecord
<1> QED
  BY <1>1, <1>2, <1>3

LEMMA JobsStarts ==
  ASSUME JobsInductive, JobsStart
  PROVE  JobsInductive'
<1> DEFINE rows == JobsRecovered(jobsRow)
<1>1. jobsRow \in JobsTable /\ jobsNow \in JobsHours /\ JobsWorkerOK
  BY JobsFacts
<1>2. /\ \A h \in JobsHashes : ~JobsBusy(jobsFlight[h])
      /\ jobsRow' = JobsScheduled(rows) /\ jobsWorker' = [phase |-> "idle", row |-> JobsNoRow, accepting |-> TRUE]
      /\ UNCHANGED <<jobsNow, jobsFlight, jobsReply, jobsUsage, jobsCalls, jobsCache>> /\ jobsLearned' = jobsLearned
  BY DEF JobsStart, JobsBusy, JobsStay
<1>3. rows \in JobsTable /\ \A x \in JobsRows : rows[x] = jobsRow[x] \/ (jobsRow[x].status = "running" /\ rows[x].status = "retry")
  <2>1. \A x \in JobsRows : jobsRow[x] \in JobsRecord /\ [jobsRow[x] EXCEPT !.status = "retry"] \in JobsRecord
                            /\ [jobsRow[x] EXCEPT !.status = "retry"].status = "retry"
    BY <1>1 DEF JobsTable, JobsRecord, JobsOpen
  <2> QED
    BY <2>1 DEF JobsRecovered, JobsTable
<1> HIDE DEF rows
<1>4. jobsRow' \in JobsTable /\ \A x \in JobsRows : \/ jobsRow'[x] = rows[x]
                                                    \/ rows[x].status = "absent" /\ jobsRow'[x].status = "pending" /\ x \notin JobsInstant /\ x # <<"learn", 0>>
  BY <1>1, <1>2, <1>3, JobsSchedules
<1>5. \A x \in JobsInstant : jobsRow'[x].status \in JobsOpen => jobsRow[x].status \in JobsOpen
  BY <1>3, <1>4, JobsKinds DEF JobsOpen
<1>6. jobsRow'[<<"learn", 0>>].status = "completed" => "active" \in jobsLearned'
  BY <1>2, <1>3, <1>4, JobsKinds, JobsFacts
<1>7. JobsWorkerOK' /\ jobsWorker'.row = JobsNoRow
  BY <1>1, <1>2 DEF JobsWorkerOK, JobsHands, JobsStages, JobsLearning
<1> QED
  BY <1>2, <1>4, <1>5, <1>6, <1>7, JobsWorks

LEMMA JobsClaims ==
  ASSUME JobsInductive, JobsClaim
  PROVE  JobsInductive'
<1> DEFINE rows == JobsScheduled(jobsRow)
<1>1. jobsRow \in JobsTable /\ jobsNow \in JobsHours /\ jobsNow \in Nat /\ JobsWorkerOK /\ jobsWorker.phase = "idle"
      /\ UNCHANGED <<jobsNow, jobsFlight, jobsReply, jobsUsage, jobsCalls, jobsCache>> /\ jobsLearned' = jobsLearned
  BY JobsFacts DEF JobsClaim, JobsStay
<1>2. rows \in JobsTable /\ \A x \in JobsRows : \/ rows[x] = jobsRow[x]
                                                \/ jobsRow[x].status = "absent" /\ rows[x].status = "pending" /\ x \notin JobsInstant /\ x # <<"learn", 0>>
  BY <1>1, JobsSchedules
<1>3. PICK x \in JobsDueRows(rows) :
        IF x \in JobsInstant
          THEN jobsRow' = [rows EXCEPT ![x] = JobsBackoff(JobsClaimed(@))] /\ UNCHANGED jobsWorker
          ELSE /\ jobsRow' = [rows EXCEPT ![x] = JobsClaimed(@)]
               /\ jobsWorker' = [jobsWorker EXCEPT !.row = x,
                    !.phase = IF x = <<"learn", 0>> THEN IF "active" \in jobsLearned THEN "active" ELSE "search"
                              ELSE "probe"]
  BY DEF JobsClaim
<1>4. x \in JobsRows /\ rows[x].status \in {"pending", "retry"} /\ rows[x] \in JobsRecord
  BY <1>2 DEF JobsDueRows, JobsTable
<1> HIDE DEF rows
<1>5. jobsWorker.row = JobsNoRow
  BY <1>1 DEF JobsWorkerOK, JobsHands
<1>6. CASE x \in JobsInstant
  <2> DEFINE r == JobsBackoff(JobsClaimed(rows[x]))
  <2>1. r \in JobsRecord /\ r.status = "retry"
    BY <1>1, <1>4, JobsPutBack
  <2>2. jobsRow' = [rows EXCEPT ![x] = r] /\ UNCHANGED jobsWorker
    BY <1>3, <1>6
  <2> HIDE DEF r
  <2>3. jobsRow' \in JobsTable /\ \A y \in JobsRows : jobsRow'[y] = IF y = x THEN r ELSE rows[y]
    BY <2>1, <2>2, <1>2, <1>4 DEF JobsTable
  <2>4. \A y \in JobsInstant : /\ jobsRow'[y].status \in JobsOpen => jobsRow[y].status \in JobsOpen
                               /\ jobsRow[y].status = "running" => jobsRow'[y].status = "running"
    BY <2>1, <2>3, <1>2, <1>4, JobsKinds DEF JobsOpen
  <2>5. jobsRow'[<<"learn", 0>>].status = "completed" => "active" \in jobsLearned'
    BY <2>3, <1>1, <1>2, <1>6, JobsKinds, JobsFacts
  <2>6. JobsWorkerOK'
    BY <2>2, <1>1 DEF JobsWorkerOK, JobsHands, JobsStages
  <2> QED
    BY <2>2, <2>3, <2>4, <2>5, <2>6, <1>1, <1>5, JobsWorks
<1>7. CASE x \notin JobsInstant
  <2> DEFINE r == JobsClaimed(rows[x])
             phase == IF x = <<"learn", 0>> THEN IF "active" \in jobsLearned THEN "active" ELSE "search" ELSE "probe"
  <2>1. r \in JobsRecord /\ r.status = "running"
    BY <1>4 DEF JobsClaimed, JobsRecord, JobsOpen
  <2>2. jobsRow' = [rows EXCEPT ![x] = r] /\ jobsWorker' = [jobsWorker EXCEPT !.row = x, !.phase = phase]
    BY <1>3, <1>7
  <2>3. /\ phase \in {"active", "search", "probe"} /\ (phase = "probe" <=> x # <<"learn", 0>>)
        /\ phase = "active" => "active" \in jobsLearned
    OBVIOUS
  <2> HIDE DEF r, phase
  <2>4. jobsRow' \in JobsTable /\ \A y \in JobsRows : jobsRow'[y] = IF y = x THEN r ELSE rows[y]
    BY <2>1, <2>2, <1>2, <1>4 DEF JobsTable
  <2>5. \A y \in JobsInstant : jobsRow'[y] = jobsRow[y]
    BY <2>4, <1>2, <1>7, JobsKinds
  <2>6. jobsRow'[<<"learn", 0>>].status = "completed" => "active" \in jobsLearned'
    <3>1. x = <<"learn", 0>> \/ jobsRow'[<<"learn", 0>>] = jobsRow[<<"learn", 0>>]
      BY <2>4, <1>2, JobsKinds
    <3> QED
      BY <3>1, <2>1, <2>4, <1>1, <1>4, JobsFacts
  <2>7. jobsWorker'.row = x /\ jobsWorker'.phase = phase /\ x # JobsNoRow
        /\ jobsWorker' \in [phase : {"off", "idle", "probe", "search", "evidence", "claim", "alias", "active"},
                            row : JobsRows \cup {JobsNoRow}, accepting : BOOLEAN]
    BY <2>2, <2>3, <1>1, <1>4, JobsKinds DEF JobsWorkerOK
  <2>8. JobsWorkerOK'
    BY <2>3, <2>7, <1>1, <1>4, <1>7 DEF JobsWorkerOK, JobsHands, JobsStages, JobsLearning
  <2>9. jobsRow'[x].status = "running"
    BY <2>1, <2>4, <1>4
  <2> QED
    BY <2>4, <2>5, <2>6, <2>7, <2>8, <2>9, <1>1, <1>7, JobsWorks
<1> QED
  BY <1>6, <1>7

\* A job that ends, done or put back, leaves the worker without a row.
LEMMA JobsEnds ==
  ASSUME JobsInductive, jobsWorker.row # JobsNoRow, NEW r \in JobsRecord, r.status \in {"completed", "retry"},
         jobsRow' = [jobsRow EXCEPT ![jobsWorker.row] = r],
         r.status = "completed" /\ jobsWorker.row = <<"learn", 0>> => "active" \in jobsLearned,
         JobsRest, UNCHANGED <<jobsNow, jobsFlight, jobsReply, jobsUsage, jobsCalls, jobsCache, jobsLearned>>
  PROVE  JobsInductive'
<1> DEFINE x == jobsWorker.row
<1>1. /\ jobsRow \in JobsTable /\ JobsWorkerOK /\ x \in JobsRows /\ x \notin JobsInstant
      /\ jobsRow[<<"learn", 0>>].status = "completed" => "active" \in jobsLearned
  BY JobsFacts
<1> HIDE DEF x
<1>2. jobsRow' \in JobsTable /\ \A y \in JobsRows : jobsRow'[y] = IF y = x THEN r ELSE jobsRow[y]
  BY <1>1 DEF JobsTable, x
<1>3. \A y \in JobsInstant : jobsRow'[y] = jobsRow[y]
  BY <1>1, <1>2, JobsKinds
<1>4. jobsRow'[<<"learn", 0>>].status = "completed" => "active" \in jobsLearned'
  BY <1>1, <1>2, JobsKinds DEF x
<1>5. jobsWorker'.row = JobsNoRow /\ jobsWorker'.phase \in {"off", "idle"}
      /\ jobsWorker' \in [phase : {"off", "idle", "probe", "search", "evidence", "claim", "alias", "active"},
                          row : JobsRows \cup {JobsNoRow}, accepting : BOOLEAN]
  BY <1>1 DEF JobsRest, JobsWorkerOK
<1>6. JobsWorkerOK'
  BY <1>1, <1>5 DEF JobsWorkerOK, JobsHands, JobsStages, JobsLearning
<1> QED
  BY <1>2, <1>3, <1>4, <1>5, <1>6, JobsWorks

LEMMA JobsWorkerSteps ==
  ASSUME JobsInductive, JobsProbed \/ JobsLearn \/ JobsSearchFails \/ JobsLearnt \/ JobsCancel \/ JobsClose
  PROVE  JobsInductive'
<1> DEFINE x == jobsWorker.row
           done == [jobsRow[x] EXCEPT !.status = "completed", !.at = jobsNow]
           back == JobsBackoff(jobsRow[x])
<1>1. /\ jobsRow \in JobsTable /\ jobsNow \in Nat /\ JobsWorkerOK
      /\ jobsWorker \in [phase : {"off", "idle", "probe", "search", "evidence", "claim", "alias", "active"},
                         row : JobsRows \cup {JobsNoRow}, accepting : BOOLEAN]
      /\ x # JobsNoRow => jobsRow[x].status = "running" /\ x \notin JobsInstant /\ x \in JobsRows
      /\ jobsRow[<<"learn", 0>>].status = "completed" => "active" \in jobsLearned
  BY JobsFacts
<1>2. ASSUME x # JobsNoRow
      PROVE  /\ done \in JobsRecord /\ done.status = "completed" /\ back \in JobsRecord /\ back.status = "retry"
  <2>1. jobsRow[x] \in JobsRecord
    BY <1>1, <1>2 DEF JobsTable
  <2>2. done.status = "completed"
    BY <2>1 DEF JobsRecord
  <2> HIDE DEF x
  <2> QED
    BY <2>1, <2>2, <1>1, JobsPutBack
<1>3. /\ JobsGivesBack(x) <=> jobsRow' = [jobsRow EXCEPT ![x] = back]
      /\ JobsCompletes(x) <=> jobsRow' = [jobsRow EXCEPT ![x] = done]
  BY DEF JobsGivesBack, JobsCompletes
<1>4. ASSUME JobsGivesBack(x), x # JobsNoRow, JobsRest, JobsStay, UNCHANGED jobsLearned PROVE JobsInductive'
  BY <1>2, <1>3, <1>4, JobsEnds DEF JobsStay
<1>5. CASE JobsProbed
  <2>1. x # JobsNoRow /\ x # <<"learn", 0>> /\ JobsRest /\ JobsStay /\ UNCHANGED jobsLearned /\ (JobsCompletes(x) \/ JobsGivesBack(x))
    BY <1>1, <1>5 DEF JobsProbed, JobsWorkerOK, JobsHands
  <2> QED
    BY <2>1, <1>2, <1>3, <1>4, JobsEnds DEF JobsStay
<1>6. CASE JobsSearchFails \/ JobsCancel
  <2>1. jobsWorker.phase \notin {"off", "idle"}
    BY <1>6 DEF JobsSearchFails, JobsCancel, JobsNextFact, JobsSteps
  <2>2. x # JobsNoRow /\ JobsRest /\ JobsStay /\ UNCHANGED jobsLearned /\ JobsGivesBack(x)
    BY <2>1, <1>1, <1>6 DEF JobsSearchFails, JobsCancel, JobsWorkerOK, JobsHands
  <2> QED
    BY <2>2, <1>4
<1>7. CASE JobsLearnt
  <2>1. x # JobsNoRow /\ "active" \in jobsLearned /\ JobsRest /\ JobsStay /\ UNCHANGED jobsLearned /\ JobsCompletes(x)
    BY <1>1, <1>7 DEF JobsLearnt, JobsWorkerOK, JobsHands, JobsStages
  <2> QED
    BY <2>1, <1>2, <1>3, JobsEnds DEF JobsStay
<1>8. CASE JobsLearn
  <2> DEFINE fact == JobsNextFact[jobsWorker.phase]
  <2>1. /\ jobsWorker.phase \in DOMAIN JobsNextFact /\ jobsLearned' = jobsLearned \cup {fact}
        /\ jobsWorker' = [jobsWorker EXCEPT !.phase = fact] /\ JobsStay /\ UNCHANGED jobsRow
    BY <1>8 DEF JobsLearn
  <2>2. \/ jobsWorker.phase = "search" /\ fact = "evidence"
        \/ jobsWorker.phase = "evidence" /\ fact = "claim"
        \/ jobsWorker.phase = "claim" /\ fact = "alias"
        \/ jobsWorker.phase = "alias" /\ fact = "active"
    BY <2>1 DEF JobsNextFact, JobsSteps
  <2> HIDE DEF fact
  <2>3. x = <<"learn", 0>> /\ x # JobsNoRow /\ jobsWorker'.row = x /\ jobsWorker'.phase = fact
        /\ jobsWorker' \in [phase : {"off", "idle", "probe", "search", "evidence", "claim", "alias", "active"},
                            row : JobsRows \cup {JobsNoRow}, accepting : BOOLEAN]
    BY <2>1, <2>2, <1>1 DEF JobsWorkerOK, JobsHands, JobsLearning
  <2> HIDE DEF x
  <2>4. JobsHands'
    BY <2>2, <2>3 DEF JobsHands, JobsLearning
  <2>5. JobsStages' /\ ("active" \in jobsLearned' => {"evidence", "claim", "alias"} \subseteq jobsLearned') /\ jobsLearned' \subseteq JobsFinds
    BY <2>1, <2>2, <2>3, <1>1 DEF JobsWorkerOK, JobsStages, JobsFinds
  <2>6. JobsWorkerOK'
    BY <2>3, <2>4, <2>5 DEF JobsWorkerOK
  <2> QED
    BY <2>1, <2>3, <2>6, <1>1, JobsWorks DEF JobsStay
<1>9. CASE JobsClose
  <2>1. /\ jobsWorker' = [jobsWorker EXCEPT !.accepting = FALSE, !.phase = IF @ = "idle" THEN "off" ELSE @]
        /\ JobsStay /\ UNCHANGED <<jobsRow, jobsLearned>>
    BY <1>9 DEF JobsClose
  <2>2. /\ jobsWorker'.row = x /\ jobsWorker'.phase = IF jobsWorker.phase = "idle" THEN "off" ELSE jobsWorker.phase
        /\ jobsWorker' \in [phase : {"off", "idle", "probe", "search", "evidence", "claim", "alias", "active"},
                            row : JobsRows \cup {JobsNoRow}, accepting : BOOLEAN]
    BY <2>1, <1>1
  <2>3. JobsWorkerOK'
    BY <2>1, <2>2, <1>1 DEF JobsWorkerOK, JobsHands, JobsStages, JobsLearning
  <2> QED
    BY <2>1, <2>2, <2>3, <1>1, JobsWorks DEF JobsStay
<1> QED
  BY <1>5, <1>6, <1>7, <1>8, <1>9

LEMMA JobsAskedFor ==
  ASSUME JobsInductive, JobsEnqueueLearning \/ JobsAdminRetry
  PROVE  JobsInductive'
<1>1. /\ jobsRow \in JobsTable /\ jobsNow \in JobsHours /\ jobsNow \in Nat /\ JobsWorkerOK
      /\ jobsWorker.row # JobsNoRow => jobsRow[jobsWorker.row].status = "running" /\ jobsWorker.row \notin JobsInstant /\ jobsWorker.row \in JobsRows
      /\ jobsRow[<<"learn", 0>>].status = "completed" => "active" \in jobsLearned
      /\ JobsStay /\ UNCHANGED <<jobsWorker, jobsLearned>>
  BY JobsFacts DEF JobsEnqueueLearning, JobsAdminRetry
<1>2. JobsWorkerOK'
  BY <1>1 DEF JobsWorkerOK, JobsHands, JobsStages
<1>3. CASE JobsEnqueueLearning
  <2> DEFINE l == <<"learn", 0>>
             rows == [jobsRow EXCEPT ![l].status = "pending", ![l].at = jobsNow]
  <2>1. jobsRow[l].status = "absent" /\ jobsRow' = JobsScheduled(rows) /\ l \in JobsRows /\ l \notin JobsInstant
    BY <1>3, JobsKinds DEF JobsEnqueueLearning
  <2>2. rows \in JobsTable /\ rows[l].status = "pending" /\ \A x \in JobsRows : x # l => rows[x] = jobsRow[x]
    <3> HIDE DEF l
    <3>1. jobsRow[l] \in JobsRecord
      BY <1>1, <2>1 DEF JobsTable
    <3> QED
      BY <3>1, <1>1, <2>1 DEF JobsTable, JobsRecord, JobsOpen
  <2> HIDE DEF rows
  <2>3. jobsRow' \in JobsTable /\ \A x \in JobsRows : \/ jobsRow'[x] = rows[x]
                                                      \/ rows[x].status = "absent" /\ jobsRow'[x].status = "pending" /\ x \notin JobsInstant /\ x # l
    BY <2>1, <2>2, <1>1, JobsSchedules
  <2>4. \A x \in JobsInstant : jobsRow'[x] = jobsRow[x]
    BY <2>1, <2>2, <2>3, JobsKinds
  <2>5. jobsRow'[l].status = "pending"
    BY <2>1, <2>2, <2>3
  <2>6. jobsWorker'.row # JobsNoRow => jobsRow'[jobsWorker'.row].status = "running" /\ jobsWorker'.row \notin JobsInstant
    BY <2>1, <2>2, <2>3, <1>1
  <2> QED
    BY <2>3, <2>4, <2>5, <2>6, <1>1, <1>2, JobsWorks DEF JobsStay
<1>4. CASE JobsAdminRetry
  <2>1. PICK x \in JobsRows : jobsRow[x].status = "retry" /\ jobsRow' = [jobsRow EXCEPT ![x].at = jobsNow]
    BY <1>4 DEF JobsAdminRetry
  <2>2. jobsRow' \in JobsTable /\ \A y \in JobsRows : jobsRow'[y].status = jobsRow[y].status
    BY <2>1, <1>1 DEF JobsTable, JobsRecord
  <2>3. \A y \in JobsInstant : jobsRow'[y].status = jobsRow[y].status
    BY <2>2, JobsKinds
  <2>4. jobsRow'[<<"learn", 0>>].status = "completed" => "active" \in jobsLearned'
    BY <2>2, <1>1, JobsKinds
  <2>5. jobsWorker'.row # JobsNoRow => jobsRow'[jobsWorker'.row].status = "running" /\ jobsWorker'.row \notin JobsInstant
    BY <2>2, <1>1
  <2> QED
    BY <2>2, <2>3, <2>4, <2>5, <1>1, <1>2, JobsWorks DEF JobsStay
<1> QED
  BY <1>3, <1>4

(***************************************************************************)
(* The flights.                                                            *)
(***************************************************************************)
JobsOne(b) == IF b THEN 1 ELSE 0
LEMMA JobsCounts ==
  ASSUME NEW fl \in [JobsHashes -> JobsFlights], NEW h \in JobsHashes, NEW f \in JobsFlights
  PROVE  LET gl == [fl EXCEPT ![h] = f] IN
         /\ \A t \in JobsHours : /\ Cardinality(JobsQueuedAt(fl, t)) \in Nat /\ Cardinality(JobsQueuedAt(gl, t)) \in Nat
                                 /\ Cardinality(JobsQueuedAt(gl, t)) = Cardinality(JobsQueuedAt(fl, t))
                                      + JobsOne(f.phase = "queued" /\ f.at = t) - JobsOne(fl[h].phase = "queued" /\ fl[h].at = t)
         /\ Cardinality(JobsCallingIn(gl)) \in Nat /\ Cardinality(JobsCallingIn(fl)) \in Nat
         /\ Cardinality(JobsCallingIn(gl)) = Cardinality(JobsCallingIn(fl))
              + JobsOne(f.phase = "calling") - JobsOne(fl[h].phase = "calling")
<1> DEFINE gl == [fl EXCEPT ![h] = f]
<1>1. \A k \in JobsHashes : gl[k] = IF k = h THEN f ELSE fl[k]
  OBVIOUS
<1> HIDE DEF gl
<1>2. ASSUME NEW t \in JobsHours
      PROVE  /\ Cardinality(JobsQueuedAt(fl, t)) \in Nat /\ Cardinality(JobsQueuedAt(gl, t)) \in Nat
             /\ Cardinality(JobsQueuedAt(gl, t)) = Cardinality(JobsQueuedAt(fl, t))
                  + JobsOne(f.phase = "queued" /\ f.at = t) - JobsOne(fl[h].phase = "queued" /\ fl[h].at = t)
  <2> DEFINE S == JobsQueuedAt(gl, t)
             T == JobsQueuedAt(fl, t)
  <2>1. /\ S \in SUBSET JobsHashes /\ T \in SUBSET JobsHashes
        /\ h \in S <=> f.phase = "queued" /\ f.at = t
        /\ h \in T <=> fl[h].phase = "queued" /\ fl[h].at = t
        /\ \A x : x # h => (x \in S <=> x \in T)
    BY <1>1 DEF JobsQueuedAt
  <2> HIDE DEF S, T
  <2>2. /\ Cardinality(S) \in Nat /\ Cardinality(T) \in Nat
        /\ (h \in S <=> h \in T) => Cardinality(S) = Cardinality(T)
        /\ h \in S /\ h \notin T => Cardinality(S) = Cardinality(T) + 1
        /\ h \notin S /\ h \in T => Cardinality(S) = Cardinality(T) - 1
    BY <2>1, JobsDiffers
  <2>3. Cardinality(S) = Cardinality(T) + JobsOne(h \in S) - JobsOne(h \in T)
    BY <2>2 DEF JobsOne
  <2>4. JobsOne(h \in S) = JobsOne(f.phase = "queued" /\ f.at = t) /\ JobsOne(h \in T) = JobsOne(fl[h].phase = "queued" /\ fl[h].at = t)
    BY <2>1 DEF JobsOne
  <2> QED
    BY <2>2, <2>3, <2>4 DEF S, T
<1>3. /\ Cardinality(JobsCallingIn(gl)) \in Nat /\ Cardinality(JobsCallingIn(fl)) \in Nat
      /\ Cardinality(JobsCallingIn(gl)) = Cardinality(JobsCallingIn(fl))
           + JobsOne(f.phase = "calling") - JobsOne(fl[h].phase = "calling")
  <2> DEFINE S == JobsCallingIn(gl)
             T == JobsCallingIn(fl)
  <2>1. /\ S \in SUBSET JobsHashes /\ T \in SUBSET JobsHashes
        /\ h \in S <=> f.phase = "calling"
        /\ h \in T <=> fl[h].phase = "calling"
        /\ \A x : x # h => (x \in S <=> x \in T)
    BY <1>1 DEF JobsCallingIn
  <2> HIDE DEF S, T
  <2>2. /\ Cardinality(S) \in Nat /\ Cardinality(T) \in Nat
        /\ (h \in S <=> h \in T) => Cardinality(S) = Cardinality(T)
        /\ h \in S /\ h \notin T => Cardinality(S) = Cardinality(T) + 1
        /\ h \notin S /\ h \in T => Cardinality(S) = Cardinality(T) - 1
    BY <2>1, JobsDiffers
  <2>3. Cardinality(S) = Cardinality(T) + JobsOne(h \in S) - JobsOne(h \in T)
    BY <2>2 DEF JobsOne
  <2>4. JobsOne(h \in S) = JobsOne(f.phase = "calling") /\ JobsOne(h \in T) = JobsOne(fl[h].phase = "calling")
    BY <2>1 DEF JobsOne
  <2> QED
    BY <2>2, <2>3, <2>4 DEF S, T
<1> QED
  BY <1>2, <1>3 DEF gl

\* A step of one flight, with what it owes the quota: calls are started for queued reservations,
\* and a reservation more is made only under the limit.
LEMMA JobsQuotaStep ==
  ASSUME JobsInductive, NEW h \in JobsHashes, NEW f \in JobsFlights, jobsFlight' = [jobsFlight EXCEPT ![h] = f],
         jobsUsage' \in JobsUsages, jobsCalls' \in [JobsHours -> Nat],
         \A t \in JobsHours :
           /\ jobsUsage'[t] <= JobsHourLimit
           /\ jobsCalls'[t] + JobsOne(f.phase = "queued" /\ f.at = t) - jobsUsage'[t]
                <= jobsCalls[t] + JobsOne(jobsFlight[h].phase = "queued" /\ jobsFlight[h].at = t) - jobsUsage[t],
         f.phase = "calling" => jobsFlight[h].phase = "calling" \/ Cardinality(JobsCalling) < JobsGate
  PROVE  JobsQuotaKept'
<1>1. jobsFlight \in [JobsHashes -> JobsFlights] /\ jobsUsage \in JobsUsages /\ jobsCalls \in [JobsHours -> Nat] /\ JobsQuotaKept
  BY JobsParts DEF JobsAirOK
<1> DEFINE Q(fl, t) == Cardinality(JobsQueuedAt(fl, t))
           C(fl) == Cardinality(JobsCallingIn(fl))
<1>2. /\ \A t \in JobsHours : /\ Q(jobsFlight, t) \in Nat /\ Q(jobsFlight', t) \in Nat
                              /\ Q(jobsFlight', t) = Q(jobsFlight, t)
                                   + JobsOne(f.phase = "queued" /\ f.at = t) - JobsOne(jobsFlight[h].phase = "queued" /\ jobsFlight[h].at = t)
      /\ C(jobsFlight') \in Nat /\ C(jobsFlight) \in Nat
      /\ C(jobsFlight') = C(jobsFlight) + JobsOne(f.phase = "calling") - JobsOne(jobsFlight[h].phase = "calling")
  BY <1>1, JobsCounts
<1>3. (\A t \in JobsHours : jobsCalls[t] + Q(jobsFlight, t) <= jobsUsage[t]) /\ C(jobsFlight) <= JobsGate
  BY <1>1, JobsQuotaIs
<1>4. Cardinality(JobsCalling) = C(jobsFlight)
  BY DEF JobsCalling, JobsCallingIn
<1> HIDE DEF Q, C
<1>5. ASSUME NEW t \in JobsHours PROVE jobsCalls'[t] + Q(jobsFlight', t) <= jobsUsage'[t]
  <2> DEFINE a == JobsOne(f.phase = "queued" /\ f.at = t)
             b == JobsOne(jobsFlight[h].phase = "queued" /\ jobsFlight[h].at = t)
  <2>1. a \in Nat /\ b \in Nat
    BY DEF JobsOne
  <2>2. jobsCalls'[t] + a - jobsUsage'[t] <= jobsCalls[t] + b - jobsUsage[t] /\ Q(jobsFlight', t) = Q(jobsFlight, t) + a - b
    BY <1>2
  <2> HIDE DEF a, b
  <2>3. /\ jobsCalls'[t] \in Nat /\ jobsUsage'[t] \in Nat /\ jobsCalls[t] \in Nat /\ jobsUsage[t] \in Nat
        /\ Q(jobsFlight, t) \in Nat /\ jobsCalls[t] + Q(jobsFlight, t) <= jobsUsage[t]
    BY <1>1, <1>2, <1>3 DEF JobsUsages
  <2> QED
    BY <2>1, <2>2, <2>3
<1>6. C(jobsFlight') <= JobsGate
  <2>1. JobsGate \in Nat
    BY JobsConstants
  <2>2. CASE f.phase = "calling" /\ jobsFlight[h].phase = "calling"
    BY <2>1, <2>2, <1>2, <1>3 DEF JobsOne
  <2>3. CASE f.phase = "calling" /\ jobsFlight[h].phase # "calling"
    BY <2>1, <2>3, <1>2, <1>4 DEF JobsOne
  <2>4. CASE f.phase # "calling"
    BY <2>1, <2>4, <1>2, <1>3 DEF JobsOne
  <2> QED
    BY <2>2, <2>3, <2>4
<1> QED
  BY <1>5, <1>6, JobsQuotaWillBe DEF Q, C

\* What a flight may do to the row of its hash and to itself.
LEMMA JobsFlies ==
  ASSUME JobsInductive, NEW h \in JobsHashes, NEW x \in JobsInstant, x[1] = h,
         NEW r \in JobsRecord, r.status \in {"running", "completed"}, NEW f \in JobsFlights,
         jobsRow' = [jobsRow EXCEPT ![x] = r], jobsFlight' = [jobsFlight EXCEPT ![h] = f],
         JobsBusy(f) => f.row = x /\ f.todo # <<>> /\ r.status = "running",
         r.status = "running" => jobsRow[x].status \in JobsOpen \/ \A y \in JobsInstant : y[1] = h => jobsRow[y].status \notin JobsOpen,
         jobsReply' \in [JobsRequests -> JobsResults], jobsUsage' \in JobsUsages, jobsCalls' \in [JobsHours -> Nat],
         jobsCache' \in JobsCaches, JobsAloof, JobsQuotaKept'
  PROVE  JobsInductive'
<1>1. JobsTableOK /\ JobsWorkerOK /\ JobsAirOK /\ jobsRow \in JobsTable
  BY JobsParts DEF JobsTableOK, JobsTable
<1>2. UNCHANGED <<jobsNow, jobsWorker, jobsLearned>> /\ x \in JobsRows /\ x # <<"learn", 0>>
  BY JobsKinds DEF JobsAloof
<1>3. JobsWorkerOK'
  BY <1>1, <1>2 DEF JobsWorkerOK, JobsHands, JobsStages
<1>4. jobsFlight' \in [JobsHashes -> JobsFlights] /\ \A k \in JobsHashes : jobsFlight'[k] = IF k = h THEN f ELSE jobsFlight[k]
  BY <1>1 DEF JobsAirOK
<1>5. JobsAir'
  BY <1>1, <1>4 DEF JobsAir, JobsAirOK
<1>6. JobsAirOK'
  BY <1>1, <1>2, <1>4, <1>5 DEF JobsAirOK
<1>7. jobsRow' \in JobsTable /\ \A y \in JobsRows : jobsRow'[y] = IF y = x THEN r ELSE jobsRow[y]
  BY <1>1, <1>2 DEF JobsTable
<1>8. \A k \in JobsHashes : JobsBusy(jobsFlight'[k]) =>
        jobsFlight'[k].row[1] = k /\ jobsRow'[jobsFlight'[k].row].status = "running"
  <2> SUFFICES ASSUME NEW k \in JobsHashes, JobsBusy(jobsFlight'[k])
               PROVE  jobsFlight'[k].row[1] = k /\ jobsRow'[jobsFlight'[k].row].status = "running"
    OBVIOUS
  <2>1. CASE k = h
    BY <2>1, <1>2, <1>4, <1>7
  <2>2. CASE k # h
    <3>1. jobsFlight'[k] = jobsFlight[k] /\ JobsBusy(jobsFlight[k])
      BY <2>2, <1>4
    <3>2. jobsFlight[k].row \in JobsInstant /\ jobsFlight[k].row[1] = k /\ jobsRow[jobsFlight[k].row].status = "running"
      BY <3>1, <1>1 DEF JobsAirOK, JobsAir, JobsTableOK, JobsOneOwner, JobsBusy
    <3>3. jobsFlight[k].row \in JobsRows /\ jobsFlight[k].row # x
      BY <3>2, <2>2, JobsKinds
    <3> QED
      BY <3>1, <3>2, <3>3, <1>7
  <2> QED
    BY <2>1, <2>2
<1>9. jobsWorker'.row # JobsNoRow => jobsRow'[jobsWorker'.row].status = "running" /\ jobsWorker'.row \notin JobsInstant
  BY <1>2, <1>7, JobsFacts
<1>10. \A z \in JobsInstant : jobsRow'[z].status \in JobsOpen =>
         jobsRow[z].status \in JobsOpen \/ \A y \in JobsInstant : y[1] = z[1] /\ y # z => jobsRow'[y].status \notin JobsOpen
  BY <1>7, JobsKinds DEF JobsOpen
<1>11. jobsRow'[<<"learn", 0>>].status = "completed" => "active" \in jobsLearned'
  BY <1>2, <1>7, JobsFacts, JobsKinds
<1>12. JobsTableOK'
  BY <1>1, <1>7, <1>8, <1>9, <1>10, <1>11, JobsTableKept
<1> QED
  BY <1>3, <1>6, <1>12, JobsPartsNext

LEMMA JobsTells ==
  ASSUME jobsReply \in [JobsRequests -> JobsResults], NEW h, NEW good, NEW bad \in JobsResults, JobsTell(h, good, bad)
  PROVE  jobsReply' \in [JobsRequests -> JobsResults]
BY DEF JobsTell, JobsResults

LEMMA JobsIdle == JobsIdleFlight \in JobsFlights /\ JobsIdleFlight.phase = "none"
BY JobsConstants DEF JobsIdleFlight, JobsFlights, JobsHours

LEMMA JobsAirFacts ==
  ASSUME JobsInductive
  PROVE  /\ jobsFlight \in [JobsHashes -> JobsFlights] /\ jobsReply \in [JobsRequests -> JobsResults]
         /\ jobsUsage \in JobsUsages /\ jobsCalls \in [JobsHours -> Nat] /\ jobsCache \in JobsCaches
         /\ JobsAir /\ JobsQuotaKept
         /\ \A h \in JobsHashes : JobsBusy(jobsFlight[h]) =>
              /\ jobsFlight[h].row \in JobsInstant /\ jobsFlight[h].row[1] = h /\ jobsFlight[h].todo # <<>>
              /\ jobsRow[jobsFlight[h].row].status = "running" /\ jobsRow[jobsFlight[h].row] \in JobsRecord
BY JobsParts, JobsKinds DEF JobsAirOK, JobsAir, JobsTableOK, JobsOneOwner, JobsBusy

LEMMA JobsFinishes ==
  ASSUME JobsInductive, NEW h \in JobsHashes, NEW x \in JobsInstant, x[1] = h, NEW r \in JobsRecord,
         JobsFinish(h, x, r, jobsRow), JobsAloof, jobsUsage' \in JobsUsages, jobsCalls' = jobsCalls,
         \A t \in JobsHours :
           /\ jobsUsage'[t] <= JobsHourLimit
           /\ jobsCalls[t] - jobsUsage'[t]
                <= jobsCalls[t] + JobsOne(jobsFlight[h].phase = "queued" /\ jobsFlight[h].at = t) - jobsUsage[t]
  PROVE  JobsInductive'
<1> DEFINE done == [r EXCEPT !.status = "completed", !.at = jobsNow]
<1>1. done \in JobsRecord /\ done.status = "completed"
  <2>1. done \in JobsRecord
    BY JobsPutBack, JobsFacts
  <2> QED
    BY <2>1 DEF JobsRecord
<1>2. jobsRow' = [jobsRow EXCEPT ![x] = done] /\ jobsFlight' = [jobsFlight EXCEPT ![h] = JobsIdleFlight]
  BY DEF JobsFinish
<1>3. jobsReply' \in [JobsRequests -> JobsResults]
  BY JobsAirFacts, JobsTells DEF JobsFinish, JobsResults
<1>4. jobsCache' \in JobsCaches
  BY JobsAirFacts, JobsFacts DEF JobsFinish, JobsCaches
<1> HIDE DEF done
<1>5. jobsCalls' \in [JobsHours -> Nat]
  BY JobsAirFacts
<1>6. \A t \in JobsHours :
         /\ jobsUsage'[t] <= JobsHourLimit
         /\ jobsCalls'[t] + JobsOne(JobsIdleFlight.phase = "queued" /\ JobsIdleFlight.at = t) - jobsUsage'[t]
              <= jobsCalls[t] + JobsOne(jobsFlight[h].phase = "queued" /\ jobsFlight[h].at = t) - jobsUsage[t]
  <2> TAKE t \in JobsHours
  <2>1. JobsOne(JobsIdleFlight.phase = "queued" /\ JobsIdleFlight.at = t) = 0
    BY JobsIdle DEF JobsOne
  <2>2. jobsCalls[t] \in Nat /\ jobsCalls'[t] = jobsCalls[t] /\ jobsUsage[t] \in Nat /\ jobsUsage'[t] \in Nat
    BY JobsAirFacts DEF JobsUsages
  <2>3. JobsOne(jobsFlight[h].phase = "queued" /\ jobsFlight[h].at = t) \in Nat
    BY DEF JobsOne
  <2>4. jobsUsage'[t] <= JobsHourLimit
        /\ jobsCalls[t] - jobsUsage'[t]
              <= jobsCalls[t] + JobsOne(jobsFlight[h].phase = "queued" /\ jobsFlight[h].at = t) - jobsUsage[t]
    OBVIOUS
  <2> QED
    BY <2>1, <2>2, <2>3, <2>4
<1>7. JobsQuotaKept'
  BY <1>2, <1>5, <1>6, JobsIdle, JobsQuotaStep
<1> QED
  BY <1>1, <1>2, <1>3, <1>4, <1>5, <1>7, JobsIdle, JobsFlies DEF JobsBusy

LEMMA JobsContinues ==
  ASSUME JobsInductive, NEW h \in JobsHashes, NEW x \in JobsInstant, x[1] = h, NEW r \in JobsRecord, r.status = "running",
         jobsFlight[h].phase \in {"created", "calling"}, NEW todo \in Seq(JobsLegs),
         jobsRow[x].status \in JobsOpen \/ \A y \in JobsInstant : y[1] = h => jobsRow[y].status \notin JobsOpen,
         JobsContinue(h, x, r, jobsRow, todo, jobsUsage), JobsAloof, UNCHANGED jobsCalls
  PROVE  JobsInductive'
<1>1. jobsUsage \in JobsUsages /\ jobsCalls \in [JobsHours -> Nat] /\ jobsNow \in JobsHours
      /\ \A t \in JobsHours : jobsUsage[t] <= JobsHourLimit /\ jobsUsage[t] \in Nat /\ jobsCalls[t] \in Nat
  BY JobsAirFacts, JobsFacts, JobsQuotaIs DEF JobsUsages
<1>2. \A t \in JobsHours : JobsOne(jobsFlight[h].phase = "queued" /\ jobsFlight[h].at = t) = 0
  BY DEF JobsOne
<1>3. CASE todo = <<>> \/ jobsUsage[jobsNow] >= JobsHourLimit
  <2>1. JobsFinish(h, x, r, jobsRow) /\ jobsUsage' = jobsUsage
    BY <1>3 DEF JobsContinue
  <2>2. \A t \in JobsHours :
           /\ jobsUsage'[t] <= JobsHourLimit
           /\ jobsCalls[t] - jobsUsage'[t]
                <= jobsCalls[t] + JobsOne(jobsFlight[h].phase = "queued" /\ jobsFlight[h].at = t) - jobsUsage[t]
    BY <2>1, <1>1, <1>2
  <2> QED
    BY <2>1, <2>2, <1>1, JobsFinishes
<1>4. CASE todo # <<>> /\ ~(jobsUsage[jobsNow] >= JobsHourLimit)
  <2> DEFINE f == [phase |-> "queued", row |-> x, todo |-> todo, at |-> jobsNow]
  <2>1. /\ jobsRow' = [jobsRow EXCEPT ![x] = r] /\ jobsUsage' = [jobsUsage EXCEPT ![jobsNow] = @ + 1]
        /\ jobsFlight' = [jobsFlight EXCEPT ![h] = f] /\ UNCHANGED <<jobsCache, jobsReply>>
    BY <1>4 DEF JobsContinue
  <2>2. f \in JobsFlights /\ f.phase = "queued" /\ f.at = jobsNow /\ f.row = x /\ f.todo = todo
    BY <1>1 DEF JobsFlights
  <2> HIDE DEF f
  <2>3. jobsUsage' \in JobsUsages /\ \A t \in JobsHours : jobsUsage'[t] = IF t = jobsNow THEN jobsUsage[t] + 1 ELSE jobsUsage[t]
    BY <2>1, <1>1 DEF JobsUsages
  <2>4. JobsHourLimit \in Nat
    BY JobsConstants
  <2>5. \A t \in JobsHours :
         /\ jobsUsage'[t] <= JobsHourLimit
         /\ jobsCalls'[t] + JobsOne(f.phase = "queued" /\ f.at = t) - jobsUsage'[t]
              <= jobsCalls[t] + JobsOne(jobsFlight[h].phase = "queued" /\ jobsFlight[h].at = t) - jobsUsage[t]
    <3> TAKE t \in JobsHours
    <3>1. CASE t = jobsNow
      <4>1. JobsOne(f.phase = "queued" /\ f.at = t) = 1
        BY <2>2, <3>1 DEF JobsOne
      <4> QED
        BY <4>1, <3>1, <2>3, <2>4, <1>1, <1>2, <1>4
    <3>2. CASE t # jobsNow
      <4>1. JobsOne(f.phase = "queued" /\ f.at = t) = 0
        BY <2>2, <3>2 DEF JobsOne
      <4> QED
        BY <4>1, <3>2, <2>3, <1>1, <1>2
    <3> QED
      BY <3>1, <3>2
  <2>6. JobsQuotaKept'
    <3>1. jobsUsage' \in JobsUsages /\ jobsCalls' \in [JobsHours -> Nat]
      BY <2>3, <1>1
    <3>2. f.phase # "calling"
      BY <2>2
    <3>3. jobsFlight' = [jobsFlight EXCEPT ![h] = f] /\ f \in JobsFlights
      BY <2>1, <2>2
    <3> QED
      BY <3>1, <3>2, <3>3, <2>5, JobsQuotaStep
  <2>7. jobsReply' \in [JobsRequests -> JobsResults] /\ jobsCache' \in JobsCaches /\ jobsCalls' \in [JobsHours -> Nat]
    BY <2>1, <1>1, JobsAirFacts
  <2> QED
    BY <2>1, <2>2, <2>3, <2>6, <2>7, <1>4, JobsFlies DEF JobsBusy
<1> QED
  BY <1>3, <1>4

\* A step that touches no row: what a flight in use waits for stays.
LEMMA JobsTouchesNoRow ==
  ASSUME JobsInductive, JobsAloof, UNCHANGED jobsRow, jobsFlight' \in [JobsHashes -> JobsFlights],
         \A h \in JobsHashes : JobsBusy(jobsFlight'[h]) =>
           JobsBusy(jobsFlight[h]) /\ jobsFlight'[h].row = jobsFlight[h].row /\ jobsFlight'[h].todo = jobsFlight[h].todo,
         jobsReply' \in [JobsRequests -> JobsResults], jobsUsage' \in JobsUsages, jobsCalls' \in [JobsHours -> Nat],
         jobsCache' \in JobsCaches, JobsQuotaKept'
  PROVE  JobsInductive'
<1>1. UNCHANGED <<jobsNow, jobsWorker, jobsLearned>> /\ JobsTableOK /\ JobsWorkerOK /\ JobsAirOK
  BY JobsParts DEF JobsAloof
<1>2. JobsWorkerOK'
  BY <1>1 DEF JobsWorkerOK, JobsHands, JobsStages
<1>3. JobsAirOK'
  BY <1>1, JobsAirFacts DEF JobsAirOK, JobsAir
<1>4. JobsTableOK'
  BY <1>1 DEF JobsTableOK, JobsOneOwner, JobsBusy
<1> QED
  BY <1>2, <1>3, <1>4, JobsPartsNext

LEMMA JobsCallsIt ==
  ASSUME JobsInductive, NEW h \in JobsHashes, JobsCall(h)
  PROVE  JobsInductive'
<1> DEFINE a == jobsFlight[h].at
           f == [jobsFlight[h] EXCEPT !.phase = "calling"]
<1>1. /\ jobsFlight[h].phase = "queued" /\ Cardinality(JobsCalling) < JobsGate
      /\ jobsFlight' = [jobsFlight EXCEPT ![h] = f]
      /\ jobsCalls' = [jobsCalls EXCEPT ![a] = @ + 1]
      /\ JobsAloof /\ UNCHANGED <<jobsRow, jobsReply, jobsUsage, jobsCache>>
  BY DEF JobsCall
<1>2. jobsFlight[h] \in JobsFlights /\ jobsFlight \in [JobsHashes -> JobsFlights] /\ jobsCalls \in [JobsHours -> Nat] /\ jobsUsage \in JobsUsages
      /\ \A t \in JobsHours : jobsUsage[t] <= JobsHourLimit /\ jobsUsage[t] \in Nat
  BY JobsAirFacts, JobsQuotaIs DEF JobsUsages
<1>3. f \in JobsFlights /\ f.phase = "calling" /\ f.row = jobsFlight[h].row /\ f.todo = jobsFlight[h].todo /\ a \in JobsHours
  BY <1>2 DEF JobsFlights
<1> HIDE DEF f
<1>4. jobsCalls' \in [JobsHours -> Nat] /\ \A t \in JobsHours : jobsCalls'[t] = IF t = a THEN jobsCalls[t] + 1 ELSE jobsCalls[t]
  BY <1>1, <1>2, <1>3
<1>5. \A t \in JobsHours :
         /\ jobsUsage'[t] <= JobsHourLimit
         /\ jobsCalls'[t] + JobsOne(f.phase = "queued" /\ f.at = t) - jobsUsage'[t]
              <= jobsCalls[t] + JobsOne(jobsFlight[h].phase = "queued" /\ jobsFlight[h].at = t) - jobsUsage[t]
  <2> TAKE t \in JobsHours
  <2>1. JobsOne(f.phase = "queued" /\ f.at = t) = 0 /\ jobsCalls[t] \in Nat /\ jobsUsage'[t] = jobsUsage[t]
    BY <1>1, <1>2, <1>3 DEF JobsOne
  <2>2. JobsOne(jobsFlight[h].phase = "queued" /\ jobsFlight[h].at = t) = IF t = a THEN 1 ELSE 0
    BY <1>1 DEF JobsOne
  <2> HIDE DEF a
  <2> QED
    BY <2>1, <2>2, <1>2, <1>4
<1>6. JobsQuotaKept'
  BY <1>1, <1>2, <1>3, <1>4, <1>5, JobsQuotaStep
<1>7. \A k \in JobsHashes : JobsBusy(jobsFlight'[k]) =>
        JobsBusy(jobsFlight[k]) /\ jobsFlight'[k].row = jobsFlight[k].row /\ jobsFlight'[k].todo = jobsFlight[k].todo
  BY <1>1, <1>2, <1>3 DEF JobsBusy
<1>8. jobsFlight' \in [JobsHashes -> JobsFlights]
  BY <1>1, <1>2, <1>3
<1> QED
  BY <1>1, <1>2, <1>4, <1>6, <1>7, <1>8, JobsAirFacts, JobsTouchesNoRow

LEMMA JobsGivesUp ==
  ASSUME JobsInductive, NEW h \in JobsHashes, JobsGiveUp(h)
  PROVE  JobsInductive'
<1> DEFINE a == jobsFlight[h].at
           x == jobsFlight[h].row
<1>1. /\ jobsFlight[h].phase = "queued" /\ JobsFinish(h, x, jobsRow[x], jobsRow)
      /\ jobsUsage' = [jobsUsage EXCEPT ![a] = @ - 1] /\ JobsAloof /\ UNCHANGED jobsCalls
  BY DEF JobsGiveUp
<1>2. /\ jobsFlight[h] \in JobsFlights /\ jobsFlight \in [JobsHashes -> JobsFlights] /\ jobsCalls \in [JobsHours -> Nat]
      /\ jobsUsage \in [JobsHours -> Nat] /\ x \in JobsInstant /\ x[1] = h /\ jobsRow[x] \in JobsRecord
      /\ \A t \in JobsHours : jobsUsage[t] <= JobsHourLimit /\ jobsCalls[t] + Cardinality(JobsQueuedAt(jobsFlight, t)) <= jobsUsage[t]
  BY <1>1, JobsAirFacts, JobsQuotaIs DEF JobsUsages, JobsBusy
<1>3. a \in JobsHours
  BY <1>2 DEF JobsFlights
<1>4. Cardinality(JobsQueuedAt(jobsFlight, a)) >= 1
  <2> DEFINE S == JobsQueuedAt(jobsFlight, a)
  <2>1. S \in SUBSET JobsHashes /\ h \in S
    BY <1>1 DEF JobsQueuedAt
  <2> HIDE DEF S
  <2>2. S \ {h} \in SUBSET JobsHashes /\ h \notin S \ {h} /\ \A y : y # h => (y \in S <=> y \in S \ {h})
    BY <2>1
  <2>3. Cardinality(S) = Cardinality(S \ {h}) + 1 /\ Cardinality(S \ {h}) \in Nat
    BY <2>1, <2>2, JobsDiffers
  <2> QED
    BY <2>3 DEF S
<1>5. jobsUsage[a] >= 1
  <2>1. Cardinality(JobsQueuedAt(jobsFlight, a)) \in Nat
    BY <1>2, <1>3, JobsIdle, JobsCounts
  <2> QED
    BY <2>1, <1>2, <1>3, <1>4
<1> HIDE DEF x
<1>6. jobsUsage' \in JobsUsages /\ \A t \in JobsHours : jobsUsage'[t] = IF t = a THEN jobsUsage[t] - 1 ELSE jobsUsage[t]
  BY <1>1, <1>2, <1>3, <1>5 DEF JobsUsages
<1>7. \A t \in JobsHours :
           /\ jobsUsage'[t] <= JobsHourLimit
           /\ jobsCalls[t] - jobsUsage'[t]
                <= jobsCalls[t] + JobsOne(jobsFlight[h].phase = "queued" /\ jobsFlight[h].at = t) - jobsUsage[t]
  <2> TAKE t \in JobsHours
  <2>1. JobsOne(jobsFlight[h].phase = "queued" /\ jobsFlight[h].at = t) = IF t = a THEN 1 ELSE 0
    BY <1>1 DEF JobsOne
  <2> HIDE DEF a
  <2>2. JobsHourLimit \in Nat /\ jobsUsage[t] \in Nat /\ jobsCalls[t] \in Nat
    BY <1>2, JobsConstants
  <2> QED
    BY <2>1, <2>2, <1>2, <1>6
<1> QED
  BY <1>1, <1>2, <1>6, <1>7, JobsFinishes

LEMMA JobsAnswers ==
  ASSUME JobsInductive, NEW h \in JobsHashes, JobsAnswer(h)
  PROVE  JobsInductive'
<1> DEFINE f == jobsFlight[h]
           x == f.row
           r == jobsRow[x]
<1>1. /\ f.phase = "calling" /\ x \in JobsInstant /\ x[1] = h /\ r \in JobsRecord /\ r.status = "running" /\ f.todo # <<>>
      /\ JobsAloof /\ UNCHANGED jobsCalls /\ f \in JobsFlights
  BY JobsAirFacts DEF JobsAnswer, JobsBusy
<1>2. f.todo \in Seq(JobsLegs) /\ Head(f.todo) \in JobsLegs /\ Tail(f.todo) \in Seq(JobsLegs)
  BY <1>1 DEF JobsFlights
<1>3. CASE JobsFinish(h, x, r, jobsRow) /\ UNCHANGED jobsUsage
  <2>1. jobsUsage' \in JobsUsages /\ \A t \in JobsHours :
           /\ jobsUsage'[t] <= JobsHourLimit
           /\ jobsCalls[t] - jobsUsage'[t]
                <= jobsCalls[t] + JobsOne(jobsFlight[h].phase = "queued" /\ jobsFlight[h].at = t) - jobsUsage[t]
    <3>1. \A t \in JobsHours : JobsOne(jobsFlight[h].phase = "queued" /\ jobsFlight[h].at = t) = 0
      BY <1>1 DEF JobsOne
    <3>2. jobsUsage \in JobsUsages /\ \A t \in JobsHours : jobsUsage[t] \in Nat /\ jobsCalls[t] \in Nat /\ jobsUsage[t] <= JobsHourLimit
      BY JobsAirFacts, JobsQuotaIs DEF JobsUsages
    <3> HIDE DEF f, x, r
    <3> QED
      BY <1>3, <3>1, <3>2
  <2> HIDE DEF f, x, r
  <2> QED
    BY <2>1, <1>1, <1>3, JobsFinishes
<1>4. ASSUME NEW complete \in BOOLEAN, NEW found \in BOOLEAN,
             JobsContinue(h, x, [r EXCEPT !.staged = IF complete THEN @ \cup {Head(f.todo)} ELSE @,
                                          !.evidence = @ \/ found], jobsRow, Tail(f.todo), jobsUsage)
      PROVE  JobsInductive'
  <2> DEFINE q == [r EXCEPT !.staged = IF complete THEN @ \cup {Head(f.todo)} ELSE @, !.evidence = @ \/ found]
  <2>1. q \in JobsRecord /\ q.status = "running"
    <3> HIDE DEF r, f
    <3> QED
      BY <1>1, <1>2 DEF JobsRecord
  <2>2. jobsFlight[h].phase \in {"created", "calling"} /\ jobsRow[x].status \in JobsOpen
    BY <1>1 DEF JobsOpen
  <2>3. JobsContinue(h, x, q, jobsRow, Tail(f.todo), jobsUsage)
    BY <1>4
  <2> HIDE DEF q, r, f, x
  <2> QED
    BY <2>1, <2>2, <2>3, <1>1, <1>2, JobsContinues
<1> QED
  BY <1>3, <1>4 DEF JobsAnswer

LEMMA JobsDrops ==
  ASSUME JobsInductive, NEW h \in JobsHashes, jobsFlight' = [jobsFlight EXCEPT ![h] = JobsIdleFlight],
         jobsFlight[h].phase \in {"created", "calling"},
         jobsReply' \in [JobsRequests -> JobsResults], JobsAloof, UNCHANGED <<jobsRow, jobsUsage, jobsCalls, jobsCache>>
  PROVE  JobsInductive'
<1>1. jobsFlight \in [JobsHashes -> JobsFlights] /\ jobsCalls \in [JobsHours -> Nat] /\ jobsUsage \in JobsUsages
      /\ jobsCache \in JobsCaches /\ \A t \in JobsHours : jobsUsage[t] <= JobsHourLimit /\ jobsUsage[t] \in Nat /\ jobsCalls[t] \in Nat
  BY JobsAirFacts, JobsQuotaIs DEF JobsUsages
<1>2. \A t \in JobsHours : JobsOne(jobsFlight[h].phase = "queued" /\ jobsFlight[h].at = t) = 0
                           /\ JobsOne(JobsIdleFlight.phase = "queued" /\ JobsIdleFlight.at = t) = 0
  BY JobsIdle DEF JobsOne
<1>3. \A t \in JobsHours :
         /\ jobsUsage'[t] <= JobsHourLimit
         /\ jobsCalls'[t] + JobsOne(JobsIdleFlight.phase = "queued" /\ JobsIdleFlight.at = t) - jobsUsage'[t]
              <= jobsCalls[t] + JobsOne(jobsFlight[h].phase = "queued" /\ jobsFlight[h].at = t) - jobsUsage[t]
  BY <1>1, <1>2
<1>4. JobsQuotaKept'
  BY <1>1, <1>3, JobsIdle, JobsQuotaStep
<1>5. jobsFlight' \in [JobsHashes -> JobsFlights] /\ \A k \in JobsHashes : JobsBusy(jobsFlight'[k]) =>
        JobsBusy(jobsFlight[k]) /\ jobsFlight'[k].row = jobsFlight[k].row /\ jobsFlight'[k].todo = jobsFlight[k].todo
  BY <1>1, JobsIdle DEF JobsBusy
<1> QED
  BY <1>1, <1>4, <1>5, JobsTouchesNoRow

LEMMA JobsBeginsFlight ==
  ASSUME JobsInductive, NEW h \in JobsHashes, JobsBegin(h)
  PROVE  JobsInductive'
<1>1. jobsFlight[h].phase = "created" /\ JobsAloof /\ UNCHANGED jobsCalls
  BY DEF JobsBegin
<1>2. ASSUME jobsFlight' = [jobsFlight EXCEPT ![h] = JobsIdleFlight],
             NEW good, JobsTell(h, good, "unusable"), UNCHANGED <<jobsRow, jobsUsage, jobsCache>>
      PROVE  JobsInductive'
  <2>1. jobsReply' \in [JobsRequests -> JobsResults]
    BY <1>2, JobsAirFacts, JobsTells DEF JobsResults
  <2> QED
    BY <2>1, <1>1, <1>2, JobsDrops
<1>3. ASSUME NEW x \in JobsAcquirable(h),
             JobsContinue(h, x, IF jobsRow[x].status = "absent" THEN [JobsClaimed(jobsRow[x]) EXCEPT !.at = JobsNever] ELSE JobsClaimed(jobsRow[x]),
                          jobsRow, JobsTodo(h, jobsRow[x]), jobsUsage)
      PROVE  JobsInductive'
  <2> DEFINE r == IF jobsRow[x].status = "absent" THEN [JobsClaimed(jobsRow[x]) EXCEPT !.at = JobsNever] ELSE JobsClaimed(jobsRow[x])
             todo == JobsTodo(h, jobsRow[x])
  <2>1. x \in JobsInstant /\ x[1] = h /\ (jobsRow[x].status \in JobsOpen \/ \A y \in JobsInstant : y[1] = h => jobsRow[y].status \notin JobsOpen)
    BY <1>3 DEF JobsAcquirable
  <2>2. jobsRow[x] \in JobsRecord
    BY <2>1, JobsFacts, JobsKinds DEF JobsTable
  <2>3. JobsClaimed(jobsRow[x]) \in JobsRecord /\ JobsClaimed(jobsRow[x]).status = "running"
    BY <2>2, JobsPutBack, JobsFacts
  <2>4. [JobsClaimed(jobsRow[x]) EXCEPT !.at = JobsNever] \in JobsRecord /\ [JobsClaimed(jobsRow[x]) EXCEPT !.at = JobsNever].status = "running"
    BY <2>3 DEF JobsRecord, JobsNever
  <2>5. r \in JobsRecord /\ r.status = "running"
    BY <2>3, <2>4
  <2>6. todo \in Seq(JobsLegs)
    <3>1. <<>> \in Seq(JobsLegs) /\ <<"official">> \in Seq(JobsLegs) /\ <<"discovery">> \in Seq(JobsLegs)
      BY DEF JobsLegs
    <3>2. <<>> \o <<>> \in Seq(JobsLegs) /\ <<>> \o <<"discovery">> \in Seq(JobsLegs)
          /\ <<"official">> \o <<>> \in Seq(JobsLegs) /\ <<"official">> \o <<"discovery">> \in Seq(JobsLegs)
      BY <3>1, ConcatProperties
    <3> QED
      BY <3>2 DEF JobsTodo
  <2>7. JobsContinue(h, x, r, jobsRow, todo, jobsUsage)
    BY <1>3
  <2> HIDE DEF r, todo
  <2> QED
    BY <2>1, <2>5, <2>6, <2>7, <1>1, JobsContinues
<1> QED
  BY <1>2, <1>3 DEF JobsBegin

LEMMA JobsCallers ==
  ASSUME JobsInductive, NEW q \in JobsRequests, JobsEnrich(q) \/ JobsLeave(q)
  PROVE  JobsInductive'
<1>1. jobsFlight \in [JobsHashes -> JobsFlights] /\ jobsReply \in [JobsRequests -> JobsResults]
      /\ jobsUsage \in JobsUsages /\ jobsCalls \in [JobsHours -> Nat] /\ jobsCache \in JobsCaches
      /\ JobsAloof /\ UNCHANGED <<jobsRow, jobsUsage, jobsCalls, jobsCache>>
  BY JobsAirFacts DEF JobsEnrich, JobsLeave
<1>2. jobsReply' \in [JobsRequests -> JobsResults]
  BY <1>1 DEF JobsEnrich, JobsLeave, JobsResults
<1>3. /\ jobsFlight' \in [JobsHashes -> JobsFlights]
      /\ \A h \in JobsHashes : \/ jobsFlight'[h] = jobsFlight[h]
                               \/ ~JobsBusy(jobsFlight[h]) /\ ~JobsBusy(jobsFlight'[h])
  <2>1. CASE UNCHANGED jobsFlight
    BY <2>1, <1>1
  <2>2. CASE jobsFlight' = [jobsFlight EXCEPT ![JobsHashOf[q]].phase = IF @ = "none" THEN "created" ELSE @]
    <3> DEFINE h == JobsHashOf[q]
               f == [jobsFlight[h] EXCEPT !.phase = IF @ = "none" THEN "created" ELSE @]
    <3>1. h \in JobsHashes /\ jobsFlight[h] \in JobsFlights
      BY <1>1, JobsConstants
    <3>2. jobsFlight' = [jobsFlight EXCEPT ![h] = f]
      BY <2>2
    <3>3. f \in JobsFlights /\ (f = jobsFlight[h] \/ (~JobsBusy(jobsFlight[h]) /\ ~JobsBusy(f)))
      <4>1. CASE jobsFlight[h].phase = "none"
        <5>1. f = [jobsFlight[h] EXCEPT !.phase = "created"]
          BY <4>1
        <5> HIDE DEF h, f
        <5> QED
          BY <3>1, <4>1, <5>1 DEF JobsFlights, JobsBusy
      <4>2. CASE jobsFlight[h].phase # "none"
        <5>1. f = [jobsFlight[h] EXCEPT !.phase = jobsFlight[h].phase]
          BY <4>2
        <5> HIDE DEF h, f
        <5> QED
          BY <3>1, <4>2, <5>1 DEF JobsFlights, JobsBusy
      <4> QED
        BY <4>1, <4>2
    <3> HIDE DEF h, f
    <3> QED
      BY <3>1, <3>2, <3>3, <1>1
  <2> QED
    BY <2>1, <2>2 DEF JobsEnrich, JobsLeave
<1>4. /\ JobsCallingIn(jobsFlight') = JobsCallingIn(jobsFlight)
      /\ \A t \in JobsHours : JobsQueuedAt(jobsFlight', t) = JobsQueuedAt(jobsFlight, t)
  BY <1>3 DEF JobsCallingIn, JobsQueuedAt, JobsBusy
<1>5. JobsQuotaKept'
  BY <1>1, <1>4, JobsAirFacts, JobsQuotaIs, JobsQuotaWillBe
<1> QED
  BY <1>1, <1>2, <1>3, <1>5, JobsTouchesNoRow

LEMMA JobsCrashes ==
  ASSUME JobsInductive, JobsCrash
  PROVE  JobsInductive'
<1>1. /\ jobsWorker' = [phase |-> "off", row |-> JobsNoRow, accepting |-> FALSE]
      /\ jobsFlight' = [h \in JobsHashes |-> JobsIdleFlight]
      /\ UNCHANGED <<jobsNow, jobsRow, jobsUsage, jobsCalls, jobsCache, jobsLearned>>
      /\ JobsTableOK /\ JobsWorkerOK /\ JobsAirOK
  BY JobsParts DEF JobsCrash
<1>2. JobsWorkerOK'
  BY <1>1 DEF JobsWorkerOK, JobsHands, JobsStages, JobsLearning
<1>3. jobsReply' \in [JobsRequests -> JobsResults]
  BY <1>1 DEF JobsCrash, JobsAirOK, JobsResults
<1>4. jobsFlight' \in [JobsHashes -> JobsFlights] /\ \A h \in JobsHashes : jobsFlight'[h].phase = "none"
  BY <1>1, JobsIdle
<1>5. JobsQuotaKept'
  <2>1. JobsCallingIn(jobsFlight') = {} /\ \A t \in JobsHours : JobsQueuedAt(jobsFlight', t) = {}
    BY <1>4 DEF JobsCallingIn, JobsQueuedAt
  <2>2. Cardinality({}) = 0 /\ JobsGate \in Nat
    BY FS_EmptySet, JobsConstants
  <2>3. \A t \in JobsHours : /\ jobsUsage[t] <= JobsHourLimit /\ jobsUsage[t] \in Nat /\ jobsCalls[t] \in Nat
                             /\ jobsCalls[t] + Cardinality(JobsQueuedAt(jobsFlight, t)) <= jobsUsage[t]
                             /\ Cardinality(JobsQueuedAt(jobsFlight, t)) \in Nat
    <3>1. \A t \in JobsHours : Cardinality(JobsQueuedAt(jobsFlight, t)) \in Nat
      <4> TAKE t \in JobsHours
      <4>1. JobsQueuedAt(jobsFlight, t) \in SUBSET JobsHashes
        BY DEF JobsQueuedAt
      <4> QED
        BY <4>1, JobsConstants, FS_Subset, FS_CardinalityType
    <3> QED
      BY <3>1, JobsAirFacts, JobsQuotaIs DEF JobsUsages
  <2>4. \A t \in JobsHours : jobsCalls[t] <= jobsUsage[t]
    BY <2>3
  <2>5. jobsUsage' = jobsUsage /\ jobsCalls' = jobsCalls
    BY <1>1
  <2>6. \A t \in JobsHours : jobsUsage'[t] <= JobsHourLimit
                             /\ jobsCalls'[t] + Cardinality(JobsQueuedAt(jobsFlight', t)) <= jobsUsage'[t]
    <3> TAKE t \in JobsHours
    <3>1. Cardinality(JobsQueuedAt(jobsFlight', t)) = 0
      BY <2>1, <2>2
    <3>2. jobsUsage'[t] = jobsUsage[t] /\ jobsCalls'[t] = jobsCalls[t]
      BY <2>5
    <3> HIDE <1>1, <1>4, <2>1, <2>2
    <3> QED
      BY <3>1, <3>2, <2>3, <2>4
  <2>7. Cardinality(JobsCallingIn(jobsFlight')) <= JobsGate
    BY <2>1, <2>2
  <2> QED
    BY <2>6, <2>7, JobsQuotaWillBe
<1>6. JobsAir'
  BY <1>4 DEF JobsAir, JobsBusy
<1>7. JobsAirOK'
  BY <1>1, <1>3, <1>4, <1>5, <1>6 DEF JobsAirOK
<1>8. JobsTableOK'
  BY <1>1, <1>4 DEF JobsTableOK, JobsOneOwner
<1> QED
  BY <1>2, <1>7, <1>8, JobsPartsNext

LEMMA JobsStep == JobsInductive /\ [JobsNext]_jobsVars => JobsInductive'
<1> SUFFICES ASSUME JobsInductive, [JobsNext]_jobsVars PROVE JobsInductive'
  OBVIOUS
<1>1. ASSUME UNCHANGED <<jobsRow, jobsWorker, jobsFlight, jobsReply, jobsUsage, jobsCalls, jobsCache, jobsLearned>>,
             jobsNow' \in JobsHours
      PROVE  JobsInductive'
  BY <1>1 DEF JobsInductive, JobsTypeOK, JobsHands, JobsAir, JobsStages, JobsQuotaKept, JobsOneOwner, JobsActiveIsGrounded, JobsCalling
<1>2. CASE UNCHANGED jobsVars
  BY <1>1, <1>2, JobsFacts DEF jobsVars
<1>3. CASE JobsTick
  BY <1>1, <1>3, JobsFacts, JobsConstants DEF JobsTick, JobsHours
<1>4. ASSUME NEW h \in JobsHashes, JobsBreak(h) PROVE JobsInductive'
  <2>1. jobsReply' \in [JobsRequests -> JobsResults]
    BY <1>4, JobsAirFacts, JobsTells DEF JobsBreak, JobsResults
  <2> QED
    BY <2>1, <1>4, JobsDrops DEF JobsBreak
<1> QED
  BY <1>2, <1>3, <1>4, JobsStarts, JobsClaims, JobsWorkerSteps, JobsAskedFor, JobsCrashes, JobsCallers,
     JobsBeginsFlight, JobsCallsIt, JobsGivesUp, JobsAnswers DEF JobsNext

LEMMA JobsAlways == JobsSpec => []JobsInductive
BY JobsBegins, JobsStep, PTL DEF JobsSpec

\* Every variable of the jobs keeps its type.
THEOREM JobsTypes == JobsSpec => []JobsTypeOK
<1>1. JobsInductive => JobsTypeOK
  BY DEF JobsInductive
<1> QED
  BY <1>1, JobsAlways, PTL

\* Over all orders of replies, workers, timeouts, crashes and administrators: the provider quota is
\* kept, every row awaited is its owner's, and no game is active before it is grounded.
THEOREM JobsStaySound == JobsSpec => []JobsSound
<1>1. JobsInductive => JobsSound
  BY DEF JobsInductive, JobsSound
<1> QED
  BY <1>1, JobsAlways, PTL

----------------------------------------------------------------------------
(***************************************************************************)
(* Theorems about the projections and their stream, for any journal,       *)
(* projections, readers, batches, limits and retention.                    *)
(***************************************************************************)

(***************************************************************************)
(* The inductive invariant.  What a projection applied is the journal up   *)
(* to its cursor, and it announced nothing beyond; so every row taken is   *)
(* announced anew, behind every cursor a reader may hold.                  *)
(***************************************************************************)
PrjInOrder ==
  /\ IsFiniteSet(prjEvents)
  /\ \A p \in PrjNames : prjApplied[p] = 1 .. prjCursor[p]
  /\ \A e \in prjEvents : e.effect <= prjCursor[e.name]
PrjInductive == PrjTypeOK /\ PrjInOrder /\ PrjIsReplay /\ PrjNoSilentGap

(***************************************************************************)
(* Least and greatest numbers, and places.                                 *)
(***************************************************************************)
LEMMA PrjLeast ==
  ASSUME NEW S \in SUBSET Nat, S # {}
  PROVE  Min(S) \in S /\ \A m \in S : Min(S) <= m
<1>1. PICK n \in S : \A m \in S : ~(<<m, n>> \in OpToRel(<, Nat))
  BY NatLessThanWellFounded, WFMin
<1>2. \A m \in S : ~(m < n)
  BY <1>1 DEF OpToRel
<1>3. \A m \in S : n <= m
  BY <1>2
<1> QED
  BY <1>3 DEF Min

LEMMA PrjGreatest ==
  ASSUME NEW S \in SUBSET Nat, S # {}, NEW n \in Nat, \A m \in S : m <= n
  PROVE  Max(S) \in S /\ \A m \in S : m <= Max(S)
<1> DEFINE T == {n - m : m \in S}
<1>1. \A m \in S : m \in Nat /\ m <= n
  OBVIOUS
<1>2. \A m \in S : n - m \in Nat /\ n - m \in T
  BY <1>1
<1>3. T \in SUBSET Nat
  BY <1>2
<1>4. T # {}
  <2>1. PICK m \in S : TRUE
    OBVIOUS
  <2> QED
    BY <2>1, <1>2
<1>5. Min(T) \in T /\ \A t \in T : Min(T) <= t
  <2> HIDE DEF T
  <2> QED
    BY <1>3, <1>4, PrjLeast
<1>6. PICK x \in S : Min(T) = n - x
  BY <1>5
<1>7. \A m \in S : n - x <= n - m
  BY <1>2, <1>5, <1>6
<1> HIDE DEF T
<1>8. ASSUME NEW m \in S PROVE m <= x
  <2>1. n - x <= n - m
    BY <1>7
  <2>2. m \in Nat /\ x \in Nat
    BY <1>1
  <2> QED
    BY <2>1, <2>2
<1>9. \A m \in S : x >= m
  <2> TAKE m \in S
  <2>1. m <= x /\ m \in Nat /\ x \in Nat
    BY <1>1, <1>8
  <2> QED
    BY <2>1
<1>10. Max(S) \in S /\ \A m \in S : Max(S) >= m
  BY <1>9 DEF Max
<1>11. \A m \in S : m <= Max(S)
  <2> TAKE m \in S
  <2>1. Max(S) \in Nat /\ m \in Nat /\ Max(S) >= m
    BY <1>1, <1>10
  <2> QED
    BY <2>1
<1> QED
  BY <1>10, <1>11

LEMMA PrjPlaces ==
  ASSUME NEW S, IsFiniteSet(S), S \subseteq Nat, NEW i \in Nat
  PROVE  PrjNth(S, i) \in 0 .. Cardinality(S) /\ (i \in S => PrjNth(S, i) >= 1)
<1> DEFINE U == {k \in S : k <= i}
<1>1. IsFiniteSet(U) /\ Cardinality(U) <= Cardinality(S)
  <2>1. U \in SUBSET S
    OBVIOUS
  <2> QED
    BY <2>1, FS_Subset
<1>2. Cardinality(U) \in Nat /\ Cardinality(S) \in Nat /\ (Cardinality(U) = 0 <=> U = {})
  BY <1>1, FS_CardinalityType, FS_EmptySet
<1>3. i \in S => U # {}
  OBVIOUS
<1> HIDE DEF U
<1>4. Cardinality(U) \in 0 .. Cardinality(S) /\ (i \in S => Cardinality(U) >= 1)
  BY <1>1, <1>2, <1>3
<1> QED
  BY <1>4 DEF PrjNth, U

\* What comes later in the journal changes no place of what came before.
LEMMA PrjLater ==
  ASSUME NEW c \in Nat, NEW n \in Nat, NEW S \in SUBSET (1 .. c), NEW T \in SUBSET (c + 1 .. n)
  PROVE  /\ IsFiniteSet(S) /\ IsFiniteSet(T)
         /\ Cardinality(S \cup T) = Cardinality(S) + Cardinality(T)
         /\ \A i \in S : PrjNth(S \cup T, i) = PrjNth(S, i)
         /\ \A i \in T : PrjNth(S \cup T, i) = Cardinality(S) + PrjNth(T, i)
<1>1. IsFiniteSet(S) /\ IsFiniteSet(T)
  <2>1. 1 \in Int /\ c \in Int /\ c + 1 \in Int /\ n \in Int
    OBVIOUS
  <2>2. IsFiniteSet(1 .. c) /\ IsFiniteSet(c + 1 .. n)
    BY <2>1, FS_Interval
  <2> QED
    BY <2>2, FS_Subset
<1>2. S \cap T = {}
  OBVIOUS
<1>3. \A U \in SUBSET T : Cardinality(S \cup U) = Cardinality(S) + Cardinality(U)
  <2> TAKE U \in SUBSET T
  <2>1. IsFiniteSet(U)
    BY <1>1, FS_Subset
  <2>2. S \cap U = {}
    BY <1>2
  <2>3. Cardinality(S \cup U) = Cardinality(S) + Cardinality(U) - Cardinality(S \cap U)
    BY <1>1, <2>1, FS_Union
  <2>4. Cardinality(S) \in Nat /\ Cardinality(U) \in Nat /\ Cardinality(S \cap U) = 0
    BY <1>1, <2>1, <2>2, FS_CardinalityType, FS_EmptySet
  <2> QED
    BY <2>3, <2>4
<1> HIDE <1>1, <1>3
<1>0. \A i \in S, k \in T : i < k /\ i <= k /\ ~(k <= i)
  OBVIOUS
<1>4. \A i \in S : {k \in S \cup T : k <= i} = {k \in S : k <= i}
  BY <1>0
<1>5. \A i \in T : {k \in S \cup T : k <= i} = S \cup {k \in T : k <= i}
  BY <1>0
<1>6. \A i \in S : PrjNth(S \cup T, i) = PrjNth(S, i)
  BY <1>4 DEF PrjNth
<1>7. \A i \in T : PrjNth(S \cup T, i) = Cardinality(S) + PrjNth(T, i)
  <2> TAKE i \in T
  <2>1. {k \in T : k <= i} \in SUBSET T
    OBVIOUS
  <2> QED
    BY <1>3, <1>5, <2>1 DEF PrjNth
<1> QED
  BY <1>1, <1>3, <1>6, <1>7

(***************************************************************************)
(* The journal and the projections.                                        *)
(***************************************************************************)
LEMMA PrjTakes ==
  ASSUME PrjTypeOK, PrjInOrder, NEW p \in PrjNames, PrjRows(p) # {}
  PROVE  /\ PrjTaken(p) = PrjMatches[p] \cap PrjRows(p)
         /\ Max(PrjRows(p)) \in prjCursor[p] + 1 .. prjHead
         /\ PrjRows(p) = prjCursor[p] + 1 .. Max(PrjRows(p))
         /\ PrjTaken(p) = PrjUnannounced(p)
<1>1. prjCursor[p] \in 0 .. prjHead /\ prjHead \in 0 .. PrjEffects /\ PrjEffects \in Nat /\ PrjBatch \in Nat \ {0}
  BY PrjConstants DEF PrjTypeOK
<1>2. PrjRows(p) \in SUBSET Nat /\ \A m \in PrjRows(p) : m <= prjHead
  BY <1>1 DEF PrjRows
<1>3. Max(PrjRows(p)) \in PrjRows(p) /\ \A m \in PrjRows(p) : m <= Max(PrjRows(p))
  <2>1. prjHead \in Nat
    BY <1>1
  <2> QED
    BY <1>2, <2>1, PrjGreatest
<1>4. PrjRows(p) = prjCursor[p] + 1 .. Max(PrjRows(p))
  <2> DEFINE x == Max(PrjRows(p))
  <2>1. x \in Nat /\ x \in PrjRows(p) /\ \A m \in PrjRows(p) : m <= x
    BY <1>2, <1>3
  <2> HIDE DEF x
  <2>2. PrjRows(p) = prjCursor[p] + 1 .. x
    BY <2>1, <1>1 DEF PrjRows
  <2> QED
    BY <2>2 DEF x
<1>5. prjApplied[p] = 1 .. prjCursor[p]
  BY DEF PrjInOrder
<1>6. PrjTaken(p) = PrjMatches[p] \cap PrjRows(p)
  BY <1>1, <1>5 DEF PrjTaken, PrjRows
<1>7. \A e \in prjEvents : e.name = p => e.effect <= prjCursor[p] /\ e.effect \in Nat
  BY DEF PrjInOrder, PrjTypeOK, PrjEffect
<1>8. \A i \in PrjTaken(p), e \in prjEvents : e.name = p => e.effect # i
  BY <1>1, <1>6, <1>7 DEF PrjRows
<1>9. PrjTaken(p) = PrjUnannounced(p)
  BY <1>8 DEF PrjUnannounced
<1>10. Max(PrjRows(p)) \in prjCursor[p] + 1 .. prjHead
  BY <1>3 DEF PrjRows
<1> QED
  BY <1>4, <1>6, <1>9, <1>10

PrjItemsOf(S) == {[effect |-> i, version |-> PrjNth(S, i)] : i \in PrjFinal(S)}
PrjExtended(S, T) ==
  {it \in PrjItemsOf(S) : \A k \in T : PrjKey(k) # PrjKey(it.effect)}
    \cup {[effect |-> i, version |-> Cardinality(S) + PrjNth(T, i)] : i \in PrjFinal(T)}

\* The items of a longer replay are those not superseded and the new ones.
LEMMA PrjSupersedes ==
  ASSUME NEW c \in Nat, NEW n \in Nat, NEW S \in SUBSET (1 .. c), NEW T \in SUBSET (c + 1 .. n)
  PROVE  PrjItemsOf(S \cup T) = PrjExtended(S, T)
<1>1. /\ \A i \in S : PrjNth(S \cup T, i) = PrjNth(S, i)
      /\ \A i \in T : PrjNth(S \cup T, i) = Cardinality(S) + PrjNth(T, i)
  BY PrjLater
<1> DEFINE kept == {i \in PrjFinal(S) : \A k \in T : PrjKey(k) # PrjKey(i)}
<1>2. PrjFinal(S \cup T) = kept \cup PrjFinal(T)
  <2>1. \A i \in S, k \in T : k > i /\ ~(i > k)
    OBVIOUS
  <2> QED
    BY <2>1 DEF PrjFinal
<1>3. kept \subseteq S /\ PrjFinal(T) \subseteq T
  BY DEF PrjFinal
<1>4. {it \in PrjItemsOf(S) : \A k \in T : PrjKey(k) # PrjKey(it.effect)}
        = {[effect |-> i, version |-> PrjNth(S, i)] : i \in kept}
  BY DEF PrjItemsOf
<1> HIDE DEF kept
<1>5. PrjItemsOf(S \cup T) = {[effect |-> i, version |-> PrjNth(S \cup T, i)] : i \in kept \cup PrjFinal(T)}
  BY <1>2 DEF PrjItemsOf
<1>6. {[effect |-> i, version |-> PrjNth(S \cup T, i)] : i \in kept} = {[effect |-> i, version |-> PrjNth(S, i)] : i \in kept}
  BY <1>1, <1>3
<1>7. {[effect |-> i, version |-> PrjNth(S \cup T, i)] : i \in PrjFinal(T)}
        = {[effect |-> i, version |-> Cardinality(S) + PrjNth(T, i)] : i \in PrjFinal(T)}
  BY <1>1, <1>3
<1>8. PrjItemsOf(S \cup T) = {[effect |-> i, version |-> PrjNth(S \cup T, i)] : i \in kept}
                              \cup {[effect |-> i, version |-> PrjNth(S \cup T, i)] : i \in PrjFinal(T)}
  BY <1>5
<1> QED
  BY <1>4, <1>6, <1>7, <1>8 DEF PrjExtended

(***************************************************************************)
(* The steps of the projections.                                           *)
(***************************************************************************)
PrjTold(events, last, c) == c < last /\ \A e \in events : c < e.cursor - 1
PrjCovered(r) ==
  \A p \in PrjNames : \A it \in prjItem[p] : PrjGroup[it.effect] = PrjReaders[r] =>
    \/ <<p, it.effect>> \in prjReader[r].known \cup prjReader[r].lost
    \/ \E e \in prjEvents : e.name = p /\ e.effect = it.effect /\ e.cursor > prjReader[r].cursor
PrjFollows(r) == prjReader[r].cursor # PrjFresh => PrjTold(prjEvents, prjLast, prjReader[r].cursor) \/ PrjCovered(r)

LEMMA PrjTells ==
  ASSUME NEW last \in Nat, NEW events, \A e \in events : e.cursor \in Nat, NEW c \in Int
  PROVE  c < Min({last + 1} \cup {e.cursor : e \in events}) - 1 <=> PrjTold(events, last, c)
<1> DEFINE S == {last + 1} \cup {e.cursor : e \in events}
<1>1. S \in SUBSET Nat /\ S # {}
  OBVIOUS
<1>2. Min(S) \in S /\ \A m \in S : Min(S) <= m
  BY <1>1, PrjLeast
<1>3. \A e \in events : e.cursor \in S /\ Min(S) <= e.cursor
  BY <1>2
<1>4. last + 1 \in S /\ Min(S) <= last + 1 /\ (Min(S) = last + 1 \/ \E e \in events : Min(S) = e.cursor)
  BY <1>2
<1> HIDE DEF S
<1>5. Min(S) \in Nat
  BY <1>1, <1>2
<1>6. c < Min(S) - 1 <=> PrjTold(events, last, c)
  BY <1>3, <1>4, <1>5 DEF PrjTold
<1> QED
  BY <1>6 DEF S

LEMMA PrjGapIs == PrjTypeOK => (PrjNoSilentGap <=> \A r \in DOMAIN PrjReaders : PrjFollows(r))
<1> SUFFICES ASSUME PrjTypeOK PROVE PrjNoSilentGap <=> \A r \in DOMAIN PrjReaders : PrjFollows(r)
  OBVIOUS
<1>1. prjLast \in Nat /\ \A e \in prjEvents : e.cursor \in Nat
  BY DEF PrjTypeOK
<1>2. \A r \in DOMAIN PrjReaders : prjReader[r].cursor \in Int
  BY <1>1 DEF PrjTypeOK, PrjPage, PrjFresh
<1>3. \A r \in DOMAIN PrjReaders : PrjIsTold(r) <=> PrjTold(prjEvents, prjLast, prjReader[r].cursor)
  BY <1>1, <1>2, PrjTells DEF PrjIsTold
<1>4. ASSUME NEW r \in DOMAIN PrjReaders PROVE ~ PrjMissing(r, prjReader[r].lost) <=> PrjCovered(r)
  <2>1. \A e \in prjEvents : e.cursor > prjReader[r].cursor <=> ~ (e.cursor <= prjReader[r].cursor)
    BY <1>1, <1>2
  <2> QED
    BY <2>1 DEF PrjMissing, PrjCovered
<1> QED
  BY <1>3, <1>4 DEF PrjNoSilentGap, PrjFollows

LEMMA PrjGapWillBe == PrjTypeOK' => (PrjNoSilentGap' <=> \A r \in DOMAIN PrjReaders : PrjFollows(r)')
<1> SUFFICES ASSUME PrjTypeOK' PROVE PrjNoSilentGap' <=> \A r \in DOMAIN PrjReaders : PrjFollows(r)'
  OBVIOUS
<1>1. prjLast' \in Nat /\ \A e \in prjEvents' : e.cursor \in Nat
  BY DEF PrjTypeOK
<1>2. \A r \in DOMAIN PrjReaders : prjReader'[r].cursor \in Int
  BY <1>1 DEF PrjTypeOK, PrjPage, PrjFresh
<1>3. \A r \in DOMAIN PrjReaders : PrjIsTold(r)' <=> PrjTold(prjEvents', prjLast', prjReader'[r].cursor)
  BY <1>1, <1>2, PrjTells DEF PrjIsTold
<1>4. ASSUME NEW r \in DOMAIN PrjReaders PROVE ~ PrjMissing(r, prjReader[r].lost)' <=> PrjCovered(r)'
  <2>1. \A e \in prjEvents' : e.cursor > prjReader'[r].cursor <=> ~ (e.cursor <= prjReader'[r].cursor)
    BY <1>1, <1>2
  <2> QED
    BY <2>1 DEF PrjMissing, PrjCovered
<1> QED
  BY <1>3, <1>4 DEF PrjNoSilentGap, PrjFollows

LEMMA PrjReplayIs ==
  PrjIsReplay <=> \A p \in PrjNames : prjVersion[p] = Cardinality(PrjReplayed(p)) /\ prjItem[p] = PrjItemsOf(PrjReplayed(p))
BY DEF PrjIsReplay, PrjItemsOf

LEMMA PrjReplayWillBe ==
  PrjIsReplay' <=> \A p \in PrjNames : /\ prjVersion'[p] = Cardinality(PrjMatches[p] \cap (1 .. prjCursor'[p]))
                                       /\ prjItem'[p] = PrjItemsOf(PrjMatches[p] \cap (1 .. prjCursor'[p]))
BY DEF PrjIsReplay, PrjItemsOf, PrjReplayed

LEMMA PrjStarts == PrjInit => PrjInductive
<1> SUFFICES ASSUME PrjInit PROVE PrjInductive
  OBVIOUS
<1>1. PrjTypeOK
  BY PrjConstants DEF PrjInit, PrjTypeOK, PrjPage, PrjFresh
<1>2. PrjInOrder
  BY FS_EmptySet DEF PrjInit, PrjInOrder
<1>3. \A p \in PrjNames : PrjReplayed(p) = {}
  BY DEF PrjInit, PrjReplayed
<1>4. PrjItemsOf({}) = {} /\ Cardinality({}) = 0
  BY FS_EmptySet DEF PrjItemsOf, PrjFinal
<1>5. PrjIsReplay
  BY <1>3, <1>4, PrjReplayIs DEF PrjInit
<1>6. PrjNoSilentGap
  BY DEF PrjInit, PrjNoSilentGap
<1> QED
  BY <1>1, <1>2, <1>5, <1>6 DEF PrjInductive

LEMMA PrjCommits ==
  ASSUME PrjInductive, PrjCommit
  PROVE  PrjInductive'
<1>1. PrjTypeOK'
  <2>1. prjHead \in Nat /\ prjHead' = prjHead + 1 /\ prjHead' \in 0 .. PrjEffects
    BY PrjConstants DEF PrjInductive, PrjTypeOK, PrjCommit
  <2>2. (0 .. prjHead) \subseteq (0 .. prjHead')
    BY <2>1
  <2>3. prjCursor \in [PrjNames -> 0 .. prjHead']
    BY <2>2 DEF PrjInductive, PrjTypeOK
  <2> QED
    BY <2>1, <2>3 DEF PrjInductive, PrjTypeOK, PrjPage, PrjCommit
<1>2. PrjInOrder' /\ PrjIsReplay'
  BY DEF PrjInductive, PrjInOrder, PrjIsReplay, PrjReplayed, PrjCommit
<1>3. \A r \in DOMAIN PrjReaders : PrjFollows(r)'
  BY PrjGapIs DEF PrjInductive, PrjFollows, PrjTold, PrjCovered, PrjCommit
<1> QED
  BY <1>1, <1>2, <1>3, PrjGapWillBe DEF PrjInductive

LEMMA PrjRebuildsOne ==
  ASSUME PrjInductive, NEW p \in PrjNames, PrjRebuild(p)
  PROVE  PrjInductive'
<1>1. PrjTypeOK'
  BY PrjConstants DEF PrjInductive, PrjTypeOK, PrjPage, PrjRebuild, PrjForgotten
<1>2. PrjInOrder'
  <2>1. prjEvents' \in SUBSET prjEvents
    BY DEF PrjRebuild
  <2>2. IsFiniteSet(prjEvents')
    BY <2>1, FS_Subset DEF PrjInductive, PrjInOrder
  <2> QED
    BY <2>2 DEF PrjInductive, PrjTypeOK, PrjInOrder, PrjRebuild, PrjForgotten
<1>3. PrjIsReplay'
  <2>1. \A q \in PrjNames \ {p} : prjVersion'[q] = prjVersion[q] /\ prjItem'[q] = prjItem[q] /\ prjCursor'[q] = prjCursor[q]
    BY DEF PrjInductive, PrjTypeOK, PrjRebuild
  <2>2. prjVersion'[p] = 0 /\ prjItem'[p] = {} /\ PrjMatches[p] \cap (1 .. prjCursor'[p]) = {}
    BY DEF PrjInductive, PrjTypeOK, PrjRebuild
  <2>3. PrjItemsOf({}) = {} /\ Cardinality({}) = 0
    BY FS_EmptySet DEF PrjItemsOf, PrjFinal
  <2>4. \A q \in PrjNames : prjVersion[q] = Cardinality(PrjReplayed(q)) /\ prjItem[q] = PrjItemsOf(PrjReplayed(q))
    BY PrjReplayIs DEF PrjInductive
  <2> QED
    BY <2>1, <2>2, <2>3, <2>4, PrjReplayWillBe DEF PrjReplayed
<1>4. ASSUME NEW r \in DOMAIN PrjReaders PROVE PrjFollows(r)'
  <2>1. PrjFollows(r)
    BY PrjGapIs DEF PrjInductive
  <2>2. prjReader' = prjReader /\ prjLast' = prjLast /\ prjEvents' = {e \in prjEvents : e.name # p}
    BY DEF PrjRebuild
  <2>3. PrjTold(prjEvents, prjLast, prjReader[r].cursor) => PrjTold(prjEvents', prjLast', prjReader'[r].cursor)
    BY <2>2 DEF PrjTold
  <2>4. PrjCovered(r) => PrjCovered(r)'
    BY <2>2 DEF PrjCovered, PrjRebuild, PrjInductive, PrjTypeOK
  <2> QED
    BY <2>1, <2>2, <2>3, <2>4 DEF PrjFollows
<1> QED
  BY <1>1, <1>2, <1>3, <1>4, PrjGapWillBe DEF PrjInductive

LEMMA PrjConsumes ==
  ASSUME PrjInductive, NEW p \in PrjNames, PrjConsume(p)
  PROVE  PrjInductive'
<1> DEFINE rows == PrjRows(p)
           new == PrjTaken(p)
           top == Max(rows)
           told(i) == [cursor |-> prjLast + PrjNth(new, i), name |-> p, effect |-> i, version |-> PrjVersionAt(p, i)]
<1>1. /\ new = PrjMatches[p] \cap rows /\ new = PrjUnannounced(p)
      /\ top \in prjCursor[p] + 1 .. prjHead /\ rows = prjCursor[p] + 1 .. top
  BY PrjTakes DEF PrjInductive, PrjConsume
<1>2. /\ prjCursor' = [prjCursor EXCEPT ![p] = top]
      /\ prjVersion' = [prjVersion EXCEPT ![p] = @ + Cardinality(new)]
      /\ prjApplied' = [prjApplied EXCEPT ![p] = @ \cup rows]
      /\ prjItem' = [prjItem EXCEPT ![p] = PrjUpserted(p)]
      /\ prjEvents' = prjEvents \cup {told(i) : i \in new} /\ prjLast' = prjLast + Cardinality(new)
      /\ UNCHANGED <<prjHead, prjReader, prjRebuilt>>
  BY <1>1 DEF PrjConsume
<1>3. /\ prjHead \in 0 .. PrjEffects /\ PrjEffects \in Nat /\ prjCursor[p] \in 0 .. prjHead /\ prjLast \in Nat
      /\ prjCursor \in [PrjNames -> 0 .. prjHead] /\ prjVersion \in [PrjNames -> Nat]
      /\ prjApplied \in [PrjNames -> SUBSET PrjEffect] /\ prjItem \in [PrjNames -> SUBSET [effect : PrjEffect, version : Nat]]
      /\ prjEvents \in SUBSET [cursor : 1 .. prjLast, name : PrjNames, effect : PrjEffect, version : Nat]
      /\ prjReader \in [DOMAIN PrjReaders -> PrjPage]
      /\ IsFiniteSet(prjEvents) /\ prjApplied[p] = 1 .. prjCursor[p]
  BY PrjConstants DEF PrjInductive, PrjTypeOK, PrjInOrder
<1>4. rows \subseteq PrjEffect /\ new \subseteq rows /\ new \subseteq Nat /\ new \subseteq PrjEffect
  BY <1>1, <1>3 DEF PrjEffect
<1>5. /\ IsFiniteSet(PrjReplayed(p)) /\ IsFiniteSet(new)
      /\ PrjMatches[p] \cap (1 .. top) = PrjReplayed(p) \cup new
      /\ Cardinality(PrjReplayed(p) \cup new) = Cardinality(PrjReplayed(p)) + Cardinality(new)
      /\ PrjItemsOf(PrjReplayed(p) \cup new) = PrjExtended(PrjReplayed(p), new)
  <2>1. PrjReplayed(p) \in SUBSET (1 .. prjCursor[p]) /\ new \in SUBSET (prjCursor[p] + 1 .. top) /\ prjCursor[p] \in Nat /\ top \in Nat
    BY <1>1, <1>3 DEF PrjReplayed
  <2>2. 1 .. top = (1 .. prjCursor[p]) \cup rows
    BY <1>1, <1>3
  <2>3. PrjMatches[p] \cap (1 .. top) = PrjReplayed(p) \cup new
    BY <1>1, <2>2 DEF PrjReplayed
  <2> HIDE DEF rows, new, top
  <2>4. /\ IsFiniteSet(PrjReplayed(p)) /\ IsFiniteSet(new)
        /\ Cardinality(PrjReplayed(p) \cup new) = Cardinality(PrjReplayed(p)) + Cardinality(new)
    BY <2>1, PrjLater
  <2>5. PrjItemsOf(PrjReplayed(p) \cup new) = PrjExtended(PrjReplayed(p), new)
    BY <2>1, PrjSupersedes
  <2> QED
    BY <2>3, <2>4, <2>5
<1>6. Cardinality(new) \in Nat /\ \A i \in new : PrjNth(new, i) \in 1 .. Cardinality(new)
  <2>1. Cardinality(new) \in Nat
    BY <1>5, FS_CardinalityType
  <2>2. \A i \in new : PrjNth(new, i) \in 0 .. Cardinality(new) /\ PrjNth(new, i) >= 1
    BY <1>4, <1>5, PrjPlaces
  <2> HIDE DEF new
  <2> QED
    BY <2>1, <2>2
<1>7. \A i \in new : PrjVersionAt(p, i) = prjVersion[p] + PrjNth(new, i) /\ PrjVersionAt(p, i) \in Nat
  BY <1>3, <1>6 DEF PrjVersionAt
<1>8. \A i \in new : told(i).cursor \in prjLast + 1 .. prjLast' /\ told(i) \in [cursor : 1 .. prjLast', name : PrjNames, effect : PrjEffect, version : Nat]
  <2> TAKE i \in new
  <2>1. PrjNth(new, i) \in 1 .. Cardinality(new) /\ prjLast' = prjLast + Cardinality(new) /\ i \in PrjEffect /\ PrjVersionAt(p, i) \in Nat
    BY <1>2, <1>4, <1>6, <1>7
  <2>2. prjLast + PrjNth(new, i) \in prjLast + 1 .. prjLast' /\ prjLast + PrjNth(new, i) \in 1 .. prjLast'
    BY <2>1, <1>3, <1>6
  <2> QED
    BY <2>1, <2>2
<1>9. PrjTypeOK'
  <2>1. prjEvents' \in SUBSET [cursor : 1 .. prjLast', name : PrjNames, effect : PrjEffect, version : Nat]
    <3>1. (1 .. prjLast) \subseteq (1 .. prjLast') /\ prjLast' \in Nat
      BY <1>2, <1>3, <1>6
    <3> HIDE DEF told, new
    <3> QED
      BY <3>1, <1>2, <1>3, <1>8
  <2>2. PrjUpserted(p) \subseteq [effect : PrjEffect, version : Nat]
    <3>1. PrjFinal(new) \subseteq new
      BY DEF PrjFinal
    <3> QED
      BY <3>1, <1>3, <1>4, <1>7 DEF PrjUpserted
  <2>3. prjItem' \in [PrjNames -> SUBSET [effect : PrjEffect, version : Nat]]
    BY <2>2, <1>2, <1>3
  <2>4. prjCursor' \in [PrjNames -> 0 .. prjHead'] /\ prjApplied' \in [PrjNames -> SUBSET PrjEffect]
    <3>1. top \in 0 .. prjHead
      BY <1>1, <1>3
    <3> HIDE DEF top, rows
    <3> QED
      BY <3>1, <1>2, <1>3, <1>4
  <2>5. prjVersion' \in [PrjNames -> Nat]
    <3> HIDE DEF new
    <3> QED
      BY <1>2, <1>3, <1>6
  <2>6. prjReader' \in [DOMAIN PrjReaders -> PrjPage']
    <3>1. (0 .. prjLast) \subseteq (0 .. prjLast')
      BY <1>2, <1>3, <1>6
    <3>2. PrjPage \subseteq PrjPage'
      BY <3>1 DEF PrjPage, PrjEffect
    <3> QED
      BY <3>2, <1>2, <1>3
  <2>7. prjLast' \in Nat /\ prjHead' \in 0 .. PrjEffects /\ prjRebuilt' \in 0 .. PrjRebuilds
    BY <1>2, <1>3, <1>6 DEF PrjInductive, PrjTypeOK
  <2> QED
    BY <2>1, <2>3, <2>4, <2>5, <2>6, <2>7 DEF PrjTypeOK
<1>10. PrjInOrder'
  <2>1. IsFiniteSet({told(i) : i \in new})
    <3> DEFINE f == [i \in new |-> told(i)]
               T == {told(i) : i \in new}
    <3>1. f \in Surjection(new, T)
      BY DEF Surjection
    <3> HIDE DEF f, T
    <3>2. IsFiniteSet(T)
      BY <3>1, <1>5, FS_Surjection
    <3> QED
      BY <3>2 DEF T
  <2>2. IsFiniteSet(prjEvents')
    BY <2>1, <1>2, <1>3, FS_Union
  <2>3. prjApplied'[p] = 1 .. top /\ prjCursor'[p] = top
    BY <1>1, <1>2, <1>3
  <2>4. \A q \in PrjNames \ {p} : prjApplied'[q] = prjApplied[q] /\ prjCursor'[q] = prjCursor[q]
    BY <1>2, <1>3
  <2>5. \A q \in PrjNames : prjCursor[q] <= prjCursor'[q] /\ prjCursor[q] \in Nat /\ prjCursor'[q] \in Nat
    BY <2>3, <2>4, <1>1, <1>3
  <2>6. \A e \in prjEvents : e.effect <= prjCursor'[e.name]
    <3> TAKE e \in prjEvents
    <3>1. e.name \in PrjNames /\ e.effect \in Nat /\ e.effect <= prjCursor[e.name]
      BY <1>3 DEF PrjEffect, PrjInductive, PrjInOrder
    <3> QED
      BY <3>1, <2>5
  <2>7. \A i \in new : told(i).effect <= prjCursor'[told(i).name]
    BY <2>3, <1>1, <1>3
  <2> HIDE DEF told, new, top, rows
  <2>8. \A e \in prjEvents' : e.effect <= prjCursor'[e.name]
    BY <2>6, <2>7, <1>2
  <2>9. \A q \in PrjNames : prjApplied'[q] = 1 .. prjCursor'[q]
    BY <2>3, <2>4 DEF PrjInductive, PrjInOrder
  <2> QED
    BY <2>2, <2>8, <2>9 DEF PrjInOrder
<1>11. PrjIsReplay'
  <2>1. \A q \in PrjNames : prjVersion[q] = Cardinality(PrjReplayed(q)) /\ prjItem[q] = PrjItemsOf(PrjReplayed(q))
    BY PrjReplayIs DEF PrjInductive
  <2>2. \A q \in PrjNames \ {p} : prjVersion'[q] = prjVersion[q] /\ prjItem'[q] = prjItem[q] /\ prjCursor'[q] = prjCursor[q]
    BY <1>2, <1>3
  <2>3. prjCursor'[p] = top /\ prjVersion'[p] = Cardinality(PrjReplayed(p)) + Cardinality(new) /\ prjItem'[p] = PrjUpserted(p)
    BY <1>2, <1>3, <2>1
  <2>4. {[effect |-> i, version |-> PrjVersionAt(p, i)] : i \in PrjFinal(new)}
          = {[effect |-> i, version |-> Cardinality(PrjReplayed(p)) + PrjNth(new, i)] : i \in PrjFinal(new)}
    <3>1. PrjFinal(new) \subseteq new
      BY DEF PrjFinal
    <3>2. \A i \in PrjFinal(new) : PrjVersionAt(p, i) = Cardinality(PrjReplayed(p)) + PrjNth(new, i)
      BY <3>1, <1>7, <2>1
    <3> HIDE DEF new
    <3> QED
      BY <3>2
  <2>5. PrjUpserted(p) = PrjItemsOf(PrjReplayed(p) \cup new)
    <3>1. PrjUpserted(p) = {it \in prjItem[p] : \A k \in new : PrjKey(k) # PrjKey(it.effect)}
                             \cup {[effect |-> i, version |-> PrjVersionAt(p, i)] : i \in PrjFinal(new)}
      BY DEF PrjUpserted
    <3> HIDE DEF new
    <3> QED
      BY <3>1, <2>1, <2>4, <1>5 DEF PrjExtended
  <2> HIDE DEF new, top, rows
  <2>6. prjVersion'[p] = Cardinality(PrjMatches[p] \cap (1 .. prjCursor'[p])) /\ prjItem'[p] = PrjItemsOf(PrjMatches[p] \cap (1 .. prjCursor'[p]))
    BY <2>3, <2>5, <1>5
  <2>7. \A q \in PrjNames \ {p} : /\ prjVersion'[q] = Cardinality(PrjMatches[q] \cap (1 .. prjCursor'[q]))
                                  /\ prjItem'[q] = PrjItemsOf(PrjMatches[q] \cap (1 .. prjCursor'[q]))
    BY <2>1, <2>2 DEF PrjReplayed
  <2> QED
    BY <2>6, <2>7, PrjReplayWillBe
<1>12. ASSUME NEW r \in DOMAIN PrjReaders PROVE PrjFollows(r)'
  <2>1. PrjFollows(r) /\ prjReader' = prjReader /\ (prjReader[r].cursor # PrjFresh => prjReader[r].cursor \in 0 .. prjLast)
    BY <1>2, <1>3, PrjGapIs DEF PrjInductive, PrjPage
  <2>2. \A i \in new : told(i).cursor >= prjLast + 1 /\ told(i).cursor \in Nat /\ told(i) \in prjEvents'
    BY <1>2, <1>3, <1>8
  <2>3. ASSUME prjReader[r].cursor \in 0 .. prjLast, PrjTold(prjEvents, prjLast, prjReader[r].cursor)
        PROVE  PrjTold(prjEvents', prjLast', prjReader'[r].cursor)
    <3>1. \A i \in new : prjReader[r].cursor < told(i).cursor - 1
      <4>1. prjReader[r].cursor < prjLast /\ prjReader[r].cursor \in Nat /\ prjLast \in Nat
        BY <2>3, <1>3 DEF PrjTold
      <4> TAKE i \in new
      <4>2. told(i).cursor >= prjLast + 1 /\ told(i).cursor \in Nat
        BY <2>2
      <4> HIDE DEF told
      <4> QED
        BY <4>1, <4>2
    <3>2. prjReader[r].cursor < prjLast'
      BY <2>3, <1>2, <1>3, <1>6 DEF PrjTold
    <3> HIDE DEF told, new
    <3> QED
      BY <3>1, <3>2, <2>1, <2>3, <1>2 DEF PrjTold
  <2>4. ASSUME prjReader[r].cursor \in 0 .. prjLast, PrjCovered(r) PROVE PrjCovered(r)'
    <3> SUFFICES ASSUME NEW q \in PrjNames, NEW it \in prjItem'[q], PrjGroup[it.effect] = PrjReaders[r]
                 PROVE  \/ <<q, it.effect>> \in prjReader[r].known \cup prjReader[r].lost
                        \/ \E e \in prjEvents' : e.name = q /\ e.effect = it.effect /\ e.cursor > prjReader[r].cursor
      BY <2>1 DEF PrjCovered
    <3>1. CASE it \in prjItem[q]
      <4>1. \/ <<q, it.effect>> \in prjReader[r].known \cup prjReader[r].lost
            \/ \E e \in prjEvents : e.name = q /\ e.effect = it.effect /\ e.cursor > prjReader[r].cursor
        BY <3>1, <2>4 DEF PrjCovered
      <4> QED
        BY <4>1, <1>2
    <3>2. CASE it \notin prjItem[q]
      <4>1. q = p /\ it \in PrjUpserted(p)
        BY <3>2, <1>2, <1>3
      <4>2. PICK i \in PrjFinal(new) : it = [effect |-> i, version |-> PrjVersionAt(p, i)]
        BY <4>1, <3>2 DEF PrjUpserted
      <4>3. i \in new /\ it.effect = i
        BY <4>2 DEF PrjFinal
      <4>4. told(i) \in prjEvents' /\ told(i).name = q /\ told(i).effect = it.effect /\ told(i).cursor > prjReader[r].cursor
        BY <4>1, <4>3, <2>2, <2>4, <1>3
      <4> QED
        BY <4>4
    <3> QED
      BY <3>1, <3>2
  <2> QED
    BY <2>1, <2>3, <2>4 DEF PrjFollows
<1> QED
  BY <1>9, <1>10, <1>11, <1>12, PrjGapWillBe DEF PrjInductive

(***************************************************************************)
(* The step of the stream.                                                 *)
(***************************************************************************)
LEMMA PrjNewest ==
  ASSUME PrjTypeOK
  PROVE  PrjLatest \in 0 .. prjLast /\ \A e \in prjEvents : e.cursor <= PrjLatest
<1> DEFINE S == {0} \cup {e.cursor : e \in prjEvents}
<1>1. prjLast \in Nat /\ \A e \in prjEvents : e.cursor \in 1 .. prjLast
  BY DEF PrjTypeOK
<1>2. S \in SUBSET Nat /\ S # {} /\ \A m \in S : m <= prjLast
  <2>1. \A m \in S : m = 0 \/ \E e \in prjEvents : m = e.cursor
    OBVIOUS
  <2> QED
    BY <1>1, <2>1
<1>3. Max(S) \in S /\ \A m \in S : m <= Max(S)
  <2> HIDE DEF S
  <2> QED
    BY <1>1, <1>2, PrjGreatest
<1>4. \A e \in prjEvents : e.cursor \in S
  OBVIOUS
<1>5. PrjLatest = Max(S)
  BY DEF PrjLatest
<1> HIDE DEF S
<1>6. Max(S) \in 0 .. prjLast
  <2>1. Max(S) \in Nat /\ Max(S) <= prjLast
    BY <1>2, <1>3
  <2> HIDE <1>1, <1>2, <1>3, <1>4, <1>5
  <2>2. prjLast \in Nat
    BY <1>1
  <2> QED
    BY <2>1, <2>2
<1>7. \A e \in prjEvents : e.cursor <= Max(S)
  BY <1>3, <1>4
<1> QED
  BY <1>5, <1>6, <1>7

\* Events kept are ahead of those dropped by more than one.
LEMMA PrjDropsOld ==
  ASSUME PrjTypeOK, NEW e \in prjEvents, e \notin PrjKept, NEW k \in PrjKept, NEW c \in Int, c < e.cursor
  PROVE  c < k.cursor - 1
<1>1. PrjLatest \in Nat /\ PrjRetention \in Nat
  BY PrjNewest, PrjConstants DEF PrjTypeOK
<1>2. e.cursor \in Nat /\ k.cursor \in Nat
  BY DEF PrjTypeOK, PrjKept
<1> QED
  BY <1>1, <1>2 DEF PrjKept

LEMMA PrjExpires ==
  ASSUME PrjTypeOK, NEW r \in DOMAIN PrjReaders, prjReader[r].cursor # PrjFresh, PrjKept # {},
         \A k \in PrjKept : prjReader[r].cursor < k.cursor - 1
  PROVE  PrjExpired(r)
<1> DEFINE S == {e.cursor : e \in PrjKept}
<1>1. S \in SUBSET Nat /\ S # {}
  BY DEF PrjKept, PrjTypeOK
<1>2. Min(S) \in S
  BY <1>1, PrjLeast
<1>3. \A m \in S : prjReader[r].cursor < m - 1
  OBVIOUS
<1>4. PrjExpired(r) <=> prjReader[r].cursor < Min(S) - 1
  BY DEF PrjExpired
<1> HIDE DEF S
<1> QED
  BY <1>2, <1>3, <1>4

\* What is ahead of a reader and not handed to it is ahead of all that is.
LEMMA PrjHandsFirst ==
  ASSUME PrjTypeOK, PrjInOrder, NEW r \in DOMAIN PrjReaders, PrjHanded(r) # {}
  PROVE  /\ Max({e.cursor : e \in PrjHanded(r)}) \in 1 .. prjLast
         /\ \A e \in PrjAhead(r) \ PrjHanded(r) : e.cursor > Max({k.cursor : k \in PrjHanded(r)})
<1> DEFINE S == {e.cursor : e \in PrjHanded(r)}
           before(e) == {k \in PrjAhead(r) : k.cursor < e.cursor}
<1>1. prjLast \in Nat /\ \A e \in PrjAhead(r) : e.cursor \in 1 .. prjLast
  BY DEF PrjTypeOK, PrjAhead, PrjKept
<1>2. PrjHanded(r) \subseteq PrjAhead(r) /\ PrjAhead(r) \subseteq prjEvents
  BY DEF PrjHanded, PrjAhead, PrjKept
<1>3. S \in SUBSET Nat /\ S # {} /\ \A m \in S : m <= prjLast
  BY <1>1, <1>2
<1>4. Max(S) \in S
  BY <1>1, <1>3, PrjGreatest
<1>5. PICK k \in PrjHanded(r) : Max(S) = k.cursor
  BY <1>4
<1>6. ASSUME NEW e \in PrjAhead(r) \ PrjHanded(r) PROVE e.cursor > k.cursor
  <2> SUFFICES ASSUME ~(e.cursor > k.cursor) PROVE FALSE
    OBVIOUS
  <2>1. e.cursor \in Nat /\ k.cursor \in Nat /\ e.cursor <= k.cursor /\ \A a \in PrjAhead(r) : a.cursor \in Nat
    BY <1>1, <1>2
  <2>2. before(e) \in SUBSET before(k) /\ before(k) \in SUBSET prjEvents
    BY <1>2, <2>1
  <2>3. IsFiniteSet(before(k)) /\ IsFiniteSet(before(e))
    BY <2>2, FS_Subset DEF PrjInOrder
  <2>4. Cardinality(before(e)) <= Cardinality(before(k))
    BY <2>2, <2>3, FS_Subset
  <2>5. Cardinality(before(e)) \in Nat /\ Cardinality(before(k)) \in Nat /\ PrjLimit \in Nat
    BY <2>3, FS_CardinalityType, PrjConstants
  <2>6. Cardinality(before(k)) < PrjLimit /\ ~(Cardinality(before(e)) < PrjLimit)
    BY <1>6 DEF PrjHanded
  <2> HIDE DEF before
  <2> QED
    BY <2>4, <2>5, <2>6
<1> QED
  BY <1>1, <1>2, <1>5, <1>6

LEMMA PrjReads ==
  ASSUME PrjInductive, NEW r \in DOMAIN PrjReaders, PrjRead(r)
  PROVE  PrjInductive'
<1>1. PrjTypeOK /\ PrjInOrder /\ PrjIsReplay /\ \A s \in DOMAIN PrjReaders : PrjFollows(s)
  BY PrjGapIs DEF PrjInductive
<1>2. /\ prjEvents' = PrjKept /\ PrjKept \in SUBSET prjEvents
      /\ UNCHANGED <<prjHead, prjCursor, prjVersion, prjApplied, prjItem, prjLast, prjRebuilt>>
  BY DEF PrjRead, PrjKept
<1>3. \A g : PrjShown(g) \in SUBSET (PrjNames \X PrjEffect)
  BY <1>1 DEF PrjShown, PrjTypeOK
<1>4. PrjLatest \in 0 .. prjLast /\ \A e \in prjEvents : e.cursor <= PrjLatest
  BY <1>1, PrjNewest
<1>5. prjReader[r] \in PrjPage /\ prjReader[r].cursor \in (0 .. prjLast) \cup {PrjFresh}
      /\ prjReader \in [DOMAIN PrjReaders -> PrjPage]
  BY <1>1 DEF PrjTypeOK, PrjPage
<1>6. PrjHanded(r) \subseteq PrjAhead(r) /\ PrjAhead(r) \subseteq PrjKept
  BY DEF PrjHanded, PrjAhead
<1> DEFINE snapshot == [cursor |-> PrjLatest, known |-> PrjShown(PrjReaders[r]), lost |-> {}]
           lost == IF prjReader[r].cursor = PrjFresh THEN PrjGone(PrjReaders[r]) ELSE prjReader[r].lost
           page == [cursor |-> Max({e.cursor : e \in PrjHanded(r)}),
                    known |-> prjReader[r].known \cup {<<e.name, e.effect>> : e \in PrjHanded(r)}, lost |-> lost]
<1>7. \/ PrjExpired(r) /\ prjReader' = [prjReader EXCEPT ![r] = snapshot]
      \/ ~PrjExpired(r) /\ PrjHanded(r) = {} /\ prjReader' = prjReader
      \/ ~PrjExpired(r) /\ PrjHanded(r) # {} /\ prjReader' = [prjReader EXCEPT ![r] = page]
  BY <1>5 DEF PrjRead
<1>8. snapshot \in PrjPage
  BY <1>3, <1>4 DEF PrjPage
<1>9. PrjHanded(r) # {} => page \in PrjPage
  <2>1. PrjHanded(r) # {} => page.cursor \in 0 .. prjLast
    BY <1>1, PrjHandsFirst
  <2>2. prjReader[r].known \in SUBSET (PrjNames \X PrjEffect) /\ lost \in SUBSET (PrjNames \X PrjEffect)
    BY <1>3, <1>5 DEF PrjPage, PrjGone
  <2>3. {<<e.name, e.effect>> : e \in PrjHanded(r)} \in SUBSET (PrjNames \X PrjEffect)
    BY <1>1, <1>2, <1>6 DEF PrjTypeOK
  <2> HIDE DEF lost
  <2> QED
    BY <2>1, <2>2, <2>3 DEF PrjPage
<1>10. PrjTypeOK'
  <2>1. prjReader' \in [DOMAIN PrjReaders -> PrjPage]
    <3> HIDE DEF snapshot, page
    <3> QED
      BY <1>5, <1>7, <1>8, <1>9
  <2> QED
    BY <2>1, <1>1, <1>2 DEF PrjTypeOK, PrjPage
<1>11. PrjInOrder'
  <2>1. IsFiniteSet(prjEvents')
    BY <1>1, <1>2, FS_Subset DEF PrjInOrder
  <2> QED
    BY <2>1, <1>1, <1>2 DEF PrjInOrder
<1>12. PrjIsReplay'
  BY <1>1, <1>2 DEF PrjIsReplay, PrjReplayed
<1>13. ASSUME NEW s \in DOMAIN PrjReaders, prjReader'[s] = prjReader[s] PROVE PrjFollows(s)'
  <2> SUFFICES ASSUME prjReader[s].cursor # PrjFresh
               PROVE  PrjTold(PrjKept, prjLast, prjReader[s].cursor) \/ PrjCovered(s)'
    BY <1>2, <1>13 DEF PrjFollows
  <2>1. CASE PrjTold(prjEvents, prjLast, prjReader[s].cursor)
    BY <2>1, <1>2 DEF PrjTold
  <2>2. CASE PrjCovered(s)
    <3>1. CASE \A e \in prjEvents : e.cursor > prjReader[s].cursor => e \in PrjKept
      BY <3>1, <2>2, <1>2, <1>13 DEF PrjCovered
    <3>2. CASE \E e \in prjEvents : e.cursor > prjReader[s].cursor /\ e \notin PrjKept
      <4>1. PICK e \in prjEvents : e.cursor > prjReader[s].cursor /\ e \notin PrjKept
        BY <3>2
      <4>2. prjReader[s].cursor \in Int /\ e.cursor \in 1 .. prjLast /\ prjLast \in Nat
        BY <1>1 DEF PrjTypeOK, PrjPage, PrjFresh
      <4>3. \A k \in PrjKept : prjReader[s].cursor < k.cursor - 1
        BY <4>1, <4>2, <1>1, PrjDropsOld
      <4> QED
        BY <4>1, <4>2, <4>3 DEF PrjTold
    <3> QED
      BY <3>1, <3>2
  <2> QED
    BY <2>1, <2>2, <1>1 DEF PrjFollows
<1>14. PrjFollows(r)'
  <2>1. CASE prjReader' = prjReader
    BY <2>1, <1>13
  <2>2. CASE prjReader' = [prjReader EXCEPT ![r] = snapshot]
    <3>1. prjReader'[r].known = PrjShown(PrjReaders[r])
      BY <2>2, <1>5
    <3>2. PrjCovered(r)'
      BY <3>1, <1>2 DEF PrjCovered, PrjShown
    <3> QED
      BY <3>2 DEF PrjFollows
  <2>3. CASE ~PrjExpired(r) /\ PrjHanded(r) # {} /\ prjReader' = [prjReader EXCEPT ![r] = page]
    <3>1. prjReader'[r] = page
      BY <2>3, <1>5
    <3> SUFFICES ASSUME NEW p \in PrjNames, NEW it \in prjItem[p], PrjGroup[it.effect] = PrjReaders[r],
                        <<p, it.effect>> \notin page.known \cup page.lost
                 PROVE  \E e \in PrjKept : e.name = p /\ e.effect = it.effect /\ e.cursor > page.cursor
      <4> HIDE DEF page
      <4>1. prjItem' = prjItem /\ prjEvents' = PrjKept
        BY <1>2
      <4>2. PrjFollows(r)' <=> (prjReader'[r].cursor # PrjFresh =>
               PrjTold(prjEvents', prjLast', prjReader'[r].cursor)
               \/ \A p \in PrjNames : \A it \in prjItem'[p] : PrjGroup[it.effect] = PrjReaders[r] =>
                    \/ <<p, it.effect>> \in prjReader'[r].known \cup prjReader'[r].lost
                    \/ \E e \in prjEvents' : e.name = p /\ e.effect = it.effect /\ e.cursor > prjReader'[r].cursor)
        BY DEF PrjFollows, PrjCovered
      <4> QED
        BY <3>1, <4>1, <4>2
    <3>2. /\ <<p, it.effect>> \notin prjReader[r].known \cup lost
          /\ \A e \in PrjHanded(r) : ~(e.name = p /\ e.effect = it.effect)
      OBVIOUS
    <3> HIDE DEF snapshot
    <3>3. <<p, it.effect>> \in PrjShown(PrjReaders[r])
      BY DEF PrjShown
    <3>4. PICK e \in PrjKept : e.name = p /\ e.effect = it.effect /\ e.cursor > prjReader[r].cursor
      <4>1. PrjKept # {} /\ prjReader[r].cursor \in Int
        BY <2>3, <1>5, <1>6, <1>1 DEF PrjFresh, PrjTypeOK
      <4>2. CASE prjReader[r].cursor = PrjFresh
        <5>1. PICK e \in PrjKept : <<e.name, e.effect>> = <<p, it.effect>>
          BY <3>2, <3>3, <4>2 DEF PrjGone
        <5>2. e.cursor \in Nat
          BY <1>1, <1>2 DEF PrjTypeOK
        <5> QED
          BY <5>1, <5>2, <4>2 DEF PrjFresh
      <4>3. CASE prjReader[r].cursor # PrjFresh
        <5>1. ~ (\A k \in PrjKept : prjReader[r].cursor < k.cursor - 1)
          BY <4>1, <4>3, <2>3, <1>1, PrjExpires
        <5>2. ~ PrjTold(prjEvents, prjLast, prjReader[r].cursor)
          BY <5>1, <1>2 DEF PrjTold
        <5>3. <<p, it.effect>> \notin prjReader[r].known \cup prjReader[r].lost
          BY <3>2, <4>3
        <5>4. PICK e \in prjEvents : e.name = p /\ e.effect = it.effect /\ e.cursor > prjReader[r].cursor
          BY <4>3, <5>2, <5>3, <1>1 DEF PrjFollows, PrjCovered
        <5>5. e \in PrjKept
          BY <4>1, <5>1, <5>4, <1>1, PrjDropsOld
        <5> QED
          BY <5>4, <5>5
      <4> QED
        BY <4>2, <4>3
    <3>5. e \in PrjAhead(r) \ PrjHanded(r)
      BY <3>2, <3>4 DEF PrjAhead
    <3> QED
      BY <3>4, <3>5, <2>3, <1>1, PrjHandsFirst
  <2> QED
    BY <2>1, <2>2, <2>3, <1>7
<1>15. \A s \in DOMAIN PrjReaders : PrjFollows(s)'
  <2>1. \A s \in DOMAIN PrjReaders \ {r} : prjReader'[s] = prjReader[s]
    <3> HIDE DEF snapshot, page
    <3> QED
      BY <1>5, <1>7
  <2> QED
    BY <2>1, <1>13, <1>14
<1> QED
  BY <1>10, <1>11, <1>12, <1>15, PrjGapWillBe DEF PrjInductive

LEMMA PrjOpens ==
  ASSUME PrjInductive, NEW r \in DOMAIN PrjReaders, PrjOpen(r)
  PROVE  PrjInductive'
<1>1. PrjTypeOK /\ PrjInOrder /\ PrjIsReplay /\ \A s \in DOMAIN PrjReaders : PrjFollows(s)
  BY PrjGapIs DEF PrjInductive
<1>2. UNCHANGED <<prjHead, prjCursor, prjVersion, prjApplied, prjItem, prjEvents, prjLast, prjRebuilt>>
  BY DEF PrjOpen
<1> DEFINE page == [prjReader[r] EXCEPT !.known = PrjShown(PrjReaders[r])]
<1>3. /\ prjReader \in [DOMAIN PrjReaders -> PrjPage] /\ prjReader[r] \in PrjPage
      /\ PrjShown(PrjReaders[r]) \in SUBSET (PrjNames \X PrjEffect)
  BY <1>1 DEF PrjTypeOK, PrjShown
<1>4. prjReader' = [prjReader EXCEPT ![r] = page]
  BY DEF PrjOpen
<1>5. page \in PrjPage /\ page.cursor = PrjFresh
  BY <1>3 DEF PrjPage, PrjOpen
<1> HIDE DEF page
<1>6. PrjTypeOK'
  BY <1>1, <1>2, <1>3, <1>4, <1>5 DEF PrjTypeOK, PrjPage
<1>7. PrjInOrder' /\ PrjIsReplay'
  BY <1>1, <1>2 DEF PrjInOrder, PrjIsReplay, PrjReplayed
<1>8. \A s \in DOMAIN PrjReaders : PrjFollows(s)'
  BY <1>1, <1>2, <1>3, <1>4, <1>5 DEF PrjFollows, PrjCovered
<1> QED
  BY <1>6, <1>7, <1>8, PrjGapWillBe DEF PrjInductive

(***************************************************************************)
(* The theorems.                                                           *)
(***************************************************************************)
LEMMA PrjStep == PrjInductive /\ [PrjNext]_prjVars => PrjInductive'
<1> SUFFICES ASSUME PrjInductive, [PrjNext]_prjVars PROVE PrjInductive'
  OBVIOUS
<1>1. CASE UNCHANGED prjVars
  <2>0. UNCHANGED <<prjHead, prjCursor, prjVersion, prjApplied, prjItem, prjEvents, prjLast, prjReader, prjRebuilt>>
    BY <1>1 DEF prjVars
  <2>1. PrjTypeOK' /\ PrjInOrder'
    BY <2>0 DEF PrjInductive, PrjTypeOK, PrjPage, PrjInOrder
  <2>3. \A r \in DOMAIN PrjReaders : PrjFollows(r)'
    BY <2>0, PrjGapIs DEF PrjInductive, PrjFollows, PrjTold, PrjCovered
  <2>2. PrjIsReplay'
    BY <1>1, PrjReplayIs, PrjReplayWillBe DEF prjVars, PrjInductive, PrjReplayed
  <2> QED
    BY <2>1, <2>2, <2>3, PrjGapWillBe DEF PrjInductive
<1>2. CASE PrjCommit
  BY <1>2, PrjCommits
<1>3. ASSUME NEW p \in PrjNames, PrjConsume(p) PROVE PrjInductive'
  BY <1>3, PrjConsumes
<1>4. ASSUME NEW p \in PrjNames, PrjRebuild(p) PROVE PrjInductive'
  BY <1>4, PrjRebuildsOne
<1>5. ASSUME NEW r \in DOMAIN PrjReaders, PrjRead(r) PROVE PrjInductive'
  BY <1>5, PrjReads
<1>6. ASSUME NEW r \in DOMAIN PrjReaders, PrjOpen(r) PROVE PrjInductive'
  BY <1>6, PrjOpens
<1> QED
  BY <1>1, <1>2, <1>3, <1>4, <1>5, <1>6 DEF PrjNext

LEMMA PrjAlways == PrjSpec => []PrjInductive
BY PrjStarts, PrjStep, PTL DEF PrjSpec

\* The state of the projections, their stream and its readers keeps its types.
THEOREM PrjTypes == PrjSpec => []PrjTypeOK
<1>1. PrjInductive => PrjTypeOK
  BY DEF PrjInductive
<1> QED
  BY <1>1, PrjAlways, PTL

\* Every projection is the replay of the journal up to its cursor, and no reader
\* that resumes misses what its group shows without being told.
THEOREM PrjStaysSound == PrjSpec => []PrjSound
<1>1. PrjInductive => PrjSound
  BY DEF PrjInductive, PrjSound
<1> QED
  BY <1>1, PrjAlways, PTL

----------------------------------------------------------------------------
(***************************************************************************)
(* Theorems about the commands of operators, for any commands, members,    *)
(* facts and configurations.                                               *)
(***************************************************************************)

(***************************************************************************)
(* The inductive invariant.  One version at most is published, every       *)
(* command in the log was composed before it was executed, and the last    *)
(* publication of the log produced the version now in force.               *)
(***************************************************************************)
CtlOneInForce ==
  \A v, w \in DOMAIN ctlConfigs : ctlConfigs[v].status = "PUBLISHED" /\ ctlConfigs[w].status = "PUBLISHED" => v = w
CtlComposed == \A i \in DOMAIN ctlLog : ctlSeen[ctlLog[i].command] # CtlNone
CtlChain ==
  /\ \A i \in CtlMade : ctlSeen[ctlLog[i].command] = CtlProduced({j \in CtlMade : j < i})
  /\ CtlProduced(CtlMade) = CtlPublishedAt
CtlInductive == CtlTypeOK /\ CtlOneInForce /\ CtlComposed /\ CtlChain /\ CtlFactsOwned

LEMMA CtlLeast ==
  ASSUME NEW S \in SUBSET Nat, S # {}
  PROVE  \E n \in S : \A m \in S : n <= m
<1>1. PICK n \in S : \A m \in S : ~(<<m, n>> \in OpToRel(<, Nat))
  BY NatLessThanWellFounded, WFMin
<1>2. \A m \in S : ~(m < n)
  BY <1>1 DEF OpToRel
<1> QED
  BY <1>2

\* The greatest of some bounded numbers.
LEMMA CtlGreatest ==
  ASSUME NEW n \in Nat, NEW S \in SUBSET (0 .. n), S # {}
  PROVE  Max(S) \in S /\ \A m \in S : m <= Max(S)
<1> DEFINE T == {n - m : m \in S}
<1>1. T \in SUBSET Nat /\ T # {}
  <2>1. \A m \in S : m \in 0 .. n /\ n - m \in Nat
    OBVIOUS
  <2> QED
    BY <2>1
<1>2. PICK t \in T : \A u \in T : t <= u
  BY <1>1, CtlLeast
<1>3. PICK m \in S : t = n - m
  BY <1>2
<1>4. \A k \in S : m >= k
  <2> TAKE k \in S
  <2>1. n - m <= n - k
    BY <1>2, <1>3
  <2> QED
    BY <2>1
<1>5. \E x \in S : \A y \in S : x >= y
  BY <1>4
<1>6. Max(S) \in S /\ \A y \in S : Max(S) >= y
  BY <1>5 DEF Max
<1> QED
  BY <1>6

LEMMA CtlGreatestIs ==
  ASSUME NEW S \in SUBSET Nat, NEW x \in S, \A y \in S : y <= x
  PROVE  Max(S) = x
<1>1. \A y \in S : y \in Nat /\ x >= y
  OBVIOUS
<1>2. Max(S) \in S /\ \A y \in S : Max(S) >= y
  BY <1>1 DEF Max
<1>3. Max(S) >= x /\ x >= Max(S) /\ Max(S) \in Nat /\ x \in Nat
  BY <1>1, <1>2
<1> QED
  BY <1>3

\* Of the published versions there is one or none.
LEMMA CtlInForce ==
  ASSUME CtlTypeOK, CtlOneInForce
  PROVE  /\ CtlPublishedAt \in Nat
         /\ \A v \in DOMAIN ctlConfigs : ctlConfigs[v].status = "PUBLISHED" => CtlPublishedAt = v
         /\ (\A v \in DOMAIN ctlConfigs : ctlConfigs[v].status # "PUBLISHED") => CtlPublishedAt = 0
<1> DEFINE P == {v \in DOMAIN ctlConfigs : ctlConfigs[v].status = "PUBLISHED"}
<1>0. ctlConfigs \in Seq(CtlConfigVersion) /\ DOMAIN ctlConfigs = 1 .. Len(ctlConfigs) /\ Len(ctlConfigs) \in Nat
  BY DEF CtlTypeOK
<1>1. CASE P = {}
  <2>1. {0} \cup P = {0}
    BY <1>1
  <2>2. {0} \in SUBSET Nat /\ \A y \in {0} : y <= 0
    OBVIOUS
  <2>3. Max({0}) = 0
    BY <2>2, CtlGreatestIs
  <2>4. CtlPublishedAt = Max({0} \cup P)
    BY DEF CtlPublishedAt
  <2>5. CtlPublishedAt = 0
    BY <2>1, <2>3, <2>4
  <2> QED
    BY <1>1, <2>5
<1>2. ASSUME NEW v \in P PROVE CtlPublishedAt = v /\ v \in Nat
  <2>0. v \in Nat /\ P \subseteq Nat /\ \A y \in P : y = v
    <3>1. v \in DOMAIN ctlConfigs /\ ctlConfigs[v].status = "PUBLISHED"
      OBVIOUS
    <3>2. \A y \in P : y \in DOMAIN ctlConfigs /\ ctlConfigs[y].status = "PUBLISHED"
      OBVIOUS
    <3>3. DOMAIN ctlConfigs \subseteq Nat
      BY <1>0
    <3> HIDE DEF P
    <3> QED
      BY <3>1, <3>2, <3>3 DEF CtlOneInForce
  <2> HIDE DEF P
  <2>1. {0} \cup P \in SUBSET Nat /\ v \in {0} \cup P /\ \A y \in {0} \cup P : y <= v
    BY <1>2, <2>0
  <2>2. Max({0} \cup P) = v
    BY <2>1, CtlGreatestIs
  <2> QED
    BY <2>1, <2>2, <1>0 DEF CtlPublishedAt, P
<1> QED
  BY <1>1, <1>2

LEMMA CtlBegins == CtlInit => CtlInductive
<1> SUFFICES ASSUME CtlInit PROVE CtlInductive
  OBVIOUS
<1>1. CtlTypeOK
  <2>1. ctlFact \in [CtlFacts -> [member : CtlMembers \cup {CtlNobody}, status : {"absent", "confirmed", "superseded", "rejected"}]]
    BY CtlConstants DEF CtlInit, CtlFacts, CtlNoFact
  <2>2. ctlNow \in 0 .. CtlLastTime /\ ctlSeen \in CtlContexts
    BY CtlConstants DEF CtlInit, CtlContexts
  <2>3. ctlConfigs \in Seq(CtlConfigVersion) /\ ctlLog \in Seq(CtlResult) /\ ctlPublished \subseteq {CtlId(c) : c \in CtlCommands}
    BY DEF CtlInit
  <2>4. ctlDirectory \subseteq CtlMembers /\ ctlPortrait \in [CtlMembers -> Nat \cup {CtlNone}]
    BY CtlConstants DEF CtlInit
  <2>5. ctlStyle \in [CtlMembers -> [enabled : BOOLEAN, version : Nat, windows : Seq(Nat \X (Nat \cup {CtlNone}))]]
    BY DEF CtlInit
  <2> QED
    BY <2>1, <2>2, <2>3, <2>4, <2>5 DEF CtlTypeOK
<1>2. CtlOneInForce /\ CtlComposed
  BY DEF CtlInit, CtlOneInForce, CtlComposed
<1>3. CtlChain
  <2>1. CtlMade = {}
    BY DEF CtlInit, CtlMade
  <2>2. CtlPublishedAt = 0
    BY <1>1, <1>2, CtlInForce DEF CtlInit
  <2> QED
    BY <2>1, <2>2 DEF CtlChain, CtlProduced
<1>4. CtlFactsOwned
  BY CtlConstants DEF CtlInit, CtlFactsOwned, CtlNoFact
<1> QED
  BY <1>1, <1>2, <1>3, <1>4 DEF CtlInductive

(***************************************************************************)
(* What a command says.                                                    *)
(***************************************************************************)
LEMMA CtlSays ==
  ASSUME NEW c \in CtlCommands
  PROVE  /\ CtlCommand[c].kind \in CtlConfigKinds \cup {"correct", "reject", "merge", "split", "style", "pause"}
         /\ CtlCommand[c].kind \in CtlConfigKinds => CtlCommand[c].config \in STRING
         /\ CtlCommand[c].kind \in {"correct", "reject"} => CtlCommand[c].member \in CtlMembers /\ CtlCommand[c].fact \in CtlFacts
         /\ CtlCommand[c].kind = "merge" => CtlCommand[c].member \in CtlMembers /\ CtlCommand[c].source \in CtlMembers
         /\ CtlCommand[c].kind = "split" =>
              CtlCommand[c].member \in CtlMembers /\ CtlCommand[c].target \in CtlMembers /\ CtlCommand[c].facts \subseteq CtlFacts
         /\ CtlCommand[c].kind = "style" => CtlCommand[c].member \in CtlMembers /\ CtlCommand[c].enabled \in BOOLEAN
<1>1. CtlCommand[c] \in CtlShape
  BY CtlConstants
<1> QED
  BY <1>1 DEF CtlShape, CtlConfigKinds, CtlPublishing

LEMMA CtlKnows ==
  ASSUME CtlInductive, NEW c \in CtlCommands
  PROVE  CtlCurrent(c) \in Nat
<1>1. CtlPublishedAt \in Nat /\ Len(ctlLog) \in Nat
  BY CtlInForce DEF CtlInductive, CtlTypeOK
<1>2. \A m \in CtlMembers : Max({0, ctlPortrait[m]}) \in Nat
  <2> TAKE m \in CtlMembers
  <2>1. ctlPortrait[m] \in Nat \cup {CtlNone}
    BY DEF CtlInductive, CtlTypeOK
  <2>2. CASE ctlPortrait[m] \in Nat
    <3>1. {0, ctlPortrait[m]} \in SUBSET (0 .. ctlPortrait[m])
      BY <2>2
    <3>2. Max({0, ctlPortrait[m]}) \in {0, ctlPortrait[m]}
      BY <2>2, <3>1, CtlGreatest
    <3> QED
      BY <2>2, <3>2
  <2>3. CASE ctlPortrait[m] = CtlNone
    <3>1. \A y \in {0, -1} : 0 >= y
      OBVIOUS
    <3>2. Max({0, -1}) \in {0, -1} /\ \A y \in {0, -1} : Max({0, -1}) >= y
      BY <3>1 DEF Max
    <3>3. Max({0, -1}) >= 0
      BY <3>2
    <3> QED
      BY <2>3, <3>2, <3>3 DEF CtlNone
  <2> QED
    BY <2>1, <2>2, <2>3
<1>3. \A m \in CtlMembers : ctlStyle[m].version \in Nat
  BY DEF CtlInductive, CtlTypeOK
<1> QED
  BY <1>1, <1>2, <1>3, CtlSays DEF CtlCurrent

(***************************************************************************)
(* The log: an entry more leaves what was said of the earlier ones.        *)
(***************************************************************************)
CtlVersion(log, made) == IF made = {} THEN 0 ELSE log[Max(made)].version

LEMMA CtlLogs ==
  ASSUME CtlInductive, NEW e \in CtlResult, ctlLog' = Append(ctlLog, e), ctlSeen' = ctlSeen,
         ctlSeen[e.command] # CtlNone,
         CtlCommand[e.command].kind \in CtlPublishing => ctlSeen[e.command] = CtlPublishedAt /\ CtlPublishedAt' = e.version,
         CtlCommand[e.command].kind \notin CtlPublishing => CtlPublishedAt' = CtlPublishedAt
  PROVE  CtlComposed' /\ CtlChain'
<1> DEFINE n == Len(ctlLog)
           M == CtlMade
           N == CtlMade'
<1>1. ctlLog \in Seq(CtlResult) /\ n \in Nat /\ DOMAIN ctlLog = 1 .. n
  BY DEF CtlInductive, CtlTypeOK
<1>2. DOMAIN ctlLog' = 1 .. n + 1 /\ ctlLog'[n + 1] = e /\ \A i \in 1 .. n : ctlLog'[i] = ctlLog[i]
  BY <1>1
<1>3. M \subseteq 1 .. n
  BY <1>1 DEF CtlMade
<1>4. \A i : i \in N <=> i \in M \/ (i = n + 1 /\ CtlCommand[e.command].kind \in CtlPublishing)
  BY <1>1, <1>2 DEF CtlMade
<1>5. CtlComposed'
  <2> SUFFICES ASSUME NEW i \in DOMAIN ctlLog' PROVE ctlSeen[ctlLog'[i].command] # CtlNone
    BY DEF CtlComposed
  <2>1. i = n + 1 \/ i \in 1 .. n
    BY <1>1, <1>2
  <2> QED
    BY <2>1, <1>1, <1>2 DEF CtlInductive, CtlComposed
<1>6. \A S : S \subseteq M => CtlVersion(ctlLog', S) = CtlVersion(ctlLog, S)
  <2> SUFFICES ASSUME NEW S, S \subseteq M, S # {} PROVE ctlLog'[Max(S)] = ctlLog[Max(S)]
    BY DEF CtlVersion
  <2>1. S \in SUBSET (0 .. n)
    BY <1>1, <1>3
  <2>2. Max(S) \in S
    BY <1>1, <2>1, CtlGreatest
  <2> QED
    BY <2>2, <1>2, <1>3
<1>7. /\ \A i \in M : ctlSeen[ctlLog[i].command] = CtlVersion(ctlLog, {j \in M : j < i})
      /\ CtlVersion(ctlLog, M) = CtlPublishedAt
  BY DEF CtlInductive, CtlChain, CtlProduced, CtlVersion
<1>8. SUFFICES /\ \A i \in N : ctlSeen[ctlLog'[i].command] = CtlVersion(ctlLog', {j \in N : j < i})
               /\ CtlVersion(ctlLog', N) = CtlPublishedAt'
  BY <1>5 DEF CtlChain, CtlProduced, CtlVersion
<1> HIDE DEF M, N, n
<1>9. ASSUME NEW i \in M
      PROVE  i \in 1 .. n /\ {j \in N : j < i} = {j \in M : j < i}
  <2>1. i \in 1 .. n /\ ~(n + 1 < i)
    BY <1>1, <1>3
  <2> QED
    BY <2>1, <1>4
<1>10. \A i \in M : ctlSeen[ctlLog'[i].command] = CtlVersion(ctlLog', {j \in N : j < i})
  <2> TAKE i \in M
  <2>1. ctlLog'[i] = ctlLog[i] /\ {j \in N : j < i} = {j \in M : j < i}
    BY <1>2, <1>9
  <2>2. {j \in M : j < i} \subseteq M
    OBVIOUS
  <2>3. CtlVersion(ctlLog', {j \in M : j < i}) = CtlVersion(ctlLog, {j \in M : j < i})
    BY <2>2, <1>6
  <2>4. ctlSeen[ctlLog[i].command] = CtlVersion(ctlLog, {j \in M : j < i})
    BY <1>7
  <2> QED
    BY <2>1, <2>3, <2>4
<1>11. CASE CtlCommand[e.command].kind \in CtlPublishing
  <2>1. N = M \cup {n + 1}
    BY <1>4, <1>11
  <2>2. {j \in N : j < n + 1} = M
    <3>1. \A j \in M : j < n + 1
      BY <1>1, <1>3
    <3>2. ~(n + 1 < n + 1)
      BY <1>1
    <3> QED
      BY <2>1, <3>1, <3>2
  <2>3. CtlVersion(ctlLog', M) = CtlPublishedAt
    BY <1>6, <1>7
  <2>4. Max(N) = n + 1
    <3>1. N \in SUBSET Nat /\ n + 1 \in N /\ \A y \in N : y <= n + 1
      BY <2>1, <1>1, <1>3
    <3> QED
      BY <3>1, CtlGreatestIs
  <2>5. CtlVersion(ctlLog', N) = e.version
    BY <2>1, <2>4, <1>2 DEF CtlVersion
  <2>6. ctlSeen[ctlLog'[n + 1].command] = CtlVersion(ctlLog', {j \in N : j < n + 1})
    BY <2>2, <2>3, <1>2, <1>11
  <2> QED
    BY <2>1, <2>5, <2>6, <1>10, <1>11
<1>12. CASE CtlCommand[e.command].kind \notin CtlPublishing
  <2>1. N = M
    BY <1>4, <1>12
  <2>2. CtlVersion(ctlLog', M) = CtlPublishedAt'
    BY <1>6, <1>7, <1>12
  <2> QED
    BY <2>1, <2>2, <1>10
<1> QED
  BY <1>11, <1>12

(***************************************************************************)
(* Configurations: only a publication changes what is in force, and it     *)
(* leaves one version in force, its own.                                   *)
(***************************************************************************)
CtlForce(configs) == {v \in DOMAIN configs : configs[v].status = "PUBLISHED"}

LEMMA CtlStores ==
  ASSUME NEW q \in Seq(CtlConfigVersion), NEW e \in CtlConfigVersion
  PROVE  /\ Append(q, e) \in Seq(CtlConfigVersion) /\ Len(q) + 1 \in DOMAIN Append(q, e)
         /\ e.status # "PUBLISHED" => CtlForce(Append(q, e)) = CtlForce(q)
         /\ e.status = "PUBLISHED" /\ CtlForce(q) = {} => CtlForce(Append(q, e)) = {Len(q) + 1}
<1> DEFINE r == Append(q, e)
<1>1. r \in Seq(CtlConfigVersion) /\ DOMAIN r = 1 .. Len(q) + 1 /\ DOMAIN q = 1 .. Len(q) /\ Len(q) \in Nat
  OBVIOUS
<1>2. r[Len(q) + 1] = e /\ \A i \in DOMAIN q : r[i] = q[i]
  OBVIOUS
<1> HIDE DEF r
<1>3. \A i : i \in DOMAIN r <=> i = Len(q) + 1 \/ i \in DOMAIN q
  BY <1>1
<1>4. Len(q) + 1 \notin DOMAIN q
  BY <1>1
<1>5. \A i : i \in CtlForce(r) <=> (i = Len(q) + 1 /\ e.status = "PUBLISHED") \/ i \in CtlForce(q)
  BY <1>2, <1>3, <1>4 DEF CtlForce
<1>6. Len(q) + 1 \in DOMAIN r
  BY <1>3
<1> QED
  BY <1>1, <1>5, <1>6 DEF r

CtlMarked(q, i, x) == [q EXCEPT ![i].status = x]
LEMMA CtlMarks ==
  ASSUME NEW q \in Seq(CtlConfigVersion), NEW i \in DOMAIN q, NEW x \in {"DRAFT", "VALIDATED", "PUBLISHED", "SUPERSEDED"}
  PROVE  /\ CtlMarked(q, i, x) \in Seq(CtlConfigVersion) /\ DOMAIN CtlMarked(q, i, x) = DOMAIN q
         /\ x # "PUBLISHED" /\ q[i].status # "PUBLISHED" => CtlForce(CtlMarked(q, i, x)) = CtlForce(q)
         /\ x = "PUBLISHED" /\ CtlForce(q) = {} => CtlForce(CtlMarked(q, i, x)) = {i}
<1> DEFINE r == CtlMarked(q, i, x)
<1>1. DOMAIN q = 1 .. Len(q) /\ Len(q) \in Nat /\ q \in [1 .. Len(q) -> CtlConfigVersion]
  OBVIOUS
<1>2. r \in [1 .. Len(q) -> CtlConfigVersion] /\ r[i].status = x /\ \A j \in DOMAIN q : j # i => r[j] = q[j]
  BY <1>1 DEF CtlConfigVersion, CtlMarked
<1>3. r \in Seq(CtlConfigVersion) /\ DOMAIN r = DOMAIN q
  BY <1>1, <1>2
<1> QED
  BY <1>2, <1>3 DEF CtlForce

LEMMA CtlSupersedes ==
  ASSUME CtlTypeOK
  PROVE  CtlSuperseded \in Seq(CtlConfigVersion) /\ DOMAIN CtlSuperseded = DOMAIN ctlConfigs /\ CtlForce(CtlSuperseded) = {}
<1>1. DOMAIN ctlConfigs = 1 .. Len(ctlConfigs) /\ Len(ctlConfigs) \in Nat /\ ctlConfigs \in [1 .. Len(ctlConfigs) -> CtlConfigVersion]
  BY DEF CtlTypeOK
<1>2. \A v \in DOMAIN ctlConfigs : [ctlConfigs[v] EXCEPT !.status = "SUPERSEDED"] \in CtlConfigVersion
                                   /\ [ctlConfigs[v] EXCEPT !.status = "SUPERSEDED"].status = "SUPERSEDED"
  BY <1>1 DEF CtlConfigVersion
<1>3. CtlSuperseded \in [1 .. Len(ctlConfigs) -> CtlConfigVersion] /\ \A v \in DOMAIN ctlConfigs : CtlSuperseded[v].status # "PUBLISHED"
  BY <1>1, <1>2 DEF CtlSuperseded
<1>4. CtlSuperseded \in Seq(CtlConfigVersion) /\ DOMAIN CtlSuperseded = DOMAIN ctlConfigs
  BY <1>1, <1>3
<1> QED
  BY <1>3, <1>4 DEF CtlForce

LEMMA CtlConfigures ==
  ASSUME CtlInductive, NEW c \in CtlCommands, CtlCommand[c].kind \in CtlConfigKinds, CtlConfigure(c)
  PROVE  /\ ctlConfigs' \in Seq(CtlConfigVersion)
         /\ CtlCommand[c].kind \notin CtlPublishing => CtlForce(ctlConfigs') = CtlForce(ctlConfigs)
         /\ CtlCommand[c].kind \in CtlPublishing => \E v \in DOMAIN ctlConfigs' : CtlForce(ctlConfigs') = {v}
         /\ UNCHANGED <<ctlFact, ctlDirectory, ctlPortrait, ctlStyle>>
<1>1. /\ ctlConfigs \in Seq(CtlConfigVersion) /\ Len(ctlConfigs) \in Nat /\ DOMAIN ctlConfigs = 1 .. Len(ctlConfigs)
      /\ CtlCommand[c].config \in STRING /\ UNCHANGED <<ctlFact, ctlDirectory, ctlPortrait, ctlStyle>>
  BY CtlSays DEF CtlInductive, CtlTypeOK, CtlConfigure
<1>2. CtlSuperseded \in Seq(CtlConfigVersion) /\ DOMAIN CtlSuperseded = DOMAIN ctlConfigs /\ CtlForce(CtlSuperseded) = {}
  BY CtlSupersedes DEF CtlInductive
<1>3. ASSUME NEW s, CtlLatest(CtlCommand[c].config, s) # {}
      PROVE  /\ Max(CtlLatest(CtlCommand[c].config, s)) \in DOMAIN ctlConfigs
             /\ ctlConfigs[Max(CtlLatest(CtlCommand[c].config, s))].status = s
  <2> DEFINE F == CtlLatest(CtlCommand[c].config, s)
  <2>1. F \in SUBSET (0 .. Len(ctlConfigs)) /\ F # {}
    BY <1>1, <1>3 DEF CtlLatest
  <2>2. \A v \in F : v \in DOMAIN ctlConfigs /\ ctlConfigs[v].status = s
    BY DEF CtlLatest
  <2> HIDE DEF F
  <2>3. Max(F) \in F
    BY <2>1, <1>1, CtlGreatest
  <2> QED
    BY <2>2, <2>3 DEF F
<1>4. CASE CtlCommand[c].kind \in {"draft", "profile"}
  <2> DEFINE base == IF CtlPublishedAt = 0 THEN {} ELSE ctlConfigs[CtlPublishedAt].content
             content == IF CtlCommand[c].kind = "draft" THEN {c} ELSE {k \in base : CtlCommand[k].kind # "profile"} \cup {c}
             e == [config |-> CtlCommand[c].config, status |-> "DRAFT", content |-> content]
  <2>1. ctlConfigs' = Append(ctlConfigs, e)
    BY <1>4 DEF CtlConfigure, CtlDraft, CtlStored
  <2>2. base \subseteq CtlCommands
    <3>1. CASE \E v \in DOMAIN ctlConfigs : ctlConfigs[v].status = "PUBLISHED"
      <4>1. PICK v \in DOMAIN ctlConfigs : ctlConfigs[v].status = "PUBLISHED"
        BY <3>1
      <4>2. CtlPublishedAt = v
        BY <4>1, CtlInForce DEF CtlInductive
      <4>3. ctlConfigs[v].content \subseteq CtlCommands
        <5>1. ctlConfigs[v] \in CtlConfigVersion
          BY <1>1, <4>1
        <5> QED
          BY <5>1 DEF CtlConfigVersion
      <4> QED
        BY <4>2, <4>3
    <3>2. CASE \A v \in DOMAIN ctlConfigs : ctlConfigs[v].status # "PUBLISHED"
      BY <3>2, CtlInForce DEF CtlInductive
    <3> QED
      BY <3>1, <3>2
  <2> HIDE DEF base
  <2>3. content \in SUBSET CtlCommands
    BY <2>2
  <2> HIDE DEF content
  <2>4. e \in CtlConfigVersion /\ e.status = "DRAFT"
    BY <2>3, <1>1 DEF CtlConfigVersion
  <2> HIDE DEF e
  <2>5. ctlConfigs' \in Seq(CtlConfigVersion) /\ CtlForce(ctlConfigs') = CtlForce(ctlConfigs)
    BY <2>1, <2>4, <1>1, CtlStores
  <2> QED
    BY <2>5, <1>1, <1>4 DEF CtlPublishing
<1>5. CASE CtlCommand[c].kind = "validate"
  <2> DEFINE i == Max(CtlLatest(CtlCommand[c].config, "DRAFT"))
  <2>1. CtlLatest(CtlCommand[c].config, "DRAFT") # {} /\ ctlConfigs' = CtlMarked(ctlConfigs, i, "VALIDATED")
    BY <1>5 DEF CtlConfigure, CtlValidate, CtlMarked
  <2>2. i \in DOMAIN ctlConfigs /\ ctlConfigs[i].status = "DRAFT"
    BY <2>1, <1>3
  <2> HIDE DEF i
  <2>3. ctlConfigs' \in Seq(CtlConfigVersion) /\ CtlForce(ctlConfigs') = CtlForce(ctlConfigs)
    BY <2>1, <2>2, <1>1, CtlMarks
  <2> QED
    BY <2>3, <1>1, <1>5 DEF CtlPublishing
<1>6. CASE CtlCommand[c].kind = "publish"
  <2> DEFINE i == Max(CtlLatest(CtlCommand[c].config, "VALIDATED"))
  <2>1. CtlLatest(CtlCommand[c].config, "VALIDATED") # {} /\ ctlConfigs' = CtlMarked(CtlSuperseded, i, "PUBLISHED")
    BY <1>6 DEF CtlConfigure, CtlPublish, CtlMarked
  <2>2. i \in DOMAIN CtlSuperseded
    BY <2>1, <1>2, <1>3
  <2> HIDE DEF i
  <2>3. ctlConfigs' \in Seq(CtlConfigVersion) /\ CtlForce(ctlConfigs') = {i} /\ i \in DOMAIN ctlConfigs'
    BY <2>1, <2>2, <1>2, CtlMarks
  <2> QED
    BY <2>3, <1>1, <1>6 DEF CtlPublishing
<1>7. CASE CtlCommand[c].kind = "restore"
  <2> DEFINE source == CtlCommand[c].version
             e == [ctlConfigs[source] EXCEPT !.status = "PUBLISHED"]
  <2>1. source \in DOMAIN ctlConfigs /\ ctlConfigs' = Append(CtlSuperseded, e)
    BY <1>7 DEF CtlConfigure, CtlRestore
  <2>2. e \in CtlConfigVersion /\ e.status = "PUBLISHED"
    <3>1. ctlConfigs[source] \in CtlConfigVersion
      BY <2>1, <1>1
    <3> QED
      BY <3>1 DEF CtlConfigVersion
  <2> HIDE DEF source, e
  <2>3. /\ ctlConfigs' \in Seq(CtlConfigVersion) /\ Len(CtlSuperseded) + 1 \in DOMAIN ctlConfigs'
        /\ CtlForce(ctlConfigs') = {Len(CtlSuperseded) + 1}
    BY <2>1, <2>2, <1>2, CtlStores
  <2> QED
    BY <2>3, <1>1, <1>7 DEF CtlPublishing
<1> QED
  BY <1>4, <1>5, <1>6, <1>7 DEF CtlConfigKinds, CtlPublishing

(***************************************************************************)
(* Facts stay with members of the directory.                               *)
(***************************************************************************)
CtlKept == \A f \in CtlFacts : ctlFact[f].status # "absent" => ctlFact[f].member \in ctlDirectory
CtlFactRecord == [member : CtlMembers \cup {CtlNobody}, status : {"absent", "confirmed", "superseded", "rejected"}]

LEMMA CtlAdvances ==
  ASSUME CtlTypeOK, NEW c \in CtlCommands, ctlSeen[c] # CtlNone, NEW m \in CtlMembers
  PROVE  CtlAdvanced(m, c) \in [CtlMembers -> Nat \cup {CtlNone}]
<1>1. ctlSeen[c] \in Nat /\ ctlPortrait \in [CtlMembers -> Nat \cup {CtlNone}]
  BY DEF CtlTypeOK, CtlContexts
<1> QED
  BY <1>1 DEF CtlAdvanced

LEMMA CtlProfiles ==
  ASSUME CtlInductive, NEW c \in CtlCommands, ctlSeen[c] # CtlNone,
         CtlCommand[c].kind \in {"correct", "reject", "merge", "split"}, CtlProfile(c)
  PROVE  /\ ctlFact' \in [CtlFacts -> CtlFactRecord] /\ ctlDirectory' \subseteq CtlMembers
         /\ ctlPortrait' \in [CtlMembers -> Nat \cup {CtlNone}] /\ CtlKept' /\ UNCHANGED <<ctlConfigs, ctlStyle>>
<1>1. /\ ctlFact \in [CtlFacts -> CtlFactRecord] /\ ctlDirectory \subseteq CtlMembers
      /\ CtlKept /\ UNCHANGED <<ctlConfigs, ctlStyle>> /\ ctlPortrait \in [CtlMembers -> Nat \cup {CtlNone}]
  BY DEF CtlInductive, CtlTypeOK, CtlFactsOwned, CtlKept, CtlProfile, CtlFactRecord
<1>2. \A m \in CtlMembers : CtlAdvanced(m, c) \in [CtlMembers -> Nat \cup {CtlNone}]
  BY CtlAdvances DEF CtlInductive
<1>3. ASSUME NEW a \in CtlMembers, NEW b \in CtlMembers, NEW facts \in SUBSET CtlFacts
      PROVE  /\ CtlMoved(a, b, facts) \in [CtlFacts -> CtlFactRecord]
             /\ \A f \in CtlFacts : /\ CtlMoved(a, b, facts)[f].status = ctlFact[f].status
                                    /\ CtlMoved(a, b, facts)[f].member = IF f \in facts /\ ctlFact[f].member = a THEN b ELSE ctlFact[f].member
  BY <1>1 DEF CtlMoved, CtlFactRecord
<1>4. CASE CtlCommand[c].kind \in {"correct", "reject"}
  <2> DEFINE m == CtlCommand[c].member
             f == CtlCommand[c].fact
  <2>1. m \in CtlMembers /\ f \in CtlFacts
    BY <1>4, CtlSays
  <2>2. m \in ctlDirectory /\ ctlFact[f].member = m /\ ctlPortrait' = CtlAdvanced(m, c) /\ UNCHANGED ctlDirectory
    BY <1>4 DEF CtlProfile, CtlCorrect
  <2>3. CASE CtlCommand[c].kind = "reject"
    <3>1. ctlFact' = [ctlFact EXCEPT ![f].status = "rejected"]
      BY <2>3 DEF CtlProfile, CtlCorrect
    <3> HIDE DEF m, f
    <3>2. ctlFact' \in [CtlFacts -> CtlFactRecord] /\ CtlKept'
      BY <3>1, <2>1, <2>2, <1>1 DEF CtlFactRecord, CtlKept
    <3> QED
      BY <3>2, <2>1, <2>2, <1>1, <1>2
  <2>4. CASE CtlCommand[c].kind = "correct"
    <3>1. ctlFact' = [ctlFact EXCEPT ![f].status = "superseded", ![c] = [member |-> m, status |-> "confirmed"]] /\ c \in CtlFacts
      BY <2>4 DEF CtlProfile, CtlCorrect, CtlFacts
    <3> HIDE DEF m, f
    <3>2. ctlFact' \in [CtlFacts -> CtlFactRecord] /\ CtlKept'
      BY <3>1, <2>1, <2>2, <1>1 DEF CtlFactRecord, CtlKept
    <3> QED
      BY <3>2, <2>1, <2>2, <1>1, <1>2
  <2> QED
    BY <1>4, <2>3, <2>4
<1>5. CASE CtlCommand[c].kind = "merge"
  <2> DEFINE a == CtlCommand[c].source
             b == CtlCommand[c].member
  <2>1. /\ a \in ctlDirectory /\ b \in ctlDirectory /\ a # b /\ ctlFact' = CtlMoved(a, b, CtlFacts)
        /\ ctlDirectory' = ctlDirectory \ {a} /\ ctlPortrait' = [CtlAdvanced(b, c) EXCEPT ![a] = CtlNone]
    BY <1>5 DEF CtlProfile, CtlMerge
  <2> HIDE DEF a, b
  <2>2. a \in CtlMembers /\ b \in CtlMembers
    BY <2>1, <1>1
  <2>3. ctlFact' \in [CtlFacts -> CtlFactRecord] /\ CtlKept'
    BY <2>1, <2>2, <1>1, <1>3 DEF CtlKept
  <2>4. ctlPortrait' \in [CtlMembers -> Nat \cup {CtlNone}]
    BY <2>1, <2>2, <1>2
  <2> QED
    BY <2>1, <2>3, <2>4, <1>1
<1>6. CASE CtlCommand[c].kind = "split"
  <2> DEFINE a == CtlCommand[c].member
             b == CtlCommand[c].target
             facts == CtlCommand[c].facts
  <2>1. /\ a \in ctlDirectory /\ ctlFact' = CtlMoved(a, b, facts)
        /\ ctlDirectory' = ctlDirectory \cup {b} /\ ctlPortrait' = CtlAdvanced(a, c)
    BY <1>6 DEF CtlProfile, CtlSplit
  <2>2. a \in CtlMembers /\ b \in CtlMembers /\ facts \subseteq CtlFacts
    BY <1>6, CtlSays
  <2> HIDE DEF a, b, facts
  <2>3. ctlFact' \in [CtlFacts -> CtlFactRecord] /\ CtlKept'
    BY <2>1, <2>2, <1>1, <1>3 DEF CtlKept
  <2> QED
    BY <2>1, <2>2, <2>3, <1>1, <1>2
<1> QED
  BY <1>4, <1>5, <1>6

(***************************************************************************)
(* A window of collection is open only while it is the last one and the    *)
(* switch is on.                                                           *)
(***************************************************************************)
CtlWindowRecord == Nat \X (Nat \cup {CtlNone})
CtlStyleRecord == [enabled : BOOLEAN, version : Nat, windows : Seq(CtlWindowRecord)]
CtlShut(s) == \A i \in DOMAIN s.windows : s.windows[i][2] = CtlNone <=> i = Len(s.windows) /\ s.enabled

LEMMA CtlSwitches ==
  ASSUME ctlNow \in Nat, NEW s \in CtlStyleRecord, CtlShut(s), NEW on \in BOOLEAN,
         NEW r, r = [enabled |-> on, version |-> s.version + 1, windows |-> CtlWindows(s, on)]
  PROVE  r \in CtlStyleRecord /\ CtlShut(r)
<1> DEFINE w == s.windows
           n == Len(w)
<1>1. s.enabled \in BOOLEAN /\ s.version \in Nat /\ w \in Seq(CtlWindowRecord) /\ n \in Nat /\ DOMAIN w = 1 .. n
  BY DEF CtlStyleRecord
<1>2. SUFFICES /\ CtlWindows(s, on) \in Seq(CtlWindowRecord)
               /\ \A i \in DOMAIN CtlWindows(s, on) : CtlWindows(s, on)[i][2] = CtlNone <=> i = Len(CtlWindows(s, on)) /\ on
  BY <1>1 DEF CtlStyleRecord, CtlShut
<1>3. CASE on /\ ~s.enabled
  <2> DEFINE e == <<ctlNow, CtlNone>>
  <2>1. CtlWindows(s, on) = Append(w, e) /\ e \in CtlWindowRecord /\ e[2] = CtlNone
    BY <1>3 DEF CtlWindows, CtlWindowRecord
  <2> HIDE DEF e
  <2>2. /\ Append(w, e) \in Seq(CtlWindowRecord) /\ Len(Append(w, e)) = n + 1 /\ DOMAIN Append(w, e) = 1 .. n + 1
        /\ Append(w, e)[n + 1] = e /\ \A i \in 1 .. n : Append(w, e)[i] = w[i]
    BY <2>1, <1>1
  <2>3. \A i \in 1 .. n : w[i][2] # CtlNone /\ i # n + 1
    BY <1>1, <1>3 DEF CtlShut
  <2> QED
    BY <2>1, <2>2, <2>3, <1>1, <1>3
<1>4. CASE ~on /\ s.enabled /\ w # <<>>
  <2> DEFINE v == [w EXCEPT ![n][2] = ctlNow]
  <2>1. CtlWindows(s, on) = v
    BY <1>4 DEF CtlWindows
  <2>2. n \in DOMAIN w /\ w[n] \in CtlWindowRecord
    BY <1>1, <1>4
  <2>3. [w[n] EXCEPT ![2] = ctlNow] \in CtlWindowRecord /\ [w[n] EXCEPT ![2] = ctlNow][2] = ctlNow
    BY <2>2 DEF CtlWindowRecord
  <2>4. v = [w EXCEPT ![n] = [w[n] EXCEPT ![2] = ctlNow]]
    OBVIOUS
  <2> HIDE DEF v
  <2>5. v \in Seq(CtlWindowRecord) /\ DOMAIN v = 1 .. n /\ v[n][2] = ctlNow /\ \A i \in 1 .. n : i # n => v[i] = w[i]
    BY <2>2, <2>3, <2>4, <1>1
  <2>6. \A i \in 1 .. n : v[i][2] # CtlNone
    <3> TAKE i \in 1 .. n
    <3>1. CASE i = n
      BY <3>1, <2>5 DEF CtlNone
    <3>2. CASE i # n
      BY <3>2, <2>5, <1>1 DEF CtlShut
    <3> QED
      BY <3>1, <3>2
  <2> QED
    BY <2>1, <2>5, <2>6, <1>4
<1>5. CASE ~(on /\ ~s.enabled) /\ ~(~on /\ s.enabled /\ w # <<>>)
  <2>1. CtlWindows(s, on) = w
    BY <1>5 DEF CtlWindows
  <2>2. w = <<>> \/ (on <=> s.enabled)
    BY <1>1, <1>5
  <2> QED
    BY <2>1, <2>2, <1>1 DEF CtlShut
<1> QED
  BY <1>3, <1>4, <1>5

(***************************************************************************)
(* The steps.                                                              *)
(***************************************************************************)
LEMMA CtlExecutes ==
  ASSUME CtlInductive, NEW c \in CtlCommands, CtlExecute(c)
  PROVE  CtlInductive'
<1> DEFINE k == CtlCommand[c].kind
           n == IF k \in CtlPublishing THEN Max(CtlForce(ctlConfigs')) ELSE Len(ctlLog) + 1
           e == [command |-> c, version |-> n]
<1>0. CtlTypeOK /\ CtlOneInForce /\ CtlFactsOwned
  BY DEF CtlInductive
<1>1. /\ ctlSeen[c] # CtlNone /\ ctlSeen[c] = CtlCurrent(c) /\ UNCHANGED <<ctlNow, ctlSeen, ctlPublished>>
      /\ ctlLog' = Append(ctlLog, e)
  BY DEF CtlExecute, CtlForce
<1>2. CASE k \in CtlConfigKinds /\ CtlConfigure(c)
  <2>1. /\ ctlConfigs' \in Seq(CtlConfigVersion) /\ UNCHANGED <<ctlFact, ctlDirectory, ctlPortrait, ctlStyle>>
        /\ k \notin CtlPublishing => CtlForce(ctlConfigs') = CtlForce(ctlConfigs)
        /\ k \in CtlPublishing => \E v \in DOMAIN ctlConfigs' : CtlForce(ctlConfigs') = {v}
    BY <1>2, CtlConfigures
  <2>2. CtlOneInForce'
    <3>1. CtlForce(ctlConfigs') = CtlForce(ctlConfigs) \/ \E v : CtlForce(ctlConfigs') = {v}
      BY <2>1
    <3>2. \A v, w \in CtlForce(ctlConfigs) : v = w
      BY <1>0 DEF CtlForce, CtlOneInForce
    <3>3. \A v, w \in CtlForce(ctlConfigs') : v = w
      BY <3>1, <3>2
    <3> QED
      BY <3>3 DEF CtlForce, CtlOneInForce
  <2>3. CtlPublishedAt = Max({0} \cup CtlForce(ctlConfigs)) /\ CtlPublishedAt' = Max({0} \cup CtlForce(ctlConfigs'))
    BY DEF CtlPublishedAt, CtlForce
  <2>4. ASSUME k \in CtlPublishing PROVE CtlPublishedAt' = Max(CtlForce(ctlConfigs')) /\ Max(CtlForce(ctlConfigs')) \in Nat
    <3>1. PICK v \in DOMAIN ctlConfigs' : CtlForce(ctlConfigs') = {v}
      BY <2>1, <2>4
    <3>2. v \in Nat
      BY <2>1
    <3>3. {v} \in SUBSET Nat /\ v \in {v} /\ \A y \in {v} : y <= v
      BY <3>2
    <3>4. {0} \cup {v} \in SUBSET Nat /\ v \in {0} \cup {v} /\ \A y \in {0} \cup {v} : y <= v
      BY <3>2
    <3>5. Max({v}) = v
      BY <3>3, CtlGreatestIs
    <3>6. Max({0} \cup {v}) = v
      BY <3>4, CtlGreatestIs
    <3> QED
      BY <2>3, <3>1, <3>2, <3>5, <3>6
  <2>5. k \notin CtlPublishing => CtlPublishedAt' = CtlPublishedAt
    BY <2>1, <2>3
  <2>6. e \in CtlResult /\ e.command = c /\ (k \in CtlPublishing => e.version = CtlPublishedAt')
    <3>1. Len(ctlLog) + 1 \in Nat
      BY <1>0 DEF CtlTypeOK
    <3>2. n \in Nat /\ (k \in CtlPublishing => n = CtlPublishedAt')
      BY <3>1, <2>4
    <3> HIDE DEF k, n
    <3> QED
      BY <3>2 DEF CtlResult
  <2>7. k \in CtlPublishing => ctlSeen[c] = CtlPublishedAt
    BY <1>1, <1>2 DEF CtlCurrent, CtlConfigKinds, CtlPublishing
  <2> HIDE DEF e, k
  <2>8. CtlComposed' /\ CtlChain'
    BY <1>1, <2>5, <2>6, <2>7, CtlLogs DEF k
  <2>9. CtlTypeOK'
    BY <1>0, <1>1, <2>1, <2>6 DEF CtlTypeOK
  <2>10. CtlFactsOwned'
    BY <1>0, <2>1 DEF CtlFactsOwned
  <2> QED
    BY <2>2, <2>8, <2>9, <2>10 DEF CtlInductive
<1>3. CASE k \notin CtlConfigKinds
  <2>1. k \notin CtlPublishing
    BY <1>3 DEF CtlConfigKinds, CtlPublishing
  <2>2. /\ ctlFact' \in [CtlFacts -> CtlFactRecord] /\ ctlDirectory' \subseteq CtlMembers
        /\ ctlPortrait' \in [CtlMembers -> Nat \cup {CtlNone}] /\ CtlKept' /\ UNCHANGED ctlConfigs
        /\ ctlStyle' \in [CtlMembers -> CtlStyleRecord] /\ \A m \in CtlMembers : CtlShut(ctlStyle'[m])
    <3>1. /\ ctlFact \in [CtlFacts -> CtlFactRecord] /\ ctlDirectory \subseteq CtlMembers
          /\ ctlPortrait \in [CtlMembers -> Nat \cup {CtlNone}] /\ CtlKept
          /\ ctlStyle \in [CtlMembers -> CtlStyleRecord] /\ \A m \in CtlMembers : CtlShut(ctlStyle[m])
      BY <1>0 DEF CtlTypeOK, CtlFactRecord, CtlStyleRecord, CtlWindowRecord, CtlFactsOwned, CtlKept, CtlShut
    <3>2. CASE k \in {"correct", "reject", "merge", "split"}
      <4>1. CtlProfile(c)
        BY <3>2 DEF CtlExecute, CtlConfigKinds, CtlPublishing
      <4>2. /\ ctlFact' \in [CtlFacts -> CtlFactRecord] /\ ctlDirectory' \subseteq CtlMembers
            /\ ctlPortrait' \in [CtlMembers -> Nat \cup {CtlNone}] /\ CtlKept' /\ UNCHANGED <<ctlConfigs, ctlStyle>>
        BY <4>1, <3>2, <1>1, CtlProfiles
      <4> QED
        BY <3>1, <4>2
    <3>3. CASE k = "style"
      <4> DEFINE m == CtlCommand[c].member
                 on == CtlCommand[c].enabled
                 r == [enabled |-> on, version |-> ctlStyle[m].version + 1, windows |-> CtlWindows(ctlStyle[m], on)]
      <4>1. CtlDistil(c)
        BY <3>3 DEF CtlExecute, CtlConfigKinds, CtlPublishing
      <4>2. m \in CtlMembers /\ on \in BOOLEAN
        BY <3>3, CtlSays
      <4>3. /\ UNCHANGED <<ctlConfigs, ctlFact, ctlDirectory, ctlPortrait>>
            /\ ctlStyle' = [ctlStyle EXCEPT ![m] = r]
        BY <4>1 DEF CtlDistil
      <4> HIDE DEF m, on
      <4>4. ctlNow \in Nat
        BY <1>0, CtlConstants DEF CtlTypeOK
      <4>5. r \in CtlStyleRecord /\ CtlShut(r)
        BY <3>1, <4>2, <4>4, CtlSwitches
      <4> HIDE DEF r
      <4>6. ctlStyle' \in [CtlMembers -> CtlStyleRecord] /\ \A x \in CtlMembers : ctlStyle'[x] = IF x = m THEN r ELSE ctlStyle[x]
        BY <3>1, <4>2, <4>3, <4>5
      <4>7. CtlKept'
        BY <3>1, <4>3 DEF CtlKept
      <4> QED
        BY <3>1, <4>3, <4>5, <4>6, <4>7
    <3>4. CASE k = "pause"
      <4>1. UNCHANGED <<ctlConfigs, ctlFact, ctlDirectory, ctlPortrait, ctlStyle>>
        BY <3>4 DEF CtlExecute, CtlConfigKinds, CtlPublishing
      <4>2. CtlKept'
        BY <3>1, <4>1 DEF CtlKept
      <4> QED
        BY <3>1, <4>1, <4>2
    <3> QED
      BY <1>3, <3>2, <3>3, <3>4, CtlSays
  <2>3. CtlPublishedAt' = CtlPublishedAt
    BY <2>2 DEF CtlPublishedAt
  <2>4. e \in CtlResult /\ e.command = c
    BY <2>1, <1>0 DEF CtlResult, CtlTypeOK
  <2> HIDE DEF e, k
  <2>5. CtlComposed' /\ CtlChain'
    BY <1>1, <2>1, <2>3, <2>4, CtlLogs DEF k
  <2>6. ctlLog' \in Seq(CtlResult)
    BY <1>0, <1>1, <2>4 DEF CtlTypeOK
  <2>7. CtlTypeOK'
    BY <1>0, <1>1, <2>2, <2>6 DEF CtlTypeOK, CtlFactRecord, CtlStyleRecord, CtlWindowRecord
  <2>8. CtlFactsOwned' /\ CtlOneInForce'
    BY <1>0, <2>2 DEF CtlFactsOwned, CtlKept, CtlShut, CtlOneInForce
  <2> QED
    BY <2>5, <2>7, <2>8 DEF CtlInductive
<1>4. k \in CtlConfigKinds => CtlConfigure(c)
  BY DEF CtlExecute, CtlConfigKinds, CtlPublishing
<1> QED
  BY <1>2, <1>3, <1>4

LEMMA CtlComposes ==
  ASSUME CtlInductive, NEW c \in CtlCommands, CtlCompose(c)
  PROVE  CtlInductive'
<1>1. /\ ctlSeen[c] = CtlNone /\ ctlSeen' = [ctlSeen EXCEPT ![c] = CtlCurrent(c)]
      /\ UNCHANGED <<ctlNow, ctlConfigs, ctlFact, ctlDirectory, ctlPortrait, ctlStyle, ctlLog, ctlPublished>>
      /\ CtlTypeOK /\ CtlOneInForce /\ CtlComposed /\ CtlChain /\ CtlFactsOwned
  BY DEF CtlCompose, CtlInductive
<1>2. CtlTypeOK'
  BY <1>1, CtlKnows DEF CtlTypeOK, CtlContexts
<1>3. CtlOneInForce' /\ CtlFactsOwned' /\ CtlPublishedAt' = CtlPublishedAt
  BY <1>1 DEF CtlOneInForce, CtlFactsOwned, CtlPublishedAt
<1>4. \A i \in DOMAIN ctlLog : ctlSeen'[ctlLog[i].command] = ctlSeen[ctlLog[i].command]
  <2> TAKE i \in DOMAIN ctlLog
  <2>1. ctlLog[i] \in CtlResult
    BY <1>1 DEF CtlTypeOK
  <2>2. ctlLog[i].command \in CtlCommands /\ ctlLog[i].command # c
    BY <2>1, <1>1 DEF CtlResult, CtlComposed
  <2> QED
    BY <2>2, <1>1 DEF CtlTypeOK, CtlContexts
<1>5. CtlComposed'
  BY <1>1, <1>4 DEF CtlComposed
<1>6. CtlMade' = CtlMade /\ CtlMade \subseteq DOMAIN ctlLog
  BY <1>1 DEF CtlMade
<1>7. CtlChain'
  BY <1>1, <1>3, <1>4, <1>6 DEF CtlChain, CtlProduced
<1> QED
  BY <1>2, <1>3, <1>5, <1>7 DEF CtlInductive

LEMMA CtlStep == CtlInductive /\ [CtlNext]_ctlVars => CtlInductive'
<1> SUFFICES ASSUME CtlInductive, [CtlNext]_ctlVars PROVE CtlInductive'
  OBVIOUS
<1>1. ASSUME UNCHANGED <<ctlSeen, ctlConfigs, ctlFact, ctlDirectory, ctlPortrait, ctlStyle, ctlLog>>, CtlTypeOK'
      PROVE  CtlInductive'
  BY <1>1 DEF CtlInductive, CtlOneInForce, CtlComposed, CtlChain, CtlMade, CtlProduced, CtlPublishedAt, CtlFactsOwned
<1>2. CASE UNCHANGED ctlVars
  <2>1. CtlTypeOK'
    BY <1>2 DEF CtlInductive, CtlTypeOK, ctlVars
  <2> QED
    BY <1>1, <1>2, <2>1 DEF ctlVars
<1>3. CASE CtlTick
  <2>1. CtlTypeOK'
    BY <1>3, CtlConstants DEF CtlInductive, CtlTypeOK, CtlTick
  <2> QED
    BY <1>1, <1>3, <2>1 DEF CtlTick
<1>4. ASSUME NEW c \in CtlCommands, CtlTell(c) PROVE CtlInductive'
  <2>1. CtlTypeOK'
    BY <1>4 DEF CtlInductive, CtlTypeOK, CtlTell
  <2> QED
    BY <1>1, <1>4, <2>1 DEF CtlTell
<1> QED
  BY <1>2, <1>3, <1>4, CtlComposes, CtlExecutes DEF CtlNext

LEMMA CtlAlways == CtlSpec => []CtlInductive
BY CtlBegins, CtlStep, PTL DEF CtlSpec

\* Every variable of the commands keeps its type.
THEOREM CtlTypes == CtlSpec => []CtlTypeOK
<1>1. CtlInductive => CtlTypeOK
  BY DEF CtlInductive
<1> QED
  BY <1>1, CtlAlways, PTL

\* However the commands of several operators interleave and are repeated, one version at most is in
\* force, each publication was made by someone who saw the one before it, and every stored fact
\* belongs to a member of the directory.
THEOREM CtlStaysSound == CtlSpec => []CtlSound
<1>1. CtlInductive => CtlSound
  <2> SUFFICES ASSUME CtlInductive PROVE CtlSound
    OBVIOUS
  <2>1. Cardinality(CtlForce(ctlConfigs)) <= 1
    <3>1. CASE CtlForce(ctlConfigs) = {}
      BY <3>1, FS_EmptySet
    <3>2. ASSUME NEW v \in CtlForce(ctlConfigs) PROVE Cardinality(CtlForce(ctlConfigs)) <= 1
      <4>1. CtlForce(ctlConfigs) = {v}
        BY <3>2 DEF CtlInductive, CtlOneInForce, CtlForce
      <4> QED
        BY <4>1, FS_Singleton
    <3> QED
      BY <3>1, <3>2
  <2> QED
    BY <2>1 DEF CtlInductive, CtlSound, CtlPublicationChain, CtlChain, CtlForce
<1> QED
  BY <1>1, CtlAlways, PTL
=============================================================================
