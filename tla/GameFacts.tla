------------------------------ MODULE GameFacts ------------------------------
(***************************************************************************)
(* What the knowledge subsystem holds true of one game in one region and   *)
(* on one platform: its version slots with their release, official and     *)
(* rumor tracks (release_state.py) under one aggregate revision, remembered *)
(* negative searches, claims admitted from sources, and the bundled seed   *)
(* (repository.py, seeds.py).                                              *)
(***************************************************************************)
EXTENDS Integers, FiniteSets, FiniteSetsExt

CONSTANTS
  FactsSlots, FactsInitial,   \* version slots and the states they are first stored in
  FactsReleaseAt,             \* slot -> release_at, Missing if unknown
  FactsClaims,                \* candidates for one subject, predicate and slot
  FactsLevel, FactsKind, FactsChecked,   \* claim -> evidence level, claim kind, checked_at
  FactsVersionOf,             \* bundled claim -> its seed version
  FactsEditors,               \* callers that load, derive and save a slot
  FactsSnapshots,             \* identities of negative snapshots
  FactsLastTime               \* bound

FactsMissing == -1
FactsTracks == {"release", "official", "rumor"}
\* Positions in: future current past; none teaser preview notice released;
\* none_observed weak corroborated conflicted stale.
FactsTop == [release |-> 2, official |-> 4, rumor |-> 4]
FactsTimes == 0 .. FactsLastTime
FactsSlot == [at : [FactsTracks -> 0 .. 4], checked : [FactsTracks -> FactsTimes \cup {FactsMissing}],
              announced : FactsTimes \cup {FactsMissing}, revision : Nat, status : {"active", "superseded"}]
FactsRank == [unofficial |-> 1, secondary |-> 2, corroborated |-> 3, bundled |-> 4, official |-> 5]
FactsBundled == {c \in FactsClaims : FactsLevel[c] = "bundled"}

ASSUME FactsConstants ==
  /\ FactsInitial \in [FactsSlots -> FactsSlot]
  /\ FactsSlots # {} /\ \A s, r \in FactsSlots : FactsInitial[s].revision = FactsInitial[r].revision
  /\ FactsLastTime \in Nat
  /\ FactsReleaseAt \in [FactsSlots -> FactsTimes \cup {FactsMissing}]
  /\ FactsLevel \in [FactsClaims -> DOMAIN FactsRank]
  /\ FactsKind \in [FactsClaims -> {"public_fact", "stable_semantic", "rumor"}]
  /\ FactsChecked \in [FactsClaims -> FactsTimes] /\ FactsVersionOf \in [FactsBundled -> Nat \ {0}]

VARIABLES
  factsNow,
  factsSlot,      \* game_release_states
  factsDraft,     \* editor -> the slot it derived and the revision it loaded
  factsNegative,  \* negative_search_snapshots
  factsClaim,     \* status in knowledge_claims
  factsSeed,      \* active seed version, 0 if none
  factsImported   \* stored seed versions
factsVars == <<factsNow, factsSlot, factsDraft, factsNegative, factsClaim, factsSeed, factsImported>>

FactsNoDraft == [slot |-> CHOOSE s \in FactsSlots : TRUE, state |-> FactsInitial[CHOOSE s \in FactsSlots : TRUE], expected |-> FactsMissing]
FactsRevision == Max({factsSlot[s].revision : s \in FactsSlots})

FactsInit ==
  /\ factsNow = 0 /\ factsSlot = FactsInitial
  /\ factsDraft = [e \in FactsEditors |-> FactsNoDraft]
  /\ factsNegative = [n \in FactsSnapshots |-> [status |-> "absent", revision |-> 0, expires |-> 0]]
  /\ factsClaim = [c \in FactsClaims |-> "absent"]
  /\ factsSeed = 0 /\ factsImported = {}

FactsTick == factsNow < FactsLastTime /\ factsNow' = factsNow + 1
             /\ UNCHANGED <<factsSlot, factsDraft, factsNegative, factsClaim, factsSeed, factsImported>>
FactsForgotten(why) ==
  factsNegative' = [n \in FactsSnapshots |-> IF factsNegative[n].status = "active"
                      THEN [factsNegative[n] EXCEPT !.status = why] ELSE factsNegative[n]]

----------------------------------------------------------------------------
(* Release tracks.                                                         *)
\* What VersionSlot.create insists on.
FactsValid(s, v) ==
  /\ v.at["official"] = 4 => v.at["release"] >= 1 /\ FactsReleaseAt[s] # FactsMissing
  /\ v.announced # FactsMissing /\ FactsReleaseAt[s] # FactsMissing => v.announced <= FactsReleaseAt[s]

ASSUME FactsFirstValid == \A s \in FactsSlots : FactsValid(s, FactsInitial[s])

\* Evidence moves its own track by one position, or refreshes it; old evidence
\* and a release before the verified time are refused.
FactsRefused(s, v, track, target, t) ==
  \/ v.checked[track] # FactsMissing /\ t < v.checked[track]
  \/ /\ <<track, target>> \in {<<"release", 1>>, <<"official", 4>>}
     /\ FactsReleaseAt[s] # FactsMissing /\ t < FactsReleaseAt[s]
  \/ target \notin {v.at[track], v.at[track] + 1}
  \/ target # v.at[track] /\ <<track, target>> = <<"official", 4>> /\ v.at["release"] = 0
FactsApplied(s, v, track, target, t) ==
  IF FactsRefused(s, v, track, target, t) \/ (target = v.at[track] /\ v.checked[track] = t) THEN v
  ELSE [v EXCEPT !.at[track] = target, !.checked[track] = t, !.revision = @ + 1,
                 !.announced = IF track = "official" /\ @ = FactsMissing THEN t ELSE @]

\* mutant: a saved slot keeps what was not found before
FactsWrite_keeps(slots, revision) ==
  factsSlot' = [s \in FactsSlots |-> [slots[s] EXCEPT !.revision = revision]] /\ UNCHANGED factsNegative
FactsWrite(slots, revision) ==
  /\ factsSlot' = [s \in FactsSlots |-> [slots[s] EXCEPT !.revision = revision]]
  /\ FactsForgotten("invalidated")

FactsDerive(e, s, track, target, t) ==
  /\ factsDraft[e] = FactsNoDraft
  /\ t <= factsNow /\ target <= FactsTop[track]
  /\ LET v == FactsApplied(s, factsSlot[s], track, target, t) IN
       /\ v # factsSlot[s] /\ FactsValid(s, v)
       /\ factsDraft' = [factsDraft EXCEPT ![e] = [slot |-> s, state |-> v, expected |-> FactsRevision]]
  /\ UNCHANGED <<factsNow, factsSlot, factsNegative, factsClaim, factsSeed, factsImported>>
\* save_release_state: refused unless the aggregate is as it was when loaded.
\* mutant: the compare-and-swap is dropped
FactsCurrent_always(d) == TRUE
FactsCurrent(d) == d.expected = FactsRevision
FactsSave(e) ==
  /\ factsDraft[e] # FactsNoDraft
  /\ IF FactsCurrent(factsDraft[e])
     THEN FactsWrite([factsSlot EXCEPT ![factsDraft[e].slot] = factsDraft[e].state], factsDraft[e].state.revision)
     ELSE UNCHANGED <<factsSlot, factsNegative>>
  /\ factsDraft' = [factsDraft EXCEPT ![e] = FactsNoDraft]
  /\ UNCHANGED <<factsNow, factsClaim, factsSeed, factsImported>>

\* A completed official probe confirms the official state of every announced
\* slot, all in one transaction, or fails as a whole.
FactsProbe(t) ==
  /\ t <= factsNow
  /\ LET next == [s \in FactsSlots |-> IF factsSlot[s].at["official"] = 0 THEN factsSlot[s]
                    ELSE FactsApplied(s, factsSlot[s], "official", factsSlot[s].at["official"], t)] IN
       /\ next # factsSlot /\ \A s \in FactsSlots : FactsValid(s, next[s])
       /\ FactsWrite(next, FactsRevision + 1)
  /\ UNCHANGED <<factsNow, factsDraft, factsClaim, factsSeed, factsImported>>

----------------------------------------------------------------------------
(* Negative searches.                                                      *)
\* The search was made at some revision; only the current one may be stored.
FactsNothingFound(n, revision, expires) ==
  /\ factsNegative[n].status = "absent" /\ revision = FactsRevision /\ revision > 0 /\ expires > factsNow
  /\ factsNegative' = [x \in FactsSnapshots |->
       IF x = n THEN [status |-> "active", revision |-> revision, expires |-> expires]
       ELSE IF factsNegative[x].status = "active" THEN [factsNegative[x] EXCEPT !.status = "invalidated"]
       ELSE factsNegative[x]]
  /\ UNCHANGED <<factsNow, factsSlot, factsDraft, factsClaim, factsSeed, factsImported>>
\* Reading discards what has expired or was checked against another revision.
FactsUsable(n) == factsNegative[n].expires > factsNow /\ factsNegative[n].revision = FactsRevision
FactsRead ==
  /\ \E n \in FactsSnapshots : factsNegative[n].status = "active" /\ ~FactsUsable(n)
  /\ factsNegative' = [n \in FactsSnapshots |->
       IF factsNegative[n].status # "active" \/ FactsUsable(n) THEN factsNegative[n]
       ELSE [factsNegative[n] EXCEPT !.status = IF factsNegative[n].expires <= factsNow THEN "expired" ELSE "invalidated"]]
  /\ UNCHANGED <<factsNow, factsSlot, factsDraft, factsClaim, factsSeed, factsImported>>

----------------------------------------------------------------------------
(* Claims and the seed.                                                    *)
FactsComparable == {c \in FactsClaims : factsClaim[c] = "active" /\ FactsKind[c] # "rumor"}
FactsDominates(c) ==
  \A d \in FactsComparable :
    \/ FactsRank[FactsLevel[c]] > FactsRank[FactsLevel[d]]
    \/ FactsLevel[c] = FactsLevel[d] /\ FactsChecked[c] > FactsChecked[d]
\* admit_claim: a claim that does not dominate every active one is not stored.
FactsAdmit(c) ==
  /\ factsClaim[c] = "absent" /\ c \notin FactsBundled /\ FactsChecked[c] <= factsNow
  /\ FactsKind[c] # "rumor" => FactsDominates(c)
  /\ factsClaim' = [d \in FactsClaims |-> IF d = c THEN "active"
                      ELSE IF FactsKind[c] # "rumor" /\ d \in FactsComparable THEN "superseded" ELSE factsClaim[d]]
  /\ IF FactsLevel[c] = "official" THEN FactsForgotten("invalidated") ELSE UNCHANGED factsNegative
  /\ UNCHANGED <<factsNow, factsSlot, factsDraft, factsSeed, factsImported>>
\* Enrichment stored official evidence that was not known before, or an
\* administrator invalidated the cache.
FactsNews ==
  /\ \E n \in FactsSnapshots : factsNegative[n].status = "active"
  /\ FactsForgotten("invalidated")
  /\ UNCHANGED <<factsNow, factsSlot, factsDraft, factsClaim, factsSeed, factsImported>>
FactsDispute(c) ==
  /\ factsClaim[c] \notin {"absent", "disputed"}
  /\ factsClaim' = [factsClaim EXCEPT ![c] = "disputed"] /\ FactsForgotten("invalidated")
  /\ UNCHANGED <<factsNow, factsSlot, factsDraft, factsSeed, factsImported>>

\* mutant: a new seed leaves the claims of the old one
FactsReplaced_none == factsClaim
FactsReplaced == [c \in FactsClaims |-> IF c \in FactsBundled /\ factsClaim[c] = "active" THEN "superseded" ELSE factsClaim[c]]
\* A version is stored once; an older one than the active seed is refused.
FactsImport(v) ==
  /\ v \notin factsImported /\ factsSeed <= v
  /\ factsImported' = factsImported \cup {v} /\ factsSeed' = v
  /\ factsClaim' = [c \in FactsClaims |-> IF c \in FactsBundled /\ FactsVersionOf[c] = v THEN "active" ELSE FactsReplaced[c]]
  /\ UNCHANGED <<factsNow, factsSlot, factsDraft, factsNegative>>
FactsRetire ==
  /\ factsSeed # 0 /\ factsSeed' = 0
  /\ factsClaim' = FactsReplaced /\ FactsForgotten("invalidated")
  /\ factsSlot' = [s \in FactsSlots |-> [factsSlot[s] EXCEPT !.status = "superseded"]]
  /\ UNCHANGED <<factsNow, factsDraft, factsImported>>

FactsNext ==
  \/ FactsTick \/ FactsRead \/ FactsNews \/ FactsRetire
  \/ \E e \in FactsEditors : FactsSave(e) \/ \E s \in FactsSlots, track \in FactsTracks, target \in 0 .. 4, t \in FactsTimes :
       FactsDerive(e, s, track, target, t)
  \/ \E t \in FactsTimes : FactsProbe(t)
  \/ \E n \in FactsSnapshots : FactsNothingFound(n, FactsRevision, FactsLastTime)
  \/ \E c \in FactsClaims : FactsAdmit(c) \/ FactsDispute(c)
  \/ \E c \in FactsBundled : FactsImport(FactsVersionOf[c])
FactsSpec == FactsInit /\ [][FactsNext]_factsVars

----------------------------------------------------------------------------
FactsStates == [FactsSlots -> FactsSlot]
FactsTransition == [slot : FactsSlots, state : FactsSlot, expected : Nat \cup {FactsMissing}]
FactsSnapshot == [status : {"absent", "active", "invalidated", "expired"}, revision : Nat, expires : FactsTimes]
FactsClaimStates == {"absent", "active", "superseded", "disputed"}
FactsSeedVersions == SUBSET Nat
FactsTypeOK ==
  /\ factsNow \in FactsTimes
  /\ factsSlot \in FactsStates
  /\ factsDraft \in [FactsEditors -> FactsTransition]
  /\ factsNegative \in [FactsSnapshots -> FactsSnapshot]
  /\ factsClaim \in [FactsClaims -> FactsClaimStates]
  /\ factsSeed \in Nat /\ factsImported \in FactsSeedVersions

\* Editors that load, derive and save concurrently with probes never lose an
\* update: a track moves one position forward at a time, its checks never get
\* older, and a slot is called released only when its release is verified.
FactsTracksForward ==
  \A s \in FactsSlots, track \in FactsTracks :
     /\ factsSlot'[s].at[track] \in {factsSlot[s].at[track], factsSlot[s].at[track] + 1}
     /\ factsSlot'[s].checked[track] >= factsSlot[s].checked[track]
     /\ FactsValid(s, factsSlot'[s])

\* "No update was found" is remembered only as long as nothing changed: an
\* active negative snapshot is of the current revision, which all slots share,
\* and there is at most one.
FactsNegativeIsCurrent ==
  /\ \A s \in FactsSlots : factsSlot[s].revision = FactsRevision
  /\ \A n, k \in FactsSnapshots :
       factsNegative[n].status = "active" /\ factsNegative[k].status = "active" =>
         n = k /\ factsNegative[n].revision = FactsRevision

\* Of the claims sources gave about one thing at most one is active, rumors
\* apart, and no bundled claim outlives the seed version it came with.
FactsOneTruth ==
  /\ Cardinality(FactsComparable \ FactsBundled) <= 1
  /\ \A c \in FactsBundled : factsClaim[c] = "active" => FactsVersionOf[c] = factsSeed

\* Probes, seeds, sources and editors that cross leave one truth about each fact, and "nothing new"
\* is remembered only while nothing is new.
FactsSound == FactsNegativeIsCurrent /\ FactsOneTruth
=============================================================================
