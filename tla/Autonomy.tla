------------------------------ MODULE Autonomy ------------------------------
(***************************************************************************)
(* The scheduler of autonomous opportunities (autonomy.py): a row per      *)
(* opportunity, runs of run_due that revalidate what is due and hand an    *)
(* event to the sink, and the one follow-up.  Runs of one event loop       *)
(* overlap at the sink: a second call while the first awaits it.  Looking  *)
(* at a row, revalidating it and claiming it has no await in between, so   *)
(* an iteration up to the sink is one step; two processes on one file,     *)
(* between which the claim of either may fail, are not modelled.  The      *)
(* scene the revalidator looks at is a version that grows.                 *)
(***************************************************************************)
EXTENDS Naturals, Sequences, FiniteSets, SequencesExt

CONSTANTS
  AutOpportunities,
  AutEarliest, AutExpires,   \* opportunity -> its window
  AutMaxAttempts,            \* opportunity -> 1 or 2
  AutRuns,                   \* runs of run_due, at most one of each at a time
  AutVersions,               \* the last scene version
  AutAllows,                 \* version -> do scene, relation, boundary and budget allow
  AutQuiet,                  \* version -> quiet_until, 0 for none
  AutLastTime                \* bound of the clock

\* What the revalidator may say of each version.
AutRevalidations == [allows : [1 .. AutVersions -> BOOLEAN], quiet : [1 .. AutVersions -> Nat]]

ASSUME AutConstants ==
  /\ IsFiniteSet(AutOpportunities)
  /\ AutEarliest \in [AutOpportunities -> Nat] /\ AutExpires \in [AutOpportunities -> Nat]
  /\ \A o \in AutOpportunities : AutEarliest[o] < AutExpires[o]
  /\ AutMaxAttempts \in [AutOpportunities -> 1 .. 2]
  /\ AutVersions \in Nat \ {0} /\ AutLastTime \in Nat
  /\ [allows |-> AutAllows, quiet |-> AutQuiet] \in AutRevalidations

VARIABLES
  autNow, autScene,
  autRow,     \* autonomous_opportunities: opportunity -> its state
  autRun,     \* run -> its time, the opportunities left, the one at the sink
  autSent     \* events the Fabric accepted; it ignores an id it knows
autVars == <<autNow, autScene, autRow, autRun, autSent>>

AutAbsent == [status |-> "absent"]
AutIdle == [phase |-> "idle"]
AutAtSink(r) == autRun[r].phase = "sink"

AutInit ==
  /\ autNow = 0 /\ autScene = 1
  /\ autRow = [o \in AutOpportunities |-> AutAbsent]
  /\ autRun = [r \in AutRuns |-> AutIdle] /\ autSent = {}

AutTick ==
  /\ autNow < AutLastTime /\ autNow' = autNow + 1
  /\ UNCHANGED <<autScene, autRow, autRun, autSent>>

AutSceneMoves ==
  /\ autScene < AutVersions /\ autScene' = autScene + 1
  /\ UNCHANGED <<autNow, autRow, autRun, autSent>>

AutSchedule(o) ==
  /\ autRow[o].status = "absent"
  /\ autRow' = [autRow EXCEPT ![o] = [status |-> "scheduled", earliest |-> AutEarliest[o], attempts |-> 0,
                                      followups |-> 0, scene |-> 0]]
  /\ UNCHANGED <<autNow, autScene, autRun, autSent>>

\* schedule_followup: its caller reads and writes without waiting.
AutMayFollowUp(o) ==
  /\ autRow[o].status = "emitted"
  /\ autRow[o].attempts < AutMaxAttempts[o] /\ autRow[o].followups < 1

AutFollowUp(o) ==
  /\ AutMayFollowUp(o)
  /\ \E t \in autNow .. AutExpires[o] - 1 :
       autRow' = [autRow EXCEPT ![o].earliest = t, ![o].followups = @ + 1, ![o].status = "scheduled"]
  /\ UNCHANGED <<autNow, autScene, autRun, autSent>>

------------------------------------------------------------------------------
(* run_due                                                                  *)

\* _due_ids, in the order of their earliest time.
AutDue ==
  {o \in AutOpportunities : autRow[o].status \in {"scheduled", "emitting"} /\ autRow[o].earliest <= autNow}
AutInOrder(s) == \A i, j \in DOMAIN s : i < j => autRow[s[i]].earliest <= autRow[s[j]].earliest

AutBegin(r) ==
  /\ autRun[r] = AutIdle /\ AutDue # {}
  /\ \E s \in {x \in SetToSeqs(AutDue) : AutInOrder(x)} :
       autRun' = [autRun EXCEPT ![r] = [phase |-> "list", now |-> autNow, left |-> s]]
  /\ UNCHANGED <<autNow, autScene, autRow, autSent>>

AutRest(run) == IF Len(run.left) = 1 THEN AutIdle ELSE [phase |-> "list", now |-> run.now, left |-> Tail(run.left)]

\* _claim: the attempt is counted before anything is sent.
AutClaimed(row, o) ==
  IF row.attempts >= AutMaxAttempts[o] THEN [row EXCEPT !.status = "expired"]
  ELSE [row EXCEPT !.attempts = @ + 1, !.status = "emitting"]

\* What the iteration makes of a row it does not expire: the scene it saw, a
\* later time, or a claim.  Whatever the row became since the list was made, it
\* is not asked again whether it is due.
AutAllowed_claimed(row) == AutAllows[autScene] \/ row.status = "emitting"
AutAllowed(row) == AutAllows[autScene]

AutSeen(o, now) ==
  LET row == [autRow[o] EXCEPT !.scene = autScene]
      quiet == AutQuiet[autScene]
  IN IF quiet > now
     THEN IF quiet >= AutExpires[o] THEN [row EXCEPT !.status = "expired"] ELSE [row EXCEPT !.earliest = quiet]
     ELSE IF AutAllowed(row) /\ row.status = "scheduled" THEN AutClaimed(row, o) ELSE row

AutReaches(o, now) ==
  /\ AutQuiet[autScene] <= now /\ AutAllowed(autRow[o])
  /\ AutSeen(o, now).status = "emitting"

AutOver_late(o, now) == AutExpires[o] < now
AutOver(o, now) == AutExpires[o] <= now

AutIterate(r) ==
  /\ autRun[r].phase = "list"
  /\ LET run == autRun[r]
         o == Head(run.left)
     IN /\ autRow' = [autRow EXCEPT ![o] = IF AutOver(o, run.now) THEN [@ EXCEPT !.status = "expired"] ELSE AutSeen(o, run.now)]
        /\ autRun' = [autRun EXCEPT ![r] =
             IF AutOver(o, run.now) \/ ~ AutReaches(o, run.now) THEN AutRest(run)
             ELSE [phase |-> "sink", now |-> run.now, left |-> run.left, row |-> AutSeen(o, run.now)]]
  /\ UNCHANGED <<autNow, autScene, autSent>>

\* The Fabric accepts the event; run_due has not gone on yet.
AutEvent(o, row, now) == [opportunity |-> o, attempt |-> row.attempts, at |-> now, scene |-> row.scene]
AutKnown(o, row) == \E e \in autSent : e.opportunity = o /\ e.attempt = row.attempts

AutSink(r) ==
  /\ AutAtSink(r)
  /\ LET run == autRun[r]
         o == Head(run.left)
     IN autSent' = IF AutKnown(o, run.row) THEN autSent ELSE autSent \cup {AutEvent(o, run.row, run.now)}
  /\ autRun' = [autRun EXCEPT ![r].phase = "answered"]
  /\ UNCHANGED <<autNow, autScene, autRow>>

\* The row is marked when it is still the one the event was made of.
AutStill_any(o, row) == autRow[o].status # "absent"
AutStill(o, row) == autRow[o] = row

AutComplete(r) ==
  /\ autRun[r].phase = "answered"
  /\ LET run == autRun[r]
         o == Head(run.left)
     IN /\ autRow' = IF AutStill(o, run.row) THEN [autRow EXCEPT ![o] = [run.row EXCEPT !.status = "emitted"]] ELSE autRow
        /\ autRun' = [autRun EXCEPT ![r] = AutRest(run)]
  /\ UNCHANGED <<autNow, autScene, autSent>>

\* The sink raises, the run is cancelled, or the process stops.
AutFail(r) ==
  /\ autRun[r] # AutIdle /\ autRun' = [autRun EXCEPT ![r] = AutIdle]
  /\ UNCHANGED <<autNow, autScene, autRow, autSent>>

AutNext ==
  \/ AutTick \/ AutSceneMoves
  \/ \E o \in AutOpportunities : AutSchedule(o) \/ AutFollowUp(o)
  \/ \E r \in AutRuns : AutBegin(r) \/ AutIterate(r) \/ AutSink(r) \/ AutComplete(r) \/ AutFail(r)

AutSpec == AutInit /\ [][AutNext]_autVars

------------------------------------------------------------------------------
\* An opportunity is never due before it was first, never tried or followed up
\* more often than it may be, and what was emitted was tried.
AutRecord == [status : {"scheduled", "emitting", "emitted", "expired"}, earliest : Nat, attempts : 0 .. 2,
              followups : 0 .. 1, scene : 0 .. AutVersions]
AutOpportunity(o) ==
  {x \in AutRecord : /\ x.earliest >= AutEarliest[o] /\ x.attempts <= AutMaxAttempts[o]
                     /\ x.status \in {"emitting", "emitted"} => x.attempts > 0}
AutRunStates ==
  LET lists == Seq(AutOpportunities) \ {<<>>} IN
  {AutIdle} \cup [phase : {"list"}, now : 0 .. AutLastTime, left : lists]
            \cup [phase : {"sink", "answered"}, now : 0 .. AutLastTime, left : lists,
                  row : AutRecord]
AutTypeOK ==
  /\ autNow \in 0 .. AutLastTime /\ autScene \in 1 .. AutVersions
  /\ DOMAIN autRow = AutOpportunities
  /\ \A o \in AutOpportunities : autRow[o] \in {AutAbsent} \cup AutOpportunity(o)
  /\ autRun \in [AutRuns -> AutRunStates]
  /\ autSent \in SUBSET [opportunity : AutOpportunities, attempt : 1 .. 2, at : 0 .. AutLastTime, scene : 1 .. AutVersions]

AutSpoken(o) == {e \in autSent : e.opportunity = o}
\* However runs overlap, are cancelled or begin again, an opportunity speaks
\* once, and once more only for its one follow-up: the sink never hears more
\* different events than that (MAX_AUTONOMOUS_FOLLOWUPS, _claim, _persist).
AutSpeaksOnce ==
  \A o \in AutOpportunities : AutSpoken(o) # {} => Cardinality(AutSpoken(o)) <= 1 + autRow[o].followups

\* Every event lies in the window of its opportunity and carries a scene that
\* allowed it, also when another run finishes what an interrupted one claimed
\* (run_due revalidates an EMITTING row).
AutJustified ==
  \A e \in autSent :
    /\ AutEarliest[e.opportunity] <= e.at /\ e.at < AutExpires[e.opportunity]
    /\ AutAllows[e.scene] /\ AutQuiet[e.scene] <= e.at
==============================================================================
