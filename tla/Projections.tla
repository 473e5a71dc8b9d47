----------------------------- MODULE Projections -----------------------------
(***************************************************************************)
(* The read models of the control plane (control/projections.py): each     *)
(* consumes the journal at its own cursor and can be rebuilt while others  *)
(* go on; the stream (control/stream.py) hands the events of all of them   *)
(* to readers that resume from a cursor and keeps only the last few.       *)
(***************************************************************************)
EXTENDS Integers, FiniteSets, FiniteSetsExt

CONSTANTS
  PrjEffects,    \* effects the journal will hold, 1 .. Nat
  PrjEntity,     \* effect -> entity it is about
  PrjGroup,      \* effect -> group
  PrjNames,      \* projections
  PrjMatches,    \* projection -> effects it shows
  PrjBatch,      \* effects taken in one consume
  PrjReaders,    \* reader -> group
  PrjLimit,      \* events handed to a reader in one read
  PrjRetention,  \* events kept
  PrjRebuilds    \* bound on rebuilds

ASSUME PrjConstants ==
  /\ PrjEffects \in Nat /\ PrjBatch \in Nat \ {0} /\ PrjLimit \in Nat \ {0} /\ PrjRetention \in Nat \ {0} /\ PrjRebuilds \in Nat
  /\ PrjMatches \in [PrjNames -> SUBSET (1 .. PrjEffects)]
  /\ DOMAIN PrjEntity = 1 .. PrjEffects /\ DOMAIN PrjGroup = 1 .. PrjEffects

VARIABLES
  prjHead,      \* rowid of the last effect in the journal
  prjCursor,    \* projection -> last_journal_rowid
  prjVersion,   \* projection -> its version
  prjApplied,   \* projection -> effects applied
  prjItem,      \* projection -> set of [effect, version], one per entity
  prjEvents,    \* control_projection_events: [cursor, name, effect, version]
  prjLast,      \* last stream cursor ever given
  prjReader,    \* reader -> [cursor, known, lost]; cursor PrjFresh before the first event
  prjRebuilt    \* rebuilds so far
prjVars == <<prjHead, prjCursor, prjVersion, prjApplied, prjItem, prjEvents, prjLast, prjReader, prjRebuilt>>

PrjFresh == -1
PrjKey(i) == <<PrjGroup[i], PrjEntity[i]>>
PrjInit ==
  /\ prjHead = 0 /\ prjLast = 0 /\ prjRebuilt = 0 /\ prjEvents = {}
  /\ prjCursor = [p \in PrjNames |-> 0] /\ prjVersion = [p \in PrjNames |-> 0]
  /\ prjApplied = [p \in PrjNames |-> {}] /\ prjItem = [p \in PrjNames |-> {}]
  /\ prjReader = [r \in DOMAIN PrjReaders |-> [cursor |-> PrjFresh, known |-> {}, lost |-> {}]]

\* The runtime commits an effect.
PrjCommit ==
  /\ prjHead < PrjEffects /\ prjHead' = prjHead + 1
  /\ UNCHANGED <<prjCursor, prjVersion, prjApplied, prjItem, prjEvents, prjLast, prjReader, prjRebuilt>>

\* consume: the next rows of the journal that were not applied before.
PrjRows(p) == {i \in prjCursor[p] + 1 .. prjHead : i <= prjCursor[p] + PrjBatch}
PrjTaken(p) == (PrjRows(p) \ prjApplied[p]) \cap PrjMatches[p]
\* The place of an effect among some, and those that are the last about an entity.
PrjNth(S, i) == Cardinality({k \in S : k <= i})
PrjFinal(S) == {i \in S : \A k \in S : k > i => PrjKey(k) # PrjKey(i)}
PrjVersionAt(p, i) == prjVersion[p] + PrjNth(PrjTaken(p), i)
\* Only the last effect about an entity remains as its item.
PrjUpserted(p) ==
  {it \in prjItem[p] : \A k \in PrjTaken(p) : PrjKey(k) # PrjKey(it.effect)}
  \cup {[effect |-> i, version |-> PrjVersionAt(p, i)] : i \in PrjFinal(PrjTaken(p))}
PrjUnannounced(p) == {i \in PrjTaken(p) : \A e \in prjEvents : e.name = p => e.effect # i}
PrjConsume(p) ==
  /\ PrjRows(p) # {}
  /\ prjCursor' = [prjCursor EXCEPT ![p] = Max(PrjRows(p))]
  /\ prjVersion' = [prjVersion EXCEPT ![p] = @ + Cardinality(PrjTaken(p))]
  /\ prjApplied' = [prjApplied EXCEPT ![p] = @ \cup PrjRows(p)]
  /\ prjItem' = [prjItem EXCEPT ![p] = PrjUpserted(p)]
  /\ LET new == PrjUnannounced(p) IN
       /\ prjEvents' = prjEvents \cup {[cursor |-> prjLast + PrjNth(new, i), name |-> p,
                                        effect |-> i, version |-> PrjVersionAt(p, i)] : i \in new}
       /\ prjLast' = prjLast + Cardinality(new)
  /\ UNCHANGED <<prjHead, prjReader, prjRebuilt>>

\* rebuild forgets a projection in one transaction; consuming it anew follows.
\* mutant: what was applied is not forgotten
PrjForgotten_items(p) == prjApplied
PrjForgotten(p) == [prjApplied EXCEPT ![p] = {}]
PrjRebuild(p) ==
  /\ prjRebuilt < PrjRebuilds /\ prjRebuilt' = prjRebuilt + 1
  /\ prjItem' = [prjItem EXCEPT ![p] = {}] /\ prjApplied' = PrjForgotten(p)
  /\ prjEvents' = {e \in prjEvents : e.name # p}
  /\ prjCursor' = [prjCursor EXCEPT ![p] = 0] /\ prjVersion' = [prjVersion EXCEPT ![p] = 0]
  /\ UNCHANGED <<prjHead, prjLast, prjReader>>

----------------------------------------------------------------------------
(* The stream.                                                             *)
PrjLatest == Max({0} \cup {e.cursor : e \in prjEvents})
PrjKept == {e \in prjEvents : e.cursor > PrjLatest - PrjRetention}
\* A reader that resumes is told when events after its cursor are gone.
\* mutant: off by one
PrjExpired_late(r) == prjReader[r].cursor # PrjFresh /\ PrjKept # {} /\ prjReader[r].cursor < Min({e.cursor : e \in PrjKept}) - 2
PrjExpired(r) == prjReader[r].cursor # PrjFresh /\ PrjKept # {} /\ prjReader[r].cursor < Min({e.cursor : e \in PrjKept}) - 1
PrjShown(group) == UNION {{<<p, it.effect>> : it \in {x \in prjItem[p] : PrjGroup[x.effect] = group}} : p \in PrjNames}
PrjAhead(r) == {e \in PrjKept : e.cursor > prjReader[r].cursor /\ PrjGroup[e.effect] = PrjReaders[r]}
PrjHanded(r) == {e \in PrjAhead(r) : Cardinality({k \in PrjAhead(r) : k.cursor < e.cursor}) < PrjLimit}
\* What is shown although the stream keeps no event of it.
PrjGone(group) == PrjShown(group) \ {<<e.name, e.effect>> : e \in PrjKept}

\* A page is loaded, perhaps again, before its stream is connected.
PrjOpen(r) ==
  /\ prjReader[r].cursor = PrjFresh
  /\ prjReader' = [prjReader EXCEPT ![r].known = PrjShown(PrjReaders[r])]
  /\ UNCHANGED <<prjHead, prjCursor, prjVersion, prjApplied, prjItem, prjEvents, prjLast, prjRebuilt>>

\* A fresh reader is handed the events still kept and not told of those that are gone.
PrjRead(r) ==
  /\ prjEvents' = PrjKept
  /\ prjReader' = [prjReader EXCEPT ![r] =
       IF PrjExpired(r) THEN [cursor |-> PrjLatest, known |-> PrjShown(PrjReaders[r]), lost |-> {}]
       ELSE IF PrjHanded(r) = {} THEN @
       ELSE [cursor |-> Max({e.cursor : e \in PrjHanded(r)}),
             known |-> @.known \cup {<<e.name, e.effect>> : e \in PrjHanded(r)},
             lost |-> IF @.cursor = PrjFresh THEN PrjGone(PrjReaders[r]) ELSE @.lost]]
  /\ UNCHANGED <<prjHead, prjCursor, prjVersion, prjApplied, prjItem, prjLast, prjRebuilt>>

PrjNext == PrjCommit \/ (\E p \in PrjNames : PrjConsume(p) \/ PrjRebuild(p)) 
           \/ \E r \in DOMAIN PrjReaders : PrjOpen(r) \/ PrjRead(r)
PrjSpec == PrjInit /\ [][PrjNext]_prjVars

----------------------------------------------------------------------------
PrjEffect == 1 .. PrjEffects
PrjPage == [cursor : (0 .. prjLast) \cup {PrjFresh}, known : SUBSET (PrjNames \X PrjEffect), lost : SUBSET (PrjNames \X PrjEffect)]
PrjTypeOK ==
  /\ prjHead \in 0 .. PrjEffects /\ prjLast \in Nat /\ prjRebuilt \in 0 .. PrjRebuilds
  /\ prjCursor \in [PrjNames -> 0 .. prjHead] /\ prjVersion \in [PrjNames -> Nat]
  /\ prjApplied \in [PrjNames -> SUBSET PrjEffect]
  /\ prjItem \in [PrjNames -> SUBSET [effect : PrjEffect, version : Nat]]
  /\ prjEvents \in SUBSET [cursor : 1 .. prjLast, name : PrjNames, effect : PrjEffect, version : Nat]
  /\ prjReader \in [DOMAIN PrjReaders -> PrjPage]

PrjReplayed(p) == PrjMatches[p] \cap (1 .. prjCursor[p])
\* A projection is the replay of the journal up to its cursor: one item per
\* entity, that of its last effect, at a version that counts what was shown --
\* in batches of any size, after rebuilds and while others are rebuilt.
PrjIsReplay ==
  \A p \in PrjNames :
    /\ prjVersion[p] = Cardinality(PrjReplayed(p))
    /\ prjItem[p] = {[effect |-> i, version |-> PrjNth(PrjReplayed(p), i)] : i \in PrjFinal(PrjReplayed(p))}

\* No reader that resumes from a cursor misses what its group shows without
\* being told: what a projection shows is known to it, superseded by something
\* it knows or will be handed, still ahead in the stream, or the next read of
\* a stream that is not empty says that a snapshot is required.  What the
\* stream had already dropped when a fresh reader was handed its first event
\* is the exception (stream.py read: only a reader with a cursor is told).
PrjMissing(r, forgiven) ==
  \E p \in PrjNames : \E it \in prjItem[p] :
    /\ PrjGroup[it.effect] = PrjReaders[r] /\ <<p, it.effect>> \notin prjReader[r].known \cup forgiven
    /\ \A e \in prjEvents : e.name = p /\ e.effect = it.effect => e.cursor <= prjReader[r].cursor
PrjIsTold(r) == prjReader[r].cursor < Min({prjLast + 1} \cup {e.cursor : e \in prjEvents}) - 1
PrjNoSilentGap ==
  \A r \in DOMAIN PrjReaders :
    prjReader[r].cursor # PrjFresh => PrjIsTold(r) \/ ~ PrjMissing(r, prjReader[r].lost)

\* The same without the exception: refuted, for a page is loaded before its
\* stream connects and events may come and go in between.
PrjPageIsWhole ==
  \A r \in DOMAIN PrjReaders : prjReader[r].cursor # PrjFresh => PrjIsTold(r) \/ ~ PrjMissing(r, {})

\* A projection is a replay of the journal, and a reader that resumes is told what it missed.
PrjSound == PrjIsReplay /\ PrjNoSilentGap
=============================================================================
