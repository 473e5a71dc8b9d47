------------------------------ MODULE Stickers ------------------------------
(***************************************************************************)
(* The sticker lexicon: pictures captured from the groups or uploaded by   *)
(* an administrator (capture.py, lexicon.py ingest), the vision worker     *)
(* that judges and captions them in the background (vision.py), the        *)
(* administrator's page (control/stickers.py), and the replies that attach *)
(* a picture (select.py, replying.py).  A picture stands for its hash.     *)
(***************************************************************************)
EXTENDS Naturals, Sequences, FiniteSets, SequencesExt

CONSTANTS
  StkPictures,
  StkPoolLimit, StkLibraryLimit,   \* CANDIDATE_POOL_LIMIT and LIBRARY_LIMIT
  StkQueueLimit,                   \* VISION_QUEUE_LIMIT
  StkPackLimit,                    \* STICKER_PACK_LIMIT
  StkReplies                       \* bound of the replies that attach pictures

ASSUME StkConstants ==
  /\ IsFiniteSet(StkPictures)
  /\ {StkPoolLimit, StkLibraryLimit, StkQueueLimit, StkPackLimit, StkReplies} \subseteq Nat \ {0}

VARIABLES
  stkCard,      \* picture -> its row of sticker_assets
  stkRejects,   \* sticker_rejects
  stkFiles,     \* pictures whose file is there
  stkUp,        \* the vision worker accepts work
  stkQueue,     \* its queue: pictures, and whether the administrator asked
  stkRun,       \* the card it works on, as it was read last
  stkPending,   \* pictures in parts not yet handed to the platform
  stkShown,     \* history: pictures a group saw, with what they were when chosen
  stkAttached   \* number of replies that attached pictures
stkVars == <<stkCard, stkRejects, stkFiles, stkUp, stkQueue, stkRun, stkPending, stkShown, stkAttached>>

StkMeanings == {"empty", "generic", "good"}
StkHandwritten == {"admin", "mixed"}
StkAbsent == [status |-> "absent", meaning |-> "empty", source |-> "none", judged |-> FALSE, confirmed |-> FALSE]
StkNew == [StkAbsent EXCEPT !.status = "candidate"]
StkIdle == [phase |-> "idle"]

StkOf(statuses) == {p \in StkPictures : stkCard[p].status \in statuses}
StkCandidates == Cardinality(StkOf({"candidate"}))
StkLibrary == Cardinality(StkOf({"ready", "disabled"}))

\* meaning_is_sendable
StkNeedsWork(c) ==
  /\ c.status \in {"candidate", "disabled"}
  /\ c.meaning = "good" => ~ c.judged /\ c.source \notin StkHandwritten

StkWritten(c) == c.source \in StkHandwritten /\ c.meaning = "good"

StkBusy(q) == {q[i].picture : i \in DOMAIN q} \cup (IF stkRun = StkIdle THEN {} ELSE {stkRun.picture})

\* enqueue
StkAccepts(q, p, card, force) ==
  /\ stkUp /\ p \notin StkBusy(q) /\ Cardinality(StkBusy(q)) < StkQueueLimit
  /\ card.status \notin {"absent", "rejected"} /\ (force \/ StkNeedsWork(card))
StkEnqueued(q, p, card, force) ==
  IF StkAccepts(q, p, card, force) THEN Append(q, [picture |-> p, force |-> force]) ELSE q

StkInit ==
  /\ stkCard = [p \in StkPictures |-> StkAbsent] /\ stkRejects = {} /\ stkFiles = {}
  /\ stkUp = FALSE /\ stkQueue = <<>> /\ stkRun = StkIdle
  /\ stkPending = {} /\ stkShown = {} /\ stkAttached = 0

------------------------------------------------------------------------------
(* StickerLexicon.ingest                                                    *)

StkHasRoom_library(captured) == captured => StkLibrary < StkLibraryLimit
StkHasRoom(captured) ==
  /\ StkCandidates < StkPoolLimit
  /\ captured => StkLibrary < StkLibraryLimit

StkUnknown_row(p) == stkCard[p].status = "absent"
StkUnknown(p) == stkCard[p].status = "absent" /\ p \notin stkRejects

\* A picture that looks like a sticker, or that the administrator uploads with
\* or without a meaning; a known picture only has its meaning written.
StkIngest(p, captured) ==
  /\ stkCard[p].status = "absent" => StkUnknown(p) /\ StkHasRoom(captured)
  /\ stkCard[p].status # "rejected"
  /\ \E m \in (IF captured THEN {"empty"} ELSE StkMeanings) :
       LET created == stkCard[p].status = "absent"
           base == IF created THEN StkNew ELSE stkCard[p]
           card == IF m = "empty" THEN base
                   ELSE [base EXCEPT !.meaning = m, !.source = IF @ = "vision" THEN "mixed" ELSE "admin"]
       IN /\ stkCard' = [stkCard EXCEPT ![p] = card]
          /\ stkQueue' = IF created /\ m = "empty" THEN StkEnqueued(stkQueue, p, card, FALSE) ELSE stkQueue
          /\ stkFiles' = IF created THEN stkFiles \cup {p} ELSE stkFiles
  /\ UNCHANGED <<stkRejects, stkUp, stkRun, stkPending, stkShown, stkAttached>>

------------------------------------------------------------------------------
(* The administrator: StickerControlService.apply                           *)

StkAdminUnchanged == UNCHANGED <<stkUp, stkRun, stkPending, stkShown, stkAttached>>

StkCaption(p) ==
  /\ stkCard[p].status \notin {"absent", "rejected"}
  /\ \E m \in StkMeanings :
       stkCard' = [stkCard EXCEPT ![p].meaning = m, ![p].source = IF @ = "vision" THEN "mixed" ELSE "admin"]
  /\ UNCHANGED <<stkRejects, stkFiles, stkQueue>> /\ StkAdminUnchanged

StkConfirm(p) ==
  /\ stkCard[p].status \in {"candidate", "disabled"} /\ stkCard[p].meaning = "good"
  /\ stkCard[p].status = "candidate" => StkLibrary < StkLibraryLimit
  /\ stkCard' = [stkCard EXCEPT ![p].status = "ready", ![p].confirmed = TRUE]
  /\ UNCHANGED <<stkRejects, stkFiles, stkQueue>> /\ StkAdminUnchanged

\* A candidate that is disabled enters the library whatever its size.
StkDisable(p) ==
  /\ stkCard[p].status \in {"ready", "candidate"}
  /\ stkCard' = [stkCard EXCEPT ![p].status = "disabled"]
  /\ UNCHANGED <<stkRejects, stkFiles, stkQueue>> /\ StkAdminUnchanged

\* The row first, then the file.
StkRejected(p) ==
  /\ stkCard' = [stkCard EXCEPT ![p].status = "rejected"]
  /\ stkRejects' = stkRejects \cup {p}

StkReject(p) ==
  /\ stkCard[p].status # "absent"
  /\ StkRejected(p) /\ stkFiles' = stkFiles \ {p}
  /\ UNCHANGED stkQueue /\ StkAdminUnchanged

StkDelete(p) ==
  /\ stkCard[p].status # "absent"
  /\ stkCard' = [stkCard EXCEPT ![p] = StkAbsent] /\ stkFiles' = stkFiles \ {p}
  /\ UNCHANGED <<stkRejects, stkQueue>> /\ StkAdminUnchanged

StkRecaption(p) ==
  /\ StkAccepts(stkQueue, p, stkCard[p], TRUE)
  /\ stkQueue' = StkEnqueued(stkQueue, p, stkCard[p], TRUE)
  /\ UNCHANGED <<stkCard, stkRejects, stkFiles>> /\ StkAdminUnchanged

------------------------------------------------------------------------------
(* StickerVisionWorker                                                      *)

StkVisionUnchanged == UNCHANGED <<stkPending, stkShown, stkAttached>>

\* start enqueues the inbox, oldest first; the order is left open.
StkStart ==
  /\ ~ stkUp /\ stkUp' = TRUE
  /\ LET inbox == {p \in StkOf({"candidate"}) : StkNeedsWork(stkCard[p])} IN
     \E s \in SetToSeqs(inbox) :
       stkQueue' = [i \in 1 .. (IF Len(s) < StkQueueLimit THEN Len(s) ELSE StkQueueLimit) |-> [picture |-> s[i], force |-> FALSE]]
  /\ UNCHANGED <<stkCard, stkRejects, stkFiles, stkRun>> /\ StkVisionUnchanged

\* The bridge drops the worker with its queue, or the process stops, maybe
\* before the file of a picture rejected or deleted just now is gone.
StkStop ==
  /\ stkUp /\ stkUp' = FALSE /\ stkQueue' = <<>> /\ stkRun' = StkIdle
  /\ UNCHANGED <<stkCard, stkRejects, stkFiles>> /\ StkVisionUnchanged

StkStopsRejecting(p) ==
  /\ stkUp /\ stkUp' = FALSE /\ stkQueue' = <<>> /\ stkRun' = StkIdle
  /\ stkCard[p].status # "absent"
  /\ \/ StkRejected(p)
     \/ stkCard' = [stkCard EXCEPT ![p] = StkAbsent] /\ UNCHANGED stkRejects
  /\ UNCHANGED stkFiles /\ StkVisionUnchanged

\* _run_card: the card is read again when its turn comes.
StkTake ==
  /\ stkUp /\ stkRun = StkIdle /\ stkQueue # <<>> /\ stkQueue' = Tail(stkQueue)
  /\ LET job == Head(stkQueue)
         card == stkCard[job.picture]
         due == /\ card.status \notin {"absent", "rejected"} /\ (job.force \/ StkNeedsWork(card))
                /\ job.picture \in stkFiles
     IN stkRun' = IF ~ due THEN StkIdle
                  ELSE [phase |-> IF job.force \/ ~ card.judged THEN "judging" ELSE "captioning",
                        picture |-> job.picture, force |-> job.force, source |-> card.source,
                        written |-> StkWritten(card)]
  /\ UNCHANGED <<stkCard, stkRejects, stkFiles, stkUp>> /\ StkVisionUnchanged

\* Is the administrator's text kept from the caption?
StkSpares_never(run, card) == FALSE
StkSpares(run, card) == ~ run.force /\ StkWritten(card)

\* The model answers: not a sticker, a sticker, or nothing.  The card may have
\* gone meanwhile.
StkJudged ==
  /\ stkRun.phase = "judging"
  /\ LET p == stkRun.picture
         card == stkCard[p]
     IN \/ /\ card.status # "absent" /\ StkRejected(p) /\ stkFiles' = stkFiles \ {p} /\ stkRun' = StkIdle
        \/ /\ card.status \notin {"absent", "rejected"}
           /\ stkCard' = [stkCard EXCEPT ![p].judged = TRUE]
           /\ stkRun' = IF StkSpares(stkRun, card) THEN StkIdle ELSE [stkRun EXCEPT !.phase = "captioning", !.source = card.source, !.written = StkWritten(card)]
           /\ UNCHANGED <<stkRejects, stkFiles>>
        \/ stkRun' = StkIdle /\ UNCHANGED <<stkCard, stkRejects, stkFiles>>
  /\ UNCHANGED <<stkUp, stkQueue>> /\ StkVisionUnchanged

\* write_cognition: whose text it was is the worker's belief of before the call.
StkCaptioned ==
  /\ stkRun.phase = "captioning" /\ stkRun' = StkIdle
  /\ LET p == stkRun.picture IN
     \/ /\ stkCard[p].status \notin {"absent", "rejected"}
        /\ \E m \in StkMeanings :
             stkCard' = [stkCard EXCEPT ![p].meaning = m, ![p].source = IF stkRun.source \in StkHandwritten THEN "mixed" ELSE "vision"]
     \/ UNCHANGED stkCard
  /\ UNCHANGED <<stkRejects, stkFiles, stkUp, stkQueue>> /\ StkVisionUnchanged

------------------------------------------------------------------------------
(* StickerAccompanist: one picture beside a text, or several that were asked *)
(* for; what the move, the relation and the words rule out is left open.    *)

StkSendable_ready(p) == stkCard[p].status = "ready"
StkSendable(p) == stkCard[p].status = "ready" /\ stkCard[p].meaning = "good"

StkChoices == {ps \in SUBSET {p \in StkPictures : StkSendable(p)} : Cardinality(ps) \in 1 .. StkPackLimit}

\* validate_file: only a picture whose file is there is attached.
StkResolved(ps) == ps \subseteq stkFiles

StkAttach ==
  /\ stkAttached < StkReplies /\ stkAttached' = stkAttached + 1
  /\ \E ps \in StkChoices :
       /\ StkResolved(ps)
       /\ stkPending' = stkPending \cup {[picture |-> p, card |-> stkCard[p]] : p \in ps}
  /\ UNCHANGED <<stkCard, stkRejects, stkFiles, stkUp, stkQueue, stkRun, stkShown>>

\* The platform reads the file when it sends the part.
StkSend(x) ==
  /\ stkPending' = stkPending \ {x}
  /\ stkShown' = IF x.picture \in stkFiles THEN stkShown \cup {x} ELSE stkShown
  /\ UNCHANGED <<stkCard, stkRejects, stkFiles, stkUp, stkQueue, stkRun, stkAttached>>

StkNext ==
  \/ \E p \in StkPictures :
       \/ \E captured \in BOOLEAN : StkIngest(p, captured)
       \/ StkCaption(p) \/ StkConfirm(p) \/ StkDisable(p) \/ StkReject(p) \/ StkDelete(p) \/ StkRecaption(p)
       \/ StkStopsRejecting(p)
  \/ StkStart \/ StkStop \/ StkTake \/ StkJudged \/ StkCaptioned \/ StkAttach
  \/ \E x \in stkPending : StkSend(x)

StkSpec == StkInit /\ [][StkNext]_stkVars

------------------------------------------------------------------------------
StkSources == {"none", "admin", "vision", "mixed"}
StkCards == [status : {"absent", "candidate", "ready", "disabled", "rejected"}, meaning : StkMeanings,
             source : StkSources, judged : BOOLEAN, confirmed : BOOLEAN]
StkJob == [picture : StkPictures, force : BOOLEAN]
StkWork == [phase : {"judging", "captioning"}, picture : StkPictures, force : BOOLEAN, source : StkSources, written : BOOLEAN]
StkParts == [picture : StkPictures, card : StkCards]
StkTypeOK ==
  /\ stkCard \in [StkPictures -> StkCards]
  /\ stkRejects \subseteq StkPictures /\ stkFiles \subseteq StkPictures /\ stkQueue \in Seq(StkJob)
  /\ stkUp \in BOOLEAN /\ (stkRun = StkIdle \/ stkRun \in StkWork)
  /\ stkPending \subseteq StkParts /\ stkShown \subseteq StkParts
  /\ stkAttached \in 0 .. StkReplies

\* What was rejected once never comes back, not even deleted and seen again:
\* its hash stays in the set of rejects and no card of it is ever ready
\* (sticker_rejects; docs/features/stickers/design.md 4.2).
StkRejectedStays == \A p \in stkRejects : stkCard[p].status \in {"absent", "rejected"}

\* A group sees only pictures that an administrator confirmed and whose meaning
\* was formed when the reply chose them, though the vision worker may empty the
\* meaning of a confirmed picture (ready_sendable, confirm).
StkShownIsFormed == \A x \in stkShown \cup stkPending : x.card.confirmed /\ x.card.meaning = "good"

\* The candidates never outnumber their pool, and the vision worker has no more
\* jobs than its limit, none of them twice (ingest, enqueue, start).
StkPoolsKept ==
  /\ StkCandidates <= StkPoolLimit
  /\ Len(stkQueue) + (IF stkRun = StkIdle THEN 0 ELSE 1) <= StkQueueLimit
  /\ IsInjective([i \in DOMAIN stkQueue |-> stkQueue[i].picture])

\* A meaning the administrator wrote is replaced by the vision worker only when
\* a new caption was asked for, or when it was written after the worker had read
\* the card for the caption (_run_card reads it again between its two calls;
\* write_cognition does not).
StkHandwrittenKept ==
  \A p \in StkPictures :
     StkWritten(stkCard[p]) /\ stkRun # StkIdle /\ stkRun' = StkIdle
       /\ stkCard'[p].status # "absent" /\ stkCard'[p].meaning # stkCard[p].meaning
       => stkRun.force \/ ~ stkRun.written
==============================================================================
