---------------------------- MODULE KnowledgeJobs ----------------------------
(***************************************************************************)
(* The knowledge subsystem's durable jobs and instant enrichment: the      *)
(* single background worker (jobs.py), the learning of an unknown game     *)
(* (learning.py), the single-flight enrichment of a reply (enrichment.py)  *)
(* and the rows both share (repository.py).  A row is <<kind, number>>; an *)
(* instant row's kind is the hash of the request, its number the           *)
(* generation.  One tick of the clock is an hour, the window of the quota. *)
(* Synchronous stretches between two awaits are one action.                *)
(***************************************************************************)
EXTENDS Integers, Sequences, FiniteSets, SequencesExt

CONSTANTS
  JobsHashes,      \* hashes of normalized enrichment requests
  JobsRumours,     \* those whose need also requires a discovery search
  JobsRequests,    \* callers of enrich
  JobsHashOf,      \* caller -> hash
  JobsHourLimit, JobsGate, JobsBoundary,
  JobsLastHour, JobsHoursPerDay, JobsGenerations   \* bounds

ASSUME JobsConstants ==
  /\ IsFiniteSet(JobsHashes) /\ JobsRumours \subseteq JobsHashes
  /\ JobsHashOf \in [JobsRequests -> JobsHashes]
  /\ {"daily", "boundary", "learn", "none"} \cap JobsHashes = {}
  /\ JobsHourLimit \in Nat \ {0} /\ JobsGate \in Nat \ {0}
  /\ JobsBoundary \in Nat /\ JobsLastHour \in Nat
  /\ JobsHoursPerDay \in Nat \ {0} /\ JobsGenerations \in Nat

VARIABLES
  jobsNow,      \* hour
  jobsRow,      \* knowledge_jobs
  jobsWorker,   \* the worker task of KnowledgeJobService
  jobsFlight,   \* _flights of the enrichment coordinator
  jobsReply,    \* what each caller of enrich got
  jobsUsage,    \* provider_% rows of knowledge_usage, by hour of reservation
  jobsCalls,    \* history: provider calls started, by hour of reservation
  jobsCache,    \* hour of the last enrichment_success, -1 if none
  jobsLearned   \* what is stored of the unknown game
jobsVars == <<jobsNow, jobsRow, jobsWorker, jobsFlight, jobsReply, jobsUsage,
              jobsCalls, jobsCache, jobsLearned>>

JobsHours == 0 .. JobsLastHour
JobsLegs == {"official", "discovery"}
JobsInstant == JobsHashes \X (0 .. JobsGenerations)
JobsRows == ({"daily"} \X JobsHours) \cup {<<"boundary", 0>>, <<"learn", 0>>} \cup JobsInstant
JobsOpen == {"pending", "running", "retry"}
\* at is when an open row is due and when a completed one was completed; the
\* attempts only set the length of the back-off, here always the next hour.
JobsRecord == [status : JobsOpen \cup {"absent", "completed"}, at : Nat \cup {-1},
               staged : SUBSET JobsLegs, evidence : BOOLEAN]
JobsNever == -1   \* the due time 2**62 of an instant row
JobsNoRow == <<"none", 0>>
JobsIdleFlight == [phase |-> "none", row |-> JobsNoRow, todo |-> <<>>, at |-> 0]
JobsAbsent == [status |-> "absent", at |-> 0, staged |-> {}, evidence |-> FALSE]

JobsDay(t) == t \div JobsHoursPerDay
JobsBackoff(r) == [r EXCEPT !.status = "retry", !.at = jobsNow + 1]
JobsClaimed(r) == [r EXCEPT !.status = "running"]
JobsRecovered(rows) ==
  [x \in JobsRows |-> IF rows[x].status = "running" THEN [rows[x] EXCEPT !.status = "retry"] ELSE rows[x]]

\* A daily refresh unless one is outstanding or succeeded less than a day ago,
\* and one revalidation of a release boundary that has passed.
JobsWanted(rows, x) ==
  \/ /\ x = <<"daily", JobsDay(jobsNow)>>
     /\ \A d \in JobsHours : LET r == rows[<<"daily", d>>] IN
          r.status \notin JobsOpen /\ (r.status = "completed" => jobsNow - r.at >= JobsHoursPerDay)
  \/ x = <<"boundary", 0>> /\ jobsNow >= JobsBoundary
JobsScheduled(rows) ==
  [x \in JobsRows |-> IF rows[x].status = "absent" /\ JobsWanted(rows, x)
                      THEN [rows[x] EXCEPT !.status = "pending", !.at = jobsNow] ELSE rows[x]]

JobsInit ==
  /\ jobsNow = 0
  /\ jobsRow = [x \in JobsRows |-> JobsAbsent]
  /\ jobsWorker = [phase |-> "off", row |-> JobsNoRow, accepting |-> FALSE]
  /\ jobsFlight = [h \in JobsHashes |-> JobsIdleFlight]
  /\ jobsReply = [q \in JobsRequests |-> "idle"]
  /\ jobsUsage = [t \in JobsHours |-> 0] /\ jobsCalls = [t \in JobsHours |-> 0]
  /\ jobsCache = [h \in JobsHashes |-> -1]
  /\ jobsLearned = {}

JobsTick == jobsNow < JobsLastHour /\ jobsNow' = jobsNow + 1
            /\ UNCHANGED <<jobsRow, jobsWorker, jobsFlight, jobsReply, jobsUsage, jobsCalls, jobsCache, jobsLearned>>

----------------------------------------------------------------------------
(* The worker.                                                             *)
JobsStay == UNCHANGED <<jobsNow, jobsFlight, jobsReply, jobsUsage, jobsCalls, jobsCache>>
JobsRest == jobsWorker' = [jobsWorker EXCEPT !.phase = IF @ = "off" \/ ~jobsWorker.accepting THEN "off" ELSE "idle",
                                             !.row = JobsNoRow]

\* The service and a new coordinator start together, in a process of their own.
JobsStart ==
  /\ jobsWorker.phase = "off" /\ \A h \in JobsHashes : jobsFlight[h].phase = "none"
  /\ jobsRow' = JobsScheduled(JobsRecovered(jobsRow))
  /\ jobsWorker' = [phase |-> "idle", row |-> JobsNoRow, accepting |-> TRUE]
  /\ JobsStay /\ UNCHANGED jobsLearned

JobsDueRows_running(rows) == {x \in JobsRows : rows[x].status \in JobsOpen /\ rows[x].at # JobsNever /\ rows[x].at <= jobsNow}
JobsDueRows(rows) == {x \in JobsRows : rows[x].status \in {"pending", "retry"} /\ rows[x].at # JobsNever /\ rows[x].at <= jobsNow}
\* One turn of the loop.  The request of an instant row cannot be rebuilt, so
\* an administrator who makes one due only has it put back.
JobsClaim ==
  /\ jobsWorker.phase = "idle"
  /\ LET rows == JobsScheduled(jobsRow) IN
     \E x \in JobsDueRows(rows) :
       /\ \A y \in JobsDueRows(rows) : rows[x].at <= rows[y].at
       /\ IF x \in JobsInstant
          THEN jobsRow' = [rows EXCEPT ![x] = JobsBackoff(JobsClaimed(@))] /\ UNCHANGED jobsWorker
          ELSE /\ jobsRow' = [rows EXCEPT ![x] = JobsClaimed(@)]
               /\ jobsWorker' = [jobsWorker EXCEPT !.row = x,
                    !.phase = IF x = <<"learn", 0>> THEN IF "active" \in jobsLearned THEN "active" ELSE "search"
                              ELSE "probe"]
  /\ JobsStay /\ UNCHANGED jobsLearned

JobsCompletes(x) == jobsRow' = [jobsRow EXCEPT ![x] = [@ EXCEPT !.status = "completed", !.at = jobsNow]]
JobsGivesBack(x) == jobsRow' = [jobsRow EXCEPT ![x] = JobsBackoff(@)]
JobsProbed ==
  /\ jobsWorker.phase = "probe"
  /\ JobsCompletes(jobsWorker.row) \/ JobsGivesBack(jobsWorker.row)
  /\ JobsRest /\ JobsStay /\ UNCHANGED jobsLearned

\* A search without a corroborated genre is retried; otherwise evidence,
\* claim, alias and, last, the active entity are stored one transaction each.
JobsSteps == {"search", "evidence", "claim", "alias"}
JobsNextFact_early ==
  [s \in JobsSteps |-> CASE s = "search" -> "evidence" [] s = "evidence" -> "active" [] s = "claim" -> "alias" [] OTHER -> "claim"]
JobsNextFact ==
  [s \in JobsSteps |-> CASE s = "search" -> "evidence" [] s = "evidence" -> "claim" [] s = "claim" -> "alias" [] OTHER -> "active"]
JobsLearn ==
  /\ jobsWorker.phase \in DOMAIN JobsNextFact
  /\ LET fact == JobsNextFact[jobsWorker.phase] IN
       jobsLearned' = jobsLearned \cup {fact} /\ jobsWorker' = [jobsWorker EXCEPT !.phase = fact]
  /\ JobsStay /\ UNCHANGED jobsRow
JobsSearchFails ==
  /\ jobsWorker.phase \in DOMAIN JobsNextFact
  /\ JobsGivesBack(jobsWorker.row) /\ JobsRest /\ JobsStay /\ UNCHANGED jobsLearned
JobsLearnt ==
  /\ jobsWorker.phase = "active"
  /\ JobsCompletes(jobsWorker.row) /\ JobsRest /\ JobsStay /\ UNCHANGED jobsLearned

JobsEnqueueLearning ==
  /\ jobsRow[<<"learn", 0>>].status = "absent"
  /\ jobsRow' = JobsScheduled([jobsRow EXCEPT ![<<"learn", 0>>].status = "pending", ![<<"learn", 0>>].at = jobsNow])
  /\ JobsStay /\ UNCHANGED <<jobsWorker, jobsLearned>>
JobsAdminRetry ==
  /\ \E x \in JobsRows : jobsRow[x].status = "retry" /\ jobsRow' = [jobsRow EXCEPT ![x].at = jobsNow]
  /\ JobsStay /\ UNCHANGED <<jobsWorker, jobsLearned>>

\* close lets the current job finish for two seconds and then cancels it.
JobsClose ==
  /\ jobsWorker.accepting
  /\ jobsWorker' = [jobsWorker EXCEPT !.accepting = FALSE, !.phase = IF @ = "idle" THEN "off" ELSE @]
  /\ JobsStay /\ UNCHANGED <<jobsRow, jobsLearned>>
JobsCancel ==
  /\ ~jobsWorker.accepting /\ jobsWorker.phase \in {"probe", "search"}
  /\ JobsGivesBack(jobsWorker.row) /\ JobsRest /\ JobsStay /\ UNCHANGED jobsLearned

----------------------------------------------------------------------------
(* Instant enrichment.                                                     *)
JobsAloof == UNCHANGED <<jobsNow, jobsWorker, jobsLearned>>
JobsWaiting(h) == {q \in JobsRequests : JobsHashOf[q] = h /\ jobsReply[q] = "waiting"}
JobsTell(h, good, bad) ==
  jobsReply' = [q \in JobsRequests |-> IF q \in good THEN "usable" ELSE IF q \in JobsWaiting(h) THEN bad ELSE jobsReply[q]]

JobsEnrich(q) ==
  /\ jobsReply[q] = "idle"
  /\ \/ jobsReply' = [jobsReply EXCEPT ![q] = "refused"] /\ UNCHANGED jobsFlight
     \/ /\ jobsReply' = [jobsReply EXCEPT ![q] = "waiting"]
        /\ jobsFlight' = [jobsFlight EXCEPT ![JobsHashOf[q]].phase = IF @ = "none" THEN "created" ELSE @]
  /\ JobsAloof /\ UNCHANGED <<jobsRow, jobsUsage, jobsCalls, jobsCache>>
JobsLeave(q) ==
  /\ jobsReply[q] = "waiting" /\ jobsReply' = [jobsReply EXCEPT ![q] = "timed_out"]
  /\ JobsAloof /\ UNCHANGED <<jobsFlight, jobsRow, jobsUsage, jobsCalls, jobsCache>>

\* The flight ends: evidence is committed, the row completed, and each waiting
\* caller has its own scene checked again before it may use the knowledge.
JobsFinish(h, x, r, rows) ==
  /\ jobsRow' = [rows EXCEPT ![x] = [r EXCEPT !.status = "completed", !.at = jobsNow]]
  /\ jobsCache' = [jobsCache EXCEPT ![h] =
       IF "official" \in r.staged /\ (h \in JobsRumours => "discovery" \in r.staged) THEN jobsNow ELSE @]
  /\ jobsFlight' = [jobsFlight EXCEPT ![h] = JobsIdleFlight]
  /\ \E good \in SUBSET JobsWaiting(h) : (good # {} => r.evidence) /\ JobsTell(h, good, "unusable")
JobsContinue_overLimit(h, x, r, rows, todo, usage) ==
  IF todo = <<>> \/ usage[jobsNow] > JobsHourLimit
  THEN JobsFinish(h, x, r, rows) /\ jobsUsage' = usage
  ELSE /\ jobsRow' = [rows EXCEPT ![x] = r]
       /\ jobsUsage' = [usage EXCEPT ![jobsNow] = @ + 1]
       /\ jobsFlight' = [jobsFlight EXCEPT ![h] = [phase |-> "queued", row |-> x, todo |-> todo, at |-> jobsNow]]
       /\ UNCHANGED <<jobsCache, jobsReply>>
\* The next provider leg, if one is left and the hour's quota allows it.
JobsContinue(h, x, r, rows, todo, usage) ==
  IF todo = <<>> \/ usage[jobsNow] >= JobsHourLimit
  THEN JobsFinish(h, x, r, rows) /\ jobsUsage' = usage
  ELSE /\ jobsRow' = [rows EXCEPT ![x] = r]
       /\ jobsUsage' = [usage EXCEPT ![jobsNow] = @ + 1]
       /\ jobsFlight' = [jobsFlight EXCEPT ![h] = [phase |-> "queued", row |-> x, todo |-> todo, at |-> jobsNow]]
       /\ UNCHANGED <<jobsCache, jobsReply>>

JobsTodo(h, r) ==
  (IF "official" \in r.staged THEN <<>> ELSE <<"official">>)
    \o (IF h \in JobsRumours /\ "discovery" \notin r.staged THEN <<"discovery">> ELSE <<>>)
\* acquire_enrichment_job: the open row of the hash, or a new generation.
JobsAcquirable(h) ==
  LET open == {x \in JobsInstant : x[1] = h /\ jobsRow[x].status \in JobsOpen} IN
  IF open # {} THEN {x \in open : \A y \in open : y[2] <= x[2]}
  ELSE {x \in JobsInstant : /\ x[1] = h /\ jobsRow[x].status = "absent"
                            /\ \A g \in 0 .. x[2] - 1 : jobsRow[<<h, g>>].status # "absent"}
JobsBegin(h) ==
  /\ jobsFlight[h].phase = "created"
  /\ \/ /\ jobsCache[h] = jobsNow
        /\ jobsFlight' = [jobsFlight EXCEPT ![h] = JobsIdleFlight]
        /\ \E good \in SUBSET JobsWaiting(h) : JobsTell(h, good, "unusable")
        /\ UNCHANGED <<jobsRow, jobsUsage, jobsCache>>
     \/ \E x \in JobsAcquirable(h) : LET r == jobsRow[x] IN
          JobsContinue(h, x, IF r.status = "absent" THEN [JobsClaimed(r) EXCEPT !.at = JobsNever] ELSE JobsClaimed(r),
                       jobsRow, JobsTodo(h, r), jobsUsage)
  /\ JobsAloof /\ UNCHANGED jobsCalls

JobsCalling == {h \in JobsHashes : jobsFlight[h].phase = "calling"}
JobsCall(h) ==
  /\ jobsFlight[h].phase = "queued" /\ Cardinality(JobsCalling) < JobsGate
  /\ jobsFlight' = [jobsFlight EXCEPT ![h].phase = "calling"]
  /\ jobsCalls' = [jobsCalls EXCEPT ![jobsFlight[h].at] = @ + 1]
  /\ JobsAloof /\ UNCHANGED <<jobsRow, jobsReply, jobsUsage, jobsCache>>
\* The deadline passes in the queue: the reservation is released, and every
\* later leg of the flight is past its deadline as well.
JobsGiveUp(h) ==
  /\ jobsFlight[h].phase = "queued"
  /\ JobsFinish(h, jobsFlight[h].row, jobsRow[jobsFlight[h].row], jobsRow)
  /\ jobsUsage' = [jobsUsage EXCEPT ![jobsFlight[h].at] = @ - 1]
  /\ JobsAloof /\ UNCHANGED jobsCalls
JobsAnswer(h) ==
  /\ jobsFlight[h].phase = "calling"
  /\ LET f == jobsFlight[h]  r == jobsRow[f.row] IN
     \/ \E complete, found \in BOOLEAN :
          JobsContinue(h, f.row, [r EXCEPT !.staged = IF complete THEN @ \cup {Head(f.todo)} ELSE @,
                                           !.evidence = @ \/ found], jobsRow, Tail(f.todo), jobsUsage)
     \/ JobsFinish(h, f.row, r, jobsRow) /\ UNCHANGED jobsUsage
  /\ JobsAloof /\ UNCHANGED jobsCalls
\* Staging or committing raises: the row stays running for the next flight.
JobsBreak(h) ==
  /\ jobsFlight[h].phase = "calling"
  /\ jobsFlight' = [jobsFlight EXCEPT ![h] = JobsIdleFlight]
  /\ JobsTell(h, {}, "failed")
  /\ JobsAloof /\ UNCHANGED <<jobsRow, jobsUsage, jobsCalls, jobsCache>>

JobsCrash ==
  /\ jobsWorker.phase # "off" \/ \E h \in JobsHashes : jobsFlight[h].phase # "none"
  /\ jobsWorker' = [phase |-> "off", row |-> JobsNoRow, accepting |-> FALSE]
  /\ jobsFlight' = [h \in JobsHashes |-> JobsIdleFlight]
  /\ jobsReply' = [q \in JobsRequests |-> IF jobsReply[q] = "waiting" THEN "failed" ELSE jobsReply[q]]
  /\ UNCHANGED <<jobsNow, jobsRow, jobsUsage, jobsCalls, jobsCache, jobsLearned>>

JobsNext ==
  \/ JobsTick \/ JobsStart \/ JobsClaim \/ JobsProbed \/ JobsLearn \/ JobsSearchFails \/ JobsLearnt
  \/ JobsEnqueueLearning \/ JobsAdminRetry \/ JobsClose \/ JobsCancel \/ JobsCrash
  \/ \E q \in JobsRequests : JobsEnrich(q) \/ JobsLeave(q)
  \/ \E h \in JobsHashes : JobsBegin(h) \/ JobsCall(h) \/ JobsGiveUp(h) \/ JobsAnswer(h) \/ JobsBreak(h)
JobsSpec == JobsInit /\ [][JobsNext]_jobsVars

----------------------------------------------------------------------------
JobsFlights == [phase : {"none", "created", "queued", "calling"}, row : JobsInstant \cup {JobsNoRow}, todo : Seq(JobsLegs), at : JobsHours]
JobsResults == {"idle", "waiting", "refused", "timed_out", "failed", "unusable", "usable"}
JobsFinds == {"evidence", "claim", "alias", "active"}
JobsUsages == [JobsHours -> Nat]
JobsCaches == [JobsHashes -> JobsHours \cup {-1}]
JobsTypeOK ==
  /\ jobsNow \in JobsHours
  /\ jobsRow \in [JobsRows -> JobsRecord]
  /\ jobsWorker \in [phase : {"off", "idle", "probe", "search", "evidence", "claim", "alias", "active"},
                     row : JobsRows \cup {JobsNoRow}, accepting : BOOLEAN]
  /\ jobsFlight \in [JobsHashes -> JobsFlights] /\ jobsReply \in [JobsRequests -> JobsResults]
  /\ jobsUsage \in JobsUsages /\ jobsCalls \in [JobsHours -> Nat]
  /\ jobsCache \in JobsCaches /\ jobsLearned \subseteq JobsFinds

\* Timeouts in the queue give their reservation back and crashes never do, but
\* no hour starts more provider calls than its quota: every call that started
\* and every flight still queued is covered by a row of its own, and at most
\* JobsGate calls run at once.
JobsQuotaKept ==
  /\ \A t \in JobsHours :
       /\ jobsUsage[t] <= JobsHourLimit
       /\ jobsCalls[t] + Cardinality({h \in JobsHashes : jobsFlight[h].phase = "queued" /\ jobsFlight[h].at = t})
            <= jobsUsage[t]
  /\ Cardinality(JobsCalling) <= JobsGate

\* Whatever recovery, administrators and the two users of the table do, the row
\* a worker or a flight awaits an answer for is running and its own, so its
\* completion cannot be refused; and a hash never has two open rows.
JobsOneOwner ==
  /\ jobsWorker.row # JobsNoRow => jobsRow[jobsWorker.row].status = "running" /\ jobsWorker.row \notin JobsInstant
  /\ \A h \in JobsHashes : jobsFlight[h].phase \in {"queued", "calling"} =>
       jobsFlight[h].row[1] = h /\ jobsRow[jobsFlight[h].row].status = "running"
  /\ \A x, y \in JobsInstant :
       x[1] = y[1] /\ jobsRow[x].status \in JobsOpen /\ jobsRow[y].status \in JobsOpen => x = y

\* learning.py: "Activation is last: interrupted work cannot make an ungrounded
\* game visible to the resolver", and a job is complete only with the game active.
JobsActiveIsGrounded ==
  /\ "active" \in jobsLearned => {"evidence", "claim", "alias"} \subseteq jobsLearned
  /\ jobsRow[<<"learn", 0>>].status = "completed" => "active" \in jobsLearned

\* Over all orders of replies, workers, timeouts, crashes and administrators: the provider quota is
\* kept, every row awaited is its owner's, and no game is active before it is grounded.
JobsSound == JobsQuotaKept /\ JobsOneOwner /\ JobsActiveIsGrounded
=============================================================================
