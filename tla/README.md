# TLA+ models and proofs of the groupmate social runtime

The plugin `astrbot_plugin_groupmate` lets a persona take part in group chats. Platform
messages become durable events; one actor per group projects them into a world, decides
what deserves attention and hands work requests to a drain, which judges them with language
models; what is approved becomes a reply plan, a delivery bundle in a transactional Outbox,
and messages of the platform. Capabilities (searches, pictures, jobs of external providers)
run as tasks under an execution coordinator and come back as events of the same fabric.

This directory models the parts of that runtime whose correctness depends on the order of
steps, on failures and on restarts. Paths below are relative to
`groupmate/social_runtime/` unless they say otherwise.

## 1. Inventory

### Components, state and operations

| component | state | operations | what makes it correct |
|---|---|---|---|
| Outbox (`delivery/outbox.py`) | `delivery_bundles`, `outbox` with status, expiry, receipt | `commit_bundle`, `claim_ready`, `record_receipt`, `recover_inflight`, expiry, suppression of replaced progress | a key is posted at most once; order inside a bundle; the status never contradicts what the group saw |
| Dispatcher and adapter (`delivery/dispatcher.py`, `../adapters/onebot_delivery.py`) | none beyond its coroutine | claim, check, await the platform, report | only a claimed part is sent, every answer is classified conservatively |
| Reply executor and plans (`replying.py`) | `reply_plans.status` | generate, silence, commit bundle, mark | a plan is marked sent only when nothing of it can still go out |
| Bridge (`../adapters/astrbot_bridge.py`) | reply lanes, wake-up task | message handler, dispatch loop, wake-up loop, start, close | every accepted evaluation reaches a lane, both loops may run at once |
| Manager (`manager.py`) | actors, governance state, startup requests | start, ingest, drain, evaluation cycle, governance update, close | judgements are applied to the scene they were made for |
| Event store (`persistence/event_store.py`) | inbox, actor cursors, scene work requests, journal, snapshots | append, claim, commit, fail, supersede, refresh, resolve, snapshot | cursor and statuses agree, a request is resolved once |
| Scene actor, fabric, attention (`scene_actor.py`, `event_fabric.py`, `attention.py`) | projected world, pending window, cached and recovered requests | process, flush, accept, discard, recover, snapshot | the world is the replay of the inbox, no opportunity is acted on twice |
| World and lease (`world.py`) | topics, participants, edges, presence, conversation lease | `apply` | deterministic replay |
| Execution coordinator (`actions/coordinator.py`) | `action_plans`: node states, attempts, pending feedback, version | submit, advance, wake, feedback, recovery of feedback | side effects happen within the retry limit, in dependency order; results are told |
| Capability tasks (`tasks/runtime.py`) | `tasks`, `task_events` | propose, start, confirm, provider event, cancel, expire, recover | the first durable end wins; the history is exact; consent first |
| Cognition (`cognition/`, `scheduling.py`, `participation.py`, `governor.py`) | the gate's queue and count, calls in flight, a blackboard per frame | evaluate a frame under a timeout, admit, cancel, judge | the gate's books agree with the calls that hold it; only a verdict that arrived whole makes the bot speak |
| Lifecycle (`manager.py`, `supervisor.py`, bridge) | generations of services, their mailboxes, the reference to the current manager | start, use, close, terminate | no drain waits on a mailbox that has ended; the reference never names a manager on its way down |
| Reply lanes and traces (bridge, `control/message_traces.py`) | lane of a group, traces, generation of the scene | reserve, prepare, wait, re-check, write, finish, cancel | one handler inside; one guarded answer per scene; an end is not rewritten |
| Replies (`replying.py`, `knowledge/grounding.py`) | reply plan, attempts, bundle | plan, ask, review, repair, fall back, enqueue, authorise | what is enqueued is current, cited and backed |
| Chorus and scenes (`chorus.py`, `social_scenes.py`, `stances.py`, `social_moves.py`) | detector window, joined chains | detect, read the scene, choose a move, mark | the echo is shared, harmless and not of a marked chain |
| Knowledge jobs (`knowledge/jobs.py`, `learning.py`, `enrichment.py`) | job rows, hourly quota, flights of replies | lease, run, continue, retry, recover, join | the quota is kept; a row has one owner; activation comes last |
| Conventions (`knowledge/observation.py`, `admission.py`) | observation queue, conventions, aliases, evidence | observe, evict, judge, expire, trim, correct, recover | one active meaning; the queue holds only what is undecided |
| Game facts (`knowledge/release_state.py`, `seeds.py`) | release slots and their tracks, negative searches, claims, bundled seed | derive, save, probe, admit, import, retire | no lost update; one truth about one thing; "nothing new" only while nothing is new |
| Profiles (`profile/service.py`, `policy.py`) | observations, claims, portraits | claim a batch, extract, reinforce, redraw, correct, reject, merge | administrators' decisions stand; confirmations rest on evidence |
| Member style (`profile/style_service.py`) | collection windows, versions, imitation sessions | enable, distil, publish, imitate, stop | learnt only from what was allowed; one imitation at a time; ended stays ended |
| Relationships (`society/relationship_events.py`) | accepted events, projection, memories | propose, accept, project, repair | the projection is the sum of the events, each once; hurts last until repaired |
| Stickers (`stickers/`, `control/stickers.py`) | cards, rejects, vision queue | ingest, judge, caption, edit, confirm, select | rejected stays rejected; only confirmed and formed pictures are shown |
| Autonomy (`autonomy.py`) | opportunities | schedule, run, follow up, cancel | one event each, one follow-up, in its window and allowed |
| Readiness (`readiness.py`) | evidence, confirmations, reports, rollouts | evaluate, hand over, advance, pause, begin again | proven, confirmed on its own, no phase skipped |
| Commands (`control/commands.py`, `config_versions.py`) | control log, configuration versions, profile rows | draft, validate, publish, restore, pause, correct, merge, split, style | no lost publication, no orphaned fact |
| Projections and stream (`control/projections.py`, `stream.py`) | cursors, items, events | consume, rebuild, read, resume, trim | a projection is a replay; no silent gap for a reader |

The remaining parts (persona texts and moods, planner, memory decay, media, settings, web
pages, adapters, offline evaluation) are listed in `PROJECT.json` with the reason they are
not modelled.

### Interaction

- The bridge calls `manager.ingest` (durable append) and then `manager.drain`. A drain takes
  the recovered requests, drains the actors, flushes attention windows and judges frame by
  frame; every judgement awaits a model and then calls `accept_result` on the actor.
- The bridge hands accepted evaluations to per-group reply lanes. A lane executes the reply
  plan, which commits a bundle, and then runs the dispatch loop. The wake-up loop runs the
  same dispatch loop once a second, so several dispatchers exist.
- The receipt handler goes through the coordinator (`apply_delivery_receipt`), which records
  the receipt and publishes a `delivery.*` event. After each part the dispatch loop drains.
- The coordinator's feedback and the tasks' provider events enter the fabric as events and
  thus the same scene actor.

### What is hard

1. *Awaits.* Everything between two awaits is atomic in one event loop, and every database
   operation is one `BEGIN IMMEDIATE` transaction. Between awaits anything may run.
2. *Failures in the middle*: an exception or a cancellation between a claim and its answer,
   or between two writes.
3. *Restarts*: memory is rebuilt from snapshot and inbox while the platform may still carry
   out what the dead process asked for.
4. *Late, repeated and reordered answers* of the platform and of providers.
5. *Deadlines* compared with a clock that moves while somebody waits.
6. *Copies of versions*: an editor, an operator, a model call or a run derives from what it
   read and writes after others wrote.
7. *Shared limits*: the gate of the workers, the provider quota, pools and queues, whose books
   must stay right when a call is cancelled, swallows its cancellation or answers late.

`PROJECT.json` lists these hazards line by line with the properties that cover them.

## 2. Modules

| module | models | composed with |
|---|---|---|
| `Outbox` | Outbox, dispatchers, platform answer, reply plan status, pause, crash, reload, operator's recovery | implements `DeliveryPromise` |
| `DeliveryPromise` | the abstract promise: a part waits, is offered in order, ends delivered, failed, dropped or doubtful; a key is accepted once | - |
| `SceneActor` | the event store's share of one group, the actor's commands, drains and their judgements | stands alone |
| `Coordinator` | one action plan with concurrent callers of `advance`, wake-ups, feedback, restarts | stands alone |
| `TaskRuntime` | one capability task with concurrent workers and provider events | stands alone |
| `ReplyLane` | the reply lane of a group, its handlers and the traces | `Runtime` |
| `Replies` | one reply from its plan over model, review and repair to the bundle, facts expiring meanwhile | `Runtime` |
| `Cognition` | rule and model workers at the shared gate, timeouts, the Governor's verdict | `Runtime` |
| `Lifecycle` | generations of the runtime, starts, uses, closes and mailboxes | `Runtime` |
| `Chorus` | chorus detector, scene reading, stance, move, marking | `Runtime` |
| `KnowledgeJobs` | job worker, learning, enrichment flights, quota | `Runtime` |
| `Conventions` | observation queue and the meanings of one expression | `Runtime` |
| `GameFacts` | release slots, negative searches, claims and seeds of one game | `Runtime` |
| `Profiles`, `MemberStyle`, `Relations` | what the bot keeps about members: claims and portraits, ways of speaking, relationships | `Runtime` |
| `Stickers` | the lexicon, its vision worker and the page of the administrator | `Runtime` |
| `Autonomy`, `Readiness` | opportunities under overlapping runs; the gate and the rollout | `Runtime` |
| `ControlPlane`, `Projections` | commands over versions; read models and their stream | `Runtime` |
| `Runtime` | the sixteen components above side by side, each with steps of its own | the modules from `ReplyLane` on |
| `OutboxProofs`, `SceneProofs`, `CoordinatorProofs`, `TaskProofs` | theorems and proofs | each extends the module it is about |
| `StoreProofs` | `GameFacts`, `Conventions`, `KnowledgeJobs`, `Projections`, `ControlPlane` | extends them |
| `ConversationProofs` | `Lifecycle`, `Readiness`, `Cognition`, `ReplyLane`, `Chorus`, `Replies`, `Autonomy` | extends them |
| `MemberProofs` | `Profiles`, `MemberStyle`, `Relations`, `Stickers` | extends them |
| `RuntimeProofs` | what the sixteen keep together | extends `Runtime` and the three modules before |
| `MC...` | values of the constants for TLC | extend the modules they check |

The sixteen components from `ReplyLane` on share no variable with one another at the level
of detail modelled here: they meet through stored rows (a claim a reply retrieves, a command that
turns a switch) whose other side appears in each module as an environment action. Their
names start with a prefix of the module (`Jobs`, `Facts`, `Lane` ...), so that `Runtime` can
extend all of them. Its specification is the conjunction of theirs: steps of different components
are concurrent. `part` names the component that is looked at; it is fixed but arbitrary.

A definition whose name has an underscore (`Target_raw`) is a plausible bug kept beside the
definition it would spoil (`Target`). No action uses it; it exists to show that the
property it is paired with in `PROJECT.json`, or the one named below, notices.

| module | deviations kept | each is noticed by |
|---|---|---|
| `KnowledgeJobs` | `JobsDueRows_running`, `JobsNextFact_early`, `JobsContinue_overLimit` | `JobsSound` |
| `Conventions` | `ConvStart_all`, `ConvRivals_open` | `ConvSound` |
| `GameFacts` | `FactsWrite_keeps`, `FactsReplaced_none`; `FactsCurrent_always` | `FactsSound`; `StepsSound` |
| `ControlPlane` | `CtlCurrent_newest`, `CtlSuperseded_none`, `CtlMoved_confirmed` | `CtlSound` |
| `Projections` | `PrjForgotten_items`, `PrjExpired_late` | `PrjSound` |
| `ReplyLane` | `LaneCurrent_always`, `LaneFinish_pops`; `LaneContext_all` | `LaneSound`; `StepsSound` |
| `Cognition` | `CogMayPass_any`, `CogDiscard_not`, `CogDegraded_never`; `CogHead_fifo`; `CogUnwind_all` | `CogSound`; `StepsSound`; `RuntimeTypeOK` |
| `Lifecycle` | `LifeTake_keep`, `LifeRest_raise`, `LifeDrained_now` | `LifeSound` |
| `Profiles`, `MemberStyle`, `Relations` | `ProfReinforced_open`; `StyleInWindow_all`, `StyleMayPublish_always`; `RelMayName_any`, `RelOverBudget_alone`, `RelResolves_any`, `RelCounts_any` | `MembersSound` |
| `MemberStyle` | `StyleDisabledOf_none` | `StepsSound` |
| `Replies` | `RpMissing_none`, `RpStale_once`, `RpBeforeCommit_early` | `RpSound` |
| `Chorus`, `Stickers` | `ChVoices_many`, `ChCompatible_author`, `ChChorusMove_again`; `StkHasRoom_library`, `StkUnknown_row`, `StkSendable_ready` | `PresenceSound` |
| `Stickers` | `StkSpares_never` | `StepsSound` |
| `Readiness`, `Autonomy` | `RdReportServes_published`, `RdMayBegin_any`, `RdWaited_handoff`; `AutAllowed_claimed`, `AutOver_late`, `AutStill_any` | `UnaskedSound` |

### Outbox

`outbox`, `rowid` and `receipt` are columns; `journal` the `delivery.receipt` rows; `plan`
the status of the reply plan a bundle came from. `disp` says what each coroutine of
`_dispatch_ready` is doing: idle, awaiting the platform, or holding the answer it will mark
the plan with. `wire` is the set of parts the platform was asked to post and may still post,
`posted` counts what the group saw. Both are outside the program, and the properties are about them.

- `ClaimAndSend` is `claim_ready`, the equality check of `dispatch` and the call of the
  platform: there is no await in between. `ClaimAndRefuse` is the same claim when the check
  fails; the claim is already committed. `ClaimNothing` is a claim that finds nothing and
  still expires overdue parts.
- `RecordReceipt` and `RefuseReceipt` follow the await. What the platform may report of a
  part (`Reports`) is the contract of the adapter: a message id only after a post, a
  confirmed failure only instead of one, *unknown* always.
- `MarkPlan` is a separate step because the receipt handler publishes an event, an await,
  between the receipt and the mark.
- `Stop(gone)` is plugin close: the wake-up loop is cancelled in its await, handlers run on;
  or a crash, when all are gone. `RecoverInflight` is the operator's call on a stopped
  runtime, as the recovery guide describes it.

### SceneActor

One group. An event is an identity; the world is the sequence of events it was projected
from, which is all that replay, versions and recency need. A frame is a lane, its focus and
the version and persona it was made for. `work` is the table of scene work requests keyed by
the event that created them; `cached`, `recovered` and `window` are the actor's memory; a
drain is idle, claiming, flushing or judging. `persona` stands for the persona state and
configuration versions a request carries.

- `Process` is `_process` from projection to the cached request. It is one action because it
  runs without an await in the actor's task. `ProcessFails` leaves the attention window as
  `on_event` changed it, which is what the code does.
- `EndClaim` keeps only requests of the newest version, `FlushDue` merges the due window
  into the cached request, and `Accept`, `Reject` and `Discard` resolve a request.
- Deadlines of windows and frames are choices: a window may or may not be due, an ambient
  frame may or may not be late. Every timing the code can see is among them.
- Frames are judged in any order, the code's order being one of them.
- `Judging` hands accepted evaluations over when the drain returns. Drains in `Feedback` are
  those of `_dispatch_ready`, which ignores what `drain` returns.

### Coordinator

`row` is the stored `PlanExecution`, `call[a].seen` the copy a caller read. `_save` is a swap
on the version, so every save is guarded by `Fresh`. A flush hands over feedback (`Emit`) and
then removes it (`Acknowledge`); `Select` stores nodes as running before their executors
start, `Finish` stores the round. `inbox` is the fabric's view, where an event id counts
once. Executors may return success, failure or waiting, whatever their node is: the code does
not restrict them. The clock is read once per call (`at`), as `now` is an argument of
`advance`.

### TaskRuntime

Every operation reads the task (`work[w]` holds the version it saw and what it would write)
and saves it in a later transaction. `apply_event` looks the event up before it reads the
task, hence `Receive` and `Apply`. `Save` needs the version and a free event id, otherwise
`RollBack`. Event times are the provider's; an event is not received before it occurred.
`start`, `cancel`, `expire` and `recover` are public operations of the runtime that no other
module under `src/groupmate` calls at this commit; they are modelled as the code offers them.

### ReplyLane, Replies, Cognition, Lifecycle

`ReplyLane`: a handler is a call of `handle_event` or a turn of the wake-up loop with the batch
it drained (`LaneBatch`). `lnPc` is where it awaits; `lnUsers` counts the reservations; `lnScene` the
generation of the scene, `lnSeen` the one its judgements were made for; `lnTrace` the end of
each message's trace. A cancelled waiter leaves the lane from wherever it is. `lnAnswered` counts
the replies whose lease event moved the scene: one without a lease leaves nothing a later judgement could see.

`Replies`: `rpCase` is everything decided before the plan (lane, mode, risks found in the text,
snapshot of facts), and `rpPlan` what the planner binds the reply to. The attempts of the model, the
review, the one repair and the plain attempt are actions; the clock and the revision of the
game move between any two of them. `rpRow` and `rpBundle` are the row of `reply_plans` and
the bundle, written in two transactions with a stop between them. A plan lasts as long as its intention
(`lasts`) or the grace, never beyond `RpMaxAge` after its message nor its facts; one made later than that is written and its
bundle refused (`RpTooLate`).

`Cognition`: a call of a worker is a coroutine with a state (`cgTask`): waiting at the gate,
awake, calling, cancelled while calling, over. `cgEnd` is how the evaluation saw it end,
`cgSaid` what the call really said, so a late answer after a timeout is visible to the
properties. The Governor's arithmetic is reduced to which worker verdicts allow an outcome.

`Lifecycle`: generations of services are numbered; `lfMgr` is the state of a manager, `lfBox` of
its mailboxes, `lfManager` the bridge's reference. A task inside a manager awaits a mailbox
(`lfAsks`); a mailbox answers in order and ends at the stop command, after which a command would
never be answered - the property is that the closing order keeps this from happening.

### What the bot knows

`KnowledgeJobs`: `jobsRow[<<kind, number>>]` is the durable row, `jobsWorker` the single
background worker, `jobsFlight[h]` the flight that all replies with the same request hash share,
`jobsUsage` the stored hourly count and `jobsCalls` the provider calls really made.
`Conventions` follows one expression in one group: `convQueue` the bounded queue in memory, `convObs` its rows,
`conv` and `convAlias` the meanings; a row carries the time its message was said, and a meaning the latest of those. `GameFacts` follows one game in one region: `factsSlot` the release slots with a position on
each of three tracks, `factsDraft` what an editor derived and will save.

`Profiles` keeps the queue (`pfObs`), the worker's batch, claims and portraits; `MemberStyle`
the collection windows, versions and sessions; `Relations` the accepted events and the
projection, in tenths and hundredths as integers because the code's decimals have that
granularity. `Stickers` keeps a card per picture and the run of the vision worker with the copy of the
card it read.

### Deciding and operating

`Chorus` takes messages as (author, text, time) and the reading of the model as one of
`ChReadings`. `ChHorizon` is how far back the marks of joined chains are looked up when a message is evaluated: an
echo is never of a chain marked within that time. `Autonomy` has a row per opportunity and a state per run of `run_due`;
`Readiness` evidence, confirmations, reports and rollouts of several groups. `ControlPlane`:
a command is a record (`CtlCommand`), `ctlSeen` the version its sender had seen, `ctlLog` the
committed log; answers may be lost and commands repeated with the same id. `Projections`:
each projection consumes the journal at its cursor, `prjEvents` is the stream with its retention, `prjReader`
a reader with the cursor it comes back with, what it knows, and (`lost`) what the stream had dropped when it was handed its first
event. The page is loaded (`PrjOpen`) before its stream is connected.

## 3. Runs

| run | constants | states | shows |
|---|---|---|---|
| `outbox_safety` | 3 bundles, 4 parts, a shared key, 2 dispatchers, clock 0..2, 1 restart | 837,540 | `AtMostOncePerKey`, `LedgerAgreesWithGroup`, `NoPartAfterHole`, and the refinement `KeepsPromise` |
| `outbox_reply` | 1 bundle of 3 parts, fairness | 17,924 | `SentPlanIsOver`, `QueueDrains` |
| `outbox_retry` | as `outbox_safety` | violation | a retried part is claimed and never sent |
| `outbox_leftover` | as `outbox_safety` | violation | `start` leaves SENDING parts behind |
| `scene` | 3 events, 2 drains, drift 1, history 2, 1 exception, 1 persona change, 1 restart | 519,303 | replay, cursor, single action, cached request, bounded requests, finality |
| `scene_fast` | a call, an ambient message, a foreign command | violation | a direct call overtaken during the drain is not judged |
| `scene_feedback` | the same, one drain of the dispatch loop | violation | an accepted evaluation is thrown away |
| `coordinator` | 3 nodes (one dependency, one task node, one retry with a deadline), 2 callers, 1 wake-up, 1 failure, 1 restart | 1,277,720 | retry limit, dependencies, feedback, finality |
| `coordinator_restart` | the same nodes, 1 caller, clock 0..2, the plan expires at 2, fairness (the clock's too) | violation | an advance within the plan's lifetime passes over a running node, which is left running for ever |
| `task` | 5 events, 2 workers, clock 0..2 | 41,094 | first end wins, exact history, consent, progress |
| `runtime` | the sixteen components, one moving in each behaviour | 765,331 | each component's types and its safety, and what no step of it does |
| `runtime_chain` | `Chorus` alone | violation | one chain of a chorus is joined twice |

**The run of the components.** `MCRuntime` picks a component (`part`) in the initial state; its
next-state relation moves, all others rest. This is what sixteen separate runs would explore, in
one: no behaviour of a component is lost because they share no variable. `MCView` tells states apart by
the moving component only. The conjunct `vars = vars` of `MCInit` makes TLC evaluate the
functions of the initial state, which it otherwise keeps as unevaluated values in the components
`MCView` never reads. `MCxxxFocus` predicates are conjuncts on the next state: they are
bounds of the instance, each named and explained where it is defined, and narrow the
inputs to the cases that interact (for example two of the commands after a third). No property and no
proof depends on them.

| part | instance | states |
|---|---|---|
| lane (`ReplyLane`) | two messages and three handlers, the second with two evaluations | 86,531 |
| replies (`Replies`) | two strict facts and one stable one, snapshots expiring at different times, both lanes, three modes | 43,108 |
| cog (`Cognition`) | an ambient frame, one in a chorus, a direct one and a reminder at a gate of one slot | 37,030 |
| life (`Lifecycle`) | two callers of start and one terminate at a time | 43,786 |
| chorus (`Chorus`) | two members, two texts of which one names a member, three messages | 33,580 |
| jobs (`KnowledgeJobs`) | three questions about two facts, one answered only by rumours, one hour boundary; either replies or scheduled jobs move | 94,255 |
| conv (`Conventions`) | two meanings of one expression, three messages from two scenes, one an administrator's | 92,857 |
| facts (`GameFacts`) | two release slots, two bundled seeds, an official and a corroborated claim; claims and slots do not both move | 21,534 |
| prof (`Profiles`) | three messages of two members, two claims about one, one merge | 47,786 |
| style (`MemberStyle`) | two members, three messages, two sessions of at most two windows | 76,109 |
| relations (`Relations`) | two conversations, four evaluations with nine events of five kinds over two days | 15,956 |
| stickers (`Stickers`) | two pictures, one place in every pool and one in the queue | 46,021 |
| autonomy (`Autonomy`) | two opportunities, two overlapping runs, three scene versions | 37,558 |
| readiness (`Readiness`) | two groups, two tokens, one configuration change | 10,456 |
| ctl (`ControlPlane`) | two configurations with a restore and a pause of the same id, or seven profile commands on three members | 50,227 |
| prj (`Projections`) | four effects, batches of two, two projections and a reader; either may be rebuilt once | 28,537 |

The invariants of the run are conjunctions of the components' own (`JobsSound`, `FactsSound` ...).
`RuntimeTypeOK`, `MembersSound`, `PresenceSound`, `UnaskedSound` and `StepsSound`, the action property of five
components, speak of several; their conjuncts begin with `part = ...`, so that TLC evaluates only those of the
component that moves. Nothing is lost by it: `part` is any component, and what holds of
every one that is looked at holds of all.

**Bounds.** Two dispatchers, drains, callers or workers are what it takes to race, and the
code has no rule that counts more of them. Three parts in a row are needed to have a hole
with something before and after it; a shared key, a decorative progress part and its
replacement need the other bundles. A drift of 1 with three events lets a request be inside,
at and beyond the limit; a snapshot every second event leaves room for a snapshot older than
the cursor. Clock values 0, 1, 2 are before, at and after each deadline that matters. One
restart is enough for every property here because a restart leaves no trace but the stored
rows, which the second one would find in a state the first one has already met; `MaxRestarts`,
`MaxFailures`, `MaxWakes`, `MaxPersona` and `MaxTime` are the only bounds in guards. They are
constants, and the proofs hold for every value of theirs. In the components of `runtime` the
bounds are `JobsLastHour`, `JobsGenerations`, `ConvLastTick`, `FactsLastTime`, `CtlLastTime`,
`PrjRebuilds`, `CogMaxCalls`, `ProfLastTime`, `StyleLastTime`, `StyleLongest`, `RpLastTime`,
`RpLastRevision`, `ChLastTime`, `ChLastEvent`, `ChInFlight`, `RdLastVersion`, `RdLastConfig`,
`RdLastTime`, `StkReplies`, `AutLastTime` and `AutVersions`; the limits of the code (`JobsHourLimit`,
`ConvCapacity`, `StkPoolLimit`, `CogLimit` ...) are small so that they are reached.

**Symmetry** is used for drains, callers and workers, which no definition tells apart, and
only in runs without liveness properties.

**Deadlock** is checked where the system must always have a step. `coordinator` switches the
check off because a plan that is never submitted before its expiry leaves nothing to do, `coordinator_restart`
because all bounds may be used up, `task` because an ended task with the clock at its bound
may rest, and `runtime` because every component comes to rest when its inputs and its clock are
used up. That nobody waits for ever inside the runtime is therefore stated as an invariant
(`LifeDrainAnswered`), not left to the deadlock check.

**Fairness.** `outbox_reply` assumes that the polling dispatch loop claims again
(`_attention_wakeup_loop` polls once a second and survives exceptions), that an awaited
platform call returns (the client has a timeout), that the clock moves and that the host
starts the plugin again. Nothing is assumed of the platform posting anything, of governance
or of an operator. `coordinator_restart` assumes that time passes, so that the plan's expiry comes and is
stored, and repeated calls of `advance`, more than the code offers, and finds the node stuck all the same. The other runs check safety only and assume no
fairness.

## 4. Divergences found

1. `delivery/dispatcher.py:29`: a part that failed retryably keeps its receipt in the row;
   `claim_ready` returns the next attempt without it, the equality check fails after the
   claim and the part stays SENDING (`outbox_retry`).
2. `manager.py:570`: `start` recovers feedback only; `recover_inflight` has no caller in the
   runtime, against the plan that a restart recovers unconfirmed parts (`outbox_leftover`).
3. `scene_actor.py:298`: a direct call that another event overtakes in the same drain is
   filtered out although its judgement would still be accepted (`scene_fast`).
4. `actions/coordinator.py:710`: after a restart, an `advance` within the plan's lifetime passes over a
   node stored as running; it is never resumed, and when the plan expires the node is still running
   (`coordinator_restart`).
5. `../adapters/astrbot_bridge.py:2866`: the drain of the dispatch loop may judge a message
   another handler has just ingested, and drops the result (`scene_feedback`).
6. `chorus.py:107`: a chain is named after the oldest message the sliding window still holds, so
   a chorus that goes on gets a new name and is joined again (`runtime_chain`).

The following are stated as definitions too. TLC refutes each of them with the constants of
`MCRuntime`, but no run of the project lists them:

- `ProfRejectedIsUntold`: a rejected fact stays in the stored portrait until the next redraw
  (`control/commands.py:798`, `docs/operations/social-runtime-control-plane.md:69`).
- `ChAmbientObserves`: where the scene cannot be read, an ambient message may still be answered
  (the smalltalk design, line 144).
- `RpUnverifiedCanArrive`: the text that says nothing reliable was found is put in a bundle that
  ends with the expired facts (`replying.py:1748`; the plan of the grounded replies, line 347).
- `StyleDisabledIsUnread`: a member switched off while an earlier member is being distilled is
  still read (the design of the speech styles, 4.2).
- `LaneNothingToMovedScene`: after the check inside the lane the scene may move while the reply
  is written (`../adapters/astrbot_bridge.py:1489`).
- `PrjPageIsWhole`: what the stream drops between the load of a page and the first event it is handed is told to
  nobody, since a reader without a cursor is not asked to reload (`control/stream.py:63`). `PrjNoSilentGap` excepts it.
- `StkHandwrittenKept` excludes one case on purpose: a meaning written during the caption call is
  overwritten (`stickers/vision.py:206`, `docs/features/stickers/design.md:212`).

Smaller observations made while modelling, none of which a run depends on. *Gate*: when two slots
are freed before a waiter runs, one wake-up is lost until the next release; a call that swallows its
cancellation keeps its slot. *Lifecycle*: overlapping starts can leave a second generation
running; a start that fails clears the reference another start has set; an event after
terminate starts a new runtime. *Profiles*: observations in `processing` at a stop are never
claimed again; a batch whose member was merged away can fail for ever, once a minute. *Member
style*: the oldest 500 messages are read whatever their windows. *Replies*: the knowledge revision
checked is that of the first strict fact's game; a plan made after its message has aged is written by the model
before its bundle is refused, and its row stays `generated`. *Readiness*: advancing looks at neither evidence nor
configuration again; a crash between the pause and its callback leaves the group unpaused.
*Autonomy*: an expiry may overwrite the end of an opportunity another run has just emitted.
*Stickers*: disabling a candidate bypasses the limit of the library; refused vision jobs wait for the next start.
*Relations*: a crash after `accept_result` loses the relationship events of that evaluation; two
repairs of one hurt are both counted; a repair uses the budget it is exempt from. *Traces*: the
trace of an evaluation that was dropped stays in PLANNING. *Conventions*: a meaning an
administrator rejected returns with the next evidence; evidence projected late does not make a meaning younger, so it may be
stale at once. *Scene actor*: the branch of `Reject` that accepts an evaluation recorded before is
unreachable: the invariant of `SceneProofs` shows that a judgement on its way is always of a frame
nobody has judged.

## 5. Proofs

`OutboxProofs` proves `TypeCorrect`, `NeverPostedTwice`, `NeverOverAHole`,
`LedgerIsTruthful`, `SentPlansAreOver` and `Refinement` for all sets of bundles, parts and
dispatchers, from `OutboxAssumption` alone (orders are unique inside a bundle, which
`DeliveryBundle` checks; everything else says what the constants are).

None of these invariants is inductive: that a part is posted once depends on who may still
post it. `IInv` adds: a part that may still be posted is SENDING or UNKNOWN and was not posted
before; one dispatcher at most awaits a part, and what it awaits was posted or still may be;
parts of a bundle that is not stored are absent; stored keys differ; and no part goes over
a hole. `SentPlanIsOver` needs, on top, what a dispatcher that holds an unmarked answer knows
of the rest of the bundle (`SentInv`). The refinement is proved action by
action with `IInv`: every transaction moves each part by a rule of `DeliveryPromise` or
leaves it where it is.

`TaskProofs` proves `TaskTypes`, `HistoryIsExact`, `NeverWithoutConsent`, `EndIsFinal` and
`ProgressIsMonotonic` for all sets of events and workers. The inductive invariant says of a
worker about to save: the version it read is not newer than the row, and if it is the row's
version, then what it would write is a legal move of the row exactly as it is stored - the
row has not ended, the version goes up by one, progress does not go back, the event is logged
under the end the task gets, and consent is there where it is needed. A stale worker needs
no such property, because the guarded update refuses it. With the history finite and one
row per version this makes "same version, unused event id" enough for every save.
`EndIsRecorded` adds `HistoryEndsLikeTask`.

`SceneProofs` proves `RecoveryIsExact` (`WorldIsReplay`) and `NoEventOvertaken`
(`CommittedPrefix`) for all sets of events and drains and any snapshot interval. A drain picks
its next event from a claim it made earlier, so neither property is inductive. The invariant
(`IInv`) adds: an event has one inbox row; only the holder of the lock claims; its claim is a
run of inbox numbers that starts right behind the cursor; a drain that is not idle belongs to a
running actor; the snapshot is a prefix that is not ahead of the cursor. Then everything behind
the cursor can be claimed, whether it failed, was abandoned by a crash or is new, and the event
that is processed is the one after the last committed. `SceneTypes` builds on it: a scene version is a
length of a prefix of an inbox that repeats nothing, hence at most the number of events.

Its second half proves `ActsOnce` (`ActedOnce`), `CachedRequestIsOpen`, `RequestsWithinDrift`
and `ResolvedStays` (`ResolvedIsFinal`) from the invariant `Requests`. That an evaluation is accepted once is far
from inductive: a frame travels through a window, a cached request, a recovered request and
the hands of several drains. `Requests` says that a request is that of the inbox number it is
named after (so of one version there is one request); that what is cached is exactly the pending request of the newest version;
that a window is not yet a frame of the request of its own version, neither the one in memory nor the one stored;
that a frame of its request's own version is in the hands of one drain at most and unjudged as long as
it is; that recovered requests exist only while every drain is idle; and that what was acted on is recorded
as evaluated. Frames of older versions may be held twice, but those are never accepted.

`CoordinatorProofs` proves `SideEffectsWithinLimit` (`RunsBounded`), `EdgesAreRespected`
(`DependenciesFirst`) and `OverForGood` (`OverIsOver`) for every plan, any number of callers,
failures and restarts. A save swaps the row only if it is still the one the caller
read, so what a stale caller holds does not matter. The invariant adds what makes a save
harmless: the attempts stored in the row count the starts; a pending node can be
started once more within its limit; an executing caller's nodes run in the copy it holds and its
plan is open there.

Its second half proves `CoordinatorTypes` (`TypeOK`), `NoResultIsLost` (`NothingUntold`) and
`TruthInOrder` (`ToldInOrder`) from `FInv`. Callers emit feedback from the copy of the row they
read, which may be old: two callers can tell the same result, or one can tell it long after. The
invariant therefore speaks of every copy: what waits in it is true of the row and stays
true of every later one (what succeeded stays succeeded after as many attempts); the completion of the plan waits behind
each success that is not in the inbox yet; and what a caller has emitted but not yet taken out of its copy is in the
inbox. The feedback of one step is told in the order of the nodes' ranks. `InOrder` states it as a choice among the arrangements of the
set; that a sorted one exists (`ListedInOrder`) follows without induction: to give each
number the count of those not above it is a bijection onto `1 .. Cardinality`.

The theorems about the sixteen components follow, in the order of their modules. Each component has one
inductive invariant (`JobsInductive`, `LaneInductive` ...), the conjunction of its types, of the property and of
named parts; a lemma per action shows that the action keeps it.

### StoreProofs

`GameFacts`: proves `FactsTypes`, `FactsStaySound` (`FactsSound`) and `FactsMoveForward` for any
slots, snapshots, claims and editors. The invariant says that all slots carry one
revision, because every writer sets them all; that at most one memory of a search without result is active, and of
the slots' revision; that of the active claims that are neither rumours nor bundled there is one at most; and that an active bundled claim is of the seed
in force. That a track never goes back (`FactsTracksForward`) needs what an editor holds: a draft derived at the current
revision is ahead of the slots as they are stored, and the save refuses an older draft.

`Conventions`: proves `ConvTypes` and `ConvStaySound` (`ConvSound`) for any messages, entities and
capacity. Two active meanings are excluded because evidence activates a meaning only when no rival is
open, and otherwise disputes it and every open rival in the same transaction; only an administrator's command makes an
exception, which the next evidence takes back. The queue holds pending observations, each once; its lemmas say
what a sequence without repetition keeps when one element is taken out, and that a finite set can be listed.

`KnowledgeJobs`: `JobsStaySound` (`JobsSound`). Learning spreads over several awaits and a restart may fall
between any two. The invariant says that the worker holds a row exactly while it works on it; that each
stage of learning was stored before the next began, so whatever a restart finds can be taken up; and that a flight that is queued
or calls a provider has a provider left to ask and its row in the table. The quota of the
hour (`JobsQuotaKept`) compares two sets of flights with the stored usage: a step moves one flight at most, so each
count changes by one at most, and a flight that becomes a call leaves the queued ones in the same transaction.

`Projections`: `PrjStaysSound` (`PrjSound`). What a projection applied is the journal up to its cursor, and it
announced nothing beyond; a row that is taken is announced behind every cursor a reader may hold.
For a reader (`PrjFollows`), either its cursor is so old that it will be told to start anew, or each item of its group is
known to it, announced behind its cursor or was gone from the stream when it began: pruning moves a reader from the second case to the first.

`ControlPlane`: `CtlStaysSound` (`CtlSound`). One version at most is published; every command in the log was
composed before it was executed; and the last publication in the log produced the version in force. So
what a command that was executed had seen is what its predecessor produced: no update is lost, whether the answer
was or the command was repeated.

### ConversationProofs

`Lifecycle`: proves `LifeTypes` and `LifeStaysSound` (`LifeSound`) for any number of calls that start, use
and take down generations, from `LifeConstants` (the two marks are no tasks). The invariant: a drain works with a
manager that is open or closing, and its mailboxes are up; a late command belongs to
a call that still replies; the generation the bridge refers to was built completely and is
open; the one terminate took is not the referred one, and what still runs of it is what is left
to close; of generations that are gone at most the loop runs.

`Replies`: proves `RpTypes` and `RpStaysSound` (`RpSound`) for any facts, evaluations, deadlines and
revisions. Its first lemma is about the planner: each risk class of the text is missing its evidence or has a
strict fact the reply must use. The invariant adds what each phase tells of the row and
the bundle (the row is ahead of the bundle by one step at most, so a stop between the two leaves a row that
promises nothing that was not committed), and that the model is asked only when no risk class lacks
evidence, unless the reply asks back. Then a text that is spoken uses what it must, when it
is still valid.

`ReplyLane`: `LaneStaysSound` (`LaneSound`) and `LaneEndsStand` (the lane's part of `StepsSound`). The registry of lanes
counts the handlers that hold a reservation, and as long as there is one the lock is the one all of them got: that a lane is
forgotten when its count is zero never lets a second one come into being beside it. For the answers: who answered
had moved the scene away from what any other handler had seen, and what a handler inside may still
answer it has checked, once inside, against the scene of that moment. That the scene rests while the reply is written is not
claimed (`LaneNothingToMovedScene`).

`Cognition`: `CogStaysSound` (`CogSound`) and `CogDirectGoesFirst`. Every call that waits is in the queue once;
a call has an end only when it is over or its evaluation gave it up, so a late answer changes no verdict; a model was
called only for a frame that asks for one, after its rule worker had ended. The count of the gate is the number
of the calls that hold a slot, whichever way they are unwound.

`Chorus`: `ChEchoesAreSound`. Evidence that was found is shared: the same words of two humans within the window. An
evaluation that waits knows which chains were marked when it began; an echo rests on such evidence, spares those who do
not play, and is of a chain unmarked as far as its evaluation knew.

`Readiness`: `RdHandoffsAreProven`, `RdHandoffsAreOwn`, `RdNeverShortcuts`. A report that passed says why; the token of
a handoff is used up; a rollout that ever began was handed over, and is in its phase since a moment that
has passed. The least time a group needs to get into a phase is a recursive function; the proof uses its defining equation one
phase at a time, which needs no induction.

`Autonomy`: `AutAlwaysSpeaksOnce`, `AutAlwaysJustified`. An attempt that is not the first stands for a follow-up, and the
next one is not counted before its claim; what a run carries to the sink was claimed in its window by a look at a
scene that allowed it. Overlapping runs are kept apart by the claim, which only one of them gets.

### MemberProofs

`Profiles`: `ProfStaysHonest`. A batch is of observed messages, each counted as tried; a claim rests on observed
messages and, once it is there, is about somebody; what an administrator barred stays closed through every answer of the
model that was asked before.

`MemberStyle`: `StyleStaysByConsent` and `StyleEndsForGood`. What the model is shown, and what a version rests on,
is the member's own and was said while a window an administrator opened was open; versions rest on ever more messages; sessions are
apart by member and second, so ending one ends what it began.

`Relations`: `RelStaysSound` (`RelIsSum`, `RelDailyBudget`, `RelHurtsUntilRepaired`). Every event is written once; what a
frame was given is remembered, so a repair names something; a memory is of an accepted event and is resolved by
its repair. The value is a recursive function of the events' positions. `RelFolds` shows that such a function exists along a sequence (it takes the
furthest position that some function reaches, and finds none it must stop at); an event more is then one more application of
the step, and the sums are kept without one of the library's induction theorems.

`Stickers`: `StkStaysSound` and `StkKeepsHandwriting`. Whatever is ready was confirmed; a worker that is down holds nothing; the
picture it works on is not in its queue; and it works on a text of the administrator only when it was asked to. The
pools keep their limits because a card enters one only with room in it, whichever of the page and the worker puts it there.

### RuntimeProofs

`RuntimeTypes`, `MembersStaySound`, `PresenceStaysSound`, `UnaskedStaysSound` and `StepsStaySound` are about
`RuntimeSpec`, in which all components move: each follows from the theorems of the components. They hold for every
value of the constants that satisfies the named assumptions of the modules.

Only model-checked: `QueueDrains` and `RunningIsResumed` (liveness under fairness and
`ENABLED` are out of the prover's reach) and what the runs that expect a violation refute. Every other
property of a run is a theorem.

## 6. Not modelled, and why

Texts, prompts, scores, embeddings and images: no property here is about them. Several groups
at once: actors share no row, and the Outbox orders bundles by row id over all groups, which
the bundles of `Outbox` stand for. SQLite itself: transactions are taken as atomic and
durable, as the `BEGIN IMMEDIATE` and WAL settings ask for. Several processes on one
database: the plugin runs in one process. In `Autonomy` too the overlapping runs are of one event loop, where
nothing awaits between the look at a row and its claim; the failed swap of `autonomy.py:420` needs another process.
The daily quota of the knowledge jobs is left out, the hourly one is modelled. The hazards `PROJECT.json` lists without a property
say why there; some lines that bear on the same hazard are listed once, with the line where it bites
first (for example `actions/coordinator.py:354`, `:389`, `:399` and `:669` under the races of `advance`, `tasks/runtime.py:366`, `:387`, `:486` and
`:491` under those of the workers, `manager.py:635` under `:646`). The parts listed as `not_modelled` in
`PROJECT.json` carry their reason there.

## 7. Plan

Done: `Outbox` with `DeliveryPromise`, `SceneActor`, `Coordinator`, `TaskRuntime` and the
sixteen components of `Runtime`, all with proofs of every safety property the runs check. Left, in this order:

1. `PlannedTasks`: Coordinator and TaskRuntime composed through wake-ups, against an abstract
   promise that a waiting node hears of the end of its task.
2. `Lifecycle` composed with `SceneActor`: a close that waits for the drains of several groups.
3. World and lease projection as operators, checked over bounded inputs against a reference definition.
4. Liveness of the gate and of the job worker under the fairness of the event loop.

Abstract specifications worth stating: `DeliveryPromise` (done), one for tasks as
seen by a plan, one for a scene ("every committed event is projected once, every opportunity
is acted on at most once", whose two halves are theorems now).

## 8. Running the checks

    tlc -workers 2 -config MCOutbox.cfg MCOutbox
    tlc -workers 2 -config MCRuntime.cfg MCRuntime
    tlapm OutboxProofs.tla

The three modules about the components take five to eight minutes each.

`MCRuntime` checks fewer components at once when `MCParts` in its configuration names fewer.
