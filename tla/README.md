# TLA+ models of agent-state-gate

agent-state-gate decides whether an agent's step may go ahead. It asks six
adapters about a task and run, folds their answers and failures into one
verdict, writes what it decided to a database, and puts the verdicts a person
must look at into a queue. Paths below are relative to `src/`; `SV` is
`agent_state_gate/service.py`, `PE` is `agent_state_gate/persistence.py`.

## 1. Inventory

| Part | State | Operations | What makes it correct |
|---|---|---|---|
| Gate service, `SV` | locals of each call; four tables | `evaluate`, `replay`, `assess_state`, `health` | outages never loosen a verdict; allow is earned; an answered call is recorded; a snapshot replays |
| Verdict algebra, `SV:42-109`, `core/verdict_transformer.py` | none | `_more_restrictive`, `_apply_failure`, `resolve_verdict` | the fold is the maximum of its grounds |
| Evaluation rows, `PE` | assessments, audit packets, snapshots | `save_assessment`, `append_audit_packet`, `save_snapshot`, `latest_snapshot` | no row refers to a missing one |
| Human-attention rows, `PE:276-364` | item status, owner, version | `enqueue_attention`, `take_attention`, `resolve_attention` | one taker, no lost update, only the owner resolves, resolved is final |
| In-memory attention queue, `queue/human_attention/` | items, escalation level, deadlines | `add_item`, `take_item`, `resolve_item`, `escalate_item`, `enforce_sla` | being late counts once, a repeated sweep only notifies again, resolved items are reopened by an escalation only |
| Conflict resolver, `core/conflict_resolver.py` | winner of the loop | `detect_conflict`, `resolve`, `resolve_assessments` | the strictest wins in any order, no diff is hidden |
| Approval bindings, `PE:161-209` | binding of an approval to diff, context, policy | `save_approval_binding`, `approval_is_current` | a current approval was given for what is asked now |
| Retention, `PE:253-274, 373-406` | audit packets, purge manifests | `append_audit_packet`, `purge_expired` | nothing goes early, all that goes is counted |
| Assessment engine and store, `core/assessment/` | dict of assessments | `assemble_assessment`, `save`, lists | the trace names what decided, the advice suffices |
| Audit packets, `audit/audit_packet.py` | dict of packets | `generate`, `save` | packets are kept as long as the gate keeps them |
| Evidence recorder, `audit/evidence_recorder.py` | evidence items | `record`, `record_test_result`, `record_approval`, `link_to_acceptance`, strength | strength says what is covered |
| Queue routing, `queue/human_attention/routing.py` | none | `route_assessment_to_queue` | every verdict but allow gets an item |
| Adapters, `adapters/` | HTTP sessions, commands, one cache file | one method per question; holds, resumes, transitions, receipts, acknowledgements, review items | every failure is an error its caller knows; no false answer |
| Configuration, `config.py` | settings, read once | validation | production has all it needs |
| Auth, MCP surface, CLI, migrations | none or static | decoding, parsing, delegation | not state machines |

Interactions: the MCP surface and the CLI call the gate service. `evaluate` calls
the adapters one after another and then the database, in four transactions. The
database is shared by every process that serves a tenant; reviewers take and
resolve rows there. The in-memory queue, the assessment engine, the resolver,
the packet generator and the recorder are an older path with no shared tables;
nothing in the package calls the engine or `enforce_sla`, only tests do. In
`queue.py` only `enforce_sla` calls `escalate_item`. The adapters' calls that
change something on the other side (holds, resumes, transitions, receipts,
acknowledgements, review items) have no caller in the package either; they are
offered to whoever embeds it.

Hard to test, and what the properties are about (the full list, with its lines,
is `hazards` in PROJECT.json): any subset of adapters failing in one call; a
crash, an error or another call between two of the four transactions; an audit id
that collides after the assessment is committed; two reviewers on one row, over a
database with and without row locks; late takes and resolutions; manual
escalations between sweeps; the off-by-one between levels and chain; replay after
a run was evaluated again; the order of a list of conflicting assessments; purges
that overlap or fail half way; an approval that is still current when the verdict
has changed; two measures of evidence; requests that were acted on but whose
replies were lost, and their retries; an answer from a cache file of any age.

## 2. Modules

| Module | Models | Instance |
|---|---|---|
| `Verdicts` | the verdict order, failure floors and decision table, as operators | used by `GateService`, `ConflictResolver`, `AssessmentEngine`, `Adapters` |
| `DecisionRecord` | abstract: what the database may show of an evaluation, write by write | |
| `GateService` | `evaluate` and `replay` over the four tables; `ImplementsRecord` is the refinement | `MCGateService` |
| `AttentionQueue` | abstract: an item is taken once and resolved once, by its taker | |
| `AttentionStore` | the transactions behind it; `ImplementsQueue` is the refinement | `MCAttentionStore` |
| `HumanAttentionQueue` | the in-memory queue, its escalations and sweeps | `MCHumanAttentionQueue` |
| `ConflictResolver` | the loop of `resolve_assessments` | `MCConflictResolver` |
| `RetentionLedger` | abstract: packets, and purges that take effect at once | |
| `AuditRetention` | the audit packet table and its purges; `ImplementsLedger` is the refinement | `MCAuditRetention` |
| `AssessmentEngine` | verdict, trace, counterfactuals, hash, routing and retention class of one assessment, as operators over `Verdicts` | used by `AssessmentTrail` |
| `AssessmentTrail` | recorder, engine, store, routing, packets and approval over time | `MCAssessmentTrail` |
| `Adapters` | reply tables of the adapters, protocols' risk levels, `assess_state`, `health`, the checks of a configuration, as operators | used by `AdapterCalls` |
| `AdapterCalls` | attempts, effects, lost and late replies of adapter calls | `MCAdapterCalls` |
| `*_proofs` | theorems about the module they are named for | |

**GateService.** `pc[e]` is the adapter call or transaction an evaluation does
next. `evaluate` works on local data between two of those, so one action runs from
one result to the next call: `ReadTaskstate` ... `ReadShipyard`, then
`SaveAssessment`, `AppendAudit`, `SaveSnapshot`, `EnqueueAttention`. What an
adapter answers is chosen afresh at every call. `Abort` is an exception or a crash
at any of these points; committed rows stay. `AppendAudit` fails when its id is
taken. `known` is what goes into the snapshot's context. `clock` stamps snapshots
in the order of their transactions, at one instant or a later one. `replay` reads
one snapshot and writes nothing, so it is an operator, `Replay`. Seen from the
database an evaluation is a `DecisionRecord`: each of its four writes is one step
there (the last one with the answer), and everything else is none.

**AttentionStore.** A call is a transaction with a `Select` (which takes the row
lock when `RowLocks` holds), a `Commit` that writes what it computed from the row
it read, and `Die`, a rollback. `RowLocks = FALSE` is SQLite, which ignores
`FOR UPDATE` and is the default database. An item stands for a pair of tenant and
item id: no call reaches another tenant's row.

**HumanAttentionQueue.** One action per method. `Swept` is what one pass of
`enforce_sla` makes of an item, its `escalation_reason` included; `UpdatedItems`
are those it returns. A pass covers all items, with the sweep's own clock reading.
Time is in ticks; `Ack` and `Decide` are the deadlines of a severity, 0 for none.
`takes` and `climbs` count the takes of an item and the levels sweeps moved it up;
they are for the properties and no action reads them.

**ConflictResolver.** The caller's list is revealed as the loop reads it, so every
list of every order is a behaviour. Scores derive from the verdict, so the score
drift branch cannot be reached, nor can the strategies for it; they are left out.

**AuditRetention.** A purge is `Begin` (cutoffs from one reading of the clock), a
`Delete` per class in the order of `RETENTION_DAYS`, and `Commit` (manifest and
commit) or `Fail` (rollback). A deleted row stays visible to others and locked
until then, as in PostgreSQL. SQLite, which serialises writers, allows a subset of
these behaviours. Verdicts are allow and "deny", which stands for every other one.
To `RetentionLedger` only `Tick`, `AppendPacket` and `Commit` are visible: what a
purge takes is fixed by the day it began on, although packets are written and other
purges commit between its DELETEs.

**AssessmentTrail.** `world` is what the next call of the engine is given, and
changes as gatefield decides again, sources go stale, obligations and approvals
come and go. `Record` and `Link` are the recorder. `Assess` computes verdict,
trace, advice and hash at once, as `assemble_assessment` does, and stores them.
`Route` and `Audit` are the router and the packet generator. `Bind` is
`save_approval_binding`; `IsCurrent` is `approval_is_current`. What joins these
parts is not in the source: that `collected_evidence` lists the acceptance of
every linked item, that `evidence_strength` is absent or the recorder's, and that
an approval is bound to the hashes of an assessment. The module's header says so,
and the properties are of the parts under that use.

**AdapterCalls.** A call makes up to `MaxAttempts` attempts. `Act` and `Decline` are
the other side, which replies or whose reply is lost; `GiveUp` is a timeout or a
broken connection. The request of a timed-out HTTP call stays in flight and may be
acted on later; a command that times out is killed (`subprocess.run`). `Again` is a
caller that follows `retryable`, which nothing in the package does yet and its
errors invite. The evidence report has a command and, when that is an outage, a
cache file, which can be read, is missing or not JSON, or is broken: it cannot be
opened or decoded, or is no object. What the adapters do not catch (no `python`, output
that is not UTF-8, a broken file, an HTTP status they have no case for) leaves them
as `raw`. The other side is external, modelled by what the adapters rely on:
a success reply means that what was asked was done (one whose body says
`"success": false` is left out: nothing here says when shipyard sends it), shipyard
resumes active holds and moves a run from the stage named, and status codes below
500 other than success mean that nothing was done.

Data that no property tells apart is left out: texts, comments, the reasons of rows, hashes
(as equality of what is hashed), wording of the causal trace. Scores are whole
percentages. Adapter answers keep one value on each side of each threshold.

## 3. Runs

| Run | Instance | Distinct states | Shows |
|---|---|---|---|
| `gate_axes` | 1 evaluation; 3 callers; all six axes fallible; risks low, high, critical; both sides of each threshold of the decision table | 1,435,212 | the verdict is the strictest of its grounds and keeps outage floors; allow is earned; its snapshot replays |
| `gate_concurrent` | 2 evaluations, 2 tenants, 2 audit ids | 80,356 | rows are backed; each evaluation's writes refine `DecisionRecord` |
| `attention_locks` | 2 items, 2 reviewers, 3 calls | 275,904 | one taker, no lost update, owner resolves, terminal; refines `AttentionQueue`; every call is answered |
| `human_queue` | 2 items of any severity, 5 ticks, levels to 2 | 2,479,915 | being late moves an item up once per turn; a sweep repeated at once finds nothing late and only notifies the board again; resolved items change by escalation only |
| `resolver` | lists of up to 4, 2 subjects, 2 diffs | 2,573,006 | the fold's result |
| `records` | 2 packets, 2 purges, 2 tenants, days 0 to 2, ops kept a shorter time than audit | 214,644 | packets keep their term, allows go first, losses are counted once, purges refine `RetentionLedger`, one of them can always go on, all end |
| `assessments` | 2 assessments, 2 evidence items and acceptances, one change of any input | 1,884,780 | traces, advice, approvals, retention and strength say what they should |
| `adapters` | 3 calls of 2 attempts, 2 versions of the evidence, 3 states of its file | 3,036,834 | no answer is false, one caller is told, old evidence only after a failure |

Four more runs end in a violation, each a difference between a document and the
code (section 5).

Why the bounds are enough. One evaluation shares nothing with another until it
writes, so `gate_axes` is about the fold and needs one; `gate_concurrent` needs
two, since the tables interact by id and each pair of rows belongs to one or two
evaluations, and two ids make both a collision and its absence happen. Three calls
are a take, a rival take and a resolution, over one row or two. Five ticks pass
each deadline used in `human_queue`, with time to act after it; `MaxClock` and
`MaxLevel` stop `Tick` and escalation, so that run checks no liveness. `MaxLevel` 2
is the length of the longest chain used there, so an item gets to a role between
the first and the board, and past the end; an escalation or a sweep that would lift an
item above it does not happen in the run. Four assessments are a tie,
a stricter one and one of another subject. In `records` `MaxDay` leaves a packet
on either side of each cutoff, one packet is a refusal while the other is an allow,
and two purges are enough for a wait and a circle of waits. `assessments` compares an
assessment with the one an approval was bound to, so it needs two; `MaxChanges` 1
is any single difference between them, `MaxFiled` 1 suffices since no property
relates two filed items. In `adapters` one call (`maker`) makes the hold or does one
of the operations that share nothing with others, and two compete for the hold and
for the stage (`MCWork`); two attempts are one retry, `MaxVersion` 1 is evidence
that is old or not. The theorems drop these bounds. Symmetry is used over items,
reviewers, calls, subjects and diffs in runs without liveness; in `adapters` over
the two that compete.

The assumptions of `MCAdapterCalls` have TLC evaluate, over every input they tell
apart, the three facts about operators that are also theorems
(`CapabilitiesOnlyAddApproval`, `AssessStateQueuesEnough`, `ReadyIsComplete`).

Deadlock checking is off everywhere: calls, ticks and lists are finite, so the
model stops when all of them ended, as the program does when nobody calls it.

Fairness. `GateService` has none and no liveness property: an evaluation is a
sequence of calls, and that those to the database return is nothing the code sees
to (`PE:111-114` configures no timeout). `AttentionStore!FairSpec` gives weak
fairness to each transaction's select and commit: the database hands a free row to a
waiter, and the code between them does not wait. `EveryCallAnswered` holds with it because a holder always commits or
dies. `AuditRetention!FairSpec` gives weak fairness to each purge's deletes and
commit: the statements follow one another without waiting for anything but the
locks of rows, and all purges go through the classes in one order, which is why
`EveryPurgeEnds` holds. Nothing has to start a purge, fail one or turn the day.
`AdapterCalls` has no fairness: nobody has to retry, and the other side owes no
answer. Nothing in the package schedules sweeps, so the in-memory queue has no
fairness and no liveness property.

## 4. Proofs

TLAPS proves these for every value of the constants. The properties of the runs
are among them, but for the liveness properties; each invariant comes from one
inductive invariant of its module.

- `Verdicts_proofs`, about the algebra `evaluate` and `replay_context` share.
  `CombiningIsOrderFree`: verdicts combine like a maximum, so neither the order of
  the axes nor a repeated one matters. `OutageGrowsWithRisk`: an outage is judged no
  more leniently for a riskier request. `TableAllowsAndDenies`: the one row that
  allows and the three that deny. `WorseNeverLoosens` says which inputs of the
  decision table only ever tighten it, and `WhatHidesAStricterVerdict` says exactly
  when the others loosen it: the table asks one question after another, so a check
  that comes first hides a stricter one behind it (section 5).
- `GateService_proofs`: `TypeOK`, `FailSafe`, `VerdictIsStrictestGround`,
  `AllowIsEarned`, `RowsAreBacked`, `ReplayVerifies`, the refinement
  `ImplementsRecord`, and two properties no run has: `VerdictOnlyTightens` and
  `AnsweredIsRecorded`. `GateInv` adds to the types what is known at each point of
  the call: the running verdict is the fold of the contributions so far
  (`JudgedInv`), which contributions can be non-trivial at which `pc` (`StageInv`),
  what each row copied from its evaluation's locals (`RowInv`) and which rows each
  point of the call has behind it (`WrittenInv`). None of the properties is
  inductive without them: a row's verdict says nothing of the locals it came from.
  For the refinement `RecordInv` adds that an audit packet has the class of its
  evaluation's verdict and lies behind that evaluation, and that only an evaluation
  that returned has a queue item. So each of the four writes finds the ones before
  it and is the step of `DecisionRecord` that comes next; adapter calls, aborts and
  collisions of audit ids are stuttering.
- `AttentionStore_proofs`: `TypeOK` for both databases; with row locks
  `OneTaker`, `VersionCounts`, `OwnerResolves`, `ResolvedIsTerminal` and the
  refinement `ImplementsQueue`. `StoreInv` says that a holder's copy of the row is
  still the row, that two holders never share a row, and how many takes and
  resolutions each status implies. What is left of these without row locks, where
  the `attention_sqlite` run has a counterexample, is proved for both databases from
  `UnlockedInv` (every row, and every row a call has read, is one that some commits
  can leave): a resolution has a committed take of that reviewer behind it
  (`TakerResolves`); only a take that read the item as pending reopens it
  (`ReopenedByStaleTake`); and the version is a function of the status
  (`VersionFollowsStatus`), so nobody can see from a row that an update was lost.
- `HumanAttentionQueue_proofs`: `TypeOK`, `ClimbsOncePerTurn`,
  `OnlyEscalationReopens`, `SweepSettles`, from an invariant per item: `ItemInv`
  (an item is with whom its level says, an escalated one has a level above 0) and
  `CountInv` (an item a sweep may still move up has a take, or its first turn, that no
  climb was made for). Without the first a sweep could move an item between two
  notifications; without the second the bound is not kept by the next climb.
- `ConflictResolver_proofs`: `TypeOK`, `WinnerIsStrictest`, `NoHiddenDiff`,
  `EscalationIsReal`. Their conjunction is inductive; the lemmas say that
  outranking is a strict order that carries over ties.
- `AuditRetention_proofs`: `TypeOK`, `LossesAreCounted`, `AllowsGoFirst`,
  `KeptItsTerm`, for any retention table that keeps allows no longer than refusals.
  Two purges under way never hold the same row, and what a purge holds was due on
  the day it began; after the DELETE of a class it holds every row still
  there of that class that was due then (`SweptInv`). That last part
  makes `AllowsGoFirst` inductive. It also gives the refinement `ImplementsLedger`:
  at the commit the purge holds exactly what the ledger says is past its term, since
  packets written in between are too young and rows others took are gone from both.
  `PurgesNeverDeadlock` proves `SomePurgeCanGoOn`, the part of `EveryPurgeEnds` that
  needs no fairness: a purge waits only for one that has got further through the classes, so the furthest waits
  for none.
- `AssessmentTrail_proofs`: `TypeOK` and the five properties. (That an item may be for
  an acceptance of another task, the second cause `MiscountHasCause` names, does not
  occur in the run's instance; the theorem covers it.) The invariant says
  that every stored assessment is `Assessment` of its input, and that packets have
  the class of their assessment; the rest is about the operators, in lemmas on
  percentages, on finite sets of evidence and on each branch of the decision table.
- `AdapterCalls_proofs`: `TypeOK`, `AnswersAreTrue`, `OneIsTold`,
  `OldEvidenceOnlyAfterFailure`, from types, what is in flight or was done belongs
  to an attempt (`Sent`), what each result says of the effect (`Expected`), and
  what each effect leaves at shipyard (`Resumes`, `Moves`) and of the evidence
  (`Reports`). Also the three facts about the operators of `Adapters`: more
  capabilities never need fewer approvers, `assess_state` queues and continues as
  `evaluate` would, readiness of an accepted production configuration.

Assumptions are those named in the modules (`GateAssumptions`, `QueueAssumptions`,
`ResolverAssumptions`, `RetentionAssumptions`, `TrailAssumptions`,
`CallsAssumptions`: types and finiteness of the constants) and, where stated in the
theorem, `RowLocks`.

Only model-checked: the liveness properties (`EveryCallAnswered`,
`EveryPurgeEnds`), since fairness and ENABLED are outside what the prover handles,
and the violation runs.

## 5. Where the code and the documents differ

Each has a run whose counterexample shows it.

| Run | Code | Document |
|---|---|---|
| `gate_replay` | replay forgets the hard safety indicator and the critical SLA timeout, so a run they denied reports a mismatch (`SV:559-607`) | `docs/requirements.md:112,118` |
| `gate_asof` | `as_of` is compared with the latest snapshot only (`SV:616`, `PE:243-251`) | `docs/api_spec.md:233` |
| `attention_sqlite` | without row locks a stale take reopens a resolved item (`PE:312`) | `docs/architecture.md:479,485` |
| `human_queue_terminal` | `escalate_item` has no status guard (`queue/human_attention/queue.py:191`) | `docs/architecture.md:479` |

Read, and followed in the models as the code has it, without a run of its own:

- A critical item nobody took. `docs/architecture.md:556-559`, CASE-002 of
  `tests/fixtures/golden/AC-005_sla_enforcement.json`, `docs/requirements.md:76-77`
  and `docs/EVALUATION.md:21` block it automatically once it is late. The code escalates a
  pending item once, whatever its severity (`queue.py:248-253`), and blocks taken ones
  only (`queue.py:255-260`): `AutoBlocks` and `Escalates` say so. The automatic block
  comes without the escalation `docs/requirements.md:77` adds.
- Whom an escalation asks first. `docs/architecture.md:682-685` and
  `config/gate_config.yaml:82-85` name a first role per severity, and
  `docs/architecture.md:568` notifies the board when the level is greater than the
  length of the chain. The code adds one to the level before it indexes the chain, and
  notifies the board when they are equal (`queue.py:195-208, 268`): the first role
  is never asked, and a high item, whose chain is `[project_lead]`, goes straight to
  the board, as a medium one does, whose chain is `[owner]`. `EscalationTarget` follows the code;
  no property takes the documents' side.
- Counterfactuals. `docs/architecture.md:282` calls `alternative_verdict` the verdict
  under the changed condition. The engine writes allow for all of them, or
  needs_approval for the stale one when the decision is not pass (`engine.py:268`),
  whatever else is wrong. The model keeps the repairs and not this verdict;
  `AdviceSuffices` judges the repairs.
- `BLUEPRINT.md:127` answers missing evidence and obligations with require_human, the
  code with needs_approval (`verdict_transformer.py:138-140`).
- `BLUEPRINT.md:133` denies a hold on SLA timeout; `evaluate` never passes an SLA status
  to the table.
- `docs/requirements.md:82-88` invalidates approvals by diff hash; `evaluate` never
  calls `approval_is_current`.

What the models made visible and no document settles:

- The decision table is not monotone (`WhatHidesAStricterVerdict`): a pass with a
  critical obligation open is denied when the evidence is good, but needs only an
  approval when it is weak and is only blocked as stale when documents are; an
  uncertain hold goes to a person unless an approval is missing too.
- A row's version follows from its status (`VersionFollowsStatus`), so it cannot be
  what tells a lost update from none, over either database.
- The trace takes an input without the key `fresh` for stale, the verdict takes it
  for fresh; `TraceNamesCauses` allows the extra step.
- A hold with weak evidence is routed as an evidence gap, though it is gatefield
  that holds. The reasons `require_human` is routed by never occur, since its
  reason text is always the same.
- The packet generator keeps `stale_blocked` and `revise` as ops, 90 days, where the
  gate keeps a year; `RetentionAgrees` names these two and sensitive rationales as
  the only ones. The gate never writes `pii-sensitive` rows, so the third DELETE of
  a purge finds none.
- In `assess_state` an answer that does not validate yields hold_for_review even at
  publish, where an outage yields block.
- A resume or transition that is retried may be told "not" because its own earlier
  attempt did it (`OneIsTold` says what the refusal still means). A lost reply to a
  hold leaves an active hold nobody can name.
- A sweep notifies the board of the same items every time it runs: an escalated item
  past the end of its chain stays due (`queue.py:266-269`), is returned again, and has
  the reason it was escalated for replaced (`queue.py:293-296`). `SweepSettles` says
  that this is all a repeated sweep does.
- An evidence report can end in an exception its documentation does not list, without
  a look at the cache file when `python` is missing or its output is not UTF-8
  (`workflow_adapter.py:93-112`), and over a cache file that cannot be opened, decoded
  or is no object (`workflow_adapter.py:249-265`). Taskstate and memx let the same pass.
- A failed acknowledgement is not retryable though it may have been recorded, and a
  report whose command timed out and that finds no file is "not found", which is
  not retryable either.

## 6. Not modelled

- Token decoding and scopes (`auth.py`), the MCP surface, the command line apart
  from what its purge runs, logging and tracing: stateless, or decisions made by a
  library; `GateService!Start` keeps that a call needs an admitted context.
- Building and parsing of requests, messages, files and typed references; expansion
  of environment variables and renamed keys in the configuration; weights,
  rationales and the JSONL export of packets: formatting.
- Registration of adapters, filled once at start; adapters are present or missing.
- The tenant and policy version of an approval, compared for equality only.
- The protocols adapter's contract schemas and memx's documents: file contents and
  answers the gate does not look into.
- The migration and packaging: run before the service, without state of their own.
- Gate rows and purges are not composed. `purge_expired` deletes audit packets and leaves
  assessments and snapshots, so after its term the audit reference of a snapshot names
  a packet that is gone: `RowsAreBacked` and `ImplementsRecord` hold until a purge.
- The order in which one DELETE locks the rows of its class: the model takes them in
  one step. Two purges that meet inside a class in opposite orders would be a circle
  PostgreSQL resolves by failing one; `SomePurgeCanGoOn` and `EveryPurgeEnds` are about
  circles between classes.
- Gate and attention rows are not composed: an evaluation only inserts the row, and
  `AttentionStore!Enqueue` starts where `GateService!EnqueueAttention` ends. The
  in-memory queue and the rows are two implementations without a shared item.
