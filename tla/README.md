# Auto-Sec: TLA+ models, checks and proofs

Auto-Sec is a Django and Celery security platform. Scanners observe findings, a
board card is filed for each, an AI specialist works out a fix, a draft pull
request carries the fix to the customer's repository, and people decide. Almost
everything hard about it is hard because the steps of one job are separate: a row
is read in one query and saved whole in another, a cache lease guards a queue, a
message is delivered twice, an AWS or GitHub call answers after the state it was
decided on has changed. This directory models those steps, checks them with TLC
and proves the main invariants with TLAPS for every number of cards, workers,
requests and nodes.

Files: `X.tla` is a component, `MCX.tla` its symmetry sets for TLC, `*.cfg` the
runs, `XProofs.tla` the theorems; `ResponseRefinementProofs` and `WorkflowMovesProofs`
hold the two longest arguments. `PROJECT.json` maps every definition to the
lines it stands for. Paths below are relative to `src/components/`.

## The system

| component | state it keeps | operations | hard behaviour | what makes it correct |
|---|---|---|---|---|
| response | ledger row of a containment action; the customer's AWS rules | propose, approve, reject, roll back | load, AWS call and save are three unlocked steps | the ledger tells the truth about the cloud; nothing is re-opened that was not closed |
| agents: triage | metadata of the finding's card, cache leases, Celery messages | file, dispatch, stamp, list, advise, commit | overlapping and redelivered runs, an unlocked bulk write | one commented fix for a card; every card triaged |
| integrations, project: draft PRs | the pull request record on the card; branches and pull requests on GitHub | gate, branch, open, record, refuse, sweep, refill | check-then-act cap, crash between opening and recording, unlocked read-modify-write | one pull request for a finding, cap kept within a known bound, records kept, slots freed |
| scanning | ScanRun rows, dispatch lock in the cache | dispatch, run, fail, time out, rescan | lock expiry, release without ownership, stale runs | one scan in flight for a target |
| findings | one row for each finding | observe, suppress, resolve, reopen; file and archive its card | unlocked read-modify-write between a scan and an operator; events lost after the row is written | no finding is forgotten by the board or reopened behind an operator's back; one card |
| remediation | corpus entries; what a reconcile run has resolved | reconcile merges, capture, request a rescan | overlapping runs over stale lists; faults between a resolution and its rescan | a resolution gets one rescan, and gets it unless its own task dies |
| workflow, sign_off | a row for each workflow run and for each of its steps; Celery messages | start, step, wait, time out, park, branch, complete; cancel, pause, resume, retry, answer, approve, reject | step rows are locked, run rows are not; second deliveries of long timers; a timer against an event; deaths between a save and its message | a step's effect happens once, a wait takes one branch, a run that is over stays over, a running run goes on |
| shared_platform | circuit breaker, ingest checkpoints, flags | | half-open races, replay | no event lost or applied twice |
| notifications, payments | delivery ledger; webhook log | send, retry; receive | duplicated and reordered webhooks | idempotence |
| the other contexts | tables | CRUD, parsers, text generation, read models | little | |

Interaction: a scan publishes `FindingObserved`; the findings context stores it and
publishes `FindingRaised`; a handler files the card and dispatches the specialist;
the triage write enqueues the draft-PR task after commit; the remediation
reconciler and the draft-PR sweep poll the code host; a resolution asks for a
verification rescan. The card's `metadata` JSON column is where triage, draft-PR
record, refusal and resolution all live, and the writers of that one column
disagree about locking: that is where most of the hazards in `PROJECT.json` sit.

## What is modelled

### ReversibleAction and ResponseAction

`ReversibleAction` is the promise: a lifecycle (`state`) and the last real change
made to the cloud for the action (`effect`), each decision one step.

`ResponseAction` is the code. `Load` is `store.get` and the status check;
`ApplyOk`, `ApplyError` and `ApplyRaises` are `Boto3CloudResponseAdapter.apply`
returning success, returning an error outcome, or raising (with or without the
change having been made); `Save` is the `update_or_create` of the whole row. A
request that fails its status check changes nothing and has no step. `status` and
`spec` are ledger columns; the row a request loaded differs from the stored one in
its status only, which is why a request keeps just its kind and the cloud's
answer. `readOnly` is `SOC_RESPONSE_READ_ONLY`, read inside the adapter; `Redeploy`
flips it and ends the requests in flight. `effect` is a history variable with one
more value than the abstract one: `downgraded`, a real execution run as a probe.
What AWS accepts (`CloudAccepts`) is external.

Things the model shows that no property speaks of: two approvals of one action can
leave it `failed` though its rule was revoked (the second finds no rule); a real
execution run as a probe under the read-only setting and rolled back after it was
lifted restores a rule that is already there, or one the customer closed himself.

### FindingTriage

One specialist of one workspace. `card` is the part of the metadata the properties
tell apart: triage status, whether the payload is what the source needs (a fix, or
for SAST a graded patch), and the `resolved` flag of the payload. `File` is the
`FindingRaised` handler with its immediate dispatch (debounced, so it may also be
refused by the lease or the AI gate), `Cadence` the periodic router, `Press` the
operator's button. `ReadRows` and `StampWrite` are the two queries of
`stamp_dispatch_in_flight`: the stamp reads the pending cards and writes their
whole metadata back. `List` is `pending_findings_qs` (or the handled check of the
on-demand task), `Begin` the fast path and the advisor call, `Commit` the
transaction under the row lock. The advisor and the grounded verifier come down to
one choice, `complete`. `LeaseExpires` may happen at any time: the lease is shorter
(240s) than the run it was taken for may be. `Die` gives a task's message back
(late acknowledgement) and loses a web request. `Resolve` is the remediation
reconciler; it needs `triaged` because only a triaged card gets a pull request.

History variables: `done` counts commits of a complete fix, `torn` collects cards
whose newer metadata a stamp overwrote. `torn` is what lets the properties say
exactly which guarantee survives.

### DraftPr

One repository. `tasks` are `auto_draft_pr_for_finding` messages, `work` what a
worker is doing: `Gate` (short-circuit, triage status, cap), `CreateBranch`,
`OpenPr` (commit and pull request), `RecordRead` and `RecordWrite` (the two halves
of `record_draft_pr`), or `RecordBlocked` after a refusal. `sweep` is the hourly
`release_rejected_draft_prs`: it lists the recorded pull requests, newest card first
(`Place`), asks the host about those that are not marked closed, marks what was closed
(`SweepRead`, `SweepMark`: again a read and a whole-column write) and refills. It stops
after 50 checks, counted over all workspaces, so `SweepStart` takes only the first of
the unmarked records, as many as one member of `Checks`: what the records of others
leave this repository in that sweep. A merged record is never marked (the reconciler
writes the triage status, and only the back-fill of old patches sets `merged`), so it
takes up a check every hour. The refill stops after 10 repositories; that others use
them up is a sweep that dies before it hands anything on. `Merge`, `Close` and `DeleteBranch` are
people on GitHub. `recon` are the runs of the remediation reconciler, the hourly one and
a webhook's: a run lists the candidates (`ReconStart`), and for each asks the host
(`ReconSkip`) and resolves the card under its row lock, noting a rescan if the
resolution was its own (`Reconcile`); `ReconEnd` requests one rescan for the repository.
`verified` and `missed` are histories: the resolutions a rescan was requested for, and
those whose request a death or the broker lost. `ResolutionIsOwed` says that there is no
third kind but the one a running reconciler still owes; `ResolutionIsVerified` that this
one is settled in the end. `ScanGate` takes it from there, with its
rescans. The finding's number is its severity rank. All other preconditions and host errors are
`Refuse`. Re-opening a closed pull request on GitHub is not modelled.

A comment of `record_draft_pr` says that a card never reads blocked and opened at
once, "in the same locked write"; there is no lock. `OnlyLateRefusalBlocks` states what
is true: a refusal that lands on a card recorded meanwhile (a duplicate task refused by
the existing branch) makes one, and so can a sweep's stale write after a second pull
request; nothing else does.

Visible in the model and not covered by a property, because the code promises
nothing: a worker that dies between `OpenPr` and `RecordWrite` leaves a pull
request nobody will ever record, since the redelivered task is refused by the
existing branch; and a worker killed at its time limit uses its message up, so the
finding waits until somebody asks again. `pr` is the last pull request of a finding:
where a deleted branch let it have two, the model does not tell which one the card
records, and the properties leave those findings to `opened[f] > 1`.

### ScanGate

One scan target. An attempt goes through `Check` (the run history), `Add` or
`Contended` (the cache's `add`), for a verification rescan `TakeOver` (its blind
`set`), `Enqueue`, `Start`, `Complete` or `Fail`, `Publish` or `PublishFails`, and
`ReleaseFailed`. The history is a query and the lock a cache entry, two stores: that
is why the gate has two steps and why a run that starts and completes between them
matters. `covered` orders the time stamps the lock and the rows carry, which is all
the take-over compares; `orphan` is the RUNNING row of a worker that died. An attempt
that is idle may be used for a new dispatch.

History variables: `slipped` says that a lock failed its dispatch: it lapsed while the
dispatch was queued, another's release deleted it, two rescans both took it over, or
its stamp was older than a completion. `unmirrored` says that a release removed a lock
during a cooldown. All of these are reachable, and each is a hazard in `PROJECT.json`;
the invariants say what holds up to the first of them.

### FindingLifecycle

One finding and its card. `Observe` and `Record` are the two queries of the record
use case (`find_by_identity`, then `upsert` of the whole row), `Raise` its event;
`Ask`, `Change` and `Publish` are the same three for an operator. `LookUp` and `File`
are the board handler of `FindingRaised`, split where `persist_finding_as_task` looks
for the card and then creates it, with no unique key behind it. `Archive` is the
handler of `FindingResolved`; only a suppression reaches it, because the handler drops
every other reason. `severe` is the one thing the board's floor asks of a severity, and
an observation of another severity is news. `MaxCards` stops the count at 2.

`lapses` names what has gone wrong: a row written over an unread change (`torn`), two
first observations (`twins`), a change nobody told the board of (`unheard`), two
handlers past the look-up (`crowd`), a suppression that never reached the card
(`unsent`), a card filed for a finding that is closed (`late`). Every invariant says
which of these it survives.

### WorkflowRun

One run over one graph. `run` and `current` are columns of `WorkflowRun`, `step` the
status of each `WorkflowStepState`. A process is a worker or a request. `Take` is the
read of the run and the status check at the head of a task; from there the task is
split at every write: `Claim` (the step under its row lock), `Execute` or `Raises` (the
node's action, with no lock held), `Settle` (the step is completed), `Advance` (the run
is saved) and `Send` (the next task is queued). `FailRun` and `PauseRun` are the second
saves of a failing and of a parking step. `Arm` and `EndWait` are the two visits of
`wait_until`; `EndWait` is also the task an event queues. `Event` is
`dispatch_event`; `Cancel`, `Pause`, `Resume`, `Retry` and `Answer` are the API;
`Approve` and `Review` are sign-off decisions on an e-mail an AI wrote, and they do not
look at the state of the step, since neither the sign-off service nor the adapter does.

A delivered message leaves the queue or stays for a second delivery (`Delivered`): the
broker's visibility timeout is an hour, and a wait's timer may be delayed for longer. A
process that dies gives its message back, or, stopped by an exception or its hard time
limit, does not. `sent` counts what a node did to the world, `took` the branches a wait
took, `stale` marks processes that were at work when the run ended.

`lapses` names what takes a run off its path, each of them reachable:

- `shared`: a second delivery, or a resume while the task is at work, enters a step that
  another process is in; the claim stops completed steps only.
- `restarted`: a start task is delivered again while the run is paused. The run goes back
  to its first node, whose step is completed, so the task returns and the run is
  `running` with nothing to do.
- `revived`: a branch task, or a process that was at work when the run was canceled or
  completed, saves it as `running`.
- `returned`: the run is sent to a node that it has completed. Nothing in the graph's
  validation keeps an edge from leading back, and a branch task that is delivered twice
  leads the run to a node it may have left. The run is saved as `running` at that node,
  whose step task finds the step completed, returns, and sends nothing: a loop runs once
  and then stalls.
- `astray`: a person pauses or resumes a run that is over, resumes one that never
  started (`workflow_run_start` does not take running runs, so it stays where it is),
  retries one that has not failed, answers or approves a step that is not waiting, or is
  still being parked: its blind save of `paused` then lands on a run that went on.
- `unsure`: an action fails after it took effect, or is stopped by its time limit.
- `died`: between a step's completion and the next message nothing remembers to go on.

Simplifications: a `start` or `switch` node is a `condition` (completed, then one of its
targets); the plain `wait` and `data_request` nodes are left out, and so is completing
a node other than a decision through the API, except for the approved e-mail, which
takes the same path. A decision is answered whatever the status of its step is, and an
e-mail decided on whenever its row exists; the one case left out is an e-mail that was
rejected, retried, and not entered since. The approval queues the step that the run points at after its save,
which the model takes for the node it has just saved. A person's request reads the run
and saves it in one step. Unknown nodes, graphs edited under a run and graphs without
a single start are left out.

### Faulty variants

Each component holds a few operators marked "Faulty variant": plausible bugs
(an off-by-one in the cap, no second check under the lock, a filter that drops
NULL). They are not part of any specification. `PROJECT.json` "mutants" says which
definition each replaces and which property must then fail.

## Runs

| run | instance | shows |
|---|---|---|
| ResponseSerial | 2 actions, 2 rules, 1 request, no deaths | types; `ResponseAction` implements `ReversibleAction` |
| ResponseConcurrent | 2 actions, 2 rules, 2 requests, deaths, redeployments | `ExecutedTookEffect`, `NeverReopensUnclosed`, `RealChangesAreOptedInto` |
| ResponseReject | 1 action, 2 requests | violated: `RejectedHasNoCloudEffect` |
| TriagePipeline | 1 card, 2 processes, deaths, resolutions | types, `SecondFixNeedsCause`, `FirstRunWins`, `ResolutionSticks`, `EveryCardTriaged` |
| TriageRedelivery | 1 card, 2 processes, no resolutions | violated: `NeverDoubleComments` |
| TriageNoFix | 1 card, 1 process, no deaths, fairness | violated: `NoFixIsRetried` |
| ScanGate | 1 target, 3 dispatches, deaths, fairness of time | types, `OneInFlight`, `CooldownRespected`, `Reopens` |
| FindingLifecycle | 1 finding, 2 observations, 1 operator, 2 board handlers, faults | types, `OneCard`, `RaisedFindsTheRow`, `FiledOrOnItsWay`, `BinnedOrOnItsWay`, `NoQuietReopening` |
| WorkflowRun | 3 nodes, 3 graphs, 2 processes, 3 requests or events, 1 fault | types, `OneBranch`, `RunsOnce`, `RunMoves`, `OverIsOver` |
| DraftPrRaces | 1 finding, 2 workers, 2 reconcilers, faults | types, `OnePrPerFinding`, `OneRescanPerResolution`, `ResolutionIsOwed`, `RecordsAreKept`, `OnlyLateRefusalBlocks`, `DecidedFreesTheSlot`, `ResolutionIsVerified` |
| DraftPrCap | 3 findings, 2 workers, 1 reconciler, limit 1 | `BoundedOvershoot` |
| DraftPrBacklog | 2 findings, 1 worker, 1 reconciler, limit 1, no faults | violated: `BacklogDrains` |

Bounds. Two requests, processes or workers are enough for every race here: each
hazard is one writer overtaking another, on one row. Two actions and two rules let
actions share a rule. Three findings over one slot let two workers pass the cap
check together while a third finding waits; the theorem covers the rest. In
DraftPrRaces a sweep has a check for the one record or none: the other records that use
the 50 checks up are outside. Two findings with one or two checks in a sweep, where a
record within the model crowds the other out, were checked by hand, without faults:
`DecidedFreesTheSlot` holds, and without its exception a closed pull request listed
behind a newer merged one never frees its slot, nor does it in DraftPrRaces. Two
reconcilers over one finding are the webhook against the hourly run. `MaxDone`
and `MaxOpened` stop counting at 2, where "a second one" is visible. `queue` and
`tasks` are sets: two equal messages waiting are one, since the second does what a
redelivery of the first would.

Three dispatches are one that runs, one that races it through the gate and one that
finds the target closed; a fourth would repeat the second. Two observations and two
handlers are the pairs that tear the row and file two cards. In `WorkflowRun` the three
graphs hold every kind of node: a wait whose timeout leads to a decision and whose event
leads to the end (with an action there and a decision that may end the run it was checked
by hand); a condition before an AI's e-mail and the end; and a decision, an
action and a condition that leads back to the decision. Two processes are
a step and whoever joins or overtakes it. Three requests cover an event, a pause and a
resume, or a cancel and two answers; one fault is one death or one second delivery (a
run with two of each was also checked by hand). The theorems hold for any graph and any
number of processes, requests and faults.

ScanGate and WorkflowRun do not check deadlock: nobody needs to scan again, and a
workflow run ends. The DraftPr runs do not check deadlock: once every finding is triaged,
recorded and resolved, or closed and marked, the modelled repository has nothing
left to do.

### Fairness

Triage: leases expire, the periodic router runs, workers take messages, run to
their end or their time limit, and do not die for ever at the same place. Strong
fairness is needed where a death or an interleaved message disables a step again
and again; it says that faults stop, not that they do not happen. `Begin` and
`Commit` for each card are strongly fair: the specialist does not give up before
the same card each time it is listed (it lists up to 50, newest first, and a run
has a budget). Nothing is assumed of `File`, `Press` or `Resolve`.

Scan gate: time passes (`LockExpires`, `CooldownEnds` and `RowStale` are weakly fair),
whoever is alive. Nothing is owed by callers or workers, so `Reopens` does not depend
on anybody cleaning up: it is what the expiries and the stale-run threshold are for.

Findings and workflows: none, their properties are safety properties.
`FiledOrOnItsWay`, `BinnedOrOnItsWay` and `RunMoves` say that something is under way
rather than that it arrives, because the code retries none of it.

Draft pull requests: workers, the reconcilers and the sweep run, no periodic task
dies, and the host fails none, for ever, and people decide on each pull request in the
end. The last is
assumed so that a pull request left open cannot explain a full window;
`BacklogDrains` fails even so. `SweepRead(f)` is strongly fair for each finding: a record
that sweeps have a check for again and again is read back in the end. It is enabled only
for the records that a sweep took (`todo`), so nothing is assumed of one that every sweep
passes over (`PassedOver`), and `DecidedFreesTheSlot` promises a closed one its slot only
if some sweep has a check for it again. In the code 50 merged or open pull requests of
newer cards, over all workspaces, are enough to keep it waiting for ever: no record is
marked merged but by the back-fill, so each merged one costs a check in every sweep.

### What the violated runs show

- `RejectedHasNoCloudEffect`: approve loads the row; reject loads it too; approve
  revokes the rule and saves `executed`; reject saves last. The row reads
  `rejected`, which `can_rollback` refuses, and the rule stays revoked.
- `NeverDoubleComments`: a second run's stamp reads the pending card, the first run
  commits its fix, the stamp writes the old metadata back, the card is pending again.
- `NoFixIsRetried`: a pass without a fix stamps `triaged`; `not_triaged_filter`
  drops the card from then on. The operator's button still works.
- `BacklogDrains`: finding 1 has its pull request, finding 2 was throttled, the pull
  request merges. The sweep has released nothing, so it refills nothing.

## Proofs

| theorem | property |
|---|---|
| ResponseRefinementProofs `DecisionsLookAtomic`, `SerialDecisionsAreAtomic` | `ImplementsPromise` |
| ResponseActionProofs `TypeCorrect`, `LedgerNeverOverclaims`, `NoUnclosedReopen`, `ChangesAreOptedInto` | `TypeOK`, `ExecutedTookEffect`, `NeverReopensUnclosed`, `RealChangesAreOptedInto` |
| FindingTriageProofs `TypeCorrect`, `OneFixPerCard`, `FirstRunAlwaysWins`, `ResolutionsStick` | `TypeOK`, `SecondFixNeedsCause`, `FirstRunWins`, `ResolutionSticks` |
| ScanGateProofs `TypeCorrect`, `NeverTwoInFlight`, `CooldownHolds` | `TypeOK`, `OneInFlight`, `CooldownRespected` |
| FindingLifecycleProofs `TypeCorrect`, `OneCardForAFinding`, `EventsFindTheirRow`, `OpenIsNotForgotten`, `SuppressedIsTidied`, `ReopeningIsTold` | `TypeOK`, `OneCard`, `RaisedFindsTheRow`, `FiledOrOnItsWay`, `BinnedOrOnItsWay`, `NoQuietReopening` |
| WorkflowRunProofs `TypeCorrect`, `BranchesOnce`, `ActsOnce`, `OverStaysOver` | `TypeOK`, `OneBranch`, `RunsOnce`, `OverIsOver` |
| WorkflowMovesProofs `RunsMove` | `RunMoves` |
| DraftPrProofs `TypeCorrect`, `OnePr`, `RecordsStay`, `BlockedOnlyLate`, `RescanOnce`, `ResolutionsAreOwed`, `OvershootIsBounded` | `TypeOK`, `OnePrPerFinding`, `RecordsAreKept`, `OnlyLateRefusalBlocks`, `OneRescanPerResolution`, `ResolutionIsOwed`, `BoundedOvershoot` |

Every invariant and every action property of a passing run is now a theorem. But for the
refinement, they assume only the named assumptions on the constants of each module: finite
sets of findings and workers and a positive limit for `DraftPr`, Boolean switches,
a non-empty set of rules, a list order without ties and some number of checks for a
sweep, null values outside their sets, well-formed graphs.

- Response. `ExecutedTookEffect` is not inductive: a request that has its answer
  but has not saved must already have left its trace. `ClosedInv` adds that a
  successful approval waiting to be saved, and every rollback in flight, stands for
  a dry run or has an effect, and that a request holds a row that exists, so that no
  later proposal rewrites its `dry_run`. `NeverReopensUnclosed` needs the part about
  rollbacks; `RealChangesAreOptedInto` needs the types only.
- Response, the refinement. A decision is three steps in the code and one in
  `ReversibleAction`; it takes effect when the cloud answers, so the mapping shows the
  status that a request is about to save in place of the stored one (`EffectiveStatus`).
  `DecisionsLookAtomic` has three hypotheses. No two requests may work on one action at a
  time (`NoOverlap`; two on different actions may, and so may any number of requests one
  after the other): the run ResponseReject shows what an overlap does. No request dies
  and no redeployment ends one between the cloud's answer and the save: the status shown
  would fall back, and the ledger does then deny what the cloud did. Under them
  `RefInv` holds (a request in flight loaded the status its action still has, and the
  effect on the cloud is what the status shown and the kind of action call for), and
  each step of the code is a step of the promise or leaves what it shows alone.
  `SerialDecisionsAreAtomic` is the case of one request, which the run checks.
- Triage. `FixInv`: a card no stamp has torn is handled or resolved once it has one
  complete commit, is resolved once it has two, and a resolved status comes with the
  payload flag, where a later pass cannot reach it. `NextIsCardStep` reduces every
  step to five things it may do to one card, and the three properties follow from that.
- Draft pull requests. `BranchGuards`: a finding with a pull request has its branch
  or lost it to a deletion; a worker at `branched` on an undeleted branch is alone
  and no pull request was opened yet. `RecordGuards`: what a writer that has read
  and not written holds of the record differs from the stored one only when a
  second pull request was opened. `RefusalGuard`: a refusal a sweep is about to write
  back still stands on the card, or a second pull request cleared it. `RescanGuards`:
  what is owed or asked for is resolved and stays so, since only a stale write could
  put it back, and the sweep's follows a close, after which nothing merges.
  `OwedGuards`: whatever reads resolved, on the card or in the copy that a worker or the
  sweep is to write back, has its rescan asked for, lost or owed; nobody drops what it
  owes without saying so.
  `CapGuard`: open records and workers past the gate
  together are at most `Limit + |Workers| - 1`; the gate adds a worker only while
  `|Open| < Limit` and at most the other workers are past it, a record turns a
  worker into an open one, and the rest take away.
- Scan gate. `OneInFlight` is not inductive: whoever is queued must hold the lock with
  a stamp of its own, whoever runs holds it or has nobody inside the gate, and what a
  rescan has read to be old stays old. `NobodyOnTheirWay` follows: a caller that finds
  the lock free, or older than a completion, finds nobody queued or running. For the
  cooldown, a caller that read the history before it began finds the lock in its way.
- Findings. All six rest on one fact: the row's id is settled by its first write, so an
  entity that was read carries the stored id, and an id to raise is the row's unless
  two observations created it. `NoCardYet` (a handler past the look-up is right that
  there is no card as long as it is alone) gives one card; `Filed` drops the status from
  `FiledOrOnItsWay`, because a reopened finding that has its card must not need news.
- Workflow. `OneHolder`: the process that is to arm or end a wait is alone in it, has
  the step `running`, and a wait that took a branch is completed; so the timer, the
  event and second deliveries find nothing `waiting`. `OneDoer` is the same for nodes
  that act: who is at one is alone and its step is not completed, and who has acted
  completes it before the next is let in. Both need `Places`, which says what kind of
  node each stage and status belongs to: a wait can never be parked, failed or retried.
  `Working`: a process at work on a task it took, and not marked stale, works for a run
  that is not over; hence whoever revives one is stale, a request or a branch task.
- Workflow, `RunMoves`. The messages of a paused or failed run go astray, so the
  invariant says where the run's one live thread is, whatever its status. `Located`:
  every step that is neither pending nor completed is the current one (`OpenHere`), every
  other step task is for a completed step (`SentHere`), nobody but one process is at the
  current step and others only at a wait (`Inmates`), the run is led to at most one node
  that is new, and only from a completed step (`OneWay`). Then a completed current step
  has a branch, a successor or the end under way (`Left`), and an open one of a running
  run has its task, its process, its timer or a person's answer to come (`Worked`). The
  proof has a lemma for each action. It is this invariant that showed `RunMoves` to be
  false on graphs with loops and for doubly delivered branch tasks, and brought in the
  lapse `returned`.

Only model-checked: liveness (`EveryCardTriaged`, `DecidedFreesTheSlot`,
`ResolutionIsVerified`, `Reopens`), since liveness under fairness is out of this prover's
reach. The safety half of `ResolutionIsVerified` is `ResolutionIsOwed`. The violated
properties have their counterexamples.

## Limits of the models

- Cards have several unlocked writers. `FindingTriage` has the stamp only,
  `DraftPr` the record and the mark only; a stamp overwriting a record is in
  neither. Also left out are the preview record and the card archive, which save
  the column the same way.
- A resolved card that is triaged again keeps its `resolved` flag in
  `FindingTriage`; `DraftPr` has it resolved for good.
- GitHub, AWS, the broker and the cache are modelled from how the code uses them.
  A cache that loses keys is a lease that expires.
- `ScanGate` has one target, so it says nothing of the fleet ceiling, which counts rows
  that queued scans do not have yet; and it redelivers the message of a dead worker
  only, not a copy beside a live one.
- `FindingLifecycle` knows of a severity only whether it is over the floor: the event of
  a change on one side of it is left out. An operator who restores a card from the
  recycle bin is left out too, so `BinnedOrOnItsWay` says nothing of him.
- `FindingLifecycle` and `FindingTriage` do not share the card: the first files and
  archives it, the second works on it.
- `WorkflowRun` is one run. Starting several for one target (enrolment, idempotency
  keys, schedules) is left out.
- Board columns, comments, wording, telemetry and notifications are left out.

## Not modelled

The repository is some 270,000 lines in 3,500 files, nearly all of it forms over
tables, permission checks, serializers, prompts, parsers of scanner output, reports and
read models: a row is validated and saved, or data is turned into other data. What such
code promises is in single functions and single rows, which tests reach. The models
cover the parts whose state outlives a call and has several writers. `PROJECT.json`
lists every component with its reason. The main ones left:

- Remediation beyond its reconciler: the gated capture into the corpus waits for a
  sign-off record on the card that nothing under `src/` writes, so a model of it would
  have no reachable behaviour; embedding, rating and search of the corpus come after it.
- External delivery of notifications: a ledger row per connection and event, claimed
  before the post. What to look at: a worker that dies after its claim leaves the row in
  `sending`, from where no redelivery can claim it; a later observation with the same
  key marks a failed row skipped; an answer lost after the post means a second post.
- Payments: the event ledger's repair tasks are in no beat schedule here, so what they
  promise depends on a deployment this repository does not show.
- Board and tasks, the circuit breaker and ingest checkpoints, deep-run budgets.
- Detection sources: they publish observations, which `FindingLifecycle` takes as given.
- The recycle bin, beyond the card that `FindingLifecycle` puts into it.

## Plan

1. The delivery ledger of external notifications.
2. A composition of the triage stamp with `DraftPr` over one metadata column.
3. Deep-run guards, circuit breaker, ingest checkpoint and payment webhooks, in this
   order, as far as each has state to check.

Theorems to come: which of the properties of a run survive the composition of item 2, and
what overlapping requests of `ResponseAction` still implement of `ReversibleAction`.
