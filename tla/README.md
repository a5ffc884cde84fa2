# A verified model of the Claude native bridge

Hermes talks to a local API service, the service owns one engine per Hermes
conversation, an engine drives an interactive Claude Code session through a
terminal, and Claude answers through an MCP channel server and through hooks.
These modules model the parts in which the order of events decides whether a
request is answered once, with the right answer, and whether everything that
was started is stopped again. Paths are relative to `src/claude_native_bridge/`.

## The system

| part | state | operations | meets |
|---|---|---|---|
| native channel (`channel/protocol.mjs`, `http.mjs`, `server.mjs`) | request in flight, published decision, held MCP call, waiters, wake, failure | `advance`, `respond`, `completeText`, `notifyWake`, long polls, abort, fail, shutdown | the session (HTTP), Claude (MCP), hooks (HTTP) |
| owner service (`api.py`) | owners by key, their generation, retirement, release and close, tombstones, capacity | completions, cleanup, close, leases, reaper, shutdown | Hermes wrappers (HTTP), engines |
| service lifecycle (`service_lifecycle.py`, `api.py`) | clients and their processes, orphans, requests in flight, draining | note, release, prune, reap, idle check, drain | every request, the owners |
| text capture (`streaming.py`, `native_hooks.py`, `native.py`) | journal, batches held and released | append, drain, settle, finish | display hooks, the exchange |
| native session (`native.py`) and hooks (`native_hooks.py`) | window of a request, prompt identity, compaction journal, cleanup outcome | start, exchange, abort, close, hook events | channel, terminal, files |
| engine client (`client.py`, `protocol.py`) | bindings, history tracker, cancel flag | create, reset, rotate, abort, close | sessions |
| service manager (`api_service.py`, `api_server.py`) | receipts and lock on disk, port | ensure, stop | Hermes processes, the service |
| provider wrapper (`api_provider.py`) | leases per lineage | create, request, close | service manager, owners |
| supervisor (`supervisor.py`) | lease and process receipts | watch, sweep | session, operating system |

Installation (`runtime_environment.py`, `channel_install.py`), settings, usage,
images, diagnostics and platform wrappers keep no protocol state.

What is hard here: two processes and an event loop with many tasks share each
owner; closes are bounded by time but the resource they free is not; every
notice (acknowledgement, orphaned client, cancellation) may be late, repeated or
lost; hooks are processes of their own that nothing orders; process identifiers
are reused; and "was it delivered?" decides whether a retry is safe.

What makes the parts correct:

- channel: one question at a time, one answer each, no answer lost before its
  acknowledgement, no pending call forgotten, no poll that sleeps through an answer;
- owners: one generation per owner, an engine counted until its processes are
  proved gone, nothing that may have been delivered runs twice, every owner
  settles, every orphan is released;
- lifecycle: no open client of a live process is stranded, none of a dead one
  forgotten, and an unused service stops;
- text: what was streamed is a prefix of the completion, in order, and honest
  hooks are never refused;
- engine client: each native knows exactly the conversation it is asked to continue,
  no more natives than allowed are open, a failure reported as safe to retry reached
  nobody, and a closed client leaves nothing behind that was used.

## Modules

`Rendezvous` is the abstract channel: ask, answer, break, with three variables.
`Channel` is the code; its refinement mapping reads the phase off `current`,
`latest` and `failed`, and `Rendezvous!Spec` is a property of the run and a theorem.
The Node.js event loop makes a handler atomic up to its `await`: the only one in
the middle of a transition, the notification of a first request
(`server.mjs:184`), is split into `Advance` and `NotificationSent/Failed`.
`EmitChange` answers all waiters inside the step that changes the state, as
`onChange` does. Content is opaque, a decision is its kind and tool names.

`Owners` models the asyncio service. A request `r` names its handler, its
generation task and the owner object it may create, so `owner[r]` is an object
and `items[k]` the registry; an object may stay referenced after it left the
registry. One action per stretch between awaits: `Receive` (up to `await prune`),
`AdmitAfterPrune`, `GenerationEnds`, `Finish/JoinEnds/CleanUpAgain` (the two
cleanups of a streamed response), `Retire*`, `Release*` and `Close*` (the tasks of
the same names). Operators on the owner record are the synchronous helpers of
the class (`Restarted`, `Released`, `Closing`, `Finishing`, ...). A bounded wait
may give up at any time; a hung close never has to confirm, except under the
fairness of the liveness run. `live` says that the engine may own native
processes: it is set when a generation starts and cleared only by `EngineDies`,
independently of what the service believes. A request names a conversation (retry
lineage and Hermes session) when it has both, and then it has a retry key, with the body:
a logical owner, whose key is the conversation, has one always, an ephemeral one, whose
request brings no client header, may have one, a plain one has none (`Inputs`,
`RetryOf`). `dirty` remembers each attempt that may have been delivered, a request
with its retry key, until its result is given or its tombstone goes. A bounded join may
give up at any time, but not before the event loop has begun the retirement it waits for
(`JoinEnds`).

`Lifecycle` models `ServiceActivity`, its middleware and its tasks. `activity` is
the object's three tables; `NoteClient`, `ReleasedClient` and `Pruned` are its
methods; `Arrive` is the middleware, `authenticate` and the handler's first
stretch. Requests on the wire form a set (they may arrive in any order, late or
never). That some owner is busy is a Boolean that requests and the reaper raise.

`TextBatches` models the journal and its reader. Claude's `Script` is a sequence
of messages, each a sequence of deltas; `BeginLine` and `EndLine` are the two
halves of a hook's append; `Read` is one line of `drain` and the whole of `add`;
`Poll` and `Finish` are the settling and the end of the exchange. `honest` is true
while hooks of a message ran after those of the messages before it, in any order
among themselves and any number of times. `released` is how many deltas of each message
were streamed.

`Window` models the exchanges of one native session with Claude and its hooks.
`phase` is where `exchange` stands: `Enter` and `OpenRequest` (files removed, window
opened), `Advance/Advanced` (the call whose answer may be lost), `PollStop` and
`PollDecision` (the two ways a request is answered), `Check`, `Leave` (the window is
retired in `finally`), `Fail` (the `except` clause, for any reason at any moment).
`window`, `stop`, `compaction`, `pending`, `poisoned` and `locked` are files of the run
directory; `Capture(h)` is one hook process under the lock, `Lost`, `Dies` and `TimesOut`
are what else may become of it. The channel is reduced to what it accepted, asks
and has decided. Claude submits, speaks, compacts, calls `respond` or stops; it
waits for the hook of a submission only, so the other hooks run in any order.

`Session` models the processes of a session: `start` and `close` of the bridge,
the supervisor, the sweep of the next service, and the system that reaps, reuses
PIDs and kills a hung-up terminal's process. `Reading` is `process_start`: each
verification and each signal reads it again, and each such read is a step. The supervisor's
SIGKILL may be refused (`refused`, and `denied` when it has given Claude up). The sweep
also asks `ps`, before each signal and while it waits: wherever that fails, times out or
differs, or a signal is refused, it leaves the run (`hindered`) and archives it like one
that it `finished`, or one whose receipt named nobody (`blind`).
POSIX only. Its run and its theorems take for granted that `process_start` reads every
process that exists (`ReadsFail = FALSE`): `close` takes an unreadable process for a dead
one (`native.py:1045`), so with `ReadsFail = TRUE` `DeathIsObserved` does not hold. Nothing
of the kind is assumed of `ps`, of signals and of `kill-server`: they may fail at any time.

`Service` models `ensure_server` and `stop_server` against the service process.
`pc` is where a call stands, from the wait for the file lock to its return; what it
reads and writes between are single steps, because the call may be killed at each
of them: the credential is truncated before it is written, `manager.json` is
`partial` before it names a service, a receipt seen may be gone when it is read.
`phase` is the life of a service: it binds, serves, drains, and then closes its owners
with the port already given up, so that a replacement can be up when it removes
`server.json`. All services of a home have one command line, which therefore does
not tell them apart. The probe of a service may go unanswered at any time; that a
listening port accepts a connection is taken for granted.

`History` holds the pure half of the engine client: the tracker that tells a
bootstrap from a continuation (`HistoryTracker.prepare/commit`), and
`_bounded_bootstrap`, which leaves the oldest groups of messages out and puts a
notice in the place of each run. A message is its role and the request that brought
it, and sizes are numbers of messages. `Candidate` is the frame with the k oldest groups
left out; what stands for them is a recursive function of k, which its proofs follow
group by group.

`Client` is `client.py` around it. A binding is the record of the same name; `turn` is
the request that holds `_invoke_lock`, and `turn.at` is where `create` stands: `Admit`
(eviction and the limit), `RetireStale/RetireUsed` and `Retire` (a closed native, another
model, a diverged frame, rotation), `Launch`, `Start`, `Bootstrap`, `Reuse` (the frame),
`Deliver` and `Answer`, the failures (`PrepareFails`, `StartFails`, `NotDelivered`,
`ExchangeFails`, `AnswerInvalid`), `Unwind` and `Leave` (the `except` and `finally`
clauses). The thread of `close()` (`Settles`, `ClientCloses`, `Settled`, `Publish`), that of
a host abort and the idle janitors run beside it. A native is named by the request
that created it; `state` and `closer` say who tears it down, because `NativeSession.close`
returns at once to everybody but its first caller. `seen` is what Claude was told, and
`severed` notes the bindings whose history is still that of a native which was closed
because the conversation diverged from it. Hermes
continues a history, forks an earlier point of it, adds instructions or a tool's result,
or repeats its last request (`Speaks`).

`MC*` modules give the constants for TLC; `*_proofs` modules hold the theorems.
Operators whose comment begins with "Mutant" are wrong variants of the
definition after them: each property is shown to fail with one of them.

## Runs

| run | asks | bounds |
|---|---|---|
| channel | all safety of the channel and the refinement of `Rendezvous` | 4 requests (3 allowed), 2 calls, 3 polls (2 allowed), 2 tools, 2 wakes: duplicates, the request limit and the poll limit are reached |
| owners_whole | one generation, cached results, tombstones, leases | 2 requests with 2 bodies, on a logical owner and 2 ephemeral ones that may share its conversation, 2 slots, 1 tombstone, until a shutdown |
| owners_capacity | capacity against hung closes, both cleanups of a stream | 2 streamed requests, a plain and an ephemeral key, 1 slot, an engine without explicit proof of cleanup |
| owners_live | release, settling and orphans under fairness | 2 requests on one plain owner, whose process may exit |
| owners_tombstone | a disagreement (below) | 2 requests with 2 bodies on one logical owner, 1 slot, 1 tombstone |
| lifecycle | orphans, conservation, idle retirement; under fairness, that orphans are handed over and an unused service stops | 3 processes (two on one PID) with a client each, a table of 1 PID (so one process runs at a time), 1 request on the way |
| service | races and crashes of starts and stops | 2 calls at a time, 3 service processes: an old one that closes, its replacement, and the next |
| window | delivery, answers, late and dying hooks | 3 requests, 3 hook processes at once: prompts that are sealed and that go on over several requests |
| session | verdicts of close, receipts, termination under fairness | none: the state is finite; every process may die at every step |
| client | frames, limits and closes of the engine client | 2 sessions, one of them a call without a session, 1 place, 2 requests with or without a tool, frames of 2 messages |
| client_tail | a disagreement (below) | 1 session, 3 requests, an earlier conversation larger than a frame of 5 messages; no close by others and no abort |
| text_batches | streaming and reconciliation | a message of 3 batches and one of 1, 3 foreign lines, 5 lines, 4 batches |

Two requests are enough for every race of the owner service: one to own the
state and one to meet it. The third request of a key, which the second cleanup
of a stream would admit beside the second, is already visible as a running
generation with a free owner. `owners_whole` has room for two engines and two ephemeral
keys, so that identical requests meet also where no owner keeps them apart; its
constraint `InService` ends it at a shutdown, after which nothing is admitted and every
owner is released, and which the other runs of `Owners` go through. Symmetry is used where only safety is checked.
Deadlock checking is off where the system stops: a session breaks, a
service goes down, an exchange ends. It is on for `service`, and for `client`, where
`Rests` marks the states in which nothing is left to do.

Two requests let `client` meet everything it keeps between requests: the first one
starts from a conversation older than the client, which is larger than a frame, so a
tail begins with it, and the second finds its binding, its native or only its
tail, or needs its place. All four of its invariants are proved for any number of
sessions, requests and places and any size of a frame.
`FrameSound` excludes the natives of a severed binding: what they are told is the
disagreement that `client_tail` shows.

`lifecycle` is small because it also checks liveness. What it leaves out, several
processes at once and requests that overtake each other, is covered for its safety
properties by `Lifecycle_proofs`, which hold for all processes and limits.

Fairness, where it is assumed, is weak and on the program's own work: handlers,
tasks, the reaper and the idle monitor run (the event loop schedules them), a
close that was started returns and its processes die (the liveness run asks
what the service does then), messages are delivered or lost; the supervisor's
loop polls every 0.2 s and its waits end, so it is fair while it lives, and
`Watched` is fair when it must stop (the owner is gone, the run directory moved,
it was hung up). No request has to
be made, no process has to exit, no generation has to succeed.

Bounds in guards, not in the code: `MaxGeneration` of wakes, `MaxLines` a request's
hooks append, `MaxRequests` on the way in `Lifecycle`. `Lifecycle` also assumes that
no more processes run at once than the service remembers (`MAX_CLIENTS`, 256),
because beyond it clients are not counted and the service may retire under them,
and that a PID is not reused while a request of its last process is on the way.

`NoStrayService` excludes services whose launch was never concluded: the caller was
killed between `Popen` and the receipt, found another service's receipt in place of
its own, or met a receipt that vanished while it undid the launch
(`api_service.py:245` raises what nobody catches). Such a service is still used
when it answers, and stops by itself when it is idle. A caller killed while it
writes the credential leaves it empty, and every later start is refused
(`api_service.py:168`) until the file is removed: the model has the state, and no
property claims otherwise.

`ReceiptKept` excludes two sweeps, after which nobody looks for Claude again: one that
passed before the receipt was written (`blind`), which archives the run of a Claude that
starts just then, and one that left early (`hindered`). `AbandonedIsKilled` excuses the
same sweeps, and one that did not come, but only where the supervisor is no longer there
to kill: it died, or was refused its signal (`denied`). Both need a receipt with a
start time. `DeathIsObserved`
is about a service that is up: a successor's sweep may archive the run of a
service that is still closing, which makes `close` believe nothing was launched.

### Disagreements found

- `owners_tombstone`: releasing an idle owner whose last failure was proved
  undelivered leaves a tombstone (`api.py:911` reads the flag its own start set), so
  the identical retry that `api.py:584` promises is refused.
- `client_tail`: when a conversation diverges from what its native knows, `create` closes
  the native (`client.py:900`) but leaves the binding the history of that native, which
  the closed native (`client.py:864`) and the rotation (`client.py:907`) take away. If the
  native was itself built from a bounded bootstrap, the bounded bootstrap of the fresh
  one may continue that history (`client.py:958`): the fresh native, which knows nothing,
  is then told only the end of the request. That is neither the full bootstrap nor a
  marked omission (`client.py:947`, `README.md:165`).

### Observed without a run

What follows was met while modelling. The models have these behaviours unless it is
said otherwise; the properties are stated so that they do not deny them.

- The supervisor's last SIGKILL to Claude's group (`supervisor.py:290`) is guarded by the
  start time of the leader, which it has just reaped, so it is never sent, against the
  comment before it; helpers that ignore SIGTERM outlive it (`Reap`).
- A sweep that `ps` fails to answer, or that is refused a signal, does not go on to SIGKILL,
  but archives the run all the same (`supervisor.py:89-98`, `supervisor.py:152`). No later sweep
  looks into an archived run, so a Claude that lost its supervisor may run on (`hindered`).
- Two identical requests without the client header, but with a retry lineage and a
  session, have owners of their own and one retry key (`api.py:1240`). The second one
  runs beside the first when it arrives before the first one's tombstone, which a later task
  writes. The provider always sends the header (`api_provider.py:331`); `NeverReplayed`
  says that nothing else runs beside an uncertain attempt, and nothing after it.
- A streamed response cleans up twice (`api.py:1503`, `api.py:1004`). If the owner is
  admitted again while the first cleanup waits, the second one retires the new
  generation: the owner is free while it runs, and a third request is admitted beside
  it (`api.py:1378`), against the message "Owner already has an active request".
  `OneActiveRequest` is therefore checked on whole responses; `owners_capacity` has both
  cleanups.
- A native that is rebuilt from a tail (`client.py`, `compacted` and what came since) is
  given handles of content that only its predecessor's run directory held, against
  "stays readable on request" (`README.md:117`); and that frame, unlike a bootstrap, is
  not bounded by `bootstrap_max_chars`. `FrameSound` speaks of what the notices stand for,
  not of who can still read it.
- The client asks a failed native for its health (`client.py:1064`) after the exchange
  has closed it, so every error of a session becomes `NativeSessionLost` and leaves the
  client open (`Unwind`).
- A host abort sets `_cancel` for good (`client.py:719`) without closing the client: a
  later request is delivered and then refused its answer (`Cancelled`).
- A caller of `NativeSession.close` that finds another at work learns nothing of the
  outcome (`native.py:80`). So `close()` may publish an outcome while a teardown goes on,
  and a rotation gives the place of the old native to the new one before the old one's
  processes are proved gone. `SessionsBound` counts natives that nobody has begun to close.
- A native that is created after `close()` found its binding empty, and whose request
  then fails before the exchange, is left to its idle janitor, although the error says
  that the engine was retired. `StrayUnused` says that this is the only kind left.

## Proofs

`tlapm` checks every proof for all values of the constants, from the assumptions
named in each module (`ChannelAssumption`, `OwnersAssumption`, `LifecycleAssumption`,
`TextAssumption`, `WindowAssumption`, `SessionAssumption`, `ServiceAssumption`,
`ClientAssumption`): finite sets where a cardinality is taken, limits that are natural
numbers, `None` outside the data (of `Owners`, also outside the fingerprints; of
`Window`, outside the windows). TLC evaluates the assumptions in every run. Where a
theorem needs more, it says so before `PROVE`: `Streams = {FALSE}` (no response is
streamed), `ReadsFail = FALSE`, a script that fits in `MAX_BATCHES`.

The library's induction theorems take an operator as a parameter, which no installed
prover can instantiate. Where something recursive is proved, the induction is made by
hand, over sets: a non-empty set of natural numbers has a least element (`LeastNat`,
from the cardinality of intervals), so a set of counterexamples is empty. From it
`Client_proofs` derives that a recursive function exists (`Recursion`) and induction
along a sequence (`SeqGood`).

`Channel_proofs`. The invariant is `TypeOK`, `HalfDuplex` and `CallsAgree`
together: a call is settled correctly only because the held call belongs to the unread
decision, which the half-duplex discipline says. From it follow `OneAnswerPerRequest` (the
sequence counts accepted requests, by cardinality of `seen`), `ReadsAreCurrent`, and
`NoLostWakeup`, which needs only the types and that every change answers the waiters.
`ImplementsRendezvous` maps each action to a question, an
answer, a break or a stutter, and `DecisionAlwaysKept` is the action property of the same
steps: an unread decision goes away with its acknowledgement or with the session.

`Owners_proofs`, the resources. `LiveIsAccounted` and `CapacityBound` are not inductive: one needs
to know who may still refer to an owner object. The invariant `IInv` adds that each
registered object carries its key and arrived before (`Arrived`), that handlers
and generations refer to objects that exist (`Handlers`, `Sane`), and that an engine
which may own processes is neither confirmed nor released (`Sound`), with the
cardinality of the counted owners at most `Limit`. `Keeps(w, v)` is what every
helper on an owner record preserves; each has a lemma, so that an action's proof
only composes them. Admission is the step where capacity is taken: `StartAgain` and
`StartNew` count it.

`Owners_proofs`, the use of an owner. `UnleasedIsLeaving` needs that a request which waits for admission
brings a lease (`Leased`). `NoCloseUnderGeneration` needs to know how far the tasks
of an owner have come while its generation runs (`Calm`: no close, at most a
retirement or a release that has yet to cancel it), that only a request of its
own uses an ephemeral owner, and that a task names a generation that exists (`Use`).
`Whole` adds that a handler which waits for its generation has the owner to itself and
that a generation outlives its handler only under a retirement which will cancel it.
`Whole` assumes `Streams = {FALSE}`: with streamed responses `OneActiveRequest` is false
(see "Observed without a run"), and both proofs rest on it. `Quiet`, `Steady` and `Kept` are what
the helpers of `Owners` leave alone, one lemma for each task of an owner.

`Owners_proofs`, retries. A tombstone is written late, by the retirement or the release of
the owner. `Remembered` says of every attempt that may have reached Claude that its key is
in the table, or that it is `Pending`: the request still has its handler and its owner, the
owner is busy with it, no release has begun, and either the handler has yet to judge it
or a retirement told `uncertain` is about to remember it, before which that handler is
not answered. A key in the table is refused. A pending attempt of a logical owner
keeps its owner busy, which admits nothing, and one of an ephemeral owner is excepted by
the property: so no attempt is repeated once its client was answered
(`NeverReplayedAlways`, again on whole responses). What the table loses by age or by its limit
is what the service gives up on purpose, and leaves `dirty` with it (`Fades`).

`Lifecycle_proofs`. `Sound` says the tables agree with the processes: an entry's
PID is its process's, and its clients belong to it. `Crowd` bounds the running
processes, so that after a prune the table has room for a running process
(`RoomForProcess`, by an injection from entries to running processes), and `Sent`
says what requests on the wire may still do to a client. Together they give that an
open client of a running process is counted (`OpenIsCounted`), hence
`RetiresOnlyUnused`. The liveness half stays with TLC.

`TextBatches_proofs`. A line that is accepted may release several batches at once, so
the invariant speaks of whole runs: `Filed` says what was released of each message,
`Held` what waits behind a gap, `Placed` where the released batches are in the stream of
all messages. `ReadyStops` gives the run of batches that follow without a gap its end, and
`FlatStep` what the recursive function of `FlattenSeq` computes, so that a released batch
can be placed; `StreamedInOrder` and, with what an answer is, `FinishSound` follow for every
script and whatever lines strangers write. `HonestAccepted` needs what honest hooks leave
behind: what was released is in the stream (`Kept`), the reader heard the messages one
after the other (`InStep`), and every line of the journal follows what is before it,
repeated or next (`Queued`).

`Window_proofs`. `Delivery` carries `ReplayableIsUndelivered`: the request in progress
has no outcome yet and no later request reached the channel. For `AnswerIsClaudes`
one needs to know that the hook of a stop is captured in the window of the request
it ends, with no assumption on hooks: `Correlated` says that what is asked is the
exchange's request in its own window, that Claude works on what is asked, and that
after a stop nothing starts until the exchange has read it; `Claimed` says that
whatever is taken for an answer is one. `HonestHooksAccepted` is about hooks that all run
in time, in any order: `InTurn` says where Claude is and what the exchange makes of it,
`InWindow` that the window holds Claude's prompt until it is sealed, `InTime` which hooks
can still be on their way, `InJournal` that a compaction that is not over belongs to the
request whose hook reported it, or is marked as missing its end.

`Session_proofs`. The run of `Session` is exhaustive; the proof says why it holds. `Order`:
the supervisor is launched once, by a start that is not refused, and starts Claude before
it writes the receipt. `Launched`: under its service, what was launched keeps `launch.json`
until the verdict. `Concluded`: `close` concludes once. A run without a launch, a free PID
and a PID that is another's then stand for a Claude that neither runs nor will
(`ProofHolds`). `Swept`: a sweep that named Claude and was not hindered comes to its end when Claude is
dead, and until a sweep was blind or hindered a running Claude with a receipt keeps its run
directory. Of a hindered sweep nothing is claimed. Most
steps only end processes, and one lemma (`EndsKeep`) covers them.

`Service_proofs`. `NoStrayService` must be widened to services that do not listen yet
(`PendingIsKnown`), and a launch must be known to overwrite no live receipt:
`GivenServed` says that whoever `manager.json` names was given to a caller and never
comes back once it closed, `LaunchedAlone` that none of those listens while
somebody launches, `LockExcludes` that only one call does. The same facts give
`UndoSparesGiven`.

`Client_proofs`. `SessionsBound` counts natives, the code counts bindings. `Accounted`
is the bridge: every open native is the one of a registered binding, or of a request
that popped its binding and is about to close it; with `Counted`
(registered bindings do not exceed the limit while nothing is popped) an injection from
open natives to bindings gives the bound. `Reported` carries `ReplayableUndelivered`
through the failure paths. `LeftBehind` says that somebody still closes each open native
that was handed something, once the client is closed (`Awaited`): `close()` will come to
its binding or is at it, or a request that can no longer answer has it in hand. What a
request creates behind `close()` is handed over too late to be answered, and then closed.

`FrameSound` compares what a native was told with the request, through notices that stand
for groups of messages. `Expanded` looks the notices up; `LeftOutSays` and `CandidateSays`
say, by induction over the groups, that a candidate frame expands to the history it was
made from, so `BoundedSays`: the bounded bootstrap leaves nothing out that its notices do
not name, for every history and limit. The invariant of the steps is `FInv`: what the
bindings remember is true of the native they hold (`Recorded`), no native has two bindings
(`Unshared`), outside a request a binding and its native agree (`Rested`), and within one
(`Phase`) each place of `create` knows what the next needs. The case that did not go
through, a binding that keeps the history of a native it closed, is the disagreement of
`client_tail`: the invariant calls it severed and claims nothing for its next native.

Only checked by TLC are the liveness properties (`ReleaseCompletes`, `OwnerSettles`,
`OrphanIsReleased`, `OrphansHandedOver`, `UnusedServiceStops`, `AbandonedIsKilled`):
fairness and `ENABLED` are out of the prover's reach. Every invariant and every action
property of a passing run is a theorem.

## Not modelled, and why

- Terminal error replies (`terminal_error`, `terminal_failures`): they choose which
  error is returned, not whether a request runs.
- Validation of frames, bodies and headers and size limits: a refused input
  changes no state; the limits that do (request limit, waiters, batches, clients,
  tombstones, owners) are constants.
- Time: deadlines may pass at any moment; the age of a tombstone or of an idle
  owner is a choice.
- Trailing white space in `finish` (`rstrip`): texts are sequences of tokens.
- Of the native session: the usage probe, consent screens, the stall watch (one more
  failure that may come any time), the Windows controller; of its hooks: manual
  compaction, turn identifiers, counters of wakes and prompts. A display hook later
  than the grace of `_settle_text_batches` puts its text into the next request of
  the same prompt; `Window` does not follow texts, `TextBatches` follows one request.
- Of the engine client: the spool of the run directory and its pages, what
  `cleanup_outcome` says of each binding, `tool_choice`, usage and compaction records,
  images. A frame too large for the limit is one of the failures before delivery.
- Of the service manager: `setup`, another program on the port, and Windows, where
  the launched process may only be a redirector.
- The parts marked `not_modelled` in `PROJECT.json`, planned below or plain data.

## Plan

1. The lease registry of the provider wrapper, and `setup` of the service manager,
   which asks for any free port and so may start a second service beside one that
   does not answer a probe in time.
2. Compositions: `Window` with `Rendezvous` as its channel, and `Client` as the engine of
   `Owners`, whose `live` and explicit proof it justifies.
3. Proofs: what of `OneActiveRequest` and `NeverReplayed` survives the second cleanup of
   a stream; the safety half of what `Owners` promises about its orphans; that the
   bounded frames of `History` keep to their limit.
