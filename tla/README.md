# Colink: a TLA+ verification of the agent execution core

Colink (`src/`, Go) lets people talk to coding agents in *threads*. A message
or another agent's mention spawns an *invocation* of an agent: a row in
`agent_invocations`, a goroutine that runs a CLI process (Claude Code, OpenCode,
or any ACP server), and an entry in a map through which it can be cancelled.
Sessions of the CLI are resumed from one invocation to the next, agents see
what others have written since their last turn, and outside chats (Feishu,
Slack, Discord) are bridged into threads.

All of it is one process: goroutines, mutexes, in-memory maps, and a SQL
database that survives a crash while the maps do not. The hard part of the
program is not any one of these but that nothing updates them together. That
is what these modules model.

Paths below are relative to `src/internal/service/` unless they start otherwise;
*ES* is `agent/execution_service.go`.

## 1. Inventory

| component | source | state | operations | what makes it correct |
|---|---|---|---|---|
| Session mutex | `agent/session_mutex.go` | per (thread, agent): lock object, queue of waiters, their resolve channels | Acquire, wait, cancel, release | exclusion; no waiter lost or served twice; a free lock has no waiters |
| Invocation lifecycle | *ES* (SpawnAgent, executeAgent, CancelAgent, cleanupStaleAgents, SpawnAgentForUserMessage), `repo/agent_invocation.go`, `agent/startup_reconciler.go` | row status; `runningAgents`; agent context; waiting-for-user flag | spawn, run, ask, answer, cancel, sweep, evict, crash, reconcile | a cancelled agent is completed in one window only; nothing runs out of reach; every end leaves a finished row |
| CLI session chain, breaker | `a2a/session_chain_store.go`, `session_sealer.go`, `session_recorder.go` | records and three indexes, failure counts, sealing goroutines | create, seal, finalize, evict, count, check | indexes agree; the current session survives eviction; sealing ends; repeated overflow stops |
| Delivery cursor | `agent/delivery_cursor_store.go`, `agent/incremental_context.go`, `repo/delivery_cursor_repo.go`, `repo/message.go` | cursor in the database, LRU copy, boundary buffer per (thread, agent) | pull unread, buffer the boundary, acknowledge at the end | no message skipped, none shown again once acknowledged |
| IM session lock | `im/session_lock.go` | per chat: the done channel of the last caller | Acquire, release | one message of a chat at a time, in order, each in the end |
| CLI session cache, native resume | *ES* 744-1134, `agent/session_manager.go`, `agent/plugins/acp/`, `agent/plugins/claude_code/` | in-memory cache, `session_records`, session id of the invocation row, the session mutex | look up, acquire, load or create, save early, save late, fall back | the session resumed is the pair's latest; executions that take the mutex run alone; a lost session fails once |
| Process pool | `agent/process_pool.go` | entries, leases, generations, remembered sessions, timers | acquire, release, remember, evict, health check | remembered sessions lead into the pool; what is leased comes back; Acquire returns. Every execution takes a lease and returns it, but none runs its CLI on the leased process: the adapters start their own |
| IM bridge, inbound | `im/bridge_service.go` 93-165 | `im_sessions` row, threads | find or make the session, spawn an agent, under the chat's lock | a chat has one thread |
| IM bridge, outbound | `im/bridge_service.go` 167-310, `im/feishu_adapter.go` 81-191, *ES* 465-481 | cards, their text, the dirty channel, the fallback buffer | chunk, card creation, append, flush | one card; shown text only grows; what was added is shown |
| Invocation queue | `a2a/invocation_queue.go`, `queue_processor.go` | entries, slots | enqueue, process, complete | built but not wired: `cmd/server/main.go:531` discards it |
| WebSocket hub | `ws/hub.go` | clients per thread, channels | register, unregister, broadcast | no send on a closed channel |
| A2A routing | *ES* 1380-1450, 2552-3140 | per thread: marks of invoked agents, window of responses, from-agent | start by hand, complete, look up, mark, hand over, leave | who is called hears its caller; no mark without a reason; one run of an agent at a time |
| A2A worklist, trigger | `a2a/worklist.go`, `a2a/a2a_trigger.go` | call chain per thread | - | no callers in production |
| ACP adapter | `agent/plugins/acp/`, *ES* 3960-4060 | requests with their channels, the session's output and replay flag, the pending question | initialize, session, prompt, update, question, answer, close | all of a turn, in order, and no other; an answer goes to its question; the execution ends |
| Claude Code and other CLI adapters | `agent/plugins/`, `agent/adapter.go` | process handles | execute, stream | the format of an outside process's output; only the choice of a session id is modelled |
| Prompt building, human tasks, legacy orchestrator, configuration, API, frontend | elsewhere | - | - | text, single statements, or user interface; not modelled |

How they interact. `SpawnAgent` writes the row, enters the map and starts
`executeAgent`, which looks up what CLI session there is to resume, pulls unread
messages (delivery cursor), takes the session mutex when it resumes, asks the
breaker, leases a process, and runs the CLI through an adapter. The adapter sends
requests and sleeps; its `readLoop` appends text to the output and broadcasts it,
to the hub and to the bridge's cards, and shows questions, which HTTP handlers
answer. With the result the execution saves the session id, writes the session
chain and the row, hands over to the agents it mentioned, and acknowledges the
messages. `CancelAgent`, the thirty-second sweep and a user message that finds a
timed-out agent act on the same row and map from other goroutines. The bridge
calls `SpawnAgentForUserMessage` under the chat's lock. After a crash only the
database is left, and `StartupReconciler` runs before anything is served.

What is hard here: check-then-act over two critical sections (mutex, sealer,
breaker, cursor, marks), ids read before a lock and used after it, one mutex held
into a callback that takes another, whole-row writes of a stale copy, contexts
that are cancelled for some writes and fresh for others, early returns beside
deferred clean-up, maps that describe each other, goroutines that overtake one
another, crashes between any two of these. Every such place is a hazard in
`PROJECT.json` with the property that watches it.

## 2. Modules

| module | models | runs | proofs |
|---|---|---|---|
| `KeyedLock` | abstract: what a per-key lock promises its callers | as a property of `SessionMutex` | - |
| `SessionMutex` | `agent/session_mutex.go`, one key | `session_mutex`, `session_mutex_wakeup` | `SessionMutexProofs` |
| `SessionLock` | `im/session_lock.go`, one chat | as a part of `im_bridge` | `IMBridgeProofs` |
| `IMBridge` | inbound messages of one chat; extends `SessionLock` | `im_bridge` | `IMBridgeProofs` |
| `StreamingCard` | the chunks of one invocation on its card | `streaming_card` | `IMBridgeProofs` |
| `InvocationLifecycle` | rows, goroutines and map entries of one thread | `invocation_lifecycle` | `InvocationLifecycleProofs` |
| `SessionChain`, `MCSessionChain` | the CLI session store and the breaker, as executeAgent drives them under the session mutex | `session_chain` | `SessionChainProofs` |
| `SessionResume`, `MCSessionResume` | which CLI session an execution of one (thread, agent) pair resumes | `session_resume` | `SessionResumeProofs` |
| `DeliveryCursor`, `MCDeliveryCursor` | the cursor, pull and acknowledgement of one pair | `delivery_cursor` | `DeliveryCursorProofs` |
| `AcpExecution` | one execution over the Agent Client Protocol, with the questions it asks | `acp_execution`, `acp_deadlock` | `ExecutionProofs` |
| `A2ARouting`, `MCA2ARouting` | agents of one thread that call each other | `a2a_routing` | `A2ARoutingProofs` |
| `ProcessPool` | the pool of warm CLI processes and the order of its locks | `process_pool` | `ExecutionProofs` |

In every module a step is one database call or one region under one mutex: the units
the code makes atomic, and no larger. Handlers that take several regions are several
actions, joined by a program counter `pc`. Operators keep the names of the code's
functions and fields where they have any; where a function is split, the comments
before its actions read on from one to the next. An operator whose comment begins
with *Mutant* is a deliberately wrong variant of the one defined below it: a fault
of the kind the property named with it in `PROJECT.json` would detect. No
specification uses one.

**KeyedLock.** Each caller is idle, waiting, holding, done or refused; at most one
holds; only a cancelled caller is refused.

**SessionMutex.** `held` and `waiters` are the two maps of the struct, at one key;
`resolved` is the set of full `resolve` channels, `released` the lock objects whose
`releaseOnce` is set. `Acquire` is four actions, since it looks at `held` (line 54),
unlocks (75), builds a waiter, and locks again to append it (85): `AcquireFree` or
`AcquireContended`, then `Enqueue`, then `Wake` or `GiveUp` and `Leave`. The release
closure is `Release`, which may be called again after it was called once; `release`,
the function it calls, is `HandOver`. The refinement to `KeyedLock` shows everything
between contention and waking as *waiting*.

**SessionLock.** `chains` is the map at one chat; a done channel is named by the
caller that made it. `Acquire` is the locked region, `Proceed` the receive on the
old channel, `Unlink` and `Close` the release function's two halves.

**IMBridge** is a composition: each of its steps is a step of `SessionLock` with the
handlers' state unchanged, or a step of the handler that has the lock. `step` is how
far a handler is (the look-up, `CreateThread`, `CreateSession`, `Spawn`, and the
deferred `Release`); `session` is the row of `im_sessions`, in which (platform,
chat_id) is unique; a thread is named by the message it was made for. Any of the
calls may fail; a failed look-up is taken for an absent row
(`bridge_service.go:124`).

**StreamingCard.** `at` is where the goroutine of each chunk is, from
`NotifyChunkListeners` to the end of `UpdateStreamingCard`; `once` is the
`sync.Once` of the card's state, `dirty` the channel of one slot, `flush` the place
of `flushLoop`. A text is the sequence of the chunks in it. `shown` is what Feishu's
server has; an update that returns an error may have been applied or not.

**InvocationLifecycle.** `row` is the status column, `running` the key set of
`runningAgents`, `ctxDone` the agents whose CancelFunc was called, `pc` the place of
the spawn or execute goroutine, `activity` the age of an entry's `LastActiveAt`:
"fresh", "stale" (over the timeout), or "tool" while tools are active and the
heartbeat refreshes it. `invocationRepo.Update` writes the whole row from the
goroutine's own copy, so every save is a write of the status that copy holds
(`Write` with a fresh context, `WriteUnlessDone` with the agent's, which a done
context refuses). `CancelAgent` is `CancelRead`, `CancelWrite` and `CancelStop`,
since it reads the row, writes it, and only then stops the agent; `Chunk` is what
any chunk does to the entry, `Age` ten minutes without one; the sweep is `Sweep`, of
stale entries only, and its goroutine `MarkFailed`; a user message that meets a
timed-out agent is `AdmitInPlaceOf`. `Crash` loses everything but the rows,
`Restart` is the `StartupReconciler`.

**SessionChain.** `records`, `chains`, `activeIndex`, `cliIndex` are the store's
four maps. `Created` composes what `Create` does in one critical section (insert,
supersede, evict or roll back) out of `insert`, `victims` and `removeRecord`. `exec`
says what each executeAgent does with the store, in the order it does it: acquire
the session mutex, check the breaker, run, record, seal, count. `Acquire` is here as
far as the mutex can get lost in it: `BeginResume` (the first region), `Enqueue`
(the second), `Acquired`, and `AcquireFailed`, for a waiter whose context ends, be
it queued or handed the mutex already; `Return` has the deferred release, which
hands over to a waiter. `finalizing` holds the sealer's goroutines, `held` the
session mutex of a key; a key whose mutex is held by nobody is `Orphaned`.

**SessionResume.** `cache` is the pair's entry of `cliSessions`, `rows` its
`session_records` in the order of the query that reads them, `recent` the session id
of the last finished invocation, `holder` the session mutex, and `t` the executions,
each a record of the locals of executeAgent: the id of the request, the session of
the record (`native`), the one its CLI has open (`using`), the result's (`sid`), the
invocation's own. The labels `lookup` to `release` follow executeAgent: `LookUp` and
`Delete` are `GetOrCreateSession`, `Acquire` and `GiveUp` the mutex, `Load`,
`NewSession`, `PickSession`, `StartClaude` and `Prompt` the two adapters,
`FindRecord` and `WriteRecord` `SaveACPSessionID`, called early and late, `Cache`
the fallback's decision. `Restart`, `Forget`, `WeekPasses`, `DeleteExpiredRecords`,
`SwitchBase` and `Lose` are what can happen meanwhile.

**DeliveryCursor.** `dbCursor` is the row, `memCursor` the LRU entry,
`pairBoundaries` the pair's entry in that map and `boundaries` the buffers, named by
the invocation that created them, `seen` and `cur` the locals of GetCursor and
AckCursor. Ids are numbers in their lexicographic order; `inFlight` holds those
whose INSERT is still to come. `GetCursor`, the pull, the buffering, and the
deferred flush with `AckCursor` are followed call by call; each database call may
fail. `pulled`, `late`, `settled`, `since`, `failedWrite` are history: nothing reads
them but the properties.

**AcpExecution.** Four parties. The executor (`Send`, `Return`, `CloseTransport`,
`Drain`, `Reap`, `Collect`, `Leave`) goes through `Calls`, the requests of one
execution, and sleeps in `SendRequest` until the response is in its channel
(`pending`, `delivered`). `readLoop` (`reader`) takes one line of `stdout` at a time
and handles it to its end: an update is appended with `session.mu` held
(`AppendText`) and broadcast before that is unlocked (`BroadcastText`), a question
goes to `broadcastChunk`, which notes it in the agent's entry (`awaiting`), a
response into its channel. A submitter (`Submit`, `SendToolResult`) holds `es.mu`
from its match to its return. Who holds the two mutexes is read off `reader` and
`sub` (`SessionMuFree`, `EsMuFree`). The CLI is external: it is modelled from what
the adapter sends and expects. `Faulty` adds what goes wrong in the code's own
hands: a line too long for the scanner (`EndOfOutput` with the CLI alive), lines
that are passed over (`SkipLine`), a request the adapter does not know and does not
answer (`CliAskUnknown`), and a process that outlives its kill (`CancelAgent`,
`Reap`).

**A2ARouting.** `invoked`, `responses` and `fromAgent` are the fields of the
thread's `A2AContext`. A pass is what executeAgent does after its CLI succeeded:
`Complete` appends the response and finds the mentions, `LookUp` is
`checkSignalRouting`'s look at a mark, `Mark` the locked region that sets it,
`Decide` the choice of a session strategy, `Handover` the chain context and
`SpawnAgent`, `Leave` the end, which takes the agent's own mark away. `StartByHand`
is the orchestrator's `SpawnAgent` (a new context), `StartByMessage` that of a
user's message (the old one). `later`, `failed` and `serial` are history.

**ProcessPool.** `entry` holds every `PoolEntry` ever made, in order; `listed` those
in `p.entries`, `owners` is `sessionOwners`, `live` the one counter that decides
anything, `exec` the call of `Acquire` each executeAgent is in and then its lease.
What the code does under `p.mu` is one step, except where the fast path, which takes
only an entry's mutex, can come in between (`Evict` after `ChooseVictim`,
`CreateLease` after `Reuse`); there `pool` names who has `p.mu`. The fast path is
`LookUp`, `TryOwner`, `WriteOff`, `CountHit`, `CreateLease`; only in `WriteOff` does
it keep an entry's mutex from one step to the next (`Locked`), since it waits there
for `p.mu`. Whoever has `p.mu` and comes to such an entry waits for its holder,
which waits for `p.mu`: that step is `Block`, and sets `pool` to "blocked", in which
nobody ever gets it again. `IdleTimeout` is the timer's callback, which may have
gone off before the timer was stopped; `StartWarmup`, `WarmedUp` and `WarmupFailed`
are the three regions of a warm-up.

## 3. What the runs show

| run | bounds | shows |
|---|---|---|
| `session_mutex` | 4 invocations | each waiter in the queue once or promised the lock, never both; refinement of `KeyedLock`, and so exclusion |
| `session_mutex_wakeup` | 2 invocations | fails: a waiter sleeps behind a free lock |
| `invocation_lifecycle` | 2 invocations | entries and goroutines differ only by condemned ones; a finished row at every undisturbed end; orphans interrupted; a cancelled row is completed in one window only, an ended one never revived; no entry stays without a sign of life or an open tool |
| `session_chain` | 3 keys of a session each, one of them also resumed under its mutex (`Resumable`), 2 executions, capacity 2, 3 records ever, breaker at 1 | indexes agree; capacity; eviction spares the current session; sealing ends; two ways to leave the session mutex without a holder, and no return but these |
| `session_resume` | 2 executions at a time, 3 in all, both kinds of CLI, 1 failing database call; overlapping ones with ACP and without the faults (`OverlapsUndisturbed`) | the record is not older than the session that got the last prompt; a lost session fails one turn; executions that take the mutex run alone, and leave one record |
| `delivery_cursor` | 3 invocations, 3 messages, LIMIT 2 | nothing skipped but late messages; no return behind an acknowledgement; cursors only advance |
| `acp_execution` | 3 submitters, 2 chunks, 1 replayed update, 2 questions, asked in either way, deaths, `Faulty` | the output is the turn's text, all of it and in order; answers meet their questions, once; an execution ends, or hangs in one of the ways `Hung` names |
| `acp_deadlock` | 1 submitter, 1 elicitation, 1 chunk, no deaths, a CLI that is silent while it waits | fails: answer and update lock each other out |
| `im_bridge` | 3 messages | order of arrival; everybody is served; one thread for a chat, whatever call fails |
| `streaming_card` | 3 chunks | one card; what it shows only grows; what was added comes to be shown |
| `a2a_routing` | 3 interchangeable agents, 2 mentions at a time, a window of 2, invocations and starts 5 together | the caller's response reaches the called; no mark without a reason; serial passes run an agent once at a time |
| `process_pool` | 2 executions, 3 calls of Acquire, a single-lease and a multiplexing key, 1 session id, capacity 1, 1 warm-up | a remembered session leads to a ready process in the pool; a leased single-lease process has somebody to give it back; Acquire returns, unless a lease in use is written off on the fast path |

Why the bounds are enough. *Locks*: the hand-over, a waiter that leaves from the
middle of the queue while another is promised the lock, and a second release meeting
a later owner need four callers at most; a chat's lock has no cancellation, and a
chain of three has a first, an inner and a last caller. *Lifecycle*: an action
involves one invocation, or two (`AdmitInPlaceOf`); nothing relates three. *Chain*:
eviction passes over the records a key points to, so it takes three keys over a
capacity of two for a roll-back, and for a victim to exist beside two current
sessions; the breaker's threshold is 1, so that it trips within three records. The
keys' mutexes do not touch one another, so one key is enough to take one: one
execution holds it, the other waits, gives up, is handed it, or comes between the
release and its queueing. *Resume*: a session is made in one execution, lost or left
behind by a second, and met by a third; the two failing saves of one execution are
the same call, so that one fault reaches each of them. *Cursor*: LIMIT 2 with three
messages has full, partial and empty pulls; three invocations allow one to flush the
shared buffer, one to pull and one to read the cursor at once, with crashes and
evictions between. *ACP*: two questions let an answer meet the next question's
request, with a third user to answer twice; two chunks one on each side of a
question. *Card*: with three chunks one can make the card, one wait for it and one
come later, and a text can be sent, refused and sent again. *Routing*: two agents
can hand over to a third at once, the window is passed by two responses, and in five
invocations an agent can be called back. *Pool*: one execution leases, releases and
leaves a session behind, the second takes the process over and the third call meets
its lease, with the other holder anywhere in its own call; with the warmed-up
process the pool goes past a capacity of one, so that it evicts, refuses and
cold-starts. Where a module has proofs they remove the bound for the safety
properties. Symmetry is used where the elements are interchangeable and no liveness
is checked. All of these are bounds of the model (`MaxStamped`, `MaxCreated`,
`MaxTurns`, `MaxFaults`, `MaxChunks`, `MaxReplayed`, `MaxQuestions`, `MaxWork`,
`MaxAcquires`, `OverlapsUndisturbed`, `Resumable`, and `Deaths`, `Talkative`,
`Faulty`, which switch behaviours on), not of the code, except `maxRecords`,
`MaxConsecutiveFailures`, `maxMessages`, `MaxPreviousResponses`, `MaxLiveProcesses`
and `MaxA2AMentionTargets`, which are small values of the code's own constants (the
last is the code's own value).

Deadlock is checked where the system can always go on (lifecycle, chain, cursor).
The others stop when every caller is done or the bound on turns, chunks or work is
spent, and say so in their cfg; that nobody is left behind is then a liveness
property (`EveryoneServed`, `EndsOrIsStuck`, `ShownOrRefused`,
`AcquireReturnsOrBlocked`).

## 4. Fairness

- `SessionMutex`: each goroutine in Acquire or in its critical section takes its
  next step (that an execution leaves its critical section is assumed here;
  `InvocationLifecycle` and `AcpExecution` say when it does not). Nobody is obliged
  to cancel.
- `IMBridge`: goroutines run, and the database calls and the spawn of a handler
  return; `HandleInboundMessage` makes bounded calls and releases by defer.
- `InvocationLifecycle`: goroutines run, but one in `Launch` or in the CLI
  (`Outside`) need not come back, not even when its context is done: `AcpExecution`
  and `SessionMutex` have such cases. Time passes, and the sweep comes round every
  30 seconds, but it ends only what it finds stale: chunks and the tool heartbeat
  make an entry fresh again, for ever if they go on. `ExecutionEnds` says what
  remains: an execution ends, or is outside for good, and then its entry is gone or
  shows signs of life or an open tool again and again.
- `SessionChain`: the goroutines `RecordFailedSession` starts do run.
- `AcpExecution`: executor, reader and submitters run, and a live CLI goes on with
  what it has to say and reads what it is sent; one that stops reading or falls
  silent in the middle of a turn is outside the model. A killed process dies, unless
  `Faulty`. No user has to answer and nobody has to die or to cancel.
- `StreamingCard`: `flushLoop` and the goroutine of each chunk run, and their calls
  return. The CLI need not say anything.
- `ProcessPool`: a goroutine inside `Acquire` runs and gets a mutex it waits for
  when that is free again and again (strong fairness: Go's mutexes hand over to a
  waiter that starves). Nobody has to release, and no timer to go off.
- `DeliveryCursor`, `SessionResume` and `A2ARouting` have no liveness property: a
  message waits for as long as nobody mentions the agent, and nothing there promises
  that somebody is called.

## 5. What is assumed

- *Lifecycle*: a database call fails only because its context is done. The code logs
  any other failure and goes on with the row as it was, so `UndisturbedFinishes`
  holds under this assumption only. A panic is one more way into `Fail`, as the
  deferred handler makes it, up to completion. One `CancelAgent` per invocation is
  in flight at a time. `ctxDone` survives `Crash` as history. What an execution says
  (blocks, broadcasts) is left out.
- *Session mutex*: a key's lock is taken at most once per invocation, as
  executeAgent does. `Release(key)` has no callers and is left out.
- *Session chain*: record ids are not reused (they are UUIDs). A session belongs to
  one key. `ReconcileStuck`, `ReconcileAllStuck` and `RecordPendingSession` have no
  production callers and are left out. Which waiter is served next, and that one may
  be missed between the two regions of `Acquire`, is `SessionMutex`'s; here any
  queued waiter may be handed the mutex.
- *Resume*: a CLI answers for a session it does not have with one of the texts
  `isResumeFallbackError` knows. Of time only the order is kept: an execution may
  resume while a finished invocation is recent, and records expire when nothing has
  run for a week. `updated_at` has seconds, so records written one after the other
  may be read in either order. The fallback to `GetCliSession` (*ES* 773-784) is
  left out: the store injected at `cmd/server/main.go:136` has no database behind it
  yet, so that it remembers nothing over a restart, and what it could find within
  one life of the server is among what `Start` may find in the cache.
- *Cursor*: a committed row survives a crash, which loses the messages in flight and
  ends all invocations. The feature is off by default
  (`agent.delivery_cursor.enabled`). Text (filtering by author, compaction, token
  budget) is left out: what is filtered or trimmed is acknowledged all the same.
  `DeleteCursor` and `DeleteByThread` have no production callers.
- *ACP*: the CLI answers requests in turn, has said all of a turn (or of a replayed
  session) when it answers, and asks one question at a time, whose answer it waits
  for. It may answer any request with an error. Permission requests are answered on
  the spot and left out, as is the parsing of updates: one that cannot be parsed
  counts as not sent. A response or question that cannot be parsed, a line over 10
  MiB and an unknown request are there under `Faulty`.
- *Card*: the status chunk that `handleStatusComplete` waits for is sent by nobody,
  so a card is never closed and `handleStatusComplete` and `FinalizeCard` are left
  out; deduplication, retries, the rate limiter and delivery hang on them.
- *Pool*: `Close` is called at start-up only, on the empty pool that is replaced;
  `ForgetSession` and `SetClient` have no callers; `pendingSpawns` is filled and
  emptied in one critical section, so that nobody waits for it. Which idle process
  is the least recently used is left open. A walk over several entries under `p.mu`
  is one step, and times are left out. A role keeps its base agent, and with it
  whether its processes may be shared.
- *Routing*: which agents an output mentions is any choice of at most
  `MaxA2AMentionTargets` others. `Depth`, `ChainIndex` and `CompletedAgents` decide
  nothing but wording, and targets with a human role are passed over.

## 6. What is proved

The proofs hold for every set of invocations, agents, messages or chats' callers and
every value of the other constants; they rest on the `ASSUME`s of the modules
(`None` is no caller; limits are positive naturals), which the runs evaluate.

**SessionMutexProofs**: type correctness, `MutualExclusion`, `WaiterAccounted`, and
the refinement of `KeyedLock`. Exclusion is not inductive: between a hand-over and
the waiter's waking, the lock belongs to somebody who does not hold it yet. The
invariant adds that `held` names whoever holds *or was promised* the lock
(`OwnerIsHeld`), that only callers inside Acquire are promised it
(`PromisedInside`), that the queue never names one of them (`QueueUnpromised`), that
a lock object is released exactly when its owner is done (`ReleasedIsDone`, which
makes the second release harmless), and that only the cancelled leave
(`LeavingIsCancelled`). Two lemmas say what taking an element out of a queue without
repetitions leaves. The refinement theorem uses the same invariant, step by step.

**IMBridgeProofs** has the three modules of the IM bridge. *Of the lock*: type
correctness, `InOrder`, `ChainUnbranched`, and the refinement of `KeyedLock`. The
code keeps no queue; the invariant says that the done channels spell one out: every
caller that waits waits for the one just before it (`WaitsForPrevious`), the map
names the last (`EntryIsLast`), and an absent entry means that everybody has let go.
Exclusion follows: whoever enters does so when all that came earlier have let go and
all that came later wait (lemma `EnteredAlone`). *Of the bridge*: it is an
implementation of its lock (`BridgeUsesLock`: every step of the bridge is one of the
lock's or none), so everything proved of `SessionLock` holds of it
(`BridgeKeepsOrder`). `OneThread` then follows from the lock's invariant: two
holders are the same (`OneHolder`), so between a handler's look-up and its insert
nobody else has found or made a session (`FoundStands`). *Of the card*: `OneCard`,
because the card is being made by one goroutine at most and those that go on do so
when it has been tried (`CreatedOnce`); and `Typewriter`, because what the loop has
read is a beginning of the text that an update under way takes nothing from
(`ReadIsPrefix`).

**InvocationLifecycleProofs**: type correctness, `EntriesMatch` with its two halves,
`UndisturbedFinishes`, `OrphansInterrupted` and `CompletedOnlyInWindow`.
`UndisturbedFinishes` is about a goroutine that has ended; the invariant states it
one step earlier, when only the outermost defer is left (`LeavingFinished`). The
rest is inductive as it stands.

**SessionChainProofs**: type correctness, `IndexesAgree`, `CapacityKept`,
`CurrentSurvives` and `OrphanedTwoWays`. `Create` takes several steps in one
critical section, so the invariant is stated of the store as a value (`Good`) and
two lemmas take it through an insertion (`InsertGood`) and a removal (`RemoveGood`).
A removal clears the session's index entry whatever it names; the invariant allows
that, because an absent entry promises nothing. `CapacityKept` holds because an
insertion exceeds the capacity by one at most, and `CurrentSurvives` because no
victim is what a key points to (`VictimSpares`): a closed record is pointed to by
nobody. That taking an id out of a chain leaves it in order rests on three lemmas
about `RemoveFirst`.

**DeliveryCursorProofs**: type correctness, `NothingSkipped`, `NotShownAgain`,
`MemoryBacked` and `OnlyForward`. The argument for `NothingSkipped`: every cursor,
boundary and local in the system is the id of a pulled message or empty
(`CursorsPulled`), and below a pulled message all others are pulled or late
(`NoGaps`). The latter survives a pull because a LIMIT query returns an initial
segment of what lies beyond the cursor (lemma `UnreadIsPrefix`, from the cardinality
of finite sets). For `NotShownAgain`, what was reported stored is below the row for
good, and a reader that got as far as the database has seen at least that
(`SettledStored`).

**A2ARoutingProofs**: type correctness, `MarksAccounted`, `UpstreamHeard` and
`SerialRouting`. For the second, `AnswerInWindow`: the response of a pass is exactly
`later` places from the end of the window, or the window has passed it (lemma
`WindowShape`). For the third, `SerialInv`: while no two passes overlap, an agent
that runs is marked unless it is alone or passing on (`RunnersMarked`), nobody who
is to be triggered runs (`TargetsAtRest`), and between the mark and the handover
nothing has changed (`TargetMarked`).

**SessionResumeProofs** proves all three invariants of `session_resume`.
`ResumesGuarded` comes from `ResumeInv`. Its first half, `ResumesAlone`: whoever
takes the mutex and runs is its holder, through cancellation, restart and the
breaker's return (`Holds`). The second, one record: while no database call fails, an
execution that is about to create a record found none and there still is none
(`OneRecord`), because no other can be between its own look-up and its write; that
needs `OverlapKnown` (what the history variable `overlap` says of the executions now
under way) and `SlotsAgree` (which fields of an execution are set at which point).
`RecordNotStale` comes from `FreshInv`, about a lone execution and no failed call: a
session that an ACP execution has in hand, to load, to save or to prompt, is not
older than the one prompted last (`Loads`), and the record is of it or of a later
one once its prompt is due; an execution of Claude Code does not come near an ACP
record unless it has been cancelled (`Spares`); nobody who found no record meets one
later (`FindsNone`), and a record id in hand is that of the only record (`OwnRow`).
`GoneOnce` comes from `MissInv`, an account: every turn lost so far and every record
that may yet cost one (`Unfit`: expired, or of the other kind, whose session the
look-up does not load) is paid for by a failed database call, but for one
(`Balanced`); an execution that has found nothing to load, and so may resume a lost
session through the cached id with no fallback, leaves one more unspent
(`PaidMiss`), which it gives up when its turn is lost. What a delete of a record by
id leaves, whichever record it was, is counted by the library's lemmas on
cardinality (`FewerRows`, `LessOne`). Every step of an execution is first reduced to
what it does to the execution's record (`Kept`, the `...Move` operators and the
`...Step` lemmas), so that the invariants argue about thirteen fields and not about
`EXCEPT`.

**ExecutionProofs** has the two parts an execution runs on. *Of the pool*:
`PoolAgrees`, `LeasesBacked`, and what a lost mutex means (`OnlyWriteOffsBlock`,
`BlockedForGood`). Neither property is inductive. `PoolInv` adds what a call of
`Acquire` may rely on between its regions: the entry it has in hand exists
(`CallsKnow`); a generation is positive once a lease was made, and a process that is
being warmed up has none (`Generations`); whoever is about to write a lease off has
seen one that is still there, since it keeps the entry's mutex (`WrittenOffInUse`);
and between choosing a victim and closing it nobody else changes the pool
(`PoolKept`). *Of the execution*: `OutputInOrder` and `OutputComplete` from
`TurnInv`, `AnswersMatch` from `AnswersInv`. For the output: the executor's request
is in one place at a time, on its way, in work or answered (`OneCall`); what is said
while it is in work comes before its answer on the one stream there is
(`SaidBeforeReply`), so whoever has the answer has all of it; the numbers on the way
continue those that were taken, without a gap (`Continues`); and what is replayed
comes while the replay window is open (`ReplayWindow`). For the answers: the CLI
asks one question at a time (`AskedOnce`), it is shown at most once and matched at
most once (`ShownOnce`, `MatchedOnce`), and while somebody may still read the
pending request id it is that of the last question or none (`RequestOfQuestion`),
because the next question is not asked before the answer to this one has been sent.

Model-checked only: liveness (`ExecutionEnds`, `SealingEnds`, `EveryoneServed`,
`EndsOrIsStuck`, `ShownOrRefused`, `AcquireReturnsOrBlocked`: out of reach of the
prover, like `ENABLED`). No module uses `RECURSIVE`.

## 7. Findings

Two runs are expected to fail. Each checks one sentence of the repository and shows
that the code does otherwise; `PROJECT.json` quotes the line.

1. **Lost wake-up in the session mutex.** Between the two critical sections of
   `Acquire` the holder may release; it finds no waiter, deletes `held`, and the
   newcomer then queues behind nobody. It waits until its context ends, or another
   caller comes and releases.
2. **Deadlock of an answer and an update.** `SubmitQuestionAnswer` holds `es.mu` and
   takes `session.mu` to forget the request it has just answered; `readLoop` holds
   `session.mu` while it broadcasts the text with which the CLI goes on, which takes
   `es.mu`. Neither lets go, and with `es.mu` the whole service stands.

What else the models show, and no failing run states, because a property says
exactly what remains true or because no line of the repository promises otherwise.
The first three contradict comments of the code:

- A cancelled invocation may be completed. `CancelAgent` stores `cancelled` before
  it cancels the goroutine's context; a goroutine past its check (*ES* 1317) then
  writes its whole row, `completed` (1327), with a context that still works. The
  comments at 1234 and 1313 mean to exclude it. `CompletedOnlyInWindow` says how far
  it goes: once the context is done it cannot happen.
- A silent tool never times out. The heartbeat (*ES* 3953) refreshes the entry of an
  agent with an active tool every thirty seconds, so the longer timeout the sweep
  has for it (499) is never reached, and the thread stays taken until somebody
  cancels the agent (the third case of `ExecutionEnds`).
- A session mutex may be held for nobody, although the comment at *ES* 922 has it
  released whenever the execution is over. A waiter that has been handed the mutex
  may leave through `ctx.Done` (`session_mutex.go:98`), and the breaker returns
  (*ES* 920) before the release is deferred: `held` stays set, and every later
  resume of the pair waits until its own context ends. `OrphanedTwoWays` says that
  there is no third way.
- A cancelled row may be set running again by a goroutine's stale copy
  (`MarkRunning`, the early save of the session id; a cancel before `Register` finds
  no entry and stops nothing), and a swept execution's row may stay running until
  the next start.
- The breaker seldom trips: failures are counted on a record sealed a moment before,
  and it looks at the active one.
- An execution that waited for the session mutex may resume a session its
  predecessor has replaced: it looked the id up before. `ResumesGuarded` does not
  exclude that.
- Routing passes that overlap may trigger an agent twice or tell it the wrong
  caller; `SerialRouting` is about passes that do not.
- A message stored behind a later one that was pulled is never pulled
  (`NothingSkipped` excepts it).
- An execution with strategy New takes no mutex and still loads the record's
  session, beside another one that has it open (`ResumesGuarded` is about those that
  take it).
- After a failed fallback Claude Code's cached id stays that of the lost session
  (`RecordNotStale` is about ACP).
- Chunks on goroutines of their own may reach the card in another order than the
  CLI's, and the chunk that met a failing card is in the fallback buffer twice.
- A CLI that dies with a request pending is not noticed by the executor
  (`DeadUnnoticed`), and one that never answers `session/resolve_tool_call` keeps
  `es.mu` taken (`ServiceHeld`). A reader that has stopped at a long line or passed
  over a response leaves the executor waiting for good (`Unheard`), a question
  passed over is never shown (`Unshown`), an unknown request never answered
  (`Unanswered`), and a process that outlives its kill keeps the clean-up waiting
  (`Unkilled`).
- After a handover that came to nothing the agent stays marked, and later mentions
  of it are passed over (`MarksAccounted`); `MaxA2ADepth` is enforced nowhere.
- The process pool can block for good (`Deadlocked`). Two threads of one ACP role
  and project come to share a process: the first leaves its session with it, the
  second is given it when it is idle, and when the first resumes, the lease of the
  second, which is in use, is taken for a zombie. The fast path then waits for
  `p.mu` with the entry's mutex in hand (`process_pool.go:187`), while a release,
  the health check or another `Acquire` has `p.mu` and waits for the entry. Every
  later `Acquire` hangs, and with it its execution; the comment at 174 has it that
  only the one entry is locked. What is written off is always such a lease, never a
  zombie (`LeasesBacked`: a zombie does not come about).
- In the pool, too: `RememberSession` finds its process by generation and may take
  another one (460); two leases may have the same generation (399); an eviction or
  the health check may close a process that is leased (529, 649); leases of a
  multiplexing process are not given back after another one was taken (427), so that
  it is never idle again; a warm-up that fails after the health check has removed
  its entry is counted off twice (759).

## 8. What is not modelled

*Invocation queue and queue processor*: built but discarded in `main.go` (531). *A2A
worklist and trigger*: no callers. Mention parsing, prompt building, token budget
and configuration are text or single statements. *Other adapters*: the output format
of outside processes; of Claude Code only the choice of a session id is modelled.
The hub is one goroutine; API, frontend and installers hold no state the others
read. Most of the repository's lines are of these kinds, which is why the modelled
share of them is small. `PROJECT.json` gives the reason for each.

## 9. Plan

1. *Done*: `KeyedLock`, `SessionMutex`, `SessionLock`, `InvocationLifecycle`,
   `SessionChain`, `DeliveryCursor`; then `AcpExecution`, `IMBridge` over
   `SessionLock`, `StreamingCard`, `A2ARouting`, `SessionResume`, `ProcessPool`;
   with the proofs of section 6.
2. A composition of `InvocationLifecycle` with `KeyedLock`, so that `Launch` waits
   for the lock rather than for its context.
3. The Claude Code adapter's stream, with the death of its process.
