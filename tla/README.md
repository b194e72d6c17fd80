# TLA+ models of AgentSonic

AgentSonic is a fork of ElizaOS: a TypeScript monorepo in which one Node process
runs several AI agents. An agent reads messages from its clients (Twitter,
Discord, Telegram, REST), keeps what it knows in a database behind a common
adapter, calls model providers, and acts through plugins, among them those of the
Sonic chain. There are no threads. What makes the code hard is that every `await`
lets other callbacks run: timers that do not wait for their previous tick, loops
guarded by a boolean, read-modify-write sequences over a cache, retries around
operations whose answer may be lost, and restarts.

This directory holds TLA+ modules of the parts where that matters, the TLC
configurations that check them, and TLAPS proofs. Paths below are relative to
`src/packages/`. `PROJECT.json` maps each definition to the lines it models.

## Inventory

| component | state | operations | what is hard, what must hold |
|---|---|---|---|
| Circuit breaker `core/src/database/CircuitBreaker.ts` | state, failureCount, lastFailureTime, halfOpenSuccesses | execute (two synchronous halves around an await), handleFailure, reset | calls admitted in one state settle in another; the lifecycle, closing only on successes in a row, recovery |
| PostgreSQL adapter `adapter-postgres/src/index.ts`, base class `core/src/database.ts` | one breaker and one pool per adapter | some forty methods, each withDatabase(withRetry(...)), some calling one another inside | nested retries and breaker frames, lost answers to INSERTs, swallowed errors; a bounded cost per call, resolved means stored, calls settle, recovery |
| Twitter request queue `client-twitter/src/base.ts` (copied in `client-simsai`) | queue, processing | add, processQueue | each add may start a loop; one loop, FIFO, each request exactly once |
| Tweet approval `client-twitter/src/post.ts` | one cached list of pending tweets | sendForApproval, handlePendingTweet on a timer, cleanupPendingTweet | unguarded read-await-write of the list, overlapping ticks, restarts; post only what was approved, once, forget nothing |
| Tweet generation, timeline actions `client-twitter/src/post.ts` | isProcessing, lastPost | generateNewTweet, processTweetActions | flag cleared on an early return while the work goes on |
| Mention poller `client-twitter/src/interactions.ts`, `utils.ts`, start-up in `base.ts` | lastCheckedTweetId (in the process and in the cache), memories | start, handleTwitterInteractions, handleTweet, buildConversationThread, populateTimeline | the timer does not await the poll, an error ends it, the search shows mentions in any order; each mention answered once, none passed over unseen |
| Cache manager `core/src/cache.ts` | memory map, files or table rows | get, set, delete, expiry | files written in place, swallowed errors, an unawaited delete of expired entries; a get returns nothing replaced, a fresh entry stays |
| Runtime `core/src/runtime.ts`, memory manager `core/src/memory.ts` | services, rooms, participants, memories | initialize, stop, ensure*, processActions, evaluate, createMemory | check-then-create across awaits |
| Knowledge `core/src/ragknowledge.ts`, `runtime.ts`, `knowledge.ts`, the knowledge tables of `adapter-sqlite` and `adapter-postgres` | documents, chunks, cache of searches | getKnowledge, processFile, removeKnowledge, cleanup, at each agent's start | crash or error between document and chunks, agents that share a document's id, errors taken for "already exists"; one content, all its chunks, each once |
| Media services `plugin-node/src/services/` | queue and processing flag per service | transcribe, processVideo, queueTextCompletion | exceptions that leave the flag up; every request settles |
| Discord voice `client-discord/src/voice.ts` | buffers per user, one shared timer, flag and player | AudioMonitor, debouncedProcessTranscription, processTranscription, playAudioStream | speakers clear each other's timer and buffers, an interruption takes the flag down; the flag tells, speech is transcribed or lost for a known reason |
| Telegram `client-telegram/src/messageManager.ts`, Discord messages | interestChats | handleMessage, activity monitors | state read before an await and used after it |
| REST API, Sonic bounties `client-direct/src/` | agents map; an external contract | start, stop, set agents; create, participate, distribute | concurrent reward requests, agents stopped before the new one is valid |
| Agent process, chain plugins, model providers | configuration | start-up; SDK calls | mostly wiring and pure I/O |

Components call each other directly, inside one process. The clients use the runtime, the runtime
the memory managers, those the database adapter, which is shared by all concurrent
callbacks; the database is also the default store of the cache (`.env.example:6`),
so the approval list, the search results and the poller's mark all go through the
breaker and the retries modelled here.

## Modules

| module | models | state and actions |
|---|---|---|
| `CircuitBreaker` | the breaker's fields and the synchronous pieces of its methods | `EnterExecute` / `Refuses` are `execute` up to its await; `AfterSuccess`, `HandleFailure`, `Reset` what runs after the operation settled |
| `BreakerCalls` | concurrent callers of `execute` | per caller idle, running or settled; `Execute`, `Succeed`, `Fail`, `Tick`, `HealthChange` |
| `PostgresAdapter` | the adapter's calls over the same breaker | per task: the method, its place, the attempt of its outer and inner retry loop; one action per synchronous piece |
| `SerialServer` | what the request queue promises | a line of requests; `Submit`, `Complete` |
| `RequestQueue` | `RequestQueue.add` and `processQueue` | queue, flag, and one potential loop per add; `Add`, `Settle`, `Resume` |
| `TweetApproval` | sendForApproval, handlePendingTweet and the helpers they call | the cached list, the generator's and each tick's program counter with the list it has read; the human, the clock, one fault |
| `CacheManager` | get, set and delete of one key over the three adapters | what the store holds, in chunks; per call its place and what it has read; one action per call and per effect |
| `TwitterInteractions` | the poll loop, its start-up and the thread of a mention | memories, both marks, per poll the candidates left and its place; one action per piece between awaits |
| `KnowledgeIngest` | a knowledge file from agent start to cleanup | document and chunks under each id; per agent what its start has found and is at; the file changes, the process restarts |
| `VoiceManager` | speakers in a voice channel | monitors, buffers, timer, flag, player, callbacks in progress |
| `*_proof` | theorems about the module of that name | |
| `MC*` | the instances TLC checks | |

Definitions whose comment begins with "Faulty:" are bugs the code does not have. They
are used by nothing: each is swapped for the definition after it to show that
some property notices.

### Circuit breaker

Two abstractions, exact because of how the fields are read. `failureCount` is only
compared with the threshold, so it saturates there. `lastFailureTime` is only
read as an age against `resetTimeout`, so the model keeps the age
(`sinceFailure`, saturating just above the timeout; `undefined` reads as 0 in the
code, which is an infinite age). An operation may fail only while the database is
down, and may succeed whenever it likes: an answer may be on its way when the database goes down.

### PostgreSQL adapter

Over forty methods reduce, for the breaker, to four shapes: one pool query that
throws (`query`), one whose error is swallowed (`createAccount`), an inner
breaker frame whose error is swallowed (`getCache`), and an inner frame followed by an
INSERT (`createMemory` with an embedding). The database stores a row and its answer may be
lost: that is the second of the three outcomes of `Insert`. Memories carry their
id, as nearly all callers' do; the ones that leave it to `memory.id ?? v4()` inside the
retried operation can be stored twice, a hazard listed without a property.

What `withDatabase` and the body of a nesting method do before their first await is one step: the outer frame and, in the
first attempt, the inner one enter together (`Begin`). Only in a later attempt, after a back-off, does the inner
frame enter by itself (`EnterInner`), and may be refused. Any attempt may throw at any time, over a healthy database too (an embedding
of the wrong dimension, a constraint, JSON), and the clock may end the quarantine
at any place, back-offs included. `Recovers` therefore supposes only that in the end no attempt throws by itself (`Throws`);
inner calls refused after a back-off, a memory that a lost answer has already stored and errors that `createAccount`
swallows may go on.

### Request queue

The pushed closure catches its own errors, so the `catch` of `processQueue` (put
back, back off) is dead code and has no action. `loop[r]` is the
`processQueue` that the add of `r` started, which usually carries out other requests.

### Tweet approval

`pending` is the list under the cache key `twitter/<user>/pendingTweet`. `gen` is `sendForApproval`
between its awaits, `handler[h]` an execution of `handlePendingTweet` with the rest
of the list it read at its start. Reads and writes of the cache are separate steps. `verdict`
abstracts the reactions: a cross outweighs a thumb (`Status`), `late` is a
thumb given after expiry. `fate` is what happened at Twitter, of which the code learns
nothing, as `postTweet` swallows its errors.

The code cannot promise that a tweet is posted at most once or never forgotten, so the
model records every mishap in `blame` and the properties say which of them can
be the cause: `PostedOnce` names five, `NoneForgotten` all but overlapping ticks. One
injected fault per behaviour: a restart; a Discord response, cache
read or cache write lost (the adapters catch and log); or a cache call that throws.
`overlap` and `stale write` need no fault and are unbounded.
A handler of a restarted client (its `stop` only logs, and nothing clears the interval) is one more
overlapping handler.

### Cache manager

One key, as nothing is shared between keys. `slot` is what the store holds: for a file, a sequence
of chunks, since `fs.writeFile` truncates and then writes piece by piece, two writers at positions of their own
(`Overwrite`); a memory entry or row is one `Put`. Reads are atomic. Each call is
separate from its effect also in memory and SQLite, where they are one step:
more interleavings than there are. Errors are those the adapters swallow (`Fails`, a read of no entry)
or that get itself discards. Not modelled: a request the database carries out
after the process that made it has died.

The cache does not promise a register, so the properties say what it does keep. `over` records, when a
get starts, which values had been replaced by then (`NeverStale`); `alone` the last value whose set nothing
disturbed (`FreshKept`): it stays unless a get that had already read an expired entry sweeps it.

### Mention poller

Ids are numbers in the order of the tweets (`localeCompare` of ids of one length). A mention appears in the search at any
time, so a later one may be seen first (`passed`). `buildConversationThread` stores the memory
of each tweet of the thread before anything is sent; hence the second look-up in
`handleTweet` always finds it, and the branch that saves the request is not taken. The
thread goes on to the mention's parents, of which only mentions are
modelled, without the depth limit of ten. `populateTimeline` gives the latest mentions of a
start memories without an answer, which from then on count as answered: a start never
answers what came while the process was down unless the search has not shown it yet.
Target users (`interactions.ts:138-220`) and the agent's own tweets are left out.

### Knowledge ingestion

A document's id is a hash of "shared" or "private" and the path: `Ids` has one of each. Content is a version number. A
batch of ten chunks is one row, `copy` 2 a second row of the same batch. `cut` and
`disturbed` are the reasons why a document may lack chunks or hold two contents; both end when
the document is removed and stored anew. SQLite gives a chunk an id
made of the document's and throws, or for shared items swallows, an error on conflict; PostgreSQL gives it a
fresh id in each attempt. In-flight inserts of a failed batch are taken to have
settled before the start goes on.

The cleanup at the end of a start lists what the agent sees and removes what has no file. Its comment says "Only process
parent documents, ignore chunks" (`core/src/ragknowledge.ts:418`), but it tells chunks by "chunk" in their id, which those of PostgreSQL do not have:
`listed` are the rows it then checks one by one, each asking for the file anew (`CleanChunk`), so that a document may lose
chunks and stay. `cut` records that, too. Documents given as strings, directories and
searches are left out.

### Discord voice

What a user says between start and end of speaking is one utterance, flagged by the decoder's first data (`Audio`). A start may find
no decoder, a decoder may give no data, and an error may close it (`StreamFails`): then the stop delivers nothing (`voice.ts:96`), and what waited
in the user's buffers keeps the cleared timer; `drowned` records it. `player` is "idle" when
playback has ended but `activeAudioPlayer` is still set. The library is taken to
report speaking before audio arrives, and a user has one stream and monitor at a time, though
`monitorMember` may add a second decoder while one is open. `heard` and `drowned` say where an utterance
went; after the end of a stream the last one is delivered again. `Handlings` bounds
the callbacks in progress: with all of them in progress, nobody interrupts.

## Runs

| run | bounds | shows |
|---|---|---|
| `breaker` | 3 callers, threshold 2, timeout 1, 2 probes; 6572 states | lifecycle, unbroken probes, recovery |
| `postgres` | 2 tasks, 2 attempts per loop, threshold 2, timeout 1, 2 probes, history of one task; 96 thousand states | cost per call, resolved means stored, calls settle, recovery |
| `postgres_probes` | the same | violation: see Findings |
| `queue` | 5 adds; 9258 states | one loop, none lost, refinement of `SerialServer` with fairness |
| `approval` | 2 tweets, 2 ticks at a time, one fault; 1.4 million states up to symmetry | safety of the approval |
| `approval_progress` | 2 tweets, one tick at a time, one fault; 76 thousand states | progress of the approval |
| `approval_reply` | 1 tweet | violation: see Findings |
| `cache` | 3 calls at a time, 3 values of two, one and two chunks, each store; 1.2 million states up to symmetry | what a get returns, what a sweep removes, when a file is torn |
| `mentions` | 3 mentions, the last in reply to the first, 2 polls, the search returns 2; 162 thousand states | one answer each, none passed over, all seen |
| `knowledge` | 2 agents, 2 contents of 2 batches, both databases; 3.3 million states up to symmetry | whole documents of one content, starts that load |
| `knowledge_restart` | 1 agent, 1 content of 2 batches | violation: see Findings |
| `voice` | 2 users, 3 utterances, 2 callbacks; 613 thousand states | the flag, and where utterances go |

Why the bounds are enough. Three callers let one outlive the circuit's opening,
half-opening and closing while two others cause them. With threshold and probes at 2 there
is a state in which the next event does not decide and one in which it does. Two tasks are the
fewest that disturb each other, and both can hold two frames. Five adds cover adds before, while and
after a loop runs, with a second and third loop. A
list of two tweets distinguishes removing one tweet from removing the key, and has
a tweet behind another; two handlers and the generator are three concurrent writers.
Three calls of the cache are a get that sweeps, the set it meets and one that disturbs either; values of two, one and two chunks
let a short file overwrite a long one and be overwritten. With three mentions and a search that returns two, one can be overtaken;
the reply brings a mention's memory in by way of another's thread. Two agents are the fewest that
share a document, two contents the fewest that can mix, two batches let a start stop half-way. A second callback
starts after an interruption while the first still runs; three utterances let one wait while the others deliver.

`CHECK_DEADLOCK FALSE` appears where the system may stop: all requests made and
settled, all tweets dealt with and nobody reacting.

## Fairness

- Breaker and adapter: time passes; a call that was started settles, as drivers
  have timeouts; callers keep calling, as the agents' clients poll for ever. Errors are under no fairness.
- Queue: a request settles and a pause ends. Nobody has to make a request.
- Approval: ticks start (setInterval), awaited calls settle. A status check succeeds
  infinitely often if it is attempted infinitely often (strong fairness; an
  error reads as PENDING, so a Discord that fails for ever would hold every tweet until it expires). The human, expiry, faults
  and the generation of tweets are under no fairness. Progress is checked with one tick at a time.

- Mentions: the timers of the poll and the restart fire, awaited calls settle (weak fairness of `Start`, `StartPoll` and of
  each poll's steps). `EveryMentionSeen` assumes that in the end the process stays up and neither search nor database fails; model
  and Twitter may go on failing. Mentions appear under no fairness.
- Voice: only `setTimeout` calls back (weak fairness of `Fire`). Transcription, answers and playback need never end, users
  need not stop speaking: `HeardOrDrowned` has that as a premise.
- The runs `cache` and `knowledge` check safety only.

## Proofs

`BreakerCalls_proof` proves, for every set of callers and every threshold, timeout and
number of probes satisfying `ConfigAssumption`, the type invariant, `CountDecidesState`,
`ProbesAreAnUnbrokenRun`, `Lifecycle`, `HalfOpenFailureReopens` and
`ClosesOnCleanRun`. The inductive invariant is the conjunction of the three state
invariants: that a half-open circuit has no failure budget is what makes any failure reopen it,
and that its count equals the run of successes is what turns the count's bound
into the claim about closing.

`RequestQueue_proof` proves type correctness, `OneLoop` and that every behaviour of the queue is one of
`SerialServer!Spec` under the mapping `line <- Line` (the request in flight, then the
queue). `OneLoop` is what makes the mapping a function of the state: with one active loop the `CHOOSE`
of `Line` has one candidate. `NoneLostOrRepeated` also needs that no request stands in the queue twice or both there and in
flight (`NoCopies`), so that taking the head out takes out all of it.

`TweetApproval_proof` proves type correctness, `OnlyApproved`, `NoneForgotten` and `PostedOnce` for any number of tweets
and of overlapping ticks, along four invariants.
- `ApprovalInv` follows a tweet through a tick: a late approval belongs to an expired tweet, a tweet whose reactions are
  being fetched was fresh when the tick came to it, so one about to be posted was approved in time. It says nothing of what the
  lists contain, which is why no stale write, fault or restart can break `OnlyApproved`.
- `ListInv`: the list in the cache, and those that the generator and the ticks hold, are of recorded tweets, each once
  (`Listing`). What the removal (`Without`) leaves of such a list is proved along the list: `Without` is a recursive function,
  and for a set S of numbers "0 is in S, and k + 1 is with k" is what `Induction` needs, as Nat is well founded.
- `WatchInv`: a tick removes only a tweet that is settled (`Settled`, `Finishing`), and without a stale write it removes from
  the list as it is. Hence `NoneForgotten`.
- `OnceInv`: undisturbed, one tick at most is at work, and a tweet that was tried is on no list, but for the one that the tick
  that tried it is about to clean (`TriedIsFirst`, `TriedIsFinishing`). So nobody comes to it again, and `PostedOnce` holds.

Two results need none of the history: in each step a tweet leaves the list only settled or by a stale write
(`OnlySettledLeave`), and a tick takes at most six steps for each tweet of the list it read (`TicksRunOut`, with `Left` for
variant), however the cached list changes meanwhile.

`TwitterInteractions_proof` proves `AnsweredOnce`, `NoSecondChance` and `NoneOverlooked` for any number of
mentions, polls and any threads. The invariants: a mention a poll answers has a memory, whose insertion precedes the answer;
without overlap only one poll is at work, so an answered mention is not in its list; candidates left are beyond what the poll
has handled, and a mention below a mark, or below a candidate, is in memory, in the list or passed by the search. A poll
runs out (`PollsRunOut`): a mention takes at most `Round` steps, as a thread goes on with earlier tweets only, and the loop goes
on to later mentions only, even where another poll moves the mark.

`KnowledgeIngest_proof` proves its four properties for any number of agents, contents and batches. `Whole`: a missing batch of
a document that was not cut is still to come from an agent that is storing it, and a cleanup that removes a single chunk marks its document. `Sole`: an undisturbed document has one agent
at work on it, because a removal clears the history only if nobody else is. `Content`: what that agent has seen of the document is
still so when it acts on it, and the rows so far are of its content with smaller batch numbers.

`VoiceManager_proof` proves type correctness and `FlagTells` for any users and callbacks: until an interruption the flag is up exactly while one
callback is in progress, as a busy agent starts no timer and a speaker clears the one there is. It also proves
the safety `HeardOrDrowned` rests on: whatever waits, neither taken nor drowned, has the timer, or its own user still
speaking (`NoneUnattended`), and it leaves the buffers in no other way than taken or drowned
(`NoneLostUntold`). Drowned is what another speaker, a busy agent, an interruption, or a start and stop without data took the timer or the buffers from. What carries both is that the one timer stands for the last user alone: everybody else's buffers have
drowned by then (`WaitInv`), so that the callbacks may clean them.

`CacheManager_proof` proves type correctness, `NeverStale`, `FreshKept` and `TornHasCause` for any calls and values and
each of the adapters. The invariant (`CacheInv`): no chunk the store holds is of a superseded value, whole or not, nor of one that had ended before
a write in progress (`FreshInv`); an undamaged file has at most one writer, and holds the prefix that one has written
(`FileInv`); of a value set alone, its call is the only change, and a get can sweep it only after its own
expiry (`AloneInv`).

`PostgresAdapter_proof` proves type correctness, `CountDecidesState` and `Lifecycle` of the breaker the calls share, `FailuresPerCall`, `QueriesPerCall` and
`ResolvedMeansStored` for any calls, thresholds and number of retries. The invariant bounds what a call has cost by the attempts it has made so far
(`Spent`, a full inner loop for each attempt of the outer one that is over), so that the last attempt meets the bound of
the whole call; a call that resolved has stored its memory (`StoredFits`).
A failure counted in either frame reopens a half-open circuit (`CountedFailureReopens`), and the nested loops run out: `Left`,
a variant, is at most MaxRetries * (MaxRetries + 4), each step of the call takes from it and no other step changes it
(`RetriesRunOut`). That is `CallsSettle` but for the fairness.

Only model-checked: all liveness (`Recovers`, `CallsSettle`, the fairness part of
`ServesInOrder`, `AnsweredLeaves`, `ApprovedIsTried`, `EveryMentionSeen`, `HeardOrDrowned`), which is out of the prover's
reach, and what the runs expecting a violation refute. Every other property of a passing run has a theorem.
`CountedFailureReopens`, `RetriesRunOut`, `NoneUnattended`, `NoneLostUntold`, `OnlySettledLeave`, `TicksRunOut` and
`PollsRunOut` are only proved: no run checks them.

## Findings

- `postgres_probes`: `halfOpenMaxAttempts` is documented as the "Number of successful attempts
  needed to close circuit" (`core/src/database.ts:45`). `createAccount` swallows its error inside the breaker's operation,
  so two failed calls count as two successes and close the circuit of a database that is still down.
- `approval_reply`: "Tweet has been posted successfully!" is sent, and the
  tweet dropped, also when posting failed (`client-twitter/src/post.ts`, handlePendingTweet and postTweet).
- `knowledge_restart`: `runtime.ts:622` says that loading "creates a document knowledge for each item if it doesn't exist, then
  chunks the content into fragments, embeds each fragment, and creates fragment knowledge". `processFile` stores the document
  first, and a later start skips a document that equals the file, so a restart in between leaves it without chunks for good.

## Not modelled

Prompts, model providers, parsing, logging, configuration, SQL text, the chain plugins and
the user interface. PostgreSQL's transactions (`setCache`, `createKnowledge`) count as one pool
query. `approval` leaves out generation itself and dry runs.

Target users of the mention poller, directories, strings and searches of the knowledge manager, joining and leaving voice
channels. Media services guard a loop like that of `RequestQueue` with a flag, which an exception leaves up; Telegram and Discord messages
are decided by prompts; whether a bounty is paid twice is decided by a contract that is not in the repository.

## Plan

Done: `CircuitBreaker`, `BreakerCalls`, `PostgresAdapter`, `SerialServer`, `RequestQueue`, `TweetApproval`, `CacheManager`,
`TwitterInteractions`, `KnowledgeIngest`, `VoiceManager`.

Next: the transcription queue of the media services, whose flag an exception leaves up; the search for target
users of the mention poller.
