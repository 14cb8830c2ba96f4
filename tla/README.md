# A verification of SmartOps Agent in TLA+

SmartOps Agent answers support questions with an LLM that may call tools and
reads a knowledge base, learns from 0/1 feedback which model and how much context
to use (an epsilon-greedy contextual bandit), and keeps a ledger of answered
queries, an audit trail, a job queue and a rate limiter around it. These modules
state what its stateful parts promise, model the code that keeps the promises,
check them with TLC and prove the safety ones with TLAPS. Paths below are relative
to `src/smartops/`.

## 1. Inventory

| Component | State | Operations | Interacts with |
|---|---|---|---|
| Transaction ledger, `services/transaction_store.py` | `_items` (score, reservation, creation time per transaction), a JSON file | `put`, `reserve_feedback`, `release_feedback_reservation`, `mark_feedback`, purge, load, save; each under one lock | called by the query service from worker threads |
| Contextual bandit, `rl/bandit.py`, `rl/rewards.py` | `_pending`, arm statistics, `total_updates`, epsilon; a JSON file; optionally one Redis key | `select_action`, `register_pending`, `apply_feedback`, `snapshot`, load, save, Redis reload/retry | query service; `/ready` and `/rl/state`; other instances through Redis |
| Audit trail, `services/audit_store.py` | a Postgres table or a JSONL file | `record` (falls back to the file), `close` | query service |
| Query service, `services/query_service.py`, `api/routes.py` | only the locals of running requests | `handle_query`, `handle_feedback` | all of the above, and the agent |
| Job queue, `services/job_queue.py` | `_jobs`, `_queue`, worker tasks | `start`, `stop`, `enqueue` (with eviction), `get`, the worker loop | `POST /query/async`; its handler is `handle_query` |
| Rate limiter, `core/middleware.py` | `_hits` per client; a sorted set in Redis | `_allow_memory`, `_allow_redis`, fallback | every request; other instances through Redis |
| Agent and LLM client, `agent/`, `llm/` | a trace and the calls seen, per run | `run`, `_parse_react`, `generate` with retries and fallback | retriever, tools, Ollama |
| Vector store, `rag/` | a Chroma collection, a fingerprint file | `ingest_directory`, `chunk_text`, `query` | startup, agent |
| Features, `rl/features.py` | none | a pure function | bandit |
| Auth, health, schemas, wiring, logging, metrics | none that matters here | checks and formatting | routes |

What is hard in it:

- **Interleaving.** `handle_query` and `handle_feedback` await a worker thread at
  every call on a store. Between reserving, learning, marking and auditing a
  feedback, other requests, purges and the clock get in.
- **Two stores, two files, no transaction.** Ledger and bandit are saved one
  after the other; the process may stop, or a save fail, in between.
- **Two clocks' worth of expiry.** The ledger's TTL has a floor of 60 s
  (`main.py:84`), the bandit's timeout one of 1 s; each store purges on its own
  calls, and some calls read the clock twice.
- **Redis shared without a working compare-and-set**, with retries whose first
  try may have been applied.
- **A bounded ledger of jobs** that must make room without dropping live jobs.
- **A limiter with two back ends** that measure the window differently.
- **An index rebuilt in many calls**, with its fingerprint in another file, while
  the directory may change and the process may stop.
- **A model that may reply anything**, or nothing, in a loop that must end.
- **Statistics that outlive the configuration**: the file keeps arms of models no
  longer configured.

What makes each component correct: a transaction is claimed by one feedback at a
time; it is learned from at most once and only in its window; a score in the
ledger is a score the policy absorbed, in memory and on disk; the audit trail
vouches only for what happened; a client in time is never told 404 or 410; jobs
are dropped only when finished and full, oldest first, and accepted jobs end;
no payload of the shared bandit ever counts a transaction twice; every arm's
statistics are those of its feedback; the limiter admits at most its limit per
window and never makes one client pay for another; the index served is the index
of the directory; an agent's run ends within its bounds and says who wrote it.

`PROJECT.json` lists the components and, under `hazards`, every place where this
can go wrong in a way that is hard to test, with the properties about it.

## 2. Modules

```
WallClock            time.time() in whole units
  Platform           + failing files and databases ("save", "load", "pg")
    TransactionStore   the ledger                      services/transaction_store.py
      ContextualBandit   the bandit with its file        rl/bandit.py, no Redis
    AuditStore         the audit trail                 services/audit_store.py
      QueryService       composes the three: requests as interleaved
                         coroutines, restarts            services/query_service.py, api/routes.py
        FeedbackProperties  what must hold; INSTANCE FeedbackContract
          MCQueryService          for TLC
          FeedbackProofs          types, reservations, learning, ledger and policy
            ServiceProofs         audit trail, contract, reservations, windows
  JobQueue           the job queue                     services/job_queue.py
    JobQueueProofs
  SlidingWindow      abstract: a limiter that forgets nothing
  RateLimiter        both windows, several instances;  core/middleware.py
                     INSTANCE SlidingWindow
    MCRateLimiter, RateLimiterProofs
FeedbackContract     abstract: what clients are promised of query and feedback
SharedBandit         the bandit of several instances over Redis   rl/bandit.py
  MCSharedBandit, SharedBanditProofs
BanditPolicy         statistics, rewards, epsilon, the choice     rl/bandit.py, rl/rewards.py
  MCBanditPolicy, BanditPolicyProofs
VectorIndex          the index over starts, edits and stops       rag/store.py
  MCVectorIndex        with Chunking for its chunks
    VectorIndexProofs
Chunking             chunk_text as a function                     rag/store.py
ReActAgent           one run of the agent over the client         agent/react.py, llm/client.py
  MCReActAgent, ReActAgentProofs
```

How state and actions correspond to the code:

- **TransactionStore.** `items` is `_items`, `txnFile` the file. A method runs
  under the store's lock and is one operator, its purge and its save included;
  `...Fails` is the same method when a write raises `OSError`, which leaves the
  change in memory and the old file in place (a save is a temporary file and a
  rename). `reserve_feedback` has one operator per result. It reads the clock
  twice; `ReserveExpired` lets the clock move in between, the only way its
  `"expired"` branch is reached.
- **ContextualBandit.** `pending` is `_pending`, `policy` the statistics,
  `banditFile` the file. An arm stands for a (context, action) pair. The sum of
  rewards is kept as `credit`, the score absorbed for each transaction, so that
  learning twice or learning the wrong score is visible; `pulls` and `total` are
  the counters of the code.
- **AuditStore.** Two sets of events. An `INSERT` that raises may have been
  committed: the event then is in both. The append may raise too, with Postgres
  behind an `INSERT` that raised (`InsertAndAppendFail`, two failures in one call) and
  without it at once: the client is told 500, and in the first case the row may be
  in the table.
- **QueryService.** `qpc` and `fpc` say where each request is, or how it was
  answered; `decision` and `claim` are its locals. A step is one awaited call.
  An exception of a store is a step to `"500"`, except for the `KeyError` and
  `ValueError` the code turns into 404, 409 and 410. `Restart` ends all requests
  and loads both files in the order of `build_state`; loading may fail the two
  ways the code swallows. The statuses of a query are `answered`, `failed`
  (the route's 500) and `lost` (the process stopped).
- **JobQueue.** One event loop: what lies between two awaits is one action. Jobs
  are numbered in the order of submission, which is the dict's order.
- **SharedBandit.** `mem` and `file` of each instance, `redis` the blob. An
  instance's lock makes a method exclusive in its instance; its GET and its EXEC
  are steps other instances get between. `watch` and `unwatch` are called on the
  client, where redis-py (5.2.1, `requirements.txt`) makes them no-ops. `up` says
  which instances are deployed. Expiry is a set of transactions that only grows,
  instead of a clock. `status` follows what the query service makes of each outcome.
- **BanditPolicy.** The values `ContextualBandit` abstracts: `arms` has the pulls
  and the summed rewards of each action of a context (every context and action has
  an entry, `Absent` until `_ensure_context` sets it up), `epsilon` is in parts of
  `Certain`, means are compared without dividing. One process, no Redis, no failing
  writes: those are the other two modules' subject. A restart may bring other
  models, and the file keeps the arms of the old ones, as `_ensure_context` does.
  `learned` is history: the decision and the score behind each reward.
- **RateLimiter.** A window in memory per instance and client, one sorted set per
  client, the requests with the reading of the clock they carry. **SlidingWindow** is
  what the window in memory stands for: it keeps every verdict for ever and counts
  the recent ones. The keys are pairs of an instance and a client, and the verdicts
  are those of the requests that memory decided.
- **VectorIndex.** `collection` and `stamp` are what outlives a process: the chunks
  and the content of `kb_fingerprint.txt`; a digest is the settings and the files
  it was computed from. A start digests the directory file by file, then either
  skips or deletes the collection, reads the files anew, adds them in batches and
  writes the stamp last; `Stop` may come anywhere and leave a torn stamp if it falls
  in the write. `Edit` may change a file at any moment. `edited` and `touched` are
  history: whether somebody edited under this start, and whether the stamp has been
  overtaken by a rebuild or by such an edit.
- **Chunking.** A text is the lengths of its paragraphs; a chunk is the span of
  characters it has. The loop over paragraphs and the windows over a long one are
  recursive functions.
- **ReActAgent.** One run, since runs share nothing. A reply of the model is what
  `_parse_react` makes of it: an action and an input, either of which may be
  missing. `tries` counts the failed posts of a generation, `results` has the calls
  made; `posts`, `authors` and `lastDecision`
  (the last text asked for in the loop, and who wrote it) are history. The fallback's rules are
  `FallbackReply`: they read the question only.

Operators marked "a slip to be caught" are not part of a model. They are
plausible bugs of single definitions; `PROJECT.json` pairs each with the property
that must, and does, find it.

## 3. What TLC checks

| Run | Bounds | Shows |
|---|---|---|
| `service_safety` | 2 queries, 2 feedbacks, 2 arms, 2 scores, ledger TTL 2, bandit timeout 1, clock to 3, 1 restart, 1 failure of each kind, Postgres | `TypeOK`, `ExclusiveFeedback`, `LearnedOnce`, `ScoresAreLearned`, `AuditTrail`, `AnsweredStaysScoreable`, `GoneOnlyAfterWindow`, `ReservationHasHolder`, `ConflictsAreReal` |
| `service_temporal` | 2 queries, 2 feedbacks, 1 arm, both timeouts 1, clock to 2, 1 restart, 1 failed write, no Postgres | refinement of `FeedbackContract` (`ImplementsContract`), `LearnsInWindow`, and under fairness `ReservationsResolve` |
| `job_queue` | 2 workers, 5 submissions, ledger of 4, half of it evicted, clock to 2 | `QueueMatchesLedger`, `LedgerBounded`, `RefusesOnlyLiveJobs`, `DropsOldestFinished`, `StatusMovesForward`, and under fairness `JobsEnd` |
| `shared_bandit` | 2 instances of which one or both are up, 2 transactions, 3 rounds, 4 failures, 1 restart | `PayloadsCoherent`, `ScoredIsBackedUp`, `AloneNothingIsLost`, `CasKeepsAlone` |
| `bandit_policy` | 3 queries, 2 contexts, 2 models, one `top_k`, latencies below and above the cap, epsilon from 4/8 halving to 1/8, 1 restart | `ArmsAreTheirFeedback`, `EpsilonFollowsUpdates`, `FailureIsLastResort` |
| `rate_limiter` | 2 instances with or without Redis, 2 clients, 3 requests, limit 1, window 3, delay 1, 1 failure, pruning above 1 window | `MemoryWithinLimit`, `RedisWithinLimit`, `RefusalsAreOwn`, refinement of `SlidingWindow` (`MemoryIsSlidingWindow`) |
| `vector_index` | 2 files, each absent or one of 2 texts, 2 chunk settings, batches of 2, 2 edits, 2 stops; for `ChunkTextIsFaithful` all texts of up to 3 paragraphs of 1 to 5 characters, sizes 1 to 3, overlaps 0 to 3 | `ChunkTextIsFaithful`, `StampVouches`, `ServesTheDirectory`, `ServesSomething`, and under fairness `IngestEnds` |
| `agent_run` | 3 hosts (one the fallback knows, one it does not, one it takes for another), 2 services, 3 steps, every question | `EffortBounded`, `CallsAreSound`, `FallbackReported`, `OfflineDoesAsAsked`, `FailsForAReason`, and under fairness `RunEnds` |

The service's type invariant is the only one a run lists; those of the other modules
are proved for every value of the constants (section 4).

Why the bounds are enough. Two queries and two feedbacks give every pairwise
overlap: two feedbacks on one transaction, and one on each with the purge of one
disturbing the other. The clock passes both timeouts and leaves a transaction
younger than the other; `service_safety` has a ledger that outlives the bandit's
decision (as with a timeout under 60 s), `service_temporal` one that does not. One
restart and one failure of each kind combine with every interleaving of the
requests; a second of a kind repeats the effect of the first, since a failed save
leaves memory ahead of the file no further than an unsaved change does. One call may
meet two kinds at once, an `INSERT` and the append behind it. Five jobs over a
ledger of four force an eviction with live and finished jobs in every mix; four
failures exhaust the three rounds of a method (five in the code) and fail its last
`SET` as well. Three queries let an arm be good, bad and untried next to another of the same context; the restart falls
between any two calls, with the models swapped, lost or gained. Three
requests with a limit of one fill a window, empty it by expiry or wrongly by
pruning, and fill it again; a thread may be one unit late in a window of three. Two
files give more chunks than a batch; two stops and two edits tear an index down,
come back to the settings of its old stamp and meet it. Three steps allow a call,
another, and the first again; paragraphs of up to five characters are longer than
two windows of a chunk of two.

Symmetry is used where no property singles out an element of a set and no
liveness is checked: transactions, feedbacks, arms and scores in `service_safety`,
instances and transactions in the shared bandit, transactions, contexts and models
in the policy, instances, clients and requests in the rate limiter. The runs that
check liveness use none.

**Fairness.** `Fairness` of `QueryService` is weak fairness of each request's next
step: the event loop and the thread pool run whatever has started, and every step
it may take has an outcome, a failure if nothing else. No fairness is assumed of
clients, the clock, restarts or failures. In `JobQueue` workers are weakly fair,
and so are handlers: the agent's run ends (`RunEnds`). `VectorIndex` assumes it of a
start, which is one thread, and not of edits or stops; `ReActAgent` of a run, whose
awaits return or raise, a post being under a timeout. `JobsEnd` and
`ReservationsResolve` say in their statements what ends the promise (a stop; a
restart or a failed write).

**Deadlock** is not checked: requests, runs and restarts are bounded, and a behaviour
in which all are used up has come to its end.

### Disagreements with the documentation

Each is a run that TLC finds violated, with the property quoting the text.

| Run | What the code does |
|---|---|
| `conflict_after_restart` | A reservation is written to the ledger's file and survives a stop; all later feedback gets 409 "already scored", though nothing was. |
| `cas_overwrites` | The "Redis CAS" never watches the key on the connection that executes: the EXEC of one instance overwrites an update another committed since its GET. |
| `half_index_served` | A re-ingest cut short leaves the fingerprint of the index it was replacing: back at those settings, the next start skips and serves the half-filled collection of the others. |
| `forgotten_input` | A reply that ends after `Action Input:` makes `_parse_react` raise `IndexError`: the query fails although the model answered in the format asked for. |

Each of these texts is true of a part of the behaviours, and that part is proved
(section 4): conflicts are real until something fails or the process is stopped
(`ConflictsAreTrue`), an instance deployed alone needs no compare-and-set
(`AloneOverwritesNothing`), the index is that of the directory if no stop falls in a
rebuild and no edit in a start (`OrderlyIndexIsCurrent`), and the parser fails no run
of a model that never leaves an input blank (`ReadableRepliesSuffice`).

Three more outcomes follow from the models and are worth knowing, though no run is
spent on them: a record purged by another request between learning and marking
gives 404 "unknown" for a feedback that was learned; `reserve_feedback` purges
first, so late feedback is 404 and not the documented 410 unless the clock moves
inside the call; and an EXEC whose reply was lost is retried from a payload that has
learned already, which ends in 410 for a feedback that counts.

## 4. What is proved

For arbitrary sets and bounds, from the assumptions the modules state next to
their constants (bounds are natural numbers, sets that are counted are finite,
`MinTtl` is at least 1, and the values for "none" are not among the others).

**Query and feedback service**

- **`TypeCorrect`** (`FeedbackProofs`). `TypeOK` is not inductive: a step
  uses the request's locals as a transaction, an arm, a score. `TypeInv` adds
  `LocalsBound`, that the locals of a started request are bound.
- **`Exclusive`**: two holders of one transaction are excluded
  because a reservation needs an unreserved record and the holder keeps it reserved.
  What must be added is what happens when the holder's record is gone: it was purged,
  and nothing may put it again. `ClaimsAnswered` says why: a feedback is about an
  answered query, and a query puts its record once, before its answer.
- **`LearnsOnceInWindow`**, **`LearnsOnce`**, **`LedgerAgreesWithPolicy`**.
  `CoherentInv` adds to `ExclusiveInv` that a bandit, in memory and in its file,
  has learned only from answered queries, holds no decision it has learned from,
  and holds for each transaction the decision its query made; it gives the action
  property `LearnsInWindow`. `TallyInv` adds that the counters are the
  cardinalities of what was learned. `ScoresInv` adds `DurableInv`: memory has all the
  file has learned, a request past `apply_feedback` finds its score in the file, and
  every score in the ledger is one in the file.
- **`TrailIsTrue`** (`ServiceProofs`), from three invariants over `ScoresInv`.
  `EventsInv` says which events there are: a 200 has its event, and a feedback with an
  event was answered 200, or 500 where `INSERT` and append both failed around a
  committed row. Hence `SettledInv` is about every feedback that was marked or
  audited, and not only about those acknowledged: its record is scored or gone, in
  memory and in the file, so that no other feedback comes as far. `VouchedInv` keeps
  the score of an audited feedback in the bandit's file: a step of
  `FeedbackContract` unlearns nothing, so nor does a step of the service while no
  load has failed.
- **`ServiceMeetsContract`**: every step of `QueryService` is a step of
  `FeedbackContract` or changes nothing a client sees. It assumes
  `"load" \notin FaultKinds`: an unreadable state file makes the policy forget.
- **`ReservationsAreHeld`** and **`ConflictsAreTrue`**, from `HolderInv`: while nothing
  failed and nobody stopped the process, whoever reserved a record still holds it. A
  409 then has a reservation or a score behind it, or comes at the request's own mark,
  after it learned.
- **`AnswersStayScoreable`**, **`OnlyTheLateAreTurnedAway`**. Both rest on `WindowFacts`: without failures the ledger and the policy
  agree with their files, and a record or a decision lasts as long as its window.

**Job queue** (`JobQueueProofs`): `QueueTypeCorrect`, `NeverDriftsApart`,
`LedgerStaysBounded`, `RefusedOnlyWhenBusy`, `OldestGoFirst`, `JobsMoveForward`. That
an eviction makes room needs an argument about ranks: among finished jobs one has
nobody older before it (`FirstInLine`), so that the quota, at least 1, drops it. That
it drops the oldest is the transitivity of the order.

**Rate limiter** (`RateLimiterProofs`): `SharedLimitHolds`, from `HitsRemembered`: an
admission younger than the window less the delay has its hit in the sorted set.
`MemoryLimitHolds`, `RefusedForOwnRequests` and `LimiterTypeCorrect`, from
`MemoryInv`: from any moment a window still covers, it has exactly as many hits as
there were admissions (`Tracks`), which popping and pruning keep; and every hit in
Redis is that of a request that has come (`HitsAreOwn`). `MemoryLimiterIsIdeal` is the
refinement of `SlidingWindow`: after pruning and popping, the length of a window is
the number of verdicts the ideal one remembers (`DecisionTracks`, `IdealRecent`), so
that every decision out of memory is the step `Answer` and every other step but the
clock's is none.

**Shared bandit** (`SharedBanditProofs`): `NeverCountedTwice` and
`SharedTypeCorrect`. Registering may add t to a payload's decisions only if the
payload has not learned from t; that holds since feedback waits for the answer
(`Sound`), and since one instance at a time is at a transaction (`Owned`), so
that nothing else moves its status meanwhile. `AcknowledgedIsBackedUp` and
`AloneNothingLost` add `KeptInv`: the memory about to be written has learned what
the method came for, and every round of the loop was paid for by a failure. `AloneOverwritesNothing` adds
`MemoryAhead`: who is alone and about to EXEC has learned all that Redis has, since
nobody but itself writes there and the lock keeps its other methods out.

**Bandit policy** (`BanditPolicyProofs`): `PolicyTypeCorrect`, `PolicyIsItsFeedback`,
`PolicyExploresLess`, `GreedyAvoidsFailures`, from `PolicyInv`, which adds that a
pending decision, in memory or in the file, is one nobody has learned from yet: a
lesson is then added to its arm once. That a lesson changes the sum of its arm alone,
and by its reward, needs the sum over a set for every set; it is shown on the smallest
set that would fail. Epsilon after n updates likewise, on the least n. That failures
are the last resort is arithmetic on sums: an arm that only failed has a negative
mean, one that helped or is untried has none. `GreedyAvoidsFailures` therefore assumes
a cap on the latency of 1 to 10 (the code's default is 10) and that no answer takes no
time.

**Vector index** (`VectorIndexProofs`): `StampsVouch`, `ServesWhatIsThere`,
`NeverServesNothing`, from what a rebuild has gathered (`Gathered`: what was digested
and read is the directory, as long as nobody edits it) and where it stands
(`Standing`: the collection is emptied first and holds the first documents since).
`Chunks` is any operator. `OrderlyIndexIsCurrent` restricts the steps
(`[][Orderly]_vars`): no stop falls in a rebuild, and no edit in a start. Then a stamp
that has been overtaken has an empty collection beside it whenever nobody rebuilds
(`OrderlyInv`), and no start serves anything but the directory's chunks.

`ChunkTextFaithful` is about `chunk_text` for every text, size and overlap, and
`ChunkTextKeepsItsPromises` applies it to what the run evaluates. `Good` says that a
sequence of chunks is faithful to a range of paragraphs; it holds of a chunk of whole
paragraphs (`GoodSpan`), of the windows over a long one (`GoodWindows`) and of two
good sequences one after the other (`GoodJoin`). `LoopInv` is the invariant of the
loop over paragraphs: what is done is good up to the chunk that is still growing.
Both loops are recursive functions, and the inductions are on the least number that
fails, since well-foundedness of the naturals (`WFMin`) can be cited where the
theorems of induction cannot.

**Agent** (`ReActAgentProofs`): `EffortIsBounded`, `CallsStaySound`,
`FallbackIsReported`, `OfflineRunsDoAsAsked`, `FailuresHaveReasons`. `Effort` counts what
a generation may still cost at each phase, `Origin` who may have written,
`Offline` where a run without a model stands before its second step.
`ReadableRepliesSuffice` restricts the steps to replies with no blank input; what it
has to show is that the fallback's own replies never are. `FailuresHaveReasons` needs
the same of the parser's side: `lastDecision` is the text just read, so a failure
with no failed post behind it is one of a text with a blank input, and that text is
the model's. `OfflineRunsDoAsAsked` speaks of the host the fallback's pattern finds in
the question (`FallbackFinds`, any function), not of the one the question names.

**Only model-checked.** The liveness properties (`ReservationsResolve`, `JobsEnd`,
`IngestEnds`, `RunEnds`): they rest on fairness, out of the proof system's reach.
Every other property of a passing run is stated by a theorem.

## 5. What is not modelled, and what abstraction costs

- In `QueryService` any arm may be chosen and the agent's run is one step that
  answers or raises; `BanditPolicy` and `ReActAgent` open those steps by themselves.
  Nothing checked of the service depends on which arm it is.
- The greedy choice ranges over all arms of a context that the state has, those
  of models no longer configured included. That is what the code does; the models
  keep it and no property forbids it.
- Texts: queries, answers, prompts, features. They decide control flow in one place,
  the parser and the fallback, where a reply and a question are reduced to what is read
  of them. The regular expressions themselves are not modelled.
- The streaming and embedding calls of the client, the tools' own texts, and
  `query` of the vector store and the retriever, which only read.
- Feature extraction is keyword matching on strings; a context is a constant.
- Rewards are integers (ten for a helpful answer, less capped whole seconds) and
  epsilon is in parts of a whole: rounding of floats is not modelled.
- Audit events are a set: a duplicated row is not told from a single one.
- A worker thread cut short by a stop counts as not having run: a save either
  replaced the file or did not, and a purge it may have saved is repeated on load.
- An unreadable state file resets a store, as in the code; the properties about
  what is learned say that they end there.
- Distinct directories and settings are taken to have distinct digests.
- Files damaged other than by the program; authentication, which checks a header
  and a signed token and keeps no state; configuration, logging, metrics,
  telemetry, which nothing reads back; Docker and CI.

## 6. Plan

Done, in this order: the ledger, the bandit and the audit trail; their composition
with its contract; the type and feedback proofs; the job queue; the shared bandit;
the rate limiter; the vector index and chunking; the agent; the bandit's values;
the proofs of all of them; the ideal sliding window.

What would add most next:

1. `JobQueue` composed with `QueryService`: a stop cancels a worker inside
   `handle_query`, and what a poll says of the job against what the ledger of
   transactions holds.
2. `BanditPolicy` over Redis: means of arms whose update was overwritten.
3. The step from "never twice" to "once": what of `ReservationsResolve` and `JobsEnd`
   can be said as safety, by a measure that every step of a request or a job lowers.
4. An abstract policy for `SharedBandit`, the set of transactions learned from, and the
   restriction of the steps under which several instances implement it.

## 7. Running

    tlc -config ServiceSafety.cfg MCQueryService
    tlapm FeedbackProofs.tla

`PROJECT.json` names the module and the configuration of every run, and the lines
of source each definition models.
