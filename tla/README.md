# NeuronLM: verification project

TLA+ models, model-checking runs and machine-checked proofs for the NeuronLM
server (`src/src/neuronlm`), a FastAPI process that serves an OpenAI-compatible
chat and embedding API with in-memory services. Paths below are relative to the
repository.

## 1. Inventory of the system

One process, one asyncio event loop. All state is in module-level singletons and
is lost on restart. Coroutines interleave only at awaits: between the middleware
layers (`BaseHTTPMiddleware.call_next` runs the inner application in a task of its
own), at `asyncio.sleep` inside `InferenceEngine.complete`, and between the chunks
of `stream_complete`.

| Component | State | Operations | What makes it hard |
|---|---|---|---|
| Rate limiter `core/rate_limiter.py` | a token bucket per key: capacity, tokens, last_refill | `check`, `remaining`, `retry_after`, `reset` | every answer is about the future; some reads refill and one does not; limits apply at bucket creation |
| Usage tracker `services/usage_tracker.py` | list of records, totals per user and UTC day | `record_usage`, `get_daily_usage`, `check_quota`, `get_user_records` | totals are kept beside the records, midnight, paging while records arrive |
| Inference engine `services/inference_engine.py` | model registry; suspended coroutines and generators | `register_model`, `list_models`, `complete`, `stream_complete`, `generate_embedding` | validated before an await and used after it; a lazy generator whose errors come after the status |
| Middleware and application `api/middleware.py`, `main.py` | per request: `request.state` | logging, authentication, rate limit, stamping headers, `/health`, `/ready`, the global exception handler | order of the stack, exceptions that skip layers |
| Inference routes `api/routes.py` | none of their own | chat (streamed or not), embeddings, models, usage | which failures become which status; billing exactly what was served |
| Conversation store and routes `services/conversation.py`, `api/conversations.py` | conversations and their messages | create, get, list, delete, add and get messages | ownership, counters kept beside lists, a creation that fails half-way |
| Authentication `core/auth.py` | keys by hash, token secret | generate, validate, deactivate key; issue and verify token; `authenticate` | revocation while requests are in flight, restart |
| Tokenizer `core/tokenizer.py` | none | counting, encoding, `truncate_messages` | budget arithmetic with protected messages |
| Moderation `core/moderation.py` | none (compiled patterns) | `check_input`, `check_output` | data only |
| Schemas, exceptions, settings | none | validation | data only |

Interactions: a request passes logging, authentication, rate limiting and CORS
(outermost first: `main.py` adds them in reverse), then a handler, which calls the
moderator, the engine and the usage tracker. On the way out the rate-limit
middleware reads the bucket again to stamp `X-RateLimit-Remaining`.

What makes each component correct:

- limiter: no key gets more than one bucket plus what accrues; a reported
  remainder can be spent; a client that obeys Retry-After is let in; and when a
  bucket is refilled makes no difference to anybody;
- usage: totals equal the records, past days never change, a quota that is
  exhausted stays so until midnight, paging loses no record;
- pipeline: a request is billed exactly when it was served a completion that is not
  streamed or an embedding, and for what it was told, every handled request has paid, the engine keeps no call nobody waits for,
  and every request ends;
- access: a credential that was refused stays refused, also after a restart; a
  restart gives nobody more than one more bucket; a deactivated key comes to rest;
- conversations: the two dictionaries describe the same conversations, a title is
  the one asked for or the first user message's, a system prompt that was accepted
  stays first, paging misses no more than was deleted;
- text: stream and reply say the same, a stop sequence stops, a completion that
  `max_tokens` cut says so, and the numbers the pipeline works with include those of
  the texts;
- truncation: what is kept is the longest recent part that fits, and what was
  forgotten stays so.

## 2. Modules

| Module | Role |
|---|---|
| `Dict` | Python dict assignment, `pop` and `get` on functions |
| `Order` | Python's lists: `list.sort` by an order without ties, given as a set of pairs, and a comprehension that filters |
| `RateLimiter` | buckets and the limiter's operations (actions `Allow`, `Deny`, `ReadRemaining`, `Reset`, `Tick`) |
| `Throttle` | abstract specification: a credit per key that grows with every tick |
| `RateLimiterHistory` | the limiter with what callers remember of its answers; its specification, its properties, and the mapping to `Throttle` |
| `UsageTracker` | records and totals (`RecordUsage`, `ClockTick`, reads as operators) |
| `UsageHistory` | callers that record, and one that pages; specification and properties |
| `InferenceEngine` | registry and suspended calls (`RegisterModel`, `StartComplete`, `EndCall`, `OpenStream`, `Pull...`) |
| `MeteredService` | abstract specification: a service that answers and bills in one step |
| `RequestPipeline` | the application: `RateLimiter`, `UsageTracker` and `InferenceEngine` composed under the middleware stack and the handlers; the mapping to `MeteredService` |
| `AuthService` | keys, tokens, `authenticate`, a restart's effect on them |
| `AccessControl` | `RateLimiter` and `AuthService` composed: issuing, revoking, requests through both middlewares, restarts |
| `ConversationStore` | conversations and their messages, every operation of the store |
| `ConversationHistory` | the routes at work, and a client that pages; specification and properties |
| `ResponseText` | the text of a reply and of its stream; instantiates `InferenceEngine` to compare the counts |
| `MessageTruncation` | `truncate_messages` on a growing conversation |
| `DataLemmas` | induction, sums over finite sets, sorting and filtering, for any data |
| `ServiceLemmas` | what one bucket and the tracker do, stated once for every module that uses them |
| `RateLimiterProofs`, `UsageProofs`, `PipelineProofs`, `AccessProofs`, `ConversationProofs` | theorems about the component of that name |
| `TextProofs` | theorems about `ResponseText` and `MessageTruncation` |
| `MC...` | constants for TLC |

The component modules hold state and actions only; each action is a whole
operation of the service. They are composed by extension, so that the pipeline's
variables are the components' variables plus `reqs`. Operators whose comment says
`Mutant` are plausible wrong versions of the definition that follows them; no
specification uses them, they serve to show that each checked property notices.

### Correspondence

- `buckets[k]` is `_buckets[key]`. Tokens are floats refilled at `limit / 60.0` per
  second in the code; in the model one token is `Minute` units and a tick refills
  `capacity` units, so arithmetic is exact. `Level(b)` is what `_refill` would leave
  now; `Take` is a successful `consume`, `Refill` a failed one or a read of
  `remaining`. `Missing` reads `tokens` without refilling, as `retry_after` does.
- `records` is `_records`, `daily_totals` is `_daily_totals` keyed by user and day.
  `clock` may stand still between records, so records can tie in `created_at`;
  `NewestFirst` is Python's stable reversed sort: `Newer` orders ties as they were
  made, which leaves one arrangement for `InOrder` to choose.
- `calls[c]` is a coroutine or generator in flight. `complete` is split at its
  await: `StartComplete`, then `EndCall`. A stream is pulled chunk by chunk;
  its first pull validates the model.
- `RequestPipeline.reqs[r]` is one request. Each action is the stretch of code
  between two awaits: `Authenticate`, `Limit`, the handlers (`Reject`, `StartChat`,
  `FinishChat`, `StartStream`, `Embed`, `Read`), `Stamp` (after `call_next`
  returns), `Pull`. An uncaught exception (`Embed`) goes to the global handler and
  is never stamped. Public paths skip authentication, limit and stamp, and so does any
  OPTIONS request (`middleware.py:66,98`), which reaches no handler: the CORS library
  answers a preflight with 200 or 400, the router anything else with 404 or 405.
- Under the mapping to `MeteredService`, `served` is what the clients were told
  (`Responses`: the requests answered 200 with a completion or an embedding, and the
  tokens those reported; a stream reports none and is not among them) and `usage` what the tracker's daily totals add up to (`Usage`).
  A step that answers maps to `Serve`, every other one to a stutter, a midnight included.
- `Stamp` precedes the first `Pull` of a stream. In the program the two may also
  happen the other way round; they touch different variables and commute, so no
  other order reaches a state that differs in anything but the phase.
- `AccessControl.reqs[r]` is a connection that carries one request after another.
  Its `Authenticate` reads the key store and the secret, its `Limit` is the
  limiter's, on the bucket of the user; the handler is one step, because what it
  does is the pipeline's subject. `issued`, `boots` and `admitted` are history.
  `Restart` is a new process: connections, buckets and keys are gone, and the
  signing secret is drawn anew unless it is configured (`SecretConfigured`). One
  clock serves for monotonic and wall time.
- `conversations` and `messages` are the two dictionaries of the store; ids stand
  for `uuid4()`. A text is told apart only by what the code can tell: empty, the
  placeholder title, one that the encoder refuses (it contains a special token),
  one longer than a title, one longer than a `ChatMessage` may be, any other. The conversation handlers do not await, so
  each is one step. `CreateConversation` with a refused prompt leaves the
  conversation behind, as the code does.
- `ResponseText` has the encoder as a parameter, `TokenStarts`, and keeps everything
  the code does with the result. `EncoderAssumption` says three things of it: no token
  is empty; every space starts a token; cutting a canned reply at a token leaves a text
  whose tokens are those before the cut. They hold of tiktoken's `cl100k_base` on the
  replies of `_generate_response_text`, which are ASCII words and punctuation between
  single spaces: its pattern begins a piece at each such space and nowhere puts a space
  inside one, and within a piece the first tokens of a byte-pair encoding are the
  encoding of what they spell, because no merge crosses the end of a token (this takes
  every entry of the vocabulary to be reachable by merging). Of a text that a stop sequence has cut inside a token
  nothing is assumed but that its tokens are not empty and that spaces start one: it is
  encoded anew, and may count more tokens than before, even more than `max_tokens`.
  `CountsAsInEngine` shows that the numbers of tokens and chunks `InferenceEngine`
  chooses from include those of the reply under any such encoder. That is a statement
  about the two models; that tiktoken satisfies the assumption is argued here and not
  checked.
- `MessageTruncation` keeps roles and sizes; a number tells messages apart, as their
  places do in the code. `Visit` is one turn of the loop over the removable messages, and
  `open` says that its `break` has not been reached. Nothing under `src/src/neuronlm`
  calls `truncate_messages`; its tests do.

Abstractions: in the pipeline prompts and replies are token counts; a reply without stop sequences has the tokens of the canned text up to
`max_tokens`, one with stop sequences any number of tokens up to its number of
characters (`ReplyLength`); a body is
well formed, malformed, flagged by the moderator, or refused by the encoder; status
codes are kept, error texts are not. The monotonic clock and the calendar clock
advance independently there. Limits are positive (settings do not enforce it). The
calendar clock does not go back. Hashes and random keys do not collide.

## 3. Runs

| Run | Question | Result |
|---|---|---|
| `limiter_history` | is each answer of the limiter compatible with what it does later, and is it a `Throttle`? | holds |
| `usage_history` | do totals, records, quota and pages agree over time? | holds |
| `pipeline` | two concurrent requests, every kind of input, two users, model changes: are billing, budget and engine calls right, is it a `MeteredService`, and does every request end? | holds, the last under fairness |
| `access` | do revocation, expiry and restarts keep credentials and budgets right? | holds, the settling of a revocation under fairness |
| `conversations` | do counts, titles, prompts and pages stay right whatever is refused, written and deleted? | holds |
| `response_text` | do stop sequences, limits, `finish_reason` and streams do what a reference says? | holds |
| `message_truncation` | does truncation keep what a reference keeps, and never recall? | holds |
| `streams_unbilled` | are streamed completions recorded? | violated |
| `stream_unknown_model` | is an unknown model a 404 when streamed? | violated |
| `stop_empties_reply` | do stop sequences leave a valid response? | violated |
| `history_unusable` | can the history of a conversation always be used? | violated |
| `last_user_dropped` | does truncation keep the last user message? | violated |

The violated runs are disagreements between the documents (or a docstring) and the
code, quoted in `PROJECT.json`. Others are visible in one definition and have no run:

- the final chunk of a stream says `finish_reason` "stop" whatever the reply is, also
  when `max_tokens` cut it (`inference_engine.py:323`; `StreamFinishReason`,
  `PullFinish`). `CompletionReportsCut` is about completions that are not streamed;
- a completion says "length" whenever its text counts `max_tokens` or more, which also
  happens to a text that was exactly that long, and to one that a stop sequence cut
  inside a token (`inference_engine.py:235`; `FinishReason`); such a reply may also
  report, and be billed for, more tokens than `max_tokens`;
- Retry-After asks for a whole second too much when the wait is a whole number of
  seconds, because a second is added to what was truncated (`middleware.py:123`;
  `RetryAfterHonoured` says "at most a second");
- `retry_after` does not refill, so alone it can report a wait for a token that is
  already there (`rate_limiter.py:45`); the middleware reads `remaining` first;
- `create_embedding` does not catch `ModelNotReadyError`, a 500 where the chat route
  answers 503 (`routes.py:190`; `Embed`);
- `/ready` answers 200 while the only model is loading (`main.py:72`; `Read`);
- a body that fails its schema is a 422, where `docs/04_specification.md:170` says 400
  (`Reject`);
- the limit is per user, where the docstring of the middleware says per key
  (`middleware.py:94`; `AccessControl!Limit`);
- keys do not survive a restart, against `docs/03_requirements.md:136`;
- a message longer than 100,000 characters is accepted by `add_message` and makes
  `get_chat_messages` raise, like an empty one (`schemas.py:40`; `ChatMessagesRaise`);
- a conversation whose system prompt is refused is answered 500 and yet stored,
  without the prompt (`conversation.py:52`; `PromptKept` is stated of creations that
  succeeded);
- `get_messages(limit=0)` returns everything, and a negative limit drops from the
  front (`conversation.py:139`);
- only the first listed stop sequence that occurs is applied, so an earlier
  occurrence of a later listed one stays (`inference_engine.py:195`; `StopTakesEffect`
  says what holds);
- protected messages alone may exceed the budget (`tokenizer.py:88`;
  `FitsWhenProtectedFit` says what holds).

Bounds.

- `limiter_history`: one key (buckets of different keys do not interact; two
  users meet in `pipeline`), default limit 2 with overrides 1 and 3, so that the
  rounding of Retry-After is exact for one capacity and inexact for the others;
  checks for 1 and 2 tokens; a minute of 7 ticks and a second of 2, so that seconds
  do not divide a minute; 13 ticks, almost two minutes, so that buckets drain, fill
  to the cap and drain again.
- `usage_history`: two users, two days of two clock readings, three records, pages
  of one record: ties, a midnight between any two records, and insertions between
  any two pages.
- `pipeline`: a limit of one request per minute and one tick that refills it, so
  that refusal and recovery both happen (partial refills are the limiter's runs); a
  reply of two tokens and three characters against `max_tokens` 2 with and without stop
  sequences, so that a reply may be empty, shorter, whole, or more tokens than the limit; a model
  that loads and returns; one midnight. What it checks for two requests is proved for
  any number of them, except `EveryRequestEnds`.
- `access`: two connections, a user with one key and tokens of every tick, so that
  key and tokens share a bucket; a minute of two ticks, two ticks, tokens that live
  one, one restart, a secret that is not configured. The two safety properties are
  proved for any values, a configured secret included.
- `conversations`: two conversations of two users, two messages each; a title
  that is absent or too long, a prompt that is absent, refused or accepted, a message
  that is the placeholder, refused or too long for a title; one tick of the clock and
  pages of one: a deletion, a creation and an update can each fall between two pages. All
  of it is proved for any number of conversations and any page size.
- `response_text`: every text of up to five characters over two letters and a space,
  an encoder that takes the longest token that comes next, from a vocabulary with one
  token of three characters, so that a cut inside it leaves two; limits 1, 2 and 4,
  every list of up to two of four stop sequences, which overlap themselves, each other
  and the space between words, or are empty. A run ends when the stream does, so
  deadlock is not checked. All four properties are proved for texts of any length over
  any alphabet, and any encoder within the assumption.
- `message_truncation`: conversations of up to four messages of two sizes and three
  roles, budgets from none to almost all. A run ends with the last message, so
  deadlock is not checked. All three properties are proved for messages of any sizes,
  any number of them and any budget.

`MaxTime`, `MaxClock`, `MaxRecords`, `MaxBoots`, `MaxConversations` and `MaxMessages`
cap the clocks, the ledger, the restarts and the store.

Fairness. `RequestPipeline!FairSpec` and `AccessControl!FairSpec` ask weak fairness of
each request's server steps: the event loop runs every ready task. In the pipeline
that includes `Pull`: a client that is sent a chunk reads it or is noticed to be gone.
Nothing is assumed of arrivals, disconnects, operators, clocks, restarts or model
changes.

## 4. Proofs

Each theorem holds for every value of the constants that the named `ASSUME`s allow.

`RateLimiterProofs`: `TypeCorrect`, `AdmissionBounded`, `PromisesHonoured`,
`RetryAfterRight`, `LazyRefillIsEager`. `TypeOK` is inductive. The others are not,
because they speak of the level that a bucket would have now while the state stores
the level at the last refill:

- `AdmissionInv` counts what the bucket still holds as if it had been spent. A grant
  moves tokens from one side to the other, a refill changes nothing, a tick adds at
  most `capacity` to both sides, and a bucket is created full only for a key that
  was granted nothing (`spent = 0`).
- `PromiseHonoured` is preserved because a refill keeps the level (`RefillFacts`),
  time only raises it (`LevelTick`), and a grant lowers promise and level alike.
- `AdviceInv` says that the advised moment is `Due`: on the line through the stored
  tokens with slope `capacity`, the first token is complete by then and no more
  than a second before. `RefillKeepsDue` shows that refills stay on or, when capped, below
  that line; `HeaderDue` is the arithmetic of `int(...) + 1`.
- `LazyRefillIsEager`: under the mapping of a bucket to its capacity and level, the
  initial state is `Throttle`'s, a granted or refused check is `Spend` or `Refuse`, a
  read is a stutter, `Reset` is `Forget`, and a tick is `Accrue`.

`DataLemmas`. The provers do not take an operator as a parameter, so induction over
the naturals and over the subsets of a finite set is stated with a set in the place of
the predicate, and proved from the library's theorem that `<` is well founded. Sums
(`SumFunctionOnSet`), filtered lists (`Filter`), joined sequences (`FlattenSeq`) and the
loop of `KeptOf`, these two in `TextProofs`, are recursive functions, which TLA+ defines
as any function that satisfies an equation: that one exists is proved by induction
(`SumsExist`, `FiltersExist`, `JoinsExist`, `LoopsExist`), not assumed. Of sums it shows that the order of adding does not matter, and what one more element or a
changed one does. Of sorting it shows that a finite strict order has a listing in order
(`ListingExists`), and that in any such listing an element's place is the number of
elements ahead of it, its `Rank` (`InOrderFacts`). Of filtering it shows that it goes into
the parts of a list (`FilterConcat`), depends only on what is in the list
(`FilterAgrees`), and leaves what passes and nothing else (`FilterRange`).

`UsageProofs`: `UsageTypeCorrect`, `ClosedDaysStayFrozen`, `QuotaStaysLatched`, from
the inductive `TrackerOK` (types, and no total or record of a future day), which
`ServiceLemmas` states with the sets of ids, users and models as parameters so that the
pipeline uses it too. `TotalsAreSums` is inductive: a record adds one element to the
set that one total sums over, and to no other. `PagingIsComplete` needs `PagingInv`:
while a client reads, a record it is owed and has not seen has a rank no less than the
offset (`StillAhead`). Records are only ever added and their order never changes, so
ranks never fall, and a page contains all ranks from its offset up to the next; a page
that comes back short was the last.

`PipelineProofs`: `PipelineTypeCorrect`, `CallsAreOwned`, `LedgerIsExact`,
`BudgetsHold`, `UsageIsWhatWasServed`, `PipelineIsMetered`, for any finite set
of requests. `PipelineInv` joins what the services keep true of their own state with
where each request stands:
`ReqsOK` (a phase determines what is known of a request), `LimiterOK`, `TrackerOK`,
`EngineOK`, `CallsMatchRequests`, `LedgerExact`. There is a lemma per action; each
writes one request, so what remains to be shown is about that request and about the
variables it shares. That a bill is the first of its request follows from
`LedgerExact` itself: a request that has no status yet has no bill. `BudgetsHold` is
the limiter's argument over: `Limit` moves one token from the level to the set of
handled requests, whose cardinality grows by one, and ticks add to both sides.
`PipelineIsMetered` uses `LedgerExact` on both sides of a step: an exact ledger
determines which requests were answered and for what (`SameBills`), so a step that
records nothing answers nothing, and one that records a request answers that request and
no other (`AnswerRecorded`), adds its tokens to one term of one user's sum
(`RecordedUsage`), and a midnight adds a term that is zero (`TickUsage`).
`UsageIsWhatWasServed` is then a property of those steps (`MeterAddsUp`).

`AccessProofs`: `AccessTypeCorrect`, `RestartsKeepBudget`, `RefusedForGood`. The
invariant adds `Provenance` (keys in the store were issued, and tokens were signed
with this or an earlier secret, so that a new secret cannot revive one) and an
`Account` per user: what it was let in plus the level of its bucket is covered by one
full bucket per process, the present one only once it has given the user a bucket.

`ConversationProofs`: `ConversationsTypeCorrect`, `IndexesStayInStep`,
`TitlesComeFirst`, `PromptsAreKept`, which are inductive together. `Coherent` states
them of one conversation and its list, and what `add_message` does is a lemma about
these two alone. `ListingsMissOnlyDeletions` needs `ListingInv`: the conversations a
client was to find and that have slipped behind its offset unseen are no more than the
deletions since it began. A creation or an added message moves one conversation to the
front of others and lowers nobody's rank; a deletion lowers ranks by at most one, and
since ranks are distinct at most one conversation crosses the offset.

`TextProofs`, of replies: `StreamsJoinToReplies`, `RepliesEndAtTheirStop`, `CutsAreReported`,
`EngineCountsReplies`. The request does not change while its stream is sent (`Asked`), so
three of them are about the text alone: truncation leaves a text as it is or exactly
`max_tokens` tokens of it (`TruncationFacts`; the token to cut at exists because the
starts of tokens, in order, have ranks 0, 1, 2...), `FirstIn` is the least occurrence,
and an occurrence that ends before the cut would be an earlier one (`StopCuts`). A word
other than the first starts right after a space, which makes `i - 1` an injection of
words into tokens. Nothing else is needed of how the rest of a cut token is encoded: its
tokens are not empty, so there are no more of them than characters. For streams the invariant `Sent` says which chunks were sent, and that all were when the final one is;
by induction over them, what they join to ends where the last of their words does
(`ChunksJoin`), because a chunk begins with the space that ended the word before
(`ChunkFacts`).

`TextProofs`, of truncation: `LongestRecentPartKept`, `TruncationFits`,
`NothingRecalled`. The invariant is `Conversation`: the number of a message is its place,
so that no two are equal and a set says which are protected. By induction over the turns
of the loop (`KeptProgress`), what is kept is a suffix of the removable messages, and a
suffix fits the room exactly if it starts no earlier (`KeptFacts`): costs fall from one
suffix to the next. The result is made of a protected part, this suffix and a protected
part, whose sets do not meet (`TruncatedFacts`), which gives the first two; for the
second, a message charged alone costs 2 more than it adds to the result. A message
is forgotten exactly if the whole does not fit, it is not protected and the budget is
below its `Need`: the protected messages counted, and it and the removable ones after it
charged (`ForgottenWhen`). One more message makes no `Need` smaller (`NeedGrows`): the
message that was protected for being the last may turn removable, which costs 2 more
(`WeightGrows`).

Only model-checked: `EveryRequestEnds` and `RevocationSettles`, which are liveness under
fairness and beyond the prover. Every other property of a passing run is proved. The five
violated properties are refuted by their runs.

## 5. Not modelled

- Content moderation: the regular expressions are data; which messages are checked
  and what follows is in the pipeline. `check_output` has no caller.
- Schema validation of requests is part of the input (malformed or not); settings
  are constants. A limit of 0 is accepted by the settings and divides by zero in
  `retry_after`; the modules assume positive limits.
- Request logging (no state), CORS (library; only what it answers to an OPTIONS request
  is in the pipeline), the normalisation of random embeddings
  (data), `expires_at` (never set), scopes (returned and read by nothing), extra token
  claims, a model's `context_window` (compared with no prompt).
- More than one worker: the singletons are per process and the repository starts one.
- The documents' Kubernetes, Kafka, Redis and RAG parts have no code.

What would come next: the pipeline with `Authenticate` reading `AuthService`, which
today only `AccessControl` does, and its theorems over the composition.
