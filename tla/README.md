# A TLA+ verification project for opendle-lib

opendle-lib is a Python library of independent clients and one agent loop: a
conversation harness over a model Router, clients for that Router, for an
ontology service and for OpenID Connect, and helpers for public HTTP fetching
and provider catalogues.  It is sequential, asynchronous code with little
state of its own.  What is hard about it is what its callers, its services and
its transports may do between two of its steps.

This directory holds TLA+ models of that behaviour, TLC configurations that
check them on small instances, and TLAPS proofs, for all instances, of every
safety property these check: of the harness, the loops it is built on, its model
calls and its stored runs, of streamed calls and their framing, the polling loops,
the bounds of provider catalogues, the Ontology client, the pinned transports and
OpenID Connect logins.  `PROJECT.json` maps
every definition to the source lines it models.

Contents: [inventory](#inventory), [modules](#modules),
[runs](#runs-and-what-they-show), [bounds](#bounds), [fairness](#fairness),
[proofs](#proofs), [what is not modelled](#what-is-not-modelled),
[plan](#plan), [how to run](#how-to-run).

## Inventory

Paths are below `src/src/opendle/`.

### Conversation harness (`harness.py`)

* **State.** Immutable `ConversationState` values (messages and a sticky
  route), owned by the caller. A run keeps its own messages, route, turn
  counter and tool results in local variables.
* **Operations.** `ConversationHarness.run` repeats up to
  `max_model_turns` times: fit the context to its limits (prune, or ask a
  compactor on the sticky route), call the model (the exact sticky route,
  then once the assignment without that route), append the answer, run the
  tools it calls, validate and append their results. `SequentialToolExecutor`
  is the default way to run tools. `_conversation_groups` decides what a
  conversation is; `prune_messages` reduces one; `_validate_compaction` judges
  a compactor.
* **Interactions.** The model caller, the compactor, the tools and the tool
  executor are callbacks the caller supplies. Each is awaited, may return
  anything of its type, may raise, and may be cancelled.
* **Hard.** Validation happens late (a complete conversation is only looked at
  when the run ends), state changes early (a tool's effects), reduction may
  happen in the middle of a tool exchange, and a failure can be repeated on
  another route.
* **Correct when** a reused call ID is found before the caller gets a state with
  it, every model call is well-formed and within limits, reduction keeps the prefix and the newest
  exchange, a failed route is not used twice for one turn, a successful run
  records exactly the tools it ran, and every run ends.

### Stored runs (`harness.py`: `run_stored`, `InMemoryConversationStore`)

* **State.** A dictionary of conversations under a lock, with a capacity and a
  size limit.
* **Operations.** `load`, `save`, `delete`; `run_stored` loads, runs and saves.
* **Hard.** Nothing is locked between load and save: runs of one key overlap,
  and the application deletes or replaces conversations meanwhile.
* **Correct when** states are never mixed, and a finished run disappears or is
  refused only for a reason the caller can know.

### Cursor pages (`_internal/pages.py`; used by `router_client.py`, `ontology.py`)

* **State.** A generator: the next cursor, the cursors seen, a page count.
* **Hard.** The service may return any cursor; the page limit and the last page
  may coincide; the consumer may stop at any page.
* **Correct when** no request repeats, no page is dropped silently, the way it
  ends is told exactly, and it ends.

### Router streams (`router_client.py`: `stream_model`, `_stream_events`, ...)

* **State.** A byte buffer, event and byte counters, what was started and what
  became visible; around it a validator with the route of the stream.
* **Hard.** Chunks cut bytes anywhere; the service sends events in any order;
  the consumer has already used what came before an error.
* **Correct when** events do not depend on chunks, limits are exact, the
  consumer gets the beginning of one valid stream, and the phase of an error
  tells whether another call may be made in its place.

### Router contract values (`router.py`)

Immutable messages, selectors, calls and results with validation in their
constructors. No state; the bounds the harness depends on are in its model.

### RouterClient unary requests (`router_client.py`)

* **State.** None of its own; each model call of a harness occupies a thread of
  the event loop's executor (`asyncio.to_thread`) until its request ends.
* **Operations.** Some forty methods over one request pipeline; `__call__`
  adapts `model_call` to the harness's model caller port.
* **Interactions.** The harness awaits the adapter and may be cancelled; the
  thread is not. The Router may take a request after the client gave up on it.
* **Hard.** Which error becomes which failure phase decides whether the harness
  makes a second call.
* **Correct when** the Router executes at most one call of a turn, a failure
  that may have been executed is never reported as one that has not, and every
  turn ends even if cancelled ones still hold threads.

### Media jobs and image generation (`router_client.py`: `create_media_job`, `wait_media_job`; `higgsfield.py`)

* **State.** A deadline, a job or request ID, a status URL; at the service, jobs
  that advance by themselves.
* **Operations.** `create_media_job` posts once; `wait_media_job` polls a job
  until its final state or a deadline; `generate_image` submits and polls in
  one loop.
* **Hard.** The deadline races the answer, requests may take any time or arrive
  late, and a submission costs money.
* **Correct when** there is one submission, the errors after its acceptance
  name the request, a job nobody can name was announced by an error that does
  not deny it, a wait returns only final states in time, polls are spaced, and
  polling ends.

### Pinned public HTTP (`public_http.py`)

* **State.** The answers of one DNS resolution, a resolver thread with shared
  result lists, a deadline guard, the socket being set up.
* **Operations.** `connect_tcp` of three backends (plain, guarded, async): resolve
  once, validate every answer, try the answers in turn; then the reads and writes
  of the stream under the guard.
* **Hard.** The thread outlives its caller's deadline; several addresses are
  tried in turn and their errors are merged; a timeout is never below 1 ms, and
  that of a write is given to each of its sends.
* **Correct when** only addresses of one validated resolution are connected to,
  every failed socket is closed, an end tells what happened to the addresses,
  and the deadline ends every wait, but for what a stream's operations may add.

### OpenID Connect (`oidc.py`, `oidc_httpx.py`)

* **State.** A client binding; metadata and key snapshots bound to it, held by the
  host; everything else of a login is in the host and at the provider.
* **Operations.** `discover`, `authorization_url`, `fetch_signing_keys`,
  `exchange_code`, `verify_id_token`.
* **Hard.** Keys rotate between the snapshot and the exchange of a one-use
  code; the response that spends the code may be lost; several logins run
  side by side; the clocks of client and provider differ.
* **Correct when** a token is accepted only for the login whose code it was
  issued for, under a snapshot of this client, and a good login is rejected only
  for a reason outside the client.

### OpenRouter catalogues (`openrouter.py`)

Pure parsing of a bounded snapshot: a byte scanner counts values, containers and
commas before the JSON decoder runs, and a walk counts again after it. Hard: the
decoder detects the encoding of its bytes, and the scanner takes them as UTF-8.
Correct when, for the UTF-8 snapshots that are documented, the scan bounds what
the decoder builds and rejects nothing the walk would accept.

### Ontology client (`ontology.py`)

* **State.** None between calls; an iterator has the state of its cursor pages and
  for some operations its own copy of the caller's request.
* **Operations.** Some thirty methods, each a request and an expected answer, over
  one pipeline that validates, sends, reads the response and maps errors.
* **Interactions.** The service may take a request after the client gave up; the
  caller keeps the mappings it passed and may change them between two pages.
* **Hard.** Which status and which body become which error; what an error says
  about the effect of a write.
* **Correct when** a result means the operation was applied once, an error of the
  client's side means it was not, and the pages of an iteration answer one
  question, as far as the client holds it.

### Ontology agent helpers (`ontology_agent.py`)

Pure selection and formatting of JSON values.

### Small helpers

`reasoning.py`, `provider_sessions.py`, `contracts.py` (pure functions),
`_internal/http.py`, `_internal/json.py` (a urllib client, strict JSON),
`javascript/vite.mjs` (a build-time plugin), `scripts/` (repository checks).

## Modules

| Module | Models | State ↔ code |
| --- | --- | --- |
| `Conversation` | What a conversation is, its exchanges, its limits, pruning and the compaction checks, as definitions without state | a message is its role, call IDs, result IDs and a body with a size |
| `ConversationScan` | The loops of `_conversation_groups` and `prune_messages`, one action per branch | `index`, `groups`, `seen` (`seen_calls`) and `retained` (`kept`) are the loops' locals; `given` and `allowed` are the messages and the limits; `place` is where the function is, or how it ended |
| `RouteContract` | Abstract specification: which route may answer, when the sticky route changes | the caller's route, the run's route, the failed route |
| `Harness` | `ConversationHarness.run` and all it calls; EXTENDS `Conversation`, implements `RouteContract` | `messages`, `sticky`, `turn`, `results` are the run's locals; `excluded` is `excluded_routes`; `held` is the caller's `ConversationState`; `policy` is `config.context`; `pc` is the await or branch the coroutine is at |
| `StoredRuns` | Concurrent `run_stored` over `InMemoryConversationStore` | `states` is `_states`; `loaded` and `updated` are each task's locals |
| `CursorPages` | `iterate_cursor_pages`, as the part of `OntologyClient` it runs in | `cursor`, `seen` are its locals; `following` is the next cursor of the page |
| `OntologyClient` | Every method of `OntologyClient` as the request it builds, `_request` and the response checks, the iterators; EXTENDS `CursorPages` | `Operations` is the table of methods; `request`, `response` and `result` are one call's locals; `original` are the fields of an iterator's copy of its arguments, `asked` those of the caller's mapping, `nested` the values inside, which both share; `service` and `applied` are the service's side |
| `SseFraming` | Bytes of `_stream_events` | `buffer`, `received` (`response_bytes`), `taken` (offset) are its locals; `step` is its place, or how it ended |
| `RouterStream` | Events of `_stream_events` and `_validated_stream_events` | `started`, `visible`, `terminal`, `count`, `output`, `route` are the generators' locals |
| `ModelStream` | `stream_model` as a whole: `SseFraming` and `RouterStream` as the one generator they are | `stage` is `RouterStream`'s `pc` |
| `RouterCalls` | The model caller of the harness: `_call_model`, `RouterClient.__call__`, the executor's threads, `model_call` and the Router | `pc` is the call a turn awaits; `queue` and `running` are the executor's; `answer` is how `model_call` ended in its thread; `router` is what the Router did; `outcome` is how `_call_model` ended |
| `PollUntilDeadline` | Abstract specification of polling: one request at a time, none after the deadline, a pause after each | the time of the last answer, the deadline, the requests so far |
| `MediaWait` | `create_media_job` and `wait_media_job` against a Router with jobs; implements `PollUntilDeadline` | `deadline`, `target` are the wait's locals; `held` are the IDs the caller knows; `jobs`, `late`, `post` are the Router's side |
| `GenerationWait` | `generate_image` against a provider that may answer anything; implements `PollUntilDeadline` | `method`, `requestId`, `statusId` (the status URL), `deadline` are its locals; `result` is what it returns or raises |
| `PinnedConnect` | `connect_tcp` of the three pinned backends, the resolver thread, the stream's deadline | `thread`, `result`, `failure` are the resolver's side; `answers`, `attempts`, `timedOut` are the loop's locals; `until` is when the blocking call times out; `sending` is the timeout of each send of a write |
| `OidcLogin` | `OidcClient` in several logins beside a provider that rotates its keys | `discovered`, `snapshot`, `token` are what the host holds; `published`, `codes`, `issued` are the provider's; `state` is how far a login is, or what its last exchange raised |
| `JsonBounds` | `_preflight_json_bounds`, `_unique_object`, `_validate_json_bounds` around the standard decoder | `scan` is the scanner's stack and counter; `decoded` is what the decoder has built, by its largest parts; `plain` says that the document is UTF-8 without a byte order mark |
| `Harness_proofs` (of `Harness` and `ConversationScan`), `StoredRuns_proofs`, `ModelCalls_proofs` (of `RouterCalls` and `ModelStream`), `MediaWait_proofs`, `Providers_proofs` (of `GenerationWait` and `JsonBounds`), `OntologyClient_proofs`, `PinnedConnect_proofs`, `OidcLogin_proofs` | Theorems | |
| `MC...` | Constants of the small instances | |

How they fit together. `Harness` uses the declarative `Conversation`
definitions; `ConversationScan` shows that the code's loops compute exactly
these. `StoredRuns` takes a harness run as one step with any outcome: `Harness`
says what the outcome can be. `ModelStream` composes `SseFraming`, which turns
bytes into blocks, with `RouterStream`, which reads the blocks as events: no byte
is read while the consumer holds an event. `OntologyClient` runs the generator of
`CursorPages` on its own requests; the iterators of `RouterClient` run the same
generator. `Harness` takes a model call as one step that answers
or fails in a phase; `RouterCalls` has what happens below that step, and shows
what a phase means for the Router. `MediaWait` and `GenerationWait` share the
promise of `PollUntilDeadline`.

Steps. Code between two awaits of a coroutine, or two yields of a generator,
runs without interleaving in an event loop. The models still give each handler
an action of its own, so that every branch is visible; nothing else can act in
between, because the actions of a run follow its `pc`. A callback is two
actions: the step that awaits it, and one of several steps for how it returns.
Cancellation is possible where the code awaits. `RouterCalls` interleaves turns,
threads and the Router freely; `MediaWait`, `GenerationWait` and `OntologyClient`
interleave the client with the service, `PinnedConnect` with the resolver thread
and the clock, and `OidcLogin` interleaves logins, the provider and the clock.

History variables (`effects`, `reduced`, `requests`, `delivered`, `discarded`,
`deleted`, `overtaken`, `announced`, `unread`, `began`, `heard`, `asked` of
`GenerationWait`, `first`, `resolution`, `overtime`, `late` of `PinnedConnect`,
`questions`, `changed`, `applied`, `generation`) only record; no
guard reads them, with two exceptions: the loop counter of `CursorPages` is the
length of `requests`, which grows in every iteration of the loop and nowhere else,
and bounds (`MaxOvertime`, `MaxLate`, `MaxRotations`) are guards on what they count.

Definitions with a comment "Fault:" are not part of a specification. Each is a
plausible bug of the definition that follows it, and is used to establish that
a property can fail.

### What is assumed of others

* A Router that reports an error for a model call or refuses a media job has no
  result or job for it, then or later. It may take any request that was sent at
  any time, or never.
* A media job moves from queued to running to a final state, and never back.
* The Higgsfield service may answer anything of any kind, also for another ID
  than the one it was asked for.
* A request may last any time: the HTTP timeout bounds one socket operation. It
  ends, because each operation does and the size of an answer is bounded.
* An ontology service that answers with a status from 400 to 499 has not applied
  the request and will not; with any other one, or none, it may have, or may
  still do so.
* The OpenID provider gives a code and a token to each login at most once, spends
  a code at its first use, and signs with a key it publishes. Its tokens otherwise
  have any times, nonces and audiences a login may give them, and its token
  endpoint may answer with a token of another login.
* A resolver returns any addresses, fails or hangs. Time passes only while a
  caller of `PinnedConnect` is blocked; its own steps take none.
* A stream of httpcore gives the timeout of a write to each send of its buffer; a
  read and a TLS handshake end within theirs.
* `time.sleep` does not end early. The executor takes calls in the order they
  came and skips those whose future was cancelled before.

### Abstractions worth knowing

* A message has a size, not a text: compact JSON is two brackets, the messages
  and the commas between them, which is what `MessageBytes` adds up.
* A model call's body is its messages plus a constant, and the excluded route
  adds to it. The limits on images, tags, tools and schemas do not change
  during a run and are left out.
* The prefix of the conversation and the pairing of calls with results are
  the same in `Harness` and in the code; the texts are not there.
* Routes and cursors are model values, compared for equality only, as in the
  code.
* Time is a number that grows by any amount while a request or a sleep lasts,
  up to a bound. Statements between them take none.
* An answer of a service is one of the kinds its client tells apart; which
  bytes make it that kind is not modelled. Two kinds are those that the standard
  decoder cannot read and no client expects: an integer of over 4300 digits, which
  `int` refuses with a plain `ValueError`, and a value nested deeper than the
  recursion limit. An answer may be invalid whatever
  the Router did, because a gateway may have written it.
* In `OntologyClient` an argument is a model value and a path a sequence of
  segments: quoting is modelled as keeping an argument within its segment.
  Statuses are some of each range the client tells apart. Headers, digests
  and redaction are left out.
* In `OidcLogin` a login stands for its nonce and its PKCE verifier, and a key
  either verifies the tokens signed with it or is no RS256 key. RSA, Base64URL and
  the grammar of URLs are left out, and the provider's endpoints stay.
* In `JsonBounds` a document in UTF-8 without a byte order mark is a sequence of
  tokens; of any other document the decoder reads the tokens, and the scan may go
  on or stop at any of them. In it the openers `[` and `{` are
  called "array" and "object"; strings are a number of
  characters in a number of bytes, numbers their digits in a length and an
  exponent; names are new or not, printable or not; white space is left out. What a
  broken document has behind its first error is left out, because the decoder stops
  there.
* In `RouterStream` a text delta and a tool call are one kind of event with a
  size: the code treats them alike.

## Runs and what they show

| Run | Question | Checked |
| --- | --- | --- |
| `HarnessRuns` | Over all answers, failures, cancellations and tool batches of two harnesses, one that compacts and has a custom executor and one that prunes or stops and runs its tools in order: can what breaks its contract reach a model call, does the caller get states that record each tool execution once, what does a reused call ID do, and does every run end? | `SentContextIsPaired`, `NewestExchangeIsSent`, `PrefixIsKept`, `EffectsAreRecorded`, `ReuseIsFoundAtEnd`, `KeepsRouteContract`, `RunEnds` |
| `ConversationScan` | Do the loops compute what the definitions say, for all small inputs? | `ScanDecides`, `PruneDecides`, `PruneIsMaximal` |
| `StoredRuns` | What can three overlapping runs, with deletes and saves between, do to a store? | `StoredIsLineage`, `LostOnlyToOverlap`, `FullOnlyAfterDelete` |
| `ModelStream` | Do events depend on chunks, and what does a consumer see of a Router that sends any bytes? | `EventsIgnoreChunks`, `PhaseTellsOutput`, `DeliveredIsStream`, `ReturnIsWholeStream` |
| `SseLegalEvents` | Is every event within the documented limit accepted? It is **violated**, see below | `LegalEventsAreAccepted` |
| `RouterCalls` | Can cancelled calls and late requests make the Router execute a turn twice, or hold up other turns? | `ExecutedOnce`, `EndTellsExecution`, `TurnsEnd` |
| `MediaWait` | What do lost, late and invalid answers do to media jobs and to waiting for them? | `UnnamedJobsAreAnnounced`, `FinishedInTime`, `Polls`, `CallsEnd` |
| `GenerationWait` | Can a generation be paid for twice, or get out of reach? | `SubmittedOnce`, `AcceptedIsNamed`, `Polls`, `CallEnds` |
| `PinnedConnect` | Can a resolver thread, a guard or failing addresses make a connection go where it should not, leave a socket open, end untruthfully or late, and how much can a stream's operations add? | `ConnectsToValidated`, `EndTellsAttempts`, `EndsInTime` |
| `OntologyClient` | Does the end of a call tell what the service did, and does an iteration survive a service that returns any cursor and a caller that changes its request, or a value inside it? | `EndTellsEffect`, `QuestionIsKept`, `NoRequestRepeats`, `OutcomeIsExact`, `IterationEnds` |
| `OidcLogin` | Can a login be verified with what belongs to another, or a good one be rejected by the client's own doing? | `LoginsAreGenuine`, `FailuresAreExplained` |
| `JsonBounds` | Do two different ways to count bound the same documents? | `DecoderIsBounded`, `RejectionsAreDue` |

What the results mean for a user of the library:

* A run may work for many turns on messages that are no conversation, when a model
  reuses a call ID: the second call's tools run too, and the run is refused at its
  end (`ReuseIsFoundAtEnd`), unless reduction has dropped one of the two. The caller
  never gets such messages, and every call on the way is still paired and within
  limits.
* Pruning keeps the newest exchange or fails. Compaction that falls back to
  pruning keeps the same promises as pruning alone.
* `run_stored` can lose an update. `LostOnlyToOverlap` says when: another run
  of the same key had loaded the conversation before and saved after, or the
  application dropped it. A deleted conversation can come back when a run that
  had loaded it saves.
* A `StoreLimitError` for capacity at the end of a run of a loaded conversation
  means that the application deleted it since it was loaded.
* A fallback call is made only for a failure the Router reported, so that even a
  request whose answer was lost, or whose turn was cancelled, never comes on top
  of another one of its turn. What ends as `uncertain`, as a protocol error, as
  a cancellation or as a `ValueError` may have been executed.
* A cancelled call keeps its thread until its request ends. With as many of
  them as threads, later turns wait, but do not starve.
* A media job whose creation failed may exist only if the error was an
  uncertain transport error, a protocol error or a `ValueError`, and there is at
  most one for each such error.
* `wait_media_job` discards a final answer that arrives after the deadline and
  raises `TimeoutError`; the job keeps its state, and a second wait returns it.
  `generate_image` looks at the answer first, and accepts a late one.
* `generate_image` never submits again, whatever happened to the submission;
  once it has an ID, every error carries it, except a `RecursionError`.
* A resolver that answers after the deadline is ignored; a connection to any
  address of a resolution needs all of them to be public. When the guard says
  that nothing is left, each further blocking operation still takes up to 1 ms, and
  a write that needs several sends may take its timeout for each of them.
* An Ontology write that ends with a transport, protocol, limit or unavailable
  error, a `ValueError` or a `RecursionError` may have been applied; after any other
  error it was not. Query and graph iterators copy the fields of the caller's
  request; a list or mapping inside them, and what the other iterators were given,
  they hold by reference: changed in place, it changes the later pages.
* A login whose code was spent for a lost token cannot be finished, and each such
  end is an error. A good login is rejected if the keys rotated between its
  snapshot and its token, if the provider published two signing keys of one ID, if
  its clock is further ahead than the leeway, and, for tokens with `nbf`, if it is
  ahead at all: `nbf` has no leeway.
* The snapshot scan and the walk differ for depth (the walk counts a scalar one
  level deeper than its container, so a container at the depth limit must be
  empty) and for numbers written with many zeros, which only the scan rejects.
  They agree on UTF-8 without a byte order mark only.

**Ends no one expects.** Some ways to end follow from how the standard library is
used, and no error of the library stands for them. The models have them as they
are, and the properties name them as exceptions:

* `strict_json_loads` passes on the plain `ValueError` of an integer of over 4300
  digits. `_json_object` (`router_client.py:2512-2531`), `_response_object` and
  `_http_error` (`ontology.py:1150-1238`) catch only its subclasses. The caller
  sees the type of error that rejected arguments raise, after a call was executed, a
  job was made or a write was applied (`CreateUnreadable`, `ReadUnreadable`, the
  body "huge"). Inside a stream it is caught, with a phase
  (`router_client.py:1657`).
* `_payload` (`higgsfield.py:103-113`) and the handler at line 209 catch no
  `RecursionError`, so an answer nested too deep ends `generate_image` without the
  accepted ID (`AnswerTooDeep`); `src/README.md:196-199` says that protocol errors
  retain it, and this is an error of another type. In `ontology.py` the decoding of
  such an answer is guarded, but `_redact_json` of an error's details is not (the
  body "deep").
* `DeadlineNetworkStream.write` (`public_http.py:102-104`) asks the guard once, and
  the stream gives the answer to every send of the buffer: a slow peer makes one
  write outlast the deadline as often as it needs a further send (`SendMore`).
* `dict(request)` (`ontology.py:814`, `856`) is a shallow copy (`ChangeNested`).
* `json.loads` on bytes (`openrouter.py:386`) detects UTF-16, UTF-32 and a byte
  order mark; the scan (`428-492`) does not, so that it may bound nothing in such a
  snapshot, or reject a good one (`Misread`). The docstring (line 361) asks for UTF-8.
* A number whose exponent `Decimal` cannot hold raises an `ArithmeticError`, which
  `parse_openrouter_model_snapshot` (`openrouter.py:375-383`) does not translate: the
  outcome "raised".

**Findings.**

* `SseLegalEvents`: `src/docs/router-sdk.md:75-77` promises that one
  event accepts up to the limit and that CRLF may cross chunks. With CRLF
  framing, an event of one byte less than the limit is rejected as too large
  when a chunk ends before the last LF of its separator: the buffer is then over
  the limit by `LF CR`, and `_possible_sse_suffix` (`router_client.py:1686`)
  recognises only the beginnings of a separator. Events of the limit itself, and
  of any smaller size, are accepted.

A remark without a run: `src/docs/router-sdk.md:28-29` says that the client maps a
reported native call failure to `ModelCallError` before visible output.
`__call__` (`router_client.py:784`) maps `provider_unavailable` and
`upstream_failed` only; any other reported error, such as `rate_limited`, passes
the harness's fallback and ends the run as it is. A test of the repository
(`src/tests/test_router_client.py:1148-1157`) expects that for an invalid request,
so the sentence is to be read narrowly. `RouterCalls` models what the code does.

## Bounds

* `HarnessRuns`: two routes, two call IDs, two payload
  sizes, at most five messages, two turns, three first states (with a prefix,
  with a large message, a tool exchange that pruning has left), any number of
  runs one after another. The sequential harness has the policies "prune" and
  "model or stop", the custom one "model or prune". Limits of four messages and 14 bytes lie between the
  sizes the conversations reach, so that contexts fit, are pruned to some or
  to one exchange, and cannot be pruned at all. The call limit lies between
  the size of a call and of the same call with an excluded route. Two turns
  make a tool exchange followed by a reduction, a fallback after a success, and
  the turn limit. Two IDs make reuse, reordering and missing results. One
  answer has two calls, so that an executor can stop between them.
* `ConversationScan`: all sequences of up to four messages of eight kinds, up
  to three of ten kinds, five of six kinds, under three limits (by count, by
  bytes, and too small for a prefix). Five messages are a prefix and two
  exchanges.
* `StoredRuns`: three tasks, two of them on one key, capacity one. Two
  overlapping runs, one more that finds the capacity taken, and any number of
  creations and deletions.
* `ModelStream`: two routes, events of two sizes, three events, two bytes of
  output, an event limit of two bytes and a wire limit of fourteen; all streams of
  up to six bytes over x, CR, LF, of up to four with a space among them, and streams
  of two or three events with either separator and eight kinds of tail; every
  chunking. Separators are four bytes at
  most, so six bytes hold a largest event with either, and one event beyond it;
  both limits are reached before and after a completed event. The space stands for
  all white space but CR and LF (`Spaces`).
* `SseLegalEvents`: the framing alone, with a wire limit of seven.
* `RouterCalls`: three turns, one with a sticky route, and two threads: cancelled
  calls can hold all threads while a turn waits, and a fallback call can run
  beside the late request of a cancelled turn.
* `MediaWait`: an interval of 2, timeouts 0, 3 and 4, times up to 5, two jobs and
  two creations that failed or could not be read: two waits for one job, a wait after a wait that timed out,
  and a job made by a late request beside one the caller holds.
* `GenerationWait`: an interval of 2, timeouts 1, 4 and 6, times up to 8, two
  IDs: up to three polls, each of which may answer for the wrong ID, and a
  submission that arrives after the call has ended.
* `PinnedConnect`: two public addresses and a private one, every resolution of at
  most two answers, deadlines and times up to 6 with a polling interval of 2:
  deadlines before, at and between two polls, or none; at most
  `MaxOvertime` = 3 operations on a stream whose time is over, each of which costs
  the same, and further sends of at most `MaxLate` = 4 time units, as long as the
  longest timeout or as several short ones.
* `OntologyClient`: all operations, three cursors and three pages (cycles of each
  length, and the limit both at and before the end of a sequence), two questions,
  two values inside them, and a status of each kind that
  the client tells apart, on both sides of the borders of success and of server error.
* `OidcLogin`: two logins of two clients, two key IDs, one rotation that keeps the
  old keys or not, a leeway of 1, a lifetime of 1 and a clock that ticks once, a
  provider 0, 1 or 2 ahead, with `nbf` for 1: each border of each claim is met and
  exceeded. A second rotation adds keys no token in hand is signed with.
* `JsonBounds`: at most 4 nodes, 2 levels, 2 items, 1 member, 1 character, 1
  digit and an exponent of 1 are allowed, and `Decimals` = 2 is the largest
  exponent at all, in documents of up to 5 values with two printable names and one
  that is not: every bound is met and exceeded, alone and together.

## Fairness

* `Harness!FairSpec` is weak fairness of `RunStep`: the event loop resumes a
  coroutine that can go on, and each awaited port returns, raises or is
  cancelled. It does not say how a port answers: a model that calls tools
  forever is included, and the turn limit must stop it. Nothing makes a caller
  start a run.
* `OntologyClient!ClientFairSpec` is weak fairness of the client and of its
  transport: a request returns or raises within the transport's timeout, and a
  consumer that has a page either asks for another or drops the iterator. A
  consumer that does neither leaves the generator suspended for ever, which is
  no fault of it. Nothing makes the service act.
* `RouterCalls!FairSpec`: a free thread takes the first call of the queue, a
  request ends (its socket operations have timeouts), and the event loop resumes
  a turn whose call has ended. Nothing makes the Router take a request.
* `MediaWait!FairSpec` and `GenerationWait!FairSpec`: the client goes on, its
  requests end, and the clock advances up to its bound. Nothing makes a job
  finish or a provider give a final answer.

Deadlock is checked in `HarnessRuns`, where a caller can always go on, and in
`StoredRuns`. It is not in the other runs, whose computations end or whose clock
does.

## Proofs

### Harness

`Harness_proofs` holds for every set of messages, routes and payload sizes, all
limits, both methods, both failure modes and any executor. It assumes `BodyBytesAssumption` (sizes are natural numbers) and
`HarnessAssumption` (the constants have the types that the constructors of the
code enforce), which TLC evaluates on the small instances.

| Theorem | Says |
| --- | --- |
| `TypeCorrect` | `Spec => []TypeOK` |
| `SentContextsArePaired` | each call's context is paired and within limits (`SentContextIsPaired`) |
| `RunInvariantHolds` | what each stage leaves to the next (`RunInvariant`) |
| `PrefixesAreKept` | no step changes the held system prefix (`PrefixIsKept`) |
| `RoutesImplementContract` | `Harness` implements `RouteContract` (`KeepsRouteContract`) |
| `NewestExchangesAreSent` | each call's context ends with the newest exchange (`NewestExchangeIsSent`) |
| `ExecutionsAreRecorded` | a successful run returns every tool execution, in order and once (`EffectsAreRecorded`) |
| `ReusesAreFoundAtEnd` | a run is refused at its end for a reused ID only if a tool has run under one, or it is too long; and none ends well that has executed an ID twice (`ReuseIsFoundAtEnd`) |
| `PrunedProperty` | pruning a paired sequence yields a paired one, within limits, with the same prefix |
| `PrunedKeepsLastGroup` | and with the same newest exchange |

The argument. The properties are not inductive as they stand: that a call is
paired depends on what reduction returns, which depends on its input being
paired, which depends on what the last turn appended. The inductive invariant
is

    Inv == TypeOK /\ HeldIsState /\ RunInvariant

`HeldIsState` says that the caller's state is valid; a run starts from it.
`RunInvariant` follows the run: its prefix is that of the held state, its
messages are paired at every stage but one, they are within limits from
reduction to the end of the call, and in the exceptional stage (tools are
running, the answer's calls have no results yet) they end with the open call,
are paired without it, and the results so far are those of its first calls.
Its last part says that a route is excluded only while the assignment is
called instead. `RunInvariant` is stated by a theorem
only; no run repeats it.

Lemmas about `Conversation` have what the steps need of data: the prefix of a
sequence is unique (`PrefixLengthProperty`), appending behind a non-system message keeps
it (`AppendKeepsPrefix`), a complete exchange keeps a sequence paired
(`ExchangeIsPaired`), and the prefix with all messages from the start of an
exchange on is paired (`KeepFromIsPaired`), whence `PrunedProperty`. It needs
IDs neither to be unique nor to be compared, which is why contexts stay paired
in runs that the final check rejects.

One lemma covers each group of actions with the same effect, and
`NextPreservesInv` joins them. `PrefixesAreKept` follows from `PrefixOfRun` and
the only two actions that change `held`. `RoutesImplementContract` maps each
action to a step of `RouteContract` or to a stutter
(`StepImplementsRouteStep`); `RoutesOfTurn` makes the map work, for example
that an answer in `exact` has no excluded route.

A second invariant, `Progress`, carries what a run has in hand:

    Progress == RunIsOpen /\ NewestIsKept /\ NothingOrBatch /\ EffectsSoFar

`NewestIsKept` says which exchange is the newest: that of the held conversation
in the first turn, later the one whose results were appended last. Each
reduction keeps it, pruning by `PrunedKeepsLastGroup`, compaction because the
code compares it. `EffectsSoFar` says that the messages of a run that was never
reduced begin with the held ones, and that the results in them, with those of
the open batch, are the executions. `ResultIds` flattens a sequence of
sequences with a fold, and folds are defined by recursion: the lemmas from
`LeastNatural` to `FlattenAppend` show that the function the fold chooses exists
and is unique, by taking a least counterexample instead of an induction.

### Conversation loops

The last part of `Harness_proofs`, about `ConversationScan`, holds for any messages,
sequences of any length and all limits (`ScanAssumption`, `BodyBytesAssumption`).

| Theorem | Says |
| --- | --- |
| `ScanIsExact` | the scan accepts a sequence exactly if it is a conversation by the definition (`ScanDecides`) |
| `PruneIsExact` | the pruning loop returns what `Pruned` describes, and fails when nothing fits (`PruneDecides`) |
| `PruneKeepsMost` | nothing longer would fit, and pruning again changes nothing (`PruneIsMaximal`) |
| `MessageBytesProperty` | the bytes of a sequence, a sum over its messages, are one more than the number of its bytes |

`ScanInv` says of the scan that the messages before `index` are paired, that `seen`
are exactly their call IDs, and that the groups run from the start
of one exchange, as the definition has it, to that of the next; of the loop of `prune_messages`, that
it has kept the exchanges from the oldest it looked at, and that all of them
fit. A loop and a definition by quantifiers then agree at each place, and no
induction over the sequence is left. The loop stops at the first exchange that does
not fit, and the definition asks for the longest suffix that fits: these agree
because a suffix that starts later has no more bytes (`LaterStartFits`). A sum is a
fold; `MessageBytesProperty` turns it into the cardinality of a set, of which a
later start has a subset.

### Stored runs

`StoredRuns_proofs` holds for any tasks, any finite set of keys, any sizes and any
capacity (`StoreAssumption`).

| Theorem | Says |
| --- | --- |
| `TypeCorrect` | `Spec => []TypeOK` |
| `StoredConversationsAreLineages` | what is stored is a line of successful runs, each on top of the one before (`StoredIsLineage`) |
| `OnlyOverlapLoses` | a saved run is lost to an overlap or a deletion only (`LostOnlyToOverlap`) |
| `FullStoresTakeTheirOwn` | a full store rejects only tasks whose conversation was deleted since they loaded it (`FullOnlyAfterDelete`) |

What a task has loaded was stored, so it is a line of runs too, and it stays one
although the tasks in it have ended: a task loads before it saves, and never
loads again (`LineageInv`). `LossInv` looks at a task that has saved and one that
is still running on the same key: the second has the first in what it loaded,
or was overtaken by it, or the first is lost already. When the second saves, this
is what `LostOnlyToOverlap` asks for.

### Model calls

The first part of `ModelCalls_proofs`, about `RouterCalls`, holds for any set of
turns, any number of them with a sticky route, and any number of threads
(`CallsAssumption`).

| Theorem | Says |
| --- | --- |
| `TypeCorrect` | `Spec => []TypeOK` |
| `OneExecutionPerTurn` | the Router never executes both calls of a turn (`ExecutedOnce`) |
| `EndsTellExecution` | how a turn ends tells what the Router did, where the client can know (`EndTellsExecution`) |

Both properties depend on what was sent, and when. The inductive invariant says
that what is in the queue has left no trace and is there once (`QueueInv`,
`QueueIsInjective`), that a turn has only the calls it has made (`MadeInv`), that
an answer in a thread is about what the Router did (`AnswerInv`), and that a
second call follows only a first one that was refused or never sent
(`SecondInv`). One lemma covers each kind of step.

### Streamed calls

The second part of `ModelCalls_proofs`, about `ModelStream`, holds for any streams
of bytes, any limits and any routes (`FramingAssumption`, `StreamAssumption`).

| Theorem | Says |
| --- | --- |
| `PhasesTellOutput` | a failure says "after" exactly if the consumer has received output (`PhaseTellsOutput`) |
| `DeliveriesAreStreams` | what the consumer receives is the beginning of a stream on one allowed route (`DeliveredIsStream`) |
| `ChunksDoNotMatter` | the events found are the first ones of the whole stream, however its bytes arrive (`EventsIgnoreChunks`) |
| `ReturnsAreWhole` | an iterator that returns has delivered all events of the stream, each within its limit, the last of them a completed event with only white space behind it; a failure behind one permits no replacement call (`ReturnIsWholeStream`) |
| `CutEquation` | what a stream means is well defined: its first event, then what the rest means |
| `FirstSeparatorStays` | bytes that arrive later do not move the first separator |

Each property compares what the consumer has with what the generators believe,
and these differ: the parser has read an event before it delivers it, and the
call may fail in between. `ParserKnows` says that the parser is never behind the
consumer, and ahead of it only when the call has failed; `OnOneRoute` that what was
delivered is a stream on the parser's route; `FailureTells` that the phase chosen
where an error is raised, from the parser's view, is right for the consumer.

The framing is compared with a reference that cuts the whole stream at once.
`FramingInv` says that the buffer begins where the reference still has to cut: there
is a position such that the events found so far are those of the bytes before
it, and the bytes behind it are in the buffer or not taken yet. A block is
cut from the buffer before all of the stream is known, so the proof needs that a
later byte cannot complete an earlier separator (`FirstSeparatorStays`); this is true
of the order in which the code looks for LF LF and CR LF CR LF. The reference is a
recursive function over the streams; `CutEquation` shows that there is one, by a least
counterexample on the length. `ReturnInv` joins the two generators: while nothing has
failed, what was delivered is what was found, and the counter of output is the
size of what was delivered.

### Polling

`MediaWait_proofs` and the first part of `Providers_proofs` hold for every interval, all
timeouts, any bound on the clock, any number of jobs and any IDs
(`MediaAssumption`, `GenerationAssumption`: intervals are positive, times are
natural numbers).

| Module | Theorem | Says |
| --- | --- | --- |
| `MediaWait_proofs` | `UnnamedAnnounced` | jobs nobody can name were announced, or are behind an answer that could not be read (`UnnamedJobsAreAnnounced`) |
| | `WaitFinishesInTime` | a wait returns final states, before its deadline (`FinishedInTime`) |
| | `WaitPolls` | `wait_media_job` implements `PollUntilDeadline` (`Polls`) |
| | `WaitRequestsAreBounded` | a wait polls once at its beginning and once for each whole interval of its timeout, at most (`PollsBounded`) |
| `Providers_proofs` | `OneGeneration` | one call, one generation at most (`SubmittedOnce`) |
| | `AcceptedStaysNamed` | every end of the call but a `RecursionError` names an accepted request (`AcceptedIsNamed`) |
| | `GenerationPolls` | `generate_image` implements `PollUntilDeadline` (`Polls`) |
| | `GenerationRequestsAreBounded` | the same bound, for the submission and the polls of one call (`PollsBounded`) |

Both have a theorem `TypeCorrect` too. `PollsBounded` is not inductive:
that there is room for a request depends on the time since the last answer,
which `Spaced` relates to the number of requests. The loops show the top of
each round no trace of their sleep, so `PauseInv` keeps the time that the
pause has reached; `CallInv` keeps what each place of the code knows, for
example that the three IDs of `generate_image` agree. The refinement theorems
map each action to a step or a stutter of `PollUntilDeadline`. `UnnamedAnnounced` counts: a
creation given up adds to both sides, and a late request only moves from one
term to another.

### OpenRouter catalogues

The second part of `Providers_proofs`, about `JsonBounds`, holds for all bounds, any
names, and any strings and numbers that can occur (`BoundsAssumption`: bounds are
positive, a character takes one to `SourceBytes` bytes, a number is no shorter than
its digits), and so for documents of any length and depth.

All of them are about documents in UTF-8 without a byte order mark (`plain`); of
others nothing holds, because the scan reads other tokens than the decoder.

| Theorem | Says |
| --- | --- |
| `DocumentInvIsInvariant` | the inductive invariant `DocumentInv`, of plain documents |
| `DecoderStaysBounded` | while the scan passes, the decoder builds no more than the bounds allow (`DecoderIsBounded`) |
| `RejectionsAreExplained` | a complete document that the walk would accept is rejected only for a number with more than eight characters beside its digits (`RejectionsAreDue`) |
| `StacksStayTogether` | while the scan passes, its stack of containers is the decoder's stack of frames |

The scan counts commas, the decoder values. `Separated` says what one tells of the
other for an array or an object at each place of it, with distinct names only as
long as the decoder has seen no name twice; `StacksAgree` says so of every level at
once. For rejections, the moment at which the scan stops is not the end of the
document, and what it saw need not be a value yet: a comma may promise one value
more than there may be. `StoppedInv` says that, once the scan has stopped, a bound of
the walk is exceeded, or is about to be (`OneTooMany`), or a number was too long,
and `StopsStay` that this remains so, because what has been built never shrinks.

### Ontology client

`OntologyClient_proofs` holds for every set of cursors, questions and statuses and
every `maximum_pages` (`PagesAssumption`: there is a first page, and a page can be
the last; `ClientAssumption`: statuses have three digits). The theorems about pages
are about the generator over any service; the table of operations is the code's.

| Theorem | Says |
| --- | --- |
| `RequestsDoNotRepeat` | an iterator sends no request twice (`NoRequestRepeats`) |
| `OutcomesAreExact` | how an iteration ends is what its pages say (`OutcomeIsExact`) |
| `QuestionsAreKept` | all pages ask with the same fields, and the same question unless a value inside was changed in place (`QuestionIsKept`) |
| `ResultsTellEffect` | the end of a call tells what the service did, where the client can know (`EndTellsEffect`) |

For the pages, `SeenInv` says at which places of the loop the next cursor is not
yet among the used ones, and `PageInHand` how many pages have been asked for and
delivered there. For the call, the service holds the request of the operation
that was called (`RequestInv`), which `RequestOf` need not determine: that no
other operation is applied needs the lemmas about the table. `ShapeDecides` says
that method, length and one segment of the path tell two operations apart unless
both are reads, and `MeantForOne` that a service which reads this request back
finds one operation. A duplicate in the table would not pass either of them.

### Pinned transports

`PinnedConnect_proofs` holds for every set of addresses and resolutions, all
deadlines, timeouts and intervals, and the three backends (`PinnedAssumption`).

| Theorem | Says |
| --- | --- |
| `ValidatedBeforeConnect` | sockets go to validated addresses only (`ConnectsToValidated`) |
| `OutcomeTellsAttempts` | a timeout means that the deadline passed or that some attempt timed out, a connection error that all were tried, and neither leaves a socket (`EndTellsAttempts`) |
| `DeadlineIsKept` | a caller with a deadline is back by it, least timeouts of late operations and further sends of writes aside (`EndsInTime`) |

The invariant has a part for each thing the caller relies on: the thread writes
its lists before the caller looks at them and never again (`ResolverInv`); the
addresses are tried when all are public, in order (`TriedInv`); only the newest
attempt may have a socket (`SocketInv`); those before it have failed, and
`timedOut` says how (`FailedInv`); a block ends by the deadline, because its
timeout is cut to what was left (`TimeInv` and the lemma `ClampedInTime`); and
there is an outcome only with a stream or at the end (`OutcomeInv`).

### OpenID Connect logins

`OidcLogin_proofs` holds for any logins, clients and key IDs, any number of
rotations, any bound on the clock, and any policies, leeway and lifetime
(`LoginAssumption`: a policy's lead is an integer, the leeway is a natural number,
the lifetime a positive one).

| Theorem | Says |
| --- | --- |
| `TypeCorrect` | `Spec => []TypeOK` |
| `OnlyGenuineLogins` | who is verified is who logged in (`LoginsAreGenuine`) |
| `OnlyExplainedFailures` | a good login is rejected only for a reason outside the client (`FailuresAreExplained`) |

`LoginInv` and `IssuedInv` keep what a login with a token in hand has: a spent
code and an issued token of its nonce's client, which verification then compares.
Why a good token is not rejected needs the keys: `PublishedInv` says that
the key of the present generation is published and is a signing key, and
`SnapshotInv` that a snapshot of the present is what is published, while one of the
past has the key of every token of its time, to which no token is added any more.
`BadSignature` and `BadClaims` then name the reasons that are left.

### Only model-checked

* Liveness (`RunEnds`, `IterationEnds`, `TurnsEnd`, `CallsEnd`, `CallEnds`), which
  needs fairness.
* That `LegalEventsAreAccepted` is violated: a counterexample, which `SseLegalEvents`
  shows.

Every invariant, action property and refinement of a passing run is a theorem.
Where a definition recurs (the folds of `ResultIds`, `MessageBytes` and the output's
size, the reference of the framing), the proofs take a least counterexample or
count a set, because the library's induction theorems cannot be used.
Type invariants and bounds that are theorems (`TypeOK`, `RunInvariant`,
`PollsBounded`) are not checked by a run as well.

## What is not modelled

`PROJECT.json` lists every component with its status. Within the modelled ones:
limits on images, tags, tool definitions and schemas; structured output; the
wording and the redaction of errors; the parsing of JSON inside an event (an
event is well-formed of one kind, or invalid); key syntax in the store; the
methods of `RouterClient` other than model calls and media jobs, which share its
request pipeline and keep no state; the pools of the pinned transports, which
are httpcore's; in `oidc.py` the cryptography, and of its transports all but how
a request ends; in `openrouter.py` the selection of a model's row and the reading
of its fields, which are pure and checked field by field.

Not modelled at all: `ontology_agent.py`, `reasoning.py`, `provider_sessions.py`,
`contracts.py` and `_internal/http.py`, `_internal/json.py`, which are functions of
one value without state or interaction; the build plugin and the scripts.

## Plan

In this order.

1. Harness core: `Conversation`, `ConversationScan`, `RouteContract`,
   `Harness`, `StoredRuns`, `CursorPages`, `SseFraming`, `RouterStream`; proofs
   of `Conversation`, `ConversationScan` and `Harness`. Done.
2. `RouterCalls`: the adapter, its threads and its error mapping, with proofs.
   Done. Left: its composition with `Harness`, so that the phases `Harness` chooses
   freely are those `RouterCalls` produces.
3. `PollUntilDeadline`, `MediaWait`, `GenerationWait`, with proofs. Done.
4. `PinnedConnect`, `OidcLogin` and `JsonBounds`, with proofs. Done.
5. `OntologyClient` on top of `CursorPages`, and `ModelStream` as the composition of
   `SseFraming` and `RouterStream`, with proofs. Done.
6. Proofs of `StoredRuns`, and of `NewestExchangeIsSent` and `EffectsAreRecorded`.
   Done.
7. Left: `Harness` composed with `StoredRuns` for one key; the other resources of
   the Router; the selection of rows in `JsonBounds`.

## How to run

    tlc -workers 2 -config HarnessRuns.cfg MCHarness
    tlapm Harness_proofs.tla

Each configuration belongs to the module that `PROJECT.json` names for its run.
