# A TLA+ verification of the Maybe Don't gateway

The gateway stands between AI agents and the tools they call. It evaluates
each call against deterministic (CEL) and AI-judged policies, lets it pass,
denies it or redacts the answer, and writes an audit log. `maybe-dont test
policies` runs a suite of test cases against the same policies. These modules
model the parts of both in which something can go wrong in ways a unit test
hardly reaches: goroutines that answer in any order, a decision that races a
deadline, records finished in the background, sessions closed under a running
discovery, a shutdown that races all of them, a rate limiter shared by
goroutines that sleep and wake, and a state file that outlives killed runs.

## The system and its parts

| Part | State | Operations | Hard part |
|---|---|---|---|
| Blocking budget (`blocking_budget.go`) | time used, exhausted flag; per phase: start, decided | charge, remaining, deadline, mark decided, finalize | boundaries, charged once per phase |
| AI request engine (`ai_engine.go`) | loop variables, result channel, background collector | evaluate a tool call or a CLI command | answers in any order, deadline, hand-over to the collector |
| CEL engine (`cel_engine.go`) | loop variables | evaluate rules in order | errors fail open, audit_only denies |
| Response engines (`*_response_engine.go`) | as above, plus redacted text | evaluate an answer | redactions that replace one another |
| Chains, evaluator (`tool_validation.go`, `response_validation.go`, `policy_evaluator.go`) | none | merge the results of engines | flags that hold together |
| Tool-call pipeline (`gateway.go`) | wait groups | HandleToolCall, Stop | audit after return, shutdown |
| REST endpoints (`cli_validation.go`, `action_validation.go`, `intercept_handler.go`) | none | validate, audit, answer | asynchronous audit entry, shell tools evaluated twice |
| CLI proxy (`cmd/cli.go`, `cliproxy`) | the command it wraps | ask, run, refuse, fail open | answer and timeout race |
| Audit (`audit_entry.go`, `audit_writer.go`) | entry under construction, log file | set actions, finalize, filter, write | which results are in which entry |
| Sessions (`session.go`) | map of sessions, clients of each | create, get, touch, expire, close | objects used after they left the map |
| Clients and discovery (`client_manager.go`, `server.go`, `gateway.go`) | singleflight groups | create clients, discover tools | several locks, several creators |
| AI providers (`ai_provider_*.go`) | none | generate, with repeated requests | what is retried, what an error keeps |
| Rate limiter (`ratelimiter.go`), AI executor (`ai_executor.go`) | window, learned limit, flags, semaphore, waiters | wait before a request, handle a 429, retry a case | condition variable, slot and mode read twice |
| Progress indicator (`progress.go`) | a pair of channels, a goroutine | start, pause, resume, stop | goroutine that starts late |
| Test runner and state file (`runner.go`, `state.go`) | cached results, file, options | load, skip, record, save, prune | kills, edits between runs, several models |

An MCP call runs CEL request rules, AI request rules, the downstream tool, CEL
and AI response rules, and then the audit write. All AI phases of a request
share its budget. An AI phase that still has results outstanding when it
returns leaves a goroutine behind, counted by the engine's `asyncWg`; the
audit entry then waits for it in another goroutine, counted by
`pendingAuditWrites` (MCP) or by nothing (REST). `Gateway.Stop` closes the
sessions and waits for both counters. Sessions are created by SDK callbacks
and by discovery, and end by idle cleanup, deletion or shutdown. The test
runner goes through its models and cases one at a time; within a case one
goroutine per policy calls the provider through the rate limiter, which
pauses the progress bar while it waits.

`PROJECT.json` lists every component, modelled or not, and the hazards with
the line where each bites and the properties that would catch it.

## Modules

| Module | Models | Uses |
|---|---|---|
| `Budget` | `BlockingBudget`, `PhaseTracker` as operators on records | |
| `PolicyPhase` | abstract: what any validation phase promises | |
| `AIEngine` | one call of `EvaluateToolCall` (and its twin `EvaluateCLICommand`) | `Budget`, instances of `PolicyPhase` and `Results` |
| `CELEngine` | one evaluation of the CEL rules of a request or a response | the same |
| `AIResponseEngine` | one call of the AI response engine's `EvaluateResponse` | the same |
| `Results` | the values engines return and how they are merged | |
| `ToolCall` | requests on five surfaces, the CLI wrapper, audit, `Gateway.Stop` | `Results` |
| `SessionManager` | sessions, downstream clients, discovery, cleanup, shutdown | |
| `RateLimiter` | the limiter under the goroutines of the AI executor, provider calls and their retries | |
| `ProgressIndicator` | the progress bar and its goroutines | |
| `TestRunner` | invocations of the suite over one state file | |
| `AIEngineProofs`, `BudgetProofs` | theorems about the AI request engine and the budget | `AIEngine`, `Budget` |
| `CELEngineProofs`, `AIResponseEngineProofs` | theorems about the other engines | `CELEngine`, `AIResponseEngine` |
| `ToolCallProofs` | theorems about the pipeline and its audit entries | `ToolCall` |
| `SessionManagerProofs`, `RateLimiterProofs`, `TestRunnerProofs` | theorems about one module each | the module in the name |

There is no separate MC module: each configuration instantiates the module it
is about, and every constant has a plain value.

### AIEngine

The variables are the locals of `EvaluateToolCall`, under their names where
TLA+ allows. `pc` is where the calling goroutine is: `start`, `loop` (the head
of the `for`), `select`, `finish`, `returned` or `failed`. Rule goroutines are
the action `EvaluateRule`, which any time after the launch sets a rule's
outcome and sends it; the channel is a set, since it has room for all results
and senders come in any order. The four exits of the loop's head are actions
(`LoopTimedOut`, `LoopEnforcedDone`, `LoopAlreadyDecided`, `LoopWait`), the
two arms of the select are `Receive` and `PollTick`, and `async` is the
background collector with the copies it was given. The code marks the budget
phase decided where it decides; `Finish` finalizes it and builds what is
returned and, when there is no collector, the audit record.

Time is counted in ticks. The budget that the call inherits is any that
earlier phases of the request can leave. Prompts, token counts, messages and
the order of results in a record are left out.

`PolicyPhase` is what the documentation promises of a phase: one decision; a
deny only because of an enforced rule; a plain allow only if every enforced
rule said allow; otherwise it failed open. `AIEngine` implements it, reading
the decision off what the caller was given.

### CELEngine and AIResponseEngine

`CELEngine` is the rule loop of `cel_engine.go` and `cel_response_engine.go`.
The two functions (and the CLI twin) have the same loop: skip, fail, not
match, or match and act; the response has one more action, redact. The four
ways an expression fails are handled alike and are one action. Rules come in
configured order, so they are numbers. The text of a response is the set of
secrets that can still be read in it, secret `r` being what the pattern of rule
`r` matches; that is enough to see whether a redaction is undone.

`AIResponseEngine` has the shape of `AIEngine`, without deadline and with
redactions. There the provider sends the whole redacted text, so a text is
named after the policy it comes from. The timeout of a policy is one of the
ways its goroutine ends, at any time; the code bounds it by what is left of the
budget.

All three engines implement `PolicyPhase`, and `ReturnsAssumedResult` says of
each that it returns only values of the sets `CELResults`, `AIResults`,
`CELResponses`, `AIResponses` from which `ToolCall` takes its inputs: this is
what ties the engine modules to the pipeline.

### ToolCall and Results

`Results` gives, for each engine, the set of values it can return (a message
is present or empty, a count is small) and translates the merges:
`ToolValidationChain.Handle`, `mergeEngineResults`/`finalizeResults`,
`mergeShellResults`, `ResponseValidationChain.Handle`,
`DeriveAuditActionReason`. `ToolCall` takes a request through a surface:

- `mcp` (`HandleToolCall`);
- `cli`, the CLI and the action endpoint, which answer and then write the
  entry. The process at the other end (`runCLI`) runs the command, refuses it,
  or runs it unvalidated when no answer reaches it in time;
- `intercept`, the request phase of the intercept endpoint, which writes and
  then answers; `shell`, the same for a shell tool, which is evaluated as a
  command and as a tool call and merged; `response`, its response phase.

`aiState` tells whether a phase's results were complete when it returned, are
being collected or have been sent. `Stop` is a sequence of steps interleaved
with everything else; the HTTP server is shut down in a goroutine `Stop` does
not wait for, so requests keep running and arriving, and the process may exit
in the middle of a handler.

An answer is one text block. Native tools, the metadata added to an answer and
the branch for a failing chain (no engine fails when there is a budget, and
there always is one) are left out.

### SessionManager

A session ID is a key of the manager's map; the `Session` behind it is an
object, because goroutines keep objects after the map has dropped them. Each
lock region of the code is one step: an operation that takes the manager's
lock, releases it and takes the session's lock is two actions
(`SetSessionClient`, then `StoreClient` or `ClientRejected`; removal, then
`CloseRemoved`). A discovery is a small state machine (`flight[k]`) per
singleflight key; the code has two groups, so a lazy and an on-demand
discovery of one session run side by side. A new client is connected,
initialized, asked for its lists and stored; every stage may fail. The retries
of a stage touch nothing that others see and are part of its one step.
`removed[o]` remembers who took an object off the map and owes it a `Close`.
`displaced` is a history variable: clients that `SetClient` overwrote.
`onSessionRegister` for a new session is one step, although the code creates
the session and then marks it connected.

### RateLimiter

One goroutine per policy of the running test case. An action is one critical
section of the limiter's mutex or one operation on its semaphore channel; the
places between them (`pc[p]`) are those where the code holds neither. The
clock is three events: the oldest request leaves the window, a wait ends, the
case's deadline passes. `asleep` are the goroutines in `cond.Wait`, which leave
only by a broadcast. A provider call repeats its request (`retryOperation`)
and comes to an answer, a truncated answer that is asked for again with more
tokens, or an error of one of the categories of `normalizeError`. Test cases
follow one another; a case is evaluated again when its first error is
transient. `began` keeps the limiter's modes as they were when an attempt
began, for the properties.

### ProgressIndicator

The pairs of channels that `Start` and `Resume` make are numbered by the
animation they are made for. `Start`, `Pause`, `Resume` and `Stop` come one at
a time, because the limiter's goroutine pauses the bar while the test loop
waits for it; the animation goroutines run beside them and read the channels
when they are first scheduled.

### TestRunner

An invocation of `maybe-dont test policies`: load the state file, run the CEL
cases, then for every selected model skip what `ShouldSkip` finds in the cache,
cut off at `--max-tests`, run the rest, and record and save each result. Every
option that changes control is an input of `Invoke`. File operations may fail,
the process may be killed between any two steps, and policies and cases are
edited between invocations. A test case is its content hash and the policies
are a version, which stands for their hashes; `under` remembers with which
version a result was obtained.

`cut` remembers that `--max-tests` left a case out. `AllResultsReported` holds
the count of results against `ResultsDue`, which is defined from the options
alone: one result for every selected case and model, a case of both engines
counting once for the CEL engine. `MoreRemainIsHonest` relates `cut` to exit
code 5, in one direction for any number of models and in both for one.

## Runs

All runs set `CHECK_DEADLOCK FALSE`: each module follows calls, sessions or
invocations to their end, and an evaluation that has returned, a gateway that
has stopped or a bound that is reached is a legitimate last state. That
nothing stops too early is what the liveness properties say.

| Run | Result | What it shows |
|---|---|---|
| `ai_engine` | pass | decision, results and record of a call agree, whatever the order of answers, polls and deadline, and the loop implements `PolicyPhase`; the call returns though no provider answers, and a collector always finishes |
| `cel_engine` | pass | the ordered loop implements `PolicyPhase`, the first enforced deny decides, and what is returned is what `ToolCall` assumes |
| `cel_redaction` | violation | of two redact rules that match, the second undoes the first |
| `ai_response` | pass | decision, redaction and record of a response phase agree in every order of results; every call returns and gets its record |
| `tool_call` | pass | a denied call never runs, answers are filtered, the audit entries tell what happened and miss no AI phase, on every surface; queued entries are written and `Stop` ends |
| `tool_call_lost` | violation | a REST request's asynchronous entry can be lost at exit |
| `session` | pass | every open client has one owner, stored clients are open, sessions are not replaced, idle sessions are closed |
| `session_leak` | violation | a client overwritten in its session is never closed |
| `rate_limiter` | pass | the window overshoots by less than the number of goroutines, sequential mode holds from the next attempt on, a stopped provider is left alone and its cases end rate limited or out of time, the run ends |
| `progress_stop` | violation | `Stop` right after `Start` can wait forever |
| `test_runner` | pass | no finished result is lost, incremental runs make progress, exit code 5 means that a case was left out (for one model exactly then), and a run that was not cut reports one result for every case and model |
| `test_cache` | violation | recording one model's result makes stale results of others valid |

The violation runs are disagreements between the code and what its comments or
documents say; "findings" in `PROJECT.json` quotes both sides.

### Bounds, and why they are enough

- *AI engine*: three rules, so that one can decide, one be late and one be
  audit_only, with each of them disabled in other initial states. `MaxBlocking`
  is 2 ticks and the clock stops at 3, past every deadline.
- *CEL engine*: three rules in every mix of modes and actions: one before and
  one after the rule that decides, or two redactions and a failure. One tick of
  budget and two of time make a phase end within, at and beyond its budget.
- *AI response engine*: three rules, for the same reason as above; time only
  matters to the budget.
- *Tool calls*: one request, on any surface, with every value of both engines
  and both response engines. Requests share only the wait groups and the
  writer, both of which only count or append, so a second request adds
  interleavings but no new interaction.
- *Sessions*: one ID (IDs share nothing but the lock), two session objects for
  it (the one that is being closed and its successor), two clients, one of them
  pass-through, two connections. The lazy and the on-demand discovery of one
  ID give the two concurrent creators. The leak needs only one name.
- *Rate limiter*: two policies and a limit of two requests, so that the window
  fills up and is overshot; a second test case and one retry of a case, so
  that modes set in one attempt meet the next; one repeated request and one
  scaled call.
- *Progress indicator*: two tests with one pause each, so that a late goroutine
  can also meet the channels of its successor.
- *Test runner*: two invocations, one to fill the file and one to meet it after
  an edit; two models, two versions, one case of each engine that runs AI. Both
  models play the same role, hence the symmetry set; no liveness property is
  checked under it. `--max-tests` is off or 1 (`MaxTests`): 1 of two missing
  cases is run or all are, which is all that the cut-off distinguishes; the
  theorems hold for every `MaxTests`.

### Fairness

- `EventuallyCompletes` (AI engine): time passes and the caller is scheduled;
  its select has a timer arm, so one of its arms is always enabled, and nothing
  is assumed of AI providers. Only the second half, that a collector finishes,
  has the fairness of rule goroutines and collector as its hypothesis
  (`BackgroundFairness`): each provider call runs under `context.WithTimeout`.
- `EventuallyRecorded` (AI response engine): caller, collector and rule
  goroutines are scheduled, and a rule goroutine always sends a result, because
  of the same timeout.
- `AbandonedSessionCloses`: the cleanup ticker fires and goroutines that took
  sessions off the map close them. Requests, discoveries and downstream
  servers may hang.
- `QueuedAuditIsWritten`, `StopEventuallyExits`: collectors finish (the first
  property above), audit goroutines and `Stop` are scheduled. Handlers may
  hang in their tool.
- `RunEnds` (rate limiter): goroutines are scheduled, provider calls end at the
  latest with their timeout, timers fire, time passes. A goroutine in
  `cond.Wait` is not scheduled by any of this: it needs its broadcast.
- `StopReturns` (progress bar): every goroutine that is ready is scheduled. It
  is refuted in spite of that.

## Proofs

Every safety property of every passing run is proved: the invariants, the two
action properties `DecisionStands` and `NothingForgotten`, and the refinement
of `PolicyPhase` by the three engines. The theorems hold for all values of the
constants that the named assumptions of each module admit:

| Module | Assumed of its constants | Properties proved |
|---|---|---|
| `AIEngineProofs` | finitely many rules, `MaxBlocking < MaxTime` | `TypeOK`, `RecordTellsDecision`, `AsyncRecordIsComplete`, `AuditOnlyPhaseNeverBlocks`, `BypassIsHonest`, `ReturnsAssumedResult`, `DecisionStands`, `ImplementsPolicyPhase` |
| `CELEngineProofs` | the number of rules is a number | `TypeOK`, `ReturnsAssumedResult`, `FirstDenyDecides`, `ImplementsPolicyPhase` |
| `AIResponseEngineProofs` | finitely many rules | `TypeOK`, `ReturnsAssumedResult`, `RedactionIsKept`, `RecordTellsDecision`, `ImplementsPolicyPhase` |
| `ToolCallProofs` | the two markers differ from entries and each other | `TypeOK`, `DeniedCallNeverRuns`, `ResponseIsFiltered`, `AuditTellsOutcome`, `EveryPhaseIsOnRecord` |
| `SessionManagerProofs` | pass-through clients are clients | `TypeOK`, `OpenClientHasOneOwner` |
| `RateLimiterProofs` | finitely many policies, at least one; a positive limit | `TypeOK`, `SequentialFromNextAttempt`, `OvershootIsBounded`, `StoppedProviderIsLeftAlone` |
| `TestRunnerProofs` | finitely many cases and models, no case with two engine settings | `TypeOK`, `CrashLosesOnlyRunningTest`, `IncrementalMakesProgress`, `MoreRemainIsHonest`, `AllResultsReported`, `NothingForgotten` |

Bounds (`MaxSessions`, `MaxConns`, `MaxTests`, `MaxInvocations`, budgets, clocks, numbers of
retries) are only assumed to be numbers, `Tests` and `MaxScaling` positive ones.
Hence the theorems also answer whether the bounds of the runs are large enough.

The modules are laid out alike: the parts of the inductive invariant `IInv`,
facts about the data, one lemma for each action (the steps of one lock region
that several actions share have a lemma too), `Invariance`, and the theorems,
which follow from it. Each `IInv` was model-checked with the constants of the
module's run before it was proved. Few of the properties are inductive by
themselves; what each needs is the real content of the proof.

### The engines

In `AIEngineProofs`, what a record says when a collector completes it depends
on copies made several steps before. The invariant follows the data:

- `NotStarted`: before the launch everything is initial;
- `ResultsAccounted`: every result sent is in the channel, with the caller or
  with the collector, and a result in the channel is nowhere else;
- `CallerCounts`: while the caller collects, the counters are the numbers of
  policies it has not received, and there is no collector or record yet;
- `DecisionGrounded`: what the decision variables say of the outcomes received
  (a deny has a received, enforced, denying rule; an allow that did not fail
  open has received every enforced rule);
- `AsyncContinues`: the collector has at least the caller's results, awaits
  exactly the others and carries the decision;
- `DetailsGrounded`, `ReturnGrounded`: the record and the returned value tell
  the decision.

The lemma `Awaited` relates the counters to the sets; `BudgetProofs` shows that
charging a phase keeps a budget within its maximum. The refinement follows from
`IInv` by cases on the step: those that return map to `Decide`, `EvaluateRule`
to `Evaluate`, all others to a stutter.

`AIResponseEngineProofs` has the same parts for the response loop. What is new
is that an enforced result may redact: `DecisionGrounded` says that the action is
what the enforced results received make of it, a deny before a redaction and a
redaction before an allow, in whatever order they came, and `WaitGrounded` that
a wait without a deny ends only when every enforced policy has been heard.

`CELEngineProofs` needs no counting: the rules before `next` are passed and
did not deny (`InOrder`), and `StoppedAt` says why the loop was left. The
record is a sequence, of which the invariant needs its last element only.

What the refinement is good for is the theorem `Earned` of the three modules:
`PolicyPhase` keeps its reasons (`PhaseIsJustified`, a fact about the abstract
steps only), and so each engine inherits that a deny always has an enforced
rule that denies, and a pass that is not reported as failing open has the
consent of every enforced rule. `PolicyPhase` says it for the moment of the
decision, `Earned` for ever after.

### The pipeline

Requests share the audit filter and the progress of `Stop`, nothing else. So
`IInv` is one formula `CallInv(c)` of every request, and the lemma `OneCall`
reduces a step to the request that takes it (`Frame`: the others keep theirs).
`CallInv` says what is known at each place of the handler: which verdicts there
can be (`VerdictInv`), what has been done (`PlaceInv`), how the answer follows
from the verdicts (`AnswerInv`), what an entry tells (`EntryInv`), and which AI
phases are in which entry (`RecordInv`). The delicate part is the last: the
late entry is written by a goroutine that finds the phases in whatever state
they are, after an entry that may have been dropped by the filter.

The engines enter by the sets of `Results`. `EngineValues` shows that each value
of them counts a deny exactly when it denies, and `Merges`, `ShellMerge` and
`ResponseMerge` that merging keeps this. With `ReturnsAssumedResult` of the
three engines, which says that they return values of these sets only,
`DeniedCallNeverRuns` is a statement about the gateway with its engines.
`MarkersAssumption` (no entry and a dropped entry are told from entries) is
about the model's own markers.

### Sessions

The argument is one of ownership. A connection belongs to the discovery that
opened it (`HeldOnce`) until that closes it or stores it; stored, it belongs to
its session (`StoredOnce`), and a closing session stores none; an object that
is not closing is on the map or with whoever took it off
(`ObjectsCherished`). `OpenOwned` says that nothing else is open but what was
overwritten. A discovery stores its client after the session was looked up
and may have been removed since: `SetClient`'s refusal of a closing session is
what the proof of `StoreClient` uses.

### The rate limiter

The check of the window and the recording of the request are in different
critical sections. The invariant counts the requests admitted and not yet
recorded together with the window (`WindowBounded`); the goroutine that waits
for the window is added once a request has left it, which `OneWaiter` makes at
most one. For the sequential mode, the token must always be drained, though
whoever returns first drains it, a goroutine that never took it included:
`SlotOwned` says that while the token is in the channel somebody is inside who
will drain it, and `OneInside` that in an attempt begun in sequential mode
there is one such goroutine. `StopObeyed` follows an attempt that begins after
a stop: it stays away from the provider, and every result it has sent or is
about to send is that of the limit, so the first error is too. `CallsCounted`
completes it.

### The test runner

What an invocation reports at its end was counted in steps between which it
saves, changes model and meets rate limits. `Reported` compares at each step
the results reported or queued with `Due`, what the models taken up so far
would come to: they never exceed it, and fall short of it exactly when
`--max-tests` cut. In the end `Due` is `ResultsDue` (lemma `DueInTheEnd`), which
gives `AllResultsReported` and, compared with the number of cases, the exit
code. `Progressing` says that recording a result never makes another one invalid
(lemma `NothingInvalidated`) and how many missing results will be left for a
model when it is done. `FileFollows` relates file and memory: equal between
tests unless an operation failed, and no result in the file that is not in
memory, which is what keeps a save from forgetting one.

### What is only model-checked

- The liveness properties `EventuallyCompletes`, `EventuallyRecorded`,
  `AbandonedSessionCloses`, `QueuedAuditIsWritten`, `StopEventuallyExits` and
  `RunEnds`: they rest on fairness and `ENABLED`, which the prover does not
  handle.
- That the properties of the violation runs fail: TLC's counterexamples.
- `ProgressIndicator`, of which the one property is the liveness property that
  fails.

## Seen in the code, without a property

These came up while modelling. The models have the behaviour unless it says
otherwise; either no text promises the opposite, or the promise is vague.

- AI results that arrive after the decision are dropped when no policy is
  audit_only (`ai_engine.go:494`), although the comment at line 607 speaks of
  complete results.
- An MCP call that was allowed and then failed downstream has no audit entry
  (`gateway.go:542`).
- AI rules run also after a CEL deny (`tool_validation.go:149`); ARCHITECTURE.md
  says otherwise.
- Cleanup may close a client between its lookup and `CallTool`
  (`gateway.go:539`): the call fails like any downstream failure. The two
  modules are not composed.
- A session registered after `CloseAllSessions` emptied the map is never closed
  (`session.go:379`); the process exits shortly after.
- Lazy discovery is not repeated for clients that failed to connect once the
  session has another one (`server.go:247`).
- Of several AI redactions the last to arrive replaces the others
  (`ai_response_engine.go:596`); `RedactionIsKept` says that one is used.
- Only the first text block of an answer is validated (`gateway.go:605`; the
  model has one block). A redacted response is logged without the rule that
  redacted it (`intercept_handler.go:715`; rule names are not in the model).
- An allow rule that does not match is recorded as deny and denies nothing
  (`cel_engine.go:390`, on purpose).
- After its last attempt `retryOperation` drops the result with its headers
  (`ai_provider_retry.go:94`), so `Handle429WithInfo` never sees a Retry-After;
  and a parse error is retried although the comment says it is not.
- Calls scaled up in tokens are not admitted by the limiter
  (`ai_executor.go:649`), and `OvershootIsBounded` leaves them out. A limit of 0
  would take the oldest of an empty window (`ratelimiter.go:272`); the
  assumption excludes it.
- When the rename fails and there is no file to remove, `Save` reports success
  (`state.go:193`). With several models the number of remaining tests may be
  too small, and the exit code 0 although cases were left out (`runner.go:1693`), and `--retry-failed` with `--max-tests` may take the same
  failing case every time. Two invocations at once overwrite each other's state
  (`state.go:140`; the model has one at a time).

## What is not modelled

- *Configuration* (`config.go`): YAML loading, defaults and validation, a pure
  function of one file, most of it field by field. Only `ResolvePolicyMode` is
  modelled, where the engines use it.
- *CEL executor, suite types, output formats, run history, model comparison,
  coverage reports* of the test suite: sequential, formatting or reading.
- *Native tools and audit reports*: read-only queries over the log and the
  session map.
- *Authentication and trusted proxies*: stateless filters over one request.
- *Hooks, skills, commands*: embedded files and command-line wiring.
- *Request bodies* of the AI providers, CEL evaluation itself, prompt texts: data.

## Plan

Modelled, checked and, as far as safety goes, proved: everything with state
that more than one goroutine, process or invocation touches. What is left, in
order of importance:

1. Proofs: that what an engine's collector hands over is what `ToolCall` takes
   a phase's `aiState` for; that the charges of successive phases never exceed
   the budget of the request.
2. The composition of `ToolCall` with `SessionManager` (a client closed under a
   running call) and answers of several blocks.
3. `SharedBudget`: the phases of one request on one budget.
