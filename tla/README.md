# Verification of code-compression-bench

The benchmark runs coding agents on SWE-bench instances, once per *arm* (a
compression product, or the control), and compares success and cost. Three things
have to be right for its numbers to mean anything: every token the model billed
must be charged to the run that caused it, once, at the right price; every
(instance, arm) pair must be run, graded on its own edits, and recorded once,
over crashes, retries and resumes; and what runs under an arm's name must be
that arm's product, not the control. This directory holds TLA+ models of the
code these rest on, the TLC configurations that check them on small instances,
and proofs for every size.

## The system

| part | source | state | operations | what is hard | what must be true |
|---|---|---|---|---|---|
| Usage gateway, Vertex bridge | `bench/usage_gateway.py` `_bridge_vertex`, `UsageSink` | per request: the attempt, the events taken, `headers_sent`, the buffered `ev_dicts`; per run id a usage file | call Vertex, relay a frame, retry with backoff, log usage, answer | a thread per request; a client that hangs up at any write; a stream that breaks off; retry after a partial relay | the client gets one attempt's stream; usage is logged once, in its run's file, before a buffered reply |
| Usage gateway, passthrough | `_passthrough`, `_relay_stream`, `_relay_buffered`, `_log_json_usage` | the upstream response and what was collected of it | forward, relay chunks, drain, log, answer | both ends break off independently | the row states what was delivered |
| Upstream call, gateway life cycle | `usage_gateway.py` `_complete`, `_anthropic_create_kwargs`, `UsageGateway`; `gateway_server.py`; `cc_runner._resolve_gateway` | the arguments of a call, turns and attempts; the listening socket; a directory of usage files | send, strike out a beta, fall back to VERTEX_MODEL, retry; start, stop, serve | two nested loops over one mutable dictionary; an error is known by its text only, and several searches look at the same text; handler threads are joined by nobody; writer and reader of a usage file in different processes | what was struck out stays out, the rest stays in; the reader finds its rows; no solve ends another's gateway |
| Usage rows and replies | `usage_gateway.py` `extract_usage`, `usage_from_sse`, `_accumulate_anthropic_message` | none | merge, assemble | interleaved blocks, missing and zero fields | the message is the stream, the row its usage |
| Driver | `bench/cc_runner.py` `main`, `_load_done` | ledger, run files, set of done pairs, futures | submit, collect, retry once, save, append, resume | worker death breaks the pool; crash between or inside two writes | each pair credited once, none forgotten |
| One solve | `cc_runner.py` `run_agent`, `_run_sdk`, `_reap_orphan_claude`, `_capture_patch`, `_worker` | the worktree, the length of the usage file, the Claude Code process | clean, launch, abort, reap, capture, read usage, grade | wall cap and leaked process; a reaper that does its best; late usage rows; shared worktrees | a solve is charged for its own rows and graded on its own edits |
| Harness hooks | `_build_harness_hooks`, `arm.py` | the SDK's hook table | step 0, pre-tool, stop | the stop loop; synchronous hooks in the event loop; hooks that raise | an arm cannot pin the agent; a brief arrives once; a failing hook changes nothing |
| MCP client | `bench/mcp_client.py` | inbox, deferred messages, request id, reader thread, child process | spawn, request, notify, list_tools, close | late answers, messages of the server, EOF, death, timeouts | a request gets its own answer; no server is left behind |
| mini-swe runner | `bench/runner.py` | model seam, MCP client, driver | run_agent, wrapped query | superseded by cc_runner; retry inside a wall cap | as for the MCP client |
| Pricing, records | `bench/pricing.py`, `bench/schema.py` | none | price a series of usage rows | rows with and without cache fields, of several models | the price is the provider's |
| Report, figures | `bench/report.py`, `figures.py`, `style.py` | none | aggregate, rank, render | eleven orderings, ties, arms that solve nothing | the headline follows the documented choice |
| Grader | `bench/grader.py` | a report directory | run the harness, parse | which report is read, a harness that hangs | only a report can pass a patch |
| Preparation | `bench/prepare_repos.py` | cache clones, worktrees, virtual environments | clone, add worktree, build | left to git, uv and the file system | a worktree without leaks of the solution |
| fermat arm | `arms/fermat.py` | the credentials file, the seat's lock, a detached daemon, the environment | ready, start_run, sdk_option_overrides, verify_run, end_run | a single-use refresh token; a daemon that outlives its solve; threads that share the environment | one seat, given back; the token chain survives; the ways a call may miss the gateway are known |
| Other arms, registry | `arms/*.py`, `bench/arm.py`, `cc_runner.build_arm_config` | the state of the box: variables, binaries, logins, listeners | ready, setup, attach, hooks | the box fails after the gate; four places that must agree; an address that is empty once stripped | what runs under an arm's name is that arm |

How they interact: the driver submits a pair to a process pool; a worker runs
one solve; the solve starts Claude Code, whose model calls go (perhaps through a
vendor's proxy) to the gateway; the gateway calls Vertex and appends usage rows
to `<run id>.usage.jsonl`; the solve reads the rows that were appended since it
began; the driver writes the result to a run file and a ledger that a later
session resumes from. Only files connect the gateway to the solve and one
session of the driver to the next. The report is built from the ledger.

## Modules

| module | models | state and actions |
|---|---|---|
| `UsageMeter` | what the gateway promises, abstractly | a request is new, open, metered or closed, the files of all runs; `Accept`, `Meter`, `Close` |
| `ClientSocket` | the client's end of a connection (external) | alive, or left and then how the next write fails |
| `VertexBridge` | `_Handler._proxy` and `_bridge_vertex` | one control point per place the handler can be interrupted at; its `Handler(r)` is the disjunction of the steps, `HangUp(r)` the client |
| `PassthroughProxy` | `_passthrough` and its relays | the same, for a forwarded request |
| `BenchDriver` | `main` and `_load_done` of cc_runner, with the pool | pairs, futures, workers, run files, a ledger of lines that a crash may cut |
| `RunAgent` | `run_agent` and `_worker`, over `UsageMeter` as the gateway | per solve a control point, the noted length, the rows taken, the patch; per worktree whose edits are in it |
| `McpState` | what `MCPClient` keeps and what it promises | the variables, the messages, `AnswerIsOwn` |
| `McpClient` | `MCPClient` and the life of it in `runner.run_agent`, over `McpState` | the inbox, the deferred list, the reader thread, the server |
| `UpstreamCall` | `_anthropic_create_kwargs`, `_complete` and the retries of `_bridge_vertex` around it; `_resolve_gateway`, `UsageGateway`, `gateway_server` | per call where it stands, its arguments, turns and attempts; per gateway whether it listens; the two usage directories |
| `UsageRows` | the pure functions from a reply to a row and to a message | operators |
| `Pricing` | `pricing.py` | operators over rows; whole cents per million tokens |
| `Grader` | `SWEBenchGrader.grade` and `_parse` | operators over the files a harness left |
| `Leaderboard` | `figures.aggregate`, `report.choose_ranking` | operators; a quotient is a pair |
| `Billing` | the order in which they are applied: `_worker`, `_infra_stub`, the retry, `build_report` | `Start`, `Serve`, `Finish`, `Fail`, `BuildReport` over rows, ledger and report |
| `ArmWiring` | the readiness gates of `arms/*.py`, `attach`, `build_arm_config`, the options `_run_sdk` builds | operators over the set of facts that hold on the box |
| `HarnessHooks` | an arm from `main`'s gate to the end of its solve | `Gate`, `Setup`, `Configure`, `WireHooks`, `Launch`, then agent, hooks, caps, and `BoxFails` at any point |
| `FermatSession` | `arms/fermat.py` | per solve its place, the token in its hands, its environment; the file, the seat, the daemon, the auth server's valid tokens |
| `*Proofs` | the theorems about a module | |
| `MC*` | a module's constants for TLC | |

`VertexBridge` and `PassthroughProxy` are shown to implement `UsageMeter`
(`ImplementsMeter`, a refinement by the phase of each request), and `RunAgent`
extends `UsageMeter`: what is checked and proved about solves holds for either
mode of the gateway.

### Correspondence with the code

*VertexBridge.* `pc[r]` is the place of the handler thread of request `r`:
`call` (top of the retry loop), `read` (the event iterator), `headers` and
`write` (the two kinds of write that can meet a dead client), `backoff`, `settle`
(after the loop: the clean 502 or the capture), `span` (row written, answer
not), `done`. An event is its number in its attempt's stream; `evDicts` is the
length of `ev_dicts`, which is always a prefix. `_complete` either returns the
iterator or raises; its own loop over rejected beta headers is part of that
step, and the subject of `UpstreamCall`. `paid` and `wire` are histories.

*UpstreamCall.* `kwargs[c]` is the one dictionary; `tries` counts the turns of
`_complete` that changed it, `attempt` those of `_bridge_vertex`. An error is
what the three searches in its text find, in any combination: a refusal of a
beta may hold a "404", or the "500" of a request id, and be taken for a missing
model or a passing fault as well (`Answers`). The stream fails or is served as
one step: what follows its first event is `VertexBridge`. A `wiring` is the
environment: shared gateway or not, its usage directory configured or not, the
model pinned, the calls that carry the run id, and two models that agree unless
`gateway_server` was started with `--vertex-model`: `env`, the VERTEX_MODEL of
the process, which `_complete` falls back to, and `own`, the gateway's
`vertex_model`, which a call is sent with by default. `told` is history.

*Billing.* A solve at a time: that solves share no rows is `RunAgent`'s matter.
`rows[r]` is the part of the usage file from the length the present try noted;
the calls of a failed try may still append to it (`InFlight`).
Costs are whole numbers of 10^-8 dollars and `RoundUsd` is the record's
rounding. An ordering is a stable sort, stated by places: an arm's place is the
number of arms that do not come after it (`Ranked`). `billed` is history, the
provider's own count. `Fail` has the two kinds of exception: one that knows its
rows and one, such as the grader's, that does not.

*HarnessHooks.* `box` is the set of facts that hold, of which the `Volatile` may
cease at any time. A hook runner's output is one of the few shapes
`ParseHookJson` tells apart. `Tools(opts)` is what the agent has left under the
SDK's options on the strictest reading of `allowed_tools`. Two members of the
registry stand for arms the contract admits and the tests use: a bare MCP
server, and one with all three hooks.

*FermatSession.* A refresh is `Load`, `Post`, `Persist`, with the auth server's
rotation in between, and `Whoami` decides; two solves may be anywhere in it.
`env` is `FERMAT_UPSTREAM` of each solve's process, written for all threads of
it; `unset` in a `wiring` names the solves that are given no gateway, whose
variable is empty. A check of the daemon compares, kills, overlooks or raises
(`CheckDaemon`); an agent that outlives its solve leaves its facades behind
(`strays`) and may spawn the daemon again. `broken`, `run`, `raised` and
`minted` are histories. Nothing under `src` calls `start_run` or `end_run`; a
launcher is taken to ready, start, run and end a solve once, not to end one
whose `start_run` raised, and to start again after a crash. `Persist` is one
step: threads of one process that refresh with a key at the same time would
share the name of the temporary file (`fermat.py:257`), and no wiring has them.

*PassthroughProxy.* A stream is its chunks 1 to `Chunks`; `UsageChunks` carry
usage. A buffered body is drained or breaks off as one step.

*BenchDriver.* A ledger line is a readable row, a torn one, or one that a cut
line has spoilt; appending after a cut line joins it (`Joined`), because the
code never ends the line first. `CutAppend` and `CutWrite` are what a failing
write leaves behind. Workers of a killed driver go on as orphans. The snapshot
that `as_completed` iterates over is part of the state, as the retry's future is
not in it.

*RunAgent.* `start` is `_usage_start`, `rows` the slice of the usage file that
is priced. `patch` is kept until it is graded, which is all it is for.
`claude[a]` is the process, which a wall cap or an infra fault may leak and the
reaper ends, or does not get (`slipped`, history): it needs procfs and a process
named `claude` below the worker. `SolveTag`, `TreeOf` and `Shared` carry the
choices of `_resolve_repo_dir` and `_resolve_gateway`. `Serial` says that solves
which share a worktree run one at a time. The mark "stale" in a tree, and in a
patch taken from it, is history: a reset of it failed and left it as it was.

*McpClient.* A message says in `of` which request it answers (0: none); the
client never looks at it. `HoldBack` is the deferred list, `Requeue` its return
to the inbox, `Poll` the look at the process after an empty `get`.

### Bounds

| constant | code | in the runs | why enough |
|---|---|---|---|
| `Events`, `UsageEvents` | length of a stream, message_start and message_delta | 3; first and last | usage before and after a frame without any |
| `MaxRetries` | `_VERTEX_MAX_RETRIES` | 1 with two requests, 2 with one | a retry, and the last one; the theorems hold for any number |
| `Reqs`, `Tags` | concurrent requests, run ids | 2 | a row in another run's file or twice needs two |
| `Chunks` | chunks of a forwarded stream | 3 | usage in the first and last |
| `Pairs`, `Workers`, `MaxSessions` | job list, `--workers`, starts of the driver | 2, 2, 3 | a crash of a resumed driver; one pair fails while another is at work |
| `Solves`, `Reqs` (`solve`) | calls of run_agent, model calls | 3, 2 | a try, its retry and another arm; a row of the try that comes before, in or after the retry's slice, and a row of the retry (three requests in `solve_late_row`) |
| `MaxPages` | 64 in list_tools | 2 | the cap is reached |
| `MaxCalls`, `MaxExtra` | none | 2 | a late answer meets the next request, beside unasked messages |
| `Calls`, `Solves` (`calls`) | model calls, solves | 2, 2 | one call of each of two solves; calls of one solve share nothing but the file |
| `Betas`, `Known` | beta headers | 4, 1 of them | three turns can each strike one out, so the loop's bound is reached, and one is filtered at once |
| `Runs`, `MaxReplies`, `MaxFailures` (`billing`) | solves, calls, failed tries | 3, 2, 2 | two solves of an arm make an aggregate; two replies a series that grows, shrinks or changes its model; two failures a recorded stub |
| `CallCap` | `--call-cap` | 3 (`hooks`), 2 (`billing`) | a blocked stop, a tool call and another stop |
| `Boxes` | none | all subsets of the facts an arm looks at | complete |
| `MaxAgings`, `MaxMishaps` (`fermat`) | none | 1, 1 | a token is fresh, ageing or expired at first, so that each change of age and a second refresh occur; each mishap by itself |
| `Solves` (`fermat`) | concurrent fermat solves | 2, in four wirings: processes, one of them without a gateway, threads of one process without an API key, declared workers | a race for the seat or the token needs two |

`MaxSessions`, `MaxCalls`, `MaxExtra`, `MaxAgings`, `MaxMishaps`, `MaxReplies`
and `MaxFailures` are bounds of the model alone; the proofs hold for every value.

## Runs

Passing:

- `vertex`: two handlers of two runs, with a retry each. `WireIsOneAttempt`,
  `RelayedUsageIsMetered`, `NoPhantomRow`, `UnmeteredOnlyIfAbandoned` (the two
  ways usage that was read may never reach the sink; what the disk then refuses
  is lost as well), `RowBeforeJsonReply`;
  together they implement `UsageMeter`, so no request is metered twice, in
  another run's file, or after its handler ended; and under fairness
  `EveryRequestEnds`.
- `passthrough`: `UnmeteredOnlyIfBroken`, and the same refinement.
- `driver`: crashes, worker deaths and failing writes anywhere, three sessions:
  `OneResultPerPair`, `CreditedRunIsSaved`, `NoPairForgotten`, and under fairness
  `SessionEnds`.
- `solve`: a pair, its retry and another arm one after the other in one worktree
  (the fallback of `_resolve_repo_dir`), with late rows, failing resets and
  agents the reaper does not get: `RowChargedOnce`, `MissedOnlyIfLate`, and
  `NoAgentLeft` and `PatchIsOwn`, which name the last two as exceptions.
- `mcp`: `AnswerIsOwn`, and `DeadServerIsNoticed` without any deadline passing.
  The server numbers its own requests 0 here, an id the client never uses.
- `billing`: `PricedAsBilled` (a record costs what the provider charges for the
  replies in its slice, as soon as one reported a cache field),
  `BucketsPartitionInput`, `MessageIsTheStream`, `RecordsHoldTheSlice` (late
  rows of the failed try are in the slice), `SolvedOnlyIfReported`,
  `CascadeIsHonest` and `DominanceKept` (the ranking the report publishes).
- `hooks`: every arm on every box: `ProductOnThePath` (all but a proxy arm
  whose address is nothing but slashes), `NeverToolless`, `NeverPinned`, and
  under fairness `SolveEnds`.
- `calls`: the calls of two solves through the two loops, over gateways that
  stop, are interrupted and launched again, and whose model is VERTEX_MODEL or
  not: `OwnRowsAreRead`, `RefusalsAreFinal`, `ServedAsAsked`,
  `GivesUpForCause`, and under fairness `CallsEnd`. The second says in which
  two cases a refusal is overlooked: its text also held a "404" and the model
  gave way instead, or it met the last call of an attempt and looked transient.
- `fermat`: `OneSolveSeated`, `SeatLostOnlyByCheck`, `RotationSurvives`,
  `BypassIsExplained` (six causes of a call that misses its gateway), and under
  fairness `PauseEnds`.

The type invariants of the modules with proofs, and some invariants that are
plain once stated (`BriefOnce`, `CallsRunAsMeant`, `OthersGoOn`,
`NeverSentUnchanged`, `ClosedServerIsGone`, `StreamRowIsDelivered`,
`RowBeforeBufferedReply`), are in no cfg: they are theorems, for every
instance.

Violated, each a statement of the repository that the code does not keep (the
quotations are in `PROJECT.json`, "findings"):

- `vertex_hangup_retry` (`OnlyUpstreamErrorsRetry`): a client that resets the
  connection before the response header triggers another paid call.
- `driver_torn_tail` (`DoneIsInLedger`): the first row after a cut line is lost.
- `solve_late_row` (`SliceIsExact`): a row of the failed try is charged to the
  retry. `RowChargedOnce` and `MissedOnlyIfLate` say what still holds.

Further places where a text of the repository and the code part, met while
modelling. The models have the code's behaviour.

- A worker's death breaks the pool: the retry that `_worker` promises
  ("retried once by the driver", `cc_runner.py:1214`) is refused and `main` ends
  with finished results uncollected (`RetryRefused` of `BenchDriver`).
- The workers of a killed driver finish their solves while the resumed driver
  runs the same pairs under the same run ids, although "only this task writes
  this tag's file" (`cc_runner.py:995`). `RunAgent` is about the solves of one
  session, which the driver starts one after the other.
- The MCP client takes a server's own request for the reply when its id is the
  current one (`mcp_client.py:316`), and a set-up step that raises between the
  spawn and the try block of `runner.run_agent` leaves the server running.
- `_complete` says "up to 2 self-healing strips" (`usage_gateway.py:665`); its
  loop allows three changes and a fourth call, and a fall-back to another model
  uses the same turns. `Tries` is the code's number. When the fourth call is
  refused for a beta in words that look transient, the bridge waits and sends
  the refused beta again; the next attempt's loop may then strike it out.
- The fallback of `_complete` is for a "passthrough id unavailable on Vertex"
  (`usage_gateway.py:674`), but any error whose text holds "404" causes it,
  although Vertex serves the model asked for; and "the configured model" it
  falls back to is VERTEX_MODEL of the environment (line 672), not the one a
  gateway was launched with by `--vertex-model`, which is what calls are sent
  with by default (lines 397-398, 774). `ServedAsAsked` and `GivesUpForCause`
  keep the two apart (`env` and `own`).
- The client's model is "IGNORED" according to a test
  (`tests/test_usage_gateway.py:329`, asserted at 341 and 470), two comments
  (`usage_gateway.py:339`, 382) and `cc_runner.py:105-106`. The code serves a
  client the Claude model it asks for unless CCB_PIN_MODEL is 1 (lines 400-404),
  and so does `CreateKwargs`.
- "Claude Code points straight at the VENDOR proxy" (`cc_runner.py:286`): not
  when the base URL of dasein, headroom, edgee or compresr is nothing but
  slashes. It is set, so the gate passes (for the last three if anything listens
  at port 80 of the box), `model_base_url` strips it to nothing, and the control
  runs under the arm's name. `ProductOnThePath` says so.
- The check of fermat's daemon "Never raises" (`fermat.py:356`) and is called
  with the seat taken and outside any try (line 517). `int(port)` and `.get` do
  raise on a file or an answer of another shape (lines 361, 365), and the seat
  stays taken as long as the arm object lives, in the model until its process
  ends. `SeatLostOnlyByCheck` says that it is the only way to lose it.
- `fermat.py` promises to be "FAIL-CLOSED everywhere" and that the daemon "can
  never silently escape the gateway" (lines 17 and 180). A solve that is given
  no gateway is started (lines 496-500), the check then compares nothing
  (line 366), and the facades are handed no upstream; a daemon that does not
  answer within the timeout, or that cannot be killed, is only logged; and
  `verify_run` accepts a run with one usage row and one fermat call, whatever
  its other calls did. `BypassIsExplained` lists the ways out. On a system
  without `fcntl` the seat is not locked at all (line 427).
- `dasein.stop_decision` says "CONTINUE -> keep going"; the code abstains.
- The system prompt is said to be left "None (stock prompt)" when no arm injects
  anything (`cc_runner.py:610`); the cache-isolation tag is always appended.
- `fermat` is not in the registry of `arms/__init__.py`, although
  `arms/README.md` has `make bench ARM=fermat`; `HarnessHooks` skips it at the
  gate, and `FermatSession` is about the module as it is written.

Some properties of the passing runs are weaker than a comment of the source,
and say exactly by how much: `UnmeteredOnlyIfAbandoned` and
`UnmeteredOnlyIfBroken` list the cases in which usage that was read is not
logged although the docstrings speak of every request (a buffered client whose
last attempt breaks off; a forwarded stream whose client goes away).
`PatchIsOwn` holds by the reset a solve begins with, as the one at its end is
skipped by an infra fault, and `NoAgentLeft` excepts agents the reaper did not
get, which may write into the trees of later solves until they end.

Every property of a passing run has a *seeded defect*: a definition like
`Retry_keepsEvents` beside the one it replaces, with a bug such code might have,
under which the property fails. They are not part of any specification.

### Fairness

- `VertexBridge`: weak fairness of each handler thread. The upstream call is one
  of its steps: the SDK bounds each read, so it answers or raises. A client need
  not hang up.
- `BenchDriver`: weak fairness of the driver's loop, of an idle worker taking a
  job and of a solve ending: a solve has a wall cap. Crashes and deaths are
  never owed.
- `McpClient`: weak fairness of the requesting thread's loop and of the reader.
  That a deadline passes is not assumed, nor anything of the server.
- `UpstreamCall`: weak fairness of each handler thread, as in `VertexBridge`.
- `HarnessHooks`: weak fairness of the preparation and of a hook, as every hook
  that leaves the process has a timeout; strong fairness of the wall cap, since
  the event loop fires an expired deadline when it next gets to look, and hooks
  that run in between only delay it. The agent and its tools may hang.
- `FermatSession`: weak fairness of each solve's polling loop; strong fairness of
  the operator's login while a run is paused on a lapse, which is what the pause
  waits for. A login may lapse again while it is awaited.

## Proofs

All theorems are about the specifications TLC checks, for every value of the
constants, from the assumptions the modules state about them: `BridgeAssumption`,
`ProxyAssumption`, `DriverAssumption`, `SolveAssumption`, `McpAssumption`,
`CallAssumption`, `HooksAssumption` and `FermatAssumption` say that the counts
are natural numbers and that the maps from requests, solves and run ids are
functions between the declared sets. `CallAssumption` adds that sanitized run ids
are distinct and none is `default`, as the instance-and-arm tags of the driver
are. None of these restricts what the environment does.

`Billing` has three, about what is outside the repository. `PricingAssumption`:
rates and lengths of keys are natural numbers, and a model matches finitely many
keys. `BillingAssumption`: the models' matches in the price table are known;
what the provider counts for a reply is what the reply's events say, and a reply
served by another model than the requested one names it; a harness leaves
well-formed files. `StreamAssumption`: a reply's events come in the order of the
streaming protocol: it names one model at most, opens a block once and before
its deltas, and ends a tool's block after them. Blocks may be interleaved,
fields missing or zero, prompts grow or shrink, models change.

Two theorems have a further hypothesis in their statement: `AnswersAreOwn`
(`OwnIds`) and `PatchesAreOwn` (`TreesApart`).

*VertexBridgeProofs.* `WireIsOneAttempt` is not inductive: that a retry finds
nothing on the wire follows from what the places of the handler have in common.
`HandlerInv` says it: before the header nothing was written, a streaming
handler has written all it read but at most one event, and a buffered one holds
no events while its call is under way. `MeteringInv` ties the outcome of the
capture to the file. `IInv` is their conjunction with `TypeOK`,
`WireIsOneAttempt` and `NoPhantomRow`; `TypeCorrect`, `WireCorrect`,
`RowsCorrect` and `MeteringCorrect` follow from it, and `BridgeImplementsMeter`
maps each step to `Accept`, `Meter`, `Close` or a stutter.

*BenchDriverProofs.* A pair in the loop is not credited yet (`LiveUncredited`),
the pair being recorded is out of the futures (`CurIsLive`), and a job of the
session is live, done or given up (`Accounted`). The delicate step is the
append: it may spoil the last line, so credits can shrink as well as grow
(`CreditShrinks`, `CreditGrows`). `CreditedOnce`, `CreditedSaved` and
`NoneForgotten` follow.

*RunAgentProofs.* `ChargedOnce` needs that whatever another solve of the tag
was charged lies before the noted length (`ChargedBefore`), which holds since a
retry begins when the first try is over (`OneSolveOfATag`). `LatenessOnly` needs
that a solve's requests append after its start (`CallsAfterStart`) and that a
result carries the whole slice up to what was read (`SliceTaken`).
`PatchesAreOwn` assumes `TreesApart`: arms have worktrees of their own, or the
solves of a worktree run one at a time. The code decides the first by what
`prepare_repos` has built and leaves the second to whoever starts the driver
(the "sequential-arm mode" of `_resolve_repo_dir`). `PatchIsOwn` follows from
`TreeIsOwn`, that between its reset and the reading of its diff a solve finds
only its own edits in the tree and those of agents that slipped the reaper, and
from `OneSolveOfATree`; `AgentGone` from `AgentInside`, which says where a solve
stands whose agent lives.

*VertexBridgeProofs*, continued: `RepliesInv` says what the places between the
row and the answer have in common; `RowsComeFirst` and `UnmeteredHasACause`
follow from it.

*PassthroughProxyProofs.* `PlaceInv` ties each place of a forwarding handler to
what it relayed and metered, `AnswerInv` the answer to the row, `RowsInv` the
rows to the streams they state. `ProxyImplementsMeter` is the refinement, step
by step as for the bridge.

*UpstreamCallProofs.* The dictionary is the same over both loops, so the
invariant carries what it held when it was built (`RefusalsAreFinal` and
`ServedAsAsked` are part of it); `NewIsUntold` starts it, `WaitsForMore` bounds
the attempts, `Listening` says whose gateways are up and `FilesHoldTheServed`
whose rows a file holds. `TurnsChange` proves the action property from it.
`RefusalsAreFinal` speaks of the betas the loop turned to (`Heeds`), and the
theorems hold for any mixture of what an error's text holds and for any two
models of the environment and the gateway.

*HarnessProofs*, the hooks. `ProductIsUsed` is about four places that must agree,
and says of a proxy arm without an address that it has the gateway's.
What the gate found must outlast it: `Readied` names the facts a box cannot lose
(they are none of the `Volatile`), and `Configured` says that the configuration
in hand is still the one `build_arm_config` would build on the present box
(`AttachKept`, `BuildKept`). `FilesAreInReach` needs `LoggedIn` as well: a login
is what `Setup` saw or made, and one that is gone since is among the lapsed.
`StopsAreLetGo` rests on `PushedOnce`.

*HarnessProofs*, the MCP client, an instance of `McpClient` on the variables of
`McpState`. `AnswersAreOwn` assumes `OwnIds`: no request of the server
carries an id of the client's, as in the `mcp` run. `RepliesAreCurrent` is the
strengthening: every reply that waits anywhere, on its way or in the inbox or
held back, answers a request the client has made, and one with the current id
answers the current request. A late reply therefore has an older id and is never
taken. `McpTypeCorrect` (with `PagesLeft` for the count of pages) and
`ClosedIsGone` need no hypothesis.

*BillingProofs.* `IInv` has four parts. `TalliesOK`: the rows of a try are a
tally of what the provider counted (`Tallied`), input, output and money, which
every reply keeps (`ReplyTallied`; `RealPriceAdds` is where the price of a series
is shown to be the sum of the replies' prices once a cache field was reported,
and `PricedRun` where the inferred split is shown to add up as well).
`PhasesOK`: the phases, and that a solve which is not over failed once at most.
`LedgerOK`: the records are of solves that are over, so nothing will
change their bill, and each is `Sound`, which is what `RecordsPricedAsBilled`,
`RecordsHoldSlice` and `SolvedIsReported` (by `VerdictVouched` about the
grader) say of it. `ReportOK`: a report is `ChooseRanking` of the whole ledger.
`BucketsAddUp` carries the split from the records to the arms (`AggregateIsTable`).

`CascadeHonest` and `DominanceNotBroken` are about sorting by quotients. An
ordering is transitive as long as no quotient is 0/0 (`NotLowerTransitive`), and
none sorts by one (`KeyPair`); so the places are a ranking without ties
(`PlacesAreARanking`), an arm that beats all others is first (`AloneIsFirst`),
and the published ranking is honest (`RankingHonest`, `DominanceRanked`).

`MessageOfTheStream`: after any number of events the message being assembled is
what those events say (`MessageIs`): the blocks are the ones opened so far, in
that order, and each holds the pieces sent for its index (`BlockIs`). The step is
`MessageGrows`, by the type of the event; that a tool's input is parsed from all
of its pieces is where the order of the stream is needed (`ToolEnded`).

Sums and folds are the community modules' `MapThenFoldSet`. An induction over
them is an argument about a minimal set, or the least number of events, that
would break the claim (`MinimalSubset`, `FoldUnroll`, `MessageTaken`): the
library's induction theorems have an operator for a parameter and cannot be used.

*FermatSessionProofs.* `ChainIsAlive` needs that a token on its way to the file
is in nobody else's hands (`FreshInHand`) and was given out (`KnownTokens`): the
file's token is either good or somebody is about to replace it.
`EscapesHaveACause` needs that a seated solve with nothing to its blame has a
daemon of its own gateway (`DaemonIsOurs`), hence that nobody else is past the
seat (`SeatHeld`). `SeatIsReturned` proves `SeatLostOnlyByCheck`: `raised` names
the solves whose check raised, and every other way out returns the seat.

Only model-checked: the liveness properties `EveryRequestEnds`, `SessionEnds`,
`DeadServerIsNoticed`, `CallsEnd`, `SolveEnds` and `PauseEnds`: liveness under
fairness is out of the prover's reach. No module declares a recursive operator.

## Not modelled

- Formatting: JSON, SSE frames, header filtering, content codings, log lines,
  tables and plots. The aggregates no ranking uses.
- `prepare_repos.py`: each step is a command line per repository, and the code
  keeps no state of its own between two steps. What solves rely on is a constant
  of `RunAgent` (`TreeOf`, `Serial`).
- The model seam of `runner.py`: it wraps a scaffold outside the repository, and
  `cc_runner.py` superseded it. Its wall cap is looked at before a call only.
- bear's transform of a message array, which `cc_runner.py` has no seam for.
- `_rsync_traj` and `_write_traj`: best-effort copies nothing reads back.
- The search for a plugin's directory, a node binary or a CLI in the arms: one
  fact of the box each.
- `selfhost/` and `results/`: set-up scripts, smoke tests and recorded data.
- Malformed credentials and answers of fermat's auth server; a daemon's file or
  answer of another shape is modelled. A refresh token that is used twice is
  refused; that a server might revoke the session for it is left out.
- `load_ledger` accepts every line it can parse; no text of the repository
  promises more.

`PROJECT.json` gives each part's status, and the hazards no property covers
with the reason.

## Plan

What is left, in order:

1. The composition of `FermatSession` with `RunAgent`, once a driver calls
   `start_run` and `end_run`.
2. The price of a series without cache fields is a guess of the code
   (`price_run`'s prefix rule); only that its parts add up is proved. How far it
   can be from the bill, for prompts that only grow, is a theorem worth having.
