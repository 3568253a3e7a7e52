# TcpRecon: a TLA+ verification project

TcpRecon scans a list of targets for open TCP and UDP services, compares what it
found with a committed baseline in a bbolt file, and writes one event per change
(`service.opened`, `changed`, `closed`, `reopened`). These modules model what is hard
to test in it: the goroutine pipeline of a scan, the lifecycle state database, the runs
of the program that tie the two together under signals, kills and failures, and around
them the preparation of targets, the probes on the wire, the rate limiter, the
identities that decide which scans are compared, and what an event says.

## The system

| Part (source) | State it keeps | Operations | Hard because |
|---|---|---|---|
| Lifecycle state database (`internal/scanner/state_*.go`) | schema metadata; per scope a committed baseline and temporary observation buckets by scan ID | initialize schema, ensure/create scan, save a service, reconcile, promote, discard | a promotion must be exact and atomic whatever was saved before; damaged or foreign files; orphan scans |
| Scan completion (`scan_completion.go`, `main.go`) | one status and error per scan | classify a producer error, fold in a state error | exactly one combination may touch the baseline |
| Scanner pipeline (`dispatcher.go`, `worker.go`, `udp_worker.go`) | three bounded job channels, a result channel, error channels, two worker pools | produce, route, take, wait for the limiter, probe, push, close, decide | every goroutine races with cancellation and with the closing of channels |
| Target streaming (`utils/parser.go`) | position in the stream, sticky first error | expand a line, dispatch its jobs | failures must not stop the stream nor be forgotten |
| Runtime (`cmd/tcprecon/runtime_*.go`) | spool file, open database, reserved scan ID, completion, outcome | prepare, open, reserve, collect, finalize, emit, close | each step may fail and has its own clean-up |
| Event emitter (`lifecycle_emitter.go`) | none | one event per committed change, or none | decides again, from fewer fields, what the database has decided |
| Target preparation (`target_preparation.go`) | open source, spool file, list of targets | copy, check, close once, replay | seven ways to fail, each with its own things to close; a source that blocks |
| TCP probe (`worker.go`, `tls.go`, `banners.go`) | one connection, one deadline per phase | dial, handshake, read a banner, push | three readers of one stream; what has arrived depends on latency |
| UDP probe (`udp_worker.go`, `payloads.go`) | one socket, its request | send, read one datagram, validate | late, foreign and reflected datagrams |
| Rate limiter (`dispatcher.go`) | tokens, reservations | wait, give up | two pools share it |
| Scope and service identity (`scope.go`, `service_identity.go`) | none | normalise targets, ports and addresses | splitting one scope or merging two misreports services |
| Risk and enrichment (`risk/policy.go`, `enrichment/*.go`) | sorted rules | load, match, score | ties, a score that has to fit its reasons, fields the record lost |
| `StateManager` (`state.go`) | batch buffer, `PortStates` bucket | batch, flush, emit | a failure must neither stop the draining nor be forgotten; kept for its tests only |

They interact through channels (pipeline to runtime), calls (runtime to database and
emitter), the database file with its lock (run to run), and the event stream (run to
reader). What makes each part correct:

* database: nothing is written before the schema is there; a damaged baseline is
  frozen; a promotion consumes one scan of its scope and nothing else; the changes
  it returns are the difference of the two baselines; every service follows one
  life cycle;
* pipeline: no send on a closed channel; no job lost, duplicated or given to the
  wrong pool; the completion depends on the stream only, unless the scan was
  cancelled; every scan ends;
* runtime: resources are held exactly as long as they are needed; a reservation is
  not shared; only a scan that probed everything and lost nothing is promoted; exit
  code 0 says so; the event stream tells the baseline;
* target preparation: all or nothing, nothing left open, and the scan replays the list
  the scope was computed from;
* probes: a service cannot hold a worker, and nothing is recorded that it did not say;
* limiter: starts are bounded in every window, and no wait is for ever;
* identity: scans are compared exactly when they probed the same;
* events: the most specific context, a risk that fits the state, and the last event of
  a service enough to know it.

## Modules

| Module | Models |
|---|---|
| `ScanCompletion` | statuses, `Successful`, the two functions that build completions |
| `ServiceReconcile` | records, canonical forms, comparison, reconciliation, the next baseline: pure operators |
| `ServiceLedger` | abstract: the life cycle of the services a reader of baselines sees |
| `LifecycleStore` | the database: one action per exported transaction, any callers |
| `LifecycleStoreProofs` | theorems about the two above |
| `ScannerContract` | abstract: what `scanner.Run` promises its caller |
| `ScanPipeline` | producer, router, workers, monitor, completion, and the loop that drains them |
| `ScanRuntime` | runs of the program around one database; extends `LifecycleStore` |
| `ScanRuntimeProofs` | theorems about the runs |
| `ScanPipelineProofs` | theorems about the pipeline |
| `PreparedTargets` | abstract: what preparing targets promises a run |
| `TargetPreparation`, `TargetPreparationProofs` | source, spool, replay and signals, one call a step |
| `AddressBlocks`, `AddressBlocksProofs` | addresses of fixed-width octets, masks, increment: pure operators, and what is true of them |
| `ScopeIdentity` | spellings of scopes, their identity, the addresses and ports their scans probe, and the baselines they share |
| `TCPProbe` | one TCP probe against one service, over varying latency |
| `UDPProbe` | UDP requests, validators and the datagrams between |
| `RateLimiter` | the token bucket and the workers that wait for it |
| `ProbeProofs` | theorems about the three |
| `RiskPolicy` | the scoring function: pure operators |
| `EventEnrichment` | rules, matching, and the way of an observation through the record into an event |
| `ScopesAndEventsProofs` | theorems about scopes, the risk policy and events |
| `StateManager`, `StateManagerProofs` | the legacy batching loop, and the types of the four parts of `MCParts` |
| `MCLifecycleStore`, `MCScanPipeline`, `MCScanRuntime`, `MCTargetPreparation` | values of the constants for TLC |
| `MCParts` | `TCPProbe`, `UDPProbe`, `RateLimiter` and `StateManager` side by side |
| `MCScopesAndEvents` | `ScopeIdentity` and `EventEnrichment` side by side |

The last two do not compose anything: their components share no state and call nothing
of each other, so that every behaviour of several of them is an interleaving of
behaviours of each. TLC explores the behaviours of each with the others standing still,
which a variable `part` chooses at the start.

`ScanRuntime` composes the database, whose actions it calls as they are, with the
scan as `ScannerContract` promises it; `ScanPipeline` shows that the goroutines keep
that promise. The composition is by contract: the runtime receives results in any
order and one completion, which is a success only when every job was probed. In the
same way `PreparedTargets` is what `ScanRuntime` takes for granted of its first step.
The modules of probes, identity and events open up what those two abstract: a job that
is "found", an "observation", a "scope", an event's type.

An operator named `<definition>_<Bug>` is a mutation of the definition, with a
comment that starts with "Mutation:"; no specification uses it. It is there to show
that the property it is paired with in `PROJECT.json` can fail.

### How the models correspond to the code

*Database.* A bbolt `Update` is one action; an operation that returns an error has
rolled back, so it is not a step, and the failure of any transaction is a stutter.
A bucket is a total function on service keys with `Absent`; `NoScan` is a missing
scan bucket; `Invalid` is a stored value that does not decode or validate. Banner,
certificate subject and issuer are one `content`, since the code compares them alike;
names are a set, since the code sorts and deduplicates them
(`canonicalObservationStrings`). `committed` tells an empty baseline from none.
The change lists are sets: the code sorts them by service key, and a key has one.

*Pipeline.* Channels are sequences with the code's capacities, the unbuffered result
channel is a rendezvous (`WorkerPush` is also the receive of the runtime), and a
`select` on the context and a channel is a disjunction: once cancelled, either may
be taken. A job is its position in the expanded stream; the stream's items are jobs,
the end of an address (where `dispatchJobs` checks the context) and lines that fail.
`WorkerProbe` covers dial, TLS, banner and validation: the worker keeps the job and
goes on, or has a result. Socket calls end by their deadlines. `probed`, `found`
and `collected` are history; nothing reads them.

*Runtime.* A run is a process with a program counter. Startup failures of every kind are
`FailStartup`: the code closes what is open and exits with 1 on each of them. Opening the
database either finds the lock free or gives up after five seconds; a five-second bound is
a nondeterministic choice. `runtimeScanReservationAttempts` is 4, as in the code: more
than the scan IDs of any run, so that every reservation that collides each time gives up.
An ID is 16 random bytes there and one of a few values here. A transaction that fails, a
spool that cannot be closed, a stream that cannot be written and a file that cannot be
closed are choices of `FinalizeScan`, `EmitFails` and `CloseState`. `Signal` cancels once;
`Kill` ends a process between any two steps, keeps what was committed and releases the
file lock. The reader of the events (`consumer`) knows of each service what it was when
the last event about it was written; `lost` has the scopes with events that never were.

*Target preparation.* A source is a list of lines, of which blank lines and comments
are skipped; it may break at any point and each call may fail. `fail` is the closure of
the same name. A write that fails or falls short may have put nothing, a part or all of
the line in the spool (`Spooled`), and the list does not grow: such a spool has a line, or
a `Cut` one, that the list has not. A part of a name reads like a target, so what keeps it
from being scanned is that the failure closes the spool before anything reads it
(`ScanReplaysTheScope`). `Close` of the spool works once (`closeOnce`). Standard input may be
held open: `Blocking` is the one place where nothing in the program can go on. The
channel of the signal goroutine takes one signal, so later ones change nothing.

*TCP probe.* A stream is a sequence of lines of seven kinds, which are those the
parsers tell apart; time is in ticks, and each phase sets one deadline (`left`). A
handshake on a plain service reads some of what has arrived and fails (`Leftovers`);
the parser of the port reads on from there. A read of a port without a parser returns
what is there. The banner is recorded trimmed, and the hint is computed before that, so
a banner of blanks leaves an empty banner with the hint `Unknown/Obfuscated`.

*UDP probe.* A datagram is the header fields the validators read, and the bit
operations on its bytes are divisions and remainders. Source ports may be used again.
The network loses, delays, repeats and reorders; what listens on the port is the
service, a reflector or another program.

*Rate limiter.* `golang.org/x/time/rate` reserves a token, also one that is not there
yet, and sleeps until it is due: `wait` counts the ticks of one token. `Observe` starts
a window anywhere.

*Scope identity.* A target is its kind, its value and the ways of writing it that
normalisation is about (case, trailing dot, host bits, IPv4-mapped form). A name is taken
to resolve alike however it is spelled, though `parser.go:73` looks up the text of the
line: a resolver that tells `host` from `host.` (a search list does) would have two
spellings of one scope probe different addresses. Hashes are the values they hash, so
collisions are out of the model. A list of ports is the set of its mentions, pairs of a
part of the text and a port it names, and `canonicalPorts` the ports of them by rank:
sorted, once each. An IPv4-mapped block keeps a scope of its own, since `Masked` does not
unmap; `UnchangedNetworkIsSilent` counts it as another form. A run probes what the target
streaming expands, and its promotion replaces the baseline of its scope only. `expandCIDR`
walks the block with the code's increment; `ScopeIsProbed` compares it with the definition
of a block's usable addresses.

*Events.* A run is one step, which `ScanRuntime` takes apart. Rules of one prefix
length come in any order, as the sort is not stable. The environment of an asset is
treated like its owner and left out. The weights, ports and thresholds of the policy are
the real ones. `standing` is the last event a reader has.

*State manager.* Sends, receives and the ticker are steps. A flush goes through its batch
one result a step (`Store`), on `tx`, the bucket as the open transaction has left it, so
that a later result sees an earlier one; only `FlushCommits` shows it, and a failure
anywhere (`FlushFails`) leaves the bucket as it was. A channel with no buffer is left out.

## What TLC checks

| Run | Instance | Shows |
|---|---|---|
| `store_services` | 2 scopes, 2 services, 1 scan ID, 3 observations that differ in name order, hint | type, schema before state, frozen damage, exact promotion, changes explain baselines, refinement of `ServiceLedger` |
| `pipeline` | 1 + 2 workers, queues of 1, 9 streams | type, closing order, conservation of jobs, completed means probed, every scan ends, refinement of `ScannerContract` |
| `runtime_shared` | 2 runs, 1 scope, 2 services, 2 scan IDs; new, foreign and damaged files | type, resources, reservations, what may be promoted, exit code, events |
| `runtime_steady` | 2 runs, 2 services that answer alike | a repeated scan is silent; every run ends |
| `runtime_history` | 3 runs, one at a time, 1 service with 3 answers | the events over a whole life cycle |
| `target_preparation` | all sources of up to 3 lines over 2 names, blank and comment; 2 signals | type, custody, scope equals scan and a torn spool is never read, refinement of `PreparedTargets`, it ends |
| `scopes_and_events` | scopes: 8 addresses, 14 target lists, 6 port texts, 2 scans; events: 3 addresses, 4 rules files, 5 observations, ports 23, 443, 3306 | types; a scope is probed as it reads, closed means probed, respelling is silent; longest match, standing event |
| `parts` | TCP: 10 services, timeout of 2 ticks, heads of 4 lines; UDP: ports 53, 123, 161, 2 probes, 2 source ports, 2 IDs; limiter: 4 workers, rate 3, windows of 6 ticks; manager: 4 results, batches of 2, channel of 1, 2 keys | types; three timeouts at most, genuine observations; open means answered; bounded starts, every wait ends; bucket and deltas keep the history, it returns with everything counted |

Why the instances are large enough. Two scopes and two scans show any interference between
them; two services show every pair of (baseline, current) cases in one promotion, and more
would only repeat them, since reconciliation is service by service (and is proved for any
number). Streams of up to seven items fill all queues and the hands of router and workers:
six TCP jobs for 1 raw + 1 routed + 1 queued + 1 in hand, and two over; failing lines come
in both orders, before and after jobs, and a job without a payload comes before and after
jobs with one. The pools of `pipeline` are not those of a `-w` value (the UDP pool is a
quarter of `-w`): one worker and two keep the races between the pools and within one, on
either side of a failure, with queues small enough to block; what the proofs below cover
holds for any pools. Two runs meet at the file lock in every pair of steps; three in
sequence are what it takes to open, close and reopen. `runtime_history` leaves signals and
overlap out, which `runtime_shared` has, and has the answers change, which it has not.
Three lines are a target before, between and after anything else; two signals are one more
than is taken. A timeout of two ticks separates "before", "within" and "at" each deadline;
a head of four lines reaches its limit, and every case of the dispatch on the port has
services that close, stall and send too much. Two UDP probes are an answer that is late
for its own and early for the next. Four workers at rate three exceed the bucket, so that
debts pile up; six ticks are two seconds. Three octets of one bit have every carry between
octets. Two scans are what a scope identity relates, and the fourteen lists have every
normalisation alone and together. Batches of two with four results fill, overflow and
leave a rest.

Deadlock is checked in the pipeline and runtime runs (their ends are explicit
stuttering steps, `Terminated` and `AllEnded`, enabled only when everything ended);
the database has no duty to go on, so its run switches it off, and so does `parts`,
whose probes stop after a bounded number.

Fairness. `ScanPipeline!Fairness` is weak fairness of each goroutine: the Go scheduler
runs what can run, socket calls have deadlines, and a rate limiter with a positive rate
grants every wait (`validateCLI` refuses others). `Cancel` has none. In `ScanRuntime` each
run is a process under weak fairness of its own steps; signals and kills have none.
Starting a run includes reading its targets, which is assumed to end: `TargetPreparation`
has the details. Its `CodeSpec` is what the code alone justifies, and no fairness of a
read from standard input; `FairSpec` adds a writer that closes the pipe, and
`PreparationEnds` holds under it. In `RateLimiter` time goes on and a cancelled wait
returns; no worker is assumed to get its token. In `StateManager` the manager's goroutine
goes on once the results are closed; the ticker is not assumed to fire. `MCParts` states
the fairness of its components again for the one that moves.

### Where the code and its documents disagree

Four are runs that TLC finds violated.

| Run | Statement | What happens |
|---|---|---|
| `exit_code_hides_lost_events` | `runtime_lifecycle.go:131` joins the emission error to the outcome | line 135 assigns the outcome anew; the run exits with 0 and its events are gone for good |
| `timeout_closes_service` | `ARCHITECTURE.md:160` a timeout alone is no proof of closure | a timeout leaves no observation, and a promotion closes what it has none of |
| `udp_answer_is_unstable` | `ARCHITECTURE.md:184` unstable fields must not influence fingerprints | one DNS service that answers two probes is recorded with two banners: the banner holds the transaction ID of its answer (and the time stamps, for NTP) |
| `risk_ignores_tls` | `ARCHITECTURE.md:356` the score includes the cryptographic posture | the record keeps neither TLS version nor verification |

Others are in the definitions and have no run of their own:

* `ScanRuntime!CollectResult` counts results whose state is `OPEN` while the workers report
  `open`, so the summary of `runtime_output.go:72` always says 0.
* The hint is compared by the database (`serviceComparisonEqual`) and not by the emitter
  (`ScanRuntime!hashScanResult`): a banner of blanks differs from none in the hint alone,
  and that change has no event, against `DEVLOG.md:98`. `ConsumerFollowsBaseline`
  therefore excludes the hint, as it excludes the scopes that lost events.
* Two target names with one address share a record, and the last one saved decides:
  `RepeatIsSilent` (`ARCHITECTURE.md:609`) holds where a service answers every probe of
  it alike (`NetworkIsSteady`), and not for two names it answers differently.
* `TargetPreparation!Blocking`: a run that waits for a pipe is ended by no interrupt,
  though `docs/DEVLOG.md:676` calls the spooling of standard input context-aware.
* `TCPProbe!ReadGreeting` records what one `Read` returns, whole or cut by the delay
  between segments, and `TCPProbe!Leftovers` is what a failed handshake has eaten of the
  identification `ParseSSH` then looks for (`ARCHITECTURE.md:102`).
* `RateLimiter!Burst` is the rate, where `ARCHITECTURE.md:21` wants 1. `BoundedStarts` is
  stated with the burst the code has and holds.
* A lookup that gives fewer addresses than before counts as complete in
  `ScopeIdentity!StreamFails`, and `ClosedWasProbed` (`docs/DEVLOG.md:130`) holds for
  names that resolve in full or not at all.
* `EventEnrichment!serviceRecordToScanResult` has no target name, so that the hostname of
  `docs/EVENT_SCHEMA.md:29` is always empty.

## What is proved

`LifecycleStoreProofs` proves for every value of the constants, from `RecordSentinels`
(the sentinels are different values, no records), `ObservationShape` (observations
have the fields of records) and `NoScanIsNoMap`:

* `ReconciliationIsExact`: for a baseline and a current scan that load, applying
  `reconcileServiceRecords` to the baseline gives `nextBaseline`, and there is no
  change only if the two are equal. The two are computed by separate loops in the
  code. The proof is pointwise in the service: each key has one change at most
  (`ChangeGivesNext`), and none exactly when its record stays (`NoChangeKeepsRecord`).
* `SchemaComesFirst`: `Spec => []StateNeedsSchema`.
* `ChangesExplain`, `DamagedIsFrozen`, `PromotionConsumes`: the three action
  properties of the store runs.
* `StoreImplementsLedger`: `Spec => ImplementsLedger` with `ledger <- baseline`.

The inductive invariant is `TypeOK`, which carries what the proofs need beyond types:
a scan bucket holds open records only (`CurrentMaps`), and a stored baseline value is
a record, absent or invalid. `StateNeedsSchema` is inductive relative to it. Every
action but a promotion leaves `baseline` alone (`BaselineSteps`), so each action
property comes down to one promotion step of a loaded baseline (`PromotionLoads`).

`ScanRuntimeProofs` proves for any number of runs, jobs and scan IDs, and any ways a
scan may end, from the same assumptions and `RuntimeAssumption` (a run has a scope, a
job a service, an answer is an observation; "no run" and "no ID" are values apart):

* `RuntimeUsesTheStore`: `RSpec => Spec`. Each step of a run is an operation of the
  store or leaves it alone, so the theorems above hold of the program;
  `RuntimeImplementsLedger` is `ImplementsLedger` of the runs.
* `OneRunHoldsTheDatabase`, `ReservationsAreOwn`, `ExitZeroIsPromoted` and
  `PromotionsAreComplete`: `ResourcesAreHeldAndReleased`, `ReservationIsOwn`,
  `ExitZeroMeansPromoted` and `PromotionObservedEverything`.

The inductive invariant is the conjunction of three, each inductive given those
before it. `RunControl`: a run between `schema` and `closing` holds the lock, which is
why no other run writes meanwhile (`WriterIsAlone`), and a scanning run has an ID.
`ScanRecord`: the run's bucket holds exactly what answered, or the failure to save is
remembered (`ResultIsRecorded`); before it has an ID nothing has answered, so a fresh
bucket starts right. `RunOutcome`: a completion that is still a success belongs to a
complete scan, and after finalizing, a run without an error is promoted; the exit code
only reads that. The last action property is then one promotion step of a complete
scan, whose next baseline opens what the bucket holds (`NextBaselineOpens`).

* `EventsTellTheBaseline`: `ConsumerFollowsBaseline`. The property speaks of all the
  changes still to be written, of all runs at once; the invariant `EventStream` takes
  them one by one: a change waits in the one run that is emitting (`OthersAreSilent`),
  there is one to a service, it starts from what the reader knows and ends at the
  committed baseline, and where none waits the two are equal. A promotion makes such
  changes (`ReconciledChanges`), an event carries one over (`ReadEventTells`), and a
  failure to write puts the scope in `lost`.
* `RepeatsAreSilent`: `RepeatIsSilent`. Under `NetworkIsSteady` whatever is stored of a
  service is the one record its answers give (`StoredWasReported`: every open record, in a
  baseline or a scan, came from a probe of that service); a complete scan then opens
  what is open already, and by `ReconciliationIsExact` there is no change.
* `RuntimeTypes`: `RTypeOK`, whose parts come from the invariants above and `Counters`.

`ScanPipelineProofs` proves, for any pools, capacities and streams and from the
assumptions of `ScanPipeline` alone, `TypeInvariant`, `NoSendOnClosed` and
`CompletedMeansEverything`. The property is far from inductive, and the invariant is
built in layers, each proved with the ones below as facts. `Typing`: what each goroutine
holds. `Reporting`: a channel reports an outcome exactly when its goroutine is past it,
and no channel closes before its writers are done, from which `NoSendOnClosedChannel`
follows. `Progress`: the producer has expanded what it has passed, and results under way
belong to workers that push them. `Exhausted`: while nobody has cancelled, no goroutine
stops before its input is closed and empty. `NothingDropped`: while nobody has
cancelled, every job sent is queued, in a hand, probed, or was unsupported and is
remembered. A successful completion leaves only "probed" (`AllProbed`).

`JobsAreConserved` is `JobsConserved` from `InOrder`: each channel is first in, first
out, so whatever is further down the pipeline was sent before whatever is behind it, and
an order along the whole way leaves a job one place at a time. That is far simpler to
carry through each step than the cardinality of `Places`, which `OnePlace` gets from it.

`ScanKeepsItsContract` is `Spec => ImplementsContract`: every step of a goroutine is a
step of `ScannerContract` or a stutter (`ContractStep`). The step that decides is the
hard one: the completion, made of the errors that arrived, has to be the one the
contract reads off the stream. `Verdict` adds what that needs: the sticky error is that of
the first line that fails, although jobs and errors race, and a goroutine has a reason
to report in the stream or in a cancellation (`DecidedOutcome`).

`TargetPreparationProofs`: `NothingLeftBehind` and `ScanReplaysTheScope` for any source
and number of signals, from `Custody` (who holds what at which step) and `ReplaySoFar`
(the replay is the prefix of the spool up to its offset). The second is inductive with
them: spool and list grow together, and only a write that fails sets them apart; it closes
the spool in the same step, and nothing has been read by then. What a write leaves of a
line is any value that is not skipped (`CutReadsAsTarget`), another target included.
`PreparationKeepsItsPromise` is the refinement of `PreparedTargets`, which says of the
list that it has the lines that name a target, in their order (`IsKept`). `ReadSoFar` says
so of the part of the source that was read: the list is kept of the lines the scanner has
passed, what is unread is the rest, and a line more keeps it that way (`KeptNext`).

`ProbeProofs`: `ProbeIsTimely` for any service and timeout; the invariant relates
the elapsed time, the phase and what is left to its deadline. `ObservationsAreGenuine`
follows the lines: what has arrived, what a failed handshake has left, and what a reader
holds were said by the service (`Heard`), and trimming leaves a part of a banner
(`TrimmedBanner`). `TCPTypes` is proved with it.

In the same module, `DNSCheckIsExact` and `NTPCheckIsExact` say for every header which
answers the bit operations accept; `OpenMeansAnswered` follows for any number of probes
from the provenance of every datagram under way.

`BoundedStarts`, there too, holds for any rate and workers. The invariant gives every
waiting worker a tick of its own (so at most one starts with a tick) and bounds starts
and tokens together; `LimiterTypes` is a part of it.

`ScopesAndEventsProofs`: the score is bounded (`ScoreIsBounded`), a worse exposure never
scores lower (`RiskIsMonotone`), and `StandingEventFollowsState` holds for any rules and
observations. The first two are about the policy as a function and need no run. The third
asks of the last event of an open service the reasons of its port and of its asset, and lets
TLS add to them: that TLS never does is the disagreement `risk_ignores_tls` shows, and a
record that kept TLS would satisfy both. Score and severity are those of the reasons
(`ScoreIsOfReasons`: the policy adds up points and lists reasons side by side).
`ContextIsMostSpecific` is `MostSpecificContext` for any rules files
(`RuleFilesAssumption`: a file is a list of rules) and any order the unstable sort may
leave: the first match in it is a match than which none is longer
(`MatchIsMostSpecific`). That a set of positions has a first one, here and in
`TrimmedBanner`, is the library's theorem on well-founded relations (`WFMin`), which
`Least` states for numbers.

In the same module, `ClosedMeansProbed` and `RespellingIsSilent` are `ClosedWasProbed` and
`UnchangedNetworkIsSilent` for any widths of addresses, lists of targets and texts of ports.
Both ask for `NamesAreStable`: a name resolves in full or not at all. The code does not see
to that, as the disagreements above say, and without it the first is false: a service of an
address that a lookup left out is closed unprobed. Their core is `OneIdentityOneProbe`: two
spellings with one identity, both scanned to the end, probe the same services. For ports
that is `AscendingLists` (equal lists of ranks come from equal sets, by the pigeonhole
theorem of finite sets), for targets `SameTarget`, kind by kind. Two invariants carry it
to all scans: a key in the database was probed by a complete scan of its scope
(`KeysWereProbed`), and what the last scan of a scope found is what is committed for it
(`LastIsCommitted`).

`ScopeIsProbedTheorem` is `ScopeIsProbed` for addresses of any number of octets of any width
and for blocks of every length but 0. The loop of `expandCIDR` knows only octets: it masks
them, increments them with carries, and stops when the masked result is another. The
property speaks of all addresses of a block. Between the two stands the number an address
is (`Value`), and `AddressBlocksProofs` says what each operation does to it:

* comparing the numbers is comparing the first octet that differs (`ValueOrder`), so that
  addresses are numbered without repetition;
* the increment adds one to it, except to the last address (`Increment`);
* masking keeps the order (`MaskedOrder`), and its result is the first address of its
  block (`BlockIs`). A block is therefore an interval of numbers without a hole.

`BlockWalkIs` puts them together: from the masked address on, the k-th turn of the loop
takes the address numbered k more, all the addresses of the block come up, and the first
that does not belong to it is the one behind the largest; a block that holds the last
address ends because the increment wraps to zero, which is of another block
(`BlocksEnd`, where length 0 is excluded). `ExpandsUsable` then cuts off both ends when
there are more than two, counting the block by a bijection with the turns, and
`TargetIsProbed` goes through the kinds of targets.

`PowerOfTwo`, `Values` and `Increments` are recursive functions on finite intervals. That
their defining equation has a solution at all is proved with them (`StepByStep`: up to the
least number that no solution reaches, one that stops before it can be extended;
`OneSequence`: two solutions agree), without the library's induction over operators.

`ScopeTypes`, `EventTypes` and `ScopesAndEventsTypes` are the shape of both components,
`ScopesAndEventsTypeOK`. They need that the keys found by a scan name addresses and ports
it can reach (`FoundKeys`), that ports rise in a normalised list, and that a rule's context
and the policy's verdict are all an event can carry (`EventShape`). They assume that a
text of ports has parts and a part bounds, which is what splitting a string gives
(`PortTextsAssumption`), and that the number of scans is bounded (`MaxScansAssumption`).

`StateManagerProofs`: `HistoryIsKept` for any services, batch size and number of results.
`Undropped` says that while no transaction has failed, what was received is the batch over
what the bucket, or an open transaction, has; `Histories` that the deltas of a batch are the
history of its transaction, not of the bucket, until it commits. Both go through a batch by
what the last element for a key is when a sequence grows at its end and shrinks at its
front (`LatestOfAppend`, `LatestOfTail`). `PartsTypes` is `PartsTypeOK`: a behaviour of the
four parts is one of each (`MCSpec => TCPSpec` and so on), and each keeps its type.

Only model-checked: all liveness (`Termination`, `EveryRunEnds`, `PreparationEnds`,
`EveryWaitEnds`, `ManagerReturns`), which the prover does not reach. Every other property
of a passing run is stated by a theorem.

## Not modelled

* `validateCLI`: six independent comparisons before anything runs; that they hold is an
  assumption where it matters (a positive rate, timeout and number of workers).
* `runtime_startup.go`: called by tests only, and the same order of calls as the startup
  of `ScanRuntime`.
* The bytes below the kinds of lines and header fields: certificates, cipher suites, the
  text of banners. The wording of `runtime_output.go` and of log lines.
* Hash collisions of keys, scopes and fingerprints.
* IPv6 beyond the mapped form: blocks are of one width.
* A block of length 0: every address is in it, so that the loop of `expandCIDR`
  (`parser.go:134`) wraps around and collects for ever.
* The deployment files and the rules of the systems that read the events.
* `ScanStatusWorkerFailed` for a completion channel closed without a value:
  `startScannerCompletion` always sends.

## Plan

The groups below are done; what is left of each is named.

1. `ServiceReconcile`, `LifecycleStore`, `ServiceLedger`, their runs and proofs.
2. `ScannerContract`, `ScanPipeline`, their runs and `ScanPipelineProofs`.
3. `ScanRuntime`, its runs and `ScanRuntimeProofs`.
4. `TargetPreparation`. Left: its composition with `ScanRuntime`, whose startup is one
   step, beyond the contract.
5. `TCPProbe`, `UDPProbe`.
6. `RateLimiter`. Left: its composition with the workers of `ScanPipeline`.
7. `AddressBlocks`, `ScopeIdentity`, `RiskPolicy`, `EventEnrichment`, and
   `AddressBlocksProofs`. Left: blocks of length 0, and addresses of two families.
8. `StateManager`, `StateManagerProofs`.
