# cmt-top: a TLA+ model

cmt-top watches the consensus of a CometBFT chain. It reads a node's WebSocket
stream and polls its HTTP endpoints, keeps a *dashboard state* (what round is
running, who voted) and a *divergence tracker* (which block each vote signs),
and pushes both to terminal and browser UIs. This directory models the parts
where that is hard to get right: several goroutines that report the same
consensus out of order, state that is evicted while it is still being reported
on, and channels that drop what a slow reader does not take.

## 1. Inventory

| Component | Source (`src/`) | State | Operations | Talks to |
|---|---|---|---|---|
| Dashboard state | `internal/state`, `internal/core/transitions.go` | one struct behind a mutex: position (height, round, step), last commit, round view (a row of votes per validator), block history, health | `Mutate` callbacks: advance, commit, status, merge validators, fallback | written by the orchestrator, read by every UI |
| Divergence tracker | `internal/divergence` | live rounds (votes grouped by hash, powers), history, archive (heights, rounds, evidence), eviction marks, revisions | `SetValidators`, `ObserveRound`, `ObserveVote`, `IngestVote`, `MarkRoundAdvanced`, `ResolveCommit`, reports | written by the orchestrator, read by the web server |
| Orchestrator | `internal/core/orchestrator.go` | the bounded channel `wsEvents`, the wake-up channel `validatorRefresh`, five pollers | the event loop and its handlers, `refreshStatus`, `refreshLatestBlock`, `refreshValidators`, `refreshConsensusViaHTTP`, and three others | calls state, tracker, RPC pool; publishes on the bus |
| RPC comparison | `internal/core/comparison.go` | one result | fan-out to all endpoints, join, one update | RPC endpoints, state |
| Event bus | `internal/events` | subscriptions with a channel and a drop counter each | `Subscribe`, cancel, `Publish` | orchestrator and WebSocket client publish, web hub receives |
| Upstream WebSocket client | `internal/chain/cometws` | endpoint index, backoff, live flag | connect, subscribe, read, rotate | orchestrator's handler and lifecycle callbacks |
| RPC pool | `internal/chain/cometrpc` | active endpoint | query with failover, paging | orchestrator, comparison |
| LCD querier | `internal/cosmos` | none | HTTP queries | orchestrator |
| Web stream | `internal/web/ws*.go` | hub registry, pending reservations, resync set and timer; per client subscriptions, sequence, queue, wake token | admit, broadcast, tick, resync, write pump, read pump, close | bus, state, tracker, browser |
| Rounds endpoint | `internal/web/rounds*.go` | cache of encoded reports, builds in flight | get with single flight, trim | tracker, HTTP clients |
| HTTP server | `internal/web/server.go`, `budget.go`, `session.go` | token budgets | routes | everything above |
| Browser stream client and store | `web/src/lib/ws.ts`, `stores.ts`, `model.ts` | socket, sequence, resync and profile flags, displayed snapshot | open, message, repair, profile change, reconnect, reduce | web stream |
| Browser poller and investigation page | `web/src/lib/poll.ts`, `investigation.ts`, `rounds.ts`, `components/BlockRounds.svelte`, `App.svelte` | timer, request in flight, cached report, selection, pause | refresh, cancel, invalidate, hide, pause, select | rounds endpoint |
| Terminal UI, components, configuration, metrics, commands, replay server | `internal/tui`, `web/src`, `internal/config`, `internal/metrics`, `internal/obs`, `cmd`, `internal/testutil` | - | rendering, parsing, counters, start-up, test support | - |

What is hard, and what would make each part correct:

* **Dashboard state.** The stream, the status poll and the fallback poll are
  three clocks for one consensus. A stale report may not move the display back
  or reopen a committed height; a vote or a proposer may not survive into a
  round it was not observed in; the block history, fed by two goroutines, stays
  increasing.
* **Tracker.** Heights and rounds are evicted by limits while late votes for
  them arrive. The detector may not outlive its evidence, nothing evicted may
  come back, coverage figures and running power totals must equal a recount, an
  alert is raised once, and a report may not change while its version does not.
* **Orchestrator.** `handleVote` takes three locks in turn, the status poller
  decides on snapshots that are stale when used, a full channel drops its oldest
  event, a wake-up may arrive while the poller is busy.
* **Event bus.** `Publish` holds only a read lock, so two publishers race
  between the failed send, the drop and the second send; a cancel closes a
  channel that a publisher is about to use.
* **Web stream and browser.** A queue that drops or merges frames, sequence
  numbers that must make every loss visible, repair requests that are combined
  on a timer, subscription changes in flight, reconnection.
* **Browser store.** The browser repeats the collector's decisions on patches
  that overtake snapshots, go missing or come twice. It may not join votes of
  two rounds, nor run backwards, and must end at what the server shows.
* **Web hub.** Capacity is reserved before an upgrade and must be given back on
  every path; a shutdown meets upgrades, resyncs and baselines half done.
* **Rounds cache.** One build for many waiters, cancelled waiters, a version
  that changes during the build, a byte count over entries that were replaced
  while something was added to them.
* **Upstream.** Several callers and the WebSocket client move one active
  endpoint; a call must still turn to every endpoint, and neither rotation nor
  circuit breakers may give up one that works.
* **RPC comparison.** The nodes grow and fail between the two questions that are
  compared.
* **Investigation page.** Cancelled requests that have yet to settle, late
  answers, a capture that pauses, a restart of the server.

`PROJECT.json` lists the hazards at their lines with the properties that cover
them.

## 2. Modules

| Module | Models | Run |
|---|---|---|
| `Dashboard` | the state struct and every callback passed to `Mutate` by the modelled handlers, in any order | `dashboard` |
| `Store` | the display of one browser tab over `Dashboard`: publishing, dispatch, the reducer | `dashboard` |
| `Comparison` | the poller that compares application hashes | `dashboard` |
| `DashboardProofs` | theorems about `Dashboard` | - |
| `Archive` | what the investigation archive promises to its readers (abstract) | through `Tracker` and `RoundsCache` |
| `Tracker` | the tracker struct and its exported operations | `tracker` |
| `Orchestrator` | the goroutines, composed of `Dashboard` and `Tracker` | `orchestrator*`, `signals` |
| `EventBus` | the bus, publishers and subscribers | `signals`, `bus_refused` |
| `WSQueue` | the outgoing queue of one browser connection | through `Stream` |
| `Stream` | the web hub, one connection and the browser's stream client | `stream*` |
| `WSHub` | the registry of connections, the shared resync timer, shutdown | `sessions` |
| `Investigation` | the browser's poller, its report client and the rounds page | `sessions` |
| `RoundsService` | what the rounds endpoint promises, over `Archive` (abstract) | through `RoundsCache` |
| `RoundsCache` | the rounds endpoint and its cache, over `Archive` | `rounds` |
| `Endpoints` | the configured nodes | through `Upstream` and `Comparison` |
| `CometWS` | the upstream WebSocket client | `upstream` |
| `RPCPool` | the HTTP client with failover | `upstream` |
| `Upstream` | `CometWS` and `RPCPool` over the same nodes | `upstream` |
| `TrackerProofs` | theorems about `Tracker`, and that it implements `Archive` | - |
| `OrchestratorProofs` | theorems about `Orchestrator`, and that it implements `Dashboard` and `Tracker` | - |
| `RoundsCacheProofs`, `EventBusProofs` | theorems about `RoundsCache`, `EventBus` | - |
| `StoreProofs`, `StreamProofs` | theorems about `Store`, `Stream` | - |
| `EdgeProofs` | theorems about `Upstream`, `Comparison`, `WSHub`, `Investigation` | - |

Each `MC*` module holds the constants and, where the full next-state relation is
too large or two components share a run, a variable (`part`, `callers`,
`against`, `second`) that is chosen in the initial state, never changes, and says which
steps a behaviour has. `MCSignals` joins `MCOrchestrator` and `MCEventBus` in this way.

**Dashboard.** `s` is `StateData`. A Go function that edits the struct is an
operator from struct to struct with the same name (`AdvanceRound`,
`MergeValidatorRound`, `AppendBlock`, ...); an action applies the callback of
one handler. The inputs are any heights, rounds and steps a node may report,
negative rounds and rounds above `MaxInt32` included, because `advanceRound`
checks for them. Two abstractions: a vote cell and a proposer flag remember the
position of the event that set them (the program does not; it is what the
properties speak of), and the time stamps of `Health` are `never`, `fresh` or
`old` relative to `StaleAfterMs`, which is all that `ModeAt` distinguishes.

**Store.** `view` is the part of the browser's `Snapshot` that patches change,
`bus` the hub's channel, `pending` what a goroutine has done to the state and
not yet published: the event loop and the fallback poller publish after they
have given up the lock, so a snapshot or the other's patch can come in between.
`VoteReceived`, `RoundChanged` and `BlockCommitted` are the branches of
`reduceEvent`. The way from the hub to the tab is `Stream`'s matter; what that
module establishes (frames arrive in order, and after a loss nothing is taken
before a baseline) is assumed here, so the tab is shown as it is once everything
has arrived, and `feed` says what it takes. The exception to that assumption is
the finding of `stream_profile`. `missed` is a history variable: the state has
changed in a way no patch tells of. Those ways are part of the model: a full
channel; a status reply; a validator set; a fallback reply for the displayed
round, which clears the votes of the server and not of the tab; the vote of a
validator that is not on display, which moves the server's position only; and a
block at a height the status poll has committed already. All of them wait for
the next snapshot.

**Comparison.** `comparison` holds the locals of `refreshRPCComparison`: the
report under construction and the goroutines that have yet to answer
(`wg.Wait`). Nodes grow, fork and fail meanwhile; a node's application hash
stands for its block.

**Tracker and Archive.** `t` is the `Tracker` struct with the archive inside it.
An operation runs under the tracker's mutex, so it is one action, and the
`...Locked` helpers are operators. Group powers, revisions and eviction marks
are computed as in the code. Two history variables: how often an alert was
requested for a round, and the rounds ever archived. Times and monikers are
left out; an identity longer than `investigationIdentityLimit` is a member of
`Oversized`. `Archive` keeps of all this what a reader can tell: which heights
are held, and per height a revision of the evidence, how far the commit is known
and how many rounds were lost. `Tracker` is shown to implement it, and the
rounds endpoint is checked over it, so the two need not be checked together.

**Orchestrator.** `s` and `t` are the variables of the two modules above, which
it instantiates; a step is one lock-protected call, so every other goroutine may
run between, say, `ObserveVote`, `Mutate` and `IngestVote` in `handleVote`. A
goroutine's local state is a record with a program counter and the values it
keeps across steps (`seed` is the snapshot `refreshStatus` took before it
applied the reply). `wsEvents` is a bounded sequence; the handler's "full, drop
the oldest, send" is two steps. A poller's tick and request are folded into the
step where the reply is read, except for the validators poller, whose wake-up is
the subject of a property.

**EventBus.** Publishers interleave at every channel operation. The order in
which `Publish` visits subscribers is a Go map's, so any.

**WSQueue and Stream.** `c` is the server's `wsClient`, `b` the variables of
`createWS`, `down` the frames between the writer and the browser, `b.up` the
commands the server has not read. `dispatchMu` makes a dispatch, a tick and a
resync atomic; the pumps and the browser interleave with them. The payload is
abstracted to what loss means: change `k` of the state makes version `k`, patch
`k` carries it, a snapshot holds changes `1..v`, and `b.have` is the set of
changes on display. The state may be ahead of the hub, as the bus is between
them. The four dashboard channels, which the browser always switches together,
are one. Refusals that depend on the clock are the bounded action `SlowClient`.
The browser's connection is three values because the code has three: the socket
(`ws`), the session probe (`opening`) and the reconnect timer, which can be
armed while a socket is open. The model follows the socket the browser listens
to.

**WSHub.** `phase[c]` says where the handler of a connection and its pumps are,
`closed[c]` how far `signalClose` and `close` have come. A step is one critical
section of `mu` or `resyncMu`; `dispatching` is `dispatchMu`. A connection that
has ended may be used again, so capacity that is not given back shows. A flush
that cannot prepare its baseline gives up (`ws.go:384-387`): the timer and the set
are cleared already, so its clients get no answer. The history variables `owed`
and `lost` tell these clients from those that were forgotten.

**RoundsService and RoundsCache.** A request is a goroutine; a step is one
critical section of the cache's mutex, one read of the tracker or one wait. A
report is a heap object, because a reader goes on with one that the cache has
replaced; `heap` holds those that somebody refers to, and a new one takes any
identity outside. Closing a channel wakes its waiters at once. Whether a report is young
enough to be shared, and which one is the least recently used, depend on the
clock and are choices. Taking the request and reading the first version is one
step, and giving up the builder slot is one with storing the result.

**Investigation.** JavaScript runs to completion, so a step is what happens
between two returns to the event loop: a click, a timer, a promise that settles,
with the reactive statements it sets off. The page may be opened while the display
is frozen or the tab hidden. A report is the selection it was asked
for, the server's epoch and the version of the evidence; its ETag is all three.

**Endpoints, CometWS, RPCPool, Upstream.** A node is down, silent (it answers HTTP
but sends no event), noisy (what it sends are acknowledgements or events that do not
decode, which go by without the client being live but extend the read deadline,
`client.go:204-225`, so it keeps the connection) or good. `CometWS` is `Run` and
`connectAndPump`, with the attempt counter kept modulo the number of endpoints, as
the wait may have any length. `RPCPool` is `do`, one attempt a step, with the
circuit breaker as the external package documents it, and `AllValidators`, which
calls `do` for every page. `Upstream` adds the lifecycle callback through which the
live endpoint of the one becomes the active one of the other. The pool sorts primary
endpoints first and the WebSocket client does not; the model has one order.

## 3. Runs

| Run | Shows | Bounds | States |
|---|---|---|---|
| `dashboard`, part server | no order of observations breaks the display or the history | heights 0..3, rounds -1..2 with `MaxRound` 1, two validators, two validator sets, room for two blocks | 0.6 M with the other parts |
| part store | a tab never joins two rounds nor runs backwards, and agrees with the state unless a change went untold | two rounds of height 1, which may commit, and one of height 2; fallback replies for the former; one voter, a change of the validator set, a channel of one | |
| part comparison | a verdict is about one height of one chain | three nodes, two heights, a fork at each, another chain | |
| `tracker`, callers retention | eviction, late votes and commits in any order keep detector, archive, coverage and history consistent | three heights with room for two, two non-adjacent rounds with room for one | 128 k |
| callers evidence | one round at its evidence limits, with conflicting, unknown, oversized and malformed input: bounds, report figures, revisions | one known and two unknown validators, room for one unknown and two hashes | |
| callers alerts | one alert per round and exact power totals, also with a validator set that arrives after the votes | two equal validators and one unknown, two hashes, room for one round | |
| `orchestrator`, against status | event loop, status poller and validators poller interleaved: the composition implements `Dashboard` | two heights, one validator, channel of one | 472 k with the other parts |
| against fallback | event loop and consensus fallback, with the stream failing and recovering | two rounds, room for one, channel of one | |
| against voters | what is on display is accounted for, also what the tracker refused before it had a roster | two validators, archive room for one unknown voter | |
| `orchestrator_unknown_voters` | finding, see below | as above | |
| `orchestrator_first_vote` | finding, see below | one validator that signs two blocks | |
| `signals`, part token | all goroutines: every validator-set update leads to a refresh | updates only | 99 k |
| part bus | order, reported loss, no panic, no blocking | two publishers of three events, a channel of two | |
| `bus_refused` | finding, see below | two publishers, a channel of one | |
| `stream` | no loss is silent, the queue is sound, no lost wake-up, and the display converges | two changes, one periodic snapshot, one action of the user, one failure, any two of these in a behaviour, three kinds of page to open on; room for two frames and three units, a snapshot or patch being two | |
| `stream_profile` | finding, see below | as above, no failure, a larger queue | |
| `rounds` | the endpoint implements `RoundsService`; the charge is exact; a flight is somebody's | two heights with room for one, two readers (one of them compared with `RoundsService`, the other either shares its height, or competes with another one, also with captures), one builder, one variant a report, room for four units | 0.8 M |
| `sessions`, part hub | capacity is given back on every path, a shutdown completes and lets go of everything, a resync is answered or its baseline failed | two connections, limits 1 and 2 | 50 k |
| part page | the poller never stops nor runs twice, and what is on display is what is selected | two selections, one change or restart of the server | |
| `upstream`, part ws | the rotation comes back to a good endpoint; with one caller of the pool | two endpoints, each good, down, silent or noisy | 200 k |
| part calls, part roster | a failed call has tried everything, callers succeed again, pages belong to one height | two callers, breakers that open at two failures; two heights with other validators, one to a page | |

Why the bounds are enough to mean something: every limit in the code (history,
rounds, hashes, unknown validators, channels, clients, cache bytes and variants,
breaker) is exceeded by at least one in a run, but for the number of cached
heights: with two heights the cache trims by bytes only (`ChargeIsExact` is proved
for any number); three heights give "below, at and
above" an eviction mark or a commit, and rounds 0 and 2 leave a gap to count.
The queue of `stream` overflows by count (small frames) and by bytes (two
patches), before and after the first baseline; because a tab may open on any
page, one action of the user reaches every change of profile. In `store` three
positions are a round, the next round and the next height, which are the three
comparisons of the reducer. Two endpoints suffice for a moved active endpoint to
make a walk miss one; the theorem of `EdgeProofs` covers more.

**Refinement.** Three detailed modules implement abstract ones, each checked as a
property of its run:

* `Orchestrator` implements `Dashboard` (`ImplementsDashboard`): every step of
  every goroutine is a step that `Dashboard` allows or leaves `s` alone. The
  interesting part is `BlockReply`, which requires a block fetched over HTTP to
  be at a committed height: the poller applies the status first.
* `Tracker` implements `Archive` (`ImplementsArchive`), the mapping being
  `ReaderView`: an observation raises the revision of one height, an eviction
  takes the oldest, nothing evicted comes back, and a commit is filed once.
* `RoundsCache` implements `RoundsService` (`ImplementsService`): a full answer
  is at least as new as its request; a compact one may be a moment older, but
  never from before a commit or an eviction that was known when the request
  began, nor older than what the same reader has seen.

**Fairness.**

* `Orchestrator`: the loop and the client's handler run while they can, a
  `select` eventually takes a token that stays in its channel, and a request
  ends, because each run of a poller has a 30 s timeout. Nothing is assumed of
  the tickers, the stream or the replies, so `UpdateRefreshes` does not rest on
  the periodic refresh.
* `EventBus`: a goroutine inside `Publish` keeps running; nothing is assumed of
  the subscribers.
* `Stream`: the hub's loop, the resync timer and the pumps run while they can,
  the network delivers and requests are answered but for `MaxFailures` times,
  and the browser's timers fire. Nothing is assumed of the periodic snapshot, so
  `Converges` shows that resync, gap detection and the 8 s baseline timer suffice
  without it. That timer is taken to be longer than a baseline that is on its way
  needs (the hub answers within 250 ms), except for the bounded `EarlyTimeout`.
* `WSHub`: a handler and a flush go on, and get a mutex they ask for again and
  again (Go's mutex is starvation free, hence strong fairness); the closing loop
  and an armed timer are not interrupted. Nothing is assumed of the clients, nor
  that a flush succeeds.
* `Investigation`: timers fire, a request settles by its timeout, and a server
  that is asked again and again answers in time now and then.
* `Upstream`: `Run` goes on until it is stopped, callers go on calling, an
  attempt ends by its timeout, an open breaker by its own. Nothing is assumed of
  the nodes; `LiveAgain` and `CallsSucceedAgain` say in their premises that one
  of them recovers. `LiveAgain` also needs that no node stays noisy: the client
  would not leave it, since any message extends the deadline.

Deadlock is checked except where the system really stops: on the bus, where all
publishers may be done and every channel empty; on the stream, where a hidden
tab has no connection and no timer; on the hub after its shutdown and on a page
that was left; and upstream, where the context may be cancelled while all nodes
are up and the chain is at the bound.

**Findings.** Four runs show that a comment or a document says more than the code
does.

* `orchestrator_unknown_voters`: "so every consumer sees the same acceptance
  decision as the authoritative state" (`orchestrator.go:428-429`).
  `refreshValidators` puts the rows on the dashboard (line 561) before it gives the
  tracker its first roster (line 571). In between every voter is unknown to the
  archive, and a round takes `UnknownLimit` of those, 64 in the code
  (`archive.go:183`). The dashboard accepts and publishes the next vote, while
  `IngestVote` drops it (`tracker.go:148`). `DisplayedIsAccounted` states what does
  hold: the vote is counted, or its round is flagged as truncated and full.

* `orchestrator_first_vote`: "Keep the first observation, matching the tracker's
  deduplication" (`orchestrator.go:414`). The dashboard keeps the first vote
  since its row was created or cleared; the tracker the first of the round. A
  vote counted before the validator list has loaded is not on display, and a
  later conflicting vote of the same validator is shown.
* `bus_refused`: "if a subscriber's buffer is full, the oldest event is dropped"
  (`bus.go:135-136`). With two publishers the freed slot can be taken by the
  other one; then the new event is lost too, and the counter is raised once for
  the two. `Delivery` states what does hold: no loss leaves the counter at zero,
  a count stands for at most two events, and what arrives is in order.
* `stream_profile`: "Use the ordered subscription-command then ping/pong barrier
  for profile changes, followed by an authoritative resync/context baseline
  before applying patches" (`docs/CAPACITY_IMPLEMENTATION_PLAN.md:32`). Any
  snapshot ends the wait for the baseline, also one that was in flight before
  the page changed; a patch can then be applied although earlier ones were
  filtered out by the server. `LossVisible` states what does hold: the resync is
  still under way and repairs the display.

Observed while modelling, and stated by no comment as a promise:

* The endpoints of the WebSocket client and of the pool agree when the client
  goes live (`SetActive`), not always: a call that is under way, or one that
  fails over, moves the active endpoint again.
* `attempt` starts over at 0 after a live connection and is raised before the
  next dial, so with an endpoint 1 that goes live and fails again and again,
  endpoint 0 is never redialled. `LiveAgain` therefore promises that the client
  is live again and again, not on which endpoint.
* A context snapshot raises the height over the rows of an older one. They are
  not joined to newer votes, as no patch is taken before a baseline; that is why
  `ViewOfOneRound` speaks of the displayed round only while patches are taken.

## 4. Proofs

`DashboardProofs` proves, for every set of heights, rounds and validators and
every history limit, from `DashboardDomains` alone: the type invariant,
`ActiveAboveCommitted`, `RoundViewCurrent`, `DisplayIsCurrent`, `BlocksOrdered`
and the action property `NeverBackwards`.

The inductive invariant is `IInv == Sound(s)`: for some validator set `V`, the
struct has its shape with rows for `V`; the round view is loaded for the
displayed round or is not loaded and has no rows; every row is `Current` at the
displayed position; the displayed height is above the last commit; the block
history is increasing, bounded and committed. The properties cannot be proved
one by one: `MergeValidatorRound` keeps observations only if the view is of the
displayed round, so `DisplayIsCurrent` needs `RoundViewCurrent`; a commit resets
the display only if the height was active, so it needs `ActiveAboveCommitted`;
and a view that is not loaded must have no rows, or `RestartView`, which skips
it, would leave stale ones behind. One lemma per operator says what it does to a
sound struct (`AdvanceRoundOK`, `AppendBlockOrdered`, ...), one step per action
applies it, and a second group of lemmas relates the struct before and after for
`NeverBackwards`.

`EdgeProofs` proves, of `Upstream`, for every number of endpoints and of concurrent
callers, from `EndpointsAssumption`: a call that fails has turned to every
endpoint (`EveryEndpointIsTried`).
`EveryEndpointTried` speaks of calls that have ended; the inductive invariant
`PoolInv` says what holds on the way: a call has turned to the endpoints from
its start up to the current one (`TriedBefore`), the current one included once
the request is on its way. `RotationCovers` is the arithmetic: N steps modulo N,
from any start, reach every endpoint. The start is a local copy, which is why
moves of the active endpoint by others disturb no call. `RosterIsOneSet`
(`RosterSound`) adds `PoolAssumption`, which says that a validator set is a
sequence without repetitions. Its invariant is that what a call has collected is
the beginning of the set at the height it has pinned, and ends at a page
boundary unless it is complete (`PagesOK`); `PageCarries` shows that the next
page of the same height extends it, and a page of another height is refused.

Of `Comparison`, from `EndpointsAssumption`: `ComparisonSound`
(`PublishedComparisonSound`), with `Endpoints` for an environment that grows,
fails and recovers between any two steps. `ComparisonInv` says of each of the
two rounds of requests what the rows hold that have been settled and what is
still asked for: in the second round a row is of the chain of the first endpoint
and its hash is the one its node has at the one height. It survives because a
node only adds blocks.

Of `Investigation`: `PollingContinues` (`PagePollingContinues`) and the action
property `ReportIsSelected` (`PageReportIsSelected`), for all selections and
request identifiers. Neither is inductive. `PageInv` adds that the requests of a
poller are the active one and no other (`Alone`), which the `finally` of `run`
keeps although it is entered late; that a page not yet mounted leaves the poller
at rest, so that mounting finds nothing to stop (`Attends`); and that a request
which will count when it settles was made for the present selection unless the
page is paused, and offers the ETag of what is cached (`Consistent`).

`TrackerProofs` proves, for all heights, rounds, validators, hashes and limits,
from `DomainAssumption`, `LimitAssumption` and `RosterAssumption` (a validator
set is finite): the limits, those of the history included, and that an observation
which they keep out leaves a flag where it should have been (`RetentionIsBounded`),
one alert per round (`AlertsOnce`), `DetectorSound` (`DetectorIsSound`),
`ReportExact` (`ReportIsExact`), the action property `ArchiveHistory`
(`RevisionsTellTheTruth`: revisions and versions change exactly when the evidence
does; a round, its votes, its roster and its flags stay as they are or grow until
they are evicted; eviction marks and commits are not taken back) and the refinement
of `Archive` (`ArchiveImplemented`).
The inductive invariant `TrackerInv` says of every archived round and height that
it is well formed and within its limits, that what is held lies above the
eviction mark and not above the newest height, that a live round is one the
archive holds, above the committed height until it is resolved and then with the
canonical hash the archive has, and that a round that alerted keeps its mark or
is closed for good (`AlertOK`). The last needs an order on trackers, `Later`, that every call
respects: a round closed by eviction or commit stays closed. The hard call is
the vote for a round the detector has pruned and the archive has not: it may
come back only with its evidence, which is what `IngestVoteOK` shows. For
`ArchiveHistory` every operator is related to the archive it starts from
(`Revised`): no change without a higher revision, no revision without a change.
For the refinement the same operators are followed once more in what a reader
sees of them (`ObserveVoteSeen`, `ArchiveCommitSeen`, ...), and each call is
shown to be one step of `Archive` or none: `SeenIsStep` for observations,
`RosterIsStep` for validator sets, `CommitIsStep` for commits. A call that
creates a round, evicts another and records a vote raises one revision several
times, and by more the more rounds are kept; `ReaderView` therefore gives
`Jumps` in terms of `RoundLimit`.

The powers are sums over sets of validators, defined in the library by a fold.
The module first proves that such a sum is what one expects: a set of naturals
has a least element (`LeastNatural`), hence a claim known of a set of subsets
that holds `{}` and is closed under adding an element is known of the whole
finite set (`FiniteInduction`), hence the fold is the sum in any order (`Total`),
and disjoint sets, and the groups of a vote, add up (`PowerOfUnion`,
`GroupsAddUp`). `DetectorInv` then adds to `TrackerInv` that the powers of every
live round are those of a recount (`Weighed`), which a roster that arrives later
must restore (`ReweighWeighed`), and that the history is filed by height and
round and tells of committed heights only (`HistoryOK`); a commit appends above
them, whatever the retention cuts (`HistoryGrows`). `CoverageInv` adds that the
counters of an archived height tell how many rounds it has ever held and lost
(`Covered`): a lost round is at or below the eviction mark, so a round above it
is a new one. `everSeen`, a variable of the model only, is what they are compared with.
`ReportIsExact` has the hypothesis `HashLimit > 1`, which the code's
`InvestigationHashLimit` meets: if a vote could keep only one hash, a validator who
signed two would be marked as conflicting and be in one group.

`OrchestratorProofs` proves, for all events and replies and every capacity, from
`OrchestratorDomains` and `EventDomains` (what the decoders let through): every
step of every goroutine is a step of `Dashboard` or leaves it alone
(`DashboardImplemented`, which is `ImplementsDashboard`), likewise of `Tracker`
(`TrackerImplemented`), the tracker never runs ahead of the dashboard
(`TrackerStaysBehind`), and so what is proved of `Dashboard` holds behind the
orchestrator (`DisplaySound`). The inductive invariant `OInv` is `IInv` of
`DashboardProofs` with what the goroutines carry between two locks: the event
loop has committed to the dashboard the height it is about to tell the tracker,
and the status poller fetches only blocks it has applied the status of. Both
survive because the committed height of the dashboard only grows
(`DashboardStep`).

`DisplayAccounted` proves `DisplayedIsAccounted`, from `TrackerDomains` as well (the
limits are positive, a roster is a finite map to powers, as `RosterAssumption` of
`Tracker` says). It relates two structs that are guarded by different locks and
forget by different rules, so its invariant, `TallyInv`, needs all of `TrackerInv`
and says at which stage of `handleVote` a vote may be in one and not in the other
(`Backed`): accounted for, that is counted and on file, or refused by a round that
is full of unknown voters and flagged (`Tallied`); about to leave the display,
because the vote that the archive already has moves it to another round; or the vote
that `IngestVote` is about to count, already on file. What the limits evict cannot
be on display because the archive is never ahead of the dashboard (`Within`): every
height and round it has been told of is one the display has reached or that has
committed, with the one exception of the vote that is being handled (`Ahead`).
Eviction takes the oldest first, hence never the position on display. The display's
side is `DisplayMovesOn` (a position is never left but for a higher one or a commit
that covers it) and `KeptIsSame`, the tracker's side `TrackerStays`;
`ArchiveGoesAhead`, `DisplayCatchesUp` and `DetectorCatchesUp` are the three steps
of `handleVote`, and `QuietStep` covers what the pollers do meanwhile. The lemmas
`Same...` say that the calls of `Tracker` that `Orchestrator` instantiates are those
`TrackerProofs` speaks of.

The theorem has no hypothesis on the number of validators. A vote whose address or
hash is longer than the archive takes (`Oversized`; both are of fixed length in the
protocol) is outside the property. The flag is the round's and not the voter's
(`Crowded`), because a voter that was refused while unknown may be filed later
with its second, conflicting vote, once the roster is there; the first vote, which
is on display, is then still missing from the report.

`EventBusProofs` proves, for all publishers, subscribers, kinds and capacities,
from `BusAssumption`: `NoPanic` (`CancelNeverPanics`) and `Delivery`
(`EventsInOrderLossCounted`). The inductive invariant `BusInv` says that whom a
publisher has yet to serve is subscribed (`InFlight`: a cancel waits for the read
lock) and has neither received nor been sent its latest event (`Behind`), which
is why two sends to one channel keep each publisher's order; and that what is
lost and not counted is at most one event for each publisher between its two
sends (`Accounted`).

`RoundsCacheProofs` proves, for all finite sets of requests and heights and every
number of lanes, slots, entries and variants, from `CacheAssumption` and
`NothingAssumption`: `SingleFlight` (`NobodyWaitsForNobody`),
`RevisionIdentifies` (`RevisionsIdentify`) and the refinement
`ImplementsService` (`ServiceImplemented`). The argument has three invariants,
each resting on the one before. The first,
`WaitInv`, replaces the counts of the property by existence and
uniqueness: a height in `flights` has a request that builds it, no height has
two, an encoding in `variantFlights` of a report has a request that encodes that
report under that key, and the occupied slots are the requests at three program
counters. It needs to know that a report somebody refers to is in the heap and
keeps its identity (`HeapOK`), or a request could wait for the encoder of another
report; that a new report finds an identity at all is a pigeonhole argument
(`SomeIdIsFree`). One lemma per action shows that it is kept; the delicate ones
are `PublishWaits` and `StoreVariantWaits`, where one step ends a flight, wakes
everybody who waited for it and lets go of reports.

`AnswerInv` says what can be answered. What has been read stays known: whatever
a version, a report or an encoded variant says of a height was true when it was
read, and since the archive only grows or evicts, it is below what the archive
says now, or the height is gone for good (`Known`, `Catalogued`). And a version
and a report of equal evidence were read of the same block (`Matching`), however
long ago either was read. That is what lets `withCatalogue` join the two, and
what makes the ETag identify the answer.

`ServiceInv` says that answers never go back. No request holds a version or a
report older than the floor it began with (`FloorAt`). A report is its builder's
alone until it is published (`PrivateAt`); the entry of a height is no newer than
what is being built for it (`EntryBelow`), what a request has chosen to answer is
no newer than the entry or than what is being built (`ChosenBelow`), and what a
reader was shown is no newer than any of these nor than what it has chosen now
(`ShownAt`). So a builder that lands late cannot replace a report by an older
one: there is one builder, and it captured after the entry was made. The three
lemmas about `PublishEntry`, `AfterBuild` and the requests that it wakes carry
the weight (`PublishServes`); eviction by `Trims` only takes entries away. The
refinement maps a request to `Asking` (its height, view and floor, or nothing),
and every step to `Ask`, `Abandon`, `Answer`, a step of the archive, or none;
`AnswersCurrent` derives the promise `Current` from the two invariants. TLC
checked `AnswerInv` and `ServiceInv` on the constants of `MCRounds` before they
were proved.

`ChargeInv` yields `ChargeExact` (`ChargeIsExact`), for the same parameters. The
bill is a sum over the entries, so the lemmas on sums of `TrackerProofs` are
here once more. A variant must be charged once and to the report that holds it:
an encoder has a flight to itself and its variant is not there yet
(`EncodersOK`), and a report that is the entry of its height is the entry of no
other, which `AnswerInv` knows. `BillWithout` takes one entry off the bill,
`TrimsBill` all that trimming drops, and `StoreVariantCharges` and
`PublishCharges` show that the running total which trimming starts from is the
charge of what is there, whether a report was replaced, its variants were thrown
away, or its variant was finished after another report took its place. TLC
checked the parts that are not in `ChargeExact` first.

Of `WSHub`, for every finite set of connections and every limit, `EdgeProofs`
proves from `HubAssumption` alone: `AdmissionExact` (`HubAdmissionExact`) and
`ShutdownComplete` (`HubShutdownComplete`). The inductive invariant `HubInv` has
`AdmissionExact` as a part and adds what makes it last: nobody is closed before
registration, or `Unlist` would take back capacity that `Register` has not yet
passed on; and once the hub is closing every client is in `closer.left`, so that
an empty `left` means an empty registry. That needs the second look at `closing`
in `Register`. The counting lemmas rest on the library's facts about finite sets.

`StreamProofs` proves `QueueSound` (`StreamQueueSound`) and `LossVisible`
(`StreamLossVisible`) for every limit of the queue, any sizes of frames and any
number of changes, ticks, failures and actions of the user. Neither is inductive:
that a loss is visible now says nothing of the page the user returns to, nor of a
browser that is waiting for a baseline it asked for before the socket broke.
`StreamInv` ties the two ends of a connection together (`Pair`):

* `ClientSound`: what the mutex of a client keeps, bytes and numbers; `InOrder`:
  numbers rise from the network into the queue, and the last one is there.
* `OneSocket`: without an open socket there is nothing on the network, no
  command and no resync pending.
* `Asks`: whoever resumes the dashboard has asked for a resync after that, in the
  order of the commands (`Repairs`), and whoever shows it and has left it is about
  to resume it (`Returns`).
* `Visible`: who has read the frames up to number s will meet a baseline, a
  missing number, or every patch it lacks (`Told`), unless a resync it asked for
  is still to come; and the same holds of whoever starts from a baseline that is
  on the way (`Followed`). A snapshot that supersedes the last of the queue keeps
  this: it takes the number of the one it replaces and lacks no more than it did.

One lemma per operation of the queue shows that `Told` survives it (a removed
frame leaves a number that nobody has, a new one has the latest number), one per
handler of `ws.ts` and `ws.go` that `Pair` does. `StreamInv` was checked by TLC
on the constants of `MCStream` (0.4 M states) before it was proved.

`StoreProofs` proves, for all heights, rounds, validator sets and channel
capacities, from `DashboardDomains` and `StoreAssumption`: `ViewOfOneRound`
(`StoreViewOfOneRound`). The inductive invariant `TabInv` carries `IInv` along,
because a snapshot is as sound as the state it is taken of, and says of the tab:
its rows are current at some position (`Fixed`), which is the displayed one and
above its last commit while patches are taken (`Following`). `Fixed` is what a
context snapshot leaves, `Following` what a baseline restores. One lemma per
patch (`VoteReceivedOK`, `RoundChangedOK`, `BlockCommittedOK`) shows that the
reducer keeps `Following`, whatever patch it is given: order, loss and repetition
of messages never enter the argument.

From the same assumptions, `ViewNeverBackwards` (`StoreNeverBackwards`). A patch
cannot take the tab back by itself (`ReduceOnward`: the reducer drops what is
below the row); a snapshot could. `BehindInv` therefore adds to `TabInv` that the
tab is never ahead of the state, and that every message on the bus or in the hands
of a publisher tells of a place the state has been at (`Past`), so that applying
it late cannot put the tab ahead. That the state only moves on is `NextForward`
of `DashboardProofs`: every change of the state in `Store` is a step of `Dashboard`.

With the assumption `0 \notin Steps` in addition, `ViewAgrees` (`StoreViewAgrees`):
once what was published has arrived, the tab shows the collector's state, unless an
event was lost or a change went untold (`missed`). The assumption is needed: a node
reports the steps 1 to 8 and `stepFromString` makes 0 of a name it does not know. If
round 0 of height h + 1 has begun with step 0 when block h is committed,
`CommitBlock` raises the collector's step to 1, while `BlockCommitted` of the
browser, which is at h + 1 already, leaves it. `AgreeInv` says what the tab may lack
while messages travel, seen from the display `t` of the state:

* `Neat`: a display has a step once it has a height, and no vote of a later step.
  Without it a vote could move the one side's step and not the other's.
* `SentOK`, of each message in flight: it tells of `t` or of what `t` has been,
  and a vote of the place of `t` is the vote that `t` shows.
* `LastMark`: the last proposer in flight is the one `t` shows, so that an
  earlier one cannot stay. Only the event loop tells of proposers, so that the
  order of one publisher is enough.
* `Aligned`: what the tab lacks of `t` is in flight. If it is not at the place of
  `t`, a message that leads there is; likewise for the commit, for each vote and
  for the proposer.

The proof has one lemma for taking a message (`Dispatched`: whatever the tab
lacks afterwards is still in flight), one for telling one (`NewsTidings`: what the
change adds to `t`, the message carries), and one for each callback of the
collector, which shows that its transition and the browser's reducer do the same
(`CommitSeen`, `RoundSeen`, `VoteSeen`, `FallbackSeen`). Before it was proved,
TLC checked `AgreeInv` on the store part of `MCDashboard`.

Every invariant, action property and refinement of a passing run is stated by a
theorem. Only model-checked: all liveness (`UpdateRefreshes`, `PublishReturns`,
`Converges`, `ShutdownDrains`, `ResyncAnswered`, `SelectionIsShown`, `LiveAgain`,
`CallsSucceedAgain`). Liveness and `ENABLED`, which fairness uses, are outside what
the prover supports, as are recursive operators and the library's induction
theorems, which take an operator as a parameter.

## 5. Not modelled

* Dashboard and orchestrator: error texts, names, block contents and wall-clock
  times; chain enrichment, the upgrade and block-time pollers, which write one
  field each that no transition reads; decoding of node replies.
* Comparison: a reference whose newest height is 0, a node that answers with
  another block than it was asked for or with one of another chain.
* Upstream: the length of waits, hence a caller whose own 30 s are used up by
  several endpoints that hang, and a node whose noise is only now and then; TLS and
  URL errors other than a failed dial; the LCD querier, which keeps no state.
* Stream: other clients with other channel sets, divergence-only subscribers, the
  command budget, authentication failures, frames that do not parse, events the
  bus dropped before the hub (see `Store`), messages that cannot be encoded (a
  dispatch or tick that fails to; for a resync see `WSHub`), and a socket that was replaced while
  open (a page change while the reconnect timer runs opens a socket and leaves
  the timer armed; when it fires the first socket is abandoned, not closed).
* Store: the divergence panel, the normalisation of payloads, and freezing the
  display, which only chooses between two copies.
* Rounds endpoint: parsing the query, choosing the rounds of a compact answer,
  and answering 304, which depends only on the ETag the model has.
* Investigation page: exporting, routes, servers without the compact view.
* HTTP server, budgets that refill by the clock, rendering, configuration,
  metrics, commands and the replay server. `PROJECT.json` gives the reason for
  each component.

## 6. What could follow

The divergence panel of the store over `Tracker`; the token budgets with a clock.
