# FogHTTP: TLA+ models, checks and proofs

FogHTTP is an HTTP client: a Python package (`foghttp/`) over a native extension in
Rust (`src/`) that runs requests on a Tokio runtime. This directory holds TLA+
models of the parts of it that are hard to test - the ones where tasks, threads, an
event loop and a garbage-collected owner race for the same request - together with
the TLC runs that check them and TLAPS proofs of the safety properties of all but one of them.

Paths below are relative to the repository (`src/` in `PROJECT.json`).

## 1. The system

A call of `client.get(...)` goes through these parts, in this order.

| part | state | operations | talks to |
|---|---|---|---|
| Python clients (`foghttp/client.py`, `async_client.py`, `_client/`) | open or closed, pending telemetry | build a request, call the native client, wrap its errors | native client |
| upload body (`foghttp/_upload_body/`, `src/py/client/upload_body.rs`, `src/core/client/body.rs`) | one bounded channel per attempt, a feeder per attempt, the record of what has left | start, send, finish, fail, close, replay; poll, drop | the caller's source, hyper |
| asynchronous requests (`src/py/client/async_requests/`, `future.rs`) | a registry of running tasks, a completion flag and an asyncio future per request | spawn, finish, cancel, abort all | event loop, Tokio, metrics |
| attempt loop (`src/py/client/transport/`) | method, URL, headers, body, auth and cookie headers, history, retries, trace | route, authenticate, attach cookies, acquire, send, drain, back off, redirect | policies, hooks, acquire gate, upload body, hyper |
| policies (`src/core/policy/`) | the cookie jar | redirect, retry, proxy, SSRF and cookie decisions | attempt loop |
| acquire gate (`src/py/client/acquire/`) | a global and per-origin semaphores, a FIFO queue, gauges | acquire, time out, cancel, release, wake the head | attempt loop, metrics |
| connection gate (`src/core/client/connection_limit.rs`) | a global and per-origin semaphores | acquire for a new connection, time out, sweep | hyper's connector |
| connection telemetry (`src/core/client/telemetry/`, `write_timeout.rs`) | the current use of each connection, idle since, aborted, its task's waker, the write timeout | begin a use, gate writes, flush, finish, go idle, abort, close | hyper, attempt loop, metrics |
| response streams (`src/py/client/streams/`) | body, decoder, permit, terminal state, the read under way | start a read, register it, complete, close, cancel, time out | event loop, Tokio, stream registry |
| streaming decoder (`src/core/response/streaming/`) | a chain of layers, one slot of bytes each | step, refill | streams |
| response body and decompression (`src/core/response/`) | byte budget, codecs | read, decode, charge, refund | streams, attempt loop |
| telemetry journal (`src/core/telemetry.rs`, `src/py/telemetry.rs`) | a bounded journal of events, the opens and connections under way, each request's phase and connection use | record, drain, cancel, seal | connections, attempt loop, Python |
| metrics (`src/core/metrics/`) | counters and gauges | count, snapshot | everything |
| runtime (`src/py/client/runtime/`) | worker threads | share, shut down | clients |

What is hard here:

* *Interleavings.* The gate's lock sections, permit drops and notifications are separate
  steps of many tasks. A stream's state machine is driven from a Python thread, the
  event loop and a Tokio task. A request is finished by its task, by a cancelled
  future or by `close`, and the three race for one compare-and-swap.
* *Cancellation.* Every Rust future may be dropped at every await; what it holds must
  come back in `Drop`. Every Python future may be cancelled before, while and after
  its result is on the way to it.
* *Delivery.* Results cross `call_soon_threadsafe`, which fails when the loop is
  closed; a chunk may be lost between Rust and the awaiting task.
* *Sequences.* Retries and redirects interleave; each rebuilds headers, bodies, routes
  and slots.
* *Reuse.* A connection may only go back to the pool when both bodies have ended
  cleanly. An aborted upload looks to hyper like a finished one. hyper hands a
  connection to the next request before the guard of the last one has run.
* *Atomics without a lock.* The journal's seal, its count of producers and its free places
  are separate words; the abort flag and the waker of a connection's task as well.

What makes each part correct, in a sentence: the gate never exceeds a limit, never
loses a permit or a wake-up and serves in order; a stream ends once, with one owner
for its body; a request is counted once and leaves nothing behind; credentials and
bodies do not leave their origin, and retries do not multiply; connections stay
within their limits; an upload counts as
complete only when all of it has left, and so does a decoded body; a connection is idle only
when its last use ended cleanly, no request writes behind an unfinished one, and every
use ends in the journal, which loses nothing silently and is final after close.

## 2. Modules

| module | models | extends |
|---|---|---|
| `RequestSlots` | abstract: FIFO request slots with a global and a per-origin limit, every operation atomic | |
| `AcquireGate` | `gate.rs`, `pending.rs`, `origin.rs`, `permit.rs` | instantiates `RequestSlots` |
| `AcquireGateProofs`, `AsyncRequestsProofs`, `ConnectionGateProofs`, `ConnectionUseProofs`, `RequestLoopProofs`, `StreamStateProofs`, `StreamingDecoderProofs`, `UploadBodyProofs` | theorems | the module of that name |
| `StreamState` | `streams/state.rs`, `state/decoded.rs`, `response.rs`, `callback.rs`, `coalescing.rs`, `read.rs`, the public async iterator | |
| `AsyncRequests` | `async_requests/*`, `future.rs`, `streams/registry.rs`, `close_resources` | |
| `RequestLoop` | `transport/*`, `core/policy/*`, `py/retry.rs`, `py/client/auth.rs` | |
| `UploadBody` | `core/client/body.rs`, `py/client/upload_body.rs`, `_upload_body/*` | |
| `ConnectionGate` | `core/client/connection_limit.rs`, the connector in `core/client/telemetry/mod.rs` | |
| `StreamingDecoder` | `core/response/streaming/*`, the reads in `streams/state/decoded.rs` | |
| `ConnectionUse` | `core/client/telemetry/mod.rs`, `RequestTelemetry` in `core/telemetry.rs`, the guards in `transport/request.rs` and `response.rs` | |
| `TelemetryJournal` | `ClientTelemetry` in `core/telemetry.rs` | |
| `MC...` | instances for TLC: identities and their symmetry | the module of that name |

Operators whose comment starts with "Mutant" are not part of a model: each is what a
plausible mistake in that code would make of the definition below it, and
`PROJECT.json` says which property notices. `PROJECT.json` also maps every definition
to the lines it stands for.

### AcquireGate

One step is what a task does between two points at which another may interfere: a
section under the queue's mutex, split in two (`immediateGlobal`, `pollGlobal`) where
it takes the origin permit before the global one, because permits are given back
without the mutex; a permit drop; the read of the queue head, and the
`notify_one` that follows it. `pc` is the place in `AcquireGate::acquire` or in a
`Drop`, `exit` why the request is in its wake-up, `target` the entry `notify_head`
read. Semaphore allocations have identities (`Semaphores`), because `OriginGates` holds
weak references: a semaphore is alive while a request keeps its `Arc`, and the map is
swept at `CleanupThreshold`. A `Notify` is one sticky flag per queue entry.
Semaphores are never closed in this code, so the error for a closed one is left out;
so are an invalid timeout (`ValueError` before anything happens) and the diagnostics
that explain why a request waits. `attempts` bounds the acquire calls of a behaviour. The
gauges are there because the same steps change them: the proofs show that `activeRequests` and
`pendingRequests` count what they name, and `peakPending` is behind a remark in section 3; no
property of a run reads them.

### StreamState

One response stream, its callers (`Reads`), its Tokio read tasks, and the event loop's
queue `ready`. A caller goes through `start_read`, `register_read_task`, the start of the
task and the wait for its result; the task goes from the body's frames through coalescing or the
decoder to the delivery; `guard` is what a `StreamReadGuard` has taken out of the state.
`terminal`, `transport`, `permit`, `registered` and `finished` are what `finish` settles. Frames
are numbered, so that a lost or reordered one shows. Content coding is abstract: a
decoder turns a frame into output, nothing, an error or an end. `iterated` says that
the calls come from the public iterator, which has one read at a time; without it the
raw object is used directly. A cancellation may come before the future of a read is done
(`UserCancel`: the callback cancels the stream) or after, while the awaiting task has not yet
run (`WakeCancelled`: the callback completes the read, and the `CancelledError` handler of
`_aiter_bytes` closes the stream). `NoGap` says that either way an iterated stream has ended.
A caller that awaits the raw object itself has no such handler: with a late
cancellation it loses the chunk and its stream stays open. Left out: the
failure of `add_done_callback` on a fresh asyncio future, and of `call_soon_threadsafe` on a
closed loop (`future.rs:114`), which `AsyncRequests` has for the results of requests.

### AsyncRequests

The Tokio task, the spawning call, the asyncio future and the registry entry of
each request; `settled` is `RequestCompletion.finished`, the compare-and-swap that decides
who reports. `close` is `close_resources`: drain the requests, abort them one by
one, then the streams. The event loop may close at any time with callbacks queued.
A spawn borrows the client and excludes `close`, and the start gate cannot be lost
(its sender lives in the spawning call); both are facts of the code, not assumptions.
Not modelled: an allocation of the callback object that fails between the insertion of the entry and
its watch (`spawn.rs:90`, `stream_spawn.rs:108`), which returns without aborting the
request and takes running out of memory, and the branch of `close_resources` in a forked
child (`mod.rs:839`), which abandons everything.

### RequestLoop

`send_request` and `send_stream_request` for one request of one configuration. A header is
a triple of name, who set it (caller, auth, jar) and the origin it was made for: this is
what the header rules can tell apart. One origin stands for its URLs, one header name for its
class, 301 for 302, 307 for 308; time is abstract, so a backoff either ends
or times out. The jar is the set of origins with a cookie, and a response stores cookies for its
own origin only: in the code the scope of a cookie ignores the port and may be a `Domain`, which
cookie matching (section 5) decides. The SSRF policy is
the set of origins it refuses. `taken` counts how often a request body is asked for,
where the code would fail on the second time for a body that cannot be replayed:
the property says that this never happens. The `proxy-authorization` header, which is added per
route inside the connector, is not modelled.

### UploadBody

One body, the channel of each attempt to send it, the feeder of each attempt (a
thread, `kind = "sync"`, or a task of the event loop, `"async"`) and the transport. A
step is a critical section of a channel or of the owner, or one notification
sent after it (`due`). Every chunk is a frame and one unit of length, so a chunk
beyond the content length does not occur (the code sends it, and hyper refuses it). That
hyper asks for no more than the content length is an assumption about hyper, as is
that it drops a body it has finished with. A pending body is polled again when its waker was
woken; a poll without a reason finds what the last one found, and is left out. Not modelled: a synchronous
source on the asynchronous client (a worker thread in between), the bounded joins
and cleanup threads after `close`, and a closed loop.

### ConnectionGate

The connects under way, the connections they open, the map of origin semaphores and the
global one. A connect takes its origin's permit, then a global one, then opens the
connection, which keeps both until it is dropped. Either limit may be `None`
(`limited`). The semaphores are Tokio's and external: first in, first out, and a
permit that comes back is assigned to the first waiter (`assigned`), who may meanwhile
time out or be dropped and then passes it on (`Leave`). As in `AcquireGate`, semaphores
have identities; here the map holds strong references and is swept at
`CleanupThreshold` (1024 in the code, 1 in the run, so that every new origin sweeps). Left
out: the counters of `ConnectionAcquireTelemetry`, a URL without an origin (the client refuses it
earlier), and closed semaphores (nothing closes them).

### StreamingDecoder

The decoder of one stream and the reads that drive it. `layers` is the chain, the outermost
coding first; `input` of a layer is the slot in front of it, `input` of the module the rest
of the last frame. A step picks, from the last layer upwards, the first that can run, and runs its codec
once; ended layers it passes become finished when nothing more can come. Bytes are
counted. The codecs are external: what one call consumes, decodes and hands out is any choice the
library may make (`Turns`), and `Deflate`, `Brotli` and `Gzip` are how the code reads such a result.
Assumed of the libraries: a codec that has decoded output hands out as much as fits (for
gzip, on the flush that follows a write), and it reports its end with nothing left to hand out. An
inflate call that keeps output back although there is room, and a gzip write that would block
(`gzip.rs:54`, not reachable after a full flush), are not offered. A frame has at least one byte: trailers
and empty data frames only make `refill_decoded_input` ask again.
`made` and `eaten` belong to the codec, not to the program. The overflow of the 64-bit
counters, and the memory reservation of the plan, are left out. The check that the next slot is
free (`SlotFree`) never decides anything: that layer is visited first and runs or fails
(`SlotIsAlwaysFree`, section 4).

### ConnectionUse

The uses of pooled connections. Actors are requests and connections, the latter standing for
hyper's task and the `InstrumentedConnection` it polls; `todo` is what is left of an operation that takes several
critical sections or atomic accesses, and each of them is a step. `conn` holds the atomics of
`ConnectionTelemetry`, `timeout` the `WriteTimeoutState`, `lock` the idle mutex where it is kept over
several steps; `phase`, `use`, `cancelled` are the state of `RequestTelemetry`, and `traced` says whether
there is one. `wire`, `produced`, `flushed` are the three facts of `RequestBodyCompletion`.
Assumed of hyper: it publishes the connection while the response future is polled, flushes a
request before it takes the next one of the same connection, and drops the connection when a
poll fails. The atomics are taken as sequentially consistent. `pending_waker` is left
out, because it wakes the task that `io_waker` wakes; that a source has finished is observed only
after its body has left; the clock is abstract, so a write timeout may fire whenever one runs. `Timer`
takes `poll_pending` together with the `clear_request_write_timeout` of the abort that always
follows (`telemetry/mod.rs:361`).
Each request has one hop; a second connection only replaces one that went down.
One consequence of the code that the model shows and that no property forbids:
`begin_request_write_timeout` releases its lock before it aborts the previous use, so a
request whose use has ended in between can be given a late `connection_aborted` event through the
fallback at `telemetry/mod.rs:526`.

### TelemetryJournal

`ClientTelemetry`: producers (connection attempts and requests) look at the seal, count themselves, look
again, reserve a place, send and leave, each of which is a step; the registries of opens and
connections have one lock, the channel is a queue. Python drains, for one request or for all; drains
exclude each other and `close` (the GIL is held). `close_connections` stores the seal, then takes the
registries, still under their mutexes, waits for the producers and settles what is still open. The
store (`Seal`) and the upgrade of the weak references (`TakeRegistries`) are two steps, because a
connection's drop looks at the seal without a mutex: `slipped` has the connections that did so in
between. An event is who it is about and what it says.

The atomics are taken as sequentially consistent. The code orders them more weakly:
a producer adds to the count with `AcqRel` and then loads the seal with `Acquire` (376, 377), the closer
stores the seal with `Release` and then loads the count with `Acquire` (271, 280). This is the
store-buffering pattern, in which these orderings let each side miss the other's write.
`SealedIsFinal` rests on the assumption: on a machine that reorders the two, an event could be recorded after
`close_connections` has returned. (Where read-modify-writes are full barriers, as on x86-64, the producer's
add and the closer's unlock of the mutexes at 279, which is a swap on Linux, keep the order; the language does not
promise it.)

## 3. Runs

| run | instance | states | what it shows |
|---|---|---|---|
| `gate_safety` | 3 requests, 2 origins, limits 2 and 1, queue of 2, 4 calls, sweep at 1 | 195,559 | no permit, limit or wake-up is lost; the gate implements `RequestSlots` |
| `gate_liveness` | 3 requests, 1 origin | 29,525 | every queued request leaves |
| `streams` | 2 reads, 3 frames | 99,778 | one owner, one end; no gap, no poisoned reuse; every read returns |
| `decoder` | 2 layers of any codings, 3 header items, 2 bytes that decode to up to 2 each, input 1, output 2, limit 2 or none | 40,760 | no byte lost between layers, complete means whole, no made-up failure; decoding ends |
| `requests_safety` | 2 requests | 567,559 | completion, cancellation and close in every order leak nothing |
| `requests_liveness` | 1 request | 1,743 | every awaited future resolves, every slot comes back |
| `request_loop` | 3 origins (one http, one forbidden), 2 redirects, 2 retries | 1,434,496 | credentials and bodies stay home; slots, policies and the trace |
| `upload` | 1 attempt, 3 chunks, channel of 1 | 99,822 | complete means whole; every feeder ends |
| `upload_replay` | 2 attempts, 1 chunk, channel of 1 | 2,940,240 | replay and close leave no attempt open; one event serves two feeders |
| `connections` | 3 connects, 2 origins, limits 1 and 1, sweep at 1, 4 calls | 87,122 | limits hold, permits come back, waiters are served |
| `connection_use` | 2 requests, 2 connections, 2 uses in all | 1,797,165 | idle means reusable, no write behind an unfinished upload, every use ends, an aborted task is woken |
| `journal` | 2 connection attempts, 2 requests, a journal of 2 places | 2,460,853 | every open ends once, a connection's closing event is lost in one window only, no other event silently, nothing is recorded after close |

Why these bounds are enough to be interesting. Three requests are the least with a
holder, a head and one behind it; a limit of one per origin under a
global limit of two makes the second permit fail after the first; three
semaphore identities let one be recreated while an old one is dying. Two
reads are one that is under way, and one that is refused, follows it, or finds the stream as the
first left it. Two
redirects go away and come back. `request_loop` checks two families of calls (`MCRequestLoop`):
`CarryingCalls` vary the auth kind and the caller's headers, `PolicyCalls` the methods, bodies, proxy
and SSRF policies and every switch. They are not multiplied, because no policy decision reads a
header or the auth kind. Three chunks through a channel of one fill it,
block the feeder and leave a last chunk to be sent. In `upload_replay` one chunk is
enough to block a feeder, since the error of its source needs room as well. `requests_liveness` has one request
because requests meet only in the queue of the loop and in the lists `close` drains,
which the safety run has with two. Three connects for two origins under limits of one
are a holder, a waiter for its origin and a waiter for the global permit. Two layers are one that ends
and one that goes on; with input one byte and output two, slots are eaten in parts and a codec runs
out of room. Two uses, counted over both connections, are one that ends late and the next on the same
connection, or the first connection's and that of the one a request is moved to; a
connection that was reused and then replaced takes three, and is left to the proof. Two places in the journal are fewer than the events of two attempts. `CHECK_DEADLOCK` is off because every one of these systems may
come to rest: requests end, streams end, counters reach their bound.

Fairness. A task, thread or loop that can run does run, and nothing else
is assumed of callers: weak fairness of each request's own steps and of giving
back a slot (`AcquireGate`: a request ends because `Timeouts.total` or its server
ends it); of the loop, the read tasks, the notifications of an abort, and strong fairness of a
decoder step that yields output, since a decoder that neither yields nor ends does not
exist (`StreamState`); of the loop, the task, the spawn and `close` once it has started
(`AsyncRequests`); of the loop, the feeder, each notification and the drop of the body
(`UploadBody`: a source yields, ends or raises, and every request ends); of each connect, and
of the end of each connection (`ConnectionGate`: a connect succeeds or fails, and
the pool drops idle connections); of the decoder's caller, who goes on reading, and of the
transport, whose silence ends in the read timeout (`StreamingDecoder`). Elsewhere nobody has to
poll a body, close anything, cancel anything or run into a timeout.

The models also show three places where the documentation, or a test, says more than the code
does, and no run states them:

* `core/telemetry/tests.rs` has a test `client_shutdown_closes_registered_connections_once`, and the
  comment at `core/telemetry.rs:227` explains how shutdown claims an open whose future is dropped after the
  seal. For connections the registry is weak, and there is a window: `close_connections` stores
  the seal (271); a connection that is being dropped sees it, records nothing (466) and frees the last
  reference; the upgrade (275) then fails. The connection was told as opened and is never told as
  closed. `OpensSettled` allows this for exactly these connections; without
  `slipped` in its last clause TLC reports the sequence above. `close_resources` aborts the streams just
  before, so drops at this moment are to be expected.

* `docs/timeouts.md:158` calls `peak_pending_requests` the highest observed queue depth; the gauge
  (`pending.rs:186`, `counters.rs:32`) is lowered after the entry has left the queue, so a request
  registered in between makes it one higher than the queue ever was.
* `docs/pyo3-boundary.md:57` says that only a clean end may look like successful completion;
  a read of a raw stream after a manual close (`streams/state.rs:149`) returns the end of the body;
  a decoded one raises.

Types are proved (`TypeCorrect`, section 4) and not part of a run. `TypeOK` states them, for
`ConnectionUse` and `StreamingDecoder` in the proof module; `TelemetryJournal` has none.

## 4. Proofs

| proof module | assumption on the constants | theorems (property of a run) |
|---|---|---|
| `AcquireGateProofs` | `GateAssumption` | `TypeCorrect`, `Conservation` (`PermitsConserved`), `UniqueSemaphore`, `Limits`, `Wakeups` (`NoLostWakeup`), `Refinement` (`ImplementsSlots`), `Fifo` (`NoBypass`) |
| `AsyncRequestsProofs` | `RequestsAssumption` | `TypeCorrect`, `NothingLeaksAlways` (`NothingLeaks`), `NothingEscapesCloseEver` (`NothingEscapesClose`) |
| `ConnectionGateProofs` | `ConnectionAssumption` | `TypeCorrect`, `Conservation` (`ConnectionPermitsConserved`), `Limits` (`ConnectionLimits`) |
| `ConnectionUseProofs` | `UseAssumption` | `TypeCorrect`, `IdleIsAlwaysReusable` (`IdleIsReusable`), `NothingIsWrittenOverIncomplete` (`NoWriteOverIncomplete`), `EveryUseAlwaysEnds` (`EveryUseEnds`), `AbortedIsAlwaysWoken` (`AbortedIsWoken`) |
| `RequestLoopProofs` | `LoopAssumption` | `TypeCorrect`, `CredentialsNeverLeave` (`CredentialsStayHome`), `BodyNeverLeaves` (`BodyStaysHome`), `AuthAlwaysSeesCleanHeaders` (`AuthSeesCleanHeaders`), `SlotAlwaysMatches` (`SlotMatchesExchange`), `AlwaysFailsClosed` (`FailsClosed`), `TraceAlwaysTells` (`TraceTellsAttempts`) |
| `StreamStateProofs` | `StreamAssumption` | `TypeCorrect`, `OneOwner` (`SingleOwner`), `NeverPoisoned` (`NoPoisonedReuse`), `BusyAlwaysHasReader` (`BusyHasReader`), `NeverAGap` (`NoGap`), `EndsOnlyOnce` (`EndsOnce`) |
| `StreamingDecoderProofs` | `DecoderAssumption` | `TypeCorrect`, `NothingIsOverwritten` (`NothingOverwritten`), `FinishedIsAlwaysComplete` (`FinishedIsComplete`), `FailureIsNeverFalse` (`NoFalseFailure`), `SlotIsAlwaysFree` |
| `UploadBodyProofs` | `UploadAssumption` | `TypeCorrect`, `CompleteIsAlwaysWhole` (`CompleteIsWhole`), `LastChunkAlwaysFinishes` (`LastChunkFinishes`), `NoWakeupIsLost` (`NoLostWakeup`), `NoAttemptIsLeftOpen` (`NoAttemptLeftOpen`) |

The theorems hold for all values of the constants that satisfy the assumption: finite or arbitrary
sets of requests, reads, connects, origins; positive limits and capacities; "none" values outside
their sets; bounds of the model that are natural numbers. No assumption says anything of the
program's behaviour. None of the properties is inductive by itself. Each module states an
inductive invariant `IInv`, which TLC checked on the instances of the runs before it was
proved, and each proof has the same shape: one lemma per action (or per kind of action, where
several change the state in the same way), one step per part of the invariant that the
action can disturb, `InitIInv`, `NextIInv`, `Invariance`, and the theorems.

### AcquireGateProofs

The conjuncts of `IInv`, and why each is needed:

* `TypeWeak`, the types without the upper bounds of permits and the lower bounds
  of gauges, which only follow from counting;
* `ControlInv`: each program counter determines who holds the mutex, which request has a semaphore and an
  origin, and what a wake-up is for. Everything else is stated by program counter;
* `GateInv`: a semaphore somebody holds is the one the map names for its origin. This makes
  the weak references safe: a semaphore is made only when the old one is
  dead;
* `QueueInv`: every queued request has one entry, entries are in the order of their ids,
  and the head is who tries. The order is what first-in-first-out rests on;
* `GlobalCount`, `OriginCount`, `ActiveCount`, `PendingCount`: what is available
  and what is held add up, gauges count what they name;
* `NonNegative` and `NoLostWakeup` themselves.

`UniqueSemaphore` is `OneSemaphorePerOrigin` and `Limits` is `LimitsRespected`, which no run
lists since they follow from the same invariant. `Refinement`: under the mapping `Slots` every
step of the gate is a step of `RequestSlots` or a stutter, the slot being taken at
the step that gets the second permit and given back with the first; `Fifo` is the
action property `NoBypass`. The lemmas on sequences (`PushBack`,
`PopFront`, `RemoveEntry`) and on counting (`CountUp`, `CountDown`) are stated once.

### AsyncRequestsProofs

`RequestInv(r)` says of one request how far its spawning call, task, registry entry,
stream and future can be apart. `SpawnInv` and `Untouched`: what the spawning call
still has to itself. `RegistryInv`: an entry is in one place (the registry, the call that took it, the
list `close` drained), and a task that still runs has one or was aborted; this is
what makes `close` reach everybody. `SettledInv`: the compare-and-swap agrees with the
counters, and before a task has a result only an abort settles its request. `StreamInv`: a stream that
was built is open or settled. `LoopInv`: only a task that is over scheduled its
result. `CloseInv`: what is left behind each phase of `close`; it needs `Told`, that the loop
will cancel the future before it can resolve it (`CancelFirst`, a fact about the order of the loop's
queue), because an open stream that `close` did not drain is harmless only if its caller
never gets it.

### ConnectionGateProofs

`ControlInv`: a connect keeps the semaphore alive that its origin is mapped to, so a sweep
cannot replace one in use. `WaitInv`: the wait list of a semaphore has those who wait for it
and were not yet assigned a permit, each once. `Balance`: permits in a semaphore, assigned to
a waiter and held add up to the limit. Conservation and the limits are consequences;
without `WaitInv` a permit could be assigned to somebody who has left, without `ControlInv`
an origin could have two semaphores and twice its limit.

### ConnectionUseProofs

The program counters of this model are the lists `todo`, so the invariant starts with which
lists an actor can have (`Unbegun`, `Assigned`, `Ending` of a request, `Polling`, `Failing`,
`Dropped` of a connection's task) and relates them to the rest of the state:

* `TaskInv`: a request has a connection and a guard when its list says so; the guard is of that
  connection, or of the one before, which is down, until `observe` has replaced it. `GuardsDiffer`: no two
  guards are of the same use;
* `UseInv`: the use a request reports is its guard's, and one that is over or about to begin the next use has ended
  it or is about to. This is what `EveryUseEnds` lacks to be inductive;
* `FinishInv`: a guard that finishes cleanly has a complete upload. `IdleInv`: the last user of an
  idle connection is over and complete. It has to speak of the *last* user, because guards of earlier uses
  finish late;
* `ConnInv`, `WakerInv`: a task that is not polled has left its waker in the connection or
  was woken, and an aborted one was woken once the lock is free;
* `WriteInv`: whoever has bytes on a live connection is complete or is the request whose write timeout is
  active; a request that is active was given the connection, has begun its timeout and is the
  current one until it is flushed; and a task that was let through to the socket was let through for a
  request before which everything is complete. The gate looks at the timeout and the socket takes the bytes in
  different steps, so the last part carries the decision from one to the other.

Most steps touch one actor: `StepKeeps`, `GuardStepKeeps` and `TaskMoveKeeps` say once what
such a step leaves alone, and each action's lemma adds what it changes. Steps of two
actors - an abort of somebody else's connection, a new guard that ends the use before - are the long
ones (`RequestAborts`, `AbortReports`, `BeginTimeoutKeeps`, `SocketTakesKeeps`).

### RequestLoopProofs

`FlowInv` holds the types and `SlotMatchesExchange`. `ActionInv`: a redirect that
was decided on is about the URL of the response, and crosses or drops what it says it does.
`HeaderInv`: every header is accounted for - the caller's, and not a credential once the
request has crossed an origin; auth's, for this URL and known as auth's; the jar's, for this URL and
known as managed - and the headers auth starts from are the caller's alone. `BodyInv`:
where a body that cannot be replayed may be, and that a dropped body is described in no
header, nor in those auth keeps. `PolicyInv`: what the decision on a route was made of
does not change before the send. `CountInv`: each send is paid for by the first attempt, a
retry or a redirect. `TraceInv`: which attempts have an entry at each step.

The attempt to prove `BodyStaysHome` refined it: an auth hook may set a `content-type` of
its own, also after the body was dropped, so the property is about the content headers the
caller set (`CallersContent`). The hook names of the run had hidden the case. The invariant was
then checked with hooks that set `cookie` and `content-type`.

### StreamStateProofs

`ReadInv` relates each caller to its task, `BusyInv` the busy flag of an open stream to
its one waiting reader, `OwnerInv` the body, the decoder and a deferred error to one
owner, `EndInv` the outcome to what was given back and counted. `CleanInv` says when the end of the
body has been seen, `FrameInv` what has gone through the decoder. `QueueInv` is about the event loop:
each read is delivered once and only a stream that has ended cancels one. `CancelInv`: a read of an
iterated stream that came back cancelled has ended it; it needs that a stream once ended stays so (`OutcomeStays`,
which also gives `EndsOnlyOnce`). `GapInv` says, of an iterated
stream, where the frames are that were taken off the body: with the caller, or in the one
read that is pending (`FlightInv`). The steps of a read task have three
shapes - it works on (`Works`), finishes its part (`Concludes`), or hands its result over
(`HandsOver`) - and the lemmas follow them. `EndsOnlyOnce`, an action property, follows from `IInv`,
step by step.

### StreamingDecoderProofs

For any number of layers, sizes of buffers and limits. `CodecIs` first says what a caller may rely on
after one call of any codec: it keeps to the bytes and the room it was given, has nothing left
when it reports its end, reports a truncation only when it was told of the end, and is never
without progress. The last needs that it has room (`CapacityIs`, from the limit) and that a gzip layer
without a pending flush holds nothing back, which is part of `CodecInv`. `CodecInv` also has that a layer hands
out no more than it made and stays within the limit; `ChainInv`, that the end of the body has come through
every layer before a finished one, whose slot is empty; `ReadInv`, that no failure was noted while the
read goes on. `PassKeepsChain` shows that the pass of `advance` over ended layers keeps this.
`NothingOverwritten` is inductive only with `NothingWaits`: below the layer at which `advance` stops no slot is
filled, because the *last* layer with bytes in front of it has a free slot behind it, so it runs, or
fails, and would have been the stop. That gives both halves, a refill only with an empty input, and
`SlotIsAlwaysFree`. It needs the greatest element of a set of layers, and the types of the first
layers need induction over the header items: both come from the well-foundedness of the naturals
(`LeastExists`, `Induction`, `GreatestExists`, from `WFMin`), stated over sets so that no theorem with an
operator as parameter is used.

### UploadBodyProofs

`FeederInv`: what a feeder is about to send, and that one whose source broke completes
nothing. `LengthInv`: the chunk that completes the content length, and no other, is sent as the final one;
once it is pushed, the producer is finished. `CountInv`: what was pushed, what has left and what lies
in the queue between them, item by item; only this shows that a finished and drained
channel has delivered everything. `ProducerInv`: a finished producer belongs to a feeder that
is done with a source that is well. `WakeInv`: `NoLostWakeup`, with the feeder that is between its failed
`send_nowait` and its await; it holds of such a feeder because the loop runs no
callback there (`OnLoop`). `OwnerInv`: the owner has the sender of its attempt until it is closed, no
feeder runs for an attempt that was not started, and the attempts before are closed.

### What stays with TLC

Liveness under fairness and everything about `ENABLED` (`QueuedLeaves`, `FuturesResolve`, `SlotsComeBack`,
`FeedersEnd`, `WaitersServed`, `DecodeEnds`, `ReadReturns`). `TelemetryJournal` has no proofs: its
properties are about `SelectSeq` over the journal, which takes an operator and which the prover does not
expand, so that what a drain takes and leaves could only be reasoned about after a rewriting of `Drain`,
`Story` and `Of` as recursive functions, each with its own induction. `OpensSettled`, `JournalAccounts` and
`SealedIsFinal` are checked by the run `journal` alone.

Some definitions were rewritten for the proofs without a change of meaning; the runs reach the same
states. `Leave` of `ConnectionGate` removes the waiter at its index; `Drains` of `StreamState` is a set
filter; `FinishUse` of `ConnectionUse` takes `enterIdle` out of what is left to do without `SelectSeq`, and
the sets of its records (`Guards`, `Writers`, `Tokens`) and its bound (`HandedOut`) have names; `Turns` and `FromHeaders` of `StreamingDecoder` are a
set of records and a recursive function.

## 5. Not modelled, and why

* Diagnostics, error texts, logging, snapshots of statistics: no control depends on them.
* TLS configuration, URL and header parsing, multipart, the inside of the codecs: pure data.
* Proxy tunnels and sockets: byte-level I/O over hyper.
* Cookie matching and SSRF address classes: functions of strings and addresses; `RequestLoop` uses
  their result.
* Exporters (`prometheus`, `opentelemetry`): formatting.
* The byte budgets (`core/response/budget.rs`, `streams/budget.rs`), the pruning of the origin
  registry, the runtime, close and wait in Python: planned, below.

## 6. Plan

1. Done: `AcquireGate`, `StreamState`, `AsyncRequests`, `RequestLoop`, `UploadBody`, `ConnectionGate`,
   `ConnectionUse` and `StreamingDecoder` with proofs; `TelemetryJournal`.
2. Proofs of `OpensSettled`, `JournalAccounts` and `SealedIsFinal` of `TelemetryJournal`, with the drain
   rewritten as a recursive function.
3. `ResponseBudget` (`core/response/budget.rs`, `streams/budget.rs`): the shared byte
   budget against concurrent readers.
4. `OriginMetrics` (`core/metrics/origin/`): pruning of the registry against live users.
5. `ClientClose` (`foghttp/_client/`, `runtime/`, `lifecycle/`): close and wait, the shared runtime, the fork check;
   feeder joins and cleanup threads of the upload.
6. Reference checks of the pure algorithms: cookie matching and eviction, SSRF address classes,
   proxy selection, retry backoff.
