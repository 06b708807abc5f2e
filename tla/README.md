# A TLA+ verification of sofa-bolt-go

sofa-bolt-go is a Go implementation of the SOFABolt RPC protocol: a codec for
bolt v1/v2 and TaobaoRemoting commands, a client that multiplexes concurrent
calls over one connection, a server, a pool that keeps clients alive, and the
connection wrappers they are built from. This directory holds TLA+ modules that
model the parts in which concurrency, failure and reuse of objects make the
code hard to test, the TLC runs that check them and the TLAPS proofs about them.

## 1. Inventory of the system

| Component | Source | State it keeps | Operations |
|---|---|---|---|
| Client | `sofabolt/client.go`, `invoke_context.go`, `client_metrics.go` | `requests` (request id -> InvokeContext, under the client's mutex), `rid`, `conn` (under `connLock`), `closed`, `rerr`, `rerrCh`; the reader goroutine's local `conn` | `Do`, `DoTimeout`, `DoCallback(Timeout)`, `Close`, the read loop `doread` (dispatch, cleanup, redial, final close), `handleRequest` |
| InvokeContext pool | `sofabolt/syncpool.go` | `ictxPool`, each context's `errCh` (capacity 1) and `ires` | `AcquireInvokeContext`, `ReleaseInvokeContext`, `Invoke`, `AssignResponse` |
| Client heartbeat | `client.go` `doheartbeat` | `probes` | one `DoTimeout` per interval, `onHeartbeat`, stop after too many failures |
| ClientConn | `sofabolt/clinetconn.go` | `conn`, `closed`, `id`, `status`, `wg` | `Send`, `Close`, `doread` (decode, dispatch, status changes, redial) |
| ClientConnBOLT | `sofabolt/protocol/bolt` | `requests`, the ClientConn `x` | `Do*`, `Dispatch`, `cleanupPendingRequests` |
| Server | `sofabolt/server.go`, `conn/stateconn` | `listeners`, `conns`, worker pool, per connection: read loop, buffered writer, last flush time, pooled `StateConn` | `Serve`, `ServeConn`, `HandleCommand` (sync, async), `flushWrite`, `closeConns`, `Shutdown` |
| Response writers | `response_writer.go`, `client_response_wirter.go` | `numwrite`, `hijacked`, `err`, pooled | `Derive`, `Write` (once), `Hijack`, `Reset` |
| KeepAliver and Pool | `keepaliver.go`, `pool.go` | per address a `Pool` (clients, `next`), `dying` | `Put`, `Get`, `Del`, `GracefullyClose`, `doCleanup`, `doHeartbeat` |
| Codec | `command.go`, `request.go`, `response.go` | none (pure) | `WriteCommand`, `ReadCommand`, `Size`, `CopyTo`, `ShallowCopyTo` |
| Header map | `simplemap/fastsimplemap`, `simplemap/buffer` | four special headers, `kvs` slices that share backing arrays | `Set`, `Get`, `Del`, `Reset`, `CopyTo`, `Encode`, `Decode` |
| Connection wrappers | `conn/asyncwriteconn`, `errorconn`, `metricconn`, `delayconn` | the wrapped conn | forwarding |
| CLI, generated map | `sofabolt/cmd`, `pool_generated.go` | none of their own | I/O; generated copy of `sync.Map` |

How the parts interact. A caller's goroutine runs `Client.invoke`: it takes a
request id, registers its InvokeContext in `requests`, writes to the current
connection and waits on the context's `errCh`. One reader goroutine per client
reads commands: a response is matched by request id and delivered into the
context (channel or callback), a request goes to the client's own handler. When
the connection fails the reader fails every registered context, redials if it
has a dialer, and otherwise closes the client. Contexts go back to a `sync.Pool`
and are handed to later calls. The server runs one goroutine per connection
from a worker pool (and one per command in async mode). The KeepAliver hands
clients out by address, retires them, and probes idle ones from a timer.

What is hard: a context that is recycled while the reader still holds it; a
call that registers after the reader has failed all registered calls; a close
that races a redial; user code (callbacks, handlers) that runs on the reader's
goroutine, in cleanup even under the client's mutex; request ids that wrap
around; pooled objects keyed by pointer after their release; responses that
stay in a buffer; header slices that share memory after a deletion; a deadline
in the middle of a message; a command that is read into again and again.

## 2. Plan

| Step | Module | Models | State |
|---|---|---|---|
| 1 | `Client`, `ClientProofs` | the multiplexing client with its pooled contexts, redial and Close | done |
| 2 | `HeaderMap` (abstract), `FastSimpleMap`, `FastSimpleMapProofs` | the header map and the memory its slices share | done |
| 3 | `ServerConns`, `ServerConnsProofs` | accepted connections, pooled StateConns, hijacking, Shutdown | done |
| 4 | `ServeLoop`, `ServeLoopProofs` | one connection's read loop: sync and async commands, the response writer (written once, hijacked, reset), the buffered writer and `flushWrite` | done |
| 5 | `KeepAliver`, `KeepAliverProofs` | pools by address, `Put`, `Get`, retirement, cleanup and heartbeat, over clients reduced to references, uses and closed, which may close themselves | done |
| 6 | `ClientConn`, `ClientConnProofs` | the protocol-independent connection with ClientConnBOLT, its dispatcher | done |
| 7 | `HeaderCodec`, `HeaderCodecProofs`, `Codec`, `CodecProofs` | widths, lengths and order of the fields of a frame; reading against writing, reuse and copies of commands | done |
| 8 | `Heartbeat` | the client's heartbeat goroutine, over the calls of `Client` | open |

Steps 4 and 3 meet in the connection (`Handle` of `ServerConns` stands for a
round of the read loop, `Return` of `ServeLoop` for the end of `ServeConn`); 7
says what 1, 4 and 6 take for granted of a frame; 5 and 8 use a client through
what step 1 shows of it. Every safety property that a passing run checks is also
proved.

## 3. The modules and the code

### Client

One process per call in `Do`, `DoTimeout` or `DoCallback`, one for `doread`, one
for a user of `Close`. An atomic step is one critical section of the client's
mutex or of `connLock`, one atomic load, store or compare-and-swap, one channel
operation, one read or write of a connection. The program counters name the
places between them.

| State | Code |
|---|---|
| `closed`, `rerr`, `crid`, `requests` | the fields of `Client`; `crid` wraps at `RidSpace` |
| `cur`, `connState` | `c.conn` (connections are numbered as they are dialled) and what became of each |
| `pc`, `rid`, `ctx`, `wconn`, `out` | the locals of `invoke` |
| `got`, `resp`, `cbs` | history: what was received on `errCh`, which response was copied out, how often the callback ran |
| `pool`, `errCh`, `ires` | `ictxPool` and the fields of the contexts |
| `server` | requests that reached the peer and are not answered |
| `rpc`, `rent`, `rmsg`, `ruser`, `rback`, `rtodo` | `doread`: where it is, the context and the message in its hands, the call that user code on its goroutine issued, the contexts a cleanup has still to notify |
| `cpc` | a caller of `Close` |

Payloads are the call they belong to. The peer answers in any order or never; a
request whose write failed is taken to be unanswered. The asynchronous writer is
a library: a write is accepted or fails. Metrics are left out.
Callbacks and the client's handler run on the reader's goroutine and may issue a
call; in the cleanup they do so with the mutex held, as in the code.

### HeaderMap and FastSimpleMap

`HeaderMap` is the promise: a function from names to values per map.
`FastSimpleMap` is the code: the fields of the four special names, and `kvs` as
length, capacity and, for each element, the cell its two slices point to;
elements beyond the length are kept, since `set` reuses them. `append` in `del`
copies slots, not cells: that is where two elements come to share a cell.
Names in `kvs` have equal lengths and so have values, and neither is empty, so
that an `append` into a used cell fits it exactly. The abstract content is what
`get` finds, and `last` names the operation.

### ServerConns

One process per connection in `ServeConn`, one for `Serve`, one for `Shutdown`.
Registration and deregistration take the server's mutex, which only a sweep
holds over several steps; the three steps of `StateConn.Close`, the two of
`AcquireConn`, reads, writes and releases take no lock and interleave with the
sweep. `pc`, `raw`, `sc` and `hijacked` belong to a connection, `state`, `old`
and `conn` to a StateConn (`old`: five seconds have passed since its state was
set), `pool` is `statePool`, `conns` is `srv.conns`; `spc`, `todo`, `cur`,
`force` and `lived` are `Shutdown` and `closeConns`. The options `async` and
`workers` are chosen in the initial state. A command is what it does to the
StateConn: reads, writes, hijacking.

### KeepAliver

One process per user of the KeepAliver, one for `doCleanup`, one for
`doHeartbeat`. A step is one locked section of a `Pool`, one access of a
`sync.Map` or of the metrics, or one `Close`; the size and the counter of one
test are read together. `DeleteClients` holds the lock over several deletions,
hence `Unlocked`.

| State | Code |
|---|---|
| `stored`, `clients`, `next` | whether the address is in its `PoolMap`, and the fields of its `Pool` |
| `used`, `refs`, `lasted`, `closed` | the client's metrics and `Closed()`, whoever closed it; `used` stops at `MaClientConnUsed`, with which it is compared; `lasted` is recent, old or due against the last tick |
| `dying` | the checks counted in `ca.dying`, 0 for a client that is not in it |
| `pc`, `cl`, `kp`, `loaded` | the locals of `Put`, `Get`, `Del` and `GracefullyClose` |
| `ctodo`, `cact`, `cc`, `cn` | `doCleanup`: clients its `Range` has still to visit, and the one in hand |
| `hpc`, `pass`, `htodo`, `hk`, `left`, `brokens` | `doHeartbeat` and `clientChecker`: which `Range`, the copy of a pool's clients, those that failed |
| `life`, `retired` | history: not dialled, known to its dialler only, shared; closed by the KeepAliver |

The repository holds no caller of `Put`, and `Put` does not look for duplicates:
an application is taken to offer a client only while it alone knows it. Calls are
`DoTimeout` reduced to its metrics; a probe may fail on a healthy client and
is refused by a closed one. A client closes itself at the end of `doread`, and an
application may close one it holds or once held: `ClientCloses` does both, at any
time and wherever the client is (`Failing` bounds the clients it happens to). That
takes it out of no pool, and `Get` does not look at `Closed()`. So a pooled client
may be closed, and `RetiredOut` speaks of those that are dying or that the
KeepAliver itself has closed. Either goroutine may stop, as when the context is done.
Both `Range`s of `doHeartbeat` are over `ca.raw`, as in the code.

### ServeLoop

One connection of the server: the loop of `serveConn`, one process per handler.
The frames the peer will send are chosen in the initial state; when they arrive,
and how many a read returns, is `Fill`'s choice.

| State | Code |
|---|---|
| `async`, `delayed` | the options `async` and `flushInterval > 0` |
| `conn`, `inflight`, `kind` | the connection (its peer may end it or it may break), the frames still to come, the type of each |
| `rbuf`, `req` | frames in the buffered reader; the loop's one `Request` |
| `bw`, `bwerr`, `wire` | responses in the buffered writer, its sticky error, what the connection took |
| `pc`, `hijacked`, `flushed` | the loop's control and locals; `flushed` is whether `lastFlushTime` was ever set |
| `handler`, `task`, `rw` | per request: where its handler is and its copy; the response writers (0 is the loop's) |
| `by` | history: what the handler of a request wrote |

Time is abstracted: once `flushWrite` was called, the interval has passed or it
has not. A hook of the buffered reader (`beforeread`) runs before each read of
the connection. A frame that is no request ends the loop like one that cannot be
read. The line "write once to avoid nil response" is modelled with the constants
as they are: `TypeTBRemotingOneWay` equals `TypeBOLTRequest`, so no type passes
its test and a handler that writes nothing leaves its caller without an answer.

### ClientConn

`ClientConn` and its dispatcher `ClientConnBOLT` in one module: one process per
call, one for `doread`, one for a user of `Close`. It differs from `Client` in
what its comments say: ids run out instead of wrapping, every error of the
reader fails the pending calls, a deadline does not end the reader, and the end
of the reader does not set `closed`.

| State | Code |
|---|---|
| `ready`, `requests` | whether `xb.x` was assigned; `xb.requests` |
| `closed`, `id`, `status` | the fields of `ClientConn`; the status `ReadTimeout` does not outlive the step |
| `cur`, `conns`, `torn` | the connection in use, what became of each, whether a deadline has cut a message on it in two |
| `call` | per call: the locals of `invoke`, and history (`got`, `res`, `cbs`) |
| `pool`, `errCh`, `ires` | `ictxPool` and the fields of the contexts |
| `server` | requests that reached the peer and are not answered |
| `rd`, `cpc` | `doread`: its control, the context and the message in its hands; a caller of `Close` |

On a stream that is out of step the reader may take any bytes for a response to
any pending call: its content is `Garbage`. `MayCut` bounds this to one cut.
A request of the peer that arrives before `xb.x` is assigned ends in
`"panic"`.

### HeaderCodec and Codec

A byte is a digit of base `Base`, so widths keep their meaning: what does not fit
is narrowed, as by `byte(n)` and `PutUint16`. `HeaderCodec` has the numbers and
strings of `simplemap/buffer` and the wire format of the header map, whose value
is what it holds; `Decode` is as many rounds of the code's loop as there are
bytes, of which those after the end do nothing. `HeaderMaps` are the maps in which
no name occurs twice and no special name in `kvs`: those `set` builds and `Decode`
fills (`StaysClean` of `FastSimpleMap`). What becomes of a map after `Del` of a plain
name is not written here. `Codec` writes a command by a layout (fields and widths) and
reads it by a table (field and the part of `b32` it is taken from), so that the
offsets in the readers stand beside those the writers produce; the five formats
are those of the code. The state is a stream, a reader that resets one command
and reads into it, and a pooled command that a handler works on. `cmd` of a read
that failed is not followed: every caller gives it up. `Checksum` is some
function of the bytes; the code reads the checksum and does not compare it.

## 4. Runs

| Run | Instance | Shows |
|---|---|---|
| `MCClientCalls` | two timed calls (interchangeable, checked up to their symmetry), a callback that issues a call that cannot be encoded, one connection, four ids; the reader's own Close | `OwnResult`, `OkHasResponse`, `CallbackOnce`, `PoolSafe`, `NoStaleEntry`, `SendNeverBlocks`, `TypeOK` |
| `MCClientRedial` | timed and untimed call, redial, Close; fair | `CleanupWakes`, `CloseStopsReader` |
| `MCClientUserIds` | equal ids chosen by callers, a timed call, an answered one-way request that can block the reader, a handler that issues a DoCallback whose callback issues a timed call, also in the cleanup; no dialer, no Close by the user; fair | `TimedReturn` even so |
| `MCClientOneWay` | a peer that answers one-way requests | `OwnResult` is violated |
| `MCHeaders` | two maps, three names, two values, `kvs` that grows twice | `ActsAsMap`, `StaysClean`, `TypeOK` |
| `MCHeadersDel` | one map, deletions | `DeletedIsGone` is violated |
| `MCServerConns` | two connections, one or two workers, sync or async, Shutdown; fair | `Exclusive`, `NoStaleConn`, `HijackedUntouched`, `ShutdownReturns`, `TypeOK` |
| `MCServeLoop` | up to three frames of any type (two for an asynchronous server), with and without a flush interval, a buffer for one response; fair | `OwnAnswer`, `OnceInOrder`, `NotHeldBack`, `AnswerArrives`, `Ends`, `TypeOK` |
| `MCKeepAliver` | one user, two clients of one address, of which one may close itself, used up after one call, two checks; fair | `PooledOnce`, `RetiredOut`, `DyingCloses`, `IdleProbed`, `GetReturns`, `TypeOK` |
| `MCClientConn` | a timed call, an untimed one, a callback (perhaps one-way), two ids, a redial, a message cut in two, Close; fair | `OwnResponse`, `CalledBackOnce`, `UsedConnsClosed`, `FailureWakesAll`, `CloseShutsDown`, `TypeOK` |
| `MCCodec` | two commands out of ten: every format, full and empty fields, one too long for its length field, two that are refused; the stream is cut anywhere | `InStep`, `OnlyCutsFail`, `CopyIsWhole`, `TypeOK` |
| `MCCodecVer2` | one command of version 1 | `Ver2RoundTrip` is violated |

The three violations are disagreements of the code with its own comments or
tests; `PROJECT.json` quotes the lines. Six more are reachable in the models
and are the reason why a property is stated the way it is:

- `CleanupWakes` speaks of calls that the cleanup finds. A call that passes
  invoke's tests before the reader's last cleanup and registers after it, on a
  connection that still takes its write, waits for ever when it has no timeout.
- `CloseStopsReader` and `CloseShutsDown` speak of a Close outside the window
  between redial's test of `closed` and `setConn`. Inside it the old connection is
  closed and the reader goes on with the new one.
- `OwnResponse` speaks of a client whose stream no deadline has cut. After a cut
  a false response can reach a context whose call is over and which serves the
  next call by then: that call may receive what is not its own, even on a new
  connection, whose stream is in step. (The attempt to prove the property for
  whole connections found this; it takes three calls that share a context.)
- `TimedReturn` excepts `MutexStuck`. A callback that the cleanup runs and that
  issues a call waits for the mutex that the cleanup holds. From then on every call
  that has to register or remove its context hangs, with a timeout or without one.
- `RetiredOut` speaks of clients that are dying or that the KeepAliver closed. One
  that closed itself stays in its pool until a probe finds it, and is handed out
  meanwhile. As every call it refuses sets `lasted`, one that is called often enough
  is never probed; `IdleProbed` speaks of clients that are not called.
- A sweep of `Shutdown` that is forced may store `StateClosed`, let `ServeConn`
  release the StateConn, and close the connection that acquired it next;
  `Exclusive` and `HijackedUntouched` hold nevertheless.

With a flush interval (`delayed`) `NotHeldBack` and `AnswerArrives` do not hold:
`flushWrite` returns the present time as the last flush whether it flushed or
not, also before the loop waits and when the connection ends.

Bounds. `Calls`: two calls suffice for one to reuse the other's context; the
third is there to reuse it in turn, to overwrite an id or to run nested.
`RidSpace` is as small as the number of calls that take an id, so the counter
wraps; it stays above the number of pending two-way calls, as 2^32 does.
`MaxDials` 1 gives an old and a new connection. In `MCClientConn` `MaxRid` 2
makes the ids run out with three calls. In `MCServeLoop` three frames are needed
for a response to meet a full buffer (the first call of `flushWrite` always
flushes, the second may leave one response); two concurrent handlers are enough
for the loop to read one request while another is served. In `MCCodec` `Base` 16
keeps every proto, type and code a byte; two frames are enough for a field of the
first to show in the second, for the second to be taken where the first was cut,
and for a class too long for its length to be taken for a frame. `MaxCap` 2 with `Chunk` 1 lets
`kvs` grow twice and be copied to a smaller and a larger map. `MCHeaders` does
not follow maps whose elements share memory: nothing is claimed of them, and
`MCHeadersDel` shows what becomes of them. Two connections let a StateConn be
released, reused and swept at once; `MaxConns` 2 gives servers with a free worker
and servers without. In `MCKeepAliver` two clients give a pool that has one to
retire, one that may close itself and one that may not, and `CleanupMaxChecks` 2 gives a visit that counts and a visit that closes
whatever the references; the user, the heartbeat and the cleanup already meet at
every step, and the proofs cover any number of users. The proofs drop these
bounds.

Deadlock is not checked where a system may come to rest: callers stop calling, a
call without a timeout waits for a peer that never answers, clients make no more
connections.

Fairness. Goroutines that can run do run (weak fairness of `CallStep`,
`ReadStep`, `CloseConn`, `SweepStep`, `UserStep`, `Cleanup`, `Heartbeat`,
`Loop`), a timer that is armed fires, a read on a connection that is no longer
open, or that gives nothing more, fails, handlers of the server return (`Ends`
needs it: serveConn waits for them), user code that is about to issue a call
issues it. `select` chooses at random among ready cases, hence strong fairness
of `PollDone` against the ticker. Nothing is assumed of the peer, the network,
the dialer or the user, or of what an application calls next, nor that a client
closes itself. That a call or a probe of `KeepAliver` comes to an end (`DoEnd`,
`HeartAnswer`) is assumed: it takes clients whose calls end and none that is stuck
as `TimedReturn` describes. `TimedReturn` itself is checked without a dialer and
without a Close by the user.

## 5. Proofs

All proofs are checked by TLAPS for every value of the constants.

`ClientProofs`. The safety properties are not inductive: that a call receives
its own result depends on who may still hold its context. `IndInv` adds
`TypeInv` (types, and which fields a control point has set), `RidInv` (ids are
handed out in order and differ), `OwnerInv` (a context has one owner, or is
pooled, or was left to the collector), `EntryInv` (an entry of `requests` belongs
to a call with that id and context that is still in `invoke`, or to a callback),
`ServerInv` (a request at the peer belongs to the two-way call with its id),
`ReaderInv` (the context in the reader's hands is of a call that waits or has
timed out, and is not registered), `ChannelInv` (what a channel holds was sent for the
context's owner, and the channels of registered calls are empty),
`CallbackInv` and `ResultInv`. `TypeCorrect` needs no hypothesis. The other
theorems assume `UniqueRids` (ids are assigned by the client and there are fewer
calls than ids) and `~AnswersOneWay`; `MCClientOneWay` shows that the second is
needed, equal ids that the first is.

`FastSimpleMapProofs`. `TypeOK` is inductive by itself, whatever is deleted: a
cell is left for every element that has none, since there are as many cells as
elements (`AllocatedFacts`), and the loop of `del`, a recursive function, leaves
a sound slice (`DelLoopSound`, by induction over its rounds with `SetInduction`,
a rule for sets derived from the well-foundedness of the naturals). Hence
`TypeCorrect`. On clean maps the loop takes out one element or none
(`DelLoopClean`); the contents of a map are read off its elements, and each
operation changes them as its namesake in `HeaderMap` does. Hence
`ActsAsMapHolds` and `StaysCleanHolds`, for all deletions. The last two theorems,
`NeverShares` and `RefinesHeaderMap`, assume that `Del` is only called for
special names, and need to: `MCHeadersDel` violates both otherwise.

`ServerConnsProofs`. `IndInv` adds to `Exclusive` and `NoStaleConn` that a
StateConn not yet allocated is nowhere (`FreshInv`), that connections beyond
`AcquireConn` have one (`AcquiredInv`), which connection a StateConn wraps
(`WrapInv`), that a hijacked connection is unregistered when `ServeConn` has
returned (`HijackInv`) and that a sweep meets registered StateConns only
(`SweepInv`). From it follow `TypeCorrect`, `StateConnsExclusive`,
`NothingStale` and, as an action property, `HijackedLeftAlone`.

`KeepAliverProofs`. That a retired client is in no pool depends on who may still
push it. `IndInv` says that a client is known to its dialler alone until it is
pooled or given up (`UserInv`, `HoldInv`, `PoolInv`), that a client is shared and
out of the pools when it is dying or the KeepAliver has closed it (`DeadInv`), that the cleanup visits
clients that are dying (`CleanInv`), and that what the heartbeat copied is shared
and what it closes is out of its pool (`HeartInv`). Only a client that is not
shared is ever pushed. A client that closes itself changes none of this
(`ClientClosesInv`) and may be in a pool. From it follow `TypeCorrect` (`Pool.Get` stays inside its
slice), `ClientsPooledOnce` and `RetiredClientsOut`.

`ServeLoopProofs`. `OnceInOrder` is about what the connection took followed by
what the buffer holds, so the induction has to follow a request from the stream
to its answer. `IndInv` adds that frames are read in order and lie behind all
that was read (`ReadInv`), that a handler was given a request that was read, an
asynchronous one its own copy and a writer of its own (`HandlerInv`), that
asynchronous handlers leave the buffered writer alone (`BypassInv`), and that
what was answered belongs to a handler that has used up its one write
(`AnsweredInv`). From it follow `TypeCorrect`, `OwnAnswerHolds`,
`OnceInOrderHolds` and `NotHeldBackHolds`, for any number of frames, any buffer
and both modes, without a hypothesis.

`ClientConnProofs`. The argument is that of `ClientProofs` for ids that are
never given twice, so it needs no hypothesis on their number. `IndInv` has a part
that holds on any stream: what a call has by its control point (`PcInv`), ids are
given once and in order (`RidInv`), a call is registered once and under its id
(`RegInv`), an answer finds its call or none (`MsgInv`), a callback that can still
run did not (`CbInv`), a context is pooled, held by one call, or gone (`CtxInv`),
and every connection before the present one is closed (`ConnInv`). The other part
holds as long as the stream is in step: a registered call has received nothing,
and a channel holds a result of the call that has its context (`ResultInv`); the
reader delivers to the call that sent the request, which waits, or has timed out
and keeps its context from the pool (`DeliverInv`). From it follow `TypeCorrect`,
`CalledBackOnceHolds` and `UsedConnsClosedHolds`, on any stream, and
`OwnResponseHolds`.

`HeaderCodecProofs` and `CodecProofs`. That reading undoes writing is proved in
four layers, for every `Base` above 14 (`BaseAssumption`; the code's is 256) and all
commands whose fields have the types of Go's struct (`CommandsAssumption`):

- numbers: `Uint` of `PutUint` is the number, in 1, 2 or 4 bytes, if it has room
  (`UintPut`);
- header maps: `GetEncodeSize` is the length of `Encode`, whose bytes are found
  header by header at the sums of the lengths before them (`FlattenAt`, `EncodeFacts`);
  round i of `Decode` ends behind header i with the first i headers in the map.
  Hence `DecodeUndoesEncode`, for maps of any size. The sums and the rounds are
  recursive functions; induction over them uses `SetInduction`, as in
  `FastSimpleMapProofs`;
- frames: a layout puts each field where the sums of the widths say
  (`BOLTFramed`, `TBFramed`), and a reader's table looks there (`Placed`: the one
  field for which this fails is version 1's `ver2`, which `MCCodecVer2` shows); what
  the table says of lengths leads to the class, headers and content. Hence
  `ReadingUndoesWriting`: of any bytes that begin with a frame the reader makes the
  command and uses up that frame; of any proper part of it, and nothing else, it
  makes nothing but "short";
- the stream. `InStep` is not inductive: that the next read gives the next command
  depends on what is on the wire. `StreamInv` adds to it and to `OnlyCutsFail` that
  all commands sent were accepted (`Queue`) and that the wire is the frames of the
  commands that are not read yet, one after the other, up to the cut (`Lies`), unless
  a command did not fit its frame (`Synced`). Hence `InStepHolds` and
  `OnlyCutsFailHolds`, for any number of commands.

`Fits` is part of the properties and not an assumption: after a command whose class
or headers are longer than their length fields can say, nothing holds but
`TypeOKHolds`, which says of any bytes on the wire that what a reader makes of them
fits the fields. `CopyIsWholeHolds` follows from `InStepHolds`: a copy is made of
the reader's command, by which it is that of a command sent, and later writes,
reads and resets do nothing to it (`CopyInv`).

Only model-checked: the liveness properties (`CleanupWakes`, `CloseStopsReader`,
`TimedReturn`, `DyingCloses`, `IdleProbed`, `GetReturns`, `ShutdownReturns`,
`AnswerArrives`, `Ends`, `FailureWakesAll`, `CloseShutsDown`), since TLAPS does not
reason about fairness, and the three violations, which are counterexamples of
an instance.

## 6. Not modelled

- The client's heartbeat goroutine (step 8): a loop of `DoTimeout` calls, which
  `Client` has, with a counter of failures.
- The KeepAliver's status page, metrics, logging, `String` and the options.
- The client's own response writer (`client_response_wirter.go`), which does what
  `SofaResponseWriter` does without a hijack and touches no state of the client.
- The Hessian encoding of TBRemoting's connection object: a library's.
- The connection wrappers forward calls; the generated map is a copy of
  `sync.Map`; the command line is I/O.
- The error that a pooled `SofaResponseWriter` keeps over `Reset`
  (`GetWriteError` may report that of an earlier request).
- Memory shared between a shallow copy and its command: ClientConnBOLT's decoder
  allocates a command for every frame.

The asynchronous writer, the buffered reader and writer, the worker pool,
`sync.Pool` and `net` are libraries, taken as the code uses them: the worker pool
refuses when every worker is busy, a pool returns any object put into it or a
new one, a buffered writer keeps its error.
