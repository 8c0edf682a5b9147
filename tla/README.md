# durable-stream, verified

This directory holds a TLA+ development of durable-stream: a service worker that
is its own small server, an event log in IndexedDB, a content-addressed payload
store in OPFS, and tabs that follow the log over SSE. The modules are translated
from the code under `src/` (paths below are relative to it, `handler.js` being
`src/src/handler.js` and `service-worker.js` being `src/workers/service-worker.js`
of the source tree). `PROJECT.json` maps every definition to the lines it stands for.

## The system

| component | source | state it keeps | operations |
| --- | --- | --- | --- |
| Event log | `log.js` | stores `events`, `metadata` (with `__floor`, the upstream cursor), `outbox`; subscribers | append (quota: panic trim, retry, note), since, head, trim, floor, liveObjects, pruneMeta, putMeta/getMeta, subscribe |
| Control plane | `handler.js` streamEvents, `app.js` connect | per stream: last, buffered, live, lagging, the controller's queue; per tab: cursor, EventSource, retry timer | replay, buffer, go live, tail, lag, resync, retry, online/offline/pageshow, broadcast |
| Payload store | `blobs.js`, `handler.js` putBlob/getBlob | OPFS directories `staging/`, `objects/` | put (stage, adopt, promote), resolve, get, delete, discard, list, sweep, evictTo |
| Resumable transfer | `upstream.js` receiveBlob, `blobs.js` put | staged prefix, `resume` record (blocks, hash state) | push, fetch a reference with a range, resume, checkpoint, keep or discard a prefix |
| Retention | `service-worker.js` boot | lastMaintenance, maintaining | trim, liveObjects, pruneMeta, sweep, evictTo |
| Upstream transports | `transport.js` | a sink per socket: queue, payload, wake, ended | accept, end, frames; WebTransport and SSE readers |
| Upstream loop | `upstream.js` ensureUpstream | running, backoff, pending cursor | connect, dispatch frames, flush the cursor, reconnect |
| Outbox | `log.js`, `handler.js` appendEvent, `service-worker.js` | `outbox` store, `flushing`, the browser's sync registration | enqueue, register, flush, drain, last chance |
| Background Fetch | `upstream.js`, `service-worker.js` | the browser's registration, `pending` record | adopt, fetch, collect, fail |
| Pull dialogue | `app.js` pull, `service-worker.js` transferBlob | pending map, 20 s timers | request, transferred stream, late answer |
| SQL read model | `query.js`, `workers/query.js` | per tab: the worker, its table (persistent for whoever holds a Web Lock), the memoised sync | spawn, push, sync, resync, query |
| Block container | `blocks.js` | none | trailer, blocks of a range |
| SSE codec, SHA-256, router | `sse.js`, `sha256.js`, `router.js` | carry buffers | decode, snapshot, dispatch |
| Shell, rendering, upgrade | `app.js`, `render.js`, `sw.js`, `upgrade.js` | DOM, caches | - |

How they interact. The page talks to the worker by `fetch` (routes), by SSE (the
control plane), by `postMessage` (pull) and hears a BroadcastChannel message for
every append. Everything durable is in IndexedDB and OPFS; no transaction spans
the two. Every piece of module state is lost when the browser kills an idle
worker, and boot() rebuilds it.

What is hard here: code interleaves at every `await`; transactions are short and
their results are used after them; the worker may be killed between any two
steps; a slow reader must not cost unbounded memory, yet must lose nothing; a
transfer that dies half way is continued by another attempt from a record that
was written in a different store than its bytes; a garbage collector runs beside
the writers. The list of hazards, each at its line, is in `PROJECT.json`.

## Modules

```
EventLog        log.js: append, trim, quota, floor
  EventStream   extends it: streams, tabs, cursors, faults         (EventStreamProofs)
    Feed        what a tab is promised; EventStream implements it
UpstreamLoop    ensureUpstream: cursor, errors, loops side by side     (UpstreamProofs)
  Relay         what the upstream leg promises; UpstreamLoop implements it
FrameSink       one WebSocket connection: pump, sink, bodies,
                consumer                                            (UpstreamProofs)
ResumableTransfer   one payload through any number of broken
                attempts                                   (ResumableTransferProofs)
BackgroundFetch one large payload downloaded by the browser, and
                the tabs that pull it meanwhile                    (BackgroundFetchProofs)
PayloadStore    stores and records of many payloads against
                the retention pass                            (PayloadStoreProofs)
Outbox          queued operations, flushes, Background Sync        (OutboxProofs)
ReadModel       one tab's SQL table: pushes, sync, resync, queries (ReadModelProofs)
SseCodec, BlockContainer, HashStream
                the stateless parts, each against a reference (one
                run, MCCodecs)                                        (CodecProofs)
```

An `MC` module with the same name instantiates each for TLC. Operators headed
`\* Fault:` are plausible bugs: each is a changed form of the definition that
follows, no specification uses it, and substituting it makes one of the
properties fail. They show that the properties can fail.

Every module of a component with state states a type invariant. It is proved, as
part of an inductive invariant or from one, and takes no part in the runs.

### EventLog

An event is its id. Every IndexedDB transaction is an action; `pc` says which
await of `append` or `trim` a call stands at. An append commits (`LogAppend`) or
runs out of space (`QuotaHit`), trims with the panic window (`TrimReadsHead`,
`TrimCommits`), retries once (`Retry`) and starts a detached append of a note.
The scheduled pass trims with its own window (`Keep(Pass)`). `WorkerKilled` loses
calls and keeps stores. A writer stands for one call and the note it leaves.

Properties: retained ids are one interval up to the last one given (`GapFree`),
whatever stale heads trims used; the newest `PanicRetention` are never trimmed
(`RecentKept`); the recorded floor is below everything retained
(`BelowFloorGone`); an append out of space settles (`AppendSettles`).

`log.js` calls the floor the "oldest id still retained". That does not hold - a
scheduled trim after a panic trim writes a smaller floor than is true - and only
the status route would notice; `BelowFloorGone` is the direction that is right.

### EventStream and Feed

`conn[c]` is the worker's half of tab c's stream: `phase` none, replay or live;
the rows read and not yet emitted; `buffered` for events that land during replay;
`pipe`, all frames from the controller's queue to the tab, of which the first
`pulled` no longer count for desiredSize. `tab[c]` is the EventSource's state and
the retry timer. `Publish` is a commit with its notification of every stream
(`Notified`: buffer, emit, or a single `lagged` frame above the high water mark)
and the broadcast to every tab. Rows are emitted one by one and the buffer is
flushed in a separate step, a finer interleaving than the code has: it admits
more behaviours, none is excluded.

Properties: `NoGap`, no event still retained lies at or below a tab's cursor
without having been handed to it; `PipeOrdered`, up to the first lagged frame a
stream carries new ids in increasing order; `LiveQueueBounded`; `ImplementsFeed`,
every behaviour is one of `Feed`, where events are published, forgotten and
received next in order; `CatchesUp`, every event reaches every tab that stays
online, or is trimmed first.

### ResumableTransfer

One key, one payload, attempts in sequence (the Web Lock of receiveBlob makes them
exclusive; Background Fetch does not take part). Byte strings are sequences of
blocks: put writes whole blocks only, and resume points are whole blocks, so a
full block weighs 2 and a short one 1. A hash is the sequence it absorbed, so
there are no collisions. The payload is any sequence of up to `MaxBlocks` full
blocks and a stub, so sizes on and off a block boundary occur. Faults - requests
and bodies that fail, servers that ignore ranges, full disks, kills between any
two steps, pruned records and swept prefixes - are bounded by `MaxFaults`.

Properties: `AddressTrue`, an object holds the bytes its address is the hash of;
`ResumePointTrue`, a staged file as long as the record claims begins with the
bytes the saved hash state absorbed; `LoggedIsStored`, an announced hash leads to an
object of the announced size; `RightUnlessDropped`; `FinishesUnlessCornered`. The
last three have an exception because the code does:

- `Right` (run `transfer_right`) fails. put drops a resume point whose bytes are
  gone (`blobs.js:134-138`), but the server was already asked for the rest only.
  The rest is stored from the start of the file, becomes a resume point of its
  own if the attempt breaks off, and the next attempt completes it to the
  announced size: the object that is logged is not the payload. The history
  variable `dropped` marks these behaviours for the other properties.
- `Finishes` (run `transfer_finishes`) fails. A transfer whose last block was
  recorded before it failed asks for the bytes after the end; the server answers
  416, which throws, and every later announcement does the same.
- `LoggedIsStored` excepts the empty target of a broken copy (`Hollow`). Without
  `move`, promote creates its target and then copies into it (`blobs.js:91-104`); if
  that breaks off, an empty object is left under a true address. The next attempt
  finds it (`blobs.js:247-249`; a raw object is not looked into, `blobs.js:287-305`;
  a compressed one with no trailer counts as absent), throws its own bytes away and
  announces it. The key is final from then on, and its payload is served with no
  bytes - against `upstream.js:202-205` ("a logged event with no bytes is a broken
  promise") and `handler.js:160-163`. One block and one fault show it: check
  `\A hash \in log : AtRest(hash)` in the `transfer` instance. For
  `FinishesUnlessCornered` such a key counts as delivered.

### PayloadStore

Files and records by their presence: writers (PUTs and transfers) go through
staging, adopt or promote, record and announce, one store access at a time; the
retention pass trims, reads the live set once, prunes metadata, sweeps objects
and staging and evicts by budget. The lock of receiveBlob is left out, since PUTs
do not take it. Objects weigh the same; `Budget` is their number.

Properties: `PassSpares`, a pass deletes nothing that the log named when it read
the log, except objects to get under the budget; `EvictsOldest`, and then by
newest reference (objects are listed anew for it, and what is no longer there is
skipped); `Collected`, garbage is deleted or named again.

They speak of what the pass read because no more holds. pruneMeta's comment
(`log.js:248-251`) says that no key can be written between the listing of the keys
and their deletion. That is true of the transaction, but the decision is the live
set, read in an earlier one (`service-worker.js:128`): a key recorded and announced
in between loses its metadata, and an object adopted in between is swept.

### FrameSink

One connection over WebSocketStream or plain WebSocket (`transport`, chosen
initially as openUpstream's handshake decides it). `sent` is the sequence of
messages the server sends before it stops; the pump hands them over one at a
time. `Accept`, `End` and a round of `frames()` are one action each, since no
await interrupts them. A message is its position on the socket, a body the list
of positions it holds. The consumer is the loop of upstream.js: it stores a body
to its end (`Finishes`), cancels it (`Cancels`: known payload, or busy lock), or is
left by an error (`Leaves`).

Properties: `FramesInOrder`; `BodyIsItsOwn`, a body holds the binary messages right
behind its header up to the one that completes it, and is open until that one, the
next header or the end of the socket; `DepthBounded`; `DrainsUnlessCancelled` (the
pump that waits for the queue and the body that waits for the pump never wait for
each other) and `EndSeenUnlessCancelled`.

`BodyIsItsOwn` excepts the payload that is declared empty (`Overlooked`). It has its
declared length at once, and `transport.js:183-185` says that a body ends there; but
the length is compared when a binary message has been fed (`transport.js:211-215`),
not when the header opens the body (`transport.js:240-241`). The body stays open: the
loop that stores it waits for the next message, and if that is binary takes it for
the payload's. Sizes of 0 and two messages show it: check that no body that is
already `Complete` gets another message.

`KeepsMoving` (run `frame_sink_moves`) fails: once a body is cancelled before it is
complete, closing or feeding its controller throws, in `accept` and in `end()`,
before anybody is woken. The loop waits for ever on a connection that looks alive.

### Outbox

A POST appends, enqueues and registers a sync, one step each. `flush` is the one
flush in progress (`flushing`); whoever comes second joins it, flag or not.
drainOutbox reads what is pending once and sends it in order; a failure stops it,
or, on the last chance, is dequeued and recorded. The browser's SyncManager is
modelled from its contract (retries, a last chance, re-registration while
firing); `supported` says whether it exists at all. Kills and failing transactions
fall between any two steps.

Properties: `NothingLost`, what was queued is pending, has reached the upstream, or
is recorded as abandoned - except when the worker dies, or the append fails,
between the last chance's dequeue and its note (`hidden`); `SentInOrder`;
`OutboxDrains`. The comment at `service-worker.js:308-311` also promises a flush
"whenever a request arrives while items are queued"; no code does that, so
`OutboxDrains` rests on boots.

### UpstreamLoop and Relay

`phase[w]` is the await at which worker instance w's loop stands; several
instances run side by side, because `state.running` is a variable of one instance
and a worker being replaced lives on beside its successor. They share the log, the
cursor record, the payload records and the payload locks. An item is its position
in the upstream's order. `Fails` is an error at any await of the try block;
`ReportsLoss` is the append in the catch, which may throw too: the loop is then
left through `finally` with `running` still true (`over`) and only a new instance
delivers again. `Flushes` and `Postpones` are flushCursor with and without its one
second being over; `FinalFlush` is the one in `finally`.

Properties: `CursorTruthful`, every item at or below the cursor record is in the
log, or is a payload that is being stored or that an attempt broke off at;
`ImplementsRelay`, the loops together behave like `Relay`, one deliverer that goes
on from the remembered cursor, in order; `DeliversAll`, every item is logged in
the end, with the same exception.

The comment at `upstream.js:53-55` says that "Replay is idempotent - clients dedupe
by id - so a stale cursor costs duplicates, never data". The model shows what is
behind the two halves. A replayed frame is appended anew and gets a new log id, so
no client dedupes it: duplicates reach the tabs. And data can be lost: a loop
passes by a payload whose lock is taken and moves the cursor past it, and if the
other loop's attempt then breaks, or a worker is killed between putMeta and append
(later loops find the payload known), nothing announces it again. Both are the
exceptions of `CursorTruthful`.

Outside the model: WebTransport sends no cursor; the backoff is reset before
anything has been received (`upstream.js:70`), so over SSE and plain WebSocket,
where openUpstream returns before the server is asked, it never grows; and a loop
left by an error does not close its socket, whose pump goes on.

### BackgroundFetch

One key, announced up to `MaxAnnounced` times. `announcer` is the branch of
receiveBlobExclusive under the payload lock, with its inline fallback; `collector`
the success handler; `active` and `finished` the browser's registration and the
events it keeps for a worker that is not running. The handlers take no lock, so
all three interleave. The second half is the pull dialogue: `entry` is the tab's
`pending` map for the key, `text[r]` what row r shows, `timer` the rows whose 20
seconds run; messages carry the key only. `Killed` loses the pulls the worker took.

Properties: `PendingTrue`, a record says pending only while somebody is left to
settle it; `DownloadArrives`; `PullSettles`, a row does not read "pulling..." for
ever; `AnswerStays`. Each names its exceptions, which are what the code does: no
failure, cancellation or broken collection clears the pending record, and a record
is marked pending again by a download collected before its announcement wrote it,
or by a second announcement of a delivered payload, which this branch does not
check for (`stranded`); and pulls of one key from two rows within 20 seconds share
an entry, so that a row may lose its answer or be overwritten by a timer
(`overlapped`).

### ReadModel

One tab. `inbox` is the worker's message queue, `model` the ids in its table.
`First` is the sync the first query starts; a resync, started by a "trimmed"
broadcast, has a sync of its own (`Resyncs`), and `current` is the memoised one.
What the page does when a reply comes happens with the reply. The table starts
empty or with what an earlier session left on disk (`Disk`).

Properties: `TableCurrent`, what the tab has seen and the log retains is in the
table or on its way; `NoStaleRows`, nothing the log dropped is left when every
trim has been heard; `AnswersCover`, an answer covers what the tab had seen when
it asked; `QuerySettlesUnlessDead`. Exceptions, again the code's: push drops an event while
there is no worker, although the first backfill may have read the log already
(`missed`); rows that were trimmed before they reached the table come after the
reset, and the persistent copy is not emptied on opening (`stale`); a query during
a resync may find the table empty while `synced` is still the old one; a
rejected backfill stays memoised, so that every later query is refused; and a query
whose worker never starts is not settled at all. `spawn` listens for messages only
(`query.js:32-43`), so when the script fails to load or to start - which
`query.js:14-16` and `service-worker.js:192-193`, `228-233` know of - its entry stays in
`waiting` for ever (`worker = "dead"`). A failing fetch of the worker's source, on the
other hand, rejects the query (`SpawnFails`), and so does a worker whose database does
not open (`"broken"`). The page asks one query at a time.

### SseCodec, BlockContainer, HashStream

The stateless parts, with the chunks, requests and resumptions as steps, each
compared with a reference that reads differently. `SseCodec`: `Transform` takes
chunks cut anywhere; `DecodesAnyCut` compares it with a reader of one character
at a time, both of them recursive functions over the text, and frames of our own
with the data that was framed. `BlockContainer`: a file is a sequence of bytes and
trailer words; `GetBlob` parses the range and `Pull` is readBlocks'; `RangeIsExact`
compares the body with the set of bytes the header asks for. Data of our own is made
of LF and one other character: `frame` splits at LF only (`sse.js:18`), so data with a
CR would not come back, but every caller frames JSON, which escapes it. `HashStream`: compress is what it absorbed; `DigestIsStandard`
compares the digest with that of the padded message, over every cut, the switch
from held chunks to streaming, and resumption from snapshots.

What they do not hide: a CR at the very end of a stream is never let go of; a raw
object whose promotion broke off is served as an empty payload, unlike a
container, which counts as absent; a malformed Range header is answered 416.

## Runs

| run | instance | checks | outcome |
| --- | --- | --- | --- |
| `event_stream` | 1 tab, 1 writer and the pass, windows 2 and 1, 3 ids, high water 1, pages of 1, 1 fault | GapFree, RecentKept, BelowFloorGone, NoGap, PipeOrdered, ImplementsFeed, LiveQueueBounded, CatchesUp, AppendSettles | pass |
| `upstream_loop` | 2 workers, 3 items, one a payload, one without an id, 3 faults | CursorTruthful, ImplementsRelay, DeliversAll | pass |
| `background_fetch` | 2 announcements, 2 rows, 2 messages under way, 1 fault | PendingTrue, DownloadArrives, PullSettles, AnswerStays | pass |
| `read_model` | 3 events, 2 trims, 2 resyncs, 1 row on disk, 1 fault | TableCurrent, NoStaleRows, AnswersCover, QuerySettlesUnlessDead | pass |
| `codecs` | texts of 6 characters, 2 own events of 3; payloads of 5 bytes in blocks of 2; 11 bytes hashed in blocks of 4 | DecodesAnyCut, RangeIsExact, DigestIsStandard | pass |
| `transfer` | payloads up to 2 blocks and a stub, 4 faults | AddressTrue, ResumePointTrue, LoggedIsStored, RightUnlessDropped, FinishesUnlessCornered | pass |
| `transfer_right` | the same with 3 faults | Right | violated |
| `transfer_finishes` | the same with 1 fault | Finishes | violated |
| `payload_store` | 2 writers, 1 key, 2 objects, room for 1, 3 events, 1 fault | PassSpares, EvictsOldest, Collected | pass |
| `frame_sink` | 4 messages, queue of 1, sizes 0, 2 and none, weights 1 and 2 | FramesInOrder, BodyIsItsOwn, DepthBounded, DrainsUnlessCancelled, EndSeenUnlessCancelled | pass |
| `frame_sink_moves` | the same with 3 messages | KeepsMoving | violated |
| `outbox` | 2 POSTs at a time, 3 operations, 2 tries, 2 faults | NothingLost, SentInOrder, OutboxDrains | pass |

Why the bounds suffice. `event_stream`: with windows 2 and 1, three ids let the
scheduled trim and a panic trim both delete, each with a head that appends have
overtaken; a quota note makes a second append in progress; high water 1 lags at
the second unread frame; three ids are a page, one landing in between and one
after; one fault at a time is what recovery is about, and tabs share nothing but
the log. The theorems cover the larger instances of all its invariants and of the
refinement. `upstream_loop`: three faults are a broken attempt, an error in the
error handler and a kill of the other loop; three items are the payload and the
two ways to its left and right that a cursor can be wrong. `background_fetch`: the
second announcement is every conflict a third could make, and two rows are a pull
that meets another's entry. `read_model`: three events are one trimmed, one kept
and one pushed while a backfill is out; two resyncs may run beside the first sync.
`codecs`: six characters hold an event, a blank line in any of the three endings
and the start of another; five bytes are two whole blocks and a short one; eleven
hashed bytes are two blocks and every remainder, and the native limit of five is
neither at a block boundary nor before the first one. `transfer`: four
faults are a failed attempt, the loss of what it left, a failed second attempt
and a failure of the third. `payload_store`: three events are an object announced
again after another, which is what "newest reference" is about, and two writers
of one key and of the same object are every conflict there is. `frame_sink`: four
messages are a payload filled, overrun or short, the header that cuts it and one
behind; the queue of one makes every second frame wait. `outbox`: three operations
are a failing one, one behind it and one queued while they are sent.

`CHECK_DEADLOCK FALSE` stands where the modelled thing ends for good: a connection,
a delivered key, a payload that is not announced again, a text, a request, a digest,
a page whose only query waits for a worker that never starts.

## Fairness

- EventStream: IndexedDB answers every request, so a call in progress goes on; the
  worker answers and reads pages, the pipe moves, events are dispatched, the retry
  timer and broadcasts arrive. Nothing is assumed of appends starting, trims or
  returning online; faults are finitely many.
- UpstreamLoop: a loop that runs goes on - its own steps and, while the upstream
  has something to send, the arrival of a frame; an instance whose loop is over is
  idle and is killed in time; and when no instance is left a request boots one.
  Nothing is assumed of errors and kills but their number.
- BackgroundFetch: a download ends, the browser starts the worker for it, its
  handler goes on, and timers fire. Nothing is assumed of announcements, of pulls
  or of answers.
- ReadModel: a fetch settles, a worker that started answers its messages, the page
  goes on.
- ResumableTransfer: the upstream announces until the key is delivered, its
  server answers, an attempt that is not broken runs to its end.
- PayloadStore: passes recur (every write asks for one) and a pass goes on.
- FrameSink: the worker's steps; messages sent arrive or the socket ends; nothing
  of the server, of cancelling or of errors.
- Outbox: the worker's steps; an idle worker is killed and a dead one asked for
  again, as browsers do; an upstream asked again and again accepts (strong
  fairness). Background Sync need not exist.

## Proofs

`tlapm` checks these for every value of the constants that satisfies the
assumptions of the modules (`LogAssumption`, `StreamAssumption`,
`TransferAssumption`, `StoreAssumption`, `HashAssumption`, `SinkAssumption`,
`OutboxAssumption`, `LoopAssumption`, `BackgroundAssumption`, `ReadAssumption`,
`BlockAssumption`, `SseAssumption`).

`EventStreamProofs`, the log. `LogInv` is inductive: the type invariant, the three
safety properties and what they need - the newest event is always there
(`NewestKept`), a trim under way never reaches into the panic window of the
head at any later time (`TrimsBehindHead`: heads only grow, windows are at least
`PanicRetention`), nor does the floor (`FloorBehindHead`). Without the first,
`LogHead` might be 0 and a trim could compute nothing of use; without the others,
a commit of a stale trim could cut a hole. `LogTypeCorrect`, `LogIsGapFree`,
`LogKeepsRecent` and `LogFloorIsBelow` follow.

`EventStreamProofs`, the streams. `StreamInv` combines the log's retained interval with a
statement about every stream: what is in the pipe, in the page and in `buffered`
is newer than the tab's cursor and leaves in order; everything retained above the
cursor is in one of them, or still to be read, up to the first lagged frame; and
behind a lagged frame nothing is promised, because the tab resumes from its own
cursor. One lemma per operation on a stream's record shows that it keeps
this, one per action lifts it to all tabs. `StreamTypeCorrect`,
`StreamNeverSkips`, `StreamIsOrdered` and `StreamImplementsFeed` (the refinement of
`Feed`, step by step) follow, for any number of tabs and writers, any page size
and any high water mark. `LiveQueueIsBounded` needs one thing more, `AllDrained`: a
live stream that is not lagging has no lagged frame in its pipe, or its queue has
drained to the mark since - so a second mark cannot come on top of the first.

`ResumableTransferProofs`. None of the properties is inductive: what is stored is
decided by what was hashed and what was written, two sequences that two records in
two stores claim to be the same. `TransferInv` says that unless a point was dropped
whatever is staged, hashed, saved or in hand begins the payload (`FileHolds`,
`PointsHold`, `DataHolds`); and, dropped or not, that what was hashed has the shape
of what was written, whole blocks and at most a piece behind them - which is
why the size that promote checks is the size of the object it leaves: every object
has the announced size or is the empty target of a broken copy (`ObjectsHold`), and
what is recorded or announced leads to one of these (`StoredHolds`), also for the
payloads that `Right` is refuted by. `AddressesAreTrue`,
`ResumePointsAreTrue`, `LoggedAreStored` and `AnnouncedAreRight` follow, for any
number of blocks, attempts and faults.

`OutboxProofs`. `NothingLost` and `SentInOrder` are inductive only with what the
flush knows: what it has left of its snapshot is all that is pending up to the
snapshot's greatest id (`SnapshotIsFront`: ids grow, so later POSTs queue behind
it), so the operation it is at is the oldest pending one; an operation is dequeued
as sent only once it has reached the upstream (`SentReached`); and what is being
noted or confessed is no longer pending (`OpDequeued`). One step per action;
whatever ends a flush early - a failed catch, a kill - is one lemma
(`SettlingKeepsInv`). `OutboxTypeCorrect`, `OutboxLosesNothing` and
`OutboxSendsInOrder` follow, for any number of POSTs, operations, tries and faults.

`UpstreamProofs`, the loops. `CursorTruthful` speaks of the cursor record only, but the
record is written from positions and pending cursors that are older than it, by
several loops. `LoopInv` therefore says of every position at which a loop may
still write a cursor what `CursorTruthful` says of the record: each worker's
connection has dealt with everything up to its last item, that one included unless
it is in hand (`PositionDealt`); each pending cursor is dealt with
(`CursorsDealt`); an item in hand is where its phase says (`HandHolds`); a payload
that is recorded is logged, in hand, or broken off at (`RecordedKept`), and so is
one that was passed by (`PassedKept`) - which is why passing by is sound as long as
nothing breaks. `LoopTypeCorrect`, `CursorIsTruthful` and `LoopImplementsRelay`
follow, for any number of loops, items and faults.

`BackgroundFetchProofs`. `PendingTrue` is inductive by itself once `stranded` has
its type: every step that ends the last thing under way settles the record or
strands it. `AnswersStay` needs `AnswersSettled`: a row outside `overlapped` that
shows an answer is not the map's entry, so no late answer finds it, and while its
own timer runs the map is empty, so neither does the timer.
`BackgroundTypeCorrect`, `PendingIsTrue` and `AnswersStay` follow, for any rows,
announcements and faults.

`UpstreamProofs`, the frames. `BodyHolds` says of every header the sink took, up to the present
one, which messages its body holds and why it holds no more: it is full, the next
header cut it, or the sink ended. The rest of `SinkInv` says that nothing is
accepted behind a message that was lost, or after the end (`LossIsFinal`,
`EndIsFinal`), that the loop is never ahead of the sink (`FrameIsAccepted`), and
that the pump runs only while the queue has room (`RoomWhileRunning`), without which
`DepthBounded` is not inductive. The bytes of a body are a recursive sum; its
existence and its steps are derived from the well-foundedness of `<`, by a least
counterexample. `FramesComeInOrder`, `EachBodyIsItsOwn` and `DepthIsBounded` follow,
for any messages of any size, either transport and any limit.

`PayloadStoreProofs`. A pass works from the log it read, while writers append
to it and panic trims cut it. `StoreInv` keeps the two related: the first `kept`
events of the log are the last `kept` of those the pass read (`KeptIsSuffix`:
appends come behind them, trims take them from the front), and what a sweep has
left to delete was named by none of them (`TodoIsUnnamed`). With the types of what a
put carries (`PutHolds`) `PassSparesNamed` follows, for any writers, keys, objects,
budget and faults. `EvictInv` adds that the order in which a pass deletes is by
newest reference (`ByNewest`); that deleting and re-inserting each name while the
log is read once makes such an order is a lemma about the recursive `OldestFirst`
(`OldestFirstIsByNewest`), again by a least counterexample. `EvictionIsOldestFirst`
follows, and `StoreTypeCorrect` with it. Only that theorem uses that there are
finitely many hashes, and it needs that to count them.

`CodecProofs`, the hash. `DigestIsStandard` speaks of the end only. `HashInv` says
of every hash, the one at work and the saved one, that it absorbed whole blocks,
that less than one waits in the buffer, and that together they are the payload so
far; a snapshot may leave the buffer out only because it is empty then.
`DigestsAreStandard` follows for any block, payload, native limit and cut.

`CodecProofs`, a range of a payload. `RangeIsExact` says what a body holds and not
which block comes next. `BlockInv` does: after every pull the body is, byte by byte,
the range up to the next block (`Delivered`), within the payload (`Resolved`). The
proof reads back the trailer that was written: its offsets, a recursive function,
are the beginnings of the blocks in the file (`PartIsThere`), so that each pull
finds the member it looks for, and the table adds up to the place where it starts.
`RangesAreExact` follows for any payload, block size, block lengths and header.

`CodecProofs`, the event stream format. The decoder scans its buffer for blank
lines, parses what is in front of them and keeps the rest; the reference reads one
character at a time and keeps a line, a list of data and whether a CR came last.
`Fits` relates the two: the rest holds no CR and no whole frame, its last line is
the reference's line, and what its other lines say is the reference's data.
`SseInv` says that this is so of everything but a CR held back (`Kept`), and that
the same events are out. One more character keeps it (`OneMore`), and so does a
chunk of any length (`ChunkFits`) if it does not begin in the middle of a CRLF,
which is what holding the CR back is for. That frames of our own come back is then
a statement about the reference alone (`ReadsOwn`): data split into lines and
joined again is the data (`JoinsLines`). `AnyCutDecodes` follows for any text and
any cut. Flattening and each of the recursive functions (`Lines`, `Cut`, `ReadText`)
is shown to exist and to take its steps one element at a time (`FlattenMore`,
`LinesStep`, `CutSteps`, `ReadSteps`), and what holds of the empty sequence and is
kept by one more element holds of every sequence (`EverySeq`): inductions over a
set, derived once more from the well-foundedness of `<`.

`ReadModelProofs`. What is promised of the table while nothing is under way is kept
while everything is: a message waits in the inbox for exactly the sync or resync
that is in that phase (`InboxHolds`), so a reset cannot meet a backfill of its own
resync; only a first sync finds no worker (`SyncsHold`); what the tab has seen is in
the table, in the inbox, or read and not yet posted (`SeenIsThere`); and a trim not
heard or a reset not done is all that may stand between table and log
(`RowsRetained`). `TableIsCurrent`, `NoRowsAreStale` and `ReadTypeCorrect` follow,
for any events, resyncs, trims and faults. For an answer that is not enough: what is
still on its way when the query is answered comes too late. `QueryInv` adds that the
rows a posted query is owed are in the table or in messages ahead of it in the
worker's queue, whenever the current sync has nothing to post behind it
(`OwedIsAhead`), and that a query was preceded by a sync (`QueryHasSync`).
`AnswersAreCovered` follows.

Only model-checked: every liveness property (fairness and ENABLED are beyond the
prover). Every invariant and every safety property of a step that a run checks is
a theorem, but for `Right`, which a run refutes.

## Not modelled

- Compressed blocks and unsized payloads in transfers; the contents of a staging file two PUTs share (with
  contents, PayloadStore outgrows a run). The code has no lock there: the object
  promoted for one PUT may hold the other's bytes.
- More than one worker instance in EventStream. Subscribers belong to an instance
  (`log.js:97`), so while an updated worker runs beside its predecessor an append of
  one is not passed to the streams of the other, and the broadcast wakes only tabs
  whose stream is not open (`app.js:296-298`): `NoGap`, `PipeOrdered`,
  `CatchesUp`, `ImplementsFeed` and their theorems are about one instance at a time.
  UpstreamLoop does run several side by side.
- A JSON text message that is `null`, on which `accept` throws (`transport.js:237`).
- WebTransport and SSE upstream readers, which keep no state beyond their stream,
  and the handshake that chooses among them.
- What a loop left by an error does to its open socket (see UpstreamLoop).
- In the read model: `status`, the election of the persistent copy (its outcome is
  a choice), and two first calls that both pass `spawn`'s check while the worker's
  source is being fetched.
- `clear()` (never called), `storageStatus`, the router's pattern matching,
  conditional requests, rendering, shell caching, upgrade.
- SHA-256's arithmetic: test vectors say more than a model would.

## Plan

Every component that keeps state the others depend on is modelled, and every
invariant a run checks is proved. What could still be done:

1. The contents of a staging file that two PUTs of one key share, in a small model
   of its own.
2. WebTransport's framed streams beside the two WebSocket transports, and the event
   stream's fields `id` and `event`.
