# A verification of processing-poc

processing-poc turns one large image into a grid of tiles, lets worker services
make the tiles, and merges them. Six Spring services talk over one RabbitMQ
exchange; the orchestrator and the tracker keep their state in PostgreSQL, tiles
and results are files in a bucket. A second worker is written in C++ on the
libraries the repository carries with it: rabbitmq-c for AMQP and jsoncpp for
JSON. This directory holds TLA+ modules of the parts in which order, failure,
redelivery, time or the limits of a format matter, TLC configurations that check
them on small instances, and proofs for TLAPS that hold for every instance.

Paths below are relative to `src/`; `...` stands for
`src/main/java/com/processing`, `rabbitmq-c` and `jsoncpp` for the directories of
that name under `echo-worker-cpp/tpl`.

## Inventory

| component | state it keeps | operations | talks to |
|---|---|---|---|
| controller (`controller/...`) | none | `POST /processing/echo`: draws a UUID, publishes a start message | start messages to orchestrator and tracker |
| echo-orchestrator (`echo-orchestrator/...`) | tables EchoOrchestrator and EchoWorker (state INIT, PROCESSING, DONE; tileURL) | start (create rows, dispatch tiles), worker callback, merge callback (empty) | worker messages, merge messages |
| echo-worker (`echo-worker/...`) | tile files in the bucket; a ThreadLocal Context | make one tile unless its file opens, call back | callbacks to orchestrator and tracker |
| echo-merger (`echo-merger/...`) | one result file (.vrt) per processing | build the result unless its file opens, call back | callbacks to orchestrator and tracker |
| tracker (`tracker/...`) | table Tracker (progress, maxProgress, velocity, lastRefresh) | start, worker callback, merge callback; REST reads with an estimate | read by ui-admin |
| lib-geo (`lib-geo/...`) | none | GridService.split, GeoService.getGeoTransform and toGeo | called by the orchestrator and the worker |
| lib-data (`lib-data/...`) | none | ImageService.existAndIsValid: try to open a file | called by worker and merger |
| lib-orchestrator | none | the State enumeration; the generic services are empty or commented out | used by the orchestrator |
| echo-worker-cpp (`messaging.cpp`, `app.cpp`) | a connection | sets up a channel, takes messages off the worker queue (acknowledged on delivery), reads their JSON and prints them | rabbitmq-c, jsoncpp |
| rabbitmq-c: codec (`amqp_table.c`, `amqp_framing.c`) | none | encode and decode methods, headers, tables; clone and merge tables | all of the library |
| rabbitmq-c: input (`amqp_connection.c`, `amqp_mem.c`) | the half-read frame, a memory pool per channel | take octets, return frames, release buffers, tune | the calls |
| rabbitmq-c: calls (`amqp_socket.c`, `amqp_api.c`, `amqp_consumer.c`) | a queue of frames read but not used | rpc, get, publish, consume a message, read a message | the broker |
| rabbitmq-c: login and time (`amqp_socket.c`, `amqp_time.c`) | heartbeat deadlines, the tuned limits, the rest of a frame being sent | login, send, wait for a frame | the broker |
| jsoncpp: readers (`json_reader.cpp`) | position, nesting, waiting comments, errors | `OurReader` (behind `CharReaderBuilder`), `Reader` (the older one, which `app.cpp` uses) | Value |
| jsoncpp: writers (`json_writer.cpp`) | indentation | FastWriter, StyledWriter, StyledStreamWriter, the builder's writer | Value |
| jsoncpp: Value (`json_value.cpp`) | a tree | element access, insert, append, resize, remove; conversions | readers and writers |
| ui-admin | one page of trackers | polls the tracker | tracker |
| test-database, test-gdal, k8s, gradle | - | experiments, manifests, build files | - |

How the components interact:

    controller --start--> orchestrator --worker (one per tile)--> echo-worker
        |                    ^   |  ^                          (or echo-worker-cpp)
        |                    |   |  +----------- callback ------------+
        v                    |   +--merge--> merger --+               |
      tracker <-- callback --|------------------------+---------------+

    echo-worker-cpp --> rabbitmq-c:  calls <-- frames -- input <-- octets -- socket
            |                          |                   |
            |                          +---- codec --------+---- login and time
            +---------> jsoncpp:     reader --> Value --> writer

What is hard here, and what makes each component correct:

* **echo-orchestrator.** Rows are read and written at READ COMMITTED with
  full-row UPDATEs and no version column; messages are published inside a
  transaction but do not belong to it; a start message whose handler throws is
  delivered again and finds what the previous attempt committed. The comment at
  `EchoWorkerService.java:85` doubts its own synchronisation. Correct means: a merge
  waits for all tiles; nothing that was accepted is lost, whatever fails; a
  redelivered start repeats no work that is recorded; each processing is merged, once,
  with all its tiles.
* **tracker.** One row is updated from three queues which are drained independently,
  with at-least-once delivery and increments that are not idempotent. Correct means: the
  progress is earned, completion is reached and not taken back, the estimate is not
  behind what is stored as long as refreshes are dated in the order of their commits.
* **echo-worker.** The file is the only memory of a tile and "does it open" is the only
  test; the number of workers reaches the callback through a thread-local. Correct
  means: every tile is reported, with its own total, and a finished one is not written again.
* **echo-merger.** The same test on the result file, which is never built again.
* **The services together.** Each assumes something of what the others publish and when:
  a result is made of finished tiles, and nothing is shown complete without a result.
* **lib-geo.** Cells cover the image, do not overlap, are at least one, and lie where the
  area of interest has them.
* **rabbitmq-c.** One thread, no callbacks, but octets that arrive in pieces of any size,
  frames of other calls in between, replies that do not name their request, three deadlines
  behind one poll, partial writes, failing allocations, and memory that is handed out per
  channel and recycled between calls. Correct means: frames come out as they were sent, a
  message is one delivery, a reply is its request's, memory in use is not given twice, a
  live broker is believed and a dead one noticed.
* **jsoncpp.** Two readers that began as copies and differ, eleven settings, comments that
  are kept and attached to values, error recovery, four writers. Correct means: a document
  is accepted exactly when it is JSON (with the setting's extensions), comments neither
  change it nor get lost, what is written reads back, and numbers are exact.
* **ui-admin.** Several polls may be in flight; the last answer wins.

PROJECT.json lists these hazards at their lines with the property that covers each, and
the components that are left out with the reason.

## Modules

| module | what it is |
|---|---|
| `EchoOrchestrator` | the orchestrator: queues, rows, transactions, one start consumer, any number of callback consumers, failures |
| `MapReduce` | what the orchestrator promises: accept, plan all tiles of a processing at once, map each, reduce when all are mapped |
| `EchoTracker`, `TrackerEstimate` | the tracker's row and its three consumers; the velocity column and `getProgressPercent` as operators |
| `EchoWorker` | consumers of worker messages, the bucket, redelivery |
| `EchoMerger` | consumers of merge messages, the result file, second messages |
| `EchoSystem` | the four services above composed over the queues they share |
| `ImageProcessing` | what they promise together: request, make tiles, build when all are made, show what is built, take nothing back |
| `Grid` | the loops of `GridService.split` and the transforms of `GeoService` |
| `AmqpTable`, `AmqpMethods`, `AmqpCodec` | the wire format: primitive codecs and tables; every method of AMQP 0-9-1 as struct, encoder and decoder; a machine that sends, truncates, reads and clones a frame |
| `AmqpPool`, `AmqpInput`, `FrameStream` | memory pools as operators; `amqp_handle_input` over them; what it promises |
| `AmqpClient` | calls that wait for frames: the listener of echo-worker-cpp, or a client that does what the library also offers, against a broker |
| `AmqpSession` | login, sending and waiting against time and heartbeats |
| `JsonTree`, `JsonReader`, `JsonLegacyReader`, `JsonWriter` | a value with its comments, the two readers, the four writers |
| `JsonText`, `JsonValue` | numbers, strings and Unicode as text; a scalar that converts itself, and an array as a sparse map beside the sequence it stands for |
| `EchoSystemProofs` (with the orchestrator's), `EchoTrackerProofs`, `EchoWorkerProofs`, `EchoMergerProofs`, `AlgorithmProofs` (`Grid` and `JsonValue`), `AmqpInputProofs`, `AmqpSessionProofs`, `AmqpClientProofs` | the theorems |
| `MCEchoOrchestrator`, `MCEchoTracker`, `MCEchoWorker`, `MCEchoMerger`, `MCEchoSystem`, `MCGrid`, `MCAmqpCodec`, `MCAmqpInput`, `MCAmqpClient`, `MCAmqpSession` | values of the constants for TLC |
| `MCJson`, `MCAlgorithms` | documents, texts, scalars and arrays for the jsoncpp modules, with their reference definitions and properties; the run they share with the codec and the grid |

Operators named "Mutant" in a comment are plausible bugs: each stands before the
definition it could replace and breaks one property of a run. They show that the
property depends on the code; no specification uses them.

### EchoOrchestrator and the code

The start handler (`EchoService.start`) is a sequence of transactions, one action each:

| action | code |
|---|---|
| `ReceiveStartMessage` | `Listener.receiveStartMessage` takes a message (single consumer, no concurrency attribute) |
| `CreateOrchestrator` | `createOrchestrator`: insert unless the row exists |
| `SplitEmptyGrid` | `GridService.split` throws for an empty grid; the message is requeued |
| `CreateWorkers` | `createWorkers`: insert all rows or, on redelivery, read the list |
| `StartEchoWorker` | first part of `startEchoWorker`: the worker message is out |
| `CommitStartedWorker` | second part, its commit: every column is written from the entity read before the loop |
| `AckStartMessage` | the handler returns |

The callback handler (`callbackEchoWorker`) is one transaction, split where another
transaction or a published message can come between: `FindByWorkerId` (the row is
loaded, setters run), `CheckStates` (the flush takes the row lock, the distinct query
reads committed rows plus its own), `SendMerge` (second query, publication),
`CommitCallback`, `AckCallbackMessage`. `StartFails` and `CallbackFails` are an
exception or a death at any point between; the injected errors of
`ErrorGeneratorService` are instances of them. `WorkerReplies` is the worker service
answering a message; `WorkerRepliesTwice` is its death after the callback.

The queue variables count ready messages per processing or worker: queues are bags, as
redelivery may reorder them; `mergeQ` is a sequence because a run and the barrier speak of
each published message. `state` joins the existence of a row to its column ("ABSENT");
`tileURL` and `tiles` are the sets of workers with a URL and with a reported tile.

### EchoTracker and the code

Each handler is one UPDATE or INSERT, so a delivery and its commit are one action
(`StartProcessing`, `UpdateProcessingWhenWorkerFinished`, `FinishProcessing`), the
acknowledgement another (`Ack`), and a death in between puts the message back
(`DieBeforeAck`). `StartAgain` is the insert that violates the unique index of
`Tracker.java:15`: nothing changes and the message is requeued. The publishers follow the
protocol of the other services: a merge callback exists only after every worker called
back, but the queues deliver in any relative order. So a worker callback may be applied
after the merge callback, and its share is then added on top of 10000.

`TrackerEstimate` computes what the SQL and the Java compute, over times in
milliseconds. `VelocityAfter` is the velocity column of
`TrackerRepository.incrementProgressByProcessingId`: an elapsed time in a mixture of units
(20000 after ten seconds, where `TrackerRepositoryTest.java` expects 1000), with no progress in
it. `MillisOfReversedDuration` is the `getNano() / 1000000` of a duration whose arguments are
swapped: it counts down from 999 to 0 in each second, so the estimate is a sawtooth and not
the extrapolation the comment of `Tracker` describes.

The times are of either sign. A listener takes the date of a refresh with
`ZonedDateTime.now()` before the statement that stores it (`Listener.java:27`, `:34`, `:41`),
and three consumers do so independently, so `:lastRefresh - t.lastRefresh` is negative when
the worker callback's date is older than that of an insertion or a completion committed in
between. The velocity is then negative too and the estimate falls below the stored progress,
below zero if the time is long; if the commit in between was the completion, a complete
processing is shown as less than complete, at nearly every poll until a further callback.
`EstimateIsNotBehind` states what can be relied on: a row last refreshed by its insertion or
its completion (`Velocities`: its progress is at its cap and its velocity 0) is never shown
behind, whatever the dates; after a worker callback it is not shown behind either, provided
the callback was not dated before the refresh it follows; otherwise it is at most what is
stored. The row keeps no clock: the property speaks of every velocity and every poll that the
times in `Elapsed` give. `MaxElapsed`, twenty days, is where the product in
`getProgressPercent` would leave the 32 bits of an int.

### EchoWorker and the code

`ReceiveMessage` sets the Context; `ExistAndIsValid` branches on whether the file opens;
`InputUnreadable` is the null dataset of a missing input; `CreateTile`, `WarpTile` and
`SendCallback` follow `EchoWorkerService.start`. GDAL is external: a file under
construction may open or not (both branches), and a file two consumers write may end
whole or torn. `Die` is possible everywhere; a death between `CreateTile` and `WarpTile`
leaves a partial file, which the next consumer may find to open and report as the tile. The
service's dead-letter queue does not appear: a listener that throws has its message requeued
by default.

### EchoMerger and the code

The worker's structure again: `ExistAndIsValid` looks for the result of the processing,
`CreateVRT` builds it from the tiles the message lists, `SendCallback` and `Ack` end the
handler, `Die` may come anywhere. A message may list a null: the two queries of
`callbackEchoWorker` run at READ COMMITTED, and a late commit of `startEchoWorker` between
them takes a tile URL back. Then `CreateVRTFails` and `CreateVRT` are both possible, because
GDAL either refuses such a list or leaves the entry out. `SendMergeAgain` is the second
message of a callback transaction that was rolled back after it had published; its list may be
another one. A `.vrt` is a small text that is written as a whole, so there is no partial
result. One thing the model makes plain: the first list decides. A result that was built from
a list with a null stays as it is, and a whole list that comes later finds the file and only
calls back.

### EchoSystem and the code

`EchoSystem` extends the orchestrator and takes the worker, the merger and the tracker as
instances (`W`, `M`, `T`). A message is one joint step of the service that publishes it and
of every service that gets a copy, as the exchange copies it into each bound queue:
`StartMessage` (controller, orchestrator, tracker), `WorkerMessage` (orchestrator, worker
service), `MergeMessage` (orchestrator, merger), `WorkerCallback` (worker service,
orchestrator, tracker), `MergeCallback` (merger, tracker). Every other step belongs to one
service: `Orchestrates`, `MakesTiles`, `TakesMerge`, `Merges`, `Tracks`. What the modules of
the services leave to an environment is here done by the others; the fault counters of the
instances count what they publish or are given a second time because the orchestrator failed.
`ServicesFitTogether` says that this is one system: a message the orchestrator takes as
unanswered is in the worker service's queue or in the hands of one of its consumers, a merge
callback has every worker callback of its processing before it, and a failure of the
orchestrator makes at most one worker message and one merge message be published again, and
each of these one callback. As the failures are at most `MaxFaults`, the bound
`MaxDuplicates` on what is published again keeps no step from being taken.

`ImageProcessing` is the same without services. `requested` is the controller's, a tile is *made*
when its worker reports it, a processing is *built* when its result file is there, and *shown*
when the progress column says 10000; `recounted` says that some callback came twice. Only then
may a processing be shown that is not built: the tracker's increments are not idempotent.

### Grid and the code

`StartColumn`, `AddCell`, `EndColumn`, `EndColumns` are the two loops of `GridService.split`,
`ThrowEmptyGrid` and `ReturnGrid` the test after them. `GetGeoTransform` and `ToGeo` are
`GeoService` over integers; the code's loops run over doubles which hold integers too. The x
and y of a cell are the model's, to say which pixels the cell stands for. Cells are
not clipped: the last one of a row or column reaches beyond the image. The skew of the area of
interest is dropped by the code (`upperRight.y` and `lowerLeft.x` are not read).

### The AMQP codec and the code

`AmqpTable` has the primitive encoders and decoders of `amqp_private.h` and the field tables
of `amqp_table.c`. An encoder yields the writes the code attempts, each with the status it
returns when it does not fit, so a buffer that is too short is met at every octet. Wide
integers are sequences of 16-bit limbs. `AmqpMethods` holds three tables translated
separately: the structs of `framing.h`, what `amqp_framing.c` writes and what it reads back.
`AmqpCodec` (`amqp_frame_to_bytes` and the decoding half of `amqp_handle_input`) picks a frame
and a buffer, writes it, may cut its payload, reads it and clones its table. Facts the models
make plain: a table key of more than 255 octets is written whole after a length cut to one
octet, so that a table with such a key is read as something else, even as a valid table of
entries nobody sent (`RoundTrip` excepts these tables and says that they never arrive as sent;
the sample has keys of 255 and of 256 octets); the entries of a nested table may be read past the end of that table; `amqp_table_clone`
refuses empty keys; `amqp_merge_capabilities` keeps the duplicates of its second argument.

`AmqpPool` is `amqp_mem.c`: extents in pages, large blocks, recycling, and every allocation
that may fail, among them the page that is allocated but cannot be recorded (`amqp_mem.c:115`)
and never freed. `AmqpInput` feeds octets that arrive in pieces (`Recv`) to `HandleInput`, one
call of `amqp_handle_input`: `ReadProtocolHeader`, `ReadHeader`, `ReadBody` and `ReadPart` are
its branches by the state of the connection. `ReleaseBuffersOnChannel` and `TuneConnection` are
the client's calls in between; the client keeps no frame of the channel, so the search for
stored frames that may forbid the release (`amqp_connection.c:414-423`) has nothing to find and
is left out. An octet is the number of its frame and its place in it, so
"intact" means that the very octets come out in order. When the allocation for a body fails
(`amqp_connection.c:284`) the octets of the header are used up and the first octet of what was
at hand is lost.

### AmqpClient and the code

The library runs in one thread. `inbox` is what the socket holds, `queue` the frames that a
call read and did not use (`first_queued_frame`), `call` the call in progress.

| action | code |
|---|---|
| `Listen`, `Ask` | `Listener::init` request by request; another client's `queue_declare` and `basic_get` (`Request`: `amqp_send_method`) |
| `RpcFrame` | `simple_rpc_inner`: a frame is the reply, a close, or stored |
| `RpcTimeout`, `RpcFails` | the call's timeout, which closes the socket; a socket that fails |
| `Publish` | `amqp_basic_publish` without the wait for the socket (see `AmqpSession`) |
| `StartConsume`, `ConsumeFrame`, `ConsumeTimeout` | `amqp_consume_message`: the first frame, which must be a delivery of a channel |
| `ReadHeader`, `ReadBody`, `StoreOther`, `MessageFails` | `amqp_read_message` |
| `SkipHeartbeat` | heartbeat frames, which are dropped when waited past and stored when only tried for |

The broker answers, refuses, delivers, sends heartbeats and closes channels, connections and
sockets (`Answer`, `Deliver`, `SendContent`, `SendHeartbeat`, `CloseConnection`,
`CloseSocket`). The frames of a message and the method that announces it carry a number the
wire does not have, so that a property can say whose they are; `of` and `by` of a call record the
method it read. `call = Crashed` is the null pointer `messaging.cpp:42` reads after a refused
`queue_declare`. Facts the model makes plain: the frames of other channels stored before the
wanted one are dropped with it (`amqp_socket.c:877`; see `two_channels`); a `channel.close` that
lies in the queue makes a later rpc on that channel wait for ever; a frame that `amqp_consume_message` puts back
makes every later call of it fail the same way; a heartbeat read by `amqp_try_recv` is stored
like any frame.

### AmqpSession and the code

`amqp_login_inner` is `Start`, `UnfitStart`, `Refused`, `Tune`, `Open`; `amqp_send_frame_inner`
and `amqp_try_send` are `Write`, `GiveUp`, `TryRecv`, `SendTimeout`, `SendFails`;
`wait_frame_inner` is `SendHeartbeat`, `Recv`, `WaitTimeout`, `RecvFails`, `SkipHeartbeat`. The
clock is not a variable: every deadline counts down to the moment it is due, and `Tick` takes
one from all of them. Frames are counted in octets that the socket takes (`FrameSize`,
`Capacity`), the broker reads them again whenever it likes, and `torn` says that a frame began
inside another. Facts: a publish that is given up leaves half a frame on an open connection; a
`frame_max` of 0 from both sides is taken as it is and asks for a buffer of no octets;
milliseconds until a deadline are kept in an int.

### The jsoncpp modules and the code

A document is a sequence of lexemes; a value with everything below it is a function from paths
to nodes (`JsonTree`). `JsonReader` is `OurReader` lexeme by lexeme: `ReadValue`,
`ReadMembers` and `ReadItems` are `readValue`, `readObject` and `readArray`, each loop cut into
the stages between the tokens it reads (`ReadName`, `ReadMember`, `EndMember`, `AfterMember`,
`NextMember`; `EndItem`, `AfterItem`), with `RecoverFromError` and the two kinds of comment.
`JsonLegacyReader` repeats only what differs in `Reader`. `JsonWriter` has the four writers as
what they put out, line ends and comments included. `JsonText` decodes and prints numbers and
strings code by code.

`JsonValue` has the relations between the widths of Int, LargestInt and double; a double is held
as twice its value, so that halves are integers. Its array is the sparse map of the code
(`Value::operator[]`, `append`, `insert`, `removeIndex` and `resize` are `DoTouch` and
`DoAssign`, `DoAppend`, `DoInsert`, `DoRemove` and `DoResize`), and `items` the sequence to which
the same is done. A step that brings a gap to the end of the array, or throws, is the last one
(`items.ok`): there the code has no sequence to be compared with.

What the models show the code to do, beside what the properties say:

1. After a comment that follows a member's value any token passes for the separator
   (`json_reader.cpp:1501`, and 490 in the older reader): `{"a":1 /*c*/ 5 "b":2}` is accepted.
2. A comment between a name and its colon is refused, and so is one in an array that is
   otherwise empty or before the bracket after a trailing comma.
3. Strict mode still skips comments inside objects and after items, although
   `json_features.h:35` says "Comments are forbidden."
4. The builder's writer without indentation puts a `//` comment in front of the rest of the
   document, which it swallows.
5. In the older reader a second comment on a line replaces the first, and a duplicate name
   overwrites comments; it reads values above the 32-bit maximum as unsigned.
6. `a[2] = 1` on an empty array is not equal to `[null,null,1]`; `resize` down to a gap throws
   (`json_value.cpp:921`); removing the last element before a gap shrinks the array further.
7. A writer with `dropNullPlaceholders` writes an array that holds one null as an empty array.
8. `asInt64` of 2^63 and `asUInt64` of 2^64 pass `InRange` (`json_value.cpp:90`), and the cast
   is undefined.
9. `removeMember(const String&)` and the names StyledWriter prints end at a NUL.
10. A member named `""` makes a trailing comma acceptable.
11. `-` reads as 0 and `01` is accepted; a high surrogate takes any `\u` after it for its
    other half; invalid UTF-8 is written as U+FFFD.
12. StyledWriter takes a comment that ends in a blank for indentation (`json_writer.cpp:587`):
    the next member is written inside the comment.

## Runs

| run | question | result |
|---|---|---|
| `system` | all services as deployed, one processing of two tiles, one failure of the orchestrator anywhere | what each service assumes of the others is what they do; results are made of finished tiles; together the services implement `ImageProcessing`; a database that shows a processing complete has its merge published |
| `two_consumers` | two callback consumers, two failures, a second processing with an empty grid | the barrier and the refinement of MapReduce hold; each processing is merged once, and a failure costs at most one merge message more; every worker is dispatched in the end |
| `write_skew` | two callback consumers, nothing fails | violated: each transaction misses the other's row, all rows are DONE and no merge is out |
| `lost_update` | one consumer, nothing fails, a fair system | violated: a worker answers before `startEchoWorker` commits, its DONE is overwritten, the merge never comes |
| `tracker` | grids of seven and of one, one death or duplicate | progress is earned without faults, the estimate is not behind unless a callback is dated before the refresh it follows, completion stays and is reached |
| `worker` | two consumers, one unreadable input, two faults | totals are not mixed up, readable tiles are reported in the end |
| `merger` | one consumer (as deployed), three faults, lists with and without a null | a reported processing has its result, whole if its lists were; every whole merge is reported |
| `input` | eight kinds of frame in pieces of any size, two frames, one failed allocation, tuning and releases in between | frames come out intact, once and in order or the connection fails; memory in use is not given twice |
| `client` | the listener, or a client with requests, gets, publishes and timeouts, against a broker that refuses and closes | a message taken by `amqp_consume_message` is one delivery, a reply is its request's, every delivery is returned unless the listener ended |
| `two_channels` | a client with consumers on two channels that also gets messages | violated: the content of a delivery that was thrown away is returned by a later get |
| `session` | three limits on each side, with and without heartbeats and timeouts | frames arrive whole, a live broker is believed, a waiting client is heard, logins end, a dead broker is noticed |
| `algorithms` | every method with boundary values in buffers of two sizes; documents of up to five lexemes (seven or ten of fewer kinds) under five settings; texts, scalars, arrays; images of -1 to 6 pixels a side in cells of 2 by 3 | what is encoded reads back; clones and merges are exact; readers accept JSON; comments are neither lost nor do they matter; what is written reads back; numbers, conversions and arrays are exact; cells partition the image and lie where the area has them |

The three violated statements are quoted from the repository in PROJECT.json under
"findings". `lost_update` is the important one: it needs neither the second consumer
that the TODO at `EchoWorkerService.java:85` is afraid of nor any failure, only a
worker faster than a commit, which is likely when the tile exists already.

`two_channels` is about what `amqp_read_message` is documented to do, to read the content of the
message that was announced. `amqp_simple_wait_frame_on_channel` unlinks the frame it finds in the
queue together with the frames stored before it, which belong to other channels. A `deliver` that is
dropped so leaves its header and body behind, and the next `basic.get` on that channel takes them
for its own. The same happens on a single channel with three messages, when the read of a get has
failed before. It cannot happen to a message that `amqp_consume_message` announced
(`ConsumedIsOneDelivery`, checked in `client` and proved), because what it takes is the first
frame of all, so that nothing of its channel was stored before it and dropped.

`EveryDeliveryReturns` counts the end of the listener as an end, also the crash: it
excludes a listener that waits on for a message it was given.

### Bounds, and why they are enough

* Two tiles are the least for which one callback can miss another; a second processing
  (`two_consumers`, `merger`, `tracker`) shows that one processing does not decide for another.
* One and two callback consumers: one is deployed (`concurrent.worker.callback=1`), two is
  the least that races. Every invariant of `two_consumers` and `system` except
  `AllDoneIsMerged` and `ResultHasCompleteTiles` is proved for any number, and those for one consumer.
* `MaxFaults` (1 to 3) bounds exceptions, deaths and duplicates. Two let a failure happen
  during the recovery from another. In `system` it is one; `MaxDuplicates`, twice
  `MaxFaults` and one more, bounds what is published again, and `ServicesFitTogether` shows
  that it is never reached. The two tiles of `system` are interchangeable and the run uses that symmetry; it
  checks invariants and a refinement that does not tell tiles apart, no liveness. No other run
  uses symmetry.
* Deadlock is not checked where the program may really come to rest: an orchestrator with an
  empty queue, a client that has closed, a text read to its end.
* Seven tiles for the tracker because 7 is the smallest divisor that rounds 9000; one
  because a share counted twice exceeds 10000.
* `Elapsed` is 0, 999, 59999 ms and twenty days, in both directions: the ends of a second and
  of a minute, where the SQL's units change, and the largest time for which the arithmetic
  stays in 32 bits.
* Cells of 2 by 3 pixels and images of up to 6 a side give sizes below, at, between and at a
  multiple of the cell's. Sizes 0 and -1 pass the controller's validation. The areas have
  spans that every size divides, so that integers stand for the doubles without rounding.
* `input`: sizes around the alignment of the pool (8), `frame_max` tuned from 24 to 16 so that
  a frame fits before and not after, and a page and a large block both occur; two frames
  (`MaxFrames`) so that one is half read while the other is held; `MaxFailures` is 1.
* `client`: one channel, bodies of no and of two frames, `MaxMessages` and `MaxRequests` 2 so
  that a late reply or message meets the next one, `MaxInbox` 2, `MaxHeartbeats` 1.
* `two_channels`: the least in which a delivery of one channel is stored before a frame of
  another: two channels, three messages, none with a body.
* `session`: intervals of 1, 2 and none against each other, a frame of two units and a socket
  that takes three, so that a write ends inside a frame; `MaxQuiet` 3 is beyond every interval.
  `Infinite` stands for "never" and is beyond twice any interval. More frames under way than
  `MaxArrived`, one, are not told apart.
* `algorithms`: `Rooms` 48 and 400 octets, of which every method overflows one or fits the
  other; `MaxLexemes` 5, `MaxNested` 7, `MaxMembers` 10 and `MaxTrivia` 2 reach a member after
  a comment after a member and an array in an object; `MaxInt` 20 and the other widths keep the
  order of Int, UInt, LargestInt, LargestUInt and the doubles between them; `Doubles` are those
around every limit, with their halves; `MaxElements` 3 with two elements is the least in which
an element is shifted over a gap. Conversions and arrays are proved for any widths, doubles,
elements and lengths.

Every run explores its whole state space.

### Fairness

Liveness is claimed only of running services: weak fairness of the consumers' steps
(`StartConsumer`, `CallbackConsumer`, `Consumer`, `Ack`) and of the worker's answer. Receiving
a particular message is strongly fair (`ReceiveStartMessage(p)`, `StartProcessing(p)`, the
delivery of a given tile), because a message that fails at every delivery keeps
taking the consumer: it is enabled again and again but not continuously. The containers
process their prefetched messages in order and a requeued message is delivered behind
those, so no message is passed over for ever. Faults are not fair, and are finitely many.

`AmqpInput`: a client that goes on reading its socket (`Recv`, `HandleInput`). `AmqpClient`:
the client's thread goes on while it can (`Works`); the broker answers requests, finishes the
messages it began and closes the sockets of connections it closed (`Answer`, `SendContent`,
`CloseSocket`); timeouts and deliveries are not fair. `AmqpSession`: a call in progress goes
on (`Works`), time passes (`Tick`), and a broker that is alive sends a heartbeat when one is
due; it may die or stop reading at any time, so no send is promised to end without heartbeats
or a timeout. `system` and `algorithms` claim no liveness.

## What is proved

For all processings, grids, consumers and numbers of faults:

* **Orchestrator** (`EchoSystemProofs`, first part). `TypeCorrect`; `Invariance` of `IndInv`; from
  it `MergeWaitsForAllTiles`, `NoStartIsLost`, `NoDispatchIsLost`, `DoneRowsHaveTiles`,
  `CallbackRowsExist`, `RowsAreNeverReset`, and `Refinement` of `MapReduce`. With a single
  callback consumer, `OneConsumerNeverMissesMerge`; for any number of consumers, `FewMerges`
  (`OneMergePerFailure`) and, before the first failure, `NoSecondMerge`.
* **The services together** (`EchoSystemProofs`). `ServicesKeepTheirSpecs`: in the composition
  the orchestrator, the worker, the merger and the tracker each keep the specification of their
  own module, so that everything proved there holds here; with it `ServicesFit`
  (`ServicesFitTogether`), `CompleteMeansResult` (`ShownCompleteHasResult`) and `SystemRefinement`
  (the system implements `ImageProcessing`) for any number of consumers, `ResultsHaveCompleteTiles` and `OneConsumerMergesAll` for one.
* **Tracker**. `TrackerTypeCorrect`, `CapIsNeverBelowProgress`, `CompleteForever`,
  `EstimateFollowsDates` (the estimate against the stored progress, for dates in and out of
  order), and `ShownIsEarned`: without faults the progress shown is that of
  the tiles reported.
* **Worker**. `WorkerTypeCorrect`, `DispatchedTilesAreKept`, `ContextIsNotShared` and, with
  a single consumer, `OneConsumerKeepsCompleteTiles`.
* **Merger**. `MergerTypeCorrect`, `MergesAreKept`, `ReportsHaveResults` and, with a single
  consumer, `OneConsumerKeepsResults`.
* **Grid** (`AlgorithmProofs`, with the next), for cells and images of any size. `GridTypeCorrect`, `CellsPartitionTheImage`,
  `NoWorkerForNothing`, `ThrowsForEmptyImages`; `TilesMeet` for areas whose spans the image
  sizes divide.
* **JsonValue**. `ArraysAreSequences` (`ArrayIsASequence`), for arrays of any elements and length;
  `ConversionsAreExact` (`ConversionsAgree`), for integers of any width and any doubles.
* **AmqpSession**, for frames, sockets, heartbeats and timeouts of any size.
  `SessionInvariance`, `FramesArriveWhole`, `LiveBrokersAreBelieved`, `WaitingClientsAreHeard`.
* **AmqpInput**, for frames of any number and size, any cut of the stream and any failures of the
  allocator. `StreamInvariance`, `IntactFrames` (`FramesAreIntact`) and `StreamRefinement`: the
  input implements `FrameStream`. `MemoryInvariance` and `DisjointMemory` (`MemoryIsDisjoint`).
* **AmqpClient**, for any channels, messages and requests. `ClientInvariance` and
  `RepliesAreOwn` (`ReplyIsOwn`); `MessagesInvariance` and `ConsumedMessagesAreWhole`
  (`ConsumedIsOneDelivery`).

Assumptions are those the modules name (`ConstantsAssumption`, `SystemAssumption`, `TrackerAssumption`,
`WorkerAssumption`, `MergerAssumption`, `GridAssumption`, `SizesArePositive`,
`TimesAreBounded`, `ListenerChannel`, `NumbersAssumption`, `FramesAssumption`, `ValueAssumption`:
types of the constants, a UInt that is a LargestInt, grids not empty where a message carries their size, cells not empty, intervals within
the bound of the clock, a protocol header without payload), in the five theorems that say so that
`Thread` is a singleton, and in `TilesMeet` that the sizes divide the spans (`SpansDivide`).

None of the orchestrator's invariants is inductive alone. `MergeBarrier` needs that a DONE row has its
tile, which needs that a callback in flight has its tile, which needs
that a worker message belongs to a committed row. `StartKeptUntilDispatched` needs
that the list in memory still holds every INIT row while the handler runs. `IndInv` adds these three
parts: `WorkHasRows` (messages and memory refer to committed rows of accepted
processings), `CallbacksHaveTiles` (callbacks and their transactions stand for tiles that
are made; a thread about to publish a merge has seen all of them) and
`StartProgress` (what the start consumer still has to do). The step lemma has a case per
action and a part per conjunct. The refinement maps the rows that exist to *planned*, reported tiles to
*mapped* and published merges to *reduced*; `CreateWorkers` is the only step that plans,
which is where "all rows or none" matters. `OneConsumerNeverMissesMerge` adds
`LastCommitMerges`: a transaction about to commit the last DONE row has published the
merge. It holds although `CommitStartedWorker` may interfere, because that step can only take
a row away from DONE.

`FewMerges` is a counting argument. A merge is published because a thread looks at the states of
the rows, and what leads to a look can be counted for each worker (`Looks`): its messages, the
callbacks of it, the threads that are about to look because of it, and the start consumer that
has yet to hand it over. As long as the row of a worker is neither DONE nor about to be
committed, and its processing is not decided, one look for it is awaited (`Awaited`): the first
merge cannot come without it. `MergesCounted` says that the looks beyond those (`Spare`) and the
merges beyond the first of each processing are together at most the failures so far. A look that
finds a row missing uses up the awaited look of its own worker. So does the look that finds all
rows DONE for the first time, and no other worker's look is awaited then; a later one of that
processing takes from the spare ones. Only a message that is put back, or a start that hands a
worker over again, adds a look, and that is a failure. A lost update takes a row away from DONE,
which only makes a look awaited.

The tracker's cap is kept by arithmetic: an UPDATE sets it to the old progress plus
`2 * 9000 / n`, never less than the new progress, and more unless the share is 0
(`ShareStaysBelowCap`, on which the reading of `Velocities` rests). A complete row stays complete
because only `StartProcessing` lowers the progress and it requires that there is no row.
`ShownIsEarned` counts messages (`CountsMessages`): without faults the callbacks applied and the
callbacks still queued are together at most the tiles that were reported. The worker's
completeness with one consumer rests on `WritesIncomplete`: the file a consumer is about to
create is not complete.

The merger's `ReportedResult` rests on `ResultsHaveMessages` (a result was built from a list that
was published, and a consumer past the build has a result), its completeness with one
consumer on `BuildsOnce`: the result a consumer is about to build is absent.

For the grid, `LoopInv` says what the loops have done: every pixel they passed is in a cell
(`PassedIsHeld`), every cell has its first pixel in the image and lies in what they passed
(`CellsArePassed`), and of two cells the earlier one ends, in one direction, where the later
one begins or before (`CellsAreInOrder`), so that no pixel is in both.

A Json array without a gap at its end is one sequence, whose nulls may be gaps (`Denotes`). Each
operation has a lemma that what it makes of the map denotes what the same operation makes of the
sequence (`StoreDenotes`, `InsertDenotes`, `RemoveDenotes`, `ResizeDenotes`); the last two need that
no gap comes to the end, which is what `ArrayIsASequence` excludes and the code does not.
The conversions rest on what the limits of the types become as doubles (`Limits`: only the two
largest are rounded, to the next power of two) and on what is cut off a double that is not whole
(`Halves`: it stays in range, as the ranges contain 0 and end at integers).

In the composition a service's environment is the other services. That each keeps its
specification (`SystemWorker`, `SystemOrchestrator`, `SystemMerger`, `SystemTracker`) is shown
step by step: every step of the system is one of the service, one of its environment, or nothing
to it. A message is a joint step and carries the guards of both sides, so this needs little of
the invariants (that a callback finds its row, so that the list of a merge message is never
empty, and what messages there can be); that those guards keep nothing from happening is what
`ServicesFit` is about. `CompleteMeansResult` then joins what the tracker proves of its row
(`ProgressIsEarned`) with what the merger proves of its results. `SystemRefinement` has a case
per kind of step: a worker's callback makes a tile or recounts, `CreateVRT` builds, which
`MergeBarrier` allows only with every tile made (and `MadeOnRequest` only for what was
requested), an UPDATE of the tracker shows, which `CompleteMeansResult` in the next state allows
only for what is built; that nothing shown is taken back is the tracker's `CompletionStep`.
`ResultsHaveCompleteTiles` needs `FilesAreWhole` (with one consumer a file is complete or absent
but for the one being written) and that merge lists name only tiles that are made (`ListsAreMade`).

`ServicesFit` rests on `FitInv`: `UnansweredIsThere` (the two counts of a worker's messages
agree), `MergesPublishedAgain` (the published merges are the first ones and the second ones),
`MergesCounted`, `DispatchesCounted` (only a failure lets the start consumer hand a worker over
again, and `HandedOverAgain` are those it still will) and `AnswersCounted` (worker messages
beyond the first, the merge messages and the merger's consumers at work, with the second
callbacks sent, are at most what was published again and the merges not yet reported).

The session's invariant has the types of the deadlines and of what is being sent (`TimeType`,
`OutType`, `NothingLeft`), `Aligned` (what the broker still expects of a frame is what the
client has left of it), `Believed` (a broker that is alive has sent something since
`recvIn` was set, in time for it) and `Heard` (what is left until `sendIn` and the ticks since
the client was heard are together one interval).

A reply in `AmqpClient` does not name its request, so `ReplyIsOwn` is proved from what may be
under way: `UnderWay` says that, unless the client has given the connection up, at most one of
a request that will be answered and its answer is, and that it belongs to the call in progress.
`CloseIsLast` (nothing is answered on a channel or connection behind its close) keeps that
true when a close ends the call instead; after a timeout the socket is closed, and
nothing waits for what still arrives.

`ConsumedIsOneDelivery` is about the order of frames. They pass from `broker.sending[c]` over
`inbox` into `queue`, and `Line(c)` joins the three in the order in which a channel's frames are
read. `MessagesInv` says that behind every delivery on a line the next frames of contents on its
channel are exactly its own (`Announced`), and that what a half-read message still lacks comes
first (`ReadingGoesOn`). A step changes a line in one of four ways: it cuts out frames that lie
together, it inserts one, it moves one to the front, or it adds a method with a whole content at
the end. `Kept` says that every delivery that is left has the same parts behind it, and there is a
lemma for each way (`CutKeeps`, `InsertKeeps`, `MoveKeeps`, `ExtendSame`). What is thrown away
may include a delivery but never a part behind a delivery that stays. That does not hold for a get_ok,
which `simple_rpc_inner` takes from the connection while frames of its channel are still
stored, so `MessageIsOneDelivery` has no such invariant, and is false.

Two invariants are about the input. `StreamInv` places the frames sent one behind the other in a stream,
`start` saying where each begins: what was consumed ends at a place of it, `sock` and `wire`
hold the octets from there on, and what is read of the current frame is a prefix of it. Every
branch of `HandleInput` moves that place and keeps the rest; `StreamRefinement` maps the number
of the current frame to the abstract stream. `MemoryInv` says that every extent in use was handed out by
its pool, below the point from which the pool goes on (`Used`), and that no two meet;
`AllocIsFresh` is the lemma about `amqp_pool_alloc`, with each of its failing allocations. The
frame under way has its buffer among the extents in use, large enough for the frame, also when
`amqp_tune_connection` lowers the limit in between.

Only model-checked:

* all liveness properties, which are outside the prover's reach;
* the codec (`RoundTrip`, `CloneIsExact`, `MergeTakesPrecedence`) and the readers, writers and texts
  of jsoncpp (`ReadsJson`, `CommentsChangeNothing`, `NoCommentIsLost`, `WhatIsWrittenReadsBack`,
  `TextIsExact`): what their definitions compute recurses over nested data, which would take
  induction over data.

## What is not modelled

* Pixels, projections and file formats, logging, REST paging and the UI's layout: no property
  here is about them.
* A broker that loses messages, and publication before the queues are declared: publishers
  use no confirms, so such a loss needs no interleaving to understand.
* Rounding of doubles in the geo transforms, coordinates that are not integers, and the digits
  of doubles in JSON.
* Sockets, TLS and the URL parser of rabbitmq-c: system calls, OpenSSL and a loop over
  characters. Sockets appear as sequences of octets or frames that arrive in pieces, take only
  part of what is written, are reset or fall silent.
* The orderly close of channels and connections, and the requests that differ from the modelled
  ones only in the method they send.
* jsoncpp's `Path`, the ownership of names in `CZString`, and the copying of values.
* ui-admin, the test programs and the deployment, which take no part in a processing or keep
  nothing.

## Plan

Done, in the order of importance: the orchestrator with `MapReduce` and its proofs; tracker,
worker, merger and grid with theirs; the composition `EchoSystem`; the AMQP library from tables
to sessions, with the proofs of `AmqpInput`, `AmqpSession` and `AmqpClient`; the JSON library, with
those of `JsonValue`; the proofs about the composition.

Left:

1. Liveness of `EchoSystem` (it needs a smaller state than the composition has).
2. The lemmas about primitive codecs that need no induction over data.
3. The page of ui-admin (answers of several polls in flight).
