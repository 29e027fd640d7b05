# Verification of the vision system

The vision system locates coloured LED markers in space. Each camera is served by a *vision
client* that finds markers in every frame and sends the rays towards them to a *server*. The server
groups rays of one marker that were taken at about the same time, intersects them, logs the
positions and broadcasts them to *data clients* (plots, controllers). A second detector, for AprilTags,
is part of the repository. This directory holds TLA+ modules of the system, TLC configurations that
check them on small instances, and TLAPS proofs of what matters for every instance.

Paths of sources are relative to the repository; `apriltags/` stands for `src/modules/apriltags/`.

## 1. Inventory

| component | state | operations | interacts with |
|---|---|---|---|
| `BlockingQueue<T>` (`include/BlockingQueue.h`) | queue, mutex, condition variable, flag `updated` | `push`, `pop` | server thread pushes, data thread pops |
| matching (`DataManager::syncSearch`) | one vector of matches per marker | `mergeMatches`, `getResults` | called by `syncData` |
| `DataManager` (+ `ThreadDeque`) | map client -> source (4 deques, `dead`), mutex | `addRay`, `removeClient`, `syncData` | client threads add, server thread collects |
| `ClusterServer` | `vision_clients`, `data_clients`, their mutexes, id counters | `run` and the four kinds of threads, `init_data_client` | all of the above, sockets |
| `ClusterComms` | socket, header buffer | `read`, `write` | client threads, vision client |
| network | sockets | `socket_open` | `run`, `client.cpp` |
| vision client (`client.cpp`) | frame id, connection | main loop | camera, `ClusterComms`, FXBcam |
| `cam1394` | capture ring, mode, transmission state | `open`, `read`, `setVideoMode`, `close`, listing | vision client |
| FXBcam | thresholds, markers, blobs | reading files, segmentation, identification, rays, intersection | vision client, server thread |
| `object`, `multipleobjects` | objects | assignment of markers to objects | a debugging tool |
| `HashMap.hpp` | buckets, load | get, insert, remove, rehash | FXBcam tools |
| AprilTags | detector, worker pool, containers, matrices | detect, run tasks | separate detector |
| `Configuration`, JSON library | document, cameras, clients | read, ask | server, client |
| uart, tools, plots, calibration | - | - | not part of the core |

**What is hard.** The server runs one main thread, one server thread, one data thread and one thread
per vision client. Client threads appear in `vision_clients` only after they were started, so they
may end first. `addRay` keeps a reference to a map node without the mutex; `removeClient` uses the map
without it. `syncData` locks all deques in one walk over the map and unlocks them in another, while
the map may change. Matching depends on the order of rays, on timeouts and on expiry. The data thread
holds a mutex across blocking sends, and the main thread waits for that mutex. Messages cross a
stream that cuts them anywhere and may break anywhere. The camera fills its ring while the program reads,
and any of its calls may fail halfway through a change of mode. The worker pool counts finished workers
partly outside its mutex, and counts one twice whose wait returns though nobody signalled. Two lights of a
frame may be taken for one marker. Containers move their elements while they are iterated over. All of these
are listed, line by line, under `hazards` in `PROJECT.json`.

## 2. Modules

| module | models | kind |
|---|---|---|
| `FifoChannel` | what a queue or a channel of messages promises | abstract specification |
| `BlockingQueue` | `include/BlockingQueue.h` | state machine, implements `FifoChannel` |
| `SyncSearch` | `Match`, `mergeMatches`, `getResults` | operators, and reference definitions of what they compute |
| `DataManager`, `MCDataManager` | `DataManager`, `ThreadDeque` | state machine of threads, locks, map, clock; extends `SyncSearch` |
| `ClusterServer`, `MCClusterServer` | `src/ClusterServer.cpp` | state machine of the four kinds of threads; uses `FifoChannel` as the queue |
| `ClusterComms` | `src/ClusterComms.cpp` | actions on a stream of bytes; implements `FifoChannel` |
| `Network` | `socket_open` | operator from outcomes of calls to what is returned and left open |
| `VisionLink` | `src/client.cpp`, `run_client_thread` | state machine, composes `ClusterComms` and `Network` |
| `WorkerPool` | `apriltags/workerpool.c` | state machine of the main thread and the workers |
| `MCComponents` | - | queue, pool, link, both hash tables and the array side by side, for TLC |
| `CameraCapture` | `modules/cam1394/src/camera.cpp` | state machine of the class, the camera and its DMA engine |
| `MarkerDetection`, `MarkerDetectionCheck` | `src/fxbcam.cpp` | operators, and the work on one frame step by step |
| `AprilTagDetector`, `AprilTagCheck` | `apriltags/apriltag.c` | operators, and the steps of the detector on all small inputs |
| `UnionFind`, `Segmentation`, `SegmentationCheck` | `unionfind.h`, `segment2.c` | operators; the merge of clusters, one edge a step |
| `Geometry`, `GeometryCheck` | `g2d.c` | operators against definitions on a grid |
| `Matrices`, `MatricesCheck` | `matd.c`, `graymodel.c` | operators against definitions |
| `ZArray`, `ZHash`, `HashMap` | `zarray.c`, `zhash.c`, `HashMap.hpp` | state machines of the memory the containers use |
| `Gridder` | `gridder.h` | state machine: cells, and what an iterator over them gives |
| `MapContract` | what a hash table promises | abstract actions that `ZHash` and `HashMap` implement |
| `JsonValue`, `JsonReader`, `JsonWriter`, `JsonText` | `src/jsoncpp.cpp` | operators: values, tokens to values, values to tokens, characters |
| `JsonDocument`, `JsonCheck` | `src/jsoncpp.cpp` | a document that is edited; all short documents, numbers and strings |
| `Configuration` | `src/Configuration.cpp` | state machine over the JSON modules |
| `MCAlgorithms` | - | the algorithms of the detectors and the JSON library side by side, for TLC |
| `SequenceLemmas` | - | lemmas about sequences, folds, and sequences that list a set |
| `DataManagerProofs`, `ClusterServerProofs`, `VisionLinkProofs`, `WorkerPoolProofs`, `CameraCaptureProofs` | - | theorems about the module of that name |
| `ComponentsProofs` | - | the theorems about the queue, and those about pool and link for their composition `MCComponents` |
| `ContainerProofs` | - | the theorems about `HashMap`, `ZHash` and `ZArray`, for `MCComponents` |

Some modules also hold operators commented `Defect:`. No specification uses them: each is a
plausible bug in an operator below it, and `PROJECT.json` names the property that finds it.

**BlockingQueue.** `q` and `updated` are the members of those names. A stretch of code between two
waits runs under the mutex and touches nothing else, so it is one action: `Push`, `Pop` (a
call), `Resume` (the return from `pthread_cond_wait`), `SpuriousWakeup`. `pushed` and `popped` are history.

**SyncSearch.** A ray is its client, frame id, marker and time stamp. Times are integers in an arbitrary
unit; `max_time_diff`, `match_delay`, `match_expire` are constants of which only
`match_expire = 2 * match_delay` is assumed. `Absorb` is one run of the inner loop of `mergeMatches`, in which `Gather`
is what happens to one later match; `AbsorbAt` is the outer loop's test that the vector, which gets shorter, still has
that index. `SortByTime` is the stable sort (`Place` puts a match before the first younger one) and `Scan` one round of
the loop of `GetResults`, which stops at the first match reported. All loops are folds, so that they can be proved about.
`FirstFit` and `ReportsOldestComplete` say, without erasing, sorting or scanning, what the two loops should compute.

**DataManager.** `data` is the map, `mutex` its mutex, `locked` the sources locked by `syncData`; `cpc`
and `spc` are the places of the client threads and of `syncData`. `addRay` is `AddRayLock`, `AddRayLookup`,
`AddRayPush`; `removeClient` is `RemoveClient`, and `RemoveClientRaced` gives the outcomes of the data
race (mark lost, crash). `syncData` is `SyncStart`, one `SyncLock` per source, `SyncMatch` (drain, merge,
report; every deque is locked), then `SyncUnlock` and `SyncReap` per source, and `SyncEnd`. The test of
`dead` comes in a step after the unlock, as in the code. The four deques of a source are locked
together; a push into one that is already unlocked equals a push right after the last unlock. `InOrder`
is the order in which the map's iterator meets its sources. `Tick` is the real-time clock, shared by all machines.
A new ray is of its camera's latest frame or of a later one; several rays of a frame may have one marker, if the camera sees more lights
than the pattern has LEDs (`fxbcam.cpp:612`), and `nr` tells them apart as their directions would. `std::set<Ray>` takes them for one
(`fxbcam.h:88`, `SameRay`), so `Insert` drops the later one. `Places` are where a ray may be (a deque, a match that waits, one reported or
expired, lost with its source), `RaysAt` what is there, and `LostToTwin` is the ray that was dropped.

**ClusterServer.** `mpc`, `tpc`, `dpc` are the places of the main, client and data threads. Accepting a
vision client is `AcceptVision` (up to `pthread_create`) and `Register`; a data client is `AcceptData`,
`LockClients`, `CountCameras` and `WriteRecords` (one client per step, since its flag is read under its own
mutex), `SendGreeting`. Peers may close before they are accepted, close, reset, stall and resume.
`Deregister` includes erasing `end()`: the vector loses its last element or the program crashes. The
queue between server and data thread is the `FifoChannel` that `BlockingQueue` implements. What the
messages contain, and whether a run of `syncData` has results, is free here.

**ClusterComms, VisionLink.** A byte is a record of its message and place. `Send` and `RecvHeader` /
`RecvBody` move any number of bytes from one up to what is asked for and fits; `WriteFails` and `ReadFails` are
the two returns on an error or an end of the stream. `VisionLink` is the client (`Open`, `Introduce`, `Capture`,
`Sent`, `GivesUp`, `Exits`) and the thread that serves it (`NextMessage`, `HandleInit`, `HandleData`, `HandleRay`,
`Leave`, `CloseSocket`); the network may fail, the client be killed, a reset arrive late. A frame carries how
many were dropped before it, which `CameraStep` chooses.

**WorkerPool.** `slots`, `size` and `alloc` are the array of tasks, `moved` counts its reallocations, so that a
worker that holds a pointer into the old array is seen (`crashed`). Each worker is the loop of `worker_thread`
cut at its lock, its wait, its unlocked reads of the task list and the two halves of `end_count++`. `WaitReturns` and
`EndWaitReturns` are the two waits that return though nobody has signalled. `end_count++` stands inside the loop round the wait
(`workerpool.c:59-66`), so such a worker is counted again and `workerpool_run` may return early, even when all workers had come to wait.
What follows (the list is cleared under a worker) is a data race, and the behaviour ends there (`Overtaken`); the properties speak of pools in which no
worker has left its wait unless told to (`Reliable`). A spurious return of the wait in `workerpool_run` itself does no harm, and is not excepted.

**CameraCapture.** One variable per member that matters (`cam`, `guid`, `config`, `bayer`), the state of each
`device` and of the bus, and the ring: `queued` buffers for DMA, `filled` ones, and those that were dequeued.
An operator `...Outcomes` gives every way in which a call with its error paths may end. `Arrive` is the engine
filling a buffer; it needs `MinGap` steps of `read()` between two frames. Giving a buffer back may fail, which the code ignores
(`camera.cpp:905, 917, 980, 992`): the buffer is `lost` until capture is set up anew. `Copy` is the end of both `read` methods: one gives up when debayering
fails, the one that returns a `cv::Mat` goes on and returns memory that was never written to (`image = "undefined"`). Opening a camera and listing all of
them are possible at any time, also while one is captured (`listed`).

**MarkerDetection.** Lights are centres with area and colour; files are sequences of numbers and may break
off; angles are compared by half plane and cross product, which is what comparing `atan2` does. Intersections
are solved in integers by cross products.

**AprilTags.** Colours, line lengths and angles that decide nothing else are small integers. Cells of a
tag are looked up directly: the homography is assumed to map each cell to its sample. There is one family of tags, so the loop over families and
the test that two detections are of one family are left out. `Segmentation` works on whole
images with the real edge, sort and merge steps; of a line fit only the moments that are summed are kept.
`Geometry` computes intersections exactly, where the code normalises by `sqrtf`: whether a segment that just touches another one is taken to meet it
depends on rounding, so every test has an argument `touching` and the properties hold for both of its values, wherever polygons do not touch; where they do, for
the exact one. `Matrices` has rationals `<<n, d>>` where the code has doubles, so rounding is not modelled.

**JSON.** A document is a function from paths to nodes, a text a sequence of tokens (`JsonReader`, `JsonWriter`)
or, for numbers and strings, of characters (`JsonText`). The widths of integers and of a line are constants.

## 3. Runs

| run | question | result |
|---|---|---|
| `components` | queue: its consumer sleeps only when it is empty, contents, live FIFO; pool: each stage is executed once and in full before the call returns, and the pool ends; link: messages whole and in order, rays handed on in order, both ends let go; containers: each key once and in its bucket, each entry given once by an iterator, and every step that of a map or of a sequence, but for copies of a `HashMap` | holds |
| `threads` | locks and references of `DataManager` with clients that come and go; collection, `addRay` and reclaiming are live | holds |
| `matching` | no ray used twice, or lost but to one of its camera, frame and marker; results consistent, rays grouped by first fit and the oldest complete match reported, none expires unreported | holds |
| `server` | client list, ids, greetings, every frame to every data client, mutex discipline; rounds and accepts end | holds |
| `camera` | the capture is as configured whatever fails; images are intact and drop counts right as far as buffers were given back; `read()` returns | holds |
| `algorithms` | markers, tags, segmentation, geometry, grid, matrices, JSON and configuration against reference definitions | holds |
| `dropped_rays` | is every delivered ray consumed? | violated |
| `erase_race` | is a removed client out of the list? | violated |
| `spin` | does a round pass a client that is not initialized? | violated |
| `pool_early_return` | does `workerpool_run` wait for its tasks, when the workers are still starting? | violated |
| `union_of_zero` | do merged pixels stay together, when pixel 0 has edges? | violated |
| `solve_permuted` | is the answer of `matd_solve` an answer, for borders of tags that are cut off? | violated |

**What the violated runs show.** *dropped_rays*: rays pushed between the drain and the erase of a source are
lost. *erase_race*: a client thread that ends before `run` has entered its client erases `end()`, and the dead
client stays listed. *spin*: a data client whose greeting failed makes the data thread spin with
`data_clients_mutex` held, which stops the broadcast and, at the next data client, the accept loop.
*pool_early_return*: a worker that finds the list empty while tasks are being added counts itself done after
`end_count` was reset. *union_of_zero*: the id 0 for a parent means "no parent", so what is merged
under pixel 0 is not merged. *solve_permuted*: `matd_lu_solve` applies the inverse of the row permutation,
which differs from it when three rows are exchanged in a cycle; with the 8 by 8 borders of real tags that
happens for about a fifth of the ways in which the border of the image can cut them off, and the gray model of such a
tag is then wrong. `findings` quotes the documentation each run disagrees with. The runs `components` and
`algorithms` look at the rest of the same code with these cases set aside by name: `Settled` (the workers
wait when the first task is added), `CornerToo` (pixel 0 has edges). `algorithms` says exactly when systems are solved wrongly
(`Misplaced`): if and only if the permutation takes a row elsewhere when it is applied twice.

**Where the code and its comments part, in passing runs.** Some properties describe what the code does, and say in their comment which line of
the repository says otherwise. They state *exactly when* the two part, so that they fail if the code did worse, or better:
a quad is detected from each of its left-most first points, not once from the right-most one (`RectanglesAreFound`; `apriltag.c:388`; the
second of two is removed in reconciliation, if it is decoded at all); points on an edge of the convex hull are not always left out, may displace a corner, and may keep the
wrapping from ending (`HullIsConvex`, `Misleads`; `g2d.c:134, 158`); the list of intermediate results of an expression overruns just if there are too few signs
and parentheses between its numbers, as in `2M2` (`ExpressionsEvaluate`; `matd.c:770`); `resize` fails its own assertion just if it cuts an array back to
a gap (`SizeIsAsked`, `CutToGap`; `jsoncpp.cpp:2641`); comments are written but for those inside of an array that fits on one line
(`CommentsAreWritten`; `json.h:1742`); a copy of a `HashMap` is empty (`IsAMap`, `CopyIsEmpty`); an image that was never written to is returned by
a camera that debayers (`ImageIntact`; `camera.h:183` promises an empty one).

**Bounds.** Queue: one consumer, as in the server, and five pushes, which let the flag be left over, consumed
and set again. Pool: one thread, or two, and two stages of two tasks, so that a worker can be left without a task
and the array can move; two spurious returns of waits, so that both workers, or one twice, or one and the detector can return. Link: headers of 2 bytes, bodies of up to 2, a socket buffer of 3 bytes, three frames and one drop:
each boundary of a message falls into and between two reads. Containers: four keys that collide until the
table is doubled, one bucket at first, buckets of two, and arrays of up to four elements that grow from one cell: full buckets,
rehashing, growing and removals in the middle of an iteration all occur. A table that is copied was doubled once at most, and the count of elements that
the copy constructor leaves uninitialized is 0 or one more than a new table may hold. `threads`: three clients, so the iterator has
something before, at and behind the one that leaves; the clock stands still until all of them are gone (`MCSpec` of `DataManager`), since
locks and references do not depend on it. `matching`: two cameras with two rays, of two frames or one camera's of one, so that a marker has several
matches pending and a match meets two rays of a frame; or three cameras with one (`FewFrames`). Time goes on to 4; only two cameras with one ray a frame send frames later than 2 (`LastFrame`),
which is late enough for a chain. Time stamps up to 4 with `MaxTimeDiff` 2 give chains of three rays of which only neighbours are compatible.
`MaxStall` bounds how long the server is held up: with no bound a match may expire unreported, in the code as
well. `MinFrameGap >= MaxTimeDiff` in `matching` stands for cameras of at most 60 frames per second; faster
cameras would let one camera appear twice in a match. `server`: `Workload` lets either many vision clients
come with one data client and no results, or many data clients with one vision client. `camera`: two cameras, a ring of three buffers, any of which may not be given back, frame
numbers modulo 7. With three buffers, that the image is intact after a buffer was lost is seen only for the buffer that was lost itself; that it is, too, while three others take
turns in a longer ring is what the proof adds. `algorithms`: every sight of a square of four LEDs in its 24 places within two pixels, with and without reflections; tags of three by three cells with three
code words; 5 by 5 images of one or two straight edges, cut into chunks of one, two and five rows; triangles and quadrangles on a 3 by 3 grid, and hulls of up to five of its points, three or more in a line included; 3 by 3 and 4 by 4 matrices with rows of small sets and
expressions of five signs; JSON documents of six tokens (four, if they are wrong before their end), integers of
five and eight bits at all their edges, strings of three characters; configurations of up to two entries, read again, and files that cannot be opened;
grids of 3 by 2 cells.

Deadlock is checked in every passing run but `algorithms`, whose inputs come to an end. `Crashed` in `DataManager`, the
last disjunct of `Next` in `ClusterServer` and that of `MCNext` in `MCComponents` are the stuttering of a dead or idle program.
Symmetry is used in `erase_race` only, which checks an invariant.

**Fairness.** A consumer that was woken gets the queue's mutex (WF `Resume`), and the data thread pops in an
endless loop (WF `Pop`). The server loop has no exit (WF `ServerMoves`). A client thread in `addRay`
gets its mutex in the end (SF): nobody holds one for ever and the server sleeps 500 microseconds
between two runs, during which the mutexes are free. The same holds for the two threads around
`data_clients_mutex`. Threads of the pool, the vision client and the thread that serves it keep running (WF), and
a reset that was sent arrives (WF). `read()` keeps running (WF), and a camera that sends goes on sending frames (WF `Arrive`),
which is what the wait for the first one relies on. Peers, arrivals, disconnections and results are never
fair. The liveness properties of `ClusterServer` except a stalled peer (send blocks, as the code lets it) and the
spin above; `WriteReturns` excepts a peer that never reads.

## 4. Proofs

All proofs hold for every value of the constants: any clients, workers, cameras, buffers, chunks of bytes, numbers of
frames. Assumptions are the named `ASSUME`s, which TLC evaluates in the runs, and the hypotheses that a theorem states
itself. Each component has one inductive invariant, a conjunction of named parts, and one lemma per action saying that the
action keeps it; the theorems follow from it.

* `ComponentsProofs`, queue: `Typing` (type correctness); `QueueContents`: `q` is the tail of `pushed` not yet in
  `popped`, the inductive invariant from which `Refinement` follows: each take appends the next element
  sent, so every step is a step of `FifoChannel` or a stutter, whatever the number of consumers.
  `SingleConsumer` assumes `Consumers = {d}`: a lone consumer sleeps only on an empty queue
  with a clear flag; the invariant adds that once woken it finds the flag if there is an element. For two consumers both are false: one flag serves all.

* `DataManagerProofs`, threads: `ThreadsSafe` proves `ThreadInv`. Its parts need one another: a source is erased
  only if dead, only a client that has gone is dead (`DeadIsGone`), and a client in the middle of
  `addRay` is not gone, hence no push through a dangling reference (`NoDanglingSource`); the mutex and
  `LockedAhead` give that entries which appear between the two loops are not left locked.

* `DataManagerProofs`, search: `MergeJoins` says of `mergeMatches`, for every list of matches: no ray is lost but to a twin that `std::set` takes it for (`LeftOf`), none is
  in two matches, and no two matches that remain could be merged. The last is not obvious, since a match that has
  skipped another may have absorbed a third in between; but rays only accumulate, so what was incompatible stays so. Behind the outer loop
  is `MergedUpTo`: the matches up to index k are incompatible with all later ones. `ResultsSort` says of `getResults` that
  it splits its list into reported, given up and kept, and reports only complete matches.

* `DataManagerProofs`, what the search computes: `MergeIsExact` proves that the loop of `mergeMatches`, which erases from the vector its two
  iterators walk over, groups by first fit (`FirstFit`: each match joins the first group it fits, or starts one), that merging after each
  batch, as `syncData` does, gives what one merge of everything would, and that no two groups left could be merged. The loops run the
  other way round: the outer one completes one group after the other, first fit takes one match after the other. They
  meet in `HeadFits`: what the first match gathers is the first group of the first fit, and what it skips has the other groups as its
  own first fit. Behind the outer loop is then `FitsUpTo`: the groups formed so far, followed by the first fit of the rest, are the
  first fit of all. That a merged list is its own first fit (`FitOfMerged`) gives the batches.
  `ResultsExact` says that `getResults` reports the oldest complete match that has not expired, the first of those equally old: the sort
  is traced to a permutation in order of age (`SortedBy`), and `Scanned` says what the loop has done with the matches up to the k-th.
  `SearchExact` (`SearchIsExact`) carries both to every run of `syncData`, with `SearchInv` and `QueueInv` from the next paragraph for
  what the matches collected are.

* `DataManagerProofs`, rays: `RayInv` joins what was sent (`SentInv`: which of a client's rays are of one frame, and how far the frames are apart), what each deque
  lists (`QueueInv`), what each search lists (`SearchInv`: disjoint matches of close rays, none mergeable), what is done with
  (`DoneInv`), and that these with the rays lost with a source are apart and leave out, of all rays sent, only some that have a twin in a match (`PlaceInv`). A push moves one ray, `SyncMatch`
  the rays of all deques through the two theorems above, an erase those of one source. From it follow `RaysOnce`
  (`EachRayOnce`), `PendingMerged` and, with the types, `RaysMatched`, and, if frames of a camera are at least `MaxTimeDiff` apart and
  results need two rays (`min_matches` is 2, and `max_time_diff` of 15 ms is less than the gap at up to 60 frames per second), `Consistent` (`ResultsConsistent`): two rays of one match are
  closer in time than two frames of one camera, so they are from different cameras. `ManagerTyped` is type correctness.

* `ClusterServerProofs`: `DataClientsExclusive`, the discipline of `data_clients_mutex`. `ServerTyped` and `RegistryIsExact`
  follow from `ServerInv`: `RegistryExact` says nothing of who is in the list while a client is being entered, nor once one was removed before it was entered, so the invariant adds who is
  about to be entered (`Entering`, `Listed`), that a peer without a thread has not been accepted (`Unserved`), and that the ids
  in the list are below the counter (`Older`), which keeps the list in order and free of repetitions; removing the first
  occurrence (`WithoutElement`) then removes the client for good. `GreetingIsComplete` proves `AnnouncedIsHeld` from
  `Counted`: in the first pass the number announced is at most that of the ready clients visited, in the second at most
  the records written and the ready clients to come. It needs that no client gets unready and that the list stands
  still under the mutex; clients may become ready between the passes, so equality would not hold.
  `FramesInOrder` proves `FramesAreConsecutive` from `FrameInv`: frames are numbered along the queue, a client in the list
  is there once and has all frames taken so far, save the one being sent if its turn is still to come.

* `VisionLinkProofs`: `LinkInv` says that what the reader has begun, followed by what is on the wire, is the encoding of the
  messages not yet received, followed by what `write` has sent of the next one (`StreamInv`), and how far both ends are in a header or body
  (`Progress`). It is about sequences of bytes, so that a header cut anywhere is still recognised: equal streams whose first
  parts have equal length have equal parts. `LinkTyped`, `ReaderInStep` (`InStep`) and `ChannelRefinement` (each step is one of
  `FifoChannel`, or none) follow. `RaysReachInOrder` (`RaysInOrder`) needs `RaysInv` on top: what the client has written
  counts frames as it should (`WrittenInv`, `SenderInv`), and the rays handed on are those of the messages received up to the current one
  (`ReceiverInv`, `HandledInv`). Hypothesis `LinkConstants`: the messages are the client's and the history has room for them, which is the model's bound.

* `WorkerPoolProofs`: `PoolInv` counts: until a worker has left its wait unless told to (`Reliable`), `end_count` is the number of workers that wait, which is right only because each of them counts
  with the mutex held (`MutexInv`, `CountInv`), and a worker that has counted has seen the end of the list; each task taken is held by one
  worker (`ClaimInv`); a task is executed once exactly if it lies before the position and is not held (`DoneInv`). So when
  `workerpool_run` returns, all wait, none holds a task, and the list is done: `RunReturnsLast` (`RunWaits`),
  `TasksRunInStages`. `PoolTyped` holds whatever the waits do, with an `end_count` that nothing bounds. Hypothesis `PoolConstants`: the workers wait before the first task is added (`Settled`; otherwise both
  are false, which the run `pool_early_return` shows) and each stage has a task (with none, the list is at its end before it begins).

* `CameraCaptureProofs`: `CameraInv` says what the captured camera is set to (`HandleInv`), that each DMA buffer is in one
  place (`RingInv`), that the filled buffers carry consecutive frame numbers, modulo the counter's width, after those that `read` took
  (`FramesInv`), and that the engine is behind the buffer just given back (`BehindInv`). Buffers that were not given back are nowhere else (`LostInv`). `CapturesAsConfigured`,
  `ImageIsIntact` and `DroppedAreCounted` follow. That the image is intact after its buffer was enqueued rests on a ring of more than
  two buffers that take turns and more than two steps between frames (`CameraAssumption`), unless the buffer itself was not given back.

* `ComponentsProofs`, pool and link, carries the theorems about pool and link to `MCComponents`, the specification that the run checks: a step of the
  composition is a step of the component or leaves its variables alone (`PoolMoves`, `LinkMoves`). It sees a component twice, once through
  `MCComponents` and once with its proofs; the lemmas named `...Alike` say that the two are equal.

* `ContainerProofs`, hash tables: `Holds(t, U)` says that the buckets t hold the set U: all of its keys are different, and the bucket of
  a key lists exactly the elements of U with that place (`Lists`). From it follow what a look-up finds (`FoundPlace`) and the map that t
  stands for (`MapIs`, `MapAdd`, `MapRemove`, `MapReplace`); what the code does to the buckets is traced to what happens to U. Rehashing (`Spread`) and
  doubling (`PutAll`) are folds over the elements of the old table, so their invariant is `Holds` for the elements moved
  so far. That no rehash of `HashMap` overfills a bucket (`RehashSucceeds`; otherwise the loop at `HashMap.hpp:212` would not end) is `DoubleFits`: of the
  keys in a bucket of 2n, all were in one bucket of n (`HomeOfDouble`), which was not overfull. `TableInv` holds in the
  middle of an insertion as well, and says that `n_elements` counts at least the pairs there are.
  `ZhashInv` adds the iterator: what it has given and what is ahead of it are disjoint and make up what the table held when it
  started (`IteratorInv`). A removal through the iterator moves the last entry of the bucket to the
  place the iterator stands on, hence its step back; the proof that nothing is skipped or given twice is `IteratorRemoveKeeps`.

* `ContainerProofs`, array: `ListInv`: there are as many cells as elements in use, and these hold elements. For each operation, the cells
  that memmove, growing and copying leave are compared place by place with the sequence meant (`InFront`, `FrontNext`). That one doubling
  is enough needs `MinAlloc` above 0; that sorting has a result needs that integers can be put in order (`OrderExists`, by induction).
  `ContainersHoldAll` (`ContainersAreExact`) and `ContainersRefineAll` (`ContainersRefine`) put the three together, for any keys, hash function and sizes.
  What a copied `HashMap` counts as its elements may be anything from the number there are upwards, which is all that `TableInv` asks.

* `SequenceLemmas`: induction over a definition is proved where it is needed, from the least index at which the claim fails
  (`BoundedInduction`). The folds of the community modules are reached this way, one lemma for each operator that is folded,
  since an operator cannot be handed to a lemma here. `Lists(s, S)` (each element of S is in s once) is what the
  sequences of rays and matches are reasoned about with.

Only model-checked:

* Liveness and fairness are outside the prover: `PoolEnds`, `ThreadFollowsClient`, `WriteReturns`, `ReadReturns`, `RoundEnds`,
  `AcceptReturns`, and the liveness of the queue and of `DataManager`.
* `CompleteMatchesAreReported` is about how many runs happen in how much time. A run reports one match per marker, so it can only hold while
  runs are at least as frequent as matches become complete; it is checked with the frames and the bound `MaxStall` of the run `matching`, and is no
  theorem about all values of them.
* The run `algorithms`. `SegmentsAreClusters`, `GeometryIsExact`, `JsonIsKept` and
  `TagsAreFound` are about modules that use recursion as the code does (paths of parents, polygons, nested documents, quads), which no
  module with a theorem may reach; `RaysFollowLeds` is about all sights of one pattern of LEDs, a finite question that TLC decides in full.

## 5. Not modelled, and what was noted on the way

*Server.* The text of the greeting and of frames and the buffers of 1024 bytes they are written into; the start of
the server and its log file; failures of `accept` and `get_ip` (the loop just continues); `addImage` (empty) and
`logStreams` (never called). Rays that come before a successful introduction get the origin of a camera whose calibration was never read
(`ClusterServer.cpp:330, 351`); `RaysInOrder` is about which rays are handed on, not about their origin, and would not see it. A peer that stops reading blocks the data thread with the mutex held; nothing in the
code claims otherwise, so the liveness properties except it. `tools/LivePlot/comms.py` expects a size before each message
and sizes in camera records that the server never sends.

*Network, client.* `socket_open` returns -1 through a `bool` (`network.cpp:31, 45`), which reads as success; `client.cpp:116`
calls `findMarkers`, which FXBcam does not declare.

*Camera.* Features, printing and the conversion of Bayer images. `camera.h:143, 154, 164` say that `open` returns 1 on
success; it returns 0. Reopening compares with the guid of the camera opened before, and leaks the handle if it was still captured; listing the cameras leaves the one that is captured in the
mode it tried last, which `setFrameRate` does not repair; after a failed change of mode `read()` has no capture to read from, and after every buffer was lost it waits for ever.
`read()` returns a `cv::Mat` of uninitialised memory when debayering fails, where `camera.h:183` promises an empty one. Frames for which the engine had no
buffer are not counted, though `camera.h:241` speaks of dropped frames.

*Marker detection.* Saving and plotting images; `getObjects` and its helpers (`multipleobjects.cpp`), which one debugging tool
calls with thresholds on squared distances of one and two pixels: it takes markers by value, so the comment "Skip objects that
have already been identified in subsequent operations" (`multipleobjects.cpp:38`) does not come true, and it pops from an empty
vector when it finds nothing. Of two lights of a frame that get one id the server keeps one ray, whichever it meets first (see `DataManager`). Ids of markers stay unset when no pattern matches; `led_pattern` is read past its eight entries when
an object has six LEDs or more (`fxbcam.cpp:615`); a second marker file keeps the thresholds of the first.

*Hash map.* A bucket that is assigned copies as many elements as it has itself, so a copy of a table is empty (`HashMap.hpp:159-166`); copying leaks the memory of the table
assigned to, and the copy constructor leaves `n_elements` uninitialized. The branch that reports "DAMN" cannot be reached; `hash<Ray>` reads 192 bytes of an object of 24.

*AprilTags.* Blurring, decimation, homographies and poses, singular values, reading and writing of image files, the code
tables (data), debug output. The mark for pixels of low magnitude is overwritten at once (`segment2.c:92-101`); the merge
compares squared dot products, which lose their sign; clusters whose root is in the last column are not fitted; a scalar loses its value in `matd_copy`; a space between M and its quote loses the
transpose, though spaces "are meaningless" (`matd.c:729`); `matd.h:77` promises a closed form for 4 by 4 inverses that is not there.

*JSON library.* `Features::strictMode` and the text of error messages. A comment after
a member bypasses the test for a separator; `{"":1,}` is accepted and `[/**/]` is not; text after the root value is ignored; "-" reads
as 0; the second half of a surrogate pair is not checked; `operator==` does not compare comments; in `makePath` each "%" takes the first argument, and "[%]" leaves an extra key. These are in the
model, and the reference definitions except them by name.

*Configuration.* After a file that cannot be opened nothing has changed. Reading a file again keeps the cameras and clients of the file before; a member of a wrong type aborts the program.

*Not part of the core.* The serial port to the trigger (a thin wrapper around termios), plots, calibration data, trainers, the
Arduino timer library, Protocol Buffers and build files.

## 6. What is left

Every component of the core is modelled, the algorithms of the two detectors as far as integers and rationals carry, and the
invariants of all state machines are proved. Left, in this order:

1. `CompleteMatchesAreReported` of `DataManager`, from a bound on how many matches are complete and wait, in terms of the rates of frames and of runs.
2. Proofs about `UnionFind` and `Geometry`, once their recursion is written as folds.
3. The composition of `VisionLink` with `DataManager`, where a ray of an uninitialized client meets the search.
4. Text lengths of greetings and frames as arithmetic over record sizes.
5. Homographies in exact arithmetic; rounding stays out of reach.
