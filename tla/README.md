# Formal model of cloud_edge_push

An update server (OpenResty: nginx with Lua) pushes files to edge clients
(C++): a web client uploads a file over HTTP, the server notifies the edge
clients of the file's type over TCP sessions, and each client downloads the file
over HTTP.  A daemon keeps the client running.  This directory holds TLA+ modules
of the parts with state, TLC configurations that check them on small instances,
and TLAPS proofs.

    tlc -config ServerSession_safety.cfg MCServerSession
    tlapm ServerSessionProofs.tla

## Inventory

| Component | State | Operations | Interacts by |
|---|---|---|---|
| TCP session (`update_server/app/stream/main_proc.lua`, `message_proc.lua`) | per session: `exit`, `is_login`, `notify_msg_thread`, `no_heart_time`, `heart_beat_flag`; shared dictionaries `client_types`, `notify_msg_queue`, `msg_queue` | main, send and notify coroutines, 10 s heartbeat timer | packets, shared dictionaries |
| HTTP services (`app/http/*.lua`) | `upload_info` dictionary, unqlite database, download directory | upload, push, query, load at start | `notify_msg_queue` |
| Framing (`message_packet.lua`, `tcp_message.h`) | none | pack, receive with length limits | bytes on the socket |
| TCP client (`tcpclient_impl.cpp`) | `_stopped`, `_closed`, `_reconnectFlag`, heartbeat counters, `_writeMsgs`, socket, two timers | asio handlers on one thread; `write` from any thread | message bus, asio |
| Message handler (`messagehandler.cpp`, `syncwaitmsg.hpp`) | `_isLogin`, `_tcpSessionStarted`, `s_fileInfos`, static `sent` | login, heartbeat, report timer, dispatch of messages | TCP client, thread pool, message bus |
| Download (`sys_update_handler.cpp`, `fileinfos_rw.cpp`) | `m_fileInfo_vec`, `s_totalSize`, files, `.tmp` files, `file_infos.json` | download with resume, check, record, load | HTTP file server |
| Daemon (`daemon/src`, `processhelper.hpp`) | `_pid`, `_sequence`, `_failedNum` | start, check every 3 s, restart | processes, shared memory |
| File log (`loghelper/log2file.cpp`) | `s_isConcurrentQueueStarted`, a queue | write a line or enqueue it, consumer thread | concurrent queue, file |
| Concurrent queue (`concurrentqueue.h`, in two identical copies) | sub-queues of producers, block indexes, block pool, free list, hash table of producers | enqueue, dequeue, each also in bulk | atomic variables |
| Blocking queue (`blockingconcurrentqueue.h`, `lightweightsemaphore.h`) | `m_count`, `m_sema`, the queue | enqueue, try, wait, wait for a time | atomic variables, system semaphore |
| Thread pool, message bus (`call_async.hpp`, `messagebus.h`) | task queue; handler map | enqueue/delay; attach/send | calls |
| Byte buffer, configuration, JSON, log front end, Lua libraries | none of interest | | |

What is hard here: coroutines and timers of one session that interleave at every
yield, and state keyed by ip and port that outlives a connection; asio handlers
of operations aborted by a close that run after the reconnection; downloads
that are interrupted, resumed in another process and mixed with a new version
of the file; three threads of the client that share a string and flags without a
lock; processes that die or hang while the daemon is restarted itself; and the
lock-free queue behind the log, where each atomic access may meet those of any
other thread.  `PROJECT.json` lists the hazards line by line.

What makes each part correct: a registration always has a timer that will remove
it, and notifications arrive in order and once (session); one reader, one writer
and one heartbeat chain, and always a next attempt to connect (TCP client); a
pushed file is installed in the end, and then not downloaded again (download); a
client that is logged in keeps reporting what it has (message handler); one client process, watched, replaced and killed when
it hangs (daemon); items leave a sub-queue in order and once, whatever the
consumers and the allocations do (queue); nobody sleeps beside an item (blocking
queue); a logged line is written once and after its thread's earlier lines (log).

## Modules

    ServerSession <- MCServerSession, ServerSessionProofs
    TcpClient     <- MCTcpClient, TcpClientProofs
    FileUpdate    <- MCFileUpdate
    EdgeLogin     <- EdgeLoginProofs
    Daemon        <- DaemonProofs
    BlockingQueue <- BlockingQueueProofs
    FreeList      <- MCFreeList
    DequeueCounters <- ImplicitProducer <- MCImplicitProducer, ImplicitProducerProofs
                    <- ExplicitProducer <- MCExplicitProducer
    ProducerQueue   (abstract; both producers implement it)
    ProducerHash    <- Log2File <- MCLog2File, Log2FileProofs
    Totals          <- TotalsProofs (sums over finite sets, for the proofs that count)

### Server and client

* `ServerSession` models the TCP sessions of one worker (`worker_processes 1`).
  One action is the code between two yields of one coroutine.  `MainNext` is
  `_main_proc` with one action per kind of packet, including the Lua errors
  that abort a handler without cleanup; `SendNext` is `_send_message`,
  `NotifyNext` `_notify_msg_proc`, `HeartNext` `_deal_heart_beat`, which runs
  whether or not its connection is still there.  `Publish` is what the HTTP
  services do to the queues.  `ngx.thread.spawn` runs the new coroutine until it
  yields: a login drains the notify queue before it goes on (`Moved`).  A wait inside a timer raises an error (the thread
  is not a child of the timer), so `HeartEvict` does not wait.
* `TcpClient` models the handlers of `TcpClientImpl` on the one thread that runs
  the io_context.  `pending` holds operations under way, `ready` the handlers to
  run, in order; closing the socket or moving a timer moves operations from one
  to the other as aborted, as asio does.  The order in which operations of
  different kinds complete is left open: asio guarantees none, and a write, a
  read and a timer may complete in one turn of its reactor.  A bad header or
  an oversized message starts the body read before the error branch, as the code does.
* `FileUpdate` models the download of announced files by the client, with the
  server's stored files as its environment.  A content is a sequence of chunks
  and stands for its own md5.  The process may crash between any two effects on
  the disk; `Restart` reloads `file_infos.json` the way the code does,
  including the loss of the `type` (read as a number) and the look-up under
  `remotefile_url`.
* `EdgeLogin` models `MessageHandler`: the session thread, whose actions are the
  handlers that the message bus calls; the workers of the pool, which carry the
  report from one 60 s delay to the next; and the main thread in
  `loadLocalFileInfos`.  The string `s_fileInfos` is copied and assigned without a
  lock: a copy during an assignment (`raced`) yields the old value, the new one or
  `Torn`, any mixture.  `TcpClient` is reduced to a connection that delivers in
  order until it breaks, the server to its answers and pushes.
* `Daemon` models `main`, `ProcessManager` and `SharedMemoryChecker` over a process
  table: per pid whether there is an instance, a hung one, a killed one that has not
  ended yet or a zombie, and whose child it is.  One action is the code between two looks at the processes.

### The queue

Both copies of `concurrentqueue.h` are the same text.  In these modules a step is
one atomic access together with what only its thread can see; the accesses of all
threads are put into one order (sequential consistency), so what the code gains or
risks by weaker memory orders is not covered.  Indexes are 64 bits wide in the
code and do not wrap in the modules.  Items are known by their numbers, moves and
destructions do not throw, and `MAX_SUBQUEUE_SIZE` has its default, none.

* `ProducerQueue` is what a producer's sub-queue promises: a FIFO, each of
  whose items goes to one consumer.
* `DequeueCounters` is the protocol by which consumers agree who takes which
  items: `dequeueOptimisticCount`, `dequeueOvercommit`, a second look at the tail,
  `headIndex`.
* `ImplicitProducer` and `ExplicitProducer` extend it with the blocks, the
  growing index, the pool, failed allocations and the destructor of the two kinds
  of producers.  Each implements `ProducerQueue` by the mapping `Queue`: the queue
  is the numbers from `headIndex` to `tailIndex - 1`, and what a consumer has claimed
  is what it has read so far, as read, followed by the numbers still to be read; a
  wrong item read, an item read twice or out of order is no step of
  `ProducerQueue`.  `enqueue` is `enqueue_bulk` of one item and `dequeue` is
  `dequeue_bulk` of one: they make the same accesses in the same order.
* `FreeList` is the stack of blocks with reference counts that the pool uses.
* `ProducerHash` is `get_or_add_implicit_producer`.  An entry is put into the
  first free slot of its thread's probe sequence and never leaves, and only its
  thread looks for it: so a search is one step and a table a function from threads.
* `Log2File` composes `ProducerHash`, one FIFO per producer and `try_dequeue`'s choice
  among them with the flag, the two ways of writing a line and the consumer threads.
* `BlockingQueue` is the blocking queue over the light-weight semaphore, with the
  queue reduced to the number of its items.  The load and the compare-and-swap of a
  loop are one step there, since one that fails changes nothing and is repeated.

The `MC` modules give instances and symmetries, the `Proofs` modules theorems.
`TypeOK` gives the types of a module's variables.  What a proof needs to know of
them is part of its inductive invariant; `FileUpdate`, `FreeList` and
`ExplicitProducer` have no proofs, and there `TypeOK` documents.

Bounds on unbounded things: `MaxLogins`, `MaxPub` (ServerSession); `MaxLong`,
`MaxWrites` (TcpClient); `MaxEvents` (uploads and crashes together), `InboxCap`, `MaxTmp`,
`MaxBlind` (FileUpdate); `OutCap` (EdgeLogin); `MaxSeq`, `MaxFailed`
(Daemon); `MaxTail`, `MaxFails`, `MaxCount`, `MaxInjected` (producers); `MaxItems`
(BlockingQueue); `MaxLines`, `MaxFails`, `MaxDeaths` (Log2File).  `Threshold`,
`MaxTimers`, `QueueCap`, `BLOCK_SIZE` and the initial sizes are parameters of the program
that the instances make small.

Mutants (operators named `<definition>_<what is wrong>`) stand before the
definitions they change; each property fails when its mutant replaces
the definition.

## Runs

| Run | Instance | Shows |
|---|---|---|
| `ServerSession_safety` | 2 connections that share an ip and port, threshold 1, 1 timer slot, 2 logins, 3 notifications, queues of 2 (3.9 M states) | one timer chain; a registration that nothing will remove comes from a refused timer only; order without duplicates; no residue of sessions that ended |
| `ServerSession_live` | 1 connection, threshold 2, queues of 2 | a pending timer behind each registration; handlers end after an error, silent registrations lapse, notifications reach the socket |
| `TcpClient_reconnect` | reconnecting client, 2 messages, message handlers that take any time, one of which may outlast a reconnect wait (0.5 M states) | one reader, write discipline and one heartbeat chain while connected, as long as no handler has outlasted a reconnect wait; always a next attempt; connected again and again; a dead server is noticed |
| `FileUpdate_files` | 2 files of two chunks, one in two versions, 3 uploads or crashes in any mixture (0.23 M states) | the count of received bytes never exceeds what is in the `.tmp` files; a file pushed again and again is installed unless a stale record hides it; downloads cease |
| `EdgeLogin_reports` | 2 workers, 1 file | one chain of reports whatever reconnections follow; what is listed reaches the server |
| `Daemon_supervision` | 2 pids, numbers up to 2 | never two instances; the one that runs is watched; a dead one is replaced; a hung one is killed |
| `FreeList_threads` | 3 threads, 3 nodes (0.5 M states) | each node in one place; no stale successor becomes the head |
| `ImplicitProducer_queue` | 2 consumers, blocks of 2, first index of 2, 9 items in threes, 1 failed allocation (0.4 M states) | the FIFO; a block is in the pool or in use, once; the index leads to it |
| `ExplicitProducer_queue` | the same (0.15 M states), allocations fail before the call has added a block | the FIFO; a block with items keeps its entry; the destructor destroys each element once |
| `ExplicitProducer_undo` | the same, an allocation may fail after one block was added | the disagreement below |
| `BlockingQueue_wait` | 2 producers, 3 consumers, calls of 1 and 2 items (0.36 M states) | what is granted is in the queue; no sleeper beside an item; a timed wait returns |
| `Log2File_queue` | 3 threads, 3 lines, a hash table of 2 slots, 2 consumer threads, 1 failed allocation, 1 death, any write fails (0.5 M states) | one producer per thread; a free slot in each table; each line in one place; a thread's lines in order |

Why the bounds are enough: two connections with one session id are the least in
which one acts on the other's entries, and a third adds no new pair; threshold 1
gives an eviction after one silent tick, with ticks before and after a heartbeat;
two logins give a login after an eviction on the same connection, and with one
timer slot the second of them may be refused.  Three notifications
and queues of 2 give two in order in one queue and one that is put back to a full queue.  One unread
write plus one queued fills the write queue's two cases (busy or not).
Contents of two chunks can be broken in the middle, and two versions can be
mixed; a second file of two chunks shares `s_totalSize`, and its bytes may complete
the count of the first.  Three uploads let a version come back after the other one broke
(without its exception for stale records `EventuallyInstalled` fails here), two and a crash give
the same with a restart; one file with six uploads or crashes was checked as well.  A `.tmp` file longer than every content
matches none and is resumed with an error page only, so `MaxTmp` 3 loses nothing; with
`MaxBlind` 0 a length request fails only when there is no `.tmp` content (the client
then asks for everything that follows what it has).  Two workers are one more than the chain of reports needs.  Two pids allow
a second instance beside the first.  Two free-list users race, a third may take
and return the node in between.  Nine items in threes of blocks of two cross block
ends in both phases, make an index of two grow twice and reuse blocks; two
consumers see every pair of their accesses, and four blocks run out.  Three
consumers give one that sleeps, one that times out and one that takes away.  With
two slots the second thread resizes the table and the third meets it doing so.

`CHECK_DEADLOCK FALSE` stands where the system may really stop: when all
connections of the instance have been served (ServerSession), the queue is
destroyed (producers), or all lines are logged (Log2File).

### Fairness

* ServerSession: weak fairness of each coroutine and timer.  The event loop
  starves none, and a blocked send ends by success, error or timeout.  Nothing is
  assumed of peers or of the HTTP side.
* TcpClient: the thread runs what is ready and is idle again and again, time
  passes, timers expire, an attempt to connect ends, and if attempts are made
  for ever one finds the server.
* FileUpdate: the client's thread makes progress.  `EventuallyInstalled` and
  `DownloadsCease` are about files that are pushed again and again over a network that
  works in the end: from some time on the length is answered and answers arrive whole.
  These are assumptions on users and network, stated in `Fairness`.  That whole answers
  come again and again is not enough: the broken transfers of two files, which share
  `s_totalSize`, can spoil each other's whole ones for ever.
* EdgeLogin: the threads run, what arrives is handled, connections are made again;
  nothing makes one break.  A worker is strongly fair because `Wake` is disabled while
  `OutCap` messages are unread, which the code does not do.
* Daemon: the daemon runs (nothing makes it die), killed instances end, and starts that
  are tried again and again succeed in the end.
* BlockingQueue: each thread goes on with the call it has begun; nobody has to begin one.

### Disagreement between the code and its documents

`ExplicitProducer_undo`: the comment at `concurrentqueue.h:1847` says that the block
index is "guaranteed to be room" in when a block of the ring is used again.  When an
allocation fails in the middle of `enqueue_bulk`, the blocks the call has added stay
in the ring ("keep injected blocks", line 2080) but `pr_blockIndexSlotsUsed` is
reset: the ring then has more blocks than the index counts, blocks are used again
without being counted, and when the index wraps the entry of a block that still
holds items is overwritten.  A consumer of those items finds another block.  The
client uses this class nowhere (its log goes through implicit producers), so the
fault does not show in the program as it is.

### Also seen

The modules contain the following behaviour, and no run is kept for it.

Server session:

* A heartbeat that arrives between the tick that reaches the threshold and the next
  does not save the client: `message_proc.lua:50` tests the counter before the flag.
* After a send failure a response may be pushed behind the deletion of the send queue
  (`main_proc.lua:29`), and stays there.
* The timer of a dead connection deletes the registration of a new one from the same
  ip and port (`message_proc.lua:52`).
* `readme.md:12` says any number of TCP clients; `lua_max_pending_timers` limits
  it, and a login refused a timer leaves a registration for ever (until the id logs in
  again), under which pushes pile up.  This is why `RegisteredHasEvictor` is checked, and
  proved, for enough timers only; without that, `StrandedOnlyByRefusal` says that nothing
  else does this.  A handler that an error aborts cleans up nothing either, but leaves the
  timer, which does.

TCP client:

* After three lost heartbeats it reconnects also if `IsReconnect` is off
  (`tcpclient_impl.cpp:296`).
* `doReconnect` ignores its error code.  A message handler (a download, say) that begins
  while a reconnect wait is under way, after a write or a heartbeat has failed, and is
  still at work when the wait expires, delays the handlers of both: the client then
  connects at once, beside or after a second attempt, and two reads, two writes or two
  heartbeat chains may be under way.  This is why those invariants of `TcpClient` carry the
  condition `Prompt`: no handler has outlasted a reconnect wait so far.  A download of any
  length without such a wait does not touch it.  `TcpClient_reconnect` lets one handler
  outlast a wait for the properties that do not carry it.

Download:

* `messagehandler.cpp:177` logs "already exist, skip!" for a push that it skips, but the file
  may be damaged.  Version 1 is installed, version 2 uploaded and its download broken, version 1
  uploaded again while a push of version 2 waits: the download of that one is resumed with
  version 1's bytes, the mixture replaces the file, its check fails, the file stays
  (removing it is a TODO at `sys_update_handler.cpp:103`) and so does version 1's record.
  From then on each push of version 1 is skipped, until a restart checks the files.
* `readme.md:13` says that what was downloaded is saved in `file_infos.json` to prevent
  repeated downloads.  After a restart a file saved outside its `remotefile_url` loses its
  record (`fileinfos_rw.cpp:221` looks under that url) and is downloaded once more.  And of two
  files with equal content only the last one downloaded has a record (`updateFileInfos` looks
  for the md5 first): each takes it from the other, and both are downloaded whenever they are
  pushed.  `DownloadsCease` is about files that differ.
* A download resumed after a restart receives the whole file and is taken for
  incomplete, because `s_totalSize` starts at 0 (`sys_update_handler.cpp:66`).
* The bytes of another file's broken download may make the count of a download complete:
  its `.tmp` file is then renamed although it is truncated, and replaces a good one.  The
  check fails, and the next pushes repair it, unless a record of the old content hides it.
* After a restart the records have lost their type, and a new record is added beside an old one
  of the same file.  Then version 1, restart, version 2, version 1 leaves the last push
  skipped, though version 2 is there, without any broken transfer.  These are the
  stale records (`Stale`) that `EventuallyInstalled` excepts.

Message handler:

* The login request is sent once per process (`messagehandler.cpp:147`): after a
  reconnection the client is connected and never registered again, so it gets no
  pushes, although `readme.md:18` lists reconnection.
* The comment at `messagehandler.cpp:80` says that the login response generally must be
  received before the next step, and waits three seconds for it.  The wait runs inside a
  handler, on the thread that reads the socket: the response arrives, nobody reads it, the
  wait ends by its timeout, and the client goes on without it.
* A report may be a mixture of two texts (`s_fileInfos` has no lock).  `m_fileInfo_vec`
  and the handler map of the message bus are shared by the same threads without one, too;
  the modules take each access to these as one step.
* A report that is sent before `kMsgFileInfos` is attached (`messagehandler.cpp:21`)
  reaches nobody.
* When a push is handled before `loadLocalFileInfos` has run, its record overwrites
  `file_infos.json` and the records in it are lost; when between its two halves, the
  report lists less than the records.

Daemon:

* `_failedNum` is compared for equality and never reset (`shared_memory_checker.hpp:33`):
  the fourth and later stalls kill nobody, and `HangKilled` is about the first three.
* Nothing in the client writes the shared memory, so with `sharedMemoryCheck` on its
  number stays 0, which the check accepts; a hung client is then not noticed.

Queue and log:

* Two consumers of an almost empty sub-queue can keep each other from an item for as long as
  their overcommits overlap; `try_dequeue` then says empty, and its callers repeat it.
* A timed wait whose release others take away each time may spin on; `TimedWaitReturns`
  has this exception.
* A line is lost when `enqueue` fails, when its file does not open or its write fails, or
  when a consumer thread throws; nobody is told.  A consumer thread
  that throws before `startConsumeThread` sets the flag leaves it set, and lines
  pile up.
* With two consumer threads the lines of one thread may change places; `PerThreadOrder` is
  about one.  `try_dequeue` looks at the first three producers that hold items, so
  one behind three busy ones may wait.

## Proofs

Each theorem holds for every value of the constants that the assumptions named in
the component's module allow: naturals for bounds, sizes greater than 1 for blocks
and tables (the code has powers of two, 32 by default), finite sets where the state is
counted.  The inductive invariants are conjunctions of named parts; the proof that
`Next` preserves one has a lemma per action or group of alike actions.

`ServerSessionProofs`

* `TypeCorrect`: `Spec => []TypeOK`, in particular the heartbeat counter never
  passes its threshold (the code tests equality).
* `SessionInvariant`: the inductive invariant `SessionInv`.  `OneHeartTimer` alone
  is not inductive: a login starts a timer whenever `is_login` is false, so one
  has to know that such a session has none left (`LoggedOutNoTimer`), which holds
  because an eviction consumes the timer it runs in and a receive error ends the
  main loop.  `ClosedLeavesNoRegistration` needs that a logged-in session has a notify
  coroutine (`LoginHasCoroutine`: so its handler cannot have ended), that a
  logged-out one is not registered (`LoggedOutUnregistered`), and that no other
  open connection has its id (`OneOpenPerSid`).
  Most steps are quiet: they register nobody, start no timer and end no coroutine
  of a session that stays logged in (`QuietStep`); `QuietKeepsSession` treats them
  all at once, and `NextSession` the five others (accept, the two logins, receive
  error, eviction) conjunct by conjunct.
* `OneHeartTimerAlways` and `ClosedLeavesNothing` follow.
* `StrandedOnlyByRefusalAlways`: only a login to which the worker refuses the timer leaves a
  registration that nothing will remove.  The one step in doubt is the tick of a timer that
  starts the next one, which is refused when the slots are full.  They cannot be: it frees its
  own slot first, and there are never more timers than slots (`WithinSlots`).
* `EveryRegistrationHasEvictor`: if the worker has a timer slot for every
  connection, every registration has a session and a pending timer that will
  remove it: then a login finds a slot too, since a session has at most one timer and
  the one that logs in has none.  The hypothesis is needed: with fewer slots
  `RegisteredHasEvictor` fails.
* `InOrderOnceAlways`: notifications arrive in order and once.  They pass through two
  dictionaries shared by all sessions of an id before a session takes them, so the
  invariant has two parts: per id, what waits in each is numbered upwards, and what was
  forwarded comes before what was not (`EntryOrder`); per connection, what it has sent
  comes before what it is sending, and both before what waits for its id
  (`SessionOrder`).

`TcpClientProofs`

* `PromptInvariant`: while no handler has outlasted a reconnect wait (`Prompt`), there is at
  most one write and one heartbeat and, unless stopped, one read (`OneEach`), and the connection is in
  one of four phases, `Connected`, `Closing`, `Closed`, `Connecting`, each of which
  says which operations there are.  `WriteDisciplineAlways`, `OneReaderAlways` and
  `OneHeartbeatChainAlways` follow, under the same condition: a handler that outlasts a
  wait breaks them ("Also seen").
* `RecoveryPendingAlways` does not need prompt handlers: an attempt waits in the timer
  as long as the timer runs (`TimerKept`), every posted `doClose` has an attempt behind
  it (`AttemptBehind`), and a stopped client has one somewhere (`AttemptStored`).

`EdgeLoginProofs`

* `LoginInvariant`: a login request or its response is under way or the client is
  logged in, and never two of these (`LoginOnce`).  Hence one report chain at most
  (`OneReportChainAlways`), however many connections follow.

`DaemonProofs`

* `DaemonInvariant`: zombies are children of the daemon (`ZombiesAreChildren`), a daemon that
  is not running, or has killed its children, has none (`NoChildren`), and when it is
  about to start a client the old ones are gone or killed (`AllGone`); those killed and not
  ended yet are not its children (`KilledAreOthers`).  `OneInstanceAlways` and `WatchesAlways` follow.

`BlockingQueueProofs`, for finite sets of threads

* `QueueInvariant`: two equations that no step disturbs.  `m_count` is the number of
  items, less those not signalled yet, those granted, and the consumers that wait
  (`CountsItems`); the releases posted and to be posted are one for each that waits, but
  for those to whom `m_count` owes an item (`CountsReleases`).  The cases in which a timed wait takes its unit back or
  finds it already released keep both.  `GrantedIsThereAlways` and
  `NoLostWakeupAlways` follow.

`ImplicitProducerProofs`, for a finite set of consumers

* `CountersInvariant`: consumers read `dequeueOptimisticCount`, `dequeueOvercommit` and
  the tail at different times.  What was counted in less what was counted back is what is
  claimed or may yet be claimed (`NothingLost`); of those that may yet claim, the ones
  that counted themselves in before a consumer fit below what it will compare itself
  with, or there is room up to its own place (`RoomBefore`).  Hence what the comment at
  `concurrentqueue.h:2784` claims, `HeadWithinTail`; claims lie below `headIndex` and are
  disjoint, `OneConsumerEach`.  The producer's steps are in the theorem: all of
  `ImplicitProducer`'s `Next`.
* `BlocksInvariant`: the inductive invariant `BlocksInv` of the blocks, the index and the
  pool.  The p-th block is the one with the items `p * BLOCK_SIZE` to
  `(p + 1) * BLOCK_SIZE - 1`; an item is gone when it was claimed and has been read; a
  block is alive until its last item is gone and it is unlinked.  `FindsItsBlock` alone is
  not inductive, for three reasons.  The index is a ring of `Cap` places whose keys are
  written over: `Window(H)` says that the highest key ever set, `H`, is less than `Cap`
  above every block that is alive, and that from the first of these on the places hold
  their own keys, what an undone call left behind included.  A consumer walks the index
  that was current when it began: `Ways(H)` says that its place there leads, step by
  step, to the entries of all blocks it has claims in, although the index has been
  copied to a larger one since (`Leads`), and that a tail it found in the meantime is
  not before them.  And a place is only free if its value says so: `Values` relates the
  values that are blocks to the blocks alive, one each.  The other parts: `Content` (a
  slot holds its item until that is read), `Counts` (a block's count of elements
  completely dequeued is the number of its items gone, so that one consumer, the one that
  makes it full, empties it: `Emptiers`), `TailBlock` (where the next call begins to
  write), `ProdInv` (how far the call under way is, and what it has to give back) and
  `Places` (a block is in one place).  The destructor takes `Running(H)` to `Ended`.
* `FindsBlocks` and `BlocksHaveOnePlace` follow: `FindsItsBlock`, the assertions of
  `get_block_index_index_for_index`, and `BlocksInOnePlace`.
* `SubQueueIsAQueue`: `Spec => ImplementsQueue`, the refinement of `ProducerQueue`.
  `Publish` is `Enqueue`, the step of `Claim` that adds to `headIndex` is the abstract
  `Claim`, `Delivered` is `Deliver`, and every other step stutters.  The one whose stutter
  is not obvious is `Take`: it moves items from those still to be read, which are numbers,
  to those read, which come from the slots, and the two are equal because of `Content`
  and `Ways`.  Besides `BlocksInv` it needs that no call gets more than the largest one
  asks for (`CallsBounded`) and that a claim is not empty (`ClaimsFilled`).

  Of the constants it is assumed that blocks and indexes have more than one place, that
  neither a null pointer nor an uninitialised value is a block (`BlockAssumption`), and
  that there is a largest call (`LargestCall`; sizes are `size_t`), without which
  `ProducerQueue` would have no `MaxBulk`.

`Log2FileProofs`, for any set of threads and consumers, also infinite

* `OwnerInvariant`: a thread with a producer has an entry in a table or is about to
  insert it (`Known`), no entry of a searching thread is in a table newer than the
  ones it searches (`SearchSeesAll`), a
  thread that was counted has no entry (`Unknown`).  `OneProducerAlways` follows.
* `SlotInvariant`: a table that may be filled to three quarters keeps a slot free although
  late threads still insert into it.  `implicitProducerHashCount` is the number of
  threads in tables or counted (`CountIsExact`), one thread resizes (`OneResizer`), and
  of the threads counted below `k` fewer than `k` can be in a table, for every `k` from
  the table's limit on (`EarlyFit`: for every `k`, because a thread that finds no
  room is let in later, by a table with a larger limit).  `SlotFreeAlways` follows.
* `PlaceInvariant`: a line its thread is done with is in the file, in the queue, in a
  consumer's hand or lost, and what is there is there once; the consumer that dies gives its
  line up as it clears the flag.  `LineInOnePlaceAlways`.
* `OrderInvariant`: file, hand and queue hold a thread's lines in the order of their
  numbers, all of the file's before those in hand, those before the queued ones.  Two parts
  are about the flag, which is read without a lock: before it is set nothing is in queue
  or hand (`QuietBefore`), and a thread that still writes directly has nothing there
  (`WritesAlone`).  It needs one producer per thread (`OwnerInvariant`).
  `PerThreadOrderAlways` follows.

Only model-checked:

* liveness, which rests on fairness and is out of the prover's reach;
* the refinement of `ProducerQueue` by `ExplicitProducer`;
* `RoomGuaranteed` and `AllDestroyed` of `ExplicitProducer`, and its use of
  `DequeueCounters`, whose proof is in terms of `ImplicitProducer`'s steps;
* `OnePlace` and `NextIsCurrent` of `FreeList`;
* `CountsWhatIsThere` of `FileUpdate`.

## Plan

The modules are complete as far as "Not modelled" says.  What is left are proofs, in
this order:

1. `FreeList`: `OnePlace` (a node's reference count says who may still put it back) and
   `NextIsCurrent`.
2. `FileUpdate`: `CountsWhatIsThere` (the `.tmp` files are at least as long as the count,
   summed over finitely many paths).
3. `ExplicitProducer`: `RoomGuaranteed`, and the counters and the refinement by the
   arguments of `ImplicitProducer`.

## Not modelled

Parsing and formatting of JSON and configuration, hashing, zip listing, the front end
of the log (channels, levels, formats), the test client, Windows and macOS
branches, and the vendored Lua libraries.  The byte buffer: each is local to one handler,
filled once and read once, and no call that moves its data is reached.  The unqlite
database of the HTTP services: it is written by uploads, read by queries that change
nothing, and copied to a dictionary once at start.  Of the file server, missing files
(404) are left out: nothing in the repository deletes an uploaded file.  Of the queue:
consumer tokens, moving and swapping whole queues, element types that throw, and the
effects of weak memory orders.  The thread pool's destructor does not run before the
process ends.
