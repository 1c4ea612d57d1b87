# SconeServer in TLA+

TLA+ models of SconeServer (https://www.sconemad.com), the TLC configurations
that check them on small instances, and TLAPS proofs of their main properties.
Paths are relative to the repository; "D:324" below means a line of the file that
the section names.

## The system

SconeServer is one process: a kernel library (`sconex/`) that runs jobs, reads
and writes descriptors through chains of streams, loads modules and evaluates
SconeScript; and modules (`http/`, `sconesite/`, `server/`, `ssl/`, ...) that
register streams, handlers and commands with it.

`main.cpp` creates the `Kernel` and calls `Kernel::run()` until it returns
non-zero. `run()` initialises the logger and loads the configuration, whose
commands load modules and open listeners; then it calls `Multiplexer::spin()` in a
loop. `spin()` `select()`s over the descriptors of all jobs and runs the jobs,
in a pool of threads or in place. A `DescriptorJob` calls `Descriptor::dispatch()`,
which sends events up and down the descriptor's chain of streams. Everything
else (http requests, TLS, CGI, site articles) happens inside those events, in
whatever pool thread has the job, so what two connections share (sessions,
caches, modules, the logger, script objects) is shared between threads.

### Components

| component | state | operations | what is hard | correct when |
|---|---|---|---|---|
| scheduler: `Multiplexer`, `Job`, `Thread` | lists of jobs, job states, pool and busy threads, pool size, two conditions | add_job, end_job, spin (prepare, select, allocate, purge), finished_job, set_num_threads, close | one list lock, one mutex per thread, states written without a lock, conditions shared by different waiters, threads created and joined under the lock, callbacks from running jobs | a job runs in one thread at a time and is deleted only when it is not running; a job handed out runs; close() ends and deletes nothing that runs |
| `Descriptor`, `DescriptorJob`, `Stream` | state of the endpoint, list and m_chain links, enabled events, watchdog | dispatch, add_stream, link_streams | handlers change the list, the state and their flags during the loop over the list; events are synthesized from buffered data; closing can be suspended and cancelled | links follow the list; opening goes up in order, closing down in order; nothing is sent to a removed stream; a new stream opens; closing ends |
| `RWLock`, `RWLocker` | reader count, writer flag | lock, unlock, convert | one condition for readers and writers, one wakeup for the last reader, conversion that gives the lock up | one writer or many readers; nobody sleeps for ever |
| `Kernel`, `main` | run state, scheduler, modules | run, init, close, restart, shutdown (signals, scripts) | restart in the same process over what close() left | loop ends on request; restart begins from a clean state |
| `Module`, `ModuleLoader` | tree of modules, list of loaders, dll handles, reference counts | insmod, rmmod, load_module_dir, get_module (lazy), close | load order by dependencies against list order, unload deferred while referenced, several passes | no module is unloaded while referenced; close unloads all that can be |
| `Logger`, `LogThread`, channels | queue, optional thread, channels by name | log, set_async, add, remove, process_queue | thread pointer read without the lock, thread started and stopped while others log, wakeups that nobody hears | every entry is written once, in order |
| `ScriptRef`, `ScriptObject` | reference counts under one global mutex | copy, assign, destroy | deletion outside the mutex; mutex created lazily | an object lives as long as a reference |
| script engine (`ScriptEngine`, `ScriptStatement`, `ScriptExpr`, types) | token buffer, stack of open statements, groups' variables, one evaluator per tracer | tokenize, parse, run, evaluate, call | text in pieces, a statement that is open until the next token, an evaluator re-entered by recursion, operands that are not to be executed, control flow through nested statements | statements are those written, run once and in order; values and effects are those of the tree |
| stream library (`Buffer`, `LineBuffer`, `StreamBuffer`, `StreamTokenizer`, `StreamTransfer`, `GzipStream`) | ring of bytes, pending line, transfer status | read, write, tokenize, transfer | partial reads and writes, Wait in the middle of a token | bytes come out once and in order |
| sockets, files, `DatagramMultiplexer` | descriptor state, channels by address | connect, accept, recv, send | asynchronous connect, errors | state follows the endpoint |
| `Process` | proxy process and its pipe, children | launch, detach, wait | a forked proxy with a request protocol, uid changes, child exit against wait | each launch answered once |
| `http`: sessions | map of sessions under a mutex | lookup, new, check_sessions | expiry against use, reference counts | a session in use is never removed |
| `http`: `ConnectionStream`, `MessageStream`, `ResponseStream`, `Client`, `WebSocket` | request queue, chunk state, response state | events | pipelined requests, keep-alive, several streams on one chain, handlers that wait | responses in the order of requests, each complete |
| `sconesite`: `Profile`, `TemplateManager` | article and link caches, templates, `RWLock`s | lookup, create, remove, rename, purge, refresh | reads go on after the lock is released; two threads miss at once | one article object per id; no use after purge |
| `server`: `ServerListener`, `ConnectionChain` | nodes of a chain, connection count | accept, connect, prune | chain edited while connections are made | each connection gets the whole chain |
| `ssl`, `exec`, `stat`, `simple`, `forward`, `location` | small stream state machines | events | handshake wants the other direction | - |
| `tftp`, `smtp`, `rss`, `testbuilder` | protocol states, feeds, builds | events, periodic jobs | retransmission, retries, child processes | - |
| values: `Date`, `Time`, `Uri`, `VersionTag`, `MimeHeader`, ... | none | parse, format, compare | boundaries | agree with a definition |

`PROJECT.json` lists the files of each and what is modelled of it, and under
"hazards" the lines where the difficulties bite.

## Plan

Modules are written in this order; a step is done when its run passes and its mutants are
caught. What is proved of each is under "What is proved".

1. **Scheduler** - `JobLifecycle` (abstract), `Multiplexer`, `MultiplexerProofs`. Done.
2. **Descriptor** - `Descriptor` with the contract of stream handlers; proofs in `ChannelProofs`. Done.
3. **RWLock** - `SharedLock` (abstract), `RWLock`, `RWLockProofs`. Done.
4. **Logger** - `OrderedLog` (abstract), `Logger`, `LoggerProofs`. Done.
5. **HTTP** - `HttpConnection`: connection, message, response and transfer streams on one
   chain, composed with the events of `Descriptor`; keep-alive and pipelining; proofs in `WebProofs`. Done.
6. **Kernel and modules** - `ModuleLifecycle`, `ModuleLifecycleProofs`: load_module_dir, lazy
   loading, insmod, rmmod, close with its retries, restart. Done.
7. **Sessions and pages** - `Sessions`, composed into `SiteRequests`, `SiteRequestsProofs`. Done.
8. **Process proxy** - `ProcessProxy`, `ProcessProxyProofs`. Done.
9. **Test builder** - `TestBuilder`, proofs in `WebProofs`, over crashes of the server. Done.
10. **Datagrams and tftp** - `TftpServer`, `ChannelProofs`, over a faulty network. Done.
11. **Script engine** - `ScriptValues`, `ScriptRun`, `ScriptEngine` on top of each other, against
    `ScriptMeaning`. Checked.
12. To come: the article cache of sconesite (its iterators are used after the lock is released, so
    there is undefined behaviour to be settled first), the stream library as functions on
    sequences, multipart bodies, the http client and web sockets, the values.

The project has one run per component, and two for the scheduler, whose safety and liveness
need different bounds. Comments of the code that the models refute are
listed under "Known divergences" with the property and the constants that show them; six configurations
(`MuxLostWakeup`, `MuxSwallowed`, `LoggerConsole`, `SitePurge`, `ProcessExitLost`, `BuildsTorn`) are kept for the purpose, in
which TLC finds the one property they name violated. They are not among the runs, all of which pass. No model
has a switch that turns off a behaviour of the code: where the code goes wrong the property says up to where it goes right.

## The models

Names are those of the source without `m_`. A critical section in which nothing can
block is one action; where the code reads shared state without the lock that
protects it, the read is an action of its own.

### Scheduler: `Multiplexer`, abstract `JobLifecycle`

`sconex/Multiplexer.cpp`, `Job.cpp`, `Thread.cpp`, and the loop of `Kernel::run()`.

| state | in the code |
|---|---|
| `lock`, `job_waiters`, `end_waiters` | m_job_mutex (recursive), m_job_condition, m_end_condition |
| `jobs`, `jobs_new`, `job_state`, `due` | the two job lists, Job::m_job_state, a PeriodicJob's m_timeout against the clock |
| `threads_pool`, `threads_busy`, `num_threads`, `stopping` | the thread lists, their size, threads being deleted |
| `job`, `exiting`, `pc` | JobThread::m_job, Thread::m_state, the place in the code of each thread |
| `todo`, `alloc`, `pick` | spin()'s iterator, the job and thread of allocate_job() |
| `kernel` | Kernel::m_state |
| `unheard` | history: threads that were handed their job before they listened for it, and have not looked at it since |

`spin()` is `PoolAsIs`/`PoolGrow`/`PoolShrink` ... `PoolDone` (check_thread_pool), `Collect`
(new jobs and prepare()), `SelectOk`/`SelectError`, `Visit` (ready(), read without the
lock), `Alloc*`, `Take`, `Give` (allocate_job), `Purge`. A pool thread is `ThreadStart`,
`ThreadWake`, `RunReturns`, `ThreadFinish` (finished_job), `ThreadTail` (m_job = 0). What
a running job may ask for is `AddJob`, `SetNumThreads`, `EndJob`. `JobLifecycle` is the
diagram at the head of `Multiplexer.h` plus "one worker at a time".

Abstractions. The lists are sets, so every order of the lists is covered. What
select() reports is a choice, as every DescriptorJob runs in each cycle anyway. The
socketpair that interrupts select() is left out: select() may always return, because
of the latency. The clock is the action `Expire`. A thread whose object is deleted
while its pthread has not begun is an "orphan" and takes no further step (what it does
is undefined). An exception out of a job that main runs in place leaves spin() and is
not modelled; one in a pool thread is (`RunThrows`). start() does not wait for the thread: it would only
under HAVE_PTHREAD_YIELD (`Thread.cpp:69`), which the repository's build files never define.

### Descriptors: `Descriptor`

`sconex/Descriptor.cpp` with the contract in `Stream.h`. State: `state`, `streams`
and `chain` (m_streams and each stream's m_chain), `opened`, `interest` and `buffered`
(a stream's flags and has_readable()), and the locals of dispatch() (`pc`, `at`, `ev`,
`flags`, `loop`). `sent` records what was delivered, for the properties.
One call of dispatch() is `Dispatch`, `Pass`, then for each stream `Opening`, `Readable`,
`Writeable`, `Advance`, then `EndPass`, `Closing*` and `EndLoop`. A handler is any
`Handler` step together with any `Condition`: it may add a stream, change events (its own,
or those of a stream below that it reads from or writes to: `Reach`), fill or empty a
buffer, and meet the end of the endpoint (`Endpoint`). What each event does to
dispatch() for a given answer is `OpeningAnswered`, `ReadableAnswered`,
`WriteableAnswered` and `Closing*`, which a module with particular handlers conjoins
with them. Between calls other jobs may enable an event (`EnabledFromOutside`). No particular
stream of the tree is assumed, so a property that holds here holds for all of them, as
long as a handler that answers Ok to Closing leaves the chain alone (the one in the tree
that adds a stream there, http:connection, cancels the closing). The line that reads
`event_enabled` of a stream which has just been deleted is a choice of both outcomes.
remove_stream, add_stream_before and add_stream_after have no callers in the tree.

### HTTP: `HttpConnection`

`http/ConnectionStream.cpp`, `MessageStream.cpp`, `ResponseStream.cpp`, the ways through
`HostMapper.cpp`, `Host.cpp` and `GetFile.cpp`, `sconesite/SconesiteStream.cpp` as the response that
writes a page, and `sconex/StreamTransfer.cpp`, `StreamTokenizer.cpp` and
`LineBuffer.cpp` as those use them. The module instantiates `Descriptor` with the chain of one
connection, so a step is a step of dispatch() with what the handler does to its own members.

| state | in the code |
|---|---|
| `linebuf`, `seq`, `request`, `persist` | of ConnectionStream: the tokenizer's m_buffer, m_seq, m_request, m_persist |
| `handled`, `msg` | how many MessageStreams there have been, and the last one: m_headers_sent and m_buffer (`hdr`), m_write_chunked, m_write_remaining, m_bytes_read, m_bytes_readable, m_bytes_written |
| `resp`, `left` | m_resp_seq of its ResponseStream; what its StreamTransfer has to write |
| `unsent`, `wire`, `eof` | the unit that the client sends next (line or part of a body, of which request), what recv() would return, that it sends no more |
| `client` | the client's reading of the output: its framing, and the requests that have been answered in full |
| `slow`, `lost`, `failed` | used up of a bound; a write that nobody repeats was cut; assertions that did not hold of a message that closed |

Each event of each stream is an action: `ConnectionReadable`, `ConnectionClosing`,
`MessageOpening` (the host, the path and the handler), `MessageWriteable`,
`MessageClosingEmpty`, `MessageClosingLate`, `MessageClosing` (`Unmet` is what its assertions say, which only log), `Response*`, `ReaderReadable`
(ParamReaderStream), `TransferWriteable`, `SourceReady`. A handler's writes are a set of
outcomes (`Writes`, `Page`), since send() may take any part of what it is given. A message whose header is still
buffered when it closes returns from write_header() and never comes to its assertions (`MessageStream.cpp:99`): a body of
its request that nobody has read is then taken for the next request. `failed` counts what they would have said.

Abstractions. A unit of input is a line or a part of a body, a unit of output a header or a
run of data; the client sends its requests in any pieces, when it likes, and may end at any time.
A request is one of `Kinds`: what is asked and what becomes of it. Broken connections are left to
`Descriptor`, which has them. The line buffer is taken to be large enough, and its rule about a
line feed in the next packet is taken to work. `persist` starts with any value, as
the constructor does not set it. The kinds leave out, because of what the code does with them:

- a POST to a page without a body or with a type that handle_body() does not know: the response
  refuses to close and only the idle timeout ends it (`ResponseStream.cpp:294`, `:361`);
- a file of length 0, or HEAD of a file: the StreamTransfer ends, or is never added, without
  writing a header, and Closing sends a html body under the Content-Length of the file
  (`MessageStream.cpp:98`); HEAD of a page sends the page;
- two empty lines before a request: the second completes the request that the first could not be
  parsed as (`ConnectionStream.cpp:138`); one empty line is skipped, and is included.

### Readers-writer lock: `RWLock`, abstract `SharedLock`

`sconex/Mutex.cpp`. State: m_readers and m_writing of the lock; m_locked and m_mode of each
locker; whether its thread sleeps on the condition (`at`) and for which mode (`want`).
Every method runs under m_mutex, so it is one step up to its wait(). pthreads gives the
mutex and condition variable: signal wakes any one sleeper, wait() may return for no
reason. The abstract lock is seen through `Holds`, how each locker holds it.

### Logger: `Logger`, abstract `OrderedLog`

`sconex/Logger.cpp`, with `Thread.cpp` for the log thread and `Kernel.cpp` for the
configuration, the loop, close() and restart.

| state | in the code |
|---|---|
| `queue`, `mutex` | m_queue, m_mutex where it is kept over a step |
| `thread`, `running`, `pc` | m_thread, Thread::m_state, the place of each thread |
| `hand`, `separate`, `seen` | locals: the entry in log_entry(), separate_thread, the m_thread that log() read |
| `accepted`, `written` | history: entries queued so far, what the channels have been given |
| `left`, `phase` | bounds, and what Kernel is doing |

`log()` is `Submit` (the queue, under the mutex), `LookAtThread` (the unlocked test) and
then `Wakeup` or process_queue(); `process_queue()` is `Process` (the flag), `Lock`, `Take`
and `Write`. `LogThread::run()` is `ThreadStart`, `ThreadWoken`, `ThreadWaits`, with
process_queue() in between. `set_async()` is `EnableAsync`, or `DisableAsync` and `Join`,
and ends with its own log(). The log thread's mutex needs no variable: the thread has it
except in wait(). `LookAtThread` and `Wakeup` are the two unlocked reads of m_thread at `Logger.cpp:318`. A wakeup() through
a pointer to a thread deleted in the meantime, or through the null pointer that the second read finds, is undefined, and in the
model has no effect. That both Kernel::close() and a console delete the thread at once is excluded
(`Close`). Channels are one step; adding and removing them is left out.

### Modules: `ModuleLifecycle`

`sconex/Module.cpp`, `ModuleLoader.cpp`, the references of `ScriptBase.cpp`, and `Kernel::init()`,
`run()` and `close()` around them.

| state | in the code |
|---|---|
| `name`, `modules` | each loader's m_name and the m_modules list of each module |
| `confs` | the loaders with an m_conf, whose configuration get_module() loads (insmod makes loaders without) |
| `mod`, `owner` | m_module of each loader (none, being configured, open, closed, deleted), who holds its m_mutex |
| `held`, `uses`, `ret`, `local` | who has a `Module::Ref`: objects of modules, jobs in the pool, values being returned, rmmod's local |
| `stack` | the calls under way in each process: get_module, a configuration script, close, unload |
| `main` | where Kernel and load_module_dir are, the rounds over the files, the attempts of close() |

A call is a stack frame, so that loading a module may run a script that looks up another, which is
loaded in turn with the first one's mutex held. `num_refs` counts the holders. Files and
dependencies are constants: the instance has modules that others need, scripts that look up one
another's modules and their own, a library that is missing and a sub-module. A module's close() gives up what its
objects refer to, as far as the module does so: `Keepers` are those that do not, like smtp, whose close() is that of every
Module. What such a module refers to stays referenced through all the rounds of close(), which then gives up; the
restart loads the configuration over what is left (`Again`).

Assumptions. `Awaited`: nobody is between find_module() and get_module()'s mutex when a loader is deleted
(the code does not ensure it: `Module.cpp:418`). `AdminBusy`: one administrator at a time
calls insmod and rmmod. find_module() is one step. A loader deleted while its module
is still there leaves the module with nobody to unload it ("leaked"): ~ModuleLoader ignores the
answer of close(). rmmod of a module in use closes it before it finds that out, and leaves it in the list
(`Module.cpp:320`); nothing says what such a module is to do for those who use it.

### Sessions and pages: `Sessions`, `SiteRequests`

`http/Session.cpp` and `Host::check_session()`; on top of it `sconesite/SconesiteStream.cpp`,
`Document.cpp`, `XMLDoc.cpp`, `TemplateManager.cpp` and the parts of `RenderMarkup.cpp` that
lead from one document to another or throw. `m_sessions`, `valid`, `locked` are the manager's; `session`
and `cookie` what a request has; `docs` the stack of documents that its page is in; `tree`,
`modtime`, `opening` the members of each Document, the tree being the version that was
parsed; `file` the versions on disk; `start` what the store gives for the template. `since` and `asof` are history: how
new the tree must be that a request gets from the open() it relies on, and how new each tree is known to be.
`valid()` and `num_refs()` in check_sessions() are two steps, so a session that is renewed
between them is still removed, if nobody holds it. `AskOpen` is the unlocked is_open() of a request that has waited in
`Spin`; `PurgeLooks` and `PurgeCloses` are the two halves of Document::purge(), which closes the document after it
has released the mutex (`purging`).

Files change, appear and go at any time. So Document::open() may close a tree that another request walks, purge() too,
and refresh() deletes a template that a request has the raw pointer of (`Document.cpp:254`, `:145`, `TemplateManager.cpp:93`). What the
walk does then is undefined; the model lets it go on to its end and claims nothing of what it shows beyond the
moment at which it began. A page has one article. There is no
liveness here: a thread that spins on m_opening has only the scheduler's word for it.

### External processes: `ProcessProxy`

`sconex/Process.cpp`: the objects (`runstate`, `m_pid`, `m_exitcode`), the request that each client makes
and the packets of it still to be sent (`op`, `todo`), the mutex, the two directions of the socket, the
proxy (`proxy`: its place in run() and the command it has collected), its `m_stats`, and the children.
`HandleSIGCHLD` may come between any two steps of the proxy, also between a lookup in m_stats and the store that
follows it (`FindStat` and `Insert` in launch, `DetatchPid` and `MarkDetatched`); `torn` is history in the record of a
child: the handler came there. Process ids are reused once their child has been waited for. A child's data is the client whose packet it came in, which is enough to
tell a child that was started with another's arguments.

That a process id is not reused while an object still has it is assumed (`FreePid`).

### Test builder: `TestBuilder`

`testbuilder/TestBuilderModule.cpp`, `Build.cpp`, `BuildStep.cpp`, `BuildProcessStream.cpp`. The worker
is `Load`, then passes of `PassBegin`, `PassBuild`, `ProceedStep` (`Launch` or `Check`) and `SaveDone`. save() opens the
state file and makes one write for the header and one for each step (`saving`, `WriteHeader`, `WriteStep`). Scripts are `Create`
(the constructor's save() and submit_build()), `Abort` and its own save, `Aborted`, `Delete` (`script` says how far one is), and
`SetMaxRunning`, which takes no lock and may come in the middle of a pass. Programs end in `ProgramEnds`; the server hears of it in
`Closing` (the unlocked test of m_step, which puts the step in `exiting`) and `process_exited`, or loses the stream in `Cancelled`. A program
that could not be started has a stream too. A program that a signal kills may count as one that ended with code 0 (`Process.cpp:439`), or
not. `disk` is the state file of each build, `child` the program of each step, which outlives the server. `Crash` may come
at any step, between any two writes too: what is on disk is then what had been written. A program that is running becomes a
"stray", whose end nobody hears, and the next run calls its build aborted. A crash between launch() and
save() loses the start, so that the step runs twice. `removed`, `torn` and `moved` are history, for the properties: the builds a
script has removed, those whose very first save was cut, and that the limit was set during a pass, since a pass that began with
nothing running. Left out: a submit before the worker has loaded (the build is listed twice), a second start() of
the worker, two builds of one second, and what a call on a deleted step does.

### Datagrams and tftp: `TftpServer`

`sconex/DatagramMultiplexer.cpp`, `DatagramChannel.cpp` and `tftp/TFTPStream.cpp`. The multiplexer's event
is `SocketReadable`; the channel's read is split where the other thread can come between (`EndpointRead`,
then the event in `Handles`): a datagram that arrives in between is put in the
buffer, and then its Readable bit is cleared. The clients and the network are external: each client transfers
one file of `NPieces` blocks and repeats its last packet; packets are a set, so they are
reordered freely, and `MaxFaults` bounds how many are lost, repeated or taken for lost, how many
timeouts and refusals there are, and at how many pieces the disk fails. A write() that fails is acknowledged like any other
(`TFTPStream.cpp:213`: `Write` leaves nothing, or a `Damaged` piece, and `Store` goes on), a read() that fails makes a short or empty
block (`:297`: `WriteData`). `spoilt` is history: the pieces the disk has ever failed at.

### Script engine: `ScriptValues`, `ScriptRun`, `ScriptEngine`, `ScriptMeaning`

`ScriptEngine` is the stream: `sconex/StreamTokenizer.cpp`, `ScriptEngine.cpp`, the parse() methods of
`ScriptStatement.cpp` and `ConfigFile::load()`. `ScriptRun` is what it calls: the run() methods and `ScriptExpr.cpp`.
`ScriptValues` is what these work on: the references of `ScriptBase.cpp`, the types of `ScriptTypes.cpp` (integers, Booleans,
strings, lists and maps, with script_op() and script_method() of each) and the functions of `ScriptContext.cpp`.
All are operators on one record `m` of all that a script can change.

| state | in the code |
|---|---|
| `script`, `arrived`, `fetched`, `closed` | the text, what of it has come, what Stream::read() has given, that no more will come |
| `buffer`, `stack` | m_buffer and m_stack of the engine |
| `memory.nodes`, `.scopes`, `.heap` | the statements, the m_env of each group, the objects; a reference (ScriptRef, ScriptMethodRef) is a record of object, constness and method |
| `memory.eval` | the ScriptExpr of each tracer (the engine's, and one for each subroutine object): m_expr, m_pos, m_type, m_name, m_value, m_stack, m_contexts |
| `memory.taken`, `.frames` | statements that have given their body away (m_body = 0), calls so far, which name the copies of bodies |
| `memory.out`, `.crashed`, `ran` | what was printed, that a null reference was used, and the statements that were run |

One round of the loop in parse() is `Skip` (a comment), `Accept`, `Refuse` or `Pause`; event_runnable() is part of the last
round. The text is a sequence of lexemes, and next_token() and next() are modelled on lexemes: the characters of
names, numbers and two-character operators never matter to what is checked; a quoted string is one lexeme. Each lexeme has its
white space behind it. Numbers are small and do not overflow; bit operators work on 16 bits. Strings are real strings, since
sort(), split(), join() and the keys of maps depend on what is in them; quotes inside them are left out, and get_string()
of a map has single ones.

`ScriptMeaning` is the reference. A script there is a tree; `Lexemes` is its text, with the brackets that the table of
precedences asks for and no more, `TreeOf` the statements it must be parsed into, and `Effect` what it does, by
recursion over the tree. It has the operators on objects (`ScriptValues`) in common with `ScriptRun`; how a text is taken apart, in which
order, what is skipped and where each statement leads it says for itself.

Restrictions of the instance, each because of what the code does otherwise (see "Known divergences"): an operand
of `||` and `&&` on the left, and an argument of a call, is in brackets if it is itself `||` or `&&`; the
second operand of these has effects only by calls and `++`, in which the code leaves them out too; a recursive call is the last
thing in its expression; a sub statement is run once in each call; nothing is divided by zero with `/=`; a file does not end in a read of
white space only. An empty list or map, or a call that returns nothing, does not stand inside a list, a map or the arguments of a
call. Lists are sorted by predicates that order them. A list is not spliced into itself, nor put into itself with a map's set().

## What is checked

Every run passes. Deadlock is checked except where the table says why not.

| run | instance | what it shows |
|---|---|---|
| `mux_safety` | 3 jobs (2 descriptor jobs, one periodic, one of them added later by a job), 2 thread objects, pool sizes 0 and 1, one job that calls end_job, one that throws, pthread_create may fail | `OneRunner`: a job is executed by one thread, and nobody deletes it meanwhile; `NoJobStranded`: a job that is marked Run is being run, or a thread that is awake, or that the wakeup will reach, is about to run it, unless its run() threw or its thread was handed it before it listened; `CloseIsQuiet`: close() deletes jobs with no thread left |
| `mux_live` | 2 descriptor jobs, 2 threads, sizes 0 and 1 | `FollowsDiagram`: implements `JobLifecycle`; `ShutdownCompletes`: once it is asked for, close() returns, unless a thread that was handed its job too early never looks at it; no deadlock |
| `descriptor` | 2 streams, one that enables Readable, one that changes its events | `OpenedFromBelow`; `OnlyToLiving`: nothing is sent to a stream that has gone; `StreamsOpen`; `ClosingEnds` |
| `rwlock` | 3 lockers, which lock, convert, unlock and are destroyed and made again without end | `SleepersAreAwaited`; `IsSharedLock`: implements `SharedLock`; `AllGetIn`: every call of lock() returns unless others overtake it for ever |
| `logger` | 2 pool threads and main, one log() each besides those of set_async(), 2 log threads, 2 runs of the kernel | `OneInLogEntry`; `SyncLeavesNothing`; `KeepsOrder`: implements `OrderedLog`; `CloseEnds` |
| `http` | 2 requests of any of 8 kinds (pages that keep the connection and not, with one empty line before; a posted form of 2 units; a file of 2 units; a status without a body; refusals at opening and at closing; a POST that is refused unread), pages of up to 2 pieces, 2 short writes or locked sessions | `ClientReads`: the responses can be taken apart and come in order; `InputStaysAligned`: requests and bodies stay together; `NextAfterWhole`: the next message starts after a whole response that keeps the connection; `RequestsAnswered`: each request sent is answered, or the connection ends |
| `modules` | 5 files with dependencies, scripts that look one another up in a circle, one missing library, a sub-module of one, a module that an administrator inserts and removes and whose close() releases nothing, 2 pool threads, 8 loaders, 10 attempts of close(), one restart | `NeverFreedInUse`: no module goes under a reference; `ConfiguredBeforeUse`: none is used before its configuration has run; `DirLoadsAll`: exactly what can be loaded is; `ClosesAll`: close() leaves nothing but what such a module refers to, in two attempts when there is no such thing and after all of them otherwise, also when an earlier close() has given up; no deadlock |
| `site` | 2 connections, 2 sessions, 2 templates over one file, one article, 2 versions of each file, one of them malformed, 3 requests; files change, templates go and articles are purged at any time | `SessionKept`: no session is removed under a request; `LockedByOne`: locked exactly while one renders; `FreshPage`: no page is older than its file was when the open() it relies on was called |
| `process` | 2 objects, 1 password, 2 process ids, 2 packets in the socket, the handler between any two steps | `AnswersAreOwn`: whoever asks is answered about its own child; `ExitIsKept`: an end is lost only in the one window between lookup and store; `AnswersCome` |
| `builds` | 2 builds, one of 2 steps, limit up to 2, set at any time; one death of the server in behaviours with one build | `PassedMeansSucceeded`: what has passed has run its programs to code 0, in order, unless its very first save was cut; `NoStrays`; `NeverMoreThanMax`: no build is started beyond the limit, unless the limit was set during a pass; `BuildsEnd` |
| `tftp` | a reader and a writer, 3 blocks, 2 faults of the network or of the disks | `FilesArriveWhole`: pieces are in order and once, what is acknowledged was written, what is read is the file, but for pieces that a disk failed at; `TransfersEnd` |
| `script` | 3,435 scripts from a file or a terminal, a buffer of 22 lexemes | `ParsedAsWritten`: the statements are those of the tree, run once and in order, and only wrong texts fail; `RunsAsWritten`: what they print and leave is what the tree means; `ConstantsKeep`: no statement changes a constant or what is in it |

`CHECK_DEADLOCK FALSE` in `mux_safety`: there the system can stop for good. A job run in place that calls end_job() waits
for a purge that only its own thread could make; close() waits for a thread that waits in end_job(); a
job that threw is waited for for ever. `mux_live`, without those, has deadlock checked. `site`, `process`, `tftp` and `script` say it
too because their users stop: all requests have been made, all objects are deleted, all transfers are over, the script has ended.

Bounds. Two threads of a pool, two or three jobs and a main thread give every pair of
actors that meet in the scheduler (spin with a pool thread, two pool threads, end_job with
spin and with a run, a resize out of a job with each of them), and sizes 0 and 1 with the
extra thread of a timeout give growth, shrinking and the in-place mode. Two streams are a stream and the one
it reads and writes through; either may be below, and either may be removed under the other. Three lockers are a
writer with a sleeper of each kind, or two readers that convert beside a writer, and a
second lock() of a locker is a conversion; calls are not counted, so that readers may overlap for ever. Two requests are one with a successor in
the buffer, on the wire or not sent yet, and every pair of kinds; two short writes are one in the
header and one in what follows it. Chunked responses need no more than two pieces: what comes
before the first chunk, between chunks and after the last. In the logger the second log thread is the one
after a mode change or a restart. Of modules, the
instance has every way of loading (from the file, on demand, as a dependency, from a script, failing) and an
administrator who removes what others use; with 8 loaders the restart can make all those it needs beside what is left. Two requests of one session and a third of another are what
meets at a session; two templates of one file and an article are two ways to one document. Two process ids for two
objects are reused. With two builds one waits under a limit of one and two run under two; two steps are a successor; a build that is loaded again
is on its own (with `MaxWithCrash = 2`, where both are, TLC finds no error in 969,860 states, in three minutes). Three
blocks are a first, one in the middle and a short last one, and two faults are one in each of
two packets, two in one, or one on the way to a piece that the disk fails at. The scripts have every binary operator with every kind of operand, seven of them (one of each
precedence, and both logical ones) on either side of every other, conditions and loops in one another in both orders with every way of leaving
them, and five programs with subroutines, which recurse, nest, leave loops, refer to variables and miss arguments; a list, a map that holds
a copy of it, a constant list in which there is another, and a reference into the map, each read and changed by every
operator, method and standard function, and after that changed once more, so that what is shared and what is a copy
shows; a buffer of 22 lexemes holds every statement but not every script, so that it is filled, compacted and, by the text
that is too long, overrun. The bounds `MaxLogs`, `MaxRuns`, `MaxRequests`, `MaxPieces`, `MaxSlow`,
`MaxRetries`, `MaxRestarts`, `MaxVersion`, `MaxQueue`, `MaxMax`, `MaxCrashes`, `MaxWithCrash` (how many builds there are in behaviours
with a crash), `MaxFaults` and the sets of objects are all that is bounded; no safety property needs them (the proofs take
them as arbitrary).

Fairness. The operating system runs every runnable thread, and a thread that asks for a
mutex again and again gets it (strong fairness of the steps that take m_job_mutex, of
set_async(), of stop(), of submit_build() and of a thread that lets go of a lock). A job's run() returns, since handlers do not block. A stream
that is asked again and again to open, or to close, does so in the end (`OpensNow`,
`ClosingOk`): dispatch() cannot force it. The http streams are known, so there it is only that
the scheduler dispatches the descriptor and that dispatch() returns. The proxy and a thread that holds its mutex go on, and a
signal is delivered; nothing says that a program ends, except in `builds`, where what
is started ends, the worker makes its passes and the end of a program reaches the server. In `tftp` jobs
are dispatched, and a packet that the network does not lose arrives; `TransfersEnd` is stated for behaviours without
faults. Nothing is assumed of timers, select(),
signals, spurious wakeups or clients; no log() or add_job has to happen.

Every property of a passing run has a mutant in `PROJECT.json`: an operator marked "Slip" in
the module, the way a plausible mistake would change the code, under which the run
finds the property violated.

## Known divergences

What a comment, an assertion or a document says and the models show to be otherwise. TLC finds each with the
configuration or the constants and the property named here; for a property that a configuration does not name,
put it in the place of the one it names.

- `Thread.h:62`: "the start method waits for this before returning". Thread::start() waits only under HAVE_PTHREAD_YIELD,
  which nothing in the build files defines: a job handed out before the new thread has reached await_wakeup() is
  signalled to nobody, the thread then sleeps with it, and close() waits for that thread for ever (`MuxLostWakeup.cfg`;
  `NoLostWakeup`). `NoJobStranded` and `ShutdownCompletes` except this and nothing more.
- `Multiplexer.cpp:85`: "Job is running, wait for it to finish". end_job() sleeps on the condition of allocate_job() and
  close(), and finished_job() signals one sleeper: with another thread in end_job(), or main in close(), the
  signal may go to the wrong one, and end_job() waits for a job that has ended (`MuxSwallowed.cfg`; `EndJobAwaitsRun`).
- `Multiplexer.h:9`: from Purge a job goes to "(Delete job)". end_job() can mark a job Purge between spin()'s
  unlocked ready() and allocate_job(), which overwrites the mark: the job runs again and the caller waits on
  (`MuxSwallowed.cfg`; `PurgeIsFinal`).
- `Job.h:82`: run() returns true to remove the job. When the last descriptor job ends in a pool thread, spin()
  returns before its purge, always (`MuxLive.cfg` with one job; `PurgedIsDeleted`).
- `MessageStream.cpp:106` asserts that a message which closes has been read; a POST that is
  refused (a file, an unknown host) has not, and its body is then parsed as the next request on the
  connection (`Http.cfg`, `AssertionsHold`). `ClientReads`, `InputStaysAligned`, `NextAfterWhole` and
  `RequestsAnswered` are therefore stated for connections where no assertion has failed and no
  write that nobody repeats has been cut short (`Clean`): the head of a chunk and the last chunk
  are written so (`MessageStream.cpp:112`, `:193`), and a header that is still in its buffer
  at Closing (`:99`).
- `Logger.cpp:516` explains when log_entry() is protected; a mode change between the two unlocked tests
  of m_thread defeats it (`LoggerConsole.cfg`; `OneInLogEntry`). It takes a console that calls
  set_async() while pool threads log; set_async() from the configuration and from close() is safe (proved).
- `Process.cpp:631`: "Initialise the stat entry if not already there". The handler may run between that lookup
  and the store, which then replaces Terminated by Running: get_exitcode() never says that the program has ended, and a
  build step or a script waits for ever (`ProcessExitLost.cfg`; `EveryExitIsKept`). Between the test and the store of
  DetatchPid (`Process.cpp:533`) it leaves an entry "Detatched" of a child that is gone; the next child with this process id
  inherits it, its end is forgotten, and the one after that is told an old exit code while it runs. `AnswersAreOwn` and
  `ExitIsKept` except the process ids where the handler came there (`torn`).
- `Document.h:77`: "Close the document if it isn't being processed". purge() asks under the mutex and closes after it has released
  it (`SitePurge.cfg`; `PurgeSparesReaders`).
- `testbuilder.conf:7`: "Set the maximum number of builds to run at once". set_max_running() writes the limit in the
  middle of a pass, and a later build is let in by a count of the earlier ones only: more run than any
  limit ever allowed (`BuildsTorn.cfg` with three builds of one step, `MaxMax = 2` and `MaxCrashes = 0`; `NeverMoreThanLargest`).
- `Build.h:52`: "Save build's current state". It is one write for the header and one for each step (`Build.cpp:108-134`); when the
  server dies in the first of these saves, the next run loads a build with fewer steps, or none, and passes
  it without their programs (`BuildsTorn.cfg`; `PassedHasRunAll`).
- `Build.h:61`: "Remove the build". A build that is removed comes back with the next start of the server: its remove script runs as
  user 0, for whom the proxy launches nothing, and remove_build() does not ask (`BuildsTorn.cfg`; `RemovedIsGone`).
- `BuildStep.cpp:81`: "Notify the process stream". The step's destructor resets the stream's m_step, but the handler may have tested
  it already, without m_process_mutex (`BuildProcessStream.cpp:57`), and then calls a step that has been deleted
  (`BuildsTorn.cfg`; `NoCallOnDeleted`).

Of the script engine (`Script.cfg` with `Scripts <- ShortedScripts`, `RecursionScripts` or `BarScripts` for the first three, else with the
script named added to `MCScripts`; `RunsAsWritten`):

- `ScriptExpr.cpp:262` and `:269`, "don't exec rhs": the right operand is evaluated with exec FALSE, which leaves out calls and unary
  operators but not binary ones, so that `0 && (x = 5)` assigns; `0 && (!x || y)` uses a null reference. Then expression()
  returns, and the operators that follow in the same brackets are dropped: `0 && a || b` is 0, `(a || b || c)` with a true `a`
  is NULL and `f(a || b, c)` with a true `a` is a bad argument list.
- `ChangeLog:147` has recursion of subroutines fixed: each call has its own variables, but all calls share the ScriptExpr
  of the subroutine's tracer, and what follows a recursive call in its expression is lost (`f(n - 1) + n`); `n + f(n - 1)` works.
- `test/sconescript/short.test:14` expects `|` and `&` to leave out their right operand ("f() should not be called"); they are BitOr and
  BitAnd, which evaluate both, and so the reference has it (`BarScripts`; `CallsAsTested`).
- `ScriptTypes.h:463`: "NULL is returned if the specified argument does not exist". ScriptList::get() advances an iterator
  behind the end of a std::list, where the behaviour is undefined; the lists of the usual libraries are rings, so that a
  subroutine with three parameters that is called with one argument gets it again as the third (`Arg`, which both the
  model and the reference use).
- An empty `[]` or `{}` leaves a null reference on m_stack (`ScriptExpr.cpp:404`, `:430`): inside the arguments of a call it
  is one more argument, so that `m.set("k", [])` says that no name was given and `l.push([])` uses a null pointer.
  `[1, g()]`, with a g that returns nothing, is an empty list. Of two equal keys in a map the first wins (the items are taken
  from the top of the stack).
- On strings `<` and `>` compare, but `<=` and `>=` are those of every object and compare whether they are empty. push()
  copies, set() of a map does not.
- A sub statement gives its body away: one that is run twice (in a loop) defines a subroutine without a body the second time.
- `ScriptTypes.cpp:552`: `/=` does not check for zero, as `/` and `%` do.
- ConfigFile::load() sends Readable once. If the file is longer than the buffer and its last read holds only white space, tokenize()
  answers Wait, not End, and a statement that is still open (an `if` whose `else` might come) is never run.
- An `if` or a declaration is open until the next token, and is run together with the statement that this begins. If the first gives an error (or is a
  `return`), ScriptStatementGroup::run() stops there, and the second is cleared without having run.

## What is proved

The proof modules hold for every value of the constants that satisfies the named assumptions.

**`MultiplexerProofs`** (`ConstantsAssumption`: Threads finite, the special values distinct). `IInv` is
inductive: `LockInv` says who owns m_job_mutex from the place in the code; `MainInv` and `ThreadInv`
say which list each thread is in and which job main has in hand, by place; `UnheardInv` says that a thread which sleeps, or does not
listen yet, with a job was handed it before it listened; `HandsInv` says that a job in
somebody's hands is in m_jobs, marked Run and in no other hands, and that a job marked Run is in hands
unless it may throw; `CloseInv` says what close() has waited for. `OneRunner` alone is not
inductive: that allocate_job() never meets a job already being run needs that the job it looks at is
not marked Run, although it was read without the lock, and that holds because only main marks
jobs Run. From `IInv` follow `TypeCorrect`, `OneRunnerAlways`,
`NoJobStrandedAlways`, `AllocFindsIdleAlways` and `CloseIsQuietAlways`, with faults.
`Refinement` (Spec implements `JobLifecycle`) holds when `EndCallers = {}` and `Throwers = {}`; the
`PurgeIsFinal` above shows that the first condition is needed.

**`RWLockProofs`** (`LockersAssumption`: finitely many lockers). `IInv` ties the counters to the
lockers: m_readers is the number of readers, m_writing is set exactly when one writes, and whoever
sleeps has a reason in the counters or a woken writer ahead of it. `Effect` sums up what any
step does, and gives `TypeCorrect`, `OneWriterAlways`, `SleepersAreAwaitedAlways` and
`Refinement` (implements `SharedLock`).

**`LoggerProofs`** (`LoggerAssumption`; the theorems assume `Admins = {}`: set_async() is called by the
main thread, from the configuration and from close(); with a console's set_async() `OneInLogEntry` fails, see above). `ThreadInv` and `PhaseInv` say that a log
thread which is alive is the one in m_thread, and when there can be one; `ProcessInv` says who
is in process_queue(): the log thread, without the mutex, or with it one of the
others while there is no log thread; `OrderInv` says that what is written, what is in hand and the queue
are consecutive; `DrainInv` says that without a log thread somebody is on the way to a queue that is
not empty. Between a caller's two tests of m_thread it cannot become non-null: the configuration
starts the log thread before there are pool threads, and close(), which runs beside them, only takes
it away; pool threads that have seen it call wakeup() and no more.
From `IInv` follow `TypeCorrect`, `OneInLogEntryAlways`, `SyncLeavesNothingAlways` and `Refinement`
(implements `OrderedLog`).

**`ModuleLifecycleProofs`** (`ModuleAssumption`: finitely many loaders and threads, the special values distinct, the files a
sequence of names). `NeverFreed`: whoever holds a reference to a module got it from get_module() under the
loader's mutex, or copied it from one that exists; unload_module() counts and deletes under the same mutex, and so the
count that it sees is that of the deletion. No more is needed than that the variables are functions (`IInv`).

`ConfiguredFirst` needs to know much more (`CInv`), as a module that is being configured is in m_modules, has an m_module, and
can be closed, removed and replaced by whoever finds it. The calls of a process are numbered from the bottom of its stack.
`Calling` says which call may be on top of which: a process either loads or closes modules, never both at once. `Configured` and
`Relies` tie the stacks to the rest: a module is new exactly while the process that owns its mutex has its
configuration on the stack, a call of get_module() is on a loader that is in the kernel's list, or in the list of the
module whose script inserts it, a close() has left the loaders that are still in the list. `Lists`: a loader is in one list, and once. From
these, the one administrator (`OneAdmin`) and the phases of Kernel::run (`Phases`) follows that nobody closes,
removes or replaces a loader whose configuration runs (`ClosedApart`, `InsertApart`, `RmmodApart`); so `new` ends only with the
configuration, and whoever is given the reference then is the owner of the mutex or comes after it. A job has no call under way when it stores its reference,
and so owns no mutex. The proof has one lemma per action, and the frames of the stacks that a step leaves alone are dealt with once
(`StayingCalls`, `SoundKept`, `ConfiguredKept`).

**`SiteRequestsProofs`**: `KeptForAll` and `LockedByOneForAll`. A request that has a session holds a reference from
lookup_session() or new_session(), taken under m_mutex, which check_sessions() holds to its end; lock and unlock pair up
along every way through send_response(), the ones with an exception included. `PagesAreFresh` assumes nothing of when files change. The
version that a page may not be older than is `since`: that of the file when the open() was called that the request relies on, its
own or, if it waited in spin(), the one it waited for. `Dated` says that a tree is not older than its m_modtime, and that neither
m_modtime nor `asof` is ahead of the file; `OneOpens` that one request opens a document at a time; `Knows` what a request has found out
at each point of open(): a tree that has been opened is not older than `since`, or there is none. A request that waits has nothing in
its own hands, and what it relies on is `Found`: as long as the document is being opened, either its file is still to be
looked at, which is later than the moment of `asof`, or the tree is as new already. A tree that open() or purge() frees under the
walk of another only ever makes room for a newer one.

**`WebProofs`** is about the two things that a browser talks to, the test builder and the http server; neither half uses the
other, and the names in `HttpConnection` begin with Http where both would have them.
Of `TestBuilder` (`BuilderAssumption`: the builds are finitely many). `MemoryInv` says of each build what its
state and its steps tell of its programs: the steps before the one that runs have passed, and so have ended with
exit code 0, the ones behind it are unstarted, and a program that lives is that of a running step of a listed build, whose
stream will tell it; `FileInv` says the same of the state file, whichever of its writes have been made: a step that it says has passed
has ended with code 0, a program was only ever started when the file said that the steps before it had passed, and
steps are missing only while the first save goes on, or for ever when it was cut (`torn`). `AgreeInv` ties the two: a step that has passed in
memory has passed in the file, unless the worker has yet to come to its write (`Lags`). From these follow `NoProgramLeft`, and
`PassedHasSucceeded` for every build whose first save was not cut. `LimitIsKept`: as the worker goes
over the list in order and a build behind it is not running unless those before it were let in (`InOrder`), what it
has counted (`Counted`) is all that run; both are lost when the limit is set in the middle of a pass and come back
with a pass that begins with nothing running (`moved`).

Of `HttpConnection` (`HttpAssumption`): `ClientAlwaysReads`, `InputAlwaysAligned` and `NextAlwaysAfterWhole`, for any number of requests
of any kinds, in any pieces, with any number of short writes and locked sessions. The hypothesis
`KindsAreGood` leaves out what the code does not answer by the protocol: two empty lines before a request, HEAD of
anything but a status without a body, GET of an empty file. Each part is needed: with one such kind in
the instance TLC finds `InputStaysAligned` (the first) or `ClientReads` (the others) violated. None of the three
properties is inductive: a client that can read the output so far says nothing of what the message is
going to write, and a message with the right number nothing of the bytes behind it. `HttpInv` adds four things. `ChainOK`: which streams
there are, which are open, and where dispatch() is with them; it makes the events of `Descriptor` those of
http:connection, http:message, http:response and one stream above. `MsgOK`: what the members of the message
and of the response say of each other, by the kind of the request (a header that is still buffered has nothing written behind it, a chunk that is open is
that of the data to come). `InputOK`: the units in the line buffer, on the wire and still to be sent follow each other without a gap
(`Follows`), and the first of them is the one that http:connection or http:message expects next (`Aligned`).
`OutputOK`: the client is exactly as far in the response as the message has written (`Tracks`), and when the message has gone it
has all of it, or all but the end of the connection, which ends the response (`Complete`). The properties, and so the last two parts,
assume that no write that nobody repeats has been cut and that the assertions of `MessageStream.cpp:106` held of
every message that has closed (`Clean`); that they do is not proved, since they fail of a POST that is refused
with its body unread.

**`ChannelProofs`** is about what a datagram channel is made of, the descriptor and the transfer; neither half uses the other, and the
names in `TftpServer` begin with Tftp where both would have them.
Of `Descriptor` (`StreamsAssumption`): `OpensFromBelow` and `EventsReachTheLiving`, for any number of streams and whatever
their handlers do. Neither is inductive. While a pass that sends Opening goes up the list, the stream it is on has only
open streams below it (`BelowAreOpen`), and that stays so because a stream which has been asked is open, or is taken out,
or stops the pass (`AskedIsOpen`): the three answers that dispatch() tells apart at `Descriptor.cpp:456-486`. That an event never goes to a
deleted stream needs that the iterator is on a stream of the list (`IteratorIsListed`), whatever was added or taken out before; in the closing
sequence that is so because it takes streams only off the top (`ClosingFromTop`) and a handler that adds one
ends it. `AppendListed` and `EraseListed` say what append and erase make of a list that holds each stream once.

Of `TftpServer` (`TftpAssumption`): `TransfersAreWhole`. The network may keep a packet for as long as it likes, so the invariant
says of every packet, on its way or in a buffer, what stays true of it: an ACK is of a piece that was written, or that the
disk failed at, and a piece has its own number, or is what a failed read has made of it (`FromClient`, `FromServer`;
`TransfersInStep`). The disk may fail at any piece (`spoilt`), and the theorem claims the others. Then a stream that takes a piece with the number it awaits takes the next
piece, whoever repeated it (`InStep`), and likewise the client (`ClientInStep`). That a file has at most 65535 pieces is
needed: the block number is an unsigned short, and behind it an old packet would be taken for a new one.

**`ProcessProxyProofs`** (`ProcessAssumption`): `OwnAnswers` and `ExitsAreKept`, with a handler that may come between any two steps. What
is in m_stats of a child is claimed unless the handler once came between a lookup of its process id and the store (`Torn`); that
the pids, programs and passwords are one's own needs no such exception, as m_stats has no part in it. `LineIsKept` is the invariant.
`Line` says what is on the socket: before the
packets of the holder of the mutex there are only last packets of deleted objects, which nobody waits for; from how
many of its packets the proxy has taken (`Taken`) follows the command it has collected, and when all are taken there is one answer or one
is being made. `Left` says that a child is on its way out once only, and `Children` what an entry of m_stats says of its
child, and that it is there as long as somebody can ask: an object, the launch that started it or its last packet
(`Owned`). So a process id that the system gives again has no entry, and the answer to a launch is of a new child.

Only model-checked: all liveness (`ShutdownCompletes`, `AllGetIn`, `CloseEnds`,
`StreamsOpen`, `ClosingEnds`, `RequestsAnswered`, `AnswersCome`, `BuildsEnd`, `TransfersEnd`), which is outside the prover.
`DirLoadsAll` and `ClosesAll` say what the rounds over the files and the attempts of close() achieve for the dependencies and scripts of
the instance: the first compares with a least fixed point, the second counts attempts (2, of the 10 in the code), whose
number depends on the sub-modules of the instance. The script engine, which is recursive: an induction over a number or the length
of a sequence can be had from the least counterexample (`WebProofs` does so), what a recursive definition computes cannot. The type invariants of the modules are
proved with the rest where there are proofs.

## Not modelled

The table of components in `PROJECT.json` gives the reason for each part. The hazards without
a property are undefined behaviour that a model can
name but not explore (a loader or a tree used after it was deleted), or one of the known divergences. Hazards left out
of `PROJECT.json`, by part.

Scheduler and descriptors: `Mutex.cpp:128` may form a tv_nsec of 10^9 (the wait then fails and counts as a timeout);
`Mutex.cpp:171` and `:185`, a loop and a counter that `IsSharedLock` covers;
`Multiplexer.cpp:84` uses a Job pointer after the list lock was released in a wait; `Job.cpp:130`, the
next period of a job whose time came while it was not waiting; `Thread.cpp:62`, a thread that could
not be created (in `mux_safety`); `Descriptor.cpp:164`,
a function without callers; `Descriptor.cpp:317`, a loop that handlers could keep busy; `Descriptor.cpp:481`, open_wait reads the events of a stream that was just deleted (a choice in the model, `OpenedFromBelow`);
`Descriptor.cpp:474`, a stream that answers Wait to Readable with data in its buffer does not stop the
event for those above, which `Stream.h:101-103` says (the model has it so, and no handler
modelled relies on the other); `Descriptor.cpp:517`, a handler that adds a stream at Closing and answers Ok.

Of HTTP: multipart bodies and JSON bodies, PartialResponseStream, WebSocket, gzip, the client, authorization, how
sessions are found; what the code reads and the configuration says is in `Kinds`.

Of modules and sconesite: load_module_dir() reports modules that were loaded lazily as failed (`Module.cpp:484`); two requests that
miss the article cache both load the article, and the reference that is replaced is never deleted (`Profile.cpp:740`); the
purge of the cache increments an iterator it has erased (`Profile.cpp:472`), and lookup_article() goes on with an
iterator of the cache after it has released the lock (`:203`); create_article() leaves its directory when the
database refuses the row, and the name is then taken; a file that is gone closes the document, but open() still answers
that it is open (`Document.cpp:262`).

Of processes and builds: the handler changes a std::map that the proxy may be in the middle of changing; a program's death by a
signal is exit code 0 (`Process.cpp:439`), so that its build step passes (in `TestBuilder` such a program is among those that end with code 0); the child of init() keeps the server's end of the
socket (`Process.cpp:784`), so that the server waits for ever for an answer of a proxy that has died; the arguments of a
command are not counted (m_exec_args); stop() of the worker does nothing, as it never calls await_wakeup(), and a second start()
makes a second worker; build ids are seconds (`Build.cpp:50`).

Of datagrams and tftp: m_channels is read by the listener's thread while the purge in the main thread erases from it
(`DatagramMultiplexer.cpp:55`); an empty or failed read leaves the packet uninitialised (`DatagramMultiplexer.cpp:53`); when a channel is
refused its datagram is given to the deleted object (`:66`); lost DATA is never sent again by the server, and repeated DATA is answered with an error; a late copy of
a write request empties the file that was written; the Writeable event of a channel is always set, so that its job is
always due (`DatagramChannel.cpp:42`); ConnectionChain::connect() goes over nodes that a script may remove (`server/ConnectionChain.cpp:55`).

Of the stream library: StreamBuffer::write() after a partial write of its buffer lets the rest of the next data overtake what
is still buffered.
