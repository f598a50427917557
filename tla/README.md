# Verification of the concurrent machinery of microsoft-ui-xaml

This directory models the part of WinUI (`src/src/dxaml/xcp`) in which threads meet:
the scheduler that turns requests into frames, the render thread that paces them,
the dispatcher that brings messages onto the UI thread, the job queue that takes work
off it, the downloads that run on that queue, and the decoding and caching of
images. The rest (properties, layout, text, parsing, controls) is
large, but runs on one thread and is better served by tests.

File names below are relative to `src/src/dxaml/xcp`.

## 1. Inventory

### The parts and how they interact

```
 any thread                UI thread                               render thread
 ----------                ---------                               -------------
 download or media   core: layout, Draw, EnableRender
     |                 |        ^
     | RequestAdditionalFrame   | OnTick
     v                 v        |
   UIThreadScheduler <-- BeginTick/EndTick          CompositorScheduler::RenderThreadMain
     |   ^  shares RefreshAlignedClock -------------------+   |
     |   +---- GetScheduledInterval, QueueTick -----------+   |
     +-------- WakeCompositionThread (event) -----------> wait
                                ^                             |
                        CXcpDispatcher <---- WM_INTERNAL_TICK -+
                          queue, timer, guard, pauses
                                ^
                                |  WM_DOWNLOAD_ASYNC_REQUESTS, Execute (posted)
   +----------------------------+---------------------------+
   |                                                        |
 downloads: UI thread queues and starts requests,     ImageTaskDispatcher: results and
 worker of ThreadedJobQueue runs them and answers,    notices for the UI thread
 pool thread aborts them                                    ^
   |                                                        |
   +--> ImageCache (UI thread) --> AsyncImageDecoder (work items and timers of the pool)
```

| component | source | state | operations | what makes it hard |
|---|---|---|---|---|
| RefreshAlignedClock | `core/compositor/RefreshAlignedClock.cpp` | last reported time | Tick, GetLastTickTime, GetNextTickTime | readings of the platform clock can go back; truncation to milliseconds |
| UIThreadScheduler | `core/compositor/UIThreadScheduler.cpp` | state, interval to the next tick, time of the last tick, priority | RequestAdditionalFrame, BeginTick, EndTick, QueueTick, GetScheduledInterval | shared by two or more threads under one lock, with parts outside it; wake-ups sent only in some states; a post that fails after the state changed |
| CompositorScheduler | `core/compositor/compositorscheduler.cpp` | registration, wake event, saved error, shutdown flag, pending render-state command | Startup, RenderThreadMain, WakeCompositionThread, OnRenderStateChanged, Unregister, Shutdown | sleep against wake, teardown against use, commands that wake nobody |
| frame loop of the UI thread | `control/common/shared/CommonBrowserHost.hpp`, `host/win/browserdesktop/WinBrowserHost.cpp`, `core/compositor/windowrendertarget.cpp`, `core/dll/xcpcore.cpp` | render target, render-enabled and its change flag, ticks enabled | CreateRenderTarget, OnTick, Draw, EnableRender, SetTicksEnabled, CleanupRenderTarget | early returns half way through a tick; drops that have to be made up for |
| XcpDispatcher | `win/shared/xcpwindow.cpp`, `win/inc/xcpwindow.h`, `inc/ReentrancyGuard.h` | deferred-invoke queue, timer, state, guard | QueueDeferredInvoke, timer callback, SendMessage, ProcessMessage, PauseNewDispatch, Drain, Stop | reentrancy: handlers that pump, nested scopes that set and do not count, posts from any thread |
| ThreadedJobQueue | `components/threading/ThreadedJobQueue.cpp` | job queue, keep-alive count, generations of a worker | QueueJob, GetDeferral, worker loop, destructor | a worker that ends by itself while work arrives; a count read unlocked; a destructor that waits |
| Download requests | `host/win/browserdesktop/windwnreq.cpp`, `WinBrowserHost.cpp`, `control/common/shared/AsyncDownloadRequestManager.cpp` (and `DownloadRequest.cpp`, `AbortableAsyncDownload.cpp`), `control/download/download.cpp` | queue of requests; a request's callback, binding, deferral and flags; reference counts | CreateDownloadRequest, DownloadRequests, Abort, callbacks of urlmon, tear-down | three threads hold references to the same objects, and whoever lets go last destroys them; aborts race callbacks |
| AsyncImageDecoder | `components/imaging/AsyncImageDecoder.cpp` | frame, loop, parameters, decode in progress, timer, result, flags, all under one mutex | SetDecodeParams, Play, Stop, Suspend, Resume, decode, present | results of work started for something else; a timer that is cancelled while its handler waits |
| ImageTaskDispatcher | `components/imaging/ImageTaskDispatcher.cpp` | tasks, flag of the queued callback, shutdown | QueueTask, Execute, Shutdown | a flag set and cleared outside the lock; tasks that queue tasks; a read without the lock |
| ImageCache | `components/imaging/ImageCache.cpp`, `ImageDecodeRequest.cpp` | download state, two lists of requests, cached surfaces | GetImage, ProcessDecodeRequests, HandleDecodeResponse, release of a request | callbacks that release, make or change requests while their list is being walked, and callbacks that fail; requests that rely on the decode of another |
| DXamlCore lifetime | `dxaml/lib/DXamlCore.cpp`, `WindowsXamlManager_Partial.cpp` | core state | Initialize, Idle, Deinitialize | messages left over between lives |
| Peers and reference tracking | `components/lifetime` | object graph, peer states | walk with the garbage collector | two collectors and finalizers |
| Controls (`src/src/controls/dev`) | one directory each | visual and interaction states | | single-threaded; rarely more than a few states |

What makes each correct, and the hazards the properties are for, line by line, are in
`PROJECT.json` ("hazards"). In short:

- *frames*: ticks come one at a time and only when asked for; a request is served at
  its time and neither postponed, slept through nor forgotten; nobody uses what
  teardown has taken; teardown comes to an end; the render state both threads
  believe in is the same.
- *dispatcher*: whatever is posted is dispatched once, unless the dispatcher stops;
  the reentrancy guard is taken exactly while it should be; a pause holds while it is
  in scope; the drain leaves nothing behind.
- *job queue*: one runner; a queued job is seen; jobs begin in order, each once; a
  deferral keeps the thread; an unwanted thread ends; the destructor returns and
  leaves nobody in the object.
- *downloads*: a client is answered once and not after its abort; deferrals are gone
  before the queue is; every request ends and is freed.
- *images*: frames are presented in order and under the parameters they were decoded for;
  what is owed is presented; no task is stranded between threads; the cache's lists
  hold nobody who is gone, and everybody who asked is answered.

## 2. Modules

| module | models | reads as |
|---|---|---|
| `RefreshAlignedClock` | the shared clock | Tick, NextTickTime; `Readings` is the platform clock, which may lag by `MaxSkew` |
| `UIThreadScheduler` (extends it) | the shared scheduler | one operator per critical section of `m_NextTickLock`; BeginTick is split where the code reads the clock before it locks, QueueTick where it posts after it |
| `CompositorScheduler` (extends it) | the render thread | `renderPc` walks `RenderThreadFrame`; the two locks it holds are ranges of `renderPc` |
| `FrameLoop` (extends it) | the UI thread, other threads' requests, time | `uiPc` walks start-up, OnTick and clean-up; `Spec` and `FairSpec` are the whole frame system |
| `FrameService` | what the frame system promises | three variables, six actions, no threads |
| `FrameLoopRefinement` | FrameLoop implements FrameService | `INSTANCE ... WITH phase <- uiState`, `wanted <- HasRequestedAdditionalFrame`, `alive <- registered` |
| `FrameLoop_proofs` | proofs about FrameLoop | lemmas on the scheduler's operators, the inductive invariant, the theorems |
| `XcpDispatcher` | the dispatcher | the UI thread is a `stack` of frames: handlers, scopes, modal loops, the drain |
| `XcpDispatcher_proofs` | proofs about XcpDispatcher | what the shape of the stack says about guard, state and trigger |
| `JobService` | what the job queue promises | one thread, jobs, deferrals; no generations, events or waits |
| `ThreadedJobQueue` | the job queue | `pc[worker]` walks `ThreadCallback`, one worker for each generation; refines JobService |
| `ThreadedJobQueue_proofs` | proofs about ThreadedJobQueue | the inductive invariant, the order of jobs, the refinement |
| `Downloads` | requests on the UI thread, the worker and the pool | references are sets of their holders; the last to let go destroys; composed with JobService |
| `Downloads_proofs` | proofs about Downloads | what each reference and each flag of a request says about the others |
| `AsyncImageDecoder` | the decoder | operators, no variables: each takes the shared state and what the platform does to the next state |
| `ImageDecoding` (extends it) | one decoder with the pool that runs its work and the owner that calls it | an action per call, work item and timer |
| `ImageDecoding_proofs` | proofs about ImageDecoding | each operation keeps what a good state is |
| `TaskQueue` | what the task dispatcher promises | queue, fate of each task, open or not; no threads |
| `ImageTaskDispatcher` | the task dispatcher | `pc[th]` walks QueueTask, `step` walks Execute; refines TaskQueue |
| `ImageTaskDispatcher_proofs` | proofs about it | the inductive invariant, and the refinement |
| `ImageCache` | the cache of one image, its requests and their decoders | composes `D == INSTANCE AsyncImageDecoder` and the Put of `TaskQueue` |
| `ImageCache_proofs` | proofs about ImageCache | which request is listed where, what the loops hold, whose each decoder is |
| `MCImageTasks`, `MCImageCache` | instances for TLC | which tasks answer which request; first parameters of each request |

State and code correspond as the comment after each VARIABLE says; every
definition that stands for code is listed with its lines in `PROJECT.json` ("map").
Operators commented "Mutant of ..." are plausible bugs. They are used only to
check that each property would notice one.

### How the frame system is cut into steps

A step is what one thread does under one lock, or between two. The render thread
holds the draw-lists lock from reading the clock to running its commands, and within
it the registration lock while it talks to the UI thread's scheduler; `m_NextTickLock` is
taken within both, so each of its sections is a step of its own: asking for the
interval (`RenderAsk`), deciding to queue (`RenderQueue`), posting (`RenderPost`, which
happens after the lock is released and can fail). The wait is a step to sleep and
three ways out: event, timeout, and (through `ShutdownWake`) the event of the shutdown. A
timeout may come at any time, early or late, as timers of the system may.

On the UI thread, BeginTick writes the time of the last tick before it takes the lock
(`DispatchTick`), then changes state (`BeginTickLocked`); a tick that is skipped
because ticks are off still begins and ends. Draw can find the render thread's
saved error, can submit or decide it has nothing to submit, and can fail before or
after. When it fails OnTick leaves without EndTick. The error then goes to
the application's handler; the model follows the case that the handler takes it
(otherwise the process fails fast, which ends the behaviour).

Time is a number of units, `Sub` of which make a millisecond, so that truncations are
visible; `Infinite` plays the largest 32-bit number, and the interval arithmetic is done
modulo `Infinite + 1`.

### The dispatcher

The queue is a sequence of message kinds, told apart only by what ProcessMessage
does with them: ticks, protected work, work that pauses dispatching, asynchronous
callbacks. The first thread to find the queue empty owes the timer a start, which
happens after the lock is released (`Post`, `StartTimer`). The timer is one-shot and its
callback is let in by whatever pumps on the UI thread: its loop, a handler, a modal
loop. Frames remember what the code keeps in locals: the guard's previous value,
`hasMoreWork`, how the message came.

### The job queue

A generation is a thread with its own interrupt event. `current` is the one
`m_jobThread` and `m_threadInterrupt` belong to; an earlier one may still be on its way
out. `idle` abstracts the clock: whether a second has passed since `m_lastJobTime`.
The read of `m_keepAliveCount` at line 326 is outside the lock. The model lets
it return the present value or the one that was read under the lock, which the compiler
may reuse. Jobs and pumped messages may queue jobs and take or release
deferrals; other threads too, while the object lives. The owner keeps the contract of
`ThreadedJobQueue.h:76-79`: all deferrals are gone when it destroys the queue, and it
does so on another thread than the worker's (see the hazards for where that may fail).

### Downloads

A reference count is the set of those who refer: `refs[r]` to a request (the job, urlmon,
the client's handle, a work item that aborts it), `holders` to the downloader (the host, each
queue entry, each request until it has answered). `Release` and `LetGo` do what the last
reference does, on the thread that drops it. urlmon is external and modelled by the order of its
calls: GetBindInfo and OnStartBinding within the job that binds (comment at
`windwnreq.cpp:484-487`), OnStopBinding once, and then it lets go. OnStopBinding is two
steps, since it holds `m_asyncMutex` while it answers and an abort has to wait for it. A binding
is ended by an abort of the client or by OnProgress and OnDataAvailable themselves
(`GiveUp`). An abort goes to the pool, unless the core is being destroyed; without a host
it does nothing. Between Deinit and the end of the host nothing is
dispatched. Of the job queue only what `JobService` says is used: jobs run in
order on one thread, the thread stays while a deferral is held, and the destructor waits for it.
`JobService` is the contract between the two: `ThreadedJobQueue` implements it
(`ImplementsJobService`), and the downloads with the queue as they take it behave as it allows
(`KeepsToJobService`). There `given` is the requests that were started (`WasStarted`),
`deferrals` the requests that hold one, and the thread is taken to be there for as long as the queue is.
A job that takes the queue along on its own thread never ends: the worker waits for itself.

### Images

The decoder keeps everything its threads share under one mutex, so each of its operations
is a function on that state, and the interleaving is of operations, not of parts of them. What
the platform does (whether RunAsync, CreateTimer, OnDecode succeed, whether the frame can be
decoded, which timer is created) is the second argument, `Outcomes`. A cancelled timer stays
in `elapsing`: its handler may be waiting for the mutex, and only the comparison of
timers makes it harmless. ASSERTs are recorded in `asserts`, failures of the platform in `failed`.

The task dispatcher is cut at each lock and each interlocked operation, because the flag
`m_hasCallbackQueued` is used outside the lock; `m_shuttingdown` is read without it. `fate`
says what has become of a task: superseded by one for the same request, run, or dropped.

The cache runs on the UI thread, but its callbacks call back into it. So the loop of
ProcessDecodeRequests (`processing`), that of HandleDecodeResponse (`walk`, whose iterator is
at `walk.at`) and the callback in progress (`called`) are the stack, and steps are the stretches
between two calls. `Answer` and `Notify` call the callback of a request. Until it returns, every
call of the image sources can happen (`MayCall`), on any request: the one called, the one that completed,
one the loop has passed or has yet to come to. Requests are made (`GetImage`), given parameters
(`NewParams`, as `imagesource.cpp:3834` does in the callback, before the rest is compared with them),
lose their device, are disconnected or dropped (`Release`). The loops hold the request that is called and the one
that completed (`Held`): such a request is destroyed only when they let go of it (`LetGo`, `LeaveWalk`).

A callback succeeds or fails. An error ends the loop it came from: that of HandleDecodeResponse
before the others are told, before a failed request is erased and before the surface is cached
(`ImageCache.cpp:596`), and that of ProcessDecodeRequests (`:404`, `:432`, and `:596` when the
image could not be parsed) with requests still waiting and no task for them. `abandoned` remembers that until the
next trigger; a decoder that cannot be created does the same (`:513`). A callback that was given a failure and
succeeds has let go of its request, as `imagesource.cpp:807-810` and `:3781-3784` do.

The lists hold ids as the code's hold bare pointers; a request that is gone and still listed is
the use after free that `ListsAreSound` excludes. A decoder that was detached keeps its work item,
which answers to nobody. The tasks' order is that of `TaskQueue`, which the dispatcher is shown to implement.

## 3. What is checked

All runs are exhaustive over their bounds.

| run | asks | states, about |
|---|---|---|
| `frame_safety` | the two threads with requests from others, failures of posts and draws, ticks and rendering switched, teardown at any point: types, one tick in flight, the code's ASSERTs, no use after teardown, no lost wakeup, one render state, never early, never postponed, clock monotone, refinement step by step | 1.6 million |
| `frame_liveness` | the liveness of the abstract service is implemented (a request that comes due is served, a tick that is queued begins, one that begins ends), Shutdown returns, dropped ticks are made up for | 434 thousand |
| `dispatcher` | posts against handlers, pauses, exemptions, modal loops, drain and stop: work always has a trigger, the guard matches the handlers in progress, the drain is complete, everything posted is dispatched if modal loops end | 540 thousand |
| `job_queue` | jobs, deferrals, generations, inactivity, destruction: one runner, no job stranded, order, deferrals keep the thread, refinement of JobService step by step, and that jobs begin, inactive threads end and the destructor returns | 220 thousand |
| `downloads` | two requests, aborted from two threads, with posts and starts that fail and tear-down at any point: deferrals go first, the queue is used as JobService allows, one answer and none after an abort, requests end | 42 thousand |
| `image_decoder` | work items and timers against parameters, play, stop, suspend, resume and destruction: ASSERTs, order of presentation, what is owed is presented | 68 thousand |
| `image_tasks` | tasks from two pool threads and from tasks, passes, shutdown, posts that fail: a task has a callback, every task finishes, refinement of TaskQueue | 193 thousand |
| `image_cache` | requests made, released and given parameters at any time, also in the callbacks the two loops call; callbacks, downloads, decodes and decoders' creation that fail: types, lists are sound, those who wait are attended to unless a failure ended the loop, everybody whom nothing upset is answered | 597 thousand |

Runs that end in a violation, each the disagreement of the code with one of its own
comments or assertions:

| run | the code does | the comment or assertion says |
|---|---|---|
| `tick_never_ends` | a draw that fails leaves OnTick before EndTick; the state stays Ticking | "All requests dispatched while ticking are delayed until the transition to the waiting state" (`UIThreadScheduler.cpp:143`) |
| `downloader_dies` | the host lets go of the downloader while a request is in progress; the last reference goes on the worker, which destroys the queue it runs on and waits for itself | "ASSERT(m_mainThreadId == GetCurrentThreadId())" (`control/download/download.cpp:106`) |
| `waiter_forgotten` | a request waits for the decode of another with equal parameters; that one is given new ones, and nobody decodes for the first | "start a new decode or wait for an already existing decode to complete if it matches the decode parameters" (`ImageCache.cpp:441-442`) |
| `stale_surface` | the surface of an answer is cached under the parameters its request has by then | "one DecodedImageCache for each pixel format/decode width/decode height combination" (`inc/ImageCache.h:40-41`) |

Seen while modelling, and left without a run of their own:

- A post of a tick that fails leaves the state TickQueued with no tick to come
  (`UIThreadScheduler.cpp:308`); the properties of the frame loop say so ("unless its post
  failed"). A render-state command given to an idle render thread wakes nobody
  (`compositorscheduler.cpp:514`) and waits for the next request for a frame.
- The end of an inner pause resumes dispatching under the outer one, and a pause within the
  drain ends it as a state: the rest of the drain runs ticks, against "Skip ticks in the
  "Draining" state" (`xcpwindow.cpp:691`, `:1304`). A modal loop holds back the messages
  behind the handler that runs it.
- A task that is put after the UI thread has shut the dispatcher down is lost, although a
  comment says the flag is "only accessed from framework thread"
  (`ImageTaskDispatcher.cpp:106`); the core is going then. A pass that leaves tasks asks for a
  callback although one may be queued, which costs one empty pass. A post that fails leaves the flag set, and no callback is asked for again (`:67`).
- A stopped decoder suspended before its first frame does not present it when resumed
  (`AsyncImageDecoder.cpp:371`).
- A download whose message cannot be posted is reported as failed and stays in the queue
  (`AsyncDownloadRequestManager.cpp:196-212`). When a message does come, the request may be started all the same,
  and its client is answered in a state it does not expect (ASSERT at `ImageCache.cpp:258`).
  As a start that fails ends the loop (`:268`), the message of another request can be spent on it. `RequestsEnd` is stated
  up to such a post and does not catch it.
- A callback that fails in the loop over requests whose download failed leaves the others without an answer until
  something triggers the loop again, against "If download failed an error is returned to the callback"
  (`ImageCache.cpp:361`). One that fails in HandleDecodeResponse leaves those behind it in the list untold.
  `WaitingIsAttended` and `AnsweredUnlessUpset` name these failures as their exceptions.

### Bounds, and why they are enough

- Frame runs: the platform clock goes to `MaxTime` (4 for safety, with readings up to
  1 unit behind and 2 units to a millisecond), with intervals of 0, 1 and 2 ms. That
  gives requests that are immediate, due within a truncated millisecond, due
  after a wait, replaced by sooner ones, and two complete ticks between them. A run of
  `frame_safety` with `MaxTime = 5` (2.7 million states) found nothing else.
  `Infinite = 15` is far above every interval that occurs, as the 32-bit maximum is in the
  code; callers cannot reach the wrap, since timers clamp their intervals.
- Liveness of frames is asked for requests that come due before the clock of the model
  stops (`DueAfterTheClockStops` in `FrameLoopRefinement`); with `MaxTime = 3` these are immediate and delayed ones.
- Dispatcher: three posts, two calls or scopes, four frames. Three messages are needed
  for one running, one that is behind it and one that arrives; the known failures need two scopes.
- Job queue: three jobs, two deferrals, three generations. There is one worker for each job,
  which is the most the jobs can create, so that bound never binds.
- Downloads: two requests. One is in its job or callback while the other is queued, aborted or
  holds the last reference; requests meet nowhere else. Three take minutes and add no new state of a request.
- Decoder: two sets of parameters, three frames (a first, a middle, a last one), two loops, two
  timers (the current and a cancelled one) and five calls.
- Tasks: four tasks, two of them for one request, three threads: two that race and the UI thread.
- Cache: three requests (the one that decodes, one that waits for it, one of another size that comes
  between), two sets of parameters, and `MaxCalls = 1`: one change of parameters, loss of a device,
  surface that goes, failure of a callback or of a decoder's creation (`MayFail`), or release of a request by somebody
  else than its own callback. Making a request and letting go of the called one are not counted, so
  each of these is combined with the others at any point of the loops. Larger runs found nothing else: two requests
  with three such calls (1.8 million states, with the temporal property), and three with two calls
  and no failures (13 million, the invariants). `waiter_forgotten` and `stale_surface` need two requests, one call and no failures.

Type invariants of the dispatcher, the job queue, the downloads, the decoder and the task dispatcher are
proved (section 4) and are not part of the runs.

Deadlock is checked in `frame_safety`, `dispatcher` and
`job_queue`; a system that has shut down stutters (`Closed`, `Ended`). `frame_liveness` and
the runs about images and downloads leave it to the temporal properties, which see a system that stops as one that
does not get there: a decoder that has shown its last frame, a cache that has answered and a host that is gone rest.

### Fairness, and why the code justifies it

- `FrameLoop`: weak fairness of each thread and of time. Threads are scheduled by the
  system. Neither waits for a lock for ever, because no lock is held across a wait but
  the throttle's for one vblank. Requests, toggles and teardown are not fair: nobody has to ask.
- `XcpDispatcher`: the timer's start and its callback on an idle thread, handlers that
  return, the drain, and Stop after it. A modal loop is not fair (a window can stay open
  for ever) and a timer callback inside a handler's pump is not either. The fair form of
  the property is therefore conditional on modal loops ending; the
  unconditional one is false.
- `ThreadedJobQueue`: every worker, the destructor's wait and time. Jobs end; messages are not
  fair, so nothing relies on one.
- `Downloads`: messages are dispatched, the worker runs jobs and urlmon calls back until it has
  stopped, work items run, and a client that has its answer lets go. Aborts, failures, new requests and
  tear-down are not fair.
- `ImageDecoding`: the thread pool runs work items and timers. Calls of the owner are not fair.
- `ImageTaskDispatcher`: posted callbacks are dispatched (`DispatchedIfModalLoopsEnd` of the dispatcher), passes go
  on, and a thread within QueueTask goes on. Queueing and shutting down are not fair.
- `ImageCache`: tasks are run (`TasksFinish`), loops go on, the network answers and work items run.
  Callbacks return; one that was given a failure lets go of its request on the way, or fails. Calls of the image
  sources are not fair otherwise.

## 4. What is proved

`FrameLoop_proofs` proves for every value of the constants (any clock bound and skew, any
resolution, any set of intervals, with and without failures and toggles), from the named
assumptions `ClockAssumption`, `SchedulerAssumption`, `CompositorAssumption` and
`FrameLoopAssumption`, which say no more than the types of the constants:

| theorem | says |
|---|---|
| `Invariance` | `Spec => []IInv` |
| `TypeCorrect`, `TicksComeOneAtATime`, `AssertionsAreSafe`, `TeardownIsSafe`, `NoWakeupIsLost` | `Spec => []` of TypeOK, OneTickInFlight, AssertionsHold, NoUseAfterTeardown, NoLostWakeup |
| `RequestsAreNeverPostponed`, `ClockIsMonotone` | the action properties NeverPostponed and ClockMonotone |
| `ThreadsImplementService` | `Spec => ImplementsService`: the refinement of FrameService |
| `RenderStateIsShared` | `Spec => []RenderStateAgrees`, with a strengthening of its own, `RenderStateInv` |
| `TicksAreNeverEarly` | the action property NeverEarly where `IntervalsFit`, with a strengthening of its own, `EarlyInv` |

The argument. None of the properties is inductive alone. That QueueTick finds a waiting UI
thread depends on nobody else queueing, which is OneTickInFlight; that a tick is pending
when the state is TickQueued depends on no request being dropped while it is queued;
that the post of a tick is never made by an unregistered scheduler depends on the
registration lock. So `IInv` is the conjunction of the properties with two parts that tie
the threads together: `Lifecycle` (how far each thread can be while the other is where it
is) and `Pending` (a tick about to be queued was asked for, and a failed post
blocks the scheduler for good). The wakeup invariant needs one lemma on arithmetic,
`WaitForRequest`: the interval the render thread is told is finite exactly when a
waiting UI thread wants a frame, and the truncated wait ends no later than the frame is
due. It needs another on requests, `RequestEffect`: a request only brings the next tick forward, and
sets the event if it does so while the UI thread waits. Given those, each of the
actions preserves each part by its definition. `RequestPreserves` does the four
actions that make requests at once.

NeverEarly needs a hypothesis on the constants, `IntervalsFit`: an interval and the time that can pass
are together within the 32 bits of milliseconds. Without it the sum of a request wraps around and
the tick comes at once; the timers of the callers keep their intervals far below that.
`EarlyInv` says why truncation does no harm: a pending request is due less than a millisecond before the
earliest of those made wants its frame, and a tick about to be queued less than one from now.
`TruncationLoss`, `TruncationMonotone` and `ScalingMonotone` are the arithmetic of it, `ConversionIsClose`
what it means for a request.

`ThreadedJobQueue_proofs` does the same for the job queue, from `JobQueueAssumption`, for
every finite set of jobs and any number of deferrals:

| theorem | says |
|---|---|
| `QueueInvariance` | `Spec => []QInv` |
| `QueueTypeCorrect`, `OneThreadRunsJobs`, `NoJobIsStranded`, `NoIdleWaitIsEndless`, `DestructionIsSafe` | `Spec => []` of TypeOK, SingleRunner, QueuedJobWillBeSeen, NoEndlessIdleWait, NoUseAfterDestruction |
| `JobsRunInOrder` | `Spec => []InOrderOnce`, with a strengthening of its own, `OrderInv` |
| `DeferralsKeepTheThread` | the action property DeferralKeepsThread |
| `WorkersImplementService` | `Spec => ImplementsJobService`: the refinement of JobService |

`QInv` strengthens the two properties about a sleeping worker to the moment it has found
the queue empty and released the lock (`JobSeen`, `IdleWait`): what is queued or
released from then on has to leave the event set, or the worker sleeps through it. `Ownership`
adds what the destructor relies on: the shutdown flag is its own, and once it has begun,
the worker reaches its wait with nothing left to run. `WorkerPreserves` takes the steps
of the worker one by one, `CallPreserves` those of everybody else. `OrderInv` says where each job
that was ever queued is: begun, then in the queue, in one order.

In the refinement the generations become one thread. Which job it runs is well defined because
of SingleRunner (`RunningWorker`, `NobodyRuns`); that it goes away only with nothing queued
and no deferral held, the guard of Leave and End in `JobService`, is what JobSeen and Ownership give. Unlocked reads,
events and waits are steps that change nothing there (`WorkerStepMaps`, `CallMaps`).

`XcpDispatcher_proofs`, from `DispatcherAssumption`, for any numbers of messages, calls and
frames, with or without nested pauses and modal loops:

| theorem | says |
|---|---|
| `DispatcherTypeCorrect`, `QueuedWorkHasATrigger`, `GuardIsOfTheStack`, `SuspensionHasAScope`, `DrainIsComplete` | `DispatcherSpec => []` of DispatcherTypeOK, WorkHasATrigger, GuardMatchesStack, SuspendedOnlyInScope, DrainRunsAllWork |

That the guard matches the stack is not inductive: when a frame returns, what it restores has to
match the stack without it. So `GuardInv` asks it of every prefix of the stack. In the same way
the drain's promise is asked from the moment its last message is dispatched (`DrainInv`), which
needs `Shape`: the drain begins on an empty stack, and what it dispatches lies right above it.
All steps push a frame, change the top one or pop one; `PushPreserves` and `ReturnPreserves`
do the work for all kinds of frame at once.

`Downloads_proofs`, from `RequestsAssumption`, for any set of requests:

| theorem | says |
|---|---|
| `DownloadsTypeCorrect`, `DeferralsGoBeforeTheQueue` | `Spec => []` of TypeOK, DeferralsGoFirst |
| `AnsweredAtMostOnce` | the action property AnsweredOnce |
| `DownloadsUseTheService` | `Spec => KeepsToJobService`: the downloads, with the queue as they take it, behave as JobService |

`DLInv` ties the counts to the flags. `Bound`: urlmon refers to each request it works for, and
a request that is referred to and not dead refers to the downloader, so a deferral keeps the
downloader, and with it the queue. `Waiting` and `Jobs`: a request is in one queue at a time, and nobody
else knows it while it waits to be started. `Unanswered`: who still has a callback was
neither answered nor aborted. `ReleaseFacts` does the five steps that drop a reference to a request.

`DownloadsUseTheService` and `WorkersImplementService` meet in `JobService`: what the downloads take
for granted of the queue is what the queue is proved to do, and they never ask of it what the service does not allow.
`StartedInv` adds to DLInv that a queued job keeps the downloader and that a request somebody refers to
was started and is in no queue of requests any more. Most steps are `Quiet`: they change neither the queue, nor a deferral,
nor who was started. `StepKinds` sorts the steps, and `StepMaps` maps those that are left one by one.

`ImageDecoding_proofs`, from `DecoderAssumption` and `CallsAssumption`, for any numbers of
frames, loops, timers and calls, and whatever the platform fails at:

| theorem | says |
|---|---|
| `DecodingTypeCorrect`, `DecoderAssertionsHold`, `NoStaleResult` | `Spec => []` of TypeOK, AssertionsHold, ResultIsCurrent |
| `FramesInOrder` | the action property PresentsInOrder |

The proof is of operators: `Sound` is what the fields owe each other while the mutex is free,
and each operation takes a good state to a good one, the short ones first
(`CancelKeepsGood`, `SetupKeepsGood`), then those made of them. The step to the order of what is
presented needs only that the decoder's frame is the one shown, the next, or the first.

`ImageTaskDispatcher_proofs`, from `DispatcherAssumption`, for any tasks, requests and threads:

| theorem | says |
|---|---|
| `DispatcherInvariance`, `DispatcherTypeCorrect`, `NoTaskIsStranded` | `Spec => []` of DInv, TypeOK, TasksHaveACallback |
| `DispatcherImplementsQueue` | `Spec => ImplementsTaskQueue`: the refinement of TaskQueue |

That no task is stranded rests on the flag (`FlagMeansCallback`): when it is set a callback is on
its way, or a thread is about to post one. The refinement maps a task that is being put to one that is still
new, which needs that it is in one thread's hands only (`TasksInHand`).

`ImageCache_proofs`, from `CacheAssumption`, which gives the constants their types, for any requests, parameters and numbers of calls:

| theorem | says |
|---|---|
| `Invariance` | `Spec => []CInv` |
| `CacheTypeCorrect`, `ListsStaySound`, `WaitersAreAttended` | `Spec => []` of TypeOK, ListsAreSound, WaitingIsAttended |

ListsAreSound says that no bare pointer of the cache is to a request that is gone, and it cannot be kept
without saying more of the loops, whose callbacks make any call on any request, or fail. `CInv` adds what is true between two steps:
`ListedOnce` and `ListedRequests` (a request is in one list, once, and is live, or held by a loop though its
image source has let go of it), `RequestsAreSound` (it gets its decoder only when it leaves the first list), `StackIsSound` (what
the loops hold exists, the iterator is at a listed request, and at the one that is called), `DecodersAreOwned` (a
decoder that decodes for a request is the one that request has) and `QueueIsSound` (the task the cache says is queued is
queued). Why the iterator stays good: `Release` destroys nobody whom a loop holds, the iterator is at a held
request while a callback runs, and the loop moves it on before it lets go (`AfterFacts`).
The lists are sequences from which an element is removed at a position, so the lemmas
that carry the proof are of these: `RemoveAtFacts`, `RemoveFirstFacts`, `TailFacts`. `DetachKeepsSound` and
`DestroyKeepsSound` do every step that lets go of a request, wherever the loops are, and `OrderKeepsOwners` says what a
decoder may be ordered without taking it from another. `StopAttends` is the step from an error to the exception of
WaitingIsAttended.

Every safety invariant and action property the passing runs check is thus proved for all values of the
constants (NeverEarly for those that fit the integers of the code). Only model-checked is what is stated
under fairness, since liveness is out of the prover's reach:
the liveness of FrameService, AnsweredUnlessUpset, TasksFinish, OwedIsPresented, RequestsEnd, jobs that
begin, threads that end, everything posted that is dispatched. For these the runs are the evidence, within
the bounds of section 3.

## 5. Not modelled, and why

- Frame loop: a render thread that leaves at once because COM cannot be initialised on it;
  device-lost recovery and the creation of a second render target; an
  off-thread request before the render thread's handle is stored (whether one can come so
  early is a matter of the host's start-up); the vblank throttle's arithmetic; priorities
  and request reasons, which are only reported.
- Dispatcher: reentrancy checks behind feature flags that are off, PauseNewDispatchAtControl,
  pending resources.
- Job queue: COM initialisation and the window of the worker, which fail fast if they fail.
- Downloads: the data, authentication, headers and which redirections are allowed (an abort
  because of them is `GiveUp`); ResetDownloader, which only tests call; DownloadRequests called
  again from within itself, since nothing it calls pumps messages.
- Images: the image provider's table, which finds the cache of an image, and the test hooks;
  animated images and LoadedImageSurface as clients of the cache; notices of progress, which are
  coalesced and decide nothing; the second attempt at an SVG after a device was lost; a callback that
  runs a nested message loop, in which tasks of the cache would be executed; tasks that cannot be
  queued and work items that cannot be started by the cache's decoders (`image_decoder` and `image_tasks` have these). The
  decoders of formats and the surfaces are the platform's.
- DXamlCore's lives (initialise, idle, deinitialise), with messages of an earlier life still in the
  queue: next in the plan.
- Peers and reference tracking: the heap walk is shared with the garbage collector of the
  projection, whose steps are not in this repository.
- Properties, layout, text, input, rendering, the parser and the controls: one thread, large state,
  and correctness that is a matter of geometry, type or wording. Tests serve them better, and
  nothing in them could be checked on a small instance that a unit test does not reach.
- Generated code, resources, tests, build.

## 6. Plan

Done: the frame system, its abstract service, the refinement and the proofs, with the arithmetic of
early ticks; the dispatcher and its proofs; the job queue, its abstract service, the refinement and the proofs;
downloads, composed with that service, and their proofs; the decoder and its proofs; the task dispatcher, its
abstract queue, the refinement and the proofs; the cache, its inductive invariant and the proofs.

Left, in the order of importance:

1. An abstract dispatcher, a bag of messages of which each is run once, refined by `XcpDispatcher`;
   `FrameLoop` and `ImageTaskDispatcher` are composed with it instead of with what they assume of a post.
2. `ImageCache` with its tasks from `TaskQueue`: the order in which they run is taken from it now, but
   no theorem says that the cache keeps to it.
3. `CoreLifetime`: DXamlCore's initialise, idle and deinitialise with messages left
   over from an earlier life; composed with FrameLoop's render target.
4. Animated images and LoadedImageSurface as clients of the cache.
