# Verification of WPEBackend-android

TLA+ specifications of the buffer protocol of WPEBackend-android, TLC
configurations that check them on small instances, and TLAPS proofs that hold
for every instance. The definitions follow the C++ under `src/src`; `PROJECT.json`
maps each of them to its lines.

## 1. The system

WPE WebKit runs pages in web processes; the application's process (the UI
process) shows what they draw. This library has a half in each.

| Component | State | Operations |
|---|---|---|
| `RendererBackend`, one per web process (`renderer-backend-egl.cpp`) | `m_targetMap`: pool id to target; the client end of a socket | register, unregister, `handleMessage` |
| `EGLTarget`, one per page (`renderer-backend-egl.cpp`) | a pool of 4 buffers (`locked`, `object`), `current`, `poolID`; the client end of the view's socket | `initialize`, `resize`, `frameWillRender`, `frameRendered`, `releaseBuffer`, `deinitialize`, destructor |
| `RendererHostClientProxy`, one per web process (`renderer-host.cpp`, UI) | the host end of the web process's socket | `constructPool`, `purgePool`, `bufferAllocation`, `bufferCommit` |
| `RendererHost`, one (`renderer-host.cpp`, UI) | the pools, `m_viewBackendMap`: pool id to view, `m_lastExportedPoolID` | create pool, find, register and unregister view, `releaseBuffer`, `frameComplete` |
| `BufferPool`, `Buffer` (UI) | 4 pointers; `m_locked`, `m_pendingDelete`, `m_hardwareBuffer` | set, release |
| `ViewBackend`, `AndroidViewBackend`, one per web view (`view-backend.cpp`, UI) | `m_poolIds`, the host end of the view's socket, the commit callback | register and unregister pool, release buffer, frame complete, destroy |
| IPC (`ipc.cpp`, `ipc-messages.h`) | socket pairs with GSources | send, send and wait for a reply, send and receive descriptors, `socketCallback` |

How they interact. A target asks the proxy for a pool (`PoolConstruction`, and
blocks for `PoolConstructionReply`) over the socket of its *web process*, then
tells the view of the pool over the socket of the *view* (`RegisterPool`). To
draw, it takes the first slot that is not locked, allocates an
`AHardwareBuffer` if the slot has none (`BufferAllocation` and the handle), and
when drawn sends `BufferCommit` with a fence and locks the slot. The proxy looks
up the view of the pool, locks its `Buffer` and passes it to the application. The
application shows it, reports the frame (`FrameComplete` goes back, WebKit may
draw the next one) and later releases the buffer it replaced (`ReleaseBuffer` goes
back, the slot is unlocked). A resize empties the slots and sends `PoolPurge`.

What is hard about it: two processes change their half of a pool without
waiting for each other; a pool's messages travel on two sockets that nothing
orders, and the main loop reads one message of each per iteration; pools of
several targets share the process's socket and a global; a resize, a process
exit or the end of a view may fall between any two steps; a message and its
descriptor are two parts of a stream.

What makes each part correct:

* target: never draws into a buffer that may be on screen; always finds a slot;
  gets each frame completed.
* proxy and pools: a slot points to a live `Buffer` of its own; a `Buffer` the
  application holds lives until it is released, and is freed then.
* views: get the buffers of their own pages only.
* sockets: messages and descriptors arrive in pairs and in order; the main
  loop is not blocked for ever.

## 2. Modules

| Module | Models |
|---|---|
| `Ipc` | messages, the three families of queues, sends to a peer that is gone |
| `UiLoop` | the GLib main context of the UI process: poll, then one call per readable socket |
| `RendererBackend` | web process: targets and the message handler |
| `RendererHost` | UI process: proxies, pools, buffers, the host singleton |
| `ViewBackend` | UI process: views, and the application that calls the public API |
| `WpeAndroid` | the composition, fairness, all properties |
| `MCWpeAndroid` | instances for TLC |
| `BufferOwnership` | an abstract specification: whose a hardware buffer is, and how it goes round |
| `WpeAndroidOwnership` | where `WpeAndroid` keeps each buffer, so that it implements `BufferOwnership` |
| `WpeAndroidInvariants` | the inductive invariants of the theorems about `WpeAndroid` |
| `WpeAndroidProofs` | theorems about `WpeAndroid`: types, heap, maps, pools, locked buffers |
| `WpeAndroidPageProofs` | ... : which target, view and pool belong together |
| `WpeAndroidUseProofs` | ... : exclusive use of a buffer |
| `WpeAndroidSteadyProofs` | ... : the same without resizes, where no condition is left |
| `WpeAndroidCommitProofs` | ... : the slots of both processes agree, a commit finds its view, a locked slot is on its round |
| `WpeAndroidPacingProofs` | ... : pacing, exclusive use with resizes, no frame is lost, a slot is always free |
| `WpeAndroidOwnershipProofs` | ... : `WpeAndroid` implements `BufferOwnership` |
| `IpcStream` | one backend socket below the level of messages |
| `CommitChannel` | the FIFO that `Ipc` takes that socket to be; `IpcStream` implements it |
| `IpcStreamProofs` | theorems about `IpcStream` |

Names are those of the source. A handler is one action; where it has several
outcomes there is an action per outcome (`FrameReuses`, `FrameAllocates`,
`FrameFailsToAllocate`, `FrameAborts`; `CommitToView`, `CommitWithoutView`).
That each process runs its handlers on one thread is an assumption: the library attaches each source to the main
context of the thread that initializes it and has no locks, and WebKit is taken to call a target, and the application the public API,
on the one thread of that context. So a handler is atomic, except for
`initialize`, which sends and then blocks: it is two actions, and in between
the process does nothing else (`InEventLoop`). A `Buffer` of the UI process is
named by its `AHardwareBuffer`, a member of `Objects`; `hostBuffer[o] = None` says
that no `Buffer` for `o` is alive. An allocation returns any handle nobody refers
to, so addresses are reused. A handler that would dereference a null or deleted
`Buffer` has no successor; `NoNullCommit` and `HeldBuffersAlive` say that this does
not happen. An element of a queue is a message with its descriptor, which is
what `IpcStream` justifies.

Nothing exists at the start. `CreateView` makes a view and its socket, `CreateClient`
a web process with its proxy and socket, `CreateTarget` a page; each socket is attached
to the main context when it is made (`sources` of `UiLoop`), which is the order in
which an iteration serves the readable ones. A target needs its view, whose descriptor
its constructor gets.

`BufferOwnership` has seven owners of a buffer and the moves between them; none of the
slots, flags, maps and messages of the code. `Owner` reads the owner off these: a buffer
is with the application if a view holds it, on the way there if a commit in a socket
will find it in its slot once the messages before it are handled (`CommitsTo`), and so on.

`IpcStream` has the parts of the two messages that are followed by a descriptor, and
the three ways a read can go wrong: there is nothing yet (retried), the stream is at
its end (0 bytes), or the connection was reset, which the kernel reports once if the
web process left something unread when it ended.

External behaviour, and where it comes from:

* WebKit (`Callable`, `CanRender`): draws the next frame after `frame_complete`,
  calls nothing of a target between `frame_will_render` and `frame_rendered`,
  deinitializes a target before destroying it.
* The application (`held`, `unfinished`, `CanComplete`, `DispatchReleaseBuffer`):
  releases each buffer once, after a newer one was committed, reports each
  commit once, and holds at most `MaxHeld` buffers when it does. `view-backend.h` states none of
  this; `MaxHeld = 1`, in particular, is a condition under which the results hold, not one the library
  imposes (section 4 says what happens with 2).
* A web process may exit or be killed between any two steps (`WebExits`), and a
  view may be destroyed at any time (`DestroyView`). What a dead process had sent
  can still be read.

## 3. Properties

Memory: `NoRenderWhileShown`, `ReleaseUnlocksReturned` (an action property),
`HeldBuffersAlive`, `NoForeignBuffer`, `NoNullCommit`, `HostHeapConsistent`
(`SlotsPointToLive`, `MarkedOutsideSlots`), `LockedBuffersHeld`, `ImplementsOwnership`
(the refinement). Lookups: `PoolsExist`, `MapsPointToLive`. Slots and pacing: `SlotAvailable`,
`LockedSlotsAccounted`, `FrameIsUnderWay`, `FramesLostByFailure` (an action property), `UnreadBounded`. Progress: `InitializeReturns`,
`FrameCompletes`, `ReplacedBufferReturns`. Comments of the source, as formulas:
`UnknownPoolMeansDestroyed`, `CommitWithoutViewMeansTeardown`, `ReplyComesFirst`,
`CompletesItsOwnFrame`, `BuffersHaveHandle`, `GivesUp`. Stream: `FenceOfItsCommit`,
`CrashOnlyWithoutFence`, `ImplementsChannel` (the refinement), `LoopReturns`. Each has a comment at its definition.

The inductive invariants of the proofs are checked by TLC, too: `HeapInv`, `UseInv` (in `OwnerInv`),
`OwnerInv`, `SteadyInv`, `MirrorInv`, `TeardownInv`, `PacedInv`, `TurnInv`, `FrameInv`, `SlotInv` (with `AccountInv` in it) and `StreamInv`. They say what holds *between* the
processes while messages are on their way, which the properties above do not: what a
queue may contain, and in which order.

A failed allocation is part of what the properties allow: `frameRendered` then
locks the slot and commits nothing, so that the slot and the frame are lost.
`LockedSlotsAccounted` and `FrameIsUnderWay` say that nothing else is, and `FramesLostByFailure` that such a
frame stays lost.
`LockedBuffersHeld` leaves out the buffers of a destroyed view in the same way: the code
never frees them.

## 4. Runs

Passing:

| Run | Instance | Shows |
|---|---|---|
| `Resize` | 1 target, the 4 slots of the code, 6 handles, resizes, allocations and handles may fail | buffers survive every interleaving of draw, resize, release, teardown, exit; none stays locked in the UI process; a frame is lost by a failed allocation or an end only; each buffer goes round as `BufferOwnership` says; `OwnerInv`, `MirrorInv` and `TurnInv` hold |
| `Pacing` | 1 target, 4 slots, no resize, allocations may fail, the application may hold 3 buffers | a slot is always free; no commit, frame or release is lost but for a failed allocation; few messages are unread; two comments hold; `PacedInv`, `TeardownInv`, `FrameInv` and `SlotInv` hold |
| `Progress` | 1 target, resizes, fairness | initialize returns, frames complete, buffers come back |
| `Swap` | 2 web processes in 1 view, 2 slots each | pools of two processes share a view without mixing buffers; `SteadyInv` holds |
| `TwoViews` | 2 web processes, 2 views | no view gets a foreign buffer, though completions go astray |
| `SharedProcess` | 2 targets in 1 web process, 2 views, fairness | the heap and the maps survive a misread reply; every pool looked up exists; initialize returns |
| `Stream` | 3 commits, 3 parts in the stream, process end with or without reset, fairness | pairs stay together, an error replaces only the last fence, crashes need a lost fence, loops end |

Violated (the disagreements are in `PROJECT.json` under findings):

| Run | Comment refuted | What happens |
|---|---|---|
| `EarlyCommit` | renderer-host.cpp:258, no view means teardown | two web processes in one view; `RegisterPool` waits behind the registration and unregistration of the first one's page, which was destroyed, and the second's commit overtakes it and its buffer is dropped |
| `MisreadReply` | renderer-backend-egl.cpp:242, the next message is the reply | a second target in the process reads a message meant for the first |
| `MisroutedComplete` | view-backend.cpp:81, the last buffer released is from the completed frame | two views; the completion goes to the other's pool |
| `NoHandle` | renderer-host.cpp:64, the buffer was received | a `Buffer` with a null handle |
| `EndOfStream` | ipc.cpp:136, give up if nothing is read | the callback at the end of the stream reads 0 bytes and stays |

Consequences seen while exploring, which the passing runs stay clear of:

* after a misread reply the target keeps `poolID` 0 and its `BufferAllocation`
  deletes a buffer of another target that the application may hold
  (`HeldBuffersAlive` fails in the instance of `SharedProcess`);
* after a misrouted completion a target draws ahead of its pace and may run out
  of slots and abort (`SlotAvailable` fails in the instance of `TwoViews`);
* a `ReleaseBuffer` that crosses a `PoolPurge` unlocks the successor of its
  buffer if the next frame is already committed: `ReleaseUnlocksReturned` fails
  with resizes if the application completes a frame before it has released the
  one before (`MaxHeld` of 2 or more: set it to 2 in `Resize.cfg` to see it), or with two targets (a misrouted
  completion lets one of them draw too early). No comment or document speaks of either, so that there is
  no run under the violations for it. `Resize` therefore has `MaxHeld = 1`,
  and `Swap` and `TwoViews` have no resizes;
* a resize after a failed allocation hides what was lost: the slot with the lock and without a
  buffer is emptied and unlocked, and the page still waits for a frame that was never
  committed. `FrameIsUnderWay` fails with both (`Resize`, where a resize alone or a failure alone
  does no harm), so that `Pacing` has no resizes.

### Bounds

`MaxPools` is at least the number of targets, so `constructPool` is never cut off;
in `SharedProcess` it is one more, so that a pool nobody made exists to be looked up.
`ResizeBacklog` bounds the messages unread when a resize happens: a target can
draw one frame per completion, and only resizes can pile up messages; with 2, a
purge, an allocation and a commit can be under way together. No other queue
needs a bound: pacing keeps them short. `Objects` bounds the handles: `Resize` has two
more than a pool has slots and `Progress` one, so that the application can hold an
old buffer while a new set is drawn; `Pacing` has one per slot; the runs with two
targets have two or three for both, so that each can have a buffer on screen and
one of them a second. Where every handle is in use an allocation has to wait.
Two slots instead of four, in the runs with two targets, keep the cases apart
that matter: the slot on screen and the slot drawn next. `Handles` are
interchangeable; the runs with a liveness property do not use the symmetry.
`Orders` bounds the orders in which sockets are created, and so served: all of them
with one target (`AnyOrder`); with two, one page after the other, the view's socket
or the web process's first (`PageByPage`, in `Swap`) or the view's first (`ViewThenPage`, in
`TwoViews` and `SharedProcess`); the violations with two targets are found with
the views' sockets first (`ViewsFirst`).
`AllocMayFail` and `RecvMayFail` say whether an allocation, or the receipt of a handle,
may fail: in `Resize` both, in `Pacing` the first; the runs with liveness
have neither, since a failed allocation stops its page.
`MaxFrames` and `Backlog` of `Stream` are 3: a part being read, the pair behind it and
the frame before it are what a part can be taken for. The theorems have no such bound.
`CHECK_DEADLOCK` is off: a system whose processes have ended stops.

### Fairness

Weak fairness of: the return of a blocking receive, the end of a frame that was
begun, the dispatch of messages in both processes, the poll of the main context,
and the application's releases and completions. The event loops justify
those of the library; the application's are its part of the contract, without
which no compositor makes progress. Nothing obliges WebKit to create, draw, resize or
destroy a target. In `IpcStream` the two sends of one call follow each other, and the
main thread runs; no further message is promised, and a commit without a fence may
keep the main thread in its loop until one comes, which `LoopReturns` excludes by name.

## 5. Proofs

All theorems are for any number of processes, targets, views, handles, slots and pools and
for all orders of creation, unless one of the following is assumed, and need no fairness.
The assumptions on the constants are those of the modules (`IpcAssumption`, `UiLoopAssumption`,
`RendererBackendAssumption`, `RendererHostAssumption`, `ViewBackendAssumption`,
`IpcStreamAssumption`). Five more are hypotheses of theorems, where the property is false
without them:

* `OneTargetPerProcess`: each web process has one target. WPE WebKit makes one per page and,
  since it does not share processes by default, one page per process. The run `MisreadReply`
  shows what two targets do, and `SharedProcess` that only the heap and the maps survive it.
* `OneTargetPerView`: a view has one page in its life. `EarlyCommit` shows what a second one in
  another web process does, as after a navigation that swaps processes.
* `ResizeBacklog = 0`: targets are not resized.
* `ReleaseUnlocksReturned` itself, in theorems about behaviours: no release has unlocked a slot
  that was refilled meanwhile. It is proved without resizes and for `MaxHeld = 1` (below).
* `SingleTarget`, in places with `MaxHeld = 1`: there is one target (and, where it says so, an
  application that has released the frame before when it completes one). With two targets a
  completion may go to the wrong one (`MisroutedComplete`), with a larger `MaxHeld` a release
  may cross a resize (section 4), and no pacing then keeps them apart.

| Theorem | Assumes | Property | Invariant |
|---|---|---|---|
| `TypeCorrect`, `HeapCorrect` | | `TypeOK`, `HostHeapConsistent` | `HeapInv` |
| `MapsCorrect` | | `MapsPointToLive` | `MapInv` |
| `PoolsFound` | | `PoolsExist` | `PoolInv` |
| `LockedBuffersReleasable` | | `LockedBuffersHeld` | `LockInv` |
| `RepliesFirst` | one per process | `ReplyComesFirst` | `PageInv` |
| `UnknownPoolIsOld` | one per process | `UnknownPoolMeansDestroyed` | `PageInv` |
| `BuffersGoHome` | one per process | `NoForeignBuffer` | `HandleInv` |
| `CommitsFindBuffers` | one per process | `NoNullCommit` | `MirrorInv` |
| `CommitsFindViews` | one per process, one per view | `CommitWithoutViewMeansTeardown` | `TeardownInv` |
| `HeldWhileReturned` | one per process, `ReleaseUnlocksReturned` | `HeldBuffersAlive` | `UseInv` |
| `UnlocksAreReturns`, `DrawsReturned`, `HeldStayAlive` | one per process, no resize | `ReleaseUnlocksReturned`, `NoRenderWhileShown`, `HeldBuffersAlive` | `SteadyInv` |
| `LocksAccounted` | one per process, one per view, no resize | `LockedSlotsAccounted` | `AccountInv` |
| `FewUnread` | one target | `UnreadBounded` | `PacedInv` |
| `FailedFramesLost` | one target | `FramesLostByFailure` | `FailureInv` |
| `FramesUnderWay` | one target; no failed allocation or no resize | `FrameIsUnderWay` | `FrameInv` |
| `SlotsAvailable` | one target, `MaxHeld < PoolSize`, no resize | `SlotAvailable` | `SlotInv` |
| `UnlocksInTurn`, `DrawsInTurn`, `HeldAliveInTurn` | one target, `MaxHeld = 1` | `ReleaseUnlocksReturned`, `NoRenderWhileShown`, `HeldBuffersAlive` | `TurnInv` |
| `LocksAccountedInTurn` | one target, `MaxHeld = 1` | `LockedSlotsAccounted` | `AccountInv` |
| `SlotsAvailableInTurn` | one target, `MaxHeld = 1 < PoolSize` | `SlotAvailable` | `SlotInv` |
| `OwnershipSteady` | one per process, no resize | `ImplementsOwnership` | `OwnerInv` |
| `OwnershipInTurn` | one target, `MaxHeld = 1` | `ImplementsOwnership` | `OwnerInv` |
| `FenceCorrect`, `CrashExplained` | | `FenceOfItsCommit`, `CrashOnlyWithoutFence` | `StreamInv` |
| `StreamImplementsChannel` | | `ImplementsChannel` | `StreamInv` |

`HeapInvariant`, `UseInvariant`, `SteadyInvariant`, `MirrorInvariant`, `TeardownInvariant`,
`PacingInvariant`, `TurnInvariant`, `AccountInvariant`, `FailureInvariant`, `FrameInvariant`,
`SlotInvariant`, `OwnerInvariant` and `StreamInvariant` state the invariants themselves; those of `UseInv`,
`AccountInv` and `SlotInv` are for behaviours with `ReleaseUnlocksReturned`.

### The heap, the maps and the pools

None of the properties is inductive. `TypeOK` needs the heap: `purgePool` and
`bufferCommit` write to the `Buffer` their slot points to, which has a type only if
it is alive. The heap needs the sockets: `bufferAllocation` puts a new `Buffer` in
a slot, and slots stay distinct only if the handle that arrives has no `Buffer` yet
(`TransitFresh`). That in turn holds only if no handle is on its way twice
(`TransitOnce`), and at the start of a handle's way because an allocation
returns a handle nobody refers to. `HeapInv` is the conjunction of the four.
`NextTypes` proves the types of the next state, `TransitSent`, `TransitReceived` and
`TransitKept` the sockets, `PurgeHeap`, `AllocationHeap`, `LockHeap`, `DropHeap` and
`ReleaseHeap` one handler each; `HeapStep` joins them.

The maps need the types and the sockets of the views: a `RegisterPool` that is read
for a view puts it in the map, so a destroyed view must have none left to read
(`ClosedViewsSilent`). `MapInv` is `HeapInv`, `MapsPointToLive` and that; `TargetMaps` and
`ViewMaps` prove the steps that touch a map, one for each process.

A pool exists from its `createBufferPool` on, so it is enough that nothing names an
identifier from `nextPoolID` on (`PoolsKnown`): no message, `Buffer`, target or frame.
A `Buffer` is locked as long as it is held, since commits lock what they hand out, and
what a destroyed view held stays locked (`LockInv`).

### Whose a pool is (`PageInv`, `HandleInv`)

With one target per process the synchronous `initialize` makes a handshake:
before it nothing is in the sockets of the process, during it the request or the reply is
alone in them, after it they contain messages of its one pool (`HandshakeAt`). So a
pool has one owner, and what names a pool in the UI process names that of a target, in a
view's socket or map that of a target of the view (`PoolsOwned`); a target is in the map of its
process until it is destroyed (`TargetsRegistered`). `HandleInv` adds where a buffer may be:
in one slot of one target, its handle on the way to the pool of that target only, its `Buffer`
with the identifiers of that slot, held by the view of that target.

### Who may use a buffer (`UseInv`, `SteadyInv`)

`NoRenderWhileShown` and `HeldBuffersAlive` depend on the order in the queue of the target. For
each slot the queue is described by what follows what: the pool has the buffer of
the slot or will when the queue is read (`SlotsAgree`), nothing in the queue throws it out again
(`NewestLast`), an allocation finds its slot empty (`AllocatesEmpty`), between two commits of
a slot it is refilled, and a buffer whose commit is on its way is not with the application
(`CommittedOnce`), and a slot that is not locked has its buffer back (`UnlockedReturned`). That
is inductive (`UseStep`) for every step that unlocks slots of returned buffers only. `HandleWebMessage`
is such a step only if the release it reads was sent for the buffer now in the slot,
which `EGLTarget::releaseBuffer` does not test. Hence `UseInvariant` is stated for behaviours
with `ReleaseUnlocksReturned`, and there are two ways to discharge that:

* without resizes a slot has one buffer ever. `SteadyOf` says so, and that a release on its
  way is the only one of its slot, whose buffer is back and locked in the target
  (`ReleasesReturned`, `ReleasedOnce`); `SteadyUnlocks` concludes.
* with resizes and one target it is the pacing. `PacedInv` says that a frame is in one place:
  its commit on the way, to be completed, or its completion on the way, once, and that its
  target waits that long; and that releases unseen and buffers held are `MaxHeld` together, and
  one more until the completion. With `MaxHeld = 1` a completion is therefore the last
  message of its frame: when the target may draw, it has read every release (`OneByOne`),
  and a release on its way finds the buffer of its slot back, also when the slot was
  purged and filled again (`ReleasesBack`), for nothing was committed since. `TurnInv` is
  `UseInv`, `PacedInv` and these two; `TurnUnlocks` concludes.

### Commits find their buffers (`MirrorInv`)

`bufferCommit` dereferences the slot of the pool. A purge is followed by an allocation before
the next commit of a slot (`CommitsFilled`), and a slot of the target with a buffer has one in the pool
(`SlotsFilled`), with one exception: `CommitWithoutView` empties the slot of the pool and tells nobody. It
can happen before `RegisterPool` is read, as in the run `EarlyCommit`, and the pool gets its view
later. The slot of the target then stays locked for ever (`Dropped`), so that it is not committed again. For
that, nothing may come back for it: nothing was given to the application before the
registration (`NothingReturns`).

### Commits find their views (`TeardownInv`)

The registration of a pool and its first commit go through two sockets that nothing orders.
What orders them is the main loop, which reads one message of a socket per poll, and that the
allocation comes before the commit. While the registration is unread it is the first message of
its view's socket, as the view has no other target, and it is the view's turn before the
proxy's second (`ViewsTurn`): either the proxy had its turn in this iteration, the view is
still to have its own, or the proxy is to read an allocation before any commit
(`AllocationFirst`) and the view, if the proxy's socket was found readable, was found so by the same poll.
It does not matter which of the two sockets is served first. That an iteration does not
pass over a socket is `ReadyReadable`. Once registered, a pool loses its view only when the view
is destroyed, which takes out pools of its own targets alone (`ViewsPoolsOwned`), or when the
view reads `UnregisterPool`, which the destructor of the target sends (`UnregisteredTornDown`).

### A locked slot is on its round (`AccountInv`)

`frameRendered` locks the slot and sends its commit; from there to `releaseBuffer` the lock has to be
owed to something: the commit on the way, the buffer held by the view, or its release on the way (`OnRound`).
A commit hands its own buffer to the view (`UseInv`), and the view is there to take it (`TeardownInv`). A release
is only sent if the buffer is not marked by a purge, so the buffer of a slot of the target must
not be: `Accounted` says so, too. What a purge marks has left the slots in both processes. A step that unlocks a slot of a
returned buffer only never takes the reason away from another slot; that is where the
condition comes from, which `LocksAccounted` and `LocksAccountedInTurn` discharge.

### No frame is lost (`FrameInv`)

`PacedInv` says that a frame is in one place at most. That it is in one at all is lost in one way
only, `frameRendered` without storage, and what is left of that is the locked slot without a buffer (`FrameFailed`):
it stays, as only slots with a buffer are drawn into again and released. `FailureInv` states that where there is such a
slot the target waits and nothing is under way (`FrameOf`); the converse, that a frame which is not under way has
left such a slot, is `FrameKept`. A resize clears the trace, so `FrameInv` has the hypothesis that there is none, or no
failure. With both, the loss itself is what remains: `FramesLostByFailure` says of each *step* that it keeps what
is lost and loses nothing but by a failure or an end, and follows from `FailureInv` (`LossStep`).

### A slot is free (`SlotInv`)

The locked slots are counted against `MaxHeld`. When the target may draw, or will when it reads the completion
on its way, a locked slot has a buffer (`FailureInv`: after a failed allocation it waits for good), and that is held by
the view or its release is unseen (`AccountInv`). A release in front of the completion will have unlocked its slot
in time (`FreedFirst`); those behind it and the held buffers are `MaxHeld` together (`PacedInv`), of different slots.
If every slot were locked there would be `PoolSize` of them: a pigeonhole that the library's
theorems about cardinalities give, once a sequence has one entry for each slot. All that needs the view: once
it is destroyed, what it held is never released. But then nothing is committed to it and completed either,
so that a slot that was free stays so, or is the one drawn into for the last time; `SlotInv` keeps that
slot (`SlotFree`, for views that are gone) from the moment `DestroyView` takes it over from the count.

### Buffers go round (`OwnerInv`)

The refinement mapping has no history: `Owner` reads off the state who has a buffer, and the step from a
commit on its way to a buffer shown has to be one step of `BufferOwnership` although other messages of the
slot may be in between. So the proof first says what a state means for the mapping. A buffer in a slot has the
owner that the slot, the lock and the messages of the slot give it (`SlotOwner`), one outside all slots can
only be on the way, shown or with nobody (`Elsewhere`); `Travels` is what the proxy will find for a commit
after the messages before it, and the messages ahead of a commit decide that alone (`Leaves`, `Finds`).

This needs four facts beside `UseInv`. A slot of the target with a buffer has it in the pool, or will when
the queue is read, unless the pool lost it to `CommitWithoutView` (`SlotsKept`). Such a buffer is not marked by
a purge, or its release would delete it and never return (`Unmarked`). Where the allocation of a
locked slot is unread, the commit is behind it (`LockedCommitted`). And a release on its way finds the buffer
of its slot back (`ReleasesFresh`): a stale one would take a slot through "toTarget" that is in use. The last is the condition
on pacing once more: `SteadyFresh` discharges it without resizes, from `SteadyInv`, and `TurnFresh` for one
target and `MaxHeld = 1`, from `TurnInv`. `OwnerStep` proves that the rest is inductive, one lemma for each
way a step can touch a slot (`KeptTarget`, `KeptSent`, `KeptReceived`, `KeptSame`, `KeptOther`), and
`OwnershipHolds` maps each action to one step of `BufferOwnership` or to none.

### The stream (`StreamInv`)

The two invariants say what a *read* returns; the invariant has to say what is *in
the stream*. `FencesFollow`: a fence is right behind its commit, even when that has
just been read. `CommitsLead`: a commit is followed by its fence, unless one was lost.
`OpenIsLast`: a commit without a fence behind it is the last, and the sender is still between its
two sends or was when it ended. `InOrder`: frames come by their numbers. `LostIsLast`: after an
error nothing comes. Their conjunction with the two is `StreamInv`; `SendsKeep`,
`TakesKeep` and `OthersKeep` prove it for the three kinds of steps.
For the refinement the FIFO is the *set* of frames whose fences are in the stream: as frames are
numbered in the order they are sent, its first element is the least (`InOrder`), and no
sequence has to be filtered. `FencesAdded` and `FencesTaken` relate it to the stream, and
`ChannelStep` maps each step.

### What stays with TLC

* Liveness (`InitializeReturns`, `FrameCompletes`, `ReplacedBufferReturns`, `LoopReturns`): TLAPS
  has no support for fairness and ENABLED here.
* Instances beyond the hypotheses of the table. `NoRenderWhileShown`, for example, is proved with resizes for one
  target and `MaxHeld = 1`; with two targets or a larger `MaxHeld` there are resizes after which
  `ReleaseUnlocksReturned` is false (section 4), so that its proofs have no more to give there.

Every invariant of `WpeAndroid` and of `IpcStream` that a passing run checks is proved, and both refinements.

## 6. Not modelled

* GL and EGL calls, buffer dimensions and what fences mean.
* The loader (`android.cpp`), the offscreen target (empty functions), logging and the build.
* Failures of `socketpair` and `g_socket_new_from_fd`, after which `IPC::Host::initialize`
  returns without a socket and nobody is told, and a failure to send a handle
  other than a full socket: what the NDK makes of the next message is not in this repository.
* The end of the UI process, and with it the end of the stream in `IPC::Client::socketCallback`,
  which tests for it as `IPC::Host::socketCallback` does.
* A commit before `setCommitBufferHandler`: `CreateView` sets the handler before the
  page exists. The frame-displayed notification to WebKit in the UI process.
* What leaks: buffers, pools and proxies that outlive their web process, a buffer still
  held by a view when it is destroyed, the fence descriptor of each frame in the web
  process, and in the UI process that of a commit without a view. The model keeps
  the first two kinds; it has no descriptor tables.

## 7. Plan

Done: the modules of section 2, the runs of section 4, the theorems of section 5; among
them every memory-safety property of section 3, each for the targets it holds for.

Left: descriptor tables of the two processes, with which the leaks of section 6 would become
properties, and the end of the UI process.
