--------------------------- MODULE RendererBackend ---------------------------
(***************************************************************************)
(* The web process side: RendererBackend and its EGLTargets                *)
(* (src/src/renderer-backend-egl.cpp).                                     *)
(*                                                                         *)
(* An EGLTarget owns a pool of PoolSize buffers.  It renders into the      *)
(* first buffer that is not locked, commits it to the UI process, and      *)
(* keeps it locked until the UI process sends it back.                     *)
(*                                                                         *)
(* WebKit's compositor drives a target: it renders a frame only after the  *)
(* previous one was reported complete (awaitingFrame), and calls nothing   *)
(* else of the target between frame_will_render and frame_rendered.        *)
(***************************************************************************)
EXTENDS Ipc

CONSTANTS
  ResizeBacklog,  \* bound: no resize with this many messages still unread
  AllocMayFail    \* whether AHardwareBuffer_allocate may fail

ASSUME RendererBackendAssumption ==
  /\ ResizeBacklog \in Nat
  /\ AllocMayFail \in BOOLEAN

VARIABLES
  phase,         \* phase[t]: how far the target's life has come
  poolID,        \* poolID[t]: EGLTarget::buffers.poolID
  locked,        \* locked[t][b]: Buffer::locked
  object,        \* object[t][b]: Buffer::object, the AHardwareBuffer
  current,       \* current[t]: EGLTarget::buffers.current
  targetMap,     \* targetMap[w][p]: RendererBackend::m_targetMap
  awaitingFrame  \* awaitingFrame[t]: WebKit waits for frame_complete

webVars == <<phase, poolID, locked, object, current, targetMap, awaitingFrame>>

Phases == {"none", "created", "constructing", "ready", "deinitialized", "destroyed"}

WebTypeOK ==
  /\ phase \in [Targets -> Phases]
  /\ poolID \in [Targets -> PoolIDs]
  /\ locked \in [Targets -> [Slots -> BOOLEAN]]
  /\ object \in [Targets -> [Slots -> Objects \cup {None}]]
  /\ current \in [Targets -> Slots \cup {None}]
  /\ targetMap \in [Processes -> [PoolIDs -> Targets \cup {None}]]
  /\ awaitingFrame \in [Targets -> BOOLEAN]

\* No target exists; the fields have the values its constructor gives them.
WebInit ==
  /\ phase = [t \in Targets |-> "none"]
  /\ poolID = [t \in Targets |-> 0]
  /\ locked = [t \in Targets |-> [b \in Slots |-> FALSE]]
  /\ object = [t \in Targets |-> [b \in Slots |-> None]]
  /\ current = [t \in Targets |-> None]
  /\ targetMap = [w \in Processes |-> [p \in PoolIDs |-> None]]
  /\ awaitingFrame = [t \in Targets |-> FALSE]

\* The process runs its event loop: it is not blocked in the synchronous
\* receive of sendAndReceiveMessage.
InEventLoop(w) ==
  /\ webUp[w]
  /\ \A t \in Targets : ProcessOf[t] = w => phase[t] # "constructing"

\* WebKit may call the target: it is initialized and not inside a frame.
Callable(t) ==
  /\ InEventLoop(ProcessOf[t])
  /\ phase[t] = "ready"
  /\ current[t] = None

CanRender(t) == Callable(t) /\ ~awaitingFrame[t]

\* Mutation: destroyBufferPool keeps the objects.
KeepObjects(t) ==
  /\ locked' = [locked EXCEPT ![t] = [b \in Slots |-> FALSE]]
  /\ UNCHANGED object

\* destroyBufferPool
DestroyBufferPool(t) ==
  /\ locked' = [locked EXCEPT ![t] = [b \in Slots |-> FALSE]]
  /\ object' = [object EXCEPT ![t] = [b \in Slots |-> None]]

-----------------------------------------------------------------------------
(* EGLTarget::EGLTarget *)
CreateTarget(t) ==
  /\ InEventLoop(ProcessOf[t])
  /\ phase[t] = "none"
  /\ phase' = [phase EXCEPT ![t] = "created"]
  /\ UNCHANGED <<poolID, locked, object, current, targetMap, awaitingFrame>>
  /\ UNCHANGED ipcVars

(* EGLTarget::initialize sends PoolConstruction and blocks for the answer. *)
Initialize(t) ==
  /\ InEventLoop(ProcessOf[t])
  /\ phase[t] = "created"
  /\ phase' = [phase EXCEPT ![t] = "constructing"]
  /\ SendToHost(ProcessOf[t], PoolConstructionMsg)
  /\ UNCHANGED <<poolID, locked, object, current, targetMap, awaitingFrame>>
  /\ UNCHANGED <<toWeb, toView, webUp, viewUp>>

(* The blocking receive returns whatever comes first.  Only a              *)
(* PoolConstructionReply is used; another message is thrown away and the   *)
(* target stays without a pool of its own.                                 *)
ReceiveReply(t) ==
  LET w == ProcessOf[t]
      m == Head(toWeb[w])
  IN  /\ webUp[w]
      /\ phase[t] = "constructing"
      /\ toWeb[w] # <<>>
      /\ toWeb' = Received(toWeb, w)
      /\ phase' = [phase EXCEPT ![t] = "ready"]
      /\ \/ /\ m.code = "PoolConstructionReply"
            /\ poolID' = [poolID EXCEPT ![t] = m.poolID]
            /\ targetMap' = IF targetMap[w][m.poolID] = None
                              THEN [targetMap EXCEPT ![w][m.poolID] = t]
                              ELSE targetMap   \* insert() keeps the old entry
            /\ SendToView(ViewOf[t], RegisterPoolMsg(m.poolID))
         \/ /\ m.code # "PoolConstructionReply"
            /\ UNCHANGED <<poolID, targetMap, toView>>
      /\ UNCHANGED <<locked, object, current, awaitingFrame, toHost, webUp, viewUp>>

\* Mutation: a resize reports the frame complete.
ResizeCompletes(t) ==
  LET w == ProcessOf[t]
  IN  /\ Callable(t)
      /\ Len(toHost[w]) < ResizeBacklog
      /\ DestroyBufferPool(t)
      /\ SendToHost(w, PoolPurgeMsg(poolID[t]))
      /\ awaitingFrame' = [awaitingFrame EXCEPT ![t] = FALSE]
      /\ UNCHANGED <<phase, poolID, current, targetMap, toWeb, toView, webUp, viewUp>>

(* EGLTarget::resize to other dimensions. *)
Resize(t) ==
  LET w == ProcessOf[t]
  IN  /\ Callable(t)
      /\ Len(toHost[w]) < ResizeBacklog
      /\ DestroyBufferPool(t)
      /\ SendToHost(w, PoolPurgeMsg(poolID[t]))
      /\ UNCHANGED <<phase, poolID, current, targetMap, awaitingFrame>>
      /\ UNCHANGED <<toWeb, toView, webUp, viewUp>>

-----------------------------------------------------------------------------
\* Mutation: the slot loop does not test `locked'.
FirstSlot(t, b) == b = 0

(* EGLTarget::frameWillRender takes the first buffer that is not locked... *)
FirstUnlocked(t, b) ==
  /\ ~locked[t][b]
  /\ \A a \in Slots : a < b => locked[t][a]

(* ... aborts the process when there is none ... *)
FrameAborts(t) ==
  /\ CanRender(t)
  /\ \A b \in Slots : locked[t][b]
  /\ CloseWeb(ProcessOf[t])
  /\ UNCHANGED <<toHost, toView, viewUp>>
  /\ UNCHANGED webVars

(* ... renders into it when it has storage ... *)
FrameReuses(t, b) ==
  /\ CanRender(t)
  /\ FirstUnlocked(t, b)
  /\ object[t][b] # None
  /\ current' = [current EXCEPT ![t] = b]
  /\ UNCHANGED <<phase, poolID, locked, object, targetMap, awaitingFrame>>
  /\ UNCHANGED ipcVars

(* ... allocates storage otherwise and sends its handle to the UI process  *)
(* ...                                                                     *)
FrameAllocates(t, b, o) ==
  /\ CanRender(t)
  /\ FirstUnlocked(t, b)
  /\ object[t][b] = None
  /\ current' = [current EXCEPT ![t] = b]
  /\ object' = [object EXCEPT ![t][b] = o]
  /\ SendToHost(ProcessOf[t], BufferAllocationMsg(poolID[t], b, o))
  /\ UNCHANGED <<phase, poolID, locked, targetMap, awaitingFrame>>
  /\ UNCHANGED <<toWeb, toView, webUp, viewUp>>

(* ... and goes on without storage when the allocation fails. *)
FrameFailsToAllocate(t, b) ==
  /\ AllocMayFail
  /\ CanRender(t)
  /\ FirstUnlocked(t, b)
  /\ object[t][b] = None
  /\ current' = [current EXCEPT ![t] = b]
  /\ UNCHANGED <<phase, poolID, locked, object, targetMap, awaitingFrame>>
  /\ UNCHANGED ipcVars

\* Mutation: only a buffer that was not committed is locked.
LocksOtherwise(t) ==
  LET w == ProcessOf[t]
      b == current[t]
  IN  /\ InEventLoop(w)
      /\ phase[t] = "ready"
      /\ b # None
      /\ \/ /\ object[t][b] # None
            /\ SendToHost(w, BufferCommitMsg(poolID[t], b))
            /\ UNCHANGED locked
         \/ /\ object[t][b] = None
            /\ locked' = [locked EXCEPT ![t][b] = TRUE]
            /\ UNCHANGED toHost
      /\ current' = [current EXCEPT ![t] = None]
      /\ awaitingFrame' = [awaitingFrame EXCEPT ![t] = TRUE]
      /\ UNCHANGED <<phase, poolID, object, targetMap, toWeb, toView, webUp, viewUp>>

(* EGLTarget::frameRendered commits the buffer if it has storage, and locks *)
(* it in either case.                                                       *)
FrameRendered(t) ==
  LET w == ProcessOf[t]
      b == current[t]
  IN  /\ InEventLoop(w)
      /\ phase[t] = "ready"
      /\ b # None
      /\ IF object[t][b] # None
           THEN SendToHost(w, BufferCommitMsg(poolID[t], b))
           ELSE UNCHANGED toHost
      /\ locked' = [locked EXCEPT ![t][b] = TRUE]
      /\ current' = [current EXCEPT ![t] = None]
      /\ awaitingFrame' = [awaitingFrame EXCEPT ![t] = TRUE]
      /\ UNCHANGED <<phase, poolID, object, targetMap, toWeb, toView, webUp, viewUp>>

-----------------------------------------------------------------------------
(* RendererBackend::handleMessage.  A pool that is not in the map, and a   *)
(* reply nobody waits for, are ignored.                                    *)
HandleWebMessage(w) ==
  LET m == Head(toWeb[w])
      t == targetMap[w][m.poolID]
  IN  /\ InEventLoop(w)
      /\ toWeb[w] # <<>>
      /\ toWeb' = Received(toWeb, w)
      /\ \/ /\ m.code = "FrameComplete"
            /\ t # None
            /\ awaitingFrame' = [awaitingFrame EXCEPT ![t] = FALSE]
            /\ UNCHANGED locked
         \/ /\ m.code = "ReleaseBuffer"
            /\ t # None
            /\ locked' = IF poolID[t] = m.poolID
                           THEN [locked EXCEPT ![t][m.bufferID] = FALSE]
                           ELSE locked
            /\ UNCHANGED awaitingFrame
         \/ /\ m.code \in {"FrameComplete", "ReleaseBuffer"} => t = None
            /\ UNCHANGED <<locked, awaitingFrame>>
      /\ UNCHANGED <<phase, poolID, object, current, targetMap>>
      /\ UNCHANGED <<toHost, toView, webUp, viewUp>>

\* Mutation: deinitialize unregisters the target already.
DeinitializeUnregisters(t) ==
  /\ Callable(t)
  /\ DestroyBufferPool(t)
  /\ phase' = [phase EXCEPT ![t] = "deinitialized"]
  /\ targetMap' = [targetMap EXCEPT ![ProcessOf[t]][poolID[t]] = None]
  /\ UNCHANGED <<poolID, current, awaitingFrame>>
  /\ UNCHANGED ipcVars

(* EGLTarget::deinitialize: the pool is dropped, the UI process not told. *)
Deinitialize(t) ==
  /\ Callable(t)
  /\ DestroyBufferPool(t)
  /\ phase' = [phase EXCEPT ![t] = "deinitialized"]
  /\ UNCHANGED <<poolID, current, targetMap, awaitingFrame>>
  /\ UNCHANGED ipcVars

(* EGLTarget::~EGLTarget *)
DestroyTarget(t) ==
  LET w == ProcessOf[t]
  IN  /\ InEventLoop(w)
      /\ phase[t] = "deinitialized"
      /\ phase' = [phase EXCEPT ![t] = "destroyed"]
      /\ SendToView(ViewOf[t], UnregisterPoolMsg(poolID[t]))
      /\ targetMap' = [targetMap EXCEPT ![w][poolID[t]] = None]
      /\ UNCHANGED <<poolID, locked, object, current, awaitingFrame>>
      /\ UNCHANGED <<toHost, toWeb, webUp, viewUp>>

(* The web process exits or is killed, between any two of its steps. *)
WebExits(w) ==
  /\ webUp[w]
  /\ CloseWeb(w)
  /\ UNCHANGED <<toHost, toView, viewUp>>
  /\ UNCHANGED webVars
=============================================================================
