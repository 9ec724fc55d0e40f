------------------------------ MODULE WpeAndroid ------------------------------
(***************************************************************************)
(* The composed system: web processes with their EGLTargets, the UI        *)
(* process with its main loop, RendererHost and ViewBackends, the          *)
(* application, and the sockets between them.                              *)
(***************************************************************************)
EXTENDS RendererBackend, ViewBackend

vars == <<ipcVars, webVars, hostVars, appVars, viewVars, loopVars>>

TypeOK == IpcTypeOK /\ LoopTypeOK /\ WebTypeOK /\ HostTypeOK /\ ViewTypeOK

Init == IpcInit /\ LoopInit /\ WebInit /\ HostInit /\ ViewInit

-----------------------------------------------------------------------------
\* AHardwareBuffers no one refers to: the ones an allocation may return.
InTransit(o) == \E w \in Processes : \E i \in 1 .. Len(toHost[w]) :
  toHost[w][i].code = "BufferAllocation" /\ toHost[w][i].object = o

HeldBy(v, o) == \E i \in 1 .. Len(held[v]) : held[v][i] = o

Unreferenced(o) ==
  /\ \A t \in Targets : webUp[ProcessOf[t]] => \A b \in Slots : object[t][b] # o
  /\ ~InTransit(o)
  /\ hostBuffer[o] = None
  /\ \A v \in Views : ~HeldBy(v, o)

\* What the steps of one part leave to the others.
WebFrame  == UNCHANGED <<hostVars, appVars, viewVars, loopVars>>
HostFrame == UNCHANGED <<webVars, viewVars>>
ViewFrame == UNCHANGED webVars

TargetStep(t) ==
  \/ Attached(ViewOf[t]) /\ CreateTarget(t)
  \/ Initialize(t)
  \/ ReceiveReply(t)
  \/ Resize(t)
  \/ FrameAborts(t)
  \/ \E b \in Slots :
       \/ FrameReuses(t, b)
       \/ FrameFailsToAllocate(t, b)
       \/ \E o \in Objects : Unreferenced(o) /\ FrameAllocates(t, b, o)
  \/ FrameRendered(t)
  \/ Deinitialize(t)
  \/ DestroyTarget(t)

ProxyStep(w) ==
  \/ ConstructPool(w)
  \/ PurgePool(w)
  \/ BufferAllocation(w)
  \/ CommitToView(w)
  \/ CommitWithoutView(w)

ReleaseStep(v) == \E i \in 1 .. Len(held[v]) : DispatchReleaseBuffer(v, i)

Next ==
  \/ \E t \in Targets : TargetStep(t) /\ WebFrame
  \/ \E w \in Processes :
       \/ (HandleWebMessage(w) \/ WebExits(w)) /\ WebFrame
       \/ (CreateClient(w) \/ ProxyStep(w)) /\ HostFrame
  \/ \E v \in Views :
       /\ \/ CreateView(v)
          \/ HandleViewMessage(v)
          \/ DestroyView(v)
          \/ ReleaseStep(v)
          \/ DispatchFrameComplete(v)
       /\ ViewFrame
  \/ Poll /\ HostFrame /\ UNCHANGED <<hostVars, appVars>>

Spec == Init /\ [][Next]_vars

(* What is sure to happen.  A web process returns from the receive once    *)
(* there is a message, ends a frame it began and dispatches its messages;  *)
(* the UI process runs its main loop; the application releases what it no  *)
(* longer shows and completes every frame.  Nothing says that a target is  *)
(* created, renders, is resized or torn down.                              *)
Fairness ==
  /\ \A t \in Targets :
       /\ WF_vars(ReceiveReply(t) /\ WebFrame)
       /\ WF_vars(FrameRendered(t) /\ WebFrame)
  /\ \A w \in Processes :
       /\ WF_vars(HandleWebMessage(w) /\ WebFrame)
       /\ WF_vars(ProxyStep(w) /\ HostFrame)
  /\ \A v \in Views :
       /\ WF_vars(HandleViewMessage(v) /\ ViewFrame)
       /\ WF_vars(ReleaseStep(v) /\ ViewFrame)
       /\ WF_vars(DispatchFrameComplete(v) /\ ViewFrame)
  /\ WF_vars(Poll /\ HostFrame /\ UNCHANGED <<hostVars, appVars>>)

FairSpec == Spec /\ Fairness

-----------------------------------------------------------------------------
(* Memory the application and the web process share.                       *)

\* t renders into o right now.
Rendering(t, o) ==
  /\ webUp[ProcessOf[t]]
  /\ current[t] # None
  /\ object[t][current[t]] = o

\* The commit of slot b of pool p is on its way to the proxy of w.
CommitInTransit(w, p, b) ==
  \E i \in 1 .. Len(toHost[w]) : toHost[w][i] = BufferCommitMsg(p, b)

\* The release of slot b of pool p is on its way back to w.
ReleaseInTransit(w, p, b) ==
  \E i \in 1 .. Len(toWeb[w]) : toWeb[w][i] = ReleaseBufferMsg(p, b)

(* A buffer is never rendered into while the application may show it: from *)
(* its commit to its release, frameWillRender does not choose its slot.    *)
(* This is what `locked' of both processes, PoolPurge and ReleaseBuffer    *)
(* are for.                                                                *)
NoRenderWhileShown ==
  \A t \in Targets : \A o \in Objects : Rendering(t, o) =>
    /\ \A v \in Views : ~HeldBy(v, o)
    /\ ~CommitInTransit(ProcessOf[t], poolID[t], current[t])
    /\ hostBuffer[o] # None => ~hostBuffer[o].locked

(* EGLTarget::releaseBuffer unlocks a slot only when the buffer that is in *)
(* it now has come back: a ReleaseBuffer sent for the buffer a resize      *)
(* threw out of the slot never unlocks its successor.                      *)
UnlocksReturned ==
  \A t \in Targets : \A b \in Slots :
    LET o == object[t][b]
    IN  locked[t][b] /\ ~locked'[t][b] /\ o # None /\ object'[t][b] = o =>
          /\ \A v \in Views : ~HeldBy(v, o)
          /\ ~CommitInTransit(ProcessOf[t], poolID[t], b)
          /\ hostBuffer[o] # None => ~hostBuffer[o].locked

ReleaseUnlocksReturned == [][UnlocksReturned]_vars

(* A buffer the application holds is alive and locked in the UI process:   *)
(* neither PoolPurge nor BufferAllocation deletes it under the             *)
(* application, which passes the pointer to getAHardwareBuffer and         *)
(* dispatchReleaseBuffer.                                                  *)
HeldBuffersAlive ==
  \A v \in Views : \A o \in Objects :
    HeldBy(v, o) => hostBuffer[o] # None /\ hostBuffer[o].locked

(* A view's application gets the buffers of its own targets only, never    *)
(* those of another web view.                                              *)
NoForeignBuffer ==
  \A v \in Views : \A t \in Targets : \A b \in Slots :
    webUp[ProcessOf[t]] /\ HeldBy(v, object[t][b]) => ViewOf[t] = v

(* bufferCommit finds a buffer in the slot when the pool has a view: it    *)
(* dereferences the pointer without a test (renderer-host.cpp:254).        *)
NoNullCommit ==
  \A w \in Processes : Reads(w, "BufferCommit") =>
    LET m == Head(toHost[w])
    IN  viewBackendMap[m.poolID] # None => poolBuffers[m.poolID][m.bufferID] # None

(* The slots of the pools and the pendingDelete flag of purgePool account  *)
(* for every Buffer of the UI process: no slot points to a deleted Buffer  *)
(* or to one of another slot, and a Buffer that is in no slot is marked,   *)
(* so that its release deletes it.                                         *)
SlotsPointToLive ==
  \A p \in PoolIDs : \A b \in Slots : poolBuffers[p][b] # None =>
    LET buffer == hostBuffer[poolBuffers[p][b]]
    IN  buffer # None /\ buffer.poolID = p /\ buffer.bufferID = b

MarkedOutsideSlots ==
  \A o \in Objects : hostBuffer[o] # None =>
    (hostBuffer[o].pendingDelete
       <=> \A p \in PoolIDs : \A b \in Slots : poolBuffers[p][b] # o)

HostHeapConsistent == SlotsPointToLive /\ MarkedOutsideSlots

(* releaseBuffer and purgePool leave no Buffer behind: one that is locked, *)
(* and so survives purges, is one that an application can still release,   *)
(* unless it went with its view.  With MarkedOutsideSlots: a Buffer is in  *)
(* a slot, or its release is still to come and will delete it.             *)
LockedBuffersHeld ==
  \A o \in Objects : hostBuffer[o] # None /\ hostBuffer[o].locked =>
    \/ \E v \in Views : HeldBy(v, o)
    \/ \E v \in Views : Attached(v) /\ ~viewUp[v]

(* Every pool a handler looks up exists: findBufferPool returns null for   *)
(* another one, and purgePool, bufferAllocation, bufferCommit,             *)
(* releaseBuffer and frameComplete all dereference the result.  It holds   *)
(* even for a target whose reply was misread and that goes on with         *)
(* poolID 0.                                                               *)
PoolsExist ==
  /\ \A w \in Processes : toHost[w] # <<>> /\ Head(toHost[w]).code # "PoolConstruction" =>
       poolClient[Head(toHost[w]).poolID] # None
  /\ \A o \in Objects : hostBuffer[o] # None => poolClient[hostBuffer[o].poolID] # None
  /\ \A v \in Views : unfinished[v] # <<>> => poolClient[lastExportedPoolID] # None

(* The part of the invariant behind it that concerns the sockets: a handle *)
(* on its way to the UI process is on its way once, and the UI process has *)
(* no Buffer for it yet.                                                   *)
TransitFresh ==
  \A w \in Processes : \A i \in 1 .. Len(toHost[w]) :
    toHost[w][i].code = "BufferAllocation" => hostBuffer[toHost[w][i].object] = None

TransitOnce ==
  \A v, w \in Processes : \A i \in 1 .. Len(toHost[v]), j \in 1 .. Len(toHost[w]) :
    /\ toHost[v][i].code = "BufferAllocation"
    /\ toHost[w][j].code = "BufferAllocation"
    /\ toHost[v][i].object = toHost[w][j].object
    => v = w /\ i = j

HeapInv == TypeOK /\ HostHeapConsistent /\ TransitFresh /\ TransitOnce

(* The maps from pools to objects hold raw pointers, and both processes    *)
(* call through them: a view in m_viewBackendMap exists and will take the  *)
(* pool out when it is destroyed, a target in m_targetMap exists and will  *)
(* do so too.  A stray UnregisterPool or an insert() for a pool that is    *)
(* already there must not separate the two.                                *)
ViewsInMapLive ==
  \A p \in PoolIDs : \A v \in Views :
    viewBackendMap[p] = v => viewUp[v] /\ p \in poolIds[v]

TargetsInMapLive ==
  \A w \in Processes : \A p \in PoolIDs : \A t \in Targets :
    targetMap[w][p] = t =>
      ProcessOf[t] = w /\ poolID[t] = p /\ phase[t] \in {"ready", "deinitialized"}

MapsPointToLive == ViewsInMapLive /\ TargetsInMapLive

\* What it rests on: a view that is gone gets no more registrations.
ClosedViewsSilent == \A v \in Views : ~viewUp[v] => toView[v] = <<>>

MapInv == HeapInv /\ MapsPointToLive /\ ClosedViewsSilent

-----------------------------------------------------------------------------
(* Slots and pacing.                                                       *)

(* frameWillRender finds a slot and does not abort the web process         *)
(* (renderer-backend-egl.cpp:327): with at most MaxHeld < PoolSize buffers *)
(* held at a completion, the pacing keeps one slot unlocked.               *)
SlotAvailable ==
  \A t \in Targets : CanRender(t) => \E b \in Slots : ~locked[t][b]

(* A slot is locked only as long as its buffer is with the UI process: its *)
(* commit is on the way there, or the application holds it, or its release *)
(* is on the way back.  No commit is lost while its view and target live.  *)
(* A failed allocation costs the slot in which it failed.                  *)
LockedSlotsAccounted ==
  \A t \in Targets : \A b \in Slots :
    LET w == ProcessOf[t]
        p == poolID[t]
    IN  webUp[w] /\ viewUp[ViewOf[t]] /\ locked[t][b] =>
          \/ object[t][b] = None
          \/ CommitInTransit(w, p, b)
          \/ HeldBy(ViewOf[t], object[t][b])
          \/ ReleaseInTransit(w, p, b)

(* The target waits for a frame that is still to be completed: while       *)
(* awaitingFrame is set, the commit, the application's duty to complete    *)
(* it, or the FrameComplete is somewhere in the system, exactly once.      *)
(* The exception is a frame without storage, after a failed allocation:    *)
(* frameRendered locks its slot and commits nothing.                       *)
FrameIsUnderWay ==
  \A t \in Targets :
    LET w == ProcessOf[t]
        p == poolID[t]
        Commits   == {i \in 1 .. Len(toHost[w]) : \E b \in Slots : toHost[w][i] = BufferCommitMsg(p, b)}
        Pending   == {i \in 1 .. Len(unfinished[ViewOf[t]]) : unfinished[ViewOf[t]][i] = p}
        FrameFailed == \E b \in Slots : locked[t][b] /\ object[t][b] = None
        Completed == {i \in 1 .. Len(toWeb[w]) : toWeb[w][i] = FrameCompleteMsg(p)}
    IN  webUp[w] /\ viewUp[ViewOf[t]] /\ phase[t] = "ready" =>
          Cardinality(Commits) + Cardinality(Pending) + Cardinality(Completed)
            = (IF awaitingFrame[t] /\ ~FrameFailed THEN 1 ELSE 0)

(* A web process that does not read its socket for a while gets few        *)
(* messages: the releases of what the application may hold, and one        *)
(* completion.  IPC::Host::sendMessage is a blocking send of the UI        *)
(* process's main thread, and a socket that filled up would stop it.       *)
(* Stated for web processes with one target.                               *)
UnreadBounded ==
  \A w \in Processes : Len(toWeb[w]) <= MaxHeld + 1

-----------------------------------------------------------------------------
(* What comments of the source say of the program.                         *)

(* handleMessage of the RendererBackend finds no target for a pool only    *)
(* when the page has been destroyed (renderer-backend-egl.cpp:173).        *)
UnknownPoolMeansDestroyed ==
  \A w \in Processes : InEventLoop(w) /\ toWeb[w] # <<>> =>
    LET m == Head(toWeb[w])
    IN  m.code \in {"FrameComplete", "ReleaseBuffer"} /\ targetMap[w][m.poolID] = None =>
          \E t \in Targets : poolID[t] = m.poolID /\ ProcessOf[t] = w /\ phase[t] = "destroyed"

(* bufferCommit finds no view backend for the pool only when the view or   *)
(* its page has been destroyed (renderer-host.cpp:258).                    *)
CommitWithoutViewMeansTeardown ==
  \A w \in Processes : Reads(w, "BufferCommit") =>
    LET p == Head(toHost[w]).poolID
    IN  viewBackendMap[p] = None =>
          \E t \in Targets :
            /\ ProcessOf[t] = w /\ poolID[t] = p
            /\ ~webUp[w] \/ ~viewUp[ViewOf[t]] \/ phase[t] \in {"deinitialized", "destroyed"}

(* The first message after PoolConstruction is its reply                   *)
(* (renderer-backend-egl.cpp:242).                                         *)
ReplyComesFirst ==
  \A t \in Targets :
    LET messages == toWeb[ProcessOf[t]]
    IN  phase[t] = "constructing" /\ messages # <<>> =>
          Head(messages).code = "PoolConstructionReply"

(* The pool of the last commit is the pool of the frame a view completes   *)
(* (view-backend.cpp:81).                                                  *)
CompletesItsOwnFrame ==
  \A v \in Views : CanComplete(v) => lastExportedPoolID = Head(unfinished[v])

(* A Buffer of the UI process has the hardware buffer it was made for      *)
(* (renderer-host.cpp:64).                                                 *)
BuffersHaveHandle ==
  \A o \in Objects : hostBuffer[o] # None => hostBuffer[o].hasHandle

-----------------------------------------------------------------------------
(* Progress, under FairSpec.                                               *)

TornDown(t) ==
  \/ ~webUp[ProcessOf[t]]
  \/ ~viewUp[ViewOf[t]]
  \/ phase[t] \in {"deinitialized", "destroyed"}

(* EGLTarget::initialize returns: the synchronous PoolConstruction is      *)
(* always answered.                                                        *)
InitializeReturns ==
  \A t \in Targets : phase[t] = "constructing" ~> (phase[t] = "ready" \/ TornDown(t))

(* Every rendered frame is reported complete to WebKit, which could not    *)
(* render again otherwise.                                                 *)
FrameCompletes ==
  \A t \in Targets : awaitingFrame[t] ~> (~awaitingFrame[t] \/ TornDown(t))

(* A buffer replaced on screen comes back: its slot is unlocked again, or  *)
(* a resize has emptied it.                                                *)
ReplacedBufferReturns ==
  \A t \in Targets : \A b \in Slots :
    (\E i \in 1 .. Len(held[ViewOf[t]]) - 1 :
       locked[t][b] /\ object[t][b] # None /\ held[ViewOf[t]][i] = object[t][b])
      ~> (~locked[t][b] \/ TornDown(t))
=============================================================================
