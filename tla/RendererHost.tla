----------------------------- MODULE RendererHost -----------------------------
(***************************************************************************)
(* The UI process side: the RendererHost singleton, the                    *)
(* RendererHostClientProxy of each web process, the buffer pools and the   *)
(* Buffers in them (src/src/renderer-host.cpp), and what a commit hands to *)
(* the application through AndroidViewBackend.                             *)
(*                                                                         *)
(* A handler that would dereference a null or dangling pointer has no      *)
(* successor state here, or one that says nothing (the process is gone);   *)
(* NoNullCommit, HeldBuffersAlive, PoolsExist and MapsPointToLive in       *)
(* WpeAndroid say that such states are not reached.                        *)
(***************************************************************************)
EXTENDS UiLoop

CONSTANT RecvMayFail  \* AHardwareBuffer_recvHandleFromUnixSocket may fail

VARIABLES
  nextPoolID,        \* the static poolID counter of createBufferPool
  poolClient,        \* poolClient[p]: BufferPool::m_client, None if no such pool
  poolBuffers,       \* poolBuffers[p][b]: BufferPool::m_buffers
  hostBuffer,        \* hostBuffer[o]: the live Buffer for handle o, or None
  viewBackendMap,    \* viewBackendMap[p]: RendererHost::m_viewBackendMap
  lastExportedPoolID,\* m_lastExportedPoolID
  held,              \* held[v]: committed to v's application, not released
  unfinished         \* unfinished[v]: pools of the commits not yet completed

hostVars == <<nextPoolID, poolClient, poolBuffers, hostBuffer,
              viewBackendMap, lastExportedPoolID>>
appVars  == <<held, unfinished>>

\* class Buffer; hasHandle tells whether m_hardwareBuffer is not null.
Buffer == [poolID : PoolIDs, bufferID : Slots, locked : BOOLEAN,
           pendingDelete : BOOLEAN, hasHandle : BOOLEAN]

ASSUME RendererHostAssumption ==
  /\ RecvMayFail \in BOOLEAN
  /\ None \notin Buffer

HostTypeOK ==
  /\ nextPoolID \in 0 .. MaxPools
  /\ poolClient \in [PoolIDs -> Processes \cup {None}]
  /\ poolBuffers \in [PoolIDs -> [Slots -> Objects \cup {None}]]
  /\ hostBuffer \in [Objects -> Buffer \cup {None}]
  /\ viewBackendMap \in [PoolIDs -> Views \cup {None}]
  /\ lastExportedPoolID \in PoolIDs
  /\ held \in [Views -> Seq(Objects)]
  /\ unfinished \in [Views -> Seq(PoolIDs)]

HostInit ==
  /\ nextPoolID = 0
  /\ poolClient = [p \in PoolIDs |-> None]
  /\ poolBuffers = [p \in PoolIDs |-> [b \in Slots |-> None]]
  /\ hostBuffer = [o \in Objects |-> None]
  /\ viewBackendMap = [p \in PoolIDs |-> None]
  /\ lastExportedPoolID = 0
  /\ held = [v \in Views |-> <<>>]
  /\ unfinished = [v \in Views |-> <<>>]

\* IPC::Host::socketCallback of w's proxy finds a message with this code.
Reads(w, code) == Turn(w) /\ toHost[w] # <<>> /\ Head(toHost[w]).code = code

\* The message is gone from the socket, and the loop goes on.
Done(w) == toHost' = Received(toHost, w) /\ Served(w)

-----------------------------------------------------------------------------
(* RendererHost::createClient, and the launch of the web process with the  *)
(* descriptor it returns.                                                  *)
CreateClient(w) ==
  /\ Attach(w)
  /\ OpenWeb(w)
  /\ UNCHANGED <<hostVars, appVars>>

\* Mutation: the counter is incremented before it is used.
PreIncrement == nextPoolID + 1

\* The identifier createBufferPool gives to a new pool.
NewPoolID == nextPoolID

(* RendererHostClientProxy::constructPool, RendererHost::createBufferPool. *)
ConstructPool(w) ==
  /\ Reads(w, "PoolConstruction")
  /\ nextPoolID < MaxPools
  /\ nextPoolID' = nextPoolID + 1
  /\ poolClient' = [poolClient EXCEPT ![NewPoolID] = w]
  /\ Done(w)
  /\ SendToWeb(w, PoolConstructionReplyMsg(NewPoolID))
  /\ UNCHANGED <<poolBuffers, hostBuffer, viewBackendMap, lastExportedPoolID>>
  /\ UNCHANGED <<toView, webUp, viewUp>>
  /\ UNCHANGED appVars

\* Mutations: a purge deletes a locked buffer, and a purge does not mark it.
PurgeDeletes(buffer) == None
PurgeForgets(buffer) == IF buffer.locked THEN buffer ELSE None

\* A purge marks a locked buffer, to be deleted on its release, and deletes
\* any other.
AfterPurge(buffer) ==
  IF buffer.locked THEN [buffer EXCEPT !.pendingDelete = TRUE] ELSE None

(* RendererHostClientProxy::purgePool: the pool forgets all its buffers. *)
PurgePool(w) ==
  LET p == Head(toHost[w]).poolID
      Purged(o) == \E b \in Slots : poolBuffers[p][b] = o
  IN  /\ Reads(w, "PoolPurge")
      /\ hostBuffer' = [o \in Objects |->
           IF Purged(o) THEN AfterPurge(hostBuffer[o]) ELSE hostBuffer[o]]
      /\ poolBuffers' = [poolBuffers EXCEPT ![p] = [b \in Slots |-> None]]
      /\ Done(w)
      /\ UNCHANGED <<nextPoolID, poolClient, viewBackendMap, lastExportedPoolID>>
      /\ UNCHANGED <<toWeb, toView, webUp, viewUp>>
      /\ UNCHANGED appVars

(* RendererHostClientProxy::bufferAllocation, with the receive of the      *)
(* handle: the slot's old buffer is deleted, whatever its state, and a new *)
(* one takes its place even if no handle was received.                     *)
BufferAllocation(w) ==
  LET m   == Head(toHost[w])
      old == poolBuffers[m.poolID][m.bufferID]
  IN  /\ Reads(w, "BufferAllocation")
      /\ \E received \in {TRUE, ~RecvMayFail} :
           hostBuffer' = [o \in Objects |->
             IF o = m.object
               THEN [poolID |-> m.poolID, bufferID |-> m.bufferID, locked |-> FALSE,
                     pendingDelete |-> FALSE, hasHandle |-> received]
             ELSE IF o = old THEN None ELSE hostBuffer[o]]
      /\ poolBuffers' = [poolBuffers EXCEPT ![m.poolID][m.bufferID] = m.object]
      /\ Done(w)
      /\ UNCHANGED <<nextPoolID, poolClient, viewBackendMap, lastExportedPoolID>>
      /\ UNCHANGED <<toWeb, toView, webUp, viewUp>>
      /\ UNCHANGED appVars

-----------------------------------------------------------------------------
\* Mutation: the view of the previous commit is taken.
PreviousView(p) == viewBackendMap[lastExportedPoolID]

\* RendererHost::findViewBackend
FindViewBackend(p) == viewBackendMap[p]

(* RendererHostClientProxy::bufferCommit.  With a view the buffer is locked *)
(* and handed to the application, ...                                       *)
CommitToView(w) ==
  LET m == Head(toHost[w])
      o == poolBuffers[m.poolID][m.bufferID]
      v == FindViewBackend(m.poolID)
  IN  /\ Reads(w, "BufferCommit")
      /\ v # None
      /\ o # None   \* buffer->setLocked() on a null buffer otherwise
      /\ lastExportedPoolID' = m.poolID
      /\ hostBuffer' = [hostBuffer EXCEPT ![o].locked = TRUE]
      /\ held' = [held EXCEPT ![v] = Append(@, o)]
      /\ unfinished' = [unfinished EXCEPT ![v] = Append(@, m.poolID)]
      /\ Done(w)
      /\ UNCHANGED <<nextPoolID, poolClient, poolBuffers, viewBackendMap>>
      /\ UNCHANGED <<toWeb, toView, webUp, viewUp>>

\* Mutation: the buffer is deleted, but its slot still points to it.
DropButKeepSlot(w) ==
  LET m == Head(toHost[w])
  IN  /\ Reads(w, "BufferCommit")
      /\ FindViewBackend(m.poolID) = None
      /\ lastExportedPoolID' = m.poolID
      /\ hostBuffer' = [x \in Objects |->
           IF x = poolBuffers[m.poolID][m.bufferID] THEN None ELSE hostBuffer[x]]
      /\ Done(w)
      /\ UNCHANGED <<nextPoolID, poolClient, poolBuffers, viewBackendMap>>
      /\ UNCHANGED <<toWeb, toView, webUp, viewUp>>
      /\ UNCHANGED appVars

(* ... without one it is deleted and nobody is told. *)
CommitWithoutView(w) ==
  LET m == Head(toHost[w])
      o == poolBuffers[m.poolID][m.bufferID]
  IN  /\ Reads(w, "BufferCommit")
      /\ FindViewBackend(m.poolID) = None
      /\ lastExportedPoolID' = m.poolID
      /\ poolBuffers' = [poolBuffers EXCEPT ![m.poolID][m.bufferID] = None]
      /\ hostBuffer' = [x \in Objects |-> IF x = o THEN None ELSE hostBuffer[x]]
      /\ Done(w)
      /\ UNCHANGED <<nextPoolID, poolClient, viewBackendMap>>
      /\ UNCHANGED <<toWeb, toView, webUp, viewUp>>
      /\ UNCHANGED appVars

-----------------------------------------------------------------------------
\* Mutation: the web process is told even of a buffer that is deleted.
ReleaseTellsAlways(o) ==
  LET buffer == hostBuffer[o]
  IN  /\ buffer # None
      /\ hostBuffer' = [hostBuffer EXCEPT ![o] =
           IF buffer.pendingDelete THEN None ELSE [buffer EXCEPT !.locked = FALSE]]
      /\ SendToWeb(poolClient[buffer.poolID],
                   ReleaseBufferMsg(buffer.poolID, buffer.bufferID))
      /\ UNCHANGED <<nextPoolID, poolClient, poolBuffers, viewBackendMap, lastExportedPoolID>>

\* Mutation: the web process is never told.
ReleaseSilently(o) ==
  /\ hostBuffer[o] # None
  /\ hostBuffer' = [hostBuffer EXCEPT ![o] =
       IF @.pendingDelete THEN None ELSE [@ EXCEPT !.locked = FALSE]]
  /\ UNCHANGED <<toWeb, nextPoolID, poolClient, poolBuffers, viewBackendMap, lastExportedPoolID>>

\* Mutation: a buffer stays locked, and a marked one is not deleted.
ReleaseForgets(o) ==
  LET buffer == hostBuffer[o]
  IN  /\ buffer # None
      /\ SendToWeb(poolClient[buffer.poolID],
                   ReleaseBufferMsg(buffer.poolID, buffer.bufferID))
      /\ UNCHANGED hostVars

\* Mutation: the release of a buffer also completes a frame.
ReleaseCompletes(o) ==
  LET p == hostBuffer[o].poolID
      w == poolClient[p]
  IN  /\ hostBuffer[o] # None
      /\ hostBuffer' = [hostBuffer EXCEPT ![o].locked = FALSE]
      /\ toWeb' = IF webUp[w] THEN [toWeb EXCEPT ![w] =
             @ \o <<ReleaseBufferMsg(p, hostBuffer[o].bufferID), FrameCompleteMsg(p)>>]
           ELSE toWeb
      /\ UNCHANGED <<nextPoolID, poolClient, poolBuffers, viewBackendMap, lastExportedPoolID>>

(* RendererHost::releaseBuffer: a buffer of a purged pool is deleted, for  *)
(* another one the web process is told that it may render into it again.   *)
ReleaseBuffer(o) ==
  LET buffer == hostBuffer[o]
  IN  /\ buffer # None
      /\ \/ /\ buffer.pendingDelete
            /\ hostBuffer' = [hostBuffer EXCEPT ![o] = None]
            /\ UNCHANGED toWeb
         \/ /\ ~buffer.pendingDelete
            /\ hostBuffer' = [hostBuffer EXCEPT ![o].locked = FALSE]
            /\ SendToWeb(poolClient[buffer.poolID],
                         ReleaseBufferMsg(buffer.poolID, buffer.bufferID))
      /\ UNCHANGED <<nextPoolID, poolClient, poolBuffers, viewBackendMap, lastExportedPoolID>>

\* Mutation: the completion is not passed on.
CompleteSilently == UNCHANGED <<toWeb, hostVars>>

(* RendererHost::frameComplete goes to the pool of the last commit, of     *)
(* whatever view.                                                          *)
FrameComplete ==
  /\ poolClient[lastExportedPoolID] # None
  /\ SendToWeb(poolClient[lastExportedPoolID], FrameCompleteMsg(lastExportedPoolID))
  /\ UNCHANGED hostVars
=============================================================================
