--------------------------- MODULE WpeAndroidProofs ---------------------------
(***************************************************************************)
(* Theorems about WpeAndroid, for every value of its constants: any number *)
(* of web processes, targets, views, buffers and slots.  Nothing is        *)
(* assumed of them: types and the heap of the UI process are correct, the  *)
(* maps point to live objects, every pool a handler looks up exists, and a *)
(* Buffer stays locked only as long as its release may come.               *)
(***************************************************************************)
EXTENDS WpeAndroidInvariants, SequenceTheorems, TLAPS

-----------------------------------------------------------------------------
(* Families of queues, as toHost, toWeb and toView are.                    *)

(* Removing the first message of one queue keeps the family's type.        *)
LEMMA ReceivedType ==
  ASSUME NEW I, NEW S, NEW q \in [I -> Seq(S)], NEW x \in I, q[x] # <<>>
  PROVE  /\ Received(q, x) \in [I -> Seq(S)]
         /\ Head(q[x]) \in S
<1>1. q[x] \in Seq(S)
  OBVIOUS
<1>2. Head(q[x]) \in S /\ Tail(q[x]) \in Seq(S)
  BY <1>1, HeadTailProperties
<1> QED
  BY <1>2 DEF Received

(* Appending a message to one queue keeps the family's type.               *)
LEMMA SentType ==
  ASSUME NEW I, NEW S, NEW q \in [I -> Seq(S)], NEW x, NEW m \in S
  PROVE  [q EXCEPT ![x] = Append(@, m)] \in [I -> Seq(S)]
<1>1. x \in I => Append(q[x], m) \in Seq(S)
  BY AppendProperties
<1> QED
  BY <1>1

(* Which fields the messages to a proxy have.                              *)
LEMMA HostMessageFields ==
  ASSUME NEW m \in HostMessage
  PROVE  /\ m.code \in {"PoolConstruction", "PoolPurge", "BufferAllocation", "BufferCommit"}
         /\ m.code # "PoolConstruction" => m.poolID \in PoolIDs
         /\ m.code \in {"BufferAllocation", "BufferCommit"} => m.bufferID \in Slots
         /\ m.code = "BufferAllocation" => m.object \in Objects
  BY DEF HostMessage

(* Which fields the messages to a web process have.                        *)
LEMMA WebMessageFields ==
  ASSUME NEW m \in WebMessage
  PROVE  /\ m.poolID \in PoolIDs
         /\ m.code = "ReleaseBuffer" => m.bufferID \in Slots
  BY DEF WebMessage

(* The message constructors build messages.                                *)
LEMMA MessageTypes ==
  /\ PoolConstructionMsg \in HostMessage
  /\ \A p \in PoolIDs :
       /\ PoolPurgeMsg(p) \in HostMessage
       /\ PoolConstructionReplyMsg(p) \in WebMessage
       /\ FrameCompleteMsg(p) \in WebMessage
       /\ RegisterPoolMsg(p) \in ViewMessage
       /\ UnregisterPoolMsg(p) \in ViewMessage
  /\ \A p \in PoolIDs, b \in Slots :
       /\ BufferCommitMsg(p, b) \in HostMessage
       /\ ReleaseBufferMsg(p, b) \in WebMessage
  /\ \A p \in PoolIDs, b \in Slots, o \in Objects :
       BufferAllocationMsg(p, b, o) \in HostMessage
  BY DEF HostMessage, WebMessage, ViewMessage, PoolConstructionMsg, PoolPurgeMsg,
         BufferAllocationMsg, BufferCommitMsg, PoolConstructionReplyMsg, FrameCompleteMsg,
         ReleaseBufferMsg, RegisterPoolMsg, UnregisterPoolMsg

-----------------------------------------------------------------------------
(* Type correctness.  The handlers of the UI process keep the type because *)
(* the slots point to live buffers (SlotsPointToLive), so the type         *)
(* invariant is inductive only together with the heap invariant below.     *)

(* A step of a target keeps the types.                                     *)
LEMMA TargetTypes ==
  ASSUME TypeOK, NEW t \in Targets, TargetStep(t), WebFrame
  PROVE  TypeOK'
<1> DEFINE w == ProcessOf[t]
<1> USE IpcAssumption DEF TypeOK, IpcTypeOK, LoopTypeOK, WebTypeOK, HostTypeOK, ViewTypeOK,
                          WebFrame, hostVars, appVars, viewVars, loopVars, ipcVars
<1>1. w \in Processes /\ ViewOf[t] \in Views
  OBVIOUS
<1>2. CASE Initialize(t)
  BY <1>1, <1>2, SentType, MessageTypes DEF Initialize, SendToHost, Phases
<1>3. CASE ReceiveReply(t)
  <2> DEFINE m == Head(toWeb[w])
  <2>1. m \in WebMessage /\ toWeb' \in [Processes -> Seq(WebMessage)]
    BY <1>1, <1>3, ReceivedType DEF ReceiveReply
  <2>2. m.poolID \in PoolIDs /\ RegisterPoolMsg(m.poolID) \in ViewMessage
    BY <2>1, WebMessageFields, MessageTypes
  <2>3. \/ toView' = toView
        \/ toView' = [toView EXCEPT ![ViewOf[t]] = Append(@, RegisterPoolMsg(m.poolID))]
    BY <1>3 DEF ReceiveReply, SendToView
  <2>4. toView' \in [Views -> Seq(ViewMessage)]
    <3>1. [toView EXCEPT ![ViewOf[t]] = Append(@, RegisterPoolMsg(m.poolID))]
            \in [Views -> Seq(ViewMessage)]
      BY <2>2, SentType
    <3> QED
      BY <2>3, <3>1
  <2>5. \/ targetMap' = targetMap
        \/ targetMap' = [targetMap EXCEPT ![w][m.poolID] = t]
    BY <1>3 DEF ReceiveReply
  <2>6. targetMap' \in [Processes -> [PoolIDs -> Targets \cup {None}]]
    <3>1. targetMap \in [Processes -> [PoolIDs -> Targets \cup {None}]]
      OBVIOUS
    <3> HIDE DEF TypeOK
    <3> QED
      BY <1>1, <2>2, <2>5, <3>1
  <2> QED
    BY <1>3, <2>1, <2>2, <2>4, <2>6 DEF ReceiveReply, Phases
<1>4. CASE Resize(t)
  BY <1>1, <1>4, SentType, MessageTypes DEF Resize, SendToHost, DestroyBufferPool
<1>5. CASE FrameAborts(t)
  BY <1>1, <1>5 DEF FrameAborts, CloseWeb, webVars
<1>6. CASE \E b \in Slots : FrameReuses(t, b) \/ FrameFailsToAllocate(t, b)
  <2>1. PICK b \in Slots : /\ current' = [current EXCEPT ![t] = b]
                           /\ UNCHANGED <<phase, poolID, locked, object, targetMap, awaitingFrame>>
                           /\ UNCHANGED ipcVars
    BY <1>6 DEF FrameReuses, FrameFailsToAllocate
  <2> QED
    BY <2>1
<1>7. CASE \E b \in Slots, o \in Objects : FrameAllocates(t, b, o)
  BY <1>1, <1>7, SentType, MessageTypes DEF FrameAllocates, SendToHost
<1>8. CASE FrameRendered(t)
  <2>1. current[t] \in Slots
    BY <1>8 DEF FrameRendered
  <2>2. toHost' \in [Processes -> Seq(HostMessage)]
    <3>1. BufferCommitMsg(poolID[t], current[t]) \in HostMessage
      BY <2>1, MessageTypes
    <3>2. \/ toHost' = toHost
          \/ toHost' = [toHost EXCEPT ![w] = Append(@, BufferCommitMsg(poolID[t], current[t]))]
      BY <1>8 DEF FrameRendered, SendToHost
    <3>3. [toHost EXCEPT ![w] = Append(@, BufferCommitMsg(poolID[t], current[t]))]
            \in [Processes -> Seq(HostMessage)]
      BY <3>1, SentType
    <3> QED
      BY <3>2, <3>3
  <2> QED
    BY <1>8, <2>1, <2>2 DEF FrameRendered
<1>9. CASE Deinitialize(t)
  BY <1>9 DEF Deinitialize, DestroyBufferPool, Phases
<1>11. CASE CreateTarget(t)
  BY <1>11 DEF CreateTarget, Phases
<1>10. CASE DestroyTarget(t)
  <2>1. toView' \in [Views -> Seq(ViewMessage)]
    BY <1>1, <1>10, SentType, MessageTypes DEF DestroyTarget, SendToView
  <2> QED
    BY <1>1, <1>10, <2>1 DEF DestroyTarget, Phases
<1> QED
  BY <1>2, <1>3, <1>4, <1>5, <1>6, <1>7, <1>8, <1>9, <1>10, <1>11 DEF TargetStep

(* A step of a web process apart from its targets keeps the types.         *)
LEMMA WebTypes ==
  ASSUME TypeOK, NEW w \in Processes, HandleWebMessage(w) \/ WebExits(w), WebFrame
  PROVE  TypeOK'
<1> USE IpcAssumption DEF TypeOK, IpcTypeOK, LoopTypeOK, WebTypeOK, HostTypeOK, ViewTypeOK,
                          WebFrame, hostVars, appVars, viewVars, loopVars
<1>1. CASE HandleWebMessage(w)
  <2> DEFINE m == Head(toWeb[w])
             t == targetMap[w][m.poolID]
  <2>1. m \in WebMessage /\ toWeb' \in [Processes -> Seq(WebMessage)]
    BY <1>1, ReceivedType DEF HandleWebMessage
  <2>2. m.poolID \in PoolIDs /\ (m.code = "ReleaseBuffer" => m.bufferID \in Slots)
    BY <2>1, WebMessageFields
  <2>3. t \in Targets \cup {None}
    BY <2>2
  <2>4. locked' \in [Targets -> [Slots -> BOOLEAN]]
    <3>1. \/ locked' = locked
          \/ \E s \in Targets, b \in Slots : locked' = [locked EXCEPT ![s][b] = FALSE]
      BY <1>1, <2>2, <2>3 DEF HandleWebMessage
    <3>2. CASE \E s \in Targets, b \in Slots : locked' = [locked EXCEPT ![s][b] = FALSE]
      <4>1. PICK s \in Targets, b \in Slots : locked' = [locked EXCEPT ![s][b] = FALSE]
        BY <3>2
      <4>2. [locked[s] EXCEPT ![b] = FALSE] \in [Slots -> BOOLEAN]
        OBVIOUS
      <4> QED
        BY <4>1, <4>2
    <3> QED
      BY <3>1, <3>2
  <2>5. awaitingFrame' \in [Targets -> BOOLEAN]
    BY <1>1, <2>3 DEF HandleWebMessage
  <2> QED
    BY <1>1, <2>1, <2>4, <2>5 DEF HandleWebMessage
<1>2. CASE WebExits(w)
  BY <1>2 DEF WebExits, CloseWeb, webVars
<1> QED
  BY <1>1, <1>2

(* A step of a proxy keeps the types.                                      *)
LEMMA ProxyTypes ==
  ASSUME TypeOK, HostHeapConsistent, NEW w \in Processes, ProxyStep(w), HostFrame
  PROVE  TypeOK'
<1> DEFINE m == Head(toHost[w])
<1> USE IpcAssumption DEF TypeOK, IpcTypeOK, LoopTypeOK, WebTypeOK, HostTypeOK, ViewTypeOK,
                          HostFrame, webVars, viewVars
<1>1. toHost[w] # <<>> /\ toHost' = Received(toHost, w) /\ ready' = ready \ {w} /\ sources' = sources
  BY DEF ProxyStep, ConstructPool, PurgePool, BufferAllocation, CommitToView,
         CommitWithoutView, Reads, Done, Served
<1>2. m \in HostMessage /\ toHost' \in [Processes -> Seq(HostMessage)]
  BY <1>1, ReceivedType
<1>3. LoopTypeOK'
  BY <1>1
<1>4. CASE ConstructPool(w)
  <2>1. nextPoolID \in PoolIDs /\ nextPoolID' \in 0 .. MaxPools
    BY <1>4 DEF ConstructPool, PoolIDs
  <2>2. toWeb' \in [Processes -> Seq(WebMessage)]
    BY <1>4, <2>1, SentType, MessageTypes DEF ConstructPool, SendToWeb, NewPoolID
  <2>3. poolClient' \in [PoolIDs -> Processes \cup {None}]
    BY <1>4 DEF ConstructPool
  <2> QED
    BY <1>2, <1>3, <1>4, <2>1, <2>2, <2>3 DEF ConstructPool, appVars
<1>5. CASE PurgePool(w)
  <2>1. m.poolID \in PoolIDs
    BY <1>2, <1>5, HostMessageFields DEF PurgePool, Reads
  <2>2. ASSUME NEW o \in Objects, \E b \in Slots : poolBuffers[m.poolID][b] = o
        PROVE  AfterPurge(hostBuffer[o]) \in Buffer \cup {None}
    <3>1. hostBuffer[o] \in Buffer
      BY <2>1, <2>2 DEF HostHeapConsistent, SlotsPointToLive
    <3> QED
      BY <3>1 DEF AfterPurge, Buffer
  <2>3. hostBuffer' \in [Objects -> Buffer \cup {None}]
    BY <1>5, <2>2 DEF PurgePool
  <2> QED
    BY <1>2, <1>3, <1>5, <2>3 DEF PurgePool, appVars
<1>6. CASE BufferAllocation(w)
  <2>1. m.poolID \in PoolIDs /\ m.bufferID \in Slots /\ m.object \in Objects
    BY <1>2, <1>6, HostMessageFields DEF BufferAllocation, Reads
  <2>2. \A received \in {TRUE, ~RecvMayFail} :
          [poolID |-> m.poolID, bufferID |-> m.bufferID, locked |-> FALSE,
           pendingDelete |-> FALSE, hasHandle |-> received] \in Buffer
    BY <2>1, RendererHostAssumption DEF Buffer
  <2>3. hostBuffer' \in [Objects -> Buffer \cup {None}]
    <3>1. PICK received \in {TRUE, ~RecvMayFail} :
            hostBuffer' = [o \in Objects |->
              IF o = m.object
                THEN [poolID |-> m.poolID, bufferID |-> m.bufferID, locked |-> FALSE,
                      pendingDelete |-> FALSE, hasHandle |-> received]
              ELSE IF o = poolBuffers[m.poolID][m.bufferID] THEN None ELSE hostBuffer[o]]
      BY <1>6 DEF BufferAllocation
    <3> QED
      BY <2>2, <3>1
  <2> QED
    BY <1>2, <1>3, <1>6, <2>1, <2>3 DEF BufferAllocation, appVars
<1>7. CASE CommitToView(w)
  <2> DEFINE o == poolBuffers[m.poolID][m.bufferID]
             v == FindViewBackend(m.poolID)
  <2>1. m.poolID \in PoolIDs /\ m.bufferID \in Slots
    BY <1>2, <1>7, HostMessageFields DEF CommitToView, Reads
  <2>2. o \in Objects /\ v \in Views
    <3>1. o # None /\ v # None
      BY <1>7 DEF CommitToView
    <3>2. o \in Objects \cup {None} /\ v \in Views \cup {None}
      BY <2>1 DEF FindViewBackend
    <3> QED
      BY <3>1, <3>2
  <2>3. hostBuffer[o] \in Buffer
    BY <2>1, <2>2 DEF HostHeapConsistent, SlotsPointToLive
  <2>4. [hostBuffer[o] EXCEPT !.locked = TRUE] \in Buffer
    BY <2>3 DEF Buffer
  <2>5. hostBuffer' \in [Objects -> Buffer \cup {None}]
    BY <1>7, <2>2, <2>4 DEF CommitToView
  <2>6. held' \in [Views -> Seq(Objects)] /\ unfinished' \in [Views -> Seq(PoolIDs)]
    <3>1. /\ held' = [held EXCEPT ![v] = Append(@, o)]
          /\ unfinished' = [unfinished EXCEPT ![v] = Append(@, m.poolID)]
      BY <1>7 DEF CommitToView
    <3> QED
      BY <2>1, <2>2, <3>1, SentType
  <2> QED
    BY <1>2, <1>3, <1>7, <2>1, <2>5, <2>6 DEF CommitToView
<1>8. CASE CommitWithoutView(w)
  <2>1. m.poolID \in PoolIDs /\ m.bufferID \in Slots
    BY <1>2, <1>8, HostMessageFields DEF CommitWithoutView, Reads
  <2> QED
    BY <1>2, <1>3, <1>8, <2>1 DEF CommitWithoutView, appVars
<1> QED
  BY <1>4, <1>5, <1>6, <1>7, <1>8 DEF ProxyStep

(* A step of a view or of its application keeps the types.                 *)
LEMMA ViewTypes ==
  ASSUME TypeOK, HostHeapConsistent, NEW v \in Views, ViewFrame,
         \/ HandleViewMessage(v)
         \/ DestroyView(v)
         \/ ReleaseStep(v)
         \/ DispatchFrameComplete(v)
  PROVE  TypeOK'
<1> USE IpcAssumption DEF TypeOK, IpcTypeOK, LoopTypeOK, WebTypeOK, HostTypeOK, ViewTypeOK,
                          ViewFrame, webVars
<1>1. CASE HandleViewMessage(v)
  <2> DEFINE m == Head(toView[v])
  <2>1. m \in ViewMessage /\ toView' \in [Views -> Seq(ViewMessage)]
    BY <1>1, ReceivedType DEF HandleViewMessage
  <2>2. m.poolID \in PoolIDs
    BY <2>1 DEF ViewMessage
  <2>3. RegisterPool(v, m.poolID) \/ UnregisterPool(v, m.poolID)
    BY <1>1 DEF HandleViewMessage
  <2>4. /\ poolIds' \in [Views -> SUBSET PoolIDs]
        /\ viewBackendMap' \in [PoolIDs -> Views \cup {None}]
    <3>1. CASE RegisterPool(v, m.poolID)
      BY <2>2, <3>1 DEF RegisterPool
    <3>2. CASE UnregisterPool(v, m.poolID)
      <4>1. CASE poolIds' = poolIds /\ viewBackendMap' = viewBackendMap
        BY <4>1
      <4>2. CASE /\ poolIds' = [poolIds EXCEPT ![v] = @ \ {m.poolID}]
                 /\ viewBackendMap' = [viewBackendMap EXCEPT ![m.poolID] = None]
        BY <4>2
      <4> QED
        BY <3>2, <4>1, <4>2 DEF UnregisterPool
    <3> QED
      BY <2>3, <3>1, <3>2
  <2>5. LoopTypeOK'
    BY <1>1 DEF HandleViewMessage, Served
  <2> QED
    BY <1>1, <2>1, <2>4, <2>5 DEF HandleViewMessage, appVars
<1>2. CASE DestroyView(v)
  <2>1. toView' \in [Views -> Seq(ViewMessage)] /\ viewUp' \in [Views -> BOOLEAN]
    BY <1>2, EmptySeq DEF DestroyView, CloseView
  <2>2. /\ held' \in [Views -> Seq(Objects)]
        /\ unfinished' \in [Views -> Seq(PoolIDs)]
    BY <1>2, EmptySeq DEF DestroyView
  <2>3. LoopTypeOK'
    BY <1>2 DEF DestroyView, Served
  <2> QED
    BY <1>2, <2>1, <2>2, <2>3 DEF DestroyView
<1>3. CASE ReleaseStep(v)
  <2>1. PICK i \in 1 .. Len(held[v]) : DispatchReleaseBuffer(v, i)
    BY <1>3 DEF ReleaseStep
  <2> DEFINE o == held[v][i]
             buffer == hostBuffer[o]
  <2>2. held[v] \in Seq(Objects) /\ o \in Objects
    BY ElementOfSeq
  <2>3. ReleaseBuffer(o)
    BY <2>1 DEF DispatchReleaseBuffer
  <2>4. buffer \in Buffer
    BY <2>2, <2>3 DEF ReleaseBuffer
  <2>5. [buffer EXCEPT !.locked = FALSE] \in Buffer
    BY <2>4 DEF Buffer
  <2>6. hostBuffer' \in [Objects -> Buffer \cup {None}]
    BY <2>2, <2>3, <2>5 DEF ReleaseBuffer
  <2>7. toWeb' \in [Processes -> Seq(WebMessage)]
    <3> DEFINE w == poolClient[buffer.poolID]
               m == ReleaseBufferMsg(buffer.poolID, buffer.bufferID)
    <3>1. m \in WebMessage
      BY <2>4, MessageTypes DEF Buffer
    <3>2. toWeb' = toWeb \/ toWeb' = [toWeb EXCEPT ![w] = Append(@, m)]
      BY <2>3 DEF ReleaseBuffer, SendToWeb
    <3> HIDE DEF w, m
    <3>3. [toWeb EXCEPT ![w] = Append(@, m)] \in [Processes -> Seq(WebMessage)]
      BY <3>1, SentType
    <3> QED
      BY <3>2, <3>3
  <2>8. held' \in [Views -> Seq(Objects)]
    <3>1. i \in Nat /\ 1 <= i /\ i < Len(held[v]) /\ Len(held[v]) \in Nat
      BY <2>1, <2>2 DEF DispatchReleaseBuffer
    <3>2. /\ SubSeq(held[v], 1, i - 1) \in Seq(Objects)
          /\ SubSeq(held[v], i + 1, Len(held[v])) \in Seq(Objects)
      BY <2>2, <3>1, SubSeqProperties
    <3>3. RemoveAt(held[v], i) \in Seq(Objects)
      BY <3>2, ConcatProperties DEF RemoveAt
    <3>4. held' = [held EXCEPT ![v] = RemoveAt(@, i)]
      BY <2>1 DEF DispatchReleaseBuffer
    <3> QED
      BY <3>3, <3>4
  <2> QED
    BY <2>1, <2>3, <2>6, <2>7, <2>8 DEF DispatchReleaseBuffer, ReleaseBuffer, loopVars
<1>4. CASE DispatchFrameComplete(v)
  <2>1. unfinished' \in [Views -> Seq(PoolIDs)]
    BY <1>4, ReceivedType DEF DispatchFrameComplete, CanComplete
  <2>2. toWeb' \in [Processes -> Seq(WebMessage)]
    <3>1. toWeb \in [Processes -> Seq(WebMessage)]
      OBVIOUS
    <3>2. FrameCompleteMsg(lastExportedPoolID) \in WebMessage
      BY MessageTypes
    <3> HIDE DEF TypeOK
    <3>3. [toWeb EXCEPT ![poolClient[lastExportedPoolID]]
             = Append(@, FrameCompleteMsg(lastExportedPoolID))]
            \in [Processes -> Seq(WebMessage)]
      BY <3>1, <3>2, SentType
    <3> QED
      BY <1>4, <3>1, <3>3 DEF DispatchFrameComplete, FrameComplete, SendToWeb
  <2> QED
    BY <1>4, <2>1, <2>2 DEF DispatchFrameComplete, FrameComplete, hostVars, loopVars
<1> QED
  BY <1>1, <1>2, <1>3, <1>4

(* A new socket gets a source and keeps the types.                         *)
LEMMA CreationTypes ==
  ASSUME TypeOK,
         \/ \E w \in Processes : CreateClient(w) /\ HostFrame
         \/ \E v \in Views : CreateView(v) /\ ViewFrame
  PROVE  TypeOK'
<1> USE DEF TypeOK, IpcTypeOK, LoopTypeOK, WebTypeOK, HostTypeOK, ViewTypeOK,
            webVars, hostVars, appVars, viewVars
<1>1. ASSUME NEW x \in Sockets, Attach(x)
      PROVE  LoopTypeOK'
  <2>1. Append(sources, x) \in Seq(Sockets)
    BY AppendProperties
  <2> QED
    BY <1>1, <2>1 DEF Attach
<1>2. CASE \E w \in Processes : CreateClient(w) /\ HostFrame
  BY <1>1, <1>2 DEF CreateClient, OpenWeb, HostFrame, Sockets
<1>3. CASE \E v \in Views : CreateView(v) /\ ViewFrame
  BY <1>1, <1>3 DEF CreateView, OpenView, ViewFrame, Sockets
<1> QED
  BY <1>2, <1>3

(* Every step keeps the types while the heap of the UI process is          *)
(* consistent.                                                             *)
LEMMA NextTypes ==
  ASSUME TypeOK, HostHeapConsistent, [Next]_vars
  PROVE  TypeOK'
<1>1. CASE \E t \in Targets : TargetStep(t) /\ WebFrame
  BY <1>1, TargetTypes
<1>2. CASE \E w \in Processes : (HandleWebMessage(w) \/ WebExits(w)) /\ WebFrame
  BY <1>2, WebTypes
<1>3. CASE \E w \in Processes : ProxyStep(w) /\ HostFrame
  BY <1>3, ProxyTypes
<1>4. CASE \E v \in Views :
             /\ \/ HandleViewMessage(v)
                \/ DestroyView(v)
                \/ ReleaseStep(v)
                \/ DispatchFrameComplete(v)
             /\ ViewFrame
  BY <1>4, ViewTypes
<1>5. CASE \/ \E w \in Processes : CreateClient(w) /\ HostFrame
           \/ \E v \in Views : CreateView(v) /\ ViewFrame
  BY <1>5, CreationTypes
<1>6. CASE Poll /\ HostFrame /\ UNCHANGED <<hostVars, appVars>>
  BY <1>6 DEF Poll, Sockets, HostFrame, TypeOK, IpcTypeOK, LoopTypeOK, WebTypeOK, HostTypeOK,
              ViewTypeOK, ipcVars, webVars, hostVars, appVars, viewVars
<1>7. CASE UNCHANGED vars
  BY <1>7 DEF TypeOK, IpcTypeOK, LoopTypeOK, WebTypeOK, HostTypeOK, ViewTypeOK,
              vars, ipcVars, webVars, hostVars, appVars, viewVars, loopVars
<1> QED
  BY <1>1, <1>2, <1>3, <1>4, <1>5, <1>6, <1>7 DEF Next

-----------------------------------------------------------------------------
(* The heap of the UI process.                                             *)

(* Where the elements of a queue were before its first one was removed.    *)
LEMMA ReceivedElements ==
  ASSUME NEW I, NEW S, NEW q \in [I -> Seq(S)], NEW x \in I, q[x] # <<>>,
         NEW y \in I, NEW j \in 1 .. Len(Received(q, x)[y])
  PROVE  LET i == IF y = x THEN j + 1 ELSE j
         IN  /\ i \in 1 .. Len(q[y])
             /\ Received(q, x)[y][j] = q[y][i]
             /\ q[x][1] = Head(q[x]) /\ 1 \in 1 .. Len(q[x])
<1>1. q[x] \in Seq(S)
  OBVIOUS
<1>2. /\ Len(Tail(q[x])) = Len(q[x]) - 1
      /\ \A k \in 1 .. Len(Tail(q[x])) : Tail(q[x])[k] = q[x][k + 1]
  BY <1>1, HeadTailProperties
<1>3. Len(q[x]) \in Nat /\ Len(q[x]) > 0 /\ Head(q[x]) = q[x][1]
  BY <1>1, LenProperties, EmptySeq
<1> QED
  BY <1>1, <1>2, <1>3 DEF Received

(* What a queue contains after a message was appended to it.               *)
LEMMA SentElements ==
  ASSUME NEW I, NEW S, NEW q \in [I -> Seq(S)], NEW x \in I, NEW m \in S,
         NEW r, r = [q EXCEPT ![x] = Append(@, m)],
         NEW y \in I, NEW j \in 1 .. Len(r[y])
  PROVE  \/ j \in 1 .. Len(q[y]) /\ r[y][j] = q[y][j]
         \/ y = x /\ j = Len(q[x]) + 1 /\ r[y][j] = m
<1>1. q[x] \in Seq(S) /\ Len(q[x]) \in Nat
  BY LenProperties
<1>2. /\ Len(Append(q[x], m)) = Len(q[x]) + 1
      /\ \A i \in 1 .. Len(q[x]) : Append(q[x], m)[i] = q[x][i]
      /\ Append(q[x], m)[Len(q[x]) + 1] = m
  BY <1>1, AppendProperties
<1> QED
  BY <1>1, <1>2

(* Reading a message leaves the other handles on their way fresh, if at    *)
(* most the Buffer this message allocates is new.                          *)
LEMMA TransitReceived ==
  ASSUME TypeOK, TransitFresh, TransitOnce,
         NEW w \in Processes, toHost[w] # <<>>, toHost' = Received(toHost, w),
         \A o \in Objects : hostBuffer'[o] # None =>
           \/ hostBuffer[o] # None
           \/ Head(toHost[w]).code = "BufferAllocation" /\ Head(toHost[w]).object = o
  PROVE  TransitFresh' /\ TransitOnce'
<1> DEFINE pos(v, j) == IF v = w THEN j + 1 ELSE j
<1>1. toHost \in [Processes -> Seq(HostMessage)]
  BY DEF TypeOK, IpcTypeOK
<1>2. ASSUME NEW v \in Processes, NEW j \in 1 .. Len(toHost'[v])
      PROVE  /\ pos(v, j) \in 1 .. Len(toHost[v])
             /\ toHost'[v][j] = toHost[v][pos(v, j)]
             /\ toHost[w][1] = Head(toHost[w]) /\ 1 \in 1 .. Len(toHost[w])
             /\ toHost[v][pos(v, j)] \in HostMessage
  BY <1>1, <1>2, ReceivedElements, ElementOfSeq
<1>3. TransitOnce'
  <2> SUFFICES ASSUME NEW v1 \in Processes, NEW v2 \in Processes,
                      NEW i \in 1 .. Len(toHost'[v1]), NEW j \in 1 .. Len(toHost'[v2]),
                      toHost'[v1][i].code = "BufferAllocation",
                      toHost'[v2][j].code = "BufferAllocation",
                      toHost'[v1][i].object = toHost'[v2][j].object
               PROVE  v1 = v2 /\ i = j
    BY DEF TransitOnce
  <2>1. /\ pos(v1, i) \in 1 .. Len(toHost[v1]) /\ toHost'[v1][i] = toHost[v1][pos(v1, i)]
        /\ pos(v2, j) \in 1 .. Len(toHost[v2]) /\ toHost'[v2][j] = toHost[v2][pos(v2, j)]
    BY <1>2
  <2> HIDE DEF pos
  <2>2. v1 = v2 /\ pos(v1, i) = pos(v2, j)
    BY <2>1 DEF TransitOnce
  <2> QED
    BY <2>2 DEF pos
<1>4. ASSUME NEW v \in Processes, NEW j \in 1 .. Len(toHost'[v]),
             toHost'[v][j].code = "BufferAllocation"
      PROVE  hostBuffer'[toHost'[v][j].object] = None
  <2> DEFINE o == toHost[v][pos(v, j)].object
  <2>1. toHost'[v][j] = toHost[v][pos(v, j)] /\ pos(v, j) \in 1 .. Len(toHost[v])
    BY <1>2
  <2>2. hostBuffer[o] = None
    BY <1>4, <2>1 DEF TransitFresh
  <2>3. o \in Objects
    BY <1>2, <1>4, <2>1, HostMessageFields
  <2>4. ~(Head(toHost[w]).code = "BufferAllocation" /\ Head(toHost[w]).object = o)
    <3>1. v # w \/ pos(v, j) # 1
      BY DEF pos
    <3>2. toHost[w][1] = Head(toHost[w]) /\ 1 \in 1 .. Len(toHost[w])
      BY <1>2
    <3> QED
      BY <1>4, <2>1, <3>1, <3>2 DEF TransitOnce
  <2> QED
    BY <2>1, <2>2, <2>3, <2>4
<1> QED
  BY <1>3, <1>4 DEF TransitFresh

(* Sending a message keeps them fresh, if the handle it carries is.        *)
LEMMA TransitSent ==
  ASSUME TypeOK, TransitFresh, TransitOnce,
         NEW w \in Processes, NEW m \in HostMessage, SendToHost(w, m),
         UNCHANGED hostBuffer,
         m.code = "BufferAllocation" => ~InTransit(m.object) /\ hostBuffer[m.object] = None
  PROVE  TransitFresh' /\ TransitOnce'
<1>1. toHost \in [Processes -> Seq(HostMessage)] /\ toHost' = [toHost EXCEPT ![w] = Append(@, m)]
  BY DEF TypeOK, IpcTypeOK, SendToHost
<1>2. ASSUME NEW v \in Processes, NEW j \in 1 .. Len(toHost'[v])
      PROVE  \/ j \in 1 .. Len(toHost[v]) /\ toHost'[v][j] = toHost[v][j]
             \/ v = w /\ j = Len(toHost[w]) + 1 /\ toHost'[v][j] = m
  BY <1>1, SentElements
<1>3. TransitFresh'
  BY <1>2 DEF TransitFresh
<1>4. TransitOnce'
  <2> SUFFICES ASSUME NEW v1 \in Processes, NEW v2 \in Processes,
                      NEW i \in 1 .. Len(toHost'[v1]), NEW j \in 1 .. Len(toHost'[v2]),
                      toHost'[v1][i].code = "BufferAllocation",
                      toHost'[v2][j].code = "BufferAllocation",
                      toHost'[v1][i].object = toHost'[v2][j].object
               PROVE  v1 = v2 /\ i = j
    BY DEF TransitOnce
  <2>1. \/ i \in 1 .. Len(toHost[v1]) /\ toHost'[v1][i] = toHost[v1][i]
        \/ v1 = w /\ i = Len(toHost[w]) + 1 /\ toHost'[v1][i] = m
    BY <1>2
  <2>2. \/ j \in 1 .. Len(toHost[v2]) /\ toHost'[v2][j] = toHost[v2][j]
        \/ v2 = w /\ j = Len(toHost[w]) + 1 /\ toHost'[v2][j] = m
    BY <1>2
  <2>3. CASE /\ i \in 1 .. Len(toHost[v1]) /\ toHost'[v1][i] = toHost[v1][i]
             /\ j \in 1 .. Len(toHost[v2]) /\ toHost'[v2][j] = toHost[v2][j]
    BY <2>3 DEF TransitOnce
  <2>4. CASE toHost'[v1][i] = m \/ toHost'[v2][j] = m
    BY <2>1, <2>2, <2>4 DEF InTransit
  <2> QED
    BY <2>1, <2>2, <2>3, <2>4
<1> QED
  BY <1>3, <1>4

(* With no message moved, the invariant depends on the heap alone.         *)
LEMMA TransitKept ==
  ASSUME TypeOK, TransitFresh, TransitOnce, UNCHANGED toHost,
         \A o \in Objects : hostBuffer[o] = None => hostBuffer'[o] = None
  PROVE  TransitFresh' /\ TransitOnce'
<1>1. TransitOnce'
  BY DEF TransitOnce
<1>2. ASSUME NEW w \in Processes, NEW i \in 1 .. Len(toHost[w]),
             toHost[w][i].code = "BufferAllocation"
      PROVE  toHost[w][i].object \in Objects
  <2>1. toHost[w][i] \in HostMessage
    BY ElementOfSeq DEF TypeOK, IpcTypeOK
  <2> QED
    BY <1>2, <2>1, HostMessageFields
<1>3. TransitFresh'
  BY <1>2 DEF TransitFresh
<1> QED
  BY <1>1, <1>3

(* A target allocates a buffer no one refers to, and moves no other handle: *)
(* the handles on their way stay fresh.                                    *)
LEMMA TargetHeap ==
  ASSUME HeapInv, NEW t \in Targets, TargetStep(t), WebFrame
  PROVE  HostHeapConsistent' /\ TransitFresh' /\ TransitOnce'
<1> DEFINE w == ProcessOf[t]
<1>1. /\ w \in Processes /\ TypeOK /\ poolID[t] \in PoolIDs
      /\ HostHeapConsistent /\ TransitFresh /\ TransitOnce
  BY IpcAssumption DEF HeapInv, TypeOK, WebTypeOK
<1>2. UNCHANGED <<hostBuffer, poolBuffers>>
  BY DEF WebFrame, hostVars
<1>3. HostHeapConsistent'
  BY <1>1, <1>2 DEF HostHeapConsistent, SlotsPointToLive, MarkedOutsideSlots
<1>4. CASE UNCHANGED toHost
  BY <1>1, <1>2, <1>3, <1>4, TransitKept
<1>5. CASE Initialize(t)
  BY <1>1, <1>2, <1>3, <1>5, TransitSent, MessageTypes DEF Initialize, PoolConstructionMsg
<1>6. CASE Resize(t)
  BY <1>1, <1>2, <1>3, <1>6, TransitSent, MessageTypes DEF Resize, PoolPurgeMsg
<1>7. CASE \E b \in Slots, o \in Objects : Unreferenced(o) /\ FrameAllocates(t, b, o)
  <2>1. PICK b \in Slots, o \in Objects : Unreferenced(o) /\ FrameAllocates(t, b, o)
    BY <1>7
  <2> DEFINE m == BufferAllocationMsg(poolID[t], b, o)
  <2>2. m \in HostMessage /\ m.object = o
    BY <1>1, MessageTypes DEF BufferAllocationMsg
  <2>3. SendToHost(w, m) /\ ~InTransit(o) /\ hostBuffer[o] = None
    BY <2>1 DEF FrameAllocates, Unreferenced
  <2> HIDE DEF m
  <2> QED
    BY <1>1, <1>2, <1>3, <2>2, <2>3, TransitSent
<1>8. CASE FrameRendered(t) /\ ~UNCHANGED toHost
  <2> DEFINE m == BufferCommitMsg(poolID[t], current[t])
  <2>1. SendToHost(w, m) /\ current[t] \in Slots
    BY <1>1, <1>8 DEF FrameRendered, TypeOK, WebTypeOK
  <2>2. m \in HostMessage /\ m.code # "BufferAllocation"
    BY <1>1, <2>1, MessageTypes DEF BufferCommitMsg
  <2> HIDE DEF m
  <2> QED
    BY <1>1, <1>2, <1>3, <2>1, <2>2, TransitSent
<1>9. \/ UNCHANGED toHost \/ Initialize(t) \/ Resize(t)
      \/ \E b \in Slots, o \in Objects : Unreferenced(o) /\ FrameAllocates(t, b, o)
      \/ FrameRendered(t) /\ ~UNCHANGED toHost
  BY DEF TargetStep, CreateTarget, ReceiveReply, FrameAborts, FrameReuses, FrameFailsToAllocate,
         Deinitialize, DestroyTarget, ipcVars
<1> QED
  BY <1>4, <1>5, <1>6, <1>7, <1>8, <1>9

(* Two slots never hold the same Buffer.                                   *)
LEMMA SlotsDistinct ==
  ASSUME SlotsPointToLive,
         NEW p \in PoolIDs, NEW b \in Slots, NEW q \in PoolIDs, NEW c \in Slots,
         poolBuffers[p][b] # None, poolBuffers[p][b] = poolBuffers[q][c]
  PROVE  p = q /\ b = c
  BY DEF SlotsPointToLive

(* purgePool empties the slots of the pool and marks or deletes all that   *)
(* was in them, and nothing else.                                          *)
LEMMA PurgeHeap ==
  ASSUME HeapInv, NEW w \in Processes, PurgePool(w)
  PROVE  /\ HostHeapConsistent'
         /\ \A o \in Objects : hostBuffer'[o] # None => hostBuffer[o] # None
<1> DEFINE p == Head(toHost[w]).poolID
           Purged(o) == \E b \in Slots : poolBuffers[p][b] = o
<1>1. p \in PoolIDs
  <2>1. Head(toHost[w]) \in HostMessage
    BY ReceivedType DEF HeapInv, TypeOK, IpcTypeOK, PurgePool, Reads
  <2> QED
    BY <2>1, HostMessageFields DEF PurgePool, Reads
<1>2. /\ \A o \in Objects : hostBuffer'[o] =
             IF Purged(o) THEN AfterPurge(hostBuffer[o]) ELSE hostBuffer[o]
      /\ poolBuffers' = [poolBuffers EXCEPT ![p] = [b \in Slots |-> None]]
  BY DEF PurgePool
<1>3. /\ SlotsPointToLive /\ MarkedOutsideSlots
      /\ poolBuffers \in [PoolIDs -> [Slots -> Objects \cup {None}]]
      /\ hostBuffer \in [Objects -> Buffer \cup {None}]
      /\ None \notin Objects
  BY IpcAssumption DEF HeapInv, HostHeapConsistent, TypeOK, HostTypeOK
<1> HIDE DEF p
<1>4. /\ \A b \in Slots : poolBuffers'[p][b] = None
      /\ \A q \in PoolIDs : q # p => poolBuffers'[q] = poolBuffers[q]
  BY <1>1, <1>2, <1>3
<1>5. ASSUME NEW o \in Objects, Purged(o)
      PROVE  /\ hostBuffer[o] # None
             /\ hostBuffer[o] \in Buffer
             /\ \A q \in PoolIDs, c \in Slots : poolBuffers[q][c] = o => q = p
  <2>1. PICK b \in Slots : poolBuffers[p][b] = o
    BY <1>5
  <2>2. hostBuffer[o] # None
    BY <1>1, <1>3, <2>1 DEF SlotsPointToLive
  <2> QED
    BY <1>1, <1>3, <2>1, <2>2, SlotsDistinct
<1>6. SlotsPointToLive'
  <2> SUFFICES ASSUME NEW q \in PoolIDs, NEW c \in Slots, poolBuffers'[q][c] # None
               PROVE  LET o == poolBuffers'[q][c]
                      IN  /\ hostBuffer'[o] # None
                          /\ hostBuffer'[o].poolID = q /\ hostBuffer'[o].bufferID = c
    BY DEF SlotsPointToLive
  <2> DEFINE o == poolBuffers'[q][c]
  <2>1. q # p /\ o = poolBuffers[q][c] /\ o \in Objects
    BY <1>3, <1>4
  <2>2. hostBuffer'[o] = hostBuffer[o]
    BY <1>2, <1>5, <2>1
  <2> QED
    BY <1>3, <2>1, <2>2 DEF SlotsPointToLive
<1>7. MarkedOutsideSlots'
  <2> SUFFICES ASSUME NEW o \in Objects, hostBuffer'[o] # None
               PROVE  hostBuffer'[o].pendingDelete
                        <=> \A q \in PoolIDs : \A c \in Slots : poolBuffers'[q][c] # o
    BY DEF MarkedOutsideSlots
  <2>1. CASE Purged(o)
    <3>1. hostBuffer'[o] = [hostBuffer[o] EXCEPT !.pendingDelete = TRUE]
      BY <1>2, <2>1 DEF AfterPurge
    <3>2. hostBuffer'[o].pendingDelete
      BY <1>5, <2>1, <3>1 DEF Buffer
    <3>3. \A q \in PoolIDs : \A c \in Slots : poolBuffers'[q][c] # o
      BY <1>3, <1>4, <1>5, <2>1
    <3> QED
      BY <3>2, <3>3
  <2>2. CASE ~Purged(o)
    <3>1. hostBuffer'[o] = hostBuffer[o]
      BY <1>2, <2>2
    <3>2. \A q \in PoolIDs : \A c \in Slots : poolBuffers'[q][c] = o <=> poolBuffers[q][c] = o
      BY <1>3, <1>4, <2>2
    <3> QED
      BY <1>3, <3>1, <3>2 DEF MarkedOutsideSlots
  <2> QED
    BY <2>1, <2>2
<1>8. \A o \in Objects : hostBuffer'[o] # None => hostBuffer[o] # None
  BY <1>2, <1>5
<1> QED
  BY <1>6, <1>7, <1>8 DEF HostHeapConsistent

(* bufferAllocation deletes the Buffer of its slot alone and puts the new  *)
(* one, which was in no slot, in its place.                                *)
LEMMA AllocationHeap ==
  ASSUME HeapInv, NEW w \in Processes, BufferAllocation(w)
  PROVE  /\ HostHeapConsistent'
         /\ \A o \in Objects : hostBuffer'[o] # None =>
              hostBuffer[o] # None \/ o = Head(toHost[w]).object
<1> DEFINE m == Head(toHost[w])
           p == m.poolID
           b == m.bufferID
           new == m.object
<1>1. /\ toHost \in [Processes -> Seq(HostMessage)]
      /\ toHost[w] # <<>> /\ m.code = "BufferAllocation"
  BY DEF HeapInv, TypeOK, IpcTypeOK, BufferAllocation, Reads
<1>2. p \in PoolIDs /\ b \in Slots /\ new \in Objects
  <2>1. m \in HostMessage
    BY <1>1, ReceivedType
  <2> QED
    BY <1>1, <2>1, HostMessageFields
<1>3. hostBuffer[new] = None
  <2>1. m = toHost[w][1] /\ 1 \in 1 .. Len(toHost[w])
    BY <1>1, HeadTailProperties, LenProperties, EmptySeq
  <2> QED
    BY <1>1, <2>1 DEF HeapInv, TransitFresh
<1>4. /\ SlotsPointToLive /\ MarkedOutsideSlots
      /\ poolBuffers \in [PoolIDs -> [Slots -> Objects \cup {None}]]
      /\ None \notin Objects
  BY IpcAssumption DEF HeapInv, HostHeapConsistent, TypeOK, HostTypeOK
<1>5. PICK received \in {TRUE, ~RecvMayFail} :
        /\ hostBuffer' = [o \in Objects |->
             IF o = new
               THEN [poolID |-> p, bufferID |-> b, locked |-> FALSE,
                     pendingDelete |-> FALSE, hasHandle |-> received]
             ELSE IF o = poolBuffers[p][b] THEN None ELSE hostBuffer[o]]
        /\ poolBuffers' = [poolBuffers EXCEPT ![p][b] = new]
  BY DEF BufferAllocation
<1> HIDE DEF p, b, new
<1> DEFINE old == poolBuffers[p][b]
<1>6. /\ hostBuffer'[new] # None
      /\ hostBuffer'[new].poolID = p /\ hostBuffer'[new].bufferID = b
      /\ ~hostBuffer'[new].pendingDelete
      /\ \A o \in Objects : o # new => hostBuffer'[o] = IF o = old THEN None ELSE hostBuffer[o]
  <2> DEFINE fresh == [poolID |-> p, bufferID |-> b, locked |-> FALSE,
                       pendingDelete |-> FALSE, hasHandle |-> received]
  <2>1. hostBuffer'[new] = fresh
    BY <1>2, <1>5
  <2>2. fresh \in Buffer
    BY <1>2, RendererHostAssumption DEF Buffer
  <2>3. new \in Objects /\ hostBuffer'[new] # None
    BY <1>2, <2>1, <2>2, RendererHostAssumption
  <2> QED
    BY <1>2, <1>5, <2>1, <2>3
<1>7. /\ poolBuffers'[p][b] = new
      /\ \A q \in PoolIDs, c \in Slots : q # p \/ c # b => poolBuffers'[q][c] = poolBuffers[q][c]
  BY <1>2, <1>4, <1>5
<1>8. \A q \in PoolIDs, c \in Slots : poolBuffers[q][c] # new
  BY <1>2, <1>3, <1>4 DEF SlotsPointToLive
<1>9. SlotsPointToLive'
  BY <1>2, <1>4, <1>6, <1>7, <1>8, SlotsDistinct DEF SlotsPointToLive
<1>10. MarkedOutsideSlots'
  BY <1>2, <1>4, <1>6, <1>7, <1>8 DEF MarkedOutsideSlots
<1> QED
  BY <1>6, <1>9, <1>10 DEF HostHeapConsistent, new

(* Locking or unlocking a Buffer keeps the heap consistent.                *)
LEMMA LockHeap ==
  ASSUME HeapInv, NEW o \in Objects, hostBuffer[o] # None, NEW value \in BOOLEAN,
         hostBuffer' = [hostBuffer EXCEPT ![o].locked = value],
         UNCHANGED poolBuffers
  PROVE  /\ HostHeapConsistent'
         /\ \A x \in Objects : hostBuffer[x] = None => hostBuffer'[x] = None
<1>1. /\ SlotsPointToLive /\ MarkedOutsideSlots
      /\ poolBuffers \in [PoolIDs -> [Slots -> Objects \cup {None}]]
      /\ hostBuffer \in [Objects -> Buffer \cup {None}]
      /\ None \notin Objects \cup Buffer
  BY IpcAssumption, RendererHostAssumption DEF HeapInv, HostHeapConsistent, TypeOK, HostTypeOK
<1>2. hostBuffer[o] \in Buffer
  BY <1>1
<1>3. [hostBuffer[o] EXCEPT !.locked = value] \in Buffer
  BY <1>2 DEF Buffer
<1>4. /\ hostBuffer'[o] = [hostBuffer[o] EXCEPT !.locked = value]
      /\ \A x \in Objects : x # o => hostBuffer'[x] = hostBuffer[x]
  BY <1>1
<1>5. /\ hostBuffer'[o] # None
      /\ hostBuffer'[o].poolID = hostBuffer[o].poolID
      /\ hostBuffer'[o].bufferID = hostBuffer[o].bufferID
      /\ hostBuffer'[o].pendingDelete = hostBuffer[o].pendingDelete
  BY <1>1, <1>2, <1>3, <1>4 DEF Buffer
<1>6. SlotsPointToLive'
  BY <1>1, <1>4, <1>5 DEF SlotsPointToLive
<1>7. MarkedOutsideSlots'
  BY <1>1, <1>4, <1>5 DEF MarkedOutsideSlots
<1> QED
  BY <1>4, <1>6, <1>7 DEF HostHeapConsistent

(* bufferCommit for a pool without a view deletes the Buffer together with *)
(* the slot that points to it.                                             *)
LEMMA DropHeap ==
  ASSUME HeapInv, NEW w \in Processes, CommitWithoutView(w)
  PROVE  /\ HostHeapConsistent'
         /\ \A o \in Objects : hostBuffer'[o] # None => hostBuffer[o] # None
<1> DEFINE p == Head(toHost[w]).poolID
           b == Head(toHost[w]).bufferID
<1>1. p \in PoolIDs /\ b \in Slots
  <2>1. Head(toHost[w]) \in HostMessage
    BY ReceivedType DEF HeapInv, TypeOK, IpcTypeOK, CommitWithoutView, Reads
  <2> QED
    BY <2>1, HostMessageFields DEF CommitWithoutView, Reads
<1>2. /\ \A x \in Objects : hostBuffer'[x] = IF x = poolBuffers[p][b] THEN None ELSE hostBuffer[x]
      /\ poolBuffers' = [poolBuffers EXCEPT ![p][b] = None]
  BY DEF CommitWithoutView
<1>3. /\ SlotsPointToLive /\ MarkedOutsideSlots
      /\ poolBuffers \in [PoolIDs -> [Slots -> Objects \cup {None}]]
      /\ None \notin Objects
  BY IpcAssumption DEF HeapInv, HostHeapConsistent, TypeOK, HostTypeOK
<1> HIDE DEF p, b
<1>4. /\ poolBuffers'[p][b] = None
      /\ \A q \in PoolIDs, c \in Slots : q # p \/ c # b => poolBuffers'[q][c] = poolBuffers[q][c]
  BY <1>1, <1>2, <1>3
<1>5. SlotsPointToLive'
  BY <1>1, <1>2, <1>3, <1>4, SlotsDistinct DEF SlotsPointToLive
<1>6. MarkedOutsideSlots'
  BY <1>1, <1>2, <1>3, <1>4 DEF MarkedOutsideSlots
<1> QED
  BY <1>2, <1>5, <1>6 DEF HostHeapConsistent

(* releaseBuffer deletes a Buffer only when it is marked, so in no slot.   *)
LEMMA ReleaseHeap ==
  ASSUME HeapInv, NEW o \in Objects, ReleaseBuffer(o)
  PROVE  /\ HostHeapConsistent'
         /\ \A x \in Objects : hostBuffer[x] = None => hostBuffer'[x] = None
<1>1. /\ hostBuffer[o] # None
      /\ UNCHANGED poolBuffers
      /\ \/ hostBuffer[o].pendingDelete /\ hostBuffer' = [hostBuffer EXCEPT ![o] = None]
         \/ hostBuffer' = [hostBuffer EXCEPT ![o].locked = FALSE]
  BY DEF ReleaseBuffer
<1>2. CASE hostBuffer' = [hostBuffer EXCEPT ![o].locked = FALSE]
  BY <1>1, <1>2, LockHeap
<1>3. CASE hostBuffer[o].pendingDelete /\ hostBuffer' = [hostBuffer EXCEPT ![o] = None]
  <2>1. /\ SlotsPointToLive /\ MarkedOutsideSlots
        /\ poolBuffers \in [PoolIDs -> [Slots -> Objects \cup {None}]]
        /\ hostBuffer \in [Objects -> Buffer \cup {None}]
    BY DEF HeapInv, HostHeapConsistent, TypeOK, HostTypeOK
  <2>2. \A q \in PoolIDs : \A c \in Slots : poolBuffers[q][c] # o
    BY <1>1, <1>3, <2>1 DEF MarkedOutsideSlots
  <2>3. hostBuffer'[o] = None /\ \A x \in Objects : x # o => hostBuffer'[x] = hostBuffer[x]
    BY <1>3, <2>1
  <2>4. SlotsPointToLive'
    BY <1>1, <2>1, <2>2, <2>3 DEF SlotsPointToLive
  <2>5. MarkedOutsideSlots'
    BY <1>1, <2>1, <2>3 DEF MarkedOutsideSlots
  <2> QED
    BY <2>3, <2>4, <2>5 DEF HostHeapConsistent
<1> QED
  BY <1>1, <1>2, <1>3

(* Every step of a proxy keeps the heap consistent and the handles on      *)
(* their way fresh.                                                        *)
LEMMA ProxyHeap ==
  ASSUME HeapInv, NEW w \in Processes, ProxyStep(w)
  PROVE  HostHeapConsistent' /\ TransitFresh' /\ TransitOnce'
<1> DEFINE m == Head(toHost[w])
<1>1. toHost[w] # <<>> /\ toHost' = Received(toHost, w)
  BY DEF ProxyStep, ConstructPool, PurgePool, BufferAllocation, CommitToView,
         CommitWithoutView, Reads, Done
<1>2. TypeOK /\ HostHeapConsistent /\ TransitFresh /\ TransitOnce
  BY DEF HeapInv
<1>3. HostHeapConsistent' /\ \A o \in Objects : hostBuffer'[o] # None =>
        hostBuffer[o] # None \/ (m.code = "BufferAllocation" /\ m.object = o)
  <2>1. CASE ConstructPool(w)
    BY <1>2, <2>1 DEF ConstructPool, HostHeapConsistent, SlotsPointToLive, MarkedOutsideSlots
  <2>2. CASE PurgePool(w)
    BY <2>2, PurgeHeap
  <2>3. CASE BufferAllocation(w)
    BY <2>3, AllocationHeap DEF BufferAllocation, Reads
  <2>4. CASE CommitToView(w)
    <3> DEFINE o == poolBuffers[m.poolID][m.bufferID]
    <3>1. m \in HostMessage
      BY <1>1, <1>2, ReceivedType DEF TypeOK, IpcTypeOK
    <3>2. m.poolID \in PoolIDs /\ m.bufferID \in Slots
      BY <2>4, <3>1, HostMessageFields DEF CommitToView, Reads
    <3>3. o \in Objects \cup {None} /\ o # None
      BY <1>2, <2>4, <3>2 DEF CommitToView, TypeOK, HostTypeOK
    <3>4. hostBuffer[o] # None
      BY <1>2, <3>2, <3>3 DEF HostHeapConsistent, SlotsPointToLive
    <3>5. hostBuffer' = [hostBuffer EXCEPT ![o].locked = TRUE] /\ UNCHANGED poolBuffers
      BY <2>4 DEF CommitToView
    <3> QED
      BY <3>3, <3>4, <3>5, LockHeap
  <2>5. CASE CommitWithoutView(w)
    BY <2>5, DropHeap
  <2> QED
    BY <2>1, <2>2, <2>3, <2>4, <2>5 DEF ProxyStep
<1> QED
  BY <1>1, <1>2, <1>3, TransitReceived

(* The heap invariant is inductive.                                        *)
LEMMA HeapStep ==
  ASSUME HeapInv, [Next]_vars
  PROVE  HeapInv'
<1>1. TypeOK /\ HostHeapConsistent /\ TransitFresh /\ TransitOnce
  BY DEF HeapInv
<1>2. TypeOK'
  BY <1>1, NextTypes
<1>3. HostHeapConsistent' /\ TransitFresh' /\ TransitOnce'
  <2>1. CASE UNCHANGED <<toHost, hostBuffer, poolBuffers>>
    BY <1>1, <2>1, TransitKept DEF HostHeapConsistent, SlotsPointToLive, MarkedOutsideSlots
  <2>2. CASE \E t \in Targets : TargetStep(t) /\ WebFrame
    BY <2>2, TargetHeap
  <2>3. CASE \E w \in Processes : ProxyStep(w)
    BY <2>3, ProxyHeap
  <2>4. CASE \E v \in Views : ReleaseStep(v)
    <3>1. PICK v \in Views : \E i \in 1 .. Len(held[v]) : DispatchReleaseBuffer(v, i)
      BY <2>4 DEF ReleaseStep
    <3>2. PICK i \in 1 .. Len(held[v]) : DispatchReleaseBuffer(v, i)
      BY <3>1
    <3>3. held[v][i] \in Objects
      BY <1>1, ElementOfSeq DEF TypeOK, HostTypeOK
    <3>4. ReleaseBuffer(held[v][i]) /\ UNCHANGED toHost
      BY <3>2 DEF DispatchReleaseBuffer
    <3> QED
      BY <1>1, <3>3, <3>4, ReleaseHeap, TransitKept
  <2>5. \/ UNCHANGED <<toHost, hostBuffer, poolBuffers>>
        \/ \E t \in Targets : TargetStep(t) /\ WebFrame
        \/ \E w \in Processes : ProxyStep(w)
        \/ \E v \in Views : ReleaseStep(v)
    BY DEF Next, HandleWebMessage, WebExits, WebFrame, HandleViewMessage, DestroyView,
           DispatchFrameComplete, FrameComplete, Poll, CreateClient, OpenWeb,
           CreateView, OpenView, hostVars, vars, ipcVars
  <2> QED
    BY <2>1, <2>2, <2>3, <2>4, <2>5
<1> QED
  BY <1>2, <1>3 DEF HeapInv

(* It holds at the start: no pool, no buffer, no message.                  *)
LEMMA HeapStart == Init => HeapInv
<1> SUFFICES ASSUME Init PROVE HeapInv
  OBVIOUS
<1> USE IpcAssumption, EmptySeq
<1>1. IpcTypeOK
  BY DEF Init, IpcInit, IpcTypeOK
<1>2. WebTypeOK
  BY DEF Init, WebInit, WebTypeOK, Phases, PoolIDs
<1>3. HostTypeOK
  BY DEF Init, HostInit, HostTypeOK, PoolIDs
<1>4. LoopTypeOK /\ ViewTypeOK
  BY DEF Init, LoopInit, LoopTypeOK, ViewInit, ViewTypeOK
<1>5. HostHeapConsistent
  BY DEF Init, HostInit, HostHeapConsistent, SlotsPointToLive, MarkedOutsideSlots
<1>6. \A w \in Processes : \A i \in 1 .. Len(toHost[w]) : FALSE
  <2>1. \A w \in Processes : toHost[w] = <<>>
    BY DEF Init, IpcInit
  <2>2. Len(<<>>) = 0
    OBVIOUS
  <2>3. \A i \in 1 .. 0 : FALSE
    OBVIOUS
  <2> QED
    BY <2>1, <2>2, <2>3
<1>7. TransitFresh /\ TransitOnce
  BY <1>6 DEF TransitFresh, TransitOnce
<1> QED
  BY <1>1, <1>2, <1>3, <1>4, <1>5, <1>7 DEF HeapInv, TypeOK

-----------------------------------------------------------------------------
(* The heap invariant holds in every behaviour, with or without fairness.  *)
THEOREM HeapInvariant == Spec => []HeapInv
<1>1. Init => HeapInv
  BY HeapStart
<1>2. HeapInv /\ [Next]_vars => HeapInv'
  BY HeapStep
<1> QED
  BY <1>1, <1>2, PTL DEF Spec

(* The fields of the objects of both processes, and the messages in the    *)
(* sockets, keep their types: every message a handler reads has a pool and *)
(* a buffer identifier within the arrays it indexes.                       *)
THEOREM TypeCorrect == Spec => []TypeOK
<1>1. HeapInv => TypeOK
  BY DEF HeapInv
<1> QED
  BY <1>1, HeapInvariant, PTL

(* The slots of the pools never point to a deleted Buffer or to that of    *)
(* another slot, and the UI process can always free a Buffer: it is in a   *)
(* slot, or marked so that its release deletes it (purgePool,              *)
(* bufferAllocation, bufferCommit and releaseBuffer of renderer-host.cpp). *)
THEOREM HeapCorrect == Spec => []HostHeapConsistent
<1>1. HeapInv => HostHeapConsistent
  BY DEF HeapInv
<1> QED
  BY <1>1, HeapInvariant, PTL

-----------------------------------------------------------------------------
(* The maps from pools to views and targets.                               *)

(* A step of a target keeps both maps right: it enters the map once, with  *)
(* the pool of its reply, and leaves it when it is destroyed.              *)
LEMMA TargetMaps ==
  ASSUME TypeOK, MapsPointToLive, ClosedViewsSilent,
         NEW t \in Targets, TargetStep(t), WebFrame
  PROVE  MapsPointToLive' /\ ClosedViewsSilent'
<1> DEFINE w == ProcessOf[t]
<1>1. /\ w \in Processes /\ ViewOf[t] \in Views
      /\ phase \in [Targets -> Phases] /\ poolID \in [Targets -> PoolIDs]
      /\ targetMap \in [Processes -> [PoolIDs -> Targets \cup {None}]]
      /\ toView \in [Views -> Seq(ViewMessage)]
      /\ toWeb \in [Processes -> Seq(WebMessage)]
      /\ None \notin Targets
  BY IpcAssumption DEF TypeOK, IpcTypeOK, WebTypeOK
<1>2. UNCHANGED <<viewBackendMap, poolIds, viewUp>>
  BY DEF WebFrame, hostVars, viewVars, TargetStep, CreateTarget, Initialize, ReceiveReply,
         Resize, FrameAborts, CloseWeb, FrameReuses, FrameFailsToAllocate, FrameAllocates,
         FrameRendered, Deinitialize, DestroyTarget, ipcVars
<1>3. ViewsInMapLive'
  BY <1>2 DEF MapsPointToLive, ViewsInMapLive
<1>4. ClosedViewsSilent'
  <2>1. \/ UNCHANGED toView
        \/ \E m : SendToView(ViewOf[t], m)
    BY DEF TargetStep, CreateTarget, Initialize, ReceiveReply, Resize, FrameAborts,
           FrameReuses, FrameFailsToAllocate, FrameAllocates, FrameRendered,
           Deinitialize, DestroyTarget, ipcVars
  <2> QED
    BY <1>1, <1>2, <2>1 DEF ClosedViewsSilent, SendToView
<1>5. TargetsInMapLive
  BY DEF MapsPointToLive
<1>6. TargetsInMapLive'
  <2>1. CASE ReceiveReply(t)
    <3> DEFINE p == Head(toWeb[w]).poolID
    <3>1. p \in PoolIDs
      <4>1. Head(toWeb[w]) \in WebMessage
        BY <1>1, <2>1, ReceivedType DEF ReceiveReply
      <4> QED
        BY <4>1, WebMessageFields
    <3>2. /\ phase[t] = "constructing" /\ phase' = [phase EXCEPT ![t] = "ready"]
          /\ \/ /\ poolID' = [poolID EXCEPT ![t] = p]
                /\ \/ targetMap' = [targetMap EXCEPT ![w][p] = t]
                   \/ UNCHANGED targetMap
             \/ UNCHANGED <<poolID, targetMap>>
      BY <2>1 DEF ReceiveReply
    <3> HIDE DEF p
    <3>3. \A v \in Processes, q \in PoolIDs : targetMap[v][q] # t
      BY <1>5, <3>2 DEF TargetsInMapLive
    <3>4. ASSUME NEW v \in Processes, NEW q \in PoolIDs, NEW s \in Targets, targetMap'[v][q] = s
          PROVE  ProcessOf[s] = v /\ poolID'[s] = q /\ phase'[s] \in {"ready", "deinitialized"}
      <4>1. CASE targetMap[v][q] = s
        <5>1. s # t /\ ProcessOf[s] = v /\ poolID[s] = q /\ phase[s] \in {"ready", "deinitialized"}
          BY <1>5, <3>3, <4>1 DEF TargetsInMapLive
        <5> QED
          BY <1>1, <3>2, <5>1
      <4>2. CASE targetMap[v][q] # s
        <5>1. targetMap' = [targetMap EXCEPT ![w][p] = t] /\ poolID' = [poolID EXCEPT ![t] = p]
          BY <3>2, <3>4, <4>2
        <5>2. v = w /\ q = p /\ s = t
          BY <1>1, <3>1, <3>4, <4>2, <5>1
        <5> QED
          BY <1>1, <3>2, <5>1, <5>2
      <4> QED
        BY <4>1, <4>2
    <3> QED
      BY <3>4 DEF TargetsInMapLive
  <2>2. CASE DestroyTarget(t)
    <3>1. /\ targetMap' = [targetMap EXCEPT ![w][poolID[t]] = None]
          /\ phase' = [phase EXCEPT ![t] = "destroyed"]
          /\ UNCHANGED poolID
      BY <2>2 DEF DestroyTarget
    <3>2. ASSUME NEW v \in Processes, NEW q \in PoolIDs, NEW s \in Targets, targetMap'[v][q] = s
          PROVE  ProcessOf[s] = v /\ poolID'[s] = q /\ phase'[s] \in {"ready", "deinitialized"}
      <4>1. targetMap[v][q] = s /\ ~(v = w /\ q = poolID[t])
        BY <1>1, <3>1, <3>2
      <4>2. ProcessOf[s] = v /\ poolID[s] = q /\ phase[s] \in {"ready", "deinitialized"}
        BY <1>5, <4>1 DEF TargetsInMapLive
      <4>3. s # t
        BY <4>1, <4>2
      <4> QED
        BY <1>1, <3>1, <4>2, <4>3
    <3> QED
      BY <3>2 DEF TargetsInMapLive
  <2>3. CASE /\ UNCHANGED <<targetMap, poolID>>
             /\ \/ UNCHANGED phase
                \/ phase[t] \in {"none", "created"} /\ \E x : phase' = [phase EXCEPT ![t] = x]
                \/ phase[t] = "ready" /\ phase' = [phase EXCEPT ![t] = "deinitialized"]
    BY <1>1, <1>5, <2>3 DEF TargetsInMapLive
  <2> QED
    BY <2>1, <2>2, <2>3 DEF TargetStep, CreateTarget, Initialize, Resize, FrameAborts,
         FrameReuses, FrameFailsToAllocate, FrameAllocates, FrameRendered, Deinitialize,
         Callable, webVars
<1> QED
  BY <1>3, <1>4, <1>6 DEF MapsPointToLive

(* A step of a view keeps the map of the views right.                      *)
LEMMA ViewMaps ==
  ASSUME TypeOK, MapsPointToLive, ClosedViewsSilent,
         NEW v \in Views, HandleViewMessage(v) \/ DestroyView(v), ViewFrame
  PROVE  MapsPointToLive' /\ ClosedViewsSilent'
<1>1. /\ poolIds \in [Views -> SUBSET PoolIDs]
      /\ viewBackendMap \in [PoolIDs -> Views \cup {None}]
      /\ viewUp \in [Views -> BOOLEAN]
      /\ toView \in [Views -> Seq(ViewMessage)]
      /\ None \notin Views
  BY IpcAssumption DEF TypeOK, IpcTypeOK, HostTypeOK, ViewTypeOK
<1>2. TargetsInMapLive'
  BY DEF MapsPointToLive, TargetsInMapLive, ViewFrame, webVars
<1>3. ViewsInMapLive
  BY DEF MapsPointToLive
<1>4. CASE HandleViewMessage(v)
  <2> DEFINE p == Head(toView[v]).poolID
  <2>1. /\ toView[v] # <<>> /\ toView' = Received(toView, v)
        /\ UNCHANGED viewUp
        /\ RegisterPool(v, p) \/ UnregisterPool(v, p)
    BY <1>4 DEF HandleViewMessage
  <2>2. viewUp[v] /\ p \in PoolIDs
    <3>1. Head(toView[v]) \in ViewMessage
      BY <1>1, <2>1, ReceivedType
    <3> QED
      BY <1>1, <2>1, <3>1 DEF ClosedViewsSilent, ViewMessage
  <2>3. ClosedViewsSilent'
    BY <1>1, <2>1, <2>2 DEF ClosedViewsSilent, Received
  <2>4. ViewsInMapLive'
    <3>1. CASE RegisterPool(v, p)
      BY <1>1, <1>3, <2>1, <2>2, <3>1 DEF RegisterPool, ViewsInMapLive
    <3>2. CASE UnregisterPool(v, p)
      <4> HIDE DEF p
      <4>1. CASE UNCHANGED <<poolIds, viewBackendMap>>
        BY <1>3, <2>1, <4>1 DEF ViewsInMapLive
      <4>2. CASE /\ poolIds' = [poolIds EXCEPT ![v] = @ \ {p}]
                 /\ viewBackendMap' = [viewBackendMap EXCEPT ![p] = None]
        <5>1. ASSUME NEW q \in PoolIDs, NEW u \in Views, viewBackendMap'[q] = u
              PROVE  viewUp'[u] /\ q \in poolIds'[u]
          <6>1. q # p /\ viewBackendMap[q] = u
            BY <1>1, <2>2, <4>2, <5>1
          <6>2. viewUp[u] /\ q \in poolIds[u]
            BY <1>3, <6>1 DEF ViewsInMapLive
          <6> QED
            BY <1>1, <2>1, <4>2, <6>1, <6>2
        <5> QED
          BY <5>1 DEF ViewsInMapLive
      <4> QED
        BY <3>2, <4>1, <4>2 DEF UnregisterPool
    <3> QED
      BY <2>1, <3>1, <3>2
  <2> QED
    BY <1>2, <2>3, <2>4 DEF MapsPointToLive
<1>5. CASE DestroyView(v)
  <2>1. /\ viewUp' = [viewUp EXCEPT ![v] = FALSE]
        /\ toView' = [toView EXCEPT ![v] = <<>>]
        /\ poolIds' = [poolIds EXCEPT ![v] = {}]
        /\ \A p \in PoolIDs : viewBackendMap'[p] = IF p \in poolIds[v] THEN None ELSE viewBackendMap[p]
    BY <1>5 DEF DestroyView, CloseView
  <2>2. ClosedViewsSilent'
    BY <1>1, <2>1 DEF ClosedViewsSilent
  <2>3. ViewsInMapLive'
    BY <1>1, <1>3, <2>1 DEF ViewsInMapLive
  <2> QED
    BY <1>2, <2>2, <2>3 DEF MapsPointToLive
<1> QED
  BY <1>4, <1>5

(* The invariant of the maps is inductive.                                 *)
LEMMA MapStep ==
  ASSUME MapInv, [Next]_vars
  PROVE  MapInv'
<1>1. HeapInv /\ TypeOK /\ MapsPointToLive /\ ClosedViewsSilent
  BY DEF MapInv, HeapInv
<1>2. HeapInv'
  BY <1>1, HeapStep
<1>3. CASE \E t \in Targets : TargetStep(t) /\ WebFrame
  BY <1>1, <1>2, <1>3, TargetMaps DEF MapInv
<1>4. CASE \E v \in Views : (HandleViewMessage(v) \/ DestroyView(v)) /\ ViewFrame
  BY <1>1, <1>2, <1>4, ViewMaps DEF MapInv
<1>5. CASE \E v \in Views : CreateView(v) /\ ViewFrame
  <2>1. PICK v \in Views : CreateView(v) /\ ViewFrame
    BY <1>5
  <2>2. /\ viewUp' = [viewUp EXCEPT ![v] = TRUE]
        /\ UNCHANGED <<toView, viewBackendMap, poolIds, targetMap, poolID, phase>>
    BY <2>1 DEF CreateView, OpenView, hostVars, viewVars, ViewFrame, webVars
  <2>3. viewUp \in [Views -> BOOLEAN]
    BY <1>1 DEF TypeOK, IpcTypeOK
  <2> QED
    BY <1>1, <1>2, <2>2, <2>3
    DEF MapInv, MapsPointToLive, ViewsInMapLive, TargetsInMapLive, ClosedViewsSilent
<1>6. CASE UNCHANGED <<toView, viewUp, viewBackendMap, poolIds, targetMap, poolID, phase>>
  BY <1>1, <1>2, <1>6
  DEF MapInv, MapsPointToLive, ViewsInMapLive, TargetsInMapLive, ClosedViewsSilent
<1>7. \/ \E t \in Targets : TargetStep(t) /\ WebFrame
      \/ \E v \in Views : (HandleViewMessage(v) \/ DestroyView(v)) /\ ViewFrame
      \/ \E v \in Views : CreateView(v) /\ ViewFrame
      \/ UNCHANGED <<toView, viewUp, viewBackendMap, poolIds, targetMap, poolID, phase>>
  <2>1. CASE \E w \in Processes : (HandleWebMessage(w) \/ WebExits(w)) /\ WebFrame
    BY <2>1 DEF HandleWebMessage, WebExits, CloseWeb, WebFrame, webVars, hostVars, viewVars
  <2>2. CASE \E w \in Processes : (CreateClient(w) \/ ProxyStep(w)) /\ HostFrame
    BY <2>2 DEF CreateClient, OpenWeb, ProxyStep, ConstructPool, PurgePool, BufferAllocation,
                CommitToView, CommitWithoutView, HostFrame, hostVars, webVars, viewVars
  <2>3. CASE \E v \in Views : (ReleaseStep(v) \/ DispatchFrameComplete(v)) /\ ViewFrame
    BY <2>3 DEF ReleaseStep, DispatchReleaseBuffer, ReleaseBuffer, DispatchFrameComplete,
                FrameComplete, ViewFrame, hostVars, webVars
  <2>4. CASE Poll /\ HostFrame /\ UNCHANGED <<hostVars, appVars>>
    BY <2>4 DEF Poll, HostFrame, ipcVars, hostVars, webVars, viewVars
  <2>5. CASE UNCHANGED vars
    BY <2>5 DEF vars, ipcVars, hostVars, webVars, viewVars
  <2> QED
    BY <2>1, <2>2, <2>3, <2>4, <2>5 DEF Next
<1> QED
  BY <1>3, <1>4, <1>5, <1>6, <1>7

(* It holds at the start: the maps are empty.                              *)
LEMMA MapStart == Init => MapInv
<1> SUFFICES ASSUME Init PROVE MapInv
  OBVIOUS
<1>1. HeapInv
  BY HeapStart
<1>2. MapsPointToLive /\ ClosedViewsSilent
  BY IpcAssumption DEF Init, IpcInit, HostInit, WebInit, MapsPointToLive, ViewsInMapLive,
     TargetsInMapLive, ClosedViewsSilent
<1> QED
  BY <1>1, <1>2 DEF MapInv

(* Neither process ever calls through a dangling pointer in a map from     *)
(* pools to objects: a view in m_viewBackendMap and a target in            *)
(* m_targetMap exist and will take their pool out of it (registerPool,     *)
(* unregisterPool and ~ViewBackend of view-backend.cpp, initialize and     *)
(* ~EGLTarget of renderer-backend-egl.cpp).                                *)
THEOREM MapsCorrect == Spec => []MapsPointToLive
<1>1. Init => MapInv
  BY MapStart
<1>2. MapInv /\ [Next]_vars => MapInv'
  BY MapStep
<1>3. MapInv => MapsPointToLive
  BY DEF MapInv
<1> QED
  BY <1>1, <1>2, <1>3, PTL DEF Spec

-----------------------------------------------------------------------------
(* Queues of messages of a smaller type.                                   *)

(* A message more or less keeps a single queue's type.                     *)
LEMMA QueueType ==
  ASSUME NEW S, NEW s \in Seq(S)
  PROVE  /\ s # <<>> => Head(s) \in S /\ Tail(s) \in Seq(S)
         /\ \A m \in S : Append(s, m) \in Seq(S)
         /\ <<>> \in Seq(S)
  BY HeadTailProperties, AppendProperties, EmptySeq

(* There is nothing in an empty queue.                                     *)
LEMMA EmptyQueue == \A i \in 1 .. Len(<<>>) : FALSE
<1>1. Len(<<>>) = 0 /\ \A i \in 1 .. 0 : FALSE
  OBVIOUS
<1> QED
  BY <1>1

(* A type that grows keeps a family of queues in it.                       *)
LEMMA WiderType ==
  ASSUME NEW I, NEW S, NEW T, S \subseteq T, NEW q \in [I -> Seq(S)]
  PROVE  q \in [I -> Seq(T)]
<1>1. \A i \in I : q[i] \in Seq(T)
  BY SeqMonotonic
<1> QED
  BY <1>1

-----------------------------------------------------------------------------
(* Pools.                                                                  *)

(* What the invariant says of the messages at hand.                        *)
LEMMA KnownHeads ==
  ASSUME PoolInv, NEW w \in Processes
  PROVE  /\ nextPoolID \in Nat /\ TypeOK
         /\ toHost[w] # <<>> => /\ Received(toHost, w) \in [Processes -> Seq(KnownHostMessage)]
                                /\ Head(toHost[w]) \in KnownHostMessage
         /\ toWeb[w] # <<>> => /\ Received(toWeb, w) \in [Processes -> Seq(KnownWebMessage)]
                               /\ Head(toWeb[w]) \in KnownWebMessage
<1>1. nextPoolID \in Nat /\ TypeOK
  BY IpcAssumption DEF PoolInv, HeapInv, TypeOK, HostTypeOK
<1>2. /\ toHost \in [Processes -> Seq(KnownHostMessage)]
      /\ toWeb \in [Processes -> Seq(KnownWebMessage)]
  BY DEF PoolInv, PoolsKnown
<1> QED
  BY <1>1, <1>2, ReceivedType

(* A target names the pool of its reply, or pool 0 after a misread one.    *)
LEMMA TargetPools ==
  ASSUME PoolInv, NEW t \in Targets, TargetStep(t), WebFrame
  PROVE  PoolsKnown'
<1> DEFINE w == ProcessOf[t]
<1>1. /\ w \in Processes /\ poolID \in [Targets -> PoolIDs] /\ phase \in [Targets -> Phases]
      /\ nextPoolID \in Nat /\ PoolIDs \subseteq Nat /\ TypeOK
  BY IpcAssumption, KnownHeads DEF TypeOK, WebTypeOK, PoolIDs
<1>2. UNCHANGED <<nextPoolID, poolClient, hostBuffer, unfinished, lastExportedPoolID>>
  BY DEF WebFrame, hostVars, appVars
<1>3. KnownHostMessage' = KnownHostMessage /\ KnownWebMessage' = KnownWebMessage
  BY <1>2 DEF KnownHostMessage, KnownWebMessage
<1>4. PoolsKnown
  BY DEF PoolInv
<1>5. toHost' \in [Processes -> Seq(KnownHostMessage)]
  <2>1. CASE Initialize(t)
    <3>1. PoolConstructionMsg \in KnownHostMessage
      BY MessageTypes DEF KnownHostMessage, PoolConstructionMsg
    <3>2. [toHost EXCEPT ![w] = Append(@, PoolConstructionMsg)] \in [Processes -> Seq(KnownHostMessage)]
      BY <1>4, <3>1, SentType DEF PoolsKnown
    <3> QED
      BY <2>1, <3>2 DEF Initialize, SendToHost
  <2>2. CASE Resize(t)
    <3> DEFINE m == PoolPurgeMsg(poolID[t])
    <3>1. m \in KnownHostMessage
      <4>1. poolID[t] < nextPoolID /\ m.poolID = poolID[t]
        BY <1>4, <2>2 DEF PoolsKnown, Resize, Callable, Young, PoolPurgeMsg
      <4> QED
        BY <1>1, <4>1, MessageTypes DEF KnownHostMessage
    <3> HIDE DEF m
    <3>2. [toHost EXCEPT ![w] = Append(@, m)] \in [Processes -> Seq(KnownHostMessage)]
      BY <1>4, <3>1, SentType DEF PoolsKnown
    <3> QED
      BY <2>2, <3>2 DEF Resize, SendToHost, m
  <2>3. CASE \E b \in Slots, o \in Objects : FrameAllocates(t, b, o)
    <3>1. PICK b \in Slots, o \in Objects : FrameAllocates(t, b, o)
      BY <2>3
    <3> DEFINE m == BufferAllocationMsg(poolID[t], b, o)
    <3>2. m \in KnownHostMessage
      <4>1. poolID[t] < nextPoolID /\ m.poolID = poolID[t]
        BY <1>4, <3>1 DEF PoolsKnown, FrameAllocates, CanRender, Callable, Young, BufferAllocationMsg
      <4> QED
        BY <1>1, <4>1, MessageTypes DEF KnownHostMessage
    <3> HIDE DEF m
    <3>3. [toHost EXCEPT ![w] = Append(@, m)] \in [Processes -> Seq(KnownHostMessage)]
      BY <1>4, <3>2, SentType DEF PoolsKnown
    <3> QED
      BY <3>1, <3>3 DEF FrameAllocates, SendToHost, m
  <2>4. CASE FrameRendered(t) /\ ~UNCHANGED toHost
    <3> DEFINE m == BufferCommitMsg(poolID[t], current[t])
    <3>1. m \in KnownHostMessage
      <4>1. poolID[t] < nextPoolID /\ m.poolID = poolID[t] /\ current[t] \in Slots
        BY <1>1, <1>4, <2>4
        DEF PoolsKnown, FrameRendered, Young, BufferCommitMsg, TypeOK, WebTypeOK
      <4> QED
        BY <1>1, <4>1, MessageTypes DEF KnownHostMessage
    <3> HIDE DEF m
    <3>2. [toHost EXCEPT ![w] = Append(@, m)] \in [Processes -> Seq(KnownHostMessage)]
      BY <1>4, <3>1, SentType DEF PoolsKnown
    <3> QED
      BY <2>4, <3>2 DEF FrameRendered, SendToHost, m
  <2>5. CASE UNCHANGED toHost
    BY <1>4, <2>5 DEF PoolsKnown
  <2> QED
    BY <2>1, <2>2, <2>3, <2>4, <2>5 DEF TargetStep, CreateTarget, ReceiveReply, FrameAborts,
       FrameReuses, FrameFailsToAllocate, Deinitialize, DestroyTarget, ipcVars
<1>6. /\ toWeb' \in [Processes -> Seq(KnownWebMessage)]
      /\ \A s \in Targets : IF Young(s)' THEN poolID'[s] = 0 ELSE poolID'[s] < nextPoolID
  <2>1. CASE ReceiveReply(t)
    <3>1. /\ toWeb[w] # <<>> /\ toWeb' = Received(toWeb, w)
          /\ phase[t] = "constructing" /\ phase' = [phase EXCEPT ![t] = "ready"]
          /\ poolID' = [poolID EXCEPT ![t] = Head(toWeb[w]).poolID] \/ UNCHANGED poolID
      BY <2>1 DEF ReceiveReply
    <3>2. /\ toWeb' \in [Processes -> Seq(KnownWebMessage)]
          /\ Head(toWeb[w]) \in KnownWebMessage
      BY <1>1, <3>1, KnownHeads
    <3>3. Head(toWeb[w]).poolID \in Nat /\ Head(toWeb[w]).poolID < nextPoolID
      BY <1>1, <3>2, WebMessageFields DEF KnownWebMessage
    <3>4. poolID[t] = 0
      BY <1>4, <3>1 DEF PoolsKnown, Young
    <3> QED
      BY <1>1, <1>4, <3>1, <3>2, <3>3, <3>4 DEF PoolsKnown, Young
  <2>2. CASE FrameAborts(t)
    BY <1>1, <1>4, <2>2, EmptySeq DEF FrameAborts, CloseWeb, webVars, PoolsKnown, Young
  <2>3. CASE /\ UNCHANGED <<toWeb, poolID>>
             /\ \/ UNCHANGED phase
                \/ Young(t) /\ phase' = [phase EXCEPT ![t] = "created"]
                \/ Young(t) /\ phase' = [phase EXCEPT ![t] = "constructing"]
                \/ ~Young(t) /\ phase' = [phase EXCEPT ![t] = "deinitialized"]
                \/ ~Young(t) /\ phase' = [phase EXCEPT ![t] = "destroyed"]
    BY <1>1, <1>4, <2>3 DEF PoolsKnown, Young
  <2> QED
    BY <2>1, <2>2, <2>3 DEF TargetStep, CreateTarget, Initialize, Resize, FrameReuses,
       FrameFailsToAllocate, FrameAllocates, FrameRendered, Deinitialize, DestroyTarget,
       Callable, Young, ipcVars
<1> QED
  BY <1>2, <1>3, <1>4, <1>5, <1>6 DEF PoolsKnown

(* A web process reads or loses messages.                                  *)
LEMMA WebPools ==
  ASSUME PoolInv, NEW w \in Processes, HandleWebMessage(w) \/ WebExits(w), WebFrame
  PROVE  PoolsKnown'
<1>1. UNCHANGED <<nextPoolID, poolClient, hostBuffer, unfinished, lastExportedPoolID, toHost, phase, poolID>>
  BY DEF WebFrame, hostVars, appVars, HandleWebMessage, WebExits, webVars
<1>2. KnownHostMessage' = KnownHostMessage /\ KnownWebMessage' = KnownWebMessage
  BY <1>1 DEF KnownHostMessage, KnownWebMessage
<1>3. PoolsKnown
  BY DEF PoolInv
<1>4. toWeb' \in [Processes -> Seq(KnownWebMessage)]
  <2>1. CASE HandleWebMessage(w)
    BY <2>1, KnownHeads DEF HandleWebMessage
  <2>2. CASE WebExits(w)
    BY <1>3, <2>2, EmptySeq DEF WebExits, CloseWeb, PoolsKnown
  <2> QED
    BY <2>1, <2>2
<1> QED
  BY <1>1, <1>2, <1>3, <1>4 DEF PoolsKnown, Young

(* The handle of the allocation at hand is that of no Buffer yet.          *)
LEMMA FreshHead ==
  ASSUME HeapInv, NEW w \in Processes, toHost[w] # <<>>, Head(toHost[w]).code = "BufferAllocation"
  PROVE  /\ hostBuffer[Head(toHost[w]).object] = None
         /\ Head(toHost[w]).object \in Objects
<1>1. toHost \in [Processes -> Seq(HostMessage)]
  BY DEF HeapInv, TypeOK, IpcTypeOK
<1>2. Head(toHost[w]) = toHost[w][1] /\ 1 \in 1 .. Len(toHost[w])
  BY <1>1, HeadTailProperties, LenProperties, EmptySeq
<1>3. Head(toHost[w]) \in HostMessage
  BY <1>1, ReceivedType
<1> QED
  BY <1>2, <1>3, HostMessageFields DEF HeapInv, TransitFresh

(* What a proxy may do to a Buffer: lock it, mark it, delete it, or make   *)
(* the one its message brings.                                             *)
LEMMA ProxyBuffers ==
  ASSUME HeapInv, NEW w \in Processes, ProxyStep(w), NEW o \in Objects, hostBuffer'[o] # None
  PROVE  LET m == Head(toHost[w])
         IN  \/ /\ hostBuffer[o] # None
                /\ hostBuffer'[o].poolID = hostBuffer[o].poolID
                /\ hostBuffer'[o].bufferID = hostBuffer[o].bufferID
                /\ hostBuffer[o].pendingDelete => hostBuffer'[o].pendingDelete
                /\ hostBuffer[o].locked => hostBuffer'[o].locked
                /\ \/ hostBuffer'[o].locked = hostBuffer[o].locked
                   \/ CommitToView(w) /\ o = poolBuffers[m.poolID][m.bufferID]
                /\ \/ hostBuffer'[o].pendingDelete = hostBuffer[o].pendingDelete
                   \/ PurgePool(w)
             \/ /\ hostBuffer[o] = None
                /\ BufferAllocation(w) /\ m.code = "BufferAllocation" /\ o = m.object
                /\ hostBuffer'[o].poolID = m.poolID
                /\ hostBuffer'[o].bufferID = m.bufferID
                /\ ~hostBuffer'[o].locked /\ ~hostBuffer'[o].pendingDelete
<1> DEFINE m == Head(toHost[w])
<1>1. /\ hostBuffer \in [Objects -> Buffer \cup {None}] /\ None \notin Buffer
      /\ poolBuffers \in [PoolIDs -> [Slots -> Objects \cup {None}]]
      /\ None \notin Objects
      /\ SlotsPointToLive
  BY IpcAssumption, RendererHostAssumption
  DEF HeapInv, TypeOK, HostTypeOK, HostHeapConsistent
<1>2. CASE ConstructPool(w)
  BY <1>1, <1>2 DEF ConstructPool
<1>3. CASE PurgePool(w)
  <2>1. \/ hostBuffer'[o] = hostBuffer[o]
        \/ hostBuffer'[o] = AfterPurge(hostBuffer[o])
    BY <1>1, <1>3 DEF PurgePool
  <2>2. hostBuffer[o] # None
    BY <1>3, PurgeHeap
  <2>3. hostBuffer[o] \in Buffer
    BY <1>1, <2>2
  <2> QED
    BY <1>3, <2>1, <2>2, <2>3 DEF AfterPurge, Buffer
<1>4. CASE BufferAllocation(w)
  <2>1. hostBuffer[m.object] = None /\ m.code = "BufferAllocation"
    BY <1>4, FreshHead DEF BufferAllocation, Reads
  <2>2. PICK received \in {TRUE, ~RecvMayFail} : hostBuffer'[o] =
          IF o = m.object
            THEN [poolID |-> m.poolID, bufferID |-> m.bufferID, locked |-> FALSE,
                  pendingDelete |-> FALSE, hasHandle |-> received]
          ELSE IF o = poolBuffers[m.poolID][m.bufferID] THEN None ELSE hostBuffer[o]
    BY <1>1, <1>4 DEF BufferAllocation
  <2>3. CASE o = m.object
    <3>1. hostBuffer'[o] = [poolID |-> m.poolID, bufferID |-> m.bufferID, locked |-> FALSE,
                            pendingDelete |-> FALSE, hasHandle |-> received]
      BY <2>2, <2>3
    <3>2. /\ hostBuffer'[o].poolID = m.poolID /\ hostBuffer'[o].bufferID = m.bufferID
          /\ hostBuffer'[o].locked = FALSE /\ hostBuffer'[o].pendingDelete = FALSE
      BY <3>1
    <3>3. hostBuffer[o] = None
      BY <2>1, <2>3
    <3> QED
      BY <1>4, <2>1, <2>3, <3>2, <3>3
  <2>4. CASE o # m.object
    <3>1. hostBuffer'[o] = hostBuffer[o]
      BY <2>2, <2>4
    <3> QED
      BY <3>1
  <2> QED
    BY <2>3, <2>4
<1>5. CASE CommitToView(w)
  <2> DEFINE x == poolBuffers[m.poolID][m.bufferID]
  <2>1. hostBuffer' = [hostBuffer EXCEPT ![x].locked = TRUE]
    BY <1>5 DEF CommitToView
  <2> HIDE DEF x
  <2>2. CASE o # x
    BY <1>1, <2>1, <2>2
  <2>3. CASE o = x
    <3>1. hostBuffer[o] # None
      <4>1. m \in HostMessage
        BY <1>5, ReceivedType DEF HeapInv, TypeOK, IpcTypeOK, CommitToView, Reads
      <4>2. m.poolID \in PoolIDs /\ m.bufferID \in Slots
        BY <1>5, <4>1, HostMessageFields DEF CommitToView, Reads
      <4>3. o = poolBuffers[m.poolID][m.bufferID]
        BY <2>3 DEF x
      <4> HIDE DEF m
      <4> QED
        BY <1>1, <2>3, <4>2, <4>3 DEF SlotsPointToLive, x
    <3>2. hostBuffer[o] \in Buffer /\ hostBuffer'[o] = [hostBuffer[o] EXCEPT !.locked = TRUE]
      BY <1>1, <2>1, <2>3, <3>1
    <3> QED
      BY <1>5, <2>3, <3>1, <3>2 DEF Buffer, x
  <2> QED
    BY <2>2, <2>3
<1>6. CASE CommitWithoutView(w)
  BY <1>1, <1>6 DEF CommitWithoutView
<1> QED
  BY <1>2, <1>3, <1>4, <1>5, <1>6 DEF ProxyStep

(* A proxy makes the next pool, or works on the one its message names.     *)
LEMMA ProxyPools ==
  ASSUME PoolInv, NEW w \in Processes, ProxyStep(w), HostFrame
  PROVE  PoolsKnown'
<1> DEFINE m == Head(toHost[w])
<1>1. /\ nextPoolID \in Nat /\ PoolIDs \subseteq Nat /\ MaxPools \in Nat
      /\ poolClient \in [PoolIDs -> Processes \cup {None}]
      /\ None \notin Processes
  BY IpcAssumption, KnownHeads DEF PoolIDs, TypeOK, HostTypeOK
<1>6. /\ toHost[w] # <<>> /\ toHost' = Received(toHost, w)
      /\ UNCHANGED <<phase, poolID>>
  BY DEF HostFrame, webVars, ProxyStep, ConstructPool, PurgePool, BufferAllocation, CommitToView,
     CommitWithoutView, Reads, Done
<1>2. /\ toHost' \in [Processes -> Seq(KnownHostMessage)]
      /\ m \in KnownHostMessage
  BY <1>6, KnownHeads
<1>3. PoolsKnown
  BY DEF PoolInv
<1>4. CASE ConstructPool(w)
  <2>1. /\ nextPoolID \in PoolIDs /\ nextPoolID' = nextPoolID + 1
        /\ poolClient' = [poolClient EXCEPT ![nextPoolID] = w]
        /\ UNCHANGED <<hostBuffer, unfinished, lastExportedPoolID>>
    BY <1>1, <1>4 DEF ConstructPool, NewPoolID, PoolIDs, appVars
  <2>2. KnownHostMessage \subseteq KnownHostMessage' /\ KnownWebMessage \subseteq KnownWebMessage'
    <3>1. \A q \in PoolIDs : q < nextPoolID => q < nextPoolID'
      BY <1>1, <2>1
    <3>2. \A x \in HostMessage : x.code # "PoolConstruction" => x.poolID \in PoolIDs
      BY HostMessageFields
    <3>3. \A x \in WebMessage : x.poolID \in PoolIDs
      BY WebMessageFields
    <3> QED
      BY <3>1, <3>2, <3>3 DEF KnownHostMessage, KnownWebMessage
  <2>3. toHost' \in [Processes -> Seq(KnownHostMessage')]
    BY <1>2, <2>2, WiderType
  <2>4. toWeb' \in [Processes -> Seq(KnownWebMessage')]
    <3> DEFINE reply == PoolConstructionReplyMsg(nextPoolID)
    <3>1. reply \in KnownWebMessage'
      <4>1. reply \in WebMessage /\ reply.poolID = nextPoolID
        BY <2>1, MessageTypes DEF PoolConstructionReplyMsg
      <4>2. reply.poolID < nextPoolID'
        BY <1>1, <2>1, <4>1
      <4> QED
        BY <4>1, <4>2 DEF KnownWebMessage
    <3>2. toWeb \in [Processes -> Seq(KnownWebMessage')]
      BY <1>3, <2>2, WiderType DEF PoolsKnown
    <3>3. toWeb' = toWeb \/ toWeb' = [toWeb EXCEPT ![w] = Append(@, reply)]
      BY <1>4 DEF ConstructPool, SendToWeb, NewPoolID
    <3> HIDE DEF reply
    <3>4. [toWeb EXCEPT ![w] = Append(@, reply)] \in [Processes -> Seq(KnownWebMessage')]
      BY <3>1, <3>2, SentType
    <3> QED
      BY <3>2, <3>3, <3>4
  <2>5. \A p \in PoolIDs : poolClient'[p] # None <=> p < nextPoolID'
    <3>1. TAKE p \in PoolIDs
    <3>2. p \in Nat /\ (poolClient[p] # None <=> p < nextPoolID)
      BY <1>1, <1>3 DEF PoolsKnown
    <3>3. CASE p = nextPoolID
      BY <1>1, <2>1, <3>3
    <3>4. CASE p # nextPoolID
      BY <1>1, <2>1, <3>2, <3>4
    <3> QED
      BY <3>3, <3>4
  <2>6. \A t \in Targets : IF Young(t)' THEN poolID'[t] = 0 ELSE poolID'[t] < nextPoolID'
    <3>1. \A t \in Targets : poolID[t] \in Nat
      BY <1>1, KnownHeads DEF TypeOK, WebTypeOK
    <3> QED
      BY <1>1, <1>3, <1>6, <2>1, <3>1 DEF PoolsKnown, Young
  <2>7. \A o \in Objects : hostBuffer'[o] # None => hostBuffer'[o].poolID < nextPoolID'
    <3>1. \A o \in Objects : hostBuffer[o] # None => hostBuffer[o].poolID \in Nat
      BY <1>1, KnownHeads DEF TypeOK, HostTypeOK, Buffer
    <3> QED
      BY <1>1, <1>3, <2>1, <3>1 DEF PoolsKnown
  <2>8. \A v \in Views : unfinished'[v] # <<>> => lastExportedPoolID' < nextPoolID'
    <3>1. lastExportedPoolID \in Nat
      BY <1>1, KnownHeads DEF TypeOK, HostTypeOK
    <3> QED
      BY <1>1, <1>3, <2>1, <3>1 DEF PoolsKnown
  <2> QED
    BY <2>3, <2>4, <2>5, <2>6, <2>7, <2>8 DEF PoolsKnown
<1>5. CASE ~ConstructPool(w)
  <2>1. /\ UNCHANGED <<nextPoolID, poolClient, toWeb>>
        /\ m.code # "PoolConstruction" /\ m.poolID < nextPoolID
    BY <1>2, <1>5 DEF ProxyStep, PurgePool, BufferAllocation, CommitToView, CommitWithoutView,
       Reads, KnownHostMessage
  <2>2. KnownHostMessage' = KnownHostMessage /\ KnownWebMessage' = KnownWebMessage
    BY <2>1 DEF KnownHostMessage, KnownWebMessage
  <2>3. \A o \in Objects : hostBuffer'[o] # None =>
          \/ hostBuffer[o] # None /\ hostBuffer'[o].poolID = hostBuffer[o].poolID
          \/ hostBuffer'[o].poolID = m.poolID
    BY <1>5, ProxyBuffers DEF PoolInv
  <2>4. \/ lastExportedPoolID' = m.poolID
        \/ UNCHANGED <<lastExportedPoolID, unfinished>>
    BY <1>5 DEF ProxyStep, PurgePool, BufferAllocation, CommitToView, CommitWithoutView, appVars
  <2> QED
    BY <1>1, <1>2, <1>3, <1>6, <2>1, <2>2, <2>3, <2>4 DEF PoolsKnown, Young
<1> QED
  BY <1>4, <1>5

(* What a release does to a Buffer: it unlocks or deletes the one released. *)
LEMMA ReleasedBuffers ==
  ASSUME HeapInv, NEW o \in Objects, ReleaseBuffer(o), NEW x \in Objects
  PROVE  /\ x # o => hostBuffer'[x] = hostBuffer[x]
         /\ hostBuffer[o] \in Buffer /\ hostBuffer[o] # None
         /\ hostBuffer'[x] # None =>
              /\ hostBuffer[x] # None
              /\ hostBuffer'[x].poolID = hostBuffer[x].poolID
              /\ hostBuffer'[x].bufferID = hostBuffer[x].bufferID
              /\ hostBuffer'[x].pendingDelete = hostBuffer[x].pendingDelete
              /\ x = o => ~hostBuffer'[x].locked /\ ~hostBuffer[o].pendingDelete
<1>1. hostBuffer \in [Objects -> Buffer \cup {None}] /\ hostBuffer[o] # None
  BY DEF HeapInv, TypeOK, HostTypeOK, ReleaseBuffer
<1>2. hostBuffer[o] \in Buffer
  BY <1>1
<1>3. CASE hostBuffer[o].pendingDelete /\ hostBuffer' = [hostBuffer EXCEPT ![o] = None]
  BY <1>1, <1>2, <1>3
<1>4. CASE ~hostBuffer[o].pendingDelete /\ hostBuffer' = [hostBuffer EXCEPT ![o].locked = FALSE]
  <2>1. hostBuffer'[o] = [hostBuffer[o] EXCEPT !.locked = FALSE]
    BY <1>1, <1>4
  <2>2. /\ hostBuffer'[o].poolID = hostBuffer[o].poolID
        /\ hostBuffer'[o].bufferID = hostBuffer[o].bufferID
        /\ hostBuffer'[o].pendingDelete = hostBuffer[o].pendingDelete
        /\ ~hostBuffer'[o].locked
    BY <1>2, <2>1 DEF Buffer
  <2>3. x # o => hostBuffer'[x] = hostBuffer[x]
    BY <1>1, <1>4
  <2> QED
    BY <1>1, <1>2, <1>4, <2>2, <2>3
<1> QED
  BY <1>3, <1>4 DEF ReleaseBuffer

(* What it sends: the release of the slot the Buffer was made for.         *)
LEMMA ReleaseSends ==
  ASSUME HeapInv, NEW o \in Objects, ReleaseBuffer(o)
  PROVE  LET p == hostBuffer[o].poolID
             b == hostBuffer[o].bufferID
             w == poolClient[p]
         IN  /\ p \in PoolIDs /\ b \in Slots
             /\ \/ UNCHANGED toWeb
                \/ /\ ~hostBuffer[o].pendingDelete
                   /\ w \in Processes => webUp[w]
                   /\ toWeb' = [toWeb EXCEPT ![w] = Append(@, ReleaseBufferMsg(p, b))]
<1>1. hostBuffer[o] \in Buffer
  BY ReleasedBuffers
<1> QED
  BY <1>1 DEF ReleaseBuffer, SendToWeb, Buffer

(* The views and their applications send to known pools only.              *)
LEMMA ViewPools ==
  ASSUME PoolInv, NEW v \in Views, ViewFrame,
         CreateView(v) \/ HandleViewMessage(v) \/ DestroyView(v) \/ ReleaseStep(v) \/ DispatchFrameComplete(v)
  PROVE  PoolsKnown'
<1>1. /\ unfinished \in [Views -> Seq(PoolIDs)]
      /\ lastExportedPoolID \in PoolIDs
      /\ HeapInv /\ PoolsKnown /\ TypeOK
  BY DEF PoolInv, HeapInv, TypeOK, HostTypeOK
<1>2. UNCHANGED <<nextPoolID, poolClient, toHost, phase, poolID, lastExportedPoolID>>
  BY DEF ViewFrame, webVars, CreateView, HandleViewMessage, DestroyView, ReleaseStep, OpenView,
     DispatchReleaseBuffer, ReleaseBuffer, DispatchFrameComplete, FrameComplete, hostVars
<1>3. KnownHostMessage' = KnownHostMessage /\ KnownWebMessage' = KnownWebMessage
  BY <1>2 DEF KnownHostMessage, KnownWebMessage
<1>4. CASE ReleaseStep(v)
  <2>1. PICK i \in 1 .. Len(held[v]) : DispatchReleaseBuffer(v, i)
    BY <1>4 DEF ReleaseStep
  <2> DEFINE o == held[v][i]
             p == hostBuffer[o].poolID
             m == ReleaseBufferMsg(p, hostBuffer[o].bufferID)
  <2>2. o \in Objects
    BY <1>1, ElementOfSeq DEF TypeOK, HostTypeOK
  <2>3. ReleaseBuffer(o) /\ UNCHANGED unfinished
    BY <2>1 DEF DispatchReleaseBuffer
  <2>4. m \in KnownWebMessage
    <3>1. m \in WebMessage
      BY <1>1, <2>2, <2>3, ReleaseSends, MessageTypes
    <3>2. p < nextPoolID
      BY <1>1, <2>2, <2>3, ReleasedBuffers DEF PoolsKnown
    <3>3. m.poolID = p
      BY DEF ReleaseBufferMsg
    <3> QED
      BY <3>1, <3>2, <3>3 DEF KnownWebMessage
  <2>5. toWeb' \in [Processes -> Seq(KnownWebMessage)]
    <3>1. UNCHANGED toWeb \/ toWeb' = [toWeb EXCEPT ![poolClient[p]] = Append(@, m)]
      BY <1>1, <2>2, <2>3, ReleaseSends
    <3> HIDE DEF m, p
    <3>2. [toWeb EXCEPT ![poolClient[p]] = Append(@, m)] \in [Processes -> Seq(KnownWebMessage)]
      BY <1>1, <2>4, SentType DEF PoolsKnown
    <3> QED
      BY <1>1, <3>1, <3>2 DEF PoolsKnown
  <2>6. \A x \in Objects : hostBuffer'[x] # None => hostBuffer'[x].poolID < nextPoolID
    BY <1>1, <2>2, <2>3, ReleasedBuffers DEF PoolsKnown
  <2> QED
    BY <1>1, <1>2, <1>3, <2>3, <2>5, <2>6 DEF PoolsKnown, Young
<1>5. CASE DispatchFrameComplete(v)
  <2> DEFINE m == FrameCompleteMsg(lastExportedPoolID)
             w == poolClient[lastExportedPoolID]
  <2>1. unfinished[v] # <<>> /\ unfinished' = Received(unfinished, v) /\ UNCHANGED hostBuffer
    BY <1>5 DEF DispatchFrameComplete, CanComplete, FrameComplete, hostVars
  <2>2. lastExportedPoolID < nextPoolID
    BY <1>1, <2>1 DEF PoolsKnown
  <2>3. m \in KnownWebMessage
    <3>1. m \in WebMessage /\ m.poolID = lastExportedPoolID
      BY <1>1, MessageTypes DEF FrameCompleteMsg
    <3> QED
      BY <2>2, <3>1 DEF KnownWebMessage
  <2>4. toWeb' \in [Processes -> Seq(KnownWebMessage)]
    <3>1. UNCHANGED toWeb \/ toWeb' = [toWeb EXCEPT ![w] = Append(@, m)]
      BY <1>5 DEF DispatchFrameComplete, FrameComplete, SendToWeb
    <3> HIDE DEF m, w
    <3>2. [toWeb EXCEPT ![w] = Append(@, m)] \in [Processes -> Seq(KnownWebMessage)]
      BY <1>1, <2>3, SentType DEF PoolsKnown
    <3> QED
      BY <1>1, <3>1, <3>2 DEF PoolsKnown
  <2> QED
    BY <1>1, <1>2, <1>3, <2>1, <2>2, <2>4 DEF PoolsKnown, Young
<1>6. CASE CreateView(v) \/ HandleViewMessage(v) \/ DestroyView(v)
  <2>1. /\ UNCHANGED <<toWeb, hostBuffer>>
        /\ unfinished' = unfinished \/ unfinished' = [unfinished EXCEPT ![v] = <<>>]
    BY <1>6 DEF CreateView, HandleViewMessage, DestroyView, OpenView, hostVars, appVars
  <2>2. \A u \in Views : unfinished'[u] # <<>> => unfinished[u] # <<>>
    BY <1>1, <2>1
  <2> QED
    BY <1>1, <1>2, <1>3, <2>1, <2>2 DEF PoolsKnown, Young
<1> QED
  BY <1>4, <1>5, <1>6

(* The invariant of the pools is inductive.                                *)
LEMMA PoolStep ==
  ASSUME PoolInv, [Next]_vars
  PROVE  PoolInv'
<1>1. HeapInv'
  BY HeapStep DEF PoolInv
<1>2. CASE UNCHANGED <<nextPoolID, poolClient, hostBuffer, unfinished, lastExportedPoolID,
                       toHost, toWeb, phase, poolID>>
  <2>1. KnownHostMessage' = KnownHostMessage /\ KnownWebMessage' = KnownWebMessage
    BY <1>2 DEF KnownHostMessage, KnownWebMessage
  <2> QED
    BY <1>1, <1>2, <2>1 DEF PoolInv, PoolsKnown, Young
<1>3. \/ UNCHANGED <<nextPoolID, poolClient, hostBuffer, unfinished, lastExportedPoolID,
                     toHost, toWeb, phase, poolID>>
      \/ \E t \in Targets : TargetStep(t) /\ WebFrame
      \/ \E w \in Processes : \/ (HandleWebMessage(w) \/ WebExits(w)) /\ WebFrame
                              \/ ProxyStep(w) /\ HostFrame
      \/ \E v \in Views :
           /\ CreateView(v) \/ HandleViewMessage(v) \/ DestroyView(v) \/ ReleaseStep(v) \/ DispatchFrameComplete(v)
           /\ ViewFrame
  BY DEF Next, CreateClient, OpenWeb, Poll, HostFrame, vars, ipcVars, webVars, hostVars, appVars
<1> QED
  BY <1>1, <1>2, <1>3, TargetPools, WebPools, ProxyPools, ViewPools DEF PoolInv

(* It holds at the start: no pool, no message.                             *)
LEMMA PoolStart == Init => PoolInv
<1> SUFFICES ASSUME Init PROVE PoolInv
  OBVIOUS
<1>1. HeapInv
  BY HeapStart
<1>2. PoolsKnown
  BY EmptySeq DEF Init, IpcInit, WebInit, HostInit, PoolsKnown, Young, PoolIDs
<1> QED
  BY <1>1, <1>2 DEF PoolInv

(* No message, Buffer, target or frame ever names a pool that was not      *)
(* created, whatever the reply to a construction was taken for             *)
(* (createBufferPool of renderer-host.cpp, EGLTarget::initialize).         *)
THEOREM PoolInvariant == Spec => []PoolInv
<1>1. PoolInv /\ [Next]_vars => PoolInv'
  BY PoolStep
<1> QED
  BY <1>1, PoolStart, PTL DEF Spec

(* Every pool that purgePool, bufferAllocation, bufferCommit, releaseBuffer *)
(* and frameComplete look up exists: findBufferPool never returns the null  *)
(* pointer they would dereference.                                          *)
THEOREM PoolsFound == Spec => []PoolsExist
<1>1. PoolInv => PoolsExist
  <2> SUFFICES ASSUME PoolInv PROVE PoolsExist
    OBVIOUS
  <2>1. ASSUME NEW w \in Processes, toHost[w] # <<>>, Head(toHost[w]).code # "PoolConstruction"
        PROVE  poolClient[Head(toHost[w]).poolID] # None
    <3>1. Head(toHost[w]) \in KnownHostMessage
      BY <2>1, KnownHeads
    <3>2. Head(toHost[w]).poolID \in PoolIDs /\ Head(toHost[w]).poolID < nextPoolID
      BY <2>1, <3>1, HostMessageFields DEF KnownHostMessage
    <3> QED
      BY <3>2 DEF PoolInv, PoolsKnown
  <2>2. ASSUME NEW o \in Objects, hostBuffer[o] # None
        PROVE  poolClient[hostBuffer[o].poolID] # None
    <3>1. hostBuffer[o].poolID \in PoolIDs
      BY <2>2 DEF PoolInv, HeapInv, TypeOK, HostTypeOK, Buffer
    <3> QED
      BY <2>2, <3>1 DEF PoolInv, PoolsKnown
  <2>3. ASSUME NEW v \in Views, unfinished[v] # <<>>
        PROVE  poolClient[lastExportedPoolID] # None
    BY <2>3 DEF PoolInv, PoolsKnown, HeapInv, TypeOK, HostTypeOK
  <2> QED
    BY <2>1, <2>2, <2>3 DEF PoolsExist
<1> QED
  BY <1>1, PoolInvariant, PTL

-----------------------------------------------------------------------------
(* Locked Buffers.                                                         *)

(* The elements of a sequence without its i-th.                            *)
LEMMA RemovedElements ==
  ASSUME NEW S, NEW s \in Seq(S), NEW i \in 1 .. Len(s)
  PROVE  /\ RemoveAt(s, i) \in Seq(S)
         /\ Len(RemoveAt(s, i)) = Len(s) - 1
         /\ \A j \in 1 .. Len(s) - 1 : RemoveAt(s, i)[j] = s[IF j < i THEN j ELSE j + 1]
<1> DEFINE a == SubSeq(s, 1, i - 1)
           b == SubSeq(s, i + 1, Len(s))
<1>1. Len(s) \in Nat /\ i \in Nat /\ 1 <= i /\ i <= Len(s)
  BY LenProperties
<1>2. \A j \in 1 .. Len(s) : s[j] \in S
  BY ElementOfSeq
<1>3. /\ a \in Seq(S) /\ Len(a) = i - 1
      /\ \A j \in 1 .. i - 1 : a[j] = s[j]
  BY <1>1, <1>2, SubSeqProperties
<1>4. /\ b \in Seq(S) /\ Len(b) = Len(s) - i
      /\ \A j \in 1 .. Len(s) - i : b[j] = s[i + j]
  BY <1>1, <1>2, SubSeqProperties
<1>5. RemoveAt(s, i) = a \o b
  BY DEF RemoveAt
<1> HIDE DEF a, b
<1>6. /\ a \o b \in Seq(S)
      /\ Len(a \o b) = Len(s) - 1
      /\ \A j \in 1 .. Len(s) - 1 : (a \o b)[j] = IF j <= i - 1 THEN a[j] ELSE b[j - (i - 1)]
  <2>1. Len(a) + Len(b) = Len(s) - 1
    BY <1>1, <1>3, <1>4
  <2>2. /\ a \o b \in Seq(S) /\ Len(a \o b) = Len(a) + Len(b)
        /\ \A j \in 1 .. Len(a) + Len(b) : (a \o b)[j] = IF j <= Len(a) THEN a[j] ELSE b[j - Len(a)]
    BY <1>3, <1>4, ConcatProperties
  <2> QED
    BY <1>3, <2>1, <2>2
<1>7. ASSUME NEW j \in 1 .. Len(s) - 1
      PROVE  (a \o b)[j] = s[IF j < i THEN j ELSE j + 1]
  <2>1. CASE j < i
    BY <1>1, <1>3, <1>6, <2>1
  <2>2. CASE ~(j < i)
    <3>1. (a \o b)[j] = b[j - (i - 1)] /\ j - (i - 1) \in 1 .. Len(s) - i
      BY <1>1, <1>6, <2>2
    <3>2. b[j - (i - 1)] = s[i + (j - (i - 1))] /\ i + (j - (i - 1)) = j + 1
      BY <1>1, <1>4, <3>1
    <3> QED
      BY <2>2, <3>1, <3>2
  <2> QED
    BY <2>1, <2>2
<1> QED
  BY <1>5, <1>6, <1>7

(* What the application still holds after a release, and where it was.     *)
LEMMA HeldAfterRelease ==
  ASSUME TypeOK, NEW v \in Views, NEW i \in 1 .. Len(held[v]), DispatchReleaseBuffer(v, i)
  PROVE  /\ held[v][i] \in Objects /\ ReleaseBuffer(held[v][i])
         /\ \A u \in Views : \A o \in Objects : o # held[v][i] => (HeldBy(u, o)' <=> HeldBy(u, o))
         /\ \A u \in Views : \A j \in 1 .. Len(held'[u]) :
              LET k == IF u = v /\ ~(j < i) THEN j + 1 ELSE j
              IN  k \in 1 .. Len(held[u]) /\ held'[u][j] = held[u][k] /\ (u = v => k # i)
<1>1. /\ held \in [Views -> Seq(Objects)] /\ held[v] \in Seq(Objects)
      /\ Len(held[v]) \in Nat
  BY LenProperties DEF TypeOK, HostTypeOK
<1>2. held' = [held EXCEPT ![v] = RemoveAt(held[v], i)] /\ ReleaseBuffer(held[v][i])
  BY DEF DispatchReleaseBuffer
<1>3. held'[v] = RemoveAt(held[v], i) /\ \A u \in Views : u # v => held'[u] = held[u]
  BY <1>1, <1>2
<1>4. /\ Len(held'[v]) = Len(held[v]) - 1
      /\ \A j \in 1 .. Len(held[v]) - 1 : held'[v][j] = held[v][IF j < i THEN j ELSE j + 1]
  BY <1>1, <1>3, RemovedElements
<1>5. ASSUME NEW u \in Views, NEW j \in 1 .. Len(held'[u])
      PROVE  LET k == IF u = v /\ ~(j < i) THEN j + 1 ELSE j
             IN  k \in 1 .. Len(held[u]) /\ held'[u][j] = held[u][k] /\ (u = v => k # i)
  BY <1>1, <1>3, <1>4
<1>6. ASSUME NEW u \in Views, NEW o \in Objects, o # held[v][i]
      PROVE  HeldBy(u, o)' <=> HeldBy(u, o)
  <2>1. CASE u # v
    BY <1>3, <2>1 DEF HeldBy
  <2>2. CASE u = v
    <3>1. ASSUME HeldBy(v, o) PROVE HeldBy(v, o)'
      <4>1. PICK k \in 1 .. Len(held[v]) : held[v][k] = o
        BY <3>1 DEF HeldBy
      <4>2. CASE k < i
        <5>1. k \in 1 .. Len(held'[v]) /\ held'[v][k] = o
          BY <1>1, <1>4, <4>1, <4>2
        <5> QED
          BY <5>1 DEF HeldBy
      <4>3. CASE k > i
        <5>1. k - 1 \in 1 .. Len(held'[v]) /\ held'[v][k - 1] = held[v][(k - 1) + 1] /\ (k - 1) + 1 = k
          BY <1>1, <1>4, <4>3
        <5> QED
          BY <4>1, <5>1 DEF HeldBy
      <4> QED
        BY <1>6, <4>1, <4>2, <4>3
    <3>2. ASSUME HeldBy(v, o)' PROVE HeldBy(v, o)
      BY <1>5, <3>2 DEF HeldBy
    <3> QED
      BY <2>2, <3>1, <3>2
  <2> QED
    BY <2>1, <2>2
<1>7. held[v][i] \in Objects
  BY <1>1, ElementOfSeq
<1> QED
  BY <1>2, <1>5, <1>6, <1>7

(* A buffer that is with an application after a release was so before, at  *)
(* another place than the one released.                                    *)
LEMMA HeldBefore ==
  ASSUME TypeOK, NEW v \in Views, NEW i \in 1 .. Len(held[v]), DispatchReleaseBuffer(v, i),
         NEW u \in Views, NEW j \in 1 .. Len(held'[u])
  PROVE  \E k \in 1 .. Len(held[u]) : held[u][k] = held'[u][j] /\ (u = v => k # i)
<1>1. LET k == IF u = v /\ ~(j < i) THEN j + 1 ELSE j
      IN  k \in 1 .. Len(held[u]) /\ held'[u][j] = held[u][k] /\ (u = v => k # i)
  BY HeldAfterRelease
<1>2. CASE u = v /\ ~(j < i)
  <2>1. j + 1 \in 1 .. Len(held[u]) /\ held'[u][j] = held[u][j + 1] /\ j + 1 # i
    BY ONLY <1>1, <1>2
  <2> QED
    BY <2>1
<1>3. CASE ~(u = v /\ ~(j < i))
  <2>1. j \in 1 .. Len(held[u]) /\ held'[u][j] = held[u][j] /\ (u = v => j # i)
    BY ONLY <1>1, <1>3
  <2> QED
    BY <2>1
<1> QED
  BY <1>2, <1>3

(* What the application holds after a commit.                              *)
LEMMA HeldAfterCommit ==
  ASSUME HeapInv, NEW w \in Processes, CommitToView(w)
  PROVE  LET m == Head(toHost[w])
             x == poolBuffers[m.poolID][m.bufferID]
             v == viewBackendMap[m.poolID]
         IN  /\ m.poolID \in PoolIDs /\ m.bufferID \in Slots /\ m.code = "BufferCommit"
             /\ x \in Objects /\ v \in Views
             /\ hostBuffer[x] # None /\ hostBuffer'[x] # None /\ hostBuffer'[x].locked
             /\ hostBuffer[x].poolID = m.poolID /\ hostBuffer[x].bufferID = m.bufferID
             /\ ~hostBuffer[x].pendingDelete
             /\ \A o \in Objects : o # x => hostBuffer'[o] = hostBuffer[o]
             /\ held' = [held EXCEPT ![v] = Append(@, x)]
             /\ \A u \in Views : \A o \in Objects : HeldBy(u, o)' <=> HeldBy(u, o) \/ (u = v /\ o = x)
<1> DEFINE m == Head(toHost[w])
           x == poolBuffers[m.poolID][m.bufferID]
           v == viewBackendMap[m.poolID]
<1>1. /\ hostBuffer \in [Objects -> Buffer \cup {None}] /\ None \notin Buffer
      /\ poolBuffers \in [PoolIDs -> [Slots -> Objects \cup {None}]]
      /\ viewBackendMap \in [PoolIDs -> Views \cup {None}]
      /\ held \in [Views -> Seq(Objects)]
      /\ None \notin Objects
      /\ SlotsPointToLive /\ MarkedOutsideSlots
  BY IpcAssumption, RendererHostAssumption
  DEF HeapInv, TypeOK, HostTypeOK, HostHeapConsistent
<1>2. m.poolID \in PoolIDs /\ m.bufferID \in Slots /\ m.code = "BufferCommit"
  <2>1. m \in HostMessage
    BY ReceivedType DEF HeapInv, TypeOK, IpcTypeOK, CommitToView, Reads
  <2> QED
    BY <2>1, HostMessageFields DEF CommitToView, Reads
<1>3. /\ x # None /\ v # None
      /\ hostBuffer' = [hostBuffer EXCEPT ![x].locked = TRUE]
      /\ held' = [held EXCEPT ![v] = Append(@, x)]
  BY DEF CommitToView, FindViewBackend
<1>4. x \in Objects /\ v \in Views
  <2>1. x \in Objects \cup {None} /\ v \in Views \cup {None}
    BY <1>1, <1>2
  <2> HIDE DEF x, v
  <2> QED
    BY <1>3, <2>1
<1>5. /\ hostBuffer[x] # None
      /\ hostBuffer[x].poolID = m.poolID /\ hostBuffer[x].bufferID = m.bufferID
      /\ ~hostBuffer[x].pendingDelete
  <2> DEFINE p == m.poolID
             b == m.bufferID
  <2>1. x = poolBuffers[p][b] /\ p \in PoolIDs /\ b \in Slots
    BY <1>2
  <2> HIDE DEF x, p, b
  <2>2. hostBuffer[x] # None /\ hostBuffer[x].poolID = p /\ hostBuffer[x].bufferID = b
    BY <1>1, <1>3, <2>1 DEF SlotsPointToLive
  <2>3. ~hostBuffer[x].pendingDelete
    BY <1>1, <1>4, <2>1, <2>2 DEF MarkedOutsideSlots
  <2> QED
    BY <2>2, <2>3 DEF p, b
<1> HIDE DEF x, v, m
<1>6. /\ hostBuffer'[x] # None /\ hostBuffer'[x].locked
      /\ \A o \in Objects : o # x => hostBuffer'[o] = hostBuffer[o]
  <2>1. hostBuffer[x] \in Buffer
    BY <1>1, <1>4, <1>5
  <2>2. hostBuffer'[x] = [hostBuffer[x] EXCEPT !.locked = TRUE]
    BY <1>1, <1>3, <1>4
  <2>3. hostBuffer'[x] \in Buffer /\ hostBuffer'[x].locked
    BY <2>1, <2>2 DEF Buffer
  <2> QED
    BY <1>1, <1>3, <1>4, <2>3
<1>7. ASSUME NEW u \in Views, NEW o \in Objects
      PROVE  HeldBy(u, o)' <=> HeldBy(u, o) \/ (u = v /\ o = x)
  <2>1. ASSUME NEW j \in 1 .. Len(held'[u])
        PROVE  \/ j \in 1 .. Len(held[u]) /\ held'[u][j] = held[u][j]
               \/ u = v /\ j = Len(held[v]) + 1 /\ held'[u][j] = x
    BY <1>1, <1>3, <1>4, <2>1, SentElements
  <2>2. /\ \A j \in 1 .. Len(held[u]) : j \in 1 .. Len(held'[u]) /\ held'[u][j] = held[u][j]
        /\ u = v => Len(held[v]) + 1 \in 1 .. Len(held'[u]) /\ held'[u][Len(held[v]) + 1] = x
    <3>1. held[v] \in Seq(Objects) /\ held[u] \in Seq(Objects) /\ Len(held[u]) \in Nat
      BY <1>1, <1>4, LenProperties
    <3>2. CASE u = v
      BY <1>1, <1>3, <1>4, <3>1, <3>2, AppendProperties
    <3>3. CASE u # v
      BY <1>1, <1>3, <1>4, <3>3
    <3> QED
      BY <3>2, <3>3
  <2> QED
    BY <2>1, <2>2 DEF HeldBy
<1> QED
  BY <1>2, <1>3, <1>4, <1>5, <1>6, <1>7 DEF x, v, m

(* A socket that was created stays so.                                     *)
LEMMA AttachedAfter ==
  ASSUME TypeOK, NEW x \in Sockets, Attach(x)
  PROVE  \A y : Attached(y)' <=> Attached(y) \/ y = x
<1>1. sources \in Seq(Sockets) /\ sources' = Append(sources, x) /\ Len(sources) \in Nat
  BY LenProperties DEF TypeOK, LoopTypeOK, Attach
<1>2. /\ Len(sources') = Len(sources) + 1
      /\ \A i \in 1 .. Len(sources) : sources'[i] = sources[i]
      /\ sources'[Len(sources) + 1] = x
  BY <1>1, AppendProperties
<1>3. ASSUME NEW y, Attached(y) \/ y = x PROVE Attached(y)'
  <2>1. CASE Attached(y)
    BY <1>1, <1>2, <2>1 DEF Attached
  <2>2. CASE y = x
    <3>1. Len(sources) + 1 \in 1 .. Len(sources')
      BY <1>1, <1>2
    <3> QED
      BY <1>2, <2>2, <3>1 DEF Attached
  <2> QED
    BY <1>3, <2>1, <2>2
<1>4. ASSUME NEW y, Attached(y)' PROVE Attached(y) \/ y = x
  <2>1. PICK i \in 1 .. Len(sources') : sources'[i] = y
    BY <1>4 DEF Attached
  <2>2. i \in 1 .. Len(sources) \/ i = Len(sources) + 1
    BY <1>1, <1>2
  <2> QED
    BY <1>2, <2>1, <2>2 DEF Attached
<1> QED
  BY <1>3, <1>4

(* What is up, and every target that was created, had its sockets created. *)
LEMMA AttachedStep ==
  ASSUME TypeOK, UpAttached, [Next]_vars
  PROVE  /\ UpAttached'
         /\ \A y : Attached(y) => Attached(y)'
<1>1. /\ Processes \subseteq Sockets /\ Views \subseteq Sockets
      /\ phase \in [Targets -> Phases]
      /\ webUp \in [Processes -> BOOLEAN] /\ viewUp \in [Views -> BOOLEAN]
      /\ \A t \in Targets : ProcessOf[t] \in Processes /\ ViewOf[t] \in Views
  BY IpcAssumption DEF Sockets, TypeOK, WebTypeOK, IpcTypeOK
<1>2. CASE \E t \in Targets : TargetStep(t) /\ WebFrame
  <2>1. PICK t \in Targets : TargetStep(t) /\ WebFrame
    BY <1>2
  <2>2. sources' = sources /\ \A y : Attached(y)' <=> Attached(y)
    BY <2>1 DEF WebFrame, loopVars, Attached
  <2>3. /\ UNCHANGED webUp \/ webUp' = [webUp EXCEPT ![ProcessOf[t]] = FALSE]
        /\ UNCHANGED viewUp
        /\ \/ UNCHANGED phase
           \/ /\ phase[t] # "none" \/ (Attached(ViewOf[t]) /\ webUp[ProcessOf[t]])
              /\ \E x : phase' = [phase EXCEPT ![t] = x]
    BY <2>1 DEF TargetStep, CreateTarget, Initialize, ReceiveReply, Resize, FrameAborts, CloseWeb,
       FrameReuses, FrameFailsToAllocate, FrameAllocates, FrameRendered, Deinitialize,
       DestroyTarget, Callable, InEventLoop, ipcVars, webVars
  <2> HIDE DEF Attached
  <2> QED
    BY <1>1, <2>2, <2>3 DEF UpAttached
<1>3. CASE \E w \in Processes : CreateClient(w) /\ HostFrame
  <2>1. PICK w \in Processes : CreateClient(w) /\ HostFrame
    BY <1>3
  <2>2. \A y : Attached(y)' <=> Attached(y) \/ y = w
    BY <1>1, <2>1, AttachedAfter DEF CreateClient
  <2>3. webUp' = [webUp EXCEPT ![w] = TRUE] /\ UNCHANGED <<viewUp, phase>>
    BY <2>1 DEF CreateClient, OpenWeb, HostFrame, webVars
  <2> HIDE DEF Attached
  <2> QED
    BY <1>1, <2>2, <2>3 DEF UpAttached
<1>4. CASE \E v \in Views : CreateView(v) /\ ViewFrame
  <2>1. PICK v \in Views : CreateView(v) /\ ViewFrame
    BY <1>4
  <2>2. \A y : Attached(y)' <=> Attached(y) \/ y = v
    BY <1>1, <2>1, AttachedAfter DEF CreateView
  <2>3. viewUp' = [viewUp EXCEPT ![v] = TRUE] /\ UNCHANGED <<webUp, phase>>
    BY <2>1 DEF CreateView, OpenView, ViewFrame, webVars
  <2> HIDE DEF Attached
  <2> QED
    BY <1>1, <2>2, <2>3 DEF UpAttached
<1>5. CASE /\ UNCHANGED <<sources, phase>>
           /\ UNCHANGED webUp \/ \E w \in Processes : webUp' = [webUp EXCEPT ![w] = FALSE]
           /\ UNCHANGED viewUp \/ \E v \in Views : viewUp' = [viewUp EXCEPT ![v] = FALSE]
  <2>1. \A y : Attached(y)' <=> Attached(y)
    BY <1>5 DEF Attached
  <2> HIDE DEF Attached
  <2> QED
    BY <1>1, <1>5, <2>1 DEF UpAttached
<1>6. \/ \E t \in Targets : TargetStep(t) /\ WebFrame
      \/ \E w \in Processes : CreateClient(w) /\ HostFrame
      \/ \E v \in Views : CreateView(v) /\ ViewFrame
      \/ /\ UNCHANGED <<sources, phase>>
         /\ UNCHANGED webUp \/ \E w \in Processes : webUp' = [webUp EXCEPT ![w] = FALSE]
         /\ UNCHANGED viewUp \/ \E v \in Views : viewUp' = [viewUp EXCEPT ![v] = FALSE]
  <2>1. CASE \E w \in Processes : (HandleWebMessage(w) \/ WebExits(w)) /\ WebFrame
    BY <2>1 DEF HandleWebMessage, WebExits, CloseWeb, WebFrame, webVars, loopVars
  <2>2. CASE \E w \in Processes : ProxyStep(w) /\ HostFrame
    BY <2>2 DEF ProxyStep, ConstructPool, PurgePool, BufferAllocation, CommitToView,
       CommitWithoutView, Done, Served, HostFrame, webVars
  <2>3. CASE \E v \in Views : (ReleaseStep(v) \/ DispatchFrameComplete(v) \/ HandleViewMessage(v)) /\ ViewFrame
    BY <2>3 DEF ReleaseStep, DispatchReleaseBuffer, DispatchFrameComplete, HandleViewMessage,
       Served, ViewFrame, webVars, loopVars
  <2>4. CASE \E v \in Views : DestroyView(v) /\ ViewFrame
    BY <2>4 DEF DestroyView, CloseView, Served, ViewFrame, webVars
  <2>5. CASE (Poll /\ HostFrame) \/ UNCHANGED vars
    BY <2>5 DEF Poll, HostFrame, ipcVars, webVars, loopVars, vars
  <2> QED
    BY <2>1, <2>2, <2>3, <2>4, <2>5 DEF Next
<1> QED
  BY <1>2, <1>3, <1>4, <1>5, <1>6

(* A locked Buffer stays with an application, or loses it with the view.   *)
LEMMA LockStep ==
  ASSUME LockInv, [Next]_vars
  PROVE  LockInv'
<1>1. /\ HeapInv /\ TypeOK /\ LockedBuffersHeld /\ UpAttached
      /\ viewUp \in [Views -> BOOLEAN]
      /\ Views \subseteq Sockets /\ Processes \subseteq Sockets
  BY DEF LockInv, HeapInv, TypeOK, IpcTypeOK, Sockets
<1>2. HeapInv' /\ UpAttached'
  BY <1>1, HeapStep, AttachedStep
<1>3. CASE \E v \in Views : DestroyView(v)
  <2>1. PICK v \in Views : DestroyView(v)
    BY <1>3
  <2>2. viewUp[v] /\ viewUp' = [viewUp EXCEPT ![v] = FALSE] /\ UNCHANGED sources
    BY <2>1 DEF DestroyView, CloseView, Served
  <2>3. Attached(v)' /\ ~viewUp'[v]
    BY <1>1, <2>2 DEF UpAttached, Attached
  <2> QED
    BY <1>2, <2>3 DEF LockInv, LockedBuffersHeld
<1>4. CASE \E w \in Processes : ProxyStep(w)
  <2>1. PICK w \in Processes : ProxyStep(w)
    BY <1>4
  <2>2. UNCHANGED <<viewUp, sources>> /\ (UNCHANGED held \/ CommitToView(w))
    BY <2>1 DEF ProxyStep, ConstructPool, PurgePool, BufferAllocation, CommitToView,
       CommitWithoutView, Done, Served, appVars
  <2>3. \A u \in Views, o \in Objects : HeldBy(u, o) => HeldBy(u, o)'
    <3>1. CASE UNCHANGED held
      BY <3>1 DEF HeldBy
    <3>2. CASE CommitToView(w)
      BY <1>1, <3>2, HeldAfterCommit
    <3> QED
      BY <2>2, <3>1, <3>2
  <2>4. \A u : Attached(u)' <=> Attached(u)
    BY <2>2 DEF Attached
  <2>5. ASSUME NEW o \in Objects, hostBuffer'[o] # None, hostBuffer'[o].locked
        PROVE  \/ \E u \in Views : HeldBy(u, o)'
               \/ \E u \in Views : Attached(u)' /\ ~viewUp'[u]
    <3>1. \/ hostBuffer[o] # None /\ hostBuffer'[o].locked = hostBuffer[o].locked
          \/ /\ CommitToView(w)
             /\ o = poolBuffers[Head(toHost[w]).poolID][Head(toHost[w]).bufferID]
      BY <1>1, <2>1, <2>5, ProxyBuffers
    <3>2. CASE hostBuffer[o] # None /\ hostBuffer[o].locked
      BY <1>1, <2>2, <2>3, <2>4, <3>2 DEF LockedBuffersHeld
    <3>3. CASE /\ CommitToView(w)
               /\ o = poolBuffers[Head(toHost[w]).poolID][Head(toHost[w]).bufferID]
      <4> DEFINE x == poolBuffers[Head(toHost[w]).poolID][Head(toHost[w]).bufferID]
                 v == viewBackendMap[Head(toHost[w]).poolID]
      <4>1. /\ v \in Views
            /\ \A u \in Views : \A y \in Objects : HeldBy(u, y)' <=> HeldBy(u, y) \/ (u = v /\ y = x)
        BY <1>1, <3>3, HeldAfterCommit
      <4>2. o = x
        BY <3>3
      <4> HIDE DEF x, v
      <4> QED
        BY <4>1, <4>2
    <3> QED
      BY <2>5, <3>1, <3>2, <3>3
  <2> QED
    BY <1>2, <2>5 DEF LockInv, LockedBuffersHeld
<1>5. CASE \E v \in Views : ReleaseStep(v)
  <2>1. PICK v \in Views : \E i \in 1 .. Len(held[v]) : DispatchReleaseBuffer(v, i)
    BY <1>5 DEF ReleaseStep
  <2>2. PICK i \in 1 .. Len(held[v]) : DispatchReleaseBuffer(v, i)
    BY <2>1
  <2>3. UNCHANGED <<viewUp, sources>> /\ \A u : Attached(u)' <=> Attached(u)
    BY <2>2 DEF DispatchReleaseBuffer, loopVars, Attached
  <2>4. ASSUME NEW o \in Objects, hostBuffer'[o] # None, hostBuffer'[o].locked
        PROVE  \/ \E u \in Views : HeldBy(u, o)'
               \/ \E u \in Views : Attached(u)' /\ ~viewUp'[u]
    <3>1. o # held[v][i] /\ hostBuffer'[o] = hostBuffer[o]
      BY <1>1, <2>2, <2>4, HeldAfterRelease, ReleasedBuffers
    <3> QED
      BY <1>1, <2>2, <2>3, <2>4, <3>1, HeldAfterRelease DEF LockedBuffersHeld
  <2> QED
    BY <1>2, <2>4 DEF LockInv, LockedBuffersHeld
<1>6. CASE /\ UNCHANGED <<hostBuffer, held>>
           /\ \A v \in Views : Attached(v) /\ ~viewUp[v] => ~viewUp'[v]
  <2>1. \A v \in Views : Attached(v) => Attached(v)'
    BY <1>1, AttachedStep
  <2> QED
    BY <1>1, <1>2, <1>6, <2>1 DEF LockInv, LockedBuffersHeld, HeldBy
<1>7. \/ \E v \in Views : DestroyView(v)
      \/ \E w \in Processes : ProxyStep(w)
      \/ \E v \in Views : ReleaseStep(v)
      \/ /\ UNCHANGED <<hostBuffer, held>>
         /\ \A v \in Views : Attached(v) /\ ~viewUp[v] => ~viewUp'[v]
  <2>1. CASE \E v \in Views : CreateView(v)
    <3>1. PICK v \in Views : CreateView(v)
      BY <2>1
    <3>2. /\ ~Attached(v) /\ viewUp' = [viewUp EXCEPT ![v] = TRUE]
          /\ UNCHANGED <<hostBuffer, held>>
      BY <3>1 DEF CreateView, OpenView, Attach, hostVars, appVars
    <3> HIDE DEF Attached
    <3> QED
      BY <1>1, <3>2
  <2>2. CASE UNCHANGED <<hostBuffer, held, viewUp>>
    BY <2>2
  <2>3. CASE \E t \in Targets : TargetStep(t) /\ WebFrame
    BY <2>2, <2>3 DEF TargetStep, CreateTarget, Initialize, ReceiveReply, Resize, FrameAborts,
       FrameReuses, FrameFailsToAllocate, FrameAllocates, FrameRendered, Deinitialize,
       DestroyTarget, WebFrame, hostVars, appVars, ipcVars
  <2> QED
    BY <2>1, <2>2, <2>3 DEF Next, HandleWebMessage, WebExits, WebFrame, CreateClient, OpenWeb,
       HandleViewMessage, DispatchFrameComplete, FrameComplete, Poll, vars, ipcVars, hostVars, appVars
<1> QED
  BY <1>3, <1>4, <1>5, <1>6, <1>7

(* It holds at the start: no Buffer, no socket.                            *)
LEMMA LockStart == Init => LockInv
<1> SUFFICES ASSUME Init PROVE LockInv
  OBVIOUS
<1>1. HeapInv
  BY HeapStart
<1>2. LockedBuffersHeld /\ UpAttached
  BY DEF Init, HostInit, IpcInit, WebInit, LockedBuffersHeld, UpAttached
<1> QED
  BY <1>1, <1>2 DEF LockInv

(* releaseBuffer and purgePool leave no Buffer behind: a Buffer is locked  *)
(* only as long as an application can still release it, or after the view  *)
(* went that it was given to (renderer-host.cpp, view-backend.cpp).        *)
THEOREM LockedBuffersReleasable == Spec => []LockedBuffersHeld
<1>1. Init => LockInv
  BY LockStart
<1>2. LockInv /\ [Next]_vars => LockInv'
  BY LockStep
<1>3. LockInv => LockedBuffersHeld
  BY DEF LockInv
<1> QED
  BY <1>1, <1>2, <1>3, PTL DEF Spec
=============================================================================
