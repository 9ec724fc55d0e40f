------------------------- MODULE WpeAndroidPageProofs -------------------------
(***************************************************************************)
(* Theorems about WpeAndroid with web processes of one target each, as     *)
(* WPE WebKit launches them for one page: to whom pools, messages and      *)
(* buffers belong.                                                         *)
(***************************************************************************)
EXTENDS WpeAndroidProofs

-----------------------------------------------------------------------------
(* Targets and their pools.                                                *)

(* The pool of a target is its own for ever.                               *)
LEMMA PoolKept ==
  ASSUME TypeOK, [Next]_vars, NEW t \in Targets, ~Young(t)
  PROVE  ~Young(t)' /\ poolID'[t] = poolID[t]
<1>1. phase \in [Targets -> Phases] /\ poolID \in [Targets -> PoolIDs]
  BY DEF TypeOK, WebTypeOK
<1>2. CASE \E s \in Targets : TargetStep(s)
  <2>1. PICK s \in Targets : TargetStep(s)
    BY <1>2
  <2>2. \/ UNCHANGED <<phase, poolID>>
        \/ /\ Young(s)
           /\ \E x : phase' = [phase EXCEPT ![s] = x]
           /\ UNCHANGED poolID \/ \E y : poolID' = [poolID EXCEPT ![s] = y]
        \/ \E x \in {"deinitialized", "destroyed"} :
             UNCHANGED poolID /\ phase' = [phase EXCEPT ![s] = x]
    BY <2>1 DEF TargetStep, CreateTarget, Initialize, ReceiveReply, Resize, FrameAborts,
       FrameReuses, FrameFailsToAllocate, FrameAllocates, FrameRendered, Deinitialize,
       DestroyTarget, Young, webVars
  <2>3. CASE /\ Young(s)
             /\ \E x : phase' = [phase EXCEPT ![s] = x]
             /\ UNCHANGED poolID \/ \E y : poolID' = [poolID EXCEPT ![s] = y]
    <3>1. s # t
      BY <2>3
    <3>2. phase'[t] = phase[t] /\ poolID'[t] = poolID[t]
      BY <1>1, <2>3, <3>1
    <3> QED
      BY <3>2 DEF Young
  <2>4. CASE UNCHANGED <<phase, poolID>>
    BY <2>4 DEF Young
  <2>5. CASE \E x \in {"deinitialized", "destroyed"} :
               UNCHANGED poolID /\ phase' = [phase EXCEPT ![s] = x]
    BY <1>1, <2>5 DEF Young
  <2> QED
    BY <2>2, <2>3, <2>4, <2>5
<1>3. CASE UNCHANGED <<phase, poolID>>
  BY <1>3 DEF Young
<1>4. (\E s \in Targets : TargetStep(s)) \/ UNCHANGED <<phase, poolID>>
  <2>1. \/ \E w \in Processes : HandleWebMessage(w) \/ WebExits(w)
        \/ HostFrame \/ \E v \in Views : ViewFrame
        \/ UNCHANGED vars
        => UNCHANGED <<phase, poolID>>
    BY DEF HandleWebMessage, WebExits, HostFrame, ViewFrame, webVars, vars
  <2> QED
    BY <2>1 DEF Next
<1> QED
  BY <1>2, <1>3, <1>4

(* What is owned stays so.                                                 *)
LEMMA OwnersKept ==
  ASSUME TypeOK, [Next]_vars
  PROVE  /\ \A t \in Targets, p \in PoolIDs : Owns(t, p) => Owns(t, p)'
         /\ \A p \in PoolIDs : Owned(p) => Owned(p)'
         /\ \A v \in Views, p \in PoolIDs : OwnedOf(v, p) => OwnedOf(v, p)'
<1>1. \A t \in Targets, p \in PoolIDs : Owns(t, p) => Owns(t, p)'
  BY PoolKept DEF Owns
<1> QED
  BY <1>1 DEF Owned, OwnedOf

(* A pool has one owner, and its process is the pool's client.             *)
LEMMA OwnersClient ==
  ASSUME OneTargetPerProcess, Handshake, NEW p \in PoolIDs, NEW t \in Targets, Owns(t, p)
  PROVE  /\ poolClient[p] = ProcessOf[t]
         /\ \A s \in Targets : Owns(s, p) => s = t
<1>1. \A s \in Targets : Owns(s, p) => poolClient[p] = ProcessOf[s]
  <2> TAKE s \in Targets
  <2> HAVE Owns(s, p)
  <2>1. HandshakeAt(ProcessOf[s]) /\ ~Young(s) /\ poolID[s] = p
    BY IpcAssumption DEF Handshake, Owns
  <2> QED
    BY <2>1 DEF HandshakeAt, OnlyPool
<1> QED
  BY <1>1 DEF OneTargetPerProcess

(* Whom a message to a proxy is from.                                      *)
LEMMA HostHead ==
  ASSUME Handshake, TypeOK, NEW w \in Processes, toHost[w] # <<>>
  PROVE  \E t \in Targets :
           /\ ProcessOf[t] = w
           /\ IF Head(toHost[w]).code = "PoolConstruction"
                THEN phase[t] = "constructing" /\ Asked(w)
                ELSE Owns(t, Head(toHost[w]).poolID) /\ Head(toHost[w]).poolID \in PoolIDs
<1>1. HandshakeAt(w) /\ ~Silent(w)
  BY DEF Handshake, Silent
<1>2. PICK t \in Targets : ProcessOf[t] = w
  BY <1>1 DEF HandshakeAt
<1>3. CASE Young(t)
  <2>1. phase[t] = "constructing" /\ Asked(w)
    BY <1>1, <1>2, <1>3 DEF HandshakeAt, Young, Answered
  <2>2. Head(toHost[w]) = PoolConstructionMsg
    BY <2>1 DEF Asked
  <2> QED
    BY <1>2, <2>1, <2>2 DEF PoolConstructionMsg
<1>4. CASE ~Young(t)
  <2>1. toHost[w] \in Seq(OwnHostMessage(poolID[t]))
    BY <1>1, <1>2, <1>4 DEF HandshakeAt
  <2>2. Head(toHost[w]) \in OwnHostMessage(poolID[t])
    BY <2>1, QueueType
  <2>3. poolID[t] \in PoolIDs
    BY DEF TypeOK, WebTypeOK
  <2> QED
    BY <1>2, <1>4, <2>2, <2>3 DEF OwnHostMessage, Owns
<1> QED
  BY <1>3, <1>4

(* Whom a message to a web process is for.                                 *)
LEMMA WebHead ==
  ASSUME Handshake, TypeOK, NEW w \in Processes, toWeb[w] # <<>>
  PROVE  \E t \in Targets :
           /\ ProcessOf[t] = w
           /\ \/ /\ phase[t] = "constructing" /\ toHost[w] = <<>> /\ webUp[w]
                 /\ \E q \in PoolIDs : OnlyPool(w, q) /\ toWeb[w] = <<PoolConstructionReplyMsg(q)>>
              \/ /\ Owns(t, Head(toWeb[w]).poolID) /\ Head(toWeb[w]).poolID \in PoolIDs
                 /\ Head(toWeb[w]).code \in {"FrameComplete", "ReleaseBuffer"}
<1>1. HandshakeAt(w) /\ ~Silent(w)
  BY DEF Handshake, Silent
<1>2. PICK t \in Targets : ProcessOf[t] = w
  BY <1>1 DEF HandshakeAt
<1>3. CASE Young(t)
  <2>1. phase[t] = "constructing" /\ Answered(w)
    BY <1>1, <1>2, <1>3 DEF HandshakeAt, Young, Asked
  <2> QED
    BY <1>2, <2>1 DEF Answered
<1>4. CASE ~Young(t)
  <2>1. toWeb[w] \in Seq(OwnWebMessage(poolID[t]))
    BY <1>1, <1>2, <1>4 DEF HandshakeAt
  <2>2. Head(toWeb[w]) \in OwnWebMessage(poolID[t])
    BY <2>1, QueueType
  <2>3. poolID[t] \in PoolIDs
    BY DEF TypeOK, WebTypeOK
  <2>4. Head(toWeb[w]).code \in {"FrameComplete", "ReleaseBuffer"}
    BY <2>2 DEF OwnWebMessage, WebMessage
  <2> QED
    BY <1>2, <1>4, <2>2, <2>3, <2>4 DEF OwnWebMessage, Owns
<1> QED
  BY <1>3, <1>4

-----------------------------------------------------------------------------
(* The handshake.                                                          *)

(* It is a matter of what concerns the one process.                        *)
LEMMA HandshakeFrame ==
  ASSUME NEW w \in Processes, HandshakeAt(w),
         toHost'[w] = toHost[w], toWeb'[w] = toWeb[w], webUp'[w] = webUp[w],
         \A q \in PoolIDs : poolClient'[q] = w <=> poolClient[q] = w,
         \A t \in Targets : ProcessOf[t] = w => phase'[t] = phase[t] /\ poolID'[t] = poolID[t]
  PROVE  HandshakeAt(w)'
  BY DEF HandshakeAt, Silent, Poolless, Asked, Answered, OnlyPool, Young

(* With its target answered, the queues hold what is of its pool.          *)
LEMMA HandshakeDone ==
  ASSUME OneTargetPerProcess, NEW t \in Targets, ~Young(t)',
         OnlyPool(ProcessOf[t], poolID[t])',
         toHost'[ProcessOf[t]] \in Seq(OwnHostMessage(poolID'[t])),
         toWeb'[ProcessOf[t]] \in Seq(OwnWebMessage(poolID'[t]))
  PROVE  HandshakeAt(ProcessOf[t])'
  BY DEF HandshakeAt, OneTargetPerProcess, Young

(* What the handshake says of an answered target.                          *)
LEMMA HandshakeOf ==
  ASSUME Handshake, NEW t \in Targets, ~Young(t)
  PROVE  /\ OnlyPool(ProcessOf[t], poolID[t])
         /\ toHost[ProcessOf[t]] \in Seq(OwnHostMessage(poolID[t]))
         /\ toWeb[ProcessOf[t]] \in Seq(OwnWebMessage(poolID[t]))
<1>1. HandshakeAt(ProcessOf[t])
  BY IpcAssumption DEF Handshake
<1> QED
  BY <1>1 DEF HandshakeAt

(* A target asks, takes its answer, and sends messages of its own pool.    *)
LEMMA TargetHandshake ==
  ASSUME OneTargetPerProcess, TypeOK, Handshake, NEW t \in Targets, TargetStep(t), WebFrame
  PROVE  Handshake'
<1> DEFINE w == ProcessOf[t]
           p == poolID[t]
<1>1. /\ w \in Processes /\ p \in PoolIDs
      /\ toHost \in [Processes -> Seq(HostMessage)] /\ toWeb \in [Processes -> Seq(WebMessage)]
      /\ webUp \in [Processes -> BOOLEAN]
      /\ phase \in [Targets -> Phases] /\ poolID \in [Targets -> PoolIDs]
      /\ current \in [Targets -> Slots \cup {None}]
  BY IpcAssumption DEF TypeOK, IpcTypeOK, WebTypeOK
<1>2. UNCHANGED poolClient
  BY DEF WebFrame, hostVars
<1>3. HandshakeAt(w) /\ \A s \in Targets : ProcessOf[s] = w => s = t
  BY <1>1 DEF Handshake, OneTargetPerProcess
<1>4. ASSUME NEW u \in Processes, u # w
      PROVE  HandshakeAt(u)'
  <2>1. HandshakeAt(u) /\ \A s \in Targets : ProcessOf[s] = u => s # t
    BY <1>4 DEF Handshake
  <2>2. toHost'[u] = toHost[u]
    BY <1>1, <1>4 DEF TargetStep, CreateTarget, Initialize, ReceiveReply, Resize, FrameAborts,
       FrameReuses, FrameFailsToAllocate, FrameAllocates, FrameRendered, Deinitialize,
       DestroyTarget, SendToHost, ipcVars
  <2>3. toWeb'[u] = toWeb[u] /\ webUp'[u] = webUp[u]
    BY <1>1, <1>4 DEF TargetStep, CreateTarget, Initialize, ReceiveReply, Resize, FrameAborts,
       FrameReuses, FrameFailsToAllocate, FrameAllocates, FrameRendered, Deinitialize,
       DestroyTarget, Received, CloseWeb, ipcVars
  <2>4. /\ UNCHANGED phase \/ \E x : phase' = [phase EXCEPT ![t] = x]
        /\ UNCHANGED poolID \/ \E x : poolID' = [poolID EXCEPT ![t] = x]
    BY DEF TargetStep, CreateTarget, Initialize, ReceiveReply, Resize, FrameAborts,
       FrameReuses, FrameFailsToAllocate, FrameAllocates, FrameRendered, Deinitialize,
       DestroyTarget, webVars
  <2>5. \A s \in Targets : ProcessOf[s] = u => phase'[s] = phase[s] /\ poolID'[s] = poolID[s]
    BY <1>1, <2>1, <2>4
  <2> QED
    BY <1>2, <2>1, <2>2, <2>3, <2>5, HandshakeFrame
<1>5. HandshakeAt(w)'
  <2>1. CASE CreateTarget(t)
    <3>1. Silent(w) /\ Poolless(w)
      BY <1>3, <2>1 DEF HandshakeAt, CreateTarget
    <3>2. (Silent(w) /\ Poolless(w))' /\ phase'[t] = "created"
      BY <1>1, <1>2, <2>1, <3>1 DEF CreateTarget, Silent, Poolless, ipcVars
    <3> QED
      BY <1>3, <3>2 DEF HandshakeAt, Young
  <2>2. CASE Initialize(t)
    <3>1. Silent(w) /\ Poolless(w)
      BY <1>3, <2>2 DEF HandshakeAt, Initialize
    <3>2. toHost'[w] = Append(<<>>, PoolConstructionMsg) /\ toWeb'[w] = <<>> /\ Poolless(w)'
      BY <1>1, <1>2, <2>2, <3>1 DEF Initialize, SendToHost, Silent, Poolless
    <3>3. Asked(w)' /\ phase'[t] = "constructing"
      BY <1>1, <2>2, <3>2 DEF Initialize, Asked
    <3> QED
      BY <1>3, <3>3 DEF HandshakeAt, Young
  <2>3. CASE ReceiveReply(t)
    <3>1. phase[t] = "constructing" /\ toWeb[w] # <<>> /\ webUp[w]
      BY <2>3 DEF ReceiveReply
    <3>2. Asked(w) \/ Answered(w)
      BY <1>3, <3>1 DEF HandshakeAt
    <3>3. toHost[w] = <<>> /\ toWeb[w] # <<>> /\ Answered(w)
      BY <3>1, <3>2 DEF Asked, Answered
    <3>4. PICK q \in PoolIDs : OnlyPool(w, q) /\ toWeb[w] = <<PoolConstructionReplyMsg(q)>>
      BY <3>1, <3>3 DEF Answered
    <3>5. Head(toWeb[w]) = PoolConstructionReplyMsg(q) /\ Tail(toWeb[w]) = <<>>
      BY <3>4
    <3>6. Head(toWeb[w]).code = "PoolConstructionReply" /\ Head(toWeb[w]).poolID = q
      BY <3>5 DEF PoolConstructionReplyMsg
    <3>7. /\ poolID' = [poolID EXCEPT ![t] = q] /\ phase' = [phase EXCEPT ![t] = "ready"]
          /\ toWeb' = Received(toWeb, w) /\ UNCHANGED toHost
      BY <2>3, <3>6 DEF ReceiveReply
    <3>8. poolID'[t] = q /\ phase'[t] = "ready" /\ toWeb'[w] = <<>> /\ toHost'[w] = <<>>
      BY <1>1, <3>3, <3>5, <3>7 DEF Received
    <3>9. OnlyPool(w, poolID[t])'
      BY <1>2, <3>4, <3>8 DEF OnlyPool
    <3> QED
      BY <3>8, <3>9, EmptySeq, HandshakeDone DEF Young
  <2>4. CASE FrameAborts(t)
    <3>1. /\ ~Young(t) /\ ~Young(t)' /\ poolID'[t] = p /\ toHost'[w] = toHost[w] /\ toWeb'[w] = <<>>
      BY <1>1, <2>4 DEF FrameAborts, CanRender, Callable, CloseWeb, Young, webVars
    <3>2. OnlyPool(w, poolID[t])'
      BY <1>2, <3>1, HandshakeOf DEF OnlyPool
    <3> QED
      BY <3>1, <3>2, HandshakeOf, HandshakeDone, EmptySeq
  <2>5. ASSUME ~Young(t), ~Young(t)', UNCHANGED <<toWeb, poolID>>,
               \/ UNCHANGED toHost
               \/ \E m \in OwnHostMessage(p) : SendToHost(w, m)
        PROVE  HandshakeAt(w)'
    <3>1. /\ OnlyPool(w, p) /\ toHost[w] \in Seq(OwnHostMessage(p)) /\ toWeb[w] \in Seq(OwnWebMessage(p))
      BY <2>5, HandshakeOf
    <3>2. toHost'[w] \in Seq(OwnHostMessage(p))
      <4>1. CASE UNCHANGED toHost
        BY <3>1, <4>1
      <4>2. CASE \E m \in OwnHostMessage(p) : SendToHost(w, m)
        <5>1. PICK m \in OwnHostMessage(p) : SendToHost(w, m)
          BY <4>2
        <5>2. toHost'[w] = Append(toHost[w], m)
          BY <1>1, <5>1 DEF SendToHost
        <5> QED
          BY <3>1, <5>2, QueueType
      <4> QED
        BY <2>5, <4>1, <4>2
    <3>3. OnlyPool(w, poolID[t])'
      BY <1>2, <2>5, <3>1 DEF OnlyPool
    <3>4. poolID'[t] = p /\ toWeb'[w] \in Seq(OwnWebMessage(p))
      BY <2>5, <3>1
    <3> HIDE DEF p
    <3> QED
      BY <2>5, <3>2, <3>3, <3>4, HandshakeDone
  <2>6. CASE Resize(t) \/ \E b \in Slots, o \in Objects : FrameAllocates(t, b, o)
    <3>1. /\ ~Young(t) /\ ~Young(t)' /\ UNCHANGED <<toWeb, poolID>>
      BY <1>1, <2>6 DEF Resize, FrameAllocates, CanRender, Callable, Young
    <3>2. \E m \in OwnHostMessage(p) : SendToHost(w, m)
      <4>1. CASE Resize(t)
        <5>1. PoolPurgeMsg(p) \in OwnHostMessage(p)
          BY <1>1, MessageTypes DEF OwnHostMessage, PoolPurgeMsg
        <5> QED
          BY <4>1, <5>1 DEF Resize
      <4>2. CASE \E b \in Slots, o \in Objects : FrameAllocates(t, b, o)
        <5>1. PICK b \in Slots, o \in Objects : FrameAllocates(t, b, o)
          BY <4>2
        <5>2. BufferAllocationMsg(p, b, o) \in OwnHostMessage(p)
          BY <1>1, MessageTypes DEF OwnHostMessage, BufferAllocationMsg
        <5> QED
          BY <5>1, <5>2 DEF FrameAllocates
      <4> QED
        BY <2>6, <4>1, <4>2
    <3> QED
      BY <2>5, <3>1, <3>2
  <2>7. CASE FrameRendered(t)
    <3>1. /\ ~Young(t) /\ ~Young(t)' /\ UNCHANGED <<toWeb, poolID>> /\ current[t] \in Slots
      BY <1>1, <2>7 DEF FrameRendered, Young
    <3>2. BufferCommitMsg(p, current[t]) \in OwnHostMessage(p)
      BY <1>1, <3>1, MessageTypes DEF OwnHostMessage, BufferCommitMsg
    <3>3. UNCHANGED toHost \/ SendToHost(w, BufferCommitMsg(p, current[t]))
      BY <2>7 DEF FrameRendered
    <3> QED
      BY <2>5, <3>1, <3>2, <3>3
  <2>8. CASE (\E b \in Slots : FrameReuses(t, b) \/ FrameFailsToAllocate(t, b))
             \/ Deinitialize(t) \/ DestroyTarget(t)
    <3>1. /\ ~Young(t) /\ ~Young(t)' /\ UNCHANGED <<toWeb, poolID, toHost>>
      BY <1>1, <2>8 DEF FrameReuses, FrameFailsToAllocate, Deinitialize, DestroyTarget,
         CanRender, Callable, Young, ipcVars
    <3> QED
      BY <2>5, <3>1
  <2> QED
    BY <2>1, <2>2, <2>3, <2>4, <2>6, <2>7, <2>8 DEF TargetStep
<1> QED
  BY <1>4, <1>5 DEF Handshake

(* A web process reads what is its own, or is gone with it.                *)
LEMMA WebHandshake ==
  ASSUME OneTargetPerProcess, TypeOK, Handshake,
         NEW w \in Processes, HandleWebMessage(w) \/ WebExits(w), WebFrame
  PROVE  Handshake'
<1>1. toWeb \in [Processes -> Seq(WebMessage)] /\ webUp \in [Processes -> BOOLEAN]
  BY DEF TypeOK, IpcTypeOK
<1>2. UNCHANGED <<phase, poolID, poolClient, toHost>>
  BY DEF HandleWebMessage, WebExits, webVars, WebFrame, hostVars
<1>3. ASSUME NEW u \in Processes, u # w
      PROVE  HandshakeAt(u)'
  <2>1. toWeb'[u] = toWeb[u] /\ webUp'[u] = webUp[u]
    BY <1>1, <1>3 DEF HandleWebMessage, WebExits, CloseWeb, Received
  <2> QED
    BY <1>2, <2>1, HandshakeFrame DEF Handshake
<1>4. HandshakeAt(w)'
  <2>1. HandshakeAt(w)
    BY DEF Handshake
  <2>2. CASE HandleWebMessage(w)
    <3>1. toWeb[w] # <<>> /\ InEventLoop(w) /\ toWeb'[w] = Tail(toWeb[w])
      BY <1>1, <2>2 DEF HandleWebMessage, Received
    <3>2. PICK t \in Targets : ProcessOf[t] = w /\ phase[t] # "constructing" /\ ~Young(t)
      BY <3>1, WebHead DEF InEventLoop, Owns
    <3>3. /\ OnlyPool(w, poolID[t]) /\ toHost[w] \in Seq(OwnHostMessage(poolID[t]))
          /\ toWeb[w] \in Seq(OwnWebMessage(poolID[t]))
      BY <3>2, HandshakeOf
    <3>4. ~Young(t)' /\ OnlyPool(w, poolID[t])' /\ poolID'[t] = poolID[t]
      BY <1>2, <3>2, <3>3 DEF OnlyPool, Young
    <3>5. toWeb'[w] \in Seq(OwnWebMessage(poolID[t]))
      BY <3>1, <3>3, QueueType
    <3> QED
      BY <1>2, <3>2, <3>3, <3>4, <3>5, HandshakeDone
  <2>3. CASE WebExits(w)
    <3>1. webUp'[w] = FALSE /\ toWeb'[w] = <<>>
      BY <1>1, <2>3 DEF WebExits, CloseWeb
    <3>2. Silent(w) /\ Poolless(w) => (Silent(w) /\ Poolless(w))'
      BY <1>2, <3>1 DEF Silent, Poolless
    <3>3. Asked(w) \/ Answered(w) => Asked(w)' \/ Answered(w)'
      BY <1>2, <3>1 DEF Asked, Answered, Poolless, OnlyPool
    <3>4. ASSUME NEW t \in Targets, ProcessOf[t] = w, ~Young(t)
          PROVE  /\ OnlyPool(w, poolID[t])'
                 /\ toHost'[w] \in Seq(OwnHostMessage(poolID'[t]))
                 /\ toWeb'[w] \in Seq(OwnWebMessage(poolID'[t]))
      BY <1>2, <3>1, <3>4, HandshakeOf, EmptySeq DEF OnlyPool
    <3>5. \A t \in Targets : Young(t)' <=> Young(t)
      BY <1>2 DEF Young
    <3> QED
      BY <1>2, <2>1, <3>2, <3>3, <3>4, <3>5 DEF HandshakeAt
  <2> QED
    BY <2>2, <2>3
<1> QED
  BY <1>3, <1>4 DEF Handshake

(* A proxy answers the one request there is, and else only reads.          *)
LEMMA ProxyHandshake ==
  ASSUME OneTargetPerProcess, PoolInv, Handshake, NEW w \in Processes, ProxyStep(w), HostFrame
  PROVE  Handshake'
<1>1. /\ TypeOK /\ toHost \in [Processes -> Seq(HostMessage)]
      /\ toWeb \in [Processes -> Seq(WebMessage)]
      /\ poolClient \in [PoolIDs -> Processes \cup {None}] /\ nextPoolID \in Nat
  BY KnownHeads DEF TypeOK, IpcTypeOK, HostTypeOK
<1>2. /\ UNCHANGED <<phase, poolID, webUp>>
      /\ toHost[w] # <<>> /\ toHost' = Received(toHost, w)
  BY DEF HostFrame, webVars, ProxyStep, ConstructPool, PurgePool, BufferAllocation, CommitToView,
     CommitWithoutView, Reads, Done
<1>3. toHost'[w] = Tail(toHost[w]) /\ \A u \in Processes : u # w => toHost'[u] = toHost[u]
  BY <1>1, <1>2 DEF Received
<1>4. CASE ConstructPool(w)
  <2>0. PICK q \in PoolIDs : q = nextPoolID
    BY <1>1, <1>4, IpcAssumption DEF ConstructPool, PoolIDs
  <2>1. /\ q \in PoolIDs /\ poolClient' = [poolClient EXCEPT ![q] = w]
        /\ toWeb' = IF webUp[w] THEN [toWeb EXCEPT ![w] = Append(@, PoolConstructionReplyMsg(q))] ELSE toWeb
        /\ Head(toHost[w]).code = "PoolConstruction"
    BY <1>4, <2>0 DEF ConstructPool, NewPoolID, SendToWeb, Reads
  <2>2. poolClient[q] = None /\ None \notin Processes
    BY <1>1, <2>0, IpcAssumption DEF PoolInv, PoolsKnown
  <2>3. PICK t \in Targets : ProcessOf[t] = w /\ phase[t] = "constructing" /\ Asked(w)
    BY <1>1, <1>2, <2>1, HostHead
  <2>4. ASSUME NEW u \in Processes, u # w
        PROVE  HandshakeAt(u)'
    <3>1. toWeb'[u] = toWeb[u] /\ \A r \in PoolIDs : poolClient'[r] = u <=> poolClient[r] = u
      BY <1>1, <2>1, <2>2, <2>4
    <3> QED
      BY <1>2, <1>3, <2>4, <3>1, HandshakeFrame DEF Handshake
  <2>5. HandshakeAt(w)'
    <3>1. toHost'[w] = <<>> /\ toWeb[w] = <<>>
      BY <1>3, <2>3 DEF Asked
    <3>2. OnlyPool(w, q)'
      <4>1. Poolless(w)
        BY <2>3 DEF Asked
      <4> QED
        BY <1>1, <2>1, <4>1 DEF Poolless, OnlyPool
    <3>3. toWeb'[w] = IF webUp'[w] THEN <<PoolConstructionReplyMsg(q)>> ELSE <<>>
      <4>1. Append(<<>>, PoolConstructionReplyMsg(q)) = <<PoolConstructionReplyMsg(q)>>
        OBVIOUS
      <4> QED
        BY <1>1, <1>2, <2>1, <3>1, <4>1
    <3>4. Answered(w)'
      BY <2>1, <3>1, <3>2, <3>3 DEF Answered, OnlyPool
    <3>5. \A s \in Targets : ProcessOf[s] = w => s = t
      BY <2>3 DEF OneTargetPerProcess
    <3> QED
      BY <1>2, <2>3, <3>4, <3>5 DEF HandshakeAt, Young
  <2> QED
    BY <2>4, <2>5 DEF Handshake
<1>5. CASE ~ConstructPool(w)
  <2>1. /\ UNCHANGED <<toWeb, poolClient>>
        /\ Head(toHost[w]).code # "PoolConstruction"
    BY <1>5 DEF ProxyStep, PurgePool, BufferAllocation, CommitToView, CommitWithoutView, Reads
  <2>2. \A u \in Processes : u # w => HandshakeAt(u)'
    BY <1>2, <1>3, <2>1, HandshakeFrame DEF Handshake
  <2>3. PICK t \in Targets : ProcessOf[t] = w /\ ~Young(t)
    BY <1>1, <1>2, <2>1, HostHead DEF Owns
  <2>4. /\ OnlyPool(w, poolID[t]) /\ toHost[w] \in Seq(OwnHostMessage(poolID[t]))
        /\ toWeb[w] \in Seq(OwnWebMessage(poolID[t]))
    BY <2>3, HandshakeOf
  <2>5. toHost'[w] \in Seq(OwnHostMessage(poolID[t]))
    BY <1>2, <1>3, <2>4, QueueType
  <2>6. ~Young(t)' /\ OnlyPool(w, poolID[t])' /\ poolID'[t] = poolID[t]
    BY <1>2, <2>1, <2>3, <2>4 DEF OnlyPool, Young
  <2>7. HandshakeAt(w)'
    BY <2>1, <2>3, <2>4, <2>5, <2>6, HandshakeDone
  <2> QED
    BY <2>2, <2>7 DEF Handshake
<1> QED
  BY <1>4, <1>5

(* The application sends to the owner of the pool.                         *)
LEMMA SentToOwner ==
  ASSUME OneTargetPerProcess, TypeOK, Handshake,
         UNCHANGED <<phase, poolID, webUp, toHost, poolClient>>,
         NEW p \in PoolIDs, Owned(p),
         NEW m \in OwnWebMessage(p),
         UNCHANGED toWeb \/ toWeb' = [toWeb EXCEPT ![poolClient[p]] = Append(@, m)]
  PROVE  Handshake'
<1>1. PICK t \in Targets : Owns(t, p)
  BY DEF Owned
<1> DEFINE w == ProcessOf[t]
<1>2. w \in Processes /\ poolClient[p] = w /\ ~Young(t) /\ poolID[t] = p
  BY <1>1, IpcAssumption, OwnersClient DEF Owns
<1>3. toWeb \in [Processes -> Seq(WebMessage)]
  BY DEF TypeOK, IpcTypeOK
<1>4. \A u \in Processes : u # w => HandshakeAt(u)'
  <2> TAKE u \in Processes
  <2> HAVE u # w
  <2>1. toWeb'[u] = toWeb[u]
    BY <1>2, <1>3
  <2> QED
    BY <2>1, HandshakeFrame DEF Handshake
<1>5. HandshakeAt(w)'
  <2>1. OnlyPool(w, p) /\ toHost[w] \in Seq(OwnHostMessage(p)) /\ toWeb[w] \in Seq(OwnWebMessage(p))
    BY <1>2, HandshakeOf
  <2>2. toWeb'[w] \in Seq(OwnWebMessage(p))
    <3>1. toWeb'[w] = toWeb[w] \/ toWeb'[w] = Append(toWeb[w], m)
      BY <1>2, <1>3
    <3>2. Append(toWeb[w], m) \in Seq(OwnWebMessage(p))
      BY <2>1, QueueType
    <3> QED
      BY <2>1, <3>1, <3>2
  <2>3. ~Young(t)' /\ OnlyPool(w, poolID[t])' /\ poolID'[t] = p
    BY <1>2, <2>1 DEF OnlyPool, Young
  <2> QED
    BY <2>1, <2>2, <2>3, HandshakeDone
<1> QED
  BY <1>4, <1>5 DEF Handshake

(* The handshake is inductive, with what is known of the UI process.       *)
LEMMA HandshakeStep ==
  ASSUME OneTargetPerProcess, PoolInv, UpAttached, PoolsOwned, Handshake, [Next]_vars
  PROVE  Handshake'
<1>1. TypeOK /\ HeapInv /\ webUp \in [Processes -> BOOLEAN]
  BY DEF PoolInv, HeapInv, TypeOK, IpcTypeOK
<1>2. CASE \E v \in Views : ReleaseStep(v) /\ ViewFrame
  <2>1. PICK v \in Views : (\E i \in 1 .. Len(held[v]) : DispatchReleaseBuffer(v, i)) /\ ViewFrame
    BY <1>2 DEF ReleaseStep
  <2>2. PICK i \in 1 .. Len(held[v]) : DispatchReleaseBuffer(v, i)
    BY <2>1
  <2>3. PICK o \in Objects : o = held[v][i] /\ ReleaseBuffer(o)
    BY <1>1, <2>2, HeldAfterRelease
  <2>4. PICK p \in PoolIDs, b \in Slots : p = hostBuffer[o].poolID /\ b = hostBuffer[o].bufferID
    BY <1>1, <2>3, ReleaseSends
  <2>5. UNCHANGED toWeb \/ toWeb' = [toWeb EXCEPT ![poolClient[p]] = Append(@, ReleaseBufferMsg(p, b))]
    BY <1>1, <2>3, <2>4, ReleaseSends
  <2>6. UNCHANGED <<phase, poolID, webUp, toHost, poolClient>>
    BY <2>1, <2>2, <2>3 DEF DispatchReleaseBuffer, ReleaseBuffer, ViewFrame, webVars
  <2>7. Owned(p)
    BY <1>1, <2>3, <2>4, ReleasedBuffers DEF PoolsOwned
  <2>8. ReleaseBufferMsg(p, b) \in OwnWebMessage(p)
    BY MessageTypes DEF OwnWebMessage, ReleaseBufferMsg
  <2> QED
    BY <1>1, <2>5, <2>6, <2>7, <2>8, SentToOwner
<1>3. CASE \E v \in Views : DispatchFrameComplete(v) /\ ViewFrame
  <2>1. PICK v \in Views : DispatchFrameComplete(v) /\ ViewFrame
    BY <1>3
  <2>2. PICK p \in PoolIDs : p = lastExportedPoolID
    BY <1>1 DEF TypeOK, HostTypeOK
  <2>3. UNCHANGED toWeb \/ toWeb' = [toWeb EXCEPT ![poolClient[p]] = Append(@, FrameCompleteMsg(p))]
    BY <2>1, <2>2 DEF DispatchFrameComplete, FrameComplete, SendToWeb
  <2>4. UNCHANGED <<phase, poolID, webUp, toHost, poolClient>>
    BY <2>1 DEF DispatchFrameComplete, FrameComplete, ViewFrame, webVars, hostVars
  <2>5. Owned(p)
    BY <2>1, <2>2 DEF PoolsOwned, DispatchFrameComplete, CanComplete
  <2>6. FrameCompleteMsg(p) \in OwnWebMessage(p)
    BY MessageTypes DEF OwnWebMessage, FrameCompleteMsg
  <2> QED
    BY <1>1, <2>3, <2>4, <2>5, <2>6, SentToOwner
<1>4. CASE \E w \in Processes : CreateClient(w) /\ HostFrame
  <2>1. PICK w \in Processes : CreateClient(w) /\ HostFrame
    BY <1>4
  <2>2. /\ ~Attached(w) /\ webUp' = [webUp EXCEPT ![w] = TRUE]
        /\ UNCHANGED <<phase, poolID, toHost, toWeb, poolClient>>
    BY <2>1 DEF CreateClient, Attach, OpenWeb, HostFrame, webVars, hostVars
  <2>3. ASSUME NEW u \in Processes
        PROVE  HandshakeAt(u)'
    <3>1. CASE u # w
      <4>1. webUp'[u] = webUp[u]
        BY <1>1, <2>2, <3>1
      <4> QED
        BY <2>2, <4>1, HandshakeFrame DEF Handshake
    <3>2. CASE u = w
      <4>1. \A t \in Targets : ProcessOf[t] = w => phase[t] = "none"
        BY <2>2 DEF UpAttached
      <4>2. (Silent(w) /\ Poolless(w)) /\ UNCHANGED <<toHost, toWeb, poolClient>>
        BY <2>2, <4>1 DEF Handshake, HandshakeAt
      <4>3. (Silent(w) /\ Poolless(w))'
        BY <4>2 DEF Silent, Poolless
      <4> QED
        BY <2>2, <3>2, <4>1, <4>3 DEF HandshakeAt, Young
    <3> QED
      BY <3>1, <3>2
  <2> QED
    BY <2>3 DEF Handshake
<1>5. CASE UNCHANGED <<phase, poolID, webUp, toHost, toWeb, poolClient>>
  BY <1>5, HandshakeFrame DEF Handshake
<1>6. CASE \E v \in Views : (CreateView(v) \/ HandleViewMessage(v) \/ DestroyView(v)) /\ ViewFrame
  BY <1>5, <1>6 DEF CreateView, HandleViewMessage, DestroyView, OpenView, ViewFrame, webVars, hostVars
<1>7. CASE (Poll /\ HostFrame /\ UNCHANGED hostVars) \/ UNCHANGED vars
  BY <1>5, <1>7 DEF Poll, HostFrame, webVars, hostVars, ipcVars, vars
<1>8. CASE \/ \E t \in Targets : TargetStep(t) /\ WebFrame
           \/ \E w \in Processes : (HandleWebMessage(w) \/ WebExits(w)) /\ WebFrame
           \/ \E w \in Processes : ProxyStep(w) /\ HostFrame
  BY <1>1, <1>8, TargetHandshake, WebHandshake, ProxyHandshake
<1> QED
  BY <1>2, <1>3, <1>4, <1>6, <1>7, <1>8 DEF Next

-----------------------------------------------------------------------------
(* What is owned.                                                          *)

(* What a view has not read yet still names pools of its targets.          *)
LEMMA QueueOwned ==
  ASSUME TypeOK, [Next]_vars, PoolsOwned, NEW v \in Views
  PROVE  toView[v] \in Seq({m \in ViewMessage : OwnedOf(v, m.poolID)'})
<1> DEFINE S == {m \in ViewMessage : OwnedOf(v, m.poolID)}
           T == {m \in ViewMessage : OwnedOf(v, m.poolID)'}
<1>1. S \subseteq T
  BY OwnersKept DEF ViewMessage
<1>2. toView[v] \in Seq(S)
  BY DEF PoolsOwned
<1> HIDE DEF S, T
<1>3. toView[v] \in Seq(T)
  BY <1>1, <1>2, SeqMonotonic
<1> QED
  BY <1>3 DEF T

(* A target sends its view the pool it owns.                               *)
LEMMA TargetOwned ==
  ASSUME TypeOK, Handshake, PoolsOwned, NEW t \in Targets, TargetStep(t), WebFrame
  PROVE  PoolsOwned'
<1> DEFINE w == ProcessOf[t]
           v == ViewOf[t]
<1>1. /\ w \in Processes /\ v \in Views
      /\ phase \in [Targets -> Phases] /\ poolID \in [Targets -> PoolIDs]
      /\ toView \in [Views -> Seq(ViewMessage)]
  BY IpcAssumption DEF TypeOK, WebTypeOK, IpcTypeOK
<1>2. UNCHANGED <<poolBuffers, hostBuffer, unfinished, lastExportedPoolID, viewBackendMap>>
  BY DEF WebFrame, hostVars, appVars
<1>3. /\ [Next]_vars
      /\ \A p \in PoolIDs : Owned(p) => Owned(p)'
      /\ \A u \in Views, p \in PoolIDs : OwnedOf(u, p) => OwnedOf(u, p)'
  <2>1. [Next]_vars
    BY DEF Next
  <2> QED
    BY <2>1, OwnersKept
<1>4. /\ \A o \in Objects : hostBuffer[o] # None => hostBuffer[o].poolID \in PoolIDs
      /\ lastExportedPoolID \in PoolIDs
  BY DEF TypeOK, HostTypeOK, Buffer
<1>5. ASSUME NEW p \in PoolIDs, NEW c \in {"RegisterPool", "UnregisterPool"}, Owns(t, p)',
             UNCHANGED toView \/ toView' = [toView EXCEPT ![v] = Append(@, [code |-> c, poolID |-> p])]
      PROVE  PoolsOwned'
  <2> DEFINE m == [code |-> c, poolID |-> p]
             T(u) == {x \in ViewMessage : OwnedOf(u, x.poolID)'}
  <2>1. m \in T(v)
    <3>1. m \in ViewMessage /\ m.poolID = p
      BY DEF ViewMessage
    <3>2. OwnedOf(v, p)'
      BY <1>5 DEF OwnedOf
    <3> HIDE DEF m
    <3> QED
      BY <3>1, <3>2
  <2>2. \A u \in Views : toView[u] \in Seq(T(u))
    BY <1>3, QueueOwned
  <2>3. \A u \in Views : toView'[u] \in Seq(T(u))
    <3> TAKE u \in Views
    <3>1. toView'[u] = toView[u] \/ (u = v /\ toView'[u] = Append(toView[u], m))
      BY <1>1, <1>5
    <3> HIDE DEF T, m
    <3> QED
      BY <2>1, <2>2, <3>1, QueueType
  <2> QED
    BY <1>2, <1>3, <1>4, <2>3 DEF PoolsOwned
<1>6. CASE ReceiveReply(t)
  <2>1. toWeb[w] # <<>> /\ phase[t] = "constructing" /\ HandshakeAt(w)
    BY <1>1, <1>6 DEF ReceiveReply, Handshake
  <2>2. PICK q \in PoolIDs : toWeb[w] = <<PoolConstructionReplyMsg(q)>>
    BY <2>1 DEF HandshakeAt, Asked, Answered
  <2>3. Head(toWeb[w]).code = "PoolConstructionReply" /\ Head(toWeb[w]).poolID = q
    BY <2>2 DEF PoolConstructionReplyMsg
  <2>4. /\ poolID' = [poolID EXCEPT ![t] = q] /\ phase' = [phase EXCEPT ![t] = "ready"]
        /\ SendToView(v, RegisterPoolMsg(q))
    BY <1>6, <2>3 DEF ReceiveReply
  <2>5. Owns(t, q)'
    BY <1>1, <2>4 DEF Owns, Young
  <2> QED
    BY <1>5, <2>4, <2>5 DEF SendToView, RegisterPoolMsg
<1>7. CASE DestroyTarget(t)
  <2>1. Owns(t, poolID[t]) /\ poolID'[t] = poolID[t] /\ poolID[t] \in PoolIDs /\ Owns(t, poolID[t])'
    BY <1>1, <1>7 DEF DestroyTarget, Owns, Young
  <2>2. SendToView(v, UnregisterPoolMsg(poolID[t]))
    BY <1>7 DEF DestroyTarget
  <2>3. PICK p \in PoolIDs : p = poolID[t]
    BY <2>1
  <2> QED
    BY <1>5, <2>1, <2>2, <2>3 DEF SendToView, UnregisterPoolMsg, Owns
<1>8. CASE UNCHANGED toView
  <2>1. \A u \in Views : toView'[u] \in Seq({x \in ViewMessage : OwnedOf(u, x.poolID)'})
    BY <1>3, <1>8, QueueOwned
  <2> QED
    BY <1>2, <1>3, <1>4, <2>1 DEF PoolsOwned
<1> QED
  BY <1>6, <1>7, <1>8 DEF TargetStep, CreateTarget, Initialize, Resize, FrameAborts, FrameReuses,
     FrameFailsToAllocate, FrameAllocates, FrameRendered, Deinitialize, ipcVars

(* A proxy works on the pool of the target its message is from.            *)
LEMMA ProxyOwned ==
  ASSUME PoolInv, Handshake, PoolsOwned, NEW w \in Processes, ProxyStep(w), HostFrame
  PROVE  PoolsOwned'
<1>1. /\ [Next]_vars /\ TypeOK /\ HeapInv
      /\ toHost[w] # <<>> /\ UNCHANGED <<toView, viewBackendMap>>
  BY DEF Next, PoolInv, HeapInv, ProxyStep, ConstructPool, PurgePool, BufferAllocation, CommitToView,
     CommitWithoutView, Reads
<1>2. /\ \A p \in PoolIDs : Owned(p) => Owned(p)'
      /\ \A u \in Views, p \in PoolIDs : OwnedOf(u, p) => OwnedOf(u, p)'
      /\ \A u \in Views : toView'[u] \in Seq({x \in ViewMessage : OwnedOf(u, x.poolID)'})
  BY <1>1, OwnersKept, QueueOwned
<1>3. /\ \A o \in Objects : hostBuffer[o] # None => hostBuffer[o].poolID \in PoolIDs
      /\ lastExportedPoolID \in PoolIDs
      /\ poolBuffers \in [PoolIDs -> [Slots -> Objects \cup {None}]]
  BY <1>1 DEF TypeOK, HostTypeOK, Buffer
<1>4. CASE ConstructPool(w)
  BY <1>1, <1>2, <1>3, <1>4 DEF PoolsOwned, ConstructPool, appVars
<1>5. CASE ~ConstructPool(w)
  <2>1. Head(toHost[w]).code # "PoolConstruction"
    BY <1>5 DEF ProxyStep, PurgePool, BufferAllocation, CommitToView, CommitWithoutView, Reads
  <2>2. PICK p \in PoolIDs : p = Head(toHost[w]).poolID /\ Owned(p)
    BY <1>1, <2>1, HostHead DEF Owned
  <2>3. Owned(p)'
    BY <1>2, <2>2
  <2>4. \A q \in PoolIDs : \A b \in Slots : poolBuffers'[q][b] # None => q = p \/ poolBuffers[q][b] # None
    BY <1>3, <1>5, <2>2 DEF ProxyStep, PurgePool, BufferAllocation, CommitToView, CommitWithoutView
  <2>5. \A o \in Objects : hostBuffer'[o] # None =>
          \/ hostBuffer[o] # None /\ hostBuffer'[o].poolID = hostBuffer[o].poolID
          \/ hostBuffer'[o].poolID = p
    BY <1>1, <2>2, ProxyBuffers
  <2>6. lastExportedPoolID' = p \/ UNCHANGED <<lastExportedPoolID, unfinished>>
    BY <1>5, <2>2 DEF ProxyStep, PurgePool, BufferAllocation, CommitToView, CommitWithoutView, appVars
  <2>7. ASSUME NEW o \in Objects, hostBuffer'[o] # None
        PROVE  Owned(hostBuffer[o].poolID)'
    <3>1. PICK q \in PoolIDs : q = hostBuffer'[o].poolID /\ Owned(q)'
      <4>1. CASE hostBuffer'[o].poolID = p
        BY <2>3, <4>1
      <4>2. CASE hostBuffer[o] # None /\ hostBuffer'[o].poolID = hostBuffer[o].poolID
        <5>1. hostBuffer[o].poolID \in PoolIDs /\ Owned(hostBuffer[o].poolID)
          BY <1>3, <4>2 DEF PoolsOwned
        <5>2. PICK q \in PoolIDs : q = hostBuffer[o].poolID
          BY <5>1
        <5> QED
          BY <1>2, <4>2, <5>1, <5>2
      <4> QED
        BY <2>5, <2>7, <4>1, <4>2
    <3> QED
      BY <3>1 DEF Owned, Owns, Young
  <2>8. ASSUME NEW v \in Views, unfinished'[v] # <<>>
        PROVE  Owned(lastExportedPoolID)'
    <3>1. PICK q \in PoolIDs : q = lastExportedPoolID' /\ Owned(q)'
      <4>1. CASE lastExportedPoolID' = p
        BY <2>3, <4>1
      <4>2. CASE UNCHANGED <<lastExportedPoolID, unfinished>>
        <5>1. Owned(lastExportedPoolID)
          BY <2>8, <4>2 DEF PoolsOwned
        <5>2. PICK q \in PoolIDs : q = lastExportedPoolID
          BY <1>3
        <5> QED
          BY <1>2, <4>2, <5>1, <5>2
      <4> QED
        BY <2>6, <4>1, <4>2
    <3> QED
      BY <3>1 DEF Owned, Owns, Young
  <2>9. \A q \in PoolIDs : \A b \in Slots : poolBuffers'[q][b] # None => Owned(q)'
    BY <1>2, <2>3, <2>4 DEF PoolsOwned
  <2>10. /\ \A q \in PoolIDs, v \in Views : viewBackendMap'[q] = v => OwnedOf(v, q)'
         /\ \A v \in Views : toView'[v] \in Seq({m \in ViewMessage : OwnedOf(v, m.poolID)'})
    BY <1>1, <1>2 DEF PoolsOwned
  <2> QED
    BY <2>7, <2>8, <2>9, <2>10 DEF PoolsOwned
<1> QED
  BY <1>4, <1>5

(* A view enters the pools of its targets, and takes them out.             *)
LEMMA ViewOwned ==
  ASSUME PoolInv, PoolsOwned, [Next]_vars, NEW v \in Views, ViewFrame,
         CreateView(v) \/ HandleViewMessage(v) \/ DestroyView(v) \/ ReleaseStep(v) \/ DispatchFrameComplete(v)
  PROVE  PoolsOwned'
<1>1. /\ TypeOK /\ HeapInv
      /\ viewBackendMap \in [PoolIDs -> Views \cup {None}] /\ None \notin Views
      /\ unfinished \in [Views -> Seq(PoolIDs)]
      /\ toView \in [Views -> Seq(ViewMessage)]
      /\ \A o \in Objects : hostBuffer[o] # None => hostBuffer[o].poolID \in PoolIDs
      /\ lastExportedPoolID \in PoolIDs
  BY IpcAssumption DEF PoolInv, HeapInv, TypeOK, HostTypeOK, IpcTypeOK, Buffer
<1>2. /\ \A p \in PoolIDs : Owned(p) => Owned(p)'
      /\ \A u \in Views, p \in PoolIDs : OwnedOf(u, p) => OwnedOf(u, p)'
      /\ \A u \in Views : toView[u] \in Seq({x \in ViewMessage : OwnedOf(u, x.poolID)'})
  BY <1>1, OwnersKept, QueueOwned
<1>3. UNCHANGED <<poolBuffers, lastExportedPoolID, phase, poolID>>
  BY DEF ViewFrame, webVars, CreateView, HandleViewMessage, DestroyView, ReleaseStep,
     DispatchReleaseBuffer, ReleaseBuffer, DispatchFrameComplete, FrameComplete, hostVars
<1>4. /\ \A p \in PoolIDs : \A b \in Slots : poolBuffers'[p][b] # None => Owned(p)'
      /\ \A u \in Views : unfinished'[u] # <<>> => Owned(lastExportedPoolID)'
  <2>1. \A u \in Views : unfinished'[u] # <<>> => unfinished[u] # <<>>
    BY <1>1 DEF CreateView, HandleViewMessage, DestroyView, ReleaseStep, DispatchReleaseBuffer,
       DispatchFrameComplete, CanComplete, Received, appVars
  <2> QED
    BY <1>1, <1>2, <1>3, <2>1 DEF PoolsOwned
<1>5. \A o \in Objects : hostBuffer'[o] # None => Owned(hostBuffer[o].poolID)'
  <2> TAKE o \in Objects
  <2> HAVE hostBuffer'[o] # None
  <2>1. hostBuffer[o] # None /\ hostBuffer'[o].poolID = hostBuffer[o].poolID
    <3>1. CASE ReleaseStep(v)
      <4>1. PICK i \in 1 .. Len(held[v]) : DispatchReleaseBuffer(v, i)
        BY <3>1 DEF ReleaseStep
      <4> QED
        BY <1>1, <4>1, HeldAfterRelease, ReleasedBuffers
    <3>2. CASE ~ReleaseStep(v)
      BY <3>2 DEF CreateView, HandleViewMessage, DestroyView, DispatchFrameComplete, FrameComplete, hostVars
    <3> QED
      BY <3>1, <3>2
  <2>2. Owned(hostBuffer[o].poolID)
    BY <2>1 DEF PoolsOwned
  <2> QED
    BY <1>3, <2>1, <2>2 DEF Owned, Owns, Young
<1>6. /\ \A p \in PoolIDs, u \in Views : viewBackendMap'[p] = u => OwnedOf(u, p)'
      /\ \A u \in Views : toView'[u] \in Seq({x \in ViewMessage : OwnedOf(u, x.poolID)'})
  <2>1. CASE HandleViewMessage(v)
    <3> DEFINE m == Head(toView[v])
               T == {x \in ViewMessage : OwnedOf(v, x.poolID)'}
    <3>1. toView[v] # <<>> /\ toView' = Received(toView, v)
      BY <2>1 DEF HandleViewMessage
    <3>2. m \in T /\ Tail(toView[v]) \in Seq(T)
      <4>1. toView[v] \in Seq(T)
        BY <1>2
      <4> HIDE DEF T
      <4> QED
        BY <3>1, <4>1, QueueType
    <3>3. \A u \in Views : toView'[u] \in Seq({x \in ViewMessage : OwnedOf(u, x.poolID)'})
      <4> TAKE u \in Views
      <4>1. toView'[u] = IF u = v THEN Tail(toView[v]) ELSE toView[u]
        BY <1>1, <3>1 DEF Received
      <4> QED
        BY <1>2, <3>2, <4>1
    <3>4. PICK p \in PoolIDs : p = m.poolID /\ OwnedOf(v, p)'
      BY <3>2 DEF ViewMessage
    <3>5. \A q \in PoolIDs : \A u \in Views : viewBackendMap'[q] = u =>
            viewBackendMap[q] = u \/ (q = p /\ u = v)
      BY <1>1, <2>1, <3>4 DEF HandleViewMessage, RegisterPool, UnregisterPool
    <3>6. \A q \in PoolIDs, u \in Views : viewBackendMap'[q] = u => OwnedOf(u, q)'
      BY <1>2, <3>4, <3>5 DEF PoolsOwned
    <3> QED
      BY <3>3, <3>6
  <2>2. CASE DestroyView(v)
    <3>1. \A q \in PoolIDs, u \in Views : viewBackendMap'[q] = u => viewBackendMap[q] = u
      BY <1>1, <2>2 DEF DestroyView
    <3>2. \A u \in Views : toView'[u] = IF u = v THEN <<>> ELSE toView[u]
      BY <1>1, <2>2 DEF DestroyView, CloseView
    <3>3. ASSUME NEW u \in Views PROVE toView'[u] \in Seq({x \in ViewMessage : OwnedOf(u, x.poolID)'})
      <4> DEFINE T == {x \in ViewMessage : OwnedOf(u, x.poolID)'}
      <4>1. toView[u] \in Seq(T)
        BY <1>2
      <4> HIDE DEF T
      <4>2. toView'[u] \in Seq(T)
        BY <3>2, <4>1, EmptySeq
      <4> QED
        BY <4>2 DEF T
    <3> QED
      BY <1>2, <3>1, <3>3 DEF PoolsOwned
  <2>3. CASE UNCHANGED <<viewBackendMap, toView>>
    BY <1>2, <2>3 DEF PoolsOwned
  <2> QED
    BY <2>1, <2>2, <2>3 DEF CreateView, OpenView, ReleaseStep, DispatchReleaseBuffer, ReleaseBuffer,
       DispatchFrameComplete, FrameComplete, hostVars
<1> QED
  BY <1>4, <1>5, <1>6 DEF PoolsOwned

(* Every step keeps what is owned.                                         *)
LEMMA OwnedStep ==
  ASSUME PoolInv, Handshake, PoolsOwned, [Next]_vars
  PROVE  PoolsOwned'
<1>1. TypeOK
  BY DEF PoolInv, HeapInv
<1>2. CASE UNCHANGED <<poolBuffers, hostBuffer, unfinished, lastExportedPoolID, viewBackendMap, toView>>
  <2>1. /\ \A p \in PoolIDs : Owned(p) => Owned(p)'
        /\ \A u \in Views, p \in PoolIDs : OwnedOf(u, p) => OwnedOf(u, p)'
        /\ \A u \in Views : toView[u] \in Seq({x \in ViewMessage : OwnedOf(u, x.poolID)'})
    BY <1>1, OwnersKept, QueueOwned
  <2>2. /\ \A o \in Objects : hostBuffer[o] # None => hostBuffer[o].poolID \in PoolIDs
        /\ lastExportedPoolID \in PoolIDs
    BY <1>1 DEF TypeOK, HostTypeOK, Buffer
  <2> QED
    BY <1>2, <2>1, <2>2 DEF PoolsOwned
<1>3. CASE \/ \E t \in Targets : TargetStep(t) /\ WebFrame
           \/ \E w \in Processes : ProxyStep(w) /\ HostFrame
           \/ \E v \in Views :
                /\ CreateView(v) \/ HandleViewMessage(v) \/ DestroyView(v) \/ ReleaseStep(v) \/ DispatchFrameComplete(v)
                /\ ViewFrame
  BY <1>1, <1>3, TargetOwned, ProxyOwned, ViewOwned
<1>4. CASE \/ \E w \in Processes : (HandleWebMessage(w) \/ WebExits(w)) /\ WebFrame
           \/ \E w \in Processes : CreateClient(w) /\ HostFrame
           \/ Poll /\ HostFrame /\ UNCHANGED <<hostVars, appVars>>
           \/ UNCHANGED vars
  BY <1>2, <1>4 DEF HandleWebMessage, WebExits, CreateClient, OpenWeb, Poll, WebFrame, HostFrame,
     ipcVars, hostVars, appVars, vars
<1> QED
  BY <1>3, <1>4 DEF Next

(* A target enters the map with its pool and leaves it at its end.         *)
LEMMA RegisteredStep ==
  ASSUME OneTargetPerProcess, TypeOK, Handshake, TargetsInMapLive, TargetsRegistered, [Next]_vars
  PROVE  TargetsRegistered'
<1>1. /\ phase \in [Targets -> Phases] /\ poolID \in [Targets -> PoolIDs]
      /\ locked \in [Targets -> [Slots -> BOOLEAN]]
      /\ object \in [Targets -> [Slots -> Objects \cup {None}]]
      /\ current \in [Targets -> Slots \cup {None}]
      /\ targetMap \in [Processes -> [PoolIDs -> Targets \cup {None}]]
      /\ None \notin Targets
  BY IpcAssumption DEF TypeOK, WebTypeOK
<1>2. CASE UNCHANGED webVars
  BY <1>2 DEF webVars, TargetsRegistered
<1>3. CASE \E w \in Processes : HandleWebMessage(w)
  <2>1. PICK w \in Processes : HandleWebMessage(w)
    BY <1>3
  <2>2. UNCHANGED <<phase, poolID, object, current, targetMap>>
    BY <2>1 DEF HandleWebMessage
  <2>3. \A t \in Targets, b \in Slots : locked'[t][b] => locked[t][b]
    <3>1. UNCHANGED locked \/ \E s, c : locked' = [locked EXCEPT ![s][c] = FALSE]
      BY <2>1 DEF HandleWebMessage
    <3>2. ASSUME NEW s, NEW c, locked' = [locked EXCEPT ![s][c] = FALSE],
                 NEW t \in Targets, NEW b \in Slots
          PROVE  locked'[t][b] => locked[t][b]
      BY <1>1, <3>2
    <3> QED
      BY <3>1, <3>2
  <2> QED
    BY <2>2, <2>3 DEF TargetsRegistered
<1>4. CASE \E t \in Targets : TargetStep(t)
  <2>1. PICK t \in Targets : TargetStep(t)
    BY <1>4
  <2> DEFINE w == ProcessOf[t]
  <2>2. w \in Processes /\ \A s \in Targets : s # t => ProcessOf[s] # w
    BY IpcAssumption DEF OneTargetPerProcess
  <2>3. /\ UNCHANGED phase \/ \E x : phase' = [phase EXCEPT ![t] = x]
        /\ UNCHANGED poolID \/ \E x : poolID' = [poolID EXCEPT ![t] = x]
        /\ UNCHANGED current \/ \E x : current' = [current EXCEPT ![t] = x]
    BY <2>1 DEF TargetStep, CreateTarget, Initialize, ReceiveReply, Resize, FrameAborts,
       FrameReuses, FrameFailsToAllocate, FrameAllocates, FrameRendered, Deinitialize,
       DestroyTarget, webVars
  <2>4. /\ \A s \in Targets : s # t => object'[s] = object[s] /\ locked'[s] = locked[s]
        /\ \A u \in Processes : u # w => targetMap'[u] = targetMap[u]
    BY <1>1, <2>1, <2>2 DEF TargetStep, CreateTarget, Initialize, ReceiveReply, Resize, FrameAborts,
       FrameReuses, FrameFailsToAllocate, FrameAllocates, FrameRendered, Deinitialize,
       DestroyTarget, DestroyBufferPool, webVars
  <2>5. ASSUME NEW s \in Targets, s # t
        PROVE  /\ phase'[s] \in {"ready", "deinitialized"} => targetMap'[ProcessOf[s]][poolID'[s]] = s
               /\ phase'[s] # "ready" => /\ current'[s] = None
                                         /\ \A b \in Slots : object'[s][b] = None /\ ~locked'[s][b]
    <3>1. phase'[s] = phase[s] /\ poolID'[s] = poolID[s] /\ current'[s] = current[s]
      BY <1>1, <2>3, <2>5
    <3>2. ProcessOf[s] \in Processes /\ targetMap'[ProcessOf[s]] = targetMap[ProcessOf[s]]
      BY <2>2, <2>4, <2>5, IpcAssumption
    <3> QED
      BY <2>4, <2>5, <3>1, <3>2 DEF TargetsRegistered
  <2>6. /\ phase'[t] \in {"ready", "deinitialized"} => targetMap'[w][poolID'[t]] = t
        /\ phase'[t] # "ready" => /\ current'[t] = None
                                  /\ \A b \in Slots : object'[t][b] = None /\ ~locked'[t][b]
    <3>1. CASE ReceiveReply(t)
      <4>1. toWeb[w] # <<>> /\ phase[t] = "constructing" /\ HandshakeAt(w)
        BY <2>2, <3>1 DEF ReceiveReply, Handshake
      <4>2. PICK q \in PoolIDs : toWeb[w] = <<PoolConstructionReplyMsg(q)>>
        BY <4>1 DEF HandshakeAt, Asked, Answered
      <4>3. Head(toWeb[w]).code = "PoolConstructionReply" /\ Head(toWeb[w]).poolID = q
        BY <4>2 DEF PoolConstructionReplyMsg
      <4>4. targetMap[w][q] = None
        <5>1. targetMap[w][q] \in Targets \cup {None}
          BY <1>1, <2>2
        <5>2. ASSUME NEW s \in Targets, targetMap[w][q] = s PROVE FALSE
          <6>1. ProcessOf[s] = w /\ phase[s] \in {"ready", "deinitialized"}
            BY <2>2, <5>2 DEF TargetsInMapLive
          <6> QED
            BY <2>2, <4>1, <6>1
        <5> QED
          BY <5>1, <5>2
      <4>5. /\ poolID' = [poolID EXCEPT ![t] = q] /\ phase' = [phase EXCEPT ![t] = "ready"]
            /\ targetMap' = [targetMap EXCEPT ![w][q] = t]
        BY <3>1, <4>3, <4>4 DEF ReceiveReply
      <4> QED
        BY <1>1, <2>2, <4>5
    <3>2. CASE DestroyTarget(t)
      <4>1. phase[t] = "deinitialized" /\ phase'[t] = "destroyed" /\ UNCHANGED <<current, object, locked>>
        BY <1>1, <3>2 DEF DestroyTarget
      <4> QED
        BY <4>1 DEF TargetsRegistered
    <3>3. CASE Deinitialize(t)
      <4>1. /\ phase[t] = "ready" /\ phase'[t] = "deinitialized" /\ current[t] = None
            /\ UNCHANGED <<current, targetMap, poolID>>
            /\ \A b \in Slots : object'[t][b] = None /\ locked'[t][b] = FALSE
        BY <1>1, <3>3 DEF Deinitialize, Callable, DestroyBufferPool
      <4> QED
        BY <4>1 DEF TargetsRegistered
    <3>4. CASE CreateTarget(t) \/ Initialize(t)
      <4>1. /\ phase[t] \in {"none", "created"} /\ phase'[t] \in {"created", "constructing"}
            /\ UNCHANGED <<current, object, locked>>
        BY <1>1, <3>4 DEF CreateTarget, Initialize
      <4> QED
        BY <4>1 DEF TargetsRegistered
    <3>5. CASE phase[t] = "ready" /\ UNCHANGED <<phase, poolID, targetMap>>
      BY <3>5 DEF TargetsRegistered
    <3> QED
      BY <2>1, <3>1, <3>2, <3>3, <3>4, <3>5 DEF TargetStep, Resize, FrameAborts,
       FrameReuses, FrameFailsToAllocate, FrameAllocates, FrameRendered, CanRender, Callable, webVars
  <2> QED
    BY <2>5, <2>6 DEF TargetsRegistered
<1>5. UNCHANGED webVars \/ (\E w \in Processes : HandleWebMessage(w)) \/ \E t \in Targets : TargetStep(t)
  BY DEF Next, WebExits, HostFrame, ViewFrame, vars
<1> QED
  BY <1>2, <1>3, <1>4, <1>5

-----------------------------------------------------------------------------
(* The invariant of the page.                                              *)

(* What is known before any assumption on targets.                         *)
LEMMA Background == Spec => [](PoolInv /\ LockInv)
<1>1. Init => LockInv
  BY LockStart
<1>2. LockInv /\ [Next]_vars => LockInv'
  BY LockStep
<1> QED
  BY <1>1, <1>2, PoolInvariant, PTL DEF Spec

(* The invariant is inductive.                                             *)
LEMMA PageStep ==
  ASSUME OneTargetPerProcess, PoolInv, UpAttached, PageInv, [Next]_vars
  PROVE  PageInv'
<1>1. MapInv'
  BY MapStep DEF PageInv
<1>2. TypeOK /\ TargetsInMapLive
  BY DEF PageInv, MapInv, HeapInv, MapsPointToLive
<1>3. Handshake' /\ PoolsOwned' /\ TargetsRegistered'
  BY <1>2, HandshakeStep, OwnedStep, RegisteredStep DEF PageInv
<1> QED
  BY <1>1, <1>3 DEF PageInv

(* It holds at the start: no target, no message.                           *)
LEMMA PageStart == Init => PageInv
<1> SUFFICES ASSUME Init PROVE PageInv
  OBVIOUS
<1>1. MapInv
  BY MapStart
<1>2. None \notin Processes /\ None \notin Views
  BY IpcAssumption
<1>3. Handshake
  BY <1>2, IpcAssumption DEF Init, IpcInit, WebInit, HostInit, Handshake, HandshakeAt, Silent, Poolless, Young
<1>4. PoolsOwned
  BY <1>2, EmptySeq DEF Init, IpcInit, HostInit, PoolsOwned
<1>5. TargetsRegistered
  BY DEF Init, WebInit, TargetsRegistered
<1> QED
  BY <1>1, <1>3, <1>4, <1>5 DEF PageInv

(* A web process with one target: nothing is in its sockets before the     *)
(* request for a pool, the request and its reply are alone in them, and    *)
(* from then on every message, pool and Buffer is of that one pool.        *)
THEOREM PageInvariant ==
  ASSUME OneTargetPerProcess
  PROVE  Spec => []PageInv
<1>1. PoolInv /\ LockInv /\ PageInv /\ [Next]_vars => PageInv'
  BY PageStep DEF LockInv
<1> QED
  BY <1>1, PageStart, Background, PTL DEF Spec

(* The first message after PoolConstruction is its reply: the synchronous  *)
(* receive of EGLTarget::initialize takes no other message for it          *)
(* (renderer-backend-egl.cpp:242).                                         *)
THEOREM RepliesFirst ==
  ASSUME OneTargetPerProcess
  PROVE  Spec => []ReplyComesFirst
<1>1. PageInv => ReplyComesFirst
  <2> SUFFICES ASSUME PageInv, NEW t \in Targets, phase[t] = "constructing", toWeb[ProcessOf[t]] # <<>>
               PROVE  Head(toWeb[ProcessOf[t]]).code = "PoolConstructionReply"
    BY DEF ReplyComesFirst
  <2>1. HandshakeAt(ProcessOf[t])
    BY IpcAssumption DEF PageInv, Handshake
  <2>2. PICK q \in PoolIDs : toWeb[ProcessOf[t]] = <<PoolConstructionReplyMsg(q)>>
    BY <2>1 DEF HandshakeAt, Asked, Answered
  <2> QED
    BY <2>2 DEF PoolConstructionReplyMsg
<1> QED
  BY <1>1, PageInvariant, PTL

(* handleMessage of the RendererBackend finds no target for a pool only    *)
(* when the page has been destroyed (renderer-backend-egl.cpp:173).        *)
THEOREM UnknownPoolIsOld ==
  ASSUME OneTargetPerProcess
  PROVE  Spec => []UnknownPoolMeansDestroyed
<1>1. PageInv => UnknownPoolMeansDestroyed
  <2> SUFFICES ASSUME PageInv, NEW w \in Processes, InEventLoop(w), toWeb[w] # <<>>,
                      targetMap[w][Head(toWeb[w]).poolID] = None
               PROVE  \E t \in Targets : /\ poolID[t] = Head(toWeb[w]).poolID
                                         /\ ProcessOf[t] = w /\ phase[t] = "destroyed"
    BY DEF UnknownPoolMeansDestroyed
  <2>1. TypeOK /\ Handshake /\ phase \in [Targets -> Phases]
    BY DEF PageInv, MapInv, HeapInv, TypeOK, WebTypeOK
  <2>2. PICK t \in Targets : ProcessOf[t] = w /\ Owns(t, Head(toWeb[w]).poolID)
    BY <2>1, WebHead DEF InEventLoop
  <2>3. phase[t] \notin {"ready", "deinitialized"}
    <3>1. None \notin Targets
      BY IpcAssumption
    <3> QED
      BY <2>2, <3>1 DEF PageInv, TargetsRegistered, Owns
  <2> QED
    BY <2>1, <2>2, <2>3 DEF Owns, Young, Phases
<1> QED
  BY <1>1, PageInvariant, PTL

-----------------------------------------------------------------------------
(* Handles.                                                                *)

(* Slots that empty and messages that are read disturb nothing.            *)
LEMMA HandlesFrame ==
  ASSUME HandlesPlaced,
         \A t \in Targets, b \in Slots, o \in Objects : InSlot(t, b, o)' => InSlot(t, b, o),
         \A w \in Processes : \A j \in 1 .. Len(toHost'[w]) : toHost'[w][j].code = "BufferAllocation" =>
           \E i \in 1 .. Len(toHost[w]) : toHost[w][i] = toHost'[w][j],
         \A t \in Targets, b \in Slots, o \in Objects : InSlot(t, b, o) =>
           /\ hostBuffer'[o] # None => hostBuffer'[o].poolID = poolID'[t] /\ hostBuffer'[o].bufferID = b
           /\ \A v \in Views : HeldBy(v, o)' => v = ViewOf[t],
         \A w \in Processes : \A i \in 1 .. Len(toHost[w]) : \A o \in Objects :
           Brings(w, i, o) => \A v \in Views : ~HeldBy(v, o)'
  PROVE  HandlesPlaced'
<1>1. ASSUME NEW t \in Targets, NEW b \in Slots, NEW o \in Objects, InSlot(t, b, o)'
      PROVE  /\ \A s \in Targets, a \in Slots : InSlot(s, a, o)' => s = t /\ a = b
             /\ \A w \in Processes : \A i \in 1 .. Len(toHost'[w]) :
                  Brings(w, i, o)' => w = ProcessOf[t] /\ toHost'[w][i].bufferID = b
             /\ hostBuffer'[o] # None => hostBuffer'[o].poolID = poolID'[t] /\ hostBuffer'[o].bufferID = b
             /\ \A v \in Views : HeldBy(v, o)' => v = ViewOf[t]
  <2>1. InSlot(t, b, o)
    BY <1>1
  <2>2. \A s \in Targets, a \in Slots : InSlot(s, a, o)' => s = t /\ a = b
    BY <2>1 DEF HandlesPlaced, InSlot
  <2>3. ASSUME NEW w \in Processes, NEW j \in 1 .. Len(toHost'[w]), Brings(w, j, o)'
        PROVE  w = ProcessOf[t] /\ toHost'[w][j].bufferID = b
    <3>1. toHost'[w][j].code = "BufferAllocation" /\ toHost'[w][j].object = o
      BY <2>3 DEF Brings
    <3>2. PICK i \in 1 .. Len(toHost[w]) : toHost[w][i] = toHost'[w][j]
      BY <3>1
    <3>3. Brings(w, i, o)
      BY <3>1, <3>2 DEF Brings
    <3> QED
      BY <2>1, <3>2, <3>3 DEF HandlesPlaced
  <2> QED
    BY <2>1, <2>2, <2>3
<1>2. ASSUME NEW w \in Processes, NEW j \in 1 .. Len(toHost'[w]), NEW o \in Objects, Brings(w, j, o)',
             NEW v \in Views
      PROVE  ~HeldBy(v, o)'
  <2>1. toHost'[w][j].code = "BufferAllocation" /\ toHost'[w][j].object = o
    BY <1>2 DEF Brings
  <2>2. PICK i \in 1 .. Len(toHost[w]) : toHost[w][i] = toHost'[w][j]
    BY <2>1
  <2> QED
    BY <2>1, <2>2 DEF Brings
<1> QED
  BY <1>1, <1>2 DEF HandlesPlaced

(* A new buffer is no one else's; a purge and an end empty slots.          *)
LEMMA TargetHandles ==
  ASSUME HandleInv, NEW t \in Targets, TargetStep(t), WebFrame
  PROVE  HandlesPlaced'
<1> DEFINE w == ProcessOf[t]
<1>1. /\ w \in Processes /\ TypeOK /\ HandlesPlaced /\ None \notin Objects
      /\ toHost \in [Processes -> Seq(HostMessage)] /\ webUp \in [Processes -> BOOLEAN]
      /\ object \in [Targets -> [Slots -> Objects \cup {None}]]
      /\ poolID \in [Targets -> PoolIDs] /\ current \in [Targets -> Slots \cup {None}]
  BY IpcAssumption DEF HandleInv, PageInv, MapInv, HeapInv, TypeOK, IpcTypeOK, WebTypeOK
<1>2. UNCHANGED <<hostBuffer, held>>
  BY DEF WebFrame, hostVars, appVars
<1>3. \A v \in Views, o \in Objects : HeldBy(v, o)' <=> HeldBy(v, o)
  BY <1>2 DEF HeldBy
<1>4. \A s \in Targets, b \in Slots, o \in Objects : InSlot(s, b, o) => poolID'[s] = poolID[s]
  <2>1. ASSUME NEW s \in Targets, NEW b \in Slots, NEW o \in Objects, InSlot(s, b, o)
        PROVE  poolID'[s] = poolID[s]
    <3>1. phase[s] = "ready"
      BY <1>1, <2>1 DEF HandleInv, PageInv, TargetsRegistered, InSlot
    <3>2. [Next]_vars
      BY DEF Next
    <3> QED
      BY <1>1, <3>1, <3>2, PoolKept DEF Young
  <2> QED
    BY <2>1
<1>5. CASE \E b \in Slots, o \in Objects : Unreferenced(o) /\ FrameAllocates(t, b, o)
  <2>1. PICK b \in Slots, o \in Objects : Unreferenced(o) /\ FrameAllocates(t, b, o)
    BY <1>5
  <2> DEFINE m == BufferAllocationMsg(poolID[t], b, o)
  <2>2. /\ object' = [object EXCEPT ![t][b] = o] /\ UNCHANGED <<webUp, poolID>>
        /\ toHost' = [toHost EXCEPT ![w] = Append(@, m)]
        /\ webUp[w] /\ object[t][b] = None
    BY <2>1 DEF FrameAllocates, CanRender, Callable, InEventLoop, SendToHost
  <2>3. m \in HostMessage /\ m.code = "BufferAllocation" /\ m.object = o /\ m.bufferID = b
    BY <1>1, MessageTypes DEF BufferAllocationMsg
  <2> HIDE DEF m
  <2>4. /\ \A s \in Targets, a \in Slots : ~InSlot(s, a, o)
        /\ \A u \in Processes : \A i \in 1 .. Len(toHost[u]) : ~Brings(u, i, o)
        /\ hostBuffer[o] = None
        /\ \A v \in Views : ~HeldBy(v, o)
    BY <2>1 DEF Unreferenced, InTransit, InSlot, Brings
  <2>5. ASSUME NEW s \in Targets, NEW a \in Slots, NEW x \in Objects, InSlot(s, a, x)'
        PROVE  IF x = o THEN s = t /\ a = b ELSE InSlot(s, a, x)
    <3>1. webUp[ProcessOf[s]] /\ object'[s][a] = x
      BY <2>2, <2>5 DEF InSlot
    <3>2. CASE s = t /\ a = b
      BY <1>1, <2>2, <3>1, <3>2
    <3>3. CASE ~(s = t /\ a = b)
      <4>1. object'[s][a] = object[s][a]
        BY <1>1, <2>2, <3>3
      <4> QED
        BY <2>4, <3>1, <4>1 DEF InSlot
    <3> QED
      BY <3>2, <3>3
  <2>6. ASSUME NEW u \in Processes, NEW j \in 1 .. Len(toHost'[u]), NEW x \in Objects, Brings(u, j, x)'
        PROVE  \/ x # o /\ j \in 1 .. Len(toHost[u]) /\ toHost'[u][j] = toHost[u][j] /\ Brings(u, j, x)
               \/ x = o /\ u = w /\ toHost'[u][j].bufferID = b
    <3>1. \/ j \in 1 .. Len(toHost[u]) /\ toHost'[u][j] = toHost[u][j]
          \/ u = w /\ toHost'[u][j] = m
      BY <1>1, <2>2, <2>3, SentElements
    <3>2. toHost'[u][j].code = "BufferAllocation" /\ toHost'[u][j].object = x
      BY <2>6 DEF Brings
    <3> QED
      BY <2>3, <2>4, <3>1, <3>2 DEF Brings
  <2>7. ASSUME NEW s \in Targets, NEW a \in Slots, NEW x \in Objects, InSlot(s, a, x)'
        PROVE  /\ \A r \in Targets, c \in Slots : InSlot(r, c, x)' => r = s /\ c = a
               /\ \A u \in Processes : \A i \in 1 .. Len(toHost'[u]) :
                    Brings(u, i, x)' => u = ProcessOf[s] /\ toHost'[u][i].bufferID = a
               /\ hostBuffer'[x] # None => hostBuffer'[x].poolID = poolID'[s] /\ hostBuffer'[x].bufferID = a
               /\ \A v \in Views : HeldBy(v, x)' => v = ViewOf[s]
    <3>1. CASE x = o
      <4>1. s = t /\ a = b
        BY <2>5, <2>7, <3>1
      <4>2. \A r \in Targets, c \in Slots : InSlot(r, c, x)' => r = t /\ c = b
        BY <2>5, <3>1
      <4>3. \A u \in Processes : \A i \in 1 .. Len(toHost'[u]) :
              Brings(u, i, x)' => u = w /\ toHost'[u][i].bufferID = b
        BY <2>6, <3>1
      <4> QED
        BY <1>2, <1>3, <2>4, <3>1, <4>1, <4>2, <4>3
    <3>2. CASE x # o
      <4>1. InSlot(s, a, x)
        BY <2>5, <2>7, <3>2
      <4>2. \A r \in Targets, c \in Slots : InSlot(r, c, x)' => r = s /\ c = a
        <5>1. \A r \in Targets, c \in Slots : InSlot(r, c, x)' => InSlot(r, c, x)
          BY <2>5, <3>2
        <5> QED
          BY <1>1, <4>1, <5>1 DEF HandlesPlaced, InSlot
      <4>3. \A u \in Processes : \A i \in 1 .. Len(toHost'[u]) :
              Brings(u, i, x)' => u = ProcessOf[s] /\ toHost'[u][i].bufferID = a
        <5>1. ASSUME NEW u \in Processes, NEW i \in 1 .. Len(toHost'[u]), Brings(u, i, x)'
              PROVE  u = ProcessOf[s] /\ toHost'[u][i].bufferID = a
          <6>1. i \in 1 .. Len(toHost[u]) /\ toHost'[u][i] = toHost[u][i] /\ Brings(u, i, x)
            BY <2>6, <3>2, <5>1
          <6> QED
            BY <1>1, <4>1, <6>1 DEF HandlesPlaced
        <5> QED
          BY <5>1
      <4> QED
        BY <1>1, <1>2, <1>3, <2>2, <4>1, <4>2, <4>3 DEF HandlesPlaced
    <3> QED
      BY <3>1, <3>2
  <2>8. ASSUME NEW u \in Processes, NEW j \in 1 .. Len(toHost'[u]), NEW x \in Objects, Brings(u, j, x)',
               NEW v \in Views
        PROVE  ~HeldBy(v, x)'
    <3>1. \/ u = w /\ x = o
          \/ j \in 1 .. Len(toHost[u]) /\ Brings(u, j, x)
      BY ONLY <2>6, <2>8
    <3>2. ~HeldBy(v, x)
      <4>1. CASE x = o
        BY ONLY <2>4, <2>8, <4>1
      <4>2. CASE x # o
        BY ONLY <1>1, <2>8, <3>1, <4>2 DEF HandlesPlaced
      <4> QED
        BY <4>1, <4>2
    <3> QED
      BY <1>3, <2>8, <3>2
  <2> QED
    BY <2>7, <2>8 DEF HandlesPlaced
<1>6. CASE ~\E b \in Slots, o \in Objects : Unreferenced(o) /\ FrameAllocates(t, b, o)
  <2>1. \A s \in Targets, b \in Slots, o \in Objects : InSlot(s, b, o)' => InSlot(s, b, o)
    <3>0. /\ \A s \in Targets : ProcessOf[s] \in Processes
          /\ None \notin Objects
      BY IpcAssumption
    <3>1. \A u \in Processes : webUp'[u] => webUp[u]
      BY <1>1, <1>6 DEF TargetStep, CreateTarget, Initialize, ReceiveReply, Resize, FrameAborts, CloseWeb,
         FrameReuses, FrameFailsToAllocate, FrameRendered, Deinitialize, DestroyTarget, ipcVars
    <3>2. \A s \in Targets, b \in Slots : object'[s][b] = None \/ object'[s][b] = object[s][b]
      <4>1. UNCHANGED object \/ DestroyBufferPool(t)
        BY <1>6 DEF TargetStep, CreateTarget, Initialize, ReceiveReply, Resize, FrameAborts,
         FrameReuses, FrameFailsToAllocate, FrameRendered, Deinitialize, DestroyTarget, webVars
      <4> QED
        BY <1>1, <4>1 DEF DestroyBufferPool
    <3> QED
      BY ONLY <3>0, <3>1, <3>2 DEF InSlot
  <2>2. ASSUME NEW u \in Processes, NEW j \in 1 .. Len(toHost'[u]), toHost'[u][j].code = "BufferAllocation"
        PROVE  \E i \in 1 .. Len(toHost[u]) : toHost[u][i] = toHost'[u][j]
    <3>1. UNCHANGED toHost \/ \E m \in HostMessage : m.code # "BufferAllocation" /\ SendToHost(w, m)
      <4>1. PoolConstructionMsg \in HostMessage /\ PoolConstructionMsg.code # "BufferAllocation"
        BY MessageTypes DEF PoolConstructionMsg
      <4>2. \A p \in PoolIDs : PoolPurgeMsg(p) \in HostMessage /\ PoolPurgeMsg(p).code # "BufferAllocation"
        BY MessageTypes DEF PoolPurgeMsg
      <4>3. \A p \in PoolIDs, b \in Slots :
              BufferCommitMsg(p, b) \in HostMessage /\ BufferCommitMsg(p, b).code # "BufferAllocation"
        BY MessageTypes DEF BufferCommitMsg
      <4>4. CASE Initialize(t)
        BY <4>1, <4>4 DEF Initialize
      <4>5. CASE Resize(t)
        BY <1>1, <4>2, <4>5 DEF Resize
      <4>6. CASE FrameRendered(t)
        <5>1. current[t] \in Slots /\ poolID[t] \in PoolIDs
          BY <1>1, <4>6 DEF FrameRendered
        <5> QED
          BY <4>3, <4>6, <5>1 DEF FrameRendered
      <4> QED
        BY <1>6, <4>4, <4>5, <4>6 DEF TargetStep, CreateTarget, ReceiveReply, FrameAborts,
         FrameReuses, FrameFailsToAllocate, Deinitialize, DestroyTarget, ipcVars
    <3>2. CASE \E m \in HostMessage : m.code # "BufferAllocation" /\ SendToHost(w, m)
      <4>1. PICK m \in HostMessage : m.code # "BufferAllocation" /\ SendToHost(w, m)
        BY <3>2
      <4>2. j \in 1 .. Len(toHost[u]) /\ toHost'[u][j] = toHost[u][j]
        BY <1>1, <2>2, <4>1, SentElements DEF SendToHost
      <4> QED
        BY <4>2
    <3> QED
      BY <3>1, <3>2
  <2>3. \A s \in Targets, b \in Slots, o \in Objects : InSlot(s, b, o) =>
          /\ hostBuffer'[o] # None => hostBuffer'[o].poolID = poolID'[s] /\ hostBuffer'[o].bufferID = b
          /\ \A v \in Views : HeldBy(v, o)' => v = ViewOf[s]
    BY <1>1, <1>2, <1>3, <1>4 DEF HandlesPlaced
  <2>4. \A u \in Processes : \A i \in 1 .. Len(toHost[u]) : \A o \in Objects :
          Brings(u, i, o) => \A v \in Views : ~HeldBy(v, o)'
    BY <1>1, <1>3 DEF HandlesPlaced
  <2> QED
    BY <1>1, <2>1, <2>2, <2>3, <2>4, HandlesFrame
<1> QED
  BY <1>5, <1>6

(* A proxy makes the Buffer of a slot, and a commit hands it to the view   *)
(* of the target.                                                          *)
LEMMA ProxyHandles ==
  ASSUME OneTargetPerProcess, HandleInv, NEW w \in Processes, ProxyStep(w), HostFrame
  PROVE  HandlesPlaced'
<1> DEFINE m == Head(toHost[w])
<1>1. /\ TypeOK /\ HeapInv /\ HandlesPlaced /\ Handshake /\ PoolsOwned /\ None \notin Objects
      /\ toHost \in [Processes -> Seq(HostMessage)]
      /\ viewBackendMap \in [PoolIDs -> Views \cup {None}]
      /\ TransitFresh
  BY IpcAssumption DEF HandleInv, PageInv, MapInv, HeapInv, TypeOK, IpcTypeOK, HostTypeOK
<1>2. /\ UNCHANGED <<object, poolID, webUp>>
      /\ toHost[w] # <<>> /\ toHost' = Received(toHost, w)
      /\ held' = held \/ CommitToView(w)
  BY DEF HostFrame, webVars, ProxyStep, ConstructPool, PurgePool, BufferAllocation, CommitToView,
     CommitWithoutView, Reads, Done, appVars
<1>3. \A t \in Targets, b \in Slots, o \in Objects : InSlot(t, b, o)' => InSlot(t, b, o)
  BY <1>2 DEF InSlot
<1>4. m = toHost[w][1] /\ 1 \in 1 .. Len(toHost[w])
  BY <1>1, <1>2, HeadTailProperties, LenProperties
<1>5. ASSUME NEW u \in Processes, NEW j \in 1 .. Len(toHost'[u]), toHost'[u][j].code = "BufferAllocation"
      PROVE  \E i \in 1 .. Len(toHost[u]) : toHost[u][i] = toHost'[u][j]
  <2> DEFINE i == IF u = w THEN j + 1 ELSE j
  <2>1. i \in 1 .. Len(toHost[u]) /\ toHost'[u][j] = toHost[u][i]
    BY <1>1, <1>2, ReceivedElements
  <2> QED
    BY <2>1
<1>6. ASSUME NEW t \in Targets, NEW b \in Slots, NEW o \in Objects, InSlot(t, b, o)
      PROVE  ~Young(t) /\ OnlyPool(ProcessOf[t], poolID[t]) /\ Owns(t, poolID[t])
             /\ toHost[ProcessOf[t]] \in Seq(OwnHostMessage(poolID[t]))
  <2>1. phase[t] = "ready"
    BY <1>1, <1>6 DEF HandleInv, PageInv, TargetsRegistered, InSlot
  <2>2. ~Young(t)
    BY <2>1 DEF Young
  <2> QED
    BY <1>1, <2>2, HandshakeOf DEF Owns
<1>7. ASSUME NEW t \in Targets, NEW b \in Slots, NEW o \in Objects, InSlot(t, b, o), hostBuffer'[o] # None
      PROVE  hostBuffer'[o].poolID = poolID'[t] /\ hostBuffer'[o].bufferID = b
  <2>1. CASE /\ hostBuffer[o] # None
             /\ hostBuffer'[o].poolID = hostBuffer[o].poolID /\ hostBuffer'[o].bufferID = hostBuffer[o].bufferID
    BY <1>1, <1>2, <1>7, <2>1 DEF HandlesPlaced
  <2>2. CASE /\ m.code = "BufferAllocation" /\ o = m.object
             /\ hostBuffer'[o].poolID = m.poolID /\ hostBuffer'[o].bufferID = m.bufferID
    <3>1. Brings(w, 1, o)
      BY <1>4, <2>2 DEF Brings
    <3>2. w = ProcessOf[t] /\ m.bufferID = b
      BY <1>1, <1>4, <1>7, <3>1 DEF HandlesPlaced
    <3>3. m \in OwnHostMessage(poolID[t])
      BY <1>2, <1>6, <1>7, <3>2, QueueType
    <3> QED
      BY <1>2, <2>2, <3>2, <3>3 DEF OwnHostMessage
  <2> QED
    BY <1>1, <1>7, <2>1, <2>2, ProxyBuffers
<1>8. CASE held' = held
  <2>1. \A v \in Views, o \in Objects : HeldBy(v, o)' <=> HeldBy(v, o)
    BY <1>8 DEF HeldBy
  <2>2. \A t \in Targets, b \in Slots, o \in Objects : InSlot(t, b, o) =>
          /\ hostBuffer'[o] # None => hostBuffer'[o].poolID = poolID'[t] /\ hostBuffer'[o].bufferID = b
          /\ \A v \in Views : HeldBy(v, o)' => v = ViewOf[t]
    BY <1>1, <1>7, <2>1 DEF HandlesPlaced
  <2>3. \A u \in Processes : \A i \in 1 .. Len(toHost[u]) : \A o \in Objects :
          Brings(u, i, o) => \A v \in Views : ~HeldBy(v, o)'
    BY <1>1, <2>1 DEF HandlesPlaced
  <2> QED
    BY <1>1, <1>3, <1>5, <2>2, <2>3, HandlesFrame
<1>9. CASE CommitToView(w)
  <2>0. PICK p, x, y : p = m.poolID /\ x = poolBuffers[p][m.bufferID] /\ y = viewBackendMap[p]
    OBVIOUS
  <2>1. /\ p \in PoolIDs /\ x \in Objects /\ y \in Views
        /\ viewBackendMap[p] = y /\ hostBuffer[x] # None /\ hostBuffer[x].poolID = p
        /\ \A u \in Views : \A o \in Objects : HeldBy(u, o)' <=> HeldBy(u, o) \/ (u = y /\ o = x)
    BY ONLY <1>1, <1>9, <2>0, w \in Processes, HeldAfterCommit
  <2>2. ASSUME NEW t \in Targets, NEW b \in Slots, NEW o \in Objects, InSlot(t, b, o),
               NEW v \in Views, HeldBy(v, o)'
        PROVE  v = ViewOf[t]
    <3>1. CASE HeldBy(v, o)
      BY <1>1, <2>2, <3>1 DEF HandlesPlaced
    <3>2. CASE v = y /\ o = x
      <4>1. Owns(t, p)
        BY <1>1, <1>6, <2>1, <2>2, <3>2 DEF HandlesPlaced
      <4>2. OwnedOf(y, p)
        BY <1>1, <2>1 DEF PoolsOwned
      <4>3. PICK s \in Targets : ViewOf[s] = y /\ Owns(s, p)
        BY <4>2 DEF OwnedOf
      <4>4. s = t
        BY ONLY OneTargetPerProcess, <1>1, <2>1, <4>1, <4>3, t \in Targets, OwnersClient
      <4> QED
        BY <3>2, <4>3, <4>4
    <3> QED
      BY <2>1, <2>2, <3>1, <3>2
  <2>3. ASSUME NEW u \in Processes, NEW i \in 1 .. Len(toHost[u]), NEW o \in Objects, Brings(u, i, o),
               NEW v \in Views
        PROVE  ~HeldBy(v, o)'
    <3>1. hostBuffer[o] = None /\ ~HeldBy(v, o)
      BY <1>1, <2>3 DEF TransitFresh, Brings, HandlesPlaced
    <3> QED
      BY <2>1, <3>1
  <2> QED
    BY <1>1, <1>3, <1>5, <1>7, <2>2, <2>3, HandlesFrame
<1> QED
  BY <1>2, <1>8, <1>9

(* Every step keeps the handles in place.                                  *)
LEMMA HandleStep ==
  ASSUME OneTargetPerProcess, PoolInv, UpAttached, HandleInv, [Next]_vars
  PROVE  HandleInv'
<1>1. PageInv'
  BY PageStep DEF HandleInv
<1>2. /\ TypeOK /\ HeapInv /\ HandlesPlaced /\ None \notin Objects /\ None \notin Views
      /\ toHost \in [Processes -> Seq(HostMessage)] /\ webUp \in [Processes -> BOOLEAN]
      /\ held \in [Views -> Seq(Objects)]
      /\ TargetsRegistered
  BY IpcAssumption DEF HandleInv, PageInv, MapInv, HeapInv, TypeOK, IpcTypeOK, HostTypeOK
<1>3. CASE \E t \in Targets : TargetStep(t) /\ WebFrame
  BY <1>1, <1>3, TargetHandles DEF HandleInv
<1>4. CASE \E w \in Processes : ProxyStep(w) /\ HostFrame
  BY <1>1, <1>4, ProxyHandles DEF HandleInv
<1>5. ASSUME UNCHANGED <<toHost, object, poolID>>,
             \A t \in Targets, b \in Slots, o \in Objects : InSlot(t, b, o)' => InSlot(t, b, o),
             \A v \in Views, o \in Objects : HeldBy(v, o)' => HeldBy(v, o),
             \A o \in Objects : hostBuffer'[o] # None =>
               /\ hostBuffer[o] # None
               /\ hostBuffer'[o].poolID = hostBuffer[o].poolID
               /\ hostBuffer'[o].bufferID = hostBuffer[o].bufferID
      PROVE  HandleInv'
  <2>1. \A t \in Targets, b \in Slots, o \in Objects : InSlot(t, b, o) =>
          /\ hostBuffer'[o] # None => hostBuffer'[o].poolID = poolID'[t] /\ hostBuffer'[o].bufferID = b
          /\ \A v \in Views : HeldBy(v, o)' => v = ViewOf[t]
    BY <1>2, <1>5 DEF HandlesPlaced
  <2>2. \A u \in Processes : \A i \in 1 .. Len(toHost[u]) : \A o \in Objects :
          Brings(u, i, o) => \A v \in Views : ~HeldBy(v, o)'
    BY <1>2, <1>5 DEF HandlesPlaced
  <2>3. HandlesPlaced'
    BY <1>2, <1>5, <2>1, <2>2, HandlesFrame
  <2> QED
    BY <1>1, <2>3 DEF HandleInv
<1>6. CASE \E w \in Processes : (HandleWebMessage(w) \/ WebExits(w)) /\ WebFrame
  <2>1. UNCHANGED <<toHost, object, poolID, held, hostBuffer>> /\ \A u \in Processes : webUp'[u] => webUp[u]
    BY <1>2, <1>6 DEF HandleWebMessage, WebExits, CloseWeb, WebFrame, webVars, hostVars, appVars
  <2> QED
    BY <1>5, <2>1, IpcAssumption DEF InSlot, HeldBy
<1>7. CASE \E w \in Processes : CreateClient(w) /\ HostFrame
  <2>1. PICK w \in Processes : CreateClient(w) /\ HostFrame
    BY <1>7
  <2>2. /\ ~Attached(w) /\ webUp' = [webUp EXCEPT ![w] = TRUE]
        /\ UNCHANGED <<toHost, object, poolID, held, hostBuffer>>
    BY <2>1 DEF CreateClient, OpenWeb, Attach, HostFrame, webVars, hostVars, appVars
  <2>3. \A t \in Targets, b \in Slots, o \in Objects : InSlot(t, b, o)' => InSlot(t, b, o)
    <3>1. ASSUME NEW t \in Targets, NEW b \in Slots, NEW o \in Objects, InSlot(t, b, o)'
          PROVE  InSlot(t, b, o)
      <4>1. object[t][b] = o /\ webUp'[ProcessOf[t]]
        BY <2>2, <3>1 DEF InSlot
      <4>2. phase[t] # "none"
        BY <1>2, <4>1 DEF TargetsRegistered
      <4>3. ProcessOf[t] # w /\ ProcessOf[t] \in Processes
        BY <2>2, <4>2, IpcAssumption DEF UpAttached
      <4> QED
        BY <1>2, <2>2, <4>1, <4>3 DEF InSlot
    <3> QED
      BY <3>1
  <2> QED
    BY <1>5, <2>2, <2>3 DEF HeldBy
<1>8. CASE \E v \in Views : ReleaseStep(v) /\ ViewFrame
  <2>1. PICK v \in Views : (\E i \in 1 .. Len(held[v]) : DispatchReleaseBuffer(v, i)) /\ ViewFrame
    BY <1>8 DEF ReleaseStep
  <2>2. PICK i \in 1 .. Len(held[v]) : DispatchReleaseBuffer(v, i)
    BY <2>1
  <2>3. UNCHANGED <<toHost, webUp, object, poolID>>
    BY <2>1, <2>2 DEF DispatchReleaseBuffer, ViewFrame, webVars
  <2>4. ASSUME NEW u \in Views, NEW o \in Objects, HeldBy(u, o)' PROVE HeldBy(u, o)
    <3>1. PICK j \in 1 .. Len(held'[u]) : held'[u][j] = o
      BY <2>4 DEF HeldBy
    <3>2. \E k \in 1 .. Len(held[u]) : held[u][k] = held'[u][j]
      BY <1>2, <2>2, HeldBefore
    <3> QED
      BY <3>1, <3>2 DEF HeldBy
  <2>5. \A o \in Objects : hostBuffer'[o] # None =>
          /\ hostBuffer[o] # None
          /\ hostBuffer'[o].poolID = hostBuffer[o].poolID
          /\ hostBuffer'[o].bufferID = hostBuffer[o].bufferID
    BY <1>2, <2>2, HeldAfterRelease, ReleasedBuffers
  <2> QED
    BY <1>5, <2>3, <2>4, <2>5 DEF InSlot
<1>9. CASE \/ \E v \in Views : (CreateView(v) \/ HandleViewMessage(v) \/ DestroyView(v) \/ DispatchFrameComplete(v)) /\ ViewFrame
           \/ Poll /\ HostFrame /\ UNCHANGED <<hostVars, appVars>>
           \/ UNCHANGED vars
  <2>1. /\ UNCHANGED <<toHost, webUp, object, poolID, hostBuffer>>
        /\ UNCHANGED held \/ \E v \in Views : held' = [held EXCEPT ![v] = <<>>]
    BY <1>9 DEF CreateView, OpenView, HandleViewMessage, DestroyView, DispatchFrameComplete, FrameComplete,
       Poll, ViewFrame, HostFrame, ipcVars, webVars, hostVars, appVars, vars
  <2>2. ASSUME NEW v \in Views, NEW o \in Objects, HeldBy(v, o)' PROVE HeldBy(v, o)
    <3>1. held'[v] = held[v] \/ held'[v] = <<>>
      BY <1>2, <2>1
    <3> QED
      BY <2>2, <3>1, EmptyQueue DEF HeldBy
  <2> QED
    BY <1>5, <2>1, <2>2 DEF InSlot
<1> QED
  BY <1>3, <1>4, <1>6, <1>7, <1>8, <1>9 DEF Next

(* They are at the start: there are none.                                  *)
LEMMA HandleStart == Init => HandleInv
<1>1. Init => HandlesPlaced
  BY IpcAssumption, EmptyQueue DEF Init, IpcInit, WebInit, HostInit, HandlesPlaced, InSlot, HeldBy, Brings
<1> QED
  BY <1>1, PageStart DEF HandleInv

(* A buffer is in one slot, and its handle, its Buffer and its holder are  *)
(* those of that slot (EGLTarget, bufferAllocation, bufferCommit).         *)
THEOREM HandleInvariant ==
  ASSUME OneTargetPerProcess
  PROVE  Spec => []HandleInv
<1>1. PoolInv /\ LockInv /\ HandleInv /\ [Next]_vars => HandleInv'
  BY HandleStep DEF LockInv
<1> QED
  BY <1>1, HandleStart, Background, PTL DEF Spec

(* An application is given the buffers of its own web view only            *)
(* (bufferCommit, registerPool: the view of a pool is that of its target). *)
THEOREM BuffersGoHome ==
  ASSUME OneTargetPerProcess
  PROVE  Spec => []NoForeignBuffer
<1>1. HandleInv => NoForeignBuffer
  <2> SUFFICES ASSUME HandleInv, NEW v \in Views, NEW t \in Targets, NEW b \in Slots,
                      webUp[ProcessOf[t]], HeldBy(v, object[t][b])
               PROVE  ViewOf[t] = v
    BY DEF NoForeignBuffer
  <2>1. object[t][b] \in Objects
    <3>1. held[v] \in Seq(Objects)
      BY DEF HandleInv, PageInv, MapInv, HeapInv, TypeOK, HostTypeOK
    <3> QED
      BY <3>1, ElementOfSeq DEF HeldBy
  <2> QED
    BY <2>1 DEF HandleInv, HandlesPlaced, InSlot
<1> QED
  BY <1>1, HandleInvariant, PTL
===============================================================================
