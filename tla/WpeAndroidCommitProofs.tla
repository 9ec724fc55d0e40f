------------------------ MODULE WpeAndroidCommitProofs ------------------------
(***************************************************************************)
(* Theorems about WpeAndroid: a commit finds its buffer.  Web processes    *)
(* have one target each, which may be resized.                             *)
(***************************************************************************)
EXTENDS WpeAndroidSteadyProofs

-----------------------------------------------------------------------------
(* Registration of pools.                                                  *)

(* The socket of a view after a step, as far as the registration of a      *)
(* target's pool goes.                                                     *)
LEMMA RegistrationQueue ==
  ASSUME OneTargetPerProcess, HandleInv, [Next]_vars, NEW t \in Targets, ~Young(t)
  PROVE  LET v == ViewOf[t]
         IN  \/ toView'[v] = toView[v]
             \/ toView'[v] = <<>>
             \/ toView[v] # <<>> /\ toView'[v] = Tail(toView[v])
             \/ \E m : m # RegisterPoolMsg(poolID[t]) /\ toView'[v] = Append(toView[v], m)
<1> SUFFICES ASSUME NEW v, v = ViewOf[t], NEW x, x = RegisterPoolMsg(poolID[t])
             PROVE  \/ toView'[v] = toView[v]
                    \/ toView'[v] = <<>>
                    \/ toView[v] # <<>> /\ toView'[v] = Tail(toView[v])
                    \/ \E m : m # x /\ toView'[v] = Append(toView[v], m)
  OBVIOUS
<1>1. /\ TypeOK /\ Handshake /\ toView \in [Views -> Seq(ViewMessage)]
      /\ poolID[t] \in PoolIDs /\ v \in Views
  BY PoolOf DEF HandleInv, PageInv, MapInv, HeapInv, TypeOK, IpcTypeOK
<1>2. CASE \E u \in Targets : TargetStep(u) /\ WebFrame
  <2>1. PICK u \in Targets : TargetStep(u) /\ WebFrame
    BY <1>2
  <2>2. CASE ReceiveReply(u)
    <3>1. Young(u) /\ u # t
      BY <2>2 DEF ReceiveReply, Young
    <3>2. PICK q \in PoolIDs : poolID'[u] = q /\ ~Owned(q)
      BY <2>1, <2>2, <3>1, FreshPool
    <3>3. q # poolID[t]
      BY <1>1, <3>2 DEF Owned, Owns
    <3>4. \/ UNCHANGED toView
          \/ /\ poolID' = [poolID EXCEPT ![u] = Head(toWeb[ProcessOf[u]]).poolID]
             /\ toView' = [toView EXCEPT ![ViewOf[u]] = Append(@, RegisterPoolMsg(Head(toWeb[ProcessOf[u]]).poolID))]
      BY <2>2 DEF ReceiveReply, SendToView
    <3>5. \/ UNCHANGED toView
          \/ toView' = [toView EXCEPT ![ViewOf[u]] = Append(@, RegisterPoolMsg(q))]
      BY <1>1, <3>2, <3>4 DEF TypeOK, WebTypeOK
    <3>6. RegisterPoolMsg(q) # x
      BY <3>3 DEF RegisterPoolMsg
    <3> QED
      BY <1>1, <3>5, <3>6
  <2>3. CASE DestroyTarget(u)
    <3>1. \/ UNCHANGED toView
          \/ toView' = [toView EXCEPT ![ViewOf[u]] = Append(@, UnregisterPoolMsg(poolID[u]))]
      BY <2>3 DEF DestroyTarget, SendToView
    <3>2. UnregisterPoolMsg(poolID[u]) # x
      BY DEF RegisterPoolMsg, UnregisterPoolMsg
    <3> QED
      BY <1>1, <3>1, <3>2
  <2>4. CASE ~ReceiveReply(u) /\ ~DestroyTarget(u)
    <3>1. UNCHANGED toView
      BY <2>1, <2>4 DEF TargetStep, CreateTarget, Initialize, Resize, FrameAborts, FrameReuses,
         FrameFailsToAllocate, FrameAllocates, FrameRendered, Deinitialize, ipcVars
    <3> QED
      BY <3>1
  <2> QED
    BY <2>2, <2>3, <2>4
<1>3. CASE \E u \in Views : HandleViewMessage(u)
  BY <1>1, <1>3 DEF HandleViewMessage, Received
<1>4. CASE \E u \in Views : DestroyView(u)
  BY <1>1, <1>4 DEF DestroyView, CloseView
<1>5. CASE UNCHANGED toView
  BY <1>5
<1> QED
  BY <1>2, <1>3, <1>4, <1>5 DEF Next, HandleWebMessage, WebExits, CreateClient, OpenWeb, ProxyStep, ConstructPool,
     PurgePool, BufferAllocation, CommitToView, CommitWithoutView, CreateView, OpenView, ReleaseStep,
     DispatchReleaseBuffer, DispatchFrameComplete, Poll, ipcVars, vars

(* The pool of a target gets a view when the view reads its registration   *)
(* only.                                                                   *)
LEMMA RegistrationRead ==
  ASSUME OneTargetPerProcess, HandleInv, [Next]_vars, NEW t \in Targets, ~Young(t),
         NEW p, p = poolID[t], viewBackendMap[p] = None, viewBackendMap'[p] # None
  PROVE  /\ toView[ViewOf[t]] # <<>> /\ Head(toView[ViewOf[t]]) = RegisterPoolMsg(p)
         /\ toView'[ViewOf[t]] = Tail(toView[ViewOf[t]])
<1>1. /\ TypeOK /\ Handshake /\ PoolsOwned /\ toView \in [Views -> Seq(ViewMessage)]
      /\ p \in PoolIDs /\ viewBackendMap \in [PoolIDs -> Views \cup {None}]
  BY PoolOf DEF HandleInv, PageInv, MapInv, HeapInv, TypeOK, IpcTypeOK, HostTypeOK
<1>2. PICK v \in Views : HandleViewMessage(v)
  <2>1. viewBackendMap' # viewBackendMap
    OBVIOUS
  <2>2. ~\E v \in Views : DestroyView(v)
    BY <1>1 DEF DestroyView
  <2> QED
    BY <2>1, <2>2 DEF Next, WebFrame, CreateClient, ProxyStep, ConstructPool, PurgePool, BufferAllocation,
       CommitToView, CommitWithoutView, CreateView, ReleaseStep, DispatchReleaseBuffer, ReleaseBuffer,
       DispatchFrameComplete, FrameComplete, Poll, hostVars, vars
<1>3. PICK m : m = Head(toView[v])
  OBVIOUS
<1>4. /\ toView[v] # <<>> /\ toView' = [toView EXCEPT ![v] = Tail(@)]
      /\ m \in ViewMessage /\ OwnedOf(v, m.poolID)
      /\ \/ m.code = "RegisterPool" /\ RegisterPool(v, m.poolID)
         \/ m.code = "UnregisterPool" /\ UnregisterPool(v, m.poolID)
  <2>1. toView[v] # <<>> /\ toView[v] \in Seq({x \in ViewMessage : OwnedOf(v, x.poolID)})
    BY <1>1, <1>2 DEF HandleViewMessage, PoolsOwned
  <2>2. m \in {x \in ViewMessage : OwnedOf(v, x.poolID)}
    BY <1>3, <2>1, QueueType
  <2> QED
    BY <1>2, <1>3, <2>1, <2>2 DEF HandleViewMessage, Received
<1>5. m.code = "RegisterPool" /\ m.poolID = p
  BY <1>1, <1>4 DEF RegisterPool, UnregisterPool
<1>6. m = RegisterPoolMsg(p)
  BY <1>4, <1>5 DEF ViewMessage, RegisterPoolMsg
<1>7. v = ViewOf[t]
  <2>1. PICK u \in Targets : ViewOf[u] = v /\ Owns(u, p)
    BY <1>4, <1>5 DEF OwnedOf
  <2>2. Owns(t, p)
    BY DEF Owns
  <2> QED
    BY <1>1, <2>1, <2>2, OwnersClient
<1> QED
  BY <1>1, <1>3, <1>4, <1>6, <1>7

(* A pool that has lost its view does not get one again.                   *)
LEMMA RegistrationKept ==
  ASSUME OneTargetPerProcess, HandleInv, [Next]_vars, NEW t \in Targets, ~Young(t), RegisteredOnce(t)
  PROVE  /\ RegisteredOnce(t)'
         /\ Registering(t)' => Registering(t)
         /\ Unregistered(t) => Unregistered(t)'
<1>1. /\ TypeOK /\ toView \in [Views -> Seq(ViewMessage)] /\ ViewOf[t] \in Views
      /\ poolID'[t] = poolID[t]
  BY PoolOf, PoolKept DEF HandleInv, PageInv, MapInv, HeapInv, TypeOK, IpcTypeOK
<1>2. PICK v, p, x : v = ViewOf[t] /\ p = poolID[t] /\ x = RegisterPoolMsg(p)
  OBVIOUS
<1>3. PICK s, r : s \in Seq(ViewMessage) /\ s = toView[v] /\ r = toView'[v]
  BY <1>1, <1>2
<1>4. /\ Registering(t) <=> Among(s, {x}, Len(s))
      /\ Registering(t)' <=> Among(r, {x}, Len(r))
      /\ RegisteredOnce(t) <=> /\ Registering(t) => viewBackendMap[p] = None
                               /\ NeverAfter(s, {x}, {x}, Len(s))
      /\ RegisteredOnce(t)' <=> /\ Registering(t)' => viewBackendMap'[p] = None
                                /\ NeverAfter(r, {x}, {x}, Len(r))
  BY <1>1, <1>2, <1>3 DEF Registering, RegisteredOnce, Registrations, Among, NeverAfter
<1>5. /\ Among(r, {x}, Len(r)) => Among(s, {x}, Len(s))
      /\ NeverAfter(r, {x}, {x}, Len(r))
  <2>1. CASE r = <<>>
    BY <2>1, EmptyQueue DEF Among, NeverAfter
  <2>2. CASE r # <<>>
    <3>1. \/ r = s
          \/ s # <<>> /\ r = Tail(s)
          \/ \E m : m # x /\ r = Append(s, m)
      <4>1. x = RegisterPoolMsg(poolID[t])
        BY <1>2
      <4>2. \/ toView'[v] = toView[v]
            \/ toView'[v] = <<>>
            \/ toView[v] # <<>> /\ toView'[v] = Tail(toView[v])
            \/ \E m : m # x /\ toView'[v] = Append(toView[v], m)
        BY <1>2, <4>1, RegistrationQueue
      <4> QED
        BY ONLY <1>3, <2>2, <4>2
    <3>2. NeverAfter(s, {x}, {x}, Len(s))
      BY <1>4
    <3> QED
      BY ONLY <1>3, <3>1, <3>2, ReleasesKept
  <2> QED
    BY <2>1, <2>2
<1>6. viewBackendMap[p] = None /\ viewBackendMap'[p] # None =>
        Among(s, {x}, Len(s)) /\ ~Among(r, {x}, Len(r))
  <2> SUFFICES ASSUME viewBackendMap[p] = None, viewBackendMap'[p] # None
               PROVE  Among(s, {x}, Len(s)) /\ ~Among(r, {x}, Len(r))
    OBVIOUS
  <2>1. s # <<>> /\ Head(s) = x /\ r = Tail(s)
    BY <1>2, <1>3, RegistrationRead
  <2>2. /\ Len(r) \in Nat /\ Len(s) = Len(r) + 1 /\ Len(r) \in 0 .. Len(r)
    BY <1>3, <2>1, ReadLength
  <2>3. Among(s, {x}, Len(r) + 1)
    BY <1>3, <2>1, <2>2, AmongRead
  <2>4. NeverAfter(s, {x}, {x}, Len(r) + 1)
    BY <1>4, <2>2
  <2>5. ~Among(r, {x}, Len(r))
    <3>1. NeverAfter(s, {x}, {x}, Len(r) + 1) <=>
            NeverAfter(r, {x}, {x}, Len(r)) /\ (Head(s) \in {x} => ~Among(r, {x}, Len(r)))
      BY ONLY <1>3, <2>1, <2>2, FollowedRead
    <3> QED
      BY <2>1, <2>4, <3>1
  <2> QED
    BY <2>2, <2>3, <2>5
<1> QED
  BY <1>1, <1>2, <1>4, <1>5, <1>6 DEF Unregistered

-----------------------------------------------------------------------------
(* Slots of the pool and slots of the target.                              *)

(* Steps that leave the messages and the pool of a target alone: a release *)
(* is sent for a buffer the application holds, and unlocks its slot.       *)
LEMMA MirrorFrame ==
  ASSUME NEW t \in Targets, MirrorOf(t), UNCHANGED <<poolID[t], Sent(t)>>,
         RegisteredOnce(t)', Registering(t)' => Registering(t), Unregistered(t) => Unregistered(t)',
         poolBuffers'[poolID[t]] = poolBuffers[poolID[t]],
         \A b \in Slots :
           LET s == toWeb[ProcessOf[t]]
               r == toWeb'[ProcessOf[t]]
               release == {ReleaseBufferMsg(poolID[t], b)}
           IN  Among(r, release, Len(r)) =>
                 \/ Among(s, release, Len(s))
                 \/ \E v \in Views, o \in Objects :
                      /\ HeldBy(v, o) /\ hostBuffer[o] # None /\ ~hostBuffer[o].pendingDelete
                      /\ hostBuffer[o].poolID = poolID[t] /\ hostBuffer[o].bufferID = b,
         \A v \in Views, o \in Objects : HeldBy(v, o)' /\ hostBuffer'[o] # None /\ hostBuffer'[o].poolID = poolID[t] =>
           /\ HeldBy(v, o) /\ hostBuffer[o] # None /\ hostBuffer[o].poolID = poolID[t]
           /\ hostBuffer'[o].bufferID = hostBuffer[o].bufferID
           /\ hostBuffer[o].pendingDelete => hostBuffer'[o].pendingDelete,
         \A b \in Slots, o \in Objects : InSlot(t, b, o)' =>
           LET s == toWeb[ProcessOf[t]]
           IN  /\ InSlot(t, b, o)
               /\ locked'[t][b] = locked[t][b] \/ Among(s, {ReleaseBufferMsg(poolID[t], b)}, Len(s))
  PROVE  MirrorOf(t)'
<1>1. PICK q, s, r : q = Sent(t) /\ q = Sent(t)' /\ s = toWeb[ProcessOf[t]] /\ r = toWeb'[ProcessOf[t]]
  OBVIOUS
<1>2. Unread(t) = Len(q) /\ Unread(t)' = Len(q)
  BY <1>1 DEF Unread
<1>3. PICK p : p = poolID[t] /\ p = poolID'[t]
  OBVIOUS
<1>4. PICK pool : pool = poolBuffers[p] /\ pool = poolBuffers'[p]
  BY <1>3
<1>5. \A b : /\ ReleaseInTransit(ProcessOf[t], poolID[t], b) <=> Among(s, {ReleaseBufferMsg(p, b)}, Len(s))
             /\ ReleaseInTransit(ProcessOf[t], poolID[t], b)' <=> Among(r, {ReleaseBufferMsg(p, b)}, Len(r))
  BY <1>1, <1>3 DEF ReleaseInTransit, Among
<1>6. \A b \in Slots : Among(r, {ReleaseBufferMsg(p, b)}, Len(r)) =>
        \/ Among(s, {ReleaseBufferMsg(p, b)}, Len(s))
        \/ \E v \in Views, o \in Objects :
             /\ HeldBy(v, o) /\ hostBuffer[o] # None /\ ~hostBuffer[o].pendingDelete
             /\ hostBuffer[o].poolID = p /\ hostBuffer[o].bufferID = b
  BY <1>1, <1>3
<1>7. CommitsFilled(t)'
  <2> SUFFICES ASSUME NEW b \in Slots, NEW k \in 1 .. Len(q), q[k] \in Commits(b)
               PROVE  /\ Followed(q, Purges, Allocations(b), k - 1)
                      /\ \/ pool[b] # None \/ Among(q, Allocations(b), k - 1)
                         \/ Unregistered(t)
    BY <1>1, <1>2, <1>3, <1>4 DEF CommitsFilled, Filled, InPool
  <2> QED
    BY <1>1, <1>2, <1>3, <1>4 DEF MirrorOf, CommitsFilled, Filled, InPool
<1>8. SlotsFilled(t)'
  <2> SUFFICES ASSUME NEW b \in Slots, NEW o \in Objects, InSlot(t, b, o)'
               PROVE  /\ Followed(q, Purges, Allocations(b), Len(q))
                      /\ \/ pool[b] # None \/ Among(q, Allocations(b), Len(q))
                         \/ Unregistered(t)
                         \/ Dropped(t, b)'
    BY <1>1, <1>2, <1>3, <1>4 DEF SlotsFilled, Filled, InPool
  <2>0. InSlot(t, b, o)
    OBVIOUS
  <2>1. /\ Followed(q, Purges, Allocations(b), Len(q))
        /\ \/ pool[b] # None \/ Among(q, Allocations(b), Len(q))
           \/ Unregistered(t)
           \/ Dropped(t, b)
    <3>1. SlotsFilled(t)
      BY DEF MirrorOf
    <3> QED
      BY ONLY <1>1, <1>2, <1>3, <1>4, <2>0, <3>1, b \in Slots, o \in Objects DEF SlotsFilled, Filled, InPool
  <2>2. ASSUME Dropped(t, b)
        PROVE  Dropped(t, b)'
    <3>1. /\ locked[t][b] /\ ~Among(s, {ReleaseBufferMsg(p, b)}, Len(s)) /\ ~Among(q, Commits(b), Len(q))
          /\ \A v \in Views, x \in Objects : HeldBy(v, x) /\ hostBuffer[x] # None =>
               hostBuffer[x].pendingDelete \/ hostBuffer[x].poolID # p \/ hostBuffer[x].bufferID # b
      BY <1>1, <1>2, <1>3, <1>5, <2>2 DEF Dropped
    <3>2. locked'[t][b] /\ ~Among(r, {ReleaseBufferMsg(p, b)}, Len(r))
      BY <1>1, <1>3, <1>6, <3>1
    <3>3. \A v \in Views, x \in Objects : HeldBy(v, x)' /\ hostBuffer'[x] # None =>
            hostBuffer'[x].pendingDelete \/ hostBuffer'[x].poolID # p \/ hostBuffer'[x].bufferID # b
      BY <1>3, <3>1
    <3> QED
      BY <1>1, <1>2, <1>3, <1>5, <3>1, <3>2, <3>3 DEF Dropped, HeldBy
  <2> QED
    BY <2>1, <2>2
<1>9. NothingReturns(t)'
  <2> SUFFICES ASSUME Registering(t)
               PROVE  (/\ \A b \in Slots : ~ReleaseInTransit(ProcessOf[t], poolID[t], b)
                       /\ \A v \in Views, o \in Objects :
                            HeldBy(v, o) /\ hostBuffer[o] # None => hostBuffer[o].poolID # poolID[t]
                       /\ \A b \in Slots :
                            /\ \A k \in 1 .. Unread(t) : Sent(t)[k] \in Commits(b) =>
                                 Followed(Sent(t), Commits(b), Refills(b), k - 1)
                            /\ \A o \in Objects : InSlot(t, b, o) /\ ~locked[t][b] =>
                                 Followed(Sent(t), Commits(b), Refills(b), Unread(t)))'
    BY DEF NothingReturns
  <2>1. /\ \A b \in Slots : ~Among(s, {ReleaseBufferMsg(p, b)}, Len(s))
        /\ \A v \in Views, o \in Objects : HeldBy(v, o) /\ hostBuffer[o] # None => hostBuffer[o].poolID # p
        /\ \A b \in Slots :
             /\ \A k \in 1 .. Len(q) : q[k] \in Commits(b) => Followed(q, Commits(b), Refills(b), k - 1)
             /\ \A o \in Objects : InSlot(t, b, o) /\ ~locked[t][b] => Followed(q, Commits(b), Refills(b), Len(q))
    BY <1>1, <1>2, <1>3, <1>5 DEF MirrorOf, NothingReturns
  <2>2. ASSUME NEW b \in Slots
        PROVE  ~Among(r, {ReleaseBufferMsg(p, b)}, Len(r))
    <3>1. ~Among(s, {ReleaseBufferMsg(p, b)}, Len(s))
      BY <2>1
    <3>2. \A v \in Views, o \in Objects : HeldBy(v, o) /\ hostBuffer[o] # None => hostBuffer[o].poolID # p
      BY <2>1
    <3> QED
      BY <1>6, <3>1, <3>2
  <2>3. \A v \in Views, o \in Objects : HeldBy(v, o)' /\ hostBuffer'[o] # None => hostBuffer'[o].poolID # p
    BY <1>3, <2>1
  <2>4. ASSUME NEW b \in Slots, NEW o \in Objects, InSlot(t, b, o)', ~locked'[t][b]
        PROVE  Followed(q, Commits(b), Refills(b), Len(q))
    BY <1>1, <1>3, <2>1, <2>4
  <2>5. (\A b \in Slots : ~ReleaseInTransit(ProcessOf[t], poolID[t], b))'
    BY <1>1, <1>3, <2>2 DEF ReleaseInTransit, Among
  <2>6. (\A v \in Views, o \in Objects :
           HeldBy(v, o) /\ hostBuffer[o] # None => hostBuffer[o].poolID # poolID[t])'
    BY <1>3, <2>3 DEF HeldBy
  <2>7. ASSUME NEW b \in Slots
        PROVE  (/\ \A k \in 1 .. Unread(t) : Sent(t)[k] \in Commits(b) =>
                     Followed(Sent(t), Commits(b), Refills(b), k - 1)
                /\ \A o \in Objects : InSlot(t, b, o) /\ ~locked[t][b] =>
                     Followed(Sent(t), Commits(b), Refills(b), Unread(t)))'
    BY <1>1, <1>2, <2>1, <2>4 DEF InSlot
  <2> QED
    BY <2>5, <2>6, <2>7
<1> QED
  BY <1>7, <1>8, <1>9 DEF MirrorOf

(* A target that is answered has an empty pool that no one was told of.    *)
LEMMA MirrorStart ==
  ASSUME OneTargetPerProcess, HandleInv, NEW t \in Targets, Young(t), ReceiveReply(t), WebFrame
  PROVE  MirrorOf(t)'
<1>1. /\ TypeOK /\ PoolsOwned /\ UNCHANGED <<hostBuffer, viewBackendMap>>
      /\ toView \in [Views -> Seq(ViewMessage)] /\ ViewOf[t] \in Views /\ None \notin Objects
      /\ viewBackendMap \in [PoolIDs -> Views \cup {None}]
      /\ webUp' = webUp
  BY PoolOf DEF HandleInv, PageInv, MapInv, HeapInv, TypeOK, IpcTypeOK, HostTypeOK, WebFrame, hostVars, ReceiveReply
<1>2. PICK q \in PoolIDs :
        /\ poolID'[t] = q /\ ~Owned(q)
        /\ Sent(t)' = <<>> /\ toWeb'[ProcessOf[t]] = <<>>
        /\ \A b \in Slots : object'[t][b] = None
  BY FreshPool
<1>3. Unread(t)' = 0 /\ Len(toWeb'[ProcessOf[t]]) = 0 /\ \A i \in 1 .. 0 : FALSE
  BY <1>2 DEF Unread
<1>4. PICK v, x : v = ViewOf[t] /\ x = RegisterPoolMsg(q)
  OBVIOUS
<1>5. PICK s, r : s \in Seq(ViewMessage) /\ s = toView[v] /\ r = toView'[v]
  BY <1>1, <1>4
<1>6. ~Among(s, {x}, Len(s))
  <2>1. s \in Seq({m \in ViewMessage : OwnedOf(v, m.poolID)})
    BY <1>1, <1>4, <1>5 DEF PoolsOwned
  <2>2. ASSUME NEW j \in 1 .. Len(s), s[j] = x
        PROVE  FALSE
    <3>1. s[j] \in {m \in ViewMessage : OwnedOf(v, m.poolID)}
      BY <2>1, <2>2, ElementOfSeq
    <3>2. OwnedOf(v, q)
      BY <1>4, <2>2, <3>1 DEF RegisterPoolMsg
    <3> QED
      BY <1>2, <3>2 DEF OwnedOf, Owned
  <2> QED
    BY <2>2 DEF Among
<1>7. viewBackendMap[q] = None
  <2>1. \A u \in Views : viewBackendMap[q] # u
    BY <1>1, <1>2 DEF PoolsOwned, OwnedOf, Owned
  <2> QED
    BY <1>1, <2>1
<1>8. NeverAfter(r, {x}, {x}, Len(r))
  <2>1. r = s \/ r = Append(s, x)
    <3>1. \/ UNCHANGED toView
          \/ /\ poolID' = [poolID EXCEPT ![t] = Head(toWeb[ProcessOf[t]]).poolID]
             /\ toView' = [toView EXCEPT ![ViewOf[t]] = Append(@, RegisterPoolMsg(Head(toWeb[ProcessOf[t]]).poolID))]
      BY DEF ReceiveReply, SendToView
    <3>2. poolID \in [Targets -> PoolIDs]
      BY <1>1 DEF TypeOK, WebTypeOK
    <3> QED
      BY <1>1, <1>2, <1>4, <1>5, <3>1, <3>2
  <2>2. NeverAfter(s, {x}, {x}, Len(s))
    BY <1>6 DEF Among, NeverAfter
  <2>3. CASE r = Append(s, x)
    <3>1. NeverAfter(r, {x}, {x}, Len(r)) <=>
            NeverAfter(s, {x}, {x}, Len(s)) /\ (x \in {x} => ~Among(s, {x}, Len(s)))
      BY ONLY <1>5, <2>3, NeverAppended
    <3> QED
      BY <1>6, <2>2, <3>1
  <2> QED
    BY <2>1, <2>2, <2>3
<1>9. RegisteredOnce(t)'
  BY <1>1, <1>2, <1>4, <1>5, <1>7, <1>8 DEF RegisteredOnce, Registrations
<1>10. CommitsFilled(t)'
  BY <1>3 DEF CommitsFilled
<1>11. \A b \in Slots, o \in Objects : ~InSlot(t, b, o)'
  BY <1>1, <1>2 DEF InSlot
<1>12. SlotsFilled(t)'
  BY <1>11 DEF SlotsFilled, InSlot
<1>13. NothingReturns(t)'
  <2>1. \A o \in Objects : hostBuffer[o] # None => hostBuffer[o].poolID # q
    BY <1>1, <1>2 DEF PoolsOwned
  <2> QED
    BY <1>1, <1>2, <1>3, <1>11, <2>1 DEF NothingReturns, ReleaseInTransit, InSlot
<1> QED
  BY <1>9, <1>10, <1>12, <1>13 DEF MirrorOf

(* The target sends m: a commit is of a slot that has its buffer.          *)
LEMMA MirrorSent ==
  ASSUME TypeOK, NEW t \in Targets, MirrorOf(t), UNCHANGED <<poolID, poolBuffers, hostBuffer, held, toWeb>>,
         RegisteredOnce(t)', Registering(t)' => Registering(t), Unregistered(t) => Unregistered(t)',
         NEW m, Sent(t)' = Append(Sent(t), m),
         \A b \in Slots : m \in Commits(b) =>
           /\ m \notin Purges
           /\ Followed(Sent(t), Purges, Allocations(b), Unread(t))
           /\ Filled(t, b, Unread(t)) \/ Unregistered(t)
           /\ Registering(t) => Followed(Sent(t), Commits(b), Refills(b), Unread(t)),
         \A b \in Slots, o \in Objects : InSlot(t, b, o)' =>
           \/ m \in Allocations(b) /\ m \notin Purges /\ m \notin Commits(b)
           \/ InSlot(t, b, o) /\ m \notin Purges /\ m \notin Commits(b) /\ locked'[t][b] = locked[t][b]
           \/ m \in Commits(b) /\ locked'[t][b]
  PROVE  MirrorOf(t)'
<1>1. PICK s, r : /\ s \in Seq(HostMessage) /\ s = Sent(t) /\ r = Sent(t)' /\ r = Append(s, m)
                  /\ Unread(t) = Len(s) /\ Unread(t)' = Len(r)
  BY PoolOf DEF Unread
<1>2. /\ Len(s) \in Nat /\ Len(r) = Len(s) + 1 /\ r[Len(r)] = m
      /\ \A i \in 1 .. Len(s) : r[i] = s[i]
  BY ONLY <1>1, AppendedLength
<1>3. ASSUME NEW M, NEW n \in 0 .. Len(s)
      PROVE  Among(r, M, n) <=> Among(s, M, n)
  BY ONLY <1>1, <1>3, AmongBefore
<1>4. ASSUME NEW F, NEW M, NEW n \in 0 .. Len(s)
      PROVE  Followed(r, F, M, n) <=> Followed(s, F, M, n)
  BY ONLY <1>1, <1>4, AppendedBefore
<1>5. ASSUME NEW M
      PROVE  Among(r, M, Len(r)) <=> m \in M \/ Among(s, M, Len(s))
  BY ONLY <1>1, AmongAppended
<1>6. ASSUME NEW F, NEW M
      PROVE  Followed(r, F, M, Len(r)) <=> m \notin F /\ (m \in M \/ Followed(s, F, M, Len(s)))
  BY ONLY <1>1, FollowedAppended
<1>7. PICK p, pool : p = poolID[t] /\ p = poolID'[t] /\ pool = poolBuffers[p] /\ pool = poolBuffers'[p]
  OBVIOUS
<1>8. ASSUME NEW k \in 1 .. Len(r)
      PROVE  \/ k \in 1 .. Len(s) /\ r[k] = s[k] /\ k - 1 \in 0 .. Len(s)
             \/ k = Len(r) /\ r[k] = m /\ k - 1 = Len(s) /\ k - 1 \in 0 .. Len(s)
  BY <1>2
<1>9. CommitsFilled(t)'
  <2> SUFFICES ASSUME NEW b \in Slots, NEW k \in 1 .. Len(r), r[k] \in Commits(b)
               PROVE  /\ Followed(r, Purges, Allocations(b), k - 1)
                      /\ \/ pool[b] # None \/ Among(r, Allocations(b), k - 1)
                         \/ Unregistered(t)
    BY <1>1, <1>7 DEF CommitsFilled, Filled, InPool
  <2>1. /\ Followed(s, Purges, Allocations(b), k - 1)
        /\ \/ pool[b] # None \/ Among(s, Allocations(b), k - 1)
           \/ Unregistered(t)
    <3>1. CASE k \in 1 .. Len(s) /\ r[k] = s[k]
      BY <1>1, <1>7, <3>1 DEF MirrorOf, CommitsFilled, Filled, InPool
    <3>2. CASE r[k] = m /\ k - 1 = Len(s)
      BY <1>1, <1>7, <3>2 DEF Filled, InPool
    <3> QED
      BY <1>8, <3>1, <3>2
  <2>2. k - 1 \in 0 .. Len(s)
    BY <1>8
  <2> QED
    BY <1>3, <1>4, <2>1, <2>2
<1>10. SlotsFilled(t)'
  <2> SUFFICES ASSUME NEW b \in Slots, NEW o \in Objects, InSlot(t, b, o)'
               PROVE  /\ Followed(r, Purges, Allocations(b), Len(r))
                      /\ \/ pool[b] # None \/ Among(r, Allocations(b), Len(r))
                         \/ Unregistered(t)
                         \/ Dropped(t, b)'
    BY <1>1, <1>7 DEF SlotsFilled, Filled, InPool
  <2>1. CASE m \in Allocations(b) /\ m \notin Purges
    BY <1>5, <1>6, <2>1
  <2>2. CASE InSlot(t, b, o) /\ m \notin Purges /\ m \notin Commits(b) /\ locked'[t][b] = locked[t][b]
    <3>1. /\ Followed(s, Purges, Allocations(b), Len(s))
          /\ \/ pool[b] # None \/ Among(s, Allocations(b), Len(s))
             \/ Unregistered(t)
             \/ Dropped(t, b)
      BY <1>1, <1>7, <2>2 DEF MirrorOf, SlotsFilled, Filled, InPool
    <3>2. ASSUME Dropped(t, b)
          PROVE  Dropped(t, b)'
      <4>1. ~Among(s, Commits(b), Len(s)) /\ locked[t][b]
        BY <1>1, <3>2 DEF Dropped
      <4>2. ~Among(r, Commits(b), Len(r)) /\ locked'[t][b]
        BY <1>5, <2>2, <4>1
      <4>3. (~ReleaseInTransit(ProcessOf[t], poolID[t], b))'
        BY <3>2 DEF Dropped, ReleaseInTransit
      <4>4. (\A v \in Views, x \in Objects : HeldBy(v, x) /\ hostBuffer[x] # None =>
               \/ hostBuffer[x].pendingDelete
               \/ hostBuffer[x].poolID # poolID[t]
               \/ hostBuffer[x].bufferID # b)'
        BY <3>2 DEF Dropped, HeldBy
      <4> QED
        BY <1>1, <4>2, <4>3, <4>4 DEF Dropped
    <3> QED
      BY <1>5, <1>6, <2>2, <3>1, <3>2
  <2>3. CASE m \in Commits(b)
    <3>1. /\ m \notin Purges /\ Followed(s, Purges, Allocations(b), Len(s))
          /\ \/ pool[b] # None \/ Among(s, Allocations(b), Len(s))
             \/ Unregistered(t)
      BY <1>1, <1>7, <2>3 DEF Filled, InPool
    <3> QED
      BY <1>5, <1>6, <3>1
  <2> QED
    BY <2>1, <2>2, <2>3
<1>11. NothingReturns(t)'
  <2> SUFFICES ASSUME Registering(t)
               PROVE  (/\ \A b \in Slots : ~ReleaseInTransit(ProcessOf[t], poolID[t], b)
                       /\ \A v \in Views, o \in Objects :
                            HeldBy(v, o) /\ hostBuffer[o] # None => hostBuffer[o].poolID # poolID[t]
                       /\ \A b \in Slots :
                            /\ \A k \in 1 .. Unread(t) : Sent(t)[k] \in Commits(b) =>
                                 Followed(Sent(t), Commits(b), Refills(b), k - 1)
                            /\ \A o \in Objects : InSlot(t, b, o) /\ ~locked[t][b] =>
                                 Followed(Sent(t), Commits(b), Refills(b), Unread(t)))'
    BY DEF NothingReturns
  <2>1. NothingReturns(t)
    BY DEF MirrorOf
  <2>2. (\A b \in Slots : ~ReleaseInTransit(ProcessOf[t], poolID[t], b))'
    BY <2>1 DEF NothingReturns, ReleaseInTransit
  <2>3. (\A v \in Views, o \in Objects :
           HeldBy(v, o) /\ hostBuffer[o] # None => hostBuffer[o].poolID # poolID[t])'
    BY <2>1 DEF NothingReturns, HeldBy
  <2>4. ASSUME NEW b \in Slots, NEW k \in 1 .. Len(r), r[k] \in Commits(b)
        PROVE  Followed(r, Commits(b), Refills(b), k - 1)
    <3>1. Followed(s, Commits(b), Refills(b), k - 1)
      <4>1. CASE k \in 1 .. Len(s) /\ r[k] = s[k]
        BY <1>1, <2>1, <2>4, <4>1 DEF NothingReturns
      <4>2. CASE r[k] = m /\ k - 1 = Len(s)
        BY <1>1, <2>4, <4>2
      <4> QED
        BY <1>8, <4>1, <4>2
    <3>2. k - 1 \in 0 .. Len(s)
      BY <1>8
    <3> QED
      BY <1>4, <3>1, <3>2
  <2>5. ASSUME NEW b \in Slots, NEW o \in Objects, InSlot(t, b, o)', ~locked'[t][b]
        PROVE  Followed(r, Commits(b), Refills(b), Len(r))
    <3>1. CASE m \in Allocations(b) /\ m \notin Commits(b)
      BY <1>6, <3>1 DEF Refills
    <3>2. CASE InSlot(t, b, o) /\ m \notin Commits(b) /\ locked'[t][b] = locked[t][b]
      <4>1. Followed(s, Commits(b), Refills(b), Len(s))
        BY <1>1, <2>1, <2>5, <3>2 DEF NothingReturns
      <4> QED
        BY <1>6, <3>2, <4>1
    <3> QED
      BY <2>5, <3>1, <3>2
  <2>6. ASSUME NEW b \in Slots
        PROVE  (/\ \A k \in 1 .. Unread(t) : Sent(t)[k] \in Commits(b) =>
                     Followed(Sent(t), Commits(b), Refills(b), k - 1)
                /\ \A o \in Objects : InSlot(t, b, o) /\ ~locked[t][b] =>
                     Followed(Sent(t), Commits(b), Refills(b), Unread(t)))'
    BY <1>1, <2>4, <2>5 DEF InSlot
  <2> QED
    BY <2>2, <2>3, <2>6
<1> QED
  BY <1>9, <1>10, <1>11 DEF MirrorOf

(* The target itself: it commits what it has drawn into, after the         *)
(* allocation it has sent for the slot.                                    *)
LEMMA MirrorTarget ==
  ASSUME OneTargetPerProcess, HandleInv, DrawsUnlocked, NEW t \in Targets, ~Young(t), MirrorOf(t),
         TargetStep(t), WebFrame
  PROVE  MirrorOf(t)'
<1> DEFINE w == ProcessOf[t]
           p == poolID[t]
<1>1. /\ TypeOK /\ w \in Processes /\ p \in PoolIDs
      /\ locked \in [Targets -> [Slots -> BOOLEAN]]
      /\ object \in [Targets -> [Slots -> Objects \cup {None}]]
      /\ webUp \in [Processes -> BOOLEAN]
      /\ toHost \in [Processes -> Seq(HostMessage)]
      /\ toWeb \in [Processes -> Seq(WebMessage)]
      /\ None \notin Objects /\ None \notin Slots
      /\ current[t] \in Slots \cup {None}
  BY PoolOf DEF HandleInv, PageInv, MapInv, HeapInv, TypeOK, IpcTypeOK, WebTypeOK
<1>2. UNCHANGED <<hostBuffer, held, poolBuffers>>
  BY DEF WebFrame, hostVars, appVars
<1>3. /\ RegisteredOnce(t)' /\ (Registering(t)' => Registering(t)) /\ (Unregistered(t) => Unregistered(t)')
  <2>1. [Next]_vars
    BY DEF Next
  <2> QED
    BY <2>1, RegistrationKept DEF MirrorOf
<1>4. ASSUME NEW m, SendToHost(w, m)
      PROVE  Sent(t)' = Append(Sent(t), m)
  BY <1>1, <1>4 DEF SendToHost, Sent
<1>5. CASE \E b \in Slots, o \in Objects : FrameAllocates(t, b, o)
  <2>1. PICK b \in Slots, o \in Objects : FrameAllocates(t, b, o)
    BY <1>5
  <2>2. PICK m : m = BufferAllocationMsg(p, b, o)
    OBVIOUS
  <2>3. /\ UNCHANGED <<poolID, locked, webUp, toWeb>> /\ object' = [object EXCEPT ![t][b] = o]
        /\ Sent(t)' = Append(Sent(t), m)
    BY <1>4, <2>1, <2>2 DEF FrameAllocates
  <2>4. m \notin Purges /\ \A c \in Slots : (m \in Allocations(c) <=> c = b) /\ m \notin Commits(c)
    BY <1>1, <2>2, MessageKinds
  <2>5. ASSUME NEW c \in Slots, NEW x \in Objects, InSlot(t, c, x)'
        PROVE  \/ m \in Allocations(c) /\ m \notin Purges /\ m \notin Commits(c)
               \/ InSlot(t, c, x) /\ m \notin Purges /\ m \notin Commits(c) /\ locked'[t][c] = locked[t][c]
    <3>1. c # b => object'[t][c] = object[t][c]
      BY <1>1, <2>3
    <3> QED
      BY <2>3, <2>4, <2>5, <3>1 DEF InSlot
  <2> QED
    BY <1>1, <1>2, <1>3, <2>3, <2>4, <2>5, MirrorSent
<1>6. CASE FrameRendered(t) /\ object[t][current[t]] # None
  <2>1. PICK b \in Slots : b = current[t]
    BY <1>1, <1>6 DEF FrameRendered
  <2>2. PICK m : m = BufferCommitMsg(p, b)
    OBVIOUS
  <2>3. /\ UNCHANGED <<poolID, object, webUp, toWeb>> /\ locked' = [locked EXCEPT ![t][b] = TRUE]
        /\ Sent(t)' = Append(Sent(t), m) /\ object[t][b] # None /\ ~locked[t][b] /\ webUp[w]
    BY <1>4, <1>6, <2>1, <2>2 DEF FrameRendered, InEventLoop, DrawsUnlocked
  <2>4. m \notin Purges /\ \A c \in Slots : m \in Commits(c) <=> c = b
    <3>1. object[t][b] \in Objects
      BY <1>1, <2>3
    <3> QED
      BY <1>1, <2>2, <3>1, MessageKinds
  <2>5. InSlot(t, b, object[t][b]) /\ object[t][b] \in Objects
    BY <1>1, <2>3 DEF InSlot
  <2>6. /\ Followed(Sent(t), Purges, Allocations(b), Unread(t))
        /\ Filled(t, b, Unread(t)) \/ Unregistered(t)
        /\ Registering(t) => Followed(Sent(t), Commits(b), Refills(b), Unread(t))
    BY <2>3, <2>5 DEF MirrorOf, SlotsFilled, Dropped, NothingReturns
  <2>7. ASSUME NEW c \in Slots, NEW x \in Objects, InSlot(t, c, x)'
        PROVE  \/ InSlot(t, c, x) /\ m \notin Purges /\ m \notin Commits(c) /\ locked'[t][c] = locked[t][c]
               \/ m \in Commits(c) /\ locked'[t][c]
    <3>1. IF c = b THEN locked'[t][c] ELSE locked'[t][c] = locked[t][c]
      BY <1>1, <2>3
    <3> QED
      BY <2>3, <2>4, <2>7, <3>1 DEF InSlot
  <2> QED
    BY <1>1, <1>2, <1>3, <2>3, <2>4, <2>6, <2>7, MirrorSent
<1>7. CASE Resize(t)
  <2>1. PICK m : m = PoolPurgeMsg(p)
    OBVIOUS
  <2>2. /\ UNCHANGED <<poolID, toWeb>> /\ object' = [object EXCEPT ![t] = [b \in Slots |-> None]]
        /\ Sent(t)' = Append(Sent(t), m)
    BY <1>4, <1>7, <2>1 DEF Resize, DestroyBufferPool
  <2>3. ASSUME NEW c \in Slots PROVE m \notin Commits(c)
    BY <2>1 DEF PoolPurgeMsg, Commits
  <2>4. \A c \in Slots, x \in Objects : ~InSlot(t, c, x)'
    BY <1>1, <2>2 DEF InSlot
  <2> QED
    BY <1>1, <1>2, <1>3, <2>2, <2>3, <2>4, MirrorSent
<1>8. ASSUME UNCHANGED <<poolID, toHost>>, toWeb'[w] = toWeb[w] \/ toWeb'[w] = <<>>,
             \A b \in Slots, o \in Objects : InSlot(t, b, o)' => InSlot(t, b, o) /\ locked'[t][b] = locked[t][b]
      PROVE  MirrorOf(t)'
  <2>1. PICK s, r : s = toWeb[w] /\ r = toWeb'[w]
    OBVIOUS
  <2>2. UNCHANGED <<poolID[t], Sent(t)>> /\ poolBuffers'[poolID[t]] = poolBuffers[poolID[t]]
    BY <1>2, <1>8 DEF Sent
  <2>3. ASSUME NEW b \in Slots
        PROVE  LET release == {ReleaseBufferMsg(poolID[t], b)}
               IN  Among(r, release, Len(r)) => Among(s, release, Len(s))
    BY <1>8, <2>1, EmptyQueue DEF Among
  <2>4. \A v \in Views, o \in Objects : HeldBy(v, o)' => HeldBy(v, o)
    BY <1>2 DEF HeldBy
  <2> QED
    BY <1>2, <1>3, <1>8, <2>1, <2>2, <2>3, <2>4, MirrorFrame
<1>9. CASE FrameRendered(t) /\ object[t][current[t]] = None
  <2>1. locked' = [locked EXCEPT ![t][current[t]] = TRUE] /\ UNCHANGED <<poolID, toHost, object, toWeb, webUp>>
    BY <1>9 DEF FrameRendered
  <2>2. ASSUME NEW b \in Slots, NEW o \in Objects, InSlot(t, b, o)'
        PROVE  InSlot(t, b, o) /\ locked'[t][b] = locked[t][b]
    <3>1. b # current[t]
      BY <1>1, <1>9, <2>1, <2>2 DEF InSlot
    <3> QED
      BY <1>1, <2>1, <2>2, <3>1 DEF InSlot
  <2> QED
    BY <1>8, <2>1, <2>2
<1>10. CASE Deinitialize(t)
  <2>1. /\ UNCHANGED <<poolID, toHost, toWeb>> /\ object' = [object EXCEPT ![t] = [b \in Slots |-> None]]
    BY <1>10 DEF Deinitialize, DestroyBufferPool, ipcVars
  <2>2. \A c \in Slots, x \in Objects : ~InSlot(t, c, x)'
    BY <1>1, <2>1 DEF InSlot
  <2> QED
    BY <1>8, <2>1, <2>2
<1>11. CASE FrameAborts(t)
  <2>1. /\ UNCHANGED <<poolID, toHost, locked, object>> /\ toWeb'[w] = <<>> /\ ~webUp'[w]
    BY <1>1, <1>11 DEF FrameAborts, CloseWeb, webVars
  <2> QED
    BY <1>8, <2>1 DEF InSlot
<1>12. CASE DestroyTarget(t) \/ \E b \in Slots : FrameReuses(t, b) \/ FrameFailsToAllocate(t, b)
  <2>1. UNCHANGED <<poolID, toHost, locked, object, toWeb, webUp>>
    BY <1>12 DEF DestroyTarget, FrameReuses, FrameFailsToAllocate, ipcVars
  <2> QED
    BY <1>8, <2>1 DEF InSlot
<1> QED
  BY <1>5, <1>6, <1>7, <1>9, <1>10, <1>11, <1>12 DEF TargetStep, CreateTarget, Initialize, ReceiveReply, Young

(* What the proxy of a target makes of the slots of its pool.              *)
LEMMA PoolRead ==
  ASSUME OneTargetPerProcess, HandleInv, NEW t \in Targets, ~Young(t), ProxyStep(ProcessOf[t]), HostFrame,
         NEW p, p = poolID[t], NEW h, h = Head(Sent(t))
  PROVE  /\ UNCHANGED <<webVars, webUp, toWeb, toView, viewBackendMap>>
         /\ Sent(t) # <<>> /\ Sent(t)' = Tail(Sent(t)) /\ h.poolID = p
         /\ CommitToView(ProcessOf[t]) => viewBackendMap[p] # None
         /\ CommitToView(ProcessOf[t]) \/ UNCHANGED held
         /\ \A b \in Slots :
              \/ h \in Purges
              \/ h \in Allocations(b) /\ poolBuffers'[p][b] # None
              \/ h \notin Allocations(b) /\ poolBuffers'[p][b] = poolBuffers[p][b]
              \/ h \in Commits(b) /\ viewBackendMap[p] = None /\ CommitWithoutView(ProcessOf[t])
<1> DEFINE w == ProcessOf[t]
<1>1. /\ TypeOK /\ HeapInv /\ Handshake /\ w \in Processes /\ p \in PoolIDs
      /\ toHost \in [Processes -> Seq(HostMessage)] /\ None \notin Objects
      /\ poolBuffers \in [PoolIDs -> [Slots -> Objects \cup {None}]]
  BY PoolOf DEF HandleInv, PageInv, MapInv, HeapInv, TypeOK, IpcTypeOK, HostTypeOK
<1>2. h = Head(toHost[w])
  BY DEF Sent
<1>3. /\ h \in HostMessage /\ toHost[w] # <<>>
      /\ toHost' = [toHost EXCEPT ![w] = Tail(toHost[w])]
      /\ PurgePool(w) => h \in Purges
      /\ BufferAllocation(w) => h \in Allocations(h.bufferID) \cap Carrying(h.object)
      /\ CommitToView(w) \/ CommitWithoutView(w) => h \in Commits(h.bufferID)
      /\ BufferAllocation(w) => h.bufferID \in Slots /\ h.object \in Objects
      /\ CommitToView(w) \/ CommitWithoutView(w) => h.bufferID \in Slots
  BY <1>1, <1>2, ProxyMessage
<1>4. h.poolID = p /\ ~ConstructPool(w)
  <2>1. h \in OwnHostMessage(p)
    BY <1>1, <1>2, <1>3, HandshakeOf, QueueType
  <2> QED
    BY <1>2, <2>1 DEF OwnHostMessage, ConstructPool, Reads
<1>5. UNCHANGED <<webVars, webUp, toWeb, toView, viewBackendMap>>
  BY <1>4 DEF HostFrame, ProxyStep, PurgePool, BufferAllocation, CommitToView, CommitWithoutView
<1>6. Sent(t) # <<>> /\ Sent(t)' = Tail(Sent(t))
  BY <1>1, <1>3 DEF Sent
<1>7. CommitToView(w) => viewBackendMap[p] # None
  BY <1>2, <1>4 DEF CommitToView, FindViewBackend
<1>8. CommitToView(w) \/ UNCHANGED held
  BY <1>4 DEF ProxyStep, PurgePool, BufferAllocation, CommitWithoutView, appVars
<1>9. ASSUME NEW b \in Slots
      PROVE  \/ h \in Purges
             \/ h \in Allocations(b) /\ poolBuffers'[p][b] # None
             \/ h \notin Allocations(b) /\ poolBuffers'[p][b] = poolBuffers[p][b]
             \/ h \in Commits(b) /\ viewBackendMap[p] = None /\ CommitWithoutView(w)
  <2>1. CASE PurgePool(w)
    BY <1>3, <2>1
  <2>2. CASE BufferAllocation(w)
    <3>1. poolBuffers' = [poolBuffers EXCEPT ![p][h.bufferID] = h.object]
      BY <1>2, <1>4, <2>2 DEF BufferAllocation
    <3>2. h \in Allocations(h.bufferID) /\ h.bufferID \in Slots /\ h.object # None
      BY <1>1, <1>3, <2>2
    <3>3. h \in Allocations(b) <=> h.bufferID = b
      BY <3>2 DEF Allocations
    <3> QED
      BY <1>1, <3>1, <3>2, <3>3
  <2>3. CASE CommitToView(w)
    <3>1. h \notin Allocations(b)
      BY <1>3, <2>3 DEF Commits, Allocations
    <3> QED
      BY <2>3, <3>1 DEF CommitToView
  <2>4. CASE CommitWithoutView(w)
    <3>1. poolBuffers' = [poolBuffers EXCEPT ![p][h.bufferID] = None] /\ viewBackendMap[p] = None
      BY <1>2, <1>4, <2>4 DEF CommitWithoutView, FindViewBackend
    <3>2. h \in Commits(h.bufferID) /\ h.bufferID \in Slots /\ h \notin Allocations(b)
      BY <1>3, <2>4 DEF Commits, Allocations
    <3> QED
      BY <1>1, <2>4, <3>1, <3>2
  <2> QED
    BY <1>4, <2>1, <2>2, <2>3, <2>4 DEF ProxyStep
<1> QED
  BY <1>4, <1>5, <1>6, <1>7, <1>8, <1>9

(* A buffer with an application after a proxy's step is one of before, or  *)
(* the one the proxy has given to it.                                      *)
LEMMA HeldRead ==
  ASSUME HandleInv, NEW w \in Processes, ProxyStep(w),
         NEW v \in Views, NEW o \in Objects, HeldBy(v, o)', hostBuffer'[o] # None
  PROVE  \/ /\ HeldBy(v, o) /\ hostBuffer[o] # None
            /\ hostBuffer'[o].poolID = hostBuffer[o].poolID
            /\ hostBuffer'[o].bufferID = hostBuffer[o].bufferID
            /\ hostBuffer[o].pendingDelete => hostBuffer'[o].pendingDelete
         \/ /\ CommitToView(w)
            /\ hostBuffer'[o].poolID = Head(toHost[w]).poolID
            /\ hostBuffer'[o].bufferID = Head(toHost[w]).bufferID
<1>1. HeapInv /\ TypeOK /\ HandlesPlaced
  BY DEF HandleInv, PageInv, MapInv, HeapInv
<1>2. CASE CommitToView(w)
  <2>1. PICK m, x : m = Head(toHost[w]) /\ x = poolBuffers[m.poolID][m.bufferID]
    OBVIOUS
  <2>2. /\ hostBuffer[x].poolID = m.poolID /\ hostBuffer[x].bufferID = m.bufferID /\ x \in Objects /\ hostBuffer[x] # None
        /\ \A y \in Objects : y # x => hostBuffer'[y] = hostBuffer[y]
        /\ HeldBy(v, o)' => HeldBy(v, o) \/ o = x
    BY <1>1, <1>2, <2>1, HeldAfterCommit
  <2>3. CASE o = x
    <3>1. hostBuffer'[o].poolID = hostBuffer[o].poolID /\ hostBuffer'[o].bufferID = hostBuffer[o].bufferID
      BY <1>1, <1>2, <2>2, <2>3, ProxyBuffers DEF BufferAllocation, CommitToView, Reads
    <3> QED
      BY <1>2, <2>1, <2>2, <2>3, <3>1
  <2> QED
    BY <2>2, <2>3
<1>3. CASE ~CommitToView(w)
  <2>1. HeldBy(v, o)
    BY <1>3 DEF ProxyStep, ConstructPool, PurgePool, BufferAllocation, CommitWithoutView, appVars, HeldBy
  <2>2. CASE hostBuffer[o] # None
    BY <1>1, <2>1, <2>2, ProxyBuffers
  <2>3. CASE hostBuffer[o] = None
    <3>1. BufferAllocation(w) /\ o = Head(toHost[w]).object
      BY <1>1, <2>3, ProxyBuffers
    <3>2. Brings(w, 1, o) /\ 1 \in 1 .. Len(toHost[w])
      <4>1. toHost[w] # <<>> /\ Head(toHost[w]).code = "BufferAllocation" /\ toHost[w] \in Seq(HostMessage)
        BY <1>1, <3>1 DEF BufferAllocation, Reads, TypeOK, IpcTypeOK
      <4> QED
        BY <3>1, <4>1, HeadTailProperties, LenProperties DEF Brings
    <3> QED
      BY <1>1, <2>1, <3>2 DEF HandlesPlaced
  <2> QED
    BY <2>2, <2>3
<1> QED
  BY <1>2, <1>3

(* The proxy of the target reads: a slot of the pool is emptied by a purge *)
(* or by a commit without a view.  If the view is yet to know the pool,    *)
(* what the commit took stays locked in its slot, or was replaced.         *)
LEMMA MirrorReceived ==
  ASSUME OneTargetPerProcess, HandleInv, NEW t \in Targets, ~Young(t), MirrorOf(t),
         ProxyStep(ProcessOf[t]), HostFrame
  PROVE  MirrorOf(t)'
<1>1. /\ TypeOK /\ ProcessOf[t] \in Processes
  BY PoolOf DEF HandleInv, PageInv, MapInv, HeapInv
<1>2. PICK w, p, h : w = ProcessOf[t] /\ p = poolID[t] /\ h = Head(Sent(t))
  OBVIOUS
<1>3. /\ UNCHANGED <<webVars, webUp, toWeb, toView, viewBackendMap>>
      /\ Sent(t) # <<>> /\ Sent(t)' = Tail(Sent(t)) /\ h.poolID = p
      /\ CommitToView(w) => viewBackendMap[p] # None
      /\ CommitToView(w) \/ UNCHANGED held
      /\ \A b \in Slots :
           \/ h \in Purges
           \/ h \in Allocations(b) /\ poolBuffers'[p][b] # None
           \/ h \notin Allocations(b) /\ poolBuffers'[p][b] = poolBuffers[p][b]
           \/ h \in Commits(b) /\ viewBackendMap[p] = None /\ CommitWithoutView(w)
  BY <1>2, PoolRead
<1>4. UNCHANGED <<poolID, locked, object>> /\ poolID'[t] = p
  BY <1>2, <1>3 DEF webVars
<1>5. PICK s, r : s \in Seq(HostMessage) /\ s = Sent(t) /\ r = Sent(t)' /\ r = Tail(s) /\ s # <<>> /\ h = Head(s)
  BY <1>1, <1>2, <1>3, PoolOf
<1>6. /\ Len(r) \in Nat /\ Len(s) = Len(r) + 1 /\ Unread(t) = Len(s) /\ Unread(t)' = Len(r) /\ Len(r) \in 0 .. Len(r)
      /\ \A k \in 1 .. Len(r) : r[k] = s[k + 1] /\ k + 1 \in 1 .. Len(s) /\ k - 1 \in 0 .. Len(r) /\ k = (k - 1) + 1
  BY <1>5, ReadLength DEF Unread
<1>7. ASSUME NEW M, NEW n \in 0 .. Len(r)
      PROVE  Among(s, M, n + 1) <=> h \in M \/ Among(r, M, n)
  BY ONLY <1>5, <1>7, AmongRead
<1>8. ASSUME NEW F, NEW M, NEW n \in 0 .. Len(r)
      PROVE  Followed(s, F, M, n + 1) <=> Followed(r, F, M, n) /\ (h \in F => Among(r, M, n))
  BY ONLY <1>5, <1>8, FollowedRead
<1>9. PICK pool, left : pool = poolBuffers[p] /\ left = poolBuffers'[p]
  OBVIOUS
<1>10. RegisteredOnce(t)' /\ (Registering(t)' <=> Registering(t)) /\ (Unregistered(t) => Unregistered(t)')
  <2>1. [Next]_vars
    BY <1>1 DEF Next
  <2> QED
    BY <1>3, <1>4, <2>1, RegistrationKept DEF MirrorOf, Registering, Registrations
<1>11. Registering(t) \/ Unregistered(t) <=> Registering(t) \/ viewBackendMap[p] = None
  BY <1>2 DEF Unregistered
\* What a commit took out of the pool comes back before the slot is committed again.
<1>12. ASSUME NEW b \in Slots, NEW n \in 0 .. Len(r), h \in Commits(b),
              Followed(s, Commits(b), Refills(b), n + 1), Followed(s, Purges, Allocations(b), n + 1)
       PROVE  Among(r, Allocations(b), n)
  <2>1. Among(r, Refills(b), n) /\ Followed(r, Purges, Allocations(b), n)
    BY <1>8, <1>12
  <2>2. PICK j \in 1 .. n : r[j] \in Purges \/ r[j] \in Allocations(b)
    BY <2>1 DEF Among, Refills
  <2>3. CASE r[j] \in Purges
    <3>1. PICK i \in j + 1 .. n : r[i] \in Allocations(b)
      BY <2>1, <2>3 DEF Followed
    <3>2. i \in 1 .. n
      BY <1>6, <1>12, <3>1
    <3> QED
      BY <3>1, <3>2 DEF Among
  <2> QED
    BY <2>2, <2>3 DEF Among
\* A slot that has a buffer after n + 1 messages has it after the n that remain.
<1>13. ASSUME NEW b \in Slots, NEW n \in 0 .. Len(r),
              Followed(s, Purges, Allocations(b), n + 1),
              pool[b] # None \/ Among(s, Allocations(b), n + 1)
       PROVE  \/ left[b] # None
              \/ Among(r, Allocations(b), n)
              \/ h \in Commits(b) /\ viewBackendMap[p] = None /\ CommitWithoutView(w)
  <2>1. h \in Purges => Among(r, Allocations(b), n)
    BY <1>8, <1>13
  <2>2. pool[b] # None \/ h \in Allocations(b) \/ Among(r, Allocations(b), n)
    BY <1>7, <1>13
  <2> QED
    BY <1>3, <1>9, <2>1, <2>2
<1>14. CommitsFilled(t)'
  <2> SUFFICES ASSUME NEW b \in Slots, NEW k \in 1 .. Len(r), r[k] \in Commits(b)
               PROVE  /\ Followed(r, Purges, Allocations(b), k - 1)
                      /\ \/ left[b] # None \/ Among(r, Allocations(b), k - 1)
                         \/ Unregistered(t)
    BY <1>4, <1>5, <1>6, <1>9, <1>10 DEF CommitsFilled, Filled, InPool
  <2>1. PICK n \in 0 .. Len(r) : n = k - 1 /\ n + 1 = k /\ n + 1 = (k + 1) - 1
    BY <1>6
  <2>2. s[k + 1] \in Commits(b) /\ k + 1 \in 1 .. Unread(t)
    BY <1>6
  <2>3. /\ Followed(s, Purges, Allocations(b), n + 1)
        /\ \/ pool[b] # None \/ Among(s, Allocations(b), n + 1)
           \/ Unregistered(t)
    BY <1>2, <1>5, <1>9, <2>1, <2>2 DEF MirrorOf, CommitsFilled, Filled, InPool
  <2>4. Followed(r, Purges, Allocations(b), n)
    BY <1>8, <2>3
  <2>5. CASE h \in Commits(b) /\ viewBackendMap[p] = None /\ Registering(t)
    <3>1. Followed(s, Commits(b), Refills(b), n + 1)
      BY <1>5, <2>1, <2>2, <2>5 DEF MirrorOf, NothingReturns
    <3> QED
      BY <1>12, <2>1, <2>3, <2>4, <2>5, <3>1
  <2>6. CASE ~(h \in Commits(b) /\ viewBackendMap[p] = None /\ Registering(t))
    BY <1>11, <1>13, <2>1, <2>3, <2>4, <2>6
  <2> QED
    BY <2>5, <2>6
<1>15. ASSUME NEW b \in Slots, h \notin Commits(b) \/ ~CommitToView(w),
              \A v \in Views, o \in Objects : HeldBy(v, o) /\ hostBuffer[o] # None =>
                hostBuffer[o].pendingDelete \/ hostBuffer[o].poolID # p \/ hostBuffer[o].bufferID # b
       PROVE  \A v \in Views, o \in Objects : HeldBy(v, o)' /\ hostBuffer'[o] # None =>
                hostBuffer'[o].pendingDelete \/ hostBuffer'[o].poolID # p \/ hostBuffer'[o].bufferID # b
  <2> SUFFICES ASSUME NEW v \in Views, NEW o \in Objects, HeldBy(v, o)', hostBuffer'[o] # None
               PROVE  hostBuffer'[o].pendingDelete \/ hostBuffer'[o].poolID # p \/ hostBuffer'[o].bufferID # b
    OBVIOUS
  <2>1. \/ /\ HeldBy(v, o) /\ hostBuffer[o] # None
           /\ hostBuffer'[o].poolID = hostBuffer[o].poolID
           /\ hostBuffer'[o].bufferID = hostBuffer[o].bufferID
           /\ hostBuffer[o].pendingDelete => hostBuffer'[o].pendingDelete
        \/ CommitToView(w) /\ hostBuffer'[o].bufferID = h.bufferID
    BY <1>1, <1>2, HeldRead DEF Sent
  <2>2. CommitToView(w) => h \in Commits(h.bufferID)
    BY <1>1, <1>2, ProxyMessage DEF HandleInv, PageInv, MapInv, Sent
  <2>3. h \in Commits(h.bufferID) /\ h.bufferID = b => h \in Commits(b)
    OBVIOUS
  <2> QED
    BY <1>15, <2>1, <2>2, <2>3
<1>16. ASSUME NEW b \in Slots, h \in Commits(b), viewBackendMap[p] = None, Registering(t),
              Followed(s, Purges, Allocations(b), Len(s)), ~Among(r, Allocations(b), Len(r)),
              NEW o \in Objects, InSlot(t, b, o)
       PROVE  Dropped(t, b)'
  <2>1. NothingReturns(t) /\ ~CommitToView(w)
    BY <1>3, <1>16 DEF MirrorOf
  <2>2. locked'[t][b]
    <3>1. ~Followed(s, Commits(b), Refills(b), Len(s))
      BY <1>6, <1>12, <1>16
    <3> QED
      BY <1>4, <1>5, <1>6, <1>16, <2>1, <3>1 DEF NothingReturns
  <2>3. (~ReleaseInTransit(ProcessOf[t], poolID[t], b))'
    BY <1>2, <1>3, <1>4, <1>16, <2>1 DEF NothingReturns, ReleaseInTransit
  <2>4. ~Among(r, Commits(b), Len(r))
    <3> SUFFICES ASSUME NEW k \in 1 .. Len(r), r[k] \in Commits(b)
                 PROVE  FALSE
      BY DEF Among
    <3>1. PICK n \in 0 .. Len(r) : n = k - 1 /\ n + 1 = (k + 1) - 1
      BY <1>6
    <3>2. Followed(s, Commits(b), Refills(b), n + 1)
      BY <1>5, <1>6, <1>16, <2>1, <3>1 DEF NothingReturns
    <3>3. Followed(s, Purges, Allocations(b), n + 1)
      <4>1. CommitsFilled(t) /\ s[k + 1] \in Commits(b) /\ k + 1 \in 1 .. Unread(t)
        BY <1>6 DEF MirrorOf
      <4> QED
        BY <1>5, <3>1, <4>1 DEF CommitsFilled
    <3>4. Among(r, Allocations(b), n)
      BY <1>12, <1>16, <3>2, <3>3
    <3>5. \A j \in 1 .. n : j \in 1 .. Len(r)
      BY <1>6, <3>1
    <3> QED
      BY <1>16, <3>4, <3>5 DEF Among
  <2>5. (\A v \in Views, x \in Objects : HeldBy(v, x) /\ hostBuffer[x] # None =>
           \/ hostBuffer[x].pendingDelete
           \/ hostBuffer[x].poolID # poolID[t]
           \/ hostBuffer[x].bufferID # b)'
    <3>1. \A v \in Views, x \in Objects : HeldBy(v, x) /\ hostBuffer[x] # None => hostBuffer[x].poolID # p
      BY <1>2, <1>16, <2>1 DEF NothingReturns
    <3>2. \A v \in Views, x \in Objects : HeldBy(v, x)' /\ hostBuffer'[x] # None =>
            hostBuffer'[x].pendingDelete \/ hostBuffer'[x].poolID # p \/ hostBuffer'[x].bufferID # b
      BY <1>15, <2>1, <3>1
    <3> QED
      BY <1>4, <3>2 DEF HeldBy
  <2> QED
    BY <1>5, <1>6, <2>2, <2>3, <2>4, <2>5 DEF Dropped
<1>17. ASSUME NEW b \in Slots, Dropped(t, b)
       PROVE  Dropped(t, b)'
  <2>1. /\ locked[t][b] /\ ~ReleaseInTransit(w, p, b) /\ ~Among(s, Commits(b), Len(s))
        /\ \A v \in Views, o \in Objects : HeldBy(v, o) /\ hostBuffer[o] # None =>
             hostBuffer[o].pendingDelete \/ hostBuffer[o].poolID # p \/ hostBuffer[o].bufferID # b
    BY <1>2, <1>5, <1>6, <1>17 DEF Dropped
  <2>2. h \notin Commits(b) /\ ~Among(r, Commits(b), Len(r))
    BY <1>6, <1>7, <2>1
  <2>3. (~ReleaseInTransit(ProcessOf[t], poolID[t], b))'
    BY <1>2, <1>3, <1>4, <2>1 DEF ReleaseInTransit
  <2>4. (\A v \in Views, x \in Objects : HeldBy(v, x) /\ hostBuffer[x] # None =>
           \/ hostBuffer[x].pendingDelete
           \/ hostBuffer[x].poolID # poolID[t]
           \/ hostBuffer[x].bufferID # b)'
    <3>1. \A v \in Views, x \in Objects : HeldBy(v, x)' /\ hostBuffer'[x] # None =>
            hostBuffer'[x].pendingDelete \/ hostBuffer'[x].poolID # p \/ hostBuffer'[x].bufferID # b
      BY <1>15, <2>1, <2>2
    <3> QED
      BY <1>4, <3>1 DEF HeldBy
  <2> QED
    BY <1>4, <1>5, <1>6, <2>1, <2>2, <2>3, <2>4 DEF Dropped
<1>18. SlotsFilled(t)'
  <2> SUFFICES ASSUME NEW b \in Slots, NEW o \in Objects, InSlot(t, b, o)
               PROVE  /\ Followed(r, Purges, Allocations(b), Len(r))
                      /\ \/ left[b] # None \/ Among(r, Allocations(b), Len(r))
                         \/ Unregistered(t)
                         \/ Dropped(t, b)'
    BY <1>3, <1>4, <1>5, <1>6, <1>9, <1>10 DEF SlotsFilled, Filled, InPool, InSlot
  <2>1. /\ Followed(s, Purges, Allocations(b), Len(r) + 1)
        /\ \/ pool[b] # None \/ Among(s, Allocations(b), Len(r) + 1)
           \/ Unregistered(t)
           \/ Dropped(t, b)
    BY <1>2, <1>5, <1>6, <1>9 DEF MirrorOf, SlotsFilled, Filled, InPool
  <2>2. Followed(r, Purges, Allocations(b), Len(r))
    BY <1>6, <1>8, <2>1
  <2>3. CASE pool[b] # None \/ Among(s, Allocations(b), Len(r) + 1)
    <3>1. \/ left[b] # None
          \/ Among(r, Allocations(b), Len(r))
          \/ h \in Commits(b) /\ viewBackendMap[p] = None
      BY <1>6, <1>13, <2>1, <2>3
    <3>2. viewBackendMap[p] = None => Registering(t) \/ Unregistered(t)
      BY <1>11
    <3> QED
      BY <1>6, <1>16, <2>1, <2>2, <3>1, <3>2
  <2> QED
    BY <1>17, <2>1, <2>2, <2>3
<1>19. NothingReturns(t)'
  <2> SUFFICES ASSUME Registering(t)
               PROVE  (/\ \A b \in Slots : ~ReleaseInTransit(ProcessOf[t], poolID[t], b)
                       /\ \A v \in Views, o \in Objects :
                            HeldBy(v, o) /\ hostBuffer[o] # None => hostBuffer[o].poolID # poolID[t]
                       /\ \A b \in Slots :
                            /\ \A k \in 1 .. Unread(t) : Sent(t)[k] \in Commits(b) =>
                                 Followed(Sent(t), Commits(b), Refills(b), k - 1)
                            /\ \A o \in Objects : InSlot(t, b, o) /\ ~locked[t][b] =>
                                 Followed(Sent(t), Commits(b), Refills(b), Unread(t)))'
    BY <1>10 DEF NothingReturns
  <2>1. NothingReturns(t) /\ ~CommitToView(w)
    BY <1>2, <1>3 DEF MirrorOf, RegisteredOnce
  <2>2. (\A b \in Slots : ~ReleaseInTransit(ProcessOf[t], poolID[t], b))'
    BY <1>2, <1>3, <1>4, <2>1 DEF NothingReturns, ReleaseInTransit
  <2>3. (\A v \in Views, o \in Objects :
           HeldBy(v, o) /\ hostBuffer[o] # None => hostBuffer[o].poolID # poolID[t])'
    <3>1. \A v \in Views, o \in Objects : HeldBy(v, o) /\ hostBuffer[o] # None => hostBuffer[o].poolID # p
      BY <1>2, <2>1 DEF NothingReturns
    <3>2. ASSUME NEW v \in Views, NEW o \in Objects, HeldBy(v, o)', hostBuffer'[o] # None
          PROVE  hostBuffer'[o].poolID # p
      BY <1>1, <1>2, <2>1, <3>1, <3>2, HeldRead
    <3> QED
      BY <1>4, <3>2 DEF HeldBy
  <2>4. ASSUME NEW b \in Slots, NEW k \in 1 .. Len(r), r[k] \in Commits(b)
        PROVE  Followed(r, Commits(b), Refills(b), k - 1)
    <3>1. PICK n \in 0 .. Len(r) : n = k - 1 /\ n + 1 = (k + 1) - 1
      BY <1>6
    <3>2. Followed(s, Commits(b), Refills(b), n + 1)
      BY <1>5, <1>6, <2>1, <2>4, <3>1 DEF NothingReturns
    <3> QED
      BY <1>8, <3>1, <3>2
  <2>5. ASSUME NEW b \in Slots, NEW o \in Objects, InSlot(t, b, o), ~locked[t][b]
        PROVE  Followed(r, Commits(b), Refills(b), Len(r))
    <3>1. Followed(s, Commits(b), Refills(b), Len(r) + 1)
      BY <1>5, <1>6, <2>1, <2>5 DEF NothingReturns
    <3> QED
      BY <1>6, <1>8, <3>1
  <2>6. ASSUME NEW b \in Slots
        PROVE  (/\ \A k \in 1 .. Unread(t) : Sent(t)[k] \in Commits(b) =>
                     Followed(Sent(t), Commits(b), Refills(b), k - 1)
                /\ \A o \in Objects : InSlot(t, b, o) /\ ~locked[t][b] =>
                     Followed(Sent(t), Commits(b), Refills(b), Unread(t)))'
    BY <1>3, <1>4, <1>5, <1>6, <2>4, <2>5 DEF InSlot
  <2> QED
    BY <2>2, <2>3, <2>6
<1> QED
  BY <1>10, <1>14, <1>18, <1>19 DEF MirrorOf

\* A step leaves the pool of t and the messages to it alone.  It may empty or
\* unlock slots, take buffers from the application and send them back.
LeftAlone(t) ==
  /\ UNCHANGED <<poolID[t], Sent(t)>>
  /\ poolBuffers'[poolID[t]] = poolBuffers[poolID[t]]
  /\ \A b \in Slots :
       LET s == toWeb[ProcessOf[t]]
           r == toWeb'[ProcessOf[t]]
           release == {ReleaseBufferMsg(poolID[t], b)}
       IN  Among(r, release, Len(r)) =>
             \/ Among(s, release, Len(s))
             \/ \E v \in Views, o \in Objects :
                  /\ HeldBy(v, o) /\ hostBuffer[o] # None /\ ~hostBuffer[o].pendingDelete
                  /\ hostBuffer[o].poolID = poolID[t] /\ hostBuffer[o].bufferID = b
  /\ \A v \in Views, o \in Objects : HeldBy(v, o)' /\ hostBuffer'[o] # None /\ hostBuffer'[o].poolID = poolID[t] =>
       /\ HeldBy(v, o) /\ hostBuffer[o] # None /\ hostBuffer[o].poolID = poolID[t]
       /\ hostBuffer'[o].bufferID = hostBuffer[o].bufferID
       /\ hostBuffer[o].pendingDelete => hostBuffer'[o].pendingDelete
  /\ \A b \in Slots, o \in Objects : InSlot(t, b, o)' =>
       LET s == toWeb[ProcessOf[t]]
       IN  /\ InSlot(t, b, o)
           /\ locked'[t][b] = locked[t][b] \/ Among(s, {ReleaseBufferMsg(poolID[t], b)}, Len(s))

(* What other parts do to a target and its pool.                           *)
LEMMA OthersLeave ==
  ASSUME OneTargetPerProcess, HandleInv, UpAttached, NEW t \in Targets, ~Young(t), [Next]_vars,
         ~(TargetStep(t) /\ WebFrame), ~(ProxyStep(ProcessOf[t]) /\ HostFrame)
  PROVE  LeftAlone(t)
<1> DEFINE w == ProcessOf[t]
           p == poolID[t]
<1>1. /\ TypeOK /\ HeapInv /\ Handshake /\ w \in Processes /\ p \in PoolIDs
      /\ toHost \in [Processes -> Seq(HostMessage)] /\ toWeb \in [Processes -> Seq(WebMessage)]
      /\ webUp \in [Processes -> BOOLEAN]
      /\ phase \in [Targets -> Phases] /\ poolID \in [Targets -> PoolIDs]
      /\ locked \in [Targets -> [Slots -> BOOLEAN]]
      /\ object \in [Targets -> [Slots -> Objects \cup {None}]]
      /\ poolBuffers \in [PoolIDs -> [Slots -> Objects \cup {None}]]
  BY PoolOf DEF HandleInv, PageInv, MapInv, HeapInv, TypeOK, IpcTypeOK, WebTypeOK, HostTypeOK
<1>2. PICK s, r : s \in Seq(WebMessage) /\ s = toWeb[w] /\ r = toWeb'[w]
  BY <1>1
\* The step leaves the UI process's buffers alone and sends no release.
<1>3. ASSUME UNCHANGED <<poolBuffers, hostBuffer>>, \A v \in Views, o \in Objects : HeldBy(v, o)' => HeldBy(v, o),
             UNCHANGED <<poolID[t], object[t], toHost[w]>>, webUp'[w] => webUp[w],
             \/ r = s
             \/ r = <<>>
             \/ s # <<>> /\ r = Tail(s)
             \/ \E q : r = Append(s, FrameCompleteMsg(q)),
             \A b \in Slots : locked'[t][b] = locked[t][b] \/ (s # <<>> /\ Head(s) = ReleaseBufferMsg(p, b))
      PROVE  LeftAlone(t)
  <2>1. ASSUME NEW b \in Slots
        PROVE  LET release == {ReleaseBufferMsg(poolID[t], b)}
               IN  Among(r, release, Len(r)) => Among(s, release, Len(s))
    <3>1. PICK x : x = ReleaseBufferMsg(p, b)
      OBVIOUS
    <3>2. \/ r = <<>>
          \/ r = s
          \/ s # <<>> /\ r = Tail(s)
          \/ \E m : m # x /\ r = Append(s, m)
      BY <1>3, <3>1, ReleaseKinds
    <3>3. CASE r = <<>>
      BY <3>3, EmptyQueue DEF Among
    <3>4. CASE r # <<>>
      <4>1. Among(r, {x}, Len(r)) => Among(s, {x}, Len(s))
        BY ONLY <1>2, <3>2, <3>4, ReleasesKept
      <4> QED
        BY <3>1, <4>1
    <3> QED
      BY <3>3, <3>4
  <2>2. ASSUME NEW b \in Slots, locked'[t][b] # locked[t][b]
        PROVE  Among(s, {ReleaseBufferMsg(poolID[t], b)}, Len(s))
    <3>1. s # <<>> /\ Head(s) = ReleaseBufferMsg(p, b)
      BY <1>3, <2>2
    <3>2. Len(s) \in Nat /\ s[1] = Head(s) /\ 1 \in 1 .. Len(s)
      BY <1>2, <3>1, HeadTailProperties, LenProperties
    <3> QED
      BY <3>1, <3>2 DEF Among
  <2>3. UNCHANGED <<poolID[t], Sent(t)>> /\ poolBuffers'[poolID[t]] = poolBuffers[poolID[t]]
    BY <1>3 DEF Sent
  <2>4. \A b \in Slots, o \in Objects : InSlot(t, b, o)' =>
          /\ InSlot(t, b, o)
          /\ locked'[t][b] = locked[t][b] \/ Among(s, {ReleaseBufferMsg(poolID[t], b)}, Len(s))
    BY <1>3, <2>2 DEF InSlot
  <2> QED
    BY <1>2, <1>3, <2>1, <2>3, <2>4 DEF LeftAlone
<1>4. CASE \E u \in Targets : TargetStep(u) /\ WebFrame
  <2>1. PICK u \in Targets : TargetStep(u) /\ WebFrame
    BY <1>4
  <2>2. u # t /\ ProcessOf[u] # w
    BY <2>1 DEF OneTargetPerProcess
  <2>3. UNCHANGED <<poolBuffers, hostBuffer, held>>
    BY <2>1 DEF WebFrame, hostVars, appVars
  <2>4. /\ UNCHANGED <<poolID[t], object[t], locked[t], toHost[w], toWeb[w]>>
        /\ webUp'[w] => webUp[w]
    BY <1>1, <2>1, <2>2 DEF TargetStep, CreateTarget, Initialize, ReceiveReply, Resize, DestroyBufferPool,
       FrameAborts, CloseWeb, FrameReuses, FrameFailsToAllocate, FrameAllocates, FrameRendered, Deinitialize,
       DestroyTarget, SendToHost, Received, webVars, ipcVars
  <2> QED
    BY <1>2, <1>3, <2>3, <2>4 DEF HeldBy
<1>5. CASE \E u \in Processes : HandleWebMessage(u) /\ WebFrame
  <2>1. PICK u \in Processes : HandleWebMessage(u) /\ WebFrame
    BY <1>5
  <2>2. /\ UNCHANGED <<poolBuffers, hostBuffer, held, poolID, object, toHost, webUp>>
        /\ toWeb' = [toWeb EXCEPT ![u] = Tail(@)] /\ toWeb[u] # <<>>
    BY <2>1 DEF WebFrame, hostVars, appVars, HandleWebMessage, Received
  <2>3. r = s \/ (s # <<>> /\ r = Tail(s))
    BY <1>1, <1>2, <2>2
  <2>4. ASSUME NEW b \in Slots
        PROVE  locked'[t][b] = locked[t][b] \/ (s # <<>> /\ Head(s) = ReleaseBufferMsg(p, b))
    <3>1. locked'[t][b] => locked[t][b]
      <4>1. PICK x, c : UNCHANGED locked \/ locked' = [locked EXCEPT ![x][c] = FALSE]
        BY <2>1 DEF HandleWebMessage
      <4>2. CASE locked' = [locked EXCEPT ![x][c] = FALSE]
        <5>1. locked \in [Targets -> [Slots -> BOOLEAN]] /\ b \in Slots /\ t \in Targets
          BY <1>1
        <5>2. CASE x # t
          BY ONLY <4>2, <5>1, <5>2
        <5>3. CASE x = t
          BY ONLY <4>2, <5>1, <5>3
        <5> QED
          BY <5>2, <5>3
      <4> QED
        BY <4>1, <4>2
    <3>2. locked[t][b] /\ ~locked'[t][b] => s # <<>> /\ Head(s) = ReleaseBufferMsg(p, b)
      BY <1>2, <2>1, UnlockingMessage
    <3>3. locked[t][b] \in BOOLEAN /\ locked'[t][b] \in BOOLEAN
      <4>1. TypeOK'
        BY <1>1, NextTypes DEF HeapInv
      <4> QED
        BY <1>1, <4>1 DEF TypeOK, WebTypeOK
    <3> QED
      BY <3>1, <3>2, <3>3
  <2> QED
    BY <1>3, <2>2, <2>3, <2>4 DEF HeldBy
<1>6. CASE \E u \in Processes : WebExits(u) /\ WebFrame
  <2>1. PICK u \in Processes : WebExits(u) /\ WebFrame
    BY <1>6
  <2>2. /\ UNCHANGED <<poolBuffers, hostBuffer, held, poolID, object, locked, toHost>>
        /\ webUp' = [webUp EXCEPT ![u] = FALSE] /\ toWeb' = [toWeb EXCEPT ![u] = <<>>]
    BY <2>1 DEF WebFrame, hostVars, appVars, WebExits, CloseWeb, webVars
  <2>3. (webUp'[w] => webUp[w]) /\ (r = s \/ r = <<>>)
    BY <1>1, <1>2, <2>2
  <2> QED
    BY <1>3, <2>2, <2>3 DEF HeldBy
<1>7. CASE \E u \in Processes : CreateClient(u) /\ HostFrame
  <2>1. PICK u \in Processes : CreateClient(u) /\ HostFrame
    BY <1>7
  <2>2. UNCHANGED <<poolBuffers, hostBuffer, held, poolID, object, locked, toHost, toWeb>>
    BY <2>1 DEF HostFrame, hostVars, appVars, CreateClient, OpenWeb, webVars
  <2>3. webUp'[w] => webUp[w]
    <3>1. Attached(w) /\ ~Attached(u)
      BY <2>1 DEF UpAttached, Young, CreateClient, Attach
    <3> QED
      BY <1>1, <2>1, <3>1 DEF CreateClient, OpenWeb
  <2> QED
    BY <1>2, <1>3, <2>2, <2>3 DEF HeldBy
<1>8. CASE \E u \in Processes : ProxyStep(u) /\ HostFrame
  <2>1. PICK u \in Processes : ProxyStep(u) /\ HostFrame
    BY <1>8
  <2>2. u # w
    BY <2>1
  <2>3. PICK h : h = Head(toHost[u])
    OBVIOUS
  <2>4. /\ toHost[u] # <<>> /\ toHost' = [toHost EXCEPT ![u] = Tail(toHost[u])]
        /\ ~ConstructPool(u) => h.poolID \in PoolIDs
    BY <1>1, <2>1, <2>3, ProxyMessage
  <2>5. ~ConstructPool(u) => h.poolID # p
    <3> SUFFICES ASSUME ~ConstructPool(u) PROVE h.poolID # p
      OBVIOUS
    <3>1. h.code # "PoolConstruction"
      BY <2>1, <2>3 DEF ProxyStep, PurgePool, BufferAllocation, CommitToView, CommitWithoutView, Reads
    <3>2. PICK x \in Targets : ProcessOf[x] = u /\ Owns(x, h.poolID)
      BY <1>1, <2>3, <2>4, <3>1, HostHead
    <3>3. Owns(t, p)
      BY DEF Owns
    <3> QED
      BY <1>1, <2>2, <3>2, <3>3, OwnersClient
  <2>6. /\ UNCHANGED <<poolID, object, locked, webUp>> /\ toHost'[w] = toHost[w] /\ r = s
    BY <1>1, <1>2, <2>1, <2>2, <2>4 DEF HostFrame, webVars, ProxyStep, ConstructPool, PurgePool, BufferAllocation,
       CommitToView, CommitWithoutView, SendToWeb
  <2>7. poolBuffers'[p] = poolBuffers[p]
    BY <1>1, <2>1, <2>3, <2>5 DEF ProxyStep, ConstructPool, PurgePool, BufferAllocation, CommitToView,
       CommitWithoutView, Reads
  <2>8. ASSUME NEW v \in Views, NEW o \in Objects, HeldBy(v, o)', hostBuffer'[o] # None, hostBuffer'[o].poolID = p
        PROVE  /\ HeldBy(v, o) /\ hostBuffer[o] # None /\ hostBuffer[o].poolID = p
               /\ hostBuffer'[o].bufferID = hostBuffer[o].bufferID
               /\ hostBuffer[o].pendingDelete => hostBuffer'[o].pendingDelete
    <3>1. ~(CommitToView(u) /\ hostBuffer'[o].poolID = h.poolID)
      BY <2>3, <2>5, <2>8 DEF CommitToView, ConstructPool, Reads
    <3> QED
      BY <2>1, <2>3, <2>8, <3>1, HeldRead
  <2>9. UNCHANGED <<poolID[t], Sent(t)>>
    BY <2>6 DEF Sent
  <2>10. \A b \in Slots, o \in Objects : InSlot(t, b, o)' => InSlot(t, b, o) /\ locked'[t][b] = locked[t][b]
    BY <2>6 DEF InSlot
  <2> QED
    BY <1>2, <2>6, <2>7, <2>8, <2>9, <2>10 DEF LeftAlone
<1>9. CASE \/ \E v \in Views : (CreateView(v) \/ HandleViewMessage(v) \/ DestroyView(v)) /\ ViewFrame
           \/ Poll /\ HostFrame /\ UNCHANGED <<hostVars, appVars>>
           \/ UNCHANGED vars
  <2>1. UNCHANGED <<webVars, toHost, toWeb, webUp, hostBuffer, poolBuffers>>
    BY <1>9 DEF CreateView, OpenView, HandleViewMessage, DestroyView, CloseView,
       Poll, ViewFrame, HostFrame, hostVars, ipcVars, vars
  <2>2. held \in [Views -> Seq(Objects)]
    BY <1>1 DEF TypeOK, HostTypeOK
  <2>3. UNCHANGED held \/ \E v \in Views : held' = [held EXCEPT ![v] = <<>>]
    BY <1>9 DEF CreateView, HandleViewMessage, DestroyView, Poll, HostFrame, appVars, vars
  <2>4. \A v \in Views, o \in Objects : HeldBy(v, o)' => HeldBy(v, o)
    BY <2>2, <2>3, EmptyQueue DEF HeldBy
  <2> QED
    BY <1>2, <1>3, <2>1, <2>4 DEF webVars
<1>10. CASE \E v \in Views : DispatchFrameComplete(v) /\ ViewFrame
  <2>1. PICK v \in Views : DispatchFrameComplete(v) /\ ViewFrame
    BY <1>10
  <2>2. UNCHANGED <<webVars, toHost, webUp, hostBuffer, poolBuffers, held>>
    BY <2>1 DEF DispatchFrameComplete, FrameComplete, ViewFrame, hostVars
  <2>3. PICK x, q : UNCHANGED toWeb \/ toWeb' = [toWeb EXCEPT ![x] = Append(@, FrameCompleteMsg(q))]
    BY <2>1 DEF DispatchFrameComplete, FrameComplete, SendToWeb
  <2>4. r = s \/ r = Append(s, FrameCompleteMsg(q))
    BY <1>1, <1>2, <2>3
  <2> QED
    BY <1>3, <2>2, <2>4 DEF HeldBy, webVars
<1>11. CASE \E v \in Views : ReleaseStep(v) /\ ViewFrame
  <2>1. PICK v \in Views : ReleaseStep(v) /\ ViewFrame
    BY <1>11
  <2>2. PICK i \in 1 .. Len(held[v]) : DispatchReleaseBuffer(v, i)
    BY <2>1 DEF ReleaseStep
  <2>3. PICK o \in Objects : o = held[v][i] /\ ReleaseBuffer(o)
    BY <1>1, <2>2, HeldAfterRelease
  <2>4. UNCHANGED <<webVars, toHost, webUp, poolBuffers>>
    BY <2>1, <2>2, <2>3 DEF ViewFrame, DispatchReleaseBuffer, ReleaseBuffer
  <2>5. /\ hostBuffer[o] \in Buffer /\ hostBuffer[o] # None
        /\ \A x \in Objects : hostBuffer'[x] # None =>
             /\ hostBuffer[x] # None /\ hostBuffer'[x].poolID = hostBuffer[x].poolID
             /\ hostBuffer'[x].bufferID = hostBuffer[x].bufferID
             /\ hostBuffer'[x].pendingDelete = hostBuffer[x].pendingDelete
    BY <1>1, <2>3, ReleasedBuffers
  <2>6. ASSUME NEW u \in Views, NEW x \in Objects, HeldBy(u, x)'
        PROVE  HeldBy(u, x)
    <3>1. PICK j \in 1 .. Len(held'[u]) : held'[u][j] = x
      BY <2>6 DEF HeldBy
    <3>2. \E k \in 1 .. Len(held[u]) : held[u][k] = held'[u][j]
      BY <1>1, <2>2, HeldBefore
    <3> QED
      BY <3>1, <3>2 DEF HeldBy
  <2>7. PICK q, a : q = hostBuffer[o].poolID /\ a = hostBuffer[o].bufferID /\ q \in PoolIDs /\ a \in Slots
    BY <2>5 DEF Buffer
  <2>8. r = s \/ (r = Append(s, ReleaseBufferMsg(q, a)) /\ ~hostBuffer[o].pendingDelete)
    <3>1. \/ UNCHANGED toWeb
          \/ /\ ~hostBuffer[o].pendingDelete
             /\ \E x : toWeb' = [toWeb EXCEPT ![x] = Append(@, ReleaseBufferMsg(q, a))]
      BY <1>1, <2>3, <2>7, ReleaseSends
    <3> QED
      BY <1>1, <1>2, <3>1
  <2>9. ASSUME NEW b \in Slots
        PROVE  LET release == {ReleaseBufferMsg(poolID[t], b)}
               IN  Among(r, release, Len(r)) =>
                     \/ Among(s, release, Len(s))
                     \/ \E u \in Views, x \in Objects :
                          /\ HeldBy(u, x) /\ hostBuffer[x] # None /\ ~hostBuffer[x].pendingDelete
                          /\ hostBuffer[x].poolID = poolID[t] /\ hostBuffer[x].bufferID = b
    <3>1. PICK y : y = ReleaseBufferMsg(p, b)
      OBVIOUS
    <3>2. CASE r = s \/ \E m : m # y /\ r = Append(s, m)
      <4>1. Among(r, {y}, Len(r)) => Among(s, {y}, Len(s))
        BY ONLY <1>2, <3>2, ReleasesKept
      <4> QED
        BY <3>1, <4>1
    <3>3. CASE ReleaseBufferMsg(q, a) = y /\ ~hostBuffer[o].pendingDelete
      <4>1. q = p /\ a = b
        BY <3>1, <3>3, ReleaseKinds
      <4>2. HeldBy(v, o)
        BY <2>3 DEF HeldBy
      <4> QED
        BY <2>5, <2>7, <3>3, <4>1, <4>2
    <3> QED
      BY <2>8, <3>2, <3>3
  <2>10. UNCHANGED <<poolID[t], Sent(t)>> /\ poolBuffers'[poolID[t]] = poolBuffers[poolID[t]]
    BY <2>4 DEF Sent, webVars
  <2>11. \A b \in Slots, x \in Objects : InSlot(t, b, x)' =>
           /\ InSlot(t, b, x)
           /\ locked'[t][b] = locked[t][b] \/ Among(s, {ReleaseBufferMsg(poolID[t], b)}, Len(s))
    BY <2>4 DEF InSlot, webVars
  <2>12. \A u \in Views, x \in Objects : HeldBy(u, x)' /\ hostBuffer'[x] # None /\ hostBuffer'[x].poolID = poolID[t] =>
           /\ HeldBy(u, x) /\ hostBuffer[x] # None /\ hostBuffer[x].poolID = poolID[t]
           /\ hostBuffer'[x].bufferID = hostBuffer[x].bufferID
           /\ hostBuffer[x].pendingDelete => hostBuffer'[x].pendingDelete
    BY <2>5, <2>6
  <2> QED
    BY <1>2, <2>9, <2>10, <2>11, <2>12 DEF LeftAlone
<1> QED
  BY <1>4, <1>5, <1>6, <1>7, <1>8, <1>9, <1>10, <1>11 DEF Next

(* What other parts do leaves its slots and those of the pool in step.     *)
LEMMA MirrorOther ==
  ASSUME OneTargetPerProcess, HandleInv, UpAttached, NEW t \in Targets, ~Young(t), MirrorOf(t), [Next]_vars,
         ~(TargetStep(t) /\ WebFrame), ~(ProxyStep(ProcessOf[t]) /\ HostFrame)
  PROVE  MirrorOf(t)'
<1>1. RegisteredOnce(t)' /\ (Registering(t)' => Registering(t)) /\ (Unregistered(t) => Unregistered(t)')
  BY RegistrationKept DEF MirrorOf
<1>2. LeftAlone(t)
  BY OthersLeave
<1> QED
  BY <1>1, <1>2, MirrorFrame DEF LeftAlone

-----------------------------------------------------------------------------
(* The invariant, and the commits.                                         *)

(* Every step keeps it.                                                    *)
LEMMA MirrorStep ==
  ASSUME OneTargetPerProcess, PoolInv, UpAttached, MirrorInv, [Next]_vars
  PROVE  MirrorInv'
<1>1. TypeOK /\ HandleInv /\ DrawsUnlocked
  BY DEF MirrorInv, HandleInv, PageInv, MapInv, HeapInv
<1>2. HandleInv' /\ DrawsUnlocked'
  BY <1>1, HandleStep, DrawsStep
<1>3. ASSUME NEW t \in Targets, ~Young(t)'
      PROVE  MirrorOf(t)'
  <2>1. CASE Young(t)
    BY <1>1, <1>3, <2>1, Answering, MirrorStart
  <2>2. CASE ~Young(t)
    <3>1. MirrorOf(t)
      BY <2>2 DEF MirrorInv
    <3>2. CASE TargetStep(t) /\ WebFrame
      BY <1>1, <2>2, <3>1, <3>2, MirrorTarget
    <3>3. CASE ProxyStep(ProcessOf[t]) /\ HostFrame
      BY <1>1, <2>2, <3>1, <3>3, MirrorReceived
    <3> QED
      BY <1>1, <2>2, <3>1, <3>2, <3>3, MirrorOther
  <2> QED
    BY <2>1, <2>2
<1> QED
  BY <1>2, <1>3 DEF MirrorInv

(* It holds at the start, when no target is answered and none draws.       *)
LEMMA MirrorInit == Init => MirrorInv
<1> SUFFICES ASSUME Init PROVE MirrorInv
  OBVIOUS
<1>1. \A t \in Targets : Young(t) /\ current[t] = None
  BY DEF Init, WebInit, Young
<1> QED
  BY <1>1, HandleStart DEF MirrorInv, DrawsUnlocked

(* A slot of the pool and the slot of the target have the same buffer, or  *)
(* the messages that make it so are on their way, in the order in which    *)
(* the commits need them; resizes included.                                *)
THEOREM MirrorInvariant ==
  ASSUME OneTargetPerProcess
  PROVE  Spec => []MirrorInv
<1>1. Spec => [](PoolInv /\ LockInv)
  BY Background
<1>2. PoolInv /\ LockInv /\ MirrorInv /\ [Next]_vars => MirrorInv'
  BY MirrorStep DEF LockInv
<1> QED
  BY <1>1, <1>2, MirrorInit, PTL DEF Spec

(* bufferCommit of a pool with a view finds a buffer in the slot, whose    *)
(* pointer it dereferences without a test (renderer-host.cpp:254).         *)
THEOREM CommitsFindBuffers ==
  ASSUME OneTargetPerProcess
  PROVE  Spec => []NoNullCommit
<1>1. MirrorInv => NoNullCommit
  <2> SUFFICES ASSUME MirrorInv, NEW w \in Processes, Reads(w, "BufferCommit"),
                      viewBackendMap[Head(toHost[w]).poolID] # None
               PROVE  poolBuffers[Head(toHost[w]).poolID][Head(toHost[w]).bufferID] # None
    BY DEF NoNullCommit
  <2>1. TypeOK /\ Handshake /\ toHost \in [Processes -> Seq(HostMessage)]
    BY DEF MirrorInv, HandleInv, PageInv, MapInv, HeapInv, TypeOK, IpcTypeOK
  <2>2. /\ toHost[w] # <<>> /\ Head(toHost[w]).code = "BufferCommit"
        /\ Head(toHost[w]) \in HostMessage /\ Head(toHost[w]) = toHost[w][1] /\ Len(toHost[w]) > 0
    BY <2>1 DEF Reads
  <2>3. PICK t \in Targets : ProcessOf[t] = w /\ Owns(t, Head(toHost[w]).poolID)
    BY <2>1, <2>2, HostHead
  <2>4. ~Young(t) /\ poolID[t] = Head(toHost[w]).poolID /\ CommitsFilled(t)
    BY <2>3 DEF Owns, MirrorInv, MirrorOf
  <2>5. PICK b \in Slots : b = Head(toHost[w]).bufferID /\ Sent(t)[1] \in Commits(b)
    BY <2>2, <2>3, HostMessageFields DEF Commits, Sent
  <2>6. Filled(t, b, 0) \/ Unregistered(t)
    <3>1. 1 \in 1 .. Unread(t) /\ 1 - 1 = 0
      BY <2>1, <2>2, <2>3 DEF Unread, Sent
    <3> QED
      BY <2>4, <2>5, <3>1 DEF CommitsFilled
  <2>7. ~Unregistered(t) /\ ~Among(Sent(t), Allocations(b), 0)
    BY <2>4 DEF Unregistered, Among
  <2> QED
    BY <2>4, <2>5, <2>6, <2>7 DEF Filled, InPool
<1> QED
  BY <1>1, MirrorInvariant, PTL

-----------------------------------------------------------------------------
(* Registration and the first commit.                                      *)

(* A queue with one more message is not empty.                             *)
LEMMA AppendedSome ==
  ASSUME NEW S, NEW s \in Seq(S), NEW m
  PROVE  Append(s, m) # <<>>
<1>1. Len(Append(s, m)) = Len(s) + 1 /\ Len(s) \in Nat
  BY AppendedLength
<1>2. Len(<<>>) = 0
  OBVIOUS
<1> QED
  BY <1>1, <1>2

(* A socket is read when it has its turn, and only then.                   *)
LEMMA ReadyStep ==
  ASSUME TypeOK, ReadyReadable, [Next]_vars
  PROVE  ReadyReadable'
<1>1. /\ toHost \in [Processes -> Seq(HostMessage)] /\ toView \in [Views -> Seq(ViewMessage)]
      /\ Processes \cap Views = {}
      /\ \A t \in Targets : ProcessOf[t] \in Processes /\ ViewOf[t] \in Views
  BY IpcAssumption, UiLoopAssumption DEF TypeOK, IpcTypeOK
<1>2. CASE \E t \in Targets : TargetStep(t) /\ WebFrame
  <2>1. PICK t \in Targets : TargetStep(t) /\ WebFrame
    BY <1>2
  <2>2. UNCHANGED ready
    BY <2>1 DEF WebFrame, loopVars
  <2>3. \/ UNCHANGED toHost
        \/ \E m : toHost' = [toHost EXCEPT ![ProcessOf[t]] = Append(toHost[ProcessOf[t]], m)]
    BY <2>1 DEF TargetStep, CreateTarget, Initialize, ReceiveReply, Resize, FrameAborts, FrameReuses,
       FrameFailsToAllocate, FrameAllocates, FrameRendered, Deinitialize, DestroyTarget, SendToHost, ipcVars
  <2>4. \/ UNCHANGED toView
        \/ \E m : toView' = [toView EXCEPT ![ViewOf[t]] = Append(toView[ViewOf[t]], m)]
    BY <2>1 DEF TargetStep, CreateTarget, Initialize, ReceiveReply, Resize, FrameAborts, FrameReuses,
       FrameFailsToAllocate, FrameAllocates, FrameRendered, Deinitialize, DestroyTarget, SendToView, ipcVars
  <2>5. \A w \in Processes : toHost[w] # <<>> => toHost'[w] # <<>>
    <3>1. \A m : Append(toHost[ProcessOf[t]], m) # <<>>
      BY <1>1, AppendedSome
    <3> QED
      BY <1>1, <2>3, <3>1
  <2>6. \A v \in Views : toView[v] # <<>> => toView'[v] # <<>>
    <3>1. \A m : Append(toView[ViewOf[t]], m) # <<>>
      BY <1>1, AppendedSome
    <3> QED
      BY <1>1, <2>4, <3>1
  <2> QED
    BY <2>2, <2>5, <2>6 DEF ReadyReadable
<1>3. CASE \E w \in Processes : ProxyStep(w) /\ HostFrame
  <2>1. PICK w \in Processes : ProxyStep(w) /\ HostFrame
    BY <1>3
  <2>2. /\ toHost' = [toHost EXCEPT ![w] = Tail(@)] /\ ready' = ready \ {w} /\ UNCHANGED toView
    BY <2>1 DEF ProxyStep, ConstructPool, PurgePool, BufferAllocation, CommitToView, CommitWithoutView,
       Done, Served, Received
  <2> QED
    BY <1>1, <2>2 DEF ReadyReadable
<1>4. CASE \E v \in Views : (HandleViewMessage(v) \/ DestroyView(v)) /\ ViewFrame
  <2>1. PICK v \in Views : HandleViewMessage(v) \/ DestroyView(v)
    BY <1>4
  <2>2. /\ \E s : toView' = [toView EXCEPT ![v] = s]
        /\ ready' = ready \ {v} /\ UNCHANGED toHost
    BY <2>1 DEF HandleViewMessage, DestroyView, CloseView, Served, Received
  <2> QED
    BY <1>1, <2>2 DEF ReadyReadable
<1>5. CASE Poll /\ HostFrame
  <2>1. /\ ready' = {w \in Processes : toHost[w] # <<>>} \cup {v \in Views : toView[v] # <<>>}
        /\ UNCHANGED <<toHost, toView>>
    BY <1>5 DEF Poll, ipcVars
  <2> QED
    BY <1>1, <2>1 DEF ReadyReadable
<1>6. CASE UNCHANGED <<toHost, toView, ready>>
  BY <1>6 DEF ReadyReadable
<1> QED
  BY <1>2, <1>3, <1>4, <1>5, <1>6 DEF Next, HandleWebMessage, WebExits, WebFrame, CreateClient, OpenWeb, Attach,
     CreateView, OpenView, ReleaseStep, DispatchReleaseBuffer, DispatchFrameComplete, ipcVars, loopVars, vars

(* A view takes the pools its messages name, which are its targets'.       *)
LEMMA ViewsPoolsStep ==
  ASSUME TypeOK, PoolsOwned, ViewsPoolsOwned, [Next]_vars
  PROVE  ViewsPoolsOwned'
<1>1. poolIds \in [Views -> SUBSET PoolIDs] /\ toView \in [Views -> Seq(ViewMessage)]
  BY DEF TypeOK, ViewTypeOK, IpcTypeOK
<1>2. ASSUME NEW v \in Views, NEW p \in poolIds'[v]
      PROVE  p \in PoolIDs /\ OwnedOf(v, p)
  <2>1. CASE p \in poolIds[v]
    BY <1>1, <2>1 DEF ViewsPoolsOwned
  <2>2. CASE p \notin poolIds[v]
    <3>1. PICK u \in Views : HandleViewMessage(u)
      <4>1. poolIds' # poolIds
        BY <2>2
      <4>2. ~\E u \in Views : DestroyView(u)
        BY <1>1, <2>2 DEF DestroyView
      <4> QED
        BY <4>1, <4>2 DEF Next, WebFrame, HostFrame, viewVars, CreateView, ReleaseStep, DispatchReleaseBuffer,
           DispatchFrameComplete, vars
    <3>2. PICK m : m = Head(toView[u])
      OBVIOUS
    <3>3. toView[u] # <<>> /\ (RegisterPool(u, m.poolID) \/ UnregisterPool(u, m.poolID))
      BY <3>1, <3>2 DEF HandleViewMessage
    <3>4. m \in {x \in ViewMessage : OwnedOf(u, x.poolID)}
      <4>1. toView[u] \in Seq({x \in ViewMessage : OwnedOf(u, x.poolID)})
        BY DEF PoolsOwned
      <4> QED
        BY <3>2, <3>3, <4>1, QueueType
    <3>5. m.poolID \in PoolIDs /\ OwnedOf(u, m.poolID)
      BY <3>4 DEF ViewMessage
    <3>6. u = v /\ p = m.poolID
      BY <1>1, <1>2, <2>2, <3>3 DEF RegisterPool, UnregisterPool
    <3> QED
      BY <3>5, <3>6
  <2> QED
    BY <2>1, <2>2
<1>3. \A v \in Views, p \in PoolIDs : OwnedOf(v, p) => OwnedOf(v, p)'
  BY OwnersKept
<1> QED
  BY <1>2, <1>3 DEF ViewsPoolsOwned

(* Until the view has read the registration, what is before it in its      *)
(* socket is nothing, and the view has not had its turn.                   *)
LEMMA RegistrationAhead ==
  ASSUME OneTargetPerProcess, HandleInv, [Next]_vars, NEW t \in Targets, ~Young(t), RegisteredOnce(t),
         RegistrationFirst(t), Registering(t)'
  PROVE  /\ Registering(t) /\ ViewsTurn(t)
         /\ toView[ViewOf[t]] # <<>>
         /\ toView'[ViewOf[t]][1] = RegisterPoolMsg(poolID'[t])
         /\ ~HandleViewMessage(ViewOf[t]) /\ ~DestroyView(ViewOf[t])
<1>1. /\ TypeOK /\ toView \in [Views -> Seq(ViewMessage)] /\ ViewOf[t] \in Views
      /\ poolID'[t] = poolID[t]
  BY PoolOf, PoolKept DEF HandleInv, PageInv, MapInv, HeapInv, TypeOK, IpcTypeOK
<1>2. PICK v, x : v = ViewOf[t] /\ x = RegisterPoolMsg(poolID[t])
  OBVIOUS
<1>3. PICK s, r : s \in Seq(ViewMessage) /\ s = toView[v] /\ r = toView'[v]
  BY <1>1, <1>2
<1>4. Registering(t) /\ s[1] = x /\ ViewsTurn(t)
  BY <1>2, <1>3, RegistrationKept DEF RegistrationFirst
<1>5. /\ Among(s, {x}, Len(s)) /\ Among(r, {x}, Len(r))
      /\ NeverAfter(s, {x}, {x}, Len(s))
  BY <1>1, <1>2, <1>3, <1>4 DEF Registering, RegisteredOnce, Registrations, Among, NeverAfter
<1>6. s # <<>> /\ r # <<>> /\ Head(s) = x
  <2>1. s # <<>> /\ r # <<>>
    BY <1>5, EmptyQueue DEF Among
  <2> QED
    BY <1>3, <1>4, <2>1, HeadTailProperties
<1>7. r # Tail(s)
  <2> SUFFICES ASSUME r = Tail(s) PROVE FALSE
    OBVIOUS
  <2>1. /\ Len(r) \in Nat /\ Len(s) = Len(r) + 1 /\ Len(r) \in 0 .. Len(r)
    BY <1>3, <1>6, ReadLength
  <2>2. NeverAfter(s, {x}, {x}, Len(r) + 1)
    BY <1>5, <2>1
  <2>3. NeverAfter(s, {x}, {x}, Len(r) + 1) <=>
          NeverAfter(r, {x}, {x}, Len(r)) /\ (Head(s) \in {x} => ~Among(r, {x}, Len(r)))
    BY ONLY <1>3, <1>6, <2>1, r = Tail(s), FollowedRead
  <2> QED
    BY <1>5, <1>6, <2>2, <2>3
<1>8. ~HandleViewMessage(v) /\ ~DestroyView(v)
  BY <1>1, <1>2, <1>3, <1>6, <1>7 DEF HandleViewMessage, DestroyView, CloseView, Received
<1>9. r[1] = x
  <2>1. \/ toView'[v] = toView[v]
        \/ toView'[v] = <<>>
        \/ toView[v] # <<>> /\ toView'[v] = Tail(toView[v])
        \/ \E m : m # x /\ toView'[v] = Append(toView[v], m)
    BY <1>2, RegistrationQueue
  <2>2. r = s \/ \E m : r = Append(s, m)
    BY ONLY <1>3, <1>6, <1>7, <2>1
  <2>3. Len(s) \in Nat /\ 1 \in 1 .. Len(s)
    BY <1>3, <1>6, LenProperties, HeadTailProperties
  <2>4. ASSUME NEW m, r = Append(s, m) PROVE r[1] = s[1]
    BY ONLY <1>3, <2>3, <2>4, AppendedLength
  <2> QED
    BY <1>4, <2>2, <2>4
<1> QED
  BY <1>1, <1>2, <1>3, <1>4, <1>6, <1>8, <1>9

(* A slot has its allocation on the way when it has a buffer.              *)
LEMMA AllocationAhead ==
  ASSUME TypeOK, NEW t \in Targets, ~Young(t), TargetStep(t), AllocationFirst(t)
  PROVE  AllocationFirst(t)'
<1>1. /\ ProcessOf[t] \in Processes /\ toHost \in [Processes -> Seq(HostMessage)]
      /\ object \in [Targets -> [Slots -> Objects \cup {None}]] /\ webUp \in [Processes -> BOOLEAN]
      /\ poolID[t] \in PoolIDs /\ None \notin Objects /\ None \notin Slots
      /\ current[t] \in Slots \cup {None}
  BY PoolOf DEF TypeOK, IpcTypeOK, WebTypeOK
<1>2. PICK w, s : w = ProcessOf[t] /\ s = toHost[w] /\ s \in Seq(HostMessage)
  BY <1>1
<1>3. /\ \A b \in Slots : s # <<>> => Head(s) \notin Commits(b)
      /\ \A b \in Slots, o \in Objects : InSlot(t, b, o) => Among(s, Allocations(b), Len(s))
  BY <1>2 DEF AllocationFirst, Sent, Unread
<1>4. ASSUME NEW r, r = toHost'[w],
             \A b \in Slots : r # <<>> => Head(r) \notin Commits(b),
             \A b \in Slots, o \in Objects : InSlot(t, b, o)' => Among(r, Allocations(b), Len(r))
      PROVE  AllocationFirst(t)'
  BY <1>2, <1>4 DEF AllocationFirst, Sent, Unread, InSlot, Among
<1>5. ASSUME NEW m, toHost'[w] = Append(s, m),
             s = <<>> => \A b \in Slots : m \notin Commits(b),
             \A b \in Slots, o \in Objects : InSlot(t, b, o)' => InSlot(t, b, o) \/ m \in Allocations(b)
      PROVE  AllocationFirst(t)'
  <2>1. PICK r : r = Append(s, m)
    OBVIOUS
  <2>2. \A b \in Slots : Head(r) \notin Commits(b)
    <3>1. Head(r) = IF s = <<>> THEN m ELSE Head(s)
      BY <1>2, <2>1
    <3> QED
      BY <1>3, <1>5, <3>1
  <2>3. ASSUME NEW b \in Slots, NEW o \in Objects, InSlot(t, b, o)'
        PROVE  Among(r, Allocations(b), Len(r))
    <3>1. m \in Allocations(b) \/ Among(s, Allocations(b), Len(s))
      BY <1>3, <1>5, <2>3
    <3> QED
      BY ONLY <1>2, <2>1, <3>1, AmongAppended
  <2> QED
    BY <1>4, <1>5, <2>1, <2>2, <2>3
<1>6. CASE Resize(t)
  <2>1. /\ toHost'[w] = Append(s, PoolPurgeMsg(poolID[t]))
        /\ \A b \in Slots : object'[t][b] = None /\ PoolPurgeMsg(poolID[t]) \notin Commits(b)
    BY <1>1, <1>2, <1>6, MessageKinds DEF Resize, DestroyBufferPool, SendToHost, Commits, PoolPurgeMsg
  <2>2. \A b \in Slots, o \in Objects : ~InSlot(t, b, o)'
    BY <1>1, <2>1 DEF InSlot
  <2> QED
    BY <1>5, <2>1, <2>2
<1>7. CASE \E b \in Slots, o \in Objects : FrameAllocates(t, b, o)
  <2>1. PICK b \in Slots, o \in Objects : FrameAllocates(t, b, o)
    BY <1>7
  <2>2. PICK m : m = BufferAllocationMsg(poolID[t], b, o)
    OBVIOUS
  <2>3. /\ toHost'[w] = Append(s, m) /\ UNCHANGED webUp
        /\ object' = [object EXCEPT ![t][b] = o]
    BY <1>1, <1>2, <2>1, <2>2 DEF FrameAllocates, SendToHost
  <2>4. \A a \in Slots : m \notin Commits(a) /\ (a = b => m \in Allocations(a))
    BY <1>1, <2>2, MessageKinds
  <2>5. \A a \in Slots, x \in Objects : InSlot(t, a, x)' => InSlot(t, a, x) \/ m \in Allocations(a)
    BY <1>1, <2>3, <2>4 DEF InSlot
  <2> QED
    BY <1>5, <2>3, <2>4, <2>5
<1>8. CASE FrameRendered(t) /\ object[t][current[t]] # None
  <2>0. PICK b \in Slots : b = current[t]
    BY <1>1, <1>8 DEF FrameRendered
  <2>1. PICK m : b = current[t] /\ m = BufferCommitMsg(poolID[t], b)
    BY <2>0
  <2>2. toHost'[w] = Append(s, m) /\ UNCHANGED <<webUp, object>> /\ webUp[w]
    BY <1>1, <1>2, <1>8, <2>1 DEF FrameRendered, SendToHost, InEventLoop
  <2>3. s # <<>>
    <3>1. PICK o \in Objects : InSlot(t, b, o)
      BY <1>1, <1>2, <1>8, <2>1, <2>2 DEF InSlot
    <3>2. Among(s, Allocations(b), Len(s))
      BY <1>3, <3>1
    <3> QED
      BY <3>2, EmptyQueue DEF Among
  <2>4. \A a \in Slots, x \in Objects : InSlot(t, a, x)' => InSlot(t, a, x)
    BY <2>2 DEF InSlot
  <2> QED
    BY <1>5, <2>2, <2>3, <2>4
<1>9. CASE /\ UNCHANGED toHost /\ (webUp'[w] => webUp[w])
           /\ \A b \in Slots : object'[t][b] \in {object[t][b], None}
  <2>1. \A a \in Slots, x \in Objects : InSlot(t, a, x)' => InSlot(t, a, x)
    BY <1>1, <1>2, <1>9 DEF InSlot
  <2> QED
    BY <1>2, <1>3, <1>4, <1>9, <2>1
<1>10. CASE \/ FrameAborts(t) \/ Deinitialize(t) \/ DestroyTarget(t)
            \/ FrameRendered(t) /\ object[t][current[t]] = None
            \/ \E b \in Slots : FrameReuses(t, b) \/ FrameFailsToAllocate(t, b)
  BY <1>1, <1>2, <1>9, <1>10 DEF FrameAborts, CloseWeb, Deinitialize, DestroyBufferPool, DestroyTarget,
     FrameRendered, FrameReuses, FrameFailsToAllocate, webVars, ipcVars
<1>11. ~CreateTarget(t) /\ ~Initialize(t) /\ ~ReceiveReply(t)
  BY DEF Young, CreateTarget, Initialize, ReceiveReply
<1> QED
  BY <1>6, <1>7, <1>8, <1>10, <1>11 DEF TargetStep

(* The loop reads the registration before the proxy reads a commit: both   *)
(* sockets are found readable by the same poll, or the view's first.       *)
LEMMA ViewsTurnKept ==
  ASSUME OneTargetPerProcess, TypeOK, UpAttached, ReadyReadable, [Next]_vars, NEW t \in Targets, ~Young(t),
         ViewsTurn(t), toView[ViewOf[t]] # <<>>, ~HandleViewMessage(ViewOf[t]), ~DestroyView(ViewOf[t])
  PROVE  ViewsTurn(t)'
<1>1. PICK w, v : w = ProcessOf[t] /\ v = ViewOf[t]
  OBVIOUS
<1>2. /\ w \in Processes /\ v \in Views /\ w # v /\ Processes \cap Views = {}
      /\ toHost \in [Processes -> Seq(HostMessage)]
      /\ object \in [Targets -> [Slots -> Objects \cup {None}]] /\ webUp \in [Processes -> BOOLEAN]
  BY <1>1, IpcAssumption, UiLoopAssumption DEF TypeOK, IpcTypeOK, WebTypeOK
<1>3. /\ ViewsTurn(t) <=> (w \notin ready /\ v \in ready) \/ ((w \in ready => v \in ready) /\ AllocationFirst(t))
      /\ ViewsTurn(t)' <=> (w \notin ready' /\ v \in ready') \/ ((w \in ready' => v \in ready') /\ AllocationFirst(t)')
  BY <1>1 DEF ViewsTurn
<1>4. ASSUME w \in ready' <=> w \in ready, v \in ready' <=> v \in ready, AllocationFirst(t) => AllocationFirst(t)'
      PROVE  ViewsTurn(t)'
  BY <1>3, <1>4
<1>5. ASSUME toHost'[w] = toHost[w], object'[t] = object[t], webUp'[w] => webUp[w]
      PROVE  AllocationFirst(t) => AllocationFirst(t)'
  <2>1. \A b \in Slots, o \in Objects : InSlot(t, b, o)' => InSlot(t, b, o)
    BY <1>1, <1>5 DEF InSlot
  <2> QED
    BY <1>1, <1>5, <2>1 DEF AllocationFirst, Sent, Unread, Among
<1>6. CASE \E u \in Targets : TargetStep(u) /\ WebFrame
  <2>1. PICK u \in Targets : TargetStep(u) /\ WebFrame
    BY <1>6
  <2>2. UNCHANGED ready
    BY <2>1 DEF WebFrame, loopVars
  <2>3. CASE u = t
    <3>1. AllocationFirst(t) => AllocationFirst(t)'
      BY <2>1, <2>3, AllocationAhead
    <3> QED
      BY <1>4, <2>2, <3>1
  <2>4. CASE u # t
    <3>1. ProcessOf[u] # w
      BY <1>1, <2>4 DEF OneTargetPerProcess
    <3>2. UNCHANGED <<object[t], toHost[w]>> /\ (webUp'[w] => webUp[w])
      BY <1>2, <2>1, <2>4, <3>1 DEF TargetStep, CreateTarget, Initialize, ReceiveReply, Resize, DestroyBufferPool,
         FrameAborts, CloseWeb, FrameReuses, FrameFailsToAllocate, FrameAllocates, FrameRendered, Deinitialize,
         DestroyTarget, SendToHost, webVars, ipcVars
    <3> QED
      BY <1>4, <1>5, <2>2, <3>2
  <2> QED
    BY <2>3, <2>4
<1>7. CASE \E u \in Processes : (HandleWebMessage(u) \/ WebExits(u)) /\ WebFrame
  <2>1. PICK u \in Processes : (HandleWebMessage(u) \/ WebExits(u)) /\ WebFrame
    BY <1>7
  <2>2. UNCHANGED <<ready, toHost, object>> /\ (webUp'[w] => webUp[w])
    BY <1>2, <2>1 DEF WebFrame, loopVars, HandleWebMessage, WebExits, CloseWeb, webVars
  <2> QED
    BY <1>4, <1>5, <2>2
<1>8. CASE \E u \in Processes : CreateClient(u) /\ HostFrame
  <2>1. PICK u \in Processes : CreateClient(u) /\ HostFrame
    BY <1>8
  <2>2. u # w
    BY <1>1, <2>1 DEF UpAttached, Young, CreateClient, Attach
  <2>3. UNCHANGED <<ready, toHost, object>> /\ (webUp'[w] => webUp[w])
    BY <1>2, <2>1, <2>2 DEF CreateClient, Attach, OpenWeb, HostFrame, webVars
  <2> QED
    BY <1>4, <1>5, <2>3
<1>9. CASE \E u \in Processes : ProxyStep(u) /\ HostFrame
  <2>1. PICK u \in Processes : ProxyStep(u) /\ HostFrame
    BY <1>9
  <2>2. /\ u \in ready /\ ready' = ready \ {u}
        /\ toHost' = [toHost EXCEPT ![u] = Tail(@)] /\ UNCHANGED <<object, webUp>>
    BY <2>1 DEF ProxyStep, ConstructPool, PurgePool, BufferAllocation, CommitToView, CommitWithoutView,
       Reads, Turn, Done, Served, Received, HostFrame, webVars
  <2>3. CASE u = w
    BY <1>2, <1>3, <2>2, <2>3
  <2>4. CASE u # w
    <3>1. u # v /\ toHost'[w] = toHost[w]
      BY <1>2, <2>2, <2>4
    <3> QED
      BY <1>4, <1>5, <2>2, <2>4, <3>1
  <2> QED
    BY <2>3, <2>4
<1>10. CASE \E u \in Views : (HandleViewMessage(u) \/ DestroyView(u)) /\ ViewFrame
  <2>1. PICK u \in Views : (HandleViewMessage(u) \/ DestroyView(u)) /\ ViewFrame
    BY <1>10
  <2>2. u # v /\ u # w
    BY <1>1, <1>2, <2>1
  <2>3. ready' = ready \ {u} /\ UNCHANGED <<toHost, object, webUp>>
    BY <2>1 DEF HandleViewMessage, DestroyView, Served, ViewFrame, webVars
  <2> QED
    BY <1>4, <1>5, <2>2, <2>3
<1>11. CASE Poll /\ HostFrame
  <2>1. ready = {} /\ v \in ready' /\ UNCHANGED <<toHost, object, webUp>>
    BY <1>1, <1>2, <1>11 DEF Poll, HostFrame, ipcVars, webVars
  <2>2. AllocationFirst(t)'
    BY <1>3, <1>5, <2>1
  <2> QED
    BY <1>3, <2>1, <2>2
<1>12. CASE UNCHANGED <<ready, toHost, object, webUp>>
  BY <1>4, <1>5, <1>12
<1>13. CASE \/ \E u \in Views : (CreateView(u) \/ ReleaseStep(u) \/ DispatchFrameComplete(u)) /\ ViewFrame
            \/ UNCHANGED vars
  BY <1>12, <1>13 DEF CreateView, Attach, OpenView, ReleaseStep, DispatchReleaseBuffer, DispatchFrameComplete,
     ViewFrame, webVars, ipcVars, loopVars, vars
<1> QED
  BY <1>6, <1>7, <1>8, <1>9, <1>10, <1>11, <1>13 DEF Next

(* So the registration of a pool is read before its first commit.          *)
LEMMA RegistrationFirstKept ==
  ASSUME OneTargetPerProcess, HandleInv, UpAttached, ReadyReadable, [Next]_vars, NEW t \in Targets, ~Young(t),
         RegisteredOnce(t), RegistrationFirst(t)
  PROVE  RegistrationFirst(t)'
<1>1. TypeOK
  BY DEF HandleInv, PageInv, MapInv, HeapInv
<1>2. ASSUME Registering(t)'
      PROVE  toView'[ViewOf[t]][1] = RegisterPoolMsg(poolID'[t]) /\ ViewsTurn(t)'
  <2>1. /\ ViewsTurn(t) /\ toView[ViewOf[t]] # <<>>
        /\ toView'[ViewOf[t]][1] = RegisterPoolMsg(poolID'[t])
        /\ ~HandleViewMessage(ViewOf[t]) /\ ~DestroyView(ViewOf[t])
    BY <1>2, RegistrationAhead
  <2> QED
    BY <1>1, <2>1, ViewsTurnKept
<1> QED
  BY <1>2 DEF RegistrationFirst

(* The answer is the first a view of one target hears of it.               *)
LEMMA AnswerSent ==
  ASSUME OneTargetPerProcess, OneTargetPerView, HandleInv, NEW t \in Targets, Young(t), ReceiveReply(t), WebFrame
  PROVE  \E q \in PoolIDs :
           /\ poolID'[t] = q /\ Sent(t)' = <<>>
           /\ \A b \in Slots : object'[t][b] = None
           /\ toView'[ViewOf[t]] = IF viewUp[ViewOf[t]] THEN <<RegisterPoolMsg(q)>> ELSE <<>>
<1>1. /\ TypeOK /\ Handshake /\ PoolsOwned /\ ProcessOf[t] \in Processes /\ ViewOf[t] \in Views
      /\ toView \in [Views -> Seq(ViewMessage)]
  BY PoolOf DEF HandleInv, PageInv, MapInv, HeapInv, TypeOK, IpcTypeOK
<1>2. PICK w, v : w = ProcessOf[t] /\ v = ViewOf[t]
  OBVIOUS
<1>3. PICK q \in PoolIDs : /\ poolID'[t] = q /\ Sent(t)' = <<>>
                           /\ \A b \in Slots : object'[t][b] = None
  BY FreshPool
<1>4. toView[v] = <<>>
  <2> SUFFICES ASSUME toView[v] # <<>> PROVE FALSE
    OBVIOUS
  <2>1. Head(toView[v]) \in {m \in ViewMessage : OwnedOf(v, m.poolID)}
    <3>1. toView[v] \in Seq({m \in ViewMessage : OwnedOf(v, m.poolID)})
      BY <1>1, <1>2 DEF PoolsOwned
    <3> QED
      BY <3>1, QueueType
  <2>2. PICK s \in Targets : ViewOf[s] = v /\ ~Young(s)
    BY <2>1 DEF OwnedOf, Owns
  <2> QED
    BY <1>2, <2>2 DEF OneTargetPerView
<1>5. Head(toWeb[w]).code = "PoolConstructionReply"
  <2>1. phase[t] = "constructing" /\ toWeb[w] # <<>> /\ HandshakeAt(w)
    BY <1>1, <1>2 DEF ReceiveReply, Handshake
  <2>2. PICK p \in PoolIDs : toWeb[w] = <<PoolConstructionReplyMsg(p)>>
    BY <1>2, <2>1 DEF HandshakeAt, Asked, Answered
  <2> QED
    BY <2>2 DEF PoolConstructionReplyMsg
<1>6. SendToView(v, RegisterPoolMsg(q))
  <2>1. /\ poolID' = [poolID EXCEPT ![t] = Head(toWeb[w]).poolID]
        /\ SendToView(v, RegisterPoolMsg(Head(toWeb[w]).poolID))
    BY <1>2, <1>5 DEF ReceiveReply
  <2> QED
    BY <1>1, <1>3, <2>1 DEF TypeOK, WebTypeOK
<1>7. toView'[v] = IF viewUp[v] THEN <<RegisterPoolMsg(q)>> ELSE <<>>
  BY <1>1, <1>2, <1>4, <1>6 DEF SendToView
<1> QED
  BY <1>2, <1>3, <1>7

(* So it is from the answer on: nothing is in the sockets.                 *)
LEMMA RegistrationStart ==
  ASSUME OneTargetPerProcess, OneTargetPerView, HandleInv, ReadyReadable,
         NEW t \in Targets, Young(t), ReceiveReply(t), WebFrame
  PROVE  RegistrationFirst(t)'
<1>1. ProcessOf[t] \in Processes /\ None \notin Objects
  BY PoolOf DEF HandleInv, PageInv, MapInv, HeapInv
<1>2. PICK q \in PoolIDs :
        /\ poolID'[t] = q /\ Sent(t)' = <<>>
        /\ \A b \in Slots : object'[t][b] = None
        /\ toView'[ViewOf[t]] = IF viewUp[ViewOf[t]] THEN <<RegisterPoolMsg(q)>> ELSE <<>>
  BY AnswerSent
<1>3. UNCHANGED <<ready, toHost>>
  BY DEF ReceiveReply, WebFrame, loopVars
<1>4. ProcessOf[t] \notin ready
  BY <1>1, <1>2, <1>3 DEF ReadyReadable, Sent
<1>5. ViewsTurn(t)'
  <2>1. AllocationFirst(t)'
    BY <1>1, <1>2 DEF AllocationFirst, InSlot
  <2> QED
    BY <1>3, <1>4, <2>1 DEF ViewsTurn
<1>6. Registering(t)' => toView'[ViewOf[t]][1] = RegisterPoolMsg(q)
  <2>1. toView'[ViewOf[t]] = <<>> => ~Registering(t)'
    BY EmptyQueue DEF Registering, Among
  <2>2. <<RegisterPoolMsg(q)>>[1] = RegisterPoolMsg(q)
    OBVIOUS
  <2> QED
    BY <1>2, <2>1, <2>2
<1> QED
  BY <1>2, <1>5, <1>6 DEF RegistrationFirst

-----------------------------------------------------------------------------
(* The end of a pool's registration.                                       *)

(* What a step does to the socket of a view.                               *)
LEMMA ViewQueue ==
  ASSUME TypeOK, [Next]_vars, NEW v \in Views
  PROVE  \/ HandleViewMessage(v) /\ toView[v] # <<>> /\ toView'[v] = Tail(toView[v])
         \/ DestroyView(v) /\ toView'[v] = <<>>
         \/ toView'[v] = toView[v]
         \/ \E q : toView'[v] = Append(toView[v], RegisterPoolMsg(q))
         \/ \E u \in Targets : /\ DestroyTarget(u)
                               /\ toView'[v] = Append(toView[v], UnregisterPoolMsg(poolID[u]))
<1>1. toView \in [Views -> Seq(ViewMessage)]
  BY DEF TypeOK, IpcTypeOK
<1>2. CASE \E u \in Targets : TargetStep(u) /\ WebFrame
  <2>1. PICK u \in Targets : TargetStep(u)
    BY <1>2
  <2>2. \/ UNCHANGED toView
        \/ \E q : toView' = [toView EXCEPT ![ViewOf[u]] = Append(@, RegisterPoolMsg(q))]
        \/ /\ DestroyTarget(u)
           /\ toView' = [toView EXCEPT ![ViewOf[u]] = Append(@, UnregisterPoolMsg(poolID[u]))]
    BY <2>1 DEF TargetStep, CreateTarget, Initialize, ReceiveReply, Resize, FrameAborts, FrameReuses,
       FrameFailsToAllocate, FrameAllocates, FrameRendered, Deinitialize, DestroyTarget, SendToView, ipcVars
  <2> QED
    BY <1>1, <2>2
<1>3. CASE \E u \in Views : HandleViewMessage(u) \/ DestroyView(u)
  BY <1>1, <1>3 DEF HandleViewMessage, Received, DestroyView, CloseView
<1>4. CASE UNCHANGED toView
  BY <1>4
<1> QED
  BY <1>2, <1>3, <1>4 DEF Next, HandleWebMessage, WebExits, CreateClient, OpenWeb, ProxyStep, ConstructPool,
     PurgePool, BufferAllocation, CommitToView, CommitWithoutView, CreateView, OpenView, ReleaseStep,
     DispatchReleaseBuffer, DispatchFrameComplete, Poll, ipcVars, vars

(* Nothing of what has ended starts again.                                 *)
LEMMA TornDownKept ==
  ASSUME TypeOK, UpAttached, [Next]_vars, NEW t \in Targets, ~Young(t)
  PROVE  /\ TornDown(t) => TornDown(t)'
         /\ phase[t] = "destroyed" => phase'[t] = "destroyed"
<1>1. /\ ProcessOf[t] \in Processes /\ ViewOf[t] \in Views
      /\ webUp \in [Processes -> BOOLEAN] /\ viewUp \in [Views -> BOOLEAN] /\ phase \in [Targets -> Phases]
      /\ Attached(ProcessOf[t]) /\ Attached(ViewOf[t])
  BY PoolOf DEF TypeOK, IpcTypeOK, WebTypeOK, UpAttached, Young
<1>2. ASSUME /\ UNCHANGED webUp \/ \E w : webUp' = [webUp EXCEPT ![w] = FALSE]
             /\ UNCHANGED viewUp \/ \E v : viewUp' = [viewUp EXCEPT ![v] = FALSE],
             \/ UNCHANGED phase
             \/ \E u \in Targets : \E x :
                  /\ phase' = [phase EXCEPT ![u] = x]
                  /\ phase[u] \in {"deinitialized", "destroyed"} => phase[u] = "deinitialized" /\ x = "destroyed"
      PROVE  /\ TornDown(t) => TornDown(t)'
             /\ phase[t] = "destroyed" => phase'[t] = "destroyed"
  <2>1. /\ webUp'[ProcessOf[t]] => webUp[ProcessOf[t]]
        /\ viewUp'[ViewOf[t]] => viewUp[ViewOf[t]]
    BY <1>1, <1>2
  <2>2. /\ phase[t] \in {"deinitialized", "destroyed"} => phase'[t] \in {"deinitialized", "destroyed"}
        /\ phase[t] = "destroyed" => phase'[t] = "destroyed"
    BY <1>1, <1>2
  <2> QED
    BY <2>1, <2>2 DEF TornDown
<1>3. CASE \E u \in Targets : TargetStep(u) /\ WebFrame
  <2>1. PICK u \in Targets : TargetStep(u)
    BY <1>3
  <2>2. (UNCHANGED webUp \/ \E w : webUp' = [webUp EXCEPT ![w] = FALSE]) /\ UNCHANGED viewUp
    BY <2>1 DEF TargetStep, CreateTarget, Initialize, ReceiveReply, Resize, FrameAborts, CloseWeb, FrameReuses,
       FrameFailsToAllocate, FrameAllocates, FrameRendered, Deinitialize, DestroyTarget, ipcVars
  <2>3. \/ UNCHANGED phase
        \/ \E x : /\ phase' = [phase EXCEPT ![u] = x]
                  /\ phase[u] \in {"deinitialized", "destroyed"} => phase[u] = "deinitialized" /\ x = "destroyed"
    BY <2>1 DEF TargetStep, CreateTarget, Initialize, ReceiveReply, Resize, FrameAborts, FrameReuses,
       FrameFailsToAllocate, FrameAllocates, FrameRendered, Deinitialize, DestroyTarget, Callable, webVars
  <2> QED
    BY <1>2, <2>2, <2>3
<1>4. CASE \E w \in Processes : (HandleWebMessage(w) \/ WebExits(w)) /\ WebFrame
  BY <1>2, <1>4 DEF HandleWebMessage, WebExits, CloseWeb, webVars
<1>5. CASE \E w \in Processes : CreateClient(w) /\ HostFrame
  <2>1. PICK w \in Processes : CreateClient(w) /\ HostFrame
    BY <1>5
  <2>2. w # ProcessOf[t] /\ webUp' = [webUp EXCEPT ![w] = TRUE] /\ UNCHANGED <<viewUp, phase>>
    BY <1>1, <2>1 DEF CreateClient, Attach, OpenWeb, HostFrame, webVars
  <2> QED
    BY <1>1, <2>2 DEF TornDown
<1>6. CASE \E v \in Views : CreateView(v) /\ ViewFrame
  <2>1. PICK v \in Views : CreateView(v) /\ ViewFrame
    BY <1>6
  <2>2. v # ViewOf[t] /\ viewUp' = [viewUp EXCEPT ![v] = TRUE] /\ UNCHANGED <<webUp, phase>>
    BY <1>1, <2>1 DEF CreateView, Attach, OpenView, ViewFrame, webVars
  <2> QED
    BY <1>1, <2>2 DEF TornDown
<1>7. CASE \E v \in Views : DestroyView(v) /\ ViewFrame
  BY <1>2, <1>7 DEF DestroyView, CloseView, ViewFrame, webVars
<1>8. CASE \/ \E w \in Processes : ProxyStep(w) /\ HostFrame
           \/ \E v \in Views : (HandleViewMessage(v) \/ ReleaseStep(v) \/ DispatchFrameComplete(v)) /\ ViewFrame
           \/ (Poll /\ HostFrame) \/ UNCHANGED vars
  <2>1. UNCHANGED <<webUp, viewUp, phase>>
    BY <1>8 DEF ProxyStep, ConstructPool, PurgePool, BufferAllocation, CommitToView, CommitWithoutView,
       HandleViewMessage, ReleaseStep, DispatchReleaseBuffer, DispatchFrameComplete, Poll, HostFrame, ViewFrame,
       ipcVars, webVars, vars
  <2> QED
    BY <1>2, <2>1
<1> QED
  BY <1>3, <1>4, <1>5, <1>6, <1>7, <1>8 DEF Next

(* A view is told of the end of a pool by the target's destructor.         *)
LEMMA UnregisterSent ==
  ASSUME OneTargetPerProcess, HandleInv, UpAttached, [Next]_vars, NEW t \in Targets, ~Young(t),
         UnregisteredTornDown(t), NEW i \in 1 .. Len(toView'[ViewOf[t]]),
         toView'[ViewOf[t]][i] = UnregisterPoolMsg(poolID'[t])
  PROVE  phase'[t] = "destroyed"
<1>1. /\ TypeOK /\ Handshake /\ toView \in [Views -> Seq(ViewMessage)] /\ ViewOf[t] \in Views
      /\ poolID'[t] = poolID[t] /\ poolID[t] \in PoolIDs
      /\ phase \in [Targets -> Phases]
  BY PoolOf, PoolKept DEF HandleInv, PageInv, MapInv, HeapInv, TypeOK, IpcTypeOK, WebTypeOK
<1>2. PICK v, p, y : v = ViewOf[t] /\ p = poolID[t] /\ y = UnregisterPoolMsg(p)
  OBVIOUS
<1>3. PICK s, r : s \in Seq(ViewMessage) /\ s = toView[v] /\ r = toView'[v] /\ i \in 1 .. Len(r) /\ r[i] = y
  BY <1>1, <1>2
<1>4. ASSUME NEW j \in 1 .. Len(s), s[j] = y
      PROVE  phase'[t] = "destroyed"
  <2>1. phase[t] = "destroyed"
    BY <1>2, <1>3, <1>4 DEF UnregisteredTornDown
  <2> QED
    BY <1>1, <2>1, TornDownKept
<1>5. CASE s # <<>> /\ r = Tail(s)
  <2>1. Len(s) \in Nat /\ Len(r) = Len(s) - 1 /\ \A k \in 1 .. Len(r) : r[k] = s[k + 1]
    BY <1>3, <1>5
  <2>2. i + 1 \in 1 .. Len(s) /\ s[i + 1] = y
    BY <1>3, <2>1
  <2> QED
    BY <1>4, <2>2
<1>6. CASE r = <<>>
  BY <1>3, <1>6, EmptyQueue
<1>7. CASE r = s
  BY <1>3, <1>4, <1>7
<1>8. ASSUME NEW m, r = Append(s, m)
      PROVE  phase'[t] = "destroyed" \/ m = y
  <2>1. /\ Len(s) \in Nat /\ Len(r) = Len(s) + 1 /\ r[Len(r)] = m
        /\ \A k \in 1 .. Len(s) : r[k] = s[k]
    BY ONLY <1>3, <1>8, AppendedLength
  <2>2. CASE i \in 1 .. Len(s)
    BY <1>3, <1>4, <2>1, <2>2
  <2>3. CASE i = Len(r)
    BY <1>3, <2>1, <2>3
  <2> QED
    BY <1>3, <2>1, <2>2, <2>3
<1>9. CASE \E q : r = Append(s, RegisterPoolMsg(q))
  <2>1. PICK q : r = Append(s, RegisterPoolMsg(q))
    BY <1>9
  <2>2. RegisterPoolMsg(q) # y
    BY <1>2 DEF RegisterPoolMsg, UnregisterPoolMsg
  <2> QED
    BY <1>8, <2>1, <2>2
<1>10. CASE \E u \in Targets : DestroyTarget(u) /\ r = Append(s, UnregisterPoolMsg(poolID[u]))
  <2>1. PICK u \in Targets : DestroyTarget(u) /\ r = Append(s, UnregisterPoolMsg(poolID[u]))
    BY <1>10
  <2>2. phase'[t] = "destroyed" \/ UnregisterPoolMsg(poolID[u]) = y
    BY <1>8, <2>1
  <2>3. UnregisterPoolMsg(poolID[u]) = y => u = t
    <3>1. UnregisterPoolMsg(poolID[u]) = y => poolID[u] = p
      BY <1>2 DEF UnregisterPoolMsg
    <3>2. poolID[u] = p => Owns(u, p) /\ Owns(t, p)
      BY <1>2, <2>1 DEF Owns, Young, DestroyTarget
    <3> QED
      BY <1>1, <1>2, <3>1, <3>2, OwnersClient
  <2>4. u = t => phase'[t] = "destroyed"
    BY <1>1, <2>1 DEF DestroyTarget
  <2> QED
    BY <2>2, <2>3, <2>4
<1>11. \/ s # <<>> /\ r = Tail(s)
       \/ r = <<>>
       \/ r = s
       \/ \E q : r = Append(s, RegisterPoolMsg(q))
       \/ \E u \in Targets : DestroyTarget(u) /\ r = Append(s, UnregisterPoolMsg(poolID[u]))
  BY <1>1, <1>2, <1>3, ViewQueue
<1> QED
  BY <1>5, <1>6, <1>7, <1>9, <1>10, <1>11

(* A pool loses its view when the view is destroyed, or reads that the     *)
(* target was.                                                             *)
LEMMA MapLost ==
  ASSUME OneTargetPerProcess, HandleInv, ViewsPoolsOwned, [Next]_vars, NEW t \in Targets, ~Young(t),
         UnregisteredTornDown(t), viewBackendMap[poolID[t]] # None, viewBackendMap'[poolID[t]] = None
  PROVE  DestroyView(ViewOf[t]) \/ phase'[t] = "destroyed"
<1>1. /\ TypeOK /\ Handshake /\ PoolsOwned /\ toView \in [Views -> Seq(ViewMessage)] /\ ViewOf[t] \in Views
      /\ poolID[t] \in PoolIDs /\ poolIds \in [Views -> SUBSET PoolIDs]
      /\ viewBackendMap \in [PoolIDs -> Views \cup {None}] /\ None \notin Views
  BY PoolOf, IpcAssumption DEF HandleInv, PageInv, MapInv, HeapInv, TypeOK, IpcTypeOK, HostTypeOK, ViewTypeOK
<1>2. PICK p \in PoolIDs : p = poolID[t] /\ Owns(t, p)
  BY <1>1 DEF Owns
<1>3. ASSUME NEW v \in Views, OwnedOf(v, p)
      PROVE  v = ViewOf[t]
  <2>1. PICK s \in Targets : ViewOf[s] = v /\ Owns(s, p)
    BY <1>3 DEF OwnedOf
  <2> QED
    BY <1>1, <1>2, <2>1, OwnersClient
<1>4. PICK v \in Views : (HandleViewMessage(v) \/ DestroyView(v)) /\ ViewFrame
  <2>1. viewBackendMap' # viewBackendMap
    OBVIOUS
  <2> QED
    BY <2>1 DEF Next, WebFrame, CreateClient, ProxyStep, ConstructPool, PurgePool, BufferAllocation,
       CommitToView, CommitWithoutView, CreateView, ReleaseStep, DispatchReleaseBuffer, ReleaseBuffer,
       DispatchFrameComplete, FrameComplete, Poll, hostVars, vars
<1>5. CASE DestroyView(v)
  <2>1. p \in poolIds[v]
    BY <1>1, <1>2, <1>5 DEF DestroyView
  <2> QED
    BY <1>3, <1>5, <2>1 DEF ViewsPoolsOwned
<1>6. CASE HandleViewMessage(v)
  <2>1. PICK m : m = Head(toView[v])
    OBVIOUS
  <2>2. /\ toView[v] # <<>> /\ toView[v] \in Seq(ViewMessage)
        /\ m \in ViewMessage /\ OwnedOf(v, m.poolID)
        /\ \/ m.code = "RegisterPool" /\ RegisterPool(v, m.poolID)
           \/ m.code = "UnregisterPool" /\ UnregisterPool(v, m.poolID)
    <3>1. toView[v] # <<>> /\ toView[v] \in Seq({x \in ViewMessage : OwnedOf(v, x.poolID)})
      BY <1>1, <1>6 DEF HandleViewMessage, PoolsOwned
    <3>2. m \in {x \in ViewMessage : OwnedOf(v, x.poolID)}
      BY <2>1, <3>1, QueueType
    <3> QED
      BY <1>1, <1>6, <2>1, <3>1, <3>2 DEF HandleViewMessage
  <2>3. m.code = "UnregisterPool" /\ m.poolID = p
    BY <1>1, <1>2, <2>2 DEF RegisterPool, UnregisterPool
  <2>4. m = UnregisterPoolMsg(p)
    BY <2>2, <2>3 DEF ViewMessage, UnregisterPoolMsg
  <2>5. v = ViewOf[t]
    BY <1>3, <2>2, <2>3
  <2>6. 1 \in 1 .. Len(toView[v]) /\ toView[v][1] = m
    BY <2>1, <2>2, HeadTailProperties, LenProperties
  <2>7. phase[t] = "destroyed"
    BY <1>2, <2>4, <2>5, <2>6 DEF UnregisteredTornDown
  <2> QED
    BY <1>4, <2>7 DEF ViewFrame, webVars
<1> QED
  BY <1>4, <1>5, <1>6

(* A registration is read, which gives the pool its view, or is lost with  *)
(* the view.                                                               *)
LEMMA RegistrationLost ==
  ASSUME OneTargetPerProcess, HandleInv, [Next]_vars, NEW t \in Targets, ~Young(t), RegisteredOnce(t),
         RegistrationFirst(t), Registering(t), Unregistered(t)'
  PROVE  DestroyView(ViewOf[t])
<1>1. /\ TypeOK /\ toView \in [Views -> Seq(ViewMessage)] /\ ViewOf[t] \in Views
      /\ poolID[t] \in PoolIDs /\ poolID'[t] = poolID[t]
      /\ viewBackendMap \in [PoolIDs -> Views \cup {None}] /\ None \notin Views
  BY PoolOf, PoolKept, IpcAssumption DEF HandleInv, PageInv, MapInv, HeapInv, TypeOK, IpcTypeOK, HostTypeOK
<1>2. PICK v, p, x : v = ViewOf[t] /\ p = poolID[t] /\ x = RegisterPoolMsg(p)
  OBVIOUS
<1>3. PICK s, r : s \in Seq(ViewMessage) /\ s = toView[v] /\ r = toView'[v]
  BY <1>1, <1>2
<1>4. /\ Among(s, {x}, Len(s)) /\ ~Among(r, {x}, Len(r)) /\ s[1] = x
      /\ viewBackendMap[p] = None /\ viewBackendMap'[p] = None
  BY <1>1, <1>2, <1>3 DEF Unregistered, Registering, RegisteredOnce, RegistrationFirst, Registrations, Among
<1>5. s # <<>> /\ Head(s) = x /\ Len(s) \in Nat /\ 1 \in 1 .. Len(s)
  <2>1. s # <<>>
    BY <1>4, EmptyQueue DEF Among
  <2> QED
    BY <1>3, <1>4, <2>1, HeadTailProperties, LenProperties
<1>6. ~HandleViewMessage(v)
  <2> SUFFICES ASSUME HandleViewMessage(v) PROVE FALSE
    OBVIOUS
  <2>1. RegisterPool(v, p)
    BY <1>2, <1>3, <1>5 DEF HandleViewMessage, RegisterPoolMsg
  <2> QED
    BY <1>1, <1>2, <1>4, <2>1 DEF RegisterPool
<1>7. r # s
  BY <1>4
<1>8. ASSUME NEW m PROVE r # Append(s, m)
  <2> SUFFICES ASSUME r = Append(s, m) PROVE FALSE
    OBVIOUS
  <2>1. Among(r, {x}, Len(r)) <=> m \in {x} \/ Among(s, {x}, Len(s))
    BY ONLY <1>3, r = Append(s, m), AmongAppended
  <2> QED
    BY <1>4, <2>1
<1>9. \/ HandleViewMessage(v)
      \/ DestroyView(v)
      \/ r = s
      \/ \E m : r = Append(s, m)
  BY <1>1, <1>2, <1>3, ViewQueue
<1> QED
  BY <1>2, <1>6, <1>7, <1>8, <1>9

(* A pool without a view has lost its target or its view.                  *)
LEMMA UnregisteredKept ==
  ASSUME OneTargetPerProcess, HandleInv, UpAttached, ViewsPoolsOwned, [Next]_vars, NEW t \in Targets, ~Young(t),
         RegisteredOnce(t), RegistrationFirst(t), UnregisteredTornDown(t)
  PROVE  UnregisteredTornDown(t)'
<1>1. TypeOK /\ poolID'[t] = poolID[t] /\ ViewOf[t] \in Views /\ viewUp \in [Views -> BOOLEAN]
  BY PoolOf, PoolKept DEF HandleInv, PageInv, MapInv, HeapInv, TypeOK, IpcTypeOK
<1>2. DestroyView(ViewOf[t]) \/ phase'[t] = "destroyed" => TornDown(t)'
  BY <1>1 DEF DestroyView, CloseView, TornDown
<1>3. ASSUME Unregistered(t)'
      PROVE  TornDown(t)'
  <2>1. CASE Unregistered(t)
    <3>1. TornDown(t)
      BY <2>1 DEF UnregisteredTornDown
    <3> QED
      BY <1>1, <3>1, TornDownKept
  <2>2. CASE Registering(t)
    BY <1>2, <1>3, <2>2, RegistrationLost
  <2>3. CASE viewBackendMap[poolID[t]] # None
    <3>1. viewBackendMap'[poolID[t]] = None
      BY <1>1, <1>3 DEF Unregistered
    <3> QED
      BY <1>2, <2>3, <3>1, MapLost
  <2> QED
    BY <2>1, <2>2, <2>3 DEF Unregistered
<1>4. ASSUME NEW i \in 1 .. Len(toView'[ViewOf[t]]), toView'[ViewOf[t]][i] = UnregisterPoolMsg(poolID'[t])
      PROVE  phase'[t] = "destroyed"
  BY <1>4, UnregisterSent
<1> QED
  BY <1>3, <1>4 DEF UnregisteredTornDown

(* It is so from the answer on: the view that lives is told.               *)
LEMMA UnregisteredStart ==
  ASSUME OneTargetPerProcess, OneTargetPerView, HandleInv, NEW t \in Targets, Young(t), ReceiveReply(t), WebFrame
  PROVE  UnregisteredTornDown(t)'
<1>1. PICK q \in PoolIDs :
        /\ poolID'[t] = q
        /\ toView'[ViewOf[t]] = IF viewUp[ViewOf[t]] THEN <<RegisterPoolMsg(q)>> ELSE <<>>
  BY AnswerSent
<1>2. viewUp' = viewUp
  BY DEF ReceiveReply
<1>3. CASE ~viewUp[ViewOf[t]]
  BY <1>1, <1>2, <1>3, EmptyQueue DEF UnregisteredTornDown, TornDown
<1>4. CASE viewUp[ViewOf[t]]
  <2>1. PICK r, x : r = toView'[ViewOf[t]] /\ x = RegisterPoolMsg(q) /\ r = <<x>>
    BY <1>1, <1>4
  <2>2. Len(r) = 1 /\ r[1] = x /\ 1 \in 1 .. 1 /\ \A i \in 1 .. 1 : i = 1
    BY <2>1
  <2>3. Registering(t)'
    BY <1>1, <2>1, <2>2 DEF Registering, Registrations, Among
  <2>4. x # UnregisterPoolMsg(q)
    BY <2>1 DEF RegisterPoolMsg, UnregisterPoolMsg
  <2> QED
    BY <1>1, <2>1, <2>2, <2>3, <2>4 DEF UnregisteredTornDown, Unregistered
<1> QED
  BY <1>3, <1>4

-----------------------------------------------------------------------------
(* The invariant.                                                          *)

(* Every step keeps it.                                                    *)
LEMMA TeardownStep ==
  ASSUME OneTargetPerProcess, OneTargetPerView, PoolInv, UpAttached, TeardownInv, [Next]_vars
  PROVE  TeardownInv'
<1>1. MirrorInv /\ HandleInv /\ TypeOK /\ PoolsOwned /\ ReadyReadable /\ ViewsPoolsOwned
  BY DEF TeardownInv, MirrorInv, HandleInv, PageInv, MapInv, HeapInv
<1>2. MirrorInv' /\ ReadyReadable' /\ ViewsPoolsOwned'
  BY <1>1, MirrorStep, ReadyStep, ViewsPoolsStep
<1>3. ASSUME NEW t \in Targets, ~Young(t)'
      PROVE  RegistrationFirst(t)' /\ UnregisteredTornDown(t)'
  <2>1. CASE Young(t)
    <3>1. ReceiveReply(t) /\ WebFrame
      BY <1>1, <1>3, <2>1, Answering
    <3> QED
      BY <1>1, <2>1, <3>1, RegistrationStart, UnregisteredStart
  <2>2. CASE ~Young(t)
    <3>1. RegisteredOnce(t) /\ RegistrationFirst(t) /\ UnregisteredTornDown(t)
      BY <2>2 DEF TeardownInv, MirrorInv, MirrorOf
    <3> QED
      BY <1>1, <2>2, <3>1, RegistrationFirstKept, UnregisteredKept
  <2> QED
    BY <2>1, <2>2
<1> QED
  BY <1>2, <1>3 DEF TeardownInv

(* It holds at the start, when nothing was sent and no target is answered. *)
LEMMA TeardownInit == Init => TeardownInv
<1> SUFFICES ASSUME Init PROVE TeardownInv
  OBVIOUS
<1>1. \A t \in Targets : Young(t)
  BY DEF Init, WebInit, Young
<1>2. ReadyReadable /\ ViewsPoolsOwned
  BY DEF Init, LoopInit, ViewInit, ReadyReadable, ViewsPoolsOwned
<1> QED
  BY <1>1, <1>2, MirrorInit DEF TeardownInv

(* With views of one target each, the main loop reads the registration of  *)
(* a pool before its first commit, and the pool keeps its view until the   *)
(* target or the view ends.                                                *)
THEOREM TeardownInvariant ==
  ASSUME OneTargetPerProcess, OneTargetPerView
  PROVE  Spec => []TeardownInv
<1>1. Spec => [](PoolInv /\ LockInv)
  BY Background
<1>2. PoolInv /\ LockInv /\ TeardownInv /\ [Next]_vars => TeardownInv'
  BY TeardownStep DEF LockInv
<1> QED
  BY <1>1, <1>2, TeardownInit, PTL DEF Spec

(* A commit of a target finds its view as long as both live: when it is    *)
(* read, the registration has been.                                        *)
LEMMA TeardownCommits ==
  ASSUME TeardownInv
  PROVE  CommitWithoutViewMeansTeardown
<1> SUFFICES ASSUME TeardownInv, NEW w \in Processes, Reads(w, "BufferCommit"),
                    viewBackendMap[Head(toHost[w]).poolID] = None
             PROVE  \E t \in Targets :
                      /\ ProcessOf[t] = w /\ poolID[t] = Head(toHost[w]).poolID
                      /\ ~webUp[w] \/ ~viewUp[ViewOf[t]] \/ phase[t] \in {"deinitialized", "destroyed"}
  BY DEF CommitWithoutViewMeansTeardown
<1>1. TypeOK /\ Handshake /\ toHost \in [Processes -> Seq(HostMessage)]
  BY DEF TeardownInv, MirrorInv, HandleInv, PageInv, MapInv, HeapInv, TypeOK, IpcTypeOK
<1>2. /\ toHost[w] # <<>> /\ Head(toHost[w]).code = "BufferCommit" /\ w \in ready
      /\ Head(toHost[w]) \in HostMessage
  BY <1>1 DEF Reads, Turn
<1>3. PICK t \in Targets : ProcessOf[t] = w /\ Owns(t, Head(toHost[w]).poolID)
  BY <1>1, <1>2, HostHead
<1>4. /\ ~Young(t) /\ poolID[t] = Head(toHost[w]).poolID
      /\ RegistrationFirst(t) /\ UnregisteredTornDown(t)
  BY <1>3 DEF Owns, TeardownInv
<1>5. ~Registering(t)
  <2> SUFFICES ASSUME Registering(t) PROVE FALSE
    OBVIOUS
  <2>1. PICK b \in Slots : Head(Sent(t)) \in Commits(b)
    BY <1>2, <1>3, HostMessageFields DEF Commits, Sent
  <2>2. ViewsTurn(t) /\ ~AllocationFirst(t)
    BY <1>2, <1>3, <1>4, <2>1 DEF RegistrationFirst, AllocationFirst, Sent
  <2> QED
    BY <1>2, <1>3, <2>2 DEF ViewsTurn
<1>6. TornDown(t)
  BY <1>4, <1>5 DEF UnregisteredTornDown, Unregistered
<1> QED
  BY <1>3, <1>4, <1>6 DEF TornDown

(* bufferCommit finds no view backend for a pool only when the view or its *)
(* page has been destroyed, as the comment there says                      *)
(* (renderer-host.cpp:258): no frame of a live page is dropped.            *)
THEOREM CommitsFindViews ==
  ASSUME OneTargetPerProcess, OneTargetPerView
  PROVE  Spec => []CommitWithoutViewMeansTeardown
<1>1. TeardownInv => CommitWithoutViewMeansTeardown
  BY TeardownCommits
<1> QED
  BY <1>1, TeardownInvariant, PTL

-----------------------------------------------------------------------------
(* Where the buffers of locked slots are.                                  *)

(* What happens to the messages to a web process.                          *)
LEMMA WebQueue ==
  ASSUME HeapInv, [Next]_vars, NEW w \in Processes
  PROVE  \/ HandleWebMessage(w) /\ toWeb[w] # <<>> /\ toWeb'[w] = Tail(toWeb[w])
         \/ \E t \in Targets : ProcessOf[t] = w /\ phase[t] = "constructing"
         \/ toWeb'[w] = toWeb[w]
         \/ ~webUp'[w] /\ toWeb'[w] = <<>>
         \/ \E m : toWeb'[w] = Append(toWeb[w], m)
<1>1. toWeb \in [Processes -> Seq(WebMessage)] /\ webUp \in [Processes -> BOOLEAN] /\ TypeOK
  BY DEF HeapInv, TypeOK, IpcTypeOK
<1>2. CASE \E u \in Targets : TargetStep(u) /\ WebFrame
  <2>1. PICK u \in Targets : TargetStep(u)
    BY <1>2
  <2>2. CASE ReceiveReply(u)
    BY <1>1, <2>2 DEF ReceiveReply, Received
  <2>3. CASE FrameAborts(u)
    BY <1>1, <2>3 DEF FrameAborts, CloseWeb
  <2>4. CASE ~ReceiveReply(u) /\ ~FrameAborts(u)
    BY <2>1, <2>4 DEF TargetStep, CreateTarget, Initialize, Resize, FrameReuses,
       FrameFailsToAllocate, FrameAllocates, FrameRendered, Deinitialize, DestroyTarget, ipcVars
  <2> QED
    BY <2>2, <2>3, <2>4
<1>3. CASE \E u \in Processes : (HandleWebMessage(u) \/ WebExits(u)) /\ WebFrame
  BY <1>1, <1>3 DEF HandleWebMessage, Received, WebExits, CloseWeb
<1>4. CASE UNCHANGED toWeb
  BY <1>4
<1>5. ASSUME NEW x, NEW m, toWeb' = [toWeb EXCEPT ![x] = Append(@, m)]
      PROVE  toWeb'[w] = toWeb[w] \/ toWeb'[w] = Append(toWeb[w], m)
  BY <1>1, <1>5
<1>6. CASE \E u \in Processes : ConstructPool(u)
  <2>1. PICK x, m : UNCHANGED toWeb \/ toWeb' = [toWeb EXCEPT ![x] = Append(@, m)]
    BY <1>6 DEF ConstructPool, SendToWeb
  <2> QED
    BY <1>5, <2>1
<1>7. CASE \E v \in Views : DispatchFrameComplete(v)
  <2>1. PICK x, m : UNCHANGED toWeb \/ toWeb' = [toWeb EXCEPT ![x] = Append(@, m)]
    BY <1>7 DEF DispatchFrameComplete, FrameComplete, SendToWeb
  <2> QED
    BY <1>5, <2>1
<1>8. CASE \E v \in Views : ReleaseStep(v)
  <2>0. PICK v \in Views : ReleaseStep(v)
    BY <1>8
  <2>1. PICK i \in 1 .. Len(held[v]) : DispatchReleaseBuffer(v, i)
    BY <2>0 DEF ReleaseStep
  <2>2. PICK x, m : UNCHANGED toWeb \/ toWeb' = [toWeb EXCEPT ![x] = Append(@, m)]
    BY <2>1 DEF DispatchReleaseBuffer, ReleaseBuffer, SendToWeb
  <2> QED
    BY <1>5, <2>2
<1> QED
  BY <1>2, <1>3, <1>4, <1>6, <1>7, <1>8 DEF Next, CreateClient, OpenWeb, ProxyStep,
     PurgePool, BufferAllocation, CommitToView, CommitWithoutView, CreateView, OpenView,
     HandleViewMessage, DestroyView, CloseView, Poll, ipcVars, vars

(* A release that is read unlocks its slot.                                *)
LEMMA ReleaseRead ==
  ASSUME HandleInv, NEW t \in Targets, phase[t] = "ready", NEW b \in Slots, HandleWebMessage(ProcessOf[t]),
         Head(toWeb[ProcessOf[t]]) = ReleaseBufferMsg(poolID[t], b)
  PROVE  ~locked'[t][b]
<1>1. /\ locked \in [Targets -> [Slots -> BOOLEAN]] /\ TargetsRegistered
      /\ None \notin Targets
  BY IpcAssumption DEF HandleInv, PageInv, MapInv, HeapInv, TypeOK, WebTypeOK
<1>2. PICK m : m = Head(toWeb[ProcessOf[t]])
  OBVIOUS
<1>3. m.code = "ReleaseBuffer" /\ m.poolID = poolID[t] /\ m.bufferID = b
  BY <1>2 DEF ReleaseBufferMsg
<1>4. targetMap[ProcessOf[t]][m.poolID] = t
  BY <1>1, <1>3 DEF TargetsRegistered
<1>5. locked' = [locked EXCEPT ![t][b] = FALSE]
  BY <1>1, <1>2, <1>3, <1>4 DEF HandleWebMessage
<1> QED
  BY <1>1, <1>5

(* An application loses a buffer when it releases it or with its view.     *)
LEMMA HeldLost ==
  ASSUME HeapInv, [Next]_vars, NEW v \in Views, NEW o \in Objects, HeldBy(v, o)
  PROVE  \/ HeldBy(v, o)'
         \/ DestroyView(v)
         \/ \E u \in Views : \E i \in 1 .. Len(held[u]) : DispatchReleaseBuffer(u, i) /\ held[u][i] = o
<1>1. TypeOK /\ held \in [Views -> Seq(Objects)]
  BY DEF HeapInv, TypeOK, HostTypeOK
<1>2. CASE UNCHANGED held
  BY <1>2 DEF HeldBy
<1>3. CASE \E w \in Processes : CommitToView(w)
  BY <1>3, HeldAfterCommit
<1>4. CASE \E u \in Views : ReleaseStep(u)
  <2>0. PICK u \in Views : ReleaseStep(u)
    BY <1>4
  <2>1. PICK i \in 1 .. Len(held[u]) : DispatchReleaseBuffer(u, i)
    BY <2>0 DEF ReleaseStep
  <2> QED
    BY <1>1, <2>1, HeldAfterRelease
<1>5. CASE \E u \in Views : DestroyView(u)
  <2>1. PICK u \in Views : DestroyView(u)
    BY <1>5
  <2>2. u # v => held'[v] = held[v]
    BY <1>1, <2>1 DEF DestroyView
  <2> QED
    BY <2>1, <2>2 DEF HeldBy
<1> QED
  BY <1>2, <1>3, <1>4, <1>5 DEF Next, WebFrame, appVars, CreateClient, ProxyStep, ConstructPool,
     PurgePool, BufferAllocation, CommitWithoutView, CreateView,
     HandleViewMessage, DispatchFrameComplete, Poll, vars

(* Only a purge of its slots marks a buffer, and the newest of a slot is   *)
(* not purged before the target has dropped it.                            *)
LEMMA UnmarkedKept ==
  ASSUME OneTargetPerProcess, HandleInv, [Next]_vars, NEW t \in Targets, ~Young(t), NewestLast(t),
         NEW b \in Slots, NEW o \in Objects, InSlot(t, b, o),
         hostBuffer[o] # None => ~hostBuffer[o].pendingDelete, hostBuffer'[o] # None
  PROVE  ~hostBuffer'[o].pendingDelete
<1>1. /\ HeapInv /\ TypeOK /\ Handshake /\ HandlesPlaced /\ SlotsPointToLive
      /\ hostBuffer \in [Objects -> Buffer \cup {None}]
  BY DEF HandleInv, PageInv, MapInv, HeapInv, TypeOK, HostTypeOK, HostHeapConsistent
<1>2. CASE \E w \in Processes : ProxyStep(w)
  <2>1. PICK w \in Processes : ProxyStep(w)
    BY <1>2
  <2> SUFFICES ASSUME hostBuffer'[o].pendingDelete PROVE FALSE
    OBVIOUS
  <2>2. hostBuffer[o] # None /\ PurgePool(w)
    BY <1>1, <2>1, ProxyBuffers
  <2>3. PICK h : h = Head(toHost[w])
    OBVIOUS
  <2>4. /\ h \in Purges /\ h.poolID \in PoolIDs /\ toHost[w] # <<>> /\ toHost[w] \in Seq(HostMessage)
        /\ h.code # "PoolConstruction"
    BY <1>1, <2>1, <2>2, <2>3, ProxyMessage DEF PurgePool, ConstructPool, Reads
  <2>5. \E a \in Slots : poolBuffers[h.poolID][a] = o
    BY <2>2, <2>3 DEF PurgePool
  <2>6. hostBuffer[o].poolID = h.poolID
    BY <1>1, <2>2, <2>4, <2>5, IpcAssumption DEF SlotsPointToLive
  <2>7. h.poolID = poolID[t]
    BY <1>1, <2>2, <2>6 DEF HandlesPlaced
  <2>8. PICK s \in Targets : ProcessOf[s] = w /\ Owns(s, h.poolID)
    BY <1>1, <2>3, <2>4, HostHead
  <2>9. w = ProcessOf[t]
    BY <1>1, <2>4, <2>7, <2>8, OwnersClient DEF Owns
  <2>10. 1 \in 1 .. Unread(t) /\ Sent(t)[1] = h
    BY <2>3, <2>4, <2>9, HeadTailProperties, LenProperties DEF Sent, Unread
  <2>11. Among(Sent(t), Refills(b), Unread(t))
    BY <2>4, <2>10 DEF Among, Refills
  <2> QED
    BY <2>2, <2>11 DEF NewestLast
<1>3. CASE \E v \in Views : ReleaseStep(v)
  <2>0. PICK v \in Views : ReleaseStep(v)
    BY <1>3
  <2>1. PICK i \in 1 .. Len(held[v]) : DispatchReleaseBuffer(v, i)
    BY <2>0 DEF ReleaseStep
  <2>2. held[v][i] \in Objects /\ ReleaseBuffer(held[v][i])
    BY <1>1, <2>1, HeldAfterRelease
  <2> QED
    BY <1>1, <2>2, ReleasedBuffers
<1>4. CASE UNCHANGED hostBuffer
  BY <1>4
<1> QED
  BY <1>2, <1>3, <1>4 DEF Next, WebFrame, hostVars, CreateClient, CreateView,
     HandleViewMessage, DestroyView, DispatchFrameComplete, FrameComplete, Poll, vars

(* A buffer that is on its round stays on it when the proxy reads: a       *)
(* commit of its slot brings it to the application.                        *)
LEMMA RoundRead ==
  ASSUME OneTargetPerProcess, UseInv, TeardownInv, NEW t \in Targets, ~Young(t), ~TornDown(t),
         ProxyStep(ProcessOf[t]), HostFrame, NEW b \in Slots, NEW o \in Objects, InSlot(t, b, o), OnRound(t, b, o)
  PROVE  OnRound(t, b, o)'
<1>1. /\ HandleInv /\ HeapInv /\ TypeOK /\ PoolsOwned /\ Handshake
      /\ ProcessOf[t] \in Processes /\ poolID[t] \in PoolIDs
      /\ Sent(t) \in Seq(HostMessage) /\ phase \in [Targets -> Phases]
  BY PoolOf DEF UseInv, HandleInv, PageInv, MapInv, HeapInv, TypeOK, WebTypeOK
<1>2. PICK w, p, h, s, r : /\ w = ProcessOf[t] /\ p = poolID[t] /\ h = Head(Sent(t))
                           /\ s = Sent(t) /\ r = Tail(Sent(t))
  OBVIOUS
<1>3. /\ UNCHANGED <<webVars, toWeb>> /\ s # <<>> /\ Sent(t)' = r /\ h.poolID = p
      /\ CommitToView(w) \/ UNCHANGED held
  BY <1>1, <1>2, PoolRead
<1>4. CASE HeldBy(ViewOf[t], o)
  <2>1. CommitToView(w) => HeldBy(ViewOf[t], o)'
    BY <1>1, <1>2, <1>4, PoolOf, HeldAfterCommit
  <2>2. UNCHANGED held => HeldBy(ViewOf[t], o)'
    BY <1>4 DEF HeldBy
  <2> QED
    BY <1>3, <2>1, <2>2 DEF OnRound
<1>5. CASE ReleaseInTransit(ProcessOf[t], poolID[t], b)
  BY <1>3, <1>5 DEF OnRound, ReleaseInTransit, webVars
<1>6. CASE ~Followed(s, Commits(b), Refills(b), Len(s))
  <2>1. PICK n : n = Len(r) /\ n \in 0 .. Len(r) /\ n \in Nat /\ Len(s) = n + 1
    BY <1>1, <1>2, <1>3, ReadLength
  <2>2. Followed(s, Commits(b), Refills(b), n + 1) <=>
          Followed(r, Commits(b), Refills(b), n) /\ (h \in Commits(b) => Among(r, Refills(b), n))
    BY <1>1, <1>2, <1>3, <2>1, FollowedRead
  <2>3. CASE ~Followed(r, Commits(b), Refills(b), n)
    BY <1>3, <2>1, <2>3 DEF OnRound, Unread
  <2>4. CASE h \in Commits(b) /\ ~Among(r, Refills(b), n)
    <3>1. h.code = "BufferCommit" /\ h.bufferID = b /\ h \notin Refills(b)
      BY <2>4 DEF Commits, Refills, Purges, Allocations
    <3>2. Among(s, Refills(b), n + 1) <=> h \in Refills(b) \/ Among(r, Refills(b), n)
      BY <1>1, <1>2, <1>3, <2>1, AmongRead
    <3>3. ~Among(Sent(t), Refills(b), Unread(t))
      BY <1>2, <2>1, <2>4, <3>1, <3>2 DEF Unread
    <3>4. object[t][b] = o /\ o # None /\ Live(t)
      BY <1>1, IpcAssumption DEF InSlot, TornDown, Live, Young, Phases
    <3>5. InPool(t, b) \in {None, o}
      BY <3>3, <3>4 DEF UseInv, UseOf, SlotsAgree
    <3>6. Head(toHost[w]) = h
      BY <1>2 DEF Sent
    <3>7. ~CommitWithoutView(w)
      <4> SUFFICES ASSUME CommitWithoutView(w) PROVE FALSE
        OBVIOUS
      <4>1. Reads(w, "BufferCommit") /\ viewBackendMap[Head(toHost[w]).poolID] = None
        BY DEF CommitWithoutView, FindViewBackend
      <4>2. \E u \in Targets : /\ ProcessOf[u] = w
                               /\ ~webUp[w] \/ ~viewUp[ViewOf[u]] \/ phase[u] \in {"deinitialized", "destroyed"}
        BY <1>1, <1>2, <4>1, TeardownCommits DEF CommitWithoutViewMeansTeardown
      <4> QED
        BY <1>2, <4>2 DEF OneTargetPerProcess, TornDown
    <3>8. CommitToView(w)
      BY <1>2, <3>1, <3>6, <3>7 DEF ProxyStep, ConstructPool, PurgePool, BufferAllocation, Reads
    <3>9. PICK v \in Views : /\ v = viewBackendMap[p] /\ poolBuffers[p][b] \in Objects
                             /\ \A u \in Views : \A x \in Objects :
                                  HeldBy(u, x)' <=> HeldBy(u, x) \/ (u = v /\ x = poolBuffers[p][b])
      <4>1. w \in Processes /\ Head(toHost[w]).poolID = p /\ Head(toHost[w]).bufferID = b
        BY <1>1, <1>2, <1>3, <3>1, <3>6
      <4>2. PICK m, x, v : m = Head(toHost[w]) /\ x = poolBuffers[p][b] /\ v = viewBackendMap[p]
        OBVIOUS
      <4>3. /\ x \in Objects /\ v \in Views
            /\ \A u \in Views : \A y \in Objects : HeldBy(u, y)' <=> HeldBy(u, y) \/ (u = v /\ y = x)
        BY ONLY <1>1, <3>8, <4>1, <4>2, HeldAfterCommit
      <4> QED
        BY <4>2, <4>3
    <3>10. poolBuffers[p][b] = o
      BY <1>2, <3>5, <3>9, IpcAssumption DEF InPool
    <3>11. v = ViewOf[t]
      <4>1. PICK u \in Targets : ViewOf[u] = v /\ Owns(u, p)
        BY <1>1, <1>2, <3>9 DEF PoolsOwned, OwnedOf
      <4>2. Owns(t, p)
        BY <1>2 DEF Owns
      <4> QED
        BY <1>1, <1>2, <4>1, <4>2, OwnersClient
    <3> QED
      BY <3>9, <3>10, <3>11 DEF OnRound
  <2> QED
    BY <1>6, <2>1, <2>2, <2>3, <2>4
<1> QED
  BY <1>2, <1>4, <1>5, <1>6 DEF OnRound, Unread

(* A target puts a buffer on its round with the commit, and takes none off *)
(* it before its slot is unlocked or empty.                                *)
LEMMA RoundSent ==
  ASSUME HandleInv, NEW t \in Targets, ~Young(t), ~TornDown(t), Accounted(t), TargetStep(t), WebFrame, ~TornDown(t)',
         NEW b \in Slots, NEW o \in Objects, InSlot(t, b, o)', locked'[t][b]
  PROVE  OnRound(t, b, o)'
<1> DEFINE w == ProcessOf[t]
           p == poolID[t]
<1>1. /\ w \in Processes /\ p \in PoolIDs
      /\ locked \in [Targets -> [Slots -> BOOLEAN]]
      /\ object \in [Targets -> [Slots -> Objects \cup {None}]]
      /\ webUp \in [Processes -> BOOLEAN]
      /\ toHost \in [Processes -> Seq(HostMessage)]
      /\ None \notin Objects /\ None \notin Slots
      /\ current[t] \in Slots \cup {None} /\ Sent(t) \in Seq(HostMessage)
  BY PoolOf DEF HandleInv, PageInv, MapInv, HeapInv, TypeOK, IpcTypeOK, WebTypeOK
<1>2. UNCHANGED held
  BY DEF WebFrame, appVars
\* A message that is neither a commit nor a refill of the slot.
<1>3. ASSUME NEW m, m \notin Commits(b) \cup Refills(b), Sent(t)' = Append(Sent(t), m),
             UNCHANGED <<poolID, toWeb>>, InSlot(t, b, o), locked[t][b]
      PROVE  OnRound(t, b, o)'
  <2>1. OnRound(t, b, o)
    BY <1>3 DEF Accounted
  <2>2. PICK s, r : s = Sent(t) /\ r = Append(s, m)
    OBVIOUS
  <2>3. Followed(r, Commits(b), Refills(b), Len(r)) => Followed(s, Commits(b), Refills(b), Len(s))
    <3>1. s \in Seq(HostMessage) /\ m \notin Commits(b) /\ m \notin Refills(b)
      BY <1>1, <1>3, <2>2
    <3> QED
      BY ONLY <2>2, <3>1, FollowedSent
  <2> QED
    BY <1>2, <1>3, <2>1, <2>2, <2>3 DEF OnRound, Unread, HeldBy, ReleaseInTransit
<1>4. ASSUME UNCHANGED <<poolID, toWeb, toHost>>, InSlot(t, b, o), locked[t][b]
      PROVE  OnRound(t, b, o)'
  <2>1. OnRound(t, b, o)
    BY <1>4 DEF Accounted
  <2> QED
    BY <1>2, <1>4, <2>1 DEF OnRound, Unread, Sent, HeldBy, ReleaseInTransit
<1>5. ASSUME NEW m, SendToHost(w, m)
      PROVE  Sent(t)' = Append(Sent(t), m)
  BY <1>1, <1>5 DEF SendToHost, Sent
<1>6. CASE \E c \in Slots, x \in Objects : FrameAllocates(t, c, x)
  <2>1. PICK c \in Slots, x \in Objects : FrameAllocates(t, c, x)
    BY <1>6
  <2>2. PICK m : m = BufferAllocationMsg(p, c, x)
    OBVIOUS
  <2>3. /\ UNCHANGED <<poolID, locked, webUp, toWeb>> /\ object' = [object EXCEPT ![t][c] = x]
        /\ Sent(t)' = Append(Sent(t), m) /\ ~locked[t][c]
    BY <1>5, <2>1, <2>2 DEF FrameAllocates, FirstUnlocked
  <2>4. b # c /\ object'[t][b] = object[t][b] /\ locked[t][b]
    BY <1>1, <2>3
  <2>5. m \notin Commits(b) \cup Refills(b)
    BY <1>1, <2>2, <2>4, MessageKinds DEF Refills
  <2> QED
    BY <1>3, <2>3, <2>4, <2>5 DEF InSlot
<1>7. CASE FrameRendered(t) /\ object[t][current[t]] # None
  <2>1. PICK c \in Slots : c = current[t]
    BY <1>1, <1>7 DEF FrameRendered
  <2>2. PICK m : m = BufferCommitMsg(p, c)
    OBVIOUS
  <2>3. /\ UNCHANGED <<poolID, object, webUp, toWeb>> /\ locked' = [locked EXCEPT ![t][c] = TRUE]
        /\ Sent(t)' = Append(Sent(t), m)
    BY <1>5, <1>7, <2>1, <2>2 DEF FrameRendered
  <2>4. m \in Commits(b) <=> b = c
    BY <1>1, <2>2, MessageKinds
  <2>5. m \notin Refills(b)
    BY <1>1, <2>2, MessageKinds DEF Refills
  <2>6. CASE b = c
    <3>1. PICK s, r : s \in Seq(HostMessage) /\ s = Sent(t) /\ r = Append(s, m)
      BY <1>1
    <3>2. ~Followed(r, Commits(b), Refills(b), Len(r))
      BY ONLY <2>4, <2>6, <3>1, FollowedSent
    <3> QED
      BY <2>3, <3>1, <3>2 DEF OnRound, Unread
  <2>7. CASE b # c
    <3>1. locked[t][b] /\ InSlot(t, b, o)
      BY <1>1, <2>3, <2>7 DEF InSlot
    <3> QED
      BY <1>3, <2>3, <2>4, <2>5, <2>7, <3>1
  <2> QED
    BY <2>6, <2>7
<1>8. CASE FrameRendered(t) /\ object[t][current[t]] = None
  <2>1. locked' = [locked EXCEPT ![t][current[t]] = TRUE] /\ UNCHANGED <<poolID, toHost, object, toWeb, webUp>>
    BY <1>8 DEF FrameRendered
  <2>2. InSlot(t, b, o) /\ b # current[t]
    BY <1>1, <1>8, <2>1 DEF InSlot
  <2>3. locked[t][b]
    BY <1>1, <2>1, <2>2
  <2> QED
    BY <1>4, <2>1, <2>2, <2>3
<1>9. CASE Resize(t) \/ Deinitialize(t)
  <2>1. locked' = [locked EXCEPT ![t] = [c \in Slots |-> FALSE]]
    BY <1>9 DEF Resize, Deinitialize, DestroyBufferPool
  <2> QED
    BY <1>1, <2>1
<1>10. CASE FrameAborts(t)
  BY <1>1, <1>10 DEF FrameAborts, CloseWeb, TornDown
<1>11. CASE DestroyTarget(t) \/ \E c \in Slots : FrameReuses(t, c) \/ FrameFailsToAllocate(t, c)
  <2>1. UNCHANGED <<poolID, toHost, locked, object, toWeb, webUp>>
    BY <1>11 DEF DestroyTarget, FrameReuses, FrameFailsToAllocate, ipcVars
  <2> QED
    BY <1>4, <2>1 DEF InSlot
<1> QED
  BY <1>6, <1>7, <1>8, <1>9, <1>10, <1>11 DEF TargetStep, CreateTarget, Initialize, ReceiveReply, Young

(* What the steps of the others leave of a target.                         *)
LEMMA TargetOther ==
  ASSUME OneTargetPerProcess, HandleInv, UpAttached, [Next]_vars, NEW t \in Targets, ~Young(t),
         ~(TargetStep(t) /\ WebFrame), ~(ProxyStep(ProcessOf[t]) /\ HostFrame)
  PROVE  /\ Sent(t)' = Sent(t) /\ object'[t] = object[t]
         /\ \A b \in Slots : locked'[t][b] => locked[t][b]
         /\ webUp'[ProcessOf[t]] => webUp[ProcessOf[t]]
<1>1. /\ TypeOK /\ HeapInv /\ ProcessOf[t] \in Processes
      /\ toHost \in [Processes -> Seq(HostMessage)] /\ webUp \in [Processes -> BOOLEAN]
      /\ locked \in [Targets -> [Slots -> BOOLEAN]]
      /\ object \in [Targets -> [Slots -> Objects \cup {None}]]
  BY PoolOf DEF HandleInv, PageInv, MapInv, HeapInv, TypeOK, IpcTypeOK, WebTypeOK
<1>2. CASE \E u \in Targets : TargetStep(u) /\ WebFrame
  <2>1. PICK u \in Targets : TargetStep(u) /\ WebFrame
    BY <1>2
  <2>2. u # t /\ ProcessOf[u] # ProcessOf[t]
    BY <2>1 DEF OneTargetPerProcess
  <2>3. /\ object'[t] = object[t] /\ locked'[t] = locked[t] /\ toHost'[ProcessOf[t]] = toHost[ProcessOf[t]]
        /\ webUp'[ProcessOf[t]] => webUp[ProcessOf[t]]
    BY <1>1, <2>1, <2>2 DEF TargetStep, CreateTarget, Initialize, ReceiveReply, Resize, DestroyBufferPool,
       FrameAborts, CloseWeb, FrameReuses, FrameFailsToAllocate, FrameAllocates, FrameRendered, Deinitialize,
       DestroyTarget, SendToHost, webVars, ipcVars
  <2> QED
    BY <2>3 DEF Sent
<1>3. CASE \E w \in Processes : (HandleWebMessage(w) \/ WebExits(w)) /\ WebFrame
  <2>1. UNCHANGED <<object, toHost>>
    BY <1>3 DEF HandleWebMessage, WebExits, webVars
  <2>2. webUp'[ProcessOf[t]] => webUp[ProcessOf[t]]
    BY <1>1, <1>3 DEF HandleWebMessage, WebExits, CloseWeb
  <2>3. PICK x, c : UNCHANGED locked \/ locked' = [locked EXCEPT ![x][c] = FALSE]
    BY <1>3 DEF HandleWebMessage, WebExits, webVars
  <2>4. ASSUME NEW b \in Slots, locked'[t][b] PROVE locked[t][b]
    <3>1. CASE locked' = [locked EXCEPT ![x][c] = FALSE] /\ x # t
      BY <1>1, <2>4, <3>1
    <3>2. CASE locked' = [locked EXCEPT ![x][c] = FALSE] /\ x = t
      BY <1>1, <2>4, <3>2
    <3> QED
      BY <2>3, <2>4, <3>1, <3>2
  <2> QED
    BY <2>1, <2>2, <2>4 DEF Sent
<1>4. CASE \E w \in Processes : CreateClient(w) /\ HostFrame
  <2>1. PICK w \in Processes : CreateClient(w) /\ HostFrame
    BY <1>4
  <2>2. UNCHANGED <<object, locked, toHost>>
    BY <2>1 DEF HostFrame, CreateClient, OpenWeb, webVars
  <2>3. Attached(ProcessOf[t]) /\ ~Attached(w)
    BY <2>1 DEF UpAttached, Young, CreateClient, Attach
  <2>4. webUp'[ProcessOf[t]] => webUp[ProcessOf[t]]
    BY <1>1, <2>1, <2>3 DEF CreateClient, OpenWeb
  <2> QED
    BY <2>2, <2>4 DEF Sent
<1>5. CASE \E w \in Processes : ProxyStep(w) /\ HostFrame
  <2>1. PICK w \in Processes : ProxyStep(w) /\ HostFrame
    BY <1>5
  <2>2. w # ProcessOf[t]
    BY <2>1
  <2>3. toHost' = [toHost EXCEPT ![w] = Tail(toHost[w])]
    BY <1>1, <2>1, ProxyMessage
  <2>4. UNCHANGED <<object, locked, webUp>>
    BY <2>1 DEF HostFrame, webVars, ProxyStep, ConstructPool, PurgePool, BufferAllocation,
       CommitToView, CommitWithoutView
  <2> QED
    BY <1>1, <2>2, <2>3, <2>4 DEF Sent
<1>6. CASE \/ \E v \in Views : /\ CreateView(v) \/ HandleViewMessage(v) \/ DestroyView(v) \/ DispatchFrameComplete(v)
                               /\ ViewFrame
           \/ Poll /\ HostFrame
           \/ UNCHANGED vars
  <2>1. UNCHANGED <<object, locked, toHost, webUp>>
    BY <1>6 DEF CreateView, OpenView, HandleViewMessage, DestroyView, CloseView, DispatchFrameComplete,
       Poll, ViewFrame, HostFrame, webVars, ipcVars, vars
  <2> QED
    BY <2>1 DEF Sent
<1>7. CASE \E v \in Views : ReleaseStep(v) /\ ViewFrame
  <2>1. UNCHANGED <<object, locked, toHost, webUp>>
    BY <1>7 DEF ReleaseStep, DispatchReleaseBuffer, ViewFrame, webVars
  <2> QED
    BY <2>1 DEF Sent
<1> QED
  BY <1>2, <1>3, <1>4, <1>5, <1>6, <1>7 DEF Next

(* The release of an unmarked buffer is sent to its target.                *)
LEMMA ReleaseReturns ==
  ASSUME OneTargetPerProcess, HandleInv, NEW t \in Targets, ~Young(t), NEW b \in Slots, NEW o \in Objects,
         InSlot(t, b, o), hostBuffer[o] # None => ~hostBuffer[o].pendingDelete, ReleaseBuffer(o)
  PROVE  toWeb'[ProcessOf[t]] = Append(toWeb[ProcessOf[t]], ReleaseBufferMsg(poolID[t], b))
<1>1. /\ toWeb \in [Processes -> Seq(WebMessage)] /\ Handshake /\ HandlesPlaced /\ ProcessOf[t] \in Processes
      /\ poolID[t] \in PoolIDs
  BY PoolOf DEF HandleInv, PageInv, MapInv, HeapInv, TypeOK, IpcTypeOK
<1>2. hostBuffer[o] # None /\ hostBuffer[o].poolID = poolID[t] /\ hostBuffer[o].bufferID = b /\ webUp[ProcessOf[t]]
  BY <1>1 DEF ReleaseBuffer, HandlesPlaced, InSlot
<1>3. poolClient[poolID[t]] = ProcessOf[t]
  BY <1>1, OwnersClient DEF Owns
<1> QED
  BY <1>1, <1>2, <1>3 DEF ReleaseBuffer, SendToWeb

(* A buffer stays on its round when others step: its release is sent, and  *)
(* is not read before the slot is unlocked.                                *)
LEMMA RoundOther ==
  ASSUME OneTargetPerProcess, HandleInv, UpAttached, [Next]_vars, NEW t \in Targets, ~Young(t), Accounted(t),
         ~TornDown(t), ~TornDown(t)', ~(TargetStep(t) /\ WebFrame), ~(ProxyStep(ProcessOf[t]) /\ HostFrame),
         NEW b \in Slots, NEW o \in Objects, InSlot(t, b, o)', locked'[t][b]
  PROVE  OnRound(t, b, o)'
<1>1. /\ HeapInv /\ TypeOK /\ ProcessOf[t] \in Processes /\ ViewOf[t] \in Views /\ phase[t] \in Phases
      /\ toWeb \in [Processes -> Seq(WebMessage)] /\ viewUp \in [Views -> BOOLEAN]
      /\ poolID'[t] = poolID[t]
  BY PoolOf, PoolKept DEF HandleInv, PageInv, MapInv, HeapInv, TypeOK, WebTypeOK, IpcTypeOK
<1>2. /\ Sent(t)' = Sent(t) /\ InSlot(t, b, o) /\ locked[t][b]
  BY TargetOther DEF InSlot
<1>3. /\ hostBuffer[o] # None => ~hostBuffer[o].pendingDelete
      /\ OnRound(t, b, o)
  BY <1>2 DEF Accounted
<1>4. CASE ~Followed(Sent(t), Commits(b), Refills(b), Unread(t))
  BY <1>2, <1>4 DEF OnRound, Unread
<1>5. PICK w, x, s, r : w = ProcessOf[t] /\ x = ReleaseBufferMsg(poolID[t], b) /\ s = toWeb[w] /\ r = toWeb'[w]
  OBVIOUS
<1>6. s \in Seq(WebMessage)
  BY <1>1, <1>5
<1>7. ASSUME NEW i \in 1 .. Len(r), r[i] = x PROVE OnRound(t, b, o)'
  BY <1>1, <1>5, <1>7 DEF OnRound, ReleaseInTransit
<1>8. CASE HeldBy(ViewOf[t], o)
  <2>1. ~DestroyView(ViewOf[t])
    BY <1>1 DEF DestroyView, CloseView, TornDown
  <2>2. CASE \E u \in Views : \E i \in 1 .. Len(held[u]) : DispatchReleaseBuffer(u, i) /\ held[u][i] = o
    <3>1. ReleaseBuffer(o)
      BY <2>2 DEF DispatchReleaseBuffer
    <3>2. r = Append(s, x)
      BY <1>2, <1>3, <1>5, <3>1, ReleaseReturns
    <3>3. Len(r) \in 1 .. Len(r) /\ r[Len(r)] = x
      BY <1>6, <3>2, AppendedLength
    <3> QED
      BY <1>7, <3>3
  <2> QED
    BY <1>1, <1>8, <2>1, <2>2, HeldLost DEF OnRound
<1>9. CASE ReleaseInTransit(ProcessOf[t], poolID[t], b)
  <2>1. PICK i \in 1 .. Len(s) : s[i] = x
    BY <1>5, <1>9 DEF ReleaseInTransit
  <2>2. \/ HandleWebMessage(w) /\ s # <<>> /\ r = Tail(s)
        \/ r = s
        \/ \E m : r = Append(s, m)
    <3>1. ~\E u \in Targets : ProcessOf[u] = w /\ phase[u] = "constructing"
      BY <1>5 DEF OneTargetPerProcess, Young
    <3>2. webUp'[w]
      BY <1>5 DEF TornDown
    <3>3. w \in Processes
      BY <1>1, <1>5
    <3> QED
      BY <1>1, <1>5, <3>1, <3>2, <3>3, WebQueue
  <2>3. CASE r = s
    BY <1>7, <2>1, <2>3
  <2>4. CASE \E m : r = Append(s, m)
    <3>1. i \in 1 .. Len(r) /\ r[i] = x
      BY <1>6, <2>1, <2>4, AppendedLength
    <3> QED
      BY <1>7, <3>1
  <2>5. CASE HandleWebMessage(w) /\ s # <<>> /\ r = Tail(s)
    <3>1. phase[t] = "ready"
      BY <1>1 DEF TornDown, Young, Phases
    <3>2. Head(s) # x
      BY <1>2, <1>5, <2>5, <3>1, ReleaseRead
    <3>3. /\ Len(r) \in Nat /\ Len(s) = Len(r) + 1 /\ s[1] = Head(s)
          /\ \A j \in 1 .. Len(r) : r[j] = s[j + 1]
      BY <1>6, <2>5, ReadLength
    <3>4. i # 1
      BY <2>1, <3>2, <3>3
    <3>5. i - 1 \in 1 .. Len(r) /\ r[i - 1] = s[(i - 1) + 1] /\ (i - 1) + 1 = i
      BY <3>3, <3>4
    <3> QED
      BY <1>7, <2>1, <3>5
  <2> QED
    BY <2>2, <2>3, <2>4, <2>5
<1> QED
  BY <1>3, <1>4, <1>8, <1>9 DEF OnRound

(* A slot is given a buffer the UI process does not have.                  *)
LEMMA NewInSlot ==
  ASSUME OneTargetPerProcess, HandleInv, UpAttached, [Next]_vars, NEW t \in Targets, ~Young(t),
         NEW b \in Slots, NEW o \in Objects, InSlot(t, b, o)', ~InSlot(t, b, o)
  PROVE  hostBuffer'[o] = None
<1>1. /\ TypeOK /\ ProcessOf[t] \in Processes /\ None \notin Objects
      /\ webUp \in [Processes -> BOOLEAN]
      /\ object \in [Targets -> [Slots -> Objects \cup {None}]]
  BY PoolOf DEF HandleInv, PageInv, MapInv, HeapInv, TypeOK, IpcTypeOK, WebTypeOK
<1>2. CASE TargetStep(t) /\ WebFrame
  <2>1. UNCHANGED hostBuffer
    BY <1>2 DEF WebFrame, hostVars
  <2>2. CASE \E c \in Slots, x \in Objects : Unreferenced(x) /\ FrameAllocates(t, c, x)
    <3>1. PICK c \in Slots, x \in Objects : Unreferenced(x) /\ FrameAllocates(t, c, x)
      BY <2>2
    <3>2. UNCHANGED webUp /\ object' = [object EXCEPT ![t][c] = x]
      BY <3>1 DEF FrameAllocates
    <3>3. x = o
      BY <1>1, <3>2 DEF InSlot
    <3> QED
      BY <2>1, <3>1, <3>3 DEF Unreferenced
  <2>3. CASE Resize(t) \/ Deinitialize(t)
    <3>1. object' = [object EXCEPT ![t] = [c \in Slots |-> None]]
      BY <2>3 DEF Resize, Deinitialize, DestroyBufferPool
    <3> QED
      BY <1>1, <3>1 DEF InSlot
  <2>4. CASE UNCHANGED object /\ (webUp'[ProcessOf[t]] => webUp[ProcessOf[t]])
    BY <2>4 DEF InSlot
  <2>5. CASE FrameAborts(t) \/ FrameRendered(t) \/ DestroyTarget(t)
             \/ \E c \in Slots : FrameReuses(t, c) \/ FrameFailsToAllocate(t, c)
    BY <1>1, <2>4, <2>5 DEF FrameAborts, CloseWeb, FrameRendered, DestroyTarget, FrameReuses,
       FrameFailsToAllocate, webVars, ipcVars
  <2> QED
    BY <1>2, <2>2, <2>3, <2>5 DEF TargetStep, CreateTarget, Initialize, ReceiveReply, Young
<1>3. CASE ProxyStep(ProcessOf[t]) /\ HostFrame
  BY <1>3, PoolRead DEF InSlot, webVars
<1>4. CASE ~(TargetStep(t) /\ WebFrame) /\ ~(ProxyStep(ProcessOf[t]) /\ HostFrame)
  BY <1>4, TargetOther DEF InSlot
<1> QED
  BY <1>2, <1>3, <1>4

(* Every step keeps the invariant.                                         *)
LEMMA AccountStep ==
  ASSUME OneTargetPerProcess, OneTargetPerView, PoolInv, UpAttached, AccountInv, [Next]_vars, [UnlocksReturned]_vars
  PROVE  AccountInv'
<1>1. /\ UseInv /\ TeardownInv /\ HandleInv /\ TypeOK
      /\ UseInv' /\ TeardownInv' /\ TypeOK'
  <2>1. UseInv /\ TeardownInv /\ UseInv' /\ TeardownInv'
    BY UseStep, TeardownStep DEF AccountInv
  <2> QED
    BY <2>1 DEF UseInv, HandleInv, PageInv, MapInv, HeapInv
<1>2. ASSUME NEW t \in Targets, ~Young(t)'
      PROVE  Accounted(t)'
  <2> SUFFICES ASSUME ~TornDown(t)', NEW b \in Slots, NEW o \in Objects, InSlot(t, b, o)'
               PROVE  /\ hostBuffer'[o] # None => ~hostBuffer'[o].pendingDelete
                      /\ locked'[t][b] => OnRound(t, b, o)'
    BY DEF Accounted
  <2>1. ~Young(t)
    <3> SUFFICES ASSUME Young(t) PROVE FALSE
      OBVIOUS
    <3>1. ReceiveReply(t) /\ WebFrame
      BY <1>1, <1>2, Answering
    <3>2. object'[t][b] = None
      BY <1>1, <3>1, FreshPool
    <3> QED
      BY <3>2, IpcAssumption DEF InSlot
  <2>2. ~TornDown(t) /\ Accounted(t) /\ NewestLast(t)
    BY <1>1, <2>1, TornDownKept DEF AccountInv, UseInv, UseOf
  <2>3. ASSUME hostBuffer'[o] # None PROVE ~hostBuffer'[o].pendingDelete
    <3>1. CASE InSlot(t, b, o)
      <4>1. hostBuffer[o] # None => ~hostBuffer[o].pendingDelete
        BY <2>2, <3>1 DEF Accounted
      <4> QED
        BY <1>1, <2>1, <2>2, <2>3, <3>1, <4>1, UnmarkedKept
    <3>2. CASE ~InSlot(t, b, o)
      BY <1>1, <2>1, <2>3, <3>2, NewInSlot
    <3> QED
      BY <3>1, <3>2
  <2>4. ASSUME locked'[t][b] PROVE OnRound(t, b, o)'
    <3>1. CASE TargetStep(t) /\ WebFrame
      BY <1>1, <2>1, <2>2, <2>4, <3>1, RoundSent
    <3>2. CASE ProxyStep(ProcessOf[t]) /\ HostFrame
      <4>1. UNCHANGED <<webVars, webUp>>
        BY <1>1, <2>1, <3>2, PoolRead
      <4>2. InSlot(t, b, o) /\ locked[t][b]
        BY <2>4, <4>1 DEF InSlot, webVars
      <4>3. OnRound(t, b, o)
        BY <2>2, <4>2 DEF Accounted
      <4> QED
        BY <1>1, <2>1, <2>2, <3>2, <4>2, <4>3, RoundRead
    <3>3. CASE ~(TargetStep(t) /\ WebFrame) /\ ~(ProxyStep(ProcessOf[t]) /\ HostFrame)
      BY <1>1, <2>1, <2>2, <2>4, <3>3, RoundOther
    <3> QED
      BY <3>1, <3>2, <3>3
  <2> QED
    BY <2>3, <2>4
<1> QED
  BY <1>1, <1>2 DEF AccountInv

(* It holds at the start.                                                  *)
LEMMA AccountInit == Init => AccountInv
<1> SUFFICES ASSUME Init PROVE AccountInv
  OBVIOUS
<1>1. \A t \in Targets : Young(t)
  BY DEF Init, WebInit, Young
<1> QED
  BY <1>1, UseInit, TeardownInit DEF AccountInv

(* The invariant holds where a slot is unlocked only when its buffer is    *)
(* back.                                                                   *)
THEOREM AccountInvariant ==
  ASSUME OneTargetPerProcess, OneTargetPerView
  PROVE  Spec /\ ReleaseUnlocksReturned => []AccountInv
<1>1. ASSUME PoolInv, LockInv, AccountInv, [Next]_vars, [UnlocksReturned]_vars
      PROVE  AccountInv'
  BY <1>1, AccountStep DEF LockInv
<1> QED
  BY <1>1, AccountInit, Background, PTL DEF Spec, ReleaseUnlocksReturned

(* A buffer on its round is in one of the sockets or with the application. *)
LEMMA LocksOnRound ==
  ASSUME AccountInv
  PROVE  LockedSlotsAccounted
<1> SUFFICES ASSUME NEW t \in Targets, NEW b \in Slots,
                    webUp[ProcessOf[t]], viewUp[ViewOf[t]], locked[t][b], object[t][b] # None
             PROVE  \/ CommitInTransit(ProcessOf[t], poolID[t], b)
                    \/ HeldBy(ViewOf[t], object[t][b])
                    \/ ReleaseInTransit(ProcessOf[t], poolID[t], b)
  BY DEF LockedSlotsAccounted
<1>1. /\ TargetsRegistered /\ Handshake /\ TypeOK /\ Sent(t) \in Seq(HostMessage)
      /\ object \in [Targets -> [Slots -> Objects \cup {None}]] /\ ProcessOf[t] \in Processes
  BY PoolOf DEF AccountInv, UseInv, HandleInv, PageInv, MapInv, HeapInv, TypeOK, WebTypeOK
<1>2. phase[t] = "ready" /\ ~Young(t) /\ ~TornDown(t)
  BY <1>1 DEF TargetsRegistered, Young, TornDown
<1>3. PICK o \in Objects : o = object[t][b] /\ InSlot(t, b, o)
  BY <1>1 DEF InSlot
<1>4. OnRound(t, b, o)
  BY <1>2, <1>3 DEF AccountInv, Accounted
<1>5. CASE ~Followed(Sent(t), Commits(b), Refills(b), Unread(t))
  <2>1. PICK i \in 1 .. Len(Sent(t)) : Sent(t)[i] \in Commits(b)
    BY <1>5 DEF Followed, Unread
  <2>2. Sent(t) \in Seq(OwnHostMessage(poolID[t]))
    BY <1>1, <1>2, HandshakeOf DEF Sent
  <2>3. Sent(t)[i] \in OwnHostMessage(poolID[t])
    BY <2>1, <2>2, ElementOfSeq
  <2>4. Sent(t)[i] = BufferCommitMsg(poolID[t], b)
    BY <2>1, <2>3 DEF OwnHostMessage, Commits, HostMessage, BufferCommitMsg
  <2> QED
    BY <2>1, <2>4 DEF CommitInTransit, Sent
<1> QED
  BY <1>3, <1>4, <1>5 DEF OnRound

(* EGLTarget locks a slot no longer than its buffer is away: the commit is *)
(* on its way, the application has the buffer, or releaseBuffer of the UI  *)
(* process has sent it back.  For targets that are never resized.          *)
THEOREM LocksAccounted ==
  ASSUME OneTargetPerProcess, OneTargetPerView, ResizeBacklog = 0
  PROVE  Spec => []LockedSlotsAccounted
<1>1. AccountInv => LockedSlotsAccounted
  BY LocksOnRound
<1> QED
  BY <1>1, AccountInvariant, UnlocksAreReturns, PTL
=============================================================================
