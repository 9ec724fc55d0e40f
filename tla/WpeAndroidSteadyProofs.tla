------------------------ MODULE WpeAndroidSteadyProofs ------------------------
(***************************************************************************)
(* Theorems about WpeAndroid: targets that are never resized               *)
(* (ResizeBacklog = 0) draw into no buffer the application may show.  Web  *)
(* processes have one target each.                                         *)
(***************************************************************************)
EXTENDS WpeAndroidUseProofs

-----------------------------------------------------------------------------
(* Releases on their way back.                                             *)

(* A release in the queue is one of its messages.                          *)
LEMMA ReleaseAmong ==
  ASSUME NEW w, NEW p, NEW b
  PROVE  ReleaseInTransit(w, p, b) <=> Among(toWeb[w], {ReleaseBufferMsg(p, b)}, Len(toWeb[w]))
  BY DEF ReleaseInTransit, Among

(* A commit in the queue of a target is one of its messages.               *)
LEMMA CommitAmong ==
  ASSUME TypeOK, NEW t \in Targets, NEW b \in Slots
  PROVE  CommitInTransit(ProcessOf[t], poolID[t], b) => Among(Sent(t), Commits(b), Unread(t))
<1>1. BufferCommitMsg(poolID[t], b) \in Commits(b)
  BY PoolOf, MessageTypes DEF Commits, BufferCommitMsg
<1> QED
  BY <1>1 DEF CommitInTransit, Among, Sent, Unread

(* A release is of one slot of one pool.                                   *)
LEMMA ReleaseKinds ==
  ASSUME NEW p, NEW b, NEW q, NEW c
  PROVE  /\ ReleaseBufferMsg(p, b) = ReleaseBufferMsg(q, c) => p = q /\ b = c
         /\ FrameCompleteMsg(q) # ReleaseBufferMsg(p, b)
<1>1. /\ ReleaseBufferMsg(p, b).code = "ReleaseBuffer" /\ FrameCompleteMsg(q).code = "FrameComplete"
      /\ ReleaseBufferMsg(p, b).poolID = p /\ ReleaseBufferMsg(p, b).bufferID = b
      /\ ReleaseBufferMsg(q, c).poolID = q /\ ReleaseBufferMsg(q, c).bufferID = c
  BY DEF ReleaseBufferMsg, FrameCompleteMsg
<1> QED
  BY <1>1

(* What a web process reads from its queue.                                *)
LEMMA UnlockingMessage ==
  ASSUME HandleInv, NEW w \in Processes, HandleWebMessage(w), NEW t \in Targets, NEW b \in Slots,
         locked[t][b], ~locked'[t][b]
  PROVE  /\ w = ProcessOf[t] /\ toWeb[w] # <<>> /\ Head(toWeb[w]) = ReleaseBufferMsg(poolID[t], b)
         /\ ~Young(t) /\ Live(t)
<1>1. /\ locked \in [Targets -> [Slots -> BOOLEAN]]
      /\ targetMap \in [Processes -> [PoolIDs -> Targets \cup {None}]] /\ None \notin Targets
      /\ toWeb \in [Processes -> Seq(WebMessage)]
      /\ TargetsInMapLive /\ TargetsRegistered
  BY IpcAssumption DEF HandleInv, PageInv, MapInv, MapsPointToLive, HeapInv, TypeOK, WebTypeOK, IpcTypeOK
<1>2. PICK m, x : /\ m = Head(toWeb[w]) /\ x = targetMap[w][m.poolID]
  OBVIOUS
<1>3. toWeb[w] # <<>> /\ webUp[w] /\ locked' # locked
  BY DEF HandleWebMessage, InEventLoop
<1>4. m \in WebMessage /\ m.poolID \in PoolIDs
  BY <1>1, <1>2, <1>3, QueueType, WebMessageFields
<1>5. /\ m.code = "ReleaseBuffer" /\ x # None
      /\ poolID[x] = m.poolID /\ locked' = [locked EXCEPT ![x][m.bufferID] = FALSE]
  BY <1>2, <1>3 DEF HandleWebMessage
<1>6. x = t /\ m.bufferID = b
  BY <1>1, <1>5
<1>7. m = ReleaseBufferMsg(poolID[t], b)
  BY <1>4, <1>5, <1>6 DEF WebMessage, ReleaseBufferMsg
<1>8. ProcessOf[t] = w /\ phase[t] \in {"ready", "deinitialized"}
  <2>1. PICK q \in PoolIDs : q = m.poolID
    BY <1>4
  <2>2. targetMap[w][q] = t
    BY <1>2, <1>6, <2>1
  <2> QED
    BY ONLY <1>1, <2>2, q \in PoolIDs, w \in Processes, t \in Targets DEF TargetsInMapLive
<1>9. phase[t] = "ready"
  BY <1>1, <1>8 DEF TargetsRegistered
<1> QED
  BY <1>2, <1>3, <1>7, <1>8, <1>9 DEF Live, Young

(* A slot is unlocked when its buffer has come back.                       *)
LEMMA SteadyUnlocks ==
  ASSUME SteadyInv, ResizeBacklog = 0, [Next]_vars
  PROVE  [UnlocksReturned]_vars
<1>1. /\ HandleInv /\ TypeOK
      /\ locked \in [Targets -> [Slots -> BOOLEAN]]
      /\ object \in [Targets -> [Slots -> Objects \cup {None}]]
      /\ toWeb \in [Processes -> Seq(WebMessage)]
      /\ \A w \in Processes : Len(toHost[w]) \in Nat
  BY LenProperties DEF SteadyInv, UseInv, HandleInv, PageInv, MapInv, HeapInv, TypeOK, WebTypeOK, IpcTypeOK
<1> SUFFICES ASSUME NEW t \in Targets, NEW b \in Slots, NEW o, o = object[t][b],
                    locked[t][b], ~locked'[t][b], o # None, object'[t][b] = o
             PROVE  Back(o) /\ ~CommitInTransit(ProcessOf[t], poolID[t], b)
  BY DEF UnlocksReturned, Back
<1>2. PICK w \in Processes : HandleWebMessage(w)
  <2>1. ASSUME NEW u \in Targets, TargetStep(u)
        PROVE  FALSE
    <3>1. ~Resize(u)
      BY <1>1, IpcAssumption DEF Resize
    <3>2. ~Deinitialize(u)
      BY <1>1 DEF Deinitialize, DestroyBufferPool
    <3>3. ~FrameRendered(u)
      <4> SUFFICES ASSUME FrameRendered(u) PROVE FALSE
        OBVIOUS
      <4>1. locked' = [locked EXCEPT ![u][current[u]] = TRUE]
        BY DEF FrameRendered
      <4> QED
        BY <1>1, <4>1
    <3> QED
      BY <2>1, <3>1, <3>2, <3>3 DEF TargetStep, CreateTarget, Initialize, ReceiveReply, FrameAborts, FrameReuses,
         FrameFailsToAllocate, FrameAllocates, DestroyTarget, webVars
  <2> QED
    BY <2>1 DEF Next, WebExits, HostFrame, ViewFrame, webVars, vars
<1>3. /\ w = ProcessOf[t] /\ toWeb[w] # <<>> /\ Head(toWeb[w]) = ReleaseBufferMsg(poolID[t], b)
      /\ ~Young(t) /\ Live(t)
  BY <1>1, <1>2, UnlockingMessage
<1>4. ReleaseInTransit(ProcessOf[t], poolID[t], b)
  BY <1>1, <1>3, HeadTailProperties, LenProperties DEF ReleaseInTransit
<1>5. InSlot(t, b, o) /\ o \in Objects
  BY <1>1, <1>3 DEF InSlot, Live
<1>6. ~Among(Sent(t), Commits(b), Unread(t)) /\ Back(o)
  BY <1>3, <1>4, <1>5 DEF SteadyInv, SteadyOf, ReleasesReturned
<1> QED
  BY <1>1, <1>6, CommitAmong

(* What reading a message and sending another one leave of the releases.   *)
LEMMA ReleasesKept ==
  ASSUME NEW S, NEW s \in Seq(S), NEW r, NEW x,
         \/ r = s
         \/ s # <<>> /\ r = Tail(s)
         \/ \E m : m # x /\ r = Append(s, m)
  PROVE  /\ Among(r, {x}, Len(r)) => Among(s, {x}, Len(s))
         /\ NeverAfter(s, {x}, {x}, Len(s)) => NeverAfter(r, {x}, {x}, Len(r))
<1>1. CASE r = s
  BY <1>1
<1>2. CASE s # <<>> /\ r = Tail(s)
  <2>1. Len(r) \in Nat /\ Len(s) = Len(r) + 1
    BY <1>2, ReadLength
  <2>2. Len(r) \in 0 .. Len(r)
    BY <2>1
  <2>3. Among(s, {x}, Len(r) + 1) <=> Head(s) \in {x} \/ Among(r, {x}, Len(r))
    BY ONLY <1>2, <2>2, AmongRead, s \in Seq(S)
  <2>4. NeverAfter(s, {x}, {x}, Len(r) + 1) <=>
          NeverAfter(r, {x}, {x}, Len(r)) /\ (Head(s) \in {x} => ~Among(r, {x}, Len(r)))
    BY ONLY <1>2, <2>2, FollowedRead, s \in Seq(S)
  <2> QED
    BY <2>1, <2>3, <2>4
<1>3. CASE \E m : m # x /\ r = Append(s, m)
  <2>1. PICK m : m # x /\ r = Append(s, m)
    BY <1>3
  <2>2. Among(r, {x}, Len(r)) <=> m \in {x} \/ Among(s, {x}, Len(s))
    BY ONLY <2>1, AmongAppended, s \in Seq(S)
  <2>3. NeverAfter(r, {x}, {x}, Len(r)) <=>
          NeverAfter(s, {x}, {x}, Len(s)) /\ (m \in {x} => ~Among(s, {x}, Len(s)))
    BY ONLY <2>1, NeverAppended, s \in Seq(S)
  <2> QED
    BY <2>1, <2>2, <2>3
<1> QED
  BY <1>1, <1>2, <1>3

-----------------------------------------------------------------------------
(* The invariant of one target.                                            *)

(* Steps that leave the messages of a target alone.                        *)
LEMMA SteadyFrame ==
  ASSUME NEW t \in Targets, SteadyOf(t), UNCHANGED <<poolID[t], Sent(t)>>,
         NEW s, s = toWeb[ProcessOf[t]], NEW r, r = toWeb'[ProcessOf[t]],
         Live(t)' => Live(t) /\ object'[t] = object[t],
         Live(t)' => \A b \in Slots :
           LET release == {ReleaseBufferMsg(poolID[t], b)}
           IN  /\ Among(r, release, Len(r)) => Among(s, release, Len(s)) /\ (locked[t][b] => locked'[t][b])
               /\ NeverAfter(r, release, release, Len(r)),
         \A o \in Objects : hostBuffer'[o] # None /\ hostBuffer'[o].poolID = poolID[t] =>
           /\ hostBuffer[o] # None /\ hostBuffer[o].poolID = poolID[t]
           /\ hostBuffer'[o].bufferID = hostBuffer[o].bufferID,
         Live(t)' => \A b \in Slots, o \in Objects : InSlot(t, b, o) /\ Back(o) => Back(o)'
  PROVE  SteadyOf(t)'
<1>1. PICK q : q = Sent(t) /\ q = Sent(t)'
  OBVIOUS
<1>2. Unread(t) = Len(q) /\ Unread(t)' = Len(q)
  BY <1>1 DEF Unread
<1>3. Unpurged(t)'
  BY <1>1, <1>2 DEF SteadyOf, Unpurged
<1>4. PICK p : p = poolID[t] /\ p = poolID'[t]
  OBVIOUS
<1>5. ASSUME Live(t)', NEW b \in Slots, ReleaseInTransit(ProcessOf[t], poolID[t], b)'
      PROVE  ReleaseInTransit(ProcessOf[t], poolID[t], b) /\ (locked[t][b] => locked'[t][b])
  <2>1. Among(r, {ReleaseBufferMsg(p, b)}, Len(r))
    BY <1>4, <1>5 DEF ReleaseInTransit, Among
  <2>2. Among(s, {ReleaseBufferMsg(p, b)}, Len(s)) /\ (locked[t][b] => locked'[t][b])
    BY <1>4, <1>5, <2>1
  <2> QED
    BY <1>4, <2>2, ReleaseAmong
<1>6. AllocatedFirst(t)'
  <2>1. \A b \in Slots : NeverAfter(q, Commits(b), Allocations(b), Len(q))
    BY <1>1, <1>2 DEF SteadyOf, AllocatedFirst
  <2>2. ASSUME Live(t)', NEW b \in Slots, object'[t][b] = None
        PROVE  /\ ~Among(q, Commits(b), Len(q))
               /\ ~ReleaseInTransit(ProcessOf[t], poolID[t], b)'
    <3>1. /\ ~Among(q, Commits(b), Len(q))
          /\ ~ReleaseInTransit(ProcessOf[t], poolID[t], b)
      BY <1>1, <1>2, <2>2 DEF SteadyOf, AllocatedFirst
    <3> QED
      BY <1>5, <2>2, <3>1
  <2> QED
    BY <1>1, <1>2, <2>1, <2>2 DEF AllocatedFirst
<1>7. BuffersInSlots(t)'
  BY <1>4 DEF SteadyOf, BuffersInSlots
<1>8. ReleasesReturned(t)'
  <2> SUFFICES ASSUME Live(t)', NEW b \in Slots, ReleaseInTransit(ProcessOf[t], poolID[t], b)'
               PROVE  /\ locked'[t][b]
                      /\ ~Among(q, Commits(b), Len(q))
                      /\ \A o \in Objects : InSlot(t, b, o)' => Back(o)'
    BY <1>1, <1>2 DEF ReleasesReturned
  <2>1. ReleaseInTransit(ProcessOf[t], poolID[t], b) /\ (locked[t][b] => locked'[t][b])
    BY <1>5
  <2>2. /\ locked[t][b]
        /\ ~Among(q, Commits(b), Len(q))
        /\ \A o \in Objects : InSlot(t, b, o) => Back(o)
    BY <1>1, <1>2, <2>1 DEF SteadyOf, ReleasesReturned
  <2>3. ASSUME NEW o \in Objects, InSlot(t, b, o)'
        PROVE  Back(o)'
    <3>1. InSlot(t, b, o)
      BY <2>3 DEF InSlot, Live
    <3> QED
      BY <2>2, <3>1
  <2> QED
    BY <2>1, <2>2, <2>3
<1>9. ReleasedOnce(t)'
  BY <1>4 DEF ReleasedOnce
<1> QED
  BY <1>3, <1>6, <1>7, <1>8, <1>9 DEF SteadyOf

(* A target that is answered has no messages in either direction.          *)
LEMMA SteadyStart ==
  ASSUME OneTargetPerProcess, HandleInv, NEW t \in Targets, Young(t), ReceiveReply(t), WebFrame
  PROVE  SteadyOf(t)'
<1>1. PoolsOwned /\ UNCHANGED hostBuffer
  BY DEF HandleInv, PageInv, WebFrame, hostVars
<1>2. PICK q \in PoolIDs :
        /\ poolID'[t] = q /\ ~Owned(q)
        /\ Sent(t)' = <<>> /\ toWeb'[ProcessOf[t]] = <<>>
  BY FreshPool
<1>3. Unread(t)' = 0 /\ Len(toWeb'[ProcessOf[t]]) = 0 /\ \A i \in 1 .. 0 : FALSE
  BY <1>2 DEF Unread
<1>4. Unpurged(t)' /\ ReleasedOnce(t)'
  BY <1>3 DEF Unpurged, Among, ReleasedOnce, NeverAfter
<1>5. AllocatedFirst(t)' /\ ReleasesReturned(t)'
  BY <1>3 DEF AllocatedFirst, ReleasesReturned, ReleaseInTransit, NeverAfter, Among
<1>6. BuffersInSlots(t)'
  <2>1. \A o \in Objects : hostBuffer[o] # None => hostBuffer[o].poolID # q
    BY <1>1, <1>2 DEF PoolsOwned
  <2> QED
    BY <1>1, <1>2, <2>1 DEF BuffersInSlots
<1> QED
  BY <1>4, <1>5, <1>6 DEF SteadyOf

(* The target itself: it allocates for a slot of which nothing is under    *)
(* way, and commits one that is not locked, of which no release is.        *)
LEMMA SteadyTarget ==
  ASSUME OneTargetPerProcess, ResizeBacklog = 0, HandleInv, DrawsUnlocked, NEW t \in Targets, ~Young(t), SteadyOf(t),
         TargetStep(t), WebFrame
  PROVE  SteadyOf(t)'
<1> DEFINE w == ProcessOf[t]
           p == poolID[t]
<1>1. /\ TypeOK /\ w \in Processes /\ p \in PoolIDs
      /\ locked \in [Targets -> [Slots -> BOOLEAN]]
      /\ object \in [Targets -> [Slots -> Objects \cup {None}]]
      /\ toHost \in [Processes -> Seq(HostMessage)]
      /\ toWeb \in [Processes -> Seq(WebMessage)]
      /\ None \notin Objects /\ None \notin Slots
      /\ current[t] \in Slots \cup {None} /\ Unread(t) \in Nat /\ Sent(t) \in Seq(HostMessage)
  BY PoolOf DEF HandleInv, PageInv, MapInv, HeapInv, TypeOK, IpcTypeOK, WebTypeOK
<1>2. UNCHANGED <<hostBuffer, held>> /\ \A o : Back(o)' <=> Back(o)
  BY DEF WebFrame, hostVars, appVars, Back, HeldBy
<1>3. ASSUME NEW m, SendToHost(w, m)
      PROVE  Sent(t)' = Append(Sent(t), m)
  BY <1>1, <1>3 DEF SendToHost, Sent
<1>4. PICK s : s = toWeb[w]
  OBVIOUS
<1>5. ASSUME Live(t), NEW b \in Slots
      PROVE  LET release == {ReleaseBufferMsg(p, b)} IN NeverAfter(s, release, release, Len(s))
  BY <1>4, <1>5 DEF SteadyOf, ReleasedOnce
<1>6. CASE \E b \in Slots, o \in Objects : FrameAllocates(t, b, o)
  <2>1. PICK b \in Slots, o \in Objects : FrameAllocates(t, b, o)
    BY <1>6
  <2>2. PICK m : m = BufferAllocationMsg(p, b, o)
    OBVIOUS
  <2>3. /\ UNCHANGED <<poolID, phase, locked, webUp, toWeb>> /\ object' = [object EXCEPT ![t][b] = o]
        /\ Sent(t)' = Append(Sent(t), m) /\ object[t][b] = None /\ Live(t)
    BY <1>3, <2>1, <2>2 DEF FrameAllocates, CanRender, Callable, InEventLoop, Live
  <2>4. m \notin Purges /\ \A c \in Slots : (m \in Allocations(c) <=> c = b) /\ m \notin Commits(c)
    BY <1>1, <2>2, MessageKinds
  <2>5. PICK q, r : /\ q \in Seq(HostMessage) /\ q = Sent(t) /\ r = Sent(t)' /\ r = Append(q, m)
                    /\ Unread(t) = Len(q) /\ Unread(t)' = Len(r)
    BY <1>1, <2>3 DEF Unread
  <2>6. ASSUME NEW M
        PROVE  Among(r, M, Len(r)) <=> m \in M \/ Among(q, M, Len(q))
    BY ONLY <2>5, AmongAppended
  <2>7. ASSUME NEW F, NEW M
        PROVE  NeverAfter(r, F, M, Len(r)) <=> NeverAfter(q, F, M, Len(q)) /\ (m \in M => ~Among(q, F, Len(q)))
    BY ONLY <2>5, NeverAppended
  <2>8. /\ ~Among(q, Purges, Len(q))
        /\ \A c \in Slots : NeverAfter(q, Commits(c), Allocations(c), Len(q))
        /\ \A c \in Slots : object[t][c] = None => ~Among(q, Commits(c), Len(q)) /\ ~ReleaseInTransit(w, p, c)
    BY <2>3, <2>5 DEF SteadyOf, Unpurged, AllocatedFirst
  <2>9. \A c \in Slots : /\ c # b => object'[t][c] = object[t][c]
                         /\ c = b => object'[t][c] = o
                         /\ ReleaseInTransit(w, p, c)' <=> ReleaseInTransit(w, p, c)
    BY <1>1, <2>3 DEF ReleaseInTransit
  <2>10. Unpurged(t)'
    BY <2>4, <2>5, <2>6, <2>8 DEF Unpurged
  <2>11. AllocatedFirst(t)'
    <3>1. \A c \in Slots : NeverAfter(r, Commits(c), Allocations(c), Len(r))
      BY <2>3, <2>4, <2>7, <2>8
    <3>2. ASSUME NEW c \in Slots, object'[t][c] = None
          PROVE  ~Among(r, Commits(c), Len(r)) /\ ~ReleaseInTransit(w, p, c)
      <4>1. c # b /\ object[t][c] = None
        BY <1>1, <2>9, <3>2
      <4> QED
        BY <2>4, <2>6, <2>8, <4>1
    <3>3. \A c \in Slots : ReleaseInTransit(ProcessOf[t], poolID[t], c)' <=> ReleaseInTransit(w, p, c)
      BY <2>3 DEF ReleaseInTransit
    <3> QED
      BY <2>5, <3>1, <3>2, <3>3 DEF AllocatedFirst
  <2>12. BuffersInSlots(t)'
    <3> SUFFICES ASSUME NEW x \in Objects, hostBuffer[x] # None, hostBuffer[x].poolID = p
                 PROVE  object'[t][hostBuffer[x].bufferID] = x
      BY <1>2, <2>3 DEF BuffersInSlots
    <3>1. object[t][hostBuffer[x].bufferID] = x
      BY <2>3 DEF SteadyOf, BuffersInSlots
    <3>2. hostBuffer[x].bufferID # b
      BY <1>1, <2>3, <3>1
    <3> QED
      BY <1>1, <2>3, <3>1, <3>2
  <2>13. ReleasesReturned(t)'
    <3>1. ASSUME NEW c \in Slots, ReleaseInTransit(w, p, c)
          PROVE  /\ locked[t][c] /\ ~Among(r, Commits(c), Len(r))
                 /\ \A x \in Objects : InSlot(t, c, x)' => Back(x)
      <4>1. c # b
        BY <2>3, <2>8, <3>1
      <4>2. /\ locked[t][c] /\ ~Among(q, Commits(c), Len(q))
            /\ \A x \in Objects : InSlot(t, c, x) => Back(x)
        BY <2>3, <2>5, <3>1 DEF SteadyOf, ReleasesReturned
      <4> QED
        BY <2>3, <2>4, <2>6, <2>9, <4>1, <4>2 DEF InSlot
    <3>2. \A c \in Slots : ReleaseInTransit(ProcessOf[t], poolID[t], c)' <=> ReleaseInTransit(w, p, c)
      BY <2>3 DEF ReleaseInTransit
    <3> QED
      BY <1>2, <2>3, <2>5, <3>1, <3>2 DEF ReleasesReturned
  <2>14. ReleasedOnce(t)'
    BY <1>4, <1>5, <2>3 DEF ReleasedOnce
  <2> QED
    BY <2>10, <2>11, <2>12, <2>13, <2>14 DEF SteadyOf
<1>7. CASE FrameRendered(t) /\ object[t][current[t]] # None
  <2>1. PICK b \in Slots : b = current[t]
    BY <1>1, <1>7 DEF FrameRendered
  <2>2. PICK m : m = BufferCommitMsg(p, b)
    OBVIOUS
  <2>3. /\ UNCHANGED <<poolID, phase, object, webUp, toWeb>> /\ locked' = [locked EXCEPT ![t][b] = TRUE]
        /\ Sent(t)' = Append(Sent(t), m) /\ object[t][b] # None /\ ~locked[t][b] /\ Live(t)
    BY <1>3, <1>7, <2>1, <2>2 DEF FrameRendered, InEventLoop, Live, DrawsUnlocked
  <2>4. m \notin Purges /\ \A c \in Slots : m \notin Allocations(c) /\ (m \in Commits(c) <=> c = b)
    <3>1. ASSUME NEW c \in Slots, NEW x \in Objects
          PROVE  m \notin Purges /\ m \notin Allocations(c) /\ (m \in Commits(c) <=> c = b)
      BY <1>1, <2>2, MessageKinds
    <3>2. object[t][b] \in Objects
      BY <1>1, <2>3
    <3> QED
      BY <3>1, <3>2
  <2>5. PICK q, r : /\ q \in Seq(HostMessage) /\ q = Sent(t) /\ r = Sent(t)' /\ r = Append(q, m)
                    /\ Unread(t) = Len(q) /\ Unread(t)' = Len(r)
    BY <1>1, <2>3 DEF Unread
  <2>6. ASSUME NEW M
        PROVE  Among(r, M, Len(r)) <=> m \in M \/ Among(q, M, Len(q))
    BY ONLY <2>5, AmongAppended
  <2>7. ASSUME NEW F, NEW M
        PROVE  NeverAfter(r, F, M, Len(r)) <=> NeverAfter(q, F, M, Len(q)) /\ (m \in M => ~Among(q, F, Len(q)))
    BY ONLY <2>5, NeverAppended
  <2>8. /\ ~Among(q, Purges, Len(q))
        /\ \A c \in Slots : NeverAfter(q, Commits(c), Allocations(c), Len(q))
        /\ \A c \in Slots : object[t][c] = None => ~Among(q, Commits(c), Len(q)) /\ ~ReleaseInTransit(w, p, c)
    BY <2>3, <2>5 DEF SteadyOf, Unpurged, AllocatedFirst
  <2>9. \A c \in Slots : ReleaseInTransit(ProcessOf[t], poolID[t], c)' <=> ReleaseInTransit(w, p, c)
    BY <2>3 DEF ReleaseInTransit
  <2>10. Unpurged(t)'
    BY <2>4, <2>5, <2>6, <2>8 DEF Unpurged
  <2>11. AllocatedFirst(t)'
    <3>1. \A c \in Slots : NeverAfter(r, Commits(c), Allocations(c), Len(r))
      BY <2>4, <2>7, <2>8
    <3>2. \A c \in Slots : object[t][c] = None => ~Among(r, Commits(c), Len(r)) /\ ~ReleaseInTransit(w, p, c)
      BY <2>3, <2>4, <2>6, <2>8
    <3> QED
      BY <2>3, <2>5, <2>9, <3>1, <3>2 DEF AllocatedFirst
  <2>12. BuffersInSlots(t)'
    BY <1>2, <2>3 DEF SteadyOf, BuffersInSlots, Live
  <2>13. ReleasesReturned(t)'
    <3>1. ASSUME NEW c \in Slots, ReleaseInTransit(w, p, c)
          PROVE  /\ locked'[t][c] /\ ~Among(r, Commits(c), Len(r))
                 /\ \A x \in Objects : InSlot(t, c, x)' => Back(x)
      <4>1. /\ locked[t][c] /\ ~Among(q, Commits(c), Len(q))
            /\ \A x \in Objects : InSlot(t, c, x) => Back(x)
        BY <2>3, <2>5, <3>1 DEF SteadyOf, ReleasesReturned
      <4>2. c # b
        BY <2>3, <4>1
      <4> QED
        BY <1>1, <2>3, <2>4, <2>6, <4>1, <4>2 DEF InSlot
    <3> QED
      BY <1>2, <2>3, <2>5, <2>9, <3>1 DEF ReleasesReturned
  <2>14. ReleasedOnce(t)'
    BY <1>4, <1>5, <2>3 DEF ReleasedOnce
  <2> QED
    BY <2>10, <2>11, <2>12, <2>13, <2>14 DEF SteadyOf
<1>8. ASSUME UNCHANGED <<poolID, toHost>>,
             \/ ~Live(t)'
             \/ /\ UNCHANGED <<phase, object, toWeb>>
                /\ webUp'[w] => webUp[w]
                /\ \A b \in Slots : locked[t][b] => locked'[t][b]
      PROVE  SteadyOf(t)'
  <2>1. PICK r : r = toWeb'[w]
    OBVIOUS
  <2>2. UNCHANGED <<poolID[t], Sent(t)>>
    BY <1>8 DEF Sent
  <2>3. Live(t)' => Live(t) /\ object'[t] = object[t] /\ r = s /\ \A b \in Slots : locked[t][b] => locked'[t][b]
    BY <1>4, <1>8, <2>1 DEF Live
  <2>4. Live(t)' => \A b \in Slots :
           LET release == {ReleaseBufferMsg(poolID[t], b)}
           IN  /\ Among(r, release, Len(r)) => Among(s, release, Len(s)) /\ (locked[t][b] => locked'[t][b])
               /\ NeverAfter(r, release, release, Len(r))
    BY <1>5, <2>3
  <2> QED
    BY <1>2, <1>4, <2>1, <2>2, <2>3, <2>4, SteadyFrame
<1>9. CASE FrameRendered(t) /\ object[t][current[t]] = None
  <2>1. locked' = [locked EXCEPT ![t][current[t]] = TRUE] /\ UNCHANGED <<poolID, toHost, phase, object, toWeb, webUp>>
    BY <1>9 DEF FrameRendered
  <2>2. \A b \in Slots : locked[t][b] => locked'[t][b]
    BY <1>1, <2>1
  <2> QED
    BY <1>8, <2>1, <2>2
<1>10. CASE Deinitialize(t) \/ DestroyTarget(t)
  <2>1. phase'[t] # "ready"
    BY <1>1, <1>10 DEF Deinitialize, DestroyTarget, TypeOK, WebTypeOK
  <2> QED
    BY <1>8, <1>10, <2>1 DEF Deinitialize, DestroyTarget, ipcVars, Live
<1>11. CASE FrameAborts(t)
  <2>1. ~webUp'[w]
    BY <1>1, <1>11 DEF FrameAborts, CloseWeb, TypeOK, IpcTypeOK
  <2> QED
    BY <1>8, <1>11, <2>1 DEF FrameAborts, webVars, Live
<1>12. CASE \E b \in Slots : FrameReuses(t, b) \/ FrameFailsToAllocate(t, b)
  BY <1>8, <1>12 DEF FrameReuses, FrameFailsToAllocate, ipcVars
<1>13. ~Resize(t)
  BY <1>1, LenProperties, IpcAssumption DEF Resize
<1> QED
  BY <1>6, <1>7, <1>9, <1>10, <1>11, <1>12, <1>13 DEF TargetStep, CreateTarget, Initialize, ReceiveReply, Young

(* The allocation a proxy reads is of the buffer its slot has: only a      *)
(* purge could have thrown it out of the slot since.                       *)
LEMMA AllocationCurrent ==
  ASSUME TypeOK, NEW t \in Targets, UseOf(t), Unpurged(t), Live(t), Sent(t) # <<>>,
         NEW b \in Slots, NEW o \in Objects, Head(Sent(t)) \in Allocations(b) \cap Carrying(o)
  PROVE  object[t][b] = o
<1>1. PICK s \in Seq(HostMessage) : s = Sent(t) /\ Unread(t) = Len(s)
  BY PoolOf DEF Unread
<1>2. s[1] = Head(s) /\ Len(s) \in Nat /\ 1 \in 1 .. Len(s)
  BY <1>1, HeadTailProperties, LenProperties
<1>3. \A j \in 1 .. Len(s) : s[j] \notin Purges
  BY <1>1 DEF Unpurged, Among
<1>4. ASSUME object[t][b] = None
      PROVE  FALSE
  <2>1. Followed(s, Allocations(b), Purges, Len(s))
    BY <1>1, <1>4 DEF UseOf, SlotsAgree, Emptied
  <2>2. PICK j \in 1 + 1 .. Len(s) : s[j] \in Purges
    BY <1>1, <1>2, <2>1 DEF Followed
  <2> QED
    BY <1>2, <1>3, <2>2
<1>5. ASSUME object[t][b] # None, object[t][b] # o
      PROVE  FALSE
  <2>1. Followed(s, Allocations(b) \ Carrying(object[t][b]), Refills(b), Len(s))
    BY <1>1, <1>5 DEF UseOf, SlotsAgree
  <2>2. s[1] \in Allocations(b) \ Carrying(object[t][b])
    BY <1>1, <1>2, <1>5 DEF Carrying
  <2>3. PICK j \in 1 + 1 .. Len(s) : s[j] \in Refills(b)
    BY <1>2, <2>1, <2>2 DEF Followed
  <2>4. s[j] \in Allocations(b) /\ j \in 1 .. Len(s) /\ 1 \in 1 .. j - 1
    BY <1>2, <1>3, <2>3 DEF Refills
  <2>5. Followed(s, Allocations(b), Purges, j - 1)
    BY <1>1, <2>4 DEF UseOf, AllocatesEmpty, Emptied
  <2>6. PICK k \in 1 + 1 .. j - 1 : s[k] \in Purges
    BY <2>2, <2>4, <2>5 DEF Followed
  <2>7. k \in 1 .. Len(s)
    BY <1>2, <2>3, <2>6
  <2> QED
    BY <1>3, <2>6, <2>7
<1> QED
  BY <1>4, <1>5

(* The proxy of the target reads: no purge, so that what is in the slots   *)
(* stays there, and no commit of a slot whose release is on its way.       *)
LEMMA SteadyReceived ==
  ASSUME OneTargetPerProcess, HandleInv, NEW t \in Targets, ~Young(t), UseOf(t), SteadyOf(t),
         ProxyStep(ProcessOf[t]), HostFrame
  PROVE  SteadyOf(t)'
<1> DEFINE w == ProcessOf[t]
           p == poolID[t]
<1>1. /\ TypeOK /\ HeapInv /\ Handshake /\ HandlesPlaced /\ w \in Processes /\ p \in PoolIDs
      /\ toHost \in [Processes -> Seq(HostMessage)] /\ None \notin Objects
  BY PoolOf DEF HandleInv, PageInv, MapInv, HeapInv, TypeOK, IpcTypeOK
<1>2. PICK h : h = Head(toHost[w])
  OBVIOUS
<1>3. /\ h \in HostMessage /\ toHost[w] # <<>>
      /\ toHost' = [toHost EXCEPT ![w] = Tail(toHost[w])]
      /\ PurgePool(w) => h \in Purges
      /\ BufferAllocation(w) => h \in Allocations(h.bufferID) \cap Carrying(h.object)
      /\ CommitToView(w) \/ CommitWithoutView(w) => h \in Commits(h.bufferID)
      /\ BufferAllocation(w) => h.bufferID \in Slots /\ h.object \in Objects
  BY <1>1, <1>2, ProxyMessage
<1>4. h.poolID = p /\ ~ConstructPool(w)
  <2>1. h \in OwnHostMessage(p)
    BY <1>1, <1>2, <1>3, HandshakeOf, QueueType
  <2> QED
    BY <1>2, <2>1 DEF OwnHostMessage, ConstructPool, Reads
<1>5. /\ UNCHANGED <<webVars, webUp, toWeb>> /\ Sent(t)' = Tail(Sent(t)) /\ Sent(t) # <<>> /\ h = Head(Sent(t))
      /\ UNCHANGED <<poolID, phase, locked, object>>
  <2>1. UNCHANGED <<webVars, webUp, toWeb>>
    BY <1>4 DEF HostFrame, ProxyStep, PurgePool, BufferAllocation, CommitToView, CommitWithoutView
  <2> QED
    BY <1>1, <1>2, <1>3, <2>1 DEF Sent, webVars
<1>6. [Next]_vars
  BY <1>1 DEF Next
<1>7. PICK s, r : s \in Seq(HostMessage) /\ s = Sent(t) /\ r = Sent(t)' /\ r = Tail(s) /\ s # <<>> /\ h = Head(s)
  BY <1>1, <1>5, PoolOf
<1>8. /\ Len(r) \in Nat /\ Len(s) = Len(r) + 1 /\ Unread(t) = Len(s) /\ Unread(t)' = Len(r) /\ Len(r) \in 0 .. Len(r)
      /\ 1 \in 1 .. Len(s) /\ s[1] = h
  BY <1>7, ReadLength DEF Unread
<1>9. ASSUME NEW M
      PROVE  /\ Among(r, M, Len(r)) => Among(s, M, Len(s))
             /\ h \in M => Among(s, M, Len(s))
  <2>1. Among(s, M, Len(r) + 1) <=> Head(s) \in M \/ Among(r, M, Len(r))
    BY ONLY <1>7, <1>8, AmongRead
  <2> QED
    BY <1>7, <1>8, <2>1
<1>10. ASSUME NEW F, NEW M, NeverAfter(s, F, M, Len(s))
       PROVE  NeverAfter(r, F, M, Len(r))
  <2>1. NeverAfter(s, F, M, Len(r) + 1) <=> NeverAfter(r, F, M, Len(r)) /\ (Head(s) \in F => ~Among(r, M, Len(r)))
    BY ONLY <1>7, <1>8, FollowedRead
  <2> QED
    BY <1>8, <1>10, <2>1
<1>11. ~Among(s, Purges, Len(s))
  BY <1>7, <1>8 DEF SteadyOf, Unpurged
<1>12. Unpurged(t)'
  BY <1>7, <1>8, <1>9, <1>11 DEF Unpurged
<1>13. Live(t)' <=> Live(t)
  BY <1>5 DEF Live
<1>14. \A b \in Slots : ReleaseInTransit(ProcessOf[t], poolID[t], b)' <=> ReleaseInTransit(w, p, b)
  BY <1>5 DEF ReleaseInTransit
<1>15. AllocatedFirst(t)'
  <2>1. \A b \in Slots : NeverAfter(r, Commits(b), Allocations(b), Len(r))
    BY <1>7, <1>8, <1>10 DEF SteadyOf, AllocatedFirst
  <2>2. ASSUME Live(t), NEW b \in Slots, object[t][b] = None
        PROVE  ~Among(r, Commits(b), Len(r)) /\ ~ReleaseInTransit(w, p, b)
    BY <1>7, <1>8, <1>9, <2>2 DEF SteadyOf, AllocatedFirst
  <2> QED
    BY <1>5, <1>7, <1>8, <1>13, <1>14, <2>1, <2>2 DEF AllocatedFirst
<1>16. BuffersInSlots(t)'
  <2> SUFFICES ASSUME Live(t), NEW o \in Objects, hostBuffer'[o] # None, hostBuffer'[o].poolID = p
               PROVE  object[t][hostBuffer'[o].bufferID] = o
    BY <1>5, <1>13 DEF BuffersInSlots
  <2>1. \/ /\ hostBuffer[o] # None /\ hostBuffer'[o].poolID = hostBuffer[o].poolID
           /\ hostBuffer'[o].bufferID = hostBuffer[o].bufferID
        \/ BufferAllocation(w) /\ o = h.object /\ hostBuffer'[o].bufferID = h.bufferID
    BY <1>1, <1>2, ProxyBuffers
  <2>2. CASE hostBuffer[o] # None /\ hostBuffer'[o].poolID = hostBuffer[o].poolID
             /\ hostBuffer'[o].bufferID = hostBuffer[o].bufferID
    BY <2>2 DEF SteadyOf, BuffersInSlots
  <2>3. CASE BufferAllocation(w) /\ o = h.object /\ hostBuffer'[o].bufferID = h.bufferID
    <3>1. h.bufferID \in Slots /\ Head(Sent(t)) \in Allocations(h.bufferID) \cap Carrying(o)
      BY <1>3, <1>5, <2>3
    <3>2. object[t][h.bufferID] = o
      BY <1>1, <1>5, <3>1, AllocationCurrent DEF SteadyOf
    <3> QED
      BY <2>3, <3>2
  <2> QED
    BY <2>1, <2>2, <2>3
<1>17. ReleasesReturned(t)'
  <2> SUFFICES ASSUME Live(t), NEW b \in Slots, ReleaseInTransit(w, p, b)
               PROVE  /\ locked[t][b] /\ ~Among(r, Commits(b), Len(r))
                      /\ \A o \in Objects : InSlot(t, b, o) => Back(o)'
    BY <1>5, <1>7, <1>8, <1>13, <1>14 DEF ReleasesReturned, InSlot
  <2>1. /\ locked[t][b] /\ ~Among(s, Commits(b), Len(s))
        /\ \A o \in Objects : InSlot(t, b, o) => Back(o)
    BY <1>7, <1>8 DEF SteadyOf, ReleasesReturned
  <2>2. ASSUME NEW o \in Objects, InSlot(t, b, o)
        PROVE  Back(o)'
    <3>1. ASSUME NEW u \in Processes, CommitToView(u),
                 poolBuffers[Head(toHost[u]).poolID][Head(toHost[u]).bufferID] = o
          PROVE  FALSE
      <4>1. u = w
        <5>1. Turn(u) /\ Turn(w)
          BY <3>1 DEF CommitToView, Reads, ProxyStep, PurgePool, BufferAllocation, CommitWithoutView, ConstructPool
        <5> QED
          BY <1>1, <5>1, OneTurn
      <4>2. hostBuffer[o] # None /\ hostBuffer[o].bufferID = h.bufferID
        BY <1>1, <1>2, <3>1, <4>1, HeldAfterCommit
      <4>3. h.bufferID = b
        BY <1>1, <2>2, <4>2 DEF HandlesPlaced
      <4>4. h \in Commits(b)
        BY <1>3, <3>1, <4>1, <4>3
      <4> QED
        BY <1>9, <2>1, <4>4
    <3> QED
      BY <1>1, <1>6, <2>1, <2>2, <3>1, BackKept
  <2> QED
    BY <1>9, <2>1, <2>2
<1>18. ReleasedOnce(t)'
  BY <1>5, <1>13 DEF SteadyOf, ReleasedOnce
<1> QED
  BY <1>12, <1>15, <1>16, <1>17, <1>18 DEF SteadyOf

(* What the application releases was with it, so that no other release of  *)
(* its slot and no commit is under way.                                    *)
LEMMA ReleaseDue ==
  ASSUME HandleInv, NEW t \in Targets, UseOf(t), SteadyOf(t), Live(t),
         NEW v \in Views, NEW o \in Objects, HeldBy(v, o), hostBuffer[o] # None, ~hostBuffer[o].pendingDelete,
         NEW b \in Slots, hostBuffer[o].poolID = poolID[t], hostBuffer[o].bufferID = b
  PROVE  /\ InSlot(t, b, o) /\ locked[t][b]
         /\ ~ReleaseInTransit(ProcessOf[t], poolID[t], b)
         /\ ~Among(Sent(t), Commits(b), Unread(t))
<1>1. TypeOK /\ SlotsPointToLive /\ MarkedOutsideSlots /\ poolID[t] \in PoolIDs /\ None \notin Objects
  BY PoolOf DEF HandleInv, PageInv, MapInv, HeapInv, HostHeapConsistent
<1>2. InSlot(t, b, o)
  BY DEF SteadyOf, BuffersInSlots, InSlot, Live
<1>3. ~Back(o)
  BY DEF Back
<1>4. locked[t][b]
  BY <1>2, <1>3 DEF UseOf, UnlockedReturned, Returned
<1>5. ~ReleaseInTransit(ProcessOf[t], poolID[t], b)
  BY <1>2, <1>3 DEF SteadyOf, ReleasesReturned
<1>6. InPool(t, b) = o
  <2>1. PICK q \in PoolIDs, c \in Slots : poolBuffers[q][c] = o
    BY <1>1 DEF MarkedOutsideSlots
  <2>2. q = poolID[t] /\ c = b
    BY <1>1, <2>1 DEF SlotsPointToLive
  <2> QED
    BY <2>1, <2>2 DEF InPool
<1>7. ~Among(Sent(t), Refills(b), Unread(t))
  BY <1>2 DEF UseOf, NewestLast
<1>8. ASSUME NEW k \in 1 .. Unread(t), Sent(t)[k] \in Commits(b)
      PROVE  FALSE
  <2>1. Among(Sent(t), Refills(b), k - 1)
    BY <1>1, <1>3, <1>6, <1>8 DEF UseOf, CommittedOnce
  <2>2. Unread(t) \in Nat /\ \A j \in 1 .. k - 1 : j \in 1 .. Unread(t)
    BY <1>1, PoolOf
  <2> QED
    BY <1>7, <2>1, <2>2 DEF Among
<1> QED
  BY <1>2, <1>4, <1>5, <1>8 DEF Among

(* The application releases a buffer.                                      *)
LEMMA SteadyReleased ==
  ASSUME OneTargetPerProcess, HandleInv, HeldOnce, NEW t \in Targets, ~Young(t), UseOf(t), SteadyOf(t),
         NEW v \in Views, ReleaseStep(v), ViewFrame
  PROVE  SteadyOf(t)'
<1> DEFINE w == ProcessOf[t]
           p == poolID[t]
<1>1. /\ TypeOK /\ HeapInv /\ w \in Processes /\ p \in PoolIDs
      /\ toWeb \in [Processes -> Seq(WebMessage)] /\ held \in [Views -> Seq(Objects)]
  BY PoolOf DEF HandleInv, PageInv, MapInv, HeapInv, TypeOK, IpcTypeOK, HostTypeOK
<1>2. PICK i \in 1 .. Len(held[v]) : DispatchReleaseBuffer(v, i)
  BY DEF ReleaseStep
<1>3. PICK o \in Objects : o = held[v][i] /\ ReleaseBuffer(o)
  BY <1>1, <1>2, HeldAfterRelease
<1>4. /\ UNCHANGED <<poolID, phase, locked, object, toHost, webUp, poolBuffers>>
      /\ Sent(t)' = Sent(t) /\ Unread(t)' = Unread(t) /\ (Live(t)' <=> Live(t))
  <2>1. UNCHANGED <<poolID, phase, locked, object, toHost, webUp, poolBuffers>>
    BY <1>2, <1>3 DEF ViewFrame, webVars, DispatchReleaseBuffer, ReleaseBuffer
  <2> QED
    BY <2>1 DEF Sent, Unread, Live
<1>5. /\ hostBuffer[o] \in Buffer /\ hostBuffer[o] # None
      /\ \A x \in Objects : hostBuffer'[x] # None =>
           /\ hostBuffer[x] # None /\ hostBuffer'[x].poolID = hostBuffer[x].poolID
           /\ hostBuffer'[x].bufferID = hostBuffer[x].bufferID
           /\ x = o => ~hostBuffer'[x].locked
  BY <1>1, <1>3, ReleasedBuffers
<1>6. PICK q, b : q = hostBuffer[o].poolID /\ b = hostBuffer[o].bufferID /\ q \in PoolIDs /\ b \in Slots
  BY <1>5 DEF Buffer
<1>7. PICK s, r : s \in Seq(WebMessage) /\ s = toWeb[w] /\ r = toWeb'[w]
  BY <1>1
<1>8. r = s \/ (r = Append(s, ReleaseBufferMsg(q, b)) /\ ~hostBuffer[o].pendingDelete)
  <2>1. \/ UNCHANGED toWeb
        \/ /\ ~hostBuffer[o].pendingDelete
           /\ \E x : toWeb' = [toWeb EXCEPT ![x] = Append(@, ReleaseBufferMsg(q, b))]
    BY <1>1, <1>3, <1>6, ReleaseSends
  <2> QED
    BY <1>1, <1>7, <2>1
<1>9. ASSUME NEW x \in Objects, Back(x)
      PROVE  Back(x)'
  <2>1. [Next]_vars
    BY DEF Next
  <2> QED
    BY <1>1, <1>4, <1>9, <2>1, ReadsChange, BackKept DEF ProxyStep
<1>10. ASSUME Live(t), NEW c \in Slots, r = s \/ q # p \/ b # c
       PROVE  LET release == {ReleaseBufferMsg(p, c)}
              IN  /\ Among(r, release, Len(r)) => Among(s, release, Len(s))
                  /\ NeverAfter(r, release, release, Len(r))
  <2>1. r = s \/ \E m : m # ReleaseBufferMsg(p, c) /\ r = Append(s, m)
    <3>1. q # p \/ b # c => ReleaseBufferMsg(q, b) # ReleaseBufferMsg(p, c)
      BY ReleaseKinds
    <3> QED
      BY <1>8, <1>10, <3>1
  <2>2. LET release == {ReleaseBufferMsg(p, c)} IN NeverAfter(s, release, release, Len(s))
    BY <1>7, <1>10 DEF SteadyOf, ReleasedOnce
  <2>3. PICK x : x = ReleaseBufferMsg(p, c)
    OBVIOUS
  <2>4. r = s \/ \E m : m # x /\ r = Append(s, m)
    BY <2>1, <2>3
  <2>5. /\ Among(r, {x}, Len(r)) => Among(s, {x}, Len(s))
        /\ NeverAfter(s, {x}, {x}, Len(s)) => NeverAfter(r, {x}, {x}, Len(r))
    BY ONLY <1>7, <2>4, ReleasesKept
  <2> QED
    BY <2>2, <2>3, <2>5
<1>11. CASE ~Live(t) \/ r = s \/ q # p
  <2>1. Live(t)' => \A c \in Slots :
          LET release == {ReleaseBufferMsg(poolID[t], c)}
          IN  /\ Among(r, release, Len(r)) => Among(s, release, Len(s)) /\ (locked[t][c] => locked'[t][c])
              /\ NeverAfter(r, release, release, Len(r))
    BY <1>4, <1>10, <1>11
  <2> QED
    BY <1>4, <1>5, <1>7, <1>9, <2>1, SteadyFrame
<1>12. CASE Live(t) /\ r # s /\ q = p
  <2>1. HeldBy(v, o) /\ r = Append(s, ReleaseBufferMsg(p, b)) /\ ~hostBuffer[o].pendingDelete
    BY <1>3, <1>8, <1>12 DEF HeldBy
  <2>2. /\ InSlot(t, b, o) /\ locked[t][b]
        /\ ~ReleaseInTransit(ProcessOf[t], poolID[t], b)
        /\ ~Among(Sent(t), Commits(b), Unread(t))
    BY <1>5, <1>6, <1>12, <2>1, ReleaseDue
  <2>3. Back(o)'
    <3>1. ASSUME NEW u \in Views, HeldBy(u, o)'
          PROVE  FALSE
      <4>1. PICK j \in 1 .. Len(held'[u]) : held'[u][j] = o
        BY <3>1 DEF HeldBy
      <4>2. \E k \in 1 .. Len(held[u]) : held[u][k] = held'[u][j] /\ (u = v => k # i)
        BY <1>1, <1>2, HeldBefore
      <4>3. PICK k \in 1 .. Len(held[u]) : held[u][k] = held[v][i] /\ (u = v => k # i)
        BY <1>3, <4>1, <4>2
      <4>4. u = v /\ k = i
        BY <4>3 DEF HeldOnce
      <4> QED
        BY <4>3, <4>4
    <3> QED
      BY <1>5, <3>1 DEF Back
  <2>4. ASSUME NEW c \in Slots, c # b
        PROVE  ReleaseInTransit(ProcessOf[t], poolID[t], c)' => ReleaseInTransit(ProcessOf[t], poolID[t], c)
    <3>1. Among(r, {ReleaseBufferMsg(p, c)}, Len(r)) => Among(s, {ReleaseBufferMsg(p, c)}, Len(s))
      BY <1>10, <1>12, <2>4
    <3>2. ReleaseInTransit(ProcessOf[t], poolID[t], c)' => Among(r, {ReleaseBufferMsg(p, c)}, Len(r))
      BY <1>4, <1>7 DEF ReleaseInTransit, Among
    <3>3. Among(s, {ReleaseBufferMsg(p, c)}, Len(s)) => ReleaseInTransit(ProcessOf[t], poolID[t], c)
      BY <1>7 DEF ReleaseInTransit, Among
    <3> QED
      BY <3>1, <3>2, <3>3
  <2>5. Unpurged(t)'
    BY <1>4 DEF SteadyOf, Unpurged
  <2>6. AllocatedFirst(t)'
    <3>1. ASSUME NEW c \in Slots, object[t][c] = None
          PROVE  ~Among(Sent(t), Commits(c), Unread(t)) /\ ~ReleaseInTransit(ProcessOf[t], poolID[t], c)'
      <4>1. c # b
        BY <2>2, <3>1, IpcAssumption DEF InSlot
      <4>2. ~Among(Sent(t), Commits(c), Unread(t)) /\ ~ReleaseInTransit(ProcessOf[t], poolID[t], c)
        BY <1>12, <3>1 DEF SteadyOf, AllocatedFirst
      <4> QED
        BY <2>4, <4>1, <4>2
    <3> QED
      BY <1>4, <3>1 DEF SteadyOf, AllocatedFirst
  <2>7. BuffersInSlots(t)'
    BY <1>4, <1>5 DEF SteadyOf, BuffersInSlots
  <2>8. ReleasesReturned(t)'
    <3> SUFFICES ASSUME NEW c \in Slots, ReleaseInTransit(ProcessOf[t], poolID[t], c)'
                 PROVE  /\ locked[t][c] /\ ~Among(Sent(t), Commits(c), Unread(t))
                        /\ \A x \in Objects : InSlot(t, c, x) => Back(x)'
      BY <1>4 DEF ReleasesReturned, InSlot
    <3>1. CASE c = b
      BY <2>2, <2>3, <3>1 DEF InSlot
    <3>2. CASE c # b
      BY <1>9, <1>12, <2>4, <3>2 DEF SteadyOf, ReleasesReturned
    <3> QED
      BY <3>1, <3>2
  <2>9. ReleasedOnce(t)'
    <3>1. ASSUME NEW c \in Slots
          PROVE  LET release == {ReleaseBufferMsg(p, c)} IN NeverAfter(r, release, release, Len(r))
      <4>1. CASE c = b
        <5>1. PICK x : x = ReleaseBufferMsg(p, b)
          OBVIOUS
        <5>2. r = Append(s, x) /\ NeverAfter(s, {x}, {x}, Len(s)) /\ ~Among(s, {x}, Len(s))
          <6>1. NeverAfter(s, {x}, {x}, Len(s))
            BY <1>6, <1>7, <1>12, <5>1 DEF SteadyOf, ReleasedOnce
          <6>2. ~Among(s, {x}, Len(s))
            BY <1>7, <2>2, <5>1 DEF ReleaseInTransit, Among
          <6> QED
            BY <2>1, <5>1, <6>1, <6>2
        <5>3. NeverAfter(r, {x}, {x}, Len(r)) <=>
                NeverAfter(s, {x}, {x}, Len(s)) /\ (x \in {x} => ~Among(s, {x}, Len(s)))
          BY ONLY <1>7, <5>2, NeverAppended
        <5> QED
          BY <4>1, <5>1, <5>2, <5>3
      <4>2. CASE c # b
        BY <1>10, <1>12, <4>2
      <4> QED
        BY <4>1, <4>2
    <3> QED
      BY <1>4, <1>7, <3>1 DEF ReleasedOnce
  <2> QED
    BY <2>5, <2>6, <2>7, <2>8, <2>9 DEF SteadyOf
<1> QED
  BY <1>11, <1>12

(* What the other steps do to the queue of a web process: a message is     *)
(* read, or one is sent that is no release.                                *)
LEMMA SteadyQueue ==
  ASSUME TypeOK, NEW t \in Targets, SteadyOf(t), UNCHANGED <<poolID[t], Sent(t)>>,
         NEW s, s = toWeb[ProcessOf[t]], NEW r, r = toWeb'[ProcessOf[t]],
         Live(t)' => Live(t) /\ object'[t] = object[t] /\ \A b \in Slots : locked[t][b] => locked'[t][b],
         Live(t)' => \/ r = s
                     \/ s # <<>> /\ r = Tail(s)
                     \/ \E q : r = Append(s, FrameCompleteMsg(q)),
         \A o \in Objects : hostBuffer'[o] # None /\ hostBuffer'[o].poolID = poolID[t] =>
           /\ hostBuffer[o] # None /\ hostBuffer[o].poolID = poolID[t]
           /\ hostBuffer'[o].bufferID = hostBuffer[o].bufferID,
         Live(t)' => \A b \in Slots, o \in Objects : InSlot(t, b, o) /\ Back(o) => Back(o)'
  PROVE  SteadyOf(t)'
<1>1. s \in Seq(WebMessage)
  BY IpcAssumption DEF TypeOK, IpcTypeOK
<1>2. ASSUME Live(t)', NEW b \in Slots
      PROVE  LET release == {ReleaseBufferMsg(poolID[t], b)}
             IN  /\ Among(r, release, Len(r)) => Among(s, release, Len(s))
                 /\ NeverAfter(r, release, release, Len(r))
  <2>1. PICK x : x = ReleaseBufferMsg(poolID[t], b)
    OBVIOUS
  <2>2. NeverAfter(s, {x}, {x}, Len(s))
    BY <1>2, <2>1 DEF SteadyOf, ReleasedOnce
  <2>3. \/ r = s
        \/ s # <<>> /\ r = Tail(s)
        \/ \E m : m # x /\ r = Append(s, m)
    BY <1>2, <2>1, ReleaseKinds
  <2>4. /\ Among(r, {x}, Len(r)) => Among(s, {x}, Len(s))
        /\ NeverAfter(s, {x}, {x}, Len(s)) => NeverAfter(r, {x}, {x}, Len(r))
    BY ONLY <1>1, <2>3, ReleasesKept
  <2> QED
    BY <2>1, <2>2, <2>4
<1>3. Live(t)' => \A b \in Slots :
        LET release == {ReleaseBufferMsg(poolID[t], b)}
        IN  /\ Among(r, release, Len(r)) => Among(s, release, Len(s)) /\ (locked[t][b] => locked'[t][b])
            /\ NeverAfter(r, release, release, Len(r))
  BY <1>2
<1> QED
  BY <1>3, SteadyFrame

(* The target reads a message: the release that unlocks a slot was the     *)
(* only one of the slot.                                                   *)
LEMMA SteadyHandled ==
  ASSUME HandleInv, NEW t \in Targets, SteadyOf(t), HandleWebMessage(ProcessOf[t]), WebFrame
  PROVE  SteadyOf(t)'
<1> DEFINE w == ProcessOf[t]
<1>1. TypeOK /\ toWeb \in [Processes -> Seq(WebMessage)] /\ w \in Processes
      /\ locked \in [Targets -> [Slots -> BOOLEAN]]
  BY PoolOf DEF HandleInv, PageInv, MapInv, HeapInv, TypeOK, IpcTypeOK, WebTypeOK
<1>2. /\ UNCHANGED <<poolID, phase, object, toHost, webUp, hostBuffer, held>>
      /\ toWeb[w] # <<>> /\ toWeb' = [toWeb EXCEPT ![w] = Tail(toWeb[w])]
  BY DEF HandleWebMessage, WebFrame, hostVars, appVars, Received
<1>3. PICK s, r : s \in Seq(WebMessage) /\ s = toWeb[w] /\ r = toWeb'[w] /\ s # <<>> /\ r = Tail(s)
  BY <1>1, <1>2
<1>4. /\ UNCHANGED <<poolID[t], Sent(t)>> /\ (Live(t)' <=> Live(t)) /\ object'[t] = object[t]
      /\ \A o : Back(o) => Back(o)'
  BY <1>2 DEF Sent, Live, Back, HeldBy
<1>5. ASSUME Live(t), NEW b \in Slots
      PROVE  LET release == {ReleaseBufferMsg(poolID[t], b)}
             IN  /\ Among(r, release, Len(r)) => Among(s, release, Len(s)) /\ (locked[t][b] => locked'[t][b])
                 /\ NeverAfter(r, release, release, Len(r))
  <2>1. PICK x : x = ReleaseBufferMsg(poolID[t], b)
    OBVIOUS
  <2>2. NeverAfter(s, {x}, {x}, Len(s))
    BY <1>3, <1>5, <2>1 DEF SteadyOf, ReleasedOnce
  <2>3. /\ Among(r, {x}, Len(r)) => Among(s, {x}, Len(s))
        /\ NeverAfter(s, {x}, {x}, Len(s)) => NeverAfter(r, {x}, {x}, Len(r))
    BY ONLY <1>3, ReleasesKept
  <2>4. ASSUME Among(r, {x}, Len(r)), locked[t][b], ~locked'[t][b]
        PROVE  FALSE
    <3>1. Head(s) = x
      BY <1>1, <1>3, <2>1, <2>4, UnlockingMessage
    <3>2. Len(r) \in Nat /\ Len(s) = Len(r) + 1 /\ Len(r) \in 0 .. Len(r)
      BY <1>3, ReadLength
    <3>3. NeverAfter(s, {x}, {x}, Len(r) + 1) <=>
            NeverAfter(r, {x}, {x}, Len(r)) /\ (Head(s) \in {x} => ~Among(r, {x}, Len(r)))
      BY ONLY <1>3, <3>2, FollowedRead
    <3> QED
      BY <2>2, <2>4, <3>1, <3>2, <3>3
  <2> QED
    BY <2>1, <2>2, <2>3, <2>4
<1> QED
  BY <1>2, <1>3, <1>4, <1>5, SteadyFrame

(* What other parts do to a target, the releases of the application aside. *)
LEMMA SteadyOther ==
  ASSUME OneTargetPerProcess, HandleInv, UpAttached, NEW t \in Targets, ~Young(t), SteadyOf(t), [Next]_vars,
         ~(TargetStep(t) /\ WebFrame), ~(ProxyStep(ProcessOf[t]) /\ HostFrame),
         \A v \in Views : ~(ReleaseStep(v) /\ ViewFrame)
  PROVE  SteadyOf(t)'
<1> DEFINE w == ProcessOf[t]
<1>1. /\ TypeOK /\ HeapInv /\ Handshake /\ HandlesPlaced
      /\ w \in Processes /\ poolID[t] \in PoolIDs
      /\ toHost \in [Processes -> Seq(HostMessage)] /\ toWeb \in [Processes -> Seq(WebMessage)]
      /\ webUp \in [Processes -> BOOLEAN]
      /\ phase \in [Targets -> Phases] /\ poolID \in [Targets -> PoolIDs]
      /\ current \in [Targets -> Slots \cup {None}]
      /\ locked \in [Targets -> [Slots -> BOOLEAN]]
      /\ object \in [Targets -> [Slots -> Objects \cup {None}]]
      /\ None \notin Objects /\ None \notin Slots
  BY PoolOf DEF HandleInv, PageInv, MapInv, HeapInv, TypeOK, IpcTypeOK, WebTypeOK
<1>2. PICK s, r : s = toWeb[w] /\ r = toWeb'[w]
  OBVIOUS
<1>3. ASSUME UNCHANGED <<hostBuffer, held>>, UNCHANGED <<poolID[t], phase[t], object[t], locked[t], toHost[w]>>,
             webUp'[w] => webUp[w], webUp'[w] => r = s
      PROVE  SteadyOf(t)'
  <2>1. \A o : Back(o) => Back(o)'
    BY <1>3 DEF Back, HeldBy
  <2>2. UNCHANGED <<poolID[t], Sent(t)>>
    BY <1>3 DEF Sent
  <2>3. /\ Live(t)' => Live(t) /\ object'[t] = object[t] /\ \A b \in Slots : locked[t][b] => locked'[t][b]
        /\ Live(t)' => r = s
    BY <1>3 DEF Live
  <2> QED
    BY <1>1, <1>2, <1>3, <2>1, <2>2, <2>3, SteadyQueue
<1>4. CASE \E u \in Targets : TargetStep(u) /\ WebFrame
  <2>1. PICK u \in Targets : TargetStep(u) /\ WebFrame
    BY <1>4
  <2>2. u # t /\ ProcessOf[u] # w
    BY <2>1 DEF OneTargetPerProcess
  <2>3. UNCHANGED <<hostBuffer, held>>
    BY <2>1 DEF WebFrame, hostVars, appVars
  <2>4. /\ UNCHANGED <<poolID[t], phase[t], object[t], locked[t], toHost[w], toWeb[w]>>
        /\ webUp'[w] => webUp[w]
    BY <1>1, <2>1, <2>2 DEF TargetStep, CreateTarget, Initialize, ReceiveReply, Resize, DestroyBufferPool,
       FrameAborts, CloseWeb, FrameReuses, FrameFailsToAllocate, FrameAllocates, FrameRendered, Deinitialize,
       DestroyTarget, SendToHost, Received, webVars, ipcVars
  <2> QED
    BY <1>2, <1>3, <2>3, <2>4
<1>5. CASE \E u \in Processes : HandleWebMessage(u) /\ WebFrame
  <2>1. PICK u \in Processes : HandleWebMessage(u) /\ WebFrame
    BY <1>5
  <2>2. CASE u = w
    BY <2>1, <2>2, SteadyHandled
  <2>3. CASE u # w
    <3>1. /\ UNCHANGED <<hostBuffer, held, poolID, phase, object, toHost, webUp>>
          /\ toWeb' = [toWeb EXCEPT ![u] = Tail(@)]
      BY <2>1 DEF WebFrame, hostVars, appVars, HandleWebMessage, Received
    <3>2. locked' \in [Targets -> [Slots -> BOOLEAN]]
      <4>1. TypeOK'
        BY <1>1, NextTypes DEF HeapInv
      <4> QED
        BY <4>1 DEF TypeOK, WebTypeOK
    <3>3. UNCHANGED locked[t]
      <4>1. \A b \in Slots : locked'[t][b] => locked[t][b]
        <5>1. PICK x, c : UNCHANGED locked \/ locked' = [locked EXCEPT ![x][c] = FALSE]
          BY <2>1 DEF HandleWebMessage
        <5>2. ASSUME locked' = [locked EXCEPT ![x][c] = FALSE], NEW b \in Slots
              PROVE  locked'[t][b] => locked[t][b]
          <6>1. locked \in [Targets -> [Slots -> BOOLEAN]]
            BY <1>1
          <6>2. CASE x # t
            BY ONLY <5>2, <6>1, <6>2
          <6>3. CASE x = t
            BY ONLY <5>2, <6>1, <6>3
          <6> QED
            BY <6>2, <6>3
        <5> QED
          BY <5>1, <5>2
      <4>2. ASSUME NEW b \in Slots PROVE locked[t][b] => locked'[t][b]
        BY <2>1, <2>3, UnlockingMessage
      <4>3. locked[t] \in [Slots -> BOOLEAN] /\ locked'[t] \in [Slots -> BOOLEAN]
        BY <1>1, <3>2
      <4> QED
        BY <4>1, <4>2, <4>3
    <3> QED
      BY <1>1, <1>2, <1>3, <2>3, <3>1, <3>3
  <2> QED
    BY <2>2, <2>3
<1>6. CASE \E u \in Processes : WebExits(u) /\ WebFrame
  <2>1. PICK u \in Processes : WebExits(u) /\ WebFrame
    BY <1>6
  <2>2. /\ UNCHANGED <<hostBuffer, held, poolID, phase, object, locked, toHost>>
        /\ webUp' = [webUp EXCEPT ![u] = FALSE] /\ toWeb' = [toWeb EXCEPT ![u] = <<>>]
    BY <2>1 DEF WebFrame, hostVars, appVars, WebExits, CloseWeb, webVars
  <2>3. /\ webUp'[w] => webUp[w]
        /\ webUp'[w] => toWeb'[w] = toWeb[w]
    BY <1>1, <2>2
  <2> QED
    BY <1>2, <1>3, <2>2, <2>3
<1>7. CASE \E u \in Processes : CreateClient(u) /\ HostFrame
  <2>1. PICK u \in Processes : CreateClient(u) /\ HostFrame
    BY <1>7
  <2>2. UNCHANGED <<hostBuffer, held, poolID, phase, object, locked, toHost, toWeb>>
    BY <2>1 DEF HostFrame, hostVars, appVars, CreateClient, OpenWeb, webVars
  <2>3. webUp'[w] => webUp[w]
    <3>1. Attached(w) /\ ~Attached(u)
      BY <2>1 DEF UpAttached, Young, CreateClient, Attach
    <3> QED
      BY <1>1, <2>1, <3>1 DEF CreateClient, OpenWeb
  <2> QED
    BY <1>2, <1>3, <2>2, <2>3
<1>8. CASE \E u \in Processes : ProxyStep(u) /\ HostFrame
  <2>1. PICK u \in Processes : ProxyStep(u) /\ HostFrame
    BY <1>8
  <2>2. u # w
    BY <2>1
  <2>3. PICK h : h = Head(toHost[u])
    OBVIOUS
  <2>4. /\ h \in HostMessage /\ toHost[u] # <<>> /\ toHost[u] \in Seq(HostMessage)
        /\ toHost' = [toHost EXCEPT ![u] = Tail(toHost[u])]
        /\ ConstructPool(u) => h.code = "PoolConstruction"
        /\ ~ConstructPool(u) => h.poolID \in PoolIDs
    BY <1>1, <2>1, <2>3, ProxyMessage
  <2>5. ~ConstructPool(u) => h.poolID # poolID[t]
    <3> SUFFICES ASSUME ~ConstructPool(u) PROVE h.poolID # poolID[t]
      OBVIOUS
    <3>1. h.code # "PoolConstruction"
      BY <2>1, <2>3 DEF ProxyStep, PurgePool, BufferAllocation, CommitToView, CommitWithoutView, Reads
    <3>2. PICK x \in Targets : ProcessOf[x] = u /\ Owns(x, h.poolID)
      BY <1>1, <2>3, <2>4, <3>1, HostHead
    <3>3. Owns(t, poolID[t])
      BY DEF Owns
    <3> QED
      BY <1>1, <2>2, <3>2, <3>3, OwnersClient
  <2>6. /\ UNCHANGED <<poolID, phase, object, locked, webUp>> /\ toHost'[w] = toHost[w]
        /\ toWeb'[w] = toWeb[w]
    BY <1>1, <2>1, <2>2, <2>4 DEF HostFrame, webVars, ProxyStep, ConstructPool, PurgePool, BufferAllocation,
       CommitToView, CommitWithoutView, SendToWeb
  <2>7. ASSUME NEW o \in Objects, hostBuffer'[o] # None, hostBuffer'[o].poolID = poolID[t]
        PROVE  /\ hostBuffer[o] # None /\ hostBuffer[o].poolID = poolID[t]
               /\ hostBuffer'[o].bufferID = hostBuffer[o].bufferID
    <3>1. ~(BufferAllocation(u) /\ hostBuffer'[o].poolID = h.poolID)
      BY <2>3, <2>5, <2>7 DEF BufferAllocation, ConstructPool, Reads
    <3> QED
      BY <1>1, <2>1, <2>3, <2>7, <3>1, ProxyBuffers
  <2>8. ASSUME NEW b \in Slots, NEW o \in Objects, InSlot(t, b, o), Back(o)
        PROVE  Back(o)'
    <3>1. ASSUME NEW x \in Processes, CommitToView(x),
                 poolBuffers[Head(toHost[x]).poolID][Head(toHost[x]).bufferID] = o
          PROVE  FALSE
      <4>1. x = u
        <5>1. Turn(x) /\ Turn(u)
          BY <2>1, <3>1 DEF CommitToView, Reads, ProxyStep, PurgePool, BufferAllocation, CommitWithoutView, ConstructPool
        <5> QED
          BY <1>1, <5>1, OneTurn
      <4>2. hostBuffer[o] # None /\ hostBuffer[o].poolID = h.poolID
        BY <1>1, <2>3, <3>1, <4>1, HeldAfterCommit
      <4>3. h.poolID # poolID[t]
        BY <2>3, <2>5, <3>1, <4>1 DEF CommitToView, ConstructPool, Reads
      <4> QED
        BY <1>1, <2>8, <4>2, <4>3 DEF HandlesPlaced
    <3> QED
      BY <1>1, <2>8, <3>1, BackKept
  <2>9. /\ UNCHANGED <<poolID[t], Sent(t)>> /\ r = s
        /\ Live(t)' => Live(t) /\ object'[t] = object[t] /\ \A b \in Slots : locked[t][b] => locked'[t][b]
    BY <1>2, <2>6 DEF Sent, Live
  <2> QED
    BY <1>1, <1>2, <2>7, <2>8, <2>9, SteadyQueue
<1>9. ASSUME UNCHANGED <<webVars, toHost, webUp, hostBuffer>>,
             r = s \/ \E q : r = Append(s, FrameCompleteMsg(q))
      PROVE  SteadyOf(t)'
  <2>1. \A o \in Objects : Back(o) => Back(o)'
    BY <1>1, <1>9, ReadsChange, BackKept DEF ProxyStep
  <2>2. /\ UNCHANGED <<poolID[t], Sent(t)>>
        /\ Live(t)' => Live(t) /\ object'[t] = object[t] /\ \A b \in Slots : locked[t][b] => locked'[t][b]
    BY <1>9 DEF Sent, Live, webVars
  <2> QED
    BY <1>1, <1>2, <1>9, <2>1, <2>2, SteadyQueue
<1>10. CASE \/ \E v \in Views : (CreateView(v) \/ HandleViewMessage(v) \/ DestroyView(v)) /\ ViewFrame
            \/ Poll /\ HostFrame /\ UNCHANGED <<hostVars, appVars>>
            \/ UNCHANGED vars
  <2>1. UNCHANGED <<webVars, toHost, toWeb, webUp, hostBuffer>>
    BY <1>10 DEF CreateView, OpenView, HandleViewMessage, DestroyView, CloseView,
       Poll, ViewFrame, HostFrame, hostVars, ipcVars, vars
  <2> QED
    BY <1>2, <1>9, <2>1
<1>11. CASE \E v \in Views : DispatchFrameComplete(v) /\ ViewFrame
  <2>1. PICK v \in Views : DispatchFrameComplete(v) /\ ViewFrame
    BY <1>11
  <2>2. UNCHANGED <<webVars, toHost, webUp, hostBuffer>>
    BY <2>1 DEF DispatchFrameComplete, FrameComplete, ViewFrame, hostVars
  <2>3. PICK x, q : UNCHANGED toWeb \/ toWeb' = [toWeb EXCEPT ![x] = Append(@, FrameCompleteMsg(q))]
    BY <2>1 DEF DispatchFrameComplete, FrameComplete, SendToWeb
  <2>4. r = s \/ r = Append(s, FrameCompleteMsg(q))
    BY <1>1, <1>2, <2>3
  <2> QED
    BY <1>9, <2>2, <2>4
<1> QED
  BY <1>4, <1>5, <1>6, <1>7, <1>8, <1>10, <1>11 DEF Next

-----------------------------------------------------------------------------
(* The invariant, and what it says of the two processes.                   *)

(* Every step of targets that are not resized keeps it.                    *)
LEMMA SteadyStep ==
  ASSUME OneTargetPerProcess, ResizeBacklog = 0, PoolInv, UpAttached, SteadyInv, [Next]_vars
  PROVE  SteadyInv'
<1>1. TypeOK /\ HandleInv /\ DrawsUnlocked /\ HeldOnce
  BY DEF SteadyInv, UseInv, HandleInv, PageInv, MapInv, HeapInv
<1>2. UseInv'
  BY SteadyUnlocks, UseStep DEF SteadyInv
<1>3. ASSUME NEW t \in Targets, ~Young(t)'
      PROVE  SteadyOf(t)'
  <2>1. CASE Young(t)
    BY <1>1, <1>3, <2>1, Answering, SteadyStart
  <2>2. CASE ~Young(t)
    <3>1. UseOf(t) /\ SteadyOf(t)
      BY <2>2 DEF SteadyInv, UseInv
    <3>2. CASE TargetStep(t) /\ WebFrame
      BY <1>1, <2>2, <3>1, <3>2, SteadyTarget
    <3>3. CASE ProxyStep(ProcessOf[t]) /\ HostFrame
      BY <1>1, <2>2, <3>1, <3>3, SteadyReceived
    <3>4. CASE \E v \in Views : ReleaseStep(v) /\ ViewFrame
      BY <1>1, <2>2, <3>1, <3>4, SteadyReleased
    <3> QED
      BY <1>1, <2>2, <3>1, <3>2, <3>3, <3>4, SteadyOther
  <2> QED
    BY <2>1, <2>2
<1> QED
  BY <1>2, <1>3 DEF SteadyInv

(* It holds at the start, when no target is answered.                      *)
LEMMA SteadyInit == Init => SteadyInv
<1> SUFFICES ASSUME Init PROVE SteadyInv
  OBVIOUS
<1>1. \A t \in Targets : Young(t)
  BY DEF Init, WebInit, Young
<1> QED
  BY <1>1, UseInit DEF SteadyInv

(* Targets that are never resized exchange each buffer with the UI process *)
(* in turn: at most one commit, one holder or one release of it exists.    *)
THEOREM SteadyInvariant ==
  ASSUME OneTargetPerProcess, ResizeBacklog = 0
  PROVE  Spec => []SteadyInv
<1>1. Spec => [](PoolInv /\ LockInv)
  BY Background
<1>2. PoolInv /\ LockInv /\ SteadyInv /\ [Next]_vars => SteadyInv'
  BY SteadyStep DEF LockInv
<1> QED
  BY <1>1, <1>2, SteadyInit, PTL DEF Spec

(* EGLTarget::releaseBuffer unlocks a slot only when the buffer in it has  *)
(* come back (renderer-backend-egl.cpp:418), if no target is resized.      *)
THEOREM UnlocksAreReturns ==
  ASSUME OneTargetPerProcess, ResizeBacklog = 0
  PROVE  Spec => ReleaseUnlocksReturned
<1>1. Spec => []SteadyInv
  BY SteadyInvariant
<1>2. SteadyInv /\ [Next]_vars => [UnlocksReturned]_vars
  BY SteadyUnlocks
<1> QED
  BY <1>1, <1>2, PTL DEF Spec, ReleaseUnlocksReturned

(* The commits of a slot that is not locked have been read.                *)
LEMMA NothingCommitted ==
  ASSUME NEW t \in Targets, NEW b \in Slots, SteadyOf(t),
         Followed(Sent(t), Commits(b), Refills(b), Unread(t))
  PROVE  ~Among(Sent(t), Commits(b), Unread(t))
<1> SUFFICES ASSUME NEW i \in 1 .. Unread(t), Sent(t)[i] \in Commits(b)
             PROVE  FALSE
  BY DEF Among
<1>1. PICK j \in i + 1 .. Unread(t) : Sent(t)[j] \in Refills(b)
  BY DEF Followed
<1>2. Sent(t)[j] \notin Allocations(b)
  BY <1>1 DEF SteadyOf, AllocatedFirst, NeverAfter
<1>3. j \in 1 .. Unread(t)
  BY <1>1
<1> QED
  BY <1>1, <1>2, <1>3 DEF SteadyOf, Unpurged, Among, Refills

(* frameWillRender never gives WebKit a buffer the application may still   *)
(* show (renderer-backend-egl.cpp:319), if no target is resized.           *)
THEOREM DrawsReturned ==
  ASSUME OneTargetPerProcess, ResizeBacklog = 0
  PROVE  Spec => []NoRenderWhileShown
<1>1. SteadyInv => NoRenderWhileShown
  <2> SUFFICES ASSUME SteadyInv, NEW t \in Targets, NEW o \in Objects, Rendering(t, o)
               PROVE  /\ Back(o)
                      /\ ~CommitInTransit(ProcessOf[t], poolID[t], current[t])
    BY DEF NoRenderWhileShown, Back
  <2>1. /\ TypeOK /\ TargetsRegistered /\ current \in [Targets -> Slots \cup {None}]
        /\ DrawsUnlocked
    BY DEF SteadyInv, UseInv, HandleInv, PageInv, MapInv, HeapInv, TypeOK, WebTypeOK
  <2>2. PICK b \in Slots : b = current[t] /\ InSlot(t, b, o) /\ ~locked[t][b]
    BY <2>1 DEF Rendering, InSlot, DrawsUnlocked
  <2>3. ~Young(t)
    BY <2>1 DEF Rendering, TargetsRegistered, Young
  <2>4. UseOf(t) /\ SteadyOf(t)
    BY <2>3 DEF SteadyInv, UseInv
  <2>5. Back(o) /\ Followed(Sent(t), Commits(b), Refills(b), Unread(t))
    BY <2>2, <2>4 DEF UseOf, UnlockedReturned, Returned
  <2>6. ~Among(Sent(t), Commits(b), Unread(t))
    BY <2>4, <2>5, NothingCommitted
  <2> QED
    BY <2>1, <2>2, <2>5, <2>6, CommitAmong
<1> QED
  BY <1>1, SteadyInvariant, PTL

(* The application holds live and locked Buffers only: PoolPurge and       *)
(* bufferAllocation delete none of them (renderer-host.cpp:200), if no     *)
(* target is resized.                                                      *)
THEOREM HeldStayAlive ==
  ASSUME OneTargetPerProcess, ResizeBacklog = 0
  PROVE  Spec => []HeldBuffersAlive
<1>1. SteadyInv => HeldBuffersAlive
  BY DEF SteadyInv, UseInv
<1> QED
  BY <1>1, SteadyInvariant, PTL
=============================================================================
