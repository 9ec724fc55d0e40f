------------------------- MODULE WpeAndroidInvariants -------------------------
(***************************************************************************)
(* The inductive invariants behind the safety properties of WpeAndroid.    *)
(* TLC checks them on small instances, WpeAndroidProofs and the modules    *)
(* that extend it prove them.                                              *)
(***************************************************************************)
EXTENDS WpeAndroid

-----------------------------------------------------------------------------
(* Pools.  An identifier is in use from its createBufferPool on.           *)

KnownHostMessage == {m \in HostMessage : m.code # "PoolConstruction" => m.poolID < nextPoolID}
KnownWebMessage  == {m \in WebMessage : m.poolID < nextPoolID}

\* t was not answered yet.
Young(t) == phase[t] \in {"none", "created", "constructing"}

(* No message, Buffer, target or frame names a pool before it was created, *)
(* not even those of a target whose reply was misread.                     *)
PoolsKnown ==
  /\ \A p \in PoolIDs : poolClient[p] # None <=> p < nextPoolID
  /\ toHost \in [Processes -> Seq(KnownHostMessage)]
  /\ toWeb \in [Processes -> Seq(KnownWebMessage)]
  /\ \A t \in Targets : IF Young(t) THEN poolID[t] = 0 ELSE poolID[t] < nextPoolID
  /\ \A o \in Objects : hostBuffer[o] # None => hostBuffer[o].poolID < nextPoolID
  /\ \A v \in Views : unfinished[v] # <<>> => lastExportedPoolID < nextPoolID

PoolInv == HeapInv /\ PoolsKnown

\* What is up was attached, and so cannot be created again after its end.
UpAttached ==
  /\ \A w \in Processes : webUp[w] => Attached(w)
  /\ \A v \in Views : viewUp[v] => Attached(v)
  /\ \A t \in Targets : phase[t] # "none" => Attached(ProcessOf[t]) /\ Attached(ViewOf[t])

LockInv == HeapInv /\ LockedBuffersHeld /\ UpAttached

-----------------------------------------------------------------------------
(* The pool of a target.  What follows needs web processes that create one *)
(* target each: with two, the second initialize may take a message of the  *)
(* first target for its reply (ReplyComesFirst).                           *)

OneTargetPerProcess == \A s, t \in Targets : ProcessOf[s] = ProcessOf[t] => s = t

\* t uses pool p: it was answered with it.
Owns(t, p) == ~Young(t) /\ poolID[t] = p

\* Pool p belongs to a target, to one of view v.
Owned(p)      == \E t \in Targets : Owns(t, p)
OwnedOf(v, p) == \E t \in Targets : ViewOf[t] = v /\ Owns(t, p)

\* The messages of a target with pool p, and those to it.
OwnHostMessage(p) == {m \in HostMessage : m.code # "PoolConstruction" /\ m.poolID = p}
OwnWebMessage(p)  == {m \in WebMessage : m.code # "PoolConstructionReply" /\ m.poolID = p}

\* w has no pool, or pool q alone.
Poolless(w)    == \A q \in PoolIDs : poolClient[q] # w
OnlyPool(w, q) == \A r \in PoolIDs : poolClient[r] = w <=> r = q

\* Nothing is in the sockets of w, in either direction.
Silent(w) == toHost[w] = <<>> /\ toWeb[w] = <<>>

\* The request of w is in the socket; its reply is, or was lost with w.
Asked(w)    == toHost[w] = <<PoolConstructionMsg>> /\ toWeb[w] = <<>> /\ Poolless(w)
Answered(w) ==
  /\ toHost[w] = <<>>
  /\ \E q \in PoolIDs : /\ OnlyPool(w, q)
                        /\ toWeb[w] = IF webUp[w] THEN <<PoolConstructionReplyMsg(q)>> ELSE <<>>

(* EGLTarget::initialize: nothing is in the sockets of a process before    *)
(* the request, the request and its reply are alone in them, and from then *)
(* on the process has one pool, and messages of that pool only.            *)
HandshakeAt(w) ==
  /\ (\A t \in Targets : ProcessOf[t] # w) => Silent(w) /\ Poolless(w)
  /\ \A t \in Targets : ProcessOf[t] = w =>
       /\ phase[t] \in {"none", "created"} => Silent(w) /\ Poolless(w)
       /\ phase[t] = "constructing" => Asked(w) \/ Answered(w)
       /\ ~Young(t) => /\ OnlyPool(w, poolID[t])
                       /\ toHost[w] \in Seq(OwnHostMessage(poolID[t]))
                       /\ toWeb[w] \in Seq(OwnWebMessage(poolID[t]))

Handshake == \A w \in Processes : HandshakeAt(w)

(* What names a pool in the UI process or in a view's socket names that of *)
(* a target, in the case of a view of a target of the view.                *)
PoolsOwned ==
  /\ \A p \in PoolIDs : \A b \in Slots : poolBuffers[p][b] # None => Owned(p)
  /\ \A o \in Objects : hostBuffer[o] # None => Owned(hostBuffer[o].poolID)
  /\ \A v \in Views : unfinished[v] # <<>> => Owned(lastExportedPoolID)
  /\ \A p \in PoolIDs, v \in Views : viewBackendMap[p] = v => OwnedOf(v, p)
  /\ \A v \in Views : toView[v] \in Seq({m \in ViewMessage : OwnedOf(v, m.poolID)})

\* A target is in the map as long as it lives, and has buffers while it is ready.
TargetsRegistered ==
  \A t \in Targets :
    /\ phase[t] \in {"ready", "deinitialized"} => targetMap[ProcessOf[t]][poolID[t]] = t
    /\ phase[t] # "ready" => /\ current[t] = None
                             /\ \A b \in Slots : object[t][b] = None /\ ~locked[t][b]

PageInv == MapInv /\ Handshake /\ PoolsOwned /\ TargetsRegistered

-----------------------------------------------------------------------------
(* Handles.                                                                *)

\* Slot b of t holds o.
InSlot(t, b, o) == webUp[ProcessOf[t]] /\ object[t][b] = o

\* The i-th message to w's proxy brings o.
Brings(w, i, o) == toHost[w][i].code = "BufferAllocation" /\ toHost[w][i].object = o

(* A buffer is in one slot, and what is made of it in the UI process is    *)
(* that of the slot: its handle travels to the pool of the target, its     *)
(* Buffer is of the slot's identifiers, only the target's view is given    *)
(* it.  A handle on its way is not with the application yet.               *)
HandlesPlaced ==
  /\ \A t \in Targets, b \in Slots, o \in Objects : InSlot(t, b, o) =>
       /\ \A s \in Targets, a \in Slots : InSlot(s, a, o) => s = t /\ a = b
       /\ \A w \in Processes : \A i \in 1 .. Len(toHost[w]) :
            Brings(w, i, o) => w = ProcessOf[t] /\ toHost[w][i].bufferID = b
       /\ hostBuffer[o] # None => hostBuffer[o].poolID = poolID[t] /\ hostBuffer[o].bufferID = b
       /\ \A v \in Views : HeldBy(v, o) => v = ViewOf[t]
  /\ \A w \in Processes : \A i \in 1 .. Len(toHost[w]) : \A o \in Objects :
       Brings(w, i, o) => \A v \in Views : ~HeldBy(v, o)

HandleInv == PageInv /\ HandlesPlaced

-----------------------------------------------------------------------------
(* What is in a queue of messages.                                         *)

\* One of the first n messages of s is in M.
Among(s, M, n) == \E j \in 1 .. n : s[j] \in M

\* Of the first n messages of s, one in M comes after each that is in F.
Followed(s, F, M, n) == \A i \in 1 .. n : s[i] \in F => \E j \in i + 1 .. n : s[j] \in M

\* Of the first n messages of s, none in M comes after one that is in F.
NeverAfter(s, F, M, n) == \A i \in 1 .. n : s[i] \in F => \A j \in i + 1 .. n : s[j] \notin M

\* What a message does to slot b of its pool.
Purges         == {m \in HostMessage : m.code = "PoolPurge"}
Allocations(b) == {m \in HostMessage : m.code = "BufferAllocation" /\ m.bufferID = b}
Commits(b)     == {m \in HostMessage : m.code = "BufferCommit" /\ m.bufferID = b}
Refills(b)     == Purges \cup Allocations(b)

\* The messages that bring buffer o.
Carrying(o) == {m \in HostMessage : m.code = "BufferAllocation" /\ m.object = o}

\* The messages of t its proxy has not read, and how many they are.
Sent(t)   == toHost[ProcessOf[t]]
Unread(t) == Len(Sent(t))

\* Slot b of t's pool in the UI process.
InPool(t, b) == poolBuffers[poolID[t]][b]

-----------------------------------------------------------------------------
(* Exclusive use of a buffer.                                              *)

\* t has its pool and may draw.
Live(t) == webUp[ProcessOf[t]] /\ phase[t] = "ready"

\* Slot b of the pool is empty once its proxy has read n messages of t.
Emptied(t, b, n) ==
  /\ Followed(Sent(t), Allocations(b), Purges, n)
  /\ InPool(t, b) = None \/ Among(Sent(t), Purges, n)

(* The pool has the buffer of the slot, or will when it has read the       *)
(* messages of the target: the last refill of a slot brings its buffer.    *)
SlotsAgree(t) ==
  Live(t) => \A b \in Slots :
    IF object[t][b] = None THEN Emptied(t, b, Unread(t))
    ELSE /\ Followed(Sent(t), Allocations(b) \ Carrying(object[t][b]), Refills(b), Unread(t))
         /\ InPool(t, b) \in {None, object[t][b]} \/ Among(Sent(t), Refills(b), Unread(t))

(* Nothing is sent that would throw the buffer of a slot out of the pool.  *)
NewestLast(t) ==
  \A b \in Slots, o \in Objects : InSlot(t, b, o) =>
    /\ NeverAfter(Sent(t), Carrying(o), Refills(b), Unread(t))
    /\ hostBuffer[o] # None => ~Among(Sent(t), Refills(b), Unread(t))

(* bufferAllocation never finds a buffer in the slot: a purge comes first. *)
AllocatesEmpty(t) ==
  \A b \in Slots : \A k \in 1 .. Unread(t) :
    Sent(t)[k] \in Allocations(b) => Emptied(t, b, k - 1)

\* o is neither with the application nor locked in the UI process.
Back(o) ==
  /\ \A v \in Views : ~HeldBy(v, o)
  /\ hostBuffer[o] # None => ~hostBuffer[o].locked

(* A slot is committed once between two refills, and while its commit is   *)
(* on its way its buffer is not with the application.                      *)
CommittedOnce(t) ==
  \A b \in Slots : \A k \in 1 .. Unread(t) : Sent(t)[k] \in Commits(b) =>
    /\ Followed(Sent(t), Commits(b), Refills(b), k - 1)
    /\ InPool(t, b) # None => Back(InPool(t, b)) \/ Among(Sent(t), Refills(b), k - 1)

\* Buffer o of slot b is back, and will not be committed again before it was
\* drawn into.
Returned(t, b, o) == Back(o) /\ Followed(Sent(t), Commits(b), Refills(b), Unread(t))

(* A slot that is not locked has its buffer back.                          *)
UnlockedReturned(t) ==
  \A b \in Slots, o \in Objects : InSlot(t, b, o) /\ ~locked[t][b] => Returned(t, b, o)

UseOf(t) ==
  SlotsAgree(t) /\ NewestLast(t) /\ AllocatesEmpty(t) /\ CommittedOnce(t) /\ UnlockedReturned(t)

(* The application is given a buffer once.                                 *)
HeldOnce ==
  \A u, v \in Views : \A i \in 1 .. Len(held[u]), j \in 1 .. Len(held[v]) :
    held[u][i] = held[v][j] => u = v /\ i = j

\* frameWillRender chooses a slot that is not locked.
DrawsUnlocked == \A t \in Targets : current[t] # None => ~locked[t][current[t]]

UseInv ==
  /\ HandleInv /\ DrawsUnlocked /\ HeldOnce /\ HeldBuffersAlive
  /\ \A t \in Targets : ~Young(t) => UseOf(t)

-----------------------------------------------------------------------------
(* Targets that are never resized: ResizeBacklog = 0.  A slot is filled    *)
(* once, and what comes back for it is for that buffer.                    *)

Unpurged(t) == ~Among(Sent(t), Purges, Unread(t))

(* Nothing of a slot is anywhere before its allocation is sent.            *)
AllocatedFirst(t) ==
  /\ \A b \in Slots : NeverAfter(Sent(t), Commits(b), Allocations(b), Unread(t))
  /\ Live(t) => \A b \in Slots : object[t][b] = None =>
       /\ ~Among(Sent(t), Commits(b), Unread(t))
       /\ ~ReleaseInTransit(ProcessOf[t], poolID[t], b)

(* The Buffers of the UI process are those of the slots.                   *)
BuffersInSlots(t) ==
  Live(t) => \A o \in Objects : hostBuffer[o] # None /\ hostBuffer[o].poolID = poolID[t] =>
    object[t][hostBuffer[o].bufferID] = o

(* A release is on its way back for a slot that is locked and whose buffer *)
(* is back, and there is one at most.                                      *)
ReleasesReturned(t) ==
  Live(t) => \A b \in Slots : ReleaseInTransit(ProcessOf[t], poolID[t], b) =>
    /\ locked[t][b]
    /\ ~Among(Sent(t), Commits(b), Unread(t))
    /\ \A o \in Objects : InSlot(t, b, o) => Back(o)

ReleasedOnce(t) ==
  Live(t) => \A b \in Slots :
    LET release == {ReleaseBufferMsg(poolID[t], b)}
    IN  NeverAfter(toWeb[ProcessOf[t]], release, release, Len(toWeb[ProcessOf[t]]))

SteadyOf(t) ==
  Unpurged(t) /\ AllocatedFirst(t) /\ BuffersInSlots(t) /\ ReleasesReturned(t) /\ ReleasedOnce(t)

SteadyInv == UseInv /\ \A t \in Targets : ~Young(t) => SteadyOf(t)

-----------------------------------------------------------------------------
(* Slots of the pool and slots of the target.                              *)

\* The messages that tell a view of t's pool.
Registrations(t) == {RegisterPoolMsg(poolID[t])}

\* The view has yet to read that t's pool is its own, or never will.
Registering(t)  == Among(toView[ViewOf[t]], Registrations(t), Len(toView[ViewOf[t]]))
Unregistered(t) == viewBackendMap[poolID[t]] = None /\ ~Registering(t)

(* A view learns of a pool once.                                           *)
RegisteredOnce(t) ==
  /\ Registering(t) => viewBackendMap[poolID[t]] = None
  /\ NeverAfter(toView[ViewOf[t]], Registrations(t), Registrations(t), Len(toView[ViewOf[t]]))

\* Slot b of the pool has a buffer once its proxy has read n messages of t,
\* unless a commit without a view takes it out.
Filled(t, b, n) ==
  /\ Followed(Sent(t), Purges, Allocations(b), n)
  /\ InPool(t, b) # None \/ Among(Sent(t), Allocations(b), n)

(* Every commit follows the allocation of its slot: after each purge sent  *)
(* before it, and before it if the slot of the pool is empty.              *)
CommitsFilled(t) ==
  \A b \in Slots : \A k \in 1 .. Unread(t) : Sent(t)[k] \in Commits(b) =>
    /\ Followed(Sent(t), Purges, Allocations(b), k - 1)
    /\ Filled(t, b, k - 1) \/ Unregistered(t)

\* The commit of slot b was read before the registration of the pool: the
\* slot stays locked, and nothing that comes back will unlock it.
Dropped(t, b) ==
  /\ locked[t][b]
  /\ ~ReleaseInTransit(ProcessOf[t], poolID[t], b)
  /\ ~Among(Sent(t), Commits(b), Unread(t))
  /\ \A v \in Views, o \in Objects : HeldBy(v, o) /\ hostBuffer[o] # None =>
       \/ hostBuffer[o].pendingDelete
       \/ hostBuffer[o].poolID # poolID[t]
       \/ hostBuffer[o].bufferID # b

(* A slot with a buffer has one in the pool, too, or will when its         *)
(* messages are read, unless the pool lost it to a commit without a view.  *)
SlotsFilled(t) ==
  \A b \in Slots, o \in Objects : InSlot(t, b, o) =>
    /\ Followed(Sent(t), Purges, Allocations(b), Unread(t))
    /\ Filled(t, b, Unread(t)) \/ Unregistered(t) \/ Dropped(t, b)

(* Until its view knows the pool, nothing of it comes back: no slot that   *)
(* was committed is unlocked or committed again before it was refilled.    *)
NothingReturns(t) ==
  Registering(t) =>
    /\ \A b \in Slots : ~ReleaseInTransit(ProcessOf[t], poolID[t], b)
    /\ \A v \in Views, o \in Objects :
         HeldBy(v, o) /\ hostBuffer[o] # None => hostBuffer[o].poolID # poolID[t]
    /\ \A b \in Slots :
         /\ \A k \in 1 .. Unread(t) : Sent(t)[k] \in Commits(b) =>
              Followed(Sent(t), Commits(b), Refills(b), k - 1)
         /\ \A o \in Objects : InSlot(t, b, o) /\ ~locked[t][b] =>
              Followed(Sent(t), Commits(b), Refills(b), Unread(t))

MirrorOf(t) == RegisteredOnce(t) /\ CommitsFilled(t) /\ SlotsFilled(t) /\ NothingReturns(t)

MirrorInv ==
  /\ HandleInv /\ DrawsUnlocked
  /\ \A t \in Targets : ~Young(t) => MirrorOf(t)

-----------------------------------------------------------------------------
(* Registration and the first commit.  With views of one target each, the  *)
(* main loop reads them in that order.                                     *)

OneTargetPerView == \A s, t \in Targets : ViewOf[s] = ViewOf[t] => s = t

(* A socket the last poll found readable still is.                         *)
ReadyReadable ==
  /\ \A w \in Processes : w \in ready => toHost[w] # <<>>
  /\ \A v \in Views : v \in ready => toView[v] # <<>>

\* The proxy is to read an allocation of the slot before any commit of it.
AllocationFirst(t) ==
  /\ \A b \in Slots : Sent(t) # <<>> => Head(Sent(t)) \notin Commits(b)
  /\ \A b \in Slots, o \in Objects : InSlot(t, b, o) => Among(Sent(t), Allocations(b), Unread(t))

(* A view reads the registration before the proxy gets past the first      *)
(* allocation: both wait for this iteration of the loop, or the proxy has  *)
(* had its turn in it and the view is still to have it.                    *)
ViewsTurn(t) ==
  \/ ProcessOf[t] \notin ready /\ ViewOf[t] \in ready
  \/ (ProcessOf[t] \in ready => ViewOf[t] \in ready) /\ AllocationFirst(t)

RegistrationFirst(t) ==
  Registering(t) => toView[ViewOf[t]][1] = RegisterPoolMsg(poolID[t]) /\ ViewsTurn(t)

(* A pool is taken out of the map at the end of its target or view only.   *)
UnregisteredTornDown(t) ==
  /\ Unregistered(t) => TornDown(t)
  /\ \A i \in 1 .. Len(toView[ViewOf[t]]) :
       toView[ViewOf[t]][i] = UnregisterPoolMsg(poolID[t]) => phase[t] = "destroyed"

\* A view has the pools of its own targets.
ViewsPoolsOwned == \A v \in Views : \A p \in poolIds[v] : OwnedOf(v, p)

TeardownInv ==
  /\ MirrorInv /\ ReadyReadable /\ ViewsPoolsOwned
  /\ \A t \in Targets : ~Young(t) => RegistrationFirst(t) /\ UnregisteredTornDown(t)

-----------------------------------------------------------------------------
(* Where the buffer of a locked slot is.                                   *)

\* The buffer of slot b goes to the application, is with it, or comes back.
OnRound(t, b, o) ==
  \/ ~Followed(Sent(t), Commits(b), Refills(b), Unread(t))
  \/ HeldBy(ViewOf[t], o)
  \/ ReleaseInTransit(ProcessOf[t], poolID[t], b)

(* While target and view live, the buffer of a slot is not to be deleted   *)
(* by its release, and that of a locked slot is on its round.              *)
Accounted(t) ==
  ~TornDown(t) =>
    \A b \in Slots, o \in Objects : InSlot(t, b, o) =>
      /\ hostBuffer[o] # None => ~hostBuffer[o].pendingDelete
      /\ locked[t][b] => OnRound(t, b, o)

AccountInv ==
  /\ UseInv /\ TeardownInv
  /\ \A t \in Targets : ~Young(t) => Accounted(t)

-----------------------------------------------------------------------------
(* Pacing, with one target: its frame is committed, is to be completed, or *)
(* its completion is on the way back, one of them and once.  With two      *)
(* targets a completion may go to the wrong one (CompletesItsOwnFrame).    *)

SingleTarget == \A s, t \in Targets : s = t

AnyCommit   == {m \in HostMessage : m.code = "BufferCommit"}
Completions == {m \in WebMessage : m.code = "FrameComplete"}

\* The messages to the process of t that it has not read.
Unseen(t) == toWeb[ProcessOf[t]]

Committing(sent)   == Among(sent, AnyCommit, Len(sent))
Completing(unseen) == Among(unseen, Completions, Len(unseen))

(* The messages of a target, those to it, the frames its application has   *)
(* to complete and the number of buffers it holds.  The releases that are  *)
(* unseen and these buffers are not more than it may hold, and one more    *)
(* until it completes the frame.                                           *)
Paced(sent, unseen, pending, shown) ==
  /\ Committing(sent) => /\ pending = <<>> /\ ~Completing(unseen)
                         /\ NeverAfter(sent, AnyCommit, AnyCommit, Len(sent))
  /\ pending # <<>> => /\ ~Completing(unseen) /\ Len(pending) = 1
                       /\ shown > 0 /\ Len(unseen) + shown <= MaxHeld + 1
  /\ NeverAfter(unseen, Completions, Completions, Len(unseen))
  /\ \A i \in 1 .. Len(unseen) :
       unseen[i] \in Completions => (Len(unseen) - i) + shown <= MaxHeld
  /\ Completing(unseen) => Len(unseen) + shown <= MaxHeld + 2 /\ Len(unseen) <= MaxHeld + 1
  /\ pending = <<>> /\ ~Completing(unseen) => Len(unseen) + shown <= MaxHeld

OneFrame(t) == Paced(Sent(t), Unseen(t), unfinished[ViewOf[t]], Len(held[ViewOf[t]]))

\* The frame of t is on its way to the application or back.
FrameUnderWay(t) == Committing(Sent(t)) \/ unfinished[ViewOf[t]] # <<>> \/ Completing(Unseen(t))

(* The target waits as long as its frame is under way, and does not draw.  *)
Waits(t) ==
  /\ FrameUnderWay(t) => awaitingFrame[t]
  /\ current[t] # None => ~awaitingFrame[t]

(* Nothing is left for a process that ended, and nothing of a view that    *)
(* has no target with a pool.                                              *)
ClosedWebsSilent == \A w \in Processes : ~webUp[w] => toWeb[w] = <<>>
FramesOwned ==
  \A v \in Views : held[v] # <<>> \/ unfinished[v] # <<>> =>
    \E t \in Targets : ~Young(t) /\ ViewOf[t] = v

PacedInv ==
  /\ PageInv /\ ClosedWebsSilent /\ FramesOwned
  /\ \A t \in Targets : ~Young(t) => OneFrame(t) /\ Waits(t)

(* An application that shows one buffer at a time, MaxHeld = 1, has        *)
(* released the others before it completes a frame: a completion is the    *)
(* last message, and when it is read nothing of the frame is left.         *)
OneByOne(t) ==
  /\ ~awaitingFrame[t] \/ Committing(Sent(t)) => Unseen(t) = <<>>
  /\ \A i \in 1 .. Len(Unseen(t)) : Unseen(t)[i] \in Completions => i = Len(Unseen(t))

(* A release on its way finds the buffer of its slot back, also when the   *)
(* slot was purged and filled again.                                       *)
ReleasesBack(t) ==
  Live(t) => \A b \in Slots, o \in Objects :
    InSlot(t, b, o) /\ ReleaseInTransit(ProcessOf[t], poolID[t], b) => Back(o)

TurnInv ==
  /\ UseInv /\ PacedInv
  /\ \A t \in Targets : ~Young(t) => OneByOne(t) /\ ReleasesBack(t)

-----------------------------------------------------------------------------
(* Frames that are lost.                                                   *)

\* A frame of t without storage was rendered, and not committed.
FrameFailed(t) == \E b \in Slots : locked[t][b] /\ object[t][b] = None

(* The frames to complete are those of the pool.  After a frame without    *)
(* storage the target waits and nothing is under way, for ever.            *)
FrameOf(t) ==
  /\ \A i \in 1 .. Len(unfinished[ViewOf[t]]) : unfinished[ViewOf[t]][i] = poolID[t]
  /\ FrameFailed(t) => awaitingFrame[t] /\ ~FrameUnderWay(t)
  /\ ~AllocMayFail => /\ ~FrameFailed(t)
                      /\ current[t] # None => object[t][current[t]] # None

(* The target waits for nothing else.                                      *)
FrameKept(t) ==
  ~TornDown(t) /\ awaitingFrame[t] => FrameUnderWay(t) \/ FrameFailed(t)

FailureInv ==
  /\ PacedInv /\ TeardownInv
  /\ \A t \in Targets : IF Young(t) THEN ~awaitingFrame[t] ELSE FrameOf(t)

FrameInv == FailureInv /\ \A t \in Targets : ~Young(t) => FrameKept(t)

(* The target waits for a frame that is nowhere in the system. *)
FrameLost(t) == awaitingFrame[t] /\ ~FrameUnderWay(t)

\* A step neither finds the lost frame of t again, nor loses one but by a
\* failed allocation or the end of the target, its view or its process.
LosesByFailure(t) ==
  /\ FrameLost(t) => FrameLost(t)'
  /\ FrameLost(t)' => FrameLost(t) \/ FrameFailed(t)' \/ TornDown(t)'

(* A frame without storage, which frameRendered does not commit, is lost   *)
(* (renderer-backend-egl.cpp:407): no message that is on its way completes *)
(* it, a resize that clears its slot does not bring it back, and its page  *)
(* waits for ever.  Neither a resize nor a message that arrives late loses *)
(* any other frame of a page that lives.  Stated for one target.           *)
FramesLostByFailure ==
  [][\A t \in Targets : (FrameFailed(t) => FrameLost(t)') /\ LosesByFailure(t)]_vars

-----------------------------------------------------------------------------
(* A slot for the next frame, with one target.                             *)

\* The release of slot b reaches t before the completion of its frame.
FreedFirst(t, b) ==
  ~NeverAfter(Unseen(t), {ReleaseBufferMsg(poolID[t], b)}, Completions, Len(Unseen(t)))

(* From the time its frame is completed until it draws the next one, a     *)
(* target has a slot that is not locked, or will not be when it reads the  *)
(* completion.  While the view lives that follows from AccountInv and      *)
(* FailureInv; once it is gone the slot stays.                             *)
SlotFree(t) ==
  Live(t) /\ (~awaitingFrame[t] \/ Completing(Unseen(t))) =>
    \E b \in Slots : ~locked[t][b] \/ FreedFirst(t, b)

(* Nothing of a view that is gone is released or completed.                *)
ClosedViewsIdle == \A v \in Views : ~viewUp[v] => held[v] = <<>> /\ unfinished[v] = <<>>

SlotInv ==
  /\ AccountInv /\ FailureInv /\ ClosedViewsIdle
  /\ \A t \in Targets : ~Young(t) /\ ~viewUp[ViewOf[t]] => SlotFree(t)
=============================================================================
