------------------------- MODULE WpeAndroidOwnership -------------------------
(***************************************************************************)
(* WpeAndroid implements BufferOwnership: where each hardware buffer is,   *)
(* read off the state of both processes and the sockets between them.      *)
(***************************************************************************)
EXTENDS WpeAndroidInvariants

\* The j-th message to w's proxy puts a buffer in slot b of pool p, or empties it.
RefillsPool(w, j, p, b) ==
  toHost[w][j] \in Refills(b) /\ toHost[w][j].poolID = p

\* What slot b of pool p has once j messages were read, the j-th being the
\* last to refill it; what it has now if none is.
RefilledWith(w, j, p, b, o) ==
  IF j = 0 THEN poolBuffers[p][b] = o
  ELSE RefillsPool(w, j, p, b) /\ Brings(w, j, o)

\* The proxy of w will find o for the commit that is the i-th message to it.
CommitsTo(w, i, o) ==
  LET p == toHost[w][i].poolID
      b == toHost[w][i].bufferID
  IN  /\ toHost[w][i].code = "BufferCommit"
      /\ \E j \in 0 .. i - 1 : /\ RefilledWith(w, j, p, b, o)
                               /\ \A k \in j + 1 .. i - 1 : ~RefillsPool(w, k, p, b)

\* Where o may be.
Drawn(o)     == \E t \in Targets : Rendering(t, o)
Shown(o)     == \E v \in Views : HeldBy(v, o)
UnderWay(o)  == \E w \in Processes : \E i \in 1 .. Len(toHost[w]) : CommitsTo(w, i, o)
Pooled(o)    == \E t \in Targets : \E b \in Slots : InSlot(t, b, o)
Locked(o)    == \E t \in Targets : \E b \in Slots : InSlot(t, b, o) /\ locked[t][b]

\* The release of o is on its way back to the target that locked its slot.
Returning(o) ==
  \E t \in Targets : \E b \in Slots :
    /\ InSlot(t, b, o) /\ locked[t][b]
    /\ ReleaseInTransit(ProcessOf[t], poolID[t], b)

Owner(o) ==
  IF Drawn(o) THEN "drawn"
  ELSE IF Shown(o) THEN "shown"
  ELSE IF UnderWay(o) THEN "toApplication"
  ELSE IF Returning(o) THEN "toTarget"
  ELSE IF Locked(o) THEN "lost"
  ELSE IF Pooled(o) THEN "target"
  ELSE "nobody"

OwnerOf == [o \in Objects |-> Owner(o)]
InPools == {o \in Objects : Pooled(o)}

Ownership == INSTANCE BufferOwnership WITH
  Buffers <- Objects,
  owner   <- OwnerOf,
  pooled  <- InPools

(* Each buffer belongs to one party at a time: the target that draws into  *)
(* it, the application that shows it, or the sockets between them.  It     *)
(* passes from one to the next only by a commit, a dispatch, a release and *)
(* the return of that release, through resizes and the ends of targets,    *)
(* views and web processes (renderer-backend-egl.cpp, renderer-host.cpp).  *)
ImplementsOwnership == Ownership!Spec

-----------------------------------------------------------------------------
(* What the steps need, beside the exclusive use of buffers.               *)

(* A slot has the buffer of its pool slot, or will when its messages are   *)
(* read, unless the pool lost it to a commit without a view.               *)
SlotsKept(t) ==
  \A b \in Slots, o \in Objects : InSlot(t, b, o) =>
    /\ Followed(Sent(t), Purges, Allocations(b), Unread(t))
    /\ Filled(t, b, Unread(t)) \/ Dropped(t, b)

(* The buffer of a slot is not to be deleted by its release.               *)
Unmarked(t) ==
  \A b \in Slots, o \in Objects : InSlot(t, b, o) /\ hostBuffer[o] # None => ~hostBuffer[o].pendingDelete

(* A locked slot whose allocation was not read is committed after it.      *)
LockedCommitted(t) ==
  \A b \in Slots, o \in Objects :
    InSlot(t, b, o) /\ locked[t][b] /\ Among(Sent(t), Carrying(o), Unread(t)) =>
      ~Followed(Sent(t), Commits(b), Refills(b), Unread(t))

(* A release on its way finds the buffer of its slot back: a stale one,    *)
(* too, unlocks nothing that is in use.                                    *)
ReleasesFresh(t) ==
  \A b \in Slots, o \in Objects :
    InSlot(t, b, o) /\ ReleaseInTransit(ProcessOf[t], poolID[t], b) => Returned(t, b, o)

(* What tells who has a buffer, with the exclusive use of buffers: the     *)
(* slots of a target and of its pool, the messages that bring the one in   *)
(* line with the other, and what is on its way back, between any two       *)
(* steps of drawing, commits, releases, resizes and ends                   *)
(* (renderer-backend-egl.cpp, renderer-host.cpp).                          *)
OwnerInv ==
  /\ UseInv
  /\ \A t \in Targets : ~Young(t) =>
       SlotsKept(t) /\ Unmarked(t) /\ LockedCommitted(t) /\ ReleasesFresh(t)
=============================================================================
