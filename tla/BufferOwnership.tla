--------------------------- MODULE BufferOwnership ---------------------------
(***************************************************************************)
(* What the protocol of WPEBackend-android promises for each hardware      *)
(* buffer: it belongs to one party at a time, and goes round.              *)
(*                                                                         *)
(*     target --> drawn --> to the application --> shown                   *)
(*        ^                                          |                     *)
(*        +--------------- to the target <-----------+                     *)
(*                                                                         *)
(* A target may drop the buffers of its pool at any time (a resize, its    *)
(* end, or that of its process).  A buffer it drops ends its round, as far *)
(* as it had come, and is not drawn again.                                 *)
(***************************************************************************)
EXTENDS Naturals

CONSTANT Buffers

Owners == {"nobody", "target", "drawn", "toApplication", "shown", "toTarget", "lost"}

VARIABLES
  owner,  \* owner[o]: the party buffer o belongs to
  pooled  \* the buffers that are in the pool of a target

Init ==
  /\ owner = [o \in Buffers |-> "nobody"]
  /\ pooled = {}

\* Buffer o passes from one party to the next.
Passes(o, from, to) == owner[o] = from /\ owner' = [owner EXCEPT ![o] = to]

\* A party gives up o: it stays with its target as a buffer that never comes
\* back, or is gone altogether.
GivenUp(o) == IF o \in pooled THEN "lost" ELSE "nobody"

Allocate(o) ==
  /\ o \notin pooled
  /\ Passes(o, "nobody", "drawn")
  /\ pooled' = pooled \cup {o}

Draw(o) == Passes(o, "target", "drawn") /\ UNCHANGED pooled

Commit(o) == Passes(o, "drawn", "toApplication") /\ UNCHANGED pooled

Show(o) == Passes(o, "toApplication", "shown") /\ UNCHANGED pooled

Release(o) ==
  /\ Passes(o, "shown", IF o \in pooled THEN "toTarget" ELSE "nobody")
  /\ UNCHANGED pooled

Return(o) == Passes(o, "toTarget", "target") /\ UNCHANGED pooled

\* The target drops S.  What is with the application or on its way there
\* continues without it.
Drop(S) ==
  /\ pooled' = pooled \ S
  /\ owner' = [o \in Buffers |->
       IF o \in S /\ owner[o] \notin {"toApplication", "shown"} THEN "nobody" ELSE owner[o]]

\* The view is gone: S was shown by it, or was about to be.
Lose(S) ==
  /\ \A o \in S : owner[o] \in {"toApplication", "shown"}
  /\ owner' = [o \in Buffers |-> IF o \in S THEN GivenUp(o) ELSE owner[o]]
  /\ UNCHANGED pooled

Next ==
  \/ \E o \in Buffers :
       \/ Allocate(o) \/ Draw(o) \/ Commit(o) \/ Show(o) \/ Release(o) \/ Return(o)
  \/ \E S \in SUBSET pooled : Drop(S)
  \/ \E S \in SUBSET Buffers : Lose(S)

Spec == Init /\ [][Next]_<<owner, pooled>>
=============================================================================
