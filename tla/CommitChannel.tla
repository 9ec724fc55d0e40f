---------------------------- MODULE CommitChannel ----------------------------
(***************************************************************************)
(* What Ipc.tla takes a backend socket to be: a FIFO in which a            *)
(* BufferCommit and its fence are one element.  A sender that ends in the  *)
(* middle may leave a commit without its fence.  Frames are numbered in    *)
(* the order they are sent, so the first in the FIFO is the least.         *)
(* IpcStream implements it.                                                *)
(***************************************************************************)
EXTENDS Naturals

CONSTANTS
  Frames,  \* the numbers of the frames committed
  Lost     \* what stands for the fence of a commit that came without

VARIABLES
  queue,   \* frames sent and not yet received
  commit,  \* the frame of the last commit received
  fence    \* the frame of the fence received with it, or Lost

Init == queue = {} /\ commit = 0 /\ fence = 0

\* f comes after every frame sent so far.
Follows(f) == f > commit /\ \A g \in queue : f > g

Send ==
  /\ fence # Lost
  /\ \E f \in Frames : Follows(f) /\ queue' = queue \cup {f}
  /\ UNCHANGED <<commit, fence>>

Receive ==
  \E f \in queue :
    /\ \A g \in queue : f <= g
    /\ queue' = queue \ {f}
    /\ commit' = f
    /\ fence' = f

\* The next frame arrives without its fence, after all others.
ReceiveLast ==
  /\ queue = {}
  /\ fence # Lost
  /\ \E f \in Frames : Follows(f) /\ commit' = f
  /\ fence' = Lost
  /\ UNCHANGED queue

Next == Send \/ Receive \/ ReceiveLast

Spec == Init /\ [][Next]_<<queue, commit, fence>>
=============================================================================
