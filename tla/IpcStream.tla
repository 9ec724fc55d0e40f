------------------------------ MODULE IpcStream ------------------------------
(***************************************************************************)
(* One backend socket below the level of messages (src/src/ipc.cpp): a     *)
(* stream on which frameRendered sends BufferCommit and then its fence     *)
(* with sendFileDescriptor, and frameWillRender sends BufferAllocation and *)
(* then the handle.  The receiving handlers of RendererHostClientProxy     *)
(* read the second part themselves, in loops that retry while nothing is   *)
(* there, on the main thread of the UI process.                            *)
(*                                                                         *)
(* The web process may end between the two parts.  A fence is not sent at  *)
(* all when there is none: sendmsg fails with EBADF on the descriptor -1   *)
(* that eglDupNativeFenceFDANDROID or a missing EGLSync leaves.            *)
(*                                                                         *)
(* How the end of the web process shows depends on what it had not read:   *)
(* the kernel reports a connection reset, once, if there was something,    *)
(* and a plain end of the stream otherwise, both after what it had sent.   *)
(***************************************************************************)
EXTENDS Integers, Sequences

CONSTANTS
  MaxFrames,  \* bound: frames committed
  Backlog     \* bound: parts in the stream when a message is sent

ASSUME IpcStreamAssumption ==
  /\ MaxFrames \in Nat \ {0}
  /\ Backlog \in Nat \ {0}

VARIABLES
  stream,     \* what is sent and not yet read
  unread,     \* the UI process sent something the web process has not read
  webUp,      \* the web process runs
  web,        \* what the web process has sent the first part of
  committed,  \* BufferCommit messages sent
  fenceLost,  \* a commit went without its fence
  host,       \* what the UI process waits for
  frame,      \* the frame whose fence it waits for
  commit,     \* the last frame handed on by bufferCommit ...
  fence,      \* ... and the frame its fence was made for, or Lost
  reset,      \* the next read at the end of the stream fails
  source,     \* the GSource of the socket is attached
  gotNothing  \* a callback has read nothing

vars == <<stream, unread, webUp, web, committed, fenceLost,
          host, frame, commit, fence, reset, source, gotNothing>>

\* The negative errno receiveFileDescriptor returns.
Lost == -1

Part == [kind : {"commit", "fence", "allocation", "handle"}, frame : 0 .. MaxFrames]

TypeOK ==
  /\ stream \in Seq(Part)
  /\ {unread, webUp} \subseteq BOOLEAN
  /\ web \in {"idle", "committing", "allocating"}
  /\ committed \in 0 .. MaxFrames
  /\ fenceLost \in BOOLEAN
  /\ host \in {"loop", "fence", "handle", "crashed"}
  /\ {frame, commit} \subseteq 0 .. MaxFrames
  /\ fence \in 0 .. MaxFrames \cup {Lost}
  /\ {reset, source, gotNothing} \subseteq BOOLEAN

Init ==
  /\ stream = <<>>
  /\ unread = FALSE
  /\ webUp = TRUE
  /\ web = "idle"
  /\ committed = 0
  /\ fenceLost = FALSE
  /\ host = "loop"
  /\ frame = 0 /\ commit = 0 /\ fence = 0
  /\ reset = FALSE
  /\ source = TRUE
  /\ gotNothing = FALSE

Sends(kind, f) == stream' = Append(stream, [kind |-> kind, frame |-> f])

hostVars == <<host, frame, commit, fence, reset, source, gotNothing>>
webVars  == <<unread, webUp, web, committed, fenceLost>>

-----------------------------------------------------------------------------
(* EGLTarget::frameRendered: Client::sendMessage of the commit, ... *)
SendCommit ==
  /\ webUp /\ web = "idle"
  /\ committed < MaxFrames /\ Len(stream) < Backlog
  /\ Sends("commit", committed + 1)
  /\ committed' = committed + 1
  /\ web' = "committing"
  /\ UNCHANGED <<unread, webUp, fenceLost, hostVars>>

\* Mutation: the fence is forgotten.
ForgetFence ==
  /\ webUp /\ web = "committing"
  /\ web' = "idle"
  /\ UNCHANGED <<stream, unread, webUp, committed, fenceLost, hostVars>>

(* ... and Client::sendFileDescriptor of its fence, ... *)
SendFence ==
  /\ webUp /\ web = "committing"
  /\ Sends("fence", committed)
  /\ web' = "idle"
  /\ UNCHANGED <<unread, webUp, committed, fenceLost, hostVars>>

(* ... which may fail; nobody looks at its result. *)
FenceFails ==
  /\ webUp /\ web = "committing"
  /\ web' = "idle"
  /\ fenceLost' = TRUE
  /\ UNCHANGED <<stream, unread, webUp, committed, hostVars>>

(* EGLTarget::frameWillRender: sendMessage of the allocation, ... *)
SendAllocation ==
  /\ webUp /\ web = "idle"
  /\ Len(stream) < Backlog
  /\ Sends("allocation", 0)
  /\ web' = "allocating"
  /\ UNCHANGED <<unread, webUp, committed, fenceLost, hostVars>>

(* ... and, retried until there is room, of the handle. *)
SendHandle ==
  /\ webUp /\ web = "allocating"
  /\ Sends("handle", 0)
  /\ web' = "idle"
  /\ UNCHANGED <<unread, webUp, committed, fenceLost, hostVars>>

(* IPC::Host::sendMessage of a FrameComplete or a ReleaseBuffer, from the  *)
(* main loop of the UI process, ...                                        *)
HostSends ==
  /\ host = "loop"
  /\ unread' = webUp
  /\ UNCHANGED <<stream, webUp, web, committed, fenceLost, hostVars>>

(* ... and IPC::Client::socketCallback, from the web process's. *)
WebReads ==
  /\ webUp /\ web = "idle"
  /\ unread
  /\ unread' = FALSE
  /\ UNCHANGED <<stream, webUp, web, committed, fenceLost, hostVars>>

(* The web process exits or is killed, between any two of its sends. *)
WebExits ==
  /\ webUp
  /\ webUp' = FALSE
  /\ reset' = unread
  /\ unread' = FALSE
  /\ UNCHANGED <<stream, web, committed, fenceLost>>
  /\ UNCHANGED <<host, frame, commit, fence, source, gotNothing>>

-----------------------------------------------------------------------------
AtEnd == stream = <<>> /\ ~webUp

(* Host::socketCallback reads a message, and handleMessage goes on to read *)
(* its second part.                                                        *)
Callback ==
  /\ host = "loop" /\ source
  /\ stream # <<>>
  /\ \/ /\ Head(stream).kind = "commit"
        /\ host' = "fence"
        /\ frame' = Head(stream).frame
     \/ /\ Head(stream).kind = "allocation"
        /\ host' = "handle"
        /\ UNCHANGED frame
  /\ stream' = Tail(stream)
  /\ UNCHANGED <<commit, fence, reset, source, gotNothing, webVars>>

(* At the end of the stream the read returns 0, which is not the -1 the    *)
(* callback tests for: the source stays, unless the connection was reset.  *)
CallbackAtEnd ==
  /\ host = "loop" /\ source
  /\ AtEnd
  /\ gotNothing' = TRUE
  /\ source' = ~reset
  /\ reset' = FALSE
  /\ UNCHANGED <<stream, host, frame, commit, fence, webVars>>

\* Mutation: what is not a fence is skipped.
SkipToFence ==
  /\ host = "fence"
  /\ \E i \in 1 .. Len(stream) :
       /\ stream[i].kind = "fence"
       /\ stream' = SubSeq(stream, i + 1, Len(stream))
       /\ fence' = stream[i].frame
  /\ commit' = frame
  /\ host' = "loop"
  /\ UNCHANGED <<frame, reset, source, gotNothing, webVars>>

\* Mutation: the fence stays in the stream.
PeekFence ==
  /\ host = "fence"
  /\ stream # <<>> /\ Head(stream).kind = "fence"
  /\ commit' = frame
  /\ fence' = Head(stream).frame
  /\ host' = "loop"
  /\ UNCHANGED <<stream, frame, reset, source, gotNothing, webVars>>

(* Host::receiveFileDescriptor, retried while there is nothing, and the    *)
(* call of bufferCommit.                                                   *)
ReceiveFence ==
  /\ host = "fence"
  /\ stream # <<>> /\ Head(stream).kind = "fence"
  /\ stream' = Tail(stream)
  /\ commit' = frame
  /\ fence' = Head(stream).frame
  /\ host' = "loop"
  /\ UNCHANGED <<frame, reset, source, gotNothing, webVars>>

\* Mutation: the read is not retried while there is nothing.
NoFenceYet == stream = <<>> \/ Head(stream).kind # "fence"

\* recvmsg returns without ancillary data: at the end of the stream, or with
\* the first byte of another message.
NoFence == (AtEnd /\ ~reset) \/ (stream # <<>> /\ Head(stream).kind # "fence")

\* Mutation: the result is not tested and some other descriptor handed on.
HandGarbageOn ==
  /\ host = "fence"
  /\ NoFence
  /\ commit' = frame
  /\ fence' = MaxFrames + 1
  /\ host' = "loop"
  /\ UNCHANGED <<stream, frame, reset, source, gotNothing, webVars>>

(* CMSG_FIRSTHDR is then null, and memmove reads from it. *)
ReceiveNoFence ==
  /\ host = "fence"
  /\ NoFence
  /\ host' = "crashed"
  /\ UNCHANGED <<stream, frame, commit, fence, reset, source, gotNothing, webVars>>

(* recvmsg fails when the connection was reset.  The error ends the loop   *)
(* like a descriptor would, and is handed on as the fence.                 *)
ReceiveError ==
  /\ host = "fence"
  /\ AtEnd /\ reset
  /\ reset' = FALSE
  /\ commit' = frame
  /\ fence' = Lost
  /\ host' = "loop"
  /\ UNCHANGED <<stream, frame, source, gotNothing, webVars>>

(* AHardwareBuffer_recvHandleFromUnixSocket, retried while there is        *)
(* nothing, returns the handle, or an error at the end of the stream; the  *)
(* call of bufferAllocation follows in either case.                        *)
ReceiveHandle ==
  /\ host = "handle"
  /\ \/ /\ stream # <<>> /\ Head(stream).kind = "handle"
        /\ stream' = Tail(stream)
        /\ UNCHANGED reset
     \/ /\ AtEnd
        /\ reset' = FALSE
        /\ UNCHANGED stream
  /\ host' = "loop"
  /\ UNCHANGED <<frame, commit, fence, source, gotNothing, webVars>>

-----------------------------------------------------------------------------
Next ==
  \/ SendCommit \/ SendFence \/ FenceFails \/ SendAllocation \/ SendHandle
  \/ HostSends \/ WebReads \/ WebExits
  \/ Callback \/ CallbackAtEnd
  \/ ReceiveFence \/ ReceiveNoFence \/ ReceiveError \/ ReceiveHandle

Spec == Init /\ [][Next]_vars

(* The web process finishes frameRendered and frameWillRender unless it    *)
(* ends, and the main thread of the UI process runs.  Nothing makes the    *)
(* web process send another message: it may wait for FrameComplete.        *)
FairSpec ==
  /\ Spec
  /\ WF_vars(SendFence) /\ WF_vars(SendHandle)
  /\ WF_vars(Callback) /\ WF_vars(CallbackAtEnd)
  /\ WF_vars(ReceiveFence) /\ WF_vars(ReceiveNoFence)
  /\ WF_vars(ReceiveError) /\ WF_vars(ReceiveHandle)

-----------------------------------------------------------------------------
(* The fence bufferCommit gets is the one frameRendered made for that very *)
(* frame, whatever ends or fails in between.  It gets an error only for    *)
(* the last frame of a process that ended, and had not sent its fence.     *)
FenceOfItsCommit ==
  \/ commit = fence
  \/ /\ fence = Lost
     /\ commit = committed
     /\ ~webUp /\ (web = "committing" \/ fenceLost)

(* The UI process crashes in receiveFileDescriptor only after a commit     *)
(* that went without its fence: none was made, or the web process ended    *)
(* between the two sends.                                                  *)
CrashOnlyWithoutFence ==
  host = "crashed" => fenceLost \/ (~webUp /\ web = "committing")

(* The invariant behind the two.  A fence is right behind its commit, in   *)
(* the stream or with the commit just read ...                             *)
FencesFollow ==
  \A i \in 1 .. Len(stream) : stream[i].kind = "fence" =>
    \/ i > 1 /\ stream[i - 1].kind = "commit" /\ stream[i - 1].frame = stream[i].frame
    \/ i = 1 /\ host = "fence" /\ frame = stream[i].frame

(* ... and a commit is right before its fence, unless one was lost; ...    *)
CommitsLead ==
  fenceLost \/
    /\ \A i \in 1 .. Len(stream) - 1 : stream[i].kind = "commit" => stream[i + 1].kind = "fence"
    /\ host = "fence" /\ stream # <<>> => stream[1].kind = "fence"

(* ... what was sent last is a commit while the web process is between the *)
(* two sends, or stays so after the second failed; ...                     *)
Open ==
  \/ stream # <<>> /\ stream[Len(stream)].kind = "commit"
  \/ stream = <<>> /\ host = "fence"

OpenFrame == IF stream # <<>> THEN stream[Len(stream)].frame ELSE frame

OpenIsLast ==
  /\ Open => OpenFrame = committed /\ (web = "committing" \/ fenceLost)
  /\ webUp /\ web = "committing" => Open

(* ... frames come in the order of their numbers; ...                      *)
Numbered(part) == part.kind \in {"commit", "fence"}

InOrder ==
  /\ commit <= committed
  /\ host = "fence" => commit < frame /\ frame <= committed
  /\ \A i \in 1 .. Len(stream) :
       Numbered(stream[i]) => commit < stream[i].frame /\ stream[i].frame <= committed
  /\ \A i, j \in 1 .. Len(stream) :
       i < j /\ stream[i].kind = "fence" /\ Numbered(stream[j]) =>
         stream[i].frame < stream[j].frame

(* ... and nothing comes after an error.                                   *)
LostIsLast == fence = Lost => stream = <<>> /\ ~webUp /\ host = "loop"

(* All of it: inductive, and checked by TLC before it was proved.          *)
StreamInv ==
  /\ TypeOK /\ FencesFollow /\ CommitsLead /\ OpenIsLast /\ InOrder /\ LostIsLast
  /\ FenceOfItsCommit /\ CrashOnlyWithoutFence

(* A socket is a FIFO of commits with their fences, as Ipc.tla has it: a   *)
(* commit counts as sent with its fence and as received with it.  Only the *)
(* last commit may come without one, and is then the end.                  *)
Fences == {stream[i].frame : i \in {j \in 1 .. Len(stream) : stream[j].kind = "fence"}}

Channel == INSTANCE CommitChannel WITH
  Frames <- 1 .. MaxFrames,
  queue  <- Fences

ImplementsChannel == Channel!Spec

(* The retry loops of handleMessage end, even if the web process ends or   *)
(* sends nothing more, unless it had no fence for a commit.                *)
LoopReturns ==
  host \in {"fence", "handle"} ~> (host \notin {"fence", "handle"} \/ fenceLost)

(* "If nothing is read, give up": a callback that has read nothing removes *)
(* its source (ipc.cpp:136).                                               *)
GivesUp == gotNothing ~> ~source
=============================================================================
