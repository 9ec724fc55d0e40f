--------------------------------- MODULE Ipc ---------------------------------
(***************************************************************************)
(* The sockets between the processes of WPEBackend-android, and the        *)
(* messages they carry (src/src/ipc.cpp, src/src/ipc-messages.h).          *)
(*                                                                         *)
(* Two kinds of socket pairs exist:                                        *)
(*   - one per web process, between its RendererBackend (IPC::Client) and  *)
(*     its RendererHostClientProxy in the UI process (IPC::Host);          *)
(*   - one per view, between the ViewBackend in the UI process (IPC::Host) *)
(*     and every EGLTarget of that view (IPC::Client, on a dup'ed fd).     *)
(* Each direction of a pair is a FIFO; nothing orders two different pairs. *)
(* A message and the ancillary data sent right behind it (the hardware     *)
(* buffer handle of BufferAllocation, the fence of BufferCommit) is one    *)
(* element of the FIFO.                                                    *)
(***************************************************************************)
EXTENDS Naturals, Sequences

CONSTANTS
  Processes,  \* the web processes, each with one RendererBackend
  Targets,    \* the EGLTargets the web processes ever create
  Views,      \* the ViewBackends of the UI process, one per WebView
  Objects,    \* the AHardwareBuffers; a host Buffer is named by its handle
  ProcessOf,  \* the web process an EGLTarget lives in
  ViewOf,     \* the view whose renderer host fd an EGLTarget was given
  PoolSize,   \* length of the std::array of buffers (4 in the code)
  MaxPools,   \* bound on the pool identifiers (a uint32_t in the code)
  None        \* the null pointer

Slots   == 0 .. PoolSize - 1   \* the bufferIDs
PoolIDs == 0 .. MaxPools - 1

ASSUME IpcAssumption ==
  /\ PoolSize \in Nat \ {0}
  /\ MaxPools \in Nat \ {0}
  /\ ProcessOf \in [Targets -> Processes]
  /\ ViewOf \in [Targets -> Views]
  /\ None \notin Processes \cup Targets \cup Views \cup Objects \cup Slots

-----------------------------------------------------------------------------
(* Messages.  Names are those of the structs, with the suffix Msg. *)

PoolConstructionMsg          == [code |-> "PoolConstruction"]
PoolConstructionReplyMsg(p)  == [code |-> "PoolConstructionReply", poolID |-> p]
PoolPurgeMsg(p)              == [code |-> "PoolPurge", poolID |-> p]
RegisterPoolMsg(p)           == [code |-> "RegisterPool", poolID |-> p]
UnregisterPoolMsg(p)         == [code |-> "UnregisterPool", poolID |-> p]

\* Mutation: the bufferID of the allocation is left at its default.
AllocationWithoutSlotMsg(p, b, o) == [code |-> "BufferAllocation", poolID |-> p,
                                      bufferID |-> 0, object |-> o]
BufferAllocationMsg(p, b, o) == [code |-> "BufferAllocation", poolID |-> p,
                                 bufferID |-> b, object |-> o]
BufferCommitMsg(p, b)        == [code |-> "BufferCommit", poolID |-> p, bufferID |-> b]

\* Mutation: the bufferID of the release is left at its default.
ReleaseWithoutSlotMsg(p, b)  == [code |-> "ReleaseBuffer", poolID |-> p, bufferID |-> 0]
\* Mutation: the release counts the slots from one.
ReleaseFromOneMsg(p, b)      == [code |-> "ReleaseBuffer", poolID |-> p, bufferID |-> b + 1]
ReleaseBufferMsg(p, b)       == [code |-> "ReleaseBuffer", poolID |-> p, bufferID |-> b]
FrameCompleteMsg(p)          == [code |-> "FrameComplete", poolID |-> p]

\* What a RendererHostClientProxy may find in its socket.
HostMessage ==
  [code : {"PoolConstruction"}]
    \cup [code : {"PoolPurge"}, poolID : PoolIDs]
    \cup [code : {"BufferAllocation"}, poolID : PoolIDs, bufferID : Slots, object : Objects]
    \cup [code : {"BufferCommit"}, poolID : PoolIDs, bufferID : Slots]

\* What a RendererBackend may find in its socket.
WebMessage ==
  [code : {"PoolConstructionReply", "FrameComplete"}, poolID : PoolIDs]
    \cup [code : {"ReleaseBuffer"}, poolID : PoolIDs, bufferID : Slots]

\* What a ViewBackend may find in its socket.
ViewMessage == [code : {"RegisterPool", "UnregisterPool"}, poolID : PoolIDs]

-----------------------------------------------------------------------------
VARIABLES
  toHost,   \* toHost[w]: sent by web process w, not yet read by its proxy
  toWeb,    \* toWeb[w]:  sent to web process w, not yet read by it
  toView,   \* toView[v]: sent by the targets of view v, not yet read by it
  webUp,    \* webUp[w]:  w was launched and runs, its end of the socket is open
  viewUp    \* viewUp[v]: the ViewBackend exists, its socket is open

ipcVars == <<toHost, toWeb, toView, webUp, viewUp>>

IpcTypeOK ==
  /\ toHost \in [Processes -> Seq(HostMessage)]
  /\ toWeb  \in [Processes -> Seq(WebMessage)]
  /\ toView \in [Views -> Seq(ViewMessage)]
  /\ webUp  \in [Processes -> BOOLEAN]
  /\ viewUp \in [Views -> BOOLEAN]

IpcInit ==
  /\ toHost = [w \in Processes |-> <<>>]
  /\ toWeb  = [w \in Processes |-> <<>>]
  /\ toView = [v \in Views |-> <<>>]
  /\ webUp  = [w \in Processes |-> FALSE]
  /\ viewUp = [v \in Views |-> FALSE]

\* Remove the message the receiver at x has just read.
Received(queue, x) == [queue EXCEPT ![x] = Tail(@)]

\* IPC::Client::sendMessage on the renderer backend's socket.
SendToHost(w, m) == toHost' = [toHost EXCEPT ![w] = Append(@, m)]

\* Mutation: nothing is ever sent to the web process.
SendNothing(w, m) == UNCHANGED toWeb

\* IPC::Host::sendMessage: the result of g_socket_send is ignored, so what is
\* sent to a process that is gone is lost without a trace.
SendToWeb(w, m) ==
  toWeb' = IF webUp[w] THEN [toWeb EXCEPT ![w] = Append(@, m)] ELSE toWeb

\* IPC::Client::sendMessage on a target's socket; lost when the view is gone.
SendToView(v, m) ==
  toView' = IF viewUp[v] THEN [toView EXCEPT ![v] = Append(@, m)] ELSE toView

\* IPC::Host::releaseClientFD for a web process that is launched with the
\* descriptor, and its IPC::Client::initialize.
OpenWeb(w) ==
  /\ webUp' = [webUp EXCEPT ![w] = TRUE]
  /\ UNCHANGED <<toHost, toWeb, toView, viewUp>>

\* IPC::Host::initialize of a ViewBackend's socket.
OpenView(v) ==
  /\ viewUp' = [viewUp EXCEPT ![v] = TRUE]
  /\ UNCHANGED <<toHost, toWeb, toView, webUp>>

\* The web process ends: its end of the socket closes with what it had not
\* read.  What it had sent stays readable by the proxy.
CloseWeb(w) ==
  /\ webUp' = [webUp EXCEPT ![w] = FALSE]
  /\ toWeb' = [toWeb EXCEPT ![w] = <<>>]

\* IPC::Host::deinitialize of a ViewBackend's socket.
CloseView(v) ==
  /\ viewUp' = [viewUp EXCEPT ![v] = FALSE]
  /\ toView' = [toView EXCEPT ![v] = <<>>]
=============================================================================
