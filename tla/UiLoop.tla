------------------------------- MODULE UiLoop -------------------------------
(***************************************************************************)
(* The GLib main context of the UI process, which dispatches the sockets   *)
(* of the RendererHostClientProxies and of the ViewBackends                *)
(* (IPC::Host::initialize and socketCallback, src/src/ipc.cpp).            *)
(*                                                                         *)
(* An iteration of the context polls all sockets at once, then calls       *)
(* socketCallback once for each socket that was readable, in the order the *)
(* sources were attached.  A call reads one message.                       *)
(***************************************************************************)
EXTENDS Ipc, SequencesExt

Sockets == Processes \cup Views  \* an IPC::Host is named by its peer or its view

CONSTANT Orders  \* bound: the orders in which the sockets may be created

ASSUME UiLoopAssumption ==
  /\ Processes \cap Views = {}
  /\ Orders \subseteq Seq(Sockets)

VARIABLES
  sources,  \* the sockets created so far, in the order of g_source_attach
  ready     \* sockets found readable by the last poll and not yet read

loopVars == <<sources, ready>>

LoopTypeOK ==
  /\ sources \in Seq(Sockets)
  /\ ready \in SUBSET Sockets

LoopInit == sources = <<>> /\ ready = {}

Attached(x) == \E i \in 1 .. Len(sources) : sources[i] = x

(* IPC::Host::initialize attaches a source for a new socket.  One that is  *)
(* destroyed later is never readable again, and keeps its place here.      *)
Attach(x) ==
  /\ ~Attached(x)
  /\ sources' = Append(sources, x)
  /\ \E order \in Orders : IsPrefix(sources', order)
  /\ UNCHANGED ready

(* The next iteration starts when the last one has served every socket. *)
Poll ==
  /\ ready = {}
  /\ ready' = {w \in Processes : toHost[w] # <<>>} \cup {v \in Views : toView[v] # <<>>}
  /\ ready' # {}
  /\ UNCHANGED <<sources, ipcVars>>

\* The loop dispatches x now.
Turn(x) ==
  /\ x \in ready
  /\ \E i \in 1 .. Len(sources) :
       sources[i] = x /\ \A j \in 1 .. i - 1 : sources[j] \notin ready

\* x has been dispatched, or its source destroyed.
Served(x) == ready' = ready \ {x} /\ UNCHANGED sources
=============================================================================
