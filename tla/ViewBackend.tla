----------------------------- MODULE ViewBackend -----------------------------
(***************************************************************************)
(* ViewBackend and the public entry points of WPEAndroidViewBackend        *)
(* (src/src/view-backend.cpp), with the application that calls them.       *)
(*                                                                         *)
(* The application is external.  It shows the buffers of a view in the     *)
(* order they were committed, releases each once, after a newer one has    *)
(* replaced it on screen, reports each committed frame complete once, and  *)
(* holds at most MaxHeld buffers when it does so.                          *)
(***************************************************************************)
EXTENDS RendererHost

CONSTANT MaxHeld  \* buffers the application holds when it completes a frame

ASSUME ViewBackendAssumption == MaxHeld \in Nat \ {0}

VARIABLE poolIds  \* poolIds[v]: ViewBackend::m_poolIds

viewVars == <<poolIds>>

ViewTypeOK == poolIds \in [Views -> SUBSET PoolIDs]

ViewInit == poolIds = [v \in Views |-> {}]

-----------------------------------------------------------------------------
(* WPEAndroidViewBackend_create, _setCommitBufferHandler, and              *)
(* ViewBackend::initialize when WebKit makes a page for the view.          *)
CreateView(v) ==
  /\ Attach(v)
  /\ OpenView(v)
  /\ UNCHANGED <<hostVars, appVars, viewVars>>

\* Mutation: the view does not enter the host's map.
RegisterLocally(v, p) ==
  /\ poolIds' = [poolIds EXCEPT ![v] = @ \cup {p}]
  /\ UNCHANGED viewBackendMap

(* ViewBackend::registerPool *)
RegisterPool(v, p) ==
  /\ poolIds' = [poolIds EXCEPT ![v] = @ \cup {p}]
  /\ viewBackendMap' = IF viewBackendMap[p] = None
                         THEN [viewBackendMap EXCEPT ![p] = v]
                         ELSE viewBackendMap   \* insert() keeps the old entry

(* ViewBackend::unregisterPool ignores a pool that is not the view's. *)
UnregisterPool(v, p) ==
  \/ /\ p \in poolIds[v]
     /\ poolIds' = [poolIds EXCEPT ![v] = @ \ {p}]
     /\ viewBackendMap' = [viewBackendMap EXCEPT ![p] = None]
  \/ /\ p \notin poolIds[v]
     /\ UNCHANGED <<poolIds, viewBackendMap>>

(* ViewBackend::handleMessage *)
HandleViewMessage(v) ==
  LET m == Head(toView[v])
  IN  /\ Turn(v)
      /\ toView[v] # <<>>
      /\ toView' = Received(toView, v)
      /\ Served(v)
      /\ \/ m.code = "RegisterPool" /\ RegisterPool(v, m.poolID)
         \/ m.code = "UnregisterPool" /\ UnregisterPool(v, m.poolID)
      /\ UNCHANGED <<nextPoolID, poolClient, poolBuffers, hostBuffer, lastExportedPoolID>>
      /\ UNCHANGED <<toHost, toWeb, webUp, viewUp>>
      /\ UNCHANGED appVars

\* Mutation: the pools of the view stay registered.
DestroyViewOnly(v) ==
  /\ viewUp[v]
  /\ CloseView(v)
  /\ Served(v)
  /\ held' = [held EXCEPT ![v] = <<>>]
  /\ unfinished' = [unfinished EXCEPT ![v] = <<>>]
  /\ UNCHANGED <<hostVars, viewVars, toHost, toWeb, webUp>>

(* WPEAndroidViewBackend_destroy, ~ViewBackend: every pool of the view is  *)
(* unregistered and its socket closed.  The application can no longer      *)
(* release what it still holds.                                            *)
DestroyView(v) ==
  /\ viewUp[v]
  /\ CloseView(v)
  /\ Served(v)
  /\ poolIds' = [poolIds EXCEPT ![v] = {}]
  /\ viewBackendMap' = [p \in PoolIDs |->
       IF p \in poolIds[v] THEN None ELSE viewBackendMap[p]]
  /\ held' = [held EXCEPT ![v] = <<>>]
  /\ unfinished' = [unfinished EXCEPT ![v] = <<>>]
  /\ UNCHANGED <<nextPoolID, poolClient, poolBuffers, hostBuffer, lastExportedPoolID>>
  /\ UNCHANGED <<toHost, toWeb, webUp>>

-----------------------------------------------------------------------------
(* WPEAndroidViewBackend_dispatchReleaseBuffer of the i-th buffer held. *)
DispatchReleaseBuffer(v, i) ==
  /\ i < Len(held[v])
  /\ ReleaseBuffer(held[v][i])
  /\ held' = [held EXCEPT ![v] = RemoveAt(@, i)]
  /\ UNCHANGED <<unfinished, poolIds, toHost, toView, webUp, viewUp, loopVars>>

\* The application reports the oldest frame it has not reported yet.
CanComplete(v) == unfinished[v] # <<>> /\ Len(held[v]) <= MaxHeld

(* WPEAndroidViewBackend_dispatchFrameComplete *)
DispatchFrameComplete(v) ==
  /\ CanComplete(v)
  /\ unfinished' = Received(unfinished, v)
  /\ FrameComplete
  /\ UNCHANGED <<held, poolIds, toHost, toView, webUp, viewUp, loopVars>>
=============================================================================
