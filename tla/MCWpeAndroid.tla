---------------------------- MODULE MCWpeAndroid ----------------------------
(***************************************************************************)
(* Small instances of WpeAndroid for TLC.                                  *)
(***************************************************************************)
EXTENDS WpeAndroidOwnership, TLC

CONSTANTS t1, t2, w1, w2, v1, v2

\* ProcessOf: one target, one target per web process, two targets in one.
OneTarget     == (t1 :> w1)
TwoProcesses  == (t1 :> w1) @@ (t2 :> w2)
SharedProcess == (t1 :> w1) @@ (t2 :> w1)

\* ViewOf: one view, one view for two targets, a view each.
OneView    == (t1 :> v1)
SharedView == (t1 :> v1) @@ (t2 :> v1)
TwoViews   == (t1 :> v1) @@ (t2 :> v2)

\* Orders: any; page by page, with the view or the web process of each page
\* first, or only the view first; all views first, or all web processes.
Created(order) == SelectSeq(order, LAMBDA x : x \in Sockets)

AnyOrder     == {order \in [1 .. Cardinality(Sockets) -> Sockets] : IsInjective(order)}
PageByPage   == {Created(<<v1, w1, v2, w2>>), Created(<<w1, v1, w2, v2>>)}
ViewThenPage == {Created(<<v1, w1, v2, w2>>)}
ViewsFirst   == {Created(<<v1, v2, w1, w2>>)}

\* AHardwareBuffers are interchangeable.
Handles == Permutations(Objects)
=============================================================================
