---------------------------- MODULE IpcStreamProofs ----------------------------
(***************************************************************************)
(* Theorems about IpcStream, for every number of frames and every backlog. *)
(***************************************************************************)
EXTENDS IpcStream, SequenceTheorems, TLAPS

(* What the properties read of a stream to which a part was added.         *)
LEMMA Added ==
  ASSUME TypeOK, NEW kind \in {"commit", "fence", "allocation", "handle"},
         NEW f \in 0 .. MaxFrames, Sends(kind, f)
  PROVE  /\ stream' \in Seq(Part)
         /\ stream' # <<>>
         /\ Len(stream') = Len(stream) + 1
         /\ \A i \in 1 .. Len(stream) : stream'[i] = stream[i]
         /\ stream'[Len(stream) + 1].kind = kind
         /\ stream'[Len(stream) + 1].frame = f
<1> DEFINE part == [kind |-> kind, frame |-> f]
<1>1. part \in Part /\ stream \in Seq(Part) /\ stream' = Append(stream, part)
  BY DEF Part, TypeOK, Sends
<1>2. part.kind = kind /\ part.frame = f
  OBVIOUS
<1> HIDE DEF part
<1> QED
  BY <1>1, <1>2, AppendProperties

(* What they read of one whose first part was taken.                       *)
LEMMA Taken ==
  ASSUME TypeOK, stream # <<>>, stream' = Tail(stream)
  PROVE  /\ stream' \in Seq(Part)
         /\ Head(stream) = stream[1] /\ stream[1] \in Part
         /\ Len(stream) \in Nat \ {0}
         /\ Len(stream') = Len(stream) - 1
         /\ stream' = <<>> <=> Len(stream) = 1
         /\ \A i \in 1 .. Len(stream') : stream'[i] = stream[i + 1]
<1>1. stream \in Seq(Part) /\ Len(stream) \in Nat
  BY LenProperties DEF TypeOK
<1>2. /\ Tail(stream) \in Seq(Part) /\ Len(Tail(stream)) = Len(stream) - 1
      /\ \A i \in 1 .. Len(Tail(stream)) : Tail(stream)[i] = stream[i + 1]
  BY <1>1, HeadTailProperties
<1>3. Len(stream) # 0
  BY <1>1, EmptySeq
<1>4. Tail(stream) = <<>> <=> Len(Tail(stream)) = 0
  BY <1>2, EmptySeq
<1>5. Head(stream) = stream[1] /\ stream[1] \in Part
  BY <1>1, <1>3, ElementOfSeq
<1> QED
  BY <1>1, <1>2, <1>3, <1>4, <1>5

(* Every step keeps the types.                                             *)
LEMMA StreamTypes ==
  ASSUME TypeOK, [Next]_vars
  PROVE  TypeOK'
<1> USE IpcStreamAssumption
<1>1. CASE SendCommit \/ SendFence \/ SendAllocation \/ SendHandle
  <2>1. stream' \in Seq(Part)
    <3>1. \E kind \in {"commit", "fence", "allocation", "handle"}, f \in 0 .. MaxFrames : Sends(kind, f)
      BY <1>1 DEF SendCommit, SendFence, SendAllocation, SendHandle, TypeOK
    <3> QED
      BY <3>1, Added
  <2> QED
    BY <1>1, <2>1 DEF SendCommit, SendFence, SendAllocation, SendHandle, TypeOK, hostVars
<1>2. CASE FenceFails \/ HostSends \/ WebReads \/ WebExits
  BY <1>2 DEF FenceFails, HostSends, WebReads, WebExits, TypeOK, hostVars
<1>3. CASE Callback
  <2>1. /\ stream' \in Seq(Part)
        /\ Head(stream).frame \in 0 .. MaxFrames
    BY <1>3, Taken DEF Callback, Part
  <2> QED
    BY <1>3, <2>1 DEF Callback, TypeOK, webVars
<1>4. CASE ReceiveFence
  <2>1. /\ stream' \in Seq(Part)
        /\ Head(stream).frame \in 0 .. MaxFrames
    BY <1>4, Taken DEF ReceiveFence, Part
  <2> QED
    BY <1>4, <2>1 DEF ReceiveFence, TypeOK, webVars
<1>5. CASE ReceiveHandle
  <2>1. stream' \in Seq(Part)
    BY <1>5, Taken DEF ReceiveHandle, TypeOK
  <2> QED
    BY <1>5, <2>1 DEF ReceiveHandle, TypeOK, webVars
<1>6. CASE CallbackAtEnd \/ ReceiveNoFence \/ ReceiveError
  BY <1>6 DEF CallbackAtEnd, ReceiveNoFence, ReceiveError, TypeOK, webVars
<1>7. CASE UNCHANGED vars
  BY <1>7 DEF vars, TypeOK
<1> QED
  BY <1>1, <1>2, <1>3, <1>4, <1>5, <1>6, <1>7 DEF Next

(* The steps of the web process that send a part keep the invariant.       *)
LEMMA SendsKeep ==
  ASSUME StreamInv, SendCommit \/ SendFence \/ SendAllocation \/ SendHandle
  PROVE  StreamInv'
<1> USE DEF hostVars
<1>1. TypeOK /\ TypeOK'
  BY StreamTypes DEF StreamInv, Next
<1>2. PICK kind \in {"commit", "fence", "allocation", "handle"}, f \in 0 .. MaxFrames :
        /\ Sends(kind, f)
        /\ webUp /\ UNCHANGED <<unread, webUp, fenceLost, hostVars>>
        /\ \/ kind = "commit" /\ web = "idle" /\ f = committed + 1 /\ committed' = f /\ web' = "committing"
           \/ kind = "fence" /\ web = "committing" /\ f = committed /\ committed' = f /\ web' = "idle"
           \/ kind = "allocation" /\ web = "idle" /\ committed' = committed /\ web' = "allocating"
           \/ kind = "handle" /\ web = "allocating" /\ committed' = committed /\ web' = "idle"
  BY <1>1, IpcStreamAssumption DEF SendCommit, SendFence, SendAllocation, SendHandle, TypeOK
<1> DEFINE n == Len(stream)
<1>3. /\ stream' \in Seq(Part) /\ stream' # <<>> /\ Len(stream') = n + 1
      /\ \A i \in 1 .. n : stream'[i] = stream[i]
      /\ stream'[n + 1].kind = kind /\ stream'[n + 1].frame = f
  BY <1>1, <1>2, Added
<1>4. /\ n \in Nat /\ (stream = <<>> <=> n = 0)
      /\ committed \in Nat /\ commit \in Nat /\ f \in Nat /\ frame \in Nat
      /\ \A i \in 1 .. n : stream[i].frame \in Nat
  <2>1. stream \in Seq(Part)
    BY <1>1 DEF TypeOK
  <2>2. n \in Nat /\ (stream = <<>> <=> n = 0)
    BY <2>1, LenProperties, EmptySeq
  <2>3. ASSUME NEW i \in 1 .. n PROVE stream[i].frame \in Nat
    <3>1. stream[i] \in Part
      BY <2>1, ElementOfSeq
    <3> QED
      BY <3>1, IpcStreamAssumption DEF Part
  <2> QED
    BY <1>1, <2>2, <2>3, IpcStreamAssumption DEF TypeOK
<1>5. kind = "fence" => Open /\ OpenFrame = committed
  BY <1>2 DEF StreamInv, OpenIsLast
<1>6. Open /\ kind # "fence" => fenceLost
  BY <1>2 DEF StreamInv, OpenIsLast
<1> HIDE DEF n
<1>7. FencesFollow'
  <2>1. SUFFICES ASSUME NEW i \in 1 .. n + 1, stream'[i].kind = "fence"
                 PROVE  \/ i > 1 /\ stream'[i - 1].kind = "commit" /\ stream'[i - 1].frame = stream'[i].frame
                        \/ i = 1 /\ host' = "fence" /\ frame' = stream'[i].frame
    BY <1>3 DEF FencesFollow
  <2>2. CASE i \in 1 .. n
    <3>1. i > 1 => i - 1 \in 1 .. n
      BY <1>4, <2>2
    <3> QED
      BY <1>2, <1>3, <2>1, <2>2, <3>1 DEF StreamInv, FencesFollow, n
  <2>3. CASE i = n + 1
    BY <1>2, <1>3, <1>4, <1>5, <2>1, <2>3 DEF Open, OpenFrame, n
  <2> QED
    BY <1>4, <2>2, <2>3
<1>8. CommitsLead'
  BY <1>2, <1>3, <1>4, <1>6 DEF StreamInv, CommitsLead, Open, n
<1>9. OpenIsLast'
  BY <1>2, <1>3, <1>4 DEF StreamInv, OpenIsLast, Open, OpenFrame
<1>10. InOrder'
  <2>1. \A i \in 1 .. n : Numbered(stream[i]) => commit < stream[i].frame /\ stream[i].frame <= committed
    BY DEF StreamInv, InOrder, n
  <2>2. kind = "fence" => commit < f /\ \A i \in 1 .. n : stream[i].kind = "fence" => stream[i].frame < f
    <3> SUFFICES ASSUME kind = "fence" PROVE commit < f /\ \A i \in 1 .. n : stream[i].kind = "fence" => stream[i].frame < f
      OBVIOUS
    <3>1. f = committed /\ Open /\ OpenFrame = f
      BY <1>2, <1>5
    <3>2. CASE n = 0
      BY <1>4, <3>1, <3>2 DEF Open, OpenFrame, StreamInv, InOrder
    <3>3. CASE n > 0
      <4>1. stream[n].kind = "commit" /\ stream[n].frame = f /\ n \in 1 .. n
        BY <1>4, <3>1, <3>3 DEF Open, OpenFrame, n
      <4>2. \A i \in 1 .. n : i < n /\ stream[i].kind = "fence" => stream[i].frame < stream[n].frame
        BY <4>1 DEF StreamInv, InOrder, Numbered, n
      <4> QED
        BY <1>4, <2>1, <4>1, <4>2 DEF Numbered
    <3> QED
      BY <1>4, <3>2, <3>3
  <2>3. kind = "commit" => commit < f /\ \A i \in 1 .. n : stream[i].kind = "fence" => stream[i].frame < f
    BY <1>2, <1>4, <2>1 DEF StreamInv, InOrder, Numbered
  <2>4. commit' <= committed' /\ (host' = "fence" => commit' < frame' /\ frame' <= committed')
    BY <1>2, <1>4 DEF StreamInv, InOrder
  <2>5. \A i \in 1 .. n + 1 : Numbered(stream'[i]) =>
           commit' < stream'[i].frame /\ stream'[i].frame <= committed'
    <3>1. ASSUME NEW i \in 1 .. n, Numbered(stream'[i])
          PROVE  commit' < stream'[i].frame /\ stream'[i].frame <= committed'
      BY <1>2, <1>3, <1>4, <2>1, <3>1
    <3>2. Numbered(stream'[n + 1]) =>
            commit' < stream'[n + 1].frame /\ stream'[n + 1].frame <= committed'
      BY <1>2, <1>3, <1>4, <2>2, <2>3 DEF Numbered
    <3> QED
      BY <1>4, <3>1, <3>2
  <2>6. ASSUME NEW i \in 1 .. n + 1, NEW j \in 1 .. n + 1,
               i < j, stream'[i].kind = "fence", Numbered(stream'[j])
        PROVE  stream'[i].frame < stream'[j].frame
    <3>1. i \in 1 .. n /\ stream'[i] = stream[i]
      BY <1>3, <1>4, <2>6
    <3>2. CASE j \in 1 .. n
      BY <1>3, <2>6, <3>1, <3>2 DEF StreamInv, InOrder, n
    <3>3. CASE j = n + 1
      BY <1>2, <1>3, <2>2, <2>3, <2>6, <3>1, <3>3 DEF Numbered
    <3> QED
      BY <1>4, <3>2, <3>3
  <2> QED
    BY <1>3, <2>4, <2>5, <2>6 DEF InOrder
<1>11. LostIsLast'
  BY <1>2 DEF StreamInv, LostIsLast
<1>12. FenceOfItsCommit' /\ CrashOnlyWithoutFence'
  BY <1>2 DEF StreamInv, FenceOfItsCommit, CrashOnlyWithoutFence
<1> QED
  BY <1>1, <1>7, <1>8, <1>9, <1>10, <1>11, <1>12 DEF StreamInv

(* The steps of the UI process that take a part keep the invariant.        *)
LEMMA TakesKeep ==
  ASSUME StreamInv, Callback \/ ReceiveFence \/ ReceiveHandle, stream # <<>>
  PROVE  StreamInv'
<1> USE DEF webVars
<1> DEFINE first == stream[1]  n == Len(stream)
<1>1. TypeOK /\ TypeOK'
  BY StreamTypes DEF StreamInv, Next
<1>2. /\ UNCHANGED <<unread, webUp, web, committed, fenceLost>>
      /\ stream' = Tail(stream)
      /\ \/ /\ host = "loop" /\ first.kind = "commit"
            /\ host' = "fence" /\ frame' = first.frame /\ UNCHANGED <<commit, fence>>
         \/ /\ host = "loop" /\ first.kind = "allocation"
            /\ host' = "handle" /\ UNCHANGED <<frame, commit, fence>>
         \/ /\ host = "fence" /\ first.kind = "fence"
            /\ host' = "loop" /\ commit' = frame /\ fence' = first.frame /\ UNCHANGED frame
         \/ /\ host = "handle" /\ first.kind = "handle"
            /\ host' = "loop" /\ UNCHANGED <<frame, commit, fence>>
  BY <1>1, Taken DEF Callback, ReceiveFence, ReceiveHandle, AtEnd
<1>3. /\ first \in Part /\ n \in Nat \ {0} /\ Len(stream') = n - 1
      /\ stream' = <<>> <=> n = 1
      /\ \A i \in 1 .. n - 1 : stream'[i] = stream[i + 1] /\ i + 1 \in 1 .. n
  BY <1>1, <1>2, Taken
<1>4. /\ first.frame \in Nat /\ committed \in Nat /\ commit \in Nat /\ frame \in Nat
      /\ fence # Lost
  BY <1>1, <1>3, IpcStreamAssumption DEF TypeOK, Part, StreamInv, LostIsLast
<1>5. 1 \in 1 .. n /\ n \in 1 .. n
  BY <1>3
<1>6. first.kind = "fence" => frame = first.frame
  BY <1>5 DEF StreamInv, FencesFollow
<1> HIDE DEF first
<1>7. FencesFollow'
  <2>1. SUFFICES ASSUME NEW i \in 1 .. n - 1, stream'[i].kind = "fence"
                 PROVE  \/ i > 1 /\ stream'[i - 1].kind = "commit" /\ stream'[i - 1].frame = stream'[i].frame
                        \/ i = 1 /\ host' = "fence" /\ frame' = stream'[i].frame
    BY <1>3 DEF FencesFollow
  <2>2. stream'[i] = stream[i + 1] /\ i + 1 \in 1 .. n /\ i + 1 > 1
    BY <1>3
  <2>3. stream[i].kind = "commit" /\ stream[i].frame = stream[i + 1].frame
    BY <2>1, <2>2 DEF StreamInv, FencesFollow
  <2>4. CASE i = 1
    BY <1>2, <2>2, <2>3, <2>4 DEF first
  <2>5. CASE i > 1
    <3>1. i - 1 \in 1 .. n - 1
      BY <1>3, <2>5
    <3>2. stream'[i - 1] = stream[i]
      BY <1>3, <3>1
    <3> QED
      BY <2>2, <2>3, <2>5, <3>2
  <2> QED
    BY <2>4, <2>5
<1>8. CommitsLead'
  <2>1. SUFFICES ASSUME ~fenceLost PROVE CommitsLead'
    BY <1>2 DEF CommitsLead
  <2>2. /\ \A i \in 1 .. n - 1 : stream[i].kind = "commit" => stream[i + 1].kind = "fence"
    BY <2>1 DEF StreamInv, CommitsLead
  <2>3. \A i \in 1 .. Len(stream') - 1 : stream'[i].kind = "commit" => stream'[i + 1].kind = "fence"
    <3>1. ASSUME NEW i \in 1 .. n - 2
          PROVE  stream'[i].kind = "commit" => stream'[i + 1].kind = "fence"
      <4>1. /\ i \in 1 .. n - 1 /\ i + 1 \in 1 .. n - 1
        BY <1>3
      <4>2. stream'[i] = stream[i + 1] /\ stream'[i + 1] = stream[(i + 1) + 1]
        BY <1>3, <4>1
      <4> QED
        BY <2>2, <4>1, <4>2
    <3>2. Len(stream') - 1 = n - 2
      BY <1>3
    <3> QED
      BY <3>1, <3>2
  <2>4. host' = "fence" /\ stream' # <<>> => stream'[1].kind = "fence"
    <3>1. SUFFICES ASSUME first.kind = "commit", stream' # <<>>
                   PROVE  stream'[1].kind = "fence"
      BY <1>2
    <3>2. 1 \in 1 .. n - 1 /\ stream'[1] = stream[1 + 1]
      BY <1>3, <3>1
    <3> QED
      BY <2>2, <3>1, <3>2 DEF first
  <2> QED
    BY <2>3, <2>4 DEF CommitsLead
<1>9. OpenIsLast'
  <2>1. stream # <<>>
    BY <1>3
  <2>2. CASE n = 1
    <3>1. first = stream[n]
      BY <2>2 DEF first
    <3> QED
      BY <1>2, <1>3, <2>1, <2>2, <3>1 DEF StreamInv, OpenIsLast, Open, OpenFrame
  <2>3. CASE n > 1
    <3>1. stream' # <<>> /\ stream'[Len(stream')] = stream[n]
      <4>1. n - 1 \in 1 .. n - 1
        BY <1>3, <2>3
      <4>2. stream'[n - 1] = stream[(n - 1) + 1]
        BY <1>3, <4>1
      <4> QED
        BY <1>3, <2>3, <4>2
    <3> QED
      BY <1>2, <2>1, <3>1 DEF StreamInv, OpenIsLast, Open, OpenFrame
  <2> QED
    BY <1>3, <2>2, <2>3
<1>10. InOrder'
  <2>1. /\ commit <= committed
        /\ host = "fence" => commit < frame /\ frame <= committed
        /\ Numbered(first) => commit < first.frame /\ first.frame <= committed
        /\ \A j \in 1 .. n : Numbered(stream[j]) =>
             /\ commit < stream[j].frame /\ stream[j].frame <= committed
             /\ 1 < j /\ first.kind = "fence" => first.frame < stream[j].frame
    BY <1>5 DEF StreamInv, InOrder, first
  <2>2. commit' <= committed' /\ (host' = "fence" => commit' < frame' /\ frame' <= committed')
    BY <1>2, <1>4, <1>6, <2>1 DEF Numbered
  <2>3. ASSUME NEW i \in 1 .. n - 1, Numbered(stream'[i])
        PROVE  commit' < stream'[i].frame /\ stream'[i].frame <= committed'
    <3>1. stream'[i] = stream[i + 1] /\ i + 1 \in 1 .. n /\ 1 < i + 1
      BY <1>3
    <3> QED
      BY <1>2, <1>6, <2>1, <2>3, <3>1
  <2>4. ASSUME NEW i \in 1 .. n - 1, NEW j \in 1 .. n - 1,
               i < j, stream'[i].kind = "fence", Numbered(stream'[j])
        PROVE  stream'[i].frame < stream'[j].frame
    <3>1. /\ stream'[i] = stream[i + 1] /\ stream'[j] = stream[j + 1]
          /\ i + 1 \in 1 .. n /\ j + 1 \in 1 .. n /\ i + 1 < j + 1
      BY <1>3, <2>4
    <3> QED
      BY <2>4, <3>1 DEF StreamInv, InOrder
  <2> QED
    BY <1>3, <2>2, <2>3, <2>4 DEF InOrder
<1>11. LostIsLast'
  BY <1>2, <1>4, IpcStreamAssumption DEF LostIsLast, Lost
<1>12. FenceOfItsCommit'
  BY <1>2, <1>4, <1>6 DEF StreamInv, FenceOfItsCommit
<1>13. CrashOnlyWithoutFence'
  BY <1>2 DEF CrashOnlyWithoutFence
<1> QED
  BY <1>1, <1>7, <1>8, <1>9, <1>10, <1>11, <1>12, <1>13 DEF StreamInv

(* The steps that leave the stream alone keep the invariant.               *)
LEMMA OthersKeep ==
  ASSUME StreamInv, [Next]_vars, UNCHANGED stream
  PROVE  StreamInv'
<1> USE DEF webVars, hostVars
<1>1. TypeOK /\ TypeOK'
  BY StreamTypes DEF StreamInv
<1>2. CASE UNCHANGED <<webUp, web, committed, fenceLost, host, frame, commit, fence>>
  BY <1>1, <1>2 DEF StreamInv, FencesFollow, CommitsLead, OpenIsLast, Open, OpenFrame, InOrder,
     LostIsLast, FenceOfItsCommit, CrashOnlyWithoutFence
<1>3. CASE FenceFails
  BY <1>1, <1>3 DEF FenceFails, StreamInv, FencesFollow, CommitsLead, OpenIsLast, Open, OpenFrame,
     InOrder, LostIsLast, FenceOfItsCommit, CrashOnlyWithoutFence
<1>4. CASE WebExits
  BY <1>1, <1>4 DEF WebExits, StreamInv, FencesFollow, CommitsLead, OpenIsLast, Open, OpenFrame,
     InOrder, LostIsLast, FenceOfItsCommit, CrashOnlyWithoutFence
<1>5. CASE ReceiveNoFence
  <2>1. CASE stream = <<>>
    BY <1>1, <1>5, <2>1 DEF ReceiveNoFence, NoFence, AtEnd, StreamInv, FencesFollow, CommitsLead,
       OpenIsLast, Open, OpenFrame, InOrder, LostIsLast, FenceOfItsCommit, CrashOnlyWithoutFence
  <2>2. CASE stream # <<>>
    <3>1. Head(stream) = stream[1] /\ 1 \in 1 .. Len(stream)
      <4>1. stream \in Seq(Part)
        BY <1>1 DEF TypeOK
      <4> QED
        BY <2>2, <4>1, LenProperties, EmptySeq
    <3> QED
      BY <1>1, <1>5, <2>2, <3>1 DEF ReceiveNoFence, NoFence, AtEnd, StreamInv, FencesFollow,
         CommitsLead, OpenIsLast, Open, OpenFrame, InOrder, LostIsLast, FenceOfItsCommit,
         CrashOnlyWithoutFence
  <2> QED
    BY <2>1, <2>2
<1>6. CASE ReceiveError
  <2>1. Len(stream) = 0
    BY <1>6 DEF ReceiveError, AtEnd
  <2> QED
    BY <1>1, <1>6, <2>1 DEF ReceiveError, AtEnd, StreamInv, FencesFollow, CommitsLead,
       OpenIsLast, Open, OpenFrame, InOrder, LostIsLast, FenceOfItsCommit, CrashOnlyWithoutFence
<1>7. CASE ReceiveHandle
  BY <1>1, <1>7 DEF ReceiveHandle, StreamInv, FencesFollow, CommitsLead, OpenIsLast, Open,
     OpenFrame, InOrder, LostIsLast, FenceOfItsCommit, CrashOnlyWithoutFence
<1>8. CASE SendCommit \/ SendFence \/ SendAllocation \/ SendHandle
  BY <1>8, SendsKeep
<1>9. CASE Callback \/ ReceiveFence
  BY <1>9, TakesKeep DEF Callback, ReceiveFence
<1> QED
  BY <1>2, <1>3, <1>4, <1>5, <1>6, <1>7, <1>8, <1>9
  DEF Next, vars, HostSends, WebReads, CallbackAtEnd

(* Every step keeps the invariant, ...                                     *)
LEMMA StreamStep ==
  ASSUME StreamInv, [Next]_vars
  PROVE  StreamInv'
<1>1. CASE SendCommit \/ SendFence \/ SendAllocation \/ SendHandle
  BY <1>1, SendsKeep
<1>2. CASE (Callback \/ ReceiveFence \/ ReceiveHandle) /\ stream # <<>>
  BY <1>2, TakesKeep
<1>3. CASE UNCHANGED stream
  BY <1>3, OthersKeep
<1> QED
  BY <1>1, <1>2, <1>3 DEF Next, vars, hostVars, webVars, FenceFails, HostSends, WebReads, WebExits,
     Callback, CallbackAtEnd, ReceiveFence, ReceiveNoFence, ReceiveError, ReceiveHandle

(* ... which holds at the start.                                           *)
LEMMA StreamStart == Init => StreamInv
<1> SUFFICES ASSUME Init PROVE StreamInv
  OBVIOUS
<1>1. stream = <<>> /\ Len(stream) = 0 /\ stream \in Seq(Part)
  BY DEF Init
<1>2. TypeOK
  <2>1. 0 \in 0 .. MaxFrames
    BY IpcStreamAssumption
  <2> QED
    BY <1>1, <2>1 DEF Init, TypeOK
<1>3. \A i \in 1 .. Len(stream) : FALSE
  BY <1>1
<1>4. FencesFollow /\ OpenIsLast
  BY <1>1, <1>3 DEF Init, FencesFollow, OpenIsLast, Open
<1>5. InOrder
  BY <1>3 DEF Init, InOrder
<1>6. CommitsLead
  <2>1. \A i \in 1 .. Len(stream) - 1 : FALSE
    BY <1>1
  <2> QED
    BY <1>1, <2>1 DEF Init, CommitsLead
<1> QED
  BY <1>2, <1>4, <1>5, <1>6
  DEF Init, StreamInv, LostIsLast, Lost, FenceOfItsCommit, CrashOnlyWithoutFence

(* At most one message is without its descriptor, the last one of a        *)
(* process that ended, and everything else in the stream and in the UI     *)
(* process is in the order of the frames (sendFileDescriptor and           *)
(* receiveFileDescriptor of ipc.cpp).                                      *)
THEOREM StreamInvariant == Spec => []StreamInv
<1>1. StreamInv /\ [Next]_vars => StreamInv'
  BY StreamStep
<1> QED
  BY <1>1, StreamStart, PTL DEF Spec

(* The stream holds messages and descriptors, and the loops of the two     *)
(* processes are at one of their steps.                                    *)
THEOREM StreamTypeCorrect == Spec => []TypeOK
<1>1. StreamInv => TypeOK
  BY DEF StreamInv
<1> QED
  BY <1>1, StreamInvariant, PTL

(* The fence bufferCommit gets is the one of its frame, or an error for    *)
(* the last frame of a process that ended (handleMessage of                *)
(* renderer-host.cpp, receiveFileDescriptor of ipc.cpp).                   *)
THEOREM FenceCorrect == Spec => []FenceOfItsCommit
<1>1. StreamInv => FenceOfItsCommit
  BY DEF StreamInv
<1> QED
  BY <1>1, StreamInvariant, PTL

(* The UI process crashes in receiveFileDescriptor only after a commit     *)
(* that went without its fence.                                            *)
THEOREM CrashExplained == Spec => []CrashOnlyWithoutFence
<1>1. StreamInv => CrashOnlyWithoutFence
  BY DEF StreamInv
<1> QED
  BY <1>1, StreamInvariant, PTL

-----------------------------------------------------------------------------
(* The refinement: each step of the stream is a step of the FIFO or none.  *)

(* The frames of the fences in a stream, before and after a step.          *)
LEMMA FenceFrames ==
  ASSUME NEW s \in Seq(Part), NEW F,
         F = {s[i].frame : i \in {j \in 1 .. Len(s) : s[j].kind = "fence"}}
  PROVE  /\ F \subseteq 0 .. MaxFrames
         /\ \A i \in 1 .. Len(s) : s[i].kind = "fence" => s[i].frame \in F
         /\ \A g \in F : \E i \in 1 .. Len(s) : s[i].kind = "fence" /\ s[i].frame = g
<1>1. \A i \in 1 .. Len(s) : s[i].frame \in 0 .. MaxFrames
  <2> SUFFICES ASSUME NEW i \in 1 .. Len(s) PROVE s[i].frame \in 0 .. MaxFrames
    OBVIOUS
  <2>1. s[i] \in Part
    BY ElementOfSeq
  <2> QED
    BY <2>1 DEF Part
<1> QED
  BY <1>1

(* The same for the stream after a step, whose FIFO is Fences'.            *)
LEMMA FencesAfter ==
  ASSUME stream' \in Seq(Part)
  PROVE  /\ Fences' \subseteq 0 .. MaxFrames
         /\ \A i \in 1 .. Len(stream') : stream'[i].kind = "fence" => stream'[i].frame \in Fences'
         /\ \A g \in Fences' : \E i \in 1 .. Len(stream') : stream'[i].kind = "fence" /\ stream'[i].frame = g
  BY FenceFrames DEF Fences

(* Sending a fence puts its frame into the FIFO; no other part does.       *)
LEMMA FencesAdded ==
  ASSUME TypeOK, NEW kind \in {"commit", "fence", "allocation", "handle"},
         NEW f \in 0 .. MaxFrames, Sends(kind, f)
  PROVE  Fences' = IF kind = "fence" THEN Fences \cup {f} ELSE Fences
<1>1. /\ stream \in Seq(Part) /\ stream' \in Seq(Part)
      /\ Len(stream) \in Nat
      /\ Len(stream') = Len(stream) + 1
      /\ \A i \in 1 .. Len(stream) : stream'[i] = stream[i]
      /\ stream'[Len(stream) + 1].kind = kind
      /\ stream'[Len(stream) + 1].frame = f
  BY Added, LenProperties DEF TypeOK
<1>2. /\ \A i \in 1 .. Len(stream) : stream[i].kind = "fence" => stream[i].frame \in Fences
      /\ \A g \in Fences : \E i \in 1 .. Len(stream) : stream[i].kind = "fence" /\ stream[i].frame = g
  BY <1>1, FenceFrames DEF Fences
<1>3. /\ \A i \in 1 .. Len(stream') : stream'[i].kind = "fence" => stream'[i].frame \in Fences'
      /\ \A g \in Fences' : \E i \in 1 .. Len(stream') : stream'[i].kind = "fence" /\ stream'[i].frame = g
  BY <1>1, FencesAfter
<1>4. Fences \subseteq Fences'
  <2> SUFFICES ASSUME NEW g \in Fences PROVE g \in Fences'
    OBVIOUS
  <2>1. PICK i \in 1 .. Len(stream) : stream[i].kind = "fence" /\ stream[i].frame = g
    BY <1>2
  <2>2. i \in 1 .. Len(stream')
    BY <1>1
  <2>3. stream'[i].kind = "fence" /\ stream'[i].frame = g
    BY <1>1, <2>1
  <2> QED
    BY <1>3, <2>2, <2>3
<1>5. kind = "fence" => f \in Fences'
  <2>1. Len(stream) + 1 \in 1 .. Len(stream')
    BY <1>1
  <2> QED
    BY <1>1, <1>3, <2>1
<1>6. ASSUME NEW g \in Fences'
      PROVE  g \in Fences \/ (kind = "fence" /\ g = f)
  <2>1. PICK i \in 1 .. Len(stream') : stream'[i].kind = "fence" /\ stream'[i].frame = g
    BY <1>3
  <2>2. CASE i \in 1 .. Len(stream)
    <3>1. stream[i].kind = "fence" /\ stream[i].frame = g
      BY <1>1, <2>1, <2>2
    <3>2. stream[i].frame \in Fences
      BY <1>2, <2>2, <3>1
    <3> QED
      BY <3>1, <3>2
  <2>3. CASE i = Len(stream) + 1
    BY <1>1, <2>1, <2>3
  <2> QED
    BY <1>1, <2>2, <2>3
<1>7. CASE kind = "fence"
  <2>1. Fences' = Fences \cup {f}
    BY <1>4, <1>5, <1>6, <1>7, Zenon
  <2> QED
    BY <1>7, <2>1
<1>8. CASE kind # "fence"
  <2>1. Fences' = Fences
    BY <1>4, <1>6, <1>8, Zenon
  <2> QED
    BY <1>8, <2>1
<1> QED
  BY <1>7, <1>8

(* Taking a part takes a frame out of the FIFO if it is a fence, and then  *)
(* the least one.                                                          *)
LEMMA FencesTaken ==
  ASSUME StreamInv, stream # <<>>, stream' = Tail(stream)
  PROVE  /\ Head(stream).kind # "fence" => Fences' = Fences
         /\ Head(stream).kind = "fence" =>
              /\ Head(stream).frame \in Fences
              /\ \A g \in Fences : Head(stream).frame <= g
              /\ Fences' = Fences \ {Head(stream).frame}
<1> DEFINE first == stream[1]  n == Len(stream)
<1>1. /\ TypeOK
      /\ stream \in Seq(Part) /\ stream' \in Seq(Part)
      /\ Head(stream) = first /\ first \in Part
      /\ n \in Nat \ {0} /\ Len(stream') = n - 1
      /\ \A i \in 1 .. n - 1 : stream'[i] = stream[i + 1]
  BY Taken DEF StreamInv, TypeOK
<1>2. first.frame \in Nat
  BY <1>1, IpcStreamAssumption DEF Part
<1>3. /\ \A i \in 1 .. n : stream[i].kind = "fence" => stream[i].frame \in Fences
      /\ \A g \in Fences : \E i \in 1 .. n : stream[i].kind = "fence" /\ stream[i].frame = g
  BY <1>1, FenceFrames DEF Fences
<1>4. /\ Fences' \subseteq 0 .. MaxFrames
      /\ \A i \in 1 .. n - 1 : stream[i + 1].kind = "fence" => stream[i + 1].frame \in Fences'
      /\ \A g \in Fences' : \E i \in 1 .. n - 1 : stream[i + 1].kind = "fence" /\ stream[i + 1].frame = g
  <2>1. /\ Fences' \subseteq 0 .. MaxFrames
        /\ \A i \in 1 .. n - 1 : stream'[i].kind = "fence" => stream'[i].frame \in Fences'
        /\ \A g \in Fences' : \E i \in 1 .. n - 1 : stream'[i].kind = "fence" /\ stream'[i].frame = g
    <3>1. /\ Fences' \subseteq 0 .. MaxFrames
          /\ \A i \in 1 .. Len(stream') : stream'[i].kind = "fence" => stream'[i].frame \in Fences'
          /\ \A g \in Fences' : \E i \in 1 .. Len(stream') : stream'[i].kind = "fence" /\ stream'[i].frame = g
      BY <1>1, FencesAfter
    <3> QED
      BY <1>1, <3>1
  <2> QED
    BY <1>1, <2>1
<1>5. ASSUME NEW g \in Fences
      PROVE  g \in Fences' \/ (first.kind = "fence" /\ g = first.frame)
  <2>1. PICK i \in 1 .. n : stream[i].kind = "fence" /\ stream[i].frame = g
    BY <1>3
  <2>2. CASE i = 1
    BY <2>1, <2>2
  <2>3. CASE i # 1
    <3>1. i - 1 \in 1 .. n - 1 /\ (i - 1) + 1 = i
      BY <1>1, <2>3
    <3>2. PICK j \in 1 .. n - 1 : j + 1 = i
      BY <3>1
    <3>3. stream[j + 1].kind = "fence" /\ stream[j + 1].frame = g
      BY <2>1, <3>2
    <3>4. g \in Fences'
      BY <1>4, <3>2, <3>3
    <3> QED
      BY <3>4
  <2> QED
    BY <2>2, <2>3
<1>6. Fences' \subseteq Fences
  <2> SUFFICES ASSUME NEW g \in Fences' PROVE g \in Fences
    OBVIOUS
  <2>1. PICK i \in 1 .. n - 1 : stream[i + 1].kind = "fence" /\ stream[i + 1].frame = g
    BY <1>4
  <2>2. i + 1 \in 1 .. n
    BY <1>1
  <2> QED
    BY <1>3, <2>1, <2>2
<1>7. ASSUME first.kind = "fence", NEW g \in Fences'
      PROVE  first.frame < g
  <2>1. PICK i \in 1 .. n - 1 : stream[i + 1].kind = "fence" /\ stream[i + 1].frame = g
    BY <1>4
  <2>2. 1 \in 1 .. n /\ i + 1 \in 1 .. n /\ 1 < i + 1
    BY <1>1
  <2> QED
    BY <1>7, <2>1, <2>2 DEF StreamInv, InOrder, Numbered
<1>8. first.kind = "fence" => first.frame \in Fences
  BY <1>1, <1>3
<1> HIDE DEF first
<1>9. CASE first.kind = "fence"
  <2>1. ASSUME NEW g \in Fences'
        PROVE  g \in Nat /\ first.frame < g /\ first.frame # g
    BY <1>2, <1>4, <1>7, <1>9, IpcStreamAssumption
  <2>2. Fences' = Fences \ {first.frame}
    BY <1>5, <1>6, <1>9, <2>1, Zenon
  <2>3. ASSUME NEW g \in Fences PROVE first.frame <= g
    <3>1. CASE g \in Fences'
      BY <1>2, <2>1, <3>1
    <3>2. CASE g = first.frame
      BY <1>2, <3>2
    <3> QED
      BY <1>5, <3>1, <3>2
  <2> QED
    BY <1>1, <1>8, <1>9, <2>2, <2>3
<1>10. CASE first.kind # "fence"
  <2>1. Fences' = Fences
    BY <1>5, <1>6, <1>10, Zenon
  <2> QED
    BY <1>1, <1>10, <2>1
<1> QED
  BY <1>9, <1>10

(* Sending a fence is Send, reading one is Receive, reading the error of a *)
(* reset is ReceiveLast; the other steps leave the FIFO alone.             *)
LEMMA ChannelStep ==
  ASSUME StreamInv, [Next]_vars
  PROVE  [Channel!Next]_<<Fences, commit, fence>>
<1> USE DEF hostVars, webVars
<1>1. TypeOK
  BY DEF StreamInv
<1>2. CASE SendFence
  <2>1. /\ committed \in 0 .. MaxFrames /\ Open /\ OpenFrame = committed
        /\ fence # Lost /\ Sends("fence", committed) /\ UNCHANGED <<commit, fence>>
    BY <1>1, <1>2 DEF SendFence, TypeOK, StreamInv, OpenIsLast, LostIsLast
  <2>2. Fences' = Fences \cup {committed}
    BY <1>1, <2>1, FencesAdded
  <2>3. commit < committed /\ \A g \in Fences : g < committed
    <3>1. stream \in Seq(Part) /\ Len(stream) \in Nat /\ (stream = <<>> <=> Len(stream) = 0)
      BY <1>1, LenProperties, EmptySeq DEF TypeOK
    <3>2. CASE stream = <<>>
      <4>1. Fences = {}
        BY <3>1, <3>2 DEF Fences
      <4> QED
        BY <2>1, <3>2, <4>1 DEF Open, OpenFrame, StreamInv, InOrder
    <3>3. CASE stream # <<>>
      <4> DEFINE n == Len(stream)
      <4>1. n \in 1 .. n /\ stream[n].kind = "commit" /\ stream[n].frame = committed
        BY <2>1, <3>1, <3>3 DEF Open, OpenFrame
      <4>2. commit < committed
        BY <4>1 DEF StreamInv, InOrder, Numbered
      <4>3. ASSUME NEW g \in Fences PROVE g < committed
        <5>1. PICK i \in 1 .. n : stream[i].kind = "fence" /\ stream[i].frame = g
          BY DEF Fences
        <5>2. i < n
          BY <3>1, <4>1, <5>1
        <5> QED
          BY <4>1, <5>1, <5>2 DEF StreamInv, InOrder, Numbered
      <4> QED
        BY <4>2, <4>3
    <3> QED
      BY <3>2, <3>3
  <2>4. committed \in 1 .. MaxFrames /\ committed > commit /\ \A g \in Fences : committed > g
    <3>1. commit \in Nat /\ committed \in Nat
      BY <1>1, IpcStreamAssumption DEF TypeOK
    <3> QED
      BY <2>1, <2>3, <3>1, IpcStreamAssumption
  <2>5. Channel!Send
    BY <2>1, <2>2, <2>4 DEF Channel!Send, Channel!Follows
  <2> QED
    BY <2>5 DEF Channel!Next
<1>3. CASE SendCommit \/ SendAllocation \/ SendHandle
  <2>1. \E kind \in {"commit", "allocation", "handle"}, f \in 0 .. MaxFrames : Sends(kind, f)
    BY <1>1, <1>3, IpcStreamAssumption DEF SendCommit, SendAllocation, SendHandle, TypeOK
  <2>2. UNCHANGED Fences
    BY <1>1, <2>1, FencesAdded
  <2> QED
    BY <1>3, <2>2 DEF SendCommit, SendAllocation, SendHandle
<1>4. CASE ReceiveFence
  <2>1. /\ Head(stream).frame \in Fences
        /\ \A g \in Fences : Head(stream).frame <= g
        /\ Fences' = Fences \ {Head(stream).frame}
    BY <1>4, FencesTaken DEF ReceiveFence
  <2>2. commit' = Head(stream).frame
    <3>1. 1 \in 1 .. Len(stream) /\ Head(stream) = stream[1]
      BY <1>1, <1>4, Taken DEF ReceiveFence
    <3> QED
      BY <1>4, <3>1 DEF ReceiveFence, StreamInv, FencesFollow
  <2>3. Channel!Receive
    BY <1>4, <2>1, <2>2 DEF ReceiveFence, Channel!Receive
  <2> QED
    BY <2>3 DEF Channel!Next
<1>5. CASE ReceiveError
  <2>1. Len(stream) = 0 /\ Fences = {} /\ Fences' = {}
    BY <1>5 DEF ReceiveError, AtEnd, Fences
  <2>2. commit < frame /\ frame <= committed /\ commit \in Nat /\ frame \in 0 .. MaxFrames
        /\ fence # Lost
    BY <1>1, <1>5, IpcStreamAssumption DEF ReceiveError, StreamInv, InOrder, LostIsLast, TypeOK
  <2>3. frame \in 1 .. MaxFrames /\ frame > commit
    BY <2>2, IpcStreamAssumption
  <2>4. Channel!ReceiveLast
    BY <1>5, <2>1, <2>2, <2>3 DEF ReceiveError, Channel!ReceiveLast, Channel!Follows
  <2> QED
    BY <2>4 DEF Channel!Next
<1>6. CASE (Callback \/ ReceiveHandle) /\ stream # <<>>
  <2>1. stream' = Tail(stream) /\ Head(stream).kind # "fence" /\ UNCHANGED <<commit, fence>>
    BY <1>6 DEF Callback, ReceiveHandle, AtEnd
  <2> QED
    BY <1>6, <2>1, FencesTaken
<1>7. CASE UNCHANGED <<stream, commit, fence>>
  BY <1>7 DEF Fences
<1> QED
  BY <1>2, <1>3, <1>4, <1>5, <1>6, <1>7 DEF Next, vars, FenceFails, HostSends, WebReads, WebExits,
     Callback, CallbackAtEnd, ReceiveNoFence, ReceiveHandle

(* A backend socket is the FIFO of commits with their fences that Ipc.tla  *)
(* takes it to be (sendMessage, sendFileDescriptor, receiveFileDescriptor  *)
(* and socketCallback of ipc.cpp).                                         *)
THEOREM StreamImplementsChannel == Spec => ImplementsChannel
<1>1. Init => Channel!Init
  <2> SUFFICES ASSUME Init PROVE Channel!Init
    OBVIOUS
  <2>1. Len(stream) = 0 /\ Fences = {}
    BY DEF Init, Fences
  <2> QED
    BY <2>1 DEF Init, Channel!Init
<1> QED
  BY <1>1, StreamStart, StreamStep, ChannelStep, PTL DEF Spec, ImplementsChannel, Channel!Spec
=============================================================================
