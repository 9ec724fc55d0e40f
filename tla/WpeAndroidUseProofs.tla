------------------------- MODULE WpeAndroidUseProofs -------------------------
(***************************************************************************)
(* Theorems about WpeAndroid: a buffer has one user at a time.  Web        *)
(* processes have one target each.                                         *)
(***************************************************************************)
EXTENDS WpeAndroidPageProofs

-----------------------------------------------------------------------------
(* Queues.                                                                 *)

(* A message at the end of a queue changes nothing before it.              *)
LEMMA AppendedLength ==
  ASSUME NEW S, NEW s \in Seq(S), NEW m, NEW r, r = Append(s, m)
  PROVE  /\ Len(s) \in Nat /\ Len(r) = Len(s) + 1
         /\ r[Len(r)] = m
         /\ \A i \in 1 .. Len(s) : r[i] = s[i]
  BY LenProperties, AppendProperties

(* So what the first messages of the queue are to each other stays.        *)
LEMMA AppendedBefore ==
  ASSUME NEW S, NEW s \in Seq(S), NEW m, NEW r, r = Append(s, m), NEW F, NEW M, NEW n \in 0 .. Len(s)
  PROVE  /\ Among(r, M, n) <=> Among(s, M, n)
         /\ Followed(r, F, M, n) <=> Followed(s, F, M, n)
         /\ NeverAfter(r, F, M, n) <=> NeverAfter(s, F, M, n)
<1>1. Len(s) \in Nat /\ \A i \in 1 .. Len(s) : r[i] = s[i]
  BY AppendedLength
<1>2. \A i \in Nat : \A j \in i + 1 .. n : j \in 1 .. Len(s) /\ r[j] = s[j]
  BY <1>1
<1>3. \A i \in 1 .. n : i \in Nat /\ i \in 1 .. Len(s) /\ r[i] = s[i]
  BY <1>1
<1> QED
  BY <1>2, <1>3 DEF Among, Followed, NeverAfter

(* In particular, which kinds are among them.                              *)
LEMMA AmongBefore ==
  ASSUME NEW S, NEW s \in Seq(S), NEW m, NEW r, r = Append(s, m), NEW M, NEW n \in 0 .. Len(s)
  PROVE  Among(r, M, n) <=> Among(s, M, n)
  BY AppendedBefore

(* What it adds.                                                           *)
LEMMA AmongAppended ==
  ASSUME NEW S, NEW s \in Seq(S), NEW m, NEW r, r = Append(s, m), NEW M
  PROVE  Among(r, M, Len(r)) <=> m \in M \/ Among(s, M, Len(s))
<1>1. /\ Len(s) \in Nat /\ Len(r) = Len(s) + 1 /\ r[Len(r)] = m
      /\ \A i \in 1 .. Len(s) : r[i] = s[i]
  BY AppendedLength
<1>2. /\ \A i \in 1 .. Len(r) : i \in 1 .. Len(s) \/ i = Len(r)
      /\ \A i \in 1 .. Len(s) : i \in 1 .. Len(r)
      /\ Len(r) \in 1 .. Len(r)
  BY <1>1
<1> QED
  BY <1>1, <1>2 DEF Among

(* A message at the end must not itself be one that is to be followed.     *)
LEMMA FollowedAppended ==
  ASSUME NEW S, NEW s \in Seq(S), NEW m, NEW r, r = Append(s, m), NEW F, NEW M
  PROVE  Followed(r, F, M, Len(r)) <=> m \notin F /\ (m \in M \/ Followed(s, F, M, Len(s)))
<1> DEFINE l == Len(s)
<1>1. l \in Nat /\ Len(r) = l + 1 /\ r[l + 1] = m /\ \A i \in 1 .. l : r[i] = s[i]
  BY AppendedLength
<1>2. l \in 0 .. l
  BY <1>1
<1>3. Followed(r, F, M, l) <=> Followed(s, F, M, l)
  BY <1>2, AppendedBefore
<1>4. /\ \A i \in 1 .. l + 1 : \A j \in i + 1 .. l + 1 : i \in 1 .. l /\ (j \in i + 1 .. l \/ j = l + 1)
      /\ \A i \in 1 .. l : /\ l + 1 \in i + 1 .. l + 1 /\ i \in 1 .. l + 1
                           /\ \A j \in i + 1 .. l : j \in i + 1 .. l + 1
      /\ l + 1 \in 1 .. l + 1 /\ \A i \in 1 .. l + 1 : i \in 1 .. l \/ i = l + 1
  BY <1>1
<1> HIDE DEF l
<1>5. ASSUME Followed(r, F, M, l + 1)
      PROVE  m \notin F /\ (m \in M \/ Followed(r, F, M, l))
  <2>1. m \notin F
    BY <1>1, <1>4, <1>5 DEF Followed
  <2>2. ASSUME m \notin M, NEW i \in 1 .. l, r[i] \in F
        PROVE  \E j \in i + 1 .. l : r[j] \in M
    <3>1. PICK j \in i + 1 .. l + 1 : r[j] \in M
      BY <1>4, <1>5, <2>2 DEF Followed
    <3> QED
      BY <1>1, <1>4, <2>2, <3>1
  <2> QED
    BY <2>1, <2>2 DEF Followed
<1>6. ASSUME m \notin F, m \in M \/ Followed(r, F, M, l), NEW i \in 1 .. l + 1, r[i] \in F
      PROVE  \E j \in i + 1 .. l + 1 : r[j] \in M
  <2>1. i \in 1 .. l
    BY <1>1, <1>4, <1>6
  <2>2. CASE m \in M
    BY <1>1, <1>4, <2>1, <2>2
  <2>3. CASE Followed(r, F, M, l)
    BY <1>4, <1>6, <2>1, <2>3 DEF Followed
  <2> QED
    BY <1>6, <2>2, <2>3
<1>7. Followed(r, F, M, l + 1) <=> m \notin F /\ (m \in M \/ Followed(r, F, M, l))
  BY <1>5, <1>6 DEF Followed
<1> QED
  BY <1>1, <1>3, <1>7 DEF l

(* The same for what a target sends.                                       *)
LEMMA FollowedSent ==
  ASSUME NEW s \in Seq(HostMessage), NEW m, NEW F, NEW M
  PROVE  LET r == Append(s, m)
         IN  Followed(r, F, M, Len(r)) <=> m \notin F /\ (m \in M \/ Followed(s, F, M, Len(s)))
<1> DEFINE r == Append(s, m)
<1>1. r = Append(s, m)
  OBVIOUS
<1> HIDE DEF r
<1>2. ASSUME Followed(r, F, M, Len(r))
      PROVE  m \notin F /\ (m \in M \/ Followed(s, F, M, Len(s)))
  BY ONLY s \in Seq(HostMessage), <1>1, <1>2, FollowedAppended
<1>3. ASSUME m \notin F, m \in M \/ Followed(s, F, M, Len(s))
      PROVE  Followed(r, F, M, Len(r))
  BY ONLY s \in Seq(HostMessage), <1>1, <1>3, FollowedAppended
<1> QED
  BY <1>2, <1>3 DEF r

(* A message at the end comes after all others.                            *)
LEMMA NeverAppended ==
  ASSUME NEW S, NEW s \in Seq(S), NEW m, NEW r, r = Append(s, m), NEW F, NEW M
  PROVE  NeverAfter(r, F, M, Len(r)) <=>
           NeverAfter(s, F, M, Len(s)) /\ (m \in M => ~Among(s, F, Len(s)))
<1> DEFINE l == Len(s)
<1>1. l \in Nat /\ Len(r) = l + 1 /\ r[l + 1] = m /\ \A i \in 1 .. l : r[i] = s[i]
  BY AppendedLength
<1>2. l \in 0 .. l
  BY <1>1
<1>3. NeverAfter(r, F, M, l) <=> NeverAfter(s, F, M, l)
  BY <1>2, AppendedBefore
<1>4. /\ \A i \in 1 .. l + 1 : \A j \in i + 1 .. l + 1 : i \in 1 .. l /\ (j \in i + 1 .. l \/ j = l + 1)
      /\ \A i \in 1 .. l : /\ l + 1 \in i + 1 .. l + 1 /\ i \in 1 .. l + 1
                           /\ \A j \in i + 1 .. l : j \in i + 1 .. l + 1
  BY <1>1
<1> HIDE DEF l
<1>5. ASSUME NeverAfter(r, F, M, l + 1)
      PROVE  NeverAfter(r, F, M, l) /\ (m \in M => ~Among(s, F, l))
  BY <1>1, <1>4, <1>5 DEF NeverAfter, Among
<1>6. ASSUME NeverAfter(r, F, M, l), m \in M => ~Among(s, F, l),
             NEW i \in 1 .. l + 1, r[i] \in F, NEW j \in i + 1 .. l + 1
      PROVE  r[j] \notin M
  BY <1>1, <1>4, <1>6 DEF NeverAfter, Among
<1>7. NeverAfter(r, F, M, l + 1) <=> NeverAfter(r, F, M, l) /\ (m \in M => ~Among(s, F, l))
  BY <1>5, <1>6 DEF NeverAfter
<1> QED
  BY <1>1, <1>3, <1>7 DEF l

(* What reading its first message changes.                                 *)
LEMMA ReadLength ==
  ASSUME NEW S, NEW s \in Seq(S), s # <<>>, NEW r, r = Tail(s)
  PROVE  /\ Len(r) \in Nat /\ Len(s) = Len(r) + 1
         /\ s[1] = Head(s)
         /\ \A i \in 1 .. Len(r) : r[i] = s[i + 1]
  BY LenProperties, HeadTailProperties, EmptySeq

(* Without its first message, a queue has the kinds of the rest.           *)
LEMMA AmongRead ==
  ASSUME NEW S, NEW s \in Seq(S), s # <<>>, NEW r, r = Tail(s), NEW M, NEW n \in 0 .. Len(r)
  PROVE  Among(s, M, n + 1) <=> Head(s) \in M \/ Among(r, M, n)
<1>1. /\ Len(r) \in Nat /\ Len(s) = Len(r) + 1 /\ s[1] = Head(s)
      /\ \A i \in 1 .. Len(r) : r[i] = s[i + 1]
  BY ReadLength
<1>2. /\ 1 \in 1 .. n + 1
      /\ \A i \in 1 .. n + 1 : i = 1 \/ (i - 1 \in 1 .. n /\ i = (i - 1) + 1)
      /\ \A j \in 1 .. n : j + 1 \in 1 .. n + 1 /\ r[j] = s[j + 1]
  BY <1>1
<1> QED
  BY <1>1, <1>2 DEF Among

(* The first message comes before all others.                              *)
LEMMA FollowedRead ==
  ASSUME NEW S, NEW s \in Seq(S), s # <<>>, NEW r, r = Tail(s), NEW F, NEW M, NEW n \in 0 .. Len(r)
  PROVE  /\ Followed(s, F, M, n + 1) <=> Followed(r, F, M, n) /\ (Head(s) \in F => Among(r, M, n))
         /\ NeverAfter(s, F, M, n + 1) <=> NeverAfter(r, F, M, n) /\ (Head(s) \in F => ~Among(r, M, n))
<1>1. /\ Len(r) \in Nat /\ Len(s) = Len(r) + 1 /\ s[1] = Head(s)
      /\ \A i \in 1 .. Len(r) : r[i] = s[i + 1]
  BY ReadLength
<1>2. /\ 1 \in 1 .. n + 1
      /\ \A i \in 1 .. n + 1 : i = 1 \/ (i - 1 \in 1 .. n /\ i = (i - 1) + 1)
      /\ \A j \in 1 .. n : j + 1 \in 1 .. n + 1 /\ j + 1 \in 1 + 1 .. n + 1 /\ r[j] = s[j + 1]
      /\ \A i \in 1 .. n : \A j \in i + 1 .. n : j + 1 \in (i + 1) + 1 .. n + 1 /\ r[j] = s[j + 1]
  BY <1>1
<1>3. /\ \A i \in 1 .. n : \A k \in (i + 1) + 1 .. n + 1 :
           k - 1 \in i + 1 .. n /\ k = (k - 1) + 1 /\ r[k - 1] = s[k]
      /\ \A k \in 1 + 1 .. n + 1 : k - 1 \in 1 .. n /\ k = (k - 1) + 1 /\ r[k - 1] = s[k]
  BY <1>1
<1>4. (\E k \in 1 + 1 .. n + 1 : s[k] \in M) <=> Among(r, M, n)
  BY <1>2, <1>3 DEF Among
<1>5. \A i \in 1 .. n : (\E k \in (i + 1) + 1 .. n + 1 : s[k] \in M) <=> (\E j \in i + 1 .. n : r[j] \in M)
  BY <1>2, <1>3
<1>6. /\ (\A k \in 1 + 1 .. n + 1 : s[k] \notin M) <=> ~Among(r, M, n)
      /\ \A i \in 1 .. n : (\A k \in (i + 1) + 1 .. n + 1 : s[k] \notin M) <=> (\A j \in i + 1 .. n : r[j] \notin M)
  BY <1>4, <1>5
<1>7. \A i \in 1 .. n + 1 : i = 1 \/ \E j \in 1 .. n : i = j + 1
  BY <1>2
<1>8. Followed(s, F, M, n + 1) <=> Followed(r, F, M, n) /\ (Head(s) \in F => Among(r, M, n))
  <2>1. \A i \in 1 .. n : i + 1 \in 1 .. n + 1 /\ s[i + 1] = r[i]
    BY <1>1
  <2>2. ASSUME Followed(s, F, M, n + 1)
        PROVE  Followed(r, F, M, n) /\ (Head(s) \in F => Among(r, M, n))
    BY ONLY <1>1, <1>2, <1>4, <1>5, <2>1, <2>2 DEF Followed
  <2>3. ASSUME Followed(r, F, M, n), Head(s) \in F => Among(r, M, n)
        PROVE  Followed(s, F, M, n + 1)
    <3> SUFFICES ASSUME NEW i \in 1 .. n + 1, s[i] \in F
                 PROVE  \E k \in i + 1 .. n + 1 : s[k] \in M
      BY DEF Followed
    <3>1. CASE i = 1
      BY ONLY <1>1, <1>4, <2>3, <3>1, s[i] \in F
    <3>2. CASE i # 1
      <4>1. PICK j \in 1 .. n : i = j + 1
        BY <1>7, <3>2
      <4>2. \E k \in j + 1 .. n : r[k] \in M
        BY ONLY <2>1, <2>3, <4>1, s[i] \in F DEF Followed
      <4> QED
        BY <1>5, <4>1, <4>2
    <3> QED
      BY <3>1, <3>2
  <2> QED
    BY <2>2, <2>3
<1>9. NeverAfter(s, F, M, n + 1) <=> NeverAfter(r, F, M, n) /\ (Head(s) \in F => ~Among(r, M, n))
  <2>1. \A i \in 1 .. n : i + 1 \in 1 .. n + 1 /\ s[i + 1] = r[i]
    BY <1>1
  <2>2. ASSUME NeverAfter(s, F, M, n + 1)
        PROVE  NeverAfter(r, F, M, n) /\ (Head(s) \in F => ~Among(r, M, n))
    BY ONLY <1>1, <1>2, <1>6, <2>1, <2>2 DEF NeverAfter
  <2>3. ASSUME NeverAfter(r, F, M, n), Head(s) \in F => ~Among(r, M, n)
        PROVE  NeverAfter(s, F, M, n + 1)
    BY ONLY <1>1, <1>6, <1>7, <2>1, <2>3 DEF NeverAfter
  <2> QED
    BY <2>2, <2>3
<1> QED
  BY <1>8, <1>9

-----------------------------------------------------------------------------
(* What messages do to slots, and steps to buffers.                        *)

(* Which messages are which.                                               *)
LEMMA MessageKinds ==
  ASSUME NEW p \in PoolIDs, NEW b \in Slots, NEW o \in Objects, NEW c \in Slots, NEW x \in Objects
  PROVE  /\ PoolPurgeMsg(p) \in Purges
         /\ PoolPurgeMsg(p) \notin Allocations(c) \cup Commits(c) \cup Carrying(x)
         /\ BufferAllocationMsg(p, b, o) \notin Purges \cup Commits(c)
         /\ BufferAllocationMsg(p, b, o) \in Allocations(c) <=> c = b
         /\ BufferAllocationMsg(p, b, o) \in Carrying(x) <=> x = o
         /\ BufferCommitMsg(p, b) \notin Purges \cup Allocations(c) \cup Carrying(x)
         /\ BufferCommitMsg(p, b) \in Commits(c) <=> c = b
<1>1. /\ PoolPurgeMsg(p) \in HostMessage /\ PoolPurgeMsg(p).code = "PoolPurge"
      /\ BufferAllocationMsg(p, b, o) \in HostMessage /\ BufferAllocationMsg(p, b, o).code = "BufferAllocation"
      /\ BufferAllocationMsg(p, b, o).bufferID = b /\ BufferAllocationMsg(p, b, o).object = o
      /\ BufferCommitMsg(p, b) \in HostMessage /\ BufferCommitMsg(p, b).code = "BufferCommit"
      /\ BufferCommitMsg(p, b).bufferID = b
  BY MessageTypes DEF PoolPurgeMsg, BufferAllocationMsg, BufferCommitMsg
<1> QED
  BY <1>1 DEF Purges, Allocations, Commits, Carrying

(* What a proxy makes of its next message, which is one of these.          *)
LEMMA ProxyMessage ==
  ASSUME HeapInv, NEW w \in Processes, ProxyStep(w)
  PROVE  LET m == Head(toHost[w])
         IN  /\ m \in HostMessage /\ toHost[w] # <<>> /\ toHost[w] \in Seq(HostMessage)
             /\ toHost' = [toHost EXCEPT ![w] = Tail(toHost[w])]
             /\ ConstructPool(w) => m.code = "PoolConstruction"
             /\ PurgePool(w) => m \in Purges
             /\ BufferAllocation(w) => m \in Allocations(m.bufferID) \cap Carrying(m.object)
             /\ CommitToView(w) \/ CommitWithoutView(w) => m \in Commits(m.bufferID)
             /\ ~ConstructPool(w) => m.poolID \in PoolIDs
             /\ BufferAllocation(w) => m.bufferID \in Slots /\ m.object \in Objects
             /\ CommitToView(w) \/ CommitWithoutView(w) => m.bufferID \in Slots
<1> DEFINE m == Head(toHost[w])
<1>1. /\ toHost \in [Processes -> Seq(HostMessage)]
      /\ toHost[w] # <<>> /\ toHost' = Received(toHost, w)
  BY DEF HeapInv, TypeOK, IpcTypeOK, ProxyStep, ConstructPool, PurgePool, BufferAllocation, CommitToView,
     CommitWithoutView, Reads, Done
<1>2. m \in HostMessage
  BY <1>1, QueueType
<1>3. toHost' = [toHost EXCEPT ![w] = Tail(toHost[w])]
  BY <1>1 DEF Received
<1>4. /\ ConstructPool(w) => m.code = "PoolConstruction"
      /\ PurgePool(w) => m.code = "PoolPurge"
      /\ BufferAllocation(w) => m.code = "BufferAllocation"
      /\ CommitToView(w) \/ CommitWithoutView(w) => m.code = "BufferCommit"
  BY DEF ConstructPool, PurgePool, BufferAllocation, CommitToView, CommitWithoutView, Reads
<1> HIDE DEF m
<1>5. /\ m.code # "PoolConstruction" => m.poolID \in PoolIDs
      /\ m.code \in {"BufferAllocation", "BufferCommit"} => m.bufferID \in Slots
      /\ m.code = "BufferAllocation" => m.object \in Objects
  BY <1>2, HostMessageFields
<1>6. ~ConstructPool(w) => m.poolID \in PoolIDs
  BY <1>4, <1>5 DEF ProxyStep
<1>7. /\ PurgePool(w) => m \in Purges
      /\ BufferAllocation(w) => m \in Allocations(m.bufferID) \cap Carrying(m.object)
      /\ CommitToView(w) \/ CommitWithoutView(w) => m \in Commits(m.bufferID)
  BY <1>2, <1>4 DEF Purges, Allocations, Commits, Carrying
<1>8. /\ BufferAllocation(w) => m.bufferID \in Slots /\ m.object \in Objects
      /\ CommitToView(w) \/ CommitWithoutView(w) => m.bufferID \in Slots
  BY <1>4, <1>5
<1> QED
  BY <1>1, <1>2, <1>3, <1>4, <1>6, <1>7, <1>8 DEF m

(* A buffer that is back stays so until it is committed.                   *)
LEMMA BackKept ==
  ASSUME HeapInv, [Next]_vars, NEW o \in Objects, Back(o),
         \A w \in Processes : CommitToView(w) =>
           poolBuffers[Head(toHost[w]).poolID][Head(toHost[w]).bufferID] # o
  PROVE  Back(o)'
<1>1. TypeOK /\ held \in [Views -> Seq(Objects)]
  BY DEF HeapInv, TypeOK, HostTypeOK
<1>2. CASE UNCHANGED hostBuffer /\ (UNCHANGED held \/ \E v \in Views : held' = [held EXCEPT ![v] = <<>>])
  <2>1. \A v \in Views : HeldBy(v, o)' => HeldBy(v, o)
    <3>1. \A v \in Views : held'[v] = held[v] \/ held'[v] = <<>>
      BY <1>1, <1>2
    <3> QED
      BY <3>1, EmptyQueue DEF HeldBy
  <2> QED
    BY <1>2, <2>1 DEF Back
<1>3. CASE \E w \in Processes : ProxyStep(w)
  <2>1. PICK w \in Processes : ProxyStep(w)
    BY <1>3
  <2>2. \A v \in Views : HeldBy(v, o)' => HeldBy(v, o)
    <3>1. CASE CommitToView(w)
      BY <3>1, HeldAfterCommit
    <3>2. CASE ~CommitToView(w)
      BY <2>1, <3>2 DEF HeldBy, ProxyStep, ConstructPool, PurgePool, BufferAllocation, CommitWithoutView, appVars
    <3> QED
      BY <3>1, <3>2
  <2>3. hostBuffer'[o] # None => ~hostBuffer'[o].locked
    <3>1. CASE CommitToView(w)
      BY <3>1, HeldAfterCommit DEF Back
    <3>2. CASE ~CommitToView(w)
      BY <2>1, <3>2, ProxyBuffers DEF Back
    <3> QED
      BY <3>1, <3>2
  <2> QED
    BY <2>2, <2>3 DEF Back
<1>4. CASE \E v \in Views : ReleaseStep(v)
  <2>1. PICK v \in Views : \E i \in 1 .. Len(held[v]) : DispatchReleaseBuffer(v, i)
    BY <1>4 DEF ReleaseStep
  <2>2. PICK i \in 1 .. Len(held[v]) : DispatchReleaseBuffer(v, i)
    BY <2>1
  <2>3. held[v][i] # o
    BY DEF Back, HeldBy
  <2>4. held[v][i] \in Objects /\ ReleaseBuffer(held[v][i]) /\ \A u \in Views : HeldBy(u, o)' <=> HeldBy(u, o)
    BY <1>1, <2>2, <2>3, HeldAfterRelease
  <2>5. hostBuffer'[o] = hostBuffer[o]
    BY <2>3, <2>4, ReleasedBuffers
  <2> QED
    BY <2>4, <2>5 DEF Back
<1> QED
  BY <1>2, <1>3, <1>4 DEF Next, HandleWebMessage, WebExits, CreateClient, Poll, CreateView, HandleViewMessage,
     DestroyView, DispatchFrameComplete, FrameComplete, WebFrame, HostFrame, ViewFrame, hostVars, appVars, vars

-----------------------------------------------------------------------------
(* The invariant of one target.                                            *)

(* The pool of an answered target is its process's, and has Objects.       *)
LEMMA PoolOf ==
  ASSUME TypeOK, NEW t \in Targets
  PROVE  /\ ProcessOf[t] \in Processes /\ ViewOf[t] \in Views
         /\ poolID[t] \in PoolIDs
         /\ Sent(t) \in Seq(HostMessage) /\ Unread(t) \in Nat
         /\ \A b \in Slots : /\ InPool(t, b) \in Objects \cup {None}
                             /\ object[t][b] \in Objects \cup {None}
                             /\ locked[t][b] \in BOOLEAN
         /\ current[t] \in Slots \cup {None}
         /\ None \notin Objects /\ None \notin Slots
<1>1. Sent(t) \in Seq(HostMessage)
  BY IpcAssumption DEF TypeOK, IpcTypeOK, Sent
<1>2. Unread(t) \in Nat
  BY <1>1, LenProperties DEF Unread
<1> QED
  BY <1>1, <1>2, IpcAssumption DEF TypeOK, WebTypeOK, HostTypeOK, InPool

(* Steps that leave the messages and the pool of a target alone.           *)
LEMMA UseFrame ==
  ASSUME TypeOK, NEW t \in Targets, UseOf(t), UNCHANGED <<poolID[t], Sent(t)>>,
         poolBuffers'[poolID[t]] = poolBuffers[poolID[t]],
         Live(t)' => Live(t) /\ object'[t] = object[t],
         \A b \in Slots, o \in Objects : InSlot(t, b, o)' =>
           /\ InSlot(t, b, o)
           /\ hostBuffer'[o] # None => hostBuffer[o] # None
           /\ locked'[t][b] \/ ~locked[t][b] \/ Returned(t, b, o),
         \A o \in Objects : Back(o) => Back(o)' \/ \A b \in Slots : InPool(t, b) # o /\ ~InSlot(t, b, o)
  PROVE  UseOf(t)'
<1>1. PICK s : s = Sent(t) /\ s = Sent(t)'
  OBVIOUS
<1>2. Unread(t) = Len(s) /\ Unread(t)' = Len(s)
  BY <1>1 DEF Unread
<1>3. \A b \in Slots : InPool(t, b)' = InPool(t, b) /\ InPool(t, b) \in Objects \cup {None}
  BY PoolOf DEF InPool
<1>4. SlotsAgree(t)'
  BY <1>1, <1>2, <1>3 DEF UseOf, SlotsAgree, Emptied
<1>5. NewestLast(t)'
  BY <1>1, <1>2 DEF UseOf, NewestLast
<1>6. AllocatesEmpty(t)'
  BY <1>1, <1>2, <1>3 DEF UseOf, AllocatesEmpty, Emptied
<1>7. CommittedOnce(t)'
  <2> SUFFICES ASSUME NEW b \in Slots, NEW k \in 1 .. Len(s), s[k] \in Commits(b)
               PROVE  /\ Followed(s, Commits(b), Refills(b), k - 1)
                      /\ InPool(t, b) # None => Back(InPool(t, b))' \/ Among(s, Refills(b), k - 1)
    BY <1>1, <1>2, <1>3 DEF CommittedOnce, Back, HeldBy, InPool
  <2>1. /\ Followed(s, Commits(b), Refills(b), k - 1)
        /\ InPool(t, b) # None => Back(InPool(t, b)) \/ Among(s, Refills(b), k - 1)
    BY <1>1, <1>2 DEF UseOf, CommittedOnce
  <2>2. ASSUME InPool(t, b) # None, Back(InPool(t, b))
        PROVE  Back(InPool(t, b))'
    <3>1. PICK o \in Objects : o = InPool(t, b)
      BY <1>3, <2>2
    <3>2. Back(o)'
      BY <2>2, <3>1
    <3> QED
      BY <1>3, <3>1, <3>2 DEF Back, HeldBy
  <2> QED
    BY <2>1, <2>2
<1>8. UnlockedReturned(t)'
  <2> SUFFICES ASSUME NEW b \in Slots, NEW o \in Objects, InSlot(t, b, o)', ~locked'[t][b]
               PROVE  Back(o)' /\ Followed(s, Commits(b), Refills(b), Len(s))
    BY <1>1, <1>2 DEF UnlockedReturned, Returned
  <2>1. InSlot(t, b, o) /\ Returned(t, b, o)
    BY DEF UseOf, UnlockedReturned
  <2> QED
    BY <1>1, <1>2, <2>1 DEF Returned
<1> QED
  BY <1>4, <1>5, <1>6, <1>7, <1>8 DEF UseOf

(* What a message from the target has to meet.                             *)
LEMMA AppendedKeeps ==
  ASSUME TypeOK, NEW t \in Targets, UseOf(t), UNCHANGED <<poolID, poolBuffers, hostBuffer, held>>,
         NEW m, Sent(t)' = Append(Sent(t), m),
         \A b \in Slots : m \in Allocations(b) => Emptied(t, b, Unread(t)),
         \A b \in Slots : m \in Commits(b) =>
           /\ Followed(Sent(t), Commits(b), Refills(b), Unread(t))
           /\ InPool(t, b) # None => Back(InPool(t, b)) \/ Among(Sent(t), Refills(b), Unread(t))
  PROVE  AllocatesEmpty(t)' /\ CommittedOnce(t)'
<1>1. PICK s, r : s \in Seq(HostMessage) /\ s = Sent(t) /\ r = Sent(t)' /\ r = Append(s, m)
  BY PoolOf
<1>2. /\ Unread(t) = Len(s) /\ Unread(t)' = Len(r) /\ Len(r) = Len(s) + 1 /\ Len(s) \in Nat
      /\ r[Len(r)] = m /\ \A i \in 1 .. Len(s) : r[i] = s[i]
  BY <1>1, AppendedLength DEF Unread
<1>3. \A k \in 1 .. Len(r) : k - 1 \in 0 .. Len(s) /\ ((k = Len(r) /\ k - 1 = Len(s)) \/ k \in 1 .. Len(s))
  BY <1>2
<1>4. \A b \in Slots : InPool(t, b)' = InPool(t, b) /\ (Back(InPool(t, b)) <=> Back(InPool(t, b))')
  BY DEF InPool, Back, HeldBy
<1>5. ASSUME NEW F, NEW M, NEW n \in 0 .. Len(s)
      PROVE  /\ Followed(r, F, M, n) <=> Followed(s, F, M, n)
             /\ Among(r, M, n) <=> Among(s, M, n)
  BY <1>1, AppendedBefore, AmongBefore
<1>6. ASSUME NEW b \in Slots, NEW k \in 1 .. Len(r), r[k] \in Allocations(b)
      PROVE  Emptied(t, b, k - 1)'
  <2>1. Emptied(t, b, k - 1)
    <3>1. CASE k \in 1 .. Len(s)
      BY <1>1, <1>2, <1>6, <3>1 DEF UseOf, AllocatesEmpty
    <3>2. CASE k = Len(r) /\ k - 1 = Len(s)
      BY <1>2, <1>6, <3>2
    <3> QED
      BY <1>3, <3>1, <3>2
  <2> QED
    BY <1>1, <1>3, <1>4, <1>5, <2>1 DEF Emptied
<1>7. ASSUME NEW b \in Slots, NEW k \in 1 .. Len(r), r[k] \in Commits(b)
      PROVE  /\ Followed(r, Commits(b), Refills(b), k - 1)
             /\ InPool(t, b)' # None => Back(InPool(t, b))' \/ Among(r, Refills(b), k - 1)
  <2>1. /\ Followed(s, Commits(b), Refills(b), k - 1)
        /\ InPool(t, b) # None => Back(InPool(t, b)) \/ Among(s, Refills(b), k - 1)
    <3>1. CASE k \in 1 .. Len(s)
      BY <1>1, <1>2, <1>7, <3>1 DEF UseOf, CommittedOnce
    <3>2. CASE k = Len(r) /\ k - 1 = Len(s)
      BY <1>1, <1>2, <1>7, <3>2
    <3> QED
      BY <1>3, <3>1, <3>2
  <2> QED
    BY <1>3, <1>4, <1>5, <2>1
<1>8. AllocatesEmpty(t)'
  BY <1>1, <1>2, <1>6 DEF AllocatesEmpty
<1>9. CommittedOnce(t)'
  BY <1>1, <1>2, <1>7 DEF CommittedOnce
<1> QED
  BY <1>8, <1>9

(* The target itself.                                                      *)
LEMMA TargetUse ==
  ASSUME OneTargetPerProcess, HandleInv, DrawsUnlocked, NEW t \in Targets, ~Young(t), UseOf(t),
         TargetStep(t), WebFrame
  PROVE  UseOf(t)'
<1> DEFINE w == ProcessOf[t]
           p == poolID[t]
<1>1. /\ TypeOK /\ HeapInv /\ w \in Processes /\ p \in PoolIDs
      /\ phase \in [Targets -> Phases]
      /\ locked \in [Targets -> [Slots -> BOOLEAN]]
      /\ object \in [Targets -> [Slots -> Objects \cup {None}]]
      /\ toHost \in [Processes -> Seq(HostMessage)] /\ webUp \in [Processes -> BOOLEAN]
      /\ None \notin Objects /\ None \notin Slots
  BY PoolOf DEF HandleInv, PageInv, MapInv, HeapInv, TypeOK, IpcTypeOK, WebTypeOK
<1>2. UNCHANGED <<poolBuffers, hostBuffer, held>>
  BY DEF WebFrame, hostVars, appVars
<1>3. /\ \A b \in Slots : InPool(t, b) \in Objects \cup {None}
      /\ current[t] \in Slots \cup {None} /\ Unread(t) \in Nat /\ Sent(t) \in Seq(HostMessage)
  BY <1>1, PoolOf
<1>4. \A o : Back(o)' <=> Back(o)
  BY <1>2 DEF Back, HeldBy
<1>5. ASSUME NEW m, SendToHost(w, m)
      PROVE  Sent(t)' = Append(Sent(t), m)
  BY <1>1, <1>5 DEF SendToHost, Sent
<1>6. CASE Resize(t)
  <2>1. /\ UNCHANGED poolID /\ \A b \in Slots : object'[t][b] = None
        /\ Sent(t)' = Append(Sent(t), PoolPurgeMsg(p))
    BY <1>1, <1>5, <1>6 DEF Resize, DestroyBufferPool
  <2>2. \A b \in Slots : PoolPurgeMsg(p) \notin Allocations(b) \cup Commits(b) /\ PoolPurgeMsg(p) \in Purges
    <3>1. PoolPurgeMsg(p) \in HostMessage /\ PoolPurgeMsg(p).code = "PoolPurge"
      BY <1>1, MessageTypes DEF PoolPurgeMsg
    <3> QED
      BY <3>1 DEF Purges, Allocations, Commits
  <2>3. AllocatesEmpty(t)' /\ CommittedOnce(t)'
    BY <1>1, <1>2, <2>1, <2>2, AppendedKeeps
  <2>4. NewestLast(t)' /\ UnlockedReturned(t)'
    BY <1>1, <2>1 DEF NewestLast, UnlockedReturned, InSlot
  <2>5. SlotsAgree(t)'
    <3> SUFFICES ASSUME NEW b \in Slots PROVE Emptied(t, b, Unread(t))'
      BY <2>1 DEF SlotsAgree
    <3>1. PICK s, r : /\ s \in Seq(HostMessage) /\ s = Sent(t) /\ r = Sent(t)' /\ r = Append(s, PoolPurgeMsg(p))
                      /\ Unread(t)' = Len(r)
      BY <1>3, <2>1 DEF Unread
    <3>2. ASSUME NEW F, NEW M, PoolPurgeMsg(p) \notin F, PoolPurgeMsg(p) \in M
          PROVE  Followed(r, F, M, Len(r))
      BY ONLY <3>1, <3>2, FollowedSent
    <3>3. ASSUME NEW M, PoolPurgeMsg(p) \in M
          PROVE  Among(r, M, Len(r))
      BY ONLY <3>1, <3>3, AmongAppended
    <3>4. Followed(r, Allocations(b), Purges, Len(r)) /\ Among(r, Purges, Len(r))
      BY <2>2, <3>2, <3>3
    <3> QED
      BY <3>1, <3>4 DEF Emptied
  <2> QED
    BY <2>3, <2>4, <2>5 DEF UseOf
<1>7. CASE \E b \in Slots, o \in Objects : Unreferenced(o) /\ FrameAllocates(t, b, o)
  <2>1. PICK b \in Slots, o \in Objects : Unreferenced(o) /\ FrameAllocates(t, b, o)
    BY <1>7
  <2> DEFINE m == BufferAllocationMsg(p, b, o)
  <2>2. /\ UNCHANGED <<poolID, phase, locked, webUp>> /\ object' = [object EXCEPT ![t][b] = o]
        /\ Sent(t)' = Append(Sent(t), m)
        /\ object[t][b] = None /\ ~locked[t][b] /\ Live(t)
    BY <1>5, <2>1 DEF FrameAllocates, FirstUnlocked, CanRender, Callable, InEventLoop, Live
  <2>3. /\ m \notin Purges
        /\ \A c \in Slots : (m \in Allocations(c) <=> c = b) /\ m \notin Commits(c)
        /\ \A x \in Objects : m \in Carrying(x) <=> x = o
    BY <1>1, MessageKinds
  <2> HIDE DEF m
  <2>4. Emptied(t, b, Unread(t))
    BY <2>2 DEF UseOf, SlotsAgree
  <2>5. AllocatesEmpty(t)' /\ CommittedOnce(t)'
    BY <1>1, <1>2, <2>2, <2>3, <2>4, AppendedKeeps
  <2>6. PICK s, r : /\ s \in Seq(HostMessage) /\ s = Sent(t) /\ r = Sent(t)' /\ r = Append(s, m)
                    /\ Unread(t) = Len(s) /\ Unread(t)' = Len(r)
    BY <1>3, <2>2 DEF Unread
  <2>20. ASSUME NEW F, NEW M
         PROVE  Followed(r, F, M, Len(r)) <=> m \notin F /\ (m \in M \/ Followed(s, F, M, Len(s)))
    BY ONLY <2>6, FollowedSent
  <2>21. ASSUME NEW F, NEW M
         PROVE  NeverAfter(r, F, M, Len(r)) <=> NeverAfter(s, F, M, Len(s)) /\ (m \in M => ~Among(s, F, Len(s)))
    BY ONLY <2>6, NeverAppended
  <2>22. ASSUME NEW M
         PROVE  Among(r, M, Len(r)) <=> m \in M \/ Among(s, M, Len(s))
    BY ONLY <2>6, AmongAppended
  <2>7. ASSUME NEW c \in Slots
        PROVE  /\ c = b => object'[t][c] = o
               /\ c # b => object'[t][c] = object[t][c]
               /\ InPool(t, c)' = InPool(t, c)
    BY <1>1, <1>2, <2>2 DEF InPool
  <2>8. SlotsAgree(t)'
    <3>1. ASSUME NEW c \in Slots, c # b, object[t][c] = None
          PROVE  Emptied(t, c, Unread(t))'
      <4>1. Emptied(t, c, Len(s))
        BY <2>2, <2>6, <3>1 DEF UseOf, SlotsAgree
      <4>2. Followed(r, Allocations(c), Purges, Len(r))
        BY <2>3, <2>6, <3>1, <4>1, <2>20 DEF Emptied
      <4>3. InPool(t, c) = None \/ Among(r, Purges, Len(r))
        BY <2>6, <4>1, <2>22 DEF Emptied
      <4> QED
        BY <2>6, <2>7, <4>2, <4>3 DEF Emptied
    <3>2. ASSUME NEW c \in Slots, c # b, object[t][c] # None
          PROVE  /\ Followed(r, Allocations(c) \ Carrying(object[t][c]), Refills(c), Len(r))
                 /\ InPool(t, c) \in {None, object[t][c]} \/ Among(r, Refills(c), Len(r))
      <4>1. /\ Followed(s, Allocations(c) \ Carrying(object[t][c]), Refills(c), Len(s))
            /\ InPool(t, c) \in {None, object[t][c]} \/ Among(s, Refills(c), Len(s))
        BY <2>2, <2>6, <3>2 DEF UseOf, SlotsAgree
      <4>2. m \notin Allocations(c) \ Carrying(object[t][c])
        BY <2>3, <3>2
      <4>3. Followed(r, Allocations(c) \ Carrying(object[t][c]), Refills(c), Len(r))
        BY <2>6, <4>1, <4>2, <2>20
      <4>4. Among(s, Refills(c), Len(s)) => Among(r, Refills(c), Len(r))
        BY <2>6, <2>22
      <4> QED
        BY <4>1, <4>3, <4>4
    <3>3. /\ Followed(r, Allocations(b) \ Carrying(o), Refills(b), Len(r))
          /\ Among(r, Refills(b), Len(r))
      <4>1. m \notin Allocations(b) \ Carrying(o) /\ m \in Refills(b)
        BY <2>3 DEF Refills
      <4>2. Followed(r, Allocations(b) \ Carrying(o), Refills(b), Len(r))
        BY <2>6, <4>1, <2>20
      <4>3. Among(r, Refills(b), Len(r))
        BY <2>6, <4>1, <2>22
      <4> QED
        BY <4>2, <4>3
    <3>4. o # None
      BY <1>1
    <3> QED
      BY <2>6, <2>7, <3>1, <3>2, <3>3, <3>4 DEF SlotsAgree
  <2>9. ASSUME NEW c \in Slots, NEW x \in Objects, InSlot(t, c, x)'
        PROVE  (c = b /\ x = o) \/ (c # b /\ x # o /\ InSlot(t, c, x))
    <3>1. CASE c = b
      BY <2>7, <2>9, <3>1 DEF InSlot
    <3>2. CASE c # b
      BY <1>1, <2>1, <2>2, <2>7, <2>9, <3>2 DEF InSlot, Unreferenced
    <3> QED
      BY <3>1, <3>2
  <2>10. hostBuffer[o] = None /\ ~Among(s, Carrying(o), Len(s))
    <3>1. ~InTransit(o)
      BY <2>1 DEF Unreferenced
    <3> QED
      BY <1>1, <2>1, <2>6, <3>1 DEF Unreferenced, InTransit, Among, Carrying, Sent
  <2>11. NewestLast(t)'
    <3>1. NeverAfter(r, Carrying(o), Refills(b), Len(r))
      <4>1. NeverAfter(s, Carrying(o), Refills(b), Len(s))
        BY <2>10 DEF NeverAfter, Among
      <4> QED
        BY <2>6, <2>10, <4>1, <2>21
    <3>2. ASSUME NEW c \in Slots, NEW x \in Objects, c # b, x # o, InSlot(t, c, x)
          PROVE  /\ NeverAfter(r, Carrying(x), Refills(c), Len(r))
                 /\ hostBuffer[x] # None => ~Among(r, Refills(c), Len(r))
      <4>1. /\ NeverAfter(s, Carrying(x), Refills(c), Len(s))
            /\ hostBuffer[x] # None => ~Among(s, Refills(c), Len(s))
        BY <2>6, <3>2 DEF UseOf, NewestLast
      <4>2. m \notin Refills(c)
        BY <2>3, <3>2 DEF Refills
      <4>3. NeverAfter(r, Carrying(x), Refills(c), Len(r))
        BY <2>6, <4>1, <4>2, <2>21
      <4>4. Among(r, Refills(c), Len(r)) => Among(s, Refills(c), Len(s))
        BY <2>6, <4>2, <2>22
      <4> QED
        BY <4>1, <4>3, <4>4
    <3> QED
      BY <1>2, <2>6, <2>9, <2>10, <3>1, <3>2 DEF NewestLast
  <2>12. UnlockedReturned(t)'
    <3>1. Back(o)
      BY <2>1 DEF Unreferenced, Back
    <3>2. Followed(r, Commits(b), Refills(b), Len(r))
      BY <2>3, <2>6, <2>20 DEF Refills
    <3>3. ASSUME NEW c \in Slots, NEW x \in Objects, c # b, InSlot(t, c, x), ~locked[t][c]
          PROVE  Back(x) /\ Followed(r, Commits(c), Refills(c), Len(r))
      <4>1. Back(x) /\ Followed(s, Commits(c), Refills(c), Len(s))
        BY <2>6, <3>3 DEF UseOf, UnlockedReturned, Returned
      <4> QED
        BY <2>3, <2>6, <4>1, <2>20
    <3> QED
      BY <1>4, <2>2, <2>6, <2>9, <3>1, <3>2, <3>3 DEF UnlockedReturned, Returned
  <2> QED
    BY <2>5, <2>8, <2>11, <2>12 DEF UseOf

<1>8. CASE FrameRendered(t) /\ object[t][current[t]] # None
  <2>1. PICK b \in Slots, o \in Objects : b = current[t] /\ o = object[t][b]
    BY <1>1, <1>3, <1>8 DEF FrameRendered
  <2> DEFINE m == BufferCommitMsg(p, b)
  <2>2. /\ UNCHANGED <<poolID, phase, object, webUp>> /\ locked' = [locked EXCEPT ![t][b] = TRUE]
        /\ Sent(t)' = Append(Sent(t), m)
        /\ ~locked[t][b] /\ Live(t) /\ InSlot(t, b, o)
    BY <1>5, <1>8, <2>1 DEF FrameRendered, InEventLoop, Live, DrawsUnlocked, InSlot
  <2>3. /\ m \notin Purges
        /\ \A c \in Slots : m \notin Allocations(c) /\ (m \in Commits(c) <=> c = b)
        /\ \A x \in Objects : m \notin Carrying(x)
    BY <1>1, <2>1, MessageKinds
  <2> HIDE DEF m
  <2>4. PICK s, r : /\ s \in Seq(HostMessage) /\ s = Sent(t) /\ r = Sent(t)' /\ r = Append(s, m)
                    /\ Unread(t) = Len(s) /\ Unread(t)' = Len(r)
    BY <1>3, <2>2 DEF Unread
  <2>20. ASSUME NEW F, NEW M
         PROVE  Followed(r, F, M, Len(r)) <=> m \notin F /\ (m \in M \/ Followed(s, F, M, Len(s)))
    BY ONLY <2>4, FollowedSent
  <2>21. ASSUME NEW F, NEW M
         PROVE  NeverAfter(r, F, M, Len(r)) <=> NeverAfter(s, F, M, Len(s)) /\ (m \in M => ~Among(s, F, Len(s)))
    BY ONLY <2>4, NeverAppended
  <2>22. ASSUME NEW M
         PROVE  Among(r, M, Len(r)) <=> m \in M \/ Among(s, M, Len(s))
    BY ONLY <2>4, AmongAppended
  <2>5. Back(o) /\ Followed(s, Commits(b), Refills(b), Len(s))
    BY <2>2, <2>4 DEF UseOf, UnlockedReturned, Returned
  <2>6. InPool(t, b) # None => Back(InPool(t, b)) \/ Among(s, Refills(b), Len(s))
    <3>1. InPool(t, b) \in {None, o} \/ Among(s, Refills(b), Len(s))
      BY <1>1, <2>1, <2>2, <2>4 DEF UseOf, SlotsAgree
    <3> QED
      BY <2>5, <3>1
  <2>7. AllocatesEmpty(t)' /\ CommittedOnce(t)'
    <3>1. \A c \in Slots : m \in Commits(c) =>
            /\ Followed(Sent(t), Commits(c), Refills(c), Unread(t))
            /\ InPool(t, c) # None => Back(InPool(t, c)) \/ Among(Sent(t), Refills(c), Unread(t))
      BY <2>3, <2>4, <2>5, <2>6
    <3>2. \A c \in Slots : m \notin Allocations(c)
      BY <2>3
    <3>3. Sent(t)' = Append(Sent(t), m)
      BY <2>2
    <3>4. UNCHANGED <<poolID, poolBuffers, hostBuffer, held>>
      BY <1>2, <2>2
    <3> QED
      BY <1>1, <3>1, <3>2, <3>3, <3>4, AppendedKeeps
  <2>8. \A c \in Slots : InPool(t, c)' = InPool(t, c) /\ m \notin Refills(c)
    BY <1>2, <2>2, <2>3 DEF InPool, Refills
  <2>9. SlotsAgree(t)'
    <3>1. ASSUME NEW c \in Slots, object[t][c] = None
          PROVE  Emptied(t, c, Unread(t))'
      <4>1. Emptied(t, c, Len(s))
        BY <2>2, <2>4, <3>1 DEF UseOf, SlotsAgree
      <4>2. Followed(r, Allocations(c), Purges, Len(r))
        BY <2>3, <2>4, <4>1, <2>20 DEF Emptied
      <4>3. InPool(t, c) = None \/ Among(r, Purges, Len(r))
        BY <2>4, <4>1, <2>22 DEF Emptied
      <4> QED
        BY <2>4, <2>8, <4>2, <4>3 DEF Emptied
    <3>2. ASSUME NEW c \in Slots, object[t][c] # None
          PROVE  /\ Followed(r, Allocations(c) \ Carrying(object[t][c]), Refills(c), Len(r))
                 /\ InPool(t, c) \in {None, object[t][c]} \/ Among(r, Refills(c), Len(r))
      <4>1. /\ Followed(s, Allocations(c) \ Carrying(object[t][c]), Refills(c), Len(s))
            /\ InPool(t, c) \in {None, object[t][c]} \/ Among(s, Refills(c), Len(s))
        BY <2>2, <2>4, <3>2 DEF UseOf, SlotsAgree
      <4>2. m \notin Allocations(c) \ Carrying(object[t][c])
        BY <2>3
      <4>3. Followed(r, Allocations(c) \ Carrying(object[t][c]), Refills(c), Len(r))
        BY <2>4, <4>1, <4>2, <2>20
      <4>4. Among(s, Refills(c), Len(s)) => Among(r, Refills(c), Len(r))
        BY <2>4, <2>22
      <4> QED
        BY <4>1, <4>3, <4>4
    <3> QED
      BY <2>2, <2>4, <2>8, <3>1, <3>2 DEF SlotsAgree
  <2>10. \A c \in Slots, x \in Objects : InSlot(t, c, x)' <=> InSlot(t, c, x)
    BY <2>2 DEF InSlot
  <2>11. NewestLast(t)'
    <3> SUFFICES ASSUME NEW c \in Slots, NEW x \in Objects, InSlot(t, c, x)
                 PROVE  /\ NeverAfter(r, Carrying(x), Refills(c), Len(r))
                        /\ hostBuffer[x] # None => ~Among(r, Refills(c), Len(r))
      BY <1>2, <2>4, <2>10 DEF NewestLast
    <3>1. /\ NeverAfter(s, Carrying(x), Refills(c), Len(s))
          /\ hostBuffer[x] # None => ~Among(s, Refills(c), Len(s))
      BY <2>4 DEF UseOf, NewestLast
    <3>2. NeverAfter(r, Carrying(x), Refills(c), Len(r))
      BY <2>4, <2>8, <3>1, <2>21
    <3>3. Among(r, Refills(c), Len(r)) => Among(s, Refills(c), Len(s))
      BY <2>4, <2>8, <2>22
    <3> QED
      BY <3>1, <3>2, <3>3
  <2>12. UnlockedReturned(t)'
    <3> SUFFICES ASSUME NEW c \in Slots, NEW x \in Objects, InSlot(t, c, x), ~locked'[t][c]
                 PROVE  Back(x) /\ Followed(r, Commits(c), Refills(c), Len(r))
      BY <1>4, <2>4, <2>10 DEF UnlockedReturned, Returned
    <3>1. c # b /\ ~locked[t][c]
      BY <1>1, <2>2
    <3>2. Back(x) /\ Followed(s, Commits(c), Refills(c), Len(s))
      BY <2>4, <3>1 DEF UseOf, UnlockedReturned, Returned
    <3> QED
      BY <2>3, <2>4, <3>1, <3>2, <2>20
  <2> QED
    BY <2>7, <2>9, <2>11, <2>12 DEF UseOf
<1>9. ASSUME UNCHANGED <<poolID, toHost>>,
             \/ UNCHANGED <<phase, object, locked>>
             \/ phase'[t] # "ready" /\ \A b \in Slots : object'[t][b] = None
             \/ UNCHANGED <<phase, object>> /\ \A b \in Slots : object[t][b] # None => locked'[t][b] = locked[t][b],
             webUp'[w] => webUp[w]
      PROVE  UseOf(t)'
  <2>1. UNCHANGED <<poolID[t], Sent(t)>> /\ poolBuffers'[poolID[t]] = poolBuffers[poolID[t]]
    BY <1>2, <1>9 DEF Sent
  <2>2. Live(t)' => Live(t) /\ object'[t] = object[t]
    BY <1>9 DEF Live
  <2>3. \A b \in Slots, o \in Objects : InSlot(t, b, o)' =>
          /\ InSlot(t, b, o)
          /\ hostBuffer'[o] # None => hostBuffer[o] # None
          /\ locked'[t][b] \/ ~locked[t][b] \/ Returned(t, b, o)
    BY <1>1, <1>2, <1>9 DEF InSlot
  <2> QED
    BY <1>1, <1>4, <2>1, <2>2, <2>3, UseFrame
<1>10. CASE FrameRendered(t) /\ object[t][current[t]] = None
  <2>1. current[t] \in Slots /\ locked' = [locked EXCEPT ![t][current[t]] = TRUE]
    BY <1>3, <1>10 DEF FrameRendered
  <2>2. \A b \in Slots : object[t][b] # None => locked'[t][b] = locked[t][b]
    BY <1>1, <1>10, <2>1
  <2> QED
    BY <1>9, <1>10, <2>2 DEF FrameRendered
<1>11. CASE Deinitialize(t)
  <2>1. phase'[t] # "ready" /\ \A b \in Slots : object'[t][b] = None
    BY <1>1, <1>11 DEF Deinitialize, DestroyBufferPool
  <2> QED
    BY <1>9, <1>11, <2>1 DEF Deinitialize, ipcVars
<1>12. CASE DestroyTarget(t)
  <2>1. phase'[t] # "ready" /\ \A b \in Slots : object[t][b] = None
    BY <1>1, <1>12 DEF DestroyTarget, HandleInv, PageInv, TargetsRegistered
  <2> QED
    BY <1>9, <1>12, <2>1 DEF DestroyTarget
<1>13. CASE FrameAborts(t) \/ \E b \in Slots : FrameReuses(t, b) \/ FrameFailsToAllocate(t, b)
  BY <1>1, <1>9, <1>13 DEF FrameAborts, CloseWeb, FrameReuses, FrameFailsToAllocate, webVars, ipcVars
<1> QED
  BY <1>6, <1>7, <1>8, <1>10, <1>11, <1>12, <1>13 DEF TargetStep, CreateTarget, Initialize, ReceiveReply, Young

(* What a proxy makes of the next message of a target, slot by slot: the   *)
(* slot of the pool is empty, or as it was, or has the buffer allocated.   *)
LEMMA UseRead ==
  ASSUME TypeOK, NEW t \in Targets, UseOf(t), Sent(t) # <<>>, Sent(t)' = Tail(Sent(t)),
         UNCHANGED <<webVars, webUp>>,
         NEW h, h = Head(Sent(t)),
         \A b \in Slots :
           \/ InPool(t, b)' = None
           \/ /\ h \notin Refills(b) /\ InPool(t, b)' = InPool(t, b)
              /\ h \in Commits(b) \/ \A x \in Objects : InPool(t, b) = x /\ Back(x) => Back(x)'
           \/ /\ h \in Allocations(b)
              /\ \A x \in Objects : InPool(t, b)' = x <=> h \in Carrying(x)
              /\ \A x \in Objects : InPool(t, b)' = x => Back(x)',
         \A b \in Slots, o \in Objects : InSlot(t, b, o) =>
           /\ hostBuffer'[o] # None => hostBuffer[o] # None \/ h \in Carrying(o)
           /\ ~locked[t][b] => Back(o)',
         \A b \in Slots : InPool(t, b)' \in Objects \cup {None}
  PROVE  UseOf(t)'
<1>1. PICK s, r : s \in Seq(HostMessage) /\ s = Sent(t) /\ r = Sent(t)' /\ r = Tail(s) /\ s # <<>> /\ h = Head(s)
  BY PoolOf
<1>2. /\ Len(r) \in Nat /\ Len(s) = Len(r) + 1 /\ Unread(t) = Len(s) /\ Unread(t)' = Len(r)
      /\ \A i \in 1 .. Len(r) : r[i] = s[i + 1]
  BY <1>1, ReadLength DEF Unread
<1>3. ASSUME NEW F, NEW M, NEW n \in 0 .. Len(r)
      PROVE  /\ Followed(s, F, M, n + 1) <=> Followed(r, F, M, n) /\ (h \in F => Among(r, M, n))
             /\ NeverAfter(s, F, M, n + 1) <=> NeverAfter(r, F, M, n) /\ (h \in F => ~Among(r, M, n))
  BY ONLY <1>1, <1>3, FollowedRead
<1>4. ASSUME NEW M, NEW n \in 0 .. Len(r)
      PROVE  Among(s, M, n + 1) <=> h \in M \/ Among(r, M, n)
  BY ONLY <1>1, <1>4, AmongRead
<1>5. Len(r) \in 0 .. Len(r) /\ \A k \in 1 .. Len(r) : /\ k - 1 \in 0 .. Len(r) /\ (k - 1) + 1 = k
                                                      /\ k + 1 \in 1 .. Len(s) /\ (k + 1) - 1 = (k - 1) + 1
                                                      /\ r[k] = s[k + 1]
  BY <1>2
<1>6. Purges \subseteq HostMessage /\ \A b \in Slots : /\ Purges \subseteq Refills(b)
                                                      /\ Allocations(b) \subseteq Refills(b)
  BY DEF Purges, Refills
<1>7. SlotsAgree(t)'
  <2>1. Live(t)' => Live(t)
    BY DEF Live, webVars
  <2>2. ASSUME NEW b \in Slots, Live(t), object[t][b] = None
        PROVE  Emptied(t, b, Unread(t))'
    <3>1. /\ Followed(s, Allocations(b), Purges, Len(r) + 1)
          /\ InPool(t, b) = None \/ Among(s, Purges, Len(r) + 1)
      BY <1>1, <1>2, <2>2 DEF UseOf, SlotsAgree, Emptied
    <3>2. Followed(r, Allocations(b), Purges, Len(r)) /\ (h \in Allocations(b) => Among(r, Purges, Len(r)))
      BY <1>3, <1>5, <3>1
    <3>3. Among(s, Purges, Len(r) + 1) => h \in Purges \/ Among(r, Purges, Len(r))
      BY <1>4, <1>5
    <3>4. InPool(t, b)' = None \/ Among(r, Purges, Len(r))
      BY <1>6, <3>1, <3>2, <3>3
    <3> QED
      BY <1>1, <1>2, <3>2, <3>4 DEF Emptied
  <2>3. ASSUME NEW b \in Slots, Live(t), object[t][b] # None
        PROVE  /\ Followed(r, Allocations(b) \ Carrying(object[t][b]), Refills(b), Len(r))
               /\ InPool(t, b)' \in {None, object[t][b]} \/ Among(r, Refills(b), Len(r))
    <3>1. /\ Followed(s, Allocations(b) \ Carrying(object[t][b]), Refills(b), Len(r) + 1)
          /\ InPool(t, b) \in {None, object[t][b]} \/ Among(s, Refills(b), Len(r) + 1)
      BY <1>1, <1>2, <2>3 DEF UseOf, SlotsAgree
    <3>2. /\ Followed(r, Allocations(b) \ Carrying(object[t][b]), Refills(b), Len(r))
          /\ h \in Allocations(b) \ Carrying(object[t][b]) => Among(r, Refills(b), Len(r))
      BY <1>3, <1>5, <3>1
    <3>3. Among(s, Refills(b), Len(r) + 1) => h \in Refills(b) \/ Among(r, Refills(b), Len(r))
      BY <1>4, <1>5
    <3>4. object[t][b] \in Objects
      BY <2>3, PoolOf
    <3>5. InPool(t, b)' \in {None, object[t][b]} \/ Among(r, Refills(b), Len(r))
      BY <1>6, <3>1, <3>2, <3>3, <3>4
    <3> QED
      BY <3>2, <3>5
  <2> QED
    BY <1>1, <1>2, <2>1, <2>2, <2>3 DEF SlotsAgree, webVars
<1>8. NewestLast(t)'
  <2> SUFFICES ASSUME NEW b \in Slots, NEW o \in Objects, InSlot(t, b, o)
               PROVE  /\ NeverAfter(r, Carrying(o), Refills(b), Len(r))
                      /\ hostBuffer'[o] # None => ~Among(r, Refills(b), Len(r))
    BY <1>1, <1>2 DEF NewestLast, InSlot, webVars
  <2>1. /\ NeverAfter(s, Carrying(o), Refills(b), Len(r) + 1)
        /\ hostBuffer[o] # None => ~Among(s, Refills(b), Len(r) + 1)
    BY <1>1, <1>2 DEF UseOf, NewestLast
  <2>2. NeverAfter(r, Carrying(o), Refills(b), Len(r)) /\ (h \in Carrying(o) => ~Among(r, Refills(b), Len(r)))
    BY <1>3, <1>5, <2>1
  <2>3. Among(r, Refills(b), Len(r)) => Among(s, Refills(b), Len(r) + 1)
    BY <1>4, <1>5
  <2> QED
    BY <2>1, <2>2, <2>3
<1>9. AllocatesEmpty(t)'
  <2> SUFFICES ASSUME NEW b \in Slots, NEW k \in 1 .. Len(r), r[k] \in Allocations(b)
               PROVE  Emptied(t, b, k - 1)'
    BY <1>1, <1>2 DEF AllocatesEmpty
  <2>1. /\ Followed(s, Allocations(b), Purges, (k - 1) + 1)
        /\ InPool(t, b) = None \/ Among(s, Purges, (k - 1) + 1)
    BY <1>1, <1>2, <1>5 DEF UseOf, AllocatesEmpty, Emptied
  <2>2. Followed(r, Allocations(b), Purges, k - 1) /\ (h \in Allocations(b) => Among(r, Purges, k - 1))
    BY <1>3, <1>5, <2>1
  <2>3. Among(s, Purges, (k - 1) + 1) => h \in Purges \/ Among(r, Purges, k - 1)
    BY <1>4, <1>5
  <2>4. InPool(t, b)' = None \/ Among(r, Purges, k - 1)
    BY <1>6, <2>1, <2>2, <2>3
  <2> QED
    BY <1>1, <2>2, <2>4 DEF Emptied
<1>10. CommittedOnce(t)'
  <2> SUFFICES ASSUME NEW b \in Slots, NEW k \in 1 .. Len(r), r[k] \in Commits(b)
               PROVE  /\ Followed(r, Commits(b), Refills(b), k - 1)
                      /\ InPool(t, b)' # None => Back(InPool(t, b))' \/ Among(r, Refills(b), k - 1)
    BY <1>1, <1>2 DEF CommittedOnce
  <2>1. /\ Followed(s, Commits(b), Refills(b), (k - 1) + 1)
        /\ InPool(t, b) # None => Back(InPool(t, b)) \/ Among(s, Refills(b), (k - 1) + 1)
    BY <1>1, <1>2, <1>5 DEF UseOf, CommittedOnce
  <2>2. Followed(r, Commits(b), Refills(b), k - 1) /\ (h \in Commits(b) => Among(r, Refills(b), k - 1))
    BY <1>3, <1>5, <2>1
  <2>3. Among(s, Refills(b), (k - 1) + 1) => h \in Refills(b) \/ Among(r, Refills(b), k - 1)
    BY <1>4, <1>5
  <2>4. ASSUME InPool(t, b)' # None, ~Among(r, Refills(b), k - 1)
        PROVE  \A x \in Objects : InPool(t, b)' = x => Back(x)'
    BY <2>1, <2>2, <2>3, <2>4, PoolOf
  <2>5. ASSUME \A x \in Objects : InPool(t, b)' = x => Back(x)', InPool(t, b)' # None
        PROVE  Back(InPool(t, b))'
    <3>1. PICK x \in Objects : x = InPool(t, b)'
      BY <2>5
    <3>2. Back(x)'
      BY <2>5, <3>1
    <3> QED
      BY <3>1, <3>2 DEF Back, HeldBy
  <2> QED
    BY <2>2, <2>4, <2>5
<1>11. UnlockedReturned(t)'
  <2> SUFFICES ASSUME NEW b \in Slots, NEW o \in Objects, InSlot(t, b, o), ~locked[t][b]
               PROVE  Back(o)' /\ Followed(r, Commits(b), Refills(b), Len(r))
    BY <1>1, <1>2 DEF UnlockedReturned, Returned, InSlot, webVars
  <2>1. Followed(s, Commits(b), Refills(b), Len(r) + 1)
    BY <1>1, <1>2 DEF UseOf, UnlockedReturned, Returned
  <2> QED
    BY <1>3, <1>5, <2>1
<1> QED
  BY <1>7, <1>8, <1>9, <1>10, <1>11 DEF UseOf

(* The loop dispatches one socket at a time.                               *)
LEMMA OneTurn ==
  ASSUME TypeOK, NEW x, Turn(x), NEW y, Turn(y)
  PROVE  x = y
<1>1. sources \in Seq(Sockets) /\ Len(sources) \in Nat
  BY LenProperties DEF TypeOK, LoopTypeOK
<1>2. PICK i \in 1 .. Len(sources) : sources[i] = x /\ \A j \in 1 .. i - 1 : sources[j] \notin ready
  BY DEF Turn
<1>3. PICK k \in 1 .. Len(sources) : sources[k] = y /\ \A j \in 1 .. k - 1 : sources[j] \notin ready
  BY DEF Turn
<1>4. x \in ready /\ y \in ready
  BY DEF Turn
<1> QED
  BY <1>1, <1>2, <1>3, <1>4

(* The proxy of the target reads.                                          *)
LEMMA UseReceived ==
  ASSUME OneTargetPerProcess, HandleInv, NEW t \in Targets, ~Young(t), UseOf(t),
         ProxyStep(ProcessOf[t]), HostFrame
  PROVE  UseOf(t)'
<1> DEFINE w == ProcessOf[t]
           p == poolID[t]
<1>1. /\ TypeOK /\ HeapInv /\ Handshake /\ HandlesPlaced /\ w \in Processes /\ p \in PoolIDs
      /\ poolBuffers \in [PoolIDs -> [Slots -> Objects \cup {None}]]
      /\ toHost \in [Processes -> Seq(HostMessage)]
      /\ None \notin Objects /\ None \notin Slots /\ SlotsPointToLive
  BY PoolOf DEF HandleInv, PageInv, MapInv, HeapInv, TypeOK, IpcTypeOK, HostTypeOK, HostHeapConsistent
<1>2. PICK h : h = Head(toHost[w])
  OBVIOUS
<1>3. /\ h \in HostMessage /\ toHost[w] # <<>>
      /\ toHost' = [toHost EXCEPT ![w] = Tail(toHost[w])]
      /\ PurgePool(w) => h \in Purges
      /\ BufferAllocation(w) => h \in Allocations(h.bufferID) \cap Carrying(h.object)
      /\ CommitToView(w) \/ CommitWithoutView(w) => h \in Commits(h.bufferID)
      /\ BufferAllocation(w) => h.bufferID \in Slots /\ h.object \in Objects
      /\ CommitToView(w) \/ CommitWithoutView(w) => h.bufferID \in Slots
  BY <1>1, <1>2, ProxyMessage
<1>4. h.poolID = p /\ ~ConstructPool(w)
  <2>1. h \in OwnHostMessage(p)
    BY <1>1, <1>2, <1>3, HandshakeOf, QueueType
  <2> QED
    BY <1>2, <2>1 DEF OwnHostMessage, ConstructPool, Reads
<1>5. UNCHANGED <<webVars, webUp>> /\ Sent(t)' = Tail(Sent(t)) /\ Sent(t) # <<>> /\ h = Head(Sent(t))
  <2>1. UNCHANGED <<webVars, webUp>>
    BY DEF HostFrame, ProxyStep, ConstructPool, PurgePool, BufferAllocation, CommitToView, CommitWithoutView
  <2> QED
    BY <1>1, <1>2, <1>3, <2>1 DEF Sent
<1>6. [Next]_vars
  BY <1>1 DEF Next
<1>7. \A b \in Slots : InPool(t, b)' \in Objects \cup {None}
  <2>1. TypeOK'
    BY <1>1, <1>6, NextTypes DEF HeapInv
  <2> QED
    BY <1>1, <1>5, <2>1 DEF TypeOK, HostTypeOK, InPool, webVars
<1>8. ASSUME NEW x \in Objects, Back(x), CommitToView(w) => poolBuffers[p][h.bufferID] # x
      PROVE  Back(x)'
  <2>1. \A u \in Processes : CommitToView(u) => poolBuffers[Head(toHost[u]).poolID][Head(toHost[u]).bufferID] # x
    <3> SUFFICES ASSUME NEW u \in Processes, CommitToView(u) PROVE u = w
      BY <1>2, <1>4, <1>8
    <3>1. Turn(u) /\ Turn(w)
      BY DEF CommitToView, Reads, ProxyStep, PurgePool, BufferAllocation, CommitWithoutView, ConstructPool
    <3> QED
      BY <1>1, <3>1, OneTurn
  <2> QED
    BY <1>1, <1>6, <1>8, <2>1, BackKept
<1>9. ASSUME NEW b \in Slots, NEW o \in Objects, InSlot(t, b, o), hostBuffer'[o] # None
      PROVE  hostBuffer[o] # None \/ h \in Carrying(o)
  <2>1. hostBuffer[o] # None \/ (BufferAllocation(w) /\ o = h.object)
    BY <1>1, <1>2, <1>9, ProxyBuffers
  <2> QED
    BY <1>3, <2>1
<1>10. ASSUME NEW b \in Slots, NEW o \in Objects, InSlot(t, b, o), ~locked[t][b]
       PROVE  Back(o)'
  <2>1. Back(o) /\ Followed(Sent(t), Commits(b), Refills(b), Unread(t))
    BY <1>10 DEF UseOf, UnlockedReturned, Returned
  <2>2. ASSUME CommitToView(w), poolBuffers[p][h.bufferID] = o
        PROVE  FALSE
    <3>1. hostBuffer[o] # None /\ hostBuffer[o].bufferID = h.bufferID
      <4>1. LET m == Head(toHost[w])
                x == poolBuffers[m.poolID][m.bufferID]
            IN  hostBuffer[x] # None /\ hostBuffer[x].bufferID = m.bufferID
        BY ONLY <1>1, <2>2, HeldAfterCommit
      <4> QED
        BY ONLY <1>2, <1>4, <2>2, <4>1
    <3>2. h.bufferID = b
      BY <1>1, <1>10, <3>1 DEF HandlesPlaced
    <3>3. Sent(t)[1] \in Commits(b) /\ 1 \in 1 .. Unread(t)
      BY <1>1, <1>3, <1>5, <2>2, <3>2, PoolOf, HeadTailProperties, LenProperties DEF Unread
    <3>4. PICK j \in 2 .. Unread(t) : Sent(t)[j] \in Refills(b)
      BY <2>1, <3>3 DEF Followed
    <3>5. Among(Sent(t), Refills(b), Unread(t))
      BY <1>1, <3>4, PoolOf DEF Among
    <3> QED
      BY <1>10, <3>1, <3>5 DEF UseOf, NewestLast
  <2> QED
    BY <1>8, <2>1, <2>2
<1>11. ASSUME NEW b \in Slots
       PROVE  \/ InPool(t, b)' = None
              \/ /\ h \notin Refills(b) /\ InPool(t, b)' = InPool(t, b)
                 /\ h \in Commits(b) \/ \A x \in Objects : InPool(t, b) = x /\ Back(x) => Back(x)'
              \/ /\ h \in Allocations(b)
                 /\ \A x \in Objects : InPool(t, b)' = x <=> h \in Carrying(x)
                 /\ \A x \in Objects : InPool(t, b)' = x => Back(x)'
  <2>1. UNCHANGED poolID
    BY <1>5 DEF webVars
  <2>2. CASE PurgePool(w)
    BY <1>1, <1>2, <1>4, <2>1, <2>2 DEF PurgePool, InPool
  <2>3. CASE BufferAllocation(w)
    <3>1. /\ h \in Allocations(h.bufferID) \cap Carrying(h.object) /\ h.bufferID \in Slots /\ h.object \in Objects
          /\ poolBuffers' = [poolBuffers EXCEPT ![p][h.bufferID] = h.object]
      BY <1>2, <1>3, <1>4, <2>3 DEF BufferAllocation
    <3>2. \A x \in Objects : h \in Carrying(x) <=> x = h.object
      BY <3>1 DEF Carrying
    <3>3. Back(h.object)'
      <4>1. hostBuffer[h.object] = None
        BY <1>1, <1>2, <1>3, <3>1, FreshHead DEF Carrying
      <4>2. Brings(w, 1, h.object) /\ 1 \in 1 .. Len(toHost[w])
        BY <1>1, <1>2, <1>3, <3>1, HeadTailProperties, LenProperties DEF Brings, Carrying
      <4>3. Back(h.object)
        BY <1>1, <3>1, <4>1, <4>2 DEF HandlesPlaced, Back
      <4>4. ~CommitToView(w)
        BY <1>2, <2>3 DEF CommitToView, BufferAllocation, Reads
      <4> QED
        BY <1>8, <3>1, <4>3, <4>4
    <3>4. CASE b = h.bufferID
      BY <1>1, <2>1, <3>1, <3>2, <3>3, <3>4 DEF InPool
    <3>5. CASE b # h.bufferID
      <4>1. h \notin Refills(b) /\ InPool(t, b)' = InPool(t, b)
        BY <1>1, <2>1, <3>1, <3>5 DEF Refills, Purges, Allocations, InPool
      <4>2. ~CommitToView(w)
        BY <1>2, <2>3 DEF CommitToView, BufferAllocation, Reads
      <4> QED
        BY <1>8, <4>1, <4>2
    <3> QED
      BY <3>4, <3>5
  <2>4. CASE CommitToView(w)
    <3>1. h \in Commits(h.bufferID) /\ h.bufferID \in Slots /\ UNCHANGED poolBuffers
      BY <1>3, <2>4 DEF CommitToView
    <3>2. h \notin Refills(b) /\ InPool(t, b)' = InPool(t, b)
      BY <2>1, <3>1 DEF Refills, Purges, Allocations, Commits, InPool
    <3>3. ASSUME b # h.bufferID, NEW x \in Objects, InPool(t, b) = x, Back(x)
          PROVE  Back(x)'
      <4>1. poolBuffers[p][h.bufferID] # x
        BY <1>1, <3>1, <3>3, SlotsDistinct DEF InPool
      <4> QED
        BY <1>8, <3>3, <4>1
    <3> QED
      BY <3>1, <3>2, <3>3
  <2>5. CASE CommitWithoutView(w)
    <3>1. /\ h \in Commits(h.bufferID) /\ h.bufferID \in Slots
          /\ poolBuffers' = [poolBuffers EXCEPT ![p][h.bufferID] = None]
      BY <1>2, <1>3, <1>4, <2>5 DEF CommitWithoutView
    <3>2. ~CommitToView(w)
      BY <2>5 DEF CommitToView, CommitWithoutView
    <3>3. h \notin Refills(b)
      BY <3>1 DEF Refills, Purges, Allocations, Commits
    <3>4. InPool(t, b)' = IF b = h.bufferID THEN None ELSE InPool(t, b)
      BY <1>1, <2>1, <3>1 DEF InPool
    <3> QED
      BY <1>8, <3>2, <3>3, <3>4
  <2> QED
    BY <1>4, <2>2, <2>3, <2>4, <2>5 DEF ProxyStep
<1> QED
  BY <1>1, <1>5, <1>7, <1>9, <1>10, <1>11, UseRead

(* A proxy that reads changes what is in its socket.                       *)
LEMMA ReadsChange ==
  ASSUME HeapInv, NEW w \in Processes, ProxyStep(w)
  PROVE  toHost' # toHost
<1>1. /\ toHost[w] # <<>> /\ toHost[w] \in Seq(HostMessage)
      /\ toHost' = [toHost EXCEPT ![w] = Tail(toHost[w])]
      /\ toHost \in [Processes -> Seq(HostMessage)]
  BY ProxyMessage DEF HeapInv, TypeOK, IpcTypeOK
<1>2. Tail(toHost[w]) # toHost[w]
  <2>1. PICK s, r : s \in Seq(HostMessage) /\ s = toHost[w] /\ r = Tail(s)
    BY <1>1
  <2>2. Len(r) \in Nat /\ Len(s) = Len(r) + 1
    BY <1>1, <2>1, ReadLength
  <2>3. r # s
    BY ONLY <2>2
  <2> QED
    BY ONLY <2>1, <2>3
<1> QED
  BY <1>1, <1>2

(* A slot is unlocked when no commit of it is on its way.                  *)
LEMMA ReturnedAtUnlock ==
  ASSUME Handshake, NEW t \in Targets, ~Young(t), TypeOK, NEW b \in Slots, NEW o \in Objects, Back(o),
         ~CommitInTransit(ProcessOf[t], poolID[t], b)
  PROVE  Returned(t, b, o)
<1>1. Sent(t) \in Seq(OwnHostMessage(poolID[t])) /\ poolID[t] \in PoolIDs
  BY HandshakeOf, PoolOf DEF Sent
<1>2. ASSUME NEW i \in 1 .. Unread(t), Sent(t)[i] \in Commits(b)
      PROVE  FALSE
  <2>1. PICK m : m = Sent(t)[i]
    OBVIOUS
  <2>2. m \in OwnHostMessage(poolID[t])
    BY <1>1, <2>1, ElementOfSeq DEF Unread
  <2>3. m.poolID = poolID[t] /\ m.code = "BufferCommit" /\ m.bufferID = b /\ m \in HostMessage
    BY <1>2, <2>1, <2>2 DEF Commits, OwnHostMessage
  <2>4. m = BufferCommitMsg(poolID[t], b)
    BY <2>3 DEF HostMessage, BufferCommitMsg
  <2> QED
    BY <2>1, <2>4 DEF CommitInTransit, Sent, Unread
<1> QED
  BY <1>2 DEF Returned, Followed

(* What other parts do: nothing to the messages and the pool of a target,  *)
(* and nothing to its buffers but to release them.                         *)
LEMMA UseOther ==
  ASSUME OneTargetPerProcess, HandleInv, UpAttached, NEW t \in Targets, ~Young(t), UseOf(t), [Next]_vars,
         ~(TargetStep(t) /\ WebFrame), ~(ProxyStep(ProcessOf[t]) /\ HostFrame),
         \A b \in Slots, o \in Objects : InSlot(t, b, o) /\ locked[t][b] /\ ~locked'[t][b] /\ UNCHANGED object =>
           Returned(t, b, o)
  PROVE  UseOf(t)'
<1>1. /\ TypeOK /\ HeapInv /\ Handshake /\ HandlesPlaced /\ TransitFresh
      /\ ProcessOf[t] \in Processes /\ poolID[t] \in PoolIDs
      /\ poolBuffers \in [PoolIDs -> [Slots -> Objects \cup {None}]]
      /\ toHost \in [Processes -> Seq(HostMessage)] /\ webUp \in [Processes -> BOOLEAN]
      /\ phase \in [Targets -> Phases] /\ poolID \in [Targets -> PoolIDs]
      /\ current \in [Targets -> Slots \cup {None}]
      /\ locked \in [Targets -> [Slots -> BOOLEAN]]
      /\ object \in [Targets -> [Slots -> Objects \cup {None}]]
      /\ None \notin Objects /\ None \notin Slots /\ SlotsPointToLive
  BY PoolOf DEF HandleInv, PageInv, MapInv, HeapInv, TypeOK, IpcTypeOK, WebTypeOK, HostTypeOK, HostHeapConsistent
<1>2. \A b \in Slots : locked[t][b] \in BOOLEAN
  BY <1>1
<1>3. CASE \E u \in Targets : TargetStep(u) /\ WebFrame
  <2>1. PICK u \in Targets : TargetStep(u) /\ WebFrame
    BY <1>3
  <2>2. u # t /\ ProcessOf[u] # ProcessOf[t]
    BY <2>1 DEF OneTargetPerProcess
  <2>3. UNCHANGED <<poolBuffers, hostBuffer, held>>
    BY <2>1 DEF WebFrame, hostVars, appVars
  <2>4. /\ UNCHANGED <<poolID[t], phase[t], object[t], locked[t], toHost[ProcessOf[t]]>>
        /\ webUp'[ProcessOf[t]] => webUp[ProcessOf[t]]
    BY <1>1, <2>1, <2>2 DEF TargetStep, CreateTarget, Initialize, ReceiveReply, Resize, DestroyBufferPool,
       FrameAborts, CloseWeb, FrameReuses, FrameFailsToAllocate, FrameAllocates, FrameRendered, Deinitialize,
       DestroyTarget, SendToHost, webVars, ipcVars
  <2>5. \A o \in Objects : Back(o) => Back(o)'
    BY <2>3 DEF Back, HeldBy
  <2> QED
    BY <1>1, <1>2, <2>3, <2>4, <2>5, UseFrame DEF Live, InSlot, Sent
<1>4. CASE \E w \in Processes : (HandleWebMessage(w) \/ WebExits(w)) /\ WebFrame
  <2>1. UNCHANGED <<poolBuffers, hostBuffer, held, poolID, phase, object, toHost>>
    BY <1>4 DEF WebFrame, hostVars, appVars, HandleWebMessage, WebExits, webVars
  <2>2. webUp'[ProcessOf[t]] => webUp[ProcessOf[t]]
    BY <1>1, <1>4 DEF HandleWebMessage, WebExits, CloseWeb
  <2>3. \A o \in Objects : Back(o) => Back(o)'
    BY <2>1 DEF Back, HeldBy
  <2>4. \A b \in Slots, o \in Objects : InSlot(t, b, o)' =>
          /\ InSlot(t, b, o)
          /\ hostBuffer'[o] # None => hostBuffer[o] # None
          /\ locked'[t][b] \/ ~locked[t][b] \/ Returned(t, b, o)
    BY <1>2, <2>1, <2>2 DEF InSlot
  <2> QED
    BY <1>1, <2>1, <2>2, <2>3, <2>4, UseFrame DEF Live, Sent
<1>5. CASE \E w \in Processes : CreateClient(w) /\ HostFrame
  <2>1. PICK w \in Processes : CreateClient(w) /\ HostFrame
    BY <1>5
  <2>2. UNCHANGED <<poolBuffers, hostBuffer, held, poolID, phase, object, locked, toHost>>
    BY <2>1 DEF HostFrame, hostVars, appVars, CreateClient, OpenWeb, webVars
  <2>3. webUp'[ProcessOf[t]] => webUp[ProcessOf[t]]
    <3>1. Attached(ProcessOf[t]) /\ ~Attached(w)
      BY <2>1 DEF UpAttached, Young, CreateClient, Attach
    <3> QED
      BY <1>1, <2>1, <3>1 DEF CreateClient, OpenWeb
  <2>4. \A o \in Objects : Back(o) => Back(o)'
    BY <2>2 DEF Back, HeldBy
  <2> QED
    BY <1>1, <1>2, <2>2, <2>3, <2>4, UseFrame DEF Live, InSlot, Sent
<1>6. CASE \E u \in Processes : ProxyStep(u) /\ HostFrame
  <2>1. PICK u \in Processes : ProxyStep(u) /\ HostFrame
    BY <1>6
  <2>2. u # ProcessOf[t]
    BY <2>1
  <2>3. PICK h : h = Head(toHost[u])
    OBVIOUS
  <2>4. /\ h \in HostMessage /\ toHost[u] # <<>> /\ toHost[u] \in Seq(HostMessage)
        /\ toHost' = [toHost EXCEPT ![u] = Tail(toHost[u])]
        /\ ConstructPool(u) => h.code = "PoolConstruction"
        /\ BufferAllocation(u) => h \in Allocations(h.bufferID) \cap Carrying(h.object)
        /\ ~ConstructPool(u) => h.poolID \in PoolIDs
    BY <1>1, <2>1, <2>3, ProxyMessage
  <2>5. ~ConstructPool(u) => h.poolID # poolID[t]
    <3> SUFFICES ASSUME ~ConstructPool(u) PROVE h.poolID # poolID[t]
      OBVIOUS
    <3>1. h.code # "PoolConstruction"
      BY <2>1, <2>3 DEF ProxyStep, PurgePool, BufferAllocation, CommitToView, CommitWithoutView, Reads
    <3>2. PICK s \in Targets : ProcessOf[s] = u /\ Owns(s, h.poolID)
      BY <1>1, <2>3, <2>4, <3>1, HostHead
    <3>3. Owns(t, poolID[t])
      BY DEF Owns
    <3> QED
      BY <1>1, <2>2, <3>2, <3>3, OwnersClient
  <2>6. poolBuffers'[poolID[t]] = poolBuffers[poolID[t]]
    BY <1>1, <2>1, <2>3, <2>5 DEF ProxyStep, ConstructPool, PurgePool, BufferAllocation, CommitToView, CommitWithoutView
  <2>7. UNCHANGED <<poolID, phase, object, locked, webUp>> /\ toHost'[ProcessOf[t]] = toHost[ProcessOf[t]]
    BY <1>1, <2>1, <2>2, <2>4 DEF HostFrame, webVars, ProxyStep, ConstructPool, PurgePool, BufferAllocation,
       CommitToView, CommitWithoutView
  <2>8. ASSUME NEW b \in Slots, NEW o \in Objects, InSlot(t, b, o), hostBuffer'[o] # None
        PROVE  hostBuffer[o] # None
    <3>1. ASSUME BufferAllocation(u), o = h.object
          PROVE  FALSE
      <4>1. Brings(u, 1, o) /\ 1 \in 1 .. Len(toHost[u])
        BY <2>3, <2>4, <3>1, HeadTailProperties, LenProperties DEF Brings, Carrying
      <4> QED
        BY <1>1, <2>2, <2>8, <4>1 DEF HandlesPlaced
    <3> QED
      BY <1>1, <2>1, <2>3, <2>8, <3>1, ProxyBuffers
  <2>9. ASSUME NEW o \in Objects, Back(o), ~Back(o)'
        PROVE  \A b \in Slots : InPool(t, b) # o /\ ~InSlot(t, b, o)
    <3>1. PICK x \in Processes : CommitToView(x) /\ poolBuffers[Head(toHost[x]).poolID][Head(toHost[x]).bufferID] = o
      BY <1>1, <2>9, BackKept
    <3>2. x = u
      <4>1. Turn(x) /\ Turn(u)
        BY <2>1, <3>1 DEF CommitToView, Reads, ProxyStep, PurgePool, BufferAllocation, CommitWithoutView, ConstructPool
      <4> QED
        BY <1>1, <4>1, OneTurn
    <3>3. /\ h.poolID \in PoolIDs /\ h.bufferID \in Slots /\ poolBuffers[h.poolID][h.bufferID] = o
          /\ hostBuffer[o] # None /\ hostBuffer[o].poolID = h.poolID
      BY <1>1, <2>3, <3>1, <3>2, HeldAfterCommit
    <3>4. h.poolID # poolID[t]
      BY <2>3, <2>5, <3>1, <3>2 DEF CommitToView, ConstructPool, Reads
    <3>5. ASSUME NEW b \in Slots, poolBuffers[poolID[t]][b] = o PROVE FALSE
      <4>1. poolID[t] \in PoolIDs /\ SlotsPointToLive /\ o # None
        BY <1>1
      <4>2. hostBuffer[o].poolID = poolID[t]
        BY ONLY <3>5, <4>1 DEF SlotsPointToLive
      <4> QED
        BY <3>3, <3>4, <4>2
    <3>6. \A b \in Slots : ~InSlot(t, b, o)
      BY <1>1, <3>3, <3>4 DEF HandlesPlaced
    <3> QED
      BY <3>5, <3>6 DEF InPool
  <2> QED
    BY <1>1, <1>2, <2>6, <2>7, <2>8, <2>9, UseFrame DEF Live, InSlot, Sent
<1>7. ASSUME UNCHANGED <<webVars, toHost, webUp, poolBuffers>>,
             \A o \in Objects : hostBuffer'[o] # None => hostBuffer[o] # None
      PROVE  UseOf(t)'
  <2>1. \A o \in Objects : Back(o) => Back(o)'
    BY <1>1, <1>7, ReadsChange, BackKept DEF ProxyStep
  <2> QED
    BY <1>1, <1>2, <1>7, <2>1, UseFrame DEF Live, InSlot, Sent, webVars
<1>8. CASE \/ \E v \in Views : /\ CreateView(v) \/ HandleViewMessage(v) \/ DestroyView(v) \/ DispatchFrameComplete(v)
                               /\ ViewFrame
           \/ Poll /\ HostFrame /\ UNCHANGED <<hostVars, appVars>>
           \/ UNCHANGED vars
  <2>1. UNCHANGED <<webVars, toHost, webUp, poolBuffers, hostBuffer>>
    BY <1>8 DEF CreateView, OpenView, HandleViewMessage, DestroyView, CloseView, DispatchFrameComplete, FrameComplete,
       Poll, ViewFrame, HostFrame, hostVars, ipcVars, vars
  <2> QED
    BY <1>7, <2>1
<1>9. CASE \E v \in Views : ReleaseStep(v) /\ ViewFrame
  <2>1. PICK v \in Views : ReleaseStep(v) /\ ViewFrame
    BY <1>9
  <2>2. PICK i \in 1 .. Len(held[v]) : DispatchReleaseBuffer(v, i)
    BY <2>1 DEF ReleaseStep
  <2>3. held[v][i] \in Objects /\ ReleaseBuffer(held[v][i])
    BY <1>1, <2>2, HeldAfterRelease
  <2>4. UNCHANGED <<webVars, toHost, webUp, poolBuffers>>
    BY <2>1, <2>2, <2>3 DEF ViewFrame, DispatchReleaseBuffer, ReleaseBuffer
  <2>5. \A o \in Objects : hostBuffer'[o] # None => hostBuffer[o] # None
    BY <1>1, <2>3, ReleasedBuffers
  <2> QED
    BY <1>7, <2>4, <2>5
<1> QED
  BY <1>3, <1>4, <1>5, <1>6, <1>8, <1>9 DEF Next

(* The pool a target is answered with is its own, and new.                 *)
LEMMA FreshPool ==
  ASSUME OneTargetPerProcess, HandleInv, NEW t \in Targets, Young(t), ReceiveReply(t), WebFrame
  PROVE  \E q \in PoolIDs :
           /\ poolID'[t] = q /\ ~Owned(q)
           /\ Sent(t)' = <<>> /\ toWeb'[ProcessOf[t]] = <<>>
           /\ \A b \in Slots : object'[t][b] = None
<1> DEFINE w == ProcessOf[t]
<1>1. /\ TypeOK /\ Handshake /\ TargetsRegistered /\ w \in Processes
      /\ poolID \in [Targets -> PoolIDs] /\ toWeb \in [Processes -> Seq(WebMessage)]
      /\ poolClient \in [PoolIDs -> Processes \cup {None}] /\ None \notin Processes /\ None \notin Objects
  BY IpcAssumption DEF HandleInv, PageInv, MapInv, HeapInv, TypeOK, IpcTypeOK, WebTypeOK, HostTypeOK
<1>2. /\ phase[t] = "constructing" /\ toWeb[w] # <<>> /\ webUp[w] /\ UNCHANGED <<toHost, object>>
      /\ toWeb' = [toWeb EXCEPT ![w] = Tail(toWeb[w])]
  BY DEF ReceiveReply, Received
<1>3. PICK q \in PoolIDs : OnlyPool(w, q) /\ toWeb[w] = <<PoolConstructionReplyMsg(q)>> /\ toHost[w] = <<>>
  BY <1>1, <1>2 DEF Handshake, HandshakeAt, Asked, Answered
<1>4. poolID'[t] = q
  <2>1. Head(toWeb[w]) = PoolConstructionReplyMsg(q)
    BY <1>3
  <2> QED
    BY <1>1, <2>1 DEF ReceiveReply, PoolConstructionReplyMsg
<1>5. ASSUME Owned(q) PROVE FALSE
  <2>1. PICK s \in Targets : Owns(s, q)
    BY <1>5 DEF Owned
  <2>2. OnlyPool(ProcessOf[s], q)
    BY <1>1, <2>1, HandshakeOf DEF Owns
  <2>3. ProcessOf[s] = w
    BY <1>3, <2>2 DEF OnlyPool
  <2> QED
    BY <2>1, <2>3 DEF OneTargetPerProcess, Owns
<1>6. \A b \in Slots : object'[t][b] = None
  BY <1>1, <1>2 DEF TargetsRegistered
<1>7. Sent(t)' = <<>>
  BY <1>2, <1>3 DEF Sent
<1>8. toWeb'[w] = <<>>
  <2>1. toWeb'[w] = Tail(toWeb[w])
    BY <1>1, <1>2
  <2> QED
    BY <1>3, <2>1
<1> QED
  BY <1>4, <1>5, <1>6, <1>7, <1>8

(* A target that is answered has sent nothing, and its pool is new.        *)
LEMMA UseStart ==
  ASSUME OneTargetPerProcess, HandleInv, NEW t \in Targets, Young(t), ReceiveReply(t), WebFrame
  PROVE  UseOf(t)'
<1>1. PoolsOwned /\ None \notin Objects /\ UNCHANGED poolBuffers
  BY IpcAssumption DEF HandleInv, PageInv, WebFrame, hostVars
<1>2. PICK q \in PoolIDs :
        /\ poolID'[t] = q /\ ~Owned(q)
        /\ Sent(t)' = <<>> /\ \A b \in Slots : object'[t][b] = None
  BY FreshPool
<1>3. /\ \A b \in Slots : InPool(t, b)' = None /\ object'[t][b] = None
      /\ Sent(t)' = <<>> /\ Unread(t)' = 0
  <2>1. \A b \in Slots : poolBuffers[q][b] = None
    BY <1>1, <1>2 DEF PoolsOwned
  <2>2. Unread(t)' = 0
    BY <1>2 DEF Unread
  <2> QED
    BY <1>1, <1>2, <2>1, <2>2 DEF InPool
<1>4. \A i \in 1 .. 0 : FALSE
  OBVIOUS
<1>5. SlotsAgree(t)'
  BY <1>3, <1>4 DEF SlotsAgree, Emptied, Followed
<1>6. NewestLast(t)' /\ UnlockedReturned(t)'
  BY <1>1, <1>3 DEF NewestLast, UnlockedReturned, InSlot
<1>7. AllocatesEmpty(t)' /\ CommittedOnce(t)'
  BY <1>3, <1>4 DEF AllocatesEmpty, CommittedOnce
<1> QED
  BY <1>5, <1>6, <1>7 DEF UseOf

(* A slot that is drawn into is not locked before the frame is rendered.   *)
LEMMA DrawsStep ==
  ASSUME TypeOK, DrawsUnlocked, [Next]_vars
  PROVE  DrawsUnlocked'
<1>1. /\ locked \in [Targets -> [Slots -> BOOLEAN]]
      /\ current \in [Targets -> Slots \cup {None}] /\ None \notin Slots
  BY IpcAssumption DEF TypeOK, WebTypeOK
<1>2. CASE \E u \in Targets : TargetStep(u)
  <2>1. PICK u \in Targets : TargetStep(u)
    BY <1>2
  <2>2. CASE Resize(u) \/ Deinitialize(u)
    <3>1. UNCHANGED current /\ locked' = [locked EXCEPT ![u] = [b \in Slots |-> FALSE]]
      BY <2>2 DEF Resize, Deinitialize, DestroyBufferPool
    <3> QED
      BY <1>1, <3>1 DEF DrawsUnlocked
  <2>3. CASE FrameRendered(u)
    <3>1. current' = [current EXCEPT ![u] = None] /\ locked' = [locked EXCEPT ![u][current[u]] = TRUE]
      BY <2>3 DEF FrameRendered
    <3> QED
      BY <1>1, <3>1 DEF DrawsUnlocked
  <2>4. CASE \E b \in Slots : \/ FrameReuses(u, b) \/ FrameFailsToAllocate(u, b)
                              \/ \E o \in Objects : FrameAllocates(u, b, o)
    <3>1. PICK b \in Slots : \/ FrameReuses(u, b) \/ FrameFailsToAllocate(u, b)
                             \/ \E o \in Objects : FrameAllocates(u, b, o)
      BY <2>4
    <3>2. current' = [current EXCEPT ![u] = b] /\ UNCHANGED locked /\ ~locked[u][b]
      BY <3>1 DEF FrameReuses, FrameFailsToAllocate, FrameAllocates, FirstUnlocked
    <3> QED
      BY <1>1, <3>2 DEF DrawsUnlocked
  <2>5. CASE UNCHANGED <<current, locked>>
    BY <2>5 DEF DrawsUnlocked
  <2> QED
    BY <2>1, <2>2, <2>3, <2>4, <2>5 DEF TargetStep, CreateTarget, Initialize, ReceiveReply, FrameAborts, DestroyTarget,
       webVars
<1>3. CASE \E w \in Processes : HandleWebMessage(w)
  <2>1. PICK w \in Processes : HandleWebMessage(w)
    BY <1>3
  <2>2. UNCHANGED current /\ \A t \in Targets, b \in Slots : locked'[t][b] => locked[t][b]
    <3>1. PICK x, c : UNCHANGED locked \/ locked' = [locked EXCEPT ![x][c] = FALSE]
      BY <2>1 DEF HandleWebMessage
    <3>2. UNCHANGED current
      BY <2>1 DEF HandleWebMessage
    <3> QED
      BY <1>1, <3>1, <3>2
  <2> QED
    BY <1>1, <2>2 DEF DrawsUnlocked
<1>4. CASE UNCHANGED <<current, locked>>
  BY <1>4 DEF DrawsUnlocked
<1> QED
  BY <1>2, <1>3, <1>4 DEF Next, WebExits, HostFrame, ViewFrame, webVars, vars

(* A proxy hands out a buffer that is back, and deletes none that is not.  *)
LEMMA ProxyHeld ==
  ASSUME HandleInv, HeldOnce, HeldBuffersAlive, \A t \in Targets : ~Young(t) => UseOf(t),
         NEW w \in Processes, ProxyStep(w)
  PROVE  HeldOnce' /\ HeldBuffersAlive'
<1>1. /\ TypeOK /\ HeapInv /\ Handshake /\ HandlesPlaced
      /\ poolBuffers \in [PoolIDs -> [Slots -> Objects \cup {None}]]
      /\ hostBuffer \in [Objects -> Buffer \cup {None}] /\ None \notin Buffer
      /\ held \in [Views -> Seq(Objects)]
      /\ None \notin Objects
  BY IpcAssumption, RendererHostAssumption DEF HandleInv, PageInv, MapInv, HeapInv, TypeOK, HostTypeOK
<1>2. PICK h : h = Head(toHost[w])
  OBVIOUS
<1>3. /\ h \in HostMessage /\ toHost[w] # <<>> /\ toHost[w] \in Seq(HostMessage)
      /\ ConstructPool(w) => h.code = "PoolConstruction"
      /\ BufferAllocation(w) => h \in Allocations(h.bufferID) \cap Carrying(h.object)
      /\ CommitToView(w) \/ CommitWithoutView(w) => h \in Commits(h.bufferID)
      /\ ~ConstructPool(w) => h.poolID \in PoolIDs
      /\ BufferAllocation(w) => h.bufferID \in Slots /\ h.object \in Objects
      /\ CommitToView(w) \/ CommitWithoutView(w) => h.bufferID \in Slots
  BY <1>1, <1>2, ProxyMessage
<1>4. ASSUME BufferAllocation(w) \/ CommitToView(w) \/ CommitWithoutView(w)
      PROVE  /\ BufferAllocation(w) => poolBuffers[h.poolID][h.bufferID] = None
             /\ \A v \in Views, o \in Objects : poolBuffers[h.poolID][h.bufferID] = o => ~HeldBy(v, o)
  <2>1. h.code # "PoolConstruction"
    BY <1>2, <1>4 DEF BufferAllocation, CommitToView, CommitWithoutView, Reads
  <2>2. PICK t \in Targets : ProcessOf[t] = w /\ Owns(t, h.poolID)
    BY <1>1, <1>2, <1>3, <2>1, HostHead
  <2>3. UseOf(t) /\ h.poolID = poolID[t]
    BY <2>2 DEF Owns
  <2>4. Sent(t)[1] = h /\ 1 \in 1 .. Unread(t)
    BY <1>2, <1>3, <2>2, HeadTailProperties, LenProperties DEF Sent, Unread
  <2>5. \A M : ~Among(Sent(t), M, 1 - 1)
    BY DEF Among
  <2>6. ASSUME BufferAllocation(w)
        PROVE  poolBuffers[h.poolID][h.bufferID] = None
    <3>1. Emptied(t, h.bufferID, 1 - 1)
      BY <1>3, <2>3, <2>4, <2>6 DEF UseOf, AllocatesEmpty
    <3> QED
      BY <2>3, <2>5, <3>1 DEF Emptied, InPool
  <2>7. ASSUME CommitToView(w) \/ CommitWithoutView(w), poolBuffers[h.poolID][h.bufferID] # None
        PROVE  Back(poolBuffers[h.poolID][h.bufferID])
    <3>1. Back(InPool(t, h.bufferID)) \/ Among(Sent(t), Refills(h.bufferID), 1 - 1)
      BY <1>3, <2>3, <2>4, <2>7 DEF UseOf, CommittedOnce, InPool
    <3> QED
      BY <2>3, <2>5, <3>1 DEF InPool
  <2> QED
    BY <1>1, <1>4, <2>6, <2>7 DEF Back
<1>5. CASE CommitToView(w)
  <2>1. PICK x \in Objects, v \in Views :
          /\ x = poolBuffers[h.poolID][h.bufferID] /\ hostBuffer'[x] # None /\ hostBuffer'[x].locked
          /\ \A o \in Objects : o # x => hostBuffer'[o] = hostBuffer[o]
          /\ held' = [held EXCEPT ![v] = Append(@, x)]
          /\ \A u \in Views : \A o \in Objects : HeldBy(u, o)' <=> HeldBy(u, o) \/ (u = v /\ o = x)
    <3> DEFINE x == poolBuffers[Head(toHost[w]).poolID][Head(toHost[w]).bufferID]
               v == viewBackendMap[Head(toHost[w]).poolID]
    <3>1. /\ x \in Objects /\ v \in Views /\ hostBuffer'[x] # None /\ hostBuffer'[x].locked
          /\ \A o \in Objects : o # x => hostBuffer'[o] = hostBuffer[o]
          /\ held' = [held EXCEPT ![v] = Append(@, x)]
          /\ \A u \in Views : \A o \in Objects : HeldBy(u, o)' <=> HeldBy(u, o) \/ (u = v /\ o = x)
      BY <1>1, <1>5, HeldAfterCommit
    <3>2. x = poolBuffers[h.poolID][h.bufferID]
      BY <1>2
    <3> HIDE DEF x, v
    <3> QED
      BY <3>1, <3>2
  <2>2. \A u \in Views : ~HeldBy(u, x)
    BY <1>4, <1>5, <2>1
  <2>3. HeldBuffersAlive'
    BY <2>1 DEF HeldBuffersAlive
  <2>4. ASSUME NEW u \in Views, NEW i \in 1 .. Len(held'[u])
        PROVE  \/ i \in 1 .. Len(held[u]) /\ held'[u][i] = held[u][i] /\ held'[u][i] # x
               \/ u = v /\ i = Len(held[v]) + 1 /\ held'[u][i] = x
    <3>1. \/ i \in 1 .. Len(held[u]) /\ held'[u][i] = held[u][i]
          \/ u = v /\ i = Len(held[v]) + 1 /\ held'[u][i] = x
      BY <1>1, <2>1, <2>4, SentElements
    <3> QED
      BY <2>2, <3>1 DEF HeldBy
  <2>5. HeldOnce'
    <3> SUFFICES ASSUME NEW u \in Views, NEW y \in Views, NEW i \in 1 .. Len(held'[u]), NEW j \in 1 .. Len(held'[y]),
                        held'[u][i] = held'[y][j]
                 PROVE  u = y /\ i = j
      BY DEF HeldOnce
    <3>1. CASE held'[u][i] = x
      BY ONLY <2>4, <3>1, u \in Views, y \in Views, i \in 1 .. Len(held'[u]), j \in 1 .. Len(held'[y]),
              held'[u][i] = held'[y][j]
    <3>2. CASE held'[u][i] # x
      <4>1. /\ i \in 1 .. Len(held[u]) /\ held'[u][i] = held[u][i]
            /\ j \in 1 .. Len(held[y]) /\ held'[y][j] = held[y][j]
        BY ONLY <2>4, <3>2, u \in Views, y \in Views, i \in 1 .. Len(held'[u]), j \in 1 .. Len(held'[y]),
                held'[u][i] = held'[y][j]
      <4>2. PICK k1 \in 1 .. Len(held[u]), k2 \in 1 .. Len(held[y]) :
              k1 = i /\ k2 = j /\ held[u][k1] = held[y][k2]
        BY <4>1
      <4>3. u = y /\ k1 = k2
        BY <4>2 DEF HeldOnce
      <4> QED
        BY <4>2, <4>3
    <3> QED
      BY <3>1, <3>2
  <2> QED
    BY <2>3, <2>5
<1>6. ASSUME ~CommitToView(w)
      PROVE  HeldOnce' /\ \A v \in Views, o \in Objects : HeldBy(v, o)' <=> HeldBy(v, o)
  <2>1. UNCHANGED held
    BY <1>6 DEF ProxyStep, ConstructPool, PurgePool, BufferAllocation, CommitWithoutView, appVars
  <2> QED
    BY <2>1 DEF HeldOnce, HeldBy
<1>7. ASSUME ~CommitToView(w), NEW v \in Views, NEW o \in Objects, HeldBy(v, o)
      PROVE  hostBuffer'[o] # None /\ hostBuffer'[o].locked
  <2>1. hostBuffer[o] # None /\ hostBuffer[o].locked /\ hostBuffer[o] \in Buffer
    BY <1>1, <1>7 DEF HeldBuffersAlive
  <2>2. CASE ConstructPool(w)
    BY <2>1, <2>2 DEF ConstructPool
  <2>3. CASE PurgePool(w)
    <3>1. hostBuffer'[o] = hostBuffer[o] \/ hostBuffer'[o] = AfterPurge(hostBuffer[o])
      BY <2>3 DEF PurgePool
    <3>2. AfterPurge(hostBuffer[o]) = [hostBuffer[o] EXCEPT !.pendingDelete = TRUE] /\ None \notin Buffer
      BY <1>1, <2>1 DEF AfterPurge
    <3> QED
      BY ONLY <2>1, <3>1, <3>2 DEF Buffer
  <2>4. CASE BufferAllocation(w)
    <3>1. o # h.object
      BY <1>1, <1>2, <1>3, <2>1, <2>4, FreshHead DEF Carrying
    <3>2. poolBuffers[h.poolID][h.bufferID] # o
      BY <1>1, <1>4, <2>4
    <3>3. hostBuffer'[o] = hostBuffer[o]
      BY <1>2, <2>4, <3>1, <3>2 DEF BufferAllocation
    <3> QED
      BY <2>1, <3>3
  <2>5. CASE CommitWithoutView(w)
    <3>1. poolBuffers[h.poolID][h.bufferID] # o
      BY <1>4, <1>7, <2>5
    <3>2. hostBuffer'[o] = hostBuffer[o]
      BY <1>2, <2>5, <3>1 DEF CommitWithoutView
    <3> QED
      BY <2>1, <3>2
  <2> QED
    BY <1>7, <2>2, <2>3, <2>4, <2>5 DEF ProxyStep
<1> QED
  BY <1>5, <1>6, <1>7 DEF HeldBuffersAlive

(* What the application releases it no longer holds.                       *)
LEMMA HeldStep ==
  ASSUME HandleInv, HeldOnce, HeldBuffersAlive, \A t \in Targets : ~Young(t) => UseOf(t), [Next]_vars
  PROVE  HeldOnce' /\ HeldBuffersAlive'
<1>1. /\ TypeOK /\ HeapInv /\ held \in [Views -> Seq(Objects)]
  BY DEF HandleInv, PageInv, MapInv, HeapInv, TypeOK, HostTypeOK
<1>2. CASE \E w \in Processes : ProxyStep(w)
  BY <1>2, ProxyHeld
<1>3. CASE \E v \in Views : ReleaseStep(v)
  <2>1. PICK v \in Views : \E i \in 1 .. Len(held[v]) : DispatchReleaseBuffer(v, i)
    BY <1>3 DEF ReleaseStep
  <2>2. PICK i \in 1 .. Len(held[v]) : DispatchReleaseBuffer(v, i)
    BY <2>1
  <2> DEFINE k(u, j) == IF u = v /\ ~(j < i) THEN j + 1 ELSE j
  <2>3. /\ held[v][i] \in Objects /\ ReleaseBuffer(held[v][i])
        /\ \A u \in Views : \A j \in 1 .. Len(held'[u]) :
             k(u, j) \in 1 .. Len(held[u]) /\ held'[u][j] = held[u][k(u, j)] /\ (u = v => k(u, j) # i)
    BY <1>1, <2>2, HeldAfterRelease
  <2>4. \A u \in Views : \A i1, i2 \in 1 .. Len(held'[u]) : k(u, i1) = k(u, i2) => i1 = i2
    <3>1. i \in Int /\ \A u \in Views : \A j \in 1 .. Len(held'[u]) : j \in Int
      OBVIOUS
    <3> QED
      BY <3>1
  <2> HIDE DEF k
  <2>5. HeldOnce'
    <3> SUFFICES ASSUME NEW u \in Views, NEW y \in Views, NEW i1 \in 1 .. Len(held'[u]), NEW i2 \in 1 .. Len(held'[y]),
                        held'[u][i1] = held'[y][i2]
                 PROVE  u = y /\ i1 = i2
      BY DEF HeldOnce
    <3>1. /\ k(u, i1) \in 1 .. Len(held[u]) /\ held'[u][i1] = held[u][k(u, i1)]
          /\ k(y, i2) \in 1 .. Len(held[y]) /\ held'[y][i2] = held[y][k(y, i2)]
      BY <2>3
    <3>2. u = y /\ k(u, i1) = k(y, i2)
      <4>1. PICK k1 \in 1 .. Len(held[u]), k2 \in 1 .. Len(held[y]) :
              k1 = k(u, i1) /\ k2 = k(y, i2) /\ held[u][k1] = held[y][k2]
        BY <3>1
      <4>2. u = y /\ k1 = k2
        BY <4>1 DEF HeldOnce
      <4> QED
        BY <4>1, <4>2
    <3> QED
      BY <2>4, <3>2
  <2>6. ASSUME NEW u \in Views, NEW j \in 1 .. Len(held'[u])
        PROVE  held'[u][j] # held[v][i] /\ HeldBy(u, held'[u][j])
    <3>1. PICK n \in 1 .. Len(held[u]) : held'[u][j] = held[u][n] /\ (u = v => n # i)
      BY <2>3, <2>6
    <3>2. held[u][n] # held[v][i]
      BY ONLY <3>1, HeldOnce, u \in Views, v \in Views, i \in 1 .. Len(held[v]) DEF HeldOnce
    <3> QED
      BY <3>1, <3>2 DEF HeldBy
  <2>7. \A o \in Objects : o # held[v][i] => hostBuffer'[o] = hostBuffer[o]
    BY <1>1, <2>3, ReleasedBuffers
  <2>8. HeldBuffersAlive'
    <3> SUFFICES ASSUME NEW u \in Views, NEW o \in Objects, HeldBy(u, o)'
                 PROVE  (hostBuffer[o] # None /\ hostBuffer[o].locked)'
      BY DEF HeldBuffersAlive
    <3>1. PICK j \in 1 .. Len(held'[u]) : held'[u][j] = o
      BY DEF HeldBy
    <3>2. hostBuffer'[o] = hostBuffer[o] /\ HeldBy(u, o)
      BY <2>6, <2>7, <3>1
    <3> QED
      BY <3>2 DEF HeldBuffersAlive
  <2> QED
    BY <2>5, <2>8
<1>4. CASE UNCHANGED hostBuffer /\ (UNCHANGED held \/ \E v \in Views : held' = [held EXCEPT ![v] = <<>>])
  <2>1. \A v \in Views : held'[v] = held[v] \/ held'[v] = <<>>
    BY <1>1, <1>4
  <2>2. \A v \in Views : \A i \in 1 .. Len(held'[v]) : i \in 1 .. Len(held[v]) /\ held'[v][i] = held[v][i]
    BY <2>1, EmptyQueue
  <2> QED
    BY <1>4, <2>2 DEF HeldOnce, HeldBuffersAlive, HeldBy
<1> QED
  BY <1>2, <1>3, <1>4 DEF Next, HandleWebMessage, WebExits, CreateClient, Poll, CreateView, HandleViewMessage,
     DestroyView, DispatchFrameComplete, FrameComplete, WebFrame, HostFrame, ViewFrame, hostVars, appVars, vars

-----------------------------------------------------------------------------
(* The invariant.                                                          *)

(* A target comes by its pool in ReceiveReply.                             *)
LEMMA Answering ==
  ASSUME TypeOK, NEW t \in Targets, Young(t), ~Young(t)', [Next]_vars
  PROVE  ReceiveReply(t) /\ WebFrame
<1>1. phase \in [Targets -> Phases]
  BY DEF TypeOK, WebTypeOK
<1>2. phase'[t] # phase[t] /\ phase[t] \in {"none", "created", "constructing"}
      /\ phase'[t] \notin {"none", "created", "constructing"}
  BY DEF Young
<1>3. PICK u \in Targets : TargetStep(u) /\ WebFrame
  BY <1>2 DEF Next, HandleWebMessage, WebExits, HostFrame, ViewFrame, webVars, vars
<1>4. u = t
  BY <1>1, <1>2, <1>3 DEF TargetStep, CreateTarget, Initialize, ReceiveReply, Resize, FrameAborts, FrameReuses,
     FrameFailsToAllocate, FrameAllocates, FrameRendered, Deinitialize, DestroyTarget, webVars
<1> QED
  BY <1>1, <1>2, <1>3, <1>4 DEF TargetStep, CreateTarget, Initialize, Resize, FrameAborts, FrameReuses,
     FrameFailsToAllocate, FrameAllocates, FrameRendered, Deinitialize, DestroyTarget, Callable, webVars

(* Steps that unlock no slot whose buffer is still with the application    *)
(* keep the invariant.                                                     *)
LEMMA UseStep ==
  ASSUME OneTargetPerProcess, PoolInv, UpAttached, UseInv, [Next]_vars, [UnlocksReturned]_vars
  PROVE  UseInv'
<1>1. TypeOK /\ HandleInv /\ Handshake
  BY DEF UseInv, HandleInv, PageInv, MapInv, HeapInv
<1>2. HandleInv'
  BY <1>1, HandleStep
<1>3. DrawsUnlocked' /\ HeldOnce' /\ HeldBuffersAlive'
  BY <1>1, DrawsStep, HeldStep DEF UseInv
<1>4. ASSUME NEW t \in Targets, ~Young(t)'
      PROVE  UseOf(t)'
  <2>1. CASE Young(t)
    BY <1>1, <1>4, <2>1, Answering, UseStart
  <2>2. CASE ~Young(t) /\ TargetStep(t) /\ WebFrame
    BY <1>1, <2>2, TargetUse DEF UseInv
  <2>3. CASE ~Young(t) /\ ProxyStep(ProcessOf[t]) /\ HostFrame
    BY <1>1, <2>3, UseReceived DEF UseInv
  <2>4. CASE ~Young(t) /\ ~(TargetStep(t) /\ WebFrame) /\ ~(ProxyStep(ProcessOf[t]) /\ HostFrame)
    <3>1. ASSUME NEW b \in Slots, NEW o \in Objects,
                 InSlot(t, b, o), locked[t][b], ~locked'[t][b], UNCHANGED object
          PROVE  Returned(t, b, o)
      <4>1. o = object[t][b] /\ o # None /\ object'[t][b] = o
        BY <3>1, IpcAssumption DEF InSlot
      <4>2. UnlocksReturned
        BY <3>1 DEF vars, webVars
      <4>3. Back(o) /\ ~CommitInTransit(ProcessOf[t], poolID[t], b)
        BY <3>1, <4>1, <4>2 DEF UnlocksReturned, Back
      <4> QED
        BY <1>1, <2>4, <4>3, ReturnedAtUnlock
    <3> QED
      BY <1>1, <2>4, <3>1, UseOther DEF UseInv
  <2> QED
    BY <2>1, <2>2, <2>3, <2>4
<1> QED
  BY <1>2, <1>3, <1>4 DEF UseInv

(* It holds at the start.                                                  *)
LEMMA UseInit == Init => UseInv
<1> SUFFICES ASSUME Init PROVE UseInv
  OBVIOUS
<1>1. HandleInv
  BY HandleStart
<1>2. \A t \in Targets : Young(t) /\ current[t] = None
  BY DEF Init, WebInit, Young
<1>3. \A v \in Views : held[v] = <<>>
  BY DEF Init, HostInit
<1>4. HeldOnce /\ HeldBuffersAlive
  BY <1>3, EmptyQueue DEF HeldOnce, HeldBuffersAlive, HeldBy
<1> QED
  BY <1>1, <1>2, <1>4 DEF UseInv, DrawsUnlocked

(* The order of the messages and the flags of both processes give a buffer *)
(* one user at a time, as long as no slot is unlocked by a release that    *)
(* was not of its buffer.                                                  *)
THEOREM UseInvariant ==
  ASSUME OneTargetPerProcess
  PROVE  Spec /\ ReleaseUnlocksReturned => []UseInv
<1>1. Spec => [](PoolInv /\ LockInv)
  BY Background
<1>2. PoolInv /\ LockInv /\ UseInv /\ [Next]_vars /\ [UnlocksReturned]_vars => UseInv'
  BY UseStep DEF LockInv
<1> QED
  BY <1>1, <1>2, UseInit, PTL DEF Spec, ReleaseUnlocksReturned

(* A buffer the application holds is neither deleted by PoolPurge nor      *)
(* replaced by bufferAllocation (renderer-host.cpp:200, 216), resizes      *)
(* included, as long as releaseBuffer of the target unlocks a slot for its *)
(* own buffer only.                                                        *)
THEOREM HeldWhileReturned ==
  ASSUME OneTargetPerProcess
  PROVE  Spec /\ ReleaseUnlocksReturned => []HeldBuffersAlive
<1>1. UseInv => HeldBuffersAlive
  BY DEF UseInv
<1> QED
  BY <1>1, UseInvariant, PTL
=============================================================================
