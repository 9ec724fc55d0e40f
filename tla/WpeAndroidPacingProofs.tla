------------------------ MODULE WpeAndroidPacingProofs ------------------------
(***************************************************************************)
(* Theorems about WpeAndroid with one target: the pacing of its frames,    *)
(* and what it does for a target that is resized.                          *)
(***************************************************************************)
EXTENDS WpeAndroidCommitProofs, FiniteSetTheorems

-----------------------------------------------------------------------------
(* What a step does to Paced.                                              *)

(* A target sends something: a commit only when nothing is under way.      *)
LEMMA PacedSent ==
  ASSUME NEW sent \in Seq(HostMessage), NEW unseen, NEW pending, NEW shown, NEW m,
         Paced(sent, unseen, pending, shown),
         m \in AnyCommit => ~Committing(sent) /\ pending = <<>> /\ ~Completing(unseen)
  PROVE  /\ Paced(Append(sent, m), unseen, pending, shown)
         /\ Committing(Append(sent, m)) <=> m \in AnyCommit \/ Committing(sent)
<1> DEFINE r == Append(sent, m)
<1>1. r = Append(sent, m)
  OBVIOUS
<1> HIDE DEF r
<1>2. Committing(r) <=> m \in AnyCommit \/ Committing(sent)
  BY <1>1, AmongAppended DEF Committing
<1>3. NeverAfter(sent, AnyCommit, AnyCommit, Len(sent))
  BY DEF Paced, Committing, NeverAfter, Among
<1>4. NeverAfter(r, AnyCommit, AnyCommit, Len(r))
        <=> NeverAfter(sent, AnyCommit, AnyCommit, Len(sent)) /\ (m \in AnyCommit => ~Committing(sent))
  BY ONLY sent \in Seq(HostMessage), <1>1, NeverAppended DEF Committing
<1> QED
  BY <1>1, <1>2, <1>3, <1>4 DEF Paced

(* A proxy reads something: a commit that it passes on is to be completed. *)
LEMMA PacedRead ==
  ASSUME NEW sent \in Seq(HostMessage), sent # <<>>, NEW unseen \in Seq(WebMessage), NEW pending, NEW shown \in Nat,
         Paced(sent, unseen, pending, shown)
  PROVE  /\ Paced(Tail(sent), unseen, pending, shown)
         /\ Committing(Tail(sent)) => Committing(sent)
         /\ Head(sent) \in AnyCommit => Committing(sent)
         /\ Head(sent) \in AnyCommit => \A p : Paced(Tail(sent), unseen, <<p>>, shown + 1)
<1> DEFINE r == Tail(sent)
<1>1. r = Tail(sent)
  OBVIOUS
<1> HIDE DEF r
<1>2. Len(r) \in Nat /\ Len(sent) = Len(r) + 1 /\ Len(r) \in 0 .. Len(r)
  BY <1>1, ReadLength
<1>3. Committing(sent) <=> Head(sent) \in AnyCommit \/ Committing(r)
  <2>1. Among(sent, AnyCommit, Len(r) + 1) <=> Head(sent) \in AnyCommit \/ Among(r, AnyCommit, Len(r))
    BY ONLY sent \in Seq(HostMessage), sent # <<>>, <1>1, <1>2, AmongRead
  <2> QED
    BY <1>2, <2>1 DEF Committing
<1>4. Committing(sent) => /\ NeverAfter(r, AnyCommit, AnyCommit, Len(r))
                          /\ Head(sent) \in AnyCommit => ~Committing(r)
  <2>1. NeverAfter(sent, AnyCommit, AnyCommit, Len(r) + 1)
          <=> NeverAfter(r, AnyCommit, AnyCommit, Len(r)) /\ (Head(sent) \in AnyCommit => ~Among(r, AnyCommit, Len(r)))
    BY ONLY sent \in Seq(HostMessage), sent # <<>>, <1>1, <1>2, FollowedRead
  <2> QED
    BY <1>2, <2>1 DEF Paced, Committing
<1>5. Paced(r, unseen, pending, shown)
  BY <1>3, <1>4 DEF Paced
<1>6. ASSUME Head(sent) \in AnyCommit, NEW p
      PROVE  Paced(r, unseen, <<p>>, shown + 1)
  <2>1. ~Committing(r) /\ pending = <<>> /\ ~Completing(unseen) /\ Len(unseen) + shown <= MaxHeld
    BY <1>3, <1>4, <1>6 DEF Paced
  <2>2. Len(unseen) \in Nat /\ MaxHeld \in Nat
    BY ViewBackendAssumption
  <2>3. <<p>> # <<>> /\ Len(<<p>>) = 1
    OBVIOUS
  <2>4. \A i \in 1 .. Len(unseen) : unseen[i] \notin Completions
    BY <2>1 DEF Completing, Among
  <2>5. shown + 1 > 0 /\ Len(unseen) + (shown + 1) <= MaxHeld + 1
    BY <2>1, <2>2
  <2> HIDE DEF Completing, Committing
  <2>6. NeverAfter(unseen, Completions, Completions, Len(unseen))
    BY DEF Paced
  <2> QED
    BY <2>1, <2>3, <2>4, <2>5, <2>6 DEF Paced
<1> QED
  BY <1>1, <1>3, <1>5, <1>6

(* A web process reads something.                                          *)
LEMMA PacedSeen ==
  ASSUME NEW sent, NEW unseen \in Seq(WebMessage), unseen # <<>>, NEW pending, NEW shown \in Nat,
         Paced(sent, unseen, pending, shown)
  PROVE  /\ Paced(sent, Tail(unseen), pending, shown)
         /\ Completing(Tail(unseen)) => Completing(unseen)
         /\ Head(unseen) \in Completions =>
              ~Committing(sent) /\ pending = <<>> /\ ~Completing(Tail(unseen))
<1> DEFINE r == Tail(unseen)
<1>1. r = Tail(unseen)
  OBVIOUS
<1> HIDE DEF r
<1>2. /\ Len(r) \in Nat /\ Len(unseen) = Len(r) + 1 /\ Len(r) \in 0 .. Len(r) /\ MaxHeld \in Nat
      /\ unseen[1] = Head(unseen) /\ \A i \in 1 .. Len(r) : r[i] = unseen[i + 1]
  BY <1>1, ReadLength, ViewBackendAssumption
<1>3. Completing(unseen) <=> Head(unseen) \in Completions \/ Completing(r)
  <2>1. Among(unseen, Completions, Len(r) + 1) <=> Head(unseen) \in Completions \/ Among(r, Completions, Len(r))
    BY ONLY unseen \in Seq(WebMessage), unseen # <<>>, <1>1, <1>2, AmongRead
  <2> QED
    BY <1>2, <2>1 DEF Completing
<1>4. /\ NeverAfter(r, Completions, Completions, Len(r))
      /\ Head(unseen) \in Completions => ~Completing(r)
  <2>1. NeverAfter(unseen, Completions, Completions, Len(r) + 1)
          <=> NeverAfter(r, Completions, Completions, Len(r)) /\ (Head(unseen) \in Completions => ~Among(r, Completions, Len(r)))
    BY ONLY unseen \in Seq(WebMessage), unseen # <<>>, <1>1, <1>2, FollowedRead
  <2> QED
    BY <1>2, <2>1 DEF Paced, Completing
<1>5. Head(unseen) \in Completions => Len(r) + shown <= MaxHeld
  BY <1>2 DEF Paced
<1>6. ASSUME NEW i \in 1 .. Len(r), r[i] \in Completions
      PROVE  (Len(r) - i) + shown <= MaxHeld
  <2>1. i + 1 \in 1 .. Len(unseen) /\ unseen[i + 1] \in Completions
    BY <1>2, <1>6
  <2>2. (Len(unseen) - (i + 1)) + shown <= MaxHeld
    BY <2>1 DEF Paced
  <2> QED
    BY <1>2, <2>2
<1>7. /\ Completing(unseen) => Len(r) + shown <= MaxHeld + 2 /\ Len(r) <= MaxHeld + 1
      /\ pending = <<>> /\ ~Completing(unseen) => Len(r) + shown <= MaxHeld
      /\ pending # <<>> => Len(r) + shown <= MaxHeld + 1
  BY <1>2 DEF Paced
<1>8. Paced(sent, r, pending, shown)
  BY ONLY <1>3, <1>4, <1>5, <1>6, <1>7, Paced(sent, unseen, pending, shown) DEF Paced
<1>9. Head(unseen) \in Completions => ~Committing(sent) /\ pending = <<>>
  BY <1>3 DEF Paced
<1> QED
  BY <1>1, <1>3, <1>4, <1>8, <1>9

(* A web process ends, or a view.                                          *)
LEMMA PacedEnds ==
  ASSUME NEW sent, NEW unseen \in Seq(WebMessage), NEW pending, NEW shown \in Nat,
         Paced(sent, unseen, pending, shown)
  PROVE  /\ Paced(sent, <<>>, pending, shown) /\ ~Completing(<<>>)
         /\ Paced(sent, unseen, <<>>, 0)
<1>1. Len(unseen) \in Nat /\ MaxHeld \in Nat /\ Len(<<>>) = 0
  BY ViewBackendAssumption
<1>2. ~Completing(<<>>) /\ NeverAfter(<<>>, Completions, Completions, Len(<<>>))
  BY EmptyQueue DEF Completing, Among, NeverAfter
<1>3. Completing(unseen) => shown <= MaxHeld
  <2>1. ASSUME Completing(unseen)
        PROVE  shown <= MaxHeld
    <3>1. PICK i \in 1 .. Len(unseen) : unseen[i] \in Completions
      BY <2>1 DEF Completing, Among
    <3>2. (Len(unseen) - i) + shown <= MaxHeld
      BY <3>1 DEF Paced
    <3> QED
      BY <1>1, <3>2
  <2> QED
    BY <2>1
<1>4. /\ pending # <<>> => shown > 0 /\ Len(<<>>) + shown <= MaxHeld + 1
      /\ pending = <<>> => Len(<<>>) + shown <= MaxHeld
  BY <1>1, <1>3 DEF Paced
<1>5. Paced(sent, <<>>, pending, shown)
  BY <1>2, <1>4, EmptyQueue DEF Paced
<1>6. /\ Completing(unseen) => Len(unseen) + 0 <= MaxHeld + 2 /\ Len(unseen) <= MaxHeld + 1
      /\ ~Completing(unseen) => Len(unseen) + 0 <= MaxHeld
      /\ \A i \in 1 .. Len(unseen) : unseen[i] \in Completions => (Len(unseen) - i) + 0 <= MaxHeld
  BY <1>1 DEF Paced
<1>7. Paced(sent, unseen, <<>>, 0)
  BY <1>6 DEF Paced
<1> QED
  BY <1>2, <1>5, <1>7

(* The application releases one of several buffers, ...                    *)
LEMMA PacedTaken ==
  ASSUME NEW sent, NEW unseen \in Seq(WebMessage), NEW pending, NEW shown \in Nat, shown > 1,
         Paced(sent, unseen, pending, shown)
  PROVE  Paced(sent, unseen, pending, shown - 1)
<1>1. Len(unseen) \in Nat /\ MaxHeld \in Nat
  BY ViewBackendAssumption
<1>2. /\ Completing(unseen) => Len(unseen) + (shown - 1) <= MaxHeld + 2
      /\ pending = <<>> /\ ~Completing(unseen) => Len(unseen) + (shown - 1) <= MaxHeld
      /\ pending # <<>> => shown - 1 > 0 /\ Len(unseen) + (shown - 1) <= MaxHeld + 1
      /\ \A i \in 1 .. Len(unseen) : unseen[i] \in Completions => (Len(unseen) - i) + (shown - 1) <= MaxHeld
  BY <1>1 DEF Paced
<1> QED
  BY <1>2 DEF Paced

(* ... of which the target is told.                                        *)
LEMMA PacedReleased ==
  ASSUME NEW sent, NEW unseen \in Seq(WebMessage), NEW pending, NEW shown \in Nat, shown > 1,
         Paced(sent, unseen, pending, shown), NEW m \in WebMessage, m \notin Completions
  PROVE  /\ Paced(sent, Append(unseen, m), pending, shown - 1)
         /\ Completing(Append(unseen, m)) <=> Completing(unseen)
<1>1. Len(unseen) \in Nat /\ MaxHeld \in Nat
  BY ViewBackendAssumption
<1> DEFINE r == Append(unseen, m)
<1>3. r = Append(unseen, m)
  OBVIOUS
<1> HIDE DEF r
<1>4. /\ Len(r) = Len(unseen) + 1 /\ r[Len(r)] = m
      /\ \A i \in 1 .. Len(unseen) : r[i] = unseen[i]
  BY <1>3, AppendedLength
<1>5. Completing(r) <=> Completing(unseen)
  BY ONLY unseen \in Seq(WebMessage), m \notin Completions, <1>3, AmongAppended DEF Completing
<1>6. NeverAfter(r, Completions, Completions, Len(r)) <=> NeverAfter(unseen, Completions, Completions, Len(unseen))
  BY ONLY unseen \in Seq(WebMessage), m \notin Completions, <1>3, NeverAppended
<1>7. ASSUME NEW i \in 1 .. Len(r), r[i] \in Completions
      PROVE  (Len(r) - i) + (shown - 1) <= MaxHeld
  <2>1. i \in 1 .. Len(unseen) /\ unseen[i] \in Completions
    BY <1>1, <1>4, <1>7
  <2>2. (Len(unseen) - i) + shown <= MaxHeld
    BY <2>1 DEF Paced
  <2> QED
    BY <1>1, <1>4, <2>2
<1>8. /\ Completing(unseen) => Len(r) + (shown - 1) <= MaxHeld + 2 /\ Len(r) <= MaxHeld + 1
      /\ pending = <<>> /\ ~Completing(unseen) => Len(r) + (shown - 1) <= MaxHeld
      /\ pending # <<>> => shown - 1 > 0 /\ Len(r) + (shown - 1) <= MaxHeld + 1
  BY <1>1, <1>4 DEF Paced
<1>9. Paced(sent, r, pending, shown - 1)
  BY ONLY <1>5, <1>6, <1>7, <1>8, Paced(sent, unseen, pending, shown) DEF Paced
<1> QED
  BY <1>3, <1>5, <1>9

(* The application completes a frame, of a process that may have ended.    *)
LEMMA PacedCompleted ==
  ASSUME NEW sent, NEW unseen \in Seq(WebMessage), NEW pending, NEW shown \in Nat, shown <= MaxHeld,
         pending # <<>>, Paced(sent, unseen, pending, shown), NEW m \in Completions
  PROVE  /\ Paced(sent, Append(unseen, m), <<>>, shown)
         /\ unseen = <<>> => Paced(sent, unseen, <<>>, shown)
         /\ ~Committing(sent) /\ ~Completing(unseen) /\ Len(pending) = 1
<1>1. Len(unseen) \in Nat /\ MaxHeld \in Nat /\ Len(<<>>) = 0
  BY ViewBackendAssumption
<1>2. ~Committing(sent) /\ ~Completing(unseen) /\ Len(pending) = 1
  BY DEF Paced
<1>3. unseen = <<>> => Paced(sent, unseen, <<>>, shown)
  <2>1. unseen = <<>> => Len(unseen) + shown <= MaxHeld
    BY <1>1
  <2> QED
    BY <1>2, <2>1 DEF Paced
<1> DEFINE r == Append(unseen, m)
<1>4. r = Append(unseen, m)
  OBVIOUS
<1> HIDE DEF r
<1>5. /\ Len(r) = Len(unseen) + 1 /\ r[Len(r)] = m
      /\ \A i \in 1 .. Len(unseen) : r[i] = unseen[i]
  BY <1>4, AppendedLength
<1>6. Completing(r)
  BY ONLY unseen \in Seq(WebMessage), m \in Completions, <1>4, AmongAppended DEF Completing
<1>7. NeverAfter(r, Completions, Completions, Len(r))
  <2>1. NeverAfter(r, Completions, Completions, Len(r)) <=>
          /\ NeverAfter(unseen, Completions, Completions, Len(unseen))
          /\ m \in Completions => ~Among(unseen, Completions, Len(unseen))
    BY ONLY unseen \in Seq(WebMessage), <1>4, NeverAppended
  <2> QED
    BY <1>2, <2>1 DEF Paced, Completing
<1>8. ASSUME NEW i \in 1 .. Len(r), r[i] \in Completions
      PROVE  (Len(r) - i) + shown <= MaxHeld
  <2>1. i = Len(r)
    BY <1>1, <1>2, <1>5, <1>8 DEF Completing, Among
  <2> QED
    BY <1>1, <1>5, <2>1
<1>9. Len(r) + shown <= MaxHeld + 2 /\ Len(r) <= MaxHeld + 1
  BY <1>1, <1>5 DEF Paced
<1>10. Paced(sent, r, <<>>, shown)
  BY ONLY <1>2, <1>6, <1>7, <1>8, <1>9 DEF Paced
<1> QED
  BY <1>2, <1>3, <1>4, <1>10

-----------------------------------------------------------------------------
(* Steps.                                                                  *)

(* What a target with a pool has under way.                                *)
LEMMA PacedTypes ==
  ASSUME TypeOK, NEW t \in Targets
  PROVE  /\ ProcessOf[t] \in Processes /\ ViewOf[t] \in Views
         /\ Sent(t) \in Seq(HostMessage) /\ Unseen(t) \in Seq(WebMessage)
         /\ held[ViewOf[t]] \in Seq(Objects) /\ Len(held[ViewOf[t]]) \in Nat
         /\ unfinished[ViewOf[t]] \in Seq(PoolIDs)
  BY IpcAssumption, LenProperties DEF TypeOK, IpcTypeOK, HostTypeOK, Sent, Unseen

(* A step that touches nothing of a target.                                *)
LEMMA PacedFrame ==
  ASSUME NEW t \in Targets, OneFrame(t), Waits(t),
         Sent(t)' = Sent(t), Unseen(t)' = Unseen(t),
         unfinished'[ViewOf[t]] = unfinished[ViewOf[t]], held'[ViewOf[t]] = held[ViewOf[t]],
         awaitingFrame'[t] = awaitingFrame[t], current'[t] = current[t]
  PROVE  OneFrame(t)' /\ Waits(t)'
  BY DEF OneFrame, Waits, FrameUnderWay

(* What a target does: it ends a frame, or sends no commit.                *)
LEMMA TargetPace ==
  ASSUME TypeOK, NEW t \in Targets, ~Young(t), TargetStep(t) /\ WebFrame
  PROVE  /\ held' = held /\ unfinished' = unfinished
         /\ Unseen(t)' \in {Unseen(t), <<>>}
         /\ \/ /\ current[t] # None /\ current'[t] = None /\ awaitingFrame'[t]
               /\ Sent(t)' = Sent(t) \/ \E m : Sent(t)' = Append(Sent(t), m)
            \/ /\ awaitingFrame'[t] = awaitingFrame[t]
               /\ current'[t] = current[t] \/ ~awaitingFrame[t]
               /\ Sent(t)' = Sent(t) \/ \E m : m \notin AnyCommit /\ Sent(t)' = Append(Sent(t), m)
<1>1. /\ ProcessOf[t] \in Processes /\ poolID[t] \in PoolIDs
      /\ toHost \in [Processes -> Seq(HostMessage)] /\ toWeb \in [Processes -> Seq(WebMessage)]
      /\ current \in [Targets -> Slots \cup {None}] /\ awaitingFrame \in [Targets -> BOOLEAN]
  BY IpcAssumption DEF TypeOK, IpcTypeOK, WebTypeOK
<1>2. held' = held /\ unfinished' = unfinished
  BY DEF WebFrame, appVars
<1>3. CASE FrameRendered(t)
  <2>1. /\ current[t] # None /\ current'[t] = None /\ awaitingFrame'[t] /\ Unseen(t)' = Unseen(t)
        /\ Sent(t)' = Sent(t) \/ Sent(t)' = Append(Sent(t), BufferCommitMsg(poolID[t], current[t]))
    BY <1>1, <1>3 DEF FrameRendered, SendToHost, Sent, Unseen
  <2> QED
    BY <1>2, <2>1
<1>4. CASE \/ \E b \in Slots : FrameReuses(t, b) \/ FrameFailsToAllocate(t, b)
           \/ Deinitialize(t) \/ DestroyTarget(t)
  BY <1>2, <1>4 DEF FrameReuses, FrameFailsToAllocate, Deinitialize, DestroyTarget, CanRender, ipcVars, Sent, Unseen
<1>5. CASE \E b \in Slots, o \in Objects : FrameAllocates(t, b, o)
  <2>1. PICK b \in Slots, o \in Objects : FrameAllocates(t, b, o)
    BY <1>5
  <2>2. BufferAllocationMsg(poolID[t], b, o) \notin AnyCommit
    BY DEF BufferAllocationMsg, AnyCommit
  <2>3. Sent(t)' = Append(Sent(t), BufferAllocationMsg(poolID[t], b, o))
    BY <1>1, <2>1 DEF FrameAllocates, SendToHost, Sent
  <2> QED
    BY <1>2, <2>1, <2>2, <2>3 DEF FrameAllocates, CanRender, Unseen
<1>6. CASE Resize(t)
  <2>1. PoolPurgeMsg(poolID[t]) \notin AnyCommit
    BY DEF PoolPurgeMsg, AnyCommit
  <2>2. Sent(t)' = Append(Sent(t), PoolPurgeMsg(poolID[t]))
    BY <1>1, <1>6 DEF Resize, SendToHost, Sent
  <2> QED
    BY <1>2, <1>6, <2>1, <2>2 DEF Resize, Unseen
<1>7. CASE FrameAborts(t)
  BY <1>1, <1>2, <1>7 DEF FrameAborts, CloseWeb, webVars, Sent, Unseen
<1> QED
  BY <1>3, <1>4, <1>5, <1>6, <1>7 DEF TargetStep, Young, CreateTarget, Initialize, ReceiveReply

(* A target draws when nothing is under way, and waits from its commit on. *)
LEMMA PacedTarget ==
  ASSUME TypeOK, NEW t \in Targets, ~Young(t), OneFrame(t), Waits(t), TargetStep(t) /\ WebFrame
  PROVE  OneFrame(t)' /\ Waits(t)'
<1>1. Sent(t) \in Seq(HostMessage) /\ Unseen(t) \in Seq(WebMessage) /\ Len(held[ViewOf[t]]) \in Nat
  BY PacedTypes
<1>2. /\ held' = held /\ unfinished' = unfinished
      /\ Unseen(t)' \in {Unseen(t), <<>>}
  BY TargetPace
<1>3. PICK r : r = Sent(t)'
  OBVIOUS
<1>4. CASE /\ current[t] # None /\ current'[t] = None /\ awaitingFrame'[t]
           /\ Sent(t)' = Sent(t) \/ \E m : Sent(t)' = Append(Sent(t), m)
  <2>1. ~FrameUnderWay(t)
    BY <1>4 DEF Waits
  <2>2. Paced(r, Unseen(t), unfinished[ViewOf[t]], Len(held[ViewOf[t]]))
    <3>1. CASE r = Sent(t)
      BY <3>1 DEF OneFrame
    <3>2. CASE r # Sent(t)
      <4>1. PICK m : r = Append(Sent(t), m)
        BY <1>3, <1>4, <3>2
      <4> QED
        BY <1>1, <2>1, <4>1, PacedSent DEF OneFrame, FrameUnderWay
    <3> QED
      BY <3>1, <3>2
  <2>3. Paced(r, <<>>, unfinished[ViewOf[t]], Len(held[ViewOf[t]]))
    BY <1>1, <2>2, PacedEnds
  <2> QED
    BY <1>2, <1>3, <1>4, <2>2, <2>3 DEF OneFrame, Waits
<1>5. CASE /\ awaitingFrame'[t] = awaitingFrame[t]
           /\ current'[t] = current[t] \/ ~awaitingFrame[t]
           /\ Sent(t)' = Sent(t) \/ \E m : m \notin AnyCommit /\ Sent(t)' = Append(Sent(t), m)
  <2>1. /\ Paced(r, Unseen(t), unfinished[ViewOf[t]], Len(held[ViewOf[t]]))
        /\ Committing(r) => Committing(Sent(t))
    <3>1. CASE r = Sent(t)
      BY <3>1 DEF OneFrame
    <3>2. CASE r # Sent(t)
      <4>1. PICK m : m \notin AnyCommit /\ r = Append(Sent(t), m)
        BY <1>3, <1>5, <3>2
      <4> QED
        BY <1>1, <4>1, PacedSent DEF OneFrame
    <3> QED
      BY <3>1, <3>2
  <2>2. Paced(r, <<>>, unfinished[ViewOf[t]], Len(held[ViewOf[t]])) /\ ~Completing(<<>>)
    BY <1>1, <2>1, PacedEnds
  <2> QED
    BY <1>2, <1>3, <1>5, <2>1, <2>2 DEF OneFrame, Waits, FrameUnderWay
<1> QED
  BY <1>4, <1>5, TargetPace

(* What a process does: it reads a message, or ends.                       *)
LEMMA WebPace ==
  ASSUME TypeOK, TargetsInMapLive, NEW t \in Targets,
         NEW w \in Processes, (HandleWebMessage(w) \/ WebExits(w)) /\ WebFrame
  PROVE  /\ held' = held /\ unfinished' = unfinished /\ current' = current /\ Sent(t)' = Sent(t)
         /\ \/ Unseen(t)' \in {Unseen(t), <<>>} /\ awaitingFrame'[t] = awaitingFrame[t]
            \/ /\ Unseen(t) # <<>> /\ Unseen(t)' = Tail(Unseen(t))
               /\ awaitingFrame'[t] = awaitingFrame[t] \/ (~awaitingFrame'[t] /\ Head(Unseen(t)) \in Completions)
<1>1. /\ Unseen(t) \in Seq(WebMessage) /\ ProcessOf[t] \in Processes
      /\ toWeb \in [Processes -> Seq(WebMessage)] /\ awaitingFrame \in [Targets -> BOOLEAN]
  BY PacedTypes DEF TypeOK, IpcTypeOK, WebTypeOK
<1>2. held' = held /\ unfinished' = unfinished /\ current' = current /\ Sent(t)' = Sent(t)
  BY DEF WebFrame, appVars, HandleWebMessage, WebExits, webVars, Sent
<1>3. CASE WebExits(w)
  BY <1>1, <1>2, <1>3 DEF WebExits, CloseWeb, webVars, Unseen
<1>4. CASE HandleWebMessage(w) /\ w = ProcessOf[t]
  <2>1. Unseen(t) # <<>> /\ Unseen(t)' = Tail(Unseen(t))
    BY <1>1, <1>4 DEF HandleWebMessage, Received, Unseen
  <2>2. awaitingFrame'[t] = awaitingFrame[t] \/ (~awaitingFrame'[t] /\ Head(Unseen(t)).code = "FrameComplete")
    BY <1>1, <1>4 DEF HandleWebMessage, Unseen
  <2>3. Head(Unseen(t)).code = "FrameComplete" => Head(Unseen(t)) \in Completions
    BY <1>1, <2>1, QueueType DEF Completions
  <2> QED
    BY <1>2, <2>1, <2>2, <2>3
<1>5. CASE HandleWebMessage(w) /\ w # ProcessOf[t]
  <2>1. Unseen(t)' = Unseen(t)
    BY <1>1, <1>5 DEF HandleWebMessage, Received, Unseen
  <2>2. awaitingFrame'[t] = awaitingFrame[t]
    <3>1. PICK m, s : m = Head(toWeb[w]) /\ s = targetMap[w][m.poolID]
      OBVIOUS
    <3>2. m \in WebMessage /\ m.poolID \in PoolIDs
      BY <1>1, <1>5, <3>1, QueueType, WebMessageFields DEF HandleWebMessage
    <3>3. s # t
      BY <1>5, <3>1, <3>2 DEF TargetsInMapLive
    <3> QED
      BY <1>1, <1>5, <3>1, <3>3 DEF HandleWebMessage
  <2> QED
    BY <1>2, <2>1, <2>2
<1> QED
  BY <1>3, <1>4, <1>5

(* The process reads a completion when nothing else is under way.          *)
LEMMA PacedWeb ==
  ASSUME TypeOK, TargetsInMapLive, NEW t \in Targets, OneFrame(t), Waits(t),
         NEW w \in Processes, (HandleWebMessage(w) \/ WebExits(w)) /\ WebFrame
  PROVE  OneFrame(t)' /\ Waits(t)'
<1>1. Sent(t) \in Seq(HostMessage) /\ Unseen(t) \in Seq(WebMessage) /\ Len(held[ViewOf[t]]) \in Nat
  BY PacedTypes
<1>2. held' = held /\ unfinished' = unfinished /\ current' = current /\ Sent(t)' = Sent(t)
  BY WebPace
<1>3. CASE Unseen(t)' \in {Unseen(t), <<>>} /\ awaitingFrame'[t] = awaitingFrame[t]
  <2>1. Paced(Sent(t), <<>>, unfinished[ViewOf[t]], Len(held[ViewOf[t]])) /\ ~Completing(<<>>)
    BY <1>1, PacedEnds DEF OneFrame
  <2> QED
    BY <1>2, <1>3, <2>1 DEF OneFrame, Waits, FrameUnderWay
<1>4. CASE /\ Unseen(t) # <<>> /\ Unseen(t)' = Tail(Unseen(t))
           /\ awaitingFrame'[t] = awaitingFrame[t] \/ (~awaitingFrame'[t] /\ Head(Unseen(t)) \in Completions)
  <2>1. /\ Paced(Sent(t), Tail(Unseen(t)), unfinished[ViewOf[t]], Len(held[ViewOf[t]]))
        /\ Completing(Tail(Unseen(t))) => Completing(Unseen(t))
        /\ Head(Unseen(t)) \in Completions =>
             ~Committing(Sent(t)) /\ unfinished[ViewOf[t]] = <<>> /\ ~Completing(Tail(Unseen(t)))
    BY <1>1, <1>4, PacedSeen DEF OneFrame
  <2>2. OneFrame(t)'
    BY <1>2, <1>4, <2>1 DEF OneFrame
  <2> QED
    BY <1>2, <1>4, <2>1, <2>2 DEF Waits, FrameUnderWay
<1> QED
  BY <1>3, <1>4, WebPace

(* What the proxy does: it reads a message of the target, and passes a     *)
(* commit on to the target's view or drops it.                             *)
LEMMA ProxyPace ==
  ASSUME SingleTarget, HeapInv, Handshake, PoolsOwned, NEW t \in Targets, ~Young(t),
         NEW w \in Processes, ProxyStep(w) /\ HostFrame
  PROVE  /\ awaitingFrame' = awaitingFrame /\ current' = current
         /\ Sent(t) # <<>> /\ Sent(t)' = Tail(Sent(t)) /\ Unseen(t)' = Unseen(t)
         /\ Head(Sent(t)) = Head(toHost[w]) /\ Owns(t, Head(toHost[w]).poolID)
         /\ \/ held' = held /\ unfinished' = unfinished
            \/ /\ Head(Sent(t)) \in AnyCommit
               /\ Len(held'[ViewOf[t]]) = Len(held[ViewOf[t]]) + 1
               /\ unfinished'[ViewOf[t]] = Append(unfinished[ViewOf[t]], poolID[t])
<1>1. /\ ViewOf[t] \in Views /\ held[ViewOf[t]] \in Seq(Objects)
      /\ held \in [Views -> Seq(Objects)] /\ unfinished \in [Views -> Seq(PoolIDs)]
  BY PacedTypes DEF HeapInv, TypeOK, HostTypeOK
<1>2. /\ toHost \in [Processes -> Seq(HostMessage)] /\ toHost[w] # <<>>
      /\ toHost' = [toHost EXCEPT ![w] = Tail(toHost[w])]
      /\ Head(toHost[w]) \in HostMessage
  BY ProxyMessage DEF HeapInv, TypeOK, IpcTypeOK
<1>3. awaitingFrame' = awaitingFrame /\ current' = current
  BY DEF HostFrame, webVars
<1>4. w = ProcessOf[t] /\ Owns(t, Head(toHost[w]).poolID) /\ ~ConstructPool(w)
  <2>1. PICK s \in Targets :
          /\ ProcessOf[s] = w
          /\ IF Head(toHost[w]).code = "PoolConstruction"
               THEN phase[s] = "constructing" /\ Asked(w)
               ELSE Owns(s, Head(toHost[w]).poolID) /\ Head(toHost[w]).poolID \in PoolIDs
    BY <1>2, HostHead DEF HeapInv
  <2>2. s = t
    BY DEF SingleTarget
  <2> QED
    BY <2>1, <2>2 DEF Young, ConstructPool, Reads
<1>5. Sent(t) # <<>> /\ Sent(t)' = Tail(Sent(t)) /\ Head(Sent(t)) = Head(toHost[w])
  BY <1>2, <1>4 DEF Sent
<1>6. CASE CommitToView(w)
  <2>1. PICK p, v, o : p = Head(toHost[w]).poolID /\ v = viewBackendMap[p]
                       /\ o = poolBuffers[p][Head(toHost[w]).bufferID]
    OBVIOUS
  <2>2. p \in PoolIDs /\ v \in Views /\ held' = [held EXCEPT ![v] = Append(@, o)]
    BY <1>6, <2>1, HeldAfterCommit
  <2>3. v = ViewOf[t]
    BY <2>1, <2>2 DEF PoolsOwned, OwnedOf, SingleTarget
  <2>4. Head(Sent(t)) \in AnyCommit
    BY <1>2, <1>5, <1>6 DEF CommitToView, Reads, AnyCommit
  <2>5. Unseen(t)' = Unseen(t) /\ unfinished' = [unfinished EXCEPT ![v] = Append(@, p)]
    BY <1>6, <2>1 DEF CommitToView, FindViewBackend, Unseen
  <2>6. p = poolID[t]
    BY <1>4, <2>1 DEF Owns
  <2>7. unfinished'[ViewOf[t]] = Append(unfinished[ViewOf[t]], p) /\ held'[ViewOf[t]] = Append(held[ViewOf[t]], o)
    BY <1>1, <2>2, <2>3, <2>5
  <2>8. Len(held'[ViewOf[t]]) = Len(held[ViewOf[t]]) + 1
    BY <1>1, <2>7, AppendedLength
  <2> QED
    BY <1>3, <1>4, <1>5, <2>4, <2>5, <2>6, <2>7, <2>8
<1>7. CASE ~CommitToView(w)
  BY <1>3, <1>4, <1>5, <1>7 DEF ProxyStep, PurgePool, BufferAllocation, CommitWithoutView, appVars, Unseen
<1> QED
  BY <1>6, <1>7

(* A frame that is passed on is no longer committed, but to be completed.  *)
LEMMA PacedProxy ==
  ASSUME SingleTarget, HeapInv, Handshake, PoolsOwned, NEW t \in Targets, ~Young(t), OneFrame(t), Waits(t),
         NEW w \in Processes, ProxyStep(w) /\ HostFrame
  PROVE  OneFrame(t)' /\ Waits(t)'
<1>1. Sent(t) \in Seq(HostMessage) /\ Unseen(t) \in Seq(WebMessage) /\ Len(held[ViewOf[t]]) \in Nat
  BY PacedTypes DEF HeapInv
<1>2. /\ awaitingFrame' = awaitingFrame /\ current' = current
      /\ Sent(t) # <<>> /\ Sent(t)' = Tail(Sent(t)) /\ Unseen(t)' = Unseen(t)
  BY ProxyPace
<1>3. /\ Paced(Tail(Sent(t)), Unseen(t), unfinished[ViewOf[t]], Len(held[ViewOf[t]]))
      /\ Committing(Tail(Sent(t))) => Committing(Sent(t))
      /\ Head(Sent(t)) \in AnyCommit => Committing(Sent(t))
      /\ Head(Sent(t)) \in AnyCommit => \A p : Paced(Tail(Sent(t)), Unseen(t), <<p>>, Len(held[ViewOf[t]]) + 1)
  BY <1>1, <1>2, PacedRead DEF OneFrame
<1>4. CASE held' = held /\ unfinished' = unfinished
  BY <1>2, <1>3, <1>4 DEF OneFrame, Waits, FrameUnderWay
<1>5. CASE /\ Head(Sent(t)) \in AnyCommit
           /\ Len(held'[ViewOf[t]]) = Len(held[ViewOf[t]]) + 1
           /\ unfinished'[ViewOf[t]] = Append(unfinished[ViewOf[t]], poolID[t])
  <2>1. PICK p : unfinished'[ViewOf[t]] = Append(unfinished[ViewOf[t]], p)
    BY <1>5
  <2>2. unfinished[ViewOf[t]] = <<>> /\ awaitingFrame[t]
    BY <1>3, <1>5 DEF OneFrame, Paced, Waits, FrameUnderWay
  <2>3. Append(<<>>, p) = <<p>>
    OBVIOUS
  <2>4. OneFrame(t)'
    BY <1>2, <1>3, <1>5, <2>1, <2>2, <2>3 DEF OneFrame
  <2> QED
    BY <1>2, <2>2, <2>4 DEF Waits
<1> QED
  BY <1>4, <1>5, ProxyPace

(* What the application does: it releases one of several buffers, ...      *)
LEMMA ReleasePace ==
  ASSUME HeapInv, NEW t \in Targets, ReleaseStep(ViewOf[t]) /\ ViewFrame
  PROVE  /\ awaitingFrame' = awaitingFrame /\ current' = current
         /\ Sent(t)' = Sent(t) /\ unfinished' = unfinished
         /\ Len(held[ViewOf[t]]) > 1 /\ Len(held'[ViewOf[t]]) = Len(held[ViewOf[t]]) - 1
         /\ \/ Unseen(t)' = Unseen(t)
            \/ \E m \in WebMessage : m \notin Completions /\ Unseen(t)' = Append(Unseen(t), m)
<1>1. PICK v \in Views : v = ViewOf[t]
  BY IpcAssumption
<1>2. /\ ProcessOf[t] \in Processes /\ held[v] \in Seq(Objects) /\ Len(held[v]) \in Nat
      /\ toWeb \in [Processes -> Seq(WebMessage)] /\ held \in [Views -> Seq(Objects)] /\ TypeOK
  BY <1>1, PacedTypes DEF HeapInv, TypeOK, IpcTypeOK, HostTypeOK
<1>3. PICK i \in 1 .. Len(held[v]) : DispatchReleaseBuffer(v, i)
  BY <1>1 DEF ReleaseStep
<1>4. Len(held[v]) > 1 /\ Len(held'[v]) = Len(held[v]) - 1
  <2>1. i < Len(held[v]) /\ held' = [held EXCEPT ![v] = RemoveAt(@, i)]
    BY <1>3 DEF DispatchReleaseBuffer
  <2>2. Len(RemoveAt(held[v], i)) = Len(held[v]) - 1
    BY <1>2, RemovedElements
  <2>3. held'[v] = RemoveAt(held[v], i)
    BY <1>2, <2>1
  <2> QED
    BY <1>2, <2>1, <2>2, <2>3
<1>5. PICK o : o = held[v][i]
  OBVIOUS
<1>6. o \in Objects /\ ReleaseBuffer(o)
  BY <1>2, <1>3, <1>5, HeldAfterRelease
<1>7. PICK p, b, u : p = hostBuffer[o].poolID /\ b = hostBuffer[o].bufferID /\ u = poolClient[p]
  OBVIOUS
<1>8. /\ p \in PoolIDs /\ b \in Slots
      /\ UNCHANGED toWeb \/ toWeb' = [toWeb EXCEPT ![u] = Append(@, ReleaseBufferMsg(p, b))]
  BY <1>6, <1>7, ReleaseSends
<1>9. ReleaseBufferMsg(p, b) \in WebMessage /\ ReleaseBufferMsg(p, b) \notin Completions
  BY <1>8 DEF ReleaseBufferMsg, WebMessage, Completions
<1>10. \/ Unseen(t)' = Unseen(t)
       \/ \E m \in WebMessage : m \notin Completions /\ Unseen(t)' = Append(Unseen(t), m)
  BY <1>2, <1>8, <1>9 DEF Unseen
<1>11. awaitingFrame' = awaitingFrame /\ current' = current /\ Sent(t)' = Sent(t) /\ unfinished' = unfinished
  BY <1>3 DEF DispatchReleaseBuffer, ViewFrame, webVars, Sent
<1> QED
  BY <1>1, <1>4, <1>10, <1>11

(* ... or reports a frame, of which the target is told if it still runs.   *)
LEMMA CompletePace ==
  ASSUME SingleTarget, HeapInv, Handshake, PoolsOwned, ClosedWebsSilent, NEW t \in Targets,
         DispatchFrameComplete(ViewOf[t]) /\ ViewFrame
  PROVE  /\ awaitingFrame' = awaitingFrame /\ current' = current /\ Sent(t)' = Sent(t) /\ held' = held
         /\ Len(held[ViewOf[t]]) <= MaxHeld
         /\ unfinished[ViewOf[t]] # <<>> /\ unfinished'[ViewOf[t]] = Tail(unfinished[ViewOf[t]])
         /\ \/ ~webUp[ProcessOf[t]] /\ Unseen(t) = <<>> /\ Unseen(t)' = Unseen(t)
            \/ \E m \in Completions : Unseen(t)' = Append(Unseen(t), m)
<1>1. PICK v \in Views : v = ViewOf[t]
  BY IpcAssumption
<1>2. /\ ProcessOf[t] \in Processes /\ lastExportedPoolID \in PoolIDs
      /\ toWeb \in [Processes -> Seq(WebMessage)] /\ unfinished \in [Views -> Seq(PoolIDs)]
  BY IpcAssumption DEF HeapInv, TypeOK, IpcTypeOK, HostTypeOK
<1>3. PICK p, u : p = lastExportedPoolID /\ u = poolClient[p]
  OBVIOUS
<1>4. /\ awaitingFrame' = awaitingFrame /\ current' = current /\ Sent(t)' = Sent(t) /\ held' = held
      /\ Len(held[v]) <= MaxHeld
      /\ unfinished[v] # <<>> /\ unfinished'[v] = Tail(unfinished[v])
      /\ toWeb' = IF webUp[u] THEN [toWeb EXCEPT ![u] = Append(@, FrameCompleteMsg(p))] ELSE toWeb
  BY <1>1, <1>2, <1>3
  DEF DispatchFrameComplete, CanComplete, Received, FrameComplete, SendToWeb, Sent, ViewFrame, webVars
<1>5. u = ProcessOf[t]
  <2>1. PICK s \in Targets : Owns(s, p)
    BY <1>2, <1>3, <1>4 DEF PoolsOwned, Owned
  <2>2. OneTargetPerProcess
    BY DEF OneTargetPerProcess, SingleTarget
  <2>3. poolClient[p] = ProcessOf[s]
    BY <1>2, <1>3, <2>1, <2>2, OwnersClient
  <2> QED
    BY <1>3, <2>3 DEF SingleTarget
<1>6. FrameCompleteMsg(p) \in Completions
  BY <1>2, <1>3 DEF FrameCompleteMsg, Completions, WebMessage
<1>7. \/ ~webUp[ProcessOf[t]] /\ Unseen(t) = <<>> /\ Unseen(t)' = Unseen(t)
      \/ \E m \in Completions : Unseen(t)' = Append(Unseen(t), m)
  BY <1>2, <1>4, <1>5, <1>6 DEF ClosedWebsSilent, Unseen
<1> QED
  BY <1>1, <1>4, <1>7

(* The application shows, releases and completes frames of the target.     *)
LEMMA PacedView ==
  ASSUME SingleTarget, HeapInv, Handshake, PoolsOwned, ClosedWebsSilent, NEW t \in Targets, OneFrame(t), Waits(t),
         NEW v \in Views, v = ViewOf[t], DestroyView(v) \/ ReleaseStep(v) \/ DispatchFrameComplete(v), ViewFrame
  PROVE  OneFrame(t)' /\ Waits(t)'
<1>1. /\ Sent(t) \in Seq(HostMessage) /\ Unseen(t) \in Seq(WebMessage)
      /\ Len(held[v]) \in Nat /\ unfinished[v] \in Seq(PoolIDs)
  BY PacedTypes DEF HeapInv
<1>2. Paced(Sent(t), Unseen(t), unfinished[v], Len(held[v]))
  BY DEF OneFrame
<1>3. CASE DestroyView(v)
  <2>1. /\ Sent(t)' = Sent(t) /\ Unseen(t)' = Unseen(t) /\ awaitingFrame' = awaitingFrame /\ current' = current
        /\ held'[v] = <<>> /\ unfinished'[v] = <<>>
    BY <1>3 DEF DestroyView, CloseView, Sent, Unseen, ViewFrame, webVars, HeapInv, TypeOK, HostTypeOK
  <2>2. Paced(Sent(t), Unseen(t), <<>>, 0) /\ Len(<<>>) = 0
    BY <1>1, <1>2, PacedEnds
  <2> QED
    BY <2>1, <2>2 DEF OneFrame, Waits, FrameUnderWay
<1>4. CASE ReleaseStep(v)
  <2>1. PICK n, r : n = Len(held[v]) /\ r = Unseen(t)'
    OBVIOUS
  <2>2. /\ awaitingFrame' = awaitingFrame /\ current' = current
        /\ Sent(t)' = Sent(t) /\ unfinished' = unfinished
        /\ n \in Nat /\ n > 1 /\ Len(held'[v]) = n - 1
        /\ r = Unseen(t) \/ \E m \in WebMessage : m \notin Completions /\ r = Append(Unseen(t), m)
    BY <1>1, <1>4, <2>1, ReleasePace
  <2>3. Paced(Sent(t), r, unfinished[v], n - 1) /\ (Completing(r) => Completing(Unseen(t)))
    <3>1. CASE r = Unseen(t)
      BY <1>1, <1>2, <2>1, <2>2, <3>1, PacedTaken
    <3>2. CASE r # Unseen(t)
      <4>1. PICK m \in WebMessage : m \notin Completions /\ r = Append(Unseen(t), m)
        BY <2>2, <3>2
      <4> QED
        BY <1>1, <1>2, <2>1, <2>2, <4>1, PacedReleased
    <3> QED
      BY <3>1, <3>2
  <2>4. OneFrame(t)'
    BY <2>1, <2>2, <2>3 DEF OneFrame
  <2> QED
    BY <2>1, <2>2, <2>3, <2>4 DEF Waits, FrameUnderWay
<1>5. CASE DispatchFrameComplete(v)
  <2>1. PICK n, r : n = Len(held[v]) /\ r = Unseen(t)'
    OBVIOUS
  <2>2. /\ awaitingFrame' = awaitingFrame /\ current' = current /\ Sent(t)' = Sent(t) /\ held' = held
        /\ n \in Nat /\ n <= MaxHeld /\ unfinished[v] # <<>> /\ unfinished'[v] = Tail(unfinished[v])
        /\ (Unseen(t) = <<>> /\ r = Unseen(t)) \/ \E m \in Completions : r = Append(Unseen(t), m)
    BY <1>1, <1>5, <2>1, CompletePace
  <2>3. Paced(Sent(t), r, <<>>, n) /\ Len(unfinished[v]) = 1
    <3>1. CASE Unseen(t) = <<>> /\ r = Unseen(t)
      <4>1. FrameCompleteMsg(0) \in Completions
        BY IpcAssumption DEF FrameCompleteMsg, Completions, WebMessage, PoolIDs
      <4> QED
        BY <1>1, <1>2, <2>1, <2>2, <3>1, <4>1, PacedCompleted
    <3>2. CASE \E m \in Completions : r = Append(Unseen(t), m)
      <4>1. PICK m \in Completions : r = Append(Unseen(t), m)
        BY <3>2
      <4> QED
        BY <1>1, <1>2, <2>1, <2>2, <4>1, PacedCompleted
    <3> QED
      BY <2>2, <3>1, <3>2
  <2>4. unfinished'[v] = <<>>
    <3>1. Len(Tail(unfinished[v])) = 0 /\ Tail(unfinished[v]) \in Seq(PoolIDs)
      BY <1>1, <2>2, <2>3, ReadLength, QueueType
    <3> QED
      BY <2>2, <3>1, EmptySeq
  <2>5. OneFrame(t)'
    BY <2>1, <2>2, <2>3, <2>4 DEF OneFrame
  <2>6. awaitingFrame[t] /\ current[t] = None
    BY <2>2 DEF Waits, FrameUnderWay
  <2> QED
    BY <2>2, <2>5, <2>6 DEF Waits
<1> QED
  BY <1>3, <1>4, <1>5

(* What is sent to a process that ended is lost.                           *)
LEMMA WebsSilentStep ==
  ASSUME HeapInv, ClosedWebsSilent, [Next]_vars
  PROVE  ClosedWebsSilent'
<1>1. TypeOK /\ toWeb \in [Processes -> Seq(WebMessage)] /\ webUp \in [Processes -> BOOLEAN]
  BY DEF HeapInv, TypeOK, IpcTypeOK
<1>2. CASE UNCHANGED toWeb /\ \A w \in Processes : webUp[w] => webUp'[w]
  BY <1>2 DEF ClosedWebsSilent
<1>3. CASE \E w \in Processes : webUp' = [webUp EXCEPT ![w] = FALSE] /\ toWeb' = [toWeb EXCEPT ![w] = <<>>]
  BY <1>1, <1>3 DEF ClosedWebsSilent
<1>4. CASE UNCHANGED webUp /\ \E u : /\ u \in Processes => webUp[u]
                                     /\ \A w \in Processes : w # u => toWeb'[w] = toWeb[w]
  BY <1>4 DEF ClosedWebsSilent
<1>5. ASSUME NEW t \in Targets, TargetStep(t) /\ WebFrame
      PROVE  ClosedWebsSilent'
  <2>1. CASE FrameAborts(t)
    BY <1>3, <2>1, IpcAssumption DEF FrameAborts, CloseWeb
  <2>2. CASE ReceiveReply(t)
    BY <1>1, <1>4, <2>2 DEF ReceiveReply, Received
  <2>3. CASE ~FrameAborts(t) /\ ~ReceiveReply(t)
    BY <1>2, <1>5, <2>3 DEF TargetStep, CreateTarget, Initialize, Resize, FrameReuses, FrameFailsToAllocate,
       FrameAllocates, FrameRendered, Deinitialize, DestroyTarget, ipcVars
  <2> QED
    BY <2>1, <2>2, <2>3
<1>6. ASSUME NEW w \in Processes, (HandleWebMessage(w) \/ WebExits(w)) /\ WebFrame
      PROVE  ClosedWebsSilent'
  <2>1. CASE WebExits(w)
    BY <1>3, <2>1 DEF WebExits, CloseWeb
  <2>2. CASE HandleWebMessage(w)
    BY <1>1, <1>4, <2>2 DEF HandleWebMessage, Received, InEventLoop
  <2> QED
    BY <1>6, <2>1, <2>2
<1>7. ASSUME NEW w \in Processes, (CreateClient(w) \/ ProxyStep(w)) /\ HostFrame
      PROVE  ClosedWebsSilent'
  <2>1. CASE CreateClient(w)
    BY <1>1, <1>2, <2>1 DEF CreateClient, OpenWeb
  <2>2. CASE ConstructPool(w)
    <3>1. UNCHANGED webUp /\ \A u \in Processes : u # w \/ ~webUp[w] => toWeb'[u] = toWeb[u]
      BY <1>1, <2>2 DEF ConstructPool, SendToWeb
    <3> QED
      BY <3>1 DEF ClosedWebsSilent
  <2>3. CASE ProxyStep(w) /\ ~ConstructPool(w)
    BY <1>2, <2>3 DEF ProxyStep, PurgePool, BufferAllocation, CommitToView, CommitWithoutView
  <2> QED
    BY <1>7, <2>1, <2>2, <2>3
<1>8. ASSUME NEW v \in Views, ReleaseStep(v)
      PROVE  ClosedWebsSilent'
  <2>1. PICK i \in 1 .. Len(held[v]) : DispatchReleaseBuffer(v, i)
    BY <1>8 DEF ReleaseStep
  <2>2. PICK o : o = held[v][i]
    OBVIOUS
  <2>3. o \in Objects /\ ReleaseBuffer(o) /\ UNCHANGED webUp
    BY <1>1, <2>1, <2>2, HeldAfterRelease DEF DispatchReleaseBuffer
  <2>4. PICK m, u : m = ReleaseBufferMsg(hostBuffer[o].poolID, hostBuffer[o].bufferID)
                    /\ u = poolClient[hostBuffer[o].poolID]
    OBVIOUS
  <2>5. \/ UNCHANGED toWeb
        \/ (u \in Processes => webUp[u]) /\ toWeb' = [toWeb EXCEPT ![u] = Append(@, m)]
    BY <2>3, <2>4, ReleaseSends
  <2> QED
    BY <1>1, <1>2, <1>4, <2>3, <2>5
<1>9. ASSUME NEW v \in Views, DispatchFrameComplete(v)
      PROVE  ClosedWebsSilent'
  <2>1. PICK m, u : m = FrameCompleteMsg(lastExportedPoolID) /\ u = poolClient[lastExportedPoolID]
    OBVIOUS
  <2>2. /\ UNCHANGED webUp
        /\ toWeb' = IF webUp[u] THEN [toWeb EXCEPT ![u] = Append(@, m)] ELSE toWeb
    BY <1>9, <2>1 DEF DispatchFrameComplete, FrameComplete, SendToWeb
  <2>3. CASE webUp[u]
    BY <1>1, <1>4, <2>2, <2>3
  <2>4. CASE ~webUp[u]
    BY <1>2, <2>2, <2>4
  <2> QED
    BY <2>3, <2>4
<1>10. ASSUME NEW v \in Views, CreateView(v) \/ HandleViewMessage(v) \/ DestroyView(v)
       PROVE  ClosedWebsSilent'
  BY <1>2, <1>10 DEF CreateView, OpenView, HandleViewMessage, DestroyView
<1>11. CASE Poll \/ UNCHANGED vars
  BY <1>2, <1>11 DEF Poll, vars, ipcVars
<1> QED
  BY <1>5, <1>6, <1>7, <1>8, <1>9, <1>10, <1>11 DEF Next

(* A view is given the frames of its targets only.                         *)
LEMMA FramesOwnedStep ==
  ASSUME HeapInv, PoolsOwned, FramesOwned, [Next]_vars
  PROVE  FramesOwned'
<1>1. /\ TypeOK /\ held \in [Views -> Seq(Objects)] /\ unfinished \in [Views -> Seq(PoolIDs)]
  BY DEF HeapInv, TypeOK, HostTypeOK
<1>2. \A t \in Targets : ~Young(t) => ~Young(t)'
  BY <1>1, PoolKept
<1>3. SUFFICES ASSUME NEW v \in Views, held'[v] # <<>> \/ unfinished'[v] # <<>>
               PROVE  held[v] # <<>> \/ unfinished[v] # <<>> \/ \E t \in Targets : ~Young(t) /\ ViewOf[t] = v
  BY <1>2 DEF FramesOwned
<1>4. CASE \E w \in Processes : CommitToView(w)
  <2>1. PICK w \in Processes : CommitToView(w)
    BY <1>4
  <2>2. PICK p, u, o : p = Head(toHost[w]).poolID /\ u = viewBackendMap[p]
                       /\ o = poolBuffers[p][Head(toHost[w]).bufferID]
    OBVIOUS
  <2>3. /\ p \in PoolIDs /\ u \in Views /\ held' = [held EXCEPT ![u] = Append(@, o)]
        /\ unfinished' = [unfinished EXCEPT ![u] = Append(@, p)]
    BY <2>1, <2>2, HeldAfterCommit DEF CommitToView, FindViewBackend
  <2>4. OwnedOf(u, p)
    BY <2>2, <2>3 DEF PoolsOwned
  <2>5. CASE v = u
    BY <2>4, <2>5 DEF OwnedOf, Owns
  <2>6. CASE v # u
    BY <1>1, <1>3, <2>3, <2>6
  <2> QED
    BY <2>5, <2>6
<1>5. CASE \E u \in Views : DestroyView(u)
  BY <1>1, <1>3, <1>5 DEF DestroyView
<1>6. CASE \E u \in Views : ReleaseStep(u)
  <2>1. PICK u \in Views : \E i \in 1 .. Len(held[u]) : DispatchReleaseBuffer(u, i)
    BY <1>6 DEF ReleaseStep
  <2>2. held[u] # <<>> /\ unfinished' = unfinished /\ \A x \in Views : x # u => held'[x] = held[x]
    BY <1>1, <2>1, EmptyQueue DEF DispatchReleaseBuffer
  <2> QED
    BY <1>3, <2>2
<1>7. CASE \E u \in Views : DispatchFrameComplete(u)
  <2>1. PICK u \in Views : DispatchFrameComplete(u)
    BY <1>7
  <2>2. unfinished[u] # <<>> /\ held' = held /\ \A x \in Views : x # u => unfinished'[x] = unfinished[x]
    BY <1>1, <2>1 DEF DispatchFrameComplete, CanComplete, Received
  <2> QED
    BY <1>3, <2>2
<1>8. CASE held' = held /\ unfinished' = unfinished
  BY <1>3, <1>8
<1> QED
  BY <1>4, <1>5, <1>6, <1>7, <1>8 DEF Next, vars, appVars, WebFrame, ProxyStep, CreateClient, ConstructPool,
     PurgePool, BufferAllocation, CommitWithoutView, CreateView, HandleViewMessage

(* A target that gets its pool has nothing under way.                      *)
LEMMA PacedStart ==
  ASSUME PageInv, SingleTarget, FramesOwned, NEW t \in Targets, Young(t), ReceiveReply(t) /\ WebFrame
  PROVE  OneFrame(t)' /\ Waits(t)'
<1>1. /\ TypeOK /\ ProcessOf[t] \in Processes /\ ViewOf[t] \in Views
      /\ toWeb \in [Processes -> Seq(WebMessage)]
  BY IpcAssumption DEF PageInv, MapInv, HeapInv, TypeOK, IpcTypeOK
<1>2. PICK w, v : w = ProcessOf[t] /\ v = ViewOf[t]
  OBVIOUS
<1>3. toHost[w] = <<>> /\ \E q \in PoolIDs : toWeb[w] = <<PoolConstructionReplyMsg(q)>>
  <2>1. phase[t] = "constructing" /\ toWeb[w] # <<>>
    BY <1>2 DEF ReceiveReply
  <2>2. Asked(w) \/ Answered(w)
    BY <1>1, <1>2, <2>1 DEF PageInv, Handshake, HandshakeAt
  <2> QED
    BY <2>1, <2>2 DEF Asked, Answered
<1>4. Sent(t)' = <<>> /\ Unseen(t)' = <<>>
  <2>1. Sent(t)' = toHost[w] /\ Unseen(t)' = Tail(toWeb[w])
    BY <1>1, <1>2 DEF ReceiveReply, Received, Sent, Unseen
  <2>2. \A m : Tail(<<m>>) = <<>>
    OBVIOUS
  <2> QED
    BY <1>3, <2>1, <2>2
<1>5. held'[v] = <<>> /\ unfinished'[v] = <<>>
  BY <1>1, <1>2 DEF FramesOwned, SingleTarget, WebFrame, appVars
<1>6. current'[t] = None
  <2>1. phase[t] = "constructing" /\ current' = current
    BY DEF ReceiveReply
  <2> QED
    BY <2>1 DEF PageInv, TargetsRegistered
<1>7. Len(<<>>) = 0 /\ MaxHeld \in Nat /\ ~Committing(<<>>) /\ ~Completing(<<>>)
      /\ NeverAfter(<<>>, Completions, Completions, Len(<<>>))
  BY EmptyQueue, ViewBackendAssumption DEF Committing, Completing, Among, NeverAfter
<1>8. Paced(<<>>, <<>>, <<>>, Len(<<>>))
  BY <1>7, EmptyQueue DEF Paced
<1>9. OneFrame(t)'
  BY <1>2, <1>4, <1>5, <1>8 DEF OneFrame
<1> QED
  BY <1>2, <1>4, <1>5, <1>6, <1>7, <1>9 DEF Waits, FrameUnderWay

(* Every step keeps the pacing of the target.                              *)
LEMMA PacedStep ==
  ASSUME SingleTarget, PoolInv, UpAttached, PacedInv, [Next]_vars
  PROVE  PacedInv'
<1>1. /\ OneTargetPerProcess /\ PageInv /\ MapInv /\ HeapInv /\ TypeOK /\ Handshake /\ PoolsOwned
      /\ ClosedWebsSilent /\ FramesOwned
  BY DEF SingleTarget, OneTargetPerProcess, PacedInv, PageInv, MapInv, HeapInv
<1>2. PageInv' /\ ClosedWebsSilent' /\ FramesOwned'
  BY <1>1, PageStep, WebsSilentStep, FramesOwnedStep
<1>3. ASSUME NEW t \in Targets, ~Young(t)'
      PROVE  OneFrame(t)' /\ Waits(t)'
  <2>1. CASE Young(t)
    <3>1. ReceiveReply(t) /\ WebFrame
      <4>1. phase \in [Targets -> Phases]
        BY <1>1 DEF TypeOK, WebTypeOK
      <4>2. ASSUME phase' = phase
            PROVE  FALSE
        BY <1>3, <2>1, <4>2 DEF Young
      <4>3. TargetStep(t) /\ WebFrame
        BY <4>2 DEF Next, SingleTarget, HandleWebMessage, WebExits, HostFrame, ViewFrame, webVars, vars
      <4>4. CASE CreateTarget(t) \/ Initialize(t)
        BY <1>3, <4>1, <4>4 DEF CreateTarget, Initialize, Young
      <4>5. CASE Deinitialize(t) \/ DestroyTarget(t)
        BY <2>1, <4>5 DEF Deinitialize, DestroyTarget, Callable, Young
      <4> QED
        BY <4>2, <4>3, <4>4, <4>5 DEF TargetStep, Resize, FrameAborts, FrameReuses, FrameFailsToAllocate, FrameAllocates,
           FrameRendered, webVars
    <3> QED
      BY <1>1, <2>1, <3>1, PacedStart
  <2>2. CASE ~Young(t)
    <3>1. OneFrame(t) /\ Waits(t)
      BY <2>2 DEF PacedInv
    <3>2. \A s \in Targets : s = t
      BY DEF SingleTarget
    <3>3. CASE TargetStep(t) /\ WebFrame
      BY <1>1, <2>2, <3>1, <3>3, PacedTarget
    <3>4. CASE \E w \in Processes : (HandleWebMessage(w) \/ WebExits(w)) /\ WebFrame
      BY <1>1, <2>2, <3>1, <3>4, PacedWeb DEF MapInv, MapsPointToLive
    <3>5. CASE \E w \in Processes : ProxyStep(w) /\ HostFrame
      BY <1>1, <2>2, <3>1, <3>5, PacedProxy
    <3>6. CASE \E v \in Views : v = ViewOf[t] /\ (DestroyView(v) \/ ReleaseStep(v) \/ DispatchFrameComplete(v)) /\ ViewFrame
      BY <1>1, <2>2, <3>1, <3>6, PacedView
    <3>7. CASE \E v \in Views : v # ViewOf[t] /\ (DestroyView(v) \/ ReleaseStep(v) \/ DispatchFrameComplete(v)) /\ ViewFrame
      <4>1. PICK v \in Views : v # ViewOf[t] /\ (DestroyView(v) \/ ReleaseStep(v) \/ DispatchFrameComplete(v)) /\ ViewFrame
        BY <3>7
      <4>2. held[v] = <<>> /\ unfinished[v] = <<>>
        BY <1>1, <3>2, <4>1 DEF FramesOwned
      <4>3. DestroyView(v)
        BY <4>1, <4>2, EmptyQueue DEF ReleaseStep, DispatchFrameComplete, CanComplete
      <4>4. ViewOf[t] \in Views
        BY IpcAssumption
      <4> QED
        BY <1>1, <3>1, <4>1, <4>3, <4>4, PacedFrame
        DEF DestroyView, ViewFrame, webVars, Sent, Unseen, TypeOK, HostTypeOK
    <3>8. CASE UNCHANGED <<toHost, toWeb, appVars, webVars>>
      BY <3>1, <3>8, PacedFrame DEF appVars, webVars, Sent, Unseen
    <3> QED
      BY <3>2, <3>3, <3>4, <3>5, <3>6, <3>7, <3>8 DEF Next, HostFrame, ViewFrame, CreateClient, OpenWeb, CreateView,
         OpenView, HandleViewMessage, Poll, vars, ipcVars
  <2> QED
    BY <2>1, <2>2
<1> QED
  BY <1>2, <1>3 DEF PacedInv

(* It holds at the start, when no target is answered.                      *)
LEMMA PacedInit == Init => PacedInv
<1>1. ASSUME Init
      PROVE  ClosedWebsSilent /\ FramesOwned /\ \A t \in Targets : Young(t)
  BY <1>1 DEF Init, IpcInit, WebInit, HostInit, ClosedWebsSilent, FramesOwned, Young
<1> QED
  BY <1>1, PageStart DEF PacedInv

(* One frame of the target is under way at a time, from its commit to the  *)
(* read of its completion, and the target waits that long (frameRendered,  *)
(* bufferCommit, frameComplete); resizes, failed allocations and ends      *)
(* included.                                                               *)
THEOREM PacingInvariant ==
  ASSUME SingleTarget
  PROVE  Spec => []PacedInv
<1>1. PoolInv /\ LockInv /\ PacedInv /\ [Next]_vars => PacedInv'
  BY PacedStep DEF LockInv
<1> QED
  BY <1>1, PacedInit, Background, PTL DEF Spec

(* The UI process's main thread sends to a web process that does not read  *)
(* its socket at most one message more than the application may hold       *)
(* buffers (IPC::Host::sendMessage).                                       *)
THEOREM FewUnread ==
  ASSUME SingleTarget
  PROVE  Spec => []UnreadBounded
<1>1. PacedInv => UnreadBounded
  <2> SUFFICES ASSUME PacedInv, NEW w \in Processes
               PROVE  Len(toWeb[w]) <= MaxHeld + 1
    BY DEF UnreadBounded
  <2>1. TypeOK /\ Handshake /\ MaxHeld \in Nat \ {0} /\ Len(<<>>) = 0
    BY ViewBackendAssumption DEF PacedInv, PageInv, MapInv, HeapInv
  <2>2. CASE toWeb[w] = <<>>
    BY <2>1, <2>2
  <2>3. CASE toWeb[w] # <<>>
    <3>1. PICK t \in Targets :
           /\ ProcessOf[t] = w
           /\ \/ \E q \in PoolIDs : toWeb[w] = <<PoolConstructionReplyMsg(q)>>
              \/ Owns(t, Head(toWeb[w]).poolID)
      BY <2>1, <2>3, WebHead
    <3>2. CASE \E q \in PoolIDs : toWeb[w] = <<PoolConstructionReplyMsg(q)>>
      <4>1. \A m : Len(<<m>>) = 1
        OBVIOUS
      <4> QED
        BY <2>1, <3>2, <4>1
    <3>3. CASE Owns(t, Head(toWeb[w]).poolID)
      <4>1. Paced(Sent(t), Unseen(t), unfinished[ViewOf[t]], Len(held[ViewOf[t]])) /\ Unseen(t) = toWeb[w]
        BY <3>1, <3>3 DEF PacedInv, OneFrame, Owns, Unseen
      <4>2. Len(Unseen(t)) \in Nat /\ Len(held[ViewOf[t]]) \in Nat
        BY <2>1, PacedTypes, LenProperties
      <4>3. PICK l, n : l = Len(Unseen(t)) /\ n = Len(held[ViewOf[t]])
        OBVIOUS
      <4>4. l <= MaxHeld + 1 \/ (n > 0 /\ l + n <= MaxHeld + 1) \/ l + n <= MaxHeld
        BY <4>1, <4>3 DEF Paced
      <4>5. l \in Nat /\ n \in Nat /\ l = Len(toWeb[w])
        BY <4>1, <4>2, <4>3
      <4> QED
        BY <2>1, <4>4, <4>5
    <3> QED
      BY <3>1, <3>2, <3>3
  <2> QED
    BY <2>2, <2>3
<1> QED
  BY <1>1, PacingInvariant, PTL

-----------------------------------------------------------------------------
(* An application that shows one buffer at a time.                         *)

(* It has a frame to complete when it holds a second buffer.               *)
LEMMA SecondIsPending ==
  ASSUME MaxHeld = 1, NEW sent, NEW unseen \in Seq(WebMessage), NEW pending, NEW shown \in Nat, shown > 1,
         Paced(sent, unseen, pending, shown)
  PROVE  pending # <<>> /\ ~Committing(sent) /\ ~Completing(unseen)
<1>1. Len(unseen) \in Nat
  OBVIOUS
<1>2. \A i \in 1 .. Len(unseen) : unseen[i] \notin Completions
  BY <1>1 DEF Paced
<1>3. ~Completing(unseen)
  BY <1>2 DEF Completing, Among
<1>4. pending # <<>>
  BY <1>1, <1>3 DEF Paced
<1> QED
  BY <1>3, <1>4 DEF Paced

(* What is added to a queue without a completion keeps completions last.   *)
LEMMA LastAppended ==
  ASSUME NEW unseen \in Seq(WebMessage), ~Completing(unseen), NEW m, NEW r, r = Append(unseen, m)
  PROVE  \A i \in 1 .. Len(r) : r[i] \in Completions => i = Len(r)
<1>1. Len(unseen) \in Nat /\ Len(r) = Len(unseen) + 1 /\ \A i \in 1 .. Len(unseen) : r[i] = unseen[i]
  BY AppendedLength
<1> QED
  BY <1>1 DEF Completing, Among

(* A target that draws or commits has read everything.                     *)
LEMMA TurnKept ==
  ASSUME SingleTarget, MaxHeld = 1, PacedInv, NEW t \in Targets, ~Young(t), OneByOne(t), [Next]_vars
  PROVE  OneByOne(t)'
<1>1. /\ TypeOK /\ HeapInv /\ Handshake /\ PoolsOwned /\ FramesOwned /\ TargetsInMapLive /\ ClosedWebsSilent
  BY DEF PacedInv, PageInv, MapInv, HeapInv, MapsPointToLive
<1>2. OneFrame(t) /\ Waits(t) /\ \A s \in Targets : s = t
  BY DEF PacedInv, SingleTarget
<1>3. /\ Sent(t) \in Seq(HostMessage) /\ Unseen(t) \in Seq(WebMessage)
      /\ Len(held[ViewOf[t]]) \in Nat
  BY <1>1, PacedTypes
<1>4. CASE /\ awaitingFrame'[t] = awaitingFrame[t] \/ Unseen(t) = <<>>
           /\ Committing(Sent(t)') => Committing(Sent(t)) \/ Unseen(t) = <<>>
           /\ Unseen(t)' \in {Unseen(t), <<>>}
  BY <1>4, EmptyQueue DEF OneByOne
<1>5. CASE /\ awaitingFrame'[t] /\ ~Committing(Sent(t)') /\ ~Completing(Unseen(t))
           /\ \E m : Unseen(t)' = Append(Unseen(t), m)
  <2>1. PICK m, r : r = Append(Unseen(t), m) /\ r = Unseen(t)'
    BY <1>5
  <2>2. \A i \in 1 .. Len(r) : r[i] \in Completions => i = Len(r)
    BY <1>3, <1>5, <2>1, LastAppended
  <2> QED
    BY <1>5, <2>1, <2>2 DEF OneByOne
<1>6. CASE TargetStep(t) /\ WebFrame
  <2>1. PICK r : r = Sent(t)'
    OBVIOUS
  <2>2. Unseen(t)' \in {Unseen(t), <<>>}
    BY <1>1, <1>6, TargetPace
  <2>3. CASE current[t] # None
    <3>1. Unseen(t) = <<>>
      BY <1>2, <2>3 DEF Waits, OneByOne
    <3> QED
      BY <1>4, <2>2, <3>1
  <2>4. CASE /\ awaitingFrame'[t] = awaitingFrame[t]
             /\ Sent(t)' = Sent(t) \/ \E m : m \notin AnyCommit /\ Sent(t)' = Append(Sent(t), m)
    <3>1. Committing(r) => Committing(Sent(t))
      <4>1. CASE r = Sent(t)
        BY <4>1
      <4>2. CASE r # Sent(t)
        <5>1. PICK m : m \notin AnyCommit /\ r = Append(Sent(t), m)
          BY <2>1, <2>4, <4>2
        <5> QED
          BY <1>2, <1>3, <5>1, PacedSent DEF OneFrame
      <4> QED
        BY <4>1, <4>2
    <3> QED
      BY <1>4, <2>1, <2>2, <2>4, <3>1
  <2> QED
    BY <1>1, <1>6, <2>3, <2>4, TargetPace
<1>7. CASE \E w \in Processes : (HandleWebMessage(w) \/ WebExits(w)) /\ WebFrame
  <2>1. Sent(t)' = Sent(t)
    BY <1>1, <1>7, WebPace
  <2>2. CASE Unseen(t)' \in {Unseen(t), <<>>} /\ awaitingFrame'[t] = awaitingFrame[t]
    BY <1>4, <2>1, <2>2
  <2>3. CASE /\ Unseen(t) # <<>> /\ Unseen(t)' = Tail(Unseen(t))
             /\ awaitingFrame'[t] = awaitingFrame[t] \/ (~awaitingFrame'[t] /\ Head(Unseen(t)) \in Completions)
    <3>1. PICK r : r = Unseen(t)' /\ r = Tail(Unseen(t))
      BY <2>3
    <3>2. /\ r \in Seq(WebMessage) /\ Len(r) \in Nat /\ Len(Unseen(t)) = Len(r) + 1
          /\ Unseen(t)[1] = Head(Unseen(t))
          /\ \A i \in 1 .. Len(r) : i + 1 \in 1 .. Len(Unseen(t)) /\ r[i] = Unseen(t)[i + 1]
      BY <1>3, <2>3, <3>1, ReadLength, QueueType
    <3>3. \A i \in 1 .. Len(r) : r[i] \in Completions => i = Len(r)
      BY <3>2 DEF OneByOne
    <3>4. awaitingFrame[t] /\ ~Committing(Sent(t))
      BY <2>3 DEF OneByOne
    <3>5. Head(Unseen(t)) \in Completions => r = <<>>
      <4>1. Head(Unseen(t)) \in Completions => 1 = Len(Unseen(t))
        BY <3>2 DEF OneByOne
      <4> QED
        BY <3>2, <4>1, EmptySeq
    <3> QED
      BY <2>1, <2>3, <3>1, <3>3, <3>4, <3>5 DEF OneByOne
  <2> QED
    BY <1>1, <1>7, <2>2, <2>3, WebPace
<1>8. CASE \E w \in Processes : ProxyStep(w) /\ HostFrame
  <2>1. /\ awaitingFrame' = awaitingFrame /\ Sent(t) # <<>> /\ Sent(t)' = Tail(Sent(t))
        /\ Unseen(t)' = Unseen(t)
    BY <1>1, <1>8, ProxyPace
  <2>2. Committing(Tail(Sent(t))) => Committing(Sent(t))
    BY <1>2, <1>3, <2>1, PacedRead DEF OneFrame
  <2> QED
    BY <1>4, <2>1, <2>2
<1>9. CASE ReleaseStep(ViewOf[t]) /\ ViewFrame
  <2>1. /\ awaitingFrame' = awaitingFrame /\ Sent(t)' = Sent(t) /\ Len(held[ViewOf[t]]) > 1
        /\ \/ Unseen(t)' = Unseen(t)
           \/ \E m \in WebMessage : m \notin Completions /\ Unseen(t)' = Append(Unseen(t), m)
    BY <1>1, <1>9, ReleasePace
  <2>2. unfinished[ViewOf[t]] # <<>> /\ ~Committing(Sent(t)) /\ ~Completing(Unseen(t))
    BY <1>2, <1>3, <2>1, SecondIsPending DEF OneFrame
  <2>3. awaitingFrame[t]
    BY <1>2, <2>2 DEF Waits, FrameUnderWay
  <2> QED
    BY <1>4, <1>5, <2>1, <2>2, <2>3
<1>10. CASE DispatchFrameComplete(ViewOf[t]) /\ ViewFrame
  <2>1. /\ awaitingFrame' = awaitingFrame /\ Sent(t)' = Sent(t) /\ unfinished[ViewOf[t]] # <<>>
        /\ \/ Unseen(t) = <<>> /\ Unseen(t)' = Unseen(t)
           \/ \E m \in Completions : Unseen(t)' = Append(Unseen(t), m)
    BY <1>1, <1>10, CompletePace
  <2>2. awaitingFrame[t] /\ ~Committing(Sent(t)) /\ ~Completing(Unseen(t))
    BY <1>2, <2>1 DEF OneFrame, Paced, Waits, FrameUnderWay
  <2> QED
    BY <1>4, <1>5, <2>1, <2>2
<1>11. CASE Unseen(t)' = Unseen(t) /\ Sent(t)' = Sent(t) /\ awaitingFrame' = awaitingFrame
  BY <1>4, <1>11
<1>12. CASE \E v \in Views : v # ViewOf[t] /\ (ReleaseStep(v) \/ DispatchFrameComplete(v))
  <2>1. PICK v \in Views : v # ViewOf[t] /\ (ReleaseStep(v) \/ DispatchFrameComplete(v))
    BY <1>12
  <2>2. held[v] = <<>> /\ unfinished[v] = <<>>
    BY <1>1, <1>2, <2>1 DEF FramesOwned
  <2> QED
    BY <2>1, <2>2, EmptyQueue DEF ReleaseStep, DispatchFrameComplete, CanComplete
<1> QED
  BY <1>2, <1>6, <1>7, <1>8, <1>9, <1>10, <1>11, <1>12
  DEF Next, HostFrame, ViewFrame, webVars, CreateClient, OpenWeb, CreateView, OpenView, HandleViewMessage, DestroyView,
      Poll, vars, ipcVars, Sent, Unseen

(* A release on its way was sent for a buffer that is back, or for one     *)
(* whose successor in the slot the UI process has not seen.                *)
LEMMA SuccessorBack ==
  ASSUME UseInv, NEW t \in Targets, ~Young(t), Live(t), NEW r \in Objects, hostBuffer[r] # None,
         ~hostBuffer[r].pendingDelete, hostBuffer[r].poolID = poolID[t],
         NEW o \in Objects, InSlot(t, hostBuffer[r].bufferID, o), o # r
  PROVE  Back(o)
<1>1. /\ HostHeapConsistent /\ HeldBuffersAlive /\ UseOf(t) /\ TypeOK /\ poolID[t] \in PoolIDs
      /\ None \notin Objects
  BY PoolOf DEF UseInv, HandleInv, PageInv, MapInv, HeapInv
<1>2. PICK b : b = hostBuffer[r].bufferID
  OBVIOUS
<1>3. b \in Slots /\ InPool(t, b) = r
  <2>1. PICK p \in PoolIDs, a \in Slots : poolBuffers[p][a] = r
    BY <1>1 DEF HostHeapConsistent, MarkedOutsideSlots
  <2>2. p = poolID[t] /\ a = b
    BY <1>1, <1>2, <2>1 DEF HostHeapConsistent, SlotsPointToLive
  <2> QED
    BY <2>1, <2>2 DEF InPool
<1>4. InSlot(t, b, o) /\ object[t][b] = o
  BY <1>2 DEF InSlot
<1>5. Among(Sent(t), Refills(b), Unread(t))
  BY <1>1, <1>3, <1>4 DEF UseOf, SlotsAgree
<1>6. hostBuffer[o] = None
  BY <1>1, <1>3, <1>4, <1>5 DEF UseOf, NewestLast
<1> QED
  BY <1>1, <1>6 DEF HeldBuffersAlive, Back

(* What the application releases is back, and so is its successor in the   *)
(* slot: a release finds neither with the application.                     *)
LEMMA ReleasedOrSucceeded ==
  ASSUME UseInv, [Next]_vars, NEW t \in Targets, ~Young(t), Live(t), NEW v \in Views, ReleaseStep(v), ViewFrame,
         NEW b \in Slots, NEW o \in Objects, InSlot(t, b, o)
  PROVE  \/ Unseen(t)' = Unseen(t)
         \/ \E m : m # ReleaseBufferMsg(poolID[t], b) /\ Unseen(t)' = Append(Unseen(t), m)
         \/ Back(o)'
<1>1. /\ TypeOK /\ HeapInv /\ HeldOnce /\ ProcessOf[t] \in Processes /\ poolID[t] \in PoolIDs
      /\ toWeb \in [Processes -> Seq(WebMessage)]
  BY PoolOf DEF UseInv, HandleInv, PageInv, MapInv, HeapInv, TypeOK, IpcTypeOK
<1>2. PICK i \in 1 .. Len(held[v]) : DispatchReleaseBuffer(v, i)
  BY DEF ReleaseStep
<1>3. PICK e \in Objects : e = held[v][i] /\ ReleaseBuffer(e)
  BY <1>1, <1>2, HeldAfterRelease
<1>4. PICK q, c, m : q = hostBuffer[e].poolID /\ c = hostBuffer[e].bufferID /\ m = ReleaseBufferMsg(q, c)
  OBVIOUS
<1>5. \/ UNCHANGED toWeb
      \/ ~hostBuffer[e].pendingDelete /\ \E u : toWeb' = [toWeb EXCEPT ![u] = Append(@, m)]
  BY <1>1, <1>3, <1>4, ReleaseSends
<1>6. SUFFICES ASSUME ~hostBuffer[e].pendingDelete, m = ReleaseBufferMsg(poolID[t], b)
               PROVE  Back(o)'
  <2>1. Unseen(t)' = Unseen(t) \/ (~hostBuffer[e].pendingDelete /\ Unseen(t)' = Append(Unseen(t), m))
    BY <1>1, <1>5 DEF Unseen
  <2> QED
    BY <1>6, <2>1
<1>7. q = poolID[t] /\ c = b
  BY <1>4, <1>6 DEF ReleaseBufferMsg
<1>8. CASE e = o
  <2>1. ASSUME NEW u \in Views, HeldBy(u, o)'
        PROVE  FALSE
    <3>1. PICK j \in 1 .. Len(held'[u]) : held'[u][j] = o
      BY <2>1 DEF HeldBy
    <3>2. \E k \in 1 .. Len(held[u]) : held[u][k] = held'[u][j] /\ (u = v => k # i)
      BY <1>1, <1>2, HeldBefore
    <3>3. PICK k \in 1 .. Len(held[u]) : held[u][k] = held[v][i] /\ (u = v => k # i)
      BY <1>3, <1>8, <3>1, <3>2
    <3>4. u = v /\ k = i
      BY <1>1, <3>3 DEF HeldOnce
    <3> QED
      BY <3>3, <3>4
  <2>2. hostBuffer'[o] # None => ~hostBuffer'[o].locked
    BY <1>1, <1>3, <1>8, ReleasedBuffers
  <2> QED
    BY <2>1, <2>2 DEF Back
<1>9. CASE e # o
  <2>1. hostBuffer[e] # None
    BY <1>3 DEF ReleaseBuffer
  <2>2. Back(o)
    BY <1>4, <1>6, <1>7, <1>9, <2>1, SuccessorBack
  <2>3. toHost' = toHost
    BY <1>2 DEF DispatchReleaseBuffer
  <2>4. \A w \in Processes : ~CommitToView(w)
    BY <1>1, <2>3, ReadsChange DEF ProxyStep
  <2> QED
    BY <1>1, <2>2, <2>4, BackKept
<1> QED
  BY <1>8, <1>9

(* A release finds the buffer of its slot back: nothing is drawn or        *)
(* committed as long as a release is on its way.                           *)
LEMMA ReleasesBackKept ==
  ASSUME SingleTarget, UpAttached, UseInv, PacedInv, NEW t \in Targets, ~Young(t),
         OneByOne(t), ReleasesBack(t), [Next]_vars
  PROVE  ReleasesBack(t)'
<1>1. /\ TypeOK /\ HeapInv /\ Handshake /\ PoolsOwned /\ TargetsInMapLive
      /\ ProcessOf[t] \in Processes /\ toWeb \in [Processes -> Seq(WebMessage)]
      /\ webUp \in [Processes -> BOOLEAN] /\ None \notin Objects
  BY PoolOf DEF UseInv, HandleInv, PageInv, MapInv, HeapInv, MapsPointToLive, TypeOK, IpcTypeOK
<1>2. poolID'[t] = poolID[t] /\ \A s \in Targets : s = t
  BY <1>1, PoolKept DEF SingleTarget
<1>3. SUFFICES ASSUME Live(t)', NEW b \in Slots, NEW o \in Objects, InSlot(t, b, o)',
                      ReleaseInTransit(ProcessOf[t], poolID[t], b)'
               PROVE  Back(o)'
  BY DEF ReleasesBack
<1>4. PICK s, r, x : s = Unseen(t) /\ r = Unseen(t)' /\ x = ReleaseBufferMsg(poolID[t], b)
  OBVIOUS
<1>5. s \in Seq(WebMessage) /\ Among(r, {x}, Len(r)) /\ r # <<>>
  <2>1. s \in Seq(WebMessage)
    BY <1>1, <1>4 DEF Unseen
  <2>2. Among(r, {x}, Len(r))
    BY <1>2, <1>3, <1>4 DEF ReleaseInTransit, Among, Unseen
  <2> QED
    BY <2>1, <2>2, EmptyQueue DEF Among
<1>6. ASSUME Live(t), InSlot(t, b, o), r = s \/ (s # <<>> /\ r = Tail(s)) \/ \E m : m # x /\ r = Append(s, m)
      PROVE  Back(o) /\ s # <<>>
  <2>1. Among(s, {x}, Len(s))
    BY ONLY <1>5, <1>6, ReleasesKept
  <2>2. ReleaseInTransit(ProcessOf[t], poolID[t], b)
    BY <1>4, <2>1 DEF ReleaseInTransit, Among, Unseen
  <2> QED
    BY <1>6, <2>1, <2>2, EmptyQueue DEF ReleasesBack, Among
<1>7. s # <<>> => awaitingFrame[t] /\ ~Committing(Sent(t))
  BY <1>4 DEF OneByOne
<1>8. ASSUME WebFrame, Back(o)
      PROVE  Back(o)'
  BY <1>8 DEF WebFrame, hostVars, appVars, Back, HeldBy
<1>9. ASSUME UNCHANGED <<phase, object>>, webUp'[ProcessOf[t]] => webUp[ProcessOf[t]]
      PROVE  Live(t) /\ InSlot(t, b, o)
  BY <1>3, <1>9 DEF Live, InSlot
<1>10. CASE TargetStep(t) /\ WebFrame
  <2>1. r = s /\ s # <<>>
    BY <1>1, <1>4, <1>5, <1>10, TargetPace
  <2>2. Live(t) /\ InSlot(t, b, o)
    BY <1>1, <1>3, <1>7, <1>10, <2>1 DEF Live, InSlot, Young, TargetStep, CreateTarget, Initialize, ReceiveReply,
       Resize, DestroyBufferPool, FrameAborts, CanRender, FrameReuses, FrameFailsToAllocate, FrameAllocates,
       FrameRendered, Deinitialize, DestroyTarget, CloseWeb, webVars, ipcVars, TypeOK, WebTypeOK
  <2> QED
    BY <1>6, <1>8, <1>10, <2>1, <2>2
<1>11. CASE \E w \in Processes : (HandleWebMessage(w) \/ WebExits(w)) /\ WebFrame
  <2>1. r = s \/ (s # <<>> /\ r = Tail(s))
    BY <1>1, <1>4, <1>5, <1>11, WebPace
  <2>2. UNCHANGED <<phase, object>> /\ (webUp'[ProcessOf[t]] => webUp[ProcessOf[t]])
    BY <1>1, <1>11 DEF HandleWebMessage, WebExits, CloseWeb, webVars
  <2> QED
    BY <1>6, <1>8, <1>9, <1>11, <2>1, <2>2
<1>12. CASE \E w \in Processes : ProxyStep(w) /\ HostFrame
  <2>1. PICK w \in Processes : ProxyStep(w) /\ HostFrame
    BY <1>12
  <2>2. r = s /\ Sent(t) # <<>> /\ Head(Sent(t)) = Head(toHost[w])
    BY <1>1, <1>4, <2>1, ProxyPace
  <2>3. UNCHANGED <<phase, object, webUp>>
    BY <2>1 DEF HostFrame, webVars, ProxyStep, ConstructPool, PurgePool, BufferAllocation, CommitToView,
       CommitWithoutView
  <2>4. Back(o) /\ ~Committing(Sent(t))
    BY <1>6, <1>7, <1>9, <2>2, <2>3
  <2>5. ASSUME NEW u \in Processes, CommitToView(u)
        PROVE  FALSE
    <3>1. Head(toHost[u]) \in AnyCommit /\ ProxyStep(u) /\ HostFrame
      <4>1. Head(toHost[u]) \in HostMessage /\ ProxyStep(u)
        BY <1>1, <2>5, ProxyMessage DEF ProxyStep
      <4> QED
        BY <2>1, <2>5, <4>1 DEF CommitToView, Reads, AnyCommit
    <3>2. Head(Sent(t)) \in AnyCommit /\ Sent(t) # <<>> /\ Sent(t) \in Seq(HostMessage)
      BY <1>1, <3>1, ProxyPace, PacedTypes
    <3>3. Committing(Sent(t))
      <4>1. 1 \in 1 .. Len(Sent(t)) /\ Sent(t)[1] = Head(Sent(t))
        BY <3>2, ReadLength
      <4> QED
        BY <3>2, <4>1 DEF Committing, Among
    <3> QED
      BY <2>4, <3>3
  <2> QED
    BY <1>1, <2>4, <2>5, BackKept
<1>13. CASE \E v \in Views : ReleaseStep(v) /\ ViewFrame
  <2>1. PICK v \in Views : ReleaseStep(v) /\ ViewFrame
    BY <1>13
  <2>2. UNCHANGED <<phase, object, webUp, toHost>>
    BY <2>1 DEF ReleaseStep, DispatchReleaseBuffer, ViewFrame, webVars
  <2>3. Live(t) /\ InSlot(t, b, o)
    BY <1>9, <2>2
  <2>4. r = s \/ (\E m : m # x /\ r = Append(s, m)) \/ Back(o)'
    BY <1>4, <2>1, <2>3, ReleasedOrSucceeded
  <2>5. Back(o) => Back(o)'
    BY <1>1, <2>2, ReadsChange, BackKept DEF ProxyStep
  <2> QED
    BY <1>6, <2>3, <2>4, <2>5
<1>14. ASSUME UNCHANGED <<phase, object, toHost>>, webUp'[ProcessOf[t]] => webUp[ProcessOf[t]],
              r = s \/ \E q : r = Append(s, FrameCompleteMsg(q))
       PROVE  Back(o)'
  <2>1. Back(o)
    BY <1>4, <1>6, <1>9, <1>14, ReleaseKinds
  <2> QED
    BY <1>1, <1>14, <2>1, ReadsChange, BackKept DEF ProxyStep
<1>15. CASE \E w \in Processes : CreateClient(w) /\ HostFrame
  <2>1. PICK w \in Processes : CreateClient(w) /\ HostFrame
    BY <1>15
  <2>2. UNCHANGED <<phase, object, toHost, toWeb>>
    BY <2>1 DEF HostFrame, webVars, CreateClient, OpenWeb
  <2>3. webUp'[ProcessOf[t]] => webUp[ProcessOf[t]]
    <3>1. Attached(ProcessOf[t]) /\ ~Attached(w)
      BY <2>1 DEF UpAttached, Young, CreateClient, Attach
    <3> QED
      BY <1>1, <2>1, <3>1 DEF CreateClient, OpenWeb
  <2> QED
    BY <1>4, <1>14, <2>2, <2>3 DEF Unseen
<1>16. CASE \E v \in Views : DispatchFrameComplete(v) /\ ViewFrame
  <2>1. PICK v \in Views : DispatchFrameComplete(v) /\ ViewFrame
    BY <1>16
  <2>2. UNCHANGED <<phase, object, toHost, webUp>>
    BY <2>1 DEF DispatchFrameComplete, FrameComplete, ViewFrame, webVars
  <2>3. PICK u, q : UNCHANGED toWeb \/ toWeb' = [toWeb EXCEPT ![u] = Append(@, FrameCompleteMsg(q))]
    BY <2>1 DEF DispatchFrameComplete, FrameComplete, SendToWeb
  <2>4. r = s \/ r = Append(s, FrameCompleteMsg(q))
    BY <1>1, <1>4, <2>3 DEF Unseen
  <2> QED
    BY <1>14, <2>2, <2>4
<1>17. CASE UNCHANGED <<webVars, toHost, toWeb, webUp>>
  BY <1>4, <1>14, <1>17 DEF webVars, Unseen
<1> QED
  BY <1>2, <1>10, <1>11, <1>12, <1>13, <1>15, <1>16, <1>17
  DEF Next, HostFrame, ViewFrame, CreateView, OpenView, HandleViewMessage, DestroyView, CloseView, Poll, vars, ipcVars

(* A commit on its way is one of the frame.                                *)
LEMMA CommitIsCommitting ==
  ASSUME TypeOK, NEW t \in Targets, NEW b \in Slots, CommitInTransit(ProcessOf[t], poolID[t], b)
  PROVE  Committing(Sent(t))
<1>1. Among(Sent(t), Commits(b), Unread(t))
  BY CommitAmong
<1> QED
  BY <1>1 DEF Committing, Among, Commits, AnyCommit, Unread

(* EGLTarget::releaseBuffer unlocks slots whose buffer is back.            *)
LEMMA TurnUnlocks ==
  ASSUME TurnInv, [Next]_vars
  PROVE  [UnlocksReturned]_vars
<1>1. /\ HandleInv /\ TypeOK
      /\ locked \in [Targets -> [Slots -> BOOLEAN]]
      /\ object \in [Targets -> [Slots -> Objects \cup {None}]]
      /\ toWeb \in [Processes -> Seq(WebMessage)]
  BY DEF TurnInv, UseInv, HandleInv, PageInv, MapInv, HeapInv, TypeOK, WebTypeOK, IpcTypeOK
<1> SUFFICES ASSUME NEW t \in Targets, NEW b \in Slots, NEW o, o = object[t][b],
                    locked[t][b], ~locked'[t][b], o # None, object'[t][b] = o
             PROVE  Back(o) /\ ~CommitInTransit(ProcessOf[t], poolID[t], b)
  BY DEF UnlocksReturned, Back
<1>2. PICK w \in Processes : HandleWebMessage(w)
  <2>1. ASSUME NEW u \in Targets, TargetStep(u)
        PROVE  FALSE
    <3>1. ~Resize(u) /\ ~Deinitialize(u)
      BY <1>1 DEF Resize, Deinitialize, DestroyBufferPool
    <3>2. ~FrameRendered(u)
      <4> SUFFICES ASSUME FrameRendered(u) PROVE FALSE
        OBVIOUS
      <4>1. locked' = [locked EXCEPT ![u][current[u]] = TRUE]
        BY DEF FrameRendered
      <4> QED
        BY <1>1, <4>1
    <3> QED
      BY <2>1, <3>1, <3>2 DEF TargetStep, CreateTarget, Initialize, ReceiveReply, FrameAborts, FrameReuses,
         FrameFailsToAllocate, FrameAllocates, DestroyTarget, webVars
  <2> QED
    BY <2>1 DEF Next, WebExits, HostFrame, ViewFrame, webVars, vars
<1>3. /\ w = ProcessOf[t] /\ toWeb[w] # <<>> /\ Head(toWeb[w]) = ReleaseBufferMsg(poolID[t], b)
      /\ ~Young(t) /\ Live(t)
  BY <1>1, <1>2, UnlockingMessage
<1>4. ReleaseInTransit(ProcessOf[t], poolID[t], b)
  BY <1>1, <1>3, HeadTailProperties, LenProperties DEF ReleaseInTransit
<1>5. InSlot(t, b, o) /\ o \in Objects
  BY <1>1, <1>3 DEF InSlot, Live
<1>6. Back(o) /\ ~Committing(Sent(t))
  BY <1>3, <1>4, <1>5 DEF TurnInv, ReleasesBack, OneByOne, Unseen
<1> QED
  BY <1>1, <1>6, CommitIsCommitting

(* A target that gets its pool has read everything.                        *)
LEMMA TurnStart ==
  ASSUME HandleInv, NEW t \in Targets, Young(t), ReceiveReply(t) /\ WebFrame
  PROVE  Unseen(t)' = <<>>
<1>1. /\ ProcessOf[t] \in Processes /\ toWeb \in [Processes -> Seq(WebMessage)]
  BY IpcAssumption DEF HandleInv, PageInv, MapInv, HeapInv, TypeOK, IpcTypeOK
<1>2. PICK w : w = ProcessOf[t]
  OBVIOUS
<1>3. phase[t] = "constructing" /\ toWeb[w] # <<>> /\ Unseen(t)' = Tail(toWeb[w])
  BY <1>1, <1>2 DEF ReceiveReply, Received, Unseen
<1>4. \E q \in PoolIDs : toWeb[w] = <<PoolConstructionReplyMsg(q)>>
  <2>1. Asked(w) \/ Answered(w)
    BY <1>1, <1>2, <1>3 DEF HandleInv, PageInv, Handshake, HandshakeAt
  <2> QED
    BY <1>3, <2>1 DEF Asked, Answered
<1>5. \A m : Tail(<<m>>) = <<>>
  OBVIOUS
<1> QED
  BY <1>3, <1>4, <1>5

(* Every step keeps the turn, which the releases depend on.                *)
LEMMA TurnStep ==
  ASSUME SingleTarget, MaxHeld = 1, PoolInv, UpAttached, TurnInv, [Next]_vars
  PROVE  TurnInv'
<1>1. OneTargetPerProcess /\ UseInv /\ PacedInv /\ HandleInv /\ TypeOK
  BY DEF SingleTarget, OneTargetPerProcess, TurnInv, UseInv, HandleInv, PageInv, MapInv, HeapInv
<1>2. UseInv' /\ PacedInv'
  BY <1>1, TurnUnlocks, UseStep, PacedStep
<1>3. ASSUME NEW t \in Targets, ~Young(t)'
      PROVE  OneByOne(t)' /\ ReleasesBack(t)'
  <2>1. CASE Young(t)
    <3>1. Unseen(t)' = <<>>
      BY <1>1, <1>3, <2>1, Answering, TurnStart
    <3>2. OneByOne(t)'
      BY <3>1, EmptyQueue DEF OneByOne
    <3>3. \A b : ~ReleaseInTransit(ProcessOf[t], poolID[t], b)'
      BY <3>1, EmptyQueue DEF ReleaseInTransit, Unseen
    <3> QED
      BY <3>2, <3>3 DEF ReleasesBack
  <2>2. CASE ~Young(t)
    BY <1>1, <2>2, TurnKept, ReleasesBackKept DEF TurnInv
  <2> QED
    BY <2>1, <2>2
<1> QED
  BY <1>2, <1>3 DEF TurnInv

(* It holds at the start.                                                  *)
LEMMA TurnInit == Init => TurnInv
<1>1. ASSUME Init
      PROVE  \A t \in Targets : Young(t)
  BY <1>1 DEF Init, WebInit, Young
<1> QED
  BY <1>1, UseInit, PacedInit DEF TurnInv

(* One target and an application that shows one buffer at a time exchange  *)
(* their buffers in turn, resizes included: the releases are read before   *)
(* the completion of the next frame, and so before a slot is filled again. *)
THEOREM TurnInvariant ==
  ASSUME SingleTarget, MaxHeld = 1
  PROVE  Spec => []TurnInv
<1>1. PoolInv /\ LockInv /\ TurnInv /\ [Next]_vars => TurnInv'
  BY TurnStep DEF LockInv
<1> QED
  BY <1>1, TurnInit, Background, PTL DEF Spec

(* EGLTarget::releaseBuffer unlocks a slot only when the buffer that is in *)
(* it now has come back (renderer-backend-egl.cpp:418): a release for the  *)
(* buffer a resize threw out is read before its successor is committed.    *)
THEOREM UnlocksInTurn ==
  ASSUME SingleTarget, MaxHeld = 1
  PROVE  Spec => ReleaseUnlocksReturned
<1>1. TurnInv /\ [Next]_vars => [UnlocksReturned]_vars
  BY TurnUnlocks
<1> QED
  BY <1>1, TurnInvariant, PTL DEF Spec, ReleaseUnlocksReturned

(* frameWillRender never gives WebKit a buffer the application may still   *)
(* show (renderer-backend-egl.cpp:319), resizes included.                  *)
THEOREM DrawsInTurn ==
  ASSUME SingleTarget, MaxHeld = 1
  PROVE  Spec => []NoRenderWhileShown
<1>1. TurnInv => NoRenderWhileShown
  <2> SUFFICES ASSUME TurnInv, NEW t \in Targets, NEW o \in Objects, Rendering(t, o)
               PROVE  /\ Back(o)
                      /\ ~CommitInTransit(ProcessOf[t], poolID[t], current[t])
    BY DEF NoRenderWhileShown, Back
  <2>1. /\ TypeOK /\ TargetsRegistered /\ current \in [Targets -> Slots \cup {None}]
        /\ DrawsUnlocked
    BY DEF TurnInv, UseInv, HandleInv, PageInv, MapInv, HeapInv, TypeOK, WebTypeOK
  <2>2. PICK b \in Slots : b = current[t] /\ InSlot(t, b, o) /\ ~locked[t][b]
    BY <2>1 DEF Rendering, InSlot, DrawsUnlocked
  <2>3. ~Young(t)
    BY <2>1 DEF Rendering, TargetsRegistered, Young
  <2>4. Back(o)
    BY <2>2, <2>3 DEF TurnInv, UseInv, UseOf, UnlockedReturned, Returned
  <2>5. ~Committing(Sent(t))
    BY <2>3 DEF TurnInv, PacedInv, Waits, FrameUnderWay, Rendering
  <2> QED
    BY <2>1, <2>2, <2>4, <2>5, CommitIsCommitting
<1> QED
  BY <1>1, TurnInvariant, PTL

(* The application holds live and locked Buffers only, resizes included    *)
(* (RendererHostClientProxy::purgePool, renderer-host.cpp:200).            *)
THEOREM HeldAliveInTurn ==
  ASSUME SingleTarget, MaxHeld = 1
  PROVE  Spec => []HeldBuffersAlive
<1>1. TurnInv => HeldBuffersAlive
  BY DEF TurnInv, UseInv
<1> QED
  BY <1>1, TurnInvariant, PTL

(* A slot that stays locked waits for a buffer on its round                *)
(* (EGLTarget::releaseBuffer, renderer-backend-egl.cpp:418), resizes       *)
(* included.                                                               *)
THEOREM LocksAccountedInTurn ==
  ASSUME SingleTarget, MaxHeld = 1
  PROVE  Spec => []LockedSlotsAccounted
<1>1. OneTargetPerProcess /\ OneTargetPerView
  BY DEF SingleTarget, OneTargetPerProcess, OneTargetPerView
<1>2. Spec /\ ReleaseUnlocksReturned => []AccountInv
  BY <1>1, AccountInvariant
<1>3. AccountInv => LockedSlotsAccounted
  BY LocksOnRound
<1> QED
  BY <1>2, <1>3, UnlocksInTurn, PTL

-----------------------------------------------------------------------------
(* Frames that are lost.                                                   *)

\* A frame of t is lost only by a resize after a failed allocation.
KeepsFrames(t) == FrameKept(t) /\ (~AllocMayFail \/ (ResizeBacklog = 0 /\ AllocatedFirst(t)))

(* Nothing of a frame changes, but its end with the target.                *)
LEMMA FrameSame ==
  ASSUME NEW t \in Targets, FrameOf(t),
         unfinished'[ViewOf[t]] = unfinished[ViewOf[t]], poolID'[t] = poolID[t],
         awaitingFrame'[t] = awaitingFrame[t],
         FrameFailed(t)' => FrameFailed(t),
         ~AllocMayFail /\ current'[t] # None => object'[t][current'[t]] # None,
         Committing(Sent(t))' <=> Committing(Sent(t)),
         TornDown(t) => TornDown(t)',
         \/ Completing(Unseen(t))' <=> Completing(Unseen(t))
         \/ TornDown(t)' /\ ~Completing(Unseen(t))'
  PROVE  /\ FrameOf(t)' /\ LosesByFailure(t)
         /\ FrameKept(t) /\ (FrameFailed(t) => FrameFailed(t)') => FrameKept(t)'
<1> USE DEF FrameUnderWay
<1>1. FrameUnderWay(t)' => FrameUnderWay(t)
  OBVIOUS
<1>2. FrameUnderWay(t) => FrameUnderWay(t)' \/ TornDown(t)'
  OBVIOUS
<1> HIDE DEF FrameUnderWay
<1> QED
  BY <1>1, <1>2 DEF FrameOf, FrameKept, LosesByFailure, FrameLost

(* A frame is committed, or fails; a target that is resized was not        *)
(* waiting for one that failed.                                            *)
LEMMA FrameTarget ==
  ASSUME TypeOK, NEW t \in Targets, ~Young(t), Waits(t), FrameOf(t), poolID'[t] = poolID[t], TargetStep(t) /\ WebFrame
  PROVE  FrameOf(t)' /\ (KeepsFrames(t) => FrameKept(t)') /\ LosesByFailure(t)
<1>1. /\ ProcessOf[t] \in Processes /\ poolID[t] \in PoolIDs /\ None \notin Slots /\ None \notin Objects
      /\ toHost \in [Processes -> Seq(HostMessage)] /\ toWeb \in [Processes -> Seq(WebMessage)]
      /\ current \in [Targets -> Slots \cup {None}] /\ awaitingFrame \in [Targets -> BOOLEAN]
      /\ locked \in [Targets -> [Slots -> BOOLEAN]]
      /\ object \in [Targets -> [Slots -> Objects \cup {None}]]
      /\ webUp \in [Processes -> BOOLEAN] /\ phase \in [Targets -> Phases]
      /\ Sent(t) \in Seq(HostMessage)
  BY IpcAssumption, PacedTypes DEF TypeOK, IpcTypeOK, WebTypeOK
<1>2. unfinished' = unfinished
  BY DEF WebFrame, appVars
<1>3. CASE FrameRendered(t)
  <2>1. PICK b \in Slots : b = current[t]
    BY <1>1, <1>3 DEF FrameRendered
  <2>2. ~FrameUnderWay(t) /\ ~awaitingFrame[t] /\ ~FrameFailed(t)
    BY <1>1, <2>1 DEF Waits, FrameOf
  <2>3. /\ awaitingFrame'[t] /\ current'[t] = None /\ object' = object /\ Unseen(t)' = Unseen(t)
        /\ locked'[t] = [locked[t] EXCEPT ![b] = TRUE]
    BY <1>1, <1>3, <2>1 DEF FrameRendered, Unseen
  <2>4. CASE object[t][b] # None
    <3>1. PICK r, m : r = Sent(t)' /\ m = BufferCommitMsg(poolID[t], b)
      OBVIOUS
    <3>2. r = Append(Sent(t), m) /\ m \in AnyCommit
      <4>1. r = Append(Sent(t), m)
        BY <1>1, <1>3, <2>1, <2>4, <3>1 DEF FrameRendered, SendToHost, Sent
      <4> QED
        BY <1>1, <3>1, <4>1, MessageTypes DEF AnyCommit, BufferCommitMsg
    <3>3. Committing(r)
      BY ONLY <1>1, <3>2, AmongAppended DEF Committing
    <3>4. FrameUnderWay(t)'
      BY <3>1, <3>3 DEF FrameUnderWay
    <3>5. ~FrameFailed(t)'
      BY <1>1, <2>2, <2>3, <2>4 DEF FrameFailed
    <3> QED
      BY <1>2, <2>2, <2>3, <3>4, <3>5 DEF FrameOf, FrameKept, KeepsFrames, LosesByFailure, FrameLost
  <2>5. CASE object[t][b] = None
    <3>1. Sent(t)' = Sent(t)
      BY <1>3, <2>1, <2>5 DEF FrameRendered, Sent
    <3>2. ~FrameUnderWay(t)'
      BY <1>2, <2>2, <2>3, <3>1 DEF FrameUnderWay
    <3>3. FrameFailed(t)' /\ AllocMayFail
      BY <1>1, <2>1, <2>3, <2>5 DEF FrameFailed, FrameOf
    <3> QED
      BY <1>2, <2>3, <3>2, <3>3 DEF FrameOf, FrameKept, KeepsFrames, LosesByFailure, FrameLost
  <2> QED
    BY <2>4, <2>5
<1>4. CASE \E b \in Slots : FrameReuses(t, b) \/ FrameFailsToAllocate(t, b)
  <2>1. PICK b \in Slots : FrameReuses(t, b) \/ FrameFailsToAllocate(t, b)
    BY <1>4
  <2>2. /\ UNCHANGED <<phase, poolID, locked, object, awaitingFrame, ipcVars>>
        /\ ~AllocMayFail /\ current'[t] # None => object'[t][current'[t]] # None
    BY <1>1, <2>1 DEF FrameReuses, FrameFailsToAllocate
  <2>3. /\ FrameFailed(t)' <=> FrameFailed(t)
        /\ Sent(t)' = Sent(t) /\ Unseen(t)' = Unseen(t)
        /\ TornDown(t) => TornDown(t)'
    BY <2>2 DEF FrameFailed, Sent, Unseen, TornDown, ipcVars
  <2> QED
    BY <1>2, <2>2, <2>3, FrameSame DEF KeepsFrames
<1>5. CASE \E b \in Slots, o \in Objects : FrameAllocates(t, b, o)
  <2>1. PICK b \in Slots, o \in Objects : FrameAllocates(t, b, o)
    BY <1>5
  <2>2. PICK r, m : r = Sent(t)' /\ m = BufferAllocationMsg(poolID[t], b, o)
    OBVIOUS
  <2>3. r = Append(Sent(t), m) /\ m \notin AnyCommit
    BY <1>1, <2>1, <2>2 DEF FrameAllocates, SendToHost, Sent, BufferAllocationMsg, AnyCommit
  <2>4. Committing(r) <=> Committing(Sent(t))
    BY ONLY <1>1, <2>3, AmongAppended DEF Committing
  <2>5. /\ UNCHANGED <<phase, locked, awaitingFrame, webUp, viewUp, toWeb>>
        /\ current'[t] = b /\ object'[t] = [object[t] EXCEPT ![b] = o] /\ ~locked[t][b]
    BY <1>1, <2>1 DEF FrameAllocates, FirstUnlocked
  <2>6. /\ FrameFailed(t)' <=> FrameFailed(t)
        /\ object'[t][current'[t]] # None
    BY <1>1, <2>5 DEF FrameFailed
  <2>7. /\ Unseen(t)' = Unseen(t)
        /\ TornDown(t) => TornDown(t)'
    BY <2>5 DEF Unseen, TornDown
  <2> QED
    BY <1>2, <2>2, <2>4, <2>5, <2>6, <2>7, FrameSame DEF KeepsFrames
<1>6. CASE Resize(t)
  <2>1. KeepsFrames(t) => ~AllocMayFail
    BY <1>1, <1>6, LenProperties DEF Resize, TypeOK, IpcTypeOK, KeepsFrames
  <2>2. PICK r, m : r = Sent(t)' /\ m = PoolPurgeMsg(poolID[t])
    OBVIOUS
  <2>3. r = Append(Sent(t), m) /\ m \notin AnyCommit
    BY <1>1, <1>6, <2>2 DEF Resize, SendToHost, Sent, PoolPurgeMsg, AnyCommit
  <2>4. Committing(r) <=> Committing(Sent(t))
    BY ONLY <1>1, <2>3, AmongAppended DEF Committing
  <2>5. /\ UNCHANGED <<phase, current, awaitingFrame, webUp, viewUp, toWeb>> /\ current[t] = None
        /\ locked'[t] = [b \in Slots |-> FALSE]
    BY <1>1, <1>6 DEF Resize, DestroyBufferPool, Callable
  <2>6. ~FrameFailed(t)' /\ (KeepsFrames(t) => ~FrameFailed(t))
    BY <2>1, <2>5 DEF FrameFailed, FrameOf
  <2>7. /\ Unseen(t)' = Unseen(t)
        /\ TornDown(t) => TornDown(t)'
    BY <2>5 DEF Unseen, TornDown
  <2> QED
    BY <1>2, <2>2, <2>4, <2>5, <2>6, <2>7, FrameSame DEF KeepsFrames
<1>7. CASE Deinitialize(t)
  <2>1. /\ UNCHANGED <<awaitingFrame, current, toHost, toWeb>> /\ current[t] = None
        /\ locked'[t] = [b \in Slots |-> FALSE] /\ phase'[t] = "deinitialized"
    BY <1>1, <1>7 DEF Deinitialize, DestroyBufferPool, Callable, ipcVars
  <2>2. ~FrameFailed(t)' /\ TornDown(t)'
    BY <2>1 DEF FrameFailed, TornDown
  <2>3. FrameUnderWay(t)' <=> FrameUnderWay(t)
    BY <1>2, <2>1 DEF FrameUnderWay, Sent, Unseen
  <2> QED
    BY <1>2, <2>1, <2>2, <2>3 DEF FrameOf, FrameKept, KeepsFrames, LosesByFailure, FrameLost
<1>8. CASE FrameAborts(t) \/ DestroyTarget(t)
  <2>1. /\ UNCHANGED <<locked, object, current, awaitingFrame, toHost>>
        /\ TornDown(t)' /\ Unseen(t)' \in {Unseen(t), <<>>}
    BY <1>1, <1>8 DEF FrameAborts, CloseWeb, webVars, DestroyTarget, Unseen, TornDown
  <2>2. ~Completing(<<>>)
    BY EmptyQueue DEF Completing, Among
  <2>3. FrameUnderWay(t)' => FrameUnderWay(t)
    BY <1>2, <2>1, <2>2 DEF FrameUnderWay, Sent
  <2>4. FrameFailed(t)' <=> FrameFailed(t)
    BY <2>1 DEF FrameFailed
  <2> QED
    BY <1>2, <2>1, <2>3, <2>4 DEF FrameOf, FrameKept, KeepsFrames, LosesByFailure, FrameLost
<1> QED
  BY <1>3, <1>4, <1>5, <1>6, <1>7, <1>8 DEF TargetStep, Young, CreateTarget, Initialize, ReceiveReply

(* A completion ends the wait; a failed frame has none to come, and no     *)
(* release unlocks its slot.                                               *)
LEMMA FrameWeb ==
  ASSUME HandleInv, NEW t \in Targets, ~Young(t), OneFrame(t), FrameOf(t), poolID'[t] = poolID[t],
         NEW w \in Processes, (HandleWebMessage(w) \/ WebExits(w)) /\ WebFrame
  PROVE  FrameOf(t)' /\ (KeepsFrames(t) => FrameKept(t)') /\ LosesByFailure(t)
<1>1. /\ TypeOK /\ TargetsInMapLive /\ TargetsRegistered /\ Handshake
      /\ ProcessOf[t] \in Processes /\ ViewOf[t] \in Views /\ poolID[t] \in PoolIDs
      /\ toWeb \in [Processes -> Seq(WebMessage)] /\ locked \in [Targets -> [Slots -> BOOLEAN]]
      /\ awaitingFrame \in [Targets -> BOOLEAN] /\ Unseen(t) \in Seq(WebMessage)
  BY IpcAssumption, PacedTypes DEF HandleInv, PageInv, MapInv, MapsPointToLive, HeapInv, TypeOK, IpcTypeOK, WebTypeOK
<1>2. unfinished' = unfinished /\ current' = current /\ Sent(t)' = Sent(t) /\ object' = object /\ phase' = phase
  BY DEF WebFrame, appVars, HandleWebMessage, WebExits, webVars, Sent
<1>3. CASE WebExits(w) /\ w = ProcessOf[t]
  <2>1. /\ UNCHANGED <<locked, awaitingFrame>> /\ TornDown(t)' /\ Unseen(t)' = <<>>
    BY <1>1, <1>3 DEF WebExits, CloseWeb, webVars, Unseen, TornDown, TypeOK, IpcTypeOK
  <2>2. ~Completing(<<>>)
    BY EmptyQueue DEF Completing, Among
  <2>3. FrameFailed(t)' <=> FrameFailed(t)
    BY <1>2, <2>1 DEF FrameFailed
  <2>4. (~AllocMayFail /\ current'[t] # None => object'[t][current'[t]] # None) /\ (TornDown(t) => TornDown(t)')
    BY <1>2, <2>1 DEF FrameOf
  <2> QED
    BY <1>2, <2>1, <2>2, <2>3, <2>4, FrameSame DEF KeepsFrames
<1>4. CASE w # ProcessOf[t]
  <2>1. Unseen(t)' = Unseen(t) /\ (TornDown(t) => TornDown(t)')
    BY <1>1, <1>2, <1>4 DEF HandleWebMessage, Received, WebExits, CloseWeb, webVars, Unseen, TornDown, TypeOK, IpcTypeOK
  <2>2. locked'[t] = locked[t] /\ awaitingFrame'[t] = awaitingFrame[t]
    <3>1. CASE WebExits(w)
      BY <3>1 DEF WebExits, webVars
    <3>2. CASE HandleWebMessage(w)
      <4>1. PICK m, s : m = Head(toWeb[w]) /\ s = targetMap[w][m.poolID]
        OBVIOUS
      <4>2. m \in WebMessage /\ m.poolID \in PoolIDs
        BY <1>1, <3>2, <4>1, QueueType, WebMessageFields DEF HandleWebMessage
      <4>3. s # t
        <5>1. TargetsInMapLive
          BY <1>1
        <5> QED
          BY <1>4, <4>1, <4>2, <5>1 DEF TargetsInMapLive
      <4> QED
        BY <1>1, <3>2, <4>1, <4>3 DEF HandleWebMessage
    <3> QED
      BY <3>1, <3>2
  <2>3. FrameFailed(t)' <=> FrameFailed(t)
    BY <1>2, <2>2 DEF FrameFailed
  <2>4. ~AllocMayFail /\ current'[t] # None => object'[t][current'[t]] # None
    BY <1>2 DEF FrameOf
  <2> QED
    BY <1>2, <2>1, <2>2, <2>3, <2>4, FrameSame DEF KeepsFrames
<1>5. CASE HandleWebMessage(w) /\ w = ProcessOf[t]
  <2>1. PICK m, s : m = Head(Unseen(t)) /\ s = targetMap[w][m.poolID]
    OBVIOUS
  <2>2. /\ Unseen(t) # <<>> /\ Unseen(t)' = Tail(Unseen(t)) /\ toWeb[w] = Unseen(t) /\ InEventLoop(w)
        /\ m \in WebMessage /\ m.poolID \in PoolIDs /\ (m.code = "ReleaseBuffer" => m.bufferID \in Slots)
    BY <1>1, <1>5, <2>1, QueueType, WebMessageFields DEF HandleWebMessage, Received, Unseen
  <2>3. m.poolID = poolID[t]
    <3>1. toWeb[w] \in Seq(OwnWebMessage(poolID[t]))
      BY <1>1, <1>5 DEF Handshake, HandshakeAt
    <3> QED
      BY <2>1, <2>2, <3>1, HeadTailProperties DEF OwnWebMessage
  <2>4. UNCHANGED <<webUp, viewUp>> /\ (TornDown(t) <=> TornDown(t)')
    BY <1>2, <1>5 DEF HandleWebMessage, TornDown
  <2>5. TornDown(t) \/ s = t
    <3>1. phase[t] = "ready" => s = t
      BY <1>1, <1>5, <2>1, <2>3 DEF TargetsRegistered
    <3>2. phase[t] \in {"ready", "deinitialized", "destroyed"}
      BY <1>1 DEF Young, TypeOK, WebTypeOK, Phases
    <3> QED
      BY <3>1, <3>2 DEF TornDown
  <2>6. Completing(Unseen(t)) <=> m \in Completions \/ Completing(Tail(Unseen(t)))
    <3>1. PICK r : r = Tail(Unseen(t))
      OBVIOUS
    <3>2. Len(r) \in 0 .. Len(r) /\ Len(Unseen(t)) = Len(r) + 1
      BY <1>1, <2>2, <3>1, ReadLength
    <3>3. Among(Unseen(t), Completions, Len(r) + 1) <=> m \in Completions \/ Among(r, Completions, Len(r))
      BY ONLY <1>1, <2>1, <2>2, <3>1, <3>2, AmongRead
    <3> QED
      BY <3>1, <3>2, <3>3 DEF Completing
  <2>7. CASE m.code = "FrameComplete"
    <3>1. m \in Completions /\ FrameUnderWay(t)
      BY <2>2, <2>6, <2>7 DEF Completions, FrameUnderWay
    <3>2. ~FrameFailed(t)
      BY <3>1 DEF FrameOf
    <3>3. locked' = locked /\ (s = t => ~awaitingFrame'[t])
      <4>1. \/ s # None /\ locked' = locked /\ awaitingFrame' = [awaitingFrame EXCEPT ![s] = FALSE]
            \/ s = None /\ locked' = locked
        BY <1>5, <2>1, <2>2, <2>7 DEF HandleWebMessage
      <4>2. t # None
        BY IpcAssumption
      <4> QED
        BY <1>1, <4>1, <4>2
    <3>4. ~FrameFailed(t)'
      BY <1>2, <3>2, <3>3 DEF FrameFailed
    <3> QED
      BY <1>2, <2>4, <2>5, <3>1, <3>3, <3>4 DEF FrameOf, FrameKept, KeepsFrames, LosesByFailure, FrameLost
  <2>8. CASE m.code # "FrameComplete"
    <3>1. m \notin Completions
      BY <2>8 DEF Completions
    <3>2. awaitingFrame' = awaitingFrame
      BY <1>5, <2>1, <2>2, <2>8 DEF HandleWebMessage
    <3>3. \A b \in Slots : locked'[t][b] # locked[t][b] =>
            locked[t][b] /\ ~locked'[t][b]
      <4>1. locked' = locked \/ locked' = [locked EXCEPT ![s][m.bufferID] = FALSE]
        BY <1>5, <2>1, <2>2 DEF HandleWebMessage
      <4>2. \A b \in Slots : locked'[t][b] = locked[t][b] \/ locked'[t][b] = FALSE
        BY <1>1, <4>1
      <4>3. \A b \in Slots : locked[t][b] \in BOOLEAN
        BY <1>1
      <4> QED
        BY <4>2, <4>3
    <3>4. \A b \in Slots : KeepsFrames(t) /\ locked'[t][b] # locked[t][b] => ~AllocMayFail \/ object[t][b] # None
      <4> SUFFICES ASSUME NEW b \in Slots, locked[t][b], ~locked'[t][b], AllocMayFail, KeepsFrames(t)
                   PROVE  object[t][b] # None
        BY <3>3
      <4>1. toWeb[w] # <<>> /\ Head(toWeb[w]) = ReleaseBufferMsg(poolID[t], b) /\ Live(t)
        BY <1>5, UnlockingMessage
      <4>2. ReleaseInTransit(ProcessOf[t], poolID[t], b)
        BY <1>1, <1>5, <4>1, HeadTailProperties, LenProperties DEF ReleaseInTransit
      <4> QED
        BY <4>1, <4>2 DEF AllocatedFirst, KeepsFrames
    <3>5. /\ FrameFailed(t)' => FrameFailed(t)
          /\ KeepsFrames(t) /\ FrameFailed(t) => FrameFailed(t)'
      <4>1. CASE AllocMayFail
        BY <1>2, <3>3, <3>4, <4>1 DEF FrameFailed
      <4>2. CASE ~AllocMayFail
        BY <1>2, <3>3, <4>2 DEF FrameFailed, FrameOf
      <4> QED
        BY <4>1, <4>2
    <3>6. ~AllocMayFail /\ current'[t] # None => object'[t][current'[t]] # None
      BY <1>2 DEF FrameOf
    <3> QED
      BY <1>2, <2>2, <2>4, <2>6, <3>1, <3>2, <3>5, <3>6, FrameSame DEF KeepsFrames
  <2> QED
    BY <2>7, <2>8
<1> QED
  BY <1>3, <1>4, <1>5

(* The frame of a commit the proxy passes on is to be completed; the proxy *)
(* drops commits when target or view end.                                  *)
LEMMA FrameProxy ==
  ASSUME SingleTarget, PageInv, CommitWithoutViewMeansTeardown,
         NEW t \in Targets, ~Young(t), OneFrame(t), FrameOf(t),
         poolID'[t] = poolID[t], NEW w \in Processes, ProxyStep(w) /\ HostFrame
  PROVE  FrameOf(t)' /\ (KeepsFrames(t) => FrameKept(t)') /\ LosesByFailure(t)
<1>1. /\ HeapInv /\ Handshake /\ PoolsOwned /\ Sent(t) \in Seq(HostMessage)
      /\ unfinished[ViewOf[t]] \in Seq(PoolIDs)
  BY PacedTypes DEF PageInv, MapInv, HeapInv
<1>2. /\ awaitingFrame' = awaitingFrame /\ current' = current
      /\ Sent(t) # <<>> /\ Sent(t)' = Tail(Sent(t)) /\ Unseen(t)' = Unseen(t)
      /\ Head(Sent(t)) = Head(toHost[w])
      /\ \/ held' = held /\ unfinished' = unfinished
         \/ /\ Head(Sent(t)) \in AnyCommit
            /\ unfinished'[ViewOf[t]] = Append(unfinished[ViewOf[t]], poolID[t])
  BY <1>1, ProxyPace
<1>3. /\ UNCHANGED <<phase, locked, object, webUp, viewUp>>
      /\ TornDown(t)' <=> TornDown(t)
      /\ FrameFailed(t)' <=> FrameFailed(t)
  BY DEF HostFrame, webVars, ProxyStep, ConstructPool, PurgePool, BufferAllocation, CommitToView, CommitWithoutView,
     TornDown, FrameFailed
<1>4. ~AllocMayFail /\ current'[t] # None => object'[t][current'[t]] # None
  BY <1>2, <1>3 DEF FrameOf
<1>5. PICK r, m : r = Tail(Sent(t)) /\ m = Head(Sent(t))
  OBVIOUS
<1>6. Committing(Sent(t)) <=> m \in AnyCommit \/ Committing(r)
  <2>1. Len(r) \in 0 .. Len(r) /\ Len(Sent(t)) = Len(r) + 1
    BY <1>1, <1>2, <1>5, ReadLength
  <2>2. Among(Sent(t), AnyCommit, Len(r) + 1) <=> m \in AnyCommit \/ Among(r, AnyCommit, Len(r))
    BY ONLY <1>1, <1>2, <1>5, <2>1, AmongRead
  <2> QED
    BY <2>1, <2>2 DEF Committing
<1>7. CASE m \notin AnyCommit
  BY <1>2, <1>3, <1>4, <1>5, <1>6, <1>7, FrameSame DEF KeepsFrames
<1>8. CASE m \in AnyCommit /\ unfinished'[ViewOf[t]] = Append(unfinished[ViewOf[t]], poolID[t])
  <2>1. PICK q : q = unfinished'[ViewOf[t]]
    OBVIOUS
  <2>2. /\ q # <<>> /\ \A i \in 1 .. Len(q) : i \in 1 .. Len(unfinished[ViewOf[t]]) \/ i = Len(q)
        /\ q[Len(q)] = poolID[t] /\ \A i \in 1 .. Len(unfinished[ViewOf[t]]) : q[i] = unfinished[ViewOf[t]][i]
    <3>1. /\ Len(q) = Len(unfinished[ViewOf[t]]) + 1 /\ Len(unfinished[ViewOf[t]]) \in Nat
          /\ q[Len(q)] = poolID[t] /\ \A i \in 1 .. Len(unfinished[ViewOf[t]]) : q[i] = unfinished[ViewOf[t]][i]
      BY <1>1, <1>8, <2>1, AppendedLength, LenProperties
    <3> QED
      BY <3>1, EmptyQueue
  <2>3. FrameUnderWay(t) /\ ~FrameFailed(t) /\ \A i \in 1 .. Len(q) : q[i] = poolID[t]
    BY <1>6, <1>8, <2>2 DEF FrameOf, FrameUnderWay
  <2>4. FrameUnderWay(t)'
    BY <2>1, <2>2 DEF FrameUnderWay
  <2> QED
    BY <1>3, <1>4, <2>1, <2>3, <2>4 DEF FrameOf, FrameKept, KeepsFrames, LosesByFailure, FrameLost
<1>9. CASE m \in AnyCommit /\ unfinished' = unfinished
  <2>1. Reads(w, "BufferCommit") /\ (CommitWithoutView(w) \/ CommitToView(w))
    <3>1. toHost[w] # <<>> /\ Head(toHost[w]).code = "BufferCommit" /\ ProxyStep(w)
      <4>1. toHost[w] # <<>>
        BY DEF ProxyStep, ConstructPool, PurgePool, BufferAllocation, CommitToView, CommitWithoutView, Reads
      <4> QED
        BY <1>2, <1>5, <1>9, <4>1 DEF AnyCommit
    <3> QED
      BY <3>1 DEF ProxyStep, ConstructPool, PurgePool, BufferAllocation, CommitToView, CommitWithoutView, Reads
  <2>2. PICK p, v : p = Head(toHost[w]).poolID /\ v = viewBackendMap[p]
    OBVIOUS
  <2>3. ~CommitToView(w)
    <3>1. ASSUME CommitToView(w)
          PROVE  FALSE
      <4>1. /\ p \in PoolIDs /\ v \in Views
        BY <1>1, <2>2, <3>1, HeldAfterCommit
      <4>2. v = ViewOf[t]
        BY <1>1, <2>2, <4>1 DEF PoolsOwned, OwnedOf, SingleTarget
      <4>3. unfinished' = [unfinished EXCEPT ![v] = Append(@, p)]
        BY <2>2, <3>1 DEF CommitToView, FindViewBackend
      <4>4. unfinished \in [Views -> Seq(PoolIDs)]
        BY <1>1 DEF HeapInv, TypeOK, HostTypeOK
      <4>5. unfinished'[v] = Append(unfinished[v], p) /\ unfinished[v] \in Seq(PoolIDs)
        BY <4>1, <4>3, <4>4
      <4>6. PICK s : s = Append(unfinished[v], p)
        OBVIOUS
      <4>7. Len(s) = Len(unfinished[v]) + 1 /\ Len(unfinished[v]) \in Nat
        BY <4>5, <4>6, AppendedLength, LenProperties
      <4> QED
        BY <1>9, <4>5, <4>6, <4>7
    <3> QED
      BY <3>1
  <2>4. v = None
    BY <2>1, <2>2, <2>3 DEF CommitWithoutView, FindViewBackend
  <2>5. TornDown(t)
    BY <2>1, <2>2, <2>4 DEF CommitWithoutViewMeansTeardown, SingleTarget, TornDown
  <2>6. FrameUnderWay(t)' => FrameUnderWay(t)
    BY <1>2, <1>5, <1>6, <1>9 DEF FrameUnderWay
  <2> QED
    BY <1>2, <1>3, <1>4, <1>9, <2>5, <2>6 DEF FrameOf, FrameKept, KeepsFrames, LosesByFailure, FrameLost
<1> QED
  BY <1>2, <1>5, <1>7, <1>8, <1>9

(* A frame that is completed is so where the target reads it, if it runs.  *)
LEMMA FrameView ==
  ASSUME SingleTarget, PageInv, ClosedWebsSilent,
         NEW t \in Targets, ~Young(t), OneFrame(t), FrameOf(t),
         poolID'[t] = poolID[t], NEW v \in Views, v = ViewOf[t],
         DestroyView(v) \/ ReleaseStep(v) \/ DispatchFrameComplete(v), ViewFrame
  PROVE  FrameOf(t)' /\ (KeepsFrames(t) => FrameKept(t)') /\ LosesByFailure(t)
<1>1. /\ HeapInv /\ Handshake /\ PoolsOwned /\ Unseen(t) \in Seq(WebMessage)
      /\ unfinished[v] \in Seq(PoolIDs) /\ viewUp \in [Views -> BOOLEAN]
      /\ unfinished \in [Views -> Seq(PoolIDs)] /\ ProcessOf[t] \in Processes
  BY PacedTypes DEF PageInv, MapInv, HeapInv, TypeOK, IpcTypeOK, HostTypeOK
<1>2. /\ UNCHANGED <<phase, poolID, locked, object, current, awaitingFrame>>
      /\ FrameFailed(t)' <=> FrameFailed(t)
      /\ ~AllocMayFail /\ current'[t] # None => object'[t][current'[t]] # None
  BY DEF ViewFrame, webVars, FrameFailed, FrameOf
<1>3. CASE DestroyView(v)
  <2>1. /\ Sent(t)' = Sent(t) /\ Unseen(t)' = Unseen(t) /\ unfinished'[v] = <<>> /\ TornDown(t)'
    BY <1>1, <1>3 DEF DestroyView, CloseView, Sent, Unseen, TornDown
  <2>2. (FrameUnderWay(t)' => FrameUnderWay(t)) /\ \A i \in 1 .. Len(<<>>) : FALSE
    BY <2>1, EmptyQueue DEF FrameUnderWay
  <2> QED
    BY <1>2, <2>1, <2>2 DEF FrameOf, FrameKept, KeepsFrames, LosesByFailure, FrameLost
<1>4. CASE ReleaseStep(v)
  <2>1. /\ Sent(t)' = Sent(t) /\ unfinished' = unfinished
        /\ \/ Unseen(t)' = Unseen(t)
           \/ \E m \in WebMessage : m \notin Completions /\ Unseen(t)' = Append(Unseen(t), m)
    BY <1>1, <1>4, ReleasePace
  <2>2. TornDown(t) => TornDown(t)'
    BY <1>2, <1>4 DEF ReleaseStep, DispatchReleaseBuffer, TornDown
  <2>3. PICK r : r = Unseen(t)'
    OBVIOUS
  <2>4. Completing(r) <=> Completing(Unseen(t))
    <3>1. CASE r = Unseen(t)
      BY <3>1
    <3>2. CASE r # Unseen(t)
      <4>1. PICK m \in WebMessage : m \notin Completions /\ r = Append(Unseen(t), m)
        BY <2>1, <2>3, <3>2
      <4> QED
        BY ONLY <1>1, <4>1, AmongAppended DEF Completing
    <3> QED
      BY <3>1, <3>2
  <2> QED
    BY <1>2, <2>1, <2>2, <2>3, <2>4, FrameSame DEF KeepsFrames
<1>5. CASE DispatchFrameComplete(v)
  <2>1. /\ Sent(t)' = Sent(t) /\ unfinished[v] # <<>> /\ unfinished'[v] = Tail(unfinished[v])
        /\ \/ ~webUp[ProcessOf[t]] /\ Unseen(t)' = Unseen(t)
           \/ \E m \in Completions : Unseen(t)' = Append(Unseen(t), m)
    BY <1>1, <1>5, CompletePace
  <2>2. FrameUnderWay(t) /\ ~FrameFailed(t)
    BY <2>1 DEF FrameOf, FrameUnderWay
  <2>3. \A i \in 1 .. Len(unfinished'[v]) : unfinished'[v][i] = poolID[t]
    <3>1. PICK q : q = Tail(unfinished[v])
      OBVIOUS
    <3>2. Len(q) \in Nat /\ Len(unfinished[v]) = Len(q) + 1 /\ \A i \in 1 .. Len(q) : q[i] = unfinished[v][i + 1]
      BY <1>1, <2>1, <3>1, ReadLength
    <3>3. \A i \in 1 .. Len(q) : i + 1 \in 1 .. Len(unfinished[v])
      BY <3>2
    <3> QED
      BY <2>1, <3>1, <3>2, <3>3 DEF FrameOf
  <2>4. FrameUnderWay(t)' \/ TornDown(t)'
    <3>1. CASE ~webUp[ProcessOf[t]]
      BY <1>5, <3>1 DEF DispatchFrameComplete, TornDown
    <3>2. CASE \E m \in Completions : Unseen(t)' = Append(Unseen(t), m)
      <4>1. PICK m \in Completions : Unseen(t)' = Append(Unseen(t), m)
        BY <3>2
      <4>2. PICK r : r = Unseen(t)'
        OBVIOUS
      <4>3. Completing(r)
        BY ONLY <1>1, <4>1, <4>2, AmongAppended DEF Completing
      <4> QED
        BY <4>2, <4>3 DEF FrameUnderWay
    <3> QED
      BY <2>1, <3>1, <3>2
  <2> QED
    BY <1>2, <2>2, <2>3, <2>4 DEF FrameOf, FrameKept, KeepsFrames, LosesByFailure, FrameLost
<1> QED
  BY <1>3, <1>4, <1>5

(* A target that gets its pool has rendered nothing.                       *)
LEMMA FrameStart ==
  ASSUME PageInv, SingleTarget, FramesOwned, NEW t \in Targets, Young(t), ~awaitingFrame[t],
         ReceiveReply(t) /\ WebFrame
  PROVE  FrameOf(t)' /\ FrameKept(t)' /\ ~awaitingFrame'[t]
<1>1. unfinished'[ViewOf[t]] = <<>> /\ ViewOf[t] \in Views
  BY IpcAssumption DEF FramesOwned, SingleTarget, WebFrame, appVars
<1>2. current'[t] = None /\ (\A b \in Slots : ~locked'[t][b]) /\ ~awaitingFrame'[t]
  <2>1. phase[t] = "constructing" /\ UNCHANGED <<current, locked, awaitingFrame>>
    BY DEF ReceiveReply
  <2> QED
    BY <2>1 DEF PageInv, TargetsRegistered
<1>3. \A i \in 1 .. Len(<<>>) : FALSE
  BY EmptyQueue
<1> QED
  BY <1>1, <1>2, <1>3 DEF FrameOf, FrameKept, FrameFailed

(* No frame is rendered before the target has its pool.                    *)
LEMMA YoungWaits ==
  ASSUME TypeOK, NEW t \in Targets, Young(t), Young(t)', ~awaitingFrame[t], current[t] = None, [Next]_vars
  PROVE  ~awaitingFrame'[t]
<1>1. awaitingFrame \in [Targets -> BOOLEAN]
  BY DEF TypeOK, WebTypeOK
<1>2. CASE \E s \in Targets : TargetStep(s)
  <2>1. PICK s \in Targets : TargetStep(s)
    BY <1>2
  <2>2. awaitingFrame' = awaitingFrame \/ (s # t /\ awaitingFrame' = [awaitingFrame EXCEPT ![s] = TRUE])
    BY <2>1 DEF TargetStep, CreateTarget, Initialize, ReceiveReply, Resize, FrameAborts, FrameReuses,
       FrameFailsToAllocate, FrameAllocates, FrameRendered, Deinitialize, DestroyTarget, webVars
  <2> QED
    BY <1>1, <2>2
<1>3. CASE \E w \in Processes : HandleWebMessage(w)
  <2>1. PICK w \in Processes : HandleWebMessage(w)
    BY <1>3
  <2>2. \/ awaitingFrame' = awaitingFrame
        \/ \E s : awaitingFrame' = [awaitingFrame EXCEPT ![s] = FALSE]
    BY <2>1 DEF HandleWebMessage
  <2> QED
    BY <1>1, <2>2
<1>4. CASE UNCHANGED awaitingFrame
  BY <1>4
<1> QED
  BY <1>2, <1>3, <1>4 DEF Next, WebExits, HostFrame, ViewFrame, webVars, vars

(* Every step keeps what is known of a frame.                              *)
LEMMA FrameStep ==
  ASSUME SingleTarget, PoolInv, UpAttached, PacedInv, TeardownInv,
         NEW t \in Targets, ~Young(t), FrameOf(t), [Next]_vars
  PROVE  FrameOf(t)' /\ (KeepsFrames(t) => FrameKept(t)') /\ LosesByFailure(t)
<1>0. /\ PacedInv /\ TeardownInv /\ HandleInv /\ PageInv /\ TypeOK
      /\ ClosedWebsSilent /\ FramesOwned
  BY DEF PacedInv, TeardownInv, MirrorInv, HandleInv, PageInv, MapInv, HeapInv
<1>1. /\ OneFrame(t) /\ Waits(t) /\ FrameOf(t) /\ poolID'[t] = poolID[t]
      /\ CommitWithoutViewMeansTeardown
  BY <1>0, PoolKept, TeardownCommits DEF PacedInv
<1>2. (\A s \in Targets : s = t) /\ ProcessOf[t] \in Processes /\ ViewOf[t] \in Views
  BY IpcAssumption DEF SingleTarget
<1>3. CASE TargetStep(t) /\ WebFrame
  BY <1>0, <1>1, <1>3, FrameTarget
<1>4. CASE \E w \in Processes : (HandleWebMessage(w) \/ WebExits(w)) /\ WebFrame
  BY <1>0, <1>1, <1>4, FrameWeb
<1>5. CASE \E w \in Processes : ProxyStep(w) /\ HostFrame
  BY <1>0, <1>1, <1>5, FrameProxy
<1>6. CASE \E v \in Views : v = ViewOf[t] /\ (DestroyView(v) \/ ReleaseStep(v) \/ DispatchFrameComplete(v)) /\ ViewFrame
  BY <1>0, <1>1, <1>6, FrameView
<1>7. ASSUME UNCHANGED <<toHost, toWeb, webVars>>, unfinished'[ViewOf[t]] = unfinished[ViewOf[t]],
             TornDown(t) => TornDown(t)'
      PROVE  FrameOf(t)' /\ (KeepsFrames(t) => FrameKept(t)') /\ LosesByFailure(t)
  <2>1. /\ FrameFailed(t)' <=> FrameFailed(t)
        /\ Sent(t)' = Sent(t) /\ Unseen(t)' = Unseen(t)
        /\ ~AllocMayFail /\ current'[t] # None => object'[t][current'[t]] # None
    BY <1>1, <1>7 DEF FrameFailed, FrameOf, Sent, Unseen, webVars
  <2> QED
    BY <1>1, <1>7, <2>1, FrameSame DEF webVars, KeepsFrames
<1>8. CASE \E v \in Views : v # ViewOf[t] /\ (DestroyView(v) \/ ReleaseStep(v) \/ DispatchFrameComplete(v)) /\ ViewFrame
  <2>1. PICK v \in Views : v # ViewOf[t] /\ (DestroyView(v) \/ ReleaseStep(v) \/ DispatchFrameComplete(v)) /\ ViewFrame
    BY <1>8
  <2>2. held[v] = <<>> /\ unfinished[v] = <<>>
    BY <1>0, <1>2, <2>1 DEF FramesOwned
  <2>3. DestroyView(v)
    BY <2>1, <2>2, EmptyQueue DEF ReleaseStep, DispatchFrameComplete, CanComplete
  <2>4. UNCHANGED <<toHost, toWeb, webVars, webUp>> /\ unfinished'[ViewOf[t]] = unfinished[ViewOf[t]]
        /\ viewUp'[ViewOf[t]] = viewUp[ViewOf[t]]
    BY <1>0, <1>2, <2>1, <2>3 DEF DestroyView, CloseView, ViewFrame, TypeOK, HostTypeOK, IpcTypeOK
  <2>5. TornDown(t) => TornDown(t)'
    BY <2>4 DEF TornDown, webVars
  <2> QED
    BY <1>7, <2>4, <2>5
<1>9. CASE \E w \in Processes : CreateClient(w) /\ HostFrame
  <2>1. PICK w \in Processes : CreateClient(w) /\ HostFrame
    BY <1>9
  <2>2. UNCHANGED <<toHost, toWeb, webVars, viewUp, unfinished>> /\ webUp' = [webUp EXCEPT ![w] = TRUE]
    BY <2>1 DEF CreateClient, OpenWeb, HostFrame, appVars
  <2>3. w # ProcessOf[t]
    BY <2>1 DEF CreateClient, Attach, UpAttached, Young
  <2>4. TornDown(t) => TornDown(t)'
    BY <1>2, <2>2, <2>3 DEF TornDown, webVars
  <2> QED
    BY <1>7, <2>2, <2>4
<1>10. CASE \E v \in Views : CreateView(v) /\ ViewFrame
  <2>1. PICK v \in Views : CreateView(v) /\ ViewFrame
    BY <1>10
  <2>2. UNCHANGED <<toHost, toWeb, webVars, webUp, unfinished>> /\ viewUp' = [viewUp EXCEPT ![v] = TRUE]
    BY <2>1 DEF CreateView, OpenView, ViewFrame, appVars
  <2>3. v # ViewOf[t]
    BY <2>1 DEF CreateView, Attach, UpAttached, Young
  <2>4. TornDown(t) => TornDown(t)'
    BY <1>2, <2>2, <2>3 DEF TornDown, webVars
  <2> QED
    BY <1>7, <2>2, <2>4
<1>11. CASE UNCHANGED <<toHost, toWeb, webVars, unfinished, webUp, viewUp>>
  <2>1. TornDown(t) => TornDown(t)'
    BY <1>11 DEF TornDown, webVars
  <2> QED
    BY <1>7, <1>11, <2>1
<1> QED
  BY <1>2, <1>3, <1>4, <1>5, <1>6, <1>8, <1>9, <1>10, <1>11 DEF Next, HostFrame, ViewFrame, HandleViewMessage, Poll,
     vars, ipcVars, appVars

(* The target waits for a frame that failed as long as it lives.           *)
LEMMA FailureStep ==
  ASSUME SingleTarget, PoolInv, UpAttached, FailureInv, [Next]_vars
  PROVE  FailureInv'
<1>1. /\ OneTargetPerProcess /\ OneTargetPerView /\ PacedInv /\ TeardownInv /\ PageInv /\ TypeOK /\ FramesOwned
  BY DEF SingleTarget, OneTargetPerProcess, OneTargetPerView, FailureInv, PacedInv, PageInv, MapInv, HeapInv
<1>2. PacedInv' /\ TeardownInv'
  BY <1>1, PacedStep, TeardownStep
<1>3. ASSUME NEW t \in Targets, Young(t)'
      PROVE  ~awaitingFrame'[t]
  <2>1. Young(t)
    BY <1>1, <1>3, PoolKept
  <2>2. ~awaitingFrame[t] /\ current[t] = None
    BY <1>1, <2>1 DEF FailureInv, PageInv, TargetsRegistered, Young
  <2> QED
    BY <1>1, <1>3, <2>1, <2>2, YoungWaits
<1>4. ASSUME NEW t \in Targets, ~Young(t)'
      PROVE  FrameOf(t)'
  <2>1. CASE Young(t)
    BY <1>1, <1>4, <2>1, Answering, FrameStart DEF FailureInv
  <2>2. CASE ~Young(t)
    BY <1>1, <2>2, FrameStep DEF FailureInv
  <2> QED
    BY <2>1, <2>2
<1> QED
  BY <1>2, <1>3, <1>4 DEF FailureInv

(* No frame is lost where none fails or no target is resized.              *)
LEMMA FrameInvStep ==
  ASSUME SingleTarget, PoolInv, UpAttached, FrameInv,
         ~AllocMayFail \/ (ResizeBacklog = 0 /\ \A t \in Targets : ~Young(t) => AllocatedFirst(t)),
         [Next]_vars
  PROVE  FrameInv'
<1>1. FailureInv /\ PacedInv /\ TeardownInv /\ PageInv /\ TypeOK /\ FramesOwned
  BY DEF FrameInv, FailureInv, PacedInv, PageInv, MapInv, HeapInv
<1>2. ASSUME NEW t \in Targets, ~Young(t)'
      PROVE  FrameKept(t)'
  <2>1. CASE Young(t)
    BY <1>1, <1>2, <2>1, Answering, FrameStart DEF FailureInv
  <2>2. CASE ~Young(t)
    <3>1. FrameOf(t) /\ KeepsFrames(t)
      BY <2>2 DEF FrameInv, FailureInv, KeepsFrames
    <3> QED
      BY <1>1, <2>2, <3>1, FrameStep
  <2> QED
    BY <2>1, <2>2
<1> QED
  BY <1>1, <1>2, FailureStep DEF FrameInv

(* It holds at the start.                                                  *)
LEMMA FrameInit == Init => FrameInv
<1>1. ASSUME Init
      PROVE  \A t \in Targets : Young(t) /\ ~awaitingFrame[t]
  BY <1>1 DEF Init, WebInit, Young
<1> QED
  BY <1>1, PacedInit, TeardownInit DEF FrameInv, FailureInv

(* With one target a slot that is locked without a buffer tells that a     *)
(* frame failed (frameRendered): its target waits and nothing is under way *)
(* for it.  Where allocations do not fail there is no such slot.           *)
THEOREM FailureInvariant ==
  ASSUME SingleTarget
  PROVE  Spec => []FailureInv
<1>1. Init => FailureInv
  BY FrameInit DEF FrameInv
<1>2. PoolInv /\ LockInv /\ FailureInv /\ [Next]_vars => FailureInv'
  BY FailureStep DEF LockInv
<1> QED
  BY <1>1, <1>2, Background, PTL DEF Spec

(* A step of the system, for a target with or without its pool.            *)
LEMMA LossStep ==
  ASSUME SingleTarget, PoolInv, UpAttached, FailureInv, [Next]_vars, NEW t \in Targets
  PROVE  (FrameFailed(t) => FrameLost(t)') /\ LosesByFailure(t)
<1>1. /\ OneTargetPerProcess /\ OneTargetPerView /\ PacedInv /\ TeardownInv /\ PageInv /\ TypeOK /\ FramesOwned
  BY DEF SingleTarget, OneTargetPerProcess, OneTargetPerView, FailureInv, PacedInv, PageInv, MapInv, HeapInv
<1>2. CASE ~Young(t)
  <2>1. FrameOf(t)
    BY <1>2 DEF FailureInv
  <2>2. LosesByFailure(t)
    BY <1>1, <1>2, <2>1, FrameStep
  <2> QED
    BY <2>1, <2>2 DEF FrameOf, FrameLost, LosesByFailure
<1>3. CASE Young(t)
  <2>1. ~awaitingFrame[t] /\ current[t] = None /\ ~FrameFailed(t)
    BY <1>1, <1>3 DEF FailureInv, PageInv, TargetsRegistered, Young, FrameFailed
  <2>2. ~awaitingFrame'[t]
    <3>1. CASE Young(t)'
      BY <1>1, <1>3, <2>1, <3>1, YoungWaits
    <3>2. CASE ~Young(t)'
      BY <1>1, <1>3, <2>1, <3>2, Answering, FrameStart
    <3> QED
      BY <3>1, <3>2
  <2> QED
    BY <2>1, <2>2 DEF LosesByFailure, FrameLost
<1> QED
  BY <1>2, <1>3

(* With one target, resizes included: a frame that failed is lost and      *)
(* stays lost, and nothing else loses a frame of a page that lives         *)
(* (frameRendered, renderer-backend-egl.cpp:407).                          *)
THEOREM FailedFramesLost ==
  ASSUME SingleTarget
  PROVE  Spec => FramesLostByFailure
<1>1. PoolInv /\ LockInv /\ FailureInv /\ [Next]_vars =>
        [\A t \in Targets : (FrameFailed(t) => FrameLost(t)') /\ LosesByFailure(t)]_vars
  BY LossStep DEF LockInv
<1> QED
  BY <1>1, FailureInvariant, Background, PTL DEF Spec, FramesLostByFailure

(* Without failed allocations, or without resizes, no frame is lost.       *)
THEOREM FrameInvariant ==
  ASSUME SingleTarget, ~AllocMayFail \/ ResizeBacklog = 0
  PROVE  Spec => []FrameInv
<1>1. CASE ~AllocMayFail
  <2>1. PoolInv /\ LockInv /\ FrameInv /\ [Next]_vars => FrameInv'
    BY <1>1, FrameInvStep DEF LockInv
  <2> QED
    BY <2>1, FrameInit, Background, PTL DEF Spec
<1>2. CASE ResizeBacklog = 0
  <2>1. Spec => []SteadyInv
    BY <1>2, SteadyInvariant DEF SingleTarget, OneTargetPerProcess
  <2>2. PoolInv /\ LockInv /\ SteadyInv /\ FrameInv /\ [Next]_vars => FrameInv'
    BY <1>2, FrameInvStep DEF LockInv, SteadyInv, SteadyOf
  <2> QED
    BY <2>1, <2>2, FrameInit, Background, PTL DEF Spec
<1> QED
  BY <1>1, <1>2

(* How many messages of a kind are in a queue.                             *)
LEMMA CountedKind ==
  ASSUME NEW s, NEW M
  PROVE  /\ ~Among(s, M, Len(s)) => Cardinality({i \in 1 .. Len(s) : s[i] \in M}) = 0
         /\ Among(s, M, Len(s)) /\ Len(s) \in Nat /\ NeverAfter(s, M, M, Len(s)) =>
              Cardinality({i \in 1 .. Len(s) : s[i] \in M}) = 1
<1>1. ASSUME ~Among(s, M, Len(s))
      PROVE  Cardinality({i \in 1 .. Len(s) : s[i] \in M}) = 0
  <2>1. {i \in 1 .. Len(s) : s[i] \in M} = {}
    BY <1>1 DEF Among
  <2> QED
    BY <2>1, FS_EmptySet
<1>2. ASSUME Among(s, M, Len(s)), Len(s) \in Nat, NeverAfter(s, M, M, Len(s))
      PROVE  Cardinality({i \in 1 .. Len(s) : s[i] \in M}) = 1
  <2>1. PICK k \in 1 .. Len(s) : s[k] \in M
    BY <1>2 DEF Among
  <2>2. ASSUME NEW i \in 1 .. Len(s), s[i] \in M
        PROVE  i = k
    BY <1>2, <2>1, <2>2 DEF NeverAfter
  <2>3. {i \in 1 .. Len(s) : s[i] \in M} = {k}
    BY <2>1, <2>2
  <2> QED
    BY <2>3, FS_Singleton
<1> QED
  BY <1>1, <1>2

(* What the target waits for is somewhere in the system, once, unless an   *)
(* allocation failed (frameRendered, bufferCommit, frameComplete).         *)
THEOREM FramesUnderWay ==
  ASSUME SingleTarget, ~AllocMayFail \/ ResizeBacklog = 0
  PROVE  Spec => []FrameIsUnderWay
<1>1. FrameInv => FrameIsUnderWay
  <2> SUFFICES ASSUME FrameInv, NEW t \in Targets,
                      webUp[ProcessOf[t]], viewUp[ViewOf[t]], phase[t] = "ready"
               PROVE  Cardinality({i \in 1 .. Len(toHost[ProcessOf[t]]) :
                                     \E b \in Slots : toHost[ProcessOf[t]][i] = BufferCommitMsg(poolID[t], b)})
                        + Cardinality({i \in 1 .. Len(unfinished[ViewOf[t]]) : unfinished[ViewOf[t]][i] = poolID[t]})
                        + Cardinality({i \in 1 .. Len(toWeb[ProcessOf[t]]) :
                                         toWeb[ProcessOf[t]][i] = FrameCompleteMsg(poolID[t])})
                        = IF awaitingFrame[t] /\ ~FrameFailed(t) THEN 1 ELSE 0
    BY DEF FrameIsUnderWay, FrameFailed
  <2>1. /\ TypeOK /\ Handshake /\ OneFrame(t) /\ Waits(t) /\ FrameOf(t) /\ FrameKept(t) /\ ~Young(t) /\ ~TornDown(t)
        /\ ProcessOf[t] \in Processes /\ poolID[t] \in PoolIDs
    BY IpcAssumption DEF FrameInv, FailureInv, PacedInv, PageInv, MapInv, HeapInv, Young, TornDown, TypeOK, WebTypeOK
  <2>2. PICK s, r, q : s = Sent(t) /\ r = Unseen(t) /\ q = unfinished[ViewOf[t]]
    OBVIOUS
  <2>3. /\ s \in Seq(HostMessage) /\ r \in Seq(WebMessage) /\ Len(s) \in Nat /\ Len(r) \in Nat
        /\ s \in Seq(OwnHostMessage(poolID[t])) /\ r \in Seq(OwnWebMessage(poolID[t]))
        /\ q \in Seq(PoolIDs) /\ Len(q) \in Nat
    BY <2>1, <2>2, PacedTypes, LenProperties DEF Handshake, HandshakeAt, Sent, Unseen
  <2>4. {i \in 1 .. Len(s) : \E b \in Slots : s[i] = BufferCommitMsg(poolID[t], b)}
          = {i \in 1 .. Len(s) : s[i] \in AnyCommit}
    <3>1. ASSUME NEW i \in 1 .. Len(s)
          PROVE  (\E b \in Slots : s[i] = BufferCommitMsg(poolID[t], b)) <=> s[i] \in AnyCommit
      <4>1. s[i] \in OwnHostMessage(poolID[t])
        BY <2>3, ElementOfSeq
      <4>2. s[i] \in AnyCommit => \E b \in Slots : s[i] = BufferCommitMsg(poolID[t], b)
        BY <4>1 DEF AnyCommit, OwnHostMessage, HostMessage, BufferCommitMsg
      <4>3. \A b \in Slots : BufferCommitMsg(poolID[t], b) \in AnyCommit
        BY <2>1, MessageTypes DEF AnyCommit, BufferCommitMsg
      <4> QED
        BY <4>2, <4>3
    <3> QED
      BY <3>1
  <2>5. {i \in 1 .. Len(r) : r[i] = FrameCompleteMsg(poolID[t])} = {i \in 1 .. Len(r) : r[i] \in Completions}
    <3>1. ASSUME NEW i \in 1 .. Len(r)
          PROVE  r[i] = FrameCompleteMsg(poolID[t]) <=> r[i] \in Completions
      <4>1. r[i] \in OwnWebMessage(poolID[t])
        BY <2>3, ElementOfSeq
      <4>2. r[i] \in Completions => r[i] = FrameCompleteMsg(poolID[t])
        BY <4>1 DEF Completions, OwnWebMessage, WebMessage, FrameCompleteMsg
      <4>3. FrameCompleteMsg(poolID[t]) \in Completions
        BY <2>1, MessageTypes DEF Completions, FrameCompleteMsg, WebMessage
      <4> QED
        BY <4>2, <4>3
    <3> QED
      BY <3>1
  <2>6. PICK c, d, e : /\ c = Cardinality({i \in 1 .. Len(s) : s[i] \in AnyCommit})
                       /\ d = Cardinality({i \in 1 .. Len(q) : q[i] = poolID[t]})
                       /\ e = Cardinality({i \in 1 .. Len(r) : r[i] \in Completions})
    OBVIOUS
  <2>7. SUFFICES c + d + e = IF awaitingFrame[t] /\ ~FrameFailed(t) THEN 1 ELSE 0
    BY <2>2, <2>4, <2>5, <2>6 DEF Sent, Unseen
  <2>8. Paced(s, r, q, Len(held[ViewOf[t]]))
    BY <2>1, <2>2 DEF OneFrame
  <2>9. c = IF Committing(s) THEN 1 ELSE 0
    BY <2>3, <2>6, <2>8, CountedKind DEF Committing, Paced
  <2>10. e = IF Completing(r) THEN 1 ELSE 0
    BY <2>3, <2>6, <2>8, CountedKind DEF Completing, Paced
  <2>11. d = IF q # <<>> THEN 1 ELSE 0
    <3>1. CASE q = <<>>
      <4>1. {i \in 1 .. Len(q) : q[i] = poolID[t]} = {}
        BY <3>1, EmptyQueue
      <4> QED
        BY <2>6, <3>1, <4>1, FS_EmptySet
    <3>2. CASE q # <<>>
      <4>1. Len(q) = 1
        BY <2>8, <3>2 DEF Paced
      <4>2. {i \in 1 .. Len(q) : q[i] = poolID[t]} = {1}
        BY <2>1, <2>2, <4>1 DEF FrameOf
      <4> QED
        BY <2>6, <3>2, <4>2, FS_Singleton
    <3> QED
      BY <3>1, <3>2
  <2>12. /\ ~(Committing(s) /\ q # <<>>) /\ ~(Committing(s) /\ Completing(r)) /\ ~(q # <<>> /\ Completing(r))
    BY <2>8 DEF Paced
  <2>13. awaitingFrame[t] /\ ~FrameFailed(t) <=> Committing(s) \/ q # <<>> \/ Completing(r)
    BY <2>1, <2>2 DEF FrameUnderWay, Waits, FrameOf, FrameKept
  <2> QED
    BY <2>9, <2>10, <2>11, <2>12, <2>13
<1> QED
  BY <1>1, FrameInvariant, PTL

-----------------------------------------------------------------------------
(* A slot for the next frame.                                              *)

(* While the view lives, every locked slot of a target whose frame is      *)
(* completed accounts for a buffer the application holds, or for a release *)
(* behind the completion.  There are at most MaxHeld of them.              *)
LEMMA SlotsCounted ==
  ASSUME MaxHeld < PoolSize, AccountInv, FailureInv, NEW t \in Targets, ~Young(t), viewUp[ViewOf[t]]
  PROVE  SlotFree(t)
<1> SUFFICES ASSUME Live(t), ~awaitingFrame[t] \/ Completing(Unseen(t)),
                    \A b \in Slots : locked[t][b] /\ ~FreedFirst(t, b)
             PROVE  FALSE
  BY DEF SlotFree
<1>1. /\ TypeOK /\ HandlesPlaced /\ Accounted(t) /\ OneFrame(t) /\ Waits(t) /\ FrameOf(t)
      /\ MaxHeld \in Nat /\ PoolSize \in Nat
  BY IpcAssumption, ViewBackendAssumption
  DEF AccountInv, UseInv, HandleInv, PageInv, MapInv, HeapInv, FailureInv, PacedInv
<1>2. /\ object \in [Targets -> [Slots -> Objects \cup {None}]]
      /\ webUp[ProcessOf[t]] /\ phase[t] = "ready" /\ ~TornDown(t)
  BY <1>1 DEF TypeOK, WebTypeOK, Live, TornDown
<1>3. PICK u, h, p, q : /\ u = Unseen(t) /\ h = held[ViewOf[t]] /\ p = poolID[t]
                        /\ q = unfinished[ViewOf[t]]
  OBVIOUS
<1>4. /\ u \in Seq(WebMessage) /\ Len(u) \in Nat /\ h \in Seq(Objects) /\ Len(h) \in Nat
  BY <1>1, <1>3, PacedTypes
<1>5. Paced(Sent(t), u, q, Len(h))
  BY <1>1, <1>3 DEF OneFrame
<1>6. ~FrameFailed(t) /\ ~Committing(Sent(t)) /\ (Completing(u) \/ q = <<>>)
  <2>1. CASE ~awaitingFrame[t]
    BY <1>1, <1>3, <2>1 DEF Waits, FrameOf, FrameUnderWay
  <2>2. CASE Completing(u)
    BY <1>1, <1>3, <1>5, <2>2 DEF FrameOf, FrameUnderWay, Paced
  <2> QED
    BY <1>3, <2>1, <2>2
<1>7. ASSUME NEW b \in Slots
      PROVE  /\ object[t][b] \in Objects /\ InSlot(t, b, object[t][b])
             /\ \/ \E i \in 1 .. Len(h) : h[i] = object[t][b]
                \/ \E i \in 1 .. Len(u) : u[i] = ReleaseBufferMsg(p, b)
  <2>1. PICK o : o = object[t][b]
    OBVIOUS
  <2>2. o \in Objects /\ InSlot(t, b, o)
    BY <1>2, <1>6, <2>1 DEF FrameFailed, InSlot
  <2>3. OnRound(t, b, o)
    BY <1>1, <1>2, <2>2 DEF Accounted
  <2>4. Followed(Sent(t), Commits(b), Refills(b), Unread(t))
    BY <1>6 DEF Committing, Among, Followed, Commits, AnyCommit, Unread
  <2> QED
    BY <1>3, <2>1, <2>2, <2>3, <2>4 DEF OnRound, HeldBy, ReleaseInTransit, Unseen
<1>8. PICK k \in 0 .. Len(u) : /\ (Len(u) - k) + Len(h) <= MaxHeld
                               /\ \A b \in Slots : \A i \in 1 .. Len(u) : u[i] = ReleaseBufferMsg(p, b) => i > k
  <2>1. CASE Completing(u)
    <3>1. PICK k \in 1 .. Len(u) : u[k] \in Completions
      BY <2>1 DEF Completing, Among
    <3>2. (Len(u) - k) + Len(h) <= MaxHeld
      BY <1>5, <3>1 DEF Paced
    <3>3. ASSUME NEW b \in Slots, NEW i \in 1 .. Len(u), u[i] = ReleaseBufferMsg(p, b), i <= k
          PROVE  FALSE
      <4>1. i # k
        BY <3>1, <3>3 DEF Completions, ReleaseBufferMsg
      <4>2. k \in i + 1 .. Len(u)
        BY <1>4, <3>1, <3>3, <4>1
      <4>3. NeverAfter(u, {ReleaseBufferMsg(p, b)}, Completions, Len(u))
        BY <1>3 DEF FreedFirst
      <4> QED
        BY <3>1, <3>3, <4>2, <4>3 DEF NeverAfter
    <3> QED
      BY <1>4, <3>1, <3>2, <3>3
  <2>2. CASE ~Completing(u)
    <3>1. Len(u) + Len(h) <= MaxHeld
      BY <1>5, <1>6, <2>2 DEF Paced
    <3> QED
      BY <1>4, <3>1
  <2> QED
    BY <2>1, <2>2
<1> DEFINE At(b, n) == \/ n <= Len(u) - k /\ u[k + n] = ReleaseBufferMsg(p, b)
                       \/ n > Len(u) - k /\ h[n - (Len(u) - k)] = object[t][b]
<1>9. ASSUME NEW b \in Slots
      PROVE  \E n \in 1 .. MaxHeld : At(b, n)
  <2>1. CASE \E i \in 1 .. Len(h) : h[i] = object[t][b]
    <3>1. PICK i \in 1 .. Len(h) : h[i] = object[t][b]
      BY <2>1
    <3>2. PICK n : n = i + (Len(u) - k)
      OBVIOUS
    <3>3. n \in 1 .. MaxHeld /\ n > Len(u) - k /\ n - (Len(u) - k) = i
      BY <1>1, <1>4, <1>8, <3>1, <3>2
    <3> QED
      BY <3>1, <3>3
  <2>2. CASE \E i \in 1 .. Len(u) : u[i] = ReleaseBufferMsg(p, b)
    <3>1. PICK i \in 1 .. Len(u) : u[i] = ReleaseBufferMsg(p, b)
      BY <2>2
    <3>2. PICK n : n = i - k
      OBVIOUS
    <3>3. i > k
      BY <1>8, <3>1
    <3>4. n \in 1 .. MaxHeld /\ n <= Len(u) - k /\ k + n = i
      BY <1>1, <1>4, <1>8, <3>1, <3>2, <3>3
    <3> QED
      BY <3>1, <3>4
  <2> QED
    BY <1>7, <2>1, <2>2
<1>10. ASSUME NEW a \in Slots, NEW b \in Slots, NEW n \in 1 .. MaxHeld, At(a, n), At(b, n)
       PROVE  a = b
  <2>1. CASE n <= Len(u) - k
    <3>1. ReleaseBufferMsg(p, a) = ReleaseBufferMsg(p, b)
      BY <1>4, <1>8, <1>10, <2>1
    <3> QED
      BY <3>1 DEF ReleaseBufferMsg
  <2>2. CASE n > Len(u) - k
    <3>1. object[t][a] = object[t][b]
      BY <1>4, <1>8, <1>10, <2>2
    <3>2. PICK o \in Objects : InSlot(t, a, o) /\ InSlot(t, b, o)
      BY <1>7, <3>1
    <3> QED
      BY <1>1, <3>2 DEF HandlesPlaced
  <2> QED
    BY <1>4, <1>8, <2>1, <2>2
<1> HIDE DEF At
<1> DEFINE place == [b \in Slots |-> CHOOSE n \in 1 .. MaxHeld : At(b, n)]
<1>11. /\ place \in [Slots -> 1 .. MaxHeld]
       /\ \A b \in Slots : At(b, place[b])
  BY <1>9
<1> HIDE DEF place
<1>12. /\ IsFiniteSet(Slots) /\ Cardinality(Slots) = PoolSize
       /\ IsFiniteSet(1 .. MaxHeld) /\ Cardinality(1 .. MaxHeld) = MaxHeld
  <2>1. PICK last \in Int : last = PoolSize - 1
    BY <1>1
  <2>2. /\ IsFiniteSet(0 .. last)
        /\ Cardinality(0 .. last) = IF 0 > last THEN 0 ELSE last - 0 + 1
    <3>1. 0 \in Int
      OBVIOUS
    <3> QED
      BY ONLY <3>1, FS_Interval
  <2>3. /\ IsFiniteSet(1 .. MaxHeld)
        /\ Cardinality(1 .. MaxHeld) = IF 1 > MaxHeld THEN 0 ELSE MaxHeld - 1 + 1
    <3>1. 1 \in Int /\ MaxHeld \in Int
      BY <1>1
    <3> QED
      BY ONLY <3>1, FS_Interval
  <2>4. PoolSize # 0 /\ MaxHeld # 0
    BY IpcAssumption, ViewBackendAssumption
  <2> QED
    BY <1>1, <2>1, <2>2, <2>3, <2>4 DEF Slots
<1>13. PICK a, b \in Slots : a # b /\ place[a] = place[b]
  BY <1>11, <1>12, FS_PigeonHole
<1> QED
  BY <1>10, <1>11, <1>13

(* Nothing of the target changes, or only for the better.                  *)
LEMMA SlotSame ==
  ASSUME NEW t \in Targets, SlotFree(t), Live(t)' => Live(t), poolID'[t] = poolID[t],
         awaitingFrame'[t] = awaitingFrame[t], Unseen(t)' = Unseen(t),
         \A b \in Slots : locked'[t][b] => locked[t][b]
  PROVE  SlotFree(t)'
BY DEF SlotFree, FreedFirst

(* A step of the target itself: it draws or is resized only when nothing   *)
(* is to be completed.                                                     *)
LEMMA SlotTarget ==
  ASSUME TypeOK, NEW t \in Targets, ~Young(t), Waits(t), SlotFree(t), poolID'[t] = poolID[t],
         TargetStep(t) /\ WebFrame
  PROVE  SlotFree(t)'
<1>1. /\ ProcessOf[t] \in Processes /\ 0 \in Slots
      /\ toWeb \in [Processes -> Seq(WebMessage)] /\ webUp \in [Processes -> BOOLEAN]
      /\ phase \in [Targets -> Phases] /\ awaitingFrame \in [Targets -> BOOLEAN]
      /\ locked \in [Targets -> [Slots -> BOOLEAN]] /\ current \in [Targets -> Slots \cup {None}]
  <2>1. 0 \in Slots
    BY IpcAssumption DEF Slots
  <2> QED
    BY <2>1, IpcAssumption DEF TypeOK, IpcTypeOK, WebTypeOK
<1>2. CASE FrameRendered(t)
  <2>1. awaitingFrame'[t] /\ Unseen(t)' = Unseen(t)
    BY <1>1, <1>2 DEF FrameRendered, Unseen
  <2>2. ~Completing(Unseen(t))
    BY <1>2 DEF FrameRendered, Waits, FrameUnderWay
  <2> QED
    BY <2>1, <2>2 DEF SlotFree
<1>3. CASE Resize(t)
  <2>1. \A b \in Slots : ~locked'[t][b]
    BY <1>1, <1>3 DEF Resize, DestroyBufferPool
  <2> QED
    BY <1>1, <2>1 DEF SlotFree
<1>4. CASE Deinitialize(t) \/ DestroyTarget(t) \/ FrameAborts(t)
  <2>1. ~Live(t)'
    BY <1>1, <1>4 DEF Deinitialize, DestroyTarget, FrameAborts, CloseWeb, Live
  <2> QED
    BY <2>1 DEF SlotFree
<1>5. CASE \E b \in Slots : FrameReuses(t, b) \/ FrameFailsToAllocate(t, b) \/ \E o \in Objects : FrameAllocates(t, b, o)
  <2>1. PICK b \in Slots : FrameReuses(t, b) \/ FrameFailsToAllocate(t, b) \/ \E o \in Objects : FrameAllocates(t, b, o)
    BY <1>5
  <2>2. UNCHANGED <<webUp, phase, locked, awaitingFrame, toWeb>>
    BY <2>1 DEF FrameReuses, FrameFailsToAllocate, FrameAllocates, ipcVars
  <2> QED
    BY <2>2, SlotSame DEF Live, Unseen
<1>6. ~(CreateTarget(t) \/ Initialize(t) \/ ReceiveReply(t))
  BY DEF CreateTarget, Initialize, ReceiveReply, Young
<1> QED
  BY <1>2, <1>3, <1>4, <1>5, <1>6 DEF TargetStep

(* The process reads a release, which unlocks a slot, or the completion,   *)
(* and then the slot of a release before it was unlocked already.          *)
LEMMA SlotWeb ==
  ASSUME HandleInv, NEW t \in Targets, ~Young(t), OneFrame(t), SlotFree(t), poolID'[t] = poolID[t],
         NEW w \in Processes, (HandleWebMessage(w) \/ WebExits(w)) /\ WebFrame
  PROVE  SlotFree(t)'
<1>1. /\ TypeOK /\ TargetsInMapLive /\ TargetsRegistered /\ Handshake
      /\ ProcessOf[t] \in Processes /\ poolID[t] \in PoolIDs
      /\ toWeb \in [Processes -> Seq(WebMessage)] /\ webUp \in [Processes -> BOOLEAN]
      /\ locked \in [Targets -> [Slots -> BOOLEAN]]
      /\ awaitingFrame \in [Targets -> BOOLEAN] /\ Unseen(t) \in Seq(WebMessage)
  BY IpcAssumption, PacedTypes DEF HandleInv, PageInv, MapInv, MapsPointToLive, HeapInv, TypeOK, IpcTypeOK, WebTypeOK
<1>2. CASE WebExits(w) /\ w = ProcessOf[t]
  <2>1. ~Live(t)'
    BY <1>1, <1>2 DEF WebExits, CloseWeb, Live
  <2> QED
    BY <2>1 DEF SlotFree
<1>3. CASE w # ProcessOf[t]
  <2>1. Unseen(t)' = Unseen(t) /\ (Live(t)' => Live(t))
    BY <1>1, <1>3 DEF HandleWebMessage, Received, WebExits, CloseWeb, webVars, Unseen, Live
  <2>2. locked'[t] = locked[t] /\ awaitingFrame'[t] = awaitingFrame[t]
    <3>1. CASE WebExits(w)
      BY <3>1 DEF WebExits, webVars
    <3>2. CASE HandleWebMessage(w)
      <4>1. PICK m, s : m = Head(toWeb[w]) /\ s = targetMap[w][m.poolID]
        OBVIOUS
      <4>2. m \in WebMessage /\ m.poolID \in PoolIDs
        BY <1>1, <3>2, <4>1, QueueType, WebMessageFields DEF HandleWebMessage
      <4>3. s # t
        <5>1. TargetsInMapLive
          BY <1>1
        <5> QED
          BY <1>3, <4>1, <4>2, <5>1 DEF TargetsInMapLive
      <4> QED
        BY <1>1, <3>2, <4>1, <4>3 DEF HandleWebMessage
    <3> QED
      BY <3>1, <3>2
  <2> QED
    BY <2>1, <2>2, SlotSame
<1>4. CASE HandleWebMessage(w) /\ w = ProcessOf[t] /\ Live(t)
  <2>1. PICK u, r, m, s, p : u = Unseen(t) /\ r = Unseen(t)' /\ m = Head(u) /\ s = targetMap[w][m.poolID] /\ p = poolID[t]
    OBVIOUS
  <2>2. /\ u # <<>> /\ r = Tail(u) /\ toWeb[w] = u
        /\ m \in WebMessage /\ m.poolID \in PoolIDs /\ (m.code = "ReleaseBuffer" => m.bufferID \in Slots)
    BY <1>1, <1>4, <2>1, QueueType, WebMessageFields DEF HandleWebMessage, Received, Unseen
  <2>3. m.poolID = p /\ m.code # "PoolConstructionReply"
    <3>1. toWeb[w] \in Seq(OwnWebMessage(poolID[t]))
      BY <1>1, <1>4 DEF Handshake, HandshakeAt
    <3> QED
      BY <2>1, <2>2, <3>1, HeadTailProperties DEF OwnWebMessage
  <2>4. s = t /\ t # None
    BY <1>1, <1>4, <2>1, <2>3, IpcAssumption DEF TargetsRegistered, Live
  <2>5. /\ u \in Seq(WebMessage) /\ Len(u) \in Nat /\ Len(r) \in Nat /\ Len(u) = Len(r) + 1 /\ u[1] = m
        /\ \A i \in 1 .. Len(r) : i + 1 \in 1 .. Len(u) /\ r[i] = u[i + 1]
    BY <1>1, <2>1, <2>2, ReadLength, QueueType
  <2>6. CASE m.code = "ReleaseBuffer"
    <3>1. locked' = [locked EXCEPT ![t][m.bufferID] = FALSE]
      BY <1>4, <2>1, <2>2, <2>3, <2>4, <2>6 DEF HandleWebMessage
    <3>2. locked'[t][m.bufferID] = FALSE /\ m.bufferID \in Slots
      BY <1>1, <2>2, <2>6, <3>1
    <3> QED
      BY <3>2 DEF SlotFree
  <2>7. CASE m.code = "FrameComplete"
    <3>1. m \in Completions /\ Completing(u)
      BY <2>2, <2>5, <2>7 DEF Completions, Completing, Among
    <3>2. NeverAfter(u, Completions, Completions, Len(u))
      BY <2>1 DEF OneFrame, Paced
    <3>3. \A j \in 2 .. Len(u) : u[j] \notin Completions
      BY <2>5, <3>1, <3>2 DEF NeverAfter
    <3>4. locked' = locked
      BY <1>4, <2>1, <2>2, <2>4, <2>7 DEF HandleWebMessage
    <3>5. ASSUME NEW b \in Slots
          PROVE  ~FreedFirst(t, b)
      <4>1. ASSUME NEW i \in 1 .. Len(u), NEW j \in i + 1 .. Len(u)
            PROVE  u[j] \notin Completions
        BY <2>5, <3>3
      <4> QED
        BY <2>1, <4>1 DEF FreedFirst, NeverAfter
    <3>6. PICK b \in Slots : ~locked[t][b]
      BY <1>4, <2>1, <3>1, <3>5 DEF SlotFree
    <3> QED
      BY <3>4, <3>6 DEF SlotFree
  <2> QED
    BY <2>2, <2>3, <2>6, <2>7 DEF WebMessage
<1>5. CASE HandleWebMessage(w) /\ ~Live(t)
  <2>1. ~Live(t)'
    BY <1>5 DEF HandleWebMessage, Live
  <2> QED
    BY <2>1 DEF SlotFree
<1> QED
  BY <1>2, <1>3, <1>4, <1>5

(* A view that is gone gets no commit: none is in the map.                 *)
LEMMA ViewsIdleStep ==
  ASSUME HeapInv, ViewsInMapLive, ClosedViewsIdle, [Next]_vars
  PROVE  ClosedViewsIdle'
<1>1. /\ held \in [Views -> Seq(Objects)] /\ unfinished \in [Views -> Seq(PoolIDs)] /\ viewUp \in [Views -> BOOLEAN]
  BY DEF HeapInv, TypeOK, HostTypeOK, IpcTypeOK
<1>2. SUFFICES ASSUME NEW v \in Views, ~viewUp'[v]
               PROVE  held'[v] = <<>> /\ unfinished'[v] = <<>>
  BY DEF ClosedViewsIdle
<1>3. CASE \E w \in Processes : CommitToView(w)
  <2>1. PICK w \in Processes : CommitToView(w)
    BY <1>3
  <2>2. PICK p, u, o : p = Head(toHost[w]).poolID /\ u = viewBackendMap[p]
                       /\ o = poolBuffers[p][Head(toHost[w]).bufferID]
    OBVIOUS
  <2>3. /\ p \in PoolIDs /\ u \in Views /\ held' = [held EXCEPT ![u] = Append(@, o)]
        /\ unfinished' = [unfinished EXCEPT ![u] = Append(@, p)] /\ viewUp' = viewUp
    BY <2>1, <2>2, HeldAfterCommit DEF CommitToView, FindViewBackend
  <2>4. v # u
    BY <1>2, <2>2, <2>3 DEF ViewsInMapLive
  <2> QED
    BY <1>1, <1>2, <2>3, <2>4 DEF ClosedViewsIdle
<1>4. CASE \E u \in Views : DestroyView(u)
  BY <1>1, <1>2, <1>4 DEF DestroyView, CloseView, ClosedViewsIdle
<1>5. CASE \E u \in Views : ReleaseStep(u)
  <2>1. PICK u \in Views : \E i \in 1 .. Len(held[u]) : DispatchReleaseBuffer(u, i)
    BY <1>5 DEF ReleaseStep
  <2>2. /\ held[u] # <<>> /\ unfinished' = unfinished /\ viewUp' = viewUp
        /\ \A x \in Views : x # u => held'[x] = held[x]
    BY <1>1, <2>1, EmptyQueue DEF DispatchReleaseBuffer
  <2> QED
    BY <1>2, <2>2 DEF ClosedViewsIdle
<1>6. CASE \E u \in Views : DispatchFrameComplete(u)
  <2>1. PICK u \in Views : DispatchFrameComplete(u)
    BY <1>6
  <2>2. /\ unfinished[u] # <<>> /\ held' = held /\ viewUp' = viewUp
        /\ \A x \in Views : x # u => unfinished'[x] = unfinished[x]
    BY <1>1, <2>1 DEF DispatchFrameComplete, CanComplete, Received
  <2> QED
    BY <1>2, <2>2 DEF ClosedViewsIdle
<1>7. CASE held' = held /\ unfinished' = unfinished /\ \A x \in Views : viewUp[x] => viewUp'[x]
  BY <1>2, <1>7 DEF ClosedViewsIdle
<1>8. CASE \E t \in Targets : TargetStep(t) /\ WebFrame
  <2>1. held' = held /\ unfinished' = unfinished
    BY <1>8 DEF WebFrame, appVars
  <2>2. viewUp' = viewUp
    BY <1>8 DEF TargetStep, CreateTarget, Initialize, ReceiveReply, Resize, FrameAborts, FrameReuses,
       FrameFailsToAllocate, FrameAllocates, FrameRendered, Deinitialize, DestroyTarget, ipcVars
  <2> QED
    BY <1>7, <2>1, <2>2
<1>9. CASE \E w \in Processes : (HandleWebMessage(w) \/ WebExits(w)) /\ WebFrame
  BY <1>7, <1>9 DEF HandleWebMessage, WebExits, WebFrame, appVars
<1>10. CASE \E w \in Processes : CreateClient(w) \/ ConstructPool(w) \/ PurgePool(w) \/ BufferAllocation(w) \/ CommitWithoutView(w)
  BY <1>7, <1>10 DEF CreateClient, OpenWeb, ConstructPool, PurgePool, BufferAllocation, CommitWithoutView, appVars
<1>11. CASE \E u \in Views : CreateView(u) \/ HandleViewMessage(u)
  BY <1>1, <1>7, <1>11 DEF CreateView, OpenView, HandleViewMessage, appVars
<1>12. CASE Poll /\ HostFrame /\ UNCHANGED <<hostVars, appVars>>
  BY <1>7, <1>12 DEF Poll, ipcVars, appVars
<1>13. CASE UNCHANGED vars
  BY <1>7, <1>13 DEF vars, ipcVars, appVars
<1> QED
  BY <1>3, <1>4, <1>5, <1>6, <1>8, <1>9, <1>10, <1>11, <1>12, <1>13 DEF Next, ProxyStep

(* Once the view is gone nothing is released or completed, and the slot    *)
(* stays: the target waits for ever after its next frame.                  *)
LEMMA SlotStays ==
  ASSUME SingleTarget, PoolInv, UpAttached, AccountInv, FailureInv, ClosedViewsIdle, NEW t \in Targets, ~Young(t),
         SlotFree(t), ~viewUp'[ViewOf[t]], [Next]_vars
  PROVE  SlotFree(t)'
<1>1. /\ TypeOK /\ HeapInv /\ HandleInv /\ PageInv /\ Handshake /\ PoolsOwned /\ FramesOwned
      /\ OneFrame(t) /\ Waits(t) /\ ProcessOf[t] \in Processes /\ ViewOf[t] \in Views
  BY IpcAssumption DEF AccountInv, UseInv, HandleInv, PageInv, MapInv, HeapInv, FailureInv, PacedInv
<1>2. poolID'[t] = poolID[t] /\ \A s \in Targets : s = t
  BY <1>1, PoolKept DEF SingleTarget
<1>3. CASE TargetStep(t) /\ WebFrame
  BY <1>1, <1>2, <1>3, SlotTarget
<1>4. CASE \E w \in Processes : (HandleWebMessage(w) \/ WebExits(w)) /\ WebFrame
  BY <1>1, <1>2, <1>4, SlotWeb
<1>5. CASE UNCHANGED webVars /\ Unseen(t)' = Unseen(t) /\ (webUp'[ProcessOf[t]] => webUp[ProcessOf[t]])
  BY <1>2, <1>5, SlotSame DEF webVars, Live
<1>6. CASE \E w \in Processes : ProxyStep(w) /\ HostFrame
  <2>1. PICK w \in Processes : ProxyStep(w) /\ HostFrame
    BY <1>6
  <2>2. Unseen(t)' = Unseen(t)
    BY <1>1, <2>1, ProxyPace
  <2>3. webUp' = webUp
    BY <2>1 DEF ProxyStep, ConstructPool, PurgePool, BufferAllocation, CommitToView, CommitWithoutView
  <2> QED
    BY <1>5, <2>1, <2>2, <2>3 DEF HostFrame
<1>7. CASE \E w \in Processes : CreateClient(w) /\ HostFrame
  <2>1. PICK w \in Processes : CreateClient(w) /\ HostFrame
    BY <1>7
  <2>2. toWeb' = toWeb /\ webUp' = [webUp EXCEPT ![w] = TRUE] /\ ~Attached(w)
    BY <2>1 DEF CreateClient, OpenWeb, Attach
  <2>3. w # ProcessOf[t]
    BY <2>2 DEF UpAttached, Young
  <2> QED
    BY <1>1, <1>5, <2>1, <2>2, <2>3 DEF HostFrame, Unseen, TypeOK, IpcTypeOK
<1>8. CASE \E v \in Views : (ReleaseStep(v) \/ DispatchFrameComplete(v)) /\ ViewFrame
  <2>1. PICK v \in Views : (ReleaseStep(v) \/ DispatchFrameComplete(v)) /\ ViewFrame
    BY <1>8
  <2>2. viewUp' = viewUp /\ (held[v] # <<>> \/ unfinished[v] # <<>>)
    BY <2>1, EmptyQueue DEF ReleaseStep, DispatchReleaseBuffer, DispatchFrameComplete, CanComplete
  <2>3. v = ViewOf[t]
    BY <1>1, <1>2, <2>2 DEF FramesOwned
  <2> QED
    BY <1>1, <2>2, <2>3 DEF ClosedViewsIdle
<1>9. CASE \E v \in Views : (CreateView(v) \/ HandleViewMessage(v) \/ DestroyView(v)) /\ ViewFrame
  <2>1. UNCHANGED <<webVars, toWeb, webUp>>
    BY <1>9 DEF ViewFrame, CreateView, OpenView, HandleViewMessage, DestroyView
  <2> QED
    BY <1>5, <2>1 DEF Unseen
<1>10. CASE (Poll /\ HostFrame) \/ UNCHANGED vars
  BY <1>5, <1>10 DEF Poll, HostFrame, vars, ipcVars, Unseen
<1> QED
  BY <1>2, <1>3, <1>4, <1>6, <1>7, <1>8, <1>9, <1>10 DEF Next

(* A target that is answered has locked nothing.                           *)
LEMMA SlotStart ==
  ASSUME PageInv, NEW t \in Targets, Young(t), ReceiveReply(t) /\ WebFrame
  PROVE  SlotFree(t)'
<1>1. 0 \in Slots
  BY IpcAssumption DEF Slots
<1>2. phase[t] # "ready" /\ locked' = locked
  BY DEF Young, ReceiveReply
<1>3. ~locked'[t][0]
  BY <1>1, <1>2 DEF PageInv, TargetsRegistered
<1> QED
  BY <1>1, <1>3 DEF SlotFree

(* The invariant is inductive.                                             *)
LEMMA SlotStep ==
  ASSUME SingleTarget, MaxHeld < PoolSize, PoolInv, UpAttached, SlotInv, AccountInv', FailureInv', [Next]_vars
  PROVE  SlotInv'
<1>1. /\ AccountInv /\ FailureInv /\ ClosedViewsIdle /\ TypeOK /\ HeapInv /\ PageInv /\ ViewsInMapLive
  BY DEF SlotInv, FailureInv, PacedInv, PageInv, MapInv, MapsPointToLive, HeapInv
<1>2. ClosedViewsIdle'
  BY <1>1, ViewsIdleStep
<1>3. ASSUME NEW t \in Targets, ~Young(t)', ~viewUp'[ViewOf[t]]
      PROVE  SlotFree(t)'
  <2>1. CASE Young(t)
    BY <1>1, <1>3, <2>1, Answering, SlotStart
  <2>2. CASE ~Young(t)
    <3>1. SlotFree(t)
      BY <1>1, <2>2, SlotsCounted DEF SlotInv
    <3> QED
      BY <1>1, <1>3, <2>2, <3>1, SlotStays
  <2> QED
    BY <2>1, <2>2
<1> QED
  BY <1>2, <1>3 DEF SlotInv

(* It holds at the start.                                                  *)
LEMMA SlotInit == Init => SlotInv
<1>1. ASSUME Init
      PROVE  ClosedViewsIdle /\ \A t \in Targets : Young(t)
  BY <1>1 DEF Init, WebInit, HostInit, Young, ClosedViewsIdle
<1> QED
  BY <1>1, AccountInit, FrameInit DEF SlotInv, FrameInv

(* A target that may draw finds a slot.                                    *)
LEMMA SlotsSuffice ==
  ASSUME MaxHeld < PoolSize, SlotInv
  PROVE  SlotAvailable
<1> SUFFICES ASSUME NEW t \in Targets, CanRender(t)
             PROVE  \E b \in Slots : ~locked[t][b]
  BY DEF SlotAvailable
<1>1. Live(t) /\ ~Young(t) /\ ~awaitingFrame[t]
  BY DEF CanRender, Callable, InEventLoop, Live, Young
<1>2. SlotFree(t)
  BY <1>1, SlotsCounted DEF SlotInv
<1>3. ~Completing(Unseen(t))
  BY <1>1 DEF SlotInv, FailureInv, PacedInv, Waits, FrameUnderWay
<1>4. ASSUME NEW b \in Slots
      PROVE  ~FreedFirst(t, b)
  <2>1. PICK u : u = Unseen(t) /\ u \in Seq(WebMessage)
    BY PacedTypes DEF SlotInv, FailureInv, PacedInv, PageInv, MapInv, HeapInv
  <2>2. ASSUME NEW i \in 1 .. Len(u), NEW j \in i + 1 .. Len(u)
        PROVE  u[j] \notin Completions
    BY <1>3, <2>1 DEF Completing, Among
  <2> QED
    BY <2>1, <2>2 DEF FreedFirst, NeverAfter
<1> QED
  BY <1>1, <1>2, <1>4 DEF SlotFree

(* With one target, and releases that unlock what came back, the slots     *)
(* suffice for an application that holds fewer buffers than there are.     *)
THEOREM SlotInvariant ==
  ASSUME SingleTarget, MaxHeld < PoolSize
  PROVE  Spec /\ ReleaseUnlocksReturned => []SlotInv
<1>1. OneTargetPerProcess /\ OneTargetPerView
  BY DEF SingleTarget, OneTargetPerProcess, OneTargetPerView
<1>2. ASSUME PoolInv, LockInv, SlotInv, [Next]_vars, [UnlocksReturned]_vars
      PROVE  SlotInv'
  <2>1. AccountInv' /\ FailureInv'
    BY <1>1, <1>2, AccountStep, FailureStep DEF LockInv, SlotInv
  <2> QED
    BY <1>2, <2>1, SlotStep DEF LockInv
<1> QED
  BY <1>2, SlotInit, Background, PTL DEF Spec, ReleaseUnlocksReturned

(* frameWillRender finds a slot, and does not abort the process            *)
(* (renderer-backend-egl.cpp:327): for a target that is never resized ...  *)
THEOREM SlotsAvailable ==
  ASSUME SingleTarget, MaxHeld < PoolSize, ResizeBacklog = 0
  PROVE  Spec => []SlotAvailable
<1>1. OneTargetPerProcess
  BY DEF SingleTarget, OneTargetPerProcess
<1>2. Spec => ReleaseUnlocksReturned
  BY <1>1, UnlocksAreReturns
<1>3. Spec /\ ReleaseUnlocksReturned => []SlotInv
  BY SlotInvariant
<1>4. SlotInv => SlotAvailable
  BY SlotsSuffice
<1> QED
  BY <1>2, <1>3, <1>4, PTL

(* ... and, resized or not, for an application that holds one buffer.      *)
THEOREM SlotsAvailableInTurn ==
  ASSUME SingleTarget, MaxHeld = 1, PoolSize > 1
  PROVE  Spec => []SlotAvailable
<1>1. MaxHeld < PoolSize
  BY IpcAssumption
<1>2. Spec /\ ReleaseUnlocksReturned => []SlotInv
  BY <1>1, SlotInvariant
<1>3. SlotInv => SlotAvailable
  BY <1>1, SlotsSuffice
<1> QED
  BY <1>2, <1>3, UnlocksInTurn, PTL
=============================================================================
