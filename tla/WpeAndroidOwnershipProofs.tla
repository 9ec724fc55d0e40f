----------------------- MODULE WpeAndroidOwnershipProofs -----------------------
(***************************************************************************)
(* WpeAndroid implements BufferOwnership: who has a buffer, read off the   *)
(* state of both processes, changes by its steps only.  Web processes have *)
(* one target each.                                                        *)
(***************************************************************************)
EXTENDS WpeAndroidOwnership, WpeAndroidPacingProofs, WellFoundedInduction

-----------------------------------------------------------------------------
(* What the proxy finds for a commit, as the messages before it have it.   *)

(* Of the messages of one kind in a queue there is a last.                 *)
LEMMA LastOf ==
  ASSUME NEW s, NEW M, NEW n \in Nat, Among(s, M, n)
  PROVE  \E j \in 1 .. n : s[j] \in M /\ \A k \in j + 1 .. n : s[k] \notin M
<1> DEFINE After(j) == j + 1 .. n
           T == {After(j) : j \in {i \in 1 .. n : s[i] \in M}}
           R == StrictSubsetOrdering(1 .. n)
           S == SUBSET (1 .. n)
<1>1. IsWellFoundedOn(R, S)
  <2>1. IsFiniteSet(1 .. n)
    BY FS_Interval
  <2>2. FiniteSubsetsOf(1 .. n) = S
    BY <2>1, FS_FiniteSubsetsOfFinite
  <2> QED BY <2>2, FS_StrictSubsetOrderingWellFounded
<1>2. T \subseteq S
  OBVIOUS
<1>3. T # {}
  BY DEF Among
<1>4. \E x \in T : \A y \in T : <<y, x>> \notin R
  <2> HIDE DEF T, R, S
  <2> QED BY <1>1, <1>2, <1>3, WFMin
<1>5. PICK j \in 1 .. n : s[j] \in M /\ \A y \in T : <<y, After(j)>> \notin R
  BY <1>4
<1>6. ASSUME NEW k \in j + 1 .. n, s[k] \in M
      PROVE  FALSE
  <2>1. After(k) \in T
    BY <1>6
  <2>2. After(k) \in S /\ After(j) \in S /\ After(k) \subseteq After(j) /\ k \in After(j) /\ k \notin After(k)
    BY <1>6
  <2>3. <<After(k), After(j)>> \in R
    BY <2>2 DEF StrictSubsetOrdering
  <2> QED BY <1>5, <2>1, <2>3
<1> QED BY <1>5, <1>6

\* What slot b has once n messages of s were read, if it has x before: o.
Leaves(s, x, b, n, o) ==
  /\ Followed(s, Refills(b) \ Carrying(o), Refills(b), n)
  /\ x = o \/ Among(s, Refills(b), n)

\* A commit of slot b in s finds o.
Finds(s, x, b, o) == \E i \in 1 .. Len(s) : s[i] \in Commits(b) /\ Leaves(s, x, b, i - 1, o)

(* It is what the last refill brings.                                      *)
LEMMA LeavesLast ==
  ASSUME NEW s, NEW x, NEW b, NEW o, NEW n \in Nat
  PROVE  Leaves(s, x, b, n, o) <=>
           \E j \in 0 .. n : /\ IF j = 0 THEN x = o ELSE s[j] \in Refills(b) \cap Carrying(o)
                             /\ \A k \in j + 1 .. n : s[k] \notin Refills(b)
<1> DEFINE Final(j) == /\ IF j = 0 THEN x = o ELSE s[j] \in Refills(b) \cap Carrying(o)
                      /\ \A k \in j + 1 .. n : s[k] \notin Refills(b)
<1>1. PICK M : M = Refills(b)
  OBVIOUS
<1>2. ASSUME Leaves(s, x, b, n, o), Among(s, M, n)
      PROVE  \E j \in 0 .. n : Final(j)
  <2>1. PICK j \in 1 .. n : s[j] \in M /\ \A k \in j + 1 .. n : s[k] \notin M
    BY <1>2, LastOf
  <2>2. s[j] \in Carrying(o)
    BY <1>1, <1>2, <2>1 DEF Leaves, Followed
  <2> QED
    BY <1>1, <2>1, <2>2
<1>3. ASSUME Leaves(s, x, b, n, o), ~Among(s, M, n)
      PROVE  \E j \in 0 .. n : Final(j)
  <2>1. x = o /\ \A k \in 1 .. n : s[k] \notin M
    BY <1>1, <1>3 DEF Leaves, Among
  <2>2. Final(0)
    BY <1>1, <2>1
  <2> QED
    BY <2>2
<1>4. ASSUME NEW j \in 0 .. n, Final(j)
      PROVE  Leaves(s, x, b, n, o)
  <2>1. CASE j = 0
    BY <1>4, <2>1 DEF Leaves, Followed
  <2>2. CASE j # 0
    <3>1. j \in 1 .. n /\ s[j] \in Refills(b) /\ s[j] \in Carrying(o)
      BY <1>4, <2>2
    <3>2. ASSUME NEW i \in 1 .. n, s[i] \in Refills(b) \ Carrying(o)
          PROVE  j \in i + 1 .. n
      <4>1. i # j /\ i \notin j + 1 .. n
        BY <1>4, <3>1, <3>2
      <4> QED
        BY <4>1
    <3> QED
      BY <3>1, <3>2 DEF Leaves, Followed, Among
  <2> QED
    BY <2>1, <2>2
<1> QED
  BY <1>1, <1>2, <1>3, <1>4

(* There is one such buffer.                                               *)
LEMMA LeavesOne ==
  ASSUME NEW s, NEW x, NEW b, NEW o, NEW q, NEW n \in Nat, Leaves(s, x, b, n, o), Leaves(s, x, b, n, q)
  PROVE  o = q
<1>1. CASE Among(s, Refills(b), n)
  <2>1. PICK M : M = Refills(b)
    OBVIOUS
  <2>2. PICK j \in 1 .. n : s[j] \in M /\ \A k \in j + 1 .. n : s[k] \notin M
    BY <1>1, <2>1, LastOf
  <2>3. s[j] \in Carrying(o) /\ s[j] \in Carrying(q)
    BY <2>1, <2>2 DEF Leaves, Followed
  <2> QED
    BY <2>3 DEF Carrying
<1>2. CASE ~Among(s, Refills(b), n)
  BY <1>2 DEF Leaves
<1> QED
  BY <1>1, <1>2

(* What is sent later changes nothing for the commits before it.           *)
LEMMA FindsAppended ==
  ASSUME NEW S, NEW s \in Seq(S), NEW m, NEW r, r = Append(s, m), NEW x, NEW b, NEW o
  PROVE  Finds(r, x, b, o) <=> Finds(s, x, b, o) \/ (m \in Commits(b) /\ Leaves(s, x, b, Len(s), o))
<1>1. /\ Len(s) \in Nat /\ Len(r) = Len(s) + 1 /\ r[Len(r)] = m
      /\ \A i \in 1 .. Len(s) : r[i] = s[i]
  BY ONLY AppendedLength, s \in Seq(S), r = Append(s, m)
<1>2. ASSUME NEW n \in 0 .. Len(s)
      PROVE  Leaves(r, x, b, n, o) <=> Leaves(s, x, b, n, o)
  <2>1. PICK F, M : F = Refills(b) \ Carrying(o) /\ M = Refills(b)
    OBVIOUS
  <2>2. Followed(r, F, M, n) <=> Followed(s, F, M, n)
    BY ONLY AppendedBefore, s \in Seq(S), r = Append(s, m), n \in 0 .. Len(s)
  <2>3. Among(r, M, n) <=> Among(s, M, n)
    BY ONLY AmongBefore, s \in Seq(S), r = Append(s, m), n \in 0 .. Len(s)
  <2> QED
    BY <2>1, <2>2, <2>3 DEF Leaves
<1>3. ASSUME NEW i \in 1 .. Len(s)
      PROVE  r[i] \in Commits(b) /\ Leaves(r, x, b, i - 1, o) <=> s[i] \in Commits(b) /\ Leaves(s, x, b, i - 1, o)
  <2>1. i - 1 \in 0 .. Len(s)
    BY <1>1
  <2> QED
    BY <1>1, <1>2, <2>1
<1>4. PICK l : l = Len(r) /\ l \in 1 .. Len(r) /\ l - 1 = Len(s) /\ r[l] = m
  BY <1>1
<1>5. Leaves(r, x, b, l - 1, o) <=> Leaves(s, x, b, Len(s), o)
  BY <1>1, <1>2, <1>4
<1>6. ASSUME Finds(r, x, b, o)
      PROVE  Finds(s, x, b, o) \/ (m \in Commits(b) /\ Leaves(s, x, b, Len(s), o))
  <2>1. PICK i \in 1 .. Len(r) : r[i] \in Commits(b) /\ Leaves(r, x, b, i - 1, o)
    BY <1>6 DEF Finds
  <2>2. i = l \/ i \in 1 .. Len(s)
    BY <1>1, <1>4
  <2> QED
    BY <1>3, <1>4, <1>5, <2>1, <2>2 DEF Finds
<1>7. ASSUME Finds(s, x, b, o)
      PROVE  Finds(r, x, b, o)
  <2>1. PICK i \in 1 .. Len(s) : s[i] \in Commits(b) /\ Leaves(s, x, b, i - 1, o)
    BY <1>7 DEF Finds
  <2>2. i \in 1 .. Len(r)
    BY <1>1
  <2> QED
    BY <1>3, <2>1, <2>2 DEF Finds
<1>8. ASSUME m \in Commits(b), Leaves(s, x, b, Len(s), o)
      PROVE  Finds(r, x, b, o)
  BY <1>4, <1>5, <1>8 DEF Finds
<1> QED
  BY <1>6, <1>7, <1>8

(* A message that is read was a commit for what the slot has; from then on *)
(* the slot has what the message left in it.                               *)
LEMMA FindsRead ==
  ASSUME NEW S, NEW s \in Seq(S), s # <<>>, NEW r, r = Tail(s), NEW h, h = Head(s), NEW x, NEW y, NEW b, NEW o,
         h \notin Commits(b) \cap Refills(b),
         y = o <=> IF h \in Refills(b) THEN h \in Carrying(o) ELSE x = o
  PROVE  Finds(s, x, b, o) <=> (h \in Commits(b) /\ x = o) \/ Finds(r, y, b, o)
<1>1. /\ Len(r) \in Nat /\ Len(s) = Len(r) + 1 /\ s[1] = h
      /\ \A i \in 1 .. Len(r) : r[i] = s[i + 1]
  BY ONLY ReadLength, s \in Seq(S), s # <<>>, r = Tail(s), h = Head(s)
<1>2. ASSUME NEW n \in 0 .. Len(r)
      PROVE  Leaves(s, x, b, n + 1, o) <=> Leaves(r, y, b, n, o)
  <2>1. PICK F, M : F = Refills(b) \ Carrying(o) /\ M = Refills(b)
    OBVIOUS
  <2>2. Followed(s, F, M, n + 1) <=> Followed(r, F, M, n) /\ (h \in F => Among(r, M, n))
    BY ONLY FollowedRead, s \in Seq(S), s # <<>>, r = Tail(s), h = Head(s), n \in 0 .. Len(r)
  <2>3. Among(s, M, n + 1) <=> h \in M \/ Among(r, M, n)
    BY ONLY AmongRead, s \in Seq(S), s # <<>>, r = Tail(s), h = Head(s), n \in 0 .. Len(r)
  <2> QED
    BY <2>1, <2>2, <2>3 DEF Leaves
<1>3. ASSUME NEW i \in 1 .. Len(r)
      PROVE  s[i + 1] \in Commits(b) /\ Leaves(s, x, b, (i + 1) - 1, o) <=> r[i] \in Commits(b) /\ Leaves(r, y, b, i - 1, o)
  <2>1. i - 1 \in 0 .. Len(r) /\ (i + 1) - 1 = (i - 1) + 1
    BY <1>1
  <2> QED
    BY <1>1, <1>2, <2>1
<1>4. Leaves(s, x, b, 1 - 1, o) <=> x = o
  BY DEF Leaves, Followed, Among
<1>5. 1 \in 1 .. Len(s)
  BY <1>1
<1>6. ASSUME Finds(s, x, b, o)
      PROVE  (h \in Commits(b) /\ x = o) \/ Finds(r, y, b, o)
  <2>1. PICK i \in 1 .. Len(s) : s[i] \in Commits(b) /\ Leaves(s, x, b, i - 1, o)
    BY <1>6 DEF Finds
  <2>2. CASE i = 1
    BY <1>1, <1>4, <2>1, <2>2
  <2>3. CASE i # 1
    <3>1. PICK j \in 1 .. Len(r) : i = j + 1
      BY <1>1, <2>3
    <3> QED
      BY <1>3, <2>1, <3>1 DEF Finds
  <2> QED
    BY <2>2, <2>3
<1>7. ASSUME Finds(r, y, b, o)
      PROVE  Finds(s, x, b, o)
  <2>1. PICK i \in 1 .. Len(r) : r[i] \in Commits(b) /\ Leaves(r, y, b, i - 1, o)
    BY <1>7 DEF Finds
  <2>2. i + 1 \in 1 .. Len(s)
    BY <1>1
  <2> QED
    BY <1>3, <2>1, <2>2 DEF Finds
<1>8. ASSUME h \in Commits(b), x = o
      PROVE  Finds(s, x, b, o)
  BY <1>1, <1>4, <1>5, <1>8 DEF Finds
<1> QED
  BY <1>6, <1>7, <1>8

(* Nothing of a queue finds a buffer that is not in the slot and that no   *)
(* message brings.                                                         *)
LEMMA FindsBrought ==
  ASSUME NEW s, NEW x, NEW b, NEW o, Len(s) \in Nat, Finds(s, x, b, o), x # o
  PROVE  Among(s, Allocations(b) \cap Carrying(o), Len(s))
<1>1. PICK i \in 1 .. Len(s) : Leaves(s, x, b, i - 1, o)
  BY DEF Finds
<1>2. PICK n \in Nat : n = i - 1 /\ n < Len(s)
  OBVIOUS
<1>3. PICK j \in 0 .. n : IF j = 0 THEN x = o ELSE s[j] \in Refills(b) \cap Carrying(o)
  BY <1>1, <1>2, LeavesLast
<1>4. j \in 1 .. Len(s) /\ s[j] \in Refills(b) \cap Carrying(o)
  BY <1>2, <1>3
<1> QED
  BY <1>4 DEF Among, Refills, Purges, Carrying

-----------------------------------------------------------------------------
(* Where a buffer is.                                                      *)

\* A commit of slot b of t's pool is on its way, and will find o.
Awaits(t, b, o) == Finds(Sent(t), InPool(t, b), b, o)

\* o is on its way to the application, in the words of its target.
Travels(o) == \E t \in Targets, b \in Slots : ~Young(t) /\ Awaits(t, b, o)

(* What a target has sent.                                                 *)
LEMMA MessageOf ==
  ASSUME TypeOK, Handshake, NEW t \in Targets, ~Young(t), NEW i \in 1 .. Unread(t)
  PROVE  /\ Sent(t)[i] \in HostMessage /\ Sent(t)[i].poolID = poolID[t]
         /\ Sent(t)[i].code # "PoolConstruction"
<1>1. PICK M : M = OwnHostMessage(poolID[t])
  OBVIOUS
<1>2. Sent(t) \in Seq(M)
  BY <1>1, HandshakeOf DEF Sent
<1>3. Sent(t)[i] \in M
  BY <1>2, ElementOfSeq DEF Unread
<1> QED
  BY <1>1, <1>3 DEF OwnHostMessage

(* A commit comes from a target that has its pool.                         *)
LEMMA CommitOf ==
  ASSUME TypeOK, Handshake, NEW w \in Processes, NEW i \in 1 .. Len(toHost[w]), toHost[w][i].code = "BufferCommit"
  PROVE  \E t \in Targets : ProcessOf[t] = w /\ ~Young(t)
<1>1. HandshakeAt(w) /\ Len(toHost[w]) \in Nat
  BY LenProperties DEF Handshake, TypeOK, IpcTypeOK
<1>2. toHost[w] # <<>>
  BY EmptyQueue
<1>3. toHost[w] # <<PoolConstructionMsg>>
  <2> SUFFICES ASSUME toHost[w] = <<PoolConstructionMsg>> PROVE FALSE
    OBVIOUS
  <2>1. i = 1 /\ toHost[w][i] = PoolConstructionMsg
    OBVIOUS
  <2> QED
    BY <2>1 DEF PoolConstructionMsg
<1>4. PICK t \in Targets : ProcessOf[t] = w
  BY <1>1, <1>2 DEF HandshakeAt, Silent
<1>5. ~Young(t)
  BY <1>1, <1>2, <1>3, <1>4 DEF HandshakeAt, Silent, Asked, Answered, Young
<1> QED
  BY <1>4, <1>5

(* The two say the same.                                                   *)
LEMMA WayOf ==
  ASSUME TypeOK, Handshake, NEW o \in Objects
  PROVE  UnderWay(o) <=> Travels(o)
<1>1. ASSUME NEW t \in Targets, ~Young(t), NEW i \in 1 .. Unread(t), NEW b \in Slots, Sent(t)[i] \in Commits(b)
      PROVE  CommitsTo(ProcessOf[t], i, o) <=> Leaves(Sent(t), InPool(t, b), b, i - 1, o)
  <2>1. PICK w, s : w = ProcessOf[t] /\ s = toHost[w] /\ s = Sent(t) /\ Len(s) = Unread(t) /\ Len(s) \in Nat
    BY PoolOf DEF Sent, Unread
  <2>2. PICK n \in Nat : n = i - 1 /\ i \in 1 .. Len(s)
    BY <2>1
  <2>3. s[i].poolID = poolID[t] /\ s[i].bufferID = b /\ s[i].code = "BufferCommit"
    BY <1>1, <2>1, MessageOf DEF Commits
  <2>4. ASSUME NEW j \in 1 .. n
        PROVE  /\ RefillsPool(w, j, poolID[t], b) <=> s[j] \in Refills(b)
               /\ Brings(w, j, o) <=> s[j] \in Carrying(o)
    <3>1. j \in 1 .. Unread(t)
      BY <2>1, <2>2
    <3>2. s[j] \in HostMessage /\ s[j].poolID = poolID[t]
      BY <1>1, <2>1, <3>1, MessageOf
    <3> QED
      BY <2>1, <3>2 DEF RefillsPool, Brings, Carrying
  <2>5. CommitsTo(w, i, o) <=>
          \E j \in 0 .. n : /\ RefilledWith(w, j, poolID[t], b, o)
                            /\ \A k \in j + 1 .. n : ~RefillsPool(w, k, poolID[t], b)
    BY <2>1, <2>2, <2>3 DEF CommitsTo
  <2>6. ASSUME NEW j \in 0 .. n
        PROVE  RefilledWith(w, j, poolID[t], b, o)
                 <=> IF j = 0 THEN InPool(t, b) = o ELSE s[j] \in Refills(b) \cap Carrying(o)
    BY <2>4 DEF RefilledWith, InPool
  <2>7. ASSUME NEW j \in 0 .. n, NEW k \in j + 1 .. n
        PROVE  ~RefillsPool(w, k, poolID[t], b) <=> s[k] \notin Refills(b)
    BY <2>4
  <2> QED
    BY <2>1, <2>2, <2>5, <2>6, <2>7, LeavesLast
<1>2. ASSUME UnderWay(o)
      PROVE  Travels(o)
  <2>1. PICK w \in Processes : \E i \in 1 .. Len(toHost[w]) : CommitsTo(w, i, o)
    BY <1>2 DEF UnderWay
  <2>2. PICK i \in 1 .. Len(toHost[w]) : CommitsTo(w, i, o)
    BY <2>1
  <2>3. toHost[w][i].code = "BufferCommit"
    BY <2>2 DEF CommitsTo
  <2>4. PICK t \in Targets : ProcessOf[t] = w /\ ~Young(t)
    BY <2>3, CommitOf
  <2>5. i \in 1 .. Unread(t) /\ Sent(t)[i].code = "BufferCommit" /\ Unread(t) = Len(Sent(t))
    BY <2>3, <2>4 DEF Unread, Sent
  <2>6. PICK b \in Slots : Sent(t)[i] \in Commits(b)
    <3>1. Sent(t)[i] \in HostMessage
      BY <2>4, <2>5, MessageOf
    <3> QED
      BY <2>5, <3>1, HostMessageFields DEF Commits
  <2> QED
    BY <1>1, <2>2, <2>4, <2>5, <2>6 DEF Travels, Awaits, Finds
<1>3. ASSUME Travels(o)
      PROVE  UnderWay(o)
  <2>1. PICK t \in Targets, b \in Slots : ~Young(t) /\ Awaits(t, b, o)
    BY <1>3 DEF Travels
  <2>2. PICK i \in 1 .. Unread(t) : Sent(t)[i] \in Commits(b) /\ Leaves(Sent(t), InPool(t, b), b, i - 1, o)
    BY <2>1 DEF Awaits, Finds, Unread
  <2>3. CommitsTo(ProcessOf[t], i, o)
    BY <1>1, <2>1, <2>2
  <2>4. ProcessOf[t] \in Processes /\ i \in 1 .. Len(toHost[ProcessOf[t]])
    BY <2>2, PoolOf DEF Unread, Sent
  <2> QED
    BY <2>3, <2>4 DEF UnderWay
<1> QED
  BY <1>2, <1>3

-----------------------------------------------------------------------------
(* The owner of a buffer, from the slot it is in.                          *)

(* A buffer that is on its way is not with the application.                *)
LEMMA TravelsHidden ==
  ASSUME UseInv, NEW t \in Targets, ~Young(t), NEW b \in Slots, NEW o \in Objects, Awaits(t, b, o)
  PROVE  ~Shown(o)
<1>1. /\ TypeOK /\ HandlesPlaced /\ CommittedOnce(t)
      /\ ProcessOf[t] \in Processes /\ None \notin Objects
  BY PoolOf DEF UseInv, HandleInv, PageInv, MapInv, HeapInv, UseOf
<1>2. PICK i \in 1 .. Unread(t) : Sent(t)[i] \in Commits(b) /\ Leaves(Sent(t), InPool(t, b), b, i - 1, o)
  BY DEF Awaits, Finds, Unread
<1>3. PICK n \in Nat : n = i - 1 /\ n < Unread(t) /\ Unread(t) \in Nat
  BY <1>1, <1>2, PoolOf
<1>4. PICK j \in 0 .. n : IF j = 0 THEN InPool(t, b) = o ELSE Sent(t)[j] \in Refills(b) \cap Carrying(o)
  <2>1. PICK s, x : s = Sent(t) /\ x = InPool(t, b)
    OBVIOUS
  <2> QED
    BY <1>2, <1>3, <2>1, LeavesLast
<1>5. CASE j # 0
  <2>1. j \in 1 .. Len(toHost[ProcessOf[t]]) /\ Brings(ProcessOf[t], j, o)
    BY <1>3, <1>4, <1>5 DEF Brings, Carrying, Sent, Unread
  <2> QED
    BY <1>1, <2>1 DEF HandlesPlaced, Shown
<1>6. CASE j = 0 /\ ~Among(Sent(t), Refills(b), n)
  <2>1. InPool(t, b) # None => Back(InPool(t, b)) \/ Among(Sent(t), Refills(b), i - 1)
    BY <1>1, <1>2 DEF CommittedOnce
  <2> QED
    BY <1>1, <1>3, <1>4, <1>6, <2>1 DEF Back, Shown
<1>7. CASE Among(Sent(t), Refills(b), n)
  <2>1. PICK s, M : s = Sent(t) /\ M = Refills(b)
    OBVIOUS
  <2>2. PICK k \in 1 .. n : s[k] \in M
    BY <1>7, <2>1 DEF Among
  <2>3. PICK l \in 1 .. n : s[l] \in M /\ \A m \in l + 1 .. n : s[m] \notin M
    BY <1>7, <2>1, LastOf
  <2>4. s[l] \in Carrying(o)
    BY <1>2, <1>3, <2>1, <2>3 DEF Leaves, Followed
  <2>5. l \in 1 .. Len(toHost[ProcessOf[t]]) /\ Brings(ProcessOf[t], l, o)
    BY <1>3, <2>1, <2>4 DEF Brings, Carrying, Sent, Unread
  <2> QED
    BY <1>1, <2>5 DEF HandlesPlaced, Shown
<1> QED
  BY <1>5, <1>6, <1>7

(* A buffer in a slot is on its way from that slot.                        *)
LEMMA TravelsFromSlot ==
  ASSUME OneTargetPerProcess, UseInv, NEW t \in Targets, NEW b \in Slots, NEW o \in Objects, InSlot(t, b, o),
         NEW s \in Targets, ~Young(s), NEW a \in Slots, Awaits(s, a, o)
  PROVE  /\ s = t /\ a = b
         /\ ~Followed(Sent(t), Commits(b), Refills(b), Unread(t))
<1>1. /\ TypeOK /\ HandlesPlaced /\ Handshake /\ HostHeapConsistent /\ NewestLast(t) /\ ~Young(t)
      /\ ProcessOf[t] \in Processes /\ ProcessOf[s] \in Processes /\ None \notin Objects
      /\ poolID[t] \in PoolIDs /\ poolID[s] \in PoolIDs
      /\ Unread(s) \in Nat
  <2>1. phase[t] = "ready"
    BY IpcAssumption DEF InSlot, UseInv, HandleInv, PageInv, TargetsRegistered
  <2> QED
    BY <2>1, PoolOf DEF UseInv, HandleInv, PageInv, MapInv, HeapInv, UseOf, Young
<1>2. PICK i \in 1 .. Unread(s) : Sent(s)[i] \in Commits(a) /\ Leaves(Sent(s), InPool(s, a), a, i - 1, o)
  BY DEF Awaits, Finds, Unread
<1>3. PICK n \in Nat : n = i - 1 /\ n < Unread(s)
  BY <1>1, <1>2
<1>4. PICK j \in 0 .. n : IF j = 0 THEN InPool(s, a) = o ELSE Sent(s)[j] \in Refills(a) \cap Carrying(o)
  <2>1. PICK r, x : r = Sent(s) /\ x = InPool(s, a)
    OBVIOUS
  <2> QED
    BY <1>2, <1>3, <2>1, LeavesLast
<1>5. s = t /\ a = b
  <2>1. CASE j # 0
    <3>1. j \in 1 .. Len(toHost[ProcessOf[s]]) /\ Brings(ProcessOf[s], j, o) /\ toHost[ProcessOf[s]][j].bufferID = a
      BY <1>3, <1>4, <2>1 DEF Brings, Carrying, Refills, Purges, Allocations, Sent, Unread
    <3>2. ProcessOf[s] = ProcessOf[t] /\ a = b
      BY <1>1, <3>1 DEF HandlesPlaced
    <3> QED
      BY <3>2 DEF OneTargetPerProcess
  <2>2. CASE j = 0
    <3>1. poolBuffers[poolID[s]][a] = o
      BY <1>4, <2>2 DEF InPool
    <3>2. hostBuffer[o] # None /\ hostBuffer[o].poolID = poolID[s] /\ hostBuffer[o].bufferID = a
      BY <1>1, <3>1 DEF HostHeapConsistent, SlotsPointToLive
    <3>3. hostBuffer[o].poolID = poolID[t] /\ hostBuffer[o].bufferID = b
      BY <1>1, <3>2 DEF HandlesPlaced
    <3>4. Owns(t, poolID[t]) /\ Owns(s, poolID[t])
      BY <1>1, <3>2, <3>3 DEF Owns
    <3> QED
      BY <1>1, <3>2, <3>3, <3>4, OwnersClient
  <2> QED
    BY <2>1, <2>2
<1>6. ASSUME Followed(Sent(t), Commits(b), Refills(b), Unread(t))
      PROVE  FALSE
  <2>1. PICK k \in i + 1 .. Unread(t) : Sent(t)[k] \in Refills(b)
    BY <1>2, <1>5, <1>6 DEF Followed
  <2>2. CASE j # 0
    <3>1. j \in 1 .. Unread(t) /\ Sent(t)[j] \in Carrying(o) /\ k \in j + 1 .. Unread(t)
      BY <1>1, <1>3, <1>4, <1>5, <2>1, <2>2
    <3>2. NeverAfter(Sent(t), Carrying(o), Refills(b), Unread(t))
      BY <1>1 DEF NewestLast
    <3> QED
      BY <2>1, <3>1, <3>2 DEF NeverAfter
  <2>3. CASE j = 0
    <3>1. hostBuffer[o] # None
      BY <1>1, <1>4, <1>5, <2>3 DEF HostHeapConsistent, SlotsPointToLive, InPool
    <3>2. ~Among(Sent(t), Refills(b), Unread(t))
      BY <1>1, <3>1 DEF NewestLast
    <3>3. k \in 1 .. Unread(t)
      BY <1>1, <1>5, <2>1
    <3> QED
      BY <2>1, <3>2, <3>3 DEF Among
  <2> QED
    BY <2>2, <2>3
<1> QED
  BY <1>5, <1>6

\* The owner of a buffer that no target has, and of the one in slot b of t.
Elsewhere(o) ==
  IF Shown(o) THEN "shown" ELSE IF Travels(o) THEN "toApplication" ELSE "nobody"

SlotOwner(t, b, o) ==
  IF current[t] = b THEN "drawn"
  ELSE IF Shown(o) THEN "shown"
  ELSE IF Travels(o) THEN "toApplication"
  ELSE IF ~locked[t][b] THEN "target"
  ELSE IF ReleaseInTransit(ProcessOf[t], poolID[t], b) THEN "toTarget"
  ELSE "lost"

\* What follows from the invariant, for one state.
OwnersKnown ==
  /\ \A o \in Objects : Travels(o) => ~Shown(o)
  /\ \A o \in Objects : ~Pooled(o) => Owner(o) = Elsewhere(o)
  /\ \A t \in Targets, b \in Slots, o \in Objects : InSlot(t, b, o) =>
       /\ Live(t) /\ ~Young(t)
       /\ \A s \in Targets, a \in Slots : InSlot(s, a, o) => s = t /\ a = b
       /\ Pooled(o) /\ Owner(o) = SlotOwner(t, b, o)
       /\ current[t] = b => ~locked[t][b]
       /\ ~locked[t][b] \/ ReleaseInTransit(ProcessOf[t], poolID[t], b) => ~Shown(o) /\ ~Travels(o)

(* The invariant tells who has a buffer.                                   *)
LEMMA OwnersOf ==
  ASSUME OneTargetPerProcess, OwnerInv
  PROVE  OwnersKnown
<1>1. UseInv /\ TypeOK /\ Handshake /\ HandlesPlaced /\ TargetsRegistered /\ DrawsUnlocked
  BY DEF OwnerInv, UseInv, HandleInv, PageInv, MapInv, HeapInv
<1>2. \A o \in Objects : UnderWay(o) <=> Travels(o)
  BY <1>1, WayOf
<1>3. \A o \in Objects : Travels(o) => ~Shown(o)
  BY <1>1, TravelsHidden DEF Travels
<1>4. ASSUME NEW o \in Objects, ~Pooled(o)
      PROVE  Owner(o) = Elsewhere(o)
  <2>1. ~Drawn(o)
    <3> SUFFICES ASSUME NEW t \in Targets, Rendering(t, o) PROVE FALSE
      BY DEF Drawn
    <3>1. current[t] \in Slots
      BY <1>1, PoolOf DEF Rendering
    <3> QED
      BY <1>4, <3>1 DEF Rendering, Pooled, InSlot
  <2>2. ~Returning(o) /\ ~Locked(o)
    BY <1>4 DEF Returning, Locked, Pooled
  <2> QED
    BY <1>2, <1>4, <2>1, <2>2 DEF Owner, Elsewhere
<1>5. ASSUME NEW t \in Targets, NEW b \in Slots, NEW o \in Objects, InSlot(t, b, o)
      PROVE  /\ Live(t) /\ ~Young(t)
             /\ \A s \in Targets, a \in Slots : InSlot(s, a, o) => s = t /\ a = b
             /\ Pooled(o) /\ Owner(o) = SlotOwner(t, b, o)
             /\ current[t] = b => ~locked[t][b]
             /\ ~locked[t][b] \/ ReleaseInTransit(ProcessOf[t], poolID[t], b) => ~Shown(o) /\ ~Travels(o)
  <2>1. Live(t) /\ ~Young(t)
    BY <1>1, <1>5, IpcAssumption DEF InSlot, TargetsRegistered, Live, Young
  <2>2. \A s \in Targets, a \in Slots : InSlot(s, a, o) => s = t /\ a = b
    BY <1>1, <1>5 DEF HandlesPlaced
  <2>3. current[t] = b => ~locked[t][b]
    BY <1>1, IpcAssumption DEF DrawsUnlocked
  <2>4. ~locked[t][b] \/ ReleaseInTransit(ProcessOf[t], poolID[t], b) => Returned(t, b, o)
    BY <1>1, <1>5, <2>1 DEF OwnerInv, UseInv, UseOf, UnlockedReturned, ReleasesFresh
  <2>5. Returned(t, b, o) => ~Shown(o) /\ ~Travels(o)
    <3>1. ASSUME Returned(t, b, o), NEW s \in Targets, NEW a \in Slots, ~Young(s), Awaits(s, a, o)
          PROVE  FALSE
      <4>1. ~Followed(Sent(t), Commits(b), Refills(b), Unread(t))
        BY <1>1, <1>5, <3>1, TravelsFromSlot
      <4> QED
        BY <3>1, <4>1 DEF Returned
    <3> QED
      BY <3>1 DEF Returned, Back, Shown, Travels
  <2>6. Drawn(o) <=> current[t] = b
    <3>1. current[t] \in Slots \cup {None} /\ None \notin Slots
      BY <1>1, PoolOf
    <3>2. ASSUME NEW s \in Targets, Rendering(s, o)
          PROVE  current[t] = b
      <4>1. current[s] \in Slots /\ InSlot(s, current[s], o)
        BY <1>1, <3>2, PoolOf DEF Rendering, InSlot
      <4> QED
        BY <2>2, <4>1
    <3> QED
      BY <1>5, <3>1, <3>2 DEF Drawn, Rendering, InSlot
  <2>7. /\ Pooled(o)
        /\ Locked(o) <=> locked[t][b]
        /\ Returning(o) <=> locked[t][b] /\ ReleaseInTransit(ProcessOf[t], poolID[t], b)
    BY <1>5, <2>2 DEF Pooled, Locked, Returning
  <2>8. Owner(o) = SlotOwner(t, b, o)
    BY <1>2, <2>3, <2>6, <2>7 DEF Owner, SlotOwner
  <2> QED
    BY <2>1, <2>2, <2>3, <2>4, <2>5, <2>7, <2>8
<1> QED
  BY <1>3, <1>4, <1>5 DEF OwnersKnown

-----------------------------------------------------------------------------
(* What a step changes of the buffers on their way.                        *)

(* Nothing, for a target that neither sends nor is read and whose pool     *)
(* stays.                                                                  *)
LEMMA AwaitsSame ==
  ASSUME OneTargetPerProcess, HandleInv, [Next]_vars, NEW t \in Targets, NEW b \in Slots, NEW o \in Objects,
         ~Young(t) => Sent(t)' = Sent(t) /\ poolBuffers'[poolID[t]][b] = poolBuffers[poolID[t]][b]
  PROVE  ~Young(t)' /\ Awaits(t, b, o)' <=> ~Young(t) /\ Awaits(t, b, o)
<1>1. TypeOK
  BY DEF HandleInv, PageInv, MapInv, HeapInv
<1>2. CASE ~Young(t)
  <2>1. ~Young(t)' /\ poolID'[t] = poolID[t]
    BY <1>1, <1>2, PoolKept
  <2>2. Sent(t)' = Sent(t) /\ InPool(t, b)' = InPool(t, b)
    BY <1>2, <2>1 DEF InPool
  <2> QED
    BY <1>2, <2>1, <2>2 DEF Awaits
<1>3. CASE Young(t)
  <2>1. ASSUME ~Young(t)'
        PROVE  ~Awaits(t, b, o)'
    <3>1. ReceiveReply(t) /\ WebFrame
      BY <1>1, <1>3, <2>1, Answering
    <3>2. Sent(t)' = <<>>
      BY <1>3, <3>1, FreshPool
    <3> QED
      BY <3>2, EmptyQueue DEF Awaits, Finds
  <2> QED
    BY <1>3, <2>1
<1> QED
  BY <1>2, <1>3

(* Nothing at all, if that is so for all targets.                          *)
LEMMA TravelsSame ==
  ASSUME OneTargetPerProcess, HandleInv, [Next]_vars, NEW o \in Objects,
         \A t \in Targets : ~Young(t) => Sent(t)' = Sent(t) /\ poolBuffers'[poolID[t]] = poolBuffers[poolID[t]]
  PROVE  Travels(o)' <=> Travels(o)
<1>1. ASSUME NEW t \in Targets, NEW b \in Slots
      PROVE  ~Young(t)' /\ Awaits(t, b, o)' <=> ~Young(t) /\ Awaits(t, b, o)
  <2>1. ~Young(t) => Sent(t)' = Sent(t) /\ poolBuffers'[poolID[t]][b] = poolBuffers[poolID[t]][b]
    OBVIOUS
  <2> QED
    BY <2>1, AwaitsSame
<1> QED
  BY <1>1 DEF Travels

(* A target's message is a commit of what it leaves in the slot, or no     *)
(* commit at all.                                                          *)
LEMMA TravelsSent ==
  ASSUME OneTargetPerProcess, HandleInv, [Next]_vars, NEW o \in Objects, UNCHANGED poolBuffers,
         NEW k \in Targets, ~Young(k), NEW m, toHost' = [toHost EXCEPT ![ProcessOf[k]] = Append(@, m)]
  PROVE  Travels(o)' <=>
           Travels(o) \/ \E b \in Slots : m \in Commits(b) /\ Leaves(Sent(k), InPool(k, b), b, Unread(k), o)
<1>1. TypeOK /\ ProcessOf[k] \in Processes /\ toHost \in [Processes -> Seq(HostMessage)]
      /\ ~Young(k)' /\ poolID'[k] = poolID[k]
  BY PoolKept, PoolOf DEF HandleInv, PageInv, MapInv, HeapInv, TypeOK, IpcTypeOK
<1>2. ASSUME NEW t \in Targets, t # k, NEW b \in Slots
      PROVE  ~Young(t)' /\ Awaits(t, b, o)' <=> ~Young(t) /\ Awaits(t, b, o)
  <2>1. ProcessOf[t] # ProcessOf[k] /\ ProcessOf[t] \in Processes
    BY <1>1, <1>2, PoolOf DEF OneTargetPerProcess
  <2>2. Sent(t)' = Sent(t)
    BY <1>1, <2>1 DEF Sent
  <2> QED
    BY <2>2, AwaitsSame
<1>3. ASSUME NEW b \in Slots
      PROVE  Awaits(k, b, o)' <=>
               Awaits(k, b, o) \/ (m \in Commits(b) /\ Leaves(Sent(k), InPool(k, b), b, Unread(k), o))
  <2>1. PICK s, r, x : s = Sent(k) /\ r = Sent(k)' /\ x = InPool(k, b)
    OBVIOUS
  <2>2. s \in Seq(HostMessage) /\ r = Append(s, m) /\ InPool(k, b)' = x
    BY <1>1, <2>1, PoolOf DEF Sent, InPool
  <2>3. Finds(r, x, b, o) <=> Finds(s, x, b, o) \/ (m \in Commits(b) /\ Leaves(s, x, b, Len(s), o))
    BY <2>2, FindsAppended
  <2> QED
    BY <2>1, <2>2, <2>3 DEF Awaits, Unread
<1> QED
  BY <1>1, <1>2, <1>3 DEF Travels

(* What a proxy reads is a commit for what its pool has in the slot.       *)
LEMMA AwaitsRead ==
  ASSUME OneTargetPerProcess, HandleInv, NEW t \in Targets, ~Young(t), ProxyStep(ProcessOf[t]), HostFrame,
         NEW b \in Slots, NEW o \in Objects, NEW h, h = Head(Sent(t)),
         ~(CommitWithoutView(ProcessOf[t]) /\ h \in Commits(b) /\ InPool(t, b) = o)
  PROVE  Awaits(t, b, o) <=> (h \in Commits(b) /\ InPool(t, b) = o) \/ Awaits(t, b, o)'
<1>1. PICK w, p : w = ProcessOf[t] /\ p = poolID[t]
  OBVIOUS
<1>2. /\ TypeOK /\ HeapInv /\ w \in Processes /\ p \in PoolIDs /\ None \notin Objects
      /\ poolBuffers \in [PoolIDs -> [Slots -> Objects \cup {None}]]
      /\ Sent(t) \in Seq(HostMessage)
  BY <1>1, PoolOf DEF HandleInv, PageInv, MapInv, HeapInv, TypeOK, HostTypeOK
<1>3. /\ UNCHANGED webVars /\ Sent(t) # <<>> /\ Sent(t)' = Tail(Sent(t)) /\ h.poolID = p
  BY <1>1, PoolRead
<1>4. h = Head(toHost[w]) /\ ProxyStep(w)
  BY <1>1 DEF Sent
<1>5. /\ h \in HostMessage
      /\ PurgePool(w) => h \in Purges
      /\ BufferAllocation(w) => h \in Allocations(h.bufferID) \cap Carrying(h.object)
      /\ CommitToView(w) \/ CommitWithoutView(w) => h \in Commits(h.bufferID)
      /\ ConstructPool(w) => h.code = "PoolConstruction"
      /\ BufferAllocation(w) => h.bufferID \in Slots /\ h.object \in Objects
      /\ CommitToView(w) \/ CommitWithoutView(w) => h.bufferID \in Slots
  BY <1>2, <1>4, ProxyMessage
<1>6. ~ConstructPool(w)
  <2>1. \A i \in 1 .. Unread(t) : Sent(t)[i].code # "PoolConstruction"
    BY <1>2, MessageOf DEF HandleInv, PageInv
  <2>2. 1 \in 1 .. Unread(t) /\ Sent(t)[1] = h
    BY <1>2, <1>3 DEF Unread
  <2> QED
    BY <1>5, <2>1, <2>2
<1>7. h \notin Commits(b) \cap Refills(b)
  BY DEF Commits, Refills, Purges, Allocations
<1>8. poolBuffers'[p][b] = o <=> IF h \in Refills(b) THEN h \in Carrying(o) ELSE poolBuffers[p][b] = o
  <2>1. CASE PurgePool(w)
    <3>1. poolBuffers'[p][b] = None
      BY <1>2, <1>3, <1>4, <2>1 DEF PurgePool
    <3>2. h \in Refills(b) /\ h \notin Carrying(o)
      BY <1>5, <2>1 DEF Refills, Purges, Carrying
    <3> QED
      BY <1>2, <3>1, <3>2
  <2>2. CASE BufferAllocation(w)
    <3>1. poolBuffers' = [poolBuffers EXCEPT ![p][h.bufferID] = h.object]
      BY <1>3, <1>4, <2>2 DEF BufferAllocation
    <3>2. h \in Refills(b) <=> h.bufferID = b
      BY <1>5, <2>2 DEF Refills, Purges, Allocations
    <3>3. h \in Carrying(o) <=> h.object = o
      BY <1>5, <2>2 DEF Carrying
    <3> QED
      BY <1>2, <1>5, <2>2, <3>1, <3>2, <3>3
  <2>3. CASE CommitToView(w)
    <3>1. h \notin Refills(b)
      BY <1>5, <2>3 DEF Refills, Purges, Allocations, Commits
    <3>2. poolBuffers' = poolBuffers
      BY <2>3 DEF CommitToView
    <3> QED
      BY <3>1, <3>2
  <2>4. CASE CommitWithoutView(w)
    <3>1. h \notin Refills(b) /\ (h \in Commits(b) <=> h.bufferID = b)
      BY <1>5, <2>4 DEF Refills, Purges, Allocations, Commits
    <3>2. poolBuffers' = [poolBuffers EXCEPT ![p][h.bufferID] = None]
      BY <1>3, <1>4, <2>4 DEF CommitWithoutView
    <3>3. h \in Commits(b) => poolBuffers[p][b] # o
      BY <1>1, <2>4 DEF InPool
    <3> QED
      BY <1>2, <1>5, <2>4, <3>1, <3>2, <3>3
  <2> QED
    BY <1>4, <1>6, <2>1, <2>2, <2>3, <2>4 DEF ProxyStep
<1>9. PICK s, r, x, y : s = Sent(t) /\ r = Sent(t)' /\ x = poolBuffers[p][b] /\ y = poolBuffers'[p][b]
  OBVIOUS
<1>10. InPool(t, b) = x /\ InPool(t, b)' = y
  BY <1>1, <1>3, <1>9 DEF InPool, webVars
<1>11. Finds(s, x, b, o) <=> (h \in Commits(b) /\ x = o) \/ Finds(r, y, b, o)
  <2>1. s \in Seq(HostMessage) /\ s # <<>> /\ r = Tail(s) /\ h = Head(s)
    BY <1>2, <1>3, <1>9
  <2>2. y = o <=> IF h \in Refills(b) THEN h \in Carrying(o) ELSE x = o
    BY <1>8, <1>9
  <2> QED
    BY <1>7, <2>1, <2>2, FindsRead
<1> QED
  BY <1>9, <1>10, <1>11 DEF Awaits

(* A proxy leaves the messages and pools of other targets alone.           *)
LEMMA ReadOthers ==
  ASSUME OneTargetPerProcess, HandleInv, NEW w \in Processes, ProxyStep(w),
         NEW s \in Targets, ~Young(s), ProcessOf[s] # w
  PROVE  Sent(s)' = Sent(s) /\ poolBuffers'[poolID[s]] = poolBuffers[poolID[s]]
<1>1. /\ TypeOK /\ HeapInv /\ Handshake /\ ProcessOf[s] \in Processes /\ poolID[s] \in PoolIDs
      /\ poolBuffers \in [PoolIDs -> [Slots -> Objects \cup {None}]]
      /\ toHost \in [Processes -> Seq(HostMessage)]
  BY PoolOf DEF HandleInv, PageInv, MapInv, HeapInv, TypeOK, HostTypeOK, IpcTypeOK
<1>2. PICK m : m = Head(toHost[w])
  OBVIOUS
<1>3. /\ toHost[w] # <<>> /\ toHost' = [toHost EXCEPT ![w] = Tail(toHost[w])]
      /\ ConstructPool(w) => m.code = "PoolConstruction"
      /\ ~ConstructPool(w) => m.poolID \in PoolIDs
  BY <1>1, <1>2, ProxyMessage
<1>4. Sent(s)' = Sent(s)
  BY <1>1, <1>3 DEF Sent
<1>5. CASE ConstructPool(w)
  BY <1>4, <1>5 DEF ConstructPool
<1>6. CASE ~ConstructPool(w)
  <2>1. m.code # "PoolConstruction"
    BY <1>2, <1>6 DEF ProxyStep, PurgePool, BufferAllocation, CommitToView, CommitWithoutView, Reads
  <2>2. PICK u \in Targets : ProcessOf[u] = w /\ Owns(u, m.poolID)
    BY <1>1, <1>2, <1>3, <2>1, HostHead
  <2>3. m.poolID # poolID[s]
    <3> SUFFICES ASSUME m.poolID = poolID[s] PROVE FALSE
      OBVIOUS
    <3>1. Owns(s, m.poolID)
      BY DEF Owns
    <3> QED
      BY <1>1, <2>2, <3>1, OwnersClient
  <2>4. PICK f : poolBuffers' = [poolBuffers EXCEPT ![m.poolID] = f]
    <3>1. CASE PurgePool(w)
      BY <1>2, <3>1 DEF PurgePool
    <3>2. CASE BufferAllocation(w)
      BY <1>2, <3>2 DEF BufferAllocation
    <3>3. CASE CommitToView(w)
      BY <1>1, <1>3, <1>6, <3>3 DEF CommitToView
    <3>4. CASE CommitWithoutView(w)
      BY <1>2, <3>4 DEF CommitWithoutView
    <3> QED
      BY <1>6, <3>1, <3>2, <3>3, <3>4 DEF ProxyStep
  <2> QED
    BY <1>1, <1>4, <2>3, <2>4
<1> QED
  BY <1>5, <1>6

\* The buffer that the message to w's proxy commits.
Committed(w) == poolBuffers[Head(toHost[w]).poolID][Head(toHost[w]).bufferID]

(* A proxy that does not commit o leaves it where it is.                   *)
LEMMA TravelsRead ==
  ASSUME OneTargetPerProcess, HandleInv, [Next]_vars, NEW w \in Processes, ProxyStep(w), HostFrame, NEW o \in Objects,
         CommitToView(w) \/ CommitWithoutView(w) => Committed(w) # o
  PROVE  Travels(o)' <=> Travels(o)
<1>1. HeapInv /\ TypeOK
  BY DEF HandleInv, PageInv, MapInv, HeapInv
<1>2. ASSUME NEW t \in Targets, NEW b \in Slots
      PROVE  ~Young(t)' /\ Awaits(t, b, o)' <=> ~Young(t) /\ Awaits(t, b, o)
  <2>1. CASE Young(t) \/ ProcessOf[t] # w
    <3>1. ~Young(t) => Sent(t)' = Sent(t) /\ poolBuffers'[poolID[t]][b] = poolBuffers[poolID[t]][b]
      BY <2>1, ReadOthers
    <3> QED
      BY <3>1, AwaitsSame
  <2>2. CASE ~Young(t) /\ ProcessOf[t] = w
    <3>1. PICK h : h = Head(Sent(t))
      OBVIOUS
    <3>2. h.poolID = poolID[t] /\ h = Head(toHost[w])
      BY <2>2, <3>1, PoolRead DEF Sent
    <3>3. ASSUME h \in Commits(b) PROVE InPool(t, b) # o
      <4>1. CommitToView(w) \/ CommitWithoutView(w)
        BY <3>2, <3>3 DEF ProxyStep, ConstructPool, PurgePool, BufferAllocation, Reads, Commits
      <4> QED
        BY <3>2, <3>3, <4>1 DEF Committed, InPool, Commits
    <3>4. Awaits(t, b, o) <=> Awaits(t, b, o)'
      BY <2>2, <3>1, <3>3, AwaitsRead
    <3>5. ~Young(t)'
      BY <1>1, <2>2, PoolKept
    <3> QED
      BY <2>2, <3>4, <3>5
  <2> QED
    BY <2>1, <2>2
<1> QED
  BY <1>2 DEF Travels

(* The buffer a proxy commits was on its way to the application.           *)
LEMMA CommittedTravels ==
  ASSUME OneTargetPerProcess, HandleInv, NEW w \in Processes, CommitToView(w) \/ CommitWithoutView(w),
         NEW o \in Objects, Committed(w) = o
  PROVE  \E t \in Targets, b \in Slots :
           /\ ProcessOf[t] = w /\ ~Young(t) /\ Awaits(t, b, o)
           /\ poolID[t] = Head(toHost[w]).poolID /\ b = Head(toHost[w]).bufferID
           /\ InPool(t, b) = o
<1>1. TypeOK /\ HeapInv /\ Handshake /\ ProxyStep(w)
  BY DEF HandleInv, PageInv, MapInv, HeapInv, ProxyStep
<1>2. PICK m : m = Head(toHost[w])
  OBVIOUS
<1>3. toHost[w] # <<>> /\ toHost[w] \in Seq(HostMessage) /\ m \in Commits(m.bufferID) /\ m.bufferID \in Slots
  BY <1>1, <1>2, ProxyMessage
<1>4. m.code # "PoolConstruction"
  BY <1>3 DEF Commits
<1>5. PICK t \in Targets : ProcessOf[t] = w /\ Owns(t, m.poolID)
  BY <1>1, <1>2, <1>3, <1>4, HostHead
<1>6. PICK b \in Slots : b = m.bufferID
  BY <1>3
<1>7. InPool(t, b) = o
  BY <1>2, <1>5, <1>6 DEF InPool, Committed, Owns
<1>8. Awaits(t, b, o)
  <2>1. Sent(t) = toHost[w] /\ 1 \in 1 .. Len(Sent(t)) /\ Sent(t)[1] = m
    BY <1>2, <1>3, <1>5, EmptyQueue DEF Sent
  <2>2. Leaves(Sent(t), InPool(t, b), b, 1 - 1, o)
    BY <1>7 DEF Leaves, Followed
  <2> QED
    BY <1>3, <1>6, <2>1, <2>2 DEF Awaits, Finds
<1> QED
  BY <1>2, <1>5, <1>6, <1>7, <1>8 DEF Owns

(* Without a view it is not any more.                                      *)
LEMMA TravelsLost ==
  ASSUME OneTargetPerProcess, HandleInv, [Next]_vars, NEW w \in Processes, CommitWithoutView(w), HostFrame,
         NEW o \in Objects, Committed(w) = o
  PROVE  ~Travels(o)'
<1>1. /\ TypeOK /\ HeapInv /\ Handshake /\ HostHeapConsistent /\ TransitFresh /\ ProxyStep(w)
      /\ poolBuffers \in [PoolIDs -> [Slots -> Objects \cup {None}]] /\ None \notin Objects
  BY IpcAssumption DEF HandleInv, PageInv, MapInv, HeapInv, ProxyStep, TypeOK, HostTypeOK
<1>2. PICK t \in Targets, b \in Slots :
        /\ ProcessOf[t] = w /\ ~Young(t)
        /\ poolID[t] = Head(toHost[w]).poolID /\ b = Head(toHost[w]).bufferID
        /\ InPool(t, b) = o
  BY CommittedTravels
<1>3. /\ UNCHANGED webVars /\ Sent(t) # <<>> /\ Sent(t)' = Tail(Sent(t))
      /\ Sent(t) \in Seq(HostMessage) /\ poolID[t] \in PoolIDs /\ w \in Processes
  BY <1>1, <1>2, PoolRead, PoolOf
<1>4. /\ InPool(t, b)' = None
      /\ hostBuffer[o] # None /\ hostBuffer[o].poolID = poolID[t] /\ hostBuffer[o].bufferID = b
  <2>1. poolBuffers[poolID[t]][b] = o
    BY <1>2 DEF InPool
  <2>2. poolBuffers' = [poolBuffers EXCEPT ![poolID[t]][b] = None] /\ poolID' = poolID
    BY <1>2, <1>3 DEF CommitWithoutView, webVars
  <2> QED
    BY <1>1, <1>3, <2>1, <2>2 DEF HostHeapConsistent, SlotsPointToLive, InPool
<1>5. ASSUME NEW u \in Targets, NEW j \in 1 .. Unread(u)
      PROVE  Sent(u)[j] \notin Carrying(o)
  <2>1. ProcessOf[u] \in Processes
    BY <1>1, PoolOf
  <2> QED
    BY <1>1, <1>4, <1>5, <2>1 DEF TransitFresh, Carrying, Sent, Unread
<1>6. ASSUME NEW u \in Targets, ~Young(u), NEW a \in Slots, Awaits(u, a, o)
      PROVE  u = t /\ a = b
  <2>1. InPool(u, a) = o
    <3> SUFFICES ASSUME InPool(u, a) # o PROVE FALSE
      OBVIOUS
    <3>1. PICK s, x : s = Sent(u) /\ x = InPool(u, a) /\ Len(s) = Unread(u) /\ Len(s) \in Nat
      BY <1>1, PoolOf DEF Unread
    <3>2. Among(s, Allocations(a) \cap Carrying(o), Len(s))
      BY <1>6, <3>1, FindsBrought DEF Awaits
    <3> QED
      BY <1>5, <3>1, <3>2 DEF Among
  <2>2. poolID[u] \in PoolIDs
    BY <1>1, PoolOf
  <2>3. hostBuffer[o].poolID = poolID[u] /\ hostBuffer[o].bufferID = a
    BY <1>1, <2>1, <2>2 DEF HostHeapConsistent, SlotsPointToLive, InPool
  <2>4. Owns(u, poolID[t]) /\ Owns(t, poolID[t])
    BY <1>2, <1>4, <1>6, <2>3 DEF Owns
  <2> QED
    BY <1>1, <1>3, <1>4, <2>3, <2>4, OwnersClient
<1>7. ~Awaits(t, b, o)'
  <2> SUFFICES ASSUME Awaits(t, b, o)' PROVE FALSE
    OBVIOUS
  <2>1. PICK s, r, x : s = Sent(t) /\ r = Sent(t)' /\ x = InPool(t, b)'
    OBVIOUS
  <2>2. /\ Len(r) \in Nat /\ Len(s) = Len(r) + 1
        /\ \A i \in 1 .. Len(r) : r[i] = s[i + 1]
    BY <1>3, <2>1, ReadLength
  <2>3. Finds(r, x, b, o) /\ x # o
    BY <1>1, <1>4, <2>1 DEF Awaits
  <2>4. Among(r, Allocations(b) \cap Carrying(o), Len(r))
    BY <2>2, <2>3, FindsBrought
  <2>5. PICK j \in 1 .. Len(r) : r[j] \in Carrying(o)
    BY <2>4 DEF Among
  <2>6. j + 1 \in 1 .. Unread(t) /\ Sent(t)[j + 1] \in Carrying(o)
    BY <2>1, <2>2, <2>5 DEF Unread
  <2> QED
    BY <1>5, <2>6
<1>8. ASSUME NEW u \in Targets, ~Young(u)', NEW a \in Slots, Awaits(u, a, o)', ~(u = t /\ a = b)
      PROVE  FALSE
  <2>1. CASE Young(u) \/ ProcessOf[u] # w
    <3>1. ~Young(u) => Sent(u)' = Sent(u) /\ poolBuffers'[poolID[u]][a] = poolBuffers[poolID[u]][a]
      BY <1>1, <2>1, ReadOthers
    <3>2. ~Young(u) /\ Awaits(u, a, o)
      BY <1>8, <3>1, AwaitsSame
    <3> QED
      BY <1>6, <1>8, <3>2
  <2>2. CASE ~Young(u) /\ ProcessOf[u] = w
    <3>1. u = t /\ a # b
      BY <1>2, <1>8, <2>2 DEF OneTargetPerProcess
    <3>2. PICK h : h = Head(Sent(t))
      OBVIOUS
    <3>3. h \notin Commits(a)
      BY <1>2, <3>1, <3>2 DEF Commits, Sent
    <3>4. Awaits(t, a, o) <=> Awaits(t, a, o)'
      BY <1>1, <1>2, <3>2, <3>3, AwaitsRead
    <3> QED
      BY <1>6, <1>8, <2>2, <3>1, <3>4
  <2> QED
    BY <2>1, <2>2
<1> QED
  BY <1>7, <1>8 DEF Travels

-----------------------------------------------------------------------------
(* Steps of the owners.                                                    *)

\* The owner of o stays, and so does its place.
SameOwner(o) == Owner(o)' = Owner(o) /\ (Pooled(o)' <=> Pooled(o))

(* Nothing of a buffer changes.                                            *)
LEMMA OwnerSame ==
  ASSUME OwnersKnown, OwnersKnown', NEW o \in Objects,
         Shown(o)' <=> Shown(o), Travels(o)' <=> Travels(o),
         \A t \in Targets, b \in Slots : InSlot(t, b, o)' <=> InSlot(t, b, o),
         \A t \in Targets, b \in Slots : InSlot(t, b, o) =>
           /\ current'[t] = b <=> current[t] = b
           /\ locked'[t][b] <=> locked[t][b]
           /\ locked[t][b] /\ ~Shown(o) /\ ~Travels(o) =>
                (ReleaseInTransit(ProcessOf[t], poolID[t], b)' <=> ReleaseInTransit(ProcessOf[t], poolID[t], b))
  PROVE  SameOwner(o)
<1>1. CASE \E t \in Targets, b \in Slots : InSlot(t, b, o)
  <2>1. PICK t \in Targets, b \in Slots : InSlot(t, b, o)
    BY <1>1
  <2>2. InSlot(t, b, o)'
    BY <2>1
  <2>3. Pooled(o) /\ Owner(o) = SlotOwner(t, b, o)
    BY <2>1 DEF OwnersKnown
  <2>4. Pooled(o)' /\ Owner(o)' = SlotOwner(t, b, o)'
    BY <2>2 DEF OwnersKnown
  <2>5. SlotOwner(t, b, o)' = SlotOwner(t, b, o)
    BY <2>1 DEF SlotOwner
  <2> QED
    BY <2>3, <2>4, <2>5 DEF SameOwner
<1>2. CASE ~\E t \in Targets, b \in Slots : InSlot(t, b, o)
  <2>1. ~Pooled(o) /\ ~Pooled(o)'
    BY <1>2 DEF Pooled
  <2>2. Owner(o) = Elsewhere(o)
    BY <2>1 DEF OwnersKnown
  <2>3. Owner(o)' = Elsewhere(o)'
    BY <2>1 DEF OwnersKnown
  <2>4. Elsewhere(o)' = Elsewhere(o)
    BY DEF Elsewhere
  <2> QED
    BY <2>1, <2>2, <2>3, <2>4 DEF SameOwner
<1> QED
  BY <1>1, <1>2

(* A step that changes the owner of no buffer is none of the ownership.    *)
LEMMA NoneMoves ==
  ASSUME \A o \in Objects : SameOwner(o)
  PROVE  UNCHANGED <<OwnerOf, InPools>>
BY DEF SameOwner, OwnerOf, InPools

(* A step that changes that of one buffer only passes it on.               *)
LEMMA OneMoves ==
  ASSUME NEW o \in Objects, NEW from, NEW to, Owner(o) = from, Owner(o)' = to, Pooled(o)' <=> Pooled(o),
         \A x \in Objects : x # o => SameOwner(x)
  PROVE  Ownership!Passes(o, from, to) /\ UNCHANGED InPools
BY DEF SameOwner, OwnerOf, InPools, Ownership!Passes

(* Targets drop what they have.                                            *)
LEMMA SlotsDropped ==
  ASSUME OwnersKnown, OwnersKnown', NEW D \in SUBSET Targets,
         \A o \in Objects : (Shown(o)' <=> Shown(o)) /\ (Travels(o)' <=> Travels(o)),
         \A t \in D, b \in Slots, o \in Objects : ~InSlot(t, b, o)',
         \A t \in Targets \ D, b \in Slots, o \in Objects :
           /\ InSlot(t, b, o)' <=> InSlot(t, b, o)
           /\ InSlot(t, b, o) =>
                /\ current'[t] = current[t] /\ locked'[t] = locked[t]
                /\ ReleaseInTransit(ProcessOf[t], poolID[t], b)' <=> ReleaseInTransit(ProcessOf[t], poolID[t], b)
  PROVE  Ownership!Next
<1> DEFINE S == {o \in Objects : \E t \in D, b \in Slots : InSlot(t, b, o)}
<1>1. ASSUME NEW o \in Objects \ S
      PROVE  SameOwner(o)
  <2>1. \A t \in Targets, b \in Slots : InSlot(t, b, o)' <=> InSlot(t, b, o)
    BY <1>1
  <2>2. \A t \in Targets, b \in Slots : InSlot(t, b, o) => t \in Targets \ D
    BY <1>1
  <2> QED
    BY <2>1, <2>2, OwnerSame
<1>2. ASSUME NEW o \in S
      PROVE  /\ Pooled(o) /\ ~Pooled(o)'
             /\ Owner(o)' = IF Owner(o) \notin {"toApplication", "shown"} THEN "nobody" ELSE Owner(o)
  <2>1. PICK t \in D, b \in Slots : InSlot(t, b, o)
    BY <1>2
  <2>2. t \in Targets /\ o \in Objects
    OBVIOUS
  <2>3. /\ \A s \in Targets, a \in Slots : InSlot(s, a, o) => s = t /\ a = b
        /\ Pooled(o) /\ Owner(o) = SlotOwner(t, b, o)
        /\ current[t] = b => ~locked[t][b]
        /\ ~locked[t][b] => ~Shown(o) /\ ~Travels(o)
    BY <2>1, <2>2 DEF OwnersKnown
  <2>4. ~Pooled(o)'
    <3>1. \A s \in Targets, a \in Slots : ~InSlot(s, a, o)'
      BY <2>1, <2>2, <2>3
    <3> QED
      BY <3>1 DEF Pooled
  <2>5. Owner(o)' = Elsewhere(o)'
    BY <2>2, <2>4 DEF OwnersKnown
  <2>6. Elsewhere(o)' = Elsewhere(o)
    BY <2>2 DEF Elsewhere
  <2> QED
    BY <2>3, <2>4, <2>5, <2>6 DEF SlotOwner, Elsewhere
<1>3. S \in SUBSET InPools
  BY <1>2 DEF InPools
<1>4. Ownership!Drop(S)
  <2>1. InPools' = InPools \ S
    BY <1>1, <1>2 DEF InPools, SameOwner
  <2>2. OwnerOf' = [o \in Objects |->
          IF o \in S /\ OwnerOf[o] \notin {"toApplication", "shown"} THEN "nobody" ELSE OwnerOf[o]]
    <3> HIDE DEF S
    <3>1. ASSUME NEW o \in Objects
          PROVE  Owner(o)' = IF o \in S /\ OwnerOf[o] \notin {"toApplication", "shown"} THEN "nobody" ELSE OwnerOf[o]
      <4>1. OwnerOf[o] = Owner(o)
        BY DEF OwnerOf
      <4>2. CASE o \in S
        BY <1>2, <4>1, <4>2
      <4>3. CASE o \notin S
        BY <1>1, <4>1, <4>3 DEF SameOwner
      <4> QED
        BY <4>2, <4>3
    <3> QED
      BY <3>1 DEF OwnerOf
  <2> QED
    BY <2>1, <2>2 DEF Ownership!Drop
<1> QED
  BY <1>3, <1>4 DEF Ownership!Next

(* A view's buffers are lost.                                              *)
LEMMA BuffersLost ==
  ASSUME NEW S \in SUBSET Objects,
         \A o \in S : Owner(o) \in {"toApplication", "shown"},
         \A o \in S : Owner(o)' = IF Pooled(o) THEN "lost" ELSE "nobody",
         \A o \in S : Pooled(o)' <=> Pooled(o),
         \A o \in Objects \ S : SameOwner(o)
  PROVE  Ownership!Next
<1>1. InPools' = InPools
  BY DEF InPools, SameOwner
<1>2. \A o \in S : OwnerOf[o] \in {"toApplication", "shown"}
  BY DEF OwnerOf
<1>3. OwnerOf' = [o \in Objects |-> IF o \in S THEN Ownership!GivenUp(o) ELSE OwnerOf[o]]
  <2>1. ASSUME NEW o \in Objects
        PROVE  Owner(o)' = IF o \in S THEN Ownership!GivenUp(o) ELSE OwnerOf[o]
    <3>1. CASE o \in S
      BY <3>1 DEF Ownership!GivenUp, InPools
    <3>2. CASE o \notin S
      BY <3>2 DEF SameOwner, OwnerOf
    <3> QED
      BY <3>1, <3>2
  <2> QED
    BY <2>1 DEF OwnerOf
<1>4. Ownership!Lose(S)
  BY <1>1, <1>2, <1>3 DEF Ownership!Lose
<1> QED
  BY <1>4 DEF Ownership!Next

(* A buffer of a slot that is with the application, or on its way there,   *)
(* is locked and not on its way back.                                      *)
LEMMA AwayOwner ==
  ASSUME OwnersKnown, NEW o \in Objects, Shown(o) \/ Travels(o)
  PROVE  /\ Owner(o) = IF Shown(o) THEN "shown" ELSE "toApplication"
         /\ \A t \in Targets, b \in Slots : InSlot(t, b, o) =>
              /\ current[t] # b /\ locked[t][b]
              /\ ~ReleaseInTransit(ProcessOf[t], poolID[t], b)
<1>1. CASE Pooled(o)
  <2>1. PICK t \in Targets, b \in Slots : InSlot(t, b, o)
    BY <1>1 DEF Pooled
  <2>2. /\ Owner(o) = SlotOwner(t, b, o)
        /\ \A s \in Targets, a \in Slots : InSlot(s, a, o) => s = t /\ a = b
        /\ current[t] # b /\ locked[t][b]
        /\ ~ReleaseInTransit(ProcessOf[t], poolID[t], b)
    BY <2>1 DEF OwnersKnown
  <2> QED
    BY <2>2 DEF SlotOwner
<1>2. CASE ~Pooled(o)
  <2>1. Owner(o) = Elsewhere(o) /\ \A t \in Targets, b \in Slots : ~InSlot(t, b, o)
    BY <1>2 DEF OwnersKnown, Pooled
  <2> QED
    BY <2>1 DEF Elsewhere
<1> QED
  BY <1>1, <1>2

-----------------------------------------------------------------------------
(* Steps of the targets.                                                   *)

(* The types and invariants the steps refer to.                            *)
LEMMA OwnerTypes ==
  ASSUME OwnerInv
  PROVE  /\ UseInv /\ HandleInv /\ TypeOK /\ HeapInv /\ Handshake /\ HandlesPlaced /\ TargetsRegistered
         /\ object \in [Targets -> [Slots -> Objects \cup {None}]]
         /\ locked \in [Targets -> [Slots -> BOOLEAN]]
         /\ current \in [Targets -> Slots \cup {None}]
         /\ poolID \in [Targets -> PoolIDs] /\ phase \in [Targets -> Phases]
         /\ webUp \in [Processes -> BOOLEAN] /\ ProcessOf \in [Targets -> Processes]
         /\ toHost \in [Processes -> Seq(HostMessage)] /\ toWeb \in [Processes -> Seq(WebMessage)]
         /\ held \in [Views -> Seq(Objects)] /\ hostBuffer \in [Objects -> Buffer \cup {None}]
         /\ None \notin Objects /\ None \notin Slots /\ None \notin Buffer
BY IpcAssumption, RendererHostAssumption DEF OwnerInv, UseInv, HandleInv, PageInv, MapInv, HeapInv, TypeOK,
   IpcTypeOK, WebTypeOK, HostTypeOK

(* What neither commits nor drops a buffer, nor draws into one.            *)
LEMMA QuietTarget ==
  ASSUME OneTargetPerProcess, OwnerInv, OwnersKnown', [Next]_vars, NEW k \in Targets, WebFrame,
         \/ CreateTarget(k) \/ Initialize(k) \/ ReceiveReply(k) \/ DestroyTarget(k)
         \/ \E b \in Slots : FrameFailsToAllocate(k, b)
         \/ FrameRendered(k) /\ object[k][current[k]] = None
  PROVE  UNCHANGED <<OwnerOf, InPools>>
<1>1. HandleInv /\ OwnersKnown
  BY OwnersOf, OwnerTypes
<1>2. UNCHANGED <<object, webUp, held, poolBuffers>>
  BY DEF WebFrame, hostVars, appVars, CreateTarget, Initialize, ReceiveReply, DestroyTarget, FrameFailsToAllocate,
     FrameRendered, ipcVars
<1>3. ASSUME NEW o \in Objects
      PROVE  /\ Shown(o)' <=> Shown(o)
             /\ \A t \in Targets, b \in Slots : InSlot(t, b, o)' <=> InSlot(t, b, o)
  BY <1>2 DEF Shown, HeldBy, InSlot
<1>4. ASSUME NEW t \in Targets, ~Young(t)
      PROVE  Sent(t)' = Sent(t)
  <2>1. CASE Initialize(k)
    <3>1. ProcessOf[t] # ProcessOf[k]
      BY <1>4, <2>1 DEF OneTargetPerProcess, Initialize, Young
    <3> QED
      BY <2>1, <3>1, OwnerTypes DEF Initialize, SendToHost, Sent
  <2>2. CASE ~Initialize(k)
    BY <2>2 DEF CreateTarget, ReceiveReply, DestroyTarget, FrameFailsToAllocate, FrameRendered, ipcVars, Sent
  <2> QED
    BY <2>1, <2>2
<1>5. ASSUME NEW o \in Objects
      PROVE  Travels(o)' <=> Travels(o)
  <2>1. \A t \in Targets : ~Young(t) => Sent(t)' = Sent(t) /\ poolBuffers'[poolID[t]] = poolBuffers[poolID[t]]
    BY <1>2, <1>4
  <2> QED
    BY <1>1, <2>1, TravelsSame
<1>6. ASSUME NEW t \in Targets, NEW b \in Slots, NEW o \in Objects, InSlot(t, b, o)
      PROVE  /\ current'[t] = b <=> current[t] = b
             /\ locked'[t][b] <=> locked[t][b]
             /\ ReleaseInTransit(ProcessOf[t], poolID[t], b)' <=> ReleaseInTransit(ProcessOf[t], poolID[t], b)
  <2>1. phase[t] = "ready" /\ object[t][b] = o /\ o # None
    BY <1>1, <1>6, OwnerTypes DEF OwnersKnown, Live, InSlot
  <2>2. CASE ReceiveReply(k)
    <3>1. ProcessOf[t] # ProcessOf[k] /\ t # k
      BY <2>1, <2>2 DEF OneTargetPerProcess, ReceiveReply
    <3>2. toWeb'[ProcessOf[t]] = toWeb[ProcessOf[t]] /\ poolID'[t] = poolID[t]
      BY <2>2, <3>1, OwnerTypes DEF ReceiveReply, Received
    <3> QED
      BY <2>2, <3>2 DEF ReceiveReply, ReleaseInTransit
  <2>3. CASE CreateTarget(k) \/ Initialize(k) \/ DestroyTarget(k)
    BY <2>3 DEF CreateTarget, Initialize, DestroyTarget, ipcVars, ReleaseInTransit
  <2>4. CASE \E a \in Slots : FrameFailsToAllocate(k, a)
    <3>1. PICK a \in Slots : FrameFailsToAllocate(k, a)
      BY <2>4
    <3>2. /\ current[k] = None /\ current' = [current EXCEPT ![k] = a] /\ object[k][a] = None
          /\ UNCHANGED <<locked, poolID, toWeb>>
      BY <3>1 DEF FrameFailsToAllocate, CanRender, Callable, ipcVars
    <3>3. current'[t] = b <=> current[t] = b
      BY <2>1, <3>2, OwnerTypes
    <3> QED
      BY <3>2, <3>3 DEF ReleaseInTransit
  <2>5. CASE FrameRendered(k) /\ object[k][current[k]] = None
    <3>1. /\ current' = [current EXCEPT ![k] = None] /\ locked' = [locked EXCEPT ![k][current[k]] = TRUE]
          /\ current[k] \in Slots /\ UNCHANGED <<poolID, toWeb>>
      BY <2>5, OwnerTypes DEF FrameRendered
    <3>2. ~(t = k /\ b = current[k])
      BY <2>1, <2>5
    <3>3. (current'[t] = b <=> current[t] = b) /\ locked'[t][b] = locked[t][b]
      BY <3>1, <3>2, OwnerTypes
    <3> QED
      BY <3>1, <3>3 DEF ReleaseInTransit
  <2> QED
    BY <2>2, <2>3, <2>4, <2>5
<1>7. \A o \in Objects : SameOwner(o)
  BY <1>1, <1>3, <1>5, <1>6, OwnerSame
<1> QED
  BY <1>7, NoneMoves

(* The target, or its process, drops what it has.                          *)
LEMMA DroppingTarget ==
  ASSUME OneTargetPerProcess, OwnerInv, OwnersKnown', [Next]_vars, WebFrame,
         \/ \E k \in Targets : Resize(k) \/ Deinitialize(k) \/ FrameAborts(k)
         \/ \E w \in Processes : WebExits(w)
  PROVE  Ownership!Next
<1>1. HandleInv /\ OwnersKnown
  BY OwnersOf, OwnerTypes
<1>2. UNCHANGED <<held, poolBuffers, poolID, current>>
  BY DEF WebFrame, hostVars, appVars, Resize, Deinitialize, FrameAborts, WebExits, webVars
<1>3. \A o \in Objects : Shown(o)' <=> Shown(o)
  BY <1>2 DEF Shown, HeldBy
<1>4. ASSUME NEW o \in Objects
      PROVE  Travels(o)' <=> Travels(o)
  <2>1. CASE \E k \in Targets : Resize(k)
    <3>1. PICK k \in Targets : Resize(k)
      BY <2>1
    <3>2. ~Young(k) /\ toHost' = [toHost EXCEPT ![ProcessOf[k]] = Append(@, PoolPurgeMsg(poolID[k]))]
      BY <3>1 DEF Resize, SendToHost, Callable, Young
    <3>3. \A b \in Slots : PoolPurgeMsg(poolID[k]) \notin Commits(b)
      BY DEF Commits, PoolPurgeMsg
    <3> QED
      BY <1>1, <1>2, <3>2, <3>3, TravelsSent
  <2>2. CASE ~\E k \in Targets : Resize(k)
    <3>1. toHost' = toHost
      BY <2>2 DEF Deinitialize, FrameAborts, WebExits, ipcVars
    <3>2. \A t \in Targets : ~Young(t) => Sent(t)' = Sent(t) /\ poolBuffers'[poolID[t]] = poolBuffers[poolID[t]]
      BY <1>2, <3>1 DEF Sent
    <3> QED
      BY <1>1, <3>2, TravelsSame
  <2> QED
    BY <2>1, <2>2
<1>5. CASE \E k \in Targets : Resize(k) \/ Deinitialize(k)
  <2>1. PICK k \in Targets : Resize(k) \/ Deinitialize(k)
    BY <1>5
  <2>2. /\ object' = [object EXCEPT ![k] = [b \in Slots |-> None]]
        /\ locked' = [locked EXCEPT ![k] = [b \in Slots |-> FALSE]]
        /\ UNCHANGED <<webUp, toWeb>>
    BY <2>1 DEF Resize, Deinitialize, DestroyBufferPool, ipcVars
  <2>3. PICK D \in SUBSET Targets : D = {k}
    OBVIOUS
  <2>4. \A t \in D, b \in Slots, o \in Objects : ~InSlot(t, b, o)'
    BY <2>2, <2>3, OwnerTypes DEF InSlot
  <2>5. ASSUME NEW t \in Targets \ D
        PROVE  object'[t] = object[t] /\ locked'[t] = locked[t]
    BY <2>2, <2>3, OwnerTypes
  <2>6. \A t \in Targets \ D, b \in Slots, o \in Objects :
           /\ InSlot(t, b, o)' <=> InSlot(t, b, o)
           /\ InSlot(t, b, o) =>
                /\ current'[t] = current[t] /\ locked'[t] = locked[t]
                /\ ReleaseInTransit(ProcessOf[t], poolID[t], b)' <=> ReleaseInTransit(ProcessOf[t], poolID[t], b)
    BY <1>2, <2>2, <2>5 DEF InSlot, ReleaseInTransit
  <2> QED
    BY <1>1, <1>3, <1>4, <2>4, <2>6, SlotsDropped
<1>6. CASE (\E k \in Targets : FrameAborts(k)) \/ (\E w \in Processes : WebExits(w))
  <2>1. PICK w \in Processes : CloseWeb(w) /\ UNCHANGED webVars
    BY <1>6, OwnerTypes DEF FrameAborts, WebExits
  <2>2. PICK D \in SUBSET Targets : D = {t \in Targets : ProcessOf[t] = w}
    OBVIOUS
  <2>3. \A t \in D, b \in Slots, o \in Objects : ~InSlot(t, b, o)'
    BY <2>1, <2>2, OwnerTypes DEF InSlot, CloseWeb
  <2>4. ASSUME NEW t \in Targets \ D
        PROVE  webUp'[ProcessOf[t]] = webUp[ProcessOf[t]] /\ toWeb'[ProcessOf[t]] = toWeb[ProcessOf[t]]
    BY <2>1, <2>2, OwnerTypes DEF CloseWeb
  <2>5. \A t \in Targets \ D, b \in Slots, o \in Objects :
           /\ InSlot(t, b, o)' <=> InSlot(t, b, o)
           /\ InSlot(t, b, o) =>
                /\ current'[t] = current[t] /\ locked'[t] = locked[t]
                /\ ReleaseInTransit(ProcessOf[t], poolID[t], b)' <=> ReleaseInTransit(ProcessOf[t], poolID[t], b)
    BY <2>1, <2>4 DEF InSlot, ReleaseInTransit, webVars
  <2> QED
    BY <1>1, <1>3, <1>4, <2>3, <2>5, SlotsDropped
<1> QED
  BY <1>5, <1>6

(* The pool has the buffer of a slot, once it has read all messages.       *)
LEMMA SlotLeaves ==
  ASSUME TypeOK, NEW t \in Targets, Live(t), SlotsAgree(t), SlotsKept(t),
         NEW b \in Slots, NEW o \in Objects, InSlot(t, b, o),
         InPool(t, b) # None \/ Among(Sent(t), Refills(b), Unread(t))
  PROVE  Leaves(Sent(t), InPool(t, b), b, Unread(t), o)
<1>1. object[t][b] = o /\ o # None
  BY IpcAssumption DEF InSlot
<1>2. /\ Followed(Sent(t), Allocations(b) \ Carrying(o), Refills(b), Unread(t))
      /\ InPool(t, b) \in {None, o} \/ Among(Sent(t), Refills(b), Unread(t))
  BY <1>1 DEF SlotsAgree
<1>3. Followed(Sent(t), Purges, Allocations(b), Unread(t))
  BY DEF SlotsKept
<1>4. ASSUME NEW i \in 1 .. Unread(t), Sent(t)[i] \in Refills(b) \ Carrying(o)
      PROVE  \E j \in i + 1 .. Unread(t) : Sent(t)[j] \in Refills(b)
  <2>1. CASE Sent(t)[i] \in Purges
    BY <1>3, <2>1 DEF Followed, Refills
  <2>2. CASE Sent(t)[i] \notin Purges
    BY <1>2, <1>4, <2>2 DEF Followed, Refills
  <2> QED
    BY <2>1, <2>2
<1> QED
  BY <1>2, <1>4 DEF Leaves, Followed

(* A commit that no refill follows finds what is left in the end.          *)
LEMMA OpenCommit ==
  ASSUME NEW s, NEW x, NEW b, NEW o, Len(s) \in Nat, Leaves(s, x, b, Len(s), o),
         ~Followed(s, Commits(b), Refills(b), Len(s))
  PROVE  Finds(s, x, b, o)
<1>1. PICK i \in 1 .. Len(s) : s[i] \in Commits(b) /\ \A j \in i + 1 .. Len(s) : s[j] \notin Refills(b)
  BY DEF Followed
<1>2. s[i] \notin Refills(b)
  BY <1>1 DEF Commits, Refills, Purges, Allocations
<1>3. \A j \in 1 .. Len(s) : s[j] \in Refills(b) => j \in 1 .. i - 1
  BY <1>1, <1>2
<1>4. ASSUME NEW k \in 1 .. i - 1, s[k] \in Refills(b) \ Carrying(o)
      PROVE  \E j \in k + 1 .. i - 1 : s[j] \in Refills(b)
  <2>1. k \in 1 .. Len(s)
    OBVIOUS
  <2>2. PICK j \in k + 1 .. Len(s) : s[j] \in Refills(b)
    BY <1>4, <2>1 DEF Leaves, Followed
  <2>3. j \in k + 1 .. i - 1
    BY <1>3, <2>2
  <2> QED
    BY <2>2, <2>3
<1>5. x = o \/ Among(s, Refills(b), i - 1)
  BY <1>3 DEF Leaves, Among
<1>6. Leaves(s, x, b, i - 1, o)
  BY <1>4, <1>5 DEF Leaves, Followed
<1> QED
  BY <1>1, <1>6 DEF Finds

(* A target draws into a buffer it has ...                                 *)
LEMMA DrawingTarget ==
  ASSUME OneTargetPerProcess, OwnerInv, OwnersKnown', [Next]_vars, WebFrame,
         NEW k \in Targets, NEW b \in Slots, FrameReuses(k, b)
  PROVE  Ownership!Next
<1>1. HandleInv /\ OwnersKnown
  BY OwnersOf, OwnerTypes
<1>2. /\ current[k] = None /\ current' = [current EXCEPT ![k] = b]
      /\ ~locked[k][b] /\ object[k][b] # None /\ webUp[ProcessOf[k]]
      /\ UNCHANGED <<held, poolBuffers, poolID, object, locked, toHost, toWeb, webUp>>
  BY DEF FrameReuses, CanRender, Callable, InEventLoop, FirstUnlocked, WebFrame, hostVars, appVars, ipcVars
<1>3. ASSUME NEW x \in Objects
      PROVE  /\ Shown(x)' <=> Shown(x)
             /\ \A t \in Targets, c \in Slots : InSlot(t, c, x)' <=> InSlot(t, c, x)
             /\ \A t \in Targets, c \in Slots :
                  ReleaseInTransit(ProcessOf[t], poolID[t], c)' <=> ReleaseInTransit(ProcessOf[t], poolID[t], c)
  BY <1>2 DEF Shown, HeldBy, InSlot, ReleaseInTransit
<1>4. ASSUME NEW x \in Objects
      PROVE  Travels(x)' <=> Travels(x)
  <2>1. \A t \in Targets : ~Young(t) => Sent(t)' = Sent(t) /\ poolBuffers'[poolID[t]] = poolBuffers[poolID[t]]
    BY <1>2 DEF Sent
  <2> QED
    BY <1>1, <2>1, TravelsSame
<1>5. PICK o \in Objects : object[k][b] = o
  BY <1>2, OwnerTypes
<1>6. InSlot(k, b, o) /\ InSlot(k, b, o)'
  BY <1>2, <1>5 DEF InSlot
<1>7. /\ Owner(o) = SlotOwner(k, b, o) /\ Pooled(o) /\ ~Shown(o) /\ ~Travels(o)
      /\ \A t \in Targets, c \in Slots : InSlot(t, c, o) => t = k /\ c = b
  BY <1>1, <1>2, <1>6 DEF OwnersKnown
<1>8. Owner(o)' = SlotOwner(k, b, o)' /\ Pooled(o)'
  BY <1>6 DEF OwnersKnown
<1>9. Owner(o) = "target" /\ Owner(o)' = "drawn"
  BY <1>2, <1>7, <1>8, OwnerTypes DEF SlotOwner
<1>10. ASSUME NEW x \in Objects, x # o
       PROVE  SameOwner(x)
  <2>1. \A t \in Targets, c \in Slots : InSlot(t, c, x) => ~(t = k /\ c = b)
    BY <1>5, <1>10 DEF InSlot
  <2>2. ASSUME NEW t \in Targets, NEW c \in Slots, InSlot(t, c, x)
        PROVE  /\ current'[t] = c <=> current[t] = c
               /\ locked'[t][c] <=> locked[t][c]
               /\ ReleaseInTransit(ProcessOf[t], poolID[t], c)' <=> ReleaseInTransit(ProcessOf[t], poolID[t], c)
    BY <1>2, <1>3, <2>1, <2>2, OwnerTypes
  <2> QED
    BY <1>1, <1>3, <1>4, <2>2, OwnerSame
<1>11. Ownership!Draw(o)
  BY <1>7, <1>8, <1>9, <1>10, OneMoves DEF Ownership!Draw
<1> QED
  BY <1>11 DEF Ownership!Next

(* ... or into a new one ...                                               *)
LEMMA AllocatingTarget ==
  ASSUME OneTargetPerProcess, OwnerInv, OwnersKnown', [Next]_vars, WebFrame,
         NEW k \in Targets, NEW b \in Slots, NEW o \in Objects, Unreferenced(o), FrameAllocates(k, b, o)
  PROVE  Ownership!Next
<1>1. HandleInv /\ OwnersKnown /\ TypeOK /\ HostHeapConsistent
  BY OwnersOf, OwnerTypes DEF HeapInv
<1>2. PICK m : m = BufferAllocationMsg(poolID[k], b, o)
  OBVIOUS
<1>3. /\ current[k] = None /\ current' = [current EXCEPT ![k] = b]
      /\ object' = [object EXCEPT ![k][b] = o]
      /\ ~locked[k][b] /\ object[k][b] = None /\ webUp[ProcessOf[k]] /\ ~Young(k)
      /\ toHost' = [toHost EXCEPT ![ProcessOf[k]] = Append(@, m)]
      /\ UNCHANGED <<held, poolBuffers, poolID, locked, toWeb, webUp>>
  BY <1>2 DEF FrameAllocates, CanRender, Callable, InEventLoop, FirstUnlocked, WebFrame, hostVars, appVars, SendToHost,
     Young
<1>4. ASSUME NEW x \in Objects
      PROVE  /\ Shown(x)' <=> Shown(x)
             /\ Travels(x)' <=> Travels(x)
  <2>1. \A c \in Slots : m \notin Commits(c)
    BY <1>2 DEF BufferAllocationMsg, Commits
  <2> QED
    BY <1>1, <1>3, <2>1, TravelsSent DEF Shown, HeldBy
<1>5. ASSUME NEW x \in Objects, x # o, NEW t \in Targets, NEW c \in Slots
      PROVE  /\ InSlot(t, c, x)' <=> InSlot(t, c, x)
             /\ InSlot(t, c, x) => (current'[t] = c <=> current[t] = c)
             /\ ReleaseInTransit(ProcessOf[t], poolID[t], c)' <=> ReleaseInTransit(ProcessOf[t], poolID[t], c)
  <2>1. InSlot(t, c, x)' <=> InSlot(t, c, x)
    <3>1. CASE t = k /\ c = b
      <4>1. object[t][c] = None /\ object'[t][c] = o
        BY <1>3, <3>1, OwnerTypes
      <4> QED
        BY <1>5, <4>1, OwnerTypes DEF InSlot
    <3>2. CASE ~(t = k /\ c = b)
      <4>1. object'[t][c] = object[t][c]
        BY <1>3, <3>2, OwnerTypes
      <4> QED
        BY <1>3, <4>1 DEF InSlot
    <3> QED
      BY <3>1, <3>2
  <2>2. InSlot(t, c, x) => ~(t = k /\ c = b)
    BY <1>3, OwnerTypes DEF InSlot
  <2>3. InSlot(t, c, x) => (current'[t] = c <=> current[t] = c)
    BY <1>3, <2>2, OwnerTypes
  <2> QED
    BY <1>3, <2>1, <2>3 DEF ReleaseInTransit
<1>6. ~Shown(o) /\ ~Pooled(o)
  BY DEF Unreferenced, Shown, Pooled, InSlot
<1>7. ~Travels(o)
  <2> SUFFICES ASSUME NEW t \in Targets, NEW c \in Slots, Awaits(t, c, o) PROVE FALSE
    BY DEF Travels
  <2>1. PICK s, x : s = Sent(t) /\ x = InPool(t, c) /\ Len(s) \in Nat
    BY <1>1, PoolOf DEF Unread
  <2>2. poolID[t] \in PoolIDs /\ ProcessOf[t] \in Processes
    BY <1>1, PoolOf
  <2>3. CASE x = o
    <3>1. poolBuffers[poolID[t]][c] = o /\ o # None
      BY <2>1, <2>3, OwnerTypes DEF InPool
    <3>2. hostBuffer[o] # None
      BY <1>1, <2>2, <3>1 DEF HostHeapConsistent, SlotsPointToLive
    <3> QED
      BY <3>2 DEF Unreferenced
  <2>4. CASE x # o
    <3>1. Among(s, Allocations(c) \cap Carrying(o), Len(s))
      BY <2>1, <2>4, FindsBrought DEF Awaits
    <3>2. InTransit(o)
      BY <2>1, <2>2, <3>1 DEF Among, Carrying, InTransit, Sent
    <3> QED
      BY <3>2 DEF Unreferenced
  <2> QED
    BY <2>3, <2>4
<1>8. Owner(o) = "nobody"
  BY <1>1, <1>6, <1>7 DEF OwnersKnown, Elsewhere
<1>9. Owner(o)' = "drawn" /\ Pooled(o)'
  <2>1. InSlot(k, b, o)' /\ current'[k] = b
    BY <1>3, OwnerTypes DEF InSlot
  <2>2. Owner(o)' = SlotOwner(k, b, o)' /\ Pooled(o)'
    BY <2>1 DEF OwnersKnown
  <2> QED
    BY <2>1, <2>2 DEF SlotOwner
<1>10. ASSUME NEW x \in Objects, x # o
       PROVE  SameOwner(x)
  BY <1>1, <1>3, <1>4, <1>5, <1>10, OwnerSame
<1>11. Ownership!Allocate(o)
  <2>1. OwnerOf[o] = "nobody" /\ OwnerOf' = [OwnerOf EXCEPT ![o] = "drawn"]
    BY <1>8, <1>9, <1>10 DEF OwnerOf, SameOwner
  <2>2. InPools' = InPools \cup {o} /\ o \notin InPools
    BY <1>6, <1>9, <1>10 DEF InPools, SameOwner
  <2> QED
    BY <2>1, <2>2 DEF Ownership!Allocate, Ownership!Passes
<1> QED
  BY <1>11 DEF Ownership!Next

(* ... and commits it.                                                     *)
LEMMA CommittingTarget ==
  ASSUME OneTargetPerProcess, OwnerInv, OwnersKnown', [Next]_vars, WebFrame,
         NEW k \in Targets, FrameRendered(k), object[k][current[k]] # None
  PROVE  Ownership!Next
<1>1. HandleInv /\ OwnersKnown /\ TypeOK
  BY OwnersOf, OwnerTypes
<1>2. PICK b \in Slots : b = current[k]
  BY OwnerTypes DEF FrameRendered
<1>3. PICK m : m = BufferCommitMsg(poolID[k], b)
  OBVIOUS
<1>4. /\ current[k] = b /\ current' = [current EXCEPT ![k] = None]
      /\ locked' = [locked EXCEPT ![k][b] = TRUE]
      /\ object[k][b] # None /\ webUp[ProcessOf[k]] /\ ~Young(k)
      /\ toHost' = [toHost EXCEPT ![ProcessOf[k]] = Append(@, m)]
      /\ UNCHANGED <<held, poolBuffers, poolID, object, toWeb, webUp>>
  BY <1>2, <1>3 DEF FrameRendered, InEventLoop, WebFrame, hostVars, appVars, SendToHost, Young
<1>5. PICK o \in Objects : object[k][b] = o
  BY <1>4, OwnerTypes
<1>6. InSlot(k, b, o) /\ InSlot(k, b, o)'
  BY <1>4, <1>5 DEF InSlot
<1>7. /\ Live(k) /\ ~locked[k][b]
      /\ Owner(o) = SlotOwner(k, b, o) /\ Pooled(o) /\ ~Shown(o)
  BY <1>1, <1>4, <1>6 DEF OwnersKnown
<1>8. Leaves(Sent(k), InPool(k, b), b, Unread(k), o)
  <2>1. SlotsAgree(k) /\ SlotsKept(k)
    BY <1>4 DEF OwnerInv, UseInv, UseOf
  <2>2. Filled(k, b, Unread(k))
    BY <1>6, <1>7, <2>1 DEF SlotsKept, Dropped
  <2>3. InPool(k, b) # None \/ Among(Sent(k), Refills(b), Unread(k))
    BY <2>2 DEF Filled, Among, Refills
  <2> QED
    BY <1>1, <1>6, <1>7, <2>1, <2>3, SlotLeaves
<1>9. \A c \in Slots : m \in Commits(c) <=> c = b
  BY <1>3, <1>1, PoolOf, MessageKinds
<1>10. ASSUME NEW x \in Objects
       PROVE  /\ Shown(x)' <=> Shown(x)
              /\ Travels(x)' <=> Travels(x) \/ x = o
              /\ \A t \in Targets, c \in Slots : InSlot(t, c, x)' <=> InSlot(t, c, x)
              /\ \A t \in Targets, c \in Slots :
                   ReleaseInTransit(ProcessOf[t], poolID[t], c)' <=> ReleaseInTransit(ProcessOf[t], poolID[t], c)
  <2>1. Leaves(Sent(k), InPool(k, b), b, Unread(k), x) <=> x = o
    <3>1. PICK s, y, n : s = Sent(k) /\ y = InPool(k, b) /\ n = Unread(k) /\ n \in Nat
      BY <1>1, PoolOf
    <3>2. Leaves(s, y, b, n, x) => o = x
      BY <1>8, <3>1, LeavesOne
    <3> QED
      BY <1>8, <3>1, <3>2
  <2>2. Travels(x)' <=>
           Travels(x) \/ \E c \in Slots : m \in Commits(c) /\ Leaves(Sent(k), InPool(k, c), c, Unread(k), x)
    BY <1>1, <1>4, TravelsSent
  <2> QED
    BY <1>4, <1>9, <2>1, <2>2 DEF Shown, HeldBy, InSlot, ReleaseInTransit
<1>11. Owner(o) = "drawn"
  BY <1>4, <1>7 DEF SlotOwner
<1>12. Owner(o)' = "toApplication" /\ Pooled(o)'
  <2>1. Owner(o)' = SlotOwner(k, b, o)' /\ Pooled(o)'
    BY <1>6 DEF OwnersKnown
  <2>2. current'[k] # b
    BY <1>4, OwnerTypes
  <2>3. ~Shown(o)' /\ Travels(o)'
    BY <1>7, <1>10
  <2> QED
    BY <2>1, <2>2, <2>3 DEF SlotOwner
<1>13. ASSUME NEW x \in Objects, x # o
       PROVE  SameOwner(x)
  <2>1. ASSUME NEW t \in Targets, NEW c \in Slots, InSlot(t, c, x)
        PROVE  (current'[t] = c <=> current[t] = c) /\ (locked'[t][c] <=> locked[t][c])
    <3>1. ~(t = k /\ c = b)
      BY <1>5, <1>13, <2>1 DEF InSlot
    <3> QED
      BY <1>4, <3>1, OwnerTypes
  <2> QED
    BY <1>1, <1>10, <1>13, <2>1, OwnerSame
<1>14. Ownership!Commit(o)
  BY <1>7, <1>11, <1>12, <1>13, OneMoves DEF Ownership!Commit
<1> QED
  BY <1>14 DEF Ownership!Next

-----------------------------------------------------------------------------
(* Steps of the web process and of its proxy.                              *)

(* What reads the release of slot b leaves those of other slots, and what  *)
(* reads anything else leaves all.                                         *)
LEMMA OtherReleases ==
  ASSUME HeapInv, NEW w \in Processes, toWeb[w] # <<>>, toWeb' = [toWeb EXCEPT ![w] = Tail(@)], UNCHANGED poolID,
         NEW t \in Targets, NEW b \in Slots,
         ProcessOf[t] = w => Head(toWeb[w]) # ReleaseBufferMsg(poolID[t], b)
  PROVE  ReleaseInTransit(ProcessOf[t], poolID[t], b)' <=> ReleaseInTransit(ProcessOf[t], poolID[t], b)
<1>1. toWeb \in [Processes -> Seq(WebMessage)] /\ ProcessOf[t] \in Processes
  BY IpcAssumption DEF HeapInv, TypeOK, IpcTypeOK
<1>2. CASE ProcessOf[t] # w
  <2>1. toWeb'[ProcessOf[t]] = toWeb[ProcessOf[t]]
    BY <1>1, <1>2
  <2> QED
    BY <2>1 DEF ReleaseInTransit
<1>3. CASE ProcessOf[t] = w
  <2>1. PICK s, r, M : s = toWeb[w] /\ r = toWeb'[w] /\ M = {ReleaseBufferMsg(poolID[t], b)}
    OBVIOUS
  <2>2. s \in Seq(WebMessage) /\ s # <<>> /\ r = Tail(s) /\ Head(s) \notin M
    BY <1>1, <1>3, <2>1
  <2>3. Len(s) = Len(r) + 1 /\ Len(r) \in Nat
    BY <2>2, ReadLength
  <2>4. Among(s, M, Len(r) + 1) <=> Head(s) \in M \/ Among(r, M, Len(r))
    <3>1. Len(r) \in 0 .. Len(r)
      BY <2>3
    <3> QED
      BY <2>2, <3>1, AmongRead
  <2>5. Among(s, M, Len(s)) <=> Among(r, M, Len(r))
    BY <2>2, <2>3, <2>4
  <2>6. ReleaseInTransit(ProcessOf[t], poolID[t], b) <=> Among(s, M, Len(s))
    BY <1>3, <2>1 DEF ReleaseInTransit, Among
  <2>7. ReleaseInTransit(ProcessOf[t], poolID[t], b)' <=> Among(r, M, Len(r))
    <3>1. poolID'[t] = poolID[t]
      OBVIOUS
    <3> QED
      BY ONLY <1>3, <2>1, <3>1 DEF ReleaseInTransit, Among
  <2> QED
    BY <2>5, <2>6, <2>7
<1> QED
  BY <1>2, <1>3

(* Neither does sending anything else.                                     *)
LEMMA OtherSent ==
  ASSUME HeapInv, UNCHANGED poolID, NEW t \in Targets, NEW b \in Slots,
         \/ toWeb'[ProcessOf[t]] = toWeb[ProcessOf[t]]
         \/ \E m : m # ReleaseBufferMsg(poolID[t], b) /\ toWeb'[ProcessOf[t]] = Append(toWeb[ProcessOf[t]], m)
  PROVE  ReleaseInTransit(ProcessOf[t], poolID[t], b)' <=> ReleaseInTransit(ProcessOf[t], poolID[t], b)
<1>1. toWeb \in [Processes -> Seq(WebMessage)] /\ ProcessOf[t] \in Processes
  BY IpcAssumption DEF HeapInv, TypeOK, IpcTypeOK
<1>2. CASE toWeb'[ProcessOf[t]] = toWeb[ProcessOf[t]]
  BY <1>2 DEF ReleaseInTransit
<1>3. CASE \E m : m # ReleaseBufferMsg(poolID[t], b) /\ toWeb'[ProcessOf[t]] = Append(toWeb[ProcessOf[t]], m)
  <2>1. PICK m : m # ReleaseBufferMsg(poolID[t], b) /\ toWeb'[ProcessOf[t]] = Append(toWeb[ProcessOf[t]], m)
    BY <1>3
  <2>2. PICK s, r, M : s = toWeb[ProcessOf[t]] /\ r = toWeb'[ProcessOf[t]] /\ M = {ReleaseBufferMsg(poolID[t], b)}
    OBVIOUS
  <2>3. s \in Seq(WebMessage) /\ r = Append(s, m) /\ m \notin M
    BY <1>1, <2>1, <2>2
  <2>4. Among(r, M, Len(r)) <=> Among(s, M, Len(s))
    <3>1. Among(r, M, Len(r)) <=> m \in M \/ Among(s, M, Len(s))
      BY <2>3, AmongAppended
    <3> QED
      BY <2>3, <3>1
  <2>5. poolID'[t] = poolID[t]
    OBVIOUS
  <2> QED
    BY ONLY <2>2, <2>4, <2>5 DEF ReleaseInTransit, Among
<1> QED
  BY <1>2, <1>3

(* The release that is read gives a buffer back to its target.             *)
LEMMA ReturningWeb ==
  ASSUME OneTargetPerProcess, OwnerInv, OwnersKnown', [Next]_vars, WebFrame,
         NEW w \in Processes, HandleWebMessage(w)
  PROVE  [Ownership!Next]_<<OwnerOf, InPools>>
<1>1. HandleInv /\ OwnersKnown /\ HeapInv
  BY OwnersOf, OwnerTypes
<1>2. /\ UNCHANGED <<held, poolBuffers, poolID, object, current, toHost, webUp>>
      /\ toWeb[w] # <<>> /\ toWeb' = [toWeb EXCEPT ![w] = Tail(@)]
  BY DEF HandleWebMessage, WebFrame, hostVars, appVars, Received
<1>3. \A t \in Targets, b \in Slots : locked'[t][b] => locked[t][b]
  <2>1. PICK x, c : UNCHANGED locked \/ locked' = [locked EXCEPT ![x][c] = FALSE]
    BY DEF HandleWebMessage
  <2>2. ASSUME NEW t \in Targets, NEW b \in Slots, locked'[t][b] PROVE locked[t][b]
    <3>1. CASE locked' = [locked EXCEPT ![x][c] = FALSE] /\ x # t
      BY <2>2, <3>1, OwnerTypes
    <3>2. CASE locked' = [locked EXCEPT ![x][c] = FALSE] /\ x = t
      BY <2>2, <3>2, OwnerTypes
    <3> QED
      BY <2>1, <2>2, <3>1, <3>2
  <2> QED
    BY <2>2
<1>4. ASSUME NEW x \in Objects
      PROVE  /\ Shown(x)' <=> Shown(x)
             /\ Travels(x)' <=> Travels(x)
             /\ \A t \in Targets, b \in Slots : InSlot(t, b, x)' <=> InSlot(t, b, x)
  <2>1. \A t \in Targets : ~Young(t) => Sent(t)' = Sent(t) /\ poolBuffers'[poolID[t]] = poolBuffers[poolID[t]]
    BY <1>2 DEF Sent
  <2>2. Travels(x)' <=> Travels(x)
    BY <1>1, <2>1, TravelsSame
  <2> QED
    BY <1>2, <2>2 DEF Shown, HeldBy, InSlot
<1>5. ASSUME NEW x \in Objects,
             \A t \in Targets, b \in Slots : InSlot(t, b, x) => (locked[t][b] => locked'[t][b])
      PROVE  SameOwner(x)
  <2>1. ASSUME NEW t \in Targets, NEW b \in Slots, InSlot(t, b, x), locked[t][b]
        PROVE  ReleaseInTransit(ProcessOf[t], poolID[t], b)' <=> ReleaseInTransit(ProcessOf[t], poolID[t], b)
    <3>1. phase[t] = "ready"
      BY <1>1, <2>1 DEF OwnersKnown, Live
    <3>2. ProcessOf[t] = w => Head(toWeb[w]) # ReleaseBufferMsg(poolID[t], b)
      <4> SUFFICES ASSUME ProcessOf[t] = w, Head(toWeb[w]) = ReleaseBufferMsg(poolID[t], b) PROVE FALSE
        OBVIOUS
      <4>1. ~locked'[t][b]
        BY <1>1, <3>1, ReleaseRead
      <4> QED
        BY <1>5, <2>1, <4>1
    <3> QED
      BY <1>1, <1>2, <3>2, OtherReleases
  <2>2. \A t \in Targets, b \in Slots : InSlot(t, b, x) =>
          /\ current'[t] = b <=> current[t] = b
          /\ locked'[t][b] <=> locked[t][b]
          /\ locked[t][b] /\ ~Shown(x) /\ ~Travels(x) =>
               (ReleaseInTransit(ProcessOf[t], poolID[t], b)' <=> ReleaseInTransit(ProcessOf[t], poolID[t], b))
    BY <1>2, <1>3, <1>5, <2>1
  <2> QED
    BY <1>1, <1>4, <2>2, OwnerSame
<1>6. CASE \A t \in Targets, b \in Slots, x \in Objects : InSlot(t, b, x) => (locked[t][b] => locked'[t][b])
  <2>1. \A x \in Objects : SameOwner(x)
    BY <1>5, <1>6
  <2> QED
    BY <2>1, NoneMoves
<1>7. CASE \E t \in Targets, b \in Slots, x \in Objects : InSlot(t, b, x) /\ locked[t][b] /\ ~locked'[t][b]
  <2>1. PICK k \in Targets, b \in Slots, o \in Objects : InSlot(k, b, o) /\ locked[k][b] /\ ~locked'[k][b]
    BY <1>7
  <2>2. w = ProcessOf[k] /\ Head(toWeb[w]) = ReleaseBufferMsg(poolID[k], b)
    BY <1>1, <2>1, UnlockingMessage
  <2>3. ReleaseInTransit(ProcessOf[k], poolID[k], b)
    <3>1. toWeb[w] \in Seq(WebMessage)
      BY OwnerTypes
    <3>2. 1 \in 1 .. Len(toWeb[w]) /\ toWeb[w][1] = Head(toWeb[w])
      BY <1>2, <3>1, EmptyQueue
    <3> QED
      BY <2>2, <3>2 DEF ReleaseInTransit
  <2>4. /\ Owner(o) = SlotOwner(k, b, o) /\ Pooled(o) /\ ~Shown(o) /\ ~Travels(o) /\ current[k] # b
        /\ \A s \in Targets, a \in Slots : InSlot(s, a, o) => s = k /\ a = b
    BY <1>1, <2>1, <2>3 DEF OwnersKnown
  <2>5. Owner(o) = "toTarget"
    BY <2>1, <2>3, <2>4 DEF SlotOwner
  <2>6. Owner(o)' = "target" /\ Pooled(o)'
    <3>1. InSlot(k, b, o)'
      BY <1>4, <2>1
    <3>2. Owner(o)' = SlotOwner(k, b, o)' /\ Pooled(o)'
      BY <3>1 DEF OwnersKnown
    <3> QED
      BY <1>2, <1>4, <2>1, <2>4, <3>2 DEF SlotOwner
  <2>7. ASSUME NEW x \in Objects, x # o
        PROVE  SameOwner(x)
    <3>1. ASSUME NEW t \in Targets, NEW c \in Slots, InSlot(t, c, x), locked[t][c], ~locked'[t][c]
          PROVE  FALSE
      <4>1. w = ProcessOf[t] /\ Head(toWeb[w]) = ReleaseBufferMsg(poolID[t], c)
        BY <1>1, <3>1, UnlockingMessage
      <4>2. t = k
        BY <2>2, <4>1 DEF OneTargetPerProcess
      <4>3. c = b
        BY <2>2, <4>1, <4>2, ReleaseKinds
      <4> QED
        BY <2>1, <2>7, <3>1, <4>2, <4>3 DEF InSlot
    <3> QED
      BY <1>5, <3>1
  <2>8. Ownership!Return(o)
    BY <2>4, <2>5, <2>6, <2>7, OneMoves DEF Ownership!Return
  <2> QED
    BY <2>8 DEF Ownership!Next
<1> QED
  BY <1>6, <1>7

(* A commit shows a buffer that was on its way, or loses it; the other     *)
(* messages move none.                                                     *)
LEMMA ReadingProxy ==
  ASSUME OneTargetPerProcess, OwnerInv, OwnersKnown', [Next]_vars, HostFrame,
         NEW w \in Processes, ProxyStep(w)
  PROVE  [Ownership!Next]_<<OwnerOf, InPools>>
<1>1. HandleInv /\ OwnersKnown /\ HeapInv /\ TypeOK
  BY OwnersOf, OwnerTypes
<1>2. UNCHANGED <<poolID, object, current, locked, webUp>>
  BY DEF HostFrame, webVars, ProxyStep, ConstructPool, PurgePool, BufferAllocation, CommitToView, CommitWithoutView
<1>3. \A t \in Targets, b \in Slots, x \in Objects : InSlot(t, b, x)' <=> InSlot(t, b, x)
  BY <1>2 DEF InSlot
<1>4. \A x \in Objects : Pooled(x)' <=> Pooled(x)
  BY <1>3 DEF Pooled
<1>5. ASSUME NEW t \in Targets, NEW b \in Slots
      PROVE  ReleaseInTransit(ProcessOf[t], poolID[t], b)' <=> ReleaseInTransit(ProcessOf[t], poolID[t], b)
  <2>1. CASE toWeb' = toWeb
    BY <1>2, <2>1 DEF ReleaseInTransit
  <2>2. CASE toWeb' # toWeb
    <3>1. PICK m : m = PoolConstructionReplyMsg(NewPoolID) /\ toWeb' = [toWeb EXCEPT ![w] = Append(@, m)]
      BY <2>2 DEF ProxyStep, ConstructPool, PurgePool, BufferAllocation, CommitToView, CommitWithoutView, SendToWeb
    <3>2. m # ReleaseBufferMsg(poolID[t], b)
      BY <3>1 DEF PoolConstructionReplyMsg, ReleaseBufferMsg
    <3>3. HeapInv /\ UNCHANGED poolID
      BY <1>1, <1>2
    <3>4. toWeb'[ProcessOf[t]] \in {toWeb[ProcessOf[t]], Append(toWeb[ProcessOf[t]], m)}
      BY <3>1, OwnerTypes
    <3> QED
      BY <3>2, <3>3, <3>4, OtherSent
  <2> QED
    BY <2>1, <2>2
<1>6. ASSUME NEW x \in Objects, CommitToView(w) \/ CommitWithoutView(w) => Committed(w) # x
      PROVE  SameOwner(x)
  <2>1. Travels(x)' <=> Travels(x)
    BY <1>1, <1>6, TravelsRead
  <2>2. Shown(x)' <=> Shown(x)
    <3>1. CASE CommitToView(w)
      <4>1. \A u \in Views : HeldBy(u, x)' <=> HeldBy(u, x)
        BY <1>1, <1>6, <3>1, HeldAfterCommit DEF Committed
      <4> QED
        BY <4>1 DEF Shown
    <3>2. CASE ~CommitToView(w)
      <4>1. held' = held
        BY <3>2 DEF ProxyStep, ConstructPool, PurgePool, BufferAllocation, CommitWithoutView, appVars
      <4> QED
        BY <4>1 DEF Shown, HeldBy
    <3> QED
      BY <3>1, <3>2
  <2>3. \A t \in Targets, b \in Slots : InSlot(t, b, x) =>
          /\ current'[t] = b <=> current[t] = b
          /\ locked'[t][b] <=> locked[t][b]
          /\ ReleaseInTransit(ProcessOf[t], poolID[t], b)' <=> ReleaseInTransit(ProcessOf[t], poolID[t], b)
    BY <1>2, <1>5
  <2> QED
    BY <1>1, <1>3, <2>1, <2>2, <2>3, OwnerSame
<1>7. CASE ~((CommitToView(w) \/ CommitWithoutView(w)) /\ Committed(w) \in Objects)
  <2>1. \A x \in Objects : SameOwner(x)
    BY <1>6, <1>7
  <2> QED
    BY <2>1, NoneMoves
<1>8. CASE (CommitToView(w) \/ CommitWithoutView(w)) /\ Committed(w) \in Objects
  <2>1. PICK o \in Objects : Committed(w) = o
    BY <1>8
  <2>2. Travels(o) /\ ~Shown(o)
    <3>1. Travels(o)
      BY <1>1, <1>8, <2>1, CommittedTravels DEF Travels
    <3> QED
      BY <1>1, <3>1 DEF OwnersKnown
  <2>3. /\ Owner(o) = "toApplication"
        /\ \A t \in Targets, b \in Slots : InSlot(t, b, o) =>
             /\ current[t] # b /\ locked[t][b]
             /\ ~ReleaseInTransit(ProcessOf[t], poolID[t], b)
    BY <1>1, <2>2, AwayOwner
  <2>4. \A x \in Objects : x # o => SameOwner(x)
    BY <1>6, <2>1
  <2>5. CASE CommitToView(w)
    <3>1. Shown(o)'
      <4>1. \E u \in Views : HeldBy(u, o)'
        <5>1. PICK u : u = viewBackendMap[Head(toHost[w]).poolID]
          OBVIOUS
        <5>2. u \in Views /\ \A v \in Views : \A x \in Objects : HeldBy(v, x)' <=> HeldBy(v, x) \/ (v = u /\ x = o)
          BY <1>1, <2>1, <2>5, <5>1, HeldAfterCommit DEF Committed
        <5> QED
          BY <5>2
      <4> QED
        BY <4>1 DEF Shown
    <3>2. Owner(o)' = "shown"
      <4>1. CASE Pooled(o)'
        <5>1. PICK t \in Targets, b \in Slots : InSlot(t, b, o)'
          BY <4>1 DEF Pooled
        <5>2. Owner(o)' = SlotOwner(t, b, o)'
          BY <5>1 DEF OwnersKnown
        <5>3. current'[t] # b
          BY <1>2, <1>3, <2>3, <5>1
        <5> QED
          BY <3>1, <5>2, <5>3 DEF SlotOwner
      <4>2. CASE ~Pooled(o)'
        BY <3>1, <4>2 DEF OwnersKnown, Elsewhere
      <4> QED
        BY <4>1, <4>2
    <3>3. Ownership!Show(o)
      BY <1>4, <2>3, <2>4, <3>2, OneMoves DEF Ownership!Show
    <3> QED
      BY <3>3 DEF Ownership!Next
  <2>6. CASE CommitWithoutView(w)
    <3>1. ~Travels(o)'
      BY <1>1, <2>1, <2>6, TravelsLost
    <3>2. ~Shown(o)'
      BY <2>2, <2>6 DEF Shown, HeldBy, CommitWithoutView, appVars
    <3>3. Owner(o)' = IF Pooled(o) THEN "lost" ELSE "nobody"
      <4>1. CASE Pooled(o)'
        <5>1. PICK t \in Targets, b \in Slots : InSlot(t, b, o)'
          BY <4>1 DEF Pooled
        <5>2. Owner(o)' = SlotOwner(t, b, o)'
          BY <5>1 DEF OwnersKnown
        <5>3. current'[t] # b /\ locked'[t][b] /\ ~ReleaseInTransit(ProcessOf[t], poolID[t], b)'
          BY <1>2, <1>3, <1>5, <2>3, <5>1
        <5> QED
          BY <1>4, <3>1, <3>2, <4>1, <5>2, <5>3 DEF SlotOwner
      <4>2. CASE ~Pooled(o)'
        BY <1>4, <3>1, <3>2, <4>2 DEF OwnersKnown, Elsewhere
      <4> QED
        BY <4>1, <4>2
    <3>4. PICK S \in SUBSET Objects : S = {o}
      OBVIOUS
    <3> QED
      BY <1>4, <2>3, <2>4, <3>3, <3>4, BuffersLost
  <2> QED
    BY <1>8, <2>5, <2>6
<1> QED
  BY <1>7, <1>8

-----------------------------------------------------------------------------
(* Steps of the UI process and of the application.                         *)

(* What only sends completions, or opens sockets, moves no buffer.         *)
LEMMA QuietHost ==
  ASSUME OneTargetPerProcess, UpAttached, OwnerInv, OwnersKnown', [Next]_vars,
         \/ \E w \in Processes : CreateClient(w) /\ HostFrame
         \/ \E v \in Views : (CreateView(v) \/ HandleViewMessage(v) \/ DispatchFrameComplete(v)) /\ ViewFrame
         \/ Poll /\ HostFrame /\ UNCHANGED <<hostVars, appVars>>
  PROVE  UNCHANGED <<OwnerOf, InPools>>
<1>1. HandleInv /\ OwnersKnown /\ TypeOK /\ HeapInv
  BY OwnersOf, OwnerTypes
<1>2. UNCHANGED <<poolID, object, current, locked, phase, held, poolBuffers, toHost>>
  <2>1. UNCHANGED webVars
    BY DEF HostFrame, ViewFrame
  <2>2. UNCHANGED <<held, poolBuffers, toHost>>
    <3>1. CASE \E w \in Processes : CreateClient(w) /\ HostFrame
      BY <3>1 DEF CreateClient, OpenWeb, hostVars, appVars
    <3>2. CASE \E v \in Views : CreateView(v) \/ HandleViewMessage(v)
      BY <3>2 DEF CreateView, OpenView, HandleViewMessage, hostVars, appVars
    <3>3. CASE \E v \in Views : DispatchFrameComplete(v)
      BY <3>3 DEF DispatchFrameComplete, FrameComplete, hostVars
    <3>4. CASE Poll /\ UNCHANGED <<hostVars, appVars>>
      BY <3>4 DEF Poll, ipcVars, hostVars, appVars
    <3> QED
      BY <3>1, <3>2, <3>3, <3>4
  <2> QED
    BY <2>1, <2>2 DEF webVars
<1>3. ASSUME NEW t \in Targets, NEW b \in Slots, NEW x \in Objects
      PROVE  InSlot(t, b, x)' <=> InSlot(t, b, x)
  <2>1. CASE \E w \in Processes : CreateClient(w) /\ HostFrame
    <3>1. PICK w \in Processes : CreateClient(w)
      BY <2>1
    <3>2. ~Attached(w) /\ webUp' = [webUp EXCEPT ![w] = TRUE]
      BY <3>1 DEF CreateClient, Attach, OpenWeb
    <3>3. CASE ProcessOf[t] = w
      <4>1. phase[t] # "ready"
        BY <3>2, <3>3 DEF UpAttached
      <4>2. object[t][b] # x
        BY <1>1, <4>1, OwnerTypes DEF TargetsRegistered
      <4> QED
        BY <1>2, <4>2 DEF InSlot
    <3>4. CASE ProcessOf[t] # w
      BY <1>2, <3>2, <3>4, OwnerTypes DEF InSlot
    <3> QED
      BY <3>3, <3>4
  <2>2. CASE ~\E w \in Processes : CreateClient(w) /\ HostFrame
    <3>1. webUp' = webUp
      BY <2>2 DEF CreateView, OpenView, HandleViewMessage, DispatchFrameComplete, Poll, ipcVars
    <3> QED
      BY <1>2, <3>1 DEF InSlot
  <2> QED
    BY <2>1, <2>2
<1>4. ASSUME NEW t \in Targets, NEW b \in Slots
      PROVE  ReleaseInTransit(ProcessOf[t], poolID[t], b)' <=> ReleaseInTransit(ProcessOf[t], poolID[t], b)
  <2>1. CASE toWeb' = toWeb
    BY <1>2, <2>1 DEF ReleaseInTransit
  <2>2. CASE toWeb' # toWeb
    <3>1. PICK w, p : toWeb' = [toWeb EXCEPT ![w] = Append(@, FrameCompleteMsg(p))]
      BY <2>2 DEF CreateClient, OpenWeb, CreateView, OpenView, HandleViewMessage, DispatchFrameComplete, FrameComplete,
         SendToWeb, Poll, ipcVars
    <3>2. PICK m : m = FrameCompleteMsg(p)
      OBVIOUS
    <3>3. m # ReleaseBufferMsg(poolID[t], b)
      BY <3>2 DEF FrameCompleteMsg, ReleaseBufferMsg
    <3>4. HeapInv /\ UNCHANGED poolID
      BY <1>1, <1>2
    <3>5. toWeb'[ProcessOf[t]] \in {toWeb[ProcessOf[t]], Append(toWeb[ProcessOf[t]], m)}
      BY <3>1, <3>2, OwnerTypes
    <3> QED
      BY <3>3, <3>4, <3>5, OtherSent
  <2> QED
    BY <2>1, <2>2
<1>5. ASSUME NEW x \in Objects
      PROVE  SameOwner(x)
  <2>1. Shown(x)' <=> Shown(x)
    BY <1>2 DEF Shown, HeldBy
  <2>2. Travels(x)' <=> Travels(x)
    <3>1. \A t \in Targets : ~Young(t) => Sent(t)' = Sent(t) /\ poolBuffers'[poolID[t]] = poolBuffers[poolID[t]]
      BY <1>2 DEF Sent
    <3> QED
      BY <1>1, <3>1, TravelsSame
  <2> QED
    BY <1>1, <1>2, <1>3, <1>4, <2>1, <2>2, OwnerSame
<1> QED
  BY <1>5, NoneMoves

(* What a view that is destroyed showed is lost.                           *)
LEMMA LosingView ==
  ASSUME OneTargetPerProcess, OwnerInv, OwnersKnown', [Next]_vars, NEW v \in Views, DestroyView(v), ViewFrame
  PROVE  Ownership!Next
<1>1. HandleInv /\ OwnersKnown /\ TypeOK /\ HeldOnce
  BY OwnersOf, OwnerTypes DEF UseInv
<1>2. UNCHANGED <<poolID, object, current, locked, poolBuffers, toHost, toWeb, webUp>>
      /\ held' = [held EXCEPT ![v] = <<>>]
  BY DEF DestroyView, ViewFrame, webVars
<1>3. PICK S \in SUBSET Objects : S = {x \in Objects : HeldBy(v, x)}
  OBVIOUS
<1>4. ASSUME NEW x \in Objects
      PROVE  /\ Travels(x)' <=> Travels(x)
             /\ \A t \in Targets, b \in Slots : InSlot(t, b, x)' <=> InSlot(t, b, x)
             /\ Pooled(x)' <=> Pooled(x)
  <2>1. \A t \in Targets : ~Young(t) => Sent(t)' = Sent(t) /\ poolBuffers'[poolID[t]] = poolBuffers[poolID[t]]
    BY <1>2 DEF Sent
  <2>2. Travels(x)' <=> Travels(x)
    BY <1>1, <2>1, TravelsSame
  <2> QED
    BY <1>2, <2>2 DEF InSlot, Pooled
<1>5. \A t \in Targets, b \in Slots :
         ReleaseInTransit(ProcessOf[t], poolID[t], b)' <=> ReleaseInTransit(ProcessOf[t], poolID[t], b)
  BY <1>2 DEF ReleaseInTransit
<1>6. ASSUME NEW x \in Objects, NEW u \in Views
      PROVE  HeldBy(u, x)' <=> HeldBy(u, x) /\ u # v
  <2>1. CASE u = v
    <3>1. held'[u] = <<>>
      BY <1>2, <2>1, OwnerTypes
    <3> QED
      BY <2>1, <3>1, EmptyQueue DEF HeldBy
  <2>2. CASE u # v
    BY <1>2, <2>2, OwnerTypes DEF HeldBy
  <2> QED
    BY <2>1, <2>2
<1>7. ASSUME NEW x \in Objects \ S
      PROVE  SameOwner(x)
  <2>1. Shown(x)' <=> Shown(x)
    BY <1>3, <1>6 DEF Shown
  <2> QED
    BY <1>1, <1>2, <1>4, <1>5, <2>1, OwnerSame
<1>8. ASSUME NEW x \in S
      PROVE  /\ Owner(x) = "shown"
             /\ Owner(x)' = IF Pooled(x) THEN "lost" ELSE "nobody"
  <2>1. x \in Objects /\ HeldBy(v, x)
    BY <1>3
  <2>2. Shown(x)
    BY <2>1 DEF Shown
  <2>3. /\ Owner(x) = "shown" /\ ~Travels(x)
        /\ \A t \in Targets, b \in Slots : InSlot(t, b, x) =>
             /\ current[t] # b /\ locked[t][b]
             /\ ~ReleaseInTransit(ProcessOf[t], poolID[t], b)
    BY <1>1, <2>1, <2>2, AwayOwner DEF OwnersKnown
  <2>4. ~Shown(x)'
    <3>1. ASSUME NEW u \in Views, HeldBy(u, x) PROVE u = v
      BY <1>1, <2>1, <3>1 DEF HeldOnce, HeldBy
    <3> QED
      BY <1>6, <2>1, <3>1 DEF Shown
  <2>5. ~Travels(x)'
    BY <1>4, <2>1, <2>3
  <2>6. CASE Pooled(x)
    <3>1. PICK t \in Targets, b \in Slots : InSlot(t, b, x)
      BY <2>6 DEF Pooled
    <3>2. InSlot(t, b, x)'
      BY <1>4, <2>1, <3>1
    <3>3. Owner(x)' = SlotOwner(t, b, x)'
      BY <2>1, <3>2 DEF OwnersKnown
    <3>4. current'[t] # b /\ locked'[t][b] /\ ~ReleaseInTransit(ProcessOf[t], poolID[t], b)'
      BY <1>2, <1>5, <2>3, <3>1
    <3> QED
      BY <2>3, <2>4, <2>5, <2>6, <3>3, <3>4 DEF SlotOwner
  <2>7. CASE ~Pooled(x)
    <3>1. Owner(x)' = Elsewhere(x)'
      BY <1>4, <2>1, <2>7 DEF OwnersKnown
    <3> QED
      BY <2>3, <2>4, <2>5, <2>7, <3>1 DEF Elsewhere
  <2> QED
    BY <2>6, <2>7
<1> QED
  BY <1>4, <1>7, <1>8, BuffersLost

(* A buffer that is released goes back to the target whose slot it is in:  *)
(* no other is released in its name.                                       *)
LEMMA ReleasingView ==
  ASSUME OneTargetPerProcess, OwnerInv, OwnersKnown', [Next]_vars, NEW v \in Views, NEW i \in 1 .. Len(held[v]),
         DispatchReleaseBuffer(v, i), ViewFrame
  PROVE  Ownership!Next
<1>1. HandleInv /\ OwnersKnown /\ TypeOK /\ HeldOnce /\ HeapInv
  BY OwnersOf, OwnerTypes DEF UseInv
<1>2. PICK x \in Objects : x = held[v][i]
  BY <1>1, HeldAfterRelease
<1>3. /\ ReleaseBuffer(x)
      /\ \A u \in Views : \A y \in Objects : y # x => (HeldBy(u, y)' <=> HeldBy(u, y))
  BY <1>1, <1>2, HeldAfterRelease
<1>4. UNCHANGED <<poolID, object, current, locked, poolBuffers, toHost, webUp>>
  BY <1>3 DEF DispatchReleaseBuffer, ReleaseBuffer, ViewFrame, webVars
<1>5. \A t \in Targets, b \in Slots, y \in Objects : InSlot(t, b, y)' <=> InSlot(t, b, y)
  BY <1>4 DEF InSlot
<1>6. ASSUME NEW y \in Objects
      PROVE  /\ Travels(y)' <=> Travels(y)
             /\ Pooled(y)' <=> Pooled(y)
  <2>1. \A t \in Targets : ~Young(t) => Sent(t)' = Sent(t) /\ poolBuffers'[poolID[t]] = poolBuffers[poolID[t]]
    BY <1>4 DEF Sent
  <2>2. Travels(y)' <=> Travels(y)
    BY <1>1, <2>1, TravelsSame
  <2> QED
    BY <1>5, <2>2 DEF Pooled
<1>7. Shown(x)
  BY <1>2 DEF Shown, HeldBy
<1>8. ~Shown(x)'
  <2>1. ASSUME NEW u \in Views, NEW j \in 1 .. Len(held'[u]), held'[u][j] = x
        PROVE  FALSE
    <3>1. PICK k \in 1 .. Len(held[u]) : held[u][k] = held'[u][j] /\ (u = v => k # i)
      BY <1>1, HeldBefore
    <3> QED
      BY <1>1, <1>2, <2>1, <3>1 DEF HeldOnce
  <2> QED
    BY <2>1 DEF Shown, HeldBy
<1>9. /\ Owner(x) = "shown" /\ ~Travels(x)
      /\ \A t \in Targets, b \in Slots : InSlot(t, b, x) =>
           /\ current[t] # b /\ locked[t][b]
           /\ ~ReleaseInTransit(ProcessOf[t], poolID[t], b)
  BY <1>1, <1>7, AwayOwner DEF OwnersKnown
<1>10. Owner(x)' = IF Pooled(x) THEN "toTarget" ELSE "nobody"
  <2>1. CASE Pooled(x)
    <3>1. PICK t \in Targets, b \in Slots : InSlot(t, b, x)
      BY <2>1 DEF Pooled
    <3>2. Owner(x)' = SlotOwner(t, b, x)'
      BY <1>5, <3>1 DEF OwnersKnown
    <3>3. ReleaseInTransit(ProcessOf[t], poolID[t], b)'
      <4>1. ~Young(t)
        BY <1>1, <3>1 DEF OwnersKnown
      <4>2. hostBuffer[x] # None => ~hostBuffer[x].pendingDelete
        BY <3>1, <4>1 DEF OwnerInv, Unmarked
      <4>3. toWeb'[ProcessOf[t]] = Append(toWeb[ProcessOf[t]], ReleaseBufferMsg(poolID[t], b))
        BY <1>1, <1>3, <3>1, <4>1, <4>2, ReleaseReturns
      <4>4. PICK s, r, m : s = toWeb[ProcessOf[t]] /\ r = toWeb'[ProcessOf[t]] /\ m = ReleaseBufferMsg(poolID[t], b)
        OBVIOUS
      <4>5. s \in Seq(WebMessage)
        BY <4>4, OwnerTypes
      <4>6. Len(r) \in 1 .. Len(r) /\ r[Len(r)] = m
        BY <4>3, <4>4, <4>5, AppendedLength
      <4>7. poolID'[t] = poolID[t]
        BY <1>4
      <4> QED
        BY <4>4, <4>6, <4>7 DEF ReleaseInTransit
    <3> QED
      BY <1>4, <1>6, <1>8, <1>9, <2>1, <3>1, <3>2, <3>3 DEF SlotOwner
  <2>2. CASE ~Pooled(x)
    BY <1>6, <1>8, <1>9, <2>2 DEF OwnersKnown, Elsewhere
  <2> QED
    BY <2>1, <2>2
<1>11. ASSUME NEW y \in Objects, y # x, ~Travels(y), NEW t \in Targets, NEW b \in Slots, InSlot(t, b, y), locked[t][b]
       PROVE  ReleaseInTransit(ProcessOf[t], poolID[t], b)' <=> ReleaseInTransit(ProcessOf[t], poolID[t], b)
  <2>1. Live(t) /\ ~Young(t)
    BY <1>1, <1>11 DEF OwnersKnown
  <2>2. ASSUME hostBuffer[x].poolID = poolID[t], hostBuffer[x].bufferID = b, ~hostBuffer[x].pendingDelete
        PROVE  FALSE
    <3>1. hostBuffer[x] # None
      BY <1>3 DEF ReleaseBuffer
    <3>2. InPool(t, b) = x
      <4>1. PICK p \in PoolIDs, c \in Slots : poolBuffers[p][c] = x
        BY <1>1, <2>2, <3>1 DEF HeapInv, HostHeapConsistent, MarkedOutsideSlots
      <4>2. p = poolID[t] /\ c = b
        BY <1>1, <2>2, <4>1, OwnerTypes DEF HeapInv, HostHeapConsistent, SlotsPointToLive
      <4> QED
        BY <4>1, <4>2 DEF InPool
    <3>3. SlotsAgree(t) /\ SlotsKept(t) /\ LockedCommitted(t)
      BY <2>1 DEF OwnerInv, UseInv, UseOf
    <3>4. Leaves(Sent(t), InPool(t, b), b, Unread(t), y)
      <4>1. InPool(t, b) # None
        BY <3>2, OwnerTypes
      <4> QED
        BY <1>1, <1>11, <2>1, <3>3, <4>1, SlotLeaves
    <3>5. PICK s, z, n : s = Sent(t) /\ z = InPool(t, b) /\ n = Unread(t) /\ n \in Nat /\ n = Len(s)
      BY <1>1, PoolOf DEF Unread
    <3>6. Among(s, Carrying(y), n)
      <4>1. \E j \in 0 .. n : /\ IF j = 0 THEN z = y ELSE s[j] \in Refills(b) \cap Carrying(y)
                              /\ \A k \in j + 1 .. n : s[k] \notin Refills(b)
        BY <3>4, <3>5, LeavesLast
      <4>2. PICK j \in 0 .. n : IF j = 0 THEN z = y ELSE s[j] \in Refills(b) \cap Carrying(y)
        BY <4>1
      <4>3. j # 0
        BY <1>11, <3>2, <3>5, <4>2
      <4> QED
        BY <3>5, <4>2, <4>3 DEF Among
    <3>7. ~Followed(s, Commits(b), Refills(b), n)
      BY <1>11, <3>3, <3>5, <3>6 DEF LockedCommitted
    <3>8. Finds(s, z, b, y)
      BY <3>4, <3>5, <3>7, OpenCommit
    <3> QED
      BY <1>11, <2>1, <3>5, <3>8 DEF Travels, Awaits
  <2>3. \/ toWeb' = toWeb
        \/ \E w, m : /\ m # ReleaseBufferMsg(poolID[t], b)
                     /\ toWeb' = [toWeb EXCEPT ![w] = Append(@, m)]
    <3>1. PICK p, c, w, m :
            /\ p = hostBuffer[x].poolID /\ c = hostBuffer[x].bufferID /\ w = poolClient[p]
            /\ m = ReleaseBufferMsg(p, c)
      OBVIOUS
    <3>2. UNCHANGED toWeb \/ (~hostBuffer[x].pendingDelete /\ toWeb' = [toWeb EXCEPT ![w] = Append(@, m)])
      BY <1>1, <1>3, <3>1, ReleaseSends
    <3>3. CASE ~hostBuffer[x].pendingDelete /\ toWeb' = [toWeb EXCEPT ![w] = Append(@, m)]
      <4>1. m # ReleaseBufferMsg(poolID[t], b)
        BY <2>2, <3>1, <3>3, ReleaseKinds
      <4> QED
        BY <3>3, <4>1
    <3> QED
      BY <3>2, <3>3
  <2>4. \/ toWeb'[ProcessOf[t]] = toWeb[ProcessOf[t]]
        \/ \E m : m # ReleaseBufferMsg(poolID[t], b) /\ toWeb'[ProcessOf[t]] = Append(toWeb[ProcessOf[t]], m)
    <3>1. CASE toWeb' = toWeb
      BY <3>1
    <3>2. CASE \E w, m : /\ m # ReleaseBufferMsg(poolID[t], b)
                         /\ toWeb' = [toWeb EXCEPT ![w] = Append(@, m)]
      <4>1. PICK w, m : /\ m # ReleaseBufferMsg(poolID[t], b)
                        /\ toWeb' = [toWeb EXCEPT ![w] = Append(@, m)]
        BY <3>2
      <4> QED
        BY <4>1, OwnerTypes
    <3> QED
      BY <2>3, <3>1, <3>2
  <2>5. HeapInv /\ UNCHANGED poolID
    BY <1>1, <1>4
  <2> QED
    BY <2>4, <2>5, OtherSent
<1>12. ASSUME NEW y \in Objects, y # x
       PROVE  SameOwner(y)
  <2>1. Shown(y)' <=> Shown(y)
    BY <1>3, <1>12 DEF Shown
  <2> QED
    BY <1>1, <1>4, <1>5, <1>6, <1>11, <1>12, <2>1, OwnerSame
<1>13. Ownership!Release(x)
  <2>1. x \in InPools <=> Pooled(x)
    BY DEF InPools
  <2>2. PICK to : to = IF x \in InPools THEN "toTarget" ELSE "nobody"
    OBVIOUS
  <2>3. Ownership!Passes(x, "shown", to) /\ UNCHANGED InPools
    BY <1>6, <1>9, <1>10, <1>12, <2>1, <2>2, OneMoves
  <2> QED
    BY <2>2, <2>3 DEF Ownership!Release
<1> QED
  BY <1>13 DEF Ownership!Next

(* Every step of the system is one of the ownership, or moves no buffer.   *)
LEMMA OwnershipStep ==
  ASSUME OneTargetPerProcess, UpAttached, OwnerInv, OwnersKnown', [Next]_vars
  PROVE  [Ownership!Next]_<<OwnerOf, InPools>>
<1>1. CASE \E k \in Targets : TargetStep(k) /\ WebFrame
  <2>1. PICK k \in Targets : TargetStep(k) /\ WebFrame
    BY <1>1
  <2>2. CASE \/ CreateTarget(k) \/ Initialize(k) \/ ReceiveReply(k) \/ DestroyTarget(k)
             \/ \E b \in Slots : FrameFailsToAllocate(k, b)
             \/ FrameRendered(k) /\ object[k][current[k]] = None
    BY <2>1, <2>2, QuietTarget
  <2>3. CASE Resize(k) \/ Deinitialize(k) \/ FrameAborts(k)
    BY <2>1, <2>3, DroppingTarget
  <2>4. CASE \E b \in Slots : FrameReuses(k, b)
    BY <2>1, <2>4, DrawingTarget
  <2>5. CASE \E b \in Slots : \E o \in Objects : Unreferenced(o) /\ FrameAllocates(k, b, o)
    BY <2>1, <2>5, AllocatingTarget
  <2>6. CASE FrameRendered(k) /\ object[k][current[k]] # None
    BY <2>1, <2>6, CommittingTarget
  <2> QED
    BY <2>1, <2>2, <2>3, <2>4, <2>5, <2>6 DEF TargetStep
<1>2. CASE \E w \in Processes : (HandleWebMessage(w) \/ WebExits(w)) /\ WebFrame
  BY <1>2, ReturningWeb, DroppingTarget
<1>3. CASE \E w \in Processes : (CreateClient(w) \/ ProxyStep(w)) /\ HostFrame
  BY <1>3, QuietHost, ReadingProxy
<1>4. CASE \E v \in Views :
             /\ \/ CreateView(v) \/ HandleViewMessage(v) \/ DestroyView(v)
                \/ ReleaseStep(v) \/ DispatchFrameComplete(v)
             /\ ViewFrame
  <2>1. PICK v \in Views :
          /\ \/ CreateView(v) \/ HandleViewMessage(v) \/ DestroyView(v)
             \/ ReleaseStep(v) \/ DispatchFrameComplete(v)
          /\ ViewFrame
    BY <1>4
  <2>2. CASE CreateView(v) \/ HandleViewMessage(v) \/ DispatchFrameComplete(v)
    BY <2>1, <2>2, QuietHost
  <2>3. CASE DestroyView(v)
    BY <2>1, <2>3, LosingView
  <2>4. CASE ReleaseStep(v)
    <3>1. PICK i \in 1 .. Len(held[v]) : DispatchReleaseBuffer(v, i)
      BY <2>4 DEF ReleaseStep
    <3> QED
      BY <2>1, <3>1, ReleasingView
  <2> QED
    BY <2>1, <2>2, <2>3, <2>4
<1>5. CASE Poll /\ HostFrame /\ UNCHANGED <<hostVars, appVars>>
  BY <1>5, QuietHost
<1>6. CASE UNCHANGED vars
  <2>1. UNCHANGED <<toHost, toWeb, webUp, poolID, object, current, locked, poolBuffers, held>>
    BY <1>6 DEF vars, ipcVars, webVars, hostVars, appVars
  <2>2. ASSUME NEW o \in Objects PROVE SameOwner(o)
    BY <2>1 DEF SameOwner, Owner, Drawn, Rendering, Shown, HeldBy, UnderWay, CommitsTo, RefilledWith, RefillsPool, Brings,
       Returning, ReleaseInTransit, Locked, Pooled, InSlot
  <2> QED
    BY <2>2, NoneMoves
<1> QED
  BY <1>1, <1>2, <1>3, <1>4, <1>5, <1>6 DEF Next

-----------------------------------------------------------------------------
(* The invariant is kept.                                                  *)

(* A slot that lost its buffer to a commit without a view stays locked, as *)
(* nothing that could unlock it is on its way or will be sent.             *)
LEMMA DroppedStays ==
  ASSUME NEW t \in Targets, LeftAlone(t), NEW b \in Slots, NEW o \in Objects, InSlot(t, b, o)', Dropped(t, b)
  PROVE  Dropped(t, b)'
<1>1. PICK q, s, r, p : /\ q = Sent(t) /\ q = Sent(t)' /\ s = toWeb[ProcessOf[t]] /\ r = toWeb'[ProcessOf[t]]
                        /\ p = poolID[t] /\ p = poolID'[t]
  BY DEF LeftAlone
<1>2. PICK x : x = ReleaseBufferMsg(p, b)
  OBVIOUS
<1>3. /\ locked[t][b] /\ ~Among(s, {x}, Len(s)) /\ ~Among(q, Commits(b), Len(q))
      /\ \A v \in Views, y \in Objects : HeldBy(v, y) /\ hostBuffer[y] # None =>
           hostBuffer[y].pendingDelete \/ hostBuffer[y].poolID # p \/ hostBuffer[y].bufferID # b
  BY <1>1, <1>2 DEF Dropped, Unread, ReleaseInTransit, Among
<1>4. /\ Among(r, {x}, Len(r)) =>
           \/ Among(s, {x}, Len(s))
           \/ \E v \in Views, y \in Objects :
                /\ HeldBy(v, y) /\ hostBuffer[y] # None /\ ~hostBuffer[y].pendingDelete
                /\ hostBuffer[y].poolID = p /\ hostBuffer[y].bufferID = b
      /\ locked'[t][b] = locked[t][b] \/ Among(s, {x}, Len(s))
      /\ \A v \in Views, y \in Objects : HeldBy(v, y)' /\ hostBuffer'[y] # None /\ hostBuffer'[y].poolID = p =>
           /\ HeldBy(v, y) /\ hostBuffer[y] # None /\ hostBuffer[y].poolID = p
           /\ hostBuffer'[y].bufferID = hostBuffer[y].bufferID
           /\ hostBuffer[y].pendingDelete => hostBuffer'[y].pendingDelete
  BY <1>1, <1>2 DEF LeftAlone
<1>5. locked'[t][b] /\ ~Among(r, {x}, Len(r))
  BY <1>3, <1>4
<1>6. \A v \in Views, y \in Objects : HeldBy(v, y)' /\ hostBuffer'[y] # None =>
        hostBuffer'[y].pendingDelete \/ hostBuffer'[y].poolID # p \/ hostBuffer'[y].bufferID # b
  BY <1>3, <1>4
<1>7. (~ReleaseInTransit(ProcessOf[t], poolID[t], b))'
  BY <1>1, <1>2, <1>5 DEF ReleaseInTransit, Among
<1>8. (~Among(Sent(t), Commits(b), Unread(t)))'
  BY <1>1, <1>3 DEF Unread
<1> QED
  BY <1>1, <1>5, <1>6, <1>7, <1>8 DEF Dropped, HeldBy

(* What others do to a target.                                             *)
LEMMA KeptOther ==
  ASSUME OneTargetPerProcess, HandleInv, UpAttached, NEW t \in Targets, ~Young(t), SlotsKept(t), LockedCommitted(t),
         [Next]_vars, ~(TargetStep(t) /\ WebFrame), ~(ProxyStep(ProcessOf[t]) /\ HostFrame)
  PROVE  SlotsKept(t)' /\ LockedCommitted(t)'
<1>1. LeftAlone(t)
  BY OthersLeave
<1>2. \A b \in Slots : locked'[t][b] => locked[t][b]
  BY TargetOther
<1>3. /\ Sent(t)' = Sent(t) /\ \A b \in Slots : InPool(t, b)' = InPool(t, b)
      /\ \A b \in Slots, o \in Objects : InSlot(t, b, o)' => InSlot(t, b, o)
  BY <1>1 DEF LeftAlone, InPool
<1>4. PICK s : s = Sent(t) /\ s = Sent(t)' /\ Unread(t) = Len(s) /\ Unread(t)' = Len(s)
  BY <1>3 DEF Unread
<1>5. SlotsKept(t)'
  <2> SUFFICES ASSUME NEW b \in Slots, NEW o \in Objects, InSlot(t, b, o)'
               PROVE  /\ Followed(s, Purges, Allocations(b), Len(s))
                      /\ \/ InPool(t, b)' # None \/ Among(s, Allocations(b), Len(s))
                         \/ Dropped(t, b)'
    BY <1>4 DEF SlotsKept, Filled
  <2>1. /\ Followed(s, Purges, Allocations(b), Len(s))
        /\ \/ InPool(t, b) # None \/ Among(s, Allocations(b), Len(s))
           \/ Dropped(t, b)
    BY <1>3, <1>4 DEF SlotsKept, Filled
  <2>2. Dropped(t, b) => Dropped(t, b)'
    BY <1>1, DroppedStays
  <2> QED
    BY <1>3, <2>1, <2>2
<1>6. LockedCommitted(t)'
  <2> SUFFICES ASSUME NEW b \in Slots, NEW o \in Objects, InSlot(t, b, o)', locked'[t][b], Among(s, Carrying(o), Len(s))
               PROVE  ~Followed(s, Commits(b), Refills(b), Len(s))
    BY <1>4 DEF LockedCommitted
  <2> QED
    BY <1>2, <1>3, <1>4 DEF LockedCommitted
<1> QED
  BY <1>5, <1>6

(* The target sends m, and leaves the other slots alone.                   *)
LEMMA KeptSent ==
  ASSUME TypeOK, NEW t \in Targets, SlotsKept(t), LockedCommitted(t),
         UNCHANGED <<poolID, poolBuffers, hostBuffer, held, toWeb>>,
         NEW m, Sent(t)' = Append(Sent(t), m),
         \A b \in Slots, o \in Objects : InSlot(t, b, o)' =>
           \/ m \in Allocations(b) /\ m \notin Purges /\ ~locked'[t][b]
           \/ /\ InSlot(t, b, o) /\ locked'[t][b] = locked[t][b]
              /\ m \notin Refills(b) /\ m \notin Commits(b) /\ m \notin Carrying(o)
           \/ InSlot(t, b, o) /\ m \in Commits(b) /\ m \notin Refills(b) /\ ~locked[t][b]
  PROVE  SlotsKept(t)' /\ LockedCommitted(t)'
<1>1. PICK s, r : /\ s \in Seq(HostMessage) /\ s = Sent(t) /\ r = Sent(t)' /\ r = Append(s, m)
                  /\ Unread(t) = Len(s) /\ Unread(t)' = Len(r)
  BY PoolOf DEF Unread
<1>2. ASSUME NEW M
      PROVE  Among(r, M, Len(r)) <=> m \in M \/ Among(s, M, Len(s))
  BY ONLY <1>1, AmongAppended
<1>3. ASSUME NEW F, NEW M
      PROVE  Followed(r, F, M, Len(r)) <=> m \notin F /\ (m \in M \/ Followed(s, F, M, Len(s)))
  BY ONLY <1>1, FollowedAppended
<1>4. PICK p, pool : p = poolID[t] /\ p = poolID'[t] /\ pool = poolBuffers[p] /\ pool = poolBuffers'[p]
  OBVIOUS
<1>5. SlotsKept(t)'
  <2> SUFFICES ASSUME NEW b \in Slots, NEW o \in Objects, InSlot(t, b, o)'
               PROVE  /\ Followed(r, Purges, Allocations(b), Len(r))
                      /\ \/ pool[b] # None \/ Among(r, Allocations(b), Len(r))
                         \/ Dropped(t, b)'
    BY <1>1, <1>4 DEF SlotsKept, Filled, InPool
  <2>1. CASE m \in Allocations(b) /\ m \notin Purges
    BY <1>2, <1>3, <2>1
  <2>2. CASE InSlot(t, b, o) /\ m \notin Refills(b)
    <3>1. /\ Followed(s, Purges, Allocations(b), Len(s))
          /\ \/ pool[b] # None \/ Among(s, Allocations(b), Len(s))
             \/ Dropped(t, b)
      BY <1>1, <1>4, <2>2 DEF SlotsKept, Filled, InPool
    <3>2. m \notin Purges
      BY <2>2 DEF Refills
    <3>3. ASSUME Dropped(t, b)
          PROVE  Dropped(t, b)'
      <4>1. ~Among(s, Commits(b), Len(s)) /\ locked[t][b]
        BY <1>1, <3>3 DEF Dropped
      <4>2. m \notin Commits(b) /\ locked'[t][b]
        BY <2>2, <4>1 DEF Refills
      <4>3. ~Among(r, Commits(b), Len(r))
        BY <1>2, <4>1, <4>2
      <4>4. (~ReleaseInTransit(ProcessOf[t], poolID[t], b))'
        BY <3>3 DEF Dropped, ReleaseInTransit
      <4>5. (\A v \in Views, x \in Objects : HeldBy(v, x) /\ hostBuffer[x] # None =>
               \/ hostBuffer[x].pendingDelete
               \/ hostBuffer[x].poolID # poolID[t]
               \/ hostBuffer[x].bufferID # b)'
        BY <3>3 DEF Dropped, HeldBy
      <4> QED
        BY <1>1, <4>2, <4>3, <4>4, <4>5 DEF Dropped
    <3> QED
      BY <1>2, <1>3, <3>1, <3>2, <3>3
  <2> QED
    BY <2>1, <2>2
<1>6. LockedCommitted(t)'
  <2> SUFFICES ASSUME NEW b \in Slots, NEW o \in Objects, InSlot(t, b, o)', locked'[t][b], Among(r, Carrying(o), Len(r))
               PROVE  ~Followed(r, Commits(b), Refills(b), Len(r))
    BY <1>1 DEF LockedCommitted
  <2>1. CASE m \in Commits(b)
    BY <1>3, <2>1
  <2>2. CASE /\ InSlot(t, b, o) /\ locked'[t][b] = locked[t][b]
             /\ m \notin Refills(b) /\ m \notin Commits(b) /\ m \notin Carrying(o)
    <3>1. Among(s, Carrying(o), Len(s))
      BY <1>2, <2>2
    <3>2. ~Followed(s, Commits(b), Refills(b), Len(s))
      BY <1>1, <2>2, <3>1 DEF LockedCommitted
    <3> QED
      BY <1>3, <2>2, <3>2
  <2> QED
    BY <2>1, <2>2
<1> QED
  BY <1>5, <1>6

(* A step that moves neither messages nor buffers, and leaves every slot   *)
(* with a buffer as it was.                                                *)
LEMMA KeptSame ==
  ASSUME NEW t \in Targets, SlotsKept(t), LockedCommitted(t),
         UNCHANGED <<poolID, poolBuffers, hostBuffer, held, toHost, toWeb, webUp>>,
         \A b \in Slots, o \in Objects : InSlot(t, b, o)' => InSlot(t, b, o) /\ locked'[t][b] = locked[t][b]
  PROVE  SlotsKept(t)' /\ LockedCommitted(t)'
<1>1. PICK s : s = Sent(t) /\ s = Sent(t)' /\ Unread(t) = Len(s) /\ Unread(t)' = Len(s)
  BY DEF Sent, Unread
<1>2. \A b \in Slots : InPool(t, b)' = InPool(t, b)
  BY DEF InPool
<1>3. ASSUME NEW b \in Slots, locked'[t][b] = locked[t][b], Dropped(t, b)
      PROVE  Dropped(t, b)'
  <2>1. (~ReleaseInTransit(ProcessOf[t], poolID[t], b))'
    BY <1>3 DEF Dropped, ReleaseInTransit
  <2>2. (\A v \in Views, x \in Objects : HeldBy(v, x) /\ hostBuffer[x] # None =>
           \/ hostBuffer[x].pendingDelete
           \/ hostBuffer[x].poolID # poolID[t]
           \/ hostBuffer[x].bufferID # b)'
    BY <1>3 DEF Dropped, HeldBy
  <2> QED
    BY <1>1, <1>3, <2>1, <2>2 DEF Dropped
<1>4. SlotsKept(t)'
  <2> SUFFICES ASSUME NEW b \in Slots, NEW o \in Objects, InSlot(t, b, o)'
               PROVE  /\ Followed(s, Purges, Allocations(b), Len(s))
                      /\ \/ InPool(t, b)' # None \/ Among(s, Allocations(b), Len(s))
                         \/ Dropped(t, b)'
    BY <1>1 DEF SlotsKept, Filled
  <2>1. InSlot(t, b, o) /\ locked'[t][b] = locked[t][b]
    OBVIOUS
  <2>2. /\ Followed(s, Purges, Allocations(b), Len(s))
        /\ \/ InPool(t, b) # None \/ Among(s, Allocations(b), Len(s))
           \/ Dropped(t, b)
    BY <1>1, <2>1 DEF SlotsKept, Filled
  <2> QED
    BY <1>2, <1>3, <2>1, <2>2
<1>5. LockedCommitted(t)'
  <2> SUFFICES ASSUME NEW b \in Slots, NEW o \in Objects, InSlot(t, b, o)', locked'[t][b], Among(s, Carrying(o), Len(s))
               PROVE  ~Followed(s, Commits(b), Refills(b), Len(s))
    BY <1>1 DEF LockedCommitted
  <2>1. InSlot(t, b, o) /\ locked[t][b]
    OBVIOUS
  <2> QED
    BY <1>1, <2>1 DEF LockedCommitted
<1> QED
  BY <1>4, <1>5

(* The target itself.                                                      *)
LEMMA KeptTarget ==
  ASSUME OneTargetPerProcess, HandleInv, DrawsUnlocked, NEW t \in Targets, ~Young(t), SlotsKept(t), LockedCommitted(t),
         TargetStep(t), WebFrame
  PROVE  SlotsKept(t)' /\ LockedCommitted(t)'
<1> DEFINE w == ProcessOf[t]
           p == poolID[t]
<1>1. /\ TypeOK /\ w \in Processes /\ p \in PoolIDs
      /\ locked \in [Targets -> [Slots -> BOOLEAN]]
      /\ object \in [Targets -> [Slots -> Objects \cup {None}]]
      /\ webUp \in [Processes -> BOOLEAN]
      /\ toHost \in [Processes -> Seq(HostMessage)]
      /\ None \notin Objects /\ None \notin Slots
      /\ current[t] \in Slots \cup {None}
  BY PoolOf DEF HandleInv, PageInv, MapInv, HeapInv, TypeOK, IpcTypeOK, WebTypeOK
<1>2. UNCHANGED <<hostBuffer, held, poolBuffers>>
  BY DEF WebFrame, hostVars, appVars
<1>3. ASSUME NEW m, SendToHost(w, m)
      PROVE  Sent(t)' = Append(Sent(t), m)
  BY <1>1, <1>3 DEF SendToHost, Sent
<1>4. CASE \E b \in Slots, o \in Objects : Unreferenced(o) /\ FrameAllocates(t, b, o)
  <2>1. PICK b \in Slots, o \in Objects : Unreferenced(o) /\ FrameAllocates(t, b, o)
    BY <1>4
  <2>2. PICK m : m = BufferAllocationMsg(p, b, o)
    OBVIOUS
  <2>3. /\ UNCHANGED <<poolID, locked, webUp, toWeb>> /\ object' = [object EXCEPT ![t][b] = o]
        /\ Sent(t)' = Append(Sent(t), m) /\ ~locked[t][b]
    BY <1>3, <2>1, <2>2 DEF FrameAllocates, FirstUnlocked
  <2>4. /\ m \notin Purges
        /\ \A c \in Slots : (m \in Allocations(c) <=> c = b) /\ m \notin Commits(c)
        /\ \A x \in Objects : m \in Carrying(x) <=> x = o
    BY <1>1, <2>2, MessageKinds
  <2>5. ASSUME NEW c \in Slots, NEW x \in Objects, InSlot(t, c, x)'
        PROVE  \/ m \in Allocations(c) /\ m \notin Purges /\ ~locked'[t][c]
               \/ /\ InSlot(t, c, x) /\ locked'[t][c] = locked[t][c]
                  /\ m \notin Refills(c) /\ m \notin Commits(c) /\ m \notin Carrying(x)
    <3>1. CASE c = b
      BY <2>3, <2>4, <3>1
    <3>2. CASE c # b
      <4>1. InSlot(t, c, x)
        BY <1>1, <2>3, <2>5, <3>2 DEF InSlot
      <4>2. x # o
        BY <2>1, <4>1 DEF Unreferenced, InSlot
      <4> QED
        BY <2>3, <2>4, <3>2, <4>1, <4>2 DEF Refills
    <3> QED
      BY <3>1, <3>2
  <2> QED
    BY <1>1, <1>2, <2>3, <2>5, KeptSent
<1>5. CASE FrameRendered(t) /\ object[t][current[t]] # None
  <2>1. PICK b \in Slots : b = current[t]
    BY <1>1, <1>5 DEF FrameRendered
  <2>2. PICK m : m = BufferCommitMsg(p, b)
    OBVIOUS
  <2>3. /\ UNCHANGED <<poolID, object, webUp, toWeb>> /\ locked' = [locked EXCEPT ![t][b] = TRUE]
        /\ Sent(t)' = Append(Sent(t), m) /\ ~locked[t][b]
    BY <1>3, <1>5, <2>1, <2>2 DEF FrameRendered, DrawsUnlocked
  <2>4. ASSUME NEW c \in Slots, NEW x \in Objects
        PROVE  m \notin Refills(c) /\ m \notin Carrying(x) /\ (m \in Commits(c) <=> c = b)
    BY <1>1, <2>2, MessageKinds DEF Refills
  <2>5. ASSUME NEW c \in Slots, NEW x \in Objects, InSlot(t, c, x)'
        PROVE  \/ /\ InSlot(t, c, x) /\ locked'[t][c] = locked[t][c]
                  /\ m \notin Refills(c) /\ m \notin Commits(c) /\ m \notin Carrying(x)
               \/ InSlot(t, c, x) /\ m \in Commits(c) /\ m \notin Refills(c) /\ ~locked[t][c]
    <3>1. InSlot(t, c, x)
      BY <2>3, <2>5 DEF InSlot
    <3>2. c # b => locked'[t][c] = locked[t][c]
      BY <1>1, <2>3
    <3> QED
      BY <2>3, <2>4, <3>1, <3>2
  <2> QED
    BY <1>1, <1>2, <2>3, <2>5, KeptSent
<1>6. CASE Resize(t) \/ Deinitialize(t) \/ FrameAborts(t)
  <2>1. \A c \in Slots, x \in Objects : ~InSlot(t, c, x)'
    BY <1>1, <1>6 DEF Resize, Deinitialize, FrameAborts, DestroyBufferPool, CloseWeb, InSlot
  <2> QED
    BY <2>1 DEF SlotsKept, LockedCommitted, InSlot
<1>7. CASE FrameRendered(t) /\ object[t][current[t]] = None
  <2>1. locked' = [locked EXCEPT ![t][current[t]] = TRUE] /\ UNCHANGED <<poolID, toHost, object, toWeb, webUp>>
    BY <1>7 DEF FrameRendered
  <2>2. ASSUME NEW b \in Slots, NEW o \in Objects, InSlot(t, b, o)'
        PROVE  InSlot(t, b, o) /\ locked'[t][b] = locked[t][b]
    <3>1. b # current[t]
      BY <1>1, <1>7, <2>1, <2>2 DEF InSlot
    <3> QED
      BY <1>1, <2>1, <2>2, <3>1 DEF InSlot
  <2> QED
    BY <1>2, <2>1, <2>2, KeptSame
<1>8. CASE DestroyTarget(t) \/ \E b \in Slots : FrameReuses(t, b) \/ FrameFailsToAllocate(t, b)
  <2>1. UNCHANGED <<poolID, toHost, locked, object, toWeb, webUp>>
    BY <1>8 DEF DestroyTarget, FrameReuses, FrameFailsToAllocate, ipcVars
  <2> QED
    BY <1>2, <2>1, KeptSame DEF InSlot
<1> QED
  BY <1>4, <1>5, <1>6, <1>7, <1>8 DEF TargetStep, CreateTarget, Initialize, ReceiveReply, Young

(* The proxy of the target reads: a commit without a view empties a slot   *)
(* of the pool.  Nothing of that slot is elsewhere, as a slot is committed *)
(* once and what comes back for it finds its buffer back.                  *)
LEMMA KeptReceived ==
  ASSUME OneTargetPerProcess, OwnerInv, HeapInv', NEW t \in Targets, ~Young(t),
         ProxyStep(ProcessOf[t]), HostFrame
  PROVE  SlotsKept(t)' /\ LockedCommitted(t)'
<1>1. /\ TypeOK /\ HandleInv /\ ProcessOf[t] \in Processes /\ None \notin Objects
      /\ SlotsKept(t) /\ LockedCommitted(t) /\ ReleasesFresh(t) /\ CommittedOnce(t) /\ UnlockedReturned(t)
  BY PoolOf DEF OwnerInv, UseInv, UseOf, HandleInv, PageInv, MapInv, HeapInv
<1>2. PICK w, p, h : w = ProcessOf[t] /\ p = poolID[t] /\ h = Head(Sent(t))
  OBVIOUS
<1>3. /\ UNCHANGED <<webVars, webUp, toWeb, toView, viewBackendMap>>
      /\ Sent(t) # <<>> /\ Sent(t)' = Tail(Sent(t)) /\ h.poolID = p
      /\ CommitToView(w) => viewBackendMap[p] # None
      /\ CommitToView(w) \/ UNCHANGED held
      /\ \A b \in Slots :
           \/ h \in Purges
           \/ h \in Allocations(b) /\ poolBuffers'[p][b] # None
           \/ h \notin Allocations(b) /\ poolBuffers'[p][b] = poolBuffers[p][b]
           \/ h \in Commits(b) /\ viewBackendMap[p] = None /\ CommitWithoutView(w)
  BY <1>1, <1>2, PoolRead
<1>4. UNCHANGED <<poolID, locked, object>> /\ poolID'[t] = p
  BY <1>2, <1>3 DEF webVars
<1>5. PICK s, r : s \in Seq(HostMessage) /\ s = Sent(t) /\ r = Sent(t)' /\ r = Tail(s) /\ s # <<>> /\ h = Head(s)
  BY <1>1, <1>2, <1>3, PoolOf
<1>6. /\ Len(r) \in Nat /\ Len(s) = Len(r) + 1 /\ Unread(t) = Len(s) /\ Unread(t)' = Len(r) /\ Len(r) \in 0 .. Len(r)
      /\ \A k \in 1 .. Len(r) : r[k] = s[k + 1] /\ k + 1 \in 1 .. Len(s) /\ k - 1 \in 0 .. Len(r) /\ k = (k - 1) + 1
  BY <1>5, ReadLength DEF Unread
<1>7. ASSUME NEW M, NEW n \in 0 .. Len(r)
      PROVE  Among(s, M, n + 1) <=> h \in M \/ Among(r, M, n)
  BY ONLY <1>5, <1>7, AmongRead
<1>8. ASSUME NEW F, NEW M, NEW n \in 0 .. Len(r)
      PROVE  Followed(s, F, M, n + 1) <=> Followed(r, F, M, n) /\ (h \in F => Among(r, M, n))
  BY ONLY <1>5, <1>8, FollowedRead
<1>9. PICK pool, left : pool = poolBuffers[p] /\ left = poolBuffers'[p]
  OBVIOUS
\* What a commit took out of the pool comes back before the slot is committed again.
<1>10. ASSUME NEW b \in Slots, NEW n \in 0 .. Len(r), h \in Commits(b),
              Followed(s, Commits(b), Refills(b), n + 1), Followed(s, Purges, Allocations(b), Len(s))
       PROVE  Among(r, Allocations(b), Len(r))
  <2>1. Among(r, Refills(b), n) /\ Followed(r, Purges, Allocations(b), Len(r))
    BY <1>6, <1>8, <1>10
  <2>2. PICK j \in 1 .. n : r[j] \in Purges \/ r[j] \in Allocations(b)
    BY <2>1 DEF Among, Refills
  <2>3. j \in 1 .. Len(r)
    BY <1>6, <1>10, <2>2
  <2>4. CASE r[j] \in Purges
    <3>1. PICK i \in j + 1 .. Len(r) : r[i] \in Allocations(b)
      BY <2>1, <2>3, <2>4 DEF Followed
    <3>2. i \in 1 .. Len(r)
      BY <1>6, <2>3, <3>1
    <3> QED
      BY <3>1, <3>2 DEF Among
  <2> QED
    BY <2>2, <2>3, <2>4 DEF Among
\* A slot that had a buffer still has it, or lost it to a commit without a view.
<1>11. ASSUME NEW b \in Slots, Followed(s, Purges, Allocations(b), Len(s)),
              pool[b] # None \/ Among(s, Allocations(b), Len(s))
       PROVE  \/ left[b] # None
              \/ Among(r, Allocations(b), Len(r))
              \/ h \in Commits(b) /\ viewBackendMap[p] = None /\ CommitWithoutView(w)
  <2>1. h \in Purges => Among(r, Allocations(b), Len(r))
    BY <1>6, <1>8, <1>11
  <2>2. pool[b] # None \/ h \in Allocations(b) \/ Among(r, Allocations(b), Len(r))
    BY <1>6, <1>7, <1>11
  <2> QED
    BY <1>3, <1>9, <2>1, <2>2
<1>12. ASSUME NEW b \in Slots, h \notin Commits(b),
              \A v \in Views, o \in Objects : HeldBy(v, o) /\ hostBuffer[o] # None =>
                hostBuffer[o].pendingDelete \/ hostBuffer[o].poolID # p \/ hostBuffer[o].bufferID # b
       PROVE  \A v \in Views, o \in Objects : HeldBy(v, o)' /\ hostBuffer'[o] # None =>
                hostBuffer'[o].pendingDelete \/ hostBuffer'[o].poolID # p \/ hostBuffer'[o].bufferID # b
  <2> SUFFICES ASSUME NEW v \in Views, NEW o \in Objects, HeldBy(v, o)', hostBuffer'[o] # None
               PROVE  hostBuffer'[o].pendingDelete \/ hostBuffer'[o].poolID # p \/ hostBuffer'[o].bufferID # b
    OBVIOUS
  <2>1. \/ /\ HeldBy(v, o) /\ hostBuffer[o] # None
           /\ hostBuffer'[o].poolID = hostBuffer[o].poolID
           /\ hostBuffer'[o].bufferID = hostBuffer[o].bufferID
           /\ hostBuffer[o].pendingDelete => hostBuffer'[o].pendingDelete
        \/ CommitToView(w) /\ hostBuffer'[o].bufferID = h.bufferID
    BY <1>1, <1>2, HeldRead DEF Sent
  <2>2. CommitToView(w) => h \in Commits(h.bufferID)
    BY <1>1, <1>2, ProxyMessage DEF HandleInv, PageInv, MapInv, Sent
  <2>3. h \in Commits(h.bufferID) /\ h.bufferID = b => h \in Commits(b)
    OBVIOUS
  <2> QED
    BY <1>12, <2>1, <2>2, <2>3
<1>13. ASSUME NEW b \in Slots, h \in Commits(b), CommitWithoutView(w),
              Followed(s, Purges, Allocations(b), Len(s)), ~Among(r, Allocations(b), Len(r)),
              NEW o \in Objects, InSlot(t, b, o)
       PROVE  Dropped(t, b)'
  <2>1. ~Returned(t, b, o)
    <3>1. ~Followed(s, Commits(b), Refills(b), Len(s))
      BY <1>6, <1>10, <1>13
    <3> QED
      BY <1>5, <1>6, <3>1 DEF Returned
  <2>2. locked'[t][b]
    BY <1>1, <1>4, <1>13, <2>1 DEF UnlockedReturned
  <2>3. (~ReleaseInTransit(ProcessOf[t], poolID[t], b))'
    <3>1. ~ReleaseInTransit(ProcessOf[t], poolID[t], b)
      BY <1>1, <1>13, <2>1 DEF ReleasesFresh
    <3> QED
      BY <1>3, <1>4, <3>1 DEF ReleaseInTransit
  <2>4. ~Among(r, Commits(b), Len(r))
    <3> SUFFICES ASSUME NEW k \in 1 .. Len(r), r[k] \in Commits(b)
                 PROVE  FALSE
      BY DEF Among
    <3>1. PICK n \in 0 .. Len(r) : n = k - 1 /\ n + 1 = (k + 1) - 1
      BY <1>6
    <3>2. Followed(s, Commits(b), Refills(b), n + 1)
      <4>1. s[k + 1] \in Commits(b) /\ k + 1 \in 1 .. Unread(t)
        BY <1>6
      <4> QED
        BY <1>1, <1>5, <3>1, <4>1 DEF CommittedOnce
    <3> QED
      BY <1>10, <1>13, <3>2
  <2>5. left[b] = None
    <3>1. TypeOK /\ h.bufferID = b /\ b \in Slots /\ p \in PoolIDs
      BY <1>1, <1>2, <1>13, PoolOf DEF Commits
    <3>2. poolBuffers \in [PoolIDs -> [Slots -> Objects \cup {None}]]
      BY <3>1 DEF TypeOK, HostTypeOK
    <3>3. poolBuffers' = [poolBuffers EXCEPT ![p][b] = None]
      BY <1>2, <1>3, <1>13, <3>1 DEF CommitWithoutView, Sent
    <3> QED
      BY <1>9, <3>1, <3>2, <3>3
  <2>6. \A v \in Views, x \in Objects : HeldBy(v, x)' /\ hostBuffer'[x] # None =>
          hostBuffer'[x].pendingDelete \/ hostBuffer'[x].poolID # p \/ hostBuffer'[x].bufferID # b
    <3> SUFFICES ASSUME NEW x \in Objects, hostBuffer'[x] # None, ~hostBuffer'[x].pendingDelete,
                        hostBuffer'[x].poolID = p, hostBuffer'[x].bufferID = b
                 PROVE  FALSE
      OBVIOUS
    <3>1. PICK q \in PoolIDs, c \in Slots : poolBuffers'[q][c] = x
      <4>1. MarkedOutsideSlots'
        BY DEF HeapInv, HostHeapConsistent
      <4> QED
        BY <4>1 DEF MarkedOutsideSlots
    <3>2. q = p /\ c = b
      <4>1. SlotsPointToLive'
        BY DEF HeapInv, HostHeapConsistent
      <4> QED
        BY <1>1, <3>1, <4>1 DEF SlotsPointToLive
    <3> QED
      BY <1>1, <1>9, <2>5, <3>1, <3>2
  <2>7. (\A v \in Views, x \in Objects : HeldBy(v, x) /\ hostBuffer[x] # None =>
           \/ hostBuffer[x].pendingDelete
           \/ hostBuffer[x].poolID # poolID[t]
           \/ hostBuffer[x].bufferID # b)'
    BY <1>4, <2>6 DEF HeldBy
  <2> QED
    BY <1>5, <1>6, <2>2, <2>3, <2>4, <2>7 DEF Dropped
<1>14. ASSUME NEW b \in Slots, Dropped(t, b)
       PROVE  Dropped(t, b)'
  <2>1. /\ locked[t][b] /\ ~ReleaseInTransit(w, p, b) /\ ~Among(s, Commits(b), Len(s))
        /\ \A v \in Views, o \in Objects : HeldBy(v, o) /\ hostBuffer[o] # None =>
             hostBuffer[o].pendingDelete \/ hostBuffer[o].poolID # p \/ hostBuffer[o].bufferID # b
    BY <1>2, <1>5, <1>6, <1>14 DEF Dropped
  <2>2. h \notin Commits(b) /\ ~Among(r, Commits(b), Len(r))
    BY <1>6, <1>7, <2>1
  <2>3. (~ReleaseInTransit(ProcessOf[t], poolID[t], b))'
    BY <1>2, <1>3, <1>4, <2>1 DEF ReleaseInTransit
  <2>4. (\A v \in Views, x \in Objects : HeldBy(v, x) /\ hostBuffer[x] # None =>
           \/ hostBuffer[x].pendingDelete
           \/ hostBuffer[x].poolID # poolID[t]
           \/ hostBuffer[x].bufferID # b)'
    <3>1. \A v \in Views, x \in Objects : HeldBy(v, x)' /\ hostBuffer'[x] # None =>
            hostBuffer'[x].pendingDelete \/ hostBuffer'[x].poolID # p \/ hostBuffer'[x].bufferID # b
      BY <1>12, <2>1, <2>2
    <3> QED
      BY <1>4, <3>1 DEF HeldBy
  <2> QED
    BY <1>4, <1>5, <1>6, <2>1, <2>2, <2>3, <2>4 DEF Dropped
<1>15. SlotsKept(t)'
  <2> SUFFICES ASSUME NEW b \in Slots, NEW o \in Objects, InSlot(t, b, o)
               PROVE  /\ Followed(r, Purges, Allocations(b), Len(r))
                      /\ \/ left[b] # None \/ Among(r, Allocations(b), Len(r))
                         \/ Dropped(t, b)'
    BY <1>3, <1>4, <1>5, <1>6, <1>9 DEF SlotsKept, Filled, InPool, InSlot
  <2>1. /\ Followed(s, Purges, Allocations(b), Len(s))
        /\ \/ pool[b] # None \/ Among(s, Allocations(b), Len(s))
           \/ Dropped(t, b)
    BY <1>1, <1>2, <1>5, <1>6, <1>9 DEF SlotsKept, Filled, InPool
  <2>2. Followed(r, Purges, Allocations(b), Len(r))
    BY <1>6, <1>8, <2>1
  <2>3. CASE pool[b] # None \/ Among(s, Allocations(b), Len(s))
    BY <1>11, <1>13, <2>1, <2>2, <2>3
  <2> QED
    BY <1>14, <2>1, <2>2, <2>3
<1>16. LockedCommitted(t)'
  <2> SUFFICES ASSUME NEW b \in Slots, NEW o \in Objects, InSlot(t, b, o), locked[t][b], Among(r, Carrying(o), Len(r))
               PROVE  ~Followed(r, Commits(b), Refills(b), Len(r))
    BY <1>3, <1>4, <1>5, <1>6 DEF LockedCommitted, InSlot
  <2>1. Among(s, Carrying(o), Len(s))
    BY <1>6, <1>7
  <2>2. ~Followed(s, Commits(b), Refills(b), Len(s))
    BY <1>1, <1>5, <1>6, <2>1 DEF LockedCommitted
  <2>3. Among(r, Refills(b), Len(r))
    <3>1. PICK k \in 1 .. Len(r) : r[k] \in Carrying(o)
      BY DEF Among
    <3>2. k + 1 \in 1 .. Len(toHost[w]) /\ r[k] = toHost[w][k + 1]
      BY <1>2, <1>5, <1>6 DEF Sent
    <3>3. Brings(w, k + 1, o)
      BY <3>1, <3>2 DEF Brings, Carrying
    <3>4. toHost[w][k + 1].bufferID = b
      BY <1>1, <1>2, <3>2, <3>3 DEF HandleInv, HandlesPlaced
    <3>5. r[k] \in Allocations(b)
      BY <3>1, <3>2, <3>4 DEF Carrying, Allocations
    <3> QED
      BY <3>5 DEF Among, Refills
  <2> QED
    BY <1>6, <1>8, <2>2, <2>3
<1> QED
  BY <1>15, <1>16

-----------------------------------------------------------------------------
(* The refinement.                                                         *)

\* Every release on its way finds its buffer back.
FreshReleases == \A t \in Targets : ~Young(t) => ReleasesFresh(t)

(* Every step keeps the invariant: what a release unlocks is returned, and *)
(* a new slot is not locked.                                               *)
LEMMA OwnerStep ==
  ASSUME OneTargetPerProcess, PoolInv, UpAttached, OwnerInv, UseInv', FreshReleases', [Next]_vars
  PROVE  OwnerInv'
<1>1. TypeOK /\ UseInv /\ HandleInv /\ DrawsUnlocked
  BY DEF OwnerInv, UseInv, HandleInv, PageInv, MapInv, HeapInv
<1>2. HeapInv'
  BY DEF UseInv, HandleInv, PageInv, MapInv
<1>3. ASSUME NEW t \in Targets, ~Young(t)'
      PROVE  (SlotsKept(t) /\ Unmarked(t) /\ LockedCommitted(t))'
  <2>1. CASE Young(t)
    <3>1. ReceiveReply(t) /\ WebFrame
      BY <1>1, <1>3, <2>1, Answering
    <3>2. \A b \in Slots : object'[t][b] = None
      BY <1>1, <2>1, <3>1, FreshPool
    <3>3. \A b \in Slots, o \in Objects : ~InSlot(t, b, o)'
      BY <3>2, IpcAssumption DEF InSlot
    <3> QED
      BY <3>3 DEF SlotsKept, Unmarked, LockedCommitted, InSlot
  <2>2. CASE ~Young(t)
    <3>1. SlotsKept(t) /\ Unmarked(t) /\ LockedCommitted(t) /\ NewestLast(t)
      BY <2>2 DEF OwnerInv, UseInv, UseOf
    <3>2. Unmarked(t)'
      <4> SUFFICES ASSUME NEW b \in Slots, NEW o \in Objects, InSlot(t, b, o)', hostBuffer'[o] # None
                   PROVE  ~hostBuffer'[o].pendingDelete
        BY DEF Unmarked
      <4>1. CASE InSlot(t, b, o)
        <5>1. hostBuffer[o] # None => ~hostBuffer[o].pendingDelete
          BY <3>1, <4>1 DEF Unmarked
        <5> QED
          BY <1>1, <2>2, <3>1, <4>1, <5>1, UnmarkedKept
      <4>2. CASE ~InSlot(t, b, o)
        BY <1>1, <2>2, <4>2, NewInSlot
      <4> QED
        BY <4>1, <4>2
    <3>3. CASE TargetStep(t) /\ WebFrame
      BY <1>1, <2>2, <3>1, <3>2, <3>3, KeptTarget
    <3>4. CASE ProxyStep(ProcessOf[t]) /\ HostFrame
      BY <1>1, <1>2, <2>2, <3>2, <3>4, KeptReceived
    <3>5. CASE ~(TargetStep(t) /\ WebFrame) /\ ~(ProxyStep(ProcessOf[t]) /\ HostFrame)
      BY <1>1, <2>2, <3>1, <3>2, <3>5, KeptOther
    <3> QED
      BY <3>3, <3>4, <3>5
  <2> QED
    BY <2>1, <2>2
<1> QED
  BY <1>3 DEF OwnerInv, FreshReleases

(* At the start no target is answered, and no buffer anywhere.             *)
LEMMA OwnerStart == Init => OwnerInv /\ Ownership!Init
<1> SUFFICES ASSUME Init PROVE OwnerInv /\ Ownership!Init
  OBVIOUS
<1>1. \A t \in Targets : Young(t)
  BY DEF Init, WebInit, Young
<1>2. OwnerInv
  BY <1>1, UseInit DEF OwnerInv
<1>3. ASSUME NEW o \in Objects
      PROVE  Owner(o) = "nobody" /\ ~Pooled(o)
  <2>1. /\ \A t \in Targets : ~webUp[ProcessOf[t]]
        /\ \A v \in Views : held[v] = <<>>
        /\ \A w \in Processes : toHost[w] = <<>>
    BY IpcAssumption, UiLoopAssumption DEF Init, IpcInit, HostInit
  <2>2. ~Drawn(o) /\ ~Pooled(o) /\ ~Locked(o) /\ ~Returning(o)
    BY <2>1 DEF Drawn, Rendering, Pooled, Locked, Returning, InSlot
  <2>3. ~Shown(o) /\ ~UnderWay(o)
    BY <2>1, EmptyQueue DEF Shown, HeldBy, UnderWay
  <2> QED
    BY <2>2, <2>3 DEF Owner
<1>4. OwnerOf = [o \in Objects |-> "nobody"] /\ InPools = {}
  BY <1>3 DEF OwnerOf, InPools
<1> QED
  BY <1>2, <1>4 DEF Ownership!Init

(* The invariant holds where the exclusive use of buffers does and every   *)
(* release on its way finds its buffer back.                               *)
LEMMA OwnerKept ==
  ASSUME OneTargetPerProcess
  PROVE  Spec /\ []UseInv /\ []FreshReleases => []OwnerInv
<1>1. PoolInv /\ LockInv /\ OwnerInv /\ UseInv' /\ FreshReleases' /\ [Next]_vars => OwnerInv'
  BY OwnerStep DEF LockInv
<1> QED
  BY <1>1, OwnerStart, Background, PTL DEF Spec

(* The invariant makes every step one of the ownership.                    *)
LEMMA OwnershipHolds ==
  ASSUME OneTargetPerProcess
  PROVE  Spec /\ []OwnerInv => ImplementsOwnership
<1>1. OwnerInv => OwnersKnown
  BY OwnersOf
<1>2. LockInv /\ OwnerInv /\ OwnersKnown' /\ [Next]_vars => [Ownership!Next]_<<OwnerOf, InPools>>
  BY OwnershipStep DEF LockInv
<1> QED
  BY <1>1, <1>2, OwnerStart, Background, PTL DEF Spec, ImplementsOwnership, Ownership!Spec

(* Where no target is resized, a release is on its way for a slot that is  *)
(* locked and was not committed again.                                     *)
LEMMA SteadyFresh == SteadyInv => FreshReleases
<1> SUFFICES ASSUME SteadyInv, NEW t \in Targets, ~Young(t), NEW b \in Slots, NEW o \in Objects,
                    InSlot(t, b, o), ReleaseInTransit(ProcessOf[t], poolID[t], b)
             PROVE  Returned(t, b, o)
  BY DEF FreshReleases, ReleasesFresh
<1>1. TargetsRegistered /\ ReleasesReturned(t)
  BY DEF SteadyInv, SteadyOf, UseInv, HandleInv, PageInv
<1>2. Live(t)
  BY <1>1, IpcAssumption DEF TargetsRegistered, InSlot, Live
<1>3. ~Among(Sent(t), Commits(b), Unread(t)) /\ Back(o)
  BY <1>1, <1>2 DEF ReleasesReturned
<1> QED
  BY <1>3 DEF Returned, Followed, Among

(* Where one target and its application take turns, no commit is on its    *)
(* way while a release is.                                                 *)
LEMMA TurnFresh == TurnInv => FreshReleases
<1> SUFFICES ASSUME TurnInv, NEW t \in Targets, ~Young(t), NEW b \in Slots, NEW o \in Objects,
                    InSlot(t, b, o), ReleaseInTransit(ProcessOf[t], poolID[t], b)
             PROVE  Returned(t, b, o)
  BY DEF FreshReleases, ReleasesFresh
<1>1. TargetsRegistered /\ OneByOne(t) /\ ReleasesBack(t)
  BY DEF TurnInv, UseInv, HandleInv, PageInv
<1>2. Live(t)
  BY <1>1, IpcAssumption DEF TargetsRegistered, InSlot, Live
<1>3. Back(o)
  BY <1>1, <1>2 DEF ReleasesBack
<1>4. Unseen(t) # <<>>
  BY EmptyQueue DEF Unseen, ReleaseInTransit
<1>5. ~Committing(Sent(t))
  BY <1>1, <1>4 DEF OneByOne
<1>6. \A k \in 1 .. Unread(t) : Sent(t)[k] \notin Commits(b)
  BY <1>5 DEF Committing, Among, AnyCommit, Commits, Unread
<1> QED
  BY <1>3, <1>6 DEF Returned, Followed

(* One target and an application that shows one buffer at a time keep the  *)
(* invariant, resizes included: the slots of the target and of its pool    *)
(* have the same buffers, or the messages that make it so are on their     *)
(* way, and what comes back is the buffer of its slot.                     *)
THEOREM OwnerInvariant ==
  ASSUME SingleTarget, MaxHeld = 1
  PROVE  Spec => []OwnerInv
<1>1. OneTargetPerProcess
  BY DEF SingleTarget, OneTargetPerProcess
<1>2. Spec /\ []UseInv /\ []FreshReleases => []OwnerInv
  BY <1>1, OwnerKept
<1>3. TurnInv => UseInv
  BY DEF TurnInv
<1> QED
  BY <1>2, <1>3, TurnInvariant, TurnFresh, PTL

(* Two processes, the sockets between them and the application pass each   *)
(* hardware buffer on as BufferOwnership says, one party having it at a    *)
(* time: the messages, the flags `locked' of both processes, PoolPurge,    *)
(* pendingDelete and the map of pools implement that round, resizes        *)
(* included, of one target and an application that shows one buffer at a   *)
(* time (renderer-backend-egl.cpp:319, 418, renderer-host.cpp:146, 203,    *)
(* 237).                                                                   *)
THEOREM OwnershipInTurn ==
  ASSUME SingleTarget, MaxHeld = 1
  PROVE  Spec => ImplementsOwnership
<1>1. OneTargetPerProcess
  BY DEF SingleTarget, OneTargetPerProcess
<1>2. Spec /\ []OwnerInv => ImplementsOwnership
  BY <1>1, OwnershipHolds
<1> QED
  BY <1>2, OwnerInvariant, PTL

(* They do so for any number of targets, one to a process, and of buffers  *)
(* the application holds, if no target is resized.                         *)
THEOREM OwnershipSteady ==
  ASSUME OneTargetPerProcess, ResizeBacklog = 0
  PROVE  Spec => ImplementsOwnership
<1>1. SteadyInv => UseInv
  BY DEF SteadyInv
<1> QED
  BY <1>1, SteadyInvariant, SteadyFresh, OwnerKept, OwnershipHolds, PTL
=============================================================================
