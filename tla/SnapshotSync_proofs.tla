-------------------------- MODULE SnapshotSync_proofs --------------------------
(***************************************************************************)
(* A follower that is brought up to date by snapshots and by its log ends  *)
(* with the value its index stands for, for every length of the log and    *)
(* every number of failures.                                               *)
(*                                                                         *)
(* TypeInv bounds the indexes and what messages reach.  The leader's part  *)
(* of it already says that the leader can always serve.                    *)
(*                                                                         *)
(* SyncInv is about the follower as long as handler and commit thread keep *)
(* apart (crossed = {}).  The thread may then still be at work when the    *)
(* last object of a snapshot arrives, and snapshots of which only object 0 *)
(* has come hold values that are not their own.  Snapshots are of          *)
(* multiples of the distance, the leader's and the follower's alike: the   *)
(* thread cannot overtake the one that is being installed, as it has to    *)
(* stop at the same index to make one of its own (Installing), and the     *)
(* handler, which holds lock_, lets it go on only when it has finished.    *)
(***************************************************************************)
EXTENDS SnapshotSync, FiniteSetTheorems, SequenceTheorems,
        WellFoundedInduction, TLAPS

-----------------------------------------------------------------------------
(* Operators.                                                              *)

Value == Seq(1..MaxIndex)

\* the value after k entries, and after one more
LEMMA PrefixType ==
    ASSUME SnapshotAssumption, NEW k \in Index
    PROVE  Prefix(k) \in Value
<1>1. k \in Nat /\ \A i \in 1..k : i \in 1..MaxIndex
  BY DEF SnapshotAssumption, Index
<1>2. Prefix(k) \in [1..k -> 1..MaxIndex]
  BY <1>1 DEF Prefix
<1> QED  BY <1>1, <1>2, SeqDef DEF Value

LEMMA PrefixNext ==
    ASSUME NEW k \in Nat
    PROVE  Append(Prefix(k), k + 1) = Prefix(k + 1)
<1>1. Prefix(k) \in Seq(Nat) /\ Len(Prefix(k)) = k
  <2>1. Prefix(k) \in [1..k -> Nat]
    BY DEF Prefix
  <2>2. Prefix(k) \in Seq(Nat)
    BY <2>1, SeqDef
  <2> QED  BY <2>1, <2>2, LenProperties
<1>2. /\ Append(Prefix(k), k + 1) \in Seq(Nat)
      /\ Len(Append(Prefix(k), k + 1)) = k + 1
      /\ \A i \in 1..k : Append(Prefix(k), k + 1)[i] = Prefix(k)[i]
      /\ Append(Prefix(k), k + 1)[k + 1] = k + 1
  BY <1>1, AppendProperties
<1>3. Append(Prefix(k), k + 1) = [i \in 1..k + 1 |-> Append(Prefix(k), k + 1)[i]]
  BY <1>2, LenProperties
<1>4. \A i \in 1..k + 1 : Append(Prefix(k), k + 1)[i] = i
  <2> TAKE i \in 1..k + 1
  <2>1. i \in 1..k => Prefix(k)[i] = i
    BY DEF Prefix
  <2> QED  BY <1>2, <2>1
<1> QED  BY <1>3, <1>4 DEF Prefix

\* a set of indexes has a largest one
LEMMA LargestIndex ==
    ASSUME NEW n \in Nat, NEW S \in SUBSET (1..n), S # {}
    PROVE  /\ Max(S) \in S
           /\ \A y \in S : y <= Max(S)
<1> DEFINE T == {k \in 0..n : n - k \in S}
<1>1. T \in SUBSET Nat /\ T # {}
  <2>1. PICK s \in S : s \in 1..n
    OBVIOUS
  <2>2. n - s \in 0..n /\ n - (n - s) = s
    BY <2>1
  <2>3. n - s \in T
    BY <2>2
  <2>4. T \subseteq Nat
    OBVIOUS
  <2> HIDE DEF T
  <2> QED  BY <2>3, <2>4
<1>2. PICK t \in T : \A u \in T : ~ (<<u, t>> \in OpToRel(<, Nat))
  <2> HIDE DEF T
  <2> QED  BY <1>1, NatLessThanWellFounded, WFMin
<1>3. PICK k \in S : t = n - k /\ k \in 1..n
  OBVIOUS
<1>4. ASSUME NEW y \in S
      PROVE  k >= y
  <2>1. n - y \in T /\ n - y \in Nat /\ t \in Nat /\ y \in 1..n
    OBVIOUS
  <2>2. ~ (n - y < t)
    <3> HIDE DEF T
    <3> QED  BY <1>2, <2>1 DEF OpToRel
  <2> QED  BY <1>3, <2>1, <2>2
<1> QED  BY <1>3, <1>4 DEF Max

\* of the snapshots a state machine keeps, the largest is one
LEMMA NewestKept ==
    ASSUME SnapshotAssumption, NEW S \in SUBSET (1..MaxIndex), NEW k \in S,
           \A y \in S : y <= k
    PROVE  k \in Newest(S)
<1>1. \A y \in S : y \in Nat
  BY DEF SnapshotAssumption
<1>2. {y \in S : y >= k} = {k}
  <2>1. \A y \in S : y >= k <=> y = k
    BY <1>1
  <2> QED  BY <2>1
<1>3. Cardinality({y \in S : y >= k}) = 1
  BY <1>2, FS_Singleton
<1> QED  BY <1>3 DEF Newest, SnapshotAssumption

LEMMA NewestSubset ==
    ASSUME NEW S
    PROVE  Newest(S) \subseteq S
BY DEF Newest

SnapMap == UNION {[S -> Value] : S \in SUBSET (1..MaxIndex)}

LEMMA WithSnapshotType ==
    ASSUME SnapshotAssumption,
           NEW f \in SnapMap, NEW k \in 1..MaxIndex, NEW v \in Value
    PROVE  /\ WithSnapshot(f, k, v) \in SnapMap
           /\ DOMAIN WithSnapshot(f, k, v) \subseteq DOMAIN f \union {k}
           /\ DOMAIN WithSnapshot(f, k, v) # {}
           /\ \A x \in DOMAIN WithSnapshot(f, k, v) :
                WithSnapshot(f, k, v)[x] = IF x = k THEN v ELSE f[x]
           /\ (\A x \in DOMAIN f : x <= k) => k \in DOMAIN WithSnapshot(f, k, v)
<1> DEFINE D == DOMAIN f \union {k}
<1>1. PICK S \in SUBSET (1..MaxIndex) : f \in [S -> Value]
  BY DEF SnapMap
<1>2. D \in SUBSET (1..MaxIndex) /\ D # {} /\ \A x \in D : x # k => f[x] \in Value
  BY <1>1
<1>3. Newest(D) \subseteq D
  BY NewestSubset
<1>4. WithSnapshot(f, k, v) = [x \in Newest(D) |-> IF x = k THEN v ELSE f[x]]
  BY DEF WithSnapshot
<1>5. WithSnapshot(f, k, v) \in [Newest(D) -> Value]
  BY <1>2, <1>3, <1>4
<1>6. Max(D) \in D /\ \A y \in D : y <= Max(D)
  BY <1>2, LargestIndex DEF SnapshotAssumption
<1>7. Max(D) \in Newest(D)
  BY <1>2, <1>6, NewestKept
<1>8. (\A x \in DOMAIN f : x <= k) => k \in Newest(D)
  <2> SUFFICES ASSUME \A x \in DOMAIN f : x <= k
               PROVE  k \in Newest(D)
    OBVIOUS
  <2>1. \A y \in D : y <= k
    OBVIOUS
  <2> QED  BY <1>2, <2>1, NewestKept
<1> HIDE DEF D
<1> QED  BY <1>2, <1>3, <1>4, <1>5, <1>7, <1>8 DEF SnapMap, D

-----------------------------------------------------------------------------
(* Types.                                                                  *)

Stored == 1..MaxIndex
Slot == 1..MaxIndex + 1
Leader == [start : Slot, last : Index, snaps : SUBSET Stored, snap : Index,
           exit : {"none", "out_of_log_range", "null_object"}]
Peer == [next : Slot \union {0}, matched : Index, snp : Index, offset : {0, 1},
         expired : BOOLEAN]
Follower == [start : Slot, last : Index, precommit : Index, quick : Index,
             sm : Index, value : Value, snaps : SnapMap, snap : Index,
             lost : BOOLEAN]
Thread == [pc : {"asleep", "loop", "read", "write", "advance", "snapshot",
                 "completed"},
           idx : Index, prev : Value]
Installation == [pc : {"none", "compact", "apply", "indexes", "finish"},
                 snp : Index]
AppendRequests == [kind : {"append"}, prev : Index, known : BOOLEAN,
                   upto : Index, commit : Index]
SnapshotRequests == [kind : {"snapshot"}, snp : Stored, offset : {0, 1},
                     last : BOOLEAN, value : Value]
Responses == [kind : {"append", "snapshot"}, accepted : BOOLEAN,
              next : Slot \union {0}, done : BOOLEAN, freed : BOOLEAN]

\* the sets of numbers, kept apart from the records they are fields of
LEMMA Numbers ==
    ASSUME SnapshotAssumption
    PROVE  /\ MaxIndex \in Nat /\ Reserved \in Nat /\ Distance \in Nat
           /\ Distance > 0 /\ MaxAppend \in Nat
           /\ \A i : i \in Index <=> i \in Nat /\ i <= MaxIndex
           /\ \A i : i \in Stored <=> i \in Nat /\ 1 <= i /\ i <= MaxIndex
           /\ \A i : i \in Slot <=> i \in Nat /\ 1 <= i /\ i <= MaxIndex + 1
           /\ Stored \subseteq Index
BY DEF SnapshotAssumption, Index, Stored, Slot

Types ==
    /\ lead \in Leader /\ peer \in Peer
    /\ fol \in Follower /\ thread \in Thread /\ install \in Installation
    /\ reqs \subseteq AppendRequests \union SnapshotRequests
    /\ resps \subseteq Responses
    /\ events \in 0..MaxEvents

\* the leader's log is cut behind its last snapshot, and always reaches the follower
LeaderInBounds ==
    /\ lead.start <= lead.snap + 1 /\ lead.snap <= lead.last
    /\ \A s \in lead.snaps : s <= lead.snap
    /\ lead.exit # "out_of_log_range"

\* nobody has, or has been asked for, more than the leader's log
PeerInBounds == peer.next <= lead.last + 1 /\ peer.snp <= lead.last

RequestInBounds(q) ==
    /\ q.kind = "append" =>
        q.prev <= q.upto /\ q.upto <= q.commit /\ q.commit <= lead.last
    /\ q.kind = "snapshot" =>
        q.snp <= lead.last /\ (q.offset = 1 => q.value = Prefix(q.snp))

ResponseInBounds(a) ==
    /\ a.next <= lead.last + 1
    /\ a.kind = "append" /\ a.accepted => a.next > 0
    /\ a.kind = "snapshot" /\ a.accepted /\ ~a.done => a.next = 1

MessagesInBounds ==
    /\ \A q \in reqs : RequestInBounds(q)
    /\ \A a \in resps : ResponseInBounds(a)

FollowerInBounds ==
    /\ fol.last <= lead.last /\ fol.quick <= fol.last
    /\ fol.start <= fol.last + 1
    /\ fol.sm <= lead.last /\ fol.precommit <= lead.last
    /\ \A s \in DOMAIN fol.snaps : s <= lead.last
    /\ install.pc # "none" => install.snp \in 1..lead.last
    /\ install.pc \in {"apply", "indexes", "finish"} => install.snp <= fol.last
    /\ thread.pc \in {"read", "write", "advance"} => thread.idx \in 1..lead.last
    /\ thread.pc = "snapshot" => fol.sm > 0
    /\ thread.pc = "completed" => DOMAIN fol.snaps # {}

TypeInv ==
    /\ Types
    /\ LeaderInBounds /\ PeerInBounds /\ MessagesInBounds /\ FollowerInBounds

LEMMA SnapMapType ==
    ASSUME NEW f \in SnapMap
    PROVE  /\ DOMAIN f \subseteq 1..MaxIndex
           /\ f \in [DOMAIN f -> Value]
           /\ \A s \in DOMAIN f : f[s] \in Value
<1>1. PICK S \in SUBSET (1..MaxIndex) : f \in [S -> Value]
  BY DEF SnapMap
<1> QED  BY <1>1

LEMMA TypeInvTypeOK ==
    ASSUME SnapshotAssumption, TypeInv, crossed \subseteq {"install", "snapshot"}
    PROVE  TypeOK
<1>1. Slot = 1..MaxIndex + 1 /\ Stored = 1..MaxIndex
      /\ Slot \union {0} = 0..MaxIndex + 1 /\ {0, 1} = 0..1
  BY DEF Slot, Stored, SnapshotAssumption
<1>2. Types
  BY DEF TypeInv
<1>3. /\ lead \in [start : 1..MaxIndex + 1, last : Index, snaps : SUBSET (1..MaxIndex),
                   snap : Index, exit : {"none", "out_of_log_range", "null_object"}]
      /\ peer \in [next : 0..MaxIndex + 1, matched : Index, snp : Index,
                   offset : 0..1, expired : BOOLEAN]
      /\ install \in [pc : {"none", "compact", "apply", "indexes", "finish"},
                      snp : Index]
  BY <1>1, <1>2 DEF Types, Leader, Peer, Installation
<1>4. fol.snaps \in SnapMap
  BY <1>2 DEF Types, Follower
<1>5. /\ fol.start \in 1..MaxIndex + 1
      /\ {fol.last, fol.precommit, fol.quick, fol.sm, fol.snap} \subseteq Index
      /\ fol.value \in Seq(1..MaxIndex) /\ fol.lost \in BOOLEAN
  BY <1>1, <1>2 DEF Types, Follower, Value
<1>6. /\ DOMAIN fol.snaps \subseteq 1..MaxIndex
      /\ \A s \in DOMAIN fol.snaps : fol.snaps[s] \in Seq(1..MaxIndex)
  BY <1>4, SnapMapType DEF Value
<1>7. /\ thread.pc \in {"asleep", "loop", "read", "write", "advance", "snapshot",
                        "completed"}
      /\ thread.idx \in Index /\ thread.prev \in Seq(1..MaxIndex)
  BY <1>2 DEF Types, Thread, Value
<1> QED  BY <1>2, <1>3, <1>5, <1>6, <1>7 DEF TypeOK, Types

\* what keeps its bounds when the leader's log only grows and the rest stays
LEMMA LeaderOnly ==
    ASSUME SnapshotAssumption, TypeInv, lead'.last >= lead.last,
           lead' \in Leader
    PROVE  /\ UNCHANGED peer => PeerInBounds'
           /\ UNCHANGED <<reqs, resps>> => MessagesInBounds'
           /\ UNCHANGED <<fol, thread, install>> => FollowerInBounds'
<1> USE DEF TypeInv, Types
<1>1. lead.last \in Index /\ lead'.last \in Index
  BY DEF Leader
<1>2. UNCHANGED peer => PeerInBounds'
  <2>1. peer.next \in Slot \union {0} /\ peer.snp \in Index
    BY DEF Peer
  <2> QED  BY <1>1, <2>1, Numbers DEF PeerInBounds
<1>3. UNCHANGED <<reqs, resps>> => MessagesInBounds'
  <2> SUFFICES ASSUME UNCHANGED <<reqs, resps>>
               PROVE  MessagesInBounds'
    OBVIOUS
  <2>1. ASSUME NEW q \in reqs
        PROVE  RequestInBounds(q)'
    <3>1. /\ q.kind = "append" => q.commit \in Index
          /\ q.kind = "snapshot" => q.snp \in Index
      BY Numbers DEF AppendRequests, SnapshotRequests
    <3> QED  BY <1>1, <3>1, Numbers DEF MessagesInBounds, RequestInBounds
  <2>2. ASSUME NEW a \in resps
        PROVE  ResponseInBounds(a)'
    <3>1. a.next \in Slot \union {0}
      BY DEF Responses
    <3> QED  BY <1>1, <3>1, Numbers DEF MessagesInBounds, ResponseInBounds
  <2> QED  BY <2>1, <2>2 DEF MessagesInBounds
<1>4. UNCHANGED <<fol, thread, install>> => FollowerInBounds'
  <2>1. /\ {fol.last, fol.sm, fol.precommit, install.snp, thread.idx} \subseteq Index
        /\ DOMAIN fol.snaps \subseteq Index
    BY SnapMapType, Numbers DEF Follower, Thread, Installation, Stored
  <2> QED  BY <1>1, <2>1, Numbers DEF FollowerInBounds
<1> QED  BY <1>2, <1>3, <1>4

\* the leader's log grows, and a snapshot of all of it is taken if it is due
LEMMA ProposeType ==
    ASSUME SnapshotAssumption, TypeInv, Propose
    PROVE  TypeInv'
<1> DEFINE k == lead.last + 1
<1> USE DEF TypeInv, Types
<1>1. /\ lead.start \in Slot /\ lead.last \in Index /\ lead.snap \in Index
      /\ lead.snaps \subseteq Stored /\ lead.last < MaxIndex
  BY DEF Propose, Leader
<1>2. k \in Stored /\ k \in Index /\ k \in Nat
  BY <1>1, Numbers
<1>3. StartAfter(k, lead.start) \in Slot /\ StartAfter(k, lead.start) <= k + 1
  BY <1>1, <1>2, Numbers DEF StartAfter, Larger, LeaderInBounds
<1>4. Newest(lead.snaps \union {k}) \subseteq lead.snaps \union {k}
  BY NewestSubset
<1>5. lead' \in Leader /\ LeaderInBounds' /\ lead'.last = k
  <2>1. CASE Due(k, lead.start, lead.snap)
    <3>1. lead' = [lead EXCEPT !.last = k, !.snap = k,
                               !.snaps = Newest(lead.snaps \union {k}),
                               !.start = StartAfter(k, lead.start)]
      BY <2>1 DEF Propose
    <3>2. \A s \in Newest(lead.snaps \union {k}) : s \in Stored /\ s <= k
      BY <1>1, <1>2, <1>4, Numbers DEF LeaderInBounds
    <3> HIDE DEF k
    <3>3. lead' \in Leader
      BY <1>2, <1>3, <3>1, <3>2 DEF Leader
    <3>4. /\ lead'.start = StartAfter(k, lead.start) /\ lead'.last = k
          /\ lead'.snap = k /\ lead'.snaps = Newest(lead.snaps \union {k})
          /\ lead'.exit = lead.exit
      BY <3>1 DEF Leader
    <3>5. lead'.start <= lead'.snap + 1 /\ lead'.snap <= lead'.last
      BY <1>2, <1>3, <3>4, Numbers
    <3>6. \A s \in lead'.snaps : s <= lead'.snap
      BY <3>2, <3>4
    <3> QED  BY <3>3, <3>4, <3>5, <3>6 DEF LeaderInBounds
  <2>2. CASE ~Due(k, lead.start, lead.snap)
    <3>1. lead' = [lead EXCEPT !.last = k]
      BY <2>2 DEF Propose
    <3>2. lead' \in Leader /\ lead'.start = lead.start /\ lead'.last = k
          /\ lead'.snap = lead.snap /\ lead'.snaps = lead.snaps
          /\ lead'.exit = lead.exit
      BY <1>2, <3>1 DEF Leader
    <3> QED  BY <1>1, <1>2, <3>2, Numbers DEF LeaderInBounds
  <2> QED  BY <2>1, <2>2
<1>6. lead'.last >= lead.last
      /\ UNCHANGED <<peer, fol, thread, install, reqs, resps, events>>
  BY <1>1, <1>5, Numbers DEF Propose
<1> QED  BY <1>5, <1>6, LeaderOnly

\* what the leader sends: an append within its log, or a snapshot it has
Sent(q) ==
    \/ /\ q \in AppendRequests
       /\ lead.start <= q.prev + 1
       /\ q.prev <= q.upto /\ q.upto <= q.commit /\ q.commit = lead.last
    \/ /\ q \in SnapshotRequests
       /\ q.snp \in lead.snaps /\ (q.offset = 1 => q.value = Prefix(q.snp))

LEMMA AppendRequestSent ==
    ASSUME SnapshotAssumption, TypeInv, NEW k \in Index,
           k <= lead.last, lead.start <= k + 1
    PROVE  Sent(AppendRequest(k))
<1>1. lead.last \in Index /\ lead.start \in Slot
  BY DEF TypeInv, Types, Leader
<1>2. Smaller(lead.last, k + MaxAppend) \in k..lead.last
  BY <1>1, Numbers DEF Smaller
<1>3. (k = 0 \/ TermKnown(k)) \in BOOLEAN
  OBVIOUS
<1>4. Smaller(lead.last, k + MaxAppend) \in Index
      /\ k <= Smaller(lead.last, k + MaxAppend)
      /\ Smaller(lead.last, k + MaxAppend) <= lead.last
  BY <1>1, <1>2, Numbers
<1>5. AppendRequest(k) \in AppendRequests
  BY <1>1, <1>3, <1>4 DEF AppendRequest, AppendRequests
<1>6. /\ AppendRequest(k).prev = k /\ AppendRequest(k).commit = lead.last
      /\ AppendRequest(k).upto = Smaller(lead.last, k + MaxAppend)
  BY DEF AppendRequest
<1> QED  BY <1>4, <1>5, <1>6 DEF Sent

LEMMA SnapshotRequestSent ==
    ASSUME SnapshotAssumption, TypeInv, NEW k \in lead.snaps, NEW o \in {0, 1}
    PROVE  Sent(SnapshotRequest(k, o))
<1>1. k \in Stored /\ k \in Index
  BY Numbers DEF TypeInv, Types, Leader
<1>2. Prefix(k) \in Value /\ NoValue \in Value
  BY <1>1, PrefixType DEF NoValue, Value
<1>3. SnapshotRequest(k, o) \in SnapshotRequests
  BY <1>1, <1>2 DEF SnapshotRequest, SnapshotRequests
<1>4. /\ SnapshotRequest(k, o).snp = k
      /\ SnapshotRequest(k, o).offset = 1 => SnapshotRequest(k, o).value = Prefix(k)
  BY DEF SnapshotRequest
<1> QED  BY <1>3, <1>4 DEF Sent

LEMMA SendType ==
    ASSUME SnapshotAssumption, TypeInv,
           NEW pr \in Peer, pr.next <= lead.last + 1, pr.snp <= lead.last,
           NEW pending, NEW answers, Send(pr, pending, answers)
    PROVE  /\ peer' \in Peer /\ peer'.next <= lead.last + 1 /\ peer'.snp <= lead.last
           /\ lead' = lead \/ lead' = [lead EXCEPT !.exit = "null_object"]
           /\ \/ reqs' = pending
              \/ pending = {} /\ \E q : Sent(q) /\ reqs' = {q}
<1> DEFINE set == [pr EXCEPT !.next = IF pr.next = 0 THEN lead.last + 1 ELSE pr.next]
           last == set.next - 1
<1>1. /\ lead \in Leader /\ lead.last \in Index /\ lead.start \in Slot
      /\ lead.snap \in Index /\ lead.snaps \subseteq Stored
      /\ LeaderInBounds
  BY DEF TypeInv, Types, Leader
<1>2. pr.next \in Slot \union {0} /\ pr.snp \in Index /\ pr.offset \in {0, 1}
      /\ pr.expired \in BOOLEAN
  BY DEF Peer
<1>3. CASE Busy(pending, answers)
  <2>1. NoSync \in Index /\ NoSync = 0
    BY Numbers DEF NoSync
  <2>2. /\ peer' = IF pr.expired
                   THEN [pr EXCEPT !.snp = NoSync, !.offset = 0, !.expired = FALSE]
                   ELSE pr
        /\ reqs' = pending /\ lead' = lead
    BY <1>3 DEF Send
  <2>3. peer' \in Peer /\ peer'.next = pr.next
        /\ (peer'.snp = pr.snp \/ peer'.snp = 0)
    BY <2>1, <2>2 DEF Peer
  <2> QED  BY <1>1, <1>2, <2>2, <2>3, Numbers
<1>4. CASE ~Busy(pending, answers)
  <2>1. pending = {}
    BY <1>4 DEF Busy
  <2>2. (IF pr.next = 0 THEN lead.last + 1 ELSE pr.next) \in Slot
    BY <1>1, <1>2, Numbers
  <2>3. set \in Peer /\ set.next \in Slot /\ set.snp = pr.snp
        /\ set.offset = pr.offset /\ set.expired = pr.expired
    BY <2>2 DEF Peer
  <2>4. set.next <= lead.last + 1
    BY <1>1, <1>2, Numbers DEF Peer
  <2>5. last \in Index /\ last <= lead.last
    BY <1>1, <2>3, <2>4, Numbers
  <2>6. IF last + 1 < lead.start
        THEN IF OutOfLog(set)
             THEN /\ lead' = [lead EXCEPT !.exit = "out_of_log_range"]
                  /\ reqs' = pending /\ peer' = set
             ELSE SendSnapshot(set, pending)
        ELSE /\ reqs' = pending \union {AppendRequest(last)}
             /\ peer' = set /\ UNCHANGED lead
    BY <1>4 DEF Send
  <2> HIDE DEF set
  <2>7. CASE ~ (last + 1 < lead.start)
    <3>1. Sent(AppendRequest(last))
      <4>1. lead.start <= last + 1
        BY <1>1, <2>5, <2>7, Numbers
      <4> HIDE DEF last
      <4> QED  BY <2>5, <4>1, AppendRequestSent
    <3>2. reqs' = {AppendRequest(last)} /\ peer' = set /\ lead' = lead
      BY <2>1, <2>6, <2>7
    <3> QED  BY <1>1, <2>1, <2>3, <2>4, <3>1, <3>2
  <2>8. CASE last + 1 < lead.start
    <3>1. ~OutOfLog(set)
      <4>1. set.next < lead.start
        BY <1>1, <2>3, <2>8, Numbers
      <4>2. lead.snap # 0 /\ set.next - 1 < lead.snap
        BY <1>1, <2>3, <4>1, Numbers DEF LeaderInBounds
      <4> QED  BY <1>1, <2>3, <4>2, Numbers DEF OutOfLog
    <3>2. SendSnapshot(set, pending)
      BY <2>6, <2>8, <3>1
    <3> DEFINE s == IF Continues(set) THEN set.snp ELSE lead.snap
               offset == IF Continues(set) THEN set.offset ELSE 0
    <3>3. offset \in {0, 1}
      BY <1>2, <2>3
    <3>4. CASE s \in lead.snaps
      <4>1. /\ reqs' = {SnapshotRequest(s, offset)} /\ lead' = lead
            /\ peer' = [set EXCEPT !.snp = s, !.offset = offset, !.expired = FALSE]
        BY <2>1, <3>2, <3>4 DEF SendSnapshot
      <4>2. s \in Index /\ s <= lead.last
        BY <1>1, <3>4, Numbers DEF LeaderInBounds
      <4>3. Sent(SnapshotRequest(s, offset))
        BY <3>3, <3>4, SnapshotRequestSent
      <4> HIDE DEF s, offset
      <4>4. peer' \in Peer /\ peer'.next = set.next /\ peer'.snp = s
        BY <2>3, <3>3, <4>1, <4>2 DEF Peer
      <4> QED  BY <2>1, <2>4, <4>1, <4>2, <4>3, <4>4
    <3>5. CASE s \notin lead.snaps
      <4>1. lead' = [lead EXCEPT !.exit = "null_object"]
            /\ reqs' = pending /\ peer' = set
        BY <3>2, <3>5 DEF SendSnapshot
      <4> QED  BY <2>3, <2>4, <4>1
    <3> QED  BY <3>4, <3>5
  <2> QED  BY <2>7, <2>8
<1> QED  BY <1>3, <1>4

LEMMA SentInBounds ==
    ASSUME SnapshotAssumption, TypeInv, NEW q, Sent(q)
    PROVE  /\ q \in AppendRequests \union SnapshotRequests
           /\ RequestInBounds(q)
           /\ q.kind = "append" => lead.start <= q.prev + 1
           /\ q.kind = "snapshot" => q.snp \in lead.snaps
<1>1. \A s \in lead.snaps : s <= lead.last
  <2>1. lead.snaps \subseteq Stored /\ lead.snap \in Index /\ lead.last \in Index
    BY DEF TypeInv, Types, Leader
  <2> QED  BY <2>1, Numbers DEF TypeInv, LeaderInBounds
<1>2. lead.last <= lead.last
  <2>1. lead.last \in Index
    BY DEF TypeInv, Types, Leader
  <2> QED  BY <2>1, Numbers
<1> QED  BY <1>1, <1>2 DEF Sent, RequestInBounds, AppendRequests, SnapshotRequests

\* a step that sends, with what was known of the peer, and otherwise only
\* changes what is on its way
LEMMA SendKeeps ==
    ASSUME SnapshotAssumption, TypeInv,
           NEW pr \in Peer, pr.next <= lead.last + 1, pr.snp <= lead.last,
           NEW pending \in SUBSET reqs, NEW answers, Send(pr, pending, answers),
           resps' \subseteq resps, events' \in 0..MaxEvents,
           UNCHANGED <<fol, thread, install>>
    PROVE  TypeInv'
<1>1. /\ peer' \in Peer /\ peer'.next <= lead.last + 1 /\ peer'.snp <= lead.last
      /\ lead' = lead \/ lead' = [lead EXCEPT !.exit = "null_object"]
      /\ \/ reqs' = pending
         \/ pending = {} /\ \E q : Sent(q) /\ reqs' = {q}
  BY SendType
<1>2. lead \in Leader /\ lead.last \in Index
  BY DEF TypeInv, Types, Leader
<1>3. /\ lead' \in Leader /\ lead'.exit # "out_of_log_range"
      /\ lead'.start = lead.start /\ lead'.last = lead.last
      /\ lead'.snap = lead.snap /\ lead'.snaps = lead.snaps
  BY <1>1, <1>2 DEF Leader, TypeInv, LeaderInBounds
<1>4. LeaderInBounds'
  BY <1>3 DEF TypeInv, LeaderInBounds
<1>5. PeerInBounds'
  BY <1>1, <1>3 DEF PeerInBounds
<1>6. ASSUME NEW q \in reqs'
      PROVE  q \in AppendRequests \union SnapshotRequests /\ RequestInBounds(q)
  <2>1. CASE q \in reqs
    BY <2>1 DEF TypeInv, Types, MessagesInBounds
  <2>2. CASE Sent(q)
    BY <2>2, SentInBounds
  <2>3. q \in reqs \/ Sent(q)
    <3>1. CASE reqs' = pending
      BY <3>1
    <3>2. CASE \E r : Sent(r) /\ reqs' = {r}
      BY <3>2
    <3> QED  BY <1>1, <3>1, <3>2
  <2> QED  BY <2>1, <2>2, <2>3
<1>7. \A q \in reqs' : RequestInBounds(q)'
  BY <1>3, <1>6 DEF RequestInBounds
<1>8. \A a \in resps' : ResponseInBounds(a)'
  BY <1>3 DEF TypeInv, MessagesInBounds, ResponseInBounds
<1>9. FollowerInBounds'
  BY <1>2, <1>3, Numbers, LeaderOnly
<1> QED  BY <1>1, <1>3, <1>4, <1>5, <1>6, <1>7, <1>8, <1>9
         DEF TypeInv, Types, MessagesInBounds

LEMMA PeerNow ==
    ASSUME TypeInv
    PROVE  /\ peer \in Peer /\ peer.next <= lead.last + 1 /\ peer.snp <= lead.last
           /\ peer.next \in Slot \union {0} /\ peer.snp \in Index
           /\ peer.offset \in {0, 1} /\ peer.expired \in BOOLEAN
           /\ lead.last \in Index
BY DEF TypeInv, Types, PeerInBounds, Peer, Leader

LEMMA RequestType ==
    ASSUME SnapshotAssumption, TypeInv, Request
    PROVE  TypeInv'
<1>1. /\ Send(peer, reqs, resps)
      /\ UNCHANGED <<fol, thread, install, resps, events>>
  BY DEF Request
<1>2. events' \in 0..MaxEvents
  BY <1>1 DEF TypeInv, Types
<1> QED  BY <1>1, <1>2, PeerNow, SendKeeps

LEMMA EventType ==
    ASSUME SnapshotAssumption, TypeInv, Event
    PROVE  events' \in 0..MaxEvents
BY DEF Event, TypeInv, Types, SnapshotAssumption

\* the connection is replaced, and what was known of the peer's log forgotten
LEMMA ReconnectType ==
    ASSUME SnapshotAssumption, TypeInv, Reconnect
    PROVE  TypeInv'
<1> DEFINE pr == IF peer.next = 0 THEN peer
                 ELSE [peer EXCEPT !.next = 0, !.matched = 0]
<1>1. PICK answers \in {{}, {r \in resps : r.freed}} :
        resps' = answers /\ Send(pr, {}, answers)
  BY DEF Reconnect
<1>2. 0 \in Index /\ 0 <= lead.last + 1
  BY PeerNow, Numbers
<1>3. pr \in Peer /\ pr.next <= lead.last + 1 /\ pr.snp <= lead.last
  BY <1>2, PeerNow DEF Peer
<1>4. events' \in 0..MaxEvents /\ UNCHANGED <<fol, thread, install>>
  BY EventType DEF Reconnect
<1>5. resps' \subseteq resps /\ {} \in SUBSET reqs
  BY <1>1
<1> HIDE DEF pr
<1> QED  BY <1>1, <1>3, <1>4, <1>5, SendKeeps

LEMMA ExpireType ==
    ASSUME SnapshotAssumption, TypeInv, Expire
    PROVE  TypeInv'
<1>1. /\ peer' = [peer EXCEPT !.expired = TRUE]
      /\ UNCHANGED <<lead, fol, thread, install, reqs, resps>>
      /\ events' \in 0..MaxEvents
  BY EventType DEF Expire
<1>2. peer' \in Peer /\ peer'.next = peer.next /\ peer'.snp = peer.snp
  BY <1>1, PeerNow DEF Peer
<1>3. PeerInBounds' /\ LeaderInBounds'
  BY <1>1, <1>2 DEF TypeInv, PeerInBounds, LeaderInBounds
<1>4. MessagesInBounds' /\ FollowerInBounds'
  BY <1>1, PeerNow, Numbers, LeaderOnly DEF TypeInv, Types
<1> QED  BY <1>1, <1>2, <1>3, <1>4 DEF TypeInv, Types

LEMMA FreePeerType ==
    ASSUME SnapshotAssumption, TypeInv, NEW a \in resps, FreePeer(a)
    PROVE  TypeInv'
<1> DEFINE b == [a EXCEPT !.freed = TRUE]
<1>1. /\ resps' = (resps \ {a}) \union {b} /\ events' \in 0..MaxEvents
      /\ UNCHANGED <<lead, peer, fol, thread, install, reqs>>
  BY EventType DEF FreePeer
<1>2. a \in Responses /\ ResponseInBounds(a)
  BY DEF TypeInv, Types, MessagesInBounds
<1>3. b \in Responses /\ ResponseInBounds(b)
  BY <1>2 DEF Responses, ResponseInBounds
<1> HIDE DEF b
<1>4. resps' \subseteq Responses /\ \A r \in resps' : ResponseInBounds(r)'
  BY <1>1, <1>3 DEF TypeInv, Types, MessagesInBounds, ResponseInBounds
<1>5. \A q \in reqs' : RequestInBounds(q)'
  BY <1>1 DEF TypeInv, MessagesInBounds, RequestInBounds
<1>6. LeaderInBounds' /\ PeerInBounds' /\ FollowerInBounds'
  BY <1>1, PeerNow, Numbers, LeaderOnly DEF TypeInv, Types, LeaderInBounds
<1> QED  BY <1>1, <1>4, <1>5, <1>6 DEF TypeInv, Types, MessagesInBounds

\* what an answer makes of what is known of the peer
LEMMA AnsweredType ==
    ASSUME SnapshotAssumption, TypeInv, NEW a \in resps, NEW pr,
           pr = IF a.kind = "append" THEN AppendAnswered(a) ELSE SnapshotAnswered(a)
    PROVE  pr \in Peer /\ pr.next <= lead.last + 1 /\ pr.snp <= lead.last
<1>1. /\ a \in Responses /\ a.next \in Slot \union {0} /\ a.next <= lead.last + 1
      /\ a.accepted \in BOOLEAN /\ a.done \in BOOLEAN
      /\ a.kind \in {"append", "snapshot"}
      /\ a.kind = "append" /\ a.accepted => a.next > 0
      /\ a.kind = "snapshot" /\ a.accepted /\ ~a.done => a.next = 1
  BY DEF TypeInv, Types, Responses, MessagesInBounds, ResponseInBounds
<1>2. lead.last \in Index /\ 0 <= lead.last
  BY PeerNow, Numbers
<1>3. CASE a.kind = "append"
  <2>1. CASE a.accepted
    <3>1. a.next - 1 \in Index
      BY <1>1, <1>3, <2>1, Numbers
    <3>2. pr = [peer EXCEPT !.next = a.next, !.matched = a.next - 1]
      BY <1>3, <2>1 DEF AppendAnswered
    <3>3. pr \in Peer /\ pr.next = a.next /\ pr.snp = peer.snp
      BY <1>1, <3>1, <3>2, PeerNow DEF Peer
    <3> QED  BY <1>1, <3>3, PeerNow
  <2>2. CASE ~a.accepted
    <3> DEFINE n == IF a.next > 0 /\ peer.next > a.next THEN a.next
                    ELSE IF peer.next > 0 THEN peer.next - 1 ELSE 0
    <3>1. n \in Slot \union {0} /\ n <= lead.last + 1
      BY <1>1, <1>2, PeerNow, Numbers
    <3>2. pr = [peer EXCEPT !.next = n]
      BY <1>3, <2>2, PeerNow DEF AppendAnswered, Peer
    <3> HIDE DEF n
    <3>3. pr \in Peer /\ pr.next = n /\ pr.snp = peer.snp
      BY <3>1, <3>2, PeerNow DEF Peer
    <3> QED  BY <3>1, <3>3, PeerNow
  <2> QED  BY <1>1, <2>1, <2>2
<1>4. CASE a.kind = "snapshot"
  <2>1. 0 \in Index /\ NoSync = 0
    BY Numbers DEF NoSync
  <2>2. ClearSync(peer) \in Peer /\ ClearSync(peer).snp = 0
    BY <2>1, PeerNow DEF Peer, ClearSync
  <2>3. CASE ~a.accepted
    <3>1. pr = [ClearSync(peer) EXCEPT !.next = a.next]
      BY <1>4, <2>3 DEF SnapshotAnswered
    <3>2. pr \in Peer /\ pr.next = a.next /\ pr.snp = 0
      BY <1>1, <2>2, <3>1 DEF Peer
    <3> QED  BY <1>1, <1>2, <3>2
  <2>4. CASE a.accepted /\ peer.snp = NoSync
    <3>1. pr = peer
      BY <1>4, <2>4 DEF SnapshotAnswered
    <3> QED  BY <3>1, PeerNow
  <2>5. CASE a.accepted /\ peer.snp # NoSync /\ a.done
    <3>1. pr = [ClearSync(peer) EXCEPT !.next = peer.snp + 1, !.matched = peer.snp]
      BY <1>4, <2>5 DEF SnapshotAnswered
    <3>2. peer.snp + 1 \in Slot /\ peer.snp + 1 <= lead.last + 1
      BY <1>2, PeerNow, Numbers
    <3>3. pr \in Peer /\ pr.next = peer.snp + 1 /\ pr.snp = 0
      BY <2>2, <3>1, <3>2, PeerNow DEF Peer
    <3> QED  BY <1>2, <3>2, <3>3
  <2>6. CASE a.accepted /\ peer.snp # NoSync /\ ~a.done
    <3>1. pr = [peer EXCEPT !.offset = a.next,
                            !.expired = peer.expired /\ peer.offset = a.next]
      BY <1>4, <2>6 DEF SnapshotAnswered
    <3>2. (peer.expired /\ peer.offset = a.next) \in BOOLEAN
      OBVIOUS
    <3>3. pr \in Peer /\ pr.next = peer.next /\ pr.snp = peer.snp
      BY <1>1, <1>4, <2>6, <3>1, <3>2, PeerNow DEF Peer
    <3> QED  BY <3>3, PeerNow
  <2> QED  BY <1>1, <2>3, <2>4, <2>5, <2>6
<1> QED  BY <1>1, <1>3, <1>4

LEMMA HandleResponseType ==
    ASSUME SnapshotAssumption, TypeInv, NEW a \in resps, HandleResponse(a)
    PROVE  TypeInv'
<1> DEFINE pr == IF a.kind = "append" THEN AppendAnswered(a) ELSE SnapshotAnswered(a)
<1>1. pr \in Peer /\ pr.next <= lead.last + 1 /\ pr.snp <= lead.last
  <2> HIDE DEF pr
  <2> QED  BY AnsweredType DEF pr
<1>2. /\ IF NeedsMore(a, pr) THEN Send(pr, reqs, resps \ {a})
         ELSE peer' = pr /\ UNCHANGED <<lead, reqs>>
      /\ resps' = resps \ {a} /\ UNCHANGED <<fol, thread, install, events>>
  BY DEF HandleResponse
<1> HIDE DEF pr
<1>3. events' \in 0..MaxEvents /\ resps' \subseteq resps
  BY <1>2 DEF TypeInv, Types
<1>4. CASE NeedsMore(a, pr)
  BY <1>1, <1>2, <1>3, <1>4, SendKeeps
<1>5. CASE ~NeedsMore(a, pr)
  <2>1. peer' = pr /\ lead' = lead /\ reqs' = reqs
    BY <1>2, <1>5
  <2>2. PeerInBounds' /\ LeaderInBounds'
    BY <1>1, <2>1 DEF TypeInv, PeerInBounds, LeaderInBounds
  <2>3. FollowerInBounds'
    BY <1>2, <2>1, PeerNow, Numbers, LeaderOnly DEF TypeInv, Types
  <2>4. MessagesInBounds'
    BY <1>3, <2>1 DEF TypeInv, MessagesInBounds, RequestInBounds, ResponseInBounds
  <2> QED  BY <1>1, <1>2, <1>3, <2>1, <2>2, <2>3, <2>4 DEF TypeInv, Types
<1> QED  BY <1>4, <1>5

LEMMA FollowerNow ==
    ASSUME TypeInv
    PROVE  /\ fol \in Follower /\ thread \in Thread /\ install \in Installation
           /\ fol.start \in Slot /\ fol.last \in Index /\ fol.precommit \in Index
           /\ fol.quick \in Index /\ fol.sm \in Index /\ fol.snap \in Index
           /\ fol.value \in Value /\ fol.snaps \in SnapMap
           /\ DOMAIN fol.snaps \subseteq Stored
           /\ thread.idx \in Index /\ thread.prev \in Value
           /\ install.snp \in Index /\ lead.last \in Index
           /\ FollowerInBounds
BY SnapMapType DEF TypeInv, Types, Follower, Thread, Installation, Leader, Stored

LEMMA RequestNow ==
    ASSUME SnapshotAssumption, TypeInv, NEW q \in reqs
    PROVE  /\ RequestInBounds(q)
           /\ q.kind = "append" => q.prev \in Index /\ q.upto \in Index
                                   /\ q.commit \in Index
           /\ q.kind = "snapshot" => q.snp \in Stored /\ q.snp \in Index
                                     /\ q.offset \in {0, 1} /\ q.value \in Value
BY Numbers DEF TypeInv, Types, MessagesInBounds, AppendRequests, SnapshotRequests

LEMMA AnswerType ==
    ASSUME SnapshotAssumption, TypeInv, NEW kind \in {"append", "snapshot"},
           NEW accepted \in BOOLEAN, NEW done \in BOOLEAN,
           NEW n \in Slot \union {0}, n <= lead.last + 1,
           kind = "append" /\ accepted => n > 0,
           kind = "snapshot" /\ accepted /\ ~done => n = 1
    PROVE  /\ Answer(kind, accepted, n, done) \in Responses
           /\ ResponseInBounds(Answer(kind, accepted, n, done))
BY DEF Answer, Responses, ResponseInBounds

\* what is left to show of a step of the follower
LEMMA FollowerOnly ==
    ASSUME SnapshotAssumption, TypeInv, UNCHANGED <<lead, peer, events>>,
           reqs' \subseteq reqs,
           \A a \in resps' : a \in resps \/ (a \in Responses /\ ResponseInBounds(a)),
           fol' \in Follower, thread' \in Thread, install' \in Installation,
           FollowerInBounds'
    PROVE  TypeInv'
<1>1. LeaderInBounds' /\ PeerInBounds'
  BY DEF TypeInv, LeaderInBounds, PeerInBounds
<1>2. \A q \in reqs' : RequestInBounds(q)'
  BY DEF TypeInv, MessagesInBounds, RequestInBounds
<1>3. \A a \in resps' : a \in Responses /\ ResponseInBounds(a)
  BY DEF TypeInv, Types, MessagesInBounds
<1>4. \A a \in resps' : ResponseInBounds(a)'
  BY <1>3 DEF ResponseInBounds
<1> QED  BY <1>1, <1>2, <1>3, <1>4 DEF TypeInv, Types, MessagesInBounds

\* entries are appended, and the indexes follow
LEMMA HandleAppendType ==
    ASSUME SnapshotAssumption, TypeInv, NEW q \in reqs, HandleAppend(q)
    PROVE  TypeInv'
<1>1. /\ q.kind = "append" /\ install.pc = "none"
      /\ UNCHANGED <<lead, peer, thread, install, events>>
  BY DEF HandleAppend, Ready
<1>2. /\ q.prev \in Index /\ q.upto \in Index /\ q.commit \in Index
      /\ q.prev <= q.upto /\ q.upto <= q.commit /\ q.commit <= lead.last
  BY <1>1, RequestNow DEF RequestInBounds
<1>3. Larger(q.prev, q.upto) = q.upto /\ Smaller(q.commit, q.upto) = q.upto
  BY <1>2, Numbers DEF Larger, Smaller
<1>4. CASE LogOkay(q)
  <2>1. /\ fol' = [fol EXCEPT !.last = Larger(fol.last, q.upto),
                              !.precommit = Larger(fol.precommit, q.upto),
                              !.quick = Larger(fol.quick, q.upto),
                              !.lost = fol.last < q.prev /\ q.prev < q.upto]
        /\ Reply(q, Answer("append", TRUE, q.upto + 1, FALSE))
    BY <1>3, <1>4, FollowerNow DEF HandleAppend, Follower
  <2>2. /\ Larger(fol.last, q.upto) \in Index
        /\ Larger(fol.precommit, q.upto) \in Index
        /\ Larger(fol.quick, q.upto) \in Index
    BY <1>2, FollowerNow DEF Larger
  <2>3. /\ fol' \in Follower /\ fol'.last = Larger(fol.last, q.upto)
        /\ fol'.precommit = Larger(fol.precommit, q.upto)
        /\ fol'.quick = Larger(fol.quick, q.upto) /\ fol'.start = fol.start
        /\ fol'.sm = fol.sm /\ fol'.snaps = fol.snaps
    BY <2>1, <2>2, FollowerNow DEF Follower
  <2>4. FollowerInBounds'
    <3>1. /\ fol'.last <= lead.last /\ fol'.quick <= fol'.last
          /\ fol'.start <= fol'.last + 1 /\ fol'.precommit <= lead.last
      BY <1>2, <2>3, FollowerNow, Numbers DEF Larger, FollowerInBounds
    <3> QED  BY <1>1, <2>3, <3>1, FollowerNow DEF FollowerInBounds
  <2>5. q.upto + 1 \in Slot \union {0} /\ q.upto + 1 <= lead.last + 1 /\ q.upto + 1 > 0
    BY <1>2, FollowerNow, Numbers
  <2>6. reqs' \subseteq reqs
        /\ resps' = resps \union {Answer("append", TRUE, q.upto + 1, FALSE)}
    BY <2>1 DEF Reply
  <2>7. /\ Answer("append", TRUE, q.upto + 1, FALSE) \in Responses
        /\ ResponseInBounds(Answer("append", TRUE, q.upto + 1, FALSE))
    BY <2>5, AnswerType
  <2> QED  BY <1>1, <2>3, <2>4, <2>6, <2>7, FollowerNow, FollowerOnly
<1>5. CASE ~LogOkay(q)
  <2>1. fol' = fol /\ reqs' \subseteq reqs
        /\ resps' = resps \union {Answer("append", FALSE, fol.last + 1, FALSE)}
    BY <1>5 DEF HandleAppend, Reply
  <2>2. fol.last + 1 \in Slot \union {0} /\ fol.last + 1 <= lead.last + 1
    BY FollowerNow, Numbers DEF FollowerInBounds
  <2>3. /\ Answer("append", FALSE, fol.last + 1, FALSE) \in Responses
        /\ ResponseInBounds(Answer("append", FALSE, fol.last + 1, FALSE))
    BY <2>2, AnswerType
  <2>4. FollowerInBounds'
    BY <1>1, <2>1, FollowerNow DEF FollowerInBounds
  <2> QED  BY <1>1, <2>1, <2>3, <2>4, FollowerNow, FollowerOnly
<1> QED  BY <1>4, <1>5

LEMMA DeclineSnapshotType ==
    ASSUME SnapshotAssumption, TypeInv, NEW q \in reqs, DeclineSnapshot(q)
    PROVE  TypeInv'
<1>1. /\ reqs' \subseteq reqs /\ UNCHANGED <<lead, peer, fol, thread, install, events>>
      /\ resps' = resps \union {Answer("snapshot", FALSE, fol.last + 1, TRUE)}
  BY DEF DeclineSnapshot, Reply
<1>2. fol.last + 1 \in Slot \union {0} /\ fol.last + 1 <= lead.last + 1
  BY FollowerNow, Numbers DEF FollowerInBounds
<1>3. /\ Answer("snapshot", FALSE, fol.last + 1, TRUE) \in Responses
      /\ ResponseInBounds(Answer("snapshot", FALSE, fol.last + 1, TRUE))
  BY <1>2, AnswerType
<1>4. FollowerInBounds'
  BY <1>1, FollowerNow DEF FollowerInBounds
<1> QED  BY <1>1, <1>3, <1>4, FollowerNow, FollowerOnly

\* what a snapshot map becomes is one, within the same bounds
LEMMA SnapshotStored ==
    ASSUME SnapshotAssumption, TypeInv,
           NEW k \in 1..lead.last, NEW v \in Value,
           fol' = [fol EXCEPT !.snaps = WithSnapshot(fol.snaps, k, v)]
    PROVE  /\ fol' \in Follower /\ fol'.snaps = WithSnapshot(fol.snaps, k, v)
           /\ fol'.start = fol.start /\ fol'.last = fol.last
           /\ fol'.precommit = fol.precommit /\ fol'.quick = fol.quick
           /\ fol'.sm = fol.sm /\ fol'.snap = fol.snap /\ fol'.value = fol.value
           /\ DOMAIN fol'.snaps # {}
           /\ \A s \in DOMAIN fol'.snaps : s <= lead.last
<1>1. k \in 1..MaxIndex /\ k <= lead.last /\ lead.last \in Nat
  BY FollowerNow, Numbers
<1>2. /\ WithSnapshot(fol.snaps, k, v) \in SnapMap
      /\ DOMAIN WithSnapshot(fol.snaps, k, v) \subseteq DOMAIN fol.snaps \union {k}
      /\ DOMAIN WithSnapshot(fol.snaps, k, v) # {}
  BY <1>1, FollowerNow, WithSnapshotType
<1>3. /\ fol' \in Follower /\ fol'.snaps = WithSnapshot(fol.snaps, k, v)
      /\ fol'.start = fol.start /\ fol'.last = fol.last
      /\ fol'.precommit = fol.precommit /\ fol'.quick = fol.quick
      /\ fol'.sm = fol.sm /\ fol'.snap = fol.snap /\ fol'.value = fol.value
  BY <1>2, FollowerNow DEF Follower
<1> QED  BY <1>1, <1>2, <1>3, FollowerNow DEF FollowerInBounds

LEMMA FirstObjectType ==
    ASSUME SnapshotAssumption, TypeInv, NEW q \in reqs, FirstObject(q)
    PROVE  TypeInv'
<1>1. /\ q.kind = "snapshot" /\ q.offset = 0 /\ install.pc = "none"
      /\ fol' = [fol EXCEPT !.snaps = WithSnapshot(fol.snaps, q.snp, fol.value)]
      /\ reqs' \subseteq reqs
      /\ resps' = resps \union {Answer("snapshot", TRUE, q.offset + 1, FALSE)}
      /\ UNCHANGED <<lead, peer, thread, install, events>>
  BY DEF FirstObject, Arrives, Ready, Reply
<1>2. q.snp \in 1..lead.last
  BY <1>1, RequestNow, FollowerNow, Numbers DEF RequestInBounds
<1>3. q.offset + 1 = 1 /\ 1 \in Slot \union {0} /\ 1 <= lead.last + 1
  BY <1>1, FollowerNow, Numbers
<1>4. /\ Answer("snapshot", TRUE, 1, FALSE) \in Responses
      /\ ResponseInBounds(Answer("snapshot", TRUE, 1, FALSE))
  BY <1>3, AnswerType
<1>5. fol' \in Follower /\ FollowerInBounds'
  BY <1>1, <1>2, FollowerNow, SnapshotStored DEF FollowerInBounds
<1> QED  BY <1>1, <1>3, <1>4, <1>5, FollowerNow, FollowerOnly

LEMMA LastObjectType ==
    ASSUME SnapshotAssumption, TypeInv, NEW q \in reqs, LastObject(q)
    PROVE  TypeInv'
<1>1. /\ q.kind = "snapshot" /\ install.pc = "none"
      /\ UNCHANGED <<lead, peer, thread, reqs, resps, events>>
  BY DEF LastObject, Arrives, Ready
<1>2. q.snp \in 1..lead.last /\ q.snp \in Index /\ q.value \in Value
  BY <1>1, RequestNow, FollowerNow, Numbers DEF RequestInBounds
<1>3. CASE q.snp \in DOMAIN fol.snaps
  <2> DEFINE f == [fol.snaps EXCEPT ![q.snp] = q.value]
  <2>1. /\ fol' = [fol EXCEPT !.snaps = f]
        /\ install' = [pc |-> "compact", snp |-> q.snp]
    BY <1>3, FollowerNow DEF LastObject, Follower
  <2>2. f \in SnapMap /\ DOMAIN f = DOMAIN fol.snaps
    <3>1. fol.snaps \in [DOMAIN fol.snaps -> Value]
          /\ DOMAIN fol.snaps \in SUBSET (1..MaxIndex)
      BY FollowerNow, SnapMapType
    <3>2. f \in [DOMAIN fol.snaps -> Value]
      BY <1>2, <3>1
    <3> QED  BY <3>1, <3>2 DEF SnapMap
  <2> HIDE DEF f
  <2>3. /\ fol' \in Follower /\ fol'.snaps = f
        /\ fol'.start = fol.start /\ fol'.last = fol.last
        /\ fol'.precommit = fol.precommit /\ fol'.quick = fol.quick
        /\ fol'.sm = fol.sm
    BY <2>1, <2>2, FollowerNow DEF Follower
  <2>4. install' \in Installation /\ install'.pc = "compact" /\ install'.snp = q.snp
    BY <1>2, <2>1 DEF Installation
  <2>5. FollowerInBounds'
    BY <1>1, <1>2, <2>2, <2>3, <2>4, FollowerNow DEF FollowerInBounds
  <2> QED  BY <1>1, <2>3, <2>4, <2>5, FollowerNow, FollowerOnly
<1>4. CASE q.snp \notin DOMAIN fol.snaps
  <2>1. fol' = [fol EXCEPT !.lost = TRUE] /\ install' = install
    BY <1>4 DEF LastObject
  <2>2. fol' \in Follower /\ FollowerInBounds'
    BY <1>1, <2>1, FollowerNow DEF FollowerInBounds, Follower
  <2> QED  BY <1>1, <2>1, <2>2, FollowerNow, FollowerOnly
<1> QED  BY <1>3, <1>4

LEMMA CompactType ==
    ASSUME SnapshotAssumption, TypeInv, Compact
    PROVE  TypeInv'
<1>1. /\ install.pc = "compact"
      /\ fol' = [fol EXCEPT !.start = Larger(fol.start, install.snp + 1),
                            !.last = Larger(fol.last, install.snp)]
      /\ install' = [install EXCEPT !.pc = "apply"]
      /\ UNCHANGED <<lead, peer, thread, reqs, resps, events>>
  BY FollowerNow DEF Compact, Follower
<1>2. install.snp \in 1..lead.last
  BY <1>1, FollowerNow DEF FollowerInBounds
<1>3. /\ Larger(fol.start, install.snp + 1) \in Slot
      /\ Larger(fol.last, install.snp) \in Index
  BY <1>2, FollowerNow, Numbers DEF Larger
<1>4. /\ fol' \in Follower /\ fol'.snaps = fol.snaps /\ fol'.sm = fol.sm
      /\ fol'.precommit = fol.precommit /\ fol'.quick = fol.quick
      /\ fol'.start = Larger(fol.start, install.snp + 1)
      /\ fol'.last = Larger(fol.last, install.snp)
  BY <1>1, <1>3, FollowerNow DEF Follower
<1>5. install' \in Installation /\ install'.pc = "apply" /\ install'.snp = install.snp
  BY <1>1, FollowerNow DEF Installation
<1>6. /\ fol'.last <= lead.last /\ fol'.quick <= fol'.last
      /\ fol'.start <= fol'.last + 1 /\ install.snp <= fol'.last
  BY <1>2, <1>4, FollowerNow, Numbers DEF Larger, FollowerInBounds
<1>7. FollowerInBounds'
  BY <1>1, <1>2, <1>4, <1>5, <1>6, FollowerNow DEF FollowerInBounds
<1> QED  BY <1>1, <1>4, <1>5, <1>7, FollowerNow, FollowerOnly

LEMMA ApplySnapshotType ==
    ASSUME SnapshotAssumption, TypeInv, ApplySnapshot
    PROVE  TypeInv'
<1>1. /\ install.pc = "apply"
      /\ fol' = IF install.snp \in DOMAIN fol.snaps
                THEN [fol EXCEPT !.value = fol.snaps[install.snp]]
                ELSE [fol EXCEPT !.lost = TRUE]
      /\ install' = [install EXCEPT !.pc = "indexes"]
      /\ UNCHANGED <<lead, peer, thread, reqs, resps, events>>
  BY DEF ApplySnapshot
<1>2. install.snp \in DOMAIN fol.snaps => fol.snaps[install.snp] \in Value
  BY FollowerNow, SnapMapType
<1>3. /\ fol' \in Follower /\ fol'.snaps = fol.snaps /\ fol'.sm = fol.sm
      /\ fol'.precommit = fol.precommit /\ fol'.quick = fol.quick
      /\ fol'.start = fol.start /\ fol'.last = fol.last
  BY <1>1, <1>2, FollowerNow DEF Follower
<1>4. install' \in Installation /\ install'.pc = "indexes" /\ install'.snp = install.snp
  BY <1>1, FollowerNow DEF Installation
<1>5. FollowerInBounds'
  BY <1>1, <1>3, <1>4, FollowerNow DEF FollowerInBounds
<1> QED  BY <1>1, <1>3, <1>4, <1>5, FollowerNow, FollowerOnly

LEMMA SetIndexesType ==
    ASSUME SnapshotAssumption, TypeInv, SetIndexes
    PROVE  TypeInv'
<1>1. /\ install.pc = "indexes"
      /\ fol' = [fol EXCEPT !.precommit = install.snp, !.sm = install.snp]
      /\ install' = [install EXCEPT !.pc = "finish"]
      /\ UNCHANGED <<lead, peer, thread, reqs, resps, events>>
  BY DEF SetIndexes
<1>2. install.snp \in 1..lead.last
  BY <1>1, FollowerNow DEF FollowerInBounds
<1>3. /\ fol' \in Follower /\ fol'.snaps = fol.snaps /\ fol'.sm = install.snp
      /\ fol'.precommit = install.snp /\ fol'.quick = fol.quick
      /\ fol'.start = fol.start /\ fol'.last = fol.last
  BY <1>1, FollowerNow DEF Follower
<1>4. install' \in Installation /\ install'.pc = "finish" /\ install'.snp = install.snp
  BY <1>1, FollowerNow DEF Installation
<1>5. FollowerInBounds'
  <2>1. install.snp > 0 /\ install.snp <= lead.last
    BY <1>2
  <2> QED  BY <1>1, <1>2, <1>3, <1>4, <2>1, FollowerNow DEF FollowerInBounds
<1> QED  BY <1>1, <1>3, <1>4, <1>5, FollowerNow, FollowerOnly

\* the handler is done with the snapshot
LEMMA Finished ==
    ASSUME SnapshotAssumption, TypeInv, install.pc = "finish",
           fol' = [fol EXCEPT !.quick = install.snp, !.snap = install.snp],
           install' = [install EXCEPT !.pc = "none"],
           UNCHANGED <<lead, thread>>
    PROVE  fol' \in Follower /\ install' \in Installation /\ FollowerInBounds'
<1>1. /\ fol' \in Follower /\ fol'.snaps = fol.snaps /\ fol'.sm = fol.sm
      /\ fol'.precommit = fol.precommit /\ fol'.quick = install.snp
      /\ fol'.start = fol.start /\ fol'.last = fol.last
  BY FollowerNow DEF Follower
<1>2. install' \in Installation /\ install'.pc = "none" /\ install'.snp = install.snp
  BY FollowerNow DEF Installation
<1> QED  BY <1>1, <1>2, FollowerNow DEF FollowerInBounds

LEMMA FinishType ==
    ASSUME SnapshotAssumption, TypeInv, NEW q \in reqs, Finish(q)
    PROVE  TypeInv'
<1>1. /\ install.pc = "finish" /\ q.kind = "snapshot"
      /\ fol' = [fol EXCEPT !.quick = install.snp, !.snap = install.snp]
      /\ install' = [install EXCEPT !.pc = "none"]
      /\ reqs' \subseteq reqs
      /\ resps' = resps \union {Answer("snapshot", TRUE, q.offset + 1, TRUE)}
      /\ UNCHANGED <<lead, peer, thread, events>>
  BY DEF Finish, Reply
<1>2. q.offset + 1 \in Slot \union {0} /\ q.offset + 1 <= lead.last + 1
  <2>1. q.offset \in {0, 1} /\ q.snp \in Stored /\ q.snp <= lead.last
    BY <1>1, RequestNow DEF RequestInBounds
  <2> QED  BY <2>1, FollowerNow, Numbers
<1>3. /\ Answer("snapshot", TRUE, q.offset + 1, TRUE) \in Responses
      /\ ResponseInBounds(Answer("snapshot", TRUE, q.offset + 1, TRUE))
  BY <1>2, AnswerType
<1>4. fol' \in Follower /\ install' \in Installation /\ FollowerInBounds'
  BY <1>1, Finished
<1> QED  BY <1>1, <1>3, <1>4, FollowerNow, FollowerOnly

LEMMA FinishUnheardType ==
    ASSUME SnapshotAssumption, TypeInv, FinishUnheard
    PROVE  TypeInv'
<1>1. fol' \in Follower /\ install' \in Installation /\ FollowerInBounds'
  BY Finished DEF FinishUnheard
<1> QED  BY <1>1, FollowerNow, FollowerOnly DEF FinishUnheard

\* the commit thread moves on, or the process stops
LEMMA ThreadOnly ==
    ASSUME SnapshotAssumption, TypeInv,
           UNCHANGED <<lead, peer, install, reqs, resps, events>>,
           thread' \in Thread,
           fol' = fol \/ fol' = [fol EXCEPT !.lost = TRUE],
           thread'.pc \in {"read", "write", "advance"} => thread'.idx \in 1..lead.last,
           thread'.pc \notin {"snapshot", "completed"}
    PROVE  TypeInv'
<1>1. /\ fol' \in Follower /\ fol'.snaps = fol.snaps /\ fol'.sm = fol.sm
      /\ fol'.precommit = fol.precommit /\ fol'.quick = fol.quick
      /\ fol'.start = fol.start /\ fol'.last = fol.last
  BY FollowerNow DEF Follower
<1>2. FollowerInBounds'
  BY <1>1, FollowerNow DEF FollowerInBounds
<1> QED  BY <1>1, <1>2, FollowerNow, FollowerOnly

LEMMA StartType ==
    ASSUME SnapshotAssumption, TypeInv, Start
    PROVE  TypeInv'
<1>1. /\ thread.pc = "asleep"
      /\ fol' = [fol EXCEPT !.sm = Larger(fol.sm, fol.start - 1)]
      /\ thread' = [thread EXCEPT !.pc = "loop"]
      /\ UNCHANGED <<lead, peer, install, reqs, resps, events>>
  BY FollowerNow DEF Start, Follower
<1>2. Larger(fol.sm, fol.start - 1) \in Index /\ Larger(fol.sm, fol.start - 1) <= lead.last
  BY FollowerNow, Numbers DEF Larger, FollowerInBounds
<1>3. /\ fol' \in Follower /\ fol'.snaps = fol.snaps
      /\ fol'.sm = Larger(fol.sm, fol.start - 1)
      /\ fol'.precommit = fol.precommit /\ fol'.quick = fol.quick
      /\ fol'.start = fol.start /\ fol'.last = fol.last
  BY <1>1, <1>2, FollowerNow DEF Follower
<1>4. thread' \in Thread /\ thread'.pc = "loop"
  BY <1>1, FollowerNow DEF Thread
<1>5. FollowerInBounds'
  BY <1>1, <1>2, <1>3, <1>4, FollowerNow DEF FollowerInBounds
<1> QED  BY <1>1, <1>3, <1>4, <1>5, FollowerNow, FollowerOnly

LEMMA SleepType ==
    ASSUME SnapshotAssumption, TypeInv, Sleep
    PROVE  TypeInv'
<1>1. 0 \in Index /\ NoValue \in Value
  BY Numbers DEF NoValue, Value
<1>2. thread' \in Thread /\ thread'.pc = "asleep"
  BY <1>1 DEF Sleep, Thread
<1> QED  BY <1>2, ThreadOnly DEF Sleep

LEMMA FetchType ==
    ASSUME SnapshotAssumption, TypeInv, Fetch
    PROVE  TypeInv'
<1>1. thread.pc = "loop" /\ UNCHANGED <<lead, peer, install, reqs, resps, events>>
  BY DEF Fetch, CommitStep
<1>2. CASE fol.sm + 1 \in fol.start..fol.last
  <2>1. fol' = fol /\ thread' = [thread EXCEPT !.pc = "read", !.idx = fol.sm + 1]
    BY <1>2 DEF Fetch
  <2>2. fol.sm + 1 \in Index /\ fol.sm + 1 \in 1..lead.last
    BY <1>2, FollowerNow, Numbers DEF FollowerInBounds
  <2>3. thread' \in Thread /\ thread'.pc = "read" /\ thread'.idx = fol.sm + 1
    BY <2>1, <2>2, FollowerNow DEF Thread
  <2> QED  BY <1>1, <2>1, <2>2, <2>3, ThreadOnly
<1>3. CASE fol.sm + 1 \notin fol.start..fol.last
  <2>1. fol' = [fol EXCEPT !.lost = TRUE] /\ thread' = thread
    BY <1>3 DEF Fetch
  <2> QED  BY <1>1, <2>1, FollowerNow, ThreadOnly
<1> QED  BY <1>2, <1>3

LEMMA ReadType ==
    ASSUME SnapshotAssumption, TypeInv, Read
    PROVE  TypeInv'
<1>1. /\ thread.pc = "read" /\ thread.idx \in 1..lead.last
      /\ UNCHANGED <<lead, peer, install, reqs, resps, events>>
  BY FollowerNow DEF Read, CommitStep, FollowerInBounds
<1>2. CASE thread.idx <= fol.precommit
  <2>1. fol' = fol /\ thread' = [thread EXCEPT !.pc = "write", !.prev = fol.value]
    BY <1>2 DEF Read
  <2>2. thread' \in Thread /\ thread'.pc = "write" /\ thread'.idx = thread.idx
    BY <2>1, FollowerNow DEF Thread
  <2> QED  BY <1>1, <2>1, <2>2, ThreadOnly
<1>3. CASE ~ (thread.idx <= fol.precommit)
  <2>1. fol' = [fol EXCEPT !.lost = TRUE] /\ thread' = thread
    BY <1>3 DEF Read
  <2> QED  BY <1>1, <2>1, FollowerNow, ThreadOnly
<1> QED  BY <1>2, <1>3

LEMMA WriteType ==
    ASSUME SnapshotAssumption, TypeInv, Write
    PROVE  TypeInv'
<1>1. /\ thread.pc = "write"
      /\ fol' = [fol EXCEPT !.value = Append(thread.prev, thread.idx)]
      /\ thread' = [thread EXCEPT !.pc = "advance"]
      /\ UNCHANGED <<lead, peer, install, reqs, resps, events>>
  BY DEF Write, CommitStep
<1>2. thread.idx \in 1..lead.last /\ thread.idx \in 1..MaxIndex
  BY <1>1, FollowerNow, Numbers DEF FollowerInBounds
<1>3. Append(thread.prev, thread.idx) \in Value
  BY <1>2, FollowerNow, AppendProperties DEF Value
<1>4. /\ fol' \in Follower /\ fol'.snaps = fol.snaps /\ fol'.sm = fol.sm
      /\ fol'.precommit = fol.precommit /\ fol'.quick = fol.quick
      /\ fol'.start = fol.start /\ fol'.last = fol.last
  BY <1>1, <1>3, FollowerNow DEF Follower
<1>5. thread' \in Thread /\ thread'.pc = "advance" /\ thread'.idx = thread.idx
  BY <1>1, FollowerNow DEF Thread
<1>6. FollowerInBounds'
  BY <1>1, <1>2, <1>4, <1>5, FollowerNow DEF FollowerInBounds
<1> QED  BY <1>1, <1>4, <1>5, <1>6, FollowerNow, FollowerOnly

LEMMA AdvanceType ==
    ASSUME SnapshotAssumption, TypeInv, Advance
    PROVE  TypeInv'
<1>1. /\ thread.pc = "advance" /\ thread.idx \in 1..lead.last
      /\ UNCHANGED <<lead, peer, install, reqs, resps, events>>
  BY FollowerNow DEF Advance, CommitStep, FollowerInBounds
<1>2. CASE fol.sm = thread.idx - 1
  <2>1. /\ fol' = [fol EXCEPT !.sm = thread.idx]
        /\ thread' = [thread EXCEPT !.pc = "snapshot"]
    BY <1>2 DEF Advance
  <2>2. /\ fol' \in Follower /\ fol'.snaps = fol.snaps /\ fol'.sm = thread.idx
        /\ fol'.precommit = fol.precommit /\ fol'.quick = fol.quick
        /\ fol'.start = fol.start /\ fol'.last = fol.last
    BY <2>1, FollowerNow DEF Follower
  <2>3. thread' \in Thread /\ thread'.pc = "snapshot"
    BY <2>1, FollowerNow DEF Thread
  <2>4. thread.idx > 0 /\ thread.idx <= lead.last
    BY <1>1
  <2>5. FollowerInBounds'
    BY <1>1, <2>2, <2>3, <2>4, FollowerNow DEF FollowerInBounds
  <2> QED  BY <1>1, <2>2, <2>3, <2>5, FollowerNow, FollowerOnly
<1>3. CASE fol.sm # thread.idx - 1
  <2>1. fol' = fol /\ thread' = [thread EXCEPT !.pc = "loop"]
    BY <1>3 DEF Advance
  <2>2. thread' \in Thread /\ thread'.pc = "loop"
    BY <2>1, FollowerNow DEF Thread
  <2> QED  BY <1>1, <2>1, <2>2, ThreadOnly
<1> QED  BY <1>2, <1>3

LEMMA CreateSnapshotType ==
    ASSUME SnapshotAssumption, TypeInv, CreateSnapshot
    PROVE  TypeInv'
<1>1. /\ thread.pc = "snapshot" /\ fol.sm > 0
      /\ UNCHANGED <<lead, peer, install, reqs, resps, events>>
  BY FollowerNow DEF CreateSnapshot, CommitStep, FollowerInBounds
<1>2. CASE Due(fol.sm, fol.start, fol.snap)
  <2>1. /\ fol' = [fol EXCEPT !.snaps = WithSnapshot(fol.snaps, fol.sm, fol.value)]
        /\ thread' = [thread EXCEPT !.pc = "completed", !.idx = fol.sm]
    BY <1>2, FollowerNow DEF CreateSnapshot, Follower
  <2>2. fol.sm \in 1..lead.last
    BY <1>1, FollowerNow, Numbers DEF FollowerInBounds
  <2>3. thread' \in Thread /\ thread'.pc = "completed"
    BY <2>1, FollowerNow DEF Thread
  <2>4. fol' \in Follower /\ FollowerInBounds'
    BY <1>1, <2>1, <2>2, <2>3, FollowerNow, SnapshotStored DEF FollowerInBounds
  <2> QED  BY <1>1, <2>3, <2>4, FollowerNow, FollowerOnly
<1>3. CASE ~Due(fol.sm, fol.start, fol.snap)
  <2>1. fol' = fol /\ thread' = [thread EXCEPT !.pc = "loop"]
    BY <1>3 DEF CreateSnapshot
  <2>2. thread' \in Thread /\ thread'.pc = "loop"
    BY <2>1, FollowerNow DEF Thread
  <2> QED  BY <1>1, <2>1, <2>2, ThreadOnly
<1> QED  BY <1>2, <1>3

\* the newest snapshot there is is one the log reaches
LEMMA NewestStored ==
    ASSUME SnapshotAssumption, TypeInv, DOMAIN fol.snaps # {}
    PROVE  /\ Max(DOMAIN fol.snaps) \in DOMAIN fol.snaps
           /\ \A s \in DOMAIN fol.snaps : s <= Max(DOMAIN fol.snaps)
           /\ Max(DOMAIN fol.snaps) \in Index
           /\ Max(DOMAIN fol.snaps) \in 1..lead.last
<1>1. DOMAIN fol.snaps \in SUBSET (1..MaxIndex) /\ MaxIndex \in Nat
  BY FollowerNow, Numbers DEF Stored
<1>2. /\ Max(DOMAIN fol.snaps) \in DOMAIN fol.snaps
      /\ \A s \in DOMAIN fol.snaps : s <= Max(DOMAIN fol.snaps)
  BY <1>1, LargestIndex
<1>3. Max(DOMAIN fol.snaps) \in Stored /\ Max(DOMAIN fol.snaps) <= lead.last
  BY <1>2, FollowerNow DEF FollowerInBounds
<1> QED  BY <1>2, <1>3, FollowerNow, Numbers

LEMMA SnapshotCompletedType ==
    ASSUME SnapshotAssumption, TypeInv, SnapshotCompleted
    PROVE  TypeInv'
<1> DEFINE k == Max(DOMAIN fol.snaps)
           start == StartAfter(k, fol.start)
<1>1. /\ thread.pc = "completed" /\ install.pc = "none"
      /\ fol' = [fol EXCEPT !.snap = k, !.start = start,
                            !.last = Larger(fol.last, start - 1)]
      /\ thread' = [thread EXCEPT !.pc = "loop"]
      /\ UNCHANGED <<lead, peer, install, reqs, resps, events>>
  BY FollowerNow DEF SnapshotCompleted, CommitStep, Follower
<1>2. k \in Index /\ k \in 1..lead.last
  BY <1>1, FollowerNow, NewestStored DEF FollowerInBounds
<1> HIDE DEF k
<1>3. /\ start \in Slot
      /\ start = fol.start \/ start <= k + 1
      /\ start >= fol.start
  BY <1>2, FollowerNow, Numbers DEF StartAfter, Larger
<1> HIDE DEF start
<1>4. /\ Larger(fol.last, start - 1) \in Index
      /\ Larger(fol.last, start - 1) >= fol.last
      /\ start <= Larger(fol.last, start - 1) + 1
      /\ Larger(fol.last, start - 1) <= lead.last
  BY <1>2, <1>3, FollowerNow, Numbers DEF Larger, FollowerInBounds
<1>5. /\ fol' \in Follower /\ fol'.snaps = fol.snaps /\ fol'.sm = fol.sm
      /\ fol'.precommit = fol.precommit /\ fol'.quick = fol.quick
      /\ fol'.start = start /\ fol'.last = Larger(fol.last, start - 1)
  BY <1>1, <1>2, <1>3, <1>4, FollowerNow DEF Follower
<1>6. fol'.quick <= fol'.last
  BY <1>4, <1>5, FollowerNow, Numbers DEF FollowerInBounds
<1>7. thread' \in Thread /\ thread'.pc = "loop"
  BY <1>1, FollowerNow DEF Thread
<1>8. FollowerInBounds'
  BY <1>1, <1>4, <1>5, <1>6, <1>7, FollowerNow DEF FollowerInBounds
<1> QED  BY <1>1, <1>5, <1>7, <1>8, FollowerNow, FollowerOnly

LEMMA TypeStep ==
    ASSUME SnapshotAssumption, TypeInv, [Next]_vars
    PROVE  TypeInv'
<1>1. CASE Propose
  BY <1>1, ProposeType
<1>2. CASE Request
  BY <1>2, RequestType
<1>3. CASE Reconnect
  BY <1>3, ReconnectType
<1>4. CASE Expire
  BY <1>4, ExpireType
<1>5. ASSUME NEW a \in resps, FreePeer(a) \/ HandleResponse(a)
      PROVE  TypeInv'
  BY <1>5, FreePeerType, HandleResponseType
<1>6. ASSUME NEW q \in reqs, HandleRequest(q)
      PROVE  TypeInv'
  BY <1>6, HandleAppendType, DeclineSnapshotType, FirstObjectType, LastObjectType,
     FinishType DEF HandleRequest
<1>7. CASE Install
  BY <1>7, CompactType, ApplySnapshotType, SetIndexesType, FinishUnheardType
     DEF Install
<1>8. CASE CommitThread
  BY <1>8, StartType, SleepType, FetchType, ReadType, WriteType, AdvanceType,
     CreateSnapshotType, SnapshotCompletedType DEF CommitThread
<1>9. CASE UNCHANGED vars
  BY <1>9 DEF vars, TypeInv, Types, LeaderInBounds, PeerInBounds, MessagesInBounds,
     RequestInBounds, ResponseInBounds, FollowerInBounds
<1> QED  BY <1>1, <1>2, <1>3, <1>4, <1>5, <1>6, <1>7, <1>8, <1>9 DEF Next

LEMMA TypeInit ==
    ASSUME SnapshotAssumption, Init
    PROVE  TypeInv
<1>1. 1 \in Slot /\ 0 \in Index /\ NoSync \in Index /\ NoSync = 0 /\ 0 \in 0..MaxEvents
  BY Numbers DEF SnapshotAssumption, NoSync
<1>2. << >> \in Value /\ << >> \in SnapMap /\ DOMAIN << >> = {}
  <2>1. << >> \in [{} -> Value] /\ {} \in SUBSET (1..MaxIndex)
    OBVIOUS
  <2>2. << >> \in SnapMap
    BY <2>1 DEF SnapMap
  <2>3. << >> \in Value /\ DOMAIN << >> = {}
    BY DEF Value
  <2> QED  BY <2>2, <2>3
<1>3. Types
  BY <1>1, <1>2 DEF Init, Types, Leader, Peer, Follower, Thread, Installation
<1>4. LeaderInBounds /\ PeerInBounds /\ MessagesInBounds
  BY <1>1 DEF Init, LeaderInBounds, PeerInBounds, MessagesInBounds
<1>5. FollowerInBounds
  BY <1>1, <1>2 DEF Init, FollowerInBounds
<1> QED  BY <1>3, <1>4, <1>5 DEF TypeInv

\* what is remembered of how handler and commit thread met
LEMMA CrossedStep ==
    ASSUME [Next]_vars
    PROVE  /\ crossed \subseteq crossed'
           /\ crossed' \subseteq crossed \union {"install", "snapshot"}
<1>1. CASE Compact
  BY <1>1 DEF Compact
<1>2. CASE SnapshotCompleted
  BY <1>2 DEF SnapshotCompleted
<1>3. crossed' = crossed \/ Compact \/ SnapshotCompleted
  BY DEF Next, vars, Propose, Request, Reconnect, Expire, FreePeer, HandleResponse,
     HandleRequest, HandleAppend, DeclineSnapshot, FirstObject, LastObject, Finish,
     Install, ApplySnapshot, SetIndexes, FinishUnheard, CommitThread, Start, Sleep,
     Fetch, Read, Write, Advance, CreateSnapshot
<1> QED  BY <1>1, <1>2, <1>3

LEMMA TypeInvariant == Spec => []TypeInv
<1>1. Init => TypeInv
  BY SnapshotAssumption, TypeInit
<1>2. TypeInv /\ [Next]_vars => TypeInv'
  BY SnapshotAssumption, TypeStep
<1> QED  BY <1>1, <1>2, PTL DEF Spec

\* Every variable keeps its type, whatever is cut, lost or overtaken: indexes
\* stay within the leader's log and its answers name slots of it.
THEOREM SnapshotTypes == Spec => []TypeOK
<1> DEFINE CrossedOK == crossed \subseteq {"install", "snapshot"}
<1>1. Init => CrossedOK
  BY DEF Init
<1>2. CrossedOK /\ [Next]_vars => CrossedOK'
  BY CrossedStep
<1>3. TypeInv /\ CrossedOK => TypeOK
  BY SnapshotAssumption, TypeInvTypeOK
<1> HIDE DEF CrossedOK
<1> QED  BY <1>1, <1>2, <1>3, TypeInvariant, PTL DEF Spec

\* The leader is never without a log or a snapshot that reaches the follower.
THEOREM LeaderCanServe == Spec => []CanServe
<1>1. TypeInv => CanServe
  BY DEF TypeInv, LeaderInBounds, CanServe
<1> QED  BY <1>1, TypeInvariant, PTL

-----------------------------------------------------------------------------
(* The follower.                                                           *)

Multiple(k) == \E j \in Nat : k = j * Distance

LEMMA MultipleGap ==
    ASSUME SnapshotAssumption, NEW a \in Nat, NEW b \in Nat,
           Multiple(a), Multiple(b), a < b
    PROVE  a + Distance <= b
<1>1. PICK i \in Nat, j \in Nat : a = i * Distance /\ b = j * Distance
  BY DEF Multiple
<1>2. Distance \in Nat /\ Distance > 0
  BY Numbers
<1>3. i < j
  <2>1. j <= i => j * Distance <= i * Distance
    BY <1>2
  <2> QED  BY <1>1, <1>2, <2>1
<1>4. (i + 1) * Distance <= j * Distance
  BY <1>2, <1>3
<1>5. (i + 1) * Distance = i * Distance + Distance
  BY <1>2
<1> QED  BY <1>1, <1>2, <1>4, <1>5

LEMMA MultipleNext ==
    ASSUME SnapshotAssumption, NEW a \in Nat, Multiple(a)
    PROVE  Multiple(a + Distance)
<1>1. PICK i \in Nat : a = i * Distance
  BY DEF Multiple
<1>2. a + Distance = (i + 1) * Distance /\ i + 1 \in Nat
  BY <1>1, Numbers
<1> QED  BY <1>2 DEF Multiple

\* a snapshot is due where the next multiple is reached, on both sides
LEMMA DueAtMultiple ==
    ASSUME SnapshotAssumption,
           NEW k \in Nat, NEW start \in Nat \ {0}, NEW snap \in Nat,
           start <= snap + 1, snap <= k, k <= snap + Distance, Multiple(snap)
    PROVE  /\ Due(k, start, snap) => k = snap + Distance /\ Multiple(k)
           /\ ~Due(k, start, snap) => k < snap + Distance
<1>1. Due(k, start, snap) => k = snap + Distance
  BY Numbers DEF Due
<1>2. ~Due(k, start, snap) => k < snap + Distance
  BY Numbers DEF Due
<1> QED  BY <1>1, <1>2, MultipleNext

\* StartAfter does not go back, or past the snapshot
LEMMA StartAfterBounds ==
    ASSUME SnapshotAssumption, NEW k \in Nat, NEW start \in Nat \ {0},
           start <= k + 1
    PROVE  /\ StartAfter(k, start) \in Nat \ {0}
           /\ start <= StartAfter(k, start) /\ StartAfter(k, start) <= k + 1
BY Numbers DEF StartAfter, Larger

\* snapshots are of multiples of the distance, wherever they are
LeaderCut ==
    /\ lead.last < lead.snap + Distance
    /\ Multiple(lead.snap) /\ \A s \in lead.snaps : Multiple(s)
    /\ \A q \in reqs : q.kind = "snapshot" => Multiple(q.snp)

\* the handler's indexes, and how far the commit thread is
Indexes ==
    /\ Multiple(fol.snap) /\ fol.snap <= fol.sm
    /\ install.pc \in {"none", "compact"} =>
        /\ fol.sm <= fol.quick /\ fol.quick = fol.last /\ fol.quick <= fol.precommit
        /\ fol.start <= fol.snap + 1
    /\ thread.pc \in {"read", "write", "advance"} =>
        thread.idx = fol.sm + 1 /\ thread.idx <= fol.quick
    /\ thread.pc = "snapshot" => fol.snap < fol.sm /\ fol.sm <= fol.snap + Distance
    /\ thread.pc = "completed" => fol.sm = fol.snap + Distance /\ thread.idx = fol.sm
    /\ thread.pc \notin {"snapshot", "completed"} /\ install.pc # "finish" =>
        fol.sm < fol.snap + Distance

\* Once the log is cut the commit thread has nothing to do.  Before, it may be
\* at work, but it stops at the snapshot it has to make of the same index.
Installing ==
    /\ install.pc # "none" =>
        /\ Multiple(install.snp)
        /\ install.snp \in DOMAIN fol.snaps =>
            fol.snaps[install.snp] = Prefix(install.snp)
    /\ install.pc = "compact" =>
        /\ fol.sm <= install.snp
        /\ fol.sm = install.snp => thread.pc \in {"snapshot", "completed"}
    /\ install.pc \in {"apply", "indexes", "finish"} =>
        /\ thread.pc = "asleep" /\ fol.sm >= fol.quick
        /\ fol.start <= install.snp + 1 /\ fol.last = install.snp
        /\ IF install.pc = "finish"
           THEN fol.sm = install.snp /\ fol.precommit = install.snp
           ELSE fol.sm < install.snp

\* the entries that are in the value
Held ==
    IF install.pc = "indexes" /\ ~fol.lost THEN install.snp
    ELSE IF thread.pc = "advance" THEN fol.sm + 1 ELSE fol.sm

ValueHeld ==
    /\ fol.value = Prefix(Held)
    /\ thread.pc = "write" => thread.prev = Prefix(fol.sm)
    /\ thread.pc = "completed" /\ fol.sm \in DOMAIN fol.snaps =>
        fol.snaps[fol.sm] = Prefix(fol.sm)
    /\ fol.snap \in DOMAIN fol.snaps => fol.snaps[fol.snap] = Prefix(fol.snap)

Follows == Indexes /\ Installing /\ ValueHeld

SyncInv == TypeInv /\ LeaderCut /\ (crossed = {} => Follows)

-----------------------------------------------------------------------------
(* The leader's snapshots.                                                 *)

\* steps that send what the leader has
LEMMA SentCut ==
    ASSUME SnapshotAssumption, LeaderCut,
           lead'.last = lead.last, lead'.snap = lead.snap, lead'.snaps = lead.snaps,
           \A q \in reqs' : q \in reqs \/ (q.kind = "snapshot" => q.snp \in lead.snaps)
    PROVE  LeaderCut'
BY DEF LeaderCut

LEMMA ProposeCut ==
    ASSUME SnapshotAssumption, TypeInv, LeaderCut, Propose
    PROVE  LeaderCut'
<1> DEFINE k == lead.last + 1
<1>1. /\ lead \in Leader /\ lead.start \in Slot /\ lead.last \in Index
      /\ lead.snap \in Index /\ lead.snaps \subseteq Stored /\ lead.last < MaxIndex
      /\ lead.start <= lead.snap + 1 /\ lead.snap <= lead.last
  BY DEF Propose, TypeInv, Types, Leader, LeaderInBounds
<1>2. /\ k \in Nat /\ lead.snap <= k /\ k <= lead.snap + Distance
      /\ lead.snap \in Nat /\ lead.start \in Nat \ {0} /\ Multiple(lead.snap)
  BY <1>1, Numbers DEF LeaderCut
<1>3. /\ Due(k, lead.start, lead.snap) => k = lead.snap + Distance /\ Multiple(k)
      /\ ~Due(k, lead.start, lead.snap) => k < lead.snap + Distance
  <2> HIDE DEF k
  <2> QED  BY <1>1, <1>2, DueAtMultiple
<1>4. reqs' = reqs
  BY DEF Propose
<1>5. CASE Due(k, lead.start, lead.snap)
  <2>1. lead' = [lead EXCEPT !.last = k, !.snap = k,
                             !.snaps = Newest(lead.snaps \union {k}),
                             !.start = StartAfter(k, lead.start)]
    BY <1>5 DEF Propose
  <2> HIDE DEF k
  <2>2. /\ lead'.last = k /\ lead'.snap = k
        /\ lead'.snaps = Newest(lead.snaps \union {k})
    BY <1>1, <2>1 DEF Leader
  <2>3. \A s \in lead'.snaps : Multiple(s)
    BY <1>3, <1>5, <2>2, NewestSubset DEF LeaderCut
  <2>4. lead'.last < lead'.snap + Distance
    BY <1>2, <2>2, Numbers
  <2> QED  BY <1>3, <1>4, <1>5, <2>2, <2>3, <2>4 DEF LeaderCut
<1>6. CASE ~Due(k, lead.start, lead.snap)
  <2>1. lead' = [lead EXCEPT !.last = k]
    BY <1>6 DEF Propose
  <2> HIDE DEF k
  <2>2. lead'.last = k /\ lead'.snap = lead.snap /\ lead'.snaps = lead.snaps
    BY <1>1, <2>1 DEF Leader
  <2> QED  BY <1>3, <1>4, <1>6, <2>2 DEF LeaderCut
<1> QED  BY <1>5, <1>6

LEMMA SendCut ==
    ASSUME SnapshotAssumption, TypeInv, LeaderCut,
           NEW pr \in Peer, pr.next <= lead.last + 1, pr.snp <= lead.last,
           NEW pending \in SUBSET reqs, NEW answers, Send(pr, pending, answers)
    PROVE  LeaderCut'
<1>1. /\ lead' = lead \/ lead' = [lead EXCEPT !.exit = "null_object"]
      /\ \/ reqs' = pending
         \/ pending = {} /\ \E q : Sent(q) /\ reqs' = {q}
  BY SendType
<1>2. lead \in Leader
  BY DEF TypeInv, Types
<1>3. lead'.last = lead.last /\ lead'.snap = lead.snap /\ lead'.snaps = lead.snaps
  BY <1>1, <1>2 DEF Leader
<1>4. \A q : Sent(q) => (q.kind = "snapshot" => q.snp \in lead.snaps)
  BY SentInBounds
<1>5. \A q \in reqs' : q \in reqs \/ (q.kind = "snapshot" => q.snp \in lead.snaps)
  BY <1>1, <1>4
<1> QED  BY <1>3, <1>5, SentCut

\* what the leader does leaves the follower alone
LeaderStep ==
    \/ Propose \/ Request \/ Reconnect \/ Expire
    \/ \E a \in resps : FreePeer(a) \/ HandleResponse(a)

LEMMA LeaderStepCut ==
    ASSUME SnapshotAssumption, TypeInv, LeaderCut, LeaderStep
    PROVE  LeaderCut' /\ UNCHANGED <<fol, thread, install, crossed>>
<1>1. UNCHANGED <<fol, thread, install, crossed>>
  BY DEF LeaderStep, Propose, Request, Reconnect, Expire, FreePeer, HandleResponse
<1> SUFFICES LeaderCut'
  BY <1>1
<1>2. ASSUME UNCHANGED <<lead, reqs>>
      PROVE  LeaderCut'
  BY <1>2, SentCut
<1>3. CASE Propose
  BY <1>3, ProposeCut
<1>4. CASE Request
  BY <1>4, PeerNow, SendCut DEF Request
<1>5. CASE Reconnect
  <2> DEFINE pr == IF peer.next = 0 THEN peer
                   ELSE [peer EXCEPT !.next = 0, !.matched = 0]
  <2>1. PICK answers : Send(pr, {}, answers)
    BY <1>5 DEF Reconnect
  <2>2. 0 \in Index /\ 0 <= lead.last + 1
    BY PeerNow, Numbers
  <2>3. pr \in Peer /\ pr.next <= lead.last + 1 /\ pr.snp <= lead.last
    BY <2>2, PeerNow DEF Peer
  <2> DEFINE pending == {}
  <2>4. pending \in SUBSET reqs
    OBVIOUS
  <2> HIDE DEF pr
  <2> QED  BY <2>1, <2>3, <2>4, SendCut
<1>6. CASE Expire
  BY <1>2, <1>6 DEF Expire
<1>7. ASSUME NEW a \in resps, FreePeer(a)
      PROVE  LeaderCut'
  BY <1>2, <1>7 DEF FreePeer
<1>8. ASSUME NEW a \in resps, HandleResponse(a)
      PROVE  LeaderCut'
  <2> DEFINE pr == IF a.kind = "append" THEN AppendAnswered(a) ELSE SnapshotAnswered(a)
  <2>1. pr \in Peer /\ pr.next <= lead.last + 1 /\ pr.snp <= lead.last
    <3> HIDE DEF pr
    <3> QED  BY AnsweredType DEF pr
  <2>2. IF NeedsMore(a, pr) THEN Send(pr, reqs, resps \ {a})
        ELSE peer' = pr /\ UNCHANGED <<lead, reqs>>
    BY <1>8 DEF HandleResponse
  <2> HIDE DEF pr
  <2>3. CASE NeedsMore(a, pr)
    BY <2>1, <2>2, <2>3, SendCut
  <2>4. CASE ~NeedsMore(a, pr)
    BY <1>2, <2>2, <2>4
  <2> QED  BY <2>3, <2>4
<1> QED  BY <1>1, <1>3, <1>4, <1>5, <1>6, <1>7, <1>8 DEF LeaderStep

-----------------------------------------------------------------------------
(* The handler's steps.                                                    *)

\* what there is to know of a request for a snapshot
LEMMA OnArrival ==
    ASSUME SnapshotAssumption, TypeInv, LeaderCut, Follows,
           NEW q \in reqs, Arrives(q), q.snp > fol.sm
    PROVE  /\ install.pc = "none" /\ q.kind = "snapshot"
           /\ q.snp \in Stored /\ q.snp \in Index /\ Multiple(q.snp)
           /\ fol.snap <= fol.sm /\ fol.snap # q.snp
<1>1. install.pc = "none" /\ q.kind = "snapshot"
  BY DEF Arrives, Ready
<1>2. q.snp \in Stored /\ q.snp \in Index /\ Multiple(q.snp)
  BY <1>1, RequestNow DEF LeaderCut
<1>3. fol.snap <= fol.sm
  BY DEF Follows, Indexes
<1> QED  BY <1>1, <1>2, <1>3, FollowerNow, Numbers

\* A request that fits does not start behind the end of the log.
LEMMA FitsLog ==
    ASSUME SnapshotAssumption, TypeInv, Follows, install.pc = "none",
           NEW q \in reqs, q.kind = "append", LogOkay(q)
    PROVE  q.prev <= fol.last
BY FollowerNow, RequestNow, Numbers DEF Follows, LogOkay, Indexes

LEMMA HandleAppendFollows ==
    ASSUME SnapshotAssumption, TypeInv, Follows, NEW q \in reqs, HandleAppend(q)
    PROVE  Follows'
<1>1. /\ q.kind = "append" /\ install.pc = "none" /\ ~fol.lost
      /\ UNCHANGED <<thread, install>>
  BY DEF HandleAppend, Ready
<1>2. CASE LogOkay(q)
  <2>1. /\ q.prev \in Index /\ q.upto \in Index /\ q.commit \in Index
        /\ q.prev <= q.upto /\ q.upto <= q.commit /\ q.prev <= fol.last
    BY <1>1, <1>2, RequestNow, FitsLog DEF RequestInBounds
  <2>2. Larger(q.prev, q.upto) = q.upto /\ Smaller(q.commit, q.upto) = q.upto
    BY <2>1, Numbers DEF Larger, Smaller
  <2>3. fol' = [fol EXCEPT !.last = Larger(fol.last, q.upto),
                           !.precommit = Larger(fol.precommit, q.upto),
                           !.quick = Larger(fol.quick, q.upto),
                           !.lost = fol.last < q.prev /\ q.prev < q.upto]
    BY <1>2, <2>2, FollowerNow DEF HandleAppend, Follower
  <2>4. /\ fol'.last = Larger(fol.last, q.upto)
        /\ fol'.precommit = Larger(fol.precommit, q.upto)
        /\ fol'.quick = Larger(fol.quick, q.upto) /\ fol'.start = fol.start
        /\ fol'.sm = fol.sm /\ fol'.snaps = fol.snaps /\ fol'.snap = fol.snap
        /\ fol'.value = fol.value
    BY <2>3, FollowerNow DEF Follower
  <2>5. /\ fol.sm <= fol.quick /\ fol.quick = fol.last /\ fol.quick <= fol.precommit
        /\ fol.start <= fol.snap + 1
    BY <1>1 DEF Follows, Indexes
  <2>6. /\ fol'.sm <= fol'.quick /\ fol'.quick = fol'.last
        /\ fol'.quick <= fol'.precommit /\ fol.quick <= fol'.quick
        /\ fol'.quick \in Index
    BY <2>1, <2>4, <2>5, FollowerNow, Numbers DEF Larger
  <2>7. Indexes'
    <3>1. thread.pc \in {"read", "write", "advance"} => thread.idx <= fol'.quick
      BY <2>6, FollowerNow, Numbers DEF Follows, Indexes
    <3> QED  BY <1>1, <2>4, <2>5, <2>6, <3>1 DEF Follows, Indexes
  <2>8. Installing' /\ ValueHeld'
    BY <1>1, <2>4 DEF Follows, Installing, ValueHeld, Held
  <2> QED  BY <2>7, <2>8 DEF Follows
<1>3. CASE ~LogOkay(q)
  <2>1. fol' = fol
    BY <1>3 DEF HandleAppend
  <2> QED  BY <1>1, <2>1 DEF Follows, Installing, Indexes, ValueHeld, Held
<1> QED  BY <1>2, <1>3

\* object 0 puts the follower's own value under the snapshot's name
LEMMA FirstObjectFollows ==
    ASSUME SnapshotAssumption, TypeInv, LeaderCut, Follows,
           NEW q \in reqs, FirstObject(q)
    PROVE  Follows'
<1>1. /\ Arrives(q) /\ q.snp > fol.sm /\ UNCHANGED <<thread, install>>
      /\ fol' = [fol EXCEPT !.snaps = WithSnapshot(fol.snaps, q.snp, fol.value)]
  BY DEF FirstObject
<1>2. /\ install.pc = "none" /\ q.snp \in Stored /\ q.snp \in Index
      /\ fol.snap # q.snp /\ fol.sm # q.snp
  <2>1. q.snp \in Index /\ fol.sm # q.snp
    BY <1>1, OnArrival, FollowerNow, Numbers
  <2> QED  BY <1>1, <2>1, OnArrival
<1>3. /\ fol'.start = fol.start /\ fol'.last = fol.last /\ fol'.snap = fol.snap
      /\ fol'.precommit = fol.precommit /\ fol'.quick = fol.quick
      /\ fol'.sm = fol.sm /\ fol'.value = fol.value /\ fol'.lost = fol.lost
      /\ fol'.snaps = WithSnapshot(fol.snaps, q.snp, fol.value)
  BY <1>1, FollowerNow DEF Follower
<1>4. /\ DOMAIN fol'.snaps \subseteq DOMAIN fol.snaps \union {q.snp}
      /\ \A x \in DOMAIN fol'.snaps :
            fol'.snaps[x] = IF x = q.snp THEN fol.value ELSE fol.snaps[x]
  BY <1>2, <1>3, FollowerNow, WithSnapshotType DEF Stored
<1>5. ValueHeld'
  BY <1>1, <1>2, <1>3, <1>4 DEF Follows, ValueHeld, Held
<1>6. Installing' /\ Indexes'
  BY <1>1, <1>2, <1>3 DEF Follows, Installing, Indexes
<1> QED  BY <1>5, <1>6 DEF Follows

\* what a stop of the process leaves as it was
LEMMA LostFollows ==
    ASSUME SnapshotAssumption, TypeInv, Follows, install.pc # "indexes",
           fol' = [fol EXCEPT !.lost = TRUE], UNCHANGED <<thread, install>>
    PROVE  Follows'
<1>1. /\ fol'.start = fol.start /\ fol'.last = fol.last /\ fol'.snap = fol.snap
      /\ fol'.precommit = fol.precommit /\ fol'.quick = fol.quick
      /\ fol'.sm = fol.sm /\ fol'.value = fol.value /\ fol'.snaps = fol.snaps
  BY FollowerNow DEF Follower
<1> QED  BY <1>1 DEF Follows, Installing, Indexes, ValueHeld, Held

\* object 1 puts the snapshot's own value there
LEMMA LastObjectFollows ==
    ASSUME SnapshotAssumption, TypeInv, LeaderCut, Follows,
           NEW q \in reqs, LastObject(q)
    PROVE  Follows'
<1>1. /\ Arrives(q) /\ q.snp > fol.sm /\ q.offset > 0 /\ UNCHANGED thread
  BY DEF LastObject
<1>2. /\ install.pc = "none" /\ q.kind = "snapshot" /\ q.snp \in Index
      /\ Multiple(q.snp) /\ fol.snap # q.snp /\ fol.sm # q.snp /\ fol.sm <= q.snp
  <2>1. q.snp \in Index /\ fol.sm # q.snp /\ fol.sm <= q.snp
    BY <1>1, OnArrival, FollowerNow, Numbers
  <2> QED  BY <1>1, <2>1, OnArrival
<1>3. q.value = Prefix(q.snp)
  <2>1. q.offset = 1
    BY <1>1, <1>2, RequestNow
  <2> QED  BY <1>2, <2>1, RequestNow DEF RequestInBounds
<1>4. CASE q.snp \in DOMAIN fol.snaps
  <2> DEFINE f == [fol.snaps EXCEPT ![q.snp] = q.value]
  <2>1. /\ fol' = [fol EXCEPT !.snaps = f]
        /\ install' = [pc |-> "compact", snp |-> q.snp]
    BY <1>4, FollowerNow DEF LastObject, Follower
  <2>2. fol.snaps \in [DOMAIN fol.snaps -> Value]
    BY FollowerNow, SnapMapType
  <2>3. /\ DOMAIN f = DOMAIN fol.snaps /\ f[q.snp] = Prefix(q.snp)
        /\ \A x \in DOMAIN fol.snaps : x # q.snp => f[x] = fol.snaps[x]
    BY <1>3, <1>4, <2>2
  <2> HIDE DEF f
  <2>4. /\ fol'.start = fol.start /\ fol'.last = fol.last /\ fol'.snap = fol.snap
        /\ fol'.precommit = fol.precommit /\ fol'.quick = fol.quick
        /\ fol'.sm = fol.sm /\ fol'.value = fol.value /\ fol'.snaps = f
        /\ fol'.lost = fol.lost
    BY <2>1, FollowerNow DEF Follower
  <2>5. install'.pc = "compact" /\ install'.snp = q.snp
    BY <2>1
  <2>6. Installing'
    BY <1>1, <1>2, <2>3, <2>4, <2>5 DEF Installing
  <2>7. ValueHeld'
    BY <1>1, <1>2, <2>3, <2>4, <2>5 DEF Follows, ValueHeld, Held
  <2>8. Indexes'
    BY <1>1, <1>2, <2>4, <2>5 DEF Follows, Indexes
  <2> QED  BY <2>6, <2>7, <2>8 DEF Follows
<1>5. CASE q.snp \notin DOMAIN fol.snaps
  <2>1. fol' = [fol EXCEPT !.lost = TRUE] /\ install' = install
    BY <1>5 DEF LastObject
  <2> QED  BY <1>1, <1>2, <2>1, LostFollows
<1> QED  BY <1>4, <1>5

\* the log is cut, with the thread asleep and nothing left to apply
LEMMA CompactFollows ==
    ASSUME SnapshotAssumption, TypeInv, Follows, Compact, crossed' = {}
    PROVE  Follows'
<1>1. /\ install.pc = "compact" /\ ~fol.lost
      /\ fol' = [fol EXCEPT !.start = Larger(fol.start, install.snp + 1),
                            !.last = Larger(fol.last, install.snp)]
      /\ install' = [install EXCEPT !.pc = "apply"]
      /\ UNCHANGED thread
  BY FollowerNow DEF Compact, Follower
<1>2. thread.pc = "asleep" /\ ~Work
  BY DEF Compact
<1>3. /\ fol.sm <= fol.quick /\ fol.quick = fol.last /\ fol.start <= fol.snap + 1
      /\ fol.snap <= fol.sm /\ fol.sm <= install.snp /\ fol.sm # install.snp
  BY <1>1, <1>2 DEF Follows, Indexes, Installing
<1>4. /\ fol.sm = fol.quick /\ fol.sm = fol.last /\ fol.sm < install.snp
      /\ fol.sm >= fol.quick
      /\ Larger(fol.start, install.snp + 1) = install.snp + 1
      /\ Larger(fol.last, install.snp) = install.snp
      /\ install.snp + 1 <= install.snp + 1
  BY <1>2, <1>3, FollowerNow, Numbers DEF Larger, Work
<1>5. /\ fol'.start = install.snp + 1 /\ fol'.last = install.snp /\ fol'.snap = fol.snap
      /\ fol'.precommit = fol.precommit /\ fol'.quick = fol.quick
      /\ fol'.sm = fol.sm /\ fol'.value = fol.value /\ fol'.snaps = fol.snaps
  BY <1>1, <1>4, FollowerNow DEF Follower
<1>6. install'.pc = "apply" /\ install'.snp = install.snp
  BY <1>1, FollowerNow DEF Installation
<1>7. Installing'
  BY <1>1, <1>2, <1>4, <1>5, <1>6 DEF Follows, Installing
<1>8. Indexes' /\ ValueHeld'
  BY <1>1, <1>2, <1>5, <1>6 DEF Follows, Indexes, ValueHeld, Held
<1> QED  BY <1>7, <1>8 DEF Follows

LEMMA ApplySnapshotFollows ==
    ASSUME SnapshotAssumption, TypeInv, Follows, ApplySnapshot
    PROVE  Follows'
<1>1. /\ install.pc = "apply" /\ install' = [install EXCEPT !.pc = "indexes"]
      /\ UNCHANGED thread /\ ~fol.lost
  BY DEF ApplySnapshot
<1>2. /\ thread.pc = "asleep" /\ fol.sm >= fol.quick /\ fol.start <= install.snp + 1
      /\ fol.last = install.snp /\ fol.sm < install.snp /\ Multiple(install.snp)
      /\ install.snp \in DOMAIN fol.snaps =>
            fol.snaps[install.snp] = Prefix(install.snp)
  BY <1>1 DEF Follows, Installing
<1>3. install'.pc = "indexes" /\ install'.snp = install.snp
  BY <1>1, FollowerNow DEF Installation
<1>4. CASE install.snp \in DOMAIN fol.snaps
  <2>1. fol' = [fol EXCEPT !.value = Prefix(install.snp)]
    BY <1>2, <1>4 DEF ApplySnapshot
  <2>2. /\ fol'.start = fol.start /\ fol'.last = fol.last /\ fol'.snap = fol.snap
        /\ fol'.precommit = fol.precommit /\ fol'.quick = fol.quick
        /\ fol'.sm = fol.sm /\ fol'.value = Prefix(install.snp)
        /\ fol'.snaps = fol.snaps /\ fol'.lost = FALSE
    BY <1>1, <2>1, FollowerNow DEF Follower
  <2>3. Installing'
    BY <1>1, <1>2, <1>3, <2>2 DEF Installing
  <2>4. Indexes'
    BY <1>1, <1>2, <1>3, <2>2 DEF Follows, Indexes
  <2>5. ValueHeld'
    BY <1>1, <1>2, <1>3, <2>2 DEF Follows, ValueHeld, Held
  <2> QED  BY <2>3, <2>4, <2>5 DEF Follows
<1>5. CASE install.snp \notin DOMAIN fol.snaps
  <2>1. fol' = [fol EXCEPT !.lost = TRUE]
    BY <1>5 DEF ApplySnapshot
  <2>2. /\ fol'.start = fol.start /\ fol'.last = fol.last /\ fol'.snap = fol.snap
        /\ fol'.precommit = fol.precommit /\ fol'.quick = fol.quick
        /\ fol'.sm = fol.sm /\ fol'.value = fol.value
        /\ fol'.snaps = fol.snaps /\ fol'.lost = TRUE
    BY <2>1, FollowerNow DEF Follower
  <2>3. Installing'
    BY <1>1, <1>2, <1>3, <2>2 DEF Installing
  <2>4. Indexes'
    BY <1>1, <1>2, <1>3, <2>2 DEF Follows, Indexes
  <2>5. ValueHeld'
    BY <1>1, <1>2, <1>3, <2>2 DEF Follows, ValueHeld, Held
  <2> QED  BY <2>3, <2>4, <2>5 DEF Follows
<1> QED  BY <1>4, <1>5

LEMMA SetIndexesFollows ==
    ASSUME SnapshotAssumption, TypeInv, Follows, SetIndexes
    PROVE  Follows'
<1>1. /\ install.pc = "indexes" /\ install' = [install EXCEPT !.pc = "finish"]
      /\ fol' = [fol EXCEPT !.precommit = install.snp, !.sm = install.snp]
      /\ UNCHANGED thread /\ ~fol.lost
  BY DEF SetIndexes
<1>2. /\ thread.pc = "asleep" /\ fol.sm >= fol.quick /\ fol.start <= install.snp + 1
      /\ fol.last = install.snp /\ fol.sm < install.snp /\ Multiple(install.snp)
      /\ fol.value = Prefix(install.snp) /\ fol.snap <= fol.sm /\ Multiple(fol.snap)
      /\ install.snp \in DOMAIN fol.snaps =>
            fol.snaps[install.snp] = Prefix(install.snp)
  BY <1>1 DEF Follows, Installing, ValueHeld, Held, Indexes
<1>3. /\ fol'.start = fol.start /\ fol'.last = fol.last /\ fol'.snap = fol.snap
      /\ fol'.precommit = install.snp /\ fol'.quick = fol.quick
      /\ fol'.sm = install.snp /\ fol'.value = fol.value /\ fol'.snaps = fol.snaps
  BY <1>1, FollowerNow DEF Follower
<1>4. install'.pc = "finish" /\ install'.snp = install.snp
  BY <1>1, FollowerNow DEF Installation
<1>5. fol'.snap <= fol'.sm /\ fol'.sm >= fol'.quick
  BY <1>2, <1>3, FollowerNow, Numbers
<1>6. Installing'
  BY <1>1, <1>2, <1>3, <1>4, <1>5 DEF Installing
<1>7. Indexes'
  BY <1>1, <1>2, <1>3, <1>4, <1>5 DEF Indexes
<1>8. ValueHeld'
  BY <1>1, <1>2, <1>3, <1>4 DEF Follows, ValueHeld, Held
<1> QED  BY <1>6, <1>7, <1>8 DEF Follows

\* the snapshot becomes last_snapshot_, with or without an answer
LEMMA FinishedFollows ==
    ASSUME SnapshotAssumption, TypeInv, Follows, install.pc = "finish",
           fol' = [fol EXCEPT !.quick = install.snp, !.snap = install.snp],
           install' = [install EXCEPT !.pc = "none"], UNCHANGED thread
    PROVE  Follows'
<1>1. /\ thread.pc = "asleep" /\ fol.sm = install.snp
      /\ install.snp \in DOMAIN fol.snaps =>
            fol.snaps[install.snp] = Prefix(install.snp)
      /\ fol.precommit = install.snp /\ Multiple(install.snp)
      /\ fol.start <= install.snp + 1 /\ fol.last = install.snp
      /\ fol.value = Prefix(fol.sm)
  BY DEF Follows, Installing, ValueHeld, Held
<1>2. /\ fol'.start = fol.start /\ fol'.last = fol.last /\ fol'.snap = install.snp
      /\ fol'.precommit = fol.precommit /\ fol'.quick = install.snp
      /\ fol'.sm = fol.sm /\ fol'.value = fol.value /\ fol'.snaps = fol.snaps
  BY FollowerNow DEF Follower
<1>3. install'.pc = "none"
  BY FollowerNow DEF Installation
<1>4. install.snp <= install.snp /\ install.snp < install.snp + Distance
  BY FollowerNow, Numbers
<1>5. Installing'
  BY <1>3 DEF Installing
<1>6. Indexes'
  BY <1>1, <1>2, <1>3, <1>4 DEF Indexes
<1>7. ValueHeld'
  BY <1>1, <1>2, <1>3 DEF ValueHeld, Held
<1> QED  BY <1>5, <1>6, <1>7 DEF Follows

-----------------------------------------------------------------------------
(* The commit thread's steps.                                              *)

\* while it is awake no log has been cut by the handler
LEMMA Awake ==
    ASSUME TypeInv, Follows, thread.pc # "asleep"
    PROVE  /\ install.pc \in {"none", "compact"}
           /\ fol.sm <= fol.quick /\ fol.quick = fol.last /\ fol.quick <= fol.precommit
           /\ fol.start <= fol.snap + 1 /\ fol.snap <= fol.sm /\ Multiple(fol.snap)
           /\ install.pc = "compact" =>
                /\ Multiple(install.snp) /\ fol.sm <= install.snp
                /\ fol.sm = install.snp => thread.pc \in {"snapshot", "completed"}
                /\ install.snp \in DOMAIN fol.snaps =>
                    fol.snaps[install.snp] = Prefix(install.snp)
<1>1. install.pc \in {"none", "compact"}
  BY FollowerNow DEF Follows, Installing, Installation
<1> QED  BY <1>1 DEF Follows, Installing, Indexes

\* steps of it that leave the follower's indexes and snapshots
LEMMA ThreadFollows ==
    ASSUME SnapshotAssumption, TypeInv, Follows, thread.pc # "asleep",
           install' = install,
           fol'.start = fol.start, fol'.last = fol.last, fol'.snap = fol.snap,
           fol'.precommit = fol.precommit, fol'.quick = fol.quick,
           fol'.sm = fol.sm, fol'.snaps = fol.snaps,
           thread'.pc \in {"asleep", "loop", "read", "write", "advance"},
           fol.sm < fol.snap + Distance,
           fol.sm = install.snp => install.pc = "none",
           thread'.pc \in {"read", "write", "advance"} =>
              thread'.idx = fol.sm + 1 /\ thread'.idx <= fol.quick,
           ValueHeld'
    PROVE  Follows'
<1>1. Installing'
  BY Awake DEF Installing
<1>2. Indexes'
  BY Awake DEF Indexes
<1> QED  BY <1>1, <1>2 DEF Follows

\* the entry it is to apply is stored and announced
LEMMA EntryThere ==
    ASSUME SnapshotAssumption, TypeInv, Follows, thread.pc = "loop", Work
    PROVE  fol.sm + 1 \in fol.start..fol.last
<1>1. fol.start <= fol.snap + 1 /\ fol.snap <= fol.sm
  BY Awake
<1> QED  BY <1>1, FollowerNow, Numbers DEF Work

LEMMA EntryAnnounced ==
    ASSUME SnapshotAssumption, TypeInv, Follows, thread.pc = "read"
    PROVE  thread.idx <= fol.precommit
<1>1. thread.idx <= fol.quick /\ fol.quick <= fol.precommit
  BY Awake DEF Follows, Indexes
<1> QED  BY <1>1, FollowerNow, Numbers

\* between two entries, with no snapshot due
LEMMA Between ==
    ASSUME TypeInv, Follows, thread.pc \in {"loop", "read", "write", "advance"}
    PROVE  /\ fol.sm < fol.snap + Distance
           /\ fol.sm = install.snp => install.pc = "none"
           /\ thread.pc # "loop" => thread.idx = fol.sm + 1 /\ thread.idx <= fol.quick
<1>1. install.pc \in {"none", "compact"}
  BY Awake
<1> QED  BY <1>1 DEF Follows, Indexes, Installing

LEMMA StartFollows ==
    ASSUME SnapshotAssumption, TypeInv, Follows, Start
    PROVE  Follows'
<1>1. /\ thread.pc = "asleep" /\ Work /\ install' = install
      /\ fol' = [fol EXCEPT !.sm = Larger(fol.sm, fol.start - 1)]
      /\ thread' = [thread EXCEPT !.pc = "loop"]
  BY FollowerNow DEF Start, Follower
<1>2. install.pc \in {"none", "compact"}
  <2>1. ~ (fol.sm >= fol.quick)
    BY <1>1, FollowerNow, Numbers DEF Work
  <2> QED  BY <2>1, FollowerNow DEF Follows, Installing, Installation
<1>3. fol.start <= fol.snap + 1 /\ fol.snap <= fol.sm
  BY <1>2 DEF Follows, Indexes
<1>4. Larger(fol.sm, fol.start - 1) = fol.sm
  BY <1>3, FollowerNow, Numbers DEF Larger
<1>5. /\ fol'.start = fol.start /\ fol'.last = fol.last /\ fol'.snap = fol.snap
      /\ fol'.precommit = fol.precommit /\ fol'.quick = fol.quick
      /\ fol'.sm = fol.sm /\ fol'.value = fol.value /\ fol'.snaps = fol.snaps
  BY <1>1, <1>4, FollowerNow DEF Follower
<1>6. thread'.pc = "loop"
  BY <1>1, FollowerNow DEF Thread
<1>7. Installing'
  BY <1>1, <1>2, <1>5, <1>6 DEF Follows, Installing
<1>8. Indexes'
  BY <1>1, <1>2, <1>5, <1>6 DEF Follows, Indexes
<1>9. ValueHeld'
  BY <1>1, <1>2, <1>5, <1>6 DEF Follows, ValueHeld, Held
<1> QED  BY <1>7, <1>8, <1>9 DEF Follows

LEMMA SleepFollows ==
    ASSUME SnapshotAssumption, TypeInv, Follows, Sleep
    PROVE  Follows'
<1>1. thread.pc = "loop" /\ thread'.pc = "asleep" /\ UNCHANGED <<fol, install>>
  BY DEF Sleep, CommitStep
<1>2. ValueHeld'
  BY <1>1, Awake DEF Follows, ValueHeld, Held
<1> QED  BY <1>1, <1>2, Between, ThreadFollows

LEMMA FetchFollows ==
    ASSUME SnapshotAssumption, TypeInv, Follows, Fetch
    PROVE  Follows'
<1>1. thread.pc = "loop" /\ Work /\ install' = install
  BY DEF Fetch, CommitStep
<1>2. fol' = fol /\ thread' = [thread EXCEPT !.pc = "read", !.idx = fol.sm + 1]
  BY <1>1, EntryThere DEF Fetch
<1>3. thread'.pc = "read" /\ thread'.idx = fol.sm + 1
  BY <1>2, FollowerNow DEF Thread
<1>4. fol.sm + 1 <= fol.quick
  BY <1>1, FollowerNow, Numbers DEF Work
<1>5. ValueHeld'
  BY <1>1, <1>2, <1>3, Awake DEF Follows, ValueHeld, Held
<1> QED  BY <1>1, <1>2, <1>3, <1>4, <1>5, Between, ThreadFollows

LEMMA ReadFollows ==
    ASSUME SnapshotAssumption, TypeInv, Follows, Read
    PROVE  Follows'
<1>1. thread.pc = "read" /\ install' = install
  BY DEF Read, CommitStep
<1>2. fol' = fol /\ thread' = [thread EXCEPT !.pc = "write", !.prev = fol.value]
  BY <1>1, EntryAnnounced DEF Read
<1>3. thread'.pc = "write" /\ thread'.idx = thread.idx /\ thread'.prev = fol.value
  BY <1>2, FollowerNow DEF Thread
<1>4. ValueHeld'
  BY <1>1, <1>2, <1>3, Awake DEF Follows, ValueHeld, Held
<1> QED  BY <1>1, <1>2, <1>3, <1>4, Between, ThreadFollows

LEMMA WriteFollows ==
    ASSUME SnapshotAssumption, TypeInv, Follows, Write
    PROVE  Follows'
<1>1. /\ thread.pc = "write" /\ install' = install
      /\ fol' = [fol EXCEPT !.value = Append(thread.prev, thread.idx)]
      /\ thread' = [thread EXCEPT !.pc = "advance"]
  BY DEF Write, CommitStep
<1>2. thread.prev = Prefix(fol.sm) /\ thread.idx = fol.sm + 1
  BY <1>1 DEF Follows, ValueHeld, Indexes
<1>3. Append(thread.prev, thread.idx) = Prefix(fol.sm + 1)
  BY <1>2, FollowerNow, Numbers, PrefixNext
<1>4. /\ fol'.start = fol.start /\ fol'.last = fol.last /\ fol'.snap = fol.snap
      /\ fol'.precommit = fol.precommit /\ fol'.quick = fol.quick
      /\ fol'.sm = fol.sm /\ fol'.value = Prefix(fol.sm + 1)
      /\ fol'.snaps = fol.snaps
  BY <1>1, <1>3, FollowerNow DEF Follower
<1>5. thread'.pc = "advance" /\ thread'.idx = thread.idx
  BY <1>1, FollowerNow DEF Thread
<1>6. ValueHeld'
  BY <1>1, <1>4, <1>5, Awake DEF Follows, ValueHeld, Held
<1> QED  BY <1>1, <1>4, <1>5, <1>6, Between, ThreadFollows

LEMMA AdvanceFollows ==
    ASSUME SnapshotAssumption, TypeInv, Follows, Advance
    PROVE  Follows'
<1>1. thread.pc = "advance" /\ install' = install
  BY DEF Advance, CommitStep
<1>2. /\ thread.idx = fol.sm + 1 /\ thread.idx <= fol.quick
      /\ fol.sm < fol.snap + Distance /\ fol.snap <= fol.sm
      /\ install.pc = "compact" => fol.sm <= install.snp /\ fol.sm # install.snp
  BY <1>1, Between, Awake
<1>3. fol.sm = thread.idx - 1
  BY <1>2, FollowerNow, Numbers
<1>4. /\ fol' = [fol EXCEPT !.sm = thread.idx]
      /\ thread' = [thread EXCEPT !.pc = "snapshot"]
  BY <1>3 DEF Advance
<1>5. /\ fol'.start = fol.start /\ fol'.last = fol.last /\ fol'.snap = fol.snap
      /\ fol'.precommit = fol.precommit /\ fol'.quick = fol.quick
      /\ fol'.sm = thread.idx /\ fol'.value = fol.value /\ fol'.snaps = fol.snaps
  BY <1>4, FollowerNow DEF Follower
<1>6. thread'.pc = "snapshot"
  BY <1>4, FollowerNow DEF Thread
<1>7. /\ fol'.sm <= fol.snap + Distance /\ fol.snap < fol'.sm /\ fol.snap <= fol'.sm
      /\ install.pc = "compact" => fol'.sm <= install.snp
  BY <1>2, <1>5, FollowerNow, Numbers
<1>8. Installing'
  BY <1>1, <1>5, <1>6, <1>7, Awake DEF Installing
<1>9. Indexes'
  BY <1>1, <1>2, <1>5, <1>6, <1>7, Awake DEF Indexes
<1>10. ValueHeld'
  BY <1>1, <1>2, <1>5, <1>6, Awake DEF Follows, ValueHeld, Held
<1> QED  BY <1>8, <1>9, <1>10 DEF Follows

\* a snapshot is made at the next multiple, which is where the one that is
\* being installed is waited for
LEMMA CreateSnapshotFollows ==
    ASSUME SnapshotAssumption, TypeInv, Follows, CreateSnapshot
    PROVE  Follows'
<1>1. thread.pc = "snapshot" /\ install' = install
  BY DEF CreateSnapshot, CommitStep
<1>2. /\ fol.sm \in Nat /\ fol.start \in Nat \ {0} /\ fol.snap \in Nat
      /\ install.snp \in Nat /\ fol.sm > 0
      /\ fol.start <= fol.snap + 1 /\ fol.snap < fol.sm /\ fol.snap <= fol.sm
      /\ fol.sm <= fol.snap + Distance /\ Multiple(fol.snap)
      /\ fol.value = Prefix(fol.sm)
  <2>1. fol.start <= fol.snap + 1 /\ fol.snap <= fol.sm /\ Multiple(fol.snap)
        /\ install.pc \in {"none", "compact"}
    BY <1>1, Awake
  <2>2. fol.snap < fol.sm /\ fol.sm <= fol.snap + Distance
    BY <1>1 DEF Follows, Indexes
  <2>3. fol.value = Prefix(fol.sm)
    BY <1>1, <2>1 DEF Follows, ValueHeld, Held
  <2>4. fol.sm > 0
    BY <1>1, FollowerNow DEF FollowerInBounds
  <2> QED  BY <2>1, <2>2, <2>3, <2>4, FollowerNow, Numbers
<1>3. /\ Due(fol.sm, fol.start, fol.snap) =>
            fol.sm = fol.snap + Distance /\ Multiple(fol.sm)
      /\ ~Due(fol.sm, fol.start, fol.snap) => fol.sm < fol.snap + Distance
  BY <1>2, DueAtMultiple
<1>4. CASE Due(fol.sm, fol.start, fol.snap)
  <2>1. /\ fol' = [fol EXCEPT !.snaps = WithSnapshot(fol.snaps, fol.sm, fol.value)]
        /\ thread' = [thread EXCEPT !.pc = "completed", !.idx = fol.sm]
    BY <1>4, FollowerNow DEF CreateSnapshot, Follower
  <2>2. /\ fol'.start = fol.start /\ fol'.last = fol.last /\ fol'.snap = fol.snap
        /\ fol'.precommit = fol.precommit /\ fol'.quick = fol.quick
        /\ fol'.sm = fol.sm /\ fol'.value = fol.value
        /\ fol'.snaps = WithSnapshot(fol.snaps, fol.sm, fol.value)
    BY <2>1, FollowerNow DEF Follower
  <2>3. thread'.pc = "completed" /\ thread'.idx = fol.sm
    BY <2>1, FollowerNow DEF Thread
  <2>4. /\ DOMAIN fol'.snaps \subseteq DOMAIN fol.snaps \union {fol.sm}
        /\ \A x \in DOMAIN fol'.snaps :
              fol'.snaps[x] = IF x = fol.sm THEN Prefix(fol.sm) ELSE fol.snaps[x]
    <3>1. fol.sm \in 1..MaxIndex
      BY <1>2, FollowerNow, Numbers
    <3> QED  BY <1>2, <2>2, <3>1, FollowerNow, WithSnapshotType
  <2>5. Installing'
    <3>1. install.pc = "compact" /\ install.snp \in DOMAIN fol'.snaps =>
            fol'.snaps[install.snp] = Prefix(install.snp)
      BY <1>1, <2>4, Awake
    <3> QED  BY <1>1, <2>2, <2>3, <3>1, Awake DEF Installing
  <2>6. Indexes'
    BY <1>1, <1>3, <1>4, <2>2, <2>3, Awake DEF Indexes
  <2>7. ValueHeld'
    BY <1>1, <1>2, <2>2, <2>3, <2>4, Awake DEF Follows, ValueHeld, Held
  <2> QED  BY <2>5, <2>6, <2>7 DEF Follows
<1>5. CASE ~Due(fol.sm, fol.start, fol.snap)
  <2>1. fol' = fol /\ thread' = [thread EXCEPT !.pc = "loop"]
    BY <1>5 DEF CreateSnapshot
  <2>2. thread'.pc = "loop"
    BY <2>1, FollowerNow DEF Thread
  <2>3. ASSUME fol.sm = install.snp, install.pc = "compact"
        PROVE  FALSE
    <3>1. Multiple(fol.sm)
      BY <1>1, <2>3, Awake
    <3>2. fol.snap + Distance <= fol.sm
      BY <1>2, <3>1, MultipleGap
    <3> QED  BY <1>2, <1>3, <1>5, <3>2, Numbers
  <2>4. fol.sm = install.snp => install.pc = "none"
    BY <1>1, <2>3, Awake
  <2>5. ValueHeld'
    BY <1>1, <2>1, <2>2, Awake DEF Follows, ValueHeld, Held
  <2> QED  BY <1>1, <1>3, <1>5, <2>1, <2>2, <2>4, <2>5, ThreadFollows
<1> QED  BY <1>4, <1>5

\* the thread's own snapshot becomes last_snapshot_
LEMMA SnapshotCompletedFollows ==
    ASSUME SnapshotAssumption, TypeInv, Follows, SnapshotCompleted, crossed' = {}
    PROVE  Follows'
<1> DEFINE k == Max(DOMAIN fol.snaps)
           start == StartAfter(k, fol.start)
<1>1. /\ thread.pc = "completed" /\ install.pc = "none" /\ k = thread.idx
      /\ fol' = [fol EXCEPT !.snap = k, !.start = start,
                            !.last = Larger(fol.last, start - 1)]
      /\ thread' = [thread EXCEPT !.pc = "loop"]
      /\ install' = install
  BY FollowerNow DEF SnapshotCompleted, CommitStep, Follower
<1>2. /\ fol.sm = fol.snap + Distance /\ k = fol.sm /\ fol.value = Prefix(fol.sm)
      /\ fol.sm \in DOMAIN fol.snaps => fol.snaps[fol.sm] = Prefix(fol.sm)
      /\ fol.sm <= fol.quick /\ fol.quick = fol.last /\ fol.quick <= fol.precommit
      /\ fol.start <= fol.snap + 1 /\ Multiple(fol.snap)
  BY <1>1, Awake DEF Follows, Indexes, ValueHeld, Held
<1> HIDE DEF k
<1>3. Multiple(fol.sm)
  BY <1>2, FollowerNow, Numbers, MultipleNext
<1>4. start \in Nat \ {0} /\ start <= fol.sm + 1
  <2>1. fol.sm \in Nat /\ fol.start \in Nat \ {0} /\ fol.start <= fol.sm + 1
    BY <1>2, FollowerNow, Numbers
  <2> QED  BY <1>2, <2>1, StartAfterBounds
<1> HIDE DEF start
<1>5. Larger(fol.last, start - 1) = fol.last
  BY <1>2, <1>4, FollowerNow, Numbers DEF Larger
<1>6. /\ fol'.start = start /\ fol'.last = fol.last /\ fol'.snap = fol.sm
      /\ fol'.precommit = fol.precommit /\ fol'.quick = fol.quick
      /\ fol'.sm = fol.sm /\ fol'.value = fol.value /\ fol'.snaps = fol.snaps
  BY <1>1, <1>2, <1>5, FollowerNow DEF Follower
<1>7. thread'.pc = "loop"
  BY <1>1, FollowerNow DEF Thread
<1>8. Installing'
  BY <1>1 DEF Installing
<1>9. Indexes'
  <2>1. fol.sm <= fol.sm /\ fol.sm < fol.sm + Distance
    BY FollowerNow, Numbers
  <2> QED  BY <1>1, <1>2, <1>3, <1>4, <1>6, <1>7, <2>1 DEF Indexes
<1>10. ValueHeld'
  BY <1>1, <1>2, <1>6, <1>7 DEF ValueHeld, Held
<1> QED  BY <1>8, <1>9, <1>10 DEF Follows

-----------------------------------------------------------------------------
\* the steps of the follower
FollowerStep ==
    (\E q \in reqs : HandleRequest(q)) \/ Install \/ CommitThread

LEMMA FollowerStepFollows ==
    ASSUME SnapshotAssumption, TypeInv, LeaderCut, Follows, FollowerStep, crossed' = {}
    PROVE  Follows'
<1>1. ASSUME NEW q \in reqs, HandleRequest(q)
      PROVE  Follows'
  <2>1. CASE HandleAppend(q)
    BY <2>1, HandleAppendFollows
  <2>2. CASE DeclineSnapshot(q)
    BY <2>2 DEF DeclineSnapshot, Follows, Installing, Indexes, ValueHeld, Held
  <2>3. CASE FirstObject(q)
    BY <2>3, FirstObjectFollows
  <2>4. CASE LastObject(q)
    BY <2>4, LastObjectFollows
  <2>5. CASE Finish(q)
    BY <2>5, FinishedFollows DEF Finish
  <2> QED  BY <1>1, <2>1, <2>2, <2>3, <2>4, <2>5 DEF HandleRequest
<1>2. CASE Install
  <2>1. CASE FinishUnheard
    BY <2>1, FinishedFollows DEF FinishUnheard
  <2> QED  BY <1>2, <2>1, CompactFollows, ApplySnapshotFollows, SetIndexesFollows
           DEF Install
<1>3. CASE CommitThread
  BY <1>3, StartFollows, SleepFollows, FetchFollows, ReadFollows, WriteFollows,
     AdvanceFollows, CreateSnapshotFollows, SnapshotCompletedFollows DEF CommitThread
<1> QED  BY <1>1, <1>2, <1>3 DEF FollowerStep

LEMMA FollowerStepCut ==
    ASSUME LeaderCut, FollowerStep
    PROVE  LeaderCut'
<1>1. lead' = lead /\ reqs' \subseteq reqs
  <2>1. ASSUME NEW q \in reqs, HandleRequest(q)
        PROVE  lead' = lead /\ reqs' \subseteq reqs
    BY <2>1 DEF HandleRequest, HandleAppend, DeclineSnapshot, FirstObject,
       LastObject, Finish, Reply
  <2>2. CASE Install
    BY <2>2 DEF Install, Compact, ApplySnapshot, SetIndexes, FinishUnheard
  <2>3. CASE CommitThread
    BY <2>3 DEF CommitThread, Start, Sleep, Fetch, Read, Write, Advance,
       CreateSnapshot, SnapshotCompleted
  <2> QED  BY <2>1, <2>2, <2>3 DEF FollowerStep
<1> QED  BY <1>1 DEF LeaderCut

LEMMA SyncStep ==
    ASSUME SnapshotAssumption, SyncInv, [Next]_vars
    PROVE  SyncInv'
<1>1. TypeInv /\ LeaderCut /\ TypeInv'
  BY TypeStep DEF SyncInv
<1>2. CASE LeaderStep
  <2>1. LeaderCut' /\ UNCHANGED <<fol, thread, install, crossed>>
    BY <1>1, <1>2, LeaderStepCut
  <2>2. Follows => Follows'
    BY <2>1 DEF Follows, Installing, Indexes, ValueHeld, Held
  <2> QED  BY <1>1, <2>1, <2>2 DEF SyncInv
<1>3. CASE FollowerStep
  <2>1. crossed' = {} => crossed = {}
    BY CrossedStep
  <2>2. LeaderCut'
    BY <1>1, <1>3, FollowerStepCut
  <2>3. crossed' = {} => Follows'
    BY <1>1, <1>3, <2>1, FollowerStepFollows DEF SyncInv
  <2> QED  BY <1>1, <2>2, <2>3 DEF SyncInv
<1>4. CASE UNCHANGED vars
  <2>1. LeaderCut' /\ (Follows => Follows') /\ crossed' = crossed
    BY <1>1, <1>4 DEF vars, LeaderCut, Follows, Installing, Indexes, ValueHeld, Held
  <2> QED  BY <1>1, <2>1 DEF SyncInv
<1> QED  BY <1>2, <1>3, <1>4 DEF Next, LeaderStep, FollowerStep

LEMMA SyncInit ==
    ASSUME SnapshotAssumption, Init
    PROVE  SyncInv
<1>1. TypeInv
  BY TypeInit
<1>2. Multiple(0)
  BY Numbers DEF Multiple
<1>3. Prefix(0) = << >>
  BY DEF Prefix
<1>4. LeaderCut
  BY <1>2, Numbers DEF Init, LeaderCut
<1>5. Indexes
  BY <1>2, Numbers DEF Init, Indexes
<1>6. Installing /\ ValueHeld
  BY <1>3 DEF Init, Installing, ValueHeld, Held
<1> QED  BY <1>1, <1>4, <1>5, <1>6 DEF SyncInv, Follows

LEMMA SyncInvariant == Spec => []SyncInv
<1>1. Init => SyncInv
  BY SnapshotAssumption, SyncInit
<1>2. SyncInv /\ [Next]_vars => SyncInv'
  BY SnapshotAssumption, SyncStep
<1> QED  BY <1>1, <1>2, PTL DEF Spec

\* As long as handler and commit thread keep apart, the follower's value is
\* that of the entries it counts as applied, whether they came by its log or
\* by a snapshot, and whatever was cut off between.
THEOREM ValueIsPrefix == Spec => []StateIsPrefixApart
<1>1. SyncInv => StateIsPrefixApart
  BY DEF SyncInv, Follows, ValueHeld, Held, StateIsPrefix, StateIsPrefixApart
<1> QED  BY <1>1, SyncInvariant, PTL

\* As long, what a follower calls its last snapshot is one of the state it says.
THEOREM LastSnapshotIsTrue == Spec => []SnapshotIsTrueApart
<1>1. SyncInv => SnapshotIsTrueApart
  BY DEF SyncInv, Follows, ValueHeld, SnapshotIsTrue, SnapshotIsTrueApart
<1> QED  BY <1>1, SyncInvariant, PTL

\* As long, no entry is cut from the follower's log that it has not applied.
THEOREM LogReachesState == Spec => []NothingSkippedApart
<1>1. SyncInv => NothingSkippedApart
  BY SnapshotAssumption, FollowerNow, Numbers
     DEF SyncInv, Follows, Indexes, NothingSkipped, NothingSkippedApart
<1> QED  BY <1>1, SyncInvariant, PTL

\* As long, entries go to the slots of their indexes.
THEOREM AcceptedRequestsFit == Spec => []RequestsFitApart
<1>1. SyncInv => RequestsFitApart
  BY SnapshotAssumption, FitsLog DEF SyncInv, RequestsFit, RequestsFitApart
<1> QED  BY <1>1, SyncInvariant, PTL

\* As long, the commit thread stops the process neither with N19 nor with N23.
THEOREM CommitNeverStops == Spec => []CommitFindsEntryApart
<1>1. SyncInv => CommitFindsEntryApart
  BY SnapshotAssumption, EntryThere, EntryAnnounced
     DEF SyncInv, CommitFindsEntry, CommitFindsEntryApart
<1> QED  BY <1>1, SyncInvariant, PTL

=============================================================================
