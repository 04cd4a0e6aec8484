------------------------- MODULE RocksLogStore_proofs -------------------------
(***************************************************************************)
(* What the RocksDB log store guarantees, for every MaxIndex, Terms and    *)
(* MaxPack and whatever operations are called: the state is well typed,    *)
(* and no entry is lost or changed by anything but the calls that may.     *)
(***************************************************************************)
EXTENDS RocksLogStore, WellFoundedInduction, TLAPS

USE RocksAssumption DEF Index, Dummy

-----------------------------------------------------------------------------
(* First and last key of the column family *)

\* A non-empty set of indices has a least element.
LEMMA HasMin ==
    ASSUME NEW S \in SUBSET Nat, S # {}
    PROVE  \E m \in S : \A k \in S : m <= k
<1> DEFINE R == OpToRel(<, Nat)
<1>1. IsWellFoundedOn(R, Nat)
  BY NatLessThanWellFounded
<1>2. \A x, y \in Nat : <<x, y>> \in R <=> x < y
  BY DEF OpToRel
<1> HIDE DEF R
<1>3. PICK x \in S : \A y \in S : ~(<<y, x>> \in R)
  BY <1>1, WFMin
<1>4. \A y \in S : x \in Nat /\ y \in Nat /\ ~(y < x)
  BY <1>2, <1>3
<1> QED BY <1>4

\* A non-empty set of indices has a greatest element.
LEMMA HasMax ==
    ASSUME NEW b \in Nat, NEW S \in SUBSET (0..b), S # {}
    PROVE  \E m \in S : \A k \in S : k <= m
<1> DEFINE U == {b - k : k \in S}
<1>1. U \in SUBSET Nat
  <2>1. \A k \in S : b - k \in Nat  OBVIOUS
  <2> QED BY <2>1
<1>2. U # {}  OBVIOUS
<1>3. PICK m \in U : \A k \in U : m <= k  BY <1>1, <1>2, HasMin
<1>4. PICK x \in S : m = b - x  OBVIOUS
<1>5. \A k \in S : k <= x
  <2> TAKE k \in S
  <2>1. b - k \in U  OBVIOUS
  <2>2. b - x <= b - k  BY <1>3, <1>4, <2>1
  <2> QED BY <2>2
<1> QED BY <1>5

\* get_first returns the smallest key, and 0 only on an empty family.
LEMMA FirstIdxIsMin ==
    ASSUME NEW S \in SUBSET Index
    PROVE  /\ S = {} => FirstIdx(S) = 0
           /\ S # {} => FirstIdx(S) \in S /\ \A k \in S : FirstIdx(S) <= k
<1>1. CASE S = {}  BY <1>1 DEF FirstIdx
<1>2. CASE S # {}
  <2>1. \E m \in S : \A k \in S : m <= k  BY <1>2, HasMin
  <2> QED BY <1>2, <2>1 DEF FirstIdx
<1> QED BY <1>1, <1>2

\* get_last returns the largest key, and 0 only on an empty family.
LEMMA LastIdxIsMax ==
    ASSUME NEW S \in SUBSET Index
    PROVE  /\ S = {} => LastIdx(S) = 0
           /\ S # {} => LastIdx(S) \in S /\ \A k \in S : k <= LastIdx(S)
<1>1. CASE S = {}  BY <1>1 DEF LastIdx
<1>2. CASE S # {}
  <2>1. S \in SUBSET (0..MaxIndex)  OBVIOUS
  <2>2. \E m \in S : \A k \in S : k <= m  BY <1>2, <2>1, HasMax
  <2> QED BY <1>2, <2>2 DEF LastIdx
<1> QED BY <1>1, <1>2

\* Nothing is stored past the last index.
LEMMA NothingAfterLast ==
    ASSUME TypeOK
    PROVE  /\ LastIdx(Stored) \in 0..MaxIndex
           /\ \A i \in Index : i > LastIdx(Stored) => raftLog[i] = Dummy
<1>1. Stored \in SUBSET Index  BY DEF Stored
<1>2. \A i \in Index : i \notin Stored => raftLog[i] = Dummy  BY DEF Stored
<1>3. CASE Stored = {}
  <2>1. LastIdx(Stored) = 0  BY <1>1, <1>3, LastIdxIsMax
  <2> QED BY <2>1, <1>2, <1>3
<1>4. CASE Stored # {}
  <2>1. LastIdx(Stored) \in Stored /\ \A k \in Stored : k <= LastIdx(Stored)
    BY <1>1, <1>4, LastIdxIsMax
  <2>2. LastIdx(Stored) \in Index  BY <1>1, <2>1
  <2>3. \A i \in Index : i > LastIdx(Stored) => i \notin Stored
    BY <2>1, <2>2
  <2> QED BY <1>2, <2>2, <2>3
<1> QED BY <1>3, <1>4

\* start_idx_ read back from the store is an index.
LEMMA StartFromTyped ==
    ASSUME NEW S \in SUBSET Index, NEW d \in 1..MaxIndex+1
    PROVE  StartFrom(S, d) \in 1..MaxIndex+1
<1>1. CASE S = {}  BY <1>1 DEF StartFrom
<1>2. CASE S # {}
  <2>1. FirstIdx(S) \in Index  BY <1>2, FirstIdxIsMin
  <2>2. StartFrom(S, d) = FirstIdx(S)  BY <1>2 DEF StartFrom
  <2> QED BY <2>1, <2>2
<1> QED BY <1>1, <1>2

-----------------------------------------------------------------------------

\* Type correctness of the store.
THEOREM RocksTypeCorrect == Spec => []TypeOK
<1>1. Init => TypeOK
  BY DEF Init, TypeOK, Idle, CallRecord
<1>2. TypeOK /\ [Next]_rocksVars => TypeOK'
  <2> SUFFICES ASSUME TypeOK, [Next]_rocksVars PROVE TypeOK'
    OBVIOUS
  <2> USE DEF TypeOK
  <2>1. ASSUME NEW t \in Terms, Append(t) PROVE TypeOK'
    BY <2>1 DEF Append
  <2>2. ASSUME NEW i \in Index, NEW t \in Terms, WriteAtErase(i, t)
        PROVE  TypeOK'
    BY <2>2 DEF WriteAtErase, RemoveRange, CallRecord
  <2>3. CASE WriteAtPut
    BY <2>3 DEF WriteAtPut, CallRecord, Idle
  <2>4. ASSUME NEW n \in 1..MaxPack, NEW pack \in [1..MaxPack -> Terms],
               ApplyPack(n, pack)
        PROVE  TypeOK'
    <3>1. NextSlot \in Nat
      BY NothingAfterLast DEF NextSlot
    <3>2. \A i \in Index : i \in NextSlot..NextSlot+n-1
                           => i - NextSlot + 1 \in 1..MaxPack
      BY <3>1
    <3>3. raftLog' \in [Index -> Terms \cup {Dummy}]
      BY <2>4, <3>1, <3>2 DEF ApplyPack
    <3>4. startIdx' = StartFrom({i \in Index : raftLog'[i] # Dummy}, startIdx)
      BY <2>4 DEF ApplyPack
    <3>5. startIdx' \in 1..MaxIndex+1
      BY <3>4, StartFromTyped
    <3> QED BY <2>4, <3>3, <3>5 DEF ApplyPack
  <2>5. ASSUME NEW last \in Index, CompactErase(last) PROVE TypeOK'
    BY <2>5 DEF CompactErase, RemoveRange, CallRecord
  <2>6. CASE CompactAdvance
    BY <2>6 DEF CompactAdvance, CallRecord, Idle
  <2>7. CASE Restart
    <3>1. StartFrom(Stored, 1) \in 1..MaxIndex+1
      BY StartFromTyped DEF Stored
    <3> QED BY <2>7, <3>1 DEF Restart, CallRecord, Idle
  <2>8. CASE UNCHANGED rocksVars
    BY <2>8 DEF rocksVars
  <2> QED
    BY <2>1, <2>2, <2>3, <2>4, <2>5, <2>6, <2>7, <2>8 DEF Next
<1> QED BY <1>1, <1>2, PTL DEF Spec

\* Whatever the start index has become, append stores beyond the last key.
LEMMA AppendIsBeyondTheLog ==
    ASSUME TypeOK, AppendIdx \in Index
    PROVE  raftLog[AppendIdx] = Dummy
<1>1. AppendIdx > LastIdx(Stored)
  BY NothingAfterLast DEF AppendIdx, TypeOK
<1> QED BY <1>1, NothingAfterLast

\* A stored entry is lost or changed only by a write_at at or below it or by
\* a compaction that covers it.
THEOREM RocksKeepsEntries == Spec => EntriesLostOnlyByCall
<1> DEFINE Kept == \A i \in Index :
                      raftLog[i] # Dummy /\ raftLog'[i] # raftLog[i]
                      => Allowed(call, i) \/ Allowed(call', i)
<1>1. TypeOK /\ [Next]_rocksVars => [Kept]_rocksVars
  <2> SUFFICES ASSUME TypeOK, Next PROVE Kept
    OBVIOUS
  <2>1. ASSUME NEW t \in Terms, Append(t) PROVE Kept
    BY <2>1, AppendIsBeyondTheLog DEF Append, TypeOK
  <2>2. ASSUME NEW i \in Index, NEW t \in Terms, WriteAtErase(i, t) PROVE Kept
    BY <2>2 DEF WriteAtErase, RemoveRange, Allowed, TypeOK
  <2>3. CASE WriteAtPut
    BY <2>3 DEF WriteAtPut, Allowed, TypeOK, CallRecord
  <2>4. ASSUME NEW n \in 1..MaxPack, NEW pack \in [1..MaxPack -> Terms],
               ApplyPack(n, pack)
        PROVE  Kept
    <3>1. \A i \in Index : i >= NextSlot => raftLog[i] = Dummy
      BY NothingAfterLast DEF NextSlot
    <3>2. NextSlot \in Nat
      BY NothingAfterLast DEF NextSlot
    <3> QED BY <2>4, <3>1, <3>2 DEF ApplyPack, TypeOK
  <2>5. ASSUME NEW last \in Index, CompactErase(last) PROVE Kept
    BY <2>5 DEF CompactErase, RemoveRange, Allowed, TypeOK
  <2>6. CASE CompactAdvance
    BY <2>6 DEF CompactAdvance
  <2>7. CASE Restart
    BY <2>7 DEF Restart
  <2> QED
    BY <2>1, <2>2, <2>3, <2>4, <2>5, <2>6, <2>7 DEF Next
<1> QED BY <1>1, RocksTypeCorrect, PTL DEF Spec, EntriesLostOnlyByCall

=============================================================================
