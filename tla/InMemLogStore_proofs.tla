------------------------- MODULE InMemLogStore_proofs -------------------------
(***************************************************************************)
(* The in-memory log store implements the contract of LogStore, for every  *)
(* MaxIndex, Terms and MaxPack.                                            *)
(***************************************************************************)
EXTENDS InMemLogStore, FiniteSetTheorems, TLAPS

USE InMemAssumption DEF Index, Dummy

\* The inductive invariant: the keys are the indices from start_idx_ to
\* next_slot() - 1, and an apply_pack under way puts at next_slot().
IInv ==
    /\ logs \in [Index -> Terms \cup {Dummy}]
    /\ startIdx \in 1..MaxIndex+1
    /\ NextSlot \in startIdx..MaxIndex+1
    /\ Keys(logs) = startIdx..NextSlot-1
    /\ packing \in [from : 0..MaxIndex, done : 0..MaxPack, size : 0..MaxPack]
    /\ packing.done <= packing.size
    /\ packing # NotPacking =>
          /\ packing.size > 0
          /\ packing.from >= startIdx
          /\ packing.from + packing.done = NextSlot
          /\ packing.from + packing.size <= MaxIndex + 1

\* The number of keys gives next_slot() when the keys are consecutive.
LEMMA ConsecutiveKeys ==
    ASSUME NEW m, NEW s \in 1..MaxIndex+1, NEW n \in s..MaxIndex+1,
           Keys(m) = s..n-1
    PROVE  s + Cardinality(Keys(m)) = n
<1>1. n - 1 \in Int /\ s \in Int  OBVIOUS
<1>2. Cardinality(s..n-1) = IF s > n - 1 THEN 0 ELSE (n - 1) - s + 1
  BY <1>1, FS_Interval
<1> QED BY <1>2

\* The invariant restated as facts about integers and single keys.
LEMMA LogFacts ==
    ASSUME IInv
    PROVE  /\ logs \in [Index -> Terms \cup {Dummy}]
           /\ startIdx \in Nat /\ 1 <= startIdx /\ startIdx <= MaxIndex + 1
           /\ NextSlot \in Nat /\ startIdx <= NextSlot /\ NextSlot <= MaxIndex + 1
           /\ \A i \in Index : logs[i] # Dummy <=> startIdx <= i /\ i < NextSlot
BY DEF IInv, Keys

LEMMA PackFacts ==
    ASSUME IInv
    PROVE  /\ packing \in [from : 0..MaxIndex, done : 0..MaxPack, size : 0..MaxPack]
           /\ packing.done <= packing.size
           /\ packing # NotPacking =>
                /\ packing.size > 0
                /\ packing.from >= startIdx
                /\ packing.from + packing.done = NextSlot
                /\ packing.from + packing.size <= MaxIndex + 1
BY DEF IInv

\* To keep the part of the invariant about the log it is enough to name the
\* next slot and say which keys are left.
LEMMA LogStep ==
    ASSUME NEW s, NEW n, s \in 1..MaxIndex+1, n \in s..MaxIndex+1,
           startIdx' = s,
           logs' \in [Index -> Terms \cup {Dummy}],
           \A i \in Index : logs'[i] # Dummy <=> s <= i /\ i < n
    PROVE  /\ NextSlot' = n
           /\ NextSlot' \in startIdx'..MaxIndex+1
           /\ Keys(logs') = startIdx'..NextSlot'-1
<1>1. Keys(logs') = s..n-1  BY DEF Keys
<1>2. NextSlot' = n  BY <1>1, ConsecutiveKeys DEF NextSlot
<1> QED BY <1>1, <1>2

-----------------------------------------------------------------------------

LEMMA AppendStep ==
    ASSUME IInv, NEW t \in Terms, Append(t)
    PROVE  IInv' /\ Contract!Append(t)
<1>1. NextSlot \in Index /\ logs' = [logs EXCEPT ![NextSlot] = t]
      /\ startIdx' = startIdx /\ packing' = packing /\ packing = NotPacking
  BY DEF Append
<1>2. logs' \in [Index -> Terms \cup {Dummy}]
      /\ \A i \in Index : logs'[i] # Dummy <=> startIdx <= i /\ i < NextSlot + 1
  BY <1>1, LogFacts
<1>3. startIdx \in 1..MaxIndex+1 /\ NextSlot + 1 \in startIdx..MaxIndex+1
  BY <1>1, LogFacts
<1>4. /\ NextSlot' = NextSlot + 1
      /\ NextSlot' \in startIdx'..MaxIndex+1
      /\ Keys(logs') = startIdx'..NextSlot'-1
  BY <1>1, <1>2, <1>3, LogStep
<1>5. IInv'
  BY <1>1, <1>2, <1>3, <1>4, PackFacts DEF IInv
<1>6. Contract!Append(t)
  BY <1>1, <1>4 DEF Contract!Append, Contract!Index
<1> QED BY <1>5, <1>6

LEMMA WriteAtStep ==
    ASSUME IInv, NEW k \in Index, NEW t \in Terms, WriteAt(k, t)
    PROVE  IInv' /\ Contract!WriteAt(k, t)
<1>1. startIdx <= k /\ k < NextSlot /\ startIdx' = startIdx
      /\ packing' = packing /\ packing = NotPacking
      /\ logs' = [i \in Index |-> IF i < k THEN logs[i]
                                  ELSE IF i = k THEN t ELSE Dummy]
  BY DEF WriteAt
<1>2. logs' \in [Index -> Terms \cup {Dummy}]
      /\ \A i \in Index : logs'[i] # Dummy <=> startIdx <= i /\ i < k + 1
  BY <1>1, LogFacts
<1>3. startIdx \in 1..MaxIndex+1 /\ k + 1 \in startIdx..MaxIndex+1
  BY <1>1, LogFacts
<1>4. /\ NextSlot' = k + 1
      /\ NextSlot' \in startIdx'..MaxIndex+1
      /\ Keys(logs') = startIdx'..NextSlot'-1
  BY <1>1, <1>2, <1>3, LogStep
<1>5. IInv'
  BY <1>1, <1>2, <1>3, <1>4, PackFacts DEF IInv
<1>6. k \in startIdx..NextSlot-1
  BY <1>1, LogFacts
<1>7. Contract!WriteAt(k, t)
  BY <1>1, <1>4, <1>6 DEF Contract!WriteAt, Contract!Index, Contract!Dummy
<1> QED BY <1>5, <1>7

LEMMA PackBeginStep ==
    ASSUME IInv, NEW n \in 1..MaxPack, ApplyPackBegin(n)
    PROVE  IInv' /\ UNCHANGED Contract!logVars
<1>1. /\ packing' = [from |-> NextSlot, done |-> 0, size |-> n]
      /\ NextSlot + n - 1 <= MaxIndex
      /\ logs' = logs /\ startIdx' = startIdx
  BY DEF ApplyPackBegin
<1>2. NextSlot' = NextSlot  BY <1>1 DEF NextSlot
<1>3. NextSlot \in 0..MaxIndex  BY <1>1, LogFacts
<1>4. packing' \in [from : 0..MaxIndex, done : 0..MaxPack, size : 0..MaxPack]
  BY <1>1, <1>3
<1>5. /\ packing'.done <= packing'.size
      /\ packing'.size > 0
      /\ packing'.from >= startIdx
      /\ packing'.from + packing'.done = NextSlot
      /\ packing'.from + packing'.size <= MaxIndex + 1
  BY <1>1, LogFacts
<1> QED BY <1>1, <1>2, <1>4, <1>5 DEF IInv, Contract!logVars

LEMMA PackPutStep ==
    ASSUME IInv, NEW t \in Terms, ApplyPackPut(t)
    PROVE  IInv' /\ Contract!Append(t)
<1>1. packing # NotPacking /\ packing.done < packing.size
  BY DEF ApplyPackPut, NotPacking
<1>2. /\ logs' = [logs EXCEPT ![NextSlot] = t]
      /\ startIdx' = startIdx
      /\ packing' = [packing EXCEPT !.done = packing.done + 1]
  BY <1>1, PackFacts DEF ApplyPackPut
<1>3. NextSlot \in Index
  BY <1>1, LogFacts, PackFacts
<1>4. logs' \in [Index -> Terms \cup {Dummy}]
      /\ \A i \in Index : logs'[i] # Dummy <=> startIdx <= i /\ i < NextSlot + 1
  BY <1>2, <1>3, LogFacts
<1>5. startIdx \in 1..MaxIndex+1 /\ NextSlot + 1 \in startIdx..MaxIndex+1
  BY <1>3, LogFacts
<1>6. /\ NextSlot' = NextSlot + 1
      /\ NextSlot' \in startIdx'..MaxIndex+1
      /\ Keys(logs') = startIdx'..NextSlot'-1
  BY <1>2, <1>4, <1>5, LogStep
<1>7. /\ packing' \in [from : 0..MaxIndex, done : 0..MaxPack, size : 0..MaxPack]
      /\ packing'.done <= packing'.size
      /\ packing'.size > 0
      /\ packing'.from >= startIdx
      /\ packing'.from + packing'.done = NextSlot + 1
      /\ packing'.from + packing'.size <= MaxIndex + 1
  BY <1>1, <1>2, PackFacts
<1>8. IInv'
  BY <1>2, <1>4, <1>5, <1>6, <1>7 DEF IInv
<1>9. Contract!Append(t)
  BY <1>2, <1>3, <1>6 DEF Contract!Append, Contract!Index
<1> QED BY <1>8, <1>9

\* Reading start_idx_ back from the map finds the value it already has.
LEMMA PackEndStep ==
    ASSUME IInv, ApplyPackEnd
    PROVE  IInv' /\ UNCHANGED Contract!logVars
<1>1. packing # NotPacking /\ packing.done = packing.size
      /\ logs' = logs /\ packing' = NotPacking
  BY DEF ApplyPackEnd
<1>2. startIdx \in Keys(logs) /\ \A k \in Keys(logs) : startIdx <= k
  <2>1. startIdx \in Index /\ startIdx < NextSlot
    BY <1>1, LogFacts, PackFacts
  <2>2. logs[startIdx] # Dummy  BY <2>1, LogFacts
  <2> QED BY <2>1, <2>2, LogFacts DEF Keys
<1>3. \A m \in Keys(logs) : (\A k \in Keys(logs) : m <= k) => m = startIdx
  <2> SUFFICES ASSUME NEW m \in Keys(logs), \A k \in Keys(logs) : m <= k
               PROVE  m = startIdx
    OBVIOUS
  <2>1. m \in Index  BY DEF Keys
  <2>2. m <= startIdx /\ startIdx <= m  BY <1>2
  <2> QED BY <2>1, <2>2, LogFacts
<1>4. startIdx' = startIdx
  <2>1. startIdx' = CHOOSE m \in Keys(logs) : \A k \in Keys(logs) : m <= k
    BY <1>2 DEF ApplyPackEnd
  <2> QED BY <1>2, <1>3, <2>1
<1>5. NextSlot' = NextSlot  BY <1>1, <1>4 DEF NextSlot
<1>6. /\ NotPacking \in [from : 0..MaxIndex, done : 0..MaxPack, size : 0..MaxPack]
      /\ NotPacking.done <= NotPacking.size
  BY DEF NotPacking
<1>7. IInv'  BY <1>1, <1>4, <1>5, <1>6 DEF IInv
<1> QED BY <1>1, <1>4, <1>5, <1>7 DEF Contract!logVars

LEMMA CompactStep ==
    ASSUME IInv, NEW last \in Index, Compact(last)
    PROVE  IInv' /\ (Contract!Compact(last) \/ UNCHANGED Contract!logVars)
<1>1. /\ logs' = [i \in Index |-> IF startIdx <= i /\ i <= last
                                  THEN Dummy ELSE logs[i]]
      /\ startIdx' = IF startIdx <= last THEN last + 1 ELSE startIdx
      /\ packing' = packing /\ packing = NotPacking
  BY DEF Compact
<1>2. CASE startIdx <= last
  <2> DEFINE n == IF NextSlot <= last THEN last + 1 ELSE NextSlot
  <2>1. logs' \in [Index -> Terms \cup {Dummy}]
        /\ \A i \in Index : logs'[i] # Dummy <=> last + 1 <= i /\ i < n
    <3>1. \A i \in Index : logs'[i] # Dummy <=> last < i /\ i < NextSlot
      BY <1>1, <1>2, LogFacts
    <3>2. logs' \in [Index -> Terms \cup {Dummy}]
      BY <1>1, LogFacts
    <3>3. \A i \in Index : last < i /\ i < NextSlot <=> last + 1 <= i /\ i < n
      BY LogFacts
    <3> QED BY <3>1, <3>2, <3>3
  <2>2. last + 1 \in 1..MaxIndex+1 /\ n \in last+1..MaxIndex+1
    <3>1. CASE NextSlot <= last  BY <3>1
    <3>2. CASE ~(NextSlot <= last)  BY <3>2, LogFacts
    <3> QED BY <3>1, <3>2
  <2>3. startIdx' = last + 1  BY <1>1, <1>2
  <2> HIDE DEF n
  <2>4. /\ NextSlot' = n
        /\ NextSlot' \in startIdx'..MaxIndex+1
        /\ Keys(logs') = startIdx'..NextSlot'-1
    BY <2>1, <2>2, <2>3, LogStep
  <2>5. IInv'
    BY <1>1, <2>1, <2>2, <2>3, <2>4, PackFacts DEF IInv
  <2>6. logs' = [k \in Index |-> IF k <= last THEN Dummy ELSE logs[k]]
    BY <1>1, <1>2, LogFacts
  <2>7. Contract!Compact(last)
    BY <1>2, <2>3, <2>4, <2>6
       DEF n, Contract!Compact, Contract!Index, Contract!Dummy
  <2> QED BY <2>5, <2>7
<1>3. CASE ~(startIdx <= last)
  <2>1. logs' = logs /\ startIdx' = startIdx
    BY <1>1, <1>3, LogFacts
  <2>2. NextSlot' = NextSlot  BY <2>1 DEF NextSlot
  <2>3. IInv'  BY <1>1, <2>1, <2>2 DEF IInv
  <2> QED BY <2>1, <2>2, <2>3 DEF Contract!logVars
<1> QED BY <1>2, <1>3

-----------------------------------------------------------------------------

\* Every step of the store keeps the invariant and is a step of the contract
\* or leaves its variables alone.
LEMMA InMemStep ==
    ASSUME IInv, [Next]_inmemVars
    PROVE  IInv' /\ [Contract!Next]_(Contract!logVars)
<1>1. CASE UNCHANGED inmemVars
  <2>1. logs' = logs /\ startIdx' = startIdx /\ packing' = packing
    BY <1>1 DEF inmemVars
  <2>2. NextSlot' = NextSlot  BY <2>1 DEF NextSlot
  <2> QED BY <2>1, <2>2 DEF IInv, Contract!logVars
<1>2. CASE Next
  BY <1>2, AppendStep, WriteAtStep, PackBeginStep, PackPutStep, PackEndStep,
     CompactStep
  DEF Next, Contract!Next, Contract!Index
<1> QED BY <1>1, <1>2

LEMMA InMemInit == Init => IInv /\ Contract!Init
<1> SUFFICES ASSUME Init PROVE IInv /\ Contract!Init
  OBVIOUS
<1>1. Keys(logs) = {}  BY DEF Init, Keys
<1>2. NextSlot = 1
  <2>1. Cardinality(Keys(logs)) = 0  BY <1>1, FS_EmptySet
  <2> QED BY <2>1 DEF Init, NextSlot
<1>3. IInv
  <2>1. NotPacking.done <= NotPacking.size
        /\ NotPacking \in [from : 0..MaxIndex, done : 0..MaxPack, size : 0..MaxPack]
    BY DEF NotPacking
  <2>2. Keys(logs) = startIdx..NextSlot-1
    BY <1>1, <1>2 DEF Init
  <2> QED BY <1>2, <2>1, <2>2 DEF Init, IInv
<1> QED BY <1>2, <1>3
        DEF Init, Contract!Init, Contract!Index, Contract!Dummy

LEMMA InMemInvariant == Spec => []IInv
<1>1. IInv /\ [Next]_inmemVars => IInv'  BY InMemStep
<1> QED BY <1>1, InMemInit, PTL DEF Spec

\* Type correctness: start_idx_ and an apply_pack under way stay within the
\* indices, and the map holds logs only, whatever calls came before.
THEOREM InMemTypeCorrect == Spec => []TypeOK
<1>1. IInv => TypeOK  BY DEF IInv, TypeOK
<1> QED BY <1>1, InMemInvariant, PTL

\* next_slot(), computed from the size of the map, is right after any
\* sequence of calls: the keys are exactly start_idx_..next_slot()-1.
THEOREM InMemSizeCountsTheLog == Spec => []SizeCountsTheLog
<1>1. IInv => SizeCountsTheLog
  <2> SUFFICES ASSUME IInv PROVE SizeCountsTheLog
    OBVIOUS
  <2> QED BY LogFacts DEF SizeCountsTheLog
<1> QED BY <1>1, InMemInvariant, PTL

\* The in-memory store implements the contract of a log store.
THEOREM InMemImplementsContract == Spec => KeepsContract
<1>1. IInv /\ [Next]_inmemVars => [Contract!Next]_(Contract!logVars)
  BY InMemStep
<1> QED BY <1>1, InMemInit, InMemInvariant, PTL
        DEF Spec, KeepsContract, Contract!Spec

=============================================================================
