---------------------------- MODULE InMemLogStore ----------------------------
(***************************************************************************)
(* inmem_log_store (kvstore/in_memory_log_store.cxx), the reference store  *)
(* the RocksDB one was derived from: a std::map guarded by logs_lock_.     *)
(*                                                                         *)
(* Every operation is one critical section, except apply_pack, which takes *)
(* the lock once per entry and once more to recompute start_idx_.  The map *)
(* holds a dummy entry at 0, which is not modelled as a key: it is what    *)
(* makes size() one larger than the number of logs.                        *)
(***************************************************************************)
EXTENDS Integers, FiniteSets

CONSTANTS
    MaxIndex,   \* bound on log indices
    Terms,      \* terms of real log entries
    MaxPack     \* bound on the number of logs in a pack

ASSUME InMemAssumption ==
    /\ MaxIndex \in Nat \ {0}
    /\ Terms \subseteq Nat \ {0}
    /\ MaxPack \in Nat

VARIABLES
    logs,       \* logs_: index -> term, Dummy where the map has no key
    startIdx,   \* start_idx_
    packing     \* apply_pack under way: first index, entries put, size

inmemVars == <<logs, startIdx, packing>>

Index == 1..MaxIndex
Dummy == 0

Keys(m) == {i \in Index : m[i] # Dummy}

\* Mutant: the dummy entry is counted as a log
NextSlotCountsDummy == startIdx + Cardinality(Keys(logs)) + 1

\* start_idx_ + logs_.size() - 1, with the dummy entry counted in size()
NextSlot == startIdx + Cardinality(Keys(logs))

NotPacking == [from |-> 0, done |-> 0, size |-> 0]

Init ==
    /\ logs = [i \in Index |-> Dummy]
    /\ startIdx = 1
    /\ packing = NotPacking

Append(t) ==
    /\ packing = NotPacking
    /\ NextSlot \in Index
    /\ logs' = [logs EXCEPT ![NextSlot] = t]
    /\ UNCHANGED <<startIdx, packing>>

\* write_at erases from lower_bound(index) on and stores the entry
WriteAt(index, t) ==
    /\ packing = NotPacking
    /\ startIdx <= index /\ index < NextSlot
    /\ logs' = [i \in Index |-> IF i < index THEN logs[i]
                                ELSE IF i = index THEN t ELSE Dummy]
    /\ UNCHANGED <<startIdx, packing>>

\* apply_pack, called with the joiner's next_slot() as its first index
ApplyPackBegin(n) ==
    /\ packing = NotPacking
    /\ NextSlot + n - 1 <= MaxIndex
    /\ packing' = [from |-> NextSlot, done |-> 0, size |-> n]
    /\ UNCHANGED <<logs, startIdx>>

ApplyPackPut(t) ==
    /\ packing.done < packing.size
    /\ logs' = [logs EXCEPT ![packing.from + packing.done] = t]
    /\ packing' = [packing EXCEPT !.done = @ + 1]
    /\ UNCHANGED startIdx

\* Mutant: the dummy entry is found first
ApplyPackEndFindsDummy ==
    /\ packing # NotPacking
    /\ packing.done = packing.size
    /\ startIdx' = 0
    /\ packing' = NotPacking
    /\ UNCHANGED logs

\* the first key after the dummy entry, or 1
ApplyPackEnd ==
    /\ packing # NotPacking
    /\ packing.done = packing.size
    /\ startIdx' = IF Keys(logs) = {} THEN 1
                   ELSE CHOOSE m \in Keys(logs) : \A k \in Keys(logs) : m <= k
    /\ packing' = NotPacking
    /\ UNCHANGED logs

\* Mutant: start_idx_ moves only when there was something to erase
CompactOnlyStored(last) ==
    /\ packing = NotPacking
    /\ logs' = [i \in Index |-> IF startIdx <= i /\ i <= last
                                THEN Dummy ELSE logs[i]]
    /\ startIdx' = IF startIdx <= last /\ last < NextSlot
                   THEN last + 1 ELSE startIdx
    /\ UNCHANGED packing

Compact(last) ==
    /\ packing = NotPacking
    /\ logs' = [i \in Index |-> IF startIdx <= i /\ i <= last
                                THEN Dummy ELSE logs[i]]
    /\ startIdx' = IF startIdx <= last THEN last + 1 ELSE startIdx
    /\ UNCHANGED packing

Next ==
    \/ \E t \in Terms : Append(t)
    \/ \E i \in Index, t \in Terms : WriteAt(i, t)
    \/ \E n \in 1..MaxPack : ApplyPackBegin(n)
    \/ \E t \in Terms : ApplyPackPut(t)
    \/ ApplyPackEnd
    \/ \E last \in Index : Compact(last)

Spec == Init /\ [][Next]_inmemVars

-----------------------------------------------------------------------------

TypeOK ==
    /\ logs \in [Index -> Terms \cup {Dummy}]
    /\ startIdx \in 1..MaxIndex+1
    /\ packing \in [from : 0..MaxIndex, done : 0..MaxPack, size : 0..MaxPack]

\* next_slot() is computed from the map's size, which is right only while the
\* keys are the consecutive indices from start_idx_ on, whatever mix of
\* appends, overwrites, packs and compactions came before.
SizeCountsTheLog ==
    \A i \in Index : logs[i] # Dummy <=> i \in startIdx..NextSlot-1

\* The store implements the contract: an entry of a pack is one append, and
\* reading start_idx_ back from the map at the end of apply_pack changes
\* nothing.
Contract == INSTANCE LogStore WITH
    entries <- logs, start <- startIdx, next <- NextSlot

KeepsContract == Contract!Spec

=============================================================================
