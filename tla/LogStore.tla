------------------------------ MODULE LogStore ------------------------------
(***************************************************************************)
(* The contract of a Raft log store: what nuraft::log_store                *)
(* (NuRaft/include/libnuraft/log_store.hxx) promises its callers.          *)
(*                                                                         *)
(* The log is dense: it holds exactly the indices start..next-1.  An entry *)
(* is abstracted to its term, since terms are all the protocol compares;   *)
(* term 0 is the dummy entry every read of an absent index returns.        *)
(***************************************************************************)
EXTENDS Integers

CONSTANTS
    MaxIndex,   \* bound on log indices
    Terms,      \* terms of real log entries
    MaxPack     \* bound on the number of logs in a pack

VARIABLES
    entries,    \* index -> term, Dummy where nothing is stored
    start,      \* start_index()
    next        \* next_slot()

logVars == <<entries, start, next>>

Index == 1..MaxIndex
Dummy == 0

Init ==
    /\ entries = [i \in Index |-> Dummy]
    /\ start = 1
    /\ next = 1

\* append: the entry gets the first available slot
Append(t) ==
    /\ next \in Index
    /\ entries' = [entries EXCEPT ![next] = t]
    /\ next' = next + 1
    /\ UNCHANGED start

\* write_at: overwrite index i, everything after it is truncated
WriteAt(i, t) ==
    /\ i \in start..next-1
    /\ entries' = [k \in Index |-> IF k < i THEN entries[k]
                                   ELSE IF k = i THEN t ELSE Dummy]
    /\ next' = i + 1
    /\ UNCHANGED start

\* apply_pack at next_slot(): the first n entries of pack are appended
ApplyPack(n, pack) ==
    /\ next + n - 1 <= MaxIndex
    /\ entries' = [k \in Index |-> IF k \in next..next+n-1
                                   THEN pack[k - next + 1] ELSE entries[k]]
    /\ next' = next + n
    /\ UNCHANGED start

\* compact: purge up to and including last; a log that ends before last
\* restarts, empty, right after it
Compact(last) ==
    /\ last \in Index
    /\ last >= start
    /\ entries' = [k \in Index |-> IF k <= last THEN Dummy ELSE entries[k]]
    /\ start' = last + 1
    /\ next' = IF next <= last THEN last + 1 ELSE next

Next ==
    \/ \E t \in Terms : Append(t)
    \/ \E i \in Index, t \in Terms : WriteAt(i, t)
    \/ \E n \in 1..MaxPack, pack \in [1..MaxPack -> Terms] : ApplyPack(n, pack)
    \/ \E last \in Index : Compact(last)

Spec == Init /\ [][Next]_logVars

=============================================================================
