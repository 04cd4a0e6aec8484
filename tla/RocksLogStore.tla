---------------------------- MODULE RocksLogStore ----------------------------
(***************************************************************************)
(* rocksdb_log_store (kvstore/log_store.cpp) over aquadb::RaftLogStore     *)
(* (db/raft_log_store.cpp): the Raft log of a kvstore server.              *)
(*                                                                         *)
(* raftLog is the RocksDB column family, which survives a crash of the     *)
(* process; startIdx is the member start_idx_, which does not.  local_idx_ *)
(* is only logged (every use recomputes it) and is left out.               *)
(*                                                                         *)
(* write_at and compact are two writes each, and a crash can fall between  *)
(* them.  Their callers, and apply_pack's, hold raft_server::lock_, so     *)
(* there is one of these calls at a time.  append is also called under     *)
(* cli_lock_ alone (handle_cli_req with dual_mutex): it excludes write_at  *)
(* by logs_lock_, but compact erases before it takes that.                 *)
(***************************************************************************)
EXTENDS Integers

CONSTANTS
    MaxIndex,   \* bound on log indices
    Terms,      \* terms of real log entries
    MaxPack     \* bound on the number of logs in a pack (log_sync_batch_size_)

ASSUME RocksAssumption ==
    /\ MaxIndex \in Nat \ {0}
    /\ Terms \subseteq Nat \ {0}
    /\ MaxPack \in Nat

VARIABLES
    raftLog,    \* index -> term, Dummy where no key is stored
    startIdx,   \* start_idx_
    call        \* the call of two writes under way

rocksVars == <<raftLog, startIdx, call>>

Index == 1..MaxIndex
Dummy == 0

Stored == {i \in Index : raftLog[i] # Dummy}

Idle == [op |-> "idle", index |-> 0, term |-> Dummy]

CallRecord == [op : {"idle", "write_at", "compact"},
               index : Index \cup {0},
               term : Terms \cup {Dummy}]

-----------------------------------------------------------------------------
(* aquadb::RaftLogStore *)

\* get_first: SeekToFirst; 0 stands for ERR_NOT_FOUND
FirstIdx(S) ==
    IF S = {} THEN 0 ELSE CHOOSE m \in S : \A k \in S : m <= k

\* get_last and get_local_last_idx: SeekToLast, 0 if the family is empty
LastIdx(S) ==
    IF S = {} THEN 0 ELSE CHOOSE m \in S : \A k \in S : k <= m

\* remove_range: DeleteRange of [from, to)
RemoveRange(log, from, to) ==
    [i \in Index |-> IF from <= i /\ i < to THEN Dummy ELSE log[i]]

-----------------------------------------------------------------------------
(* rocksdb_log_store *)

NextSlot == 1 + LastIdx(Stored)

\* Mutant: the dummy entry of the in-memory store is still subtracted
AppendIdxOffByOne == startIdx + LastIdx(Stored) - 1

\* The index append stores at and returns
AppendIdx == startIdx + LastIdx(Stored)

\* Mutant: index 0, "not found", is not replaced
StartFromZero(S, default) == FirstIdx(S)

\* The constructor, and the tail of apply_pack: start_idx_ from get_first
StartFrom(S, default) == IF S = {} THEN default ELSE FirstIdx(S)

Init ==
    /\ raftLog = [i \in Index |-> Dummy]
    /\ startIdx = 1
    /\ call = Idle

\* append, under logs_lock_, which compact does not hold when it erases
Append(t) ==
    /\ call = Idle \/ call.op = "compact"
    /\ AppendIdx \in Index
    /\ raftLog' = [raftLog EXCEPT ![AppendIdx] = t]
    /\ UNCHANGED <<startIdx, call>>

\* write_at, first write: drop [index, last) when last lies after index.
\* handle_append_entries overwrites only below next_slot().
WriteAtErase(index, t) ==
    /\ call = Idle
    /\ startIdx <= index /\ index < NextSlot
    /\ raftLog' = IF LastIdx(Stored) > index
                  THEN RemoveRange(raftLog, index, LastIdx(Stored))
                  ELSE raftLog
    /\ call' = [op |-> "write_at", index |-> index, term |-> t]
    /\ UNCHANGED startIdx

\* write_at, second write: put the new entry
WriteAtPut ==
    /\ call.op = "write_at"
    /\ raftLog' = [raftLog EXCEPT ![call.index] = call.term]
    /\ call' = Idle
    /\ UNCHANGED startIdx

\* apply_pack on a joining server: one write batch, then start_idx_ is read
\* back.  The leader packs n logs from the joiner's next_slot().
ApplyPack(n, pack) ==
    /\ call = Idle
    /\ NextSlot + n - 1 <= MaxIndex
    /\ LET packed == [i \in Index |-> IF i \in NextSlot..NextSlot+n-1
                                      THEN pack[i - NextSlot + 1]
                                      ELSE raftLog[i]]
       IN  /\ raftLog' = packed
           /\ startIdx' = StartFrom({i \in Index : packed[i] # Dummy},
                                    startIdx)
    /\ UNCHANGED call

\* compact, before logs_lock_ is taken: remove_range up to last, exclusive.
\* last is a snapshot index, the server's own or an installed one.
CompactErase(last) ==
    /\ call = Idle
    /\ last >= startIdx
    /\ raftLog' = RemoveRange(raftLog, startIdx, last)
    /\ call' = [op |-> "compact", index |-> last, term |-> Dummy]
    /\ UNCHANGED startIdx

\* compact, under logs_lock_
CompactAdvance ==
    /\ call.op = "compact"
    /\ startIdx' = IF startIdx <= call.index THEN call.index + 1
                   ELSE startIdx
    /\ call' = Idle
    /\ UNCHANGED raftLog

\* The process stops, between any two writes, and the constructor runs again
Restart ==
    /\ startIdx' = StartFrom(Stored, 1)
    /\ call' = Idle
    /\ UNCHANGED raftLog

Next ==
    \/ \E t \in Terms : Append(t)
    \/ \E i \in Index, t \in Terms : WriteAtErase(i, t)
    \/ WriteAtPut
    \/ \E n \in 1..MaxPack, pack \in [1..MaxPack -> Terms] : ApplyPack(n, pack)
    \/ \E last \in Index : CompactErase(last)
    \/ CompactAdvance
    \/ Restart

Spec == Init /\ [][Next]_rocksVars

-----------------------------------------------------------------------------
(* What holds *)

\* Every variable keeps its type; start_idx_ is never 0, although get_first
\* of an empty family is.
TypeOK ==
    /\ raftLog \in [Index -> Terms \cup {Dummy}]
    /\ startIdx \in 1..MaxIndex+1
    /\ call \in CallRecord

\* The calls that may take entry i out of the log or change it: a write_at at
\* or below it, or a compaction up to or past it
Allowed(c, i) ==
    \/ c.op = "write_at" /\ c.index <= i
    \/ c.op = "compact" /\ i <= c.index

\* A stored entry disappears or changes only in a write_at at or below its
\* index or in a compaction that covers it: not when append picks its index
\* from a start_idx_ a compaction or a restart has moved, or is about to
\* move, not when a pack is applied, and not when the process stops between
\* two writes of a call.
EntriesLostOnlyByCall ==
    [][\A i \in Index :
          raftLog[i] # Dummy /\ raftLog'[i] # raftLog[i]
          => Allowed(call, i) \/ Allowed(call', i)]_rocksVars

-----------------------------------------------------------------------------
(* What nuraft::log_store asks for and the code does not do *)

\* append returns the index it stored at, the slot next_slot() announced
\* (log_store.hxx: "The first available slot of the store").
AppendTakesNextSlot == call = Idle => AppendIdx = NextSlot

=============================================================================
