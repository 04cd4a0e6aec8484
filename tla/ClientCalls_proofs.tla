-------------------------- MODULE ClientCalls_proofs --------------------------
(***************************************************************************)
(* The commit thread applies the committed entries in order and is never   *)
(* stopped, and a call is answered OK for its own entry only, for every    *)
(* number of calls, terms and entries.                                     *)
(*                                                                         *)
(* CommitInv is about indexes and the log: it gives AppliedInOrder and     *)
(* NeverInverted.  OkIsApplied is not inductive: an element is found by    *)
(* index, and an index is used again after a change of leader.  ElementInv *)
(* adds whose element the map holds at each index.                         *)
(***************************************************************************)
EXTENDS ClientCalls, SequenceTheorems, TLAPS

\* what is applied is committed, what is committed is stored and covered by
\* precommit_index_, which is past the log of no leader
IndexesOrdered ==
    /\ sm <= quick /\ quick <= Len(log) /\ quick <= precommit
    /\ leader = "self" => precommit <= Len(log)

\* a call that has stored its entry holds cli_lock_ until it has put its
\* element; its entry is then the last one of a leader's log
LockHolder ==
    /\ \A c \in Call :
            calls[c].pc \in {"stored", "announced"} <=> cliLock = c
    /\ cliLock # NoCall =>
            /\ leader = "self"
            /\ calls[cliLock].idx = Len(log)
            /\ Len(log) > 0 /\ log[Len(log)].by = cliLock

\* the commit thread works on the entry after sm_commit_index_, which is
\* committed
ThreadOnNext ==
    thread.pc \in {"apply", "deliver", "advance"} =>
        /\ thread.idx = sm + 1 /\ thread.idx <= quick
        /\ thread.entry = log[thread.idx]

\* a call that waits does so on an element
WaitersHaveElement ==
    \A c \in Call : calls[c].pc = "waiting" => calls[c].elem \in ElemId

\* AppliedInOrder, entry by entry
AppliedIsLog ==
    /\ Len(applied) = IF thread.pc \in {"deliver", "advance"} THEN sm + 1 ELSE sm
    /\ \A i \in 1..Len(applied) : applied[i] = log[i]

CommitInv ==
    TypeOK /\ IndexesOrdered /\ LockHolder /\ ThreadOnNext /\ AppliedIsLog
    /\ NeverInverted /\ WaitersHaveElement

\* the last index whose element the commit thread has completed, if it does
Delivered == IF thread.pc = "advance" THEN sm + 1 ELSE sm

\* an element that a call has put is that of a call which waits on it, for an
\* entry of its own in a leader's log
CallsElements ==
    \A k \in Index : elems[k] \in Call =>
        /\ leader = "self"
        /\ calls[elems[k]].pc = "waiting" /\ calls[elems[k]].elem = elems[k]
        /\ calls[elems[k]].idx = k
        /\ k <= Len(log) /\ log[k].by = elems[k]

\* an element that the commit thread has left is that of an applied index
ThreadsElements ==
    /\ \A k \in Index : elems[k] \in Index => elems[k] = k /\ k <= Delivered
    /\ \A c \in Call : calls[c].elem \in Index => calls[c].elem <= Delivered

\* a call waits on its own element or on one of the commit thread
NobodyElsesElement ==
    \A c \in Call :
        /\ calls[c].elem \in Call => calls[c].elem = c
        /\ calls[c].pc \in {"idle", "stored", "announced"} =>
                calls[c].elem = NoElem /\ elem[c].result # "OK"

Applied(c) ==
    calls[c].idx \in 1..Len(applied) /\ applied[calls[c].idx].by = c

\* who will be answered OK, or was, had its entry applied
OkMeansApplied ==
    \A c \in Call :
        /\ calls[c].pc = "waiting" /\ elem[calls[c].elem].result = "OK" => Applied(c)
        /\ calls[c].answer = "OK" => calls[c].pc = "done" /\ Applied(c)

ElementInv ==
    CommitInv /\ CallsElements /\ ThreadsElements /\ NobodyElsesElement
    /\ OkMeansApplied

-----------------------------------------------------------------------------

\* An overwritten log keeps what precedes the first new entry.
LEMMA Overwritten ==
    ASSUME NEW S, NEW s \in Seq(S), NEW p \in 0..Len(s), NEW n \in Nat,
           NEW v \in [1..n -> S]
    PROVE  /\ SubSeq(s, 1, p) \o v \in Seq(S)
           /\ Len(SubSeq(s, 1, p) \o v) = p + n
           /\ \A i \in 1..p : (SubSeq(s, 1, p) \o v)[i] = s[i]
<1> DEFINE u == SubSeq(s, 1, p)
<1>1. u \in Seq(S) /\ Len(u) = p /\ \A i \in 1..p : u[i] = s[i]
  BY SubSeqProperties
<1>2. v \in Seq(S) /\ Len(v) = n
  BY SeqDef, LenProperties
<1> HIDE DEF u
<1>3. /\ u \o v \in Seq(S)
      /\ Len(u \o v) = Len(u) + Len(v)
      /\ \A i \in 1..Len(u) + Len(v) : (u \o v)[i] =
                     IF i <= Len(u) THEN u[i] ELSE v[i - Len(u)]
  BY <1>1, <1>2, ConcatProperties
<1>4. /\ u \o v \in Seq(S) /\ Len(u \o v) = p + n
      /\ \A i \in 1..p : (u \o v)[i] = s[i]
  BY <1>1, <1>2, <1>3
<1> QED  BY <1>4 DEF u

LEMMA CommitInit == CallsAssumption /\ Init => CommitInv
<1> SUFFICES ASSUME CallsAssumption, Init PROVE CommitInv
  OBVIOUS
<1>1. calls \in [Call -> CallState]
  BY DEF Init, CallState, Code, ElemId, NoElem, CallsAssumption
<1>2. elem \in [ElemId -> Element] /\ elems \in [Index -> ElemId \union {NoElem}]
  BY DEF Init, Element, Code
<1>3. thread \in ThreadState
  BY DEF Init, ThreadState, Entry, NoEntry, Term, CallsAssumption
<1>4. TypeOK
  <2>1. log \in Seq(Entry) /\ Len(log) = 0 /\ applied \in Seq(Entry) /\ Len(applied) = 0
    BY DEF Init
  <2>2. term \in Term /\ leader \in {"none", "self", "other", "resigned"}
    BY DEF Init, Term, CallsAssumption
  <2>3. paused \in BOOLEAN /\ exited \in BOOLEAN
    BY DEF Init
  <2>4. /\ precommit \in 0..MaxLog /\ quick \in 0..MaxLog /\ sm \in 0..MaxLog
        /\ 0 <= MaxLog
    BY DEF Init, CallsAssumption
  <2>5. cliLock \in Call \union {NoCall}
    BY DEF Init
  <2> QED  BY <1>1, <1>2, <1>3, <2>1, <2>2, <2>3, <2>4, <2>5 DEF TypeOK
<1>5. IndexesOrdered /\ ThreadOnNext /\ AppliedIsLog /\ NeverInverted
  BY DEF Init, IndexesOrdered, ThreadOnNext, AppliedIsLog, NeverInverted
<1>6. LockHolder
  BY DEF Init, LockHolder, CallsAssumption
<1>7. WaitersHaveElement
  BY DEF Init, WaitersHaveElement
<1> QED  BY <1>4, <1>5, <1>6, <1>7 DEF CommitInv

\* commit() changes where the sleeping thread is and nothing else
LEMMA NotifiedThread ==
    ASSUME NEW q, NEW n, TypeOK
    PROVE  /\ Notified(q, n) = thread
              \/ /\ thread.pc = "asleep"
                 /\ Notified(q, n) = [thread EXCEPT !.pc = "start"]
BY DEF Notified


\* The entries up to quick_commit_index_ stay, and with them what the commit
\* thread has taken and what it works on.
LEMMA CommittedStays ==
    ASSUME CallsAssumption, CommitInv, UNCHANGED <<sm, applied>>,
           \/ thread' = thread
           \/ thread.pc = "asleep" /\ thread' = [thread EXCEPT !.pc = "start"],
           quick' \in Nat, quick <= quick',
           \A i \in 1..quick : log'[i] = log[i]
    PROVE  thread' \in ThreadState /\ ThreadOnNext' /\ AppliedIsLog'
<1> USE DEF CommitInv
<1>1. thread \in ThreadState /\ sm \in Nat /\ quick \in Nat /\ sm <= quick
  BY DEF TypeOK, IndexesOrdered, CallsAssumption
<1>2. thread' \in ThreadState
  BY <1>1 DEF ThreadState
<1>3. ThreadOnNext'
  BY <1>1 DEF ThreadOnNext, ThreadState
<1>4. AppliedIsLog'
  <2>1. \A i \in 1..Len(applied) : i \in 1..quick
    BY <1>1 DEF AppliedIsLog, ThreadOnNext
  <2>2. \A i \in 1..Len(applied) : applied'[i] = log'[i]
    BY <2>1 DEF AppliedIsLog
  <2>3. thread'.pc \in {"deliver", "advance"} <=> thread.pc \in {"deliver", "advance"}
    BY <1>1 DEF ThreadState
  <2> QED  BY <2>2, <2>3 DEF AppliedIsLog
<1> QED  BY <1>2, <1>3, <1>4

-----------------------------------------------------------------------------
(* A client call. *)

LEMMA CommitReject ==
    ASSUME CallsAssumption, CommitInv, NEW c \in Call, Reject(c)
    PROVE  CommitInv'
<1> USE DEF CommitInv, Reject, raft, indexes, waiting
<1>1. /\ calls' \in [Call -> CallState]
      /\ \A d \in Call : calls'[d].pc = IF d = c THEN "done" ELSE calls[d].pc
  <2> DEFINE new == [calls[c] EXCEPT !.pc = "done", !.answer = "NOT_LEADER"]
  <2>1. calls \in [Call -> CallState] /\ calls[c] \in CallState
    BY DEF TypeOK
  <2>2. calls' = [calls EXCEPT ![c] = new]
    BY <2>1
  <2>3. new \in CallState /\ new.pc = "done"
    BY <2>1 DEF CallState
  <2> HIDE DEF new
  <2> QED  BY <2>1, <2>2, <2>3
<1>2. TypeOK'
  BY <1>1 DEF TypeOK
<1>3. LockHolder'
  BY <1>1 DEF LockHolder, CallsAssumption
<1>4. IndexesOrdered' /\ ThreadOnNext' /\ AppliedIsLog' /\ NeverInverted'
  BY DEF IndexesOrdered, ThreadOnNext, AppliedIsLog, NeverInverted
<1>5. WaitersHaveElement'
  BY <1>1 DEF TypeOK, CallState, WaitersHaveElement
<1> QED  BY <1>2, <1>3, <1>4, <1>5

LEMMA CommitStore ==
    ASSUME CallsAssumption, CommitInv, NEW c \in Call, Store(c)
    PROVE  CommitInv'
<1> USE DEF CommitInv, Store, raft, indexes, waiting
<1>1. /\ calls' \in [Call -> CallState]
      /\ \A d \in Call : calls'[d].pc = IF d = c THEN "stored" ELSE calls[d].pc
      /\ calls'[c].idx = Len(log) + 1
  <2>1. Len(log) + 1 \in 0..MaxLog
    BY DEF TypeOK, CallsAssumption
  <2>2. calls \in [Call -> CallState]
    BY DEF TypeOK
  <2>3. calls' = [calls EXCEPT ![c] = [calls[c] EXCEPT !.pc = "stored",
                                                     !.idx = Len(log) + 1]]
    BY <2>2
  <2>4. [calls[c] EXCEPT !.pc = "stored", !.idx = Len(log) + 1] \in CallState
    BY <2>1, <2>2 DEF CallState
  <2>5. calls[c] \in CallState
    BY <2>2
  <2>6. [calls[c] EXCEPT !.pc = "stored", !.idx = Len(log) + 1].pc = "stored"
        /\ [calls[c] EXCEPT !.pc = "stored", !.idx = Len(log) + 1].idx = Len(log) + 1
    BY <2>5 DEF CallState
  <2> QED  BY <2>2, <2>3, <2>4, <2>6
<1>2. /\ Len(log') = Len(log) + 1 /\ log' \in Seq(Entry)
      /\ log'[Len(log')].by = c
      /\ \A i \in 1..Len(log) : log'[i] = log[i]
  BY DEF TypeOK, Entry
<1>3. TypeOK'
  BY <1>1, <1>2 DEF TypeOK, CallsAssumption
<1>4. LockHolder'
  BY <1>1, <1>2 DEF TypeOK, LockHolder, CallsAssumption
<1>5. IndexesOrdered'
  BY <1>2 DEF TypeOK, IndexesOrdered
<1>6. \A i \in 1..quick : log'[i] = log[i]
  BY <1>2 DEF TypeOK, IndexesOrdered
<1>7. ThreadOnNext' /\ AppliedIsLog'
  <2>1. quick' \in Nat /\ quick <= quick' /\ thread' = thread
    BY DEF TypeOK, CallsAssumption
  <2> QED  BY <1>6, <2>1, CommittedStays
<1>8. NeverInverted'
  BY DEF NeverInverted
<1>9. WaitersHaveElement'
  BY <1>1 DEF TypeOK, CallState, WaitersHaveElement
<1> QED  BY <1>3, <1>4, <1>5, <1>7, <1>8, <1>9

LEMMA CommitAnnounce ==
    ASSUME CallsAssumption, CommitInv, NEW c \in Call, Announce(c)
    PROVE  CommitInv'
<1> USE DEF CommitInv, Announce, raft, waiting
<1>1. /\ calls' \in [Call -> CallState]
      /\ \A d \in Call : calls'[d].pc = IF d = c THEN "announced" ELSE calls[d].pc
      /\ \A d \in Call : calls'[d].idx = calls[d].idx
  BY DEF TypeOK, CallState
<1>2. calls[c].idx = Len(log) /\ leader = "self" /\ cliLock = c
  BY DEF LockHolder, CallsAssumption
<1>3. /\ precommit' \in 0..MaxLog /\ precommit <= precommit'
      /\ precommit <= Len(log) => precommit' <= Len(log)
  BY <1>2 DEF TypeOK, TryUpdate, Larger
<1>4. TypeOK'
  BY <1>1, <1>3 DEF TypeOK
<1>5. LockHolder'
  BY <1>1, <1>2 DEF LockHolder, CallsAssumption
<1>6. IndexesOrdered'
  BY <1>3 DEF TypeOK, IndexesOrdered
<1>7. ThreadOnNext' /\ AppliedIsLog' /\ NeverInverted'
  BY DEF ThreadOnNext, AppliedIsLog, NeverInverted
<1>8. WaitersHaveElement'
  BY <1>1 DEF TypeOK, CallState, WaitersHaveElement
<1> QED  BY <1>4, <1>5, <1>6, <1>7, <1>8

LEMMA CommitEnlist ==
    ASSUME CallsAssumption, CommitInv, NEW c \in Call, Enlist(c)
    PROVE  CommitInv'
<1> USE DEF CommitInv, Enlist, raft, indexes
<1>1. cliLock = c /\ calls[c].idx \in Index
  BY DEF LockHolder, TypeOK, CallsAssumption, Index
<1> DEFINE e == IF elems[calls[c].idx] = NoElem THEN c ELSE elems[calls[c].idx]
<1>2. e \in ElemId
  BY <1>1 DEF TypeOK, ElemId
<1>3. /\ calls' \in [Call -> CallState]
      /\ \A d \in Call : calls'[d].pc = IF d = c THEN "waiting" ELSE calls[d].pc
      /\ calls'[c].elem = e
      /\ \A d \in Call : d # c => calls'[d] = calls[d]
  <2>1. calls' = [calls EXCEPT ![c].pc = "waiting", ![c].elem = e]
    OBVIOUS
  <2> HIDE DEF e
  <2>2. calls \in [Call -> CallState]
    BY DEF TypeOK
  <2> DEFINE r == [calls[c] EXCEPT !.pc = "waiting", !.elem = e]
  <2>3. r \in CallState /\ r.pc = "waiting" /\ r.elem = e
    BY <1>2, <2>2 DEF CallState
  <2>4. calls' = [calls EXCEPT ![c] = r]
    BY <2>1, <2>2
  <2> HIDE DEF r, CommitInv, Enlist
  <2>5. calls'[c] = r /\ \A d \in Call : d # c => calls'[d] = calls[d]
    BY <2>2, <2>4
  <2>6. calls' \in [Call -> CallState]
    BY <2>2, <2>3, <2>4
  <2> QED  BY <2>3, <2>5, <2>6
<1>4. elems' \in [Index -> ElemId \union {NoElem}]
  BY <1>1, <1>2 DEF TypeOK
<1>5. TypeOK'
  BY <1>3, <1>4 DEF TypeOK
<1>6. LockHolder'
  BY <1>1, <1>3 DEF LockHolder, CallsAssumption
<1>7. IndexesOrdered' /\ ThreadOnNext' /\ AppliedIsLog' /\ NeverInverted'
  BY DEF IndexesOrdered, ThreadOnNext, AppliedIsLog, NeverInverted
<1>8. WaitersHaveElement'
  BY <1>2, <1>3 DEF WaitersHaveElement
<1> QED  BY <1>5, <1>6, <1>7, <1>8

LEMMA CommitCollect ==
    ASSUME CallsAssumption, CommitInv, NEW c \in Call, Collect(c)
    PROVE  CommitInv'
<1> USE DEF CommitInv, Collect, raft, indexes
<1>1. calls \in [Call -> CallState] /\ elem \in [ElemId -> Element]
  BY DEF TypeOK
<1> DEFINE a == elem[calls[c].elem].result
<1>2. a \in Code \union {"none", "NOT_LEADER"}
  BY <1>1 DEF Element, WaitersHaveElement
<1>3. /\ calls' \in [Call -> CallState]
      /\ \A d \in Call : calls'[d].pc = IF d = c THEN "done" ELSE calls[d].pc
      /\ \A d \in Call : d # c => calls'[d] = calls[d]
  <2>1. calls' = [calls EXCEPT ![c].pc = "done", ![c].answer = a]
    OBVIOUS
  <2> HIDE DEF a
  <2> DEFINE r == [calls[c] EXCEPT !.pc = "done", !.answer = a]
  <2>2. r \in CallState /\ r.pc = "done"
    BY <1>1, <1>2 DEF CallState
  <2>3. calls' = [calls EXCEPT ![c] = r]
    BY <1>1, <2>1
  <2> HIDE DEF r
  <2> QED  BY <1>1, <2>2, <2>3
<1>4. elems' \in [Index -> ElemId \union {NoElem}]
  BY DEF TypeOK
<1>5. TypeOK'
  BY <1>3, <1>4 DEF TypeOK
<1>6. LockHolder'
  BY <1>3 DEF LockHolder, TypeOK
<1>7. IndexesOrdered' /\ ThreadOnNext' /\ AppliedIsLog' /\ NeverInverted'
  BY DEF IndexesOrdered, ThreadOnNext, AppliedIsLog, NeverInverted
<1>8. WaitersHaveElement'
  BY <1>3 DEF WaitersHaveElement
<1> QED  BY <1>5, <1>6, <1>7, <1>8

-----------------------------------------------------------------------------
(* Roles and the other servers. *)

\* A server that steps down holds no lock and changes neither indexes nor log.
LEMMA CommitStepDown ==
    ASSUME CallsAssumption, CommitInv, BecomeFollower, term' \in Term,
           leader' \in {"none", "resigned"},
           UNCHANGED <<indexes, sm, applied, calls, cliLock, thread, exited>>
    PROVE  CommitInv'
<1> USE DEF CommitInv, BecomeFollower, indexes
<1>1. elem' \in [ElemId -> Element] /\ elems' \in [Index -> ElemId \union {NoElem}]
  BY DEF DropAll, TypeOK, Element, Code
<1>2. TypeOK'
  BY <1>1 DEF TypeOK
<1>3. LockHolder'
  BY DEF LockHolder
<1>4. IndexesOrdered' /\ ThreadOnNext' /\ AppliedIsLog' /\ NeverInverted'
  BY DEF IndexesOrdered, ThreadOnNext, AppliedIsLog, NeverInverted
<1>5. WaitersHaveElement'
  BY DEF WaitersHaveElement
<1> QED  BY <1>2, <1>3, <1>4, <1>5

LEMMA CommitPauseWrites ==
    ASSUME CallsAssumption, CommitInv, PauseWrites
    PROVE  CommitInv'
<1> USE DEF CommitInv, PauseWrites, indexes, waiting
<1>1. TypeOK'
  BY DEF TypeOK
<1>2. LockHolder' /\ IndexesOrdered' /\ ThreadOnNext' /\ AppliedIsLog' /\ NeverInverted'
  BY DEF LockHolder, IndexesOrdered, ThreadOnNext, AppliedIsLog, NeverInverted
<1>3. WaitersHaveElement'
  BY DEF WaitersHaveElement
<1> QED  BY <1>1, <1>2, <1>3

LEMMA CommitBecomeLeader ==
    ASSUME CallsAssumption, CommitInv, BecomeLeader
    PROVE  CommitInv'
<1> USE DEF CommitInv, BecomeLeader, waiting
<1>1. [term |-> term, by |-> "conf"] \in Entry
  BY DEF TypeOK, Entry
<1>2. /\ Len(log') = Len(log) + 1 /\ log' \in Seq(Entry)
      /\ \A i \in 1..Len(log) : log'[i] = log[i]
  BY <1>1 DEF TypeOK
<1>3. precommit' \in 0..MaxLog /\ Len(log') <= MaxLog
  BY <1>2 DEF TypeOK, CallsAssumption
<1>4. TypeOK'
  BY <1>2, <1>3 DEF TypeOK
<1>5. LockHolder'
  BY DEF LockHolder
<1>6. IndexesOrdered'
  BY <1>2 DEF TypeOK, IndexesOrdered
<1>7. ThreadOnNext' /\ AppliedIsLog'
  <2>1. quick' \in Nat /\ quick <= quick' /\ thread' = thread
    BY DEF TypeOK, CallsAssumption
  <2>2. \A i \in 1..quick : log'[i] = log[i]
    BY <1>2 DEF TypeOK, IndexesOrdered
  <2> QED  BY <2>1, <2>2, CommittedStays
<1>8. NeverInverted' /\ WaitersHaveElement'
  BY DEF NeverInverted, WaitersHaveElement
<1> QED  BY <1>4, <1>5, <1>6, <1>7, <1>8

LEMMA CommitPeersMatch ==
    ASSUME CallsAssumption, CommitInv, NEW k \in Index, PeersMatch(k)
    PROVE  CommitInv'
<1> USE DEF CommitInv, PeersMatch, raft, waiting
<1>1. /\ quick' = k /\ quick < k /\ k <= precommit /\ precommit <= Len(log)
      /\ k \in 0..MaxLog
  BY DEF IndexesOrdered, Committable, Index
<1>2. \/ thread' = thread
      \/ thread.pc = "asleep" /\ thread' = [thread EXCEPT !.pc = "start"]
  BY DEF Notified
<1>3. quick' \in Nat /\ quick <= quick'
  BY <1>1 DEF TypeOK
<1>4. thread' \in ThreadState /\ ThreadOnNext' /\ AppliedIsLog'
  BY <1>2, <1>3, CommittedStays
<1>5. TypeOK'
  BY <1>1, <1>4 DEF TypeOK
<1>6. IndexesOrdered'
  BY <1>1 DEF TypeOK, IndexesOrdered
<1>7. LockHolder' /\ NeverInverted' /\ WaitersHaveElement'
  BY DEF LockHolder, NeverInverted, WaitersHaveElement
<1> QED  BY <1>4, <1>5, <1>6, <1>7

LEMMA CommitAppendEntries ==
    ASSUME CallsAssumption, CommitInv, NEW p \in 0..MaxLog, NEW n \in 0..MaxLog,
           NEW k \in 0..MaxLog, AppendEntries(p, n, k)
    PROVE  CommitInv'
<1> USE DEF CommitInv, AppendEntries, waiting
<1>1. /\ log' \in Seq(Entry) /\ \A i \in 1..quick : log'[i] = log[i]
      /\ Len(log') <= MaxLog /\ p + n <= Len(log')
  <2>1. CASE n = 0
    BY <2>1 DEF TypeOK
  <2>2. CASE n # 0
    <3> DEFINE v == [j \in 1..n |-> [term |-> term, by |-> "other"]]
    <3>1. v \in [1..n -> Entry]
      BY DEF TypeOK, Entry
    <3>2. /\ p \in 0..Len(log) /\ quick <= p /\ n \in Nat /\ log \in Seq(Entry)
          /\ p + n <= MaxLog /\ quick \in Nat
      BY DEF TypeOK
    <3>3. log' = SubSeq(log, 1, p) \o v
      BY <2>2
    <3> HIDE DEF AppendEntries, CommitInv, v
    <3>4. /\ SubSeq(log, 1, p) \o v \in Seq(Entry)
          /\ Len(SubSeq(log, 1, p) \o v) = p + n
          /\ \A i \in 1..p : (SubSeq(log, 1, p) \o v)[i] = log[i]
      BY <3>1, <3>2, Overwritten
    <3> QED  BY <3>2, <3>3, <3>4
  <2> QED  BY <2>1, <2>2
<1>2. precommit' \in 0..MaxLog /\ precommit <= precommit' /\ p + n <= precommit'
  BY DEF TypeOK, TryUpdate, Larger
<1>3. \/ thread' = thread
      \/ thread.pc = "asleep" /\ thread' = [thread EXCEPT !.pc = "start"]
  BY DEF Notified
<1>4. quick' \in Nat /\ quick <= quick' /\ quick' <= p + n
  BY DEF TypeOK
<1>5. thread' \in ThreadState /\ ThreadOnNext' /\ AppliedIsLog'
  BY <1>1, <1>3, <1>4, CommittedStays
<1>6. TypeOK'
  BY <1>1, <1>2, <1>5 DEF TypeOK
<1>7. IndexesOrdered'
  BY <1>1, <1>2, <1>4 DEF TypeOK, IndexesOrdered
<1>8. LockHolder'
  BY DEF LockHolder
<1>9. NeverInverted' /\ WaitersHaveElement'
  BY DEF NeverInverted, WaitersHaveElement
<1> QED  BY <1>5, <1>6, <1>7, <1>8, <1>9

-----------------------------------------------------------------------------
(* The commit thread. *)

\* Steps that change only where the thread is keep the rest.
LEMMA CommitStart ==
    ASSUME CallsAssumption, CommitInv, Start \/ Sleep
    PROVE  CommitInv'
<1> USE DEF CommitInv, raft, indexes, waiting
<1>1. UNCHANGED <<raft, indexes, sm, applied, waiting, calls, cliLock, exited>>
  BY DEF Start, Sleep
<1>2. /\ thread' \in ThreadState /\ thread'.pc \in {"asleep", "loop"}
      /\ thread.pc \in {"start", "loop"}
  <2>1. CASE Start
    BY <2>1 DEF Start, TypeOK, ThreadState
  <2>2. CASE Sleep
    <3>1. NoEntry \in Entry /\ 0 \in 0..MaxLog
      BY DEF NoEntry, Entry, Term, CallsAssumption
    <3> QED  BY <2>2, <3>1 DEF Sleep, TypeOK, ThreadState
  <2> QED  BY <2>1, <2>2
<1>3. TypeOK'
  BY <1>1, <1>2 DEF TypeOK
<1>4. ThreadOnNext'
  BY <1>2 DEF ThreadOnNext
<1>5. AppliedIsLog'
  BY <1>1, <1>2 DEF AppliedIsLog
<1>6. IndexesOrdered' /\ LockHolder' /\ NeverInverted' /\ WaitersHaveElement'
  BY <1>1 DEF IndexesOrdered, LockHolder, NeverInverted, WaitersHaveElement
<1> QED  BY <1>3, <1>4, <1>5, <1>6

LEMMA CommitFetch ==
    ASSUME CallsAssumption, CommitInv, Fetch
    PROVE  CommitInv'
<1> USE DEF CommitInv, Fetch, raft, indexes, waiting
<1>1. /\ sm + 1 \in 0..MaxLog /\ sm + 1 <= quick /\ sm + 1 \in 1..Len(log)
      /\ log[sm + 1] \in Entry
  BY DEF TypeOK, Work, IndexesOrdered
<1>2. /\ thread' \in ThreadState /\ thread'.pc = "apply"
      /\ thread'.idx = sm + 1 /\ thread'.entry = log[sm + 1]
  BY <1>1 DEF TypeOK, ThreadState
<1>3. TypeOK'
  BY <1>2 DEF TypeOK
<1>4. ThreadOnNext'
  BY <1>1, <1>2 DEF ThreadOnNext
<1>5. AppliedIsLog'
  BY <1>2 DEF AppliedIsLog
<1>6. IndexesOrdered' /\ LockHolder' /\ NeverInverted' /\ WaitersHaveElement'
  BY DEF IndexesOrdered, LockHolder, NeverInverted, WaitersHaveElement
<1> QED  BY <1>3, <1>4, <1>5, <1>6

\* What precommit_index_ is compared with is committed: the process goes on.
LEMMA CommitApply ==
    ASSUME CallsAssumption, CommitInv, Apply
    PROVE  /\ CommitInv'
           /\ applied' = Append(applied, log[sm + 1])
           /\ thread'.pc \in {"deliver", "advance"}
           /\ thread'.idx = sm + 1 /\ thread'.entry = thread.entry
<1> USE DEF CommitInv, raft, indexes, waiting
<1>1. /\ thread.pc = "apply" /\ ~exited
      /\ UNCHANGED <<raft, indexes, sm, waiting, calls, cliLock>>
  BY DEF Apply
<1>2. /\ thread.idx = sm + 1 /\ sm + 1 <= quick /\ quick <= precommit
      /\ thread.entry = log[sm + 1] /\ quick <= Len(log)
      /\ sm \in Nat /\ quick \in Nat /\ precommit \in Nat
  BY <1>1 DEF ThreadOnNext, IndexesOrdered, TypeOK
<1>3. ~(precommit < thread.idx)
  BY <1>2
<1>4. /\ applied' = Append(applied, thread.entry) /\ exited' = exited
      /\ thread' = [thread EXCEPT !.pc =
                IF thread.need /\ thread.entry.by # "conf"
                THEN "deliver" ELSE "advance"]
  BY <1>3 DEF Apply
<1>5. /\ thread' \in ThreadState /\ thread'.pc \in {"deliver", "advance"}
      /\ thread'.idx = thread.idx /\ thread'.entry = thread.entry
  BY <1>4 DEF TypeOK, ThreadState
<1>6. Len(applied) = sm /\ applied \in Seq(Entry) /\ thread.entry \in Entry
  BY <1>1 DEF AppliedIsLog, TypeOK, ThreadState
<1>7. /\ applied' \in Seq(Entry) /\ Len(applied') = sm + 1
      /\ applied'[sm + 1] = thread.entry
      /\ \A i \in 1..Len(applied) : applied'[i] = applied[i]
  BY <1>4, <1>6
<1>8. Len(applied') <= MaxLog
  BY <1>2, <1>7 DEF TypeOK
<1>9. TypeOK'
  BY <1>1, <1>4, <1>5, <1>7, <1>8 DEF TypeOK
<1>10. ThreadOnNext'
  BY <1>1, <1>2, <1>5 DEF ThreadOnNext
<1>11. AppliedIsLog'
  <2>1. \A i \in 1..sm + 1 : applied'[i] = log[i]
    BY <1>2, <1>6, <1>7 DEF AppliedIsLog
  <2> QED  BY <1>1, <1>5, <1>7, <2>1 DEF AppliedIsLog
<1>12. IndexesOrdered' /\ LockHolder' /\ NeverInverted' /\ WaitersHaveElement'
  BY <1>1, <1>4 DEF IndexesOrdered, LockHolder, NeverInverted, WaitersHaveElement
<1> QED  BY <1>2, <1>4, <1>5, <1>9, <1>10, <1>11, <1>12

LEMMA CommitDeliver ==
    ASSUME CallsAssumption, CommitInv, Deliver
    PROVE  CommitInv'
<1> USE DEF CommitInv, Deliver, raft, indexes
<1>1. thread.idx \in Index
  BY DEF ThreadOnNext, IndexesOrdered, TypeOK, Index
<1> DEFINE e == IF elems[thread.idx] = NoElem THEN thread.idx ELSE elems[thread.idx]
<1>2. e \in ElemId
  BY <1>1 DEF TypeOK, ElemId
<1>3. [result |-> "OK", invoked |-> TRUE] \in Element
  BY DEF Element, Code
<1>4. elem' \in [ElemId -> Element] /\ elems' \in [Index -> ElemId \union {NoElem}]
  <2>1. /\ elem' = [elem EXCEPT ![e] = [result |-> "OK", invoked |-> TRUE]]
        /\ elems' = [elems EXCEPT ![thread.idx] = e]
    OBVIOUS
  <2>2. /\ elem \in [ElemId -> Element]
        /\ elems \in [Index -> ElemId \union {NoElem}]
    BY DEF TypeOK
  <2> HIDE DEF e, Deliver, CommitInv
  <2> QED  BY <1>1, <1>2, <1>3, <2>1, <2>2
<1>5. /\ thread' \in ThreadState /\ thread'.pc = "advance"
      /\ thread'.idx = thread.idx /\ thread'.entry = thread.entry
  BY DEF TypeOK, ThreadState
<1>6. TypeOK'
  BY <1>4, <1>5 DEF TypeOK
<1>7. ThreadOnNext'
  BY <1>5 DEF ThreadOnNext
<1>8. AppliedIsLog'
  BY <1>5 DEF AppliedIsLog
<1>9. IndexesOrdered' /\ LockHolder' /\ NeverInverted' /\ WaitersHaveElement'
  BY DEF IndexesOrdered, LockHolder, NeverInverted, WaitersHaveElement
<1> QED  BY <1>6, <1>7, <1>8, <1>9

LEMMA CommitAdvance ==
    ASSUME CallsAssumption, CommitInv, Advance
    PROVE  CommitInv' /\ sm' = sm + 1
<1> USE DEF CommitInv, Advance, raft, indexes, waiting
<1>1. thread.idx = sm + 1 /\ sm + 1 <= quick /\ sm \in Nat /\ quick \in Nat
  BY DEF ThreadOnNext, TypeOK
<1>2. sm' = sm + 1 /\ sm' \in 0..MaxLog
  BY <1>1 DEF TypeOK
<1>3. thread' \in ThreadState /\ thread'.pc = "loop"
  BY DEF TypeOK, ThreadState
<1>4. TypeOK'
  BY <1>2, <1>3 DEF TypeOK
<1>5. ThreadOnNext'
  BY <1>3 DEF ThreadOnNext
<1>6. AppliedIsLog'
  BY <1>2, <1>3 DEF AppliedIsLog
<1>7. IndexesOrdered'
  BY <1>1, <1>2 DEF IndexesOrdered
<1>8. LockHolder' /\ NeverInverted' /\ WaitersHaveElement'
  BY DEF LockHolder, NeverInverted, WaitersHaveElement
<1> QED  BY <1>2, <1>4, <1>5, <1>6, <1>7, <1>8

-----------------------------------------------------------------------------

LEMMA CommitStep == CallsAssumption /\ CommitInv /\ [Next]_vars => CommitInv'
<1> SUFFICES ASSUME CallsAssumption, CommitInv, [Next]_vars PROVE CommitInv'
  OBVIOUS
<1>1. ASSUME NEW c \in Call, Reject(c) \/ Store(c) \/ Announce(c) \/ Enlist(c)
                             \/ Wake(c) \/ TimeOut(c)
      PROVE  CommitInv'
  BY <1>1, CommitReject, CommitStore, CommitAnnounce, CommitEnlist, CommitCollect
     DEF Wake, TimeOut
<1>2. CASE UpdateTerm
  <2>1. term' \in Term
    BY <1>2 DEF UpdateTerm, CommitInv, TypeOK, Term, CallsAssumption
  <2> QED  BY <1>2, <2>1, CommitStepDown DEF UpdateTerm
<1>3. CASE Resign
  BY <1>3, CommitStepDown DEF Resign, CommitInv, TypeOK
<1>4. CASE PauseWrites
  BY <1>4, CommitPauseWrites
<1>5. CASE BecomeLeader
  BY <1>5, CommitBecomeLeader
<1>6. ASSUME NEW k \in Index, PeersMatch(k) PROVE CommitInv'
  BY <1>6, CommitPeersMatch
<1>7. ASSUME NEW p \in 0..MaxLog, NEW n \in 0..MaxLog, NEW k \in 0..MaxLog,
             AppendEntries(p, n, k)
      PROVE  CommitInv'
  BY <1>7, CommitAppendEntries
<1>8. CASE CommitThread
  BY <1>8, CommitStart, CommitFetch, CommitApply, CommitDeliver, CommitAdvance
     DEF CommitThread
<1>9. CASE UNCHANGED vars
  <2> USE <1>9 DEF vars, raft, indexes, waiting, CommitInv
  <2>1. TypeOK'
    BY DEF TypeOK
  <2>2. LockHolder' /\ IndexesOrdered' /\ ThreadOnNext' /\ AppliedIsLog'
    BY DEF LockHolder, IndexesOrdered, ThreadOnNext, AppliedIsLog
  <2>3. NeverInverted' /\ WaitersHaveElement'
    BY DEF NeverInverted, WaitersHaveElement
  <2> QED  BY <2>1, <2>2, <2>3
<1> QED  BY <1>1, <1>2, <1>3, <1>4, <1>5, <1>6, <1>7, <1>8, <1>9 DEF Next

\* What is applied is the beginning of the log.
LEMMA AppliedPrefix == CommitInv => AppliedInOrder
<1> SUFFICES ASSUME CommitInv PROVE AppliedInOrder
  OBVIOUS
<1> USE DEF CommitInv
<1>1. /\ Len(applied) <= Len(log)
      /\ applied \in Seq(Entry) /\ log \in Seq(Entry)
      /\ \A i \in 1..Len(applied) : applied[i] = log[i]
      /\ sm \in Nat /\ quick \in Nat
  BY DEF TypeOK, AppliedIsLog, ThreadOnNext, IndexesOrdered
<1>2. applied = SubSeq(log, 1, Len(applied))
  <2> HIDE DEF CommitInv
  <2>1. Len(applied) \in 0..Len(log)
    BY <1>1
  <2>2. /\ SubSeq(log, 1, Len(applied)) \in Seq(Entry)
        /\ Len(SubSeq(log, 1, Len(applied))) = Len(applied)
        /\ \A i \in 1..Len(applied) : SubSeq(log, 1, Len(applied))[i] = log[i]
    BY <1>1, <2>1, SubSeqProperties
  <2> QED  BY <1>1, <2>2, SeqEqual
<1> QED  BY <1>1, <1>2 DEF AppliedInOrder, AppliedIsLog

-----------------------------------------------------------------------------
(* Whose elements there are. *)

LEMMA ElementInit == CallsAssumption /\ Init => ElementInv
<1> SUFFICES ASSUME CallsAssumption, Init PROVE ElementInv
  OBVIOUS
<1>1. CommitInv
  BY CommitInit
<1> USE DEF Init, NoElem, Index, CallsAssumption
<1>2. CallsElements /\ ThreadsElements
  BY DEF CallsElements, ThreadsElements
<1>3. NobodyElsesElement
  BY DEF NobodyElsesElement, ElemId
<1>4. OkMeansApplied
  BY DEF OkMeansApplied
<1> QED  BY <1>1, <1>2, <1>3, <1>4 DEF ElementInv

\* Steps that leave calls and elements alone, and of the log the entries that
\* calls wait for, keep ElementInv.
LEMMA ElementsStay ==
    ASSUME CallsAssumption, ElementInv, CommitInv', UNCHANGED <<waiting, calls>>,
           \A k \in Index : elems[k] \in Call =>
                leader' = "self" /\ k <= Len(log') /\ log'[k] = log[k],
           Delivered' \in Nat, Delivered <= Delivered',
           Len(applied) <= Len(applied'),
           \A i \in 1..Len(applied) : applied'[i] = applied[i]
    PROVE  ElementInv'
<1> USE DEF ElementInv, waiting
<1>1. CallsElements'
  BY DEF CallsElements
<1>2. ThreadsElements'
  <2>1. Delivered \in Nat
    BY DEF CommitInv, TypeOK, Delivered
  <2> QED  BY <2>1 DEF ThreadsElements, Index, CallsAssumption
<1>3. NobodyElsesElement'
  BY DEF NobodyElsesElement
<1>4. OkMeansApplied'
  <2>1. ASSUME NEW c \in Call, Applied(c) PROVE Applied(c)'
    <3>1. Len(applied) \in Nat /\ Len(applied') \in Nat
      BY DEF CommitInv, TypeOK
    <3> QED  BY <2>1, <3>1 DEF Applied
  <2> QED  BY <2>1 DEF OkMeansApplied
<1> QED  BY <1>1, <1>2, <1>3, <1>4

LEMMA DeliveredIsApplied ==
    ASSUME CallsAssumption, CommitInv
    PROVE  Delivered \in Nat /\ Delivered <= Len(applied) /\ Len(applied) <= Len(log)
BY DEF CommitInv, TypeOK, Delivered, AppliedIsLog, ThreadOnNext, IndexesOrdered

LEMMA ElementReject ==
    ASSUME CallsAssumption, ElementInv, NEW c \in Call, Reject(c), CommitInv'
    PROVE  ElementInv'
<1> USE DEF ElementInv
<1> DEFINE r == [calls[c] EXCEPT !.pc = "done", !.answer = "NOT_LEADER"]
<1>1. calls[c].pc = "idle" /\ calls \in [Call -> CallState]
  BY DEF Reject, CommitInv, TypeOK
<1>2. /\ r.pc = "done" /\ r.answer = "NOT_LEADER"
      /\ r.elem = calls[c].elem /\ r.idx = calls[c].idx
  BY <1>1 DEF CallState
<1>3. calls' = [calls EXCEPT ![c] = r]
  BY <1>1 DEF Reject
<1> HIDE DEF r
<1>4. calls'[c] = r /\ \A d \in Call : d # c => calls'[d] = calls[d]
  BY <1>1, <1>3
<1>5. UNCHANGED <<leader, log, elems, elem, sm, applied, thread>>
  BY DEF Reject, raft, indexes, waiting
<1>6. Delivered' = Delivered
  BY <1>5 DEF Delivered
<1>7. CallsElements'
  BY <1>1, <1>4, <1>5 DEF CallsElements
<1>8. ThreadsElements'
  BY <1>2, <1>4, <1>5, <1>6 DEF ThreadsElements
<1>9. NobodyElsesElement'
  BY <1>2, <1>4, <1>5 DEF NobodyElsesElement
<1>10. OkMeansApplied'
  BY <1>2, <1>4, <1>5 DEF OkMeansApplied, Applied
<1> QED  BY <1>7, <1>8, <1>9, <1>10

LEMMA ElementStore ==
    ASSUME CallsAssumption, ElementInv, NEW c \in Call, Store(c), CommitInv'
    PROVE  ElementInv'
<1> USE DEF ElementInv
<1> DEFINE r == [calls[c] EXCEPT !.pc = "stored", !.idx = Len(log) + 1]
<1>1. /\ calls[c].pc = "idle" /\ calls \in [Call -> CallState] /\ log \in Seq(Entry)
      /\ leader = "self"
  BY DEF Store, CommitInv, TypeOK
<1>2. /\ r.pc = "stored" /\ r.answer = calls[c].answer
      /\ r.elem = calls[c].elem
  BY <1>1 DEF CallState
<1>3. calls' = [calls EXCEPT ![c] = r]
  BY <1>1 DEF Store
<1> HIDE DEF r
<1>4. calls'[c] = r /\ \A d \in Call : d # c => calls'[d] = calls[d]
  BY <1>1, <1>3
<1>5. UNCHANGED <<leader, elems, elem, sm, applied, thread>>
  BY DEF Store, raft, waiting
<1>6. Delivered' = Delivered
  BY <1>5 DEF Delivered
<1>7. \A k \in Index : k <= Len(log) => k <= Len(log') /\ log'[k] = log[k]
  BY <1>1 DEF Store, Index
<1>8. CallsElements'
  BY <1>1, <1>4, <1>5, <1>7 DEF CallsElements
<1>9. ThreadsElements'
  BY <1>2, <1>4, <1>5, <1>6 DEF ThreadsElements
<1>10. NobodyElsesElement'
  BY <1>1, <1>2, <1>4, <1>5 DEF NobodyElsesElement
<1>11. OkMeansApplied'
  BY <1>1, <1>2, <1>4, <1>5 DEF OkMeansApplied, Applied
<1> QED  BY <1>8, <1>9, <1>10, <1>11

LEMMA ElementAnnounce ==
    ASSUME CallsAssumption, ElementInv, NEW c \in Call, Announce(c), CommitInv'
    PROVE  ElementInv'
<1> USE DEF ElementInv
<1> DEFINE r == [calls[c] EXCEPT !.pc = "announced"]
<1>1. calls[c].pc = "stored" /\ calls \in [Call -> CallState]
  BY DEF Announce, CommitInv, TypeOK
<1>2. /\ r.pc = "announced" /\ r.answer = calls[c].answer
      /\ r.elem = calls[c].elem /\ r.idx = calls[c].idx
  BY <1>1 DEF CallState
<1>3. calls' = [calls EXCEPT ![c] = r]
  BY <1>1 DEF Announce
<1> HIDE DEF r
<1>4. calls'[c] = r /\ \A d \in Call : d # c => calls'[d] = calls[d]
  BY <1>1, <1>3
<1>5. UNCHANGED <<leader, log, elems, elem, sm, applied, thread>>
  BY DEF Announce, raft, waiting
<1>6. Delivered' = Delivered
  BY <1>5 DEF Delivered
<1>7. CallsElements'
  BY <1>1, <1>4, <1>5 DEF CallsElements
<1>8. ThreadsElements'
  BY <1>2, <1>4, <1>5, <1>6 DEF ThreadsElements
<1>9. NobodyElsesElement'
  BY <1>1, <1>2, <1>4, <1>5 DEF NobodyElsesElement
<1>10. OkMeansApplied'
  BY <1>1, <1>2, <1>4, <1>5 DEF OkMeansApplied, Applied
<1> QED  BY <1>7, <1>8, <1>9, <1>10

\* The element a call finds at its index is never that of another call: the
\* entry there is the call's own.
LEMMA ElementEnlist ==
    ASSUME CallsAssumption, ElementInv, NEW c \in Call, Enlist(c), CommitInv'
    PROVE  ElementInv'
<1> USE DEF ElementInv
<1> DEFINE k == calls[c].idx
           e == IF elems[k] = NoElem THEN c ELSE elems[k]
           r == [calls[c] EXCEPT !.pc = "waiting", !.elem = e]
<1>1. /\ calls[c].pc = "announced" /\ calls \in [Call -> CallState]
      /\ elems \in [Index -> ElemId \union {NoElem}]
  BY DEF Enlist, CommitInv, TypeOK
<1>2. leader = "self" /\ k = Len(log) /\ log[k].by = c /\ k \in Index
  BY <1>1 DEF CommitInv, LockHolder, TypeOK, CallsAssumption, Index
<1>3. /\ r.pc = "waiting" /\ r.answer = calls[c].answer
      /\ r.elem = e /\ r.idx = k
  BY <1>1 DEF CallState
<1>4. calls' = [calls EXCEPT ![c] = r] /\ elems' = [elems EXCEPT ![k] = e]
  BY <1>1 DEF Enlist
<1>5. e = c \/ (e = k /\ k <= Delivered)
  <2>1. CASE elems[k] = NoElem
    BY <2>1
  <2>2. CASE elems[k] \in Index
    BY <1>2, <2>2 DEF ThreadsElements, NoElem, CallsAssumption, Index
  <2>3. CASE elems[k] \in Call
    BY <1>1, <1>2, <2>3 DEF CallsElements
  <2> QED  BY <1>1, <1>2, <2>1, <2>2, <2>3 DEF ElemId
<1>6. calls[c].elem = NoElem /\ elem[c].result # "OK" /\ calls[c].answer # "OK"
  BY <1>1 DEF NobodyElsesElement, OkMeansApplied
<1> HIDE DEF r, e, k
<1>7. calls'[c] = r /\ \A d \in Call : d # c => calls'[d] = calls[d]
  BY <1>1, <1>4
<1>8. elems'[k] = e /\ \A j \in Index : j # k => elems'[j] = elems[j]
  BY <1>1, <1>2, <1>4
<1>9. UNCHANGED <<leader, log, elem, sm, applied, thread>>
  BY DEF Enlist, raft, indexes
<1>10. Delivered' = Delivered
  BY <1>9 DEF Delivered
<1>11. k \notin Call /\ c \notin Index
  BY <1>2 DEF CallsAssumption, Index
<1>12. CallsElements'
  <2> SUFFICES ASSUME NEW j \in Index, elems'[j] \in Call
               PROVE  /\ leader' = "self"
                      /\ calls'[elems'[j]].pc = "waiting"
                      /\ calls'[elems'[j]].elem = elems'[j]
                      /\ calls'[elems'[j]].idx = j
                      /\ j <= Len(log') /\ log'[j].by = elems'[j]
    BY DEF CallsElements
  <2>1. CASE j = k
    BY <1>2, <1>3, <1>5, <1>7, <1>8, <1>9, <1>11, <2>1 DEF Index, CallsAssumption
  <2>2. CASE j # k
    BY <1>1, <1>7, <1>8, <1>9, <2>2 DEF CallsElements
  <2> QED  BY <2>1, <2>2
<1>13. ThreadsElements'
  BY <1>3, <1>5, <1>7, <1>8, <1>10, <1>11 DEF ThreadsElements
<1>14. NobodyElsesElement'
  BY <1>3, <1>5, <1>7, <1>9, <1>11 DEF NobodyElsesElement
<1>15. OkMeansApplied'
  <2>1. e = k => k \in 1..Len(applied) /\ applied[k].by = c
    <3>1. Delivered \in Nat /\ Delivered <= Len(applied) /\ Len(applied) \in Nat
      BY DeliveredIsApplied DEF CommitInv, TypeOK
    <3> QED  BY <1>2, <1>5, <1>11, <3>1 DEF CommitInv, AppliedIsLog, Index
  <2>2. \A d \in Call : d # c => (Applied(d)' <=> Applied(d))
    BY <1>7, <1>9 DEF Applied
  <2>3. calls'[c].answer # "OK"
    BY <1>3, <1>6, <1>7
  <2>4. elem'[calls'[c].elem].result = "OK" => Applied(c)'
    BY <1>3, <1>5, <1>6, <1>7, <1>9, <2>1 DEF Applied
  <2> QED  BY <1>7, <1>9, <2>2, <2>3, <2>4 DEF OkMeansApplied
<1> QED  BY <1>12, <1>13, <1>14, <1>15

LEMMA ElementCollect ==
    ASSUME CallsAssumption, ElementInv, NEW c \in Call, Collect(c), CommitInv'
    PROVE  ElementInv'
<1> USE DEF ElementInv
<1> DEFINE a == elem[calls[c].elem].result
           r == [calls[c] EXCEPT !.pc = "done", !.answer = a]
<1>1. /\ calls[c].pc = "waiting" /\ calls \in [Call -> CallState]
      /\ elems \in [Index -> ElemId \union {NoElem}]
  BY DEF Collect, CommitInv, TypeOK
<1> HIDE DEF a
<1>2. /\ r.pc = "done" /\ r.answer = a
      /\ r.elem = calls[c].elem /\ r.idx = calls[c].idx
  BY <1>1 DEF CallState
<1>3. /\ calls' = [calls EXCEPT ![c] = r]
      /\ elems' = [elems EXCEPT ![calls[c].idx] = NoElem]
  BY <1>1 DEF Collect, a
<1> HIDE DEF r
<1>4. calls'[c] = r /\ \A d \in Call : d # c => calls'[d] = calls[d]
  BY <1>1, <1>3
<1>5. \A k \in Index :
        elems'[k] = NoElem \/ (k # calls[c].idx /\ elems'[k] = elems[k])
  BY <1>1, <1>3
<1>6. UNCHANGED <<leader, log, elem, sm, applied, thread>>
  BY DEF Collect, raft, indexes
<1>7. Delivered' = Delivered
  BY <1>6 DEF Delivered
<1>8. NoElem \notin Call /\ NoElem \notin Index
  BY DEF NoElem, CallsAssumption, Index
<1>9. CallsElements'
  BY <1>4, <1>5, <1>6, <1>8 DEF CallsElements
<1>10. ThreadsElements'
  BY <1>2, <1>4, <1>5, <1>7, <1>8 DEF ThreadsElements
<1>11. NobodyElsesElement'
  BY <1>2, <1>4, <1>6 DEF NobodyElsesElement
<1>12. OkMeansApplied'
  BY <1>1, <1>2, <1>4, <1>6 DEF OkMeansApplied, Applied, a
<1> QED  BY <1>9, <1>10, <1>11, <1>12

\* Every element in the map is cancelled and removed.
LEMMA ElementStepDown ==
    ASSUME CallsAssumption, ElementInv, DropAll, CommitInv',
           UNCHANGED <<sm, applied, calls, thread>>
    PROVE  ElementInv'
<1> USE DEF ElementInv
<1>1. \A k \in Index : elems'[k] = NoElem
  BY DEF DropAll
<1>2. \A e \in ElemId : elem'[e].result = "OK" => elem[e].result = "OK"
  BY DEF DropAll
<1>3. NoElem \notin Call /\ NoElem \notin Index
  BY DEF NoElem, CallsAssumption, Index
<1>4. Delivered' = Delivered
  BY DEF Delivered
<1>5. CallsElements'
  BY <1>1, <1>3 DEF CallsElements
<1>6. ThreadsElements'
  BY <1>1, <1>3, <1>4 DEF ThreadsElements
<1>7. NobodyElsesElement'
  BY <1>2 DEF NobodyElsesElement, ElemId
<1>8. OkMeansApplied'
  BY <1>2 DEF OkMeansApplied, Applied, CommitInv, WaitersHaveElement
<1> QED  BY <1>5, <1>6, <1>7, <1>8

\* The element the commit thread completes is that of the call whose entry it
\* has applied, or a new one that nobody waits on.
LEMMA ElementDeliver ==
    ASSUME CallsAssumption, ElementInv, Deliver, CommitInv'
    PROVE  ElementInv'
<1> USE DEF ElementInv
<1> DEFINE k == thread.idx
           e == IF elems[k] = NoElem THEN k ELSE elems[k]
<1>1. /\ thread.pc = "deliver" /\ k = sm + 1 /\ k \in Index
      /\ elems \in [Index -> ElemId \union {NoElem}]
      /\ elem \in [ElemId -> Element] /\ sm \in Nat
      /\ k \in 1..Len(applied) /\ applied[k] = log[k]
  BY DEF Deliver, CommitInv, TypeOK, ThreadOnNext, AppliedIsLog, IndexesOrdered, Index
<1>2. Delivered = sm /\ Delivered' = sm + 1
  BY <1>1 DEF Deliver, Delivered, CommitInv, TypeOK, ThreadState
<1>3. k \notin Call /\ NoElem \notin Call /\ NoElem \notin Index
  BY <1>1 DEF CallsAssumption, Index, NoElem
<1>4. /\ e = k \/ (e \in Call /\ elems[k] = e)
      /\ e = k => elems[k] = NoElem
  <2>1. elems[k] \notin Index
    BY <1>1, <1>2 DEF ThreadsElements
  <2> QED  BY <1>1, <1>3, <2>1 DEF ElemId
<1>5. /\ elem' = [elem EXCEPT ![e] = [result |-> "OK", invoked |-> TRUE]]
      /\ elems' = [elems EXCEPT ![k] = e]
      /\ UNCHANGED <<leader, log, sm, applied, calls>>
  BY DEF Deliver, raft, indexes
<1> HIDE DEF e, k
<1>6. elems'[k] = e /\ \A j \in Index : j # k => elems'[j] = elems[j]
  BY <1>1, <1>5
<1>7. \A d \in ElemId : d # e => elem'[d] = elem[d]
  BY <1>1, <1>5
<1>8. CallsElements'
  BY <1>1, <1>3, <1>4, <1>5, <1>6 DEF CallsElements
<1>9. ThreadsElements'
  <2>1. \A j \in Index : elems'[j] \in Index => elems'[j] = j /\ j <= Delivered'
    <3>1. e \in Index => e = k
      BY <1>4 DEF CallsAssumption, Index
    <3> QED  BY <1>1, <1>2, <1>6, <3>1 DEF ThreadsElements, Index
  <2>2. \A c \in Call : calls'[c].elem \in Index => calls'[c].elem <= Delivered'
    BY <1>1, <1>2, <1>5 DEF ThreadsElements, Index
  <2> QED  BY <2>1, <2>2 DEF ThreadsElements
<1>10. NobodyElsesElement'
  <2>1. ASSUME NEW c \in Call, calls[c].pc \in {"idle", "stored", "announced"}
        PROVE  elem'[c].result # "OK"
    <3>1. c # e
      BY <1>1, <1>3, <1>4, <2>1 DEF CallsElements
    <3> QED  BY <1>7, <2>1, <3>1 DEF NobodyElsesElement, ElemId
  <2> QED  BY <1>5, <2>1 DEF NobodyElsesElement
<1>11. OkMeansApplied'
  <2>1. ASSUME NEW c \in Call, calls[c].pc = "waiting", calls[c].elem = e
        PROVE  Applied(c)
    <3>1. e # k
      BY <1>1, <1>2, <2>1 DEF ThreadsElements
    <3>2. c = e /\ elems[k] = c
      BY <1>4, <2>1, <3>1 DEF NobodyElsesElement
    <3> QED  BY <1>1, <3>2 DEF CallsElements, Applied
  <2>2. \A c \in Call : Applied(c)' <=> Applied(c)
    BY <1>5 DEF Applied
  <2> QED  BY <1>5, <1>7, <2>1, <2>2 DEF OkMeansApplied, CommitInv, WaitersHaveElement
<1> QED  BY <1>8, <1>9, <1>10, <1>11

\* A log that is appended to, or overwritten by another leader, keeps the
\* entries calls wait for: the latter happens to a server that is no leader.
LEMMA ElementOthers ==
    ASSUME CallsAssumption, ElementInv, CommitInv',
           \/ PauseWrites
           \/ BecomeLeader
           \/ \E k \in Index : PeersMatch(k)
           \/ \E p, n, k \in 0..MaxLog : AppendEntries(p, n, k)
    PROVE  ElementInv'
<1> USE DEF ElementInv
<1>1. UNCHANGED <<waiting, calls, sm, applied>>
  BY DEF PauseWrites, BecomeLeader, PeersMatch, AppendEntries, indexes
<1>2. /\ thread'.pc = "advance" <=> thread.pc = "advance"
  BY DEF PauseWrites, BecomeLeader, PeersMatch, AppendEntries, Notified,
         CommitInv, TypeOK, ThreadState
<1>3. Delivered' = Delivered /\ Delivered \in Nat
  BY <1>1, <1>2 DEF Delivered, CommitInv, TypeOK
<1>4. ASSUME NEW j \in Index, elems[j] \in Call
      PROVE  leader' = "self" /\ j <= Len(log') /\ log'[j] = log[j]
  <2>1. leader = "self" /\ j <= Len(log) /\ log \in Seq(Entry)
    BY <1>4 DEF CallsElements, CommitInv, TypeOK
  <2> QED  BY <2>1 DEF PauseWrites, BecomeLeader, PeersMatch, AppendEntries, indexes,
                       raft
<1> QED  BY <1>1, <1>3, <1>4, ElementsStay DEF CommitInv, TypeOK

LEMMA ElementThread ==
    ASSUME CallsAssumption, ElementInv, CommitInv',
           Start \/ Sleep \/ Fetch \/ Apply \/ Advance
    PROVE  ElementInv'
<1> USE DEF ElementInv
<1>1. UNCHANGED <<leader, log, waiting, calls>>
  BY DEF Start, Sleep, Fetch, Apply, Advance, raft, indexes
<1>2. \A j \in Index : elems[j] \in Call =>
            leader' = "self" /\ j <= Len(log') /\ log'[j] = log[j]
  BY <1>1 DEF CallsElements
<1>3. sm \in Nat /\ thread \in ThreadState /\ applied \in Seq(Entry)
  BY DEF CommitInv, TypeOK
<1>4. CASE Start \/ Sleep \/ Fetch
  <2>1. Delivered' = Delivered /\ Delivered \in Nat /\ applied' = applied
    BY <1>3, <1>4 DEF Start, Sleep, Fetch, Delivered, ThreadState
  <2> QED  BY <1>1, <1>2, <1>3, <2>1, ElementsStay
<1>5. CASE Apply
  <2>1. /\ applied' = Append(applied, log[sm + 1]) /\ sm' = sm
        /\ thread.pc = "apply"
    BY <1>5, CommitApply DEF Apply
  <2>2. Delivered' \in Nat /\ Delivered <= Delivered'
    BY <1>3, <2>1 DEF Delivered
  <2>3. /\ Len(applied) <= Len(applied')
        /\ \A i \in 1..Len(applied) : applied'[i] = applied[i]
    BY <1>3, <2>1
  <2> QED  BY <1>1, <1>2, <2>2, <2>3, ElementsStay
<1>6. CASE Advance
  <2>1. sm' = sm + 1 /\ thread.pc = "advance" /\ applied' = applied
    BY <1>6, CommitAdvance DEF Advance
  <2>2. thread'.pc = "loop"
    BY <1>3, <1>6 DEF Advance, ThreadState
  <2>3. Delivered' = Delivered /\ Delivered \in Nat
    BY <1>3, <2>1, <2>2 DEF Delivered
  <2> QED  BY <1>1, <1>2, <1>3, <2>1, <2>3, ElementsStay
<1> QED  BY <1>4, <1>5, <1>6

LEMMA ElementStep == CallsAssumption /\ ElementInv /\ [Next]_vars => ElementInv'
<1> SUFFICES ASSUME CallsAssumption, ElementInv, [Next]_vars PROVE ElementInv'
  OBVIOUS
<1>1. CommitInv'
  BY CommitStep DEF ElementInv
<1>2. ASSUME NEW c \in Call, Reject(c) \/ Store(c) \/ Announce(c) \/ Enlist(c)
                             \/ Wake(c) \/ TimeOut(c)
      PROVE  ElementInv'
  BY <1>1, <1>2, ElementReject, ElementStore, ElementAnnounce, ElementEnlist,
     ElementCollect DEF Wake, TimeOut
<1>3. CASE UpdateTerm \/ Resign
  BY <1>1, <1>3, ElementStepDown DEF UpdateTerm, Resign, BecomeFollower
<1>4. CASE \/ PauseWrites \/ BecomeLeader
           \/ \E k \in Index : PeersMatch(k)
           \/ \E p, n, k \in 0..MaxLog : AppendEntries(p, n, k)
  BY <1>1, <1>4, ElementOthers
<1>5. CASE CommitThread
  BY <1>1, <1>5, ElementThread, ElementDeliver DEF CommitThread
<1>6. CASE UNCHANGED vars
  <2>1. UNCHANGED <<waiting, calls, leader, log, sm, thread, applied>>
    BY <1>6 DEF vars, raft, indexes
  <2>2. Delivered' = Delivered /\ Delivered \in Nat
    BY <2>1 DEF Delivered, ElementInv, CommitInv, TypeOK
  <2>3. \A j \in Index : elems[j] \in Call =>
            leader' = "self" /\ j <= Len(log') /\ log'[j] = log[j]
    BY <2>1 DEF ElementInv, CallsElements
  <2>4. Len(applied) \in Nat
    BY DEF ElementInv, CommitInv, TypeOK
  <2> QED  BY <1>1, <2>1, <2>2, <2>3, <2>4, ElementsStay
<1> QED  BY <1>2, <1>3, <1>4, <1>5, <1>6 DEF Next

-----------------------------------------------------------------------------

\* The variables of ClientCalls have their types: no index passes the log's
\* bound and a call never waits on something that is not an element.
THEOREM CallsTypeCorrect == CallsAssumption /\ Spec => []TypeOK
<1>1. CallsAssumption /\ CommitInv /\ [Next]_vars => CommitInv'
  BY CommitStep
<1>2. CommitInv => TypeOK
  BY DEF CommitInv
<1> QED  BY <1>1, <1>2, CommitInit, CallsAssumption, PTL DEF Spec

\* commit_app_log hands the state machine the committed entries of the log,
\* each once and in order.
THEOREM CallsAppliedInOrder == CallsAssumption /\ Spec => []AppliedInOrder
<1> QED  BY CommitStep, CommitInit, AppliedPrefix, CallsAssumption, PTL DEF Spec

\* commit_app_log never stops the process for finding precommit_index_ behind.
THEOREM CallsNeverInverted == CallsAssumption /\ Spec => []NeverInverted
<1>1. CommitInv => NeverInverted
  BY DEF CommitInv
<1> QED  BY <1>1, CommitStep, CommitInit, CallsAssumption, PTL DEF Spec

\* handle_cli_req_callback answers OK only to a call whose own entry was
\* applied, whoever made the element it waits on.
THEOREM CallsOkIsApplied == CallsAssumption /\ Spec => []OkIsApplied
<1>1. ElementInv => OkIsApplied
  BY DEF ElementInv, OkMeansApplied, Applied, OkIsApplied, CommitInv, TypeOK
<1> QED  BY <1>1, ElementStep, ElementInit, CallsAssumption, PTL DEF Spec
=============================================================================
