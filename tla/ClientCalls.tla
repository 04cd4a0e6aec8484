----------------------------- MODULE ClientCalls -----------------------------
(***************************************************************************)
(* Client calls and the commit thread of one NuRaft server.                *)
(*                                                                         *)
(* A blocking append_entries() call stores its entry under cli_lock_, then *)
(* puts an element for the entry's index into commit_ret_elems_ and waits  *)
(* on it.  The commit thread applies entries without lock_ or cli_lock_,   *)
(* and completes the element of the index it has applied, or leaves one    *)
(* there when the caller is slower.  A server that steps down cancels      *)
(* every element.                                                          *)
(*                                                                         *)
(* The other servers are the environment: they acknowledge entries of this *)
(* server, lead later terms, and overwrite what is not committed.  That    *)
(* what quick_commit_index_ covers is final is an assumption on them:      *)
(* RaftReplication shows how they can break it (CommitIsFinal).            *)
(* update_term and become_follower are one step here; the calls served     *)
(* between them are a matter of RaftReplication.                           *)
(***************************************************************************)
EXTENDS Integers, Sequences

CONSTANTS
    Call,       \* client calls, one entry each
    NoCall,     \* not a call
    MaxTerm,    \* bound on terms
    MaxLog      \* bound on the length of the log

ASSUME CallsAssumption ==
    /\ MaxTerm \in Nat \ {0} /\ MaxLog \in Nat \ {0}
    /\ NoCall \notin Call /\ NoCall \notin 1..MaxLog
    /\ Call \intersect (1..MaxLog) = {}
    /\ "conf" \notin Call /\ "other" \notin Call

VARIABLES
    term,       \* state_->get_term()
    leader,     \* who leads the term, as this server knows; "self": role_
                \* is leader; "resigned": it was this server
    paused,     \* write_paused_
    log,        \* log_store_
    precommit,  \* precommit_index_
    quick,      \* quick_commit_index_
    sm,         \* sm_commit_index_
    applied,    \* history: the entries handed to the state machine
    elems,      \* commit_ret_elems_: the element of each index
    elem,       \* the elements: result_code_ and whether awaiter_ is invoked
    calls,      \* where each call is, its index, its element, its answer
    cliLock,    \* the call that holds cli_lock_
    thread,     \* the commit thread: where it is, need_to_handle_commit_elem,
                \* the entry it works on and its index
    exited      \* system_exit with N23_precommit_order_inversion

raft == <<term, leader, paused>>
indexes == <<log, precommit, quick>>
waiting == <<elems, elem>>
vars == <<raft, indexes, sm, applied, waiting, calls, cliLock, thread, exited>>

Term == 0..MaxTerm
Index == 1..MaxLog
Larger(a, b) == IF a > b THEN a ELSE b

\* who wrote an entry: a call, this server on its election (a
\* configuration), or another leader
Entry == [term : Term, by : Call \union {"conf", "other"}]
NoEntry == [term |-> 0, by |-> "other"]

\* an element is created by the call or by the commit thread
ElemId == Call \union Index
NoElem == NoCall
Code == {"OK", "TIMEOUT", "CANCELLED"}
Element == [result : Code, invoked : BOOLEAN]

CallState ==
    [pc : {"idle", "stored", "announced", "waiting", "done"},
     idx : 0..MaxLog, elem : ElemId \union {NoElem},
     answer : Code \union {"none", "NOT_LEADER"}]
ThreadState ==
    [pc : {"asleep", "start", "loop", "apply", "deliver", "advance"},
     need : BOOLEAN, idx : 0..MaxLog, entry : Entry]

TypeOK ==
    /\ term \in Term
    /\ leader \in {"none", "self", "other", "resigned"}
    /\ paused \in BOOLEAN
    /\ log \in Seq(Entry) /\ Len(log) <= MaxLog
    /\ precommit \in 0..MaxLog /\ quick \in 0..MaxLog /\ sm \in 0..MaxLog
    /\ applied \in Seq(Entry) /\ Len(applied) <= MaxLog
    /\ elems \in [Index -> ElemId \union {NoElem}]
    /\ elem \in [ElemId -> Element]
    /\ calls \in [Call -> CallState]
    /\ cliLock \in Call \union {NoCall}
    /\ thread \in ThreadState
    /\ exited \in BOOLEAN

Init ==
    /\ term = 0 /\ leader = "none" /\ paused = FALSE
    /\ log = << >> /\ precommit = 0 /\ quick = 0 /\ sm = 0
    /\ applied = << >>
    /\ elems = [k \in Index |-> NoElem]
    /\ elem = [e \in ElemId |-> [result |-> "TIMEOUT", invoked |-> FALSE]]
    /\ calls = [c \in Call |-> [pc |-> "idle", idx |-> 0, elem |-> NoElem,
                                answer |-> "none"]]
    /\ cliLock = NoCall
    /\ thread = [pc |-> "asleep", need |-> FALSE, idx |-> 0, entry |-> NoEntry]
    /\ exited = FALSE

-----------------------------------------------------------------------------
(* The commit thread is notified by commit() when there is work, and tests *)
(* the same condition under commit_cv_lock_ before it sleeps.              *)

Work(q, n) == sm < q /\ sm < n

\* a plausible bug: a leader's commit thread is not notified
NotifiedFollower(q, n) ==
    IF thread.pc = "asleep" /\ Work(q, n) /\ leader # "self"
    THEN [thread EXCEPT !.pc = "start"]
    ELSE thread

Notified(q, n) ==
    IF thread.pc = "asleep" /\ Work(q, n)
    THEN [thread EXCEPT !.pc = "start"]
    ELSE thread

\* a plausible bug: the next slot instead of the last index
TryUpdateToNextSlot(desired) == Larger(precommit, desired + 1)

\* try_update_precommit_index: it never goes down
TryUpdate(desired) == Larger(precommit, desired)

-----------------------------------------------------------------------------
(* A client call: handle_cli_req, then handle_cli_req_callback.            *)

\* not a leader, or the leader is about to resign
Reject(c) ==
    /\ calls[c].pc = "idle" /\ cliLock = NoCall
    /\ leader # "self" \/ paused
    /\ calls' = [calls EXCEPT ![c].pc = "done", ![c].answer = "NOT_LEADER"]
    /\ UNCHANGED <<raft, indexes, sm, applied, waiting, cliLock, thread, exited>>

\* the entry is stored; precommit_index_ does not cover it yet
Store(c) ==
    /\ calls[c].pc = "idle" /\ cliLock = NoCall
    /\ leader = "self" /\ ~paused /\ Len(log) < MaxLog
    /\ log' = Append(log, [term |-> term, by |-> c])
    /\ calls' = [calls EXCEPT ![c].pc = "stored", ![c].idx = Len(log) + 1]
    /\ cliLock' = c
    /\ UNCHANGED <<raft, precommit, quick, sm, applied, waiting, thread, exited>>

\* the entry may be sent to followers from here on
Announce(c) ==
    /\ calls[c].pc = "stored"
    /\ precommit' = TryUpdate(calls[c].idx)
    /\ calls' = [calls EXCEPT ![c].pc = "announced"]
    /\ UNCHANGED <<raft, log, quick, sm, applied, waiting, cliLock, thread, exited>>

\* under commit_ret_elems_lock_: the element the commit thread has left
\* there, or a new one
Enlist(c) ==
    /\ calls[c].pc = "announced"
    /\ LET k == calls[c].idx
           e == IF elems[k] = NoElem THEN c ELSE elems[k]
       IN  /\ elems' = [elems EXCEPT ![k] = e]
           /\ calls' = [calls EXCEPT ![c].pc = "waiting", ![c].elem = e]
    /\ cliLock' = NoCall
    /\ UNCHANGED <<raft, indexes, sm, applied, elem, thread, exited>>

\* the caller goes on: it takes the result and erases whatever element the
\* map holds for the index
Collect(c) ==
    /\ calls[c].pc = "waiting"
    /\ calls' = [calls EXCEPT ![c].pc = "done",
                              ![c].answer = elem[calls[c].elem].result]
    /\ elems' = [elems EXCEPT ![calls[c].idx] = NoElem]
    /\ UNCHANGED <<raft, indexes, sm, applied, elem, cliLock, thread, exited>>

\* its element was invoked, before it waited or while it did
Wake(c) == Collect(c) /\ elem[calls[c].elem].invoked
\* client_req_timeout_ expires, or the wait returns spuriously
TimeOut(c) == Collect(c) /\ ~elem[calls[c].elem].invoked

-----------------------------------------------------------------------------
(* Roles.  become_leader and become_follower take cli_lock_.               *)

\* a plausible bug: a server that steps down leaves its elements as they are
DropNothing == UNCHANGED waiting

\* drop_all_pending_commit_elems: an element that is already OK is
\* cancelled too when its caller has not gone on
DropAll ==
    LET dropped == {elems[k] : k \in Index}
    IN  /\ elem' = [e \in ElemId |->
                        IF e \in dropped
                        THEN [result |-> "CANCELLED", invoked |-> TRUE]
                        ELSE elem[e]]
        /\ elems' = [k \in Index |-> NoElem]

BecomeFollower ==
    /\ cliLock = NoCall
    /\ paused' = FALSE
    /\ DropAll

\* a later term is seen: update_term
UpdateTerm ==
    /\ term < MaxTerm
    /\ term' = term + 1
    /\ leader' = "none"
    /\ BecomeFollower
    /\ UNCHANGED <<indexes, sm, applied, calls, cliLock, thread, exited>>

\* yield_leadership pauses writes first, or a call that was not answered OK
\* finds the quorum gone (check_leadership_validity)
PauseWrites ==
    /\ leader = "self" /\ ~paused
    /\ paused' = TRUE
    /\ UNCHANGED <<term, leader, indexes, sm, applied, waiting, calls, cliLock,
                   thread, exited>>

Resign ==
    /\ leader = "self"
    /\ leader' = "resigned"
    /\ BecomeFollower
    /\ UNCHANGED <<term, indexes, sm, applied, calls, cliLock, thread, exited>>

\* precommit_index_ is set before the configuration is stored, and
\* store_log_entry moves it on because role_ is leader by then
BecomeLeader ==
    /\ term > 0 /\ leader = "none" /\ cliLock = NoCall
    /\ Len(log) < MaxLog
    /\ leader' = "self"
    /\ paused' = FALSE
    /\ log' = Append(log, [term |-> term, by |-> "conf"])
    /\ precommit' = Len(log) + 1
    /\ UNCHANGED <<term, quick, sm, applied, waiting, calls, cliLock, thread, exited>>

-----------------------------------------------------------------------------
(* The other servers.                                                      *)

\* a plausible bug: it counts as what it has stored
CommittableStored == Len(log)

\* the highest index a majority may match: this server counts as its
\* precommit_index_, and sends its followers nothing past it
Committable == precommit

\* handle_append_entries_resp: commit()
PeersMatch(k) ==
    /\ leader = "self"
    /\ quick < k /\ k <= Committable
    /\ quick' = k
    /\ thread' = Notified(k, Len(log))
    /\ UNCHANGED <<raft, log, precommit, sm, applied, waiting, calls, cliLock, exited>>

\* handle_append_entries: entries after p that differ are rolled back and
\* overwritten by n of the leader's, and commit() follows its commit index
AppendEntries(p, n, k) ==
    /\ term > 0 /\ leader \in {"none", "other"}
    /\ p \in quick..Len(log) /\ p + n <= MaxLog
    /\ quick <= k /\ k <= p + n
    /\ leader' = "other"
    /\ log' = IF n = 0 THEN log
              ELSE SubSeq(log, 1, p)
                   \o [j \in 1..n |-> [term |-> term, by |-> "other"]]
    /\ precommit' = TryUpdate(p + n)
    /\ quick' = k
    /\ thread' = Notified(k, Len(log'))
    /\ UNCHANGED <<term, paused, sm, applied, waiting, calls, cliLock, exited>>

-----------------------------------------------------------------------------
(* The commit thread: commit_in_bg_exec.  need_to_handle_commit_elem is    *)
(* read once, before the loop.                                             *)

Start ==
    /\ thread.pc = "start"
    /\ thread' = [thread EXCEPT !.pc = "loop", !.need = (leader = "self")]
    /\ UNCHANGED <<raft, indexes, sm, applied, waiting, calls, cliLock, exited>>

\* the loop ends, or goes on with the next entry
Sleep ==
    /\ thread.pc = "loop" /\ ~Work(quick, Len(log))
    /\ thread' = [thread EXCEPT !.pc = "asleep", !.need = FALSE, !.idx = 0,
                                !.entry = NoEntry]
    /\ UNCHANGED <<raft, indexes, sm, applied, waiting, calls, cliLock, exited>>

Fetch ==
    /\ thread.pc = "loop" /\ Work(quick, Len(log))
    /\ thread' = [thread EXCEPT !.pc = "apply", !.idx = sm + 1,
                                !.entry = log[sm + 1]]
    /\ UNCHANGED <<raft, indexes, sm, applied, waiting, calls, cliLock, exited>>

\* commit_app_log checks precommit_index_ first; commit_conf does not, and
\* has no element to complete
Apply ==
    /\ thread.pc = "apply" /\ ~exited
    /\ IF thread.entry.by # "conf" /\ precommit < thread.idx
       THEN exited' = TRUE /\ UNCHANGED <<applied, thread>>
       ELSE /\ applied' = Append(applied, thread.entry)
            /\ thread' = [thread EXCEPT !.pc =
                    IF thread.need /\ thread.entry.by # "conf"
                    THEN "deliver" ELSE "advance"]
            /\ UNCHANGED exited
    /\ UNCHANGED <<raft, indexes, sm, waiting, calls, cliLock>>

\* under commit_ret_elems_lock_: the element of the index is completed, or
\* one is left for the caller, who is slower (or is not here at all)
Deliver ==
    /\ thread.pc = "deliver"
    /\ LET k == thread.idx
           e == IF elems[k] = NoElem THEN k ELSE elems[k]
       IN  /\ elem' = [elem EXCEPT ![e] = [result |-> "OK", invoked |-> TRUE]]
           /\ elems' = [elems EXCEPT ![k] = e]
    /\ thread' = [thread EXCEPT !.pc = "advance"]
    /\ UNCHANGED <<raft, indexes, sm, applied, calls, cliLock, exited>>

\* a plausible bug: the index jumps to what may be committed
AdvanceToQuick ==
    /\ thread.pc = "advance"
    /\ sm' = quick
    /\ thread' = [thread EXCEPT !.pc = "loop"]
    /\ UNCHANGED <<raft, indexes, applied, waiting, calls, cliLock, exited>>

\* compare_exchange of sm_commit_index_
Advance ==
    /\ thread.pc = "advance"
    /\ sm' = IF sm = thread.idx - 1 THEN thread.idx ELSE sm
    /\ thread' = [thread EXCEPT !.pc = "loop"]
    /\ UNCHANGED <<raft, indexes, applied, waiting, calls, cliLock, exited>>

CommitThread == Start \/ Sleep \/ Fetch \/ Apply \/ Deliver \/ Advance

-----------------------------------------------------------------------------
Next ==
    \/ \E c \in Call : \/ Reject(c) \/ Store(c) \/ Announce(c) \/ Enlist(c)
                       \/ Wake(c) \/ TimeOut(c)
    \/ UpdateTerm \/ PauseWrites \/ Resign \/ BecomeLeader
    \/ \E k \in Index : PeersMatch(k)
    \/ \E p, n, k \in 0..MaxLog : AppendEntries(p, n, k)
    \/ CommitThread

\* Threads that can run do: the commit thread, a call that holds cli_lock_,
\* and a caller whose element was invoked.  Nothing is assumed of the other
\* servers, of elections or of client_req_timeout_.
Spec ==
    /\ Init /\ [][Next]_vars
    /\ WF_vars(CommitThread)
    /\ \A c \in Call : WF_vars(Announce(c) \/ Enlist(c) \/ Wake(c))

-----------------------------------------------------------------------------
(* Properties.                                                             *)

\* A call that is answered OK was applied: the entry the state machine took
\* at its index is the call's own, though elements are found by index and
\* an index may be used by several calls and leaders in turn.
OkIsApplied ==
    \A c \in Call : calls[c].answer = "OK" =>
        /\ calls[c].idx \in DOMAIN applied
        /\ applied[calls[c].idx].by = c

\* The state machine takes the committed entries of the log, each once and
\* in order, while entries above are stored, overwritten and committed
\* beside the commit thread.
AppliedInOrder ==
    /\ Len(applied) <= Len(log) /\ applied = SubSeq(log, 1, Len(applied))
    /\ Len(applied) = IF thread.pc \in {"deliver", "advance"} THEN sm + 1 ELSE sm

\* The commit thread never finds precommit_index_ behind the entry it is to
\* apply, which would stop the process (N23), although the two indexes are
\* written by different threads under different locks.
NeverInverted == ~exited

\* A committed entry is applied without a further notification: the thread
\* does not sleep through work.
CommittedIsApplied ==
    \A k \in Index : quick >= k ~> sm >= k

\* A call whose entry the server has applied is answered, without waiting
\* for client_req_timeout_ (raft_params.hxx: append_entries() returns after
\* it is committed in the leader node).
AppliedIsAnswered ==
    \A c \in Call :
        (/\ calls[c].pc = "waiting"
         /\ calls[c].idx <= sm /\ applied[calls[c].idx].by = c)
        ~> calls[c].pc = "done"
=============================================================================
