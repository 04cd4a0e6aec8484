----------------------------- MODULE SnapshotSync -----------------------------
(***************************************************************************)
(* Snapshots and log compaction of NuRaft, over the state machine of       *)
(* kvstore: a leader whose log has been compacted brings a follower up to  *)
(* date, object by object, and both take snapshots of their own.           *)
(*                                                                         *)
(* The leader stays leader, and its other followers acknowledge what it    *)
(* appends, so that an entry is committed and applied as it is appended.   *)
(* Entries are their indexes; there is one term.  A snapshot of kvstore    *)
(* has two objects: object 0 announces it, object 1 is the value.          *)
(*                                                                         *)
(* The follower handles one request at a time (lock_).  Its commit thread  *)
(* runs beside the handler, and only on_snapshot_completed takes lock_:    *)
(* nothing keeps a snapshot from arriving while that thread is between two *)
(* of its steps.  The history variable crossed says when this has happened *)
(* in one of the two ways that do harm, and the properties what holds as   *)
(* long as it has not.                                                     *)
(*                                                                         *)
(* The log stores keep the contract of LogStore.  RocksLogStore says what  *)
(* the store of kvstore makes of it.                                       *)
(***************************************************************************)
EXTENDS Integers, Sequences, FiniteSets, FiniteSetsExt

CONSTANTS
    MaxIndex,   \* bound on the leader's log
    MaxEvents,  \* bound on failures: connections cut, timeouts, overtakings
    Distance,   \* snapshot_distance_
    Reserved,   \* reserved_log_items_
    Keep,       \* MAX_SNAPSHOTS
    MaxAppend   \* max_append_size_

ASSUME SnapshotAssumption ==
    /\ MaxIndex \in Nat /\ MaxEvents \in Nat /\ Reserved \in Nat
    /\ Distance \in Nat \ {0} /\ Keep \in Nat \ {0}
    /\ MaxAppend \in Nat \ {0}

VARIABLES
    lead,       \* the leader: its log from start to last, the snapshots of
                \* its state machine, last_snapshot_, and what ended it
    peer,       \* what it knows of the follower: next_log_idx_,
                \* matched_idx_, and snp_sync_ctx_: snapshot, offset, timer
    fol,        \* the follower: log, indexes, state machine, last_snapshot_;
                \* lost once its process has stopped or its log holds an
                \* entry in another's slot, and not followed any further
    thread,     \* its commit thread: where it is, the index of its entry or
                \* of its snapshot, cur_value_ as commit has read it
    install,    \* the snapshot the handler is installing, and how far it is
    reqs,       \* requests on their way
    resps,      \* responses on their way, or waiting for lock_
    events,     \* how many failures there were, a bound on the model only
    crossed     \* history: how handler and commit thread have met

vars == <<lead, peer, fol, thread, install, reqs, resps, events, crossed>>

Index == 0..MaxIndex
Larger(a, b) == IF a > b THEN a ELSE b
Smaller(a, b) == IF a < b THEN a ELSE b

\* the state after the first k entries
Prefix(k) == [i \in 1..k |-> i]
NoValue == << >>

\* the snapshots a state machine keeps of these
Newest(S) == {x \in S : Cardinality({y \in S : y >= x}) <= Keep}
\* create_snapshot_internal of k with value v
WithSnapshot(f, k, v) ==
    [x \in Newest(DOMAIN f \union {k}) |-> IF x = k THEN v ELSE f[x]]

\* snapshot_and_compact: the log is long enough and the last snapshot far
\* enough behind, in unsigned arithmetic
Due(k, start, snap) ==
    /\ k - start + 1 \notin 0..Distance - 1
    /\ snap = 0 \/ k - snap \notin 0..Distance - 1

\* where the log starts after on_snapshot_completed of snapshot k
StartAfter(k, start) ==
    IF k > Reserved THEN Larger(start, k - Reserved + 1) ELSE start

NoSync == 0
Init ==
    /\ lead = [start |-> 1, last |-> 0, snaps |-> {}, snap |-> 0, exit |-> "none"]
    /\ peer = [next |-> 0, matched |-> 0, snp |-> NoSync, offset |-> 0,
               expired |-> FALSE]
    /\ fol = [start |-> 1, last |-> 0, precommit |-> 0, quick |-> 0, sm |-> 0,
              value |-> << >>, snaps |-> << >>, snap |-> 0, lost |-> FALSE]
    /\ thread = [pc |-> "asleep", idx |-> 0, prev |-> << >>]
    /\ install = [pc |-> "none", snp |-> 0]
    /\ reqs = {} /\ resps = {} /\ events = 0 /\ crossed = {}

Serving == lead.exit = "none"
Event == events < MaxEvents /\ events' = events + 1

-----------------------------------------------------------------------------
(* The leader.                                                             *)

\* a plausible bug: the log is cut but last_snapshot_ is not set
ProposeUnset ==
    /\ Serving /\ lead.last < MaxIndex
    /\ LET k == lead.last + 1
       IN  lead' = IF Due(k, lead.start, lead.snap)
                   THEN [lead EXCEPT !.last = k,
                                     !.snaps = Newest(lead.snaps \union {k}),
                                     !.start = StartAfter(k, lead.start)]
                   ELSE [lead EXCEPT !.last = k]
    /\ UNCHANGED <<peer, fol, thread, install, reqs, resps, events, crossed>>

\* a client's entry is appended, committed and applied, and a snapshot taken
\* when one is due; it becomes last_snapshot_ and the log is cut behind it
Propose ==
    /\ Serving /\ lead.last < MaxIndex
    /\ LET k == lead.last + 1
       IN  lead' = IF Due(k, lead.start, lead.snap)
                   THEN [lead EXCEPT !.last = k, !.snap = k,
                                     !.snaps = Newest(lead.snaps \union {k}),
                                     !.start = StartAfter(k, lead.start)]
                   ELSE [lead EXCEPT !.last = k]
    /\ UNCHANGED <<peer, fol, thread, install, reqs, resps, events, crossed>>

\* a request on its way or an unread response keeps the peer busy
Busy(pending, answers) == pending # {} \/ \E a \in answers : ~a.freed

\* term_for_log answers a term: the entry is stored, or is the last of the
\* state machine's newest snapshot
TermKnown(k) ==
    \/ k \in lead.start..lead.last
    \/ k > 0 /\ k \in lead.snaps /\ \A s \in lead.snaps : s <= k

AppendRequest(last) ==
    [kind |-> "append", prev |-> last, known |-> last = 0 \/ TermKnown(last),
     upto |-> Smaller(lead.last, last + MaxAppend), commit |-> lead.last]

\* read_logical_snp_obj: object 1 of a snapshot that is still there
SnapshotRequest(s, offset) ==
    [kind |-> "snapshot", snp |-> s, offset |-> offset, last |-> offset > 0,
     value |-> IF offset > 0 THEN Prefix(s) ELSE NoValue]

\* create_sync_snapshot_req: a transfer under way goes on with the snapshot
\* it has, unless it has timed out or not got past its first object
Continues(pr) == pr.snp # NoSync /\ ~pr.expired /\ pr.offset > 0

\* The objects of a snapshot that the state machine has dropped meanwhile
\* are null, which kills the process when the request is serialized.
SendSnapshot(pr, pending) ==
    LET s == IF Continues(pr) THEN pr.snp ELSE lead.snap
        offset == IF Continues(pr) THEN pr.offset ELSE 0
    IN  IF s \in lead.snaps
        THEN /\ reqs' = pending \union {SnapshotRequest(s, offset)}
             /\ peer' = [pr EXCEPT !.snp = s, !.offset = offset, !.expired = FALSE]
             /\ UNCHANGED lead
        ELSE /\ lead' = [lead EXCEPT !.exit = "null_object"]
             /\ reqs' = pending /\ peer' = pr

\* the log does not reach back to what the peer needs, and no snapshot takes it
\* further: it is sent an out-of-log notification.  Its handling is not
\* modelled, as it is never sent (CanServe).
OutOfLog(pr) == lead.snap = 0 \/ pr.next - 1 >= lead.snap

\* request_append_entries(p): create_append_entries_req, given what is known
\* of the peer by now; an unset next_log_idx_ starts after the last entry.
\* If the peer is busy a transfer that has timed out is given up.
Send(pr, pending, answers) ==
    IF Busy(pending, answers)
    THEN /\ peer' = IF pr.expired
                    THEN [pr EXCEPT !.snp = NoSync, !.offset = 0, !.expired = FALSE]
                    ELSE pr
         /\ reqs' = pending /\ UNCHANGED lead
    ELSE LET set == [pr EXCEPT !.next = IF pr.next = 0 THEN lead.last + 1 ELSE pr.next]
             last == set.next - 1
         IN  IF last + 1 < lead.start
             THEN IF OutOfLog(set)
                  THEN /\ lead' = [lead EXCEPT !.exit = "out_of_log_range"]
                       /\ reqs' = pending /\ peer' = set
                  ELSE SendSnapshot(set, pending)
             ELSE /\ reqs' = pending \union {AppendRequest(last)}
                  /\ peer' = set /\ UNCHANGED lead

\* the append thread or the heartbeat timer
Request ==
    /\ Serving
    /\ ~Busy(reqs, resps) \/ peer.expired
    /\ Send(peer, reqs, resps)
    /\ UNCHANGED <<fol, thread, install, resps, events, crossed>>

\* the connection is replaced: what was under way is lost, and what is known
\* of the log of the peer is forgotten, but not the transfer
Reconnect ==
    /\ Event /\ Serving
    /\ \E a \in {{}, {r \in resps : r.freed}} :
        /\ resps' = a
        /\ Send(IF peer.next = 0 THEN peer
                ELSE [peer EXCEPT !.next = 0, !.matched = 0], {}, a)
    /\ UNCHANGED <<fol, thread, install, crossed>>

\* snp_timeout_ms have passed since the transfer made progress
Expire ==
    /\ Event
    /\ peer.snp # NoSync /\ ~peer.expired
    /\ peer' = [peer EXCEPT !.expired = TRUE]
    /\ UNCHANGED <<lead, fol, thread, install, reqs, resps, crossed>>

\* handle_rpc_result frees the peer and then has to wait for lock_
FreePeer(a) ==
    /\ Event /\ ~a.freed
    /\ resps' = (resps \ {a}) \union {[a EXCEPT !.freed = TRUE]}
    /\ UNCHANGED <<lead, peer, fol, thread, install, reqs, crossed>>

ClearSync(pr) == [pr EXCEPT !.snp = NoSync, !.offset = 0, !.expired = FALSE]

\* a plausible bug: what matches is taken to be the next slot
AppendAnsweredNext(a) ==
    IF a.accepted
    THEN [peer EXCEPT !.next = a.next, !.matched = a.next]
    ELSE [peer EXCEPT !.next = IF a.next > 0 /\ @ > a.next THEN a.next
                               ELSE IF @ > 0 THEN @ - 1 ELSE 0]

\* handle_append_entries_resp: next_log_idx_ after a declined request jumps
\* to the peer's next slot or goes one back
AppendAnswered(a) ==
    IF a.accepted
    THEN [peer EXCEPT !.next = a.next, !.matched = a.next - 1]
    ELSE [peer EXCEPT !.next = IF a.next > 0 /\ @ > a.next THEN a.next
                               ELSE IF @ > 0 THEN @ - 1 ELSE 0]

\* handle_install_snapshot_resp: the transfer the answer is taken for is the
\* one that is under way now
SnapshotAnswered(a) ==
    IF ~a.accepted THEN [ClearSync(peer) EXCEPT !.next = a.next]
    ELSE IF peer.snp = NoSync THEN peer
    ELSE IF a.done
         THEN [ClearSync(peer) EXCEPT !.next = peer.snp + 1, !.matched = peer.snp]
         ELSE [peer EXCEPT !.offset = a.next,
                           !.expired = peer.expired /\ peer.offset = a.next]

\* a follower that is not level is sent more at once
NeedsMore(a, pr) ==
    IF a.kind = "append" THEN ~a.accepted \/ a.next <= lead.last
    ELSE IF a.accepted /\ peer.snp = NoSync THEN FALSE
    ELSE IF a.accepted /\ ~a.done THEN TRUE
    ELSE pr.next <= lead.last

HandleResponse(a) ==
    /\ Serving
    /\ resps' = resps \ {a}
    /\ LET pr == IF a.kind = "append" THEN AppendAnswered(a) ELSE SnapshotAnswered(a)
       IN  IF NeedsMore(a, pr) THEN Send(pr, reqs, resps \ {a})
           ELSE peer' = pr /\ UNCHANGED <<lead, reqs>>
    /\ UNCHANGED <<fol, thread, install, events, crossed>>

-----------------------------------------------------------------------------
(* The follower.  A handler runs under lock_, free when nothing is being   *)
(* installed.                                                              *)

Ready == ~fol.lost /\ install.pc = "none"
Work == fol.sm < fol.quick /\ fol.sm < fol.last

Answer(kind, accepted, nx, done) ==
    [kind |-> kind, accepted |-> accepted, next |-> nx, done |-> done,
     freed |-> FALSE]
Reply(q, a) == reqs' = reqs \ {q} /\ resps' = resps \union {a}

\* a plausible bug: only stored entries are looked at
LogOkayStored(q) ==
    \/ q.prev = 0
    \/ q.known /\ q.prev \in fol.start..fol.last

\* the request fits: its previous entry is stored, or is that of the last
\* snapshot, of the state machine if the log does not end before it
LogOkay(q) ==
    \/ q.prev = 0
    \/ /\ q.known
       /\ \/ q.prev \in fol.start..fol.last
          \/ /\ q.prev <= fol.last
             /\ q.prev \in DOMAIN fol.snaps /\ \A s \in DOMAIN fol.snaps : s <= q.prev
          \/ q.prev = fol.snap

\* a plausible bug: precommit_index_ follows only what is overwritten
HandleAppendUnannounced(q) ==
    /\ Ready /\ q.kind = "append"
    /\ IF LogOkay(q)
       THEN LET target == Larger(q.prev, q.upto)
            IN  /\ fol' = [fol EXCEPT
                     !.last = Larger(@, q.upto),
                     !.quick = Larger(@, Smaller(q.commit, target))]
                /\ Reply(q, Answer("append", TRUE, target + 1, FALSE))
       ELSE /\ Reply(q, Answer("append", FALSE, fol.last + 1, FALSE))
            /\ UNCHANGED fol
    /\ UNCHANGED <<lead, peer, thread, install, events, crossed>>

\* handle_append_entries: entries that are there are skipped, the others are
\* appended in the next slots.  These are not the slots of their indexes when
\* the previous entry is behind the log's end.
HandleAppend(q) ==
    /\ Ready /\ q.kind = "append"
    /\ IF LogOkay(q)
       THEN LET target == Larger(q.prev, q.upto)
            IN  /\ fol' = [fol EXCEPT
                     !.last = Larger(@, q.upto),
                     !.precommit = Larger(@, target),
                     !.quick = Larger(@, Smaller(q.commit, target)),
                     !.lost = fol.last < q.prev /\ q.prev < q.upto]
                /\ Reply(q, Answer("append", TRUE, target + 1, FALSE))
       ELSE /\ Reply(q, Answer("append", FALSE, fol.last + 1, FALSE))
            /\ UNCHANGED fol
    /\ UNCHANGED <<lead, peer, thread, install, events, crossed>>

Arrives(q) ==
    /\ Ready /\ q.kind = "snapshot"

\* handle_install_snapshot_req: a snapshot the state machine is past
DeclineSnapshot(q) ==
    /\ Arrives(q) /\ q.snp <= fol.sm
    /\ Reply(q, Answer("snapshot", FALSE, fol.last + 1, TRUE))
    /\ UNCHANGED <<lead, peer, fol, thread, install, events, crossed>>

\* save_logical_snp_obj of object 0 makes a snapshot of the current value
FirstObject(q) ==
    /\ Arrives(q) /\ q.snp > fol.sm /\ q.offset = 0
    /\ fol' = [fol EXCEPT !.snaps = WithSnapshot(fol.snaps, q.snp, fol.value)]
    /\ Reply(q, Answer("snapshot", TRUE, q.offset + 1, FALSE))
    /\ UNCHANGED <<lead, peer, thread, install, events, crossed>>

\* a plausible bug: the value of the last object is not taken
LastObjectIgnored(q) ==
    /\ Arrives(q) /\ q.snp > fol.sm /\ q.offset > 0
    /\ q.snp \in DOMAIN fol.snaps
    /\ install' = [pc |-> "compact", snp |-> q.snp]
    /\ UNCHANGED <<lead, peer, fol, thread, reqs, resps, events, crossed>>

\* of object 1 fills it in; without it the process dies
LastObject(q) ==
    /\ Arrives(q) /\ q.snp > fol.sm /\ q.offset > 0
    /\ IF q.snp \in DOMAIN fol.snaps
       THEN /\ fol' = [fol EXCEPT !.snaps[q.snp] = q.value]
            /\ install' = [pc |-> "compact", snp |-> q.snp]
       ELSE /\ fol' = [fol EXCEPT !.lost = TRUE]
            /\ UNCHANGED install
    /\ UNCHANGED <<lead, peer, thread, reqs, resps, events, crossed>>

\* a plausible bug: the log's end stays where it was
CompactInPlace ==
    /\ install.pc = "compact" /\ ~fol.lost
    /\ fol' = [fol EXCEPT !.start = Larger(@, install.snp + 1)]
    /\ install' = [install EXCEPT !.pc = "apply"]
    /\ UNCHANGED <<lead, peer, thread, reqs, resps, events, crossed>>

\* handle_snapshot_sync_req, once it has the last object: the log is cut,
\* whatever the commit thread is about,
Compact ==
    /\ install.pc = "compact" /\ ~fol.lost
    /\ fol' = [fol EXCEPT !.start = Larger(@, install.snp + 1),
                          !.last = Larger(@, install.snp)]
    /\ install' = [install EXCEPT !.pc = "apply"]
    /\ crossed' = IF thread.pc = "asleep" /\ ~Work THEN crossed
                  ELSE crossed \union {"install"}
    /\ UNCHANGED <<lead, peer, thread, reqs, resps, events>>

\* a plausible bug: the state machine goes on with the value it has
ApplyNothing ==
    /\ install.pc = "apply" /\ ~fol.lost
    /\ install' = [install EXCEPT !.pc = "indexes"]
    /\ UNCHANGED <<lead, peer, fol, thread, reqs, resps, events, crossed>>

\* apply_snapshot sets cur_value_ (and not last_committed_idx_),
ApplySnapshot ==
    /\ install.pc = "apply" /\ ~fol.lost
    /\ fol' = IF install.snp \in DOMAIN fol.snaps
              THEN [fol EXCEPT !.value = fol.snaps[install.snp]]
              ELSE [fol EXCEPT !.lost = TRUE]
    /\ install' = [install EXCEPT !.pc = "indexes"]
    /\ UNCHANGED <<lead, peer, thread, reqs, resps, events, crossed>>

\* a plausible bug: sm_commit_index_ is left to the commit thread
SetPrecommit ==
    /\ install.pc = "indexes" /\ ~fol.lost
    /\ fol' = [fol EXCEPT !.precommit = install.snp]
    /\ install' = [install EXCEPT !.pc = "finish"]
    /\ UNCHANGED <<lead, peer, thread, reqs, resps, events, crossed>>

\* precommit_index_ and sm_commit_index_ are set first,
SetIndexes ==
    /\ install.pc = "indexes" /\ ~fol.lost
    /\ fol' = [fol EXCEPT !.precommit = install.snp, !.sm = install.snp]
    /\ install' = [install EXCEPT !.pc = "finish"]
    /\ UNCHANGED <<lead, peer, thread, reqs, resps, events, crossed>>

\* then quick_commit_index_ and last_snapshot_, and the answer is sent
Finish(q) ==
    /\ install.pc = "finish" /\ ~fol.lost /\ q.kind = "snapshot"
    /\ fol' = [fol EXCEPT !.quick = install.snp, !.snap = install.snp]
    /\ install' = [install EXCEPT !.pc = "none"]
    /\ Reply(q, Answer("snapshot", TRUE, q.offset + 1, TRUE))
    /\ UNCHANGED <<lead, peer, thread, events, crossed>>

\* the connection was cut meanwhile and nobody waits for the answer
FinishUnheard ==
    /\ install.pc = "finish" /\ ~fol.lost
    /\ \A q \in reqs : q.kind # "snapshot"
    /\ fol' = [fol EXCEPT !.quick = install.snp, !.snap = install.snp]
    /\ install' = [install EXCEPT !.pc = "none"]
    /\ UNCHANGED <<lead, peer, thread, reqs, resps, events, crossed>>

-----------------------------------------------------------------------------
(* The follower's commit thread: commit_in_bg_exec, and what it calls.     *)

CommitStep(from) == thread.pc = from /\ ~fol.lost

Start ==
    /\ thread.pc = "asleep" /\ ~fol.lost /\ Work
    /\ fol' = [fol EXCEPT !.sm = Larger(@, fol.start - 1)]
    /\ thread' = [thread EXCEPT !.pc = "loop"]
    /\ UNCHANGED <<lead, peer, install, reqs, resps, events, crossed>>

Sleep ==
    /\ CommitStep("loop") /\ ~Work
    /\ thread' = [pc |-> "asleep", idx |-> 0, prev |-> NoValue]
    /\ UNCHANGED <<lead, peer, fol, install, reqs, resps, events, crossed>>

\* an entry that is not stored has term 0 and stops the process (N19)
Fetch ==
    /\ CommitStep("loop") /\ Work
    /\ LET k == fol.sm + 1
       IN  IF k \in fol.start..fol.last
           THEN /\ thread' = [thread EXCEPT !.pc = "read", !.idx = k]
                /\ UNCHANGED fol
           ELSE /\ fol' = [fol EXCEPT !.lost = TRUE]
                /\ UNCHANGED thread
    /\ UNCHANGED <<lead, peer, install, reqs, resps, events, crossed>>

\* commit of kvstore reads cur_value_, once precommit_index_ was found to
\* cover the entry (else N23),
Read ==
    /\ CommitStep("read")
    /\ IF thread.idx <= fol.precommit
       THEN /\ thread' = [thread EXCEPT !.pc = "write", !.prev = fol.value]
            /\ UNCHANGED fol
       ELSE /\ fol' = [fol EXCEPT !.lost = TRUE]
            /\ UNCHANGED thread
    /\ UNCHANGED <<lead, peer, install, reqs, resps, events, crossed>>

\* and stores what the entry makes of it
Write ==
    /\ CommitStep("write")
    /\ fol' = [fol EXCEPT !.value = Append(thread.prev, thread.idx)]
    /\ thread' = [thread EXCEPT !.pc = "advance"]
    /\ UNCHANGED <<lead, peer, install, reqs, resps, events, crossed>>

\* compare_exchange of sm_commit_index_; on a failure no snapshot is made
Advance ==
    /\ CommitStep("advance")
    /\ IF fol.sm = thread.idx - 1
       THEN /\ fol' = [fol EXCEPT !.sm = thread.idx]
            /\ thread' = [thread EXCEPT !.pc = "snapshot"]
       ELSE /\ thread' = [thread EXCEPT !.pc = "loop"]
            /\ UNCHANGED fol
    /\ UNCHANGED <<lead, peer, install, reqs, resps, events, crossed>>

\* snapshot_and_compact, up to on_snapshot_completed
CreateSnapshot ==
    /\ CommitStep("snapshot")
    /\ IF Due(fol.sm, fol.start, fol.snap)
       THEN /\ fol' = [fol EXCEPT !.snaps = WithSnapshot(@, fol.sm, fol.value)]
            /\ thread' = [thread EXCEPT !.pc = "completed", !.idx = fol.sm]
       ELSE /\ thread' = [thread EXCEPT !.pc = "loop"]
            /\ UNCHANGED fol
    /\ UNCHANGED <<lead, peer, install, reqs, resps, events, crossed>>

\* on_snapshot_completed, under lock_: the newest snapshot of the state
\* machine becomes last_snapshot_ and the log is cut behind it.  If one is being
\* received this need not be the thread's own.
SnapshotCompleted ==
    /\ CommitStep("completed") /\ install.pc = "none"
    /\ LET k == Max(DOMAIN fol.snaps)
           start == StartAfter(k, fol.start)
       IN  /\ fol' = [fol EXCEPT !.snap = k, !.start = start,
                                  !.last = Larger(@, start - 1)]
           /\ crossed' = IF k = thread.idx THEN crossed
                         ELSE crossed \union {"snapshot"}
    /\ thread' = [thread EXCEPT !.pc = "loop"]
    /\ UNCHANGED <<lead, peer, install, reqs, resps, events>>

CommitThread ==
    \/ Start \/ Sleep \/ Fetch \/ Read \/ Write \/ Advance
    \/ CreateSnapshot \/ SnapshotCompleted

-----------------------------------------------------------------------------
HandleRequest(q) ==
    \/ HandleAppend(q) \/ DeclineSnapshot(q) \/ FirstObject(q)
    \/ LastObject(q) \/ Finish(q)

Install == Compact \/ ApplySnapshot \/ SetIndexes \/ FinishUnheard

Next ==
    \/ Propose \/ Request \/ Reconnect \/ Expire
    \/ \E a \in resps : FreePeer(a) \/ HandleResponse(a)
    \/ \E q \in reqs : HandleRequest(q)
    \/ Install \/ CommitThread

\* Heartbeats go on, requests are answered unless a connection is cut, and
\* the commit thread runs.  Nothing is assumed of clients or of failures.
Spec ==
    /\ Init /\ [][Next]_vars
    /\ WF_vars(Request)
    /\ WF_vars(\E a \in resps : HandleResponse(a))
    /\ WF_vars((\E q \in reqs : HandleRequest(q)) \/ Install)
    /\ WF_vars(CommitThread)

-----------------------------------------------------------------------------
(* Properties.                                                             *)

Values == {Prefix(k) : k \in Index}

TypeOK ==
    /\ lead \in [start : 1..MaxIndex + 1, last : Index, snaps : SUBSET (1..MaxIndex),
                 snap : Index, exit : {"none", "out_of_log_range", "null_object"}]
    /\ peer \in [next : 0..MaxIndex + 1, matched : Index, snp : Index,
                 offset : 0..1, expired : BOOLEAN]
    /\ fol.start \in 1..MaxIndex + 1
    /\ {fol.last, fol.precommit, fol.quick, fol.sm, fol.snap} \subseteq Index
    /\ fol.value \in Seq(1..MaxIndex) /\ fol.lost \in BOOLEAN
    /\ DOMAIN fol.snaps \subseteq 1..MaxIndex
    /\ \A s \in DOMAIN fol.snaps : fol.snaps[s] \in Seq(1..MaxIndex)
    /\ thread.pc \in {"asleep", "loop", "read", "write", "advance", "snapshot",
                      "completed"}
    /\ thread.idx \in Index /\ thread.prev \in Seq(1..MaxIndex)
    /\ install \in [pc : {"none", "compact", "apply", "indexes", "finish"},
                    snp : Index]
    /\ events \in 0..MaxEvents
    /\ crossed \subseteq {"install", "snapshot"}

\* The value a follower holds is that of the entries it counts as applied,
\* however it came by it, by its log or by a snapshot.
StateIsPrefix ==
    install.pc = "none" /\ thread.pc # "advance" => fol.value = Prefix(fol.sm)

\* The same as long as handler and commit thread keep apart: no snapshot was
\* installed while the thread was at work, or taken by it for its own.
StateIsPrefixApart == crossed = {} => StateIsPrefix

\* last_snapshot_ of a follower is a snapshot of the state its index says, as
\* far as the state machine still keeps it.
SnapshotIsTrue ==
    fol.snap > 0 /\ fol.snap \in DOMAIN fol.snaps =>
        fol.snaps[fol.snap] = Prefix(fol.snap)

\* The same as long as handler and commit thread keep apart, though half
\* received snapshots lie beside the follower's own.
SnapshotIsTrueApart == crossed = {} => SnapshotIsTrue

\* The leader can always bring a follower up to date, by its log or by a
\* snapshot: it never finds that neither reaches the follower, whatever it has
\* compacted and whatever it was last told.
CanServe == lead.exit # "out_of_log_range"

\* The follower's log does not start behind what its state machine lacks.
NothingSkipped == install.pc = "none" => fol.start <= fol.sm + 1

\* The same as long as handler and commit thread keep apart.
NothingSkippedApart == crossed = {} => NothingSkipped

\* A request the follower takes does not start behind the end of its log, so
\* that store_log_entry, which takes the next slot, takes the right one.
RequestsFit ==
    install.pc = "none" =>
        \A q \in reqs : q.kind = "append" /\ LogOkay(q) => q.prev <= fol.last

\* The same as long as handler and commit thread keep apart.
RequestsFitApart == crossed = {} => RequestsFit

\* The commit thread never stops the process because the entry it is to apply
\* is not stored (N19) or is past precommit_index_ (N23).
CommitFindsEntry ==
    /\ thread.pc = "loop" /\ Work => fol.sm + 1 \in fol.start..fol.last
    /\ thread.pc = "read" => thread.idx <= fol.precommit

\* The same as long as handler and commit thread keep apart, whatever has been
\* compacted or installed since the entry was announced.
CommitFindsEntryApart == crossed = {} => CommitFindsEntry

\* The last object of a snapshot finds the one that object 0 has made: "object
\* ID 0 should always exist", and save_logical_snp_obj asserts it.
ObjectsInOrder ==
    install.pc = "none" =>
        \A q \in reqs : q.kind = "snapshot" /\ q.offset > 0 /\ q.snp > fol.sm
                        => q.snp \in DOMAIN fol.snaps

\* matched_idx_, which commits are counted from, is an index the follower's log
\* or snapshot reaches.
MatchedIsHeld == install.pc = "none" => peer.matched <= fol.last

\* Every entry the leader has applied reaches the follower's state machine,
\* unless the leader stops or the follower is lost.
CatchesUp ==
    \A k \in 1..MaxIndex :
        lead.last >= k ~> fol.sm >= k \/ ~Serving \/ fol.lost
=============================================================================
