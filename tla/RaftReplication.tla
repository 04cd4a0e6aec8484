--------------------------- MODULE RaftReplication ---------------------------
(***************************************************************************)
(* Log replication and commit of NuRaft: client requests, append_entries   *)
(* and its answers, the leader's view of its followers, the commit thread, *)
(* reconnections and restarts.                                             *)
(*                                                                         *)
(* Handlers run under raft_server::lock_ and are one step each.  Client    *)
(* requests run under cli_lock_, which update_term takes only after it has *)
(* stored the new term: requests served in between are part of the step in *)
(* which a leader learns a later term.                                     *)
(*                                                                         *)
(* An election is one step, taken when the last vote of a majority arrives *)
(* or as a campaign nobody votes for.  RaftElection has the messages, and  *)
(* shows that a term has one leader.                                       *)
(* The log store keeps the contract of LogStore; nothing is compacted.     *)
(*                                                                         *)
(* next_log_idx_ is overwritten by become_leader before it is read, so it  *)
(* is unset (0) for a server that does not lead.  The commit thread        *)
(* applies log[1..quick], so that what it applies is decided when quick    *)
(* moves and not modelled again.                                           *)
(*                                                                         *)
(* The term and the vote survive a restart, as state_mgr asks of those who *)
(* implement it.  The one of kvstore forgets them: RaftElection shows what *)
(* comes of that (raft_volatile_state).                                    *)
(***************************************************************************)
EXTENDS Integers, FiniteSets, Sequences

CONSTANTS
    Server,         \* ids of the voting members
    MaxTerm,        \* bound on terms
    MaxLog,         \* bound on the length of a log
    MaxEvents,      \* bound on failures: reconnections, restarts, overtakings
    MaxAppendSize,  \* max_append_size_
    DualMutex       \* locking_method_type_ is dual_mutex, the default, as in kvstore

ASSUME ReplicationAssumption ==
    /\ IsFiniteSet(Server) /\ Cardinality(Server) > 1
    /\ MaxTerm \in Nat /\ MaxLog \in Nat /\ MaxEvents \in Nat
    /\ MaxAppendSize \in Nat \ {0}
    /\ DualMutex \in BOOLEAN

VARIABLES
    term,       \* state_->get_term()
    voted,      \* state_->get_voted_for() # -1
    role,       \* role_; a candidate counts as a follower
    log,        \* log_store_
    precommit,  \* precommit_index_: the last index, or a later one that is gone
    quick,      \* quick_commit_index_
    next,       \* next_log_idx_ of each peer
    matched,    \* matched_idx_ of each peer
    pending,    \* the peers whose pending_commit_flag_ is set
    reqs,       \* append_entries requests on their way
    resps,      \* responses on their way, or waiting for lock_
    events,     \* how many failures there were, a bound on the model only
    late,       \* history: terms in which a server stored client requests after
                \* its term had moved on and before its role_ had
    chosen      \* history: <<index, entry>> a majority held in the entry's term

state == <<term, voted, role>>
logs == <<log, precommit>>
peers == <<next, matched, pending>>
network == <<reqs, resps>>
history == <<late, chosen>>
vars == <<state, logs, quick, peers, network, events, history>>

Term == 0..MaxTerm
Index == 0..MaxLog
\* what an entry is for the protocol, and who appended it
Entry == [term : Term, by : Server]
Request == [src : Server, dst : Server, term : Term, prev : Index,
            prevTerm : Term, entries : Seq(Entry), commit : Index,
            live : BOOLEAN]
Response == [src : Server, dst : Server, term : Term, accepted : BOOLEAN,
             next : Index \union {MaxLog + 1}, freed : BOOLEAN]

Larger(a, b) == IF a > b THEN a ELSE b
Smaller(a, b) == IF a < b THEN a ELSE b

\* term_at, 0 where there is no entry
TermAt(l, k) == IF k \in 1..Len(l) THEN l[k].term ELSE 0

Init ==
    /\ term = [i \in Server |-> 0]
    /\ voted = [i \in Server |-> FALSE]
    /\ role = [i \in Server |-> "follower"]
    /\ log = [i \in Server |-> << >>]
    /\ precommit = [i \in Server |-> 0]
    /\ quick = [i \in Server |-> 0]
    /\ next = [i \in Server |-> [j \in Server |-> 0]]
    /\ matched = [i \in Server |-> [j \in Server |-> 0]]
    /\ pending = [i \in Server |-> {}]
    /\ reqs = {} /\ resps = {} /\ events = 0 /\ late = {} /\ chosen = {}

\* next_log_idx_ of the peers of a server that does not lead
Unset == [j \in Server |-> 0]

\* A failure: an event of the bound
Event == events < MaxEvents /\ events' = events + 1

-----------------------------------------------------------------------------
\* Sending.  A live request or an unread response keeps the peer busy.

Busy(i, j, pendingReqs, answers) ==
    \/ \E q \in pendingReqs : q.src = i /\ q.dst = j /\ q.live
    \/ \E p \in answers : p.dst = i /\ p.src = j /\ ~p.freed

Others(i) == Server \ {i}

\* what create_append_entries_req reads of leader i
View(i, entries, commit) ==
    [id |-> i, term |-> term[i], log |-> entries, commit |-> commit]

\* an unset next_log_idx_ starts after the leader's last entry
NextOf(nx, l) == IF nx = 0 THEN Len(l) + 1 ELSE nx

\* create_append_entries_req.  It stops the process if the peer is ahead of
\* the leader's log; here such a request has no entries.
AppendRequest(v, j, nx) ==
    LET last == NextOf(nx, v.log) - 1
        end == Smaller(Len(v.log), last + MaxAppendSize)
    IN  [src |-> v.id, dst |-> j, term |-> v.term, prev |-> last,
         prevTerm |-> TermAt(v.log, last),
         entries |-> SubSeq(v.log, last + 1, end),
         commit |-> v.commit, live |-> TRUE]

\* request_append_entries(p) for the peers in to, given what next_log_idx_,
\* the requests and the answers are by then; busy peers are skipped
SendTo(v, to, nexts, pendingReqs, answers) ==
    LET free == {j \in to : ~Busy(v.id, j, pendingReqs, answers)}
    IN  /\ reqs' = pendingReqs \union {AppendRequest(v, j, nexts[j]) : j \in free}
        /\ next' = [next EXCEPT ![v.id] = [j \in Server |->
                       IF j \in free THEN NextOf(nexts[j], v.log)
                       ELSE nexts[j]]]

-----------------------------------------------------------------------------
\* Elections

\* what client requests that find role_ still leader, but the term already
\* updated to t, leave in i's log (never, if lock_ guards them as well)
ServedMeanwhile(i, t) ==
    IF role[i] = "leader" /\ DualMutex
    THEN {log[i] \o [k \in 1..n |-> [term |-> t, by |-> i]] : n \in 0..MaxLog - Len(log[i])}
    ELSE {log[i]}

\* l is one of them: note t if a request was served
Late(i, t, l) == late' = IF l = log[i] THEN late ELSE late \union {t}

KeepLog(i, t) ==
    \E l \in ServedMeanwhile(i, t) :
      /\ log' = [log EXCEPT ![i] = l]
      /\ precommit' = [precommit EXCEPT ![i] = Larger(@, Len(l))]
      /\ Late(i, t, l)

\* Mutant: any log will do
AnyLog(l, j) == TRUE

\* handle_vote_req: the candidate's log is at least as up to date
UpToDate(l, j) ==
    LET mine == TermAt(log[j], Len(log[j]))
        its == TermAt(l, Len(l))
    IN  \/ its > mine
        \/ its = mine /\ Len(log[j]) <= Len(l)

\* get_quorum_for_election() = get_quorum_for_commit(): the caller is left out
Quorum == Cardinality(Server) \div 2

\* become_leader appends a configuration and sends to every peer.  It sets
\* next_log_idx_ of the peers and leaves their matched_idx_ as it was.
BecomeLeader(i, voters, l) ==
    LET entries == Append(l, [term |-> term[i] + 1, by |-> i])
        end == Len(entries)
        view == [View(i, entries, quick[i]) EXCEPT !.term = @ + 1]
        free == {j \in Others(i) : ~Busy(i, j, reqs, resps)}
    IN
    /\ end <= MaxLog
    /\ log' = [log EXCEPT ![i] = entries]
    /\ precommit' = [precommit EXCEPT ![i] = end]
    /\ reqs' = reqs \union {AppendRequest(view, j, end) : j \in free}
    /\ next' = [j \in Server |-> IF j = i THEN [k \in Server |-> end]
                                 ELSE IF j \in voters THEN Unset ELSE next[j]]
    /\ UNCHANGED <<quick, matched, pending, resps>>

\* initiate_vote without success: a new term and a vote for oneself.  A late
\* pre-vote answer makes a leader do the same (handle_prevote_resp).
Campaign(i) ==
    /\ term[i] < MaxTerm
    /\ term' = [term EXCEPT ![i] = @ + 1]
    /\ voted' = [voted EXCEPT ![i] = TRUE]
    /\ role' = [role EXCEPT ![i] = "follower"]
    /\ next' = [next EXCEPT ![i] = Unset]
    /\ KeepLog(i, term[i] + 1)
    /\ UNCHANGED <<quick, matched, pending, network, events, chosen>>

\* initiate_vote, handle_vote_req at the voters and handle_vote_resp
Elect(i, voters) ==
    /\ term[i] < MaxTerm
    /\ Cardinality(voters) >= Quorum
    /\ \A j \in voters :
         \/ term[j] <= term[i]
         \/ term[j] = term[i] + 1 /\ ~voted[j]
    /\ \E l \in ServedMeanwhile(i, term[i] + 1) :
         /\ \A j \in voters : UpToDate(l, j)
         /\ BecomeLeader(i, voters, l)
         /\ Late(i, term[i] + 1, l)
    /\ term' = [j \in Server |-> IF j \in voters \union {i} THEN term[i] + 1 ELSE term[j]]
    /\ voted' = [j \in Server |-> j \in voters \union {i} \/ voted[j]]
    /\ role' = [j \in Server |-> IF j = i THEN "leader"
                                 ELSE IF j \in voters THEN "follower" ELSE role[j]]
    /\ UNCHANGED <<events, chosen>>

\* update_term(t), which ends in become_follower
UpdateTerm(i, t) ==
    /\ term' = [term EXCEPT ![i] = t]
    /\ voted' = [voted EXCEPT ![i] = FALSE]
    /\ role' = [role EXCEPT ![i] = "follower"]
    /\ next' = [next EXCEPT ![i] = Unset]
    /\ KeepLog(i, t)
    /\ UNCHANGED <<quick, matched, pending, chosen>>

\* a leader hears of a later term, in a request of a server that is in it
LearnTerm(i) ==
    /\ role[i] = "leader"
    /\ \E k \in Server : term[k] > term[i] /\ UpdateTerm(i, term[k])
    /\ UNCHANGED <<network, events>>

-----------------------------------------------------------------------------
\* The leader

\* handle_cli_req: the entry gets whatever term state_ has by now
ClientRequest(i) ==
    /\ role[i] = "leader"
    /\ Len(log[i]) < MaxLog
    /\ log' = [log EXCEPT ![i] = Append(@, [term |-> term[i], by |-> i])]
    /\ precommit' = [precommit EXCEPT ![i] = Larger(@, Len(log[i]) + 1)]
    /\ UNCHANGED <<state, quick, peers, network, events, history>>

\* request_append_entries(p) on an idle connection
RequestAppendEntries(i, j) ==
    /\ role[i] = "leader" /\ i # j
    /\ ~Busy(i, j, reqs, resps)
    /\ SendTo(View(i, log[i], quick[i]), {j}, next[i], reqs, resps)
    /\ UNCHANGED <<state, logs, quick, matched, pending, resps, history>>

\* by the append thread, which handle_cli_req wakes
AppendEntriesInBg(i, j) ==
    /\ next[i][j] <= Len(log[i])
    /\ RequestAppendEntries(i, j)
    /\ UNCHANGED events

\* by the heartbeat timer, with or without anything to send
HeartbeatTimeout(i, j) ==
    /\ Event
    /\ RequestAppendEntries(i, j)

\* messages between i and j are cut: a request may still arrive, its answer
\* will not
Cut(i, j) == {q \in reqs : q.src = i /\ q.dst = j /\ q.live}
LeftOver(i, j) ==
    {reqs \ Cut(i, j),
     (reqs \ Cut(i, j)) \union {[q EXCEPT !.live = FALSE] : q \in Cut(i, j)}}
AnswersWithout(i, j) == {p \in resps : p.dst = i /\ p.src = j => p.freed}

\* request_append_entries(p) finds the connection broken or silent: it is
\* replaced and what is known of the peer is forgotten
Reconnect(i, j) ==
    /\ Event
    /\ role[i] = "leader" /\ i # j
    /\ \E left \in LeftOver(i, j) :
         SendTo(View(i, log[i], quick[i]), {j},
                [next[i] EXCEPT ![j] = 0], left, AnswersWithout(i, j))
    /\ resps' = AnswersWithout(i, j)
    /\ matched' = [matched EXCEPT ![i][j] = IF next[i][j] = 0 THEN @ ELSE 0]
    /\ UNCHANGED <<state, logs, quick, pending, history>>

\* a pre-vote replaces the connection and leaves next_log_idx_ and matched_idx_ alone
RecreateRpc(i, j) ==
    /\ Event
    /\ role[i] = "follower" /\ i # j
    /\ Busy(i, j, reqs, resps)
    /\ reqs' \in LeftOver(i, j)
    /\ resps' = AnswersWithout(i, j)
    /\ UNCHANGED <<state, logs, quick, peers, history>>

\* handle_rpc_result frees the peer and then has to wait for lock_
FreePeer(p) ==
    /\ Event
    /\ ~p.freed
    /\ resps' = (resps \ {p}) \union {[p EXCEPT !.freed = TRUE]}
    /\ UNCHANGED <<state, logs, quick, peers, reqs, history>>

\* get_expected_committed_log_idx: the (Quorum+1)-th largest matched index
ExpectedCommit(i, matches) ==
    LET value == [matches EXCEPT ![i] = precommit[i]]
        reached(k) == Cardinality({j \in Server : value[j] >= k}) > Quorum
    IN CHOOSE k \in {value[j] : j \in Server} :
         /\ reached(k)
         /\ \A m \in {value[j] : j \in Server} : reached(m) => m <= k

\* handle_append_entries_resp of an accepted request.  Neither the term of
\* the answer nor the role is looked at; commit() sends to every free peer
\* when a leader advances.
Accepted(p, answers) ==
    LET i == p.dst
        j == p.src
        matches == [matched[i] EXCEPT ![j] = p.next - 1]
        target == ExpectedCommit(i, matches)
        advances == target > quick[i]
        catchup == j \in pending[i] \/ p.next <= Len(log[i])
        notified == IF advances THEN Others(i) ELSE IF catchup THEN {j} ELSE {}
        nexts == [next[i] EXCEPT ![j] = p.next]
        busy == {k \in Others(i) : Busy(i, k, reqs, answers)}
    IN
    /\ matched' = [matched EXCEPT ![i] = matches]
    /\ quick' = [quick EXCEPT ![i] = Larger(@, target)]
    /\ IF role[i] = "leader"
       THEN /\ SendTo(View(i, log[i], Larger(quick[i], target)),
                      notified, nexts, reqs, answers)
            /\ pending' = [pending EXCEPT ![i] =
                 (IF advances THEN @ \union busy ELSE @) \ {j}]
       ELSE /\ pending' = [pending EXCEPT ![i] = @ \ {j}]
            /\ UNCHANGED <<next, reqs>>

\* handle_append_entries_resp of a declined request: next_log_idx_ jumps to
\* the peer's next slot or goes one back
Declined(p, answers) ==
    LET i == p.dst
        j == p.src
        nexts == [next[i] EXCEPT ![j] =
                   IF p.next > 0 /\ @ > p.next THEN p.next
                   ELSE IF @ > 0 THEN @ - 1 ELSE @]
    IN
    /\ IF role[i] = "leader"
       THEN SendTo(View(i, log[i], quick[i]), {j}, nexts, reqs, answers)
       ELSE UNCHANGED <<next, reqs>>
    /\ UNCHANGED <<quick, matched, pending>>

HandleAppendEntriesResp(p) ==
    LET i == p.dst IN
    /\ resps' = resps \ {p}
    /\ IF p.term > term[i]
       THEN UpdateTerm(i, p.term) /\ UNCHANGED reqs
       ELSE /\ IF p.accepted THEN Accepted(p, resps \ {p})
               ELSE Declined(p, resps \ {p})
            /\ UNCHANGED <<state, logs, history>>
    /\ UNCHANGED events

-----------------------------------------------------------------------------
\* The follower

\* Mutant: only the length of the log is compared
PrevFits(l, q) == q.prev <= Len(l)

\* log_okay
LogOkay(l, q) == q.prev <= Len(l) /\ TermAt(l, q.prev) = q.prevTerm

\* Mutant: what the log is long enough for is there already
SkippedByLength(l, q) ==
    CHOOSE n \in 0..Len(q.entries) :
      /\ n > 0 => q.prev + n <= Len(l)
      /\ \/ n = Len(q.entries)
         \/ q.prev + n + 1 > Len(l)

\* how many of the entries are there already, with the same term
Skipped(l, q) ==
    CHOOSE n \in 0..Len(q.entries) :
      /\ \A k \in 1..n : /\ q.prev + k <= Len(l)
                         /\ l[q.prev + k].term = q.entries[k].term
      /\ \/ n = Len(q.entries)
         \/ q.prev + n + 1 > Len(l)
         \/ l[q.prev + n + 1].term # q.entries[n + 1].term

\* Mutant: one too far
AnswerPastNext(l, q) == q.prev + Len(q.entries) + 2

\* the next_idx_ of an accepting answer
AnswerNext(l, q) == q.prev + Len(q.entries) + 1

\* Mutant: the follower trusts the leader's commit index
CommitAsTold(q) == q.commit

\* what handle_append_entries commits up to
CommitTarget(q) == Smaller(q.commit, q.prev + Len(q.entries))

\* handle_append_entries once log_okay: skip, roll back, overwrite, append,
\* then commit.
AppendEntries(j, q) ==
    LET from == q.prev + Skipped(log[j], q) + 1
        changes == from <= q.prev + Len(q.entries)
        entries == IF changes
                   THEN SubSeq(log[j], 1, from - 1) \o
                        SubSeq(q.entries, from - q.prev, Len(q.entries))
                   ELSE log[j]
        rollback == changes /\ from <= Len(log[j])
        kept == IF rollback /\ quick[j] >= from THEN from - 1 ELSE quick[j]
    IN
    /\ log' = [log EXCEPT ![j] = entries]
    /\ precommit' = [precommit EXCEPT ![j] = Larger(@, q.prev + Len(q.entries))]
    /\ quick' = [quick EXCEPT ![j] = Larger(kept, CommitTarget(q))]

\* nobody waits for an answer on a dropped connection
Reply(q, t, accepted, nx) ==
    /\ reqs' = reqs \ {q}
    /\ resps' = IF q.live
                THEN resps \union
                     {[src |-> q.dst, dst |-> q.src, term |-> t,
                       accepted |-> accepted, next |-> nx, freed |-> FALSE]}
                ELSE resps

Majority(S) == 2 * Cardinality(S) > Cardinality(Server)

\* note the entries of j's log which a majority now holds in their term
Choose(j) ==
    chosen' = chosen \union
        {<<k, log'[j][k]>> : k \in {m \in 1..Len(log'[j]) :
            Majority({v \in Server : /\ term'[v] = log'[j][m].term
                                     /\ m <= Len(log'[v])
                                     /\ log'[v][m] = log'[j][m]})}}

\* handle_append_entries.  A leader hears of a later term first (LearnTerm),
\* and nobody else leads its own term (RaftElection!ElectionSafety).
HandleAppendEntries(q) ==
    LET j == q.dst
        current == q.term >= term[j]
        t == Larger(q.term, term[j])
        accept == current /\ LogOkay(log[j], q)
    IN
    /\ role[j] = "leader" => ~current
    /\ term' = [term EXCEPT ![j] = t]
    /\ voted' = [voted EXCEPT ![j] = IF q.term > term[j] THEN FALSE ELSE @]
    /\ role' = [role EXCEPT ![j] = IF current THEN "follower" ELSE @]
    /\ IF accept
       THEN /\ AppendEntries(j, q)
            /\ Reply(q, t, TRUE, AnswerNext(log[j], q))
       ELSE /\ Reply(q, t, FALSE, Len(log[j]) + 1)
            /\ UNCHANGED <<logs, quick>>
    /\ Choose(j)
    /\ next' = IF current THEN [next EXCEPT ![j] = Unset] ELSE next
    /\ UNCHANGED <<matched, pending, events, late>>

-----------------------------------------------------------------------------
\* A restart keeps state and log; the state machine starts from nothing.
Restart(i) ==
    /\ Event
    /\ role' = [role EXCEPT ![i] = "follower"]
    /\ precommit' = [precommit EXCEPT ![i] = Len(log[i])]
    /\ quick' = [quick EXCEPT ![i] = 0]
    /\ next' = [next EXCEPT ![i] = Unset]
    /\ matched' = [matched EXCEPT ![i] = [j \in Server |-> 0]]
    /\ pending' = [pending EXCEPT ![i] = {}]
    /\ reqs' = {q \in reqs : q.src # i /\ q.dst # i}
    /\ resps' = {p \in resps : p.src # i /\ p.dst # i}
    /\ UNCHANGED <<term, voted, log, history>>

Next ==
    \/ \E i \in Server :
         \/ Campaign(i) \/ LearnTerm(i) \/ ClientRequest(i) \/ Restart(i)
         \/ \E voters \in SUBSET Others(i) : Elect(i, voters)
    \/ \E i, j \in Server :
         \/ AppendEntriesInBg(i, j) \/ HeartbeatTimeout(i, j)
         \/ Reconnect(i, j) \/ RecreateRpc(i, j)
    \/ \E q \in reqs : HandleAppendEntries(q)
    \/ \E p \in resps : FreePeer(p) \/ HandleAppendEntriesResp(p)

Spec == Init /\ [][Next]_vars

-----------------------------------------------------------------------------
\* Every variable keeps its type.
TypeOK ==
    /\ term \in [Server -> Term]
    /\ voted \in [Server -> BOOLEAN]
    /\ role \in [Server -> {"follower", "leader"}]
    /\ log \in [Server -> Seq(Entry)]
    /\ precommit \in [Server -> Index]
    /\ quick \in [Server -> Index]
    /\ next \in [Server -> [Server -> Index \union {MaxLog + 1}]]
    /\ matched \in [Server -> [Server -> Index]]
    /\ pending \in [Server -> SUBSET Server]
    /\ events \in 0..MaxEvents
    /\ reqs \subseteq Request /\ resps \subseteq Response
    /\ late \subseteq Term /\ chosen \subseteq Index \X Entry

\* What the properties may rely on.  A request served in the window of
\* ServedMeanwhile leaves an entry of a term its server does not lead, next to
\* those of the leader of that term.  The terms before the first such term are
\* the settled ones.
Settled(t) == \A s \in late : t < s

\* Two logs with the same term at an index are the same up to there: it is
\* what lets a follower skip "already existing (with the same term) logs".
LogMatching ==
    \A i, j \in Server :
      \A k \in 1..Smaller(Len(log[i]), Len(log[j])) :
        log[i][k].term = log[j][k].term => SubSeq(log[i], 1, k) = SubSeq(log[j], 1, k)

\* The same of the entries of settled terms: an entry stored too late does no
\* harm to those of the terms before it, wherever it is sent to.
SettledLogsMatch ==
    \A i, j \in Server :
      \A k \in 1..Smaller(Len(log[i]), Len(log[j])) :
        Settled(log[i][k].term) /\ log[i][k].term = log[j][k].term
        => SubSeq(log[i], 1, k) = SubSeq(log[j], 1, k)

\* matched_idx_ is the last index "whose term matches up with the leader":
\* a follower in the leader's term has the leader's entries up to there,
\* and next_log_idx_ lies in the leader's log.
MatchedIsReplicated ==
    \A i, j \in Server : role[i] = "leader" /\ i # j =>
      /\ next[i][j] <= Len(log[i]) + 1
      /\ term[j] = term[i] =>
           /\ matched[i][j] <= Smaller(Len(log[i]), Len(log[j]))
           /\ \A k \in 1..matched[i][j] : log[j][k] = log[i][k]

\* What an accepting answer of a settled term says is so as long as it matters:
\* while the server it goes to leads that term, and the one it is from is in
\* that term, the follower's log is the leader's up to the next index it names,
\* whatever the follower has stored or declined since.  It is what matched_idx_
\* and the commit index are computed from.
AnswersAreTrue ==
    \A p \in resps :
        /\ p.accepted /\ Settled(p.term)
        /\ role[p.dst] = "leader" /\ term[p.dst] = p.term /\ term[p.src] = p.term
        => /\ p.next <= Smaller(Len(log[p.src]), Len(log[p.dst])) + 1
           /\ \A k \in 1..p.next - 1 : log[p.src][k] = log[p.dst][k]

\* A follower never commits ahead of its leader, or anything else than it: when
\* handle_append_entries moves quick_commit_index_ on, then only to what the
\* leader of the request's term has committed by then, and over the same
\* entries, however long the request took and whatever the follower's log holds
\* beyond what it carried.
CommitsWithLeader ==
    [][\A q \in reqs \ reqs' :
         LET i == q.src
             j == q.dst
         IN  /\ quick'[j] > quick[j]
             /\ Settled(q.term) /\ role[i] = "leader" /\ term[i] = q.term
             => /\ quick'[j] <= Smaller(quick[i], Smaller(Len(log[i]), Len(log'[j])))
                /\ \A k \in 1..quick'[j] : log'[j][k] = log[i][k]]_vars

\* An entry a majority has held in its own term is in the log of every leader of
\* a later, settled term: the up-to-date check of handle_vote_req and the
\* quorums keep it, over any number of leaders in between.
LeaderHasChosen ==
    [][\A i \in Server :
         role'[i] = "leader" /\ term'[i] # term[i] /\ Settled(term[i])' =>
           \A a \in chosen : a[2].term < term'[i] =>
             a[1] <= Len(log'[i]) /\ log'[i][a[1]] = a[2]]_vars

\* A server becomes leader only with every entry any server has committed:
\* "logs already reached consensus will remain unchanged".
LeaderHasCommitted ==
    [][\A i, j \in Server : role'[i] = "leader" /\ term'[i] # term[i] =>
         \A k \in 1..Smaller(quick[j], Len(log[j])) :
           k <= Len(log'[i]) /\ log'[i][k] = log[j][k]]_vars

\* What a server has committed stays in its log as it is, and its commit index
\* only goes back in a restart: that it is rolled back "should not happen in
\* Raft".
CommitIsFinal ==
    [][\A i \in Server :
         /\ quick'[i] < quick[i] => Restart(i)
         /\ quick[i] <= Len(log'[i])
         /\ \A k \in 1..quick[i] : log'[i][k] = log[i][k]]_vars
=============================================================================
