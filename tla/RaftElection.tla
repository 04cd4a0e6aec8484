---------------------------- MODULE RaftElection ----------------------------
(***************************************************************************)
(* Leader election of NuRaft: pre-vote, vote, heartbeats, resignation and  *)
(* restarts of raft_server, with the peer connections they run over.       *)
(*                                                                         *)
(* Every handler runs under raft_server::lock_, so a handler is one step.  *)
(* peer::handle_rpc_result does not: it clears the busy flag of the peer   *)
(* first and only then waits for the lock, which is why the arrival of a   *)
(* response (FreePeer) and its handling are two steps.                     *)
(*                                                                         *)
(* Membership is fixed, all priorities are equal, nobody is a learner or   *)
(* catching up.  Logs belong to RaftReplication; here the comparison of    *)
(* two logs in a vote is an arbitrary Boolean.                             *)
(***************************************************************************)
EXTENDS Integers, FiniteSets

CONSTANTS
    Server,             \* ids of the voting members
    None,               \* voted_for_ = -1
    MaxTerm,            \* bound on terms
    MaxEvents,          \* bound on timeouts, resignations, failures, restarts
    Durable             \* state_mgr::read_state returns the last save_state

ASSUME ElectionAssumption ==
    /\ IsFiniteSet(Server) /\ Cardinality(Server) > 1
    /\ None \notin Server
    /\ MaxTerm \in Nat /\ MaxEvents \in Nat
    /\ Durable \in BOOLEAN

VARIABLES
    term,       \* state_->get_term()
    votedFor,   \* state_->get_voted_for()
    role,       \* role_
    hbAlive,    \* hb_alive_
    tally,      \* votes_granted_, votes_responded_, election_completed_
    preVote,    \* pre_vote_
    reqs,       \* requests on their way
    resps,      \* responses on their way, or waiting for lock_
    events,     \* how many of them happened, a bound on the model only
    votes,      \* history: every vote cast, <<voter, candidate, term>>
    elected     \* history: every leadership, <<leader, term>>

serverVars == <<term, votedFor, role, hbAlive, tally, preVote>>
history == <<votes, elected>>
electionVars == <<serverVars, reqs, resps, events, history>>

Term == 0..MaxTerm
Role == {"follower", "candidate", "leader"}
ReqType == {"prevote", "vote", "append", "takeover"}
Request == [type : ReqType, src : Server, dst : Server, term : Term,
            live : BOOLEAN]
Response == [type : ReqType, src : Server, dst : Server, term : Term,
             ok : BOOLEAN, freed : BOOLEAN]
Tally == [granted : Nat, responded : Nat, completed : BOOLEAN]
PreVote == [term : Term, dead : Nat, done : BOOLEAN]

\* Mutant: half of the members elect a leader
HalfQuorum == Cardinality(Server) \div 2 - 1

\* get_quorum_for_election(), which leaves the caller itself out
Quorum == Cardinality(Server) \div 2

NoVotes == [granted |-> 0, responded |-> 0, completed |-> FALSE]
FreshPreVote(t) == [term |-> t, dead |-> 0, done |-> FALSE]

Init ==
    /\ term = [i \in Server |-> 0]
    /\ votedFor = [i \in Server |-> None]
    /\ role = [i \in Server |-> "follower"]
    /\ hbAlive = [i \in Server |-> FALSE]
    /\ tally = [i \in Server |-> [NoVotes EXCEPT !.completed = TRUE]]
    /\ preVote = [i \in Server |-> FreshPreVote(0)]
    /\ reqs = {} /\ resps = {} /\ events = 0
    /\ votes = {} /\ elected = {}

-----------------------------------------------------------------------------
\* Connections.  A live request or an unread response keeps the peer busy.

Busy(i, j, answers) ==
    \/ \E q \in reqs : q.src = i /\ q.dst = j /\ q.live
    \/ \E p \in answers : p.dst = i /\ p.src = j /\ ~p.freed

\* A timer expiry, a failure or a user's request: an event of the bound
Event == events < MaxEvents /\ events' = events + 1

FreePeers(i, answers) == {j \in Server \ {i} : ~Busy(i, j, answers)}

\* send_req to every peer whose make_busy succeeds
RequestsTo(i, peers, type, t) ==
    {[type |-> type, src |-> i, dst |-> j, term |-> t, live |-> TRUE] :
        j \in peers}

\* the answer of a handler; nobody waits for it on a dropped connection
Reply(q, t, ok) ==
    /\ reqs' = reqs \ {q}
    /\ resps' = IF q.live
                THEN resps \union
                     {[type |-> q.type, src |-> q.dst, dst |-> q.src,
                       term |-> t, ok |-> ok, freed |-> FALSE]}
                ELSE resps

\* handle_rpc_result, first half, when the second half has to wait for lock_:
\* meanwhile the peer can be sent the next request
FreePeer(p) ==
    /\ Event
    /\ ~p.freed
    /\ resps' = (resps \ {p}) \union {[p EXCEPT !.freed = TRUE]}
    /\ UNCHANGED <<serverVars, reqs, history>>

\* The connection from i to j fails or is replaced (recreate_rpc, also at
\* the start of a pre-vote): the answer is lost, the request may still arrive.
DropConnection(i, j) ==
    /\ Event
    /\ Busy(i, j, resps)
    /\ LET cut == {q \in reqs : q.src = i /\ q.dst = j /\ q.live}
       IN \E left \in {{}, {[q EXCEPT !.live = FALSE] : q \in cut}} :
            reqs' = (reqs \ cut) \union left
    /\ resps' = {p \in resps : p.dst = i /\ p.src = j => p.freed}
    /\ UNCHANGED <<serverVars, history>>

-----------------------------------------------------------------------------
\* update_term(t), the first thing a handler does with a message of term t

TermAfter(i, t) == IF t > term[i] THEN t ELSE term[i]
RoleAfter(i, t) == IF t > term[i] THEN "follower" ELSE role[i]
TallyAfter(i, t) == IF t > term[i] THEN NoVotes ELSE tally[i]

VotedAfter(i, t) == IF t > term[i] THEN None ELSE votedFor[i]

-----------------------------------------------------------------------------
\* Starting an election

\* initiate_vote and request_vote: a new term, and a vote for oneself.
\* The caller gives the requests and responses it leaves pending.
InitiateVote(i, pending, answers) ==
    /\ term[i] < MaxTerm
    /\ term' = [term EXCEPT ![i] = @ + 1]
    /\ votedFor' = [votedFor EXCEPT ![i] = i]
    /\ role' = [role EXCEPT ![i] = "candidate"]
    /\ hbAlive' = [hbAlive EXCEPT ![i] = FALSE]
    /\ tally' = [tally EXCEPT ![i] =
                    [granted |-> 1, responded |-> 1, completed |-> FALSE]]
    /\ reqs' = pending \union
               RequestsTo(i, FreePeers(i, answers), "vote", term[i] + 1)
    /\ votes' = votes \union {<<i, i, term[i] + 1>>}
    /\ UNCHANGED elected

\* handle_election_timeout, which ends in request_prevote: pre_vote_.done_
\* is only set by a pre-vote that ended this term (see HandlePrevoteResp)
ElectionTimeout(i) ==
    /\ Event
    /\ role[i] # "leader"
    /\ hbAlive' = [hbAlive EXCEPT ![i] = FALSE]
    /\ preVote' = [preVote EXCEPT ![i] = [FreshPreVote(term[i]) EXCEPT !.dead = 1]]
    /\ reqs' = reqs \union
               RequestsTo(i, FreePeers(i, resps), "prevote", term[i])
    /\ UNCHANGED <<term, votedFor, role, tally, resps, votes, elected>>

\* accepted by a server that hears no leader, whatever the terms
HandlePrevoteReq(q) ==
    /\ q.type = "prevote" /\ UNCHANGED events
    /\ Reply(q, q.term, ~hbAlive[q.dst])
    /\ UNCHANGED <<serverVars, history>>

\* Counting an answer compares terms only: an answer asked for by an
\* earlier pre-vote of the same term counts, and so does one that arrives
\* when state_ has moved to a later term but pre_vote_ has not.
HandlePrevoteResp(p) ==
    LET i == p.dst
        mine == p.term = preVote[i].term
        dead == preVote[i].dead + (IF p.ok THEN 1 ELSE 0)
        won == mine /\ dead > Quorum /\ ~preVote[i].done
    IN
    /\ p.type = "prevote" /\ UNCHANGED events
    /\ resps' = resps \ {p}
    /\ preVote' = IF mine
                  THEN [preVote EXCEPT ![i] =
                         [@ EXCEPT !.dead = dead,
                                   !.done = preVote[i].done \/ won]]
                  ELSE preVote
    /\ IF won
       THEN InitiateVote(i, reqs, resps \ {p})
       ELSE UNCHANGED <<term, votedFor, role, hbAlive, tally, reqs, votes, elected>>

-----------------------------------------------------------------------------
\* Voting

\* Mutant: the voter does not look at the vote it has already cast
VoteIsFreeAlways(i, q) == TRUE

\* voted_for_ allows a vote for the sender
VoteIsFree(i, q) == VotedAfter(i, q.term) \in {None, q.src}

\* handle_vote_req; the comparison of the two logs is left open
HandleVoteReq(q) ==
    LET i == q.dst
        t == TermAfter(i, q.term)
    IN \E logOkay \in BOOLEAN :
        LET grant == /\ q.term = t
                     /\ logOkay
                     /\ VoteIsFree(i, q)
        IN
        /\ q.type = "vote" /\ UNCHANGED events
        /\ term' = [term EXCEPT ![i] = t]
        /\ role' = [role EXCEPT ![i] = RoleAfter(i, q.term)]
        /\ tally' = [tally EXCEPT ![i] = TallyAfter(i, q.term)]
        /\ votedFor' = [votedFor EXCEPT ![i] =
                          IF grant THEN q.src ELSE VotedAfter(i, q.term)]
        /\ votes' = IF grant THEN votes \union {<<i, q.src, t>>} ELSE votes
        /\ Reply(q, t, grant)
        /\ UNCHANGED <<hbAlive, preVote, elected>>

\* A response of a later term only updates the term.
StepDown(i, t) ==
    /\ term' = [term EXCEPT ![i] = t]
    /\ votedFor' = [votedFor EXCEPT ![i] = None]
    /\ role' = [role EXCEPT ![i] = "follower"]
    /\ tally' = [tally EXCEPT ![i] = NoVotes]
    /\ UNCHANGED <<hbAlive, preVote, reqs, history>>

\* Mutant: a refusal counts like a vote
AnyAnswer(p) == 1

\* what an answer adds to votes_granted_
Granted(p) == IF p.ok THEN 1 ELSE 0

\* Mutant: winning does not complete the election
CompletedByAll(wins, responded) == responded >= Cardinality(Server)

\* election_completed_
Completed(wins, responded) == wins \/ responded >= Cardinality(Server)

\* handle_vote_resp counts answers, not servers, and looks at no role;
\* become_leader at once sends append_entries to every free peer
CountVote(p) ==
    LET i == p.dst
        granted == tally[i].granted + Granted(p)
        responded == tally[i].responded + 1
        wins == granted > Quorum
    IN
    /\ tally' = [tally EXCEPT ![i] =
                  [granted |-> granted, responded |-> responded,
                   completed |-> Completed(wins, responded)]]
    /\ IF wins
       THEN /\ role' = [role EXCEPT ![i] = "leader"]
            /\ elected' = elected \union {<<i, term[i]>>}
            /\ reqs' = reqs \union
                   RequestsTo(i, FreePeers(i, resps \ {p}), "append", term[i])
       ELSE UNCHANGED <<role, elected, reqs>>
    /\ UNCHANGED <<term, votedFor, hbAlive, preVote, votes>>

HandleVoteResp(p) ==
    /\ p.type = "vote" /\ UNCHANGED events
    /\ resps' = resps \ {p}
    /\ IF p.term > term[p.dst] THEN StepDown(p.dst, p.term)
       ELSE IF tally[p.dst].completed \/ p.term # term[p.dst]
       THEN UNCHANGED <<serverVars, reqs, history>>
       ELSE CountVote(p)

-----------------------------------------------------------------------------
\* Heartbeats and the end of a leadership

\* handle_hb_timeout: update_target_priority marks the leader itself alive
\* and forgets its pre-vote, then request_append_entries(p)
HeartbeatTimeout(i, j) ==
    /\ Event
    /\ role[i] = "leader" /\ i # j
    /\ hbAlive' = [hbAlive EXCEPT ![i] = TRUE]
    /\ preVote' = [preVote EXCEPT ![i] = FreshPreVote(term[i])]
    /\ reqs' = reqs \union
               RequestsTo(i, {j} \intersect FreePeers(i, resps), "append", term[i])
    /\ UNCHANGED <<term, votedFor, role, tally, resps, votes, elected>>

\* Only a follower of the request's term notes that it hears a leader: a
\* candidate becomes follower first, a leader of that term drops the request.
HandleAppendEntries(q) ==
    LET i == q.dst
        t == TermAfter(i, q.term)
        was == RoleAfter(i, q.term)
        hears == q.term = t /\ was = "follower"
    IN
    /\ q.type = "append" /\ UNCHANGED events
    /\ term' = [term EXCEPT ![i] = t]
    /\ votedFor' = [votedFor EXCEPT ![i] = VotedAfter(i, q.term)]
    /\ tally' = [tally EXCEPT ![i] = TallyAfter(i, q.term)]
    /\ role' = [role EXCEPT ![i] =
                 IF q.term = t /\ was = "candidate" THEN "follower" ELSE was]
    /\ hbAlive' = [hbAlive EXCEPT ![i] = @ \/ hears]
    /\ preVote' = [preVote EXCEPT ![i] = IF hears THEN FreshPreVote(t) ELSE @]
    /\ IF q.term = t /\ was = "leader"
       THEN reqs' = reqs \ {q} /\ UNCHANGED resps
       ELSE Reply(q, t, q.term = t)
    /\ UNCHANGED <<votes, elected>>

\* A leader that was asked to yield and has brought j up to date resigns
\* in favour of j.  The code looks at write_paused_, not at the role.
Resign(i, j, answers) ==
    /\ Event
    /\ role[i] = "leader"
    /\ j \in FreePeers(i, answers)
    /\ role' = [role EXCEPT ![i] = "follower"]
    /\ hbAlive' = [hbAlive EXCEPT ![i] = FALSE]
    /\ reqs' = reqs \union RequestsTo(i, {j}, "takeover", term[i])
    /\ UNCHANGED <<term, votedFor, tally, preVote, history>>

\* the part of handle_append_entries_resp that concerns terms and roles
HandleAppendEntriesResp(p) ==
    /\ p.type = "append"
    /\ resps' = resps \ {p}
    /\ IF p.term > term[p.dst] THEN StepDown(p.dst, p.term) /\ UNCHANGED events
       ELSE \/ Resign(p.dst, p.src, resps \ {p})
            \/ UNCHANGED <<serverVars, reqs, events, history>>

\* handle_leadership_takeover: initiate_vote(true), no pre-vote
HandleTakeover(q) ==
    /\ q.type = "takeover"
    /\ UNCHANGED <<resps, events, preVote>>
    /\ IF role[q.dst] = "leader"
       THEN /\ reqs' = reqs \ {q}
            /\ UNCHANGED <<term, votedFor, role, hbAlive, tally, votes, elected>>
       ELSE InitiateVote(q.dst, reqs \ {q}, resps)

\* yield_leadership(true), or a resignation that timed out
YieldLeadership(i) ==
    /\ Event
    /\ role[i] = "leader"
    /\ role' = [role EXCEPT ![i] = "follower"]
    /\ hbAlive' = [hbAlive EXCEPT ![i] = FALSE]
    /\ UNCHANGED <<term, votedFor, tally, preVote, reqs, resps, history>>

\* A process restart keeps what read_state returns and nothing else.
Restart(i) ==
    /\ Event
    /\ term' = IF Durable THEN term ELSE [term EXCEPT ![i] = 0]
    /\ votedFor' = IF Durable THEN votedFor ELSE [votedFor EXCEPT ![i] = None]
    /\ role' = [role EXCEPT ![i] = "follower"]
    /\ hbAlive' = [hbAlive EXCEPT ![i] = FALSE]
    /\ tally' = [tally EXCEPT ![i] = [NoVotes EXCEPT !.completed = TRUE]]
    /\ preVote' = [preVote EXCEPT ![i] = FreshPreVote(0)]
    /\ reqs' = {q \in reqs : q.src # i /\ q.dst # i}
    /\ resps' = {p \in resps : p.src # i /\ p.dst # i}
    /\ UNCHANGED <<votes, elected>>

Next ==
    \/ \E i \in Server : ElectionTimeout(i) \/ YieldLeadership(i) \/ Restart(i)
    \/ \E i, j \in Server : HeartbeatTimeout(i, j) \/ DropConnection(i, j)
    \/ \E q \in reqs : \/ HandlePrevoteReq(q) \/ HandleVoteReq(q)
                       \/ HandleAppendEntries(q) \/ HandleTakeover(q)
    \/ \E p \in resps : \/ FreePeer(p)
                        \/ HandlePrevoteResp(p) \/ HandleVoteResp(p)
                        \/ HandleAppendEntriesResp(p)

Spec == Init /\ [][Next]_electionVars

-----------------------------------------------------------------------------
\* Every variable keeps its type, and a leader's tally is closed.
TypeOK ==
    /\ term \in [Server -> Term]
    /\ votedFor \in [Server -> Server \union {None}]
    /\ role \in [Server -> Role]
    /\ hbAlive \in [Server -> BOOLEAN]
    /\ tally \in [Server -> Tally]
    /\ preVote \in [Server -> PreVote]
    /\ events \in 0..MaxEvents
    /\ reqs \subseteq Request /\ resps \subseteq Response
    /\ votes \subseteq Server \X Server \X Term
    /\ elected \subseteq Server \X Term
    /\ \A i \in Server : role[i] = "leader" => tally[i].completed

\* A server votes for one candidate in a term, also across restarts
\* (handle_vote_req, initiate_vote and what save_state must keep for them).
OneVotePerTerm ==
    \A v, w \in votes : v[1] = w[1] /\ v[3] = w[3] => v[2] = w[2]

\* A term has one leader, counting those that have stepped down since.
ElectionSafety == \A e, f \in elected : e[2] = f[2] => e[1] = f[1]

\* votes_granted_ is a count of answers; for a candidate, and for the leader
\* it made, it never exceeds the number of servers that voted for it in
\* this term.
CountedVotesWereCast ==
    \A i \in Server : role[i] # "follower" =>
        tally[i].granted <=
            Cardinality({j \in Server : <<j, i, term[i]>> \in votes})
=============================================================================
