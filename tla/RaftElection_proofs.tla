------------------------- MODULE RaftElection_proofs -------------------------
(***************************************************************************)
(* A server casts one vote per term, for every number of servers, terms    *)
(* and failures, as long as state_mgr keeps what save_state was given.     *)
(*                                                                         *)
(* OneVotePerTerm is not inductive: nothing in it says that a vote cast    *)
(* earlier is still remembered.  VotesAreRemembered adds that: a vote of   *)
(* the current term is the one in voted_for_, and no vote is of a later    *)
(* term.  Only the four actions that write term_ or voted_for_ with a      *)
(* message in hand can disturb it; Restart can when Durable is FALSE.      *)
(***************************************************************************)
EXTENDS RaftElection, FiniteSetTheorems, TLAPS

\* the part of TypeOK the argument uses
VoteTypes ==
    /\ term \in [Server -> Nat]
    /\ votedFor \in [Server -> Server \union {None}]
    /\ reqs \subseteq [type : ReqType, src : Server, dst : Server, term : Nat,
                       live : BOOLEAN]
    /\ resps \subseteq [type : ReqType, src : Server, dst : Server, term : Nat,
                        ok : BOOLEAN, freed : BOOLEAN]
    /\ votes \subseteq Server \X Server \X Nat

VotesAreRemembered ==
    \A v \in votes : /\ v[3] <= term[v[1]]
                     /\ v[3] = term[v[1]] => votedFor[v[1]] = v[2]

VoteInv == VoteTypes /\ VotesAreRemembered /\ OneVotePerTerm

\* A server that keeps its term, or moves to a later one, keeps VoteInv
\* when its vote either stays as it was or is cast anew in the later term.
LEMMA VoteStep ==
    ASSUME VoteInv, ElectionAssumption,
           NEW i \in Server, NEW t \in Nat, NEW c \in Server \union {None},
           t >= term[i],
           t = term[i] => votedFor[i] \in {None, c},
           term' = [term EXCEPT ![i] = t],
           votedFor' = [votedFor EXCEPT ![i] = c],
           \/ votes' = votes
           \/ c # None /\ votes' = votes \union {<<i, c, t>>}
    PROVE  /\ term' \in [Server -> Nat]
           /\ votedFor' \in [Server -> Server \union {None}]
           /\ votes' \subseteq Server \X Server \X Nat
           /\ VotesAreRemembered'
           /\ OneVotePerTerm'
<1>1. term' \in [Server -> Nat] /\ votedFor' \in [Server -> Server \union {None}]
  BY DEF VoteInv, VoteTypes
<1>2. votes' \subseteq Server \X Server \X Nat
  <2>1. c # None => <<i, c, t>> \in Server \X Server \X Nat
    OBVIOUS
  <2> QED  BY <2>1 DEF VoteInv, VoteTypes
<1>3. ASSUME NEW v \in votes
      PROVE  /\ v[3] <= term'[v[1]]
             /\ v[3] = term'[v[1]] => votedFor'[v[1]] = v[2]
             /\ v[1] = i /\ v[3] = t => v[2] = c
  <2>1. /\ v[1] \in Server /\ v[2] \in Server /\ v[3] \in Nat
        /\ v[3] <= term[v[1]]
        /\ v[3] = term[v[1]] => votedFor[v[1]] = v[2]
    BY DEF VoteInv, VoteTypes, VotesAreRemembered
  <2>2. v[2] # None
    BY <2>1 DEF ElectionAssumption
  <2>3. CASE v[1] # i
    BY <2>1, <2>3 DEF VoteInv, VoteTypes
  <2>4. CASE v[1] = i /\ t = term[i]
    BY <2>1, <2>2, <2>4 DEF VoteInv, VoteTypes
  <2>5. CASE v[1] = i /\ t > term[i]
    BY <2>1, <2>5 DEF VoteInv, VoteTypes
  <2> QED  BY <2>3, <2>4, <2>5, <1>1 DEF VoteInv, VoteTypes
<1>4. VotesAreRemembered'
  <2>1. ASSUME c # None, NEW v, v = <<i, c, t>>
        PROVE  v[3] <= term'[v[1]] /\ votedFor'[v[1]] = v[2]
    BY <2>1 DEF VoteInv, VoteTypes
  <2> QED  BY <1>3, <2>1 DEF VotesAreRemembered
<1>5. OneVotePerTerm'
  <2>1. CASE votes' = votes
    BY <2>1 DEF VoteInv, OneVotePerTerm
  <2>2. CASE c # None /\ votes' = votes \union {<<i, c, t>>}
    BY <2>2, <1>3 DEF VoteInv, OneVotePerTerm
  <2> QED  BY <2>1, <2>2
<1> QED  BY <1>1, <1>2, <1>4, <1>5

\* A step that leaves terms and votes alone keeps VoteInv if it keeps the
\* types of the messages.
LEMMA VoteStutter ==
    ASSUME VoteInv, UNCHANGED <<term, votedFor, votes>>
    PROVE  /\ term' \in [Server -> Nat]
           /\ votedFor' \in [Server -> Server \union {None}]
           /\ votes' \subseteq Server \X Server \X Nat
           /\ VotesAreRemembered'
           /\ OneVotePerTerm'
BY DEF VoteInv, VoteTypes, VotesAreRemembered, OneVotePerTerm

\* Messages keep their types: what send_req and a handler put on their way.
MessageTypes(rq, rs) ==
    /\ rq \subseteq [type : ReqType, src : Server, dst : Server, term : Nat,
                     live : BOOLEAN]
    /\ rs \subseteq [type : ReqType, src : Server, dst : Server, term : Nat,
                     ok : BOOLEAN, freed : BOOLEAN]

LEMMA RequestsToTypes ==
    ASSUME NEW i \in Server, NEW peers \in SUBSET Server, NEW type \in ReqType,
           NEW t \in Nat
    PROVE  RequestsTo(i, peers, type, t) \subseteq
             [type : ReqType, src : Server, dst : Server, term : Nat, live : BOOLEAN]
<1>1. ASSUME NEW j \in peers
      PROVE  [type |-> type, src |-> i, dst |-> j, term |-> t, live |-> TRUE] \in
               [type : ReqType, src : Server, dst : Server, term : Nat,
                live : BOOLEAN]
  OBVIOUS
<1> QED  BY <1>1 DEF RequestsTo

LEMMA ReplyTypes ==
    ASSUME MessageTypes(reqs, resps), NEW q \in reqs, NEW t \in Nat,
           NEW ok \in BOOLEAN, Reply(q, t, ok)
    PROVE  MessageTypes(reqs', resps')
<1> DEFINE answer == [type |-> q.type, src |-> q.dst, dst |-> q.src,
                      term |-> t, ok |-> ok, freed |-> FALSE]
<1>1. answer \in [type : ReqType, src : Server, dst : Server, term : Nat,
                  ok : BOOLEAN, freed : BOOLEAN]
  <2>1. q.type \in ReqType /\ q.src \in Server /\ q.dst \in Server
    BY DEF MessageTypes
  <2> QED  BY <2>1
<1>2. reqs' \subseteq reqs /\ resps' \subseteq resps \union {answer}
  BY DEF Reply
<1> QED  BY <1>1, <1>2 DEF MessageTypes

LEMMA FreePeersType ==
    ASSUME NEW i, NEW rs
    PROVE  FreePeers(i, rs) \in SUBSET Server
BY DEF FreePeers

\* Starting an election is a vote for oneself in a term of one's own.
LEMMA InitiateVoteStep ==
    ASSUME VoteInv, ElectionAssumption, NEW i \in Server,
           NEW pending \in SUBSET reqs, NEW answers,
           resps' \subseteq resps, InitiateVote(i, pending, answers)
    PROVE  VoteInv'
<1>1. term[i] \in Nat /\ term[i] + 1 \in Nat
  BY DEF VoteInv, VoteTypes
<1>2. /\ term' = [term EXCEPT ![i] = term[i] + 1]
      /\ votedFor' = [votedFor EXCEPT ![i] = i]
      /\ votes' = votes \union {<<i, i, term[i] + 1>>}
  BY DEF InitiateVote
<1>3. i # None
  BY DEF ElectionAssumption
<1>4. /\ term' \in [Server -> Nat]
      /\ votedFor' \in [Server -> Server \union {None}]
      /\ votes' \subseteq Server \X Server \X Nat
      /\ VotesAreRemembered' /\ OneVotePerTerm'
  <2>1. term[i] + 1 >= term[i] /\ term[i] + 1 # term[i]
    BY <1>1
  <2> HIDE DEF VoteInv
  <2> QED  BY <1>1, <1>2, <1>3, <2>1, VoteStep
<1>5. RequestsTo(i, FreePeers(i, answers), "vote", term[i] + 1) \subseteq
        [type : ReqType, src : Server, dst : Server, term : Nat, live : BOOLEAN]
  BY <1>1, FreePeersType, RequestsToTypes DEF ReqType
<1>6. reqs' = pending \union
               RequestsTo(i, FreePeers(i, answers), "vote", term[i] + 1)
  BY DEF InitiateVote
<1> QED  BY <1>4, <1>5, <1>6 DEF VoteInv, VoteTypes

\* update_term with the term of a message, and nothing voted.
LEMMA TermUpdateStep ==
    ASSUME VoteInv, ElectionAssumption, NEW i \in Server, NEW t \in Nat,
           term' = [term EXCEPT ![i] = TermAfter(i, t)],
           votedFor' = [votedFor EXCEPT ![i] = VotedAfter(i, t)],
           votes' = votes, MessageTypes(reqs', resps')
    PROVE  VoteInv'
<1>1. /\ TermAfter(i, t) \in Nat
      /\ VotedAfter(i, t) \in Server \union {None}
      /\ TermAfter(i, t) >= term[i]
      /\ TermAfter(i, t) = term[i] => votedFor[i] = VotedAfter(i, t)
  BY DEF VoteInv, VoteTypes, TermAfter, VotedAfter
<1>2. /\ term' \in [Server -> Nat]
      /\ votedFor' \in [Server -> Server \union {None}]
      /\ votes' \subseteq Server \X Server \X Nat
      /\ VotesAreRemembered' /\ OneVotePerTerm'
  BY <1>1, VoteStep
<1> QED  BY <1>2 DEF VoteInv, VoteTypes, MessageTypes

LEMMA StepDownStep ==
    ASSUME VoteInv, ElectionAssumption, NEW i \in Server, NEW t \in Nat,
           t > term[i], StepDown(i, t), resps' \subseteq resps
    PROVE  VoteInv'
<1>1. TermAfter(i, t) = t /\ VotedAfter(i, t) = None
  BY DEF TermAfter, VotedAfter
<1>2. /\ term' = [term EXCEPT ![i] = TermAfter(i, t)]
      /\ votedFor' = [votedFor EXCEPT ![i] = VotedAfter(i, t)]
      /\ votes' = votes
      /\ MessageTypes(reqs', resps')
  BY <1>1 DEF StepDown, history, VoteInv, VoteTypes, MessageTypes
<1> QED  BY <1>2, TermUpdateStep

\* handle_vote_req casts a vote only where voted_for_ is free for it.
LEMMA HandleVoteReqStep ==
    ASSUME VoteInv, ElectionAssumption, NEW q \in reqs, HandleVoteReq(q)
    PROVE  VoteInv'
<1> DEFINE i == q.dst
           t == TermAfter(i, q.term)
<1>1. i \in Server /\ q.src \in Server /\ q.term \in Nat
  BY DEF VoteInv, VoteTypes
<1>2. MessageTypes(reqs, resps)
  BY DEF VoteInv, VoteTypes, MessageTypes
<1>3. t \in Nat /\ t >= term[i]
  BY <1>1 DEF VoteInv, VoteTypes, TermAfter
<1>4. PICK grant \in BOOLEAN :
        /\ grant => q.term = t /\ VoteIsFree(i, q)
        /\ term' = [term EXCEPT ![i] = t]
        /\ votedFor' = [votedFor EXCEPT ![i] =
                          IF grant THEN q.src ELSE VotedAfter(i, q.term)]
        /\ votes' = IF grant THEN votes \union {<<i, q.src, t>>} ELSE votes
        /\ Reply(q, t, grant)
  BY DEF HandleVoteReq
<1>5. MessageTypes(reqs', resps')
  BY <1>2, <1>3, <1>4, ReplyTypes
<1>6. CASE ~grant
  BY <1>1, <1>4, <1>5, <1>6, TermUpdateStep
<1>7. CASE grant
  <2>1. t = term[i] => votedFor[i] \in {None, q.src}
    BY <1>1, <1>4, <1>7 DEF VoteIsFree, VotedAfter, VoteInv, VoteTypes
  <2>2. q.src # None
    BY <1>1 DEF ElectionAssumption
  <2>3. /\ term' = [term EXCEPT ![i] = t]
        /\ votedFor' = [votedFor EXCEPT ![i] = q.src]
        /\ votes' = votes \union {<<i, q.src, t>>}
    BY <1>4, <1>7
  <2> HIDE DEF i, t
  <2>4. /\ term' \in [Server -> Nat]
        /\ votedFor' \in [Server -> Server \union {None}]
        /\ votes' \subseteq Server \X Server \X Nat
        /\ VotesAreRemembered' /\ OneVotePerTerm'
    BY <1>1, <1>3, <2>1, <2>2, <2>3, VoteStep
  <2> QED  BY <2>4, <1>5 DEF VoteInv, VoteTypes, MessageTypes
<1> QED  BY <1>6, <1>7

\* Steps that write neither terms nor votes.
LEMMA QuietStep ==
    ASSUME VoteInv, UNCHANGED <<term, votedFor, votes>>,
           MessageTypes(reqs', resps')
    PROVE  VoteInv'
BY VoteStutter DEF VoteInv, VoteTypes, MessageTypes

LEMMA VoteInvStep ==
    ASSUME VoteInv, ElectionAssumption, Durable, [Next]_electionVars
    PROVE  VoteInv'
<1>1. MessageTypes(reqs, resps)
  BY DEF VoteInv, VoteTypes, MessageTypes
<1>2. \A i \in Server : term[i] \in Nat
  BY DEF VoteInv, VoteTypes
<1>3. CASE UNCHANGED electionVars
  BY <1>1, <1>3, QuietStep DEF electionVars, serverVars, history
<1>4. ASSUME NEW i \in Server, ElectionTimeout(i)
      PROVE  VoteInv'
  <2>1. RequestsTo(i, FreePeers(i, resps), "prevote", term[i]) \subseteq
          [type : ReqType, src : Server, dst : Server, term : Nat, live : BOOLEAN]
    BY <1>2, FreePeersType, RequestsToTypes DEF ReqType
  <2>2. MessageTypes(reqs', resps')
    BY <1>1, <1>4, <2>1 DEF ElectionTimeout, MessageTypes
  <2> QED  BY <1>4, <2>2, QuietStep DEF ElectionTimeout
<1>5. ASSUME NEW i \in Server, YieldLeadership(i)
      PROVE  VoteInv'
  BY <1>1, <1>5, QuietStep DEF YieldLeadership, history
<1>6. ASSUME NEW i \in Server, Restart(i)
      PROVE  VoteInv'
  <2>1. UNCHANGED <<term, votedFor, votes>>
    BY <1>6 DEF Restart
  <2>2. MessageTypes(reqs', resps')
    BY <1>1, <1>6 DEF Restart, MessageTypes
  <2> QED  BY <2>1, <2>2, QuietStep
<1>7. ASSUME NEW i \in Server, NEW j \in Server, HeartbeatTimeout(i, j)
      PROVE  VoteInv'
  <2>1. RequestsTo(i, {j} \intersect FreePeers(i, resps), "append", term[i])
          \subseteq
          [type : ReqType, src : Server, dst : Server, term : Nat, live : BOOLEAN]
    BY <1>2, RequestsToTypes DEF ReqType
  <2>2. MessageTypes(reqs', resps')
    BY <1>1, <1>7, <2>1 DEF HeartbeatTimeout, MessageTypes
  <2> QED  BY <1>7, <2>2, QuietStep DEF HeartbeatTimeout
<1>8. ASSUME NEW i \in Server, NEW j \in Server, DropConnection(i, j)
      PROVE  VoteInv'
  <2>1. PICK left : /\ left \subseteq {[q EXCEPT !.live = FALSE] : q \in reqs}
                    /\ reqs' \subseteq reqs \union left
    BY <1>8 DEF DropConnection
  <2>2. \A q \in reqs : [q EXCEPT !.live = FALSE] \in
          [type : ReqType, src : Server, dst : Server, term : Nat, live : BOOLEAN]
    BY <1>1 DEF MessageTypes
  <2>3. MessageTypes(reqs', resps')
    BY <1>1, <1>8, <2>1, <2>2 DEF DropConnection, MessageTypes
  <2> QED  BY <1>8, <2>3, QuietStep DEF DropConnection, serverVars, history
<1>9. ASSUME NEW q \in reqs, HandlePrevoteReq(q)
      PROVE  VoteInv'
  <2>1. q.term \in Nat
    BY <1>1 DEF MessageTypes
  <2>2. (~hbAlive[q.dst]) \in BOOLEAN
    OBVIOUS
  <2>3. MessageTypes(reqs', resps')
    BY <1>1, <1>9, <2>1, <2>2, ReplyTypes DEF HandlePrevoteReq
  <2> QED  BY <1>9, <2>3, QuietStep DEF HandlePrevoteReq, serverVars, history
<1>10. ASSUME NEW q \in reqs, HandleVoteReq(q)
       PROVE  VoteInv'
  BY <1>10, HandleVoteReqStep
<1>11. ASSUME NEW q \in reqs, HandleAppendEntries(q)
       PROVE  VoteInv'
  <2>1. q.dst \in Server /\ q.term \in Nat
    BY <1>1 DEF MessageTypes
  <2>2. TermAfter(q.dst, q.term) \in Nat
    BY <1>2, <2>1 DEF TermAfter
  <2>3. CASE Reply(q, TermAfter(q.dst, q.term), q.term = TermAfter(q.dst, q.term))
    <3>1. (q.term = TermAfter(q.dst, q.term)) \in BOOLEAN
      OBVIOUS
    <3>2. MessageTypes(reqs', resps')
      BY <1>1, <2>2, <2>3, <3>1, ReplyTypes
    <3> QED  BY <1>11, <2>1, <3>2, TermUpdateStep DEF HandleAppendEntries
  <2>4. CASE reqs' = reqs \ {q} /\ UNCHANGED resps
    <3>1. MessageTypes(reqs', resps')
      BY <1>1, <2>4 DEF MessageTypes
    <3> QED  BY <1>11, <2>1, <3>1, TermUpdateStep DEF HandleAppendEntries
  <2> QED  BY <1>11, <2>3, <2>4 DEF HandleAppendEntries
<1>12. ASSUME NEW q \in reqs, HandleTakeover(q)
       PROVE  VoteInv'
  <2>1. q.dst \in Server
    BY <1>1 DEF MessageTypes
  <2>2. CASE role[q.dst] = "leader"
    <3>1. MessageTypes(reqs', resps')
      BY <1>1, <1>12, <2>2 DEF HandleTakeover, MessageTypes
    <3> QED  BY <1>12, <2>2, <3>1, QuietStep DEF HandleTakeover
  <2>3. CASE role[q.dst] # "leader"
    <3>1. InitiateVote(q.dst, reqs \ {q}, resps) /\ resps' \subseteq resps
      BY <1>12, <2>3 DEF HandleTakeover
    <3>2. reqs \ {q} \in SUBSET reqs
      OBVIOUS
    <3> QED  BY <2>1, <3>1, <3>2, InitiateVoteStep
  <2> QED  BY <2>2, <2>3
<1>13. ASSUME NEW p \in resps, FreePeer(p)
       PROVE  VoteInv'
  <2>1. [p EXCEPT !.freed = TRUE] \in
          [type : ReqType, src : Server, dst : Server, term : Nat,
           ok : BOOLEAN, freed : BOOLEAN]
    BY <1>1 DEF MessageTypes
  <2>2. MessageTypes(reqs', resps')
    BY <1>1, <1>13, <2>1 DEF FreePeer, MessageTypes
  <2> QED  BY <1>13, <2>2, QuietStep DEF FreePeer, serverVars, history
<1>14. ASSUME NEW p \in resps, HandlePrevoteResp(p)
       PROVE  VoteInv'
  <2>1. p.dst \in Server /\ resps' \subseteq resps
    BY <1>1, <1>14 DEF MessageTypes, HandlePrevoteResp
  <2>2. CASE InitiateVote(p.dst, reqs, resps \ {p})
    BY <2>1, <2>2, InitiateVoteStep
  <2>3. CASE UNCHANGED <<term, votedFor, reqs, votes>>
    <3>1. MessageTypes(reqs', resps')
      BY <1>1, <2>1, <2>3 DEF MessageTypes
    <3> QED  BY <2>3, <3>1, QuietStep
  <2> QED  BY <1>14, <2>2, <2>3 DEF HandlePrevoteResp
<1>15. ASSUME NEW p \in resps, HandleVoteResp(p)
       PROVE  VoteInv'
  <2>1. p.dst \in Server /\ p.term \in Nat /\ resps' \subseteq resps
    BY <1>1, <1>15 DEF MessageTypes, HandleVoteResp
  <2>2. CASE p.term > term[p.dst] /\ StepDown(p.dst, p.term)
    BY <2>1, <2>2, StepDownStep
  <2>3. CASE UNCHANGED <<serverVars, reqs, history>>
    <3>1. MessageTypes(reqs', resps')
      BY <1>1, <2>1, <2>3 DEF MessageTypes
    <3> QED  BY <2>3, <3>1, QuietStep DEF serverVars, history
  <2>4. CASE CountVote(p)
    <3>1. RequestsTo(p.dst, FreePeers(p.dst, resps \ {p}), "append", term[p.dst])
            \subseteq
            [type : ReqType, src : Server, dst : Server, term : Nat, live : BOOLEAN]
      BY <1>2, <2>1, FreePeersType, RequestsToTypes DEF ReqType
    <3>2. MessageTypes(reqs', resps')
      BY <1>1, <2>1, <2>4, <3>1 DEF CountVote, MessageTypes
    <3> QED  BY <2>4, <3>2, QuietStep DEF CountVote
  <2> QED  BY <1>15, <2>2, <2>3, <2>4 DEF HandleVoteResp
<1>16. ASSUME NEW p \in resps, HandleAppendEntriesResp(p)
       PROVE  VoteInv'
  <2>1. /\ p.dst \in Server /\ p.src \in Server /\ p.term \in Nat
        /\ resps' \subseteq resps
    BY <1>1, <1>16 DEF MessageTypes, HandleAppendEntriesResp
  <2>2. CASE p.term > term[p.dst] /\ StepDown(p.dst, p.term)
    BY <2>1, <2>2, StepDownStep
  <2>3. CASE UNCHANGED <<serverVars, reqs, history>>
    <3>1. MessageTypes(reqs', resps')
      BY <1>1, <2>1, <2>3 DEF MessageTypes
    <3> QED  BY <2>3, <3>1, QuietStep DEF serverVars, history
  <2>4. CASE Resign(p.dst, p.src, resps \ {p})
    <3>1. RequestsTo(p.dst, {p.src}, "takeover", term[p.dst]) \subseteq
            [type : ReqType, src : Server, dst : Server, term : Nat, live : BOOLEAN]
      BY <1>2, <2>1, RequestsToTypes DEF ReqType
    <3>2. MessageTypes(reqs', resps')
      BY <1>1, <2>1, <2>4, <3>1 DEF Resign, MessageTypes
    <3> QED  BY <2>4, <3>2, QuietStep DEF Resign, history
  <2> QED  BY <1>16, <2>2, <2>3, <2>4 DEF HandleAppendEntriesResp
<1> QED
  BY <1>3, <1>4, <1>5, <1>6, <1>7, <1>8, <1>9, <1>10, <1>11, <1>12, <1>13,
     <1>14, <1>15, <1>16 DEF Next

\* A server votes for one candidate in a term, across any restarts, when
\* state_mgr returns after a restart what save_state stored before it.
THEOREM DurableStateOneVotePerTerm ==
    ASSUME Durable
    PROVE  Spec => []OneVotePerTerm
<1>1. Init => VoteInv
  BY DEF Init, VoteInv, VoteTypes, VotesAreRemembered, OneVotePerTerm
<1>2. VoteInv /\ [Next]_electionVars => VoteInv'
  BY VoteInvStep, ElectionAssumption
<1>3. VoteInv => OneVotePerTerm
  BY DEF VoteInv
<1> QED  BY <1>1, <1>2, <1>3, PTL DEF Spec

-----------------------------------------------------------------------------
\* Type correctness.  The bounds on terms and events are the guards of the
\* model, so it needs nothing of state_mgr.

LEMMA AskTypes ==
    ASSUME NEW i \in Server, NEW peers \in SUBSET Server, NEW type \in ReqType,
           NEW t \in Term
    PROVE  RequestsTo(i, peers, type, t) \subseteq Request
<1>1. ASSUME NEW j \in peers
      PROVE  [type |-> type, src |-> i, dst |-> j, term |-> t, live |-> TRUE]
               \in Request
  BY DEF Request
<1> QED  BY <1>1 DEF RequestsTo

LEMMA AnswerTypes ==
    ASSUME TypeOK, NEW q \in reqs, NEW t \in Term, NEW ok \in BOOLEAN,
           Reply(q, t, ok)
    PROVE  reqs' \subseteq Request /\ resps' \subseteq Response
<1> DEFINE answer == [type |-> q.type, src |-> q.dst, dst |-> q.src,
                      term |-> t, ok |-> ok, freed |-> FALSE]
<1>1. answer \in Response
  <2>1. q.type \in ReqType /\ q.src \in Server /\ q.dst \in Server
    BY DEF TypeOK, Request
  <2> QED  BY <2>1 DEF Response
<1>2. reqs' \subseteq reqs /\ resps' \subseteq resps \union {answer}
  BY DEF Reply
<1> QED  BY <1>1, <1>2 DEF TypeOK

LEMMA StepDownTypes ==
    ASSUME TypeOK, NEW p \in resps, resps' = resps \ {p}, UNCHANGED events,
           StepDown(p.dst, p.term)
    PROVE  TypeOK'
<1>1. p.dst \in Server /\ p.term \in Term
  BY DEF TypeOK, Response
<1>2. NoVotes \in Tally
  BY DEF NoVotes, Tally
<1> QED  BY <1>1, <1>2 DEF TypeOK, StepDown, history, Role

\* what update_term leaves of terms, roles and tallies
LEMMA UpdateTermTypes ==
    ASSUME TypeOK, ElectionAssumption, NEW i \in Server, NEW t \in Term
    PROVE  /\ TermAfter(i, t) \in Term
           /\ RoleAfter(i, t) \in Role
           /\ TallyAfter(i, t) \in Tally
           /\ VotedAfter(i, t) \in Server \union {None}
           /\ RoleAfter(i, t) = "leader" => TallyAfter(i, t).completed
<1>1. NoVotes \in Tally
  BY DEF NoVotes, Tally
<1> QED  BY <1>1 DEF TypeOK, TermAfter, RoleAfter, TallyAfter, VotedAfter, Role

LEMMA InitiateVoteTypes ==
    ASSUME TypeOK, ElectionAssumption, NEW i \in Server,
           NEW pending \in SUBSET reqs, NEW answers,
           resps' \subseteq resps, preVote' \in [Server -> PreVote],
           UNCHANGED events, InitiateVote(i, pending, answers)
    PROVE  TypeOK'
<1>1. term[i] + 1 \in Term
  BY DEF TypeOK, InitiateVote, ElectionAssumption, Term
<1>2. RequestsTo(i, FreePeers(i, answers), "vote", term[i] + 1) \subseteq Request
  BY <1>1, FreePeersType, AskTypes DEF ReqType
<1>3. reqs' \subseteq Request /\ resps' \subseteq Response
  BY <1>2 DEF TypeOK, InitiateVote
<1>4. /\ term' \in [Server -> Term] /\ votedFor' \in [Server -> Server \union {None}]
      /\ role' \in [Server -> Role] /\ hbAlive' \in [Server -> BOOLEAN]
      /\ votes' \subseteq Server \X Server \X Term
      /\ elected' \subseteq Server \X Term
  BY <1>1 DEF TypeOK, InitiateVote, Role
<1>5. tally' \in [Server -> Tally]
  BY DEF TypeOK, InitiateVote, Tally
<1>6. \A k \in Server : role'[k] = "leader" => tally'[k].completed
  BY DEF TypeOK, InitiateVote
<1> QED  BY <1>3, <1>4, <1>5, <1>6 DEF TypeOK

LEMMA TypeStep ==
    ASSUME TypeOK, ElectionAssumption, [Next]_electionVars
    PROVE  TypeOK'
<1>1. /\ \A q \in reqs : /\ q.type \in ReqType /\ q.src \in Server
                         /\ q.dst \in Server /\ q.term \in Term
      /\ \A p \in resps : /\ p.src \in Server /\ p.dst \in Server
                          /\ p.term \in Term
      /\ \A i \in Server : term[i] \in Term
  BY DEF TypeOK, Request, Response
<1>2. Event => events' \in 0..MaxEvents
  BY DEF TypeOK, Event, ElectionAssumption
<1>3. /\ \A t \in Term : FreshPreVote(t) \in PreVote
      /\ \A t \in Term : [FreshPreVote(t) EXCEPT !.dead = 1] \in PreVote
      /\ 0 \in Term
  <2>1. 0 \in Term
    BY DEF Term, ElectionAssumption
  <2>2. ASSUME NEW t \in Term
        PROVE  /\ FreshPreVote(t) \in PreVote
               /\ [FreshPreVote(t) EXCEPT !.dead = 1] \in PreVote
    <3>1. FreshPreVote(t) \in PreVote
      BY DEF FreshPreVote, PreVote
    <3>2. \A f \in PreVote : [f EXCEPT !.dead = 1] \in PreVote
      BY DEF PreVote
    <3> QED  BY <3>1, <3>2
  <2> QED  BY <2>1, <2>2
<1>4. CASE UNCHANGED electionVars
  BY <1>4 DEF TypeOK, electionVars, serverVars, history
<1>5. ASSUME NEW i \in Server, ElectionTimeout(i)
      PROVE  TypeOK'
  <2>1. RequestsTo(i, FreePeers(i, resps), "prevote", term[i]) \subseteq Request
    BY <1>1, FreePeersType, AskTypes DEF ReqType
  <2>2. preVote' \in [Server -> PreVote]
    BY <1>1, <1>3, <1>5 DEF TypeOK, ElectionTimeout
  <2> QED  BY <1>2, <1>5, <2>1, <2>2 DEF TypeOK, ElectionTimeout
<1>6. ASSUME NEW i \in Server, YieldLeadership(i)
      PROVE  TypeOK'
  BY <1>2, <1>6 DEF TypeOK, YieldLeadership, history, Role
<1>7. ASSUME NEW i \in Server, Restart(i)
      PROVE  TypeOK'
  <2>1. preVote' \in [Server -> PreVote]
    BY <1>3, <1>7 DEF TypeOK, Restart
  <2>2. /\ tally' \in [Server -> Tally]
        /\ \A k \in Server : role'[k] = "leader" => tally'[k].completed
    BY <1>7 DEF TypeOK, Restart, NoVotes, Tally
  <2>3. /\ term' \in [Server -> Term]
        /\ votedFor' \in [Server -> Server \union {None}]
        /\ role' \in [Server -> Role] /\ hbAlive' \in [Server -> BOOLEAN]
    BY <1>3, <1>7 DEF TypeOK, Restart, Role
  <2> QED  BY <1>2, <1>7, <2>1, <2>2, <2>3 DEF TypeOK, Restart
<1>8. ASSUME NEW i \in Server, NEW j \in Server, HeartbeatTimeout(i, j)
      PROVE  TypeOK'
  <2>1. RequestsTo(i, {j} \intersect FreePeers(i, resps), "append", term[i])
          \subseteq Request
    BY <1>1, AskTypes DEF ReqType
  <2>2. preVote' \in [Server -> PreVote]
    BY <1>1, <1>3, <1>8 DEF TypeOK, HeartbeatTimeout
  <2> QED  BY <1>2, <1>8, <2>1, <2>2 DEF TypeOK, HeartbeatTimeout
<1>9. ASSUME NEW i \in Server, NEW j \in Server, DropConnection(i, j)
      PROVE  TypeOK'
  <2>1. \A q \in Request : [q EXCEPT !.live = FALSE] \in Request
    BY DEF Request
  <2>2. reqs' \subseteq Request /\ resps' \subseteq Response
    BY <1>9, <2>1 DEF TypeOK, DropConnection
  <2> QED  BY <1>2, <1>9, <2>2 DEF TypeOK, DropConnection, serverVars, history
<1>10. ASSUME NEW q \in reqs, HandlePrevoteReq(q)
       PROVE  TypeOK'
  <2>1. (~hbAlive[q.dst]) \in BOOLEAN
    OBVIOUS
  <2>2. reqs' \subseteq Request /\ resps' \subseteq Response
    BY <1>1, <1>10, <2>1, AnswerTypes DEF HandlePrevoteReq
  <2> QED  BY <1>10, <2>2 DEF TypeOK, HandlePrevoteReq, serverVars, history
<1>11. ASSUME NEW q \in reqs, HandleVoteReq(q)
       PROVE  TypeOK'
  <2> DEFINE i == q.dst
             t == TermAfter(i, q.term)
  <2>1. /\ i \in Server /\ q.src \in Server
        /\ t \in Term /\ RoleAfter(i, q.term) \in Role
        /\ TallyAfter(i, q.term) \in Tally
        /\ VotedAfter(i, q.term) \in Server \union {None}
        /\ RoleAfter(i, q.term) = "leader" => TallyAfter(i, q.term).completed
    BY <1>1, UpdateTermTypes
  <2>2. PICK grant \in BOOLEAN :
          /\ term' = [term EXCEPT ![i] = t]
          /\ role' = [role EXCEPT ![i] = RoleAfter(i, q.term)]
          /\ tally' = [tally EXCEPT ![i] = TallyAfter(i, q.term)]
          /\ votedFor' = [votedFor EXCEPT ![i] =
                            IF grant THEN q.src ELSE VotedAfter(i, q.term)]
          /\ votes' = IF grant THEN votes \union {<<i, q.src, t>>} ELSE votes
          /\ Reply(q, t, grant)
          /\ UNCHANGED <<hbAlive, preVote, elected, events>>
    BY <1>11 DEF HandleVoteReq
  <2>3. reqs' \subseteq Request /\ resps' \subseteq Response
    BY <2>1, <2>2, AnswerTypes
  <2> HIDE DEF i, t
  <2> QED  BY <2>1, <2>2, <2>3 DEF TypeOK
<1>12. ASSUME NEW q \in reqs, HandleAppendEntries(q)
       PROVE  TypeOK'
  <2> DEFINE i == q.dst
             t == TermAfter(i, q.term)
  <2>1. /\ i \in Server
        /\ t \in Term /\ RoleAfter(i, q.term) \in Role
        /\ TallyAfter(i, q.term) \in Tally
        /\ VotedAfter(i, q.term) \in Server \union {None}
        /\ RoleAfter(i, q.term) = "leader" => TallyAfter(i, q.term).completed
    BY <1>1, UpdateTermTypes
  <2>2. reqs' \subseteq Request /\ resps' \subseteq Response
    <3>1. (q.term = t) \in BOOLEAN
      OBVIOUS
    <3>2. CASE Reply(q, t, q.term = t)
      BY <2>1, <3>1, <3>2, AnswerTypes
    <3>3. CASE reqs' = reqs \ {q} /\ UNCHANGED resps
      BY <3>3 DEF TypeOK
    <3> QED  BY <1>12, <3>2, <3>3 DEF HandleAppendEntries
  <2>3. preVote' \in [Server -> PreVote] /\ hbAlive' \in [Server -> BOOLEAN]
    BY <1>3, <1>12, <2>1 DEF TypeOK, HandleAppendEntries
  <2>4. /\ term' \in [Server -> Term] /\ role' \in [Server -> Role]
        /\ tally' \in [Server -> Tally]
        /\ votedFor' \in [Server -> Server \union {None}]
    BY <1>12, <2>1 DEF TypeOK, HandleAppendEntries, Role
  <2>5. \A k \in Server : role'[k] = "leader" => tally'[k].completed
    BY <1>12, <2>1 DEF TypeOK, HandleAppendEntries
  <2> QED  BY <1>12, <2>2, <2>3, <2>4, <2>5 DEF TypeOK, HandleAppendEntries
<1>13. ASSUME NEW q \in reqs, HandleTakeover(q)
       PROVE  TypeOK'
  <2>1. reqs \ {q} \in SUBSET reqs /\ preVote' \in [Server -> PreVote]
    BY <1>13 DEF TypeOK, HandleTakeover
  <2>2. CASE role[q.dst] = "leader"
    BY <1>13, <2>2 DEF TypeOK, HandleTakeover
  <2>3. CASE role[q.dst] # "leader"
    BY <1>1, <1>13, <2>1, <2>3, InitiateVoteTypes DEF HandleTakeover
  <2> QED  BY <2>2, <2>3
<1>14. ASSUME NEW p \in resps, FreePeer(p)
       PROVE  TypeOK'
  <2>1. [p EXCEPT !.freed = TRUE] \in Response
    BY DEF TypeOK, Response
  <2> QED  BY <1>2, <1>14, <2>1 DEF TypeOK, FreePeer, serverVars, history
<1>15. ASSUME NEW p \in resps, HandlePrevoteResp(p)
       PROVE  TypeOK'
  <2>1. preVote' \in [Server -> PreVote]
    <3>1. preVote[p.dst] \in PreVote
      BY <1>1 DEF TypeOK
    <3>2. \A d \in Nat : \A b \in BOOLEAN :
            [preVote[p.dst] EXCEPT !.dead = d, !.done = b] \in PreVote
      BY <3>1 DEF PreVote
    <3>3. preVote[p.dst].dead + (IF p.ok THEN 1 ELSE 0) \in Nat
      BY <3>1 DEF PreVote
    <3> QED  BY <1>15, <3>2, <3>3 DEF TypeOK, HandlePrevoteResp
  <2>2. resps' = resps \ {p} /\ UNCHANGED events
    BY <1>15 DEF HandlePrevoteResp
  <2>3. CASE InitiateVote(p.dst, reqs, resps \ {p})
    BY <1>1, <2>1, <2>2, <2>3, InitiateVoteTypes
  <2>4. CASE UNCHANGED <<term, votedFor, role, hbAlive, tally, reqs, votes, elected>>
    BY <2>1, <2>2, <2>4 DEF TypeOK
  <2> QED  BY <1>15, <2>3, <2>4 DEF HandlePrevoteResp
<1>16. ASSUME NEW p \in resps, HandleVoteResp(p)
       PROVE  TypeOK'
  <2>1. resps' = resps \ {p} /\ UNCHANGED events
    BY <1>16 DEF HandleVoteResp
  <2>2. CASE StepDown(p.dst, p.term)
    BY <2>1, <2>2, StepDownTypes
  <2>3. CASE UNCHANGED <<serverVars, reqs, history>>
    BY <2>1, <2>3 DEF TypeOK, serverVars, history
  <2>4. CASE CountVote(p) /\ ~tally[p.dst].completed
    <3>1. RequestsTo(p.dst, FreePeers(p.dst, resps \ {p}), "append", term[p.dst])
            \subseteq Request
      BY <1>1, FreePeersType, AskTypes DEF ReqType
    <3>2. reqs' \subseteq Request /\ resps' \subseteq Response
      BY <2>1, <2>4, <3>1 DEF TypeOK, CountVote
    <3>3. role' \in [Server -> Role] /\ elected' \subseteq Server \X Term
      BY <1>1, <2>4 DEF TypeOK, CountVote, Role
    <3>4. /\ tally' \in [Server -> Tally]
          /\ \A k \in Server : role'[k] = "leader" => tally'[k].completed
      <4> DEFINE granted == tally[p.dst].granted + Granted(p)
                 responded == tally[p.dst].responded + 1
                 wins == granted > Quorum
                 new == [granted |-> granted, responded |-> responded,
                         completed |-> Completed(wins, responded)]
      <4>1. p.dst \in Server /\ tally[p.dst] \in Tally
        BY <1>1 DEF TypeOK
      <4>2. granted \in Nat /\ responded \in Nat
        BY <4>1 DEF Tally, Granted
      <4>3. Completed(wins, responded) \in BOOLEAN /\ (wins => Completed(wins, responded))
        BY DEF Completed
      <4>4. new \in Tally /\ (wins => new.completed)
        BY <4>2, <4>3 DEF Tally
      <4>5. /\ tally' = [tally EXCEPT ![p.dst] = new]
            /\ IF wins THEN role' = [role EXCEPT ![p.dst] = "leader"]
                       ELSE role' = role
        BY <2>4 DEF CountVote
      <4>6. role[p.dst] # "leader"
        BY <2>4, <4>1 DEF TypeOK
      <4> HIDE DEF new, wins
      <4> QED  BY <4>1, <4>4, <4>5, <4>6 DEF TypeOK, Role
    <3> QED  BY <2>1, <2>4, <3>2, <3>3, <3>4 DEF TypeOK, CountVote
  <2> QED  BY <1>16, <2>2, <2>3, <2>4 DEF HandleVoteResp
<1>17. ASSUME NEW p \in resps, HandleAppendEntriesResp(p)
       PROVE  TypeOK'
  <2>1. resps' = resps \ {p}
    BY <1>17 DEF HandleAppendEntriesResp
  <2>2. CASE StepDown(p.dst, p.term) /\ UNCHANGED events
    BY <2>1, <2>2, StepDownTypes
  <2>3. CASE UNCHANGED <<serverVars, reqs, events, history>>
    BY <2>1, <2>3 DEF TypeOK, serverVars, history
  <2>4. CASE Resign(p.dst, p.src, resps \ {p})
    <3>1. RequestsTo(p.dst, {p.src}, "takeover", term[p.dst]) \subseteq Request
      BY <1>1, AskTypes DEF ReqType
    <3> QED  BY <1>2, <2>1, <2>4, <3>1 DEF TypeOK, Resign, history, Role
  <2> QED  BY <1>17, <2>2, <2>3, <2>4 DEF HandleAppendEntriesResp
<1> QED
  BY <1>4, <1>5, <1>6, <1>7, <1>8, <1>9, <1>10, <1>11, <1>12, <1>13, <1>14,
     <1>15, <1>16, <1>17 DEF Next

\* Every variable keeps its type, and a server that leads has closed the
\* count of its votes, so a late answer cannot elect it again.
THEOREM ElectionTypes == Spec => []TypeOK
<1>1. ASSUME Init
      PROVE  TypeOK
  <2>1. 0 \in Term /\ 0 \in 0..MaxEvents
    BY ElectionAssumption DEF Term
  <2>2. FreshPreVote(0) \in PreVote
    BY <2>1 DEF FreshPreVote, PreVote
  <2>3. [NoVotes EXCEPT !.completed = TRUE] \in Tally
    BY DEF NoVotes, Tally
  <2> QED  BY <1>1, <2>1, <2>2, <2>3 DEF Init, TypeOK, Role
<1>2. TypeOK /\ [Next]_electionVars => TypeOK'
  BY TypeStep, ElectionAssumption
<1> QED  BY <1>1, <1>2, PTL DEF Spec

-----------------------------------------------------------------------------
(***************************************************************************)
(* A term has one leader and no vote is counted that was not cast, for     *)
(* every number of servers, terms and failures, if state_mgr keeps what    *)
(* save_state was given.                                                   *)
(*                                                                         *)
(* handle_vote_resp counts answers and does not look at who sent them, so  *)
(* the argument is about answers on their way.  A vote request is new: the *)
(* vote it asks for has not been cast (RequestsAreNew), because there is   *)
(* one request per voter and term (OneRequest) and handling it uses it up. *)
(* So each vote is granted by one answer (GrantsWereCast, OneGrant), and   *)
(* votes_granted_ is at most the number of votes whose answer is not on    *)
(* its way any more (TallyIsBacked).  What is elected then has a majority  *)
(* of the votes, and two majorities share a voter.                         *)
(***************************************************************************)
VoteRequests == {q \in reqs : q.type = "vote"}
Grants == {p \in resps : p.type = "vote" /\ p.ok}

\* messages about the same vote
Same(m, n) == m.src = n.src /\ m.dst = n.dst /\ m.term = n.term

\* who voted for c in term t
Voters(c, t) == {j \in Server : <<j, c, t>> \in votes}

\* the votes for i in its term whose answer is not on its way
Counted(i) ==
    {j \in Voters(i, term[i]) :
        ~ \E p \in Grants : p.src = j /\ p.dst = i /\ p.term = term[i]}

RequestsAreNew ==
    \A q \in VoteRequests : /\ q.term <= term[q.src]
                            /\ <<q.dst, q.src, q.term>> \notin votes
OneRequest == \A q, r \in VoteRequests : Same(q, r) => q = r
GrantsWereCast == \A p \in Grants : <<p.src, p.dst, p.term>> \in votes
OneGrant == \A p, r \in Grants : Same(p, r) => p = r
VotesAreDue == \A v \in votes : v[3] <= term[v[2]]
TallyIsBacked ==
    \A i \in Server : /\ tally[i].granted \in Nat
                      /\ tally[i].granted <= Cardinality(Counted(i))
ElectedByMajority ==
    \A e \in elected : /\ e \in Server \X Nat
                       /\ Cardinality(Voters(e[1], e[2])) > Quorum

RequestInv == RequestsAreNew /\ OneRequest
GrantInv == GrantsWereCast /\ OneGrant /\ VotesAreDue
CampaignInv ==
    /\ VoteInv
    /\ tally \in [Server -> Tally]
    /\ RequestInv
    /\ GrantInv
    /\ TallyIsBacked
    /\ ElectedByMajority

-----------------------------------------------------------------------------
\* Sets of servers are finite; a larger one has at least as many members.
LEMMA ServersCount ==
    ASSUME ElectionAssumption, NEW S, NEW T, S \subseteq T, T \subseteq Server
    PROVE  /\ IsFiniteSet(S) /\ IsFiniteSet(T)
           /\ Cardinality(S) \in Nat /\ Cardinality(T) \in Nat
           /\ Cardinality(S) <= Cardinality(T)
<1>1. IsFiniteSet(T)
  BY FS_Subset DEF ElectionAssumption
<1>2. IsFiniteSet(S) /\ Cardinality(S) <= Cardinality(T)
  BY <1>1, FS_Subset
<1> QED  BY <1>1, <1>2, FS_CardinalityType

\* Requests that were there before stay new while no vote is cast.
LEMMA RequestsKept ==
    ASSUME CampaignInv, votes' = votes, VoteInv',
           \A i \in Server : term[i] <= term'[i],
           VoteRequests' \subseteq VoteRequests
    PROVE  RequestInv'
<1>1. ASSUME NEW q \in VoteRequests
      PROVE  /\ q.src \in Server /\ q.term \in Nat
             /\ term[q.src] \in Nat /\ term'[q.src] \in Nat
  BY DEF CampaignInv, VoteInv, VoteTypes, VoteRequests
<1>2. RequestsAreNew'
  <2>1. ASSUME NEW q \in VoteRequests'
        PROVE  q.term <= term'[q.src] /\ <<q.dst, q.src, q.term>> \notin votes'
    <3>1. q \in VoteRequests
      OBVIOUS
    <3>2. q.term <= term[q.src] /\ <<q.dst, q.src, q.term>> \notin votes
      BY <3>1 DEF CampaignInv, RequestInv, RequestsAreNew
    <3>3. term[q.src] <= term'[q.src]
      BY <1>1, <3>1
    <3> QED  BY <1>1, <3>1, <3>2, <3>3
  <2> QED  BY <2>1 DEF RequestsAreNew
<1>3. OneRequest'
  BY DEF CampaignInv, RequestInv, OneRequest
<1> QED  BY <1>2, <1>3 DEF RequestInv

\* A server whose term stays keeps the votes counted for it when votes are
\* only added and no answer appears for a vote that had been cast before.
LEMMA CountedGrows ==
    ASSUME votes \subseteq votes',
           \A g \in Grants' : \/ \E p \in Grants : Same(g, p)
                              \/ <<g.src, g.dst, g.term>> \notin votes,
           NEW i \in Server, term'[i] = term[i]
    PROVE  Counted(i) \subseteq Counted(i)'
BY DEF Counted, Voters, Same

\* What was elected keeps its majority as votes are added.
LEMMA ElectedKept ==
    ASSUME CampaignInv, ElectionAssumption, votes \subseteq votes',
           elected' = elected
    PROVE  ElectedByMajority'
<1>1. ASSUME NEW e \in elected
      PROVE  Cardinality(Voters(e[1], e[2])') > Quorum
  <2>1. Voters(e[1], e[2]) \subseteq Voters(e[1], e[2])'
        /\ Voters(e[1], e[2])' \subseteq Server
    BY DEF Voters
  <2>2. /\ Cardinality(Voters(e[1], e[2])) \in Nat
        /\ Cardinality(Voters(e[1], e[2])') \in Nat
        /\ Cardinality(Voters(e[1], e[2])) <= Cardinality(Voters(e[1], e[2])')
    BY <2>1, ServersCount
  <2>3. Quorum \in Nat
    BY FS_CardinalityType DEF ElectionAssumption, Quorum
  <2> QED  BY <2>2, <2>3 DEF CampaignInv, ElectedByMajority
<1> QED  BY <1>1 DEF CampaignInv, ElectedByMajority

\* A tally that is reset, or kept in the same term, stays backed.
LEMMA TallyKept ==
    ASSUME CampaignInv, ElectionAssumption, NEW i \in Server,
           term'[i] = term[i] => Counted(i) \subseteq Counted(i)',
           \/ tally'[i].granted = 0
           \/ term'[i] = term[i] /\ tally'[i].granted = tally[i].granted
    PROVE  /\ tally'[i].granted \in Nat
           /\ tally'[i].granted <= Cardinality(Counted(i)')
<1>1. Counted(i)' \subseteq Server
  BY DEF Counted, Voters
<1>2. Cardinality(Counted(i)') \in Nat
  BY <1>1, ServersCount
<1>3. CASE tally'[i].granted = 0
  BY <1>2, <1>3
<1>4. CASE term'[i] = term[i] /\ tally'[i].granted = tally[i].granted
  <2>1. /\ Cardinality(Counted(i)) \in Nat
        /\ Cardinality(Counted(i)) <= Cardinality(Counted(i)')
    BY <1>1, <1>4, ServersCount
  <2> QED  BY <1>2, <1>4, <2>1 DEF CampaignInv, TallyIsBacked
<1> QED  BY <1>3, <1>4

\* A step that casts no vote and elects nobody keeps the rest of the
\* invariant if the answers and the requests that matter were there before.
LEMMA QuietCampaign ==
    ASSUME CampaignInv, ElectionAssumption, VoteInv',
           tally' \in [Server -> Tally],
           votes' = votes, elected' = elected,
           \A i \in Server : term[i] <= term'[i],
           RequestInv',
           OneGrant',
           \A g \in Grants' : \E p \in Grants : Same(g, p),
           \A i \in Server :
              \/ tally'[i].granted = 0
              \/ term'[i] = term[i] /\ tally'[i].granted = tally[i].granted
    PROVE  CampaignInv'
<1>1. GrantsWereCast'
  BY DEF CampaignInv, GrantInv, GrantsWereCast, Same
<1>2. VotesAreDue'
  <2>1. ASSUME NEW v \in votes
        PROVE  /\ v[3] \in Nat /\ v[2] \in Server
               /\ term[v[2]] \in Nat /\ term'[v[2]] \in Nat
    BY DEF CampaignInv, VoteInv, VoteTypes
  <2> QED  BY <2>1 DEF CampaignInv, GrantInv, VotesAreDue
<1>3. TallyIsBacked'
  <2>1. \A i \in Server : term'[i] = term[i] => Counted(i) \subseteq Counted(i)'
    BY CountedGrows
  <2> QED  BY <2>1, TallyKept DEF TallyIsBacked
<1>4. ElectedByMajority'
  BY ElectedKept
<1> QED  BY <1>1, <1>2, <1>3, <1>4 DEF CampaignInv, GrantInv

\* The same, when no request and no answer of a vote is new.
LEMMA NothingNew ==
    ASSUME CampaignInv, ElectionAssumption, VoteInv',
           tally' \in [Server -> Tally],
           votes' = votes, elected' = elected,
           \A i \in Server : term[i] <= term'[i],
           VoteRequests' \subseteq VoteRequests,
           Grants' \subseteq Grants,
           \A i \in Server :
              \/ tally'[i].granted = 0
              \/ term'[i] = term[i] /\ tally'[i].granted = tally[i].granted
    PROVE  CampaignInv'
<1>1. RequestInv'
  BY RequestsKept
<1>2. OneGrant'
  BY DEF CampaignInv, GrantInv, OneGrant
<1>3. \A g \in Grants' : \E p \in Grants : Same(g, p)
  BY DEF Same
<1> QED  BY <1>1, <1>2, <1>3, QuietCampaign

-----------------------------------------------------------------------------
\* What the messages of the other protocols do to those of a vote: nothing.
LEMMA OtherRequests ==
    ASSUME NEW i, NEW peers, NEW type, NEW t, type # "vote"
    PROVE  \A q \in RequestsTo(i, peers, type, t) : q.type # "vote"
BY DEF RequestsTo

LEMMA OtherReply ==
    ASSUME NEW q \in reqs, NEW t, NEW ok, Reply(q, t, ok),
           q.type # "vote" \/ ~ok
    PROVE  VoteRequests' \subseteq VoteRequests /\ Grants' \subseteq Grants
<1>1. VoteRequests' \subseteq VoteRequests
  BY DEF Reply, VoteRequests
<1>2. Grants' \subseteq Grants
  BY DEF Reply, Grants
<1> QED  BY <1>1, <1>2

\* Tallies that update_term leaves behind.
TallyReset(i) ==
    \/ tally'[i].granted = 0
    \/ term'[i] = term[i] /\ tally'[i].granted = tally[i].granted

LEMMA UpdateTermTally ==
    ASSUME CampaignInv, NEW i \in Server, NEW t \in Nat,
           term' = [term EXCEPT ![i] = TermAfter(i, t)],
           tally' = [tally EXCEPT ![i] = TallyAfter(i, t)]
    PROVE  /\ tally' \in [Server -> Tally]
           /\ \A k \in Server : term[k] <= term'[k]
           /\ \A k \in Server : TallyReset(k)
<1>1. term \in [Server -> Nat] /\ tally \in [Server -> Tally]
  BY DEF CampaignInv, VoteInv, VoteTypes
<1>2. NoVotes \in Tally
  BY DEF NoVotes, Tally
<1>3. tally' \in [Server -> Tally]
  BY <1>1, <1>2 DEF TallyAfter
<1>4. ASSUME NEW k \in Server
      PROVE  term[k] <= term'[k] /\ TallyReset(k)
  <2>1. CASE k # i
    BY <1>1, <2>1 DEF TallyReset
  <2>2. CASE k = i /\ t > term[i]
    BY <1>1, <2>2 DEF TallyReset, TermAfter, TallyAfter, NoVotes
  <2>3. CASE k = i /\ ~(t > term[i])
    BY <1>1, <2>3 DEF TallyReset, TermAfter, TallyAfter
  <2> QED  BY <2>1, <2>2, <2>3
<1> QED  BY <1>3, <1>4

\* A server that starts an election asks for votes that nobody cast, in a
\* term that nothing else is about.
LEMMA InitiateVoteCampaign ==
    ASSUME CampaignInv, ElectionAssumption, NEW i \in Server,
           NEW pending \in SUBSET reqs, NEW answers,
           resps' \subseteq resps, InitiateVote(i, pending, answers)
    PROVE  CampaignInv'
<1> DEFINE t == term[i] + 1
           asked == RequestsTo(i, FreePeers(i, answers), "vote", t)
<1>1. /\ term \in [Server -> Nat] /\ tally \in [Server -> Tally]
      /\ votes \subseteq Server \X Server \X Nat
      /\ t \in Nat /\ t > term[i]
  BY DEF CampaignInv, VoteInv, VoteTypes
<1>2. /\ term' = [term EXCEPT ![i] = t]
      /\ votes' = votes \union {<<i, i, t>>}
      /\ reqs' = pending \union asked
      /\ tally' = [tally EXCEPT ![i] =
                     [granted |-> 1, responded |-> 1, completed |-> FALSE]]
      /\ elected' = elected
  BY DEF InitiateVote
<1>3. VoteInv'
  BY InitiateVoteStep DEF CampaignInv
<1>4. tally' \in [Server -> Tally]
  BY <1>1, <1>2 DEF Tally
<1>5. \A k \in Server : term[k] <= term'[k]
  BY <1>1, <1>2
<1>6. \A v \in votes : v[2] = i => v[3] < t
  BY <1>1 DEF CampaignInv, GrantInv, VotesAreDue
<1>7. ASSUME NEW q \in asked
      PROVE  q.src = i /\ q.term = t /\ q.dst # i
             /\ \A r \in asked : q.dst = r.dst => q = r
  <2>1. ASSUME NEW r \in asked
        PROVE  /\ r = [type |-> "vote", src |-> i, dst |-> r.dst, term |-> t,
                       live |-> TRUE]
               /\ r.dst # i
    <3>1. PICK j \in FreePeers(i, answers) :
            r = [type |-> "vote", src |-> i, dst |-> j, term |-> t,
                 live |-> TRUE]
      BY <2>1 DEF RequestsTo
    <3> QED  BY <3>1 DEF FreePeers
  <2> HIDE DEF asked, t
  <2>2. q.src = i /\ q.term = t /\ q.dst # i
    <3>1. q = [type |-> "vote", src |-> i, dst |-> q.dst, term |-> t, live |-> TRUE]
      BY <2>1
    <3> QED  BY <2>1, <3>1
  <2>3. ASSUME NEW r \in asked, q.dst = r.dst
        PROVE  q = r
    <3>1. /\ q = [type |-> "vote", src |-> i, dst |-> q.dst, term |-> t, live |-> TRUE]
          /\ r = [type |-> "vote", src |-> i, dst |-> r.dst, term |-> t, live |-> TRUE]
      BY <2>1
    <3> QED  BY <2>3, <3>1, Zenon
  <2> QED  BY <2>2, <2>3
<1>8. ASSUME NEW q \in VoteRequests' \ asked
      PROVE  /\ q \in VoteRequests /\ q.src \in Server /\ q.term \in Nat
             /\ q.term <= term[q.src]
             /\ <<q.dst, q.src, q.term>> \notin votes
             /\ q.src = i => q.term # t
  <2>1. q \in VoteRequests
    BY <1>2 DEF VoteRequests
  <2>2. q.src \in Server /\ q.term \in Nat
    BY <2>1 DEF CampaignInv, VoteInv, VoteTypes, VoteRequests
  <2>3. q.term <= term[q.src] /\ <<q.dst, q.src, q.term>> \notin votes
    BY <2>1 DEF CampaignInv, RequestInv, RequestsAreNew
  <2> QED  BY <1>1, <2>1, <2>2, <2>3
<1>9. RequestsAreNew'
  <2>1. ASSUME NEW q \in VoteRequests'
        PROVE  q.term <= term'[q.src] /\ <<q.dst, q.src, q.term>> \notin votes'
    <3>1. CASE q \in asked
      <4>1. q.src = i /\ q.term = t /\ q.dst # i
        BY <1>7, <3>1
      <4>2. <<q.dst, i, t>> \notin votes
        BY <1>1, <1>6
      <4> QED  BY <1>1, <1>2, <4>1, <4>2
    <3>2. CASE q \notin asked
      <4>1. q.term <= term[q.src] /\ term[q.src] <= term'[q.src]
        BY <1>5, <1>8, <3>2
      <4>2. q.term \in Nat /\ term[q.src] \in Nat /\ term'[q.src] \in Nat
        BY <1>1, <1>2, <1>8, <3>2
      <4>3. <<q.dst, q.src, q.term>> # <<i, i, t>>
        BY <1>8, <3>2
      <4> QED  BY <1>2, <1>8, <3>2, <4>1, <4>2, <4>3
    <3> QED  BY <3>1, <3>2
  <2> QED  BY <2>1 DEF RequestsAreNew
<1>10. OneRequest'
  <2>1. ASSUME NEW q \in VoteRequests', NEW r \in VoteRequests', Same(q, r)
        PROVE  q = r
    <3>1. CASE q \in asked /\ r \in asked
      BY <1>7, <2>1, <3>1 DEF Same
    <3>2. CASE q \notin asked /\ r \notin asked
      BY <1>8, <2>1, <3>2 DEF CampaignInv, RequestInv, OneRequest
    <3>3. CASE ~(q \in asked <=> r \in asked)
      BY <1>7, <1>8, <2>1, <3>3 DEF Same
    <3> QED  BY <3>1, <3>2, <3>3
  <2> QED  BY <2>1 DEF OneRequest
<1>11. Grants' \subseteq Grants
  BY DEF Grants
<1>12. GrantInv'
  <2>1. GrantsWereCast'
    BY <1>2, <1>11 DEF CampaignInv, GrantInv, GrantsWereCast
  <2>2. OneGrant'
    BY <1>11 DEF CampaignInv, GrantInv, OneGrant
  <2>3. ASSUME NEW v \in votes'
        PROVE  v[3] <= term'[v[2]]
    <3>1. CASE v = <<i, i, t>>
      BY <1>1, <1>2, <3>1
    <3>2. CASE v \in votes
      <4>1. v[2] \in Server /\ v[3] \in Nat
        BY <1>1, <3>2
      <4>2. v[3] <= term[v[2]] /\ term[v[2]] <= term'[v[2]]
        BY <1>5, <3>2, <4>1 DEF CampaignInv, GrantInv, VotesAreDue
      <4> QED  BY <1>1, <1>2, <4>1, <4>2
    <3> QED  BY <1>2, <3>1, <3>2
  <2> QED  BY <2>1, <2>2, <2>3 DEF GrantInv, VotesAreDue
<1>13. TallyIsBacked'
  <2>1. ASSUME NEW k \in Server, k # i
        PROVE  /\ tally'[k].granted \in Nat
               /\ tally'[k].granted <= Cardinality(Counted(k)')
    <3>1. term'[k] = term[k] /\ tally'[k].granted = tally[k].granted
      BY <1>1, <1>2, <2>1
    <3>2. Counted(k) \subseteq Counted(k)'
      BY <1>2, <1>11, <3>1, CountedGrows DEF Same
    <3> QED  BY <3>1, <3>2, TallyKept
  <2>2. /\ tally'[i].granted \in Nat
        /\ tally'[i].granted <= Cardinality(Counted(i)')
    <3>1. tally'[i].granted = 1 /\ term'[i] = t
      BY <1>1, <1>2
    <3>2. i \in Counted(i)'
      <4>1. ASSUME NEW p \in Grants', p.dst = i, p.term = t
            PROVE  FALSE
        <5>1. <<p.src, i, t>> \in votes
          BY <1>11, <4>1 DEF CampaignInv, GrantInv, GrantsWereCast
        <5> QED  BY <1>1, <1>6, <5>1
      <4> QED  BY <1>2, <3>1, <4>1 DEF Counted, Voters
    <3>3. Counted(i)' \subseteq Server
      BY DEF Counted, Voters
    <3>4. {i} \subseteq Counted(i)'
      BY <3>2
    <3>5. Cardinality({i}) <= Cardinality(Counted(i)')
      BY <3>3, <3>4, ServersCount
    <3>6. Cardinality({i}) = 1
      BY FS_Singleton
    <3> QED  BY <3>1, <3>5, <3>6
  <2> QED  BY <2>1, <2>2 DEF TallyIsBacked
<1>14. ElectedByMajority'
  BY <1>2, ElectedKept
<1> QED  BY <1>3, <1>4, <1>9, <1>10, <1>12, <1>13, <1>14
         DEF CampaignInv, RequestInv

\* A granted vote is a new one, and its answer is the only one for it.
LEMMA HandleVoteReqCampaign ==
    ASSUME CampaignInv, ElectionAssumption, NEW q \in reqs, HandleVoteReq(q)
    PROVE  CampaignInv'
<1> DEFINE i == q.dst
           c == q.src
           t == TermAfter(i, q.term)
           answer(ok) == [type |-> q.type, src |-> i, dst |-> c, term |-> t,
                          ok |-> ok, freed |-> FALSE]
<1>1. /\ i \in Server /\ c \in Server /\ q.term \in Nat
      /\ term \in [Server -> Nat] /\ votes \subseteq Server \X Server \X Nat
  BY DEF CampaignInv, VoteInv, VoteTypes
<1>2. VoteInv'
  BY HandleVoteReqStep DEF CampaignInv
<1>3. PICK grant \in BOOLEAN :
        /\ grant => q.term = t
        /\ term' = [term EXCEPT ![i] = t]
        /\ tally' = [tally EXCEPT ![i] = TallyAfter(i, q.term)]
        /\ votes' = IF grant THEN votes \union {<<i, c, t>>} ELSE votes
        /\ Reply(q, t, grant)
        /\ elected' = elected
        /\ q.type = "vote"
  BY DEF HandleVoteReq
<1>4. /\ tally' \in [Server -> Tally]
      /\ \A k \in Server : term[k] <= term'[k]
      /\ \A k \in Server : TallyReset(k)
  BY <1>1, <1>3, UpdateTermTally
<1>5. CASE ~grant
  BY <1>2, <1>3, <1>4, <1>5, OtherReply, NothingNew DEF TallyReset
<1>6. CASE grant
  <2>1. /\ votes' = votes \union {<<i, c, q.term>>} /\ q.term = t
        /\ q.type = "vote" /\ q \in VoteRequests
    BY <1>3, <1>6 DEF VoteRequests
  <2>2. /\ VoteRequests' \subseteq VoteRequests \ {q}
        /\ Grants' \subseteq Grants \union {answer(TRUE)}
    BY <1>3, <1>6 DEF Reply, VoteRequests, Grants
  <2>3. <<i, c, q.term>> \notin votes /\ q.term <= term[c]
    BY <2>1 DEF CampaignInv, RequestInv, RequestsAreNew
  <2>4. /\ answer(TRUE).src = i /\ answer(TRUE).dst = c
        /\ answer(TRUE).term = q.term
    BY <2>1
  <2> HIDE DEF answer
  <2>5. \A g \in Grants' : g \in Grants \/ g = answer(TRUE)
    BY <2>2
  <2>6. RequestInv'
    <3>1. ASSUME NEW r \in VoteRequests'
          PROVE  r.term <= term'[r.src] /\ <<r.dst, r.src, r.term>> \notin votes'
      <4>1. r \in VoteRequests /\ r # q
        BY <2>2
      <4>2. /\ r.src \in Server /\ r.term \in Nat
            /\ term[r.src] \in Nat /\ term'[r.src] \in Nat
        BY <1>2, <4>1 DEF CampaignInv, VoteInv, VoteTypes, VoteRequests
      <4>3. r.term <= term[r.src] /\ <<r.dst, r.src, r.term>> \notin votes
        BY <4>1 DEF CampaignInv, RequestInv, RequestsAreNew
      <4>4. term[r.src] <= term'[r.src]
        BY <1>4, <4>2
      <4>5. ~Same(r, q)
        BY <2>1, <4>1 DEF CampaignInv, RequestInv, OneRequest
      <4> QED  BY <2>1, <4>2, <4>3, <4>4, <4>5 DEF Same
    <3>2. OneRequest'
      BY <2>2 DEF CampaignInv, RequestInv, OneRequest
    <3> QED  BY <3>1, <3>2 DEF RequestInv, RequestsAreNew
  <2>7. GrantInv'
    <3>1. GrantsWereCast'
      BY <2>1, <2>4, <2>5 DEF CampaignInv, GrantInv, GrantsWereCast
    <3>2. \A p \in Grants : ~Same(p, answer(TRUE)) /\ ~Same(answer(TRUE), p)
      BY <2>3, <2>4 DEF CampaignInv, GrantInv, GrantsWereCast, Same
    <3>3. OneGrant'
      BY <2>5, <3>2 DEF CampaignInv, GrantInv, OneGrant
    <3>4. ASSUME NEW v \in votes'
          PROVE  v[3] <= term'[v[2]]
      <4>1. term'[c] \in Nat /\ term[c] \in Nat /\ term[c] <= term'[c]
        BY <1>1, <1>2, <1>4 DEF VoteInv, VoteTypes
      <4>2. CASE v = <<i, c, q.term>>
        BY <1>1, <2>3, <4>1, <4>2
      <4>3. CASE v \in votes
        <5>1. /\ v[2] \in Server /\ v[3] \in Nat
              /\ term[v[2]] \in Nat /\ term'[v[2]] \in Nat
          BY <1>1, <1>2, <4>3 DEF VoteInv, VoteTypes
        <5>2. v[3] <= term[v[2]] /\ term[v[2]] <= term'[v[2]]
          BY <1>4, <4>3, <5>1 DEF CampaignInv, GrantInv, VotesAreDue
        <5> QED  BY <5>1, <5>2
      <4> QED  BY <2>1, <4>2, <4>3
    <3> QED  BY <3>1, <3>3, <3>4 DEF GrantInv, VotesAreDue
  <2>8. TallyIsBacked'
    <3>1. \A g \in Grants' : \/ \E p \in Grants : Same(g, p)
                             \/ <<g.src, g.dst, g.term>> \notin votes
      BY <2>3, <2>4, <2>5 DEF Same
    <3>2. ASSUME NEW k \in Server, term'[k] = term[k]
          PROVE  Counted(k) \subseteq Counted(k)'
      BY <2>1, <3>1, <3>2, CountedGrows
    <3> QED  BY <1>4, <3>2, TallyKept DEF TallyReset, TallyIsBacked
  <2>9. ElectedByMajority'
    BY <1>3, <2>1, ElectedKept
  <2> QED  BY <1>2, <1>4, <2>6, <2>7, <2>8, <2>9 DEF CampaignInv
<1> QED  BY <1>5, <1>6

\* A count that grows by an answer grows by the vote this answer is for.
LEMMA CountVoteCampaign ==
    ASSUME CampaignInv, ElectionAssumption, VoteInv', NEW p \in resps,
           p.type = "vote", p.term = term[p.dst],
           resps' = resps \ {p}, CountVote(p)
    PROVE  CampaignInv'
<1> DEFINE i == p.dst
           granted == tally[i].granted + Granted(p)
<1>1. /\ i \in Server /\ p.src \in Server
      /\ term \in [Server -> Nat] /\ tally \in [Server -> Tally]
      /\ term[i] \in Nat
  BY DEF CampaignInv, VoteInv, VoteTypes
<1>2. /\ tally[i].granted \in Nat /\ tally[i].responded \in Nat
      /\ Granted(p) \in {0, 1} /\ granted \in Nat
  BY <1>1 DEF Tally, Granted
<1>3. /\ UNCHANGED <<term, votes>>
      /\ elected' \subseteq elected \union {<<i, term[i]>>}
      /\ elected' # elected => granted > Quorum
      /\ tally'[i].granted = granted
      /\ \A k \in Server : k # i => tally'[k] = tally[k]
      /\ VoteRequests' \subseteq VoteRequests
  <2>1. \A q \in RequestsTo(i, FreePeers(i, resps \ {p}), "append", term[i]) :
          q.type # "vote"
    BY OtherRequests
  <2>2. VoteRequests' \subseteq VoteRequests
    BY <2>1 DEF CountVote, VoteRequests
  <2> QED  BY <1>1, <2>2 DEF CountVote
<1>4. tally' \in [Server -> Tally]
  <2>1. Completed(granted > Quorum, tally[i].responded + 1) \in BOOLEAN
    BY DEF Completed
  <2> QED  BY <1>1, <1>2, <2>1 DEF CountVote, Tally
<1>5. RequestInv'
  <2>1. \A k \in Server : term[k] <= term'[k]
    BY <1>1, <1>3
  <2> QED  BY <1>3, <2>1, RequestsKept
<1>6. Grants' = Grants \ {p}
  BY DEF Grants
<1>7. GrantInv'
  BY <1>3, <1>6
     DEF CampaignInv, GrantInv, GrantsWereCast, OneGrant, VotesAreDue
<1>8. \A k \in Server : Counted(k) \subseteq Counted(k)'
  BY <1>3, <1>6, CountedGrows DEF Same
<1>9. granted <= Cardinality(Counted(i)')
  <2>1. /\ Counted(i) \subseteq Counted(i)' /\ Counted(i)' \subseteq Server
    BY <1>1, <1>8 DEF Counted, Voters
  <2>2. /\ IsFiniteSet(Counted(i)) /\ Cardinality(Counted(i)) \in Nat
        /\ Cardinality(Counted(i)') \in Nat
        /\ Cardinality(Counted(i)) <= Cardinality(Counted(i)')
    BY <2>1, ServersCount
  <2>3. tally[i].granted <= Cardinality(Counted(i))
    BY <1>1 DEF CampaignInv, TallyIsBacked
  <2>4. CASE ~p.ok
    BY <1>2, <2>2, <2>3, <2>4 DEF Granted
  <2>5. CASE p.ok
    <3>1. p \in Grants
      BY <2>5 DEF Grants
    <3>2. p.src \notin Counted(i)
      BY <3>1 DEF Counted
    <3>3. p.src \in Counted(i)'
      <4>1. <<p.src, i, term[i]>> \in votes
        BY <3>1 DEF CampaignInv, GrantInv, GrantsWereCast
      <4>2. ASSUME NEW g \in Grants', g.src = p.src, g.dst = i, g.term = term[i]
            PROVE  FALSE
        BY <1>6, <3>1, <4>2 DEF CampaignInv, GrantInv, OneGrant, Same
      <4> QED  BY <1>1, <1>3, <4>1, <4>2 DEF Counted, Voters
    <3>4. Counted(i) \union {p.src} \subseteq Counted(i)'
      BY <2>1, <3>3
    <3>5. Cardinality(Counted(i) \union {p.src}) = Cardinality(Counted(i)) + 1
      BY <2>2, <3>2, FS_AddElement
    <3>6. Cardinality(Counted(i) \union {p.src}) <= Cardinality(Counted(i)')
      BY <2>1, <3>4, ServersCount
    <3>7. Granted(p) = 1
      BY <2>5 DEF Granted
    <3> HIDE DEF i
    <3> QED  BY <1>2, <2>2, <2>3, <3>5, <3>6, <3>7
  <2> QED  BY <2>4, <2>5
<1>10. TallyIsBacked'
  <2>1. ASSUME NEW k \in Server, k # i
        PROVE  /\ tally'[k].granted \in Nat
               /\ tally'[k].granted <= Cardinality(Counted(k)')
    BY <1>3, <1>8, <2>1, TallyKept
  <2> QED  BY <1>2, <1>3, <1>9, <2>1 DEF TallyIsBacked
<1>11. ElectedByMajority'
  <2>1. ASSUME NEW e \in elected
        PROVE  e \in Server \X Nat /\ Cardinality(Voters(e[1], e[2])') > Quorum
    <3>1. Voters(e[1], e[2])' = Voters(e[1], e[2])
      BY <1>3 DEF Voters
    <3> QED  BY <3>1 DEF CampaignInv, ElectedByMajority
  <2>2. ASSUME elected' # elected
        PROVE  Cardinality(Voters(i, term[i])') > Quorum
    <3>1. Counted(i)' \subseteq Voters(i, term[i])'
          /\ Voters(i, term[i])' \subseteq Server
      BY <1>3 DEF Counted, Voters
    <3>2. /\ Cardinality(Counted(i)') \in Nat
          /\ Cardinality(Voters(i, term[i])') \in Nat
          /\ Cardinality(Counted(i)') <= Cardinality(Voters(i, term[i])')
      BY <3>1, ServersCount
    <3>3. Quorum \in Nat
      BY FS_CardinalityType DEF ElectionAssumption, Quorum
    <3>4. granted > Quorum
      BY <1>3, <2>2
    <3> HIDE DEF granted, i
    <3> QED  BY <1>2, <1>9, <3>2, <3>3, <3>4
  <2>3. ASSUME NEW e \in elected'
        PROVE  e \in Server \X Nat /\ Cardinality(Voters(e[1], e[2])') > Quorum
    <3>1. CASE e \in elected
      BY <2>1, <3>1
    <3>2. CASE e \notin elected
      <4>1. e = <<i, term[i]>> /\ elected' # elected
        BY <1>3, <3>2
      <4>2. e \in Server \X Nat /\ e[1] = i /\ e[2] = term'[i]
        BY <1>1, <1>3, <4>1
      <4>3. Voters(e[1], e[2])' = Voters(i, term[i])'
        BY <4>2 DEF Voters
      <4> QED  BY <2>2, <4>1, <4>2, <4>3
    <3> QED  BY <3>1, <3>2
  <2> QED  BY <2>3 DEF ElectedByMajority, Quorum
<1> QED  BY <1>4, <1>5, <1>7, <1>10, <1>11 DEF CampaignInv

\* A dropped connection turns some requests into copies nobody waits for.
LEMMA DropConnectionCampaign ==
    ASSUME CampaignInv, ElectionAssumption, VoteInv',
           NEW i \in Server, NEW j \in Server, DropConnection(i, j)
    PROVE  CampaignInv'
<1>1. /\ UNCHANGED <<term, votes, elected, tally>>
      /\ resps' \subseteq resps
  BY DEF DropConnection, serverVars, history
<1> DEFINE Dead(q) == [q EXCEPT !.live = FALSE]
           cut == {q \in reqs : q.src = i /\ q.dst = j /\ q.live}
           dead == {Dead(q) : q \in cut}
<1>2. \A q \in reqs : Same(q, Dead(q)) /\ Dead(q).type = q.type
  BY DEF CampaignInv, VoteInv, VoteTypes, Same
<1>3. reqs' \subseteq (reqs \ cut) \union dead
  BY DEF DropConnection
<1> HIDE DEF Dead
<1>4. ASSUME NEW q \in VoteRequests'
      PROVE  \E o \in VoteRequests : /\ Same(o, q)
                                     /\ \/ o = q /\ o \notin cut
                                        \/ o \in cut /\ q = Dead(o)
  <2>1. q \in reqs' /\ q.type = "vote"
    BY DEF VoteRequests
  <2>2. CASE q \in reqs \ cut
    BY <2>1, <2>2 DEF VoteRequests, Same
  <2>3. CASE q \in dead
    <3>1. PICK o \in cut : q = Dead(o)
      BY <2>3
    <3>2. o \in reqs /\ o.type = "vote" /\ Same(o, q)
      BY <1>2, <2>1, <3>1
    <3> QED  BY <3>1, <3>2 DEF VoteRequests
  <2> QED  BY <1>3, <2>1, <2>2, <2>3
<1> HIDE DEF cut
<1>5. \A k \in Server : term[k] <= term'[k]
  BY <1>1 DEF CampaignInv, VoteInv, VoteTypes
<1>6. RequestInv'
  <2>1. ASSUME NEW q \in VoteRequests'
        PROVE  q.term <= term'[q.src] /\ <<q.dst, q.src, q.term>> \notin votes'
    <3>1. PICK o \in VoteRequests : Same(o, q)
      BY <1>4
    <3> QED  BY <1>1, <3>1 DEF Same, CampaignInv, RequestInv, RequestsAreNew
  <2>2. ASSUME NEW q \in VoteRequests', NEW r \in VoteRequests', Same(q, r)
        PROVE  q = r
    <3>1. PICK o \in VoteRequests : /\ Same(o, q)
                                    /\ \/ o = q /\ o \notin cut
                                       \/ o \in cut /\ q = Dead(o)
      BY <1>4
    <3>2. PICK u \in VoteRequests : /\ Same(u, r)
                                    /\ \/ u = r /\ u \notin cut
                                       \/ u \in cut /\ r = Dead(u)
      BY <1>4
    <3>3. o = u
      <4>1. Same(o, u)
        BY <2>2, <3>1, <3>2 DEF Same
      <4> QED  BY <4>1 DEF CampaignInv, RequestInv, OneRequest
    <3> QED  BY <3>1, <3>2, <3>3
  <2> QED  BY <2>1, <2>2 DEF RequestInv, RequestsAreNew, OneRequest
<1>7. Grants' \subseteq Grants
  BY <1>1 DEF Grants
<1>8. OneGrant' /\ \A g \in Grants' : \E p \in Grants : Same(g, p)
  BY <1>7 DEF CampaignInv, GrantInv, OneGrant, Same
<1>9. tally' \in [Server -> Tally]
  BY <1>1 DEF CampaignInv
<1> QED  BY <1>1, <1>5, <1>6, <1>8, <1>9, QuietCampaign

\* A response that waits for lock_ is the response that arrived.
LEMMA FreePeerCampaign ==
    ASSUME CampaignInv, ElectionAssumption, VoteInv',
           NEW p \in resps, FreePeer(p)
    PROVE  CampaignInv'
<1> DEFINE waiting == [p EXCEPT !.freed = TRUE]
<1>1. /\ UNCHANGED <<term, votes, elected, tally, reqs>>
      /\ resps' = (resps \ {p}) \union {waiting}
  BY DEF FreePeer, serverVars, history
<1>2. /\ Same(waiting, p) /\ Same(p, waiting)
      /\ waiting.type = p.type /\ waiting.ok = p.ok
  BY DEF CampaignInv, VoteInv, VoteTypes, Same
<1> HIDE DEF waiting
<1>3. \A g \in Grants' : \/ g \in Grants /\ g # p
                         \/ g = waiting /\ p \in Grants
  BY <1>1, <1>2 DEF Grants
<1>4. OneGrant'
  BY <1>2, <1>3 DEF CampaignInv, GrantInv, OneGrant, Same
<1>5. \A g \in Grants' : \E r \in Grants : Same(g, r)
  BY <1>2, <1>3 DEF Same
<1>6. \A k \in Server : term[k] <= term'[k]
  BY <1>1 DEF CampaignInv, VoteInv, VoteTypes
<1>7. RequestInv'
  BY <1>1, <1>6, RequestsKept DEF VoteRequests
<1>8. tally' \in [Server -> Tally]
  BY <1>1 DEF CampaignInv
<1> QED  BY <1>1, <1>4, <1>5, <1>6, <1>7, <1>8, QuietCampaign

-----------------------------------------------------------------------------
LEMMA CampaignStep ==
    ASSUME CampaignInv, ElectionAssumption, Durable, [Next]_electionVars
    PROVE  CampaignInv'
<1>1. VoteInv'
  BY VoteInvStep DEF CampaignInv
<1>2. /\ MessageTypes(reqs, resps)
      /\ term \in [Server -> Nat] /\ tally \in [Server -> Tally]
      /\ \A i \in Server : term[i] <= term[i]
  BY DEF CampaignInv, VoteInv, VoteTypes, MessageTypes
<1> DEFINE quiet == /\ UNCHANGED <<term, votes, elected>>
                    /\ VoteRequests' \subseteq VoteRequests
                    /\ Grants' \subseteq Grants
<1>3. ASSUME quiet, UNCHANGED tally
      PROVE  CampaignInv'
  BY <1>1, <1>2, <1>3, NothingNew
<1>4. ASSUME NEW i \in Server, NEW t \in Nat,
             votes' = votes, elected' = elected,
             term' = [term EXCEPT ![i] = TermAfter(i, t)],
             tally' = [tally EXCEPT ![i] = TallyAfter(i, t)],
             VoteRequests' \subseteq VoteRequests, Grants' \subseteq Grants
      PROVE  CampaignInv'
  BY <1>1, <1>4, UpdateTermTally, NothingNew DEF TallyReset
<1>5. ASSUME NEW p \in resps, resps' = resps \ {p}, p.term > term[p.dst],
             StepDown(p.dst, p.term)
      PROVE  CampaignInv'
  <2>1. p.dst \in Server /\ p.term \in Nat
    BY <1>2 DEF MessageTypes
  <2>2. /\ TermAfter(p.dst, p.term) = p.term /\ TallyAfter(p.dst, p.term) = NoVotes
        /\ VoteRequests' \subseteq VoteRequests /\ Grants' \subseteq Grants
    BY <1>5 DEF TermAfter, TallyAfter, StepDown, VoteRequests, Grants
  <2> QED  BY <1>4, <1>5, <2>1, <2>2 DEF StepDown, history
<1>6. CASE UNCHANGED electionVars
  BY <1>3, <1>6 DEF electionVars, serverVars, history, VoteRequests, Grants
<1>7. ASSUME NEW i \in Server, ElectionTimeout(i)
      PROVE  CampaignInv'
  <2>1. VoteRequests' \subseteq VoteRequests
    <3>1. \A q \in RequestsTo(i, FreePeers(i, resps), "prevote", term[i]) :
            q.type # "vote"
      BY OtherRequests
    <3> QED  BY <1>7, <3>1 DEF ElectionTimeout, VoteRequests
  <2> QED  BY <1>3, <1>7, <2>1 DEF ElectionTimeout, Grants
<1>8. ASSUME NEW i \in Server, YieldLeadership(i)
      PROVE  CampaignInv'
  BY <1>3, <1>8 DEF YieldLeadership, history, VoteRequests, Grants
<1>9. ASSUME NEW i \in Server, Restart(i)
      PROVE  CampaignInv'
  <2>1. /\ UNCHANGED <<term, votes, elected>>
        /\ VoteRequests' \subseteq VoteRequests /\ Grants' \subseteq Grants
    BY <1>9 DEF Restart, VoteRequests, Grants
  <2>2. /\ tally' \in [Server -> Tally]
        /\ tally'[i].granted = 0
        /\ \A k \in Server : k # i => tally'[k] = tally[k]
    BY <1>2, <1>9 DEF Restart, NoVotes, Tally
  <2> QED  BY <1>1, <1>2, <2>1, <2>2, NothingNew
<1>10. ASSUME NEW i \in Server, NEW j \in Server, HeartbeatTimeout(i, j)
       PROVE  CampaignInv'
  <2>1. VoteRequests' \subseteq VoteRequests
    <3>1. \A q \in RequestsTo(i, {j} \intersect FreePeers(i, resps), "append",
                              term[i]) : q.type # "vote"
      BY OtherRequests
    <3> QED  BY <1>10, <3>1 DEF HeartbeatTimeout, VoteRequests
  <2> QED  BY <1>3, <1>10, <2>1 DEF HeartbeatTimeout, Grants
<1>11. ASSUME NEW i \in Server, NEW j \in Server, DropConnection(i, j)
       PROVE  CampaignInv'
  BY <1>1, <1>11, DropConnectionCampaign
<1>12. ASSUME NEW q \in reqs, HandlePrevoteReq(q)
       PROVE  CampaignInv'
  <2>1. VoteRequests' \subseteq VoteRequests /\ Grants' \subseteq Grants
    BY <1>12, OtherReply DEF HandlePrevoteReq
  <2> QED  BY <1>3, <1>12, <2>1 DEF HandlePrevoteReq, serverVars, history
<1>13. ASSUME NEW q \in reqs, HandleVoteReq(q)
       PROVE  CampaignInv'
  BY <1>13, HandleVoteReqCampaign
<1>14. ASSUME NEW q \in reqs, HandleAppendEntries(q)
       PROVE  CampaignInv'
  <2>1. q.dst \in Server /\ q.term \in Nat
    BY <1>2 DEF MessageTypes
  <2>2. VoteRequests' \subseteq VoteRequests /\ Grants' \subseteq Grants
    <3>1. CASE reqs' = reqs \ {q} /\ UNCHANGED resps
      BY <3>1 DEF VoteRequests, Grants
    <3>2. CASE Reply(q, TermAfter(q.dst, q.term),
                     q.term = TermAfter(q.dst, q.term))
      BY <1>14, <3>2, OtherReply DEF HandleAppendEntries
    <3> QED  BY <1>14, <3>1, <3>2 DEF HandleAppendEntries
  <2> QED  BY <1>4, <1>14, <2>1, <2>2 DEF HandleAppendEntries
<1>15. ASSUME NEW q \in reqs, HandleTakeover(q)
       PROVE  CampaignInv'
  <2>1. q.dst \in Server /\ reqs \ {q} \in SUBSET reqs
    BY <1>2 DEF MessageTypes
  <2>2. CASE role[q.dst] = "leader"
    BY <1>3, <1>15, <2>2 DEF HandleTakeover, VoteRequests, Grants
  <2>3. CASE role[q.dst] # "leader"
    BY <1>15, <2>1, <2>3, InitiateVoteCampaign DEF HandleTakeover
  <2> QED  BY <2>2, <2>3
<1>16. ASSUME NEW p \in resps, FreePeer(p)
       PROVE  CampaignInv'
  BY <1>1, <1>16, FreePeerCampaign
<1>17. ASSUME NEW p \in resps, HandlePrevoteResp(p)
       PROVE  CampaignInv'
  <2>1. p.dst \in Server /\ resps' \subseteq resps
    BY <1>2, <1>17 DEF MessageTypes, HandlePrevoteResp
  <2>2. CASE InitiateVote(p.dst, reqs, resps \ {p})
    BY <2>1, <2>2, InitiateVoteCampaign
  <2>3. CASE UNCHANGED <<term, tally, reqs, votes, elected>>
    BY <1>3, <2>1, <2>3 DEF VoteRequests, Grants
  <2> QED  BY <1>17, <2>2, <2>3 DEF HandlePrevoteResp
<1>18. ASSUME NEW p \in resps, HandleVoteResp(p)
       PROVE  CampaignInv'
  <2>1. resps' = resps \ {p} /\ p.type = "vote"
    BY <1>18 DEF HandleVoteResp
  <2>2. CASE p.term > term[p.dst] /\ StepDown(p.dst, p.term)
    BY <1>5, <2>1, <2>2
  <2>3. CASE UNCHANGED <<serverVars, reqs, history>>
    BY <1>3, <2>1, <2>3 DEF serverVars, history, VoteRequests, Grants
  <2>4. CASE p.term = term[p.dst] /\ CountVote(p)
    BY <1>1, <2>1, <2>4, CountVoteCampaign
  <2> QED  BY <1>18, <2>2, <2>3, <2>4 DEF HandleVoteResp
<1>19. ASSUME NEW p \in resps, HandleAppendEntriesResp(p)
       PROVE  CampaignInv'
  <2>1. resps' = resps \ {p}
    BY <1>19 DEF HandleAppendEntriesResp
  <2>2. CASE p.term > term[p.dst] /\ StepDown(p.dst, p.term)
    BY <1>5, <2>1, <2>2
  <2>3. CASE UNCHANGED <<serverVars, reqs, events, history>>
    BY <1>3, <2>1, <2>3 DEF serverVars, history, VoteRequests, Grants
  <2>4. CASE Resign(p.dst, p.src, resps \ {p})
    <3>1. \A q \in RequestsTo(p.dst, {p.src}, "takeover", term[p.dst]) :
            q.type # "vote"
      BY OtherRequests
    <3>2. VoteRequests' \subseteq VoteRequests
      BY <2>4, <3>1 DEF Resign, VoteRequests
    <3> QED  BY <1>3, <2>1, <2>4, <3>2 DEF Resign, history, Grants
  <2> QED  BY <1>19, <2>2, <2>3, <2>4 DEF HandleAppendEntriesResp
<1> QED
  BY <1>6, <1>7, <1>8, <1>9, <1>10, <1>11, <1>12, <1>13, <1>14, <1>15, <1>16,
     <1>17, <1>18, <1>19 DEF Next

LEMMA CampaignInit ==
    ASSUME Init, ElectionAssumption
    PROVE  CampaignInv
<1>1. VoteInv
  BY DEF Init, VoteInv, VoteTypes, VotesAreRemembered, OneVotePerTerm
<1>2. tally \in [Server -> Tally]
  BY DEF Init, NoVotes, Tally
<1>3. RequestInv /\ GrantInv /\ ElectedByMajority
  BY DEF Init, RequestInv, RequestsAreNew, OneRequest, GrantInv, GrantsWereCast,
         OneGrant, VotesAreDue, ElectedByMajority, VoteRequests, Grants
<1>4. ASSUME NEW i \in Server
      PROVE  tally[i].granted \in Nat /\ tally[i].granted <= Cardinality(Counted(i))
  <2>1. tally[i].granted = 0
    BY DEF Init, NoVotes
  <2>2. Counted(i) \subseteq Server
    BY DEF Counted, Voters
  <2>3. Cardinality(Counted(i)) \in Nat
    BY <2>2, ServersCount
  <2> QED  BY <2>1, <2>3
<1> QED  BY <1>1, <1>2, <1>3, <1>4 DEF CampaignInv, TallyIsBacked

\* Two majorities of the members share a voter, who voted once.
LEMMA OneLeader ==
    ASSUME CampaignInv, ElectionAssumption
    PROVE  ElectionSafety
<1> SUFFICES ASSUME NEW e \in elected, NEW f \in elected, e[2] = f[2]
             PROVE  e[1] = f[1]
  BY DEF ElectionSafety
<1> DEFINE A == Voters(e[1], e[2])
           B == Voters(f[1], f[2])
<1>1. A \subseteq Server /\ B \subseteq Server
  BY DEF Voters
<1>2. Cardinality(A) > Quorum /\ Cardinality(B) > Quorum
  BY DEF CampaignInv, ElectedByMajority
<1>3. PICK j : j \in A /\ j \in B
  <2>1. /\ Cardinality(Server) \in Nat /\ Quorum \in Nat
        /\ 2 * Quorum + 2 > Cardinality(Server)
    BY FS_CardinalityType DEF ElectionAssumption, Quorum
  <2>2. Cardinality(A) \in Nat /\ Cardinality(B) \in Nat
    BY <1>1, ServersCount
  <2> HIDE DEF A, B
  <2>3. Cardinality(A) + Cardinality(B) > Cardinality(Server)
    BY <1>2, <2>1, <2>2
  <2>4. A \intersect B # {}
    BY <1>1, <2>3, FS_MajoritiesIntersect DEF ElectionAssumption
  <2> QED  BY <2>4
<1>4. <<j, e[1], e[2]>> \in votes /\ <<j, f[1], f[2]>> \in votes
  BY <1>3 DEF Voters
<1> QED  BY <1>4 DEF CampaignInv, VoteInv, OneVotePerTerm

\* A term has one leader, counting those that have stepped down, when
\* state_mgr returns after a restart what save_state stored before it: the
\* answers handle_vote_resp counts stand for different voters.
THEOREM OneLeaderPerTerm ==
    ASSUME Durable
    PROVE  Spec => []ElectionSafety
<1>1. Init => CampaignInv
  BY CampaignInit, ElectionAssumption
<1>2. CampaignInv /\ [Next]_electionVars => CampaignInv'
  BY CampaignStep, ElectionAssumption
<1>3. CampaignInv => ElectionSafety
  BY OneLeader, ElectionAssumption
<1> QED  BY <1>1, <1>2, <1>3, PTL DEF Spec

\* votes_granted_ is at most the number of servers that voted for this server
\* in its term, although handle_vote_resp does not look at who answers.
THEOREM NoVoteCountedTwice ==
    ASSUME Durable
    PROVE  Spec => []CountedVotesWereCast
<1>1. Init => CampaignInv
  BY CampaignInit, ElectionAssumption
<1>2. CampaignInv /\ [Next]_electionVars => CampaignInv'
  BY CampaignStep, ElectionAssumption
<1>3. CampaignInv => CountedVotesWereCast
  <2> SUFFICES ASSUME CampaignInv, NEW i \in Server
               PROVE  tally[i].granted <= Cardinality(Voters(i, term[i]))
    BY DEF CountedVotesWereCast, Voters
  <2>1. Counted(i) \subseteq Voters(i, term[i]) /\ Voters(i, term[i]) \subseteq Server
    BY DEF Counted, Voters
  <2>2. /\ Cardinality(Counted(i)) \in Nat
        /\ Cardinality(Voters(i, term[i])) \in Nat
        /\ Cardinality(Counted(i)) <= Cardinality(Voters(i, term[i]))
    BY <2>1, ServersCount, ElectionAssumption
  <2> QED  BY <2>2 DEF CampaignInv, TallyIsBacked
<1> QED  BY <1>1, <1>2, <1>3, PTL DEF Spec
=============================================================================
