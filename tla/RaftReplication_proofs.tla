------------------------ MODULE RaftReplication_proofs ------------------------
(***************************************************************************)
(* What is proved of RaftReplication, for every number of servers, terms,  *)
(* entries and failures and with either lock.                              *)
(*                                                                         *)
(* Every variable keeps its type (ReplicationTypes).  TypeInv adds what    *)
(* keeps the indexes in bounds: how long logs are, and how far requests    *)
(* and answers reach.  Each action has a lemma.  Those of actions that     *)
(* send or that change a log also say what comes of it: requests are       *)
(* pieces of the sender's log (IsPart, Sent), a follower's log is its own  *)
(* up to the entries it skips, then those of the request (Taken).          *)
(*                                                                         *)
(* The rest builds on them: logs match up to the entries of settled terms  *)
(* (LogsMatch), what accepting answers of settled terms say is true        *)
(* (AcceptedIsReplicated), and followers commit with the leader of a       *)
(* settled term (FollowersCommitWithLeader).                               *)
(***************************************************************************)
EXTENDS RaftReplication, FiniteSetTheorems, SequenceTheorems,
        WellFoundedInduction, TLAPS

-----------------------------------------------------------------------------
(* Types.                                                                  *)

NextIndex == Index \union {MaxLog + 1}
Log == {l \in Seq(Entry) : Len(l) <= MaxLog}
SmallRequest == {q \in Request : q.prev + Len(q.entries) <= MaxLog}

TypeInv ==
    /\ TypeOK
    /\ log \in [Server -> Log]
    /\ reqs \subseteq SmallRequest
    /\ \A p \in resps : p.accepted => p.next > 0

LEMMA EntryType ==
    ASSUME NEW t \in Term, NEW i \in Server
    PROVE  [term |-> t, by |-> i] \in Entry
BY DEF Entry

LEMMA AppendType ==
    ASSUME ReplicationAssumption,
           NEW l \in Log, NEW e \in Entry, Len(l) < MaxLog
    PROVE  /\ Append(l, e) \in Log
           /\ Len(Append(l, e)) = Len(l) + 1
<1>1. l \in Seq(Entry) /\ Len(l) \in Nat /\ MaxLog \in Nat
  BY LenProperties DEF Log, ReplicationAssumption
<1> QED  BY <1>1, AppendProperties DEF Log

Extends(l, k) == Len(k) <= Len(l) /\ \A m \in 1..Len(k) : l[m] = k[m]

\* l goes on from the log k with entries of term t
Goes(l, k, t) == Extends(l, k) /\ \A m \in Len(k) + 1 .. Len(l) : l[m].term = t

LEMMA ExtendsSame == ASSUME NEW l \in Log PROVE Extends(l, l)
BY LenProperties DEF Extends, Log

LEMMA ExtendsAppend ==
    ASSUME NEW l \in Log, NEW e \in Entry
    PROVE  Extends(Append(l, e), l)
<1>1. l \in Seq(Entry) /\ Len(l) \in Nat
  BY LenProperties DEF Log
<1> QED  BY <1>1, AppendProperties DEF Extends

\* what a leader serves before it learns a later term
LEMMA ServedType ==
    ASSUME ReplicationAssumption, TypeInv, NEW i \in Server, NEW t \in Term,
           NEW l \in ServedMeanwhile(i, t)
    PROVE  l \in Log /\ Goes(l, log[i], t)
<1>1. log[i] \in Log /\ log[i] \in Seq(Entry) /\ Len(log[i]) \in Nat
  BY LenProperties DEF TypeInv, Log
<1>2. ASSUME NEW n \in 0..MaxLog - Len(log[i])
      PROVE  LET new == log[i] \o [k \in 1..n |-> [term |-> t, by |-> i]]
             IN  new \in Log /\ Goes(new, log[i], t)
  <2> DEFINE served == [k \in 1..n |-> [term |-> t, by |-> i]]
  <2>1. [term |-> t, by |-> i] \in Entry
    BY EntryType
  <2>2. n \in Nat
    BY <1>1
  <2>3. served \in Seq(Entry) /\ Len(served) = n
    BY <2>1, <2>2
  <2>4. /\ log[i] \o served \in Seq(Entry)
        /\ Len(log[i] \o served) = Len(log[i]) + n
        /\ \A k \in 1..Len(log[i]) + n :
             (log[i] \o served)[k] = IF k <= Len(log[i]) THEN log[i][k]
                                     ELSE served[k - Len(log[i])]
    <3> HIDE DEF served
    <3> QED  BY <1>1, <2>3, ConcatProperties
  <2>5. log[i] \o served \in Log
    <3> HIDE DEF served
    <3>1. Len(log[i]) + n <= MaxLog
      BY <1>1, <1>2 DEF ReplicationAssumption
    <3> QED  BY <2>4, <3>1 DEF Log
  <2>6. \A k \in 1..n : served[k].term = t
    <3>1. \A k \in 1..n : served[k] = [term |-> t, by |-> i]
      OBVIOUS
    <3> HIDE DEF served
    <3> QED  BY <3>1
  <2> HIDE DEF served
  <2>7. Goes(log[i] \o served, log[i], t)
    <3>1. Extends(log[i] \o served, log[i])
      BY <1>1, <2>2, <2>4 DEF Extends
    <3>2. ASSUME NEW m \in Len(log[i]) + 1 .. Len(log[i] \o served)
          PROVE  (log[i] \o served)[m].term = t
      <4>1. m - Len(log[i]) \in 1..n /\ m \in 1..Len(log[i]) + n /\ ~(m <= Len(log[i]))
        BY <1>1, <2>2, <2>4
      <4> QED  BY <2>4, <2>6, <4>1
    <3> QED  BY <3>1, <3>2 DEF Goes
  <2> QED  BY <2>5, <2>7 DEF served
<1>3. Goes(log[i], log[i], t)
  BY <1>1, ExtendsSame DEF Goes
<1> QED  BY <1>1, <1>2, <1>3 DEF ServedMeanwhile

\* i's log has only gained entries of term t, and late has t if it has
ServedLate(i, t) ==
    /\ late \subseteq late'
    /\ \E new \in Log : /\ log' = [log EXCEPT ![i] = new]
                        /\ Goes(new, log[i], t)
                        /\ new = log[i] \/ t \in late'

LEMMA KeepLogType ==
    ASSUME ReplicationAssumption, TypeInv, NEW i \in Server, NEW t \in Term,
           KeepLog(i, t)
    PROVE  /\ log' \in [Server -> Log]
           /\ precommit' \in [Server -> Index]
           /\ late' \subseteq Term
           /\ ServedLate(i, t)
<1>1. PICK l \in ServedMeanwhile(i, t) :
        /\ log' = [log EXCEPT ![i] = l]
        /\ precommit' = [precommit EXCEPT ![i] = Larger(@, Len(l))]
        /\ late' = IF l = log[i] THEN late ELSE late \union {t}
  BY DEF KeepLog, Late
<1>2. l \in Log /\ Goes(l, log[i], t)
  BY ServedType
<1>3. Len(l) \in Index
  BY <1>2, LenProperties DEF Log, Index, ReplicationAssumption
<1>4. ServedLate(i, t)
  BY <1>1, <1>2 DEF ServedLate
<1> QED  BY <1>1, <1>2, <1>3, <1>4 DEF TypeInv, TypeOK, Larger, Index

-----------------------------------------------------------------------------
(* Pieces of logs: a request is one, and so is a whole log.                *)

Whole(l) == [prev |-> 0, prevTerm |-> 0, entries |-> l]
End(a) == a.prev + Len(a.entries)
Inside(a) == a.prev + 1 .. End(a)
At(a, k) == a.entries[k - a.prev]
TermIn(a, k) == IF k = a.prev THEN a.prevTerm ELSE At(a, k).term

\* what is inside a is a piece of b
IsPart(a, b) ==
    \A k \in Inside(a) :
        /\ k \in Inside(b) /\ At(a, k) = At(b, k)
        /\ a.prev >= b.prev /\ TermIn(b, a.prev) = a.prevTerm

\* q has been cut from the log l of leader i, in term t, with c or less
\* committed.  If the leader takes the peer for longer than its log, there is
\* no term at q.prev.
Sent(q, i, t, l, c) ==
    /\ q.src = i /\ q.term = t /\ q.commit <= c
    /\ IsPart(q, Whole(l))
    /\ \/ q.prev <= Len(l) /\ q.prevTerm = TermAt(l, q.prev)
       \/ q.prev > 0 /\ q.prevTerm = 0

Piece(a) == a.prev \in Nat /\ a.entries \in Seq(Entry)

LEMMA WholePiece ==
    ASSUME NEW l \in Seq(Entry)
    PROVE  /\ Piece(Whole(l)) /\ Len(l) \in Nat
           /\ Inside(Whole(l)) = 1..Len(l)
           /\ \A k \in 1..Len(l) : At(Whole(l), k) = l[k]
           /\ \A k \in 0..Len(l) : TermIn(Whole(l), k) = TermAt(l, k)
BY LenProperties DEF Piece, Whole, Inside, End, At, TermIn, TermAt

-----------------------------------------------------------------------------
(* Sending.                                                                *)

LEMMA AppendRequestType ==
    ASSUME ReplicationAssumption,
           NEW v, v.id \in Server, v.term \in Term, v.log \in Log,
           v.commit \in Index,
           NEW j \in Server, NEW nx \in NextIndex
    PROVE  /\ AppendRequest(v, j, nx) \in SmallRequest
           /\ NextOf(nx, v.log) \in NextIndex
           /\ Sent(AppendRequest(v, j, nx), v.id, v.term, v.log, v.commit)
<1> DEFINE last == NextOf(nx, v.log) - 1
           end == Smaller(Len(v.log), last + MaxAppendSize)
           q == AppendRequest(v, j, nx)
<1>1. /\ v.log \in Seq(Entry) /\ Len(v.log) \in Nat /\ Len(v.log) <= MaxLog
      /\ MaxLog \in Nat /\ MaxAppendSize \in Nat
  BY LenProperties DEF Log, ReplicationAssumption
<1>2. last \in Index /\ NextOf(nx, v.log) \in NextIndex
  BY <1>1 DEF NextOf, NextIndex, Index
<1>3. end \in Int /\ end <= Len(v.log)
  BY <1>1, <1>2 DEF Smaller, Index
<1>4. \A k \in last + 1 .. end : v.log[k] \in Entry
  BY <1>1, <1>2, <1>3, ElementOfSeq DEF Index
<1>5. /\ SubSeq(v.log, last + 1, end) \in Seq(Entry)
      /\ Len(SubSeq(v.log, last + 1, end)) = IF last + 1 <= end THEN end - last ELSE 0
      /\ \A k \in 1..end - last : SubSeq(v.log, last + 1, end)[k] = v.log[last + k]
  <2>1. last \in Nat /\ last + 1 \in Int
    BY <1>2 DEF Index
  <2>2. /\ SubSeq(v.log, last + 1, end) \in Seq(Entry)
        /\ Len(SubSeq(v.log, last + 1, end)) =
              IF last + 1 <= end THEN end - (last + 1) + 1 ELSE 0
        /\ \A k \in 1..end - (last + 1) + 1 :
              SubSeq(v.log, last + 1, end)[k] = v.log[(last + 1) + k - 1]
    <3> HIDE DEF last, end
    <3> QED  BY <1>3, <1>4, <2>1, SubSeqProperties
  <2> HIDE DEF last, end
  <2> QED  BY <1>3, <2>1, <2>2
<1>6. /\ q.src = v.id /\ q.dst = j /\ q.term = v.term /\ q.prev = last
      /\ q.prevTerm = TermAt(v.log, last)
      /\ q.entries = SubSeq(v.log, last + 1, end) /\ q.commit = v.commit
      /\ q.live = TRUE
  BY DEF AppendRequest
<1>7. TermAt(v.log, last) \in Term
  <2>1. \A k \in 1..Len(v.log) : v.log[k] \in Entry
    BY <1>1, ElementOfSeq
  <2>2. 0 \in Term
    BY DEF Term, ReplicationAssumption
  <2> QED  BY <2>1, <2>2 DEF TermAt, Entry
<1>8. q \in Request
  BY <1>2, <1>5, <1>7 DEF AppendRequest, Request
<1>9. q \in SmallRequest
  <2> HIDE DEF q, last, end
  <2> QED  BY <1>1, <1>2, <1>3, <1>5, <1>6, <1>8 DEF SmallRequest, Index
<1>10. IsPart(q, Whole(v.log))
  <2>1. ASSUME NEW k \in Inside(q)
        PROVE  /\ k \in Inside(Whole(v.log)) /\ At(q, k) = At(Whole(v.log), k)
               /\ q.prev >= Whole(v.log).prev
               /\ TermIn(Whole(v.log), q.prev) = q.prevTerm
    <3>1. k \in last + 1 .. end /\ last >= 0 /\ last <= Len(v.log)
      <4> HIDE DEF q, last, end
      <4>1. k \in last + 1 .. last + Len(q.entries)
        BY <1>6 DEF Inside, End
      <4>2. Len(q.entries) = IF last + 1 <= end THEN end - last ELSE 0
        BY <1>5, <1>6
      <4>3. last \in Nat
        BY <1>2 DEF Index
      <4> QED  BY <1>1, <1>3, <4>1, <4>2, <4>3
    <3>2. At(q, k) = v.log[k]
      <4> HIDE DEF q, last, end
      <4>1. k - last \in 1..end - last /\ last + (k - last) = k
        BY <1>2, <1>3, <3>1 DEF Index
      <4>2. q.entries[k - q.prev] = v.log[last + (k - last)]
        BY <1>5, <1>6, <4>1
      <4> QED  BY <4>1, <4>2 DEF At
    <3>3. k \in 1..Len(v.log) /\ last \in 0..Len(v.log)
      BY <1>1, <1>2, <1>3, <3>1 DEF Index
    <3> QED  BY <1>1, <1>6, <3>1, <3>2, <3>3, WholePiece DEF Whole
  <2> QED  BY <2>1 DEF IsPart
<1>11. Sent(q, v.id, v.term, v.log, v.commit)
  <2>1. ~(last <= Len(v.log)) => last > 0 /\ TermAt(v.log, last) = 0
    <3> HIDE DEF last
    <3> QED  BY <1>1, <1>2 DEF TermAt, Index
  <2> HIDE DEF q, last, end
  <2>2. q.commit <= v.commit
    BY <1>6 DEF Index
  <2> QED  BY <1>6, <1>10, <2>1, <2>2 DEF Sent
<1> QED  BY <1>2, <1>9, <1>11

LEMMA SendToType ==
    ASSUME ReplicationAssumption,
           NEW v, v.id \in Server, v.term \in Term, v.log \in Log,
           v.commit \in Index,
           NEW to \in SUBSET Server, NEW nexts \in [Server -> NextIndex],
           NEW pendingReqs \in SUBSET SmallRequest, NEW answers,
           next \in [Server -> [Server -> NextIndex]],
           SendTo(v, to, nexts, pendingReqs, answers)
    PROVE  /\ reqs' \subseteq SmallRequest
           /\ next' \in [Server -> [Server -> NextIndex]]
           /\ \A r \in reqs' : r \in pendingReqs \/ Sent(r, v.id, v.term, v.log, v.commit)
<1> DEFINE free == {j \in to : ~Busy(v.id, j, pendingReqs, answers)}
<1>1. /\ reqs' = pendingReqs \union {AppendRequest(v, j, nexts[j]) : j \in free}
      /\ next' = [next EXCEPT ![v.id] = [j \in Server |->
                    IF j \in free THEN NextOf(nexts[j], v.log) ELSE nexts[j]]]
  BY DEF SendTo
<1>2. \A j \in Server : /\ AppendRequest(v, j, nexts[j]) \in SmallRequest
                        /\ NextOf(nexts[j], v.log) \in NextIndex
                        /\ Sent(AppendRequest(v, j, nexts[j]), v.id, v.term, v.log, v.commit)
  BY AppendRequestType
<1> HIDE DEF free
<1>3. free \subseteq Server
  BY DEF free
<1>4. [j \in Server |-> IF j \in free THEN NextOf(nexts[j], v.log) ELSE nexts[j]]
        \in [Server -> NextIndex]
  BY <1>2
<1> QED  BY <1>1, <1>2, <1>3, <1>4

-----------------------------------------------------------------------------
(* Bounded sets of numbers have a least and a largest member.              *)

LEMMA Least ==
    ASSUME NEW S \in SUBSET Nat, S # {}
    PROVE  \E x \in S : \A y \in S : x <= y
<1>1. PICK x \in S : \A y \in S : ~ (<<y, x>> \in OpToRel(<, Nat))
  BY NatLessThanWellFounded, WFMin
<1>2. \A y \in S : ~ (y < x)
  BY <1>1 DEF OpToRel
<1> QED  BY <1>2

LEMMA Largest ==
    ASSUME NEW n \in Nat, NEW S \in SUBSET (0..n), S # {}
    PROVE  \E x \in S : \A y \in S : y <= x
<1> DEFINE T == {k \in 0..n : n - k \in S}
<1>1. T \in SUBSET Nat
  OBVIOUS
<1>2. PICK s \in S : TRUE
  OBVIOUS
<1>3. n - s \in T
  BY <1>2
<1>4. PICK k \in T : \A m \in T : k <= m
  <2> HIDE DEF T
  <2> QED  BY <1>1, <1>3, Least
<1>5. ASSUME NEW y \in S
      PROVE  y <= n - k
  <2>1. n - y \in T /\ y \in Nat /\ k \in Nat
    OBVIOUS
  <2>2. k <= n - y
    BY <1>4, <2>1
  <2> QED  BY <2>1, <2>2
<1> QED  BY <1>4, <1>5

-----------------------------------------------------------------------------
(* Committing.                                                             *)

\* what a server commits by counting is in the type, and a majority of the
\* indexes it counts reach it
LEMMA ExpectedCommitType ==
    ASSUME ReplicationAssumption, TypeInv, NEW i \in Server,
           NEW matches \in [Server -> Index]
    PROVE  /\ ExpectedCommit(i, matches) \in Index
           /\ Cardinality({j \in Server : [matches EXCEPT ![i] = precommit[i]][j]
                                           >= ExpectedCommit(i, matches)}) > Quorum
<1> DEFINE value == [matches EXCEPT ![i] = precommit[i]]
           S == {value[j] : j \in Server}
           reached(k) == Cardinality({j \in Server : value[j] >= k}) > Quorum
           R == {k \in S : reached(k)}
<1>1. value \in [Server -> Index]
  BY DEF TypeInv, TypeOK
<1>2. MaxLog \in Nat /\ Cardinality(Server) \in Nat /\ Cardinality(Server) > 1
  BY FS_CardinalityType DEF ReplicationAssumption
<1> HIDE DEF value
<1>3. S \subseteq Index
  BY <1>1
<1>4. PICK k \in S : \A m \in S : k <= m
  <2>1. S \in SUBSET Nat /\ S # {}
    BY <1>2, <1>3, FS_EmptySet DEF Index
  <2> HIDE DEF S
  <2> QED  BY <2>1, Least
<1>5. k \in R
  <2>1. {j \in Server : value[j] >= k} = Server
    BY <1>1, <1>3, <1>4 DEF Index
  <2>2. Cardinality(Server) > Quorum
    BY <1>2 DEF Quorum
  <2> QED  BY <2>1, <2>2
<1>6. PICK x \in R : \A y \in R : y <= x
  <2>1. R \in SUBSET (0..MaxLog) /\ R # {}
    BY <1>3, <1>5 DEF Index
  <2> HIDE DEF R
  <2> QED  BY <1>2, <2>1, Largest
<1>7. x \in S /\ reached(x) /\ \A m \in S : reached(m) => m <= x
  BY <1>6
<1>8. ExpectedCommit(i, matches) \in S /\ reached(ExpectedCommit(i, matches))
  <2>1. ExpectedCommit(i, matches) =
          CHOOSE z \in S : reached(z) /\ \A m \in S : reached(m) => m <= z
    BY DEF ExpectedCommit, value
  <2> HIDE DEF S, reached
  <2> QED  BY <1>7, <2>1
<1> QED  BY <1>3, <1>8 DEF value

-----------------------------------------------------------------------------
(* Every step keeps the types.                                             *)

\* what the actions of a leader send is made of
LEMMA ViewType ==
    ASSUME TypeInv, NEW i \in Server, NEW c \in Index
    PROVE  LET v == View(i, log[i], c)
           IN  /\ v.id \in Server /\ v.term \in Term /\ v.log \in Log
               /\ v.commit \in Index /\ v.log = log[i] /\ v.id = i
               /\ v.term = term[i] /\ v.commit = c
BY DEF View, TypeInv, TypeOK

LEMMA UpdateTermType ==
    ASSUME ReplicationAssumption, TypeInv, NEW i \in Server, NEW t \in Term,
           UpdateTerm(i, t), reqs' = reqs, resps' \subseteq resps,
           events' = events
    PROVE  TypeInv'
<1>1. /\ log' \in [Server -> Log] /\ precommit' \in [Server -> Index]
      /\ late' \subseteq Term
  BY KeepLogType DEF UpdateTerm
<1>2. Unset \in [Server -> NextIndex]
  BY DEF Unset, NextIndex, Index, ReplicationAssumption
<1>3. /\ term' \in [Server -> Term] /\ voted' \in [Server -> BOOLEAN]
      /\ role' \in [Server -> {"follower", "leader"}]
      /\ next' \in [Server -> [Server -> NextIndex]]
  BY <1>2 DEF UpdateTerm, TypeInv, TypeOK, NextIndex
<1> QED  BY <1>1, <1>3 DEF UpdateTerm, TypeInv, TypeOK, NextIndex, Log

LEMMA CampaignType ==
    ASSUME ReplicationAssumption, TypeInv, NEW i \in Server, Campaign(i)
    PROVE  TypeInv'
<1>1. term[i] + 1 \in Term
  BY DEF TypeInv, TypeOK, Campaign, Term, ReplicationAssumption
<1>2. /\ log' \in [Server -> Log] /\ precommit' \in [Server -> Index]
      /\ late' \subseteq Term
  BY <1>1, KeepLogType DEF Campaign
<1>3. Unset \in [Server -> NextIndex]
  BY DEF Unset, NextIndex, Index, ReplicationAssumption
<1>4. /\ term' \in [Server -> Term] /\ voted' \in [Server -> BOOLEAN]
      /\ role' \in [Server -> {"follower", "leader"}]
      /\ next' \in [Server -> [Server -> NextIndex]]
  BY <1>1, <1>3 DEF Campaign, TypeInv, TypeOK, NextIndex
<1> QED  BY <1>2, <1>4 DEF Campaign, network, TypeInv, TypeOK, NextIndex, Log

LEMMA LearnTermType ==
    ASSUME ReplicationAssumption, TypeInv, NEW i \in Server, LearnTerm(i)
    PROVE  TypeInv'
<1>1. PICK k \in Server : UpdateTerm(i, term[k])
  BY DEF LearnTerm
<1>2. term[k] \in Term
  BY DEF TypeInv, TypeOK
<1> QED  BY <1>1, <1>2, UpdateTermType DEF LearnTerm, network

LEMMA ClientRequestType ==
    ASSUME ReplicationAssumption, TypeInv, NEW i \in Server, ClientRequest(i)
    PROVE  TypeInv'
<1>1. [term |-> term[i], by |-> i] \in Entry
  BY EntryType DEF TypeInv, TypeOK
<1>2. Append(log[i], [term |-> term[i], by |-> i]) \in Log
  BY <1>1, AppendType DEF ClientRequest, TypeInv
<1>3. log' \in [Server -> Log]
  BY <1>2 DEF ClientRequest, TypeInv
<1>4. Len(log[i]) + 1 \in Index
  BY LenProperties DEF ClientRequest, TypeInv, Log, Index, ReplicationAssumption
<1>5. precommit' \in [Server -> Index]
  BY <1>4 DEF ClientRequest, TypeInv, TypeOK, Larger
<1> QED  BY <1>3, <1>5 DEF ClientRequest, state, peers, network, history,
            TypeInv, TypeOK, Log

LEMMA RequestAppendEntriesType ==
    ASSUME ReplicationAssumption, TypeInv, NEW i \in Server, NEW j \in Server,
           RequestAppendEntries(i, j), events' \in 0..MaxEvents
    PROVE  /\ TypeInv'
           /\ \A r \in reqs' : r \in reqs \/ Sent(r, i, term[i], log[i], quick'[i])
<1> DEFINE v == View(i, log[i], quick[i])
<1>1. /\ v.id \in Server /\ v.term \in Term /\ v.log \in Log
      /\ v.commit \in Index /\ v.log = log[i] /\ v.id = i /\ v.term = term[i]
      /\ v.commit = quick[i]
  BY ViewType DEF TypeInv, TypeOK
<1>2. /\ next \in [Server -> [Server -> NextIndex]]
      /\ next[i] \in [Server -> NextIndex]
      /\ reqs \in SUBSET SmallRequest /\ {j} \in SUBSET Server
  BY DEF TypeInv, TypeOK, NextIndex
<1>3. SendTo(v, {j}, next[i], reqs, resps)
  BY DEF RequestAppendEntries
<1> HIDE DEF v
<1>4. /\ reqs' \subseteq SmallRequest
      /\ next' \in [Server -> [Server -> NextIndex]]
      /\ \A r \in reqs' : r \in reqs \/ Sent(r, v.id, v.term, v.log, v.commit)
  BY <1>1, <1>2, <1>3, SendToType
<1> QED  BY <1>1, <1>4 DEF RequestAppendEntries, state, logs, history, TypeInv,
            TypeOK, NextIndex, SmallRequest

LEMMA LeftOverType ==
    ASSUME TypeInv, NEW i, NEW j, NEW left \in LeftOver(i, j)
    PROVE  /\ left \subseteq SmallRequest
           /\ \A r \in left : \E q \in reqs :
                /\ r.src = q.src /\ r.term = q.term /\ r.prev = q.prev
                /\ r.prevTerm = q.prevTerm /\ r.entries = q.entries
                /\ r.commit = q.commit
<1>1. ASSUME NEW q \in reqs
      PROVE  /\ [q EXCEPT !.live = FALSE] \in SmallRequest
             /\ [q EXCEPT !.live = FALSE].src = q.src
             /\ [q EXCEPT !.live = FALSE].term = q.term
             /\ [q EXCEPT !.live = FALSE].prev = q.prev
             /\ [q EXCEPT !.live = FALSE].prevTerm = q.prevTerm
             /\ [q EXCEPT !.live = FALSE].entries = q.entries
             /\ [q EXCEPT !.live = FALSE].commit = q.commit
  BY DEF TypeInv, SmallRequest, Request
<1>2. reqs \subseteq SmallRequest
  BY DEF TypeInv
<1> DEFINE Copies == {[q EXCEPT !.live = FALSE] : q \in Cut(i, j)}
<1>3. left \subseteq reqs \union Copies /\ Cut(i, j) \subseteq reqs
  BY DEF LeftOver, Cut
<1>4. ASSUME NEW r \in left
      PROVE  \E q \in reqs : r = q \/ r = [q EXCEPT !.live = FALSE]
  BY <1>3
<1> QED  BY <1>1, <1>2, <1>4

LEMMA ReconnectType ==
    ASSUME ReplicationAssumption, TypeInv, NEW i \in Server, NEW j \in Server,
           Reconnect(i, j)
    PROVE  /\ TypeInv'
           /\ \E left \in LeftOver(i, j) :
                \A r \in reqs' : r \in left \/ Sent(r, i, term[i], log[i], quick'[i])
<1> DEFINE v == View(i, log[i], quick[i])
           nexts == [next[i] EXCEPT ![j] = 0]
<1>1. PICK left \in LeftOver(i, j) :
        SendTo(v, {j}, nexts, left, AnswersWithout(i, j))
  BY DEF Reconnect
<1>2. /\ v.id \in Server /\ v.term \in Term /\ v.log \in Log
      /\ v.commit \in Index /\ v.log = log[i] /\ v.id = i /\ v.term = term[i]
      /\ v.commit = quick[i]
  BY ViewType DEF TypeInv, TypeOK
<1>3. /\ next \in [Server -> [Server -> NextIndex]]
      /\ nexts \in [Server -> NextIndex]
      /\ {j} \in SUBSET Server
  BY DEF TypeInv, TypeOK, NextIndex, Index, ReplicationAssumption
<1>4. left \in SUBSET SmallRequest
  BY LeftOverType
<1> HIDE DEF v, nexts
<1>5. /\ reqs' \subseteq SmallRequest
      /\ next' \in [Server -> [Server -> NextIndex]]
      /\ \A r \in reqs' : r \in left \/ Sent(r, v.id, v.term, v.log, v.commit)
  BY <1>1, <1>2, <1>3, <1>4, SendToType
<1>6. matched' \in [Server -> [Server -> Index]]
  BY DEF Reconnect, TypeInv, TypeOK, Index, ReplicationAssumption
<1>7. resps' \subseteq resps /\ events' \in 0..MaxEvents
  BY DEF Reconnect, AnswersWithout, Event, TypeInv, TypeOK, ReplicationAssumption
<1>8. TypeInv'
  BY <1>5, <1>6, <1>7 DEF Reconnect, state, logs, history, TypeInv, TypeOK,
     NextIndex, SmallRequest
<1>9. quick' = quick
  BY DEF Reconnect
<1> QED  BY <1>2, <1>5, <1>8, <1>9

LEMMA RecreateRpcType ==
    ASSUME ReplicationAssumption, TypeInv, NEW i \in Server, NEW j \in Server,
           RecreateRpc(i, j)
    PROVE  TypeInv'
<1>1. reqs' \subseteq SmallRequest
  BY LeftOverType DEF RecreateRpc
<1>2. resps' \subseteq resps /\ events' \in 0..MaxEvents
  BY DEF RecreateRpc, AnswersWithout, Event, TypeInv, TypeOK, ReplicationAssumption
<1> QED  BY <1>1, <1>2 DEF RecreateRpc, state, logs, peers, history, TypeInv,
            TypeOK, SmallRequest

LEMMA FreePeerType ==
    ASSUME ReplicationAssumption, TypeInv, NEW p \in resps, FreePeer(p)
    PROVE  TypeInv'
<1> DEFINE r == [p EXCEPT !.freed = TRUE]
<1>1. r \in Response /\ r.accepted = p.accepted /\ r.next = p.next
  BY DEF TypeInv, TypeOK, Response
<1>2. resps' = (resps \ {p}) \union {r} /\ events' \in 0..MaxEvents
  BY DEF FreePeer, Event, TypeInv, TypeOK, ReplicationAssumption
<1> QED  BY <1>1, <1>2 DEF FreePeer, state, logs, peers, history, TypeInv, TypeOK

LEMMA RestartType ==
    ASSUME ReplicationAssumption, TypeInv, NEW i \in Server, Restart(i)
    PROVE  TypeInv'
<1>1. Len(log[i]) \in Index /\ 0 \in Index
  BY LenProperties DEF TypeInv, Log, Index, ReplicationAssumption
<1>2. Unset \in [Server -> Index \union {MaxLog + 1}]
  BY <1>1 DEF Unset
<1>3. /\ precommit' \in [Server -> Index] /\ quick' \in [Server -> Index]
      /\ matched' \in [Server -> [Server -> Index]]
      /\ next' \in [Server -> [Server -> Index \union {MaxLog + 1}]]
  BY <1>1, <1>2 DEF Restart, TypeInv, TypeOK
<1>4. /\ pending' \in [Server -> SUBSET Server]
      /\ role' \in [Server -> {"follower", "leader"}]
      /\ events' \in 0..MaxEvents
  BY DEF Restart, Event, TypeInv, TypeOK, ReplicationAssumption
<1> QED  BY <1>3, <1>4 DEF Restart, history, TypeInv, TypeOK

\* The new leader's log is the one its voters compared with their own, and a
\* configuration.
LEMMA ElectType ==
    ASSUME ReplicationAssumption, TypeInv, NEW i \in Server,
           NEW voters \in SUBSET Others(i), Elect(i, voters)
    PROVE  /\ TypeInv'
           /\ \A r \in reqs' : r \in reqs \/ Sent(r, i, term[i] + 1, log'[i], quick'[i])
           /\ late \subseteq late'
           /\ \E l \in Log :
                /\ Len(l) < MaxLog /\ Goes(l, log[i], term[i] + 1)
                /\ l = log[i] \/ term[i] + 1 \in late'
                /\ log' = [log EXCEPT ![i] = Append(l, [term |-> term[i] + 1, by |-> i])]
                /\ \A j \in voters : UpToDate(l, j)
<1> DEFINE t == term[i] + 1
<1>1. t \in Term /\ t \in Nat
  BY DEF TypeInv, TypeOK, Elect, Term, ReplicationAssumption
<1>2. PICK l \in ServedMeanwhile(i, t) :
        /\ BecomeLeader(i, voters, l)
        /\ late' = IF l = log[i] THEN late ELSE late \union {t}
        /\ \A j \in voters : UpToDate(l, j)
  BY DEF Elect, Late
<1>3. l \in Log /\ Goes(l, log[i], t)
  BY <1>1, <1>2, ServedType
<1> DEFINE entries == Append(l, [term |-> t, by |-> i])
           view == [View(i, entries, quick[i]) EXCEPT !.term = @ + 1]
           free == {j \in Others(i) : ~Busy(i, j, reqs, resps)}
<1>4. /\ Len(entries) <= MaxLog
      /\ log' = [log EXCEPT ![i] = entries]
      /\ precommit' = [precommit EXCEPT ![i] = Len(entries)]
      /\ reqs' = reqs \union {AppendRequest(view, j, Len(entries)) : j \in free}
      /\ next' = [j \in Server |-> IF j = i THEN [k \in Server |-> Len(entries)]
                                   ELSE IF j \in voters THEN Unset ELSE next[j]]
      /\ UNCHANGED <<quick, matched, pending, resps>>
  BY <1>2 DEF BecomeLeader
<1>5. [term |-> t, by |-> i] \in Entry
  BY <1>1, EntryType
<1>6. entries \in Log /\ Len(entries) \in Index /\ Len(l) < MaxLog
  <2>1. l \in Seq(Entry)
    BY <1>3 DEF Log
  <2>2. /\ entries \in Seq(Entry) /\ Len(entries) \in Nat
        /\ Len(l) \in Nat /\ Len(entries) = Len(l) + 1
    BY <1>5, <2>1, AppendProperties, LenProperties
  <2> QED  BY <1>4, <2>2 DEF Log, Index, ReplicationAssumption
<1>7. /\ view.id = i /\ view.term = t /\ view.log = entries
      /\ view.commit = quick[i]
  BY DEF View
<1> HIDE DEF entries, view, t
<1>8. \A j \in Server : /\ AppendRequest(view, j, Len(entries)) \in SmallRequest
                        /\ Sent(AppendRequest(view, j, Len(entries)), i, t, entries, quick[i])
  BY <1>1, <1>6, <1>7, AppendRequestType DEF NextIndex, TypeInv, TypeOK
<1>9. free \subseteq Server /\ voters \subseteq Server
  BY DEF Others
<1>10. /\ reqs' \subseteq SmallRequest
       /\ \A r \in reqs' : r \in reqs \/ Sent(r, i, t, entries, quick[i])
  BY <1>4, <1>8, <1>9 DEF TypeInv
<1>11. log' \in [Server -> Log] /\ log'[i] = entries
  BY <1>4, <1>6 DEF TypeInv
<1>12. Unset \in [Server -> NextIndex]
  BY DEF Unset, NextIndex, Index, ReplicationAssumption
<1>13. next' \in [Server -> [Server -> NextIndex]]
  BY <1>4, <1>6, <1>12 DEF TypeInv, TypeOK, NextIndex
<1>14. precommit' \in [Server -> Index]
  BY <1>4, <1>6 DEF TypeInv, TypeOK
<1>15. /\ term' \in [Server -> Term] /\ voted' \in [Server -> BOOLEAN]
       /\ role' \in [Server -> {"follower", "leader"}]
  <2>1. /\ term' = [j \in Server |-> IF j \in voters \union {i} THEN t ELSE term[j]]
        /\ voted' = [j \in Server |-> j \in voters \union {i} \/ voted[j]]
        /\ role' = [j \in Server |-> IF j = i THEN "leader"
                                     ELSE IF j \in voters THEN "follower" ELSE role[j]]
    BY DEF Elect, t
  <2>2. \A j \in Server : term[j] \in Term /\ voted[j] \in BOOLEAN
                          /\ role[j] \in {"follower", "leader"}
    BY DEF TypeInv, TypeOK
  <2>3. \A j \in Server : (j \in voters \union {i} \/ voted[j]) \in BOOLEAN
    OBVIOUS
  <2> QED  BY <1>1, <2>1, <2>2, <2>3
<1>16. TypeInv' /\ late \subseteq late'
  BY <1>1, <1>2, <1>4, <1>10, <1>11, <1>13, <1>14, <1>15 DEF Elect, TypeInv, TypeOK,
     NextIndex, SmallRequest, Log
<1>17. /\ log' = [log EXCEPT ![i] = Append(l, [term |-> term[i] + 1, by |-> i])]
       /\ l = log[i] \/ term[i] + 1 \in late'
       /\ Goes(l, log[i], term[i] + 1)
       /\ \A j \in voters : UpToDate(l, j)
  BY <1>2, <1>3, <1>4 DEF entries, t
<1>18. quick' = quick
  BY <1>4
<1> QED  BY <1>3, <1>6, <1>10, <1>11, <1>16, <1>17, <1>18 DEF t

-----------------------------------------------------------------------------
(* Answers.                                                                *)

LEMMA AcceptedType ==
    ASSUME ReplicationAssumption, TypeInv, NEW p \in resps, p.accepted,
           NEW answers, Accepted(p, answers),
           UNCHANGED <<state, logs, events, history>>, resps' \subseteq resps
    PROVE  /\ TypeInv'
           /\ \A r \in reqs' : r \in reqs \/ Sent(r, p.dst, term[p.dst], log[p.dst], quick'[p.dst])
<1> DEFINE i == p.dst
           j == p.src
           matches == [matched[i] EXCEPT ![j] = p.next - 1]
           target == ExpectedCommit(i, matches)
           advances == target > quick[i]
           catchup == j \in pending[i] \/ p.next <= Len(log[i])
           notified == IF advances THEN Others(i) ELSE IF catchup THEN {j} ELSE {}
           nexts == [next[i] EXCEPT ![j] = p.next]
           busy == {k \in Others(i) : Busy(i, k, reqs, answers)}
           v == View(i, log[i], Larger(quick[i], target))
<1>1. /\ i \in Server /\ j \in Server /\ p.next \in NextIndex /\ p.next > 0
  BY DEF TypeInv, TypeOK, Response, NextIndex
<1>2. p.next - 1 \in Index /\ MaxLog \in Nat
  BY <1>1 DEF NextIndex, Index, ReplicationAssumption
<1>3. matches \in [Server -> Index]
  BY <1>1, <1>2 DEF TypeInv, TypeOK
<1>4. target \in Index
  BY <1>1, <1>3, ExpectedCommitType
<1>5. Larger(quick[i], target) \in Index
  BY <1>1, <1>4 DEF Larger, TypeInv, TypeOK
<1>6. nexts \in [Server -> NextIndex] /\ notified \in SUBSET Server
      /\ busy \subseteq Server
  BY <1>1 DEF TypeInv, TypeOK, NextIndex, Others
<1>7. /\ v.id \in Server /\ v.term \in Term /\ v.log \in Log
      /\ v.commit \in Index /\ v.log = log[i] /\ v.id = i /\ v.term = term[i]
      /\ v.commit = Larger(quick[i], target)
  BY <1>1, <1>5, ViewType
<1>8. /\ matched' = [matched EXCEPT ![i] = matches]
      /\ quick' = [quick EXCEPT ![i] = Larger(quick[i], target)]
      /\ \/ /\ SendTo(v, notified, nexts, reqs, answers)
            /\ pending' = [pending EXCEPT ![i] =
                 (IF advances THEN @ \union busy ELSE @) \ {j}]
         \/ /\ pending' = [pending EXCEPT ![i] = @ \ {j}]
            /\ UNCHANGED <<next, reqs>>
  BY DEF Accepted
<1> HIDE DEF matches, target, advances, notified, nexts, busy, v
<1>9. quick' \in [Server -> Index] /\ quick'[i] = Larger(quick[i], target)
  BY <1>1, <1>5, <1>8 DEF TypeInv, TypeOK
<1>10. matched' \in [Server -> [Server -> Index]]
  BY <1>3, <1>8 DEF TypeInv, TypeOK
<1>11. pending' \in [Server -> SUBSET Server]
  <2>1. pending \in [Server -> SUBSET Server] /\ pending[i] \in SUBSET Server
    BY <1>1 DEF TypeInv, TypeOK
  <2>2. (IF advances THEN pending[i] \union busy ELSE pending[i]) \ {j} \in SUBSET Server
    BY <1>6, <2>1
  <2>3. pending[i] \ {j} \in SUBSET Server
    BY <2>1
  <2>4. \E s \in SUBSET Server : pending' = [pending EXCEPT ![i] = s]
    BY <1>8, <2>2, <2>3
  <2> QED  BY <2>1, <2>4
<1>12. next \in [Server -> [Server -> NextIndex]] /\ reqs \in SUBSET SmallRequest
  BY DEF TypeInv, TypeOK, NextIndex
<1>13. /\ reqs' \subseteq SmallRequest
       /\ next' \in [Server -> [Server -> NextIndex]]
       /\ \A r \in reqs' : r \in reqs \/ Sent(r, v.id, v.term, v.log, v.commit)
  BY <1>6, <1>7, <1>8, <1>12, SendToType
<1>14. TypeInv'
  BY <1>9, <1>10, <1>11, <1>13 DEF state, logs, history, TypeInv, TypeOK,
     NextIndex, SmallRequest
<1> QED  BY <1>7, <1>9, <1>13, <1>14

LEMMA DeclinedType ==
    ASSUME ReplicationAssumption, TypeInv, NEW p \in resps,
           NEW answers, Declined(p, answers),
           UNCHANGED <<state, logs, events, history>>, resps' \subseteq resps
    PROVE  /\ TypeInv'
           /\ \A r \in reqs' : r \in reqs \/ Sent(r, p.dst, term[p.dst], log[p.dst], quick'[p.dst])
<1> DEFINE i == p.dst
           j == p.src
           nexts == [next[i] EXCEPT ![j] =
                      IF p.next > 0 /\ @ > p.next THEN p.next
                      ELSE IF @ > 0 THEN @ - 1 ELSE @]
           v == View(i, log[i], quick[i])
<1>1. i \in Server /\ j \in Server /\ p.next \in NextIndex
  BY DEF TypeInv, TypeOK, Response, NextIndex
<1>2. next \in [Server -> [Server -> NextIndex]] /\ reqs \in SUBSET SmallRequest
  BY DEF TypeInv, TypeOK, NextIndex
<1>3. nexts \in [Server -> NextIndex]
  <2>1. \A x \in NextIndex : x > 0 => x - 1 \in NextIndex
    BY DEF NextIndex, Index, ReplicationAssumption
  <2> QED  BY <1>1, <1>2, <2>1
<1>4. /\ v.id \in Server /\ v.term \in Term /\ v.log \in Log
      /\ v.commit \in Index /\ v.log = log[i] /\ v.id = i /\ v.term = term[i]
      /\ v.commit = quick[i]
  BY <1>1, ViewType DEF TypeInv, TypeOK
<1>5. /\ SendTo(v, {j}, nexts, reqs, answers) \/ UNCHANGED <<next, reqs>>
      /\ UNCHANGED <<quick, matched, pending>>
  BY DEF Declined
<1> HIDE DEF v, nexts
<1>6. /\ reqs' \subseteq SmallRequest
      /\ next' \in [Server -> [Server -> NextIndex]]
      /\ \A r \in reqs' : r \in reqs \/ Sent(r, v.id, v.term, v.log, v.commit)
  BY <1>1, <1>2, <1>3, <1>4, <1>5, SendToType
<1>7. TypeInv'
  BY <1>5, <1>6 DEF state, logs, history, TypeInv, TypeOK, NextIndex, SmallRequest
<1> QED  BY <1>4, <1>5, <1>6, <1>7

LEMMA HandleRespType ==
    ASSUME ReplicationAssumption, TypeInv, NEW p \in resps,
           HandleAppendEntriesResp(p)
    PROVE  /\ TypeInv'
           /\ \A r \in reqs' : r \in reqs \/ Sent(r, p.dst, term[p.dst], log[p.dst], quick'[p.dst])
<1>1. /\ p.dst \in Server /\ p.term \in Term /\ resps' \subseteq resps
      /\ events' = events
  BY DEF HandleAppendEntriesResp, TypeInv, TypeOK, Response
<1>2. CASE p.term > term[p.dst]
  <2>1. UpdateTerm(p.dst, p.term) /\ reqs' = reqs
    BY <1>2 DEF HandleAppendEntriesResp
  <2> QED  BY <1>1, <2>1, UpdateTermType
<1>3. CASE ~(p.term > term[p.dst]) /\ p.accepted
  <2>1. Accepted(p, resps \ {p}) /\ UNCHANGED <<state, logs, events, history>>
    BY <1>3 DEF HandleAppendEntriesResp
  <2> QED  BY <1>1, <1>3, <2>1, AcceptedType
<1>4. CASE ~(p.term > term[p.dst]) /\ ~p.accepted
  <2>1. Declined(p, resps \ {p}) /\ UNCHANGED <<state, logs, events, history>>
    BY <1>4 DEF HandleAppendEntriesResp
  <2> QED  BY <1>1, <2>1, DeclinedType
<1> QED  BY <1>2, <1>3, <1>4

-----------------------------------------------------------------------------
(* Requests.                                                               *)

\* the entries that are skipped have the terms of those the log has there
LEMMA SkippedFits ==
    ASSUME ReplicationAssumption, NEW l \in Log, NEW q \in SmallRequest
    PROVE  /\ Skipped(l, q) \in 0..Len(q.entries)
           /\ \A k \in 1..Skipped(l, q) :
                /\ q.prev + k <= Len(l)
                /\ l[q.prev + k].term = q.entries[k].term
           /\ \/ Skipped(l, q) = Len(q.entries)
              \/ q.prev + Skipped(l, q) + 1 > Len(l)
              \/ l[q.prev + Skipped(l, q) + 1].term # q.entries[Skipped(l, q) + 1].term
<1> DEFINE n == Len(q.entries)
           Stops(m) == \/ m = n
                       \/ q.prev + m + 1 > Len(l)
                       \/ l[q.prev + m + 1].term # q.entries[m + 1].term
           Fits(k) == /\ q.prev + k <= Len(l)
                      /\ l[q.prev + k].term = q.entries[k].term
           T == {m \in 0..n : Stops(m)}
<1>1. n \in Nat /\ q.prev \in Nat /\ Len(l) \in Nat
  BY LenProperties DEF SmallRequest, Request, Log, Index
<1>2. PICK m \in T : \A y \in T : m <= y
  <2>1. T \in SUBSET Nat /\ n \in T
    BY <1>1
  <2> HIDE DEF T
  <2> QED  BY <2>1, Least
<1>3. ASSUME NEW k \in 1..m
      PROVE  Fits(k)
  <2>1. k - 1 \notin T /\ k - 1 \in 0..n /\ k - 1 # n
    BY <1>1, <1>2
  <2>2. ~Stops(k - 1)
    BY <2>1
  <2> QED  BY <1>1, <2>2
<1>4. m \in 0..n /\ (\A k \in 1..m : Fits(k)) /\ Stops(m)
  BY <1>2, <1>3
<1>5. Skipped(l, q) =
        CHOOSE x \in 0..n : (\A k \in 1..x : Fits(k)) /\ Stops(x)
  BY DEF Skipped
<1> HIDE DEF Stops, Fits, T
<1>6. /\ Skipped(l, q) \in 0..n /\ \A k \in 1..Skipped(l, q) : Fits(k)
      /\ Stops(Skipped(l, q))
  BY <1>4, <1>5
<1> QED  BY <1>6 DEF Fits, Stops

\* what a follower's log is once it has taken a request: its own up to the
\* entries it skipped, then those of the request
Taken(l, q, new) ==
    LET kept == q.prev + Skipped(l, q)
    IN  /\ kept <= Len(l) /\ kept < End(q) /\ Len(new) = End(q)
        /\ \A m \in 1..kept : new[m] = l[m]
        /\ \A m \in kept + 1 .. End(q) : new[m] = At(q, m)

LEMMA AppendEntriesType ==
    ASSUME ReplicationAssumption, TypeInv, NEW q \in reqs, NEW j \in Server,
           LogOkay(log[j], q), AppendEntries(j, q)
    PROVE  /\ \E new \in Log : /\ log' = [log EXCEPT ![j] = new]
                               /\ \/ new = log[j] /\ Skipped(new, q) = Len(q.entries)
                                  \/ Taken(log[j], q, new)
           /\ precommit' \in [Server -> Index]
           /\ quick' \in [Server -> Index]
<1> DEFINE l == log[j]
           n == Len(q.entries)
           from == q.prev + Skipped(l, q) + 1
           changes == from <= q.prev + n
           entries == IF changes
                      THEN SubSeq(l, 1, from - 1) \o
                           SubSeq(q.entries, from - q.prev, n)
                      ELSE l
           rollback == changes /\ from <= Len(l)
           kept == IF rollback /\ quick[j] >= from THEN from - 1 ELSE quick[j]
<1>1. /\ l \in Log /\ l \in Seq(Entry) /\ Len(l) \in Nat /\ Len(l) <= MaxLog
      /\ MaxLog \in Nat
  BY LenProperties DEF TypeInv, Log, ReplicationAssumption
<1>2. /\ q \in SmallRequest /\ q.entries \in Seq(Entry) /\ n \in Nat
      /\ q.prev \in Nat /\ q.prev + n <= MaxLog /\ q.commit \in Index
  BY LenProperties DEF TypeInv, SmallRequest, Request, Index
<1>3. /\ Skipped(l, q) \in 0..n
      /\ \A k \in 1..Skipped(l, q) : q.prev + k <= Len(l)
  BY <1>1, <1>2, SkippedFits
<1>4. q.prev <= Len(l)
  BY DEF LogOkay
<1>5. from \in Nat /\ from - 1 <= Len(l) /\ from >= 1 /\ from - q.prev >= 1
      /\ from - 1 = q.prev + Skipped(l, q)
  <2>1. Skipped(l, q) \in Nat
    BY <1>2, <1>3
  <2>2. q.prev + Skipped(l, q) <= Len(l)
    <3>1. CASE Skipped(l, q) = 0
      BY <1>1, <1>2, <1>4, <3>1
    <3>2. CASE Skipped(l, q) # 0
      BY <1>3, <2>1, <3>2
    <3> QED  BY <3>1, <3>2
  <2> HIDE DEF l
  <2> QED  BY <1>1, <1>2, <2>1, <2>2
<1>6. /\ log' = [log EXCEPT ![j] = entries]
      /\ precommit' = [precommit EXCEPT ![j] = Larger(@, q.prev + n)]
      /\ quick' = [quick EXCEPT ![j] = Larger(kept, CommitTarget(q))]
  BY DEF AppendEntries
<1> HIDE DEF l, n, from
<1>7. ASSUME changes
      PROVE  entries \in Log /\ Taken(l, q, entries)
  <2> DEFINE a == SubSeq(l, 1, from - 1)
             b == SubSeq(q.entries, from - q.prev, n)
  <2>1. \A k \in 1..from - 1 : l[k] \in Entry
    BY <1>1, <1>5, ElementOfSeq
  <2>2. /\ a \in Seq(Entry) /\ Len(a) = from - 1
        /\ \A k \in 1..from - 1 : a[k] = l[k]
    <3>1. from - 1 \in Int
      BY <1>5
    <3>2. /\ SubSeq(l, 1, from - 1) \in Seq(Entry)
          /\ Len(SubSeq(l, 1, from - 1)) =
               IF 1 <= from - 1 THEN (from - 1) - 1 + 1 ELSE 0
          /\ \A k \in 1..(from - 1) - 1 + 1 : SubSeq(l, 1, from - 1)[k] = l[1 + k - 1]
      BY <2>1, <3>1, SubSeqProperties
    <3> QED  BY <1>5, <3>2
  <2>3. \A k \in from - q.prev .. n : q.entries[k] \in Entry
    BY <1>2, <1>5, ElementOfSeq DEF n
  <2>4. /\ b \in Seq(Entry) /\ Len(b) = n - (from - q.prev) + 1
        /\ \A k \in 1..n - (from - q.prev) + 1 :
              b[k] = q.entries[(from - q.prev) + k - 1]
    <3>1. from - q.prev \in Int /\ n \in Int /\ from - q.prev <= n
      BY <1>2, <1>5, <1>7
    <3> QED  BY <2>3, <3>1, SubSeqProperties
  <2>5. entries = a \o b
    BY <1>7
  <2> HIDE DEF a, b, entries
  <2>6. /\ entries \in Seq(Entry) /\ Len(entries) = Len(a) + Len(b)
        /\ \A k \in 1..Len(a) + Len(b) :
              entries[k] = IF k <= Len(a) THEN a[k] ELSE b[k - Len(a)]
    <3>1. a \in Seq(Entry) /\ b \in Seq(Entry)
      BY <2>2, <2>4
    <3> QED  BY <2>5, <3>1, ConcatProperties
  <2>7. Len(entries) = q.prev + n
    BY <1>2, <1>5, <2>2, <2>4, <2>6
  <2>8. entries \in Log
    BY <1>2, <2>6, <2>7 DEF Log
  <2>9. ASSUME NEW m \in 1..from - 1
        PROVE  entries[m] = l[m]
    <3>1. m \in Nat /\ 1 <= m /\ m <= Len(a) /\ Len(a) \in Nat
      BY <1>5, <2>2
    <3>2. Len(b) \in Nat
      BY <2>4, LenProperties
    <3>3. m \in 1..Len(a) + Len(b)
      BY <3>1, <3>2
    <3> QED  BY <2>2, <2>6, <3>1, <3>3
  <2>10. ASSUME NEW m \in from..q.prev + n
         PROVE  entries[m] = q.entries[m - q.prev]
    <3>0. /\ Len(a) = from - 1 /\ Len(b) = n - (from - q.prev) + 1
          /\ from \in Nat /\ from >= 1 /\ q.prev \in Nat /\ n \in Nat
      BY <1>2, <1>5, <2>2, <2>4
    <3>1. /\ m \in 1..Len(a) + Len(b) /\ ~(m <= Len(a))
          /\ m - Len(a) \in 1..n - (from - q.prev) + 1
          /\ (from - q.prev) + (m - Len(a)) - 1 = m - q.prev
      BY <3>0
    <3>2. entries[m] = b[m - Len(a)]
      BY <2>6, <3>1
    <3> QED  BY <2>4, <3>1, <3>2
  <2>11. Taken(l, q, entries)
    <3>1. End(q) = q.prev + n /\ from - 1 < q.prev + n
      BY <1>2, <1>5, <1>7 DEF End, n
    <3>2. (from - 1) + 1 = from
      BY <1>5
    <3> QED  BY <1>5, <2>7, <2>9, <2>10, <3>1, <3>2 DEF Taken, At
  <2> QED  BY <2>8, <2>11
<1>8. /\ entries \in Log
      /\ \/ entries = l /\ Skipped(entries, q) = n
         \/ Taken(l, q, entries)
  <2>1. CASE ~changes
    <3>1. entries = l
      BY <2>1
    <3>2. Skipped(l, q) = n
      BY <1>2, <1>3, <1>5, <2>1
    <3> QED  BY <1>1, <3>1, <3>2
  <2> QED  BY <1>7, <2>1
<1> HIDE DEF entries
<1>9. kept \in Index
  BY <1>1, <1>5 DEF Index, TypeInv, TypeOK
<1>10. Larger(kept, CommitTarget(q)) \in Index
  BY <1>2, <1>9 DEF Larger, CommitTarget, Smaller, Index, n
<1>11. quick' \in [Server -> Index]
  BY <1>6, <1>10 DEF TypeInv, TypeOK
<1>12. precommit' \in [Server -> Index]
  BY <1>1, <1>2, <1>6 DEF TypeInv, TypeOK, Larger, Index
<1>13. /\ entries \in Log /\ log' = [log EXCEPT ![j] = entries]
       /\ \/ entries = log[j] /\ Skipped(entries, q) = Len(q.entries)
         \/ Taken(log[j], q, entries)
  BY <1>6, <1>8 DEF l, n
<1> QED  BY <1>11, <1>12, <1>13

LEMMA ReplyType ==
    ASSUME ReplicationAssumption, TypeInv, NEW q \in reqs, NEW t \in Term,
           NEW ok \in BOOLEAN, NEW nx \in NextIndex, ok => nx > 0,
           Reply(q, t, ok, nx)
    PROVE  /\ reqs' = reqs \ {q}
           /\ resps' \subseteq Response
           /\ \A p \in resps' : p.accepted => p.next > 0
<1> DEFINE r == [src |-> q.dst, dst |-> q.src, term |-> t, accepted |-> ok,
                 next |-> nx, freed |-> FALSE]
<1>1. r \in Response /\ r.accepted = ok /\ r.next = nx
  BY DEF TypeInv, SmallRequest, Request, Response, NextIndex
<1>2. reqs' = reqs \ {q} /\ resps' \subseteq resps \union {r}
  BY DEF Reply
<1> HIDE DEF r
<1> QED  BY <1>1, <1>2 DEF TypeInv, TypeOK

LEMMA ChooseType ==
    ASSUME ReplicationAssumption, TypeInv, NEW j \in Server,
           log' \in [Server -> Log], Choose(j)
    PROVE  chosen' \subseteq Index \X Entry
<1>1. log'[j] \in Seq(Entry) /\ Len(log'[j]) \in Nat /\ Len(log'[j]) <= MaxLog
  BY LenProperties DEF Log
<1>2. ASSUME NEW k \in 1..Len(log'[j])
      PROVE  <<k, log'[j][k]>> \in Index \X Entry
  <2>1. k \in Index
    BY <1>1 DEF Index, ReplicationAssumption
  <2> QED  BY <1>1, <2>1, ElementOfSeq
<1> QED  BY <1>2 DEF Choose, TypeInv, TypeOK

LEMMA HandleReqType ==
    ASSUME ReplicationAssumption, TypeInv, NEW q \in reqs,
           HandleAppendEntries(q)
    PROVE  /\ TypeInv' /\ reqs' \subseteq reqs
           /\ late' = late
           /\ \E new \in Log :
                /\ log' = [log EXCEPT ![q.dst] = new]
                /\ \/ new = log[q.dst]
                   \/ LogOkay(log[q.dst], q) /\ Taken(log[q.dst], q, new)
<1> DEFINE j == q.dst
           current == q.term >= term[j]
           t == Larger(q.term, term[j])
           accept == current /\ LogOkay(log[j], q)
<1>1. /\ j \in Server /\ q.term \in Term /\ term[j] \in Term
      /\ q.prev \in Nat /\ Len(q.entries) \in Nat
      /\ q.prev + Len(q.entries) <= MaxLog /\ MaxLog \in Nat
      /\ log[j] \in Log /\ Len(log[j]) \in Nat /\ Len(log[j]) <= MaxLog
  <2>1. q \in SmallRequest /\ q \in Request /\ MaxLog \in Nat
    BY DEF TypeInv, SmallRequest, ReplicationAssumption
  <2>2. j \in Server /\ q.term \in Term /\ q.prev \in Nat /\ q.entries \in Seq(Entry)
    BY <2>1 DEF Request, Index
  <2>3. Len(q.entries) \in Nat /\ q.prev + Len(q.entries) <= MaxLog
    BY <2>1, <2>2, LenProperties DEF SmallRequest
  <2>4. term[j] \in Term /\ log[j] \in Log
    BY <2>2 DEF TypeInv, TypeOK
  <2>5. Len(log[j]) \in Nat /\ Len(log[j]) <= MaxLog
    BY <2>4, LenProperties DEF Log
  <2> QED  BY <2>1, <2>2, <2>3, <2>4, <2>5
<1>2. t \in Term
  BY <1>1 DEF Larger
<1>3. /\ term' = [term EXCEPT ![j] = t]
      /\ voted' = [voted EXCEPT ![j] = IF q.term > term[j] THEN FALSE ELSE @]
      /\ role' = [role EXCEPT ![j] = IF current THEN "follower" ELSE @]
      /\ next' = IF current THEN [next EXCEPT ![j] = Unset] ELSE next
      /\ UNCHANGED <<matched, pending, events, late>>
      /\ accept => /\ AppendEntries(j, q)
                   /\ Reply(q, t, TRUE, AnswerNext(log[j], q))
      /\ ~accept => /\ Reply(q, t, FALSE, Len(log[j]) + 1)
                    /\ UNCHANGED <<logs, quick>>
  BY DEF HandleAppendEntries
<1>4. AnswerNext(log[j], q) \in NextIndex /\ AnswerNext(log[j], q) > 0
      /\ Len(log[j]) + 1 \in NextIndex
  BY <1>1 DEF AnswerNext, NextIndex, Index
<1>5. /\ reqs' = reqs \ {q} /\ resps' \subseteq Response
      /\ \A p \in resps' : p.accepted => p.next > 0
  BY <1>2, <1>3, <1>4, ReplyType
<1>6. /\ \E new \in Log :
           /\ log' = [log EXCEPT ![j] = new]
           /\ \/ new = log[j]
              \/ LogOkay(log[j], q) /\ Taken(log[j], q, new)
      /\ precommit' \in [Server -> Index] /\ quick' \in [Server -> Index]
  <2>1. CASE accept
    BY <1>1, <1>3, <2>1, AppendEntriesType
  <2>2. CASE ~accept
    <3>1. log' = log /\ precommit' = precommit /\ quick' = quick
      BY <1>3, <2>2 DEF logs
    <3>2. log' = [log EXCEPT ![j] = log[j]]
      BY <3>1 DEF TypeInv
    <3> QED  BY <1>1, <3>1, <3>2 DEF TypeInv, TypeOK
  <2> QED  BY <2>1, <2>2
<1>7. log' \in [Server -> Log]
  BY <1>6 DEF TypeInv
<1>8. Unset \in [Server -> Index \union {MaxLog + 1}]
  BY DEF Unset, Index, ReplicationAssumption
<1>9. /\ term' \in [Server -> Term] /\ voted' \in [Server -> BOOLEAN]
      /\ role' \in [Server -> {"follower", "leader"}]
      /\ next' \in [Server -> [Server -> Index \union {MaxLog + 1}]]
  BY <1>2, <1>3, <1>8 DEF TypeInv, TypeOK
<1>10. late' = late /\ chosen' \subseteq Index \X Entry
  BY <1>1, <1>3, <1>7, ChooseType DEF HandleAppendEntries
<1>11. TypeInv'
  BY <1>3, <1>5, <1>6, <1>7, <1>9, <1>10 DEF TypeInv, TypeOK, Log, SmallRequest
<1> QED  BY <1>5, <1>6, <1>10, <1>11

-----------------------------------------------------------------------------
LEMMA InitTypeInv ==
    ASSUME ReplicationAssumption, Init
    PROVE  TypeInv
<1>1. 0 \in Term /\ 0 \in Index /\ 0 \in 0..MaxEvents
  BY DEF Term, Index, ReplicationAssumption
<1>2. << >> \in Log
  BY EmptySeq DEF Log, ReplicationAssumption
<1> QED  BY <1>1, <1>2 DEF Init, TypeInv, TypeOK, Log

LEMMA NextTypeInv ==
    ASSUME ReplicationAssumption, TypeInv, [Next]_vars
    PROVE  TypeInv'
<1>1. ASSUME NEW i \in Server, Campaign(i)
      PROVE  TypeInv'
  BY <1>1, CampaignType
<1>2. ASSUME NEW i \in Server, LearnTerm(i)
      PROVE  TypeInv'
  BY <1>2, LearnTermType
<1>3. ASSUME NEW i \in Server, ClientRequest(i)
      PROVE  TypeInv'
  BY <1>3, ClientRequestType
<1>4. ASSUME NEW i \in Server, Restart(i)
      PROVE  TypeInv'
  BY <1>4, RestartType
<1>5. ASSUME NEW i \in Server, NEW voters \in SUBSET Others(i), Elect(i, voters)
      PROVE  TypeInv'
  BY <1>5, ElectType
<1>6. ASSUME NEW i \in Server, NEW j \in Server,
             AppendEntriesInBg(i, j) \/ HeartbeatTimeout(i, j)
      PROVE  TypeInv'
  <2>1. RequestAppendEntries(i, j) /\ events' \in 0..MaxEvents
    BY <1>6 DEF AppendEntriesInBg, HeartbeatTimeout, Event, TypeInv, TypeOK,
       ReplicationAssumption
  <2> QED  BY <2>1, RequestAppendEntriesType
<1>7. ASSUME NEW i \in Server, NEW j \in Server, Reconnect(i, j)
      PROVE  TypeInv'
  BY <1>7, ReconnectType
<1>8. ASSUME NEW i \in Server, NEW j \in Server, RecreateRpc(i, j)
      PROVE  TypeInv'
  BY <1>8, RecreateRpcType
<1>9. ASSUME NEW q \in reqs, HandleAppendEntries(q)
      PROVE  TypeInv'
  BY <1>9, HandleReqType
<1>10. ASSUME NEW p \in resps, FreePeer(p)
       PROVE  TypeInv'
  BY <1>10, FreePeerType
<1>11. ASSUME NEW p \in resps, HandleAppendEntriesResp(p)
       PROVE  TypeInv'
  BY <1>11, HandleRespType
<1>12. CASE UNCHANGED vars
  BY <1>12 DEF vars, state, logs, peers, network, history, TypeInv, TypeOK, Log,
     SmallRequest
<1> QED  BY <1>1, <1>2, <1>3, <1>4, <1>5, <1>6, <1>7, <1>8, <1>9, <1>10, <1>11,
            <1>12 DEF Next

\* Every variable keeps its type: next_log_idx_ and matched_idx_ stay within
\* the log's bounds whatever the peers answer, and the commit index is one
\* that get_expected_committed_log_idx finds.
THEOREM ReplicationTypes == Spec => []TypeOK
<1>1. Init => TypeInv
  BY InitTypeInv, ReplicationAssumption
<1>2. TypeInv /\ [Next]_vars => TypeInv'
  BY NextTypeInv, ReplicationAssumption
<1>3. TypeInv => TypeOK
  BY DEF TypeInv
<1> QED  BY <1>1, <1>2, <1>3, PTL DEF Spec

-----------------------------------------------------------------------------
(***************************************************************************)
(* The logs match, for every number of servers, terms, entries and         *)
(* failures, up to the entries of settled terms.                           *)
(*                                                                         *)
(* A log and the entries of a request are both pieces of some leader's     *)
(* log.  Let T be a settled term.  Pieces that have an entry of the same   *)
(* term at one index, T at most, agree up to there (Match).  What a        *)
(* follower makes of its log and a request keeps that, because the terms   *)
(* within a piece do not decrease (TermsOrdered).  A leader's new entry    *)
(* keeps it because no other entry of its term is that far out             *)
(* (OwnEntries), for which a term must have one leader: entries and        *)
(* leaders are of terms a majority has voted in.  An entry of a term that  *)
(* is not settled is of a term after T and never matters (Strays).         *)
(***************************************************************************)
Match(T, a, b) ==
    \A k \in Inside(a) \cap Inside(b) :
        At(a, k).term = At(b, k).term /\ At(a, k).term <= T =>
            \A m \in a.prev..k :
                m >= b.prev =>
                    /\ TermIn(a, m) = TermIn(b, m)
                    /\ m > a.prev /\ m > b.prev => At(a, m) = At(b, m)

PiecesOf(logsOf, requests) == {Whole(logsOf[i]) : i \in Server} \union requests
Pieces == PiecesOf(log, reqs)

\* the servers that have voted in term t, or are past it
Voted(t) == {j \in Server : term[j] > t \/ (term[j] = t /\ voted[j])}
Decided(t) == t # 0 /\ 2 * Cardinality(Voted(t)) > Cardinality(Server)

LeadersElected == \A i \in Server : role[i] = "leader" => Decided(term[i])
OneLeader ==
    \A i, j \in Server :
        role[i] = "leader" /\ role[j] = "leader" /\ term[i] = term[j] => i = j

\* the terms of a do not decrease, and end at t
Ordered(a, t) ==
    \A k \in Inside(a) :
        /\ At(a, k).term <= t
        /\ \A m \in a.prev..k : TermIn(a, m) <= At(a, k).term
TermsOrdered ==
    /\ \A i \in Server : Ordered(Whole(log[i]), term[i])
    /\ \A q \in reqs : Ordered(q, q.term)

ElectInv == TypeInv /\ LeadersElected /\ OneLeader /\ TermsOrdered

PiecesMatch(T) == \A a, b \in Pieces : Match(T, a, b)
EntriesElected(T) ==
    \A a \in Pieces : \A k \in Inside(a) :
        At(a, k).term <= T => Decided(At(a, k).term)
OwnEntries(T) ==
    \A i \in Server : role[i] = "leader" /\ term[i] <= T =>
        \A a \in Pieces : \A k \in Inside(a) :
            At(a, k).term = term[i] => k <= Len(log[i])
TermInv(T) == PiecesMatch(T) /\ EntriesElected(T) /\ OwnEntries(T)

LogInv == ElectInv /\ \A T \in Term : Settled(T) => TermInv(T)

-----------------------------------------------------------------------------
(* Pieces.                                                                 *)

LEMMA PieceType ==
    ASSUME NEW lg \in [Server -> Log], NEW rq \in SUBSET SmallRequest,
           NEW a \in PiecesOf(lg, rq)
    PROVE  Piece(a)
<1>1. CASE a \in rq
  BY <1>1 DEF Piece, SmallRequest, Request, Index
<1>2. ASSUME NEW i \in Server, a = Whole(lg[i])
      PROVE  Piece(a)
  <2>1. lg[i] \in Seq(Entry)
    BY DEF Log
  <2> QED  BY <1>2, <2>1, WholePiece
<1> QED  BY <1>1, <1>2 DEF PiecesOf

LEMMA PieceInside ==
    ASSUME NEW a, Piece(a)
    PROVE  /\ End(a) \in Nat /\ End(a) >= a.prev
           /\ \A k \in Inside(a) : k \in Nat /\ k > a.prev /\ At(a, k) \in Entry
           /\ \A k \in Inside(a) : \A m \in a.prev..k : m = a.prev \/ m \in Inside(a)
<1>1. /\ a.prev \in Nat /\ Len(a.entries) \in Nat
      /\ \A k \in 1..Len(a.entries) : a.entries[k] \in Entry
  BY LenProperties, ElementOfSeq DEF Piece
<1> QED  BY <1>1 DEF Inside, End, At

LEMMA MatchSame == ASSUME NEW T, NEW a PROVE Match(T, a, a)
BY DEF Match

LEMMA MatchSym ==
    ASSUME NEW T, NEW a, NEW b, Piece(a), Piece(b), Match(T, a, b)
    PROVE  Match(T, b, a)
<1> SUFFICES ASSUME NEW k \in Inside(a) \cap Inside(b),
                    At(a, k).term = At(b, k).term, At(a, k).term <= T,
                    NEW m \in b.prev..k, m >= a.prev
             PROVE  /\ TermIn(a, m) = TermIn(b, m)
                    /\ m > a.prev /\ m > b.prev => At(a, m) = At(b, m)
  BY DEF Match
<1>1. a.prev \in Nat /\ b.prev \in Nat /\ k \in Nat
  BY PieceInside DEF Piece
<1>2. m \in a.prev..k /\ m >= b.prev
  BY <1>1
<1> QED  BY <1>2 DEF Match

\* A piece of a piece matches what the whole matches.
LEMMA PartMatch ==
    ASSUME NEW T, NEW a, NEW b, NEW c, Piece(a), Piece(b), Piece(c),
           IsPart(a, b), Match(T, b, c)
    PROVE  Match(T, a, c)
<1> SUFFICES ASSUME NEW k \in Inside(a) \cap Inside(c),
                    At(a, k).term = At(c, k).term, At(a, k).term <= T,
                    NEW m \in a.prev..k, m >= c.prev
             PROVE  /\ TermIn(a, m) = TermIn(c, m)
                    /\ m > a.prev /\ m > c.prev => At(a, m) = At(c, m)
  BY DEF Match
<1>1. /\ k \in Inside(b) /\ At(a, k) = At(b, k) /\ a.prev >= b.prev
      /\ TermIn(b, a.prev) = a.prevTerm
  BY DEF IsPart
<1>2. a.prev \in Nat /\ b.prev \in Nat /\ c.prev \in Nat /\ k \in Nat
  BY PieceInside DEF Piece
<1>3. m \in b.prev..k
  BY <1>1, <1>2
<1>4. /\ TermIn(b, m) = TermIn(c, m)
      /\ m > b.prev /\ m > c.prev => At(b, m) = At(c, m)
  BY <1>1, <1>3 DEF Match
<1>5. CASE m = a.prev
  BY <1>1, <1>2, <1>4, <1>5 DEF TermIn
<1>6. CASE m # a.prev
  <2>1. m \in Inside(a)
    BY <1>6, PieceInside
  <2>2. At(a, m) = At(b, m) /\ m > b.prev
    BY <1>1, <1>2, <1>6, <2>1 DEF IsPart
  <2> QED  BY <1>2, <1>4, <1>6, <2>2 DEF TermIn
<1> QED  BY <1>5, <1>6

\* what a log has, it has in every log that extends it
LEMMA WholeExtends ==
    ASSUME NEW l \in Log, NEW new \in Log, Extends(new, l)
    PROVE  /\ Piece(Whole(l)) /\ Piece(Whole(new))
           /\ \A k \in Inside(Whole(l)) :
                k \in Inside(Whole(new)) /\ At(Whole(new), k) = At(Whole(l), k)
           /\ \A m \in 0..Len(l) : TermIn(Whole(new), m) = TermIn(Whole(l), m)
<1>1. /\ l \in Seq(Entry) /\ new \in Seq(Entry)
      /\ Len(l) \in Nat /\ Len(new) \in Nat
  BY LenProperties DEF Log
<1>2. ASSUME NEW k \in Inside(Whole(l))
      PROVE  k \in Inside(Whole(new)) /\ At(Whole(new), k) = At(Whole(l), k)
  <2>1. k \in 1..Len(l) /\ k \in 1..Len(new) /\ new[k] = l[k]
    BY <1>1, WholePiece DEF Extends
  <2> QED  BY <1>1, <2>1, WholePiece
<1>3. ASSUME NEW m \in 0..Len(l)
      PROVE  TermIn(Whole(new), m) = TermIn(Whole(l), m)
  <2>1. m \in 0..Len(new) /\ (m # 0 => m \in 1..Len(l) /\ m \in 1..Len(new))
    BY <1>1 DEF Extends
  <2>2. TermAt(new, m) = TermAt(l, m)
    <3>1. CASE m = 0
      BY <1>1, <3>1 DEF TermAt
    <3>2. CASE m # 0
      BY <2>1, <3>2 DEF TermAt, Extends
    <3> QED  BY <3>1, <3>2
  <2> QED  BY <1>1, <2>1, <2>2, WholePiece
<1> QED  BY <1>1, <1>2, <1>3, WholePiece

LEMMA PartExtends ==
    ASSUME NEW l \in Log, NEW new \in Log, Extends(new, l),
           NEW a, Piece(a), IsPart(a, Whole(l))
    PROVE  IsPart(a, Whole(new))
<1> SUFFICES ASSUME NEW k \in Inside(a)
             PROVE  /\ k \in Inside(Whole(new)) /\ At(a, k) = At(Whole(new), k)
                    /\ a.prev >= Whole(new).prev
                    /\ TermIn(Whole(new), a.prev) = a.prevTerm
  BY DEF IsPart
<1>1. /\ k \in Inside(Whole(l)) /\ At(a, k) = At(Whole(l), k)
      /\ TermIn(Whole(l), a.prev) = a.prevTerm
  BY DEF IsPart
<1>2. l \in Seq(Entry) /\ Len(l) \in Nat /\ a.prev \in Nat /\ k > a.prev /\ k \in Nat
  BY LenProperties, PieceInside DEF Log, Piece
<1>3. k \in 1..Len(l)
  BY <1>1, <1>2, WholePiece
<1>4. a.prev \in 0..Len(l) /\ Whole(new).prev = 0
  BY <1>2, <1>3 DEF Whole
<1> QED  BY <1>1, <1>2, <1>4, WholeExtends

\* An entry that no piece has an equal of, so far out, may be appended.
LEMMA AppendMatch ==
    ASSUME NEW T, NEW l \in Seq(Entry), NEW e \in Entry, NEW b, Piece(b),
           Match(T, Whole(l), b),
           \A k \in Inside(b) : At(b, k).term = e.term => k <= Len(l)
    PROVE  Match(T, Whole(Append(l, e)), b)
<1> DEFINE new == Append(l, e)
<1>1. /\ new \in Seq(Entry) /\ Len(new) = Len(l) + 1 /\ Len(l) \in Nat
      /\ \A k \in 1..Len(l) : new[k] = l[k]
      /\ new[Len(l) + 1] = e
  BY AppendProperties, LenProperties
<1> HIDE DEF new
<1> SUFFICES ASSUME NEW k \in Inside(Whole(new)) \cap Inside(b),
                    At(Whole(new), k).term = At(b, k).term,
                    At(Whole(new), k).term <= T,
                    NEW m \in Whole(new).prev..k, m >= b.prev
             PROVE  /\ TermIn(Whole(new), m) = TermIn(b, m)
                    /\ m > Whole(new).prev /\ m > b.prev =>
                         At(Whole(new), m) = At(b, m)
  BY DEF Match, new
<1>2. k \in 1..Len(l) + 1 /\ m \in 0..k /\ Whole(new).prev = 0 /\ Whole(l).prev = 0
  BY <1>1, WholePiece DEF Whole
<1>3. k # Len(l) + 1
  <2> SUFFICES ASSUME k = Len(l) + 1
               PROVE  FALSE
    OBVIOUS
  <2>1. At(Whole(new), k) = e
    BY <1>1, <1>2, WholePiece
  <2> QED  BY <1>1, <2>1
<1>4. k \in 1..Len(l) /\ m \in 0..Len(l) /\ Len(new) = Len(l) + 1
  BY <1>1, <1>2, <1>3
<1>5. \A x \in 1..Len(l) : At(Whole(new), x) = At(Whole(l), x)
  BY <1>1, WholePiece
<1>6. TermIn(Whole(new), m) = TermIn(Whole(l), m)
  BY <1>1, <1>4, <1>5 DEF TermIn, Whole
<1>7. k \in Inside(Whole(l)) /\ At(Whole(l), k).term = At(b, k).term
      /\ At(Whole(l), k).term <= T
  BY <1>4, <1>5, WholePiece
<1>8. /\ TermIn(Whole(l), m) = TermIn(b, m)
      /\ m > 0 /\ m > b.prev => At(Whole(l), m) = At(b, m)
  BY <1>2, <1>7 DEF Match
<1> QED  BY <1>2, <1>4, <1>5, <1>6, <1>8

\* Entries of later terms than T may be.
LEMMA StrayMatch ==
    ASSUME NEW T \in Nat, NEW l \in Log, NEW new \in Log, NEW b, Piece(b),
           Match(T, Whole(l), b), Extends(new, l),
           \A m \in Len(l) + 1 .. Len(new) : new[m].term > T
    PROVE  Match(T, Whole(new), b)
<1> SUFFICES ASSUME NEW k \in Inside(Whole(new)) \cap Inside(b),
                    At(Whole(new), k).term = At(b, k).term,
                    At(Whole(new), k).term <= T,
                    NEW m \in Whole(new).prev..k, m >= b.prev
             PROVE  /\ TermIn(Whole(new), m) = TermIn(b, m)
                    /\ m > Whole(new).prev /\ m > b.prev =>
                         At(Whole(new), m) = At(b, m)
  BY DEF Match
<1>1. /\ l \in Seq(Entry) /\ new \in Seq(Entry)
      /\ Len(l) \in Nat /\ Len(new) \in Nat
      /\ Whole(l).prev = 0 /\ Whole(new).prev = 0
  BY LenProperties DEF Log, Whole
<1>2. k \in 1..Len(new) /\ At(Whole(new), k) = new[k] /\ new[k].term \in Nat
  <2>1. k \in 1..Len(new) /\ At(Whole(new), k) = new[k]
    BY <1>1, WholePiece
  <2>2. new[k] \in Entry
    BY <1>1, <2>1, ElementOfSeq
  <2> QED  BY <2>1, <2>2 DEF Entry, Term
<1>3. k \in 1..Len(l)
  <2>1. ~(k \in Len(l) + 1 .. Len(new))
    BY <1>2
  <2> QED  BY <1>1, <1>2, <2>1
<1>4. k \in Inside(Whole(l)) /\ At(Whole(l), k) = At(Whole(new), k)
  <2>1. k \in Inside(Whole(l))
    BY <1>1, <1>3, WholePiece
  <2> QED  BY <2>1, WholeExtends
<1>5. m \in 0..k /\ m \in 0..Len(l) /\ (m > 0 => m \in Inside(Whole(l)))
  <2>1. m \in 0..k /\ m \in 0..Len(l) /\ (m > 0 => m \in 1..Len(l))
    BY <1>1, <1>3
  <2> QED  BY <1>1, <2>1, WholePiece
<1>6. /\ TermIn(Whole(l), m) = TermIn(b, m)
      /\ m > 0 /\ m > b.prev => At(Whole(l), m) = At(b, m)
  BY <1>1, <1>4, <1>5 DEF Match
<1> QED  BY <1>1, <1>5, <1>6, WholeExtends

\* Requests are copied, and keep what they have.
LEMMA PartSelf ==
    ASSUME NEW a, Piece(a), NEW b, b.prev = a.prev, b.prevTerm = a.prevTerm,
           b.entries = a.entries
    PROVE  IsPart(b, a)
<1>1. a.prev \in Nat
  BY DEF Piece
<1> QED  BY <1>1 DEF IsPart, TermIn, Inside, End, At

\* What a follower makes of its log and a request, both of which match b.
LEMMA TakenMatch ==
    ASSUME NEW T \in Nat, NEW l \in Log, NEW q \in SmallRequest, NEW new \in Log,
           NEW b, Piece(b), ReplicationAssumption, LogOkay(l, q), Taken(l, q, new),
           Ordered(q, q.term),
           Match(T, Whole(l), q), Match(T, Whole(l), b), Match(T, q, b)
    PROVE  Match(T, Whole(new), b)
<1> DEFINE kept == q.prev + Skipped(l, q)
<1>1. /\ l \in Seq(Entry) /\ new \in Seq(Entry) /\ Len(l) \in Nat
      /\ Piece(q) /\ q.prev \in Nat /\ End(q) \in Nat /\ b.prev \in Nat
      /\ Whole(l).prev = 0 /\ Whole(new).prev = 0
  <2>1. l \in Seq(Entry) /\ new \in Seq(Entry)
    BY DEF Log
  <2>2. Piece(q) /\ q.prev \in Nat /\ b.prev \in Nat
    BY DEF Piece, SmallRequest, Request, Index
  <2> QED  BY <2>1, <2>2, LenProperties, PieceInside DEF Whole
<1>2. /\ Skipped(l, q) \in Nat
      /\ \A k \in 1..Skipped(l, q) : q.prev + k <= Len(l)
                                     /\ l[q.prev + k].term = q.entries[k].term
  <2>1. Len(q.entries) \in Nat
    BY <1>1, LenProperties DEF Piece
  <2> QED  BY <2>1, SkippedFits
<1>3. /\ kept \in Nat /\ kept >= q.prev
      /\ kept <= Len(l) /\ kept < End(q) /\ Len(new) = End(q)
      /\ \A m \in 1..kept : new[m] = l[m]
      /\ \A m \in kept + 1 .. End(q) : new[m] = At(q, m)
  BY <1>1, <1>2 DEF Taken
<1>4. \A m \in q.prev + 1 .. kept : m \in Inside(q) /\ l[m].term = At(q, m).term
  <2> SUFFICES ASSUME NEW m \in q.prev + 1 .. kept
               PROVE  m \in Inside(q) /\ l[m].term = At(q, m).term
    OBVIOUS
  <2>1. m - q.prev \in 1..Skipped(l, q) /\ q.prev + (m - q.prev) = m
    BY <1>1, <1>2
  <2> QED  BY <1>1, <1>2, <1>3, <2>1 DEF Inside, At
<1> HIDE DEF kept
<1>5. ASSUME NEW m \in q.prev + 1 .. kept, At(q, m).term <= T
      PROVE  l[m] = At(q, m)
  <2>1. m \in 1..Len(l) /\ m > 0 /\ m > q.prev /\ m >= q.prev /\ m \in 0..m
    BY <1>1, <1>3
  <2>2. m \in Inside(Whole(l)) \cap Inside(q) /\ At(Whole(l), m) = l[m]
    BY <1>1, <1>4, <2>1, WholePiece
  <2> QED  BY <1>1, <1>4, <1>5, <2>1, <2>2 DEF Match
<1>6. \A m \in 1..q.prev : m \in 1..Len(l) /\ m \in 1..Len(new) /\ new[m] = l[m]
  BY <1>1, <1>3
<1>7. ASSUME NEW m \in q.prev + 1 .. End(q)
      PROVE  /\ m \in 1..Len(new) /\ m \in Inside(q)
             /\ new[m].term = At(q, m).term
             /\ At(q, m).term <= T => new[m] = At(q, m)
  <2>1. m \in Inside(q) /\ m \in 1..Len(new)
    BY <1>1, <1>3 DEF Inside
  <2>2. CASE m <= kept
    <3>1. m \in q.prev + 1 .. kept /\ m \in 1..kept
      BY <1>1, <1>3, <2>2
    <3> QED  BY <1>3, <1>4, <1>5, <2>1, <3>1
  <2>3. CASE ~(m <= kept)
    <3>1. m \in kept + 1 .. End(q)
      BY <1>1, <1>3, <2>3
    <3> QED  BY <1>3, <2>1, <3>1
  <2> QED  BY <2>2, <2>3
<1>8. TermAt(l, q.prev) = q.prevTerm /\ q.prev <= Len(l) /\ q.prev <= Len(new)
  BY <1>1, <1>3 DEF LogOkay
\* up to q.prev, new is l and matches b because l does
<1>9. ASSUME NEW k \in 1..q.prev, k \in Inside(b), l[k].term = At(b, k).term,
             l[k].term <= T, NEW m \in 0..k, m >= b.prev
      PROVE  /\ TermAt(new, m) = TermIn(b, m)
             /\ m > 0 /\ m > b.prev => new[m] = At(b, m)
  <2>1. k \in 1..Len(l) /\ m \in 0..Len(l) /\ m \in 0..Len(new)
    BY <1>1, <1>8, <1>9
  <2>2. k \in Inside(Whole(l)) /\ At(Whole(l), k) = l[k]
    BY <1>1, <2>1, WholePiece
  <2>3. /\ TermIn(Whole(l), m) = TermIn(b, m)
        /\ m > 0 /\ m > b.prev => At(Whole(l), m) = At(b, m)
    BY <1>1, <1>9, <2>2 DEF Match
  <2>4. TermAt(new, m) = TermAt(l, m) /\ (m > 0 => new[m] = l[m])
    BY <1>1, <1>6, <2>1 DEF TermAt
  <2>5. TermIn(Whole(l), m) = TermAt(l, m) /\ (m > 0 => At(Whole(l), m) = l[m])
    BY <1>1, <2>1, WholePiece
  <2> QED  BY <2>3, <2>4, <2>5
<1>10. ASSUME NEW k \in 1..Len(new), k \in Inside(b), new[k].term = At(b, k).term,
              new[k].term <= T, NEW m \in 0..k, m >= b.prev
       PROVE  /\ TermAt(new, m) = TermIn(b, m)
              /\ m > 0 /\ m > b.prev => new[m] = At(b, m)
  <2>1. CASE k <= q.prev
    BY <1>1, <1>6, <1>9, <1>10, <2>1
  <2>2. CASE ~(k <= q.prev)
    <3>1. /\ k \in q.prev + 1 .. End(q) /\ k \in Inside(q)
          /\ At(q, k).term = At(b, k).term /\ At(q, k).term <= T
      <4>1. k \in q.prev + 1 .. End(q)
        BY <1>1, <1>3, <2>2
      <4> QED  BY <1>7, <1>10, <4>1
    \* nothing of the request before k has a later term
    <3>0. \A x \in q.prev..k : TermIn(q, x) <= T
      <4> SUFFICES ASSUME NEW x \in q.prev..k
                   PROVE  TermIn(q, x) <= T
        OBVIOUS
      <4>1. TermIn(q, x) <= At(q, k).term
        BY <3>1 DEF Ordered
      <4>2. TermIn(q, x) \in Int /\ At(q, k).term \in Int
        <5>1. At(q, k).term \in Int /\ q.prevTerm \in Int
          BY <1>1, <3>1, PieceInside DEF Entry, Term, SmallRequest, Request
        <5>2. x # q.prev => x \in Inside(q)
          BY <1>1, <3>1, PieceInside
        <5> QED  BY <1>1, <5>1, <5>2, PieceInside DEF TermIn, Entry, Term
      <4> QED  BY <3>1, <4>1, <4>2
    <3>2. CASE m >= q.prev
      <4>1. m \in q.prev..k
        BY <1>1, <3>2
      <4>2. /\ TermIn(q, m) = TermIn(b, m)
            /\ m > q.prev /\ m > b.prev => At(q, m) = At(b, m)
        BY <1>10, <3>1, <4>1 DEF Match
      <4>3. CASE m > q.prev
        <5>1. m \in q.prev + 1 .. End(q) /\ m # q.prev /\ m \in 1..Len(new)
          BY <1>1, <1>3, <3>1, <4>1, <4>3
        <5>2. TermIn(q, m) = At(q, m).term /\ At(q, m).term <= T
          BY <3>0, <4>1, <5>1 DEF TermIn
        <5>3. new[m] = At(q, m)
          BY <1>7, <5>1, <5>2
        <5> QED  BY <1>10, <4>2, <4>3, <5>1, <5>2, <5>3 DEF TermAt
      <4>4. CASE m = q.prev
        <5>1. TermIn(q, m) = q.prevTerm /\ TermAt(l, m) = q.prevTerm
          BY <1>8, <4>4 DEF TermIn
        <5>2. TermAt(new, m) = TermAt(l, m) /\ (m > 0 => new[m] = l[m])
          BY <1>1, <1>6, <1>8, <4>4 DEF TermAt
        <5>3. ASSUME m > 0, m > b.prev
              PROVE  new[m] = At(b, m)
          <6>1. m \in 1..q.prev /\ m \in Inside(b) /\ m \in 0..m
            BY <1>1, <1>10, <4>4, <5>3, PieceInside
          <6>2. l[m].term = At(b, m).term /\ l[m].term <= T
            <7>1. TermIn(b, m) = At(b, m).term
              BY <1>1, <5>3 DEF TermIn
            <7>2. TermAt(l, m) = l[m].term
              BY <1>6, <6>1 DEF TermAt
            <7>3. TermIn(q, m) <= T
              BY <3>0, <4>1
            <7> QED  BY <4>2, <5>1, <7>1, <7>2, <7>3
          <6> QED  BY <1>9, <1>10, <5>3, <6>1, <6>2
        <5> QED  BY <4>2, <5>1, <5>2, <5>3
      <4> QED  BY <1>1, <3>2, <4>3, <4>4
    \* below the request: b reaches down past q.prev, where it has the term
    \* the request names
    <3>3. CASE ~(m >= q.prev)
      <4>1. q.prev \in 1..q.prev /\ q.prev > b.prev /\ q.prev \in q.prev..k
            /\ q.prev >= b.prev /\ m \in 0..q.prev
        BY <1>1, <1>10, <2>2, <3>3
      <4>2. q.prev \in Inside(b)
        <5>1. q.prev \in b.prev..k /\ q.prev # b.prev
          BY <1>1, <4>1
        <5> QED  BY <1>10, <5>1, PieceInside
      <4>3. TermIn(q, q.prev) = TermIn(b, q.prev) /\ TermIn(q, q.prev) <= T
        BY <1>10, <3>0, <3>1, <4>1 DEF Match
      <4>4. l[q.prev].term = At(b, q.prev).term /\ l[q.prev].term <= T
        <5>1. TermIn(b, q.prev) = At(b, q.prev).term
          BY <1>1, <4>1 DEF TermIn
        <5>2. TermAt(l, q.prev) = l[q.prev].term
          BY <1>6, <4>1 DEF TermAt
        <5>3. TermIn(q, q.prev) = q.prevTerm
          BY DEF TermIn
        <5> QED  BY <1>8, <4>3, <5>1, <5>2, <5>3
      <4> QED  BY <1>9, <1>10, <4>1, <4>2, <4>4
    <3> QED  BY <3>2, <3>3
  <2> QED  BY <2>1, <2>2
<1>11. /\ Inside(Whole(new)) = 1..Len(new)
       /\ \A k \in 1..Len(new) : At(Whole(new), k) = new[k]
       /\ \A k \in 0..Len(new) : TermIn(Whole(new), k) = TermAt(new, k)
  BY <1>1, WholePiece
<1>12. ASSUME NEW k \in Inside(Whole(new)) \cap Inside(b),
              At(Whole(new), k).term = At(b, k).term,
              At(Whole(new), k).term <= T,
              NEW m \in Whole(new).prev..k, m >= b.prev
       PROVE  /\ TermIn(Whole(new), m) = TermIn(b, m)
              /\ m > Whole(new).prev /\ m > b.prev => At(Whole(new), m) = At(b, m)
  <2>1. k \in 1..Len(new) /\ m \in 0..k /\ new[k].term = At(b, k).term
        /\ new[k].term <= T
    BY <1>1, <1>11, <1>12
  <2>2. m \in 0..Len(new) /\ (m > 0 => m \in 1..Len(new))
    BY <2>1
  <2>3. /\ TermAt(new, m) = TermIn(b, m)
        /\ m > 0 /\ m > b.prev => new[m] = At(b, m)
    BY <1>10, <1>12, <2>1
  <2> QED  BY <1>1, <1>11, <2>2, <2>3
<1> QED  BY <1>12 DEF Match

-----------------------------------------------------------------------------
(* Sets of pieces.                                                         *)

\* Requests made of what matches, match.
LEMMA PartsMatch ==
    ASSUME NEW T, NEW lg \in [Server -> Log], NEW rq \in SUBSET SmallRequest,
           NEW new \in SUBSET SmallRequest,
           \A a, b \in PiecesOf(lg, rq) : Match(T, a, b),
           \A r \in new : \E b \in PiecesOf(lg, rq) : IsPart(r, b)
    PROVE  \A a, b \in PiecesOf(lg, new) : Match(T, a, b)
<1>1. \A a \in PiecesOf(lg, new) : \E b \in PiecesOf(lg, rq) : IsPart(a, b)
  <2>1. ASSUME NEW i \in Server
        PROVE  IsPart(Whole(lg[i]), Whole(lg[i]))
    <3>1. lg[i] \in Seq(Entry)
      BY DEF Log
    <3> QED  BY <3>1 DEF IsPart, TermIn, Whole
  <2> QED  BY <2>1 DEF PiecesOf
<1> SUFFICES ASSUME NEW a \in PiecesOf(lg, new), NEW b \in PiecesOf(lg, new)
             PROVE  Match(T, a, b)
  OBVIOUS
<1>2. PICK c \in PiecesOf(lg, rq) : IsPart(a, c)
  BY <1>1
<1>3. PICK d \in PiecesOf(lg, rq) : IsPart(b, d)
  BY <1>1
<1>4. Piece(a) /\ Piece(b) /\ Piece(c) /\ Piece(d) /\ Match(T, c, d)
  BY PieceType
<1>5. Match(T, a, d)
  BY <1>2, <1>4, PartMatch
<1>6. Match(T, d, a)
  BY <1>4, <1>5, MatchSym
<1>7. Match(T, b, a)
  BY <1>3, <1>4, <1>6, PartMatch
<1> QED  BY <1>4, <1>7, MatchSym

\* One log changes, into one that matches every piece.
LEMMA LogMatches ==
    ASSUME TypeInv, NEW T, PiecesMatch(T), NEW i \in Server, NEW new \in Log,
           log' = [log EXCEPT ![i] = new],
           \A b \in Pieces : Match(T, Whole(new), b)
    PROVE  \A a, b \in PiecesOf(log', reqs) : Match(T, a, b)
<1> SUFFICES ASSUME NEW a \in PiecesOf(log', reqs), NEW b \in PiecesOf(log', reqs)
             PROVE  Match(T, a, b)
  OBVIOUS
<1>1. log \in [Server -> Log] /\ reqs \in SUBSET SmallRequest
  BY DEF TypeInv
<1>2. log' \in [Server -> Log]
  BY <1>1
<1>3. \A c \in PiecesOf(log', reqs) : c = Whole(new) \/ c \in Pieces
  BY <1>1 DEF PiecesOf, Pieces
<1>4. Piece(a) /\ Piece(b)
  BY <1>1, <1>2, PieceType
<1>5. CASE a = Whole(new) /\ b = Whole(new)
  BY <1>5, MatchSame
<1>6. CASE a = Whole(new) /\ b \in Pieces
  BY <1>6
<1>7. CASE a \in Pieces /\ b = Whole(new)
  BY <1>4, <1>7, MatchSym
<1>8. CASE a \in Pieces /\ b \in Pieces
  BY <1>8 DEF PiecesMatch
<1> QED  BY <1>3, <1>5, <1>6, <1>7, <1>8

-----------------------------------------------------------------------------
(* Terms within pieces.                                                    *)

LEMMA PieceTerms ==
    ASSUME NEW a, Piece(a), NEW k \in Inside(a)
    PROVE  At(a, k).term \in Nat
<1>1. At(a, k) \in Entry
  BY PieceInside
<1> QED  BY <1>1 DEF Entry, Term

LEMMA OrderedLater ==
    ASSUME NEW a, Piece(a), NEW t \in Nat, NEW u \in Nat, t <= u, Ordered(a, t)
    PROVE  Ordered(a, u)
<1>1. \A k \in Inside(a) : At(a, k).term \in Nat
  BY PieceTerms
<1> QED  BY <1>1 DEF Ordered

LEMMA OrderedPart ==
    ASSUME NEW a, NEW b, Piece(a), Piece(b), IsPart(a, b),
           NEW t \in Nat, Ordered(b, t)
    PROVE  Ordered(a, t)
<1> SUFFICES ASSUME NEW k \in Inside(a)
             PROVE  /\ At(a, k).term <= t
                    /\ \A m \in a.prev..k : TermIn(a, m) <= At(a, k).term
  BY DEF Ordered
<1>1. /\ k \in Inside(b) /\ At(a, k) = At(b, k)
      /\ a.prev >= b.prev /\ TermIn(b, a.prev) = a.prevTerm
  BY DEF IsPart
<1>2. a.prev \in Nat /\ b.prev \in Nat
  BY DEF Piece
<1>3. ASSUME NEW m \in a.prev..k
      PROVE  TermIn(a, m) <= At(a, k).term
  <2>1. m \in b.prev..k
    BY <1>1, <1>2
  <2>2. CASE m = a.prev
    BY <1>1, <2>1, <2>2 DEF Ordered, TermIn
  <2>3. CASE m # a.prev
    <3>1. m \in Inside(a)
      BY <2>3, PieceInside
    <3>2. At(a, m) = At(b, m) /\ m \in Inside(b)
      BY <3>1 DEF IsPart
    <3>3. m # b.prev
      BY <3>2, PieceInside
    <3> QED  BY <1>1, <2>1, <2>3, <3>2, <3>3 DEF Ordered, TermIn
  <2> QED  BY <2>2, <2>3
<1> QED  BY <1>1, <1>3 DEF Ordered

LEMMA OrderedGoes ==
    ASSUME NEW l \in Log, NEW new \in Log, NEW u \in Nat, NEW t \in Nat, u <= t,
           Ordered(Whole(l), u), Goes(new, l, t)
    PROVE  Ordered(Whole(new), t)
<1>1. /\ l \in Seq(Entry) /\ new \in Seq(Entry)
      /\ Len(l) \in Nat /\ Len(new) \in Nat
      /\ Whole(l).prev = 0 /\ Whole(new).prev = 0
  BY LenProperties DEF Log, Whole
<1>2. ASSUME NEW k \in 1..Len(l)
      PROVE  /\ l[k].term <= u /\ l[k].term \in Nat /\ new[k] = l[k]
             /\ \A m \in 0..k : TermAt(l, m) <= l[k].term
  <2>1. k \in Inside(Whole(l)) /\ At(Whole(l), k) = l[k]
    BY <1>1, WholePiece
  <2>2. l[k] \in Entry
    BY <1>1, ElementOfSeq
  <2>3. \A m \in 0..k : m \in 0..Len(l)
    BY <1>1
  <2>4. \A m \in 0..k : TermIn(Whole(l), m) = TermAt(l, m)
    BY <1>1, <2>3, WholePiece
  <2> QED  BY <1>1, <2>1, <2>2, <2>4 DEF Ordered, Goes, Extends, Entry, Term
<1>3. ASSUME NEW k \in Len(l) + 1 .. Len(new)
      PROVE  new[k].term = t
  BY <1>3 DEF Goes
<1>4. \A m \in 0..Len(l) : TermAt(new, m) = TermAt(l, m) /\ TermAt(l, m) <= t
  <2> SUFFICES ASSUME NEW m \in 0..Len(l)
               PROVE  TermAt(new, m) = TermAt(l, m) /\ TermAt(l, m) <= t
    OBVIOUS
  <2>1. m \notin 1..Len(l) => m = 0
    BY <1>1
  <2>2. CASE m = 0
    BY <1>1, <2>2 DEF TermAt
  <2>3. CASE m \in 1..Len(l)
    <3>1. Len(l) <= Len(new)
      BY DEF Goes, Extends
    <3>2. m \in 1..Len(new)
      BY <1>1, <2>3, <3>1
    <3>3. l[m].term <= t /\ new[m] = l[m]
      BY <1>2, <2>3
    <3> QED  BY <2>3, <3>2, <3>3 DEF TermAt
  <2> QED  BY <2>1, <2>2, <2>3
<1>5. ASSUME NEW k \in 1..Len(new)
      PROVE  new[k].term <= t /\ \A m \in 0..k : TermAt(new, m) <= new[k].term
  <2>1. CASE k <= Len(l)
    <3>1. k \in 1..Len(l) /\ \A m \in 0..k : m \in 0..Len(l)
      BY <1>1, <2>1
    <3> QED  BY <1>2, <1>4, <3>1
  <2>2. CASE ~(k <= Len(l))
    <3>1. new[k].term = t
      BY <1>1, <1>3, <2>2
    <3>2. ASSUME NEW m \in 0..k
          PROVE  TermAt(new, m) <= t
      <4>1. CASE m <= Len(l)
        BY <1>1, <1>4, <4>1
      <4>2. CASE ~(m <= Len(l))
        <5>1. m \in Len(l) + 1 .. Len(new) /\ m \in 1..Len(new)
          BY <1>1, <4>2
        <5> QED  BY <1>3, <5>1 DEF TermAt
      <4> QED  BY <4>1, <4>2
    <3> QED  BY <3>1, <3>2
  <2> QED  BY <2>1, <2>2
<1>6. ASSUME NEW k \in Inside(Whole(new))
      PROVE  /\ At(Whole(new), k).term <= t
             /\ \A m \in 0..k : TermIn(Whole(new), m) <= At(Whole(new), k).term
  <2>1. k \in 1..Len(new) /\ At(Whole(new), k) = new[k]
    BY <1>1, WholePiece
  <2>2. \A m \in 0..k : m \in 0..Len(new)
    BY <1>1, <2>1
  <2>3. \A m \in 0..k : TermIn(Whole(new), m) = TermAt(new, m)
    BY <1>1, <2>2, WholePiece
  <2> QED  BY <1>5, <2>1, <2>3
<1> QED  BY <1>1, <1>6 DEF Ordered

LEMMA OrderedTaken ==
    ASSUME ReplicationAssumption, NEW l \in Log, NEW q \in SmallRequest, NEW new \in Log,
           LogOkay(l, q), Taken(l, q, new), NEW u \in Nat, NEW t \in Nat, u <= t,
           q.term <= t, Ordered(Whole(l), u), Ordered(q, q.term)
    PROVE  Ordered(Whole(new), t)
<1> DEFINE kept == q.prev + Skipped(l, q)
<1>1. /\ l \in Seq(Entry) /\ new \in Seq(Entry)
      /\ Len(l) \in Nat /\ Len(new) \in Nat /\ Piece(q) /\ q.prev \in Nat
      /\ End(q) \in Nat /\ q.term \in Nat /\ q.prevTerm \in Nat
      /\ Whole(l).prev = 0 /\ Whole(new).prev = 0
  <2>1. /\ Piece(q) /\ q.prev \in Nat /\ q.term \in Nat /\ q.prevTerm \in Nat
    BY DEF Piece, SmallRequest, Request, Index, Term
  <2> QED  BY <2>1, LenProperties, PieceInside DEF Log, Whole
<1>2. /\ Skipped(l, q) \in Nat
      /\ \A k \in 1..Skipped(l, q) : l[q.prev + k].term = q.entries[k].term
  <2>1. Len(q.entries) \in Nat
    BY <1>1, LenProperties DEF Piece
  <2> QED  BY <2>1, SkippedFits
<1>3. /\ kept \in Nat /\ kept >= q.prev
      /\ kept <= Len(l) /\ kept < End(q) /\ Len(new) = End(q)
      /\ \A m \in 1..kept : new[m] = l[m]
      /\ \A m \in kept + 1 .. End(q) : new[m] = At(q, m)
  BY <1>1, <1>2 DEF Taken
<1>4. ASSUME NEW m \in q.prev + 1 .. End(q)
      PROVE  m \in 1..Len(new) /\ m \in Inside(q) /\ new[m].term = At(q, m).term
  <2>1. m \in Inside(q) /\ m \in 1..Len(new)
    BY <1>1, <1>3 DEF Inside
  <2>2. CASE m <= kept
    <3>1. m - q.prev \in 1..Skipped(l, q) /\ q.prev + (m - q.prev) = m /\ m \in 1..kept
      BY <1>1, <1>2, <2>2
    <3>2. l[m].term = At(q, m).term
      BY <1>2, <3>1 DEF At
    <3>3. new[m] = l[m]
      BY <1>3, <3>1
    <3> QED  BY <2>1, <3>2, <3>3
  <2>3. CASE ~(m <= kept)
    <3>1. m \in kept + 1 .. End(q)
      BY <1>1, <1>3, <2>3
    <3> QED  BY <1>3, <2>1, <3>1
  <2> QED  BY <2>2, <2>3
<1> HIDE DEF kept
<1>5. \A m \in 1..q.prev : m \in 1..Len(l) /\ m \in 1..Len(new) /\ new[m] = l[m]
  BY <1>1, <1>3
<1>6. ASSUME NEW k \in 1..Len(l)
      PROVE  /\ l[k].term <= u /\ l[k].term \in Nat
             /\ \A m \in 0..k : TermAt(l, m) <= l[k].term
  <2>1. k \in Inside(Whole(l)) /\ At(Whole(l), k) = l[k]
    BY <1>1, WholePiece
  <2>2. l[k] \in Entry
    BY <1>1, ElementOfSeq
  <2>3. \A m \in 0..k : m \in 0..Len(l)
    BY <1>1
  <2>4. \A m \in 0..k : TermIn(Whole(l), m) = TermAt(l, m)
    BY <1>1, <2>3, WholePiece
  <2>5. l[k].term <= u /\ \A m \in 0..k : TermIn(Whole(l), m) <= l[k].term
    BY <1>1, <2>1 DEF Ordered
  <2>6. l[k].term \in Nat
    BY <2>2 DEF Entry, Term
  <2> QED  BY <2>4, <2>5, <2>6
<1>7. \A m \in 0..q.prev : TermAt(new, m) = TermAt(l, m) /\ TermAt(new, m) \in Nat
  <2> SUFFICES ASSUME NEW m \in 0..q.prev
               PROVE  TermAt(new, m) = TermAt(l, m) /\ TermAt(new, m) \in Nat
    OBVIOUS
  <2>1. CASE m = 0
    BY <1>1, <2>1 DEF TermAt
  <2>2. CASE m # 0
    <3>1. m \in 1..q.prev
      BY <1>1, <2>2
    <3>2. m \in 1..Len(l) /\ m \in 1..Len(new) /\ new[m] = l[m]
      BY <1>5, <3>1
    <3> QED  BY <1>6, <3>2 DEF TermAt
  <2> QED  BY <2>1, <2>2
<1>8. TermAt(l, q.prev) = q.prevTerm
  BY DEF LogOkay
\* nothing the log keeps below the request is of a later term than q.prev
<1>9. \A m \in 0..q.prev : TermAt(l, m) <= q.prevTerm
  <2> SUFFICES ASSUME NEW m \in 0..q.prev
               PROVE  TermAt(l, m) <= q.prevTerm
    OBVIOUS
  <2>1. CASE q.prev = 0
    BY <1>1, <1>8, <2>1
  <2>2. CASE q.prev # 0
    <3>1. q.prev \in 1..Len(l) /\ TermAt(l, q.prev) = l[q.prev].term
      BY <1>1, <1>5, <2>2 DEF TermAt
    <3> QED  BY <1>6, <1>8, <3>1
  <2> QED  BY <2>1, <2>2
<1>10. ASSUME NEW k \in 1..Len(new)
       PROVE  new[k].term <= t /\ \A m \in 0..k : TermAt(new, m) <= new[k].term
  <2>1. CASE k <= q.prev
    <3>1. k \in 1..q.prev /\ k \in 1..Len(l) /\ new[k] = l[k]
      BY <1>5, <2>1
    <3>2. \A m \in 0..k : m \in 0..q.prev
      BY <1>1, <2>1
    <3> QED  BY <1>6, <1>7, <3>1, <3>2
  <2>2. CASE ~(k <= q.prev)
    <3>1. k \in q.prev + 1 .. End(q)
      BY <1>1, <1>3, <2>2
    <3>2. /\ k \in Inside(q) /\ new[k].term = At(q, k).term
          /\ At(q, k).term <= q.term /\ At(q, k).term \in Nat
          /\ \A m \in q.prev..k : TermIn(q, m) <= At(q, k).term
      <4>1. k \in Inside(q) /\ new[k].term = At(q, k).term
        BY <1>4, <3>1
      <4> QED  BY <1>1, <4>1, PieceTerms DEF Ordered
    <3>3. ASSUME NEW m \in 0..k
          PROVE  TermAt(new, m) <= new[k].term
      <4>1. CASE m <= q.prev
        <5>1. TermAt(new, m) <= q.prevTerm /\ TermAt(new, m) \in Nat
          BY <1>1, <1>7, <1>9, <4>1
        <5>2. q.prevTerm <= At(q, k).term
          BY <1>1, <3>1, <3>2 DEF TermIn
        <5> QED  BY <1>1, <3>2, <5>1, <5>2
      <4>2. CASE ~(m <= q.prev)
        <5>1. m \in q.prev + 1 .. End(q) /\ m \in q.prev..k /\ m # q.prev
          BY <1>1, <3>1, <4>2
        <5>2. m \in 1..Len(new) /\ new[m].term = At(q, m).term
          BY <1>4, <5>1
        <5> QED  BY <3>2, <5>1, <5>2 DEF TermAt, TermIn
      <4> QED  BY <4>1, <4>2
    <3> QED  BY <1>1, <3>2, <3>3
  <2> QED  BY <2>1, <2>2
<1>11. ASSUME NEW k \in Inside(Whole(new))
       PROVE  /\ At(Whole(new), k).term <= t
              /\ \A m \in 0..k : TermIn(Whole(new), m) <= At(Whole(new), k).term
  <2>1. k \in 1..Len(new) /\ At(Whole(new), k) = new[k]
    BY <1>1, WholePiece
  <2>2. \A m \in 0..k : m \in 0..Len(new)
    BY <1>1, <2>1
  <2>3. \A m \in 0..k : TermIn(Whole(new), m) = TermAt(new, m)
    BY <1>1, <2>2, WholePiece
  <2> QED  BY <1>10, <2>1, <2>3
<1> QED  BY <1>1, <1>11 DEF Ordered

-----------------------------------------------------------------------------
(* Votes.                                                                  *)

\* no vote is forgotten: a term is voted in once and for all
VotesKept ==
    \A j \in Server :
        term'[j] > term[j] \/ (term'[j] = term[j] /\ (voted[j] => voted'[j]))

LEMMA VotedCount ==
    ASSUME ReplicationAssumption, NEW S \in SUBSET Server
    PROVE  IsFiniteSet(S) /\ Cardinality(S) \in Nat
BY FS_Subset, FS_CardinalityType DEF ReplicationAssumption

LEMMA DecidedKept ==
    ASSUME ReplicationAssumption, TypeInv, TypeInv', VotesKept,
           NEW t \in Term, Decided(t)
    PROVE  Decided(t)'
<1>1. Voted(t) \subseteq Voted(t)'
  <2>1. t \in Nat /\ \A j \in Server : term[j] \in Nat /\ term'[j] \in Nat
    BY DEF TypeInv, TypeOK, Term
  <2> SUFFICES ASSUME NEW j \in Server, term[j] > t \/ (term[j] = t /\ voted[j])
               PROVE  term'[j] > t \/ (term'[j] = t /\ voted'[j])
    BY DEF Voted
  <2>2. term'[j] > term[j] \/ (term'[j] = term[j] /\ (voted[j] => voted'[j]))
    BY DEF VotesKept
  <2> QED  BY <2>1, <2>2
<1>2. Voted(t)' \subseteq Server
  BY DEF Voted
<1>3. Cardinality(Voted(t)) <= Cardinality(Voted(t)')
  BY <1>1, <1>2, VotedCount, FS_Subset
<1>4. /\ Cardinality(Voted(t)) \in Nat /\ Cardinality(Voted(t)') \in Nat
      /\ Cardinality(Server) \in Nat
  BY <1>1, <1>2, VotedCount
<1> QED  BY <1>3, <1>4 DEF Decided

\* The voters of an election are a majority, and have not voted in its term.
LEMMA ElectionIsNew ==
    ASSUME ReplicationAssumption, TypeInv, NEW i \in Server,
           NEW voters \in SUBSET Others(i), Elect(i, voters),
           NEW t \in Term, t = term[i] + 1
    PROVE  /\ ~Decided(t)
           /\ Decided(t)'
<1> DEFINE electors == voters \union {i}
<1>1. i \notin voters /\ voters \subseteq Server /\ electors \subseteq Server
  BY DEF Others
<1>2. /\ Cardinality(voters) \in Nat /\ Cardinality(Server) \in Nat
      /\ Cardinality(electors) = Cardinality(voters) + 1
  BY <1>1, VotedCount, FS_AddElement
<1>3. Cardinality(voters) >= Cardinality(Server) \div 2
  BY DEF Elect, Quorum
<1>4. 2 * Cardinality(electors) > Cardinality(Server)
  BY <1>2, <1>3
<1>5. term[i] \in Nat /\ t \in Nat /\ \A j \in Server : term[j] \in Nat
  BY DEF TypeInv, TypeOK, Term
<1>6. \A j \in electors : j \notin Voted(t)
  <2>1. \A j \in voters : term[j] <= term[i] \/ (term[j] = t /\ ~voted[j])
    BY DEF Elect
  <2> QED  BY <1>1, <1>5, <2>1 DEF Voted
<1>7. electors \subseteq Voted(t)'
  <2>1. \A j \in electors : term'[j] = t /\ voted'[j]
    BY <1>1 DEF Elect
  <2> QED  BY <1>1, <2>1 DEF Voted
<1>8. /\ Voted(t) \subseteq Server /\ Voted(t)' \subseteq Server
      /\ Cardinality(Voted(t)) \in Nat /\ Cardinality(Voted(t)') \in Nat
  BY VotedCount DEF Voted
<1>9. ~Decided(t)
  <2> SUFFICES ASSUME Decided(t)
               PROVE  FALSE
    OBVIOUS
  <2>1. Cardinality(electors) + Cardinality(Voted(t)) > Cardinality(Server)
    BY <1>2, <1>4, <1>8 DEF Decided
  <2>2. electors \cap Voted(t) # {}
    BY <1>1, <1>8, <2>1, FS_MajoritiesIntersect DEF ReplicationAssumption
  <2> QED  BY <1>6, <2>2
<1>10. Decided(t)'
  <2>1. Cardinality(electors) <= Cardinality(Voted(t)')
    BY <1>7, <1>8, VotedCount, FS_Subset
  <2>2. t # 0
    BY <1>5
  <2> QED  BY <1>2, <1>4, <1>8, <2>1, <2>2 DEF Decided
<1> QED  BY <1>9, <1>10

-----------------------------------------------------------------------------
(* Three kinds of steps.                                                   *)

\* a server that leads after the step did so before it, with the same log
LeadersKept ==
    \A i \in Server : role'[i] = "leader" =>
        role[i] = "leader" /\ term'[i] = term[i] /\ log'[i] = log[i]

\* r carries what q does
SameRequest(r, q) ==
    /\ r.src = q.src /\ r.term = q.term
    /\ r.prev = q.prev /\ r.prevTerm = q.prevTerm /\ r.entries = q.entries
    /\ r.commit = q.commit

\* requests are what is left of those on their way, or new ones of a leader
RequestsFrom ==
    \A r \in reqs' :
        \/ \E q \in reqs : SameRequest(r, q)
        \/ \E i \in Server : /\ role'[i] = "leader"
                             /\ Sent(r, i, term'[i], log'[i], quick'[i])

\* accepting answers are those on their way, or what is left of them
AnswersLeft ==
    \A p \in resps' : p.accepted =>
        \E r \in resps : /\ r.accepted /\ p.src = r.src /\ p.dst = r.dst
                         /\ p.term = r.term /\ p.next = r.next

\* No leader's log changes.  If i learns a later term, it may have served
\* requests meanwhile.
Quiet(i) ==
    /\ TypeInv' /\ VotesKept /\ LeadersKept /\ RequestsFrom /\ AnswersLeft
    /\ ServedLate(i, term'[i])

\* The follower j makes something of a request.
Takes(q, j) ==
    /\ TypeInv' /\ VotesKept /\ LeadersKept /\ reqs' \subseteq reqs /\ late' = late
    /\ q.term <= term'[j]
    /\ \E new \in Log : /\ log' = [log EXCEPT ![j] = new]
                        /\ \/ new = log[j]
                           \/ LogOkay(log[j], q) /\ Taken(log[j], q, new)

\* i, which leads its term t after the step, appends e of that term.  If it did
\* not lead it before, it may have served requests meanwhile.
Leads(i, t, e) ==
    /\ TypeInv' /\ VotesKept /\ RequestsFrom /\ AnswersLeft /\ late \subseteq late'
    /\ term'[i] = t /\ e.term = t /\ Decided(t)'
    /\ \A j \in Server \ {i} : role'[j] = "leader" =>
           role[j] = "leader" /\ term'[j] = term[j] /\ term[j] # t
    /\ \/ role[i] = "leader" /\ term[i] = t
       \/ ~Decided(t)
    /\ \E l \in Log : /\ Len(l) < MaxLog /\ Goes(l, log[i], t)
                      /\ l = log[i] \/ t \in late'
                      /\ log' = [log EXCEPT ![i] = Append(l, e)]

LEMMA ReqsKept ==
    ASSUME reqs' \subseteq reqs
    PROVE  RequestsFrom
BY DEF RequestsFrom, SameRequest

LEMMA AnswersKept ==
    ASSUME resps' \subseteq resps
    PROVE  AnswersLeft
BY DEF AnswersLeft

\* role, term, vote and log of nobody change
LEMMA StateKept ==
    ASSUME TypeInv, UNCHANGED <<term, voted, role, log, late>>,
           TypeInv', RequestsFrom, AnswersLeft
    PROVE  \A i \in Server : Quiet(i)
<1>1. VotesKept /\ LeadersKept
  BY DEF VotesKept, LeadersKept, TypeInv, TypeOK
<1>2. ASSUME NEW i \in Server
      PROVE  /\ log[i] \in Log /\ log' = [log EXCEPT ![i] = log[i]]
             /\ Goes(log[i], log[i], term'[i])
  <2>1. log[i] \in Log /\ Len(log[i]) \in Nat
    BY LenProperties DEF TypeInv, Log
  <2> QED  BY <2>1, ExtendsSame DEF Goes, TypeInv
<1> QED  BY <1>1, <1>2 DEF Quiet, ServedLate

LEMMA UpdateTermQuiet ==
    ASSUME ReplicationAssumption, TypeInv, TypeInv', NEW i \in Server,
           NEW t \in Term, t > term[i], UpdateTerm(i, t), reqs' = reqs,
           resps' \subseteq resps
    PROVE  Quiet(i)
<1>1. /\ term' = [term EXCEPT ![i] = t] /\ voted' = [voted EXCEPT ![i] = FALSE]
      /\ role' = [role EXCEPT ![i] = "follower"]
      /\ KeepLog(i, t)
  BY DEF UpdateTerm
<1>2. term'[i] = t
  BY <1>1 DEF TypeInv, TypeOK
<1>3. ServedLate(i, t)
  <2>1. KeepLog(i, t)
    BY <1>1
  <2> QED  BY <2>1, KeepLogType
<1>4. VotesKept
  BY <1>1 DEF VotesKept, TypeInv, TypeOK
<1>5. LeadersKept
  <2>1. PICK new \in Log : /\ log' = [log EXCEPT ![i] = new]
                           /\ Goes(new, log[i], t)
                           /\ new = log[i] \/ t \in late'
    BY <1>3 DEF ServedLate
  <2>0. /\ role \in [Server -> {"follower", "leader"}]
        /\ term \in [Server -> Term] /\ log \in [Server -> Log]
    BY DEF TypeInv, TypeOK
  <2>2. \A j \in Server : role'[j] = "leader" => j # i /\ role[j] = "leader"
    BY <1>1, <2>0
  <2>3. \A j \in Server : j # i => term'[j] = term[j]
    BY <1>1, <2>0
  <2>4. log' = [log EXCEPT ![i] = new]
    BY <2>1
  <2>5. \A j \in Server : j # i => log'[j] = log[j]
    BY <2>0, <2>4
  <2> QED  BY <2>2, <2>3, <2>5 DEF LeadersKept
<1>6. RequestsFrom /\ AnswersLeft
  BY ReqsKept, AnswersKept
<1> QED  BY <1>2, <1>3, <1>4, <1>5, <1>6 DEF Quiet

LEMMA CampaignQuiet ==
    ASSUME ReplicationAssumption, TypeInv, NEW i \in Server, Campaign(i)
    PROVE  Quiet(i)
<1>1. TypeInv' /\ term[i] \in Nat
  BY CampaignType DEF TypeInv, TypeOK, Term
<1>2. term[i] + 1 \in Term
  BY DEF TypeInv, TypeOK, Campaign, Term, ReplicationAssumption
<1>3. /\ term' = [term EXCEPT ![i] = term[i] + 1]
      /\ voted' = [voted EXCEPT ![i] = TRUE]
      /\ role' = [role EXCEPT ![i] = "follower"]
      /\ KeepLog(i, term[i] + 1) /\ reqs' = reqs /\ resps' = resps
  BY DEF Campaign, network
<1>4. term'[i] = term[i] + 1
  BY <1>3 DEF TypeInv, TypeOK
<1>5. ServedLate(i, term[i] + 1)
  <2>1. KeepLog(i, term[i] + 1) /\ term[i] + 1 \in Term
    BY <1>3, <1>2
  <2> QED  BY <2>1, KeepLogType
<1>6. VotesKept
  BY <1>1, <1>3 DEF VotesKept, TypeInv, TypeOK
<1>7. LeadersKept
  <2>1. PICK new \in Log : /\ log' = [log EXCEPT ![i] = new]
                           /\ Goes(new, log[i], term[i] + 1)
                           /\ new = log[i] \/ term[i] + 1 \in late'
    BY <1>5 DEF ServedLate
  <2>0. /\ role \in [Server -> {"follower", "leader"}]
        /\ term \in [Server -> Term] /\ log \in [Server -> Log]
    BY DEF TypeInv, TypeOK
  <2>2. \A j \in Server : role'[j] = "leader" => j # i /\ role[j] = "leader"
    BY <1>3, <2>0
  <2>3. \A j \in Server : j # i => term'[j] = term[j]
    BY <1>3, <2>0
  <2>4. log' = [log EXCEPT ![i] = new]
    BY <2>1
  <2>5. \A j \in Server : j # i => log'[j] = log[j]
    BY <2>0, <2>4
  <2> QED  BY <2>2, <2>3, <2>5 DEF LeadersKept
<1>8. RequestsFrom /\ AnswersLeft
  BY <1>3, ReqsKept, AnswersKept
<1> QED  BY <1>1, <1>4, <1>5, <1>6, <1>7, <1>8 DEF Quiet

LEMMA LearnTermQuiet ==
    ASSUME ReplicationAssumption, TypeInv, NEW i \in Server, LearnTerm(i)
    PROVE  Quiet(i)
<1>1. TypeInv'
  BY LearnTermType
<1>2. PICK k \in Server : term[k] > term[i] /\ UpdateTerm(i, term[k])
  BY DEF LearnTerm
<1>3. term[k] \in Term /\ reqs' = reqs /\ resps' = resps
  BY DEF TypeInv, TypeOK, LearnTerm, network
<1> QED  BY <1>1, <1>2, <1>3, UpdateTermQuiet

LEMMA SendingQuiet ==
    ASSUME ReplicationAssumption, TypeInv, NEW i \in Server, NEW j \in Server,
           \/ AppendEntriesInBg(i, j) \/ HeartbeatTimeout(i, j)
           \/ Reconnect(i, j) \/ RecreateRpc(i, j)
    PROVE  Quiet(i)
<1>1. ASSUME NEW left \in LeftOver(i, j), NEW r \in left
      PROVE  \E q \in reqs : SameRequest(r, q)
  BY LeftOverType DEF SameRequest
<1>5. UNCHANGED <<term, voted, role, log, late>> /\ AnswersLeft
  <2>1. UNCHANGED <<term, voted, role, log, late>> /\ resps' \subseteq resps
    BY DEF AppendEntriesInBg, HeartbeatTimeout, RequestAppendEntries, Reconnect,
       RecreateRpc, AnswersWithout, state, logs, history
  <2> QED  BY <2>1, AnswersKept
<1>2. CASE AppendEntriesInBg(i, j) \/ HeartbeatTimeout(i, j)
  <2>1. /\ RequestAppendEntries(i, j) /\ events' \in 0..MaxEvents
        /\ role[i] = "leader"
    BY <1>2 DEF RequestAppendEntries, AppendEntriesInBg, HeartbeatTimeout, Event, TypeInv, TypeOK,
       ReplicationAssumption
  <2>2. /\ TypeInv'
        /\ \A r \in reqs' : r \in reqs \/ Sent(r, i, term[i], log[i], quick'[i])
    BY <2>1, RequestAppendEntriesType
  <2>3. RequestsFrom
    BY <1>5, <2>1, <2>2 DEF RequestsFrom, SameRequest
  <2> QED  BY <1>5, <2>2, <2>3, StateKept
<1>3. CASE Reconnect(i, j)
  <2>1. TypeInv' /\ role[i] = "leader"
    BY <1>3, ReconnectType DEF Reconnect
  <2>2. PICK left \in LeftOver(i, j) :
          \A r \in reqs' : r \in left \/ Sent(r, i, term[i], log[i], quick'[i])
    BY <1>3, ReconnectType
  <2>3. RequestsFrom
    BY <1>1, <1>5, <2>1, <2>2 DEF RequestsFrom
  <2> QED  BY <1>5, <2>1, <2>3, StateKept
<1>4. CASE RecreateRpc(i, j)
  <2>1. TypeInv'
    BY <1>4, RecreateRpcType
  <2>2. RequestsFrom
    BY <1>1, <1>4 DEF RecreateRpc, RequestsFrom
  <2> QED  BY <1>5, <2>1, <2>2, StateKept
<1> QED  BY <1>2, <1>3, <1>4

LEMMA RestartQuiet ==
    ASSUME ReplicationAssumption, TypeInv, NEW i \in Server, Restart(i)
    PROVE  Quiet(i)
<1>1. TypeInv' /\ RequestsFrom /\ AnswersLeft
  BY RestartType, ReqsKept, AnswersKept DEF Restart
<1>2. VotesKept /\ LeadersKept
  BY DEF Restart, VotesKept, LeadersKept, TypeInv, TypeOK
<1>3. /\ log[i] \in Log /\ log' = [log EXCEPT ![i] = log[i]] /\ late' = late
      /\ Goes(log[i], log[i], term'[i])
  <2>1. log[i] \in Log /\ Len(log[i]) \in Nat
    BY LenProperties DEF TypeInv, Log
  <2> QED  BY <2>1, ExtendsSame DEF Goes, TypeInv, Restart, history
<1> QED  BY <1>1, <1>2, <1>3 DEF Quiet, ServedLate

LEMMA FreePeerQuiet ==
    ASSUME ReplicationAssumption, TypeInv, NEW p \in resps, FreePeer(p)
    PROVE  \A i \in Server : Quiet(i)
<1>1. TypeInv' /\ RequestsFrom
  BY FreePeerType, ReqsKept DEF FreePeer
<1>2. AnswersLeft
  <2> DEFINE r == [p EXCEPT !.freed = TRUE]
  <2>1. /\ r.accepted = p.accepted /\ r.src = p.src /\ r.dst = p.dst
        /\ r.term = p.term /\ r.next = p.next
    BY DEF TypeInv, TypeOK, Response
  <2>2. resps' = (resps \ {p}) \union {r}
    BY DEF FreePeer
  <2> HIDE DEF r
  <2> QED  BY <2>1, <2>2 DEF AnswersLeft
<1> QED  BY <1>1, <1>2, StateKept DEF FreePeer, state, logs, history

LEMMA HandleRespQuiet ==
    ASSUME ReplicationAssumption, TypeInv, NEW p \in resps,
           HandleAppendEntriesResp(p)
    PROVE  p.dst \in Server /\ Quiet(p.dst)
<1>1. /\ TypeInv'
      /\ \A r \in reqs' : r \in reqs \/ Sent(r, p.dst, term[p.dst], log[p.dst], quick'[p.dst])
  BY HandleRespType
<1>2. p.dst \in Server /\ p.term \in Term
  BY DEF TypeInv, TypeOK, Response
<1>3. resps' \subseteq resps /\ AnswersLeft
  BY AnswersKept DEF HandleAppendEntriesResp
<1>4. CASE p.term > term[p.dst]
  <2>1. UpdateTerm(p.dst, p.term) /\ reqs' = reqs /\ resps' \subseteq resps
    BY <1>3, <1>4 DEF HandleAppendEntriesResp
  <2> QED  BY <1>1, <1>2, <1>4, <2>1, UpdateTermQuiet
<1>5. CASE ~(p.term > term[p.dst])
  <2>1. UNCHANGED <<term, voted, role, log, late>>
    BY <1>5 DEF HandleAppendEntriesResp, state, logs, history
  <2>2. role[p.dst] # "leader" => reqs' = reqs
    BY <1>5 DEF HandleAppendEntriesResp, Accepted, Declined
  <2>3. RequestsFrom
    <3>1. CASE role[p.dst] = "leader"
      BY <1>1, <1>2, <2>1, <3>1 DEF RequestsFrom, SameRequest
    <3>2. CASE role[p.dst] # "leader"
      BY <2>2, <3>2, ReqsKept
    <3> QED  BY <3>1, <3>2
  <2> QED  BY <1>1, <1>2, <1>3, <2>1, <2>3, StateKept
<1> QED  BY <1>4, <1>5

\* the follower takes the request, and answers
Accepts(q) == q.term >= term[q.dst] /\ LogOkay(log[q.dst], q)
Acceptance(q) ==
    [src |-> q.dst, dst |-> q.src, term |-> q.term, accepted |-> TRUE,
     next |-> End(q) + 1, freed |-> FALSE]

\* a leader takes no request of its term, and declines those of earlier ones
LEMMA HandleReqTakes ==
    ASSUME ReplicationAssumption, TypeInv, NEW q \in reqs, HandleAppendEntries(q)
    PROVE  q.dst \in Server /\ Takes(q, q.dst)
<1> DEFINE j == q.dst
           current == q.term >= term[j]
<1>1. /\ j \in Server /\ q.term \in Nat
      /\ \A i \in Server : term[i] \in Nat /\ voted[i] \in BOOLEAN
  BY DEF TypeInv, TypeOK, SmallRequest, Request, Term
<1>2. /\ term \in [Server -> Term] /\ voted \in [Server -> BOOLEAN]
      /\ role \in [Server -> {"follower", "leader"}]
  BY DEF TypeInv, TypeOK
<1>3. /\ term' = [term EXCEPT ![j] = Larger(q.term, @)]
      /\ voted' = [voted EXCEPT ![j] = IF q.term > term[j] THEN FALSE ELSE @]
      /\ role' = [role EXCEPT ![j] = IF current THEN "follower" ELSE @]
      /\ ~current => log' = log
  BY DEF HandleAppendEntries, logs
<1>4. VotesKept /\ q.term <= term'[j]
  BY <1>1, <1>2, <1>3 DEF VotesKept, Larger
<1>5. /\ TypeInv' /\ reqs' \subseteq reqs /\ late' = late
      /\ \E new \in Log :
           /\ log' = [log EXCEPT ![j] = new]
           /\ \/ new = log[j]
              \/ LogOkay(log[j], q) /\ Taken(log[j], q, new)
  BY HandleReqType
<1>6. LeadersKept
  <2> SUFFICES ASSUME NEW i \in Server, role'[i] = "leader"
               PROVE  role[i] = "leader" /\ term'[i] = term[i] /\ log'[i] = log[i]
    BY DEF LeadersKept
  <2>1. CASE i = j
    <3>1. ~current /\ role[i] = "leader"
      BY <1>1, <1>2, <1>3, <2>1
    <3>2. Larger(q.term, term[j]) = term[j]
      BY <1>1, <3>1 DEF Larger
    <3> QED  BY <1>1, <1>2, <1>3, <2>1, <3>1, <3>2
  <2>2. CASE i # j
    BY <1>2, <1>3, <1>5, <2>2 DEF TypeInv
  <2> QED  BY <2>1, <2>2
<1> QED  BY <1>1, <1>4, <1>5, <1>6 DEF Takes

LEMMA ClientRequestLeads ==
    ASSUME ReplicationAssumption, ElectInv, NEW i \in Server, ClientRequest(i)
    PROVE  \E t \in Term, e \in Entry : Leads(i, t, e)
<1> DEFINE e == [term |-> term[i], by |-> i]
<1>1. TypeInv /\ TypeInv' /\ LeadersElected /\ OneLeader
  BY ClientRequestType DEF ElectInv
<1>2. /\ term[i] \in Term /\ e \in Entry /\ e.term = term[i]
      /\ log[i] \in Log /\ Len(log[i]) < MaxLog
      /\ Goes(log[i], log[i], term[i])
  <2>1. log[i] \in Log /\ Len(log[i]) \in Nat
    BY <1>1, LenProperties DEF TypeInv, Log
  <2> QED  BY <1>1, <2>1, EntryType, ExtendsSame DEF ClientRequest, Goes, TypeInv, TypeOK
<1>3. /\ role[i] = "leader" /\ UNCHANGED <<term, voted, role, reqs, resps, late>>
      /\ log' = [log EXCEPT ![i] = Append(log[i], e)]
  BY DEF ClientRequest, state, network, history
<1>4. VotesKept /\ RequestsFrom /\ AnswersLeft
  BY <1>1, <1>3, ReqsKept, AnswersKept DEF VotesKept, TypeInv, TypeOK
<1> HIDE DEF e
<1>5. PICK t \in Term : t = term[i]
  BY <1>2
<1>6. Decided(t)'
  BY <1>1, <1>3, <1>5 DEF LeadersElected, Decided, Voted
<1>7. \A j \in Server \ {i} : role'[j] = "leader" =>
         role[j] = "leader" /\ term'[j] = term[j] /\ term[j] # t
  BY <1>1, <1>3, <1>5 DEF OneLeader
<1>8. \E l \in Log : /\ Len(l) < MaxLog /\ Goes(l, log[i], t)
                     /\ l = log[i] \/ t \in late'
                     /\ log' = [log EXCEPT ![i] = Append(l, e)]
  BY <1>2, <1>3, <1>5
<1>9. Leads(i, t, e)
  BY <1>1, <1>2, <1>3, <1>4, <1>5, <1>6, <1>7, <1>8 DEF Leads
<1> QED  BY <1>2, <1>5, <1>9

LEMMA ElectLeads ==
    ASSUME ReplicationAssumption, ElectInv, NEW i \in Server,
           NEW voters \in SUBSET Others(i), Elect(i, voters)
    PROVE  \E t \in Term, e \in Entry : ~Decided(t) /\ Leads(i, t, e)
<1>1. TypeInv /\ TypeInv' /\ LeadersElected
  BY ElectType DEF ElectInv
<1>2. PICK t \in Term : t = term[i] + 1
  BY <1>1 DEF TypeInv, TypeOK, Elect, Term, ReplicationAssumption
<1> DEFINE e == [term |-> t, by |-> i]
<1>3. /\ late \subseteq late'
      /\ \A r \in reqs' : r \in reqs \/ Sent(r, i, t, log'[i], quick'[i])
      /\ \E l \in Log : /\ Len(l) < MaxLog /\ Goes(l, log[i], t)
                        /\ l = log[i] \/ t \in late'
                        /\ log' = [log EXCEPT ![i] = Append(l, e)]
  BY <1>1, <1>2, ElectType
<1>4. e \in Entry /\ e.term = t
  BY EntryType
<1> HIDE DEF e
<1>5. ~Decided(t) /\ Decided(t)'
  BY <1>1, <1>2, ElectionIsNew
<1>6. /\ term' = [j \in Server |-> IF j \in voters \union {i} THEN t ELSE term[j]]
      /\ voted' = [j \in Server |-> j \in voters \union {i} \/ voted[j]]
      /\ role' = [j \in Server |-> IF j = i THEN "leader"
                                   ELSE IF j \in voters THEN "follower" ELSE role[j]]
      /\ \A j \in voters : term[j] <= term[i] \/ (term[j] = t /\ ~voted[j])
      /\ resps' = resps
  BY <1>2 DEF Elect, BecomeLeader
<1>7. VotesKept
  <2>1. \A j \in Server : term[j] \in Nat
    BY <1>1 DEF TypeInv, TypeOK, Term
  <2> SUFFICES ASSUME NEW j \in Server
               PROVE  \/ term'[j] > term[j]
                      \/ term'[j] = term[j] /\ (voted[j] => voted'[j])
    BY DEF VotesKept
  <2>2. CASE j \in voters \union {i}
    <3>1. term'[j] = t /\ voted'[j]
      BY <1>6, <2>2
    <3>2. term[j] <= term[i] \/ term[j] = t
      BY <1>6, <2>1, <2>2
    <3> QED  BY <1>2, <2>1, <3>1, <3>2
  <2>3. CASE j \notin voters \union {i}
    BY <1>6, <2>3
  <2> QED  BY <2>2, <2>3
<1>8. term'[i] = t /\ role'[i] = "leader"
  BY <1>6
<1>9. \A j \in Server \ {i} : role'[j] = "leader" =>
         role[j] = "leader" /\ term'[j] = term[j] /\ term[j] # t
  BY <1>1, <1>5, <1>6 DEF LeadersElected
<1>10. RequestsFrom /\ AnswersLeft
  BY <1>3, <1>6, <1>8, AnswersKept DEF RequestsFrom, SameRequest
<1>11. Leads(i, t, e)
  BY <1>1, <1>3, <1>4, <1>5, <1>7, <1>8, <1>9, <1>10 DEF Leads
<1> QED  BY <1>4, <1>5, <1>11

LEMMA GoesAppend ==
    ASSUME ReplicationAssumption, NEW k \in Log, NEW l \in Log, Len(l) < MaxLog,
           NEW t \in Term, Goes(l, k, t), NEW e \in Entry, e.term = t
    PROVE  Append(l, e) \in Log /\ Goes(Append(l, e), k, t)
<1>1. /\ l \in Seq(Entry) /\ Len(l) \in Nat /\ Len(k) \in Nat
  BY LenProperties DEF Log
<1> DEFINE new == Append(l, e)
<1>2. /\ new \in Log /\ Len(new) = Len(l) + 1
      /\ \A m \in 1..Len(l) : new[m] = l[m]
      /\ new[Len(l) + 1] = e
  BY <1>1, AppendType, AppendProperties
<1> HIDE DEF new
<1>3. Extends(new, k)
  BY <1>1, <1>2 DEF Goes, Extends
<1>4. ASSUME NEW m \in Len(k) + 1 .. Len(new)
      PROVE  new[m].term = t
  <2>1. CASE m = Len(l) + 1
    BY <1>2, <2>1
  <2>2. CASE m # Len(l) + 1
    <3>1. m \in Len(k) + 1 .. Len(l) /\ m \in 1..Len(l)
      BY <1>1, <1>2, <2>2
    <3> QED  BY <1>2, <3>1 DEF Goes
  <2> QED  BY <2>1, <2>2
<1> QED  BY <1>2, <1>3, <1>4 DEF Goes, new

\* Every step of the system is of one of these kinds.
LEMMA StepKinds ==
    ASSUME ReplicationAssumption, ElectInv, [Next]_vars
    PROVE  \/ \E i \in Server : Quiet(i)
           \/ \E q \in reqs : HandleAppendEntries(q)
           \/ \E i \in Server, t \in Term, e \in Entry : Leads(i, t, e)
<1>0. TypeInv
  BY DEF ElectInv
<1>1. ASSUME NEW i \in Server, Campaign(i) \/ LearnTerm(i) \/ Restart(i)
      PROVE  Quiet(i)
  BY <1>0, <1>1, CampaignQuiet, LearnTermQuiet, RestartQuiet
<1>2. ASSUME NEW i \in Server, ClientRequest(i)
      PROVE  \E t \in Term, e \in Entry : Leads(i, t, e)
  BY <1>2, ClientRequestLeads
<1>3. ASSUME NEW i \in Server, NEW voters \in SUBSET Others(i), Elect(i, voters)
      PROVE  \E t \in Term, e \in Entry : Leads(i, t, e)
  BY <1>3, ElectLeads
<1>4. ASSUME NEW i \in Server, NEW j \in Server,
             \/ AppendEntriesInBg(i, j) \/ HeartbeatTimeout(i, j)
             \/ Reconnect(i, j) \/ RecreateRpc(i, j)
      PROVE  Quiet(i)
  BY <1>0, <1>4, SendingQuiet
<1>6. ASSUME NEW p \in resps, FreePeer(p) \/ HandleAppendEntriesResp(p)
      PROVE  \E i \in Server : Quiet(i)
  <2>1. p.dst \in Server
    BY <1>0 DEF TypeInv, TypeOK, Response
  <2> QED  BY <1>0, <1>6, <2>1, FreePeerQuiet, HandleRespQuiet
<1>7. CASE UNCHANGED vars
  <2>1. UNCHANGED <<term, voted, role, log, late, reqs, resps>>
    BY <1>7 DEF vars, state, logs, network, history
  <2>2. TypeInv' /\ RequestsFrom /\ AnswersLeft
    BY <1>0, <2>1, NextTypeInv, ReqsKept, AnswersKept
  <2>3. \A i \in Server : Quiet(i)
    BY <1>0, <2>1, <2>2, StateKept
  <2>4. \E i \in Server : TRUE
    BY FS_EmptySet DEF ReplicationAssumption
  <2> QED  BY <2>3, <2>4
<1> QED  BY <1>1, <1>2, <1>3, <1>4, <1>6, <1>7 DEF Next

-----------------------------------------------------------------------------
(* What holds of all terms.                                                *)

LEMMA LeadersStay ==
    ASSUME ReplicationAssumption, ElectInv, TypeInv', VotesKept, LeadersKept
    PROVE  LeadersElected' /\ OneLeader'
<1>1. LeadersElected'
  <2> SUFFICES ASSUME NEW i \in Server, role'[i] = "leader"
               PROVE  Decided(term[i])'
    BY DEF LeadersElected
  <2>1. term[i] \in Term /\ Decided(term[i]) /\ term'[i] = term[i]
    BY DEF ElectInv, LeadersElected, LeadersKept, TypeInv, TypeOK
  <2>2. PICK t \in Term : Decided(t) /\ term'[i] = t
    BY <2>1
  <2>3. Decided(t)'
    BY <2>2, DecidedKept DEF ElectInv
  <2> QED  BY <2>2, <2>3 DEF Decided, Voted
<1>2. OneLeader'
  BY DEF ElectInv, OneLeader, LeadersKept
<1> QED  BY <1>1, <1>2

LEMMA TermsGrow ==
    ASSUME TypeInv, TypeInv', VotesKept
    PROVE  \A i \in Server : /\ term[i] \in Nat /\ term'[i] \in Nat
                             /\ term[i] <= term'[i]
<1>1. \A i \in Server : term[i] \in Nat /\ term'[i] \in Nat
  BY DEF TypeInv, TypeOK, Term
<1> QED  BY <1>1 DEF VotesKept

LEMMA OrderStays ==
    ASSUME TypeInv, TypeInv', VotesKept, TermsOrdered, RequestsFrom,
           NEW i \in Server, NEW new \in Log, log' = [log EXCEPT ![i] = new],
           Ordered(Whole(new), term'[i])
    PROVE  TermsOrdered'
<1>1. /\ \A j \in Server : /\ term[j] \in Nat /\ term'[j] \in Nat
                           /\ term[j] <= term'[j]
                           /\ log[j] \in Log /\ Piece(Whole(log[j]))
                           /\ log'[j] \in Log /\ Piece(Whole(log'[j]))
      /\ \A q \in reqs : q.term \in Nat /\ Piece(q)
      /\ \A r \in reqs' : Piece(r)
  <2>1. \A j \in Server : log[j] \in Log /\ log'[j] \in Log
    BY DEF TypeInv
  <2>2. \A l \in Log : Piece(Whole(l))
    BY WholePiece DEF Log
  <2>3. \A q \in SmallRequest : q.term \in Nat /\ Piece(q)
    BY DEF Piece, SmallRequest, Request, Index, Term
  <2>4. reqs \subseteq SmallRequest /\ reqs' \subseteq SmallRequest
    BY DEF TypeInv
  <2> QED  BY <2>1, <2>2, <2>3, <2>4, TermsGrow
<1>2. ASSUME NEW j \in Server
      PROVE  Ordered(Whole(log'[j]), term'[j])
  <2>1. CASE j = i
    <3>1. log'[i] = new
      BY DEF TypeInv
    <3> QED  BY <2>1, <3>1
  <2>2. CASE j # i
    <3>1. log'[j] = log[j] /\ Ordered(Whole(log[j]), term[j])
      BY <2>2 DEF TypeInv, TermsOrdered
    <3> QED  BY <1>1, <3>1, OrderedLater
  <2> QED  BY <2>1, <2>2
<1>3. ASSUME NEW r \in reqs'
      PROVE  Ordered(r, r.term)
  <2>1. CASE \E q \in reqs : SameRequest(r, q)
    <3>1. PICK q \in reqs : SameRequest(r, q)
      BY <2>1
    <3>2. IsPart(r, q) /\ r.term = q.term /\ Ordered(q, q.term)
      BY <1>1, <3>1, PartSelf DEF SameRequest, TermsOrdered
    <3> QED  BY <1>1, <3>2, OrderedPart
  <2>3. ASSUME NEW j \in Server, Sent(r, j, term'[j], log'[j], quick'[j])
        PROVE  Ordered(r, r.term)
    <3>1. IsPart(r, Whole(log'[j])) /\ r.term = term'[j]
      BY <2>3 DEF Sent
    <3> QED  BY <1>1, <1>2, <3>1, OrderedPart
  <2> QED  BY <2>1, <2>3 DEF RequestsFrom
<1> QED  BY <1>2, <1>3 DEF TermsOrdered

LEMMA QuietElect ==
    ASSUME ReplicationAssumption, ElectInv, NEW i \in Server, Quiet(i)
    PROVE  ElectInv'
<1>1. TypeInv /\ TypeInv' /\ VotesKept /\ LeadersKept /\ RequestsFrom /\ TermsOrdered
  BY DEF ElectInv, Quiet
<1>2. PICK new \in Log : log' = [log EXCEPT ![i] = new] /\ Goes(new, log[i], term'[i])
  BY DEF Quiet, ServedLate
<1>3. /\ Ordered(Whole(log[i]), term[i]) /\ log[i] \in Log
      /\ term[i] \in Nat /\ term'[i] \in Nat /\ term[i] <= term'[i]
  BY <1>1, TermsGrow DEF TermsOrdered, TypeInv
<1>4. Ordered(Whole(new), term'[i])
  BY <1>2, <1>3, OrderedGoes
<1>5. TermsOrdered'
  BY <1>1, <1>2, <1>4, OrderStays
<1> QED  BY <1>1, <1>5, LeadersStay DEF ElectInv

LEMMA TakesElect ==
    ASSUME ReplicationAssumption, ElectInv, NEW q \in reqs, NEW j \in Server,
           Takes(q, j)
    PROVE  ElectInv'
<1>1. /\ TypeInv /\ TypeInv' /\ VotesKept /\ LeadersKept /\ TermsOrdered
      /\ RequestsFrom /\ q.term <= term'[j]
  BY ReqsKept DEF ElectInv, Takes
<1>2. PICK new \in Log : /\ log' = [log EXCEPT ![j] = new]
                         /\ \/ new = log[j]
                            \/ LogOkay(log[j], q) /\ Taken(log[j], q, new)
  BY DEF Takes
<1>3. /\ Ordered(Whole(log[j]), term[j]) /\ log[j] \in Log /\ Ordered(q, q.term)
      /\ term[j] \in Nat /\ term'[j] \in Nat /\ term[j] <= term'[j]
      /\ q \in SmallRequest /\ Piece(Whole(log[j]))
  <2>1. log[j] \in Log /\ q \in SmallRequest
    BY <1>1 DEF TypeInv
  <2>2. Piece(Whole(log[j]))
    BY <2>1, WholePiece DEF Log
  <2> QED  BY <1>1, <2>1, <2>2, TermsGrow DEF TermsOrdered
<1>4. Ordered(Whole(new), term'[j])
  <2>1. CASE new = log[j]
    BY <1>3, <2>1, OrderedLater
  <2>2. CASE LogOkay(log[j], q) /\ Taken(log[j], q, new)
    BY <1>1, <1>3, <2>2, OrderedTaken
  <2> QED  BY <1>2, <2>1, <2>2
<1>5. TermsOrdered'
  BY <1>1, <1>2, <1>4, OrderStays
<1> QED  BY <1>1, <1>5, LeadersStay DEF ElectInv

LEMMA LeadsElect ==
    ASSUME ReplicationAssumption, ElectInv, NEW i \in Server, NEW t \in Term,
           NEW e \in Entry, Leads(i, t, e)
    PROVE  ElectInv'
<1>1. /\ TypeInv /\ TypeInv' /\ VotesKept /\ TermsOrdered /\ RequestsFrom
      /\ term'[i] = t /\ e.term = t /\ Decided(t)'
      /\ \A j \in Server \ {i} : role'[j] = "leader" =>
             role[j] = "leader" /\ term'[j] = term[j] /\ term[j] # t
      /\ LeadersElected /\ OneLeader
  BY DEF ElectInv, Leads
<1>2. PICK l \in Log : /\ Len(l) < MaxLog /\ Goes(l, log[i], t)
                       /\ log' = [log EXCEPT ![i] = Append(l, e)]
  BY DEF Leads
<1>3. /\ Ordered(Whole(log[i]), term[i]) /\ log[i] \in Log
      /\ term[i] \in Nat /\ t \in Nat /\ term[i] <= t
  BY <1>1, TermsGrow DEF TermsOrdered, TypeInv
<1>4. Append(l, e) \in Log /\ Goes(Append(l, e), log[i], t)
  BY <1>1, <1>2, <1>3, GoesAppend
<1>5. Ordered(Whole(Append(l, e)), term'[i])
  BY <1>1, <1>3, <1>4, OrderedGoes
<1>6. TermsOrdered'
  BY <1>1, <1>2, <1>4, <1>5, OrderStays
<1>7. LeadersElected'
  <2> SUFFICES ASSUME NEW j \in Server, role'[j] = "leader"
               PROVE  \E u \in Term : Decided(u)' /\ term'[j] = u
    BY DEF LeadersElected, Decided, Voted
  <2>1. CASE j = i
    BY <1>1, <2>1
  <2>2. CASE j # i
    <3>1. term[j] \in Term /\ term'[j] = term[j] /\ Decided(term[j])
      BY <1>1, <2>2 DEF LeadersElected, TypeInv, TypeOK
    <3>2. PICK u \in Term : Decided(u) /\ term'[j] = u
      BY <3>1
    <3> QED  BY <1>1, <3>2, DecidedKept
  <2> QED  BY <2>1, <2>2
<1>8. OneLeader'
  BY <1>1 DEF OneLeader
<1> QED  BY <1>1, <1>6, <1>7, <1>8 DEF ElectInv

LEMMA NextElectInv ==
    ASSUME ReplicationAssumption, ElectInv, [Next]_vars
    PROVE  ElectInv'
BY StepKinds, HandleReqTakes, QuietElect, TakesElect, LeadsElect DEF ElectInv

-----------------------------------------------------------------------------
(* What holds up to a settled term T.                                      *)

\* what Settled(T) after a step says of it
LEMMA StaysSettled ==
    ASSUME NEW T \in Term, Settled(T)', late \subseteq late'
    PROVE  Settled(T) /\ \A t \in late' : T < t
BY DEF Settled

\* who leads a term up to T after the step did so before it, with the same log
LeadersKeptTo(T) ==
    \A i \in Server : role'[i] = "leader" /\ term'[i] <= T =>
        role[i] = "leader" /\ term'[i] = term[i] /\ log'[i] = log[i]

\* Without new entries and leaders, only the matching has to be shown.
LEMMA NothingNew ==
    ASSUME ReplicationAssumption, TypeInv, TypeInv', NEW T \in Term, TermInv(T),
           PiecesMatch(T)', VotesKept, LeadersKeptTo(T),
           \A a \in Pieces' : \A k \in Inside(a) : At(a, k).term <= T =>
               \E b \in Pieces : k \in Inside(b) /\ At(b, k) = At(a, k)
    PROVE  TermInv(T)'
<1>1. ASSUME NEW a \in Pieces', NEW k \in Inside(a), At(a, k).term <= T
      PROVE  Decided(At(a, k).term)'
  <2>1. PICK b \in Pieces : k \in Inside(b) /\ At(b, k) = At(a, k)
    BY <1>1
  <2>2. Piece(b)
    BY PieceType DEF TypeInv, Pieces
  <2>3. At(b, k).term \in Term
    BY <2>1, <2>2, PieceInside DEF Entry
  <2>4. Decided(At(b, k).term)
    BY <1>1, <2>1 DEF TermInv, EntriesElected
  <2>5. PICK t \in Term : Decided(t) /\ t = At(a, k).term
    BY <2>1, <2>3, <2>4
  <2>6. Decided(t)'
    BY <2>5, DecidedKept
  <2> QED  BY <2>5, <2>6 DEF Decided, Voted
<1>2. EntriesElected(T)'
  BY <1>1 DEF EntriesElected
<1>3. OwnEntries(T)'
  <2> SUFFICES ASSUME NEW i \in Server, role'[i] = "leader", term'[i] <= T,
                      NEW a \in Pieces', NEW k \in Inside(a),
                      At(a, k).term = term'[i]
               PROVE  k <= Len(log'[i])
    BY DEF OwnEntries
  <2>1. PICK b \in Pieces : k \in Inside(b) /\ At(b, k) = At(a, k)
    OBVIOUS
  <2>2. role[i] = "leader" /\ term'[i] = term[i] /\ log'[i] = log[i]
    BY DEF LeadersKeptTo
  <2> QED  BY <2>1, <2>2 DEF TermInv, OwnEntries
<1> QED  BY <1>2, <1>3 DEF TermInv

\* A log changes into one that matches everything, and requests are made of
\* what is there then.
LEMMA OneLogMatches ==
    ASSUME TypeInv, TypeInv', NEW T \in Term, PiecesMatch(T), RequestsFrom,
           NEW i \in Server, NEW new \in Log, log' = [log EXCEPT ![i] = new],
           \A b \in Pieces : Match(T, Whole(new), b)
    PROVE  /\ PiecesMatch(T)'
           /\ \A a \in Pieces' : \A k \in Inside(a) :
                \E b \in Pieces \union {Whole(new)} :
                    k \in Inside(b) /\ At(b, k) = At(a, k)
<1> DEFINE middle == PiecesOf(log', reqs)
<1>1. /\ log \in [Server -> Log] /\ log' \in [Server -> Log]
      /\ reqs \in SUBSET SmallRequest /\ reqs' \in SUBSET SmallRequest
      /\ log'[i] = new /\ \A j \in Server : j # i => log'[j] = log[j]
  BY DEF TypeInv
<1>2. \A a, b \in middle : Match(T, a, b)
  BY LogMatches
<1>3. /\ \A r \in reqs \union reqs' : Piece(r)
      /\ \A j \in Server : Whole(log'[j]) \in middle
      /\ reqs \subseteq middle
  BY <1>1 DEF Piece, SmallRequest, Request, Index, PiecesOf
<1>4. ASSUME NEW r \in reqs'
      PROVE  \E b \in middle : IsPart(r, b)
  <2>1. CASE \E q \in reqs : SameRequest(r, q)
    BY <1>3, <2>1, PartSelf DEF SameRequest
  <2>2. ASSUME NEW j \in Server, Sent(r, j, term'[j], log'[j], quick'[j])
        PROVE  \E b \in middle : IsPart(r, b)
    BY <1>3, <2>2 DEF Sent
  <2> QED  BY <2>1, <2>2 DEF RequestsFrom
<1>5. PiecesMatch(T)'
  <2>1. \A a, b \in PiecesOf(log', reqs') : Match(T, a, b)
    BY <1>1, <1>2, <1>4, PartsMatch
  <2> QED  BY <2>1 DEF PiecesMatch, Pieces, PiecesOf
<1>6. ASSUME NEW a \in Pieces', NEW k \in Inside(a)
      PROVE  \E b \in Pieces \union {Whole(new)} : k \in Inside(b) /\ At(b, k) = At(a, k)
  <2>1. middle \subseteq Pieces \union {Whole(new)}
    BY <1>1 DEF Pieces, PiecesOf
  <2>2. CASE a \in reqs'
    <3>1. PICK b \in middle : IsPart(a, b)
      BY <1>4, <2>2
    <3> QED  BY <2>1, <3>1 DEF IsPart
  <2>3. CASE a \notin reqs'
    <3>1. a \in middle
      BY <2>3 DEF Pieces, PiecesOf
    <3> QED  BY <2>1, <3>1
  <2> QED  BY <2>2, <2>3
<1> QED  BY <1>5, <1>6

\* Entries of later terms do not matter.
LEMMA Strays ==
    ASSUME ReplicationAssumption, TypeInv, TypeInv', NEW T \in Term, TermInv(T),
           VotesKept, LeadersKeptTo(T), RequestsFrom,
           NEW i \in Server, NEW new \in Log, log' = [log EXCEPT ![i] = new],
           Extends(new, log[i]),
           \A m \in Len(log[i]) + 1 .. Len(new) : new[m].term > T
    PROVE  TermInv(T)'
<1>1. /\ log[i] \in Log /\ T \in Nat /\ Whole(log[i]) \in Pieces
      /\ \A b \in Pieces : Piece(b)
  <2>1. log[i] \in Log /\ T \in Nat
    BY DEF TypeInv, Term
  <2>2. Whole(log[i]) \in Pieces
    BY DEF Pieces, PiecesOf
  <2>3. \A b \in Pieces : Piece(b)
    BY PieceType DEF TypeInv, Pieces
  <2> QED  BY <2>1, <2>2, <2>3
<1>2. PiecesMatch(T)
  BY DEF TermInv
<1>3. ASSUME NEW b \in Pieces
      PROVE  Match(T, Whole(new), b)
  <2>1. Match(T, Whole(log[i]), b) /\ Piece(b)
    BY <1>1, <1>2 DEF PiecesMatch
  <2> QED  BY <1>1, <2>1, StrayMatch
<1>4. /\ PiecesMatch(T)'
      /\ \A a \in Pieces' : \A k \in Inside(a) :
           \E b \in Pieces \union {Whole(new)} :
               k \in Inside(b) /\ At(b, k) = At(a, k)
  BY <1>2, <1>3, OneLogMatches
<1>5. ASSUME NEW k \in Inside(Whole(new)), At(Whole(new), k).term <= T
      PROVE  \E b \in Pieces : k \in Inside(b) /\ At(b, k) = At(Whole(new), k)
  <2>1. /\ log[i] \in Seq(Entry) /\ new \in Seq(Entry)
        /\ Len(log[i]) \in Nat /\ Len(new) \in Nat
    BY <1>1, LenProperties DEF Log
  <2>2. k \in 1..Len(new) /\ At(Whole(new), k) = new[k]
    BY <2>1, WholePiece
  <2>3. new[k].term \in Nat
    <3>1. new[k] \in Entry
      BY <2>1, <2>2, ElementOfSeq
    <3> QED  BY <3>1 DEF Entry, Term
  <2>4. k \in 1..Len(log[i])
    <3>1. ~(k \in Len(log[i]) + 1 .. Len(new))
      BY <1>1, <1>5, <2>2, <2>3
    <3> QED  BY <2>1, <2>2, <3>1
  <2>5. k \in Inside(Whole(log[i]))
    BY <2>1, <2>4, WholePiece
  <2>6. At(Whole(new), k) = At(Whole(log[i]), k)
    BY <1>1, <2>5, WholeExtends
  <2> QED  BY <1>1, <2>5, <2>6
<1>6. ASSUME NEW a \in Pieces', NEW k \in Inside(a), At(a, k).term <= T
      PROVE  \E b \in Pieces : k \in Inside(b) /\ At(b, k) = At(a, k)
  <2>1. PICK b \in Pieces \union {Whole(new)} : k \in Inside(b) /\ At(b, k) = At(a, k)
    BY <1>4
  <2>2. CASE b \in Pieces
    BY <2>1, <2>2
  <2>3. CASE b = Whole(new)
    BY <1>5, <1>6, <2>1, <2>3
  <2> QED  BY <2>1, <2>2, <2>3
<1> QED  BY <1>4, <1>6, NothingNew

LEMMA QuietTerm ==
    ASSUME ReplicationAssumption, LogInv, NEW i \in Server, Quiet(i),
           NEW T \in Term, Settled(T)'
    PROVE  TermInv(T)'
<1>1. TypeInv /\ TypeInv' /\ VotesKept /\ RequestsFrom /\ LeadersKeptTo(T)
  BY DEF LogInv, ElectInv, Quiet, LeadersKept, LeadersKeptTo
<1>2. PICK new \in Log : /\ log' = [log EXCEPT ![i] = new]
                         /\ Goes(new, log[i], term'[i])
                         /\ new = log[i] \/ term'[i] \in late'
  BY DEF Quiet, ServedLate
<1>3. late \subseteq late'
  BY DEF Quiet, ServedLate
<1>4. Settled(T) /\ \A t \in late' : T < t
  BY <1>3, StaysSettled
<1>5. TermInv(T)
  BY <1>4 DEF LogInv
<1>6. ASSUME NEW m \in Len(log[i]) + 1 .. Len(new)
      PROVE  new[m].term > T
  <2>1. log[i] \in Log /\ Len(log[i]) \in Nat
    BY <1>1, LenProperties DEF TypeInv, Log
  <2>2. new # log[i]
    BY <2>1
  <2>3. T < term'[i]
    BY <1>2, <1>4, <2>2
  <2>4. new[m].term = term'[i]
    BY <1>2 DEF Goes
  <2> QED  BY <2>3, <2>4
<1> QED  BY <1>1, <1>2, <1>5, <1>6, Strays DEF Goes

LEMMA TakesTerm ==
    ASSUME ReplicationAssumption, LogInv, NEW q \in reqs, NEW j \in Server,
           Takes(q, j), NEW T \in Term, Settled(T)'
    PROVE  TermInv(T)'
<1>1. /\ TypeInv /\ TypeInv' /\ VotesKept /\ LeadersKeptTo(T) /\ reqs' \subseteq reqs
      /\ RequestsFrom /\ TermsOrdered
  BY ReqsKept DEF LogInv, ElectInv, Takes, LeadersKept, LeadersKeptTo
<1>2. PICK new \in Log : /\ log' = [log EXCEPT ![j] = new]
                         /\ \/ new = log[j]
                            \/ LogOkay(log[j], q) /\ Taken(log[j], q, new)
  BY DEF Takes
<1>3. TermInv(T) /\ PiecesMatch(T)
  BY DEF Takes, Settled, LogInv, TermInv
<1>4. /\ log[j] \in Log /\ q \in SmallRequest /\ T \in Nat /\ Ordered(q, q.term)
      /\ q \in Pieces /\ Whole(log[j]) \in Pieces
      /\ \A b \in Pieces : Piece(b)
  BY <1>1, PieceType DEF TypeInv, Term, Pieces, PiecesOf, TermsOrdered
<1>5. CASE new = log[j]
  <2>1. Len(log[j]) \in Nat /\ Extends(log[j], log[j])
    BY <1>4, LenProperties, ExtendsSame DEF Log
  <2>2. \A m \in Len(log[j]) + 1 .. Len(new) : FALSE
    BY <1>5, <2>1
  <2> QED  BY <1>1, <1>2, <1>3, <1>5, <2>1, <2>2, Strays
<1>6. CASE LogOkay(log[j], q) /\ Taken(log[j], q, new)
  <2>1. ASSUME NEW b \in Pieces
        PROVE  Match(T, Whole(new), b)
    <3>1. /\ Match(T, Whole(log[j]), q) /\ Match(T, Whole(log[j]), b)
          /\ Match(T, q, b) /\ Piece(b)
      BY <1>3, <1>4 DEF PiecesMatch
    <3> QED  BY <1>4, <1>6, <3>1, TakenMatch
  <2>2. /\ PiecesMatch(T)'
        /\ \A a \in Pieces' : \A k \in Inside(a) :
             \E b \in Pieces \union {Whole(new)} :
                 k \in Inside(b) /\ At(b, k) = At(a, k)
    BY <1>1, <1>2, <1>3, <2>1, OneLogMatches
  <2>3. ASSUME NEW k \in Inside(Whole(new))
        PROVE  \E b \in Pieces : k \in Inside(b) /\ At(b, k) = At(Whole(new), k)
    <3> DEFINE kept == q.prev + Skipped(log[j], q)
    <3>1. /\ log[j] \in Seq(Entry) /\ new \in Seq(Entry) /\ Len(log[j]) \in Nat
          /\ q.prev \in Nat /\ End(q) \in Nat
      BY <1>4, PieceInside, LenProperties DEF Piece, Log
    <3>2. Skipped(log[j], q) \in Nat
      <4>1. Len(q.entries) \in Nat
        BY <1>4, LenProperties DEF SmallRequest, Request
      <4> QED  BY <1>4, <4>1, SkippedFits
    <3>3. /\ kept \in Nat /\ kept >= q.prev /\ kept <= Len(log[j])
          /\ Len(new) = End(q)
          /\ \A m \in 1..kept : new[m] = log[j][m]
          /\ \A m \in kept + 1 .. End(q) : new[m] = At(q, m)
      BY <1>6, <3>1, <3>2 DEF Taken
    <3> HIDE DEF kept
    <3>4. k \in 1..End(q) /\ At(Whole(new), k) = new[k]
      BY <3>1, <3>3, WholePiece
    <3>5. CASE k <= kept
      <4>1. k \in 1..Len(log[j]) /\ new[k] = log[j][k]
        BY <3>1, <3>3, <3>4, <3>5
      <4>2. k \in Inside(Whole(log[j])) /\ At(Whole(log[j]), k) = log[j][k]
        BY <3>1, <4>1, WholePiece
      <4> QED  BY <1>4, <3>4, <4>1, <4>2
    <3>6. CASE ~(k <= kept)
      <4>1. k \in kept + 1 .. End(q) /\ k \in Inside(q)
        BY <3>1, <3>3, <3>4, <3>6 DEF Inside
      <4> QED  BY <1>4, <3>3, <3>4, <4>1
    <3> QED  BY <3>5, <3>6
  <2>4. \A a \in Pieces' : \A k \in Inside(a) :
            \E b \in Pieces : k \in Inside(b) /\ At(b, k) = At(a, k)
    BY <2>2, <2>3
  <2> QED  BY <1>1, <1>3, <2>2, <2>4, NothingNew
<1> QED  BY <1>2, <1>5, <1>6

\* The leader of a settled term has served nothing meanwhile.
LEMMA LeadsSettled ==
    ASSUME ReplicationAssumption, LogInv, NEW i \in Server, NEW t \in Term,
           NEW e \in Entry, Leads(i, t, e), NEW T \in Term, Settled(T)', t <= T,
           TermInv(T)
    PROVE  /\ log' = [log EXCEPT ![i] = Append(log[i], e)]
           /\ Len(log[i]) \in Nat /\ Append(log[i], e) \in Log
           /\ Len(log'[i]) = Len(log[i]) + 1 /\ log'[i][Len(log[i]) + 1] = e
           /\ \A m \in 1..Len(log[i]) : log'[i][m] = log[i][m]
           /\ \A b \in Pieces : \A k \in Inside(b) :
                At(b, k).term = t => k <= Len(log[i])
<1>1. TypeInv /\ TypeInv' /\ late \subseteq late'
  BY DEF LogInv, ElectInv, Leads
<1>2. PICK l \in Log : /\ Len(l) < MaxLog /\ Goes(l, log[i], t)
                       /\ l = log[i] \/ t \in late'
                       /\ log' = [log EXCEPT ![i] = Append(l, e)]
  BY DEF Leads
<1>3. T \in Nat /\ t \in Nat /\ T >= t
  BY DEF Term
<1>4. l = log[i]
  <2>1. \A u \in late' : T < u
    BY <1>1, StaysSettled
  <2> QED  BY <1>2, <1>3, <2>1
<1>5. log[i] \in Seq(Entry) /\ Len(log[i]) \in Nat /\ log[i] \in Log
  BY <1>1, LenProperties DEF TypeInv, Log
<1>6. ASSUME NEW b \in Pieces, NEW k \in Inside(b), At(b, k).term = t
      PROVE  k <= Len(log[i])
  <2>1. CASE role[i] = "leader" /\ term[i] = t
    BY <1>6, <2>1 DEF TermInv, OwnEntries
  <2>2. CASE ~Decided(t)
    BY <1>6, <2>2 DEF TermInv, EntriesElected
  <2> QED  BY <2>1, <2>2 DEF Leads
<1>7. log'[i] = Append(log[i], e)
  BY <1>1, <1>2, <1>4 DEF TypeInv
<1> QED  BY <1>2, <1>4, <1>5, <1>6, <1>7, AppendType, AppendProperties

LEMMA LeadsTerm ==
    ASSUME ReplicationAssumption, LogInv, NEW i \in Server, NEW t \in Term,
           NEW e \in Entry, Leads(i, t, e), NEW T \in Term, Settled(T)'
    PROVE  TermInv(T)'
<1>1. /\ TypeInv /\ TypeInv' /\ VotesKept /\ RequestsFrom
      /\ term'[i] = t /\ e.term = t /\ Decided(t)' /\ late \subseteq late'
      /\ \A j \in Server \ {i} : role'[j] = "leader" =>
             role[j] = "leader" /\ term'[j] = term[j] /\ term[j] # t
  BY DEF LogInv, ElectInv, Leads
<1>2. Settled(T) /\ TermInv(T) /\ T \in Nat /\ t \in Nat
  BY <1>1, StaysSettled DEF LogInv, Term
<1>3. log[i] \in Log
  BY <1>1 DEF TypeInv
\* nobody sees an entry of a later term
<1>4. CASE t > T
  <2>1. PICK l \in Log : /\ Len(l) < MaxLog /\ Goes(l, log[i], t)
                         /\ log' = [log EXCEPT ![i] = Append(l, e)]
    BY DEF Leads
  <2>2. Append(l, e) \in Log /\ Goes(Append(l, e), log[i], t)
    BY <1>1, <1>3, <2>1, GoesAppend
  <2>3. LeadersKeptTo(T)
    <3>1. \A j \in Server : j # i => log'[j] = log[j]
      BY <1>1, <2>1 DEF TypeInv
    <3> QED  BY <1>1, <1>2, <1>4, <3>1 DEF LeadersKeptTo
  <2>4. /\ Extends(Append(l, e), log[i])
        /\ \A m \in Len(log[i]) + 1 .. Len(Append(l, e)) : Append(l, e)[m].term > T
    BY <1>4, <2>2 DEF Goes
  <2> QED  BY <1>1, <1>2, <2>1, <2>2, <2>3, <2>4, Strays
<1>5. CASE ~(t > T)
  <2> DEFINE new == Append(log[i], e)
  <2>1. t <= T
    BY <1>2, <1>5
  <2>2. /\ log' = [log EXCEPT ![i] = new]
        /\ Len(log[i]) \in Nat /\ new \in Log /\ log'[i] = new
        /\ Len(log'[i]) = Len(log[i]) + 1 /\ log'[i][Len(log[i]) + 1] = e
        /\ \A m \in 1..Len(log[i]) : log'[i][m] = log[i][m]
        /\ \A b \in Pieces : \A k \in Inside(b) :
             At(b, k).term = t => k <= Len(log[i])
    BY <1>1, <1>2, <2>1, LeadsSettled DEF TypeInv
  <2>3. /\ \A b \in Pieces : Piece(b)
        /\ Whole(log[i]) \in Pieces /\ log[i] \in Seq(Entry) /\ PiecesMatch(T)
    BY <1>1, <1>2, <1>3, PieceType DEF TypeInv, Pieces, PiecesOf, Log, TermInv
  <2>4. ASSUME NEW b \in Pieces
        PROVE  Match(T, Whole(new), b)
    <3>1. Match(T, Whole(log[i]), b) /\ Piece(b)
      BY <2>3 DEF PiecesMatch
    <3>2. \A k \in Inside(b) : At(b, k).term = e.term => k <= Len(log[i])
      BY <1>1, <2>2
    <3> QED  BY <2>3, <3>1, <3>2, AppendMatch
  <2> HIDE DEF new
  <2>6. /\ PiecesMatch(T)'
        /\ \A a \in Pieces' : \A k \in Inside(a) :
             \E b \in Pieces \union {Whole(new)} :
                 k \in Inside(b) /\ At(b, k) = At(a, k)
    BY <1>1, <2>2, <2>3, <2>4, OneLogMatches
  \* every entry is old, or the leader's new one
  <2>7. ASSUME NEW a \in Pieces', NEW k \in Inside(a)
        PROVE  \/ \E b \in Pieces : k \in Inside(b) /\ At(b, k) = At(a, k)
               \/ k = Len(log[i]) + 1 /\ At(a, k) = e
    <3>1. PICK b \in Pieces \union {Whole(new)} : k \in Inside(b) /\ At(b, k) = At(a, k)
      BY <2>6
    <3>2. CASE b = Whole(new)
      <4>1. new \in Seq(Entry)
        BY <2>2 DEF Log
      <4>2. k \in 1..Len(log[i]) + 1 /\ At(b, k) = new[k]
        BY <2>2, <3>1, <3>2, <4>1, WholePiece
      <4>3. CASE k = Len(log[i]) + 1
        BY <2>2, <3>1, <4>2, <4>3
      <4>4. CASE k # Len(log[i]) + 1
        <5>1. k \in 1..Len(log[i]) /\ new[k] = log[i][k]
          BY <2>2, <4>2, <4>4
        <5>2. k \in Inside(Whole(log[i])) /\ At(Whole(log[i]), k) = log[i][k]
          BY <2>3, <5>1, WholePiece
        <5> QED  BY <2>3, <3>1, <4>2, <5>1, <5>2
      <4> QED  BY <4>3, <4>4
    <3> QED  BY <3>1, <3>2
  <2>8. ASSUME NEW u \in Term, Decided(u) \/ u = t
        PROVE  Decided(u)'
    <3>1. CASE u = t
      BY <1>1, <3>1 DEF Decided, Voted
    <3> QED  BY <1>1, <2>8, <3>1, DecidedKept
  <2>9. EntriesElected(T)'
    <3> SUFFICES ASSUME NEW a \in Pieces', NEW k \in Inside(a), At(a, k).term <= T
                 PROVE  \E u \in Term : Decided(u)' /\ At(a, k).term = u
      BY DEF EntriesElected, Decided, Voted
    <3>1. CASE \E b \in Pieces : k \in Inside(b) /\ At(b, k) = At(a, k)
      <4>1. PICK b \in Pieces : k \in Inside(b) /\ At(b, k) = At(a, k)
        BY <3>1
      <4>2. At(b, k).term \in Term
        BY <2>3, <4>1, PieceInside DEF Entry
      <4>3. Decided(At(b, k).term)
        BY <1>2, <4>1 DEF TermInv, EntriesElected
      <4>4. PICK u \in Term : Decided(u) /\ At(a, k).term = u
        BY <4>1, <4>2, <4>3
      <4> QED  BY <2>8, <4>4
    <3>2. CASE At(a, k) = e
      BY <1>1, <2>8, <3>2
    <3> QED  BY <2>7, <3>1, <3>2
  <2>10. OwnEntries(T)'
    <3> SUFFICES ASSUME NEW j \in Server, role'[j] = "leader", term'[j] <= T,
                        NEW a \in Pieces', NEW k \in Inside(a),
                        At(a, k).term = term'[j]
                 PROVE  k <= Len(log'[j])
      BY DEF OwnEntries
    <3>1. CASE \E b \in Pieces : k \in Inside(b) /\ At(b, k) = At(a, k)
      <4>1. PICK b \in Pieces : k \in Inside(b) /\ At(b, k) = At(a, k)
        BY <3>1
      <4>2. k \in Nat
        BY <2>3, <4>1, PieceInside
      <4>3. CASE j = i
        <5>1. k <= Len(log[i])
          BY <1>1, <2>2, <4>1, <4>3
        <5> QED  BY <2>2, <4>2, <4>3, <5>1
      <4>4. CASE j # i
        <5>1. log'[j] = log[j] /\ role[j] = "leader" /\ term'[j] = term[j]
          BY <1>1, <2>2, <4>4 DEF TypeInv
        <5> QED  BY <1>2, <4>1, <5>1 DEF TermInv, OwnEntries
      <4> QED  BY <4>3, <4>4
    <3>2. CASE k = Len(log[i]) + 1 /\ At(a, k) = e
      <4>1. j = i
        BY <1>1, <3>2
      <4> QED  BY <2>2, <3>2, <4>1
    <3> QED  BY <2>7, <3>1, <3>2
  <2> QED  BY <2>6, <2>9, <2>10 DEF TermInv
<1> QED  BY <1>4, <1>5

-----------------------------------------------------------------------------
LEMMA InitLogInv ==
    ASSUME ReplicationAssumption, Init
    PROVE  LogInv
<1>1. TypeInv
  BY InitTypeInv
<1>2. \A a \in Pieces : Inside(a) = {}
  <2>1. \A a \in Pieces : a = Whole(<< >>)
    BY DEF Pieces, PiecesOf, Init
  <2>2. << >> \in Seq(Entry) /\ Len(<< >>) = 0
    BY EmptySeq
  <2>3. Inside(Whole(<< >>)) = 1..0
    BY <2>2, WholePiece
  <2> QED  BY <2>1, <2>3
<1>3. \A i \in Server : role[i] # "leader"
  BY DEF Init
<1>4. TermsOrdered
  BY <1>2 DEF TermsOrdered, Ordered, Pieces, PiecesOf
<1>5. ElectInv
  BY <1>1, <1>3, <1>4 DEF ElectInv, LeadersElected, OneLeader
<1>6. \A T \in Term : TermInv(T)
  BY <1>2, <1>3 DEF TermInv, PiecesMatch, Match, EntriesElected, OwnEntries
<1> QED  BY <1>5, <1>6 DEF LogInv

LEMMA NextLogInv ==
    ASSUME ReplicationAssumption, LogInv, [Next]_vars
    PROVE  LogInv'
<1>1. ElectInv /\ ElectInv'
  BY NextElectInv DEF LogInv
<1>2. ASSUME NEW T \in Term, Settled(T)'
      PROVE  TermInv(T)'
  BY <1>1, <1>2, StepKinds, HandleReqTakes, QuietTerm, TakesTerm, LeadsTerm DEF ElectInv
<1> QED  BY <1>1, <1>2 DEF LogInv

\* Matching pieces are matching logs.
LEMMA MatchingLogs == LogInv => SettledLogsMatch
<1> SUFFICES ASSUME LogInv, NEW i \in Server, NEW j \in Server,
                    NEW k \in 1..Smaller(Len(log[i]), Len(log[j])),
                    Settled(log[i][k].term), log[i][k].term = log[j][k].term
             PROVE  SubSeq(log[i], 1, k) = SubSeq(log[j], 1, k)
  BY DEF SettledLogsMatch
<1>1. /\ log[i] \in Seq(Entry) /\ log[j] \in Seq(Entry)
      /\ Len(log[i]) \in Nat /\ Len(log[j]) \in Nat
      /\ Whole(log[i]).prev = 0 /\ Whole(log[j]).prev = 0
  BY LenProperties DEF LogInv, ElectInv, TypeInv, Log, Whole
<1>2. k \in 1..Len(log[i]) /\ k \in 1..Len(log[j]) /\ k \in Nat
  BY <1>1 DEF Smaller
<1>3. PICK T \in Term : T = log[i][k].term
  <2>1. log[i][k] \in Entry
    BY <1>1, <1>2, ElementOfSeq
  <2> QED  BY <2>1 DEF Entry
<1>4. Match(T, Whole(log[i]), Whole(log[j])) /\ T <= T
  <2>1. Settled(T) /\ T \in Nat
    BY <1>3 DEF Term
  <2>2. PiecesMatch(T)
    BY <1>3, <2>1 DEF LogInv, TermInv
  <2>3. Whole(log[i]) \in Pieces /\ Whole(log[j]) \in Pieces
    BY DEF Pieces, PiecesOf
  <2>4. Match(T, Whole(log[i]), Whole(log[j]))
    BY <2>2, <2>3 DEF PiecesMatch
  <2> QED  BY <2>1, <2>4
<1>5. ASSUME NEW m \in 1..k
      PROVE  log[i][m] = log[j][m]
  <2>1. /\ k \in Inside(Whole(log[i])) \cap Inside(Whole(log[j]))
        /\ At(Whole(log[i]), k) = log[i][k] /\ At(Whole(log[j]), k) = log[j][k]
        /\ At(Whole(log[i]), m) = log[i][m] /\ At(Whole(log[j]), m) = log[j][m]
    BY <1>1, <1>2, WholePiece
  <2>2. m \in 0..k /\ m > 0
    BY <1>2
  <2> QED  BY <1>1, <1>3, <1>4, <2>1, <2>2 DEF Match
<1>6. ASSUME NEW l \in Seq(Entry), k \in 1..Len(l)
      PROVE  /\ SubSeq(l, 1, k) \in Seq(Entry) /\ Len(SubSeq(l, 1, k)) = k
             /\ \A m \in 1..k : SubSeq(l, 1, k)[m] = l[m]
  <2>1. \A m \in 1..k : l[m] \in Entry
    BY <1>6, ElementOfSeq
  <2>2. /\ SubSeq(l, 1, k) \in Seq(Entry)
        /\ Len(SubSeq(l, 1, k)) = IF 1 <= k THEN k - 1 + 1 ELSE 0
        /\ \A m \in 1..k - 1 + 1 : SubSeq(l, 1, k)[m] = l[1 + m - 1]
    BY <1>2, <2>1, SubSeqProperties
  <2> QED  BY <1>2, <2>2
<1> QED  BY <1>1, <1>2, <1>5, <1>6, SeqEqual

\* Logs with the same term at an index are the same up to there if the term is
\* settled, whatever is lost, repeated, overtaken or restarted, and however
\* many entries a leader that has heard of a later term stores in the window
\* of dual_mutex: what a follower skips as already existing is what the leader
\* has.
THEOREM LogsMatch == Spec => []SettledLogsMatch
<1>1. Init => LogInv
  BY InitLogInv, ReplicationAssumption
<1>2. LogInv /\ [Next]_vars => LogInv'
  BY NextLogInv, ReplicationAssumption
<1> QED  BY <1>1, <1>2, MatchingLogs, PTL DEF Spec


-----------------------------------------------------------------------------
(***************************************************************************)
(* What accepting answers of settled terms say is true.                    *)
(*                                                                         *)
(* A request of a leader's term is a piece of that leader's log as it is   *)
(* now (FromLeader), because the leader's log only grows and there was     *)
(* neither a request nor an accepting answer of the term before a majority *)
(* had voted in it (RequestsElected, AnswersElected).  The follower        *)
(* compares one entry, which makes the logs agree up to there if the term  *)
(* is settled (LogInv), skips entries of the same terms, for the same      *)
(* reason, and takes the others.  A later request cannot take back what an *)
(* answer says: it conflicts with the follower's log only where that       *)
(* differs from the leader's.                                              *)
(***************************************************************************)
RequestsElected == \A q \in reqs : Decided(q.term)
AnswersElected ==
    \A p \in resps : p.accepted => Decided(p.term) /\ p.term <= term[p.src]
FromLeader ==
    \A i \in Server : role[i] = "leader" =>
        \A q \in reqs : q.term = term[i] => Sent(q, i, term[i], log[i], quick[i])

AnswerInv ==
    LogInv /\ RequestsElected /\ AnswersElected /\ FromLeader /\ AnswersAreTrue

LEMMA SentStays ==
    ASSUME ReplicationAssumption,
           NEW q \in SmallRequest, NEW i, NEW t, NEW k \in Log, NEW l \in Log,
           NEW c \in Index, NEW d \in Index,
           Sent(q, i, t, k, c), Extends(l, k), c <= d
    PROVE  Sent(q, i, t, l, d)
<1>4. q.commit <= d
  <2>1. q.commit <= c /\ q.commit \in Nat /\ c \in Nat /\ d \in Nat
    BY DEF Sent, SmallRequest, Request, Index
  <2> QED  BY <2>1
<1>1. /\ Piece(q) /\ q.prev \in Nat /\ Len(k) \in Nat /\ Len(l) \in Nat
      /\ Len(k) <= Len(l) /\ \A m \in 1..Len(k) : l[m] = k[m]
      /\ IsPart(q, Whole(k))
  BY LenProperties DEF Piece, Log, Extends, SmallRequest, Request, Index, Sent
<1>2. IsPart(q, Whole(l))
  BY <1>1, PartExtends
<1>3. \/ q.prev <= Len(l) /\ q.prevTerm = TermAt(l, q.prev)
      \/ q.prev > 0 /\ q.prevTerm = 0
  <2>1. CASE q.prev <= Len(k) /\ q.prevTerm = TermAt(k, q.prev)
    BY <1>1, <2>1 DEF TermAt
  <2> QED  BY <2>1 DEF Sent
<1> QED  BY <1>2, <1>3, <1>4 DEF Sent

LEMMA RequestsStayElected ==
    ASSUME ReplicationAssumption, AnswerInv, ElectInv', VotesKept, RequestsFrom
    PROVE  RequestsElected'
<1> SUFFICES ASSUME NEW q \in reqs'
             PROVE  \E t \in Term : Decided(t)' /\ q.term = t
  BY DEF RequestsElected, Decided, Voted
<1>1. TypeInv /\ TypeInv'
  BY DEF AnswerInv, LogInv, ElectInv
<1>2. ASSUME NEW r \in reqs, q.term = r.term
      PROVE  \E t \in Term : Decided(t)' /\ q.term = t
  <2>1. PICK t \in Term : t = r.term /\ Decided(t)
    BY <1>1 DEF AnswerInv, RequestsElected, TypeInv, SmallRequest, Request
  <2> QED  BY <1>1, <1>2, <2>1, DecidedKept
<1>3. ASSUME NEW i \in Server, role'[i] = "leader", q.term = term'[i]
      PROVE  \E t \in Term : Decided(t)' /\ q.term = t
  <2>1. PICK t \in Term : t = term'[i]
    BY <1>1 DEF TypeInv, TypeOK
  <2>2. Decided(t)'
    BY <1>3, <2>1 DEF ElectInv, LeadersElected, Decided, Voted
  <2> QED  BY <1>3, <2>1, <2>2
<1> QED  BY <1>2, <1>3 DEF RequestsFrom, SameRequest, Sent

LEMMA AnswersStayElected ==
    ASSUME ReplicationAssumption, AnswerInv, TypeInv', VotesKept,
           NEW p \in resps, p.accepted
    PROVE  /\ \E t \in Term : Decided(t)' /\ p.term = t
           /\ p.term <= term'[p.src]
<1>1. TypeInv /\ TypeInv'
  BY DEF AnswerInv, LogInv, ElectInv
<1>2. p.src \in Server /\ p.term \in Nat
  BY <1>1 DEF TypeInv, TypeOK, Response, Term
<1>3. PICK t \in Term : t = p.term /\ Decided(t)
  BY <1>1 DEF AnswerInv, AnswersElected, TypeInv, TypeOK, Response
<1>4. Decided(t)'
  BY <1>1, <1>3, DecidedKept
<1>5. p.term <= term'[p.src]
  <2>1. p.term <= term[p.src]
    BY DEF AnswerInv, AnswersElected
  <2> QED  BY <1>1, <1>2, <2>1, TermsGrow
<1> QED  BY <1>3, <1>4, <1>5

\* a leader was that before, or is the first of its term
LeadersKnown ==
    \A i \in Server : role'[i] = "leader" =>
        (role[i] = "leader" /\ term'[i] = term[i]) \/ ~Decided(term'[i])

\* a leader's commit index does not go back
LeadersCommit == \A i \in Server : role'[i] = "leader" => quick[i] <= quick'[i]

\* requests of a leader's term stay pieces of its log
LEMMA StaysFromLeader ==
    ASSUME ReplicationAssumption, AnswerInv, ElectInv', RequestsFrom, LeadersKnown,
           LeadersCommit,
           \A i \in Server : role'[i] = "leader" => Extends(log'[i], log[i])
    PROVE  FromLeader'
<1> SUFFICES ASSUME NEW i \in Server, role'[i] = "leader",
                    NEW q \in reqs', q.term = term'[i]
             PROVE  Sent(q, i, term'[i], log'[i], quick'[i])
  BY DEF FromLeader
<1>1. ASSUME NEW k \in Server, role'[k] = "leader",
             Sent(q, k, term'[k], log'[k], quick'[k])
      PROVE  Sent(q, i, term'[i], log'[i], quick'[i])
  <2>1. k = i
    BY <1>1 DEF ElectInv, OneLeader, Sent
  <2> QED  BY <1>1, <2>1
<1>2. ASSUME NEW r \in reqs, SameRequest(q, r)
      PROVE  Sent(q, i, term'[i], log'[i], quick'[i])
  <2>1. Decided(term'[i])
    BY <1>2 DEF SameRequest, AnswerInv, RequestsElected
  <2>2. role[i] = "leader" /\ term'[i] = term[i]
    BY <2>1 DEF LeadersKnown
  <2>3. Sent(r, i, term'[i], log[i], quick[i])
    BY <1>2, <2>2 DEF SameRequest, AnswerInv, FromLeader
  <2>4. Sent(q, i, term'[i], log[i], quick[i])
    BY <1>2, <2>3 DEF SameRequest, Sent, IsPart, Inside, End, At
  <2>5. /\ q \in SmallRequest /\ log[i] \in Log /\ log'[i] \in Log
        /\ quick[i] \in Index /\ quick'[i] \in Index /\ quick[i] <= quick'[i]
    BY DEF AnswerInv, LogInv, ElectInv, TypeInv, TypeOK, LeadersCommit
  <2> QED  BY <2>4, <2>5, SentStays
<1> QED  BY <1>1, <1>2 DEF RequestsFrom

\* A commit index goes on, except in a restart or when entries are replaced.
LEMMA CommitsGoOn ==
    ASSUME ReplicationAssumption, TypeInv, [Next]_vars
    PROVE  LeadersCommit
<1> SUFFICES ASSUME NEW k \in Server, role'[k] = "leader"
             PROVE  quick[k] <= quick'[k]
  BY DEF LeadersCommit
<1>1. /\ quick \in [Server -> Index] /\ \A j \in Server : quick[j] \in Nat
      /\ role \in [Server -> {"follower", "leader"}]
  BY DEF TypeInv, TypeOK, Index
<1>2. ASSUME quick' = quick
      PROVE  quick[k] <= quick'[k]
  BY <1>1, <1>2
<1>3. ASSUME NEW i \in Server,
             \/ Campaign(i) \/ LearnTerm(i) \/ ClientRequest(i)
             \/ \E voters \in SUBSET Others(i) : Elect(i, voters)
      PROVE  quick' = quick
  BY <1>3 DEF Campaign, LearnTerm, UpdateTerm, ClientRequest, Elect, BecomeLeader
<1>4. ASSUME NEW i \in Server, NEW j \in Server,
             \/ AppendEntriesInBg(i, j) \/ HeartbeatTimeout(i, j)
             \/ Reconnect(i, j) \/ RecreateRpc(i, j)
      PROVE  quick' = quick
  BY <1>4 DEF AppendEntriesInBg, HeartbeatTimeout, RequestAppendEntries, Reconnect, RecreateRpc
<1>5. ASSUME NEW i \in Server, Restart(i)
      PROVE  quick[k] <= quick'[k]
  <2>1. role' = [role EXCEPT ![i] = "follower"] /\ quick' = [quick EXCEPT ![i] = 0]
    BY <1>5 DEF Restart
  <2>2. k # i
    BY <1>1, <2>1
  <2> QED  BY <1>1, <2>1, <2>2
<1>6. ASSUME NEW q \in reqs, HandleAppendEntries(q)
      PROVE  quick[k] <= quick'[k]
  <2>1. CASE Accepts(q)
    <3>1. /\ role' = [role EXCEPT ![q.dst] = "follower"] /\ q.dst \in Server
          /\ \E c : quick' = [quick EXCEPT ![q.dst] = c]
      BY <1>6, <2>1, HandleReqTakes DEF HandleAppendEntries, Accepts, AppendEntries
    <3>2. k # q.dst
      BY <1>1, <3>1
    <3> QED  BY <1>1, <3>1, <3>2
  <2>2. CASE ~Accepts(q)
    BY <1>2, <1>6, <2>2 DEF HandleAppendEntries, Accepts
  <2> QED  BY <2>1, <2>2
<1>7. ASSUME NEW p \in resps, HandleAppendEntriesResp(p)
      PROVE  quick[k] <= quick'[k]
  <2>1. \/ quick' = quick
        \/ \E c : quick' = [quick EXCEPT ![p.dst] = Larger(quick[p.dst], c)]
    BY <1>7 DEF HandleAppendEntriesResp, UpdateTerm, Accepted, Declined
  <2>2. TypeInv' /\ p.dst \in Server
    BY <1>7, HandleRespQuiet DEF Quiet
  <2>3. ASSUME NEW c, quick' = [quick EXCEPT ![p.dst] = Larger(quick[p.dst], c)]
        PROVE  quick[k] <= quick'[k]
    <3>1. quick'[p.dst] \in Nat
      BY <2>2 DEF TypeInv, TypeOK, Index
    <3> QED  BY <1>1, <2>2, <2>3, <3>1 DEF Larger
  <2> QED  BY <1>2, <2>1, <2>3
<1>8. ASSUME NEW p \in resps, FreePeer(p)
      PROVE  quick' = quick
  BY <1>8 DEF FreePeer
<1>9. CASE UNCHANGED vars
  BY <1>2, <1>9 DEF vars
<1> QED  BY <1>2, <1>3, <1>4, <1>5, <1>6, <1>7, <1>8, <1>9 DEF Next

LEMMA AnswerType ==
    ASSUME ReplicationAssumption, TypeInv, NEW p \in resps
    PROVE  p.src \in Server /\ p.dst \in Server /\ p.term \in Term /\ p.next \in Nat
<1>1. p \in Response
  BY DEF TypeInv, TypeOK
<1>2. p.next \in Index \/ p.next = MaxLog + 1
  BY <1>1 DEF Response
<1>3. p.next \in Nat
  BY <1>2 DEF Index, ReplicationAssumption
<1> QED  BY <1>1, <1>3 DEF Response

\* What an accepting answer that still matters said before the step.
LEMMA AnswerBefore ==
    ASSUME ReplicationAssumption, AnswerInv, ElectInv', VotesKept, late \subseteq late',
           NEW p \in resps, p.accepted, Settled(p.term)',
           term'[p.src] = p.term, LeadersKnown,
           role'[p.dst] = "leader", term'[p.dst] = p.term
    PROVE  /\ role[p.dst] = "leader" /\ term[p.dst] = p.term
           /\ p.next <= Smaller(Len(log[p.src]), Len(log[p.dst])) + 1
           /\ \A k \in 1..p.next - 1 : log[p.src][k] = log[p.dst][k]
<1>1. TypeInv /\ TypeInv'
  BY DEF AnswerInv, LogInv, ElectInv
<1>2. p.src \in Server /\ p.dst \in Server /\ p.term \in Term /\ p.term \in Nat
  BY <1>1, AnswerType DEF Term
<1>3. Decided(p.term) /\ p.term <= term[p.src] /\ Settled(p.term)
  BY <1>2, StaysSettled DEF AnswerInv, AnswersElected
<1>4. role[p.dst] = "leader" /\ term[p.dst] = p.term
  BY <1>2, <1>3 DEF LeadersKnown
<1>5. term[p.src] = p.term
  BY <1>1, <1>2, <1>3, TermsGrow
<1> QED  BY <1>3, <1>4, <1>5 DEF AnswerInv, AnswersAreTrue

\* Where logs only grow, what is said of them stays true.
LEMMA AnswersGrow ==
    ASSUME ReplicationAssumption, AnswerInv, LogInv', VotesKept,
           \A i \in Server : Extends(log'[i], log[i]), late \subseteq late',
           LeadersKnown, LeadersCommit, RequestsFrom, AnswersLeft
    PROVE  AnswerInv'
<1>1. TypeInv /\ TypeInv' /\ ElectInv'
  BY DEF AnswerInv, LogInv, ElectInv
<1>2. RequestsElected' /\ FromLeader'
  BY <1>1, RequestsStayElected, StaysFromLeader
<1>3. AnswersElected'
  <2> SUFFICES ASSUME NEW p \in resps', p.accepted
               PROVE  (\E t \in Term : Decided(t)' /\ p.term = t) /\ p.term <= term'[p.src]
    BY DEF AnswersElected, Decided, Voted
  <2>1. PICK r \in resps : r.accepted /\ p.src = r.src /\ p.term = r.term
    BY DEF AnswersLeft
  <2> QED  BY <1>1, <2>1, AnswersStayElected
<1>4. AnswersAreTrue'
  <2> SUFFICES ASSUME NEW p \in resps', p.accepted, Settled(p.term)',
                      role'[p.dst] = "leader",
                      term'[p.dst] = p.term, term'[p.src] = p.term
               PROVE  /\ p.next <= Smaller(Len(log'[p.src]), Len(log'[p.dst])) + 1
                      /\ \A k \in 1..p.next - 1 : log'[p.src][k] = log'[p.dst][k]
    BY DEF AnswersAreTrue, Settled
  <2>1. PICK r \in resps : /\ r.accepted /\ p.src = r.src /\ p.dst = r.dst
                           /\ p.term = r.term /\ p.next = r.next
    BY DEF AnswersLeft
  <2>2. p.src \in Server /\ p.dst \in Server /\ p.next \in Nat
    BY <1>1, <2>1, AnswerType
  <2>3. /\ Len(log[p.src]) \in Nat /\ Len(log'[p.src]) \in Nat
        /\ Len(log[p.dst]) \in Nat /\ Len(log'[p.dst]) \in Nat
    <3>1. \A i \in Server : log[i] \in Seq(Entry) /\ log'[i] \in Seq(Entry)
      BY <1>1 DEF TypeInv, Log
    <3> QED  BY <2>2, <3>1, LenProperties
  <2>4. /\ p.next <= Smaller(Len(log[p.src]), Len(log[p.dst])) + 1
        /\ \A k \in 1..p.next - 1 : log[p.src][k] = log[p.dst][k]
    <3>1. Settled(r.term)' /\ term'[r.src] = r.term
          /\ role'[r.dst] = "leader" /\ term'[r.dst] = r.term
      BY <2>1 DEF Settled
    <3> QED  BY <1>1, <2>1, <3>1, AnswerBefore
  <2>5. p.next - 1 <= Len(log[p.src]) /\ p.next - 1 <= Len(log[p.dst])
    BY <2>2, <2>3, <2>4 DEF Smaller
  <2>6. /\ Len(log[p.src]) <= Len(log'[p.src]) /\ Len(log[p.dst]) <= Len(log'[p.dst])
        /\ \A k \in 1..p.next - 1 : /\ log'[p.src][k] = log[p.src][k]
                                    /\ log'[p.dst][k] = log[p.dst][k]
    <3>1. Extends(log'[p.src], log[p.src]) /\ Extends(log'[p.dst], log[p.dst])
      BY <2>2
    <3>2. \A k \in 1..p.next - 1 : k \in 1..Len(log[p.src]) /\ k \in 1..Len(log[p.dst])
      BY <2>2, <2>3, <2>5
    <3> QED  BY <3>1, <3>2 DEF Extends
  <2>7. p.next <= Smaller(Len(log'[p.src]), Len(log'[p.dst])) + 1
    BY <2>2, <2>3, <2>5, <2>6 DEF Smaller
  <2> QED  BY <2>4, <2>6, <2>7
<1> QED  BY <1>2, <1>3, <1>4 DEF AnswerInv

LEMMA QuietAnswers ==
    ASSUME ReplicationAssumption, AnswerInv, LogInv', LeadersCommit,
           NEW i \in Server, Quiet(i)
    PROVE  AnswerInv'
<1>1. /\ VotesKept /\ LeadersKept /\ RequestsFrom /\ AnswersLeft /\ late \subseteq late'
      /\ TypeInv
  BY DEF Quiet, ServedLate, AnswerInv, LogInv, ElectInv
<1>2. PICK new \in Log : log' = [log EXCEPT ![i] = new] /\ Goes(new, log[i], term'[i])
  BY DEF Quiet, ServedLate
<1>3. \A j \in Server : Extends(log'[j], log[j])
  BY <1>1, <1>2, ExtendsSame DEF TypeInv, Goes
<1>4. LeadersKnown
  BY <1>1 DEF LeadersKnown, LeadersKept
<1> QED  BY <1>1, <1>3, <1>4, AnswersGrow

LEMMA LeadsAnswers ==
    ASSUME ReplicationAssumption, AnswerInv, LogInv', LeadersCommit,
           NEW i \in Server, NEW t \in Term, NEW e \in Entry, Leads(i, t, e)
    PROVE  AnswerInv'
<1>1. /\ VotesKept /\ RequestsFrom /\ AnswersLeft /\ late \subseteq late'
      /\ TypeInv /\ term'[i] = t /\ e.term = t
      /\ \A j \in Server \ {i} : role'[j] = "leader" =>
             role[j] = "leader" /\ term'[j] = term[j] /\ term[j] # t
      /\ \/ role[i] = "leader" /\ term[i] = t
         \/ ~Decided(t)
  BY DEF Leads, AnswerInv, LogInv, ElectInv
<1>2. PICK l \in Log : /\ Len(l) < MaxLog /\ Goes(l, log[i], t)
                       /\ log' = [log EXCEPT ![i] = Append(l, e)]
  BY DEF Leads
<1>3. Extends(Append(l, e), log[i])
  <2>1. log[i] \in Log
    BY <1>1 DEF TypeInv
  <2> QED  BY <1>1, <1>2, <2>1, GoesAppend DEF Goes
<1>4. \A j \in Server : Extends(log'[j], log[j])
  BY <1>1, <1>2, <1>3, ExtendsSame DEF TypeInv
<1>5. LeadersKnown
  BY <1>1 DEF LeadersKnown
<1> QED  BY <1>1, <1>4, <1>5, AnswersGrow

-----------------------------------------------------------------------------
\* What a follower makes of its log k and a request cut from the leader's log
\* l agrees with l up to the end of the request, and keeps what agreed before.
LEMMA TakenAgrees ==
    ASSUME ReplicationAssumption, NEW k \in Log, NEW l \in Log, NEW new \in Log,
           NEW q \in SmallRequest, NEW i, NEW T, NEW c,
           Sent(q, i, T, l, c), LogOkay(k, q),
           Match(T, Whole(k), Whole(l)), \A m \in 1..Len(l) : l[m].term <= T,
           \A m \in 1..Len(k) : k[m].term # 0,
           \/ new = k /\ Skipped(k, q) = Len(q.entries)
           \/ Taken(k, q, new)
    PROVE  /\ End(q) <= Len(l) /\ End(q) <= Len(new)
           /\ \A m \in 1..End(q) : new[m] = l[m]
           /\ \A n \in 0..Len(k) :
                n <= Len(l) /\ (\A m \in 1..n : k[m] = l[m]) =>
                    n <= Len(new) /\ \A m \in 1..n : new[m] = l[m]
<1> DEFINE skipped == Skipped(k, q)
           kept == q.prev + skipped
           len == Len(q.entries)
<1>1. /\ k \in Seq(Entry) /\ l \in Seq(Entry) /\ new \in Seq(Entry)
      /\ Len(k) \in Nat /\ Len(l) \in Nat /\ Len(new) \in Nat
      /\ Whole(k).prev = 0 /\ Whole(l).prev = 0
      /\ q.prev \in Nat /\ len \in Nat /\ End(q) = q.prev + len
  <2>1. k \in Seq(Entry) /\ l \in Seq(Entry) /\ new \in Seq(Entry)
    BY DEF Log
  <2>2. q.prev \in Nat /\ q.entries \in Seq(Entry)
    BY DEF SmallRequest, Request, Index
  <2> QED  BY <2>1, <2>2, LenProperties DEF Whole, End
<1>2. /\ skipped \in 0..len
      /\ \A m \in 1..skipped : /\ q.prev + m <= Len(k)
                               /\ k[q.prev + m].term = q.entries[m].term
      /\ skipped = len \/ q.prev + skipped + 1 > Len(k)
         \/ k[q.prev + skipped + 1].term # q.entries[skipped + 1].term
  BY SkippedFits
<1>3. q.prev <= Len(k) /\ TermAt(k, q.prev) = q.prevTerm
  BY DEF LogOkay
<1> HIDE DEF skipped, len
<1>4. \A m \in q.prev + 1 .. End(q) :
         m <= Len(l) /\ l[m] = q.entries[m - q.prev] /\ TermAt(l, q.prev) = q.prevTerm
  <2> SUFFICES ASSUME NEW m \in q.prev + 1 .. End(q)
               PROVE  /\ m <= Len(l) /\ l[m] = q.entries[m - q.prev]
                      /\ TermAt(l, q.prev) = q.prevTerm
    OBVIOUS
  <2>1. /\ m \in Inside(Whole(l)) /\ At(q, m) = At(Whole(l), m)
        /\ TermIn(Whole(l), q.prev) = q.prevTerm
    BY DEF Sent, IsPart, Inside
  <2>2. m \in 1..Len(l)
    BY <1>1, <2>1, WholePiece
  <2>3. q.prev \in 0..Len(l)
    BY <1>1, <2>2
  <2> QED  BY <1>1, <2>1, <2>2, <2>3, WholePiece DEF At
<1>5. q.prev <= Len(l) /\ q.prevTerm = TermAt(l, q.prev)
  <2> SUFFICES ASSUME q.prev > 0, q.prevTerm = 0
               PROVE  FALSE
    BY DEF Sent
  <2>1. q.prev \in 1..Len(k)
    BY <1>1, <1>3
  <2> QED  BY <1>3, <2>1 DEF TermAt
<1>6. End(q) <= Len(l)
  <2>1. CASE len = 0
    BY <1>1, <1>5, <2>1
  <2>2. CASE len # 0
    <3>1. End(q) \in q.prev + 1 .. End(q)
      BY <1>1, <2>2
    <3> QED  BY <1>4, <3>1
  <2> QED  BY <2>1, <2>2
<1>7. kept \in Nat /\ kept <= Len(k) /\ kept <= End(q) /\ kept <= Len(l)
  <2>1. CASE skipped = 0
    BY <1>1, <1>3, <1>5, <2>1
  <2>2. CASE skipped # 0
    <3>1. skipped \in 1..skipped
      BY <1>1, <1>2, <2>2
    <3> QED  BY <1>1, <1>2, <1>6, <3>1
  <2> QED  BY <2>1, <2>2
<1>a. kept = q.prev + skipped
  OBVIOUS
<1> HIDE DEF kept
<1>8. \A m \in 1..kept : k[m] = l[m]
  <2> SUFFICES ASSUME NEW m \in 1..kept
               PROVE  k[m] = l[m]
    OBVIOUS
  <2>1. kept \in 1..Len(k) /\ kept \in 1..Len(l)
    BY <1>7
  <2>2. k[kept].term = l[kept].term
    <3>1. CASE skipped = 0
      <4>1. kept = q.prev
        BY <1>1, <1>a, <3>1
      <4> QED  BY <1>3, <1>5, <2>1, <4>1 DEF TermAt
    <3>2. CASE skipped # 0
      <4>1. skipped \in 1..skipped /\ kept \in q.prev + 1 .. End(q)
            /\ kept - q.prev = skipped /\ q.prev + skipped = kept
        BY <1>1, <1>2, <1>7, <1>a, <3>2
      <4> QED  BY <1>2, <1>4, <4>1
    <3> QED  BY <3>1, <3>2
  <2>3. /\ kept \in Inside(Whole(k)) \cap Inside(Whole(l))
        /\ At(Whole(k), kept) = k[kept] /\ At(Whole(l), kept) = l[kept]
    BY <1>1, <2>1, WholePiece
  <2>4. m \in 1..Len(k) /\ m \in 1..Len(l) /\ m \in 0..kept /\ m > 0 /\ m >= 0
    BY <1>1, <2>1
  <2>5. At(Whole(k), m) = At(Whole(l), m)
    <3>1. At(Whole(k), kept).term <= T
      BY <2>1, <2>2, <2>3
    <3> QED  BY <1>1, <2>2, <2>3, <2>4, <3>1 DEF Match
  <2> QED  BY <1>1, <2>4, <2>5, WholePiece
<1>9. CASE new = k /\ skipped = len
  <2>1. kept = End(q) /\ End(q) \in Nat /\ Len(k) \in Nat
    BY <1>1, <1>a, <1>9
  <2>2. End(q) <= Len(k) /\ \A m \in 1..End(q) : k[m] = l[m]
    BY <1>7, <1>8, <2>1
  <2>3. \A n \in 0..Len(k) : n <= Len(k)
    BY <2>1
  <2> QED  BY <1>6, <1>9, <2>2, <2>3
<1>10. CASE Taken(k, q, new)
  <2>1. /\ kept < End(q) /\ Len(new) = End(q)
        /\ \A m \in 1..kept : new[m] = k[m]
        /\ \A m \in kept + 1 .. End(q) : new[m] = At(q, m)
    BY <1>10 DEF Taken, skipped, kept
  <2>2. ASSUME NEW m \in 1..End(q)
        PROVE  new[m] = l[m]
    <3>1. CASE m <= kept
      BY <1>7, <1>8, <2>1, <3>1
    <3>2. CASE ~(m <= kept)
      <4>1. m \in kept + 1 .. End(q) /\ m \in q.prev + 1 .. End(q)
        BY <1>1, <1>2, <1>7, <1>a, <3>2
      <4> QED  BY <1>4, <2>1, <4>1 DEF At
    <3> QED  BY <3>1, <3>2
  <2>3. ASSUME NEW n \in 0..Len(k), n <= Len(l), \A m \in 1..n : k[m] = l[m]
        PROVE  n <= End(q)
    <3> SUFFICES ASSUME n > End(q)
                 PROVE  FALSE
      BY <1>1
    <3>0. /\ skipped \in Nat /\ kept \in Nat /\ n \in Nat /\ n <= Len(k)
          /\ q.prev \in Nat /\ End(q) \in Nat /\ kept < End(q)
      BY <1>1, <1>2, <1>7, <2>1
    <3>1. /\ kept + 1 \in 1..n /\ kept + 1 <= Len(k)
          /\ kept + 1 \in q.prev + 1 .. End(q) /\ (kept + 1) - q.prev = skipped + 1
          /\ q.prev + skipped + 1 = kept + 1
      BY <1>a, <3>0
    <3>2. skipped # len
      BY <1>1, <1>a, <3>0
    <3>3. k[kept + 1].term # q.entries[skipped + 1].term
      <4>1. \/ q.prev + skipped + 1 > Len(k)
            \/ k[q.prev + skipped + 1].term # q.entries[skipped + 1].term
        BY <1>2, <3>2
      <4>2. ~(kept + 1 > Len(k))
        BY <1>1, <3>0, <3>1
      <4>3. q.prev + skipped + 1 = kept + 1
        BY <3>1
      <4> HIDE DEF kept, skipped
      <4> QED  BY <4>1, <4>2, <4>3
    <3>4. k[kept + 1] = l[kept + 1]
      BY <2>3, <3>1
    <3>5. l[kept + 1] = q.entries[(kept + 1) - q.prev]
      BY <1>4, <3>1
    <3> QED  BY <3>1, <3>3, <3>4, <3>5
  <2>4. ASSUME NEW n \in 0..Len(k), n <= Len(l), \A m \in 1..n : k[m] = l[m]
        PROVE  n <= Len(new) /\ \A m \in 1..n : new[m] = l[m]
    <3>1. n <= End(q)
      BY <2>3, <2>4
    <3>2. \A m \in 1..n : m \in 1..End(q)
      BY <1>1, <3>1
    <3> QED  BY <2>1, <2>2, <3>1, <3>2
  <2> QED  BY <1>6, <1>1, <2>1, <2>2, <2>4
<1> QED  BY <1>9, <1>10 DEF skipped, len

\* who declines changes no log, and says so
LEMMA RefusedQuiet ==
    ASSUME ReplicationAssumption, TypeInv, NEW q \in reqs,
           HandleAppendEntries(q), ~Accepts(q)
    PROVE  q.dst \in Server /\ Quiet(q.dst)
<1> DEFINE j == q.dst
           t == Larger(q.term, term[j])
<1>1. /\ j \in Server /\ TypeInv' /\ VotesKept /\ LeadersKept /\ RequestsFrom
      /\ late' = late
  BY HandleReqTakes, ReqsKept DEF Takes
<1>2. log' = log /\ Reply(q, t, FALSE, Len(log[j]) + 1)
  BY DEF HandleAppendEntries, Accepts, logs
<1>3. \A p \in resps' : p \in resps \/ p.accepted = FALSE
  BY <1>2 DEF Reply
<1>4. AnswersLeft
  BY <1>3 DEF AnswersLeft
<1>5. /\ log[j] \in Log /\ log' = [log EXCEPT ![j] = log[j]]
      /\ Goes(log[j], log[j], term'[j])
  <2>1. log[j] \in Log /\ Len(log[j]) \in Nat
    BY <1>1, LenProperties DEF TypeInv, Log
  <2> QED  BY <1>1, <1>2, <2>1, ExtendsSame DEF Goes, TypeInv
<1> QED  BY <1>1, <1>4, <1>5 DEF Quiet, ServedLate

LEMMA AcceptedStep ==
    ASSUME ReplicationAssumption, TypeInv, NEW q \in reqs,
           HandleAppendEntries(q), Accepts(q)
    PROVE  /\ VotesKept /\ LeadersKept /\ reqs' \subseteq reqs /\ late' = late
           /\ term' = [term EXCEPT ![q.dst] = q.term]
           /\ role' = [role EXCEPT ![q.dst] = "follower"]
           /\ \A p \in resps' : p \in resps \/ p = Acceptance(q)
           /\ \E new \in Log :
                /\ log' = [log EXCEPT ![q.dst] = new]
                /\ \/ new = log[q.dst] /\ Skipped(log[q.dst], q) = Len(q.entries)
                   \/ Taken(log[q.dst], q, new)
<1> DEFINE j == q.dst
           t == Larger(q.term, term[j])
<1>1. VotesKept /\ LeadersKept /\ reqs' \subseteq reqs /\ late' = late
  BY HandleReqTakes DEF Takes
<1>2. j \in Server /\ q.term \in Nat /\ term[j] \in Nat
  BY DEF TypeInv, TypeOK, SmallRequest, Request, Term
<1>3. /\ AppendEntries(j, q) /\ Reply(q, t, TRUE, AnswerNext(log[j], q))
      /\ term' = [term EXCEPT ![j] = t]
      /\ role' = [role EXCEPT ![j] = "follower"]
      /\ q.term >= term[j] /\ LogOkay(log[j], q)
  BY DEF HandleAppendEntries, Accepts
<1>4. t = q.term
  BY <1>2, <1>3 DEF Larger
<1>5. PICK new \in Log : /\ log' = [log EXCEPT ![j] = new]
                         /\ \/ new = log[j] /\ Skipped(new, q) = Len(q.entries)
                            \/ Taken(log[j], q, new)
  BY <1>2, <1>3, AppendEntriesType
<1>6. \A p \in resps' : p \in resps \/ p = Acceptance(q)
  BY <1>3, <1>4 DEF Reply, AnswerNext, End, Acceptance
<1> QED  BY <1>1, <1>3, <1>4, <1>5, <1>6

\* What the follower j makes of its log, in the eyes of the leader of the
\* request's settled term.
LEMMA TakenFromLeader ==
    ASSUME ReplicationAssumption, AnswerInv, NEW q \in reqs, Settled(q.term),
           NEW j \in Server, LogOkay(log[j], q), NEW i \in Server,
           role[i] = "leader", term[i] = q.term, NEW new \in Log,
           \/ new = log[j] /\ Skipped(log[j], q) = Len(q.entries)
           \/ Taken(log[j], q, new)
    PROVE  /\ End(q) <= Len(log[i]) /\ End(q) <= Len(new)
           /\ \A m \in 1..End(q) : new[m] = log[i][m]
           /\ \A n \in 0..Len(log[j]) :
                n <= Len(log[i]) /\ (\A m \in 1..n : log[j][m] = log[i][m]) =>
                    n <= Len(new) /\ \A m \in 1..n : new[m] = log[i][m]
<1>1. /\ log[i] \in Log /\ log[j] \in Log /\ q \in SmallRequest /\ q.term \in Term
      /\ q.term \in Nat
      /\ Whole(log[i]) \in Pieces /\ Whole(log[j]) \in Pieces
  BY DEF AnswerInv, LogInv, ElectInv, TypeInv, SmallRequest, Request, Term, Pieces, PiecesOf
<1>2. TermInv(q.term)
  BY <1>1 DEF AnswerInv, LogInv
<1>3. /\ Match(q.term, Whole(log[j]), Whole(log[i])) 
      /\ Sent(q, i, q.term, log[i], quick[i])
  BY <1>1, <1>2 DEF TermInv, PiecesMatch, AnswerInv, FromLeader
<1>4. log[i] \in Seq(Entry) /\ log[j] \in Seq(Entry)
  BY <1>1 DEF Log
<1>5. \A m \in 1..Len(log[i]) : log[i][m].term <= q.term
  <2>1. Ordered(Whole(log[i]), q.term)
    BY DEF AnswerInv, LogInv, ElectInv, TermsOrdered
  <2> QED  BY <1>4, <2>1, WholePiece DEF Ordered
<1>6. \A m \in 1..Len(log[j]) : log[j][m].term # 0
  <2>1. \A m \in Inside(Whole(log[j])) :
            At(Whole(log[j]), m).term <= q.term => At(Whole(log[j]), m).term # 0
    BY <1>1, <1>2 DEF TermInv, EntriesElected, Decided
  <2> QED  BY <1>1, <1>4, <2>1, WholePiece
<1> QED  BY <1>1, <1>3, <1>5, <1>6, TakenAgrees

LEMMA AcceptedAnswers ==
    ASSUME ReplicationAssumption, AnswerInv, LogInv', LeadersCommit,
           NEW q \in reqs, HandleAppendEntries(q), Accepts(q)
    PROVE  AnswerInv'
<1> DEFINE j == q.dst
           a == Acceptance(q)
<1>1. TypeInv /\ TypeInv' /\ ElectInv'
  BY DEF AnswerInv, LogInv, ElectInv
<1>2. /\ VotesKept /\ LeadersKept /\ RequestsFrom /\ reqs' \subseteq reqs /\ late' = late
      /\ term' = [term EXCEPT ![j] = q.term]
      /\ role' = [role EXCEPT ![j] = "follower"]
      /\ \A p \in resps' : p \in resps \/ p = a
      /\ LogOkay(log[j], q)
  BY <1>1, AcceptedStep, ReqsKept DEF Accepts
<1>3. PICK new \in Log : /\ log' = [log EXCEPT ![j] = new]
                         /\ \/ new = log[j] /\ Skipped(log[j], q) = Len(q.entries)
                            \/ Taken(log[j], q, new)
  BY <1>1, AcceptedStep
<1>4. /\ a.src = j /\ a.dst = q.src /\ a.term = q.term
      /\ a.next = End(q) + 1 /\ a.accepted
  BY DEF Acceptance
<1>5. /\ q \in SmallRequest /\ j \in Server /\ q.src \in Server
      /\ q.term \in Term /\ q.term \in Nat /\ End(q) \in Nat
  <2>1. q \in SmallRequest
    BY <1>1 DEF TypeInv
  <2>2. /\ j \in Server /\ q.src \in Server /\ q.term \in Term /\ q.term \in Nat
        /\ q.prev \in Nat /\ q.entries \in Seq(Entry)
    BY <2>1 DEF SmallRequest, Request, Term, Index
  <2> QED  BY <2>1, <2>2, LenProperties DEF End
<1>6. /\ term'[j] = q.term /\ role'[j] = "follower" /\ log'[j] = new
      /\ \A i \in Server \ {j} : log'[i] = log[i] /\ term'[i] = term[i]
  BY <1>1, <1>2, <1>3, <1>5 DEF TypeInv, TypeOK
<1> HIDE DEF a
<1>7. LeadersKnown
  BY <1>2 DEF LeadersKept, LeadersKnown
<1>8. RequestsElected' /\ FromLeader'
  <2>1. \A i \in Server : role'[i] = "leader" => Extends(log'[i], log[i])
    BY <1>1, <1>2, ExtendsSame DEF LeadersKept, TypeInv
  <2> QED  BY <1>1, <1>2, <1>7, <2>1, RequestsStayElected, StaysFromLeader
<1>9. AnswersElected'
  <2> SUFFICES ASSUME NEW p \in resps', p.accepted
               PROVE  (\E u \in Term : Decided(u)' /\ p.term = u)
                      /\ p.term <= term'[p.src]
    BY DEF AnswersElected, Decided, Voted
  <2>1. CASE p \in resps
    BY <1>1, <1>2, <2>1, AnswersStayElected
  <2>2. CASE p = a
    <3>1. PICK u \in Term : u = q.term /\ Decided(u)
      BY <1>5 DEF AnswerInv, RequestsElected
    <3>2. Decided(u)'
      BY <1>1, <1>2, <3>1, DecidedKept
    <3> QED  BY <1>4, <1>5, <1>6, <2>2, <3>1, <3>2
  <2> QED  BY <1>2, <2>1, <2>2
\* in the eyes of a leader of the request's term
<1>10. ASSUME Settled(q.term)', NEW i \in Server, role'[i] = "leader", term'[i] = q.term
       PROVE  /\ log'[i] = log[i]
              /\ End(q) <= Len(log[i]) /\ End(q) <= Len(new)
              /\ \A m \in 1..End(q) : new[m] = log[i][m]
              /\ \A n \in 0..Len(log[j]) :
                   n <= Len(log[i]) /\ (\A m \in 1..n : log[j][m] = log[i][m]) =>
                       n <= Len(new) /\ \A m \in 1..n : new[m] = log[i][m]
  <2>1. role[i] = "leader" /\ term[i] = q.term /\ log'[i] = log[i]
    BY <1>2, <1>10 DEF LeadersKept
  <2>2. Settled(q.term)
    BY <1>2, <1>10 DEF Settled
  <2> HIDE DEF j
  <2> QED  BY <1>2, <1>3, <1>5, <2>1, <2>2, TakenFromLeader
<1>11. AnswersAreTrue'
  <2> SUFFICES ASSUME NEW p \in resps', p.accepted, Settled(p.term)',
                      role'[p.dst] = "leader",
                      term'[p.dst] = p.term, term'[p.src] = p.term
               PROVE  /\ p.next <= Smaller(Len(log'[p.src]), Len(log'[p.dst])) + 1
                      /\ \A k \in 1..p.next - 1 : log'[p.src][k] = log'[p.dst][k]
    BY DEF AnswersAreTrue, Settled
  <2>1. \A i \in Server : Len(log[i]) \in Nat /\ Len(log'[i]) \in Nat
    <3>1. \A i \in Server : log[i] \in Seq(Entry) /\ log'[i] \in Seq(Entry)
      BY <1>1 DEF TypeInv, Log
    <3> QED  BY <3>1, LenProperties
  <2>2. CASE p = a
    <3>1. p.src = j /\ p.dst = q.src /\ p.term = q.term /\ p.next = End(q) + 1
      BY <1>4, <2>2
    <3>2. /\ End(q) <= Len(log'[p.dst]) /\ End(q) <= Len(log'[p.src])
          /\ \A m \in 1..End(q) : log'[p.src][m] = log'[p.dst][m]
      <4>1. Settled(q.term)' /\ role'[q.src] = "leader" /\ term'[q.src] = q.term
        BY <3>1
      <4>2. /\ log'[q.src] = log[q.src] /\ End(q) <= Len(log[q.src]) /\ End(q) <= Len(new)
            /\ \A m \in 1..End(q) : new[m] = log[q.src][m]
        BY <1>5, <1>10, <4>1
      <4> QED  BY <1>6, <3>1, <4>2
    <3> QED  BY <1>5, <2>1, <3>1, <3>2 DEF Smaller
  <2>3. CASE p \in resps
    <3>1. p.src \in Server /\ p.dst \in Server /\ p.next \in Nat
      BY <1>1, <2>3, AnswerType
    <3>2. /\ p.next <= Smaller(Len(log[p.src]), Len(log[p.dst])) + 1
          /\ \A k \in 1..p.next - 1 : log[p.src][k] = log[p.dst][k]
      BY <1>1, <1>2, <1>7, <2>3, AnswerBefore
    <3>3. log'[p.dst] = log[p.dst]
      BY <1>2, <3>1 DEF LeadersKept
    <3>4. CASE p.src # j
      BY <1>6, <3>1, <3>2, <3>3, <3>4
    <3>5. CASE p.src = j
      <4> DEFINE n == p.next - 1
      <4>1. Settled(q.term)' /\ term'[p.dst] = q.term
        BY <1>6, <3>5
      <4>2. CASE p.next = 0
        BY <2>1, <3>1, <4>2 DEF Smaller
      <4>3. CASE p.next # 0
        <5>1. /\ n \in 0..Len(log[j]) /\ n <= Len(log[p.dst])
              /\ \A m \in 1..n : log[j][m] = log[p.dst][m]
          BY <1>5, <2>1, <3>1, <3>2, <3>5, <4>3 DEF Smaller
        <5> HIDE DEF n
        <5>2. n <= Len(new) /\ \A m \in 1..n : new[m] = log[p.dst][m]
          BY <1>10, <3>1, <4>1, <5>1
        <5>3. /\ n <= Len(log'[p.src]) /\ n <= Len(log'[p.dst])
              /\ \A m \in 1..n : log'[p.src][m] = log'[p.dst][m]
          BY <1>6, <3>3, <3>5, <5>1, <5>2
        <5> QED  BY <2>1, <3>1, <5>3 DEF Smaller, n
      <4> QED  BY <4>2, <4>3
    <3> QED  BY <3>4, <3>5
  <2> QED  BY <1>2, <2>2, <2>3
<1> QED  BY <1>8, <1>9, <1>11 DEF AnswerInv

-----------------------------------------------------------------------------
LEMMA InitAnswerInv ==
    ASSUME ReplicationAssumption, Init
    PROVE  AnswerInv
<1>1. LogInv
  BY InitLogInv
<1>2. reqs = {} /\ resps = {}
  BY DEF Init
<1> QED  BY <1>1, <1>2 DEF AnswerInv, RequestsElected, AnswersElected, FromLeader,
            AnswersAreTrue

LEMMA NextAnswerInv ==
    ASSUME ReplicationAssumption, AnswerInv, [Next]_vars
    PROVE  AnswerInv'
<1>1. ElectInv /\ TypeInv
  BY DEF AnswerInv, LogInv, ElectInv
<1>3. LogInv' /\ LeadersCommit
  BY <1>1, NextLogInv, CommitsGoOn DEF AnswerInv
<1>2. ASSUME NEW q \in reqs, HandleAppendEntries(q)
      PROVE  AnswerInv'
  BY <1>1, <1>2, <1>3, RefusedQuiet, QuietAnswers, AcceptedAnswers
<1> QED  BY <1>1, <1>2, <1>3, StepKinds, QuietAnswers, LeadsAnswers

\* What an accepting answer of a settled term says holds as long as the leader
\* it goes to may count it: the follower has the leader's entries up to the
\* index it names, whatever else arrives late, twice or out of order, is lost or
\* restarted, and with either lock.
THEOREM AcceptedIsReplicated == Spec => []AnswersAreTrue
<1>1. Init => AnswerInv
  BY InitAnswerInv, ReplicationAssumption
<1>2. AnswerInv /\ [Next]_vars => AnswerInv'
  BY NextAnswerInv, ReplicationAssumption
<1>3. AnswerInv => AnswersAreTrue
  BY DEF AnswerInv
<1> QED  BY <1>1, <1>2, <1>3, PTL DEF Spec

-----------------------------------------------------------------------------
(* A follower commits with its leader.                                     *)

\* only a request that is taken moves its follower's commit index on
LEMMA OnlyTaken ==
    ASSUME ReplicationAssumption, TypeInv, [Next]_vars, NEW q \in reqs \ reqs',
           quick'[q.dst] > quick[q.dst]
    PROVE  HandleAppendEntries(q) /\ Accepts(q)
<1>1. /\ quick \in [Server -> Index] /\ \A j \in Server : quick[j] \in Nat
      /\ q.dst \in Server
  BY DEF TypeInv, TypeOK, Index, SmallRequest, Request
<1>2. quick' # quick
  BY <1>1
<1>3. ASSUME NEW i \in Server,
             \/ Campaign(i) \/ LearnTerm(i) \/ ClientRequest(i)
             \/ \E voters \in SUBSET Others(i) : Elect(i, voters)
      PROVE  FALSE
  BY <1>2, <1>3 DEF Campaign, LearnTerm, UpdateTerm, ClientRequest, Elect, BecomeLeader
<1>4. ASSUME NEW i \in Server, NEW j \in Server,
             \/ AppendEntriesInBg(i, j) \/ HeartbeatTimeout(i, j)
             \/ Reconnect(i, j) \/ RecreateRpc(i, j)
      PROVE  FALSE
  BY <1>2, <1>4
  DEF AppendEntriesInBg, HeartbeatTimeout, RequestAppendEntries, Reconnect, RecreateRpc
<1>5. ASSUME NEW i \in Server, Restart(i)
      PROVE  FALSE
  <2>1. quick' = [quick EXCEPT ![i] = 0]
    BY <1>5 DEF Restart
  <2> QED  BY <1>1, <2>1
<1>6. ASSUME NEW r \in reqs, HandleAppendEntries(r)
      PROVE  r = q /\ Accepts(q)
  <2>1. reqs' = reqs \ {r}
    BY <1>6 DEF HandleAppendEntries, Reply
  <2>2. Accepts(r)
    BY <1>2, <1>6 DEF HandleAppendEntries, Accepts
  <2> QED  BY <2>1, <2>2
<1>7. ASSUME NEW p \in resps, HandleAppendEntriesResp(p)
      PROVE  FALSE
  <2>1. reqs \subseteq reqs'
    BY <1>7 DEF HandleAppendEntriesResp, Accepted, Declined, SendTo
  <2> QED  BY <2>1
<1>8. ASSUME NEW p \in resps, FreePeer(p)
      PROVE  FALSE
  BY <1>2, <1>8 DEF FreePeer
<1>9. ASSUME UNCHANGED vars
      PROVE  FALSE
  BY <1>2, <1>9 DEF vars
<1> QED  BY <1>3, <1>4, <1>5, <1>6, <1>7, <1>8, <1>9 DEF Next

LEMMA CommitsTold ==
    ASSUME ReplicationAssumption, AnswerInv, [Next]_vars, NEW q \in reqs \ reqs',
           quick'[q.dst] > quick[q.dst], Settled(q.term),
           role[q.src] = "leader", term[q.src] = q.term
    PROVE  LET i == q.src
               j == q.dst
           IN  /\ quick'[j] <= Smaller(quick[i], Smaller(Len(log[i]), Len(log'[j])))
               /\ \A k \in 1..quick'[j] : log'[j][k] = log[i][k]
<1> DEFINE i == q.src
           j == q.dst
<1>1. TypeInv /\ TypeInv'
  BY NextTypeInv DEF AnswerInv, LogInv, ElectInv
<1>2. HandleAppendEntries(q) /\ Accepts(q)
  BY <1>1, OnlyTaken
<1>3. /\ q \in SmallRequest /\ i \in Server /\ j \in Server
      /\ quick[i] \in Nat /\ quick[j] \in Nat /\ quick'[j] \in Nat
      /\ quick \in [Server -> Index] /\ q.commit \in Nat /\ End(q) \in Nat
      /\ Len(log[i]) \in Nat /\ Len(log'[j]) \in Nat
  <2>1. /\ q \in SmallRequest /\ log \in [Server -> Log] /\ log' \in [Server -> Log]
        /\ quick \in [Server -> Index] /\ quick' \in [Server -> Index]
    BY <1>1 DEF TypeInv, TypeOK
  <2>2. /\ i \in Server /\ j \in Server /\ q.commit \in Nat /\ q.prev \in Nat
        /\ q.entries \in Seq(Entry)
    BY <2>1 DEF SmallRequest, Request, Index
  <2> QED  BY <2>1, <2>2, LenProperties DEF Log, Index, End
<1>4. PICK new \in Log : /\ log' = [log EXCEPT ![j] = new]
                         /\ \/ new = log[j] /\ Skipped(log[j], q) = Len(q.entries)
                            \/ Taken(log[j], q, new)
  BY <1>1, <1>2, AcceptedStep
<1>5. log'[j] = new
  BY <1>1, <1>3, <1>4 DEF TypeInv
<1>6. LogOkay(log[j], q)
  BY <1>2 DEF Accepts
<1>7. /\ End(q) <= Len(log[i]) /\ End(q) <= Len(new)
      /\ \A k \in 1..End(q) : new[k] = log[i][k]
  <2>1. role[i] = "leader" /\ term[i] = q.term /\ Settled(q.term)
    OBVIOUS
  <2> HIDE DEF i, j
  <2> QED  BY <1>3, <1>4, <1>6, <2>1, TakenFromLeader
<1>8. q.commit <= quick[i]
  <2>1. Sent(q, i, term[i], log[i], quick[i])
    BY <1>3 DEF AnswerInv, FromLeader
  <2> QED  BY <2>1 DEF Sent
<1>9. quick'[j] <= q.commit /\ quick'[j] <= End(q)
  <2>1. \E from, kept : /\ kept = quick[j] \/ (quick[j] >= from /\ kept = from - 1)
                        /\ quick' = [quick EXCEPT ![j] = Larger(kept, CommitTarget(q))]
                        /\ from = q.prev + Skipped(log[j], q) + 1
    BY <1>2 DEF HandleAppendEntries, Accepts, AppendEntries
  <2>2. Skipped(log[j], q) \in Nat
    <3>1. log[j] \in Log /\ q.entries \in Seq(Entry)
      BY <1>1, <1>3 DEF TypeInv, SmallRequest, Request
    <3> QED  BY <1>3, <3>1, SkippedFits, LenProperties
  <2>3. q.prev \in Nat
    BY <1>3 DEF SmallRequest, Request, Index
  <2>4. CommitTarget(q) \in Nat /\ CommitTarget(q) <= q.commit /\ CommitTarget(q) <= End(q)
    BY <1>3 DEF CommitTarget, Smaller, End
  <2>5. quick'[j] > quick[j]
    OBVIOUS
  <2>6. PICK from, kept : /\ kept = quick[j] \/ (quick[j] >= from /\ kept = from - 1)
                          /\ quick' = [quick EXCEPT ![j] = Larger(kept, CommitTarget(q))]
                          /\ from = q.prev + Skipped(log[j], q) + 1
    BY <2>1
  <2>7. kept \in Nat /\ kept <= quick[j]
    BY <1>3, <2>2, <2>3, <2>6
  <2>8. quick'[j] = Larger(kept, CommitTarget(q))
    BY <1>3, <2>6
  <2> QED  BY <1>3, <2>4, <2>5, <2>7, <2>8 DEF Larger
<1> QED  BY <1>3, <1>5, <1>7, <1>8, <1>9 DEF Smaller

\* A follower never commits ahead of the leader of a settled term, nor anything
\* that is not in that leader's log, however long the request took that tells
\* it to.
THEOREM FollowersCommitWithLeader == Spec => CommitsWithLeader
<1>1. Init => AnswerInv
  BY InitAnswerInv, ReplicationAssumption
<1>2. AnswerInv /\ [Next]_vars => AnswerInv'
  BY NextAnswerInv, ReplicationAssumption
<1>3. ASSUME AnswerInv, [Next]_vars
      PROVE  [\A q \in reqs \ reqs' :
                LET i == q.src
                    j == q.dst
                IN  /\ quick'[j] > quick[j]
                    /\ Settled(q.term) /\ role[i] = "leader" /\ term[i] = q.term
                    => /\ quick'[j] <= Smaller(quick[i], Smaller(Len(log[i]), Len(log'[j])))
                       /\ \A k \in 1..quick'[j] : log'[j][k] = log[i][k]]_vars
  BY <1>3, CommitsTold, ReplicationAssumption
<1> QED  BY <1>1, <1>2, <1>3, PTL DEF Spec, CommitsWithLeader
=============================================================================
