# Verification of aquadb

aquadb is a C++ trading and quotation server. `kvstore/` is the program: an
HTTP service over traders, orders and quotes, replicated with Raft. The Raft
implementation is `NuRaft/`, built from the tree. The Raft log lives in RocksDB
through `kvstore/log_store.cpp` and `db/raft_log_store.cpp`; `db/` also has
databases and tables of tuples. `cerebro/` simulates brokers and traders and
fetches quotes; `util/` has a thread pool, locks and buffers.

This directory holds TLA+ models of the parts whose mistakes a test would hardly
reach, their model checking, and proofs. The first half of this document is the
inventory of the system and the second what is modelled, checked and proved.

To check a module: `tlc -config RaftElection.cfg MCRaftElection.tla`; to check
its proofs: `tlapm RaftElection_proofs.tla`.

## 1. The system

### Parts, their state and their operations

| Part | Source | State | Operations |
|---|---|---|---|
| Election | `NuRaft/src/handle_vote.cxx`, `handle_timeout.cxx`, `raft_server.cxx` | term and vote (`srv_state`), `role_`, `votes_granted_`, `votes_responded_`, `election_completed_`, `pre_vote_`, `hb_alive_` | election and heartbeat timers, pre-vote, vote, takeover, resignation, restart |
| Connections | `NuRaft/src/peer.cxx` | `busy_flag_`, the RPC client | `send_req`, `handle_rpc_result`, `recreate_rpc` |
| Replication | `NuRaft/src/handle_append_entries.cxx`, `handle_client_request.cxx` | the log, `precommit_index_`, `quick_commit_index_`; per peer `next_log_idx_`, `matched_idx_`, `pending_commit_flag_` | client request, append_entries and its answers, reconnection, commit index |
| Commit thread | `NuRaft/src/handle_commit.cxx` | `sm_commit_index_`, `commit_ret_elems_` | apply entries in order, complete client calls, reconfigure, snapshot and compact |
| Snapshots | `NuRaft/src/handle_snapshot_sync.cxx`, `kvstore/state_machine.h` | snapshot context of a peer, the map of the last three snapshots | create, read and save objects, apply, compact |
| Membership | `NuRaft/src/handle_join_leave.cxx` | `config_`, `uncommitted_config_`, the joining server | add, sync log, remove, reconfigure |
| Raft log | `kvstore/log_store.cpp`, `db/raft_log_store.cpp`, `kvstore/in_memory_log_store.cxx` | entries, `start_idx_` | append, write_at, apply_pack, compact, readers |
| State manager | `kvstore/state_mgr.h` | saved state and configuration | save_state, read_state, save_config, load_config |
| Service | `kvstore/service_impl.cpp`, `server.cpp` | `traders_`, `traders_nm_`, the quote cache, id generators | create, delete and find traders; orders; quotes; cluster commands |
| Market data | `cerebro/mdlink.cpp` | quote cache, subscribed codes | update_quotes (on the pool), on_quote, callback |
| Thread pool | `util/threadpool.h` | queue, `jobs_left`, `bailout`, two mutexes, two condition variables | AddJob, WaitAll, JoinAll, workers |
| Broker | `cerebro/cerebro_broker.cpp` | account, positions, orders | submit, match, settle, dividends |
| Tables | `db/db.cpp`, `db/table.cpp` | descriptors, `_last_dbid`, rows | create, open, get, scan, remove |
| Ids | `cerebro/snowflake.h` | `last_timestamp_`, `sequence_` | nextid |

### How they interact

HTTP threads of the service call the trader registry, the brokers and
`raft_server::append_entries`; the last one blocks until the commit thread
completes the call. A Raft server runs handlers under `lock_` on the threads of
the ASIO pool and calls the log store and the state manager from them; client
requests run under `cli_lock_` instead (`dual_mutex`, the default). The commit
thread reads the log, calls the state machine, and takes `lock_` only to change
the configuration. Quote updates run as jobs of the thread pool and call back
into the service, which hands quotes to every broker under the registry's read
lock.

### What is hard

* **Locks.** `update_term` stores a term before it takes `cli_lock_`;
  `handle_rpc_result` frees a peer before it waits for `lock_`; snapshots are
  installed under `lock_` and entries are applied without it; the pool's
  counters are changed without the mutexes its waiters hold.
* **Messages** are delayed, lost with their connection, overtaken, and answered
  when the sender has a new role or term.
* **Crashes.** The Raft log survives one; term, vote, configuration and state
  machine do not; log calls consist of several writes.
* **Stale state.** Matched indexes of an earlier leadership, counts of an earlier
  pre-vote, cached quotes, indices kept in memory next to RocksDB.
* **Boundaries.** Inclusive and exclusive ranges, the slot after the last one, logs
  that start after a compaction.

### What makes each part correct

* Election: one vote per server and term, one leader per term, a vote counted only
  if it was cast.
* Replication: logs agree where terms do; the leader knows what its followers hold; a
  follower commits with its leader; what a majority holds is never lost.
* Log store: what `nuraft::log_store` promises; an entry disappears only by a call
  that names it.
* Thread pool: a wait ends when, and only when, the jobs submitted before it have run;
  no job is forgotten.
* Client calls: what is committed is applied, once and in order; a call is answered OK
  only for its own entry.
* Snapshots: a snapshot holds what its index says; the leader always has a log or a
  snapshot to send; a follower's value is that of the entries it counts as applied.
* Broker: orders, positions and cash agree; nothing bought today is sold today.
* Parts that are not modelled: a trader's name leads to that trader; ids are unique; a
  row is read by the key it was stored under.

## 2. Modules

| Module | Models |
|---|---|
| `LogStore` | the contract of `nuraft::log_store` (the interface `log_store.hxx`), an abstract specification |
| `InMemLogStore`, `_proofs` | `kvstore/in_memory_log_store.cxx`, implements `LogStore` |
| `RocksLogStore`, `_proofs` | `kvstore/log_store.cpp` over `db/raft_log_store.cpp`, with crashes |
| `RaftElection`, `MCRaftElection`, `_proofs` | NuRaft's elections, message by message |
| `RaftReplication`, `MCRaftReplication`, `_proofs` | NuRaft's replication and commit index |
| `ClientCalls`, `_proofs` | NuRaft's commit thread and the blocking calls of clients |
| `SnapshotSync`, `_proofs` | NuRaft's snapshots and compaction over `kvstore/state_machine.h` |
| `ThreadPool`, `MCThreadPool`, `_proofs` | `util/threadpool.h` |
| `Broker`, `MCBroker`, `_proofs` | the broker of `cerebro/cerebro_broker.cpp` |

### Log stores

`LogStore` has the entries, the start and the next slot, and the calls `append`,
`write_at` (which drops everything after the entry), `apply_pack` and `compact`.
`InMemLogStore` keeps the map with its dummy entry 0 and computes the next slot
from the map's size as the code does; `apply_pack` is one step per entry because
the code releases its mutex in between. `RocksLogStore` keeps the column family
and the member `start_idx_`; `write_at` and `compact` are two steps each, as they
are two writes, and `Restart` may fall between them. `compact` erases before it takes
`logs_lock_`, and with `dual_mutex` a client's `append` holds `cli_lock_` and not `lock_`:
`Append` may therefore come between the two steps of `compact`, and of `compact` only.
RocksDB itself is trusted: a write is atomic and durable. Encodings, and the readers, are left out.

### Election

`RaftElection` is one action per handler of `raft_server`: the handlers hold `lock_`
and so are atomic. Each keeps the order of the code: the term check of `process_req`
or `handle_peer_resp` first, then the handler. A connection carries one request at a
time; `Busy` is the peer's busy flag. `FreePeer` is the first half of
`handle_rpc_result`, which clears that flag before the handler has the lock, so that a
second request can overtake the first answer. `DropConnection` loses an answer, the
request or both. `Restart` keeps term and vote if `Durable`, and forgets them if not,
as `kvstore/state_mgr.h` does. The comparison of two logs in a vote is an arbitrary
Boolean, so what holds here holds for all logs.

### Replication

`RaftReplication` has the logs. An election is one step here (`Elect`, with any set of
voters that would grant it, from any role) and its messages are left to `RaftElection`,
whose `ElectionSafety` justifies the one thing assumed, that a leader never receives a
request of its own term from another. Term and vote survive a restart, as the contract of
`state_mgr` asks; the one of `kvstore` forgets them, and what comes of that is shown by
`raft_VolatileState` on the elections, not here. Everything else is one action per handler:
`HandleAppendEntries` skips what is there, rolls back, overwrites, appends and commits;
`HandleAppendEntriesResp` moves the indexes, commits, and sends to whom `commit()` and
the catch-up send. `Reconnect` is the branch of `request_append_entries` that replaces
a connection and forgets the peer's indexes; `RecreateRpc` the one of a pre-vote, which
does not. The lock that client requests take is the constant `DualMutex`, true for
`kvstore`, which leaves NuRaft's default: a leader that learns a later term may serve
requests after the term is stored and before its role changes, and they are appended with
the new term (`ServedMeanwhile`). With `single_mutex` it may not; every behaviour of
that lock is one of `dual_mutex` as well, in which no request comes at such a moment.

Two history variables, which no guard reads, say what the properties need of the past. `late` is
the set of terms in which some server stored a request in that window. A term is `Settled` if
neither it nor any before it is one: a late entry spoils its own term and, when a leader with
such an entry is elected, may spoil later ones, but never those before (`SettledLogsMatch`).
Without a late request every term is settled. `chosen` is the set of entries, with their
indexes, that a majority has held in the entry's own term: those Raft promises to keep.

`precommit` is the high-water mark `precommit_index_`, which a rollback does not lower
and which stands for the leader's own log in the commit index. The commit thread is
represented by the commit index alone: it applies the entries up to it. The log store is
`LogStore`'s contract.

### Client calls

`ClientCalls` is one server. `handle_cli_req` is three steps (the entry is stored, then
`precommit_index_` is moved and followers may be sent it, then the element is put into
`commit_ret_elems_`), because the commit thread runs beside it and may reach the entry
first; `handle_cli_req_callback` waits, and goes on when its element was invoked (`Wake`)
or not (`TimeOut`). The commit thread is one action per step of `commit_in_bg_exec`:
`Start` reads `role_` into `need_to_handle_commit_elem`, `Fetch` reads the entry, `Apply`
is `commit_app_log` up to the state machine, `Deliver` the part under
`commit_ret_elems_lock_`, `Advance` the compare-and-exchange of `sm_commit_index_`. The
elements are a map from indexes, as in the code, so that an element may belong to a call
other than the one that asks. `UpdateTerm`, `Resign` and `BecomeLeader` change the role and
drop every element. The other servers are the environment: they acknowledge
(`PeersMatch`), lead later terms, and overwrite what is not committed (`AppendEntries`);
they leave what is committed alone, which is an assumption: `RaftRollback.cfg` shows
that the protocol does not always keep it.

### Snapshots

`SnapshotSync` has a leader whose entries are committed and applied as they come and a follower
it brings up to date. `Send` is `request_append_entries`: a log that does not reach the peer is
replaced by the newest snapshot, object by object (`SendSnapshot`), and if there is none that
does, the peer is sent a notification that it is out of the log's range, after which nothing
brings it back (`OutOfLog`; the model stops there). A transfer goes on while it makes progress
and starts again when its timer runs out. The follower handles a last object in four steps
(`Compact`, `ApplySnapshot`, `SetIndexes`, `Finish`), as its commit thread does not hold the
lock; the commit thread reads `cur_value_` and stores the new one in two, moves
`sm_commit_index_` in a third, creates a snapshot in a fourth and completes it, under the lock,
in a fifth. A value is the sequence of entries applied, so that a lost or repeated one shows.

Nothing in the code keeps a snapshot from arriving while the commit thread is between two of
these steps, and nothing in the model does. Two ways for them to meet do harm, and the history
variable `crossed` (read by no guard) says which have happened: `"install"`, the log was cut for
a snapshot while the thread had work or was not asleep, and `"snapshot"`, the thread's
`on_snapshot_completed` found another snapshot than its own to be the newest, because object 0
of a later one had been received. Each property of the follower has two forms. `StateIsPrefix`
is what should hold, and is violated; `StateIsPrefixApart` is the same as long as `crossed` is
empty, and is checked and proved. Together they say that these two crossings are the cause, and
the only one.

When a store into the wrong slot or a null entry ends what can be said of the follower
(`fol.lost`), the model does not follow it further.

### Broker

`Broker` is one action per call of the API and one per quote. `OnTick` goes through the
waiting orders as `process_normal_order` does, each matched by the cash and the position
those before it have left; a partial fill ends the order and makes a new one for the rest.
The loop is the function `Matching`, from the number of orders passed to what there is then,
so that it can be reasoned about by its steps.
Prices, quantities and money are integers and a `Quote` has prices, volumes and limits of
the day. A commission of 0/0 is `NaN` and makes the cash no number from then on, as
floating point does.

### Thread pool

`ThreadPool` splits Task(), next_job(), WaitAll() and JoinAll() at every point where
another thread can see the difference. A wait on a condition variable is three
steps: the predicate is false under the mutex ("blocking"), the thread is in the wait set
("waiting"), the thread has been notified and wants the mutex ("lock"). Waits can end
spuriously. JoinAll begins when no caller is inside the pool, as the destructor's
contract asks.

## 3. What TLC checks

| Run | Checks | Instance | States |
|---|---|---|---|
| `inmem_log_store` | `TypeOK`, `SizeCountsTheLog`, `KeepsContract` (refinement) | 5 indices, 2 terms, packs of 3 | all |
| `rocks_log_store` | `TypeOK`, `EntriesLostOnlyByCall` | 5 indices, 2 terms, packs of 2 | 5 807 |
| `raft_election` | `TypeOK`, `OneVotePerTerm`, `ElectionSafety`, `CountedVotesWereCast` | 3 servers, 2 terms, 3 events, durable state | 795 000 |
| `raft_VolatileState` | `ElectionSafety` violated | same, state in memory | |
| `raft_replication` | `TypeOK`, `SettledLogsMatch`, `AnswersAreTrue`, `CommitsWithLeader`, `LeaderHasChosen` | 3 servers, 2 terms, 2 entries, 1 failure, batches of 1, dual mutex | 1 160 000 |
| `raft_late_request` | `LogMatching` violated | 3 servers, 2 terms, dual mutex | |
| `raft_old_term_commit` | `LeaderHasCommitted` violated | 3 servers, 4 terms, single mutex | |
| `client_calls` | `TypeOK`, `OkIsApplied`, `AppliedInOrder`, `NeverInverted`, `CommittedIsApplied` | 2 calls, 3 terms, 3 entries | 180 000 |
| `snapshot_sync` | `TypeOK`, `CanServe`, `StateIsPrefixApart`, `SnapshotIsTrueApart`, `NothingSkippedApart`, `RequestsFitApart`, `CommitFindsEntryApart`, `CatchesUp` (liveness) | 6 entries, 1 failure, a snapshot every 2 entries, 1 kept, batches of 2 | 312 000 |
| `snapshot_under_commit` | `StateIsPrefix` violated | same, 2 failures | |
| `broker` | `TypeOK`, `OrderConserved`, `PositionIsTraded`, `SoldWereSettled`, `OverdrawnByFeeOnly`, `BooksBalance` | 1 symbol, 5 orders, 2 prices, 9 quotes | 1 370 000 |
| `thread_pool` | `TypeOK`, `JobsLeftCounts`, `WaitAllDrains`, `EveryJobRuns` | 2 workers, 2 callers, 2 jobs | 57 000 |

Ten more configurations lie beside those of the runs. `RaftElectedLogs.cfg` has
`LeaderHasChosen` and `SettledLogsMatch` over three terms, with batches of two and without
failures (1 769 000 states, no error). Nine show a property violated:
`RocksAppendTakesNextSlot.cfg`, `RaftMatchedAgain.cfg`, `RaftRollback.cfg`,
`SnapshotAnnounced.cfg`, `SnapshotCutUnapplied.cfg`, `SnapshotBehindLog.cfg`,
`SnapshotEntryGone.cfg`, `SnapshotLateObject.cfg` and `SnapshotLateDone.cfg`; see "Where the
code departs from what it says".

Bounds. Terms, log lengths, failures and jobs are bounded in the guards of the actions;
each bound is a constant with a comment. "Events" are timeouts, reconnections, restarts
and overtakings. Servers are symmetric in safety runs. CHECK_DEADLOCK is FALSE where a
bound, or a joined pool, ends the behaviour. Why they are enough for what each run says:

* Two candidates, a restart and an overtaking answer fit into three events, so
  `raft_election` reaches split votes, repeated votes and answers of dropped elections.
* `raft_replication` has a leader deposed while its entries are on the way, requests served too
  late by it, with one connection replaced, one answer overtaken or one server restarted
  meanwhile. All its properties but `LeaderHasChosen` are proved for all bounds; the run is
  there so that the proofs are of something that happens. `LeaderHasChosen` compares the leaders
  of two terms there, and those of three in `RaftElectedLogs.cfg`: two whose entries conflict
  and a third that must hold what was chosen in either's term. More terms with failures are
  beyond TLC's reach.
* The violated runs take the smallest instance that shows the violation. Those of commits
  use `single_mutex`, so that a late request cannot be the cause; what they find
  can happen with `dual_mutex`, too.
* `client_calls` has two terms of this server's own leadership and one between them, and
  a call's entry and another leader's can be stored at the same index in different terms, which
  is what it takes for an element to meet an entry it was not made for. Two calls at one index do
  not fit into the bounds; they rest on the proof of `CallsOkIsApplied`.
* `snapshot_sync` has three snapshots one after the other and keeps one, so that a snapshot is
  dropped while it is sent; the failure is a cut connection, a timeout or an answer that is
  overtaken. `kvstore` keeps three snapshots, and sets the distance and the reserved entries to
  5 (`kvstore/server.cpp:110`, `:112`); the run has 1, 2 and 2, so that snapshots run out and
  are cut within 6 entries. What it checks, `CatchesUp` apart, is proved for all values and any
  number of failures; with two failures it holds too (4 206 000 states), but liveness then takes
  too long.
* `broker`: five orders are a purchase with two partial fills and two sales that compete,
  with a settlement and a dividend between them. Quotes have volumes of nothing, of a part
  and of all of an order. Prices and the commission are such that every division is exact.
* Two workers and two callers have every race of `ThreadPool`: one between two
  workers, between two waiters, and between the two kinds.

Fairness. Three modules state weak fairness, of threads that the operating system runs
when they can run. `ThreadPool`: each worker and the steps of a call that was made.
`ClientCalls`: the commit thread, a call that holds `cli_lock_`, and a caller whose element
was invoked. `SnapshotSync`: the heartbeat or append thread that sends to a peer
(`Request`), the handlers of requests and of answers that have arrived, and the commit
thread. Calls of clients, elections, timeouts, cut connections and acknowledgements are
not fair, and no spurious wakeup is promised; in `SnapshotSync` failures are bounded, so
that from some point on the connection holds, which is when catching up can be asked for.
Mutexes need no strong fairness: a thread holds one for a single step or for steps that
are fair themselves. Elections have no liveness property: the program relies on
randomised timers, which fairness does not express.

### Where the code departs from what it says

TLC finds each of them violated, by the run or with the configuration named; the counterexample
is the scenario.

* **A compacted RocksDB log has holes** (`RocksAppendTakesNextSlot.cfg`). `append` adds
  `start_idx_` to the last index (`kvstore/log_store.cpp:121`); that is the next slot only
  while `start_idx_` is 1.
* **Votes are forgotten** (`raft_VolatileState`). `kvstore/state_mgr.h:71` saves term and
  vote in memory only; a restarted server votes twice and a term has two leaders.
* **A request is served under the next leader's term** (`raft_late_request`). The window between
  the two locks of `update_term` (`raft_server.cxx:1270`) lets a client request through with
  the new term (`handle_client_request.cxx:79`), which another server leads: two logs have
  different entries of one term at one index, and followers skip one for the other.
* **Matched indexes outlive a leadership** (`RaftMatchedAgain.cfg`). `become_leader` does not reset
  `matched_idx_` (`raft_server.cxx:952`): a leader of terms 1 and 3 counts a peer whose
  entries the leader of term 2 has replaced. An answer that waits for `lock_` in between does
  the same, because neither its term nor the role is looked at (`handle_append_entries.cxx:858`).
* **Entries of earlier terms are committed by counting** (`raft_old_term_commit`). The commit
  index is the index a majority matches, whatever the entry's term
  (`handle_append_entries.cxx:1022`). With batches of one, which `max_append_size_ = 1` and
  the retry rule of `handle_append_entries.cxx:340-352` produce, a leader commits such an entry
  before one of its own and loses to a server without it.
* **A commit is rolled back** (`RaftRollback.cfg`), as a consequence of the same: the later leader
  overwrites the entry and `handle_append_entries` sets the commit index back
  (`handle_append_entries.cxx:635`), which "should not happen in Raft though".
* **A snapshot is installed under a commit** (`snapshot_under_commit`). The handler holds
  `lock_`, the commit thread does not: a `commit()` that has read `cur_value_` stores its
  result over the snapshot's value (`kvstore/state_machine.h:82-91`,
  `NuRaft/src/handle_snapshot_sync.cxx:517`), and the indexes say otherwise.
* **An entry is gone before it is applied** (`SnapshotEntryGone.cfg`). The log is compacted
  (`handle_snapshot_sync.cxx:509`) before `sm_commit_index_` is set (`:533`): a thread between
  two entries finds none, and the process stops with N19.
* **An announced snapshot is taken for one's own** (`SnapshotAnnounced.cfg`,
  `SnapshotCutUnapplied.cfg`, `SnapshotBehindLog.cfg`). Object 0 makes an entry of the
  follower's own value in the snapshot map (`state_machine.h:155`), and `on_snapshot_completed`
  takes the newest in the map (`handle_commit.cxx:521`), also between the follower's creating a
  snapshot and completing it. `last_snapshot_` then has the value of an earlier index; the log
  is cut past what is applied; and a request whose previous entry is that snapshot is accepted
  past the log's end (`handle_append_entries.cxx:527-538`), its entries stored in the next
  slots. It takes no more reserved entries than the distance.
* **Answers of an earlier transfer count for the present one** (`SnapshotLateObject.cfg`,
  `SnapshotLateDone.cfg`). `handle_install_snapshot_resp` does not look at what was answered
  (`handle_snapshot_sync.cxx:338`, `:352`): the last object is sent to a follower without the
  first, or the transfer ends and the leader counts entries that were never received.

Seen while modelling, and kept in the actions, but without a run of their own:

* WaitAll can block for ever (`WaitAllReturns` of `ThreadPool` fails). The last worker
  decrements and notifies between the waiter's test and its wait
  (`util/threadpool.h:46-47`); `notify_one` wakes one of several waiters.
* A call whose entry was applied may wait for its time limit (`AppliedIsAnswered` of
  `ClientCalls` fails). The commit thread reads `role_` once, before its loop
  (`handle_commit.cxx:179`); a server elected meanwhile has its new call's entry applied by
  that loop, which completes no element. `raft_params.hxx:33-36` promises the answer
  after the commit.
* A crash between the two writes of `write_at` leaves a hole in the log (`RocksLogStore`,
  `Restart` between `WriteAtErase` and `WriteAtPut`).
* A leader that has dropped a snapshot its state machine kept too few of serializes a null
  object (`SendSnapshot`, "null object"), which ends the process.
* Funds are checked with the commission of an order of which nothing is filled yet, 0; the rest
  of the commission of an unfilled order is 0/0 and makes the cash no number, so that every
  later purchase passes (`cerebro_broker.cpp:378`, `:882`). The rest of a sale pays its share of
  the commission its first part had, at whatever price it is filled itself (`:440`, `:882`). A
  dividend in cash alone is not paid (`:570`). `settle` logs a short position through the long
  tracker.
* `handle_prevote_resp` (`handle_vote.cxx:474`) does not look at the role: the answer to a
  repeated pre-vote makes a server that is leader by now start an election of the next term.
  Pre-vote answers are counted per answer, so two answers of one server, the second sent
  while the first waits for `lock_`, count twice; and an answer of an earlier pre-vote
  counts when the term has moved on but `pre_vote_` has not. Each costs a needless
  election and none breaks a safety property: `Campaign` and `Elect` are allowed from any
  role because of them.
* The RocksDB log store erases up to the last index exclusively, so `write_at` leaves the
  last entry behind when it truncates, and `compact` leaves the entry it should reach.
  `CompactErase` and `WriteAtErase` do what the code does. Its range read includes
  its end, and its `get` answers with the next entry when one is missing.
* `JoinAll` sets `bailout` without the queue's mutex, so a worker can miss the wakeup and
  the join wait for it; `JoinAll(false)` leaves jobs in the queue.

## 4. What TLAPS proves

All theorems hold for every value of the constants that satisfies the module's named
assumption (finite sets of servers or workers, bounds that are numbers) and, where it is said
below, the theorem's own hypothesis. None of them rests on TLC.

* `InMemLogStore_proofs`: `InMemTypeCorrect`, `InMemSizeCountsTheLog` and
  `InMemImplementsContract`. The invariant relates the map's domain to start and size (the log
  has no holes), which is what makes start + size the next slot. Every step then maps to a step
  of `LogStore` or a stutter.
* `RocksLogStore_proofs`: `RocksTypeCorrect` and `RocksKeepsEntries`. The second is an
  action property; the invariant it needs is that an index `append` picks is not stored,
  because it lies after the last one.
* `RaftElection_proofs`: `DurableStateOneVotePerTerm`. `OneVotePerTerm` is not inductive:
  nothing in it says that a vote is remembered. `VotesAreRemembered` adds that no vote is of a
  later term than its voter and that a vote of the current term is the one in `voted_for_`.
  The proof uses `Durable`; without it, `raft_VolatileState` is the counterexample.
  `ElectionTypes` is type correctness, which needs no assumption on the state manager.
  `OneLeaderPerTerm` (`ElectionSafety`) and `NoVoteCountedTwice` (`CountedVotesWereCast`) are
  also proved with `Durable`. `handle_vote_resp` counts answers and does not
  look at who sent them, so the invariant, `CampaignInv`, is about messages on their way: the
  vote a request asks for has not been cast, there is one request per voter and term, one
  granting answer per vote, and `votes_granted_` is at most the number of votes whose answer
  has arrived. What is elected then has a majority of the voters, and two majorities share
  one. The argument does not use the peers' busy flags: overtaking and abandoned connections
  cannot make a vote count twice.
* `RaftReplication_proofs`, all with either lock and no further hypothesis.
  `ReplicationTypes`: that indexes stay in bounds is not evident; `TypeInv` adds that no log is
  longer than `MaxLog`, that no request reaches past it, and that an accepting answer names a slot
  after the first, from which a leader takes its matched index. The lemma of each action
  also says what it does to logs and requests, for the next proofs.

  `LogsMatch` (`SettledLogsMatch`). A server's log and the entries of a request are both pieces
  of a log that some leader had, and any two pieces with the same settled term at an index agree
  up to there, requests included, because they outlive the log they were cut from. The induction
  is for one settled term at a time: terms in a log are ordered, so that late entries, which are
  all of later terms, lie behind what is compared and never matter (`Strays`). A follower's
  skipping, rolling back and overwriting keeps this by itself (`Taken`). A leader's new entry
  keeps it because no piece has an entry of its term past the end of its log (`OwnEntries`),
  which needs that a term has one leader and no entry before it has one: every term with an
  entry or a leader was voted for by a majority, and two majorities share a voter. Lost,
  repeated and overtaking messages, stale answers and restarts are all in it.

  `AcceptedIsReplicated` (`AnswersAreTrue`): what an accepting answer says is so while the term
  it was given in lasts on both sides. The invariant adds that a request of a leader's term is
  cut from that leader's log as it is now (`FromLeader`), for which no request and no answer of
  a term may come before the majority that voted in it (`RequestsElected`, `AnswersElected`).
  The one entry the follower compares, or the last of those it skips, then makes the two logs
  agree up to there, and the rest is copied (`TakenFromLeader`). Requests that arrive later, or
  again, cut the follower's log only where it differs from the leader's, so that earlier answers
  stay true.

  `FollowersCommitWithLeader` (`CommitsWithLeader`) is an action property from the same
  invariant: a request carries at most what its leader had committed when it was sent, a
  leader's commit index does not go back while it leads (`CommitsGoOn`), and a follower that
  commits holds what the request says up to where it commits.
* `ThreadPool_proofs`: `PoolTypeCorrect`, `PoolJobsLeftCounts`, `PoolWaitAllDrains`. `jobs_left`
  is a number and `WaitAllDrains` speaks of jobs, so `PoolInv` adds `JobsAccounted` (each job
  submitted has run, is queued, or is in a worker's hand) and what a call saw stays submitted.
  When `jobs_left` is read as 0 the queue is empty and no hand holds a job.
* `ClientCalls_proofs`: `CallsTypeCorrect`, `CallsAppliedInOrder`, `CallsNeverInverted` and
  `CallsOkIsApplied`, for any number of calls, terms and entries. `CommitInv` orders the indexes
  (applied, committed, stored, announced), makes the holder of `cli_lock_` the writer of the last
  entry of a leader's log, and keeps the commit thread on the entry after `sm_commit_index_`; the
  first three follow. `OkIsApplied` needs more, because a call and the thread meet by index and an
  index is used again after a change of leader: `ElementInv` says whose element the map holds at
  each index, and that a call waits on its own element or on one the thread left at an index it
  has applied.

* `SnapshotSync_proofs`, for all values of the constants. `SnapshotTypes` and `LeaderCanServe`:
  `TypeInv` bounds what every message reaches, and that the newest snapshot lies behind what the
  leader has cut. `ValueIsPrefix`, `LastSnapshotIsTrue`, `LogReachesState`,
  `AcceptedRequestsFit` and `CommitNeverStops` are about the follower as long as `crossed` is
  empty. That is no assumption on timing or constants: the theorems are of every behaviour of
  `Spec`, and of a follower up to the step in which one of the two things has happened of which
  the violated runs show that they do harm. The thread may still be at work when the last object
  arrives. The argument (`SyncInv`) is that snapshots are of multiples of the distance, on both
  sides (`LeaderCut`, `Indexes`): the thread cannot overtake a snapshot that is being installed,
  because it stops at the same index to make one of its own, and that one is what it finds
  newest. `Installing` and `ValueHeld` say, for each of the steps of a last object and of the
  commit thread, what has been done by then to log, state machine and indexes. Snapshots of
  which only object 0 has come lie in the map with values that are not their own, and nothing is
  said of them but that none is `last_snapshot_`.
* `Broker_proofs`: `BrokerTypesHold`, `OrdersAreConserved`, `PositionsAreTraded`,
  `SettledBeforeSold` and `BooksAlwaysBalance`, for any symbols, prices, quantities, quotes and
  number of orders. A tick is a loop, so there are two inductions. `LoopInv` is on the orders
  passed: the cash paid, the position held and the orders filled have grown by the same shares,
  and the rests are new orders with new ids. `BrokerInv` is on steps and adds what the
  properties do not say: every id has been handed out, so that a new order is no part of an old
  one (`Ids`), and all parts of an order are of one symbol (`RootsAgree`). Sums over sequences,
  and the loop, are recursive functions. That they have the values their definitions give is
  itself proved: the last step at which they differ, or at which they are not yet defined, would
  have one before it (`Induct`, by a least counterexample). `OverdrawnByOneFee`
  (`OverdrawnByFeeOnly`) has a hypothesis on the constants, `PricesInReach`: no price is more
  than `FeePer` times another (3333 times with the default rate, `cerebro_struct.h:644`; the
  run's prices meet it). Without it the property is false: the commission of a sale is fixed at
  the price of its first part, and the rest pays its share at whatever price it is filled. With
  prices 1 and 120 and a commission of a tenth TLC finds two shares bought at 1, one sold at 120
  and the other, after the proceeds were withdrawn, at 1 for a commission of 6. `CoveredInv` is
  the property with what makes it inductive: the commission put on a waiting order is not more
  than it brings in at any price (`Covered`), which a partial fill keeps for the part and for
  the rest (`FillCovered`, by `ShareBound`).

### Commits

The properties of commits (`MatchedIsReplicated`, `LeaderHasCommitted`, `CommitIsFinal`) are
violated by the code, and nothing is proved of them. What holds of commits is relative to the
leader: `CommitsWithLeader`, proved, and `LeaderHasChosen`, checked, that what a majority has
held in its own term is never lost. The difference between what is chosen and what is committed
is the entries of earlier terms that are committed by counting, and the peers that are counted
without holding the entry.

Only model-checked are the liveness properties, since liveness under fairness is beyond the prover:
`EveryJobRuns`, `CommittedIsApplied` and `CatchesUp`; and `LeaderHasChosen`, whose invariant has to
speak of what was in each voter's log at each earlier term. Every other safety property that a
passing run checks is the property of a theorem.

## 5. Not modelled

* Membership changes and priorities. Runs of the Raft modules say nothing of a quorum that
  changes.
* Snapshots as raw binaries, and to servers that are joining; snapshots and changes of leader
  together: in `SnapshotSync` the leader stays. `create_snapshot_internal` for object 0 changes
  the map of snapshots without `snapshots_lock_` (`kvstore/state_machine.h:155`), which races
  with the commit thread's own; the model has it as one step.
* Restarts of a server whose `state_mgr` forgets term and vote, together with its log:
  `RaftElection` has the first alone, `RaftReplication` the contract.
* The asynchronous return methods of client requests, and commits by global workers, which
  the service does not use.
* I/O errors of RocksDB, and disk faults.
* The service and its id generators. Their registry is two maps under one lock, with a check
  and an insertion under different ones (`service_impl.cpp:453`, `:471`); brokers and ids
  are used by several threads without a lock (`:35`, `:534`), which has no defined outcome
  to model.
* Databases and tables (`db/db.cpp`, `db/table.cpp`): sequential, and nothing in the service
  stores rows. Read while deciding: ids are not restored after a restart (`db.cpp:113`), `get`
  answers with the next row (`table.cpp:53`), `scan_range` does not end once its cursor has
  passed the last key (`:98`). A model would restate these lines.
* The cache of quotes, transport, encodings, SQL and HTTP clients, logging and the standalone
  programs in `db/`: no protocol state of their own.
* Vendored code and generated SDK headers (JSON, HTTP, logging, test and CTP libraries) are
  most of the tree's lines. None of it is the program's logic, and it is left out as a whole;
  what is modelled is small beside it.

## 6. What could come next

1. **Membership**: joining and leaving with the uncommitted configuration, and quorums of
   successive configurations.
2. **Snapshots and elections together**: a follower that is elected with a compacted log, over
   `RocksLogStore` instead of the contract, with the entry that `write_at` leaves behind.
3. **`LeaderHasChosen` as a theorem**, for every number of terms.
4. **The service**, once its brokers and id generators are used under a lock.
