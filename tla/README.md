# TLA+ models of HuaDB

This directory holds TLA+ models of the HuaDB storage and transaction code
under `src/src`, the TLC configurations that check them, and `PROJECT.json`,
which maps every modelled definition to the source lines it translates and
lists the runs, mutants, findings and hazards.

## The system

HuaDB is a teaching relational database. The parts under `src/src` are:

| Part | Source | State | Operations |
|---|---|---|---|
| Lock manager | `transaction/lock_manager.{h,cpp}` | `resource_locks_`: oid -> vector of {type, granularity, xid, rid} | `LockTable`, `LockRow`, `ReleaseLocks`, `Compatible`, `Upgrade` |
| Slotted page | `table/table_page.cpp` | page header (`page_lsn`, `next_page_id`, `lower`, `upper`), slots, record headers (deleted byte, xmin, xmax, cid) | `InsertRecord`, `DeleteRecord`, `UndoDeleteRecord`, `RedoInsertRecord`, `GetFreeSpaceSize` |
| Table heap | `table/table.cpp` | `first_page_id_`; the pages form a list through `next_page_id` | `InsertRecord` (walk pages, maybe add one), `DeleteRecord`, `UpdateRecord` (delete + insert) |
| Table scan | `table/table_scan.cpp` | cursor rid | `IsVisible` (MVCC), `GetNextRecord` |
| Executors | `executors/*.cpp` | per-executor cursors and buffers | insert, delete, update, seqscan, limit, orderby, merge join, nested loop join |
| Log manager | `log/log_manager.cpp` | `next_lsn_`, `flushed_lsn_`, `log_buffer_`, `att_` (xid -> last LSN), `dpt_` (page -> recLSN) | `Append*Log`, `Flush`, `Checkpoint`, `FlushPage`, `Rollback`, `Analyze`, `Redo`, `Undo` |
| LRU strategy | `storage/lru_buffer_strategy.cpp` | access list | `Access`, `Evict` |
| Optimizer | `optimizer/optimizer.{h,cpp}` | plan trees | `SplitPredicates`, `PushDown*`, `ReorderJoin` |

The transaction manager (xids, active set, snapshots), the log record classes
(`Undo`/`Redo`), the buffer pool, the catalog and the parser are not under
`src/`; where a model needs them they are written from `spec.md` and marked
`spec_modelled` in the map.

How the parts interact: an executor asks the lock manager for locks and calls
the table, the table modifies pages through `TablePage` and appends log records
to the log manager (which keeps each transaction's `prev_lsn` chain in `att_`),
the scan decides visibility from the record header and the transaction
manager's active set or snapshot, and rollback walks the log chain and calls
each record's undo on the pages. Statements of one connection run one at a
time (Volcano pull model); statements of different transactions interleave.

What is hard here: the lock manager never blocks, so every executor must cope
with a `false` that arrives after it has already changed a page; undo writes
page state back without looking at who wrote it last; an UPDATE writes new
versions ahead of its own scan; the rid returned by a heap insert is what the
lock is taken on; recovery must rebuild `att_` and `dpt_` from a log that may
stop anywhere.

## Modules

### `LockManager.tla` (lock manager: modelled)

`resource_locks` is `resource_locks_`, with each vector modelled as a set:
the code upgrades the first own entry instead of appending a second one, so
there is at most one entry per (xid, granularity, rid) and order never matters
(TypeOK checks this shape). The two lookup tables are copied from
`lock_manager.h`. `LockTableGranted/LockTableResult` and
`LockRowGranted/LockRowResult` are the two loops and the append of
`LockTable`/`LockRow`, written as pure operators over a lock table so that
`MVCC` can compose them into its executor actions. The module's own
specification lets any transaction make any call; `last_call` records the call
and the bool it returned.

Properties (run `lock_manager`):
- `LocksCompatible`: two transactions never hold modes incompatible by the
  specification's matrix (written independently of `lock_compatibility_map_`)
  on the same table or row, after any sequence of calls including upgrades.
- `LockResultCorrect`: `true` means the caller now holds at least the
  requested mode in the mode lattice (independent of `lock_upgrade_map_`);
  `false` means another transaction really holds an incompatible mode.
- `HeldNeverWeakens` (action property): a held lock is never replaced by a
  weaker one or dropped except by `ReleaseLocks` of its owner.

### `MVCC.tla` (heap, pages, scan, DML executors, rollback)

State: `pages` (the page list; a record is its header fields plus a key),
`log` (records with type, xid, prev LSN and rid; the LSN is the index),
`att`, `resource_locks`, the transaction manager's `status`, `iso`,
`snapshot`, `cid`, `next_xid`, and `stmt`, the DELETE/UPDATE being executed
with its scan cursor.

Actions: `Begin`, `Select` (one `SeqScanExecutor::Next`), `Insert`
(`InsertExecutor::Next`: IX, `Table::InsertRecord`, X on the returned rid),
`StartStmt` (`SeqScanExecutor::Init`), `StmtStep` (one iteration of the
delete/update loop: scan to the next visible row with the key, IS, then
`DeleteRow` or `UpdateRow` with the lock calls in code order, or `StmtDone`),
`Commit`, `Abort` (`LogManager::Rollback` over the chain, then the Rollback
record). A failed lock call makes the transaction `failed`: the executor threw,
its writes stay until it rolls back. `Table::InsertRecord` is translated with
its page walk, its new-page path and the rid it returns.

Properties (run `mvcc`):
- `AbortedInvisible`: after a rollback nothing the transaction inserted is
  visible to any live transaction or a new one; this needs the chain to be
  undone newest first (an UPDATE of an own row).
- `StmtRowsOnce`: a running DELETE/UPDATE has deleted exactly the rows that
  matched its WHERE clause when it started and that its scan cursor has
  passed, each once. It relates the statement's Delete log records to its
  cursor: an UPDATE's new version reaching the cursor (the Halloween test in
  `IsVisible`), a cursor that returns a row twice (under RR a transaction
  still sees a row it deleted itself) or skips one all break it. The
  history fields `matched` and `log_start` of `stmt`, set by `StartStmt`,
  are read by this property only.

Violation run (its finding is in `PROJECT.json`), and a known disagreement:
- `mvcc_lost_delete` (`CommittedDeletesStay`): T1 inserts a row and commits;
  T2 deletes it (holds X); T3 deletes it too: `DeleteRecord` overwrites xmax
  and only then `LockRow` fails; T2 commits; T3 rolls back and
  `UndoDeleteRecord` clears the tombstone. T2's committed delete is lost.
- `WritesLocked` (`MCMVCC_WritesLocked.cfg`, not a run): with one record per
  page, the second insert opens page 1 but `Table::InsertRecord` returns `{0, 0}`
  (`table.cpp:100`), so the X lock goes to another row and the new row has none.

Bounds (`MCMVCC.cfg`): 3 transactions, each at RC or RR, two statements each,
one key, pages of one record and at most three pages. Three transactions are
the fewest for the lost delete (inserter, deleter, failing deleter); two
statements let a transaction insert then update its own row (rollback order);
one record per page makes the second insert open a new page and makes an
UPDATE's new version land on a later page, ahead of its scan; the third page
leaves room for an UPDATE to reach and update its own new version.
1,372,730 states.
A behaviour stops (`Finished`) when all xids have ended or an UPDATE needs a
third page.

### `OrderBy.tla` (OrderBy executor: modelled)

`input` is what the child returns, `order_bys` the clauses
(<<direction, column>>), `sorted_records` and `indices_` the executor's
vectors, `orderByIdx` the clause being handled, `index_` and `output` what
`Next` has returned. `Init` collects the records; `SortClause` is one iteration
of `Init`'s loop over the clauses (sort the whole vector for the first clause,
each range of `indices_` for later ones, including the trailing range, then
rebuild `indices_` from the clause's values); `NextRecord`/`NextEnd` are the
two outcomes of `Next`. `std::sort` is not stable: a sort step may leave any
sorted arrangement of each range. `OutputIsSortedInput` compares what `Next`
returned with the recursive reference order `LexBefore` over all clauses and
with the input as a multiset.

- `orderby` (pass): up to three records of two columns over {0, 1}, one or two
  clauses in each of ASC/DESC/DEFAULT, every column; 26,544 states. Two
  columns and two values are enough for every relation between two clauses
  (equal first key, different first key, both directions).
- Not a run, a known disagreement: with three clauses `indices_` is rebuilt
  from the second clause's values alone (`orderby_executor.cpp:97`), so the
  third clause sorts across groups of the first; `ORDER BY c1, c2, c3` over
  (0,0,1), (1,0,0) is wrong even with a stable sort. With `MaxKeys = 3` TLC
  finds `OutputIsSortedInput` violated (`MCOrderBy_ThreeKeys.cfg`); the
  `orderby` run stays at two clauses, where the code is right.

### `Recovery.tla` (log manager: flush, checkpoint, crash, recovery)

State: `log` (every record appended; the LSN is the index, and a record
carries type, xid, prev LSN, page, slot, the previous page of a NewPage, and
the att_/dpt_ copies of an EndCheckpoint), `flushed_lsn` (`flushed_lsn_`:
records up to it are in the log file), `master` (the master record),
`att` and `dpt` (`att_`, `dpt_`, 0 for absent), `mem` (pages in the buffer
pool) and `disk` (the data file), each page being its records (xmin,
deleted), `next_page_id` and `page_lsn`; the transaction manager's `status`
and `next_xid`; `phase` (up, or down / analyzed / redone during `Recover`);
`crashes`; and two ghost variables, `tid_of` and `ntid`, that number each
Begin so that two transactions given the same xid can be told apart.

Actions: `Begin`/`BeginRejected` (`AppendBeginLog` and its throw when the xid
is still in `att_`), `Insert` (`Table::InsertRecord` as `InsertFit` or
`InsertNewPage`, with the page walk `WalkFrom`, `SetDirty` and the page
LSNs the code sets), `Delete` (`Table::DeleteRecord`), `Commit`
(`AppendCommitLog`: flush, erase), `Abort` (`Rollback` over the chain, then
`AppendRollbackLog`), `WriteBack` (the buffer pool writing a page out through
`FlushPage`: flush to its `page_lsn`, erase from `dpt_`), `Checkpoint`,
`Crash` (the log buffer, `att_`, `dpt_`, the buffer pool and the transaction
manager's memory are lost; the flushed log, the master record and the data
file stay), and `Analyze`, `Redo`, `Undo`, the three steps of `Recover()`,
each translated with its loops as recursive operators (`AnalyzeFrom`,
`RedoFrom`, `UndoAll`). The records' own `Undo`/`Redo` methods are not under
`src/` and are written from the specification (`UndoRec`, `RedoRec`'s page
effects). The buffer pool is not under `src/` either: any cached page may be
written back at any time, which includes every choice of
`lru_buffer_strategy.cpp`.

Properties (run `recovery`):
- `CommittedInsertsDurable`: whenever the system is up and no transaction is
  running, every row a committed transaction inserted (and nobody tried to
  delete) is live, through any number of crashes up to the bound. It
  depends on Commit's flush, Analyze erasing committed xids, Redo's recLSN
  and page-LSN tests and NewPage redo.

Violation runs (findings in `PROJECT.json`):
- `recovery_rollback_redone` (`UncommittedInsertsUndone`): T inserts and
  rolls back (no compensation records), a checkpoint records the page's old
  recLSN in `dpt_`, the system crashes; Redo replays the insert from that
  recLSN, and T is in no `att_`, so Undo leaves the row live.
- `recovery_double_undo` (`CommittedDeletesStay`): a first recovery undoes
  T1's delete but writes no Rollback record and Analyze ignores Rollback
  records anyway (`log_manager.cpp:366`); T2 deletes the row and commits; a
  second crash's recovery undoes T1 again and clears T2's tombstone.

Known disagreements without a run (see the table under Runs):
- `XidsUnique` (`MCRecovery_XidReuse.cfg`): Analyze restores the next xid to
  the largest xid in the log (`log_manager.cpp:375`), not one past it, so
  the first Begin after recovery reuses it. The specification only says the
  next xid is restored from the log, so this is a gap in it as much as in
  the code.

Bounds (`MCRecovery.cfg`): 2 xids, 2 pages of one record each (so the
second insert takes the new-page path), a log of at most 7 records (a
transaction with a new-page insert and a commit is 4, a checkpoint 2), at
most 2 crashes; 329,216 states. The violation configs use what their scenario
needs (3 xids and 8 records for the double undo). A behaviour stops
(`Finished`) when every xid has been handed out or the log is full.

No fairness is assumed and no liveness property is checked: `Analyze`,
`Redo` and `Undo` are each one step here, always enabled in their phase, so
"recovery finishes" would hold by the shape of the model whatever the
code's loops do. The WAL rule itself (a page in the data file is never
ahead of the log) holds here by construction, since `WriteBack` flushes and
writes in one step; it is checked where the steps are apart, in
`ConcurrentWal` (`WalBeforeEviction`).

`HeapLinked` (every `next_page_id` on a recovered heap names a page that
exists) is stated but kept out of the runs: `Table::InsertRecord` sets the
previous page's `next_page_id` without raising its `page_lsn`
(`table.cpp:85`), so the page can be written back while the NewPage record
is still in the buffer; after a crash page 0 points to a page that does not
exist. `MCRecovery_HeapLink.cfg` shows it.

Not modelled here: the first-page path of `Table::InsertRecord` (the table
starts with page 0), several tables or databases, and concurrent appenders
inside one append (see the hazard at `log_manager.cpp:37`).

### `NestedLoopJoin.tla` (nested loop join executor)

State: the children `L` and `R` (their rows' keys; a row is <<key,
position>> and the join condition is key equality), `join_type`, the cursors
`r` and `s` (`r_record_`, `s_record_`; `Len + 1` is nullptr), `r_index_`,
`s_index_`, the match flags `r_table_` and `s_table_`, the arities
`r_value_size_` and `s_value_size_` taken from each child's first record (0
for an empty child), `output` and `done`. `Init` is the executor's `Init`.
Each action is one iteration of a loop of `Next`: `Match` (the condition
holds: flags set, the joined row returned), `Skip` (it does not), `RowEnd`
(the right child is exhausted: pad an unmatched left row for LEFT/FULL when
`s_value_size_ > 0`, move the left child on, re-initialise the right one),
`TailEmit`/`TailSkip` (the RIGHT/FULL loop over the right child after the
left one is exhausted, with the code's `SetValue(0, ...)`), `Finish` and
`Exhausted`.

- `nested_loop_join` (pass): all four join types, children of up to three
  rows over two keys, empty ones included; 9,416 states.
  `MatchedRowsExact`: once `Next` returned nullptr, the records without nulls
  are exactly the matching pairs, each once. `PaddedRowsUnmatched`: at every
  point a null-padded record stands for a row with no match on the other
  side, each at most once.
- Known disagreement, not a run (`MCNestedLoopJoin_OuterEmpty.cfg`,
  `JoinResultCorrect`): a LEFT JOIN
  with an empty right child returns no rows, because the padding is sized
  from the right child's first record and skipped when it is 0
  (`nested_loop_join_executor.cpp:125`); RIGHT/FULL do the same with an empty
  left child.
- Known disagreement, not a run: RIGHT and FULL build an unmatched right row
  from nulls and then write the right row's first value into column 0
  (`:158`, `:216`); with `JoinTypes = {"RIGHT"}` and non-empty children TLC
  finds `JoinResultCorrect` violated (`MCNestedLoopJoin_RightPad.cfg`).

### `MergeJoin.tla`, `Limit.tla`, `LimitMergeJoin.tla` (merge join, limit, and LIMIT over a merge join)

`MergeJoin` has the sorted children, the cursors, `last_match_` (positions of
the buffered run of equal right rows) and `index_`; its actions are the
branches of `Next`: `Replay` (the next buffered row with the current left
row), `ReplayNextLeft` (buffer used up: the left child moves on, the buffer
is kept only if the next left key is the same), `AdvanceLeft`,
`AdvanceRight`, `MatchRun` (return the first pair, collect the run, the right
child stands after it), `Finish`. `Limit` has the plan's `limit_offset_` and
`limit_count_`, `offset_` and `count_` (absent count = the unsigned value of
-1, with the width a constant `CountBits`), and one action `NextCall` for a
whole `Next` (skip `offset_`, clear it, nullptr on count 0, else the child's
next record) over a child given as a sequence and a cursor.

`LimitMergeJoin` composes the two as the plan LIMIT over a merge join. The
join's returned records are the Limit's child sequence; since executors are
pulled, a `JoinStep` (one `MergeJoin` action) runs only while the Limit's
current call needs more records than the join has returned (`Demand`: the
offset it skips plus one, unless the count is 0), and `LimitStep` is the
Limit's `NextCall` once the join has returned them or nullptr. When the Limit
stops, the join is left where it is, possibly in the middle of a run.

- `limit_merge_join` (pass): sorted children of up to four rows over three
  keys, offsets {absent, 0, 1, 3, 5} and counts {absent, 0, 1, 2, 5};
  238,068 states. `MergeJoinResult`: what the join returned is a prefix of
  the equi-join in left-major order (duplicates on both sides) and all of it
  at nullptr. `PlanResult`: what the Limit returns is a prefix of the
  offset/count window of the equi-join, and the whole window at nullptr.

### `Optimizer.tla` (optimizer)

`Optimize` runs three rewrites in turn; each is an action (`OptimizeSplit`,
`OptimizePushDown`, `OptimizeReorder`), and each rewrite is a recursive
operator over the plan tree translated from its function. A plan node is
a record (type, table of a scan, predicate of a Filter or join condition
of a join, children). A predicate is an equality comparison of a column
and a column or a constant, an AND, or TRUE. Each table has one column.
State: `orig`, `plan`, the member lists `join_conditions_` and
`filter_conditions_` (<<predicate, pushed>> pairs),
`join_order_algorithm_` and `phase`.

- `SplitPredicates` looks only at a node's children: a Filter on an AND
  becomes a Filter on the right operand over one on the left operand, and
  only that new pair is split further.
- `PushDown` threads the two lists through the recursion (`PushDownChildren`
  is the children loop). `PushDownFilter` registers the predicate, pushes
  its child down, then drops itself if the *last* entry of its list is
  marked pushed. `PushDownJoin` gives the join the first registered join
  predicate whose tables are both under it (`TableNames` is
  `GetTableName`). `PushDownSeqScan` puts the first matching filter
  predicate in a new Filter above the scan.
- `ReorderJoin`: NONE and DP leave the plan alone; GREEDY rotates three
  left-deep joins (`Rotate`).

The operator and expression classes and the binder that builds plans are
not under `src/`; the plans Optimize is given are written from the
specification (spec_modelled): SELECT over a FROM list of distinct tables
(left-deep inner joins with condition TRUE), with an optional WHERE clause
that is an AND, nested either way, of comparisons with a column on the
left. The meaning of a plan is `Eval`: its rows over a database giving
each table a set of values.

- `optimizer` (pass): FROM lists of up to three of four tables, WHERE
  clauses of up to two comparisons (two values), and GREEDY on the
  four-table FROM lists without WHERE, the one shape its rotation handles;
  17,344 states. `ResultPreserved`: the optimized plan has the same rows as
  the given one on every database over the plan's tables.
- Known disagreement (`MCOptimizer_ThreeConjuncts.cfg`): with three
  conjuncts, `WHERE a.x = 0 AND b.x = 0 AND b.x = 1` loses `b.x = 0`. The
  scan of `a` takes `a.x = 0`, and the scan of `b` takes the first `b`
  predicate registered, `b.x = 1`. `b.x = 0` is pushed nowhere, but its
  Filter reads `filter_conditions_.back()`, which is `a.x = 0` and marked
  pushed, so it drops itself (`optimizer.cpp:141`).

Not modelled here: column lists (`column_list_` propagation), comparisons
other than equality, OR, a constant on the left of a comparison (its
`name_` is not under `src/`), explicit `JOIN ... ON` and outer joins (a
pushed predicate replaces the ON condition, and pushing below the
null-supplying side changes the result; the binder's plans for them are
not under `src/`), and GREEDY on other shapes (undefined behaviour).

### `ConcurrentWal.tla`, `LRUBufferStrategy.tla`, `LRUReplacement.tla` (concurrent log appends over an LRU buffer pool)

`Recovery.tla` appends each log record in one step. The code does not: every
`Append*Log` takes its LSN with `next_lsn_.fetch_add` (`log_manager.cpp:55`)
and pushes the record into `log_buffer_` under `log_buffer_mutex_` later
(58-61). `Flush` writes and erases the buffered records under the mutex
(249-268), and then tests and stores `flushed_lsn_` and the NEXT_LSN file
outside it (271-282). `spec.md` says sessions append concurrently. The
module runs one transaction per session (thread): `AppendBeginLog`, up to
`MaxWrites` `Table::DeleteRecord` calls (GetPage, change the page, the
append's reservation, the push, `SetPageLSN`), then `AppendCommitLog` and
its `Flush(lsn)`. `pc` is where each session is, and `rec`, `target` and
`max_rec`, `next_read` are its locals. Each interruptible point of the code
is an action of its own: `AppendBeginLog`, `DeleteRecord`, `AppendCommitLog`
(the reservations), `PushLog`, `SetPageLSN`, `FlushWrite` (249-268, under the
mutex), `FlushCheck` (271), `FlushStore` (272), `FlushReadNext` (273-277),
`FlushTestNext` (278, which reads the shared `flushed_lsn_` again),
`FlushOpenNext` (279, `std::ofstream` truncates the file, `EMPTY`),
`FlushWriteNext` (280, `flushed_lsn_ + max_log_size` with `flushed_lsn_` as
it then is), `CommitEnd`. A read of the truncated file leaves `next_lsn` at
`FIRST_LSN` (`in >> next_lsn` extracts nothing).

The buffer pool is not under `src/`. It is written from `spec.md` 4.1
(spec_modelled):
- `GetPageHit`, `GetPageFree` and `GetPageEvict` run under the pool's
  mutex and call `LRUBufferStrategy` (`Access`, `Evict` on `access_order_`).
- A dirty victim goes through `LogManager::FlushPage` (the same Flush
  steps, then `EvictWrite`) before its frame is reused.
- A page is latched by the session changing it from GetPage to
  `SetPageLSN`, and eviction waits for the victim's latch.

`LRUReplacement.tla` is the abstract policy: the tracked frames and which
of two was used less recently. `LRUImplemented` instantiates it with
`tracked <- ToSet(access_order_)` and `older <- OlderPairs(access_order_)`,
and checks its `Spec` as a property.

- `concurrent_wal` (pass): two sessions, three pages, two frames, two
  deletes each, symmetric in pages; 1,962,509 states in about a minute and a half. GetPage hits, fills a
  free frame, and evicts clean and dirty victims, while the other session
  reserves, pushes and flushes.
  - `WalBeforeEviction`: no buffered delete record describes a change
    that the data file already holds.
  - `CommitDurable`: a committed transaction has no record left only in
    memory.
  - `LRUImplemented`: described above.
  - `TypeOK` includes that `access_order_` lists each occupied frame once.
- `wal_rollback_lookup` (violation, `RollbackFindsRecords`): `Rollback`
  (188) looks in `log_buffer_` for a record above `flushed_lsn_` and in the
  log file otherwise. Session 2's BeginLog is written and erased by
  session 1's commit Flush before that Flush stores `flushed_lsn_`. A
  Rollback of session 2 in between throws "Log record not found in buffer".
- Known disagreement `MCConcurrentWal_LsnHole.cfg`
  (`RollbackFindsRecordsAtRest`, the same outside a Flush): session 2
  reserves its LSN, session 1 commits and stores a larger `flushed_lsn_`,
  and then session 2 pushes. Its record sits in the buffer below
  `flushed_lsn_`, and a Rollback reads it from the log file, where it is
  not.
- Known disagreement `MCConcurrentWal_FlushedBack.cfg`
  (`FlushedLsnMonotone`): two commit Flushes both pass the test, and the
  one with the smaller LSN stores last.
- Known disagreement `MCConcurrentWal_NextLsnFile.cfg`
  (`NextLsnFileCoversLog`: with no Flush between its write and its NEXT_LSN
  update, the NEXT_LSN file is past every record in the log file). Two
  commit Flushes run 272-280 interleaved: the one with the larger record
  stores `flushed_lsn_` first, the other stores its smaller one over it,
  and its write at 280 leaves `flushed_lsn_ + max_log_size` below the end
  of the larger record. After a crash Analyze would hand out an LSN the log
  already holds. The same happens without `flushed_lsn_` moving back:
  the Flush that stored the smaller `flushed_lsn_` truncates the file, the
  other runs 272-280 to the end, and the first then writes the larger
  `flushed_lsn_` plus its own, smaller, `max_log_size`. (The model writes
  at 280 the value it computes there; the stream reaches the file when
  `out` is closed at 281.)
Not modelled here:
- crashes: `Recovery.tla` has them. The window between writing the log
  and raising NEXT_LSN is listed as a hazard.
- `att_` and `dpt_` as shared hash maps: each step changes one entry.
- inserts: the page choice of `Table::InsertRecord` is in `MVCC` and
  `Recovery`.
- checkpoints and `Flush()` with `NULL_LSN`.
- the pool's PoolFull error and pins, which `Evict` does not know about.

## Runs

| Run | Config | Expect | Shows |
|---|---|---|---|
| `lock_manager` | `MCLockManager.cfg` | pass | 2 xids, 1 table, 2 rows, symmetric in xids and rows; 40,387 states |
| `mvcc` | `MCMVCC.cfg` | pass | rollback order and each statement deleting its matching rows once, under all interleavings of 3 transactions |
| `mvcc_lost_delete` | `MCMVCC_CommittedDeletesStay.cfg` | violation | lost committed delete |
| `orderby` | `MCOrderBy.cfg` | pass | one or two ORDER BY clauses sort correctly |
| `recovery` | `MCRecovery.cfg` | pass | committed inserts durable through 2 crashes, with write-backs and checkpoints anywhere |
| `recovery_rollback_redone` | `MCRecovery_RollbackRedone.cfg` | violation | a rolled-back insert comes back after recovery |
| `recovery_double_undo` | `MCRecovery_DoubleUndo.cfg` | violation | a second recovery undoes a committed delete |
| `nested_loop_join` | `MCNestedLoopJoin.cfg` | pass | every join type returns exactly the matches, padding only unmatched rows |
| `limit_merge_join` | `MCLimitMergeJoin.cfg` | pass | LIMIT over a merge join returns the window of the equi-join |
| `optimizer` | `MCOptimizer.cfg` | pass | optimized plans return the same rows as the given ones |
| `concurrent_wal` | `MCConcurrentWal.cfg` | pass | WAL, durable commits and LRU with two sessions appending at once |
| `wal_rollback_lookup` | `MCConcurrentWal_RollbackLookup.cfg` | violation | Rollback looks for a record where it is not |

Known disagreements between the code and what it should do, each shown by
a config that is not one of the runs (TLC finds the property violated; the
project keeps one run per question):

| Config | Property | Shows |
|---|---|---|
| `MCOrderBy_ThreeKeys.cfg` | `OutputIsSortedInput` | the third ORDER BY clause breaks the first clause's order |
| `MCRecovery_HeapLink.cfg` | `HeapLinked` | dangling `next_page_id` after a crash |
| `MCRecovery_XidReuse.cfg` | `XidsUnique` | an xid is handed out twice across a restart |
| `MCNestedLoopJoin_RightPad.cfg` | `JoinResultCorrect` | RIGHT JOIN writes the right key into a left column |
| `MCOptimizer_ThreeConjuncts.cfg` | `ResultPreserved` | a WHERE conjunct is dropped by the pushdown |
| `MCMVCC_WritesLocked.cfg` | `WritesLocked` | wrong rid locked after an insert opens a new page |
| `MCNestedLoopJoin_OuterEmpty.cfg` | `JoinResultCorrect` | LEFT JOIN with an empty right table returns nothing |
| `MCConcurrentWal_LsnHole.cfg` | `RollbackFindsRecordsAtRest` | a record pushed after a larger `flushed_lsn_` was stored |
| `MCConcurrentWal_FlushedBack.cfg` | `FlushedLsnMonotone` | two Flushes store `flushed_lsn_` in the opposite order |
| `MCConcurrentWal_NextLsnFile.cfg` | `NextLsnFileCoversLog` | the NEXT_LSN file ends below the end of the log |

Reproduce any of them with `tlc -workers 2 -config <Config> <MC module>`,
the MC module being the one the config's name starts with.

Each property of a passing run has a mutant in `PROJECT.json` (an operator
named `...Keep`, `...OffByOne`, `...OldestFirst`, etc. defined next to the
definition it replaces) that TLC catches with the run's own configuration.

No liveness property is checked: every component modelled here either
never blocks or runs its loops as single bounded steps, so a liveness
property would hold by the shape of the model. `concurrent_wal`
checks deadlock: no session ever waits forever for the pool's mutex or a
latch (`Finished` idles once both sessions have committed). The lock manager
never blocks (a conflict throws and the transaction rolls back), so there is no
waiting to be fair about in `LockManager` and `MVCC`.

## Plan

Done in order of importance: lock manager; heap + scan + executors +
rollback; ORDER BY; recovery; joins and limit; optimizer; concurrent log
appends with the LRU buffer pool. Next: a refinement of `MVCC` by an
abstract per-key store of committed versions.
