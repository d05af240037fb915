-------------------------------- MODULE MVCC --------------------------------
(***************************************************************************)
(* Transactions over one HuaDB table: the slotted heap (table/table.cpp,    *)
(* table/table_page.cpp), MVCC visibility and the table scan               *)
(* (table/table_scan.cpp), the DML and scan executors                      *)
(* (executors/{insert,delete,update,seqscan}_executor.cpp), the lock       *)
(* manager (module LockManager), the per-transaction log chain and         *)
(* LogManager::Rollback (log/log_manager.cpp).                             *)
(*                                                                         *)
(* Executors run one statement at a time (the Volcano model is             *)
(* single-threaded), so a statement of one transaction is never            *)
(* interleaved with a statement of another; statements of different        *)
(* transactions interleave freely.  A DELETE or UPDATE statement is one    *)
(* step per iteration of the executor's while loop, because the table      *)
(* scan below it sees the versions the statement itself appends.  Each row *)
(* carries a key and every DML statement is "... WHERE key = k"; row       *)
(* contents other than the key are abstracted away, and every record has   *)
(* the same size, so a page holds PageCap of them.                         *)
(***************************************************************************)
EXTENDS Integers, Sequences, FiniteSets

CONSTANTS
    MaxXid,       \* xids 1..MaxXid are handed out by Begin
    MaxPages,     \* bound: pages the table may grow to
    PageCap,      \* records that fit in one page
    MaxStmts,     \* bound: statements per transaction (cid 0..MaxStmts-1)
    Keys,         \* values of the key column
    IsoLevels,    \* isolation levels sessions use, a subset of {"RC", "RR"}
    TableOid      \* oid of the table

ASSUME MaxXid \in Nat /\ MaxPages \in Nat \ {0} /\ PageCap \in Nat \ {0}
ASSUME IsoLevels \subseteq {"RC", "RR"}

NULL_XID == 0
NULL_LSN == 0
NULL_PAGE_ID == -1
XidSet == 1..MaxXid
PageIds == 0..(MaxPages - 1)
RidSet == PageIds \X (0..(PageCap - 1))

VARIABLES
    pages,          \* page id p is pages[p+1]: the sequence of its slots' records
    log,            \* log records, the LSN of log[i] is i
    att,            \* LogManager att_: xid -> last LSN, for live xids
    resource_locks, \* LockManager resource_locks_
    status,         \* xid -> "unused" | "active" | "failed" | "committed" | "aborted"
    iso,            \* xid -> isolation level of its session
    snapshot,       \* xid -> set of xids, {} until GetSnapshot is first called
    has_snapshot,   \* xid -> whether GetSnapshot was called
    cid,            \* xid -> command id of its current statement
    next_xid,       \* TransactionManager next xid
    stmt            \* the DELETE/UPDATE statement being executed, or NoStmt

vars == <<pages, log, att, resource_locks, status, iso, snapshot, has_snapshot,
          cid, next_xid, stmt>>

LM == INSTANCE LockManager WITH
        Xids <- XidSet, Oids <- {TableOid}, Rids <- RidSet, TableRid <- <<0, 0>>,
        resource_locks <- resource_locks, last_call <- [op |-> "none"]

NoStmt == [kind |-> "none"]

\* The transaction manager's active set: begun and neither committed nor rolled back.
Active == {x \in XidSet : status[x] \in {"active", "failed"}}

-----------------------------------------------------------------------------
(***************************************************************************)
(* Record headers and the slotted page.                                    *)
(***************************************************************************)
Record == [xmin : XidSet, xmax : XidSet \cup {NULL_XID}, cid : Nat,
           deleted : BOOLEAN, key : Keys]

PageOf(p) == pages[p + 1]
RecAt(rid) == pages[rid[1] + 1][rid[2] + 1]
FirstPageId == IF pages = <<>> THEN NULL_PAGE_ID ELSE 0
\* The rids of all slots of the heap.
Rids == UNION {{<<p, s>> : s \in 0..(Len(PageOf(p)) - 1)} : p \in 0..(Len(pages) - 1)}
NextPageId(p) == IF p + 1 < Len(pages) THEN p + 1 ELSE NULL_PAGE_ID

\* Mutant: an off-by-one in the free-space test.
FitsInOffByOne(page) == Len(page) <= PageCap

\* TablePage::GetFreeSpaceSize() >= record->GetSize(), for a page's slots
FitsIn(page) == Len(page) < PageCap

\* TablePage::InsertRecord: stamp xmin and cid, append a slot.
PageInsertRecord(page, xid, c, key) ==
    Append(page, [xmin |-> xid, xmax |-> NULL_XID, cid |-> c,
                  deleted |-> FALSE, key |-> key])

\* TablePage::DeleteRecord: set the tombstone byte and xmax in place.
PageDeleteRecord(pgs, rid, xid) ==
    [pgs EXCEPT ![rid[1] + 1][rid[2] + 1].deleted = TRUE,
                ![rid[1] + 1][rid[2] + 1].xmax = xid]

\* TablePage::UndoDeleteRecord: clear the tombstone and reset xmax.
PageUndoDeleteRecord(pgs, rid) ==
    [pgs EXCEPT ![rid[1] + 1][rid[2] + 1].deleted = FALSE,
                ![rid[1] + 1][rid[2] + 1].xmax = NULL_XID]

-----------------------------------------------------------------------------
(***************************************************************************)
(* The log manager's append operations, restricted to what the undo chain *)
(* needs: the record is pushed with prev_lsn = att_[xid] and att_[xid]     *)
(* becomes its LSN.  An append for an xid missing from att_ throws; the    *)
(* executors never reach that, which the enabling conditions reflect.      *)
(***************************************************************************)
LogRec(type, xid, prev, rid) == [type |-> type, xid |-> xid, prev |-> prev, rid |-> rid]

AppendLog(lg, at, type, xid, rid) ==
    [log |-> Append(lg, LogRec(type, xid, at[xid], rid)),
     att |-> [at EXCEPT ![xid] = Len(lg) + 1]]

-----------------------------------------------------------------------------
(***************************************************************************)
(* Table::InsertRecord with write_log = true.  It walks the page list from *)
(* page 0, inserts into the first page with room, or appends page          *)
(* currentPageId + 1 after the last one (NewPage log, then Insert log).    *)
(* The rid it returns is {currentPageId, slotId}: on the new-page path     *)
(* currentPageId is still the page before the new one.                     *)
(***************************************************************************)
InsertTarget(pgs) ==
    IF pgs = <<>> THEN [page |-> 0, fresh |-> TRUE, prev |-> NULL_PAGE_ID, cur |-> 0]
    ELSE IF \E p \in 1..Len(pgs) : FitsIn(pgs[p])
    THEN LET p == CHOOSE q \in 0..(Len(pgs) - 1) :
                    /\ FitsIn(pgs[q + 1])
                    /\ \A q2 \in 0..(q - 1) : ~FitsIn(pgs[q2 + 1])
         IN  [page |-> p, fresh |-> FALSE, prev |-> NULL_PAGE_ID, cur |-> p]
    ELSE [page |-> Len(pgs), fresh |-> TRUE, prev |-> Len(pgs) - 1,
          cur |-> Len(pgs) - 1]

\* The insert fits within the MaxPages bound.
CanInsert(pgs) == \/ \E p \in 1..Len(pgs) : FitsIn(pgs[p])
                  \/ Len(pgs) < MaxPages

InsertRecord(pgs, lg, at, xid, c, key) ==
    LET t     == InsertTarget(pgs)
        slot  == IF t.fresh THEN 0 ELSE Len(pgs[t.page + 1])
        pgs1  == IF t.fresh THEN Append(pgs, <<>>) ELSE pgs
        pgs2  == [pgs1 EXCEPT ![t.page + 1] = PageInsertRecord(@, xid, c, key)]
        np    == IF t.fresh THEN AppendLog(lg, at, "newpage", xid, <<t.page, 0>>)
                 ELSE [log |-> lg, att |-> at]
        ins   == AppendLog(np.log, np.att, "insert", xid, <<t.page, slot>>)
    IN  [pages |-> pgs2, log |-> ins.log, att |-> ins.att, rid |-> <<t.cur, slot>>]

\* Table::DeleteRecord with write_log = true.
DeleteRecord(pgs, lg, at, rid, xid) ==
    LET d == AppendLog(lg, at, "delete", xid, rid)
    IN  [pages |-> PageDeleteRecord(pgs, rid, xid), log |-> d.log, att |-> d.att]

-----------------------------------------------------------------------------
(***************************************************************************)
(* IsVisible (table_scan.cpp), with REPEATABLE_READ standing for           *)
(* REPEATABLE_READ and SERIALIZABLE, which share one branch.               *)
(***************************************************************************)
\* Mutant: IsVisible without the (xmin, cid) Halloween test.
IsVisibleNoCid(iso_level, xid, c, active_xids, r) ==
    /\ iso_level = "RR" =>
          /\ ~(r.deleted /\ r.xmax \notin active_xids /\ r.xmax <= xid)
          /\ ~(r.xmin \in active_xids \/ r.xmin > xid)
    /\ iso_level = "RC" =>
          /\ ~(r.deleted /\ (r.xmax \notin active_xids \/ xid = r.xmax))
          /\ ~(r.xmin \in active_xids /\ r.xmin # xid)

IsVisible(iso_level, xid, c, active_xids, r) ==
    /\ iso_level = "RR" =>
          /\ ~(r.deleted /\ r.xmax \notin active_xids /\ r.xmax <= xid)
          /\ ~(r.xmin \in active_xids \/ r.xmin > xid)
    /\ iso_level = "RC" =>
          /\ ~(r.deleted /\ (r.xmax \notin active_xids \/ xid = r.xmax))
          /\ ~(r.xmin \in active_xids /\ r.xmin # xid)
    /\ ~(r.xmin = xid /\ r.cid = c)

\* SeqScanExecutor::Next: GetSnapshot for RR (taken on its first call), the
\* live active set for RC.
ActiveXidsFor(x) ==
    IF iso[x] = "RR"
    THEN IF has_snapshot[x] THEN snapshot[x] ELSE Active
    ELSE Active

(***************************************************************************)
(* TableScan::GetNextRecord under a Filter on the key: from the cursor,    *)
(* the next slot whose record is visible and has the key, following        *)
(* next_page_id at the end of a page.  Returns the rid found (or none) and *)
(* the new cursor.                                                         *)
(***************************************************************************)
\* Mutant: a returned row leaves the cursor on its own slot (rid_ not
\* advanced past it).
RECURSIVE ScanFromNoAdvance(_, _, _, _, _, _)
ScanFromNoAdvance(cur, key, iso_level, xid, c, active_xids) ==
    IF cur[1] = NULL_PAGE_ID
    THEN [found |-> FALSE, cursor |-> cur]
    ELSE IF cur[2] < Len(PageOf(cur[1]))
    THEN LET nxt == <<cur[1], cur[2] + 1>>
         IN  IF IsVisible(iso_level, xid, c, active_xids, RecAt(cur)) /\ RecAt(cur).key = key
             THEN [found |-> TRUE, rid |-> cur, cursor |-> cur]
             ELSE ScanFromNoAdvance(nxt, key, iso_level, xid, c, active_xids)
    ELSE IF NextPageId(cur[1]) # NULL_PAGE_ID
    THEN ScanFromNoAdvance(<<NextPageId(cur[1]), 0>>, key, iso_level, xid, c, active_xids)
    ELSE [found |-> FALSE, cursor |-> <<NULL_PAGE_ID, 0>>]

RECURSIVE ScanFrom(_, _, _, _, _, _)
ScanFrom(cur, key, iso_level, xid, c, active_xids) ==
    IF cur[1] = NULL_PAGE_ID
    THEN [found |-> FALSE, cursor |-> cur]
    ELSE IF cur[2] < Len(PageOf(cur[1]))
    THEN LET nxt == <<cur[1], cur[2] + 1>>
         IN  IF IsVisible(iso_level, xid, c, active_xids, RecAt(cur)) /\ RecAt(cur).key = key
             THEN [found |-> TRUE, rid |-> cur, cursor |-> nxt]
             ELSE ScanFrom(nxt, key, iso_level, xid, c, active_xids)
    ELSE IF NextPageId(cur[1]) # NULL_PAGE_ID
    THEN ScanFrom(<<NextPageId(cur[1]), 0>>, key, iso_level, xid, c, active_xids)
    ELSE [found |-> FALSE, cursor |-> <<NULL_PAGE_ID, 0>>]

-----------------------------------------------------------------------------
(***************************************************************************)
(* Undo of one log record (the LogRecord::Undo overrides, which are not in *)
(* this source tree): an Insert is undone by marking its slot deleted by   *)
(* the inserting xid, a Delete by TablePage::UndoDeleteRecord; Begin and   *)
(* NewPage leave the pages alone.                                          *)
(***************************************************************************)
UndoRecord(pgs, rec) ==
    CASE rec.type = "insert" -> PageDeleteRecord(pgs, rec.rid, rec.xid)
      [] rec.type = "delete" -> PageUndoDeleteRecord(pgs, rec.rid)
      [] OTHER               -> pgs

(***************************************************************************)
(* LogManager::Rollback: follow prev_lsn from att_[xid] down to NULL_LSN,  *)
(* undoing each record on the way.                                         *)
(***************************************************************************)
\* Mutant: the chain is undone oldest record first.
RECURSIVE RollbackOldestFirst(_, _)
RollbackOldestFirst(pgs, lsn) ==
    IF lsn = NULL_LSN THEN pgs
    ELSE UndoRecord(RollbackOldestFirst(pgs, log[lsn].prev), log[lsn])

RECURSIVE RollbackFrom(_, _)
RollbackFrom(pgs, lsn) ==
    IF lsn = NULL_LSN THEN pgs
    ELSE RollbackFrom(UndoRecord(pgs, log[lsn]), log[lsn].prev)

-----------------------------------------------------------------------------
(***************************************************************************)
(* Transactions.                                                           *)
(***************************************************************************)
Init ==
    /\ pages = <<>>
    /\ log = <<>>
    /\ att = [x \in XidSet |-> NULL_LSN]
    /\ resource_locks = [o \in {TableOid} |-> {}]
    /\ status = [x \in XidSet |-> "unused"]
    /\ iso = [x \in XidSet |-> "RC"]
    /\ snapshot = [x \in XidSet |-> {}]
    /\ has_snapshot = [x \in XidSet |-> FALSE]
    /\ cid = [x \in XidSet |-> 0]
    /\ next_xid = 1
    /\ stmt = NoStmt

Idle(x) == status[x] = "active" /\ stmt = NoStmt /\ cid[x] < MaxStmts

\* TransactionManager::Begin and LogManager::AppendBeginLog.
Begin(level) ==
    LET x == next_xid
    IN  /\ x \in XidSet
        /\ stmt = NoStmt
        /\ next_xid' = x + 1
        /\ status' = [status EXCEPT ![x] = "active"]
        /\ iso' = [iso EXCEPT ![x] = level]
        /\ log' = Append(log, LogRec("begin", x, NULL_LSN, <<0, 0>>))
        /\ att' = [att EXCEPT ![x] = Len(log) + 1]
        /\ UNCHANGED <<pages, resource_locks, snapshot, has_snapshot, cid, stmt>>

\* A statement that threw: its effects stay until the transaction rolls back.
Fail(x) ==
    /\ status' = [status EXCEPT ![x] = "failed"]
    /\ stmt' = NoStmt

\* The snapshot a scan step of x leaves behind.
TakeSnapshot(x) ==
    IF iso[x] = "RR" /\ ~has_snapshot[x]
    THEN /\ snapshot' = [snapshot EXCEPT ![x] = Active]
         /\ has_snapshot' = [has_snapshot EXCEPT ![x] = TRUE]
    ELSE UNCHANGED <<snapshot, has_snapshot>>

(***************************************************************************)
(* SELECT ... FROM t: every SeqScanExecutor::Next takes the snapshot (RR)  *)
(* and an IS lock on the table; the rows read change nothing.              *)
(***************************************************************************)
Select(x) ==
    /\ Idle(x)
    /\ TakeSnapshot(x)
    /\ IF LM!LockTableGranted(resource_locks, x, "IS", TableOid)
       THEN /\ resource_locks' = LM!LockTableResult(resource_locks, x, "IS", TableOid)
            /\ cid' = [cid EXCEPT ![x] = @ + 1]
            /\ UNCHANGED <<status, stmt>>
       ELSE Fail(x) /\ UNCHANGED <<resource_locks, cid>>
    /\ UNCHANGED <<pages, log, att, iso, next_xid>>

(***************************************************************************)
(* InsertExecutor::Next for INSERT ... VALUES (k): IX on the table,        *)
(* Table::InsertRecord, X on the rid it returned.                          *)
(***************************************************************************)
Insert(x, key) ==
    /\ Idle(x)
    /\ CanInsert(pages)
    /\ IF ~LM!LockTableGranted(resource_locks, x, "IX", TableOid)
       THEN Fail(x) /\ UNCHANGED <<pages, log, att, resource_locks, cid>>
       ELSE LET L1  == LM!LockTableResult(resource_locks, x, "IX", TableOid)
                ins == InsertRecord(pages, log, att, x, cid[x], key)
            IN  /\ pages' = ins.pages
                /\ log' = ins.log
                /\ att' = ins.att
                /\ IF LM!LockRowGranted(L1, x, "X", TableOid, ins.rid)
                   THEN /\ resource_locks' = LM!LockRowResult(L1, x, "X", TableOid, ins.rid)
                        /\ cid' = [cid EXCEPT ![x] = @ + 1]
                        /\ UNCHANGED <<status, stmt>>
                   ELSE Fail(x) /\ resource_locks' = L1 /\ UNCHANGED cid
    /\ UNCHANGED <<iso, snapshot, has_snapshot, next_xid>>

\* The rids a scan of x for key would return if started now.  No other
\* statement runs while one is under way, so a statement's scan sees the
\* same visibility throughout, apart from its own writes.
Matching(x, key) ==
    {rid \in Rids : /\ RecAt(rid).key = key
                    /\ IsVisible(iso[x], x, cid[x], ActiveXidsFor(x), RecAt(rid))}

\* DELETE/UPDATE ... WHERE key = k: SeqScanExecutor::Init puts the cursor on
\* the first page.  The fields matched (the rows matching at the start)
\* and log_start (the log's length then) are history, read only by
\* StmtRowsOnce.
StartStmt(x, kind, key) ==
    /\ Idle(x)
    /\ stmt' = [kind |-> kind, xid |-> x, key |-> key,
                cursor |-> <<FirstPageId, 0>>, rid |-> <<NULL_PAGE_ID, 0>>,
                matched |-> Matching(x, key), log_start |-> Len(log)]
    /\ UNCHANGED <<pages, log, att, resource_locks, status, iso, snapshot,
                   has_snapshot, cid, next_xid>>

\* The child returned no row: the executor returns its count, the
\* statement ends and the next one gets a new command id.
StmtDone(x, scan, L0) ==
    /\ ~scan.found
    /\ resource_locks' = L0
    /\ stmt' = NoStmt
    /\ cid' = [cid EXCEPT ![x] = @ + 1]
    /\ UNCHANGED <<pages, log, att, status>>

(***************************************************************************)
(* One iteration of DeleteExecutor::Next's loop: the scan returns the next *)
(* visible row (taking IS), then IX on the table, Table::DeleteRecord, and *)
(* only then X on the row.                                                 *)
(***************************************************************************)
DeleteRow(x, scan, L0) ==
    /\ scan.found
    /\ IF ~LM!LockTableGranted(L0, x, "IX", TableOid)
       THEN Fail(x) /\ resource_locks' = L0 /\ UNCHANGED <<pages, log, att>>
       ELSE LET L1 == LM!LockTableResult(L0, x, "IX", TableOid)
                d  == DeleteRecord(pages, log, att, scan.rid, x)
            IN  /\ pages' = d.pages
                /\ log' = d.log
                /\ att' = d.att
                /\ IF LM!LockRowGranted(L1, x, "X", TableOid, scan.rid)
                   THEN /\ resource_locks' = LM!LockRowResult(L1, x, "X", TableOid, scan.rid)
                        /\ stmt' = [stmt EXCEPT !.cursor = scan.cursor, !.rid = scan.rid]
                        /\ UNCHANGED status
                   ELSE Fail(x) /\ resource_locks' = L1
    /\ UNCHANGED cid

(***************************************************************************)
(* One iteration of UpdateExecutor::Next's loop: IX on the table,          *)
(* Table::UpdateRecord (DeleteRecord then InsertRecord of the new version, *)
(* same key), X on the rid InsertRecord returned, then X on the old rid.   *)
(***************************************************************************)
UpdateRow(x, scan, L0) ==
    /\ scan.found
    /\ CanInsert(pages)
    /\ IF ~LM!LockTableGranted(L0, x, "IX", TableOid)
       THEN Fail(x) /\ resource_locks' = L0 /\ UNCHANGED <<pages, log, att>>
       ELSE LET L1  == LM!LockTableResult(L0, x, "IX", TableOid)
                d   == DeleteRecord(pages, log, att, scan.rid, x)
                ins == InsertRecord(d.pages, d.log, d.att, x, cid[x], stmt.key)
                L2  == LM!LockRowResult(L1, x, "X", TableOid, ins.rid)
            IN  /\ pages' = ins.pages
                /\ log' = ins.log
                /\ att' = ins.att
                /\ IF ~LM!LockRowGranted(L1, x, "X", TableOid, ins.rid)
                   THEN Fail(x) /\ resource_locks' = L1
                   ELSE IF ~LM!LockRowGranted(L2, x, "X", TableOid, scan.rid)
                   THEN Fail(x) /\ resource_locks' = L2
                   ELSE /\ resource_locks' = LM!LockRowResult(L2, x, "X", TableOid, scan.rid)
                        /\ stmt' = [stmt EXCEPT !.cursor = scan.cursor, !.rid = scan.rid]
                        /\ UNCHANGED status
    /\ UNCHANGED cid

\* A step of the running DELETE or UPDATE statement of x.
StmtStep(x) ==
    /\ stmt # NoStmt
    /\ stmt.xid = x
    /\ TakeSnapshot(x)
    /\ LET scan == ScanFrom(stmt.cursor, stmt.key, iso[x], x, cid[x], ActiveXidsFor(x))
       IN  IF ~LM!LockTableGranted(resource_locks, x, "IS", TableOid)
           THEN Fail(x) /\ UNCHANGED <<pages, log, att, resource_locks, cid>>
           ELSE LET L0 == LM!LockTableResult(resource_locks, x, "IS", TableOid)
                IN  \/ StmtDone(x, scan, L0)
                    \/ stmt.kind = "delete" /\ DeleteRow(x, scan, L0)
                    \/ stmt.kind = "update" /\ UpdateRow(x, scan, L0)
    /\ UNCHANGED <<iso, next_xid>>

\* The session state of an ended transaction is never read again; it is
\* reset so that behaviours differing only in it are one state.
Forget(x) ==
    /\ iso' = [iso EXCEPT ![x] = "RC"]
    /\ snapshot' = [snapshot EXCEPT ![x] = {}]
    /\ has_snapshot' = [has_snapshot EXCEPT ![x] = FALSE]
    /\ cid' = [cid EXCEPT ![x] = 0]

(***************************************************************************)
(* COMMIT: the Commit log record, the xid leaves att_ and the active set,  *)
(* its locks are released.                                                 *)
(***************************************************************************)
Commit(x) ==
    /\ status[x] = "active"
    /\ stmt = NoStmt
    /\ log' = Append(log, LogRec("commit", x, att[x], <<0, 0>>))
    /\ att' = [att EXCEPT ![x] = NULL_LSN]
    /\ status' = [status EXCEPT ![x] = "committed"]
    /\ resource_locks' = LM!ReleaseLocksResult(resource_locks, x)
    /\ Forget(x)
    /\ UNCHANGED <<pages, next_xid, stmt>>

(***************************************************************************)
(* ROLLBACK (explicit, or after a failed statement): LogManager::Rollback  *)
(* undoes the chain, then the Rollback log record, and the xid leaves      *)
(* att_ and the active set and releases its locks.                         *)
(***************************************************************************)
Abort(x) ==
    /\ status[x] \in {"active", "failed"}
    /\ stmt = NoStmt
    /\ pages' = RollbackFrom(pages, att[x])
    /\ log' = Append(log, LogRec("rollback", x, att[x], <<0, 0>>))
    /\ att' = [att EXCEPT ![x] = NULL_LSN]
    /\ status' = [status EXCEPT ![x] = "aborted"]
    /\ resource_locks' = LM!ReleaseLocksResult(resource_locks, x)
    /\ Forget(x)
    /\ UNCHANGED <<next_xid, stmt>>

(***************************************************************************)
(* Where the bounds stop a behaviour: every xid has been handed out and    *)
(* has ended, or an UPDATE needs a page beyond MaxPages.                   *)
(***************************************************************************)
BoundReached ==
    \/ next_xid > MaxXid /\ Active = {}
    \/ stmt # NoStmt /\ stmt.kind = "update" /\ ~CanInsert(pages)

Finished == BoundReached /\ UNCHANGED vars

Next ==
    \/ Finished
    \/ \E level \in IsoLevels : Begin(level)
    \/ \E x \in XidSet :
         \/ Select(x)
         \/ \E k \in Keys : Insert(x, k)
         \/ \E k \in Keys, kind \in {"delete", "update"} : StartStmt(x, kind, k)
         \/ StmtStep(x)
         \/ Commit(x)
         \/ Abort(x)

Spec == Init /\ [][Next]_vars

-----------------------------------------------------------------------------
(***************************************************************************)
(* Properties.                                                             *)
(***************************************************************************)
LogRecord ==
    [type : {"begin", "insert", "delete", "newpage", "commit", "rollback"},
     xid : XidSet, prev : Nat, rid : RidSet]

TypeOK ==
    /\ pages \in Seq(Seq(Record))
    /\ Len(pages) <= MaxPages /\ \A p \in 1..Len(pages) : Len(pages[p]) <= PageCap
    /\ log \in Seq(LogRecord)
    /\ att \in [XidSet -> Nat]
    /\ status \in [XidSet -> {"unused", "active", "failed", "committed", "aborted"}]
    /\ iso \in [XidSet -> IsoLevels \cup {"RC"}]
    /\ snapshot \in [XidSet -> SUBSET XidSet]
    /\ has_snapshot \in [XidSet -> BOOLEAN]
    /\ cid \in [XidSet -> 0..MaxStmts]
    /\ next_xid \in 1..(MaxXid + 1)
    /\ stmt = NoStmt \/ stmt.kind \in {"delete", "update"}

(***************************************************************************)
(* AbortedInvisible: once a transaction has rolled back, no version it     *)
(* inserted is visible to any live transaction (under its own isolation    *)
(* level and snapshot) nor to a transaction beginning now.  It depends on  *)
(* LogManager::Rollback walking the whole prev_lsn chain, newest first, so *)
(* that a version the transaction inserted and later deleted itself (an   *)
(* UPDATE of its own row) ends up deleted again.                           *)
(***************************************************************************)
AbortedInvisible ==
    \A rid \in Rids : status[RecAt(rid).xmin] = "aborted" =>
        /\ \A y \in Active : ~IsVisible(iso[y], y, cid[y], ActiveXidsFor(y), RecAt(rid))
        /\ ~IsVisible("RC", next_xid, 0, Active, RecAt(rid))

(***************************************************************************)
(* StmtRowsOnce: a running DELETE or UPDATE has deleted exactly the rows   *)
(* that matched its WHERE clause when it started and that its scan cursor  *)
(* has passed, each of them once.  UPDATE appends new versions ahead of    *)
(* the cursor and the table scan advances rid_ before each visibility      *)
(* test; a version the statement wrote reaching the cursor, a row read     *)
(* twice, or a matching row skipped all break it.                          *)
(***************************************************************************)
Passed(rid, cur) ==
    \/ cur[1] = NULL_PAGE_ID
    \/ rid[1] < cur[1]
    \/ rid[1] = cur[1] /\ rid[2] < cur[2]

StmtRowsOnce ==
    stmt # NoStmt =>
        LET Dels == {i \in (stmt.log_start + 1)..Len(log) : log[i].type = "delete"}
        IN  /\ \A i \in Dels : log[i].rid \in stmt.matched
            /\ \A i, j \in Dels : log[i].rid = log[j].rid => i = j
            /\ \A rid \in stmt.matched :
                  Passed(rid, stmt.cursor) => \E i \in Dels : log[i].rid = rid

(***************************************************************************)
(* CommittedDeletesStay: a row whose Delete log record belongs to a        *)
(* committed transaction stays deleted.  The DML executors write the       *)
(* tombstone and xmax before asking for the row's X lock, and undo of a    *)
(* Delete clears both unconditionally.                                     *)
(***************************************************************************)
CommittedDeletesStay ==
    \A i \in 1..Len(log) :
        (log[i].type = "delete" /\ status[log[i].xid] = "committed")
            => RecAt(log[i].rid).deleted

(***************************************************************************)
(* WritesLocked: while a transaction is live and no statement of it has    *)
(* failed, it holds the X lock on every row its Insert and Delete log      *)
(* records name, as the executors intend (X on each inserted, deleted and  *)
(* updated rid).                                                           *)
(***************************************************************************)
WritesLocked ==
    \A i \in 1..Len(log) :
        (log[i].type \in {"insert", "delete"} /\ status[log[i].xid] = "active")
            => \E e \in resource_locks[TableOid] :
                  /\ e.xid_t_ = log[i].xid /\ e.lock_granularity_ = "ROW"
                  /\ e.rid_ = log[i].rid /\ e.lock_type_ = "X"
=============================================================================
