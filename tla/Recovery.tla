------------------------------ MODULE Recovery ------------------------------
(***************************************************************************)
(* Write-ahead logging and ARIES-style restart of one table heap           *)
(* (log/log_manager.cpp, table/table.cpp, table/table_page.cpp).           *)
(*                                                                         *)
(* The log is one sequence: a record's LSN is its index, the records up to *)
(* flushed_lsn are in the log file and the rest are log_buffer_ (Flush     *)
(* writes every buffered record up to an LSN, so the buffer only ever      *)
(* holds records after flushed_lsn_).  A crash keeps the log file, the     *)
(* data file and the master record and loses the buffer pool, log_buffer_, *)
(* att_, dpt_ and the transaction manager.  Restart runs Analyze, Redo and *)
(* Undo (LogManager::Recover), and may crash again between them.           *)
(*                                                                         *)
(* A page holds its slots (a row is its xmin and deleted byte), its        *)
(* next_page_id and its page_lsn.  mem holds the frames that differ from  *)
(* the data file (the dirty ones); a page is read from mem if it is there  *)
(* and from disk otherwise.  att_ and dpt_ are total functions with 0 for  *)
(* "no entry", and mem and disk map a page they lack to NoPage.  The table *)
(* exists with page 0 on disk, so the first-page path of                   *)
(* Table::InsertRecord is not taken.                                       *)
(***************************************************************************)
EXTENDS Integers, Sequences, FiniteSets, TLC

CONSTANTS
    MaxXid,      \* bound: xids the transaction manager hands out
    MaxPages,    \* bound: pages of the table
    PageCap,     \* rows that fit in a page
    MaxLog,      \* bound: length of the log
    MaxCrashes   \* bound: crashes

NULL_PAGE_ID == -1
NULL_LSN == 0
NULL_XID == 0
PageIds == 0..(MaxPages - 1)
Xids == 1..MaxXid
Slots == 0..(PageCap - 1)
Rids == PageIds \X Slots
ModTypes == {"INSERT", "DELETE", "NEW_PAGE"}
LogTypes == ModTypes \cup {"BEGIN", "COMMIT", "ROLLBACK", "BEGIN_CHECKPOINT", "END_CHECKPOINT"}
Phases == {"up", "down", "analyzed", "redone"}
NoAtt == [x \in Xids |-> 0]
NoDpt == [p \in PageIds |-> 0]
NoPage == [recs |-> <<>>, next |-> -2, lsn |-> 0]
NoPages == [p \in PageIds |-> NoPage]

VARIABLES
    log,          \* log file (1..flushed_lsn) followed by log_buffer_
    flushed_lsn,  \* flushed_lsn_
    master,       \* master record: LSN of the last BeginCheckpoint, 0 if none
    att,          \* att_: xid -> LSN of its last record, 0 if absent
    dpt,          \* dpt_: page -> recLSN, 0 if absent
    mem,          \* buffer pool frames that differ from the data file
    disk,         \* data file: page -> page image
    status,       \* transaction manager: xid -> "idle" | "active" | "done"
    next_xid,     \* transaction manager: the xid Begin hands out next
    phase,        \* "up", or where restart is: "down", "analyzed", "redone"
    crashes,      \* crashes so far
    tid_of,       \* ghost: xid -> the number of the Begin that handed it out
    ntid          \* ghost: Begins so far

vars == <<log, flushed_lsn, master, att, dpt, mem, disk, status, next_xid,
          phase, crashes, tid_of, ntid>>

SetMax(S) == CHOOSE m \in S : \A n \in S : n <= m
SetMin(S) == CHOOSE m \in S : \A n \in S : m <= n

\* The heap as the code sees it: the frame if the page is resident, else disk.
View == [p \in PageIds |-> IF mem[p] # NoPage THEN mem[p] ELSE disk[p]]

\* The frames after a step that changed the heap to v: a page that differs
\* from its disk image is dirty and resident.
MemFrom(v) == [p \in PageIds |-> IF mem[p] # NoPage \/ v[p] # disk[p] THEN v[p] ELSE NoPage]

LogRec(type, x, t, prev, pg, slot, prev_pg) ==
    [type |-> type, xid |-> x, tid |-> t, prev |-> prev, page |-> pg, slot |-> slot,
     prev_page |-> prev_pg, att |-> NoAtt, dpt |-> NoDpt]

\* TablePage::Init (table_page.cpp 25-31).
InitPage == [recs |-> <<>>, next |-> NULL_PAGE_ID, lsn |-> 0]

\* TablePage::GetFreeSpaceSize >= record size: room for one more row.
\* Mutant: the free-space test admits one record too many.
FitsOffByOne(pg) == Len(pg.recs) <= PageCap

Fits(pg) == Len(pg.recs) < PageCap

\* TablePage::InsertRecord (33-62): xmin := xid, a slot is appended.
PageInsert(pg, x) == [pg EXCEPT !.recs = Append(@, [xmin |-> x, deleted |-> FALSE])]

\* TablePage::DeleteRecord (64-80) and UndoDeleteRecord (100-114): the
\* deleted byte of slot_id (0-based) is set or cleared.
SetDeleted(pg, slot, d) == [pg EXCEPT !.recs[slot + 1].deleted = d]

\* TablePage::RedoInsertRecord (116-134): the logged row image is written
\* at slot_id.
RedoInsert(pg, slot, x) ==
    LET row == [xmin |-> x, deleted |-> FALSE]
    IN  IF slot < Len(pg.recs) THEN [pg EXCEPT !.recs[slot + 1] = row]
        ELSE [pg EXCEPT !.recs = Append(@, row)]

\* The DPT part of Append*Log and Analyze: the recLSN is set only if absent.
AddDirty(d, p, lsn) == [d EXCEPT ![p] = IF @ = 0 THEN lsn ELSE @]

\* LogManager::Flush(lsn) (246-283): every buffered record with LSN <= lsn,
\* or all of them for NULL_LSN, goes to the file; flushed_lsn_ is the max.
FlushTo(lsn) ==
    IF lsn = NULL_LSN THEN Len(log) ELSE IF lsn > flushed_lsn THEN lsn ELSE flushed_lsn

Active(x) == status[x] = "active"
Room(k) == Len(log) + k <= MaxLog

-----------------------------------------------------------------------------
Init ==
    /\ log = <<>>
    /\ flushed_lsn = 0
    /\ master = 0
    /\ att = NoAtt
    /\ dpt = NoDpt
    /\ mem = NoPages
    /\ disk = [NoPages EXCEPT ![0] = InitPage]
    /\ status = [x \in Xids |-> "idle"]
    /\ next_xid = 1
    /\ phase = "up"
    /\ crashes = 0
    /\ tid_of = [x \in Xids |-> 0]
    /\ ntid = 0

\* TransactionManager::Begin hands out next_xid, then AppendBeginLog
\* (log_manager.cpp 98-111) starts its att_ entry.
Begin ==
    /\ phase = "up" /\ next_xid \in Xids /\ Room(1)
    /\ att[next_xid] = 0
    /\ LET x == next_xid IN
       /\ log' = Append(log, LogRec("BEGIN", x, ntid + 1, NULL_LSN, NULL_PAGE_ID, 0, NULL_PAGE_ID))
       /\ att' = [att EXCEPT ![x] = Len(log) + 1]
       /\ status' = [status EXCEPT ![x] = "active"]
       /\ tid_of' = [tid_of EXCEPT ![x] = ntid + 1]
    /\ next_xid' = next_xid + 1
    /\ ntid' = ntid + 1
    /\ UNCHANGED <<flushed_lsn, master, dpt, mem, disk, phase, crashes>>

\* AppendBeginLog throws when the xid is still in att_ (99-101).
BeginRejected ==
    /\ phase = "up" /\ next_xid \in Xids
    /\ att[next_xid] # 0
    /\ next_xid' = next_xid + 1
    /\ UNCHANGED <<log, flushed_lsn, master, att, dpt, mem, disk, status, phase, crashes, tid_of, ntid>>

(***************************************************************************)
(* Table::InsertRecord's walk (table.cpp 61-99): from page 0, the first    *)
(* page with room, or the last page when none has room.  A next_page_id    *)
(* that names a page neither in the pool nor on disk ends the walk at      *)
(* MissingPage (GetPage has nothing to read).                              *)
(***************************************************************************)
MissingPage == -2
RECURSIVE WalkFrom(_, _)
WalkFrom(p, v) ==
    IF p \notin PageIds \/ v[p] = NoPage THEN MissingPage
    ELSE IF Fits(v[p]) \/ v[p].next = NULL_PAGE_ID THEN p
    ELSE WalkFrom(v[p].next, v)

\* Lines 68-78: the row goes into page p; InsertLog, then SetPageLSN.
InsertFit(x, p) ==
    LET lsn == Len(log) + 1 IN
    /\ Room(1)
    /\ log' = Append(log, LogRec("INSERT", x, tid_of[x], att[x], p, Len(View[p].recs), NULL_PAGE_ID))
    /\ att' = [att EXCEPT ![x] = lsn]
    /\ dpt' = AddDirty(dpt, p, lsn)
    /\ mem' = [mem EXCEPT ![p] = [PageInsert(View[p], x) EXCEPT !.lsn = lsn]]

\* Lines 81-96: NewPage(p + 1) and Init, p's next_page_id := p + 1 (p's
\* page_lsn stays), the row goes into the new page; NewPageLog, InsertLog,
\* and only the new page's LSN is set.
InsertNewPage(x, p) ==
    LET l1 == Len(log) + 1
        l2 == Len(log) + 2
    IN  /\ Room(2) /\ p + 1 \in PageIds
        /\ log' = log \o <<LogRec("NEW_PAGE", x, tid_of[x], att[x], p + 1, 0, p),
                           LogRec("INSERT", x, tid_of[x], l1, p + 1, 0, NULL_PAGE_ID)>>
        /\ att' = [att EXCEPT ![x] = l2]
        /\ dpt' = AddDirty(AddDirty(dpt, p + 1, l1), p, l1)
        /\ mem' = [mem EXCEPT ![p] = [View[p] EXCEPT !.next = p + 1],
                              ![p + 1] = [PageInsert(InitPage, x) EXCEPT !.lsn = l2]]

\* InsertExecutor::Next of one row by an active transaction.
Insert(x) ==
    /\ phase = "up" /\ Active(x)
    /\ LET p == WalkFrom(0, View) IN
       /\ p # MissingPage
       /\ IF Fits(View[p]) THEN InsertFit(x, p) ELSE InsertNewPage(x, p)
    /\ UNCHANGED <<flushed_lsn, master, disk, status, next_xid, phase, crashes, tid_of, ntid>>

(***************************************************************************)
(* Table::DeleteRecord (table.cpp 103-118): tombstone, DeleteLog,          *)
(* SetPageLSN.  The executor holds the row's X lock, so the row is not     *)
(* deleted and its inserter is this transaction or no longer active.       *)
(***************************************************************************)
Delete(x, rid) ==
    LET p == rid[1]
        s == rid[2]
        lsn == Len(log) + 1
    IN  /\ phase = "up" /\ Active(x) /\ Room(1)
        /\ View[p] # NoPage /\ s < Len(View[p].recs)
        /\ ~View[p].recs[s + 1].deleted
        /\ LET w == View[p].recs[s + 1].xmin IN w = x \/ ~Active(w)
        /\ log' = Append(log, LogRec("DELETE", x, tid_of[x], att[x], p, s, NULL_PAGE_ID))
        /\ att' = [att EXCEPT ![x] = lsn]
        /\ dpt' = AddDirty(dpt, p, lsn)
        /\ mem' = [mem EXCEPT ![p] = [SetDeleted(View[p], s, TRUE) EXCEPT !.lsn = lsn]]
        /\ UNCHANGED <<flushed_lsn, master, disk, status, next_xid, phase, crashes, tid_of, ntid>>

\* AppendCommitLog (log_manager.cpp 113-127): CommitLog, Flush(lsn), erase
\* the xid from att_.
Commit(x) ==
    /\ phase = "up" /\ Active(x) /\ Room(1)
    /\ log' = Append(log, LogRec("COMMIT", x, tid_of[x], att[x], NULL_PAGE_ID, 0, NULL_PAGE_ID))
    /\ flushed_lsn' = Len(log) + 1
    /\ att' = [att EXCEPT ![x] = 0]
    /\ status' = [status EXCEPT ![x] = "done"]
    /\ UNCHANGED <<master, dpt, mem, disk, next_xid, phase, crashes, tid_of, ntid>>

(***************************************************************************)
(* A record's Undo on the heap: an insert is undone by DeleteRecord, a     *)
(* delete by UndoDeleteRecord; NewPage, Begin and the others change no     *)
(* page.  Undo sets no page LSN and no DPT entry.                          *)
(***************************************************************************)
UndoRec(r, v) ==
    IF r.type \notin {"INSERT", "DELETE"} THEN v
    ELSE [v EXCEPT ![r.page] = IF @ = NoPage \/ r.slot >= Len(@.recs) THEN @
                               ELSE SetDeleted(@, r.slot, r.type = "INSERT")]

\* LogManager::Rollback (172-234): from att_[xid] along prev_lsn to NULL_LSN,
\* undoing each record; it is read from log_buffer_ when lsn > flushed_lsn_
\* and from the log file otherwise, the two halves of log.
RECURSIVE RollbackChain(_, _)
RollbackChain(lsn, v) ==
    IF lsn = NULL_LSN THEN v ELSE RollbackChain(log[lsn].prev, UndoRec(log[lsn], v))

\* The transaction rolls back: Rollback(xid), then AppendRollbackLog
\* (129-143): RollbackLog, Flush(lsn), erase the xid from att_.
Abort(x) ==
    /\ phase = "up" /\ Active(x) /\ Room(1)
    /\ mem' = MemFrom(RollbackChain(att[x], View))
    /\ log' = Append(log, LogRec("ROLLBACK", x, tid_of[x], att[x], NULL_PAGE_ID, 0, NULL_PAGE_ID))
    /\ flushed_lsn' = Len(log) + 1
    /\ att' = [att EXCEPT ![x] = 0]
    /\ status' = [status EXCEPT ![x] = "done"]
    /\ UNCHANGED <<master, dpt, disk, next_xid, phase, crashes, tid_of, ntid>>

\* The buffer pool writes a dirty frame back (eviction or flush), calling
\* FlushPage(oid, page_id, page_lsn) first (167-170): Flush(page_lsn), then
\* the page leaves dpt_.
WriteBack(p) ==
    /\ phase # "down" /\ mem[p] # NoPage
    /\ flushed_lsn' = FlushTo(mem[p].lsn)
    /\ disk' = [disk EXCEPT ![p] = mem[p]]
    /\ dpt' = [dpt EXCEPT ![p] = 0]
    /\ mem' = [mem EXCEPT ![p] = NoPage]
    /\ UNCHANGED <<log, master, att, status, next_xid, phase, crashes, tid_of, ntid>>

\* LogManager::Checkpoint (145-165): BeginCheckpoint, EndCheckpoint with
\* att_ and dpt_, Flush(end), master record := begin LSN.
Checkpoint ==
    /\ phase = "up" /\ Room(2)
    /\ log' = log \o <<LogRec("BEGIN_CHECKPOINT", NULL_XID, 0, NULL_LSN, NULL_PAGE_ID, 0, NULL_PAGE_ID),
                       [LogRec("END_CHECKPOINT", NULL_XID, 0, NULL_LSN, NULL_PAGE_ID, 0, NULL_PAGE_ID)
                            EXCEPT !.att = att, !.dpt = dpt]>>
    /\ flushed_lsn' = Len(log) + 2
    /\ master' = Len(log) + 1
    /\ UNCHANGED <<att, dpt, mem, disk, status, next_xid, phase, crashes, tid_of, ntid>>

\* The process dies: what is not in the log file, the data file or the
\* master record is gone; the transaction manager starts again from xid 1.
Crash ==
    /\ phase # "down" /\ crashes < MaxCrashes
    /\ log' = SubSeq(log, 1, flushed_lsn)
    /\ att' = NoAtt
    /\ dpt' = NoDpt
    /\ mem' = NoPages
    /\ status' = [x \in Xids |-> IF Active(x) THEN "done" ELSE status[x]]
    /\ next_xid' = 1
    /\ phase' = "down"
    /\ crashes' = crashes + 1
    /\ UNCHANGED <<flushed_lsn, master, disk, tid_of, ntid>>
-----------------------------------------------------------------------------
(***************************************************************************)
(* LogManager::Analyze (285-394).  The scan starts at the master record's  *)
(* LSN (the log's start when there is none).  Pass 1 takes att_ and dpt_   *)
(* from the first EndCheckpoint.  Pass 2: a modification record sets       *)
(* att_[xid] and adds its page (ExtractRecordCoordinates, 482-518) to dpt_ *)
(* if absent; a Commit erases the xid; a Rollback or Begin changes         *)
(* nothing; every record raises the next xid to its xid when that is      *)
(* greater.  Each accumulator is used once per record, so the fold costs   *)
(* one pass also where TLC evaluates it without caching (ENABLED).         *)
(***************************************************************************)
CheckpointStart == IF master = 0 THEN 1 ELSE master

RECURSIVE FindEndCheckpoint(_)
FindEndCheckpoint(i) ==
    IF i > Len(log) THEN 0
    ELSE IF log[i].type = "END_CHECKPOINT" THEN i ELSE FindEndCheckpoint(i + 1)

\* Mutant: a Commit record does not erase the xid from att_.
AttStepNoCommit(r, i, a) == IF r.type \in ModTypes THEN [a EXCEPT ![r.xid] = i] ELSE a

AttStep(r, i, a) ==
    IF r.type \in ModTypes THEN [a EXCEPT ![r.xid] = i]
    ELSE IF r.type = "COMMIT" THEN [a EXCEPT ![r.xid] = 0]
    ELSE a

DptStep(r, i, d) == IF r.type \in ModTypes THEN AddDirty(d, r.page, i) ELSE d

RECURSIVE AnalyzeFrom(_, _, _)
AnalyzeFrom(i, a, d) ==
    IF i > Len(log) THEN [att |-> a, dpt |-> d]
    ELSE AnalyzeFrom(i + 1, AttStep(log[i], i, a), DptStep(log[i], i, d))

Analyze ==
    /\ phase = "down"
    /\ LET e  == FindEndCheckpoint(CheckpointStart)
           st == AnalyzeFrom(CheckpointStart, IF e = 0 THEN att ELSE log[e].att,
                                              IF e = 0 THEN dpt ELSE log[e].dpt)
       IN  /\ att' = st.att
           /\ dpt' = st.dpt
    /\ next_xid' = SetMax({next_xid} \cup {log[i].xid : i \in CheckpointStart..Len(log)})
    /\ flushed_lsn' = Len(log)
    /\ phase' = "analyzed"
    /\ UNCHANGED <<log, master, mem, disk, status, crashes, tid_of, ntid>>

(***************************************************************************)
(* LogManager::Redo (396-461): from the smallest of the checkpoint LSN and *)
(* the recLSNs, a modification record whose page is in dpt_ with           *)
(* lsn >= recLSN is redone: NewPage always (the page is created and        *)
(* initialised and the previous page linked to it), Insert and Delete only *)
(* when lsn > the page's page_lsn, and then the page LSN becomes lsn.      *)
(***************************************************************************)
RedoRec(i, v) ==
    LET r == log[i] IN
    IF r.type \notin ModTypes \/ dpt[r.page] = 0 \/ i < dpt[r.page] THEN v
    ELSE IF r.type = "NEW_PAGE"
         THEN [v EXCEPT ![r.page] = InitPage,
                        ![r.prev_page] = IF @ = NoPage THEN @ ELSE [@ EXCEPT !.next = r.page]]
    ELSE [v EXCEPT ![r.page] =
            IF @ = NoPage \/ i <= @.lsn THEN @
            ELSE IF r.type = "INSERT" THEN [RedoInsert(@, r.slot, r.xid) EXCEPT !.lsn = i]
            ELSE IF r.slot < Len(@.recs) THEN [SetDeleted(@, r.slot, TRUE) EXCEPT !.lsn = i]
            ELSE @]

RECURSIVE RedoFrom(_, _)
RedoFrom(i, v) == IF i > Len(log) THEN v ELSE RedoFrom(i + 1, RedoRec(i, v))

Redo ==
    /\ phase = "analyzed"
    /\ LET start == SetMin({CheckpointStart} \cup {dpt[p] : p \in {q \in PageIds : dpt[q] # 0}})
       IN  mem' = MemFrom(RedoFrom(start, View))
    /\ phase' = "redone"
    /\ UNCHANGED <<log, flushed_lsn, master, att, dpt, disk, status, next_xid, crashes, tid_of, ntid>>

(***************************************************************************)
(* LogManager::Undo (463-480): Rollback(xid) for every xid in att_, in the *)
(* table's iteration order (any order here).  No Rollback record is        *)
(* written and att_ keeps its entries.                                     *)
(***************************************************************************)
Orders(S) == {f \in [1..Cardinality(S) -> S] : \A y \in S : \E i \in DOMAIN f : f[i] = y}

RECURSIVE UndoAll(_, _, _)
UndoAll(ord, k, v) ==
    IF k > Len(ord) THEN v ELSE UndoAll(ord, k + 1, RollbackChain(att[ord[k]], v))

Undo ==
    /\ phase = "redone"
    /\ \E ord \in Orders({x \in Xids : att[x] # 0}) : mem' = MemFrom(UndoAll(ord, 1, View))
    /\ phase' = "up"
    /\ UNCHANGED <<log, flushed_lsn, master, att, dpt, disk, status, next_xid, crashes, tid_of, ntid>>

\* Every xid is handed out or the log is full: the behaviour stops here.
Finished ==
    /\ phase = "up"
    /\ next_xid > MaxXid \/ ~Room(2)
    /\ UNCHANGED vars

Next ==
    \/ Begin \/ BeginRejected
    \/ \E x \in Xids : Insert(x) \/ Commit(x) \/ Abort(x)
    \/ \E x \in Xids, rid \in Rids : Delete(x, rid)
    \/ \E p \in PageIds : WriteBack(p)
    \/ Checkpoint \/ Crash
    \/ Analyze \/ Redo \/ Undo
    \/ Finished

Spec == Init /\ [][Next]_vars
-----------------------------------------------------------------------------
(***************************************************************************)
(* Properties.  Committed, WroteAt and Live compare the heap with the   *)
(* log: a transaction (a Begin, told apart by the ghost tid even when an   *)
(* xid is handed out again) committed when its Commit record is in the     *)
(* log, and a row should be live when a committed transaction inserted it  *)
(* and no committed transaction deleted it.                                *)
(***************************************************************************)
PageOK(pg) ==
    /\ DOMAIN pg = {"recs", "next", "lsn"}
    /\ Len(pg.recs) <= PageCap /\ \A k \in 1..Len(pg.recs) : pg.recs[k].xmin \in Xids
    /\ pg.next \in PageIds \cup {NULL_PAGE_ID} /\ pg.lsn \in 0..MaxLog

TypeOK ==
    /\ Len(log) <= MaxLog /\ \A i \in 1..Len(log) : log[i].type \in LogTypes /\ log[i].prev < i
    /\ flushed_lsn \in 0..Len(log)
    /\ master \in 0..Len(log)
    /\ att \in [Xids -> 0..Len(log)]
    /\ dpt \in [PageIds -> 0..Len(log)]
    /\ \A p \in PageIds : mem[p] = NoPage \/ PageOK(mem[p])
    /\ \A p \in PageIds : disk[p] = NoPage \/ PageOK(disk[p])
    /\ status \in [Xids -> {"idle", "active", "done"}]
    /\ next_xid \in 1..(MaxXid + 1)
    /\ phase \in Phases
    /\ phase = "down" => mem = NoPages

Committed(t) == \E i \in 1..Len(log) : log[i].type = "COMMIT" /\ log[i].tid = t
WroteAt(i, type, rid) == log[i].type = type /\ <<log[i].page, log[i].slot>> = rid
Live(rid) ==
    /\ View[rid[1]] # NoPage
    /\ rid[2] < Len(View[rid[1]].recs)
    /\ ~View[rid[1]].recs[rid[2] + 1].deleted
Quiescent == phase = "up" /\ \A x \in Xids : ~Active(x)

(***************************************************************************)
(* CommittedInsertsDurable: once the system is up and no transaction is    *)
(* running, every row a committed transaction inserted and nobody tried to *)
(* delete is live, through any crashes (Commit's Flush, Analyze erasing    *)
(* committed xids, Redo's page-LSN test and NewPage redo).                 *)
(***************************************************************************)
CommittedInsertsDurable ==
    Quiescent => \A rid \in Rids :
        /\ \E i \in 1..Len(log) : WroteAt(i, "INSERT", rid) /\ Committed(log[i].tid)
        /\ ~\E i \in 1..Len(log) : WroteAt(i, "DELETE", rid)
        => Live(rid)

(***************************************************************************)
(* UncommittedInsertsUndone: once the system is up and no transaction is   *)
(* running, no row inserted by a transaction without a Commit record is    *)
(* live: rollback, or Analyze + Redo + Undo after a crash, removed it.     *)
(***************************************************************************)
UncommittedInsertsUndone ==
    Quiescent => \A i \in 1..Len(log) :
        (log[i].type = "INSERT" /\ ~Committed(log[i].tid)) => ~Live(<<log[i].page, log[i].slot>>)

(***************************************************************************)
(* CommittedDeletesStay: once the system is up and no transaction is       *)
(* running, no row a committed transaction deleted is live.                *)
(***************************************************************************)
CommittedDeletesStay ==
    Quiescent => \A i \in 1..Len(log) :
        (log[i].type = "DELETE" /\ Committed(log[i].tid)) => ~Live(<<log[i].page, log[i].slot>>)

(***************************************************************************)
(* HeapLinked: while the system is up, every next_page_id names a page     *)
(* that is in the buffer pool or the data file.                            *)
(***************************************************************************)
HeapLinked ==
    phase = "up" => \A p \in PageIds :
        View[p] # NoPage /\ View[p].next # NULL_PAGE_ID => View[View[p].next] # NoPage

(***************************************************************************)
(* XidsUnique: the transaction manager hands out increasing xids, so two   *)
(* transactions never write log records under the same xid.                *)
(***************************************************************************)
XidsUnique ==
    \A i, j \in 1..Len(log) : log[i].xid # NULL_XID /\ log[i].xid = log[j].xid => log[i].tid = log[j].tid
=============================================================================
