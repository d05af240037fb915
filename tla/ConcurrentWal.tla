----------------------------- MODULE ConcurrentWal -----------------------------
(***************************************************************************)
(* Transactions of different sessions appending to the write-ahead log at *)
(* the same time (log/log_manager.cpp), over a buffer pool whose frames    *)
(* are replaced by LRUBufferStrategy (storage/lru_buffer_strategy.cpp).    *)
(*                                                                         *)
(* Each thread runs one transaction: BeginLog, then up to MaxWrites        *)
(* Table::DeleteRecord calls (table/table.cpp 103-118), then CommitLog.    *)
(* Every Append*Log takes its LSN with next_lsn_.fetch_add and pushes the  *)
(* record into log_buffer_ under log_buffer_mutex_ in a later step, so     *)
(* other threads run between the two.  Flush(lsn) writes and erases the    *)
(* buffered records up to lsn under the mutex, and then, outside it,       *)
(* compares its largest LSN with flushed_lsn_, stores it, and reads,       *)
(* truncates and rewrites the NEXT_LSN file, each a step of its own.  An   *)
(* LSN is a byte offset: a record of size k takes k LSNs.                  *)
(*                                                                         *)
(* The buffer pool is not under src/; it is written from spec.md 4.1: a   *)
(* GetPage runs under the pool's mutex, a miss takes a free frame or the   *)
(* LRU victim, and a dirty victim goes through LogManager::FlushPage       *)
(* (Flush(page_lsn), erase from dpt_) before it is written and reused.     *)
(* A page is latched from GetPage to SetPageLSN by the thread changing it; *)
(* eviction waits for the victim's latch.  A page image is its page_lsn.   *)
(***************************************************************************)
EXTENDS Integers, FiniteSets, Sequences, SequencesExt

CONSTANTS
    Threads,     \* sessions, each running one transaction
    Pages,       \* pages of the table
    Frames,      \* frames of the buffer pool
    MaxWrites,   \* bound: DeleteRecord calls per transaction
    NoPage,      \* a free frame
    NoThread     \* the pool's mutex is free

LRU_ == INSTANCE LRUBufferStrategy

NULL_LSN == 0
FIRST_LSN == 1
\* The NEXT_LSN file between its truncation and the write of a number.
EMPTY == -1
\* Sizes of BeginLog, DeleteLog and CommitLog (GetSize), in units.
LogSize == [BEGIN |-> 1, DELETE |-> 2, COMMIT |-> 1]
LogTypes == DOMAIN LogSize
Records == [lsn : Nat, size : {1, 2}, type : LogTypes, xid : Threads,
            prev : Nat, page : Pages \cup {NoPage}]
NoRecord == [lsn |-> NULL_LSN, size |-> 1, type |-> "BEGIN", xid |-> CHOOSE t \in Threads : TRUE,
             prev |-> NULL_LSN, page |-> NoPage]
Pcs == {"begin", "push_begin", "work", "modify", "push_delete", "set_lsn", "push_commit",
        "flush", "flush_check", "flush_store", "flush_read", "flush_test",
        "flush_open", "flush_write", "evict_write", "commit_end", "done"}

VARIABLES
    next_lsn_,      \* atomic: the LSN the next fetch_add hands out
    flushed_lsn_,   \* largest LSN a Flush stored
    log_buffer_,    \* records pushed and not yet written
    log_file,       \* records written to the log file
    next_lsn_file,  \* the NEXT_LSN file Analyze restores next_lsn_ from
    att_,           \* xid -> LSN of its last record, NULL_LSN if none
    dpt_,           \* page -> recLSN, NULL_LSN if absent
    frame_page,     \* frame -> the page it holds, or NoPage
    frame_lsn,      \* frame -> page_lsn of its page image
    frame_dirty,    \* frame -> the image differs from the data file
    disk_lsn,       \* data file: page -> page_lsn
    access_order_,  \* LRUBufferStrategy: frames, most recent first
    pool_owner,     \* the thread holding the pool's mutex, or NoThread
    pc,             \* thread -> where it is
    rec,            \* thread -> the record it is appending
    tframe,         \* thread -> the frame it works on
    tpage,          \* thread -> the page its GetPage loads
    target,         \* thread -> the lsn its Flush was called with
    max_rec,        \* thread -> the largest record its Flush wrote
    writes,         \* thread -> DeleteRecord calls done
    next_read       \* thread -> the number its Flush read from NEXT_LSN

vars == <<next_lsn_, flushed_lsn_, log_buffer_, log_file, next_lsn_file, att_, dpt_,
          frame_page, frame_lsn, frame_dirty, disk_lsn, access_order_, pool_owner,
          pc, rec, tframe, tpage, target, max_rec, writes, next_read>>

\* Frames a thread holds the latch of (from GetPage to SetPageLSN).
Latched == {tframe[t] : t \in {u \in Threads : pc[u] \in {"modify", "push_delete", "set_lsn"}}}

\* The victim frame the pool is writing back.
Evicting == IF pool_owner = NoThread THEN {} ELSE {tframe[pool_owner]}

\* The LSN reservation of Append*Log: the record with lsn := fetch_add.
NewRecord(t, type, pg) ==
    [lsn |-> next_lsn_, size |-> LogSize[type], type |-> type, xid |-> t,
     prev |-> att_[t], page |-> pg]

Reserve(t, type, pg) ==
    /\ rec' = [rec EXCEPT ![t] = NewRecord(t, type, pg)]
    /\ next_lsn_' = next_lsn_ + LogSize[type]

Init ==
    /\ next_lsn_ = FIRST_LSN
    /\ flushed_lsn_ = FIRST_LSN - 1
    /\ log_buffer_ = {}
    /\ log_file = {}
    /\ next_lsn_file = FIRST_LSN
    /\ att_ = [t \in Threads |-> NULL_LSN]
    /\ dpt_ = [p \in Pages |-> NULL_LSN]
    /\ frame_page = [f \in Frames |-> NoPage]
    /\ frame_lsn = [f \in Frames |-> NULL_LSN]
    /\ frame_dirty = [f \in Frames |-> FALSE]
    /\ disk_lsn = [p \in Pages |-> NULL_LSN]
    /\ access_order_ = <<>>
    /\ pool_owner = NoThread
    /\ pc = [t \in Threads |-> "begin"]
    /\ rec = [t \in Threads |-> NoRecord]
    /\ tframe = [t \in Threads |-> CHOOSE f \in Frames : TRUE]
    /\ tpage = [t \in Threads |-> NoPage]
    /\ target = [t \in Threads |-> NULL_LSN]
    /\ max_rec = [t \in Threads |-> NoRecord]
    /\ writes = [t \in Threads |-> 0]
    /\ next_read = [t \in Threads |-> FIRST_LSN]

-----------------------------------------------------------------------------
\* AppendBeginLog (log_manager.cpp 98-111): the LSN, att_[xid] := lsn.
AppendBeginLog(t) ==
    /\ pc[t] = "begin"
    /\ Reserve(t, "BEGIN", NoPage)
    /\ att_' = [att_ EXCEPT ![t] = next_lsn_]
    /\ pc' = [pc EXCEPT ![t] = "push_begin"]
    /\ UNCHANGED <<flushed_lsn_, log_buffer_, log_file, next_lsn_file, dpt_, frame_page,
                   frame_lsn, frame_dirty, disk_lsn, access_order_, pool_owner, tframe,
                   tpage, target, max_rec, writes, next_read>>

\* The second half of every Append*Log: push_back under log_buffer_mutex_;
\* then AppendDeleteLog sets the recLSN if absent (62-64) and
\* AppendCommitLog calls Flush(lsn) (124).
PushLog(t) ==
    /\ pc[t] \in {"push_begin", "push_delete", "push_commit"}
    /\ log_buffer_' = log_buffer_ \cup {rec[t]}
    /\ dpt_' = IF pc[t] = "push_delete" /\ dpt_[rec[t].page] = NULL_LSN
               THEN [dpt_ EXCEPT ![rec[t].page] = rec[t].lsn] ELSE dpt_
    /\ target' = [target EXCEPT ![t] = rec[t].lsn]
    /\ pc' = [pc EXCEPT ![t] = CASE pc[t] = "push_begin" -> "work"
                                  [] pc[t] = "push_delete" -> "set_lsn"
                                  [] OTHER -> "flush"]
    /\ UNCHANGED <<next_lsn_, flushed_lsn_, log_file, next_lsn_file, att_, frame_page,
                   frame_lsn, frame_dirty, disk_lsn, access_order_, pool_owner, rec,
                   tframe, tpage, max_rec, writes, next_read>>

\* The frame now holds page p, read from the data file, and is accessed.
Load(f, p, order) ==
    /\ frame_page' = [frame_page EXCEPT ![f] = p]
    /\ frame_lsn' = [frame_lsn EXCEPT ![f] = disk_lsn[p]]
    /\ frame_dirty' = [frame_dirty EXCEPT ![f] = FALSE]
    /\ access_order_' = LRU_!Access(order, f)

\* Table::DeleteRecord's GetPage(page_id) when the page is in a frame.
GetPageHit(t, p) ==
    /\ pc[t] = "work" /\ writes[t] < MaxWrites /\ pool_owner = NoThread
    /\ \E f \in Frames :
        /\ frame_page[f] = p /\ f \notin Latched
        /\ access_order_' = LRU_!Access(access_order_, f)
        /\ tframe' = [tframe EXCEPT ![t] = f]
    /\ pc' = [pc EXCEPT ![t] = "modify"]
    /\ UNCHANGED <<next_lsn_, flushed_lsn_, log_buffer_, log_file, next_lsn_file, att_, dpt_,
                   frame_page, frame_lsn, frame_dirty, disk_lsn, pool_owner, rec, tpage,
                   target, max_rec, writes, next_read>>

\* GetPage on a miss while a frame is free.
GetPageFree(t, p) ==
    /\ pc[t] = "work" /\ writes[t] < MaxWrites /\ pool_owner = NoThread
    /\ \A f \in Frames : frame_page[f] # p
    /\ \E f \in Frames :
        /\ frame_page[f] = NoPage
        /\ Load(f, p, access_order_)
        /\ tframe' = [tframe EXCEPT ![t] = f]
    /\ pc' = [pc EXCEPT ![t] = "modify"]
    /\ UNCHANGED <<next_lsn_, flushed_lsn_, log_buffer_, log_file, next_lsn_file, att_, dpt_,
                   disk_lsn, pool_owner, rec, tpage, target, max_rec, writes, next_read>>

\* GetPage on a miss in a full pool: Evict() names the victim.  A clean
\* victim is reused at once; a dirty one is first written back through
\* FlushPage(page_lsn), holding the pool's mutex.
GetPageEvict(t, p) ==
    LET v == LRU_!EvictVictim(access_order_)
    IN  /\ pc[t] = "work" /\ writes[t] < MaxWrites /\ pool_owner = NoThread
        /\ \A f \in Frames : frame_page[f] \notin {p, NoPage}
        /\ v \notin Latched
        /\ tframe' = [tframe EXCEPT ![t] = v]
        /\ IF frame_dirty[v]
             THEN /\ access_order_' = LRU_!Evict(access_order_)
                  /\ pool_owner' = t
                  /\ tpage' = [tpage EXCEPT ![t] = p]
                  /\ target' = [target EXCEPT ![t] = frame_lsn[v]]
                  /\ pc' = [pc EXCEPT ![t] = "flush"]
                  /\ UNCHANGED <<frame_page, frame_lsn, frame_dirty, next_read>>
             ELSE /\ Load(v, p, LRU_!Evict(access_order_))
                  /\ pc' = [pc EXCEPT ![t] = "modify"]
                  /\ UNCHANGED <<pool_owner, tpage, target>>
        /\ UNCHANGED <<next_lsn_, flushed_lsn_, log_buffer_, log_file, next_lsn_file, att_,
                       dpt_, disk_lsn, rec, max_rec, writes>>

\* TablePage::DeleteRecord on the frame (the image changes), then
\* AppendDeleteLog's reservation, att_[xid] := lsn (50-57).
DeleteRecord(t) ==
    /\ pc[t] = "modify"
    /\ frame_dirty' = [frame_dirty EXCEPT ![tframe[t]] = TRUE]
    /\ Reserve(t, "DELETE", frame_page[tframe[t]])
    /\ att_' = [att_ EXCEPT ![t] = next_lsn_]
    /\ pc' = [pc EXCEPT ![t] = "push_delete"]
    /\ UNCHANGED <<flushed_lsn_, log_buffer_, log_file, next_lsn_file, dpt_, frame_page,
                   frame_lsn, disk_lsn, access_order_, pool_owner, tframe, tpage, target,
                   max_rec, writes, next_read>>

\* table_page.SetPageLSN(lsn), the end of Table::DeleteRecord.
SetPageLSN(t) ==
    /\ pc[t] = "set_lsn"
    /\ frame_lsn' = [frame_lsn EXCEPT ![tframe[t]] = rec[t].lsn]
    /\ writes' = [writes EXCEPT ![t] = @ + 1]
    /\ pc' = [pc EXCEPT ![t] = "work"]
    /\ UNCHANGED <<next_lsn_, flushed_lsn_, log_buffer_, log_file, next_lsn_file, att_, dpt_,
                   frame_page, frame_dirty, disk_lsn, access_order_, pool_owner, rec, tframe,
                   tpage, target, max_rec, next_read>>

\* AppendCommitLog (113-119): the reservation; prev_lsn is att_[xid].
AppendCommitLog(t) ==
    /\ pc[t] = "work"
    /\ Reserve(t, "COMMIT", NoPage)
    /\ pc' = [pc EXCEPT ![t] = "push_commit"]
    /\ UNCHANGED <<flushed_lsn_, log_buffer_, log_file, next_lsn_file, att_, dpt_, frame_page,
                   frame_lsn, frame_dirty, disk_lsn, access_order_, pool_owner, tframe,
                   tpage, target, max_rec, writes, next_read>>

\* The buffered records Flush(lsn) writes: those with LSN <= lsn, or all.
\* Mutant: the records before lsn, not lsn itself.
ToFlushOffByOne(buf, lsn) == {r \in buf : lsn = NULL_LSN \/ r.lsn < lsn}
ToFlush(buf, lsn) == {r \in buf : lsn = NULL_LSN \/ r.lsn <= lsn}

\* Flush(lsn) (246-268), under log_buffer_mutex_: write and erase the
\* records, remember the one with the largest LSN.
FlushWrite(t) ==
    LET w == ToFlush(log_buffer_, target[t])
    IN  /\ pc[t] = "flush"
        /\ log_file' = log_file \cup w
        /\ log_buffer_' = log_buffer_ \ w
        /\ max_rec' = [max_rec EXCEPT ![t] =
                          IF w = {} THEN NoRecord
                          ELSE CHOOSE r \in w : \A o \in w : o.lsn <= r.lsn]
        /\ pc' = [pc EXCEPT ![t] = "flush_check"]
        /\ UNCHANGED <<next_lsn_, flushed_lsn_, next_lsn_file, att_, dpt_, frame_page,
                       frame_lsn, frame_dirty, disk_lsn, access_order_, pool_owner, rec,
                       tframe, tpage, target, writes, next_read>>

\* Where Flush returns to: FlushPage for the pool's eviction, else
\* AppendCommitLog.
AfterFlush(t) == IF pool_owner = t THEN "evict_write" ELSE "commit_end"

\* Flush (271): the test of max_lsn against flushed_lsn_, outside the
\* mutex.
FlushCheck(t) ==
    /\ pc[t] = "flush_check"
    /\ pc' = [pc EXCEPT ![t] =
                 IF max_rec[t].lsn # NULL_LSN
                    /\ (flushed_lsn_ = NULL_LSN \/ max_rec[t].lsn > flushed_lsn_)
                 THEN "flush_store" ELSE AfterFlush(t)]
    /\ UNCHANGED <<next_lsn_, flushed_lsn_, log_buffer_, log_file, next_lsn_file, att_, dpt_,
                   frame_page, frame_lsn, frame_dirty, disk_lsn, access_order_, pool_owner,
                   rec, tframe, tpage, target, max_rec, writes, next_read>>

\* Flush (272): flushed_lsn_ := max_lsn, outside the mutex.
FlushStore(t) ==
    /\ pc[t] = "flush_store"
    /\ flushed_lsn_' = max_rec[t].lsn
    /\ pc' = [pc EXCEPT ![t] = "flush_read"]
    /\ UNCHANGED <<next_lsn_, log_buffer_, log_file, next_lsn_file, att_, dpt_, frame_page,
                   frame_lsn, frame_dirty, disk_lsn, access_order_, pool_owner, rec, tframe,
                   tpage, target, max_rec, writes, next_read>>

\* What `in >> next_lsn` yields: the stored number, or, on a file that
\* another Flush has just truncated, nothing, leaving next_lsn at FIRST_LSN.
ReadNextLsn(file) == IF file = EMPTY THEN FIRST_LSN ELSE file

\* Flush (273-277): next_lsn := FIRST_LSN, or the NEXT_LSN file's number.
FlushReadNext(t) ==
    /\ pc[t] = "flush_read"
    /\ next_read' = [next_read EXCEPT ![t] = ReadNextLsn(next_lsn_file)]
    /\ pc' = [pc EXCEPT ![t] = "flush_test"]
    /\ UNCHANGED <<next_lsn_, flushed_lsn_, log_buffer_, log_file, next_lsn_file, att_, dpt_,
                   frame_page, frame_lsn, frame_dirty, disk_lsn, access_order_, pool_owner,
                   rec, tframe, tpage, target, max_rec, writes>>

\* Flush (278): flushed_lsn_ + max_log_size > next_lsn, reading the shared
\* flushed_lsn_ again.
FlushTestNext(t) ==
    /\ pc[t] = "flush_test"
    /\ pc' = [pc EXCEPT ![t] = IF flushed_lsn_ + max_rec[t].size > next_read[t]
                                THEN "flush_open" ELSE AfterFlush(t)]
    /\ UNCHANGED <<next_lsn_, flushed_lsn_, log_buffer_, log_file, next_lsn_file, att_, dpt_,
                   frame_page, frame_lsn, frame_dirty, disk_lsn, access_order_, pool_owner,
                   rec, tframe, tpage, target, max_rec, writes, next_read>>

\* Flush (279): std::ofstream out(NEXT_LSN_NAME) truncates the file.
FlushOpenNext(t) ==
    /\ pc[t] = "flush_open"
    /\ next_lsn_file' = EMPTY
    /\ pc' = [pc EXCEPT ![t] = "flush_write"]
    /\ UNCHANGED <<next_lsn_, flushed_lsn_, log_buffer_, log_file, att_, dpt_, frame_page,
                   frame_lsn, frame_dirty, disk_lsn, access_order_, pool_owner, rec, tframe,
                   tpage, target, max_rec, writes, next_read>>

\* Mutant: the file gets this Flush's own max_lsn + max_log_size.
NextLsnWrittenOwn(t) == max_rec[t].lsn + max_rec[t].size

\* Flush (280): out << flushed_lsn_ + max_log_size, with flushed_lsn_ as it
\* is now, whichever Flush stored it.
NextLsnWritten(t) == flushed_lsn_ + max_rec[t].size

FlushWriteNext(t) ==
    /\ pc[t] = "flush_write"
    /\ next_lsn_file' = NextLsnWritten(t)
    /\ pc' = [pc EXCEPT ![t] = AfterFlush(t)]
    /\ UNCHANGED <<next_lsn_, flushed_lsn_, log_buffer_, log_file, att_, dpt_, frame_page,
                   frame_lsn, frame_dirty, disk_lsn, access_order_, pool_owner, rec, tframe,
                   tpage, target, max_rec, writes, next_read>>

\* The rest of FlushPage (169): dpt_.erase; then the pool writes the victim
\* to the data file, reads the wanted page into the frame, accesses it and
\* releases its mutex.
EvictWrite(t) ==
    LET v == tframe[t]
    IN  /\ pc[t] = "evict_write"
        /\ dpt_' = [dpt_ EXCEPT ![frame_page[v]] = NULL_LSN]
        /\ disk_lsn' = [disk_lsn EXCEPT ![frame_page[v]] = frame_lsn[v]]
        /\ frame_page' = [frame_page EXCEPT ![v] = tpage[t]]
        /\ frame_lsn' = [frame_lsn EXCEPT ![v] = disk_lsn[tpage[t]]]
        /\ frame_dirty' = [frame_dirty EXCEPT ![v] = FALSE]
        /\ access_order_' = LRU_!Access(access_order_, v)
        /\ pool_owner' = NoThread
        /\ pc' = [pc EXCEPT ![t] = "modify"]
        /\ UNCHANGED <<next_lsn_, flushed_lsn_, log_buffer_, log_file, next_lsn_file, att_,
                       rec, tframe, tpage, target, max_rec, writes, next_read>>

\* The end of AppendCommitLog (125): att_.erase(xid).
CommitEnd(t) ==
    /\ pc[t] = "commit_end"
    /\ att_' = [att_ EXCEPT ![t] = NULL_LSN]
    /\ pc' = [pc EXCEPT ![t] = "done"]
    /\ UNCHANGED <<next_lsn_, flushed_lsn_, log_buffer_, log_file, next_lsn_file, dpt_,
                   frame_page, frame_lsn, frame_dirty, disk_lsn, access_order_, pool_owner,
                   rec, tframe, tpage, target, max_rec, writes, next_read>>

\* Every transaction has committed; the system idles.
Finished ==
    /\ \A t \in Threads : pc[t] = "done"
    /\ UNCHANGED vars

Step(t) ==
    \/ AppendBeginLog(t) \/ PushLog(t) \/ DeleteRecord(t) \/ SetPageLSN(t)
    \/ \E p \in Pages : GetPageHit(t, p) \/ GetPageFree(t, p) \/ GetPageEvict(t, p)
    \/ AppendCommitLog(t) \/ FlushWrite(t) \/ FlushCheck(t) \/ FlushStore(t)
    \/ FlushReadNext(t) \/ FlushTestNext(t) \/ FlushOpenNext(t) \/ FlushWriteNext(t)
    \/ EvictWrite(t) \/ CommitEnd(t)

Next == (\E t \in Threads : Step(t)) \/ Finished

Spec == Init /\ [][Next]_vars

-----------------------------------------------------------------------------
\* Types, and the pool's bookkeeping: access_order_ lists every occupied
\* frame, but the victim being written back, exactly once and nothing else,
\* so Evict() is never called on an empty list and never names a free frame.
TypeOK ==
    /\ next_lsn_ \in Nat /\ flushed_lsn_ \in Nat /\ next_lsn_file \in Nat \cup {EMPTY}
    /\ log_buffer_ \subseteq Records /\ log_file \subseteq Records
    /\ att_ \in [Threads -> Nat] /\ dpt_ \in [Pages -> Nat]
    /\ frame_page \in [Frames -> Pages \cup {NoPage}]
    /\ frame_lsn \in [Frames -> Nat] /\ frame_dirty \in [Frames -> BOOLEAN]
    /\ disk_lsn \in [Pages -> Nat]
    /\ access_order_ \in Seq(Frames) /\ IsInjective(access_order_)
    /\ ToSet(access_order_) = {f \in Frames : frame_page[f] # NoPage} \ Evicting
    /\ pool_owner \in Threads \cup {NoThread}
    /\ pc \in [Threads -> Pcs] /\ writes \in [Threads -> 0..MaxWrites]

(***************************************************************************)
(* WalBeforeEviction (the WAL rule FlushPage serves): no DeleteLog that is *)
(* still only in log_buffer_ describes a change the data file already      *)
(* holds.  It needs Flush(page_lsn) to write every earlier record of the   *)
(* page, while other threads reserve, push and flush around it.            *)
(***************************************************************************)
WalBeforeEviction ==
    \A r \in log_buffer_ : r.type = "DELETE" => r.lsn > disk_lsn[r.page]

(***************************************************************************)
(* CommitDurable: once AppendCommitLog has returned, none of the           *)
(* transaction's records is only in memory, whichever thread's Flush      *)
(* wrote them and in whatever order the pushes came.                       *)
(***************************************************************************)
CommitDurable ==
    \A t \in Threads : pc[t] = "done" => \A r \in log_buffer_ : r.xid # t

(***************************************************************************)
(* NextLsnFileCoversLog: whenever no Flush is between its write under the  *)
(* mutex and the end of its NEXT_LSN update (271-282), the NEXT_LSN file,  *)
(* which Analyze takes next_lsn_ from after a crash, is past the end of    *)
(* every record in the log file, so a restart never hands out an LSN the   *)
(* log holds.  Lines 272-280 run outside log_buffer_mutex_: flushed_lsn_  *)
(* is re-read at 278 and 280, and the file is truncated (279) before it is *)
(* written (280), so two Flushes can leave the smaller number in it.       *)
(***************************************************************************)
FlushTail == {"flush_check", "flush_store", "flush_read", "flush_test", "flush_open",
              "flush_write"}

NextLsnFileCoversLog ==
    (\A t \in Threads : pc[t] \notin FlushTail) =>
        \A r \in log_file : r.lsn + r.size <= next_lsn_file

(***************************************************************************)
(* LRUImplemented: access_order_ implements least-recently-used            *)
(* replacement: mapped to the frames it tracks and the order of their last *)
(* accesses, every GetPage is a step of LRUReplacement, so Evict() returns *)
(* the frame whose last access is the oldest.                              *)
(***************************************************************************)
\* Pairs <<f, g>> where f is behind g in the list: accessed before g.
OlderPairs(s) ==
    LET Idx == 1..Len(s)
    IN  {<<s[ij[1]], s[ij[2]]>> : ij \in {ij \in Idx \X Idx : ij[1] > ij[2]}}

LRU == INSTANCE LRUReplacement WITH
           tracked <- ToSet(access_order_), older <- OlderPairs(access_order_)

LRUImplemented == LRU!Spec

(***************************************************************************)
(* RollbackFindsRecords: LogManager::Rollback (188) looks for a record in  *)
(* log_buffer_ when its LSN is above flushed_lsn_ and in the log file      *)
(* otherwise.  A transaction between statements may be rolled back, so    *)
(* each of its buffered records must be above flushed_lsn_ and each of its *)
(* written ones must not, whatever the other sessions are doing.           *)
(***************************************************************************)
RollbackFindsRecords ==
    \A t \in Threads : pc[t] = "work" =>
        /\ \A r \in log_buffer_ : r.xid = t => r.lsn > flushed_lsn_
        /\ \A r \in log_file : r.xid = t => r.lsn <= flushed_lsn_

(***************************************************************************)
(* RollbackFindsRecordsAtRest: the same, in states where no Flush is       *)
(* between writing and storing flushed_lsn_.  The LSN is taken (55) before *)
(* the record is pushed (58-61), so another session's Flush can raise      *)
(* flushed_lsn_ past a record that is not yet in log_buffer_.              *)
(***************************************************************************)
RollbackFindsRecordsAtRest ==
    (\A t \in Threads : pc[t] \notin {"flush_check", "flush_store"}) => RollbackFindsRecords

(***************************************************************************)
(* FlushedLsnMonotone: flushed_lsn_ never moves back, as Flush's test     *)
(* (271) intends; the test and the store are separate steps.               *)
(***************************************************************************)
FlushedLsnMonotone == [][flushed_lsn_' >= flushed_lsn_]_flushed_lsn_
=============================================================================
