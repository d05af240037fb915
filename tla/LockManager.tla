---------------------------- MODULE LockManager ----------------------------
(***************************************************************************)
(* The multi-granularity lock manager of HuaDB                             *)
(* (src/src/transaction/lock_manager.{h,cpp}).                             *)
(*                                                                         *)
(* resource_locks_ maps a table oid to the list of ResourceLock entries    *)
(* {lock_type_, lock_granularity_, xid_t_, rid_} held on that table and    *)
(* its rows.  LockTable and LockRow never block: they return false on a    *)
(* conflict, upgrade the caller's own entry if it has one, and append a    *)
(* new entry otherwise.  The vector is modelled as a set: the code finds   *)
(* at most one entry per (xid, granularity, rid) because it upgrades the   *)
(* first match instead of appending, so the order of the vector never      *)
(* changes a result.                                                       *)
(*                                                                         *)
(* The pure operators (LockTableGranted, LockTableResult, ...) take the    *)
(* lock table as an argument so that other modules can compose them into   *)
(* their own actions; the specification at the end drives them with        *)
(* arbitrary requests.                                                     *)
(***************************************************************************)
EXTENDS Naturals, Sequences, FiniteSets

CONSTANTS
    Xids,       \* transaction ids that may request locks
    Oids,       \* table oids
    Rids,       \* row ids
    TableRid    \* the rid {0, 0} that LockTable stores in a table lock

VARIABLES
    resource_locks, \* oid -> set of ResourceLock
    last_call       \* the last call and the bool it returned

vars == <<resource_locks, last_call>>

(***************************************************************************)
(* LockType, LockGranularity and the two lookup tables of lock_manager.h,  *)
(* indexed by static_cast<int>(LockType) (here: position in LockTypes).    *)
(***************************************************************************)
LockTypes == <<"IS", "IX", "S", "SIX", "X">>
LockType == {LockTypes[i] : i \in 1..5}
LockGranularity == {"TABLE", "ROW"}
Ord(t) == CHOOSE i \in 1..5 : LockTypes[i] = t

\* Mutant: IX and S marked compatible.
lock_compatibility_map_IXS ==
    << <<TRUE,  TRUE,  TRUE,  TRUE,  FALSE>>,
       <<TRUE,  TRUE,  TRUE,  FALSE, FALSE>>,
       <<TRUE,  TRUE,  TRUE,  FALSE, FALSE>>,
       <<TRUE,  FALSE, FALSE, FALSE, FALSE>>,
       <<FALSE, FALSE, FALSE, FALSE, FALSE>> >>

lock_compatibility_map_ ==
    << <<TRUE,  TRUE,  TRUE,  TRUE,  FALSE>>,
       <<TRUE,  TRUE,  FALSE, FALSE, FALSE>>,
       <<TRUE,  FALSE, TRUE,  FALSE, FALSE>>,
       <<TRUE,  FALSE, FALSE, FALSE, FALSE>>,
       <<FALSE, FALSE, FALSE, FALSE, FALSE>> >>

lock_upgrade_map_ ==
    << <<"IS",  "IX",  "S",   "SIX", "X">>,
       <<"IX",  "IX",  "SIX", "SIX", "X">>,
       <<"S",   "SIX", "S",   "SIX", "X">>,
       <<"SIX", "SIX", "SIX", "SIX", "X">>,
       <<"X",   "X",   "X",   "X",   "X">> >>

ResourceLock ==
    [lock_type_ : LockType, lock_granularity_ : LockGranularity,
     xid_t_ : Xids, rid_ : Rids \cup {TableRid}]

\* LockManager::Compatible
Compatible(type_a, type_b) == lock_compatibility_map_[Ord(type_a)][Ord(type_b)]

\* Mutants of Upgrade: the held mode is kept, or replaced by the requested one.
UpgradeKeep(self, other) == self
UpgradeReplace(self, other) == other

\* LockManager::Upgrade
Upgrade(self, other) == lock_upgrade_map_[Ord(self)][Ord(other)]

(***************************************************************************)
(* LockTable: the first loop returns false if another xid holds an         *)
(* incompatible TABLE lock; the second upgrades the caller's own TABLE     *)
(* entry; otherwise a new entry with rid {0, 0} is appended.               *)
(***************************************************************************)
TableConflict(e, xid, lock_type) ==
    e.xid_t_ # xid /\ ~Compatible(e.lock_type_, lock_type)
        /\ e.lock_granularity_ = "TABLE"

LockTableGranted(L, xid, lock_type, oid) ==
    ~\E e \in L[oid] : TableConflict(e, xid, lock_type)

OwnTableLocks(L, xid, oid) ==
    {e \in L[oid] : e.xid_t_ = xid /\ e.lock_granularity_ = "TABLE"}

\* Mutant: a new entry is appended even when the caller holds one.
LockTableResultAppend(L, xid, lock_type, oid) ==
    [L EXCEPT ![oid] = @ \cup
        {[lock_type_ |-> lock_type, lock_granularity_ |-> "TABLE",
          xid_t_ |-> xid, rid_ |-> TableRid]}]

LockTableResult(L, xid, lock_type, oid) ==
    LET own == OwnTableLocks(L, xid, oid)
    IN  IF own # {}
        THEN [L EXCEPT ![oid] = (@ \ own) \cup
                {[e EXCEPT !.lock_type_ = Upgrade(e.lock_type_, lock_type)] : e \in own}]
        ELSE [L EXCEPT ![oid] = @ \cup
                {[lock_type_ |-> lock_type, lock_granularity_ |-> "TABLE",
                  xid_t_ |-> xid, rid_ |-> TableRid]}]

(***************************************************************************)
(* LockRow: the same three steps restricted to ROW entries on the rid.     *)
(***************************************************************************)
RowConflict(e, xid, lock_type, rid) ==
    e.rid_ = rid /\ e.lock_granularity_ = "ROW" /\ e.xid_t_ # xid
        /\ ~Compatible(e.lock_type_, lock_type)

LockRowGranted(L, xid, lock_type, oid, rid) ==
    ~\E e \in L[oid] : RowConflict(e, xid, lock_type, rid)

OwnRowLocks(L, xid, oid, rid) ==
    {e \in L[oid] : e.rid_ = rid /\ e.lock_granularity_ = "ROW" /\ e.xid_t_ = xid}

LockRowResult(L, xid, lock_type, oid, rid) ==
    LET own == OwnRowLocks(L, xid, oid, rid)
    IN  IF own # {}
        THEN [L EXCEPT ![oid] = (@ \ own) \cup
                {[e EXCEPT !.lock_type_ = Upgrade(e.lock_type_, lock_type)] : e \in own}]
        ELSE [L EXCEPT ![oid] = @ \cup
                {[lock_type_ |-> lock_type, lock_granularity_ |-> "ROW",
                  xid_t_ |-> xid, rid_ |-> rid]}]

\* LockManager::ReleaseLocks: every entry of xid, on every oid, is erased.
ReleaseLocksResult(L, xid) ==
    [o \in DOMAIN L |-> {e \in L[o] : e.xid_t_ # xid}]

-----------------------------------------------------------------------------
(***************************************************************************)
(* The lock manager on its own: any transaction calls any operation.       *)
(***************************************************************************)
NoCall == [op |-> "none"]

Call ==
    [op : {"table", "row"}, xid : Xids, lock_type : LockType,
     oid : Oids, rid : Rids \cup {TableRid}, ok : BOOLEAN]
      \cup [op : {"release"}, xid : Xids] \cup {NoCall}

Init ==
    /\ resource_locks = [o \in Oids |-> {}]
    /\ last_call = NoCall

LockTable(xid, lock_type, oid) ==
    LET ok == LockTableGranted(resource_locks, xid, lock_type, oid)
    IN  /\ resource_locks' = IF ok THEN LockTableResult(resource_locks, xid, lock_type, oid)
                                   ELSE resource_locks
        /\ last_call' = [op |-> "table", xid |-> xid, lock_type |-> lock_type,
                         oid |-> oid, rid |-> TableRid, ok |-> ok]

LockRow(xid, lock_type, oid, rid) ==
    LET ok == LockRowGranted(resource_locks, xid, lock_type, oid, rid)
    IN  /\ resource_locks' = IF ok THEN LockRowResult(resource_locks, xid, lock_type, oid, rid)
                                   ELSE resource_locks
        /\ last_call' = [op |-> "row", xid |-> xid, lock_type |-> lock_type,
                         oid |-> oid, rid |-> rid, ok |-> ok]

ReleaseLocks(xid) ==
    /\ resource_locks' = ReleaseLocksResult(resource_locks, xid)
    /\ last_call' = [op |-> "release", xid |-> xid]

Next ==
    \/ \E x \in Xids, t \in LockType, o \in Oids : LockTable(x, t, o)
    \/ \E x \in Xids, t \in LockType, o \in Oids, r \in Rids : LockRow(x, t, o, r)
    \/ \E x \in Xids : ReleaseLocks(x)

Spec == Init /\ [][Next]_vars

-----------------------------------------------------------------------------
(***************************************************************************)
(* Properties.                                                             *)
(***************************************************************************)
(***************************************************************************)
(* TypeOK also states the shape the set abstraction relies on: at most one *)
(* entry per (xid, granularity, rid), because LockTable and LockRow        *)
(* upgrade an existing entry of the caller instead of appending one.       *)
(***************************************************************************)
TypeOK ==
    /\ resource_locks \in [Oids -> SUBSET ResourceLock]
    /\ last_call \in Call
    /\ \A o \in Oids : \A e1, e2 \in resource_locks[o] :
          (e1.xid_t_ = e2.xid_t_ /\ e1.lock_granularity_ = e2.lock_granularity_
           /\ e1.rid_ = e2.rid_) => e1 = e2

\* Two entries guard the same object when they have the same granularity and,
\* for rows, the same rid.
SameObject(e1, e2) ==
    /\ e1.lock_granularity_ = e2.lock_granularity_
    /\ e1.lock_granularity_ = "TABLE" \/ e1.rid_ = e2.rid_

(***************************************************************************)
(* The lattice the specification gives for lock modes (IS below IX and S, *)
(* both below SIX, SIX below X), written out independently of the code's  *)
(* upgrade table: m1 \preceq m2 when a holder of m2 has every right m1     *)
(* gives.                                                                  *)
(***************************************************************************)
ModeLeq(m1, m2) ==
    <<m1, m2>> \in {<<m, m>> : m \in LockType} \cup
        {<<"IS", "IX">>, <<"IS", "S">>, <<"IS", "SIX">>, <<"IS", "X">>,
         <<"IX", "SIX">>, <<"IX", "X">>, <<"S", "SIX">>, <<"S", "X">>,
         <<"SIX", "X">>}

(***************************************************************************)
(* Compatibility of modes as the specification's matrix gives it, written *)
(* out independently of lock_compatibility_map_: IS with all but X, IX     *)
(* with IS and IX, S with IS and S, SIX with IS, X with nothing.           *)
(***************************************************************************)
ModesCompatible(m1, m2) ==
    LET pairs == {<<"IS", "IS">>, <<"IS", "IX">>, <<"IS", "S">>, <<"IS", "SIX">>,
                  <<"IX", "IX">>, <<"S", "S">>}
    IN  <<m1, m2>> \in pairs \/ <<m2, m1>> \in pairs

HeldMode(L, xid, oid, gran, rid) ==
    {e.lock_type_ : e \in {f \in L[oid] : f.xid_t_ = xid /\ f.lock_granularity_ = gran
                                         /\ (gran = "TABLE" \/ f.rid_ = rid)}}

(***************************************************************************)
(* LocksCompatible: after any sequence of LockTable, LockRow and           *)
(* ReleaseLocks calls, two different transactions never hold incompatible *)
(* modes (by the specification's matrix) on the same table or the same    *)
(* row.  It is about lock_compatibility_map_ and the conflict loops of    *)
(* LockTable/LockRow together with the in-place upgrade, which             *)
(* checks only the requested mode, not the upgraded one, against the       *)
(* other holders.                                                          *)
(***************************************************************************)
LocksCompatible ==
    \A o \in Oids : \A e1, e2 \in resource_locks[o] :
        (e1.xid_t_ # e2.xid_t_ /\ SameObject(e1, e2))
            => ModesCompatible(e1.lock_type_, e2.lock_type_)

(***************************************************************************)
(* LockResultCorrect: the bool LockTable/LockRow returned is right.  When  *)
(* it is true the caller now holds a mode at least as strong as the one it *)
(* asked for (in the lattice above, not by the code's own upgrade table);  *)
(* when it is false another transaction really holds a mode incompatible   *)
(* with the request on that object.                                        *)
(***************************************************************************)
LockResultCorrect ==
    last_call.op \in {"table", "row"} =>
        LET gran == IF last_call.op = "table" THEN "TABLE" ELSE "ROW"
            held == HeldMode(resource_locks, last_call.xid, last_call.oid,
                             gran, last_call.rid)
        IN  IF last_call.ok
            THEN \E m \in held : ModeLeq(last_call.lock_type, m)
            ELSE \E e \in resource_locks[last_call.oid] :
                    /\ e.xid_t_ # last_call.xid
                    /\ e.lock_granularity_ = gran
                    /\ gran = "TABLE" \/ e.rid_ = last_call.rid
                    /\ ~ModesCompatible(e.lock_type_, last_call.lock_type)

(***************************************************************************)
(* HeldNeverWeakens: a lock a transaction holds is never replaced by a     *)
(* weaker one and never disappears, except when ReleaseLocks is called for *)
(* that transaction.  A request for a weaker mode than the one held (an    *)
(* executor taking IS after IX, or X twice in UpdateExecutor) must leave   *)
(* the held mode as it is.                                                 *)
(***************************************************************************)
HeldNeverWeakens ==
    [][\A o \in Oids : \A e \in resource_locks[o] :
          \/ last_call'.op = "release" /\ last_call'.xid = e.xid_t_
          \/ \E f \in resource_locks'[o] :
                /\ f.xid_t_ = e.xid_t_ /\ SameObject(e, f)
                /\ ModeLeq(e.lock_type_, f.lock_type_)]_vars
=============================================================================
