------------------------------ MODULE Optimizer ------------------------------
(***************************************************************************)
(* The rule-based optimizer (optimizer/optimizer.cpp): Optimize runs       *)
(* SplitPredicates, PushDown and ReorderJoin one after the other on a plan *)
(* tree.  PushDown keeps two member lists, join_conditions_ and            *)
(* filter_conditions_, of <<predicate, pushed>> pairs that its recursive   *)
(* calls append to and mark, and that a Filter reads back (.back()) after  *)
(* the recursion below it has returned.                                    *)
(*                                                                         *)
(* A plan node is a record: its type, the table of a SeqScan, the          *)
(* predicate of a Filter or the join_condition_ of a NestedLoopJoin, and   *)
(* its children.  A predicate is a comparison (=) of two operands, a       *)
(* column "table.col" or a constant, an AND of two predicates, or TRUE.    *)
(* Each table has one column, so a column is named by its table.  Column   *)
(* lists (the column_list_ propagated to children) are layout and left     *)
(* out.  What a plan means is its result over a database, Eval below.      *)
(***************************************************************************)
EXTENDS Integers, Sequences, SequencesExt, FiniteSets, FiniteSetsExt, TLC

CONSTANTS
    Tabs,        \* table names (aliases) of the catalog
    Vals,        \* column values
    Null,        \* the null value (a model value)
    NoTable,     \* what the table part of a constant's name is: no table
    MaxTables,   \* bound: tables in the FROM list
    MaxConj,     \* bound: comparisons in the WHERE clause
    JoinOrders   \* join_order_algorithm_ values in {"NONE", "GREEDY"}

VARIABLES
    orig,                 \* the plan Optimize was given
    plan,                 \* the plan being rewritten
    join_conditions_,     \* <<predicate, pushed>> pairs
    filter_conditions_,
    join_order_algorithm_,
    phase                 \* the step of Optimize to run next

vars == <<orig, plan, join_conditions_, filter_conditions_, join_order_algorithm_, phase>>

-----------------------------------------------------------------------------
(* Expressions and plan nodes *)
Col(t) == [kind |-> "COL", ref |-> t]
Const(v) == [kind |-> "CONST", ref |-> v]
Cmp(a, b) == [op |-> "CMP", l |-> a, r |-> b]
And(p, q) == [op |-> "AND", l |-> p, r |-> q]
TruePred == [op |-> "TRUE", l |-> "-", r |-> "-"]

Node(type, t, p, kids) == [type |-> type, table |-> t, pred |-> p, kids |-> kids]
Scan(t) == Node("SEQSCAN", t, TruePred, <<>>)
Filter(p, c) == Node("FILTER", NoTable, p, <<c>>)
Join(l, r) == Node("NESTEDLOOP", NoTable, TruePred, <<l, r>>)
Projection(c) == Node("PROJECTION", NoTable, TruePred, <<c>>)

\* The table part of an operand's name_ ("table.col" up to the '.'); a
\* constant's name has no table part that names a table.
TableOf(o) == IF o.kind = "COL" THEN o.ref ELSE NoTable

\* GetTableName: the tables of the SeqScans under a node.
RECURSIVE TableNames(_)
TableNames(n) ==
    (IF n.type = "SEQSCAN" THEN {n.table} ELSE {})
    \cup UNION {TableNames(n.kids[k]) : k \in DOMAIN n.kids}

-----------------------------------------------------------------------------
(* SplitPredicates (23-70): every child of the node that is a Filter on an *)
(* AND becomes a Filter on the right operand over a Filter on the left     *)
(* operand, and the new upper Filter is split again the same way (which    *)
(* only looks at its child, the new lower Filter).                         *)
RECURSIVE SplitPredicates(_)
SplitPredicates(n) ==
    [n EXCEPT !.kids =
        [k \in DOMAIN n.kids |->
            LET c == n.kids[k] IN
            IF c.type = "FILTER" /\ c.pred.op = "AND"
            THEN SplitPredicates(Filter(c.pred.r, Filter(c.pred.l, c.kids[1])))
            ELSE c]]

-----------------------------------------------------------------------------
(* PushDown and its cases.  Each takes the node and the two lists and     *)
(* returns the new node and the lists.                                     *)
RECURSIVE PushDown(_, _), PushDownChildren(_, _, _)

\* children_[k] = PushDown(children_[k]) for k = from, from + 1, ..., in order
PushDownChildren(n, from, st) ==
    IF from > Len(n.kids) THEN [plan |-> n, st |-> st]
    ELSE LET res == PushDown(n.kids[from], st)
         IN  PushDownChildren([n EXCEPT !.kids[from] = res.plan], from + 1, res.st)

\* Mutant: a comparison is a join predicate when its left operand is a column.
PushDownFilterLeftOnly(n, st) ==
    LET p == n.pred
        type == IF p.op # "CMP" THEN -1 ELSE IF p.l.kind = "COL" THEN 1 ELSE 0
        st1 == CASE type = 1 -> [st EXCEPT !.join = Append(@, <<p, FALSE>>)]
                 [] type = 0 -> [st EXCEPT !.filter = Append(@, <<p, FALSE>>)]
                 [] OTHER -> st
        res == PushDown(n.kids[1], st1)
        pushed == \/ type = 1 /\ Last(res.st.join)[2]
                  \/ type = 0 /\ Last(res.st.filter)[2]
    IN  [plan |-> IF pushed THEN res.plan ELSE [n EXCEPT !.kids = <<res.plan>>],
         st |-> res.st]

(***************************************************************************)
(* PushDownFilter (91-151): a comparison of two columns is registered as a *)
(* join predicate, any other comparison as a filter predicate; after the  *)
(* child is pushed down, the Filter is dropped when the LAST entry of the *)
(* list it registered in is marked pushed.                                 *)
(***************************************************************************)
PushDownFilter(n, st) ==
    LET p == n.pred
        type == IF p.op # "CMP" THEN -1
                ELSE IF p.l.kind = "COL" /\ p.r.kind = "COL" THEN 1 ELSE 0
        st1 == CASE type = 1 -> [st EXCEPT !.join = Append(@, <<p, FALSE>>)]
                 [] type = 0 -> [st EXCEPT !.filter = Append(@, <<p, FALSE>>)]
                 [] OTHER -> st
        res == PushDown(n.kids[1], st1)
        pushed == \/ type = 1 /\ Last(res.st.join)[2]
                  \/ type = 0 /\ Last(res.st.filter)[2]
    IN  [plan |-> IF pushed THEN res.plan ELSE [n EXCEPT !.kids = <<res.plan>>],
         st |-> res.st]

\* Mutant: only the left operand's table is looked up in table_names_.
PushDownJoinLeftOnly(n, st) ==
    LET tabs == TableNames(n)
        fits == {i \in DOMAIN st.join : TableOf(st.join[i][1].l) \in tabs}
        i == Min(fits)
    IN  IF fits = {} THEN PushDownChildren(n, 1, st)
        ELSE PushDownChildren([n EXCEPT !.pred = st.join[i][1]], 1,
                              [st EXCEPT !.join[i][2] = TRUE])

(***************************************************************************)
(* PushDownJoin (172-212): the first registered join predicate (pushed or *)
(* not) whose two tables are both under this join becomes its             *)
(* join_condition_ and is marked pushed; then the children are pushed     *)
(* down, left first.                                                       *)
(***************************************************************************)
PushDownJoin(n, st) ==
    LET tabs == TableNames(n)
        fits == {i \in DOMAIN st.join :
                    {TableOf(st.join[i][1].l), TableOf(st.join[i][1].r)} \subseteq tabs}
        i == Min(fits)
    IN  IF fits = {} THEN PushDownChildren(n, 1, st)
        ELSE PushDownChildren([n EXCEPT !.pred = st.join[i][1]], 1,
                              [st EXCEPT !.join[i][2] = TRUE])

(***************************************************************************)
(* PushDownSeqScan (214-251): the first registered filter predicate whose *)
(* left operand names this scan's table is marked pushed and put in a new *)
(* Filter right above the scan.                                            *)
(***************************************************************************)
PushDownSeqScan(n, st) ==
    LET fits == {i \in DOMAIN st.filter : TableOf(st.filter[i][1].l) = n.table}
        i == Min(fits)
    IN  IF fits = {} THEN [plan |-> n, st |-> st]
        ELSE [plan |-> Filter(st.filter[i][1], n),
              st |-> [st EXCEPT !.filter[i][2] = TRUE]]

\* PushDown (72-89), with PushDownProjection (153-157); any other node
\* only has its children's Filters split.
PushDown(n, st) ==
    CASE n.type = "FILTER"     -> PushDownFilter(n, st)
      [] n.type = "PROJECTION" -> PushDownChildren(n, 1, st)
      [] n.type = "NESTEDLOOP" -> PushDownJoin(n, st)
      [] n.type = "SEQSCAN"    -> PushDownSeqScan(n, st)
      [] OTHER -> [plan |-> [n EXCEPT !.kids = [k \in DOMAIN n.kids |-> SplitPredicates(n.kids[k])]],
                   st |-> st]

-----------------------------------------------------------------------------
(***************************************************************************)
(* ReorderJoin (252-303): NONE leaves the plan alone; GREEDY, unless the  *)
(* root is an INSERT, takes plan->children_[0] as the top of three left-   *)
(* deep joins over scans s1..s4 and rotates it into                        *)
(* bottom(top(middle(s2, s3), s4), s1), each join keeping its own          *)
(* join_condition_.  On any other shape the code indexes children_ past    *)
(* their end; the model gives GREEDY only plans of that shape.             *)
(***************************************************************************)
Rotate(n) ==
    LET top == n.kids[1]
        middle == top.kids[1]
        s4 == top.kids[2]
        bottom == middle.kids[1]
        s3 == middle.kids[2]
        s1 == bottom.kids[1]
        s2 == bottom.kids[2]
        middle2 == [middle EXCEPT !.kids = <<s2, s3>>]
        top2 == [top EXCEPT !.kids = <<middle2, s4>>]
    IN  [n EXCEPT !.kids[1] = [bottom EXCEPT !.kids = <<top2, s1>>]]

ReorderJoin(n) ==
    IF join_order_algorithm_ = "GREEDY" /\ n.type # "INSERT" THEN Rotate(n) ELSE n

-----------------------------------------------------------------------------
(* The plans the binder gives Optimize for SELECT ... FROM t1, ..., tk     *)
(* [WHERE c1 AND ...]: a Projection over an optional Filter over the      *)
(* left-deep NestedLoopJoins of the FROM list (join_condition_ TRUE).      *)
(* A comparison has a column on the left and a column of another table or *)
(* a constant on the right; conjunctions nest either way.                  *)
FromLists(k) == {q \in BoundedSeq(Tabs, k) : Len(q) = k /\ IsInjective(q)}

RECURSIVE LeftDeep(_)
LeftDeep(q) == IF Len(q) = 1 THEN Scan(q[1]) ELSE Join(LeftDeep(Front(q)), Scan(Last(q)))

Cmps(ts) == {Cmp(Col(ab[1]), Col(ab[2])) : ab \in {ab \in ts \X ts : ab[1] # ab[2]}} \cup {Cmp(Col(a), Const(v)) : a \in ts, v \in Vals}

RECURSIVE Conjs(_, _)
Conjs(ts, k) ==
    IF k = 1 THEN Cmps(ts)
    ELSE UNION {{And(p, q) : p \in Conjs(ts, j), q \in Conjs(ts, k - j)} : j \in 1..(k - 1)}

Selects(k) ==
    UNION {{Projection(LeftDeep(q))} \cup
           {Projection(Filter(w, LeftDeep(q))) : w \in UNION {Conjs(Range(q), c) : c \in 1..MaxConj}}
           : q \in FromLists(k)}

\* GREEDY is given the one shape it handles: four tables, every filter pushed.
GreedyPlans == {Projection(LeftDeep(q)) : q \in FromLists(4)}

-----------------------------------------------------------------------------
Init ==
    /\ join_order_algorithm_ \in JoinOrders
    /\ orig \in IF join_order_algorithm_ = "GREEDY" THEN GreedyPlans
                ELSE UNION {Selects(k) : k \in 1..MaxTables}
    /\ plan = orig
    /\ join_conditions_ = <<>> /\ filter_conditions_ = <<>>
    /\ phase = "split"

\* Optimize (16-21), one step per rewrite.
OptimizeSplit ==
    /\ phase = "split"
    /\ plan' = SplitPredicates(plan)
    /\ phase' = "pushdown"
    /\ UNCHANGED <<orig, join_conditions_, filter_conditions_, join_order_algorithm_>>

OptimizePushDown ==
    /\ phase = "pushdown"
    /\ LET res == PushDown(plan, [join |-> join_conditions_, filter |-> filter_conditions_])
       IN  /\ plan' = res.plan
           /\ join_conditions_' = res.st.join
           /\ filter_conditions_' = res.st.filter
    /\ phase' = "reorder"
    /\ UNCHANGED <<orig, join_order_algorithm_>>

OptimizeReorder ==
    /\ phase = "reorder"
    /\ plan' = ReorderJoin(plan)
    /\ phase' = "done"
    /\ UNCHANGED <<orig, join_conditions_, filter_conditions_, join_order_algorithm_>>

\* The optimized plan is handed to the executors.
Finished == phase = "done" /\ UNCHANGED vars

Next == OptimizeSplit \/ OptimizePushDown \/ OptimizeReorder \/ Finished

Spec == Init /\ [][Next]_vars

-----------------------------------------------------------------------------
(* What a plan means: its result over a database giving each table its set *)
(* of column values.  A row is a function from the tables under the node   *)
(* to values; a comparison with a null or with a column not under the node *)
(* does not hold.                                                          *)
Val(o, u) == IF o.kind = "CONST" THEN o.ref ELSE IF o.ref \in DOMAIN u THEN u[o.ref] ELSE Null

RECURSIVE Holds(_, _)
Holds(p, u) ==
    CASE p.op = "TRUE" -> TRUE
      [] p.op = "AND"  -> Holds(p.l, u) /\ Holds(p.r, u)
      [] p.op = "CMP"  -> Val(p.l, u) # Null /\ Val(p.r, u) # Null /\ Val(p.l, u) = Val(p.r, u)

RECURSIVE Eval(_, _)
Eval(n, db) ==
    CASE n.type = "SEQSCAN"    -> {n.table :> v : v \in db[n.table]}
      [] n.type = "FILTER"     -> {u \in Eval(n.kids[1], db) : Holds(n.pred, u)}
      [] n.type = "PROJECTION" -> Eval(n.kids[1], db)
      [] n.type = "NESTEDLOOP" ->
            {x \in {u @@ w : u \in Eval(n.kids[1], db), w \in Eval(n.kids[2], db)} : Holds(n.pred, x)}

Databases(ts) == [ts -> SUBSET Vals]

-----------------------------------------------------------------------------
\* TypeOK: the lists hold what PushDownFilter classified into them.
TypeOK ==
    /\ phase \in {"split", "pushdown", "reorder", "done"}
    /\ \A i \in DOMAIN join_conditions_ :
          /\ join_conditions_[i][1].op = "CMP"
          /\ join_conditions_[i][1].l.kind = "COL" /\ join_conditions_[i][1].r.kind = "COL"
          /\ join_conditions_[i][2] \in BOOLEAN
    /\ \A i \in DOMAIN filter_conditions_ :
          /\ filter_conditions_[i][1].op = "CMP"
          /\ "CONST" \in {filter_conditions_[i][1].l.kind, filter_conditions_[i][1].r.kind}
          /\ filter_conditions_[i][2] \in BOOLEAN

(***************************************************************************)
(* ResultPreserved: the optimized plan returns the same rows as the plan   *)
(* Optimize was given, on every database.  It depends on every WHERE       *)
(* conjunct ending up as a Filter or a join_condition_ above all its       *)
(* tables, which rests on the pushed flags in the member lists and on      *)
(* each Filter reading back the entry it registered.                       *)
(***************************************************************************)
ResultPreserved ==
    phase = "done" =>
        \A db \in Databases(TableNames(orig)) : Eval(plan, db) = Eval(orig, db)
====
