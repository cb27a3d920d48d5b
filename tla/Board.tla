-------------------------------- MODULE Board --------------------------------
(***************************************************************************)
(* kvbench report and kvbench compare on the results of a sweep            *)
(* (cmd/kvbench/report.go, compare.go): the files are loaded, grouped into *)
(* a table for each class and workload, and ranked; or kv's engines are    *)
(* set against the best competitor of the same cell.                       *)
(***************************************************************************)
EXTENDS Sweep

CONSTANT Excludes   \* the lists that --exclude may name

VARIABLES
  stage,        \* run, report, reported, compared, exit
  md,           \* --md
  skipped,      \* the files that report, or compare for --kv, could not read
  baseSkipped,  \* those that compare could not read for --baseline
  tables,       \* the tables printed: <<class, workload>> -> the rows
  excluded,     \* --exclude
  compared      \* the comparison: cell -> row

boardVars == <<stage, md, skipped, baseSkipped, tables, excluded, compared>>
allVars == <<sweepVars, boardVars>>

BoardInit ==
  /\ SweepInit
  /\ stage = "run" /\ md = FALSE /\ skipped = {} /\ baseSkipped = {}
  /\ tables = <<>> /\ excluded = {} /\ compared = <<>>

-----------------------------------------------------------------------------
\* Mutant: the servers that keep their data in memory have no division.
MutClassOrder == <<"embedded", "redis-persistent", "distributed">>

classOrder == <<"embedded", "redis-memory", "redis-persistent", "distributed">>

\* loadResults passes over the files that it cannot read, S, and a Result without an
\* engine name.
Loaded(S) == {r \in {files[n] : n \in DOMAIN files \ S} : r.cell.engine # ""}

\* What may not be read, in one directory and in another, S and T, within the bound.
Unread(S, T) ==
  /\ S \in SUBSET DOMAIN files /\ T \in SUBSET DOMAIN files
  /\ Cardinality(lost) + Cardinality(S) + Cardinality(T) <= MaxFaults

\* The division groupByClass puts a result in. RunCell has tagged the result with
\* ClassOf of its engine.
classOf(r) == ClassOf(r.cell.engine)

\* The table of a result: its division, then groupByWorkload. A division that is not
\* in classOrder has no tables.
TableOf(r) == <<classOf(r), r.cell.workload>>
TablesOf(rows) == {TableOf(r) : r \in {q \in rows : classOf(q) \in Range(classOrder)}}
RowsOf(rows, t) == {r \in rows : TableOf(r) = t}

\* The orders of RenderMarkdown and of printTables: whether a stands above b.
Less(markdown, a, b) ==
  IF markdown /\ (a.err \/ b.err) THEN ~a.err /\ b.err ELSE a.ops > b.ops

\* What sort.Slice may leave of a set of rows.
Ranked(markdown, S) ==
  {rows \in Bijection(1..Cardinality(S), S) :
     \A i, j \in DOMAIN rows : i < j => ~Less(markdown, rows[j], rows[i])}

\* The sweep is over; report loads its directory, or there is nothing in it.
Report ==
  /\ stage = "run" /\ SweepDone
  /\ skipped' \in SUBSET DOMAIN files /\ Unread(skipped', {})
  /\ stage' = IF Loaded(skipped') = {} THEN "exit" ELSE "report"
  /\ md' \in BOOLEAN
  /\ UNCHANGED <<sweepVars, baseSkipped, tables, excluded, compared>>

\* The next table.
PrintTable ==
  LET rows == Loaded(skipped)
      due == TablesOf(rows) \ DOMAIN tables
      t == CHOOSE k \in due : TRUE
  IN
  /\ stage = "report" /\ due # {}
  /\ \E rs \in Ranked(md, RowsOf(rows, t)) :
       tables' = [k \in DOMAIN tables \cup {t} |-> IF k = t THEN rs ELSE tables[k]]
  /\ UNCHANGED <<sweepVars, stage, md, skipped, baseSkipped, excluded, compared>>

Printed ==
  /\ stage = "report" /\ TablesOf(Loaded(skipped)) \subseteq DOMAIN tables
  /\ stage' = "reported"
  /\ UNCHANGED <<sweepVars, md, skipped, baseSkipped, tables, excluded, compared>>

-----------------------------------------------------------------------------
KVEngines == {"kv-btree", "kv-lsm"}

\* All of a cell but its engine.
CellKey(r) == [r.cell EXCEPT !.engine = ""]

\* The throughput of an engine at a cell, -1 if it has none.
OpsAt(rows, e, k) ==
  LET S == {r \in rows : r.cell.engine = e /\ CellKey(r) = k /\ ~r.err}
  IN  IF S = {} THEN -1 ELSE (CHOOSE r \in S : TRUE).ops

\* Mutant: the exclusions are not applied.
MutRivals(rows, k, exclude) ==
  {r \in rows : r.cell.engine \notin KVEngines /\ ~r.err /\ CellKey(r) = k}

Rivals(rows, k, exclude) ==
  {r \in rows : r.cell.engine \notin KVEngines \cup exclude /\ ~r.err /\ CellKey(r) = k}

\* A row of buildComparison and its verdict. The ratio kv / rival is compared
\* with 5 and 1 without dividing.
CompareRow(kvRows, baseRows, k, exclude) ==
  LET kv == Max({OpsAt(kvRows, "kv-btree", k), OpsAt(kvRows, "kv-lsm", k)})
      rivals == {r.ops : r \in Rivals(baseRows, k, exclude)}
      rival == IF rivals = {} THEN -1 ELSE Max(rivals)
  IN  [kv |-> kv, rival |-> rival,
       verdict |-> IF ~(rival > 0 /\ kv > 0) THEN "n/a"
                   ELSE IF kv >= 5 * rival THEN "5x-CLEARED"
                   ELSE IF kv >= rival THEN "lead" ELSE "behind"]

\* buildComparison: a row for every cell that a kv engine has.
Comparison(kvRows, baseRows, exclude) ==
  [k \in {CellKey(r) : r \in {q \in kvRows : q.cell.engine \in KVEngines}}
     |-> CompareRow(kvRows, baseRows, k, exclude)]

\* compare, with the sweep's directory for both of its inputs, each loaded by itself.
Compare ==
  /\ stage = "run" /\ SweepDone
  /\ skipped' \in SUBSET DOMAIN files /\ baseSkipped' \in SUBSET DOMAIN files
  /\ Unread(skipped', baseSkipped')
  /\ excluded' \in Excludes
  /\ \/ /\ {} \in {Loaded(skipped'), Loaded(baseSkipped')}
        /\ stage' = "exit" /\ compared' = compared
     \/ /\ {} \notin {Loaded(skipped'), Loaded(baseSkipped')}
        /\ stage' = "compared"
        /\ compared' = Comparison(Loaded(skipped'), Loaded(baseSkipped'), excluded')
  /\ UNCHANGED <<sweepVars, md, tables>>

BoardNext ==
  \/ SweepNext /\ UNCHANGED boardVars
  \/ Report \/ PrintTable \/ Printed \/ Compare

BoardSpec == BoardInit /\ [][BoardNext]_allVars

-----------------------------------------------------------------------------
(***************************************************************************)
(* Properties.                                                             *)
(***************************************************************************)
Rows == UNION {Range(tables[t]) : t \in DOMAIN tables}
SameTable(a, b) == \E t \in DOMAIN tables : a \in Range(tables[t]) /\ b \in Range(tables[t])

\* Types, of the sweep's variables too.
BoardTypeOK ==
  /\ SweepTypeOK
  /\ stage \in {"run", "report", "reported", "compared", "exit"} /\ md \in BOOLEAN
  /\ Rows \subseteq Loaded(skipped) /\ excluded \in Excludes \cup {{}}
  /\ \A k \in DOMAIN compared : compared[k].verdict \in {"n/a", "5x-CLEARED", "lead", "behind"}

\* The file of cell i was written and no later cell of the sweep has the same one.
LastOfItsName(i) ==
  /\ i \notin lost
  /\ \A k \in (i + 1)..Len(log) :
       log[k] # <<>> => ~AlikeButSlashes(cmd.cells[i], cmd.cells[k])

Places == UNION {{t} \X DOMAIN tables[t] : t \in DOMAIN tables}
RowAt(p) == tables[p[1]][p[2]]

\* When the report is out, every cell that was swept without a panic, failed or not, is
\* one row of one table, with the numbers of its last run, if its engine is of one of
\* the classes there are and its file was written, read and not written over.
ReportComplete ==
  stage = "reported" =>
    \A i \in DOMAIN log :
      /\ Clean(log[i]) /\ LastOfItsName(i) /\ NameOf(cmd.cells[i]) \notin skipped
      /\ ClassOf(cmd.cells[i].engine) \in Classes
      => \E p \in Places :
           /\ RowAt(p) = Aggregate(log[i])
           /\ \A q \in Places : RowAt(q).cell = cmd.cells[i] => q = p

\* "an in-process get never shares a table with a networked get", whether the
\* engine names its class or leaves it to its mode.
ClassesApart ==
  \A a, b \in Rows : SameTable(a, b) =>
    (Meta[a.cell.engine].mode = "network") = (Meta[b.cell.engine].mode = "network")

\* No row stands above a faster one, and in the published report none that failed
\* stands above one that did not.
RowsRanked ==
  \A t \in DOMAIN tables : \A i, j \in DOMAIN tables[t] :
    LET a == tables[t][i]
        b == tables[t][j]
    IN  i < j => a.ops >= b.ops /\ (md /\ a.err => b.err)

\* The tables that are out are ranked ones of the files, all of them when the
\* report is done, and the comparison is one of the files.
TablesInv ==
  /\ stage \in {"run", "report", "reported", "compared", "exit"} /\ md \in BOOLEAN
  /\ stage # "run" => SweepDone
  /\ stage \notin {"report", "reported"} => tables = <<>>
  /\ stage # "compared" => compared = <<>>
  /\ \A t \in DOMAIN tables :
       t \in TablesOf(Loaded(skipped)) /\ tables[t] \in Ranked(md, RowsOf(Loaded(skipped), t))
  /\ stage = "reported" => TablesOf(Loaded(skipped)) \subseteq DOMAIN tables
  /\ excluded \in Excludes \cup {{}}
  /\ \A k \in DOMAIN compared :
       compared[k] = CompareRow(Loaded(skipped), Loaded(baseSkipped), k, excluded)

\* What the files, the tables and the rows of a report keep.
BoardInv == BoardTypeOK /\ SweepInv /\ ClassesApart /\ RowsRanked /\ TablesInv

\* The numbers that count at a cell: of kv's engines, and of the competitors.
KVRows(rows, k) ==
  {r \in rows : r.cell.engine \in KVEngines /\ CellKey(r) = k /\ ~r.err /\ r.ops > 0}
OtherRows(rows, k, exclude) ==
  {r \in rows : /\ r.cell.engine \notin KVEngines \cup exclude
                /\ CellKey(r) = k /\ ~r.err /\ r.ops > 0}

VerdictSound(v, kv, other) ==
  /\ v = "n/a" <=> kv = {} \/ other = {}
  /\ v = "5x-CLEARED" <=>
       kv # {} /\ other # {} /\ \E a \in kv : \A b \in other : a.ops >= 5 * b.ops
  /\ v = "behind" <=>
       kv # {} /\ other # {} /\ \A a \in kv : \E b \in other : a.ops < b.ops

\* "the throughput ratio and whether it clears the campaign's 5x bar": a cleared
\* cell has a kv engine that is five times as fast as every competitor that
\* counts, one that is behind has none that is as fast as all of them, and one with
\* numbers on both sides has a verdict.
ComparisonSound ==
  \A k \in DOMAIN compared :
    VerdictSound(compared[k].verdict, KVRows(Loaded(skipped), k),
                 OtherRows(Loaded(baseSkipped), k, excluded))
=============================================================================
