------------------------------ MODULE TableStats ------------------------------
(* The statistics of one monitored table (dashboard/service.py): figures that  *)
(* _gather_pg_table_stats and _gather_mongo_table_stats read one after the     *)
(* other, while the table changes.  A row is a name with the time of its last  *)
(* change; times are hours.  Sizes, columns, the counters of PostgreSQL and    *)
(* the last modifier, which nothing relates to these figures, are left out.    *)
EXTENDS Integers, FiniteSets

CONSTANTS
    RowNames,
    Spans,              \* the hours of changes_1h, changes_3h and changes_24h, in order
    LastHour            \* bound: the clock stops here

ASSUME StatsAssumption ==
    /\ Spans \in [1..3 -> Nat \ {0}] /\ Spans[1] < Spans[2] /\ Spans[2] < Spans[3]
    /\ LastHour \in Nat /\ IsFiniteSet(RowNames)

VARIABLES
    hour,
    kindOfTable,        \* "postgres" or "mongodb"
    changed,            \* when each row of the table was last changed
    reading,            \* the figure it reads next
    started,            \* now, which the cutoffs in MongoDB are taken from
    stats,              \* the figures read so far
    deletions,          \* history: rows were deleted or hours passed during the reading
    changes             \* history: the table changed in any way during the reading

statVars == <<hour, kindOfTable, changed, reading, started, stats, deletions, changes>>

Figures == <<"row_count", "last_modified", "changes_1h", "changes_3h", "changes_24h">>
Absent  == -1           \* a figure left out: reading it failed
Hours(figure) == Spans[CHOOSE i \in 1..3 : Figures[i + 2] = figure]

StatsInit ==
    /\ hour = LastHour \div 2
    /\ kindOfTable \in {"postgres", "mongodb"}
    /\ \E rows \in SUBSET RowNames : changed \in [rows -> 0..hour]
    /\ reading = 1
    /\ started = hour
    /\ stats = [f \in {} |-> Absent]
    /\ deletions = FALSE
    /\ changes = FALSE

\* NOW() of the statement in PostgreSQL, one now for all in MongoDB.
Now == IF kindOfTable = "postgres" THEN hour ELSE started

\* A plausible error: each count takes the place of the next one.
CountShifted(figure) ==
    Cardinality({r \in DOMAIN changed :
        changed[r] > Now - Spans[IF figure = "changes_1h" THEN 3 ELSE 1]})

Count(figure) == Cardinality({r \in DOMAIN changed : changed[r] > Now - Hours(figure)})

LastModified ==
    IF DOMAIN changed = {} THEN Absent
    ELSE CHOOSE t \in {changed[r] : r \in DOMAIN changed} :
            \A r \in DOMAIN changed : changed[r] <= t

Figure(f) ==
    CASE f = "row_count"     -> Cardinality(DOMAIN changed)
      [] f = "last_modified" -> LastModified
      [] OTHER               -> Count(f)

Note(value) ==
    LET f == Figures[reading]
    IN  /\ stats' = [x \in DOMAIN stats \cup {f} |-> IF x = f THEN value ELSE stats[x]]
        /\ reading' = reading + 1
        /\ UNCHANGED <<hour, kindOfTable, changed, started, deletions, changes>>

ReadFigure == reading \in DOMAIN Figures /\ Note(Figure(Figures[reading]))

\* The error is logged.  Without its count PostgreSQL gives up the table;
\* MongoDB shows that it has no rows.
FigureFails ==
    /\ reading \in DOMAIN Figures
    /\ Figures[reading] = "row_count" => kindOfTable = "mongodb"
    /\ Note(IF Figures[reading] = "row_count" THEN 0 ELSE Absent)

\* Other programs insert and change rows, and delete them; hours pass.
Touch(r) ==
    /\ changed' = [x \in DOMAIN changed \cup {r} |-> IF x = r THEN hour ELSE changed[x]]
    /\ changes' = TRUE
    /\ UNCHANGED <<hour, kindOfTable, reading, started, stats, deletions>>

DeleteRow(r) ==
    /\ r \in DOMAIN changed
    /\ changed' = [x \in DOMAIN changed \ {r} |-> changed[x]]
    /\ changes' = TRUE /\ deletions' = TRUE
    /\ UNCHANGED <<hour, kindOfTable, reading, started, stats>>

HourPasses ==
    /\ hour < LastHour
    /\ hour' = hour + 1
    /\ changes' = TRUE
    /\ deletions' = (deletions \/ kindOfTable = "postgres")
    /\ UNCHANGED <<kindOfTable, changed, reading, started, stats>>

StatsNext ==
    \/ ReadFigure \/ FigureFails \/ HourPasses
    \/ \E r \in RowNames : Touch(r) \/ DeleteRow(r)

StatsSpec == StatsInit /\ [][StatsNext]_statVars

-----------------------------------------------------------------------------
Shown(figures) == figures \subseteq {f \in DOMAIN stats : stats[f] # Absent}

\* A shorter time never shows more changes than a longer one, unless rows were
\* deleted in between (or hours passed, where each count has its own now).  In a
\* table at rest all changes are of its rows - but for a MongoDB collection whose
\* count failed and shows as 0 - and there are changes in the first span exactly
\* if the last one is as recent.
FiguresOrdered ==
    /\ ~deletions => \A i, j \in 3..5 :
            i < j /\ Shown({Figures[i], Figures[j]}) => stats[Figures[i]] <= stats[Figures[j]]
    /\ ~changes =>
            /\ \A i \in 3..5 : Shown({Figures[i], "row_count"}) =>
                    \/ stats[Figures[i]] <= stats["row_count"]
                    \/ kindOfTable = "mongodb" /\ stats["row_count"] = 0
            /\ Shown({"changes_1h", "last_modified"}) =>
                    (stats["changes_1h"] > 0) = (stats["last_modified"] > hour - Spans[1])
=============================================================================
