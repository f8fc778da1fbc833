------------------------------ MODULE MCTraversal -----------------------------
(* Small instances of Traversal for TLC.                                   *)
EXTENDS TraversalRefinement

(* An order: its number, when it was created, its rank and a note; and the *)
(* number of its customer, whose column has the same label.                *)
IdColumn       == <<"o", "id">>
CreatedColumn  == <<"o", "created">>
RankColumn     == <<"rank">>
NoteColumn     == <<"note">>
CustomerColumn == <<"c", "id">>
Columns == {IdColumn, CreatedColumn, RankColumn, NoteColumn, CustomerColumn}

(* The types of the columns; what a driver decodes them as, the UUID as    *)
(* text and as bytes too; and what a strict database compares them with.   *)
ColumnTypes ==
  [column \in Columns |->
     CASE column \in {IdColumn, CustomerColumn} -> "uuid"
       [] column = CreatedColumn -> "timestamptz"
       [] column = RankColumn -> "int4" [] OTHER -> "jsonb"]
Types == {"uuid", "timestamptz", "int4", "jsonb"}
DriverDecodes ==
  [type \in Types |->
     CASE type = "uuid" -> {"uuid", "String", "bytes"} [] type = "timestamptz" -> {"timestamp"}
       [] type = "int4" -> {"i32"} [] OTHER -> {}]
DatabaseCompares ==
  [type \in Types |->
     CASE type = "uuid" -> {"uuid"} [] type = "timestamptz" -> {"timestamp"}
       [] type = "int4" -> {"i64"} [] OTHER -> {}]

Ids == 1..3
Row(id, created) ==
  [column \in Columns |->
     CASE column \in {IdColumn, NoteColumn} -> id [] column = CreatedColumn -> created
       [] OTHER -> 4 - id]

(* Rows created in two microseconds, one of them before the epoch; rows    *)
(* without a date; rows created within a microsecond.                      *)
DatedCells(id)    == {Row(id, micros * TicksPerMicro) : micros \in {-1, 2}}
NullableCells(id) == {Row(id, created) : created \in {TicksPerMicro, Null}}
FineCells(id)     == {Row(id, ticks) : ticks \in {-3, -1, 1, 2, 3}}

TablesOf(cells(_)) == {t \in [Ids -> UNION {cells(id) : id \in Ids}] :
                         \A id \in Ids : t[id] \in cells(id)}
FullTables     == TablesOf(DatedCells)
NullableTables == TablesOf(NullableCells)
FineTables     == TablesOf(FineCells)

(* Every column, or all but the rank.                                      *)
AllColumns  == <<RankColumn, CreatedColumn, IdColumn, CustomerColumn, NoteColumn>>
MostColumns == <<CreatedColumn, IdColumn, CustomerColumn, NoteColumn>>

ByCreated     == <<Key(CreatedColumn, "asc")>>
ByCreatedId   == <<Key(CreatedColumn, "asc"), Key(IdColumn, "asc")>>
DownCreatedId == <<Key(CreatedColumn, "desc"), Key(IdColumn, "asc")>>
ByRank        == <<Key(RankColumn, "desc")>>
ByNote        == <<Key(NoteColumn, "asc")>>

(* Two unique orderings and one that ties; with one by a column that is    *)
(* not shown, and one by a column no Value holds.                          *)
ServedOrders   == {ByCreatedId, DownCreatedId, ByCreated}
MCOrders       == ServedOrders \cup {ByRank, ByNote}
NullableOrders == {ByCreatedId}
MCSizes        == {0, 2}

(* One build everywhere; or a service half of whose builds have no library.*)
OneBuild    == {{"chrono", "uuid"}}
TimeBuild   == {{"time", "uuid"}}
MixedBuilds == OneBuild \cup {{}}
=============================================================================
