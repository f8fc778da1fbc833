------------------------------ MODULE RowValues -------------------------------
(***************************************************************************)
(* Value (value.rs): what a row's cell becomes when it is read back as a   *)
(* page boundary, and what the database is handed when it is bound again.  *)
(*                                                                         *)
(* A cell is an integer with its column's order, or Null; the cell of a    *)
(* timestamp column counts ticks.  A column is the sequence of its dotted  *)
(* segments.  A build is the set of features it was compiled with.         *)
(***************************************************************************)
EXTENDS Integers, Sequences

CONSTANTS
  Null,           \* SQL's NULL
  TypeOf,         \* the SQL type of each column
  Decodes,        \* the driver: the Rust types a SQL type decodes as
  Compares,       \* the database: the Rust types that compare with a SQL type
  UntypedNulls,   \* whether a NULL is bound without a type: not in PostgreSQL
  TicksPerMicro   \* bound: how many instants within a microsecond there are

ASSUME TicksAssumption == TicksPerMicro \in Nat \ {0}

Value(variant, of) == [variant |-> variant, of |-> of]
NullValue          == Value("Null", Null)
Variants == {"Null", "Bool", "Int", "Float", "Timestamp", "Bytes", "Uuid", "String"}

(* `chrono` or `time` names the type a timestamp is decoded and bound as.  *)
HasDates(build) == build \cap {"chrono", "time"} # {}
HasUuid(build)  == "uuid" \in build

-----------------------------------------------------------------------------
(* RowExtension::get_value: the column's label is looked up among the      *)
(* row's, the first that fits, and the Rust types are tried in turn.       *)
First(S)      == CHOOSE k \in S : \A j \in S : k <= j
Label(column) == column[Len(column)]
Places(shown, column) == {k \in DOMAIN shown : Label(shown[k]) = Label(column)}
LastPlace(shown, column) ==                            \* mutant: the last that fits
  CHOOSE k \in Places(shown, column) : \A j \in Places(shown, column) : j <= k
Place(shown, column) == First(Places(shown, column))

Try(rust, variant) == [rust |-> rust, variant |-> variant]
Numeric == <<Try("i64", "Int"), Try("i32", "Int"), Try("i16", "Int"),
             Try("f64", "Float"), Try("f32", "Float"), Try("bool", "Bool")>>
Dated(build)   == IF HasDates(build) THEN <<Try("timestamp", "Timestamp")>> ELSE << >>
Unique(build)  == IF HasUuid(build) THEN <<Try("uuid", "Uuid")>> ELSE << >>
Textual == <<Try("String", "String")>>
Binary  == <<Try("bytes", "Bytes")>>

CandidatesTextFirst(build) ==                          \* mutant: a UUID is read as text
  Numeric \o Dated(build) \o Textual \o Unique(build) \o Binary
Candidates(build) == Numeric \o Dated(build) \o Unique(build) \o Textual \o Binary

Decoded(type, build) ==
  {k \in DOMAIN Candidates(build) : Candidates(build)[k].rust \in Decodes[type]}

(* Ticks to microseconds: chrono's timestamp_micros rounds down, `time`'s  *)
(* unix_timestamp_nanos() / 1_000 towards the epoch.                       *)
Micros(ticks, build) ==
  IF "chrono" \in build \/ ticks >= 0 THEN ticks \div TicksPerMicro
  ELSE -((-ticks) \div TicksPerMicro)

Missing(shown, column)            == Places(shown, column) = {}
Undecodable(shown, column, build) ==
  Decoded(TypeOf[shown[Place(shown, column)]], build) = {}

GetValue(shown, row, column, build) ==
  LET from == shown[Place(shown, column)]
      cell == row[from]
      read == Candidates(build)[First(Decoded(TypeOf[from], build))]
  IN  IF cell = Null THEN NullValue
      ELSE Value(read.variant,
                 IF read.rust = "timestamp" THEN Micros(cell, build) ELSE cell)

-----------------------------------------------------------------------------
(* Encode for Value: the Rust type a value is bound as.  A build without   *)
(* the library for a variant has a stand-in for its type: the microseconds *)
(* as an integer, or the sixteen bytes.                                    *)
TimestampRepr(build) == IF HasDates(build) THEN "timestamp" ELSE "i64"
UuidRepr(build)      == IF HasUuid(build) THEN "uuid" ELSE "bytes"
Produces(value, build) ==
  CASE value.variant = "Bool"      -> "bool"
    [] value.variant = "Int"       -> "i64"
    [] value.variant = "Float"     -> "f64"
    [] value.variant = "Timestamp" -> TimestampRepr(build)
    [] value.variant = "Bytes"     -> "bytes"
    [] value.variant = "Uuid"      -> UuidRepr(build)
    [] OTHER                       -> "String"

(* The cell a value is bound as.                                           *)
Bound(value) ==
  IF value.variant = "Timestamp" THEN value.of * TicksPerMicro ELSE value.of

(* The database compares a column with what is bound to it, or refuses the *)
(* whole query.                                                            *)
Accepts(column, value, build) ==
  \/ value = NullValue /\ UntypedNulls
  \/ Produces(value, build) \in Compares[TypeOf[column]]
=============================================================================
