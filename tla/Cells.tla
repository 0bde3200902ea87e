-------------------------------- MODULE Cells --------------------------------
(***************************************************************************)
(* From a registry value to a cell: decode and record of                   *)
(* internal/inventory/inventory.go read the values of a subkey, and cell   *)
(* of tables/decode.go makes the columns of a row from them.               *)
(*                                                                         *)
(* A text is known by what the decoders look at:                           *)
(*  - a name, path, hash or word: [core, shape, upper, slash], where shape *)
(*    is "hash" for 40 hexadecimal digits, "lead" for those with the 0000  *)
(*    prefix and "plain" for anything else, upper says that some letter is *)
(*    in upper case and slash that it is written with '/';                 *)
(*  - a date: [sep, fields, time], three fields of [digits, value] and the *)
(*    time of day that follows ("none", "padded" or "unpadded");           *)
(*  - a list: [items], and a decimal as FormatUint writes it: [number].    *)
(* A moment is a number of days, counted as if every month had 31, which   *)
(* leaves gaps and keeps the order.                                        *)
(*                                                                         *)
(* A value has the type, size and inline bit that the hive declares, and   *)
(* room, the bytes from its data cell to the end of the hive, or BigData.  *)
(* Nothing but its first two bytes tells a big-data cell from another one. *)
(***************************************************************************)
EXTENDS Integers, Sequences

CONSTANTS
  Kind,          \* the kind of each column of the table
  MaxValues,     \* maxValues
  MaxValueBytes, \* maxValueBytes
  filetimeEpoch, \* the ticks of a FILETIME at 1970-01-01
  filetimeMax,   \* and at 2100-01-01
  TicksPerSecond

kinds == {"kText", "kInt", "kBool", "kTime", "kEpoch", "kMulti", "kSha1", "kLower",
          "kKey", "kKeyPath", "kKeyLower", "kKeyTime"}

ASSUME CellsAssumption ==
  /\ Kind \in [DOMAIN Kind -> kinds]
  /\ MaxValues \in Nat /\ MaxValueBytes \in Nat
  /\ filetimeEpoch \in Nat /\ filetimeMax \in Nat /\ TicksPerSecond \in Nat \ {0}
  /\ filetimeEpoch % TicksPerSecond = 0

BigData == -1

NameText   == [core: STRING, shape: {"hash", "lead", "plain"}, upper: BOOLEAN, slash: BOOLEAN]
DateText   == [sep: STRING, fields: Seq([digits: Nat, value: Nat]),
               time: {"none", "padded", "unpadded"}]
ListText   == [items: Seq(STRING)]
NumberText == [number: Nat]
Text       == NameText \cup DateText \cup ListText \cup NumberText

Integers4 == {"REG_DWORD", "REG_DWORD_BIG_ENDIAN"}
IntegerTypes == Integers4 \cup {"REG_QWORD"}
TextTypes == {"REG_SZ", "REG_EXPAND_SZ", "REG_MULTI_SZ"}

RegistryValue == {v \in [name: STRING, type: STRING, size: Nat, inline: BOOLEAN,
                         room: Nat \cup {BigData}, text: Text] :
                    v.type \in IntegerTypes => v.text \in NumberText}
RegistryKey   == [name: NameText, stamp: Nat, values: Seq(RegistryValue)]

NoWord    == ""
Blank     == [core |-> NoWord, shape |-> "plain", upper |-> FALSE, slash |-> FALSE]
Number(n) == [number |-> n]

IsName(t)   == "core" \in DOMAIN t
IsDate(t)   == "sep" \in DOMAIN t
IsList(t)   == "items" \in DOMAIN t
IsNumber(t) == "number" \in DOMAIN t

-----------------------------------------------------------------------------
(* The values of a subkey.                                                 *)

Width(v) == IF v.type \in Integers4 THEN 4 ELSE 8

\* The first two bytes of an integer's data cell, read as the signature of the cell:
\* those of a big-data cell are "db", those of any other the low bytes of the number.
sigDb == 25188
Signature(v) == IF v.room = BigData THEN sigDb ELSE v.text.number % 65536

\* The library reads four bytes of an inline value, what there is of a cell and, of
\* what has the signature of big data, anything down to nothing; an integer is then
\* taken from the bytes.
BytesRead(v) ==
  IF v.inline THEN 4
  ELSE IF Signature(v) = sigDb THEN 0
  ELSE IF v.size < v.room THEN v.size ELSE v.room
Panics(v) == v.type \in IntegerTypes /\ BytesRead(v) < Width(v)

\* Mutant of Decodes: the inline bit is not looked at.
DecodesInlineQword(v) ==
  /\ v.size <= MaxValueBytes
  /\ v.type \in IntegerTypes =>
       /\ v.size = Width(v)
       /\ v.inline \/ (Signature(v) # sigDb /\ v.room >= Width(v))
  /\ v.type \in IntegerTypes \cup TextTypes

\* decode: which values become a text.  A REG_BINARY or unknown one does not.
Decodes(v) ==
  /\ v.size <= MaxValueBytes
  /\ v.type \in IntegerTypes =>
       /\ v.size = Width(v)
       /\ IF v.inline THEN Width(v) = 4 ELSE Signature(v) # sigDb /\ v.room >= Width(v)
  /\ v.type \in IntegerTypes \cup TextTypes

\* A subkey that declares too many values is served with none of them.
Kept(key) ==
  IF Len(key.values) > MaxValues THEN {}
  ELSE {i \in DOMAIN key.values : Decodes(key.values[i])}

\* A panic of the library costs the record.
RecordLost(key) == \E i \in Kept(key) : Panics(key.values[i])

\* A stamp outside the bounds is unknown, which is 0.
lastWrite(ft) ==
  IF ft < filetimeEpoch \/ ft >= filetimeMax THEN 0
  ELSE ft \div TicksPerSecond - filetimeEpoch \div TicksPerSecond

\* The last value of a name is the one in the map.
record(key) ==
  LET kept == Kept(key) IN
  [name |-> key.name, lastWrite |-> lastWrite(key.stamp),
   V |-> [src \in {key.values[i].name : i \in kept} |->
            key.values[CHOOSE i \in kept :
              /\ key.values[i].name = src
              /\ \A j \in kept : key.values[j].name = src => j <= i].text]]

-----------------------------------------------------------------------------
(* The decoders: Blank is "", whether the value is absent or rejected.     *)

Lower(t)       == IF IsName(t) THEN [t EXCEPT !.upper = FALSE] ELSE t
Backslashed(t) == IF IsName(t) THEN [t EXCEPT !.slash = FALSE] ELSE t

decodeInt(t) == IF IsNumber(t) THEN t ELSE Blank

decodeBool(t) ==
  IF IsNumber(t) /\ t.number \in {0, 1} THEN t
  ELSE IF IsName(t) /\ t.core = "true" THEN Number(1)
  ELSE IF IsName(t) /\ t.core = "false" THEN Number(0)
  ELSE Blank

decodeSha1(t) ==
  IF IsName(t) /\ t.shape \in {"hash", "lead"}
    THEN Lower([t EXCEPT !.shape = "hash"]) ELSE Blank

decodeMulti(t) ==
  IF ~IsList(t) THEN t
  ELSE LET list == t.items
           items[n \in 0..Len(list)] ==
             IF n = 0 THEN <<>>
             ELSE IF list[n] # NoWord THEN Append(items[n - 1], list[n]) ELSE items[n - 1] IN
       IF items[Len(list)] = <<>> THEN Blank ELSE [items |-> items[Len(list)]]

\* Mutant of timeLayouts: the two rungs of the design contract.
timeLayoutsOfContract ==
  <<[sep |-> "/", order |-> <<"m", "d", "y">>, time |-> "padded"],
    [sep |-> "/", order |-> <<"m", "d", "y">>, time |-> "none"]>>

timeLayouts ==
  <<[sep |-> "/", order |-> <<"m", "d", "y">>, time |-> "padded"],
    [sep |-> "/", order |-> <<"m", "d", "y">>, time |-> "none"],
    [sep |-> "-", order |-> <<"m", "d", "y">>, time |-> "none"],
    [sep |-> "-", order |-> <<"y", "m", "d">>, time |-> "none"]>>

\* time.Parse: a year has four digits, a month or a day one or two.
Takes(part, f) ==
  CASE part = "y" -> f.digits = 4
    [] part = "m" -> f.digits <= 2 /\ f.value \in 1..12
    [] part = "d" -> f.digits <= 2 /\ f.value \in 1..31

DaysIn(y, m) ==
  IF m = 2 THEN IF y % 4 = 0 /\ (y % 100 # 0 \/ y % 400 = 0) THEN 29 ELSE 28
  ELSE IF m \in {4, 6, 9, 11} THEN 30 ELSE 31

\* The value that a layout takes for the year, the month or the day.
Part(layout, t, p) == t.fields[CHOOSE i \in 1..3 : layout.order[i] = p].value

Parses(layout, t) ==
  /\ t.sep = layout.sep
  /\ t.time = layout.time
  /\ Len(t.fields) = 3 /\ \A i \in 1..3 : Takes(layout.order[i], t.fields[i])
  /\ Part(layout, t, "d") <= DaysIn(Part(layout, t, "y"), Part(layout, t, "m"))

Moment(y, m, d) == (y * 12 + (m - 1)) * 31 + (d - 1)
Year == 372

MomentBy(layout, t) ==
  Moment(Part(layout, t, "y"), Part(layout, t, "m"), Part(layout, t, "d"))

\* From 1980 on, and not a year ahead of the clock.
plausible(n, now) == n >= Moment(1980, 1, 1) /\ n < now + Year

\* The first layout that parses decides: if it gives no plausible moment, no other
\* layout is tried.
decodeTime(t, now) ==
  LET parsing == IF IsDate(t) THEN {i \in DOMAIN timeLayouts : Parses(timeLayouts[i], t)}
                 ELSE {} IN
  IF parsing = {} THEN Blank
  ELSE LET first == CHOOSE i \in parsing : \A j \in parsing : i <= j
           n == MomentBy(timeLayouts[first], t) IN
       IF plausible(n, now) THEN Number(n) ELSE Blank

\* cell: the switch is on the column's kind and on nothing else.
cell(c, rec, now) ==
  LET s == IF c \in DOMAIN rec.V THEN rec.V[c] ELSE Blank IN
  CASE Kind[c] = "kKey"      -> rec.name
    [] Kind[c] = "kKeyPath"  -> Backslashed(rec.name)
    [] Kind[c] = "kKeyLower" -> Lower(rec.name)
    [] Kind[c] = "kKeyTime"  -> IF rec.lastWrite = 0 THEN Blank ELSE Number(rec.lastWrite)
    [] Kind[c] \in {"kInt", "kEpoch"} -> decodeInt(s)
    [] Kind[c] = "kBool"     -> decodeBool(s)
    [] Kind[c] = "kTime"     -> decodeTime(s, now)
    [] Kind[c] = "kMulti"    -> decodeMulti(s)
    [] Kind[c] = "kSha1"     -> decodeSha1(s)
    [] Kind[c] = "kLower"    -> Lower(s)
    [] OTHER                 -> s

=============================================================================
