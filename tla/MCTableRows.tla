----------------------------- MODULE MCTableRows -----------------------------
(* A small instance of TableRows for TLC.                                   *)
EXTENDS TableRows

\* One column of each kind, and a date column for each way a date can be written.
Written ==
  [slash |-> <<"/", "none">>, slash_padded |-> <<"/", "padded">>,
   slash_unpadded |-> <<"/", "unpadded">>, dash |-> <<"-", "none">>,
   dash_padded |-> <<"-", "padded">>, dot |-> <<".", "none">>]
MCKind ==
  [path |-> "kKeyPath", sha1 |-> "kSha1", class |-> "kText", container_id |-> "kLower",
   hwids |-> "kMulti", link_time |-> "kEpoch", size |-> "kInt", signed |-> "kBool",
   program_id |-> "kKey", key_id |-> "kKeyLower", last_write_time |-> "kKeyTime"]
  @@ [c \in DOMAIN Written |-> "kTime"]

Name(core, upper, slash) == [core |-> core, shape |-> "plain", upper |-> upper, slash |-> slash]
Hash(core, shape, upper) == [core |-> core, shape |-> shape, upper |-> upper, slash |-> FALSE]

TextOf(name, text) ==
  [name |-> name, type |-> "REG_SZ", size |-> 8, inline |-> FALSE, room |-> 8, text |-> text]
IntegerOf(name, type, size, inline, room, n) ==
  [name |-> name, type |-> type, size |-> size, inline |-> inline, room |-> room,
   text |-> Number(n)]
Subkey(name, stamp, values) == [name |-> name, stamp |-> stamp, values |-> values]

\* Two spellings of one device and one hash, values of every kind and every damage.
Device   == Name("usb", TRUE, TRUE)
DeviceLo == Name("usb", FALSE, FALSE)
Class    == Name("net", FALSE, FALSE)
Long     == Name("long", FALSE, FALSE)
Missing  == Name("none", FALSE, FALSE)

Upper  == Subkey(Device, 137,
            <<TextOf("sha1", Hash("h", "lead", TRUE)), TextOf("class", Class),
              TextOf("container_id", Name("guid", TRUE, FALSE)),
              TextOf("hwids", [items |-> <<"a", "", "b", "a">>])>>)
LowerK == Subkey(DeviceLo, 0,
            <<TextOf("sha1", Hash("h", "hash", FALSE)),
              TextOf("hwids", [items |-> <<"">>]),
              TextOf("signed", Name("true", TRUE, FALSE)),
              IntegerOf("link_time", "REG_DWORD", 4, TRUE, 0, 9)>>)
\* An inline QWORD, a QWORD past the end of the hive, a DWORD kept as big data.
Damaged == Subkey(Name("key", FALSE, FALSE), 200,
            <<IntegerOf("size", "REG_QWORD", 8, FALSE, 8, 3),
              IntegerOf("size", "REG_QWORD", 8, TRUE, 8, 5),
              IntegerOf("signed", "REG_DWORD", 4, FALSE, 4, 2),
              IntegerOf("link_time", "REG_DWORD_BIG_ENDIAN", 4, FALSE, BigData, 5),
              TextOf("sha1", Hash("p", "plain", FALSE))>>)
Short == Subkey(DeviceLo, 199,
            <<IntegerOf("size", "REG_QWORD", 8, FALSE, 6, 3),
              IntegerOf("size", "REG_DWORD", 8, FALSE, 8, 4),
              [TextOf("class", Class) EXCEPT !.size = 17],
              [TextOf("class", Class) EXCEPT !.type = "REG_BINARY"],
              TextOf("link_time", Class)>>)
TooMany == Subkey(Device, 105, [i \in 1..7 |-> TextOf("class", Class)])

\* Day and month in either place, the limits of what is plausible, and what is no date.
F(digits, value) == [digits |-> digits, value |-> value]
Fields ==
  {<<F(1, 3), F(2, 14), F(4, 2019)>>, <<F(4, 2019), F(1, 3), F(2, 14)>>,
   <<F(2, 14), F(1, 3), F(4, 2019)>>, <<F(2, 12), F(2, 31), F(4, 1979)>>,
   <<F(2, 1), F(1, 1), F(4, 1980)>>, <<F(1, 1), F(1, 1), F(4, 2021)>>,
   <<F(4, 2020), F(2, 12), F(2, 31)>>, <<F(1, 1), F(1, 1), F(4, 1601)>>,
   <<F(1, 0), F(1, 1), F(4, 2019)>>, <<F(1, 3), F(2, 14), F(2, 19)>>,
   <<F(1, 2), F(2, 29), F(4, 2020)>>, <<F(4, 2019), F(1, 2), F(2, 29)>>,
   <<F(4, 2019), F(1, 3), F(4, 2020)>>, <<F(2, 10), F(1, 0), F(5, 19041), F(1, 1)>>}
Dated(fields) ==
  Subkey(Device, 99,
    SetToSeq({TextOf(c, [sep |-> Written[c][1], fields |-> fields, time |-> Written[c][2]])
                : c \in DOMAIN Written}))

\* A flag as a number, as a word and as neither.
Flags == {Number(0), Number(1), Number(2), Name("true", FALSE, FALSE),
          Name("false", FALSE, FALSE), Name("false", TRUE, FALSE), Class}
Flagged(text) == Subkey(Device, 150, <<TextOf("signed", text), TextOf("hwids", text)>>)

\* A whole QWORD that may begin with "db", and an inline DWORD that may too.
Numbers == {sigDb - 1, sigDb, sigDb + 1, 65536 + sigDb}
Numbered(n) ==
  Subkey(Device, 151, <<IntegerOf("size", "REG_QWORD", 8, FALSE, 8, n),
                        IntegerOf("link_time", "REG_DWORD", 4, TRUE, 0, n)>>)

Subkeys == {Upper, LowerK, Damaged, Short, TooMany}
MCSnapshots ==
  SeqOf(Subkeys, 2) \cup {<<Upper, LowerK, Upper>>, <<Damaged, Upper, LowerK>>}
    \cup {<<Dated(fields)>> : fields \in Fields}
    \cup {<<Flagged(text)>> : text \in Flags} \cup {<<Numbered(n)>> : n \in Numbers}

MCClocks == {Moment(2020, 1, 1), Moment(2021, 1, 1)}

Eq(text) == [op |-> "equals", expr |-> text]
Like     == [op |-> "other", expr |-> Blank]
MCQueries ==
  {[path |-> p, sha1 |-> h, class |-> c] :
     p \in {<<>>, <<Eq(DeviceLo)>>, <<Eq(Name("usb", TRUE, FALSE)), Eq(DeviceLo)>>,
            <<Like, Eq(Missing)>>, <<Eq(Blank)>>, <<Eq(Long)>>},
     h \in {<<>>, <<Eq(Hash("h", "hash", FALSE))>>, <<Eq(Missing), Eq(Hash("h", "hash", TRUE))>>,
            <<Eq(Blank)>>, <<Like>>},
     c \in {<<>>, <<Eq(Class)>>}}

\* What Pushdown compares: the cells of the columns and the expressions.
MCTexts ==
  {Blank, Long, Missing, Class, DeviceLo, Name("usb", TRUE, FALSE),
   Name("key", FALSE, FALSE), Hash("h", "hash", FALSE), Hash("h", "hash", TRUE)}
MCFold    == [t \in MCTexts |-> Lower(t)]
MCTooLong == {Long}

=============================================================================
