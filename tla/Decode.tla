------------------------------- MODULE Decode -------------------------------
(***************************************************************************)
(* What a handler reads from a reply: decode.Sentence and its typed        *)
(* accessors (src/decode), and the detour a reply takes through the cache  *)
(* of ExecCached (src/builder/print.go).                                   *)
(*                                                                         *)
(* A text is a sequence of parts, which colons separate, a part a sequence *)
(* of groups: a number, or none, and the letters that follow it. <<>> is   *)
(* the empty text. Numbers have at most one decimal. Durations are counted *)
(* in milliseconds and truncated to them (the code: to nanoseconds); us,   *)
(* ns, sizes in T, dates, floats and blanks around a text are left out.    *)
(***************************************************************************)
EXTENDS Integers, Sequences

CONSTANTS Quantities, \* what the router has to say: pairs <<kind, number>>
          OddTexts    \* texts that stand for no quantity

\* A group of a text. A part is a sequence of groups, a text a sequence of parts.
Group == [num : BOOLEAN, neg : BOOLEAN, whole : Nat, tenth : 0..9, unit : STRING]

ASSUME QuantitiesAssumption == Quantities \subseteq ({"duration", "bytes"} \X Nat) \cup ({"int"} \X Int)
ASSUME OddTextsAssumption == OddTexts \subseteq Seq(Seq(Group))

VARIABLES meant,  \* history: the quantity the router wrote, or <<>>
          raw,    \* the *routeros.Reply: its rows, and the text =ret= of its !done
          seen,   \* what a caller read from the reply of Exec, or <<>>
          again   \* and from that of ExecCached, found in the cache, or <<>>

readVars == <<meant, raw, seen, again>>
-----------------------------------------------------------------------------
(* Sequences. The sum of numbers, and what is left without the elements of *)
(* a set (as functions, since the proofs need their definitions).          *)

Total(numbers) ==
    LET sum[n \in 0..Len(numbers)] == IF n = 0 THEN 0 ELSE sum[n - 1] + numbers[n]
    IN  sum[Len(numbers)]

Dropping(seq, out) ==
    LET rest[n \in 0..Len(seq)] ==
            IF n = 0 THEN <<>>
            ELSE IF seq[n] \in out THEN rest[n - 1] ELSE Append(rest[n - 1], seq[n])
    IN  rest[Len(seq)]
-----------------------------------------------------------------------------
(* Texts. *)

NoText == ""

Number(whole, tenth, unit) ==
    [num |-> TRUE, neg |-> FALSE, whole |-> whole, tenth |-> tenth, unit |-> unit]
Letters(word) == [Number(0, 0, word) EXCEPT !.num = FALSE]
Minus(g)      == [g EXCEPT !.neg = TRUE]

Second == 1000   Minute == 60 * Second   Hour == 60 * Minute   Day == 24 * Hour

\* durationUnit. Two letters are one unit: "ms" is not "m".
UnitTicks == [w |-> 7 * Day, d |-> Day, h |-> Hour, m |-> Minute, s |-> Second, ms |-> 1]

Kilo == 1024   Mega == 1024 * Kilo   Giga == 1024 * Mega

\* The unit of a size, in the spellings that ToUpper folds together.
SizeUnits == [B |-> 1, K |-> Kilo, k |-> Kilo, KiB |-> Kilo, kb |-> Kilo,
              M |-> Mega, MiB |-> Mega, GiB |-> Giga]

\* The number of a group times the weight of its unit, truncated.
Scaled(g, weight) ==
    LET v == g.whole * weight + g.tenth * (weight \div 10) + (g.tenth * (weight % 10)) \div 10
    IN  IF g.neg THEN -v ELSE v

\* ParseFloat, and Atoi or ParseInt, accept the part.
Decimal(part) == Len(part) = 1 /\ part[1].num /\ part[1].unit = NoText
Whole(part)   == Decimal(part) /\ part[1].tenth = 0

Ok(v) == [ok |-> TRUE, value |-> v]
Err   == [ok |-> FALSE, value |-> 0]   \* every error comes with the zero value
-----------------------------------------------------------------------------
(* The accessors. A name with an underscore is a faulty variant of the     *)
(* definition below it; no specification uses it.                          *)

\* A number without a unit is seconds; otherwise each number has a unit, and no sign.
parseUnitDuration(part) ==
    IF Decimal(part) THEN Ok(Scaled(part[1], Second))
    ELSE IF \A i \in DOMAIN part : part[i].num /\ ~part[i].neg /\ part[i].unit \in DOMAIN UnitTicks
    THEN Ok(Total([i \in DOMAIN part |-> Scaled(part[i], UnitTicks[part[i].unit])]))
    ELSE Err

\* With two parts the first is minutes.
Offset_Left(text) == 0
Offset(text) == 3 - Len(text)

parseClockDuration(text) ==
    LET Weight(i) == <<Hour, Minute, Second>>[i + Offset(text)]
    IN  IF /\ Len(text) \in 2..3
           /\ \A i \in DOMAIN text : IF Weight(i) = Second THEN Decimal(text[i]) ELSE Whole(text[i])
        THEN Ok(Total([i \in DOMAIN text |-> Scaled(text[i][1], Weight(i))]))
        ELSE Err

Duration(text) == IF text = <<>> THEN Err
                  ELSE IF Len(text) > 1 THEN parseClockDuration(text)
                  ELSE parseUnitDuration(text[1])

Integer(text) == IF Len(text) = 1 /\ Whole(text[1]) THEN Ok(Scaled(text[1][1], 1)) ELSE Err

\* The numeric prefix, and what follows it as the unit.
Bytes(text) ==
    IF Len(text) = 1 /\ Decimal(text[1]) THEN Ok(Scaled(text[1][1], 1))
    ELSE IF /\ Len(text) = 1 /\ Len(text[1]) = 1
            /\ text[1][1].num /\ text[1][1].unit \in DOMAIN SizeUnits
    THEN Ok(Scaled(text[1][1], SizeUnits[text[1][1].unit]))
    ELSE Err

Bool(text) == IF text \in {<<<<Letters(w)>>>> : w \in {"true", "yes"}} THEN Ok(1)
              ELSE IF text \in {<<<<Letters(w)>>>> : w \in {"false", "no"}} THEN Ok(0)
              ELSE Err

\* IntOr, BytesOr, DurationOr, BoolOr.
Or(result, def) == IF result.ok THEN result.value ELSE def

\* Get and Has of a wrapped sentence. A nil sentence reads like one without keys.
Has(row, key) == key \in DOMAIN row.map
Get(row, key) == IF Has(row, key) THEN row.map[key] ELSE <<>>

\* The accessors of one key, side by side.
Accessors(row, key) ==
    LET text == Get(row, key)
    IN  [has |-> Has(row, key), int |-> Integer(text), bytes |-> Bytes(text), bool |-> Bool(text),
         duration |-> Duration(text), durationOr |-> Or(Duration(text), -1), word |-> row.word]
-----------------------------------------------------------------------------
(* Replies. What a caller has of one: the rows, and the reply of the       *)
(* client behind it, or none (Raw is nil).                                 *)

wrapReply(reply) == [rows |-> reply.rows, behind |-> {reply}]

\* JSON replaces the bytes of a string that are not UTF-8.
JSON(text) == [i \in DOMAIN text |-> [j \in DOMAIN text[i] |->
                  [text[i][j] EXCEPT !.unit = IF @ = "<ff>" THEN "<fffd>" ELSE @]]]

\* toCached keeps the maps of the rows and nothing else ...
Kept_NonEmpty(row) == {k \in DOMAIN row.map : row.map[k] # <<>>}
Kept(row) == DOMAIN row.map

toCached(reply) == [i \in DOMAIN reply.rows |->
                       [k \in Kept(reply.rows[i]) |-> JSON(reply.rows[i].map[k])]]

\* ... and toReply makes rows of them.
toReply(maps) == [rows |-> [i \in DOMAIN maps |-> [word |-> "!re", tag |-> NoText, map |-> maps[i]]],
                  behind |-> {}]

RowKeys == {"value"}

\* What a caller can learn from a reply through decode.
Reading(reply) == [i \in DOMAIN reply.rows |-> [k \in RowKeys |-> Accessors(reply.rows[i], k)]]

\* The rest: strings as they are, tags, and the count of a Count().
Rest(reply) == [strings |-> [i \in DOMAIN reply.rows |-> [k \in RowKeys |-> Get(reply.rows[i], k)]],
                tags    |-> [i \in DOMAIN reply.rows |-> reply.rows[i].tag],
                counts  |-> {r.ret : r \in reply.behind}]
-----------------------------------------------------------------------------
(* The texts the other side writes, and those the library sends.           *)

\* formatDuration: the largest unit that divides.
formatDuration(d) ==
    LET In(weight, unit) == <<<<Number(d \div weight, 0, unit)>>>>
    IN  IF d % Hour = 0 THEN In(Hour, "h")
        ELSE IF d % Minute = 0 THEN In(Minute, "m")
        ELSE IF d % Second = 0 THEN In(Second, "s")
        ELSE In(1, "ms")

\* The router writes a duration by its units, leaving out those it does not need ...
UnitText(d) ==
    LET unit   == <<"w", "d", "h", "m", "s", "ms">>
        weight == <<7 * Day, Day, Hour, Minute, Second, 1>>
        amount(i) == (IF i = 1 THEN d ELSE d % weight[i - 1]) \div weight[i]
        groups == Dropping([i \in 1..6 |-> Number(amount(i), 0, unit[i])],
                           {Number(0, 0, unit[i]) : i \in 1..6})
    IN  <<IF groups = <<>> THEN <<Number(0, 0, "s")>> ELSE groups>>

\* ... or like a clock, with minutes and seconds only where that is enough ...
ClockTexts(d) ==
    LET h == <<Number(d \div Hour, 0, NoText)>>
        m == <<Number((d % Hour) \div Minute, 0, NoText)>>
        s == <<Number((d % Minute) \div Second, (d % Second) \div 100, NoText)>>
    IN  IF d % 100 # 0 THEN {} ELSE {<<h, m, s>>} \cup (IF d < Hour THEN {<<m, s>>} ELSE {})

\* ... and a size in a unit of which it is a multiple of a half, or a small one plainly.
SizeTexts(b) ==
    LET weight == [k |-> Kilo, KiB |-> Kilo, M |-> Mega, MiB |-> Mega, GiB |-> Giga]
        halves == {u \in DOMAIN weight : b % (weight[u] \div 2) = 0}
    IN  (IF b < Mega THEN {<<<<Number(b, 0, NoText)>>>>} ELSE {}) \cup
        {<<<<Number(b \div weight[u], IF b % weight[u] = 0 THEN 0 ELSE 5, u)>>>> : u \in halves}

Texts(q) == CASE q[1] = "duration" -> {UnitText(q[2]), formatDuration(q[2])} \cup ClockTexts(q[2])
              [] q[1] = "bytes"    -> SizeTexts(q[2])
              [] q[1] = "int"      -> {<<<<IF q[2] < 0 THEN Minus(Number(-q[2], 0, NoText))
                                           ELSE Number(q[2], 0, NoText)>>>>}
-----------------------------------------------------------------------------
\* A reply of one row, with the key or without it, to a print or to a Count().
Replies(text) ==
    {[rows |-> <<[word |-> "!re", tag |-> "l1", map |-> map]>>, ret |-> <<>>] :
       map \in {[k \in RowKeys |-> text], [k \in {} |-> text]}}
      \cup {[rows |-> <<>>, ret |-> text]}

NoReply == [rows |-> <<>>, ret |-> <<>>]

ReadInit ==
    /\ \/ \E q \in Quantities : \E text \in Texts(q) :
             meant = q /\ raw = [rows |-> <<[word |-> "!re", tag |-> "l1", map |-> [k \in RowKeys |-> text]]>>,
                                 ret |-> <<>>]
       \/ meant = <<>> /\ \E text \in OddTexts : raw \in Replies(text)
    /\ seen = <<>> /\ again = <<>>

\* Exec, or ExecCached when it misses: the caller reads the reply of the router.
Exec ==
    /\ seen = <<>>
    /\ seen' = <<Reading(wrapReply(raw)), Rest(wrapReply(raw))>>
    /\ UNCHANGED <<meant, raw, again>>

\* ExecCached when it hits: the caller reads what the cache made of it.
Hit ==
    /\ seen # <<>> /\ again = <<>>
    /\ again' = <<Reading(toReply(toCached(raw))), Rest(toReply(toCached(raw)))>>
    /\ UNCHANGED <<meant, raw, seen>>

ReadNext == Exec \/ Hit

ReadSpec == ReadInit /\ [][ReadNext]_readVars
-----------------------------------------------------------------------------
\* The accessors read back what the router meant, in every notation it has, and what
\* formatDuration wrote (Duration, Bytes, Int; formatDuration).
ReadsBack == seen # <<>> /\ meant # <<>> => seen[1][1]["value"][meant[1]] = Ok(meant[2])

\* A caller reads the same through the typed accessors whether the cache had the reply
\* or not, for every text, also one that is not a value (ExecCached, toCached, toReply).
CachedReadsTheSame == again # <<>> => again[1] = seen[1]

\* src/builder/print.go:128: ExecCached is identical to Exec. Strings are the same, and
\* what =ret= of a Count() said can be read.
CachedIsIdentical ==
    again # <<>> => /\ again[2].strings = seen[2].strings
                    /\ raw.ret # <<>> => again[2].counts = seen[2].counts
=============================================================================
