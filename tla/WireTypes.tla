----------------------------- MODULE WireTypes -----------------------------
(***************************************************************************)
(* Values on the wire: types.py decodes the cells of a result, bindings.py *)
(* encodes the parameters of a statement, and testing.py, the test double, *)
(* encodes cells for the decoder.  A time is sent as a decimal number of   *)
(* seconds in a result and as a whole number of nanoseconds in a binding,  *)
(* while Python counts days, seconds and microseconds; the arithmetic      *)
(* between the three, on both sides of the epoch, is what is modelled.     *)
(*                                                                         *)
(* A numeral is a record of its sign and digits: "-0.5" is not 0 and a     *)
(* half.  Text, binary, boolean and JSON cells pass through a library      *)
(* function each and are left out.  The units are constants, so that a     *)
(* small day shows every carry.                                            *)
(***************************************************************************)
EXTENDS Integers, Sequences, SequencesExt

CONSTANTS Nanos,       \* nanoseconds in a microsecond
          Micros,      \* microseconds in a second
          Millis,      \* milliseconds in a second
          Seconds,     \* seconds in a minute
          Minutes,     \* minutes in an hour
          Hours,       \* hours in a day
          Values,      \* Python values that are registered or bound
          Scales,      \* scales a test may give a column of numbers
          Numerals,    \* numerals the service may put into a cell
          MaxRows      \* bound on the rows of a column that is registered

Second == Micros * Nanos                    \* in nanoseconds
Day == Hours * Minutes * Seconds            \* in seconds

NoScale == -1

\* A date, the fields of a time of day, an instant, with a UTC offset of less than a
\* day, or a number; all of them as Python has them.
Value ==
    [kind : {"date"}, days : Int]
    \cup [kind : {"time"}, hour : 0..(Hours - 1), minute : 0..(Minutes - 1),
          second : 0..(Seconds - 1), microsecond : 0..(Micros - 1)]
    \cup [kind : {"naive"}, us : Int]
    \cup [kind : {"aware"}, us : Int, offset : (1 - Day)..(Day - 1)]
    \cup [kind : {"number"}, num : Int, places : Int]

ASSUME WireAssumption ==
    /\ {Nanos, Micros, Millis, Seconds, Minutes, Hours} \subseteq Nat \ {0}
    /\ Values \subseteq Value
    /\ Scales \subseteq Nat \cup {NoScale}
    /\ Numerals \subseteq [neg : BOOLEAN, whole : Nat, frac : 0..(Second - 1)]
    /\ MaxRows \in Nat

VARIABLES given,   \* the Python values, one for each row of a column
          meta,    \* the ColumnMeta: a type and a scale
          cells,   \* the raw cells of the column, as the client receives them
          rows     \* the decoded values; none yet if shorter than cells

wireVars == <<given, meta, cells, rows>>

Null == [kind |-> "null"]                   \* Python's None and JSON's null
Abs(n) == IF n < 0 THEN -n ELSE n

-----------------------------------------------------------------------------
(* Numerals: an optional sign, whole seconds and a fraction, the fraction   *)
(* padded to nanoseconds.                                                   *)

Numeral(negative, whole, frac) ==
    [neg |-> negative, whole |-> whole, frac |-> frac]

\* Mutant: the sign of the whole part is taken for that of the numeral.
split_seconds_unsigned(t) ==
    [whole |-> IF t.neg THEN -t.whole ELSE t.whole,
     nanos |-> IF t.neg /\ t.whole # 0 THEN -t.frac ELSE t.frac]

\* Seconds and nanoseconds, both with the sign of the numeral.
split_seconds(t) ==
    [whole |-> IF t.neg THEN -t.whole ELSE t.whole,
     nanos |-> IF t.neg THEN -t.frac ELSE t.frac]

\* Mutant: floor division on both sides of the epoch.
nanos_to_micros_floor(n) == n \div Nanos

\* Towards zero on either side of it.
nanos_to_micros(n) == IF n >= 0 THEN n \div Nanos ELSE -((-n) \div Nanos)

\* Microseconds since the epoch, of a numeral of a timestamp.
Instant(t) ==
    LET s == split_seconds(t) IN s.whole * Micros + nanos_to_micros(s.nanos)

\* The test double's numeral of a timestamp.
epoch_string(us) ==
    Numeral(us < 0, Abs(us) \div Micros, (Abs(us) % Micros) * Nanos)

\* The exact value of a numeral, in nanoseconds.
Exact(t) == (IF t.neg THEN -1 ELSE 1) * (t.whole * Second + t.frac)

\* datetime.timedelta, normalised: only the days may be negative.
Delta(us) ==
    [days |-> us \div (Day * Micros),
     seconds |-> (us % (Day * Micros)) \div Micros,
     microseconds |-> us % Micros]

-----------------------------------------------------------------------------
(* Python values: date, time, naive and aware datetime, int and Decimal.  A *)
(* datetime is its instant in microseconds since the epoch; an aware one    *)
(* has a UTC offset too, in seconds.  A number is num / 10^places.          *)

Naive(us) == [kind |-> "naive", us |-> us]
Aware(us, offset) == [kind |-> "aware", us |-> us, offset |-> offset]
Time(h, m, s, us) == [kind |-> "time", hour |-> h, minute |-> m, second |-> s,
                      microsecond |-> us]
Number(num, places) == [kind |-> "number", num |-> num, places |-> places]
ValueError == [kind |-> "ValueError"]

Digits(v) == IF v.places > 0 THEN v.places ELSE 0

\* Equality as Python has it.  The offset of an aware datetime does not count;
\* a whole number of minutes is kept all the same.
Same(v, w) ==
    /\ v.kind = w.kind
    /\ CASE v.kind = "aware"  -> /\ v.us = w.us
                                 /\ Abs(v.offset - w.offset) < Seconds
                                 /\ (v.offset % Seconds) = 0 => v.offset = w.offset
         [] v.kind = "number" -> v.num * 10^Digits(w) * 10^(Digits(v) - v.places) =
                                 w.num * 10^Digits(v) * 10^(Digits(w) - w.places)
         [] OTHER             -> v = w

-----------------------------------------------------------------------------
(* testing.py: _infer_type, _infer_column and _encode_cell.                 *)

Meta(type, scale) == [type |-> type, scale |-> scale]

infer_type(v) ==
    CASE v.kind = "number" -> Meta("fixed", Digits(v))
      [] v.kind = "date"   -> Meta("date", NoScale)
      [] v.kind = "time"   -> Meta("time", NoScale)
      [] v.kind = "naive"  -> Meta("timestamp_ntz", NoScale)
      [] v.kind = "aware"  -> Meta("timestamp_tz", NoScale)

\* The first value that is not null decides.
infer_column(values) ==
    LET first == SelectInSeq(values, LAMBDA v : v # Null)
    IN IF first = 0 THEN Meta("text", NoScale) ELSE infer_type(values[first])

TimeTypes == {"date", "time", "timestamp_ntz", "timestamp_ltz", "timestamp_tz"}

\* What a test may ask the type of a column to be: it leaves it to the values, or it
\* states it, with a scale for numbers.
normalize_columns(values) ==
    {infer_column(values)}
    \cup {Meta(type, NoScale) : type \in TimeTypes}
    \cup {Meta("fixed", scale) : scale \in Scales}

IsDatetime(v) == v.kind \in {"naive", "aware"}
utcoffset(v) == IF v.kind = "aware" THEN v.offset ELSE 0

\* A datetime without its tzinfo.
WallClock(v) == v.us + utcoffset(v) * Micros

\* The hour, minute, second and microsecond of a time or of a datetime.
TimeOf(v) ==
    IF v.kind = "time" THEN v ELSE
    LET wall == Delta(WallClock(v))
        left == wall.seconds % (Minutes * Seconds)
    IN Time(wall.seconds \div (Minutes * Seconds), left \div Seconds, left % Seconds,
            wall.microseconds)

SecondsOfDay(v) == (v.hour * Minutes + v.minute) * Seconds + v.second

At(t) == [at |-> t]
AtOffset(t, minutes) == [at |-> t, offset |-> minutes + Hours * Minutes]
Fixed(num, places) == [num |-> num, places |-> places]
Words == [text |-> "words"]                 \* str() of what is not a number

\* The values that a column of the type has a cell for; others raise.
Encodes(v, type) ==
    \/ v = Null
    \/ type = "fixed"
    \/ type \in {"date", "time"} /\ v.kind = type
    \/ type \in TimeTypes \ {"date"} /\ IsDatetime(v)

\* The type of the column decides: timestamp_ntz takes the wall clock, the other two
\* take the instant and a naive datetime for UTC.
encode_cell(v, type) ==
    IF v = Null THEN Null ELSE
    CASE type = "date" -> [days |-> v.days]
      [] type = "time" ->
            At(Numeral(FALSE, SecondsOfDay(TimeOf(v)), TimeOf(v).microsecond * Nanos))
      [] type = "timestamp_ntz" -> At(epoch_string(WallClock(v)))
      [] type = "timestamp_ltz" -> At(epoch_string(v.us))
      [] type = "timestamp_tz" ->
            AtOffset(epoch_string(v.us), utcoffset(v) \div Seconds)
      [] type = "fixed" ->
            IF v.kind = "number" THEN Fixed(v.num * 10^(Digits(v) - v.places), Digits(v))
                                 ELSE Words

-----------------------------------------------------------------------------
(* types.py: coerce_value.                                                  *)

\* hours % 24 is the code's; a time of day never needs it.
decode_time(t) ==
    LET s == split_seconds(t)
        left == s.whole % (Minutes * Seconds)
    IN Time((s.whole \div (Minutes * Seconds)) % Hours, left \div Seconds,
            left % Seconds, nanos_to_micros(s.nanos))

\* Without an offset the instant is in UTC; timezone() takes offsets of less than a
\* day, to either side.
decode_timestamp_tz(cell) ==
    IF "offset" \notin DOMAIN cell THEN Aware(Instant(cell.at), 0) ELSE
    LET minutes == cell.offset - Hours * Minutes
    IN IF Abs(minutes) < Hours * Minutes THEN Aware(Instant(cell.at), minutes * Seconds)
                                         ELSE ValueError

\* int() takes no decimal point, and neither int() nor Decimal() takes words.
decode_fixed(cell, scale) ==
    IF cell = Words THEN ValueError
    ELSE IF scale \notin {NoScale, 0} THEN Number(cell.num, cell.places)
    ELSE IF cell.places = 0 THEN Number(cell.num, 0) ELSE ValueError

coerce_value(cell, column) ==
    IF cell = Null THEN Null ELSE
    CASE column.type = "fixed"          -> decode_fixed(cell, column.scale)
      [] column.type = "date"           -> [kind |-> "date", days |-> cell.days]
      [] column.type = "time"           -> decode_time(cell.at)
      [] column.type = "timestamp_ntz"  -> Naive(Instant(cell.at))
      [] column.type = "timestamp_ltz"  -> Aware(Instant(cell.at), 0)
      [] column.type = "timestamp_tz"   -> decode_timestamp_tz(cell)

-----------------------------------------------------------------------------
(* bindings.py: _bind_one, for the types whose encoding is arithmetic, and  *)
(* the service, which hands the value it understood back in a result.       *)

\* Mutant: the days of the timedelta are forgotten.
epoch_nanos_within_day(us) == Delta(us).seconds * Second + Delta(us).microseconds * Nanos

\* Nanoseconds since the epoch, put together from the parts of a timedelta.
epoch_nanos(us) ==
    (Delta(us).days * Day + Delta(us).seconds) * Second + Delta(us).microseconds * Nanos

\* Python's round(n / d): to the nearest, a half to the even neighbour.
RoundHalfEven(n, d) ==
    LET q == n \div d
        r == n % d
    IN IF 2 * r > d \/ (2 * r = d /\ q % 2 = 1) THEN q + 1 ELSE q

bind_datetime(v) ==
    IF v.kind = "naive"
      THEN [type |-> "TIMESTAMP_NTZ", value |-> epoch_nanos(v.us)]
      ELSE [type |-> "TIMESTAMP_TZ", value |-> epoch_nanos(v.us),
            offset |-> RoundHalfEven(v.offset, Seconds) + Hours * Minutes]

\* Of a date, a time or a datetime.
bind_one(v) ==
    CASE IsDatetime(v)   -> bind_datetime(v)
      [] v.kind = "date" -> [type |-> "DATE", value |-> v.days * Day * Millis]
      [] v.kind = "time" -> [type |-> "TIME",
                             value |-> SecondsOfDay(v) * Second + v.microsecond * Nanos]

\* The service writes n nanoseconds as a numeral.
Seen(n) == Numeral(n < 0, Abs(n) \div Second, Abs(n) % Second)

ServedType(b) ==
    CASE b.type = "DATE"          -> "date"
      [] b.type = "TIME"          -> "time"
      [] b.type = "TIMESTAMP_NTZ" -> "timestamp_ntz"
      [] b.type = "TIMESTAMP_TZ"  -> "timestamp_tz"

Served(b) ==
    CASE b.type = "DATE"         -> [days |-> b.value \div (Day * Millis)]
      [] b.type = "TIMESTAMP_TZ" -> [at |-> Seen(b.value), offset |-> b.offset]
      [] OTHER                   -> At(Seen(b.value))

-----------------------------------------------------------------------------
WireInit ==
    /\ given = <<>>
    /\ meta = Meta("text", NoScale)
    /\ cells = <<>>
    /\ rows = <<>>

\* FakeSnowflake.register: a column of one type, of values that may be of several
\* kinds.
register ==
    /\ cells = <<>>
    /\ \E values \in BoundedSeq(Values \cup {Null}, MaxRows) \ {<<>>} :
       \E column \in normalize_columns(values) :
         /\ \A i \in DOMAIN values : Encodes(values[i], column.type)
         /\ given' = values
         /\ meta' = column
         /\ cells' = [i \in DOMAIN values |-> encode_cell(values[i], column.type)]
    /\ UNCHANGED rows

\* A time is bound to a statement that returns it.
bind(v) ==
    /\ cells = <<>>
    /\ v.kind # "number"
    /\ given' = <<v>>
    /\ meta' = Meta(ServedType(bind_one(v)), NoScale)
    /\ cells' = <<Served(bind_one(v))>>
    /\ UNCHANGED rows

\* The cells of a timestamp or a time; one with a time zone may lack its offset.
Sent(type, t) == {At(t)} \cup {c \in {AtOffset(t, 0)} : type = "timestamp_tz"}

\* The service sends two timestamps of its own, or two times of day.
serve(type, s, t) ==
    /\ cells = <<>>
    /\ type = "time" => \A n \in {s, t} : ~ n.neg /\ n.whole < Day
    /\ meta' = Meta(type, NoScale)
    /\ cells' \in Sent(type, s) \X Sent(type, t)
    /\ UNCHANGED <<given, rows>>

\* The values of the cells; an exception takes the whole result with it.
coerced ==
    LET values == [i \in DOMAIN cells |-> coerce_value(cells[i], meta)]
    IN  IF Contains(values, ValueError) THEN <<ValueError>> ELSE values

coerce_rows ==
    /\ cells # <<>>
    /\ rows = <<>>
    /\ rows' = coerced
    /\ UNCHANGED <<given, meta, cells>>

WireNext ==
    \/ register
    \/ \E v \in Values : bind(v)
    \/ \E type \in {"time", "timestamp_ntz", "timestamp_ltz", "timestamp_tz"},
          s, t \in Numerals : serve(type, s, t)
    \/ coerce_rows

WireSpec == WireInit /\ [][WireNext]_wireVars

-----------------------------------------------------------------------------
Decoded == rows # <<>>
Timestamps ==
    /\ Decoded
    /\ given = <<>>
    /\ meta.type \in {"timestamp_ntz", "timestamp_ltz", "timestamp_tz"}

\* A column of type fixed holds numbers, and leaves room for all of their decimals.
ScaleFits ==
    meta.type = "fixed" =>
        \A i \in DOMAIN given :
            \/ given[i] = Null
            \/ /\ given[i].kind = "number"
               /\ meta.scale \in {NoScale, 0} => given[i].places <= 0

\* UTC offsets that are still within a day when they are rounded to minutes.
OffsetsFit ==
    meta.type = "timestamp_tz" =>
        \A i \in DOMAIN given :
            given[i].kind = "aware" => Abs(given[i].offset) <= Day - Seconds

\* A value in a column of a type that need not be its own: a datetime has a time of
\* day; timestamp_ntz keeps the wall clock; timestamp_ltz and, of naive datetimes,
\* timestamp_tz keep the instant, in UTC.
InColumn(v, type) ==
    CASE v.kind = "naive" /\ type \in {"timestamp_ltz", "timestamp_tz"} -> Aware(v.us, 0)
      [] v.kind = "aware" /\ type = "timestamp_ltz" -> Aware(v.us, 0)
      [] v.kind = "aware" /\ type = "timestamp_ntz" -> Naive(v.us + v.offset * Micros)
      [] IsDatetime(v) /\ type = "time" -> TimeOf(v)
      [] OTHER -> v

\* The decoded rows are these values.
Returned(values) ==
    /\ Len(rows) = Len(values)
    /\ \A i \in DOMAIN rows : Same(values[i], rows[i])

\* Whatever is registered with the test double, or bound and selected again,
\* comes back as the column's type has it, and as it was where that is the value's
\* own: times on either side of the epoch, to the microsecond, instants of any UTC
\* offset that rounds to less than a day, registered numbers where the column's
\* scale fits them.
RoundTrip ==
    Decoded /\ given # <<>> /\ ScaleFits /\ OffsetsFit =>
        Returned([i \in DOMAIN given |-> InColumn(given[i], meta.type)])

\* All of it comes back as it was, as the documentation of the test double has it.
Lossless == Decoded /\ given # <<>> => Returned(given)

\* A timestamp with nanoseconds loses less than a microsecond, towards the epoch.
TruncatesToEpoch ==
    Timestamps => \A i \in DOMAIN rows :
        LET exact == Exact(cells[i].at)
            kept == rows[i].us * Nanos
        IN /\ Abs(exact - kept) < Nanos
           /\ Abs(kept) <= Abs(exact)

\* Rows sorted by a timestamp are still sorted when they have been decoded.
OrderKept ==
    Timestamps => \A i, j \in DOMAIN rows :
        Exact(cells[i].at) <= Exact(cells[j].at) => rows[i].us <= rows[j].us
=============================================================================
