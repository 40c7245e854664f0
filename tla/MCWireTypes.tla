---------------------------- MODULE MCWireTypes ----------------------------
(* With a day of eight seconds and a second of three microseconds of two    *)
(* nanoseconds, the values lie close to the epoch and a day away from it.   *)
EXTENDS WireTypes

MCValues ==
    {[kind |-> "date", days |-> d] : d \in -2..2}
    \cup {Time(h, m, s, us) : h, m, s \in 0..1, us \in 0..2}
    \cup {Naive(us) : us \in {-26, -25, -24, -7, -4, -3, -1, 0, 2, 7, 23, 25}}
    \cup {Aware(us, offset) : us \in {-25, -1, 4}, offset \in -7..7}
    \cup {Number(n, places) : n \in {-105, 0, 15}, places \in -1..2}

MCDecimals == {Number(n, places) : n \in {-105, -1, 0, 1, 15}, places \in -1..2}

MCScales == {NoScale, 0, 1, 2}

MCNumerals ==
    {Numeral(neg, whole, frac) : neg \in BOOLEAN, whole \in 0..2, frac \in 0..5}
=============================================================================
