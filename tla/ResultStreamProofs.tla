------------------------- MODULE ResultStreamProofs -------------------------
(***************************************************************************)
(* Results for every number of partitions, of rows and every batch_size:   *)
(* rows are conserved on their way to the caller, on every surface.        *)
(***************************************************************************)
EXTENDS ResultStream, Induction, SequenceTheorems

-----------------------------------------------------------------------------
(* Sequences of sequences.                                                  *)

\* FlattenSeq puts the sequences together one after the other.
LEMMA FlattenSteps ==
    ASSUME NEW S, NEW ss \in Seq(Seq(S))
    PROVE  \E f : /\ \A i \in 0..Len(ss) : f[i] \in Seq(S)
                  /\ f[0] = <<>>
                  /\ \A i \in 0..(Len(ss) - 1) : f[i + 1] = f[i] \o ss[i + 1]
                  /\ FlattenSeq(ss) = f[Len(ss)]
<1> DEFINE n == Len(ss)
           E(i) == IF i < n THEN ss[i + 1] ELSE <<>>
           step == [i \in Nat |-> [x \in Seq(S) |-> x \o E(i)]]
           G(f) == [i \in 1..n |-> IF i = 1 THEN ss[i] ELSE f[i - 1] \o ss[i]]
           flat == CHOOSE f : f = G(f)
<1>1. n \in Nat /\ <<>> \in Seq(S)
  OBVIOUS
<1>2. ASSUME NEW i \in Nat PROVE E(i) \in Seq(S)
  <2>1. CASE i < n
    <3>1. i + 1 \in 1..n
      BY <1>1, <2>1
    <3>2. QED BY <2>1, <3>1
  <2>2. QED BY <1>1, <2>1
<1>3. step \in Steps(Seq(S))
  <2> HIDE DEF E
  <2>1. ASSUME NEW i \in Nat, NEW x \in Seq(S) PROVE x \o E(i) \in Seq(S)
    BY <1>2, ConcatProperties
  <2>2. QED BY <2>1 DEF Steps
<1>4. PICK g : Follows(g, Seq(S), <<>>, step)
  <2> HIDE DEF step
  <2>1. QED BY <1>1, <1>3, Recursion
<1>5. /\ g \in [Nat -> Seq(S)] /\ g[0] = <<>>
      /\ \A i \in Nat : g[i + 1] = g[i] \o E(i)
  <2>1. /\ g \in [Nat -> Seq(S)] /\ g[0] = <<>>
        /\ \A i \in Nat : g[i + 1] = step[i][g[i]]
    BY <1>4 DEF Follows
  <2> HIDE DEF E
  <2>2. QED BY <2>1
<1>6. ASSUME NEW i \in 1..n
      PROVE  g[i] = g[i - 1] \o ss[i] /\ (i = 1 => g[i] = ss[i])
  <2>1. i - 1 \in Nat /\ i - 1 < n /\ (i - 1) + 1 = i
    BY <1>1
  <2>2. E(i - 1) = ss[i]
    BY <2>1
  <2>3. g[(i - 1) + 1] = g[i - 1] \o E(i - 1)
    BY <1>5, <2>1
  <2>4. g[i] = g[i - 1] \o ss[i]
    BY <2>1, <2>2, <2>3
  <2>5. ASSUME i = 1 PROVE g[i] = ss[i]
    <3>1. g[i - 1] = <<>> /\ ss[i] \in Seq(S)
      BY <1>5, <2>5
    <3>2. QED BY <2>4, <3>1, ConcatEmptySeq
  <2>6. QED BY <2>4, <2>5
<1> DEFINE h == [i \in 1..n |-> g[i]]
<1>7. h = G(h)
  <2>1. ASSUME NEW i \in 1..n PROVE h[i] = G(h)[i]
    <3>1. CASE i = 1
      BY <1>6, <3>1
    <3>2. CASE i # 1
      <4>1. i - 1 \in 1..n
        BY <1>1, <3>2
      <4>2. QED BY <1>6, <3>2, <4>1
    <3>3. QED BY <3>1, <3>2
  <2>2. QED BY <2>1
<1>8. flat = G(flat)
  <2>1. \E e : e = G(e)
    <3> HIDE DEF h, G
    <3>1. QED BY <1>7
  <2> HIDE DEF G
  <2>2. QED BY <2>1
<1> HIDE DEF flat
<1> DEFINE T == {i \in Nat : i \in 1..n => flat[i] = g[i]}
<1>9. 0 \in T
  OBVIOUS
<1>10. ASSUME NEW i \in T PROVE i + 1 \in T
  <2>1. CASE i + 1 \in 1..n /\ i = 0
    <3>1. i + 1 = 1 /\ 1 \in 1..n
      BY <2>1
    <3>2. flat[1] = ss[1] /\ g[1] = ss[1]
      BY <1>6, <1>8, <3>1
    <3>3. QED BY <3>1, <3>2
  <2>2. CASE i + 1 \in 1..n /\ i # 0
    <3>1. i \in 1..n /\ (i + 1) - 1 = i /\ i + 1 # 1
      BY <1>1, <2>2
    <3>2. flat[i + 1] = flat[i] \o ss[i + 1]
      BY <1>8, <2>2, <3>1
    <3>3. g[i + 1] = g[i] \o ss[i + 1]
      BY <1>6, <2>2, <3>1
    <3>4. flat[i] = g[i]
      BY <3>1
    <3>5. flat[i + 1] = g[i + 1]
      BY <3>2, <3>3, <3>4, Zenon
    <3>6. QED BY <3>5
  <2>3. QED BY <2>1, <2>2
<1>11. T = Nat
  <2>1. T \in SUBSET Nat
    OBVIOUS
  <2> HIDE DEF T
  <2>2. QED BY <1>9, <1>10, <2>1, NatSet
<1>12. FlattenSeq(ss) = g[n]
  <2>1. CASE n = 0
    <3>1. ss = <<>> /\ FlattenSeq(ss) = ss
      BY <2>1 DEF FlattenSeq
    <3>2. QED BY <1>5, <2>1, <3>1
  <2>2. CASE n # 0
    <3>1. FlattenSeq(ss) = flat[n]
      BY <2>2 DEF FlattenSeq, flat
    <3>2. n \in 1..n
      BY <1>1, <2>2
    <3>3. QED BY <1>1, <1>11, <3>1, <3>2
  <2>3. QED BY <2>1, <2>2
<1>13. ASSUME NEW i \in 0..(n - 1) PROVE g[i + 1] = g[i] \o ss[i + 1]
  <2>1. i + 1 \in 1..n /\ (i + 1) - 1 = i
    BY <1>1
  <2>2. QED BY <1>6, <2>1
<1>14. \A i \in 0..n : g[i] \in Seq(S)
  BY <1>1, <1>5
<1>15. QED BY <1>5, <1>12, <1>13, <1>14

LEMMA FlattenEmpty ==
    ASSUME NEW S
    PROVE  FlattenSeq(<<>>) = <<>> /\ <<>> \in Seq(Seq(S))
BY DEF FlattenSeq

LEMMA FlattenType ==
    ASSUME NEW S, NEW ss \in Seq(Seq(S))
    PROVE  FlattenSeq(ss) \in Seq(S)
<1>1. Len(ss) \in 0..Len(ss)
  OBVIOUS
<1>2. QED BY <1>1, FlattenSteps

\* One sequence more comes last.
LEMMA FlattenAppend ==
    ASSUME NEW S, NEW ss \in Seq(Seq(S)), NEW s \in Seq(S)
    PROVE  FlattenSeq(Append(ss, s)) = FlattenSeq(ss) \o s
<1> DEFINE n == Len(ss)
           more == Append(ss, s)
<1>1. /\ n \in Nat /\ more \in Seq(Seq(S)) /\ Len(more) = n + 1 /\ Len(more) - 1 = n
      /\ more[n + 1] = s
      /\ \A i \in 0..(n - 1) : more[i + 1] = ss[i + 1]
  OBVIOUS
<1> HIDE DEF more
<1>2. PICK f : /\ f[0] = <<>>
               /\ \A i \in 0..(n - 1) : f[i + 1] = f[i] \o ss[i + 1]
               /\ FlattenSeq(ss) = f[n]
  BY FlattenSteps
<1>3. PICK e : /\ e[0] = <<>>
               /\ \A i \in 0..n : e[i + 1] = e[i] \o more[i + 1]
               /\ FlattenSeq(more) = e[n + 1]
  <2>1. PICK e : /\ e[0] = <<>>
                 /\ \A i \in 0..(Len(more) - 1) : e[i + 1] = e[i] \o more[i + 1]
                 /\ FlattenSeq(more) = e[Len(more)]
    BY <1>1, FlattenSteps
  <2>2. QED BY <1>1, <2>1, Zenon
<1> DEFINE T == {i \in Nat : i \in 0..n => e[i] = f[i]}
<1>4. 0 \in T
  BY <1>2, <1>3
<1>5. ASSUME NEW i \in T PROVE i + 1 \in T
  <2>1. CASE i + 1 \in 0..n
    <3>1. i \in 0..(n - 1) /\ i \in 0..n
      BY <1>1, <2>1
    <3>2. e[i] = f[i]
      BY <3>1
    <3>3. e[i + 1] = e[i] \o ss[i + 1]
      BY <1>1, <1>3, <3>1
    <3>4. f[i + 1] = f[i] \o ss[i + 1]
      BY <1>2, <3>1
    <3>5. e[i + 1] = f[i + 1]
      BY <3>2, <3>3, <3>4, Zenon
    <3>6. QED BY <3>5
  <2>2. QED BY <2>1
<1>6. T = Nat
  <2>1. T \in SUBSET Nat
    OBVIOUS
  <2> HIDE DEF T
  <2>2. QED BY <1>4, <1>5, <2>1, NatSet
<1>7. n \in 0..n /\ e[n] = f[n]
  <2>1. n \in T
    <3> HIDE DEF T
    <3>1. QED BY <1>1, <1>6
  <2>2. n \in 0..n
    BY <1>1
  <2>3. QED BY <2>1, <2>2
<1>8. e[n + 1] = e[n] \o s
  BY <1>1, <1>3, <1>7
<1>9. QED BY <1>2, <1>3, <1>7, <1>8 DEF more

\* One sequence more comes first.
LEMMA FlattenCons ==
    ASSUME NEW S, NEW s \in Seq(S)
    PROVE  \A ss, tt \in Seq(Seq(S)) :
              /\ Len(tt) = Len(ss) + 1
              /\ tt[1] = s
              /\ \A i \in 1..Len(ss) : tt[i + 1] = ss[i]
              => FlattenSeq(tt) = s \o FlattenSeq(ss)
<1>0. \A x, y \in Seq(S) : (s \o x) \o y = s \o (x \o y)
  BY ConcatAssociative
<1> SUFFICES ASSUME NEW ss \in Seq(Seq(S)), NEW tt \in Seq(Seq(S)),
                    Len(tt) = Len(ss) + 1, tt[1] = s,
                    \A i \in 1..Len(ss) : tt[i + 1] = ss[i]
             PROVE  FlattenSeq(tt) = s \o FlattenSeq(ss)
  OBVIOUS
<1> DEFINE n == Len(ss)
<1>1. n \in Nat /\ n + 1 = Len(tt) /\ Len(tt) - 1 = n /\ 0 \in 0..n
  OBVIOUS
<1>2. PICK f : /\ f[0] = <<>>
               /\ \A i \in 0..n : f[i] \in Seq(S)
               /\ \A i \in 0..(n - 1) : f[i + 1] = f[i] \o ss[i + 1]
               /\ FlattenSeq(ss) = f[n]
  BY FlattenSteps
<1>3. PICK e : /\ e[0] = <<>>
               /\ \A i \in 0..n : e[i + 1] = e[i] \o tt[i + 1]
               /\ FlattenSeq(tt) = e[n + 1]
  <2>1. PICK e : /\ e[0] = <<>>
                 /\ \A i \in 0..(Len(tt) - 1) : e[i + 1] = e[i] \o tt[i + 1]
                 /\ FlattenSeq(tt) = e[Len(tt)]
    BY <1>1, FlattenSteps
  <2>2. QED BY <1>1, <2>1, Zenon
<1> DEFINE T == {i \in Nat : i \in 0..n => e[i + 1] = s \o f[i]}
<1>4. 0 \in T
  <2>1. e[0 + 1] = e[0] \o tt[0 + 1]
    BY <1>1, <1>3
  <2>2. e[0 + 1] = <<>> \o s
    BY <1>3, <2>1
  <2>3. e[0 + 1] = s \o f[0]
    BY <1>2, <2>2, ConcatEmptySeq
  <2>4. QED BY <2>3
<1>5. ASSUME NEW i \in T PROVE i + 1 \in T
  <2>1. i \in Nat /\ i + 1 \in Nat /\ (i \in 0..n => e[i + 1] = s \o f[i])
    OBVIOUS
  <2> HIDE DEF T
  <2>2. ASSUME i + 1 \in 0..n PROVE e[(i + 1) + 1] = s \o f[i + 1]
    <3>1. i \in 0..(n - 1) /\ i \in 0..n /\ i + 1 \in 1..n
      BY <1>1, <2>1, <2>2
    <3>2. e[i + 1] = s \o f[i]
      BY <2>1, <3>1
    <3>3. e[(i + 1) + 1] = e[i + 1] \o ss[i + 1]
      <4>1. e[(i + 1) + 1] = e[i + 1] \o tt[(i + 1) + 1]
        BY <1>3, <2>2
      <4>2. tt[(i + 1) + 1] = ss[i + 1]
        BY <3>1
      <4>3. QED BY <4>1, <4>2
    <3>4. f[i + 1] = f[i] \o ss[i + 1]
      BY <1>2, <3>1
    <3>5. f[i] \in Seq(S) /\ ss[i + 1] \in Seq(S)
      BY <1>1, <1>2, <3>1
    <3>6. (s \o f[i]) \o ss[i + 1] = s \o (f[i] \o ss[i + 1])
      BY <1>0, <3>5, Zenon
    <3>7. QED BY <3>2, <3>3, <3>4, <3>6, Zenon
  <2>3. QED BY <2>1, <2>2, Zenon DEF T
<1>6. T = Nat
  <2>1. T \in SUBSET Nat
    OBVIOUS
  <2> HIDE DEF T
  <2>2. QED BY <1>4, <1>5, <2>1, NatSet
<1>7. e[n + 1] = s \o f[n]
  <2>1. n \in T
    <3> HIDE DEF T
    <3>1. QED BY <1>1, <1>6
  <2>2. n \in 0..n
    BY <1>1
  <2>3. QED BY <2>1, <2>2
<1>8. QED BY <1>2, <1>3, <1>7

-----------------------------------------------------------------------------
(* The rows that the service has.                                           *)

LEMMA PartType ==
    ASSUME TypeOK, NEW i \in 1..Len(lens)
    PROVE  /\ Part(i) \in Seq(Row)
           /\ Len(Part(i)) = lens[i]
           /\ \A j \in 1..lens[i] : Part(i)[j][1] = i
           /\ lens[i] <= MaxLen
<1>1. PICK n \in 1..MaxParts : lens \in [1..n -> 0..MaxLen]
  BY DEF TypeOK
<1>2. Len(lens) = n /\ i \in 1..MaxParts /\ lens[i] \in 0..MaxLen
  BY <1>1, StreamAssumption
<1>3. ASSUME NEW j \in 1..lens[i] PROVE <<i, j>> \in Row
  BY <1>2, <1>3, StreamAssumption DEF Row
<1>4. lens[i] \in Nat /\ Part(i) \in [1..lens[i] -> Row]
  BY <1>2, <1>3, StreamAssumption DEF Part
<1>5. Part(i) \in Seq(Row) /\ Len(Part(i)) = lens[i]
  BY <1>4
<1>6. QED BY <1>2, <1>5, StreamAssumption DEF Part

\* What is still to come from a partition on is that partition and what comes after it.
LEMMA FromSteps ==
    ASSUME TypeOK
    PROVE  /\ Len(lens) \in Nat \ {0}
           /\ From(Len(lens) + 1) = <<>>
           /\ \A i \in 1..(Len(lens) + 1) : From(i) \in Seq(Row)
           /\ \A i \in 1..Len(lens) : From(i) = Part(i) \o From(i + 1)
<1> DEFINE n == Len(lens)
           Parts(i) == [k \in 1..(n + 1 - i) |-> Part(i + k - 1)]
<1>1. n \in Nat \ {0}
  <2>1. PICK m \in 1..MaxParts : lens \in [1..m -> 0..MaxLen]
    BY DEF TypeOK
  <2>2. QED BY <2>1, StreamAssumption
<1>2. ASSUME NEW i \in 1..(n + 1)
      PROVE  Parts(i) \in Seq(Seq(Row)) /\ Len(Parts(i)) = n + 1 - i
  <2>1. n + 1 - i \in Nat
    BY <1>1
  <2>2. ASSUME NEW k \in 1..(n + 1 - i) PROVE Part(i + k - 1) \in Seq(Row)
    <3>1. i + k - 1 \in 1..n
      BY <1>1
    <3>2. QED BY <3>1, PartType
  <2>3. Parts(i) \in [1..(n + 1 - i) -> Seq(Row)]
    BY <2>2
  <2> HIDE DEF Parts
  <2>4. QED BY <2>1, <2>3
<1>3. From(n + 1) = <<>>
  <2>1. n + 1 \in 1..(n + 1) /\ n + 1 - (n + 1) = 0
    BY <1>1
  <2>2. Parts(n + 1) = <<>>
    <3> HIDE DEF Parts
    <3>1. QED BY <1>2, <2>1
  <2>3. QED BY <2>2, FlattenEmpty DEF From
<1>4. ASSUME NEW i \in 1..(n + 1) PROVE From(i) \in Seq(Row)
  BY <1>2, FlattenType DEF From
<1>5. ASSUME NEW i \in 1..n PROVE From(i) = Part(i) \o From(i + 1)
  <2>1. i \in 1..(n + 1) /\ i + 1 \in 1..(n + 1) /\ n + 1 - i = (n + 1 - (i + 1)) + 1
    BY <1>1
  <2>2. Part(i) \in Seq(Row)
    BY PartType
  <2>3. /\ Parts(i) \in Seq(Seq(Row)) /\ Parts(i + 1) \in Seq(Seq(Row))
        /\ Len(Parts(i)) = Len(Parts(i + 1)) + 1
        /\ Len(Parts(i + 1)) = n + 1 - (i + 1)
    BY <1>2, <2>1
  <2>4. Parts(i)[1] = Part(i)
    <3>1. 1 \in 1..(n + 1 - i) /\ i + 1 - 1 = i
      BY <1>1
    <3>2. QED BY <3>1
  <2>5. ASSUME NEW k \in 1..(n + 1 - (i + 1)) PROVE Parts(i)[k + 1] = Parts(i + 1)[k]
    <3>1. k + 1 \in 1..(n + 1 - i) /\ i + (k + 1) - 1 = (i + 1) + k - 1
      BY <1>1
    <3>2. QED BY <3>1
  <2> HIDE DEF Parts
  <2>6. FlattenSeq(Parts(i)) = Part(i) \o FlattenSeq(Parts(i + 1))
    <3>1. \A ss, tt \in Seq(Seq(Row)) :
             /\ Len(tt) = Len(ss) + 1
             /\ tt[1] = Part(i)
             /\ \A k \in 1..Len(ss) : tt[k + 1] = ss[k]
             => FlattenSeq(tt) = Part(i) \o FlattenSeq(ss)
      BY <2>2, FlattenCons
    <3>2. \A k \in 1..Len(Parts(i + 1)) : Parts(i)[k + 1] = Parts(i + 1)[k]
      BY <2>3, <2>5
    <3>3. QED BY <2>3, <2>4, <3>1, <3>2, Zenon
  <2>7. From(i) = FlattenSeq(Parts(i)) /\ From(i + 1) = FlattenSeq(Parts(i + 1))
    BY DEF From, Parts
  <2>8. QED BY <2>6, <2>7
<1>6. QED BY <1>1, <1>3, <1>4, <1>5

-----------------------------------------------------------------------------
(* Rows that move from one place to the next.                               *)

\* The rows that are left are the next one and the ones behind it.
LEMMA NextRow ==
    ASSUME NEW S, NEW d \in Seq(S), NEW k \in Nat, k < Len(d)
    PROVE  /\ d[k + 1] \in S
           /\ SubSeq(d, k + 1, Len(d)) = <<d[k + 1]>> \o SubSeq(d, k + 2, Len(d))
           /\ SubSeq(d, k + 2, Len(d)) \in Seq(S)
           /\ SubSeq(d, k + 1, Len(d)) \in Seq(S)
<1>1. k + 1 \in 1..Len(d) /\ Len(d) \in Nat
  OBVIOUS
<1>2. d[k + 1] \in S
  BY <1>1
<1>3. SubSeq(d, k + 2, Len(d)) \in Seq(S) /\ SubSeq(d, k + 1, Len(d)) \in Seq(S)
  BY <1>1
<1>4. SubSeq(d, k + 1, Len(d)) = <<d[k + 1]>> \o SubSeq(d, k + 2, Len(d))
  BY <1>1, <1>2, <1>3
<1>5. QED BY <1>2, <1>3, <1>4

LEMMA RowsAssociate ==
    \A s, x, y \in Seq(Row) : (s \o x) \o y = s \o (x \o y)
BY ConcatAssociative

LEMMA RowsTogether ==
    \A s, x \in Seq(Row) : s \o x \in Seq(Row)
BY ConcatProperties

\* Rows may be added to what is collected before they are handed out.
LEMMA RowMoves ==
    \A h, b, r, t, f \in Seq(Row) :
       (h \o b) \o ((r \o t) \o f) = (h \o (b \o r)) \o (t \o f)
<1>1. TAKE h, b, r, t, f \in Seq(Row)
<1>2. (r \o t) \o f = r \o (t \o f)
  <2>1. \A x, y \in Seq(Row) : (r \o x) \o y = r \o (x \o y)
    <3>1. r \in Seq(Row)
      BY <1>1
    <3>2. QED BY <3>1, RowsAssociate, Zenon
  <2>2. t \in Seq(Row) /\ f \in Seq(Row)
    BY <1>1
  <2>3. QED BY <2>1, <2>2, Zenon
<1>3. h \o b \in Seq(Row) /\ t \o f \in Seq(Row)
  BY <1>1, RowsTogether, Zenon
<1>4. ((h \o b) \o r) \o (t \o f) = (h \o b) \o (r \o (t \o f))
  <2>1. \A m, v \in Seq(Row) : (m \o r) \o v = m \o (r \o v)
    <3>1. r \in Seq(Row)
      BY <1>1
    <3>2. QED BY <3>1, RowsAssociate, Zenon
  <2>2. QED BY <1>3, <2>1, Zenon
<1>5. (h \o b) \o r = h \o (b \o r)
  <2>1. \A x, y \in Seq(Row) : (h \o x) \o y = h \o (x \o y)
    <3>1. h \in Seq(Row)
      BY <1>1
    <3>2. QED BY <3>1, RowsAssociate, Zenon
  <2>2. b \in Seq(Row) /\ r \in Seq(Row)
    BY <1>1
  <2>3. QED BY <2>1, <2>2, Zenon
<1>6. QED BY <1>2, <1>4, <1>5, Zenon

\* Rows may be put to what is collected all at once.
LEMMA RowsJoin ==
    \A h, b, r, f \in Seq(Row) : (h \o (b \o r)) \o f = (h \o b) \o (r \o f)
<1>1. TAKE h, b, r, f \in Seq(Row)
<1>2. (h \o b) \o r = h \o (b \o r)
  <2>1. \A x, y \in Seq(Row) : (h \o x) \o y = h \o (x \o y)
    BY <1>1, RowsAssociate, Zenon
  <2>2. QED BY <1>1, <2>1, Zenon
<1>3. h \o b \in Seq(Row)
  BY <1>1, RowsTogether, Zenon
<1>4. ((h \o b) \o r) \o f = (h \o b) \o (r \o f)
  <2>1. \A m, v \in Seq(Row) : (m \o r) \o v = m \o (r \o v)
    BY <1>1, RowsAssociate, Zenon
  <2>2. QED BY <1>1, <1>3, <2>1, Zenon
<1>5. QED BY <1>2, <1>4, Zenon

LEMMA PrefixOfConcat ==
    ASSUME NEW S, NEW s \in Seq(S), NEW t \in Seq(S)
    PROVE  IsPrefix(s, s \o t)
<1>1. s \o t \in Seq(S) /\ Len(s) <= Len(s \o t)
  BY ConcatProperties
<1>2. SubSeq(s, 1, Len(s)) = SubSeq(s \o t, 1, Len(s))
  <2>1. Len(s) \in Nat /\ \A i \in 1..Len(s) : (s \o t)[i] = s[i]
    BY ConcatProperties
  <2>2. QED BY <1>1, <2>1
<1>3. QED BY <1>1, <1>2 DEF IsPrefix

-----------------------------------------------------------------------------
(* The inductive invariant holds at first and after every step.             *)

LEMMA InvInit == Init => Inv
<1> SUFFICES ASSUME Init PROVE Inv
  OBVIOUS
<1>1. TypeOK
  BY StreamAssumption DEF Init, TypeOK
<1>2. PlaceInv /\ PartitionReleased /\ BatchesFull
  BY StreamAssumption DEF Init, PlaceInv, PartitionReleased, BatchesFull, Generators
<1>3. RowsConserved
  <2>1. Handed = <<>> /\ batch = <<>> /\ Rest = From(1)
    BY FlattenEmpty DEF Init, Handed, Rest
  <2>2. From(1) \in Seq(Row)
    BY <1>1, FromSteps
  <2>3. <<>> \o <<>> \o From(1) = From(1)
    BY <2>2, ConcatEmptySeq
  <2>4. pc # "over" /\ AllRows = From(1)
    BY DEF Init, AllRows
  <2>5. QED BY <2>1, <2>3, <2>4 DEF RowsConserved
<1>4. NothingTruncated
  BY DEF Init, NothingTruncated
<1>5. QED BY <1>1, <1>2, <1>3, <1>4 DEF Inv

\* What a partition and a list grown by a row are.
LEMMA Types ==
    ASSUME TypeOK
    PROVE  /\ index \in Nat /\ offset \in Nat /\ Len(lens) \in Nat
           /\ Part(index) \in Seq(Row) /\ Len(Part(index)) <= MaxLen
           /\ \A j \in 1..Len(Part(index)) : Part(index)[j][1] = index
           /\ offset < Len(data) => data[offset + 1] \in Row
<1>1. index \in 1..Len(lens) /\ data \in Seq(Row) /\ offset \in Nat
  BY StreamAssumption DEF TypeOK
<1>2. Len(lens) \in Nat
  BY FromSteps
<1>3. /\ Part(index) \in Seq(Row) /\ Len(Part(index)) = lens[index]
      /\ lens[index] <= MaxLen
      /\ \A j \in 1..lens[index] : Part(index)[j][1] = index
  BY <1>1, PartType
<1>4. offset < Len(data) => data[offset + 1] \in Row
  BY <1>1
<1>5. QED BY <1>1, <1>2, <1>3, <1>4

\* Of whichever kind a reply is, the rows kept are none or the partition's.
LEMMA OfReply ==
    ASSUME TypeOK, NEW part \in Received
    PROVE  /\ part \in Seq(Row) /\ Len(part) <= MaxLen
           /\ \A j \in 1..Len(part) : part[j][1] = index
           /\ Faithful => part = Part(index)
<1>1. CASE part = Part(index)
  BY <1>1, Types
<1>2. CASE surface \in Malformed \cap {"query"} /\ part = <<>>
  BY <1>2, StreamAssumption DEF Faithful
<1>3. QED BY <1>1, <1>2 DEF Received

\* A generator or a call that is left.
LEMMA Ended ==
    ASSUME TypeOK, NEW e \in {"complete", "failed", "closed"}, End(e)
    PROVE  /\ surface' = surface /\ lens' = lens /\ index' = index
           /\ pc' = "over" /\ ending' = e /\ data' = <<>> /\ offset' = 0
           /\ (batch' \in Seq(Row) /\ handed' \in Seq(Seq(Row))) => TypeOK'
<1>1. /\ surface' = surface /\ lens' = lens /\ index' = index
      /\ pc' = "over" /\ ending' = e /\ data' = <<>> /\ offset' = 0
  BY DEF End, resultVars
<1>2. data' \in Seq(Row) /\ offset' \in 0..MaxLen
  BY <1>1, StreamAssumption
<1>3. QED BY <1>1, <1>2 DEF TypeOK

\* What a row does on each surface.
LEMMA Used ==
    ASSUME TypeOK, PlaceInv, UseRow, NEW row, row = data[offset + 1]
    PROVE  /\ row \in Row
           /\ surface' = surface /\ lens' = lens /\ index' = index /\ data' = data
           /\ ending' = ending /\ offset' = offset + 1 /\ offset < Len(data)
           /\ pc = "rows" /\ pc' \in {"rows", "held"}
           /\ pc' = "held" => surface \in Generators
           /\ \/ /\ surface \in {"stream", "export"}
                 /\ handed' = Append(handed, <<row>>) /\ batch' = batch
              \/ /\ surface = "batches" /\ Len(Append(batch, row)) = BatchSize
                 /\ handed' = Append(handed, Append(batch, row)) /\ batch' = <<>>
              \/ /\ surface = "batches" /\ Len(Append(batch, row)) # BatchSize
                 /\ handed' = handed /\ batch' = Append(batch, row) /\ pc' = "rows"
<1>1. /\ surface' = surface /\ lens' = lens /\ index' = index /\ data' = data
      /\ ending' = ending /\ offset' = offset + 1 /\ offset < Len(data) /\ pc = "rows"
  BY DEF UseRow, resultVars
<1>2. row \in Row
  BY <1>1, Types
<1>3. surface \in {"stream", "batches", "export"}
  <2>1. surface \in {"query", "stream", "batches", "export"}
    BY StreamAssumption DEF TypeOK
  <2>2. surface # "query"
    <3>1. ASSUME surface = "query" PROVE FALSE
      <4>1. offset = 0 /\ Len(data) = 0
        BY <3>1 DEF PlaceInv
      <4>2. QED BY <1>1, <4>1
    <3>2. QED BY <3>1
  <2>3. QED BY <2>1, <2>2
<1>4. CASE surface = "stream"
  <2>1. handed' = Append(handed, <<row>>) /\ batch' = batch /\ pc' = "held"
    BY <1>4 DEF UseRow, Hand
  <2>2. QED BY <1>1, <1>2, <1>4, <2>1 DEF Generators
<1>5. CASE surface = "export"
  <2>1. handed' = Append(handed, <<row>>) /\ batch' = batch /\ pc' = pc
    BY <1>5 DEF UseRow, Hand
  <2>2. QED BY <1>1, <1>2, <1>5, <2>1 DEF Generators
<1>6. CASE surface = "batches"
  <2>1. YieldBatch(row)
    BY <1>6 DEF UseRow
  <2>2. QED BY <1>1, <1>2, <1>6, <2>1 DEF YieldBatch, Hand, Generators
<1>7. QED BY <1>3, <1>4, <1>5, <1>6

\* What the end of the last partition does on each surface.
LEMMA Exhausted ==
    ASSUME AllUsed
    PROVE  /\ pc = "rows" /\ offset = Len(data) /\ index >= Len(lens)
           /\ surface' = surface /\ lens' = lens /\ index' = index
           /\ \/ /\ surface = "query" /\ End("complete")
                 /\ handed' = Append(handed, batch) /\ batch' = <<>>
              \/ surface = "query" /\ Fail
              \/ /\ surface = "batches" /\ batch # <<>>
                 /\ handed' = Append(handed, batch) /\ batch' = <<>>
                 /\ pc' = "last" /\ data' = <<>> /\ offset' = 0 /\ ending' = ending
              \/ /\ surface # "query" /\ ~(surface = "batches" /\ batch # <<>>)
                 /\ End("complete") /\ batch' = batch /\ handed' = handed
<1>1. pc = "rows" /\ offset = Len(data) /\ index >= Len(lens)
  BY DEF AllUsed, PartUsed, partition_count
<1>2. CASE surface = "query"
  <2>1. \/ End("complete") /\ Hand(batch) /\ batch' = <<>>
        \/ Fail
    BY <1>2 DEF AllUsed
  <2>2. QED BY <1>1, <1>2, <2>1 DEF Hand, End, Fail, resultVars
<1>3. CASE surface = "batches" /\ batch # <<>>
  <2>1. /\ Hand(batch) /\ batch' = <<>> /\ pc' = "last" /\ data' = <<>> /\ offset' = 0
        /\ UNCHANGED <<resultVars, index, ending>>
    BY <1>3 DEF AllUsed
  <2>2. QED BY <1>1, <1>3, <2>1 DEF Hand, resultVars
<1>4. CASE surface # "query" /\ ~(surface = "batches" /\ batch # <<>>)
  <2>1. End("complete") /\ batch' = batch /\ handed' = handed
    BY <1>4 DEF AllUsed
  <2>2. QED BY <1>1, <1>4, <2>1 DEF End, resultVars
<1>5. QED BY <1>2, <1>3, <1>4

LEMMA TypeStep == TypeOK /\ PlaceInv /\ [Next]_vars => TypeOK'
<1> SUFFICES ASSUME TypeOK, PlaceInv, [Next]_vars PROVE TypeOK'
  OBVIOUS
<1> USE DEF resultVars, cursorVars
<1>0. /\ index \in Nat /\ Len(lens) \in Nat /\ 1 <= Len(lens) /\ 0 \in 0..MaxLen
      /\ offset \in Nat /\ MaxLen \in Nat /\ <<>> \in Seq(Row)
      /\ data \in Seq(Row) /\ batch \in Seq(Row) /\ handed \in Seq(Seq(Row))
  BY Types, StreamAssumption DEF TypeOK
<1>1. CASE Begin
  BY <1>1 DEF TypeOK, Begin
<1>2. CASE Arrives
  <2>1. data' \in Seq(Row)
    BY <1>2, OfReply DEF Arrives
  <2>2. QED BY <1>0, <1>2, <2>1 DEF TypeOK, Arrives
<1>3. CASE Fail
  BY <1>0, <1>3, Ended DEF Fail
<1>4. CASE UseRow
  <2> DEFINE row == data[offset + 1]
  <2>1. row \in Row /\ Append(batch, row) \in Seq(Row) /\ <<row>> \in Seq(Row)
    BY <1>0, <1>4, Used
  <2> HIDE DEF row
  <2>2. /\ Append(handed, <<row>>) \in Seq(Seq(Row))
        /\ Append(handed, Append(batch, row)) \in Seq(Seq(Row))
    BY <1>0, <2>1
  <2>3. offset < Len(data) /\ Len(data) <= MaxLen /\ Len(data) \in Nat
    BY <1>0, <1>4, Used DEF PlaceInv
  <2>4. offset + 1 \in 0..MaxLen
    BY <1>0, <2>3
  <2>5. batch' \in Seq(Row) /\ handed' \in Seq(Seq(Row))
    <3>1. \/ handed' = Append(handed, <<row>>) /\ batch' = batch
          \/ handed' = Append(handed, Append(batch, row)) /\ batch' = <<>>
          \/ handed' = handed /\ batch' = Append(batch, row)
      BY <1>4, Used DEF row
    <3>2. QED BY <1>0, <2>1, <2>2, <3>1, Zenon
  <2>6. /\ surface' = surface /\ lens' = lens /\ index' = index /\ data' = data
        /\ ending' = ending /\ offset' \in 0..MaxLen /\ pc' \in {"rows", "held"}
    BY <1>4, <2>4, Used DEF row
  <2>7. QED BY <2>5, <2>6 DEF TypeOK
<1>5. CASE NextPartition
  <2>1. index' \in 1..Len(lens)
    BY <1>0, <1>5 DEF NextPartition, partition_count
  <2>2. QED BY <1>0, <1>5, <2>1 DEF TypeOK, NextPartition
<1>6. CASE AllUsed
  <2>1. Append(handed, batch) \in Seq(Seq(Row))
    BY <1>0
  <2>2. CASE End("complete")
    <3>1. batch' \in Seq(Row) /\ handed' \in Seq(Seq(Row))
      BY <1>0, <1>6, <2>1, Exhausted DEF Fail
    <3>2. QED BY <2>2, <3>1, Ended
  <2>3. CASE Fail
    BY <1>3, <2>3
  <2>4. CASE /\ handed' = Append(handed, batch) /\ batch' = <<>>
             /\ pc' = "last" /\ data' = <<>> /\ offset' = 0 /\ ending' = ending
    BY <1>0, <1>6, <2>1, <2>4, Exhausted DEF TypeOK
  <2>5. QED BY <1>6, <2>2, <2>3, <2>4, Exhausted
<1>7. CASE Resume
  <2>1. CASE pc = "held"
    BY <1>7, <2>1 DEF TypeOK, Resume
  <2>2. CASE pc = "last"
    BY <1>0, <1>7, <2>2, Ended DEF Resume
  <2>3. QED BY <1>7, <2>1, <2>2 DEF Resume
<1>8. CASE Close
  BY <1>0, <1>8, Ended DEF Close
<1>9. CASE UNCHANGED vars
  BY <1>9 DEF TypeOK, vars
<1>10. CASE Extend
  <2>1. PICK part \in Received : batch' = batch \o part
    BY <1>10 DEF Extend
  <2>2. part \in Seq(Row)
    BY OfReply
  <2>3. batch' \in Seq(Row)
    BY <1>0, <2>1, <2>2, RowsTogether
  <2>4. QED BY <1>0, <1>10, <2>3 DEF TypeOK, Extend
<1>11. QED BY <1>1, <1>2, <1>3, <1>4, <1>5, <1>6, <1>7, <1>8, <1>9, <1>10
           DEF Next, RequestFails, RowFails

LEMMA PlaceStep == TypeOK /\ PlaceInv /\ [Next]_vars => PlaceInv'
<1> SUFFICES ASSUME TypeOK, PlaceInv, [Next]_vars PROVE PlaceInv'
  OBVIOUS
<1> USE DEF resultVars, cursorVars
<1>0. /\ index \in Nat /\ Len(lens) \in Nat /\ 1 <= Len(lens) /\ index <= Len(lens)
      /\ offset \in Nat /\ MaxLen \in Nat /\ BatchSize \in Nat /\ 0 < BatchSize
      /\ Len(<<>>) = 0
  BY Types, StreamAssumption DEF TypeOK
<1>1. CASE Begin
  BY <1>1 DEF PlaceInv, Begin
<1>2. CASE Arrives
  <2>1. data' \in Seq(Row) /\ Len(data') <= MaxLen
    BY <1>2, OfReply DEF Arrives
  <2>2. 0 <= Len(data')
    BY <2>1
  <2>3. QED BY <1>2, <2>1, <2>2 DEF PlaceInv, Arrives
<1>3. CASE Fail
  BY <1>0, <1>3, Ended DEF Fail, PlaceInv
<1>4. CASE UseRow
  <2> DEFINE row == data[offset + 1]
  <2>1. /\ surface' = surface /\ lens' = lens /\ index' = index /\ data' = data
        /\ ending' = ending /\ offset' = offset + 1 /\ offset < Len(data)
        /\ pc = "rows" /\ pc' \in {"rows", "held"}
        /\ pc' = "held" => surface \in Generators
    BY <1>4, Used
  <2>2. \/ surface \in {"stream", "export"} /\ batch' = batch
        \/ surface = "batches" /\ batch' = <<>>
        \/ /\ surface = "batches" /\ Len(Append(batch, row)) # BatchSize
           /\ batch' = Append(batch, row)
    BY <1>4, Used
  <2> HIDE DEF row
  <2>3. offset + 1 <= Len(data) /\ Len(data) <= MaxLen
    <3>1. Len(data) \in Nat
      BY DEF TypeOK
    <3>2. QED BY <1>0, <2>1, <3>1 DEF PlaceInv
  <2>4. surface = "batches" => Len(batch') < BatchSize
    <3>1. batch \in Seq(Row) /\ Len(batch) \in Nat /\ Len(Append(batch, row)) = Len(batch) + 1
      BY DEF TypeOK
    <3>2. surface = "batches" => Len(batch) < BatchSize
      BY DEF PlaceInv
    <3>3. QED BY <1>0, <2>2, <3>1, <3>2
  <2>5. surface \in {"stream", "export"} => batch' = <<>>
    BY <2>2 DEF PlaceInv
  <2>6. QED BY <2>1, <2>3, <2>4, <2>5 DEF PlaceInv
<1>5. CASE NextPartition
  BY <1>0, <1>5 DEF NextPartition, PartUsed, partition_count, PlaceInv
<1>6. CASE AllUsed
  <2>1. CASE End("complete")
    <3>1. /\ surface' = surface /\ pc' = "over" /\ ending' = "complete"
          /\ data' = <<>> /\ offset' = 0
      BY <2>1, Ended
    <3>2. batch' = batch \/ batch' = <<>>
      BY <1>6, Exhausted DEF Fail
    <3>3. QED BY <1>0, <3>1, <3>2 DEF PlaceInv
  <2>2. CASE Fail
    BY <1>3, <2>2
  <2>3. CASE /\ surface = "batches" /\ batch' = <<>>
             /\ pc' = "last" /\ data' = <<>> /\ offset' = 0 /\ ending' = ending
    <3>1. /\ surface' = surface /\ lens' = lens /\ index' = index
          /\ index = Len(lens) /\ pc = "rows"
      BY <1>0, <1>6, Exhausted
    <3>2. QED BY <1>0, <2>3, <3>1 DEF PlaceInv
  <2>4. QED BY <1>6, <2>1, <2>2, <2>3, Exhausted
<1>7. CASE Resume
  <2>1. CASE pc = "held"
    BY <1>7, <2>1 DEF PlaceInv, Resume
  <2>2. CASE pc = "last"
    BY <1>0, <1>7, <2>2, Ended DEF PlaceInv, Resume
  <2>3. QED BY <1>7, <2>1, <2>2 DEF Resume
<1>8. CASE Close
  BY <1>0, <1>8, Ended DEF Close, PlaceInv
<1>9. CASE UNCHANGED vars
  BY <1>9 DEF PlaceInv, vars
<1>10. CASE Extend
  BY <1>0, <1>10 DEF PlaceInv, Extend
<1>11. QED BY <1>1, <1>2, <1>3, <1>4, <1>5, <1>6, <1>7, <1>8, <1>9, <1>10
           DEF Next, RequestFails, RowFails

LEMMA ReleasedStep ==
    TypeOK /\ PlaceInv /\ PartitionReleased /\ [Next]_vars => PartitionReleased'
<1> SUFFICES ASSUME TypeOK, PlaceInv, PartitionReleased, [Next]_vars
             PROVE  PartitionReleased'
  OBVIOUS
<1> USE DEF resultVars, cursorVars
<1>1. CASE data' = <<>>
  BY <1>1 DEF PartitionReleased
<1>2. CASE Begin
  BY <1>2 DEF PartitionReleased, Begin
<1>3. CASE Arrives
  <2>1. \A j \in 1..Len(data') : data'[j][1] = index
    BY <1>3, OfReply DEF Arrives
  <2>2. QED BY <1>3, <2>1 DEF PartitionReleased, Arrives
<1>4. CASE UseRow
  BY <1>4, Used DEF PartitionReleased
<1>5. CASE Resume /\ pc = "held"
  BY <1>5 DEF PartitionReleased, Resume
<1>6. CASE UNCHANGED vars
  BY <1>6 DEF PartitionReleased, vars
<1>7. CASE Fail
  BY <1>1, <1>7, Ended DEF Fail
<1>8. CASE NextPartition
  BY <1>1, <1>8 DEF NextPartition
<1>9. CASE AllUsed
  BY <1>1, <1>7, <1>9, Exhausted, Ended
<1>10. CASE Resume /\ pc = "last"
  BY <1>1, <1>10, Ended DEF Resume
<1>11. CASE Close
  BY <1>1, <1>11, Ended DEF Close
<1>12. CASE Resume
  BY <1>5, <1>10, <1>12 DEF Resume
<1>13. CASE Extend
  BY <1>13 DEF PartitionReleased, Extend
<1>14. QED BY <1>2, <1>3, <1>4, <1>6, <1>7, <1>8, <1>9, <1>11, <1>12, <1>13
           DEF Next, RequestFails, RowFails

\* A list that is handed out when all before it are full.
LEMMA FullAppended ==
    ASSUME TypeOK, NEW g \in Seq(Row),
           \A i \in 1..Len(handed) : Len(handed[i]) = BatchSize,
           Len(g) \in 1..BatchSize, NEW more, more = Append(handed, g)
    PROVE  /\ \A i \in 1..Len(more) : Len(more[i]) \in 1..BatchSize
           /\ \A i \in 1..(Len(more) - 1) : Len(more[i]) = BatchSize
           /\ Len(g) = BatchSize => \A i \in 1..Len(more) : Len(more[i]) = BatchSize
<1>1. /\ handed \in Seq(Seq(Row)) /\ Len(handed) \in Nat /\ BatchSize \in Nat \ {0}
  BY StreamAssumption DEF TypeOK
<1>2. /\ Len(more) = Len(handed) + 1 /\ Len(more) - 1 = Len(handed)
      /\ more[Len(handed) + 1] = g
      /\ \A i \in 1..Len(handed) : more[i] = handed[i]
  BY <1>1
<1>3. \A i \in 1..Len(handed) : Len(more[i]) = BatchSize
  BY <1>2
<1>4. BatchSize \in 1..BatchSize
  BY <1>1
<1>5. \A i \in 1..Len(more) : i \in 1..Len(handed) \/ i = Len(handed) + 1
  BY <1>1, <1>2
<1>6. \A i \in 1..Len(more) : Len(more[i]) \in 1..BatchSize
  BY <1>2, <1>3, <1>4, <1>5
<1>7. Len(g) = BatchSize => \A i \in 1..Len(more) : Len(more[i]) = BatchSize
  BY <1>2, <1>3, <1>5
<1>8. QED BY <1>2, <1>3, <1>6, <1>7

LEMMA BatchesStep ==
    TypeOK /\ PlaceInv /\ BatchesFull /\ [Next]_vars => BatchesFull'
<1> SUFFICES ASSUME TypeOK, PlaceInv, BatchesFull, [Next]_vars, surface' = "batches"
             PROVE  BatchesFull'
  BY DEF BatchesFull
<1> USE DEF resultVars, cursorVars
<1>1. CASE /\ surface' = surface /\ handed' = handed
           /\ pc' \in {"held", "rows", "get"} => pc \in {"held", "rows", "get"}
  BY <1>1 DEF BatchesFull
<1>2. CASE Begin
  BY <1>2, <1>1 DEF Begin
<1>3. CASE Arrives
  <2>1. CASE pc = "execute"
    <3>1. surface' = surface /\ handed' = handed /\ handed = <<>>
      BY <1>3, <2>1 DEF Arrives, PlaceInv
    <3>2. QED BY <3>1 DEF BatchesFull
  <2>2. CASE pc = "get"
    BY <1>1, <1>3, <2>2 DEF Arrives
  <2>3. QED BY <1>3, <2>1, <2>2 DEF Arrives
<1>4. CASE Fail
  BY <1>1, <1>4, Ended DEF Fail
<1>5. CASE UseRow
  <2> DEFINE row == data[offset + 1]
             grown == Append(batch, row)
  <2>1. /\ surface' = surface /\ surface = "batches" /\ row \in Row
        /\ pc = "rows" /\ pc' \in {"rows", "held"}
        /\ \/ Len(grown) = BatchSize /\ handed' = Append(handed, grown)
           \/ handed' = handed
    BY <1>5, Used
  <2>2. CASE handed' = handed
    BY <1>1, <2>1, <2>2
  <2>3. CASE Len(grown) = BatchSize /\ handed' = Append(handed, grown)
    <3>1. grown \in Seq(Row)
      BY <2>1 DEF TypeOK
    <3>2. \A i \in 1..Len(handed) : Len(handed[i]) = BatchSize
      BY <2>1 DEF BatchesFull
    <3>3. Len(grown) \in 1..BatchSize
      BY <2>3, StreamAssumption
    <3> HIDE DEF grown
    <3>4. QED BY <2>3, <3>1, <3>2, <3>3, FullAppended DEF BatchesFull
  <2>4. QED BY <2>1, <2>2, <2>3
<1>6. CASE NextPartition
  BY <1>1, <1>6 DEF NextPartition, PartUsed
<1>7. CASE AllUsed
  <2>1. surface = "batches" /\ surface' = surface /\ pc = "rows"
    BY <1>7, Exhausted
  <2>2. CASE handed' = handed
    BY <1>1, <2>1, <2>2
  <2>3. CASE batch # <<>> /\ handed' = Append(handed, batch) /\ pc' = "last"
    <3>1. batch \in Seq(Row)
      BY DEF TypeOK
    <3>2. \A i \in 1..Len(handed) : Len(handed[i]) = BatchSize
      BY <2>1 DEF BatchesFull
    <3>3. Len(batch) \in 1..BatchSize
      <4>1. Len(batch) < BatchSize /\ BatchSize \in Nat
        BY <2>1, StreamAssumption DEF PlaceInv
      <4>2. Len(batch) \in Nat /\ Len(batch) # 0
        BY <2>3, <3>1
      <4>3. QED BY <4>1, <4>2
    <3>4. QED BY <2>3, <3>1, <3>2, <3>3, FullAppended DEF BatchesFull
  <2>4. QED BY <1>7, <2>1, <2>2, <2>3, Exhausted DEF Fail
<1>8. CASE Resume
  BY <1>1, <1>8, Ended DEF Resume
<1>9. CASE Close
  BY <1>1, <1>9, Ended DEF Close
<1>10. CASE UNCHANGED vars
  BY <1>1, <1>10 DEF vars
<1>11. CASE Extend
  BY <1>11 DEF Extend
<1>12. QED BY <1>2, <1>3, <1>4, <1>5, <1>6, <1>7, <1>8, <1>9, <1>10, <1>11
           DEF Next, RequestFails, RowFails

\* What is still to come depends on the result only.
LEMMA SameResult ==
    ASSUME lens' = lens
    PROVE  AllRows' = AllRows /\ \A i : From(i)' = From(i)
<1>1. ASSUME NEW i PROVE Part(i)' = Part(i)
  BY DEF Part
<1>2. ASSUME NEW i PROVE From(i)' = From(i)
  BY <1>1 DEF From
<1>3. QED BY <1>2 DEF AllRows

\* What is still to come, from where the cursor stands after a step.
LEMMA RestAfter ==
    ASSUME lens' = lens, NEW k, index' = k, NEW d, data' = d, NEW o, offset' = o
    PROVE  /\ pc' \in {"new", "execute", "get"} => Rest' = From(k)
           /\ pc' \in {"rows", "held", "last"} =>
                 Rest' = SubSeq(d, o + 1, Len(d)) \o From(k + 1)
<1>1. From(index)' = From(k)
  BY DEF From, Part
<1>2. From(index + 1)' = From(k + 1)
  BY DEF From, Part
<1>3. ASSUME pc' \in {"new", "execute", "get"} PROVE Rest' = From(k)
  BY <1>1, <1>3 DEF Rest
<1>4. ASSUME pc' \in {"rows", "held", "last"}
      PROVE  Rest' = SubSeq(d, o + 1, Len(d)) \o From(k + 1)
  <2>1. pc' \notin {"new", "execute", "get"} /\ pc' # "over"
    BY <1>4
  <2>2. Rest' = SubSeq(data', offset' + 1, Len(data')) \o From(index + 1)'
    BY <2>1 DEF Rest
  <2>3. QED BY <1>2, <2>2
<1>5. QED BY <1>3, <1>4

LEMMA RowTypes ==
    ASSUME TypeOK
    PROVE  /\ Handed \in Seq(Row) /\ batch \in Seq(Row) /\ AllRows \in Seq(Row)
           /\ From(index) \in Seq(Row) /\ From(index + 1) \in Seq(Row)
           /\ Rest \in Seq(Row)
<1>1. Handed \in Seq(Row) /\ batch \in Seq(Row)
  BY FlattenType DEF TypeOK, Handed
<1>2. /\ index \in 1..(Len(lens) + 1) /\ index + 1 \in 1..(Len(lens) + 1)
      /\ 1 \in 1..(Len(lens) + 1)
  BY FromSteps DEF TypeOK
<1>3. /\ From(index) \in Seq(Row) /\ From(index + 1) \in Seq(Row) /\ AllRows \in Seq(Row)
  BY <1>2, FromSteps DEF AllRows
<1>4. SubSeq(data, offset + 1, Len(data)) \in Seq(Row)
  <2>1. data \in Seq(Row) /\ offset \in Nat
    BY StreamAssumption DEF TypeOK
  <2>2. offset + 1 \in Nat /\ \A i \in (offset + 1)..Len(data) : i \in 1..Len(data)
    BY <2>1
  <2>3. QED BY <2>1, <2>2
<1>5. SubSeq(data, offset + 1, Len(data)) \o From(index + 1) \in Seq(Row)
  BY <1>3, <1>4, RowsTogether
<1>6. Rest \in Seq(Row)
  BY <1>3, <1>5 DEF Rest
<1>7. QED BY <1>1, <1>3, <1>6

\* What the caller has is an initial part of the result at every moment.
LEMMA HandedIsPrefix ==
    ASSUME TypeOK, RowsConserved
    PROVE  IsPrefix(Handed, AllRows)
<1>1. CASE pc = "over"
  BY <1>1 DEF RowsConserved
<1>2. CASE pc # "over"
  <2>1. Handed \in Seq(Row) /\ batch \in Seq(Row) /\ Rest \in Seq(Row)
    BY RowTypes
  <2>2. \A s, x, y \in Seq(Row) : (s \o x) \o y = s \o (x \o y)
    BY RowsAssociate
  <2>3. \A s, x \in Seq(Row) : s \o x \in Seq(Row)
    BY RowsTogether
  <2>4. (Handed \o batch) \o Rest = AllRows
    BY <1>2 DEF RowsConserved
  <2>5. Handed \o (batch \o Rest) = AllRows /\ batch \o Rest \in Seq(Row)
    <3>1. batch \o Rest \in Seq(Row)
      BY <2>1, <2>3, Zenon
    <3>2. (Handed \o batch) \o Rest = Handed \o (batch \o Rest)
      BY <2>1, <2>2, Zenon
    <3>3. QED BY <2>4, <3>1, <3>2, Zenon
  <2>6. \A s, t \in Seq(Row) : IsPrefix(s, s \o t)
    BY PrefixOfConcat
  <2>7. IsPrefix(Handed, Handed \o (batch \o Rest))
    BY <2>1, <2>5, <2>6, Zenon
  <2>8. QED BY <2>5, <2>7, Zenon
<1>3. QED BY <1>1, <1>2

LEMMA RowsStep ==
    /\ TypeOK /\ PlaceInv /\ RowsConserved /\ NothingTruncated /\ Faithful /\ [Next]_vars
    => RowsConserved' /\ NothingTruncated'
<1> SUFFICES ASSUME TypeOK, PlaceInv, RowsConserved, NothingTruncated, Faithful,
                    [Next]_vars
             PROVE  RowsConserved' /\ NothingTruncated'
  OBVIOUS
<1> USE DEF resultVars, cursorVars
<1>0. /\ Handed \in Seq(Row) /\ batch \in Seq(Row) /\ AllRows \in Seq(Row)
      /\ From(index) \in Seq(Row) /\ From(index + 1) \in Seq(Row)
  BY RowTypes
<1>1. CASE /\ lens' = lens /\ Handed' \o batch' \o Rest' = Handed \o batch \o Rest
           /\ pc # "over" /\ pc' # "over" /\ ending' = ending
  <2>1. AllRows' = AllRows /\ Handed \o batch \o Rest = AllRows
    BY <1>1, SameResult DEF RowsConserved
  <2>2. RowsConserved'
    BY <1>1, <2>1 DEF RowsConserved
  <2>3. ending' # "complete"
    BY <1>1 DEF PlaceInv
  <2>4. QED BY <2>2, <2>3 DEF NothingTruncated
<1>2. CASE /\ lens' = lens /\ handed' = handed /\ batch' = batch /\ Rest' = Rest
           /\ pc # "over" /\ pc' # "over" /\ ending' = ending
  <2>1. Handed' = Handed
    BY <1>2 DEF Handed
  <2>2. QED BY <1>1, <1>2, <2>1
\* It ends early.
<1>3. CASE /\ lens' = lens /\ handed' = handed
           /\ pc' = "over" /\ ending' \in {"failed", "closed"}
  <2>1. Handed' = Handed /\ AllRows' = AllRows /\ IsPrefix(Handed, AllRows)
    BY <1>3, SameResult, HandedIsPrefix DEF Handed
  <2>2. QED BY <1>3, <2>1 DEF RowsConserved, NothingTruncated
\* It ends with everything handed out.
<1>4. CASE /\ lens' = lens /\ Handed' = Handed \o batch /\ Rest = <<>>
           /\ pc # "over" /\ pc' = "over"
  <2>1. Handed \o batch \o <<>> = AllRows
    BY <1>4 DEF RowsConserved
  <2>2. Handed' = AllRows' /\ AllRows' \in Seq(Row)
    <3>1. Handed \o batch \in Seq(Row)
      BY <1>0, RowsTogether, Zenon
    <3>2. Handed \o batch \o <<>> = Handed \o batch
      BY <3>1, ConcatEmptySeq
    <3>3. QED BY <1>0, <1>4, <2>1, <3>2, SameResult
  <2>3. IsPrefix(Handed', AllRows')
    BY <2>2 DEF IsPrefix
  <2>4. QED BY <1>4, <2>2, <2>3 DEF RowsConserved, NothingTruncated
<1>5. CASE Begin
  <2>1. Rest' = From(index) /\ Rest = From(index)
    BY <1>5, RestAfter DEF Begin, Rest
  <2>2. QED BY <1>2, <1>5, <2>1 DEF Begin
<1>6. CASE Arrives
  <2>1. data' = Part(index) /\ data' \in Seq(Row)
    BY <1>6, OfReply DEF Arrives
  <2>2. SubSeq(data', 1, Len(data')) = data'
    BY <2>1, SubSeqFull
  <2>3. Rest' = SubSeq(data', 0 + 1, Len(data')) \o From(index + 1)
    BY <1>6, RestAfter DEF Arrives
  <2>4. index \in 1..Len(lens)
    BY DEF TypeOK
  <2>5. From(index) = Part(index) \o From(index + 1)
    BY <2>4, FromSteps
  <2>6. Rest' = From(index) /\ Rest = From(index)
    <3>1. 0 + 1 = 1
      OBVIOUS
    <3>2. Rest' = data' \o From(index + 1)
      BY <2>2, <2>3, <3>1
    <3>3. QED BY <1>6, <2>1, <2>5, <3>2 DEF Arrives, Rest
  <2>7. QED BY <1>2, <1>6, <2>6 DEF Arrives
<1>7. CASE Fail
  BY <1>3, <1>7, Ended DEF Fail
<1>8. CASE NextPartition
  <2>1. /\ offset = Len(data) /\ pc = "rows" /\ data \in Seq(Row)
        /\ lens' = lens /\ index' = index + 1 /\ pc' = "get"
    BY <1>8 DEF NextPartition, PartUsed, TypeOK
  <2>2. Rest' = From(index + 1)
    BY <2>1, RestAfter
  <2>3. Rest = From(index + 1)
    <3>1. SubSeq(data, offset + 1, Len(data)) = <<>>
      BY <2>1
    <3>2. Rest = <<>> \o From(index + 1)
      BY <2>1, <3>1 DEF Rest
    <3>3. QED BY <1>0, <3>2, ConcatEmptySeq
  <2>4. QED BY <1>2, <1>8, <2>1, <2>2, <2>3 DEF NextPartition
<1>9. CASE Close
  BY <1>3, <1>9, Ended DEF Close
<1>10. CASE UNCHANGED vars
  <2>1. CASE pc = "over"
    <3>1. Handed' = Handed /\ AllRows' = AllRows
      BY <1>10, SameResult DEF Handed, vars
    <3>2. QED BY <1>10, <2>1, <3>1 DEF RowsConserved, NothingTruncated, vars
  <2>2. CASE pc # "over"
    <3>1. Rest' = Rest
      <4>1. lens' = lens /\ index' = index /\ data' = data /\ offset' = offset /\ pc' = pc
        BY <1>10 DEF vars
      <4>2. pc \in {"new", "execute", "get", "rows", "held", "last"}
        BY <2>2 DEF TypeOK
      <4>3. QED BY <4>1, <4>2, RestAfter DEF Rest
    <3>2. QED BY <1>2, <1>10, <2>2, <3>1 DEF vars
  <2>3. QED BY <2>1, <2>2
<1>11. CASE UseRow
  <2>1. PICK row : row = data[offset + 1]
    OBVIOUS
  <2>2. /\ row \in Row
        /\ lens' = lens /\ index' = index /\ data' = data
        /\ ending' = ending /\ offset' = offset + 1 /\ offset < Len(data)
        /\ pc = "rows" /\ pc' \in {"rows", "held"}
    BY <1>11, <2>1, Used
  <2> DEFINE r == <<row>>
             tail == SubSeq(data, offset + 2, Len(data))
             w == tail \o From(index + 1)
  <2>3. /\ r \in Seq(Row) /\ tail \in Seq(Row)
        /\ SubSeq(data, offset + 1, Len(data)) = r \o tail
    <3>1. data \in Seq(Row) /\ offset \in Nat
      BY StreamAssumption DEF TypeOK
    <3>2. r \in Seq(Row)
      BY <2>2
    <3>3. QED BY <2>1, <2>2, <3>1, <3>2, NextRow
  <2>4. Rest' = w
    <3>1. Rest' = SubSeq(data, (offset + 1) + 1, Len(data)) \o From(index + 1)
      BY <2>2, RestAfter
    <3>2. (offset + 1) + 1 = offset + 2
      BY StreamAssumption DEF TypeOK
    <3>3. QED BY <3>1, <3>2
  <2>5. Rest = (r \o tail) \o From(index + 1)
    BY <2>2, <2>3 DEF Rest
  <2>6. w \in Seq(Row)
    <3> HIDE DEF tail
    <3>1. QED BY <1>0, <2>3, RowsTogether, Zenon
  <2> HIDE DEF tail
  <2>7. (Handed \o batch) \o Rest = (Handed \o (batch \o r)) \o w
    <3> HIDE DEF r
    <3>1. Handed \in Seq(Row)
      BY <1>0, Zenon
    <3>2. \A b, m, t, f \in Seq(Row) :
             (Handed \o b) \o ((m \o t) \o f) = (Handed \o (b \o m)) \o (t \o f)
      BY <3>1, RowMoves, Zenon
    <3>3. batch \in Seq(Row) /\ r \in Seq(Row)
      BY <1>0, <2>3, Zenon
    <3>4. \A t, f \in Seq(Row) :
             (Handed \o batch) \o ((r \o t) \o f) = (Handed \o (batch \o r)) \o (t \o f)
      BY <3>2, <3>3, Zenon
    <3>5. tail \in Seq(Row) /\ From(index + 1) \in Seq(Row)
      BY <1>0, <2>3, Zenon
    <3>6. QED BY <2>5, <3>4, <3>5, Zenon
  <2> HIDE DEF w
  <2>8. batch \o r = Append(batch, row) /\ Append(batch, row) \in Seq(Row)
    BY <1>0, <2>2
  <2>9. /\ \A s \in Seq(Row) : FlattenSeq(Append(handed, s)) = Handed \o s
    BY FlattenAppend DEF Handed, TypeOK
  <2>10. CASE handed' = handed /\ batch' = Append(batch, row)
    <3>1. Handed' = Handed
      BY <2>10 DEF Handed
    <3>2. Handed' \o batch' \o Rest' = Handed \o batch \o Rest
      BY <2>4, <2>7, <2>8, <2>10, <3>1, Zenon
    <3>3. QED BY <1>1, <2>2, <3>2
  <2>11. ASSUME handed' = Append(handed, batch \o r), batch' = <<>>
         PROVE  RowsConserved' /\ NothingTruncated'
    <3>1. Handed' = Handed \o (batch \o r)
      <4> HIDE DEF r
      <4>1. batch \o r \in Seq(Row)
        BY <1>0, <2>3, RowsTogether, Zenon
      <4>2. QED BY <2>9, <2>11, <4>1 DEF Handed
    <3>2. Handed' \o batch' = Handed \o (batch \o r)
      <4> HIDE DEF r
      <4>1. Handed \o (batch \o r) \in Seq(Row)
        BY <1>0, <2>3, RowsTogether, Zenon
      <4>2. QED BY <2>11, <3>1, <4>1, ConcatEmptySeq
    <3>3. Handed' \o batch' \o Rest' = Handed \o batch \o Rest
      BY <2>4, <2>7, <3>2, Zenon
    <3>4. QED BY <1>1, <2>2, <3>3
  <2>12. CASE surface \in {"stream", "export"} /\ handed' = Append(handed, <<row>>)
              /\ batch' = batch
    <3>1. batch = <<>>
      BY <2>12 DEF PlaceInv
    <3>2. batch \o r = r
      BY <2>3, <3>1, ConcatEmptySeq
    <3>3. QED BY <2>11, <2>12, <3>1, <3>2
  <2>13. CASE handed' = Append(handed, Append(batch, row)) /\ batch' = <<>>
    BY <2>8, <2>11, <2>13
  <2>14. QED BY <1>11, <2>1, <2>10, <2>12, <2>13, Used
<1>12. ASSUME pc = "rows", offset = Len(data), index >= Len(lens)
       PROVE  Rest = <<>> /\ index = Len(lens) /\ From(index + 1) = <<>>
  <2>1. index = Len(lens)
    BY <1>12, Types DEF TypeOK
  <2>2. From(index + 1) = <<>>
    BY <2>1, FromSteps
  <2>3. SubSeq(data, offset + 1, Len(data)) = <<>>
    BY <1>12 DEF TypeOK
  <2>4. QED BY <1>12, <2>1, <2>2, <2>3 DEF Rest
<1>13. CASE AllUsed
  <2>1. /\ Rest = <<>> /\ From(index + 1) = <<>> /\ lens' = lens /\ index' = index
        /\ pc = "rows"
    BY <1>12, <1>13, Exhausted
  <2>2. FlattenSeq(Append(handed, batch)) = Handed \o batch
    BY <1>0, FlattenAppend DEF Handed, TypeOK
  <2>3. CASE surface = "query" /\ End("complete") /\ handed' = Append(handed, batch)
    <3>1. Handed' = Handed \o batch
      BY <2>2, <2>3 DEF Handed
    <3>2. QED BY <1>4, <2>1, <2>3, <3>1, Ended
  <2>4. CASE Fail
    BY <1>7, <2>4
  <2>5. CASE /\ handed' = Append(handed, batch) /\ batch' = <<>>
             /\ pc' = "last" /\ data' = <<>> /\ offset' = 0 /\ ending' = ending
    <3>1. Rest' = <<>>
      <4>1. Rest' = SubSeq(<<>>, 0 + 1, Len(<<>>)) \o From(index + 1)
        BY <2>1, <2>5, RestAfter
      <4>2. QED BY <2>1, <4>1
    <3>2. Handed' = Handed \o batch
      BY <2>2, <2>5 DEF Handed
    <3>3. Handed' \o batch' = Handed \o batch
      <4>1. Handed \o batch \in Seq(Row)
        BY <1>0, RowsTogether, Zenon
      <4>2. QED BY <2>5, <3>2, <4>1, ConcatEmptySeq
    <3>4. QED BY <1>1, <2>1, <2>5, <3>1, <3>3
  <2>6. CASE /\ surface # "query" /\ ~(surface = "batches" /\ batch # <<>>)
             /\ End("complete") /\ batch' = batch /\ handed' = handed
    <3>1. batch = <<>>
      BY <2>6, StreamAssumption DEF PlaceInv, TypeOK
    <3>2. Handed' = Handed \o batch
      BY <1>0, <2>6, <3>1, ConcatEmptySeq DEF Handed
    <3>3. QED BY <1>4, <2>1, <2>6, <3>2, Ended
  <2>7. QED BY <1>13, <2>3, <2>4, <2>5, <2>6, Exhausted
<1>14. CASE Resume
  <2>1. CASE pc = "held"
    <3>1. /\ lens' = lens /\ index' = index /\ data' = data /\ offset' = offset
          /\ pc' = "rows" /\ handed' = handed /\ batch' = batch /\ ending' = ending
      BY <1>14, <2>1 DEF Resume
    <3>2. Rest' = Rest
      BY <2>1, <3>1, RestAfter DEF Rest
    <3>3. QED BY <1>2, <2>1, <3>1, <3>2
  <2>2. CASE pc = "last"
    <3>1. index = Len(lens) /\ data = <<>> /\ offset = 0 /\ batch = <<>>
      BY <2>2 DEF PlaceInv
    <3>2. Rest = <<>>
      <4>1. From(index + 1) = <<>>
        BY <3>1, FromSteps
      <4>2. Rest = SubSeq(data, offset + 1, Len(data)) \o From(index + 1)
        BY <2>2 DEF Rest
      <4>3. QED BY <3>1, <4>1, <4>2
    <3>3. End("complete") /\ batch' = batch /\ handed' = handed
      BY <1>14, <2>2 DEF Resume
    <3>4. Handed' = Handed \o batch
      BY <1>0, <3>1, <3>3, ConcatEmptySeq DEF Handed
    <3>5. QED BY <1>4, <2>2, <3>2, <3>3, <3>4, Ended
  <2>3. QED BY <1>14, <2>1, <2>2 DEF Resume
<1>15. CASE Extend
  <2> DEFINE part == Part(index)
             after == From(index + 1)
  <2>1. /\ batch' = batch \o part /\ part \in Seq(Row)
        /\ lens' = lens /\ index' = index /\ data' = data /\ offset' = offset
        /\ handed' = handed /\ ending' = ending /\ pc' = "rows"
        /\ pc \in {"execute", "get"} /\ surface = "query"
    BY <1>15, OfReply, Types DEF Extend
  <2>2. data = <<>> /\ offset = 0
    BY <2>1 DEF PlaceInv
  <2>3. index \in 1..Len(lens)
    BY DEF TypeOK
  <2>4. Rest = part \o after
    BY <2>1, <2>3, FromSteps DEF Rest
  <2>5. Rest' = after
    <3>1. Rest' = SubSeq(<<>>, 0 + 1, Len(<<>>)) \o From(index + 1)
      BY <2>1, <2>2, RestAfter
    <3>2. SubSeq(<<>>, 0 + 1, Len(<<>>)) = <<>>
      OBVIOUS
    <3>3. QED BY <1>0, <3>1, <3>2, ConcatEmptySeq
  <2>6. Handed' = Handed
    BY <2>1 DEF Handed
  <2> HIDE DEF part, after
  <2>7. after \in Seq(Row)
    BY <1>0 DEF after
  <2>8. Handed \o (batch \o part) \o after = Handed \o batch \o (part \o after)
    <3>1. Handed \in Seq(Row) /\ batch \in Seq(Row)
      BY <1>0, Zenon
    <3>2. \A r, f \in Seq(Row) :
             (Handed \o (batch \o r)) \o f = (Handed \o batch) \o (r \o f)
      BY <3>1, RowsJoin, Zenon
    <3>3. part \in Seq(Row)
      BY <2>1
    <3>4. QED BY <2>7, <3>2, <3>3, Zenon
  <2>9. Handed' \o batch' \o Rest' = Handed \o batch \o Rest
    BY <2>1, <2>4, <2>5, <2>6, <2>8, Zenon
  <2>10. pc # "over" /\ pc' # "over"
    BY <2>1
  <2>11. QED BY <1>1, <2>1, <2>9, <2>10
<1>16. QED BY <1>5, <1>6, <1>7, <1>8, <1>9, <1>10, <1>11, <1>13, <1>14, <1>15
           DEF Next, RequestFails, RowFails

LEMMA InvStep == Inv /\ [Next]_vars => Inv'
<1> SUFFICES ASSUME Inv, [Next]_vars PROVE Inv'
  OBVIOUS
<1>1. TypeOK /\ PlaceInv /\ PartitionReleased /\ BatchesFull
  BY DEF Inv
<1>2. TypeOK' /\ PlaceInv' /\ PartitionReleased' /\ BatchesFull'
  BY <1>1, TypeStep, PlaceStep, ReleasedStep, BatchesStep
<1>3. surface' = surface
  <2>1. CASE Fail \/ Close
    BY <2>1 DEF Fail, Close, End, resultVars
  <2>2. CASE Resume
    BY <2>2 DEF Resume, End, resultVars
  <2>3. QED BY <1>1, <2>1, <2>2, Used, Exhausted
            DEF Next, vars, resultVars, Begin, Arrives, Extend, RequestFails, RowFails, NextPartition
<1>4. ASSUME Faithful' PROVE RowsConserved' /\ NothingTruncated'
  <2>1. Faithful
    BY <1>3, <1>4 DEF Faithful
  <2>2. RowsConserved /\ NothingTruncated
    BY <2>1 DEF Inv
  <2>3. QED BY <1>1, <2>1, <2>2, RowsStep
<1>5. QED BY <1>2, <1>4 DEF Inv

\* Whatever the result, its partitions and the batch size: the inductive invariant of
\* query(), the streams and the exports.
THEOREM Invariance == Spec => []Inv
<1>1. QED BY InvInit, InvStep, PTL DEF Spec

\* Type correctness of the result, its stream and its consumer is part of it.
THEOREM TypeCorrect == Spec => []TypeOK
<1>1. Inv => TypeOK
  BY DEF Inv
<1>2. QED BY <1>1, Invariance, PTL

\* A generator or an export has one partition in memory at most, and none once it is
\* over: iter_result_rows() releases what it has used.
THEOREM PartitionsReleased == Spec => []PartitionReleased
<1>1. Inv => PartitionReleased
  BY DEF Inv
<1>2. QED BY <1>1, Invariance, PTL

\* query_batches() gives lists of batch_size rows across partition boundaries.
THEOREM BatchesAreFull == Spec => []BatchesFull
<1>1. Inv => BatchesFull
  BY DEF Inv
<1>2. QED BY <1>1, Invariance, PTL

\* Where a malformed reply cannot be taken for an empty one, no row is lost, repeated or
\* moved on its way through partitions, lists and suspended generators.
THEOREM RowsKept == Spec => [](Faithful => RowsConserved)
<1>1. Inv => (Faithful => RowsConserved)
  BY DEF Inv
<1>2. QED BY <1>1, Invariance, PTL

\* Nor is a result ever silently truncated.
THEOREM ResultsWhole == Spec => [](Faithful => NothingTruncated)
<1>1. Inv => (Faithful => NothingTruncated)
  BY DEF Inv
<1>2. QED BY <1>1, Invariance, PTL

\* The two for every surface, of a service whose replies hold their arrays.
THEOREM WellFormedReplies ==
    ASSUME "query" \notin Malformed
    PROVE  Spec => []RowsConserved /\ []NothingTruncated
<1>1. Inv => RowsConserved /\ NothingTruncated
  BY DEF Inv, Faithful
<1>2. QED BY <1>1, Invariance, PTL
=============================================================================
