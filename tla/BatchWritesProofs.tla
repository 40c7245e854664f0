------------------------- MODULE BatchWritesProofs -------------------------
(***************************************************************************)
(* Proofs about insert_batches().                                          *)
(*                                                                         *)
(* First the batch planner, for every source, row limit, byte limit and    *)
(* number of columns: the size it adds up is the size it sends, no record  *)
(* is lost or taken twice, batches are greedy, and the end is the end of   *)
(* the source.  Then the statements it plans, for every max_attempts and   *)
(* every behaviour of the network and of the service that SqlApi allows.   *)
(***************************************************************************)
EXTENDS BatchWrites, Induction, FiniteSetTheorems

-----------------------------------------------------------------------------
(* Arithmetic of the planner.                                               *)

\* The dimensions of a request body are natural numbers.
LEMMA PlannerNats ==
    /\ Width \in Nat /\ Width >= 1
    /\ SingleOverhead \in Nat
    /\ \A row \in Row : row.len \in Nat /\ row.len # 0
<1>1. Width \in Nat /\ Width >= 1 /\ SingleOverhead \in Nat
  BY PlannerAssumption
<1>2. ASSUME NEW row \in Row PROVE row.len \in Nat /\ row.len # 0
  <2>1. row.len \in RowLens
    BY <1>2 DEF Row
  <2> QED
    BY <2>1, PlannerAssumption
<1> QED
  BY <1>1, <1>2

\* Binding keys have a whole number of digits.
LEMMA KeyDigitsNat ==
    ASSUME NEW k \in Nat
    PROVE  KeyDigits(k) \in Nat
<1> DEFINE P == ((k + 1)..(k + Width)) \X (0..9)
<1> DEFINE D == {kd \in P : 10 ^ kd[2] <= kd[1]}
<1>1. k + 1 \in Int /\ k + Width \in Int /\ 0 \in Int /\ 9 \in Int
  BY PlannerNats
<1>2. IsFiniteSet((k + 1)..(k + Width))
  BY <1>1, FS_Interval
<1>3. IsFiniteSet(0..9)
  BY <1>1, FS_Interval
<1>4. IsFiniteSet(P)
  BY <1>2, <1>3, FS_Product
<1>5. D \subseteq P
  OBVIOUS
<1>6. IsFiniteSet(D)
  BY <1>4, <1>5, FS_Subset
<1>7. Cardinality(D) \in Nat
  BY <1>6, FS_CardinalityType
<1> QED
  BY <1>7 DEF KeyDigits

\* _fragment() has a length.
LEMMA FragmentLenNat ==
    ASSUME NEW row \in Row, NEW o \in Nat
    PROVE  FragmentLen(row, o) \in Nat
<1>1. Width \in Nat /\ Width - 1 \in Nat /\ 3 * Width \in Nat /\ row.len \in Nat
  BY PlannerNats
<1>2. KeyDigits(o) \in Nat
  BY KeyDigitsNat
<1>3. QED BY <1>1, <1>2 DEF FragmentLen

\* The size next_batch() computes is a natural number.
LEMMA CandidateNat ==
    ASSUME NEW row \in Row, BufferTypeOK
    PROVE  Candidate(row) \in Nat /\ SingleSize(row) \in Nat
<1>1. Width \in Nat /\ SingleOverhead \in Nat
  BY PlannerNats
<1>2. size \in Nat /\ Len(buf) \in Nat
  BY DEF BufferTypeOK
<1>3. Len(buf) * Width \in Nat /\ 3 * Width \in Nat
  BY <1>1, <1>2
<1>4. FragmentLen(row, 0) \in Nat /\ FragmentLen(row, Len(buf) * Width) \in Nat
  BY <1>3, FragmentLenNat
<1>5. QED BY <1>1, <1>2, <1>3, <1>4 DEF Candidate, SingleSize, PlaceholderLen

\* Row by row, the fragments add up.
LEMMA FragmentsLenSteps ==
    ASSUME NEW rows \in Seq(Row)
    PROVE  /\ FragmentsLen(rows)[0] = 0
           /\ \A i \in 0..Len(rows) : FragmentsLen(rows)[i] \in Nat
           /\ \A i \in 0..(Len(rows) - 1) :
                FragmentsLen(rows)[i + 1]
                  = FragmentsLen(rows)[i] + FragmentLen(rows[i + 1], i * Width)
<1> DEFINE n == Len(rows)
           F(i) == IF i < n THEN FragmentLen(rows[i + 1], i * Width) ELSE 0
           step == [i \in Nat |-> [x \in Nat |-> x + F(i)]]
           G(f) == [i \in 0..n |-> IF i = 0 THEN 0
                                   ELSE f[i - 1] + FragmentLen(rows[i], (i - 1) * Width)]
           f == FragmentsLen(rows)
<1>1. n \in Nat /\ Width \in Nat
  BY PlannerNats
<1>2. ASSUME NEW i \in Nat PROVE F(i) \in Nat
  <2>1. CASE i < n
    <3>1. rows[i + 1] \in Row /\ i * Width \in Nat
      BY <1>1, <2>1
    <3>2. QED BY <2>1, <3>1, FragmentLenNat
  <2>2. QED BY <2>1
<1>3. step \in Steps(Nat)
  <2> HIDE DEF F
  <2>1. ASSUME NEW i \in Nat PROVE [x \in Nat |-> x + F(i)] \in [Nat -> Nat]
    BY <1>2
  <2> DEFINE A(i) == [x \in Nat |-> x + F(i)]
  <2>2. \A i \in Nat : A(i) \in [Nat -> Nat]
    BY <2>1
  <2> HIDE DEF A
  <2>3. [i \in Nat |-> A(i)] \in [Nat -> [Nat -> Nat]]
    BY <2>2
  <2>4. QED BY <2>3 DEF A, Steps
<1>4. PICK g : Follows(g, Nat, 0, step)
  <2>1. 0 \in Nat
    OBVIOUS
  <2> HIDE DEF step
  <2>2. QED BY <1>3, <2>1, Recursion
<1>5. /\ g \in [Nat -> Nat] /\ g[0] = 0
      /\ \A i \in Nat : g[i + 1] = g[i] + F(i)
  <2>1. /\ g \in [Nat -> Nat] /\ g[0] = 0
        /\ \A i \in Nat : g[i + 1] = step[i][g[i]]
    BY <1>4 DEF Follows
  <2> HIDE DEF F
  <2>2. QED BY <2>1
<1> DEFINE h == [i \in 0..n |-> g[i]]
<1>6. h = G(h)
  <2>1. ASSUME NEW i \in 0..n PROVE h[i] = G(h)[i]
    <3>1. CASE i = 0
      BY <1>5, <3>1
    <3>2. CASE i # 0
      <4>1. i - 1 \in Nat /\ i - 1 \in 0..n /\ i - 1 < n /\ (i - 1) + 1 = i
        BY <1>1, <3>2
      <4>2. g[(i - 1) + 1] = g[i - 1] + F(i - 1)
        BY <1>5, <4>1
      <4>3. F(i - 1) = FragmentLen(rows[i], (i - 1) * Width)
        BY <4>1
      <4>4. h[i] = g[i] /\ h[i - 1] = g[i - 1]
        BY <4>1
      <4> HIDE DEF F, h
      <4>5. QED BY <3>2, <4>1, <4>2, <4>3, <4>4
    <3>3. QED BY <3>1, <3>2
  <2>2. QED BY <2>1
<1>7. f = G(f)
  <2>1. \E e : e = G(e)
    <3> HIDE DEF h, G
    <3>1. QED BY <1>6
  <2>2. f = CHOOSE e : e = G(e)
    BY DEF FragmentsLen
  <2> HIDE DEF f, G
  <2>3. QED BY <2>1, <2>2
<1> HIDE DEF f
<1>8. f[0] = 0
  BY <1>1, <1>7
<1>9. ASSUME NEW i \in 0..(n - 1)
      PROVE  f[i + 1] = f[i] + FragmentLen(rows[i + 1], i * Width)
  BY <1>1, <1>7
<1> DEFINE T == {i \in Nat : i \in 0..n => f[i] \in Nat}
<1>10. 0 \in T
  BY <1>8
<1>11. ASSUME NEW i \in T PROVE i + 1 \in T
  <2>1. CASE i + 1 \in 0..n
    <3>1. i \in 0..(n - 1) /\ i \in 0..n /\ i \in Nat
      BY <1>1, <2>1
    <3>2. FragmentLen(rows[i + 1], i * Width) \in Nat
      <4>1. rows[i + 1] \in Row /\ i * Width \in Nat
        BY <1>1, <3>1
      <4>2. QED BY <4>1, FragmentLenNat
    <3>3. QED BY <1>9, <3>1, <3>2
  <2>2. QED BY <2>1
<1>12. T = Nat
  <2>1. T \in SUBSET Nat
    OBVIOUS
  <2> HIDE DEF T
  <2>2. QED BY <1>10, <1>11, <2>1, NatSet
<1>13. \A i \in 0..n : f[i] \in Nat
  BY <1>1, <1>12
<1>14. QED BY <1>8, <1>9, <1>13 DEF f

\* A row at the end leaves what the rows before it take.
LEMMA FragmentsLenAppend ==
    ASSUME NEW rows \in Seq(Row), NEW row \in Row
    PROVE  FragmentsLen(Append(rows, row))[Len(rows) + 1]
             = FragmentsLen(rows)[Len(rows)] + FragmentLen(row, Len(rows) * Width)
<1> DEFINE n == Len(rows)
           more == Append(rows, row)
           f == FragmentsLen(rows)
           e == FragmentsLen(more)
           T == {i \in Nat : i \in 0..n => e[i] = f[i]}
<1>1. /\ n \in Nat /\ more \in Seq(Row) /\ Len(more) = n + 1
      /\ more[n + 1] = row
      /\ \A i \in 1..n : more[i] = rows[i]
  OBVIOUS
<1> HIDE DEF more
<1>2. /\ f[0] = 0 /\ e[0] = 0
      /\ \A i \in 0..(n - 1) : f[i + 1] = f[i] + FragmentLen(rows[i + 1], i * Width)
      /\ \A i \in 0..n : e[i + 1] = e[i] + FragmentLen(more[i + 1], i * Width)
  <2>1. Len(more) - 1 = n
    BY <1>1
  <2>2. QED BY <1>1, <2>1, FragmentsLenSteps
<1> HIDE DEF e, f
<1>3. 0 \in T
  BY <1>2
<1>4. ASSUME NEW i \in T PROVE i + 1 \in T
  <2>1. CASE i + 1 \in 0..n
    <3>1. i \in 0..(n - 1) /\ i \in 0..n /\ i + 1 \in 1..n
      BY <1>1, <2>1
    <3>2. QED BY <1>1, <1>2, <3>1
  <2>2. QED BY <2>1
<1>5. T = Nat
  <2>1. T \in SUBSET Nat
    OBVIOUS
  <2> HIDE DEF T
  <2>2. QED BY <1>3, <1>4, <2>1, NatSet
<1>6. e[n] = f[n] /\ n \in 0..n
  BY <1>1, <1>5
<1>7. QED BY <1>1, <1>2, <1>6 DEF e, f, more

\* A body of one record has the size the loop takes it for.
LEMMA BodyLenSingle ==
    ASSUME NEW row \in Row
    PROVE  BodyLen(<<row>>) = SingleSize(row)
<1> DEFINE one == <<row>>
<1>1. one \in Seq(Row) /\ Len(one) = 1 /\ one[1] = row
  OBVIOUS
<1> HIDE DEF one
<1>2. FragmentLen(row, 0) \in Nat /\ Width \in Nat /\ SingleOverhead \in Nat
  BY PlannerNats, FragmentLenNat
<1>3. 0 * Width = 0 /\ 3 * Width \in Nat
  BY <1>2
<1>4. FragmentsLen(one)[1] = FragmentLen(row, 0)
  <2>1. 0 \in 0..(Len(one) - 1) /\ 0 + 1 = 1
    BY <1>1
  <2>2. FragmentsLen(one)[0 + 1]
          = FragmentsLen(one)[0] + FragmentLen(one[0 + 1], 0 * Width)
    BY <1>1, <2>1, FragmentsLenSteps
  <2>3. FragmentsLen(one)[0] = 0
    BY <1>1, FragmentsLenSteps
  <2>4. QED BY <1>1, <1>2, <1>3, <2>1, <2>2, <2>3
<1>5. BodyLen(one) = SingleSize(row)
  BY <1>1, <1>2, <1>3, <1>4 DEF BodyLen, SingleSize, PlaceholderLen
<1>6. QED BY <1>5 DEF one

\* A body grows by what the loop adds for the record that joins it, the growth of the
\* binding keys included.
LEMMA BodyLenAppend ==
    ASSUME NEW rows \in Seq(Row), rows # <<>>, NEW row \in Row
    PROVE  /\ BodyLen(rows) \in Nat
           /\ BodyLen(Append(rows, row))
                = BodyLen(rows) + 2 + PlaceholderLen + 1
                    + FragmentLen(row, Len(rows) * Width)
<1> DEFINE n == Len(rows)
           P == 2 + PlaceholderLen
<1>1. n \in Nat /\ n # 0 /\ Len(Append(rows, row)) = n + 1
  OBVIOUS
<1>2. Width \in Nat /\ SingleOverhead \in Nat /\ P \in Nat
  BY PlannerNats DEF PlaceholderLen
<1>3. FragmentsLen(rows)[n] \in Nat /\ n * Width \in Nat
  BY <1>1, <1>2, FragmentsLenSteps
<1>4. FragmentLen(row, n * Width) \in Nat
  BY <1>3, FragmentLenNat
<1>5. FragmentsLen(Append(rows, row))[n + 1]
        = FragmentsLen(rows)[n] + FragmentLen(row, n * Width)
  BY FragmentsLenAppend
<1> HIDE DEF P
<1>6. n * P = (n - 1) * P + P /\ (n - 1) * P \in Nat
  BY <1>1, <1>2
<1>7. BodyLen(rows) = SingleOverhead + (n - 1) * P + FragmentsLen(rows)[n] + (n - 1)
  BY DEF BodyLen, P
<1>8. BodyLen(Append(rows, row))
        = SingleOverhead + n * P + FragmentsLen(Append(rows, row))[n + 1] + n
  BY <1>1 DEF BodyLen, P
<1>9. PlaceholderLen \in Nat /\ P = 2 + PlaceholderLen
  BY PlannerNats DEF PlaceholderLen, P
<1>10. BodyLen(rows) \in Nat
  BY <1>1, <1>2, <1>3, <1>6, <1>7
<1>11. BodyLen(Append(rows, row)) = BodyLen(rows) + P + 1 + FragmentLen(row, n * Width)
  <2> DEFINE B == FragmentsLen(rows)[n]
             C == FragmentLen(row, n * Width)
             D == (n - 1) * P
             E == n * P
             H == FragmentsLen(Append(rows, row))[n + 1]
  <2>1. /\ n \in Nat /\ SingleOverhead \in Nat /\ P \in Nat /\ B \in Nat
        /\ C \in Nat /\ D \in Nat /\ E = D + P /\ H = B + C
        /\ BodyLen(rows) = SingleOverhead + D + B + (n - 1)
        /\ BodyLen(Append(rows, row)) = SingleOverhead + E + H + n
    BY <1>1, <1>2, <1>3, <1>4, <1>5, <1>6, <1>7, <1>8
  <2> HIDE DEF n, B, C, D, E, H
  <2>2. BodyLen(Append(rows, row)) = BodyLen(rows) + P + 1 + C
    BY <2>1
  <2>3. QED BY <2>2 DEF C
<1>12. QED BY <1>4, <1>9, <1>10, <1>11

-----------------------------------------------------------------------------
(* The steps of next_batch().                                               *)

\* The mark of an empty look-ahead is no record.
LEMMA NoRowNotRow == NoRow \notin Row
BY PlannerNats DEF NoRow

\* The records held are those of the buffer and, after them, the look-ahead record.
LEMMA HeldRows ==
    ASSUME NEW b \in Seq(Row), NEW p \in Row \cup {NoRow}, NEW first \in Nat
    PROVE  LET held == b \o (IF p = NoRow THEN <<>> ELSE <<p>>)
           IN  /\ Len(held) = Len(b) + (IF p = NoRow THEN 0 ELSE 1)
               /\ (\A i \in 1..Len(held) : held[i].at = first + i - 1)
                     <=> /\ \A i \in 1..Len(b) : b[i].at = first + i - 1
                         /\ p # NoRow => p.at = first + Len(b)
<1>1. CASE p = NoRow
  <2>1. b \o <<>> = b
    OBVIOUS
  <2>2. QED BY <1>1, <2>1
<1>2. CASE p # NoRow
  <2> DEFINE held == b \o <<p>>
             n == Len(b)
  <2>1. /\ n \in Nat /\ Len(held) = n + 1
        /\ \A i \in 1..n : held[i] = b[i]
        /\ held[n + 1] = p
    OBVIOUS
  <2> HIDE DEF held
  <2>2. ASSUME \A i \in 1..Len(held) : held[i].at = first + i - 1
        PROVE  (\A i \in 1..n : b[i].at = first + i - 1) /\ p.at = first + n
    <3>1. n + 1 \in 1..Len(held) /\ first + (n + 1) - 1 = first + n
      BY <2>1
    <3>2. \A i \in 1..n : i \in 1..Len(held)
      BY <2>1
    <3>3. QED BY <2>1, <2>2, <3>1, <3>2
  <2>3. ASSUME \A i \in 1..n : b[i].at = first + i - 1, p.at = first + n
        PROVE  \A i \in 1..Len(held) : held[i].at = first + i - 1
    <3>1. ASSUME NEW i \in 1..Len(held) PROVE held[i].at = first + i - 1
      <4>1. CASE i = n + 1
        BY <2>1, <2>3, <4>1
      <4>2. CASE i # n + 1
        <5>1. i \in 1..n
          BY <2>1, <4>2
        <5>2. QED BY <2>1, <2>3, <5>1
      <4>3. QED BY <4>1, <4>2
    <3>2. QED BY <3>1
  <2>4. QED BY <1>2, <2>1, <2>2, <2>3 DEF held
<1>3. QED BY <1>1, <1>2

\* The account that RecordsAccounted gives, of the buffer and the look-ahead apart.
Places(b, p, first) ==
    /\ \A i \in 1..Len(b) : b[i].at = first + i - 1
    /\ p # NoRow => p.at = first + Len(b)

Count(b, p) == Len(b) + (IF p = NoRow THEN 0 ELSE 1)

LEMMA AccountNow ==
    ASSUME BufferTypeOK
    PROVE  RecordsAccounted <=>
             /\ Places(buf, pending, confirmed)
             /\ IF pc = "raised" /\ phase = "validation"
                  THEN consumed - confirmed - Count(buf, pending) \in {0, 1}
                  ELSE consumed = confirmed + Count(buf, pending)
<1>1. buf \in Seq(Row) /\ pending \in Row \cup {NoRow} /\ confirmed \in Nat
  BY DEF BufferTypeOK
<1> DEFINE held == buf \o LookAhead
<1>2. /\ Len(held) = Count(buf, pending)
      /\ (\A i \in 1..Len(held) : held[i].at = confirmed + i - 1)
            <=> Places(buf, pending, confirmed)
  BY <1>1, HeldRows DEF LookAhead, Places, Count
<1> HIDE DEF held
<1>3. RecordsAccounted <=>
        /\ \A i \in 1..Len(held) : held[i].at = confirmed + i - 1
        /\ IF pc = "raised" /\ phase = "validation"
             THEN consumed - confirmed - Len(held) \in {0, 1}
             ELSE consumed = confirmed + Len(held)
  BY DEF RecordsAccounted, held
<1>4. QED BY <1>2, <1>3

LEMMA AccountNext ==
    ASSUME BufferTypeOK'
    PROVE  RecordsAccounted' <=>
             /\ Places(buf', pending', confirmed')
             /\ IF pc' = "raised" /\ phase' = "validation"
                  THEN consumed' - confirmed' - Count(buf', pending') \in {0, 1}
                  ELSE consumed' = confirmed' + Count(buf', pending')
<1>1. buf' \in Seq(Row) /\ pending' \in Row \cup {NoRow} /\ confirmed' \in Nat
  BY DEF BufferTypeOK
<1> DEFINE held == buf' \o LookAhead'
<1>2. /\ Len(held) = Count(buf', pending')
      /\ (\A i \in 1..Len(held) : held[i].at = confirmed' + i - 1)
            <=> Places(buf', pending', confirmed')
  BY <1>1, HeldRows DEF LookAhead, Places, Count
<1> HIDE DEF held
<1>3. RecordsAccounted' <=>
        /\ \A i \in 1..Len(held) : held[i].at = confirmed' + i - 1
        /\ IF pc' = "raised" /\ phase' = "validation"
             THEN consumed' - confirmed' - Len(held) \in {0, 1}
             ELSE consumed' = confirmed' + Len(held)
  BY DEF RecordsAccounted, held
<1>4. QED BY <1>2, <1>3

\* The next record in order, wherever the loop puts it.
LEMMA PlaceStep ==
    ASSUME PlannerInv, Filling, NEW row \in Row, Place(row), UNCHANGED exhausted,
           row.at = confirmed + Len(buf),
           consumed' = confirmed + Len(buf) + 1
    PROVE  PlannerInv'
<1>1. /\ buf \in Seq(Row) /\ size \in Nat /\ exhausted \in BOOLEAN
      /\ confirmed \in Nat /\ completed \in Seq(Summary) /\ Len(buf) \in Nat
      /\ BufferTypeOK
  BY DEF PlannerInv, BufferTypeOK
<1>2. pc = "fill" /\ row # NoRow
  BY NoRowNotRow DEF Filling
<1>3. \A i \in 1..Len(buf) : buf[i].at = confirmed + i - 1
  BY <1>1, AccountNow DEF PlannerInv, Places
<1>4. Candidate(row) \in Nat /\ SingleSize(row) \in Nat /\ MaxBytes \in Nat
  BY <1>1, CandidateNat, PlannerAssumption
<1>5. CASE SingleSize(row) > MaxBytes
  <2>1. /\ pc' = "raised" /\ phase' = "validation" /\ pending' = NoRow
        /\ UNCHANGED <<buf, size, confirmed, completed>>
    BY <1>5 DEF Place, LocalError, progressVars
  <2>2. BufferTypeOK'
    BY <1>1, <2>1 DEF BufferTypeOK
  <2>3. RecordsAccounted'
    <3>1. Count(buf', pending') = Len(buf) /\ Places(buf', pending', confirmed')
      BY <1>1, <1>3, <2>1 DEF Count, Places
    <3>2. consumed' - confirmed' - Len(buf) = 1
      BY <1>1, <2>1
    <3>3. QED BY <2>1, <2>2, <3>1, <3>2, AccountNext
  <2>4. MeasuredBudget' /\ EndsComplete' /\ PendingInv' /\ CutInv'
        /\ (pc = "ready" => buf # <<>>)'
    BY <2>1 DEF PlannerInv, MeasuredBudget, EndsComplete, PendingInv, CutInv
  <2>5. QED BY <2>2, <2>3, <2>4 DEF PlannerInv
<1>6. CASE SingleSize(row) <= MaxBytes /\ Candidate(row) > MaxBytes
  <2>1. /\ pc' = "flush" /\ pending' = row
        /\ UNCHANGED <<buf, size, confirmed, completed>>
    BY <1>4, <1>6 DEF Place, progressVars
  <2>2. BufferTypeOK'
    BY <1>1, <2>1 DEF BufferTypeOK
  <2>3. RecordsAccounted'
    <3>1. Count(buf', pending') = Len(buf) + 1 /\ Places(buf', pending', confirmed')
      BY <1>1, <1>2, <1>3, <2>1 DEF Count, Places
    <3>2. consumed' = confirmed' + (Len(buf) + 1)
      BY <1>1, <2>1
    <3>3. QED BY <2>1, <2>2, <3>1, <3>2, AccountNext
  <2>4. Candidate(row)' = Candidate(row)
    BY <2>1 DEF Candidate
  <2>5. MeasuredBudget' /\ EndsComplete' /\ PendingInv' /\ (pc = "ready" => buf # <<>>)'
    BY <1>6, <2>1 DEF PlannerInv, MeasuredBudget, EndsComplete, PendingInv
  <2>6. CutInv'
    BY <1>2, <1>6, <2>1, <2>4 DEF CutInv
  <2>7. QED BY <2>2, <2>3, <2>5, <2>6 DEF PlannerInv
<1>7. CASE SingleSize(row) <= MaxBytes /\ Candidate(row) <= MaxBytes
  <2>1. /\ pc' = "fill" /\ pending' = NoRow
        /\ buf' = Append(buf, row) /\ size' = Candidate(row)
        /\ UNCHANGED <<confirmed, completed>>
    BY <1>2, <1>4, <1>7 DEF Place, progressVars
  <2>2. /\ buf' \in Seq(Row) /\ Len(buf') = Len(buf) + 1
        /\ \A i \in 1..Len(buf) : buf'[i] = buf[i]
        /\ buf'[Len(buf) + 1] = row
    BY <1>1, <2>1
  <2>3. BufferTypeOK'
    BY <1>1, <1>4, <2>1, <2>2 DEF BufferTypeOK
  <2>4. RecordsAccounted'
    <3>1. ASSUME NEW i \in 1..Len(buf') PROVE buf'[i].at = confirmed + i - 1
      <4>1. CASE i = Len(buf) + 1
        BY <1>1, <2>2, <4>1
      <4>2. CASE i # Len(buf) + 1
        <5>1. i \in 1..Len(buf)
          BY <1>1, <2>2, <4>2
        <5>2. QED BY <1>3, <2>2, <5>1
      <4>3. QED BY <4>1, <4>2
    <3>2. Count(buf', pending') = Len(buf) + 1 /\ Places(buf', pending', confirmed')
      BY <1>1, <2>1, <2>2, <3>1 DEF Count, Places
    <3>3. consumed' = confirmed' + (Len(buf) + 1)
      BY <1>1, <2>1
    <3>4. QED BY <2>1, <2>3, <3>2, <3>3, AccountNext
  <2>5. MeasuredBudget'
    <3>1. CASE buf = <<>>
      <4>1. buf' = <<row>> /\ size' = SingleSize(row)
        BY <2>1, <3>1 DEF Candidate
      <4>2. BodyLen(<<row>>) = SingleSize(row)
        BY BodyLenSingle
      <4>3. QED BY <1>7, <4>1, <4>2 DEF MeasuredBudget
    <3>2. CASE buf # <<>>
      <4>1. size = BodyLen(buf)
        BY <3>2 DEF PlannerInv, MeasuredBudget
      <4>2. size' = size + 2 + PlaceholderLen + 1 + FragmentLen(row, Len(buf) * Width)
        BY <2>1, <3>2 DEF Candidate
      <4>3. BodyLen(Append(buf, row))
              = BodyLen(buf) + 2 + PlaceholderLen + 1 + FragmentLen(row, Len(buf) * Width)
        BY <1>1, <3>2, BodyLenAppend
      <4>4. size' = BodyLen(buf') /\ size' <= MaxBytes
        BY <1>7, <2>1, <4>1, <4>2, <4>3
      <4>5. QED BY <4>4 DEF MeasuredBudget
    <3>3. QED BY <3>1, <3>2
  <2>6. EndsComplete' /\ PendingInv' /\ CutInv' /\ (pc = "ready" => buf # <<>>)'
    BY <2>1 DEF EndsComplete, PendingInv, CutInv
  <2>7. QED BY <2>3, <2>4, <2>5, <2>6 DEF PlannerInv
<1>8. QED BY <1>4, <1>5, <1>6, <1>7

LEMMA TakePendingStep == ASSUME PlannerInv, TakePending PROVE PlannerInv'
<1>1. /\ Filling /\ pending # NoRow /\ Place(pending) /\ UNCHANGED <<exhausted, consumed>>
      /\ BufferTypeOK /\ pc = "fill"
  BY DEF TakePending, Filling, PlannerInv
<1>2. pending \in Row
  BY <1>1 DEF BufferTypeOK
<1>3. pending.at = confirmed + Len(buf) /\ consumed = confirmed + (Len(buf) + 1)
  BY <1>1, AccountNow DEF PlannerInv, Places, Count
<1>4. consumed' = confirmed + Len(buf) + 1
  BY <1>1, <1>3 DEF BufferTypeOK
<1>5. QED BY <1>1, <1>2, <1>3, <1>4, PlaceStep

LEMMA TakeRecordStep ==
    ASSUME PlannerInv, NEW len \in RowLens, TakeRecord(len)
    PROVE  PlannerInv'
<1> DEFINE row == [at |-> consumed, len |-> len]
<1>1. /\ Filling /\ pending = NoRow /\ Place(row) /\ UNCHANGED exhausted
      /\ consumed' = consumed + 1
      /\ BufferTypeOK /\ pc = "fill"
  BY DEF TakeRecord, MayPull, Filling, PlannerInv
<1>2. row \in Row /\ row.at = consumed
  BY <1>1 DEF BufferTypeOK, Row
<1>3. consumed = confirmed + Len(buf) /\ Len(buf) \in Nat /\ confirmed \in Nat
  BY <1>1, AccountNow DEF PlannerInv, BufferTypeOK, Count
<1> HIDE DEF row
<1>4. QED BY <1>1, <1>2, <1>3, PlaceStep

\* A local error leaves every record where it was; the one it is about is not held.
LEMMA LocalErrorStep ==
    ASSUME PlannerInv, pc \in {"fill", "flush"}, NEW ph \in {"input", "validation"},
           LocalError(ph), UNCHANGED <<buf, size, pending, exhausted>>,
           \/ UNCHANGED consumed
           \/ ph = "validation" /\ consumed' = consumed + 1
    PROVE  PlannerInv'
<1>1. /\ pc' = "raised" /\ phase' = ph
      /\ UNCHANGED <<buf, size, pending, exhausted, confirmed, completed>>
  BY DEF LocalError, progressVars
<1>2. BufferTypeOK /\ consumed \in Nat /\ confirmed \in Nat /\ buf \in Seq(Row)
  BY DEF PlannerInv, BufferTypeOK
<1>3. BufferTypeOK'
  BY <1>1, <1>2 DEF BufferTypeOK
<1>4. RecordsAccounted'
  <2>1. Places(buf, pending, confirmed) /\ consumed = confirmed + Count(buf, pending)
    BY <1>2, AccountNow DEF PlannerInv
  <2>2. Count(buf, pending) \in Nat
    BY <1>2 DEF Count
  <2>3. CASE consumed' = consumed /\ ph = "input"
    BY <1>1, <1>3, <2>1, <2>3, AccountNext
  <2>4. CASE ph = "validation"
    <3>1. consumed' - confirmed - Count(buf, pending) \in {0, 1}
      BY <1>2, <2>1, <2>2
    <3>2. QED BY <1>1, <1>3, <2>1, <2>4, <3>1, AccountNext
  <2>5. QED BY <2>3, <2>4
<1>5. MeasuredBudget' /\ EndsComplete' /\ PendingInv' /\ CutInv'
      /\ (pc = "ready" => buf # <<>>)'
  BY <1>1 DEF PlannerInv, MeasuredBudget, EndsComplete, PendingInv, CutInv
<1>6. QED BY <1>3, <1>4, <1>5 DEF PlannerInv

\* The loop ends with the buffer as it is.
LEMMA FlushStep ==
    ASSUME PlannerInv, pc = "fill", pc' = "flush",
           UNCHANGED <<buf, size, pending, consumed, progressVars, reportVars>>,
           exhausted' \in BOOLEAN,
           Len(buf) = MaxRows \/ (pending = NoRow /\ exhausted')
    PROVE  PlannerInv'
<1>1. UNCHANGED <<confirmed, completed, phase>>
  BY DEF progressVars, reportVars
<1>2. BufferTypeOK /\ BufferTypeOK'
  BY <1>1 DEF PlannerInv, BufferTypeOK
<1>3. RecordsAccounted'
  BY <1>1, <1>2, AccountNow, AccountNext DEF PlannerInv
<1>4. MeasuredBudget' /\ EndsComplete' /\ PendingInv' /\ CutInv'
      /\ (pc = "ready" => buf # <<>>)'
  BY <1>1 DEF PlannerInv, MeasuredBudget, EndsComplete, PendingInv, CutInv
<1>5. QED BY <1>2, <1>3, <1>4 DEF PlannerInv

\* The body is measured once more: its length is the size, so no import ends here.
LEMMA PrepareStep == ASSUME PlannerInv, Prepare PROVE PlannerInv'
<1>1. pc = "flush" /\ UNCHANGED <<buf, size, pending, exhausted, consumed>>
  BY DEF Prepare, bufferVars
<1>2. ~ (buf # <<>> /\ (BodyLen(buf) # size \/ BodyLen(buf) > MaxBytes))
  <2>1. CASE buf # <<>>
    <3>1. size = BodyLen(buf) /\ size <= MaxBytes /\ size \in Nat /\ MaxBytes \in Nat
      BY <2>1, PlannerAssumption DEF PlannerInv, MeasuredBudget, BufferTypeOK
    <3>2. QED BY <3>1
  <2>2. QED BY <2>1
<1>3. /\ pc' = IF buf = <<>> THEN "end" ELSE "ready"
      /\ UNCHANGED <<confirmed, completed, phase>>
  BY <1>2 DEF Prepare, progressVars, reportVars
<1>4. BufferTypeOK /\ BufferTypeOK'
  BY <1>1, <1>3 DEF PlannerInv, BufferTypeOK
<1>5. RecordsAccounted'
  BY <1>1, <1>3, <1>4, AccountNow, AccountNext DEF PlannerInv
<1>6. MeasuredBudget' /\ PendingInv' /\ (pc = "ready" => buf # <<>>)'
  BY <1>1, <1>3 DEF PlannerInv, MeasuredBudget, PendingInv
<1>7. CutInv'
  BY <1>1, <1>3 DEF PlannerInv, CutInv, Candidate
<1>8. EndsComplete'
  <2>1. SUFFICES ASSUME buf = <<>>
                 PROVE  exhausted /\ pending = NoRow /\ consumed = confirmed
    BY <1>1, <1>3 DEF EndsComplete
  <2>2. Len(buf) # MaxRows /\ Len(buf) = 0
    BY <2>1, PlannerAssumption
  <2>3. ~ (pending # NoRow /\ Candidate(pending) > MaxBytes)
    <3>1. SUFFICES ASSUME pending # NoRow PROVE ~ (Candidate(pending) > MaxBytes)
      OBVIOUS
    <3>2. Candidate(pending) = SingleSize(pending) /\ SingleSize(pending) <= MaxBytes
      BY <2>1, <3>1 DEF PlannerInv, PendingInv, Candidate
    <3>3. SingleSize(pending) \in Nat /\ MaxBytes \in Nat
      BY <1>4, <3>1, CandidateNat, PlannerAssumption DEF BufferTypeOK
    <3>4. QED BY <3>2, <3>3
  <2>4. pending = NoRow /\ exhausted
    BY <1>1, <2>2, <2>3 DEF PlannerInv, CutInv
  <2>5. consumed = confirmed + 0
    BY <1>1, <1>4, <2>2, <2>4, AccountNow DEF PlannerInv, Count
  <2>6. QED BY <1>4, <2>4, <2>5 DEF BufferTypeOK
<1>9. QED BY <1>4, <1>5, <1>6, <1>7, <1>8 DEF PlannerInv

\* Every turn of the loop.
LEMMA NextBatchStep == ASSUME PlannerInv, NextBatch PROVE PlannerInv'
<1>1. CASE TakePending
  BY <1>1, TakePendingStep
<1>2. CASE \E len \in RowLens : TakeRecord(len)
  BY <1>2, TakeRecordStep
<1>3. CASE TakeInvalid
  BY <1>3, LocalErrorStep DEF TakeInvalid, MayPull, Filling
<1>4. CASE SourceFails
  BY <1>4, LocalErrorStep DEF SourceFails, MayPull, Filling, bufferVars
<1>5. CASE SourceEnds
  BY <1>5, FlushStep DEF SourceEnds, Filling
<1>6. CASE BatchFull
  <2>1. exhausted \in BOOLEAN
    BY DEF PlannerInv, BufferTypeOK
  <2>2. QED BY <1>6, <2>1, FlushStep DEF BatchFull, bufferVars
<1>7. CASE Prepare
  BY <1>7, PrepareStep
<1>8. QED BY <1>1, <1>2, <1>3, <1>4, <1>5, <1>6, <1>7 DEF NextBatch

\* A confirmed batch moves the boundary past its records.
LEMMA ConfirmedStep ==
    ASSUME PlannerInv, confirm, buf # <<>>, pc # "raised"
    PROVE  PlannerInv'
<1>1. /\ completed' = Append(completed, [start |-> confirmed, rows |-> Len(buf)])
      /\ confirmed' = confirmed + Len(buf)
      /\ buf' = <<>> /\ size' = 0 /\ pc' = "fill"
      /\ UNCHANGED <<pending, exhausted, consumed, phase>>
  BY DEF confirm, reportVars
<1>2. /\ BufferTypeOK /\ confirmed \in Nat /\ Len(buf) \in Nat \ {0}
      /\ completed \in Seq(Summary) /\ consumed \in Nat
  BY DEF PlannerInv, BufferTypeOK
<1>3. BufferTypeOK'
  BY <1>1, <1>2 DEF BufferTypeOK, Summary
<1>4. RecordsAccounted'
  <2>1. /\ Places(buf, pending, confirmed)
        /\ consumed = confirmed + Count(buf, pending)
    BY <1>2, AccountNow DEF PlannerInv
  <2>2. Places(buf', pending', confirmed')
    <3>1. Len(buf') = 0 /\ confirmed' + Len(buf') = confirmed + Len(buf)
      BY <1>1, <1>2
    <3>2. pending # NoRow => pending.at = confirmed + Len(buf)
      BY <2>1 DEF Places
    <3>3. \A i \in 1..Len(buf') : FALSE
      BY <3>1
    <3>4. QED BY <1>1, <3>1, <3>2, <3>3 DEF Places
  <2>3. consumed' = confirmed' + Count(buf', pending')
    <3> DEFINE c == IF pending = NoRow THEN 0 ELSE 1
    <3>1. c \in Nat
      OBVIOUS
    <3>2. Count(buf, pending) = Len(buf) + c /\ Count(buf', pending') = 0 + c
      BY <1>1 DEF Count
    <3> HIDE DEF c
    <3>3. QED BY <1>1, <1>2, <2>1, <3>1, <3>2
  <2>4. QED BY <1>1, <1>3, <2>2, <2>3, AccountNext
<1>5. MeasuredBudget' /\ EndsComplete' /\ PendingInv' /\ CutInv'
      /\ (pc = "ready" => buf # <<>>)'
  BY <1>1 DEF PlannerInv, MeasuredBudget, EndsComplete, PendingInv, CutInv
<1>6. QED BY <1>3, <1>4, <1>5 DEF PlannerInv

\* While a batch is sent and waited for, and when that fails, the planner rests.
LEMMA RestingStep ==
    ASSUME PlannerInv, UNCHANGED <<bufferVars, progressVars>>,
           pc # "raised", pc' \notin {"flush", "ready", "end"}
    PROVE  PlannerInv'
<1>1. UNCHANGED <<buf, size, pending, exhausted, consumed, confirmed, completed>>
  BY DEF bufferVars, progressVars
<1>2. BufferTypeOK /\ BufferTypeOK' /\ consumed \in Nat /\ confirmed \in Nat
      /\ buf \in Seq(Row)
  BY <1>1 DEF PlannerInv, BufferTypeOK
<1>3. RecordsAccounted'
  <2>1. Places(buf, pending, confirmed) /\ consumed = confirmed + Count(buf, pending)
    BY <1>2, AccountNow DEF PlannerInv
  <2>2. Count(buf, pending) \in Nat
    BY <1>2 DEF Count
  <2>3. consumed - confirmed - Count(buf, pending) = 0
    BY <1>2, <2>1, <2>2
  <2>4. QED BY <1>1, <1>2, <2>1, <2>3, AccountNext
<1>4. MeasuredBudget' /\ EndsComplete' /\ PendingInv' /\ CutInv'
      /\ (pc = "ready" => buf # <<>>)'
  BY <1>1 DEF PlannerInv, MeasuredBudget, EndsComplete, PendingInv, CutInv
<1>5. QED BY <1>2, <1>3, <1>4 DEF PlannerInv

LEMMA PlannerInvInit == PlannerInit => PlannerInv
<1>1. SUFFICES ASSUME PlannerInit PROVE PlannerInv
  OBVIOUS
<1>2. /\ pc = "fill" /\ buf = <<>> /\ size = 0 /\ pending = NoRow /\ exhausted = FALSE
      /\ consumed = 0 /\ confirmed = 0 /\ completed = <<>>
  BY <1>1 DEF PlannerInit
<1>3. BufferTypeOK
  <2>1. <<>> \in Seq(Row) /\ <<>> \in Seq(Summary)
    OBVIOUS
  <2>2. QED BY <1>2, <2>1 DEF BufferTypeOK
<1>4. RecordsAccounted
  <2>1. Places(buf, pending, confirmed) /\ Count(buf, pending) = 0
    BY <1>2 DEF Places, Count
  <2>2. QED BY <1>2, <1>3, <2>1, AccountNow
<1>5. QED BY <1>2, <1>3, <1>4
          DEF PlannerInv, MeasuredBudget, EndsComplete, PendingInv, CutInv

LEMMA PlannerInvStep == PlannerInv /\ [PlannerNext]_plannerVars => PlannerInv'
<1>1. SUFFICES ASSUME PlannerInv, [PlannerNext]_plannerVars PROVE PlannerInv'
  OBVIOUS
<1>2. CASE NextBatch
  BY <1>1, <1>2, NextBatchStep
<1>3. CASE Written
  BY <1>1, <1>3, ConfirmedStep DEF Written, PlannerInv
<1>4. CASE UNCHANGED plannerVars
  <2>1. UNCHANGED <<pc, buf, size, pending, exhausted, consumed, confirmed, completed,
                    phase, outcome>>
    BY <1>4 DEF plannerVars, bufferVars, progressVars, reportVars
  <2>2. QED BY <1>1, <2>1
        DEF PlannerInv, BufferTypeOK, RecordsAccounted, LookAhead, MeasuredBudget,
            EndsComplete, PendingInv, CutInv, Candidate
<1>5. QED BY <1>1, <1>2, <1>3, <1>4 DEF PlannerNext

\* A batch that is ready is full, or the record beside it does not fit, or it is the
\* last one.
LEMMA GreedyNow == PlannerInv => BatchesGreedy
<1>1. SUFFICES ASSUME PlannerInv PROVE BatchesGreedy
  OBVIOUS
<1>2. /\ buf \in Seq(Row) /\ pending \in Row \cup {NoRow}
      /\ pc = "ready" => buf # <<>>
  BY <1>1 DEF PlannerInv, BufferTypeOK
<1>3. pending # NoRow => BodyLen(<<pending>>) <= MaxBytes
  BY <1>1, <1>2, BodyLenSingle DEF PlannerInv, PendingInv
<1>4. ASSUME pc = "ready", pending # NoRow
      PROVE  BodyLen(Append(buf, pending)) = Candidate(pending)
  <2>1. buf # <<>> /\ pending \in Row /\ size = BodyLen(buf)
    BY <1>1, <1>2, <1>4 DEF PlannerInv, MeasuredBudget
  <2>2. Candidate(pending) = size + 2 + PlaceholderLen + 1
                               + FragmentLen(pending, Len(buf) * Width)
    BY <2>1 DEF Candidate
  <2>3. QED BY <1>2, <2>1, <2>2, BodyLenAppend
<1>5. QED BY <1>1, <1>3, <1>4 DEF PlannerInv, CutInv, BatchesGreedy

-----------------------------------------------------------------------------
\* The invariant of the planner, whatever the source yields and wherever it fails.
THEOREM PlannerInvariance == PlannerSpec => []PlannerInv
<1>1. QED BY PlannerInvInit, PlannerInvStep, PTL DEF PlannerSpec

\* next_batch() and confirm(): no record is lost or taken twice, in whatever order the
\* source, the limits and the look-ahead end a batch.
THEOREM RecordsNeverLost == PlannerSpec => []RecordsAccounted
<1>1. PlannerInv => RecordsAccounted
  BY DEF PlannerInv
<1>2. QED BY <1>1, PlannerInvariance, PTL

\* The running size is the length of the body, for every number of columns and of
\* digits in the binding keys.
THEOREM SizesExact == PlannerSpec => []MeasuredBudget
<1>1. PlannerInv => MeasuredBudget
  BY DEF PlannerInv
<1>2. QED BY <1>1, PlannerInvariance, PTL

\* A batch is never cut short where one more record would have fitted.
THEOREM CutsGreedy == PlannerSpec => []BatchesGreedy
<1>1. QED BY GreedyNow, PlannerInvariance, PTL

\* insert_batches() ends only when every record of the source is confirmed.
THEOREM EndIsWhole == PlannerSpec => []EndsComplete
<1>1. PlannerInv => EndsComplete
  BY DEF PlannerInv
<1>2. QED BY <1>1, PlannerInvariance, PTL

-----------------------------------------------------------------------------
(* Planning, as the rest of the system sees it.                             *)

PlanFrame ==
    /\ pc \in {"fill", "flush", "ready"}
    /\ UNCHANGED <<confirmed, completed>>
    /\ \/ /\ pc' \in {"fill", "flush", "ready", "end"}
          /\ UNCHANGED <<phase, outcome>>
       \/ /\ pc' = "raised"
          /\ phase' \in {"input", "validation"}
          /\ outcome' = "not_executed"

RowsOK == BufferTypeOK /\ RowsInv

\* A record the loop has in hand is counted once, wherever the loop puts it.
LEMMA PlaceRows ==
    ASSUME NEW row \in Row, RowsOK, Filling, Place(row), UNCHANGED exhausted,
           consumed' \in Nat, consumed' <= MaxInput,
           confirmed + Len(buf) + 1 <= consumed'
    PROVE  PlanFrame /\ RowsOK'
<1>1. /\ buf \in Seq(Row) /\ size \in Nat /\ exhausted \in BOOLEAN
      /\ confirmed \in Nat /\ completed \in Seq(Summary)
      /\ Len(completed) \in Nat /\ Len(buf) \in Nat
      /\ Len(completed) <= confirmed
      /\ MaxInput \in Nat
  BY PlannerAssumption DEF RowsOK, BufferTypeOK, RowsInv, Current
<1>2. pc = "fill"
  BY DEF Filling
<1>3. CASE SingleSize(row) > MaxBytes
  <2>1. /\ pc' = "raised" /\ phase' = "validation" /\ outcome' = "not_executed"
        /\ UNCHANGED <<confirmed, completed, buf, size>> /\ pending' = NoRow
    BY <1>3 DEF Place, LocalError, progressVars
  <2> QED
    BY <1>1, <1>2, <2>1 DEF PlanFrame, RowsOK, BufferTypeOK, RowsInv, Current
<1>4. CASE ~ (SingleSize(row) > MaxBytes) /\ Candidate(row) > MaxBytes
  <2>1. /\ pc' = "flush" /\ UNCHANGED <<phase, outcome>>
        /\ UNCHANGED <<confirmed, completed, buf, size>> /\ pending' = row
    BY <1>4 DEF Place, progressVars, reportVars
  <2> QED
    BY <1>1, <1>2, <2>1 DEF PlanFrame, RowsOK, BufferTypeOK, RowsInv, Current
<1>5. CASE ~ (SingleSize(row) > MaxBytes) /\ ~ (Candidate(row) > MaxBytes)
  <2>1. /\ pc' = pc /\ UNCHANGED <<phase, outcome>>
        /\ UNCHANGED <<confirmed, completed>> /\ pending' = NoRow
        /\ buf' = Append(buf, row) /\ size' = Candidate(row)
    BY <1>5 DEF Place, progressVars, reportVars
  <2>2. size' \in Nat
    BY <2>1, CandidateNat DEF RowsOK
  <2>3. buf' \in Seq(Row) /\ Len(buf') = Len(buf) + 1
    BY <1>1, <2>1
  <2> QED
    BY <1>1, <1>2, <2>1, <2>2, <2>3
    DEF PlanFrame, RowsOK, BufferTypeOK, RowsInv, Current
<1> QED
  BY <1>3, <1>4, <1>5

\* Every step of next_batch(), one case per action.
LEMMA NextBatchRows ==
    ASSUME RowsOK, NextBatch
    PROVE  PlanFrame /\ RowsOK'
<1>1. /\ buf \in Seq(Row) /\ size \in Nat /\ exhausted \in BOOLEAN
      /\ pending \in Row \cup {NoRow} /\ consumed \in Nat
      /\ confirmed \in Nat /\ completed \in Seq(Summary)
      /\ Len(completed) \in Nat /\ Len(buf) \in Nat
      /\ Len(completed) <= confirmed /\ consumed <= MaxInput
      /\ pending = NoRow => confirmed + Len(buf) <= consumed
      /\ pending # NoRow => confirmed + Len(buf) + 1 <= consumed
      /\ MaxInput \in Nat
  BY PlannerAssumption DEF RowsOK, BufferTypeOK, RowsInv, Current
<1>2. CASE TakePending
  BY <1>1, <1>2, PlaceRows DEF TakePending
<1>3. ASSUME NEW len \in RowLens, TakeRecord(len)
      PROVE  PlanFrame /\ RowsOK'
  <2>1. /\ pending = NoRow /\ Filling /\ consumed' = consumed + 1
        /\ consumed < MaxInput /\ UNCHANGED exhausted
        /\ Place([at |-> consumed, len |-> len])
    BY <1>3 DEF TakeRecord, MayPull
  <2>2. [at |-> consumed, len |-> len] \in Row
    BY <1>1, <1>3 DEF Row
  <2>3. /\ consumed' \in Nat /\ consumed' <= MaxInput
        /\ confirmed + Len(buf) + 1 <= consumed'
    BY <1>1, <2>1
  <2> QED
    BY <2>1, <2>2, <2>3, PlaceRows
<1>4. CASE TakeInvalid
  BY <1>1, <1>4 DEF TakeInvalid, MayPull, Filling, LocalError, progressVars,
     PlanFrame, RowsOK, BufferTypeOK, RowsInv, Current
<1>5. CASE SourceFails
  BY <1>1, <1>5 DEF SourceFails, MayPull, Filling, LocalError, progressVars,
     bufferVars, PlanFrame, RowsOK, BufferTypeOK, RowsInv, Current
<1>6. CASE SourceEnds
  BY <1>1, <1>6 DEF SourceEnds, Filling, progressVars, reportVars,
     PlanFrame, RowsOK, BufferTypeOK, RowsInv, Current
<1>7. CASE BatchFull
  BY <1>1, <1>7 DEF BatchFull, progressVars, reportVars, bufferVars,
     PlanFrame, RowsOK, BufferTypeOK, RowsInv, Current
<1>8. CASE Prepare
  BY <1>1, <1>8 DEF Prepare, LocalError, progressVars, reportVars, bufferVars,
     PlanFrame, RowsOK, BufferTypeOK, RowsInv, Current
<1> QED
  BY <1>2, <1>3, <1>4, <1>5, <1>6, <1>7, <1>8 DEF NextBatch
-----------------------------------------------------------------------------
(* Facts about the present batch.                                           *)

\* The present batch has a requestId within bounds, and None is no execution.
LEMMA CurrentBatch ==
    ASSUME TypeOK, RowsInv
    PROVE  /\ Current \in Nat /\ Current \in Requests
           /\ \A n \in 1..MaxAttempts : <<Current, n>> \in Execs
           /\ None \notin Execs
<1>1. completed \in Seq(Summary) /\ consumed \in Nat /\ confirmed \in Nat
      /\ Len(buf) \in Nat /\ Len(completed) \in Nat
  BY DEF TypeOK, BufferTypeOK
<1>2. Current <= MaxInput
  BY <1>1, PlannerAssumption DEF RowsInv, Current
<1>3. Current \in Nat /\ Current \in Requests
  BY <1>1, <1>2, PlannerAssumption, SqlApiAssumption, BoundsAssumption
  DEF Requests, Current
<1>4. None \notin Execs
  BY SqlApiAssumption DEF None, Execs
<1> QED
  BY <1>3, <1>4 DEF Execs

\* What was not sent neither runs nor is in flight.
LEMMA UnsentNever ==
    ASSUME TypeOK, ServerInv, NEW id \in Execs, id \notin posted
    PROVE  stmt[id] = "none" /\ ran[id] = None /\ ~ InFlight(id)
<1>1. None \notin Execs
  BY SqlApiAssumption DEF None, Execs
<1>2. ran[id] = None
  BY DEF ServerInv
<1>3. stmt[id] = "none"
  BY <1>1, <1>2 DEF ServerInv
<1>4. ~ InFlight(id)
  BY DEF ServerInv, InFlight
<1> QED
  BY <1>2, <1>3, <1>4

\* If nothing was sent for the present batch, nothing of it ever runs.
LEMMA NothingSent ==
    ASSUME TypeOK, RowsInv, ServerInv, Sent(Current, 0)
    PROVE  Never(Current, {"running", "committed", "aborted"})
<1>1. ASSUME NEW n \in 1..MaxAttempts
      PROVE  /\ stmt[<<Current, n>>] = "none"
             /\ ~ InFlight(<<Current, n>>)
  <2>1. n \in Nat /\ n >= 1
    BY SqlApiAssumption
  <2>2. <<Current, n>> \in Execs /\ <<Current, n>> \notin posted
    BY <2>1, CurrentBatch DEF Sent
  <2> QED
    BY <2>2, UnsentNever
<1> QED
  BY <1>1 DEF Never

-----------------------------------------------------------------------------
(* Local steps: planning, and on_query raising.                             *)

LEMMA PlanFrameInv ==
    ASSUME Inv, PlanFrame, RowsOK',
           UNCHANGED <<serverVars, transportVars, failed, expired>>
    PROVE  Inv'
<1> USE DEF serverVars, transportVars
<1>1. TypeOK' /\ RowsInv'
  BY DEF Inv, TypeOK, RowsOK, PlanFrame, Phases, Outcomes, ServerTypeOK,
         TransportTypeOK
<1>2. Current' = Current /\ Durable' = Durable
  BY DEF PlanFrame, Current, Durable
<1>3. ServerInv' /\ OnceInv' 
  BY DEF Inv, ServerInv, OnceInv
<1>4. Sent(Current, 0)
  BY DEF Inv, OrderInv, PlanFrame, ReportsBatch
<1>5. Sent(Current, 0)'
  BY <1>2, <1>4 DEF Sent
<1>6. OrderInv'
  BY <1>2, <1>5 DEF Inv, OrderInv
<1>7. CallInv'
  BY DEF Inv, CallInv, PlanFrame
<1>8. SubmitInv' /\ PollInv' /\ ReportInv'
  BY DEF PlanFrame, SubmitInv, PollInv, ReportInv, ReportsBatch, Inv
<1>9. VerdictSound'
  <2>1. CASE pc' = "raised"
    <3>1. outcome' = "not_executed"
      BY <2>1 DEF PlanFrame
    <3>2. Never(Current, {"running", "committed", "aborted"})'
      BY <1>1, <1>3, <1>5, NothingSent, PTL
    <3> QED
      BY <2>1, <3>1, <3>2 DEF VerdictSound
  <2>2. CASE pc' # "raised"
    BY <2>2 DEF VerdictSound
  <2> QED
    BY <2>1, <2>2
<1> QED
  BY <1>1, <1>3, <1>6, <1>7, <1>8, <1>9 DEF Inv

LEMMA PlanInv == ASSUME Inv, Plan PROVE Inv'
<1>1. RowsOK /\ NextBatch
  BY DEF Inv, TypeOK, RowsOK, Plan
<1>2. PlanFrame /\ RowsOK'
  BY <1>1, NextBatchRows
<1> QED
  BY <1>2, PlanFrameInv DEF Plan

LEMMA NotifyFailsInv == ASSUME Inv, NotifyFails PROVE Inv'
<1>1. RowsOK
  BY DEF Inv, TypeOK, RowsOK
<1>2. PlanFrame /\ RowsOK'
  BY <1>1 DEF NotifyFails, LocalError, PlanFrame, progressVars, bufferVars,
     RowsOK, BufferTypeOK, RowsInv, Current
<1> QED
  BY <1>2, PlanFrameInv DEF NotifyFails
-----------------------------------------------------------------------------
(* Steps of the service and the network.                                    *)

\* Whatever they do, an execution does not disappear, a final state is final,
\* and a POST that is no longer in flight has had its effect.
ServerFrame ==
    /\ UNCHANGED <<plannerVars, transportVars, failed, expired>>
    /\ \A e \in Execs : stmt[e] # "none" => stmt'[e] # "none"
    /\ \A e \in Execs : stmt[e] \in {"committed", "aborted"} => stmt'[e] = stmt[e]
    /\ \A e \in Execs : ~ InFlight(e) =>
         /\ ~ InFlight(e)'
         /\ ran'[e] = ran[e]
         /\ stmt[e] = "none" => stmt'[e] = "none"

\* Start is the step that could run a batch twice.
LEMMA StartServer ==
    ASSUME Inv, Serve, NEW m \in net, Start(m)
    PROVE  ServerTypeOK' /\ ServerInv' /\ OnceInv' /\ ServerFrame
<1> DEFINE id == m.id
<1>1. /\ net \subseteq [id : Execs, retry : BOOLEAN] /\ ran \in [Execs -> Handles]
      /\ stmt \in [Execs -> {"none", "running", "committed", "aborted"}]
      /\ cancels \subseteq Execs /\ id \in Execs /\ m.retry \in BOOLEAN
      /\ posted \subseteq Execs /\ posted' = posted
  BY DEF Inv, TypeOK, ServerTypeOK, TransportTypeOK, Serve, transportVars
<1>2. /\ net' = net \ {m} /\ ran' = [ran EXCEPT ![id] = id]
      /\ stmt' = [stmt EXCEPT ![id] = "running"] /\ cancels' = cancels
  BY DEF Start
<1>3. None \notin Execs /\ id # None /\ Handles = Execs \cup {None}
  BY <1>1, CurrentBatch DEF Inv, Handles
<1>4. /\ \A e \in Execs : stmt[e] # "none" => ran[e] = e
      /\ \A e \in Execs : ran[e] # None =>
           e \in posted /\ ran[e][1] = e[1] /\ stmt[ran[e]] # "none"
      /\ \A o \in net : o.id \in posted /\ ran[o.id] = None
      /\ \A o, q \in net : o.id = q.id => o = q
  BY DEF Inv, ServerInv
<1>5. ran[id] = None /\ stmt[id] = "none" /\ id \in posted /\ InFlight(id)
  BY <1>1, <1>3, <1>4 DEF InFlight
<1>6. ServerTypeOK'
  BY <1>1, <1>2, <1>3 DEF ServerTypeOK
<1>7. ServerInv'
  <2>1. \A e \in Execs : stmt'[e] # "none" => ran'[e] = e
    BY <1>1, <1>2, <1>4
  <2>2. \A e \in Execs : ran'[e] # None =>
          e \in posted' /\ ran'[e][1] = e[1] /\ stmt'[ran'[e]] # "none"
    <3> TAKE e \in Execs
    <3>1. CASE e = id
      BY <3>1, <1>1, <1>2, <1>5
    <3>2. CASE e # id /\ ran[e] # None
      <4>1. ran'[e] = ran[e] /\ ran[e] \in Execs
        BY <3>2, <1>1, <1>2, <1>3
      <4> QED
        BY <3>2, <4>1, <1>1, <1>2, <1>4
    <3>3. CASE e # id /\ ran[e] = None
      BY <3>3, <1>1, <1>2
    <3> QED
      BY <3>1, <3>2, <3>3
  <2>3. \A o \in net' : o.id \in posted' /\ ran'[o.id] = None
    <3> TAKE o \in net'
    <3>1. o \in net /\ o # m /\ o.id # id /\ o.id \in Execs
      BY <1>1, <1>2, <1>4
    <3> QED
      BY <3>1, <1>1, <1>2, <1>4
  <2>4. \A o, q \in net' : o.id = q.id => o = q
    BY <1>2, <1>4
  <2> QED
    BY <2>1, <2>2, <2>3, <2>4 DEF ServerInv
<1>8. OnceInv'
  <2> SUFFICES ASSUME HistoryRetained, InOrder
               PROVE  /\ \A o \in net' : ~ o.retry => o.id[2] = 1
                      /\ \A o \in net', e \in Execs :
                           o.id[1] = e[1] /\ stmt'[e] # "none" => e[2] < o.id[2]
                      /\ \A e, f \in Execs :
                           /\ e[1] = f[1]
                           /\ stmt'[e] \in {"running", "committed"}
                           /\ stmt'[f] \in {"running", "committed"}
                           => e = f
    BY DEF OnceInv
  <2>1. /\ \A o \in net : ~ o.retry => o.id[2] = 1
        /\ \A o \in net, e \in Execs :
             o.id[1] = e[1] /\ stmt[e] # "none" => e[2] < o.id[2]
        /\ \A e, f \in Execs :
             /\ e[1] = f[1]
             /\ stmt[e] \in {"running", "committed"}
             /\ stmt[f] \in {"running", "committed"}
             => e = f
    BY DEF Inv, OnceInv
  <2>2. \A e \in Execs : e[2] \in Nat /\ e[2] >= 1 /\ e = <<e[1], e[2]>>
    BY SqlApiAssumption DEF Execs
  <2>3. \A o \in net' : ~ o.retry => o.id[2] = 1
    BY <1>2, <2>1
  <2>4. \A o \in net', e \in Execs :
          o.id[1] = e[1] /\ stmt'[e] # "none" => e[2] < o.id[2]
    <3> TAKE o \in net', e \in Execs
    <3>1. o \in net /\ o # m /\ o.id # id /\ o.id \in Execs
      BY <1>1, <1>2, <1>4
    <3>2. CASE e = id /\ o.id[1] = e[1]
      <4>1. id[2] <= o.id[2]
        BY <3>1, <3>2 DEF Start, Turn
      <4>2. id[2] # o.id[2]
        BY <3>1, <3>2, <2>2, <1>1
      <4> QED
        BY <3>1, <3>2, <4>1, <4>2, <2>2
    <3>3. CASE e # id
      BY <3>1, <3>3, <1>1, <1>2, <2>1
    <3> QED
      BY <3>2, <3>3
  <2>5. \A e \in Execs : e[1] = id[1] => stmt[e] \notin {"running", "committed"}
    <3> TAKE e \in Execs
    <3>1. CASE m.retry
      <4>1. \A x \in History(id[1]) : stmt[x] = "aborted"
        BY <3>1 DEF Start
      <4> QED
        BY <4>1 DEF History
    <3>2. CASE ~ m.retry
      <4>1. id[2] = 1
        BY <3>2, <2>1
      <4>2. id[1] = e[1] /\ stmt[e] # "none" => e[2] < 1
        BY <4>1, <2>1
      <4> QED
        BY <4>2, <2>2
    <3> QED
      BY <3>1, <3>2
  <2>6. \A e, f \in Execs :
          /\ e[1] = f[1]
          /\ stmt'[e] \in {"running", "committed"}
          /\ stmt'[f] \in {"running", "committed"}
          => e = f
    BY <1>1, <1>2, <2>1, <2>5
  <2> QED
    BY <2>3, <2>4, <2>6
<1>9. ServerFrame
  <2>1. \A e \in Execs : ~ InFlight(e) =>
          /\ ~ InFlight(e)' /\ ran'[e] = ran[e]
          /\ stmt[e] = "none" => stmt'[e] = "none"
    BY <1>1, <1>2, <1>5 DEF InFlight
  <2> QED
    BY <2>1, <1>1, <1>2, <1>5 DEF ServerFrame, Serve
<1> QED
  BY <1>6, <1>7, <1>8, <1>9

\* A resubmission is attached to a statement of the same requestId.
LEMMA RecallServer ==
    ASSUME Inv, Serve, NEW m \in net, Recall(m)
    PROVE  ServerTypeOK' /\ ServerInv' /\ OnceInv' /\ ServerFrame
<1> DEFINE id == m.id
<1>1. /\ net \subseteq [id : Execs, retry : BOOLEAN] /\ ran \in [Execs -> Handles]
      /\ stmt \in [Execs -> {"none", "running", "committed", "aborted"}]
      /\ cancels \subseteq Execs /\ id \in Execs
      /\ posted \subseteq Execs /\ posted' = posted
  BY DEF Inv, TypeOK, ServerTypeOK, TransportTypeOK, Serve, transportVars
<1>2. PICK e \in History(id[1]) : ran' = [ran EXCEPT ![id] = e]
  BY DEF Recall
<1>3. net' = net \ {m} /\ stmt' = stmt /\ cancels' = cancels
  BY DEF Recall
<1>4. e \in Execs /\ e[1] = id[1] /\ stmt[e] # "none"
  BY <1>2 DEF History
<1>5. None \notin Execs /\ Handles = Execs \cup {None}
  BY CurrentBatch DEF Inv, Handles
<1>6. /\ \A x \in Execs : stmt[x] # "none" => ran[x] = x
      /\ \A x \in Execs : ran[x] # None =>
           x \in posted /\ ran[x][1] = x[1] /\ stmt[ran[x]] # "none"
      /\ \A o \in net : o.id \in posted /\ ran[o.id] = None
      /\ \A o, q \in net : o.id = q.id => o = q
  BY DEF Inv, ServerInv
<1>7. ran[id] = None /\ stmt[id] = "none" /\ id \in posted /\ InFlight(id)
  BY <1>1, <1>5, <1>6 DEF InFlight
<1>8. ServerTypeOK'
  BY <1>1, <1>2, <1>3, <1>4, <1>5 DEF ServerTypeOK
<1>9. ServerInv'
  <2>1. \A x \in Execs : stmt'[x] # "none" => ran'[x] = x
    BY <1>1, <1>2, <1>3, <1>6, <1>7
  <2>2. \A x \in Execs : ran'[x] # None =>
          x \in posted' /\ ran'[x][1] = x[1] /\ stmt'[ran'[x]] # "none"
    <3> TAKE x \in Execs
    <3>1. CASE x = id
      BY <3>1, <1>1, <1>2, <1>3, <1>4, <1>7
    <3>2. CASE x # id
      BY <3>2, <1>1, <1>2, <1>3, <1>6
    <3> QED
      BY <3>1, <3>2
  <2>3. \A o \in net' : o.id \in posted' /\ ran'[o.id] = None
    <3> TAKE o \in net'
    <3>1. o \in net /\ o # m /\ o.id # id /\ o.id \in Execs
      BY <1>1, <1>3, <1>6
    <3> QED
      BY <3>1, <1>1, <1>2, <1>6
  <2>4. \A o, q \in net' : o.id = q.id => o = q
    BY <1>3, <1>6
  <2> QED
    BY <2>1, <2>2, <2>3, <2>4 DEF ServerInv
<1>10. OnceInv'
  BY <1>3 DEF Inv, OnceInv
<1>11. ServerFrame
  <2>1. \A x \in Execs : ~ InFlight(x) =>
          /\ ~ InFlight(x)' /\ ran'[x] = ran[x]
          /\ stmt[x] = "none" => stmt'[x] = "none"
    BY <1>1, <1>2, <1>3, <1>7 DEF InFlight
  <2> QED
    BY <2>1, <1>3 DEF ServerFrame, Serve
<1> QED
  BY <1>8, <1>9, <1>10, <1>11

\* Losing a POST, or the fate of a cancel request, starts nothing.
LEMMA DiscardServer ==
    ASSUME Inv, Serve, NEW m \in net, Discard(m)
    PROVE  ServerTypeOK' /\ ServerInv' /\ OnceInv' /\ ServerFrame
<1>1. net' = net \ {m} /\ ran' = ran /\ stmt' = stmt /\ cancels' = cancels
      /\ posted' = posted
  BY DEF Discard, Serve, transportVars
<1>2. ServerTypeOK' /\ ServerInv' /\ OnceInv'
  BY <1>1 DEF Inv, TypeOK, ServerTypeOK, ServerInv, OnceInv
<1>3. ServerFrame
  BY <1>1 DEF ServerFrame, Serve, InFlight
<1> QED
  BY <1>2, <1>3

\* A running statement ends.
LEMMA EndServer ==
    ASSUME Inv, Serve, NEW e \in Execs, stmt[e] = "running",
           NEW s \in {"committed", "aborted"},
           stmt' = [stmt EXCEPT ![e] = s], cancels' \subseteq cancels,
           UNCHANGED <<net, ran>>
    PROVE  ServerTypeOK' /\ ServerInv' /\ OnceInv' /\ ServerFrame
<1>1. /\ stmt \in [Execs -> {"none", "running", "committed", "aborted"}]
      /\ ran \in [Execs -> Handles] /\ posted' = posted
  BY DEF Inv, TypeOK, ServerTypeOK, Serve, transportVars
<1>2. None \notin Execs /\ Handles = Execs \cup {None}
  BY CurrentBatch DEF Inv, Handles
<1>3. /\ \A x \in Execs : stmt'[x] = IF x = e THEN s ELSE stmt[x]
      /\ \A x \in Execs : stmt'[x] # "none" <=> stmt[x] # "none"
      /\ \A x \in Execs : stmt'[x] \in {"running", "committed"}
                            => stmt[x] \in {"running", "committed"}
  BY <1>1
<1>4. ServerTypeOK'
  BY <1>1 DEF Inv, TypeOK, ServerTypeOK
<1>5. ServerInv'
  BY <1>1, <1>2, <1>3 DEF Inv, ServerInv
<1>6. OnceInv'
  BY <1>3 DEF Inv, OnceInv
<1>7. ServerFrame
  BY <1>1, <1>3 DEF ServerFrame, Serve, InFlight
<1> QED
  BY <1>4, <1>5, <1>6, <1>7

LEMMA ServeServer ==
    ASSUME Inv, Serve
    PROVE  ServerTypeOK' /\ ServerInv' /\ OnceInv' /\ ServerFrame
<1>1. ASSUME NEW m \in net, Start(m) \/ Recall(m) \/ Discard(m)
      PROVE  ServerTypeOK' /\ ServerInv' /\ OnceInv' /\ ServerFrame
  BY <1>1, StartServer, RecallServer, DiscardServer
<1>2. ASSUME NEW e \in Execs, Finish(e)
      PROVE  ServerTypeOK' /\ ServerInv' /\ OnceInv' /\ ServerFrame
  BY <1>2, EndServer DEF Finish
<1>3. ASSUME NEW e \in Execs, TakeCancel(e) \/ LoseCancel(e)
      PROVE  ServerTypeOK' /\ ServerInv' /\ OnceInv' /\ ServerFrame
  <2>1. cancels' \subseteq cancels /\ net' = net /\ ran' = ran
    BY <1>3 DEF TakeCancel, LoseCancel
  <2>2. stmt \in [Execs -> {"none", "running", "committed", "aborted"}]
    BY DEF Inv, TypeOK, ServerTypeOK
  <2>3. CASE TakeCancel(e) /\ stmt[e] = "running"
    <3>1. stmt' = [stmt EXCEPT ![e] = "aborted"]
      BY <2>3 DEF TakeCancel
    <3> QED
      BY <2>1, <2>3, <3>1, EndServer
  <2>4. CASE ~ (TakeCancel(e) /\ stmt[e] = "running")
    <3>1. stmt' = stmt
      BY <1>3, <2>2, <2>4 DEF TakeCancel, LoseCancel
    <3>2. ServerTypeOK' /\ ServerInv' /\ OnceInv'
      BY <2>1, <3>1 DEF Inv, TypeOK, ServerTypeOK, ServerInv, OnceInv, Serve,
         transportVars
    <3>3. ServerFrame
      BY <2>1, <3>1 DEF ServerFrame, Serve, InFlight
    <3> QED
      BY <3>2, <3>3
  <2> QED
    BY <2>3, <2>4
<1> QED
  BY <1>1, <1>2, <1>3 DEF Serve, ServerNext

\* What the client was told stays true.
LEMMA ServeInv == ASSUME Inv, Serve PROVE Inv'
<1>1. ServerTypeOK' /\ ServerInv' /\ OnceInv' /\ ServerFrame
  BY ServeServer
<1>2. /\ UNCHANGED <<pc, buf, size, pending, exhausted, consumed, confirmed,
                     completed, phase, outcome>>
      /\ UNCHANGED <<call, posted, disclosed, failed, expired>>
      /\ Current' = Current
  BY <1>1 DEF ServerFrame, plannerVars, bufferVars, progressVars, reportVars,
     transportVars, Current
<1>3. TypeOK' /\ RowsInv'
  BY <1>1, <1>2 DEF Inv, TypeOK, BufferTypeOK, TransportTypeOK, RowsInv
<1>4. /\ Current \in Nat /\ Current \in Requests
      /\ \A n \in 1..MaxAttempts : <<Current, n>> \in Execs
      /\ None \notin Execs /\ Handles = Execs \cup {None}
  BY CurrentBatch DEF Inv, Handles
<1>5. \A r \in Requests : r \in Durable => r \in Durable'
  BY <1>1 DEF Durable, ServerFrame, Execs
<1>6. OrderInv'
  <2>1. \A r \in 0..(Current - 1) : r \in Durable /\ r \in Requests
    BY DEF Inv, OrderInv, Durable
  <2> QED
    BY <1>2, <1>5, <2>1 DEF Inv, OrderInv, Sent, ReportsBatch
<1>7. CallInv'
  BY <1>2 DEF Inv, CallInv
<1>8. ASSUME NEW h \in Handles, OwnHandle(h)
      PROVE  OwnHandle(h)'
  BY <1>1, <1>2, <1>4, <1>8 DEF OwnHandle, ServerFrame
<1>9. disclosed \in Handles /\ call \in Call
  BY DEF Inv, TypeOK, TransportTypeOK
<1>10. SubmitInv'
  <2> SUFFICES ASSUME pc = "submit"
               PROVE  SubmitInv'
    BY <1>2 DEF SubmitInv
  <2>1. OwnHandle(disclosed)'
    BY <1>2, <1>8, <1>9 DEF Inv, SubmitInv, OwnHandle
  <2>2. ASSUME call.attempts >= 1
        PROVE  /\ PostId \in Execs
               /\ Dead(PostId) => Dead(PostId)'
               /\ ran[PostId] # None /\ stmt[ran[PostId]] = "aborted" =>
                    (ran[PostId] # None /\ stmt[ran[PostId]] = "aborted")'
    <3>1. call.attempts \in 1..MaxAttempts /\ call.req = Current
      BY <1>9, <2>2, SqlApiAssumption DEF Call, Inv, SubmitInv
    <3>2. PostId \in Execs /\ PostId' = PostId
      BY <1>2, <1>4, <3>1 DEF PostId
    <3>3. Dead(PostId) => Dead(PostId)'
      BY <1>1, <3>2 DEF Dead, ServerFrame, InFlight
    <3>4. ASSUME ran[PostId] # None, stmt[ran[PostId]] = "aborted"
          PROVE  (ran[PostId] # None /\ stmt[ran[PostId]] = "aborted")'
      <4>1. ~ InFlight(PostId)
        BY <3>2, <3>4 DEF Inv, ServerInv, InFlight
      <4>2. ran[PostId] \in Execs
        BY <1>4, <3>2, <3>4 DEF Inv, TypeOK, ServerTypeOK
      <4>3. ran'[PostId] = ran[PostId] /\ stmt'[ran[PostId]] = "aborted"
        BY <1>1, <3>2, <3>4, <4>1, <4>2 DEF ServerFrame
      <4> QED
        BY <3>2, <3>4, <4>3
    <3> QED
      BY <3>2, <3>3, <3>4
  <2>3. call.stage = "returned" /\ call.status = "ok" => Current \in Durable'
    BY <1>4, <1>5 DEF Inv, SubmitInv
  <2>4. /\ call.stage = "raised" /\ call.status \in Refusals =>
             call.attempts >= 1 /\ Dead(PostId)'
        /\ call.stage = "raised" /\ call.status = "sql_error" =>
             /\ call.attempts >= 1
             /\ \/ Dead(PostId)'
                \/ (ran[PostId] # None /\ stmt[ran[PostId]] = "aborted")'
    BY <2>2 DEF Inv, SubmitInv
  <2> QED
    BY <1>2, <2>1, <2>3, <2>4 DEF Inv, SubmitInv, Sent
<1>11. PollInv'
  <2> SUFFICES ASSUME pc \in {"poll", "cancel"}
               PROVE  PollInv'
    BY <1>2 DEF PollInv
  <2>1. OwnHandle(disclosed)'
    BY <1>2, <1>8, <1>9 DEF Inv, PollInv, OwnHandle
  <2>2. call.target \in Execs
    BY <1>4, <1>9 DEF Inv, PollInv
  <2>3. /\ stmt[call.target] = "committed" => stmt'[call.target] = "committed"
        /\ stmt[call.target] = "aborted" => stmt'[call.target] = "aborted"
    BY <1>1, <2>2 DEF ServerFrame
  <2> QED
    BY <1>2, <2>1, <2>3 DEF Inv, PollInv, Sent
<1>12. ReportInv'
  <2>1. ReportsBatch => OwnHandle(disclosed)'
    BY <1>2, <1>8, <1>9 DEF Inv, ReportInv, OwnHandle
  <2> QED
    BY <1>2, <2>1 DEF Inv, ReportInv, ReportsBatch, Sent
<1>13. VerdictSound'
  <2> SUFFICES ASSUME pc = "raised"
               PROVE  VerdictSound'
    BY <1>2 DEF VerdictSound
  <2>1. ASSUME NEW e \in Execs
        PROVE  /\ ~ InFlight(e) => ~ InFlight(e)'
               /\ ~ InFlight(e) /\ stmt[e] = "none" => stmt'[e] = "none"
               /\ stmt[e] = "aborted" => stmt'[e] = "aborted"
               /\ stmt[e] \in {"none", "running", "committed", "aborted"}
    BY <1>1 DEF ServerFrame, Inv, TypeOK, ServerTypeOK
  <2>2. Never(Current, {"running", "committed", "aborted"})
          => Never(Current, {"running", "committed", "aborted"})'
    BY <1>2, <1>4, <2>1 DEF Never
  <2>3. Never(Current, {"running", "committed"})
          => Never(Current, {"running", "committed"})'
    BY <1>2, <1>4, <2>1 DEF Never
  <2>4. Current \in Durable => (Current \in Durable)'
    BY <1>2, <1>4, <1>5
  <2> QED
    BY <1>2, <2>2, <2>3, <2>4 DEF Inv, VerdictSound
<1> QED
  BY <1>1, <1>3, <1>6, <1>7, <1>10, <1>11, <1>12, <1>13 DEF Inv
-----------------------------------------------------------------------------
(* Steps of the transport.                                                  *)

\* A step of _send that touches the service at most through a cancel request
\* only has to keep what is said of the call.
LEMMA CallFrameInv ==
    ASSUME Inv, UNCHANGED <<plannerVars, failed, expired>>,
           UNCHANGED <<net, ran, stmt, posted>>, cancels' \subseteq Execs,
           pc \in {"submit", "poll", "cancel"},
           call' \in Call, disclosed' \in Handles,
           CallInv', SubmitInv', PollInv'
    PROVE  Inv'
<1>1. /\ UNCHANGED <<pc, buf, size, pending, exhausted, consumed, confirmed,
                     completed, phase, outcome>>
      /\ Current' = Current /\ Durable' = Durable
  BY DEF plannerVars, bufferVars, progressVars, reportVars, Current, Durable
<1>2. TypeOK' /\ RowsInv'
  BY <1>1 DEF Inv, TypeOK, BufferTypeOK, ServerTypeOK, TransportTypeOK, RowsInv
<1>3. ServerInv' /\ OnceInv'
  BY DEF Inv, ServerInv, OnceInv
<1>4. OrderInv' /\ ReportInv' /\ VerdictSound'
  BY <1>1 DEF Inv, OrderInv, ReportInv, VerdictSound, ReportsBatch, Sent
<1> QED
  BY <1>2, <1>3, <1>4 DEF Inv

\* The transport only runs while insert_batches() waits for it.
LEMMA SendFacts ==
    ASSUME Inv, Send
    PROVE  /\ pc \in {"submit", "poll", "cancel"}
           /\ UNCHANGED <<plannerVars, failed, expired>>
           /\ UNCHANGED <<pc, completed>> /\ Current' = Current
           /\ call \in Call /\ disclosed \in Handles
           /\ call.attempts \in Nat /\ call.attempt \in Nat
           /\ MaxAttempts \in Nat
           /\ call.stage \in {"loop", "wait"}
<1>1. call.stage \in {"loop", "wait"}
  BY DEF Send, TransportNext, Attempt, TokenFails, NoReply, RetryReply,
     FinalReply, Undecodable, Exhausted
<1>2. pc \in {"submit", "poll", "cancel"}
  BY <1>1 DEF Inv, CallInv
<1>3. call \in Call /\ disclosed \in Handles
  BY DEF Inv, TypeOK, TransportTypeOK
<1>4. call.attempts \in Nat /\ call.attempt \in Nat /\ MaxAttempts \in Nat
  BY <1>3, SqlApiAssumption DEF Call
<1> QED
  BY <1>1, <1>2, <1>3, <1>4 DEF Send, plannerVars, progressVars, Current

\* A step that ends or repeats the loop without a reply that matters: the
\* exception carries no status.
LEMMA QuietInv ==
    ASSUME Inv, Send, UNCHANGED <<serverVars, posted, disclosed>>,
           \/ /\ call' = [call EXCEPT !.stage = "loop", !.attempt = @ + 1]
              /\ call.stage = "wait"
           \/ Raise("none", None)
    PROVE  Inv'
<1>1. /\ pc \in {"submit", "poll", "cancel"}
      /\ UNCHANGED <<plannerVars, failed, expired>>
      /\ UNCHANGED <<pc, completed>> /\ Current' = Current
      /\ call \in Call /\ disclosed \in Handles
      /\ call.attempts \in Nat /\ call.attempt \in Nat /\ MaxAttempts \in Nat
      /\ call.stage \in {"loop", "wait"}
  BY SendFacts
<1>2. UNCHANGED <<net, ran, stmt, cancels>>
  BY DEF serverVars
<1>3. cancels' \subseteq Execs
  BY <1>2 DEF Inv, TypeOK, ServerTypeOK
<1>4. /\ call'.op = call.op /\ call'.req = call.req /\ call'.target = call.target
      /\ call'.attempts = call.attempts /\ call'.known = call.known
      /\ \/ /\ call.stage = "wait" /\ call'.stage = "loop"
            /\ call'.attempt = call.attempt + 1
            /\ call'.handle = call.handle
         \/ /\ call'.stage = "raised" /\ call'.status = "none"
            /\ call'.attempt = call.attempt /\ call'.handle = call.known
      /\ call' \in Call
  BY <1>1 DEF Call, Raise, Inv, CallInv
<1>5. CallInv'
  BY <1>1, <1>4 DEF Inv, CallInv
<1>6. SubmitInv'
  BY <1>1, <1>2, <1>4 DEF Inv, SubmitInv, Sent, OwnHandle, Refusals
<1>7. PollInv'
  BY <1>1, <1>2, <1>4 DEF Inv, PollInv, Sent, OwnHandle
<1> QED
  BY <1>1, <1>2, <1>3, <1>4, <1>5, <1>6, <1>7, CallFrameInv

\* What a reply to the POST that is waited for tells about the present batch.
LEMMA PostReply ==
    ASSUME Inv, pc = "submit", call.stage = "wait",
           NEW s \in Statuses, NEW h \in Handles, MayAnswerPost(PostId, s, h)
    PROVE  /\ call.attempts >= 1 /\ PostId \in Execs
           /\ OwnHandle(h)
           /\ s = "ok" => Current \in Durable
           /\ s \in Refusals => Dead(PostId)
           /\ s = "sql_error" =>
                \/ Dead(PostId)
                \/ ran[PostId] # None /\ stmt[ran[PostId]] = "aborted"
<1>1. /\ call \in Call /\ call.op = "submit" /\ call.req = Current
      /\ call.attempts = call.attempt + 1
  BY DEF Inv, TypeOK, TransportTypeOK, SubmitInv, CallInv
<1>2. call.attempts \in 1..MaxAttempts
  BY <1>1, SqlApiAssumption DEF Call
<1>3. /\ Current \in Requests /\ PostId \in Execs /\ PostId[1] = Current
      /\ None \notin Execs /\ Handles = Execs \cup {None}
  BY <1>1, <1>2, CurrentBatch DEF Inv, PostId, Handles
<1>4. ran[PostId] # None =>
        /\ ran[PostId] \in Execs
        /\ ran[PostId][1] = Current /\ stmt[ran[PostId]] # "none"
  BY <1>3 DEF Inv, TypeOK, ServerTypeOK, ServerInv
<1>5. OwnHandle(h)
  BY <1>4 DEF MayAnswerPost, OwnHandle
<1>6. ASSUME s = "ok" PROVE Current \in Durable
  <2>1. ran[PostId] # None /\ stmt[ran[PostId]] = "committed"
    BY <1>6 DEF MayAnswerPost
  <2>2. PICK n \in 1..MaxAttempts : ran[PostId] = <<Current, n>>
    BY <1>4, <2>1 DEF Execs
  <2> QED
    BY <1>3, <2>1, <2>2 DEF Durable
<1>7. /\ s \in Refusals => Dead(PostId)
      /\ s = "sql_error" =>
           \/ Dead(PostId)
           \/ ran[PostId] # None /\ stmt[ran[PostId]] = "aborted"
  BY DEF MayAnswerPost, Dead
<1> QED
  BY <1>2, <1>3, <1>5, <1>6, <1>7

LEMMA RetryReplyInv ==
    ASSUME Inv, Send, NEW h \in Handles, RetryReply(h)
    PROVE  Inv'
<1>1. /\ pc \in {"submit", "poll", "cancel"}
      /\ UNCHANGED <<plannerVars, failed, expired>>
      /\ UNCHANGED <<pc, completed>> /\ Current' = Current
      /\ call \in Call /\ disclosed \in Handles
      /\ call.attempts \in Nat /\ call.attempt \in Nat /\ MaxAttempts \in Nat
      /\ call.stage \in {"loop", "wait"}
  BY SendFacts
<1>2. /\ UNCHANGED <<net, ran, stmt, cancels, posted>> /\ cancels' \subseteq Execs
      /\ call.stage = "wait" /\ MayAnswer("transient", h)
  BY DEF RetryReply, serverVars, Inv, TypeOK, ServerTypeOK
<1>3. /\ call'.op = call.op /\ call'.req = call.req /\ call'.target = call.target
      /\ call'.attempts = call.attempts /\ call'.attempt = call.attempt + 1
      /\ call'.stage = "loop" /\ call'.handle = call.handle
      /\ call'.known = IF call.op = "submit" /\ h # None THEN h ELSE call.known
      /\ call' \in Call
  BY <1>1, <1>2 DEF Call, RetryReply, Inv, CallInv
<1>4. disclosed' = IF call.op = "submit" /\ h # None THEN h ELSE disclosed
  BY DEF RetryReply, Disclose
<1>5. disclosed' \in Handles
  BY <1>1, <1>4
<1>6. CallInv'
  BY <1>1, <1>2, <1>3 DEF Inv, CallInv
<1>7. SubmitInv'
  <2> SUFFICES ASSUME pc = "submit" PROVE SubmitInv'
    BY <1>1 DEF SubmitInv
  <2>1. call.op = "submit"
    BY DEF Inv, SubmitInv
  <2>2. OwnHandle(h)
    BY <1>2, <2>1, PostReply DEF MayAnswer, Statuses
  <2> QED
    BY <1>1, <1>2, <1>3, <1>4, <2>1, <2>2 DEF Inv, SubmitInv, Sent, OwnHandle
<1>8. PollInv'
  <2> SUFFICES ASSUME pc \in {"poll", "cancel"} PROVE PollInv'
    BY <1>1 DEF PollInv
  <2>1. call.op # "submit"
    BY DEF Inv, PollInv
  <2> QED
    BY <1>1, <1>2, <1>3, <1>4, <2>1 DEF Inv, PollInv, Sent, OwnHandle
<1> QED
  BY <1>1, <1>2, <1>3, <1>5, <1>6, <1>7, <1>8, CallFrameInv

LEMMA FinalReplyInv ==
    ASSUME Inv, Send, NEW s \in Statuses, NEW h \in Handles, FinalReply(s, h)
    PROVE  Inv'
<1>1. /\ pc \in {"submit", "poll", "cancel"}
      /\ UNCHANGED <<plannerVars, failed, expired>>
      /\ UNCHANGED <<pc, completed>> /\ Current' = Current
      /\ call \in Call /\ disclosed \in Handles
      /\ call.attempts \in Nat /\ call.attempt \in Nat /\ MaxAttempts \in Nat
      /\ call.stage \in {"loop", "wait"}
  BY SendFacts
<1>2. /\ UNCHANGED <<net, ran, stmt, cancels, posted>> /\ cancels' \subseteq Execs
      /\ call.stage = "wait" /\ MayAnswer(s, h)
  BY DEF FinalReply, serverVars, Inv, TypeOK, ServerTypeOK
<1>3. /\ call'.op = call.op /\ call'.req = call.req /\ call'.target = call.target
      /\ call'.attempts = call.attempts /\ call'.attempt = call.attempt
      /\ call'.known = call.known /\ call'.status = s
      /\ call'.handle = IF h # None THEN h ELSE call.known
      /\ call'.stage = IF s \in {"ok", "running"} THEN "returned" ELSE "raised"
      /\ call' \in Call
  <2> DEFINE kept == IF h # None THEN h ELSE call.known
             end == IF s \in {"ok", "running"} THEN "returned" ELSE "raised"
  <2>1. call' = [call EXCEPT !.stage = end, !.status = s, !.handle = kept]
    <3>1. CASE s \in {"ok", "running"}
      BY <3>1 DEF FinalReply
    <3>2. CASE s \notin {"ok", "running"}
      BY <3>2 DEF FinalReply, Raise
    <3> QED
      BY <3>1, <3>2
  <2>2. kept \in Handles /\ end \in {"returned", "raised"}
    BY <1>1 DEF Call
  <2> HIDE DEF kept, end
  <2>3. /\ call'.op = call.op /\ call'.req = call.req /\ call'.target = call.target
        /\ call'.attempts = call.attempts /\ call'.attempt = call.attempt
        /\ call'.known = call.known /\ call'.status = s
        /\ call'.handle = kept /\ call'.stage = end
    BY <1>1, <2>1 DEF Call
  <2>4. call' \in Call
    BY <1>1, <2>1, <2>2 DEF Call
  <2> QED
    BY <2>3, <2>4 DEF kept, end
<1>4. disclosed' = IF call.op = "submit" /\ h # None THEN h ELSE disclosed
  BY DEF FinalReply, Disclose
<1>5. disclosed' \in Handles
  BY <1>1, <1>4
<1>6. CallInv'
  BY <1>1, <1>2, <1>3 DEF Inv, CallInv
<1>7. SubmitInv'
  <2> SUFFICES ASSUME pc = "submit" PROVE SubmitInv'
    BY <1>1 DEF SubmitInv
  <2>1. call.op = "submit"
    BY DEF Inv, SubmitInv
  <2>2. /\ call.attempts >= 1 /\ OwnHandle(h)
        /\ s = "ok" => Current \in Durable
        /\ s \in Refusals => Dead(PostId)
        /\ s = "sql_error" =>
             \/ Dead(PostId)
             \/ ran[PostId] # None /\ stmt[ran[PostId]] = "aborted"
    BY <1>2, <2>1, PostReply DEF MayAnswer
  <2>3. PostId' = PostId /\ (Dead(PostId) => Dead(PostId)')
        /\ Durable' = Durable
    BY <1>2, <1>3 DEF PostId, Dead, InFlight, Durable
  <2>4. OwnHandle(disclosed)'
    BY <1>1, <1>2, <1>4, <2>1, <2>2 DEF Inv, SubmitInv, OwnHandle
  <2>5. call'.handle = disclosed'
    BY <1>2, <1>3, <1>4, <2>1 DEF Inv, SubmitInv
  <2>6. Sent(Current, call.attempts)' /\ failed' = NewExecution
    BY <1>1, <1>2, <1>3 DEF Inv, SubmitInv, Sent
  <2> QED
    BY <1>1, <1>2, <1>3, <2>1, <2>2, <2>3, <2>4, <2>5, <2>6 DEF Inv, SubmitInv
<1>8. PollInv'
  <2> SUFFICES ASSUME pc \in {"poll", "cancel"} PROVE PollInv'
    BY <1>1 DEF PollInv
  <2>1. call.op \in {"get", "cancel"} /\ call.known = None
    BY DEF Inv, PollInv
  <2>2. h \in {None, call.target}
    BY <1>2, <2>1 DEF MayAnswer, MayAnswerGet, MayAnswerCancel
  <2>3. call.op = "get" =>
          /\ s = "ok" => stmt[call.target] = "committed"
          /\ s = "sql_error" => stmt[call.target] = "aborted"
    BY <1>2, <2>1 DEF MayAnswer, MayAnswerGet
  <2> QED
    BY <1>1, <1>2, <1>3, <1>4, <2>1, <2>2, <2>3 DEF Inv, PollInv, Sent, OwnHandle
<1> QED
  BY <1>1, <1>2, <1>3, <1>5, <1>6, <1>7, <1>8, CallFrameInv

\* The fields an attempt changes.
LEMMA AttemptCall ==
    ASSUME Inv, Send, Attempt
    PROVE  /\ call'.op = call.op /\ call'.req = call.req
           /\ call'.target = call.target /\ call'.attempt = call.attempt
           /\ call'.attempts = call.attempts + 1 /\ call'.attempts <= MaxAttempts
           /\ call'.stage = "wait" /\ call'.known = call.known
           /\ call'.handle = call.handle /\ call' \in Call
           /\ call.attempts = call.attempt /\ call.stage = "loop"
           /\ disclosed' = disclosed /\ CallInv'
<1>1. /\ pc \in {"submit", "poll", "cancel"}
      /\ UNCHANGED <<plannerVars, failed, expired>>
      /\ UNCHANGED <<pc, completed>> /\ Current' = Current
      /\ call \in Call /\ disclosed \in Handles
      /\ call.attempts \in Nat /\ call.attempt \in Nat /\ MaxAttempts \in Nat
      /\ call.stage \in {"loop", "wait"}
  BY SendFacts
<1>2. call.stage = "loop" /\ call.attempts = call.attempt /\ call.attempt < MaxAttempts
  BY DEF Attempt, Inv, CallInv
<1>3. call' = [call EXCEPT !.stage = "wait", !.retry = Flag, !.attempts = @ + 1]
      /\ disclosed' = disclosed
  BY DEF Attempt
<1>4. Flag \in BOOLEAN
  BY <1>1 DEF Flag, Call
<1>5. call' \in Call
  <2>1. call.attempts + 1 \in 0..MaxAttempts
    BY <1>1, <1>2
  <2>2. [call EXCEPT !.stage = "wait"] \in Call
    BY <1>1 DEF Call
  <2>3. [call EXCEPT !.stage = "wait", !.retry = Flag] \in Call
    BY <1>1, <1>4 DEF Call
  <2> QED
    BY <1>1, <1>3, <1>4, <2>1 DEF Call
<1>6. CallInv'
  BY <1>1, <1>2, <1>3 DEF CallInv, Call
<1> QED
  BY <1>1, <1>2, <1>3, <1>5, <1>6 DEF Call

\* A status GET or a cancel request goes out.
LEMMA AttemptFollowUpInv ==
    ASSUME Inv, Send, Attempt, call.op \in {"get", "cancel"}
    PROVE  Inv'
<1>1. /\ pc \in {"submit", "poll", "cancel"}
      /\ UNCHANGED <<plannerVars, failed, expired>>
      /\ UNCHANGED <<pc, completed>> /\ Current' = Current
      /\ call \in Call /\ disclosed \in Handles
      /\ call.attempts \in Nat /\ call.attempt \in Nat /\ MaxAttempts \in Nat
      /\ call.stage \in {"loop", "wait"}
  BY SendFacts
<1>2. pc \in {"poll", "cancel"}
  BY <1>1 DEF Inv, SubmitInv
<1>3. call.target \in Execs
  BY <1>2, CurrentBatch DEF Inv, PollInv, TypeOK, TransportTypeOK, Handles
<1>4. UNCHANGED <<net, ran, stmt, posted>> /\ cancels' \subseteq Execs
  BY <1>3 DEF Attempt, Inv, TypeOK, ServerTypeOK
<1>5. SubmitInv'
  BY <1>1, <1>2 DEF SubmitInv
<1>6. PollInv'
  BY <1>1, <1>2, <1>4, AttemptCall DEF Inv, PollInv, Sent, OwnHandle
<1> QED
  BY <1>1, <1>4, <1>5, <1>6, AttemptCall, CallFrameInv

\* A statement POST goes out: one that was never sent before.
LEMMA AttemptPostInv ==
    ASSUME Inv, Send, Attempt, call.op = "submit"
    PROVE  Inv'
<1> DEFINE id == <<Current, call.attempts + 1>>
<1>1. /\ pc \in {"submit", "poll", "cancel"}
      /\ UNCHANGED <<plannerVars, failed, expired>>
      /\ UNCHANGED <<pc, completed>> /\ Current' = Current
      /\ call \in Call /\ disclosed \in Handles
      /\ call.attempts \in Nat /\ call.attempt \in Nat /\ MaxAttempts \in Nat
      /\ call.stage \in {"loop", "wait"}
  BY SendFacts
<1>2. pc = "submit" /\ call.req = Current
  BY <1>1 DEF Inv, PollInv, SubmitInv
<1>3. /\ net' = net \cup {Post(id, Flag)} /\ posted' = posted \cup {id}
      /\ UNCHANGED <<ran, stmt, cancels>>
  BY <1>2 DEF Attempt
<1>4. /\ Current \in Nat /\ Current \in Requests /\ None \notin Execs
      /\ \A n \in 1..MaxAttempts : <<Current, n>> \in Execs
  BY CurrentBatch DEF Inv
<1>5. /\ call.attempts + 1 \in 1..MaxAttempts /\ id \in Execs
      /\ call.attempts = call.attempt
  BY <1>1, <1>4, AttemptCall
<1>6. Sent(Current, call.attempts) /\ id \notin posted
  BY <1>1, <1>2, <1>5 DEF Inv, SubmitInv, Sent
<1>7. stmt[id] = "none" /\ ran[id] = None /\ ~ InFlight(id)
  BY <1>5, <1>6, UnsentNever DEF Inv
<1>8. /\ Post(id, Flag) \in [id : Execs, retry : BOOLEAN]
      /\ Post(id, Flag).id = id /\ Post(id, Flag).retry = Flag
      /\ Flag \in BOOLEAN /\ (~ Flag => call.attempts = 0)
  <2>1. Flag \in BOOLEAN /\ (~ Flag => call.attempts = 0)
    BY <1>1, <1>5 DEF Flag, Call
  <2> QED
    BY <2>1, <1>5 DEF Post
<1>9. TypeOK' /\ RowsInv'
  <2>1. ServerTypeOK' /\ TransportTypeOK'
    BY <1>1, <1>3, <1>5, <1>8, AttemptCall
    DEF Inv, TypeOK, ServerTypeOK, TransportTypeOK
  <2> QED
    BY <1>1, <2>1 DEF Inv, TypeOK, BufferTypeOK, RowsInv, Current, plannerVars,
       bufferVars, progressVars, reportVars
<1>10. ServerInv'
  <2>1. \A e \in Execs : stmt'[e] # "none" => ran'[e] = e
    BY <1>3 DEF Inv, ServerInv
  <2>2. \A e \in Execs : ran'[e] # None =>
          e \in posted' /\ ran'[e][1] = e[1] /\ stmt'[ran'[e]] # "none"
    BY <1>3 DEF Inv, ServerInv
  <2>3. \A m \in net' : m.id \in posted' /\ ran'[m.id] = None
    BY <1>3, <1>7, <1>8 DEF Inv, ServerInv
  <2>4. \A m, o \in net' : m.id = o.id => m = o
    BY <1>3, <1>7, <1>8 DEF Inv, ServerInv, InFlight
  <2> QED
    BY <2>1, <2>2, <2>3, <2>4 DEF ServerInv
<1>11. OnceInv'
  <2>1. ASSUME HistoryRetained, InOrder, NEW m \in net', ~ m.retry
        PROVE  m.id[2] = 1
    <3>1. CASE m \in net
      BY <2>1, <3>1 DEF Inv, OnceInv
    <3>2. CASE m = Post(id, Flag)
      BY <2>1, <3>2, <1>8
    <3> QED
      BY <3>1, <3>2, <1>3
  <2>2. ASSUME HistoryRetained, InOrder, NEW m \in net', NEW e \in Execs,
               m.id[1] = e[1], stmt'[e] # "none"
        PROVE  e[2] < m.id[2]
    <3>1. CASE m \in net
      BY <2>2, <3>1, <1>3 DEF Inv, OnceInv
    <3>2. CASE m = Post(id, Flag)
      <4>1. e \in posted /\ e[1] = Current
        BY <2>2, <3>2, <1>3, <1>4, <1>8 DEF Inv, ServerInv
      <4>2. e = <<Current, e[2]>> /\ e[2] \in 1..MaxAttempts
        BY <4>1 DEF Execs
      <4>3. e[2] <= call.attempts
        BY <4>1, <4>2, <1>6 DEF Sent
      <4> QED
        BY <3>2, <4>2, <4>3, <1>1, <1>8
    <3> QED
      BY <3>1, <3>2, <1>3
  <2> QED
    BY <2>1, <2>2, <1>3 DEF OnceInv, Inv
<1>12. Durable' = Durable
  BY <1>3 DEF Durable
<1>13. OrderInv'
  BY <1>1, <1>2, <1>3, <1>4, <1>12 DEF Inv, OrderInv
<1>14. SubmitInv'
  <2>1. Sent(Current, call.attempts)'
    <3>1. \A n \in 1..MaxAttempts :
            <<Current, n>> \in posted' <=> n <= call.attempts + 1
      BY <1>1, <1>3, <1>6 DEF Sent
    <3> QED
      BY <1>1, <3>1, AttemptCall DEF Sent
  <2>2. OwnHandle(disclosed)'
    BY <1>1, <1>2, <1>3, AttemptCall DEF Inv, SubmitInv, OwnHandle
  <2> QED
    BY <1>1, <1>2, <2>1, <2>2, AttemptCall DEF Inv, SubmitInv
<1>15. PollInv' /\ ReportInv' /\ VerdictSound'
  BY <1>1, <1>2 DEF PollInv, ReportInv, VerdictSound, ReportsBatch
<1> QED
  BY <1>9, <1>10, <1>11, <1>13, <1>14, <1>15, AttemptCall DEF Inv

LEMMA SendInv == ASSUME Inv, Send PROVE Inv'
<1>1. CASE Attempt
  <2>1. call.op \in {"submit", "get", "cancel"}
    BY DEF Inv, TypeOK, TransportTypeOK, Call
  <2> QED
    BY <1>1, <2>1, AttemptFollowUpInv, AttemptPostInv
<1>2. CASE TokenFails
  BY <1>2, QuietInv DEF TokenFails
<1>3. CASE NoReply
  BY <1>3, QuietInv DEF NoReply
<1>4. ASSUME NEW h \in Handles, RetryReply(h) PROVE Inv'
  BY <1>4, RetryReplyInv
<1>5. ASSUME NEW s \in Statuses, NEW h \in Handles, FinalReply(s, h) PROVE Inv'
  BY <1>5, FinalReplyInv
<1>6. CASE Undecodable
  BY <1>6, QuietInv DEF Undecodable
<1>7. CASE Exhausted
  BY <1>7, QuietInv DEF Exhausted
<1> QED
  BY <1>1, <1>2, <1>3, <1>4, <1>5, <1>6, <1>7 DEF Send, TransportNext
-----------------------------------------------------------------------------
(* Steps of insert_batches() itself.                                        *)

\* The client waits, and the call it waits for is over.
CallOver == pc \in {"submit", "poll", "cancel"} /\ call.stage \in {"returned", "raised"}

\* After a single POST, what is known of it is known of the whole batch.
LEMMA SinglePost ==
    ASSUME Inv, pc \in {"submit", "poll", "cancel"}, Sent(Current, 1),
           NEW S \in SUBSET {"running", "committed", "aborted"},
           1 \in 1..MaxAttempts,
           stmt[<<Current, 1>>] \notin S, ~ InFlight(<<Current, 1>>)
    PROVE  Never(Current, S)
<1>1. TypeOK /\ RowsInv /\ ServerInv
  BY DEF Inv
<1>2. ASSUME NEW n \in 1..MaxAttempts
      PROVE  stmt[<<Current, n>>] \notin S /\ ~ InFlight(<<Current, n>>)
  <2>1. CASE n = 1
    BY <2>1
  <2>2. CASE n # 1
    <3>1. n \in Nat /\ n >= 1
      BY SqlApiAssumption
    <3>2. <<Current, n>> \in Execs /\ <<Current, n>> \notin posted
      BY <2>2, <3>1, <1>1, CurrentBatch DEF Sent
    <3> QED
      BY <3>2, <1>1, UnsentNever
  <2> QED
    BY <2>1, <2>2
<1> QED
  BY <1>2 DEF Never

\* A BatchWriteError about a batch, with a verdict that is right when it is made.
LEMMA ReportStep ==
    ASSUME Inv, CallOver, pc' = "raised",
           UNCHANGED <<serverVars, transportVars, expired>>,
           UNCHANGED <<bufferVars, progressVars>>,
           failed' \in Execution, phase' = failed'.phase,
           outcome' \in Outcomes \ {"none"},
           failed'.handle = disclosed, OwnHandle(disclosed),
           Sent(Current, failed'.attempts),
           outcome' = "not_executed" =>
             Never(Current, {"running", "committed", "aborted"}),
           outcome' = "failed" => Never(Current, {"running", "committed"}),
           outcome' = "succeeded" => Current \in Durable
    PROVE  Inv'
<1>1. /\ UNCHANGED <<net, ran, stmt, cancels, call, posted, disclosed, expired>>
      /\ UNCHANGED <<buf, size, pending, exhausted, consumed, confirmed, completed>>
      /\ Current' = Current /\ Durable' = Durable
  BY DEF serverVars, transportVars, bufferVars, progressVars, Current, Durable
<1>2. phase' \in {"submission", "execution"}
  BY DEF Execution
<1>3. TypeOK' /\ RowsInv'
  BY <1>1, <1>2 DEF Inv, TypeOK, BufferTypeOK, ServerTypeOK, TransportTypeOK,
     RowsInv, Phases
<1>4. ServerInv' /\ OnceInv'
  BY <1>1 DEF Inv, ServerInv, OnceInv
<1>5. OrderInv'
  BY <1>1, <1>2 DEF Inv, OrderInv, ReportsBatch
<1>6. CallInv'
  BY <1>1 DEF Inv, CallInv, CallOver
<1>7. SubmitInv' /\ PollInv'
  BY DEF SubmitInv, PollInv
<1>8. ReportInv'
  BY <1>1 DEF ReportInv, OwnHandle, Sent
<1>9. VerdictSound'
  BY <1>1 DEF VerdictSound, Never, InFlight
<1> QED
  BY <1>3, <1>4, <1>5, <1>6, <1>7, <1>8, <1>9 DEF Inv

\* error() in general: it suffices that each rule it goes by is backed.
LEMMA ErrorStep ==
    ASSUME Inv, CallOver, UNCHANGED <<serverVars, transportVars, expired>>,
           NEW x \in Execution, NEW counted \in BOOLEAN,
           NEW n \in 0..MaxAttempts, NEW s \in Statuses \cup {"none"},
           NEW h \in Handles, error(x, counted, n, s, h),
           (IF h # None THEN h ELSE x.handle) = disclosed, OwnHandle(disclosed),
           Sent(Current, Attempts(x, counted, n)),
           x.succeeded => Current \in Durable,
           Attempts(x, counted, n) <= 1 /\ s = "sql_error" =>
             Never(Current, {"running", "committed"}),
           /\ Attempts(x, counted, n) <= 1 /\ x.phase = "submission"
           /\ (counted /\ n = 0) \/ s \in Refusals
           => Never(Current, {"running", "committed", "aborted"})
    PROVE  Inv'
<1>1. /\ pc' = "raised" /\ outcome' = Verdict(x, counted, n, s)
      /\ failed' = [x EXCEPT !.attempts = Attempts(x, counted, n),
                             !.handle = IF h # None THEN h ELSE @,
                             !.phase = IF s = "sql_error" THEN "execution" ELSE @]
      /\ phase' = failed'.phase /\ UNCHANGED <<bufferVars, progressVars>>
  BY DEF error
<1>2. Attempts(x, counted, n) \in 0..MaxAttempts
  BY DEF Attempts, Execution
<1>3. /\ failed' \in Execution
      /\ failed'.handle = disclosed
      /\ failed'.attempts = Attempts(x, counted, n)
  BY <1>1, <1>2 DEF Execution
<1>4. /\ outcome' \in Outcomes \ {"none"}
      /\ outcome' = "not_executed" =>
           Never(Current, {"running", "committed", "aborted"})
      /\ outcome' = "failed" => Never(Current, {"running", "committed"})
      /\ outcome' = "succeeded" => Current \in Durable
  <2>1. x.succeeded \in BOOLEAN
    BY DEF Execution
  <2>2. CASE x.succeeded
    BY <1>1, <2>2 DEF Verdict, Outcomes
  <2>3. CASE ~ x.succeeded /\ Attempts(x, counted, n) <= 1 /\ s = "sql_error"
    <3>1. outcome' = "failed"
      BY <1>1, <2>3 DEF Verdict
    <3> QED
      BY <2>3, <3>1 DEF Outcomes
  <2>4. CASE /\ ~ x.succeeded /\ Attempts(x, counted, n) <= 1 /\ s # "sql_error"
             /\ x.phase = "submission"
             /\ (counted /\ n = 0) \/ s \in Refusals
    <3>1. outcome' = "not_executed"
      BY <1>1, <2>4 DEF Verdict
    <3> QED
      BY <2>4, <3>1 DEF Outcomes
  <2>5. CASE /\ ~ x.succeeded
             /\ ~ (Attempts(x, counted, n) <= 1 /\ s = "sql_error")
             /\ ~ /\ Attempts(x, counted, n) <= 1
                  /\ s # "sql_error"
                  /\ x.phase = "submission"
                  /\ (counted /\ n = 0) \/ s \in Refusals
    <3>1. outcome' = "unknown"
      BY <1>1, <2>5 DEF Verdict
    <3> QED
      BY <3>1 DEF Outcomes
  <2> QED
    BY <2>1, <2>2, <2>3, <2>4, <2>5
<1> QED
  BY <1>1, <1>3, <1>4, ReportStep

\* A batch that is durable is confirmed; the next one is still unsent.
LEMMA ConfirmStep ==
    ASSUME Inv, CallOver, UNCHANGED <<serverVars, transportVars, expired>>,
           confirm, failed' \in Execution, Current \in Durable
    PROVE  Inv'
<1>1. /\ UNCHANGED <<net, ran, stmt, cancels, call, posted, disclosed, expired>>
      /\ UNCHANGED <<pending, exhausted, consumed, phase, outcome>>
      /\ pc' = "fill" /\ buf' = <<>> /\ size' = 0
      /\ confirmed' = confirmed + Len(buf)
      /\ completed' = Append(completed, [start |-> confirmed, rows |-> Len(buf)])
  BY DEF serverVars, transportVars, confirm, reportVars
<1>2. /\ buf \in Seq(Row) /\ Len(buf) \in Nat /\ confirmed \in Nat
      /\ consumed \in Nat /\ completed \in Seq(Summary) /\ Current \in Nat
      /\ buf # <<>> /\ Current <= confirmed
      /\ confirmed + Len(buf) + (IF pending = NoRow THEN 0 ELSE 1) <= consumed
      /\ MaxInput \in Nat /\ consumed <= MaxInput
  BY PlannerAssumption DEF Inv, TypeOK, BufferTypeOK, RowsInv, CallOver, Current
<1>3. Len(buf) >= 1
  BY <1>2
<1>4. [start |-> confirmed, rows |-> Len(buf)] \in Summary
  BY <1>2, <1>3 DEF Summary
<1>5. completed' \in Seq(Summary) /\ Current' = Current + 1
  BY <1>1, <1>2, <1>4 DEF Current
<1>6. BufferTypeOK'
  BY <1>1, <1>2, <1>5 DEF Inv, TypeOK, BufferTypeOK
<1>7. TypeOK'
  BY <1>1, <1>6 DEF Inv, TypeOK, ServerTypeOK, TransportTypeOK
<1>8. RowsInv'
  <2>1. Len(buf') = 0
    BY <1>1
  <2> QED
    BY <1>1, <1>2, <1>3, <1>5, <2>1 DEF RowsInv
<1>9. ServerInv' /\ OnceInv'
  BY <1>1 DEF Inv, ServerInv, OnceInv
<1>10. OrderInv'
  <2>1. Durable' = Durable
    BY <1>1 DEF Durable
  <2>2. \A r \in 0..(Current' - 1) : r \in Durable'
    BY <1>2, <1>5, <2>1 DEF Inv, OrderInv
  <2>3. \A e \in posted : e[1] <= Current /\ e[1] \in Nat
    BY DEF Inv, OrderInv, TypeOK, TransportTypeOK, Execs, Requests
  <2>4. \A e \in posted' : e[1] <= Current'
    BY <1>1, <1>2, <1>5, <2>3
  <2>5. Sent(Current, 0)'
    <3> SUFFICES ASSUME NEW k \in 1..MaxAttempts
                 PROVE  <<Current', k>> \in posted' <=> k <= 0
      BY DEF Sent
    <3>1. <<Current', k>> \notin posted'
      <4> SUFFICES ASSUME <<Current', k>> \in posted PROVE FALSE
        BY <1>1
      <4>1. Current' <= Current
        BY <2>3
      <4> QED
        BY <4>1, <1>2, <1>5
    <3>2. k \in Nat /\ k >= 1
      BY SqlApiAssumption
    <3> QED
      BY <3>1, <3>2
  <2> QED
    BY <2>2, <2>4, <2>5 DEF OrderInv
<1>11. CallInv'
  BY <1>1 DEF Inv, CallInv, CallOver
<1>12. SubmitInv' /\ PollInv' /\ ReportInv' /\ VerdictSound'
  BY <1>1 DEF SubmitInv, PollInv, ReportInv, ReportsBatch, VerdictSound
<1> QED
  BY <1>7, <1>8, <1>9, <1>10, <1>11, <1>12 DEF Inv

\* _BatchExecution is created and _send entered: nothing of the batch was sent.
LEMMA SubmitBatchInv == ASSUME Inv, SubmitBatch PROVE Inv'
<1>1. /\ pc = "ready" /\ pc' = "submit" /\ failed' = NewExecution
      /\ call' = NewCall("submit", Current, None, FALSE)
      /\ disclosed' = None /\ posted' = posted
      /\ UNCHANGED <<net, ran, stmt, cancels, expired>>
      /\ UNCHANGED <<buf, size, pending, exhausted, consumed, confirmed,
                     completed, phase, outcome>>
      /\ Current' = Current /\ Durable' = Durable
  BY DEF SubmitBatch, submit, serverVars, bufferVars, progressVars, reportVars,
     Current, Durable
<1>2. Current \in Requests /\ MaxAttempts \in Nat /\ None \in Handles
  BY CurrentBatch, SqlApiAssumption DEF Inv, Handles
<1>3. call' \in Call /\ failed' \in Execution
  BY <1>1, <1>2 DEF NewCall, Call, NewExecution, Execution
<1>4. TypeOK' /\ RowsInv'
  BY <1>1, <1>2, <1>3 DEF Inv, TypeOK, BufferTypeOK, ServerTypeOK,
     TransportTypeOK, RowsInv
<1>5. ServerInv' /\ OnceInv'
  BY <1>1 DEF Inv, ServerInv, OnceInv
<1>6. Sent(Current, 0)
  BY <1>1 DEF Inv, OrderInv, ReportsBatch
<1>7. OrderInv' /\ CallInv'
  BY <1>1 DEF Inv, OrderInv, CallInv, NewCall
<1>8. SubmitInv'
  BY <1>1, <1>6 DEF SubmitInv, NewCall, Sent, OwnHandle
<1>9. PollInv' /\ ReportInv' /\ VerdictSound'
  BY <1>1 DEF PollInv, ReportInv, ReportsBatch, VerdictSound
<1> QED
  BY <1>4, <1>5, <1>7, <1>8, <1>9 DEF Inv

\* What is known once submit() has returned.
LEMMA ReceivedFacts ==
    ASSUME Inv, pc = "submit", Returned("submit")
    PROVE  /\ CallOver /\ call \in Call /\ received \in Execution
           /\ received.attempts = call.attempts /\ call.attempts >= 1
           /\ received.handle = disclosed /\ call.handle = disclosed
           /\ received.succeeded = ~ is_running
           /\ ~ is_running => Current \in Durable
           /\ received.phase = IF ~ is_running \/ call.handle # None
                                 THEN "execution" ELSE "submission"
           /\ OwnHandle(disclosed) /\ Sent(Current, call.attempts)
<1>1. call \in Call /\ call.op = "submit" /\ call.stage = "returned"
  BY DEF Inv, TypeOK, TransportTypeOK, Returned
<1>2. /\ call.status \in {"ok", "running"} /\ failed = NewExecution
      /\ call.attempts >= 1 /\ call.handle = disclosed
      /\ OwnHandle(disclosed) /\ Sent(Current, call.attempts)
      /\ call.status = "ok" => Current \in Durable
  BY <1>1 DEF Inv, CallInv, SubmitInv
<1>3. call.handle \in Handles /\ call.attempts \in 0..MaxAttempts
  BY <1>1 DEF Call
<1>4. failed \in Execution
  BY DEF Inv, TypeOK
<1>5. /\ received \in Execution /\ received.attempts = call.attempts
      /\ received.handle = call.handle /\ received.succeeded = ~ is_running
      /\ received.phase = IF ~ is_running \/ call.handle # None
                            THEN "execution" ELSE "submission"
  BY <1>2, <1>3, <1>4 DEF received, Execution, NewExecution, is_running
<1> QED
  BY <1>1, <1>2, <1>5 DEF CallOver, is_running

\* OwnError() leaves unknown, or succeeded where that is known.
LEMMA OwnErrorStep ==
    ASSUME Inv, CallOver, UNCHANGED <<serverVars, transportVars, expired>>,
           NEW x \in Execution, OwnError(x), x.handle = disclosed,
           OwnHandle(disclosed), Sent(Current, x.attempts),
           x.succeeded => Current \in Durable
    PROVE  Inv'
<1>1. 0 \in 0..MaxAttempts /\ None \in Handles
  BY SqlApiAssumption DEF Handles
<1>2. error(x, FALSE, 0, "none", None) /\ Attempts(x, FALSE, 0) = x.attempts
  BY DEF OwnError, Attempts
<1>3. "none" \notin Refusals
  BY DEF Refusals
<1> QED
  BY <1>1, <1>2, <1>3, ErrorStep

LEMMA SubmitDoneInv == ASSUME Inv, SubmitDone PROVE Inv'
<1>1. /\ CallOver /\ received \in Execution /\ received.handle = disclosed
      /\ received.attempts = call.attempts /\ Current \in Durable
      /\ OwnHandle(disclosed) /\ Sent(Current, call.attempts)
      /\ UNCHANGED <<serverVars, transportVars, expired>>
  BY ReceivedFacts DEF SubmitDone
<1>2. CASE confirm /\ failed' = received
  BY <1>1, <1>2, ConfirmStep
<1>3. CASE OwnError(received)
  BY <1>1, <1>3, OwnErrorStep
<1> QED
  BY <1>2, <1>3 DEF SubmitDone, Conclude

LEMMA RunningWithoutHandleInv == ASSUME Inv, RunningWithoutHandle PROVE Inv'
<1>1. /\ CallOver /\ received \in Execution /\ received.handle = disclosed
      /\ received.attempts = call.attempts /\ ~ received.succeeded
      /\ OwnHandle(disclosed) /\ Sent(Current, call.attempts)
      /\ UNCHANGED <<serverVars, transportVars, expired>> /\ OwnError(received)
  BY ReceivedFacts DEF RunningWithoutHandle
<1> QED
  BY <1>1, OwnErrorStep

\* A change of call, by the client, that leaves the service and the history alone.
LEMMA EnterFollowUp ==
    ASSUME Inv, CallOver, NEW op \in {"get", "cancel"}, NEW e \in Handles, e # None,
           call' = NewCall(op, call.req, e, FALSE), UNCHANGED <<posted, disclosed>>,
           UNCHANGED <<bufferVars, progressVars, reportVars, serverVars>>,
           pc' = (IF op = "get" THEN "poll" ELSE "cancel"), expired' \in BOOLEAN,
           failed' \in Execution, e = disclosed, OwnHandle(disclosed),
           failed'.handle = e, failed'.phase = "execution", ~ failed'.succeeded,
           failed'.attempts >= 1, Sent(Current, failed'.attempts)
    PROVE  Inv'
<1>1. /\ UNCHANGED <<net, ran, stmt, cancels, posted, disclosed>>
      /\ UNCHANGED <<buf, size, pending, exhausted, consumed, confirmed,
                     completed, phase, outcome>>
      /\ Current' = Current /\ Durable' = Durable
  BY DEF serverVars, bufferVars, progressVars, reportVars, Current, Durable
<1>2. pc \in {"submit", "poll", "cancel"} /\ pc' \in {"poll", "cancel"}
  BY DEF CallOver
<1>3. call' \in Call
  <2>1. call.req \in Requests /\ None \in Handles /\ MaxAttempts \in Nat
    BY SqlApiAssumption DEF Inv, TypeOK, TransportTypeOK, Call, Handles
  <2> QED
    BY <2>1 DEF NewCall, Call
<1>4. TypeOK' /\ RowsInv'
  BY <1>1, <1>2, <1>3 DEF Inv, TypeOK, BufferTypeOK, ServerTypeOK,
     TransportTypeOK, RowsInv
<1>5. ServerInv' /\ OnceInv'
  BY <1>1 DEF Inv, ServerInv, OnceInv
<1>6. OrderInv' /\ CallInv'
  BY <1>1, <1>2 DEF Inv, OrderInv, CallInv, NewCall
<1>7. PollInv'
  BY <1>1, <1>2 DEF PollInv, NewCall, Sent, OwnHandle
<1>8. SubmitInv' /\ ReportInv' /\ VerdictSound'
  BY <1>2 DEF SubmitInv, ReportInv, ReportsBatch, VerdictSound
<1> QED
  BY <1>4, <1>5, <1>6, <1>7, <1>8 DEF Inv

LEMMA StartPollInv == ASSUME Inv, StartPoll PROVE Inv'
<1>1. /\ CallOver /\ call \in Call /\ received \in Execution
      /\ received.attempts = call.attempts /\ call.attempts >= 1
      /\ received.handle = disclosed /\ call.handle = disclosed
      /\ ~ received.succeeded /\ call.handle # None
      /\ received.phase = "execution"
      /\ OwnHandle(disclosed) /\ Sent(Current, call.attempts)
  BY ReceivedFacts DEF StartPoll
<1>2. call.handle \in Handles
  BY <1>1 DEF Call
<1> QED
  BY <1>1, <1>2, EnterFollowUp DEF StartPoll, get_statement

\* What is known once a status GET, or a cancel request, is over.
LEMMA PollFacts ==
    ASSUME Inv, pc \in {"poll", "cancel"}, call.stage \in {"returned", "raised"}
    PROVE  /\ CallOver /\ failed \in Execution /\ call \in Call
           /\ call.target \in Handles /\ call.target # None
           /\ call.target = disclosed /\ OwnHandle(disclosed)
           /\ failed.handle = disclosed /\ failed.phase = "execution"
           /\ ~ failed.succeeded /\ failed.attempts >= 1
           /\ Sent(Current, failed.attempts)
           /\ call.handle \in {None, disclosed}
           /\ expired \in BOOLEAN
  BY DEF Inv, TypeOK, TransportTypeOK, Call, PollInv, CallOver

LEMMA PollAgainInv == ASSUME Inv, PollAgain PROVE Inv'
<1>1. /\ pc = "poll" /\ pc' = "poll" /\ failed' = failed /\ expired' = expired
      /\ call.stage \in {"returned", "raised"}
      /\ UNCHANGED <<bufferVars, progressVars, reportVars, serverVars>>
      /\ call' = NewCall("get", call.req, call.target, FALSE)
      /\ UNCHANGED <<posted, disclosed>>
  BY DEF PollAgain, Returned, plannerVars, get_statement
<1> QED
  BY <1>1, PollFacts, EnterFollowUp

LEMMA PollExpiresInv == ASSUME Inv, PollExpires PROVE Inv'
<1>1. /\ pc = "poll" /\ pc' = "cancel" /\ failed' = failed /\ expired' = expired
      /\ call.stage \in {"returned", "raised"}
      /\ UNCHANGED <<bufferVars, progressVars, reportVars, serverVars>>
      /\ call' = NewCall("cancel", call.req, call.target, FALSE)
      /\ UNCHANGED <<posted, disclosed>>
  BY DEF PollExpires, Returned, cancel
<1> QED
  BY <1>1, PollFacts, EnterFollowUp

LEMMA CancelOverInv == ASSUME Inv, CancelOver PROVE Inv'
<1>1. /\ pc = "cancel" /\ call.stage \in {"returned", "raised"} /\ OwnError(failed)
      /\ UNCHANGED <<serverVars, transportVars, expired>>
  BY DEF CancelOver, Returned, Raised
<1> QED
  BY <1>1, PollFacts, OwnErrorStep

\* The execution a handle of the present batch names is one of its POSTs.
LEMMA HandleExecution ==
    ASSUME Inv, NEW e \in Execs, e[1] = Current, stmt[e] # "none"
    PROVE  e = <<Current, e[2]>> /\ e[2] \in 1..MaxAttempts /\ e \in posted
           /\ ran[e] = e /\ ~ InFlight(e)
<1>1. e = <<Current, e[2]>> /\ e[2] \in 1..MaxAttempts
  BY DEF Execs
<1>2. ran[e] = e /\ e # None
  BY CurrentBatch DEF Inv, ServerInv
<1> QED
  BY <1>1, <1>2 DEF Inv, ServerInv, InFlight

LEMMA PollDoneInv == ASSUME Inv, PollDone PROVE Inv'
<1> DEFINE x == [failed EXCEPT !.succeeded = TRUE]
<1>1. /\ pc = "poll" /\ call.op = "get" /\ call.stage = "returned" /\ ~ is_running
      /\ UNCHANGED <<serverVars, transportVars, expired>>
  BY DEF PollDone, Returned
<1>2. /\ CallOver /\ failed \in Execution /\ call.target \in Handles
      /\ call.target # None /\ call.target = disclosed /\ OwnHandle(disclosed)
      /\ failed.handle = disclosed /\ Sent(Current, failed.attempts)
  BY <1>1, PollFacts
<1>3. stmt[call.target] = "committed"
  BY <1>1 DEF Inv, PollInv, CallInv, is_running
<1>4. Current \in Durable
  <2>1. call.target \in Execs /\ call.target[1] = Current
    BY <1>2 DEF Handles, OwnHandle
  <2>2. call.target = <<Current, call.target[2]>> /\ call.target[2] \in 1..MaxAttempts
    BY <2>1, <1>3, HandleExecution
  <2> QED
    BY <2>2, <1>3, CurrentBatch DEF Durable, Inv
<1>5. /\ x \in Execution /\ x.handle = disclosed
      /\ x.attempts = failed.attempts
  BY <1>2 DEF Execution
<1>6. CASE confirm /\ failed' = x
  BY <1>1, <1>2, <1>4, <1>5, <1>6, ConfirmStep
<1>7. CASE OwnError(x)
  <2> HIDE DEF x
  <2> QED
    BY <1>1, <1>2, <1>4, <1>5, <1>7, OwnErrorStep
<1> QED
  BY <1>6, <1>7 DEF PollDone, Conclude

LEMMA PollRaisesInv == ASSUME Inv, PollRaises PROVE Inv'
<1>1. /\ pc = "poll" /\ call.op = "get" /\ call.stage = "raised"
      /\ UNCHANGED <<serverVars, transportVars, expired>>
      /\ error(failed, FALSE, 0, call.status, call.handle)
  BY DEF PollRaises, Raised
<1>2. /\ CallOver /\ failed \in Execution /\ call \in Call
      /\ call.target \in Handles /\ call.target # None
      /\ call.target = disclosed /\ OwnHandle(disclosed)
      /\ failed.handle = disclosed /\ failed.phase = "execution"
      /\ ~ failed.succeeded /\ failed.attempts >= 1
      /\ Sent(Current, failed.attempts)
      /\ call.handle \in {None, disclosed}
  BY <1>1, PollFacts
<1>3. /\ call.status \in Statuses \cup {"none"} /\ call.handle \in Handles
      /\ failed.attempts \in 0..MaxAttempts /\ 0 \in 0..MaxAttempts
  BY <1>2, SqlApiAssumption DEF Call, Execution
<1>4. Attempts(failed, FALSE, 0) = failed.attempts
  BY DEF Attempts
<1>5. ASSUME failed.attempts <= 1, call.status = "sql_error"
      PROVE  Never(Current, {"running", "committed"})
  <2>1. failed.attempts = 1 /\ 1 \in 1..MaxAttempts
    BY <1>2, <1>3, <1>5, SqlApiAssumption
  <2>2. /\ call.target \in Execs /\ call.target[1] = Current
        /\ stmt[call.target] = "aborted"
    BY <1>1, <1>2, <1>5 DEF Handles, OwnHandle, Inv, PollInv
  <2>3. /\ call.target = <<Current, call.target[2]>>
        /\ call.target[2] \in 1..MaxAttempts /\ call.target \in posted
        /\ ~ InFlight(call.target)
    BY <2>2, HandleExecution
  <2>4. call.target[2] = 1
    BY <1>2, <2>1, <2>3 DEF Sent
  <2>5. stmt[<<Current, 1>>] \notin {"running", "committed"}
        /\ ~ InFlight(<<Current, 1>>)
    BY <2>2, <2>3, <2>4
  <2> QED
    BY <1>1, <1>2, <2>1, <2>5, SinglePost
<1> QED
  BY <1>1, <1>2, <1>3, <1>4, <1>5, ErrorStep

LEMMA SubmitRaisesInv == ASSUME Inv, SubmitRaises PROVE Inv'
<1>1. /\ pc = "submit" /\ call.op = "submit" /\ call.stage = "raised"
      /\ UNCHANGED <<serverVars, transportVars, expired>>
      /\ error(failed, TRUE, call.attempts, call.status, call.handle)
  BY DEF SubmitRaises, Raised
<1>2. /\ CallOver /\ call \in Call /\ failed = NewExecution
      /\ OwnHandle(disclosed) /\ call.handle = disclosed
      /\ Sent(Current, call.attempts) /\ call.req = Current
  BY <1>1 DEF Inv, TypeOK, TransportTypeOK, SubmitInv, CallOver
<1>3. /\ call.status \in Statuses \cup {"none"} /\ call.handle \in Handles
      /\ call.attempts \in 0..MaxAttempts /\ failed \in Execution
      /\ failed.handle = None /\ ~ failed.succeeded
  BY <1>2, SqlApiAssumption DEF Call, Inv, TypeOK, NewExecution
<1>4. Attempts(failed, TRUE, call.attempts) = call.attempts
  BY DEF Attempts
<1>5. TypeOK /\ RowsInv /\ ServerInv
  BY DEF Inv
<1>6. ASSUME call.attempts = 1
      PROVE  1 \in 1..MaxAttempts /\ PostId = <<Current, 1>> /\ PostId \in Execs
  BY <1>2, <1>3, <1>5, <1>6, CurrentBatch DEF PostId
<1>7. ASSUME call.attempts <= 1, call.status = "sql_error"
      PROVE  Never(Current, {"running", "committed"})
  <2>1. /\ call.attempts = 1
        /\ \/ Dead(PostId)
           \/ ran[PostId] # None /\ stmt[ran[PostId]] = "aborted"
    BY <1>1, <1>3, <1>7 DEF Inv, SubmitInv
  <2>2. 1 \in 1..MaxAttempts /\ PostId = <<Current, 1>> /\ PostId \in Execs
    BY <1>6, <2>1
  <2>3. stmt[PostId] \notin {"running", "committed"} /\ ~ InFlight(PostId)
    BY <1>5, <2>1, <2>2, CurrentBatch DEF Dead, ServerInv, InFlight
  <2> QED
    BY <1>1, <1>2, <2>1, <2>2, <2>3, SinglePost
<1>8. ASSUME call.attempts <= 1, (TRUE /\ call.attempts = 0) \/ call.status \in Refusals
      PROVE  Never(Current, {"running", "committed", "aborted"})
  <2>1. CASE call.attempts = 0
    BY <1>2, <1>5, <2>1, NothingSent
  <2>2. CASE call.attempts # 0
    <3>1. call.attempts = 1 /\ Dead(PostId)
      BY <1>1, <1>3, <1>8, <2>2 DEF Inv, SubmitInv
    <3>2. 1 \in 1..MaxAttempts /\ PostId = <<Current, 1>> /\ PostId \in Execs
      BY <1>6, <3>1
    <3>3. stmt[PostId] = "none" /\ ~ InFlight(PostId)
      BY <1>5, <3>1, <3>2, CurrentBatch DEF Dead, ServerInv
    <3> QED
      BY <1>1, <1>2, <3>1, <3>2, <3>3, SinglePost
  <2> QED
    BY <2>1, <2>2
<1>9. (IF call.handle # None THEN call.handle ELSE failed.handle) = disclosed
  BY <1>2, <1>3
<1>10. Sent(Current, Attempts(failed, TRUE, call.attempts))
  BY <1>2, <1>4
<1>11. failed.succeeded => Current \in Durable
  BY <1>3
<1>12. Attempts(failed, TRUE, call.attempts) <= 1 /\ call.status = "sql_error" =>
         Never(Current, {"running", "committed"})
  BY <1>4, <1>7
<1>13. /\ Attempts(failed, TRUE, call.attempts) <= 1 /\ failed.phase = "submission"
       /\ (TRUE /\ call.attempts = 0) \/ call.status \in Refusals
       => Never(Current, {"running", "committed", "aborted"})
  BY <1>4, <1>8
<1>14. TRUE \in BOOLEAN
  OBVIOUS
<1> QED
  <2>1. CallOver /\ OwnHandle(disclosed)
    BY <1>2
  <2>2. UNCHANGED <<serverVars, transportVars, expired>>
    BY <1>1
  <2>3. error(failed, TRUE, call.attempts, call.status, call.handle)
    BY <1>1
  <2>4. failed \in Execution
    BY <1>3
  <2>5. call.attempts \in 0..MaxAttempts
    BY <1>3
  <2>6. call.status \in Statuses \cup {"none"}
    BY <1>3
  <2>7. call.handle \in Handles
    BY <1>3
  <2> QED
    BY <2>1, <2>2, <2>3, <2>4, <2>5, <2>6, <2>7, <1>9, <1>10, <1>11, <1>12, <1>13, <1>14, ErrorStep, Zenon

\* What matters of a step that changes nothing but the time.
LEMMA IdleInv ==
    ASSUME Inv, UNCHANGED <<plannerVars, serverVars, transportVars, failed>>,
           expired' \in BOOLEAN
    PROVE  Inv'
<1>1. /\ UNCHANGED <<pc, buf, size, pending, exhausted, consumed, confirmed,
                     completed, phase, outcome>>
      /\ UNCHANGED <<net, ran, stmt, cancels, call, posted, disclosed, failed>>
      /\ Current' = Current /\ Durable' = Durable
  BY DEF plannerVars, bufferVars, progressVars, reportVars, serverVars,
     transportVars, Current, Durable
<1>2. TypeOK' /\ RowsInv'
  BY <1>1 DEF Inv, TypeOK, BufferTypeOK, ServerTypeOK, TransportTypeOK, RowsInv
<1>3. ServerInv' /\ OnceInv'
  BY <1>1 DEF Inv, ServerInv, OnceInv
<1>4. OrderInv' /\ CallInv'
  BY <1>1 DEF Inv, OrderInv, CallInv, ReportsBatch, Sent
<1>5. SubmitInv'
  BY <1>1 DEF Inv, SubmitInv, OwnHandle, Sent, Dead, PostId, InFlight
<1>6. PollInv' /\ ReportInv'
  BY <1>1 DEF Inv, PollInv, ReportInv, ReportsBatch, OwnHandle, Sent
<1>7. VerdictSound'
  BY <1>1 DEF Inv, VerdictSound, Never, InFlight
<1> QED
  BY <1>2, <1>3, <1>4, <1>5, <1>6, <1>7 DEF Inv

LEMMA DeadlinePassesInv == ASSUME Inv, DeadlinePasses PROVE Inv'
  BY IdleInv DEF DeadlinePasses

-----------------------------------------------------------------------------
(* The theorems.                                                            *)

\* Before the first record is pulled the invariant holds.
LEMMA InitInv == ASSUME Init PROVE Inv
<1>1. /\ pc = "fill" /\ buf = <<>> /\ size = 0 /\ pending = NoRow
      /\ exhausted = FALSE /\ consumed = 0 /\ confirmed = 0 /\ completed = <<>>
      /\ phase = "none" /\ outcome = "none"
      /\ net = {} /\ ran = [e \in Execs |-> None]
      /\ stmt = [e \in Execs |-> "none"] /\ cancels = {}
      /\ call = [NewCall("submit", 0, None, FALSE) EXCEPT !.stage = "idle"]
      /\ posted = {} /\ disclosed = None
      /\ failed = NewExecution /\ expired = FALSE
  BY DEF Init, PlannerInit, ServerInit, TransportInit
<1>2. /\ 0 \in Requests /\ None \in Handles /\ MaxAttempts \in Nat
      /\ MaxInput \in Nat
  BY SqlApiAssumption, PlannerAssumption DEF Requests, Handles
<1>3. BufferTypeOK /\ Len(completed) = 0 /\ Len(buf) = 0
  <2>1. buf \in Seq(Row) /\ Len(buf) = 0
    BY <1>1
  <2>2. completed \in Seq(Summary) /\ Len(completed) = 0
    BY <1>1
  <2>3. size \in Nat /\ exhausted \in BOOLEAN /\ consumed \in Nat
        /\ confirmed \in Nat /\ pending \in Row \cup {NoRow}
    BY <1>1
  <2> QED
    BY <2>1, <2>2, <2>3 DEF BufferTypeOK
<1>4. ServerTypeOK
  BY <1>1, <1>2 DEF ServerTypeOK
<1>5. call \in Call /\ call.stage = "idle"
  <2>1. 0 \in 0..MaxAttempts
    BY <1>2
  <2>2. NewCall("submit", 0, None, FALSE) \in Call
    BY <1>2, <2>1 DEF NewCall, Call
  <2>3. call = [NewCall("submit", 0, None, FALSE) EXCEPT !.stage = "idle"]
    BY <1>1
  <2> QED
    BY <2>2, <2>3 DEF Call
<1>6. TransportTypeOK
  BY <1>1, <1>2, <1>5 DEF TransportTypeOK
<1>7. failed \in Execution
  BY <1>1, <1>2 DEF NewExecution, Execution
<1>8. TypeOK
  BY <1>1, <1>3, <1>4, <1>6, <1>7 DEF TypeOK, Phases, Outcomes
<1>9. RowsInv
  BY <1>1, <1>2, <1>3 DEF RowsInv, Current
<1>10. ServerInv /\ OnceInv
  BY <1>1 DEF ServerInv, OnceInv
<1>11. OrderInv
  <2>1. Current = 0
    BY <1>3 DEF Current
  <2>2. Sent(Current, 0)
    <3>1. \A n \in 1..MaxAttempts : ~ (n <= 0)
      BY <1>2
    <3> QED
      BY <1>1, <3>1 DEF Sent
  <2> QED
    BY <1>1, <2>1, <2>2 DEF OrderInv
<1>12. CallInv
  BY <1>5 DEF CallInv
<1>13. SubmitInv /\ PollInv /\ ReportInv /\ VerdictSound
  BY <1>1 DEF SubmitInv, PollInv, ReportInv, ReportsBatch, VerdictSound
<1> QED
  BY <1>8, <1>9, <1>10, <1>11, <1>12, <1>13 DEF Inv

LEMMA NextInv == ASSUME Inv, [Next]_vars PROVE Inv'
<1>1. CASE Plan
  BY <1>1, PlanInv
<1>2. CASE NotifyFails
  BY <1>2, NotifyFailsInv
<1>3. CASE SubmitBatch
  BY <1>3, SubmitBatchInv
<1>4. CASE SubmitDone
  BY <1>4, SubmitDoneInv
<1>5. CASE StartPoll
  BY <1>5, StartPollInv
<1>6. CASE RunningWithoutHandle
  BY <1>6, RunningWithoutHandleInv
<1>7. CASE SubmitRaises
  BY <1>7, SubmitRaisesInv
<1>8. CASE PollAgain
  BY <1>8, PollAgainInv
<1>9. CASE PollExpires
  BY <1>9, PollExpiresInv
<1>10. CASE PollDone
  BY <1>10, PollDoneInv
<1>11. CASE PollRaises
  BY <1>11, PollRaisesInv
<1>12. CASE CancelOver
  BY <1>12, CancelOverInv
<1>13. CASE Send
  BY <1>13, SendInv
<1>14. CASE DeadlinePasses
  BY <1>14, DeadlinePassesInv
<1>15. CASE Serve
  BY <1>15, ServeInv
<1>16. CASE UNCHANGED vars
  BY <1>16, IdleInv DEF vars, Inv, TypeOK
<1> QED
  BY <1>1, <1>2, <1>3, <1>4, <1>5, <1>6, <1>7, <1>8, <1>9, <1>10, <1>11,
     <1>12, <1>13, <1>14, <1>15, <1>16 DEF Next, Client

\* Inv is an inductive invariant of insert_batches() against any service and any
\* network that SqlApi allows.
THEOREM Invariance == Spec => []Inv
<1>1. Init => Inv
  BY InitInv
<1>2. Inv /\ [Next]_vars => Inv'
  BY NextInv
<1> QED
  BY <1>1, <1>2, PTL DEF Spec

\* Every variable keeps its type, in particular submission_attempts never exceeds
\* max_attempts.
THEOREM TypeCorrect == Spec => []TypeOK
<1>1. Inv => TypeOK
  BY DEF Inv
<1> QED
  BY <1>1, Invariance, PTL

\* The outcome of a BatchWriteError is right when it is raised and stays right,
\* whatever POST, reply or cancellation is still on its way.
THEOREM VerdictsSound == Spec => []VerdictSound
<1>1. Inv => VerdictSound
  BY DEF Inv
<1> QED
  BY <1>1, Invariance, PTL

\* The FailedBatch of a BatchWriteError holds the latest handle disclosed for it.
THEOREM HandlesKept == Spec => []HandleKept
<1>1. Inv => HandleKept
  BY DEF Inv, ReportInv, HandleKept, OwnHandle
<1> QED
  BY <1>1, Invariance, PTL

\* With a history that is kept and POSTs that stay in order, no batch is written
\* twice, however often its POST is retried.
THEOREM NeverTwice == Spec => []AtMostOnce
<1>1. Inv => AtMostOnce
  BY DEF Inv, OnceInv, AtMostOnce
<1> QED
  BY <1>1, Invariance, PTL

\* A batch is sent only after every earlier batch is durable, so the source is
\* written in its own order.
THEOREM WritesSequential == Spec => []SequentialWrites
<1>1. ASSUME Inv PROVE SequentialWrites
  <2>1. Current \in Nat /\ \A e \in posted : e[1] \in Nat /\ e[1] <= Current
    BY <1>1, CurrentBatch DEF Inv, OrderInv, TypeOK, TransportTypeOK, Execs, Requests
  <2>2. \A r \in 0..(Current - 1) : r \in Durable
    BY <1>1 DEF Inv, OrderInv
  <2>3. ASSUME NEW e \in posted, NEW r \in 0..(e[1] - 1) PROVE r \in Durable
    <3>1. r \in 0..(Current - 1)
      BY <2>1, <2>3
    <3> QED
      BY <2>2, <3>1
  <2> QED
    BY <2>2, <2>3 DEF SequentialWrites
<1> QED
  BY <1>1, Invariance, PTL

\* The POSTs of a batch, numbered from one, are as many as their number.
LEMMA SentCount ==
    ASSUME Inv, NEW k \in 0..MaxAttempts, Sent(Current, k)
    PROVE  Cardinality({e \in posted : e[1] = Current}) = k
<1> DEFINE T == {e \in posted : e[1] = Current}
<1> DEFINE f == [n \in 1..k |-> <<Current, n>>]
<1>1. k \in Nat /\ MaxAttempts \in Nat /\ \A n \in 1..k : n \in 1..MaxAttempts
  BY SqlApiAssumption
<1>2. \A e \in posted : e = <<e[1], e[2]>> /\ e[2] \in 1..MaxAttempts
  BY DEF Inv, TypeOK, TransportTypeOK, Execs
<1>3. \A n \in 1..k : f[n] \in T
  BY <1>1 DEF Sent
<1>4. \A n, m \in 1..k : f[n] = f[m] => n = m
  OBVIOUS
<1>5. \A e \in T : \E n \in 1..k : f[n] = e
  <2> TAKE e \in T
  <2>1. e = <<Current, e[2]>> /\ e[2] \in 1..MaxAttempts
    BY <1>2
  <2>2. e[2] \in 1..k
    BY <1>1, <2>1 DEF Sent
  <2> QED
    BY <2>1, <2>2
<1>6. f \in Bijection(1..k, T)
  BY <1>3, <1>4, <1>5 DEF Bijection, Injection, IsInjective, Surjection
<1>7. ExistsBijection(1..k, T)
  BY <1>6 DEF ExistsBijection
<1> QED
  BY <1>1, <1>7, FS_CountingElements

\* submission_attempts of a FailedBatch is the number of its POSTs that were sent.
THEOREM AttemptsCounted == Spec => []AttemptsExact
<1>1. ASSUME Inv PROVE AttemptsExact
  <2>1. failed.attempts \in 0..MaxAttempts
    BY <1>1 DEF Inv, TypeOK, Execution
  <2>2. ReportsBatch => Sent(Current, failed.attempts)
    BY <1>1 DEF Inv, ReportInv
  <2> QED
    BY <1>1, <2>1, <2>2, SentCount DEF AttemptsExact
<1> QED
  BY <1>1, Invariance, PTL
-----------------------------------------------------------------------------
(* insert_batches() implements BatchProgress.                               *)

\* Nothing of a batch that was not sent, or that no attempt can commit any more,
\* is durable.
LEMMA NotDurable ==
    ASSUME Never(Current, {"running", "committed"})
    PROVE  Current \notin Durable
  BY DEF Never, Durable

\* A step that neither changes an execution nor the caller's view is a stutter.
LEMMA Stutter ==
    ASSUME UNCHANGED <<stmt, completed, CallerView>>
    PROVE  UNCHANGED Progress!progress
  BY DEF Progress!progress, Durable, Current

\* Every BatchWriteError is a verdict of the abstract import.
LEMMA ReportMaps ==
    ASSUME Inv, Inv', pc \notin {"end", "raised"}, pc' = "raised",
           UNCHANGED <<stmt, net, completed>>
    PROVE  Progress!Next
<1>1. Durable' = Durable /\ Current' = Current
  BY DEF Durable, Current
<1>2. CallerView = "open" /\ CallerView' = outcome'
  BY DEF CallerView
<1>3. outcome' \in Progress!Verdicts
  BY DEF Inv, TypeOK, ReportInv, Outcomes, Progress!Verdicts
<1>4. /\ outcome' = "not_executed" =>
           Never(Current, {"running", "committed", "aborted"})
      /\ outcome' = "failed" => Never(Current, {"running", "committed"})
      /\ outcome' = "succeeded" => Current \in Durable
  BY <1>1 DEF Inv, VerdictSound, Never, InFlight
<1>5. outcome' \in {"not_executed", "failed"} => Current \notin Durable
  BY <1>4, NotDurable DEF Never
<1>6. Progress!Stop(outcome')
  BY <1>1, <1>2, <1>4, <1>5 DEF Progress!Stop
<1> QED
  BY <1>3, <1>6 DEF Progress!Next

\* confirm() is the abstract Confirm: the invariant that holds after it says that
\* the batch is durable.
LEMMA ConfirmMaps ==
    ASSUME Inv, Inv', pc \notin {"end", "raised"}, confirm, UNCHANGED stmt
    PROVE  Progress!Next
<1>1. pc' = "fill" /\ Durable' = Durable
  BY DEF confirm, Durable
<1>2. CallerView = "open" /\ CallerView' = "open"
  BY <1>1 DEF CallerView
<1>3. Current' = Current + 1 /\ Current \in Nat
  BY DEF confirm, Current, Inv, TypeOK, BufferTypeOK
<1>4. Current \in Durable
  BY <1>1, <1>3 DEF Inv, OrderInv
<1> QED
  BY <1>1, <1>2, <1>3, <1>4 DEF Progress!Next, Progress!Confirm

\* An execution that commits is the abstract Write, unless its batch was durable
\* already; it is of the present batch, and no verdict excludes it.
LEMMA CommitMaps ==
    ASSUME Inv, NEW e \in Execs, stmt[e] = "running",
           stmt' = [stmt EXCEPT ![e] = "committed"], UNCHANGED <<pc, outcome, completed>>
    PROVE  Progress!Next \/ UNCHANGED Progress!progress
<1>1. CallerView' = CallerView /\ Current' = Current
  BY DEF CallerView, Current
<1>2. stmt \in [Execs -> {"none", "running", "committed", "aborted"}]
  BY DEF Inv, TypeOK, ServerTypeOK
<1>3. /\ e = <<e[1], e[2]>> /\ e[1] \in Nat /\ e[2] \in 1..MaxAttempts
      /\ \A r \in Requests, n \in 1..MaxAttempts : <<r, n>> \in Execs
  BY DEF Execs, Requests
<1>4. Durable' = Durable \cup {e[1]}
  <2>1. \A x \in Execs : stmt'[x] = IF x = e THEN "committed" ELSE stmt[x]
    BY <1>2
  <2>2. \A r \in Requests, n \in 1..MaxAttempts :
          stmt'[<<r, n>>] = "committed" <=>
            <<r, n>> = e \/ stmt[<<r, n>>] = "committed"
    BY <1>3, <2>1
  <2>3. e[1] \in Requests
    BY DEF Execs
  <2>4. \A r \in Requests : r \in Durable' <=> r = e[1] \/ r \in Durable
    BY <1>3, <2>2, <2>3 DEF Durable
  <2> QED
    BY <2>3, <2>4 DEF Durable
<1>5. e \in posted /\ e[1] <= Current /\ Current \in Nat
  BY CurrentBatch DEF Inv, ServerInv, OrderInv
<1>6. CASE e[1] \in Durable
  BY <1>1, <1>4, <1>6 DEF Progress!progress
<1>7. CASE e[1] \notin Durable
  <2>1. e[1] = Current
    BY <1>3, <1>5, <1>7 DEF Inv, OrderInv
  <2>2. CallerView \in {"open", "unknown"}
    <3>1. pc # "end"
      <4>1. Sent(Current, 0) => <<Current, e[2]>> \notin posted
        BY <1>3, SqlApiAssumption DEF Sent
      <4> QED
        BY <1>3, <1>5, <2>1, <4>1 DEF Inv, OrderInv, ReportsBatch
    <3>2. ASSUME pc = "raised"
          PROVE  outcome = "unknown"
      <4>1. stmt[<<Current, e[2]>>] = "running"
        BY <1>3, <2>1
      <4>2. ~ Never(Current, {"running", "committed", "aborted"})
            /\ ~ Never(Current, {"running", "committed"})
        BY <1>3, <4>1 DEF Never
      <4>3. Current \notin Durable
        BY <1>7, <2>1
      <4> QED
        BY <3>2, <4>2, <4>3 DEF Inv, TypeOK, ReportInv, VerdictSound, Outcomes
    <3> QED
      BY <3>1, <3>2 DEF CallerView
  <2>3. Progress!Write
    BY <1>1, <1>4, <1>7, <2>1, <2>2 DEF Progress!Write
  <2> QED
    BY <2>3 DEF Progress!Next
<1> QED
  BY <1>6, <1>7

LEMMA PlanMaps ==
    ASSUME Inv, Inv', Plan
    PROVE  Progress!Next \/ UNCHANGED Progress!progress
<1>1. PlanFrame /\ UNCHANGED <<stmt, net, completed>>
  BY NextBatchRows DEF Inv, TypeOK, RowsOK, Plan, serverVars, PlanFrame
<1>2. CASE pc' \in {"fill", "flush", "ready"}
  BY <1>1, <1>2, Stutter DEF PlanFrame, CallerView
<1>3. CASE pc' = "raised"
  BY <1>1, <1>3, ReportMaps DEF PlanFrame
<1>4. CASE pc' = "end"
  <2>1. CallerView = "open" /\ CallerView' = "returned"
    BY <1>1, <1>4 DEF PlanFrame, CallerView
  <2>2. Durable' = Durable /\ Current' = Current
    BY <1>1 DEF Durable, Current
  <2>3. Sent(Current, 0)
    BY <1>1 DEF Inv, OrderInv, PlanFrame, ReportsBatch
  <2>4. Current \notin Durable
    BY <2>3, NothingSent, NotDurable DEF Inv, Never
  <2>5. Progress!Return
    BY <2>1, <2>2, <2>4 DEF Progress!Return
  <2> QED
    BY <2>5 DEF Progress!Next
<1> QED
  BY <1>1, <1>2, <1>3, <1>4 DEF PlanFrame

\* An import that goes on waiting shows its caller nothing.
LEMMA WaitMaps ==
    ASSUME Inv, SubmitBatch \/ StartPoll \/ PollAgain \/ PollExpires \/ Send
                \/ DeadlinePasses \/ UNCHANGED vars
    PROVE  UNCHANGED Progress!progress
<1>1. CASE SubmitBatch
  BY <1>1, Stutter DEF SubmitBatch, CallerView, serverVars, progressVars
<1>2. CASE StartPoll
  BY <1>2, Stutter DEF StartPoll, CallerView, serverVars, progressVars
<1>3. CASE PollAgain
  BY <1>3, Stutter DEF PollAgain, CallerView, serverVars, plannerVars,
     progressVars, reportVars
<1>4. CASE PollExpires
  BY <1>4, Stutter DEF PollExpires, CallerView, serverVars, progressVars
<1>5. CASE Send
  <2>1. UNCHANGED stmt
    BY <1>5 DEF Send, TransportNext, Attempt, TokenFails, NoReply, RetryReply,
       FinalReply, Undecodable, Exhausted, serverVars
  <2> QED
    BY <1>5, <2>1, Stutter DEF Send, CallerView, plannerVars, progressVars, reportVars
<1>6. CASE DeadlinePasses
  BY <1>6, Stutter DEF DeadlinePasses, CallerView, serverVars, plannerVars,
     progressVars, reportVars
<1>7. CASE UNCHANGED vars
  BY <1>7, Stutter DEF vars, CallerView, serverVars, plannerVars, progressVars,
     reportVars
<1> QED
  BY <1>1, <1>2, <1>3, <1>4, <1>5, <1>6, <1>7

LEMMA ConcludeMaps ==
    ASSUME Inv, Inv', NEW x, pc \in {"submit", "poll"}, Conclude(x),
           UNCHANGED serverVars
    PROVE  Progress!Next
<1>1. CASE confirm
  BY <1>1, ConfirmMaps DEF serverVars
<1>2. CASE OwnError(x)
  BY <1>2, ReportMaps DEF OwnError, error, serverVars, progressVars
<1> QED
  BY <1>1, <1>2 DEF Conclude

LEMMA ServeMaps ==
    ASSUME Inv, Serve
    PROVE  Progress!Next \/ UNCHANGED Progress!progress
<1>1. UNCHANGED <<pc, outcome, completed>>
  BY DEF Serve, plannerVars, progressVars, reportVars
<1>2. CallerView' = CallerView /\ Current' = Current
  BY <1>1 DEF CallerView, Current
<1>3. stmt \in [Execs -> {"none", "running", "committed", "aborted"}]
  BY DEF Inv, TypeOK, ServerTypeOK
<1>4. ASSUME UNCHANGED stmt PROVE UNCHANGED Progress!progress
  BY <1>1, <1>2, <1>4, Stutter
<1>5. ASSUME NEW e \in Execs, NEW s \in {"running", "aborted"}, stmt[e] # "committed",
             stmt' = [stmt EXCEPT ![e] = s]
      PROVE  UNCHANGED Progress!progress
  <2>1. \A x \in Execs : stmt'[x] = "committed" <=> stmt[x] = "committed"
    BY <1>3, <1>5
  <2>2. Durable' = Durable
    BY <2>1 DEF Durable, Execs
  <2> QED
    BY <1>2, <2>2 DEF Progress!progress
<1>6. ASSUME NEW m \in net, Start(m) PROVE UNCHANGED Progress!progress
  <2>1. m.id \in Execs /\ stmt[m.id] = "none"
    BY CurrentBatch DEF Inv, TypeOK, ServerTypeOK, ServerInv
  <2> QED
    BY <1>5, <1>6, <2>1 DEF Start
<1>7. ASSUME NEW m \in net, Recall(m) \/ Discard(m) PROVE UNCHANGED Progress!progress
  BY <1>4, <1>7 DEF Recall, Discard
<1>8. ASSUME NEW e \in Execs, Finish(e)
      PROVE  Progress!Next \/ UNCHANGED Progress!progress
  <2>1. CASE stmt' = [stmt EXCEPT ![e] = "committed"]
    BY <1>1, <1>8, <2>1, CommitMaps DEF Finish
  <2>2. CASE stmt' = [stmt EXCEPT ![e] = "aborted"]
    BY <1>5, <1>8, <2>2 DEF Finish
  <2> QED
    BY <1>8, <2>1, <2>2 DEF Finish
<1>9. ASSUME NEW e \in Execs, TakeCancel(e) PROVE UNCHANGED Progress!progress
  <2>1. CASE stmt[e] = "running"
    BY <1>5, <1>9, <2>1 DEF TakeCancel
  <2>2. CASE stmt[e] # "running"
    <3>1. stmt' = stmt
      BY <1>3, <1>9, <2>2 DEF TakeCancel
    <3> QED
      BY <1>4, <3>1
  <2> QED
    BY <2>1, <2>2
<1>10. ASSUME NEW e \in Execs, LoseCancel(e) PROVE UNCHANGED Progress!progress
  BY <1>4, <1>10 DEF LoseCancel
<1> QED
  BY <1>6, <1>7, <1>8, <1>9, <1>10 DEF Serve, ServerNext

LEMMA StepMaps ==
    ASSUME Inv, Inv', [Next]_vars
    PROVE  [Progress!Next]_(Progress!progress)
<1>1. CASE Plan
  BY <1>1, PlanMaps
<1>2. CASE NotifyFails
  BY <1>2, ReportMaps DEF NotifyFails, LocalError, serverVars, progressVars
<1>3. CASE SubmitDone
  BY <1>3, ConcludeMaps DEF SubmitDone
<1>4. CASE RunningWithoutHandle
  BY <1>4, ReportMaps DEF RunningWithoutHandle, OwnError, error, serverVars,
     progressVars
<1>5. CASE SubmitRaises
  BY <1>5, ReportMaps DEF SubmitRaises, error, serverVars, progressVars
<1>6. CASE PollDone
  BY <1>6, ConcludeMaps DEF PollDone
<1>7. CASE PollRaises
  BY <1>7, ReportMaps DEF PollRaises, error, serverVars, progressVars
<1>8. CASE CancelOver
  BY <1>8, ReportMaps DEF CancelOver, OwnError, error, serverVars, progressVars
<1>9. CASE Serve
  BY <1>9, ServeMaps
<1>10. CASE SubmitBatch \/ StartPoll \/ PollAgain \/ PollExpires \/ Send
            \/ DeadlinePasses \/ UNCHANGED vars
  BY <1>10, WaitMaps
<1> QED
  BY <1>1, <1>2, <1>3, <1>4, <1>5, <1>6, <1>7, <1>8, <1>9, <1>10 DEF Next, Client

\* insert_batches(), with every retry, lost reply and late POST, implements the
\* promise of BatchProgress.
THEOREM Refinement == Spec => KeepsPromise
<1>1. Init => Progress!Init
  BY DEF Init, PlannerInit, ServerInit, Progress!Init, Durable, Execs, Current,
     CallerView
<1>2. Inv /\ Inv' /\ [Next]_vars => [Progress!Next]_(Progress!progress)
  BY StepMaps
<1> QED
  BY <1>1, <1>2, Invariance, PTL DEF Spec, KeepsPromise, Progress!Spec

\* The durable batches are exactly the confirmed ones and at most the batch after
\* them: the source can be resumed at next_row_index, or one batch later.
THEOREM DurablePrefix == Spec => []Progress!PrefixDurable
<1>1. ASSUME Inv PROVE Progress!PrefixDurable
  <2>1. Current \in Nat /\ \A r \in 0..(Current - 1) : r \in Durable
    BY <1>1, CurrentBatch DEF Inv, OrderInv
  <2>2. ASSUME NEW r \in Durable PROVE r \in Nat /\ r <= Current
    <3>1. PICK n \in 1..MaxAttempts : stmt[<<r, n>>] = "committed"
      BY <2>2 DEF Durable
    <3>2. r \in Requests /\ r \in Nat /\ <<r, n>> \in Execs
      BY <2>2, SqlApiAssumption DEF Durable, Requests, Execs
    <3>3. <<r, n>> \in posted
      BY <1>1, <3>1, <3>2, CurrentBatch DEF Inv, ServerInv
    <3> QED
      BY <1>1, <3>2, <3>3 DEF Inv, OrderInv
  <2>3. Durable = 0..(Current - 1) \/ Durable = 0..Current
    <3>1. \A r \in Durable : r \in 0..Current
      BY <2>1, <2>2
    <3>2. CASE Current \in Durable
      <4>1. \A r \in 0..Current : r = Current \/ r \in 0..(Current - 1)
        BY <2>1
      <4>2. \A r \in 0..Current : r \in Durable
        BY <2>1, <3>2, <4>1
      <4> QED
        BY <3>1, <4>2
    <3>3. CASE Current \notin Durable
      <4>1. \A r \in Durable : r # Current /\ r \in 0..Current
        BY <3>1, <3>3
      <4>2. \A r \in 0..Current : r # Current => r \in 0..(Current - 1)
        BY <2>1
      <4>3. \A r \in Durable : r \in 0..(Current - 1)
        BY <4>1, <4>2
      <4> QED
        BY <2>1, <4>3
    <3> QED
      BY <3>2, <3>3
  <2>4. CallerView \in {"not_executed", "failed", "returned"} => Current \notin Durable
    <3>1. pc = "end" => Current \notin Durable
      BY <1>1, NothingSent, NotDurable DEF Inv, OrderInv, ReportsBatch, Never
    <3>2. /\ pc = "raised" /\ outcome \in {"not_executed", "failed"}
          => Current \notin Durable
      BY <1>1, NotDurable DEF Inv, VerdictSound, Never
    <3>3. CallerView = "returned" => pc = "end"
      BY <1>1 DEF CallerView, Inv, TypeOK, Outcomes
    <3>4. /\ CallerView \in {"not_executed", "failed"}
          => pc = "raised" /\ outcome = CallerView
      BY DEF CallerView
    <3> QED
      BY <3>1, <3>2, <3>3, <3>4
  <2>5. CallerView = "succeeded" => Current \in Durable
    BY <1>1 DEF Inv, VerdictSound, CallerView
  <2>6. Current \notin 0..(Current - 1) /\ Current \in 0..Current
    BY <2>1
  <2> QED
    BY <2>1, <2>3, <2>4, <2>5, <2>6 DEF Progress!PrefixDurable
<1> QED
  BY <1>1, Invariance, PTL

-----------------------------------------------------------------------------
(* The planner inside insert_batches().                                     *)

\* Sending, waiting and failing leave the records where they are; a batch is confirmed
\* with its records in the buffer.
LEMMA ConcludePlanner ==
    ASSUME PlannerInv, Inv, pc \in {"submit", "poll"}, NEW x, Conclude(x)
    PROVE  PlannerInv'
<1>1. CASE confirm
  <2>1. buf # <<>>
    BY DEF Inv, RowsInv
  <2> QED
    BY <1>1, <2>1, ConfirmedStep
<1>2. CASE OwnError(x)
  BY <1>2, RestingStep DEF OwnError, error
<1> QED
  BY <1>1, <1>2 DEF Conclude

LEMMA PlannerKept ==
    ASSUME PlannerInv, Inv, [Next]_vars
    PROVE  PlannerInv'
<1>1. CASE Plan
  BY <1>1, NextBatchStep DEF Plan
<1>2. CASE NotifyFails \/ SubmitBatch
  BY <1>2, RestingStep DEF NotifyFails, SubmitBatch, LocalError
<1>3. CASE SubmitDone \/ PollDone
  BY <1>3, ConcludePlanner DEF SubmitDone, PollDone
<1>4. CASE StartPoll \/ PollExpires
  BY <1>4, RestingStep DEF StartPoll, PollExpires
<1>5. CASE RunningWithoutHandle \/ SubmitRaises \/ PollRaises \/ CancelOver
  BY <1>5, RestingStep
  DEF RunningWithoutHandle, SubmitRaises, PollRaises, CancelOver, OwnError, error
<1>6. CASE PollAgain \/ DeadlinePasses \/ Send \/ Serve \/ UNCHANGED vars
  <2>1. UNCHANGED plannerVars
    BY <1>6 DEF PollAgain, DeadlinePasses, Send, Serve, vars
  <2> QED
    BY <2>1, PlannerInvStep
<1> QED
  BY <1>1, <1>2, <1>3, <1>4, <1>5, <1>6 DEF Next, Client

\* What the planner promises holds while its batches are written, retried and fail: the
\* records are accounted for at every step of insert_batches(), so next_row_index is a
\* boundary of the source, and a normal return means that all of it is confirmed.
THEOREM PlannerInWrites ==
    Spec => [](RecordsAccounted /\ MeasuredBudget /\ BatchesGreedy /\ EndsComplete)
<1>1. Init => PlannerInv
  BY PlannerInvInit DEF Init
<1>2. PlannerInv /\ Inv /\ [Next]_vars => PlannerInv'
  BY PlannerKept
<1>3. PlannerInv => RecordsAccounted /\ MeasuredBudget /\ BatchesGreedy /\ EndsComplete
  BY GreedyNow DEF PlannerInv
<1> QED
  BY <1>1, <1>2, <1>3, Invariance, PTL DEF Spec
=============================================================================
