-------------------------- MODULE TestDoubleProofs --------------------------
(***************************************************************************)
(* Proofs about the test double.                                           *)
(*                                                                         *)
(* First FakeSnowflake, for any number of statements, predicates, calls    *)
(* and attempts, and registrations of any number of rows, partitions and   *)
(* polls: what is looked up, what a call receives, and that it comes to an *)
(* end.  Then the arithmetic of WireTypes, for every size of its units.    *)
(***************************************************************************)
EXTENDS FakeSnowflake, WireTypes, Induction, FiniteSetTheorems

-----------------------------------------------------------------------------
(* Registrations.                                                           *)

\* A registration has a number and the parts of its shape, and is not Unregistered.
LEMMA RegParts ==
    ASSUME NEW reg \in Regs
    PROVE  /\ reg.id \in 1..MaxRegs /\ reg.shape \in Shapes
           /\ reg.shape.rows \in Nat
           /\ reg.shape.partitions \in Nat /\ reg.shape.partitions >= 1
           /\ reg.shape.polls \in Nat
           /\ reg.shape.count \in Nat
           /\ reg.shape.error \in {"none", "final", "retried"}
           /\ reg # Unregistered
<1>1. reg.id \in 1..MaxRegs /\ reg.shape \in Shapes
  BY DEF Regs
<1>2. reg.shape \in Shape
  BY <1>1, FakeAssumption
<1>3. reg = [id |-> reg.id, shape |-> reg.shape]
  BY DEF Regs
<1>4. reg # Unregistered
  BY <1>3 DEF Unregistered
<1>5. QED BY <1>1, <1>2, <1>4 DEF Shape

\* The first index of a sequence at which a test holds, or 0.
LEMMA FirstIndex ==
    ASSUME NEW S \in SUBSET Nat, S # {}
    PROVE  /\ Min(S) \in S
           /\ \A i \in S : Min(S) <= i
<1> DEFINE R == OpToRel(<, Nat)
<1>1. \A x, y \in Nat : <<x, y>> \in R <=> x < y
  BY DEF OpToRel
<1>2. IsWellFoundedOn(R, Nat)
  BY NatLessThanWellFounded
<1> HIDE DEF R
<1>3. PICK x \in S : \A y \in S : ~(<<y, x>> \in R)
  BY <1>2, WFMin
<1>4. ASSUME NEW y \in S PROVE x <= y
  <2>1. x \in Nat /\ y \in Nat
    OBVIOUS
  <2>2. ~(y < x)
    BY <1>1, <1>3, <2>1
  <2>3. QED BY <2>1, <2>2
<1>5. QED BY <1>4 DEF Min

\* The latest index of a statement in the log, and the earliest of a predicate, are what
\* Expected() takes.
LEMMA Latest ==
    ASSUME NEW S \in SUBSET Nat, NEW i \in S, \A j \in S : j <= i
    PROVE  (CHOOSE k \in S : \A j \in S : j <= k) = i
<1>1. \A k \in S : (\A j \in S : j <= k) => k = i
  OBVIOUS
<1>2. QED BY <1>1

\* The earliest likewise.
LEMMA Earliest ==
    ASSUME NEW S \in SUBSET Nat, NEW i \in S, \A j \in S : i <= j
    PROVE  (CHOOSE k \in S : \A j \in S : k <= j) = i
<1>1. \A k \in S : (\A j \in S : k <= j) => k = i
  OBVIOUS
<1>2. QED BY <1>1

RegistryOK ==
    /\ exact \in [Statements -> Regs \cup {Unregistered}]
    /\ predicates \in Seq(PredicateRegs)
    /\ Len(log) <= MaxRegs
    /\ RegistryInv

\* _exact and _predicates give every statement the registration that is in force: the
\* latest of its own, or else the earliest predicate that matches it.
LEMMA LookupExpected ==
    ASSUME RegistryOK, NEW sql \in Statements
    PROVE  /\ _lookup(sql) = Expected(sql)
           /\ _lookup(sql) \in Regs \cup {Unregistered}
<1> DEFINE Of(by) == {i \in DOMAIN log : log[i].by = by /\ sql \in log[i].matches}
           Hits == {k \in 1..Len(predicates) : sql \in predicates[k].matches}
<1>1. /\ log \in Seq(Entries)
      /\ predicates \in Seq(PredicateRegs)
      /\ exact[sql] \in Regs \cup {Unregistered}
  BY DEF RegistryOK, RegistryInv
<1>2. DOMAIN log = 1..Len(log) /\ DOMAIN predicates = 1..Len(predicates)
      /\ Len(log) \in Nat /\ Len(predicates) \in Nat
  BY <1>1
<1>3. \A k \in 1..Len(predicates) :
        /\ predicates[k].reg \in Regs
        /\ predicates[k].reg.id \in DOMAIN log
        /\ log[predicates[k].reg.id].by = "predicate"
        /\ log[predicates[k].reg.id].matches = predicates[k].matches
        /\ log[predicates[k].reg.id].reg = predicates[k].reg
  <2>1. SUFFICES ASSUME NEW k \in 1..Len(predicates)
                 PROVE  /\ predicates[k].reg \in Regs
                        /\ predicates[k].reg.id \in DOMAIN log
                        /\ log[predicates[k].reg.id].by = "predicate"
                        /\ log[predicates[k].reg.id].matches = predicates[k].matches
                        /\ log[predicates[k].reg.id].reg = predicates[k].reg
    OBVIOUS
  <2>2. predicates[k].reg \in Regs
    <3>1. predicates[k] \in PredicateRegs
      BY <1>1, <1>2
    <3>2. QED BY <3>1 DEF PredicateRegs
  <2>3. /\ predicates[k].reg.id \in DOMAIN log
        /\ log[predicates[k].reg.id] = [by |-> "predicate", matches |-> predicates[k].matches,
                                        reg |-> predicates[k].reg]
    BY <1>2 DEF RegistryOK, RegistryInv
  <2>4. QED BY <2>2, <2>3
<1>l. \A i \in DOMAIN log : log[i].reg \in Regs
  <2>1. SUFFICES ASSUME NEW i \in DOMAIN log PROVE log[i].reg \in Regs
    OBVIOUS
  <2>2. log[i] \in Entries
    BY <1>1, <1>2
  <2>3. QED BY <2>2 DEF Entries
<1>0. \/ Of("sql") = {} /\ exact[sql] = Unregistered
      \/ \E i \in Of("sql") : exact[sql] = log[i].reg /\ \A j \in Of("sql") : j <= i
  BY Zenon DEF RegistryOK, RegistryInv
<1>p. \A i \in DOMAIN log : log[i].by = "predicate" =>
         \E k \in DOMAIN predicates : predicates[k].reg.id = i
  BY DEF RegistryOK, RegistryInv
<1>4. Of("sql") \in SUBSET Nat /\ Of("predicate") \in SUBSET Nat /\ Hits \in SUBSET Nat
  BY <1>2
<1>5. Expected(sql) = CASE Of("sql") # {} -> log[CHOOSE i \in Of("sql") : \A j \in Of("sql") : j <= i].reg
          [] Of("sql") = {} /\ Of("predicate") # {} ->
               log[CHOOSE i \in Of("predicate") : \A j \in Of("predicate") : i <= j].reg
          [] OTHER -> Unregistered
  BY DEF Expected
<1>6. _lookup(sql) = IF exact[sql] # Unregistered THEN exact[sql]
                     ELSE IF Hits = {} THEN Unregistered
                     ELSE predicates[Min(Hits)].reg
  <2>1. SelectInSeq(predicates, LAMBDA p : sql \in p.matches)
          = IF Hits # {} THEN Min(Hits) ELSE 0
    BY DEF SelectInSeq
  <2>2. Hits # {} => Min(Hits) # 0
    BY <1>4, FirstIndex
  <2> HIDE DEF Hits
  <2>3. QED BY <2>1, <2>2 DEF _lookup
<1>7. CASE Of("sql") # {}
  <2>1. PICK i \in Of("sql") : exact[sql] = log[i].reg /\ \A j \in Of("sql") : j <= i
    BY <1>0, <1>7
  <2>2. log[i].reg \in Regs
    BY <1>l, <2>1
  <2>3. exact[sql] # Unregistered
    BY <2>1, <2>2, RegParts
  <2> HIDE DEF Of
  <2>4. (CHOOSE k \in Of("sql") : \A j \in Of("sql") : j <= k) = i
    BY <1>4, <2>1, Latest
  <2>5. Expected(sql) = log[i].reg
    BY <1>5, <1>7, <2>4
  <2>6. _lookup(sql) = log[i].reg
    BY <1>6, <2>1, <2>3
  <2>7. QED BY <2>2, <2>5, <2>6
<1>8. CASE Of("sql") = {} /\ Of("predicate") = {}
  <2>1. exact[sql] = Unregistered
    BY <1>0, <1>8
  <2>2. Hits = {}
    <3>1. SUFFICES ASSUME NEW k \in Hits PROVE FALSE
      OBVIOUS
    <3>0. k \in 1..Len(predicates) /\ sql \in predicates[k].matches
      BY <3>1
    <3>2. predicates[k].reg.id \in Of("predicate")
      BY <1>3, <3>0
    <3>3. QED BY <1>8, <3>2
  <2>3. Expected(sql) = Unregistered
    BY <1>5, <1>8
  <2> HIDE DEF Hits
  <2>4. QED BY <1>6, <2>1, <2>2, <2>3
<1>9. CASE Of("sql") = {} /\ Of("predicate") # {}
  <2>1. exact[sql] = Unregistered
    BY <1>0, <1>9
  <2>2. \A i \in Of("predicate") : \E k \in Hits : predicates[k].reg.id = i
    <3>1. SUFFICES ASSUME NEW i \in Of("predicate")
                   PROVE  \E k \in Hits : predicates[k].reg.id = i
      OBVIOUS
    <3>2. PICK k \in DOMAIN predicates : predicates[k].reg.id = i
      BY <1>p, <3>1
    <3>3. predicates[k].matches = log[i].matches
      BY <1>2, <1>3, <3>2
    <3>4. QED BY <1>2, <3>2, <3>3
  <2>3. Hits # {}
    BY <1>9, <2>2
  <2> DEFINE first == Min(Hits)
             i == predicates[first].reg.id
  <2> HIDE DEF first
  <2>4. first \in Hits /\ \A k \in Hits : first <= k
    <3> HIDE DEF Hits
    <3>1. Hits \in SUBSET Nat
      BY <1>4
    <3>2. QED BY <2>3, <3>1, FirstIndex DEF first
  <2>5. i \in Of("predicate") /\ log[i].reg = predicates[first].reg
    BY <1>3, <2>4
  <2>6. \A j \in Of("predicate") : i <= j
    <3>1. SUFFICES ASSUME NEW j \in Of("predicate") PROVE i <= j
      OBVIOUS
    <3>2. PICK k \in Hits : predicates[k].reg.id = j
      BY <2>2
    <3>3. first < k => i < j
      BY <1>2, <2>4, <3>2 DEF RegistryOK, RegistryInv
    <3>4. first <= k /\ first \in Nat /\ k \in Nat
      BY <1>4, <2>4
    <3>5. i \in Nat /\ j \in Nat
      BY <1>4, <2>5
    <3>6. CASE first = k
      BY <3>2, <3>5, <3>6
    <3>7. QED BY <3>3, <3>4, <3>5, <3>6
  <2>7. Expected(sql) = log[i].reg
    <3> HIDE DEF Of, i
    <3>1. (CHOOSE k \in Of("predicate") : \A j \in Of("predicate") : k <= j) = i
      BY <1>4, <2>5, <2>6, Earliest
    <3>2. QED BY <1>5, <1>9, <3>1
  <2>8. predicates[first].reg \in Regs
    BY <1>3, <2>4
  <2>9. _lookup(sql) = predicates[first].reg
    <3> HIDE DEF Hits
    <3>1. QED BY <1>6, <2>1, <2>3 DEF first
  <2>10. QED BY <2>5, <2>7, <2>8, <2>9
<1>10. QED BY <1>7, <1>8, <1>9

-----------------------------------------------------------------------------
(* The registry.                                                            *)

\* What a sequence is after an Append.
LEMMA Appended ==
    ASSUME NEW S, NEW s \in Seq(S), NEW e \in S
    PROVE  /\ Append(s, e) \in Seq(S)
           /\ Len(Append(s, e)) = Len(s) + 1
           /\ DOMAIN Append(s, e) = 1..(Len(s) + 1)
           /\ \A i \in 1..Len(s) : Append(s, e)[i] = s[i]
           /\ Append(s, e)[Len(s) + 1] = e
OBVIOUS

\* A registration that may be logged has the number after the last one.
LEMMA NewRegistration ==
    ASSUME RegistryOK, Len(log) < MaxRegs, NEW shape \in Shapes
    PROVE  /\ NewReg(shape) \in Regs
           /\ NewReg(shape).id = Len(log) + 1
           /\ Len(log) \in Nat
<1>1. Len(log) \in Nat
  BY DEF RegistryOK, RegistryInv
<1>2. Len(log) + 1 \in 1..MaxRegs
  BY <1>1, FakeAssumption
<1>3. QED BY <1>1, <1>2 DEF NewReg, Regs

\* register() puts the new registration in the place of the statement's last one.
LEMMA RegisterRegistry ==
    ASSUME RegistryOK, NEW sql \in Statements, NEW shape \in Shapes, Register(sql, shape)
    PROVE  RegistryOK'
<1> DEFINE n == Len(log) + 1
           e == [by |-> "sql", matches |-> {sql}, reg |-> NewReg(shape)]
           Mine(s) == {i \in DOMAIN log : log[i].by = "sql" /\ s \in log[i].matches}
           Next1(s) == {i \in DOMAIN log' : log'[i].by = "sql" /\ s \in log'[i].matches}
<1>1. /\ Len(log) < MaxRegs
      /\ exact' = [exact EXCEPT ![sql] = NewReg(shape)]
      /\ log' = Append(log, e)
      /\ predicates' = predicates
  BY DEF Register
<1>2. NewReg(shape) \in Regs /\ NewReg(shape).id = n /\ Len(log) \in Nat
  BY <1>1, NewRegistration
<1>3. e \in Entries
  BY <1>2 DEF Entries
<1>4. /\ log \in Seq(Entries)
      /\ DOMAIN log = 1..Len(log)
      /\ \A i \in DOMAIN log : log[i].reg.id = i
      /\ exact \in [Statements -> Regs \cup {Unregistered}]
      /\ MaxRegs \in Nat
  BY FakeAssumption DEF RegistryOK, RegistryInv
<1>5. /\ log' \in Seq(Entries) /\ Len(log') = n /\ DOMAIN log' = 1..n
      /\ \A i \in 1..Len(log) : log'[i] = log[i]
      /\ log'[n] = e
  <2> HIDE DEF e
  <2>1. QED BY <1>1, <1>3, <1>4, Appended
<1>6. exact' \in [Statements -> Regs \cup {Unregistered}] /\ Len(log') <= MaxRegs
  BY <1>1, <1>2, <1>4, <1>5
<1>7. \A i \in DOMAIN log' : log'[i].reg.id = i
  <2>1. SUFFICES ASSUME NEW i \in 1..n PROVE log'[i].reg.id = i
    BY <1>5
  <2>2. CASE i = n
    BY <1>2, <1>5, <2>2
  <2>3. CASE i # n
    BY <1>2, <1>4, <1>5, <2>3
  <2>4. QED BY <2>2, <2>3
<1>8. ASSUME NEW s \in Statements
      PROVE  \/ Next1(s) = {} /\ exact'[s] = Unregistered
             \/ \E i \in Next1(s) : exact'[s] = log'[i].reg /\ \A j \in Next1(s) : j <= i
  <2>1. CASE s = sql
    <3>1. n \in Next1(s) /\ exact'[s] = log'[n].reg
      BY <1>1, <1>2, <1>4, <1>5, <2>1
    <3>2. \A j \in Next1(s) : j <= n
      BY <1>2, <1>5
    <3>3. QED BY <3>1, <3>2
  <2>2. CASE s # sql
    <3>1. exact'[s] = exact[s]
      BY <1>1, <1>4, <2>2
    <3>2. Next1(s) = Mine(s) /\ \A i \in Mine(s) : log'[i] = log[i]
      BY <1>2, <1>4, <1>5, <2>2
    <3>3. \/ Mine(s) = {} /\ exact[s] = Unregistered
          \/ \E i \in Mine(s) : exact[s] = log[i].reg /\ \A j \in Mine(s) : j <= i
      BY Zenon DEF RegistryOK, RegistryInv
    <3> HIDE DEF Mine, Next1
    <3>4. QED BY <3>1, <3>2, <3>3
  <2>3. QED BY <2>1, <2>2
<1>9. /\ \A k \in DOMAIN predicates' :
           LET i == predicates'[k].reg.id
           IN  /\ i \in DOMAIN log'
               /\ log'[i] = [by |-> "predicate", matches |-> predicates'[k].matches,
                             reg |-> predicates'[k].reg]
  <2>1. SUFFICES ASSUME NEW k \in DOMAIN predicates
                 PROVE  /\ predicates[k].reg.id \in DOMAIN log'
                        /\ log'[predicates[k].reg.id]
                             = [by |-> "predicate", matches |-> predicates[k].matches,
                                reg |-> predicates[k].reg]
    BY <1>1
  <2>2. /\ predicates[k].reg.id \in DOMAIN log
        /\ log[predicates[k].reg.id]
             = [by |-> "predicate", matches |-> predicates[k].matches,
                reg |-> predicates[k].reg]
    BY DEF RegistryOK, RegistryInv
  <2>3. QED BY <1>2, <1>4, <1>5, <2>2
<1>10. \A k, l \in DOMAIN predicates' :
          k < l => predicates'[k].reg.id < predicates'[l].reg.id
  BY <1>1 DEF RegistryOK, RegistryInv
<1>11. \A i \in DOMAIN log' : log'[i].by = "predicate" =>
          \E k \in DOMAIN predicates' : predicates'[k].reg.id = i
  <2>1. SUFFICES ASSUME NEW i \in 1..n, log'[i].by = "predicate"
                 PROVE  \E k \in DOMAIN predicates : predicates[k].reg.id = i
    BY <1>1, <1>5
  <2>2. i # n
    BY <1>5, <2>1
  <2>3. i \in DOMAIN log /\ log[i].by = "predicate"
    BY <1>2, <1>4, <1>5, <2>1, <2>2
  <2>4. QED BY <2>3 DEF RegistryOK, RegistryInv
<1>12. predicates' \in Seq(PredicateRegs)
  BY <1>1 DEF RegistryOK
<1> HIDE DEF Next1, e, n
<1>13. RegistryInv'
  BY <1>5, <1>7, <1>8, <1>9, <1>10, <1>11 DEF RegistryInv, Next1
<1>14. QED BY <1>6, <1>12, <1>13 DEF RegistryOK

\* register_match() puts it after all other predicates.
LEMMA RegisterMatchRegistry ==
    ASSUME RegistryOK, NEW matches \in Predicates, NEW shape \in Shapes,
           RegisterMatch(matches, shape)
    PROVE  RegistryOK'
<1> DEFINE n == Len(log) + 1
           m == Len(predicates) + 1
           e == [by |-> "predicate", matches |-> matches, reg |-> NewReg(shape)]
           p == [matches |-> matches, reg |-> NewReg(shape)]
           Mine(s) == {i \in DOMAIN log : log[i].by = "sql" /\ s \in log[i].matches}
           Next1(s) == {i \in DOMAIN log' : log'[i].by = "sql" /\ s \in log'[i].matches}
<1>1. /\ Len(log) < MaxRegs
      /\ predicates' = Append(predicates, p)
      /\ log' = Append(log, e)
      /\ exact' = exact
  BY DEF RegisterMatch
<1>2. NewReg(shape) \in Regs /\ NewReg(shape).id = n /\ Len(log) \in Nat
  BY <1>1, NewRegistration
<1>3. e \in Entries /\ p \in PredicateRegs
  BY <1>2, FakeAssumption DEF Entries, PredicateRegs
<1>4. /\ log \in Seq(Entries)
      /\ DOMAIN log = 1..Len(log)
      /\ \A i \in DOMAIN log : log[i].reg.id = i
      /\ predicates \in Seq(PredicateRegs)
      /\ DOMAIN predicates = 1..Len(predicates) /\ Len(predicates) \in Nat
      /\ MaxRegs \in Nat
  BY FakeAssumption DEF RegistryOK, RegistryInv
<1>5. /\ log' \in Seq(Entries) /\ Len(log') = n /\ DOMAIN log' = 1..n
      /\ \A i \in 1..Len(log) : log'[i] = log[i]
      /\ log'[n] = e
  <2> HIDE DEF e
  <2>1. QED BY <1>1, <1>3, <1>4, Appended
<1>6. /\ predicates' \in Seq(PredicateRegs) /\ DOMAIN predicates' = 1..m
      /\ \A k \in 1..Len(predicates) : predicates'[k] = predicates[k]
      /\ predicates'[m] = p
  <2> HIDE DEF p
  <2>1. QED BY <1>1, <1>3, <1>4, Appended
<1>7. \A i \in DOMAIN log' : log'[i].reg.id = i
  <2>1. SUFFICES ASSUME NEW i \in 1..n PROVE log'[i].reg.id = i
    BY <1>5
  <2>2. CASE i = n
    BY <1>2, <1>5, <2>2
  <2>3. CASE i # n
    BY <1>2, <1>4, <1>5, <2>3
  <2>4. QED BY <2>2, <2>3
<1>8. ASSUME NEW s \in Statements
      PROVE  \/ Next1(s) = {} /\ exact'[s] = Unregistered
             \/ \E i \in Next1(s) : exact'[s] = log'[i].reg /\ \A j \in Next1(s) : j <= i
  <2>1. Next1(s) = Mine(s) /\ \A i \in Mine(s) : log'[i] = log[i]
    BY <1>2, <1>4, <1>5
  <2>2. \/ Mine(s) = {} /\ exact[s] = Unregistered
        \/ \E i \in Mine(s) : exact[s] = log[i].reg /\ \A j \in Mine(s) : j <= i
    BY Zenon DEF RegistryOK, RegistryInv
  <2> HIDE DEF Mine, Next1
  <2>3. QED BY <1>1, <2>1, <2>2
<1>9. ASSUME NEW k \in 1..Len(predicates)
      PROVE  /\ predicates'[k] = predicates[k]
             /\ predicates[k].reg.id \in DOMAIN log
             /\ log'[predicates[k].reg.id]
                  = [by |-> "predicate", matches |-> predicates[k].matches,
                     reg |-> predicates[k].reg]
  <2>1. /\ predicates[k].reg.id \in DOMAIN log
        /\ log[predicates[k].reg.id]
             = [by |-> "predicate", matches |-> predicates[k].matches,
                reg |-> predicates[k].reg]
    BY <1>4 DEF RegistryOK, RegistryInv
  <2>2. QED BY <1>4, <1>5, <1>6, <2>1
<1>10. ASSUME NEW k \in DOMAIN predicates'
       PROVE  LET i == predicates'[k].reg.id
              IN  /\ i \in DOMAIN log'
                  /\ log'[i] = [by |-> "predicate", matches |-> predicates'[k].matches,
                                reg |-> predicates'[k].reg]
  <2>1. CASE k = m
    <3>1. predicates'[k].reg = NewReg(shape) /\ predicates'[k].matches = matches
      BY <1>6, <2>1
    <3>2. predicates'[k].reg.id = n
      BY <1>2, <3>1
    <3> HIDE DEF n
    <3>3. n \in DOMAIN log'
      BY <1>2, <1>5 DEF n
    <3>4. QED BY <1>5, <3>1, <3>2, <3>3
  <2>2. CASE k # m
    <3>1. k \in 1..Len(predicates)
      BY <1>4, <1>6, <2>2
    <3>2. DOMAIN log \subseteq DOMAIN log'
      BY <1>2, <1>4, <1>5
    <3>3. QED BY <1>9, <3>1, <3>2
  <2>3. QED BY <2>1, <2>2
<1>11. ASSUME NEW k \in DOMAIN predicates', NEW l \in DOMAIN predicates', k < l
       PROVE  predicates'[k].reg.id < predicates'[l].reg.id
  <2>1. k \in 1..Len(predicates)
    BY <1>4, <1>6, <1>11
  <2>2. CASE l = m
    <3>1. predicates'[l].reg.id = n
      BY <1>2, <1>6, <2>2
    <3>2. predicates[k].reg.id \in 1..Len(log)
      BY <1>4, <1>9, <2>1
    <3>3. predicates[k].reg.id < n
      BY <1>2, <3>2
    <3>4. predicates'[k] = predicates[k]
      BY <1>9, <2>1
    <3>5. QED BY <3>1, <3>3, <3>4
  <2>3. CASE l # m
    <3>1. l \in 1..Len(predicates)
      BY <1>4, <1>6, <2>3
    <3>2. predicates[k].reg.id < predicates[l].reg.id
      BY <1>4, <1>11, <2>1, <3>1 DEF RegistryOK, RegistryInv
    <3>3. QED BY <1>9, <2>1, <3>1, <3>2
  <2>4. QED BY <2>2, <2>3
<1>12. ASSUME NEW i \in DOMAIN log', log'[i].by = "predicate"
       PROVE  \E k \in DOMAIN predicates' : predicates'[k].reg.id = i
  <2>1. CASE i = n
    <3>1. m \in DOMAIN predicates' /\ predicates'[m].reg.id = n
      BY <1>2, <1>4, <1>6
    <3>2. QED BY <2>1, <3>1
  <2>2. CASE i # n
    <3>1. i \in DOMAIN log /\ log[i].by = "predicate"
      BY <1>2, <1>4, <1>5, <1>12, <2>2
    <3>2. PICK k \in DOMAIN predicates : predicates[k].reg.id = i
      BY <3>1 DEF RegistryOK, RegistryInv
    <3>3. k \in DOMAIN predicates' /\ predicates'[k] = predicates[k]
      BY <1>4, <1>6
    <3>4. QED BY <3>2, <3>3
  <2>3. QED BY <2>1, <2>2
<1>13. exact' \in [Statements -> Regs \cup {Unregistered}] /\ Len(log') <= MaxRegs
  BY <1>1, <1>2, <1>4, <1>5 DEF RegistryOK
<1> HIDE DEF Next1, e, n, m, p
<1>14. RegistryInv'
  BY <1>5, <1>7, <1>8, <1>10, <1>11, <1>12 DEF RegistryInv, Next1
<1>15. QED BY <1>6, <1>13, <1>14 DEF RegistryOK

\* Nothing else touches it.
LEMMA RegistryStays ==
    ASSUME RegistryOK, UNCHANGED <<registry, log>>
    PROVE  RegistryOK'
BY DEF RegistryOK, RegistryInv, registry

-----------------------------------------------------------------------------
(* The rows of a registration, by chunks.                                   *)

\* Division with remainder.
LEMMA DivMod ==
    ASSUME NEW n \in Int, NEW d \in Nat, d >= 1
    PROVE  /\ n \div d \in Int
           /\ (n % d) \in 0..(d - 1)
           /\ n = d * (n \div d) + (n % d)
OBVIOUS

\* The chunks hold all the rows.
LEMMA ChunkSizes ==
    ASSUME NEW total \in Nat, NEW partitions \in Nat, partitions >= 1
    PROVE  /\ ChunkSize(total, partitions) \in Nat
           /\ ChunkSize(total, partitions) >= 1
           /\ partitions * ChunkSize(total, partitions) >= total
<1> DEFINE n == total + partitions - 1
           q == n \div partitions
           r == n % partitions
<1>1. /\ q \in Int /\ r \in Int
      /\ n = partitions * q + r /\ n = total + partitions - 1
      /\ 0 <= r /\ r <= partitions - 1
  <2>1. n \in Int /\ n = total + partitions - 1
    OBVIOUS
  <2> HIDE DEF n
  <2>2. q \in Int /\ r \in 0..(partitions - 1) /\ n = partitions * q + r
    BY <2>1, DivMod
  <2> HIDE DEF q, r
  <2>3. QED BY <2>1, <2>2
<1>2. partitions * q >= total
  <2> HIDE DEF n, q, r
  <2>1. QED BY <1>1
<1>3. q >= 0
  <2> HIDE DEF n, q, r
  <2>1. q < 0 => partitions * q < 0
    BY <1>1
  <2>2. QED BY <1>1, <1>2, <2>1
<1>4. ChunkSize(total, partitions) = IF q < 1 THEN 1 ELSE q
  BY DEF ChunkSize, Larger
<1> HIDE DEF q
<1>5. CASE q < 1
  <2>1. q = 0 /\ total = 0
    BY <1>1, <1>2, <1>3, <1>5
  <2>2. QED BY <1>4, <1>5, <2>1
<1>6. CASE q >= 1
  BY <1>1, <1>2, <1>4, <1>6
<1>7. QED BY <1>1, <1>5, <1>6

\* A sequence cut at a and at b, put together.
LEMMA CutTogether ==
    ASSUME NEW S, NEW s \in Seq(S), NEW a \in Nat, NEW b \in Nat, a <= b
    PROVE  SubSeq(s, 1, Smaller(a, Len(s))) \o SubSeq(s, a + 1, Smaller(b, Len(s)))
             = SubSeq(s, 1, Smaller(b, Len(s)))
<1> DEFINE n == Len(s)
           c == Smaller(a, n)
           d == Smaller(b, n)
<1>1. n \in Nat /\ c \in Nat /\ d \in Nat /\ c <= d /\ d <= n
      /\ (c = a \/ (d = n /\ c = n /\ a >= n))
  BY DEF Smaller
<1> HIDE DEF c, d, n
<1>2. SubSeq(s, 1, c) \o SubSeq(s, c + 1, d) = SubSeq(s, 1, d)
  BY <1>1 DEF n
<1>3. CASE c = a
  BY <1>2, <1>3 DEF c, d, n
<1>4. CASE d = n /\ c = n /\ a >= n
  <2>1. SubSeq(s, a + 1, d) = <<>> /\ SubSeq(s, c + 1, d) = <<>>
    BY <1>1, <1>4 DEF n
  <2>2. QED BY <1>2, <2>1 DEF c, d, n
<1>5. QED BY <1>1, <1>3, <1>4

\* The rows are a sequence of their numbers.
LEMMA RowsSeq ==
    ASSUME NEW reg \in Regs
    PROVE  /\ RowsOf(reg) \in Seq(Row)
           /\ Len(RowsOf(reg)) = reg.shape.rows
<1>1. reg.shape.rows \in Nat /\ reg.id \in 1..MaxRegs
  BY RegParts
<1>2. \A i \in 1..reg.shape.rows : <<reg.id, i>> \in Row
  BY <1>1 DEF Row
<1>3. QED BY <1>1, <1>2 DEF RowsOf

\* One more chunk after the first k of them makes the first k + 1 of them.
LEMMA NextChunk ==
    ASSUME NEW reg \in Regs, NEW k \in 0..(reg.shape.partitions - 1)
    PROVE  /\ Len(Chunks(reg)) = reg.shape.partitions
           /\ FirstRows(reg, k) \o Chunks(reg)[k + 1] = FirstRows(reg, k + 1)
<1> DEFINE total == reg.shape.rows
           partitions == reg.shape.partitions
           size == ChunkSize(total, partitions)
           s == RowsOf(reg)
<1>1. /\ total \in Nat /\ partitions \in Nat /\ partitions >= 1
      /\ s \in Seq(Row) /\ Len(s) = total
  BY RegParts, RowsSeq
<1>2. size \in Nat
  <2> HIDE DEF total, partitions
  <2>1. QED BY <1>1, ChunkSizes
<1>3. /\ Chunks(reg) = [p \in 1..partitions |->
                         SubSeq(s, (p - 1) * size + 1, Smaller(p * size, Len(s)))]
      /\ FirstRows(reg, k) = SubSeq(s, 1, Smaller(k * size, total))
      /\ FirstRows(reg, k + 1) = SubSeq(s, 1, Smaller((k + 1) * size, total))
  BY <1>1 DEF Chunks, _split, FirstRows
<1> HIDE DEF total, size, s
<1>4. k \in Nat /\ k + 1 \in 1..partitions /\ (k + 1) - 1 = k
  BY <1>1
<1>5. Chunks(reg)[k + 1] = SubSeq(s, k * size + 1, Smaller((k + 1) * size, total))
  BY <1>1, <1>3, <1>4
<1>6. k * size \in Nat /\ (k + 1) * size \in Nat /\ k * size <= (k + 1) * size
  BY <1>2, <1>4
<1>7. FirstRows(reg, k) \o Chunks(reg)[k + 1] = FirstRows(reg, k + 1)
  <2> DEFINE a == k * size
             b == (k + 1) * size
  <2> HIDE DEF a, b
  <2>1. a \in Nat /\ b \in Nat /\ a <= b
    BY <1>6 DEF a, b
  <2>2. SubSeq(s, 1, Smaller(a, total)) \o SubSeq(s, a + 1, Smaller(b, total))
          = SubSeq(s, 1, Smaller(b, total))
    BY <1>1, <2>1, CutTogether
  <2>3. QED BY <1>3, <1>5, <2>2 DEF a, b
<1>8. Len(Chunks(reg)) = partitions
  BY <1>1, <1>3
<1>9. QED BY <1>7, <1>8

\* None of the chunks is no row, and all of them are all.
LEMMA NoneAndAll ==
    ASSUME NEW reg \in Regs
    PROVE  /\ FirstRows(reg, 0) = <<>>
           /\ FirstRows(reg, reg.shape.partitions) = RowsOf(reg)
           /\ \A k \in 0..reg.shape.partitions : FirstRows(reg, k) \in Seq(Row)
<1> DEFINE total == reg.shape.rows
           partitions == reg.shape.partitions
           size == ChunkSize(total, partitions)
           s == RowsOf(reg)
<1>1. /\ total \in Nat /\ partitions \in Nat /\ partitions >= 1
      /\ s \in Seq(Row) /\ Len(s) = total
  BY RegParts, RowsSeq
<1>2. size \in Nat /\ partitions * size >= total
  <2> HIDE DEF total, partitions
  <2>1. QED BY <1>1, ChunkSizes
<1>3. \A k : FirstRows(reg, k) = SubSeq(s, 1, Smaller(k * size, total))
  BY DEF FirstRows
<1> HIDE DEF total, size, s, partitions
<1>4. FirstRows(reg, 0) = <<>>
  <2>1. Smaller(0 * size, total) = 0
    BY <1>1, <1>2 DEF Smaller
  <2>2. QED BY <1>1, <1>3, <2>1
<1>5. FirstRows(reg, partitions) = s
  <2>1. Smaller(partitions * size, total) = total
    BY <1>1, <1>2 DEF Smaller
  <2>2. SubSeq(s, 1, total) = s
    BY <1>1
  <2>3. QED BY <1>3, <2>1, <2>2
<1>6. ASSUME NEW k \in 0..partitions PROVE FirstRows(reg, k) \in Seq(Row)
  <2>1. Smaller(k * size, total) \in 0..total
    BY <1>1, <1>2 DEF Smaller
  <2> DEFINE c == Smaller(k * size, total)
  <2> HIDE DEF c
  <2>2. c \in 0..total
    BY <2>1 DEF c
  <2>3. SubSeq(s, 1, c) \in Seq(Row)
    BY <1>1, <2>2
  <2>4. QED BY <1>3, <2>3 DEF c
<1>7. QED BY <1>4, <1>5, <1>6 DEF partitions, s

-----------------------------------------------------------------------------
(* What a call makes of a response.                                         *)

\* The call r has a statement that was accepted, and that has finished.
Accepted(r, statements, origins) ==
    /\ r.handle \in DOMAIN statements
    /\ r.due = origins[r.handle]
    /\ r.due \in Regs
    /\ r.due.shape.error = "none"

Ready(r, statements, origins) ==
    Accepted(r, statements, origins) /\ statements[r.handle].remaining_polls = 0

Results == {"none", "rows", "count", "handle", "not_ready", "running", "success",
            "cancelled", "error", "fake_error", "timeout"}

\* Ended() changes the phase and the result of a call only.
LEMMA EndedCall ==
    ASSUME NEW r \in Call, NEW e \in Results
    PROVE  /\ Ended(r, e) \in Call
           /\ Ended(r, e).pc = "over" /\ Ended(r, e).result = e
           /\ Ended(r, e).kind = r.kind /\ Ended(r, e).statement = r.statement
           /\ Ended(r, e).handle = r.handle /\ Ended(r, e).attempt = r.attempt
           /\ Ended(r, e).got = r.got /\ Ended(r, e).fetched = r.fetched
           /\ Ended(r, e).count = r.count /\ Ended(r, e).due = r.due
<1> DEFINE q == [r EXCEPT !.pc = "over"]
<1>1. /\ q \in Call /\ q.pc = "over" /\ q.kind = r.kind /\ q.statement = r.statement
      /\ q.handle = r.handle /\ q.attempt = r.attempt /\ q.got = r.got
      /\ q.fetched = r.fetched /\ q.count = r.count /\ q.due = r.due
  BY DEF Call
<1>2. Ended(r, e) = [q EXCEPT !.result = e]
  BY DEF Ended, Call
<1> HIDE DEF q
<1>3. [q EXCEPT !.result = e] \in Call
  BY <1>1 DEF Call, Results
<1>4. QED BY <1>1, <1>2, <1>3 DEF Call

\* A call that ends without rows or a count is on track if its statement was accepted.
LEMMA EndedOnTrack ==
    ASSUME NEW r \in Call, NEW statements, NEW origins, Accepted(r, statements, origins),
           NEW e \in {"handle", "not_ready", "running", "success", "cancelled", "timeout"}
    PROVE  OnTrack(Ended(r, e), statements, origins)
<1>1. /\ Ended(r, e).pc = "over" /\ Ended(r, e).result = e
      /\ Ended(r, e).handle = r.handle /\ Ended(r, e).due = r.due
  BY EndedCall DEF Results
<1> DEFINE q == Ended(r, e)
<1> HIDE DEF q
<1>2. q.pc = "over" /\ q.result = e /\ q.handle = r.handle /\ q.due = r.due
  BY <1>1 DEF q
<1>3. OnTrack(q, statements, origins)
  BY <1>2 DEF OnTrack, Accepted
<1>4. QED BY <1>3 DEF q

\* One more partition: either it was the last one, and the rows are complete, or the
\* next one is asked for.
LEMMA ReceiveOnTrack ==
    ASSUME NEW r \in Call, NEW statements, NEW origins, Ready(r, statements, origins),
           r.kind \in {"query", "result", "peek"}, r.result = "none",
           r.fetched \in 0..(r.due.shape.partitions - 1),
           r.got = FirstRows(r.due, r.fetched)
    PROVE  /\ Receive(r, Chunks(r.due)) \in Call
           /\ OnTrack(Receive(r, Chunks(r.due)), statements, origins)
           /\ Receive(r, Chunks(r.due)).attempt = r.attempt
           /\ \/ Receive(r, Chunks(r.due)).pc = "over"
              \/ /\ Receive(r, Chunks(r.due)).pc = "parts"
                 /\ Receive(r, Chunks(r.due)).fetched = r.fetched + 1
<1> DEFINE got == r.got \o Chunks(r.due)[r.fetched + 1]
           s == [r EXCEPT !.got = @ \o Chunks(r.due)[r.fetched + 1], !.fetched = @ + 1]
           partitions == r.due.shape.partitions
<1>1. r.due \in Regs /\ r.fetched \in Nat /\ partitions \in Nat /\ partitions >= 1
  BY RegParts DEF Ready, Accepted
<1>2. got = FirstRows(r.due, r.fetched + 1) /\ Len(Chunks(r.due)) = partitions
  BY <1>1, NextChunk
<1>3. r.fetched + 1 \in 1..partitions
  BY <1>1
<1>4. got \in Seq(Row) /\ FirstRows(r.due, partitions) = RowsOf(r.due)
  <2>1. FirstRows(r.due, r.fetched + 1) \in Seq(Row)
    BY <1>1, <1>3, NoneAndAll
  <2>2. QED BY <1>1, <1>2, <2>1, NoneAndAll
<1> HIDE DEF partitions
<1>5. s = [r EXCEPT !.got = got, !.fetched = r.fetched + 1]
  BY DEF Call
<1>6. s = [kind |-> r.kind, pc |-> r.pc, statement |-> r.statement, handle |-> r.handle,
           attempt |-> r.attempt, got |-> got, fetched |-> r.fetched + 1,
           result |-> "none", count |-> r.count, due |-> r.due]
  <2> HIDE DEF got, s
  <2>1. QED BY <1>5 DEF Call
<1> HIDE DEF got, s
<1>7. s \in Call
  BY <1>1, <1>4, <1>6 DEF Call
<1>8. Receive(r, Chunks(r.due))
        = IF r.fetched + 1 < partitions THEN [s EXCEPT !.pc = "parts"] ELSE Ended(s, "rows")
  <2>1. Receive(r, Chunks(r.due))
          = IF s.fetched < Len(Chunks(r.due)) THEN [s EXCEPT !.pc = "parts"]
            ELSE Ended(s, "rows")
    BY DEF Receive, s
  <2>2. s.fetched = r.fetched + 1
    BY <1>6
  <2>3. QED BY <1>2, <2>1, <2>2
<1>9. CASE r.fetched + 1 < partitions
  <2> DEFINE q == [s EXCEPT !.pc = "parts"]
  <2>1. /\ q \in Call /\ q.pc = "parts" /\ q.kind = r.kind /\ q.handle = r.handle
        /\ q.attempt = r.attempt /\ q.got = got /\ q.fetched = r.fetched + 1
        /\ q.result = "none" /\ q.due = r.due
    BY <1>6, <1>7 DEF Call
  <2> HIDE DEF q
  <2>2. q.fetched \in 1..(partitions - 1)
    BY <1>1, <1>9, <2>1
  <2>3. OnTrack(q, statements, origins)
    BY <1>2, <2>1, <2>2 DEF OnTrack, Ready, Accepted, partitions
  <2>4. QED BY <1>8, <1>9, <2>1, <2>3 DEF q
<1>10. CASE ~(r.fetched + 1 < partitions)
  <2> DEFINE q == Ended(s, "rows")
  <2>1. /\ q \in Call /\ q.pc = "over" /\ q.result = "rows" /\ q.handle = s.handle
        /\ q.got = s.got /\ q.due = s.due /\ q.attempt = s.attempt
    BY <1>7, EndedCall DEF Results
  <2>2. r.fetched + 1 = partitions
    BY <1>1, <1>3, <1>10
  <2>3. q.got = RowsOf(r.due)
    BY <1>2, <1>4, <1>6, <2>1, <2>2
  <2>4. s.handle = r.handle /\ s.due = r.due /\ s.attempt = r.attempt
    BY <1>6
  <2> HIDE DEF q
  <2>5. OnTrack(q, statements, origins)
    BY <2>1, <2>3, <2>4 DEF OnTrack, Ready, Accepted
  <2>6. QED BY <1>8, <1>10, <2>1, <2>4, <2>5 DEF q
<1>11. QED BY <1>9, <1>10

\* The response of a finished statement ends a call or begins its partitions.
LEMMA FinishedOnTrack ==
    ASSUME NEW r \in Call, NEW statements, NEW origins, Ready(r, statements, origins),
           r.kind \in {"query", "execute", "result", "peek", "status"},
           r.result = "none", Untouched(r)
    PROVE  /\ Finished(r, r.due) \in Call
           /\ OnTrack(Finished(r, r.due), statements, origins)
           /\ Finished(r, r.due).attempt = r.attempt
           /\ Finished(r, r.due).pc \in {"parts", "over"}
<1>1. Accepted(r, statements, origins) /\ r.due \in Regs
  BY DEF Ready, Accepted
<1>2. CASE r.kind = "execute"
  <2> DEFINE n == r.due.shape.count
             s == [r EXCEPT !.count = n]
             q == Ended(s, "count")
  <2>1. n \in Nat
    BY <1>1, RegParts
  <2>2. Finished(r, r.due) = q
    BY <1>2 DEF Finished
  <2> HIDE DEF n
  <2>3. /\ s \in Call /\ s.count = n /\ s.handle = r.handle /\ s.due = r.due
        /\ s.attempt = r.attempt
    BY <2>1 DEF Call
  <2> HIDE DEF s
  <2>4. /\ q \in Call /\ q.pc = "over" /\ q.result = "count" /\ q.handle = r.handle
        /\ q.count = n /\ q.due = r.due /\ q.attempt = r.attempt
    BY <2>3, EndedCall DEF Results
  <2> HIDE DEF q
  <2>5. OnTrack(q, statements, origins)
    BY <2>4 DEF OnTrack, Ready, Accepted, n
  <2>6. QED BY <2>2, <2>4, <2>5
<1>3. CASE r.kind = "status"
  <2>1. Finished(r, r.due) = Ended(r, "success")
    BY <1>3 DEF Finished
  <2>2. QED BY <1>1, <2>1, EndedCall, EndedOnTrack DEF Results
<1>4. CASE r.kind \in {"query", "result", "peek"}
  <2>1. Finished(r, r.due) = Receive(r, Chunks(r.due))
    BY <1>4 DEF Finished
  <2>2. r.fetched \in 0..(r.due.shape.partitions - 1)
    BY <1>1, RegParts DEF Untouched
  <2>3. r.got = FirstRows(r.due, r.fetched)
    BY <1>1, NoneAndAll DEF Untouched
  <2>4. QED BY <1>4, <2>1, <2>2, <2>3, ReceiveOnTrack
<1>5. QED BY <1>2, <1>3, <1>4

\* A call stays on track while statements are added and polls are counted down.
Later(statements, origins, statements2, origins2) ==
    \A h \in DOMAIN statements :
        /\ h \in DOMAIN statements2
        /\ origins2[h] = origins[h]
        /\ statements2[h].reg = statements[h].reg
        /\ statements[h].remaining_polls \in Nat
        /\ statements2[h].remaining_polls \in Nat
        /\ statements2[h].remaining_polls <= statements[h].remaining_polls

\* A call that is served by the registration in force stays so while statements are added
\* and polled.
LEMMA StaysOnTrack ==
    ASSUME NEW r, NEW statements, NEW origins, NEW statements2, NEW origins2,
           OnTrack(r, statements, origins),
           Later(statements, origins, statements2, origins2)
    PROVE  OnTrack(r, statements2, origins2)
<1>1. r.handle \in DOMAIN statements =>
        /\ r.handle \in DOMAIN statements2
        /\ origins2[r.handle] = origins[r.handle]
        /\ statements[r.handle].remaining_polls = 0
             => statements2[r.handle].remaining_polls = 0
  BY DEF Later
<1>2. QED BY <1>1 DEF OnTrack

-----------------------------------------------------------------------------
(* The handles.                                                             *)

HandleOK ==
    /\ counter \in Nat
    /\ DOMAIN state \subseteq 1..counter
    /\ \A h \in DOMAIN state : state[h] \in [reg : Regs, remaining_polls : Nat]
    /\ origin \in Seq(Regs) /\ Len(origin) = counter
    /\ answers \in Seq(Seq({"running", "success"})) /\ Len(answers) = counter
    /\ \A h \in 1..counter :
         IF origin[h].shape.error = "none" THEN HandleExact(h) ELSE HandleFailed(h)

\* An accepted handle.
LEMMA HandleKnown ==
    ASSUME HandleOK, NEW h \in DOMAIN state
    PROVE  /\ h \in 1..counter
           /\ origin[h] \in Regs /\ origin[h].shape.error = "none"
           /\ answers[h] \in Seq({"running", "success"})
           /\ state[h].remaining_polls \in Nat
           /\ state[h] = [reg |-> origin[h], remaining_polls |-> state[h].remaining_polls]
           /\ HandleExact(h)
<1>1. h \in 1..counter /\ h \in 1..Len(origin) /\ h \in 1..Len(answers)
  BY DEF HandleOK
<1>2. origin[h] \in Regs
  BY <1>1 DEF HandleOK
<1>3. answers[h] \in Seq({"running", "success"})
  BY <1>1 DEF HandleOK
<1>4. origin[h].shape.error = "none" /\ HandleExact(h)
  BY <1>1 DEF HandleOK, HandleFailed
<1>5. state[h] \in [reg : Regs, remaining_polls : Nat]
  BY DEF HandleOK
<1>6. state[h].reg = origin[h]
  BY <1>4 DEF HandleExact
<1>7. QED BY <1>1, <1>2, <1>3, <1>4, <1>5, <1>6

\* A new handle, with a statement or, for an error, without one.
Adds(reg) ==
    /\ counter' = counter + 1
    /\ origin' = Append(origin, reg)
    /\ answers' = Append(answers, <<>>)
    /\ IF reg.shape.error = "none"
         THEN state' = [i \in DOMAIN state \cup {counter + 1} |->
                          IF i = counter + 1
                            THEN [reg |-> reg, remaining_polls |-> reg.shape.polls]
                            ELSE state[i]]
         ELSE state' = state

\* A statement that is accepted gets a handle of its own and all of its polls.
LEMMA NewHandle ==
    ASSUME HandleOK, NEW reg \in Regs, Adds(reg)
    PROVE  HandleOK' /\ Later(state, origin, state', origin')
<1> DEFINE h == counter + 1
<1>1. counter \in Nat /\ h \in Nat /\ h \notin DOMAIN state
  BY DEF HandleOK
<1>2. /\ origin' \in Seq(Regs) /\ Len(origin') = h /\ origin'[h] = reg
      /\ \A i \in 1..counter : origin'[i] = origin[i]
  BY Appended DEF Adds, HandleOK
<1>3. /\ answers' \in Seq(Seq({"running", "success"})) /\ Len(answers') = h
      /\ answers'[h] = <<>>
      /\ \A i \in 1..counter : answers'[i] = answers[i]
  <2>1. <<>> \in Seq({"running", "success"})
    OBVIOUS
  <2> DEFINE S == Seq({"running", "success"})
  <2>2. answers \in Seq(S) /\ Len(answers) = counter /\ <<>> \in S
    BY <2>1 DEF HandleOK
  <2> HIDE DEF S
  <2>3. /\ answers' \in Seq(S) /\ Len(answers') = Len(answers) + 1
        /\ answers'[Len(answers) + 1] = <<>>
        /\ \A i \in 1..Len(answers) : answers'[i] = answers[i]
    BY <2>2, Appended DEF Adds
  <2>4. QED BY <2>2, <2>3 DEF S
<1>4. reg.shape.polls \in Nat
  BY RegParts
<1>5. /\ DOMAIN state \subseteq DOMAIN state'
      /\ \A i \in DOMAIN state : state'[i] = state[i]
      /\ DOMAIN state' \subseteq DOMAIN state \cup {h}
      /\ IF reg.shape.error = "none"
           THEN h \in DOMAIN state' /\ state'[h] = [reg |-> reg, remaining_polls |-> reg.shape.polls]
           ELSE h \notin DOMAIN state'
  <2>1. CASE reg.shape.error = "none"
    BY <1>1, <2>1 DEF Adds
  <2>2. CASE reg.shape.error # "none"
    BY <1>1, <2>2 DEF Adds
  <2>3. QED BY <2>1, <2>2
<1>6. DOMAIN state \subseteq 1..counter
  BY DEF HandleOK
<1> HIDE DEF h
<1>7. DOMAIN state' \subseteq 1..counter'
  BY <1>1, <1>5, <1>6 DEF Adds, h
<1>8. ASSUME NEW i \in DOMAIN state' PROVE state'[i] \in [reg : Regs, remaining_polls : Nat]
  <2>1. CASE i = h
    BY <1>4, <1>5, <2>1
  <2>2. CASE i # h
    <3>1. i \in DOMAIN state /\ state'[i] = state[i]
      BY <1>5, <2>2
    <3>2. QED BY <3>1 DEF HandleOK
  <2>3. QED BY <2>1, <2>2
<1>9. ASSUME NEW i \in 1..counter'
      PROVE  IF origin'[i].shape.error = "none" THEN HandleExact(i)' ELSE HandleFailed(i)'
  <2>1. CASE i = h
    <3>1. Len(answers'[i]) = 0 /\ origin'[i] = reg
      BY <1>2, <1>3, <2>1
    <3>2. CASE reg.shape.error = "none"
      <4>1. i \in DOMAIN state' /\ state'[i].reg = reg /\ state'[i].remaining_polls = reg.shape.polls
        BY <1>5, <2>1, <3>2
      <4>2. state'[i].remaining_polls
              = IF Len(answers'[i]) < origin'[i].shape.polls
                  THEN origin'[i].shape.polls - Len(answers'[i]) ELSE 0
        BY <1>4, <3>1, <4>1
      <4>3. \A j \in 1..Len(answers'[i]) :
              answers'[i][j] = IF j <= origin'[i].shape.polls THEN "running" ELSE "success"
        BY <3>1
      <4>4. HandleExact(i)'
        BY <3>1, <4>1, <4>2, <4>3 DEF HandleExact
      <4>5. QED BY <3>1, <3>2, <4>4
    <3>3. CASE reg.shape.error # "none"
      BY <1>2, <1>3, <1>5, <2>1, <3>3 DEF HandleFailed
    <3>4. QED BY <3>2, <3>3
  <2>2. CASE i # h
    <3>1. i \in 1..counter
      BY <1>1, <2>2 DEF Adds, h
    <3>2. origin'[i] = origin[i] /\ answers'[i] = answers[i]
      BY <1>2, <1>3, <3>1
    <3>3. i \in DOMAIN state' <=> i \in DOMAIN state
      BY <1>5, <2>2
    <3>4. i \in DOMAIN state => state'[i] = state[i]
      BY <1>5
    <3>5. IF origin[i].shape.error = "none" THEN HandleExact(i) ELSE HandleFailed(i)
      BY <3>1 DEF HandleOK
    <3>6. QED BY <3>2, <3>3, <3>4, <3>5 DEF HandleExact, HandleFailed
  <2>3. QED BY <2>1, <2>2
<1>10. HandleOK'
  <2>1. counter' \in Nat /\ Len(origin') = counter' /\ Len(answers') = counter'
    BY <1>1, <1>2, <1>3 DEF Adds, h
  <2>2. QED BY <1>2, <1>3, <1>7, <1>8, <1>9, <2>1 DEF HandleOK
<1>11. Later(state, origin, state', origin')
  <2>1. ASSUME NEW i \in DOMAIN state
        PROVE  /\ i \in DOMAIN state' /\ origin'[i] = origin[i]
               /\ state'[i] = state[i]
               /\ state[i].remaining_polls \in Nat
    <3>1. i \in 1..counter /\ state[i].remaining_polls \in Nat
      BY HandleKnown
    <3>2. QED BY <1>2, <1>5, <3>1
  <2>2. QED BY <2>1 DEF Later
<1>12. QED BY <1>10, <1>11

\* A status poll is answered, and counted down to none.
Answered(h) ==
    /\ UNCHANGED <<counter, origin>>
    /\ IF state[h].remaining_polls > 0
         THEN /\ state' = [state EXCEPT ![h].remaining_polls = @ - 1]
              /\ answers' = [answers EXCEPT ![h] = Append(@, "running")]
         ELSE /\ state' = state
              /\ answers' = [answers EXCEPT ![h] = Append(@, "success")]

\* A status request counts one poll down, and only that of its own statement.
LEMMA Polled ==
    ASSUME HandleOK, NEW h \in DOMAIN state, Answered(h)
    PROVE  HandleOK' /\ Later(state, origin, state', origin')
<1> DEFINE left == state[h].remaining_polls
           polls == origin[h].shape.polls
           asked == Len(answers[h])
           word == IF left > 0 THEN "running" ELSE "success"
           S == Seq({"running", "success"})
<1>0. counter' = counter /\ origin' = origin
  BY DEF Answered
<1>1. /\ h \in 1..counter /\ origin[h] \in Regs /\ origin[h].shape.error = "none"
      /\ answers[h] \in S /\ left \in Nat /\ HandleExact(h)
  BY HandleKnown
<1>2. polls \in Nat /\ asked \in Nat
  BY <1>1, RegParts
<1>3. /\ left = IF asked < polls THEN polls - asked ELSE 0
      /\ \A i \in 1..asked : answers[h][i] = IF i <= polls THEN "running" ELSE "success"
  BY <1>1 DEF HandleExact
<1>4. /\ DOMAIN state' = DOMAIN state
      /\ \A i \in DOMAIN state : i # h => state'[i] = state[i]
      /\ state'[h] = [reg |-> origin[h], remaining_polls |-> IF left > 0 THEN left - 1 ELSE 0]
  <2>1. state[h] = [reg |-> origin[h], remaining_polls |-> left]
    BY HandleKnown
  <2> HIDE DEF left
  <2>2. CASE left > 0
    BY <2>1, <2>2 DEF Answered, left
  <2>3. CASE ~(left > 0)
    <3>1. left = 0
      BY <1>1, <2>3
    <3>2. state' = state
      BY <2>3 DEF Answered, left
    <3>3. QED BY <2>1, <3>1, <3>2
  <2>4. QED BY <2>2, <2>3
<1>5. /\ answers \in Seq(S) /\ Len(answers) = counter /\ counter \in Nat
      /\ DOMAIN answers = 1..counter
  BY DEF HandleOK
<1>6. answers' = [answers EXCEPT ![h] = Append(answers[h], word)]
  <2>1. CASE left > 0
    BY <2>1 DEF Answered
  <2>2. CASE ~(left > 0)
    BY <2>2 DEF Answered
  <2>3. QED BY <2>1, <2>2
<1>7. /\ Append(answers[h], word) \in S
      /\ Len(Append(answers[h], word)) = asked + 1
      /\ \A i \in 1..asked : Append(answers[h], word)[i] = answers[h][i]
      /\ Append(answers[h], word)[asked + 1] = word
  <2>1. word \in {"running", "success"}
    OBVIOUS
  <2> HIDE DEF word
  <2>2. QED BY <1>1, <2>1, Appended
<1> HIDE DEF word, S, left, polls, asked
<1>8. /\ answers' \in Seq(S) /\ Len(answers') = counter
      /\ answers'[h] = Append(answers[h], word)
      /\ \A i \in 1..counter : i # h => answers'[i] = answers[i]
  BY <1>1, <1>5, <1>6, <1>7
<1>9. word = IF asked + 1 <= polls THEN "running" ELSE "success"
  BY <1>2, <1>3 DEF word
<1>10. ASSUME NEW i \in 1..counter
       PROVE  IF origin'[i].shape.error = "none" THEN HandleExact(i)' ELSE HandleFailed(i)'
  <2>1. CASE i = h
    <3>1. Len(answers'[h]) = asked + 1
      BY <1>7, <1>8
    <3>2. ASSUME NEW j \in 1..(asked + 1)
          PROVE  answers'[h][j] = IF j <= polls THEN "running" ELSE "success"
      <4>1. CASE j = asked + 1
        BY <1>7, <1>8, <1>9, <4>1
      <4>2. CASE j # asked + 1
        <5>1. j \in 1..asked
          BY <1>2, <4>2
        <5>2. answers'[h][j] = answers[h][j]
          BY <1>7, <1>8, <5>1
        <5>3. QED BY <1>3, <5>1, <5>2
      <4>3. QED BY <4>1, <4>2
    <3>3. /\ h \in DOMAIN state' /\ state'[h].reg = origin[h]
          /\ state'[h].remaining_polls = IF left > 0 THEN left - 1 ELSE 0
      BY <1>4
    <3>4. state'[h].remaining_polls = IF asked + 1 < polls THEN polls - (asked + 1) ELSE 0
      BY <1>1, <1>2, <1>3, <3>3
    <3>5. HandleExact(h)'
      BY <1>0, <3>1, <3>2, <3>3, <3>4 DEF HandleExact, polls
    <3>6. QED BY <1>0, <1>1, <2>1, <3>5
  <2>2. CASE i # h
    <3>1. origin'[i] = origin[i] /\ answers'[i] = answers[i]
      BY <1>0, <1>8, <2>2
    <3>2. i \in DOMAIN state => state'[i] = state[i]
      BY <1>4, <2>2
    <3>3. IF origin[i].shape.error = "none" THEN HandleExact(i) ELSE HandleFailed(i)
      BY DEF HandleOK
    <3>4. QED BY <1>4, <3>1, <3>2, <3>3 DEF HandleExact, HandleFailed
  <2>3. QED BY <2>1, <2>2
<1>11. ASSUME NEW i \in DOMAIN state' PROVE state'[i] \in [reg : Regs, remaining_polls : Nat]
  <2>1. CASE i = h
    BY <1>1, <1>4, <2>1
  <2>2. CASE i # h
    BY <1>4, <2>2 DEF HandleOK
  <2>3. QED BY <2>1, <2>2
<1>12. HandleOK'
  <2>1. /\ counter' \in Nat /\ DOMAIN state' \subseteq 1..counter'
        /\ origin' \in Seq(Regs) /\ Len(origin') = counter'
    BY <1>0, <1>4 DEF HandleOK
  <2>2. answers' \in Seq(Seq({"running", "success"})) /\ Len(answers') = counter'
    BY <1>0, <1>8 DEF S
  <2>3. \A i \in 1..counter' :
          IF origin'[i].shape.error = "none" THEN HandleExact(i)' ELSE HandleFailed(i)'
    BY <1>0, <1>10
  <2>4. QED BY <1>11, <2>1, <2>2, <2>3 DEF HandleOK
<1>13. Later(state, origin, state', origin')
  <2>1. SUFFICES ASSUME NEW i \in DOMAIN state
                 PROVE  /\ i \in DOMAIN state' /\ origin'[i] = origin[i]
                        /\ state'[i].reg = state[i].reg
                        /\ state[i].remaining_polls \in Nat
                        /\ state'[i].remaining_polls \in Nat
                        /\ state'[i].remaining_polls <= state[i].remaining_polls
    BY DEF Later
  <2>2. /\ state[i].remaining_polls \in Nat
        /\ state[i].reg = origin[i]
    BY HandleKnown DEF HandleExact
  <2>3. CASE i = h
    BY <1>0, <1>1, <1>4, <2>2, <2>3 DEF left
  <2>4. CASE i # h
    BY <1>0, <1>4, <2>2, <2>4
  <2>5. QED BY <2>3, <2>4
<1>14. QED BY <1>12, <1>13

-----------------------------------------------------------------------------
(* The calls, and their attempts.                                           *)

CallsOK == call \in [Calls -> Call] /\ CallInv

\* There are at most as many attempts as calls can make.
LEMMA AttemptsBound ==
    /\ IsFiniteSet(Attempts) /\ Cardinality(Attempts) \in Nat
    /\ MaxCalls * MaxAttempts \in Nat
    /\ Cardinality(Attempts) <= MaxCalls * MaxAttempts
    /\ \A x \in Calls \X (1..MaxAttempts) :
         x \notin Attempts => Cardinality(Attempts) < MaxCalls * MaxAttempts
<1> DEFINE A == 1..MaxAttempts
           P == Calls \X A
<1>1. MaxCalls \in Nat /\ MaxAttempts \in Nat /\ MaxAttempts >= 1
  BY FakeAssumption
<1>2. /\ IsFiniteSet(Calls) /\ Cardinality(Calls) = MaxCalls
      /\ IsFiniteSet(A) /\ Cardinality(A) = MaxAttempts
  <2>1. 1 \in Int /\ MaxCalls \in Int /\ MaxAttempts \in Int
    BY <1>1
  <2>2. IsFiniteSet(1..MaxCalls) /\ Cardinality(1..MaxCalls) = IF 1 > MaxCalls THEN 0 ELSE MaxCalls - 1 + 1
    BY <2>1, FS_Interval
  <2>3. IsFiniteSet(1..MaxAttempts)
        /\ Cardinality(1..MaxAttempts) = IF 1 > MaxAttempts THEN 0 ELSE MaxAttempts - 1 + 1
    BY <2>1, FS_Interval
  <2>4. QED BY <1>1, <2>2, <2>3 DEF Calls
<1> HIDE DEF A
<1>3. IsFiniteSet(P) /\ Cardinality(P) = MaxCalls * MaxAttempts
  BY <1>2, FS_Product
<1>4. Attempts \in SUBSET P
  BY DEF Attempts, A
<1> HIDE DEF P
<1>5. /\ IsFiniteSet(Attempts) /\ Cardinality(Attempts) <= Cardinality(P)
      /\ Cardinality(P) = Cardinality(Attempts) => P = Attempts
  BY <1>3, <1>4, FS_Subset
<1>6. Cardinality(Attempts) \in Nat /\ Cardinality(P) \in Nat
  BY <1>3, <1>5, FS_CardinalityType
<1>7. ASSUME NEW x \in P, x \notin Attempts PROVE Cardinality(Attempts) < Cardinality(P)
  BY <1>5, <1>6, <1>7
<1>8. QED BY <1>3, <1>5, <1>6, <1>7 DEF P, A

\* Attempts are made one by one.
LEMMA AttemptsKept ==
    ASSUME \A c \in Calls : call'[c].attempt = call[c].attempt
    PROVE  Cardinality(Attempts') = Cardinality(Attempts)
<1>1. Attempts' = Attempts
  <2>1. SUFFICES ASSUME NEW x \in Calls \X (1..MaxAttempts)
                 PROVE  x[2] <= call'[x[1]].attempt <=> x[2] <= call[x[1]].attempt
    BY Zenon DEF Attempts
  <2>2. x[1] \in Calls
    OBVIOUS
  <2>3. QED BY <2>2
<1>2. QED BY <1>1

\* A call that makes an attempt adds one to the number of them all.
LEMMA AttemptMade ==
    ASSUME NEW c \in Calls,
           call[c].attempt \in 0..(MaxAttempts - 1),
           call'[c].attempt = call[c].attempt + 1,
           \A d \in Calls : d # c => call'[d] = call[d]
    PROVE  Cardinality(Attempts') = Cardinality(Attempts) + 1
<1> DEFINE n == call[c].attempt + 1
<1>1. n \in 1..MaxAttempts /\ n - 1 \in Nat /\ call[c].attempt = n - 1
      /\ call'[c].attempt = n
  BY FakeAssumption
<1> HIDE DEF n
<1>2. <<c, n>> \notin Attempts
  BY <1>1 DEF Attempts
<1>3. Attempts' = Attempts \cup {<<c, n>>}
  <2>1. SUFFICES ASSUME NEW d \in Calls, NEW a \in 1..MaxAttempts
                 PROVE  a <= call'[d].attempt <=> a <= call[d].attempt \/ (d = c /\ a = n)
    <3>1. \A x \in Calls \X (1..MaxAttempts) :
            x[2] <= call'[x[1]].attempt
              <=> x[2] <= call[x[1]].attempt \/ (x[1] = c /\ x[2] = n)
      BY <2>1
    <3>2. \A x \in Calls \X (1..MaxAttempts) : x = <<c, n>> <=> x[1] = c /\ x[2] = n
      OBVIOUS
    <3>3. <<c, n>> \in Calls \X (1..MaxAttempts)
      BY <1>1
    <3> HIDE DEF Calls
    <3>4. \A x : x \in Attempts' <=> x \in Attempts \cup {<<c, n>>}
      BY <3>1, <3>2, <3>3 DEF Attempts
    <3>5. QED BY <3>4
  <2>2. CASE d = c
    BY <1>1, <2>2
  <2>3. CASE d # c
    BY <2>3
  <2>4. QED BY <2>2, <2>3
<1>4. QED BY <1>2, <1>3, AttemptsBound, FS_AddElement

\* The calls after one of them has changed.
LEMMA CallChanges ==
    ASSUME CallsOK, NEW c \in Calls, NEW r \in Call,
           call' = [call EXCEPT ![c] = r],
           OnTrack(r, state', origin'),
           Later(state, origin, state', origin')
    PROVE  CallsOK'
<1>1. call' \in [Calls -> Call]
  BY DEF CallsOK
<1>2. ASSUME NEW d \in Calls PROVE OnTrack(call'[d], state', origin')
  <2>1. CASE d = c
    BY <2>1 DEF CallsOK
  <2>2. CASE d # c
    <3>1. call'[d] = call[d]
      BY <2>2 DEF CallsOK
    <3>2. OnTrack(call[d], state, origin)
      BY DEF CallsOK, CallInv
    <3>3. OnTrack(call[d], state', origin')
      BY <3>2, StaysOnTrack
    <3>4. QED BY <3>1, <3>3
  <2>3. QED BY <2>1, <2>2
<1>3. QED BY <1>1, <1>2 DEF CallsOK, CallInv

\* A call that makes none leaves that number alone.
LEMMA SameAttempts ==
    ASSUME call \in [Calls -> Call], NEW c \in Calls, NEW r,
           call' = [call EXCEPT ![c] = r], r.attempt = call[c].attempt
    PROVE  Cardinality(Attempts') = Cardinality(Attempts)
<1>1. \A d \in Calls : call'[d].attempt = call[d].attempt
  OBVIOUS
<1>2. QED BY <1>1, AttemptsKept

\* Statements that stay as they are are no worse for it.
LEMMA NothingLater ==
    ASSUME HandleOK, UNCHANGED <<state, origin>>
    PROVE  Later(state, origin, state', origin')
<1>1. \A h \in DOMAIN state : state[h].remaining_polls \in Nat
  BY HandleKnown
<1>2. QED BY <1>1 DEF Later

\* The invariant, part by part.
LEMMA InvParts ==
    Inv <=> RegistryOK /\ HandleOK /\ CallsOK /\ counter = Cardinality(Attempts)
<1>1. counter = Cardinality(Attempts) => counter \in 0..(MaxCalls * MaxAttempts)
  BY AttemptsBound
<1>2. counter \in 0..(MaxCalls * MaxAttempts) => counter \in Nat
  BY AttemptsBound
<1>3. QED BY <1>1, <1>2 DEF Inv, TypeOK, RegistryOK, HandleOK, HandleInv, CallsOK

Counted == counter = Cardinality(Attempts)

\* And put together again, in a state and in the next one.
LEMMA InvOfParts == RegistryOK /\ HandleOK /\ CallsOK /\ Counted => Inv
BY InvParts DEF Counted

\* The invariant of the next state.
LEMMA InvNext ==
    ASSUME RegistryOK', HandleOK', CallsOK', counter' = Cardinality(Attempts')
    PROVE  Inv'
<1>1. Counted'
  BY DEF Counted
<1>2. QED BY <1>1, InvOfParts, PTL

\* A call in the middle of its statement has an accepted one.
LEMMA CallKnown ==
    ASSUME CallsOK, HandleOK, NEW c \in Calls
    PROVE  /\ call[c] \in Call
           /\ OnTrack(call[c], state, origin)
           /\ call[c].pc \in {"get", "poll", "parts", "cancel"}
                => Accepted(call[c], state, origin) /\ call[c].result = "none"
           /\ call[c].result = "handle" => Accepted(call[c], state, origin)
<1>1. call[c] \in Call /\ OnTrack(call[c], state, origin)
  BY DEF CallsOK, CallInv
<1> DEFINE r == call[c]
<1> HIDE DEF r
<1>2. OnTrack(r, state, origin)
  BY <1>1 DEF r
<1>3. r.handle \in DOMAIN state => origin[r.handle] \in Regs
  BY HandleKnown
<1>4. r.pc \in {"get", "poll", "parts", "cancel"} => Accepted(r, state, origin) /\ r.result = "none"
  BY <1>2, <1>3 DEF OnTrack, Accepted
<1>5. r.result = "handle" => Accepted(r, state, origin)
  BY <1>2, <1>3 DEF OnTrack, Accepted
<1>6. QED BY <1>1, <1>4, <1>5 DEF r

\* query(), execute() and submit().
LEMMA BeginCalls ==
    ASSUME CallsOK, HandleOK, NEW c \in Calls, NEW kind \in {"query", "execute", "submit"},
           NEW sql \in Statements, Begin(c, kind, sql)
    PROVE  CallsOK' /\ Cardinality(Attempts') = Cardinality(Attempts)
<1> DEFINE r == [call[c] EXCEPT !.kind = kind, !.pc = "post", !.statement = sql]
           b == call[c]
<1>1. /\ b.pc = "new" /\ call' = [call EXCEPT ![c] = r]
      /\ state' = state /\ origin' = origin
  BY DEF Begin, Fresh, service, history
<1>2. b \in Call /\ OnTrack(b, state, origin)
  BY CallKnown
<1> HIDE DEF b
<1>3. Untouched(b) /\ b.attempt = 0 /\ b.result = "none"
  BY <1>1, <1>2 DEF OnTrack, Call
<1>4. /\ r \in Call /\ r.pc = "post" /\ r.kind = kind /\ r.statement = sql
      /\ r.attempt = b.attempt /\ r.result = b.result
      /\ r.got = b.got /\ r.fetched = b.fetched
  <2> DEFINE q == [call[c] EXCEPT !.kind = kind]
  <2>1. kind \in Kinds
    BY DEF Kinds
  <2>2. /\ q \in Call /\ q.kind = kind /\ q.attempt = b.attempt
        /\ q.result = b.result /\ q.got = b.got /\ q.fetched = b.fetched
    BY <1>2, <2>1 DEF Call, b
  <2>3. r = [q EXCEPT !.pc = "post", !.statement = sql]
    OBVIOUS
  <2> HIDE DEF q, r
  <2>4. QED BY <2>2, <2>3 DEF Call
<1> HIDE DEF r
<1>5. OnTrack(r, state, origin)
  BY <1>3, <1>4, FakeAssumption DEF OnTrack, Untouched
<1>6. Later(state, origin, state', origin')
  BY <1>1, NothingLater
<1>7. CallsOK'
  BY <1>1, <1>4, <1>5, <1>6, CallChanges
<1>8. r.attempt = call[c].attempt
  BY <1>4 DEF b
<1>9. Cardinality(Attempts') = Cardinality(Attempts)
  BY <1>1, <1>8, SameAttempts DEF CallsOK
<1>10. QED BY <1>7, <1>9

\* The methods of a handle, which was accepted when it was returned.
LEMMA BeginWithHandleCalls ==
    ASSUME CallsOK, HandleOK, counter = Cardinality(Attempts),
           NEW c \in Calls, NEW kind \in {"result", "peek", "status", "cancel"},
           NEW h \in Held, BeginWithHandle(c, kind, h)
    PROVE  CallsOK' /\ Cardinality(Attempts') = Cardinality(Attempts)
<1> DEFINE pc == IF kind = "cancel" THEN "cancel" ELSE "get"
           r == [call[c] EXCEPT !.kind = kind, !.handle = h, !.due = origin[h], !.pc = pc]
           b == call[c]
<1>1. /\ b.pc = "new" /\ call' = [call EXCEPT ![c] = r]
      /\ state' = state /\ origin' = origin
  BY DEF BeginWithHandle, Fresh, service, history
<1>2. b \in Call /\ OnTrack(b, state, origin)
  BY CallKnown
<1> HIDE DEF b
<1>3. Untouched(b) /\ b.result = "none"
  BY <1>1, <1>2 DEF OnTrack, Call
<1>4. h \in DOMAIN state
  <2>1. PICK d \in Calls : call[d].result = "handle" /\ h = call[d].handle
    BY DEF Held
  <2>2. QED BY <2>1, CallKnown DEF Accepted
<1>5. /\ h \in 1..counter /\ origin[h] \in Regs /\ origin[h].shape.error = "none"
      /\ counter \in Nat
  BY <1>4, HandleKnown DEF HandleOK
<1>6. h \in Handles
  BY <1>5, AttemptsBound DEF Handles
<1>7. /\ r \in Call /\ r.pc = pc /\ r.kind = kind /\ r.handle = h /\ r.due = origin[h]
      /\ r.attempt = b.attempt /\ r.result = b.result
      /\ r.got = b.got /\ r.fetched = b.fetched
  <2>1. pc \in {"get", "cancel"}
    OBVIOUS
  <2> HIDE DEF pc
  <2>2. kind \in Kinds
    BY DEF Kinds
  <2> DEFINE o == origin[h]
             q == [call[c] EXCEPT !.kind = kind, !.handle = h]
  <2> HIDE DEF o
  <2>3. /\ q \in Call /\ q.kind = kind /\ q.handle = h /\ q.attempt = b.attempt
        /\ q.result = b.result /\ q.got = b.got /\ q.fetched = b.fetched
    BY <1>2, <1>6, <2>2 DEF Call, b
  <2>4. r = [q EXCEPT !.due = o, !.pc = pc]
    BY DEF o
  <2> HIDE DEF q, r
  <2>5. o \in Regs
    BY <1>5 DEF o
  <2>6. QED BY <2>1, <2>3, <2>4, <2>5 DEF Call, o
<1> HIDE DEF r
<1>8. OnTrack(r, state, origin)
  BY <1>3, <1>4, <1>5, <1>7 DEF OnTrack, Untouched
<1>9. Later(state, origin, state', origin')
  BY <1>1, NothingLater
<1>10. CallsOK'
  BY <1>1, <1>7, <1>8, <1>9, CallChanges
<1>11. r.attempt = call[c].attempt
  BY <1>7 DEF b
<1>12. Cardinality(Attempts') = Cardinality(Attempts)
  BY <1>1, <1>11, SameAttempts DEF CallsOK
<1>13. QED BY <1>10, <1>12

\* One more partition of a statement that has finished.
LEMMA GetPartitionCalls ==
    ASSUME CallsOK, HandleOK, NEW c \in Calls, GetPartition(c)
    PROVE  /\ CallsOK' /\ Cardinality(Attempts') = Cardinality(Attempts)
           /\ call[c].pc = "parts"
           /\ \/ call'[c].pc = "over"
              \/ call'[c].pc = "parts" /\ call'[c].fetched = call[c].fetched + 1
<1> DEFINE b == call[c]
           r == Receive(b, Chunks(b.due))
<1>1. b.pc = "parts" /\ state' = state /\ origin' = origin
  BY DEF GetPartition, service, history
<1>2. b \in Call /\ OnTrack(b, state, origin) /\ Accepted(b, state, origin) /\ b.result = "none"
  BY <1>1, CallKnown
<1>3. call' = [call EXCEPT ![c] = r]
  <2>1. state[b.handle].reg = b.due
    BY <1>2, HandleKnown DEF Accepted, HandleExact
  <2>2. QED BY <2>1 DEF GetPartition
<1> HIDE DEF b
<1>4. /\ Ready(b, state, origin) /\ b.kind \in {"query", "result", "peek"}
      /\ b.fetched \in 1..(b.due.shape.partitions - 1)
      /\ b.got = FirstRows(b.due, b.fetched)
  BY <1>1, <1>2 DEF OnTrack, Ready
<1>5. b.fetched \in 0..(b.due.shape.partitions - 1)
  BY <1>4
<1>6. /\ r \in Call /\ OnTrack(r, state, origin) /\ r.attempt = b.attempt
      /\ \/ r.pc = "over"
         \/ r.pc = "parts" /\ r.fetched = b.fetched + 1
  BY <1>2, <1>4, <1>5, ReceiveOnTrack
<1> HIDE DEF r
<1>7. Later(state, origin, state', origin')
  BY <1>1, NothingLater
<1>8. CallsOK'
  BY <1>1, <1>3, <1>6, <1>7, CallChanges
<1>9. Cardinality(Attempts') = Cardinality(Attempts)
  <2>1. r.attempt = call[c].attempt
    BY <1>6 DEF b
  <2>2. QED BY <1>3, <2>1, SameAttempts DEF CallsOK
<1>10. call'[c] = r
  BY <1>3 DEF CallsOK
<1>11. QED BY <1>1, <1>6, <1>8, <1>9, <1>10 DEF b

\* A cancel request ends its call.
LEMMA CancelCalls ==
    ASSUME CallsOK, HandleOK, NEW c \in Calls, Cancel(c)
    PROVE  /\ CallsOK' /\ Cardinality(Attempts') = Cardinality(Attempts)
           /\ call[c].pc = "cancel" /\ call'[c].pc = "over"
<1> DEFINE b == call[c]
           e == IF b.kind = "cancel" THEN "cancelled" ELSE "timeout"
           r == Ended(b, e)
<1>1. /\ b.pc = "cancel" /\ call' = [call EXCEPT ![c] = r]
      /\ state' = state /\ origin' = origin
  BY DEF Cancel, service, history
<1>2. b \in Call /\ Accepted(b, state, origin)
  BY <1>1, CallKnown
<1>3. e \in {"cancelled", "timeout"}
  OBVIOUS
<1> HIDE DEF b, e
<1>4. r \in Call /\ OnTrack(r, state, origin) /\ r.attempt = b.attempt /\ r.pc = "over"
  BY <1>2, <1>3, EndedCall, EndedOnTrack DEF Results
<1> HIDE DEF r
<1>5. Later(state, origin, state', origin')
  BY <1>1, NothingLater
<1>6. CallsOK'
  BY <1>1, <1>4, <1>5, CallChanges
<1>7. Cardinality(Attempts') = Cardinality(Attempts)
  <2>1. r.attempt = call[c].attempt
    BY <1>4 DEF b
  <2>2. QED BY <1>1, <2>1, SameAttempts DEF CallsOK
<1>8. call'[c] = r
  BY <1>1 DEF CallsOK
<1>9. QED BY <1>1, <1>4, <1>6, <1>7, <1>8 DEF b

\* A status poll: the call that makes it goes on, or ends, or begins its partitions.
LEMMA PollCalls ==
    ASSUME CallsOK, HandleOK, NEW c \in Calls, Poll(c)
    PROVE  /\ HandleOK' /\ Later(state, origin, state', origin')
           /\ CallsOK' /\ Cardinality(Attempts') = Cardinality(Attempts)
           /\ call[c].pc \in {"get", "poll"} /\ call[c].handle \in DOMAIN state
           /\ state[call[c].handle].remaining_polls \in Nat
           /\ call'[c].pc \in {"poll", "parts", "cancel", "over"}
           /\ state[call[c].handle].remaining_polls > 0 =>
                state'[call[c].handle].remaining_polls
                  = state[call[c].handle].remaining_polls - 1
           /\ call'[c].pc = "poll" => state[call[c].handle].remaining_polls > 0
<1> DEFINE b == call[c]
           h == b.handle
           left == state[h].remaining_polls
<1>1. b.pc \in {"get", "poll"} /\ counter' = counter /\ origin' = origin
  BY DEF Poll
<1>2. /\ b \in Call /\ OnTrack(b, state, origin)
      /\ Accepted(b, state, origin) /\ b.result = "none"
  BY <1>1, CallKnown
<1>3. h \in DOMAIN state
  BY <1>2 DEF Accepted
<1>4. left \in Nat /\ state[h].reg = b.due
  <2>1. left \in Nat /\ state[h].reg = origin[h]
    BY <1>3, HandleKnown DEF HandleExact
  <2>2. QED BY <1>2, <2>1 DEF Accepted
<1>5. HandleOK' /\ Later(state, origin, state', origin')
  <2>1. Answered(h)
    BY <1>1 DEF Poll, Answered
  <2>2. QED BY <1>3, <2>1, Polled
<1>6. /\ Untouched(b)
      /\ b.pc = "get" => b.kind \in {"result", "peek", "status"}
      /\ b.pc = "poll" => b.kind \in {"query", "execute", "result"}
  <2> HIDE DEF b
  <2>1. QED BY <1>1, <1>2 DEF OnTrack
<1>7. Accepted(b, state', origin')
  <2> HIDE DEF b
  <2>1. QED BY <1>2, <1>5 DEF Accepted, Later
<1>8. \E r : /\ call' = [call EXCEPT ![c] = r]
             /\ r \in Call /\ OnTrack(r, state', origin') /\ r.attempt = b.attempt
             /\ r.pc \in {"poll", "parts", "cancel", "over"}
             /\ r.pc = "poll" => left > 0
  <2>1. CASE left > 0
    <3>1. PICK r \in StillRunning(b) : call' = [call EXCEPT ![c] = r]
      BY <2>1 DEF Poll
    <3> HIDE DEF b, h, left
    <3>2. \/ r = Ended(b, "not_ready") \/ r = Ended(b, "running") \/ r = Ended(b, "timeout")
          \/ r = [b EXCEPT !.pc = "poll"] /\ b.kind = "result"
          \/ r = b /\ b.pc = "poll"
          \/ r = [b EXCEPT !.pc = "cancel"]
      <4>1. CASE b.pc = "get" /\ b.kind = "peek"
        <5>1. StillRunning(b) = {Ended(b, "not_ready")}
          BY <4>1 DEF StillRunning
        <5>2. QED BY <5>1
      <4>2. CASE b.pc = "get" /\ b.kind = "status"
        <5>1. StillRunning(b) = {Ended(b, "running")}
          BY <4>2 DEF StillRunning
        <5>2. QED BY <5>1
      <4>3. CASE b.pc = "get" /\ b.kind = "result"
        <5>1. StillRunning(b) = {[b EXCEPT !.pc = "poll"]}
          BY <4>3 DEF StillRunning
        <5>2. QED BY <4>3, <5>1
      <4>4. CASE b.pc = "poll" /\ b.kind = "result"
        <5>1. StillRunning(b) = {b, Ended(b, "timeout")}
          BY <4>4 DEF StillRunning
        <5>2. QED BY <4>4, <5>1
      <4>5. CASE b.pc = "poll" /\ b.kind # "result"
        <5>1. StillRunning(b) = {b, [b EXCEPT !.pc = "cancel"]}
          BY <4>5 DEF StillRunning
        <5>2. QED BY <4>5, <5>1
      <4>6. QED BY <1>1, <1>6, <4>1, <4>2, <4>3, <4>4, <4>5
    <3>3. CASE r = Ended(b, "not_ready") \/ r = Ended(b, "running") \/ r = Ended(b, "timeout")
      <4>1. PICK e \in {"not_ready", "running", "timeout"} : r = Ended(b, e)
        BY <3>3
      <4>2. r \in Call /\ OnTrack(r, state', origin') /\ r.attempt = b.attempt /\ r.pc = "over"
        BY <1>2, <1>7, <4>1, EndedCall, EndedOnTrack DEF Results
      <4>3. QED BY <3>1, <4>2
    <3>4. CASE r = [b EXCEPT !.pc = "poll"] /\ b.kind = "result"
      <4>1. /\ r \in Call /\ r.pc = "poll" /\ r.kind = "result" /\ r.handle = b.handle
            /\ r.due = b.due /\ r.attempt = b.attempt /\ r.result = "none"
            /\ r.got = b.got /\ r.fetched = b.fetched
        BY <1>2, <3>4 DEF Call
      <4>2. OnTrack(r, state', origin')
        BY <1>6, <1>7, <4>1 DEF OnTrack, Accepted, Untouched
      <4>3. QED BY <2>1, <3>1, <4>1, <4>2
    <3>5. CASE r = b /\ b.pc = "poll"
      <4>1. OnTrack(b, state', origin')
        BY <1>2, <1>5, StaysOnTrack
      <4>2. QED BY <1>2, <2>1, <3>1, <3>5, <4>1
    <3>6. CASE r = [b EXCEPT !.pc = "cancel"]
      <4>1. /\ r \in Call /\ r.pc = "cancel" /\ r.handle = b.handle
            /\ r.due = b.due /\ r.attempt = b.attempt /\ r.result = "none"
        BY <1>2, <3>6 DEF Call
      <4>2. OnTrack(r, state', origin')
        BY <1>7, <4>1 DEF OnTrack, Accepted
      <4>3. QED BY <3>1, <4>1, <4>2
    <3>7. QED BY <3>2, <3>3, <3>4, <3>5, <3>6
  <2>2. CASE ~(left > 0)
    <3> DEFINE r == Finished(b, b.due)
    <3>1. left = 0
      BY <1>4, <2>2
    <3>2. call' = [call EXCEPT ![c] = r] /\ state' = state
      BY <1>4, <2>2 DEF Poll
    <3> HIDE DEF b
    <3>3. Ready(b, state', origin')
      BY <1>7, <3>1, <3>2 DEF Ready
    <3>4. b.kind \in {"query", "execute", "result", "peek", "status"}
      BY <1>1, <1>6
    <3>5. /\ r \in Call /\ OnTrack(r, state', origin') /\ r.attempt = b.attempt
          /\ r.pc \in {"parts", "over"}
      BY <1>2, <1>6, <3>3, <3>4, FinishedOnTrack
    <3>6. QED BY <3>2, <3>5
  <2>3. QED BY <2>1, <2>2
<1>9. PICK r : /\ call' = [call EXCEPT ![c] = r]
               /\ r \in Call /\ OnTrack(r, state', origin') /\ r.attempt = b.attempt
               /\ r.pc \in {"poll", "parts", "cancel", "over"}
               /\ r.pc = "poll" => left > 0
  BY <1>8
<1>10. CallsOK'
  BY <1>5, <1>9, CallChanges
<1>11. Cardinality(Attempts') = Cardinality(Attempts)
  BY <1>9, SameAttempts DEF CallsOK
<1>12. call'[c] = r
  BY <1>9 DEF CallsOK
<1>13. left > 0 => state'[h].remaining_polls = left - 1
  <2>1. left > 0 => state' = [state EXCEPT ![h].remaining_polls = @ - 1]
    BY DEF Poll
  <2>2. state[h] = [reg |-> origin[h], remaining_polls |-> left]
    BY <1>3, HandleKnown
  <2> HIDE DEF h, left
  <2>3. QED BY <1>3, <2>1, <2>2
<1>14. QED BY <1>1, <1>3, <1>4, <1>5, <1>9, <1>10, <1>11, <1>12, <1>13

\* A submission: the fake complains of a statement it does not know, and for any other
\* there is one more handle.
LEMMA PostCalls ==
    ASSUME RegistryOK, CallsOK, HandleOK, counter = Cardinality(Attempts),
           NEW c \in Calls, Post(c)
    PROVE  /\ HandleOK' /\ Later(state, origin, state', origin')
           /\ CallsOK' /\ counter' = Cardinality(Attempts')
           /\ call[c].pc = "post"
           /\ \/ call'[c].pc \in {"poll", "parts", "over"}
              \/ call'[c].pc = "post" /\ call'[c].attempt = call[c].attempt + 1
<1> DEFINE b == call[c]
           sql == b.statement
           reg == _lookup(sql)
           h == counter + 1
           r == [b EXCEPT !.handle = h, !.attempt = @ + 1, !.due = reg]
<1>1. b.pc = "post" /\ b \in Call /\ OnTrack(b, state, origin)
  BY CallKnown DEF Post
<1>2. /\ Untouched(b) /\ b.attempt \in 0..(MaxAttempts - 1) /\ b.result = "none"
      /\ b.kind \in {"query", "execute", "submit"} /\ sql \in Statements
  <2> HIDE DEF b
  <2>1. b.attempt \in 0..MaxAttempts /\ MaxAttempts \in Nat
    BY <1>1, FakeAssumption DEF Call
  <2>2. QED BY <1>1, <2>1 DEF OnTrack
<1>3. reg = Expected(sql) /\ reg \in Regs \cup {Unregistered}
  BY <1>2, LookupExpected
<1>4. counter \in Nat /\ h \in Nat /\ h \in Handles
  <2>1. counter \in Nat
    BY DEF HandleOK
  <2>2. <<c, b.attempt + 1>> \in Calls \X (1..MaxAttempts)
    BY <1>2, FakeAssumption
  <2>3. <<c, b.attempt + 1>> \notin Attempts
    <3>1. ~(b.attempt + 1 <= b.attempt)
      BY <1>2, FakeAssumption
    <3>2. QED BY <3>1 DEF Attempts
  <2>4. counter < MaxCalls * MaxAttempts
    BY <2>2, <2>3, AttemptsBound
  <2>5. QED BY <2>1, <2>4, AttemptsBound DEF Handles
<1>5. CASE reg = Unregistered
  <2> DEFINE u == [b EXCEPT !.due = reg]
             q == Ended(u, "fake_error")
  <2>1. reg # Unregistered => FALSE
    BY <1>5
  <2>2. /\ call' = [call EXCEPT ![c] = q]
        /\ UNCHANGED <<state, counter, origin, answers>>
    BY <1>3, <1>5 DEF Post, service
  <2> HIDE DEF b, reg
  <2>3. u \in Call /\ u.due = Unregistered /\ u.attempt = b.attempt
    BY <1>1, <1>5 DEF Call
  <2> HIDE DEF u
  <2>4. /\ q \in Call /\ q.pc = "over" /\ q.result = "fake_error" /\ q.due = Unregistered
        /\ q.attempt = b.attempt
    BY <2>3, EndedCall DEF Results
  <2> HIDE DEF q
  <2>5. OnTrack(q, state, origin)
    BY <2>4 DEF OnTrack
  <2>6. Later(state, origin, state', origin')
    BY <2>2, NothingLater
  <2>7. HandleOK'
    BY <2>2 DEF HandleOK, HandleExact, HandleFailed
  <2>8. CallsOK'
    BY <2>2, <2>4, <2>5, <2>6, CallChanges
  <2>9. Cardinality(Attempts') = Cardinality(Attempts)
    <3>1. q.attempt = call[c].attempt
      BY <2>4 DEF b
    <3>2. QED BY <2>2, <3>1, SameAttempts DEF CallsOK
  <2>10. call'[c] = q
    BY <2>2 DEF CallsOK
  <2>11. QED BY <1>1, <2>2, <2>4, <2>6, <2>7, <2>8, <2>9, <2>10 DEF b
<1>6. CASE reg # Unregistered
  <2>1. reg \in Regs
    BY <1>3, <1>6
  <2>2. /\ r \in Call /\ r.handle = h /\ r.attempt = b.attempt + 1 /\ r.due = reg
        /\ r.kind = b.kind /\ r.pc = "post" /\ r.result = "none"
        /\ r.got = b.got /\ r.fetched = b.fetched /\ r.statement = sql
    <3> DEFINE n == b.attempt + 1
               q == [b EXCEPT !.handle = h, !.attempt = n]
    <3>1. n \in 0..MaxAttempts
      BY <1>2, FakeAssumption
    <3>2. r = [q EXCEPT !.due = reg]
      <4> HIDE DEF h, reg
      <4>1. QED BY <1>1 DEF Call
    <3> HIDE DEF n, h, b, reg
    <3>3. /\ q \in Call /\ q.handle = h /\ q.attempt = n
          /\ q.kind = b.kind /\ q.pc = b.pc /\ q.result = b.result
          /\ q.got = b.got /\ q.fetched = b.fetched /\ q.statement = b.statement
      BY <1>1, <1>4, <3>1 DEF Call
    <3> HIDE DEF q, r
    <3>4. QED BY <1>1, <1>2, <2>1, <3>2, <3>3 DEF Call, n
  <2>3. /\ counter' = h
        /\ origin' = Append(origin, reg)
        /\ answers' = Append(answers, <<>>)
        /\ IF reg.shape.error = "none"
             THEN Accept(c, h, reg, r)
             ELSE /\ call' = [call EXCEPT ![c] =
                       IF PostsAgain(r, reg) THEN r ELSE Ended(r, "error")]
                  /\ UNCHANGED state
    BY <1>3, <1>6 DEF Post
  <2>4. Adds(reg)
    <3>1. CASE reg.shape.error = "none"
      BY <2>3, <3>1 DEF Adds, Accept
    <3>2. CASE reg.shape.error # "none"
      BY <2>3, <3>2 DEF Adds
    <3>3. QED BY <3>1, <3>2
  <2>5. HandleOK' /\ Later(state, origin, state', origin')
    BY <2>1, <2>4, NewHandle
  <2>6. origin'[h] = reg
    BY <1>4, <2>1, <2>3, Appended DEF HandleOK
  <2>7. \E q : /\ call' = [call EXCEPT ![c] = q]
               /\ q \in Call /\ OnTrack(q, state', origin') /\ q.attempt = b.attempt + 1
               /\ q.pc \in {"post", "poll", "parts", "over"}
    <3> HIDE DEF b, reg, r, h
    <3>1. Untouched(r)
      BY <1>2, <2>2 DEF Untouched
    <3>2. CASE reg.shape.error # "none"
      <4>1. CASE PostsAgain(r, reg)
        <5>1. r.attempt < MaxAttempts
          BY <4>1 DEF PostsAgain
        <5>2. OnTrack(r, state', origin')
          BY <1>2, <2>2, <3>1, <5>1 DEF OnTrack
        <5>3. call' = [call EXCEPT ![c] = r]
          BY <2>3, <3>2, <4>1
        <5>4. QED BY <2>2, <5>2, <5>3
      <4>2. CASE ~PostsAgain(r, reg)
        <5> DEFINE q == Ended(r, "error")
        <5>1. /\ q \in Call /\ q.pc = "over" /\ q.result = "error" /\ q.due = reg
              /\ q.attempt = b.attempt + 1
          BY <2>2, EndedCall DEF Results
        <5>2. call' = [call EXCEPT ![c] = q]
          BY <2>3, <3>2, <4>2
        <5> HIDE DEF q
        <5>3. OnTrack(q, state', origin')
          BY <1>6, <3>2, <5>1 DEF OnTrack
        <5>4. QED BY <5>1, <5>2, <5>3
      <4>3. QED BY <4>1, <4>2
    <3>3. CASE reg.shape.error = "none"
      <4>1. /\ state' = [i \in DOMAIN state \cup {h} |->
                           IF i = h THEN [reg |-> reg, remaining_polls |-> reg.shape.polls]
                           ELSE state[i]]
            /\ call' = [call EXCEPT ![c] =
                          IF r.kind = "submit" THEN Ended(r, "handle")
                          ELSE IF reg.shape.polls > 0 THEN [r EXCEPT !.pc = "poll"]
                          ELSE Finished(r, reg)]
        BY <2>3, <3>3 DEF Accept
      <4>2. h \in DOMAIN state' /\ state'[h].remaining_polls = reg.shape.polls
        BY <4>1
      <4>3. Accepted(r, state', origin')
        BY <2>1, <2>2, <2>6, <3>3, <4>2 DEF Accepted
      <4>4. CASE r.kind = "submit"
        <5>1. call' = [call EXCEPT ![c] = Ended(r, "handle")]
          BY <4>1, <4>4
        <5>2. /\ Ended(r, "handle") \in Call /\ OnTrack(Ended(r, "handle"), state', origin')
              /\ Ended(r, "handle").attempt = r.attempt /\ Ended(r, "handle").pc = "over"
          BY <2>2, <4>3, EndedCall, EndedOnTrack DEF Results
        <5>3. QED BY <2>2, <5>1, <5>2
      <4>5. CASE r.kind # "submit" /\ reg.shape.polls > 0
        <5> DEFINE q == [r EXCEPT !.pc = "poll"]
        <5>1. call' = [call EXCEPT ![c] = q]
          BY <4>1, <4>5
        <5>2. /\ q \in Call /\ q.pc = "poll" /\ q.kind = r.kind /\ q.handle = r.handle
              /\ q.due = r.due /\ q.attempt = r.attempt /\ q.result = r.result
              /\ q.got = r.got /\ q.fetched = r.fetched
          BY <2>2 DEF Call
        <5> HIDE DEF q
        <5>3. q.kind \in {"query", "execute", "result"} /\ q.result = "none"
          BY <1>2, <2>2, <4>5, <5>2
        <5>4. OnTrack(q, state', origin')
          BY <3>1, <4>3, <5>2, <5>3 DEF OnTrack, Accepted, Untouched
        <5>5. QED BY <2>2, <5>1, <5>2, <5>4
      <4>6. CASE r.kind # "submit" /\ ~(reg.shape.polls > 0)
        <5> DEFINE q == Finished(r, r.due)
        <5>1. reg.shape.polls = 0
          BY <2>1, <4>6, RegParts
        <5>2. call' = [call EXCEPT ![c] = q]
          BY <2>2, <4>1, <4>6
        <5>3. Ready(r, state', origin')
          BY <2>2, <4>2, <4>3, <5>1 DEF Ready
        <5>4. r.kind \in {"query", "execute", "result", "peek", "status"}
          BY <1>2, <2>2, <4>6
        <5>5. /\ q \in Call /\ OnTrack(q, state', origin') /\ q.attempt = r.attempt
              /\ q.pc \in {"parts", "over"}
          BY <2>2, <3>1, <5>3, <5>4, FinishedOnTrack
        <5>6. QED BY <2>2, <5>2, <5>5
      <4>7. QED BY <4>4, <4>5, <4>6
    <3>4. QED BY <3>2, <3>3
  <2>8. PICK q : /\ call' = [call EXCEPT ![c] = q]
                 /\ q \in Call /\ OnTrack(q, state', origin') /\ q.attempt = b.attempt + 1
                 /\ q.pc \in {"post", "poll", "parts", "over"}
    BY <2>7
  <2>9. CallsOK'
    BY <2>5, <2>8, CallChanges
  <2>10. call'[c] = q /\ \A d \in Calls : d # c => call'[d] = call[d]
    BY <2>8 DEF CallsOK
  <2>11. Cardinality(Attempts') = Cardinality(Attempts) + 1
    BY <1>2, <2>8, <2>10, AttemptMade
  <2>12. QED BY <1>1, <2>3, <2>5, <2>8, <2>9, <2>10, <2>11
<1>7. QED BY <1>5, <1>6

-----------------------------------------------------------------------------
(* The theorems about FakeSnowflake.                                        *)

\* Nothing is registered and nothing has been called.
LEMMA InvInitially ==
    ASSUME Init
    PROVE  Inv
<1>1. RegistryOK
  BY FakeAssumption DEF Init, RegistryOK, RegistryInv
<1>2. /\ counter = 0 /\ state = <<>> /\ origin = <<>> /\ answers = <<>>
      /\ DOMAIN state = {} /\ 1..counter = {}
  BY DEF Init
<1>3. HandleOK
  BY <1>2 DEF HandleOK
<1>4. CallsOK
  <2> DEFINE r == [kind |-> "none", pc |-> "new", statement |-> "none", handle |-> 0,
                   attempt |-> 0, got |-> <<>>, fetched |-> 0, result |-> "none",
                   count |-> 0, due |-> Unregistered]
  <2>1. call = [c \in Calls |-> r]
    BY DEF Init
  <2>2. r \in Call
    BY FakeAssumption DEF Call
  <2>3. r.pc = "new" /\ r.result = "none" /\ Untouched(r) /\ r.attempt = 0
    BY DEF Untouched
  <2> HIDE DEF r
  <2>4. OnTrack(r, state, origin)
    BY <2>3 DEF OnTrack
  <2>5. QED BY <2>1, <2>2, <2>4 DEF CallsOK, CallInv
<1>5. Attempts = {}
  <2>1. \A c \in Calls : call[c].attempt = 0
    BY DEF Init
  <2>2. SUFFICES ASSUME NEW x \in Attempts PROVE FALSE
    OBVIOUS
  <2>3. x[1] \in Calls /\ x[2] \in 1..MaxAttempts /\ x[2] <= call[x[1]].attempt
    BY DEF Attempts
  <2>4. QED BY <2>1, <2>3
<1>6. counter = Cardinality(Attempts)
  BY <1>2, <1>5, FS_EmptySet
<1>7. QED BY <1>1, <1>3, <1>4, <1>6, InvParts

\* Calls that only watch do not go on, but a status poll of their statement counts for them.
CountsDown ==
    \A h \in DOMAIN state :
        answers'[h] = Append(answers[h], "running")
          => state'[h].remaining_polls < state[h].remaining_polls

\* One of the ways in which the call c gets nearer to its end.
Nearer(c) ==
    \/ Phase[call'[c].pc] > Phase[call[c].pc]
    \/ /\ call'[c].pc = call[c].pc
       /\ CASE call[c].pc = "post" -> call'[c].attempt > call[c].attempt
            [] call[c].pc = "poll" -> state'[call[c].handle].remaining_polls
                                        < state[call[c].handle].remaining_polls
            [] call[c].pc = "parts" -> call'[c].fetched > call[c].fetched

\* A call that moves comes nearer to its end, and no other is thrown back.
LEMMA AdvancesBy ==
    ASSUME CallsOK, HandleOK, Later(state, origin, state', origin'), CountsDown,
           \A c \in Calls : Busy(c) /\ call'[c] # call[c] => Nearer(c)
    PROVE  Advances
<1>1. \A h \in DOMAIN state : state'[h].remaining_polls <= state[h].remaining_polls
  BY DEF Later
<1>2. ASSUME NEW c \in Calls, Busy(c),
             \/ call'[c] # call[c]
             \/ /\ call[c].pc = "poll"
                /\ answers'[call[c].handle] = Append(answers[call[c].handle], "running")
      PROVE  Nearer(c)
  <2>1. CASE call'[c] # call[c]
    BY <1>2, <2>1
  <2>2. CASE call'[c] = call[c]
    <3>1. /\ call[c].pc = "poll" /\ call'[c].pc = "poll"
          /\ answers'[call[c].handle] = Append(answers[call[c].handle], "running")
      BY <1>2, <2>2
    <3>2. call[c].handle \in DOMAIN state
      BY <3>1, CallKnown DEF Accepted
    <3>3. state'[call[c].handle].remaining_polls < state[call[c].handle].remaining_polls
      BY <3>1, <3>2 DEF CountsDown
    <3>4. QED BY <3>1, <3>3 DEF Nearer
  <2>3. QED BY <2>1, <2>2
<1>3. QED BY Zenon, <1>1, <1>2 DEF Advances, Nearer

\* A step that polls nothing.
LEMMA NothingPolled ==
    ASSUME HandleOK, \A h \in DOMAIN state : answers'[h] = answers[h]
    PROVE  CountsDown
<1>1. ASSUME NEW h \in DOMAIN state PROVE answers'[h] # Append(answers[h], "running")
  <2>1. answers[h] \in Seq({"running", "success"}) /\ answers'[h] = answers[h]
    BY HandleKnown
  <2>2. Len(Append(answers[h], "running")) = Len(answers[h]) + 1
    BY <2>1
  <2>3. Len(answers[h]) # Len(answers[h]) + 1
    BY <2>1
  <2>4. QED BY <2>1, <2>2, <2>3
<1>2. QED BY <1>1 DEF CountsDown

\* A step that takes calls no further.
LEMMA NoCallAdvances ==
    ASSUME CallsOK, HandleOK, UNCHANGED <<state, origin, answers>>,
           \A c \in Calls : Busy(c) => call'[c] = call[c]
    PROVE  Advances
BY NothingLater, NothingPolled, AdvancesBy

\* Each step of a call keeps the invariant and takes it nearer to its end.
LEMMA PostStep ==
    ASSUME Inv, NEW c \in Calls, Post(c)
    PROVE  Inv' /\ Advances
<1>1. RegistryOK /\ HandleOK /\ CallsOK /\ counter = Cardinality(Attempts)
  BY InvParts
<1>2. RegistryOK'
  BY <1>1, RegistryStays DEF Post
<1>3. /\ HandleOK' /\ Later(state, origin, state', origin')
      /\ CallsOK' /\ counter' = Cardinality(Attempts')
      /\ call[c].pc = "post"
      /\ \/ call'[c].pc \in {"poll", "parts", "over"}
         \/ call'[c].pc = "post" /\ call'[c].attempt = call[c].attempt + 1
  BY <1>1, PostCalls
<1>4. Inv'
  BY <1>2, <1>3, InvNext
<1>5. CountsDown
  <2>1. ASSUME NEW h \in DOMAIN state PROVE answers'[h] = answers[h]
    <3>1. h \in 1..Len(answers) /\ answers \in Seq(Seq({"running", "success"}))
      BY <1>1, HandleKnown DEF HandleOK
    <3>2. answers' = answers \/ answers' = Append(answers, <<>>)
      BY DEF Post
    <3>3. Append(answers, <<>>)[h] = answers[h]
      BY <3>1
    <3>4. QED BY <3>2, <3>3
  <2>2. QED BY <1>1, <2>1, NothingPolled
<1>6. Nearer(c)
  <2>1. CASE call'[c].pc \in {"poll", "parts", "over"}
    BY <1>3, <2>1 DEF Nearer, Phase
  <2>2. CASE call'[c].pc = "post" /\ call'[c].attempt = call[c].attempt + 1
    <3>1. call[c].attempt \in Nat
      BY <1>1, CallKnown, FakeAssumption DEF Call
    <3>2. call'[c].attempt > call[c].attempt
      BY <2>2, <3>1
    <3>3. QED BY <1>3, <2>2, <3>2 DEF Nearer
  <2>3. QED BY <1>3, <2>1, <2>2
<1>7. \A d \in Calls : d # c => call'[d] = call[d]
  <2>1. \E q : call' = [call EXCEPT ![c] = q]
    BY DEF Post, Accept
  <2>2. QED BY <1>1, <2>1 DEF CallsOK
<1>8. Advances
  BY <1>1, <1>3, <1>5, <1>6, <1>7, AdvancesBy
<1>9. QED BY <1>4, <1>8

\* Statuses that are asked for.
LEMMA PollStep ==
    ASSUME Inv, NEW c \in Calls, Poll(c)
    PROVE  Inv' /\ Advances
<1> DEFINE h == call[c].handle
           left == state[h].remaining_polls
<1>1. RegistryOK /\ HandleOK /\ CallsOK /\ counter = Cardinality(Attempts)
  BY InvParts
<1>2. RegistryOK'
  BY <1>1, RegistryStays DEF Poll
<1>3. /\ HandleOK' /\ Later(state, origin, state', origin')
      /\ CallsOK' /\ Cardinality(Attempts') = Cardinality(Attempts)
      /\ call[c].pc \in {"get", "poll"} /\ h \in DOMAIN state /\ left \in Nat
      /\ call'[c].pc \in {"poll", "parts", "cancel", "over"}
      /\ left > 0 => state'[h].remaining_polls = left - 1
      /\ call'[c].pc = "poll" => left > 0
  BY <1>1, PollCalls
<1>4. Inv'
  <2>1. counter' = Cardinality(Attempts')
    BY <1>1, <1>3 DEF Poll
  <2>2. QED BY <1>2, <1>3, <2>1, InvNext
<1>5. answers' = [answers EXCEPT ![h] = Append(@, IF left > 0 THEN "running" ELSE "success")]
  <2>1. CASE left > 0
    BY <2>1 DEF Poll
  <2>2. CASE ~(left > 0)
    BY <2>2 DEF Poll
  <2>3. QED BY <2>1, <2>2
<1>6. CountsDown
  <2>1. SUFFICES ASSUME NEW i \in DOMAIN state,
                        answers'[i] = Append(answers[i], "running")
                 PROVE  state'[i].remaining_polls < state[i].remaining_polls
    BY DEF CountsDown
  <2>2. answers[i] \in Seq({"running", "success"}) /\ i \in 1..Len(answers)
        /\ answers \in Seq(Seq({"running", "success"}))
    BY <1>1, HandleKnown DEF HandleOK
  <2>3. i = h
    <3>1. SUFFICES ASSUME i # h PROVE FALSE
      OBVIOUS
    <3>2. answers'[i] = answers[i]
      BY <1>5, <2>2, <3>1
    <3>3. Len(Append(answers[i], "running")) = Len(answers[i]) + 1 /\ Len(answers[i]) \in Nat
      BY <2>2
    <3>4. QED BY <2>1, <3>2, <3>3
  <2>4. left > 0
    <3>1. SUFFICES ASSUME ~(left > 0) PROVE FALSE
      OBVIOUS
    <3>2. answers'[i] = Append(answers[i], "success")
      BY <1>5, <2>2, <2>3, <3>1
    <3>3. /\ Append(answers[i], "success")[Len(answers[i]) + 1] = "success"
          /\ Append(answers[i], "running")[Len(answers[i]) + 1] = "running"
      BY <2>2
    <3>4. QED BY <2>1, <3>2, <3>3
  <2>5. QED BY <1>3, <2>3, <2>4
<1>7. Nearer(c)
  <2>1. CASE call[c].pc = "get"
    <3>1. \A pc \in {"poll", "parts", "cancel", "over"} : Phase[pc] > Phase["get"]
      BY DEF Phase
    <3>2. QED BY <1>3, <2>1, <3>1 DEF Nearer
  <2>2. CASE call[c].pc = "poll" /\ call'[c].pc \in {"parts", "cancel", "over"}
    BY <2>2 DEF Nearer, Phase
  <2>3. CASE call[c].pc = "poll" /\ call'[c].pc = "poll"
    <3>1. state'[h].remaining_polls < left
      BY <1>3, <2>3
    <3>2. QED BY <2>3, <3>1 DEF Nearer
  <2>4. QED BY <1>3, <2>1, <2>2, <2>3
<1>8. \A d \in Calls : d # c => call'[d] = call[d]
  <2>1. \E q : call' = [call EXCEPT ![c] = q]
    BY DEF Poll
  <2>2. QED BY <1>1, <2>1 DEF CallsOK
<1>9. Advances
  BY <1>1, <1>3, <1>6, <1>7, <1>8, AdvancesBy
<1>10. QED BY <1>4, <1>9

\* Partitions that are fetched, and cancellations.
LEMMA PartitionStep ==
    ASSUME Inv, NEW c \in Calls, GetPartition(c) \/ Cancel(c)
    PROVE  Inv' /\ Advances
<1>1. RegistryOK /\ HandleOK /\ CallsOK /\ counter = Cardinality(Attempts)
  BY InvParts
<1>2. UNCHANGED <<registry, state, counter, log, origin, answers>>
      /\ \E q : call' = [call EXCEPT ![c] = q]
  BY DEF GetPartition, Cancel, service, history
<1>3. RegistryOK'
  BY <1>1, <1>2, RegistryStays
<1>4. HandleOK'
  BY <1>1, <1>2 DEF HandleOK, HandleExact, HandleFailed
<1>5. CallsOK' /\ Cardinality(Attempts') = Cardinality(Attempts) /\ Nearer(c)
  <2>1. CASE GetPartition(c)
    <3>1. /\ CallsOK' /\ Cardinality(Attempts') = Cardinality(Attempts)
          /\ call[c].pc = "parts"
          /\ \/ call'[c].pc = "over"
             \/ call'[c].pc = "parts" /\ call'[c].fetched = call[c].fetched + 1
      BY <1>1, <2>1, GetPartitionCalls
    <3>2. CASE call'[c].pc = "over"
      BY <3>1, <3>2 DEF Nearer, Phase
    <3>3. CASE call'[c].pc = "parts" /\ call'[c].fetched = call[c].fetched + 1
      <4>1. call[c].fetched \in Nat
        BY <1>1, CallKnown DEF Call
      <4>2. call'[c].fetched > call[c].fetched
        BY <3>3, <4>1
      <4>3. QED BY <3>1, <3>3, <4>2 DEF Nearer
    <3>4. QED BY <3>1, <3>2, <3>3
  <2>2. CASE Cancel(c)
    <3>1. /\ CallsOK' /\ Cardinality(Attempts') = Cardinality(Attempts)
          /\ call[c].pc = "cancel" /\ call'[c].pc = "over"
      BY <1>1, <2>2, CancelCalls
    <3>2. QED BY <3>1 DEF Nearer, Phase
  <2>3. QED BY <2>1, <2>2
<1>6. Inv'
  <2>1. counter' = Cardinality(Attempts')
    BY <1>1, <1>2, <1>5
  <2>2. QED BY <1>3, <1>4, <1>5, <2>1, InvNext
<1>7. Advances
  <2>1. \A d \in Calls : d # c => call'[d] = call[d]
    BY <1>1, <1>2 DEF CallsOK
  <2>2. Later(state, origin, state', origin') /\ CountsDown
    BY <1>1, <1>2, NothingLater, NothingPolled
  <2>3. QED BY <1>1, <1>5, <2>1, <2>2, AdvancesBy
<1>8. QED BY <1>6, <1>7

\* So does a registration, a call that begins, and a step of something else.
LEMMA RegisterStep ==
    ASSUME Inv,
           \/ \E sql \in Statements, shape \in Shapes : Register(sql, shape)
           \/ \E matches \in Predicates, shape \in Shapes : RegisterMatch(matches, shape)
           \/ UNCHANGED vars
    PROVE  Inv' /\ Advances
<1>1. RegistryOK /\ HandleOK /\ CallsOK /\ counter = Cardinality(Attempts)
  BY InvParts
<1>2. UNCHANGED <<state, counter, call, origin, answers>>
  BY DEF Register, RegisterMatch, vars, service, history
<1>3. RegistryOK'
  <2>1. ASSUME NEW sql \in Statements, NEW shape \in Shapes, Register(sql, shape)
        PROVE  RegistryOK'
    BY <1>1, <2>1, RegisterRegistry
  <2>2. ASSUME NEW matches \in Predicates, NEW shape \in Shapes, RegisterMatch(matches, shape)
        PROVE  RegistryOK'
    BY <1>1, <2>2, RegisterMatchRegistry
  <2>3. ASSUME UNCHANGED vars PROVE RegistryOK'
    <3>1. UNCHANGED <<registry, log>>
      BY <2>3 DEF vars, history
    <3>2. QED BY <1>1, <3>1, RegistryStays
  <2>4. QED BY <2>1, <2>2, <2>3
<1>4. HandleOK'
  BY <1>1, <1>2 DEF HandleOK, HandleExact, HandleFailed
<1>5. CallsOK' /\ counter' = Cardinality(Attempts')
  BY <1>1, <1>2 DEF CallsOK, CallInv, Attempts
<1>6. Inv'
  BY <1>3, <1>4, <1>5, InvNext
<1>7. QED BY <1>1, <1>2, <1>6, NoCallAdvances

\* Calls that begin.
LEMMA BeginStep ==
    ASSUME Inv, NEW c \in Calls,
           \/ \E kind \in {"query", "execute", "submit"}, sql \in Statements :
                 Begin(c, kind, sql)
           \/ \E kind \in {"result", "peek", "status", "cancel"}, h \in Held :
                 BeginWithHandle(c, kind, h)
    PROVE  Inv' /\ Advances
<1>1. RegistryOK /\ HandleOK /\ CallsOK /\ counter = Cardinality(Attempts)
  BY InvParts
<1>2. /\ UNCHANGED <<registry, state, counter, log, origin, answers>>
      /\ call[c].pc = "new"
      /\ \E q : call' = [call EXCEPT ![c] = q]
  BY DEF Begin, BeginWithHandle, Fresh, service, history
<1>3. RegistryOK'
  BY <1>1, <1>2, RegistryStays
<1>4. HandleOK'
  BY <1>1, <1>2 DEF HandleOK, HandleExact, HandleFailed
<1>5. CallsOK' /\ Cardinality(Attempts') = Cardinality(Attempts)
  BY <1>1, BeginCalls, BeginWithHandleCalls
<1>6. Inv'
  <2>1. counter' = Cardinality(Attempts')
    BY <1>1, <1>2, <1>5
  <2>2. QED BY <1>3, <1>4, <1>5, <2>1, InvNext
<1>7. \A d \in Calls : Busy(d) => call'[d] = call[d]
  BY <1>1, <1>2 DEF Busy, CallsOK
<1>8. QED BY <1>1, <1>2, <1>6, <1>7, NoCallAdvances

\* Every step keeps the invariant and brings the call it is about nearer to its end.
LEMMA InvStep ==
    ASSUME Inv, [Next]_vars
    PROVE  Inv' /\ Advances
<1>1. CASE \/ \E sql \in Statements, shape \in Shapes : Register(sql, shape)
           \/ \E matches \in Predicates, shape \in Shapes : RegisterMatch(matches, shape)
           \/ UNCHANGED vars
  BY <1>1, RegisterStep
<1>2. ASSUME NEW c \in Calls,
             \/ \E kind \in {"query", "execute", "submit"}, sql \in Statements :
                   Begin(c, kind, sql)
             \/ \E kind \in {"result", "peek", "status", "cancel"}, h \in Held :
                   BeginWithHandle(c, kind, h)
      PROVE  Inv' /\ Advances
  BY <1>2, BeginStep
<1>3. ASSUME NEW c \in Calls, Step(c) PROVE Inv' /\ Advances
  BY <1>3, PostStep, PollStep, PartitionStep DEF Step
<1>4. QED BY Zenon, <1>1, <1>2, <1>3 DEF Next

\* The invariant of the fake and of the calls on it holds in every state.
THEOREM FakeInvariance == Spec => []Inv
<1>1. Inv /\ [Next]_vars => Inv'
  BY InvStep
<1>2. QED BY InvInitially, <1>1, PTL DEF Spec

\* The registry, the statements, the handles and the calls hold what the code puts there;
\* in particular, there are no more handles than attempts that calls may make.
THEOREM FakeTypes == Spec => []TypeOK
<1>1. Inv => TypeOK
  BY DEF Inv
<1>2. QED BY <1>1, FakeInvariance, PTL

\* However calls and registrations interleave, each call gets the rows, the count or the
\* error of the registration that was in force when its statement was submitted.
THEOREM EachItsOwnResult == Spec => []OwnResult
<1>1. ASSUME Inv PROVE OwnResult
  <2>1. HandleOK /\ CallsOK
    BY <1>1, InvParts
  <2>2. SUFFICES ASSUME NEW c \in Calls, call[c].pc = "over"
                 PROVE  /\ call[c].result = "rows" => call[c].got = RowsOf(call[c].due)
                        /\ call[c].result = "count" => call[c].count = call[c].due.shape.count
                        /\ call[c].result = "fake_error" <=> call[c].due = Unregistered
                        /\ call[c].result = "error" <=>
                             call[c].due # Unregistered /\ call[c].due.shape.error # "none"
    BY DEF OwnResult
  <2> DEFINE r == call[c]
             accepted == {"rows", "count", "handle", "not_ready", "running", "success",
                          "cancelled", "timeout"}
  <2>3. r \in Call /\ OnTrack(r, state, origin)
    BY <2>1, CallKnown
  <2>4. r.pc = "over"
    BY <2>2
  <2> HIDE DEF r
  <2>5. r.result \in accepted \cup {"error", "fake_error"}
    BY <2>3, <2>4 DEF OnTrack, Call
  <2>6. r.result \in accepted => r.due # Unregistered /\ r.due.shape.error = "none"
    <3>1. r.result \in accepted =>
            /\ r.handle \in DOMAIN state /\ r.due = origin[r.handle]
            /\ r.due.shape.error = "none"
      BY <2>3 DEF OnTrack
    <3>2. r.handle \in DOMAIN state => origin[r.handle] # Unregistered
      BY <2>1, HandleKnown, RegParts
    <3>3. QED BY <3>1, <3>2
  <2>7. /\ r.result = "rows" => r.got = RowsOf(r.due)
        /\ r.result = "count" => r.count = r.due.shape.count
        /\ r.result = "error" => r.due # Unregistered /\ r.due.shape.error # "none"
        /\ r.result = "fake_error" => r.due = Unregistered
    BY <2>3 DEF OnTrack
  <2>8. QED BY <2>5, <2>6, <2>7 DEF r
<1>2. QED BY <1>1, FakeInvariance, PTL

\* A statement is RUNNING for exactly polls_before_ready status polls, whoever makes them,
\* and its rows or its count are not to be had before.
THEOREM ExactlyThePolls == Spec => []PollsExact
<1>1. ASSUME Inv PROVE PollsExact
  <2>1. HandleOK /\ CallsOK
    BY <1>1, InvParts
  <2>2. ASSUME NEW h \in 1..counter, NEW i \in DOMAIN answers[h]
        PROVE  answers[h][i] = IF i <= origin[h].shape.polls THEN "running" ELSE "success"
    <3>1. h \in DOMAIN state
      <4>1. i \in DOMAIN answers[h]
        BY <2>2
      <4>2. answers[h] # <<>>
        BY <4>1
      <4>3. QED BY <2>1, <2>2, <4>2 DEF HandleOK, HandleExact, HandleFailed
    <3>2. HandleExact(h) /\ answers[h] \in Seq({"running", "success"})
      BY <2>1, <3>1, HandleKnown
    <3>3. i \in 1..Len(answers[h])
      BY <2>2, <3>2
    <3>4. QED BY <3>2, <3>3 DEF HandleExact
  <2>3. ASSUME NEW c \in Calls, call[c].result \in {"rows", "count"} \/ call[c].pc = "parts"
        PROVE  Cardinality({i \in DOMAIN answers[call[c].handle] :
                              answers[call[c].handle][i] = "running"})
                 = call[c].due.shape.polls
    <3> DEFINE r == call[c]
               h == r.handle
               polls == origin[h].shape.polls
               asked == Len(answers[h])
               running == {i \in DOMAIN answers[h] : answers[h][i] = "running"}
    <3>1. OnTrack(r, state, origin) /\ (r.result \in {"rows", "count"} \/ r.pc = "parts")
      BY <2>1, <2>3, CallKnown
    <3> HIDE DEF r
    <3>2. h \in DOMAIN state /\ r.due = origin[h] /\ state[h].remaining_polls = 0
      BY <3>1 DEF OnTrack
    <3>3. /\ HandleExact(h) /\ answers[h] \in Seq({"running", "success"})
          /\ origin[h] \in Regs
      BY <2>1, <3>2, HandleKnown
    <3>4. polls \in Nat /\ asked \in Nat
      BY <3>3, RegParts
    <3>5. polls <= asked
      BY <3>2, <3>3, <3>4 DEF HandleExact
    <3>6. \A i \in 1..asked : answers[h][i] = IF i <= polls THEN "running" ELSE "success"
      BY <3>3 DEF HandleExact
    <3>7. DOMAIN answers[h] = 1..asked
      BY <3>3
    <3>8. running = 1..polls
      <4> HIDE DEF polls, asked, h
      <4>1. QED BY <3>4, <3>5, <3>6, <3>7
    <3> HIDE DEF polls, running, h
    <3>9. Cardinality(1..polls) = polls
      <4>1. Cardinality(1..polls) = IF 1 > polls THEN 0 ELSE polls - 1 + 1
        BY <3>4, FS_Interval
      <4>2. QED BY <3>4, <4>1
    <3>10. QED BY <3>2, <3>8, <3>9 DEF polls, running, h, r
  <2>4. QED BY <2>2, <2>3 DEF PollsExact
<1>2. QED BY <1>1, FakeInvariance, PTL

\* No call goes round for ever.
THEOREM CallsAdvance == Spec => Progress
<1>1. Inv /\ [Next]_vars => [Advances]_vars
  BY InvStep
<1>2. QED BY <1>1, FakeInvariance, PTL DEF Spec, Progress

-----------------------------------------------------------------------------
(* The arithmetic of WireTypes: units.                                      *)

\* The units are positive numbers, and so are the lengths made of them.
LEMMA Units ==
    /\ Nanos \in Nat /\ Nanos >= 1 /\ Micros \in Nat /\ Micros >= 1
    /\ Millis \in Nat /\ Millis >= 1 /\ Seconds \in Nat /\ Seconds >= 1
    /\ Minutes \in Nat /\ Minutes >= 1 /\ Hours \in Nat /\ Hours >= 1
    /\ Second \in Nat /\ Second >= 1
    /\ Day \in Nat /\ Day >= 1
<1>1. {Nanos, Micros, Millis, Seconds, Minutes, Hours} \subseteq Nat \ {0}
  BY WireAssumption
<1>2. /\ Nanos \in Nat /\ Nanos >= 1 /\ Micros \in Nat /\ Micros >= 1
      /\ Millis \in Nat /\ Millis >= 1 /\ Seconds \in Nat /\ Seconds >= 1
      /\ Minutes \in Nat /\ Minutes >= 1 /\ Hours \in Nat /\ Hours >= 1
  BY <1>1
<1>3. \A a, b \in Nat : a >= 1 /\ b >= 1 => a * b \in Nat /\ a * b >= 1
  OBVIOUS
<1>4. Second \in Nat /\ Second >= 1
  BY <1>2, <1>3 DEF Second
<1>5. Hours * Minutes \in Nat /\ Hours * Minutes >= 1
  BY <1>2, <1>3
<1>6. Day \in Nat /\ Day >= 1
  BY <1>2, <1>3, <1>5 DEF Day
<1>7. QED BY <1>2, <1>4, <1>6

\* There is one quotient and one remainder.
LEMMA DivUnique ==
    ASSUME NEW d \in Nat, d >= 1, NEW q \in Int, NEW r \in 0..(d - 1), NEW n \in Int,
           n = q * d + r
    PROVE  n \div d = q /\ (n % d) = r
OBVIOUS

\* Floor division does not turn numbers round.
LEMMA DivMonotone ==
    ASSUME NEW d \in Nat, d >= 1, NEW a \in Int, NEW b \in Int, a <= b
    PROVE  a \div d <= b \div d
<1> DEFINE p == a \div d
           q == b \div d
           r == a % d
           s == b % d
<1>1. /\ p \in Int /\ q \in Int /\ r \in 0..(d - 1) /\ s \in 0..(d - 1)
      /\ a = d * p + r /\ b = d * q + s
  BY DivMod
<1> HIDE DEF p, q, r, s
<1>2. SUFFICES ASSUME q + 1 <= p PROVE FALSE
  BY <1>1 DEF p, q
<1>3. d * (q + 1) <= d * p
  BY <1>1, <1>2
<1>4. d * (q + 1) = d * q + d
  BY <1>1
<1>5. QED BY <1>1, <1>3, <1>4

\* Negation, as the provers take it.
LEMMA Negated == \A n \in Int : -n = 0 - n
OBVIOUS

\* Whole microseconds survive the nanoseconds, on either side of zero.
LEMMA MicrosOfNanos ==
    ASSUME NEW r \in Nat
    PROVE  /\ nanos_to_micros(r * Nanos) = r
           /\ nanos_to_micros(-(r * Nanos)) = -r
           /\ r * Nanos \in Nat
<1> DEFINE n == r * Nanos
<1>1. n \in Nat /\ n \div Nanos = r /\ Nanos \in Nat /\ Nanos >= 1
  <2>1. Nanos \in Nat /\ Nanos >= 1
    BY Units
  <2>2. n \in Nat /\ n = r * Nanos + 0 /\ 0 \in 0..(Nanos - 1)
    BY <2>1
  <2> HIDE DEF n
  <2>3. QED BY <2>1, <2>2, DivUnique
<1>2. nanos_to_micros(n) = r
  BY <1>1 DEF nanos_to_micros
<1> HIDE DEF n
<1>3. CASE n = 0
  <2>1. r = 0
    <3>1. 0 = 0 * Nanos + 0 /\ 0 \in 0..(Nanos - 1)
      BY <1>1
    <3>2. 0 \div Nanos = 0
      BY <1>1, <3>1, DivUnique
    <3>3. QED BY <1>1, <1>3, <3>2
  <2>2. 0 - n = n /\ 0 - r = r
    BY <1>1, <1>3, <2>1
  <2>3. -n = 0 - n /\ -r = 0 - r
    BY <1>1, Negated
  <2>4. nanos_to_micros(-n) = -r
    BY Zenon, <1>2, <2>2, <2>3
  <2>5. QED BY <1>1, <1>2, <2>4 DEF n
<1>4. CASE n # 0
  <2>1. ~(-n >= 0) /\ -(-n) = n
    BY <1>1, <1>4
  <2>2. nanos_to_micros(-n) = -r
    BY <1>1, <2>1 DEF nanos_to_micros
  <2>3. QED BY <1>1, <1>2, <2>2 DEF n
<1>5. QED BY <1>3, <1>4

\* A whole number of units, and a rest that is less than one of them.
LEMMA Carry ==
    ASSUME NEW a \in Int, NEW b \in Nat, NEW c \in Nat, b >= 1, c >= 1,
           NEW i \in 0..(b - 1), NEW j \in 0..(c - 1)
    PROVE  /\ i * c + j \in 0..(b * c - 1)
           /\ (a * b + i) * c + j = a * (b * c) + (i * c + j)
<1>1. (i + 1) * c <= b * c /\ i * c >= 0
  OBVIOUS
<1>2. (i + 1) * c = i * c + c
  OBVIOUS
<1>3. i * c \in Nat /\ b * c \in Nat
  OBVIOUS
<1>4. (a * b + i) * c = a * (b * c) + i * c
  OBVIOUS
<1>5. QED BY <1>1, <1>2, <1>3, <1>4

-----------------------------------------------------------------------------
(* Timestamps.                                                              *)

\* epoch_string() and _split_seconds() are inverse to each other.
LEMMA InstantOfString ==
    ASSUME NEW us \in Int
    PROVE  Instant(epoch_string(us)) = us
<1> DEFINE n == Abs(us)
           q == n \div Micros
           r == n % Micros
           f == r * Nanos
<1>1. n \in Nat /\ us = (IF us < 0 THEN -n ELSE n)
  BY DEF Abs
<1> HIDE DEF n
<1>2. q \in Int /\ r \in 0..(Micros - 1) /\ n = Micros * q + r /\ Micros \in Nat
  BY <1>1, Units, DivMod
<1> HIDE DEF q, r
<1>3. f \in Nat /\ nanos_to_micros(f) = r /\ nanos_to_micros(-f) = -r
  BY <1>2, MicrosOfNanos
<1>4. epoch_string(us) = [neg |-> us < 0, whole |-> q, frac |-> f]
  BY DEF epoch_string, Numeral, q, r, n
<1> HIDE DEF f
<1>5. split_seconds(epoch_string(us))
        = [whole |-> IF us < 0 THEN -q ELSE q, nanos |-> IF us < 0 THEN -f ELSE f]
  <2>1. /\ epoch_string(us).neg = (us < 0)
        /\ epoch_string(us).whole = q /\ epoch_string(us).frac = f
    BY <1>4
  <2>2. QED BY <2>1 DEF split_seconds
<1>6. Instant(epoch_string(us))
        = (IF us < 0 THEN -q ELSE q) * Micros + nanos_to_micros(IF us < 0 THEN -f ELSE f)
  BY <1>5 DEF Instant
<1>7. CASE us < 0
  <2>1. Instant(epoch_string(us)) = (-q) * Micros + (-r)
    BY <1>3, <1>6, <1>7
  <2>2. (-q) * Micros + (-r) = -(Micros * q + r)
    BY <1>2
  <2>3. QED BY <1>1, <1>2, <1>7, <2>1, <2>2
<1>8. CASE ~(us < 0)
  <2>1. Instant(epoch_string(us)) = q * Micros + r
    BY <1>3, <1>6, <1>8
  <2>2. QED BY <1>1, <1>2, <1>8, <2>1
<1>9. QED BY <1>7, <1>8

\* The service's numeral of a whole number of microseconds is the test double's.
LEMMA SeenMicros ==
    ASSUME NEW us \in Int
    PROVE  Seen(us * Nanos) = epoch_string(us)
<1> DEFINE n == Abs(us)
           q == n \div Micros
           r == n % Micros
<1>0. n \in Nat /\ Nanos \in Nat /\ Nanos >= 1
  BY Units DEF Abs
<1>1. Abs(us * Nanos) = n * Nanos /\ (us * Nanos < 0 <=> us < 0) /\ n \in Nat
  <2>1. CASE us < 0
    <3>1. (-us) * Nanos >= 1
      BY <1>0, <2>1
    <3>2. us * Nanos = -((-us) * Nanos)
      BY <1>0
    <3>3. us * Nanos < 0
      BY <1>0, <3>1, <3>2
    <3>4. QED BY <1>0, <2>1, <3>2, <3>3 DEF Abs
  <2>2. CASE ~(us < 0)
    <3>1. us * Nanos >= 0
      BY <1>0, <2>2
    <3>2. QED BY <1>0, <2>2, <3>1 DEF Abs
  <2>3. QED BY <2>1, <2>2
<1> HIDE DEF n
<1>2. q \in Int /\ r \in 0..(Micros - 1) /\ n = Micros * q + r
      /\ Micros \in Nat /\ Micros >= 1 /\ Second \in Nat /\ Second >= 1
  BY <1>1, Units, DivMod
<1> HIDE DEF q, r
<1>3. r * Nanos \in 0..(Second - 1) /\ n * Nanos = q * Second + r * Nanos
  <2>1. 0 \in 0..(Nanos - 1)
    BY <1>0
  <2>2. r * Nanos + 0 \in 0..(Micros * Nanos - 1)
        /\ (q * Micros + r) * Nanos + 0 = q * (Micros * Nanos) + (r * Nanos + 0)
    BY <1>0, <1>2, <2>1, Carry
  <2>3. r * Nanos + 0 = r * Nanos /\ (q * Micros + r) * Nanos + 0 = n * Nanos
    BY <1>0, <1>2
  <2>4. QED BY <2>2, <2>3 DEF Second
<1>4. (n * Nanos) \div Second = q /\ ((n * Nanos) % Second) = r * Nanos
  <2> DEFINE m == n * Nanos
             f == r * Nanos
  <2>1. m \in Int /\ f \in 0..(Second - 1) /\ m = q * Second + f
    BY <1>0, <1>1, <1>3
  <2> HIDE DEF m, f
  <2>2. m \div Second = q /\ (m % Second) = f
    BY <1>2, <2>1, DivUnique
  <2>3. QED BY <2>2 DEF m, f
<1>5. Seen(us * Nanos) = [neg |-> us < 0, whole |-> q, frac |-> r * Nanos]
  <2> DEFINE m == us * Nanos
  <2> HIDE DEF m
  <2>1. Seen(m) = [neg |-> m < 0, whole |-> Abs(m) \div Second, frac |-> Abs(m) % Second]
    BY DEF Seen, Numeral
  <2>2. Abs(m) = n * Nanos /\ (m < 0 <=> us < 0) /\ (m < 0) \in BOOLEAN /\ (us < 0) \in BOOLEAN
    BY <1>1 DEF m
  <2>3. (m < 0) = (us < 0)
    BY <2>2
  <2>4. QED BY <1>4, <2>1, <2>2, <2>3 DEF m
<1>6. epoch_string(us) = [neg |-> us < 0, whole |-> q, frac |-> r * Nanos]
  BY DEF epoch_string, Numeral, q, r, n
<1>7. QED BY <1>5, <1>6

\* _epoch_nanos() puts the parts of a timedelta together again.
LEMMA EpochNanosExact ==
    ASSUME NEW us \in Int
    PROVE  epoch_nanos(us) = us * Nanos
<1> DEFINE D == Day * Micros
           days == us \div D
           rest == us % D
           seconds == rest \div Micros
           micros == rest % Micros
<1>1. /\ Nanos \in Nat /\ Micros \in Nat /\ Micros >= 1 /\ Day \in Nat /\ Day >= 1
      /\ D \in Nat /\ D >= 1
  <2>1. /\ Nanos \in Nat /\ Micros \in Nat /\ Micros >= 1 /\ Day \in Nat /\ Day >= 1
    BY Units
  <2>2. QED BY <2>1
<1>2. days \in Int /\ rest \in 0..(D - 1) /\ us = D * days + rest
  <2> HIDE DEF D
  <2>1. QED BY <1>1, DivMod
<1> HIDE DEF days, rest
<1>3. seconds \in Int /\ micros \in 0..(Micros - 1) /\ rest = Micros * seconds + micros
  <2>1. rest \in Int
    BY <1>1, <1>2
  <2>2. QED BY <1>1, <2>1, DivMod
<1> HIDE DEF seconds, micros
<1>4. us = (days * Day + seconds) * Micros + micros
  <2>1. D * days = (days * Day) * Micros
    BY <1>1, <1>2
  <2> HIDE DEF D
  <2>2. (days * Day + seconds) * Micros = (days * Day) * Micros + Micros * seconds
    BY <1>1, <1>2, <1>3
  <2>3. days * Day \in Int /\ (days * Day) * Micros \in Int /\ Micros * seconds \in Int
    BY <1>1, <1>2, <1>3
  <2>4. QED BY <1>1, <1>2, <1>3, <2>1, <2>2, <2>3
<1>5. us % Micros = micros
  <2> DEFINE q == days * Day + seconds
  <2>1. q \in Int
    BY <1>1, <1>2, <1>3
  <2>2. us = q * Micros + micros
    BY <1>4
  <2> HIDE DEF q
  <2>3. QED BY <1>1, <1>3, <2>1, <2>2, DivUnique
<1>6. Delta(us) = [days |-> days, seconds |-> seconds, microseconds |-> micros]
  BY <1>5 DEF Delta, days, seconds, rest
<1>7. epoch_nanos(us) = (days * Day + seconds) * Second + micros * Nanos
  <2>1. Delta(us).days = days /\ Delta(us).seconds = seconds /\ Delta(us).microseconds = micros
    BY <1>6
  <2>2. QED BY <2>1 DEF epoch_nanos
<1>8. us * Nanos = (days * Day + seconds) * Second + micros * Nanos
  <2> DEFINE q == days * Day + seconds
  <2>1. q \in Int /\ us = q * Micros + micros
    BY <1>1, <1>2, <1>3, <1>4
  <2> HIDE DEF q
  <2>2. (q * Micros + micros) * Nanos = (q * Micros) * Nanos + micros * Nanos
    BY <1>1, <1>3, <2>1
  <2>3. (q * Micros) * Nanos = q * (Micros * Nanos)
    BY <1>1, <2>1
  <2>4. QED BY <2>1, <2>2, <2>3 DEF Second, q
<1>9. QED BY <1>7, <1>8

\* A timestamp comes back as it was, registered or bound.
LEMMA TimestampBack ==
    ASSUME NEW us \in Int
    PROVE  /\ Instant(epoch_string(us)) = us
           /\ Instant(Seen(epoch_nanos(us))) = us
BY InstantOfString, SeenMicros, EpochNanosExact

\* Numerals, and their size in nanoseconds.
NumeralOf == [neg : BOOLEAN, whole : Nat, frac : 0..(Second - 1)]

Size(t) == t.whole * Second + t.frac

\* The size of a numeral is a whole number of nanoseconds, and what is kept of it are
\* the whole microseconds of that size.
LEMMA Kept ==
    ASSUME NEW t \in NumeralOf
    PROVE  /\ Size(t) \in Nat
           /\ Exact(t) = IF t.neg THEN -Size(t) ELSE Size(t)
           /\ Instant(t) = IF t.neg THEN -(Size(t) \div Nanos) ELSE Size(t) \div Nanos
           /\ Size(t) \div Nanos \in Nat
<1> DEFINE w == t.whole
           f == t.frac
           q == f \div Nanos
           r == f % Nanos
           n == w * Second + f
<1>1. /\ t.neg \in BOOLEAN /\ w \in Nat /\ f \in Nat
      /\ Nanos \in Nat /\ Nanos >= 1 /\ Micros \in Nat /\ Second \in Nat
  BY Units DEF NumeralOf
<1> HIDE DEF w, f
<1>2. /\ q \in Int /\ r \in 0..(Nanos - 1) /\ f = Nanos * q + r
  BY <1>1, DivMod
<1> HIDE DEF q, r
<1>3. q \in Nat
  <2>1. q < 0 => Nanos * q <= -Nanos
    BY <1>1, <1>2
  <2>2. QED BY <1>1, <1>2, <2>1
<1>4. n \in Nat /\ n = (w * Micros + q) * Nanos + r /\ w * Micros + q \in Nat
  <2>1. w * Second = (w * Micros) * Nanos
    BY <1>1 DEF Second
  <2>2. w * Micros \in Nat /\ w * Second \in Nat
    BY <1>1
  <2>3. (w * Micros + q) * Nanos = (w * Micros) * Nanos + Nanos * q
    BY <1>1, <1>3, <2>2
  <2>4. QED BY <1>1, <1>2, <1>3, <2>1, <2>2, <2>3
<1>5. n \div Nanos = w * Micros + q
  <2> DEFINE m == w * Micros + q
  <2>1. m \in Nat /\ n = m * Nanos + r /\ n \in Nat
    BY <1>4
  <2> HIDE DEF m, n
  <2>2. n \div Nanos = m
    BY <1>1, <1>2, <2>1, DivUnique
  <2>3. QED BY <2>2 DEF m
<1>6. Size(t) = n
  BY DEF Size, w, f
<1> HIDE DEF n
<1>7. Exact(t) = IF t.neg THEN -n ELSE n
  <2>1. Exact(t) = (IF t.neg THEN -1 ELSE 1) * n
    BY <1>6 DEF Exact, Size
  <2>2. (-1) * n = -n /\ 1 * n = n
    BY <1>4
  <2>3. QED BY <1>1, <2>1, <2>2
<1>8. Instant(t) = IF t.neg THEN -(w * Micros + q) ELSE w * Micros + q
  <2>1. nanos_to_micros(f) = q
    BY <1>1 DEF nanos_to_micros, q
  <2>2. nanos_to_micros(-f) = -q
    <3>1. CASE f = 0
      <4>1. q = 0
        <5>1. 0 = 0 * Nanos + 0 /\ 0 \in 0..(Nanos - 1)
          BY <1>1
        <5>2. 0 \div Nanos = 0
          BY <1>1, <5>1, DivUnique
        <5>3. QED BY <3>1, <5>2 DEF q
      <4>2. 0 - f = f /\ 0 - q = q
        BY <1>1, <3>1, <4>1
      <4>3. -f = 0 - f /\ -q = 0 - q
        BY <1>1, <1>3, Negated
      <4>4. QED BY Zenon, <2>1, <4>2, <4>3
    <3>2. CASE f # 0
      <4>1. ~(-f >= 0) /\ -(-f) = f
        BY <1>1, <3>2
      <4>2. QED BY <4>1 DEF nanos_to_micros, q
    <3>3. QED BY <3>1, <3>2
  <2>3. Instant(t) = (IF t.neg THEN -w ELSE w) * Micros
                       + nanos_to_micros(IF t.neg THEN -f ELSE f)
    BY DEF Instant, split_seconds, w, f
  <2>4. (-w) * Micros + (-q) = -(w * Micros + q)
    BY <1>1, <1>3
  <2>5. CASE t.neg
    BY <2>2, <2>3, <2>4, <2>5
  <2>6. CASE ~t.neg
    BY <2>1, <2>3, <2>6
  <2>7. QED BY <2>5, <2>6
<1>9. QED BY <1>4, <1>5, <1>6, <1>7, <1>8

\* Decoding a timestamp loses less than a microsecond of its distance from the epoch.
LEMMA Truncated ==
    ASSUME NEW t \in NumeralOf
    PROVE  /\ Abs(Exact(t) - Instant(t) * Nanos) < Nanos
           /\ Abs(Instant(t) * Nanos) <= Abs(Exact(t))
<1> DEFINE n == Size(t)
           q == n \div Nanos
           r == n % Nanos
<1>1. /\ n \in Nat /\ q \in Nat
      /\ Exact(t) = IF t.neg THEN -n ELSE n
      /\ Instant(t) = IF t.neg THEN -q ELSE q
  BY Kept
<1> HIDE DEF n
<1>2. r \in 0..(Nanos - 1) /\ n = Nanos * q + r /\ Nanos \in Nat /\ Nanos >= 1
  BY <1>1, Units, DivMod
<1> HIDE DEF q, r
<1> DEFINE k == q * Nanos
<1>3. k \in Nat /\ n = k + r /\ (-q) * Nanos = -k
  BY <1>1, <1>2
<1>4. Instant(t) * Nanos = IF t.neg THEN -k ELSE k
  BY <1>1, <1>3
<1> HIDE DEF k
<1>5. CASE t.neg
  <2>1. Exact(t) = -n /\ Instant(t) * Nanos = -k
    BY <1>1, <1>4, <1>5
  <2>2. Abs(-n - (-k)) = r /\ Abs(-k) = k /\ Abs(-n) = n
    BY <1>1, <1>2, <1>3 DEF Abs
  <2>3. QED BY <1>1, <1>2, <1>3, <2>1, <2>2
<1>6. CASE ~t.neg
  <2>1. Exact(t) = n /\ Instant(t) * Nanos = k
    BY <1>1, <1>4, <1>6
  <2>2. Abs(n - k) = r /\ Abs(k) = k /\ Abs(n) = n
    BY <1>1, <1>2, <1>3 DEF Abs
  <2>3. QED BY <1>1, <1>2, <1>3, <2>1, <2>2
<1>7. QED BY <1>5, <1>6

\* Nor does it turn two timestamps round.
LEMMA Ordered ==
    ASSUME NEW s \in NumeralOf, NEW t \in NumeralOf, Exact(s) <= Exact(t)
    PROVE  Instant(s) <= Instant(t)
<1> DEFINE m == Size(s)
           n == Size(t)
           p == m \div Nanos
           q == n \div Nanos
<1>1. /\ m \in Nat /\ p \in Nat
      /\ Exact(s) = IF s.neg THEN -m ELSE m
      /\ Instant(s) = IF s.neg THEN -p ELSE p
  BY Kept
<1>2. /\ n \in Nat /\ q \in Nat
      /\ Exact(t) = IF t.neg THEN -n ELSE n
      /\ Instant(t) = IF t.neg THEN -q ELSE q
  BY Kept
<1> HIDE DEF m, n
<1>3. m <= n => p <= q
  BY <1>1, <1>2, Units, DivMonotone
<1>4. n <= m => q <= p
  BY <1>1, <1>2, Units, DivMonotone
<1>5. m = n => p = q
  OBVIOUS
<1> HIDE DEF p, q
<1>6. CASE s.neg /\ t.neg
  BY <1>1, <1>2, <1>4, <1>6
<1>7. CASE s.neg /\ ~t.neg
  BY <1>1, <1>2, <1>7
<1>8. CASE ~s.neg /\ ~t.neg
  BY <1>1, <1>2, <1>3, <1>8
<1>9. CASE ~s.neg /\ t.neg
  <2>1. m = 0 /\ n = 0
    BY <1>1, <1>2, <1>9
  <2>2. p = 0 /\ q = 0
    <3>1. 0 = 0 * Nanos + 0 /\ 0 \in 0..(Nanos - 1) /\ Nanos \in Nat /\ Nanos >= 1
      BY Units
    <3>2. 0 \div Nanos = 0
      BY <3>1, DivUnique
    <3>3. QED BY <2>1, <3>2 DEF p, q
  <2>3. QED BY <1>1, <1>2, <1>9, <2>2
<1>10. QED BY <1>6, <1>7, <1>8, <1>9

-----------------------------------------------------------------------------
(* Times of day, dates, offsets and numbers.                                *)

Splits(n, d, q, r) ==
    d \in Nat /\ d >= 1 /\ q \in Int /\ r \in 0..(d - 1) /\ n = q * d + r

\* A quotient and a remainder are what div and mod return.
LEMMA SplitsOnce ==
    ASSUME NEW n, NEW d, NEW q, NEW r, Splits(n, d, q, r)
    PROVE  n \div d = q /\ (n % d) = r
<1>1. d \in Nat /\ d >= 1 /\ q \in Int /\ r \in 0..(d - 1) /\ n = q * d + r
  BY DEF Splits
<1>2. n \in Int
  BY <1>1
<1>3. QED BY <1>1, <1>2, DivUnique

\* Seconds since midnight.
Since(h, m, s) == (h * Minutes + m) * Seconds + s

\* The fields of a time of day, from the seconds since midnight.
LEMMA FieldsOfDay ==
    ASSUME NEW h \in 0..(Hours - 1), NEW m \in 0..(Minutes - 1), NEW s \in 0..(Seconds - 1),
           NEW n, n = Since(h, m, s)
    PROVE  /\ n \in Nat /\ n < Day
           /\ (n \div (Minutes * Seconds)) % Hours = h
           /\ (n % (Minutes * Seconds)) \div Seconds = m
           /\ (n % (Minutes * Seconds)) % Seconds = s
<1> DEFINE d == Minutes * Seconds
           k == m * Seconds + s
           i == h * Minutes + m
<1>1. /\ Seconds \in Nat /\ Seconds >= 1 /\ Minutes \in Nat /\ Minutes >= 1
      /\ Hours \in Nat /\ Hours >= 1
  BY Units
<1>2. d \in Nat /\ d >= 1
  BY <1>1
<1>3. k \in 0..(d - 1) /\ i * Seconds + s = h * d + k
  BY <1>1, Carry
<1>4. i \in 0..(Hours * Minutes - 1)
  BY <1>1, Carry
<1>5. i * Seconds + s \in 0..(Hours * Minutes * Seconds - 1)
  <2> DEFINE b == Hours * Minutes
  <2>1. b \in Nat /\ b >= 1 /\ i \in 0..(b - 1)
    BY <1>1, <1>4
  <2> HIDE DEF b, i
  <2>2. i * Seconds + s \in 0..(b * Seconds - 1)
    BY <1>1, <2>1, Carry
  <2>3. QED BY <2>2 DEF b
<1>6. n \in Nat /\ n < Day
  <2>1. n = i * Seconds + s
    BY DEF Since
  <2> HIDE DEF i
  <2>2. Day \in Nat /\ n \in 0..(Day - 1)
    BY <1>5, <2>1, Units DEF Day
  <2>3. QED BY <2>2
<1>7. n = h * d + k
  BY <1>3 DEF Since
<1>8. h \in Int /\ 0 \in Int /\ m \in Int /\ h = 0 * Hours + h
  BY <1>1
<1>9. n \div d = h /\ (n % d) = k
  <2> HIDE DEF d, k, i
  <2>1. k \in 0..(d - 1)
    BY <1>3
  <2>2. Splits(n, d, h, k)
    BY <1>2, <1>7, <1>8, <2>1 DEF Splits
  <2>3. QED BY Zenon, <2>2, SplitsOnce
<1>10. (h % Hours) = h
  <2>1. Splits(h, Hours, 0, h)
    BY <1>1, <1>8 DEF Splits
  <2>2. QED BY Zenon, <2>1, SplitsOnce
<1>11. k \div Seconds = m /\ (k % Seconds) = s
  <2>1. Splits(k, Seconds, m, s)
    BY <1>1, <1>8 DEF Splits
  <2>2. QED BY Zenon, <2>1, SplitsOnce
<1> HIDE DEF d, k
<1>12. QED BY <1>6, <1>9, <1>10, <1>11 DEF d

\* What decode_time() makes of a time of day's numeral.
LEMMA TimeDecoded ==
    ASSUME NEW h \in 0..(Hours - 1), NEW m \in 0..(Minutes - 1), NEW s \in 0..(Seconds - 1),
           NEW us \in 0..(Micros - 1), NEW n, n = Since(h, m, s)
    PROVE  decode_time(Numeral(FALSE, n, us * Nanos)) = Time(h, m, s, us)
<1> DEFINE t == Numeral(FALSE, n, us * Nanos)
<1>1. /\ (n \div (Minutes * Seconds)) % Hours = h
      /\ (n % (Minutes * Seconds)) \div Seconds = m
      /\ (n % (Minutes * Seconds)) % Seconds = s
  BY FieldsOfDay
<1>2. nanos_to_micros(us * Nanos) = us
  <2>1. us \in Nat
    OBVIOUS
  <2>2. QED BY <2>1, MicrosOfNanos
<1>3. split_seconds(t).whole = n /\ split_seconds(t).nanos = us * Nanos
  BY DEF split_seconds, Numeral
<1> HIDE DEF t
<1>4. decode_time(t) = Time((n \div (Minutes * Seconds)) % Hours,
                            (n % (Minutes * Seconds)) \div Seconds,
                            (n % (Minutes * Seconds)) % Seconds,
                            nanos_to_micros(us * Nanos))
  BY <1>3 DEF decode_time
<1>5. QED BY <1>1, <1>2, <1>4 DEF t

\* The numeral the service makes of a bound time of day is the test double's.
LEMMA TimeSeen ==
    ASSUME NEW n \in Nat, NEW us \in 0..(Micros - 1)
    PROVE  Seen(n * Second + us * Nanos) = Numeral(FALSE, n, us * Nanos)
<1> DEFINE k == n * Micros + us
<1>1. Nanos \in Nat /\ Micros \in Nat /\ Micros >= 1
  BY Units
<1>2. k \in Nat
  BY <1>1
<1>3. k * Nanos = n * Second + us * Nanos
  <2>1. n * Second = (n * Micros) * Nanos /\ n * Micros \in Nat
    BY <1>1 DEF Second
  <2>2. (n * Micros + us) * Nanos = (n * Micros) * Nanos + us * Nanos
    BY <1>1, <2>1
  <2>3. QED BY <2>1, <2>2
<1>4. k \div Micros = n /\ (k % Micros) = us
  <2>1. k = n * Micros + us
    OBVIOUS
  <2> HIDE DEF k
  <2>2. QED BY <1>1, <1>2, <2>1, DivUnique
<1> HIDE DEF k
<1>5. Abs(k) = k /\ (k < 0) = FALSE
  BY <1>2 DEF Abs
<1>6. epoch_string(k) = Numeral(FALSE, n, us * Nanos)
  BY Zenon, <1>4, <1>5 DEF epoch_string
<1>7. Seen(k * Nanos) = epoch_string(k)
  BY <1>2, SeenMicros
<1>8. QED BY <1>3, <1>6, <1>7

\* The milliseconds of a bound date are a whole number of days.
LEMMA DateSeen ==
    ASSUME NEW days \in Int
    PROVE  (days * Day * Millis) \div (Day * Millis) = days
<1> DEFINE d == Day * Millis
           n == days * d
<1>1. Day \in Nat /\ Day >= 1 /\ Millis \in Nat /\ Millis >= 1
  BY Units
<1>2. d \in Nat /\ d >= 1
  BY <1>1
<1>3. days * Day * Millis = n
  BY <1>1
<1> HIDE DEF d
<1>4. n \in Int /\ n = days * d + 0 /\ 0 \in 0..(d - 1)
  BY <1>2
<1> HIDE DEF n
<1>5. n \div d = days
  BY <1>2, <1>4, DivUnique
<1>6. QED BY <1>3, <1>5 DEF d

\* Minutes that stand for an offset.
CloseTo(minutes, offset) ==
    /\ minutes \in Int
    /\ Abs(minutes) < Hours * Minutes
    /\ Abs(offset - minutes * Seconds) < Seconds
    /\ (offset % Seconds) = 0 => offset = minutes * Seconds

\* The minutes of an offset that leaves a minute to the end of the day, rounded down or to
\* the nearest, are less than a day and within a minute of it, and exact for whole minutes.
LEMMA OffsetMinutes ==
    ASSUME NEW offset \in Int, Abs(offset) <= Day - Seconds
    PROVE  /\ CloseTo(offset \div Seconds, offset)
           /\ CloseTo(RoundHalfEven(offset, Seconds), offset)
<1> DEFINE q == offset \div Seconds
           r == offset % Seconds
           b == Hours * Minutes
<1>1. Seconds \in Nat /\ Seconds >= 1 /\ b \in Nat /\ b >= 1 /\ Day = b * Seconds
  <2>1. Hours \in Nat /\ Hours >= 1 /\ Minutes \in Nat /\ Minutes >= 1
        /\ Seconds \in Nat /\ Seconds >= 1
    BY Units
  <2>2. QED BY <2>1 DEF Day
<1>2. q \in Int /\ r \in 0..(Seconds - 1) /\ offset = Seconds * q + r
  BY <1>1, DivMod
<1> HIDE DEF q, r, b
<1>3. q >= -(b - 1) /\ q <= b - 1 /\ (q = b - 1 => r = 0)
  <2>1. offset <= b * Seconds - Seconds /\ -offset <= b * Seconds - Seconds
    <3>1. b * Seconds \in Int
      BY <1>1
    <3>2. QED BY <1>1, <3>1 DEF Abs
  <2>2. b * Seconds - Seconds = Seconds * (b - 1)
    BY <1>1
  <2>3. Seconds * q + r <= Seconds * (b - 1) /\ Seconds * q + r >= -(Seconds * (b - 1))
    <3>1. Seconds * (b - 1) \in Int /\ Seconds * q \in Int
      BY <1>1, <1>2
    <3>2. QED BY <1>1, <1>2, <2>1, <2>2, <3>1
  <2>4. CASE q >= b
    <3>1. Seconds * q >= Seconds * b /\ Seconds * (b - 1) = Seconds * b - Seconds
      BY <1>1, <1>2, <2>4
    <3>2. QED BY <1>1, <1>2, <2>3, <3>1
  <2>5. CASE q <= -b
    <3>1. Seconds * q <= Seconds * (-b) /\ Seconds * (-b) = -(Seconds * b)
          /\ Seconds * (b - 1) = Seconds * b - Seconds
      BY <1>1, <1>2, <2>5
    <3>2. Seconds * b \in Int /\ Seconds * q \in Int
      BY <1>1, <1>2
    <3>3. QED BY <1>1, <1>2, <2>3, <3>1, <3>2
  <2>6. CASE q = b - 1
    <3>1. Seconds * q = Seconds * (b - 1) /\ Seconds * q \in Int
      BY <1>1, <1>2, <2>6
    <3>2. QED BY <1>1, <1>2, <2>3, <2>6, <3>1
  <2>7. QED BY <1>1, <1>2, <2>4, <2>5, <2>6
<1>4. q * Seconds = Seconds * q /\ (q + 1) * Seconds = Seconds * q + Seconds
      /\ Seconds * q \in Int
  BY <1>1, <1>2
<1>5. CloseTo(q, offset)
  <2>1. offset - q * Seconds = r
    BY <1>2, <1>4
  <2>2. Abs(r) < Seconds /\ Abs(q) < b
    BY <1>1, <1>2, <1>3 DEF Abs
  <2>3. r = 0 => offset = q * Seconds
    BY <1>2, <1>4
  <2>4. QED BY <1>2, <2>1, <2>2, <2>3 DEF CloseTo, r, b
<1>6. CASE 2 * r > Seconds \/ (2 * r = Seconds /\ (q % 2) = 1)
  <2>1. r # 0
    BY <1>1, <1>2, <1>6
  <2>2. offset - (q + 1) * Seconds = r - Seconds
    BY <1>1, <1>2, <1>4
  <2>3. Abs(r - Seconds) < Seconds /\ Abs(q + 1) < b
    BY <1>1, <1>2, <1>3, <2>1 DEF Abs
  <2>4. CloseTo(q + 1, offset)
    BY <1>2, <2>1, <2>2, <2>3 DEF CloseTo, r, b
  <2>5. RoundHalfEven(offset, Seconds) = q + 1
    BY <1>6 DEF RoundHalfEven, q, r
  <2>6. QED BY <1>5, <2>4, <2>5 DEF q
<1>7. CASE ~(2 * r > Seconds \/ (2 * r = Seconds /\ (q % 2) = 1))
  <2>1. RoundHalfEven(offset, Seconds) = q
    BY <1>7 DEF RoundHalfEven, q, r
  <2>2. QED BY <1>5, <2>1 DEF q
<1>8. QED BY <1>6, <1>7

-----------------------------------------------------------------------------
(* Values, registered or bound and decoded again.                           *)

\* The fields of a value of each kind.
LEMMA ValueParts ==
    ASSUME NEW v \in Value
    PROVE  /\ v.kind \in {"date", "time", "naive", "aware", "number"}
           /\ v.kind = "date" => v.days \in Int /\ v = [kind |-> "date", days |-> v.days]
           /\ v.kind = "time" =>
                /\ v.hour \in 0..(Hours - 1) /\ v.minute \in 0..(Minutes - 1)
                /\ v.second \in 0..(Seconds - 1) /\ v.microsecond \in 0..(Micros - 1)
                /\ v = Time(v.hour, v.minute, v.second, v.microsecond)
           /\ v.kind = "naive" => v.us \in Int /\ v = Naive(v.us)
           /\ v.kind = "aware" => /\ v.us \in Int /\ v.offset \in Int
                                  /\ v = Aware(v.us, v.offset)
           /\ v.kind = "number" => /\ v.num \in Int /\ v.places \in Int
                                   /\ v = Number(v.num, v.places)
<1>1. CASE v \in [kind : {"date"}, days : Int]
  BY <1>1
<1>2. CASE v \in [kind : {"time"}, hour : 0..(Hours - 1), minute : 0..(Minutes - 1),
                  second : 0..(Seconds - 1), microsecond : 0..(Micros - 1)]
  BY <1>2 DEF Time
<1>3. CASE v \in [kind : {"naive"}, us : Int]
  BY <1>3 DEF Naive
<1>4. CASE v \in [kind : {"aware"}, us : Int, offset : (1 - Day)..(Day - 1)]
  <2>1. Day \in Nat
    BY Units
  <2>2. QED BY <1>4, <2>1 DEF Aware
<1>5. CASE v \in [kind : {"number"}, num : Int, places : Int]
  BY <1>5 DEF Number
<1>6. QED BY <1>1, <1>2, <1>3, <1>4, <1>5 DEF Value

\* A cell is decoded, and to the value.
Back(v, cell, column) ==
    /\ coerce_value(cell, column) # ValueError
    /\ Same(v, coerce_value(cell, column))

\* The cells that hold a value in a column of a type: the test double's and, of a value
\* in its own type, the one that answers a binding of it.
CellsOf(v, type) ==
    {encode_cell(v, type)}
    \cup {c \in {Served(bind_one(v))} :
              v.kind # "number" /\ type = ServedType(bind_one(v))}

\* Dates come back, registered or bound.
LEMMA DateBack ==
    ASSUME NEW v \in Value, v.kind = "date", NEW cell \in CellsOf(v, "date"),
           NEW column, column.type = "date"
    PROVE  Back(v, cell, column)
<1>1. v.days \in Int /\ v = [kind |-> "date", days |-> v.days] /\ v # Null
  BY ValueParts DEF Null
<1>2. encode_cell(v, "date") = [days |-> v.days]
  BY <1>1 DEF encode_cell
<1>3. Served(bind_one(v)) = [days |-> v.days]
  <2>1. bind_one(v) = [type |-> "DATE", value |-> v.days * Day * Millis]
    BY DEF bind_one, IsDatetime
  <2>2. Served(bind_one(v)) = [days |-> (v.days * Day * Millis) \div (Day * Millis)]
    BY <2>1 DEF Served
  <2>3. QED BY <1>1, <2>2, DateSeen
<1>4. cell = [days |-> v.days]
  BY <1>2, <1>3 DEF CellsOf
<1>5. coerce_value(cell, column) = [kind |-> "date", days |-> v.days]
  BY <1>4 DEF coerce_value, Null
<1>6. QED BY <1>1, <1>5 DEF Back, Same, ValueError

\* Times of day come back to the microsecond.
LEMMA TimeBack ==
    ASSUME NEW v \in Value, v.kind = "time", NEW cell \in CellsOf(v, "time"),
           NEW column, column.type = "time"
    PROVE  Back(v, cell, column)
<1> DEFINE n == SecondsOfDay(v)
           t == Numeral(FALSE, n, v.microsecond * Nanos)
<1>1. /\ v.hour \in 0..(Hours - 1) /\ v.minute \in 0..(Minutes - 1)
      /\ v.second \in 0..(Seconds - 1) /\ v.microsecond \in 0..(Micros - 1)
      /\ v = Time(v.hour, v.minute, v.second, v.microsecond) /\ v # Null
  BY ValueParts DEF Null
<1>2. n = Since(v.hour, v.minute, v.second)
  BY DEF SecondsOfDay, Since
<1> HIDE DEF n
<1>3. n \in Nat
  BY <1>1, <1>2, FieldsOfDay
<1>4. decode_time(t) = v
  BY <1>1, <1>2, TimeDecoded
<1>5. encode_cell(v, "time") = At(t)
  <2>1. TimeOf(v) = v
    BY DEF TimeOf
  <2>2. QED BY <1>1, <2>1 DEF encode_cell, n
<1>6. Served(bind_one(v)) = At(t)
  <2>1. bind_one(v) = [type |-> "TIME", value |-> n * Second + v.microsecond * Nanos]
    BY DEF bind_one, IsDatetime, n
  <2>2. Served(bind_one(v)) = At(Seen(n * Second + v.microsecond * Nanos))
    BY <2>1 DEF Served
  <2>3. QED BY <1>1, <1>3, <2>2, TimeSeen
<1> HIDE DEF t
<1>7. cell = At(t)
  BY <1>5, <1>6 DEF CellsOf
<1>8. coerce_value(cell, column) = v
  BY <1>4, <1>7 DEF coerce_value, Null, At
<1>9. QED BY <1>8 DEF Back, Same, ValueError

\* A quotient of less than b * d by d.
LEMMA QuotientBelow ==
    ASSUME NEW d \in Nat, d >= 1, NEW b \in Nat, NEW n \in Nat, n < b * d
    PROVE  n \div d \in 0..(b - 1)
<1> DEFINE q == n \div d
           r == n % d
<1>1. q \in Int /\ r \in 0..(d - 1) /\ n = d * q + r
  BY DivMod
<1> HIDE DEF q, r
<1>2. CASE q >= b
  <2>1. d * q >= d * b /\ d * b = b * d /\ d * q \in Int
    BY <1>1, <1>2
  <2>2. QED BY <1>1, <2>1
<1>3. CASE q <= -1
  <2>1. d * q <= d * (-1) /\ d * (-1) = -d /\ d * q \in Int
    BY <1>1, <1>3
  <2>2. QED BY <1>1, <2>1
<1>4. QED BY <1>1, <1>2, <1>3 DEF q

\* The wall clock of a datetime has a time of day.
LEMMA ClockFields ==
    ASSUME NEW v \in Value, IsDatetime(v)
    PROVE  WallClock(v) \in Int /\ TimeOf(v) \in Value /\ TimeOf(v).kind = "time"
<1> DEFINE w == WallClock(v)
           d == Minutes * Seconds
           n == (w % (Day * Micros)) \div Micros
           us == w % Micros
           left == n % d
<1>1. /\ Seconds \in Nat /\ Seconds >= 1 /\ Minutes \in Nat /\ Minutes >= 1
      /\ Hours \in Nat /\ Micros \in Nat /\ Micros >= 1 /\ Day \in Nat /\ Day >= 1
  BY Units
<1>2. w \in Int
  <2>1. v.us \in Int /\ utcoffset(v) \in Int
    BY ValueParts DEF IsDatetime, utcoffset
  <2>2. utcoffset(v) * Micros \in Int
    BY <1>1, <2>1
  <2>3. QED BY <2>1, <2>2 DEF WallClock
<1> HIDE DEF w
<1>3. us \in 0..(Micros - 1)
  BY <1>1, <1>2, DivMod
<1>4. n \in 0..(Day - 1)
  <2> DEFINE e == Day * Micros
             k == w % e
  <2>1. e \in Nat /\ e >= 1
    BY <1>1
  <2> HIDE DEF e
  <2>2. k \in 0..(e - 1)
    BY <1>2, <2>1, DivMod
  <2> HIDE DEF k
  <2>3. k \in Nat /\ k < Day * Micros
    BY <2>1, <2>2 DEF e
  <2>4. k \div Micros \in 0..(Day - 1)
    BY <1>1, <2>3, QuotientBelow
  <2>5. QED BY <2>4 DEF k, e
<1> HIDE DEF n, us
<1>5. d \in Nat /\ d >= 1 /\ Day = Hours * d /\ d = Minutes * Seconds
  BY <1>1 DEF Day
<1> HIDE DEF d
<1>6. n \in Nat /\ n \in Int /\ n < Hours * d
  BY <1>1, <1>4, <1>5
<1>7. n \div d \in 0..(Hours - 1) /\ left \in 0..(d - 1)
  <2>1. n \div d \in 0..(Hours - 1)
    BY Zenon, <1>1, <1>5, <1>6, QuotientBelow
  <2>2. n % d \in 0..(d - 1)
    BY Zenon, <1>5, <1>6, DivMod
  <2>3. QED BY <2>1, <2>2
<1> HIDE DEF left
<1>8. left \div Seconds \in 0..(Minutes - 1) /\ (left % Seconds) \in 0..(Seconds - 1)
  <2>1. left \in Nat /\ left \in Int /\ left < Minutes * Seconds
    BY <1>5, <1>7
  <2>2. left \div Seconds \in 0..(Minutes - 1)
    BY Zenon, <1>1, <2>1, QuotientBelow
  <2>3. (left % Seconds) \in 0..(Seconds - 1)
    BY Zenon, <1>1, <2>1, DivMod
  <2>4. QED BY <2>2, <2>3
<1>9. Time(n \div d, left \div Seconds, left % Seconds, us) \in Value
  BY <1>3, <1>7, <1>8 DEF Value, Time
<1>10. TimeOf(v) = Time(n \div d, left \div Seconds, left % Seconds, us)
  <2>1. v.kind # "time"
    BY DEF IsDatetime
  <2>2. Delta(w).seconds = n /\ Delta(w).microseconds = us
    BY DEF Delta, n, us
  <2>3. QED BY Zenon, <2>1, <2>2 DEF TimeOf, left, d, w
<1>11. QED BY <1>2, <1>9, <1>10 DEF Time, w

\* The time of day of a datetime comes back from a column of times.
LEMMA ClockBack ==
    ASSUME NEW v \in Value, IsDatetime(v), NEW column, column.type = "time"
    PROVE  Back(TimeOf(v), encode_cell(v, "time"), column)
<1> DEFINE w == TimeOf(v)
<1>1. w \in Value /\ w.kind = "time" /\ v # Null
  BY ClockFields DEF IsDatetime, Null
<1>2. w # Null /\ TimeOf(w) = w
  BY <1>1 DEF Null, TimeOf
<1>3. encode_cell(w, "time") = encode_cell(v, "time")
  <2>1. encode_cell(v, "time") = At(Numeral(FALSE, SecondsOfDay(w), w.microsecond * Nanos))
    BY <1>1 DEF encode_cell
  <2>2. encode_cell(w, "time")
          = At(Numeral(FALSE, SecondsOfDay(TimeOf(w)), TimeOf(w).microsecond * Nanos))
    BY <1>2 DEF encode_cell
  <2>3. QED BY <1>2, <2>1, <2>2
<1> HIDE DEF w
<1>4. encode_cell(v, "time") \in CellsOf(w, "time")
  BY <1>3 DEF CellsOf
<1>5. QED BY <1>1, <1>4, TimeBack DEF w

\* A cell with the microseconds since the epoch, by the test double or by the service.
LEMMA StampBack ==
    ASSUME NEW us \in Int, NEW cell \in {At(epoch_string(us)), At(Seen(epoch_nanos(us)))},
           NEW column
    PROVE  /\ column.type = "timestamp_ntz" => coerce_value(cell, column) = Naive(us)
           /\ column.type = "timestamp_ltz" => coerce_value(cell, column) = Aware(us, 0)
<1>1. PICK t \in {epoch_string(us), Seen(epoch_nanos(us))} : cell = At(t)
  OBVIOUS
<1>2. Instant(t) = us
  BY <1>1, TimestampBack
<1>3. QED BY <1>1, <1>2 DEF coerce_value, Null, At

\* Naive datetimes come back, before the epoch and after it.
LEMMA NaiveBack ==
    ASSUME NEW v \in Value, v.kind = "naive", NEW cell \in CellsOf(v, "timestamp_ntz"),
           NEW column, column.type = "timestamp_ntz"
    PROVE  Back(v, cell, column)
<1>1. v.us \in Int /\ v = Naive(v.us) /\ v # Null
  BY ValueParts DEF Null
<1>2. encode_cell(v, "timestamp_ntz") = At(epoch_string(v.us))
  <2>1. WallClock(v) = v.us
    BY <1>1, Units DEF WallClock, utcoffset
  <2>2. QED BY <1>1, <2>1 DEF encode_cell
<1>3. Served(bind_one(v)) = At(Seen(epoch_nanos(v.us)))
  BY DEF bind_one, bind_datetime, IsDatetime, Served
<1>4. cell \in {At(epoch_string(v.us)), At(Seen(epoch_nanos(v.us)))}
  BY <1>2, <1>3 DEF CellsOf
<1>5. coerce_value(cell, column) = Naive(v.us)
  BY <1>1, <1>4, StampBack
<1>6. QED BY <1>1, <1>5 DEF Back, Same, ValueError

\* timezone() takes an offset of less than a day, which the cell counts from a day before.
LEMMA OffsetDecoded ==
    ASSUME NEW t, NEW m \in Int, Abs(m) < Hours * Minutes
    PROVE  decode_timestamp_tz(AtOffset(t, m)) = Aware(Instant(t), m * Seconds)
<1> DEFINE o == m + Hours * Minutes
           c == AtOffset(t, m)
<1>1. o - Hours * Minutes = m
  <2>1. Hours * Minutes \in Int
    BY Units
  <2>2. QED BY <2>1
<1>2. "offset" \in DOMAIN c /\ c.offset = o /\ c.at = t
  BY DEF AtOffset
<1> HIDE DEF o, c
<1>3. decode_timestamp_tz(c) = Aware(Instant(t), m * Seconds)
  BY Zenon, <1>1, <1>2 DEF decode_timestamp_tz
<1>4. QED BY <1>3 DEF c

\* Such a cell in a column of timestamps with a time zone.
LEMMA OffsetBack ==
    ASSUME NEW t, NEW m \in Int, Abs(m) < Hours * Minutes,
           NEW column, column.type = "timestamp_tz"
    PROVE  coerce_value(AtOffset(t, m), column) = Aware(Instant(t), m * Seconds)
<1>1. coerce_value(AtOffset(t, m), column) = decode_timestamp_tz(AtOffset(t, m))
  BY DEF coerce_value, Null, AtOffset
<1>2. QED BY <1>1, OffsetDecoded

\* Aware datetimes come back with their instant, whatever their offset rounds to.
LEMMA AwareBack ==
    ASSUME NEW v \in Value, v.kind = "aware", Abs(v.offset) <= Day - Seconds,
           NEW cell \in CellsOf(v, "timestamp_tz"), NEW column, column.type = "timestamp_tz"
    PROVE  Back(v, cell, column)
<1>1. v.us \in Int /\ v.offset \in Int /\ v = Aware(v.us, v.offset) /\ v # Null
  BY ValueParts DEF Null
<1> DEFINE b == Hours * Minutes
           floor == v.offset \div Seconds
           nearest == RoundHalfEven(v.offset, Seconds)
<1>2. CloseTo(floor, v.offset) /\ CloseTo(nearest, v.offset)
  BY <1>1, OffsetMinutes
<1>3. encode_cell(v, "timestamp_tz") = AtOffset(epoch_string(v.us), floor)
  BY <1>1 DEF encode_cell, utcoffset
<1>4. Served(bind_one(v)) = AtOffset(Seen(epoch_nanos(v.us)), nearest)
  BY DEF bind_one, bind_datetime, IsDatetime, Served, AtOffset
<1> HIDE DEF floor, nearest
<1>5. cell \in {AtOffset(epoch_string(v.us), floor), AtOffset(Seen(epoch_nanos(v.us)), nearest)}
  BY <1>3, <1>4 DEF CellsOf
<1>6. PICK t \in {epoch_string(v.us), Seen(epoch_nanos(v.us))},
           m \in {floor, nearest} : cell = AtOffset(t, m)
  BY <1>5
<1>7. Instant(t) = v.us
  BY <1>1, <1>6, TimestampBack
<1>8. CloseTo(m, v.offset)
  BY <1>2, <1>6
<1>9. coerce_value(cell, column) = Aware(v.us, m * Seconds)
  <2>1. m \in Int /\ Abs(m) < b
    BY <1>8 DEF CloseTo
  <2>2. QED BY <1>6, <1>7, <2>1, OffsetBack
<1>10. Same(v, Aware(v.us, m * Seconds))
  BY <1>1, <1>8 DEF Same, CloseTo, Aware
<1>11. QED BY <1>9, <1>10 DEF Back, Aware, ValueError

\* A datetime in a column of a type that is not its own keeps its wall clock in
\* timestamp_ntz and its instant in the other two.
LEMMA Converted ==
    ASSUME NEW v \in Value, IsDatetime(v), NEW column,
           \/ column.type = "timestamp_ltz"
           \/ column.type = "timestamp_ntz" /\ v.kind = "aware"
           \/ column.type = "timestamp_tz" /\ v.kind = "naive"
    PROVE  Back(InColumn(v, column.type), encode_cell(v, column.type), column)
<1>1. v.us \in Int /\ v # Null /\ v.kind \in {"naive", "aware"}
  BY ValueParts DEF IsDatetime, Null
<1>2. ASSUME NEW us \in Int PROVE Same(Naive(us), Naive(us)) /\ Same(Aware(us, 0), Aware(us, 0))
  <2>1. Abs(0 - 0) < Seconds /\ Naive(us).kind = "naive"
        /\ Aware(us, 0).kind = "aware" /\ Aware(us, 0).offset = 0
    BY Units DEF Abs, Naive, Aware
  <2>2. QED BY <2>1 DEF Same
<1>3. \A us : Naive(us) # ValueError /\ Aware(us, 0) # ValueError
  BY DEF Naive, Aware, ValueError
<1>4. CASE column.type = "timestamp_ltz"
  <2>1. encode_cell(v, column.type) = At(epoch_string(v.us))
    BY <1>1, <1>4 DEF encode_cell
  <2>2. coerce_value(encode_cell(v, column.type), column) = Aware(v.us, 0)
    BY <1>1, <1>4, <2>1, StampBack
  <2>3. InColumn(v, column.type) = Aware(v.us, 0)
    BY <1>1, <1>4 DEF InColumn
  <2>4. QED BY <1>1, <1>2, <1>3, <2>2, <2>3 DEF Back
<1>5. CASE column.type = "timestamp_ntz" /\ v.kind = "aware"
  <2>1. encode_cell(v, column.type) = At(epoch_string(WallClock(v))) /\ WallClock(v) \in Int
    BY <1>1, <1>5, ClockFields DEF encode_cell
  <2>2. coerce_value(encode_cell(v, column.type), column) = Naive(WallClock(v))
    BY <1>5, <2>1, StampBack
  <2>3. InColumn(v, column.type) = Naive(WallClock(v))
    BY <1>5 DEF InColumn, WallClock, utcoffset, IsDatetime
  <2>4. QED BY <1>2, <1>3, <2>1, <2>2, <2>3 DEF Back
<1>6. CASE column.type = "timestamp_tz" /\ v.kind = "naive"
  <2>1. 0 \div Seconds = 0 /\ Abs(0) < Hours * Minutes /\ 0 * Seconds = 0
    BY Units DEF Abs
  <2>2. encode_cell(v, column.type) = AtOffset(epoch_string(v.us), 0)
    BY <1>1, <1>6, <2>1 DEF encode_cell, utcoffset
  <2>3. Instant(epoch_string(v.us)) = v.us
    BY <1>1, TimestampBack
  <2>4. coerce_value(encode_cell(v, column.type), column) = Aware(v.us, 0)
    BY <1>6, <2>1, <2>2, <2>3, OffsetBack
  <2>5. InColumn(v, column.type) = Aware(v.us, 0)
    BY <1>6 DEF InColumn
  <2>6. QED BY <1>1, <1>2, <1>3, <2>4, <2>5 DEF Back
<1>7. QED BY <1>4, <1>5, <1>6

\* A number that goes into the column's decimals.
LEMMA NumberBack ==
    ASSUME NEW v \in Value, v.kind = "number", NEW column, column.type = "fixed",
           column.scale \in {NoScale, 0} => v.places <= 0
    PROVE  Back(v, encode_cell(v, "fixed"), column)
<1> DEFINE d == Digits(v)
           num == v.num * 10^(d - v.places)
<1>1. v.num \in Int /\ v.places \in Int /\ v = Number(v.num, v.places) /\ v # Null
  BY ValueParts DEF Null
<1>2. d \in Nat /\ d - v.places \in Nat
  BY <1>1 DEF Digits
<1>3. encode_cell(v, "fixed") = Fixed(num, d)
  BY <1>1 DEF encode_cell
<1>4. coerce_value(encode_cell(v, "fixed"), column) = decode_fixed(Fixed(num, d), column.scale)
  BY <1>3 DEF coerce_value, Null, Fixed
<1>5. column.scale \in {NoScale, 0} => d = 0
  BY <1>1 DEF Digits
<1> HIDE DEF d
<1>6. num \in Int
  BY <1>1, <1>2
<1>7. decode_fixed(Fixed(num, d), column.scale) = Number(num, d)
  <2> HIDE DEF num
  <2>1. Fixed(num, d) # Words
    BY DEF Fixed, Words
  <2>2. QED BY <1>5, <2>1 DEF decode_fixed, Fixed
<1>8. Same(v, Number(num, d))
  <2>1. Digits(Number(num, d)) = d
    BY <1>2 DEF Digits, Number
  <2>2. 10^(d - d) = 1
    BY <1>2
  <2>3. v.num * 10^d * 10^(d - v.places) = num * 10^d * 10^(d - d)
    <3> DEFINE x == 10^d
               y == 10^(d - v.places)
    <3>1. x \in Int /\ y \in Int
      BY <1>2
    <3> HIDE DEF x, y
    <3>2. v.num * x * y = v.num * y * x * 1
      BY <1>1, <3>1
    <3>3. QED BY <2>2, <3>2 DEF x, y
  <2>4. Number(num, d).kind = "number" /\ Number(num, d).num = num /\ Number(num, d).places = d
    BY DEF Number
  <2> HIDE DEF num
  <2>5. QED BY <2>1, <2>3, <2>4 DEF Same, d
<1>9. QED BY <1>4, <1>7, <1>8 DEF Back, Number, ValueError

\* None comes back from a column of any type.
LEMMA NullBack ==
    ASSUME NEW column
    PROVE  Back(InColumn(Null, column.type), encode_cell(Null, column.type), column)
<1>1. encode_cell(Null, column.type) = Null
  BY DEF encode_cell, Null
<1>2. coerce_value(Null, column) = Null
  BY DEF coerce_value
<1>3. InColumn(Null, column.type) = Null
  BY DEF InColumn, IsDatetime, Null
<1>4. QED BY <1>1, <1>2, <1>3 DEF Back, Same, Null, ValueError

\* A value that is not null in a column of a type that has a cell for it.
LEMMA EncodedBack ==
    ASSUME NEW v \in Value, NEW column, Encodes(v, column.type),
           column.type = "fixed" =>
               v.kind = "number" /\ (column.scale \in {NoScale, 0} => v.places <= 0),
           column.type = "timestamp_tz" /\ v.kind = "aware" => Abs(v.offset) <= Day - Seconds
    PROVE  Back(InColumn(v, column.type), encode_cell(v, column.type), column)
<1>1. v # Null /\ encode_cell(v, column.type) \in CellsOf(v, column.type)
  BY ValueParts DEF Null, CellsOf
<1>2. CASE column.type = "fixed"
  <2>1. InColumn(v, column.type) = v
    BY <1>2 DEF InColumn, IsDatetime
  <2>2. Back(v, encode_cell(v, "fixed"), column)
    BY <1>2, NumberBack
  <2>3. QED BY <1>2, <2>1, <2>2
<1>3. CASE column.type \in {"date", "time"} /\ v.kind = column.type
  <2>1. InColumn(v, column.type) = v
    BY <1>3 DEF InColumn, IsDatetime
  <2>2. CASE column.type = "date"
    BY <1>1, <1>3, <2>1, <2>2, DateBack
  <2>3. CASE column.type = "time"
    BY <1>1, <1>3, <2>1, <2>3, TimeBack
  <2>4. QED BY <1>3, <2>2, <2>3
<1>4. CASE column.type = "time" /\ IsDatetime(v)
  <2>1. InColumn(v, column.type) = TimeOf(v)
    BY <1>4 DEF InColumn, IsDatetime
  <2>2. QED BY <1>4, <2>1, ClockBack
<1>5. CASE column.type = "timestamp_ntz" /\ v.kind = "naive"
  <2>1. InColumn(v, column.type) = v
    BY <1>5 DEF InColumn, IsDatetime
  <2>2. QED BY <1>1, <1>5, <2>1, NaiveBack
<1>6. CASE column.type = "timestamp_tz" /\ v.kind = "aware"
  <2>1. InColumn(v, column.type) = v
    BY <1>6 DEF InColumn, IsDatetime
  <2>2. QED BY <1>1, <1>6, <2>1, AwareBack
<1>7. CASE /\ IsDatetime(v)
           /\ \/ column.type = "timestamp_ltz"
              \/ column.type = "timestamp_ntz" /\ v.kind = "aware"
              \/ column.type = "timestamp_tz" /\ v.kind = "naive"
  BY <1>7, Converted
<1>8. QED BY <1>1, <1>2, <1>3, <1>4, <1>5, <1>6, <1>7 DEF Encodes, TimeTypes, IsDatetime

-----------------------------------------------------------------------------
(* Columns.                                                                 *)

\* The column, its type and its cells after register(), after bind() and after serve().
Registered(values, column, raw) ==
    /\ values \in Seq(Value \cup {Null})
    /\ \A i \in DOMAIN values : Encodes(values[i], column.type)
    /\ raw = [i \in DOMAIN values |-> encode_cell(values[i], column.type)]

Bound(values, column, raw) ==
    \E v \in Value :
        /\ v.kind # "number"
        /\ values = <<v>>
        /\ column.type = ServedType(bind_one(v))
        /\ raw = <<Served(bind_one(v))>>

ServedTwo(values, column, raw) ==
    /\ values = <<>>
    /\ \E s, t \in NumeralOf : raw \in Sent(column.type, s) \X Sent(column.type, t)

\* Nothing yet, or a column of one of the three; and no rows, or those of its cells.
WireInv ==
    \/ cells = <<>> /\ given = <<>> /\ rows = <<>>
    \/ /\ cells # <<>>
       /\ \/ Registered(given, meta, cells)
          \/ Bound(given, meta, cells)
          \/ ServedTwo(given, meta, cells)
       /\ rows \in {<<>>, coerced}

\* A column that is registered has a cell for every value.
LEMMA RegisterColumn ==
    ASSUME WireInv, register
    PROVE  WireInv'
<1>1. PICK values \in BoundedSeq(Values \cup {Null}, MaxRows) \ {<<>>} :
        /\ \A i \in DOMAIN values : Encodes(values[i], meta'.type)
        /\ given' = values
        /\ cells' = [i \in DOMAIN values |-> encode_cell(values[i], meta'.type)]
  BY DEF register
<1>2. PICK m \in 0..MaxRows : values \in [1..m -> Values \cup {Null}]
  BY <1>1 DEF BoundedSeq, SeqOf
<1>3. values \in Seq(Value \cup {Null}) /\ 1 \in DOMAIN values
  <2>1. m \in Nat /\ DOMAIN values = 1..m
    BY <1>2, WireAssumption
  <2>2. values \in Seq(Values \cup {Null})
    BY <1>2, <2>1
  <2>3. m # 0
    BY <1>1, <1>2, <2>2
  <2>4. values \in [1..m -> Value \cup {Null}]
    BY <1>2, WireAssumption
  <2>5. QED BY <2>1, <2>3, <2>4
<1>4. cells' # <<>>
  BY <1>1, <1>3
<1>5. Registered(given', meta', cells')
  BY <1>1, <1>3 DEF Registered
<1>6. rows' = <<>>
  BY DEF WireInv, register
<1>7. QED BY <1>4, <1>5, <1>6 DEF WireInv

\* A time that is bound fills a column of one row.
LEMMA BindColumn ==
    ASSUME WireInv, NEW v \in Values, bind(v)
    PROVE  WireInv'
<1>1. v \in Value /\ v.kind # "number"
  BY WireAssumption DEF bind
<1>2. meta'.type = ServedType(bind_one(v))
  BY DEF bind, Meta
<1>3. Bound(given', meta', cells') /\ cells' # <<>>
  BY <1>1, <1>2 DEF bind, Bound
<1>4. rows' = <<>>
  BY DEF WireInv, bind
<1>5. QED BY <1>3, <1>4 DEF WireInv

\* The timestamps the service sends fill one of two.
LEMMA ServeColumn ==
    ASSUME WireInv, NEW type, NEW s \in Numerals, NEW t \in Numerals, serve(type, s, t)
    PROVE  WireInv'
<1>1. s \in NumeralOf /\ t \in NumeralOf
  BY WireAssumption DEF NumeralOf
<1>2. meta'.type = type /\ given' = <<>> /\ rows' = <<>>
  BY DEF WireInv, serve, Meta
<1>3. cells' \in Sent(meta'.type, s) \X Sent(meta'.type, t)
  BY <1>2 DEF serve
<1>4. cells' # <<>>
  <2>1. DOMAIN (cells') = 1..2
    BY <1>3
  <2>2. QED BY <2>1
<1>5. ServedTwo(given', meta', cells')
  BY <1>1, <1>2, <1>3 DEF ServedTwo
<1>6. QED BY <1>2, <1>4, <1>5 DEF WireInv

\* The rows of a column are those of its cells, whatever happens to it.
LEMMA WireStep ==
    ASSUME WireInv, [WireNext]_wireVars
    PROVE  WireInv'
<1>1. CASE register
  BY <1>1, RegisterColumn
<1>2. ASSUME NEW v \in Values, bind(v) PROVE WireInv'
  BY <1>2, BindColumn
<1>3. ASSUME NEW type, NEW s \in Numerals, NEW t \in Numerals, serve(type, s, t)
      PROVE  WireInv'
  BY <1>3, ServeColumn
<1>4. CASE coerce_rows
  BY <1>4 DEF WireInv, coerce_rows, coerced
<1>5. CASE UNCHANGED wireVars
  BY <1>5 DEF WireInv, coerced, wireVars
<1>6. QED BY <1>1, <1>2, <1>3, <1>4, <1>5 DEF WireNext

\* A column that has been decoded holds the rows of its cells.
THEOREM DecodedColumns == WireSpec => []WireInv
<1>1. WireInit => WireInv
  BY DEF WireInit, WireInv
<1>2. QED BY <1>1, WireStep, PTL DEF WireSpec

\* The values of the cells are the rows, unless one of them has none.
LEMMA RowsAre ==
    ASSUME NEW n \in Nat, DOMAIN cells = 1..n, rows = coerced,
           \A i \in 1..n : coerce_value(cells[i], meta) # ValueError
    PROVE  rows = [i \in 1..n |-> coerce_value(cells[i], meta)]
<1> DEFINE values == [i \in DOMAIN cells |-> coerce_value(cells[i], meta)]
<1>1. values = [i \in 1..n |-> coerce_value(cells[i], meta)]
  OBVIOUS
<1>2. Len(values) = n /\ \A i \in 1..n : values[i] # ValueError
  BY <1>1
<1>3. ~ Contains(values, ValueError)
  <2> HIDE DEF values
  <2>1. QED BY <1>2 DEF Contains
<1>4. rows = values
  BY <1>3 DEF coerced
<1>5. QED BY <1>1, <1>4

\* A value of a registered column comes back as the column has it, if the column's type
\* and the offsets leave room for it.
LEMMA RegisteredBack ==
    ASSUME Registered(given, meta, cells), ScaleFits, OffsetsFit, NEW i \in DOMAIN given
    PROVE  Back(InColumn(given[i], meta.type), cells[i], meta)
<1> DEFINE v == given[i]
<1>1. /\ cells[i] = encode_cell(v, meta.type) /\ v \in Value \cup {Null}
      /\ Encodes(v, meta.type)
  BY DEF Registered
<1>2. CASE v = Null
  BY <1>1, <1>2, NullBack
<1>3. CASE v # Null
  <2>1. meta.type = "fixed" =>
           v.kind = "number" /\ (meta.scale \in {NoScale, 0} => v.places <= 0)
    BY <1>3 DEF ScaleFits
  <2>2. meta.type = "timestamp_tz" /\ v.kind = "aware" => Abs(v.offset) <= Day - Seconds
    BY DEF OffsetsFit
  <2>3. v \in Value
    BY <1>1, <1>3
  <2> HIDE DEF v
  <2>4. Back(InColumn(v, meta.type), encode_cell(v, meta.type), meta)
    BY <1>1, <2>1, <2>2, <2>3, EncodedBack
  <2>5. QED BY <1>1, <2>4 DEF v
<1>4. QED BY <1>2, <1>3

\* One that is bound comes back as it was.
LEMMA BoundBack ==
    ASSUME Bound(given, meta, cells), OffsetsFit
    PROVE  /\ DOMAIN given = 1..1 /\ DOMAIN cells = 1..1
           /\ Back(InColumn(given[1], meta.type), cells[1], meta)
<1>1. PICK v \in Value : /\ v.kind # "number"
                         /\ given = <<v>>
                         /\ meta.type = ServedType(bind_one(v))
                         /\ cells = <<Served(bind_one(v))>>
  BY DEF Bound
<1>2. given[1] = v /\ cells[1] \in CellsOf(v, meta.type) /\ 1 \in DOMAIN given
  BY <1>1 DEF CellsOf
<1>3. meta.type = "timestamp_tz" /\ v.kind = "aware" => Abs(v.offset) <= Day - Seconds
  BY <1>2 DEF OffsetsFit
<1>4. v.kind \in {"date", "time", "naive", "aware"}
  BY <1>1, ValueParts
<1>5. CASE v.kind = "date"
  <2>1. meta.type = "date"
    BY <1>1, <1>5 DEF bind_one, IsDatetime, ServedType
  <2>2. InColumn(v, meta.type) = v
    BY <1>5 DEF InColumn, IsDatetime
  <2>3. QED BY <1>1, <1>2, <1>5, <2>1, <2>2, DateBack
<1>6. CASE v.kind = "time"
  <2>1. meta.type = "time"
    BY <1>1, <1>6 DEF bind_one, IsDatetime, ServedType
  <2>2. InColumn(v, meta.type) = v
    BY <1>6 DEF InColumn, IsDatetime
  <2>3. QED BY <1>1, <1>2, <1>6, <2>1, <2>2, TimeBack
<1>7. CASE v.kind = "naive"
  <2>1. meta.type = "timestamp_ntz"
    BY <1>1, <1>7 DEF bind_one, bind_datetime, IsDatetime, ServedType
  <2>2. InColumn(v, meta.type) = v
    BY <1>7, <2>1 DEF InColumn, IsDatetime
  <2>3. QED BY <1>1, <1>2, <1>7, <2>1, <2>2, NaiveBack
<1>8. CASE v.kind = "aware"
  <2>1. meta.type = "timestamp_tz"
    BY <1>1, <1>8 DEF bind_one, bind_datetime, IsDatetime, ServedType
  <2>2. InColumn(v, meta.type) = v
    BY <1>8, <2>1 DEF InColumn, IsDatetime
  <2>3. QED BY <1>1, <1>2, <1>3, <1>8, <2>1, <2>2, AwareBack
<1>9. QED BY <1>4, <1>5, <1>6, <1>7, <1>8

\* What is registered with the test double comes back as the column's type has it, and
\* what is bound and selected again as it was, whatever the units and the values.
THEOREM ComesBack == WireSpec => []RoundTrip
<1> DEFINE wanted == [i \in DOMAIN given |-> InColumn(given[i], meta.type)]
<1>1. ASSUME WireInv PROVE RoundTrip
  <2>1. SUFFICES ASSUME Decoded, given # <<>>, ScaleFits, OffsetsFit
                 PROVE  Returned(wanted)
    BY DEF RoundTrip
  <2>2. rows = coerced /\ (Registered(given, meta, cells) \/ Bound(given, meta, cells))
    BY <1>1, <2>1 DEF WireInv, Decoded, ServedTwo
  <2>3. \E n \in Nat :
           /\ DOMAIN given = 1..n /\ DOMAIN cells = 1..n
           /\ \A i \in 1..n : Back(InColumn(given[i], meta.type), cells[i], meta)
    <3>1. CASE Registered(given, meta, cells)
      <4>1. /\ Len(given) \in Nat /\ DOMAIN given = 1..Len(given)
            /\ DOMAIN cells = DOMAIN given
        BY <3>1 DEF Registered
      <4>2. \A i \in DOMAIN given : Back(InColumn(given[i], meta.type), cells[i], meta)
        BY <2>1, <3>1, RegisteredBack
      <4>3. QED BY <4>1, <4>2
    <3>2. CASE Bound(given, meta, cells)
      <4>1. /\ DOMAIN given = 1..1 /\ DOMAIN cells = 1..1
            /\ Back(InColumn(given[1], meta.type), cells[1], meta)
        BY <2>1, <3>2, BoundBack
      <4>2. QED BY <4>1
    <3>3. QED BY <2>2, <3>1, <3>2
  <2>4. PICK n \in Nat :
           /\ DOMAIN given = 1..n /\ DOMAIN cells = 1..n
           /\ \A i \in 1..n : Back(InColumn(given[i], meta.type), cells[i], meta)
    BY <2>3
  <2>5. rows = [i \in 1..n |-> coerce_value(cells[i], meta)]
    <3>1. \A i \in 1..n : coerce_value(cells[i], meta) # ValueError
      BY <2>4 DEF Back
    <3>2. QED BY <2>2, <2>4, <3>1, RowsAre
  <2>6. Len(rows) = n /\ DOMAIN rows = 1..n
    BY <2>5
  <2>7. wanted = [i \in 1..n |-> InColumn(given[i], meta.type)]
    BY <2>4
  <2>8. \A i \in 1..n : Same(wanted[i], rows[i])
    BY <2>4, <2>5, <2>7 DEF Back
  <2>9. Len(wanted) = n
    BY <2>7
  <2> HIDE DEF wanted
  <2>10. QED BY <2>6, <2>8, <2>9 DEF Returned
<1>2. QED BY <1>1, DecodedColumns, PTL

\* What is decoded of two timestamps that the service sent.
LEMMA ServedInstants ==
    ASSUME WireInv, Timestamps
    PROVE  /\ DOMAIN rows = 1..2
           /\ \A i \in 1..2 : /\ cells[i].at \in NumeralOf
                              /\ rows[i].us = Instant(cells[i].at)
<1>1. rows = coerced /\ ServedTwo(given, meta, cells)
  <2>1. ~ Bound(given, meta, cells)
    BY DEF Timestamps, Bound
  <2>2. ~ Registered(given, meta, cells)
    BY DEF WireInv, Timestamps, Decoded, Registered
  <2>3. QED BY <2>1, <2>2 DEF WireInv, Timestamps, Decoded
<1>2. PICK s \in NumeralOf, t \in NumeralOf :
         cells \in Sent(meta.type, s) \X Sent(meta.type, t)
  BY <1>1 DEF ServedTwo
<1>3. /\ DOMAIN cells = 1..2 /\ cells[1] \in Sent(meta.type, s)
      /\ cells[2] \in Sent(meta.type, t)
  BY <1>2
<1>4. ASSUME NEW i \in 1..2
      PROVE  /\ cells[i].at \in NumeralOf
             /\ coerce_value(cells[i], meta) # ValueError
             /\ coerce_value(cells[i], meta).us = Instant(cells[i].at)
  <2>1. PICK u \in NumeralOf : cells[i] \in Sent(meta.type, u)
    BY <1>2, <1>3
  <2>2. CASE meta.type = "timestamp_tz" /\ cells[i] = AtOffset(u, 0)
    <3>1. cells[i].at = u
      BY <2>2 DEF AtOffset
    <3>2. Abs(0) < Hours * Minutes
      BY Units DEF Abs
    <3>3. coerce_value(cells[i], meta) = Aware(Instant(u), 0 * Seconds)
      BY <2>2, <3>2, OffsetBack
    <3>4. QED BY <3>1, <3>3 DEF Aware, ValueError
  <2>3. CASE cells[i] = At(u)
    <3>1. cells[i] # Null /\ cells[i].at = u /\ "offset" \notin DOMAIN cells[i]
      BY <2>3 DEF At, Null
    <3>2. decode_timestamp_tz(cells[i]) = Aware(Instant(u), 0)
      BY <3>1 DEF decode_timestamp_tz
    <3>3. coerce_value(cells[i], meta) \in {Naive(Instant(u)), Aware(Instant(u), 0)}
      BY <3>1, <3>2 DEF coerce_value, Timestamps
    <3>4. QED BY <3>1, <3>3 DEF Naive, Aware, ValueError
  <2>4. QED BY <2>1, <2>2, <2>3 DEF Sent
<1>5. rows = [i \in 1..2 |-> coerce_value(cells[i], meta)]
  BY <1>1, <1>3, <1>4, RowsAre
<1>6. QED BY <1>4, <1>5

\* A decoded timestamp is less than a microsecond from the one that was sent, and not
\* farther from the epoch.
THEOREM TowardsTheEpoch == WireSpec => []TruncatesToEpoch
<1>1. ASSUME WireInv PROVE TruncatesToEpoch
  <2>1. SUFFICES ASSUME Timestamps, NEW i \in DOMAIN rows
                 PROVE  /\ Abs(Exact(cells[i].at) - rows[i].us * Nanos) < Nanos
                        /\ Abs(rows[i].us * Nanos) <= Abs(Exact(cells[i].at))
    BY DEF TruncatesToEpoch
  <2>2. cells[i].at \in NumeralOf /\ rows[i].us = Instant(cells[i].at)
    BY <1>1, <2>1, ServedInstants
  <2>3. QED BY <2>2, Truncated
<1>2. QED BY <1>1, DecodedColumns, PTL

\* Two timestamps are decoded in the order in which they were sent.
THEOREM StillInOrder == WireSpec => []OrderKept
<1>1. ASSUME WireInv PROVE OrderKept
  <2>1. SUFFICES ASSUME Timestamps, NEW i \in DOMAIN rows, NEW j \in DOMAIN rows,
                        Exact(cells[i].at) <= Exact(cells[j].at)
                 PROVE  rows[i].us <= rows[j].us
    BY DEF OrderKept
  <2>2. /\ cells[i].at \in NumeralOf /\ rows[i].us = Instant(cells[i].at)
        /\ cells[j].at \in NumeralOf /\ rows[j].us = Instant(cells[j].at)
    BY <1>1, <2>1, ServedInstants
  <2>3. QED BY <2>1, <2>2, Ordered
<1>2. QED BY <1>1, DecodedColumns, PTL
=============================================================================
