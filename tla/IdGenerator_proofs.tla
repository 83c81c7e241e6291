------------------------- MODULE IdGenerator_proofs -------------------------
(***************************************************************************)
(* Business codes are unique for every number of callers, sequences and    *)
(* failures.  The argument: between its SELECT and its commit a caller     *)
(* holds the row lock and knows the committed value, so its number is new; *)
(* after the commit no number above last_value is in use.                  *)
(***************************************************************************)
EXTENDS IdGenerator, TLAPS

NextNumber(s) == IF lastValue[s] = NoRow THEN 1 ELSE lastValue[s] + 1

\* A transaction that has read the row keeps the others out and is up to date.
Drawing(w) ==
  /\ draw[w].step # "idle" => draw[w].seq \in Sequences
  /\ draw[w].step \in {"update", "commit"} =>
       /\ locked[draw[w].seq] = w
       /\ draw[w].number = NextNumber(draw[w].seq)

\* No number above the committed last_value is in use.
InUse ==
  \A s \in Sequences :
    /\ \A n \in stored[s] : n <= lastValue[s]
    /\ \A w \in Workers : Held(w, s) => draw[w].number <= lastValue[s]

IdInv == IdTypeOK /\ (\A w \in Workers : Drawing(w)) /\ InUse /\ CodesAreUnique

-----------------------------------------------------------------------------
LEMMA IdInit == Init => IdInv
BY IdAssumption DEF Init, IdInv, IdTypeOK, Drawing, InUse, CodesAreUnique, Held, Resting, Draw, NoRow

\* A step that moves one caller w to the entry r.
LEMMA DrawType ==
  ASSUME IdInv, NEW w \in Workers, NEW r \in Draw, draw' = [draw EXCEPT ![w] = r]
  PROVE  /\ draw' \in [Workers -> Draw] /\ draw'[w] = r
         /\ \A v \in Workers \ {w} : draw'[v] = draw[v]
BY DEF IdInv, IdTypeOK

\* Callers that go back to rest, with the locks they held released, disturb
\* nobody: this is what a rollback and a crash do.
LEMMA RestPreserves ==
  ASSUME IdInv, NEW W \in SUBSET Workers, UNCHANGED <<lastValue, stored>>,
         locked' = Release(W),
         draw' = [w \in Workers |-> IF w \in W THEN Resting ELSE draw[w]]
  PROVE  IdInv'
<1>1. \A w \in Workers : IF w \in W THEN draw'[w] = Resting ELSE draw'[w] = draw[w]
  OBVIOUS
<1>2. Resting \in Draw /\ Resting.step = "idle"
  BY DEF Resting, Draw
<1>3. IdTypeOK'
  BY <1>2 DEF IdInv, IdTypeOK, Release
<1>4. \A w \in Workers : Drawing(w)'
  <2> SUFFICES ASSUME NEW w \in Workers PROVE Drawing(w)'
    OBVIOUS
  <2>1. CASE w \in W
    BY <1>1, <1>2, <2>1 DEF Drawing
  <2>2. CASE w \notin W
    BY <1>1, <2>2 DEF Drawing, Release, IdInv, NextNumber
  <2> QED BY <2>1, <2>2
<1>5. \A w \in Workers, s \in Sequences : Held(w, s)' => Held(w, s) /\ draw'[w] = draw[w]
  BY <1>1, <1>2 DEF Held
<1>6. InUse'
  BY <1>5 DEF InUse, IdInv
<1>7. CodesAreUnique'
  BY <1>5 DEF CodesAreUnique, IdInv
<1> QED BY <1>3, <1>4, <1>6, <1>7 DEF IdInv

LEMMA InsertPreserves ==
  ASSUME IdInv, NEW w \in Workers, NEW s \in Sequences, Insert(w, s)
  PROVE  IdInv'
<1> DEFINE r == [step |-> "select", seq |-> s, number |-> 0]
<1>1. r \in Draw /\ r.step = "select" /\ r.seq = s
  BY DEF Draw
<1> HIDE DEF r
<1>2. draw' \in [Workers -> Draw] /\ draw'[w] = r /\ \A v \in Workers \ {w} : draw'[v] = draw[v]
  BY <1>1, DrawType DEF Insert, r
<1>3. IdTypeOK'
  BY <1>2 DEF IdInv, IdTypeOK, Insert
<1>4. \A v \in Workers : Drawing(v)'
  <2> SUFFICES ASSUME NEW v \in Workers PROVE Drawing(v)'
    OBVIOUS
  <2>1. CASE v = w
    BY <1>1, <1>2, <2>1 DEF Drawing
  <2>2. CASE v # w
    BY <1>2, <2>2, IdAssumption DEF Drawing, Insert, IdInv, IdTypeOK, NextNumber
  <2> QED BY <2>1, <2>2
<1>5. \A v \in Workers, x \in Sequences : Held(v, x)' => Held(v, x) /\ draw'[v] = draw[v]
  BY <1>1, <1>2 DEF Held
<1> QED BY <1>3, <1>4, <1>5 DEF IdInv, InUse, CodesAreUnique, Insert

LEMMA SelectPreserves ==
  ASSUME IdInv, NEW w \in Workers, SelectForUpdate(w)
  PROVE  IdInv'
<1> DEFINE s == draw[w].seq
           r == [draw[w] EXCEPT !.step = "update", !.number = NextNumber(s)]
<1>1. s \in Sequences /\ lastValue[s] \in Nat \cup {NoRow} /\ draw[w] \in Draw
  BY DEF SelectForUpdate, IdInv, Drawing, IdTypeOK
<1>2. NextNumber(s) \in Nat
  BY <1>1 DEF NextNumber, NoRow
<1>3. r \in Draw /\ r.step = "update" /\ r.seq = s /\ r.number = NextNumber(s)
  BY <1>1, <1>2 DEF Draw
<1>4. draw' = [draw EXCEPT ![w] = r]
  BY DEF SelectForUpdate, NextNumber, IdInv, IdTypeOK
<1>5. locked[s] \in {w, Nobody} /\ locked' = [locked EXCEPT ![s] = w] /\ UNCHANGED <<lastValue, stored>>
  BY DEF SelectForUpdate
<1> HIDE DEF r, s
<1>6. draw' \in [Workers -> Draw] /\ draw'[w] = r /\ \A v \in Workers \ {w} : draw'[v] = draw[v]
  BY <1>3, <1>4, DrawType
<1>7. IdTypeOK'
  BY <1>1, <1>5, <1>6 DEF IdInv, IdTypeOK
<1>8. \A v \in Workers : Drawing(v)'
  <2> SUFFICES ASSUME NEW v \in Workers PROVE Drawing(v)'
    OBVIOUS
  <2>1. CASE v = w
    BY <1>1, <1>3, <1>5, <1>6, <2>1 DEF Drawing, IdInv, IdTypeOK, NextNumber
  <2>2. CASE v # w
    <3>1. Drawing(v) /\ draw'[v] = draw[v] /\ v # Nobody
      BY <1>6, <2>2, IdAssumption DEF IdInv
    <3>2. draw[v].step \in {"update", "commit"} => draw[v].seq # s
      BY <1>5, <2>2, <3>1 DEF Drawing
    <3> QED BY <1>1, <1>5, <3>1, <3>2 DEF Drawing, IdInv, IdTypeOK, NextNumber
  <2> QED BY <2>1, <2>2
<1>9. \A v \in Workers, x \in Sequences : Held(v, x)' => Held(v, x) /\ draw'[v] = draw[v]
  BY <1>3, <1>6 DEF Held
<1> QED BY <1>5, <1>7, <1>8, <1>9 DEF IdInv, InUse, CodesAreUnique

LEMMA UpdatePreserves ==
  ASSUME IdInv, NEW w \in Workers, Update(w)
  PROVE  IdInv'
<1> DEFINE r == [draw[w] EXCEPT !.step = "commit"]
<1>1. draw[w] \in Draw /\ draw[w].step = "update"
  BY DEF Update, IdInv, IdTypeOK
<1>2. r \in Draw /\ r.step = "commit" /\ r.seq = draw[w].seq /\ r.number = draw[w].number
  BY <1>1 DEF Draw
<1>3. draw' = [draw EXCEPT ![w] = r] /\ UNCHANGED <<lastValue, locked, stored>>
  BY DEF Update
<1> HIDE DEF r
<1>4. draw' \in [Workers -> Draw] /\ draw'[w] = r /\ \A v \in Workers \ {w} : draw'[v] = draw[v]
  BY <1>2, <1>3, DrawType
<1>5. \A v \in Workers : Drawing(v)'
  BY <1>1, <1>2, <1>3, <1>4 DEF Drawing, IdInv, NextNumber
<1>6. \A v \in Workers, x \in Sequences : Held(v, x)' => Held(v, x) /\ draw'[v] = draw[v]
  BY <1>2, <1>4 DEF Held
<1> QED BY <1>3, <1>4, <1>5, <1>6 DEF IdInv, IdTypeOK, InUse, CodesAreUnique

LEMMA CommitPreserves ==
  ASSUME IdInv, NEW w \in Workers, Commit(w)
  PROVE  IdInv'
<1> DEFINE s == draw[w].seq
           n == draw[w].number
           r == [draw[w] EXCEPT !.step = "store"]
<1>1. /\ draw[w] \in Draw /\ draw[w].step = "commit" /\ s \in Sequences
      /\ locked[s] = w /\ n = NextNumber(s) /\ lastValue[s] \in Nat \cup {NoRow}
  BY DEF Commit, IdInv, IdTypeOK, Drawing
<1>2. r \in Draw /\ r.step = "store" /\ r.seq = s /\ r.number = n
  BY <1>1 DEF Draw
<1>3. /\ draw' = [draw EXCEPT ![w] = r] /\ UNCHANGED stored
      /\ lastValue' = [lastValue EXCEPT ![s] = n]
      /\ locked' = [locked EXCEPT ![s] = Nobody]
  BY DEF Commit
<1>4. n \in Nat /\ n > lastValue[s]
  BY <1>1 DEF NextNumber, NoRow
<1> HIDE DEF r, s, n
<1>5. draw' \in [Workers -> Draw] /\ draw'[w] = r /\ \A v \in Workers \ {w} : draw'[v] = draw[v]
  BY <1>2, <1>3, DrawType
<1>6. IdTypeOK'
  BY <1>1, <1>3, <1>4, <1>5 DEF IdInv, IdTypeOK
<1>7. \A v \in Workers : Drawing(v)'
  <2> SUFFICES ASSUME NEW v \in Workers PROVE Drawing(v)'
    OBVIOUS
  <2>1. CASE v = w
    BY <1>1, <1>2, <1>5, <2>1 DEF Drawing
  <2>2. CASE v # w
    <3>1. Drawing(v) /\ draw'[v] = draw[v]
      BY <1>5, <2>2 DEF IdInv
    <3>2. draw[v].step \in {"update", "commit"} => draw[v].seq # s
      BY <1>1, <2>2, <3>1 DEF Drawing
    <3> QED BY <1>1, <1>3, <3>1, <3>2 DEF Drawing, IdInv, IdTypeOK, NextNumber
  <2> QED BY <2>1, <2>2
<1>8. \A x \in Sequences : lastValue'[x] = IF x = s THEN n ELSE lastValue[x]
  BY <1>3 DEF IdInv, IdTypeOK
<1>9. \A v \in Workers, x \in Sequences :
        Held(v, x)' => IF v = w THEN x = s /\ draw'[v].number = n
                       ELSE Held(v, x) /\ draw'[v] = draw[v]
  BY <1>2, <1>5 DEF Held
<1>10. /\ \A x \in Sequences : stored'[x] = stored[x] /\ stored[x] \subseteq Nat
       /\ \A v \in Workers : draw[v].number \in Nat
  BY <1>3 DEF IdInv, IdTypeOK, Draw
<1>11. /\ \A m \in stored[s] : m < n
       /\ \A v \in Workers : Held(v, s) => draw[v].number < n
  BY <1>1, <1>4, <1>10 DEF IdInv, InUse, NoRow
<1>12. InUse'
  <2> SUFFICES ASSUME NEW x \in Sequences
               PROVE  /\ \A m \in stored'[x] : m <= lastValue'[x]
                      /\ \A v \in Workers : Held(v, x)' => draw'[v].number <= lastValue'[x]
    BY DEF InUse
  <2>1. CASE x = s
    BY <1>4, <1>8, <1>9, <1>10, <1>11, <2>1
  <2>2. CASE x # s
    BY <1>8, <1>9, <1>10, <2>2 DEF IdInv, InUse
  <2> QED BY <2>1, <2>2
<1>13. CodesAreUnique'
  <2> SUFFICES ASSUME NEW x \in Sequences, NEW v \in Workers, Held(v, x)'
               PROVE  /\ draw'[v].number \notin stored'[x]
                      /\ \A u \in Workers \ {v} : Held(u, x)' => draw'[u].number # draw'[v].number
    BY DEF CodesAreUnique
  <2>1. CASE v = w
    <3>1. x = s /\ draw'[v].number = n
      BY <1>9, <2>1
    <3>2. \A u \in Workers \ {v} : Held(u, x)' => draw'[u].number < n
      BY <1>9, <1>11, <2>1, <3>1
    <3> QED BY <1>4, <1>10, <1>11, <3>1, <3>2
  <2>2. CASE v # w
    <3>1. Held(v, x) /\ draw'[v] = draw[v]
      BY <1>9, <2>2
    <3>2. draw[v].number \notin stored[x]
      BY <3>1 DEF IdInv, CodesAreUnique
    <3>3. ASSUME NEW u \in Workers \ {v}, Held(u, x)'
          PROVE  draw'[u].number # draw'[v].number
      <4>1. CASE u = w
        BY <1>4, <1>9, <1>10, <1>11, <3>1, <3>3, <4>1
      <4>2. CASE u # w
        BY <1>9, <3>1, <3>3, <4>2 DEF IdInv, CodesAreUnique
      <4> QED BY <4>1, <4>2
    <3> QED BY <1>10, <3>1, <3>2, <3>3
  <2> QED BY <2>1, <2>2
<1> QED BY <1>6, <1>7, <1>12, <1>13 DEF IdInv

LEMMA StorePreserves ==
  ASSUME IdInv, NEW w \in Workers, Store(w)
  PROVE  IdInv'
<1> DEFINE s == draw[w].seq
           n == draw[w].number
<1>1. draw[w] \in Draw /\ draw[w].step = "store" /\ s \in Sequences /\ n \in Nat /\ Held(w, s)
  BY DEF Store, IdInv, IdTypeOK, Drawing, Draw, Held
<1>2. Resting \in Draw /\ Resting.step = "idle"
  BY DEF Resting, Draw
<1>3. /\ draw' = [draw EXCEPT ![w] = Resting] /\ UNCHANGED <<lastValue, locked>>
      /\ stored' = [stored EXCEPT ![s] = @ \cup {n}]
  BY DEF Store
<1> HIDE DEF s, n
<1>4. /\ draw' \in [Workers -> Draw] /\ draw'[w] = Resting
      /\ \A v \in Workers \ {w} : draw'[v] = draw[v]
  BY <1>2, <1>3, DrawType
<1>5. IdTypeOK'
  BY <1>1, <1>3, <1>4 DEF IdInv, IdTypeOK
<1>6. \A v \in Workers : Drawing(v)'
  BY <1>2, <1>3, <1>4 DEF Drawing, IdInv, NextNumber
<1>7. \A v \in Workers, x \in Sequences : Held(v, x)' => v # w /\ Held(v, x) /\ draw'[v] = draw[v]
  BY <1>2, <1>4 DEF Held
<1>8. \A x \in Sequences : stored'[x] = IF x = s THEN stored[x] \cup {n} ELSE stored[x]
  BY <1>3 DEF IdInv, IdTypeOK
<1>9. n <= lastValue[s] /\ \A v \in Workers \ {w} : Held(v, s) => draw[v].number # n
  <2>1. draw[w].number = n
    BY DEF n
  <2> QED BY <1>1, <2>1 DEF IdInv, InUse, CodesAreUnique
<1>10. InUse'
  BY <1>3, <1>7, <1>8, <1>9 DEF IdInv, InUse
<1>11. CodesAreUnique'
  <2> SUFFICES ASSUME NEW x \in Sequences, NEW v \in Workers, Held(v, x)'
               PROVE  /\ draw'[v].number \notin stored'[x]
                      /\ \A u \in Workers \ {v} : Held(u, x)' => draw'[u].number # draw'[v].number
    BY DEF CodesAreUnique
  <2>1. v # w /\ Held(v, x) /\ draw'[v] = draw[v]
    BY <1>7
  <2>2. /\ draw[v].number \notin stored[x]
        /\ \A u \in Workers \ {v} : Held(u, x) => draw[u].number # draw[v].number
    BY <2>1 DEF IdInv, CodesAreUnique
  <2>3. draw'[v].number \notin stored'[x]
    <3>1. x = s => draw[v].number # n
      BY <1>9, <2>1 DEF Held
    <3> QED BY <1>8, <2>1, <2>2, <3>1
  <2>4. ASSUME NEW u \in Workers \ {v}, Held(u, x)'
        PROVE  draw'[u].number # draw'[v].number
    <3>1. Held(u, x) /\ draw'[u] = draw[u]
      BY <1>7, <2>4
    <3> QED BY <2>1, <2>2, <3>1
  <2> QED BY <2>3, <2>4
<1> QED BY <1>5, <1>6, <1>10, <1>11 DEF IdInv

LEMMA IdStep == IdInv /\ [Next]_idVars => IdInv'
<1> SUFFICES ASSUME IdInv, [Next]_idVars PROVE IdInv'
  OBVIOUS
<1>1. ASSUME NEW w \in Workers, Abandon(w)
      PROVE  IdInv'
  <2>1. draw' = [v \in Workers |-> IF v \in {w} THEN Resting ELSE draw[v]]
    BY <1>1 DEF Abandon, IdInv, IdTypeOK
  <2> QED BY <1>1, <2>1, RestPreserves DEF Abandon
<1>2. CASE ServerDies
  <2>1. draw' = [v \in Workers |-> IF v \in Workers THEN Resting ELSE draw[v]]
    BY <1>2 DEF ServerDies
  <2> QED BY <1>2, <2>1, RestPreserves DEF ServerDies
<1>3. CASE UNCHANGED idVars
  BY <1>3 DEF idVars, IdInv, IdTypeOK, Drawing, NextNumber, InUse, CodesAreUnique, Held
<1> QED BY <1>1, <1>2, <1>3, InsertPreserves, SelectPreserves, UpdatePreserves, CommitPreserves,
           StorePreserves DEF Next

LEMMA IdInvariant == IdSpec => []IdInv
BY IdInit, IdStep, PTL DEF IdSpec

\* No business code is ever on two records, nor about to be, for every number of
\* overlapping callers, sequences, failures and crashes (id-generator.service.ts:45-71).
THEOREM BusinessCodesAreUnique == IdSpec => []CodesAreUnique
<1>1. IdInv => CodesAreUnique
  BY DEF IdInv
<1> QED BY <1>1, IdInvariant, PTL

\* The committed last_value never decreases and every number handed out is above
\* it, so a number lost with a failed caller is not handed out again.
THEOREM LostNumbersStayLost == IdSpec => NumbersAreNeverReclaimed
<1> DEFINE Fresh == \A s \in Sequences :
              /\ lastValue'[s] >= lastValue[s]
              /\ \A w \in Workers : Held(w, s)' /\ ~Held(w, s) => draw'[w].number > lastValue[s]
<1>1. ASSUME IdInv, UNCHANGED lastValue,
             \A s \in Sequences, w \in Workers : Held(w, s)' => Held(w, s)
      PROVE  Fresh
  BY <1>1 DEF IdInv, IdTypeOK, NoRow
<1>2. ASSUME IdInv, NEW w \in Workers, Commit(w)
      PROVE  Fresh
  <2> DEFINE s == draw[w].seq
             n == draw[w].number
  <2>1. /\ s \in Sequences /\ n = NextNumber(s) /\ lastValue[s] \in Nat \cup {NoRow}
        /\ draw[w] \in Draw
    BY <1>2 DEF Commit, IdInv, IdTypeOK, Drawing
  <2>2. n \in Nat /\ n > lastValue[s]
    BY <2>1 DEF NextNumber, NoRow
  <2>3. \A x \in Sequences : /\ lastValue'[x] = IF x = s THEN n ELSE lastValue[x]
                             /\ lastValue[x] \in Nat \cup {NoRow}
    BY <1>2 DEF Commit, IdInv, IdTypeOK
  <2>4. /\ \A v \in Workers \ {w} : draw'[v] = draw[v]
        /\ draw'[w].seq = s /\ draw'[w].number = n
    BY <1>2, <2>1 DEF Commit, IdInv, IdTypeOK, Draw
  <2> HIDE DEF n, s
  <2> QED BY <2>2, <2>3, <2>4 DEF Held, NoRow
<1>3. IdInv /\ [Next]_idVars => [Fresh]_idVars
  <2> SUFFICES ASSUME IdInv, Next PROVE Fresh
    OBVIOUS
  <2>1. ASSUME NEW w \in Workers, NEW r, r.step # "store", draw' = [draw EXCEPT ![w] = r], UNCHANGED lastValue
        PROVE  Fresh
    BY <1>1, <2>1 DEF Held, IdInv, IdTypeOK
  <2>2. ASSUME NEW w \in Workers, NEW s \in Sequences, Insert(w, s)
        PROVE  Fresh
    BY <2>1, <2>2 DEF Insert
  <2>3. ASSUME NEW w \in Workers, SelectForUpdate(w) \/ Update(w)
        PROVE  Fresh
    <3>1. \A v \in Workers, x \in Sequences : Held(v, x)' => Held(v, x)
      BY <2>3 DEF SelectForUpdate, Update, Held, IdInv, IdTypeOK, Draw
    <3> QED BY <1>1, <2>3, <3>1 DEF SelectForUpdate, Update
  <2>4. ASSUME NEW w \in Workers, Store(w) \/ Abandon(w)
        PROVE  Fresh
    BY <2>1, <2>4 DEF Store, Abandon, Resting
  <2>5. CASE ServerDies
    BY <1>1, <2>5 DEF ServerDies, Held, Resting
  <2> QED BY <1>2, <2>2, <2>3, <2>4, <2>5 DEF Next
<1> QED BY <1>3, IdInvariant, PTL DEF IdSpec, NumbersAreNeverReclaimed
=============================================================================
