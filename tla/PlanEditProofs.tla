---------------------------- MODULE PlanEditProofs ----------------------------
(* The proofs about PlanEdit, for any number of clients, requests, plans,   *)
(* steps, names and connections.                                            *)
EXTENDS PlanEdit, FiniteSetTheorems, WellFoundedInduction, TLAPS

-----------------------------------------------------------------------------
(* Finite sets.  A set of finite sets that is not empty has a member no      *)
(* smaller one of which it holds: what fails for some finite set fails for   *)
(* a smallest one.                                                           *)

LEMMA SmallestCounterexample ==
    ASSUME NEW S, IsFiniteSet(S), NEW Bad \in SUBSET SUBSET S, Bad # {}
    PROVE  \E T \in Bad : \A U \in SUBSET T : U # T => U \notin Bad
<1>1. \A T \in SUBSET S : IsFiniteSet(T)
  BY FS_Subset
<1>2. Bad \subseteq FiniteSubsetsOf(S)
  BY <1>1 DEF FiniteSubsetsOf
<1>3. PICK T \in Bad : \A U \in Bad : <<U, T>> \notin StrictSubsetOrdering(S)
  BY <1>2, FS_StrictSubsetOrderingWellFounded, WFMin
<1>4. ASSUME NEW U \in SUBSET T, U # T, U \in Bad
      PROVE  FALSE
  <2>1. <<U, T>> \in StrictSubsetOrdering(S)
    BY <1>4, SMT DEF StrictSubsetOrdering
  <2>. QED BY <1>3, <1>4, <2>1
<1>. QED BY <1>3, <1>4

\* A number given to each member of a finite set has a largest value.
LEMMA LargestExists ==
    ASSUME NEW S, IsFiniteSet(S), S # {}, NEW f \in [S -> Nat]
    PROVE  \E s \in S : \A t \in S : f[t] <= f[s]
<1> DEFINE Bad == {T \in SUBSET S : T # {} /\ \A s \in T : \E t \in T : f[t] > f[s]}
<1>1. SUFFICES ASSUME ~ \E s \in S : \A t \in S : f[t] <= f[s] PROVE FALSE
  OBVIOUS
<1>a. S \in Bad
  <2>1. ASSUME NEW s \in S PROVE \E t \in S : f[t] > f[s]
    <3>1. PICK t \in S : ~(f[t] <= f[s])
      BY <1>1
    <3>2. f[t] \in Nat /\ f[s] \in Nat
      OBVIOUS
    <3>. QED BY <3>1, <3>2
  <2>. QED BY <2>1
<1>2. PICK T \in Bad : \A U \in SUBSET T : U # T => U \notin Bad
  <2>1. Bad \in SUBSET SUBSET S /\ Bad # {}
    BY <1>a
  <2> HIDE DEF Bad
  <2>. QED BY <2>1, SmallestCounterexample
<1>3. PICK x \in T : TRUE
  OBVIOUS
<1>4. PICK z \in T : f[z] > f[x]
  BY <1>2
<1>5. PICK y \in T \ {x} : \A t \in T \ {x} : f[t] <= f[y]
  <2>1. T \ {x} \in SUBSET T /\ T \ {x} # T /\ T \ {x} \notin Bad /\ T \ {x} \in SUBSET S
    BY <1>2
  <2>2. z \in T \ {x}
    BY <1>2, <1>4
  <2>. QED BY <2>1, <2>2
<1>6. \A t \in T : f[t] <= f[IF f[x] <= f[y] THEN y ELSE x]
  BY <1>5
<1>. QED BY <1>2, <1>3, <1>5, <1>6

\* So LargestOf means what it says.
LEMMA LargestOfIsLargest ==
    ASSUME NEW S, IsFiniteSet(S), NEW f \in [S -> Nat]
    PROVE  /\ LargestOf({f[s] : s \in S}) \in Nat
           /\ \A s \in S : f[s] <= LargestOf({f[t] : t \in S})
<1> DEFINE V == {f[s] : s \in S}
<1>1. CASE S = {}
  BY <1>1 DEF LargestOf
<1>2. CASE S # {}
  <2>1. PICK x \in S : \A t \in S : f[t] <= f[x]
    BY <1>2, LargestExists
  <2>2. f[x] \in V /\ \A m \in V : m <= f[x]
    BY <2>1
  <2>3. LargestOf(V) = CHOOSE n \in V : \A m \in V : m <= n
    BY <1>2 DEF LargestOf
  <2>4. LargestOf(V) \in V /\ \A m \in V : m <= LargestOf(V)
    <3> HIDE DEF V
    <3>. QED BY <2>2, <2>3
  <2>. QED BY <2>4
<1>. QED BY <1>1, <1>2

\* The members of a finite set can be listed without repetition in the order
\* of their numbers.
LEMMA SortedListExists ==
    ASSUME NEW S, IsFiniteSet(S), NEW f \in [S -> Nat]
    PROVE  \E q \in [1..Cardinality(S) -> S] :
              \A i, j \in DOMAIN q : i < j => q[i] # q[j] /\ f[q[i]] <= f[q[j]]
<1> DEFINE Lists(q, T) == /\ q \in [1..Cardinality(T) -> T]
                          /\ \A i, j \in 1..Cardinality(T) : i < j => q[i] # q[j] /\ f[q[i]] <= f[q[j]]
           Bad == {T \in SUBSET S : \A q : ~Lists(q, T)}
<1>1. SUFFICES \E q : Lists(q, S)
  OBVIOUS
<1>2. SUFFICES ASSUME \A q : ~Lists(q, S) PROVE FALSE
  OBVIOUS
<1>3. PICK T \in Bad : \A U \in SUBSET T : U # T => U \notin Bad
  <2>1. Bad \in SUBSET SUBSET S /\ Bad # {}
    BY <1>2
  <2> HIDE DEF Bad
  <2>. QED BY <2>1, SmallestCounterexample
<1>4. IsFiniteSet(T) /\ Cardinality(T) \in Nat /\ T \in SUBSET S
  BY <1>3, FS_Subset, FS_CardinalityType
<1>5. T # {}
  <2>1. SUFFICES ASSUME T = {} PROVE Lists(<<>>, T)
    BY <1>3
  <2>. QED BY <2>1, FS_EmptySet
<1>6. PICK x \in T : \A t \in T : f[t] <= f[x]
  <2> DEFINE g == [t \in T |-> f[t]]
  <2>1. g \in [T -> Nat]
    BY <1>4
  <2>2. PICK x \in T : \A t \in T : g[t] <= g[x]
    BY <1>4, <1>5, <2>1, LargestExists
  <2>. QED BY <2>2
<1> DEFINE U == T \ {x}
           n == Cardinality(T)
<1>7. U \in SUBSET S /\ U \notin Bad /\ Cardinality(U) = n - 1
  <2>1. U \in SUBSET T /\ U # T /\ U \in SUBSET S
    BY <1>4, <1>6
  <2>2. U \notin Bad
    <3> HIDE DEF Bad, U
    <3>. QED BY <1>3, <2>1
  <2>3. Cardinality(U) = n - 1
    BY <1>4, <1>6, FS_RemoveElement
  <2>. QED BY <2>1, <2>2, <2>3
<1>8. PICK q : Lists(q, U)
  BY <1>7
<1>9. n \in Nat /\ n - 1 \in Nat
  BY <1>4, <1>5, FS_EmptySet
<1>10. q \in [1..(n - 1) -> U] /\ \A i, j \in 1..(n - 1) : i < j => q[i] # q[j] /\ f[q[i]] <= f[q[j]]
  BY <1>7, <1>8
<1> DEFINE r == [i \in 1..n |-> IF i = n THEN x ELSE q[i]]
<1>11. \A i \in 1..n : i # n => i \in 1..(n - 1) /\ r[i] = q[i] /\ r[i] \in U
  BY <1>9, <1>10
<1>12. r \in [1..n -> T] /\ r[n] = x
  BY <1>6, <1>9, <1>11
<1>13. ASSUME NEW i \in 1..n, NEW j \in 1..n, i < j
       PROVE  r[i] # r[j] /\ f[r[i]] <= f[r[j]]
  <2>1. i # n
    BY <1>9, <1>13
  <2>2. CASE j = n
    BY <1>6, <1>11, <1>12, <2>1, <2>2
  <2>3. CASE j # n
    BY <1>10, <1>11, <1>13, <2>1, <2>3
  <2>. QED BY <2>2, <2>3
<1>14. Lists(r, T)
  BY <1>12, <1>13
<1>. QED BY <1>3, <1>14

-----------------------------------------------------------------------------
(* Rows.                                                                    *)

\* What the assumptions say of the names of connections and steps.
LEMMA NamesOfRows ==
    /\ None \notin Conns /\ None \notin Names
    /\ MaxPlans \in Nat /\ MaxSteps \in Nat /\ MaxPlans >= 1 /\ MaxSteps >= 2
  BY PlanEditAssumption DEF None

\* The tables as functions, and live steps as those that have a row.
LEMMA Tables ==
    ASSUME RowsOK
    PROVE  /\ Len(plan) \in Nat /\ DOMAIN plan = 1..Len(plan)
           /\ Len(step) \in Nat /\ DOMAIN step = 1..Len(step)
           /\ \A p \in DOMAIN plan : plan[p] \in PlanRow
           /\ \A s \in DOMAIN step : step[s] \in StepRow \cup {Gone}
           /\ \A s \in DOMAIN step : s \in LiveSteps <=> step[s] \in StepRow
           /\ \A s \in DOMAIN step : s \in LiveSteps <=> step[s] # Gone
  BY DEF RowsOK, LiveSteps, StepRow, Gone, None

\* The steps of a plan are finitely many, and their numbers are numbers.
LEMMA StepsOfPlan ==
    ASSUME RowsOK, NEW p
    PROVE  /\ IsFiniteSet(StepsOf(p)) /\ Cardinality(StepsOf(p)) \in Nat
           /\ \A s \in StepsOf(p) : s \in LiveSteps /\ step[s].seq \in Nat
<1>1. StepsOf(p) \in SUBSET (1..Len(step)) /\ Len(step) \in Int
  BY Tables DEF StepsOf, LiveSteps
<1>2. IsFiniteSet(StepsOf(p)) /\ Cardinality(StepsOf(p)) \in Nat
  <2>1. IsFiniteSet(1..Len(step))
    BY <1>1, FS_Interval
  <2>2. IsFiniteSet(StepsOf(p))
    BY <1>1, <2>1, FS_Subset
  <2>. QED BY <2>2, FS_CardinalityType
<1>. QED BY <1>2, Tables DEF StepsOf, LiveSteps, StepRow

\* A step that is appended gets a number beyond those of its plan.
LEMMA NextIsBeyond ==
    ASSUME RowsOK, NEW p
    PROVE  /\ NextSequence(p) \in Nat \ {0}
           /\ \A s \in StepsOf(p) : step[s].seq < NextSequence(p)
<1> DEFINE f == [s \in StepsOf(p) |-> step[s].seq]
<1>1. f \in [StepsOf(p) -> Nat] /\ IsFiniteSet(StepsOf(p))
  BY StepsOfPlan
<1>2. {f[s] : s \in StepsOf(p)} = {step[s].seq : s \in StepsOf(p)}
  OBVIOUS
<1>3. /\ LargestOf({step[s].seq : s \in StepsOf(p)}) \in Nat
      /\ \A s \in StepsOf(p) : f[s] <= LargestOf({step[t].seq : t \in StepsOf(p)})
  <2> HIDE DEF f
  <2>. QED BY <1>1, <1>2, LargestOfIsLargest
<1>. QED BY <1>3, StepsOfPlan DEF NextSequence

\* The list that a copy of a plan is made from has each of its steps once.
LEMMA InOrderLists ==
    ASSUME RowsOK, NEW p
    PROVE  /\ InOrder(p) \in [1..Cardinality(StepsOf(p)) -> StepsOf(p)]
           /\ \A i, j \in DOMAIN InOrder(p) : i # j => InOrder(p)[i] # InOrder(p)[j]
<1> DEFINE f == [s \in StepsOf(p) |-> step[s].seq]
           n == Cardinality(StepsOf(p))
           Sorted(q) == \A i, j \in DOMAIN q : i < j => /\ q[i] # q[j]
                                                       /\ step[q[i]].seq <= step[q[j]].seq
<1>1. f \in [StepsOf(p) -> Nat] /\ IsFiniteSet(StepsOf(p)) /\ n \in Nat
  BY StepsOfPlan
<1>2. PICK q \in [1..n -> StepsOf(p)] : \A i, j \in DOMAIN q : i < j => q[i] # q[j] /\ f[q[i]] <= f[q[j]]
  BY <1>1, SortedListExists
<1>3. Sorted(q)
  BY <1>2
<1>4. InOrder(p) = CHOOSE r \in [1..n -> StepsOf(p)] : Sorted(r)
  BY DEF InOrder
<1>5. InOrder(p) \in [1..n -> StepsOf(p)] /\ Sorted(InOrder(p))
  <2> HIDE DEF Sorted, n
  <2>. QED BY <1>3, <1>4
<1>6. \A i, j \in 1..n : i # j => i < j \/ j < i
  BY <1>1
<1>. QED BY <1>5, <1>6

-----------------------------------------------------------------------------
(* The tables, row by row.                                                  *)

\* What the tables satisfy, and the same said of each row without the sets of
\* live plans and steps.
Sound == TablesAreSound /\ RowsOK /\ UsedStepsHaveRuns

RowsAreSound ==
    /\ RowsOK /\ Len(plan) <= MaxPlans /\ Len(step) <= MaxSteps
    /\ \A s \in used : s \in DOMAIN step /\ step[s] # Gone /\ plan[step[s].plan].runs
    /\ \A s \in DOMAIN step : step[s] # Gone =>
          /\ step[s].plan \in DOMAIN plan /\ plan[step[s].plan].there
          /\ step[s].ref # None => /\ step[s].ref \in DOMAIN step
                                   /\ step[step[s].ref].plan = step[s].plan
          /\ step[s].name # None =>
                \A t \in DOMAIN step : t # s /\ step[t].plan = step[s].plan
                                       => step[t].name # step[s].name
    /\ \A p \in DOMAIN plan : plan[p].runs => plan[p].there

\* No step gets the id of another, and none changes plans.
IdsStay ==
    /\ DOMAIN step \subseteq DOMAIN step'
    /\ \A s \in DOMAIN step : step'[s].plan \in {None, step[s].plan}

LEMMA SoundByRow == Sound <=> RowsAreSound
<1>1. ASSUME Sound PROVE RowsAreSound
  <2> USE <1>1 DEF Sound, TablesAreSound, UsedStepsHaveRuns
  <2>1. \A s \in used : s \in DOMAIN step /\ step[s] # Gone /\ plan[step[s].plan].runs
    BY Tables DEF TypeOK, LiveSteps
  <2>2. ASSUME NEW s \in DOMAIN step, step[s] # Gone
        PROVE  /\ step[s].plan \in DOMAIN plan /\ plan[step[s].plan].there
               /\ step[s].ref # None => /\ step[s].ref \in DOMAIN step
                                        /\ step[step[s].ref].plan = step[s].plan
    <3>1. s \in LiveSteps
      BY <2>2, Tables
    <3>. QED BY <3>1 DEF TypeOK, LivePlans, LiveSteps, ReferencesStayInPlan
  <2>3. ASSUME NEW s \in DOMAIN step, step[s] # Gone, step[s].name # None,
               NEW t \in DOMAIN step, t # s, step[t].plan = step[s].plan
        PROVE  step[t].name # step[s].name
    <3>1. s \in LiveSteps
      BY <2>3, Tables
    <3>2. t \in StepsOf(step[s].plan) \ {s}
      BY <2>3, <3>1 DEF StepsOf, LiveSteps
    <3>. QED BY <2>3, <3>1, <3>2 DEF NamesAreUnique, NameIsFree
  <2>. QED BY <2>1, <2>2, <2>3 DEF RowsAreSound, TypeOK, RunsKeepTheirPlan
<1>2. ASSUME RowsAreSound PROVE Sound
  <2> USE <1>2 DEF RowsAreSound
  <2>1. \A s \in LiveSteps : s \in DOMAIN step /\ step[s] \in StepRow /\ step[s] # Gone
    BY Tables DEF LiveSteps
  <2>2. TypeOK
    <3>1. used \subseteq LiveSteps
      BY Tables
    <3>2. \A s \in LiveSteps :
              /\ step[s].plan \in LivePlans
              /\ step[s].op \in {"query", "dml"} /\ step[s].input \in Conns \cup {None}
              /\ step[s].name \in Names \cup {None} /\ step[s].seq \in Nat \ {0}
      BY <2>1 DEF LivePlans, StepRow
    <3>3. \A i \in Conns : conn[i] \in {"in", "out", "both", "gone"}
      BY DEF RowsOK
    <3>. QED BY <3>1, <3>2, <3>3 DEF TypeOK
  <2>3. ReferencesStayInPlan
    BY <2>1, Tables DEF ReferencesStayInPlan, LiveSteps, StepRow, Gone, None
  <2>4. NamesAreUnique
    BY <2>1 DEF NamesAreUnique, NameIsFree, StepsOf, LiveSteps
  <2>. QED BY <2>1, <2>2, <2>3, <2>4 DEF Sound, TablesAreSound, UsedStepsHaveRuns, RunsKeepTheirPlan
<1>. QED BY <1>1, <1>2

LEMMA SoundByRowNext == Sound' <=> RowsAreSound'
  BY SoundByRow, PTL

\* What a new list of steps must look like for the tables to stay sound while
\* the plans stay.
LEMMA StepsMayBecome ==
    ASSUME RowsAreSound, NEW new \in Seq(StepRow \cup {Gone}), step' = new,
           UNCHANGED <<plan, used, conn>>,
           Len(new) <= MaxSteps, DOMAIN step \subseteq DOMAIN new,
           \A s \in used : new[s] # Gone,
           \A s \in DOMAIN step : new[s].plan \in {None, step[s].plan},
           \A s \in DOMAIN new : new[s] # Gone =>
              /\ new[s].plan \in LivePlans
              /\ new[s].ref # None => new[s].ref \in DOMAIN new /\ new[new[s].ref].plan = new[s].plan
              /\ new[s].name # None =>
                    \A t \in DOMAIN new : t # s /\ new[t].plan = new[s].plan => new[t].name # new[s].name
    PROVE  RowsAreSound' /\ IdsStay
<1>1. ASSUME NEW s \in used
      PROVE  s \in DOMAIN new /\ new[s] # Gone /\ plan[new[s].plan].runs
  <2>1. s \in DOMAIN step /\ s \in DOMAIN new /\ plan[step[s].plan].runs
    BY DEF RowsAreSound
  <2>2. new[s] \in StepRow
    BY <2>1
  <2>3. new[s].plan = step[s].plan
    BY <2>1, <2>2 DEF StepRow, None
  <2>. QED BY <2>1, <2>3
<1>2. RowsOK'
  BY DEF RowsAreSound, RowsOK
<1>3. \A s \in DOMAIN new : new[s] # Gone => new[s].plan \in DOMAIN plan /\ plan[new[s].plan].there
  BY DEF LivePlans
<1>4. RowsAreSound'
  BY <1>1, <1>2, <1>3 DEF RowsAreSound
<1>. QED BY <1>4 DEF IdsStay

LEMMA AddKeepsTables ==
    ASSUME RowsAreSound, NEW row \in StepRow, Storable(row, None), Len(step) < MaxSteps,
           row.ref # None => OfPlanOrGone(row.ref, row.plan),
           step' = Append(step, row), UNCHANGED <<plan, used, conn>>
    PROVE  RowsAreSound' /\ IdsStay
<1> DEFINE new == Append(step, row)
           n == Len(step) + 1
<1>1. RowsOK /\ MaxSteps \in Nat
  BY NamesOfRows DEF RowsAreSound
<1>2. new \in Seq(StepRow \cup {Gone}) /\ Len(new) = n /\ n \in Nat /\ DOMAIN new = 1..n
  BY <1>1 DEF RowsOK
<1>3. new[n] = row /\ \A s \in DOMAIN step : new[s] = step[s] /\ s \in DOMAIN new /\ s # n
  BY <1>1 DEF RowsOK
<1>4. DOMAIN new = DOMAIN step \cup {n} /\ None \notin DOMAIN step
  BY <1>1, <1>2, Tables DEF None
<1>5. row.plan \in LivePlans /\ row # Gone /\ row.plan # None
  BY DEF Storable, StepRow, Gone, None
<1>6. row.ref # None => row.ref \in DOMAIN step /\ step[row.ref].plan = row.plan
  BY DEF Storable, OfPlanOrGone, LiveSteps
<1>7. row.name # None => \A t \in DOMAIN step : step[t].plan = row.plan => step[t].name # row.name
  BY <1>4, <1>5 DEF Storable, IndexHolds, NameIsFree, StepsOf, LiveSteps
<1>8. ASSUME NEW s \in DOMAIN new, new[s] # Gone
      PROVE  /\ new[s].plan \in LivePlans
             /\ new[s].ref # None => new[s].ref \in DOMAIN new /\ new[new[s].ref].plan = new[s].plan
             /\ new[s].name # None =>
                   \A t \in DOMAIN new : t # s /\ new[t].plan = new[s].plan => new[t].name # new[s].name
  <2> HIDE DEF new, n
  <2>1. CASE s = n
    BY <2>1, <1>3, <1>4, <1>5, <1>6, <1>7
  <2>2. CASE s \in DOMAIN step
    <3>1. new[s] = step[s] /\ step[s] # Gone
      BY <2>2, <1>3, <1>8
    <3>2. step[s].plan \in LivePlans
      BY <2>2, <3>1 DEF RowsAreSound, LivePlans
    <3>3. step[s].ref # None => step[s].ref \in DOMAIN step /\ step[step[s].ref].plan = step[s].plan
      BY <2>2, <3>1 DEF RowsAreSound
    <3>4. step[s].name # None =>
             \A t \in DOMAIN step : t # s /\ step[t].plan = step[s].plan => step[t].name # step[s].name
      BY <2>2, <3>1 DEF RowsAreSound
    <3>5. step[s].name # None /\ row.plan = step[s].plan => row.name # step[s].name
      BY <2>2, <1>7
    <3>. QED BY <1>3, <1>4, <3>1, <3>2, <3>3, <3>4, <3>5
  <2>. QED BY <1>4, <2>1, <2>2
<1>9. \A s \in used : new[s] # Gone
  BY <1>3 DEF RowsAreSound
<1>10. Len(new) <= MaxSteps /\ DOMAIN step \subseteq DOMAIN new
       /\ \A s \in DOMAIN step : new[s].plan \in {None, step[s].plan}
  BY <1>1, <1>2, <1>3, <1>4, Tables
<1> HIDE DEF new
<1>11. step' = new
  BY DEF new
<1>. QED BY <1>2, <1>8, <1>9, <1>10, <1>11, StepsMayBecome

LEMMA ListOf ==
    ASSUME NEW S, NEW n \in Nat, NEW f \in [1..n -> S]
    PROVE  f \in Seq(S) /\ Len(f) = n /\ DOMAIN f = 1..n
  OBVIOUS

LEMMA UpdateKeepsTables ==
    ASSUME RowsAreSound, NEW own \in LiveSteps, NEW row \in StepRow, row.plan = step[own].plan,
           Storable(row, own), row.ref # None => OfPlanOrGone(row.ref, row.plan),
           step' = [step EXCEPT ![own] = row], UNCHANGED <<plan, used, conn>>
    PROVE  RowsAreSound' /\ IdsStay
<1> DEFINE new == [step EXCEPT ![own] = row]
<1>1. RowsOK /\ own \in DOMAIN step /\ step[own] \in StepRow
  BY Tables DEF RowsAreSound, LiveSteps
<1>2. new \in Seq(StepRow \cup {Gone}) /\ Len(new) = Len(step) /\ DOMAIN new = DOMAIN step
  BY <1>1 DEF RowsOK
<1>3. new[own] = row /\ \A s \in DOMAIN step \ {own} : new[s] = step[s]
  BY <1>1
<1>4. row.plan \in LivePlans /\ row # Gone /\ row.plan # None
  BY DEF Storable, StepRow, Gone, None
<1>5. row.ref # None => row.ref \in DOMAIN step /\ new[row.ref].plan = row.plan
  BY <1>3 DEF Storable, OfPlanOrGone, LiveSteps
<1>6. row.name # None =>
         \A t \in DOMAIN step \ {own} : step[t].plan = row.plan => step[t].name # row.name
  BY <1>4 DEF Storable, IndexHolds, NameIsFree, StepsOf, LiveSteps
<1>7. \A s \in DOMAIN step : new[s].plan = step[s].plan
  BY <1>3
<1>8. ASSUME NEW s \in DOMAIN new, new[s] # Gone
      PROVE  /\ new[s].plan \in LivePlans
             /\ new[s].ref # None => new[s].ref \in DOMAIN new /\ new[new[s].ref].plan = new[s].plan
             /\ new[s].name # None =>
                   \A t \in DOMAIN new : t # s /\ new[t].plan = new[s].plan => new[t].name # new[s].name
  <2> HIDE DEF new
  <2>1. CASE s = own
    BY <2>1, <1>2, <1>3, <1>4, <1>5, <1>6
  <2>2. CASE s # own
    <3>1. new[s] = step[s] /\ step[s] # Gone /\ s \in DOMAIN step
      BY <2>2, <1>2, <1>3, <1>8
    <3>2. step[s].plan \in LivePlans
      BY <3>1 DEF RowsAreSound, LivePlans
    <3>3. step[s].ref # None => step[s].ref \in DOMAIN step /\ new[step[s].ref].plan = step[s].plan
      BY <3>1, <1>7 DEF RowsAreSound
    <3>4. step[s].name # None =>
             \A t \in DOMAIN step : t # s /\ step[t].plan = step[s].plan => step[t].name # step[s].name
      BY <3>1 DEF RowsAreSound
    <3>5. step[s].name # None /\ row.plan = step[s].plan => row.name # step[s].name
      BY <2>2, <3>1, <1>6
    <3>. QED BY <1>2, <1>3, <3>1, <3>2, <3>3, <3>4, <3>5
  <2>. QED BY <2>1, <2>2
<1>9. \A s \in used : new[s] # Gone
  BY <1>3, <1>4 DEF RowsAreSound
<1>10. Len(new) <= MaxSteps /\ DOMAIN step \subseteq DOMAIN new
       /\ \A s \in DOMAIN step : new[s].plan \in {None, step[s].plan}
  BY <1>2, <1>7 DEF RowsAreSound
<1> HIDE DEF new
<1>11. step' = new
  BY DEF new
<1>. QED BY <1>2, <1>8, <1>9, <1>10, <1>11, StepsMayBecome

\* What is left of the steps when some are deleted.
LEMMA WithoutStepsLeaves ==
    ASSUME RowsAreSound, NEW S
    PROVE  /\ WithoutSteps(S) \in Seq(StepRow \cup {Gone})
           /\ Len(WithoutSteps(S)) = Len(step) /\ DOMAIN WithoutSteps(S) = DOMAIN step
           /\ \A s \in DOMAIN step :
                 /\ s \in S \/ step[s] = Gone <=> WithoutSteps(S)[s] = Gone
                 /\ s \notin S /\ step[s] # Gone =>
                       WithoutSteps(S)[s] = [step[s] EXCEPT !.ref = IF @ \in S THEN None ELSE @]
<1> DEFINE new == WithoutSteps(S)
<1>1. RowsOK
  BY DEF RowsAreSound
<1>2. \A s \in DOMAIN step : step[s] # Gone => step[s] \in StepRow
  BY <1>1, Tables
<1>3. ASSUME NEW s \in DOMAIN step
      PROVE  /\ s \in S \/ step[s] = Gone <=> new[s] = Gone
             /\ s \notin S /\ step[s] # Gone => new[s] = [step[s] EXCEPT !.ref = IF @ \in S THEN None ELSE @]
             /\ new[s] \in StepRow \cup {Gone}
  <2>1. new[s] = IF s \in S THEN Gone
                 ELSE IF step[s] # Gone /\ step[s].ref \in S
                      THEN [step[s] EXCEPT !.ref = None] ELSE step[s]
    BY DEF WithoutSteps
  <2>2. CASE s \in S \/ step[s] = Gone
    BY <2>1, <2>2
  <2>3. CASE s \notin S /\ step[s] # Gone
    <3>1. step[s] \in StepRow
      BY <1>2, <2>3
    <3>2. new[s] = [step[s] EXCEPT !.ref = IF @ \in S THEN None ELSE @]
      BY <2>1, <2>3, <3>1 DEF StepRow
    <3>3. new[s] \in StepRow
      BY <3>1, <3>2 DEF StepRow, None
    <3>4. new[s] # Gone
      BY <3>3 DEF StepRow, Gone, None
    <3>. QED BY <2>3, <3>2, <3>3, <3>4
  <2>. QED BY <2>2, <2>3
<1>4. new \in [1..Len(step) -> StepRow \cup {Gone}] /\ Len(step) \in Nat /\ DOMAIN step = 1..Len(step)
  <2>1. Len(step) \in Nat /\ DOMAIN step = 1..Len(step)
    BY <1>1, Tables
  <2>2. new = [s \in DOMAIN step |-> new[s]]
    BY DEF WithoutSteps
  <2> HIDE DEF new
  <2>. QED BY <1>3, <2>1, <2>2
<1> HIDE DEF new
<1>5. new \in Seq(StepRow \cup {Gone}) /\ Len(new) = Len(step) /\ DOMAIN new = DOMAIN step
  BY <1>4, ListOf
<1>. QED BY <1>3, <1>5 DEF new

\* The steps that are left refer to steps that are left, and keep their names.
LEMMA LeftStepsAgree ==
    ASSUME RowsAreSound, NEW S, NEW new, new = WithoutSteps(S)
    PROVE  /\ new \in Seq(StepRow \cup {Gone}) /\ Len(new) = Len(step) /\ DOMAIN new = DOMAIN step
           /\ \A s \in DOMAIN step : new[s].plan \in {None, step[s].plan}
           /\ \A s \in DOMAIN step : new[s] # Gone => s \notin S /\ step[s] # Gone
           /\ \A s \in DOMAIN step : s \notin S /\ step[s] # Gone => new[s] # Gone
           /\ \A s \in DOMAIN new : new[s] # Gone =>
                 /\ new[s].plan = step[s].plan
                 /\ new[s].ref # None => new[s].ref \in DOMAIN new /\ new[new[s].ref].plan = new[s].plan
                 /\ new[s].name # None =>
                       \A t \in DOMAIN new : t # s /\ new[t].plan = new[s].plan => new[t].name # new[s].name
<1>1. /\ new \in Seq(StepRow \cup {Gone}) /\ Len(new) = Len(step) /\ DOMAIN new = DOMAIN step
      /\ \A s \in DOMAIN step : s \in S \/ step[s] = Gone <=> new[s] = Gone
      /\ \A s \in DOMAIN step : s \notin S /\ step[s] # Gone =>
            new[s] = [step[s] EXCEPT !.ref = IF @ \in S THEN None ELSE @]
  BY WithoutStepsLeaves
<1>2. \A s \in DOMAIN step : step[s] # Gone => step[s] \in StepRow
  BY Tables DEF RowsAreSound
<1>3. ASSUME NEW s \in DOMAIN step, new[s] # Gone
      PROVE  /\ s \notin S /\ step[s] # Gone /\ new[s].plan = step[s].plan /\ new[s].plan # None
             /\ new[s].name = step[s].name
             /\ new[s].ref = IF step[s].ref \in S THEN None ELSE step[s].ref
  <2>1. s \notin S /\ step[s] # Gone /\ step[s] \in StepRow
    BY <1>1, <1>2, <1>3
  <2>2. new[s] = [step[s] EXCEPT !.ref = IF @ \in S THEN None ELSE @]
    BY <1>1, <2>1
  <2>. QED BY <2>1, <2>2 DEF StepRow, None
<1>4. Gone.plan = None
  BY DEF Gone
<1>5. \A s \in DOMAIN step : new[s].plan \in {None, step[s].plan}
  BY <1>3, <1>4
<1>6. ASSUME NEW s \in DOMAIN step, new[s] # Gone, new[s].ref # None
      PROVE  new[s].ref \in DOMAIN new /\ new[new[s].ref].plan = new[s].plan
  <2> DEFINE q == step[s].ref
  <2>1. new[s].ref = q /\ q \notin S /\ q # None /\ new[s].plan = step[s].plan /\ step[s] # Gone
        /\ step[s].plan # None
    BY <1>3, <1>6
  <2>2. q \in DOMAIN step /\ step[q].plan = step[s].plan
    BY <2>1 DEF RowsAreSound
  <2>3. step[q] # Gone
    BY <1>4, <2>1, <2>2
  <2>4. new[q] # Gone
    BY <1>1, <2>1, <2>2, <2>3
  <2>5. new[q].plan = step[q].plan
    BY <1>3, <2>2, <2>4
  <2>. QED BY <1>1, <2>1, <2>2, <2>5
<1>7. ASSUME NEW s \in DOMAIN step, new[s] # Gone, new[s].name # None,
             NEW t \in DOMAIN step, t # s, new[t].plan = new[s].plan
      PROVE  new[t].name # new[s].name
  <2>1. new[t] # Gone
    BY <1>3, <1>4, <1>7
  <2>2. step[t].plan = step[s].plan /\ step[s].name # None /\ step[s] # Gone
        /\ new[t].name = step[t].name /\ new[s].name = step[s].name
    BY <1>3, <1>7, <2>1
  <2>. QED BY <1>7, <2>2 DEF RowsAreSound
<1>. QED BY <1>1, <1>3, <1>5, <1>6, <1>7

LEMMA DeleteKeepsTables ==
    ASSUME RowsAreSound, NEW own \in LiveSteps \ used, step' = WithoutSteps({own}),
           UNCHANGED <<plan, used, conn>>
    PROVE  RowsAreSound' /\ IdsStay
<1> DEFINE new == WithoutSteps({own})
<1>1. /\ new \in Seq(StepRow \cup {Gone}) /\ Len(new) = Len(step) /\ DOMAIN new = DOMAIN step
      /\ \A s \in DOMAIN step : new[s].plan \in {None, step[s].plan}
      /\ \A s \in DOMAIN step : new[s] # Gone => s \notin {own} /\ step[s] # Gone
      /\ \A s \in DOMAIN step : s \notin {own} /\ step[s] # Gone => new[s] # Gone
      /\ \A s \in DOMAIN new : new[s] # Gone =>
            /\ new[s].plan = step[s].plan
            /\ new[s].ref # None => new[s].ref \in DOMAIN new /\ new[new[s].ref].plan = new[s].plan
            /\ new[s].name # None =>
                  \A t \in DOMAIN new : t # s /\ new[t].plan = new[s].plan => new[t].name # new[s].name
  BY LeftStepsAgree
<1> HIDE DEF new
<1>2. \A s \in used : new[s] # Gone
  BY <1>1 DEF RowsAreSound
<1>3. \A s \in DOMAIN new : new[s] # Gone => new[s].plan \in LivePlans
  BY <1>1 DEF RowsAreSound, LivePlans
<1>4. step' = new /\ Len(new) <= MaxSteps
  BY <1>1 DEF new, RowsAreSound
<1>. QED BY <1>1, <1>2, <1>3, <1>4, StepsMayBecome

LEMMA DropKeepsTables ==
    ASSUME RowsAreSound, NEW p \in LivePlans, ~plan[p].runs,
           plan' = [plan EXCEPT ![p] = [there |-> FALSE, out |-> None, runs |-> @.runs]],
           step' = WithoutSteps(StepsOf(p)), UNCHANGED <<used, conn>>
    PROVE  RowsAreSound' /\ IdsStay
<1>1. /\ step' \in Seq(StepRow \cup {Gone}) /\ Len(step') = Len(step) /\ DOMAIN step' = DOMAIN step
      /\ \A s \in DOMAIN step : step'[s].plan \in {None, step[s].plan}
      /\ \A s \in DOMAIN step : step'[s] # Gone => s \notin StepsOf(p) /\ step[s] # Gone
      /\ \A s \in DOMAIN step : s \notin StepsOf(p) /\ step[s] # Gone => step'[s] # Gone
      /\ \A s \in DOMAIN step' : step'[s] # Gone =>
            /\ step'[s].plan = step[s].plan
            /\ step'[s].ref # None => /\ step'[s].ref \in DOMAIN step'
                                      /\ step'[step'[s].ref].plan = step'[s].plan
            /\ step'[s].name # None =>
                  \A t \in DOMAIN step' : t # s /\ step'[t].plan = step'[s].plan
                                          => step'[t].name # step'[s].name
  BY LeftStepsAgree
<1>2. RowsOK /\ p \in DOMAIN plan /\ plan[p] \in PlanRow
  BY Tables DEF RowsAreSound, LivePlans
<1>3. plan' \in Seq(PlanRow) /\ Len(plan') = Len(plan) /\ DOMAIN plan' = DOMAIN plan
  <2>1. [there |-> FALSE, out |-> None, runs |-> plan[p].runs] \in PlanRow
    BY <1>2 DEF PlanRow
  <2>. QED BY <1>2, <2>1 DEF RowsOK
<1>4. \A o \in DOMAIN plan \ {p} : plan'[o] = plan[o]
  BY <1>2
<1>5. ~plan'[p].runs
  BY <1>2
<1>6. RowsOK'
  BY <1>1, <1>2, <1>3 DEF RowsOK
<1>7. \A s \in DOMAIN step : step[s] # Gone /\ step[s].plan = p => s \in StepsOf(p)
  BY <1>2, Tables DEF StepsOf
<1>8. ASSUME NEW s \in used
      PROVE  s \in DOMAIN step' /\ step'[s] # Gone /\ plan'[step'[s].plan].runs
  <2>1. s \in DOMAIN step /\ step[s] # Gone /\ plan[step[s].plan].runs
    BY DEF RowsAreSound
  <2>2. s \notin StepsOf(p) /\ step[s].plan \in DOMAIN plan \ {p}
    BY <2>1 DEF StepsOf, RowsAreSound
  <2>3. step'[s] # Gone /\ step'[s].plan = step[s].plan
    BY <1>1, <2>1, <2>2
  <2>. QED BY <1>1, <1>4, <2>1, <2>2, <2>3
<1>9. ASSUME NEW s \in DOMAIN step', step'[s] # Gone
      PROVE  step'[s].plan \in DOMAIN plan' /\ plan'[step'[s].plan].there
  <2>1. s \in DOMAIN step /\ step[s] # Gone /\ s \notin StepsOf(p) /\ step'[s].plan = step[s].plan
    BY <1>1, <1>9
  <2>2. step[s].plan \in DOMAIN plan \ {p} /\ plan[step[s].plan].there
    BY <1>7, <2>1 DEF RowsAreSound
  <2>. QED BY <1>3, <1>4, <2>1, <2>2
<1>10. \A o \in DOMAIN plan' : plan'[o].runs => plan'[o].there
  BY <1>3, <1>4, <1>5 DEF RowsAreSound
<1>11. Len(plan') <= MaxPlans /\ Len(step') <= MaxSteps
  BY <1>1, <1>3 DEF RowsAreSound
<1>12. used' = used
  OBVIOUS
<1>13. RowsAreSound'
  BY <1>1, <1>6, <1>8, <1>9, <1>10, <1>11, <1>12 DEF RowsAreSound
<1>. QED BY <1>1, <1>13 DEF IdsStay

\* A reorder writes the sequence numbers it was given, and nothing else.
LEMMA ReorderKeepsTables ==
    ASSUME RowsAreSound, NEW order, {m[1] : m \in order} \subseteq LiveSteps,
           \A m \in order : m[2] \in Nat \ {0},
           step' = [s \in DOMAIN step |->
                       IF s \in {m[1] : m \in order}
                       THEN [step[s] EXCEPT !.seq = (CHOOSE m \in order : m[1] = s)[2]]
                       ELSE step[s]],
           UNCHANGED <<plan, used, conn>>
    PROVE  /\ RowsAreSound' /\ IdsStay
           /\ DOMAIN step' = DOMAIN step
           /\ \A s \in DOMAIN step : step[s] # Gone =>
                 step'[s] = [step[s] EXCEPT !.seq = Renumbered(order, s)]
           /\ \A s \in DOMAIN step : step[s] = Gone => step'[s] = Gone
<1> DEFINE moved == {m[1] : m \in order}
<1>1. RowsOK /\ \A s \in DOMAIN step : step[s] # Gone => step[s] \in StepRow
  BY Tables DEF RowsAreSound
<1>2. \A s \in moved : Renumbered(order, s) \in Nat \ {0}
  BY DEF Renumbered
<1>3. ASSUME NEW s \in DOMAIN step, step[s] # Gone
      PROVE  /\ step'[s] = [step[s] EXCEPT !.seq = Renumbered(order, s)]
             /\ step'[s] \in StepRow
  <2>1. step[s] \in StepRow
    BY <1>1, <1>3
  <2>2. CASE s \in moved
    <3>1. step'[s] = [step[s] EXCEPT !.seq = Renumbered(order, s)]
      BY <2>2 DEF Renumbered
    <3>. QED BY <1>2, <2>1, <2>2, <3>1 DEF StepRow
  <2>3. CASE s \notin moved
    <3>1. step'[s] = step[s] /\ Renumbered(order, s) = step[s].seq
      BY <2>3 DEF Renumbered
    <3>2. step[s] = [step[s] EXCEPT !.seq = step[s].seq]
      BY <2>1 DEF StepRow
    <3>. QED BY <2>1, <3>1, <3>2
  <2>. QED BY <2>2, <2>3
<1>4. \A s \in DOMAIN step : step[s] = Gone => step'[s] = Gone
  <2>1. \A s \in DOMAIN step : step[s] = Gone => s \notin moved
    BY DEF LiveSteps, Gone
  <2>. QED BY <2>1
<1>5. \A s \in DOMAIN step :
         /\ step'[s].plan = step[s].plan /\ (step'[s] = Gone <=> step[s] = Gone)
         /\ step[s] # Gone => step'[s].ref = step[s].ref /\ step'[s].name = step[s].name
  <2>1. \A s \in DOMAIN step : step'[s] \in StepRow => step'[s] # Gone
    BY DEF StepRow, Gone, None
  <2>. QED BY <1>1, <1>3, <1>4, <2>1 DEF StepRow
<1>6. step' \in Seq(StepRow \cup {Gone}) /\ Len(step') = Len(step) /\ DOMAIN step' = DOMAIN step
  <2>1. DOMAIN step = 1..Len(step) /\ Len(step) \in Nat
    BY <1>1, Tables
  <2>2. step' = [s \in DOMAIN step |-> step'[s]]
    OBVIOUS
  <2>3. step' \in [1..Len(step) -> StepRow \cup {Gone}]
    BY <1>3, <1>4, <2>1, <2>2
  <2>. QED BY <2>1, <2>3, ListOf
<1>7. ASSUME NEW s \in DOMAIN step', step'[s] # Gone
      PROVE  /\ step'[s].plan \in LivePlans
             /\ step'[s].ref # None => /\ step'[s].ref \in DOMAIN step'
                                       /\ step'[step'[s].ref].plan = step'[s].plan
             /\ step'[s].name # None =>
                   \A t \in DOMAIN step' : t # s /\ step'[t].plan = step'[s].plan
                                           => step'[t].name # step'[s].name
  <2>1. s \in DOMAIN step /\ step[s] # Gone
    BY <1>5, <1>6, <1>7
  <2>2. step'[s].plan \in LivePlans
    BY <1>5, <2>1 DEF RowsAreSound, LivePlans
  <2>3. step'[s].ref # None => /\ step'[s].ref \in DOMAIN step'
                               /\ step'[step'[s].ref].plan = step'[s].plan
    BY <1>5, <1>6, <2>1 DEF RowsAreSound
  <2>4. ASSUME step'[s].name # None, NEW t \in DOMAIN step', t # s, step'[t].plan = step'[s].plan
        PROVE  step'[t].name # step'[s].name
    <3>1. step[t].plan = step[s].plan /\ step[s].plan # None /\ t \in DOMAIN step
      BY <1>1, <1>5, <1>6, <2>1, <2>4 DEF StepRow, None
    <3>2. step[t] # Gone
      BY <3>1 DEF Gone
    <3>3. step[s].name # None => step[t].name # step[s].name
      BY <2>1, <2>4, <3>1 DEF RowsAreSound
    <3>. QED BY <1>5, <2>1, <2>4, <3>1, <3>2, <3>3
  <2>. QED BY <2>2, <2>3, <2>4
<1>8. \A s \in used : step'[s] # Gone
  BY <1>5 DEF RowsAreSound
<1>9. Len(step') <= MaxSteps
  BY <1>6 DEF RowsAreSound
<1>10. RowsAreSound' /\ IdsStay
  <2> DEFINE new == step'
  <2> HIDE DEF new
  <2>1. /\ step' = new /\ new \in Seq(StepRow \cup {Gone}) /\ Len(new) <= MaxSteps
        /\ DOMAIN step \subseteq DOMAIN new /\ \A s \in used : new[s] # Gone
        /\ \A s \in DOMAIN step : new[s].plan \in {None, step[s].plan}
    BY <1>5, <1>6, <1>8, <1>9 DEF new
  <2>2. \A s \in DOMAIN new : new[s] # Gone =>
            /\ new[s].plan \in LivePlans
            /\ new[s].ref # None => new[s].ref \in DOMAIN new /\ new[new[s].ref].plan = new[s].plan
            /\ new[s].name # None =>
                  \A t \in DOMAIN new : t # s /\ new[t].plan = new[s].plan => new[t].name # new[s].name
    BY <1>7 DEF new
  <2>. QED BY <2>1, <2>2, StepsMayBecome
<1>. QED BY <1>3, <1>4, <1>6, <1>10

-----------------------------------------------------------------------------
(* Commits that leave the steps alone.                                      *)

\* The plans may change in their output and gain runs, and grow by one.
LEMMA PlansMayBecome ==
    ASSUME RowsAreSound, NEW new \in Seq(PlanRow), plan' = new, UNCHANGED <<step, used>>,
           conn' \in [Conns -> {"in", "out", "both", "gone"}],
           Len(new) <= MaxPlans, DOMAIN plan \subseteq DOMAIN new,
           \A p \in DOMAIN plan : /\ plan[p].there => new[p].there
                                  /\ plan[p].runs => new[p].runs,
           \A p \in DOMAIN new : new[p].runs => new[p].there
    PROVE  RowsAreSound' /\ IdsStay
<1>1. RowsOK'
  BY DEF RowsAreSound, RowsOK
<1>2. ASSUME NEW s \in DOMAIN step, step[s] # Gone
      PROVE  step[s].plan \in DOMAIN new /\ new[step[s].plan].there
  BY <1>2 DEF RowsAreSound
<1>3. \A s \in used : new[step[s].plan].runs
  BY DEF RowsAreSound
<1>4. RowsAreSound'
  BY <1>1, <1>2, <1>3 DEF RowsAreSound
<1>. QED BY <1>4 DEF IdsStay

LEMMA CreateKeepsTables ==
    ASSUME RowsAreSound, Len(plan) < MaxPlans, NEW i \in Conns \cup {None},
           plan' = Append(plan, [there |-> TRUE, out |-> i, runs |-> FALSE]),
           UNCHANGED <<step, used, conn>>
    PROVE  RowsAreSound' /\ IdsStay
<1> DEFINE row == [there |-> TRUE, out |-> i, runs |-> FALSE]
           new == Append(plan, row)
<1>1. row \in PlanRow /\ plan \in Seq(PlanRow) /\ row.there
  BY DEF PlanRow, RowsAreSound, RowsOK
<1> HIDE DEF row
<1>2. /\ new \in Seq(PlanRow) /\ Len(new) = Len(plan) + 1 /\ DOMAIN new = DOMAIN plan \cup {Len(plan) + 1}
      /\ \A p \in DOMAIN plan : new[p] = plan[p]
      /\ new[Len(plan) + 1] = row
  BY <1>1
<1>3. Len(new) <= MaxPlans
  BY <1>1, <1>2, NamesOfRows
<1>4. \A p \in DOMAIN new : new[p].runs => new[p].there
  BY <1>1, <1>2 DEF RowsAreSound
<1>5. plan' = new /\ conn' \in [Conns -> {"in", "out", "both", "gone"}]
  BY DEF row, RowsAreSound, RowsOK
<1> HIDE DEF new
<1>. QED BY <1>2, <1>3, <1>4, <1>5, PlansMayBecome

LEMMA OutputKeepsTables ==
    ASSUME RowsAreSound, NEW p \in LivePlans, NEW i \in Conns \cup {None},
           plan' = [plan EXCEPT ![p].out = i], UNCHANGED <<step, used, conn>>
    PROVE  RowsAreSound' /\ IdsStay
<1> DEFINE new == [plan EXCEPT ![p].out = i]
<1>1. p \in DOMAIN plan /\ plan \in Seq(PlanRow) /\ plan[p] \in PlanRow
  BY DEF LivePlans, RowsAreSound, RowsOK
<1>2. /\ new \in Seq(PlanRow) /\ Len(new) = Len(plan) /\ DOMAIN new = DOMAIN plan
      /\ \A o \in DOMAIN plan : new[o].there = plan[o].there /\ new[o].runs = plan[o].runs
  BY <1>1 DEF PlanRow
<1>3. plan' = new /\ conn' \in [Conns -> {"in", "out", "both", "gone"}]
  BY DEF RowsAreSound, RowsOK
<1> HIDE DEF new
<1>. QED BY <1>2, <1>3, PlansMayBecome DEF RowsAreSound

LEMMA RunKeepsTables ==
    ASSUME RowsAreSound, NEW p \in LivePlans,
           plan' = [plan EXCEPT ![p].runs = TRUE], UNCHANGED <<step, used, conn>>
    PROVE  RowsAreSound' /\ IdsStay
<1> DEFINE new == [plan EXCEPT ![p].runs = TRUE]
<1>1. p \in DOMAIN plan /\ plan \in Seq(PlanRow) /\ plan[p] \in PlanRow /\ plan[p].there
  BY DEF LivePlans, RowsAreSound, RowsOK
<1>2. /\ new \in Seq(PlanRow) /\ Len(new) = Len(plan) /\ DOMAIN new = DOMAIN plan
      /\ \A o \in DOMAIN plan : /\ new[o].there = plan[o].there
                                /\ o # p => new[o].runs = plan[o].runs
                                /\ o = p => new[o].runs = TRUE
  <2> DEFINE row == [plan[p] EXCEPT !.runs = TRUE]
  <2>1. row \in PlanRow /\ row.there = plan[p].there /\ row.runs = TRUE
    BY <1>1 DEF PlanRow
  <2>2. new = [plan EXCEPT ![p] = row]
    OBVIOUS
  <2> HIDE DEF row, new
  <2>3. /\ new \in Seq(PlanRow) /\ Len(new) = Len(plan) /\ DOMAIN new = DOMAIN plan
        /\ new[p] = row /\ \A o \in DOMAIN plan : o # p => new[o] = plan[o]
    BY <1>1, <2>1, <2>2
  <2>. QED BY <2>1, <2>3, Zenon
<1>3. plan' = new /\ conn' \in [Conns -> {"in", "out", "both", "gone"}]
  BY DEF RowsAreSound, RowsOK
<1> HIDE DEF new
<1>. QED BY <1>1, <1>2, <1>3, PlansMayBecome DEF RowsAreSound

LEMMA UnplugKeepsTables ==
    ASSUME RowsAreSound, NEW i \in Conns, conn' = [conn EXCEPT ![i] = "gone"],
           plan' = [p \in DOMAIN plan |-> IF plan[p].out = i THEN [plan[p] EXCEPT !.out = None]
                                          ELSE plan[p]],
           UNCHANGED <<step, used>>
    PROVE  RowsAreSound' /\ IdsStay
<1> DEFINE new == [p \in DOMAIN plan |-> IF plan[p].out = i THEN [plan[p] EXCEPT !.out = None]
                                         ELSE plan[p]]
<1>1. plan \in Seq(PlanRow) /\ DOMAIN plan = 1..Len(plan) /\ Len(plan) \in Nat
  BY Tables DEF RowsAreSound, RowsOK
<1>2. ASSUME NEW p \in DOMAIN plan
      PROVE  new[p] \in PlanRow /\ new[p].there = plan[p].there /\ new[p].runs = plan[p].runs
  <2>1. plan[p] \in PlanRow
    BY <1>1
  <2>2. CASE plan[p].out = i
    <3>1. new[p] = [plan[p] EXCEPT !.out = None]
      BY <2>2
    <3> HIDE DEF new
    <3>. QED BY <2>1, <3>1 DEF PlanRow
  <2>3. CASE plan[p].out # i
    BY <2>1, <2>3
  <2>. QED BY <2>2, <2>3
<1>3. new \in [1..Len(plan) -> PlanRow]
  BY <1>1, <1>2
<1> HIDE DEF new
<1>4. new \in Seq(PlanRow) /\ Len(new) = Len(plan) /\ DOMAIN new = DOMAIN plan
  BY <1>1, <1>3, ListOf
<1>5. plan' = new /\ conn' \in [Conns -> {"in", "out", "both", "gone"}]
  BY DEF new, RowsAreSound, RowsOK
<1>. QED BY <1>2, <1>4, <1>5, PlansMayBecome DEF RowsAreSound

LEMMA DirectionKeepsTables ==
    ASSUME RowsAreSound, NEW i \in Conns, NEW d \in {"in", "out", "both"},
           conn' = [conn EXCEPT ![i] = d], UNCHANGED <<plan, step, used>>
    PROVE  RowsAreSound' /\ IdsStay
<1>1. conn' \in [Conns -> {"in", "out", "both", "gone"}] /\ plan \in Seq(PlanRow)
  BY DEF RowsAreSound, RowsOK
<1>. QED BY <1>1, PlansMayBecome DEF RowsAreSound

LEMMA JobsKeepTables ==
    ASSUME RowsAreSound, NEW s \in LiveSteps \ used, plan[step[s].plan].runs,
           used' = used \cup {s}, UNCHANGED <<plan, step, conn>>
    PROVE  RowsAreSound' /\ IdsStay
<1>1. s \in DOMAIN step /\ step[s] # Gone
  BY Tables DEF RowsAreSound, LiveSteps
<1>2. RowsAreSound'
  BY <1>1 DEF RowsAreSound, RowsOK
<1>. QED BY <1>2 DEF IdsStay

-----------------------------------------------------------------------------
(* Duplicates.                                                              *)

\* The copies of a plan's steps: of the new plan, with the names of the
\* originals, and with references among themselves.
LEMMA ClonedRows ==
    ASSUME RowsAreSound, NEW p \in LivePlans
    PROVE  LET n == Cardinality(StepsOf(p))
               copies == Cloned(InOrder(p), Len(plan) + 1, Len(step))
           IN /\ n \in Nat /\ copies \in Seq(StepRow) /\ Len(copies) = n /\ DOMAIN copies = 1..n
              /\ \A k \in 1..n :
                    /\ copies[k].plan = Len(plan) + 1
                    /\ copies[k].name = step[InOrder(p)[k]].name
                    /\ copies[k].ref = None \/ \E j \in 1..n : copies[k].ref = Len(step) + j
<1> DEFINE n == Cardinality(StepsOf(p))
           rows == InOrder(p)
           new == Len(plan) + 1
           copies == Cloned(rows, new, Len(step))
           Ref(k) == IF \E j \in DOMAIN rows : rows[j] = step[rows[k]].ref
                     THEN Len(step) + (CHOOSE j \in DOMAIN rows : rows[j] = step[rows[k]].ref)
                     ELSE None
<1>1. RowsOK
  BY DEF RowsAreSound
<1>2. n \in Nat /\ rows \in [1..n -> StepsOf(p)] /\ DOMAIN rows = 1..n
  BY <1>1, StepsOfPlan, InOrderLists
<1>3. new \in Nat \ {0} /\ Len(step) \in Nat
  BY <1>1, Tables
<1>4. \A k \in 1..n : rows[k] \in DOMAIN step /\ step[rows[k]] \in StepRow
  BY <1>1, <1>2, Tables DEF StepsOf, LiveSteps
<1>5. ASSUME NEW k \in 1..n
      PROVE  Ref(k) = None \/ \E j \in 1..n : Ref(k) = Len(step) + j
  <2> HIDE DEF rows, n
  <2>. QED BY <1>2
<1>6. \A k \in 1..n : Ref(k) \in Nat
  <2> HIDE DEF Ref, n
  <2>. QED BY <1>2, <1>3, <1>5 DEF None
<1>7. ASSUME NEW k \in 1..n
      PROVE  copies[k] = [step[rows[k]] EXCEPT !.plan = new, !.ref = Ref(k)]
  <2>1. copies[k] = [step[rows[k]] EXCEPT !.plan = new,
            !.ref = IF \E j \in DOMAIN rows : rows[j] = @
                    THEN Len(step) + (CHOOSE j \in DOMAIN rows : rows[j] = @) ELSE None]
    BY <1>2 DEF Cloned
  <2> HIDE DEF copies, rows, n, new
  <2>. QED BY <2>1, <1>4 DEF StepRow
<1>8. copies = [k \in 1..n |-> copies[k]]
  BY <1>2 DEF Cloned
<1> HIDE DEF copies, rows, n, new, Ref
<1>9. \A k \in 1..n : copies[k] \in StepRow /\ copies[k].plan = new /\ copies[k].ref = Ref(k)
                      /\ copies[k].name = step[rows[k]].name
  <2>1. TAKE k \in 1..n
  <2> DEFINE r == step[rows[k]]
             q == Ref(k)
             c == copies[k]
  <2>2. r \in StepRow /\ q \in Nat /\ c = [r EXCEPT !.plan = new, !.ref = q]
    BY <1>4, <1>6, <1>7
  <2>3. c \in StepRow /\ c.plan = new /\ c.ref = q /\ c.name = r.name
    <3> HIDE DEF r, q, c
    <3>. QED BY <1>3, <2>2 DEF StepRow
  <2>. QED BY <2>3
<1>10. copies \in [1..n -> StepRow]
  BY <1>8, <1>9
<1>11. copies \in Seq(StepRow) /\ Len(copies) = n /\ DOMAIN copies = 1..n
  BY <1>2, <1>10, ListOf
<1>12. \A k \in 1..n : copies[k].ref = None \/ \E j \in 1..n : copies[k].ref = Len(step) + j
  BY <1>5, <1>9
<1>. QED BY <1>2, <1>9, <1>11, <1>12 DEF copies, rows, n, new

LEMMA DuplicateKeepsTables ==
    ASSUME RowsAreSound, NEW p \in LivePlans, Len(plan) < MaxPlans,
           Len(step) + Cardinality(StepsOf(p)) <= MaxSteps,
           plan' = Append(plan, [plan[p] EXCEPT !.runs = FALSE]),
           step' = step \o Cloned(InOrder(p), Len(plan) + 1, Len(step)),
           UNCHANGED <<used, conn>>
    PROVE  /\ RowsAreSound' /\ IdsStay
           /\ \A s \in DOMAIN step : step'[s] = step[s]
           /\ \A s \in DOMAIN step' \ DOMAIN step : step'[s].plan = Len(plan) + 1
           /\ DOMAIN plan' = DOMAIN plan \cup {Len(plan) + 1}
           /\ \A o \in DOMAIN plan : plan'[o] = plan[o]
<1> DEFINE n == Cardinality(StepsOf(p))
           rows == InOrder(p)
           new == Len(plan) + 1
           base == Len(step)
           copies == Cloned(rows, new, base)
<1>1. RowsOK /\ DOMAIN step = 1..base /\ base \in Nat /\ step \in Seq(StepRow \cup {Gone})
      /\ DOMAIN plan = 1..Len(plan) /\ Len(plan) \in Nat /\ plan \in Seq(PlanRow)
  BY Tables DEF RowsAreSound, RowsOK
<1>2. /\ n \in Nat /\ copies \in Seq(StepRow) /\ Len(copies) = n /\ DOMAIN copies = 1..n
      /\ \A k \in 1..n :
            /\ copies[k].plan = new /\ copies[k].name = step[rows[k]].name
            /\ copies[k].ref = None \/ \E j \in 1..n : copies[k].ref = base + j
  BY ClonedRows
<1>3. rows \in [1..n -> StepsOf(p)] /\ \A i, j \in 1..n : i # j => rows[i] # rows[j]
  BY <1>1, InOrderLists
<1>4. p \in DOMAIN plan /\ plan[p] \in PlanRow /\ plan[p].there
  BY <1>1 DEF LivePlans
<1>5. step' = step \o copies
  OBVIOUS
<1> HIDE DEF copies, rows, n, base
<1>6. /\ step' \in Seq(StepRow \cup {Gone}) /\ Len(step') = base + n /\ DOMAIN step' = 1..(base + n)
      /\ \A s \in DOMAIN step : step'[s] = step[s]
      /\ \A k \in 1..n : step'[base + k] = copies[k]
  <2> DEFINE S == StepRow \cup {Gone}
  <2>1. copies \in Seq(S) /\ step \in Seq(S)
    BY <1>1, <1>2
  <2> HIDE DEF S
  <2>2. /\ step' \in Seq(S) /\ Len(step') = Len(step) + Len(copies)
        /\ DOMAIN step' = 1..(Len(step) + Len(copies))
        /\ \A s \in 1..Len(step) : step'[s] = step[s]
        /\ \A k \in 1..Len(copies) : step'[Len(step) + k] = copies[k]
    <3>1. /\ step \o copies \in Seq(S) /\ Len(step \o copies) = Len(step) + Len(copies)
          /\ DOMAIN (step \o copies) = 1..(Len(step) + Len(copies))
          /\ \A s \in 1..Len(step) : (step \o copies)[s] = step[s]
          /\ \A k \in 1..Len(copies) : (step \o copies)[Len(step) + k] = copies[k]
      BY <2>1
    <3>. QED BY <1>5, <3>1
  <2>. QED BY <1>1, <1>2, <2>2 DEF S, base
<1>7. \A s \in DOMAIN step' : s \in DOMAIN step \/ \E k \in 1..n : s = base + k
  <2>1. ASSUME NEW s \in 1..(base + n), s \notin 1..base
        PROVE  s - base \in 1..n /\ s = base + (s - base)
    BY <1>1, <1>2, <2>1
  <2>. QED BY <1>1, <1>6, <2>1
<1>8. \A k \in 1..n : base + k \in DOMAIN step' /\ base + k \notin DOMAIN step
  BY <1>1, <1>2, <1>6
<1>9. /\ plan' \in Seq(PlanRow) /\ Len(plan') = new /\ DOMAIN plan' = DOMAIN plan \cup {new}
      /\ \A o \in DOMAIN plan : plan'[o] = plan[o]
      /\ plan'[new].there /\ ~plan'[new].runs /\ new \notin DOMAIN plan /\ new # None
  <2> DEFINE row == [plan[p] EXCEPT !.runs = FALSE]
  <2>1. row \in PlanRow /\ row.there /\ ~row.runs
    BY <1>4 DEF PlanRow
  <2> HIDE DEF row
  <2>2. plan' = Append(plan, row)
    BY DEF row
  <2>3. /\ plan' \in Seq(PlanRow) /\ Len(plan') = new /\ DOMAIN plan' = DOMAIN plan \cup {new}
        /\ \A o \in DOMAIN plan : plan'[o] = plan[o]
        /\ plan'[new] = row /\ new \notin DOMAIN plan /\ new # None
    BY <1>1, <2>1, <2>2 DEF None
  <2>. QED BY <2>1, <2>3
<1>10. \A s \in DOMAIN step : step[s].plan # new
  <2>1. \A s \in DOMAIN step : step[s] # Gone => step[s].plan \in DOMAIN plan
    BY DEF RowsAreSound
  <2>. QED BY <1>9, <2>1 DEF Gone
<1>11. \A k \in 1..n : rows[k] \in DOMAIN step /\ step[rows[k]].plan = p /\ step[rows[k]] # Gone
  BY <1>1, <1>3, Tables DEF StepsOf, LiveSteps
<1>12. RowsOK'
  BY <1>1, <1>6, <1>9 DEF RowsOK
<1>13. Len(plan') <= MaxPlans /\ Len(step') <= MaxSteps
  BY <1>1, <1>6, <1>9, NamesOfRows DEF n, base
<1>14. \A s \in used : s \in DOMAIN step' /\ step'[s] # Gone /\ plan'[step'[s].plan].runs
  <2>1. \A s \in used : s \in DOMAIN step /\ step[s] # Gone /\ plan[step[s].plan].runs
                        /\ step[s].plan \in DOMAIN plan
    BY DEF RowsAreSound
  <2>. QED BY <1>1, <1>2, <1>6, <1>9, <2>1
<1>15. ASSUME NEW s \in DOMAIN step', step'[s] # Gone
       PROVE  /\ step'[s].plan \in DOMAIN plan' /\ plan'[step'[s].plan].there
              /\ step'[s].ref # None => /\ step'[s].ref \in DOMAIN step'
                                        /\ step'[step'[s].ref].plan = step'[s].plan
              /\ step'[s].name # None =>
                    \A t \in DOMAIN step' : t # s /\ step'[t].plan = step'[s].plan
                                            => step'[t].name # step'[s].name
  <2>1. CASE s \in DOMAIN step
    <3>1. step'[s] = step[s] /\ step[s] # Gone
      BY <1>6, <1>15, <2>1
    <3>2. /\ step[s].plan \in DOMAIN plan /\ plan[step[s].plan].there
          /\ step[s].ref # None => step[s].ref \in DOMAIN step /\ step[step[s].ref].plan = step[s].plan
      BY <2>1, <3>1 DEF RowsAreSound
    <3>3. ASSUME step[s].name # None, NEW t \in DOMAIN step', t # s, step'[t].plan = step[s].plan
          PROVE  step'[t].name # step[s].name
      <4>1. t \in DOMAIN step
        BY <1>2, <1>6, <1>7, <1>10, <2>1, <3>3
      <4>2. step'[t] = step[t] /\ step[t].plan = step[s].plan
        BY <1>6, <3>3, <4>1
      <4>. QED BY <2>1, <3>1, <3>3, <4>1, <4>2 DEF RowsAreSound
    <3>4. step[s].ref # None => step[s].ref \in DOMAIN step' /\ step'[step[s].ref].plan = step[s].plan
      BY <1>1, <1>2, <1>6, <3>2
    <3>5. step[s].plan \in DOMAIN plan' /\ plan'[step[s].plan].there
      BY <1>9, <3>2
    <3>. QED BY <3>1, <3>3, <3>4, <3>5
  <2>2. ASSUME NEW k \in 1..n, s = base + k
        PROVE  /\ step'[s].plan \in DOMAIN plan' /\ plan'[step'[s].plan].there
               /\ step'[s].ref # None => /\ step'[s].ref \in DOMAIN step'
                                         /\ step'[step'[s].ref].plan = step'[s].plan
               /\ step'[s].name # None =>
                     \A t \in DOMAIN step' : t # s /\ step'[t].plan = step'[s].plan
                                             => step'[t].name # step'[s].name
    <3>1. step'[s] = copies[k] /\ step'[s].plan = new
      BY <1>2, <1>6, <2>2
    <3>2. step'[s].ref # None => /\ step'[s].ref \in DOMAIN step'
                                 /\ step'[step'[s].ref].plan = step'[s].plan
      <4>1. copies[k].ref = None \/ \E j \in 1..n : copies[k].ref = base + j
        BY <1>2
      <4>2. \A j \in 1..n : step'[base + j].plan = new /\ base + j \in DOMAIN step'
        BY <1>2, <1>6, <1>8
      <4>. QED BY <3>1, <4>1, <4>2
    <3>3. ASSUME step'[s].name # None, NEW t \in DOMAIN step', t # s, step'[t].plan = step'[s].plan
          PROVE  step'[t].name # step'[s].name
      <4>1. t \notin DOMAIN step
        BY <1>6, <1>10, <3>1, <3>3
      <4>2. PICK j \in 1..n : t = base + j
        BY <1>7, <4>1
      <4>3. j # k /\ rows[j] # rows[k]
        BY <1>3, <2>2, <3>3, <4>2
      <4>4. step'[t].name = step[rows[j]].name /\ step'[s].name = step[rows[k]].name
        BY <1>2, <1>6, <3>1, <4>2
      <4>5. rows[j] \in DOMAIN step /\ rows[k] \in DOMAIN step /\ step[rows[j]].plan = step[rows[k]].plan
            /\ step[rows[k]] # Gone
        BY <1>11
      <4>. QED BY <3>3, <4>3, <4>4, <4>5 DEF RowsAreSound
    <3>. QED BY <1>9, <3>1, <3>2, <3>3
  <2>. QED BY <1>7, <2>1, <2>2
<1>16. \A o \in DOMAIN plan' : plan'[o].runs => plan'[o].there
  BY <1>9 DEF RowsAreSound
<1>17. used' = used
  OBVIOUS
<1> HIDE DEF new
<1>18. RowsAreSound'
  BY <1>12, <1>13, <1>14, <1>15, <1>16, <1>17 DEF RowsAreSound
<1>19. IdsStay
  BY <1>1, <1>2, <1>6 DEF IdsStay
<1>20. \A s \in DOMAIN step' \ DOMAIN step : step'[s].plan = new
  BY <1>2, <1>6, <1>7
<1>. QED BY <1>6, <1>9, <1>18, <1>19, <1>20 DEF new, copies, rows, base

-----------------------------------------------------------------------------
(* Requests.                                                                *)

\* The marks of a request say how far it got; what it asks for is the rest.
SameAsked(r, q) ==
    /\ q.kind = r.kind
    /\ r.kind = "add" => q.row = r.row /\ q.appends = r.appends
    /\ r.kind = "update" => q.own = r.own /\ q.seen = r.seen /\ q.patch = r.patch
    /\ r.kind = "delete" => q.own = r.own
    /\ r.kind = "reorder" => q.order = r.order
    /\ r.kind = "output" => q.plan = r.plan /\ q.out = r.out
    /\ r.kind = "drop" => q.plan = r.plan
    /\ r.kind = "unplug" => q.conn = r.conn

LEMMA MarksMove ==
    ASSUME NEW r, Whole(r), NEW a \in {"loaded", "checked"}, NEW o \in BOOLEAN,
           NEW q, \/ q = [r EXCEPT !.overtaken = o] /\ a = r.at
                  \/ q = [r EXCEPT !.at = a] /\ o = r.overtaken
    PROVE  /\ Whole(q) /\ SameAsked(r, q) /\ q # Idle
           /\ q.at = a /\ q.overtaken = o
<1>1. CASE r.kind = "add"
  BY <1>1 DEF Whole, SameAsked, Idle
<1>2. CASE r.kind = "update"
  BY <1>2 DEF Whole, SameAsked, Idle
<1>3. CASE r.kind = "delete"
  BY <1>3 DEF Whole, SameAsked, Idle
<1>4. CASE r.kind = "reorder"
  BY <1>4 DEF Whole, SameAsked, Idle
<1>5. CASE r.kind = "output"
  BY <1>5 DEF Whole, SameAsked, Idle
<1>6. CASE r.kind = "drop"
  BY <1>6 DEF Whole, SameAsked, Idle
<1>7. CASE r.kind = "unplug"
  BY <1>7 DEF Whole, SameAsked, Idle
<1>. QED BY <1>1, <1>2, <1>3, <1>4, <1>5, <1>6, <1>7 DEF Whole

\* What a request checked outlives any commit.
LEMMA ChecksOutlive ==
    ASSUME IdsStay, NEW r, ChecksStay(r)
    PROVE  ChecksStay(r)'
<1>1. \A s, p : OfPlanOrGone(s, p) => OfPlanOrGone(s, p)'
  BY DEF IdsStay, OfPlanOrGone
<1>. QED BY <1>1 DEF ChecksStay

LEMMA SameChecks ==
    ASSUME NEW r, NEW q, Whole(r), SameAsked(r, q), q.at = r.at, ChecksStay(r)
    PROVE  ChecksStay(q)
  BY DEF SameAsked, ChecksStay, Whole

RequestsHold == RequestsAreWhole /\ CheckedReferencesStay

\* Requests that wait stay right when one of them commits.
LEMMA CommitKeepsRequests ==
    ASSUME RequestsHold, IdsStay, NEW c \in Clients, Overtakes(c)
    PROVE  RequestsHold'
<1>1. DOMAIN req' = Clients
  BY DEF Overtakes
<1>2. ASSUME NEW d \in Clients, req'[d] # Idle
      PROVE  Whole(req[d])' /\ ChecksStay(req[d])'
  <2> DEFINE r == req[d]
  <2>1. PICK q : q = req'[d]
    OBVIOUS
  <2>2. r # Idle /\ q = [r EXCEPT !.overtaken = TRUE]
    BY <1>2, <2>1 DEF Overtakes
  <2>3. Whole(r) /\ ChecksStay(r)
    BY <2>2 DEF RequestsHold, RequestsAreWhole, CheckedReferencesStay
  <2> HIDE DEF r
  <2>4. r.at \in {"loaded", "checked"}
    BY <2>3 DEF Whole
  <2>5. Whole(q) /\ SameAsked(r, q) /\ q.at = r.at
    BY <2>2, <2>3, <2>4, MarksMove
  <2>6. ChecksStay(q)
    BY <2>3, <2>5, SameChecks
  <2>7. ChecksStay(q)'
    BY <2>6, ChecksOutlive
  <2>8. Whole(req[d])'
    BY <2>1, <2>5 DEF Whole, PatchOK, StepRow
  <2>9. ChecksStay(req[d])'
    BY <2>1, <2>7 DEF ChecksStay, OfPlanOrGone
  <2>. QED BY <2>8, <2>9
<1>. QED BY <1>1, <1>2 DEF RequestsHold, RequestsAreWhole, CheckedReferencesStay

\* The requests of others when one request reads, is checked or is refused.
LEMMA OthersKeepRequests ==
    ASSUME RequestsHold, UNCHANGED step, NEW c \in Clients, NEW q,
           req' = [req EXCEPT ![c] = q],
           q # Idle => Whole(q) /\ ChecksStay(q)
    PROVE  RequestsHold'
<1>1. DOMAIN req' = Clients
  BY DEF RequestsHold, RequestsAreWhole
<1>2. ASSUME NEW d \in Clients, req'[d] # Idle
      PROVE  Whole(req[d])' /\ ChecksStay(req[d])'
  <2>1. req'[d] = IF d = c THEN q ELSE req[d]
    BY DEF RequestsHold, RequestsAreWhole
  <2>2. PICK r : r = req'[d]
    OBVIOUS
  <2>3. Whole(r) /\ ChecksStay(r)
    BY <1>2, <2>1, <2>2 DEF RequestsHold, RequestsAreWhole, CheckedReferencesStay
  <2>4. Whole(req[d])'
    BY <2>2, <2>3 DEF Whole, PatchOK, StepRow
  <2>5. ChecksStay(req[d])'
    BY <2>2, <2>3 DEF ChecksStay, OfPlanOrGone
  <2>. QED BY <2>4, <2>5
<1>. QED BY <1>1, <1>2 DEF RequestsHold, RequestsAreWhole, CheckedReferencesStay

-----------------------------------------------------------------------------
(* What requests hold when they have read.                                  *)

LEMMA BodiesAreRows ==
    ASSUME RowsAreSound, NEW body \in Bodies, NEW p \in LivePlans, NEW n \in Nat \ {0}
    PROVE  /\ [body EXCEPT !.plan = p, !.seq = n] \in StepRow
           /\ [body EXCEPT !.plan = p, !.seq = n].plan = p
           /\ [body EXCEPT !.plan = p, !.seq = n].seq = n
           /\ [body EXCEPT !.plan = p, !.seq = n].ref = body.ref
<1>1. p \in Nat \ {0}
  BY Tables DEF RowsAreSound, LivePlans
<1>2. DOMAIN step \subseteq Nat
  BY Tables DEF RowsAreSound
<1>3. PICK op \in {"query", "dml"}, pattern \in {None, 1}, ref \in Nat, name \in Names \cup {None},
           input \in Conns \cup {None} : body = Row(op, pattern, ref, name, input)
  <2>1. None \in Nat
    BY DEF None
  <2>. QED BY <1>2, <2>1 DEF Bodies
<1>. QED BY <1>1, <1>3 DEF Row, StepRow

LEMMA PatchesAreOK ==
    ASSUME RowsAreSound, NEW patch \in Patches
    PROVE  PatchOK(patch)
<1>1. DOMAIN step \subseteq Nat /\ MaxSeq \in Nat /\ None \in Nat
  BY Tables, PlanEditAssumption DEF RowsAreSound, None
<1>2. CASE \E n \in 1..MaxSeq : patch = [seq |-> n]
  BY <1>1, <1>2 DEF PatchOK
<1>3. CASE patch = [op |-> "query", pattern |-> None, ref |-> None]
  BY <1>1, <1>3 DEF PatchOK
<1>4. CASE patch = [op |-> "dml", pattern |-> 1, ref |-> None]
  BY <1>1, <1>4 DEF PatchOK
<1>5. CASE \E i \in Conns \cup {None} : patch = [pattern |-> 1, ref |-> None, input |-> i]
  BY <1>1, <1>5 DEF PatchOK
<1>6. CASE \E s \in DOMAIN step : patch = [pattern |-> None, ref |-> s, input |-> None]
  BY <1>1, <1>6 DEF PatchOK
<1>7. CASE \E n \in Names : patch = [name |-> n]
  BY <1>1, <1>7 DEF PatchOK
<1>. QED BY <1>2, <1>3, <1>4, <1>5, <1>6, <1>7 DEF Patches

\* The row that a patch of a row makes.
LEMMA MergedRow ==
    ASSUME NEW row \in StepRow, NEW patch, PatchOK(patch)
    PROVE  /\ Merged(row, patch) \in StepRow
           /\ Merged(row, patch).plan = row.plan
           /\ Merged(row, patch).ref = IF "ref" \in DOMAIN patch THEN patch.ref ELSE row.ref
<1>1. DOMAIN row = {"plan", "seq", "op", "pattern", "ref", "name", "input"}
  BY DEF StepRow
<1>2. Merged(row, patch) = [plan |-> row.plan,
            seq |-> IF "seq" \in DOMAIN patch THEN patch.seq ELSE row.seq,
            op |-> IF "op" \in DOMAIN patch THEN patch.op ELSE row.op,
            pattern |-> IF "pattern" \in DOMAIN patch THEN patch.pattern ELSE row.pattern,
            ref |-> IF "ref" \in DOMAIN patch THEN patch.ref ELSE row.ref,
            name |-> IF "name" \in DOMAIN patch THEN patch.name ELSE row.name,
            input |-> IF "input" \in DOMAIN patch THEN patch.input ELSE row.input]
  BY <1>1 DEF Merged, PatchOK
<1>. QED BY <1>2 DEF PatchOK, StepRow

\* Everything above, as the steps keep it.
Inv == RowsAreSound /\ RequestsHold

\* A step that leaves the tables alone.
LEMMA TablesStay ==
    ASSUME RowsAreSound, UNCHANGED tables
    PROVE  RowsAreSound' /\ IdsStay
  BY DEF tables, RowsAreSound, RowsOK, IdsStay

LEMMA LoadKeeps ==
    ASSUME Inv, NEW c \in Clients, NEW r, Load(c, r), Whole(r), ChecksStay(r)
    PROVE  Inv'
<1>1. RowsAreSound'
  BY TablesStay DEF Inv, Load
<1>2. RequestsHold'
  BY OthersKeepRequests DEF Inv, Load, tables
<1>. QED BY <1>1, <1>2 DEF Inv

LEMMA CheckKeeps ==
    ASSUME Inv, NEW c \in Clients, req[c] # Idle, NEW ok, Checked(c, ok),
           ok => \A q : (Whole(q) /\ SameAsked(req[c], q) /\ q.at = "checked") => ChecksStay(q)
    PROVE  Inv'
<1>1. Whole(req[c])
  BY DEF Inv, RequestsHold, RequestsAreWhole
<1>2. RowsAreSound'
  BY TablesStay DEF Inv, Checked
<1>3. CASE ok
  <2> DEFINE q == [req[c] EXCEPT !.at = "checked"]
  <2>1. Whole(q) /\ SameAsked(req[c], q) /\ q.at = "checked"
    <3>1. req[c].overtaken \in BOOLEAN
      BY <1>1 DEF Whole
    <3>. QED BY <1>1, <3>1, MarksMove
  <2>2. req' = [req EXCEPT ![c] = q] /\ UNCHANGED step
    BY <1>3 DEF Checked, tables
  <2>3. ChecksStay(q)
    BY <1>3, <2>1
  <2> HIDE DEF q
  <2>. QED BY <1>2, <2>1, <2>2, <2>3, OthersKeepRequests DEF Inv
<1>4. CASE ~ok
  <2>1. req' = [req EXCEPT ![c] = Idle] /\ UNCHANGED step
    BY <1>4 DEF Checked, tables
  <2>. QED BY <1>2, <2>1, OthersKeepRequests DEF Inv
<1>. QED BY <1>3, <1>4

LEMMA RefusalKeeps ==
    ASSUME Inv, NEW c \in Clients, Refused(c)
    PROVE  Inv'
<1>1. RowsAreSound'
  BY TablesStay DEF Inv, Refused
<1>2. RequestsHold'
  BY OthersKeepRequests DEF Inv, Refused, tables
<1>. QED BY <1>1, <1>2 DEF Inv

LEMMA CommitKeeps ==
    ASSUME Inv, NEW c \in Clients, Overtakes(c), RowsAreSound', IdsStay
    PROVE  Inv'
  BY CommitKeepsRequests DEF Inv

\* A request of a client starts: it reads, or does all of its work at once.
LEMMA RequestKeeps ==
    ASSUME Inv, NEW c \in Clients, Request(c)
    PROVE  Inv'
<1> USE DEF Inv
<1>1. ASSUME NEW p \in LivePlans, NEW body \in Bodies, NEW seq \in 0..MaxSeq, LoadAdd(c, p, body, seq)
      PROVE  Inv'
  <2> DEFINE n == IF seq = None THEN NextSequence(p) ELSE seq
             row == [body EXCEPT !.plan = p, !.seq = n]
             r == [at |-> "loaded", kind |-> "add", overtaken |-> FALSE, appends |-> seq = None,
                   row |-> row]
  <2>1. n \in Nat \ {0}
    BY NextIsBeyond, PlanEditAssumption DEF RowsAreSound, None
  <2>2. row \in StepRow
    BY <2>1, BodiesAreRows
  <2>3. Load(c, r)
    BY <1>1 DEF LoadAdd
  <2>4. Whole(r) /\ ChecksStay(r)
    <3> HIDE DEF row
    <3>. QED BY <2>2 DEF Whole, ChecksStay
  <2> HIDE DEF r
  <2>. QED BY <2>3, <2>4, LoadKeeps
<1>2. ASSUME NEW s \in LiveSteps, NEW patch \in Patches, LoadUpdate(c, s, patch)
      PROVE  Inv'
  <2> DEFINE r == [at |-> "loaded", kind |-> "update", overtaken |-> FALSE,
                   own |-> s, seen |-> step[s], patch |-> patch]
  <2>1. s \in DOMAIN step /\ s \in Nat /\ step[s] \in StepRow
    BY Tables DEF RowsAreSound, LiveSteps
  <2>2. Load(c, r)
    BY <1>2 DEF LoadUpdate
  <2>3. PatchOK(patch)
    BY PatchesAreOK
  <2>4. Whole(r) /\ ChecksStay(r)
    BY <2>1, <2>3 DEF Whole, ChecksStay, OfPlanOrGone
  <2> HIDE DEF r
  <2>. QED BY <2>2, <2>4, LoadKeeps
<1>3. ASSUME NEW s \in LiveSteps, LoadDelete(c, s)
      PROVE  Inv'
  <2> DEFINE r == [at |-> "loaded", kind |-> "delete", overtaken |-> FALSE, own |-> s]
  <2>1. Load(c, r) /\ Whole(r) /\ ChecksStay(r)
    BY <1>3 DEF LoadDelete, Whole, ChecksStay
  <2> HIDE DEF r
  <2>. QED BY <2>1, LoadKeeps
<1>4. ASSUME NEW p \in LivePlans, NEW order \in Orders(p), LoadReorder(c, p, order)
      PROVE  Inv'
  <2> DEFINE moves == {<<s, order[s]>> : s \in {t \in StepsOf(p) : step[t].seq # order[t]}}
             r == [at |-> "loaded", kind |-> "reorder", overtaken |-> FALSE, order |-> moves]
  <2>1. Load(c, r)
    BY <1>4 DEF LoadReorder
  <2>2. \A m \in moves : m[2] \in Nat \ {0}
    BY StepsOfPlan DEF Orders, RowsAreSound
  <2>3. Whole(r) /\ ChecksStay(r)
    <3> HIDE DEF moves
    <3>. QED BY <2>2 DEF Whole, ChecksStay
  <2> HIDE DEF r
  <2>. QED BY <2>1, <2>3, LoadKeeps
<1>5. ASSUME NEW i \in Conns \cup {None}, CreatePlan(c, i)
      PROVE  Inv'
  BY <1>5, CreateKeepsTables, CommitKeeps DEF CreatePlan, AtOnce
<1>6. ASSUME NEW p \in LivePlans, NEW i \in Conns \cup {None}, LoadOutput(c, p, i)
      PROVE  Inv'
  <2> DEFINE r == [at |-> "loaded", kind |-> "output", overtaken |-> FALSE, plan |-> p, out |-> i]
  <2>1. Load(c, r) /\ Whole(r) /\ ChecksStay(r)
    BY <1>6 DEF LoadOutput, Whole, ChecksStay
  <2> HIDE DEF r
  <2>. QED BY <2>1, LoadKeeps
<1>7. ASSUME NEW p \in LivePlans, DuplicatePlan(c, p)
      PROVE  Inv'
  <2>1. RowsAreSound' /\ IdsStay /\ Overtakes(c)
    BY <1>7, DuplicateKeepsTables DEF DuplicatePlan, AtOnce
  <2>. QED BY <2>1, CommitKeeps
<1>8. ASSUME NEW p \in LivePlans, LoadDeletePlan(c, p)
      PROVE  Inv'
  <2> DEFINE r == [at |-> "loaded", kind |-> "drop", overtaken |-> FALSE, plan |-> p]
  <2>1. Load(c, r) /\ Whole(r) /\ ChecksStay(r)
    BY <1>8 DEF LoadDeletePlan, Whole, ChecksStay
  <2> HIDE DEF r
  <2>. QED BY <2>1, LoadKeeps
<1>9. ASSUME NEW p \in LivePlans, CreateRun(c, p)
      PROVE  Inv'
  BY <1>9, RunKeepsTables, CommitKeeps DEF CreateRun, AtOnce
<1>10. ASSUME NEW i \in Conns, NEW d \in {"in", "out", "both"}, UpdateConn(c, i, d)
       PROVE  Inv'
  BY <1>10, DirectionKeepsTables, CommitKeeps DEF UpdateConn, AtOnce
<1>11. ASSUME NEW i \in Conns, LoadDeleteConn(c, i)
       PROVE  Inv'
  <2> DEFINE r == [at |-> "loaded", kind |-> "unplug", overtaken |-> FALSE, conn |-> i]
  <2>1. Load(c, r) /\ Whole(r) /\ ChecksStay(r)
    BY <1>11 DEF LoadDeleteConn, Whole, ChecksStay
  <2> HIDE DEF r
  <2>. QED BY <2>1, LoadKeeps
<1> HIDE DEF Inv
<1>. QED BY <1>1, <1>2, <1>3, <1>4, <1>5, <1>6, <1>7, <1>8, <1>9, <1>10, <1>11
         DEF Request, StepRequest, PlanRequest, ConnRequest

\* The check of an added or an updated step.
LEMMA ChecksKeep ==
    ASSUME Inv, NEW c \in Clients, CheckAdd(c) \/ CheckUpdate(c)
    PROVE  Inv'
<1>1. req[c] # Idle
  <2>1. req[c].at = "loaded"
    BY DEF CheckAdd, CheckUpdate, Pending
  <2>. QED BY <2>1 DEF Idle
<1>2. Whole(req[c]) /\ ChecksStay(req[c])
  BY <1>1 DEF Inv, RequestsHold, RequestsAreWhole, CheckedReferencesStay
<1>3. \A s, p : s \in StepsOf(p) => OfPlanOrGone(s, p)
  BY DEF StepsOf, LiveSteps, OfPlanOrGone
<1>4. CASE CheckAdd(c)
  <2> DEFINE ok == RefersBack(req[c].row, None) /\ NameIsFree(req[c].row, None)
  <2>1. Checked(c, ok) /\ req[c].kind = "add"
    BY <1>4 DEF CheckAdd, Pending
  <2>2. ok => \A q : (Whole(q) /\ SameAsked(req[c], q) /\ q.at = "checked") => ChecksStay(q)
    BY <1>3, <2>1 DEF RefersBack, SameAsked, ChecksStay
  <2> HIDE DEF ok
  <2>. QED BY <1>1, <2>1, <2>2, CheckKeeps
<1>5. CASE CheckUpdate(c)
  <2> DEFINE ok == /\ ReferenceChecked(req[c])
                   /\ "name" \in DOMAIN req[c].patch
                        => NameIsFree(Merged(req[c].seen, req[c].patch), req[c].own)
  <2>1. Checked(c, ok) /\ req[c].kind = "update"
    BY <1>5 DEF CheckUpdate, Pending
  <2>2. /\ req[c].seen \in StepRow /\ PatchOK(req[c].patch)
        /\ OfPlanOrGone(req[c].own, req[c].seen.plan)
    BY <1>2, <2>1 DEF Whole, ChecksStay
  <2>3. ok /\ "ref" \in DOMAIN req[c].patch /\ req[c].patch.ref # None
           => OfPlanOrGone(req[c].patch.ref, req[c].seen.plan)
    BY <1>3, <2>2, MergedRow DEF ReferenceChecked, RefersBack
  <2>4. ok => \A q : (Whole(q) /\ SameAsked(req[c], q) /\ q.at = "checked") => ChecksStay(q)
    <3> HIDE DEF ok
    <3>. QED BY <2>1, <2>2, <2>3 DEF SameAsked, ChecksStay
  <2> HIDE DEF ok
  <2>. QED BY <1>1, <2>1, <2>4, CheckKeeps
<1>. QED BY <1>4, <1>5

\* The row an update commits: of the same plan, and with a reference into it.
LEMMA UpdatedRow ==
    ASSUME Inv, NEW c \in Clients, Pending(c, "update", "checked"), req[c].own \in LiveSteps
    PROVE  LET r == req[c]
               new == [f \in DOMAIN step[r.own] |-> IF f \in Delta(r.seen, r.patch) THEN r.patch[f]
                                                    ELSE step[r.own][f]]
           IN /\ new \in StepRow /\ new.plan = step[r.own].plan
              /\ new.ref # None => OfPlanOrGone(new.ref, new.plan)
              /\ step[r.own].plan = r.seen.plan
<1> DEFINE own == req[c].own
           seen == req[c].seen
           patch == req[c].patch
           old == step[own]
           D == Delta(seen, patch)
           new == [f \in DOMAIN old |-> IF f \in D THEN patch[f] ELSE old[f]]
<1>1. /\ seen \in StepRow /\ PatchOK(patch) /\ OfPlanOrGone(own, seen.plan)
      /\ "ref" \in DOMAIN patch /\ patch.ref # None => OfPlanOrGone(patch.ref, seen.plan)
  BY DEF Inv, RequestsHold, RequestsAreWhole, CheckedReferencesStay, Whole, ChecksStay, Pending, Idle
<1>2. own \in DOMAIN step /\ old \in StepRow /\ old # Gone
  BY Tables DEF Inv, RowsAreSound, LiveSteps
<1>3. old.plan = seen.plan
  BY <1>1, <1>2 DEF OfPlanOrGone, StepRow, None
<1>4. D \subseteq DOMAIN patch
  BY DEF Delta
<1>5. old.ref # None => OfPlanOrGone(old.ref, old.plan)
  BY <1>2 DEF Inv, RowsAreSound, OfPlanOrGone
<1> HIDE DEF own, seen, patch, old, D
<1>6. DOMAIN old = {"plan", "seq", "op", "pattern", "ref", "name", "input"}
  BY <1>2 DEF StepRow
<1>7. new = [plan |-> old.plan,
             seq |-> IF "seq" \in D THEN patch.seq ELSE old.seq,
             op |-> IF "op" \in D THEN patch.op ELSE old.op,
             pattern |-> IF "pattern" \in D THEN patch.pattern ELSE old.pattern,
             ref |-> IF "ref" \in D THEN patch.ref ELSE old.ref,
             name |-> IF "name" \in D THEN patch.name ELSE old.name,
             input |-> IF "input" \in D THEN patch.input ELSE old.input]
  BY <1>1, <1>4, <1>6 DEF PatchOK
<1> HIDE DEF new
<1>8. new \in StepRow /\ new.plan = old.plan
      /\ new.ref = IF "ref" \in D THEN patch.ref ELSE old.ref
  BY <1>1, <1>2, <1>4, <1>7 DEF PatchOK, StepRow
<1>9. new.ref # None => OfPlanOrGone(new.ref, new.plan)
  BY <1>1, <1>3, <1>4, <1>5, <1>8
<1>. QED BY <1>3, <1>8, <1>9 DEF new, own, seen, patch, old, D

\* A request commits, or the database refuses it.
LEMMA WritingKeeps ==
    ASSUME Inv, NEW c \in Clients, Writing(c)
    PROVE  Inv'
<1>1. req[c] # Idle
  BY DEF Writing, WriteAdd, WriteUpdate, WriteDelete, WriteReorder, WriteOutput, WriteDeletePlan,
         WriteDeleteConn, Pending, Idle
<1>2. RowsAreSound /\ Whole(req[c]) /\ ChecksStay(req[c])
  BY <1>1 DEF Inv, RequestsHold, RequestsAreWhole, CheckedReferencesStay
<1>3. SUFFICES ASSUME ~Refused(c)
               PROVE  Overtakes(c) /\ RowsAreSound' /\ IdsStay
  BY RefusalKeeps, CommitKeeps
<1> USE <1>2, <1>3 DEF Ends
<1>4. CASE WriteAdd(c)
  <2>1. req[c].kind = "add" /\ req[c].at = "checked"
    BY <1>4 DEF WriteAdd, Pending
  <2>2. req[c].row \in StepRow /\ (req[c].row.ref # None => OfPlanOrGone(req[c].row.ref, req[c].row.plan))
    BY <2>1 DEF Whole, ChecksStay
  <2>3. /\ Storable(req[c].row, None) /\ Len(step) < MaxSteps /\ Overtakes(c)
        /\ step' = Append(step, req[c].row) /\ UNCHANGED <<plan, used, conn>>
    BY <1>4 DEF WriteAdd
  <2>. QED BY <2>2, <2>3, AddKeepsTables
<1>5. CASE WriteUpdate(c)
  <2> DEFINE r == req[c]
             new == [f \in DOMAIN step[r.own] |-> IF f \in Delta(r.seen, r.patch) THEN r.patch[f]
                                                  ELSE step[r.own][f]]
  <2>1. /\ Pending(c, "update", "checked") /\ r.own \in LiveSteps /\ Storable(new, r.own)
        /\ step' = [step EXCEPT ![r.own] = new] /\ Overtakes(c) /\ UNCHANGED <<plan, used, conn>>
    BY <1>5 DEF WriteUpdate
  <2>2. /\ new \in StepRow /\ new.plan = step[r.own].plan
        /\ new.ref # None => OfPlanOrGone(new.ref, new.plan)
    BY <2>1, UpdatedRow DEF Inv
  <2> HIDE DEF r, new
  <2>. QED BY <2>1, <2>2, UpdateKeepsTables
<1>6. CASE WriteDelete(c)
  BY <1>6, DeleteKeepsTables DEF WriteDelete
<1>7. CASE WriteReorder(c)
  <2>1. req[c].kind = "reorder"
    BY <1>7 DEF WriteReorder, Pending
  <2>2. \A m \in req[c].order : m[2] \in Nat \ {0}
    BY <2>1 DEF Whole
  <2>. QED BY <1>7, <2>2, ReorderKeepsTables DEF WriteReorder
<1>8. CASE WriteOutput(c)
  <2>1. req[c].kind = "output"
    BY <1>8 DEF WriteOutput, Pending
  <2>2. req[c].out \in Conns \cup {None}
    BY <2>1 DEF Whole
  <2>. QED BY <1>8, <2>2, OutputKeepsTables DEF WriteOutput
<1>9. CASE WriteDeletePlan(c)
  BY <1>9, DropKeepsTables DEF WriteDeletePlan, Restricted
<1>10. CASE WriteDeleteConn(c)
  <2>1. req[c].kind = "unplug"
    BY <1>10 DEF WriteDeleteConn, Pending
  <2>2. req[c].conn \in Conns
    BY <2>1 DEF Whole
  <2>. QED BY <1>10, <2>2, UnplugKeepsTables DEF WriteDeleteConn
<1>. QED BY <1>4, <1>5, <1>6, <1>7, <1>8, <1>9, <1>10 DEF Writing

LEMMA InitHolds == Init => Inv
<1> SUFFICES ASSUME Init PROVE Inv
  OBVIOUS
<1> USE NamesOfRows DEF Init
<1> DEFINE row == [there |-> TRUE, out |-> None, runs |-> FALSE]
           a == [Row("query", None, None, None, None) EXCEPT !.seq = 1]
           b == [Row("dml", None, 1, None, None) EXCEPT !.seq = 2]
<1>1. row \in PlanRow /\ row.there /\ ~row.runs /\ plan = <<row>>
  BY DEF PlanRow
<1>2. /\ a \in StepRow /\ a.plan = 1 /\ a.ref = None /\ a.name = None
      /\ b \in StepRow /\ b.plan = 1 /\ b.ref = 1 /\ b.name = None
  BY DEF Row, StepRow, None
<1>3. step = <<a, b>>
  OBVIOUS
<1> HIDE DEF row, a, b
<1>4. /\ plan \in Seq(PlanRow) /\ Len(plan) = 1 /\ DOMAIN plan = {1} /\ plan[1] = row
      /\ step \in Seq(StepRow \cup {Gone}) /\ Len(step) = 2 /\ DOMAIN step = {1, 2}
      /\ step[1] = a /\ step[2] = b
  <2>1. plan \in Seq(PlanRow) /\ Len(plan) = 1 /\ DOMAIN plan = {1} /\ plan[1] = row
    <3>1. ASSUME NEW S, NEW x \in S
          PROVE  <<x>> \in Seq(S) /\ Len(<<x>>) = 1 /\ DOMAIN <<x>> = {1} /\ <<x>>[1] = x
      OBVIOUS
    <3> HIDE DEF Init
    <3>. QED BY <1>1, <3>1
  <2> DEFINE S == StepRow \cup {Gone}
  <2>2. a \in S /\ b \in S
    BY <1>2
  <2> HIDE DEF S
  <2>3. step \in Seq(S) /\ Len(step) = 2 /\ DOMAIN step = {1, 2} /\ step[1] = a /\ step[2] = b
    BY <1>3, <2>2
  <2>. QED BY <2>1, <2>3 DEF S
<1>5. RowsOK
  BY <1>4 DEF RowsOK
<1>6. RowsAreSound
  BY <1>1, <1>2, <1>4, <1>5 DEF RowsAreSound, None
<1>7. RequestsHold
  BY DEF RequestsHold, RequestsAreWhole, CheckedReferencesStay
<1>. QED BY <1>6, <1>7 DEF Inv

LEMMA InvStays ==
    ASSUME Inv, [Next]_vars
    PROVE  Inv'
<1>1. ASSUME NEW c \in Clients, Request(c) \/ CheckAdd(c) \/ CheckUpdate(c) \/ Writing(c)
      PROVE  Inv'
  BY <1>1, RequestKeeps, ChecksKeep, WritingKeeps
<1>2. ASSUME NEW s \in LiveSteps, RecordJobs(s)
      PROVE  Inv'
  <2>1. RowsAreSound'
    BY <1>2, JobsKeepTables DEF Inv, RecordJobs
  <2>2. RequestsHold'
    BY <1>2 DEF RecordJobs, Inv, RequestsHold, RequestsAreWhole, CheckedReferencesStay,
            Whole, PatchOK, StepRow, ChecksStay, OfPlanOrGone
  <2>. QED BY <2>1, <2>2 DEF Inv
<1>3. CASE UNCHANGED vars
  <2>1. RowsAreSound'
    BY <1>3, TablesStay DEF Inv, vars
  <2>2. RequestsHold'
    BY <1>3 DEF vars, tables, Inv, RequestsHold, RequestsAreWhole, CheckedReferencesStay,
            Whole, PatchOK, StepRow, ChecksStay, OfPlanOrGone
  <2>. QED BY <2>1, <2>2 DEF Inv
<1>. QED BY <1>1, <1>2, <1>3 DEF Next

\* The inductive invariant: sound tables, requests that hold what their kind needs, and
\* checked references that lead to their plan or to a step that is gone.
THEOREM EditInvariance == Spec => []PlanEditIInv
<1>1. Inv => PlanEditIInv
  BY SoundByRow DEF Inv, RequestsHold, Sound, PlanEditIInv
<1>. QED BY InitHolds, InvStays, <1>1, PTL DEF Spec

\* The tables stay sound however the requests of the clients overtake each other, and
\* no two of them leave a reference to another plan, a name twice in a plan, or a run
\* without its plan.
THEOREM TablesStaySound == Spec => []TablesAreSound
<1>1. PlanEditIInv => TablesAreSound
  BY DEF PlanEditIInv
<1>. QED BY EditInvariance, <1>1, PTL

-----------------------------------------------------------------------------
(* What an edit cannot do to a plan.                                        *)

\* As long as the tables stay, so does what a request read.
LEMMA ReadsStay ==
    ASSUME NEW r, StillSo(r), UNCHANGED <<plan, step>>
    PROVE  StillSo(r)'
<1>1. LiveSteps' = LiveSteps /\ LivePlans' = LivePlans
  BY DEF LiveSteps, LivePlans
<1>2. \A q : StepsOf(q)' = StepsOf(q)
  BY <1>1 DEF StepsOf
<1>3. \A q : NextSequence(q)' = NextSequence(q)
  BY <1>2 DEF NextSequence
<1>4. \A row, own : RefersBack(row, own) => RefersBack(row, own)'
  BY <1>2 DEF RefersBack
<1>5. \A s : Dependents(s)' = Dependents(s)
  BY <1>2 DEF Dependents
<1>6. \A order, s : Renumbered(order, s)' = Renumbered(order, s)
  BY DEF Renumbered
<1>7. \A i : OutputUsers(i)' = OutputUsers(i)
  BY <1>1 DEF OutputUsers
<1>. QED BY <1>1, <1>3, <1>4, <1>5, <1>6, <1>7 DEF StillSo

\* What a reorder leaves a plan with is what was asked for, moved or not.
LEMMA ReorderIsAsAsked ==
    ASSUME NEW p, NEW order \in [StepsOf(p) -> Nat], NEW s \in StepsOf(p)
    PROVE  Renumbered({<<t, order[t]>> : t \in {u \in StepsOf(p) : step[u].seq # order[u]}}, s) = order[s]
<1> DEFINE moves == {<<t, order[t]>> : t \in {u \in StepsOf(p) : step[u].seq # order[u]}}
<1>1. \A m \in moves : m[1] \in StepsOf(p) /\ m[2] = order[m[1]] /\ step[m[1]].seq # order[m[1]]
  OBVIOUS
<1>2. CASE step[s].seq = order[s]
  <2>1. s \notin {m[1] : m \in moves}
    BY <1>1, <1>2
  <2>. QED BY <1>2, <2>1 DEF Renumbered
<1>3. CASE step[s].seq # order[s]
  <2>1. <<s, order[s]>> \in moves /\ <<s, order[s]>>[1] = s
    BY <1>3
  <2> HIDE DEF moves
  <2>2. s \in {m[1] : m \in moves} /\ (CHOOSE m \in moves : m[1] = s) \in moves
        /\ (CHOOSE m \in moves : m[1] = s)[1] = s
    BY <2>1
  <2>3. Renumbered(moves, s) = order[s]
    BY <1>1, <2>2 DEF Renumbered
  <2>. QED BY <2>3 DEF moves
<1>. QED BY <1>2, <1>3

\* A reorder that was checked leaves every reference of the plan before its step.
LEMMA ReorderIsFresh ==
    ASSUME RowsAreSound, NEW c, NEW p \in LivePlans, NEW order \in Orders(p), LoadReorder(c, p, order),
           NEW s \in LiveSteps, NEW t \in LiveSteps, step[s].plan = step[t].plan, step[t].ref # None,
           NEW moves, moves = {<<x, order[x]>> : x \in {u \in StepsOf(p) : step[u].seq # order[u]}},
           s \in {m[1] : m \in moves}
    PROVE  Renumbered(moves, step[t].ref) < Renumbered(moves, t)
<1>1. order \in [StepsOf(p) -> Nat]
  BY StepsOfPlan DEF Orders, RowsAreSound
<1>2. s \in StepsOf(p) /\ t \in StepsOf(p)
  BY DEF StepsOf
<1>3. step[t].ref \in StepsOf(p)
  <2>1. t \in DOMAIN step /\ step[t] # Gone /\ step[t].plan = p /\ p # None
    BY <1>2, Tables DEF RowsAreSound, StepsOf, LiveSteps
  <2>2. step[t].ref \in DOMAIN step /\ step[step[t].ref].plan = p
    BY <2>1 DEF RowsAreSound
  <2>. QED BY <2>1, <2>2 DEF StepsOf, LiveSteps
<1>4. order[step[t].ref] < order[t]
  BY <1>2, <1>3 DEF LoadReorder
<1>5. Renumbered(moves, t) = order[t] /\ Renumbered(moves, step[t].ref) = order[step[t].ref]
  BY <1>1, <1>2, <1>3, ReorderIsAsAsked
<1>. QED BY <1>4, <1>5

\* One request reads or is answered while the tables stay: the others' reads stay true.
LEMMA OthersStayFresh ==
    ASSUME FreshChecksHold, DOMAIN req = Clients, UNCHANGED <<plan, step>>, NEW c \in Clients, NEW q,
           req' = [req EXCEPT ![c] = q],
           q # Idle /\ ~q.overtaken => StillSo(q)
    PROVE  FreshChecksHold'
<1>1. ASSUME NEW d \in Clients, req'[d] # Idle, ~req'[d].overtaken
      PROVE  StillSo(req[d])'
  <2>1. PICK r : r = req'[d]
    OBVIOUS
  <2>2. r = IF d = c THEN q ELSE req[d]
    BY <2>1
  <2>3. StillSo(r)
    BY <1>1, <2>1, <2>2 DEF FreshChecksHold
  <2>4. StillSo(r)'
    BY <2>3, ReadsStay
  <2>. QED BY <2>1, <2>4 DEF StillSo
<1>. QED BY <1>1 DEF FreshChecksHold

\* After a commit every request that waits was overtaken.
LEMMA NoneIsFresh ==
    ASSUME RequestsHold, NEW c \in Clients, Overtakes(c)
    PROVE  FreshChecksHold'
<1>1. ASSUME NEW d \in Clients, req'[d] # Idle
      PROVE  req'[d].overtaken = TRUE
  <2>1. req[d] # Idle /\ req'[d] = [req[d] EXCEPT !.overtaken = TRUE]
    BY <1>1 DEF Overtakes
  <2>2. Whole(req[d])
    BY <2>1 DEF RequestsHold, RequestsAreWhole
  <2>3. req[d].at \in {"loaded", "checked"}
    BY <2>2 DEF Whole
  <2>. QED BY <2>1, <2>2, <2>3, MarksMove
<1>. QED BY <1>1 DEF FreshChecksHold

LEMMA RequestStaysFresh ==
    ASSUME Inv, FreshChecksHold, NEW c \in Clients, Request(c)
    PROVE  FreshChecksHold'
<1> USE DEF Inv
<1>0. DOMAIN req = Clients
  BY DEF RequestsHold, RequestsAreWhole
<1>a. ASSUME NEW r, Load(c, r), StillSo(r)
      PROVE  FreshChecksHold'
  BY <1>0, <1>a, OthersStayFresh DEF Load, tables
<1>1. ASSUME NEW p \in LivePlans, NEW body \in Bodies, NEW seq \in 0..MaxSeq, LoadAdd(c, p, body, seq)
      PROVE  FreshChecksHold'
  <2> DEFINE n == IF seq = None THEN NextSequence(p) ELSE seq
             row == [body EXCEPT !.plan = p, !.seq = n]
             r == [at |-> "loaded", kind |-> "add", overtaken |-> FALSE, appends |-> seq = None,
                   row |-> row]
  <2>1. n \in Nat \ {0}
    BY NextIsBeyond, PlanEditAssumption DEF RowsAreSound, None
  <2>2. row.plan = p /\ row.seq = n
    <3> HIDE DEF n
    <3>. QED BY DEF Bodies, Row
  <2>3. Load(c, r) /\ WellFormed(body)
    BY <1>1 DEF LoadAdd
  <2>4. WellFormed(row)
    <3>1. row.op = body.op /\ row.pattern = body.pattern /\ row.ref = body.ref /\ row.input = body.input
      BY DEF Bodies, Row
    <3> HIDE DEF row
    <3>. QED BY <2>3, <3>1 DEF WellFormed
  <2>5. StillSo(r)
    <3> HIDE DEF row
    <3>. QED BY <2>2, <2>4 DEF StillSo
  <2> HIDE DEF r
  <2>. QED BY <2>3, <2>5, <1>a
<1>2. ASSUME NEW s \in LiveSteps, NEW patch \in Patches, LoadUpdate(c, s, patch)
      PROVE  FreshChecksHold'
  <2> DEFINE r == [at |-> "loaded", kind |-> "update", overtaken |-> FALSE,
                   own |-> s, seen |-> step[s], patch |-> patch]
  <2>1. Load(c, r) /\ WellFormed(Merged(step[s], patch))
    BY <1>2 DEF LoadUpdate
  <2>2. StillSo(r)
    BY <2>1 DEF StillSo
  <2> HIDE DEF r
  <2>. QED BY <2>1, <2>2, <1>a
<1>3. ASSUME NEW s \in LiveSteps, LoadDelete(c, s)
      PROVE  FreshChecksHold'
  <2> DEFINE r == [at |-> "loaded", kind |-> "delete", overtaken |-> FALSE, own |-> s]
  <2>1. Load(c, r) /\ StillSo(r)
    BY <1>3 DEF LoadDelete, StillSo
  <2> HIDE DEF r
  <2>. QED BY <2>1, <1>a
<1>4. ASSUME NEW p \in LivePlans, NEW order \in Orders(p), LoadReorder(c, p, order)
      PROVE  FreshChecksHold'
  <2> DEFINE moves == {<<s, order[s]>> : s \in {t \in StepsOf(p) : step[t].seq # order[t]}}
             r == [at |-> "loaded", kind |-> "reorder", overtaken |-> FALSE, order |-> moves]
  <2>1. Load(c, r)
    BY <1>4 DEF LoadReorder
  <2>2. ASSUME NEW s \in LiveSteps, NEW t \in LiveSteps, step[s].plan = step[t].plan,
               s \in {m[1] : m \in moves}, step[t].ref # None
        PROVE  Renumbered(moves, step[t].ref) < Renumbered(moves, t)
    BY <1>4, <2>2, ReorderIsFresh
  <2>3. StillSo(r)
    <3> HIDE DEF moves
    <3>. QED BY <2>2 DEF StillSo
  <2> HIDE DEF r
  <2>. QED BY <2>1, <2>3, <1>a
<1>5. ASSUME NEW p \in LivePlans, NEW i \in Conns \cup {None}, LoadOutput(c, p, i)
      PROVE  FreshChecksHold'
  <2> DEFINE r == [at |-> "loaded", kind |-> "output", overtaken |-> FALSE, plan |-> p, out |-> i]
  <2>1. Load(c, r) /\ StillSo(r)
    BY <1>5 DEF LoadOutput, StillSo
  <2> HIDE DEF r
  <2>. QED BY <2>1, <1>a
<1>6. ASSUME NEW p \in LivePlans, LoadDeletePlan(c, p)
      PROVE  FreshChecksHold'
  <2> DEFINE r == [at |-> "loaded", kind |-> "drop", overtaken |-> FALSE, plan |-> p]
  <2>1. Load(c, r) /\ StillSo(r)
    BY <1>6 DEF LoadDeletePlan, StillSo
  <2> HIDE DEF r
  <2>. QED BY <2>1, <1>a
<1>7. ASSUME NEW i \in Conns, LoadDeleteConn(c, i)
      PROVE  FreshChecksHold'
  <2> DEFINE r == [at |-> "loaded", kind |-> "unplug", overtaken |-> FALSE, conn |-> i]
  <2>1. Load(c, r) /\ StillSo(r)
    BY <1>7 DEF LoadDeleteConn, StillSo
  <2> HIDE DEF r
  <2>. QED BY <2>1, <1>a
<1>8. Overtakes(c) => FreshChecksHold'
  BY NoneIsFresh
<1> HIDE DEF Inv
<1>. QED BY <1>1, <1>2, <1>3, <1>4, <1>5, <1>6, <1>7, <1>8
         DEF Request, StepRequest, PlanRequest, ConnRequest, CreatePlan, DuplicatePlan, CreateRun,
             UpdateConn, AtOnce

LEMMA ChecksStayFresh ==
    ASSUME Inv, FreshChecksHold, NEW c \in Clients, CheckAdd(c) \/ CheckUpdate(c)
    PROVE  FreshChecksHold'
<1> DEFINE r == req[c]
           q == [r EXCEPT !.at = "checked"]
<1>1. r # Idle
  <2>1. r.at = "loaded"
    BY DEF CheckAdd, CheckUpdate, Pending
  <2>. QED BY <2>1 DEF Idle
<1>2. Whole(r) /\ (~r.overtaken => StillSo(r)) /\ DOMAIN req = Clients
  BY <1>1 DEF Inv, RequestsHold, RequestsAreWhole, FreshChecksHold
<1>3. Whole(q) /\ SameAsked(r, q) /\ q.overtaken = r.overtaken
  <2>1. r.overtaken \in BOOLEAN
    BY <1>2 DEF Whole
  <2> HIDE DEF r
  <2>. QED BY <1>2, <2>1, MarksMove
<1>4. UNCHANGED <<plan, step>>
  BY DEF CheckAdd, CheckUpdate, Checked, tables
<1>5. CASE req' = [req EXCEPT ![c] = Idle]
  BY <1>2, <1>4, <1>5, OthersStayFresh
<1>6. CASE req' # [req EXCEPT ![c] = Idle] /\ CheckAdd(c)
  <2>1. req' = [req EXCEPT ![c] = q] /\ RefersBack(r.row, None) /\ r.kind = "add"
    BY <1>6 DEF CheckAdd, Checked, Pending
  <2>2. ~q.overtaken => StillSo(q)
    <3> HIDE DEF q, r
    <3>. QED BY <1>2, <1>3, <2>1 DEF StillSo, SameAsked
  <2> HIDE DEF q
  <2>. QED BY <1>2, <1>4, <2>1, <2>2, OthersStayFresh
<1>7. CASE req' # [req EXCEPT ![c] = Idle] /\ CheckUpdate(c)
  <2>1. /\ req' = [req EXCEPT ![c] = q] /\ r.kind = "update"
        /\ RefersBack(Merged(r.seen, r.patch), r.own)
    BY <1>7 DEF CheckUpdate, Checked, Pending, ReferenceChecked
  <2>2. ~q.overtaken => StillSo(q)
    <3> HIDE DEF q, r
    <3>. QED BY <1>2, <1>3, <2>1 DEF StillSo, SameAsked
  <2> HIDE DEF q
  <2>. QED BY <1>2, <1>4, <2>1, <2>2, OthersStayFresh
<1>. QED BY <1>5, <1>6, <1>7

LEMMA WritingStaysFresh ==
    ASSUME Inv, FreshChecksHold, NEW c \in Clients, Writing(c)
    PROVE  FreshChecksHold'
<1>1. DOMAIN req = Clients
  BY DEF Inv, RequestsHold, RequestsAreWhole
<1>2. Overtakes(c) \/ Refused(c)
  BY DEF Writing, WriteAdd, WriteUpdate, WriteDelete, WriteReorder, WriteOutput, WriteDeletePlan,
         WriteDeleteConn, Ends
<1>3. CASE Refused(c)
  BY <1>1, <1>3, OthersStayFresh DEF Refused, tables
<1>. QED BY <1>2, <1>3, NoneIsFresh DEF Inv

-----------------------------------------------------------------------------
(* A plan that can be run, row by row.                                      *)

RowRuns(s) ==
    /\ WellFormed(step[s])
    /\ step[s].ref # None =>
          /\ step[s].ref # s /\ step[s].ref \in DOMAIN step
          /\ step[step[s].ref].plan = step[s].plan
          /\ step[step[s].ref].op = "query" /\ step[step[s].ref].seq < step[s].seq

PlanRuns(p) == \A s \in DOMAIN step : step[s].plan = p => RowRuns(s)

LEMMA RunsByRow == \A p : p # None => (Runnable(p) <=> PlanRuns(p))
<1> SUFFICES ASSUME NEW p, p # None PROVE Runnable(p) <=> PlanRuns(p)
  OBVIOUS
<1>1. \A s : s \in StepsOf(p) <=> s \in DOMAIN step /\ step[s].plan = p
  BY DEF StepsOf, LiveSteps
<1>2. \A s \in StepsOf(p) :
         WellFormed(step[s]) /\ RefersBack(step[s], s) <=> RowRuns(s)
  <2>1. \A s \in StepsOf(p) : step[s].plan = p
    BY <1>1
  <2>. QED BY <1>1, <2>1 DEF RefersBack, RowRuns
<1>. QED BY <1>1, <1>2 DEF Runnable, PlanRuns

LEMMA RunsByRowNext == (\A p : p # None => (Runnable(p) <=> PlanRuns(p)))'
  BY RunsByRow, PTL

\* Who leaves the rows of a plan, and those they refer to, as they were leaves
\* the plan as runnable as it was.
LEMMA UntouchedPlanRuns ==
    ASSUME NEW p, p # None, PlanRuns(p), IdsStay,
           \A s \in DOMAIN step' : step'[s].plan = p =>
              /\ s \in DOMAIN step /\ step'[s] = step[s]
              /\ step[s].ref # None => step'[step[s].ref] = step[step[s].ref]
    PROVE  PlanRuns(p)'
<1>1. ASSUME NEW s \in DOMAIN step', step'[s].plan = p
      PROVE  RowRuns(s)'
  <2>1. s \in DOMAIN step /\ step'[s] = step[s] /\ RowRuns(s) /\ step[s].plan = p
        /\ (step[s].ref # None => step'[step[s].ref] = step[step[s].ref])
    BY <1>1 DEF PlanRuns
  <2>. QED BY <2>1 DEF RowRuns, IdsStay, WellFormed
<1>. QED BY <1>1 DEF PlanRuns

LEMMA AddKeepsRunning ==
    ASSUME RowsAreSound, NEW p, p # None, PlanRuns(p), NEW row \in StepRow,
           WellFormed(row), RefersBack(row, None), step' = Append(step, row)
    PROVE  PlanRuns(p)'
<1> DEFINE n == Len(step) + 1
<1>1. /\ DOMAIN step' = DOMAIN step \cup {n} /\ n \notin DOMAIN step
      /\ step'[n] = row /\ \A s \in DOMAIN step : step'[s] = step[s]
  <2>1. Len(step) \in Nat /\ step \in Seq(StepRow \cup {Gone}) /\ DOMAIN step = 1..Len(step)
    BY Tables DEF RowsAreSound, RowsOK
  <2>. QED BY <2>1
<1> HIDE DEF n
<1>2. ASSUME NEW s \in DOMAIN step', step'[s].plan = p
      PROVE  RowRuns(s)'
  <2>1. CASE s = n
    <3>1. row.ref # None => /\ row.ref \in DOMAIN step /\ step[row.ref].plan = row.plan
                            /\ step[row.ref].op = "query" /\ step[row.ref].seq < row.seq
      BY DEF RefersBack, StepsOf, LiveSteps
    <3>2. row.ref # None => row.ref # n /\ step'[row.ref] = step[row.ref] /\ row.ref \in DOMAIN step'
      BY <1>1, <3>1
    <3>. QED BY <1>1, <2>1, <3>1, <3>2 DEF RowRuns, WellFormed
  <2>2. CASE s \in DOMAIN step
    <3>1. step'[s] = step[s] /\ RowRuns(s)
      BY <1>1, <1>2, <2>2 DEF PlanRuns
    <3>2. step[s].ref # None => step[s].ref \in DOMAIN step' /\ step'[step[s].ref] = step[step[s].ref]
      BY <1>1, <3>1 DEF RowRuns
    <3>. QED BY <3>1, <3>2 DEF RowRuns, WellFormed
  <2>. QED BY <1>1, <2>1, <2>2
<1>. QED BY <1>2 DEF PlanRuns

\* No row of a plan refers to a step that no step of its plan refers to.
LEMMA NoneRefers ==
    ASSUME RowsAreSound, NEW own \in LiveSteps, Dependents(own) = {}, NEW s \in DOMAIN step, step[s] # Gone
    PROVE  step[s].ref # own
<1>1. SUFFICES ASSUME step[s].ref = own PROVE FALSE
  OBVIOUS
<1>2. step[s].ref # None
  BY <1>1, Tables DEF RowsAreSound, LiveSteps, None
<1>3. step[own].plan = step[s].plan
  BY <1>1, <1>2 DEF RowsAreSound
<1>4. s \in StepsOf(step[own].plan)
  BY <1>3, Tables DEF RowsAreSound, StepsOf
<1>. QED BY <1>1, <1>4 DEF Dependents

LEMMA UpdateKeepsRunning ==
    ASSUME RowsAreSound, NEW p, p # None, PlanRuns(p), NEW own \in LiveSteps, Dependents(own) = {},
           NEW row \in StepRow, WellFormed(row), RefersBack(row, own), step' = [step EXCEPT ![own] = row]
    PROVE  PlanRuns(p)'
<1>1. own \in DOMAIN step /\ own # None
  BY Tables DEF RowsAreSound, LiveSteps, None
<1>2. /\ DOMAIN step' = DOMAIN step
      /\ step'[own] = row /\ \A s \in DOMAIN step : s # own => step'[s] = step[s]
  <2>1. step \in Seq(StepRow \cup {Gone})
    BY DEF RowsAreSound, RowsOK
  <2>. QED BY <1>1, <2>1
<1>3. ASSUME NEW s \in DOMAIN step', step'[s].plan = p
      PROVE  RowRuns(s)'
  <2>1. CASE s = own
    <3>1. row.ref # None => /\ row.ref \in DOMAIN step /\ step[row.ref].plan = row.plan /\ row.ref # own
                            /\ step[row.ref].op = "query" /\ step[row.ref].seq < row.seq
      BY DEF RefersBack, StepsOf, LiveSteps
    <3>2. row.ref # None => step'[row.ref] = step[row.ref] /\ row.ref \in DOMAIN step'
      BY <1>2, <3>1
    <3>. QED BY <1>2, <2>1, <3>1, <3>2 DEF RowRuns, WellFormed
  <2>2. CASE s # own
    <3>1. step'[s] = step[s] /\ RowRuns(s) /\ s \in DOMAIN step /\ step[s].plan # None
      BY <1>2, <1>3, <2>2 DEF PlanRuns
    <3>2. step[s] # Gone
      BY <3>1 DEF Gone
    <3>3. step[s].ref # None => /\ step[s].ref \in DOMAIN step'
                                /\ step'[step[s].ref] = step[step[s].ref]
      BY <1>2, <3>1, <3>2, NoneRefers DEF RowRuns
    <3>. QED BY <3>1, <3>3 DEF RowRuns, WellFormed
  <2>. QED BY <2>1, <2>2
<1>. QED BY <1>3 DEF PlanRuns

\* A deletion of steps that no others refer to.
LEMMA DeleteKeepsRunning ==
    ASSUME RowsAreSound, IdsStay, NEW p, p # None, PlanRuns(p), NEW S, step' = WithoutSteps(S),
           \A s \in DOMAIN step : step[s].plan = p /\ step[s] # Gone /\ s \notin S
                                  => step[s].ref = None \/ step[s].ref \notin S
    PROVE  PlanRuns(p)'
<1>1. /\ DOMAIN step' = DOMAIN step
      /\ \A s \in DOMAIN step : s \in S \/ step[s] = Gone <=> step'[s] = Gone
      /\ \A s \in DOMAIN step : s \notin S /\ step[s] # Gone =>
            step'[s] = [step[s] EXCEPT !.ref = IF @ \in S THEN None ELSE @]
  BY WithoutStepsLeaves
<1>2. ASSUME NEW s \in DOMAIN step, s \notin S, step[s] # Gone,
             step[s].ref = None \/ step[s].ref \notin S
      PROVE  step'[s] = step[s]
  <2>1. step[s] \in StepRow
    BY <1>2, Tables DEF RowsAreSound
  <2>2. step'[s] = [step[s] EXCEPT !.ref = IF @ \in S THEN None ELSE @]
    BY <1>1, <1>2
  <2>. QED BY <1>2, <2>1, <2>2 DEF StepRow
<1>3. \A s \in DOMAIN step : s \notin S /\ step[s] # Gone => step'[s].op = step[s].op
         /\ step'[s].seq = step[s].seq /\ step'[s].plan = step[s].plan
  <2>1. \A s \in DOMAIN step : step[s] # Gone => step[s] \in StepRow
    BY Tables DEF RowsAreSound
  <2>. QED BY <1>1, <2>1 DEF StepRow
<1>4. ASSUME NEW s \in DOMAIN step', step'[s].plan = p
      PROVE  RowRuns(s)'
  <2>1. s \in DOMAIN step /\ step'[s] # Gone /\ s \notin S /\ step[s] # Gone
    BY <1>1, <1>4 DEF Gone
  <2>2. step[s].plan = p
    BY <1>3, <1>4, <2>1
  <2>3. step[s].ref = None \/ step[s].ref \notin S
    BY <2>1, <2>2
  <2>4. step'[s] = step[s]
    BY <1>2, <2>1, <2>3
  <2>5. RowRuns(s)
    BY <2>1, <2>2 DEF PlanRuns
  <2>6. ASSUME step[s].ref # None
        PROVE  /\ step[s].ref \in DOMAIN step' /\ step'[step[s].ref].plan = step[step[s].ref].plan
               /\ step'[step[s].ref].op = step[step[s].ref].op
               /\ step'[step[s].ref].seq = step[step[s].ref].seq
    <3>1. step[s].ref \in DOMAIN step /\ step[step[s].ref].plan = p
      BY <2>2, <2>5, <2>6 DEF RowRuns
    <3>2. step[step[s].ref] # Gone /\ step[s].ref \notin S
      BY <2>3, <2>6, <3>1 DEF Gone
    <3>. QED BY <1>1, <1>3, <3>1, <3>2
  <2>. QED BY <2>4, <2>5, <2>6 DEF RowRuns, WellFormed
<1>. QED BY <1>4 DEF PlanRuns

LEMMA ReorderKeepsRunning ==
    ASSUME RowsAreSound, NEW p, p # None, PlanRuns(p), NEW order,
           \A s, t \in LiveSteps :
              /\ step[s].plan = step[t].plan /\ s \in {m[1] : m \in order}
              /\ step[t].ref # None
              => Renumbered(order, step[t].ref) < Renumbered(order, t),
           DOMAIN step' = DOMAIN step,
           \A s \in DOMAIN step : step[s] # Gone =>
              step'[s] = [step[s] EXCEPT !.seq = Renumbered(order, s)],
           \A s \in DOMAIN step : step[s] = Gone => step'[s] = Gone
    PROVE  PlanRuns(p)'
<1>1. \A s \in DOMAIN step : step[s] # Gone <=> s \in LiveSteps
  BY Tables DEF RowsAreSound
<1>2. ASSUME NEW s \in DOMAIN step, step[s] # Gone
      PROVE  /\ step'[s].seq = Renumbered(order, s)
             /\ step'[s].plan = step[s].plan /\ step'[s].op = step[s].op
             /\ step'[s].pattern = step[s].pattern /\ step'[s].ref = step[s].ref
             /\ step'[s].input = step[s].input
  <2>1. step[s] \in StepRow /\ step'[s] = [step[s] EXCEPT !.seq = Renumbered(order, s)]
    BY <1>2, Tables DEF RowsAreSound
  <2>. QED BY <2>1 DEF StepRow
<1>3. ASSUME NEW s \in DOMAIN step', step'[s].plan = p
      PROVE  RowRuns(s)'
  <2>1. step'[s] # Gone
    BY <1>3 DEF Gone
  <2>2. s \in DOMAIN step /\ step[s] # Gone
    BY <2>1
  <2>3. step[s].plan = p /\ RowRuns(s)
    BY <1>2, <1>3, <2>2 DEF PlanRuns
  <2>4. WellFormed(step[s])'
    BY <1>2, <2>2, <2>3 DEF RowRuns, WellFormed
  <2>5. ASSUME step[s].ref # None
        PROVE  LET q == step[s].ref
               IN /\ q # s /\ q \in DOMAIN step' /\ step'[q].plan = p /\ step'[q].op = "query"
                  /\ step'[q].seq < step'[s].seq
    <3> DEFINE q == step[s].ref
    <3>1. q # s /\ q \in DOMAIN step /\ step[q].plan = p /\ step[q].op = "query"
          /\ step[q].seq < step[s].seq
      BY <2>3, <2>5 DEF RowRuns
    <3>2. step[q] # Gone
      BY <3>1 DEF Gone
    <3> HIDE DEF q
    <3>3. step'[q].plan = p /\ step'[q].op = "query" /\ step'[q].seq = Renumbered(order, q)
          /\ step'[s].seq = Renumbered(order, s)
      BY <1>2, <2>2, <3>1, <3>2
    <3>4. Renumbered(order, q) < Renumbered(order, s)
      <4>1. CASE \E x \in LiveSteps : step[x].plan = p /\ x \in {m[1] : m \in order}
        BY <1>1, <2>2, <2>3, <2>5, <4>1 DEF q
      <4>2. CASE \A x \in LiveSteps : step[x].plan = p => x \notin {m[1] : m \in order}
        <5>1. q \notin {m[1] : m \in order} /\ s \notin {m[1] : m \in order}
          BY <1>1, <2>2, <2>3, <3>1, <3>2, <4>2
        <5>. QED BY <3>1, <5>1 DEF Renumbered
      <4>. QED BY <4>1, <4>2
    <3>. QED BY <3>1, <3>3, <3>4 DEF q
  <2>6. step'[s].ref = step[s].ref /\ step'[s].plan = p
    BY <1>2, <1>3, <2>2
  <2>. QED BY <2>4, <2>5, <2>6 DEF RowRuns
<1>. QED BY <1>3 DEF PlanRuns

LEMMA DropKeepsRunning ==
    ASSUME RowsAreSound, IdsStay, NEW p, p # None, PlanRuns(p), NEW d, d # p,
           step' = WithoutSteps(StepsOf(d))
    PROVE  PlanRuns(p)'
<1>1. ASSUME NEW s \in DOMAIN step, step[s].plan = p, step[s] # Gone, step[s].ref # None
      PROVE  step[s].ref \notin StepsOf(d)
  BY <1>1 DEF RowsAreSound, StepsOf
<1>. QED BY <1>1, DeleteKeepsRunning

LEMMA DuplicateKeepsRunning ==
    ASSUME RowsAreSound, NEW p \in LivePlans, PlanRuns(p), NEW c, NEW d, DuplicatePlan(c, d)
    PROVE  PlanRuns(p)'
<1>1. /\ RowsAreSound' /\ IdsStay
      /\ \A s \in DOMAIN step : step'[s] = step[s]
      /\ \A s \in DOMAIN step' \ DOMAIN step : step'[s].plan = Len(plan) + 1
  BY DuplicateKeepsTables DEF DuplicatePlan
<1>2. p # Len(plan) + 1 /\ p # None
  BY Tables DEF RowsAreSound, LivePlans, None
<1>3. \A s \in DOMAIN step' : step'[s].plan = p =>
         /\ s \in DOMAIN step /\ step'[s] = step[s]
         /\ step[s].ref # None => step'[step[s].ref] = step[step[s].ref]
  <2>1. \A s \in DOMAIN step : step[s].plan = p /\ step[s].ref # None => step[s].ref \in DOMAIN step
    BY DEF PlanRuns, RowRuns
  <2>. QED BY <1>1, <1>2, <2>1
<1>. QED BY <1>1, <1>2, <1>3, UntouchedPlanRuns

\* While the steps stay, so does what can be run.
LEMMA RunningStays ==
    ASSUME NEW p, PlanRuns(p), UNCHANGED step
    PROVE  PlanRuns(p)'
  BY DEF PlanRuns, RowRuns, WellFormed

\* The commit of a request that nothing overtook, and that does not edit a step
\* others refer to.
LEMMA FreshWriteKeepsRunning ==
    ASSUME Inv, FreshChecksHold, NEW c \in Clients, Writing(c), ~req[c].overtaken,
           req[c].kind = "update" => Dependents(req[c].own) = {},
           NEW p \in LivePlans, p \in LivePlans', PlanRuns(p)
    PROVE  PlanRuns(p)'
<1>1. req[c] # Idle
  BY DEF Writing, WriteAdd, WriteUpdate, WriteDelete, WriteReorder, WriteOutput, WriteDeletePlan,
         WriteDeleteConn, Pending, Idle
<1>2. RowsAreSound /\ Whole(req[c]) /\ ChecksStay(req[c]) /\ StillSo(req[c])
  BY <1>1 DEF Inv, RequestsHold, RequestsAreWhole, CheckedReferencesStay, FreshChecksHold
<1>3. p # None /\ p \in DOMAIN plan
  BY <1>2, Tables DEF RowsAreSound, LivePlans, None
<1>4. CASE UNCHANGED step
  BY <1>4, RunningStays
<1> USE <1>2, <1>3
<1>5. CASE ~UNCHANGED step /\ WriteAdd(c)
  <2>1. /\ req[c].kind = "add" /\ req[c].at = "checked" /\ step' = Append(step, req[c].row)
    BY <1>5 DEF WriteAdd, Pending, Refused, tables
  <2>2. req[c].row \in StepRow /\ WellFormed(req[c].row) /\ RefersBack(req[c].row, None)
    BY <2>1 DEF Whole, StillSo
  <2>. QED BY <2>1, <2>2, AddKeepsRunning
<1>6. CASE ~UNCHANGED step /\ WriteUpdate(c)
  <2> DEFINE own == req[c].own
             seen == req[c].seen
             patch == req[c].patch
             new == [f \in DOMAIN step[own] |-> IF f \in Delta(seen, patch) THEN patch[f]
                                                ELSE step[own][f]]
  <2>1. /\ req[c].kind = "update" /\ req[c].at = "checked" /\ own \in LiveSteps
        /\ step' = [step EXCEPT ![own] = new]
    BY <1>6 DEF WriteUpdate, Pending, Refused, tables
  <2>2. /\ WellFormed(Merged(seen, patch)) /\ RefersBack(Merged(seen, patch), own)
        /\ step[own] = seen /\ seen \in StepRow /\ PatchOK(patch)
    BY <2>1 DEF StillSo, Whole
  <2>3. new = Merged(seen, patch)
    <3> HIDE DEF own, seen, patch
    <3>. QED BY <2>2 DEF Delta, Merged
  <2>4. Merged(seen, patch) \in StepRow
    BY <2>2, MergedRow
  <2>5. Dependents(own) = {}
    BY <2>1
  <2> HIDE DEF own, seen, patch, new
  <2>. QED BY <2>1, <2>2, <2>3, <2>4, <2>5, UpdateKeepsRunning
<1>7. CASE ~UNCHANGED step /\ WriteDelete(c)
  <2>1. /\ req[c].kind = "delete" /\ req[c].own \in LiveSteps \ used
        /\ step' = WithoutSteps({req[c].own}) /\ UNCHANGED <<plan, used, conn>>
    BY <1>7 DEF WriteDelete, Pending, Refused, tables
  <2>2. Dependents(req[c].own) = {}
    BY <2>1 DEF StillSo
  <2>3. IdsStay
    BY <2>1, DeleteKeepsTables
  <2>4. \A s \in DOMAIN step : step[s] # Gone => step[s].ref \notin {req[c].own}
    BY <2>1, <2>2, NoneRefers
  <2>. QED BY <2>1, <2>3, <2>4, DeleteKeepsRunning
<1>8. CASE ~UNCHANGED step /\ WriteReorder(c)
  <2> DEFINE order == req[c].order
  <2>1. /\ req[c].kind = "reorder" /\ {m[1] : m \in order} \subseteq LiveSteps
        /\ step' = [s \in DOMAIN step |->
                       IF s \in {m[1] : m \in order}
                       THEN [step[s] EXCEPT !.seq = (CHOOSE m \in order : m[1] = s)[2]]
                       ELSE step[s]]
        /\ UNCHANGED <<plan, used, conn>>
    BY <1>8 DEF WriteReorder, Pending, Refused, tables
  <2>2. \A m \in order : m[2] \in Nat \ {0}
    BY <2>1 DEF Whole
  <2>3. \A s, t \in LiveSteps :
           /\ step[s].plan = step[t].plan /\ s \in {m[1] : m \in order}
           /\ step[t].ref # None
           => Renumbered(order, step[t].ref) < Renumbered(order, t)
    BY <2>1 DEF StillSo
  <2> HIDE DEF order
  <2>4. /\ DOMAIN step' = DOMAIN step
        /\ \A s \in DOMAIN step : step[s] # Gone =>
              step'[s] = [step[s] EXCEPT !.seq = Renumbered(order, s)]
        /\ \A s \in DOMAIN step : step[s] = Gone => step'[s] = Gone
    BY <2>1, <2>2, ReorderKeepsTables
  <2>. QED BY <2>3, <2>4, ReorderKeepsRunning
<1>9. CASE ~UNCHANGED step /\ WriteDeletePlan(c)
  <2> DEFINE d == req[c].plan
  <2>1. /\ d \in LivePlans /\ ~plan[d].runs
        /\ plan' = [plan EXCEPT ![d] = [there |-> FALSE, out |-> None, runs |-> @.runs]]
        /\ step' = WithoutSteps(StepsOf(d)) /\ UNCHANGED <<used, conn>>
    BY <1>9 DEF WriteDeletePlan, Pending, Refused, Restricted, tables
  <2> HIDE DEF d
  <2>2. IdsStay
    BY <2>1, DropKeepsTables
  <2>3. d # p
    BY <2>1 DEF LivePlans
  <2>. QED BY <2>1, <2>2, <2>3, DropKeepsRunning
<1>10. CASE WriteOutput(c) \/ WriteDeleteConn(c)
  BY <1>4, <1>10 DEF WriteOutput, WriteDeleteConn, Refused, tables
<1>. QED BY <1>4, <1>5, <1>6, <1>7, <1>8, <1>9, <1>10 DEF Writing

\* Who commits is the one whose request ends, and no other's does.
LEMMA CommitActs ==
    ASSUME RequestsHold, NEW c \in Clients, Overtakes(c)
    PROVE  /\ req[c] # Idle => Acts(c)
           /\ \A d \in Clients : Acts(d) => d = c
<1>1. ASSUME NEW d \in Clients, d # c, req[d] # Idle
      PROVE  req'[d] # Idle
  <2> DEFINE r == req[d]
  <2>1. PICK q : q = req'[d]
    OBVIOUS
  <2>2. q = [r EXCEPT !.overtaken = TRUE] /\ Whole(r)
    BY <1>1, <2>1 DEF Overtakes, RequestsHold, RequestsAreWhole
  <2> HIDE DEF r
  <2>3. r.at \in {"loaded", "checked"}
    BY <2>2 DEF Whole
  <2>4. q # Idle
    BY <2>2, <2>3, MarksMove
  <2>. QED BY <2>1, <2>4
<1>. QED BY <1>1 DEF Acts, Overtakes

\* A plan that could be run can be run after a step, or a request acted that was
\* overtaken or edits a step others refer to.
LEMMA RunnableStep ==
    ASSUME Inv, FreshChecksHold, Next
    PROVE  PlanStaysRunnable
<1>1. SUFFICES ASSUME NEW p \in LivePlans, p \in LivePlans', Runnable(p), ~Runnable(p)'
               PROVE  \E c \in Clients :
                         /\ Acts(c)
                         /\ \/ req[c].overtaken
                            \/ req[c].kind = "update" /\ Dependents(req[c].own) # {}
  BY DEF PlanStaysRunnable
<1>2. p # None /\ RowsAreSound
  BY Tables DEF Inv, RowsAreSound, LivePlans, None
<1>3. PlanRuns(p) /\ ~PlanRuns(p)'
  BY <1>1, <1>2, RunsByRow, RunsByRowNext
<1>4. ~UNCHANGED step
  BY <1>3, RunningStays
<1>5. PICK c \in Clients : Request(c) \/ CheckAdd(c) \/ CheckUpdate(c) \/ Writing(c)
  BY <1>4 DEF Next, RecordJobs
<1>6. CASE Request(c)
  <2>1. \E d \in LivePlans : DuplicatePlan(c, d)
    BY <1>4, <1>6 DEF Request, StepRequest, PlanRequest, ConnRequest, LoadAdd, LoadUpdate, LoadDelete,
          LoadReorder, CreatePlan, LoadOutput, LoadDeletePlan, CreateRun, UpdateConn, LoadDeleteConn,
          Load, tables
  <2>. QED BY <1>2, <1>3, <2>1, DuplicateKeepsRunning
<1>7. CASE CheckAdd(c) \/ CheckUpdate(c)
  BY <1>4, <1>7 DEF CheckAdd, CheckUpdate, Checked, tables
<1>8. CASE Writing(c)
  <2>1. req[c] # Idle
    BY <1>8 DEF Writing, WriteAdd, WriteUpdate, WriteDelete, WriteReorder, WriteOutput,
           WriteDeletePlan, WriteDeleteConn, Pending, Idle
  <2>2. Overtakes(c)
    BY <1>4, <1>8 DEF Writing, WriteAdd, WriteUpdate, WriteDelete, WriteReorder, WriteOutput,
           WriteDeletePlan, WriteDeleteConn, Ends, Refused, tables
  <2>3. Acts(c)
    BY <2>1, <2>2, CommitActs DEF Inv
  <2>4. req[c].overtaken \/ (req[c].kind = "update" /\ Dependents(req[c].own) # {})
    BY <1>1, <1>3, <1>8, FreshWriteKeepsRunning
  <2>. QED BY <2>3, <2>4
<1>. QED BY <1>5, <1>6, <1>7, <1>8

\* A step appended to its plan comes after those that are there.
LEMMA AppendStep ==
    ASSUME Inv, FreshChecksHold, Next
    PROVE  AppendedIsLast
<1>1. SUFFICES ASSUME NEW c \in Clients, Acts(c), req[c].kind = "add", req[c].appends,
                      ~req[c].overtaken, Len(step') > Len(step)
               PROVE  \A s \in StepsOf(req[c].row.plan) : step[s].seq < step'[Len(step')].seq
  BY DEF AppendedIsLast
<1>2. RowsAreSound /\ RowsOK /\ Whole(req[c]) /\ StillSo(req[c]) /\ Len(step) \in Nat
  BY <1>1, Tables DEF Inv, RowsAreSound, RequestsHold, RequestsAreWhole, FreshChecksHold, Acts
<1>3. ~UNCHANGED step
  BY <1>1, <1>2
<1>4. PICK d \in Clients : Request(d) \/ CheckAdd(d) \/ CheckUpdate(d) \/ Writing(d)
  BY <1>3 DEF Next, RecordJobs
<1>5. Overtakes(d)
  BY <1>3, <1>4
     DEF Request, StepRequest, PlanRequest, ConnRequest, LoadAdd, LoadUpdate, LoadDelete,
         LoadReorder, CreatePlan, LoadOutput, LoadDeletePlan, CreateRun, UpdateConn, LoadDeleteConn,
         DuplicatePlan, AtOnce, Load, tables, CheckAdd, CheckUpdate, Checked,
         Writing, WriteAdd, WriteUpdate, WriteDelete, WriteReorder, WriteOutput, WriteDeletePlan,
         WriteDeleteConn, Ends, Refused
<1>6. d = c
  BY <1>1, <1>5, CommitActs DEF Inv
<1>7. Writing(c)
  BY <1>1, <1>3, <1>4, <1>6 DEF Request, Acts, CheckAdd, CheckUpdate, Checked, tables
<1>8. WriteAdd(c)
  BY <1>1, <1>3, <1>7 DEF Writing, WriteUpdate, WriteDelete, WriteReorder, WriteOutput, WriteDeletePlan,
         WriteDeleteConn, Pending
<1>9. step' = Append(step, req[c].row)
  BY <1>3, <1>8 DEF WriteAdd, Refused, tables
<1>10. req[c].row.seq = NextSequence(req[c].row.plan) /\ req[c].row \in StepRow
  BY <1>1, <1>2 DEF StillSo, Whole
<1>11. step'[Len(step')] = req[c].row
  BY <1>2, <1>9, <1>10 DEF RowsOK
<1>. QED BY <1>2, <1>10, <1>11, NextIsBeyond

\* A plan that loses its output connection lost it to its own update, or to a
\* deletion of the connection that was overtaken.
LEMMA OutputStep ==
    ASSUME Inv, FreshChecksHold, Next
    PROVE  OutputIsKept
<1>1. SUFFICES ASSUME NEW p \in LivePlans, p \in LivePlans', plan[p].out # None, plan'[p].out = None
               PROVE  \E c \in Clients : Acts(c) /\ (req[c].kind = "output" \/ req[c].overtaken)
  BY DEF OutputIsKept
<1>2. RowsAreSound /\ RequestsHold /\ plan \in Seq(PlanRow) /\ p \in DOMAIN plan
  BY DEF Inv, RowsAreSound, RowsOK, LivePlans
<1>3. ~UNCHANGED plan
  BY <1>1
<1>4. PICK c \in Clients : Request(c) \/ CheckAdd(c) \/ CheckUpdate(c) \/ Writing(c)
  BY <1>3 DEF Next, RecordJobs
<1>5. ~Request(c)
  <2>1. ASSUME NEW i, CreatePlan(c, i) PROVE FALSE
    BY <1>1, <1>2, <2>1 DEF CreatePlan
  <2>2. ASSUME NEW d, DuplicatePlan(c, d) PROVE FALSE
    BY <1>1, <1>2, <2>2 DEF DuplicatePlan
  <2>3. ASSUME NEW d, CreateRun(c, d) PROVE FALSE
    <3>1. plan' = [plan EXCEPT ![d].runs = TRUE]
      BY <2>3 DEF CreateRun
    <3>2. plan'[p].out = plan[p].out
      BY <1>2, <3>1 DEF PlanRow
    <3>. QED BY <1>1, <3>2
  <2>. QED BY <1>3, <2>1, <2>2, <2>3
          DEF Request, StepRequest, PlanRequest, ConnRequest, LoadAdd, LoadUpdate, LoadDelete,
              LoadReorder, LoadOutput, LoadDeletePlan, UpdateConn, LoadDeleteConn, Load, tables
<1>6. Writing(c)
  BY <1>3, <1>4, <1>5 DEF CheckAdd, CheckUpdate, Checked, tables
<1>7. CASE WriteOutput(c)
  <2>1. req[c].kind = "output" /\ req[c] # Idle
    BY <1>7 DEF WriteOutput, Pending, Idle
  <2>2. Overtakes(c)
    BY <1>3, <1>7 DEF WriteOutput, Ends, Refused, tables
  <2>. QED BY <1>2, <2>1, <2>2, CommitActs
<1>8. CASE WriteDeletePlan(c)
  <2> DEFINE d == req[c].plan
  <2>1. plan' = [plan EXCEPT ![d] = [there |-> FALSE, out |-> None, runs |-> @.runs]]
    BY <1>3, <1>8 DEF WriteDeletePlan, Refused, tables
  <2>2. p # d
    BY <1>1, <1>2, <2>1 DEF LivePlans
  <2>3. plan'[p] = plan[p]
    BY <1>2, <2>1, <2>2
  <2>. QED BY <1>1, <2>3
<1>9. CASE WriteDeleteConn(c)
  <2> DEFINE i == req[c].conn
  <2>1. req[c].kind = "unplug" /\ req[c] # Idle
    BY <1>9 DEF WriteDeleteConn, Pending, Idle
  <2>2. /\ Overtakes(c)
        /\ plan' = [o \in DOMAIN plan |-> IF plan[o].out = i THEN [plan[o] EXCEPT !.out = None]
                                          ELSE plan[o]]
    BY <1>3, <1>9 DEF WriteDeleteConn, Ends, Refused, tables
  <2>3. plan[p].out = i
    BY <1>1, <1>2, <2>2
  <2>4. p \in OutputUsers(i)
    BY <1>1, <2>3 DEF OutputUsers
  <2>5. req[c].overtaken
    BY <2>1, <2>4 DEF FreshChecksHold, StillSo
  <2>. QED BY <1>2, <2>1, <2>2, <2>5, CommitActs
<1>. QED BY <1>3, <1>6, <1>7, <1>8, <1>9
         DEF Writing, WriteAdd, WriteUpdate, WriteDelete, WriteReorder, Refused, tables

\* What was read and checked holds until another request commits.
LEMMA FreshChecksStay ==
    ASSUME Inv, FreshChecksHold, [Next]_vars
    PROVE  FreshChecksHold'
<1>1. ASSUME NEW c \in Clients, Request(c) \/ CheckAdd(c) \/ CheckUpdate(c) \/ Writing(c)
      PROVE  FreshChecksHold'
  BY <1>1, RequestStaysFresh, ChecksStayFresh, WritingStaysFresh
<1>2. CASE UNCHANGED <<plan, step, req>>
  <2>1. ASSUME NEW d \in Clients, req'[d] # Idle, ~req'[d].overtaken
        PROVE  StillSo(req[d])'
    <3>1. PICK r : r = req[d]
      OBVIOUS
    <3>2. StillSo(r)
      BY <1>2, <2>1, <3>1 DEF FreshChecksHold
    <3>3. StillSo(r)' /\ r = req'[d]
      BY <1>2, <3>1, <3>2, ReadsStay
    <3>. QED BY <3>3 DEF StillSo
  <2>. QED BY <2>1 DEF FreshChecksHold
<1>3. ASSUME NEW s \in LiveSteps, RecordJobs(s)
      PROVE  FreshChecksHold'
  BY <1>2, <1>3 DEF RecordJobs
<1>. QED BY <1>1, <1>2, <1>3 DEF Next, vars, tables

\* No API call makes a plan unrunnable, puts an appended step before others or takes a
\* plan's output away, but for those the property names.
THEOREM EditsKeepPlans == Spec => EditsKeepPlan
<1>1. Init => FreshChecksHold
  BY DEF Init, FreshChecksHold
<1>2. Inv /\ FreshChecksHold /\ [Next]_vars
      => [PlanStaysRunnable /\ AppendedIsLast /\ OutputIsKept]_vars
  BY RunnableStep, AppendStep, OutputStep
<1>. QED BY InitHolds, InvStays, FreshChecksStay, <1>1, <1>2, PTL DEF Spec, EditsKeepPlan
=============================================================================
