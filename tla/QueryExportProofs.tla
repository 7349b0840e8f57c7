------------------------- MODULE QueryExportProofs -------------------------
(* The proofs about QueryExport, for any number of callers, pages, rows,    *)
(* retries and ticks, and for both storages.                                *)
EXTENDS QueryExport, FiniteSetTheorems, FunctionTheorems, SequenceTheorems, WellFoundedInduction, TLAPS

-----------------------------------------------------------------------------
(* Induction.  A set of numbers up to n that is not empty has a smallest one *)
(* (it is the end of the smallest interval that ends in the set).            *)

LEMMA SmallestOf ==
    ASSUME NEW n \in Nat, NEW B \in SUBSET (0..n), B # {}
    PROVE  \E m \in B : \A k \in B : m <= k
<1> DEFINE Upto == {0..b : b \in B}
<1>1. IsFiniteSet(0..n)
  BY FS_Interval
<1>2. Upto \subseteq FiniteSubsetsOf(0..n) /\ Upto # {}
  <2>1. \A U \in Upto : U \in SUBSET (0..n)
    OBVIOUS
  <2>2. Upto # {}
    OBVIOUS
  <2> HIDE DEF Upto
  <2>3. \A U \in SUBSET (0..n) : IsFiniteSet(U)
    BY <1>1, FS_Subset
  <2>. QED BY <2>1, <2>2, <2>3 DEF FiniteSubsetsOf
<1>3. PICK T \in Upto : \A U \in Upto : <<U, T>> \notin StrictSubsetOrdering(0..n)
  <2> HIDE DEF Upto
  <2>. QED BY <1>1, <1>2, FS_StrictSubsetOrderingWellFounded, WFMin
<1>4. PICK m \in B : T = 0..m
  OBVIOUS
<1>5. ASSUME NEW k \in B, k < m
      PROVE  FALSE
  <2>1. 0..k \in Upto /\ 0..k \in SUBSET (0..n) /\ T \in SUBSET (0..n)
    BY <1>4
  <2>2. 0..k \subseteq T /\ m \in T /\ m \notin 0..k
    BY <1>4, <1>5
  <2>3. <<0..k, T>> \in StrictSubsetOrdering(0..n)
    BY <2>1, <2>2, SMT DEF StrictSubsetOrdering
  <2>. QED BY <1>3, <2>1, <2>3
<1>. QED BY <1>5

\* What holds of 0, and of p + 1 when it holds of p, holds of every number up to n.
LEMMA UptoInduction ==
    ASSUME NEW n \in Nat, NEW G \in SUBSET (0..n), 0 \in G,
           \A p \in 0..n : p < n /\ p \in G => p + 1 \in G
    PROVE  G = 0..n
<1>1. SUFFICES ASSUME (0..n) \ G # {} PROVE FALSE
  OBVIOUS
<1>2. PICK m \in (0..n) \ G : \A k \in (0..n) \ G : m <= k
  <2> DEFINE B == (0..n) \ G
  <2>1. B \in SUBSET (0..n) /\ B # {}
    BY <1>1
  <2> HIDE DEF B
  <2>2. \E m \in B : \A k \in B : m <= k
    BY <2>1, SmallestOf
  <2>. QED BY <2>2 DEF B
<1>3. m # 0 /\ m - 1 \in 0..n /\ m - 1 < n /\ ~(m <= m - 1)
  BY <1>2
<1>4. m - 1 \in G
  BY <1>2, <1>3
<1>5. (m - 1) + 1 \in G
  BY <1>3, <1>4
<1>. QED BY <1>2, <1>5

\* f joins the sequences R[1], R[2], ... one by one, up to the n-th.
Joining(f, n, R) == f[0] = <<>> /\ \A p \in 1..n : f[p] = f[p - 1] \o R[p]

\* The concatenations of the first p sequences of n, for every p, are a function.
LEMMA Concatenations ==
    ASSUME NEW S, NEW n \in Nat, NEW R, \A p \in 1..n : R[p] \in Seq(S)
    PROVE  \E f \in [0..n -> Seq(S)] : Joining(f, n, R)
<1> USE DEF Joining
<1> DEFINE Good(f, m) == f \in [0..n -> Seq(S)] /\ Joining(f, m, R)
           G == {m \in 0..n : \E f : Good(f, m)}
<1>1. 0 \in G
  <2> DEFINE g == [p \in 0..n |-> <<>>]
  <2>1. g \in [0..n -> Seq(S)]
    BY EmptySeq
  <2>2. g[0] = <<>> /\ 1..0 = {}
    OBVIOUS
  <2> HIDE DEF g
  <2>3. Good(g, 0)
    BY <2>1, <2>2
  <2>4. 0 \in 0..n
    OBVIOUS
  <2> HIDE DEF Good
  <2>. QED BY <2>3, <2>4
<1>2. ASSUME NEW m \in 0..n, m < n, m \in G
      PROVE  m + 1 \in G
  <2>1. PICK f : Good(f, m)
    BY <1>2
  <2> DEFINE v == f[m] \o R[m + 1]
             g == [f EXCEPT ![m + 1] = v]
  <2>2. f[m] \in Seq(S) /\ R[m + 1] \in Seq(S) /\ m + 1 \in 0..n
    BY <1>2, <2>1
  <2>3. v \in Seq(S)
    BY <2>2, ConcatProperties
  <2>4. g \in [0..n -> Seq(S)] /\ g[0] = <<>> /\ g[m + 1] = v /\ \A p \in 0..m : g[p] = f[p]
    <3> HIDE DEF v
    <3>. QED BY <2>1, <2>2, <2>3
  <2>5. ASSUME NEW p \in 1..(m + 1)
        PROVE  g[p] = g[p - 1] \o R[p]
    <3>1. CASE p = m + 1
      <4>1. p - 1 = m /\ g[p - 1] = f[m]
        BY <3>1, <2>4
      <4>. QED BY <2>4, <3>1, <4>1
    <3>2. CASE p # m + 1
      <4>1. p \in 1..m /\ p \in 0..m /\ p - 1 \in 0..m
        BY <3>2
      <4>2. g[p] = f[p] /\ g[p - 1] = f[p - 1]
        BY <2>4, <4>1
      <4>. QED BY <2>1, <4>1, <4>2
    <3>. QED BY <3>1, <3>2
  <2>6. Good(g, m + 1)
    <3> HIDE DEF g
    <3>. QED BY <2>4, <2>5
  <2>. QED BY <2>2, <2>6
<1>3. n \in G
  <2>1. G \in SUBSET (0..n)
    OBVIOUS
  <2> HIDE DEF G
  <2>2. G = 0..n
    BY <1>1, <1>2, <2>1, UptoInduction
  <2>. QED BY <2>2
<1>. QED BY <1>3

-----------------------------------------------------------------------------
(* The rows of a result.                                                     *)

RowPart == (Nat \ {0}) \X Nat \X Nat

LEMMA PartsDiffer ==
    /\ RowPart \subseteq Part /\ Header \in Part /\ Newline \in Part
    /\ Header # Newline
    /\ \A r \in RowPart : r # Header /\ r # Newline
BY DEF RowPart, Part, Header, Newline

LEMMA RowsAreRows ==
    ASSUME NEW j \in Nat \ {0}, NEW p \in Nat \ {0}, sf[j].result[p] \in Nat
    PROVE  Rows(j, p) \in Seq(RowPart) /\ Len(Rows(j, p)) = sf[j].result[p]
<1> DEFINE n == sf[j].result[p]
<1>1. \A i \in 1..n : <<j, p, i>> \in RowPart
  BY DEF RowPart
<1>2. Rows(j, p) = [i \in 1..n |-> <<j, p, i>>]
  BY DEF Rows, Row
<1>3. n \in Nat
  OBVIOUS
<1> HIDE DEF n
<1>4. Rows(j, p) \in [1..n -> RowPart]
  BY <1>1, <1>2
<1>5. Rows(j, p) \in Seq(RowPart)
  BY <1>3, <1>4, SeqDef
<1>6. DOMAIN Rows(j, p) = 1..n /\ DOMAIN Rows(j, p) = 1..Len(Rows(j, p)) /\ Len(Rows(j, p)) \in Nat
  BY <1>4, <1>5, LenProperties
<1>. QED BY <1>3, <1>5, <1>6 DEF n

\* The pages of a result are joined one by one.
LEMMA JoinedIs ==
    ASSUME NEW j \in Nat \ {0}, sf[j].result \in Seq(Nat)
    PROVE  /\ Joined(j) \in [0..Len(sf[j].result) -> Seq(RowPart)]
           /\ Joined(j)[0] = <<>>
           /\ \A p \in 1..Len(sf[j].result) : Joined(j)[p] = Joined(j)[p - 1] \o Rows(j, p)
<1> DEFINE n == Len(sf[j].result)
           R == [p \in 1..n |-> Rows(j, p)]
           Joins(f) == f = [p \in 0..n |-> IF p = 0 THEN <<>> ELSE f[p - 1] \o Rows(j, p)]
<1>1. n \in Nat
  BY LenProperties
<1>2. \A p \in 1..n : R[p] \in Seq(RowPart) /\ Rows(j, p) \in Seq(RowPart)
  <2>1. ASSUME NEW p \in 1..n PROVE sf[j].result[p] \in Nat /\ p \in Nat \ {0}
    BY ElementOfSeq
  <2>. QED BY <2>1, RowsAreRows
<1>3. \E f : Joins(f)
  <2>1. PICK f \in [0..n -> Seq(RowPart)] : Joining(f, n, R)
    <3>1. \A p \in 1..n : R[p] \in Seq(RowPart)
      BY <1>2
    <3> HIDE DEF R, n, Joins
    <3>. QED BY <1>1, <3>1, Concatenations
  <2> DEFINE h == [p \in 0..n |-> IF p = 0 THEN <<>> ELSE f[p - 1] \o Rows(j, p)]
  <2>2. ASSUME NEW p \in 0..n PROVE f[p] = h[p]
    <3>1. CASE p = 0
      BY <2>1, <3>1 DEF Joining
    <3>2. CASE p # 0
      <4>1. p \in 1..n /\ R[p] = Rows(j, p)
        BY <1>1, <3>2
      <4>. QED BY <2>1, <3>2, <4>1 DEF Joining
    <3>. QED BY <3>1, <3>2
  <2>3. f = [p \in 0..n |-> f[p]]
    BY <2>1
  <2>4. f = h
    BY <2>2, <2>3
  <2>. QED BY <2>4
<1>4. Joins(Joined(j))
  <2>1. Joined(j) = CHOOSE f : Joins(f)
    BY DEF Joined
  <2> HIDE DEF Joins
  <2>. QED BY <1>3, <2>1
<1> DEFINE J == Joined(j)
<1>5. /\ DOMAIN J = 0..n /\ J[0] = <<>> /\ J = [p \in 0..n |-> J[p]]
      /\ \A p \in 1..n : J[p] = J[p - 1] \o Rows(j, p)
  <2> HIDE DEF J, n
  <2>1. J = [p \in 0..n |-> IF p = 0 THEN <<>> ELSE J[p - 1] \o Rows(j, p)]
    BY <1>4 DEF J
  <2>2. DOMAIN J = 0..n
    BY <2>1
  <2>3. \A p \in 0..n : J[p] = IF p = 0 THEN <<>> ELSE J[p - 1] \o Rows(j, p)
    BY <2>1
  <2>4. 0 \in 0..n /\ \A p \in 1..n : p \in 0..n /\ p # 0
    BY <1>1
  <2>5. J = [p \in 0..n |-> J[p]]
    BY <2>1, <2>3
  <2>. QED BY <2>2, <2>3, <2>4, <2>5
<1>6. \A p \in 0..n : J[p] \in Seq(RowPart)
  <2> DEFINE G == {p \in 0..n : J[p] \in Seq(RowPart)}
  <2> HIDE DEF J, n
  <2>1. 0 \in G
    BY <1>1, <1>5, EmptySeq
  <2>2. ASSUME NEW p \in 0..n, p < n, p \in G PROVE p + 1 \in G
    <3>1. p + 1 \in 1..n /\ (p + 1) - 1 = p /\ p + 1 \in 0..n
      BY <1>1, <2>2
    <3>2. J[p + 1] = J[p] \o Rows(j, p + 1)
      BY <1>5, <3>1
    <3>3. J[p] \in Seq(RowPart) /\ Rows(j, p + 1) \in Seq(RowPart)
      BY <1>2, <2>2, <3>1
    <3>. QED BY <3>1, <3>2, <3>3, ConcatProperties
  <2>3. G \in SUBSET (0..n)
    OBVIOUS
  <2>4. G = 0..n
    <3> HIDE DEF G
    <3>. QED BY <1>1, <2>1, <2>2, <2>3, UptoInduction
  <2>. QED BY <2>4
<1> HIDE DEF J, n
<1>7. J \in [0..n -> Seq(RowPart)]
  BY <1>5, <1>6
<1>. QED BY <1>5, <1>7 DEF J, n

-----------------------------------------------------------------------------
(* Sequences that are cut and joined.                                        *)

\* A sequence is what comes before a cut and what comes after it.
LEMMA CutAndJoin ==
    ASSUME NEW S, NEW s \in Seq(S), NEW k \in 0..Len(s)
    PROVE  /\ SubSeq(s, 1, k) \in Seq(S) /\ SubSeq(s, k + 1, Len(s)) \in Seq(S)
           /\ SubSeq(s, 1, k) \o SubSeq(s, k + 1, Len(s)) = s
<1>1. Len(s) \in Nat /\ \A i \in 1..Len(s) : s[i] \in S
  BY LenProperties, ElementOfSeq
<1>2. SubSeq(s, 1, k) \in Seq(S)
  <2>1. k \in Int /\ \A i \in 1..k : s[i] \in S
    BY <1>1
  <2>. QED BY <2>1, SubSeqProperties
<1>3. SubSeq(s, k + 1, Len(s)) \in Seq(S)
  <2>1. k + 1 \in Int /\ Len(s) \in Int /\ \A i \in (k + 1)..Len(s) : s[i] \in S
    BY <1>1
  <2>. QED BY <2>1, SubSeqProperties
<1>4. SubSeq(s, 1, k) \o SubSeq(s, k + 1, Len(s)) = SubSeq(s, 1, Len(s))
  <2>1. 1 \in 1..(Len(s) + 1) /\ k \in (1 - 1)..Len(s) /\ Len(s) \in k..Len(s)
    BY <1>1
  <2>. QED BY <2>1, ConcatAdjacentSubSeq
<1>. QED BY <1>2, <1>3, <1>4, SubSeqFull

\* A page, part by part: its header, perhaps the newline, and the rows.
LEMMA PageParts ==
    ASSUME NEW R \in Seq(RowPart)
    PROVE  /\ R \in Seq(Part) /\ <<Header>> \in Seq(Part) /\ <<Newline>> \in Seq(Part)
           /\ <<Header, Newline>> \in Seq(Part) /\ <<>> \in Seq(Part)
           /\ <<Header>> \o <<Newline>> = <<Header, Newline>> /\ <<Header>> \o <<>> = <<Header>>
           /\ Len(R) \in Nat
           /\ Len(<<Header, Newline>> \o R) = Len(R) + 2 /\ Len(<<Header>> \o R) = Len(R) + 1
           /\ (<<Header, Newline>> \o R)[1] = Header /\ (<<Header, Newline>> \o R)[2] = Newline
           /\ (<<Header>> \o R)[1] = Header
           /\ \A i \in 1..Len(R) : /\ (<<Header, Newline>> \o R)[i + 2] = R[i]
                                   /\ (<<Header>> \o R)[i + 1] = R[i]
                                   /\ R[i] \in RowPart
<1> DEFINE H == Header
           N == Newline
           P == Part
<1>1. H \in P /\ N \in P /\ RowPart \subseteq P
  BY PartsDiffer
<1> HIDE DEF H, N, P
<1>2. <<H>> \in Seq(P) /\ <<N>> \in Seq(P) /\ <<H, N>> \in Seq(P) /\ <<>> \in Seq(P)
  BY <1>1
<1>3. /\ Len(<<H>>) = 1 /\ Len(<<H, N>>) = 2
      /\ <<H>>[1] = H /\ <<H, N>>[1] = H /\ <<H, N>>[2] = N
  OBVIOUS
<1>4. R \in Seq(P) /\ Len(R) \in Nat /\ \A i \in 1..Len(R) : R[i] \in RowPart
  BY <1>1, SeqMonotonic, LenProperties, ElementOfSeq
<1>5. /\ Len(<<H, N>> \o R) = 2 + Len(R)
      /\ \A i \in 1..(2 + Len(R)) : (<<H, N>> \o R)[i] = IF i <= 2 THEN <<H, N>>[i] ELSE R[i - 2]
  BY <1>2, <1>3, <1>4, ConcatProperties
<1>6. /\ Len(<<H>> \o R) = 1 + Len(R)
      /\ \A i \in 1..(1 + Len(R)) : (<<H>> \o R)[i] = IF i <= 1 THEN <<H>>[i] ELSE R[i - 1]
  BY <1>2, <1>3, <1>4, ConcatProperties
<1>7. <<H>> \o <<N>> = <<H, N>>
  <2> DEFINE c == <<H>> \o <<N>>
             d == <<H, N>>
  <2>1. Len(<<N>>) = 1 /\ <<N>>[1] = N
    OBVIOUS
  <2>2. c \in Seq(P) /\ Len(c) = 1 + 1 /\ \A i \in 1..1 + 1 : c[i] = IF i <= 1 THEN <<H>>[i] ELSE <<N>>[i - 1]
    BY <1>2, <1>3, <2>1, ConcatProperties
  <2>3. d \in Seq(P) /\ Len(d) = 2 /\ d[1] = H /\ d[2] = N
    BY <1>2, <1>3
  <2> HIDE DEF c, d
  <2>4. c[1] = H /\ c[2] = N
    BY <2>1, <2>2, <1>3
  <2>5. \A i \in 1..Len(c) : c[i] = d[i]
    BY <2>2, <2>3, <2>4
  <2>6. c = d
    BY <2>2, <2>3, <2>5, SeqEqual
  <2>. QED BY <2>6 DEF c, d
<1>8. <<H>> \o <<>> = <<H>>
  BY <1>2, ConcatEmptySeq
<1>9. ASSUME NEW i \in 1..Len(R)
      PROVE  (<<H, N>> \o R)[i + 2] = R[i] /\ (<<H>> \o R)[i + 1] = R[i]
  <2>1. i + 2 \in 1..(2 + Len(R)) /\ ~(i + 2 <= 2) /\ (i + 2) - 2 = i
    BY <1>4
  <2>2. i + 1 \in 1..(1 + Len(R)) /\ ~(i + 1 <= 1) /\ (i + 1) - 1 = i
    BY <1>4
  <2>. QED BY <1>5, <1>6, <2>1, <2>2
<1>10. 1 \in 1..(2 + Len(R)) /\ 2 \in 1..(2 + Len(R)) /\ 1 \in 1..(1 + Len(R))
  BY <1>4
<1>11. (<<H, N>> \o R)[1] = H /\ (<<H, N>> \o R)[2] = N /\ (<<H>> \o R)[1] = H
  BY <1>3, <1>5, <1>6, <1>10
<1>12. Len(<<H, N>> \o R) = Len(R) + 2 /\ Len(<<H>> \o R) = Len(R) + 1
  BY <1>4, <1>5, <1>6
<1>. QED BY <1>2, <1>4, <1>7, <1>8, <1>9, <1>11, <1>12 DEF H, N, P

\* The newline of a page is its second part, if the page has it; a page without one is
\* the header alone.
LEMMA NewlineIsSecond ==
    ASSUME NEW R \in Seq(RowPart), NEW line \in {<<>>, <<Newline>>}, line = <<>> => R = <<>>
    PROVE  /\ (<<Header>> \o line) \o R \in Seq(Part)
           /\ \A i \in 1..Len((<<Header>> \o line) \o R) :
                 ((<<Header>> \o line) \o R)[i] = Newline <=> (line = <<Newline>> /\ i = 2)
           /\ line = <<Newline>> => /\ (<<Header>> \o line) \o R = <<Header, Newline>> \o R
                                    /\ 2 \in 1..Len((<<Header>> \o line) \o R)
<1> DEFINE W == (<<Header>> \o line) \o R
<1>1. CASE line = <<>>
  <2>1. R = <<>> /\ W = <<Header>> /\ line # <<Newline>>
    BY <1>1, PageParts, ConcatEmptySeq
  <2>2. Len(W) = 1 /\ W[1] = Header /\ Header # Newline /\ W \in Seq(Part)
    BY <2>1, PartsDiffer, PageParts, ZenonT(40)
  <2>3. \A i \in 1..Len(W) : W[i] # Newline
    <3> HIDE DEF W
    <3>. QED BY <2>2
  <2> HIDE DEF W
  <2>4. W \in Seq(Part) /\ \A i \in 1..Len(W) : W[i] = Newline <=> (line = <<Newline>> /\ i = 2)
    BY <2>1, <2>2, <2>3
  <2>. QED BY <2>1, <2>4 DEF W
<1>2. CASE line = <<Newline>>
  <2>1. W = <<Header, Newline>> \o R
    BY <1>2, PageParts
  <2>2. W \in Seq(Part) /\ Len(W) = Len(R) + 2 /\ Len(R) \in Nat /\ W[1] = Header /\ W[2] = Newline
    BY <2>1, PageParts, ConcatProperties
  <2>3. ASSUME NEW i \in 1..Len(W), i # 1, i # 2
        PROVE  W[i] # Newline
    <3>1. i - 2 \in 1..Len(R) /\ (i - 2) + 2 = i
      BY <2>2, <2>3
    <3>2. W[i] = R[i - 2] /\ R[i - 2] \in RowPart
      <4>1. (<<Header, Newline>> \o R)[(i - 2) + 2] = R[i - 2] /\ R[i - 2] \in RowPart
        BY <3>1, PageParts
      <4>. QED BY <2>1, <3>1, <4>1
    <3>. QED BY <3>2, PartsDiffer
  <2>4. Header # Newline /\ 2 \in 1..Len(W)
    BY <2>2, PartsDiffer
  <2>5. \A i \in 1..Len(W) : W[i] = Newline <=> i = 2
    <3> HIDE DEF W
    <3>. QED BY <2>2, <2>3, <2>4
  <2>. QED BY <1>2, <2>1, <2>2, <2>4, <2>5
<1>. QED BY <1>1, <1>2

\* What follows the newline in the first part of a page, and the rest of the page,
\* are the rows of the page.
PageOf(line, R) == (<<Header>> \o line) \o R

LEMMA RowsFollowNewline ==
    ASSUME NEW R \in Seq(RowPart), NEW line \in {<<>>, <<Newline>>}, line = <<>> => R = <<>>,
           NEW s \in Seq(Part), NEW b \in Seq(Part), s \o b = PageOf(line, R),
           HasNewline(s)
    PROVE  AfterNewline(s) \in Seq(Part) /\ AfterNewline(s) \o b = R /\ line = <<Newline>>
<1> USE DEF PageOf
<1> DEFINE W == (<<Header>> \o line) \o R
<1>1. /\ Len(s) \in Nat /\ Len(b) \in Nat /\ Len(W) = Len(s) + Len(b)
      /\ \A i \in 1..Len(s) + Len(b) : W[i] = IF i <= Len(s) THEN s[i] ELSE b[i - Len(s)]
  BY ConcatProperties, LenProperties
<1>2. ASSUME NEW i \in 1..Len(s)
      PROVE  s[i] = Newline <=> (line = <<Newline>> /\ i = 2)
  <2>1. i \in 1..Len(W) /\ s[i] = W[i]
    <3> HIDE DEF W
    <3>. QED BY <1>1
  <2>. QED BY <2>1, NewlineIsSecond
<1>3. line = <<Newline>> /\ 2 \in 1..Len(s) /\ s[2] = Newline
  BY <1>2 DEF HasNewline
<1>4. W = <<Header, Newline>> \o R /\ Len(W) = Len(R) + 2 /\ Len(R) \in Nat
  BY <1>3, NewlineIsSecond, PageParts
<1> DEFINE a == SubSeq(s, 3, Len(s))
<1>5. AfterNewline(s) = a
  <2>1. (CHOOSE i \in 1..Len(s) : s[i] = Newline) = 2
    BY <1>2, <1>3
  <2>2. AfterNewline(s) = SubSeq(s, (CHOOSE i \in 1..Len(s) : s[i] = Newline) + 1, Len(s))
    BY DEF AfterNewline
  <2>3. 2 + 1 = 3
    OBVIOUS
  <2>. QED BY <2>1, <2>2, <2>3
<1>6. a \in Seq(Part) /\ Len(a) = Len(s) - 2 /\ \A i \in 1..(Len(s) - 2) : a[i] = s[i + 2]
  <2>1. 3 \in Int /\ Len(s) \in Int /\ \A i \in 3..Len(s) : s[i] \in Part
    BY <1>1, ElementOfSeq
  <2>2. /\ a \in Seq(Part) /\ Len(a) = IF 3 <= Len(s) THEN Len(s) - 3 + 1 ELSE 0
        /\ \A i \in 1..(Len(s) - 3 + 1) : a[i] = s[3 + i - 1]
    BY <2>1, SubSeqProperties
  <2>3. \A i \in 1..(Len(s) - 2) : i \in 1..(Len(s) - 3 + 1) /\ 3 + i - 1 = i + 2
    BY <1>1
  <2> HIDE DEF a
  <2>4. Len(a) = Len(s) - 2
    <3>1. PICK m \in Nat : m = Len(s) /\ 2 \in 1..m
      BY <1>1, <1>3
    <3>2. Len(a) = IF 3 <= m THEN m - 3 + 1 ELSE 0
      BY <2>2, <3>1
    <3>3. Len(a) = m - 2
      BY <3>1, <3>2
    <3>. QED BY <3>1, <3>3
  <2>5. ASSUME NEW i \in 1..(Len(s) - 2) PROVE a[i] = s[i + 2]
    <3>1. i \in 1..(Len(s) - 3 + 1) /\ 3 + i - 1 = i + 2
      BY <1>1
    <3>2. a[i] = s[3 + i - 1]
      BY <2>2, <3>1
    <3>. QED BY <3>1, <3>2
  <2>. QED BY <2>2, <2>4, <2>5
<1>7. /\ a \o b \in Seq(Part) /\ Len(a \o b) = Len(a) + Len(b)
      /\ \A i \in 1..Len(a) + Len(b) : (a \o b)[i] = IF i <= Len(a) THEN a[i] ELSE b[i - Len(a)]
  <2> HIDE DEF a
  <2>. QED BY <1>6, ConcatProperties
<1>8. R \in Seq(Part) /\ Len(a \o b) = Len(R)
  <2> HIDE DEF a, W
  <2>. QED BY <1>1, <1>4, <1>6, <1>7, PageParts
<1>9. ASSUME NEW i \in 1..Len(a \o b)
      PROVE  (a \o b)[i] = R[i]
  <2> HIDE DEF a
  <2>1. i \in 1..Len(R) /\ i + 2 \in 1..(Len(s) + Len(b)) /\ i \in 1..(Len(a) + Len(b))
    <3> HIDE DEF W
    <3>. QED BY <1>1, <1>4, <1>7, <1>8, <1>6
  <2>2. W[i + 2] = R[i]
    BY <1>4, <2>1, PageParts
  <2> HIDE DEF W
  <2>3. CASE i <= Len(s) - 2
    <3>1. i <= Len(a) /\ i + 2 <= Len(s) /\ i \in 1..(Len(s) - 2)
      BY <1>1, <1>6, <2>3
    <3>2. (a \o b)[i] = a[i] /\ a[i] = s[i + 2] /\ W[i + 2] = s[i + 2]
      BY <1>1, <1>6, <1>7, <2>1, <3>1
    <3>. QED BY <2>2, <3>2
  <2>4. CASE ~(i <= Len(s) - 2)
    <3>1. ~(i <= Len(a)) /\ ~(i + 2 <= Len(s)) /\ i - Len(a) = (i + 2) - Len(s)
      BY <1>1, <1>6, <2>1, <2>4
    <3>2. (a \o b)[i] = b[i - Len(a)] /\ W[i + 2] = b[(i + 2) - Len(s)]
      BY <1>1, <1>7, <2>1, <3>1
    <3>. QED BY <2>2, <3>1, <3>2
  <2>. QED BY <2>3, <2>4
<1>10. a \o b = R
  <2> HIDE DEF a
  <2>. QED BY <1>7, <1>8, <1>9, SeqEqual
<1>. QED BY <1>3, <1>5, <1>6, <1>10

\* A page in which no newline is found has no newline.
LEMMA NoNewlineNoRows ==
    ASSUME NEW R \in Seq(RowPart), NEW line \in {<<>>, <<Newline>>}, line = <<>> => R = <<>>,
           ~HasNewline((<<Header>> \o line) \o R)
    PROVE  line = <<>>
BY NewlineIsSecond DEF HasNewline

\* The broken rows are finitely many; after k parts that are not broken they are as many.
LEMMA BrokenRowsShift ==
    ASSUME NEW R, NEW f, Len(R) \in Nat, NEW k \in 1..2, Len(f) = Len(R) + k,
           \A i \in 1..k : f[i] \notin Broken,
           \A i \in 1..Len(R) : f[i + k] = R[i]
    PROVE  Cardinality(BrokenRows(f)) = Cardinality(BrokenRows(R)) /\ Cardinality(BrokenRows(R)) \in Nat
<1> DEFINE S == BrokenRows(R)
           T == BrokenRows(f)
           F == [i \in S |-> i + k]
<1>1. S \subseteq 1..Len(R) /\ IsFiniteSet(S) /\ Cardinality(S) \in Nat
  <2>1. S \subseteq 1..Len(R)
    BY DEF BrokenRows
  <2>2. IsFiniteSet(1..Len(R))
    BY FS_Interval
  <2> HIDE DEF S
  <2>. QED BY <2>1, <2>2, FS_Subset, FS_CardinalityType
<1>2. ASSUME NEW i \in S PROVE i + k \in T
  BY <1>1, <1>2 DEF BrokenRows
<1>3. ASSUME NEW t \in T PROVE t - k \in S /\ (t - k) + k = t
  <2>1. t \in 1..Len(f) /\ f[t] \in Broken
    BY <1>3 DEF BrokenRows
  <2>2. t \notin 1..k
    BY <2>1
  <2>3. t - k \in 1..Len(R) /\ (t - k) + k = t
    BY <2>1, <2>2
  <2>. QED BY <2>1, <2>3 DEF BrokenRows
<1>4. F \in Bijection(S, T)
  <2>1. F \in [S -> T]
    BY <1>2
  <2>2. \A a, b \in S : F[a] = F[b] => a = b
    BY <1>1
  <2>3. \A t \in T : \E i \in S : F[i] = t
    BY <1>3
  <2> HIDE DEF S, T, F
  <2>. QED BY <2>1, <2>2, <2>3, Fun_IsBij
<1>5. Cardinality(T) = Cardinality(S)
  <2> HIDE DEF S, T, F
  <2>1. ExistsBijection(S, T)
    BY <1>4 DEF ExistsBijection
  <2>. QED BY <1>1, <2>1, FS_Bijection
<1>. QED BY <1>1, <1>5

\* The rows of a whole file are the parts of it that are counted, the broken ones twice.
LEMMA RowsOfWholeFile ==
    ASSUME NEW R \in Seq(RowPart), NEW f \in {<<Header>> \o R, <<Header, Newline>> \o R}
    PROVE  /\ CountRows(f) = Len(R) + Cardinality(BrokenRows(R)) /\ CountRows(f) \in Nat
           /\ f \in Seq(Part) /\ f # <<>>
<1> DEFINE k == Len(f) - Len(R)
           C == {i \in 1..Len(f) : f[i] \notin {Header, Newline}}
<1>1. /\ Len(R) \in Nat /\ f \in Seq(Part) /\ k \in 1..2 /\ Len(f) = Len(R) + k
      /\ f[1] = Header /\ (k = 2 => f[2] = Newline)
      /\ \A i \in 1..Len(R) : f[i + k] = R[i] /\ R[i] \in RowPart
  <2>1. CASE f = <<Header>> \o R
    <3>1. k = 1 /\ f \in Seq(Part) /\ Len(R) \in Nat /\ Len(f) = Len(R) + 1
      BY <2>1, PageParts, ConcatProperties
    <3>. QED BY <2>1, <3>1, PageParts
  <2>2. CASE f = <<Header, Newline>> \o R
    <3>1. k = 2 /\ f \in Seq(Part) /\ Len(R) \in Nat /\ Len(f) = Len(R) + 2
      BY <2>2, PageParts, ConcatProperties
    <3>. QED BY <2>2, <3>1, PageParts
  <2>. QED BY <2>1, <2>2
<1> HIDE DEF k
<1>2. ASSUME NEW i \in 1..Len(f)
      PROVE  f[i] \notin {Header, Newline} <=> i > k
  <2>1. CASE i > k
    <3>1. i - k \in 1..Len(R) /\ (i - k) + k = i
      BY <1>1, <2>1
    <3>2. f[i] \in RowPart
      BY <1>1, <3>1
    <3>. QED BY <2>1, <3>2, PartsDiffer
  <2>2. CASE ~(i > k)
    <3>1. i = 1 \/ (i = 2 /\ k = 2)
      BY <1>1, <2>2
    <3>. QED BY <1>1, <2>2, <3>1
  <2>. QED BY <2>1, <2>2
<1>3. C = (k + 1)..Len(f)
  BY <1>1, <1>2
<1>4. Cardinality(C) = Len(R)
  <2>1. k + 1 \in Int /\ Len(f) \in Int
    BY <1>1
  <2>2. Cardinality((k + 1)..Len(f)) = IF k + 1 > Len(f) THEN 0 ELSE Len(f) - (k + 1) + 1
    BY <2>1, FS_Interval
  <2> HIDE DEF C
  <2>. QED BY <1>1, <1>3, <2>2
<1>5. f # <<>>
  BY <1>1
<1>6. Cardinality(BrokenRows(f)) = Cardinality(BrokenRows(R)) /\ Cardinality(BrokenRows(R)) \in Nat
  <2>1. Broken \subseteq RowPart
    BY QueryExportAssumption DEF RowPart
  <2>2. Header \notin Broken /\ Newline \notin Broken
    BY <2>1, PartsDiffer
  <2>3. ASSUME NEW i \in 1..k PROVE f[i] \notin Broken
    <3>1. i = 1 \/ (i = 2 /\ k = 2)
      BY <1>1
    <3>. QED BY <1>1, <2>2, <3>1
  <2>. QED BY <1>1, <2>3, BrokenRowsShift
<1>. QED BY <1>1, <1>4, <1>5, <1>6 DEF CountRows

-----------------------------------------------------------------------------
(* What does not touch the job at Salesforce leaves its result alone.        *)

LEMMA SameResult ==
    ASSUME UNCHANGED <<sf, job>>
    PROVE  /\ \A p : Rows(job, p)' = Rows(job, p)
           /\ \A p : LineEnds(p)' = LineEnds(p)
           /\ Joined(job)' = Joined(job)
           /\ FullResult(job)' = FullResult(job)
           /\ WholeFiles(job)' = WholeFiles(job)
<1>1. \A p : Rows(job, p)' = Rows(job, p)
  BY DEF Rows
<1>2. \A p : LineEnds(p)' = LineEnds(p)
  BY DEF LineEnds
<1>3. Joined(job)' = Joined(job)
  BY DEF Joined, Rows
<1>4. FullResult(job)' = FullResult(job)
  BY <1>3 DEF FullResult
<1>. QED BY <1>1, <1>2, <1>3, <1>4 DEF WholeFiles

\* The file and the record stay true where neither they nor the result change.
LEMMA SameFile ==
    ASSUME FileIsWhole, RecordFollowsFile, UNCHANGED <<sf, job>>, out'.file = out.file
    PROVE  /\ FileIsWhole'
           /\ record' = record => RecordFollowsFile'
           /\ record'.status # "job_complete" => RecordFollowsFile'
BY SameResult DEF FileIsWhole, RecordFollowsFile, BrokenRows

\* So does what is written of the pages.
LEMMA SameWriting ==
    ASSUME WrittenSoFar, UNCHANGED <<sf, job, page, body, leftover, stripped, out>>,
           pc' = pc \/ pc' \notin {"page", "stream", "closing"}
    PROVE  WrittenSoFar'
BY SameResult DEF WrittenSoFar, MidPage, PagesBefore, Committed, HasNewline

-----------------------------------------------------------------------------
(* The steps.  First those that get a token.                                 *)

LEMMA NaturalConstants ==
    /\ MaxRetries \in Nat /\ Lifetime \in Nat /\ Buffer \in Nat /\ MaxPoll \in Nat
    /\ MaxRows \in Nat /\ MaxTime \in Nat /\ MaxStore \in Nat /\ MinPart \in Nat \ {0} /\ MaxPages \in Nat \ {0}
    /\ Step \in Callers /\ Cached \subseteq 0..Lifetime
BY QueryExportAssumption

LEMMA InitInv == Init => QueryIInv
<1>1. SUFFICES ASSUME Init PROVE QueryIInv
  OBVIOUS
<1>2. TypeOK
  <2>1. now \in Clock /\ conn \in Expiry /\ attempt \in 0..MaxRetries /\ 0 \in Clock /\ 0 \in Expiry
    BY <1>1, NaturalConstants DEF Init, Clock, Expiry
  <2>2. caller \in [Callers -> [pc : Calls, expires : Expiry]]
    BY <1>1, <2>1 DEF Init, Calls
  <2>3. sf = <<>> /\ sf \in Seq([state : Terminal \cup {"InProgress"}, result : Seq(Nat)]) /\ Len(sf) = 0
    BY <1>1, EmptySeq DEF Init
  <2>4. job \in 0..Len(sf) /\ lost \in Nat /\ began \in Clock
    BY <1>1, <2>1, <2>3 DEF Init
  <2>5. page \in Nat \ {0} /\ stripped \in BOOLEAN
    <3>1. page = 1 /\ stripped = FALSE
      BY <1>1 DEF Init
    <3>2. page \in Nat \ {0}
      BY <3>1
    <3>3. stripped \in BOOLEAN
      BY <3>1, Zenon
    <3>. QED BY <3>2, <3>3
  <2>6. <<>> \in Seq(Part) /\ body \in Seq(Part) /\ leftover \in Seq(Part)
    BY <1>1, EmptySeq DEF Init
  <2>7. out \in [backend : Backends, open : BOOLEAN, data : Seq(Part), buffer : Seq(Part),
                 file : Seq(Part), orphan : BOOLEAN]
    BY <1>1, <2>6 DEF Init, NoFile
  <2>8. pc = "preflight" /\ pc \in Places
    BY <1>1 DEF Init, Places
  <2>9. record \in [status : {"pending", "in_progress", "job_complete", "failed"}, rows : Nat, uri : BOOLEAN]
    BY <1>1 DEF Init
  <2>. QED BY <2>1, <2>2, <2>3, <2>4, <2>5, <2>6, <2>7, <2>8, <2>9 DEF TypeOK
<1>3. CallsComeFirst
  BY <1>1, NaturalConstants DEF Init, CallsComeFirst
<1>4. ResultStands /\ WrittenSoFar
  BY <1>1 DEF Init, ResultStands, WrittenSoFar
<1>5. RequestsAreCounted
  BY <1>1, NaturalConstants, EmptySeq DEF Init, RequestsAreCounted, JobsAreKnownOrLost
<1>6. WriterFollowsStep /\ FileFollowsCommit /\ FileIsWhole /\ RecordFollowsFile
  BY <1>1 DEF Init, WriterFollowsStep, FileFollowsCommit, FileIsWhole, RecordFollowsFile, NoFile
<1>. QED BY <1>2, <1>3, <1>4, <1>5, <1>6 DEF QueryIInv

\* A caller that has its token keeps what it knows of when it expires.
LEMMA Held ==
    ASSUME caller \in [Callers -> [pc : Calls, expires : Expiry]], NEW c \in Callers, NEW q
    PROVE  [caller EXCEPT ![c].pc = q] = [caller EXCEPT ![c] = [pc |-> q, expires |-> caller[c].expires]]
<1> DEFINE k == caller[c]
<1>1. k \in [pc : Calls, expires : Expiry]
  OBVIOUS
<1> HIDE DEF k
<1>2. [k EXCEPT !.pc = q] = [pc |-> q, expires |-> k.expires]
  BY <1>1
<1>. QED BY <1>2 DEF k

LEMMA TokenInv ==
    ASSUME QueryIInv, NEW c \in Callers, GetAccessToken(c)
    PROVE  QueryIInv'
<1>1. /\ UNCHANGED <<now, pc, attempt, sf, job, lost, began, page, body, leftover, stripped, out, record>>
  BY DEF GetAccessToken, LoadConnection, ReuseToken, ExchangeJwt, StoreToken, remote, stream
<1>2. TypeOK /\ CallsComeFirst
  BY DEF QueryIInv
<1>3. /\ caller \in [Callers -> [pc : Calls, expires : Expiry]] /\ conn \in Expiry /\ now \in Clock
      /\ caller[c].expires \in Expiry
  BY <1>2 DEF TypeOK
<1>4. \E q \in Calls, e \in Expiry :
         /\ caller' = [caller EXCEPT ![c] = [pc |-> q, expires |-> e]]
         /\ caller[c].pc \in {"idle", "loaded", "answered"}
         /\ q = "answered" => e + MaxStore >= now + Lifetime
  <2>1. CASE LoadConnection(c)
    BY <1>3, <2>1 DEF LoadConnection, Calls
  <2>2. CASE ReuseToken(c)
    <3>1. caller' = [caller EXCEPT ![c] = [pc |-> "holding", expires |-> caller[c].expires]]
      BY <1>3, <2>2, Held DEF ReuseToken
    <3>. QED BY <1>3, <2>2, <3>1 DEF ReuseToken, Calls
  <2>3. CASE ExchangeJwt(c)
    <3>1. caller[c].pc = "loaded"
      BY <2>3 DEF ExchangeJwt
    <3>2. now <= MaxTime /\ now \in Nat
      BY <1>2, <1>3, <3>1, NaturalConstants DEF CallsComeFirst, Clock
    <3>3. now + Lifetime \in Expiry /\ now + Lifetime + MaxStore >= now + Lifetime /\ 0 \in Expiry
      BY <3>2, NaturalConstants DEF Expiry
    <3>. QED BY <2>3, <3>1, <3>3 DEF ExchangeJwt, Calls
  <2>4. CASE StoreToken(c)
    <3>1. caller' = [caller EXCEPT ![c] = [pc |-> "holding", expires |-> caller[c].expires]]
      BY <1>3, <2>4, Held DEF StoreToken
    <3>. QED BY <1>3, <2>4, <3>1 DEF StoreToken, Calls
  <2>. QED BY <2>1, <2>2, <2>3, <2>4 DEF GetAccessToken
<1>5. PICK q \in Calls, e \in Expiry :
         /\ caller' = [caller EXCEPT ![c] = [pc |-> q, expires |-> e]]
         /\ caller[c].pc \in {"idle", "loaded", "answered"}
         /\ q = "answered" => e + MaxStore >= now + Lifetime
  BY <1>4
<1>6. conn' \in Expiry
  BY <1>3 DEF GetAccessToken, LoadConnection, ReuseToken, ExchangeJwt, StoreToken
<1>7. TypeOK'
  <2>1. caller' \in [Callers -> [pc : Calls, expires : Expiry]]
    BY <1>3, <1>5
  <2>. QED BY <1>1, <1>2, <1>6, <2>1 DEF TypeOK
<1>8. CallsComeFirst'
  <2>1. \A d \in Callers : d # c => caller'[d] = caller[d]
    BY <1>3, <1>5
  <2>2. caller'[c].pc = q /\ caller'[c].expires = e
    BY <1>3, <1>5
  <2>3. pc = "preflight" \/ (c = Step /\ pc = "waiting")
    BY <1>2, <1>5 DEF CallsComeFirst
  <2>. QED BY <1>1, <1>2, <1>5, <2>1, <2>2, <2>3 DEF CallsComeFirst
<1>9. WrittenSoFar' /\ FileIsWhole' /\ RecordFollowsFile'
  BY <1>1, SameWriting, SameFile DEF QueryIInv
<1>10. ResultStands' /\ RequestsAreCounted' /\ WriterFollowsStep' /\ FileFollowsCommit'
  BY <1>1 DEF QueryIInv, ResultStands, RequestsAreCounted, JobsAreKnownOrLost, WriterFollowsStep,
              FileFollowsCommit
<1>. QED BY <1>7, <1>8, <1>9, <1>10 DEF QueryIInv

-----------------------------------------------------------------------------
(* Then the steps before the job is created.                                 *)

LEMMA BeforeInv ==
    ASSUME QueryIInv, Preflight \/ ExplainAnswered \/ ExplainPutOff \/ BeginRun \/ BeginStep
    PROVE  QueryIInv'
<1>1. /\ UNCHANGED <<now, conn, sf, job, lost, began, page, body, leftover, stripped, out>>
      /\ pc \in {"preflight", "explain", "explained", "waiting"}
      /\ pc' \in {"explain", "explained", "waiting", "create"}
      /\ attempt' = 0 \/ (attempt # MaxRetries /\ attempt' = attempt + 1 /\ pc' = pc)
  BY DEF Preflight, ExplainAnswered, ExplainPutOff, BeginRun, BeginStep, TryAgain, Goto, Exhausted,
         remote, stream, token
<1>2. TypeOK /\ CallsComeFirst /\ RequestsAreCounted /\ WriterFollowsStep /\ FileFollowsCommit
  BY DEF QueryIInv
<1>3. sf = <<>> /\ lost = 0 /\ job = 0 /\ Len(sf) = 0
  BY <1>1, <1>2, EmptySeq DEF RequestsAreCounted, TypeOK
<1>4. attempt' \in 0..MaxRetries
  BY <1>1, <1>2, NaturalConstants DEF TypeOK
<1>5. /\ caller' \in [Callers -> [pc : Calls, expires : Expiry]]
      /\ caller' = caller \/ (pc' = "waiting" /\ \E e \in Expiry : caller' = [caller EXCEPT ![Step] = [pc |-> "loaded", expires |-> e]])
  <2>1. CASE BeginRun
    <3>1. caller \in [Callers -> [pc : Calls, expires : Expiry]] /\ caller[Step].expires \in Expiry
      BY <1>2, NaturalConstants DEF TypeOK
    <3>2. caller' = [caller EXCEPT ![Step] = [pc |-> "loaded", expires |-> caller[Step].expires]]
      BY <2>1, <3>1, Held, NaturalConstants DEF BeginRun
    <3>3. pc' = "waiting"
      BY <2>1 DEF BeginRun, Goto
    <3>4. caller' \in [Callers -> [pc : Calls, expires : Expiry]]
      BY <3>1, <3>2 DEF Calls
    <3>. QED BY <3>1, <3>2, <3>3, <3>4
  <2>2. CASE ~BeginRun
    <3>1. caller' = caller
      BY <2>2 DEF Preflight, ExplainAnswered, ExplainPutOff, BeginStep, token
    <3>. QED BY <1>2, <3>1 DEF TypeOK
  <2>. QED BY <2>1, <2>2
<1>6. /\ record' \in [status : {"pending", "in_progress", "job_complete", "failed"}, rows : Nat, uri : BOOLEAN]
      /\ record'.status # "job_complete"
      /\ pc' = "create" => record'.status = "in_progress"
  <2>1. CASE BeginStep
    <3> DEFINE q == [record EXCEPT !.status = "in_progress"]
    <3>1. record' = q
      BY <2>1 DEF BeginStep
    <3>2. record \in [status : {"pending", "in_progress", "job_complete", "failed"}, rows : Nat, uri : BOOLEAN]
      BY <1>2 DEF TypeOK
    <3>3. q \in [status : {"pending", "in_progress", "job_complete", "failed"}, rows : Nat, uri : BOOLEAN] /\ q.status = "in_progress"
      BY <3>2
    <3>. QED BY <3>1, <3>3
  <2>2. CASE ~BeginStep
    <3>1. record' = record
      BY <2>2 DEF Preflight, ExplainAnswered, ExplainPutOff, BeginRun
    <3>2. record.status # "job_complete"
      BY <1>1, <1>2 DEF FileFollowsCommit
    <3>3. pc' # "create"
      BY <1>1, <2>2 DEF Preflight, ExplainAnswered, ExplainPutOff, BeginRun, TryAgain, Goto
    <3>. QED BY <1>2, <3>1, <3>2, <3>3 DEF TypeOK
  <2>. QED BY <2>1, <2>2
<1>7. TypeOK'
  BY <1>1, <1>2, <1>4, <1>5, <1>6 DEF TypeOK, Places
<1>8. CallsComeFirst'
  <2>1. CASE caller' = caller
    <3>1. \A c \in Callers : caller[c].pc \notin {"idle", "loaded", "answered"}
      <4>1. CASE Preflight
        BY <4>1 DEF Preflight, CallersDone
      <4>2. CASE BeginStep
        BY <4>2, <1>2 DEF BeginStep, CallsComeFirst
      <4>3. CASE ~Preflight /\ ~BeginStep
        <5>1. pc \in {"explain", "explained"}
          BY <4>3 DEF ExplainAnswered, ExplainPutOff, BeginRun
        <5>. QED BY <1>2, <5>1 DEF CallsComeFirst
      <4>. QED BY <4>1, <4>2, <4>3
    <3>. QED BY <1>1, <1>2, <2>1, <3>1 DEF CallsComeFirst
  <2>2. CASE caller' # caller
    <3>1. PICK e \in Expiry : caller' = [caller EXCEPT ![Step] = [pc |-> "loaded", expires |-> e]]
      BY <1>5, <2>2
    <3>2. caller \in [Callers -> [pc : Calls, expires : Expiry]]
      BY <1>2 DEF TypeOK
    <3>3. caller'[Step].pc = "loaded" /\ \A d \in Callers : d # Step => caller'[d] = caller[d]
      BY <3>1, <3>2, NaturalConstants
    <3>4. pc' = "waiting" /\ pc = "explained"
      BY <1>5, <2>2 DEF Preflight, ExplainAnswered, ExplainPutOff, BeginRun, BeginStep, token
    <3>5. \A d \in Callers : caller[d].pc \notin {"idle", "loaded", "answered"}
      BY <1>2, <3>4 DEF CallsComeFirst
    <3>. QED BY <1>1, <1>2, <3>3, <3>4, <3>5 DEF CallsComeFirst
  <2>. QED BY <2>1, <2>2
<1>9. FileIsWhole' /\ RecordFollowsFile' /\ WrittenSoFar'
  BY <1>1, <1>6, SameFile, SameWriting DEF QueryIInv
<1>10. RequestsAreCounted'
  BY <1>1, <1>2, <1>3, <1>4, NaturalConstants DEF RequestsAreCounted, JobsAreKnownOrLost
<1>11. ResultStands' /\ WriterFollowsStep' /\ FileFollowsCommit'
  <2>1. ResultStands
    BY DEF QueryIInv
  <2>. QED BY <1>1, <1>2, <1>6, <2>1 DEF ResultStands, WriterFollowsStep, FileFollowsCommit
<1>. QED BY <1>7, <1>8, <1>9, <1>10, <1>11 DEF QueryIInv

-----------------------------------------------------------------------------
(* Then those that only change where the step is: answers that put it off,   *)
(* refusals, polls and broken streams.                                       *)

Early == {"preflight", "explain", "explained", "waiting"}

LEMMA LaterCalls ==
    ASSUME CallsComeFirst, caller' = caller, pc \notin Early, pc' \notin Early
    PROVE  CallsComeFirst'
BY DEF CallsComeFirst, Early

LEMMA QuietInv ==
    ASSUME QueryIInv,
           UNCHANGED <<conn, caller, sf, job, lost, page, body, leftover, stripped, out, record>>,
           now' \in Clock, began' \in Clock, attempt' \in 0..MaxRetries,
           pc \in {"create", "poll", "sleeping", "opening", "page", "stream"},
           pc' \in {"create", "poll", "sleeping", "opening", "page", "stream", "discarding", "failing"},
           pc' = "create" => pc = "create" /\ attempt' >= attempt,
           pc' \in {"poll", "sleeping"} => pc \in {"poll", "sleeping"},
           pc' = "opening" => pc = "poll" /\ sf[job].state = "JobComplete",
           pc' \in {"page", "stream"} => pc' = pc,
           out.open => pc' \in {"page", "stream", "discarding"}
    PROVE  QueryIInv'
<1>1. /\ TypeOK /\ CallsComeFirst /\ RequestsAreCounted /\ WriterFollowsStep /\ FileFollowsCommit
      /\ ResultStands
  BY DEF QueryIInv
<1>2. TypeOK'
  BY <1>1 DEF TypeOK, Places
<1>3. CallsComeFirst'
  BY <1>1, LaterCalls DEF Early
<1>4. ResultStands' /\ WriterFollowsStep' /\ FileFollowsCommit'
  BY <1>1 DEF ResultStands, WriterFollowsStep, FileFollowsCommit
<1>5. RequestsAreCounted'
  <2>1. attempt \in Nat /\ attempt' \in Nat /\ lost \in Nat
    BY <1>1, NaturalConstants DEF TypeOK
  <2>2. JobsAreKnownOrLost'
    BY <1>1 DEF RequestsAreCounted, JobsAreKnownOrLost
  <2>. QED BY <1>1, <2>1, <2>2 DEF RequestsAreCounted
<1>6. FileIsWhole' /\ RecordFollowsFile' /\ WrittenSoFar'
  BY <1>1, SameFile, SameWriting DEF QueryIInv
<1>. QED BY <1>2, <1>3, <1>4, <1>5, <1>6 DEF QueryIInv

LEMMA PutOffInv ==
    ASSUME QueryIInv, PutOff \/ PagePutOff \/ Refused \/ StreamBreaks
    PROVE  QueryIInv'
<1>1. TypeOK /\ WriterFollowsStep /\ attempt \in 0..MaxRetries /\ MaxRetries \in Nat /\ now \in Clock /\ began \in Clock
  BY NaturalConstants DEF QueryIInv, TypeOK
<1>2. UNCHANGED <<conn, caller, sf, job, lost, page, body, leftover, stripped, out, record>>
      /\ now' \in Clock /\ began' \in Clock
  BY <1>1 DEF PutOff, PagePutOff, Refused, StreamBreaks, token, remote, stream
<1>3. /\ pc \in {"create", "poll", "page", "stream"}
      /\ \/ pc' = pc /\ attempt' = attempt + 1 /\ attempt # MaxRetries
         \/ pc' \in {"discarding", "failing"} /\ attempt' = 0
  BY DEF PutOff, PagePutOff, Refused, StreamBreaks, TryAgain, Exhausted, Goto
<1>4. out.open => pc' \in {"page", "stream", "discarding"}
  BY <1>1 DEF PutOff, PagePutOff, Refused, StreamBreaks, TryAgain, Goto, WriterFollowsStep
<1>5. attempt' \in 0..MaxRetries /\ (pc' = pc => attempt' >= attempt)
  BY <1>1, <1>3
<1>6. /\ pc' = "create" => pc = "create" /\ attempt' >= attempt
      /\ pc' \in {"poll", "sleeping"} => pc \in {"poll", "sleeping"}
      /\ pc' # "opening"
      /\ pc' \in {"page", "stream"} => pc' = pc
      /\ pc \in {"create", "poll", "sleeping", "opening", "page", "stream"}
      /\ pc' \in {"create", "poll", "sleeping", "opening", "page", "stream", "discarding", "failing"}
  BY <1>3, <1>5
<1>. QED BY <1>2, <1>4, <1>5, <1>6, QuietInv

LEMMA PollInv ==
    ASSUME QueryIInv, PollJob \/ Sleep
    PROVE  QueryIInv'
<1>1. TypeOK /\ WriterFollowsStep /\ now \in Clock /\ began \in Clock /\ 0 \in Clock /\ 0 \in 0..MaxRetries
  BY NaturalConstants DEF QueryIInv, TypeOK, Clock
<1>2. UNCHANGED <<conn, caller, sf, job, lost, page, body, leftover, stripped, out, record>>
  BY DEF PollJob, Sleep, token, remote, stream
<1>3. now' \in Clock /\ began' \in Clock /\ attempt' \in 0..MaxRetries
  BY <1>1 DEF PollJob, Sleep, Goto
<1>4. /\ pc \in {"poll", "sleeping"} /\ pc' \in {"poll", "sleeping", "opening", "failing"}
      /\ pc' = "opening" => pc = "poll" /\ sf[job].state = "JobComplete"
  BY DEF PollJob, Sleep, Goto
<1>5. ~out.open
  BY <1>1, <1>4 DEF WriterFollowsStep
<1>6. /\ pc \in {"create", "poll", "sleeping", "opening", "page", "stream"}
      /\ pc' \in {"create", "poll", "sleeping", "opening", "page", "stream", "discarding", "failing"}
      /\ pc' # "create" /\ pc' \notin {"page", "stream"}
  BY <1>4
<1>. QED BY <1>2, <1>3, <1>4, <1>5, <1>6, QuietInv

-----------------------------------------------------------------------------
(* Then those that create the job, at Salesforce, and finish it there.       *)

Jobs == [state : Terminal \cup {"InProgress"}, result : Seq(Nat)]

LEMMA NewJobs ==
    ASSUME sf \in Seq(Jobs), sf' = Append(sf, NewJob), ResultStands
    PROVE  /\ sf' \in Seq(Jobs) /\ Len(sf') = Len(sf) + 1 /\ Len(sf) \in Nat
           /\ \A j \in 1..Len(sf') : sf'[j].state = "JobComplete" => sf'[j].result \in Results
<1>1. NewJob \in Jobs /\ NewJob.state # "JobComplete"
  BY EmptySeq DEF NewJob, Jobs
<1>2. /\ sf' \in Seq(Jobs) /\ Len(sf') = Len(sf) + 1 /\ Len(sf) \in Nat
      /\ \A j \in 1..Len(sf) : sf'[j] = sf[j]
      /\ sf'[Len(sf) + 1] = NewJob
  BY <1>1, AppendProperties, LenProperties
<1>3. ASSUME NEW j \in 1..Len(sf'), sf'[j].state = "JobComplete"
      PROVE  sf'[j].result \in Results
  <2>1. j # Len(sf) + 1
    BY <1>1, <1>2, <1>3
  <2>2. j \in 1..Len(sf)
    BY <1>2, <2>1
  <2>. QED BY <1>2, <1>3, <2>2 DEF ResultStands
<1>. QED BY <1>2, <1>3

LEMMA CreateInv ==
    ASSUME QueryIInv, CreateJob \/ CreateLost
    PROVE  QueryIInv'
<1>1. /\ TypeOK /\ CallsComeFirst /\ RequestsAreCounted /\ WriterFollowsStep /\ FileFollowsCommit
      /\ ResultStands /\ FileIsWhole
  BY DEF QueryIInv
<1>2. /\ UNCHANGED <<conn, caller, now, page, body, leftover, stripped, out, record>>
      /\ pc = "create" /\ sf' = Append(sf, NewJob)
  BY DEF CreateJob, CreateLost, token, stream
<1>3. /\ sf' \in Seq(Jobs) /\ Len(sf') = Len(sf) + 1 /\ Len(sf) \in Nat
      /\ \A j \in 1..Len(sf') : sf'[j].state = "JobComplete" => sf'[j].result \in Results
  <2>1. sf \in Seq(Jobs)
    BY <1>1 DEF TypeOK, Jobs
  <2>. QED BY <1>1, <1>2, <2>1, NewJobs
<1>4. /\ job = 0 /\ lost <= attempt /\ Len(sf) = lost /\ lost \in Nat /\ attempt \in 0..MaxRetries
      /\ MaxRetries \in Nat
  BY <1>1, <1>2, <1>3, NaturalConstants DEF RequestsAreCounted, JobsAreKnownOrLost, TypeOK
<1>5. out.file = NoFile /\ ~out.open /\ record.status # "job_complete"
  BY <1>1, <1>2 DEF FileFollowsCommit, WriterFollowsStep
<1>6. FileIsWhole' /\ RecordFollowsFile'
  BY <1>2, <1>5 DEF FileIsWhole, RecordFollowsFile
<1>7. WriterFollowsStep' /\ FileFollowsCommit' /\ ResultStands' /\ CallsComeFirst' /\ WrittenSoFar'
      /\ pc' \in {"create", "poll", "failing"}
  <2>1. pc' \in {"create", "poll", "failing"}
    BY <1>2 DEF CreateJob, CreateLost, TryAgain, Goto
  <2>2. CallsComeFirst'
    BY <1>1, <1>2, <2>1, LaterCalls DEF Early
  <2>. QED BY <1>1, <1>2, <1>3, <1>5, <2>1, <2>2
           DEF WriterFollowsStep, FileFollowsCommit, ResultStands, WrittenSoFar
<1>8. CASE CreateJob
  <2>1. job' = Len(sf') /\ lost' = lost /\ began' = now /\ attempt' = 0 /\ pc' = "poll"
    BY <1>8 DEF CreateJob, Goto
  <2>2. job' \in 0..Len(sf') /\ job' # 0 /\ attempt' \in 0..MaxRetries
    <3>1. PICK m \in Nat : Len(sf) = m /\ Len(sf') = m + 1
      BY <1>3
    <3>. QED BY <1>4, <2>1, <3>1
  <2>3. record.status = "in_progress"
    BY <1>1, <1>2 DEF FileFollowsCommit
  <2>4. TypeOK'
    BY <1>1, <1>2, <1>3, <2>1, <2>2, <2>3 DEF TypeOK, Jobs, Places
  <2>5. RequestsAreCounted'
    BY <1>3, <1>4, <2>1, <2>2 DEF RequestsAreCounted, JobsAreKnownOrLost
  <2>. QED BY <1>6, <1>7, <2>4, <2>5 DEF QueryIInv
<1>9. CASE CreateLost
  <2>1. /\ job' = job /\ lost' = lost + 1 /\ began' = began
        /\ \/ attempt = MaxRetries /\ attempt' = 0 /\ pc' = "failing"
           \/ attempt # MaxRetries /\ attempt' = attempt + 1 /\ pc' = "create"
    BY <1>2, <1>9 DEF CreateLost, TryAgain, Exhausted, Goto
  <2>2. job' \in 0..Len(sf') /\ attempt' \in 0..MaxRetries /\ lost' \in Nat
    BY <1>3, <1>4, <2>1
  <2>3. TypeOK'
    BY <1>1, <1>2, <1>3, <2>1, <2>2 DEF TypeOK, Jobs, Places
  <2>4. RequestsAreCounted'
    BY <1>3, <1>4, <2>1, <2>2 DEF RequestsAreCounted, JobsAreKnownOrLost
  <2>. QED BY <1>6, <1>7, <2>3, <2>4 DEF QueryIInv
<1>. QED BY <1>8, <1>9

LEMMA ResultsAreSequences ==
    ASSUME NEW r \in Results
    PROVE  r \in Seq(Nat) /\ Len(r) \in 1..MaxPages
<1>1. PICK n \in 1..MaxPages : r \in [1..n -> 0..MaxRows]
  BY DEF Results
<1>2. n \in Nat /\ r \in [1..n -> Nat]
  BY <1>1, NaturalConstants
<1>3. r \in Seq(Nat)
  BY <1>2, SeqDef
<1>4. DOMAIN r = 1..n /\ DOMAIN r = 1..Len(r) /\ Len(r) \in Nat
  BY <1>2, <1>3, LenProperties
<1>. QED BY <1>1, <1>2, <1>3, <1>4

LEMMA JobInv ==
    ASSUME QueryIInv, JobAdvances
    PROVE  QueryIInv'
<1>1. /\ TypeOK /\ CallsComeFirst /\ RequestsAreCounted /\ WriterFollowsStep /\ FileFollowsCommit
      /\ ResultStands /\ FileIsWhole
  BY DEF QueryIInv
<1>2. /\ UNCHANGED <<now, conn, caller, pc, attempt, job, lost, began, page, body, leftover, stripped, out, record>>
      /\ pc = "poll"
  BY DEF JobAdvances, token, stream
<1>3. /\ sf \in Seq(Jobs) /\ job \in 1..Len(sf) /\ Len(sf) \in Nat
  <2>1. sf \in Seq(Jobs)
    BY <1>1 DEF TypeOK, Jobs
  <2>2. Len(sf) \in Nat
    BY <2>1, LenProperties
  <2>3. job \in 0..Len(sf) /\ job # 0
    BY <1>1, <1>2 DEF TypeOK
  <2>. QED BY <2>1, <2>2, <2>3
<1>4. \E s \in Jobs : sf' = [sf EXCEPT ![job] = s] /\ (s.state = "JobComplete" => s.result \in Results)
  <2>1. CASE \E r \in Results : sf' = [sf EXCEPT ![job] = [state |-> "JobComplete", result |-> r]]
    <3>1. PICK r \in Results : sf' = [sf EXCEPT ![job] = [state |-> "JobComplete", result |-> r]]
      BY <2>1
    <3>2. [state |-> "JobComplete", result |-> r] \in Jobs
      BY ResultsAreSequences DEF Jobs, Terminal
    <3>. QED BY <3>1, <3>2
  <2>2. CASE \E t \in Terminal \ {"JobComplete"} : sf' = [sf EXCEPT ![job].state = t]
    <3>1. PICK t \in Terminal \ {"JobComplete"} : sf' = [sf EXCEPT ![job].state = t]
      BY <2>2
    <3> DEFINE k == sf[job]
               s == [k EXCEPT !.state = t]
    <3>2. k \in Jobs
      BY <1>3, ElementOfSeq
    <3>3. s \in Jobs /\ s.state = t
      <4> HIDE DEF k
      <4>. QED BY <3>2 DEF Jobs
    <3>4. sf' = [sf EXCEPT ![job] = s]
      BY <3>1
    <3> HIDE DEF s
    <3>. QED BY <3>1, <3>3, <3>4
  <2>. QED BY <2>1, <2>2 DEF JobAdvances
<1>5. PICK s \in Jobs : sf' = [sf EXCEPT ![job] = s] /\ (s.state = "JobComplete" => s.result \in Results)
  BY <1>4
<1>6. /\ sf' \in Seq(Jobs) /\ Len(sf') = Len(sf)
      /\ \A j \in 1..Len(sf) : sf'[j] = IF j = job THEN s ELSE sf[j]
  BY <1>3, <1>5, ExceptSeq
<1>7. TypeOK' /\ CallsComeFirst' /\ WriterFollowsStep' /\ FileFollowsCommit' /\ WrittenSoFar'
  <2>1. TypeOK'
    BY <1>1, <1>2, <1>6 DEF TypeOK, Jobs
  <2>2. CallsComeFirst'
    BY <1>1, <1>2, LaterCalls DEF Early
  <2>. QED BY <1>1, <1>2, <2>1, <2>2 DEF WriterFollowsStep, FileFollowsCommit, WrittenSoFar
<1>8. ResultStands'
  BY <1>1, <1>2, <1>5, <1>6 DEF ResultStands
<1>9. RequestsAreCounted'
  BY <1>1, <1>2, <1>6 DEF RequestsAreCounted, JobsAreKnownOrLost
<1>10. FileIsWhole' /\ RecordFollowsFile'
  <2>1. out.file = NoFile /\ record.status # "job_complete"
    BY <1>1, <1>2 DEF FileFollowsCommit
  <2>. QED BY <1>2, <2>1 DEF FileIsWhole, RecordFollowsFile
<1>. QED BY <1>7, <1>8, <1>9, <1>10 DEF QueryIInv

-----------------------------------------------------------------------------
(* Then those that open the writer, remove what it wrote, or end the step.   *)

Writers == [backend : Backends, open : BOOLEAN, data : Seq(Part), buffer : Seq(Part),
            file : Seq(Part), orphan : BOOLEAN]

\* The steps that touch neither the file nor the result, past the commit or the failure.
LEMMA EndingInv ==
    ASSUME QueryIInv,
           UNCHANGED <<now, conn, caller, sf, job, lost>>,
           began' \in Clock, attempt' = 0,
           pc \notin {"preflight", "waiting", "ended", "dead"},
           pc' \in {"failing", "ended", "dead"},
           \/ UNCHANGED <<page, body, leftover, stripped>>
           \/ page' = 1 /\ body' = <<>> /\ leftover' = <<>> /\ stripped' = FALSE,
           out' \in Writers, out'.file = out.file,
           out'.open => pc' = "dead" /\ out.open, out'.orphan => pc' \in {"failing", "ended", "dead"},
           out'.open \/ out'.orphan \/ (out'.data = <<>> /\ out'.buffer = <<>>),
           out'.backend = "local" => out'.buffer = <<>>,
           \/ record' = record
           \/ record'.status = "failed" /\
              record' \in [status : {"pending", "in_progress", "job_complete", "failed"}, rows : Nat, uri : BOOLEAN]
    PROVE  QueryIInv'
<1>1. /\ TypeOK /\ CallsComeFirst /\ RequestsAreCounted /\ WriterFollowsStep /\ FileFollowsCommit
      /\ ResultStands /\ FileIsWhole /\ RecordFollowsFile
  BY DEF QueryIInv
<1>2. TypeOK'
  <2>1. 0 \in 0..MaxRetries /\ <<>> \in Seq(Part) /\ FALSE \in BOOLEAN /\ 1 \in Nat \ {0}
    BY NaturalConstants, EmptySeq
  <2>2. page' \in Nat \ {0} /\ body' \in Seq(Part) /\ leftover' \in Seq(Part)
    BY <1>1, <2>1 DEF TypeOK
  <2>3. stripped' \in BOOLEAN
    <3>1. stripped \in BOOLEAN
      BY <1>1 DEF TypeOK
    <3>. QED BY <2>1, <3>1, Zenon
  <2>4. record' \in [status : {"pending", "in_progress", "job_complete", "failed"}, rows : Nat, uri : BOOLEAN]
    BY <1>1 DEF TypeOK
  <2>. QED BY <1>1, <2>1, <2>2, <2>3, <2>4 DEF TypeOK, Places, Writers
<1>3. CallsComeFirst'
  <2>1. pc' \notin Early
    BY DEF Early
  <2>2. \A c \in Callers : caller[c].pc \notin {"idle", "loaded", "answered"}
    BY <1>1 DEF CallsComeFirst
  <2>. QED BY <2>1, <2>2 DEF CallsComeFirst, Early
<1>4. record.status # "job_complete"
  BY <1>1 DEF FileFollowsCommit
<1>5. FileIsWhole' /\ RecordFollowsFile'
  <2>1. record'.status # "job_complete"
    BY <1>4
  <2>. QED BY <1>1, <2>1, SameFile
<1>6. ResultStands' /\ FileFollowsCommit' /\ WriterFollowsStep' /\ WrittenSoFar'
  <2>1. record'.status # "job_complete"
    BY <1>4
  <2>. QED BY <1>1, <2>1 DEF ResultStands, FileFollowsCommit, WriterFollowsStep, WrittenSoFar
<1>7. RequestsAreCounted'
  BY <1>1 DEF RequestsAreCounted, JobsAreKnownOrLost
<1>. QED BY <1>2, <1>3, <1>5, <1>6, <1>7 DEF QueryIInv

LEMMA OpenInv ==
    ASSUME QueryIInv, OpenWriter
    PROVE  QueryIInv'
<1>1. /\ TypeOK /\ CallsComeFirst /\ RequestsAreCounted /\ WriterFollowsStep /\ FileFollowsCommit
      /\ ResultStands /\ FileIsWhole /\ RecordFollowsFile
  BY DEF QueryIInv
<1>2. /\ UNCHANGED <<now, conn, caller, sf, job, lost, began, page, body, leftover, stripped, record>>
      /\ pc = "opening" /\ attempt' = 0
  BY DEF OpenWriter, token, remote, stream, Goto
<1>3. out \in Writers /\ 0 \in 0..MaxRetries
  BY <1>1, NaturalConstants DEF TypeOK, Writers
<1>4. ~out.open /\ ~out.orphan /\ out.data = <<>> /\ out.buffer = <<>>
  BY <1>1, <1>2 DEF WriterFollowsStep
<1>5. CASE out' = [out EXCEPT !.open = TRUE] /\ pc' = "page"
  <2>1. /\ out' \in Writers /\ out'.open /\ out'.file = out.file /\ ~out'.orphan
        /\ out'.data = <<>> /\ out'.buffer = <<>> /\ out'.backend = out.backend
    BY <1>3, <1>4, <1>5 DEF Writers
  <2>2. TypeOK'
    BY <1>1, <1>2, <1>3, <1>5, <2>1 DEF TypeOK, Places, Writers
  <2>3. CallsComeFirst' /\ ResultStands' /\ FileFollowsCommit' /\ WriterFollowsStep' /\ RequestsAreCounted'
    <3>1. CallsComeFirst'
      BY <1>1, <1>2, <1>5, LaterCalls DEF Early
    <3>. QED BY <1>1, <1>2, <1>5, <2>1, <3>1
             DEF ResultStands, FileFollowsCommit, WriterFollowsStep, RequestsAreCounted, JobsAreKnownOrLost
  <2>4. FileIsWhole' /\ RecordFollowsFile'
    BY <1>1, <1>2, <2>1, SameFile
  <2>5. WrittenSoFar'
    <3>1. page = 1 /\ sf[job].state = "JobComplete" /\ job \in 1..Len(sf)
      <4>1. job \in 0..Len(sf) /\ job # 0
        BY <1>1, <1>2 DEF TypeOK
      <4>2. Len(sf) \in Nat
        BY <1>1, LenProperties DEF TypeOK
      <4>. QED BY <1>1, <1>2, <4>1, <4>2 DEF ResultStands
    <3>2. sf[job].result \in Results
      BY <1>1, <3>1 DEF ResultStands
    <3>3. page <= Len(sf[job].result)
      BY <3>1, <3>2, ResultsAreSequences, NaturalConstants
    <3>4. <<>> \o <<>> = <<>>
      BY EmptySeq, ConcatEmptySeq
    <3>5. Committed' = <<>> /\ PagesBefore(page)' = <<>>
      BY <1>2, <2>1, <3>1, <3>4 DEF Committed, PagesBefore
    <3>. QED BY <1>2, <1>5, <3>3, <3>5 DEF WrittenSoFar
  <2>. QED BY <2>2, <2>3, <2>4, <2>5 DEF QueryIInv
<1>6. CASE pc' = "failing" /\ out' = out
  BY <1>2, <1>3, <1>4, <1>6, <1>1, QuietInv DEF TypeOK
<1>7. CASE pc' = "failing" /\ out' = [out EXCEPT !.orphan = TRUE]
  <2>1. /\ out' \in Writers /\ ~out'.open /\ out'.file = out.file /\ out'.orphan
        /\ out'.buffer = <<>>
    BY <1>3, <1>4, <1>7 DEF Writers
  <2>2. began' \in Clock
    BY <1>1, <1>2 DEF TypeOK
  <2>. QED BY <1>2, <1>7, <2>1, <2>2, EndingInv
<1>. QED BY <1>2, <1>5, <1>6, <1>7 DEF OpenWriter, Goto

LEMMA EndInv ==
    ASSUME QueryIInv, DiscardWriter \/ FailStep \/ Crash
    PROVE  QueryIInv'
<1>1. /\ TypeOK /\ WriterFollowsStep
      /\ out \in Writers /\ began \in Clock /\ 0 \in Clock
      /\ record \in [status : {"pending", "in_progress", "job_complete", "failed"}, rows : Nat, uri : BOOLEAN]
  BY NaturalConstants DEF QueryIInv, TypeOK, Writers, Clock
<1>2. UNCHANGED <<now, conn, caller, sf, job, lost>> /\ attempt' = 0
      /\ pc \notin {"preflight", "waiting", "ended", "dead"} /\ began' \in Clock
  BY <1>1 DEF DiscardWriter, FailStep, Crash, Goto, token, remote
<1>3. \/ UNCHANGED <<page, body, leftover, stripped>>
      \/ page' = 1 /\ body' = <<>> /\ leftover' = <<>> /\ stripped' = FALSE
  BY DEF DiscardWriter, FailStep, Crash, stream
<1>4. CASE DiscardWriter
  <2>1. pc' = "failing" /\ record' = record
    BY <1>4 DEF DiscardWriter, Goto
  <2>2. /\ out' \in Writers /\ out'.file = out.file /\ ~out'.open /\ out'.backend = out.backend
        /\ (out'.data = <<>> /\ out'.buffer = <<>>) \/ (out'.orphan /\ out'.buffer = out.buffer)
    <3>1. CASE out' = Discarded(out)
      <4>1. <<>> \in Seq(Part)
        BY EmptySeq
      <4>. QED BY <1>1, <3>1, <4>1 DEF Discarded, Writers
    <3>2. CASE out' = [out EXCEPT !.open = FALSE, !.orphan = TRUE]
      BY <1>1, <3>2 DEF Writers
    <3>. QED BY <1>4, <3>1, <3>2 DEF DiscardWriter
  <2>. QED BY <1>1, <1>2, <1>3, <2>1, <2>2, EndingInv DEF WriterFollowsStep
<1>5. CASE FailStep
  <2>1. pc' = "ended" /\ out' = out /\ pc = "failing" /\ record' = [record EXCEPT !.status = "failed"]
    BY <1>5 DEF FailStep, Goto
  <2>2. ~out.open
    BY <1>1, <2>1 DEF WriterFollowsStep
  <2>3. /\ record'.status = "failed"
        /\ record' \in [status : {"pending", "in_progress", "job_complete", "failed"}, rows : Nat, uri : BOOLEAN]
    BY <1>1, <2>1
  <2>. QED BY <1>1, <1>2, <1>3, <2>1, <2>2, <2>3, EndingInv DEF WriterFollowsStep
<1>6. CASE Crash
  <2>1. pc' = "dead" /\ out' = [out EXCEPT !.buffer = <<>>] /\ record' = record
    BY <1>6 DEF Crash, Goto
  <2>2. /\ out' \in Writers /\ out'.file = out.file /\ out'.open = out.open /\ out'.backend = out.backend
        /\ out'.buffer = <<>> /\ out'.data = out.data /\ out'.orphan = out.orphan
    <3>1. <<>> \in Seq(Part)
      BY EmptySeq
    <3>. QED BY <1>1, <2>1, <3>1 DEF Writers
  <2>. QED BY <1>1, <1>2, <1>3, <2>1, <2>2, EndingInv DEF WriterFollowsStep
<1>. QED BY <1>4, <1>5, <1>6

LEMMA TickInv ==
    ASSUME QueryIInv, Tick
    PROVE  QueryIInv'
<1>1. /\ TypeOK /\ CallsComeFirst /\ RequestsAreCounted /\ WriterFollowsStep /\ FileFollowsCommit
      /\ ResultStands /\ FileIsWhole /\ RecordFollowsFile
  BY DEF QueryIInv
<1>2. /\ UNCHANGED <<conn, caller, pc, attempt, sf, job, lost, began, page, body, leftover, stripped, out, record>>
      /\ now < MaxTime /\ now' = now + 1
  BY DEF Tick, token, remote, stream
<1>3. now' \in Clock /\ now' <= MaxTime
  <2>1. now \in Nat
    BY <1>1, NaturalConstants DEF TypeOK, Clock
  <2>. QED BY <1>2, <2>1, NaturalConstants DEF Clock
<1>4. TypeOK' /\ CallsComeFirst'
  <2>1. TypeOK'
    BY <1>1, <1>2, <1>3 DEF TypeOK
  <2>2. \A c \in Callers : caller[c].pc = "answered" => caller[c].expires + MaxStore >= now + 1 + Lifetime
    <3>1. SUFFICES ASSUME NEW c \in Callers, caller[c].pc = "answered"
                   PROVE  caller[c].expires + MaxStore >= now + 1 + Lifetime
      OBVIOUS
    <3>2. now + Lifetime < caller[c].expires + MaxStore
      BY <3>1 DEF Tick
    <3>3. caller \in [Callers -> [pc : Calls, expires : Expiry]] /\ now \in Nat
      BY <1>1, NaturalConstants DEF TypeOK, Clock
    <3>4. caller[c].expires \in Nat
      BY <3>3, NaturalConstants DEF Expiry
    <3>. QED BY <3>2, <3>3, <3>4, NaturalConstants
  <2>. QED BY <1>1, <1>2, <1>3, <2>1, <2>2 DEF CallsComeFirst
<1>5. ResultStands' /\ FileFollowsCommit' /\ WriterFollowsStep' /\ RequestsAreCounted'
  BY <1>1, <1>2 DEF ResultStands, FileFollowsCommit, WriterFollowsStep, RequestsAreCounted, JobsAreKnownOrLost
<1>6. FileIsWhole' /\ RecordFollowsFile' /\ WrittenSoFar'
  BY <1>1, <1>2, SameFile, SameWriting DEF QueryIInv
<1>. QED BY <1>4, <1>5, <1>6 DEF QueryIInv

\* The full result of a complete job, as the sequence it is.
LEMMA FullIs ==
    ASSUME TypeOK, job # 0
    PROVE  /\ job \in Nat \ {0} /\ sf[job].result \in Seq(Nat) /\ Len(sf[job].result) \in Nat
           /\ FullResult(job) \in Seq(RowPart)
<1>1. sf \in Seq(Jobs) /\ Len(sf) \in Nat /\ job \in 1..Len(sf)
  <2>1. sf \in Seq(Jobs) /\ job \in 0..Len(sf)
    BY DEF TypeOK, Jobs
  <2>. QED BY <2>1, LenProperties
<1>2. job \in Nat \ {0} /\ sf[job].result \in Seq(Nat)
  <2>1. sf[job] \in Jobs
    BY <1>1, ElementOfSeq
  <2>. QED BY <1>1, <2>1 DEF Jobs
<1>3. Len(sf[job].result) \in Nat
  BY <1>2, LenProperties
<1>4. Joined(job) \in [0..Len(sf[job].result) -> Seq(RowPart)]
  BY <1>2, JoinedIs
<1>. QED BY <1>2, <1>3, <1>4 DEF FullResult

LEMMA EndStepInv ==
    ASSUME QueryIInv, EndStep
    PROVE  QueryIInv'
<1>1. /\ TypeOK /\ CallsComeFirst /\ RequestsAreCounted /\ WriterFollowsStep /\ FileFollowsCommit
      /\ ResultStands /\ FileIsWhole /\ RecordFollowsFile
  BY DEF QueryIInv
<1>2. /\ UNCHANGED <<now, conn, caller, sf, job, lost, began, page, body, leftover, stripped, out>>
      /\ pc = "counting" /\ pc' = "ended" /\ attempt' = 0
  BY DEF EndStep, token, remote, stream, Goto
<1>3. out.file # NoFile /\ job # 0 /\ out.file \in WholeFiles(job)
  BY <1>1, <1>2 DEF FileFollowsCommit, FileIsWhole
<1> DEFINE Lines == Len(FullResult(job)) + Cardinality(BrokenRows(FullResult(job)))
<1>4. CountRows(out.file) = Lines /\ Lines \in Nat
  <2>1. FullResult(job) \in Seq(RowPart)
    BY <1>1, <1>3, FullIs
  <2>2. PICK R \in Seq(RowPart) : R = FullResult(job)
    BY <2>1
  <2>3. PICK f \in {<<Header>> \o R, <<Header, Newline>> \o R} : f = out.file
    BY <1>3, <2>2 DEF WholeFiles
  <2>4. CountRows(f) = Len(R) + Cardinality(BrokenRows(R)) /\ CountRows(f) \in Nat
    BY RowsOfWholeFile
  <2>. QED BY <2>2, <2>3, <2>4
<1> HIDE DEF Lines
<1>5. PICK n \in {Lines, 0} : record' = [status |-> "job_complete", rows |-> n, uri |-> TRUE]
  BY <1>4 DEF EndStep
<1>6. /\ record'.status = "job_complete" /\ record'.rows = n
      /\ record' \in [status : {"pending", "in_progress", "job_complete", "failed"}, rows : Nat, uri : BOOLEAN]
  <2>1. n \in Nat
    BY <1>4
  <2>2. record'.status = "job_complete" /\ record'.rows = n
    BY <1>5
  <2>3. record' \in [status : {"pending", "in_progress", "job_complete", "failed"}, rows : Nat, uri : BOOLEAN]
    BY <1>5, <2>1, Zenon
  <2>. QED BY <2>2, <2>3
<1>7. TypeOK'
  BY <1>1, <1>2, <1>6, NaturalConstants DEF TypeOK, Places
<1>8. CallsComeFirst'
  BY <1>1, <1>2, LaterCalls DEF Early
<1>9. ResultStands' /\ FileFollowsCommit' /\ WriterFollowsStep' /\ RequestsAreCounted' /\ WrittenSoFar'
  BY <1>1, <1>2 DEF ResultStands, FileFollowsCommit, WriterFollowsStep, RequestsAreCounted, JobsAreKnownOrLost,
                    WrittenSoFar
<1>10. FileIsWhole'
  BY <1>1, <1>2, SameFile
<1>11. RecordFollowsFile'
  <2>1. FullResult(job)' = FullResult(job)
    BY <1>2, SameResult
  <2>. QED BY <1>2, <1>3, <1>5, <1>6, <2>1 DEF RecordFollowsFile, NoFile, Lines, BrokenRows
<1>. QED BY <1>7, <1>8, <1>9, <1>10, <1>11 DEF QueryIInv

-----------------------------------------------------------------------------
(* Last those that stream the pages.                                         *)

\* What is written comes after what was written before, on either storage, whether
\* it fills a part of the upload or not.
LEMMA WriteAppends ==
    ASSUME out \in Writers, out.backend = "local" => out.buffer = <<>>, NEW s \in Seq(Part)
    PROVE  /\ Write(s) \in Writers
           /\ Write(s).data \o Write(s).buffer = Committed \o s
           /\ Write(s).file = out.file /\ Write(s).open = out.open /\ Write(s).orphan = out.orphan
           /\ Write(s).backend = out.backend
           /\ Write(s).backend = "local" => Write(s).buffer = <<>>
<1> DEFINE d == out.data
           b == out.buffer
<1>1. d \in Seq(Part) /\ b \in Seq(Part) /\ <<>> \in Seq(Part)
  BY EmptySeq DEF Writers
<1> HIDE DEF d, b
<1>2. d \o s \in Seq(Part) /\ b \o s \in Seq(Part) /\ d \o b \in Seq(Part) /\ (d \o b) \o s \in Seq(Part)
  BY <1>1, ConcatProperties
<1>3. d \o (b \o s) = (d \o b) \o s
  BY <1>1, ConcatAssociative
<1>4. CASE out.backend = "local"
  <2>1. Write(s) = [out EXCEPT !.data = d \o s]
    BY <1>4 DEF Write, d
  <2> DEFINE t == d \o s
  <2>2. t \in Seq(Part)
    BY <1>2
  <2>3. b = <<>> /\ d \o b = d /\ t \o b = t
    BY <1>1, <1>2, <1>4, ConcatEmptySeq DEF b
  <2>4. /\ [out EXCEPT !.data = t] \in Writers
        /\ [out EXCEPT !.data = t].data = t /\ [out EXCEPT !.data = t].buffer = b
        /\ [out EXCEPT !.data = t].file = out.file /\ [out EXCEPT !.data = t].open = out.open
        /\ [out EXCEPT !.data = t].orphan = out.orphan /\ [out EXCEPT !.data = t].backend = out.backend
    <3> HIDE DEF t
    <3>. QED BY <2>2 DEF Writers, b
  <2>5. t = Committed \o s
    BY <2>3 DEF Committed, d, b
  <2> HIDE DEF t
  <2>6. Write(s) = [out EXCEPT !.data = t]
    BY <2>1 DEF t
  <2>. QED BY <2>3, <2>4, <2>5, <2>6
<1>5. CASE out.backend # "local" /\ Len(b \o s) >= MinPart
  <2> DEFINE t == (d \o b) \o s
  <2>1. Write(s) = [out EXCEPT !.data = t, !.buffer = <<>>]
    BY <1>5 DEF Write, d, b
  <2>2. t \in Seq(Part) /\ t \o <<>> = t
    BY <1>2, ConcatEmptySeq
  <2> DEFINE w == [out EXCEPT !.data = t, !.buffer = <<>>]
  <2>3. /\ w \in Writers /\ w.data = t /\ w.buffer = <<>> /\ w.file = out.file /\ w.open = out.open
        /\ w.orphan = out.orphan /\ w.backend = out.backend
    <3> HIDE DEF t
    <3>. QED BY <1>1, <2>2 DEF Writers
  <2>4. t = Committed \o s
    BY DEF Committed, d, b
  <2>5. Write(s) = w
    BY <2>1
  <2> HIDE DEF t, w
  <2>. QED BY <2>2, <2>3, <2>4, <2>5
<1>6. CASE out.backend # "local" /\ ~(Len(b \o s) >= MinPart)
  <2> DEFINE t == b \o s
             w == [out EXCEPT !.buffer = t]
  <2>1. Write(s) = w
    BY <1>6 DEF Write, b
  <2>2. t \in Seq(Part)
    BY <1>2
  <2>3. /\ w \in Writers /\ w.data = d /\ w.buffer = t /\ w.file = out.file /\ w.open = out.open
        /\ w.orphan = out.orphan /\ w.backend = out.backend
    <3> HIDE DEF t
    <3>. QED BY <2>2 DEF Writers, d
  <2>4. d \o t = Committed \o s
    BY <1>3 DEF Committed, d, b
  <2> HIDE DEF t, w
  <2>. QED BY <1>6, <2>1, <2>3, <2>4
<1>. QED BY <1>4, <1>5, <1>6

\* What is known of the page in hand.
LEMMA PageInHand ==
    ASSUME TypeOK, job # 0, page <= Len(sf[job].result), NEW line \in LineEnds(page)
    PROVE  /\ page \in 1..Len(sf[job].result) /\ Rows(job, page) \in Seq(RowPart)
           /\ line \in {<<>>, <<Newline>>}
           /\ line = <<>> => Rows(job, page) = <<>> /\ page = Len(sf[job].result)
<1>1. /\ job \in Nat \ {0} /\ sf[job].result \in Seq(Nat) /\ Len(sf[job].result) \in Nat
      /\ page \in Nat \ {0}
  BY FullIs DEF TypeOK
<1>2. page \in 1..Len(sf[job].result)
  BY <1>1
<1>3. sf[job].result[page] \in Nat
  BY <1>1, <1>2, ElementOfSeq
<1>4. Rows(job, page) \in Seq(RowPart) /\ Len(Rows(job, page)) = sf[job].result[page]
  BY <1>1, <1>3, RowsAreRows
<1>5. sf[job].result[page] = 0 => Rows(job, page) = <<>>
  BY <1>4, EmptySeq
<1>6. <<Newline>> # <<>>
  OBVIOUS
<1>. QED BY <1>2, <1>4, <1>5, <1>6 DEF LineEnds

LEMMA PartsAssociate ==
    \A a, b, c \in Seq(Part) : (a \o b) \o c = a \o (b \o c)
BY ConcatAssociative

LEMMA StreamInv ==
    ASSUME QueryIInv,
           UNCHANGED <<now, conn, caller, sf, job, lost, began, record>>, attempt' \in 0..MaxRetries,
           pc \in {"page", "stream"}, pc' \in {"page", "stream", "closing"},
           page' \in Nat \ {0}, body' \in Seq(Part), leftover' \in Seq(Part), stripped' \in BOOLEAN,
           out' \in Writers, out'.file = out.file, out'.open = out.open, out'.orphan = out.orphan,
           out'.backend = "local" => out'.buffer = <<>>,
           WrittenSoFar'
    PROVE  QueryIInv'
<1>1. /\ TypeOK /\ CallsComeFirst /\ RequestsAreCounted /\ WriterFollowsStep /\ FileFollowsCommit
      /\ ResultStands /\ FileIsWhole /\ RecordFollowsFile
  BY DEF QueryIInv
<1>2. TypeOK'
  BY <1>1 DEF TypeOK, Places, Writers
<1>3. CallsComeFirst'
  BY <1>1, LaterCalls DEF Early
<1>4. out.open
  BY <1>1 DEF TypeOK
<1>5. ResultStands' /\ FileFollowsCommit' /\ WriterFollowsStep' /\ RequestsAreCounted'
  BY <1>1, <1>4 DEF ResultStands, FileFollowsCommit, WriterFollowsStep, RequestsAreCounted, JobsAreKnownOrLost
<1>6. FileIsWhole' /\ RecordFollowsFile'
  BY <1>1, SameFile
<1>. QED BY <1>2, <1>3, <1>5, <1>6 DEF QueryIInv

LEMMA FetchInv ==
    ASSUME QueryIInv, FetchPage
    PROVE  QueryIInv'
<1>1. TypeOK /\ WriterFollowsStep /\ WrittenSoFar /\ job # 0
  BY DEF QueryIInv, TypeOK, FetchPage
<1>2. /\ UNCHANGED <<now, conn, caller, sf, job, lost, began, page, out, record>>
      /\ pc = "page" /\ pc' = "stream" /\ attempt' = 0 /\ leftover' = <<>> /\ stripped' = FALSE
  BY DEF FetchPage, token, remote, Goto
<1>3. PICK line \in LineEnds(page) : body' = <<Header>> \o line \o Rows(job, page)
  BY DEF FetchPage
<1>4. page <= Len(sf[job].result) /\ Committed = PagesBefore(page)
  BY <1>1, <1>2 DEF WrittenSoFar
<1>5. /\ page \in 1..Len(sf[job].result) /\ Rows(job, page) \in Seq(RowPart)
      /\ line \in {<<>>, <<Newline>>}
      /\ line = <<>> => Rows(job, page) = <<>>
  BY <1>1, <1>4, PageInHand
<1>6. body' \in Seq(Part)
  <2>1. PICK R \in Seq(RowPart) : R = Rows(job, page)
    BY <1>5
  <2>2. (<<Header>> \o line) \o R \in Seq(Part)
    BY <1>5, <2>1, NewlineIsSecond
  <2>. QED BY <1>3, <2>1, <2>2
<1>7. <<>> \in Seq(Part) /\ <<>> \o body' = body' /\ 1..Len(<<>>) = {}
  BY <1>6, EmptySeq, ConcatEmptySeq
<1>8. WrittenSoFar'
  <2>1. MidPage(line)'
    <3>1. CASE page = 1
      <4>1. Committed = <<>>
        BY <1>4, <3>1 DEF PagesBefore
      <4>. QED BY <1>2, <1>3, <1>7, <3>1, <4>1, SameResult DEF MidPage, Committed
    <3>2. CASE page # 1
      <4>1. ~HasNewline(leftover)'
        BY <1>2, <1>7 DEF HasNewline
      <4>2. Committed' = PagesBefore(page)'
        BY <1>2, <1>4, SameResult DEF Committed, PagesBefore
      <4>3. leftover' \o body' = (<<Header>> \o line \o Rows(job, page))'
        BY <1>2, <1>3, <1>7, SameResult
      <4>. QED BY <1>2, <3>2, <4>1, <4>2, <4>3 DEF MidPage
    <3>. QED BY <3>1, <3>2
  <2>2. line \in LineEnds(page)'
    BY <1>2, <1>3, SameResult
  <2>. QED BY <1>2, <1>4, <2>1, <2>2 DEF WrittenSoFar
<1>9. /\ page \in Nat \ {0} /\ out \in Writers /\ 0 \in 0..MaxRetries /\ FALSE \in BOOLEAN
  BY <1>1, NaturalConstants DEF TypeOK, Writers
<1>10. stripped' \in BOOLEAN
  BY <1>2, Zenon
<1>. QED BY <1>1, <1>2, <1>6, <1>7, <1>8, <1>9, <1>10, StreamInv DEF WriterFollowsStep

\* A chunk is written, or kept until the newline is found; what is written and what is
\* to come make the pages so far, whatever the chunks.
LEMMA ReadInv ==
    ASSUME QueryIInv, ReadChunk
    PROVE  QueryIInv'
<1>1. TypeOK /\ WriterFollowsStep /\ WrittenSoFar /\ job # 0
  BY DEF QueryIInv, TypeOK, ReadChunk
<1>2. /\ UNCHANGED <<now, conn, caller, pc, attempt, sf, job, lost, began, page, record>>
      /\ pc = "stream"
  BY DEF ReadChunk, token, remote
<1>3. PICK n \in 1..Len(body) : /\ StripHeader(SubSeq(body, 1, n))
                                /\ body' = SubSeq(body, n + 1, Len(body))
  BY DEF ReadChunk
<1> DEFINE chunk == SubSeq(body, 1, n)
<1>4. /\ chunk \in Seq(Part) /\ body' \in Seq(Part) /\ chunk \o body' = body /\ body \in Seq(Part)
  <2>1. body \in Seq(Part) /\ Len(body) \in Nat
    BY <1>1, LenProperties DEF TypeOK
  <2>2. n \in 0..Len(body)
    BY <2>1
  <2>. QED BY <1>3, <2>1, <2>2, CutAndJoin
<1>5. PICK line \in LineEnds(page) : MidPage(line)
  BY <1>1, <1>2 DEF WrittenSoFar
<1>6. page <= Len(sf[job].result)
  BY <1>1, <1>2 DEF WrittenSoFar
<1>7. /\ Rows(job, page) \in Seq(RowPart) /\ line \in {<<>>, <<Newline>>}
      /\ line = <<>> => Rows(job, page) = <<>>
      /\ page \in 1..Len(sf[job].result)
  BY <1>1, <1>6, PageInHand
<1>8. StripHeader(chunk)
  BY <1>3
<1>9. /\ out \in Writers /\ (out.backend = "local" => out.buffer = <<>>) /\ leftover \in Seq(Part)
      /\ stripped \in BOOLEAN /\ page \in Nat \ {0} /\ attempt \in 0..MaxRetries
      /\ Committed \in Seq(Part)
  <2>1. out \in Writers
    BY <1>1 DEF TypeOK, Writers
  <2>2. out.data \in Seq(Part) /\ out.buffer \in Seq(Part)
    BY <2>1 DEF Writers
  <2>. QED BY <1>1, <2>1, <2>2, ConcatProperties DEF TypeOK, WriterFollowsStep, Committed
<1> HIDE DEF chunk
<1>a. PICK rest \in Seq(Part) : rest = body'
  BY <1>4
<1>b. \A x, y \in Seq(Part) : (x \o y) \o body' = x \o (y \o body')
  BY <1>a, PartsAssociate
<1>10. LineEnds(page)' = LineEnds(page)
  BY <1>2, SameResult
<1>11. ASSUME NEW s \in Seq(Part), out' = Write(s), leftover' \in Seq(Part), stripped' \in BOOLEAN, MidPage(line)'
       PROVE  QueryIInv'
  <2>1. /\ out' \in Writers /\ out'.file = out.file /\ out'.open = out.open /\ out'.orphan = out.orphan
        /\ out'.backend = "local" => out'.buffer = <<>>
    BY <1>9, <1>11, WriteAppends
  <2>2. WrittenSoFar'
    BY <1>2, <1>6, <1>10, <1>11 DEF WrittenSoFar
  <2>. QED BY <1>2, <1>4, <1>9, <1>11, <2>1, <2>2, StreamInv
<1>12. CASE page = 1 \/ stripped
  <2>1. out' = Write(chunk) /\ leftover' = leftover /\ stripped' = stripped
    BY <1>8, <1>12 DEF StripHeader
  <2>2. Committed' = Committed \o chunk
    BY <1>4, <1>9, <2>1, WriteAppends DEF Committed
  <2>3. Committed' \o body' = Committed \o body
    <3>1. (Committed \o chunk) \o body' = Committed \o (chunk \o body')
      BY <1>4, <1>9, <1>b
    <3>. QED BY <1>4, <2>2, <3>1
  <2>4. MidPage(line)'
    BY <1>2, <1>5, <1>12, <2>1, <2>3, SameResult DEF MidPage
  <2>. QED BY <1>4, <1>9, <1>11, <2>1, <2>4
<1>13. CASE ~(page = 1 \/ stripped)
  <2> DEFINE s == leftover \o chunk
             R == Rows(job, page)
  <2>1. /\ Committed = PagesBefore(page) /\ leftover \o body = <<Header>> \o line \o R
        /\ ~HasNewline(leftover)
    BY <1>5, <1>13 DEF MidPage
  <2>2. s \in Seq(Part)
    BY <1>4, <1>9, ConcatProperties
  <2>3. s \o body' = (<<Header>> \o line) \o R
    <3>1. (leftover \o chunk) \o body' = leftover \o (chunk \o body')
      BY <1>4, <1>9, <1>b
    <3>. QED BY <1>4, <2>1, <3>1
  <2>4. CASE HasNewline(s)
    <3>1. out' = Write(AfterNewline(s)) /\ stripped' = TRUE /\ leftover' = <<>>
      BY <1>8, <1>13, <2>4 DEF StripHeader
    <3> DEFINE a == AfterNewline(s)
    <3>2. a \in Seq(Part) /\ a \o body' = R
      <4>1. PICK t, b, S : t = s /\ b = body' /\ S = R
        OBVIOUS
      <4>2. /\ S \in Seq(RowPart) /\ (line = <<>> => S = <<>>) /\ t \in Seq(Part) /\ b \in Seq(Part)
            /\ t \o b = PageOf(line, S) /\ HasNewline(t)
        BY <1>4, <1>7, <2>2, <2>3, <2>4, <4>1 DEF PageOf
      <4>3. AfterNewline(t) \in Seq(Part) /\ AfterNewline(t) \o b = S
        BY <1>7, <4>2, RowsFollowNewline
      <4>. QED BY <4>1, <4>3
    <3> HIDE DEF s, a
    <3>3. Committed' = Committed \o a
      BY <1>9, <3>1, <3>2, WriteAppends DEF Committed, a
    <3>4. Committed' \o body' = Committed \o R
      <4>1. (Committed \o a) \o body' = Committed \o (a \o body')
        BY <1>9, <3>2, <1>b
      <4>. QED BY <3>2, <3>3, <4>1
    <3>5. Committed \o R = <<Header, Newline>> \o Joined(job)[page]
      <4>1. Committed = <<Header, Newline>> \o Joined(job)[page - 1]
        BY <1>13, <2>1 DEF PagesBefore
      <4>2. /\ Joined(job)[page] = Joined(job)[page - 1] \o R
            /\ Joined(job)[page - 1] \in Seq(RowPart)
        <5>1. /\ job \in Nat \ {0} /\ sf[job].result \in Seq(Nat) /\ Len(sf[job].result) \in Nat
          BY <1>1, FullIs
        <5>2. page - 1 \in 0..Len(sf[job].result)
          BY <1>7, <5>1
        <5>. QED BY <1>7, <5>1, <5>2, JoinedIs
      <4>3. Joined(job)[page - 1] \in Seq(Part) /\ R \in Seq(Part) /\ <<Header, Newline>> \in Seq(Part)
        BY <1>7, <4>2, PageParts
      <4>4. (<<Header, Newline>> \o Joined(job)[page - 1]) \o R = <<Header, Newline>> \o (Joined(job)[page - 1] \o R)
        BY <4>3, PartsAssociate
      <4>. QED BY <4>1, <4>2, <4>4
    <3>6. MidPage(line)'
      <4>1. Committed' \o body' = <<Header, Newline>> \o (Joined(job)[page])'
        BY <1>2, <3>4, <3>5, SameResult
      <4>. QED BY <1>2, <1>13, <3>1, <4>1 DEF MidPage
    <3>7. leftover' \in Seq(Part)
      BY <3>1, EmptySeq
    <3>8. stripped' \in BOOLEAN
      BY <3>1, Zenon
    <3>. QED BY <1>11, <3>1, <3>2, <3>6, <3>7, <3>8 DEF a
  <2>5. CASE ~HasNewline(s)
    <3>1. out' = out /\ stripped' = stripped /\ leftover' = s
      BY <1>8, <1>13, <2>5 DEF StripHeader
    <3>2. MidPage(line)'
      <4>1. Committed' = PagesBefore(page)'
        BY <1>2, <2>1, <3>1, SameResult DEF Committed, PagesBefore
      <4>2. leftover' \o body' = (<<Header>> \o line \o Rows(job, page))'
        BY <1>2, <2>3, <3>1, SameResult
      <4>3. ~HasNewline(leftover)'
        BY <2>5, <3>1 DEF HasNewline
      <4>. QED BY <1>2, <1>13, <3>1, <4>1, <4>2, <4>3 DEF MidPage
    <3>3. WrittenSoFar'
      BY <1>2, <1>6, <1>10, <3>2 DEF WrittenSoFar
    <3> HIDE DEF s
    <3>. QED BY <1>2, <1>4, <1>9, <2>2, <3>1, <3>3, StreamInv
  <2>. QED BY <2>4, <2>5
<1>. QED BY <1>12, <1>13

\* At the end of a page what is written holds that page as well.
LEMMA PageIsWritten ==
    ASSUME QueryIInv, pc = "stream", body = <<>>
    PROVE  /\ page <= Len(sf[job].result)
           /\ page < Len(sf[job].result) => Committed = <<Header, Newline>> \o Joined(job)[page]
           /\ page = Len(sf[job].result) => Committed \in WholeFiles(job)
<1>1. TypeOK /\ WrittenSoFar /\ job # 0 /\ out \in Writers
  BY DEF QueryIInv, TypeOK, Writers
<1>2. PICK line \in LineEnds(page) : MidPage(line)
  BY <1>1 DEF WrittenSoFar
<1>3. page <= Len(sf[job].result)
  BY <1>1 DEF WrittenSoFar
<1>4. /\ page \in 1..Len(sf[job].result) /\ Rows(job, page) \in Seq(RowPart)
      /\ line \in {<<>>, <<Newline>>}
      /\ line = <<>> => Rows(job, page) = <<>> /\ page = Len(sf[job].result)
  BY <1>1, <1>3, PageInHand
<1>5. Committed \in Seq(Part) /\ leftover \in Seq(Part)
  <2>1. out.data \in Seq(Part) /\ out.buffer \in Seq(Part)
    BY <1>1 DEF Writers
  <2>. QED BY <1>1, <2>1, ConcatProperties DEF Committed, TypeOK
<1>6. Committed \o body = Committed /\ leftover \o body = leftover
  BY <1>5, ConcatEmptySeq
<1>7. /\ job \in Nat \ {0} /\ sf[job].result \in Seq(Nat) /\ Len(sf[job].result) \in Nat
  BY <1>1, FullIs
<1> DEFINE J == Joined(job)
           R == Rows(job, page)
<1>8. /\ J \in [0..Len(sf[job].result) -> Seq(RowPart)] /\ J[0] = <<>>
      /\ J[page] = J[page - 1] \o R /\ J[page - 1] \in Seq(RowPart) /\ J[page] \in Seq(RowPart)
  <2>1. page - 1 \in 0..Len(sf[job].result) /\ page \in 0..Len(sf[job].result)
    BY <1>4, <1>7
  <2>. QED BY <1>4, <1>7, <2>1, JoinedIs
<1> HIDE DEF J, R
<1>9. \/ Committed = <<Header, Newline>> \o J[page]
      \/ line = <<>> /\ Committed = <<Header>> \o J[page]
  <2>1. CASE page = 1
    <3>1. J[page] = R
      <4>1. J[0] = <<>> /\ page - 1 = 0
        BY <1>8, <2>1
      <4>2. <<>> \o R = R
        BY <1>4, ConcatEmptySeq DEF R
      <4>. QED BY <1>8, <4>1, <4>2
    <3>2. Committed = (<<Header>> \o line) \o R
      BY <1>2, <1>6, <2>1 DEF MidPage, R
    <3>3. <<Header>> \o <<Newline>> = <<Header, Newline>> /\ <<Header>> \o <<>> = <<Header>>
      BY <1>8, PageParts
    <3>. QED BY <1>4, <3>1, <3>2, <3>3
  <2>2. CASE page # 1 /\ stripped
    BY <1>2, <1>6, <2>2 DEF MidPage, J
  <2>3. CASE page # 1 /\ ~stripped
    <3>1. Committed = <<Header, Newline>> \o J[page - 1] /\ leftover = (<<Header>> \o line) \o R /\ ~HasNewline(leftover)
      BY <1>2, <1>6, <2>3 DEF MidPage, PagesBefore, J, R
    <3>2. line = <<>>
      BY <1>4, <3>1, NoNewlineNoRows DEF R
    <3>3. J[page] = J[page - 1]
      <4>1. R = <<>>
        BY <1>4, <3>2 DEF R
      <4>. QED BY <1>8, <4>1, ConcatEmptySeq
    <3>. QED BY <3>1, <3>3
  <2>. QED BY <2>1, <2>2, <2>3
<1>10. page = Len(sf[job].result) => J[page] = FullResult(job)
  BY DEF J, FullResult
<1>11. page < Len(sf[job].result) => line # <<>>
  BY <1>4, <1>7
<1>. QED BY <1>3, <1>9, <1>10, <1>11 DEF J, WholeFiles

LEMMA EndOfPageInv ==
    ASSUME QueryIInv, EndOfPage
    PROVE  QueryIInv'
<1>1. TypeOK /\ WriterFollowsStep /\ job # 0 /\ out \in Writers
  BY DEF QueryIInv, TypeOK, EndOfPage, Writers
<1>2. /\ UNCHANGED <<now, conn, caller, sf, job, lost, began, body, leftover, stripped, out, record>>
      /\ pc = "stream" /\ body = <<>> /\ attempt' = 0
      /\ \/ page < Len(sf[job].result) /\ page' = page + 1 /\ pc' = "page"
         \/ ~(page < Len(sf[job].result)) /\ page' = page /\ pc' = "closing"
  BY DEF EndOfPage, token, remote, Goto
<1>3. /\ page <= Len(sf[job].result)
      /\ page < Len(sf[job].result) => Committed = <<Header, Newline>> \o Joined(job)[page]
      /\ page = Len(sf[job].result) => Committed \in WholeFiles(job)
  BY <1>2, PageIsWritten
<1>4. page \in Nat \ {0} /\ Len(sf[job].result) \in Nat /\ 0 \in 0..MaxRetries
  BY <1>1, FullIs, NaturalConstants DEF TypeOK
<1>5. page' \in Nat \ {0} /\ body' \in Seq(Part) /\ leftover' \in Seq(Part) /\ stripped' \in BOOLEAN
  <2>1. body' \in Seq(Part) /\ leftover' \in Seq(Part) /\ stripped' \in BOOLEAN
    BY <1>1, <1>2, Zenon DEF TypeOK
  <2>2. page' = page + 1 \/ page' = page
    BY <1>2, Zenon
  <2>3. page' \in Nat \ {0}
    <3>1. PICK n \in Nat \ {0} : n = page
      BY <1>4
    <3>. QED BY <2>2, <3>1
  <2>. QED BY <2>1, <2>3
<1>6. WrittenSoFar'
  <2>1. CASE pc' = "page"
    <3>1. page' = page + 1 /\ page' # 1 /\ page' - 1 = page /\ page' <= Len(sf[job].result)
          /\ page < Len(sf[job].result)
      BY <1>2, <1>4, <2>1
    <3>2. Joined(job)' = Joined(job)
      BY <1>2, SameResult
    <3>3. PagesBefore(page)' = <<Header, Newline>> \o Joined(job)[page]
      BY <3>1, <3>2 DEF PagesBefore
    <3>. QED BY <1>2, <1>3, <2>1, <3>1, <3>3 DEF WrittenSoFar, Committed
  <2>2. CASE pc' = "closing"
    <3>1. page = Len(sf[job].result)
      BY <1>2, <1>3, <1>4, <2>2
    <3>2. WholeFiles(job)' = WholeFiles(job)
      BY <1>2, SameResult
    <3>. QED BY <1>2, <1>3, <2>2, <3>1, <3>2 DEF WrittenSoFar, Committed
  <2>. QED BY <1>2, <2>1, <2>2
<1>. QED BY <1>1, <1>2, <1>4, <1>5, <1>6, StreamInv DEF WriterFollowsStep

\* The commit, also one that is done and seems to have failed, makes a whole file.
LEMMA CloseInv ==
    ASSUME QueryIInv, CloseWriter \/ CloseFails
    PROVE  QueryIInv'
<1>1. /\ TypeOK /\ CallsComeFirst /\ RequestsAreCounted /\ WriterFollowsStep /\ FileFollowsCommit
      /\ ResultStands /\ FileIsWhole /\ RecordFollowsFile /\ WrittenSoFar
  BY DEF QueryIInv
<1>2. /\ UNCHANGED <<now, conn, caller, sf, job, lost, began, page, body, leftover, stripped, record>>
      /\ pc = "closing" /\ attempt' = 0 /\ pc' \in {"counting", "discarding"}
      /\ pc' = "counting" <=> CloseWriter
  BY DEF CloseWriter, CloseFails, token, remote, stream, Goto
<1>3. out \in Writers /\ out.open /\ ~out.orphan /\ job # 0 /\ record.status = "in_progress"
  BY <1>1, <1>2 DEF TypeOK, Writers, WriterFollowsStep
<1>4. Committed \in WholeFiles(job) /\ Committed \in Seq(Part) /\ Committed # NoFile
  <2>1. FullResult(job) \in Seq(RowPart)
    BY <1>1, <1>3, FullIs
  <2>2. PICK R \in Seq(RowPart) : R = FullResult(job)
    BY <2>1
  <2>3. Committed \in WholeFiles(job)
    BY <1>1, <1>2 DEF WrittenSoFar
  <2>4. PICK f \in {<<Header>> \o R, <<Header, Newline>> \o R} : f = Committed
    BY <2>2, <2>3 DEF WholeFiles
  <2>5. f \in Seq(Part) /\ f # <<>>
    BY RowsOfWholeFile
  <2>. QED BY <2>3, <2>4, <2>5 DEF NoFile
<1>5. sf[job].state = "JobComplete"
  BY <1>1, <1>2 DEF ResultStands
<1> DEFINE F == Committed
<1> HIDE DEF F
<1>6. /\ out' \in Writers /\ ~out'.orphan /\ out'.backend = out.backend
      /\ out'.open <=> pc' = "discarding"
      /\ \/ out'.file = F /\ out'.data = <<>> /\ out'.buffer = <<>>
         \/ out' = out /\ pc' = "discarding"
  <2>1. <<>> \in Seq(Part) /\ F \in Seq(Part)
    BY <1>4, EmptySeq DEF F
  <2>2. CASE CloseWriter
    <3>1. out' = [out EXCEPT !.file = F, !.open = FALSE, !.data = <<>>, !.buffer = <<>>]
      BY <2>2 DEF CloseWriter, F
    <3>. QED BY <1>2, <1>3, <2>1, <2>2, <3>1 DEF Writers
  <2>3. CASE CloseFails /\ ~CloseWriter
    <3>1. pc' = "discarding"
      BY <1>2, <2>3
    <3>2. out' = out \/ out' = [out EXCEPT !.file = F, !.data = <<>>, !.buffer = <<>>]
      BY <2>3 DEF CloseFails, F
    <3>3. CASE out' = out
      BY <1>3, <3>1, <3>3
    <3>4. CASE out' = [out EXCEPT !.file = F, !.data = <<>>, !.buffer = <<>>]
      BY <1>3, <2>1, <3>1, <3>4 DEF Writers
    <3>. QED BY <3>2, <3>3, <3>4
  <2>. QED BY <1>2, <2>2, <2>3
<1>7. TypeOK'
  <2>1. 0 \in 0..MaxRetries
    BY NaturalConstants
  <2>. QED BY <1>1, <1>2, <1>3, <1>6, <2>1 DEF TypeOK, Places, Writers
<1>8. CallsComeFirst'
  BY <1>1, <1>2, LaterCalls DEF Early
<1>9. out'.file = F \/ out'.file = out.file
  BY <1>6
<1>10. pc' = "counting" => out'.file = F
  BY <1>2, <1>6
<1>11. ResultStands' /\ RequestsAreCounted' /\ WrittenSoFar'
  BY <1>1, <1>2 DEF ResultStands, RequestsAreCounted, JobsAreKnownOrLost, WrittenSoFar
<1>12. WriterFollowsStep'
  BY <1>1, <1>2, <1>6 DEF WriterFollowsStep
<1>13. FileFollowsCommit'
  BY <1>1, <1>2, <1>3, <1>4, <1>10 DEF FileFollowsCommit, F
<1>14. FileIsWhole' /\ RecordFollowsFile'
  <2>1. WholeFiles(job)' = WholeFiles(job)
    BY <1>2, SameResult
  <2>2. FileIsWhole'
    BY <1>1, <1>2, <1>3, <1>4, <1>5, <1>9, <2>1 DEF FileIsWhole, F
  <2>3. RecordFollowsFile'
    BY <1>2, <1>3 DEF RecordFollowsFile
  <2>. QED BY <2>2, <2>3
<1>. QED BY <1>7, <1>8, <1>11, <1>12, <1>13, <1>14 DEF QueryIInv

-----------------------------------------------------------------------------
(* The theorems.                                                             *)

LEMMA NextInv == QueryIInv /\ [Next]_vars => QueryIInv'
<1>1. SUFFICES ASSUME QueryIInv, [Next]_vars PROVE QueryIInv'
  OBVIOUS
<1>2. CASE \E c \in Callers : GetAccessToken(c)
  BY <1>1, <1>2, TokenInv
<1>3. CASE QueryStep
  BY <1>1, <1>3, BeforeInv, CreateInv, PutOffInv, PollInv, OpenInv, FetchInv, ReadInv, EndOfPageInv,
     CloseInv, EndInv, EndStepInv DEF QueryStep
<1>4. CASE JobAdvances
  BY <1>1, <1>4, JobInv
<1>5. CASE Crash
  BY <1>1, <1>5, EndInv
<1>6. CASE Tick
  BY <1>1, <1>6, TickInv
<1>7. CASE UNCHANGED vars
  <2>1. UNCHANGED <<now, conn, caller, pc, attempt, sf, job, lost, began, page, body, leftover, stripped, out, record>>
    BY <1>7 DEF vars, token, remote, stream
  <2>2. FileIsWhole' /\ RecordFollowsFile' /\ WrittenSoFar'
    BY <1>1, <2>1, SameFile, SameWriting DEF QueryIInv
  <2>3. TypeOK' /\ CallsComeFirst' /\ ResultStands'
    BY <1>1, <2>1 DEF QueryIInv, TypeOK, CallsComeFirst, ResultStands
  <2>4. FileFollowsCommit' /\ WriterFollowsStep' /\ RequestsAreCounted'
    BY <1>1, <2>1 DEF QueryIInv, FileFollowsCommit, WriterFollowsStep, RequestsAreCounted, JobsAreKnownOrLost
  <2>. QED BY <2>2, <2>3, <2>4 DEF QueryIInv
<1>. QED BY <1>1, <1>2, <1>3, <1>4, <1>5, <1>6, <1>7 DEF Next

\* The inductive invariant holds in every state of every behaviour.
THEOREM QueryInvariance == Spec => []QueryIInv
BY InitInv, NextInv, PTL DEF Spec

\* The result's file is whole or absent, and the record follows it: it has its file, and as
\* many rows as the file has, the broken ones counted twice, or none.
THEOREM ResultStaysWhole == Spec => []ResultIsWhole
<1>1. QueryIInv => ResultIsWhole
  BY DEF QueryIInv, ResultIsWhole
<1>. QED BY <1>1, QueryInvariance, PTL

\* A step leaves nothing in the storage but what could not be removed or is not known, and
\* at Salesforce the jobs of lost answers and the one it gave up, which has no result.
THEOREM LeftoversStayKnown == Spec => []LeftoversAreKnown
<1>1. QueryIInv => LeftoversAreKnown
  <2>1. SUFFICES ASSUME QueryIInv PROVE LeftoversAreKnown
    OBVIOUS
  <2>2. WriterFollowsStep /\ JobsAreKnownOrLost /\ FileIsWhole /\ RecordFollowsFile
    BY <2>1 DEF QueryIInv, RequestsAreCounted
  <2>3. NothingLeftBehind
    BY <2>2 DEF NothingLeftBehind, WriterFollowsStep
  <2>4. UnfinishedJobsHaveNoResult
    BY <2>2 DEF UnfinishedJobsHaveNoResult, FileIsWhole, RecordFollowsFile
  <2>. QED BY <2>2, <2>3, <2>4 DEF LeftoversAreKnown
<1>. QED BY <1>1, QueryInvariance, PTL

\* A token that is handed out outlasts the refresh buffer, whichever refresh is stored last,
\* if storing an answer takes less than a token's life without the buffer (6900 s).
THEOREM TokensOutlast ==
    ASSUME MaxStore + Buffer < Lifetime
    PROVE  Spec => TokenLasts
<1> DEFINE Outlasts(c) == (caller'[c].pc = "holding" /\ caller[c].pc # "holding")
                             => caller'[c].expires > now + Buffer
<1>1. ASSUME QueryIInv, [Next]_vars, NEW c \in Callers, caller'[c].pc = "holding", caller[c].pc # "holding"
      PROVE  caller'[c].expires > now + Buffer
  <2>1. TypeOK /\ CallsComeFirst
    BY <1>1 DEF QueryIInv
  <2>2. caller \in [Callers -> [pc : Calls, expires : Expiry]] /\ caller[c] \in [pc : Calls, expires : Expiry]
        /\ now \in Nat /\ caller[c].expires \in Nat
    BY <2>1, NaturalConstants DEF TypeOK, Clock, Expiry
  <2>3. caller' # caller
    BY <1>1
  <2>4. PICK d \in Callers : GetAccessToken(d) \/ BeginRun
    <3>1. ~UNCHANGED vars
      BY <2>3 DEF vars, token
    <3>2. CASE \E d \in Callers : GetAccessToken(d)
      BY <3>2
    <3>3. CASE ~ \E d \in Callers : GetAccessToken(d)
      <4>1. QueryStep \/ JobAdvances \/ Crash \/ Tick
        BY <1>1, <3>1, <3>3 DEF Next
      <4>2. BeginRun
        BY <2>3, <4>1 DEF QueryStep, JobAdvances, Crash, Tick, Preflight, ExplainAnswered, ExplainPutOff, BeginStep,
           CreateJob, CreateLost, PutOff, Refused, PollJob, Sleep, OpenWriter, FetchPage, PagePutOff, StreamBreaks,
           ReadChunk, EndOfPage, CloseWriter, CloseFails, DiscardWriter, EndStep, FailStep, token
      <4>. QED BY <1>1, <4>2
    <3>. QED BY <3>2, <3>3
  <2>5. ~BeginRun
    <3>1. SUFFICES ASSUME BeginRun PROVE FALSE
      OBVIOUS
    <3>2. caller' = [caller EXCEPT ![Step] = [pc |-> "loaded", expires |-> caller[Step].expires]]
      BY <2>2, <3>1, Held, NaturalConstants DEF BeginRun
    <3>3. caller'[c].pc = "loaded" \/ caller'[c] = caller[c]
      BY <2>2, <3>2, NaturalConstants
    <3>. QED BY <1>1, <3>3
  <2>6. CASE ReuseToken(d)
    <3>1. caller' = [caller EXCEPT ![d] = [pc |-> "holding", expires |-> caller[d].expires]]
      BY <2>2, <2>6, Held DEF ReuseToken
    <3>2. c = d
      BY <1>1, <2>2, <3>1
    <3>3. caller'[c].expires = caller[c].expires
      BY <2>2, <3>1, <3>2
    <3>. QED BY <2>2, <2>6, <3>2, <3>3, NaturalConstants DEF ReuseToken, TokenValid
  <2>7. CASE StoreToken(d)
    <3>1. caller' = [caller EXCEPT ![d] = [pc |-> "holding", expires |-> caller[d].expires]]
      BY <2>2, <2>7, Held DEF StoreToken
    <3>2. c = d
      BY <1>1, <2>2, <3>1
    <3>3. caller'[c].expires = caller[c].expires
      BY <2>2, <3>1, <3>2
    <3>4. caller[c].pc = "answered"
      BY <2>7, <3>2 DEF StoreToken
    <3>5. caller[c].expires + MaxStore >= now + Lifetime
      BY <2>1, <3>4 DEF CallsComeFirst
    <3>. QED BY <2>2, <3>3, <3>5, NaturalConstants
  <2>8. CASE LoadConnection(d)
    <3>1. caller' = [caller EXCEPT ![d] = [pc |-> "loaded", expires |-> conn]]
      BY <2>8 DEF LoadConnection
    <3>2. caller'[c].pc = "loaded" \/ caller'[c] = caller[c]
      BY <2>2, <3>1
    <3>. QED BY <1>1, <3>2
  <2>9. CASE ExchangeJwt(d)
    <3>1. \/ caller' = [caller EXCEPT ![d] = [pc |-> "answered", expires |-> now + Lifetime]]
          \/ caller' = [caller EXCEPT ![d] = [pc |-> "refused", expires |-> 0]]
      BY <2>9 DEF ExchangeJwt
    <3>2. caller'[c].pc \in {"answered", "refused"} \/ caller'[c] = caller[c]
      BY <2>2, <3>1
    <3>. QED BY <1>1, <3>2
  <2>. QED BY <2>4, <2>5, <2>6, <2>7, <2>8, <2>9 DEF GetAccessToken
<1>2. QueryIInv /\ [Next]_vars => [\A c \in Callers : Outlasts(c)]_vars
  BY <1>1
<1>. QED BY <1>2, QueryInvariance, PTL DEF Spec, TokenLasts
=============================================================================
