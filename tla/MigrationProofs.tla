--------------------------- MODULE MigrationProofs ---------------------------
(* The proofs about Migration, for any number of tables, keys, commands and *)
(* writes, and for pages and samples of any size.                           *)
EXTENDS Migration, FiniteSetTheorems, WellFoundedInduction, TLAPS

-----------------------------------------------------------------------------
(* Keys and their ranks.                                                    *)

\* Of finitely many sets there is one that holds no other of them.
LEMMA SmallestSet ==
    ASSUME NEW S, IsFiniteSet(S), NEW F \in SUBSET SUBSET S, F # {}
    PROVE  \E T \in F : \A U \in SUBSET T : U # T => U \notin F
<1>1. \A T \in SUBSET S : IsFiniteSet(T)
  BY FS_Subset
<1>2. F \subseteq FiniteSubsetsOf(S)
  BY <1>1 DEF FiniteSubsetsOf
<1>3. PICK T \in F : \A U \in F : <<U, T>> \notin StrictSubsetOrdering(S)
  BY <1>2, FS_StrictSubsetOrderingWellFounded, WFMin
<1>4. ASSUME NEW U \in SUBSET T, U # T, U \in F
      PROVE  FALSE
  <2>1. <<U, T>> \in StrictSubsetOrdering(S)
    BY <1>4, SMT DEF StrictSubsetOrdering
  <2>. QED BY <1>3, <1>4, <2>1
<1>. QED BY <1>3, <1>4

\* A finite set of numbers has a smallest and a largest.
LEMMA SmallestKey ==
    ASSUME NEW S \in SUBSET Nat, IsFiniteSet(S), S # {}
    PROVE  \E p \in S : \A q \in S : p <= q
<1> DEFINE Upto(p) == {q \in S : q <= p}
           F == {Upto(p) : p \in S}
<1>n. \A p \in S : p \in Nat
  OBVIOUS
<1>1. F \in SUBSET SUBSET S /\ F # {}
  OBVIOUS
<1>2. PICK T \in F : \A U \in SUBSET T : U # T => U \notin F
  <2> HIDE DEF F
  <2>. QED BY <1>1, SmallestSet
<1>3. PICK p \in S : T = Upto(p)
  OBVIOUS
<1>4. ASSUME NEW q \in S, ~(p <= q)
      PROVE  FALSE
  <2>1. Upto(q) \in F
    OBVIOUS
  <2>a. p \in Nat /\ q \in Nat
    BY <1>4, <1>n
  <2>b. ASSUME NEW x \in S, x <= q
        PROVE  x <= p
    <3>1. x \in Nat
      BY <1>n
    <3>. QED BY <2>b, <3>1, <2>a, <1>4
  <2>2. Upto(q) \subseteq Upto(p)
    BY <2>b
  <2>3. p \in Upto(p)
    BY <2>a
  <2>4. p \notin Upto(q)
    BY <1>4, <2>a
  <2> HIDE DEF F, Upto
  <2>. QED BY <1>2, <1>3, <2>1, <2>2, <2>3, <2>4
<1>. QED BY <1>4

LEMMA LargestKey ==
    ASSUME NEW S \in SUBSET Nat, IsFiniteSet(S), S # {}
    PROVE  \E p \in S : \A q \in S : q <= p
<1> DEFINE From(p) == {q \in S : p <= q}
           F == {From(p) : p \in S}
<1>n. \A p \in S : p \in Nat
  OBVIOUS
<1>1. F \in SUBSET SUBSET S /\ F # {}
  OBVIOUS
<1>2. PICK T \in F : \A U \in SUBSET T : U # T => U \notin F
  <2> HIDE DEF F
  <2>. QED BY <1>1, SmallestSet
<1>3. PICK p \in S : T = From(p)
  OBVIOUS
<1>4. ASSUME NEW q \in S, ~(q <= p)
      PROVE  FALSE
  <2>1. From(q) \in F
    OBVIOUS
  <2>a. p \in Nat /\ q \in Nat
    BY <1>4, <1>n
  <2>b. ASSUME NEW x \in S, q <= x
        PROVE  p <= x
    <3>1. x \in Nat
      BY <1>n
    <3>. QED BY <2>b, <3>1, <2>a, <1>4
  <2>2. From(q) \subseteq From(p)
    BY <2>b
  <2>3. p \in From(p)
    BY <2>a
  <2>4. p \notin From(q)
    BY <1>4, <2>a
  <2> HIDE DEF F, From
  <2>. QED BY <1>2, <1>3, <2>1, <2>2, <2>3, <2>4
<1>. QED BY <1>4

\* Keys are numbers, and the keys of a table can be counted.
LEMMA KeysAreNat == \A p \in Keys : p \in Nat
  BY KeysAreNumbers

LEMMA KeysAreCounted ==
    ASSUME NEW D \in SUBSET Keys
    PROVE  IsFiniteSet(D) /\ Cardinality(D) \in Nat /\ Cardinality(D) <= Cardinality(Keys)
           /\ Cardinality(Keys) \in Nat
  BY KeysAreNumbers, FS_Subset, FS_CardinalityType

\* A rank is a number from 1 to the number of keys.
LEMMA RankIsNumber ==
    ASSUME NEW D \in SUBSET Keys, NEW p \in D
    PROVE  Rank(D, p) \in Nat /\ 1 <= Rank(D, p) /\ Rank(D, p) <= Cardinality(Keys)
<1> DEFINE L == {q \in D : q <= p}
<1>1. L \subseteq D /\ D \subseteq Keys /\ p \in L
  BY KeysAreNat
<1>2. L # {}
  BY <1>1
<1> HIDE DEF L
<1>3. IsFiniteSet(L) /\ Cardinality(L) \in Nat /\ Cardinality(L) <= Cardinality(Keys)
  <2>1. L \in SUBSET Keys
    BY <1>1
  <2>. QED BY <2>1, KeysAreCounted
<1>4. Cardinality(L) # 0
  BY <1>2, <1>3, FS_EmptySet
<1>5. Rank(D, p) = Cardinality(L)
  BY DEF Rank, L
<1>. QED BY <1>3, <1>4, <1>5

\* It only grows when keys are added.
LEMMA RankGrows ==
    ASSUME NEW E \in SUBSET Keys, NEW D \in SUBSET E, NEW p \in D
    PROVE  Rank(D, p) <= Rank(E, p)
<1> DEFINE L == {q \in D : q <= p}
           M == {q \in E : q <= p}
<1>1. L \in SUBSET M /\ M \in SUBSET Keys
  OBVIOUS
<1> HIDE DEF L, M
<1>2. IsFiniteSet(M)
  BY <1>1, KeysAreCounted
<1>3. Cardinality(L) <= Cardinality(M)
  BY <1>1, <1>2, FS_Subset
<1>. QED BY <1>3 DEF Rank, L, M

\* No rank is left out: an empty page means that the offset has passed all keys.
LEMMA EmptyPageIsTheEnd ==
    ASSUME NEW D \in SUBSET Keys, NEW n \in Nat, \A p \in D : Rank(D, p) # n + 1
    PROVE  \A p \in D : Rank(D, p) <= n
<1> DEFINE S == {p \in D : ~(Rank(D, p) <= n)}
<1>1. SUFFICES ASSUME S # {} PROVE FALSE
  OBVIOUS
<1>2. PICK m \in S : \A q \in S : m <= q
  <2>1. S \in SUBSET Nat /\ S \in SUBSET Keys
    BY KeysAreNat
  <2>2. IsFiniteSet(S)
    BY <2>1, KeysAreCounted
  <2> HIDE DEF S
  <2>. QED BY <1>1, <2>1, <2>2, SmallestKey
<1>3. m \in D /\ m \in Nat /\ ~(Rank(D, m) <= n)
  BY KeysAreNat
<1>a. \A q \in D : q \in Nat
  BY KeysAreNat
<1> DEFINE L == {q \in D : q < m}
<1>b. L \subseteq D /\ D \subseteq Keys /\ D \subseteq Nat /\ ~(m < m)
  BY <1>3, <1>a
<1>4. L \in SUBSET Keys /\ L \in SUBSET Nat /\ m \notin L
  <2>1. m \notin L
    BY <1>b
  <2> HIDE DEF L
  <2>. QED BY <1>b, <2>1
<1>5. IsFiniteSet(L) /\ Cardinality(L) \in Nat
  <2> HIDE DEF L
  <2>. QED BY <1>4, KeysAreCounted
<1>6. Cardinality(L) <= n
  <2>1. CASE L = {}
    <3> HIDE DEF L
    <3>. QED BY <2>1, <1>5, FS_EmptySet
  <2>2. CASE L # {}
    <3>1. PICK k \in L : \A q \in L : q <= k
      <4> HIDE DEF L
      <4>. QED BY <2>2, <1>4, <1>5, LargestKey
    <3>2. k \in D /\ k \in Nat /\ k < m
      BY <1>a
    <3>3. ASSUME NEW q \in D PROVE q < m <=> q <= k
      <4>1. q \in Nat /\ (q < m => q <= k)
        BY <3>1, <1>a
      <4>. QED BY <4>1, <3>2, <1>3
    <3>6. L = {q \in D : q <= k}
      BY <3>3
    <3>4. k \notin S
      BY <1>2, <1>3, <3>2
    <3>5. Rank(D, k) <= n
      BY <3>2, <3>4
    <3>. QED BY <3>6, <3>5 DEF Rank
  <2>. QED BY <2>1, <2>2
<1>7. {q \in D : q <= m} = L \cup {m}
  <2>1. \A q \in D : q <= m <=> (q < m \/ q = m)
    BY <1>3, <1>a
  <2>. QED BY <2>1, <1>3
<1>8. Rank(D, m) = Cardinality(L) + 1
  <2>1. Cardinality(L \cup {m}) = Cardinality(L) + 1
    <3> HIDE DEF L
    <3>. QED BY <1>4, <1>5, FS_AddElement
  <2>. QED BY <1>7, <2>1 DEF Rank
<1>9. Rank(D, m) = n + 1
  <2> HIDE DEF L, S
  <2>. QED BY <1>3, <1>5, <1>6, <1>8
<1>. QED BY <1>3, <1>9

-----------------------------------------------------------------------------
(* Tables and rows.                                                         *)

\* The tables are numbered from 1; the one after a table that is not the last exists.
LEMMA TablesAreNumbered ==
    /\ 1 \in Tables
    /\ \A t \in Tables : t \in Nat /\ 1 <= t
    /\ \A t \in Tables : ~IsLast(t) => t + 1 \in Tables
<1> DEFINE n == Cardinality(Tables)
<1>1. n \in Nat /\ n # 0
  BY TablesAreOrdered, FS_CardinalityType, FS_EmptySet
<1>2. Tables = 1..n
  BY TablesAreOrdered
<1> HIDE DEF n
<1>. QED BY <1>1, <1>2 DEF IsLast

\* A copied row is the row with its time known to be in UTC; an inserted one has
\* no peer yet, and is the copied one when it gets the peer of the row.
LEMMA RowsAreKept ==
    ASSUME NEW r \in Row
    PROVE  /\ Inserted(r) \in Row /\ Inserted(r).at.utc
           /\ Inserted(r).v = r.v /\ Inserted(r).up = r.up /\ Inserted(r).peer = None
           /\ [Inserted(r) EXCEPT !.peer = r.peer] = [r EXCEPT !.at.utc = TRUE]
           /\ r.peer = None => Inserted(r) = [r EXCEPT !.at.utc = TRUE]
           /\ [r EXCEPT !.at.utc = TRUE] \in Row
           /\ SameRow(r, [r EXCEPT !.at.utc = TRUE])
  BY DEF Row, Inserted, Prepared, Stored, UtcAware, SameRow, None

\* A database without rows.
LEMMA EmptyIsDatabase == IsDatabase(Empty) /\ KeepsColumns(Empty) /\ \A t \in Tables : DOMAIN Empty[t] = {}
  BY DEF IsDatabase, KeepsColumns, Empty

\* The copy of a database.
LEMMA CopiedHasRows ==
    ASSUME NEW db, NEW t \in Tables
    PROVE  /\ DOMAIN Copied(db)[t] = DOMAIN db[t]
           /\ \A p \in DOMAIN db[t] : Copied(db)[t][p] = [db[t][p] EXCEPT !.at.utc = TRUE]
  BY DEF Copied

-----------------------------------------------------------------------------
(* The steps that copy nothing.                                             *)

CopyInv == CountIsOfStart /\ DeferredAreCopied /\ TargetIsKept /\ CopySoFar /\ NothingIsMissed

\* Where nothing is being copied, there is nothing to keep but the last copy.
LEMMA NothingToCopy ==
    ASSUME pc' \notin {"begin", "copy", "commit", "stamp"},
           outcome' = "done" => (Quiet' => tgt' = Copied(src'))
    PROVE  CopyInv'
  BY DEF CopyInv, CountIsOfStart, DeferredAreCopied, TargetIsKept, CopySoFar, NothingIsMissed

LEMMA MigrationInit == Init => MigrationIInv
<1> SUFFICES ASSUME Init PROVE MigrationIInv
  OBVIOUS
<1>1. PICK s \in Starts : /\ src = s.src /\ srcRev = s.srcRev /\ live = s.live
                          /\ tgt = s.tgt /\ tgtRev = s.tgtRev /\ tgtSchema = s.tgtRev
  BY DEF Init
<1>2. /\ IsDatabase(src) /\ IsDatabase(tgt) /\ KeepsColumns(tgt)
      /\ srcRev \in Nat /\ tgtRev \in Nat /\ tgtSchema \in Nat /\ live \in BOOLEAN
  BY <1>1, StartsAreDatabases
<1>3. Cardinality(Keys) \in Nat /\ BatchSize \in Nat
  BY KeysAreCounted, SizesArePositive
<1>4. TypeOK
  <2>1. offset \in 0..(Cardinality(Keys) + BatchSize) /\ commands \in 0..MaxCommands /\ writes \in 0..MaxWrites
    BY <1>3, BoundsAreNumbers DEF Init
  <2>2. table \in Tables /\ DOMAIN deferred \subseteq Keys
    BY TablesAreNumbered DEF Init
  <2>3. {live, force, backup, blockers, faults, met, upgraded} \subseteq BOOLEAN
    BY <1>2 DEF Init
  <2>4. IsDatabase(tx) /\ KeepsColumns(tx)
    BY EmptyIsDatabase DEF Init
  <2>. QED BY <1>2, <2>1, <2>2, <2>3, <2>4 DEF Init, TypeOK
<1>. QED
  BY <1>1, <1>2, <1>4 DEF Init, MigrationIInv, CommandFollowsControl, Validating, Migrating, Verifying, ChecksHold,
     CountIsOfStart, DeferredAreCopied, TargetIsKept, CopySoFar, NothingIsMissed, TargetIsBefore,
     VerifiedSoFar, StampIsSchema, SoundSourceIsCopied, NoFalseAlarm, Quiet

\* The parts of the invariant that say nothing of a copy.
Rest == TypeOK /\ CommandFollowsControl /\ ChecksHold /\ TargetIsBefore /\ VerifiedSoFar
        /\ StampIsSchema /\ SoundSourceIsCopied /\ NoFalseAlarm

LEMMA PartsOfInvariant == MigrationIInv <=> Rest /\ CopyInv
  BY DEF MigrationIInv, Rest, CopyInv

\* What a copy that was made keeps as long as the databases are the same.
LEMMA CopyStands ==
    ASSUME CopyInv, UNCHANGED <<src, tgt, dirty, met>>, outcome = "done" \/ pc = "stamp"
    PROVE  Quiet' => tgt' = Copied(src')
  BY DEF CopyInv, CopySoFar, Quiet

\* The operator begins a command.
LEMMA RunKeeps ==
    ASSUME MigrationIInv, pc = "idle", commands < MaxCommands,
           NEW c \in {"validate", "migrate", "verify"}, NEW f \in BOOLEAN, NEW b \in BOOLEAN,
           NEW k \in {"none", "right", "wrong"}, Run(c, f, b, k)
    PROVE  MigrationIInv'
<1> USE DEF Run, source, target, copying
<1>1. Rest /\ CopyInv
  BY PartsOfInvariant
<1>2. pc' \in {"versions", "counts"} /\ (outcome' = "done" => outcome = "done" /\ UNCHANGED <<dirty, met>>)
  OBVIOUS
<1>3. outcome' = "done" => (Quiet' => tgt' = Copied(src'))
  BY <1>1, <1>2, CopyStands
<1>4. CopyInv'
  BY <1>2, <1>3, NothingToCopy
<1>5. TypeOK'
  <2>1. commands' \in 0..MaxCommands
    BY <1>1, BoundsAreNumbers DEF Rest, TypeOK
  <2>2. {live', force', backup', blockers', faults', met', upgraded'} \subseteq BOOLEAN
    BY <1>1 DEF Rest, TypeOK
  <2>. QED BY <1>1, <2>1, <2>2 DEF Rest, TypeOK
<1>6. CommandFollowsControl' /\ ChecksHold' /\ TargetIsBefore'
  BY <1>1 DEF Rest, CommandFollowsControl, ChecksHold, TargetIsBefore, Validating, Migrating, Verifying
<1>7. VerifiedSoFar'
  BY <1>1, BoundsAreNumbers DEF Rest, TypeOK, VerifiedSoFar, Verifying
<1>8. StampIsSchema' /\ SoundSourceIsCopied' /\ NoFalseAlarm'
  BY <1>1 DEF Rest, StampIsSchema, SoundSourceIsCopied, NoFalseAlarm
<1>. QED BY <1>4, <1>5, <1>6, <1>7, <1>8, PartsOfInvariant DEF MigrationIInv, CopyInv

\* A check of validate.
LEMMA ChecksKeep ==
    ASSUME MigrationIInv, CheckVersions \/ CheckKey \/ CheckEmpty \/ CheckSchemaAndDrift
    PROVE  MigrationIInv'
<1> USE DEF source, target, copying, flags, others
<1>1. Rest /\ CopyInv
  BY PartsOfInvariant
<1>2. /\ UNCHANGED <<source, target, flags, copying, faults, outcome, verdict, commands, others, before, begun>>
      /\ pc \in {"versions", "key", "empty", "drift"} /\ pc' \in {"key", "empty", "drift", "alive"}
      /\ blockers' \in BOOLEAN /\ (blockers => blockers')
  BY <1>1 DEF Rest, TypeOK, CheckVersions, CheckKey, CheckEmpty, CheckSchemaAndDrift, Check
<1>4. CopyInv'
  BY <1>1, <1>2, CopyStands, NothingToCopy
<1>5. TypeOK'
  BY <1>1, <1>2 DEF Rest, TypeOK
<1>6. CommandFollowsControl' /\ TargetIsBefore'
  BY <1>1, <1>2 DEF Rest, CommandFollowsControl, TargetIsBefore, Validating, Migrating, Verifying
<1>7. VerifiedSoFar'
  BY <1>1, <1>2 DEF Rest, VerifiedSoFar, Verifying
<1>8. StampIsSchema' /\ SoundSourceIsCopied' /\ NoFalseAlarm'
  <2>1. verdict' = "none"
    BY <1>1, <1>2 DEF Rest, CommandFollowsControl
  <2>. QED BY <1>1, <1>2, <2>1 DEF Rest, StampIsSchema, SoundSourceIsCopied, NoFalseAlarm
<1>9. ChecksHold'
  <2> USE DEF Validating, Migrating
  <2>1. /\ tgtSchema \in Nat /\ tgtRev \in Nat /\ srcRev \in Nat /\ Complete \in Nat /\ tgtSchema <= tgtRev
        /\ pc # "versions" /\ ~blockers => tgtRev <= srcRev /\ (upgraded \/ cmd # "migrate" \/ tgtRev = srcRev)
        /\ pc = "drift" /\ ~blockers /\ ~met => Clears \/ \A t \in Tables : DOMAIN tgt[t] = {}
        /\ outcome = "done" => tgtSchema >= Complete
    BY <1>1, <1>2, BoundsAreNumbers DEF Rest, TypeOK, ChecksHold
  <2>2. ~blockers' => tgtRev <= srcRev /\ (upgraded \/ cmd # "migrate" \/ tgtRev = srcRev)
    BY <1>2, <2>1 DEF CheckVersions, CheckKey, CheckEmpty, CheckSchemaAndDrift, Check, RevisionsDiffer
  <2>3. pc' \in {"drift", "alive"} /\ ~blockers' /\ ~met =>
            Clears \/ \A t \in Tables : DOMAIN tgt[t] = {}
    BY <1>2, <2>1 DEF CheckVersions, CheckKey, CheckEmpty, CheckSchemaAndDrift, Check, Occupied, Clears
  <2>4. pc' = "alive" /\ ~blockers' => tgtSchema >= Complete
    <3>1. SUFFICES ASSUME pc' = "alive", ~blockers' PROVE ~(tgtSchema < Complete)
      BY <2>1
    <3>2. CheckSchemaAndDrift
      BY <3>1, <1>2 DEF CheckVersions, CheckKey, CheckEmpty, Check
    <3>. QED BY <3>1, <3>2, Zenon DEF CheckSchemaAndDrift, Check
  <2>. QED BY <1>2, <2>1, <2>2, <2>3, <2>4 DEF ChecksHold, Clears
<1>. QED BY <1>4, <1>5, <1>6, <1>7, <1>8, <1>9, PartsOfInvariant DEF MigrationIInv, CopyInv

\* A command that returns without a result, and what a migration says then.
LEMMA ReturnsKeep ==
    ASSUME MigrationIInv, pc # "idle", Return, UNCHANGED <<source, target, dirty, met, upgraded, before, verdict>>,
           writes' \in 0..MaxWrites,
           \/ outcome' = outcome /\ cmd # "migrate"
           \/ cmd = "migrate" /\ pc # "stamp" /\ outcome' \in {"refused", "broken"}
           \/ cmd = "migrate" /\ pc = "stamp" /\ outcome' = "unstamped"
           \/ cmd = "migrate" /\ pc # "stamp" /\ outcome' = "failed" /\ (dirty # {} \/ met \/ ~Sound(src))
    PROVE  MigrationIInv'
<1> USE DEF Return, source, target, others
<1>1. Rest /\ CopyInv
  BY PartsOfInvariant
<1>2. CopyInv'
  BY <1>1, CopyStands, NothingToCopy
<1>3. TypeOK'
  <2>1. table' \in Tables /\ offset' \in 0..(Cardinality(Keys) + BatchSize) /\ DOMAIN deferred' \subseteq Keys
    BY TablesAreNumbered, KeysAreCounted, SizesArePositive
  <2>2. {live', force', backup', blockers', faults', met', upgraded'} \subseteq BOOLEAN
    BY <1>1 DEF Rest, TypeOK
  <2>3. IsDatabase(tx') /\ KeepsColumns(tx')
    BY EmptyIsDatabase
  <2>. QED BY <1>1, <2>1, <2>2, <2>3 DEF Rest, TypeOK
<1>4. CommandFollowsControl' /\ TargetIsBefore' /\ ChecksHold'
  BY <1>1 DEF Rest, CommandFollowsControl, TargetIsBefore, ChecksHold, Validating, Migrating, Verifying
<1>5. VerifiedSoFar'
  BY <1>1 DEF Rest, TypeOK, VerifiedSoFar, Verifying
<1>6. StampIsSchema' /\ SoundSourceIsCopied' /\ NoFalseAlarm'
  <2>1. verdict' = "none"
    BY <1>1 DEF Rest, CommandFollowsControl
  <2>. QED BY <1>1, <2>1 DEF Rest, StampIsSchema, SoundSourceIsCopied, NoFalseAlarm
<1>. QED BY <1>2, <1>3, <1>4, <1>5, <1>6, PartsOfInvariant DEF MigrationIInv, CopyInv

LEMMA UnreachableKeeps ==
    ASSUME MigrationIInv, Unreachable
    PROVE  MigrationIInv'
<1>1. MigrationIInv => writes \in 0..MaxWrites
  BY DEF MigrationIInv, TypeOK
<1>. QED BY <1>1, ReturnsKeep DEF Unreachable, others

LEMMA LivenessKeeps ==
    ASSUME MigrationIInv, CheckLiveness
    PROVE  MigrationIInv'
<1>1. CASE ~(cmd = "migrate" /\ ~blockers /\ ~live)
  <2>1. writes \in 0..MaxWrites
    BY DEF MigrationIInv, TypeOK
  <2>. QED BY <1>1, <2>1, ReturnsKeep DEF CheckLiveness, others
<1>2. CASE cmd = "migrate" /\ ~blockers /\ ~live
  <2>1. /\ UNCHANGED <<source, target, flags, blockers, faults, copying, outcome, verdict, commands, others, before, begun>>
        /\ pc = "alive" /\ pc' = "count"
    BY <1>2 DEF CheckLiveness
  <2> USE <2>1 DEF source, target, flags, copying, others
  <2>2. Rest /\ CopyInv
    BY PartsOfInvariant
  <2>3. CopyInv'
    BY <2>2, CopyStands, NothingToCopy
  <2>4. TypeOK'
    BY <2>2 DEF Rest, TypeOK
  <2>5. CommandFollowsControl' /\ TargetIsBefore'
    BY <1>2, <2>2 DEF Rest, CommandFollowsControl, TargetIsBefore, Validating, Migrating, Verifying
  <2>6. ChecksHold' /\ VerifiedSoFar'
    BY <1>2, <2>2 DEF Rest, ChecksHold, VerifiedSoFar, Validating, Migrating, Verifying, Clears
  <2>7. StampIsSchema' /\ SoundSourceIsCopied' /\ NoFalseAlarm'
    <3>1. verdict' = "none"
      BY <2>2 DEF Rest, CommandFollowsControl
    <3>. QED BY <2>2, <3>1 DEF Rest, StampIsSchema, SoundSourceIsCopied, NoFalseAlarm
  <2>. QED BY <2>3, <2>4, <2>5, <2>6, <2>7, PartsOfInvariant DEF MigrationIInv, CopyInv
<1>. QED BY <1>1, <1>2

-----------------------------------------------------------------------------
(* The steps of a migration.                                                *)

\* The process dies.
LEMMA CrashKeeps ==
    ASSUME MigrationIInv, Crash
    PROVE  MigrationIInv'
<1>1. writes \in 0..MaxWrites /\ cmd = "migrate"
  BY DEF Crash, MigrationIInv, TypeOK, CommandFollowsControl, Migrating
<1>2. writes' \in 0..MaxWrites
  BY <1>1, BoundsAreNumbers DEF Crash
<1>. QED BY <1>1, <1>2, ReturnsKeep DEF Crash, Abandon

\* The source is counted; it has the columns, since the target has.
LEMMA CountKeeps ==
    ASSUME MigrationIInv, CountSource
    PROVE  MigrationIInv'
<1>1. Rest /\ CopyInv
  BY PartsOfInvariant
<1>2. pc = "count" /\ cmd = "migrate" /\ srcRev >= Complete
  <2>1. /\ pc = "count" /\ cmd = "migrate" /\ tgtSchema <= tgtRev /\ tgtRev <= srcRev /\ tgtSchema >= Complete
        /\ tgtSchema \in Nat /\ tgtRev \in Nat /\ srcRev \in Nat /\ Complete \in Nat
    BY <1>1, BoundsAreNumbers
       DEF CountSource, Rest, TypeOK, ChecksHold, CommandFollowsControl, Migrating
  <2>. QED BY <2>1
<1>3. /\ UNCHANGED <<source, target, flags, blockers, faults, commands, begun, outcome, verdict, before,
                     writes, met, upgraded, tx, table, offset, deferred>>
      /\ counts' = [t \in Tables |-> Cardinality(DOMAIN src[t])]
      /\ start' = src /\ dirty' = {} /\ pc' = "begin"
  BY <1>2 DEF CountSource, GoOn
<1> USE <1>3 DEF source, target, flags
<1>4. TypeOK'
  BY <1>1 DEF Rest, TypeOK
<1>5. CopyInv'
  <2>1. IsDatabase(src) /\ outcome = "none"
    BY <1>1, <1>2 DEF Rest, TypeOK, CommandFollowsControl
  <2>. QED BY <2>1 DEF CopyInv, CountIsOfStart, DeferredAreCopied, TargetIsKept, CopySoFar, NothingIsMissed
<1>6. CommandFollowsControl' /\ TargetIsBefore'
  BY <1>1, <1>2 DEF Rest, CommandFollowsControl, TargetIsBefore, Validating, Migrating, Verifying
<1>7. ChecksHold' /\ VerifiedSoFar'
  BY <1>1, <1>2 DEF Rest, ChecksHold, VerifiedSoFar, Validating, Migrating, Verifying, Clears
<1>8. StampIsSchema' /\ SoundSourceIsCopied' /\ NoFalseAlarm'
  <2>1. verdict' = "none" /\ outcome' = "none"
    BY <1>1, <1>2 DEF Rest, CommandFollowsControl
  <2>. QED BY <1>1, <2>1 DEF Rest, StampIsSchema, SoundSourceIsCopied, NoFalseAlarm
<1>. QED BY <1>4, <1>5, <1>6, <1>7, <1>8, PartsOfInvariant DEF MigrationIInv, CopyInv

\* A step within the transaction changes nothing that the rest of the invariant
\* speaks of but what the transaction sees.
LEMMA WithinTheTransaction ==
    ASSUME MigrationIInv, pc \in {"begin", "copy"}, pc' \in {"copy", "commit"},
           UNCHANGED <<source, target, flags, blockers, faults, commands, begun, outcome, verdict, others, before>>,
           IsDatabase(tx'), KeepsColumns(tx'), table' \in Tables,
           offset' \in 0..(Cardinality(Keys) + BatchSize), DOMAIN deferred' \subseteq Keys
    PROVE  Rest'
<1> USE DEF source, target, flags, others
<1>1. Rest /\ cmd = "migrate"
  BY PartsOfInvariant DEF MigrationIInv, CommandFollowsControl, Migrating
<1>2. TypeOK'
  BY <1>1 DEF Rest, TypeOK
<1>3. CommandFollowsControl' /\ TargetIsBefore'
  BY <1>1 DEF Rest, CommandFollowsControl, TargetIsBefore, Validating, Migrating, Verifying
<1>4. ChecksHold' /\ VerifiedSoFar'
  BY <1>1 DEF Rest, ChecksHold, VerifiedSoFar, Validating, Migrating, Verifying, Clears
<1>5. StampIsSchema' /\ SoundSourceIsCopied' /\ NoFalseAlarm'
  <2>1. verdict' = "none" /\ outcome' = "none"
    BY <1>1 DEF Rest, CommandFollowsControl
  <2>. QED BY <1>1, <2>1 DEF Rest, StampIsSchema, SoundSourceIsCopied, NoFalseAlarm
<1>. QED BY <1>2, <1>3, <1>4, <1>5 DEF Rest

\* The transaction begins.
LEMMA BeginKeeps ==
    ASSUME MigrationIInv, BeginTx
    PROVE  MigrationIInv'
<1>1. /\ UNCHANGED <<source, target, flags, blockers, faults, commands, begun, outcome, verdict, others, before,
                     counts, start>>
      /\ pc = "begin" /\ pc' = "copy" /\ tx' = (IF Clears THEN Empty ELSE tgt)
      /\ table' = 1 /\ offset' = 0 /\ deferred' = <<>>
  BY DEF BeginTx, GoOn, Beside
<1>2. Rest /\ CopyInv
  BY PartsOfInvariant
<1>3. IsDatabase(tx') /\ KeepsColumns(tx')
  BY <1>1, <1>2, EmptyIsDatabase DEF Rest, TypeOK
<1>4. Rest'
  <2>1. table' \in Tables /\ offset' \in 0..(Cardinality(Keys) + BatchSize) /\ DOMAIN deferred' \subseteq Keys
    BY <1>1, TablesAreNumbered, KeysAreCounted, SizesArePositive
  <2>. QED BY <1>1, <1>3, <2>1, WithinTheTransaction
<1>10. \A t \in Tables : tx'[t] \in [DOMAIN tx'[t] -> Row]
  BY <1>3, Zenon DEF IsDatabase
<1> USE <1>1 DEF source, target, flags, others
<1>5. IsDatabase(src) /\ outcome = "none" /\ cmd = "migrate"
  BY <1>2 DEF Rest, TypeOK, CommandFollowsControl, Migrating
<1>6. CountIsOfStart' /\ DeferredAreCopied' /\ TargetIsKept'
  BY <1>2 DEF CopyInv, CountIsOfStart, DeferredAreCopied, TargetIsKept, Clears
<1>7. Passed(DOMAIN src[1])' = {}
  <2>1. DOMAIN src[1] \in SUBSET Keys
    BY <1>5, TablesAreNumbered DEF IsDatabase
  <2>2. \A p \in DOMAIN src[1] : ~(Rank(DOMAIN src[1], p) <= 0)
    BY <2>1, RankIsNumber
  <2>. QED BY <2>2 DEF Passed
<1>8. CopySoFar'
  <2> SUFFICES ASSUME Quiet PROVE CopySoFar'
    BY <1>5 DEF CopySoFar, Quiet
  <2>1. \A t \in Tables : DOMAIN tx'[t] = {}
    BY <1>2, EmptyIsDatabase DEF Quiet, Rest, ChecksHold
  <2>2. 1 \in Tables /\ \A t \in Tables : ~(t < 1)
    BY TablesAreNumbered
  <2>3. tx'[1] = [p \in {} |-> Inserted(src[1][p])]
    BY <2>1, <2>2, <1>10
  <2>4. /\ \A t \in Tables : t < table' => tx'[t] = Copied(src)[t]
        /\ \A t \in Tables : t > table' => DOMAIN tx'[t] = {}
        /\ tx'[table'] = [p \in Passed(DOMAIN src[table])' |-> Inserted(src[1][p])]
        /\ DOMAIN deferred' = {} /\ DOMAIN tx'[table'] = {}
    BY <1>7, <2>1, <2>2, <2>3
  <2>. QED BY <1>5, <2>4 DEF CopySoFar
<1>9. NothingIsMissed'
  BY <1>7, TablesAreNumbered DEF NothingIsMissed
<1>. QED BY <1>4, <1>6, <1>8, <1>9, PartsOfInvariant DEF Rest, MigrationIInv

\* The keys of a page are those the offset passes with it, and has not yet.
LEMMA PageIsNext ==
    ASSUME TypeOK
    PROVE  /\ DOMAIN src[table] \subseteq Keys /\ src[table] \in [DOMAIN src[table] -> Row]
           /\ DOMAIN tx[table] \subseteq Keys /\ tx[table] \in [DOMAIN tx[table] -> Row]
           /\ Page \subseteq DOMAIN src[table] /\ Page \cap Passed(DOMAIN src[table]) = {}
           /\ Page # {} => offset + BatchSize \in 0..(Cardinality(Keys) + BatchSize)
           /\ \A p \in DOMAIN src[table] :
                 Rank(DOMAIN src[table], p) <= offset + BatchSize <=> p \in Passed(DOMAIN src[table]) \cup Page
<1> DEFINE D == DOMAIN src[table]
<1>1. table \in Tables /\ offset \in Nat /\ BatchSize \in Nat /\ Cardinality(Keys) \in Nat
  BY KeysAreCounted, SizesArePositive DEF TypeOK
<1>2. /\ D \in SUBSET Keys /\ src[table] \in [D -> Row]
      /\ DOMAIN tx[table] \subseteq Keys /\ tx[table] \in [DOMAIN tx[table] -> Row]
  BY <1>1 DEF TypeOK, IsDatabase
<1> HIDE DEF D
<1>3. ASSUME NEW p \in D
      PROVE  /\ p \in Page <=> ~(Rank(D, p) <= offset) /\ Rank(D, p) <= offset + BatchSize
             /\ p \in Passed(D) <=> Rank(D, p) <= offset
             /\ Rank(D, p) \in Nat /\ Rank(D, p) <= Cardinality(Keys)
  <2>1. Rank(D, p) \in Nat /\ Rank(D, p) <= Cardinality(Keys)
    BY <1>2, RankIsNumber
  <2>2. p \in Page <=> Rank(D, p) \in (offset + 1)..(offset + BatchSize)
    BY DEF Page, D
  <2>. QED BY <1>1, <2>1, <2>2 DEF Passed
<1>4. Page \subseteq D /\ Page \cap Passed(D) = {}
  BY <1>3 DEF Page, D, Passed
<1>5. ASSUME NEW p \in Page
      PROVE  offset + BatchSize \in 0..(Cardinality(Keys) + BatchSize)
  BY <1>1, <1>3, <1>4
<1>6. ASSUME NEW p \in D
      PROVE  Rank(D, p) <= offset + BatchSize <=> p \in Passed(D) \cup Page
  BY <1>1, <1>3
<1>. QED BY <1>2, <1>4, <1>5, <1>6 DEF D

\* A page is copied.
LEMMA PageKeeps ==
    ASSUME MigrationIInv, CopyPage
    PROVE  MigrationIInv'
<1> DEFINE D == DOMAIN src[table]
           rows == [p \in Page |-> Inserted(src[table][p])]
           held == [tx EXCEPT ![table] = Put(rows, @)]
           late == {q \in Page : src[table][q].peer # None}
           fits == /\ Page \cap DOMAIN tx[table] = {}
                   /\ \A p \in Page : rows[p].v # "null" /\ Refers(held, table, rows[p])
<1>1. Rest /\ CopyInv /\ TypeOK /\ pc = "copy" /\ Page # {} /\ table \in Tables
      /\ cmd = "migrate" /\ outcome = "none" /\ writes \in 0..MaxWrites
  BY PartsOfInvariant DEF CopyPage, Rest, TypeOK, CommandFollowsControl, Migrating
<1>2. /\ D \subseteq Keys /\ src[table] \in [D -> Row]
      /\ DOMAIN tx[table] \subseteq Keys /\ tx[table] \in [DOMAIN tx[table] -> Row]
      /\ Page \subseteq D /\ Page \cap Passed(D) = {}
      /\ offset + BatchSize \in 0..(Cardinality(Keys) + BatchSize)
      /\ \A p \in D : Rank(D, p) <= offset + BatchSize <=> p \in Passed(D) \cup Page
  BY <1>1, PageIsNext
<1>3. ASSUME NEW p \in Page
      PROVE  /\ src[table][p] \in Row /\ rows[p] = Inserted(src[table][p])
             /\ rows[p] \in Row /\ rows[p].at.utc /\ rows[p].v = src[table][p].v
             /\ rows[p].up = src[table][p].up /\ rows[p].peer = None
  <2>1. src[table][p] \in Row
    BY <1>2
  <2>. QED BY <2>1, RowsAreKept
<1>4. /\ IsDatabase(src) /\ IsDatabase(tx) /\ KeepsColumns(tx) /\ DOMAIN deferred \subseteq Keys
  BY <1>1 DEF TypeOK
<1>5. /\ DOMAIN held[table] = Page \cup DOMAIN tx[table]
      /\ \A p \in Page : held[table][p] = rows[p]
      /\ \A p \in DOMAIN tx[table] \ Page : held[table][p] = tx[table][p]
      /\ \A t \in Tables \ {table} : held[t] = tx[t]
      /\ held[table] = [p \in Page \cup DOMAIN tx[table] |-> IF p \in Page THEN rows[p] ELSE tx[table][p]]
      /\ held = [t \in Tables |-> held[t]]
  BY <1>1, <1>4 DEF IsDatabase, Put
<1>6. CASE fits
  <2>1. /\ tx' = held /\ offset' = offset + BatchSize /\ pc' = "copy"
        /\ deferred' = Put([p \in late |-> src[table][p].peer], deferred)
        /\ UNCHANGED <<source, target, flags, blockers, faults, commands, begun, outcome, verdict, others, before,
                       table, counts, start>>
    BY <1>1, <1>6 DEF CopyPage, GoOn, Beside, NextOffset
  <2>2. /\ DOMAIN deferred' = late \cup DOMAIN deferred
        /\ \A p \in late : deferred'[p] = src[table][p].peer
        /\ \A p \in DOMAIN deferred \ late : deferred'[p] = deferred[p]
        /\ deferred' = [p \in late \cup DOMAIN deferred |-> deferred'[p]]
    BY <2>1 DEF Put
  <2> HIDE DEF rows, held
  <2>3. IsDatabase(tx')
    <3>1. held[table] \in [DOMAIN held[table] -> Row]
      BY <1>2, <1>3, <1>5
    <3>2. ASSUME NEW t \in Tables
          PROVE  DOMAIN held[t] \subseteq Keys /\ held[t] \in [DOMAIN held[t] -> Row]
      BY <3>1, <1>2, <1>4, <1>5 DEF IsDatabase
    <3>. QED BY <2>1, <3>2, <1>5 DEF IsDatabase
  <2>4. KeepsColumns(tx')
    <3>1. ASSUME NEW t \in Tables, NEW p \in DOMAIN held[t]
          PROVE  held[t][p].v # "null" /\ held[t][p].at.utc
      BY <1>1, <1>3, <1>4, <1>5, <1>6 DEF KeepsColumns
    <3>. QED BY <2>1, <3>1 DEF KeepsColumns
  <2>5. Rest'
    <3>1. DOMAIN deferred' \subseteq Keys
      BY <1>2, <1>4, <2>2
    <3>. QED BY <1>1, <1>2, <2>1, <2>3, <2>4, <3>1, WithinTheTransaction
  <2> USE <2>1 DEF source, target, flags, others
  <2>6. CountIsOfStart'
    BY <1>1 DEF CopyInv, CountIsOfStart
  <2>7. DeferredAreCopied'
    <3>1. deferred \in [DOMAIN deferred -> Nat] /\ DOMAIN deferred \subseteq DOMAIN tx[table]
      BY <1>1 DEF CopyInv, DeferredAreCopied
    <3>2. \A p \in late : src[table][p].peer \in Nat
      BY <1>3 DEF Row
    <3>. QED BY <1>5, <2>2, <3>1, <3>2 DEF DeferredAreCopied
  <2>8. TargetIsKept'
    <3>1. ~Clears => /\ \A t \in Tables : \A p \in DOMAIN tgt[t] : p \in DOMAIN tx[t] /\ tx[t][p] = tgt[t][p]
                    /\ DOMAIN deferred \cap DOMAIN tgt[table] = {}
      BY <1>1 DEF CopyInv, TargetIsKept
    <3>2. ASSUME ~Clears, NEW t \in Tables, NEW p \in DOMAIN tgt[t]
          PROVE  p \in DOMAIN held[t] /\ held[t][p] = tgt[t][p]
      BY <1>1, <1>5, <1>6, <3>1, <3>2
    <3>3. ~Clears => late \cap DOMAIN tgt[table] = {}
      BY <1>1, <1>6, <3>1
    <3>. QED BY <2>2, <3>1, <3>2, <3>3 DEF TargetIsKept, Clears
  <2>9. CopySoFar'
    <3> SUFFICES ASSUME Quiet PROVE CopySoFar'
      BY <1>1 DEF CopySoFar, Quiet
    <3>1. /\ \A t \in Tables : t < table => tx[t] = Copied(src)[t]
          /\ \A t \in Tables : t > table => DOMAIN tx[t] = {}
          /\ tx[table] = [p \in Passed(D) |-> Inserted(src[table][p])]
          /\ DOMAIN deferred = {p \in DOMAIN tx[table] : src[table][p].peer # None}
          /\ \A p \in DOMAIN deferred : deferred[p] = src[table][p].peer
      BY <1>1 DEF CopyInv, CopySoFar
    <3>2. Passed(D)' = Passed(D) \cup Page
      BY <1>2 DEF Passed
    <3>3. held[table] = [p \in Passed(D)' |-> Inserted(src[table][p])]
      <4>1. \A p \in Passed(D) : tx[table][p] = Inserted(src[table][p])
        BY <3>1
      <4>2. DOMAIN tx[table] = Passed(D)
        BY <3>1
      <4>. QED BY <1>3, <1>5, <3>2, <4>1, <4>2
    <3>4. DOMAIN deferred' = {p \in DOMAIN held[table] : src[table][p].peer # None}
      BY <1>5, <2>2, <3>1
    <3>5. \A p \in DOMAIN deferred' : deferred'[p] = src[table][p].peer
      BY <2>2, <3>1
    <3>6. \A t \in Tables : t # table => tx'[t] = tx[t]
      BY <1>5
    <3>7. \A t \in Tables : (t < table \/ t > table) => t # table
      BY <1>1, TablesAreNumbered
    <3>. QED BY <1>1, <3>1, <3>3, <3>4, <3>5, <3>6, <3>7 DEF CopySoFar
  <2>10. NothingIsMissed'
    <3> SUFFICES ASSUME "delete" \notin dirty PROVE NothingIsMissed'
      BY DEF NothingIsMissed
    <3>1. /\ \A t \in Tables : t < table => DOMAIN start[t] \subseteq DOMAIN tx[t]
          /\ \A p \in DOMAIN start[table] \cap Passed(D) : p \in DOMAIN tx[table]
      BY <1>1 DEF CopyInv, NothingIsMissed
    <3>2. Passed(D)' = Passed(D) \cup Page
      BY <1>2 DEF Passed
    <3>3. \A t \in Tables : t < table => t # table
      BY <1>1, TablesAreNumbered
    <3>. QED BY <1>5, <3>1, <3>2, <3>3 DEF NothingIsMissed
  <2>. QED BY <2>5, <2>6, <2>7, <2>8, <2>9, <2>10, PartsOfInvariant DEF Rest, MigrationIInv
<1>7. CASE ~fits
  <2>1. Abandon("failed") /\ UNCHANGED <<source, target, verdict, others, before>>
    BY <1>7 DEF CopyPage, Beside
  <2>2. ASSUME Quiet, Sound(src)
        PROVE  fits
    <3>1. /\ \A t \in Tables : t < table => tx[t] = Copied(src)[t]
          /\ tx[table] = [p \in Passed(D) |-> Inserted(src[table][p])]
      BY <1>1, <2>2 DEF CopyInv, CopySoFar
    <3>2. Page \cap DOMAIN tx[table] = {}
      BY <1>2, <3>1
    <3>3. ASSUME NEW p \in Page
          PROVE  rows[p].v # "null" /\ Refers(held, table, rows[p])
      <4>1. p \in D /\ src[table][p].v # "null" /\ Refers(src, table, src[table][p])
        BY <1>1, <1>2, <2>2 DEF Sound
      <4>2. ASSUME src[table][p].up # None
            PROVE  table - 1 \in Tables /\ src[table][p].up \in DOMAIN held[table - 1]
        <5>1. table - 1 \in Tables /\ src[table][p].up \in DOMAIN src[table - 1]
          BY <4>1, <4>2 DEF Refers
        <5>2. table - 1 < table /\ table - 1 # table
          BY <1>1, TablesAreNumbered
        <5>3. DOMAIN tx[table - 1] = DOMAIN src[table - 1]
          BY <3>1, <5>1, <5>2, CopiedHasRows
        <5>. QED BY <1>5, <5>1, <5>2, <5>3
      <4> HIDE DEF rows, held
      <4>. QED BY <1>3, <4>1, <4>2 DEF Refers
    <3>. QED BY <3>2, <3>3
  <2>3. dirty # {} \/ met \/ ~Sound(src)
    <3> HIDE DEF fits
    <3>. QED BY <1>7, <2>2 DEF Quiet
  <2>. QED BY <1>1, <2>1, <2>3, ReturnsKeep DEF Abandon, others
<1>. QED BY <1>6, <1>7

\* After an empty page, or for a table that was empty when it was counted, the
\* offset has passed every key that was there then; undisturbed, every key.
LEMMA AllArePassed ==
    ASSUME MigrationIInv, pc = "copy", counts[table] = 0 \/ Page = {}
    PROVE  /\ "delete" \notin dirty => DOMAIN start[table] \subseteq Passed(DOMAIN src[table])
           /\ Quiet => Passed(DOMAIN src[table]) = DOMAIN src[table]
<1> DEFINE D == DOMAIN src[table]
<1>1. /\ table \in Tables /\ offset \in Nat /\ BatchSize \in Nat /\ BatchSize # 0 /\ D \in SUBSET Keys
      /\ DOMAIN start[table] \in SUBSET Keys /\ counts[table] = Cardinality(DOMAIN start[table])
      /\ dirty = {} => src = start
      /\ "delete" \notin dirty => DOMAIN start[table] \subseteq D
  BY KeysAreCounted, SizesArePositive DEF MigrationIInv, TypeOK, CountIsOfStart, IsDatabase
<1>2. CASE Page = {}
  <2>1. ASSUME NEW p \in D
        PROVE  Rank(D, p) # offset + 1
    <3>1. Rank(D, p) \notin (offset + 1)..(offset + BatchSize)
      BY <1>2 DEF Page
    <3>. QED BY <1>1, <3>1
  <2>2. \A p \in D : Rank(D, p) <= offset
    BY <1>1, <2>1, EmptyPageIsTheEnd
  <2>. QED BY <1>1, <2>2 DEF Passed
<1>3. CASE counts[table] = 0
  <2>1. DOMAIN start[table] = {}
    BY <1>1, <1>3, KeysAreCounted, FS_EmptySet
  <2>. QED BY <1>1, <2>1 DEF Passed, Quiet
<1>. QED BY <1>2, <1>3

\* The end of a table.
LEMMA EndTableKeeps ==
    ASSUME MigrationIInv, EndTable
    PROVE  MigrationIInv'
<1> DEFINE D == DOMAIN src[table]
           late == [p \in DOMAIN deferred |-> [tx[table][p] EXCEPT !.peer = deferred[p]]]
           filled == [tx EXCEPT ![table] = Put(late, @)]
           found == \A p \in DOMAIN deferred : deferred[p] \in DOMAIN tx[table]
<1>1. Rest /\ CopyInv /\ TypeOK /\ pc = "copy" /\ table \in Tables
      /\ cmd = "migrate" /\ outcome = "none" /\ writes \in 0..MaxWrites
      /\ (counts[table] = 0 \/ Page = {})
  BY PartsOfInvariant DEF EndTable, Rest, TypeOK, CommandFollowsControl, Migrating
<1>2. /\ "delete" \notin dirty => DOMAIN start[table] \subseteq Passed(D)
      /\ Quiet => Passed(D) = D
  BY <1>1, AllArePassed
<1>3. /\ IsDatabase(src) /\ IsDatabase(tx) /\ KeepsColumns(tx)
      /\ DOMAIN tx[table] \subseteq Keys /\ tx[table] \in [DOMAIN tx[table] -> Row]
      /\ src[table] \in [D -> Row]
      /\ deferred \in [DOMAIN deferred -> Nat] /\ DOMAIN deferred \subseteq DOMAIN tx[table]
  BY <1>1 DEF TypeOK, IsDatabase, CopyInv, DeferredAreCopied
<1>4. ASSUME Quiet
      PROVE  /\ \A t \in Tables : t < table => tx[t] = Copied(src)[t]
             /\ \A t \in Tables : t > table => DOMAIN tx[t] = {}
             /\ tx[table] = [p \in D |-> Inserted(src[table][p])]
             /\ DOMAIN deferred = {p \in D : src[table][p].peer # None}
             /\ \A p \in DOMAIN deferred : deferred[p] = src[table][p].peer
  BY <1>1, <1>2, <1>4 DEF CopyInv, CopySoFar
<1>5. CASE found
  <2>1. /\ tx' = filled /\ deferred' = <<>> /\ offset' = 0
        /\ pc' = (IF IsLast(table) THEN "commit" ELSE "copy")
        /\ table' = (IF IsLast(table) THEN table ELSE table + 1)
        /\ UNCHANGED <<source, target, flags, blockers, faults, commands, begun, outcome, verdict, others, before,
                       counts, start>>
    BY <1>5 DEF EndTable, GoOn, BackFill
  <2>2. /\ DOMAIN filled[table] = DOMAIN tx[table]
        /\ \A p \in DOMAIN deferred : filled[table][p] = [tx[table][p] EXCEPT !.peer = deferred[p]]
        /\ \A p \in DOMAIN tx[table] \ DOMAIN deferred : filled[table][p] = tx[table][p]
        /\ \A t \in Tables \ {table} : filled[t] = tx[t]
        /\ filled[table] = [p \in DOMAIN tx[table] |-> filled[table][p]]
        /\ filled = [t \in Tables |-> filled[t]]
    BY <1>1, <1>3 DEF IsDatabase, Put
  <2> HIDE DEF filled
  <2>3. ASSUME NEW p \in DOMAIN tx[table]
        PROVE  filled[table][p] \in Row /\ filled[table][p].v = tx[table][p].v
               /\ filled[table][p].at = tx[table][p].at
    <3>1. tx[table][p] \in Row /\ (p \in DOMAIN deferred => deferred[p] \in Nat)
      BY <1>3
    <3>2. CASE p \in DOMAIN deferred
      <4>1. filled[table][p] = [tx[table][p] EXCEPT !.peer = deferred[p]]
        BY <2>2, <3>2
      <4> DEFINE r == tx[table][p]  n == deferred[p]
      <4>2. r \in Row /\ n \in Nat
        BY <3>1, <3>2
      <4> HIDE DEF r, n
      <4>3. [r EXCEPT !.peer = n] \in Row /\ [r EXCEPT !.peer = n].v = r.v /\ [r EXCEPT !.peer = n].at = r.at
        BY <4>2 DEF Row
      <4>. QED BY <4>1, <4>3 DEF r, n
    <3>3. CASE p \notin DOMAIN deferred
      BY <2>2, <3>1, <3>3
    <3>. QED BY <3>2, <3>3
  <2>4. IsDatabase(tx')
    <3>1. ASSUME NEW t \in Tables
          PROVE  DOMAIN filled[t] \subseteq Keys /\ filled[t] \in [DOMAIN filled[t] -> Row]
      BY <1>3, <2>2, <2>3 DEF IsDatabase
    <3>. QED BY <2>1, <2>2, <3>1 DEF IsDatabase
  <2>5. KeepsColumns(tx')
    <3>1. ASSUME NEW t \in Tables, NEW p \in DOMAIN filled[t]
          PROVE  filled[t][p].v # "null" /\ filled[t][p].at.utc
      <4>1. CASE t = table
        <5>1. p \in DOMAIN tx[table] /\ tx[table][p].v # "null" /\ tx[table][p].at.utc
          BY <1>1, <1>3, <2>2, <4>1 DEF KeepsColumns
        <5>2. filled[t][p].v = tx[table][p].v /\ filled[t][p].at = tx[table][p].at
          BY <2>3, <4>1, <5>1
        <5>. QED BY <5>1, <5>2
      <4>2. CASE t # table
        BY <1>3, <2>2, <4>2 DEF KeepsColumns
      <4>. QED BY <4>1, <4>2
    <3>. QED BY <2>1, <3>1 DEF KeepsColumns
  <2>6. table' \in Tables /\ offset' \in 0..(Cardinality(Keys) + BatchSize) /\ DOMAIN deferred' \subseteq Keys
    BY <1>1, <2>1, TablesAreNumbered, KeysAreCounted, SizesArePositive
  <2>7. Rest'
    BY <1>1, <2>1, <2>4, <2>5, <2>6, WithinTheTransaction
  <2> USE <2>1 DEF source, target, flags, others
  <2>8. CountIsOfStart' /\ DeferredAreCopied'
    BY <1>1 DEF CopyInv, CountIsOfStart, DeferredAreCopied
  <2>9. TargetIsKept'
    <3>1. ~Clears => /\ \A t \in Tables : \A p \in DOMAIN tgt[t] : p \in DOMAIN tx[t] /\ tx[t][p] = tgt[t][p]
                    /\ DOMAIN deferred \cap DOMAIN tgt[table] = {}
      BY <1>1 DEF CopyInv, TargetIsKept
    <3>2. ASSUME ~Clears, NEW t \in Tables, NEW p \in DOMAIN tgt[t]
          PROVE  p \in DOMAIN filled[t] /\ filled[t][p] = tgt[t][p]
      <4>1. p \in DOMAIN tx[t] /\ tx[t][p] = tgt[t][p]
        BY <3>1, <3>2
      <4>2. CASE t = table
        <5>1. p \in DOMAIN tx[table] \ DOMAIN deferred
          BY <3>1, <3>2, <4>1, <4>2
        <5>2. p \in DOMAIN filled[table] /\ filled[table][p] = tx[table][p]
          BY <2>2, <5>1
        <5>. HIDE DEF filled
        <5>. QED BY <4>1, <4>2, <5>2
      <4>3. CASE t # table
        <5>1. filled[t] = tx[t]
          BY <2>2, <4>3
        <5>. HIDE DEF filled
        <5>. QED BY <4>1, <5>1
      <4>. QED BY <4>2, <4>3
    <3>. QED BY <3>2 DEF TargetIsKept, Clears
  <2>10. \A t \in Tables : /\ t < table => t # table
                           /\ IsLast(table) => (t < table \/ t = table)
                           /\ t < table + 1 <=> (t < table \/ t = table)
                           /\ t > table + 1 => t > table /\ t # table
    BY <1>1, TablesAreNumbered DEF IsLast
  <2>11. CopySoFar'
    <3> SUFFICES ASSUME Quiet PROVE CopySoFar'
      BY <1>1 DEF CopySoFar, Quiet
    <3>1. ASSUME NEW p \in D
          PROVE  filled[table][p] = [src[table][p] EXCEPT !.at.utc = TRUE]
      <4>1. src[table][p] \in Row /\ tx[table][p] = Inserted(src[table][p]) /\ p \in DOMAIN tx[table]
        BY <1>3, <1>4
      <4>2. CASE src[table][p].peer # None
        <5>1. filled[table][p] = [Inserted(src[table][p]) EXCEPT !.peer = src[table][p].peer]
          <6>1. p \in DOMAIN deferred /\ deferred[p] = src[table][p].peer
            BY <1>4, <4>2
          <6>2. filled[table][p] = [tx[table][p] EXCEPT !.peer = deferred[p]]
            BY <2>2, <6>1
          <6>. QED BY <4>1, <6>1, <6>2
        <5>. QED BY <4>1, <5>1, RowsAreKept
      <4>3. CASE src[table][p].peer = None
        BY <1>4, <2>2, <4>1, <4>3, RowsAreKept
      <4>. QED BY <4>2, <4>3
    <3>2. filled[table] = Copied(src)[table]
      <4>1. DOMAIN filled[table] = D
        BY <1>4, <2>2
      <4>2. Copied(src)[table] = [p \in D |-> [src[table][p] EXCEPT !.at.utc = TRUE]]
        BY <1>1 DEF Copied
      <4>. QED BY <2>2, <3>1, <4>1, <4>2
    <3>3. \A t \in Tables : t < table => filled[t] = Copied(src)[t]
      BY <1>4, <2>2, <2>10
    <3>4. CASE IsLast(table)
      <4>1. filled = Copied(src)
        <5>1. \A t \in Tables : filled[t] = Copied(src)[t]
          BY <2>10, <3>2, <3>3, <3>4
        <5>2. Copied(src) = [t \in Tables |-> Copied(src)[t]]
          BY DEF Copied
        <5>. QED BY <2>2, <5>1, <5>2
      <4>. QED BY <1>1, <3>4, <4>1 DEF CopySoFar, Quiet
    <3>5. CASE ~IsLast(table)
      <4>1. table + 1 \in Tables /\ table + 1 > table /\ table + 1 # table
        BY <1>1, <3>5, TablesAreNumbered
      <4>2. Passed(DOMAIN src[table])' = {}
        <5>1. DOMAIN src[table + 1] \in SUBSET Keys
          BY <1>3, <4>1 DEF IsDatabase
        <5>2. \A p \in DOMAIN src[table + 1] : ~(Rank(DOMAIN src[table + 1], p) <= 0)
          BY <5>1, RankIsNumber
        <5>3. table' = table + 1 /\ offset' = 0 /\ src' = src
          BY <2>1, <3>5
        <5>. QED BY <5>2, <5>3 DEF Passed
      <4>3. filled[table + 1] = tx[table + 1] /\ DOMAIN tx[table + 1] = {}
            /\ tx[table + 1] = [p \in {} |-> Inserted(src[table + 1][p])]
        BY <1>3, <1>4, <2>2, <4>1 DEF IsDatabase
      <4>4. \A t \in Tables : t < table + 1 => filled[t] = Copied(src)[t]
        BY <2>10, <3>2, <3>3
      <4>5. \A t \in Tables : t > table + 1 => DOMAIN filled[t] = {}
        BY <1>4, <2>2, <2>10
      <4>6. table' = table + 1 /\ pc' = "copy" /\ src' = src /\ tx' = filled /\ outcome' = "none"
        BY <1>1, <2>1, <3>5
      <4>7. tx'[table'] = [p \in Passed(DOMAIN src[table])' |-> Inserted(src'[table'][p])]
        BY <4>2, <4>3, <4>6
      <4>8. DOMAIN deferred' = {} /\ DOMAIN tx'[table'] = {}
        BY <2>1, <4>3, <4>6
      <4>9. /\ \A t \in Tables : t < table' => tx'[t] = Copied(src')[t]
            /\ \A t \in Tables : t > table' => DOMAIN tx'[t] = {}
        BY <4>4, <4>5, <4>6
      <4> HIDE <2>1
      <4>. QED BY <4>6, <4>7, <4>8, <4>9 DEF CopySoFar
    <3>. QED BY <3>4, <3>5
  <2>12. NothingIsMissed'
    <3> SUFFICES ASSUME "delete" \notin dirty PROVE NothingIsMissed'
      BY DEF NothingIsMissed
    <3>1. /\ \A t \in Tables : t < table => DOMAIN start[t] \subseteq DOMAIN tx[t]
          /\ \A p \in DOMAIN start[table] \cap Passed(D) : p \in DOMAIN tx[table]
      BY <1>1 DEF CopyInv, NothingIsMissed
    <3>2. DOMAIN start[table] \subseteq DOMAIN filled[table]
      BY <1>2, <2>2, <3>1
    <3>3. \A t \in Tables : t < table => DOMAIN start[t] \subseteq DOMAIN filled[t]
      BY <2>2, <2>10, <3>1
    <3>4. CASE IsLast(table)
      BY <2>10, <3>2, <3>3, <3>4 DEF NothingIsMissed
    <3>5. CASE ~IsLast(table)
      <4>1. table + 1 \in Tables
        BY <1>1, <3>5, TablesAreNumbered
      <4>2. Passed(DOMAIN src[table])' = {}
        <5>1. DOMAIN src[table + 1] \in SUBSET Keys
          BY <1>3, <4>1 DEF IsDatabase
        <5>2. \A p \in DOMAIN src[table + 1] : ~(Rank(DOMAIN src[table + 1], p) <= 0)
          BY <5>1, RankIsNumber
        <5>3. table' = table + 1 /\ offset' = 0 /\ src' = src
          BY <2>1, <3>5
        <5>. QED BY <5>2, <5>3 DEF Passed
      <4>. QED BY <2>10, <3>2, <3>3, <3>5, <4>2 DEF NothingIsMissed
    <3>. QED BY <3>4, <3>5
  <2>. QED BY <2>7, <2>8, <2>9, <2>11, <2>12, PartsOfInvariant DEF Rest, MigrationIInv
<1>6. CASE ~found
  <2>1. Abandon("failed") /\ UNCHANGED <<source, target, verdict, others, before>>
    BY <1>6 DEF EndTable
  <2>2. ASSUME Quiet, Sound(src)
        PROVE  found
    <3>1. ASSUME NEW p \in DOMAIN deferred
          PROVE  deferred[p] \in DOMAIN tx[table]
      <4>1. p \in D /\ src[table][p].peer # None /\ deferred[p] = src[table][p].peer
        BY <1>4, <2>2
      <4>2. src[table][p].peer \in D
        BY <1>1, <2>2, <4>1 DEF Sound, Refers
      <4>. QED BY <1>4, <2>2, <4>1, <4>2
    <3>. QED BY <3>1
  <2>3. dirty # {} \/ met \/ ~Sound(src)
    <3> HIDE DEF found
    <3>. QED BY <1>6, <2>2 DEF Quiet
  <2>. QED BY <1>1, <2>1, <2>3, ReturnsKeep DEF Abandon, others
<1>. QED BY <1>5, <1>6

\* The transaction is committed.
LEMMA CommitKeeps ==
    ASSUME MigrationIInv, Commit
    PROVE  MigrationIInv'
<1>1. Rest /\ CopyInv /\ pc = "commit" /\ pc' = "stamp" /\ tgt' = tx
      /\ cmd = "migrate" /\ outcome = "none" /\ verdict = "none" /\ ~blockers
  BY PartsOfInvariant DEF Commit, Rest, CommandFollowsControl, Migrating
<1>2. UNCHANGED <<source, tgtRev, tgtSchema, flags, blockers, faults, commands, begun, outcome, verdict, others, before,
                 copying>>
  BY DEF Commit, GoOn
<1> USE <1>1, <1>2 DEF source, target, flags, others, copying
<1>3. TypeOK'
  BY DEF Rest, TypeOK
<1>4. CommandFollowsControl' /\ TargetIsBefore'
  BY DEF Rest, CommandFollowsControl, TargetIsBefore, Validating, Migrating, Verifying
<1>5. ChecksHold' /\ VerifiedSoFar'
  BY DEF Rest, ChecksHold, VerifiedSoFar, Validating, Migrating, Verifying
<1>6. StampIsSchema' /\ SoundSourceIsCopied' /\ NoFalseAlarm'
  BY DEF Rest, StampIsSchema, SoundSourceIsCopied, NoFalseAlarm
<1>7. CopyInv'
  BY DEF CopyInv, CountIsOfStart, DeferredAreCopied, TargetIsKept, CopySoFar, NothingIsMissed, Quiet
<1>. QED BY <1>3, <1>4, <1>5, <1>6, <1>7, PartsOfInvariant DEF MigrationIInv, CopyInv

\* The target is stamped.
LEMMA StampKeeps ==
    ASSUME MigrationIInv, Stamp
    PROVE  MigrationIInv'
<1>1. Rest /\ CopyInv /\ pc = "stamp" /\ cmd = "migrate" /\ verdict = "none" /\ ~blockers
  BY PartsOfInvariant DEF Stamp, Rest, CommandFollowsControl, Migrating
<1>2. UNCHANGED <<source, tgt, tgtSchema, verdict, others, before>> /\ Return
      /\ tgtRev' = srcRev /\ outcome' = "done"
  BY DEF Stamp
<1> USE <1>1, <1>2 DEF source, others
<1>3. CopyInv'
  <2>1. Quiet' => tgt' = Copied(src')
    BY CopyStands
  <2>. QED BY <2>1, NothingToCopy DEF Return
<1>4. TypeOK'
  <2>1. table' \in Tables /\ offset' \in 0..(Cardinality(Keys) + BatchSize) /\ DOMAIN deferred' \subseteq Keys
    BY TablesAreNumbered, KeysAreCounted, SizesArePositive DEF Return
  <2>2. {live', force', backup', blockers', faults', met', upgraded'} \subseteq BOOLEAN
    BY DEF Rest, TypeOK, Return
  <2>3. IsDatabase(tx') /\ KeepsColumns(tx')
    BY EmptyIsDatabase DEF Return
  <2>. QED BY <2>1, <2>2, <2>3 DEF Rest, TypeOK, Return
<1>5. CommandFollowsControl' /\ TargetIsBefore'
  BY DEF Rest, CommandFollowsControl, TargetIsBefore, Validating, Migrating, Verifying, Return
<1>6. ChecksHold'
  BY DEF Rest, TypeOK, ChecksHold, Validating, Migrating, Return
<1>7. VerifiedSoFar'
  BY DEF Rest, TypeOK, VerifiedSoFar, Verifying, Return
<1>8. StampIsSchema' /\ SoundSourceIsCopied' /\ NoFalseAlarm'
  BY DEF Rest, StampIsSchema, SoundSourceIsCopied, NoFalseAlarm, ChecksHold, Migrating
<1>. QED BY <1>3, <1>4, <1>5, <1>6, <1>7, <1>8, PartsOfInvariant DEF MigrationIInv, CopyInv

-----------------------------------------------------------------------------
(* The steps of verify.                                                     *)

\* A copy has the same keys and the same rows.
LEMMA CopiesMatch ==
    ASSUME TypeOK, tgt = Copied(src), NEW t \in Tables
    PROVE  /\ DOMAIN tgt[t] = DOMAIN src[t]
           /\ \A p \in DOMAIN src[t] : SameRow(src[t][p], tgt[t][p])
<1>1. DOMAIN tgt[t] = DOMAIN src[t]
  BY CopiedHasRows
<1>2. ASSUME NEW p \in DOMAIN src[t]
      PROVE  SameRow(src[t][p], tgt[t][p])
  <2>1. src[t][p] \in Row
    BY DEF TypeOK, IsDatabase
  <2>2. tgt[t][p] = [src[t][p] EXCEPT !.at.utc = TRUE]
    BY CopiedHasRows
  <2>. QED BY <2>1, <2>2, RowsAreKept
<1>. QED BY <1>1, <1>2

\* A check of verify keeps the invariant if it keeps what was compared so far.
LEMMA JudgesKeep ==
    ASSUME MigrationIInv, pc \in {"counts", "sample"}, pc' \in {"sample", "decrypt"},
           UNCHANGED <<source, target, flags, blockers, outcome, verdict, commands, others, before, begun,
                       tx, offset, deferred, counts, start>>,
           faults' \in BOOLEAN, table' \in Tables, VerifiedSoFar'
    PROVE  MigrationIInv'
<1> USE DEF source, target, flags, others
<1>1. Rest /\ CopyInv /\ verdict = "none"
  BY PartsOfInvariant DEF MigrationIInv, CommandFollowsControl
<1>2. CopyInv'
  BY <1>1, CopyStands, NothingToCopy
<1>3. TypeOK'
  BY <1>1 DEF Rest, TypeOK
<1>4. CommandFollowsControl' /\ TargetIsBefore' /\ ChecksHold'
  BY <1>1 DEF Rest, CommandFollowsControl, TargetIsBefore, ChecksHold, Validating, Migrating, Verifying
<1>5. StampIsSchema' /\ SoundSourceIsCopied' /\ NoFalseAlarm'
  BY <1>1 DEF Rest, StampIsSchema, SoundSourceIsCopied, NoFalseAlarm
<1>. QED BY <1>2, <1>3, <1>4, <1>5, PartsOfInvariant DEF MigrationIInv, CopyInv

\* The rows are counted.
LEMMA VerifyCountsKeeps ==
    ASSUME MigrationIInv, VerifyCounts
    PROVE  MigrationIInv'
<1> DEFINE differ == tgtSchema = None \/ \E t \in Tables : Cardinality(DOMAIN src[t]) # Cardinality(DOMAIN tgt[t])
<1>1. /\ TypeOK /\ VerifiedSoFar /\ pc = "counts" /\ ~faults /\ pc' = "sample" /\ table' = 1
      /\ faults' = (faults \/ differ)
      /\ UNCHANGED <<source, target, flags, blockers, outcome, verdict, commands, others, before, begun,
                     tx, offset, deferred, counts, start>>
  BY DEF MigrationIInv, VerifiedSoFar, VerifyCounts, Judge
<1>2. faults' \in BOOLEAN
  BY <1>1
<1>3. ASSUME outcome = "done", Quiet
      PROVE  ~differ
  <2>1. tgt = Copied(src)
    BY <1>3 DEF MigrationIInv, CopySoFar
  <2>2. tgtSchema # None
    <3>1. tgtSchema >= Complete /\ tgtSchema \in Nat /\ Complete \in Nat /\ Complete # 0
      BY <1>3, BoundsAreNumbers DEF MigrationIInv, ChecksHold, TypeOK, None
    <3>. QED BY <3>1 DEF None
  <2>. QED BY <1>1, <2>1, <2>2, CopiesMatch
<1>4. \A t \in Tables : ~(t < 1)
  BY TablesAreNumbered
<1>5. VerifiedSoFar'
  <2>1. begun' \in 0..writes' /\ ~differ => \A t \in Tables : Cardinality(DOMAIN src[t]) = Cardinality(DOMAIN tgt[t])
    BY <1>1 DEF VerifiedSoFar, others
  <2>2. faults' <=> differ
    BY <1>1
  <2> HIDE DEF differ
  <2>. QED BY <1>1, <1>3, <1>4, <2>1, <2>2 DEF VerifiedSoFar, Verifying, Quiet, source, target, others
<1>. QED BY <1>1, <1>2, <1>5, TablesAreNumbered, JudgesKeep

\* A sample as large as its table is the table.
LEMMA SampleIsTable ==
    ASSUME NEW D \in SUBSET Keys, NEW S \in SUBSET D,
           Cardinality(S) = Cardinality(D) \/ Cardinality(S) = SampleSize,
           Cardinality(D) <= SampleSize
    PROVE  S = D
<1>1. IsFiniteSet(D) /\ Cardinality(D) \in Nat /\ Cardinality(S) \in Nat /\ SampleSize \in Nat
  <2>1. S \in SUBSET Keys
    OBVIOUS
  <2>. QED BY <2>1, KeysAreCounted, SizesArePositive
<1>2. Cardinality(S) <= Cardinality(D)
  BY <1>1, FS_Subset
<1>3. Cardinality(S) = Cardinality(D)
  BY <1>1, <1>2
<1>. QED BY <1>1, <1>3, FS_Subset

\* A few rows are compared.
LEMMA VerifySampleKeeps ==
    ASSUME MigrationIInv, VerifySample
    PROVE  MigrationIInv'
<1>1. PICK S \in SUBSET DOMAIN src[table] :
        /\ Cardinality(S) = Cardinality(DOMAIN src[table]) \/ Cardinality(S) = SampleSize
        /\ Cardinality(S) <= SampleSize
        /\ IF IsLast(table) THEN Judge("sample", "decrypt", \E p \in S : Mismatch(p)) /\ table' = table
           ELSE Judge("sample", "sample", \E p \in S : Mismatch(p)) /\ table' = table + 1
  BY DEF VerifySample
<1> DEFINE differ == \E p \in S : Mismatch(p)
<1>2. /\ TypeOK /\ VerifiedSoFar /\ pc = "sample" /\ faults \in BOOLEAN /\ table \in Tables
      /\ faults' = (faults \/ differ)
      /\ pc' = (IF IsLast(table) THEN "decrypt" ELSE "sample")
      /\ table' = (IF IsLast(table) THEN table ELSE table + 1)
      /\ UNCHANGED <<source, target, flags, blockers, outcome, verdict, commands, others, before, begun,
                     tx, offset, deferred, counts, start>>
  BY <1>1 DEF MigrationIInv, TypeOK, Judge
<1>3. faults' \in BOOLEAN /\ table' \in Tables /\ (faults' <=> faults \/ differ)
  BY <1>2, TablesAreNumbered
<1>4. ASSUME outcome = "done", Quiet
      PROVE  ~differ
  <2>1. tgt = Copied(src)
    BY <1>4 DEF MigrationIInv, CopySoFar
  <2>. QED BY <1>2, <2>1, CopiesMatch DEF Mismatch
<1>5. ASSUME ~differ, Cardinality(DOMAIN src[table]) = Cardinality(DOMAIN tgt[table])
      PROVE  Compared(table)
  <2> DEFINE D == DOMAIN src[table]
             E == DOMAIN tgt[table]
  <2>1. SUFFICES ASSUME Cardinality(D) <= SampleSize
                 PROVE  E = D /\ \A p \in D : SameRow(src[table][p], tgt[table][p])
    BY DEF Compared
  <2>2. D \in SUBSET Keys /\ E \in SUBSET Keys
    BY <1>2 DEF TypeOK, IsDatabase
  <2>3. S = D
    BY <1>1, <2>1, <2>2, SampleIsTable
  <2>4. \A p \in D : p \in E /\ SameRow(src[table][p], tgt[table][p])
    BY <1>5, <2>3 DEF Mismatch
  <2>5. D \in SUBSET E /\ IsFiniteSet(E)
    BY <2>2, <2>4, KeysAreCounted
  <2>6. E = D
    BY <1>5, <2>5, FS_Subset
  <2>. QED BY <2>4, <2>6
<1>6. \A t \in Tables : /\ t < table + 1 <=> (t < table \/ t = table)
                        /\ IsLast(table) => (t < table \/ t = table)
  BY <1>2, TablesAreNumbered DEF IsLast
<1>7. VerifiedSoFar'
  <2> HIDE DEF differ
  <2>1. begun' \in 0..writes' /\ pc' # "counts" /\ (Verifying /\ outcome = "done" /\ Quiet => ~faults')
    BY <1>2, <1>3, <1>4 DEF VerifiedSoFar, others, Verifying
  <2>2. ASSUME begun = writes, ~faults'
        PROVE  /\ \A t \in Tables : Cardinality(DOMAIN src[t]) = Cardinality(DOMAIN tgt[t])
               /\ \A t \in Tables : (t < table \/ t = table) => Compared(t)
    <3>1. /\ \A t \in Tables : Cardinality(DOMAIN src[t]) = Cardinality(DOMAIN tgt[t])
          /\ \A t \in Tables : t < table => Compared(t)
      BY <1>2, <1>3, <2>2 DEF VerifiedSoFar, Verifying
    <3>2. Compared(table)
      BY <1>2, <1>3, <1>5, <2>2, <3>1
    <3>. QED BY <3>1, <3>2
  <2>3. \A t \in Tables : Compared(t)' <=> Compared(t)
    BY <1>2 DEF Compared, source, target
  <2>. QED BY <1>2, <1>6, <2>1, <2>2, <2>3 DEF VerifiedSoFar, Verifying, Quiet, source, target, others
<1>. QED BY <1>2, <1>3, <1>7, JudgesKeep

\* Cells are decrypted, and verify gives its verdict.
LEMMA VerifyKeyKeeps ==
    ASSUME MigrationIInv, VerifyKey
    PROVE  MigrationIInv'
<1>1. Rest /\ CopyInv /\ pc = "decrypt" /\ cmd = "verify"
  BY PartsOfInvariant DEF VerifyKey, Rest, CommandFollowsControl, Verifying
<1>2. UNCHANGED <<source, target, outcome, others, before>> /\ Return
      /\ verdict' \in {"passed", "failed"} /\ (verdict' = "failed" => faults \/ SampleFails(tgt))
  BY <1>1 DEF VerifyKey
<1> USE <1>1, <1>2 DEF source, target, others
<1>3. CopyInv'
  BY CopyStands, NothingToCopy DEF Return
<1>4. TypeOK'
  <2>1. table' \in Tables /\ offset' \in 0..(Cardinality(Keys) + BatchSize) /\ DOMAIN deferred' \subseteq Keys
    BY TablesAreNumbered, KeysAreCounted, SizesArePositive DEF Return
  <2>2. {live', force', backup', blockers', faults', met', upgraded'} \subseteq BOOLEAN
    BY DEF Rest, TypeOK, Return
  <2>3. IsDatabase(tx') /\ KeepsColumns(tx')
    BY EmptyIsDatabase DEF Return
  <2>. QED BY <2>1, <2>2, <2>3 DEF Rest, TypeOK, Return
<1>5. CommandFollowsControl' /\ TargetIsBefore' /\ ChecksHold'
  BY DEF Rest, CommandFollowsControl, TargetIsBefore, ChecksHold, Validating, Migrating, Verifying, Return
<1>6. VerifiedSoFar'
  BY DEF Rest, TypeOK, VerifiedSoFar, Verifying, Return
<1>7. StampIsSchema' /\ SoundSourceIsCopied'
  BY DEF Rest, StampIsSchema, SoundSourceIsCopied
<1>8. NoFalseAlarm'
  <2>1. outcome = "done" /\ Quiet => ~faults
    BY DEF Rest, VerifiedSoFar, Verifying
  <2>. QED BY <2>1 DEF NoFalseAlarm, Quiet, SampleFails, Decrypts, Return
<1>. QED BY <1>3, <1>4, <1>5, <1>6, <1>7, <1>8, PartsOfInvariant DEF MigrationIInv, CopyInv

-----------------------------------------------------------------------------
(* The others.                                                              *)

LEMMA StopKeeps ==
    ASSUME MigrationIInv, StopBackend
    PROVE  MigrationIInv'
<1> USE DEF StopBackend, target, command, copying, others, flags
<1>1. Rest /\ CopyInv
  BY PartsOfInvariant
<1>2. CopyInv'
  BY <1>1 DEF CopyInv, CountIsOfStart, DeferredAreCopied, TargetIsKept, CopySoFar, NothingIsMissed,
              Quiet, Passed, Clears
<1>3. TypeOK'
  BY <1>1 DEF Rest, TypeOK
<1>4. CommandFollowsControl' /\ TargetIsBefore' /\ ChecksHold'
  BY <1>1 DEF Rest, CommandFollowsControl, TargetIsBefore, ChecksHold, Validating, Migrating, Verifying, Clears
<1>5. VerifiedSoFar'
  BY <1>1 DEF Rest, VerifiedSoFar, Verifying, Quiet, Compared
<1>6. StampIsSchema' /\ SoundSourceIsCopied' /\ NoFalseAlarm'
  BY <1>1 DEF Rest, StampIsSchema, SoundSourceIsCopied, NoFalseAlarm, Decrypts
<1>. QED BY <1>2, <1>3, <1>4, <1>5, <1>6, PartsOfInvariant DEF MigrationIInv, CopyInv

\* What a write of the backend does to the source.
LEMMA SourceIsWritten ==
    ASSUME TypeOK, SourceWrite
    PROVE  /\ IsDatabase(src') /\ dirty' \subseteq {"insert", "update", "delete"} /\ dirty' # {}
           /\ "delete" \notin dirty' =>
                 "delete" \notin dirty /\ \A t \in Tables : DOMAIN src[t] \subseteq DOMAIN src'[t]
<1>1. PICK t \in Tables, p \in Keys :
          \/ /\ p \notin DOMAIN src[t]
             /\ \E q \in DOMAIN src[t] :
                   src' = [src EXCEPT ![t] = Put([k \in {p} |-> [src[t][q] EXCEPT !.peer = None]], @)]
             /\ dirty' = dirty \cup {"insert"}
          \/ /\ p \in DOMAIN src[t]
             /\ \E v \in Values \ {src[t][p].v} : src' = [src EXCEPT ![t][p].v = v]
             /\ dirty' = dirty \cup {"update"}
          \/ /\ p \in DOMAIN src[t]
             /\ src' = [src EXCEPT ![t] = Restrict(@, DOMAIN @ \ {p})]
             /\ dirty' = dirty \cup {"delete"}
  BY DEF SourceWrite
<1>2. /\ src = [u \in Tables |-> src[u]]
      /\ \A u \in Tables : DOMAIN src[u] \subseteq Keys /\ src[u] \in [DOMAIN src[u] -> Row]
      /\ dirty \subseteq {"insert", "update", "delete"}
  BY DEF TypeOK, IsDatabase
\* A table is replaced by another that has rows.
<1>3. ASSUME NEW f, src' = [src EXCEPT ![t] = f], DOMAIN f \subseteq Keys, f \in [DOMAIN f -> Row]
      PROVE  IsDatabase(src') /\ src'[t] = f /\ \A u \in Tables \ {t} : src'[u] = src[u]
  BY <1>2, <1>3 DEF IsDatabase
<1>4. CASE /\ p \notin DOMAIN src[t]
           /\ \E q \in DOMAIN src[t] :
                 src' = [src EXCEPT ![t] = Put([k \in {p} |-> [src[t][q] EXCEPT !.peer = None]], @)]
           /\ dirty' = dirty \cup {"insert"}
  <2>1. PICK q \in DOMAIN src[t] :
            src' = [src EXCEPT ![t] = Put([k \in {p} |-> [src[t][q] EXCEPT !.peer = None]], @)]
    BY <1>4
  <2> DEFINE r == [src[t][q] EXCEPT !.peer = None]
             f == Put([k \in {p} |-> r], src[t])
  <2>2. r \in Row
    <3>1. src[t][q] \in Row
      BY <1>2
    <3>. QED BY <3>1 DEF Row, None
  <2> HIDE DEF r
  <2>3. /\ DOMAIN f = {p} \cup DOMAIN src[t] /\ f = [k \in DOMAIN f |-> f[k]]
        /\ \A k \in DOMAIN f : f[k] = r \/ (k \in DOMAIN src[t] /\ f[k] = src[t][k])
    BY DEF Put
  <2>4. src' = [src EXCEPT ![t] = f]
    BY <2>1 DEF r
  <2> HIDE DEF f
  <2>5. DOMAIN f \subseteq Keys /\ f \in [DOMAIN f -> Row]
    BY <1>2, <2>2, <2>3
  <2>6. IsDatabase(src') /\ src'[t] = f /\ \A u \in Tables \ {t} : src'[u] = src[u]
    BY <1>3, <2>4, <2>5
  <2>. QED BY <1>2, <1>4, <2>3, <2>6
<1>5. CASE /\ p \in DOMAIN src[t]
           /\ \E v \in Values \ {src[t][p].v} : src' = [src EXCEPT ![t][p].v = v]
           /\ dirty' = dirty \cup {"update"}
  <2>1. PICK v \in Values : src' = [src EXCEPT ![t][p].v = v]
    BY <1>5
  <2> DEFINE r == [src[t][p] EXCEPT !.v = v]
             f == [src[t] EXCEPT ![p] = r]
  <2>2. r \in Row
    <3>1. src[t][p] \in Row
      BY <1>2, <1>5
    <3>. QED BY <3>1 DEF Row
  <2>3. src' = [src EXCEPT ![t] = f]
    BY <2>1
  <2> HIDE DEF r
  <2>4. DOMAIN f = DOMAIN src[t] /\ DOMAIN f \subseteq Keys /\ f \in [DOMAIN f -> Row]
    BY <1>2, <2>2
  <2> HIDE DEF f
  <2>5. IsDatabase(src') /\ src'[t] = f /\ \A u \in Tables \ {t} : src'[u] = src[u]
    BY <1>3, <2>3, <2>4
  <2>. QED BY <1>2, <1>5, <2>4, <2>5
<1>6. CASE /\ p \in DOMAIN src[t]
           /\ src' = [src EXCEPT ![t] = Restrict(@, DOMAIN @ \ {p})]
           /\ dirty' = dirty \cup {"delete"}
  <2> DEFINE f == Restrict(src[t], DOMAIN src[t] \ {p})
  <2>1. DOMAIN f \subseteq Keys /\ f \in [DOMAIN f -> Row]
    BY <1>2 DEF Restrict
  <2>2. src' = [src EXCEPT ![t] = f]
    BY <1>6
  <2> HIDE DEF f
  <2>3. IsDatabase(src')
    BY <1>3, <2>1, <2>2
  <2>. QED BY <1>2, <1>6, <2>3
<1>. QED BY <1>1, <1>4, <1>5, <1>6

\* A write of the backend to the source.
LEMMA SourceWriteKeeps ==
    ASSUME MigrationIInv, SourceWrite
    PROVE  MigrationIInv'
<1>1. Rest /\ CopyInv /\ TypeOK
  BY PartsOfInvariant DEF Rest
<1>2. /\ IsDatabase(src') /\ dirty' \subseteq {"insert", "update", "delete"} /\ dirty' # {}
      /\ "delete" \notin dirty' =>
            "delete" \notin dirty /\ \A t \in Tables : DOMAIN src[t] \subseteq DOMAIN src'[t]
  BY <1>1, SourceIsWritten
<1>3. /\ writes < MaxWrites /\ writes' = writes + 1 /\ live' = TRUE
      /\ UNCHANGED <<srcRev, target, command, copying, met, upgraded, before>>
  BY DEF SourceWrite
<1>4. writes \in Nat /\ writes' \in 0..MaxWrites /\ writes' \in Nat
  BY <1>1, <1>3, BoundsAreNumbers DEF TypeOK
<1> USE <1>2, <1>3 DEF target, command, copying, flags
<1>5. TypeOK'
  <2>1. {live', force', backup', blockers', faults', met', upgraded'} \subseteq BOOLEAN
    BY <1>1 DEF TypeOK
  <2>. QED BY <1>1, <1>4, <2>1 DEF TypeOK
<1>6. CommandFollowsControl' /\ TargetIsBefore' /\ ChecksHold'
  BY <1>1 DEF Rest, CommandFollowsControl, TargetIsBefore, ChecksHold, Validating, Migrating, Verifying, Clears
<1>7. VerifiedSoFar'
  <2>1. begun \in 0..writes /\ (pc = "counts" => ~faults)
    BY <1>1 DEF Rest, VerifiedSoFar
  <2>2. begun \in 0..writes' /\ begun # writes'
    BY <1>3, <1>4, <2>1
  <2>. QED BY <2>1, <2>2 DEF VerifiedSoFar, Quiet
<1>8. StampIsSchema' /\ SoundSourceIsCopied' /\ NoFalseAlarm'
  BY <1>1 DEF Rest, StampIsSchema, SoundSourceIsCopied, NoFalseAlarm
<1>9. CountIsOfStart' /\ DeferredAreCopied' /\ TargetIsKept' /\ CopySoFar'
  BY <1>1 DEF CopyInv, CountIsOfStart, DeferredAreCopied, TargetIsKept, CopySoFar, Quiet, Clears
<1>10. NothingIsMissed'
  <2> SUFFICES ASSUME "delete" \notin dirty' PROVE NothingIsMissed'
    BY DEF NothingIsMissed
  <2>1. ASSUME pc = "copy", NEW p \in DOMAIN start[table] \cap Passed(DOMAIN src[table])'
        PROVE  p \in DOMAIN tx[table]
    <3> DEFINE D == DOMAIN src[table]  E == DOMAIN src'[table]
    <3>1. table \in Tables /\ D \subseteq E /\ E \in SUBSET Keys /\ p \in D /\ offset \in Nat
      BY <1>1, <2>1, KeysAreCounted, SizesArePositive DEF TypeOK, IsDatabase, CopyInv, CountIsOfStart
    <3>2. Rank(E, p) <= offset
      BY <2>1 DEF Passed
    <3>3. Rank(D, p) <= Rank(E, p)
      BY <3>1, RankGrows
    <3>4. Rank(D, p) \in Nat /\ Rank(E, p) \in Nat
      <4>1. D \in SUBSET Keys /\ p \in E
        BY <3>1
      <4>. QED BY <3>1, <4>1, RankIsNumber
    <3>5. Rank(D, p) <= offset
      BY <3>1, <3>2, <3>3, <3>4
    <3>. QED BY <1>1, <2>1, <3>1, <3>5 DEF Passed, CopyInv, NothingIsMissed
  <2>. QED BY <1>1, <2>1 DEF CopyInv, NothingIsMissed
<1>. QED BY <1>5, <1>6, <1>7, <1>8, <1>9, <1>10 DEF MigrationIInv

\* The source is upgraded.
LEMMA UpgradeKeeps ==
    ASSUME MigrationIInv, UpgradeSource
    PROVE  MigrationIInv'
<1>1. Rest /\ CopyInv /\ TypeOK
  BY PartsOfInvariant DEF Rest
<1>2. /\ writes < MaxWrites /\ writes' = writes + 1 /\ live' = TRUE /\ srcRev' = srcRev + 1
      /\ upgraded' = (upgraded \/ cmd = "migrate")
      /\ UNCHANGED <<src, target, command, copying, dirty, met, before>>
  BY DEF UpgradeSource
<1>3. writes \in Nat /\ writes' \in 0..MaxWrites /\ writes' \in Nat
  BY <1>1, <1>2, BoundsAreNumbers DEF TypeOK
<1> USE <1>2 DEF target, command, copying, flags
<1>4. TypeOK'
  <2>1. {live', force', backup', blockers', faults', met', upgraded'} \subseteq BOOLEAN
    BY <1>1 DEF TypeOK
  <2>2. srcRev' \in Nat
    BY <1>1 DEF TypeOK
  <2>. QED BY <1>1, <1>3, <2>1, <2>2 DEF TypeOK
<1>5. CommandFollowsControl' /\ TargetIsBefore'
  BY <1>1 DEF Rest, CommandFollowsControl, TargetIsBefore, Validating, Migrating, Verifying
<1>6. ChecksHold'
  <2>1. tgtRev <= srcRev => tgtRev <= srcRev + 1
    BY <1>1 DEF TypeOK
  <2>. QED BY <1>1, <2>1 DEF Rest, ChecksHold, Validating, Migrating, Clears
<1>7. VerifiedSoFar'
  <2>1. begun \in 0..writes /\ ((Verifying /\ outcome = "done" /\ Quiet) \/ pc = "counts" => ~faults)
    BY <1>1 DEF Rest, VerifiedSoFar
  <2>2. begun \in 0..writes' /\ begun # writes'
    BY <1>2, <1>3, <2>1
  <2>. QED BY <2>1, <2>2 DEF VerifiedSoFar, Quiet, Verifying
<1>8. StampIsSchema' /\ SoundSourceIsCopied' /\ NoFalseAlarm'
  BY <1>1 DEF Rest, StampIsSchema, SoundSourceIsCopied, NoFalseAlarm, Decrypts
<1>9. CopyInv'
  BY <1>1 DEF CopyInv, CountIsOfStart, DeferredAreCopied, TargetIsKept, CopySoFar, NothingIsMissed,
              Quiet, Passed, Clears
<1>. QED BY <1>4, <1>5, <1>6, <1>7, <1>8, <1>9 DEF MigrationIInv, CopyInv

\* A row is added to the first table.
Added(db, p, r) == [db EXCEPT ![1] = Put([k \in {p} |-> r], @)]

LEMMA AddedHasOneMore ==
    ASSUME NEW db, IsDatabase(db), KeepsColumns(db), NEW p \in Keys, p \notin DOMAIN db[1],
           NEW r \in Row, r.v # "null", r.at.utc
    PROVE  /\ IsDatabase(Added(db, p, r)) /\ KeepsColumns(Added(db, p, r))
           /\ DOMAIN Added(db, p, r)[1] = DOMAIN db[1] \cup {p} /\ Added(db, p, r)[1][p] = r
           /\ \A t \in Tables \ {1} : Added(db, p, r)[t] = db[t]
           /\ \A t \in Tables : \A q \in DOMAIN db[t] :
                 q \in DOMAIN Added(db, p, r)[t] /\ Added(db, p, r)[t][q] = db[t][q]
<1> DEFINE f == Put([k \in {p} |-> r], db[1])
           new == Added(db, p, r)
<1>1. /\ 1 \in Tables /\ db = [t \in Tables |-> db[t]]
      /\ \A t \in Tables : DOMAIN db[t] \subseteq Keys /\ db[t] \in [DOMAIN db[t] -> Row]
  BY TablesAreNumbered DEF IsDatabase
<1>2. /\ DOMAIN f = {p} \cup DOMAIN db[1] /\ f[p] = r /\ f = [k \in DOMAIN f |-> f[k]]
      /\ \A k \in DOMAIN db[1] : f[k] = db[1][k]
  BY DEF Put
<1>3. new = [db EXCEPT ![1] = f]
  BY DEF Added
<1> HIDE DEF f, new
<1>4. new[1] = f /\ \A t \in Tables \ {1} : new[t] = db[t]
  BY <1>1, <1>3
<1>5. \A k \in DOMAIN f : f[k] \in Row
  BY <1>1, <1>2
<1>6. IsDatabase(new)
  BY <1>1, <1>2, <1>3, <1>4, <1>5 DEF IsDatabase
<1>7. KeepsColumns(new)
  <2>1. ASSUME NEW t \in Tables, NEW q \in DOMAIN new[t]
        PROVE  new[t][q].v # "null" /\ new[t][q].at.utc
    <3>1. CASE t = 1 /\ q = p
      BY <1>2, <1>4, <3>1
    <3>2. CASE ~(t = 1 /\ q = p)
      <4>1. q \in DOMAIN db[t] /\ new[t][q] = db[t][q]
        BY <1>1, <1>2, <1>4, <3>2
      <4>. QED BY <4>1 DEF KeepsColumns
    <3>. QED BY <3>1, <3>2
  <2>. QED BY <2>1 DEF KeepsColumns
<1>. QED BY <1>1, <1>2, <1>4, <1>6, <1>7 DEF new

\* Another client writes to the target.
LEMMA TargetWriteKeeps ==
    ASSUME MigrationIInv, TargetWrite
    PROVE  MigrationIInv'
<1>1. Rest /\ CopyInv /\ TypeOK
  BY PartsOfInvariant DEF Rest
<1>2. PICK p \in Keys \ (DOMAIN tgt[1] \cup DOMAIN tx[1]), v \in Values :
        LET r == [up |-> None, peer |-> None, v |-> v, at |-> [hour |-> 0, utc |-> TRUE]]
        IN  /\ tgt' = Added(tgt, p, r) /\ before' = Added(before, p, r)
            /\ tx' = IF pc \in {"copy", "commit"} THEN Added(tx, p, r) ELSE tx
  BY DEF TargetWrite, Added
<1> DEFINE r == [up |-> None, peer |-> None, v |-> v, at |-> [hour |-> 0, utc |-> TRUE]]
<1>3. r \in Row /\ r.v # "null" /\ r.at.utc
  BY ValuesAreGiven DEF Row, None
<1> HIDE DEF r
<1>4. /\ tgt' = Added(tgt, p, r) /\ before' = Added(before, p, r)
      /\ pc \in {"copy", "commit"} => tx' = Added(tx, p, r)
      /\ pc \notin {"copy", "commit"} => tx' = tx
  BY <1>2 DEF r
<1>5. /\ writes < MaxWrites /\ writes' = writes + 1 /\ met' = TRUE
      /\ UNCHANGED <<source, tgtRev, tgtSchema, command, table, offset, deferred, counts, start, dirty, upgraded>>
  BY DEF TargetWrite
<1>6. writes \in Nat /\ writes' \in 0..MaxWrites /\ writes' \in Nat
  BY <1>1, <1>5, BoundsAreNumbers DEF TypeOK
<1>7. IsDatabase(tgt) /\ KeepsColumns(tgt) /\ IsDatabase(tx) /\ KeepsColumns(tx)
  BY <1>1 DEF TypeOK
<1>8. /\ IsDatabase(tgt') /\ KeepsColumns(tgt')
      /\ DOMAIN tgt'[1] = DOMAIN tgt[1] \cup {p} /\ tgt'[1][p] = r
      /\ \A t \in Tables \ {1} : tgt'[t] = tgt[t]
      /\ \A t \in Tables : \A q \in DOMAIN tgt[t] : q \in DOMAIN tgt'[t] /\ tgt'[t][q] = tgt[t][q]
  BY <1>3, <1>4, <1>7, AddedHasOneMore
<1>9. /\ IsDatabase(tx') /\ KeepsColumns(tx')
      /\ pc \in {"copy", "commit"} =>
            p \in DOMAIN tx'[1] /\ tx'[1][p] = r
      /\ \A t \in Tables : \A q \in DOMAIN tx[t] : q \in DOMAIN tx'[t] /\ tx'[t][q] = tx[t][q]
  <2>1. CASE pc \in {"copy", "commit"}
    BY <1>3, <1>4, <1>7, <2>1, AddedHasOneMore
  <2>2. CASE pc \notin {"copy", "commit"}
    BY <1>4, <1>7, <2>2
  <2>. QED BY <2>1, <2>2
<1> USE <1>5 DEF source, command, flags
<1>10. TypeOK'
  <2>1. {live', force', backup', blockers', faults', met', upgraded'} \subseteq BOOLEAN
    BY <1>1 DEF TypeOK
  <2>. QED BY <1>1, <1>6, <1>8, <1>9, <2>1 DEF TypeOK
<1>11. CommandFollowsControl' /\ ChecksHold'
  BY <1>1 DEF Rest, CommandFollowsControl, ChecksHold, Validating, Migrating, Verifying, Clears
<1>12. TargetIsBefore'
  BY <1>1, <1>4 DEF Rest, TargetIsBefore
<1>13. VerifiedSoFar'
  <2>1. begun \in 0..writes /\ (pc = "counts" => ~faults)
    BY <1>1 DEF Rest, VerifiedSoFar
  <2>2. begun \in 0..writes' /\ begun # writes'
    BY <1>5, <1>6, <2>1
  <2>. QED BY <2>1, <2>2 DEF VerifiedSoFar, Quiet
<1>14. StampIsSchema' /\ SoundSourceIsCopied' /\ NoFalseAlarm'
  BY <1>1 DEF Rest, StampIsSchema, SoundSourceIsCopied, NoFalseAlarm
<1>15. CountIsOfStart' /\ CopySoFar'
  BY <1>1 DEF CopyInv, CountIsOfStart, CopySoFar, Quiet
<1>16. DeferredAreCopied'
  BY <1>1, <1>9 DEF CopyInv, DeferredAreCopied, TypeOK
<1>17. TargetIsKept'
  <2> SUFFICES ASSUME pc \in {"copy", "commit"}, ~Clears PROVE TargetIsKept'
    BY DEF TargetIsKept, Clears
  <2>1. /\ \A t \in Tables : \A q \in DOMAIN tgt[t] : q \in DOMAIN tx[t] /\ tx[t][q] = tgt[t][q]
        /\ pc = "copy" => DOMAIN deferred \cap DOMAIN tgt[table] = {} /\ DOMAIN deferred \subseteq DOMAIN tx[table]
    BY <1>1 DEF CopyInv, TargetIsKept, DeferredAreCopied
  <2>2. ASSUME NEW t \in Tables, NEW q \in DOMAIN tgt'[t]
        PROVE  q \in DOMAIN tx'[t] /\ tx'[t][q] = tgt'[t][q]
    <3>1. CASE t = 1 /\ q = p
      BY <1>8, <1>9, <3>1
    <3>2. CASE ~(t = 1 /\ q = p)
      <4>1. q \in DOMAIN tgt[t]
        BY <1>8, <3>2
      <4>. QED BY <1>8, <1>9, <2>1, <4>1
    <3>. QED BY <3>1, <3>2
  <2>3. pc = "copy" => DOMAIN deferred \cap DOMAIN tgt'[table] = {}
    <3>1. table \in Tables /\ p \notin DOMAIN tx[1]
      BY <1>1, <1>2 DEF TypeOK
    <3>. QED BY <1>8, <2>1, <3>1
  <2>. QED BY <2>2, <2>3 DEF TargetIsKept
<1>18. NothingIsMissed'
  <2> SUFFICES ASSUME "delete" \notin dirty PROVE NothingIsMissed'
    BY DEF NothingIsMissed
  <2>1. \A t \in Tables : DOMAIN tx[t] \subseteq DOMAIN tx'[t] /\ DOMAIN tgt[t] \subseteq DOMAIN tgt'[t]
    BY <1>8, <1>9
  <2>2. table \in Tables
    BY <1>1 DEF TypeOK
  <2>3. pc = "copy" =>
            /\ \A t \in Tables : t < table => DOMAIN start[t] \subseteq DOMAIN tx'[t]
            /\ \A q \in DOMAIN start[table] \cap Passed(DOMAIN src[table]) : q \in DOMAIN tx'[table]
    BY <1>1, <2>1, <2>2 DEF CopyInv, NothingIsMissed
  <2>4. Passed(DOMAIN src[table])' = Passed(DOMAIN src[table])
    BY DEF Passed
  <2>5. /\ pc = "commit" => \A t \in Tables : DOMAIN start[t] \subseteq DOMAIN tx'[t]
        /\ pc = "stamp" => \A t \in Tables : DOMAIN start[t] \subseteq DOMAIN tgt'[t]
    BY <1>1, <2>1 DEF CopyInv, NothingIsMissed
  <2>. QED BY <2>3, <2>4, <2>5 DEF NothingIsMissed
<1>. QED BY <1>10, <1>11, <1>12, <1>13, <1>14, <1>15, <1>16, <1>17, <1>18 DEF MigrationIInv

-----------------------------------------------------------------------------
(* The theorems.                                                            *)

LEMMA MigrationStep ==
    ASSUME MigrationIInv, [Next]_vars
    PROVE  MigrationIInv'
<1>1. CASE UNCHANGED vars
  <2> USE <1>1 DEF vars, source, target, flags, copying, others
  <2>1. Rest /\ CopyInv
    BY PartsOfInvariant
  <2>2. CopyInv'
    BY <2>1 DEF CopyInv, CountIsOfStart, DeferredAreCopied, TargetIsKept, CopySoFar, NothingIsMissed,
                Quiet, Passed, Clears
  <2>3. TypeOK'
    BY <2>1 DEF Rest, TypeOK
  <2>4. CommandFollowsControl' /\ TargetIsBefore' /\ ChecksHold'
    BY <2>1 DEF Rest, CommandFollowsControl, TargetIsBefore, ChecksHold, Validating, Migrating, Verifying, Clears
  <2>5. VerifiedSoFar'
    BY <2>1 DEF Rest, VerifiedSoFar, Verifying, Quiet, Compared
  <2>6. StampIsSchema' /\ SoundSourceIsCopied' /\ NoFalseAlarm'
    BY <2>1 DEF Rest, StampIsSchema, SoundSourceIsCopied, NoFalseAlarm, Decrypts
  <2>. QED BY <2>2, <2>3, <2>4, <2>5, <2>6 DEF MigrationIInv, CopyInv
<1>2. CASE Next
  <2>1. CASE /\ pc = "idle" /\ commands < MaxCommands
             /\ \E c \in {"validate", "migrate", "verify"}, f, b \in BOOLEAN, k \in {"none", "right", "wrong"} :
                   Run(c, f, b, k)
    BY <2>1, RunKeeps
  <2>2. CASE CheckVersions \/ CheckKey \/ CheckEmpty \/ CheckSchemaAndDrift
    BY <2>2, ChecksKeep
  <2>3. CASE Unreachable BY <2>3, UnreachableKeeps
  <2>4. CASE CheckLiveness BY <2>4, LivenessKeeps
  <2>5. CASE CountSource BY <2>5, CountKeeps
  <2>6. CASE BeginTx BY <2>6, BeginKeeps
  <2>7. CASE CopyPage BY <2>7, PageKeeps
  <2>8. CASE EndTable BY <2>8, EndTableKeeps
  <2>9. CASE Commit BY <2>9, CommitKeeps
  <2>10. CASE Stamp BY <2>10, StampKeeps
  <2>11. CASE Crash BY <2>11, CrashKeeps
  <2>12. CASE VerifyCounts BY <2>12, VerifyCountsKeeps
  <2>13. CASE VerifySample BY <2>13, VerifySampleKeeps
  <2>14. CASE VerifyKey BY <2>14, VerifyKeyKeeps
  <2>15. CASE StopBackend BY <2>15, StopKeeps
  <2>16. CASE SourceWrite BY <2>16, SourceWriteKeeps
  <2>17. CASE UpgradeSource BY <2>17, UpgradeKeeps
  <2>18. CASE TargetWrite BY <2>18, TargetWriteKeeps
  <2>. QED
    BY <1>2, <2>1, <2>2, <2>3, <2>4, <2>5, <2>6, <2>7, <2>8, <2>9, <2>10, <2>11, <2>12,
       <2>13, <2>14, <2>15, <2>16, <2>17, <2>18 DEF Next
<1>. QED BY <1>1, <1>2

\* The invariant holds in every reachable state, whoever writes to the databases
\* and wherever a command dies.
THEOREM MigrationInvariance == Spec => []MigrationIInv
  BY MigrationInit, MigrationStep, PTL DEF Spec

\* What a migration that is done has copied is the source, row by row; what stayed
\* in the source while it was read has been copied; a sound source is copied.
THEOREM CopyStaysFaithful == Spec => []CopyIsFaithful
<1>1. MigrationIInv => CopyIsFaithful
  BY DEF MigrationIInv, CopyIsFaithful, FaithfulCopy, CopiesWhatStays, CopySoFar, NothingIsMissed, Quiet
<1>. QED BY <1>1, MigrationInvariance, PTL

\* Rows of the target go only in a commit of a forced migration.
LEMMA OverwritesAreForced ==
    ASSUME MigrationIInv, Next
    PROVE  OnlyForceOverwrites
<1>1. CASE Commit
  <2>1. Clears \/ \A t \in Tables : \A p \in DOMAIN tgt[t] : p \in DOMAIN tx[t] /\ tx[t][p] = tgt[t][p]
    BY <1>1 DEF Commit, MigrationIInv, TargetIsKept
  <2>. QED BY <1>1, <2>1 DEF Commit, OnlyForceOverwrites, Clears
<1>2. CASE TargetWrite
  <2>1. PICK p \in Keys, r \in Row : tgt' = Added(tgt, p, r) /\ p \notin DOMAIN tgt[1] /\ r.v # "null" /\ r.at.utc
    <3>1. \A v \in Values : LET r == [up |-> None, peer |-> None, v |-> v, at |-> [hour |-> 0, utc |-> TRUE]]
                            IN  r \in Row /\ r.v # "null" /\ r.at.utc
      BY ValuesAreGiven DEF Row, None
    <3>. QED BY <1>2, <3>1 DEF TargetWrite, Added
  <2>2. IsDatabase(tgt) /\ KeepsColumns(tgt)
    BY DEF MigrationIInv, TypeOK
  <2>. QED BY <2>1, <2>2, AddedHasOneMore DEF OnlyForceOverwrites
<1>3. CASE ~Commit /\ ~TargetWrite
  <2>1. tgt' = tgt
    BY <1>3 DEF Next, Run, Unreachable, CheckVersions, CheckKey, CheckEmpty, CheckSchemaAndDrift, CheckLiveness, Check,
       CountSource, BeginTx, Beside, CopyPage, EndTable, BackFill, Stamp, Crash, VerifyCounts, VerifySample, VerifyKey,
       Judge, StopBackend, SourceWrite, UpgradeSource, target
  <2>. QED BY <2>1 DEF OnlyForceOverwrites
<1>. QED BY <1>1, <1>2, <1>3

\* The target holds all of a migration or nothing of it, its stamp is the revision of
\* its schema, and no row of it is lost without both flags.
THEOREM TargetStaysSafe == Spec => TargetIsSafe
<1>1. MigrationIInv => AllOrNothing /\ StampIsSchema
  BY DEF MigrationIInv, AllOrNothing, TargetIsBefore, CommandFollowsControl, Migrating
<1>2. MigrationIInv' => (AllOrNothing /\ StampIsSchema)'
  BY <1>1, PTL
<1>3. MigrationIInv /\ MigrationIInv' /\ [Next]_vars => [(AllOrNothing /\ StampIsSchema)' /\ OnlyForceOverwrites]_vars
  BY <1>2, OverwritesAreForced
<1>. QED BY <1>3, MigrationInvariance, PTL DEF Spec, TargetIsSafe

\* A verdict is only given at the end of verify.
LEMMA OnlyVerifyPasses ==
    ASSUME Next, verdict' = "passed", verdict # "passed"
    PROVE  VerifyKey
  BY DEF Next, Run, Unreachable, CheckVersions, CheckKey, CheckEmpty, CheckSchemaAndDrift, CheckLiveness, Check,
     CountSource, BeginTx, Beside, CopyPage, EndTable, Commit, Stamp, Crash, VerifyCounts, VerifySample, Judge,
     StopBackend, SourceWrite, UpgradeSource, TargetWrite, command

\* verify does not fail a good migration, nor pass what it read in full and differs.
THEOREM VerifyStaysTruthful == Spec => VerifyTellsTruth
<1>1. MigrationIInv => NoFalseAlarm
  BY DEF MigrationIInv
<1>2. MigrationIInv' => NoFalseAlarm'
  BY <1>1, PTL
<1>3. ASSUME MigrationIInv, Next
      PROVE  SmallTablesAreCompared
  <2>1. SUFFICES ASSUME verdict' = "passed", verdict # "passed", writes = begun
                 PROVE  \A t \in Tables : Compared(t)
    BY DEF SmallTablesAreCompared, Compared
  <2>2. VerifyKey
    BY <1>3, <2>1, OnlyVerifyPasses
  <2>3. pc = "decrypt" /\ ~faults
    BY <2>1, <2>2 DEF VerifyKey
  <2>. QED BY <1>3, <2>1, <2>3 DEF MigrationIInv, VerifiedSoFar, Verifying
<1>4. MigrationIInv /\ MigrationIInv' /\ [Next]_vars => [NoFalseAlarm' /\ SmallTablesAreCompared]_vars
  BY <1>2, <1>3
<1>. QED BY <1>4, MigrationInvariance, PTL DEF Spec, VerifyTellsTruth
=============================================================================
