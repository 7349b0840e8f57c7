----------------------------- MODULE Migration -----------------------------
(***************************************************************************)
(* The one-shot cutover from SQLite to PostgreSQL: the script's three      *)
(* commands validate, migrate and verify, between two databases that       *)
(* others may still write to.  The operator should have stopped the        *)
(* backend; the script asks its health endpoint once and then copies for   *)
(* as long as it takes, reading the source page by page without a          *)
(* snapshot and writing the target in one transaction.                     *)
(*                                                                         *)
(* A table is a function from primary keys to rows.  A row may refer to    *)
(* one of the table before it (up) and to one of its own table (peer), and *)
(* has a value and a time.                                                 *)
(***************************************************************************)
EXTENDS Naturals, FiniteSets, Sequences, SequencesExt, Functions

CONSTANTS
    Tables,         \* numbers, parents before children
    Keys,           \* primary keys
    Values,         \* what others may write into a row
    Starts,         \* both databases before the cutover: the rows and the revisions
                    \* of each, and whether a backend runs
    Complete,       \* the revision from which every column of the ORM is there
    OsOffset,       \* hours of the local time zone
    BatchSize,      \* --batch-size
    SampleSize,     \* VERIFY_SAMPLE_SIZE
    MaxCommands,    \* bound: commands the operator runs
    MaxWrites       \* bound: writes of others, to either database

None == 0           \* NULL in a reference, no alembic_version, a missing schema

ASSUME SizesArePositive == BatchSize \in Nat \ {0} /\ SampleSize \in Nat \ {0}
ASSUME NoSchemaNoRows   == \A s \in Starts : s.tgtRev = None => \A t \in Tables : s.tgt[t] = <<>>
ASSUME KeysAreNumbers   == Keys \subseteq Nat \ {None} /\ IsFiniteSet(Keys)
ASSUME TablesAreOrdered == IsFiniteSet(Tables) /\ Tables # {} /\ Tables = 1..Cardinality(Tables)
ASSUME ValuesAreGiven   == "null" \notin Values
ASSUME BoundsAreNumbers == Complete \in Nat /\ Complete # None /\ MaxCommands \in Nat /\ MaxWrites \in Nat

VARIABLES
    src, srcRev,    \* the source and its alembic_version
    live,           \* a backend runs on the source
    tgt, tgtRev,    \* the target as committed, and its alembic_version
    tgtSchema,      \* the revision the target's tables really have
    cmd, force, backup, key,    \* the command, its flags, and ENCRYPTION_KEY
    pc,             \* where the command is
    blockers,       \* validate has counted a failure
    tx,             \* the target as the migration's transaction sees it
    table, offset, deferred,    \* of the table being copied
    counts,         \* src_counts
    faults,         \* verify has counted a failure
    outcome,        \* of the last migrate
    verdict,        \* of the last verify
    commands, writes,
    begun,          \* history: the writes there were when the command began
    before,         \* history: the target, had this migrate not run
    start,          \* history: the source when it was counted
    dirty,          \* history: how the source was written since
    met,            \* history: another wrote to the target since the migrate began
    upgraded        \* history: the source was upgraded while a migrate ran

flags   == <<cmd, force, backup, key>>
source  == <<src, srcRev, live>>
target  == <<tgt, tgtRev, tgtSchema>>
copying == <<tx, table, offset, deferred, counts, start>>
others  == <<writes, dirty, met, upgraded>>
vars == <<source, target, flags, pc, blockers, copying, faults, outcome, verdict,
          commands, others, before, begun>>

Empty == [t \in Tables |-> <<>>]

\* A table with more rows, or others for some of its keys.
Put(rows, onto) ==
    [p \in DOMAIN rows \cup DOMAIN onto |-> IF p \in DOMAIN rows THEN rows[p] ELSE onto[p]]

\* The rows that columns can hold, and a database of them.
Row == [up : Nat, peer : Nat, v : Values \cup {"null", "broken"}, at : [hour : Nat, utc : BOOLEAN]]
IsDatabase(db) ==
    /\ db = [t \in Tables |-> db[t]]
    /\ \A t \in Tables : DOMAIN db[t] \subseteq Keys /\ db[t] \in [DOMAIN db[t] -> Row]

\* The target's columns refuse NULL, and keep the zone of a time.
KeepsColumns(db) == \A t \in Tables : \A p \in DOMAIN db[t] : db[t][p].v # "null" /\ db[t][p].at.utc

ASSUME StartsAreDatabases ==
    \A s \in Starts : /\ IsDatabase(s.src) /\ IsDatabase(s.tgt) /\ KeepsColumns(s.tgt)
                      /\ s.srcRev \in Nat /\ s.tgtRev \in Nat /\ s.live \in BOOLEAN

IsLast(t) == \A u \in Tables : u <= t

-----------------------------------------------------------------------------
(* Rows.                                                                   *)

\* Both databases keep references: the source if its foreign keys were on.
Refers(db, t, row) ==
    /\ row.up # None => t - 1 \in Tables /\ row.up \in DOMAIN db[t - 1]
    /\ row.peer # None => row.peer \in DOMAIN db[t]

\* A time without a zone is meant in UTC, and is marked so.
UtcAware(at) == [at EXCEPT !.utc = TRUE]

\* What the driver stores: it takes a time without a zone for a local one.
Stored(row) ==
    [row EXCEPT !.at = IF @.utc THEN @ ELSE [hour |-> @.hour + 24 - OsOffset, utc |-> TRUE]]

Prepared(row) == Stored([row EXCEPT !.at = UtcAware(@)])

\* verify compares times without their zones.
SameRow(s, t) == [s EXCEPT !.at = @.hour] = [t EXCEPT !.at = @.hour]

\* The cell can be decrypted with the key the command was given.
Decrypts(row) == key = "right" /\ row.v # "broken"

\* What the target can hold.  That no value is longer than its column, which
\* the source does not refuse, is an assumption on the values of Starts.
Sound(db) ==
    \A t \in Tables : \A p \in DOMAIN db[t] :
        db[t][p].v # "null" /\ Refers(db, t, db[t][p])

-----------------------------------------------------------------------------
TypeOK ==
    /\ IsDatabase(src) /\ IsDatabase(tgt) /\ IsDatabase(tx)
    /\ KeepsColumns(tgt) /\ KeepsColumns(tx)
    /\ srcRev \in Nat /\ tgtRev \in Nat /\ tgtSchema \in Nat
    /\ table \in Tables /\ offset \in 0..(Cardinality(Keys) + BatchSize)
    /\ DOMAIN deferred \subseteq Keys
    /\ pc \in {"idle", "versions", "key", "empty", "drift", "alive", "count", "begin", "copy",
               "commit", "stamp", "counts", "sample", "decrypt"}
    /\ outcome \in {"none", "refused", "failed", "broken", "unstamped", "done"}
    /\ verdict \in {"none", "passed", "failed"}
    /\ {live, force, backup, blockers, faults, met, upgraded} \subseteq BOOLEAN
    /\ dirty \subseteq {"insert", "update", "delete"}
    /\ commands \in 0..MaxCommands /\ writes \in 0..MaxWrites

Init ==
    /\ \E s \in Starts :
          /\ src = s.src /\ srcRev = s.srcRev /\ live = s.live
          /\ tgt = s.tgt /\ tgtRev = s.tgtRev /\ tgtSchema = s.tgtRev
    /\ cmd = "none" /\ force = FALSE /\ backup = FALSE /\ key = "none"
    /\ pc = "idle" /\ blockers = FALSE /\ faults = FALSE
    /\ tx = Empty /\ table = 1 /\ offset = 0 /\ deferred = <<>>
    /\ counts = [t \in Tables |-> 0]
    /\ outcome = "none" /\ verdict = "none" /\ commands = 0 /\ writes = 0
    /\ before = tgt /\ begun = 0 /\ start = Empty /\ dirty = {} /\ met = FALSE /\ upgraded = FALSE

\* The operator begins a command; verify has no flags.
Run(c, f, b, k) ==
    /\ c = "verify" => ~f /\ ~b
    /\ commands' = commands + 1
    /\ cmd' = c /\ force' = f /\ backup' = b /\ key' = k
    /\ blockers' = FALSE /\ faults' = FALSE
    /\ pc' = IF c = "verify" THEN "counts" ELSE "versions"
    /\ IF c = "migrate"
       THEN outcome' = "none" /\ before' = tgt /\ dirty' = {} /\ met' = FALSE
       ELSE UNCHANGED <<outcome, before, dirty, met>>
    /\ verdict' = "none" /\ begun' = IF c = "verify" THEN writes ELSE 0
    /\ UNCHANGED <<source, target, copying, writes, upgraded>>

\* A command that returns leaves none of its local state.
Return ==
    /\ pc' = "idle" /\ cmd' = "none" /\ force' = FALSE /\ backup' = FALSE
    /\ blockers' = FALSE /\ faults' = FALSE /\ begun' = 0
    /\ tx' = Empty /\ deferred' = <<>> /\ offset' = 0 /\ table' = 1
    /\ counts' = [t \in Tables |-> 0] /\ start' = Empty
    /\ UNCHANGED <<key, commands>>

-----------------------------------------------------------------------------
(* validate, which migrate runs first.                                     *)

Check(here, next, failed) ==
    /\ pc = here
    /\ pc' = next
    /\ blockers' = (blockers \/ failed)
    /\ UNCHANGED <<source, target, flags, copying, faults, outcome, verdict, commands, others, before, begun>>

\* No source file, or no answer from a database: validate returns at once.
Unreachable ==
    /\ pc = "versions"
    /\ outcome' = IF cmd = "migrate" THEN "refused" ELSE outcome
    /\ Return
    /\ UNCHANGED <<source, target, verdict, others, before>>

RevisionsDiffer == srcRev = None \/ tgtRev = None \/ srcRev # tgtRev

CheckVersions == Check("versions", "key", RevisionsDiffer)

\* One row of each table is tried, whichever the database gives first.
SampleFails(db) ==
    \E t \in Tables : \E p \in DOMAIN db[t] : ~Decrypts(db[t][p])
SamplePasses(db) ==
    \A t \in Tables : DOMAIN db[t] # {} => \E p \in DOMAIN db[t] : Decrypts(db[t][p])

CheckKey ==
    \/ (key = "none" \/ SampleFails(src)) /\ Check("key", "empty", TRUE)
    \/ key # "none" /\ SamplePasses(src) /\ Check("key", "empty", FALSE)

Occupied == (\E t \in Tables : DOMAIN tgt[t] # {}) /\ ~(force /\ backup)

CheckEmpty == Check("empty", "drift", Occupied)

\* The columns of the target, then NULLs of the source that it would refuse;
\* for migrate these are a warning only.
CheckSchemaAndDrift ==
    Check("drift", "alive",
          \/ tgtSchema < Complete
          \/ cmd # "migrate" /\ \E t \in Tables : \E p \in DOMAIN src[t] : src[t][p].v = "null")

\* The last check asks the backend, once; then the command ends or goes on.
CheckLiveness ==
    /\ pc = "alive"
    /\ IF cmd = "migrate" /\ ~blockers /\ ~live
       THEN pc' = "count" /\ UNCHANGED <<flags, blockers, faults, copying, outcome, commands, begun>>
       ELSE Return /\ outcome' = IF cmd = "migrate" THEN "refused" ELSE outcome
    /\ UNCHANGED <<source, target, verdict, others, before>>

-----------------------------------------------------------------------------
(* migrate.                                                                *)

\* An exception rolls the transaction back.
Abandon(how) == Return /\ outcome' = how

\* The copy goes on within its transaction.
GoOn == UNCHANGED <<flags, blockers, faults, commands, begun>>
Beside == UNCHANGED <<source, target, verdict, others, before>>

\* The tables of the source are counted, before and apart from the copy; the
\* source may not have the columns it is then asked for.
CountSource ==
    /\ pc = "count"
    /\ IF srcRev >= Complete
       THEN /\ counts' = [t \in Tables |-> Cardinality(DOMAIN src[t])]
            /\ start' = src /\ dirty' = {}
            /\ pc' = "begin"
            /\ GoOn /\ UNCHANGED <<outcome, tx, table, offset, deferred>>
       ELSE Abandon("failed") /\ UNCHANGED dirty
    /\ UNCHANGED <<source, target, verdict, before, writes, met, upgraded>>

Clears == force /\ backup

\* The transaction on the target begins; when forced, with the deletion of
\* every row, children first.
BeginTx ==
    /\ pc = "begin"
    /\ tx' = IF Clears THEN Empty ELSE tgt
    /\ table' = 1 /\ offset' = 0 /\ deferred' = <<>>
    /\ pc' = "copy"
    /\ UNCHANGED <<counts, start, outcome>> /\ GoOn /\ Beside

\* Mutant: the offset moves on by one too many.
NextOffsetTooFar == offset + BatchSize + 1

NextOffset == offset + BatchSize

\* The rows of the source at the offset, in the order of the primary key.
Rank(D, p) == Cardinality({q \in D : q <= p})
Page ==
    {p \in DOMAIN src[table] :
        Rank(DOMAIN src[table], p) \in (offset + 1)..(offset + BatchSize)}

\* They are left NULL, as the row they name may come later.
Inserted(row) == [Prepared(row) EXCEPT !.peer = None]

\* A page is read and inserted.  The target refuses a key it has, a NULL and
\* a reference to nothing.
CopyPage ==
    /\ pc = "copy" /\ counts[table] > 0 /\ Page # {}
    /\ LET rows == [p \in Page |-> Inserted(src[table][p])]
           held == [tx EXCEPT ![table] = Put(rows, @)]
       IN  IF /\ Page \cap DOMAIN tx[table] = {}
              /\ \A p \in Page : rows[p].v # "null" /\ Refers(held, table, rows[p])
           THEN /\ tx' = held
                /\ offset' = NextOffset
                /\ deferred' = Put([p \in {q \in Page : src[table][q].peer # None} |->
                                       src[table][p].peer], deferred)
                /\ UNCHANGED <<pc, outcome, table, counts, start>> /\ GoOn
           ELSE Abandon("failed")
    /\ Beside

\* Mutant: a table is committed when it has been copied.
BackFillCommits(filled) == tx' = filled /\ tgt' = filled /\ UNCHANGED <<tgtRev, tgtSchema>>

BackFill(filled) == tx' = filled /\ UNCHANGED target

\* After the last page, or for a table that was counted empty: the references
\* left out are filled in, and the next table follows.
EndTable ==
    /\ pc = "copy"
    /\ counts[table] = 0 \/ Page = {}
    /\ IF \A p \in DOMAIN deferred : deferred[p] \in DOMAIN tx[table]
       THEN /\ BackFill([tx EXCEPT ![table] = Put([p \in DOMAIN deferred |->
                            [@[p] EXCEPT !.peer = deferred[p]]], @)])
            /\ deferred' = <<>> /\ offset' = 0
            /\ IF IsLast(table) THEN pc' = "commit" /\ table' = table
               ELSE pc' = "copy" /\ table' = table + 1
            /\ UNCHANGED <<outcome, counts, start>> /\ GoOn
       ELSE Abandon("failed") /\ UNCHANGED target
    /\ UNCHANGED <<source, verdict, others, before>>

Commit ==
    /\ pc = "commit"
    /\ tgt' = tx
    /\ pc' = "stamp"
    /\ GoOn
    /\ UNCHANGED <<source, tgtRev, tgtSchema, outcome, verdict, others, before, copying>>

\* A transaction of its own writes the source's revision of now.
Stamp ==
    /\ pc = "stamp"
    /\ tgtRev' = srcRev
    /\ Return /\ outcome' = "done"
    /\ UNCHANGED <<source, tgt, tgtSchema, verdict, others, before>>

\* The process dies, or a connection breaks: before the commit the transaction
\* is rolled back; after it there is no stamp, and the script may say that all
\* was rolled back when it is the answer to the commit that was lost.
Crash ==
    /\ pc \in {"begin", "copy", "commit", "stamp"} /\ writes < MaxWrites
    /\ Abandon(IF pc = "stamp" THEN "unstamped" ELSE "broken")
    /\ writes' = writes + 1
    /\ UNCHANGED <<source, target, verdict, dirty, met, upgraded, before>>

-----------------------------------------------------------------------------
(* verify.                                                                 *)

Judge(here, next, failed) ==
    /\ pc = here /\ pc' = next
    /\ faults' = (faults \/ failed)
    /\ UNCHANGED <<source, target, flags, blockers, outcome, verdict, commands, others, before, begun,
                   tx, offset, deferred, counts, start>>

\* Row counts, table by table.
VerifyCounts ==
    /\ Judge("counts", "sample", tgtSchema = None \/ \E t \in Tables :
                Cardinality(DOMAIN src[t]) # Cardinality(DOMAIN tgt[t]))
    /\ table' = 1

\* Mutant: a row the target has not is passed over.
MismatchOnlyOfFound(p) == p \in DOMAIN tgt[table] /\ ~SameRow(src[table][p], tgt[table][p])

Mismatch(p) == p \in DOMAIN tgt[table] => ~SameRow(src[table][p], tgt[table][p])

\* A few rows of each table, at random.
VerifySample ==
    \E S \in SUBSET DOMAIN src[table] :
        /\ Cardinality(S) = Cardinality(DOMAIN src[table]) \/ Cardinality(S) = SampleSize
        /\ Cardinality(S) <= SampleSize
        /\ IF IsLast(table) THEN Judge("sample", "decrypt", \E p \in S : Mismatch(p)) /\ table' = table
           ELSE Judge("sample", "sample", \E p \in S : Mismatch(p)) /\ table' = table + 1

\* Without the key the last check is left out.
VerifyKey ==
    /\ pc = "decrypt"
    /\ \/ (key = "none" \/ SamplePasses(tgt)) /\ verdict' = IF faults THEN "failed" ELSE "passed"
       \/ key # "none" /\ SampleFails(tgt) /\ verdict' = "failed"
    /\ Return
    /\ UNCHANGED <<source, target, outcome, others, before>>

-----------------------------------------------------------------------------
(* The others.                                                             *)

\* What a running command has in hand, and what came of the ones before.
command == <<flags, pc, blockers, faults, outcome, verdict, commands, begun>>

StopBackend ==
    /\ live /\ live' = FALSE
    /\ UNCHANGED <<src, srcRev, target, command, copying, others, before>>

\* The backend, started again if it was stopped, writes a row of the source
\* and keeps its references.
SourceWrite ==
    /\ writes < MaxWrites
    /\ \E t \in Tables, p \in Keys :
          \/ /\ p \notin DOMAIN src[t]
             /\ \E q \in DOMAIN src[t] :
                   src' = [src EXCEPT ![t] = Put([k \in {p} |-> [src[t][q] EXCEPT !.peer = None]], @)]
             /\ dirty' = dirty \cup {"insert"}
          \/ /\ p \in DOMAIN src[t]
             /\ \E v \in Values \ {src[t][p].v} : src' = [src EXCEPT ![t][p].v = v]
             /\ dirty' = dirty \cup {"update"}
          \/ /\ p \in DOMAIN src[t]
             /\ src' = [src EXCEPT ![t] = Restrict(@, DOMAIN @ \ {p})]
             /\ Sound(src) => Sound(src')
             /\ dirty' = dirty \cup {"delete"}
    /\ live' = TRUE /\ writes' = writes + 1
    /\ UNCHANGED <<srcRev, target, command, copying, met, upgraded, before>>

\* A newer release of the backend is started on the source, and migrates it.
UpgradeSource ==
    /\ ~live /\ writes < MaxWrites /\ srcRev # None
    /\ live' = TRUE /\ srcRev' = srcRev + 1
    /\ upgraded' = (upgraded \/ cmd = "migrate") /\ writes' = writes + 1
    /\ UNCHANGED <<src, target, command, copying, dirty, met, before>>

\* Another client inserts a row into the first table of the target; it would
\* wait for a key the transaction holds.
TargetWrite ==
    /\ tgtSchema >= Complete /\ writes < MaxWrites
    /\ \E p \in Keys \ (DOMAIN tgt[1] \cup DOMAIN tx[1]), v \in Values :
          LET Add(db) == [db EXCEPT ![1] = Put([k \in {p} |->
                  [up |-> None, peer |-> None, v |-> v, at |-> [hour |-> 0, utc |-> TRUE]]], @)]
          IN  /\ tgt' = Add(tgt) /\ before' = Add(before)
              /\ tx' = IF pc \in {"copy", "commit"} THEN Add(tx) ELSE tx
    /\ met' = TRUE /\ writes' = writes + 1
    /\ UNCHANGED <<source, tgtRev, tgtSchema, command, table, offset, deferred, counts, start,
                   dirty, upgraded>>

Next ==
    \/ /\ pc = "idle" /\ commands < MaxCommands
       /\ \E c \in {"validate", "migrate", "verify"}, f, b \in BOOLEAN, k \in {"none", "right", "wrong"} :
             Run(c, f, b, k)
    \/ Unreachable \/ CheckVersions \/ CheckKey \/ CheckEmpty \/ CheckSchemaAndDrift \/ CheckLiveness
    \/ CountSource \/ BeginTx \/ CopyPage \/ EndTable \/ Commit \/ Stamp
    \/ Crash
    \/ VerifyCounts \/ VerifySample \/ VerifyKey
    \/ StopBackend \/ SourceWrite \/ UpgradeSource \/ TargetWrite

Spec == Init /\ [][Next]_vars

-----------------------------------------------------------------------------
(* What must never go wrong.                                               *)

\* The same rows, their times known to be in UTC.
Copied(db) == [t \in Tables |-> [p \in DOMAIN db[t] |-> [db[t][p] EXCEPT !.at.utc = TRUE]]]

\* A migration is in the target as a whole or not at all, wherever it fails:
\* until it commits, the target is what it would be without it.
AllOrNothing ==
    (pc \in {"count", "begin", "copy", "commit"} \/ outcome \in {"refused", "failed", "broken"}) =>
        tgt = before

\* A migration that is done has made the target the source, every reference
\* of a row to its own table and every instant included, and kept nothing of
\* what was there; as long as nobody has written to either since.
FaithfulCopy ==
    (outcome = "done" /\ dirty = {} /\ ~met) => tgt = Copied(src)

\* The source may be written while it is read in pages.  Without a deletion
\* no row that was there at the count is missing from what was committed.
CopiesWhatStays ==
    (pc = "stamp" /\ "delete" \notin dirty) =>
        \A t \in Tables : DOMAIN start[t] \subseteq DOMAIN tgt[t]

\* A sound source is copied: the order of the tables and of the rows, rows
\* that refer to later ones, and what the target was seeded with do not stop
\* a migration that nobody disturbs.
SoundSourceIsCopied ==
    (outcome = "failed") =>
        dirty # {} \/ met \/ ~Sound(src)

\* Rows of the target only go when the operator gave both --force and
\* --i-have-a-backup, whoever wrote them and whenever.
OnlyForceOverwrites ==
    \A t \in Tables : \A p \in DOMAIN tgt[t] :
       (p \in DOMAIN tgt'[t] /\ tgt'[t][p] = tgt[t][p]) \/ (force /\ backup)

\* The target's alembic_version tells the schema it has, whatever step a
\* migration died at and whenever the source was upgraded; unless that was
\* while a migration ran, whose stamp is then wrong for good.
StampIsSchema == upgraded \/ tgtRev = tgtSchema

\* verify raises no false alarm: after a migration that is done, with the
\* right key and nobody writing, it passes.
NoFalseAlarm ==
    (verdict = "failed" /\ outcome = "done") =>
        \/ dirty # {} \/ met
        \/ \E t \in Tables : \E p \in DOMAIN tgt[t] : ~Decrypts(tgt[t][p])

\* verify misses nothing in a table no larger than its sample: it passes on
\* such a table only if both databases have the same rows, as long as nobody
\* writes while it looks.
SmallTablesAreCompared ==
    (verdict' = "passed" /\ verdict # "passed" /\ writes = begun) =>
       \A t \in Tables : Cardinality(DOMAIN src[t]) <= SampleSize =>
           /\ DOMAIN tgt[t] = DOMAIN src[t]
           /\ \A p \in DOMAIN src[t] : SameRow(src[t][p], tgt[t][p])

\* The target: all of a migration or nothing, the stamp of its schema, and no row
\* overwritten without both flags.
TargetIsSafe == [][(AllOrNothing /\ StampIsSchema)' /\ OnlyForceOverwrites]_vars

\* The shape of the state, and the copy: what a migration that is done has copied,
\* also from a source that was written, and that a sound source is copied.
CopyIsFaithful == TypeOK /\ FaithfulCopy /\ CopiesWhatStays /\ SoundSourceIsCopied

\* verify neither fails a good migration nor passes what it read in full and
\* differs.
VerifyTellsTruth == [][NoFalseAlarm' /\ SmallTablesAreCompared]_vars

-----------------------------------------------------------------------------
(* The inductive invariant these follow from.                              *)

Validating == pc \in {"versions", "key", "empty", "drift", "alive"}
Migrating  == pc \in {"count", "begin", "copy", "commit", "stamp"}
Verifying  == pc \in {"counts", "sample", "decrypt"}
Quiet      == dirty = {} /\ ~met

\* Which command is where; it has no result until it returns.
CommandFollowsControl ==
    /\ pc = "idle" => cmd = "none"
    /\ Validating => cmd \in {"validate", "migrate"}
    /\ Migrating => cmd = "migrate" /\ ~blockers
    /\ Verifying => cmd = "verify"
    /\ cmd = "migrate" => outcome = "none"
    /\ pc # "idle" => verdict = "none"

\* What a validation that has found no blocker knows at each of its steps,
\* and the migration after it.  Revisions only grow.
ChecksHold ==
    /\ tgtSchema <= tgtRev
    /\ (Validating /\ pc # "versions" /\ ~blockers) \/ Migrating =>
          tgtRev <= srcRev /\ (upgraded \/ cmd # "migrate" \/ tgtRev = srcRev)
    /\ (pc \in {"drift", "alive"} /\ ~blockers /\ ~met) \/ (pc \in {"count", "begin"} /\ ~met) =>
          Clears \/ \A t \in Tables : DOMAIN tgt[t] = {}
    /\ (pc = "alive" /\ ~blockers) \/ Migrating \/ outcome = "done" => tgtSchema >= Complete

\* What others did to the source since it was counted.
CountIsOfStart ==
    pc \in {"begin", "copy", "commit", "stamp"} =>
        /\ IsDatabase(start)
        /\ counts = [t \in Tables |-> Cardinality(DOMAIN start[t])]
        /\ dirty = {} => src = start
        /\ "delete" \notin dirty => \A t \in Tables : DOMAIN start[t] \subseteq DOMAIN src[t]

\* The keys the offset has passed, and the references left out so far.
Passed(D) == {p \in D : Rank(D, p) <= offset}
DeferredAreCopied ==
    pc = "copy" =>
        /\ deferred \in [DOMAIN deferred -> Nat]
        /\ DOMAIN deferred \subseteq DOMAIN tx[table]

\* Unless it was cleared, the transaction has every row of the target, as it is.
TargetIsKept ==
    pc \in {"copy", "commit"} /\ ~Clears =>
        /\ \A t \in Tables : \A p \in DOMAIN tgt[t] : p \in DOMAIN tx[t] /\ tx[t][p] = tgt[t][p]
        /\ pc = "copy" => DOMAIN deferred \cap DOMAIN tgt[table] = {}

\* The copy so far, undisturbed: the tables before this one as a whole, of this
\* one the keys passed, without their peers, and nothing of those after it.
CopySoFar ==
    /\ pc = "copy" /\ Quiet =>
          /\ \A t \in Tables : t < table => tx[t] = Copied(src)[t]
          /\ \A t \in Tables : t > table => DOMAIN tx[t] = {}
          /\ tx[table] = [p \in Passed(DOMAIN src[table]) |-> Inserted(src[table][p])]
          /\ DOMAIN deferred = {p \in DOMAIN tx[table] : src[table][p].peer # None}
          /\ \A p \in DOMAIN deferred : deferred[p] = src[table][p].peer
    /\ pc = "commit" /\ Quiet => tx = Copied(src)
    /\ pc = "stamp" \/ outcome = "done" => (Quiet => tgt = Copied(src))

\* And with rows written meanwhile, none of them deleted.
NothingIsMissed ==
    "delete" \notin dirty =>
        /\ pc = "copy" =>
              /\ \A t \in Tables : t < table => DOMAIN start[t] \subseteq DOMAIN tx[t]
              /\ \A p \in DOMAIN start[table] \cap Passed(DOMAIN src[table]) : p \in DOMAIN tx[table]
        /\ pc = "commit" => \A t \in Tables : DOMAIN start[t] \subseteq DOMAIN tx[t]
        /\ pc = "stamp" => \A t \in Tables : DOMAIN start[t] \subseteq DOMAIN tgt[t]

\* What a migration that has not committed, or did not, left behind.
TargetIsBefore ==
    (cmd = "migrate" /\ pc # "stamp") \/ outcome \in {"refused", "failed", "broken"} => tgt = before

\* What verify has seen so far, if nobody wrote: equal counts, then equal rows in
\* the tables it was through with.
Compared(t) ==
    Cardinality(DOMAIN src[t]) <= SampleSize =>
        /\ DOMAIN tgt[t] = DOMAIN src[t]
        /\ \A p \in DOMAIN src[t] : SameRow(src[t][p], tgt[t][p])
VerifiedSoFar ==
    /\ begun \in 0..writes
    /\ Verifying /\ begun = writes /\ ~faults =>
          /\ pc # "counts" => \A t \in Tables : Cardinality(DOMAIN src[t]) = Cardinality(DOMAIN tgt[t])
          /\ pc = "sample" => \A t \in Tables : t < table => Compared(t)
          /\ pc = "decrypt" => \A t \in Tables : Compared(t)
    /\ (Verifying /\ outcome = "done" /\ Quiet) \/ pc = "counts" => ~faults

MigrationIInv ==
    /\ TypeOK /\ CommandFollowsControl /\ ChecksHold
    /\ CountIsOfStart /\ DeferredAreCopied /\ TargetIsKept /\ CopySoFar /\ NothingIsMissed
    /\ TargetIsBefore /\ VerifiedSoFar
    /\ StampIsSchema /\ SoundSourceIsCopied /\ NoFalseAlarm
=============================================================================
