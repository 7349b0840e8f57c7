----------------------------- MODULE StepInput -----------------------------
(***************************************************************************)
(* What the jobs of a DML step are made of: the files a step's pattern     *)
(* finds on its storage, or the file an earlier step exported in the same  *)
(* run; the partitions they are cut into; and the partitions of a retry,   *)
(* rebuilt from the result files of the jobs that failed or, for a job     *)
(* without any, from the source files once more.  LoadRun and RetryRun say *)
(* how jobs are scheduled; here a job only has the rows it carries and the *)
(* outcome Salesforce gave each of them.                                   *)
(*                                                                         *)
(* A row is a number and keeps it wherever it goes.  The jobs of a run end *)
(* in any order, also after the run was aborted.                           *)
(***************************************************************************)
EXTENDS Naturals, Sequences, FiniteSets, SequencesExt

CONSTANTS
    Paths,          \* the paths of the storage, in the order sorted() gives
    Dirs,           \* what the storage may hold: each path absent or its rows
    Csv,            \* the names that end in .csv
    Hidden,         \* the names that begin with a dot
    NameMatches,    \* fnmatch: <<name, segment of a pattern>>
    Pattern,        \* the step's csv_file_pattern, as segments
    DefaultSize,    \* the setting default_partition_size
    Sizes,          \* values of step.partition_size; NoSize is NULL
    Exports,        \* what the upstream step's JobRecord may say
    Outputs,        \* the plan's output connection: "none", or its bucket
    Patterns,       \* patterns the glob matcher is compared on
    KeysPerPage,    \* what S3 answers at once when it is asked for a listing
    MaxEvents       \* bound: runs of the step, the retries included, and the
                    \* losses and edits around them

NoSize == 0
Absent == <<0>>     \* the content of a path with no file
All    == "**"

ASSUME SizesAreNumbers ==
    /\ {DefaultSize, KeysPerPage, MaxEvents} \subseteq Nat \ {0}
    /\ Sizes \subseteq Nat
ASSUME PathsAreSegments ==
    /\ Len(Paths) \in Nat /\ DOMAIN Paths = 1..Len(Paths)
    /\ \A i \in DOMAIN Paths : Paths[i] # <<>>

\* A plan need not have an output connection.
ASSUME OutputIsOptional == "none" \in Outputs

\* Every row of the storage, and of an export, is a row of its own.
ASSUME RowsAreDistinct ==
    /\ Dirs # {} /\ Dirs \subseteq [DOMAIN Paths -> Seq(Nat)]
    /\ \A d \in Dirs : \A i, k \in {f \in DOMAIN Paths : d[f] # Absent} :
          \A p \in DOMAIN d[i], q \in DOMAIN d[k] : d[i][p] = d[k][q] => i = k /\ p = q
    /\ Exports # {}
    /\ \A e \in Exports : e.rows \in Seq(Nat) /\ IsInjective(e.rows)

VARIABLES
    mode,       \* settings.input_storage_mode: what the default storage is
    source,     \* step.input_connection_id: the default, a connection, or one
                \* that is no longer there
    dir,        \* the files of the step's storage
    size,       \* step.partition_size
    chained,    \* step.input_from_step_id is set, and the pattern is NULL
    export,     \* run -> the upstream step's JobRecord in that run
    output,     \* plan.output_connection_id, as its bucket
    runs,       \* the runs of the step, oldest first
    changes,    \* counts the edits of files, sizes and connections
    upsets      \* history: what happened that a retry cannot make up for

settings == <<mode, source, dir, size, chained, export, output, changes>>
inputVars == <<settings, runs, upsets>>

\* The elements of s that stand at the positions in at.
Picked(s, at) == FlattenSeq([i \in DOMAIN s |-> IF i \in at THEN <<s[i]>> ELSE <<>>])

-----------------------------------------------------------------------------
(* Finding files.                                                          *)

\* get_storage: without a connection the mode decides, a connection is S3.
Provider == IF source = "default" THEN mode ELSE "s3"

\* Each segment of the pattern takes one of the path, ** any number: the path
\* from segment i on fits the pattern from segment k on.
GlobMatch(path, pat) ==
    LET fits[i \in 1..Len(path) + 1, k \in 1..Len(pat) + 1] ==
            IF k > Len(pat) THEN i > Len(path)
            ELSE IF pat[k] = All THEN \E h \in i..Len(path) + 1 : fits[h, k + 1]
            ELSE i <= Len(path) /\ <<path[i], pat[k]>> \in NameMatches /\ fits[i + 1, k + 1]
    IN  fits[1, 1]

IsCsv(path) == Last(path) \in Csv

\* The two storages agree but for files of other types: only S3 leaves them.
DiscoverFiles(d) ==
    LET found == {i \in DOMAIN Paths :
                    /\ d[i] # Absent
                    /\ Provider = "s3" => IsCsv(Paths[i])
                    /\ GlobMatch(Paths[i], Pattern)}
    IN  Picked([i \in DOMAIN Paths |-> i], found)

\* What the file browser lists in a folder: its folders and its CSV files.
ListEntries(d, folder) ==
    LET Below == {i \in DOMAIN Paths :
                    /\ d[i] # Absent
                    /\ Len(Paths[i]) > Len(folder) /\ IsPrefix(folder, Paths[i])}
        Name(i) == Paths[i][Len(folder) + 1]
        IsFile(i) == Len(Paths[i]) = Len(folder) + 1
    IN  [directories |-> {Name(i) : i \in {k \in Below : ~IsFile(k)}} \ Hidden,
         files |-> {Name(i) : i \in {k \in Below : IsFile(k) /\ IsCsv(Paths[k])}} \ Hidden]

\* One page of a file.  Filtered, the whole file is scanned and counted;
\* otherwise one row more than the page is read.
PreviewFile(rows, limit, offset, filter) ==
    IF filter # {}
    THEN LET Scan(acc, row) ==
                 IF row \notin filter THEN acc
                 ELSE [page |-> IF acc.count >= offset /\ Len(acc.page) < limit
                                THEN Append(acc.page, row) ELSE acc.page,
                       count |-> acc.count + 1]
             End == FoldLeft(Scan, [page |-> <<>>, count |-> 0], rows)
         IN  [rows |-> End.page, hasNext |-> End.count > offset + limit]
    ELSE LET buffer == SubSeq(rows, offset + 1, Min({offset + limit + 1, Len(rows)}))
         IN  [rows |-> SubSeq(buffer, 1, Min({limit, Len(buffer)})),
              hasNext |-> Len(buffer) > limit]

-----------------------------------------------------------------------------
(* Cutting rows into partitions.                                           *)

\* The partitions so far and the rows in the buffer, after each row of a file.
Buffered(rows, n) ==
    LET at[k \in 0..Len(rows)] ==
            IF k = 0 THEN [out |-> <<>>, buf |-> <<>>]
            ELSE LET buf == Append(at[k - 1].buf, rows[k]) IN
                 IF Len(buf) = n THEN [out |-> Append(at[k - 1].out, buf), buf |-> <<>>]
                 ELSE [out |-> at[k - 1].out, buf |-> buf]
    IN  at

\* Mutant: the rows left in the buffer at the end of a file are not emitted.
PartitionCsvNoTail(rows, n) == Buffered(rows, n)[Len(rows)].out

\* partition_csv: rows are buffered, a full buffer is a partition, and so is
\* what is left of it at the end of the file.
PartitionCsv(rows, n) ==
    LET end == Buffered(rows, n)[Len(rows)]
    IN  IF end.buf = <<>> THEN end.out ELSE Append(end.out, end.buf)

\* The partitions of several files: each file begins a partition of its own.
PartitionFiles(contents, n) ==
    FlattenSeq([i \in DOMAIN contents |-> PartitionCsv(contents[i], n)])

EffectiveSize == IF size = NoSize THEN DefaultSize ELSE size

\* What the step would read now.
SourceNow == LET found == DiscoverFiles(dir) IN [i \in DOMAIN found |-> dir[found[i]]]

\* What S3 answers for the keys below a prefix, up to the next slash: a folder
\* once, however many keys it has, and the keys themselves.
S3Items(d, folder) ==
    LET Below(i) == d[i] # Absent /\ Len(Paths[i]) > Len(folder) /\ IsPrefix(folder, Paths[i])
        Item(i) == [name |-> Paths[i][Len(folder) + 1],
                    dir |-> Len(Paths[i]) > Len(folder) + 1, csv |-> IsCsv(Paths[i])]
        Add(acc, i) == IF Item(i).dir /\ \E k \in DOMAIN acc : acc[k].dir /\ acc[k].name = Item(i).name
                       THEN acc ELSE Append(acc, Item(i))
    IN  FoldLeft(Add, <<>>, SelectSeq([i \in DOMAIN Paths |-> i], Below))

S3Page(items, from) == SubSeq(items, from + 1, Min({from + KeysPerPage, Len(items)}))

\* Mutant: the continuation token is not followed.
S3EntriesFirstPage(d, folder) ==
    LET items == Range(S3Page(S3Items(d, folder), 0))
    IN  [directories |-> {e.name : e \in {x \in items : x.dir}} \ Hidden,
         files |-> {e.name : e \in {x \in items : ~x.dir /\ x.csv}} \ Hidden]

\* The listing of the same folder on S3, collected page after page.
S3Entries(d, folder) ==
    LET found == S3Items(d, folder)
        items == UNION {Range(S3Page(found, k * KeysPerPage)) : k \in 0..Len(found)}
    IN  [directories |-> {e.name : e \in {x \in items : x.dir}} \ Hidden,
         files |-> {e.name : e \in {x \in items : ~x.dir /\ x.csv}} \ Hidden]

\* preview_step: the number of rows a run of the step would read now.
PreviewStep == FoldLeft(LAMBDA n, f : n + Len(f), 0, SourceNow)

-----------------------------------------------------------------------------
(* Runs, jobs and their outcomes.                                          *)

\* A JobRecord with its rows: ok and bad are the positions Salesforce loaded
\* and rejected, files the result files the record names, gone those of them
\* that are no longer in the output storage.
Pending(rows) ==
    [rows |-> rows, status |-> "pending", ok |-> {}, bad |-> {}, files |-> {}, gone |-> {}]

PendingJobs(parts) == [i \in DOMAIN parts |-> Pending(parts[i])]

Positions(j) == DOMAIN j.rows
Left(j)      == Positions(j) \ (j.ok \cup j.bad)
ResultFiles  == {"errors", "unprocessed"}

\* The jobs of a run that are still under way, and whether LoadRun.status is terminal:
\* an aborted run has that status while its jobs go on ("aborted"), until the last of them
\* has ended ("done").
Live(r)     == {i \in DOMAIN runs[r].jobs : runs[r].jobs[i].status = "pending"}
Terminal(r) == runs[r].st \in {"aborted", "done", "failed"}

\* The runs, the upsets that are not themselves retries and the edits so far;
\* each kind of upset happens once.
Budget == Len(runs) + Cardinality(upsets \cap {"unknown", "lost", "stuck"}) + changes

Upset(what) ==
    /\ what \cap upsets = {}
    /\ upsets' = upsets \cup what

RunStates == {"pending", "reading", "loading", "aborted", "done", "failed"}

InputTypeOK ==
    /\ mode \in {"local", "s3"} /\ source \in {"default", "connection", "missing"}
    /\ dir \in Dirs /\ size \in Sizes
    /\ chained \in BOOLEAN /\ export \in [0..1 -> Exports] /\ output \in Outputs
    /\ Len(runs) \in 1..MaxEvents
    /\ \A r \in DOMAIN runs :
          /\ runs[r].of \in 0..(r - 1)
          /\ runs[r].st \in RunStates
          /\ \A i \in DOMAIN runs[r].jobs :
                LET j == runs[r].jobs[i] IN
                /\ j.status \in {"pending", "job_complete", "failed", "stuck"}
                /\ j.ok \subseteq Positions(j) /\ j.bad \subseteq Positions(j) \ j.ok
                /\ j.gone \subseteq j.files /\ j.files \subseteq ResultFiles
    /\ upsets \subseteq {"unknown", "lost", "stuck", "doubled", "moved", "early"}

NewRun(parent, st, cap, jobs) ==
    [of |-> parent, st |-> st, paths |-> <<>>, src |-> <<>>, cap |-> cap, jobs |-> jobs]

AnyOf(S) == CHOOSE x \in S : TRUE

\* A step reads files or another step's export.  What does not matter to the
\* kind it is has one value.
InputInit ==
    /\ chained \in BOOLEAN
    /\ IF chained
       THEN /\ mode = "local" /\ source = "default" /\ dir = AnyOf(Dirs)
            /\ export \in {e \in [0..1 -> Exports] : e[0] = AnyOf(Exports)}
            /\ output \in Outputs
       ELSE /\ mode \in {"local", "s3"}
            /\ source \in IF mode = "s3" THEN {"default"} ELSE {"default", "connection", "missing"}
            /\ dir \in Dirs
            /\ export = [r \in 0..1 |-> AnyOf(Exports)] /\ output = "none"
    /\ size \in Sizes
    /\ runs = <<NewRun(0, "pending", 0, <<>>)>>
    /\ changes = 0
    /\ upsets = {}

-----------------------------------------------------------------------------
(* A full run of the step.                                                 *)

\* resolve_step_input takes the record of this run at partition 0.
UpstreamRecord(r) == export[r]

\* The record names a file, and a plan with an output connection still has
\* the bucket the file was written to.
Resolves(e) ==
    /\ e.ref \notin {"norecord", "null"}
    /\ output # "none" => e.ref = output

\* The storage is resolved and searched; the step then awaits a setting
\* before it reads.  Without files it is skipped.
Discover(r) ==
    /\ runs[r].st = "pending"
    /\ LET found == DiscoverFiles(dir) IN
       runs' = IF chained
               THEN [runs EXCEPT ![r].st = IF Resolves(UpstreamRecord(r)) THEN "reading" ELSE "failed"]
               ELSE IF source = "missing" THEN [runs EXCEPT ![r].st = "failed"]
               ELSE [runs EXCEPT ![r].paths = found,
                                 ![r].st = IF found = <<>> THEN "done" ELSE "reading"]
    /\ UNCHANGED <<settings, upsets>>

\* All files are read and cut at once; a file that has gone fails the step,
\* and files without rows are a step without jobs.
ReadPartitions(r) ==
    /\ runs[r].st = "reading"
    /\ LET src == IF chained THEN <<UpstreamRecord(r).rows>>
                  ELSE [i \in DOMAIN runs[r].paths |-> dir[runs[r].paths[i]]]
           parts == PartitionFiles(src, EffectiveSize)
       IN  runs' = IF Absent \in Range(src)
                   THEN [runs EXCEPT ![r].st = "failed"]
                   ELSE [runs EXCEPT ![r].st = IF parts = <<>> THEN "done" ELSE "loading",
                                     ![r].src = src, ![r].cap = EffectiveSize,
                                     ![r].jobs = PendingJobs(parts)]
    /\ UNCHANGED <<settings, upsets>>

\* A job of the run is replaced; with the last one the run is done.
Finish(r, i, j) ==
    runs' = [runs EXCEPT ![r].jobs[i] = j,
                         ![r].st = IF Live(r) = {i} THEN "done" ELSE @]

\* The run is aborted while its jobs are under way: the ones that wait will not begin,
\* the others go on.  An abort of before there are jobs either keeps the step from
\* running or is seen by them, as one that comes right after.
AbortRun(r) ==
    /\ runs[r].st = "loading"
    /\ runs' = [runs EXCEPT ![r].st = "aborted"]
    /\ UNCHANGED <<settings, upsets>>

\* The job was skipped, or could not be created, filled or closed: nothing was loaded.
JobNeverRan(r) ==
    /\ \E i \in Live(r) : Finish(r, i, [runs[r].jobs[i] EXCEPT !.status = "failed"])
    /\ UNCHANGED <<settings, upsets>>

\* Polling failed or reached its limit, or the coroutine raised: Salesforce
\* loaded some rows and the record names no file.
JobOutcomeUnknown(r) ==
    /\ \E i \in Live(r) :
       LET j == runs[r].jobs[i] IN
       \E ok \in SUBSET Positions(j) \ {{}} :
          Finish(r, i, [j EXCEPT !.status = "failed", !.ok = ok])
    /\ Budget < MaxEvents /\ Upset({"unknown"})
    /\ UNCHANGED settings

\* The coroutine died with its process or was cancelled with its task, and neither
\* handler nor abort endpoint wrote the row: it stays unfinished for ever, in a
\* run that is marked aborted.
JobStuck(r) ==
    /\ \E i \in Live(r) :
       LET j == runs[r].jobs[i] IN
       \E ok \in SUBSET Positions(j) :
          Finish(r, i, [j EXCEPT !.status = "stuck", !.ok = ok])
    /\ Budget < MaxEvents /\ Upset({"stuck"})
    /\ UNCHANGED settings

\* The job ended at Salesforce and its results were fetched; a file without
\* rows still has its header.  Each of the two may fail to arrive or to be
\* written by itself.  A job that did not complete, failed or aborted alike,
\* left rows unprocessed.
JobEnds(r) ==
    /\ \E i \in Live(r) :
       LET j == runs[r].jobs[i] IN
       \E ok \in SUBSET Positions(j), files \in SUBSET ResultFiles :
       \E bad \in SUBSET (Positions(j) \ ok) :
          LET status == IF ok \cup bad = Positions(j) THEN "job_complete" ELSE "failed" IN
          /\ Finish(r, i, [j EXCEPT !.status = status, !.ok = ok, !.bad = bad, !.files = files])
          /\ IF files = ResultFiles THEN UNCHANGED upsets
             ELSE Budget < MaxEvents /\ Upset({"lost"})
    /\ UNCHANGED settings

-----------------------------------------------------------------------------
(* The retry of a step: prepare_retry_step and build_retry_partitions.     *)

Retryable(j) == j.status = "failed" \/ j.files # {}

\* Mutant: the unprocessed rows are read only when there is no error file.
ResultRowsEither(j) ==
    IF "errors" \in j.files \ j.gone THEN Picked(j.rows, j.bad)
    ELSE IF "unprocessed" \in j.files \ j.gone THEN Picked(j.rows, Left(j)) ELSE <<>>

\* What Track A finds in the result files of a job that has any.
ResultRows(j) ==
    (IF "errors" \in j.files \ j.gone THEN Picked(j.rows, j.bad) ELSE <<>>)
    \o (IF "unprocessed" \in j.files \ j.gone THEN Picked(j.rows, Left(j)) ELSE <<>>)

\* The rows of all such jobs are pooled and cut again.
TrackA(r) ==
    LET jobs == runs[r].jobs
    IN  PartitionCsv(FlattenSeq([i \in DOMAIN jobs |-> ResultRows(jobs[i])]), size)

\* Mutant: a job with result files gets its whole partition as well.
TrackBOfAll(r, seen) ==
    {i \in DOMAIN runs[r].jobs : Retryable(runs[r].jobs[i])} \cup seen

\* The jobs without result files: those that failed, and those under way whose rows
\* the abort has set.
TrackBIndexes(r, seen) ==
    {i \in DOMAIN runs[r].jobs : Retryable(runs[r].jobs[i]) /\ runs[r].jobs[i].files = {}} \cup seen

\* Each gets the partition that has its index now.
TrackB(r, seen) == Picked(PartitionFiles(SourceNow, size), TrackBIndexes(r, seen))

\* Another partition may have that index: the source or the size is another,
\* or the job was one of a retry, which numbers its partitions anew.
Moved(r, seen) ==
    /\ TrackBIndexes(r, seen) # {}
    /\ \/ runs[r].of # 0
       \/ runs[r].src # SourceNow \/ runs[r].cap # size

Retried(r) == \E k \in DOMAIN runs : runs[k].of = r

\* Refused unless the run's status is terminal, and when there is nothing to send.  The
\* jobs are not asked: of those still under way, the ones whose row reads aborted at
\* the time are sent again, and Salesforce is asked to abort them, which may come too late.
\* What was read may be old when the run is committed, but nothing looks at the order of
\* the two.  Without a size of the step's own nothing can be cut, and without a pattern or
\* a connection no file can be searched: the request fails with an exception.
RetryStep(r) ==
    /\ Terminal(r) /\ Budget < MaxEvents
    /\ size # NoSize
    /\ \E seen \in SUBSET Live(r) :
          /\ TrackBIndexes(r, seen) # {} => ~chained /\ source # "missing"
          /\ LET parts == TrackA(r) \o TrackB(r, seen) IN
                /\ parts # <<>>
                /\ runs' = Append(runs, NewRun(r, "loading", size, PendingJobs(parts)))
          /\ Upset((IF Retried(r) THEN {"doubled"} ELSE {}) \cup (IF Moved(r, seen) THEN {"moved"} ELSE {})
                   \cup (IF Live(r) # {} THEN {"early"} ELSE {}))
    /\ UNCHANGED settings

-----------------------------------------------------------------------------
(* What changes around the runs.                                           *)

\* While jobs run nothing looks at these.
Change ==
    /\ Budget < MaxEvents
    /\ changes' = changes + 1
    /\ runs[1].st # "pending" /\ runs[Len(runs)].st # "loading"

\* Somebody edits the source files.
EditFiles ==
    /\ ~chained /\ Change
    /\ dir' \in Dirs \ {dir}
    /\ UNCHANGED <<mode, source, size, chained, export, output, runs, upsets>>

\* The step is updated with another partition size.
Resize ==
    /\ Change
    /\ size' \in Sizes \ {size}
    /\ UNCHANGED <<mode, source, dir, chained, export, output, runs, upsets>>

\* The connection of the step is deleted.
DeleteConnection ==
    /\ source = "connection" /\ Change
    /\ source' = "missing"
    /\ UNCHANGED <<mode, dir, size, chained, export, output, runs, upsets>>

\* A result file is removed from the output storage.
LoseResultFile(r) ==
    /\ Terminal(r) /\ ~Retried(r)
    /\ \E i \in DOMAIN runs[r].jobs :
       \E f \in runs[r].jobs[i].files :
          runs' = [runs EXCEPT ![r].jobs[i].gone = @ \cup {f}]
    /\ Budget < MaxEvents /\ Upset({"lost"})
    /\ UNCHANGED settings

InputNext ==
    \/ \E r \in DOMAIN runs :
          \/ Discover(r) \/ ReadPartitions(r)
          \/ AbortRun(r) \/ JobNeverRan(r) \/ JobOutcomeUnknown(r) \/ JobStuck(r) \/ JobEnds(r)
          \/ RetryStep(r) \/ LoseResultFile(r)
    \/ EditFiles \/ Resize \/ DeleteConnection

InputSpec == InputInit /\ [][InputNext]_inputVars

-----------------------------------------------------------------------------
(* What must never go wrong.                                               *)

RowsOf(jobs) == [i \in DOMAIN jobs |-> jobs[i].rows]
Rows(jobs) == FlattenSeq(RowsOf(jobs))
RowsRead(r) == Range(FlattenSeq(runs[r].src))

\* The jobs of a full run carry every row that was read, once and in order;
\* no partition mixes files, is empty or is larger than the size, and only the
\* last of a file is smaller.
PartitionsCoverSource ==
    \A r \in DOMAIN runs : (runs[r].of = 0 /\ runs[r].jobs # <<>>) =>
        LET src == runs[r].src  jobs == runs[r].jobs  cap == runs[r].cap IN
        /\ Rows(jobs) = FlattenSeq(src)
        /\ \A i \in DOMAIN jobs :
              /\ Len(jobs[i].rows) \in 1..cap
              /\ \E f \in DOMAIN src :
                    /\ Range(jobs[i].rows) \subseteq Range(src[f])
                    /\ Len(jobs[i].rows) = cap \/ Last(jobs[i].rows) = Last(src[f])

\* A retry is only created with something to send, and keeps to the size the
\* step has when it is made.
RetryHasWork ==
    \A r \in DOMAIN runs : runs[r].of # 0 =>
        /\ runs[r].jobs # <<>>
        /\ \A i \in DOMAIN runs[r].jobs : Len(runs[r].jobs[i].rows) \in 1..runs[r].cap

\* Where Salesforce loaded a row, over the run and all its retries: the run, the
\* job and the position in it.
Loads(row) ==
    UNION {UNION {{<<r, i, p>> : p \in
        {p \in runs[r].jobs[i].ok : runs[r].jobs[i].rows[p] = row}} :
            i \in DOMAIN runs[r].jobs} : r \in DOMAIN runs}

\* No row is loaded twice by a run and its retries, and the retries of those:
\* as long as the results of every job were kept, no run was retried twice or
\* while its jobs went on, and no job without results met a source, a size or
\* a numbering that had changed under it.
NoRowTwice ==
    (upsets = {}) => \A r \in DOMAIN runs : \A row \in Range(Rows(runs[r].jobs)) : Cardinality(Loads(row)) <= 1

\* A row still has a way into Salesforce: a job that has yet to end carries
\* it, or a job that can be retried, of a run nobody retried, did not load it.
Carried(row) ==
    \E r \in DOMAIN runs : \E i \in DOMAIN runs[r].jobs :
        LET j == runs[r].jobs[i] IN
        /\ j.status = "pending" \/ (Retryable(j) /\ ~Retried(r))
        /\ \E p \in Positions(j) \ j.ok : j.rows[p] = row

\* No row that was read is forgotten: it is loaded or still has a way, through
\* any number of retries and after an abort, unless its result file was lost,
\* its partition could not be found again, its job's record stayed unfinished
\* or the retry was made while its job went on.  A job of unknown outcome and a
\* double retry forget nothing.
NoRowForgotten ==
    (upsets \cap {"lost", "moved", "stuck", "early"} = {}) =>
        \A r \in DOMAIN runs : \A row \in RowsRead(r) :
            runs[r].jobs # <<>> => Loads(row) # {} \/ Carried(row)

\* The rows of a chained step are those its upstream step exported in the
\* same run, never those of another run of the plan.
ChainedReadsOwnExport ==
    chained => \A r \in DOMAIN runs :
        Range(Rows(runs[r].jobs)) \subseteq Range(export[1].rows)

\* The next three are of the storage alone: they are looked at, for each of its
\* states, before the step begins.
NotBegun == runs[1].st = "pending"

\* The matcher of S3 keys, which must find what a local glob finds: a path
\* matches when widths can be given to the segments, one to a plain segment
\* and any to a **, that fill it.
GlobIsAnExpansion ==
    NotBegun => \A i \in DOMAIN Paths : \A pat \in Patterns :
        LET path == Paths[i]
            Widths == {w \in [DOMAIN pat -> 0..Len(path)] :
                          \A k \in DOMAIN pat : pat[k] = All \/ w[k] = 1}
            Upto(w, k) == FoldLeft(LAMBDA a, b : a + b, 0, SubSeq([m \in DOMAIN pat |-> w[m]], 1, k))
        IN  GlobMatch(path, pat) <=>
                \E w \in Widths :
                    /\ Upto(w, Len(pat)) = Len(path)
                    /\ \A k \in DOMAIN pat :
                          pat[k] = All \/ <<path[Upto(w, k)], pat[k]>> \in NameMatches

\* A page is the window of the matching rows it was asked for, and says that
\* there is another exactly when rows come after it.
PreviewIsAWindow ==
    NotBegun => \A i \in DOMAIN dir : dir[i] # Absent =>
        \A limit \in 1..3, offset \in 0..4, filter \in {{}, {1, 3}, {2}, {9}} :
            LET matching == SelectSeq(dir[i], LAMBDA row : filter = {} \/ row \in filter)
                page == PreviewFile(dir[i], limit, offset, filter)
            IN  /\ page.rows = SubSeq(matching, offset + 1, Min({offset + limit, Len(matching)}))
                /\ page.hasNext <=> offset + limit < Len(matching)

\* The browser leads to every CSV file that a run would read: its folders are
\* listed one in the other, and it is listed in the last, unless a name on
\* the way is hidden.
BrowsingFindsInputs ==
    NotBegun => \A i \in Range(DiscoverFiles(dir)) :
        (IsCsv(Paths[i]) /\ Range(Paths[i]) \cap Hidden = {}) =>
            \A k \in DOMAIN Paths[i] :
                LET listed == ListEntries(dir, SubSeq(Paths[i], 1, k - 1))
                IN  Paths[i][k] \in IF k = Len(Paths[i]) THEN listed.files ELSE listed.directories

\* The two storages list a folder alike, in however many pages S3 answers.
ListingsAgree ==
    NotBegun => \A folder \in {<<>>} \cup {SubSeq(Paths[i], 1, Len(Paths[i]) - 1) : i \in DOMAIN Paths} :
        S3Entries(dir, folder) = ListEntries(dir, folder)

\* The rows a preview of the step announces are those the jobs of a run carry,
\* as long as the files are still those the run read.
PreviewTellsRun ==
    (~chained /\ source # "missing" /\ Len(runs) = 1 /\ runs[1].jobs # <<>>) =>
        (runs[1].src = SourceNow => PreviewStep = Len(Rows(runs[1].jobs)))

\* The shape of the state, and what jobs are made of: a full run carries its source,
\* a retry has work, a chained step reads what its own run exported.
JobsCarrySource == InputTypeOK /\ PartitionsCoverSource /\ RetryHasWork /\ ChainedReadsOwnExport

\* What a user is shown of the input is what a run reads: matching, browsing,
\* listing in pages and the previews.
ViewsAgree == GlobIsAnExpansion /\ PreviewIsAWindow /\ BrowsingFindsInputs /\ ListingsAgree /\ PreviewTellsRun

-----------------------------------------------------------------------------
(* The inductive invariant the first three follow from.                    *)

JobRecord ==
    [rows : Seq(Nat), status : {"pending", "job_complete", "failed", "stuck"},
     ok : SUBSET Nat, bad : SUBSET Nat, files : SUBSET ResultFiles, gone : SUBSET ResultFiles]
RunRecord ==
    [of : Nat, st : RunStates,
     paths : Seq(DOMAIN Paths), src : Seq(Seq(Nat)), cap : Nat, jobs : Seq(JobRecord)]

RecordsOK ==
    /\ runs \in Seq(RunRecord) /\ changes \in Nat /\ Budget <= MaxEvents

\* The first run reads the source, the others are retries of earlier ones whose
\* status was terminal.  A job under way has no results.
RunsFollowOrder ==
    /\ Len(runs) > 0 /\ runs[1].of = 0 /\ IsInjective(runs[1].paths)
    /\ \A r \in DOMAIN runs \ {1} :
          /\ runs[r].of \in 1..(r - 1) /\ Terminal(runs[r].of)
          /\ runs[r].st \in {"loading", "aborted", "done"} /\ runs[r].src = <<>>
JobsFollowOrder ==
    \A r \in DOMAIN runs :
        LET jobs == runs[r].jobs IN
        /\ runs[r].st \in {"pending", "reading", "failed"} => jobs = <<>>
        /\ runs[r].st \in {"loading", "aborted"} <=> Live(r) # {}
        /\ \A i \in Live(r) : jobs[i] = Pending(jobs[i].rows)

\* What the first run read, and the partitions it was cut into.
FirstRunIsSource ==
    LET run == runs[1] IN
    /\ chained => run.src \in {<<>>, <<export[1].rows>>}
    /\ run.jobs # <<>> =>
          /\ run.cap > 0 /\ IsInjective(FlattenSeq(run.src))
          /\ RowsOf(run.jobs) = PartitionFiles(run.src, run.cap)

\* The results of a job are kept or there are none, and then it loaded nothing.
ResultsAreKept ==
    \A r \in DOMAIN runs : \A i \in DOMAIN runs[r].jobs :
        LET j == runs[r].jobs[i] IN
        /\ "lost" \notin upsets =>
              /\ j.gone = {} /\ j.files \in {{}, ResultFiles}
              /\ j.files = {} => j.status # "job_complete"
        /\ "stuck" \notin upsets => j.status # "stuck"
        /\ (upsets \cap {"lost", "unknown", "stuck"} = {} /\ j.files = {}) => j.ok = {}

RetriesAreSingle == "doubled" \notin upsets => \A r \in DOMAIN runs : runs[r].of = r - 1
RetriedHaveEnded == "early" \notin upsets => \A r \in DOMAIN runs : Retried(r) => Live(r) = {}

\* A run has a row once.  A retry has only rows that none of the runs before it loaded.
NotLoaded(r, row) ==
    \E i \in DOMAIN runs[r].jobs :
        \E p \in Positions(runs[r].jobs[i]) \ runs[r].jobs[i].ok : runs[r].jobs[i].rows[p] = row
RowsDescend ==
    (upsets = {}) => \A s \in DOMAIN runs :
        /\ IsInjective(Rows(runs[s].jobs))
        /\ \A row \in Range(Rows(runs[s].jobs)) : \A r \in 1..(s - 1) : NotLoaded(r, row)

\* Every row of a job is loaded or still has a way.
RowsGoOn ==
    (upsets \cap {"lost", "moved", "stuck", "early"} = {}) =>
        \A r \in DOMAIN runs : \A row \in Range(Rows(runs[r].jobs)) :
            Loads(row) # {} \/ Carried(row)

InputIInv ==
    /\ InputTypeOK /\ RecordsOK /\ RunsFollowOrder /\ JobsFollowOrder
    /\ RetryHasWork /\ ChainedReadsOwnExport /\ FirstRunIsSource
    /\ ResultsAreKept /\ RetriesAreSingle /\ RetriedHaveEnded /\ RowsDescend /\ RowsGoOn
=============================================================================
