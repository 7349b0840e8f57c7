---------------------------- MODULE QueryExport ----------------------------
(***************************************************************************)
(* A query step: the Salesforce access token it runs with, the bulk query  *)
(* job it creates and polls, the result pages it streams, the output file  *)
(* it leaves behind and the job record that tells of it.                   *)
(*                                                                         *)
(* A request is answered well ("ok"), refused (4xx), put off (429, 5xx) or *)
(* its answer is lost; what is put off or lost is sent again, up to        *)
(* MaxRetries times.  A result page is a sequence of tokens: the header,   *)
(* the newline that ends it, and one token per row; it arrives in chunks.  *)
(***************************************************************************)
EXTENDS Naturals, Sequences, FiniteSets

CONSTANTS
    Callers,       \* who asks for a token of the connection at the same time
    Step,          \* the caller that is the run of the query step
    Backends,      \* the providers of the output storage: "local", "s3"
    MaxRetries,    \* _MAX_RETRIES
    Lifetime,      \* _TOKEN_LIFETIME_SECONDS
    Buffer,        \* _TOKEN_REFRESH_BUFFER_SECONDS
    MaxPoll,       \* sf_job_max_poll_seconds; 0 disables the cap
    MinPart,       \* _S3_MIN_PART_SIZE, in tokens
    Cached,        \* when a token cached before may expire; 0 for none
    Broken,        \* the rows that hold a line break, in quotes
    MaxPages, MaxRows, MaxTime,     \* bounds: pages, rows of a page, the clock
    MaxStore       \* bound: the UPDATE and the commit that store an answered token

ASSUME QueryExportAssumption ==
    /\ Step \in Callers /\ IsFiniteSet(Callers)
    /\ Backends \subseteq {"local", "s3"}
    /\ Cached \subseteq 0..Lifetime
    /\ Broken \subseteq (Nat \ {0}) \X Nat \X Nat
    /\ {MaxRetries, Lifetime, Buffer, MaxPoll, MaxRows, MaxTime, MaxStore} \subseteq Nat
    /\ {MinPart, MaxPages} \subseteq Nat \ {0}
    /\ Buffer < Lifetime

VARIABLES
    now,        \* the clock
    conn,       \* the token cached on the connection row: when it expires, 0 for none
    caller,     \* per caller: its place in get_access_token, the expiry it holds
    pc,         \* where the query step is
    attempt,    \* how often the current request was sent again
    sf,         \* the query jobs at Salesforce, in order of creation
    job,        \* the job whose id the step knows, 0 for none
    lost,       \* answers to create requests that were lost (history)
    began,      \* when polling began
    page, body, leftover, stripped,     \* the result page that is streamed
    out,        \* the writer and the file
    record      \* the JobRecord of the step

token == <<conn, caller>>
remote == <<sf, job, lost>>
stream == <<page, body, leftover, stripped>>
vars == <<now, token, pc, attempt, remote, began, stream, out, record>>

\* The parts of a result page; a file at the result's path is never empty.
Header == <<0, 0, 0>>
Newline == <<0, 0, 1>>
Row(j, p, i) == <<j, p, i>>
NoFile == <<>>
Terminal == {"JobComplete", "Failed", "Aborted"}
Clock == 0..(MaxTime + MaxPoll + 1)

\* What the query can return: the number of rows of each page.
Results == UNION {[1..n -> 0..MaxRows] : n \in 1..MaxPages}

Rows(j, p) == [i \in 1..sf[j].result[p] |-> Row(j, p, i)]

Init ==
    /\ now = 0
    /\ conn \in Cached
    /\ caller = [c \in Callers |-> [pc |-> "idle", expires |-> 0]]
    /\ pc = "preflight" /\ attempt = 0
    /\ sf = <<>> /\ job = 0 /\ lost = 0
    /\ began = 0
    /\ page = 1 /\ body = <<>> /\ leftover = <<>> /\ stripped = FALSE
    /\ out \in [backend : Backends, open : {FALSE}, data : {<<>>}, buffer : {<<>>},
                file : {NoFile}, orphan : {FALSE}]
    /\ record = [status |-> "pending", rows |-> 0, uri |-> FALSE]

---------------------------------------------------------------------------
(* The token of the connection.  Who else uses the connection is followed  *)
(* until the run has its own token; the row does not matter to it later.   *)

LoadConnection(c) ==
    /\ caller[c].pc = "idle"
    /\ caller' = [caller EXCEPT ![c] = [pc |-> "loaded", expires |-> conn]]
    /\ UNCHANGED <<now, conn, pc, attempt, remote, began, stream, out, record>>

\* Mutant: the token is used up to its last second.
TokenValid_NoBuffer(c) == caller[c].expires # 0 /\ now < caller[c].expires
TokenValid(c) == caller[c].expires # 0 /\ now + Buffer < caller[c].expires

\* The caller looks at the row it loaded, not at the one in the database.
ReuseToken(c) ==
    /\ caller[c].pc = "loaded" /\ TokenValid(c)
    /\ caller' = [caller EXCEPT ![c].pc = "holding"]
    /\ UNCHANGED <<now, conn, pc, attempt, remote, began, stream, out, record>>

ExchangeJwt(c) ==
    /\ caller[c].pc = "loaded" /\ ~TokenValid(c)
    /\ \/ caller' = [caller EXCEPT ![c] = [pc |-> "answered", expires |-> now + Lifetime]]
       \/ caller' = [caller EXCEPT ![c] = [pc |-> "refused", expires |-> 0]]
    /\ UNCHANGED <<now, conn, pc, attempt, remote, began, stream, out, record>>

\* The UPDATE is unconditional: the last caller wins.
StoreToken(c) ==
    /\ caller[c].pc = "answered"
    /\ conn' = caller[c].expires
    /\ caller' = [caller EXCEPT ![c].pc = "holding"]
    /\ UNCHANGED <<now, pc, attempt, remote, began, stream, out, record>>

TokenGood == now < caller[Step].expires

---------------------------------------------------------------------------
(* Requests that are sent again.                                           *)

Goto(l) ==
    /\ pc' = l
    /\ attempt' = 0

Exhausted == attempt = MaxRetries

\* No answer that counts: sent again, or given up at l.
TryAgain(l) ==
    IF Exhausted THEN Goto(l) ELSE /\ attempt' = attempt + 1
                                   /\ UNCHANGED pc

---------------------------------------------------------------------------
(* The SOQL preflight of the run only warns; then the run asks for the     *)
(* token again, by the row it has in memory.                               *)

CallersDone == \A c \in Callers : caller[c].pc \in {"holding", "refused"}

Preflight ==
    /\ pc = "preflight" /\ CallersDone
    /\ Goto(IF caller[Step].pc = "holding" THEN "explain" ELSE "explained")
    /\ UNCHANGED <<now, token, remote, began, stream, out, record>>

ExplainAnswered ==
    /\ pc = "explain"
    /\ Goto("explained")
    /\ UNCHANGED <<now, token, remote, began, stream, out, record>>

ExplainPutOff ==
    /\ pc = "explain"
    /\ TryAgain("explained")
    /\ UNCHANGED <<now, token, remote, began, stream, out, record>>

BeginRun ==
    /\ pc = "explained"
    /\ Goto("waiting")
    /\ caller' = [caller EXCEPT ![Step].pc = "loaded"]
    /\ UNCHANGED <<now, conn, remote, began, stream, out, record>>

BeginStep ==
    /\ pc = "waiting" /\ caller[Step].pc = "holding"
    /\ Goto("create")
    /\ record' = [record EXCEPT !.status = "in_progress"]
    /\ UNCHANGED <<now, token, remote, began, stream, out>>

---------------------------------------------------------------------------
(* Create the job and poll it.                                             *)

NewJob == [state |-> "InProgress", result |-> <<>>]

CreateJob ==
    /\ pc = "create" /\ TokenGood
    /\ sf' = Append(sf, NewJob)
    /\ job' = Len(sf')
    /\ began' = now
    /\ Goto("poll")
    /\ UNCHANGED <<now, token, lost, stream, out, record>>

\* Salesforce created the job and the answer was lost.
CreateLost ==
    /\ pc = "create" /\ TokenGood
    /\ sf' = Append(sf, NewJob)
    /\ lost' = lost + 1
    /\ TryAgain("failing")
    /\ UNCHANGED <<now, token, job, began, stream, out, record>>

PutOff ==
    /\ pc \in {"create", "poll"}
    /\ TryAgain("failing")
    /\ UNCHANGED <<now, token, remote, began, stream, out, record>>

Refused ==
    /\ pc \in {"create", "poll", "page"}
    /\ Goto(IF out.open THEN "discarding" ELSE "failing")
    /\ UNCHANGED <<now, token, remote, began, stream, out, record>>

\* Mutant: the cap on polling is forgotten.
PollTimedOut_Never == FALSE
PollTimedOut == MaxPoll > 0 /\ now >= began + MaxPoll

\* A job that is not done when the cap is reached goes on at Salesforce.
PollJob ==
    /\ pc = "poll" /\ TokenGood
    /\ Goto(IF sf[job].state = "JobComplete" THEN "opening"
            ELSE IF sf[job].state \in Terminal \/ PollTimedOut THEN "failing"
            ELSE "sleeping")
    /\ began' = IF pc' = "sleeping" THEN began ELSE 0
    /\ UNCHANGED <<now, token, remote, stream, out, record>>

Sleep ==
    /\ pc = "sleeping" /\ now + 1 \in Clock
    /\ now' = now + 1
    /\ Goto("poll")
    /\ UNCHANGED <<token, remote, began, stream, out, record>>

\* Salesforce is done with the job; what becomes of one the step does not know is left out.
JobAdvances ==
    /\ pc = "poll" /\ sf[job].state \notin Terminal
    /\ \/ \E r \in Results : sf' = [sf EXCEPT ![job] = [state |-> "JobComplete", result |-> r]]
       \/ \E s \in Terminal \ {"JobComplete"} : sf' = [sf EXCEPT ![job].state = s]
    /\ UNCHANGED <<now, token, pc, attempt, job, lost, began, stream, out, record>>

---------------------------------------------------------------------------
(* Stream the pages to the storage.                                        *)

\* The storage refuses, or S3 begins an upload whose id is lost with the answer.
OpenWriter ==
    /\ pc = "opening"
    /\ \/ /\ out' = [out EXCEPT !.open = TRUE]
          /\ Goto("page")
       \/ /\ \/ UNCHANGED out
             \/ /\ out.backend = "s3"
                /\ out' = [out EXCEPT !.orphan = TRUE]
          /\ Goto("failing")
    /\ UNCHANGED <<now, token, remote, began, stream, record>>

\* Only the last page may lack the newline after its header, if it has no rows.
LineEnds(p) ==
    IF sf[job].result[p] = 0 /\ p = Len(sf[job].result) THEN {<<>>, <<Newline>>} ELSE {<<Newline>>}

FetchPage ==
    /\ pc = "page" /\ TokenGood
    /\ \E newline \in LineEnds(page) : body' = <<Header>> \o newline \o Rows(job, page)
    /\ leftover' = <<>> /\ stripped' = FALSE
    /\ Goto("stream")
    /\ UNCHANGED <<now, token, remote, began, page, out, record>>

PagePutOff ==
    /\ pc = "page"
    /\ TryAgain("discarding")
    /\ UNCHANGED <<now, token, remote, began, stream, out, record>>

\* A lost connection is not tried again here: the rest of the page is gone.
StreamBreaks ==
    /\ pc \in {"page", "stream"}
    /\ Goto("discarding")
    /\ UNCHANGED <<now, token, remote, began, stream, out, record>>

\* A local file takes every chunk; S3 gets a part when the buffer is full.
Write(s) ==
    IF out.backend = "local" THEN [out EXCEPT !.data = @ \o s]
    ELSE IF Len(out.buffer \o s) >= MinPart
         THEN [out EXCEPT !.data = @ \o out.buffer \o s, !.buffer = <<>>]
         ELSE [out EXCEPT !.buffer = @ \o s]

AfterNewline(s) ==
    LET n == CHOOSE i \in 1..Len(s) : s[i] = Newline IN SubSeq(s, n + 1, Len(s))

HasNewline(s) == \E i \in 1..Len(s) : s[i] = Newline

\* Mutant: the search for the end of the header starts over in every chunk's own bytes,
\* and a chunk without a newline is taken for data.
StripHeader_PerChunk(chunk) ==
    IF page = 1 \/ stripped \/ ~HasNewline(chunk)
    THEN /\ out' = Write(chunk)
         /\ UNCHANGED <<leftover, stripped>>
    ELSE /\ out' = Write(AfterNewline(chunk))
         /\ stripped' = TRUE
         /\ UNCHANGED leftover
\* The first page is written as it is; of every other one what follows the newline.
StripHeader(chunk) ==
    IF page = 1 \/ stripped
    THEN /\ out' = Write(chunk)
         /\ UNCHANGED <<leftover, stripped>>
    ELSE IF HasNewline(leftover \o chunk)
    THEN /\ out' = Write(AfterNewline(leftover \o chunk))
         /\ stripped' = TRUE /\ leftover' = <<>>
    ELSE /\ leftover' = leftover \o chunk
         /\ UNCHANGED <<out, stripped>>

ReadChunk ==
    /\ pc = "stream" /\ body # <<>>
    /\ \E n \in 1..Len(body) :
          /\ StripHeader(SubSeq(body, 1, n))
          /\ body' = SubSeq(body, n + 1, Len(body))
    /\ UNCHANGED <<now, token, pc, attempt, remote, began, page, record>>

\* The locator of the answer names the next page, or none.
EndOfPage ==
    /\ pc = "stream" /\ body = <<>>
    /\ IF page < Len(sf[job].result) THEN page' = page + 1 /\ Goto("page")
                                     ELSE Goto("closing") /\ UNCHANGED page
    /\ UNCHANGED <<now, token, remote, began, body, leftover, stripped, out, record>>

Committed == out.data \o out.buffer

\* Rename the temporary file, or complete the multipart upload.
CloseWriter ==
    /\ pc = "closing"
    /\ out' = [out EXCEPT !.file = Committed, !.open = FALSE,
                          !.data = <<>>, !.buffer = <<>>]
    /\ Goto("counting")
    /\ UNCHANGED <<now, token, remote, began, stream, record>>

\* The storage refuses, or S3 completes the upload and the answer is lost.
CloseFails ==
    /\ pc = "closing"
    /\ \/ UNCHANGED out
       \/ /\ out.backend = "s3"
          /\ out' = [out EXCEPT !.file = Committed, !.data = <<>>, !.buffer = <<>>]
    /\ Goto("discarding")
    /\ UNCHANGED <<now, token, remote, began, stream, record>>

\* Mutant: what was written so far is kept, like a download that resumes.
Discarded_Kept(w) == [w EXCEPT !.open = FALSE, !.file = IF @ = NoFile THEN w.data ELSE @]
Discarded(w) == [w EXCEPT !.open = FALSE, !.data = <<>>, !.buffer = <<>>]

\* The temporary file or the multipart upload goes; a failure to remove it is ignored.
DiscardWriter ==
    /\ pc = "discarding"
    /\ \/ out' = Discarded(out)
       \/ out' = [out EXCEPT !.open = FALSE, !.orphan = TRUE]
    /\ Goto("failing")
    /\ UNCHANGED <<now, token, remote, began, stream, record>>

---------------------------------------------------------------------------
(* Tell.                                                                   *)

BrokenRows(s) == {i \in 1..Len(s) : s[i] \in Broken}

\* The lines that are not empty, less the header: a broken row is two of them.
CountRows(f) ==
    Cardinality({i \in 1..Len(f) : f[i] \notin {Header, Newline}}) + Cardinality(BrokenRows(f))

\* The lines are counted in the file read back; if that fails they are zero.
EndStep ==
    /\ pc = "counting"
    /\ \E n \in {CountRows(out.file), 0} :
          record' = [status |-> "job_complete", rows |-> n, uri |-> TRUE]
    /\ Goto("ended")
    /\ UNCHANGED <<now, token, remote, began, stream, out>>

FailStep ==
    /\ pc = "failing"
    /\ record' = [record EXCEPT !.status = "failed"]
    /\ Goto("ended")
    /\ page' = 1 /\ body' = <<>> /\ leftover' = <<>> /\ stripped' = FALSE /\ began' = 0
    /\ UNCHANGED <<now, token, remote, out>>

\* The process dies, with its memory; nobody takes the step up again.
Crash ==
    /\ pc \notin {"preflight", "waiting", "ended", "dead"}
    /\ Goto("dead")
    /\ page' = 1 /\ body' = <<>> /\ leftover' = <<>> /\ stripped' = FALSE /\ began' = 0
    /\ out' = [out EXCEPT !.buffer = <<>>]
    /\ UNCHANGED <<now, token, remote, record>>

\* Time passes, but not for longer than MaxStore while an answer is being stored.
Tick ==
    /\ now < MaxTime /\ pc # "dead" /\ pc # "ended"
    /\ \A c \in Callers : caller[c].pc = "answered" => now + Lifetime < caller[c].expires + MaxStore
    /\ now' = now + 1
    /\ UNCHANGED <<token, pc, attempt, remote, began, stream, out, record>>

---------------------------------------------------------------------------
GetAccessToken(c) == LoadConnection(c) \/ ReuseToken(c) \/ ExchangeJwt(c) \/ StoreToken(c)

QueryStep ==
    \/ Preflight \/ ExplainAnswered \/ ExplainPutOff \/ BeginRun \/ BeginStep
    \/ CreateJob \/ CreateLost \/ PutOff \/ Refused \/ PollJob \/ Sleep
    \/ OpenWriter \/ FetchPage \/ PagePutOff \/ StreamBreaks \/ ReadChunk \/ EndOfPage
    \/ CloseWriter \/ CloseFails \/ DiscardWriter \/ EndStep \/ FailStep

Next ==
    \/ \E c \in Callers : GetAccessToken(c)
    \/ QueryStep
    \/ JobAdvances
    \/ Crash
    \/ Tick

\* The event loop runs the step on; Salesforce owes nothing.
Spec == Init /\ [][Next]_vars /\ WF_vars(QueryStep)

---------------------------------------------------------------------------
(* Properties.                                                             *)

Places == {"preflight", "explain", "explained", "waiting", "create", "poll", "sleeping", "opening", "page",
           "stream", "closing", "discarding", "counting", "failing", "ended", "dead"}

Expiry == 0..(Lifetime + MaxTime)
Calls == {"idle", "loaded", "answered", "holding", "refused"}
Part == Nat \X Nat \X Nat

\* The shape of the state; a step past the creation knows its job.
TypeOK ==
    /\ now \in Clock /\ conn \in Expiry
    /\ caller \in [Callers -> [pc : Calls, expires : Expiry]]
    /\ pc \in Places /\ attempt \in 0..MaxRetries
    /\ sf \in Seq([state : Terminal \cup {"InProgress"}, result : Seq(Nat)])
    /\ job \in 0..Len(sf) /\ lost \in Nat /\ began \in Clock
    /\ page \in Nat \ {0} /\ stripped \in BOOLEAN
    /\ body \in Seq(Part) /\ leftover \in Seq(Part)
    /\ out \in [backend : Backends, open : BOOLEAN, data : Seq(Part), buffer : Seq(Part),
                 file : Seq(Part), orphan : BOOLEAN]
    /\ pc \in {"poll", "sleeping", "opening", "page", "stream", "closing", "counting"}
         => job # 0 /\ record.status = "in_progress"
    /\ pc \in {"page", "stream", "closing"} => out.open
    /\ record \in [status : {"pending", "in_progress", "job_complete", "failed"},
                    rows : Nat, uri : BOOLEAN]

\* The rows of the first p pages, for every p.
Joined(j) ==
    LET all[p \in 0..Len(sf[j].result)] == IF p = 0 THEN <<>> ELSE all[p - 1] \o Rows(j, p)
    IN all

FullResult(j) == Joined(j)[Len(sf[j].result)]

WholeFiles(j) == {<<Header>> \o FullResult(j), <<Header, Newline>> \o FullResult(j)}

\* A file at the result's path is the whole result of the one job the step knows: the
\* header once, then every row of every page once and in order, also after a crash,
\* a broken stream or a failed commit.
FileIsWhole ==
    out.file # NoFile =>
        /\ job # 0 /\ sf[job].state = "JobComplete"
        /\ out.file \in WholeFiles(job)

\* A record that says the query is complete has its file.  Its number of rows is that of
\* the whole result if no row of it is broken and the file could be read back; each broken
\* row is counted twice, and a file that cannot be read back counts as zero rows.
RecordFollowsFile ==
    record.status = "job_complete" =>
        /\ out.file # NoFile
        /\ record.rows \in {0, Len(FullResult(job)) + Cardinality(BrokenRows(FullResult(job)))}

\* A step that ended leaves no temporary file and no upload behind, unless removing it
\* failed or its id was lost; one whose id was lost holds nothing.
NothingLeftBehind ==
    pc = "ended" =>
        /\ ~out.open
        /\ out.orphan \/ (out.data = <<>> /\ out.buffer = <<>>)

\* The jobs at Salesforce are the one the step knows and those whose answers were lost,
\* MaxRetries + 1 at most: a job the step knows is never created again.
JobsAreKnownOrLost ==
    /\ Len(sf) = lost + (IF job = 0 THEN 0 ELSE 1)
    /\ Len(sf) <= MaxRetries + 1

\* Nothing aborts a job: one whose answer was lost goes on, and so does the known one when
\* its polling timed out, was refused or put off too often, or the process died.  A step
\* over whose known job is not complete has no file, and does not say it is complete.
UnfinishedJobsHaveNoResult ==
    (pc \in {"ended", "dead"} /\ (job = 0 \/ sf[job].state # "JobComplete"))
        => out.file = NoFile /\ record.status # "job_complete"

\* A token that is handed out is good for longer than the refresh buffer, whichever
\* of the concurrent refreshes is stored last.
TokenLasts ==
    [][ \A c \in Callers :
          (caller'[c].pc = "holding" /\ caller[c].pc # "holding")
          => caller'[c].expires > now + Buffer ]_vars

\* The query step ends, even if Salesforce never finishes the job: polling is capped.
QueryEnds ==
    (pc = "create") ~> (pc \in {"ended", "dead"})

\* The shape of the state, and the result: the file is whole or absent, and the
\* record follows it, with the count of its lines.
ResultIsWhole == TypeOK /\ FileIsWhole /\ RecordFollowsFile

\* What a step can leave behind: in the storage what could not be removed or is not known,
\* and at Salesforce the jobs of lost answers and the job it gave up, without a result.
LeftoversAreKnown == NothingLeftBehind /\ JobsAreKnownOrLost /\ UnfinishedJobsHaveNoResult

---------------------------------------------------------------------------
(* An inductive invariant: what is known at each place of the step.         *)

\* Tokens are asked for before the step begins, the clock is early then, and an answer is
\* stored in time.
CallsComeFirst ==
    /\ pc \in {"preflight", "explain", "explained", "waiting"} => now <= MaxTime
    /\ \A c \in Callers :
          /\ caller[c].pc \in {"idle", "loaded", "answered"} =>
                pc = "preflight" \/ (c = Step /\ pc = "waiting")
          /\ caller[c].pc = "answered" => caller[c].expires + MaxStore >= now + Lifetime

\* A complete job has a result, and stays complete once the step knows it; only then
\* pages are turned.
ResultStands ==
    /\ page = 1 \/ pc \in {"page", "stream", "closing", "counting", "discarding", "failing", "ended", "dead"}
    /\ \A j \in 1..Len(sf) : sf[j].state = "JobComplete" => sf[j].result \in Results
    /\ pc \in {"opening", "page", "stream", "closing", "counting"} => sf[job].state = "JobComplete"

\* Create requests: none before the step begins, and as many as were sent.
RequestsAreCounted ==
    /\ pc \in {"preflight", "explain", "explained", "waiting"} => sf = <<>> /\ lost = 0
    /\ pc = "create" => job = 0 /\ lost <= attempt
    /\ JobsAreKnownOrLost

\* The writer is open from the first page to the commit or the removal; what a writer
\* holds that is not open could not be removed.
WriterFollowsStep ==
    /\ out.open => pc \in {"page", "stream", "closing", "discarding", "dead"}
    /\ out.orphan => pc \in {"failing", "ended", "dead"}
    /\ out.open \/ out.orphan \/ (out.data = <<>> /\ out.buffer = <<>>)
    /\ out.backend = "local" => out.buffer = <<>>

\* A file comes with a commit; only the step that ended well tells of it.
FileFollowsCommit ==
    /\ pc = "create" => record.status = "in_progress"
    /\ pc = "counting" => out.file # NoFile
    /\ out.file # NoFile => pc \in {"counting", "discarding", "failing", "ended", "dead"}
    /\ record.status = "job_complete" => pc = "ended"

\* What the file holds of the pages before page p.
PagesBefore(p) == IF p = 1 THEN <<>> ELSE <<Header, Newline>> \o Joined(job)[p - 1]

\* In the middle of a page: what is written and what is to come make the pages so far;
\* before the newline of a later page is found, what is left over and what is to come
\* make that page.
MidPage(newline) ==
    LET whole == <<Header>> \o newline \o Rows(job, page) IN
    IF page = 1 THEN Committed \o body = whole
    ELSE IF stripped THEN Committed \o body = <<Header, Newline>> \o Joined(job)[page]
    ELSE /\ Committed = PagesBefore(page)
         /\ leftover \o body = whole /\ ~HasNewline(leftover)

WrittenSoFar ==
    /\ pc \in {"page", "stream"} => page <= Len(sf[job].result)
    /\ pc = "page" => Committed = PagesBefore(page)
    /\ pc = "stream" => \E newline \in LineEnds(page) : MidPage(newline)
    /\ pc = "closing" => Committed \in WholeFiles(job)

QueryIInv ==
    /\ TypeOK
    /\ CallsComeFirst
    /\ ResultStands
    /\ RequestsAreCounted
    /\ WriterFollowsStep
    /\ FileFollowsCommit
    /\ WrittenSoFar
    /\ FileIsWhole
    /\ RecordFollowsFile
=============================================================================
