------------------------------ MODULE PlanEdit ------------------------------
(***************************************************************************)
(* Load plans, their steps and the storage connections they use, edited    *)
(* through the API by several clients at once.                             *)
(*                                                                         *)
(* A request reads and checks first and commits later; between the two     *)
(* other requests commit.  What the database itself guarantees (foreign    *)
(* keys, the unique index on step names) is checked again at the commit,   *)
(* and a request that fails there changes nothing.  An update writes only  *)
(* the columns that differ from the row the request loaded.                *)
(***************************************************************************)
EXTENDS Naturals, Sequences, FiniteSets

CONSTANTS
    Conns,          \* storage connections
    Clients,
    Names,          \* names of steps
    MaxPlans, MaxSteps, MaxSeq, MaxCalls
                    \* bounds: rows, sequence numbers a client asks for, requests

ASSUME PlanEditAssumption ==
    /\ Conns \subseteq Nat \ {0} /\ Names \subseteq Nat \ {0}
    /\ IsFiniteSet(Conns) /\ IsFiniteSet(Clients)
    /\ {MaxPlans, MaxSteps, MaxSeq, MaxCalls} \subseteq Nat
    /\ MaxPlans >= 1 /\ MaxSteps >= 2     \* room for the plan of Init

VARIABLES
    plan,       \* the plans there ever were: output connection, whether runs exist
    step,       \* the steps there ever were
    used,       \* the steps that have job records
    conn,       \* the direction of each storage connection, or "gone"
    req,        \* the request each client waits for
    calls       \* the number of requests so far

tables == <<plan, step, used, conn>>
vars == <<tables, req, calls>>

None == 0
Gone == [plan |-> None]
Idle == [at |-> "idle"]

InputDirs == {"in", "both"}
OutputDirs == {"out", "both"}

LivePlans == {p \in DOMAIN plan : plan[p].there}
LiveSteps == {s \in DOMAIN step : step[s].plan # None}
StepsOf(p) == {s \in LiveSteps : step[s].plan = p}
Readers(i) == {s \in LiveSteps : step[s].input = i}

LargestOf(S) == IF S = {} THEN 0 ELSE CHOOSE n \in S : \A m \in S : m <= n

---------------------------------------------------------------------------
(* Rows and the rules about them.                                          *)

Row(op, pattern, ref, name, input) ==
    [plan |-> 1, seq |-> None, op |-> op, pattern |-> pattern, ref |-> ref,
     name |-> name, input |-> input]

\* A query reads no file and no step; a DML step reads files or a step, never both.
WellFormed(row) ==
    IF row.op = "query" THEN row.pattern = None /\ row.ref = None
    ELSE /\ row.pattern # None \/ row.ref # None
         /\ row.ref # None => row.pattern = None /\ row.input = None

\* The reference of a row is to an earlier query step of the plan.
RefersBack(row, own) ==
    row.ref # None =>
        /\ row.ref # own
        /\ row.ref \in StepsOf(row.plan)
        /\ step[row.ref].op = "query"
        /\ step[row.ref].seq < row.seq

NameIsFree(row, own) ==
    row.name # None => \A s \in StepsOf(row.plan) \ {own} : step[s].name # row.name

NextSequence(p) == LargestOf({step[s].seq : s \in StepsOf(p)}) + 1

InputIsReadable(i) == i # None => conn[i] \in InputDirs

Init ==
    /\ plan = <<[there |-> TRUE, out |-> None, runs |-> FALSE]>>
    /\ step = <<[Row("query", None, None, None, None) EXCEPT !.seq = 1],
                [Row("dml", None, 1, None, None) EXCEPT !.seq = 2]>>
    /\ used = {}
    /\ conn \in [Conns -> {"both"}]
    /\ req = [c \in Clients |-> Idle]
    /\ calls = 0

---------------------------------------------------------------------------
(* Requests.                                                               *)

Pending(c, kind, at) == req[c].at = at /\ req[c].kind = kind

\* A request has read what it needs; it waits at "loaded" for its next await.
Load(c, r) ==
    /\ calls' = calls + 1
    /\ req' = [req EXCEPT ![c] = r]
    /\ UNCHANGED tables

\* The request commits; every other one that is pending has read before.
Overtakes(c) ==
    req' = [d \in Clients |-> IF d = c \/ req[d] = Idle THEN Idle
                              ELSE [req[d] EXCEPT !.overtaken = TRUE]]

Ends(c) ==
    /\ Overtakes(c)
    /\ UNCHANGED calls

\* A request whose reads others cannot spoil: what it commits is checked by the database.
AtOnce(c) ==
    /\ calls' = calls + 1
    /\ Overtakes(c)

\* The checks went well, or the request is answered 4xx.
Checked(c, ok) ==
    /\ req' = [req EXCEPT ![c] = IF ok THEN [@ EXCEPT !.at = "checked"] ELSE Idle]
    /\ UNCHANGED <<tables, calls>>

\* The database refuses the commit.
Refused(c) ==
    /\ req' = [req EXCEPT ![c] = Idle]
    /\ UNCHANGED <<tables, calls>>

\* The partial unique index over plan and name.
IndexHolds(row, own) == NameIsFree(row, own)

\* The foreign keys and the index, at the commit of a step.
Storable(row, own) ==
    /\ row.plan \in LivePlans
    /\ row.ref # None => row.ref \in LiveSteps
    /\ IndexHolds(row, own)

---------------------------------------------------------------------------
(* POST /steps                                                             *)

Bodies ==
    {Row("query", None, None, n, None) : n \in Names \cup {None}}
    \cup {Row("dml", 1, None, None, i) : i \in Conns \cup {None}}
    \cup {Row("dml", None, s, None, None) : s \in DOMAIN step}

LoadAdd(c, p, body, seq) ==
    /\ p \in LivePlans /\ WellFormed(body) /\ InputIsReadable(body.input)
    /\ Len(step) < MaxSteps
    /\ Load(c, [at |-> "loaded", kind |-> "add", overtaken |-> FALSE, appends |-> seq = None,
                row |-> [body EXCEPT !.plan = p,
                                     !.seq = IF seq = None THEN NextSequence(p) ELSE seq]])

CheckAdd(c) ==
    /\ Pending(c, "add", "loaded")
    /\ Checked(c, RefersBack(req[c].row, None) /\ NameIsFree(req[c].row, None))

WriteAdd(c) ==
    /\ Pending(c, "add", "checked")
    /\ IF Storable(req[c].row, None) /\ Len(step) < MaxSteps
       THEN /\ step' = Append(step, req[c].row)
            /\ Ends(c)
            /\ UNCHANGED <<plan, used, conn>>
       ELSE Refused(c)

---------------------------------------------------------------------------
(* PUT /steps/{id}                                                         *)

\* What clients ask to change: some columns and their values.
Patches ==
    {[seq |-> n] : n \in 1..MaxSeq}
    \cup {[op |-> "query", pattern |-> None, ref |-> None]}
    \cup {[op |-> "dml", pattern |-> 1, ref |-> None]}
    \cup {[pattern |-> 1, ref |-> None, input |-> i] : i \in Conns \cup {None}}
    \cup {[pattern |-> None, ref |-> s, input |-> None] : s \in DOMAIN step}
    \cup {[name |-> n] : n \in Names}

Merged(row, patch) ==
    [f \in DOMAIN row |-> IF f \in DOMAIN patch THEN patch[f] ELSE row[f]]

\* The columns the commit writes.
Delta(seen, patch) == {f \in DOMAIN patch : patch[f] # seen[f]}

LoadUpdate(c, s, patch) ==
    /\ s \in LiveSteps /\ WellFormed(Merged(step[s], patch))
    /\ "input" \in DOMAIN patch => InputIsReadable(patch.input)
    /\ Load(c, [at |-> "loaded", kind |-> "update", overtaken |-> FALSE,
                own |-> s, seen |-> step[s], patch |-> patch])

\* Mutant: the reference is only looked at when the request sets it.
ReferenceChecked_IfSet(r) ==
    "ref" \in DOMAIN r.patch => RefersBack(Merged(r.seen, r.patch), r.own)
\* The reference of the merged row is looked at, whether or not the request sets it.
ReferenceChecked(r) == RefersBack(Merged(r.seen, r.patch), r.own)

CheckUpdate(c) ==
    /\ Pending(c, "update", "loaded")
    /\ Checked(c, /\ ReferenceChecked(req[c])
                  /\ "name" \in DOMAIN req[c].patch
                       => NameIsFree(Merged(req[c].seen, req[c].patch), req[c].own))

WriteUpdate(c) ==
    /\ Pending(c, "update", "checked")
    /\ LET r == req[c]
           new == [f \in DOMAIN step[r.own] |-> IF f \in Delta(r.seen, r.patch) THEN r.patch[f]
                                                ELSE step[r.own][f]]
       IN IF r.own \in LiveSteps /\ Storable(new, r.own)
          THEN /\ step' = [step EXCEPT ![r.own] = new]
               /\ Ends(c)
               /\ UNCHANGED <<plan, used, conn>>
          ELSE Refused(c)

---------------------------------------------------------------------------
(* DELETE /steps/{id}, POST /steps/reorder                                 *)

Dependents(s) == {d \in StepsOf(step[s].plan) : step[d].ref = s}

\* ON DELETE SET NULL: the references to the steps in S go with them.
WithoutSteps(S) ==
    [s \in DOMAIN step |-> IF s \in S THEN Gone
                           ELSE IF step[s] # Gone /\ step[s].ref \in S
                                THEN [step[s] EXCEPT !.ref = None] ELSE step[s]]

LoadDelete(c, s) ==
    /\ s \in LiveSteps /\ Dependents(s) = {}
    /\ Load(c, [at |-> "loaded", kind |-> "delete", overtaken |-> FALSE, own |-> s])

\* A step with job records stays: the foreign key of the jobs restricts.
WriteDelete(c) ==
    /\ Pending(c, "delete", "loaded")
    /\ IF req[c].own \in LiveSteps \ used
       THEN /\ step' = WithoutSteps({req[c].own})
            /\ Ends(c)
            /\ UNCHANGED <<plan, used, conn>>
       ELSE Refused(c)

\* The ways to number the steps of a plan from 1 on.
Orders(p) ==
    {o \in [StepsOf(p) -> 1..Cardinality(StepsOf(p))] :
        \A s, t \in StepsOf(p) : s # t => o[s] # o[t]}

LoadReorder(c, p, order) ==
    /\ p \in LivePlans /\ StepsOf(p) # {}
    /\ \A s \in StepsOf(p) : step[s].ref # None =>
          /\ step[s].ref # s
          /\ (IF step[s].ref \in StepsOf(p) THEN order[step[s].ref] ELSE 0) < order[s]
    /\ Load(c, [at |-> "loaded", kind |-> "reorder", overtaken |-> FALSE,
                order |-> {<<s, order[s]>> : s \in {t \in StepsOf(p) : step[t].seq # order[t]}}])

WriteReorder(c) ==
    /\ Pending(c, "reorder", "loaded")
    /\ LET moved == {m[1] : m \in req[c].order}
       IN IF moved \subseteq LiveSteps
          THEN /\ step' = [s \in DOMAIN step |->
                              IF s \in moved
                              THEN [step[s] EXCEPT !.seq = (CHOOSE m \in req[c].order : m[1] = s)[2]]
                              ELSE step[s]]
               /\ Ends(c)
               /\ UNCHANGED <<plan, used, conn>>
          ELSE Refused(c)

---------------------------------------------------------------------------
(* Plans.                                                                  *)

OutputIsWritable(i) == i # None => conn[i] \in OutputDirs

CreatePlan(c, i) ==
    /\ AtOnce(c)
    /\ Len(plan) < MaxPlans /\ OutputIsWritable(i)
    /\ plan' = Append(plan, [there |-> TRUE, out |-> i, runs |-> FALSE])
    /\ UNCHANGED <<step, used, conn>>

LoadOutput(c, p, i) ==
    /\ p \in LivePlans /\ OutputIsWritable(i)
    /\ Load(c, [at |-> "loaded", kind |-> "output", overtaken |-> FALSE, plan |-> p, out |-> i])

\* PUT /load-plans/{id} with a new output connection.
WriteOutput(c) ==
    /\ Pending(c, "output", "loaded")
    /\ LET r == req[c] IN
       IF r.plan \in LivePlans /\ (r.out # None => conn[r.out] # "gone")
       THEN /\ plan' = [plan EXCEPT ![r.plan].out = r.out]
            /\ Ends(c)
            /\ UNCHANGED <<step, used, conn>>
       ELSE Refused(c)

\* Mutant: references are copied as they are.
Cloned_Verbatim(rows, p, base) ==
    [k \in DOMAIN rows |-> [step[rows[k]] EXCEPT !.plan = p]]
\* The steps of a plan, copied under new ids that follow base; references move along.
Cloned(rows, p, base) ==
    [k \in DOMAIN rows |->
        [step[rows[k]] EXCEPT !.plan = p,
            !.ref = IF \E j \in DOMAIN rows : rows[j] = @
                    THEN base + (CHOOSE j \in DOMAIN rows : rows[j] = @) ELSE None]]

\* The steps of a plan in the order of their sequence numbers.
InOrder(p) ==
    CHOOSE q \in [1..Cardinality(StepsOf(p)) -> StepsOf(p)] :
        \A i, j \in DOMAIN q : i < j => /\ q[i] # q[j]
                                        /\ step[q[i]].seq <= step[q[j]].seq

\* One read of the source, then inserts: what others do in between is not seen.
DuplicatePlan(c, p) ==
    /\ AtOnce(c)
    /\ p \in LivePlans /\ Len(plan) < MaxPlans
    /\ Len(step) + Cardinality(StepsOf(p)) <= MaxSteps
    /\ plan' = Append(plan, [plan[p] EXCEPT !.runs = FALSE])
    /\ step' = step \o Cloned(InOrder(p), Len(plan) + 1, Len(step))
    /\ UNCHANGED <<used, conn>>

LoadDeletePlan(c, p) ==
    /\ p \in LivePlans /\ ~plan[p].runs
    /\ Load(c, [at |-> "loaded", kind |-> "drop", overtaken |-> FALSE, plan |-> p])

\* ON DELETE RESTRICT of the runs.
Restricted(p) == plan[p].runs

WriteDeletePlan(c) ==
    /\ Pending(c, "drop", "loaded")
    /\ LET p == req[c].plan IN
       IF p \in LivePlans /\ ~Restricted(p)
       THEN /\ plan' = [plan EXCEPT ![p] = [there |-> FALSE, out |-> None, runs |-> @.runs]]
            /\ step' = WithoutSteps(StepsOf(p))
            /\ Ends(c)
            /\ UNCHANGED <<used, conn>>
       ELSE Refused(c)

\* POST /load-plans/{id}/run
CreateRun(c, p) ==
    /\ AtOnce(c)
    /\ p \in LivePlans /\ ~plan[p].runs
    /\ plan' = [plan EXCEPT ![p].runs = TRUE]
    /\ UNCHANGED <<step, used, conn>>

\* A run gets to a step and creates its job records.
RecordJobs(s) ==
    /\ s \in LiveSteps \ used /\ plan[step[s].plan].runs
    /\ used' = used \cup {s}
    /\ UNCHANGED <<plan, step, conn, req, calls>>

---------------------------------------------------------------------------
(* Storage connections.                                                    *)

\* Any direction is accepted, whoever uses the connection.
UpdateConn(c, i, d) ==
    /\ AtOnce(c)
    /\ conn[i] \notin {"gone", d}
    /\ conn' = [conn EXCEPT ![i] = d]
    /\ UNCHANGED <<plan, step, used>>

OutputUsers(i) == {p \in LivePlans : plan[p].out = i}

LoadDeleteConn(c, i) ==
    /\ conn[i] # "gone" /\ OutputUsers(i) = {}
    /\ Load(c, [at |-> "loaded", kind |-> "unplug", overtaken |-> FALSE, conn |-> i])

\* DELETE, then the steps are looked at, then COMMIT: one write transaction.
WriteDeleteConn(c) ==
    /\ Pending(c, "unplug", "loaded")
    /\ LET i == req[c].conn IN
       IF conn[i] # "gone" /\ Readers(i) = {}
       THEN /\ conn' = [conn EXCEPT ![i] = "gone"]
            /\ plan' = [p \in DOMAIN plan |-> IF plan[p].out = i THEN [plan[p] EXCEPT !.out = None]
                                              ELSE plan[p]]
            /\ Ends(c)
            /\ UNCHANGED <<step, used>>
       ELSE Refused(c)

---------------------------------------------------------------------------
Writing(c) ==
    \/ WriteAdd(c) \/ WriteUpdate(c) \/ WriteDelete(c) \/ WriteReorder(c)
    \/ WriteOutput(c) \/ WriteDeletePlan(c) \/ WriteDeleteConn(c)

StepRequest(c) ==
    \/ \E p \in LivePlans, body \in Bodies, seq \in 0..MaxSeq : LoadAdd(c, p, body, seq)
    \/ \E s \in LiveSteps, patch \in Patches : LoadUpdate(c, s, patch)
    \/ \E s \in LiveSteps : LoadDelete(c, s)
    \/ \E p \in LivePlans : \E order \in Orders(p) : LoadReorder(c, p, order)

PlanRequest(c) ==
    \/ \E i \in Conns \cup {None} : CreatePlan(c, i)
    \/ \E p \in LivePlans, i \in Conns \cup {None} : LoadOutput(c, p, i)
    \/ \E p \in LivePlans : DuplicatePlan(c, p) \/ LoadDeletePlan(c, p) \/ CreateRun(c, p)

ConnRequest(c) ==
    \/ \E i \in Conns, d \in {"in", "out", "both"} : UpdateConn(c, i, d)
    \/ \E i \in Conns : LoadDeleteConn(c, i)

\* A client sends its next request when the last one was answered.
Request(c) ==
    /\ req[c] = Idle /\ calls < MaxCalls
    /\ StepRequest(c) \/ PlanRequest(c) \/ ConnRequest(c)

Next ==
    \/ \E c \in Clients : Request(c) \/ CheckAdd(c) \/ CheckUpdate(c) \/ Writing(c)
    \/ \E s \in LiveSteps : RecordJobs(s)

Spec == Init /\ [][Next]_vars

---------------------------------------------------------------------------
(* Properties.                                                             *)

\* The shape of the tables; a deleted plan has no steps left.
TypeOK ==
    /\ Len(plan) <= MaxPlans /\ Len(step) <= MaxSteps /\ used \subseteq LiveSteps
    /\ \A s \in LiveSteps :
          /\ step[s].plan \in LivePlans
          /\ step[s].op \in {"query", "dml"} /\ step[s].input \in Conns \cup {None}
          /\ step[s].name \in Names \cup {None} /\ step[s].seq \in Nat \ {0}
    /\ \A i \in Conns : conn[i] \in {"in", "out", "both", "gone"}

\* A step that reads another step's output reads a step of its own plan, whatever was
\* deleted, duplicated or edited at the same time.
ReferencesStayInPlan ==
    \A s \in LiveSteps : step[s].ref # None =>
        step[s].ref \in LiveSteps /\ step[step[s].ref].plan = step[s].plan

\* Two steps of a plan never share a name, also when two requests check at the same time.
NamesAreUnique == \A s \in LiveSteps : NameIsFree(step[s], s)

\* A plan with runs is never deleted, also when the run is created during the delete.
RunsKeepTheirPlan == \A p \in DOMAIN plan : plan[p].runs => plan[p].there

\* The plan can be run as it stands: each step has one source, and reads what an
\* earlier query step of the plan writes.
Runnable(p) == \A s \in StepsOf(p) : WellFormed(step[s]) /\ RefersBack(step[s], s)

Acts(c) == req[c] # Idle /\ req'[c] = Idle

\* A plan that can be run stays so, unless the commit was overtaken by another one or
\* edits a query step that other steps read: nothing else an API call does breaks it.
PlanStaysRunnable ==
    \A p \in LivePlans \cap LivePlans' :
      (Runnable(p) /\ ~Runnable(p)') =>
         \E c \in Clients :
            /\ Acts(c)
            /\ \/ req[c].overtaken
               \/ req[c].kind = "update" /\ Dependents(req[c].own) # {}

\* A step added without a number comes after every step of the plan, unless the request
\* was overtaken; deleted steps leave gaps that do not matter.
AppendedIsLast ==
    \A c \in Clients :
      (Acts(c) /\ req[c].kind = "add" /\ req[c].appends /\ ~req[c].overtaken
         /\ Len(step') > Len(step))
      => \A s \in StepsOf(req[c].row.plan) : step[s].seq < step'[Len(step')].seq

\* A plan loses its output connection only by its own update; a delete of the connection
\* takes it away only when it was overtaken by that update.
OutputIsKept ==
    \A p \in LivePlans \cap LivePlans' :
      (plan[p].out # None /\ plan'[p].out = None) =>
         \E c \in Clients : Acts(c) /\ (req[c].kind = "output" \/ req[c].overtaken)

\* The shape of the tables and what relates their rows: references, names, and the
\* plan of a run.
TablesAreSound == TypeOK /\ ReferencesStayInPlan /\ NamesAreUnique /\ RunsKeepTheirPlan

\* What an edit cannot do to a plan: make it unrunnable, put an appended step first,
\* or take its output away.
EditsKeepPlan == [][PlanStaysRunnable /\ AppendedIsLast /\ OutputIsKept]_vars

---------------------------------------------------------------------------
(* Why: the inductive invariant.                                           *)

PlanRow == [there : BOOLEAN, out : Conns \cup {None}, runs : BOOLEAN]
StepRow == [plan : Nat \ {0}, seq : Nat \ {0}, op : {"query", "dml"}, pattern : {None, 1},
            ref : Nat, name : Names \cup {None}, input : Conns \cup {None}]

\* The rows as records; what a patch sets has the type of its column.
RowsOK ==
    /\ plan \in Seq(PlanRow)
    /\ step \in Seq(StepRow \cup {Gone})
    /\ conn \in [Conns -> {"in", "out", "both", "gone"}]

PatchOK(patch) ==
    /\ DOMAIN patch \subseteq {"seq", "op", "pattern", "ref", "name", "input"}
    /\ "seq" \in DOMAIN patch => patch.seq \in Nat \ {0}
    /\ "op" \in DOMAIN patch => patch.op \in {"query", "dml"}
    /\ "pattern" \in DOMAIN patch => patch.pattern \in {None, 1}
    /\ "ref" \in DOMAIN patch => patch.ref \in Nat
    /\ "name" \in DOMAIN patch => patch.name \in Names \cup {None}
    /\ "input" \in DOMAIN patch => patch.input \in Conns \cup {None}

\* A request holds what its kind needs, and no more.
Whole(r) ==
    /\ r.at \in {"loaded", "checked"} /\ r.overtaken \in BOOLEAN
    /\ r.kind \in {"add", "update", "delete", "reorder", "output", "drop", "unplug"}
    /\ r.kind = "add" =>
          /\ r = [at |-> r.at, kind |-> "add", overtaken |-> r.overtaken, appends |-> r.appends,
                  row |-> r.row]
          /\ r.row \in StepRow
    /\ r.kind = "update" =>
          /\ r = [at |-> r.at, kind |-> "update", overtaken |-> r.overtaken, own |-> r.own,
                  seen |-> r.seen, patch |-> r.patch]
          /\ r.own \in Nat /\ r.seen \in StepRow /\ PatchOK(r.patch)
    /\ r.kind = "delete" =>
          r = [at |-> r.at, kind |-> "delete", overtaken |-> r.overtaken, own |-> r.own]
    /\ r.kind = "reorder" =>
          /\ r = [at |-> r.at, kind |-> "reorder", overtaken |-> r.overtaken, order |-> r.order]
          /\ \A m \in r.order : m[2] \in Nat \ {0}
    /\ r.kind = "output" =>
          /\ r = [at |-> r.at, kind |-> "output", overtaken |-> r.overtaken, plan |-> r.plan,
                  out |-> r.out]
          /\ r.out \in Conns \cup {None}
    /\ r.kind = "drop" =>
          r = [at |-> r.at, kind |-> "drop", overtaken |-> r.overtaken, plan |-> r.plan]
    /\ r.kind = "unplug" =>
          /\ r = [at |-> r.at, kind |-> "unplug", overtaken |-> r.overtaken, conn |-> r.conn]
          /\ r.conn \in Conns

RequestsAreWhole == DOMAIN req = Clients /\ \A c \in Clients : req[c] # Idle => Whole(req[c])

\* Ids are not given away twice: a step is of the plan p, or gone.
OfPlanOrGone(s, p) == s \in DOMAIN step /\ step[s].plan \in {None, p}

\* What a request read of a step's plan stays true or the step is gone, so
\* that a reference it checked leads to the plan or to nothing.
ChecksStay(r) ==
    /\ r.kind = "add" /\ r.at = "checked" /\ r.row.ref # None => OfPlanOrGone(r.row.ref, r.row.plan)
    /\ r.kind = "update" =>
          /\ OfPlanOrGone(r.own, r.seen.plan)
          /\ r.at = "checked" /\ "ref" \in DOMAIN r.patch /\ r.patch.ref # None =>
                OfPlanOrGone(r.patch.ref, r.seen.plan)

CheckedReferencesStay == \A c \in Clients : req[c] # Idle => ChecksStay(req[c])

\* A step with job records is of a plan with runs.
UsedStepsHaveRuns == \A s \in used : plan[step[s].plan].runs

PlanEditIInv ==
    /\ TablesAreSound /\ RowsOK /\ RequestsAreWhole /\ CheckedReferencesStay /\ UsedStepsHaveRuns

\* The sequence number a reorder leaves a step with.
Renumbered(order, s) ==
    IF s \in {m[1] : m \in order} THEN (CHOOSE m \in order : m[1] = s)[2] ELSE step[s].seq

\* As long as no commit overtakes a request, what it read and checked is so.
StillSo(r) ==
    /\ r.kind = "add" =>
          /\ WellFormed(r.row)
          /\ r.at = "checked" => RefersBack(r.row, None)
          /\ r.appends => r.row.seq = NextSequence(r.row.plan)
    /\ r.kind = "update" =>
          /\ r.own \in LiveSteps /\ step[r.own] = r.seen
          /\ WellFormed(Merged(r.seen, r.patch))
          /\ r.at = "checked" => RefersBack(Merged(r.seen, r.patch), r.own)
    /\ r.kind = "delete" => r.own \in LiveSteps /\ Dependents(r.own) = {}
    /\ r.kind = "reorder" =>
          \A s, t \in LiveSteps :
             /\ step[s].plan = step[t].plan /\ s \in {m[1] : m \in r.order}
             /\ step[t].ref # None
             => Renumbered(r.order, step[t].ref) < Renumbered(r.order, t)
    /\ r.kind = "unplug" => OutputUsers(r.conn) = {}

FreshChecksHold == \A c \in Clients : req[c] # Idle /\ ~req[c].overtaken => StillSo(req[c])
=============================================================================
