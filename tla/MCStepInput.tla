---------------------------- MODULE MCStepInput ----------------------------
(* A small instance of StepInput for TLC: two folders, four paths of which   *)
(* one is not a CSV file, and three states of the storage; rows are numbers. *)
EXTENDS StepInputDocs

MCPaths == <<<<"a.csv">>, <<"b.csv">>, <<"notes.txt">>, <<"sub", "c.csv">>>>
MCCsv   == {"a.csv", "b.csv", "c.csv"}

\* The second loses the first row of a.csv, the third has a file without rows and one that S3 leaves.
MCDirs == {<<<<1, 2>>, Absent, Absent, <<4>>>>,
           <<<<2>>, Absent, Absent, <<4>>>>,
           <<Absent, <<>>, <<8>>, Absent>>}
OneDir == {<<<<1, 2>>, Absent, Absent, Absent>>}

MCNameMatches ==
    {<<n, "*">> : n \in MCCsv \cup {"notes.txt", "sub"}} \cup {<<n, "*.csv">> : n \in MCCsv}
    \cup {<<"sub", "sub">>}

Everything == <<"**", "*">>
MCPatterns == UNION {[1..n -> {"**", "*", "*.csv", "sub"}] : n \in 0..3}

MCExports == {[ref |-> "local", rows |-> <<5>>], [ref |-> "bucket", rows |-> <<6, 7>>],
              [ref |-> "null", rows |-> <<>>]}
OneExport == {[ref |-> "null", rows |-> <<>>]}
=============================================================================
