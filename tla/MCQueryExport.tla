--------------------------- MODULE MCQueryExport ---------------------------
(* A small instance of QueryExport.                                        *)
EXTENDS QueryExport

CONSTANTS other

\* The second row of the first page is broken, whichever the job; a first page of one row
\* has none.
MCBroken == {Row(j, 1, 2) : j \in 1..(MaxRetries + 1)}
=============================================================================
