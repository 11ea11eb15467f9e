------------------------------ MODULE RowCustody ------------------------------
(***************************************************************************)
(* What a table of the DuckLake writer promises about the rows handed to   *)
(* it, with nothing said about batches, memory tables, locks or flushes.   *)
(*                                                                         *)
(* A row the writer accepted is in its custody (held) until it is stored   *)
(* in the lake, rejected (an append failed and the error was returned), or *)
(* given up because the writer was closed.  A stored row stays stored, and *)
(* nothing else may happen to a row.                                       *)
(***************************************************************************)
CONSTANT Rows       \* the rows the ingest workers may write

VARIABLES held,     \* accepted rows that are not in the lake yet
          stored,   \* rows in the lake
          gone,     \* rows rejected with an error, or given up at close
          open      \* FALSE once the DuckDB instance is closed

vars == <<held, stored, gone, open>>

Init == /\ held = {}
        /\ stored = {}
        /\ gone = {}
        /\ open = TRUE

Accept(r) == /\ open
             /\ r \notin held \cup stored \cup gone
             /\ held' = held \cup {r}
             /\ UNCHANGED <<stored, gone, open>>

Store(S) == /\ open
            /\ S # {}
            /\ held' = held \ S
            /\ stored' = stored \cup S
            /\ UNCHANGED <<gone, open>>

Reject(S) == /\ open
             /\ held' = held \ S
             /\ gone' = gone \cup S
             /\ UNCHANGED <<stored, open>>

Close == /\ open
         /\ open' = FALSE
         /\ held' = {}
         /\ gone' = gone \cup held
         /\ UNCHANGED stored

Next == \/ \E r \in Rows : Accept(r)
        \/ \E S \in SUBSET held : Store(S) \/ Reject(S)
        \/ Close

Spec == Init /\ [][Next]_vars
===============================================================================
