------------------------------ MODULE MC_Gold -------------------------------
(* The gold layer: a wiki with two pages, of which the one that sorts      *)
(* first pushes the other out of the top, and a wiki that has only edits   *)
(* without a page.                                                         *)
EXTENDS Dagster

MCEdited == { <<"a", 1>>, <<"a", 2>>, <<"b", Untitled>> }
=============================================================================
