----------------------------- MODULE MCPipeline -----------------------------
(***************************************************************************)
(* Up to five packets through channels of one: every place of the         *)
(* pipeline can be full at once.                                           *)
(***************************************************************************)
EXTENDS Pipeline

MCInputs == {<<"a", "b", "a", "a", "c">>, <<"a", "a">>, <<"b", "a", "c">>, << >>}
MCCounts == {None, 0, 2}
=============================================================================
