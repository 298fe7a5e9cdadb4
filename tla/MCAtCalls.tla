------------------------------ MODULE MCAtCalls ------------------------------
(***************************************************************************)
(* AtCalls with two directories and a file.                                *)
(***************************************************************************)
EXTENDS AtCalls

MCChar == {"/", "x", "y", "f", "n", "m"}
MCDirs == {<<"/", "x">>, <<"/", "y">>}
MCFiles == {<<"/", "f">>}
MCNames == {<<>>, <<"n">>, <<"/", "m">>}
=============================================================================
