----------------------------- MODULE MCExecText -----------------------------
(***************************************************************************)
(* ExecText with names and arguments of a few characters.                  *)
(***************************************************************************)
EXTENDS ExecText

MCChar == {"a", "b", "x", "/", ".", " "}

MCCwd == <<"/", "x", "/">>

MCFileNames ==
  {Fault, <<>>, <<"a">>, <<"/", "a">>, <<".", ".", "/", "a">>,
   <<"a", "/", ".", ".", "/", "b">>, <<"b", "/", "/", "a">>,
   <<"a", ".", "/", "b">>, <<"a", "a", "a", "a", "a", "a", "a", "a", "a">>}

MCArgLists ==
  {<<>>, << <<"a">> >>, << <<>>, <<>>, <<>> >>, << <<"a">>, Fault >>,
   << <<"b">>, <<>>, <<"a">> >>, << <<"b", "b">>, <<"a">>, <<"a">> >>,
   << <<"a", "b", "b">>, <<"b">> >>, << <<>>, <<>>, <<>>, <<"a">> >>}
=============================================================================
