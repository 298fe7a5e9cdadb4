------------------------------ MODULE MCPaths ------------------------------
(***************************************************************************)
(* Paths with names of up to three characters, of which three is the       *)
(* greatest length, and three mounts.                                      *)
(***************************************************************************)
EXTENDS Paths

CONSTANT NameLength  \* the length of the longest relative name

MCChars == {"a", "b"}

Short == {<<"a">>, <<"a", "b">>}
Longest == <<"b", "b", "b">>

SeqsUpTo(S, n) == UNION {[1..k -> S] : k \in 0..n}

MCTargets ==
  LET Chain == SeqsUpTo(Short, 2) \union {<<Longest>>, << <<"a">>, Longest>>}
      Mounts == [1..1 -> Chain] \union [1..2 -> Chain]
                \union {<< <<>>, m, << <<"b">> >> >> : m \in Chain}
                \union {<< <<Longest, Longest, Longest, Longest>> >>}
  IN [mounts : Mounts, detached : {FALSE}, isDir : BOOLEAN]
     \union [mounts : {<< <<>> >>, << <<>>, <<>> >>}, detached : {TRUE},
             isDir : {FALSE}]

MCFileNames ==
  {n \in UNION {[1..k -> {"/", ".", "a"}] : k \in 1..NameLength} : n[1] # "/"}

MCBeyond == {<<>>, <<"a">>}
=============================================================================
