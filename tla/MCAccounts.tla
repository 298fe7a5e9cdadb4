------------------------------ MODULE MCAccounts ------------------------------
(***************************************************************************)
(* Accounts with two account files, of which one may be missing, and a     *)
(* file in sudoers.d.                                                      *)
(***************************************************************************)
EXTENDS Accounts

MCPaths ==
  {<<"/etc/", "doas.conf">>, <<"/etc/", "sudoers">>, <<"/etc/", "sudoers", ".d/", "x">>}

\* Texts of one, two, six, seven and nine characters: one without a newline, which
\* may also be written in part, as nothing; one with a terminator in it; the longest
\* that fits the buffer of eight; two that are too long.
NL == Newline
MCChunks ==
  {<<"b">>, <<Nul, NL>>, <<NL, "b", NL, NL, "a", NL>>,
   <<"a", NL, NL, "a", "a", "b", NL>>,
   <<"a", NL, "b", NL, "a", NL, "b", "a", NL>>}

MCReplacements == {<<"b", NL, "a">>}

\* The texts of doas.conf and sudoers at first; sudoers.d is empty.
Beginning(doas, sudoers) ==
  [p \in Paths |-> CASE FileType(p) = "doas" -> doas
                     [] FileType(p) = "sudoers" -> sudoers
                     [] OTHER -> NoText]

MCBeginnings ==
  {Beginning(NoText, <<>>), Beginning(<<>>, <<"b", NL>>)}
=============================================================================
