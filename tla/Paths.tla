------------------------------- MODULE Paths -------------------------------
(***************************************************************************)
(* From a dentry to the text in the log: read_path writes the directory of *)
(* a call into its record, and the callback prints a file name relative to *)
(* it (file.c by fprint_relative_filename).                                *)
(***************************************************************************)
EXTENDS ReadPath, PathNames

INSTANCE ResolvePath

CONSTANTS
  FileNames,  \* the relative names that calls are made with
  Beyond      \* what the memory of a record may hold behind a name

\* A name is a text; no file but the root of a mount is named "." or "..".
ASSUME PathsAssumption ==
  /\ Slash = "/" /\ Slash \notin Chars
  /\ FileNames \subseteq Seq(Chars \union {".", Slash})
  /\ Beyond \subseteq Seq(Chars \union {".", Slash})
  /\ \A x \in Targets : \A m \in DOMAIN x.mounts : \A k \in DOMAIN x.mounts[m] :
       x.mounts[m][k] \notin {<<".">>, <<".", ".">>}

VARIABLE printed  \* the name printed and its text, once it is

allVars == <<vars, printed>>

NotPrinted == [name |-> <<>>, beyond |-> <<>>, text |-> <<>>]

PathsInit == Init /\ printed = NotPrinted

WalkStep == Next /\ UNCHANGED printed

\* The callback prints a name relative to the directory.
PrintName(name) ==
  /\ phase = "done" /\ target.isDir
  /\ printed = NotPrinted
  /\ \E beyond \in Beyond :
       printed' = [name |-> name, beyond |-> beyond,
                   text |-> Relative(PathText, name, beyond)]
  /\ UNCHANGED vars

PathsNext == WalkStep \/ \E name \in FileNames : PrintName(name)

PathsSpec == PathsInit /\ [][PathsNext]_allVars

-----------------------------------------------------------------------------
(* Properties *)

\* The names that get_filename_cptrs misreads: a component that only begins with
\* "..", an empty component before "..", a final ".." with more text behind it in
\* the memory of the record; and ".." in the root, of which no slash is left.
Misread(dir, name, beyond) ==
  \/ \E k \in DOMAIN name : DotsAt(name, k) /\ ~ParentAt(name, k)
  \/ \E j, k \in DOMAIN name : j < k /\ EmptyAt(name, j) /\ ParentAt(name, k)
  \/ beyond # <<>> /\ ParentAt(name, Len(name) - 1)
  \/ Len(dir) = 1 /\ \E k \in DOMAIN name : ParentAt(name, k)

\* The text that the callback prints for a relative name names, from the root of
\* the directory's path, the same file as the name does in the directory.
RelativeRight ==
  LET p == printed IN
  p.name # <<>> /\ ~Misread(PathText, p.name, p.beyond)
    => NamesSame(p.text, PathText, p.name)
=============================================================================
