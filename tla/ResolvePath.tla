---------------------------- MODULE ResolvePath ----------------------------
(***************************************************************************)
(* The two ways in which the callbacks (helpers.c) put a relative file     *)
(* name behind the directory it is relative to: fprint_relative_filename   *)
(* for files, and resolve_full_path for execve.  A text is a sequence of   *)
(* characters; the text of a directory begins and ends with a slash.       *)
(* Allocations succeed.                                                    *)
(***************************************************************************)
EXTENDS Integers, Sequences, FiniteSets, SequencesExt

CONSTANT Nul  \* the terminator of a string

Starts(s, prefix) == IsPrefix(prefix, s)

Drop(s, n) == SubSeq(s, n + 1, Len(s))

-----------------------------------------------------------------------------
(* fprint_relative_filename *)

\* The length of the first component with its slash, if it has one.
FirstRange(s) == CHOOSE n \in 1..Len(s) :
  /\ n = Len(s) \/ s[n] = "/"
  /\ \A k \in 1..(n - 1) : s[k] # "/"

\* Variant of NextRange for the mutation checks: ".." at the front of the name is
\* forgotten.
NextRangeForget(r) ==
  CASE Starts(r.s, <<".", "/">>) -> [r EXCEPT !.s = Drop(@, 2)]
    [] Starts(r.s, <<".", ".">>) ->
         [r EXCEPT !.s = IF Len(@) >= 3 THEN Drop(@, 3) ELSE r.beyond,
                   !.beyond = IF Len(r.s) >= 3 THEN @ ELSE <<>>,
                   !.list = IF @ = <<>> THEN @ ELSE Front(@)]
    [] OTHER -> LET n == FirstRange(r.s) IN
         [r EXCEPT !.s = Drop(@, n), !.list = Append(@, SubSeq(r.s, 1, n))]

\* One iteration of get_filename_cptrs at the text r.s, with the list of the
\* components that are kept so far, and how many directories to go up first.  A
\* component that begins with ".." takes the last one back, and one character more
\* is skipped: behind a final ".." that is the terminator, and the loop goes on
\* with what the memory holds beyond it.
NextRange(r) ==
  CASE Starts(r.s, <<".", "/">>) -> [r EXCEPT !.s = Drop(@, 2)]
    [] Starts(r.s, <<".", ".">>) ->
         [r EXCEPT !.s = IF Len(@) >= 3 THEN Drop(@, 3) ELSE r.beyond,
                   !.beyond = IF Len(r.s) >= 3 THEN @ ELSE <<>>,
                   !.list = IF @ = <<>> THEN @ ELSE Front(@),
                   !.parents = IF r.list = <<>> THEN @ + 1 ELSE @]
    [] OTHER -> LET n == FirstRange(r.s) IN
         [r EXCEPT !.s = Drop(@, n), !.list = Append(@, SubSeq(r.s, 1, n))]

\* get_filename_cptrs: every iteration takes a character at least.
Ranges(name, beyond) ==
  LET after[n \in 0..(Len(name) + Len(beyond))] ==
        IF n = 0 THEN [s |-> name, beyond |-> beyond, list |-> <<>>, parents |-> 0]
        ELSE LET r == after[n - 1] IN IF r.s = <<>> THEN r ELSE NextRange(r)
  IN after[Len(name) + Len(beyond)]

\* The slash that is the n-th from the right among those of positions first to
\* last of the text.
NthSlash(dir, n, first, last) ==
  {k \in first..last : /\ dir[k] = "/"
                       /\ Cardinality({j \in k..last : dir[j] = "/"}) = n}

\* get_dir_cptr: the last character of dir to print.  The first character of the
\* text is never looked at; of the root alone nothing is left.
DirEnd(dir, n) ==
  IF n = 0 THEN Len(dir)
  ELSE LET found == NthSlash(dir, n, 2, Len(dir) - 1) IN
       IF found # {} THEN CHOOSE k \in found : TRUE
       ELSE IF Len(dir) = 1 THEN 0 ELSE 1

Relative(dir, name, beyond) ==
  IF name = <<>> THEN <<>>
  ELSE LET r == Ranges(name, beyond) IN
       SubSeq(dir, 1, DirEnd(dir, r.parents)) \o FlattenSeq(r.list)

-----------------------------------------------------------------------------
(* resolve_full_path *)

\* The last slash before position i, or 0.
SlashBefore(s, i) ==
  LET found == {k \in 1..(i - 1) : s[k] = "/"} IN
  IF found = {} THEN 0 ELSE CHOOSE k \in found : \A j \in found : j <= k

\* Variant of NextScan for the mutation checks: ".." is taken for ".".
NextScanDot(s, r) ==
  LET Before(k) == IF r.i - k >= 1 THEN s[r.i - k] ELSE Nul IN
  CASE s[r.i] = "/" /\ Before(1) = "." ->
         [r EXCEPT !.i = IF Before(2) = "." THEN @ - 3 ELSE @ - 2]
    [] OTHER -> [r EXCEPT !.i = @ - 1, !.out = <<s[r.i]>> \o @, !.room = @ - 1]

\* One iteration of resolve_full_path, at position r.i of the text: "out" is the
\* text copied so far, "room" what is left of the buffer, "parents" the number of
\* components still to be skipped.
NextScan(s, r) ==
  LET Before(k) == IF r.i - k >= 1 THEN s[r.i - k] ELSE Nul IN
  CASE s[r.i] = "/" /\ Before(1) = "." /\ Before(2) = "." ->
         [r EXCEPT !.i = @ - 3, !.parents = @ + 1]
    [] s[r.i] = "/" /\ Before(1) = "." /\ Before(2) # "." -> [r EXCEPT !.i = @ - 2]
    [] s[r.i] = "/" /\ Before(1) = "/" -> [r EXCEPT !.i = @ - 1]
    [] s[r.i] = "/" /\ Before(1) \notin {".", "/"} /\ r.parents > 0 ->
         [r EXCEPT !.i = SlashBefore(s, @), !.parents = @ - 1]
    [] OTHER -> [r EXCEPT !.i = @ - 1, !.out = <<s[r.i]>> \o @, !.room = @ - 1]

\* The loop of resolve_full_path, backwards from the end of the text.
Scan(s, len, room) ==
  LET after[n \in 0..len] ==
        IF n = 0 THEN [i |-> len, parents |-> 0, out |-> <<>>, room |-> room]
        ELSE LET r == after[n - 1] IN
             IF r.i = 0 \/ r.room = 0 THEN r ELSE NextScan(s, r)
  IN after[len]

\* find_parent_dentry
ParentEnd(dir, n) ==
  IF n = 0 THEN Len(dir)
  ELSE LET found == NthSlash(dir, n, 1, Len(dir) - 1) IN
       IF found # {} THEN CHOOSE k \in found : TRUE ELSE 1
=============================================================================
