----------------------------- MODULE PathNames -----------------------------
(***************************************************************************)
(* What the text of a path names: the components that it leads to when it  *)
(* is followed from the root, a character at a time.  The texts that the   *)
(* callbacks print are compared with this.                                 *)
(***************************************************************************)
EXTENDS Integers, Sequences, SequencesExt

\* The directories entered so far, and the characters since the last slash.
Root == [done |-> <<>>, cur |-> <<>>]

\* Component c in the directory that is reached by done.
EnterComponent(done, c) ==
  IF c \in {<<>>, <<".">>} THEN done
  ELSE IF c = <<".", ".">> THEN (IF done = <<>> THEN done ELSE Front(done))
  ELSE Append(done, c)

FollowChar(r, ch) ==
  IF ch = "/" THEN [done |-> EnterComponent(r.done, r.cur), cur |-> <<>>]
  ELSE [r EXCEPT !.cur = Append(@, ch)]

\* Where the text leads from r.
LeadsTo(r, text) ==
  LET at[n \in 0..Len(text)] ==
        IF n = 0 THEN r ELSE FollowChar(at[n - 1], text[n])
  IN at[Len(text)]

\* The components that a text names when it is followed from the root.
Denoted(path) == LeadsTo(Root, path \o <<"/">>).done

\* The text names, from the root, what name means in directory dir.
NamesSame(text, dir, name) ==
  /\ IsPrefix(<<"/">>, text)
  /\ Denoted(text) = Denoted(dir \o name)

\* A component of the name begins at position k.
ComponentAt(name, k) == k \in 1..Len(name) /\ (k = 1 \/ name[k - 1] = "/")

\* The component there is empty, or begins with two dots.
EmptyAt(name, k) == ComponentAt(name, k) /\ name[k] = "/"
DotsAt(name, k) ==
  ComponentAt(name, k) /\ k < Len(name) /\ name[k] = "." /\ name[k + 1] = "."

\* It is "..".
ParentAt(name, k) ==
  DotsAt(name, k) /\ (k + 1 = Len(name) \/ name[k + 2] = "/")

\* The text of a directory: it begins and ends with a slash, and no component is
\* empty, "." or "..".
DirText(dir) ==
  /\ dir # <<>> /\ dir[1] = "/" /\ dir[Len(dir)] = "/"
  /\ \A k \in 1..(Len(dir) - 1) : dir[k] = "/" =>
       /\ dir[k + 1] # "/"
       /\ ~(dir[k + 1] = "." /\ dir[k + 2] = "/")
       /\ ~(dir[k + 1] = "." /\ dir[k + 2] = "." /\ dir[k + 3] = "/")
=============================================================================
