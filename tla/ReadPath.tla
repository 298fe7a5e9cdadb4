------------------------------ MODULE ReadPath ------------------------------
(***************************************************************************)
(* read_path (bpf/helpers.h): the path of a file or directory, written     *)
(* from the end of a buffer towards its start, a dentry at a time, across  *)
(* mount points.  The loop has a fixed number of iterations, each of them  *)
(* takes one name or crosses one mount.                                    *)
(***************************************************************************)
EXTENDS Integers, Sequences, SequencesExt, FiniteSetsExt

CONSTANTS
  Size,        \* PATH_SIZE, the bytes of path_dentries.data
  NameSize,    \* DENTRY_NAME_SIZE, one more than the bytes of a longest name
  MaxDentries, \* MAX_DENTRIES
  Slash, Nul,  \* two characters
  Chars,       \* the other characters
  Targets      \* the files and directories a behaviour may be about

ASSUME CharsAssumption == Nul # Slash /\ Nul \notin Chars

\* A name is up to NameSize - 1 characters.
Names == UNION {[1..n -> Chars] : n \in 1..(NameSize - 1)}

\* "mounts" has for every mount, from that of the file to the root of all, the
\* names from the file or the mount point up to the root of the mount.  The root
\* of a detached file is that of no mount (a pipe, a socket); isDir tells what
\* the caller of read_path says, which is not always what the file is.
ASSUME TargetsAssumption ==
  \A x \in Targets :
    /\ x.mounts \in Seq(Seq(Names)) /\ x.mounts # <<>>
    /\ x.detached \in BOOLEAN
    /\ x.isDir \in BOOLEAN

\* 12 * 255 + 2 < 4096 in the code.
ASSUME BufferAssumption ==
  /\ Size \in Nat /\ NameSize \in Nat \ {0} /\ MaxDentries \in Nat
  /\ MaxDentries * (NameSize - 1) + 2 <= Size

VARIABLES
  target,  \* the file that the caller resolves
  mnt,     \* the mount of the dentry
  parent,  \* mnt_parent: 0 (NULL) until a mount point was crossed
  up,      \* the names of the mount that the walk has passed
  steps,   \* the iterations of the loop that have ended
  offset,  \* where the text begins
  data,    \* the buffer
  phase    \* "walk", "done", "failed"

vars == <<target, mnt, parent, up, steps, offset, data, phase>>

Min2(a, b) == IF a <= b THEN a ELSE b

\* The root of all is mounted on itself.
ParentMount(m) == Min2(m + 1, Len(target.mounts))

Init ==
  /\ target \in Targets
  /\ mnt = 1
  /\ parent = 0
  /\ up = 0
  /\ steps = 0
  /\ offset = Size - (IF target.isDir THEN 1 ELSE 0)
  /\ data = [i \in 0..(Size - 1) |-> Nul]
  /\ phase = "walk"

\* dentry == dentry_parent, or dentry == mnt_root
AtTop == up = Len(target.mounts[mnt])

AtMountRoot == AtTop /\ ~(target.detached /\ mnt = 1)

\* The root of a mount, but not known to be the root of all: the walk goes on
\* at the mount point.
CrossMount ==
  /\ phase = "walk" /\ steps < MaxDentries
  /\ AtMountRoot
  /\ mnt # parent
  /\ mnt' = ParentMount(mnt)
  /\ parent' = ParentMount(ParentMount(mnt))
  /\ up' = IF mnt = Len(target.mounts) THEN up ELSE 0
  /\ steps' = steps + 1
  /\ UNCHANGED <<target, offset, data, phase>>

Name == target.mounts[mnt][up + 1]

\* Variant of NameLen for the mutation checks: without the mask.
NameLenWhole == Len(Name) + 1

\* d_name.len + 1 for the terminator, masked for the verifier.
NameLen == (Len(Name) + 1) % NameSize

\* offset - len > size: the unsigned difference wraps around.
TooLong == offset < NameLen \/ offset - NameLen > Size

\* Variant of WithName for the mutation checks: the terminator stays.
WithNameEnded ==
  [i \in DOMAIN data |->
     CASE i = offset - 1 /\ NameLen > 0 -> Nul
       [] i \in (offset - NameLen)..(offset - 2) -> Name[i - (offset - NameLen) + 1]
       [] OTHER -> data[i]]

\* The buffer after bpf_core_read_str(&data[offset - len], len, name), and the
\* slash in place of the terminator unless it ends the text.
WithName ==
  [i \in DOMAIN data |->
     CASE i = offset - 1 /\ i < Size - 1 -> Slash
       [] i = offset - 1 /\ i = Size - 1 /\ NameLen > 0 -> Nul
       [] i \in (offset - NameLen)..(offset - 2) -> Name[i - (offset - NameLen) + 1]
       [] OTHER -> data[i]]

\* Variant of TakeName for the mutation checks: a name more than fits.
TakeNameLong ==
  /\ phase = "walk" /\ steps <= MaxDentries
  /\ ~AtTop
  /\ phase' = IF TooLong THEN "failed" ELSE "walk"
  /\ IF TooLong THEN UNCHANGED <<data, offset>>
     ELSE data' = WithName /\ offset' = offset - NameLen
  /\ up' = up + 1
  /\ steps' = steps + 1
  /\ UNCHANGED <<target, mnt, parent>>

\* The name of the dentry is put before the text.
TakeName ==
  /\ phase = "walk" /\ steps < MaxDentries
  /\ ~AtTop
  /\ phase' = IF TooLong THEN "failed" ELSE "walk"
  /\ IF TooLong THEN UNCHANGED <<data, offset>>
     ELSE data' = WithName /\ offset' = offset - NameLen
  /\ up' = up + 1
  /\ steps' = steps + 1
  /\ UNCHANGED <<target, mnt, parent>>

\* Variant of Finish for the mutation checks: a mount point ends the walk.
FinishAtMount ==
  /\ phase = "walk"
  /\ steps = MaxDentries \/ AtTop
  /\ data' = [data EXCEPT ![(offset - 1) % Size] = Slash, ![Size - 1] = Nul]
  /\ offset' = offset - 1
  /\ phase' = "done"
  /\ UNCHANGED <<target, mnt, parent, up, steps>>

\* The loop ends at the root of all, at the root of a detached file, or because
\* it has no iteration left.  The last byte becomes the terminator last.
Finish ==
  /\ phase = "walk"
  /\ \/ steps = MaxDentries
     \/ AtTop /\ (AtMountRoot => mnt = parent)
  /\ data' = [data EXCEPT ![(offset - 1) % Size] = Slash, ![Size - 1] = Nul]
  /\ offset' = offset - 1
  /\ phase' = "done"
  /\ UNCHANGED <<target, mnt, parent, up, steps>>

Next == CrossMount \/ TakeName \/ Finish

Spec == Init /\ [][Next]_vars

\* The text from the offset to the terminator, which is what a callback finds.
PathText ==
  LET end == Min({i \in offset..(Size - 1) : data[i] = Nul}) IN
  [i \in 1..(end - offset) |-> data[offset + i - 1]]

-----------------------------------------------------------------------------
(* Properties *)

TypeOK ==
  /\ target \in Targets
  /\ mnt \in 1..Len(target.mounts)
  /\ parent \in 0..Len(target.mounts)
  /\ up \in 0..Len(target.mounts[mnt])
  /\ steps \in 0..MaxDentries
  /\ offset \in 0..Size
  /\ data \in [0..(Size - 1) -> Chars \union {Slash, Nul}]
  /\ phase \in {"walk", "done", "failed"}

\* Every byte that an iteration writes is inside the buffer and the text begins
\* inside it: neither the mask of the verifier nor the check for a long name is
\* ever what keeps a write inside.
StaysInside ==
  /\ phase # "failed"
  /\ phase = "walk" => offset >= 1
  /\ phase = "walk" /\ steps < MaxDentries /\ ~AtTop => NameLen <= offset

\* What each iteration has left at least: the inductive invariant.
RoomLeft ==
  /\ TypeOK
  /\ phase # "failed"
  /\ phase = "walk" => offset >= 1 + (MaxDentries - steps) * (NameSize - 1)

\* All names from the root of the tree to the target, and the text they make.
AllNames == Reverse(FlattenSeq(target.mounts))

TrueText ==
  FlattenSeq([k \in DOMAIN AllNames |-> <<Slash>> \o AllNames[k]])
    \o IF target.isDir \/ AllNames = <<>> THEN <<Slash>> ELSE <<>>

\* The iterations it takes to get to the root.
Needed == Len(AllNames) + Len(target.mounts) - 1

\* The path in a record is that of the file.  Three kinds of files have another:
\* one whose walk takes more iterations than the loop has, of which the last
\* components are taken for a path from the root; a name of the greatest length,
\* which is left out; and what lies in no mount (a detached file, whose walk
\* stops at its own top).  And the root itself has no text unless the caller
\* knows that it is a directory.
PathRight ==
  /\ phase = "done" /\ ~target.detached /\ Needed <= MaxDentries
  /\ AllNames = <<>> => target.isDir
  /\ \A k \in DOMAIN AllNames : Len(AllNames[k]) < NameSize - 1
  => PathText = TrueText

\* A deeper path loses its first components and nothing else, so what is printed
\* is a true path of the file from some directory above it.
DeepPathIsEnd ==
  /\ phase = "done" /\ ~target.detached
  /\ \A k \in DOMAIN AllNames : Len(AllNames[k]) < NameSize - 1
  => IsSuffix(PathText, TrueText)
=============================================================================
