------------------------------- MODULE AtCalls -------------------------------
(***************************************************************************)
(* What the log says about a call that names files: read, unlink, chmod,   *)
(* chown and rename with their variants (file.bpf.c, file.c).  The enter   *)
(* program copies names and descriptors; the exit program chooses a layout *)
(* for the record, looks the descriptors up once more, in the table as it  *)
(* is then, and the callback reads the layout back from the types of the   *)
(* names.  Ring memory is not cleared: what a program leaves out is what   *)
(* an earlier record left there.                                           *)
(***************************************************************************)
EXTENDS Integers, Sequences, SequencesExt

CONSTANTS
  Char,     \* the characters of names and paths
  Fds,      \* the descriptors
  Cwd,      \* AT_FDCWD, one of them
  Dirs,     \* the paths of directories, sequences that begin with Slash
  Files,    \* the paths of regular files
  Closed,   \* the entry of a descriptor that is not open
  Names,    \* the names that calls give, sequences
  NoName,   \* the name of a call that has none
  Slash,    \* the beginning of an absolute name
  Stale,    \* text that an earlier record left in the ring
  Outside,  \* text from behind the end of a record
  MaxMoves  \* bound on the changes of the table in a behaviour

\* What stands for something else than a path is told from paths.
ASSUME TextAssumption ==
  /\ Dirs \cup Files \cup Names \subseteq Seq(Char)
  /\ Closed \notin Dirs \cup Files
  /\ NoName \notin Names
  /\ Stale \notin Char /\ Outside \notin Char /\ Stale # Outside

VARIABLES
  fds,      \* the table of the process, shared by its threads
  calling,  \* the call of the thread that is followed, if it is in one
  entry,    \* its entry in the map, if any
  printed,  \* what the log last said and the call it is about, if any
  nmoves    \* the number of changes of the table

vars == <<fds, calling, entry, printed, nmoves>>

Arg(fd, name) == [fd |-> fd, name |-> name]
Call(family, args, empty) == [family |-> family, args |-> args, empty |-> empty]

\* The calls, with AT_EMPTY_PATH or without: fchmod passes the flag, fchown does
\* not; the plain variants pass AT_FDCWD.
Calls ==
  LET at == {Arg(fd, name) : fd \in Fds, name \in Names}
      open == {Arg(fd, NoName) : fd \in Fds \ {Cwd}}
  IN {Call("read", <<x>>, FALSE) : x \in open}
     \cup {Call("unlink", <<x>>, FALSE) : x \in at}
     \cup {Call(f, <<x>>, e) : f \in {"chmod", "chown"}, x \in at, e \in BOOLEAN}
     \cup {Call("chmod", <<x>>, TRUE) : x \in open}
     \cup {Call("chown", <<x>>, FALSE) : x \in open}
     \cup {Call("rename", <<x, y>>, FALSE) : x \in at, y \in at}

Init ==
  /\ fds \in [Fds -> Dirs \cup Files \cup {Closed}]
  /\ fds[Cwd] \in Dirs
  /\ calling = {}
  /\ entry = {}
  /\ printed = {}
  /\ nmoves = 0

\* The test of the programs for an absolute name: its first character.
Absolute(name) == name # <<>> /\ name[1] = Slash

\* What the enter program keeps of argument k: a name that cannot be read, as
\* NULL cannot, leaves zeros and an error; with AT_EMPTY_PATH it does not look.
NameRead(c, k, unread) ==
  IF c.family \in {"chmod", "chown"} /\ c.empty THEN <<>>
  ELSE IF c.args[k].name = NoName \/ k \in unread THEN <<>>
  ELSE c.args[k].name

NameErrors(c, unread) ==
  IF c.family = "read" \/ (c.family \in {"chmod", "chown"} /\ c.empty) THEN {}
  ELSE {"filename" : k \in {k \in DOMAIN c.args :
                              c.args[k].name = NoName \/ k \in unread}}

\* on_sys_enter_*: read is left out unless the descriptor is a regular file.
\* "unread" are the arguments whose names are not in memory.
Enter(c, unread) ==
  /\ calling = {}
  /\ c.family = "read" => fds[c.args[1].fd] \in Files
  /\ calling' = {[call |-> c, unread |-> unread, did |-> <<>>, moved |-> FALSE]}
  /\ entry' = {[family |-> c.family, errors |-> NameErrors(c, unread),
                fds   |-> [k \in DOMAIN c.args |-> c.args[k].fd],
                names |-> [k \in DOMAIN c.args |-> NameRead(c, k, unread)]]}
  /\ printed' = {}
  /\ UNCHANGED <<fds, nmoves>>

\* What the kernel takes argument a for; none if it does not exist.
Denoted(c, a) ==
  LET at == fds[a.fd] IN
  IF a.name \in {NoName, <<>>}
  THEN IF a.name = NoName \/ c.empty THEN {at} \ {Closed} ELSE {}
  ELSE IF Absolute(a.name) THEN {a.name}
  ELSE {d \o a.name : d \in {at} \cap Dirs}

\* The system call itself, between the two programs.
Act ==
  \E now \in calling : LET args == now.call.args IN
    /\ now.did = <<>>
    /\ \E did \in [DOMAIN args -> UNION {Denoted(now.call, args[k]) : k \in DOMAIN args}] :
         /\ \A k \in DOMAIN args : did[k] \in Denoted(now.call, args[k])
         /\ calling' = {[now EXCEPT !.did = did]}
    /\ UNCHANGED <<fds, entry, printed, nmoves>>

\* Another thread of the process opens, closes or replaces a descriptor, or
\* changes the directory.
Move(fd, at) ==
  /\ nmoves < MaxMoves
  /\ at # fds[fd] /\ (fd = Cwd => at \in Dirs)
  /\ fds' = [fds EXCEPT ![fd] = at]
  /\ nmoves' = nmoves + 1
  /\ calling' = {[now EXCEPT !.moved = TRUE] : now \in calling}
  /\ UNCHANGED <<entry, printed>>

-----------------------------------------------------------------------------
(* The exit programs *)

\* read_fd_path: of a descriptor that is not open nothing is written.
FdPath(fd) == IF fds[fd] = Closed THEN <<Stale>> ELSE fds[fd]

\* Variant of FdErrors for the mutation checks: the failure is not noticed.
FdErrorsNone(fd) == {}

FdErrors(fd) == IF fds[fd] = Closed THEN {"fd"} ELSE {}

\* A record: the types of its names, the texts it has members for, its error.
Record(types, texts, samedir, errors) ==
  [types |-> types, texts |-> texts, samedir |-> samedir, errors |-> errors]

\* on_sys_exit_unlink.
UnlinkRecord(e) ==
  LET name == e.names[1] fd == e.fds[1] IN
  IF Absolute(name)
  THEN Record(<<"absolute">>, [filename |-> name], FALSE, e.errors)
  ELSE Record(<<"relative">>, [filename |-> name, dir |-> FdPath(fd)], FALSE,
              e.errors \cup FdErrors(fd))

\* on_sys_exit_chmod, on_sys_exit_chown.
ChmodRecord(e) ==
  LET name == e.names[1] fd == e.fds[1] IN
  IF name = <<>>
  THEN Record(<<"fd">>, [file |-> FdPath(fd)], FALSE, e.errors \cup FdErrors(fd))
  ELSE UnlinkRecord(e)

\* on_sys_exit_read.
ReadRecord(e) ==
  LET fd == e.fds[1] IN
  Record(<<"fd">>, [file |-> FdPath(fd)], FALSE, e.errors \cup FdErrors(fd))

\* Of a rename the record has both names, and one directory or two or none.
NamesOnly(e) == [oldname |-> e.names[1], newname |-> e.names[2]]

RenameatTexts(e, fd) ==
  [dir |-> FdPath(fd), oldname |-> e.names[1], newname |-> e.names[2]]

\* fill_sys_renameat decides before the names are in the record: "slash" says
\* whether the name left there by an earlier record is absolute.
RenameatTypes(e, slash) ==
  IF e.fds[1] = e.fds[2] THEN <<"relative", "relative">>
  ELSE IF slash THEN <<"absolute", "relative">>
  ELSE <<"relative", "absolute">>

\* Variant of Renameat2Texts for the mutation checks: swapped.
Renameat2TextsSwapped(e) ==
  [olddir |-> FdPath(e.fds[2]), newdir |-> FdPath(e.fds[1]),
   oldname |-> e.names[1], newname |-> e.names[2]]

\* fill_sys_renameat2.
Renameat2Texts(e) ==
  [olddir |-> FdPath(e.fds[1]), newdir |-> FdPath(e.fds[2]),
   oldname |-> e.names[1], newname |-> e.names[2]]

\* on_sys_exit_rename; the errors of read_fd_path are overwritten.
RenameRecord(e, slash) ==
  LET same == e.fds[1] = e.fds[2]
      types == RenameatTypes(e, slash)
      fd == IF types[1] = "absolute" THEN e.fds[2] ELSE e.fds[1]
  IN
  IF Absolute(e.names[1]) /\ Absolute(e.names[2])
  THEN Record(<<"absolute", "absolute">>, NamesOnly(e), same, e.errors)
  ELSE IF ~Absolute(e.names[1]) /\ ~Absolute(e.names[2]) /\ ~same
  THEN Record(<<"relative", "relative">>, Renameat2Texts(e), same, e.errors)
  ELSE Record(types, RenameatTexts(e, fd), same, e.errors)

RecordOf(e, slash) ==
  CASE e.family = "read" -> ReadRecord(e)
    [] e.family = "unlink" -> UnlinkRecord(e)
    [] e.family \in {"chmod", "chown"} -> ChmodRecord(e)
    [] e.family = "rename" -> RenameRecord(e, slash)

-----------------------------------------------------------------------------
(* The callbacks *)

\* The text that the callback finds where it takes a member to be.
Text(r, member) ==
  IF member \in DOMAIN r.texts THEN r.texts[member] ELSE <<Outside>>

\* fprint_relative_filename, which prints nothing of an empty name.
Joined(dir, name) == IF name = <<>> THEN <<>> ELSE dir \o name

Behind(r, dir, name) == Joined(Text(r, dir), Text(r, name))

\* fprint_sys_read, fprint_sys_unlink, fprint_sys_chmod, fprint_sys_chown.
PrintedOne(r) ==
  CASE r.types = <<"absolute">> -> <<Text(r, "filename")>>
    [] r.types = <<"fd">> -> <<Text(r, "file")>>
    [] r.types = <<"relative">> -> <<Behind(r, "dir", "filename")>>

\* fprint_sys_renameat.
PrintedRenameat(r) ==
  << IF r.types[1] = "absolute" THEN Text(r, "oldname") ELSE Behind(r, "dir", "oldname"),
     IF r.types[1] = "relative" /\ r.types[2] = "absolute"
       THEN Text(r, "newname") ELSE Behind(r, "dir", "newname") >>

\* Variant of PrintedRename for the mutation checks: samedir is not looked at.
PrintedRenameTypes(r) ==
  IF r.types = <<"absolute", "absolute">>
  THEN <<Text(r, "oldname"), Text(r, "newname")>>
  ELSE IF r.types = <<"relative", "relative">>
  THEN <<Behind(r, "olddir", "oldname"), Behind(r, "newdir", "newname")>>
  ELSE PrintedRenameat(r)

\* fprint_sys_rename and fprint_sys_renameat2.
PrintedRename(r) ==
  IF r.types = <<"absolute", "absolute">>
  THEN <<Text(r, "oldname"), Text(r, "newname")>>
  ELSE IF r.types = <<"relative", "relative">> /\ ~r.samedir
  THEN <<Behind(r, "olddir", "oldname"), Behind(r, "newdir", "newname")>>
  ELSE PrintedRenameat(r)

Printed(r) == IF Len(r.types) = 1 THEN PrintedOne(r) ELSE PrintedRename(r)

\* on_sys_exit_* and the callback, or the exit program alone when the ring has
\* no room.
Exit(slash, room) ==
  /\ \E now \in calling, e \in entry : LET r == RecordOf(e, slash) IN
       printed' = IF room
                  THEN {[call |-> now.call, unread |-> now.unread, did |-> now.did,
                         moved |-> now.moved, paths |-> Printed(r), errors |-> r.errors]}
                  ELSE {}
  /\ calling' = {}
  /\ entry' = {}
  /\ UNCHANGED <<fds, nmoves>>

Next ==
  \/ \E c \in Calls : \E unread \in SUBSET {k \in DOMAIN c.args : c.args[k].name # NoName} :
       Enter(c, unread)
  \/ Act
  \/ \E fd \in Fds, at \in Dirs \cup Files \cup {Closed} : Move(fd, at)
  \/ \E slash \in BOOLEAN, room \in BOOLEAN : Exit(slash, room)

Spec == Init /\ [][Next]_vars

-----------------------------------------------------------------------------
(* Properties *)

\* One name of a rename is absolute and the other is not.
Mixed(c) ==
  /\ c.family = "rename"
  /\ Absolute(c.args[1].name) # Absolute(c.args[2].name)

\* AT_EMPTY_PATH with a name that is not empty: the kernel uses the name.
NamedEmpty(c) ==
  c.empty /\ c.args[1].name \notin {NoName, <<>>}

\* The log shows the paths that the kernel acted on, though the program looks
\* the descriptors up after the call: for all calls whose names could be read
\* and during which no other thread changed the table, except a rename of an
\* absolute and a relative name, and a call with AT_EMPTY_PATH and a name.
PathsRight ==
  \A p \in printed :
    p.did # <<>> /\ ~p.moved /\ p.unread = {} /\ ~Mixed(p.call) /\ ~NamedEmpty(p.call)
    => p.paths = p.did

\* A callback reads only members that its record has: the layout that the exit
\* program chose from names and descriptors is the one the callback finds from
\* the types and samedir, for every mix of names, and whatever the memory held.
LayoutRead ==
  \A p \in printed : \A k \in DOMAIN p.paths : Outside \notin ToSet(p.paths[k])

\* The error of a record tells of each name or descriptor that could not be
\* read, and of nothing else.  Not so a descriptor of rename, whose error is
\* overwritten; fchown, which always has the error of a name it never had; and
\* unlink of an empty name, of which nothing is printed, the descriptor or not.
ErrorsTold ==
  \A p \in printed :
    LET stale == \E k \in DOMAIN p.paths : Stale \in ToSet(p.paths[k])
        fchown == p.call.family = "chown" /\ p.call.args[1].name = NoName
        nothing == p.call.family = "unlink" /\ p.call.args[1].name = <<>>
    IN IF p.call.family = "rename" THEN (p.errors # {}) = (p.unread # {})
       ELSE \/ fchown \/ nothing
            \/ p.call.empty /\ (p.errors # {}) = stale
            \/ ~p.call.empty /\ (p.errors # {}) = (stale \/ p.unread # {})

-----------------------------------------------------------------------------
(* What the comments say, and the code does not do *)

\* Of a rename with one absolute name, the one behind the directory is the
\* other: "Old path is absoulute. New path is relative to the file descriptor."
\* (file.bpf.c:832).
MixedRight ==
  \A p \in printed :
    Mixed(p.call) /\ p.did # <<>> /\ ~p.moved /\ p.unread = {} => p.paths = p.did
=============================================================================
