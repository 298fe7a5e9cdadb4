------------------------------ MODULE ExecText ------------------------------
(***************************************************************************)
(* What the log says about an execve (execve.bpf.c, execve.c): the enter   *)
(* program copies the file name and the arguments into the scratch element *)
(* of its CPU and from there into the map; the exit program of the thread  *)
(* makes the record that the callback prints.  The scratch element keeps   *)
(* what earlier calls on the CPU left in it.                               *)
(***************************************************************************)
EXTENDS PathNames

CONSTANTS
  Nul,       \* the terminator of a string
  Char,      \* the other characters
  Fault,     \* a pointer that cannot be read
  Outside,   \* text from outside the record or the buffer, if reading it is survived
  Threads,   \* the threads that run on the CPU
  PathSize,  \* PATH_SIZE
  ArgSize,   \* ARG_SIZE
  MaxArgs,   \* MAX_ARGS
  ArgsSize,  \* ARGS_SIZE, less than MAX_ARGS * ARG_SIZE
  Cwd,       \* the text of the working directory
  FileNames, \* what the threads call execve with
  ArgLists,
  MaxCalls   \* bound on the calls of a behaviour

INSTANCE ResolvePath

\* Strings end before the first terminator.  What cannot be read is no string.
ASSUME TextAssumption ==
  /\ Nul \notin Char /\ {" ", "/", "."} \subseteq Char
  /\ Fault \notin Seq(Char)
  /\ FileNames \subseteq Seq(Char) \cup {Fault}
  /\ ArgLists \subseteq Seq(Seq(Char) \cup {Fault})

\* What read_path makes of a directory.
ASSUME CwdAssumption == Cwd \in Seq(Char) /\ DirText(Cwd)

\* 4096, 256, 8192 and 128 in the code.
ASSUME SizeAssumption ==
  /\ PathSize \in Nat /\ PathSize >= 2
  /\ ArgSize \in Nat \ {0} /\ ArgsSize \in Nat /\ ArgSize <= ArgsSize
  /\ MaxArgs \in Nat \ {0}

VARIABLES
  scratch,  \* sys_enter_execve_array of the CPU
  running,  \* the thread whose enter program runs, if any
  arg,      \* i and offset of read_argv
  calling,  \* calling[t]: the call of thread t, if it is in one
  entry,    \* entry[t]: the entry of thread t in the map, if any
  printed,  \* the text last printed and the call it is about, if any
  ncalls    \* the number of calls begun

vars == <<scratch, running, arg, calling, entry, printed, ncalls>>

Blank(n) == [k \in 1..n |-> Nul]

Init ==
  /\ scratch = [str |-> Blank(PathSize), len |-> 0, argv |-> Blank(ArgsSize),
                errors |-> FALSE]
  /\ running = {}
  /\ arg = [i |-> 0, offset |-> 0]
  /\ calling = [t \in Threads |-> {}]
  /\ entry = [t \in Threads |-> {}]
  /\ printed = {}
  /\ ncalls = 0

\* bpf_probe_read_user_str of string s to the size bytes of mem from position at:
\* "ret" is the length with the terminator; what cannot be read leaves zeros.
Copied(s, size) == SubSeq(s, 1, IF Len(s) < size THEN Len(s) ELSE size - 1)

ReadUser(mem, at, size, s) ==
  IF s = Fault
  THEN [ret |-> -1, mem |-> [k \in DOMAIN mem |->
                               IF k \in at..(at + size - 1) THEN Nul ELSE mem[k]]]
  ELSE LET c == Append(Copied(s, size), Nul) IN
       [ret |-> Len(c), mem |-> [k \in DOMAIN mem |->
          IF k \in at..(at + Len(c) - 1) THEN c[k - at + 1] ELSE mem[k]]]

\* The string that argv[0] points to.
FirstArg(args) == IF args = <<>> THEN Fault ELSE args[1]

\* Variant of ReadFilename for the mutation checks: the errors stay.
ReadFilenameErrors(t, file, args) ==
  LET r == ReadUser(scratch.str, 1, PathSize, file)
      q == ReadUser(r.mem, 1, PathSize, FirstArg(args)) IN
  /\ running = {} /\ calling[t] = {} /\ ncalls < MaxCalls
  /\ scratch' =
       [scratch EXCEPT
          !.errors = @ \/ r.ret < 0 \/ (r.ret = 1 /\ q.ret < 0),
          !.str = IF r.ret = 1 THEN q.mem ELSE r.mem,
          !.len = IF r.ret = 1 THEN @ ELSE r.ret]
  /\ running' = {t}
  /\ arg' = [i |-> 0, offset |-> 0]
  /\ calling' = [calling EXCEPT ![t] = {[file |-> file, args |-> args]}]
  /\ ncalls' = ncalls + 1
  /\ UNCHANGED <<entry, printed>>

\* on_sys_enter_execve, until read_argv: an empty name is replaced by the first
\* argument, whose length is not stored.
ReadFilename(t, file, args) ==
  LET r == ReadUser(scratch.str, 1, PathSize, file)
      q == ReadUser(r.mem, 1, PathSize, FirstArg(args)) IN
  /\ running = {} /\ calling[t] = {} /\ ncalls < MaxCalls
  /\ scratch' =
       [scratch EXCEPT
          !.errors = r.ret < 0 \/ (r.ret = 1 /\ q.ret < 0),
          !.str = IF r.ret = 1 THEN q.mem ELSE r.mem,
          !.len = IF r.ret = 1 THEN @ ELSE r.ret]
  /\ running' = {t}
  /\ arg' = [i |-> 0, offset |-> 0]
  /\ calling' = [calling EXCEPT ![t] = {[file |-> file, args |-> args]}]
  /\ ncalls' = ncalls + 1
  /\ UNCHANGED <<entry, printed>>

Args(t) == (CHOOSE c \in calling[t] : TRUE).args

\* The enter program ends: the whole scratch element is copied into the map.
Store(t, s) ==
  /\ scratch' = s
  /\ entry' = [entry EXCEPT ![t] = {s}]
  /\ running' = {}
  /\ UNCHANGED <<arg, calling, printed, ncalls>>

\* One iteration of read_argv.
ReadArg(t) ==
  LET r == ReadUser(scratch.argv, arg.offset + 1, ArgSize, Args(t)[arg.i + 1]) IN
  /\ running = {t}
  /\ arg.i < MaxArgs /\ arg.i < Len(Args(t))
  /\ arg.offset <= ArgsSize - ArgSize
  /\ r.ret >= 0
  /\ scratch' = [scratch EXCEPT
       !.argv = IF arg.offset = 0 THEN r.mem ELSE [r.mem EXCEPT ![arg.offset] = " "]]
  /\ arg' = [i |-> arg.i + 1, offset |-> arg.offset + r.ret]
  /\ UNCHANGED <<running, calling, entry, printed, ncalls>>

\* read_argv is through with the arguments, or with its iterations.
ReadArgvEnds(t) ==
  /\ running = {t}
  /\ arg.i = MaxArgs \/ arg.i = Len(Args(t))
  /\ Store(t, scratch)

\* read_argv has no room for another argument, or meets one it cannot read.
ReadArgvFails(t) ==
  /\ running = {t}
  /\ arg.i < MaxArgs /\ arg.i < Len(Args(t))
  /\ \/ /\ arg.offset > ArgsSize - ArgSize
        /\ Store(t, [scratch EXCEPT !.errors = TRUE])
     \/ /\ arg.offset <= ArgsSize - ArgSize
        /\ Args(t)[arg.i + 1] = Fault
        /\ Store(t, [scratch EXCEPT !.errors = TRUE,
             !.argv = ReadUser(@, arg.offset + 1, ArgSize, Fault).mem])

\* What fputs prints of a text in memory; without a terminator it reads on.
Printed(s) ==
  LET ends == {k \in DOMAIN s : s[k] = Nul} IN
  IF ends = {} THEN Append(s, Outside)
  ELSE SubSeq(s, 1, (CHOOSE k \in ends : \A j \in ends : k <= j) - 1)

\* fprint_full_path: str is the memory of the name, of which len bytes count.  The
\* directory is left out where the buffer has no room for it, and the buffer has
\* no terminator where those bytes have none.
Full(dir, str, len, room) ==
  IF str = <<>> \/ str[1] = Nul THEN <<>>
  ELSE LET r == Scan(str, len, room)
           end == ParentEnd(dir, r.parents) IN
       Printed(IF str[1] = "/" THEN <<"/">> \o r.out
               ELSE IF end > r.room THEN r.out
               ELSE SubSeq(dir, 1, end) \o r.out)

\* The text of the file name: fprint_sys_execve prints an absolute name as it
\* is, any other behind the directory.  A length that is none (a negative result,
\* stored as an unsigned number) makes it read outside the record.
FileText(e) ==
  IF e.str[1] = "/" THEN Printed(e.str)
  ELSE IF e.len < 0 /\ e.str[1] # Nul THEN <<Outside>>
  ELSE Full(Cwd, e.str, e.len, PathSize)

\* Variant of SysExit for the mutation checks: the exit program reads the
\* scratch element of its CPU.
SysExitScratch(t) ==
  /\ running = {} /\ entry[t] # {}
  /\ printed' = {[call |-> CHOOSE c \in calling[t] : TRUE, errors |-> scratch.errors,
                  file |-> FileText(scratch), argv |-> Printed(scratch.argv)]}
  /\ calling' = [calling EXCEPT ![t] = {}]
  /\ entry' = [entry EXCEPT ![t] = {}]
  /\ UNCHANGED <<scratch, running, arg, ncalls>>

\* on_sys_exit_execve makes the record and deletes the entry; the callback
\* prints the record.
SysExit(t) ==
  /\ running = {}
  /\ \E e \in entry[t], c \in calling[t] :
       printed' = {[call |-> c, errors |-> e.errors,
                    file |-> FileText(e), argv |-> Printed(e.argv)]}
  /\ calling' = [calling EXCEPT ![t] = {}]
  /\ entry' = [entry EXCEPT ![t] = {}]
  /\ UNCHANGED <<scratch, running, arg, ncalls>>

Next ==
  \E t \in Threads :
    \/ \E file \in FileNames, args \in ArgLists : ReadFilename(t, file, args)
    \/ ReadArg(t)
    \/ ReadArgvEnds(t)
    \/ ReadArgvFails(t)
    \/ SysExit(t)

Spec == Init /\ [][Next]_vars

-----------------------------------------------------------------------------
(* Properties *)

\* The arguments with a space between them.
Joined(args) ==
  Tail(FlattenSeq([k \in DOMAIN args |-> <<" ">> \o args[k]]))

\* The arguments that read_argv looks at, and what it keeps of them.
Looked(args) == SubSeq(args, 1, IF Len(args) <= MaxArgs THEN Len(args) ELSE MaxArgs)
Kept(args) == [k \in DOMAIN Looked(args) |-> Copied(args[k], ArgSize)]

\* A record without errors has the arguments of its call, as far as read_argv
\* looks at them and each cut to its length, however many threads use the CPU
\* between the call's entry and its exit.  Not so without arguments: then those
\* of an earlier call on the CPU are still in the scratch element.
ArgvRight ==
  \A p \in printed : LET args == p.call.args IN
    ~p.errors /\ args # <<>>
    => /\ \A k \in DOMAIN Looked(args) : args[k] # Fault
       /\ p.argv = Joined(Kept(args))

\* The names that resolve_full_path misreads: a component before a slash that
\* ends with a dot and is neither "." nor "..".
MisreadFull(name) ==
  \E k \in 1..(Len(name) - 1) :
    /\ name[k] = "." /\ name[k + 1] = "/"
    /\ ~ComponentAt(name, k) /\ ~ParentAt(name, k - 1)

\* A record without errors names the file of its call: an absolute name as it
\* is, a relative one behind the directory, unless the two together have no room
\* in the buffer.  Of a call with an empty name the record shows the first
\* argument, cut where the length of an earlier call's name ends, and then what
\* is found up to a terminator; where that call's name could not be read, its
\* length is none at all.
FileRight ==
  \A p \in printed : LET name == p.call.file IN
    ~p.errors /\ name # <<>>
    => /\ name # Fault
       /\ \/ Len(name) >= PathSize
          \/ name[1] = "/" /\ p.file = name
          \/ /\ name[1] # "/"
             /\ \/ MisreadFull(name)
                \/ Len(Cwd) + Len(name) >= PathSize
                \/ NamesSame(p.file, Cwd, name)

\* A record has errors only where its own call is the cause: a name or argument
\* that could not be read, or arguments that may leave no room for another.
ErrorsTrue ==
  \A p \in printed : LET args == p.call.args IN
    p.errors =>
      \/ p.call.file = Fault
      \/ p.call.file = <<>> /\ FirstArg(args) = Fault
      \/ \E k \in DOMAIN Looked(args) : args[k] = Fault
      \/ args # <<>> /\ Len(Joined(Kept(args))) + 1 > ArgsSize - ArgSize
=============================================================================
