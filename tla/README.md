# Verification of system_logger

system_logger records what the processes of a Linux machine do. BPF programs
attached to system calls, to the end of a process and to the USB state change
put records into ring buffers (`src/logger/bpf`); a user-space process polls
the rings and appends text to log files (`src/logger`). This directory holds
TLA+ models of it, the TLC configurations that check them, and proofs for
TLAPS.

    tlc -workers 2 -config capture_file.cfg MCCapture.tla
    tlc -workers 2 -config startup.cfg Startup.tla
    tlc -workers 2 -config accounts.cfg MCAccounts.tla
    tlapm CaptureProofs.tla
    tlapm StartupProofs.tla

and so on for the configurations, `SequenceLemmas` and the seven modules `*Proofs`.

`PROJECT.json` lists the components, the runs, the mutated definitions that
each property must reject, the source lines behind each definition, the
findings, the hazards and the theorems.

## Inventory

| Part | Source | State | Operations |
| --- | --- | --- | --- |
| Event handlers | `bpf/*.bpf.c` | none between calls; per-CPU scratch elements | an enter and an exit program per system call; one program for `sched_process_exit`, `accept`, `accept4` and `usb_set_device_state` |
| Maps and rings | `bpf/*.bpf.c` (`SEC(".maps")`) | one hash map and one ring per family of events; the array with the logger's pid | lookup, update, delete; reserve, submit |
| Record contents | `bpf/helpers.h`, `bpf/task.h` | none | `fill_task`, `read_fd_path`, `get_file_from_fd`, `read_argv` |
| Start-up and polling | `bpf.c`, `main.c` | `struct bpf`, `bpf_is_run` | `bpf_init` (open, load, attach, create the rings), `bpf_poll_map_buffers`, `bpf_delete`, signals |
| Command line | `main.c` | `struct bpf_opts` | one option per event and per log file |
| Log callbacks | `file.c`, `execve.c`, `sock.c`, `setid.c`, `process.c`, `mmap.c`, `init_module.c`, `delete_module.c`, `usb_set_device_state.c` | the log files | `sys_*_cb`: open the log, print, close |
| Account files | `file.c`, `file.h` | `users_groups`: the last known text of passwd, group, doas.conf and sudoers | compare with the written or renamed text, replace |
| Difference | `diff.c` | none | `shortest_edit_script`, `longest_common_subseq`, `diff` |
| Texts | `text.c` | the lines of a text | read from a file or from a buffer |
| Paths | `helpers.c` | a list of ranges | `resolve_full_path`, `dentry_ranges_init` |
| Lists | `list.h` | a circular doubly linked list | insert, delete, iterate |
| Hashes | `hash.c`, `execve.h` | a context of OpenSSL | open, hash a file |

How they interact: the programs of one family share a hash map and a ring, in
whatever threads they run. The two programs of a call meet only through the
entry that the enter program stores under the id of its thread. Rings are
written by the programs and read by the single thread of the logger, in
`ring_buffer__poll`, which calls one callback per record. The callbacks open,
write and read files, so the logger makes traced calls of its own; `write` and `read` filter them with the pid that
`create_file_map_buffers` stores.

What is hard about each part, and what makes it correct:

- *Handlers, maps and rings.* Threads interleave, programs are attached one
  by one while calls are under way, maps and rings fill up, a thread changes
  its id in `execve`, a child returns from a `clone` it did not begin. Correct
  means: the two halves of a record belong to one call, an entry makes at most
  one record and does not outlive its call, nothing is lost unless a ring was
  full, the logger reads finished records and all of them, and does not log
  its own reads and writes.
- *Start-up.* Options select skeletons, programs, maps and rings in four
  separate places; each step can fail half way and `bpf_delete` then runs on
  what there is. Correct means: every enabled event has its programs and its
  ring, and deletion touches what was made and nothing else.
- *Record contents.* An enter program reads the arguments, the exit program
  looks descriptors up once more and chooses the layout of the record, the
  callback finds the layout out from the record; memory of rings and scratch
  elements is not cleared in between. Paths are built backwards in a buffer of
  fixed size by a loop with a fixed number of iterations. Correct means: the log
  names the files that the kernel acted on, each record has what its own call
  gave, an error is told where it happened, and nothing is read or written
  outside a record.
- *Account files.* A record of a write brings a text, one of a rename only a
  name, whose file the callback reads later; the records of the two come through
  two rings. Correct means: the baseline becomes the file's text once the changes
  have stopped, the logger survives what it reads, and frees what it replaces.
- *Difference, texts, paths, lists.* Pure algorithms: the script printed turns
  the old text into the new one and is shortest; the lines are the text's
  lines; the resolved path names the same file.

## Modules

| Module | What it is |
| --- | --- |
| `Handlers` | The control behaviour of every event's handler as a record of decisions, the events of each, and the order in which the programs are attached |
| `Capture` | The state machine: threads making calls, the programs, maps, rings, start-up and the poll loop; its properties and inductive invariants |
| `EventLog` | What `Capture` promises, without programs, maps and polls: the abstract specification that it implements |
| `MCCapture` | `Capture` with the handlers of the code, for the events of a run |
| `CaptureProofs` | The invariant of `Capture` and what follows from it; that an entry makes at most one record; that `Capture` implements `EventLog` |
| `SequenceLemmas` | Facts about numbers, sequences and the texts of paths that several proofs need |
| `Startup`, `StartupProofs` | The life of the logger's process: options, skeletons, programs, maps, rings, failures, signal, deletion |
| `ReadPath` | `read_path`: from a dentry to the text of its path, across mounts, and when that is the true one |
| `ResolvePath` | How the callbacks put a relative name behind a directory, as functions on texts |
| `PathNames` | What the text of a path names: where it leads when it is followed from the root. The texts of `Paths` and `ExecText` are compared with this |
| `Paths`, `MCPaths`, `PathsProofs` | `ReadPath` and `ResolvePath` together: from a dentry to the log, with the relative name of a call |
| `ExecText`, `MCExecText`, `ExecTextProofs` | Name and arguments of an `execve`, from the scratch element of a CPU to the log; uses `ResolvePath` |
| `AtCalls`, `MCAtCalls`, `AtCallsProofs` | The calls that name files by descriptors and names: the layout of their records and what is read back from it |
| `Texts` | The lines of a text and the way of a written text into its record, as functions on texts |
| `Near` | Which texts `diff` is shown to compare within its arrays: what `Accounts` takes from `Diff` |
| `Accounts`, `MCAccounts`, `AccountsProofs` | The account files, other processes that change them, the two rings, the baselines; uses `Texts` and `Near` |
| `Diff`, `MCDiff`, `DiffProofs` | The edit script between two texts, a diagonal of the search at a time, with named, interchangeable lines |

`Handlers` is shared by `Capture` and `Startup`. `Capture` says which call a
record is of, `AtCalls`, `ExecText` and `Accounts` what is in it: they take from
`Capture` that an entry is found by its own call (`RecordsPair`), and follow one
family each instead of all of them. `Accounts` ends where the callback has the
two texts, which is where `Diff` begins; of the call it takes back whether it may
write outside its arrays, which it does not where the texts are `Near`
(`NearStaysInside` of `Diff`).

### Capture and the code

| Model | Code |
| --- | --- |
| `loaded`, `Attach` | `bpf_attach`: programs become live one at a time. `EnterAt` and `ExitAt` are positions in that order |
| `ready`, `CreateMapBuffers` | `create_map_buffers`: rings known to the poll loop, pid stored for `is_system_logger_pid` |
| `call[t]` | where thread t is: in user mode, between the two programs, or between reserve and submit |
| `hash[f][t]` | the element of `sys_enter_*_hash` under t's id; number 0 stands for none |
| `ring[f]`, `cons[f]` | the records ever reserved in `*_buf`, with their busy bits, and the consumer position |
| `polling` | the callback that `ring_buffer__poll` is running |
| `SysEnterStore`, `SysEnterSkip` | the enter program, which stores or does not |
| `SysExitMiss`, `SysExitSilent`, `SysExitDrop` | the exit program's early ends: no entry, nothing to send, no room |
| `SysExitReserve`, `SysExitSubmit` | the two halves of an exit program that sends |
| `Rekey` | the kernel's change of a thread's id in `execve` |
| `PollBegin`, `PollEnd`, `PollTimeout` | one callback; a poll that times out |

The handlers of the code are all variations of one shape, which `Capture`
follows once for all of them. `Handlers` says for each event which decisions
its code takes: may the enter program return without storing (`guarded`), do
both return in the logger (`filtered`), is the entry deleted before the record
is reserved (`eager`), may there be nothing to send (`silent`), is the delete
skipped on an error (`leaky`), may the thread's id change (`rekeys`), is there
an enter program at all (`paired`). A program that starts on one CPU runs to
its end there; the scratch element of a CPU is taken to be its program's own.

Data is abstracted to the numbers of calls. A record has the number of the
call whose arguments it carries and of the call whose result it carries, and
for each whether all programs of the event were attached when it began. A
ring holds a number of records, not of bytes.

`EventLog` has a log per family and calls that are owed a record or are not. A
call of `Capture` is under way from its enter program (or its only program) to
the reservation; `Finish` is the submit and `Take` the start of the callback.
What is owed is decided when the call begins: the programs of its event are
attached by then, its thread has room in the map, and its handler has no way
out but a full ring.

### Startup and the code

| Model | Code |
| --- | --- |
| `enabled`, `SetOption` | the `*_enable` fields of `struct bpf_opts` and the loop over the options in `main` |
| `phase`, `at` | where `main`, `bpf_init` or `bpf_delete` is: the phase, and the skeleton or ring that is next in its order |
| `part[p]` | a member of `struct bpf`: as `malloc` left it, NULL, assigned, or destroyed |
| `SkelOptions`, `MapOptions` | the macros `*_SKEL_DISABLED` and `*_MAP_ENABLED`, as they are written |
| `Loaded`, `Rejected` | `set_autoload_*_skel`; the kernel refuses a program whose map was not created |
| `Open`, `Load`, `AttachSkel`, `CreateRing`, `StorePid`, `Finish` | the steps of `bpf_init`, each with its failure |
| `Signal`, `StopPolling`, `PollError` | `bpf_is_run` and the ways out of `main`'s loop |
| `Delete` | `bpf_delete`, from `bpf_init` or from `main` |

What the option of an event without programs does (`lchown` in two macros) is
part of the model; options that no macro reads are not. `Startup` has no
threads but the process itself, `Capture` has no failures of the start: the two
overlap in the order of the programs, which both take from `Handlers`.

### ReadPath, ResolvePath and the code

| Model | Code |
| --- | --- |
| `target` | a chain of mounts, for each the names from the file or mount point up to its root; `isDir` as the caller says |
| `mnt`, `parent`, `up` | `mnt`, `mnt_parent` and `dentry` of `read_path` |
| `CrossMount`, `TakeName`, `Finish` | the two branches of the loop and what follows it |
| `offset`, `data`, `NameLen`, `TooLong` | the buffer with the masked lengths and the unsigned comparison |
| `Ranges`, `NextRange`, `DirEnd`, `Relative` | `get_filename_cptrs`, `get_dir_cptr`, `fprint_relative_filename` |
| `Scan`, `NextScan`, `ParentEnd`, `Full` | `resolve_full_path`, `find_parent_dentry`, `fprint_full_path` |
| `beyond` | what the memory of the record holds behind the terminator of a name |

Characters are values, since slashes, dots and terminators are what the code is
about. The real sizes are `PATH_SIZE` 4096, `DENTRY_NAME_SIZE` 256 and
`MAX_DENTRIES` 12 (`task.h:7`).

### ExecText and the code

| Model | Code |
| --- | --- |
| `scratch` | the element of `sys_enter_execve_array` of one CPU, kept from call to call |
| `ReadFilename` | `on_sys_enter_execve` up to `read_argv`, with the replacement of an empty name by the first argument |
| `ReadArg`, `ReadArgvEnds`, `ReadArgvFails` | one iteration of `read_argv` and its ends; then the element is copied into the map |
| `SysExit` | `on_sys_exit_execve` and the callback of its record |
| `FileText` | `fprint_sys_execve` |

A program runs to its end on its CPU before another starts there, calls overlap.
The kernel's copy of strings (`ReadUser`) cuts, terminates, and clears the
destination when the source cannot be read.

### AtCalls and the code

| Model | Code |
| --- | --- |
| `fds`, `Move` | the table of descriptors and the working directory, changed by other threads at any time |
| `Enter` | `on_sys_enter_read`, `_unlink`, `_chmod`, `_chown`, `_rename` with their variants |
| `Act` | the kernel, between the two programs: what the descriptors and names denote then |
| `UnlinkRecord`, `ChmodRecord`, `ReadRecord`, `RenameRecord` | the exit programs: types, members and error of the record |
| `RenameatTypes` | `fill_sys_renameat`, which looks at the names of the record before it writes them |
| `Printed` | the callbacks: which members they take the record to have |

The path of a descriptor is one value, since `ReadPath` is about how it is made.
`Stale` is text that an earlier record left in the ring, `Outside` is text from
where the record has no member: a callback that read it would show it.

### Accounts, Texts and the code

| Model | Code |
| --- | --- |
| `file`, `Empty`, `Write`, `Rename` | the files, changed by other processes; `Write` and `Rename` last from the enter program to the system call's end |
| `doing[t]`, `Exit` | the entry of the call under way and its exit program, with room in the ring or not |
| `ring` | the records of the two rings that the callbacks act upon |
| `baseline`, `texts` | `users_groups` and the texts allocated |
| `OpenInitial`, `ReadInitial` | `users_groups_init`, which runs after the programs are attached: one file after the other, each opened with its size and then read to its end |
| `FileType`, `RangesType`, `RenameType` | `get_file_type`, `get_dentry_ranges_file_type` and who calls which |
| `Replace`, `Compare` | `fprint_diff_files` with the text it is given; the call of `diff` returns, or crashes where it may leave its arrays |
| `ProcessWrite` | `fprint_sys_write` with `text_buffer_init` |
| `OpenRenamed`, `ReadRenamed` | `fprint_sys_rename` with `text_filename_init` and `text_dir_filename_init`, again in two steps |
| `reading`, `InSize` | the `FILE` that `text_file_init` is given, the size it has asked for, and whether the file still has no more |
| `fdsLeft` | the descriptors that the logger may open; that of the directory of a relative name is never closed |
| `Entered`, `Recorded`, `BufferInit` | the copies of a written text with their masked lengths, and `text_buffer_init` |
| `FileLines`, `BufferLines` | `text_file_read_lines`, `text_buffer_read_lines` |

`SYS_WRITE_BUFFER_SIZE` is 8192 in the code. `past` is not in the code: it
remembers, for the properties, what the changes so far were like.

Where the code writes outside of its memory (`diff` outside its arrays, a file
that grows behind its buffer, the terminator of an empty text) the logger may crash,
at once or in `free`, or go on. One that goes on is taken to find the rest of its
memory as it was. A line whose terminator is lost (a text that has no newline at
its end) is read on until one is found, which is taken to be before the end of the
memory.

### Diff and the code

| Model | Code |
| --- | --- |
| `work` | the boxes on the stack of `shortest_edit_script`, the next one first |
| `search` | the locals of `find_middle` and `search_path`: direction, distance, diagonal and the two arrays |
| `Trimmed` | the two loops that skip common lines |
| `Emit` | the lines of a box with lines on one side only go to `del` or `add` |
| `StartSearch`, `Forward`, `Backward`, `NextDiagonal` | `find_middle` and one iteration of each loop of `search_path` |
| `Split` | the two recursive calls |
| `WriteOutside` | an index the arrays do not have: memory may hold the value, or anything happens |

Lines are values that are equal or not; `diff_cmp` compares them up to their
end. A read of an element that was never written would be an error of TLC's
evaluation, so the runs also show that there is none.

## Runs

| Run | Shows |
| --- | --- |
| `capture_file` | `write` (guarded, filtered) and `rename` (plain), two threads, four calls: types, pairing, no leak, at most one record per entry, stable reads; the logger's own writes leave no trace; the whole implements `EventLog` |
| `capture_shared` | `connect` and `listen`, which share a map, `execve` by a thread that takes over its leader's id, and `unlink`, with a map slot for each thread: pairing, uniqueness and no leak in spite of what `listen` and `execve` leave behind; only a full ring loses an event; the whole implements `EventLog`, here with calls that are owed a record |
| `capture_all_events` | all 36 events and the whole attach order, one call: the inductive invariant, which implies pairing, in every state of the start-up; also for `accept`, `clone` and the other handlers that no other run has |
| `capture_delivery` | every reserved record is read, with calls of the logger that are filtered (`write`) and that are not |
| `startup` | options of the families of the file skeleton and of the modules, failures and signals at every step: enabled events run; no other combinations than those under Findings keep the logger from starting; the pid is stored before the first poll; nothing is left over; a signal ends the process |
| `paths` | trees of up to three mounts, deeper than the loop, with names up to the greatest length: the text of a path, where it is not the true one, that the buffer suffices; and what the log makes of every relative name of five characters |
| `exec` | names and arguments that are empty, missing, unreadable, too long or too many, in two threads on one CPU: the record and the log have those of their own call, and errors where it caused one |
| `at_calls` | `read`, `unlink`, `chmod`, `chown`, `rename` in all forms, while descriptors and the directory change: the log has the paths that the kernel acted on, a callback reads the members that its record has, errors are told |
| `accounts` | two threads change two account files and one in `sudoers.d`, in every way the model has, also while the logger has one of them open: baselines are the files' texts once followed changes are processed; what can crash the logger, what it does not free; that it catches up |
| `diff` | all pairs of texts: the script has the length of a shortest one, names lines in order and in balance, is right for changes of up to three lines; the arrays suffice for every box that has enough lines in common for the difference of its sides, and for all of two texts that differ by little in one place; the call returns, since each step of a search advances and each split leaves smaller boxes |
| `diff_wrong`, `rename_mixed` | findings, below |

### Bounds

All runs of `Capture` have the logger's thread besides the others, and one slot
in each map and ring unless stated, so that the full cases occur at once. Calls
are bounded by `MaxCalls`, which is also enough to fill a ring, drop a record and
reuse the entry that the dropping call dealt with. Threads other than the logger
are interchangeable where no one of them leads another. In `capture_delivery`
`connect` stands for any call of the logger that is not filtered: each record
that it reads may then bring another.

A run of `Startup` lets the command line set the options it lists and leaves
the others on: the macros treat the events of one skeleton independently of
another's, so a run needs those of the families whose macros it is about. The
proofs are about every choice.

`paths` has a buffer of 14 characters, names of up to 3 and a loop of 4
iterations, which stand in the relation of the code's sizes
(`BufferAssumption`): two names in each of two mounts and the crossing between
them are already more than the loop has, and four names of the greatest length
fill it. Relative names have up to 5 of the characters slash, dot and a letter,
enough for two components with `..` between them. `exec` has arguments of 3, at
most 3 of them, in a buffer of 6 (`ARG_SIZE` 256, `MAX_ARGS` 128, `ARGS_SIZE` 8192):
the buffer is full before the arguments are at an end, or the other way round.
Each thread calls twice on one CPU, so that a call finds what another left.
`at_calls` follows one call at a time, since records do not meet but for the
memory they leave (`Stale`), with a working directory and one descriptor and two
changes of them, so that one can be undone before the second lookup. `accounts` has
texts of 6, 7 and 9 characters for a buffer of 8 (the longest that is copied
whole, the one of which nothing is, one that does not fit), a short one without
a newline, which may also be written in part, as nothing, and one with a
terminator in it. The account files begin as one that is missing and one that is
empty, or as one that is empty and one of a line. There is one slot in each ring,
three descriptors, of which relative renames use up one each, and two changes: one
to make the baseline wrong or the ring full and one to mend it or to race it, or
to let the file grow while it is read. The texts have up to four lines, so that
some pairs are `Near` and others, one line against three, are not.
Texts of five lines over three in `diff` are long enough for
boxes inside boxes, for crossing paths and for sides that differ by four.

Deadlock is checked in `Capture`, whose poll loop can always time out. The other
models come to an end: the process ends, the call returns, the bound is reached.

### Fairness

`FairSpec` of `Capture` assumes what the code and the scheduler give: the logger
starts (`Attach`, `CreateMapBuffers`) and goes on polling, since `main` loops
until a signal; its own calls return (`SysExit(Logger)`); and an exit program
that reserved a record runs to its end (`SysExitSubmit`), since a BPF program
cannot block. Nothing is assumed of other threads' calls: a `connect` may never
return. A stop by signal is part of `Startup`, not of this model.

In `Startup` the process's own steps are fair (`BpfInit`, `StopPolling`,
`Delete`): every call they make returns, and a poll returns after 100 ms. No
signal and no failure need come.

`Accounts` assumes that the logger starts and reads the files
(`OpenInitial \/ ReadInitial`) and that its loop, as long as it runs, goes on with one
ring or the other (`ProcessWrite \/ OpenRenamed \/ ReadRenamed`); `ring_buffer__poll` is called for each, but
nothing here needs more. The calls of other processes that have done their work
exit; that there are any is not assumed. `Diff` states its termination without
fairness.

### Findings

- `diff_wrong`: `search_path` returns the whole stretch of a diagonal between
  the backward and the forward path (`diff.c:46`, `diff.c:70`), but paths may
  cross where lines are not common. For `p q` and `q r q p` the script is
  `-p +q +q +p`: `r` is missing and the old `q` is taken for it. The length is
  that of a shortest script all the same.
- `rename_mixed`: `fill_sys_renameat` decides which of two names is absolute by
  the memory of the reserved record, before the names are copied there
  (`file.bpf.c:831`), and by no name at all when the descriptors are equal. The
  log then shows the absolute name behind a directory; the comments at
  `file.bpf.c:832` and `:888` say otherwise. `LayoutRead` holds all the same:
  whatever is chosen, the callback finds it.

The passing properties name every other exception that they make:

- `NoLeakedEntry` (`MayLeave`): `on_sys_exit_listen` returns without deleting
  the entry when the record could not be sent (`sock.bpf.c:324`), and the exit
  program of an `execve` by a thread that is not the first of its process finds no entry under
  its new id (`execve.bpf.c:98`), so the event is not logged.
- `RecordsPair`: a write that began while the programs were being attached can
  leave its entry, and a later write by that thread to something that is not a
  regular file stores nothing (`file.bpf.c:359`) and is logged with the old
  arguments.
- `EventsRun`: `DELETE_MODULE_SKEL_DISABLED` (`bpf.c:124`) tests the option of
  `init_module`. `OptionsStart`: `CHMOD_MAP_ENABLED` (`bpf.c:137`) names `fchown`
  and `fchownat`, so that with these, `chmod` and `fchmodat2` off and `fchmod` or `fchmodat`
  on programs are loaded without their maps. `NothingLeft`: when `bpf_init`
  fails, `bpf_delete` reads members of a struct from `malloc` that were never
  assigned (`bpf.c:522`), and may not survive it.
- `PathRight`: a path of more dentries and mounts than the loop has loses its
  beginning and still begins with a slash; a name of 255 bytes is left out;
  the root has an empty text if the caller says it is no directory.
- `RelativeRight` (`Misread`): components that begin with `..`, an empty
  component before a `..`, a final `..` with other text behind its terminator, a `..` in the root.
- `FileRight` (`MisreadFull`): a component that ends with a dot before a slash; a
  directory that has no room is left out; an empty name is replaced by the first
  argument with the length of an earlier call's name, and without a terminator behind
  it `fputs` prints what follows the buffer (`Outside`).
- `ArgvRight`: an `execve` without arguments is logged with those of an earlier
  call on its CPU; arguments beyond the 128th are left out without an error.
- `PathsRight`: a name given with `AT_EMPTY_PATH` is not read. `ErrorsTold`:
  errors of a descriptor in `rename` are overwritten (`file.bpf.c:904`);
  `fchown` always has the error of a name; of an empty name of `unlink` nothing is
  printed (`helpers.c:233`), neither the directory nor its lack.
- `Follows`: a part of a text that was written replaces the whole baseline; a
  text of 8191 bytes or more is copied in small part or not at all; a text
  without a newline at its end loses its last character; one with a zero byte in
  it is cut there (an exception that the proof, not TLC, brought to light: no text
  of the run had had one); truncation and removal
  make no record; and the records of a write and of a rename come in no common
  order. One change that none of this is true of mends the baseline.
- `CrashExplained`: an account file that could not be read at the start leaves a
  NULL baseline, which the first difference follows; a write that failed or wrote
  nothing or more than 8192 bytes is indexed by its result, and one of 8191 or 8192
  bytes has no terminator in its record (`file.bpf.c:402`); a file is
  read to its end though its buffer is as long as the file was before
  (`text.c:72`, `text.c:56`); and `diff` (`file.c:286`) may write outside its arrays
  if two of the texts that the file had, or that were written to it, are not `Near`:
  one line replaced by three others already crashes the logger in `free`.
  `NoOtherTexts`: texts of files in `sudoers.d` are never freed. `fdsLeft`: the
  directory of a relative name is never closed.
- `ArraysSuffice`: `bv` is indexed by a diagonal and the difference of the sides, for
  which the array has no room. In a box whose sides differ by two lines or more and
  that has fewer lines in common than that (fewer by two, if they differ by an odd
  number) it is overrun: before the loops, `bv[1 + d_max + delta]` with three lines
  against one (`diff.c:87`), or by `bv[k_off]` in the second loop (`diff.c:65`), on
  either side, `bv[-1]` with one line against three and `bv[7]` of seven elements with
  four against two. `NearStaysInside` says for which texts there is no such box, however
  the search splits them.

## Proofs

*Capture.* `Spec => []IInv` is proved for all threads, events and handlers,
sizes and bounds, under the named assumptions of `Capture`: the logger is a
process of one thread, a family's handlers agree on the filter, and a handler
that may leave an entry behind shares its map only with handlers that store on
every call and whose enter programs are attached before its exit program.
`MCCapture` evaluates these for the handlers and the attach order of the code,
with all 36 events in `capture_all_events`.

`RecordsPair` is not inductive: a record takes its entry's number from the map.
So `IInv` says of every thread what its exit program will find (`LookupOK`):
the entry of this very call, or one left from the time of the attachment, which
then is not covered. To keep that, it says of every entry where it comes from
(`EntryOK`): the call in progress, the attachment, or one of the two ways to
leave it behind, and then the enter programs of its family are all attached,
so that the next call replaces it. `CallOK` keeps a reserved record busy and
its thread's own, which `ReaderOK` needs for what the logger has read.
`FilterOK` says that the logger's filtered calls never have an entry.

From `IInv` follow `TypeOK`, `RecordsPair` and `NoLeakedEntry`, and with one
lemma about a step each `ReadRecordsStable` and `LoggerInvisible`.
`UInv` adds that numbers of calls and of entries are distinct
and that an entry from which a record was made is out of the reach of any exit
program, from which follows `OneRecordPerEntry`.

*EventLog.* `Spec => ImplementsEventLog` is shown action by action: each step of `Capture` is a step of `EventLog` or a stutter. The step
that carries the weight is the reservation: `UInv` gives that its arguments are
in no other record, `LookupOK` that an exact call's are its own. For a call that
is lost, `LInv` adds to `IInv` that one that is owed a record has its entry
until its exit program runs, which holds because no more threads than slots can
have entries in a map; so only a full ring remains. `LostOnlyToFullRing` follows
from the same.

*ReadPath* (in `PathsProofs`). For every tree, buffer and number of iterations with
`MaxDentries * (NameSize - 1) + 2 <= Size` (12 * 255 + 2 < 4096). `RoomLeft`
counts what the iterations so far can have used and is inductive; `StaysInside`
follows. For `PathRight` and `DeepPathIsEnd`, `PInv` adds where the walk is: the
number of names it has taken, which with the mounts it has crossed makes the
number of iterations (`WalkOK`), and that the whole text is what the names not
yet taken make, followed by what the buffer has (`TextOK`). A walk that ends too
early has used up its iterations, and then the tree needed more (`EndOK`). That
flattening the mounts gives their names in order is `FlattenIs` of
`SequenceLemmas`.

*Paths.* `RelativeRight` compares texts by where they lead: `LeadsTo` follows one a
character at a time and `LeadsToParts` takes two one after the other, so that an
invariant can speak of the part of a name that is done with. For the directory,
`DirKept` says that what `read_path` writes is the text of one (`DirText`), and
`AboveAll` that each slash of such a text leads as many components up as there are
slashes behind it, whence what `get_dir_cptr` leaves leads where going up does
(`DirEndLeads`). For the name, `Reached` is the invariant of `get_filename_cptrs`:
from the directory, the part that has been read leads where the components kept so far
lead from as many directories above it as are counted. Each iteration keeps it
(`DotStep`, `UpStep`, `NameStep`) or ends the name (`UpLast`), for names that are read
right. That a component which `..` takes back was one that had been entered is
`PlainList`; an empty component would break it, which is one of the exceptions in
`Misread`. `PathsAssumption` says what a name is, and that no file is called `.` or
`..`.

*ExecText.* `EInv` says of the thread whose enter program runs that the element
has the text of the arguments read so far and a terminator behind it
(`ReadSoFar`), whatever was in it, and of every entry that its errors and its
arguments are those of the call its thread is in (`ThreadOK`). The entry is a
copy, so what other threads do to the element does not matter to it; that it is
found by its own call is `RecordsPair`. `ArgvRight` and `ErrorsTrue` follow for
any threads, names, arguments and sizes that meet `TextAssumption` and
`SizeAssumption`, which say what a string is and that the buffer has room for
one argument.

For `FileRight`, `NInv` adds that the element, and then the entry, hold the name of
their call with its terminator (`NameHeld`). What is printed of it is a matter of
`resolve_full_path`, which walks backwards over the name while `LeadsTo` goes
forwards. `Scanned`, the invariant of its iterations, bridges that: the whole name
leads where the text copied so far leads from the place that the part not yet read
leads to, raised by as many directories as are counted, and these are
counted only right behind a slash. Each iteration keeps it (`ScanStep`): skipping a
component changes the place and the count together (`PassedIs`), copying a character
moves it from one part to the other (`TakeStep`), for names that are not misread.
At the front of the name nothing is left but the directory, of which
`find_parent_dentry` leaves what lies so many components up (`ParentEndLeads`, from
`AboveAll`). `CwdAssumption` says that the working directory is what `read_path`
makes of one, which `DirKept` proves it does.

*Startup.* `SInv` says for each phase what is unset, made and destroyed
(`PartsOK`), which programs are loaded and attached (`LoadOK`, `AttachOK`), which
rings exist (`RingsOK`), and what these hang on (`HeldOK`). From it follow the
five safety properties for every set of options, where the run lets nine vary.

*AtCalls.* `AtInv` says that the entry of the call under way is what its enter
program makes of it and that, as long as no other thread has moved a descriptor,
the kernel has acted on what the arguments denote now (`CallOK`); and that the
three properties hold of the log's entry (`LogOK`). From it follow `PathsRight`,
`LayoutRead` and `ErrorsTold` for all names, descriptors and moves, where the run
has one descriptor and two moves. The layouts that `RenameatTypes` can choose,
from stale memory too, are told apart in the lemmas.

*Accounts.* `AInv` says of the file that is being read for what it was opened, and
that growth is remembered (`ReadingOK`), of a record that does not fit its buffer that
it is (`RingOK`), and that a baseline is missing only where a file could not be read
(`BaselinesOK`). For the calls of `diff`, `VersionsOK` with parts of these says that
every baseline and every text that is to be compared with it is among
`past.versions`: the texts the files had, and those that fitting writes brought; so
where two of them are compared that are not `Near`, `CrashExplained` has its excuse. It and
`NoOtherTexts` follow for any threads, files, texts and sizes, under
`TextAssumption`. That texts which are `Near` do not lead outside is not assumed on
trust: it is `NearTextsInside` of `DiffProofs`, about the same operator. For
`Follows`, `FInv` says of a file whose changes are all followed what will make its baseline
right (`FollowOK`, `Following`): every call or record about it that is on its way
brings its text, and if there is none the baseline has it, or the file that is being
read will bring it. The lemmas on texts say
when a write carries its text: `EnteredCarries` through the entry,
`RecordedCarries` into the record, `CarriedLines` out of it again by lines.

*Diff.* The two loops of `search_path` are one algorithm in two directions, and the
lemmas are about that one, with coordinates counted from the corner it starts
from. `DInv` says of the point reached on each diagonal how far it is at least and
at most, outside of the box included (`Fresh`), and on which side of the other
search it is once the two have been compared (`Settled`); `ForwardOK` and
`BackwardOK` say for which diagonals, as far as the loop has come; `InTime` that the
searches meet before the distances end. From it follow `Chained` (the boxes on
the stack lie in order between the two texts), for texts of any length, and the
action property `Progress`, on which termination rests.

`Shortest` takes a second invariant, `ShortInv`. A script is a way through the grid
of the two texts, where a line of one text counts as one move and lines in common
as none (`Walk`); a way may also waste two moves, so that the ways of d moves to a
diagonal include those of fewer. `FarOK` says that the point which a search has
reached on a diagonal is the furthest that any way of as many moves leads to
(`Furthest`; one step is `FurthestNext`), and that no way from end to end is as
short as the searches have come (`FarUnreached`, as every way has a point at each
distance, `Halfway`). The way back is one forward in the grid seen from its other
end (`Mirror`). So when the searches meet they have found the distance of the two
ends of the box. The stretch between the points where the box is split need not be
lines in common, and no way over it is looked for: since no way from end to end has
two moves fewer than the two parts have together, each part is as short as it can
be (`DistanceSplits`). `ScriptOK` says that
the lines printed and the distances of the boxes that wait add up to the distance
of the texts; and that is what a longest common subsequence leaves over
(`CommonCounts`), for which the table in `Common` is walked by its diagonals.

`ArraysSuffice` needs both invariants (`OutInv`). What was written is no further away
than the search has come (`WrittenOK`), so outside the arrays it has come further than
half of both sides less their difference; but it has not met the other one, so the
distance of the two corners is no less than twice that (`TwoMore`), and the lines in
common are no more than the rest (`OutsideFewCommon`). For `NearStaysInside`, trimming a
box of `Near` texts leaves one that is split no further or has sides of at most two
lines (`NearTrimmed`), and so have the boxes it is split into (`TameOK`).

`SmallChangeRight` adds to it that of texts that differ in at most three lines (`Few`)
the boxes that wait leave out lines in common only (`Joined`), and that what the
script leaves of both texts before the next box is the same, line by line
(`Paired`); together this is `SmallOK`. The step that needs an argument is the split of
a box (`SplitKeepsSmall`): the stretch between the two points is printed nowhere. Of
at most three lines one at most comes after the split, and since the last lines
of a trimmed box differ it comes at the edge of the box; so all the lines before
it, and with them those of the stretch, are in common (`LateEdit`). With four lines two
may come after the split, and the stretch may hide a line that differs: that is what
the run `diff_wrong` shows.

Every invariant and every action property of the passing runs is a theorem. Only
model-checked are the liveness properties `Delivered`, `Stops` and `CatchesUp`, which
rest on fairness.
Where a proof needs induction (how many names lie above a mount, what a
sequence of sequences flattens to), it goes by the least number that is not in
an explicit set, from the well-foundedness of the naturals (`Least`, `Climb`).

## Not modelled

- `hash.c`: calls of OpenSSL on a file. Its directory descriptor is never closed
  either, as in `text_dir_filename_init`.
- `list.h`: one local list in one thread, a sequence in `ResolvePath`.
- `fill_task`, and the fields of sockets, ids, mappings and modules: copies of the
  kernel's structures. The error of a socket's record is combined with what the
  memory of the ring held (`sock.bpf.c:149`).
- The printed text beyond names and paths.
- `longest_common_subseq`, `text_buffer_const_init` and the perf buffers of
  `bpf.c`, which are not called; the build.

## Plan

What is left, the most important first:

1. `Sock`: the fields of the socket records, which members are written on
   which path, and what the callback prints of the others.
2. `CatchesUp` for three account files and rings of two, if TLC reaches it.
3. `Lists`: that the links are mutual.
