------------------------------ MODULE Startup ------------------------------
(***************************************************************************)
(* The life of the logger's process: main reads the options, bpf_init      *)
(* opens, loads and attaches the skeletons and creates the rings, main     *)
(* polls until a signal, bpf_delete destroys what there is.                *)
(*                                                                         *)
(* The options decide in four places: which skeletons are opened (the      *)
(* SKEL_DISABLED macros), which programs are loaded (set_autoload), which  *)
(* maps the loaded skeleton has and which rings are polled (both with the  *)
(* MAP_ENABLED macros).  Every step of bpf_init may fail in the kernel or  *)
(* in libbpf, and then bpf_delete runs on the struct bpf, whose members    *)
(* malloc has not initialised.                                             *)
(***************************************************************************)
EXTENDS Integers, FiniteSets, Handlers

CONSTANT Choosable   \* the options that the command line may set

ProgramEvents == {AttachOrder[i][2] : i \in DOMAIN AttachOrder}

\* Every event but the USB one has an option; lchown has one and no program.
Options == (ProgramEvents \ {"usb_set_device_state"}) \cup {"lchown"}

ASSUME ChoosableAssumption == Choosable \subseteq Options

VARIABLES
  phase,     \* what the process is doing
  at,        \* the position in that phase's order
  enabled,   \* the options that are on
  part,      \* part[p]: a member of struct bpf
  attached,  \* the events whose programs are attached
  rings,     \* the families whose ring is polled
  pid,       \* the logger's pid is in system_logger_pid_array
  isRun,     \* bpf_is_run
  cause      \* why bpf_init failed

vars == <<phase, at, enabled, part, attached, rings, pid, isRun, cause>>

-----------------------------------------------------------------------------
(* What the options select *)

\* The skeleton of a family: file.bpf.c and process.bpf.c hold several.
Skel(f) ==
  CASE f \in {"write", "read", "unlink", "chmod", "chown", "rename"} -> "file"
    [] f \in {"clone", "sched_process_exit"} -> "process"
    [] OTHER -> f

\* One order for each phase of bpf_init.
OpenOrder ==
  <<"usb_set_device_state", "mmap", "execve", "process", "file", "setid",
    "sock", "init_module", "delete_module">>

LoadOrder ==
  <<"file", "mmap", "execve", "usb_set_device_state", "process", "sock",
    "setid", "init_module", "delete_module">>

SkelAttachOrder ==
  <<"mmap", "execve", "usb_set_device_state", "process", "file", "sock",
    "setid", "init_module", "delete_module">>

\* "pid" is the end of create_file_map_buffers.
BufferOrder ==
  <<"mmap", "execve", "usb_set_device_state", "clone", "sched_process_exit",
    "write", "read", "unlink", "chmod", "chown", "rename", "pid", "setid",
    "sock", "init_module", "delete_module">>

SkelNames == ToSet(OpenOrder)

\* The members of struct bpf that bpf_delete looks at.
Parts == SkelNames \cup {"map_buffer", "hash", "users_groups"}

EventsOf(s) == {e \in ProgramEvents : Skel(HandlerOf(e).family) = s}

\* Variant of SkelOptions for the mutation checks: an event is forgotten.
SkelOptionsNoFinit(s) ==
  CASE s = "file" -> EventsOf("file") \cup {"lchown"}
    [] s \in {"init_module", "delete_module"} -> {"init_module"}
    [] OTHER -> EventsOf(s)

\* *_SKEL_DISABLED: the skeleton is not opened when all of these are off.
SkelOptions(s) ==
  CASE s = "file" -> EventsOf("file") \cup {"lchown"}
    [] s = "delete_module" -> {"init_module"}
    [] OTHER -> EventsOf(s)

SkelDisabled(s) ==
  s # "usb_set_device_state" /\ SkelOptions(s) \cap enabled = {}

FamilyEvents(f) == {e \in ProgramEvents : HandlerOf(e).family = f}

\* Variant of MapOptions for the mutation checks: an event is forgotten.
MapOptionsNoUnlinkat(f) ==
  CASE f = "chmod" -> {"chmod", "fchown", "fchmodat2", "fchownat"}
    [] f = "chown" -> FamilyEvents("chown") \cup {"lchown"}
    [] f = "unlink" -> {"unlink"}
    [] OTHER -> FamilyEvents(f)

\* *_MAP_ENABLED: the maps of the family exist when one of these is on.
MapOptions(f) ==
  CASE f = "chmod" -> {"chmod", "fchown", "fchmodat2", "fchownat"}
    [] f = "chown" -> FamilyEvents("chown") \cup {"lchown"}
    [] OTHER -> FamilyEvents(f)

\* Only the two skeletons with several families leave maps out.
MapEnabled(f) ==
  Skel(f) \in {"file", "process"} => MapOptions(f) \cap enabled # {}

\* set_autoload_*_skel: the programs that are loaded with skeleton s.
Loaded(s) ==
  IF part[s] # "set" THEN {}
  ELSE {e \in EventsOf(s) : e \in enabled \/ e = "usb_set_device_state"}

\* The verifier rejects a program that uses a map that was not created.
Rejected(s) == \E e \in Loaded(s) : ~MapEnabled(HandlerOf(e).family)

-----------------------------------------------------------------------------
Init ==
  /\ phase = "options"
  /\ at = 1
  /\ enabled = Options
  /\ part = [p \in Parts |-> "unset"]
  /\ attached = {}
  /\ rings = {}
  /\ pid = FALSE
  /\ isRun = TRUE
  /\ cause = "none"

\* main: an option --sys_EVENT_enable=INT.
SetOption(e) ==
  /\ phase = "options"
  /\ \E on \in BOOLEAN :
       enabled' = IF on THEN enabled \cup {e} ELSE enabled \ {e}
  /\ UNCHANGED <<phase, at, part, attached, rings, pid, isRun, cause>>

\* main ends the options and bpf_init allocates struct bpf, or cannot.
Allocate ==
  /\ phase = "options"
  /\ \/ phase' = "open" /\ UNCHANGED cause
     \/ phase' = "ended" /\ cause' = "system"
  /\ UNCHANGED <<at, enabled, part, attached, rings, pid, isRun>>

\* To the next position of the order, or to the next phase.
Advance(order, next) ==
  /\ phase' = IF at = Len(order) THEN next ELSE phase
  /\ at' = IF at = Len(order) THEN 1 ELSE at + 1
  /\ UNCHANGED cause

\* goto err, then goto clean in bpf_init.
Fail(why) ==
  /\ phase' = "clean"
  /\ at' = 1
  /\ cause' = why

\* bpf_open: the next skeleton.
Open ==
  LET s == OpenOrder[at] IN
  /\ phase = "open"
  /\ \/ /\ SkelDisabled(s)
        /\ part' = [part EXCEPT ![s] = "null"]
        /\ Advance(OpenOrder, "load")
     \/ /\ ~SkelDisabled(s)
        /\ part' = [part EXCEPT ![s] = "set"]
        /\ Advance(OpenOrder, "load")
     \/ /\ ~SkelDisabled(s)
        /\ part' = [part EXCEPT ![s] = "null"]
        /\ Fail("system")
  /\ UNCHANGED <<enabled, attached, rings, pid, isRun>>

\* bpf_load: the programs and maps of the next skeleton.
Load ==
  LET s == LoadOrder[at] IN
  /\ phase = "load"
  /\ \/ ~Rejected(s) /\ Advance(LoadOrder, "attach")
     \/ Rejected(s) /\ Fail("options")
     \/ part[s] = "set" /\ Fail("system")
  /\ UNCHANGED <<enabled, part, attached, rings, pid, isRun>>

\* The first program of event e is attached before that of d.
Before(e, d) ==
  LET first(x) == SelectInSeq(AttachOrder, LAMBDA p: p[2] = x)
  IN first(e) < first(d)

\* Variant of AttachSkel for the mutation checks: by option, not by program.
AttachSkelEnabled ==
  LET s == SkelAttachOrder[at] IN
  /\ phase = "attach"
  /\ attached' = attached \cup (SkelOptions(s) \cap enabled)
  /\ Advance(SkelAttachOrder, "buffers")
  /\ part' = IF phase' = "buffers"
               THEN [part EXCEPT !["map_buffer"] = "null"] ELSE part
  /\ UNCHANGED <<enabled, rings, pid, isRun>>

\* bpf_attach: the programs of the next skeleton; create_map_buffers begins by
\* clearing the buffer manager.  When a program cannot be attached, those before
\* it are.
AttachSkel ==
  LET s == SkelAttachOrder[at] IN
  /\ phase = "attach"
  /\ \/ /\ attached' = attached \cup Loaded(s)
        /\ Advance(SkelAttachOrder, "buffers")
     \/ /\ \E failed \in Loaded(s) :
             attached' = attached \cup {e \in Loaded(s) : Before(e, failed)}
        /\ Fail("system")
  /\ part' = IF phase' = "buffers"
               THEN [part EXCEPT !["map_buffer"] = "null"] ELSE part
  /\ UNCHANGED <<enabled, rings, pid, isRun>>

\* create_map_buffers creates the ring of a family under the same macro that
\* created its maps.
RingWanted(f) == part[Skel(f)] = "set" /\ MapEnabled(f)

\* create_map_buffers: the ring of the next family.
CreateRing ==
  LET f == BufferOrder[at] IN
  /\ phase = "buffers" /\ f # "pid"
  /\ \/ /\ ~RingWanted(f)
        /\ UNCHANGED <<rings, part>>
        /\ Advance(BufferOrder, "finish")
     \/ /\ RingWanted(f)
        /\ rings' = rings \cup {f}
        /\ part' = [part EXCEPT !["map_buffer"] = "set"]
        /\ Advance(BufferOrder, "finish")
     \/ /\ RingWanted(f)
        /\ UNCHANGED <<rings, part>>
        /\ Fail("system")
  /\ UNCHANGED <<enabled, attached, pid, isRun>>

PidWanted == part["file"] = "set" /\ {"write", "read"} \cap enabled # {}

\* Variant of StorePid for the mutation checks: only the write option counts.
StorePidForWrite ==
  /\ phase = "buffers" /\ BufferOrder[at] = "pid"
  /\ pid' = (part["file"] = "set" /\ "write" \in enabled)
  /\ Advance(BufferOrder, "finish")
  /\ UNCHANGED <<enabled, part, attached, rings, isRun>>

\* create_file_map_buffers: the logger's pid for the filter.
StorePid ==
  /\ phase = "buffers" /\ BufferOrder[at] = "pid"
  /\ \/ pid' = PidWanted /\ Advance(BufferOrder, "finish")
     \/ PidWanted /\ UNCHANGED pid /\ Fail("system")
  /\ UNCHANGED <<enabled, part, attached, rings, isRun>>

\* The end of bpf_init: users_groups_init and the data of the callbacks.  The
\* hash may be switched off or fail; neither result is looked at.
Finish ==
  /\ phase = "finish"
  /\ phase' = "run"
  /\ \E h \in {"null", "set"} :
       part' = [part EXCEPT !["users_groups"] = "set", !["hash"] = h]
  /\ UNCHANGED <<at, enabled, attached, rings, pid, isRun, cause>>

\* SIGTERM or SIGINT, at any time.
Signal ==
  /\ phase # "ended" /\ isRun
  /\ isRun' = FALSE
  /\ UNCHANGED <<phase, at, enabled, part, attached, rings, pid, cause>>

\* Variant of StopPolling for the mutation checks: the test is negated.
StopPollingNegated ==
  /\ phase = "run"
  /\ isRun
  /\ phase' = "clean"
  /\ UNCHANGED <<at, enabled, part, attached, rings, pid, isRun, cause>>

\* main's loop ends when the flag is down.
StopPolling ==
  /\ phase = "run"
  /\ ~isRun
  /\ phase' = "clean"
  /\ UNCHANGED <<at, enabled, part, attached, rings, pid, isRun, cause>>

\* bpf_poll_map_buffers returns an error: break.
PollError ==
  /\ phase = "run"
  /\ phase' = "clean"
  /\ UNCHANGED <<at, enabled, part, attached, rings, pid, isRun, cause>>

\* Variant of Destroyed for the mutation checks: a skeleton is forgotten.
DestroyedNotSock == {p \in Parts \ {"sock"} : part[p] = "set"}

\* What bpf_delete destroys, releases or frees: every member that is not NULL.
Destroyed == {p \in Parts : part[p] = "set"}

\* bpf_delete.  A member that was never assigned holds what malloc's memory
\* held: NULL, which is skipped, or a pointer to nothing.
Delete ==
  /\ phase = "clean"
  /\ \/ phase' = "ended"
     \/ phase' = "crashed" /\ \E p \in Parts : part[p] = "unset"
  /\ part' = [p \in Parts |-> IF p \in Destroyed THEN "destroyed" ELSE part[p]]
  /\ attached' = {e \in attached : Skel(HandlerOf(e).family) \notin Destroyed}
  /\ rings' = IF "map_buffer" \in Destroyed THEN {} ELSE rings
  /\ UNCHANGED <<at, enabled, pid, isRun, cause>>

-----------------------------------------------------------------------------
BpfInit ==
  \/ Allocate
  \/ Open
  \/ Load
  \/ AttachSkel
  \/ CreateRing
  \/ StorePid
  \/ Finish

Next ==
  \/ \E e \in Choosable : SetOption(e)
  \/ BpfInit
  \/ Signal
  \/ StopPolling
  \/ PollError
  \/ Delete

Spec == Init /\ [][Next]_vars

\* The process is never blocked for good: every call it makes returns.
Fairness == WF_vars(BpfInit) /\ WF_vars(StopPolling) /\ WF_vars(Delete)

FairSpec == Spec /\ Fairness

-----------------------------------------------------------------------------
(* Properties *)

\* Every variable has its type; positions are within the order of the phase.
TypeOK ==
  /\ phase \in {"options", "open", "load", "attach", "buffers", "finish",
                "run", "clean", "ended", "crashed"}
  /\ at \in 1..Len(BufferOrder)
  /\ enabled \subseteq Options
  /\ part \in [Parts -> {"unset", "null", "set", "destroyed"}]
  /\ attached \subseteq ProgramEvents
  /\ rings \subseteq FamilyNames
  /\ pid \in BOOLEAN /\ isRun \in BOOLEAN
  /\ cause \in {"none", "system", "options"}

Runs(e) == e \in attached /\ HandlerOf(e).family \in rings

\* The four places that look at the options agree: while the process polls, the
\* programs of every enabled event are attached and its ring is polled, except
\* that delete_module runs only if init_module is enabled as well.
EventsRun ==
  phase = "run" =>
    \A e \in enabled \cap ProgramEvents :
      e # "delete_module" \/ "init_module" \in enabled => Runs(e)

\* No combination of options makes bpf_init fail, except the combinations that
\* enable fchmod or fchmodat and none of the options that make chmod's maps.
OptionsStart ==
  cause = "options" =>
    /\ {"fchmod", "fchmodat"} \cap enabled # {}
    /\ MapOptions("chmod") \cap enabled = {}

\* The poll loop never reads records of write and read before the programs know
\* the pid of the process: it would log its own reads and writes for ever.
FilterStored == phase = "run" /\ {"write", "read"} \cap rings # {} => pid

\* When the process ended, all it made is destroyed, however far bpf_init came:
\* no skeleton is open, no program attached and no ring mapped.
NothingLeft ==
  phase = "ended" =>
    /\ \A p \in Parts : part[p] # "set"
    /\ attached = {}
    /\ rings = {}

\* A signal ends the process, also one that arrives while bpf_init is running.
Stops == ~isRun ~> phase \in {"ended", "crashed"}
=============================================================================
