------------------------------ MODULE Handlers ------------------------------
(***************************************************************************)
(* The control behaviour of every event handler of src/logger/bpf.         *)
(*                                                                         *)
(* Most events are handled by two programs.  The enter program puts what   *)
(* it read from the arguments into a hash map keyed by the thread          *)
(* (bpf_get_current_pid_tgid); the exit program looks that entry up,       *)
(* reserves a record in a ring buffer, fills it, submits it and deletes    *)
(* the entry.  The events of one family share the hash map and the ring.   *)
(* The handlers differ only in the few decisions named by HandlerType:     *)
(*                                                                         *)
(*   paired    there is an enter program, so the exit program needs an     *)
(*             entry; otherwise the one program sends the record alone     *)
(*   guarded   the enter program may return without storing an entry       *)
(*   filtered  both programs return at once in the logger's own thread     *)
(*   eager     the exit program deletes the entry before it reserves       *)
(*   silent    the exit program may decide that there is nothing to send,  *)
(*             and then deletes the entry                                  *)
(*   leaky     the exit program returns without deleting the entry when    *)
(*             the record could not be reserved or was filled with errors  *)
(*   rekeys    the call may end in another thread than it began in, and so *)
(*             under another key                                           *)
(***************************************************************************)
EXTENDS Sequences, SequencesExt

FamilyNames == {"write", "read", "unlink", "chmod", "chown", "rename", "mmap",
             "execve", "clone", "sched_process_exit", "setid", "sock",
             "init_module", "delete_module", "usb_set_device_state"}

HandlerType ==
  [family: FamilyNames, paired: BOOLEAN, guarded: BOOLEAN, filtered: BOOLEAN,
   eager: BOOLEAN, silent: BOOLEAN, leaky: BOOLEAN,
   rekeys: BOOLEAN]

\* The shape every other handler is a variation of: a pair of programs, an
\* entry stored on every call, one record per entry, the entry deleted at the
\* label "clean" whether or not the record could be reserved.
Plain(f) ==
  [family |-> f, paired |-> TRUE, guarded |-> FALSE, filtered |-> FALSE,
   eager |-> FALSE, silent |-> FALSE, leaky |-> FALSE,
   rekeys |-> FALSE]

-----------------------------------------------------------------------------
(* file.bpf.c *)

\* Stores nothing for a descriptor that cannot be resolved or is not a regular
\* file, and nothing in the logger's thread.
WriteHandler == [Plain("write") EXCEPT !.guarded = TRUE, !.filtered = TRUE]

ReadHandler == [Plain("read") EXCEPT !.guarded = TRUE, !.filtered = TRUE]

UnlinkHandler == Plain("unlink")

ChmodHandler == Plain("chmod")

ChownHandler == Plain("chown")

RenameHandler == Plain("rename")

-----------------------------------------------------------------------------
(* mmap, execve, process and setid *)

\* Stores only executable mappings of regular files.
MmapHandler == [Plain("mmap") EXCEPT !.guarded = TRUE]

\* A thread that executes a program takes over the id of its process's leader.
ExecveHandler == [Plain("execve") EXCEPT !.rekeys = TRUE]

\* sys_enter_clone3 stores nothing when the arguments cannot be read, and the
\* child returns from either call through the exit program without having run
\* the enter program.
CloneHandler == [Plain("clone") EXCEPT !.guarded = TRUE]

\* The tracepoint of a dying thread: one program, always a record.
ProcessExitHandler == [Plain("sched_process_exit") EXCEPT !.paired = FALSE]

SetidHandler == Plain("setid")

-----------------------------------------------------------------------------
(* sock.bpf.c *)

\* on_sys_exit_sock deletes the entry before fill_and_send_sock, which sends
\* nothing for a closed socket, for another family than IPv4 and IPv6 or when
\* the descriptor is not a socket.
ConnectHandler ==
  [Plain("sock") EXCEPT !.eager = TRUE, !.silent = TRUE]

\* on_sys_exit_listen returns before the delete when fill_and_send_sock_saddr
\* fails: no room in the ring, or an error while the record was filled.
ListenHandler ==
  [Plain("sock") EXCEPT !.silent = TRUE, !.leaky = TRUE]

\* accept and accept4 have an exit program only: the descriptor is the result.
AcceptHandler ==
  [Plain("sock") EXCEPT !.paired = FALSE, !.silent = TRUE]

-----------------------------------------------------------------------------
(* modules and USB *)

\* Nothing is stored when the parameters or the name cannot be read.
InitModuleHandler == [Plain("init_module") EXCEPT !.guarded = TRUE]

DeleteModuleHandler == [Plain("delete_module") EXCEPT !.guarded = TRUE]

\* A kprobe: one program, always a record.
UsbHandler == [Plain("usb_set_device_state") EXCEPT !.paired = FALSE]

-----------------------------------------------------------------------------
(* Events and the order in which their programs are attached *)

ChmodEvents  == <<"chmod", "fchmod", "fchmodat", "fchmodat2">>
ChownEvents  == <<"chown", "fchown", "fchownat">>
RenameEvents == <<"rename", "renameat", "renameat2">>
SetidEvents  == <<"setuid", "setgid", "setreuid", "setregid", "setresuid",
                  "setresgid", "setfsuid", "setfsgid">>

\* The handler that the programs of event e call.
HandlerOf(e) ==
  CASE e = "write"                          -> WriteHandler
    [] e = "read"                           -> ReadHandler
    [] e \in {"unlink", "unlinkat"}         -> UnlinkHandler
    [] e \in ToSet(ChmodEvents)             -> ChmodHandler
    [] e \in ToSet(ChownEvents)             -> ChownHandler
    [] e \in ToSet(RenameEvents)            -> RenameHandler
    [] e = "mmap"                           -> MmapHandler
    [] e \in {"execve", "execveat"}         -> ExecveHandler
    [] e \in {"clone", "clone3"}            -> CloneHandler
    [] e = "sched_process_exit"             -> ProcessExitHandler
    [] e \in ToSet(SetidEvents)             -> SetidHandler
    [] e = "connect"                        -> ConnectHandler
    [] e = "listen"                         -> ListenHandler
    [] e \in {"accept", "accept4"}          -> AcceptHandler
    [] e \in {"init_module", "finit_module"} -> InitModuleHandler
    [] e = "delete_module"                  -> DeleteModuleHandler
    [] e = "usb_set_device_state"           -> UsbHandler

\* A program is <<"enter", event>> or <<"exit", event>>.
Enters(events) == [i \in DOMAIN events |-> <<"enter", events[i]>>]
Exits(events)  == [i \in DOMAIN events |-> <<"exit", events[i]>>]
Pairs(events)  == Enters(events) \o Exits(events)

\* bpf_attach attaches the skeletons one after the other, and a skeleton its
\* programs in the order of the source: the enter programs of a family, then
\* its exit programs; of sock.bpf.c, connect, the two accepts, then listen.
AttachOrder ==
  Pairs(<<"mmap">>) \o Pairs(<<"execve", "execveat">>)
  \o Exits(<<"usb_set_device_state">>)
  \o Pairs(<<"clone", "clone3">>) \o Exits(<<"sched_process_exit">>)
  \o Pairs(<<"write">>) \o Pairs(<<"read">>)
  \o Pairs(<<"unlink", "unlinkat">>) \o Pairs(ChmodEvents)
  \o Pairs(ChownEvents) \o Pairs(RenameEvents)
  \o Pairs(<<"connect">>) \o Exits(<<"accept", "accept4">>)
  \o Pairs(<<"listen">>) \o Pairs(SetidEvents)
  \o Pairs(<<"init_module", "finit_module">>) \o Pairs(<<"delete_module">>)

\* The programs whose event is enabled (bpf_program__set_autoload), in order.
Autoloaded(events) == SelectSeq(AttachOrder, LAMBDA p: p[2] \in events)

\* Position of a program among those attached; 0 for a program that the event
\* does not have.
AttachedAt(events, kind, e) ==
  SelectInSeq(Autoloaded(events), LAMBDA p: p = <<kind, e>>)
=============================================================================
