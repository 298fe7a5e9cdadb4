---------------------------- MODULE StartupProofs ----------------------------
(***************************************************************************)
(* Proofs about Startup, for every choice of the options: what runs while  *)
(* the process polls, when it does not start, and what it leaves behind.   *)
(***************************************************************************)
EXTENDS Startup, SequenceTheorems, TLAPS

(* The tables of the events *)

Known ==
  {"write", "read", "unlink", "unlinkat", "chmod", "fchmod", "fchmodat",
   "fchmodat2", "chown", "fchown", "fchownat", "rename", "renameat",
   "renameat2", "mmap", "execve", "execveat", "clone", "clone3",
   "sched_process_exit", "setuid", "setgid", "setreuid", "setregid",
   "setresuid", "setresgid", "setfsuid", "setfsgid", "connect", "listen",
   "accept", "accept4", "init_module", "finit_module", "delete_module",
   "usb_set_device_state"}

Programs == {"enter", "exit"} \X Known

LEMMA ProgramsOf ==
  ASSUME NEW events \in Seq(Known)
  PROVE  Enters(events) \in Seq(Programs) /\ Exits(events) \in Seq(Programs)
         /\ Pairs(events) \in Seq(Programs)
<1>1. Len(events) \in Nat /\ DOMAIN events = 1..Len(events)
      /\ \A i \in 1..Len(events) : events[i] \in Known
  OBVIOUS
<1>2. Enters(events) \in [1..Len(events) -> Programs]
  BY <1>1 DEF Enters, Programs
<1>3. Exits(events) \in [1..Len(events) -> Programs]
  BY <1>1 DEF Exits, Programs
<1>4. Enters(events) \in Seq(Programs) /\ Exits(events) \in Seq(Programs)
  BY <1>1, <1>2, <1>3, SeqDef
<1> QED
  BY <1>4, ConcatProperties DEF Pairs

LEMMA AttachOrderType == AttachOrder \in Seq(Programs)
<1>1. /\ <<"mmap">> \in Seq(Known) /\ <<"execve", "execveat">> \in Seq(Known)
      /\ <<"usb_set_device_state">> \in Seq(Known)
      /\ <<"clone", "clone3">> \in Seq(Known) /\ <<"sched_process_exit">> \in Seq(Known)
      /\ <<"write">> \in Seq(Known) /\ <<"read">> \in Seq(Known)
      /\ <<"unlink", "unlinkat">> \in Seq(Known)
  BY DEF Known
<1>2. /\ ChmodEvents \in Seq(Known) /\ ChownEvents \in Seq(Known)
      /\ RenameEvents \in Seq(Known) /\ SetidEvents \in Seq(Known)
  BY DEF Known, ChmodEvents, ChownEvents, RenameEvents, SetidEvents
<1>3. /\ <<"connect">> \in Seq(Known) /\ <<"accept", "accept4">> \in Seq(Known)
      /\ <<"listen">> \in Seq(Known)
      /\ <<"init_module", "finit_module">> \in Seq(Known)
      /\ <<"delete_module">> \in Seq(Known)
  BY DEF Known
<1>4. \A s \in Seq(Known) : /\ Pairs(s) \in Seq(Programs)
                            /\ Exits(s) \in Seq(Programs)
  BY ProgramsOf
<1>5. \A s, t \in Seq(Programs) : s \o t \in Seq(Programs)
  BY ConcatProperties
<1> QED
  BY <1>1, <1>2, <1>3, <1>4, <1>5, Zenon DEF AttachOrder

LEMMA ProgramEventsKnown == ProgramEvents \subseteq Known
<1>1. \A i \in DOMAIN AttachOrder : AttachOrder[i] \in Programs
  BY AttachOrderType
<1> QED
  BY <1>1 DEF ProgramEvents, Programs

LEMMA Families ==
  /\ WriteHandler.family = "write" /\ ReadHandler.family = "read"
  /\ UnlinkHandler.family = "unlink" /\ ChmodHandler.family = "chmod"
  /\ ChownHandler.family = "chown" /\ RenameHandler.family = "rename"
  /\ MmapHandler.family = "mmap" /\ ExecveHandler.family = "execve"
  /\ CloneHandler.family = "clone" /\ ProcessExitHandler.family = "sched_process_exit"
  /\ SetidHandler.family = "setid" /\ ConnectHandler.family = "sock"
  /\ ListenHandler.family = "sock" /\ AcceptHandler.family = "sock"
  /\ InitModuleHandler.family = "init_module"
  /\ DeleteModuleHandler.family = "delete_module"
  /\ UsbHandler.family = "usb_set_device_state"
BY DEF WriteHandler, ReadHandler, UnlinkHandler, ChmodHandler, ChownHandler,
       RenameHandler, MmapHandler, ExecveHandler, CloneHandler, ProcessExitHandler,
       SetidHandler, ConnectHandler, ListenHandler, AcceptHandler,
       InitModuleHandler, DeleteModuleHandler, UsbHandler, Plain

\* What the proofs use of the family of an event.
LEMMA FamilyFacts ==
  ASSUME NEW e \in ProgramEvents
  PROVE  LET f == HandlerOf(e).family IN
         /\ f \in FamilyNames
         /\ f \in {"write", "read"} => e \in {"write", "read"}
         /\ f = "chmod" => e \in {"chmod", "fchmod", "fchmodat", "fchmodat2"}
         /\ f = "delete_module" => e = "delete_module"
         /\ e = "usb_set_device_state" => f = "usb_set_device_state"
<1>1. /\ ToSet(ChmodEvents) = {"chmod", "fchmod", "fchmodat", "fchmodat2"}
      /\ ToSet(ChownEvents) = {"chown", "fchown", "fchownat"}
      /\ ToSet(RenameEvents) = {"rename", "renameat", "renameat2"}
      /\ ToSet(SetidEvents) = {"setuid", "setgid", "setreuid", "setregid",
                               "setresuid", "setresgid", "setfsuid", "setfsgid"}
  BY DEF ToSet, ChmodEvents, ChownEvents, RenameEvents, SetidEvents
<1>2. e \in Known
  BY ProgramEventsKnown
<1>3. HandlerOf(e).family =
        CASE e = "write" -> "write"
          [] e = "read" -> "read"
          [] e \in {"unlink", "unlinkat"} -> "unlink"
          [] e \in {"chmod", "fchmod", "fchmodat", "fchmodat2"} -> "chmod"
          [] e \in {"chown", "fchown", "fchownat"} -> "chown"
          [] e \in {"rename", "renameat", "renameat2"} -> "rename"
          [] e = "mmap" -> "mmap"
          [] e \in {"execve", "execveat"} -> "execve"
          [] e \in {"clone", "clone3"} -> "clone"
          [] e = "sched_process_exit" -> "sched_process_exit"
          [] e \in {"setuid", "setgid", "setreuid", "setregid", "setresuid",
                    "setresgid", "setfsuid", "setfsgid"} -> "setid"
          [] e \in {"connect", "listen", "accept", "accept4"} -> "sock"
          [] e \in {"init_module", "finit_module"} -> "init_module"
          [] e = "delete_module" -> "delete_module"
          [] e = "usb_set_device_state" -> "usb_set_device_state"
  BY <1>1, <1>2, Families DEF HandlerOf, Known
<1> QED
  BY <1>2, <1>3 DEF Known, FamilyNames

LEMMA SkelSet ==
  SkelNames = {"usb_set_device_state", "mmap", "execve", "process", "file",
               "setid", "sock", "init_module", "delete_module"}
BY DEF SkelNames, OpenOrder, ToSet

\* Each order has each skeleton, the last one the ring of each family.
LEMMA Orders ==
  /\ \A i \in 1..9 : /\ OpenOrder[i] \in SkelNames
                     /\ LoadOrder[i] \in SkelNames
                     /\ SkelAttachOrder[i] \in SkelNames
  /\ \A s \in SkelNames : /\ \E i \in 1..9 : OpenOrder[i] = s
                          /\ \E i \in 1..9 : LoadOrder[i] = s
                          /\ \E i \in 1..9 : SkelAttachOrder[i] = s
  /\ Len(OpenOrder) = 9 /\ Len(LoadOrder) = 9 /\ Len(SkelAttachOrder) = 9
  /\ Len(BufferOrder) = 16 /\ BufferOrder[12] = "pid"
  /\ \A i \in 1..16 : BufferOrder[i] \in FamilyNames \/ i = 12
  /\ \A f \in FamilyNames : \E i \in 1..16 : BufferOrder[i] = f
  /\ "pid" \notin FamilyNames
<1>1. /\ \A i \in 1..9 : OpenOrder[i] \in SkelNames
      /\ \A s \in SkelNames : \E i \in 1..9 : OpenOrder[i] = s
      /\ Len(OpenOrder) = 9
  BY SkelSet DEF OpenOrder
<1>2. /\ \A i \in 1..9 : LoadOrder[i] \in SkelNames
      /\ \A s \in SkelNames : \E i \in 1..9 : LoadOrder[i] = s
      /\ Len(LoadOrder) = 9
  BY SkelSet DEF LoadOrder
<1>3. /\ \A i \in 1..9 : SkelAttachOrder[i] \in SkelNames
      /\ \A s \in SkelNames : \E i \in 1..9 : SkelAttachOrder[i] = s
      /\ Len(SkelAttachOrder) = 9
  BY SkelSet DEF SkelAttachOrder
<1>4. /\ Len(BufferOrder) = 16 /\ BufferOrder[12] = "pid"
      /\ \A i \in 1..16 : BufferOrder[i] \in FamilyNames \/ i = 12
      /\ \A f \in FamilyNames : \E i \in 1..16 : BufferOrder[i] = f
      /\ "pid" \notin FamilyNames
  BY DEF BufferOrder, FamilyNames
<1> QED
  BY <1>1, <1>2, <1>3, <1>4

LEMMA SkelType == \A f \in FamilyNames : Skel(f) \in SkelNames
BY SkelSet DEF Skel, FamilyNames

-----------------------------------------------------------------------------
(* The invariant: what each phase of bpf_init has done so far *)

\* Phases in which the parts, the loaded programs, the attached programs and the
\* rings are complete.
Opened == {"load", "attach", "buffers", "finish", "run"}
Verified == {"attach", "buffers", "finish", "run"}
Attached == {"buffers", "finish", "run"}
Buffered == {"finish", "run"}

\* The parts of the skeletons that were looked at.
PartRight(s) == part[s] = IF SkelDisabled(s) THEN "null" ELSE "set"

PartsOK ==
  /\ phase = "open" => \A i \in 1..(at - 1) : PartRight(OpenOrder[i])
  /\ phase \in Opened => \A s \in SkelNames : PartRight(s)

\* No program that the kernel accepted misses its map.
LoadOK ==
  /\ phase = "load" => \A i \in 1..(at - 1) : ~Rejected(LoadOrder[i])
  /\ phase \in Verified => \A s \in SkelNames : ~Rejected(s)

AttachOK ==
  /\ phase = "attach" => \A i \in 1..(at - 1) : Loaded(SkelAttachOrder[i]) \subseteq attached
  /\ phase \in Attached => \A s \in SkelNames : Loaded(s) \subseteq attached

RingsOK ==
  /\ phase = "buffers" =>
       \A i \in 1..(at - 1) : IF i = 12 THEN pid = PidWanted
                              ELSE RingWanted(BufferOrder[i]) => BufferOrder[i] \in rings
  /\ phase \in Buffered =>
       pid = PidWanted /\ \A f \in FamilyNames : RingWanted(f) => f \in rings
  /\ phase \in Attached => \A f \in rings : f \in FamilyNames /\ RingWanted(f)

\* What there is hangs on a part that is set.
HeldOK ==
  /\ phase \in {"options", "open", "load"} => attached = {}
  /\ phase \in {"options", "open", "load", "attach"} => rings = {}
  /\ phase \notin {"ended", "crashed"} =>
       /\ \A e \in attached : /\ Skel(HandlerOf(e).family) \in SkelNames
                              /\ part[Skel(HandlerOf(e).family)] = "set"
       /\ rings # {} => part["map_buffer"] = "set"

\* A failure for the options is one after the options.
CauseOK == phase = "options" => cause = "none" /\ \A p \in Parts : part[p] = "unset"

PlaceOK ==
  /\ phase \in {"options", "open", "load", "attach"} => at \in 1..9
  /\ phase \in {"options", "finish", "run"} => at = 1

SInv ==
  /\ TypeOK /\ PlaceOK /\ PartsOK /\ LoadOK /\ AttachOK /\ RingsOK /\ HeldOK /\ CauseOK
  /\ OptionsStart /\ NothingLeft

-----------------------------------------------------------------------------
(* The steps *)

LEMMA SkelParts ==
  SkelNames \subseteq Parts /\ {"map_buffer", "hash", "users_groups"} \cap SkelNames = {}
  /\ "map_buffer" \in Parts
BY SkelSet DEF Parts

\* What the options select does not change while skeletons and options do not.
LEMMA Selected ==
  ASSUME enabled' = enabled, \A s \in SkelNames : part'[s] = part[s]
  PROVE  /\ \A s \in SkelNames : /\ PartRight(s)' <=> PartRight(s)
                                 /\ Loaded(s)' = Loaded(s)
                                 /\ Rejected(s)' <=> Rejected(s)
         /\ \A f \in FamilyNames : RingWanted(f)' <=> RingWanted(f)
         /\ PidWanted' = PidWanted
<1>1. \A f : MapEnabled(f)' <=> MapEnabled(f)
  BY DEF MapEnabled
<1>2. \A s \in SkelNames : Loaded(s)' = Loaded(s)
  BY DEF Loaded
<1>3. \A s \in SkelNames : PartRight(s)' <=> PartRight(s)
  BY DEF PartRight, SkelDisabled
<1>4. \A f \in FamilyNames : RingWanted(f)' <=> RingWanted(f)
  BY <1>1, SkelType DEF RingWanted
<1>5. PidWanted' = PidWanted
  BY SkelSet DEF PidWanted
<1> QED
  BY <1>1, <1>2, <1>3, <1>4, <1>5 DEF Rejected

LEMMA SInvInit == Init => SInv
<1> SUFFICES ASSUME Init PROVE SInv
  OBVIOUS
<1>1. TypeOK
  <2>1. Len(BufferOrder) = 16
    BY Orders
  <2>2. part \in [Parts -> {"unset", "null", "set", "destroyed"}]
    BY DEF Init
  <2>3. at \in 1..Len(BufferOrder)
    BY <2>1 DEF Init
  <2>4. pid \in BOOLEAN /\ isRun \in BOOLEAN
    BY DEF Init
  <2>5. enabled = Options /\ attached = {} /\ rings = {} /\ phase = "options" /\ cause = "none"
    BY DEF Init
  <2> QED
    BY <2>2, <2>3, <2>4, <2>5 DEF TypeOK
<1> QED
  BY <1>1 DEF Init, SInv, PlaceOK, PartsOK, LoadOK, AttachOK, RingsOK, HeldOK, CauseOK,
              OptionsStart, NothingLeft, Opened, Verified, Attached, Buffered

LEMMA SetOptionStep ==
  ASSUME SInv, NEW e \in Choosable, SetOption(e)
  PROVE  SInv'
<1>1. TypeOK'
  BY ChoosableAssumption DEF SInv, TypeOK, SetOption
<1> QED
  BY <1>1 DEF SetOption, SInv, PlaceOK, PartsOK, LoadOK, AttachOK, RingsOK, HeldOK,
              CauseOK, OptionsStart, NothingLeft, Opened, Verified, Attached, Buffered

LEMMA AllocateStep ==
  ASSUME SInv, Allocate
  PROVE  SInv'
<1>1. TypeOK'
  BY DEF SInv, TypeOK, Allocate
<1> QED
  BY <1>1 DEF Allocate, SInv, PlaceOK, PartsOK, LoadOK, AttachOK, RingsOK, HeldOK,
              CauseOK, OptionsStart, NothingLeft, Opened, Verified, Attached, Buffered

\* A phase of nine skeletons goes to the next one, or to the next phase.
LEMMA AdvanceNine ==
  ASSUME at \in 1..9, NEW order, Len(order) = 9, NEW next, Advance(order, next)
  PROVE  /\ cause' = cause /\ at' \in 1..9
         /\ \/ at < 9 /\ phase' = phase /\ at' = at + 1
            \/ at = 9 /\ phase' = next /\ at' = 1
BY DEF Advance

LEMMA FailType ==
  ASSUME TypeOK, NEW why \in {"system", "options"}, Fail(why),
         enabled' = enabled, attached' \subseteq ProgramEvents, rings' = rings,
         pid' = pid, isRun' = isRun,
         NEW p, NEW value \in {"unset", "null", "set"}, part' = [part EXCEPT ![p] = value]
  PROVE  TypeOK'
<1>1. Len(BufferOrder) = 16
  BY Orders
<1>2. phase' = "clean" /\ at' = 1 /\ cause' = why
  BY DEF Fail
<1>3. part' \in [Parts -> {"unset", "null", "set", "destroyed"}]
  BY DEF TypeOK
<1> QED
  BY <1>1, <1>2, <1>3 DEF TypeOK

\* bpf_init that fails keeps what it has until bpf_delete runs.
LEMMA FailStep ==
  ASSUME SInv, NEW why \in {"system", "options"}, Fail(why), TypeOK',
         enabled' = enabled, rings' = rings,
         rings # {} => part'["map_buffer"] = "set",
         \A e \in attached' : /\ Skel(HandlerOf(e).family) \in SkelNames
                              /\ part'[Skel(HandlerOf(e).family)] = "set",
         why = "options" => /\ {"fchmod", "fchmodat"} \cap enabled # {}
                            /\ MapOptions("chmod") \cap enabled = {}
  PROVE  SInv'
<1>1. phase' = "clean" /\ at' = 1 /\ cause' = why
  BY DEF Fail
<1>2. HeldOK'
  BY <1>1 DEF HeldOK
<1>3. OptionsStart'
  BY <1>1 DEF OptionsStart, MapOptions
<1> QED
  BY <1>1, <1>2, <1>3 DEF SInv, PlaceOK, PartsOK, LoadOK, AttachOK, RingsOK, CauseOK,
                          NothingLeft, Opened, Verified, Attached, Buffered

LEMMA OptionsStartKept ==
  ASSUME OptionsStart, enabled' = enabled, cause' = cause
  PROVE  OptionsStart'
BY DEF OptionsStart, MapOptions

LEMMA OpenStep ==
  ASSUME SInv, Open
  PROVE  SInv'
<1> DEFINE s == OpenOrder[at]
<1>1. /\ phase = "open" /\ at \in 1..9 /\ s \in SkelNames /\ Len(OpenOrder) = 9
      /\ attached = {} /\ rings = {} /\ TypeOK
  BY Orders DEF SInv, PlaceOK, HeldOK, Open
<1>2. enabled' = enabled /\ attached' = attached /\ rings' = rings
      /\ pid' = pid /\ isRun' = isRun
  BY DEF Open
<1>3. ASSUME NEW value, value = IF SkelDisabled(s) THEN "null" ELSE "set",
             part' = [part EXCEPT ![s] = value], Advance(OpenOrder, "load")
      PROVE  SInv'
  <2>1. /\ cause' = cause /\ at' \in 1..9
        /\ \/ at < 9 /\ phase' = "open" /\ at' = at + 1
           \/ at = 9 /\ phase' = "load" /\ at' = 1
    BY <1>1, <1>3, AdvanceNine
  <2>2. TypeOK'
    BY <1>1, <1>2, <1>3, <2>1, Orders, SkelParts DEF TypeOK
  <2>3. \A r \in SkelNames : PartRight(r)' <=> part'[r] = IF SkelDisabled(r) THEN "null" ELSE "set"
    BY <1>2 DEF PartRight, SkelDisabled
  <2>4. part'[s] = value /\ \A r \in SkelNames : r # s => part'[r] = part[r]
    BY <1>1, <1>3, SkelParts DEF TypeOK
  <2>5. \A i \in 1..at : PartRight(OpenOrder[i])'
    <3>1. \A i \in 1..(at - 1) : PartRight(OpenOrder[i])
      BY <1>1 DEF SInv, PartsOK
    <3> SUFFICES ASSUME NEW i \in 1..at PROVE PartRight(OpenOrder[i])'
      OBVIOUS
    <3>2. OpenOrder[i] \in SkelNames
      BY <1>1, Orders
    <3>3. CASE OpenOrder[i] = s
      BY <1>1, <1>3, <2>3, <2>4, <3>3
    <3>4. CASE OpenOrder[i] # s
      <4>1. i \in 1..(at - 1)
        BY <1>1, <3>4
      <4>2. PartRight(OpenOrder[i])
        BY <3>1, <4>1
      <4> QED
        BY <2>3, <2>4, <3>2, <3>4, <4>2 DEF PartRight
    <3> QED
      BY <3>3, <3>4
  <2>6. PartsOK'
    <3>1. CASE phase' = "open"
      BY <1>1, <2>1, <2>5, <3>1 DEF PartsOK, Opened
    <3>2. CASE phase' = "load"
      <4>1. at = 9
        BY <2>1, <3>2
      <4>2. \A r \in SkelNames : PartRight(r)'
        BY <2>5, <4>1, Orders
      <4> QED
        BY <3>2, <4>2 DEF PartsOK
    <3> QED
      BY <2>1, <3>1, <3>2
  <2>7. OptionsStart'
    BY <1>2, <2>1, OptionsStartKept DEF SInv
  <2>8. phase' \in {"open", "load"} /\ (phase' = "load" => at' = 1)
    BY <2>1
  <2>9. LoadOK' /\ PlaceOK' /\ AttachOK' /\ RingsOK'
    <3>1. PlaceOK'
      BY <2>1 DEF PlaceOK
    <3>2. LoadOK'
      BY <2>8 DEF LoadOK, Verified
    <3>3. AttachOK' /\ RingsOK'
      BY <2>8 DEF AttachOK, RingsOK, Attached, Buffered
    <3> QED
      BY <3>1, <3>2, <3>3
  <2>10. HeldOK' /\ CauseOK' /\ NothingLeft'
    BY <1>1, <1>2, <2>8 DEF HeldOK, CauseOK, NothingLeft
  <2> QED
    BY <2>2, <2>6, <2>7, <2>9, <2>10 DEF SInv
<1>4. ASSUME part' = [part EXCEPT ![s] = "null"], Fail("system") PROVE SInv'
  <2>1. TypeOK'
    BY <1>1, <1>2, <1>4, FailType DEF TypeOK
  <2> QED
    BY <1>1, <1>2, <1>4, <2>1, FailStep
<1> QED
  BY <1>3, <1>4 DEF Open

\* A rejected program uses the maps of chmod, which its own option does not make.
LEMMA RejectedChmod ==
  ASSUME TypeOK, NEW s \in SkelNames, Rejected(s)
  PROVE  /\ {"fchmod", "fchmodat"} \cap enabled # {}
         /\ MapOptions("chmod") \cap enabled = {}
<1>1. PICK e \in Loaded(s) : ~MapEnabled(HandlerOf(e).family)
  BY DEF Rejected
<1> DEFINE f == HandlerOf(e).family
<1>2. e \in ProgramEvents /\ (e \in enabled \/ e = "usb_set_device_state") /\ f \in FamilyNames
  BY <1>1, FamilyFacts DEF Loaded, EventsOf
<1>3. Skel(f) \in {"file", "process"} /\ MapOptions(f) \cap enabled = {}
  BY <1>1 DEF MapEnabled
<1>4. e # "usb_set_device_state"
  <2>1. ASSUME e = "usb_set_device_state" PROVE FALSE
    <3>1. f = "usb_set_device_state"
      BY <1>2, <2>1, FamilyFacts
    <3> QED
      BY <1>3, <3>1 DEF Skel
  <2> QED
    BY <2>1
<1>5. e \in FamilyEvents(f)
  BY <1>2 DEF FamilyEvents
<1>6. f = "chmod"
  BY <1>2, <1>3, <1>4, <1>5 DEF MapOptions
<1>7. e \in {"chmod", "fchmod", "fchmodat", "fchmodat2"}
  BY <1>2, <1>6, FamilyFacts
<1>8. e \in {"fchmod", "fchmodat"}
  BY <1>2, <1>3, <1>4, <1>6, <1>7 DEF MapOptions
<1> QED
  BY <1>2, <1>3, <1>4, <1>6, <1>8

LEMMA LoadStep ==
  ASSUME SInv, Load
  PROVE  SInv'
<1> DEFINE s == LoadOrder[at]
<1>1. /\ phase = "load" /\ at \in 1..9 /\ s \in SkelNames /\ Len(LoadOrder) = 9
      /\ attached = {} /\ rings = {} /\ TypeOK
  BY Orders DEF SInv, PlaceOK, HeldOK, Load
<1>2. /\ enabled' = enabled /\ attached' = attached /\ rings' = rings
      /\ part' = part /\ pid' = pid /\ isRun' = isRun
  BY DEF Load
<1>3. ASSUME ~Rejected(s), Advance(LoadOrder, "attach") PROVE SInv'
  <2>1. /\ cause' = cause /\ at' \in 1..9
        /\ \/ at < 9 /\ phase' = "load" /\ at' = at + 1
           \/ at = 9 /\ phase' = "attach" /\ at' = 1
    BY <1>1, <1>3, AdvanceNine
  <2>2. TypeOK'
    BY <1>1, <1>2, <2>1, Orders DEF TypeOK
  <2>3. \A i \in 1..at : ~Rejected(LoadOrder[i])'
    <3>1. \A i \in 1..at : ~Rejected(LoadOrder[i])
      BY <1>1, <1>3 DEF SInv, LoadOK
    <3>2. \A i \in 1..at : LoadOrder[i] \in SkelNames
      BY <1>1, Orders
    <3> QED
      BY <1>2, <3>1, <3>2, Selected
  <2>4. LoadOK'
    <3>1. CASE phase' = "load"
      BY <1>1, <2>1, <2>3, <3>1 DEF LoadOK, Verified
    <3>2. CASE phase' = "attach"
      <4>1. \A r \in SkelNames : ~Rejected(r)'
        BY <2>1, <2>3, <3>2, Orders
      <4> QED
        BY <3>2, <4>1 DEF LoadOK
    <3> QED
      BY <2>1, <3>1, <3>2
  <2>5. phase' \in {"load", "attach"} /\ (phase' = "attach" => at' = 1)
    BY <2>1
  <2>6. PartsOK'
    <3>1. \A r \in SkelNames : PartRight(r)'
      BY <1>1, <1>2, Selected DEF SInv, PartsOK, Opened
    <3> QED
      BY <2>5, <3>1 DEF PartsOK
  <2>7. OptionsStart'
    BY <1>2, <2>1, OptionsStartKept DEF SInv
  <2>8. AttachOK' /\ RingsOK'
    BY <2>5 DEF AttachOK, RingsOK, Attached, Buffered
  <2>9. PlaceOK'
    BY <2>1 DEF PlaceOK
  <2>10. HeldOK' /\ CauseOK' /\ NothingLeft'
    BY <1>1, <1>2, <2>5 DEF HeldOK, CauseOK, NothingLeft
  <2> QED
    BY <2>2, <2>4, <2>6, <2>7, <2>8, <2>9, <2>10 DEF SInv
<1>4. ASSUME NEW why \in {"system", "options"}, Fail(why), why = "options" => Rejected(s)
      PROVE  SInv'
  <2>1. phase' = "clean" /\ at' = 1 /\ cause' = why
    BY <1>4 DEF Fail
  <2>2. TypeOK'
    <3>1. Len(BufferOrder) = 16
      BY Orders
    <3> QED
      BY <1>1, <1>2, <1>4, <2>1, <3>1 DEF TypeOK
  <2>3. why = "options" => /\ {"fchmod", "fchmodat"} \cap enabled # {}
                           /\ MapOptions("chmod") \cap enabled = {}
    BY <1>1, <1>4, RejectedChmod
  <2> QED
    BY <1>1, <1>2, <1>4, <2>2, <2>3, FailStep
<1> QED
  BY <1>3, <1>4 DEF Load

\* What stays to be shown of a step that only adds to what is attached or polled.
LEMMA Kept ==
  ASSUME SInv, phase \in Verified, phase' \in Verified, enabled' = enabled,
         cause' = cause, \A s \in SkelNames : part'[s] = part[s]
  PROVE  PartsOK' /\ LoadOK' /\ OptionsStart' /\ CauseOK' /\ NothingLeft'
<1>1. \A s \in SkelNames : PartRight(s)' /\ ~Rejected(s)'
  BY Selected DEF SInv, PartsOK, LoadOK, Opened, Verified
<1>2. PartsOK' /\ LoadOK'
  BY <1>1 DEF PartsOK, LoadOK, Verified
<1>3. OptionsStart'
  BY OptionsStartKept DEF SInv
<1> QED
  BY <1>2, <1>3 DEF CauseOK, NothingLeft, Verified

LEMMA AttachSkelStep ==
  ASSUME SInv, AttachSkel
  PROVE  SInv'
<1> DEFINE s == SkelAttachOrder[at]
<1>1. /\ phase = "attach" /\ at \in 1..9 /\ s \in SkelNames /\ Len(SkelAttachOrder) = 9
      /\ rings = {} /\ TypeOK
  BY Orders DEF SInv, PlaceOK, HeldOK, AttachSkel
<1>2. /\ enabled' = enabled /\ rings' = rings /\ pid' = pid /\ isRun' = isRun
      /\ part' = IF phase' = "buffers" THEN [part EXCEPT !["map_buffer"] = "null"] ELSE part
  BY DEF AttachSkel
<1>3. /\ \A r \in SkelNames : part'[r] = part[r]
      /\ part' \in [Parts -> {"unset", "null", "set", "destroyed"}]
  BY <1>1, <1>2, SkelParts DEF TypeOK
<1>4. \A e \in Loaded(s) : /\ e \in ProgramEvents
                           /\ Skel(HandlerOf(e).family) \in SkelNames
                           /\ part[Skel(HandlerOf(e).family)] = "set"
  BY <1>1 DEF Loaded, EventsOf
<1>5. \A e \in attached : /\ e \in ProgramEvents
                          /\ Skel(HandlerOf(e).family) \in SkelNames
                          /\ part[Skel(HandlerOf(e).family)] = "set"
  BY <1>1 DEF SInv, HeldOK, TypeOK
<1>6. ASSUME attached' = attached \cup Loaded(s), Advance(SkelAttachOrder, "buffers")
      PROVE  SInv'
  <2>1. /\ cause' = cause /\ at' \in 1..9
        /\ \/ at < 9 /\ phase' = "attach" /\ at' = at + 1
           \/ at = 9 /\ phase' = "buffers" /\ at' = 1
    BY <1>1, <1>6, AdvanceNine
  <2>2. phase' \in {"attach", "buffers"} /\ (phase' = "buffers" => at' = 1)
    BY <2>1
  <2>3. TypeOK'
    <3>1. at' \in 1..Len(BufferOrder)
      BY <2>1, Orders
    <3>2. attached' \subseteq ProgramEvents
      BY <1>4, <1>5, <1>6
    <3> QED
      BY <1>1, <1>2, <1>3, <2>1, <2>2, <3>1, <3>2 DEF TypeOK
  <2>4. PartsOK' /\ LoadOK' /\ OptionsStart' /\ CauseOK' /\ NothingLeft'
    BY <1>1, <1>2, <1>3, <2>1, <2>2, Kept DEF Verified
  <2>5. AttachOK'
    <3>1. \A i \in 1..at : /\ SkelAttachOrder[i] \in SkelNames
                           /\ Loaded(SkelAttachOrder[i]) \subseteq attached'
      <4>1. \A i \in 1..(at - 1) : Loaded(SkelAttachOrder[i]) \subseteq attached
        BY <1>1 DEF SInv, AttachOK
      <4>2. \A i \in 1..at : SkelAttachOrder[i] \in SkelNames
        BY <1>1, Orders
      <4>3. \A i \in 1..at : i \in 1..(at - 1) \/ i = at
        BY <1>1
      <4> QED
        BY <1>6, <4>1, <4>2, <4>3
    <3>2. \A i \in 1..at : Loaded(SkelAttachOrder[i])' \subseteq attached'
      BY <1>2, <1>3, <3>1, Selected
    <3>3. CASE phase' = "attach"
      BY <1>1, <2>1, <3>2, <3>3 DEF AttachOK, Attached
    <3>4. CASE phase' = "buffers"
      <4>1. \A r \in SkelNames : Loaded(r)' \subseteq attached'
        BY <2>1, <3>2, <3>4, Orders
      <4> QED
        BY <3>4, <4>1 DEF AttachOK
    <3> QED
      BY <2>1, <3>3, <3>4
  <2>6. RingsOK'
    BY <1>1, <1>2, <2>2 DEF RingsOK, Attached, Buffered
  <2>7. PlaceOK'
    BY <2>1 DEF PlaceOK
  <2>8. HeldOK'
    <3>1. \A e \in attached' : /\ Skel(HandlerOf(e).family) \in SkelNames
                               /\ part'[Skel(HandlerOf(e).family)] = "set"
      BY <1>3, <1>4, <1>5, <1>6
    <3> QED
      BY <1>1, <1>2, <2>2, <3>1 DEF HeldOK
  <2> QED
    BY <2>3, <2>4, <2>5, <2>6, <2>7, <2>8 DEF SInv
<1>7. ASSUME Fail("system"), NEW more \in SUBSET Loaded(s), attached' = attached \cup more
      PROVE  SInv'
  <2>1. phase' = "clean" /\ at' = 1 /\ cause' = "system" /\ part' = part
    BY <1>2, <1>7 DEF Fail
  <2>2. TypeOK'
    <3>1. Len(BufferOrder) = 16
      BY Orders
    <3>2. attached' \subseteq ProgramEvents
      BY <1>4, <1>5, <1>7
    <3> QED
      BY <1>1, <1>2, <2>1, <3>1, <3>2 DEF TypeOK
  <2>3. \A e \in attached' : /\ Skel(HandlerOf(e).family) \in SkelNames
                             /\ part'[Skel(HandlerOf(e).family)] = "set"
    BY <1>4, <1>5, <1>7, <2>1
  <2> QED
    BY <1>1, <1>2, <1>7, <2>2, <2>3, FailStep
<1>8. ASSUME NEW failed \in Loaded(s),
             attached' = attached \cup {e \in Loaded(s) : Before(e, failed)}
      PROVE  \E more \in SUBSET Loaded(s) : attached' = attached \cup more
  BY <1>8
<1> QED
  BY <1>6, <1>7, <1>8 DEF AttachSkel

\* Rings and the pid change neither the parts of skeletons nor what they hold.
LEMMA BuffersKept ==
  ASSUME SInv, phase \in Attached, phase' \in Attached, enabled' = enabled,
         cause' = cause, attached' = attached, \A s \in SkelNames : part'[s] = part[s]
  PROVE  /\ PartsOK' /\ LoadOK' /\ OptionsStart' /\ CauseOK' /\ NothingLeft' /\ AttachOK'
         /\ \A e \in attached' : /\ Skel(HandlerOf(e).family) \in SkelNames
                                 /\ part'[Skel(HandlerOf(e).family)] = "set"
<1>1. \A s \in SkelNames : Loaded(s)' \subseteq attached'
  BY Selected DEF SInv, AttachOK
<1>2. AttachOK'
  BY <1>1 DEF AttachOK, Attached
<1>3. \A e \in attached' : /\ Skel(HandlerOf(e).family) \in SkelNames
                           /\ part'[Skel(HandlerOf(e).family)] = "set"
  BY DEF SInv, HeldOK, Attached
<1> QED
  BY <1>2, <1>3, Kept DEF Verified, Attached

\* The next ring or the pid was dealt with.
LEMMA BuffersStep ==
  ASSUME SInv, phase = "buffers", Advance(BufferOrder, "finish"), TypeOK',
         enabled' = enabled, attached' = attached,
         \A s \in SkelNames : part'[s] = part[s],
         rings' # {} => part'["map_buffer"] = "set",
         rings \subseteq rings', \A f \in rings' \ rings : f \in FamilyNames /\ RingWanted(f),
         IF at = 12 THEN pid' = PidWanted
         ELSE pid' = pid /\ (RingWanted(BufferOrder[at]) => BufferOrder[at] \in rings')
  PROVE  SInv'
<1>1. at \in 1..16 /\ Len(BufferOrder) = 16
  BY Orders DEF SInv, TypeOK
<1>2. /\ cause' = cause
      /\ \/ at < 16 /\ phase' = "buffers" /\ at' = at + 1
         \/ at = 16 /\ phase' = "finish" /\ at' = 1
  BY <1>1 DEF Advance
<1>3. phase' \in {"buffers", "finish"} /\ (phase' = "finish" => at' = 1)
  BY <1>2
<1>4. \A i \in 1..at : IF i = 12 THEN pid' = PidWanted
                       ELSE RingWanted(BufferOrder[i]) => BufferOrder[i] \in rings'
  <2>1. \A i \in 1..(at - 1) : IF i = 12 THEN pid = PidWanted
                               ELSE RingWanted(BufferOrder[i]) => BufferOrder[i] \in rings
    BY DEF SInv, RingsOK
  <2>2. 12 \in 1..(at - 1) => pid = PidWanted
    BY <2>1
  <2> SUFFICES ASSUME NEW i \in 1..at
               PROVE  IF i = 12 THEN pid' = PidWanted
                      ELSE RingWanted(BufferOrder[i]) => BufferOrder[i] \in rings'
    OBVIOUS
  <2>3. CASE i = at
    BY <2>3
  <2>4. CASE i \in 1..(at - 1)
    BY <1>1, <2>1, <2>2, <2>4
  <2> QED
    BY <1>1, <2>3, <2>4
<1>5. /\ \A f \in FamilyNames : RingWanted(f)' <=> RingWanted(f)
      /\ PidWanted' = PidWanted
  BY Selected
<1>6. \A i \in 1..at : IF i = 12 THEN pid' = PidWanted'
                       ELSE RingWanted(BufferOrder[i])' => BufferOrder[i] \in rings'
  <2>1. \A i \in 1..at : i # 12 => BufferOrder[i] \in FamilyNames
    BY <1>1, Orders
  <2> QED
    BY <1>4, <1>5, <2>1
<1>7. \A f \in rings' : f \in FamilyNames /\ RingWanted(f)'
  <2>1. \A f \in rings : f \in FamilyNames /\ RingWanted(f)
    BY DEF SInv, RingsOK, Attached
  <2> QED
    BY <1>5, <2>1
<1>8. RingsOK'
  <2>1. CASE phase' = "buffers"
    BY <1>1, <1>2, <1>6, <1>7, <2>1 DEF RingsOK, Buffered
  <2>2. CASE phase' = "finish"
    <3>1. at = 16
      BY <1>2, <2>2
    <3>2. pid' = PidWanted'
      BY <1>6, <3>1
    <3>3. \A f \in FamilyNames : \E i \in 1..at : i # 12 /\ BufferOrder[i] = f
      BY <3>1, Orders
    <3>4. \A f \in FamilyNames : RingWanted(f)' => f \in rings'
      BY <1>6, <3>3
    <3> QED
      BY <1>7, <2>2, <3>2, <3>4 DEF RingsOK
  <2> QED
    BY <1>2, <2>1, <2>2
<1>9. /\ PartsOK' /\ LoadOK' /\ OptionsStart' /\ CauseOK' /\ NothingLeft' /\ AttachOK'
      /\ \A e \in attached' : /\ Skel(HandlerOf(e).family) \in SkelNames
                              /\ part'[Skel(HandlerOf(e).family)] = "set"
  BY <1>2, <1>3, BuffersKept DEF Attached
<1>10. HeldOK'
  BY <1>3, <1>9 DEF HeldOK
<1>11. PlaceOK'
  BY <1>3 DEF PlaceOK
<1> QED
  BY <1>8, <1>9, <1>10, <1>11 DEF SInv

LEMMA CreateRingStep ==
  ASSUME SInv, CreateRing
  PROVE  SInv'
<1> DEFINE f == BufferOrder[at]
<1>1. /\ phase = "buffers" /\ f # "pid" /\ at \in 1..16 /\ Len(BufferOrder) = 16 /\ TypeOK
  BY Orders DEF SInv, TypeOK, CreateRing
<1>2. f \in FamilyNames /\ at # 12
  BY <1>1, Orders
<1>3. enabled' = enabled /\ attached' = attached /\ pid' = pid /\ isRun' = isRun
  BY DEF CreateRing
<1>4. rings # {} => part["map_buffer"] = "set"
  BY <1>1 DEF SInv, HeldOK
<1>5. ASSUME Advance(BufferOrder, "finish")
      PROVE  at' \in 1..16 /\ phase' \in {"buffers", "finish"} /\ cause' = cause
  BY <1>1, <1>5 DEF Advance
<1>6. ASSUME ~RingWanted(f), UNCHANGED <<rings, part>>, Advance(BufferOrder, "finish")
      PROVE  SInv'
  <2>1. TypeOK'
    BY <1>1, <1>3, <1>5, <1>6 DEF TypeOK
  <2> QED
    BY <1>1, <1>2, <1>3, <1>4, <1>6, <2>1, BuffersStep
<1>7. ASSUME RingWanted(f), rings' = rings \cup {f},
             part' = [part EXCEPT !["map_buffer"] = "set"], Advance(BufferOrder, "finish")
      PROVE  SInv'
  <2>1. part' \in [Parts -> {"unset", "null", "set", "destroyed"}]
        /\ part'["map_buffer"] = "set" /\ \A s \in SkelNames : part'[s] = part[s]
    BY <1>1, <1>7, SkelParts DEF TypeOK
  <2>2. TypeOK'
    BY <1>1, <1>2, <1>3, <1>5, <1>7, <2>1 DEF TypeOK
  <2> QED
    BY <1>1, <1>2, <1>3, <1>7, <2>1, <2>2, BuffersStep
<1>8. ASSUME UNCHANGED <<rings, part>>, Fail("system") PROVE SInv'
  <2>1. phase' = "clean" /\ at' = 1 /\ cause' = "system"
    BY <1>8 DEF Fail
  <2>2. TypeOK'
    BY <1>1, <1>3, <1>8, <2>1 DEF TypeOK
  <2>3. \A e \in attached : /\ Skel(HandlerOf(e).family) \in SkelNames
                            /\ part[Skel(HandlerOf(e).family)] = "set"
    BY <1>1 DEF SInv, HeldOK
  <2> QED
    BY <1>3, <1>4, <1>8, <2>2, <2>3, FailStep
<1> QED
  BY <1>6, <1>7, <1>8 DEF CreateRing

LEMMA StorePidStep ==
  ASSUME SInv, StorePid
  PROVE  SInv'
<1>1. /\ phase = "buffers" /\ at \in 1..16 /\ Len(BufferOrder) = 16 /\ TypeOK
      /\ BufferOrder[at] = "pid"
  BY Orders DEF SInv, TypeOK, StorePid
<1>2. at = 12
  BY <1>1, Orders
<1>3. enabled' = enabled /\ attached' = attached /\ rings' = rings /\ part' = part
      /\ isRun' = isRun
  BY DEF StorePid
<1>4. rings # {} => part["map_buffer"] = "set"
  BY <1>1 DEF SInv, HeldOK
<1>5. PidWanted \in BOOLEAN
  BY DEF PidWanted
<1>6. ASSUME pid' = PidWanted, Advance(BufferOrder, "finish") PROVE SInv'
  <2>1. at' \in 1..16 /\ phase' \in {"buffers", "finish"} /\ cause' = cause
    BY <1>1, <1>6 DEF Advance
  <2>2. TypeOK'
    BY <1>1, <1>3, <1>5, <1>6, <2>1 DEF TypeOK
  <2> QED
    BY <1>1, <1>2, <1>3, <1>4, <1>6, <2>2, BuffersStep
<1>7. ASSUME UNCHANGED pid, Fail("system") PROVE SInv'
  <2>1. phase' = "clean" /\ at' = 1 /\ cause' = "system"
    BY <1>7 DEF Fail
  <2>2. TypeOK'
    BY <1>1, <1>3, <1>7, <2>1 DEF TypeOK
  <2>3. \A e \in attached : /\ Skel(HandlerOf(e).family) \in SkelNames
                            /\ part[Skel(HandlerOf(e).family)] = "set"
    BY <1>1 DEF SInv, HeldOK
  <2> QED
    BY <1>3, <1>4, <1>7, <2>2, <2>3, FailStep
<1> QED
  BY <1>6, <1>7 DEF StorePid

LEMMA FinishStep ==
  ASSUME SInv, Finish
  PROVE  SInv'
<1>1. phase = "finish" /\ phase' = "run" /\ at = 1 /\ TypeOK
  BY DEF SInv, PlaceOK, Finish
<1>2. UNCHANGED <<at, enabled, attached, rings, pid, isRun, cause>>
  BY DEF Finish
<1>3. PICK h \in {"null", "set"} :
        part' = [part EXCEPT !["users_groups"] = "set", !["hash"] = h]
  BY DEF Finish
<1>4. /\ part' \in [Parts -> {"unset", "null", "set", "destroyed"}]
      /\ part'["map_buffer"] = part["map_buffer"]
      /\ \A s \in SkelNames : part'[s] = part[s]
  BY <1>1, <1>3, SkelParts DEF TypeOK
<1>5. TypeOK'
  BY <1>1, <1>2, <1>4 DEF TypeOK
<1>6. /\ PartsOK' /\ LoadOK' /\ OptionsStart' /\ CauseOK' /\ NothingLeft' /\ AttachOK'
      /\ \A e \in attached' : /\ Skel(HandlerOf(e).family) \in SkelNames
                              /\ part'[Skel(HandlerOf(e).family)] = "set"
  BY <1>1, <1>2, <1>4, BuffersKept DEF Attached
<1>7. RingsOK'
  <2>1. /\ pid = PidWanted /\ \A f \in FamilyNames : RingWanted(f) => f \in rings
        /\ \A f \in rings : f \in FamilyNames /\ RingWanted(f)
    BY <1>1 DEF SInv, RingsOK, Buffered, Attached
  <2>2. PidWanted' = PidWanted /\ \A f \in FamilyNames : RingWanted(f)' <=> RingWanted(f)
    BY <1>2, <1>4, Selected
  <2> QED
    BY <1>1, <1>2, <2>1, <2>2 DEF RingsOK
<1>8. HeldOK' /\ PlaceOK'
  BY <1>1, <1>2, <1>4, <1>6 DEF SInv, HeldOK, PlaceOK
<1> QED
  BY <1>5, <1>6, <1>7, <1>8 DEF SInv

LEMMA SignalStep ==
  ASSUME SInv, Signal
  PROVE  SInv'
<1>1. UNCHANGED <<phase, at, enabled, part, attached, rings, pid, cause>> /\ isRun' = FALSE
  BY DEF Signal
<1>2. /\ \A s : PartRight(s)' <=> PartRight(s)
      /\ \A s : Loaded(s)' = Loaded(s)
      /\ \A s : Rejected(s)' <=> Rejected(s)
      /\ \A f : RingWanted(f)' <=> RingWanted(f)
      /\ PidWanted' = PidWanted
  BY <1>1 DEF PartRight, SkelDisabled, Loaded, Rejected, MapEnabled, RingWanted, PidWanted
<1>3. PartsOK' /\ LoadOK' /\ AttachOK' /\ RingsOK'
  BY <1>1, <1>2 DEF SInv, PartsOK, LoadOK, AttachOK, RingsOK
<1>4. TypeOK' /\ PlaceOK' /\ HeldOK' /\ CauseOK' /\ NothingLeft'
  BY <1>1 DEF SInv, TypeOK, PlaceOK, HeldOK, CauseOK, NothingLeft
<1>5. OptionsStart'
  BY <1>1, OptionsStartKept DEF SInv
<1> QED
  BY <1>3, <1>4, <1>5 DEF SInv

LEMMA CleanStep ==
  ASSUME SInv, phase = "run", phase' = "clean",
         UNCHANGED <<at, enabled, part, attached, rings, pid, isRun, cause>>
  PROVE  SInv'
<1>1. TypeOK' /\ PlaceOK' /\ CauseOK' /\ NothingLeft'
  BY DEF SInv, TypeOK, PlaceOK, CauseOK, NothingLeft
<1>2. PartsOK' /\ LoadOK' /\ AttachOK' /\ RingsOK'
  BY DEF PartsOK, LoadOK, AttachOK, RingsOK, Opened, Verified, Attached, Buffered
<1>3. HeldOK'
  BY DEF SInv, HeldOK
<1>4. OptionsStart'
  BY OptionsStartKept DEF SInv
<1> QED
  BY <1>1, <1>2, <1>3, <1>4 DEF SInv

LEMMA DeleteStep ==
  ASSUME SInv, Delete
  PROVE  SInv'
<1>1. /\ phase = "clean" /\ phase' \in {"ended", "crashed"} /\ TypeOK
      /\ part' = [p \in Parts |-> IF p \in Destroyed THEN "destroyed" ELSE part[p]]
      /\ attached' = {e \in attached : Skel(HandlerOf(e).family) \notin Destroyed}
      /\ rings' = IF "map_buffer" \in Destroyed THEN {} ELSE rings
      /\ UNCHANGED <<at, enabled, pid, isRun, cause>>
  BY DEF SInv, Delete
<1>2. attached' = {}
  <2>1. \A e \in attached : Skel(HandlerOf(e).family) \in Destroyed
    BY <1>1, SkelParts DEF SInv, HeldOK, Destroyed
  <2> QED
    BY <1>1, <2>1
<1>3. rings' = {}
  <2>1. rings # {} => "map_buffer" \in Destroyed
    BY <1>1, SkelParts DEF SInv, HeldOK, Destroyed
  <2> QED
    BY <1>1, <2>1
<1>4. \A p \in Parts : part'[p] # "set" /\ part'[p] \in {"unset", "null", "set", "destroyed"}
  BY <1>1 DEF TypeOK, Destroyed
<1>5. TypeOK'
  BY <1>1, <1>2, <1>3, <1>4 DEF TypeOK
<1>6. OptionsStart'
  BY <1>1, OptionsStartKept DEF SInv
<1>7. PartsOK' /\ LoadOK' /\ AttachOK' /\ RingsOK'
  BY <1>1 DEF PartsOK, LoadOK, AttachOK, RingsOK, Opened, Verified, Attached, Buffered
<1>8. PlaceOK' /\ HeldOK' /\ CauseOK' /\ NothingLeft'
  BY <1>1, <1>2, <1>3, <1>4 DEF PlaceOK, HeldOK, CauseOK, NothingLeft
<1> QED
  BY <1>5, <1>6, <1>7, <1>8 DEF SInv

LEMMA SInvNext == SInv /\ [Next]_vars => SInv'
<1> SUFFICES ASSUME SInv, [Next]_vars PROVE SInv'
  OBVIOUS
<1>1. ASSUME NEW e \in Choosable, SetOption(e) PROVE SInv'
  BY <1>1, SetOptionStep
<1>2. CASE Allocate
  BY <1>2, AllocateStep
<1>3. CASE Open
  BY <1>3, OpenStep
<1>4. CASE Load
  BY <1>4, LoadStep
<1>5. CASE AttachSkel
  BY <1>5, AttachSkelStep
<1>6. CASE CreateRing
  BY <1>6, CreateRingStep
<1>7. CASE StorePid
  BY <1>7, StorePidStep
<1>8. CASE Finish
  BY <1>8, FinishStep
<1>9. CASE Signal
  BY <1>9, SignalStep
<1>10. CASE StopPolling
  BY <1>10, CleanStep DEF StopPolling
<1>11. CASE PollError
  BY <1>11, CleanStep DEF PollError
<1>12. CASE Delete
  BY <1>12, DeleteStep
<1>13. CASE UNCHANGED vars
  <2>1. UNCHANGED <<phase, at, enabled, part, attached, rings, pid, isRun, cause>>
    BY <1>13 DEF vars
  <2>2. /\ \A s : PartRight(s)' <=> PartRight(s)
        /\ \A s : Loaded(s)' = Loaded(s)
        /\ \A s : Rejected(s)' <=> Rejected(s)
        /\ \A f : RingWanted(f)' <=> RingWanted(f)
        /\ PidWanted' = PidWanted
    BY <2>1 DEF PartRight, SkelDisabled, Loaded, Rejected, MapEnabled, RingWanted, PidWanted
  <2>3. PartsOK' /\ LoadOK' /\ AttachOK' /\ RingsOK'
    BY <2>1, <2>2 DEF SInv, PartsOK, LoadOK, AttachOK, RingsOK
  <2>4. TypeOK' /\ PlaceOK' /\ HeldOK' /\ CauseOK' /\ NothingLeft'
    BY <2>1 DEF SInv, TypeOK, PlaceOK, HeldOK, CauseOK, NothingLeft
  <2>5. OptionsStart'
    BY <2>1, OptionsStartKept DEF SInv
  <2> QED
    BY <2>3, <2>4, <2>5 DEF SInv
<1> QED
  BY <1>1, <1>2, <1>3, <1>4, <1>5, <1>6, <1>7, <1>8, <1>9, <1>10, <1>11, <1>12, <1>13
     DEF Next, BpfInit

-----------------------------------------------------------------------------
(* The theorems *)

\* While the process polls, the invariant says that what the options select runs.
LEMMA SInvEvents == SInv => EventsRun
<1> SUFFICES ASSUME SInv, phase = "run", NEW e \in enabled \cap ProgramEvents,
                    e # "delete_module" \/ "init_module" \in enabled
             PROVE  Runs(e)
  BY DEF EventsRun
<1> DEFINE f == HandlerOf(e).family
           s == Skel(f)
<1>1. f \in FamilyNames /\ s \in SkelNames /\ e \in ProgramEvents
      /\ (f = "delete_module" => e = "delete_module")
  BY FamilyFacts, SkelType
<1>2. /\ PartRight(s) /\ ~Rejected(s) /\ Loaded(s) \subseteq attached
      /\ RingWanted(f) => f \in rings
  BY <1>1 DEF SInv, PartsOK, LoadOK, AttachOK, RingsOK, Opened, Verified, Attached, Buffered
<1>3. e \in EventsOf(s)
  BY <1>1 DEF EventsOf
<1>4. ~SkelDisabled(s)
  <2>1. CASE s = "delete_module"
    <3>1. f = "delete_module"
      BY <1>1, <2>1 DEF Skel, FamilyNames
    <3>2. "init_module" \in enabled
      BY <1>1, <3>1
    <3> QED
      BY <2>1, <3>2 DEF SkelDisabled, SkelOptions
  <2>2. CASE s # "delete_module"
    <3>1. e \in SkelOptions(s)
      BY <1>3, <2>2 DEF SkelOptions
    <3> QED
      BY <3>1 DEF SkelDisabled
  <2> QED
    BY <2>1, <2>2
<1>5. part[s] = "set"
  BY <1>2, <1>4 DEF PartRight
<1>6. e \in Loaded(s)
  BY <1>3, <1>5 DEF Loaded
<1>7. MapEnabled(f)
  BY <1>2, <1>6 DEF Rejected
<1>8. f \in rings
  BY <1>2, <1>5, <1>7 DEF RingWanted
<1> QED
  BY <1>2, <1>6, <1>8 DEF Runs

LEMMA SInvFilter == SInv => FilterStored
<1> SUFFICES ASSUME SInv, phase = "run", NEW f \in {"write", "read"}, f \in rings
             PROVE  pid
  BY DEF FilterStored
<1>1. RingWanted(f) /\ pid = PidWanted
  BY DEF SInv, RingsOK, Attached, Buffered
<1>2. Skel(f) = "file" /\ part["file"] = "set"
  BY <1>1 DEF Skel, RingWanted
<1>3. MapOptions(f) \cap enabled # {}
  BY <1>1, <1>2 DEF RingWanted, MapEnabled
<1>4. MapOptions(f) = FamilyEvents(f)
  BY DEF MapOptions
<1>5. PICK e \in FamilyEvents(f) : e \in enabled
  BY <1>3, <1>4
<1>6. e \in {"write", "read"}
  BY <1>5, FamilyFacts DEF FamilyEvents
<1>7. PidWanted
  BY <1>2, <1>5, <1>6 DEF PidWanted
<1> QED
  BY <1>1, <1>7

\* SInv holds whatever options the command line may set.
THEOREM StartupInvariant == Spec => []SInv
BY SInvInit, SInvNext, PTL DEF Spec

\* Every variable of the process has its type.
THEOREM StartupTypes == Spec => []TypeOK
<1>1. SInv => TypeOK
  BY DEF SInv
<1> QED
  BY <1>1, StartupInvariant, PTL

\* The macros and set_autoload agree for every set of options: while main polls,
\* an enabled event is attached and its ring is polled, delete_module without
\* init_module excepted.
THEOREM EnabledRun == Spec => []EventsRun
BY SInvEvents, StartupInvariant, PTL

\* bpf_init fails for no set of options but those that enable fchmod or fchmodat
\* and leave out chmod's maps.
THEOREM OptionsSuffice == Spec => []OptionsStart
<1>1. SInv => OptionsStart
  BY DEF SInv
<1> QED
  BY <1>1, StartupInvariant, PTL

\* create_file_map_buffers stores the pid before the first poll that can meet a
\* record of a write or read.
THEOREM Filtered == Spec => []FilterStored
BY SInvFilter, StartupInvariant, PTL

\* bpf_delete leaves nothing of what bpf_init made, however far that came.
THEOREM Cleaned == Spec => []NothingLeft
<1>1. SInv => NothingLeft
  BY DEF SInv
<1> QED
  BY <1>1, StartupInvariant, PTL
=============================================================================
