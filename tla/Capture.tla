------------------------------- MODULE Capture -------------------------------
(***************************************************************************)
(* How an event gets from a thread to the log: the enter and exit programs *)
(* of src/logger/bpf/*.bpf.c run in the threads that make the calls, share *)
(* one hash map and one ring buffer per family, and the single thread of   *)
(* the logger attaches the programs (bpf.c: bpf_attach), stores its pid    *)
(* for the filter (create_file_map_buffers) and then polls the rings       *)
(* (main.c: main).                                                         *)
(*                                                                         *)
(* A program runs to completion on its CPU, but programs of different      *)
(* threads overlap, so the exit program is two steps: lookup and reserve,  *)
(* then fill, submit and delete.  The logger's own calls, those its        *)
(* callbacks make included, are traced like any other.                     *)
(*                                                                         *)
(* Calls are numbered from 1.  A record keeps the number of the call whose *)
(* arguments it carries (from the entry) and of the call whose result it   *)
(* carries (from the exit program); the code keeps the data itself.        *)
(***************************************************************************)
EXTENDS Integers, Sequences, FiniteSets

CONSTANTS
  Threads,    \* the threads of the machine: the values of pid_tgid
  Logger,     \* the thread of the logger itself
  Leader,     \* Leader[t]: the first thread of t's process
  Events,     \* the enabled events
  Handler,    \* the handler of each event: its family and its decisions
  EnterAt,    \* EnterAt[e]: position of e's enter program among the programs
  ExitAt,     \* ExitAt[e]: position of e's exit program
  NPrograms,  \* the number of programs to attach
  HashMax,    \* HashMax[f]: max_entries of the hash map of family f
  RingMax,    \* RingMax[f]: the records that fit in the ring of family f
  MaxCalls    \* bound on the calls of a behaviour

Families == {Handler[e].family : e \in Events}

\* The logger is a process of one thread.
ASSUME ThreadsAssumption ==
  /\ Logger \in Threads
  /\ Leader \in [Threads -> Threads]
  /\ \A t \in Threads :
       /\ Leader[Leader[t]] = Leader[t]
       /\ Leader[t] = Logger <=> t = Logger

ASSUME HandlerAssumption ==
  /\ Events # {}
  /\ \A e \in Events :
       /\ DOMAIN Handler[e] = {"family", "paired", "guarded", "filtered",
                               "eager", "silent", "leaky", "rekeys"}
       /\ Handler[e].paired \in BOOLEAN
       /\ Handler[e].guarded \in BOOLEAN
       /\ Handler[e].filtered \in BOOLEAN
       /\ Handler[e].eager \in BOOLEAN
       /\ Handler[e].silent \in BOOLEAN
       /\ Handler[e].leaky \in BOOLEAN
       /\ Handler[e].rekeys \in BOOLEAN

\* A handler that may leave an entry behind (leaky or rekeys) shares the map
\* only with handlers that store an entry on every call, and is attached after
\* their enter programs.  In sock.bpf.c the enter programs of connect and listen
\* precede the exit program of listen; in execve.bpf.c both enter programs
\* precede the exit programs.  No family has handlers of both kinds.
ASSUME LeakyAssumption ==
  \A e, d \in Events :
    /\ Handler[d].family = Handler[e].family
       /\ (Handler[e].leaky \/ Handler[e].rekeys)
         => /\ Handler[e].paired
            /\ ~Handler[d].guarded /\ ~Handler[d].filtered
            /\ Handler[d].paired => EnterAt[d] < ExitAt[e]
    /\ Handler[d].family = Handler[e].family /\ Handler[e].rekeys
         => ~Handler[d].leaky

\* The filter is a property of the family: its map is either never or always
\* used by the logger's own calls.
ASSUME FilterAssumption ==
  \A e, d \in Events :
    Handler[d].family = Handler[e].family
      => Handler[d].filtered = Handler[e].filtered

ASSUME FiniteAssumption == IsFiniteSet(Threads)

ASSUME SizeAssumption ==
  /\ NPrograms \in Nat /\ MaxCalls \in Nat
  /\ EnterAt \in [Events -> Nat] /\ ExitAt \in [Events -> Nat]
  /\ \A f \in Families : HashMax[f] \in Nat /\ RingMax[f] \in Nat

-----------------------------------------------------------------------------
VARIABLES
  loaded,   \* the number of programs attached so far
  ready,    \* the rings are created and the logger's pid is stored
  call,     \* call[t]: the call that thread t is in
  hash,     \* hash[f][t]: the entry of thread t in the hash map of family f
  ring,     \* ring[f]: every record ever reserved in the ring of family f
  cons,     \* cons[f]: the number of records the logger is done with
  polling,  \* the family whose callback is running, if any
  ncalls    \* the number of calls begun

vars == <<loaded, ready, call, hash, ring, cons, polling, ncalls>>

\* The entry of a thread that has none.  "covered" of an entry tells whether
\* the programs of the event were all attached when its call began.
NoEntry == [id |-> 0, covered |-> FALSE]

Entry == [id : Nat, covered : BOOLEAN]

\* "stage" is "user" outside a traced call, "in" between the enter and the exit
\* program and "fill" between reserve and submit; "pos" is the reserved record.
Idle == [stage |-> "user", ev |-> CHOOSE e \in Events : TRUE, id |-> 0,
         covered |-> FALSE, pos |-> 0]

Call == [stage : {"user", "in", "fill"}, ev : Events, id : Nat,
         covered : BOOLEAN, pos : Nat]

\* "enter" and "entered" come from the entry, "exit" and "covered" from the call
\* that reserved the record; "busy" is the ring's busy bit.
Record == [thread : Threads, ev : Events, enter : Nat, entered : BOOLEAN,
           exit : Nat, covered : BOOLEAN, busy : BOOLEAN]

Family(e) == Handler[e].family

LoggerIdle == call[Logger].stage = "user"

EnterLive(e) == Handler[e].paired /\ EnterAt[e] <= loaded

ExitLive(e) == ExitAt[e] <= loaded

Covered(e) == ExitLive(e) /\ (Handler[e].paired => EnterLive(e))

\* Variant of IsSystemLogger for the mutation checks: the filter is missing.
NotSystemLogger(t, e) == FALSE

\* is_system_logger_pid: the pid the map holds before the logger stores its own
\* is that of no thread.
IsSystemLogger(t, e) == Handler[e].filtered /\ t = Logger /\ ready

\* Variant of HashTakes for the mutation checks: BPF_NOEXIST for BPF_ANY.
HashTakesNew(f, t) ==
  /\ hash[f][t].id = 0
  /\ Cardinality({u \in Threads : hash[f][u].id # 0}) < HashMax[f]

\* bpf_map_update_elem(..., BPF_ANY): replaces the entry of the key; a new key
\* needs a free element.
HashTakes(f, t) ==
  \/ hash[f][t].id # 0
  \/ Cardinality({u \in Threads : hash[f][u].id # 0}) < HashMax[f]

\* bpf_ringbuf_reserve: a record occupies the ring until the logger has moved
\* the consumer position past it.
RingTakes(f) == Len(ring[f]) - cons[f] < RingMax[f]

\* Variant of Deleted for the mutation checks: the entry is not deleted.
NotDeleted(t, e) == hash

\* The hash maps after bpf_map_delete_elem by thread t in a handler of e.
Deleted(t, e) ==
  IF Handler[e].paired THEN [hash EXCEPT ![Family(e)][t] = NoEntry] ELSE hash

Init ==
  /\ loaded = 0
  /\ ready = FALSE
  /\ call = [t \in Threads |-> Idle]
  /\ hash = [f \in Families |-> [t \in Threads |-> NoEntry]]
  /\ ring = [f \in Families |-> <<>>]
  /\ cons = [f \in Families |-> 0]
  /\ polling = {}
  /\ ncalls = 0

-----------------------------------------------------------------------------
(* Start of the logger *)

\* Variant of Attach for the mutation checks: an off-by-one in the bound.
AttachPast ==
  /\ LoggerIdle
  /\ loaded <= NPrograms
  /\ loaded' = loaded + 1
  /\ UNCHANGED <<ready, call, hash, ring, cons, polling, ncalls>>

\* bpf_attach: the next program, in the order of the source.
Attach ==
  /\ LoggerIdle
  /\ loaded < NPrograms
  /\ loaded' = loaded + 1
  /\ UNCHANGED <<ready, call, hash, ring, cons, polling, ncalls>>

\* create_map_buffers: the rings are added to the buffer manager and the pid of
\* the logger is stored in system_logger_pid_array.
CreateMapBuffers ==
  /\ LoggerIdle
  /\ loaded = NPrograms
  /\ ~ready
  /\ ready' = TRUE
  /\ UNCHANGED <<loaded, call, hash, ring, cons, polling, ncalls>>

-----------------------------------------------------------------------------
(* The enter programs *)

\* Thread t begins a call of event e.
Begin(t, e) ==
  /\ call[t].stage = "user"
  /\ ncalls < MaxCalls
  /\ ncalls' = ncalls + 1
  /\ call' = [call EXCEPT ![t] = [stage |-> "in", ev |-> e, id |-> ncalls + 1,
                                  covered |-> Covered(e), pos |-> 0]]
  /\ UNCHANGED <<loaded, ready, ring, cons, polling>>

\* The enter program stores the entry of the call.
SysEnterStore(t, e) ==
  /\ Begin(t, e)
  /\ EnterLive(e)
  /\ ~IsSystemLogger(t, e)
  /\ HashTakes(Family(e), t)
  /\ hash' = [hash EXCEPT ![Family(e)][t] =
                [id |-> ncalls + 1, covered |-> Covered(e)]]

\* Variant of SysEnterSkip for the mutation checks: every enter program may
\* return early.
SysEnterSkipAny(t, e) ==
  /\ Begin(t, e)
  /\ UNCHANGED hash

\* No entry is stored: no enter program runs, it runs in the logger, it returns
\* early, or the map is full (the result of bpf_map_update_elem is not used).
SysEnterSkip(t, e) ==
  /\ Begin(t, e)
  /\ \/ ~EnterLive(e)
     \/ IsSystemLogger(t, e)
     \/ Handler[e].guarded
     \/ ~HashTakes(Family(e), t)
  /\ UNCHANGED hash

\* A call of execve turns the process into one of a single thread, which has the
\* id of the leader from then on; the leader itself has ended its calls.  The id
\* t may be given to a new thread later.
Rekey(t) ==
  LET u == Leader[t] IN
  /\ u # t
  /\ call[t].stage = "in"
  /\ Handler[call[t].ev].rekeys
  /\ call[u].stage = "user"
  /\ call' = [call EXCEPT ![u] = call[t], ![t] = Idle]
  /\ UNCHANGED <<loaded, ready, hash, ring, cons, polling, ncalls>>

-----------------------------------------------------------------------------
(* The exit programs *)

\* The exit program runs in t and gets past its filter and its lookup.
ExitFinds(t) ==
  LET e == call[t].ev IN
  /\ call[t].stage = "in"
  /\ ExitLive(e)
  /\ ~IsSystemLogger(t, e)
  /\ Handler[e].paired => hash[Family(e)][t].id # 0

\* The call of thread t ends.
Return(t) == call' = [call EXCEPT ![t] = Idle]

\* No exit program, the logger's own call, or no entry for the thread.
SysExitMiss(t) ==
  /\ call[t].stage = "in"
  /\ ~ExitFinds(t)
  /\ Return(t)
  /\ UNCHANGED <<loaded, ready, hash, ring, cons, polling, ncalls>>

\* The exit program finds that there is nothing to send.
SysExitSilent(t) ==
  /\ ExitFinds(t)
  /\ Handler[call[t].ev].silent
  /\ hash' = Deleted(t, call[t].ev)
  /\ Return(t)
  /\ UNCHANGED <<loaded, ready, ring, cons, polling, ncalls>>

\* Variant of SysExitDrop for the mutation checks: "return" for "goto clean".
SysExitDropReturn(t) ==
  /\ ExitFinds(t)
  /\ ~RingTakes(Family(call[t].ev))
  /\ Return(t)
  /\ UNCHANGED <<loaded, ready, hash, ring, cons, polling, ncalls>>

\* bpf_ringbuf_reserve fails: the event is lost.
SysExitDrop(t) ==
  /\ ExitFinds(t)
  /\ ~RingTakes(Family(call[t].ev))
  /\ hash' = IF Handler[call[t].ev].leaky THEN hash ELSE Deleted(t, call[t].ev)
  /\ Return(t)
  /\ UNCHANGED <<loaded, ready, ring, cons, polling, ncalls>>

\* The record that the exit program of thread t reserves.
NewRecord(t) ==
  LET e == call[t].ev entry == hash[Family(e)][t] IN
  [thread |-> t, ev |-> e, exit |-> call[t].id, covered |-> call[t].covered,
   enter |-> IF Handler[e].paired THEN entry.id ELSE call[t].id,
   entered |-> IF Handler[e].paired THEN entry.covered ELSE call[t].covered,
   busy |-> TRUE]

\* bpf_ringbuf_reserve succeeds: the record is in the ring and busy.
SysExitReserve(t) ==
  LET e == call[t].ev f == Family(e) IN
  /\ ExitFinds(t)
  /\ RingTakes(f)
  /\ ring' = [ring EXCEPT ![f] = Append(@, NewRecord(t))]
  /\ call' = [call EXCEPT ![t].stage = "fill", ![t].pos = Len(ring[f]) + 1]
  /\ hash' = IF Handler[e].eager THEN Deleted(t, e) ELSE hash
  /\ UNCHANGED <<loaded, ready, cons, polling, ncalls>>

\* Variant of SysExitSubmit for the mutation checks: the submit is missing.
SysExitNoSubmit(t) ==
  /\ call[t].stage = "fill"
  /\ hash' = Deleted(t, call[t].ev)
  /\ Return(t)
  /\ UNCHANGED <<loaded, ready, ring, cons, polling, ncalls>>

\* The record is filled and submitted, the entry deleted; a leaky handler keeps
\* the entry when it met an error.
SysExitSubmit(t) ==
  LET e == call[t].ev IN
  /\ call[t].stage = "fill"
  /\ ring' = [ring EXCEPT ![Family(e)][call[t].pos].busy = FALSE]
  /\ \/ hash' = Deleted(t, e)
     \/ Handler[e].leaky /\ UNCHANGED hash
  /\ Return(t)
  /\ UNCHANGED <<loaded, ready, cons, polling, ncalls>>

-----------------------------------------------------------------------------
(* The logger's main loop: ring_buffer__poll *)

\* Variant of PollBegin for the mutation checks: a busy record is read as well.
PollBeginBusy(f) ==
  /\ ready
  /\ LoggerIdle
  /\ polling = {}
  /\ cons[f] < Len(ring[f])
  /\ polling' = {f}
  /\ UNCHANGED <<loaded, ready, call, hash, ring, cons, ncalls>>

\* The callback of family f is called with the oldest record of the ring, unless
\* that record is still busy.
PollBegin(f) ==
  /\ ready
  /\ LoggerIdle
  /\ polling = {}
  /\ cons[f] < Len(ring[f])
  /\ ~ring[f][cons[f] + 1].busy
  /\ polling' = {f}
  /\ UNCHANGED <<loaded, ready, call, hash, ring, cons, ncalls>>

\* The callback returned: the record is released.
PollEnd(f) ==
  /\ f \in polling
  /\ LoggerIdle
  /\ cons' = [cons EXCEPT ![f] = @ + 1]
  /\ polling' = {}
  /\ UNCHANGED <<loaded, ready, call, hash, ring, ncalls>>

\* ring_buffer__poll returns after its timeout: no ring holds a finished record
\* that is next in its ring.
PollTimeout ==
  /\ ready
  /\ LoggerIdle
  /\ polling = {}
  /\ \A f \in Families : cons[f] < Len(ring[f]) => ring[f][cons[f] + 1].busy
  /\ UNCHANGED vars

-----------------------------------------------------------------------------
SysExit(t) ==
  \/ SysExitMiss(t)
  \/ SysExitSilent(t)
  \/ SysExitDrop(t)
  \/ SysExitReserve(t)
  \/ SysExitSubmit(t)

Poll == \E f \in Families : PollBegin(f) \/ PollEnd(f)

Next ==
  \/ Attach
  \/ CreateMapBuffers
  \/ \E t \in Threads, e \in Events : SysEnterStore(t, e) \/ SysEnterSkip(t, e)
  \/ \E t \in Threads : Rekey(t) \/ SysExit(t)
  \/ Poll
  \/ PollTimeout

Spec == Init /\ [][Next]_vars

\* The logger starts and polls, its own calls return, and an exit program that
\* has reserved a record runs to its end.  A call of another thread may never
\* return, and no thread need make one.
Fairness ==
  /\ WF_vars(Attach)
  /\ WF_vars(CreateMapBuffers)
  /\ WF_vars(Poll)
  /\ WF_vars(SysExit(Logger))
  /\ \A t \in Threads : WF_vars(SysExitSubmit(t))

FairSpec == Spec /\ Fairness

-----------------------------------------------------------------------------
(* Properties *)

\* Every variable has its type: positions are those of records in the ring, and
\* at most one callback runs.
TypeOK ==
  /\ loaded \in 0..NPrograms
  /\ ready \in BOOLEAN
  /\ call \in [Threads -> Call]
  /\ hash \in [Families -> [Threads -> Entry]]
  /\ ring \in [Families -> Seq(Record)]
  /\ cons \in [Families -> Nat]
  /\ polling \in SUBSET Families
  /\ ncalls \in 0..MaxCalls

\* A record carries the arguments and the result of one and the same call.  The
\* exception is an entry left behind by a call that began while the programs
\* were being attached; it is only ever met by a later call whose enter program
\* stores nothing under that key (a guarded handler, a call begun in another
\* thread, or one that itself began before all the programs were attached),
\* never by one that stores its own entry.
WellPaired(r) ==
  \/ r.enter = r.exit
  \/ /\ ~r.entered
     /\ Handler[r.ev].guarded \/ Handler[r.ev].rekeys \/ ~r.covered

RecordsPair ==
  \A f \in Families : \A i \in DOMAIN ring[f] : WellPaired(ring[f][i])

\* No two records of a ring carry the arguments of the same call: an entry is
\* used up by the record made from it, whatever happens to the map in between.
OneRecordPerEntry ==
  \A f \in Families : \A i, j \in DOMAIN ring[f] :
    ring[f][i].enter = ring[f][j].enter => i = j

\* Thread t is inside the call that stored its entry of family f.
InOwnCall(f, t) ==
  /\ call[t].stage \in {"in", "fill"}
  /\ Handler[call[t].ev].paired
  /\ Family(call[t].ev) = f
  /\ call[t].id = hash[f][t].id

\* Thread t may have an entry of family f that no exit program will delete: one
\* kept by a leaky handler, or one stored before its thread became the leader.
MayLeave(f, t) ==
  \E e \in Events :
    Family(e) = f /\ (Handler[e].leaky \/ (Handler[e].rekeys /\ Leader[t] # t))

\* An entry does not outlive its call, so the map can only be full of calls in
\* progress: enter and exit programs agree on which calls they handle, and every
\* path of the exit program deletes.  Excepted are the entries of calls that
\* began while the programs were being attached and those MayLeave names.
NoLeakedEntry ==
  \A f \in Families, t \in Threads :
    hash[f][t].id # 0 /\ hash[f][t].covered /\ ~MayLeave(f, t)
      => InOwnCall(f, t)

\* What the logger has read, or is reading in a callback, does not change under
\* it: no exit program writes to a record at or before that position.
ReadUnchanged ==
  \A f \in Families : \A i \in DOMAIN ring[f] :
    i <= cons[f] + (IF f \in polling THEN 1 ELSE 0)
      => ring'[f][i] = ring[f][i] /\ ~ring[f][i].busy

ReadRecordsStable == [][ReadUnchanged]_vars

\* Once the logger has stored its pid, the reads and writes that it makes leave
\* no trace: no entry of its thread appears in or disappears from the map, and
\* no record of such a call enters the ring.
NoTrace ==
  ready => \A e \in Events : LET f == Family(e) IN
    Handler[e].filtered
      => /\ hash'[f][Logger] = hash[f][Logger]
         /\ \A i \in DOMAIN ring'[f] \ DOMAIN ring[f] :
              ring'[f][i].thread # Logger

LoggerInvisible == [][NoTrace]_vars

\* A call of event e ought to be logged: its handler stores on every call and
\* always sends.
Logs(t, e) ==
  /\ ~Handler[e].guarded
  /\ ~Handler[e].silent
  /\ Handler[e].filtered => t # Logger

\* The covered call of thread t ends in this step without a record, though it
\* ought to be logged.
Unlogged(t) ==
  /\ call[t].stage = "in"
  /\ \A u \in Threads : call'[u].id # call[t].id
  /\ call[t].covered
  /\ Logs(t, call[t].ev)

RingFull(f) == Len(ring[f]) - cons[f] >= RingMax[f]

\* With room in the map for every thread, a call that ends unlogged met a full
\* ring at its exit: neither the calls of other threads nor entries left behind
\* make a thread lose an event.  Calls that may change their key are excepted.
LostOnlyToFullRing ==
  [][\A t \in Threads : LET e == call[t].ev IN
       ~Handler[e].rekeys /\ Cardinality(Threads) <= HashMax[Family(e)]
         => (Unlogged(t) => RingFull(Family(e)))]_vars

\* Every record reserved is eventually read by the logger, also behind records
\* that other threads are slow to submit.
Delivered ==
  \A f \in Families : \A n \in 1..MaxCalls :
    Len(ring[f]) >= n ~> cons[f] >= n

-----------------------------------------------------------------------------
(* The abstract log that the programs and the poll loop implement *)

\* The call of thread t is sure of a record if the ring has room: its event ought
\* to be logged, its programs were attached when it began, its thread keeps its
\* id, and the map has room for every thread.
Owed(t) ==
  LET e == call[t].ev IN
  /\ call[t].covered
  /\ Logs(t, e)
  /\ ~Handler[e].rekeys
  /\ Cardinality(Threads) <= HashMax[Family(e)]

\* The exit program of thread t cannot meet the entry of another call.
Exact(t) ==
  LET e == call[t].ev IN
  call[t].covered /\ ~Handler[e].guarded /\ ~Handler[e].rekeys

AbstractCall(t) ==
  [id |-> call[t].id, family |-> Family(call[t].ev),
   owed |-> Owed(t), exact |-> Exact(t)]

AbstractCalls == {AbstractCall(t) : t \in {u \in Threads : call[u].stage = "in"}}

AbstractRecord(r) == [arguments |-> r.enter, result |-> r.exit, done |-> ~r.busy]

AbstractLog ==
  [f \in Families |-> [i \in DOMAIN ring[f] |-> AbstractRecord(ring[f][i])]]

EL == INSTANCE EventLog WITH
        Capacity <- RingMax, begun <- ncalls, calls <- AbstractCalls,
        log <- AbstractLog, taken <- cons

\* The programs of a family, run by whatever threads in whatever order, their
\* map, their ring and the poll loop together are one log: each call makes at
\* most one record, with arguments no other record has and its own where the
\* handler is sure of them; a call that is owed a record loses it only to a full
\* ring; the logger takes complete records in the order of their reservation.
ImplementsEventLog == EL!Spec

-----------------------------------------------------------------------------
(* The inductive invariant behind the safety properties *)

EntersLive(f) ==
  \A e \in Events : Family(e) = f /\ Handler[e].paired => EnterAt[e] <= loaded

\* A call counted as covered still finds its exit program; a thread between
\* reserve and submit owns one busy record of the ring.
CallOK(t) ==
  /\ call[t].stage # "user" /\ call[t].covered => ExitLive(call[t].ev)
  /\ call[t].stage = "fill" =>
       LET s == ring[Family(call[t].ev)] IN
       /\ ExitLive(call[t].ev)
       /\ call[t].pos \in 1..Len(s)
       /\ s[call[t].pos].thread = t
       /\ s[call[t].pos].busy

\* An entry belongs to the call its thread is in, or was left behind: during the
\* attachment, or when the next enter program of the thread is certain to
\* replace it.
EntryOK(f, t) ==
  /\ hash[f][t].id <= ncalls
  /\ hash[f][t].id # 0
       => \/ InOwnCall(f, t)
          \/ ~hash[f][t].covered
          \/ MayLeave(f, t) /\ EntersLive(f)

\* What the exit program of a thread inside a call is going to find.
LookupOK(t) ==
  LET e == call[t].ev f == Family(e) IN
  call[t].stage = "in" /\ Handler[e].paired /\ hash[f][t].id # 0
    => \/ hash[f][t].id = call[t].id /\ (hash[f][t].covered => call[t].covered)
       \/ /\ ~hash[f][t].covered
          /\ Handler[e].guarded \/ Handler[e].rekeys \/ ~call[t].covered
       \/ IsSystemLogger(t, e)

\* The logger's own filtered calls have no entry and never reserve.
FilterOK(t) ==
  LET e == call[t].ev IN
  call[t].stage # "user" /\ IsSystemLogger(t, e)
    => call[t].stage = "in" /\ hash[Family(e)][t].id # call[t].id

\* The consumer position: everything read, or being read, is finished.
ReaderOK(f) ==
  /\ cons[f] <= Len(ring[f])
  /\ \A i \in DOMAIN ring[f] : i <= cons[f] => ~ring[f][i].busy
  /\ f \in polling => cons[f] < Len(ring[f]) /\ ~ring[f][cons[f] + 1].busy

\* The conjunction is preserved by every step and implies the safety properties
\* of the two halves of the system, the programs and the logger.
IInv ==
  /\ TypeOK
  /\ \A t \in Threads : CallOK(t) /\ LookupOK(t) /\ FilterOK(t)
  /\ \A f \in Families, t \in Threads : EntryOK(f, t)
  /\ \A f \in Families : ReaderOK(f)
  /\ RecordsPair

-----------------------------------------------------------------------------
(* The strengthening that ImplementsEventLog needs on top of IInv *)

\* The entry of a call that is owed a record is there until its exit program
\* runs.
EntryHere(t) ==
  LET e == call[t].ev IN
  call[t].stage = "in" /\ Owed(t) /\ Handler[e].paired
    => hash[Family(e)][t].id # 0

\* Inductive together with IInv.
LInv == \A t \in Threads : EntryHere(t)

-----------------------------------------------------------------------------
(* The strengthening that OneRecordPerEntry needs on top of IInv *)

\* Some record of family f carries the arguments of call n.
Used(f, n) == \E i \in DOMAIN ring[f] : ring[f][i].enter = n

\* Calls in progress have numbers of their own; one whose event has no enter
\* program has no record yet.
CallNumber(t) ==
  call[t].stage # "user" =>
    /\ call[t].id \in 1..ncalls
    /\ \A u \in Threads :
         call[u].stage # "user" /\ call[u].id = call[t].id => u = t
    /\ call[t].stage = "in" /\ ~Handler[call[t].ev].paired
         => ~Used(Family(call[t].ev), call[t].id)

\* The entry that a call in progress would find is of its own family.
AtExit(f, t) ==
  call[t].stage = "in" /\ Handler[call[t].ev].paired /\ Family(call[t].ev) = f

\* Entries have numbers of their own.  One that a record was made from is about
\* to be deleted, or was left behind by a leaky handler; no exit program is
\* going to find it.
EntryNumber(f, t) ==
  hash[f][t].id # 0 =>
    /\ \A u \in Threads : hash[f][u].id = hash[f][t].id => u = t
    /\ \A u \in Threads :
         call[u].stage # "user" /\ call[u].id = hash[f][t].id
           => Handler[call[u].ev].paired
    /\ Used(f, hash[f][t].id)
         => /\ ~AtExit(f, t)
            /\ \/ call[t].stage = "fill" /\ Handler[call[t].ev].paired
                  /\ Family(call[t].ev) = f
               \/ EntersLive(f)
                  /\ \E e \in Events : Family(e) = f /\ Handler[e].leaky

RecordNumbers(f) ==
  \A i \in DOMAIN ring[f] : ring[f][i].enter \in 1..ncalls

\* Inductive together with IInv.
UInv ==
  /\ \A t \in Threads : CallNumber(t)
  /\ \A f \in Families, t \in Threads : EntryNumber(f, t)
  /\ \A f \in Families : RecordNumbers(f)
  /\ OneRecordPerEntry
=============================================================================
