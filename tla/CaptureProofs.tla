---------------------------- MODULE CaptureProofs ----------------------------
(***************************************************************************)
(* Proofs about Capture, for any threads, events, handlers, capacities and *)
(* order of attachment that meet the module's assumptions: the invariant   *)
(* IInv and what follows from it, that an entry makes at most one record,  *)
(* and that Capture implements EventLog.  Each action has a lemma that     *)
(* says it preserves IInv, and the theorems follow from these lemmas.      *)
(***************************************************************************)
EXTENDS Capture, SequenceTheorems, FiniteSetTheorems, TLAPS

\* Facts about the constants that every proof needs.
LEMMA Constants ==
  /\ \A e \in Events : Family(e) \in Families
  /\ Idle \in Call
  /\ NoEntry \in Entry
  /\ Logger \in Threads
BY HandlerAssumption, ThreadsAssumption
   DEF Family, Families, Idle, Call, NoEntry, Entry

\* Appending a record to a ring keeps the records it had.
LEMMA AppendRecord ==
  ASSUME NEW s \in Seq(Record), NEW r \in Record
  PROVE  /\ Append(s, r) \in Seq(Record)
         /\ Len(Append(s, r)) = Len(s) + 1
         /\ \A i \in 1..Len(s) : Append(s, r)[i] = s[i]
         /\ Append(s, r)[Len(s) + 1] = r
OBVIOUS

\* Submitting a record clears its busy bit and touches nothing else.
LEMMA SubmitRecord ==
  ASSUME NEW s \in Seq(Record), NEW p \in 1..Len(s)
  PROVE  LET q == [s EXCEPT ![p].busy = FALSE] IN
         /\ q \in Seq(Record)
         /\ Len(q) = Len(s)
         /\ \A i \in 1..Len(s) : i # p => q[i] = s[i]
         /\ q[p] = [s[p] EXCEPT !.busy = FALSE]
<1> DEFINE r == [s[p] EXCEPT !.busy = FALSE]
<1>1. s[p] \in Record
  OBVIOUS
<1>2. r \in Record
  BY <1>1 DEF Record
<1>3. [s EXCEPT ![p].busy = FALSE] = [s EXCEPT ![p] = r]
  OBVIOUS
<1> HIDE DEF r
<1>4. /\ [s EXCEPT ![p] = r] \in Seq(Record)
      /\ Len([s EXCEPT ![p] = r]) = Len(s)
      /\ \A j \in 1..Len(s) : [s EXCEPT ![p] = r][j] = IF j = p THEN r ELSE s[j]
  BY <1>2, ExceptSeq
<1> QED
  BY <1>3, <1>4 DEF r

LEMMA InitInv == Init => IInv
<1> SUFFICES ASSUME Init PROVE IInv
  OBVIOUS
<1>1. TypeOK
  <2>1. loaded \in 0..NPrograms /\ ncalls \in 0..MaxCalls
    BY SizeAssumption DEF Init
  <2>2. ready \in BOOLEAN /\ polling \in SUBSET Families
    BY DEF Init
  <2>3. call \in [Threads -> Call] /\ hash \in [Families -> [Threads -> Entry]]
    BY Constants DEF Init
  <2>4. ring \in [Families -> Seq(Record)] /\ cons \in [Families -> Nat]
    BY DEF Init
  <2> QED
    BY <2>1, <2>2, <2>3, <2>4 DEF TypeOK
<1>2. /\ \A t \in Threads : call[t].stage = "user"
      /\ \A f \in Families, t \in Threads : hash[f][t].id = 0
      /\ \A f \in Families : ring[f] = <<>> /\ cons[f] = 0
      /\ polling = {} /\ ncalls = 0
  BY DEF Init, Idle, NoEntry
<1>3. \A t \in Threads : CallOK(t) /\ LookupOK(t) /\ FilterOK(t)
  BY <1>2 DEF CallOK, LookupOK, FilterOK
<1>4. \A f \in Families, t \in Threads : EntryOK(f, t)
  BY <1>2 DEF EntryOK
<1>5. (\A f \in Families : ReaderOK(f)) /\ RecordsPair
  BY <1>2 DEF ReaderOK, RecordsPair
<1> QED
  BY <1>1, <1>3, <1>4, <1>5 DEF IInv

-----------------------------------------------------------------------------
(* Start of the logger *)

LEMMA AttachInv == IInv /\ Attach => IInv'
<1> SUFFICES ASSUME IInv, Attach PROVE IInv'
  OBVIOUS
<1>1. TypeOK'
  BY SizeAssumption DEF IInv, TypeOK, Attach
<1>2. ASSUME NEW t \in Threads
      PROVE  CallOK(t)' /\ LookupOK(t)' /\ FilterOK(t)'
  <2>1. CallOK(t) /\ LookupOK(t) /\ FilterOK(t) /\ call[t].ev \in Events
    BY DEF IInv, TypeOK, Call
  <2>2. /\ loaded \in Nat /\ loaded' = loaded + 1 /\ ExitAt[call[t].ev] \in Nat
        /\ UNCHANGED <<call, ring>>
    BY <2>1, SizeAssumption DEF IInv, TypeOK, Attach
  <2>3. ExitLive(call[t].ev) => ExitLive(call[t].ev)'
    BY <2>2 DEF ExitLive
  <2>4. CallOK(t)'
    <3>1. UNCHANGED <<call[t], ring[Family(call[t].ev)], Family(call[t].ev)>>
      BY <2>2 DEF Family
    <3> QED
      BY <2>1, <2>3, <3>1 DEF CallOK
  <2> QED
    BY <2>1, <2>4 DEF LookupOK, FilterOK, Attach, Family, IsSystemLogger
<1>3. ASSUME NEW f \in Families, NEW t \in Threads PROVE EntryOK(f, t)'
  <2>1. EntersLive(f) => EntersLive(f)'
    BY SizeAssumption DEF IInv, TypeOK, EntersLive, Attach, Family
  <2> QED
    BY <2>1 DEF IInv, EntryOK, Attach, InOwnCall, MayLeave, Family
<1>4. (\A f \in Families : ReaderOK(f)') /\ RecordsPair'
  BY DEF IInv, ReaderOK, RecordsPair, Attach, WellPaired
<1> QED
  BY <1>1, <1>2, <1>3, <1>4 DEF IInv

LEMMA CreateMapBuffersInv == IInv /\ CreateMapBuffers => IInv'
<1> SUFFICES ASSUME IInv, CreateMapBuffers PROVE IInv'
  OBVIOUS
<1>1. TypeOK'
  BY DEF IInv, TypeOK, CreateMapBuffers
<1>2. ASSUME NEW t \in Threads
      PROVE  CallOK(t)' /\ LookupOK(t)' /\ FilterOK(t)'
  <2>1. CallOK(t) /\ LookupOK(t) /\ FilterOK(t)
    BY DEF IInv
  <2>2. CallOK(t)' /\ LookupOK(t)'
    BY <2>1 DEF CallOK, LookupOK, CreateMapBuffers, ExitLive, Family,
       IsSystemLogger
  <2>3. FilterOK(t)'
    BY DEF FilterOK, CreateMapBuffers, LoggerIdle, IsSystemLogger
  <2> QED
    BY <2>2, <2>3
<1>3. /\ \A f \in Families, t \in Threads : EntryOK(f, t)'
      /\ \A f \in Families : ReaderOK(f)'
      /\ RecordsPair'
  BY DEF IInv, EntryOK, ReaderOK, RecordsPair, CreateMapBuffers, Family,
     InOwnCall, MayLeave, EntersLive, WellPaired
<1> QED
  BY <1>1, <1>2, <1>3 DEF IInv

-----------------------------------------------------------------------------
(* Steps of one thread *)

\* A step leaves thread u alone: its call, its entries and its records.
Frame(u) ==
  /\ call'[u] = call[u]
  /\ \A g \in Families : hash'[g][u] = hash[g][u]
  /\ loaded' = loaded /\ ready' = ready
  /\ ncalls' \in Nat /\ ncalls <= ncalls'
  /\ \A g \in Families :
       /\ Len(ring[g]) <= Len(ring'[g])
       /\ \A i \in 1..Len(ring[g]) :
            ring[g][i].thread = u => ring'[g][i] = ring[g][i]

LEMMA FrameInv ==
  ASSUME IInv, TypeOK', NEW u \in Threads, Frame(u)
  PROVE  /\ CallOK(u)' /\ LookupOK(u)' /\ FilterOK(u)'
         /\ \A g \in Families : EntryOK(g, u)'
<1>1. /\ CallOK(u) /\ LookupOK(u) /\ FilterOK(u)
      /\ call[u].ev \in Events /\ Family(call[u].ev) \in Families
      /\ call[u].pos \in Nat
  BY Constants DEF IInv, TypeOK, Call
<1>2. CallOK(u)'
  <2>1. ASSUME call[u].stage = "fill"
        PROVE  LET s == ring[Family(call[u].ev)] r == ring'[Family(call[u].ev)]
               IN  /\ call[u].pos \in 1..Len(r)
                   /\ r[call[u].pos] = s[call[u].pos]
    <3> DEFINE s == ring[Family(call[u].ev)] r == ring'[Family(call[u].ev)]
    <3>1. call[u].pos \in 1..Len(s) /\ s[call[u].pos].thread = u
      BY <1>1, <2>1 DEF CallOK
    <3>2. s \in Seq(Record) /\ r \in Seq(Record)
      BY <1>1 DEF IInv, TypeOK
    <3> QED
      BY <1>1, <3>1, <3>2 DEF Frame
  <2> QED
    BY <1>1, <2>1 DEF CallOK, Frame, ExitLive, Family
<1>3. LookupOK(u)' /\ FilterOK(u)'
  BY <1>1 DEF LookupOK, FilterOK, Frame, IsSystemLogger, Family
<1>4. ASSUME NEW g \in Families PROVE EntryOK(g, u)'
  <2>1. EntryOK(g, u) /\ hash[g][u].id \in Nat /\ ncalls \in Nat
    BY SizeAssumption DEF IInv, TypeOK, Entry
  <2> QED
    BY <2>1 DEF EntryOK, Frame, InOwnCall, EntersLive, MayLeave, Family
<1> QED
  BY <1>2, <1>3, <1>4
-----------------------------------------------------------------------------
(* The enter programs *)

\* What Begin does: thread t, which was in no call, is in a new one.
Began(t, e) ==
  /\ call'[t].stage = "in" /\ call'[t].ev = e /\ call'[t].id = ncalls + 1
  /\ call'[t].covered = Covered(e)
  /\ \A u \in Threads : u # t => call'[u] = call[u]
  /\ call' \in [Threads -> Call]
  /\ Covered(e) \in BOOLEAN
  /\ call[t].stage = "user"
  /\ ncalls \in Nat /\ ncalls' = ncalls + 1 /\ ncalls' \in 0..MaxCalls
  /\ UNCHANGED <<loaded, ready, ring, cons, polling>>

LEMMA BeginCall ==
  ASSUME IInv, NEW t \in Threads, NEW e \in Events, Begin(t, e)
  PROVE  Began(t, e)
<1>1. Covered(e) \in BOOLEAN
  BY HandlerAssumption DEF Covered, ExitLive, EnterLive
<1>2. ncalls \in Nat /\ ncalls' = ncalls + 1 /\ ncalls' \in 0..MaxCalls
  BY SizeAssumption DEF IInv, TypeOK, Begin
<1>3. [stage |-> "in", ev |-> e, id |-> ncalls + 1, covered |-> Covered(e),
       pos |-> 0] \in Call
  BY <1>1, <1>2 DEF Call
<1>4. call \in [Threads -> Call]
  BY DEF IInv, TypeOK
<1> QED
  BY <1>1, <1>2, <1>3, <1>4 DEF Begin, Began

\* What a call that has just begun needs to find, whichever way its enter
\* program went, for the invariant to hold again.
LEMMA BeginInv ==
  ASSUME IInv, NEW t \in Threads, NEW e \in Events, Began(t, e),
         hash' \in [Families -> [Threads -> Entry]],
         \A g \in Families, u \in Threads : u # t => hash'[g][u] = hash[g][u],
         LookupOK(t)', FilterOK(t)', \A g \in Families : EntryOK(g, t)'
  PROVE  IInv'
<1>1. TypeOK'
  BY DEF IInv, TypeOK, Began
<1>2. ASSUME NEW u \in Threads, u # t
      PROVE  /\ CallOK(u)' /\ LookupOK(u)' /\ FilterOK(u)'
             /\ \A g \in Families : EntryOK(g, u)'
  <2>1. \A g \in Families : Len(ring[g]) \in Nat
    BY DEF IInv, TypeOK
  <2>2. Frame(u)
    BY <1>2, <2>1 DEF Frame, Began
  <2> QED
    BY <1>1, <2>2, FrameInv
<1>3. CallOK(t)'
  BY DEF CallOK, Began, Covered, ExitLive
<1>4. (\A f \in Families : ReaderOK(f)') /\ RecordsPair'
  BY DEF IInv, ReaderOK, RecordsPair, WellPaired, Began
<1> QED
  BY <1>1, <1>2, <1>3, <1>4 DEF IInv

LEMMA SysEnterStoreInv ==
  ASSUME IInv, NEW t \in Threads, NEW e \in Events, SysEnterStore(t, e)
  PROVE  IInv'
<1> DEFINE f == Family(e)
           new == [id |-> ncalls + 1, covered |-> Covered(e)]
<1>1. Began(t, e)
  BY BeginCall DEF SysEnterStore
<1>2. /\ f \in Families /\ hash \in [Families -> [Threads -> Entry]]
      /\ new \in Entry
  BY <1>1, Constants DEF IInv, TypeOK, Entry, Began
<1>3. /\ hash' \in [Families -> [Threads -> Entry]]
      /\ hash'[f][t].id = ncalls + 1 /\ hash'[f][t].covered = Covered(e)
      /\ \A g \in Families, u \in Threads :
           g # f \/ u # t => hash'[g][u] = hash[g][u]
  BY <1>2 DEF SysEnterStore
<1>4. Handler[e].paired /\ ~IsSystemLogger(t, e)
  BY DEF SysEnterStore, EnterLive
<1>5. LookupOK(t)'
  BY <1>1, <1>3 DEF LookupOK, Began, Family
<1>6. FilterOK(t)'
  BY <1>1, <1>4 DEF FilterOK, Began, IsSystemLogger
<1>7. ASSUME NEW g \in Families PROVE EntryOK(g, t)'
  <2>1. CASE g = f
    BY <2>1, <1>1, <1>3, <1>4 DEF EntryOK, InOwnCall, Began, Family
  <2>2. CASE g # f
    <3>1. /\ hash'[g][t] = hash[g][t] /\ EntryOK(g, t) /\ ~InOwnCall(g, t)
          /\ hash[g][t].id \in Nat
      BY <2>2, <1>1, <1>2, <1>3 DEF IInv, InOwnCall, Began, Entry
    <3> QED
      BY <3>1, <1>1 DEF EntryOK, Began, MayLeave, EntersLive, Family
  <2> QED
    BY <2>1, <2>2
<1> QED
  BY <1>1, <1>3, <1>5, <1>6, <1>7, BeginInv

LEMMA SysEnterSkipInv ==
  ASSUME IInv, NEW t \in Threads, NEW e \in Events, SysEnterSkip(t, e)
  PROVE  IInv'
<1> DEFINE f == Family(e)
<1>1. Began(t, e) /\ hash' = hash
  BY BeginCall DEF SysEnterSkip
<1>2. f \in Families /\ hash \in [Families -> [Threads -> Entry]]
  BY Constants DEF IInv, TypeOK
<1>3. ASSUME NEW g \in Families
      PROVE  /\ EntryOK(g, t) /\ ~InOwnCall(g, t)
             /\ hash[g][t].id \in Nat /\ hash[g][t].id <= ncalls
  BY <1>1, <1>2 DEF IInv, InOwnCall, Began, EntryOK, Entry
<1>4. \A g \in Families : EntryOK(g, t)'
  BY <1>1, <1>3 DEF EntryOK, Began, MayLeave, EntersLive, Family
\* An entry left behind by a leaky handler is met by no call that skips the
\* store; one left behind during the attachment only by the calls LookupOK names.
<1>5. hash[f][t].id # 0 /\ Handler[e].paired /\ ~IsSystemLogger(t, e)
        => ~hash[f][t].covered /\ (Handler[e].guarded \/ ~Covered(e))
  <2> SUFFICES ASSUME hash[f][t].id # 0, Handler[e].paired, ~IsSystemLogger(t, e)
               PROVE  ~hash[f][t].covered /\ (Handler[e].guarded \/ ~Covered(e))
    OBVIOUS
  <2>1. HashTakes(f, t)
    BY DEF HashTakes
  <2>2. ~EnterLive(e) \/ Handler[e].guarded
    BY <2>1 DEF SysEnterSkip
  <2>3. ~(MayLeave(f, t) /\ EntersLive(f))
    BY <2>2, LeakyAssumption DEF MayLeave, EntersLive, EnterLive, Family
  <2> QED
    BY <2>2, <2>3, <1>2, <1>3 DEF Covered, EntryOK
<1>6. LookupOK(t)'
  BY <1>1, <1>5 DEF LookupOK, Began, IsSystemLogger
<1>7. FilterOK(t)'
  BY <1>1, <1>2, <1>3 DEF FilterOK, Began
<1> QED
  BY <1>1, <1>2, <1>4, <1>6, <1>7, BeginInv

\* The call moves from thread t to thread u, the leader of its process.
Moved(t, u) ==
  /\ u # t /\ u \in Threads /\ Leader[u] = u /\ u # Logger
  /\ call[t].stage = "in" /\ call[u].stage = "user"
  /\ Handler[call[t].ev].rekeys
  /\ call'[u] = call[t] /\ call'[t].stage = "user"
  /\ \A v \in Threads : v # t /\ v # u => call'[v] = call[v]
  /\ call' \in [Threads -> Call]
  /\ UNCHANGED <<loaded, ready, hash, ring, cons, polling, ncalls>>

LEMMA RekeyMoves ==
  ASSUME IInv, NEW t \in Threads, Rekey(t)
  PROVE  Moved(t, Leader[t])
<1> DEFINE u == Leader[t]
<1>1. u \in Threads /\ u # t /\ Leader[u] = u
  <2>1. Leader[t] \in Threads
    BY ThreadsAssumption
  <2>2. Leader[Leader[t]] = Leader[t]
    BY ThreadsAssumption
  <2> QED
    BY <2>1, <2>2 DEF Rekey
<1>2. u # Logger
  BY <1>1, ThreadsAssumption
<1>3. call \in [Threads -> Call] /\ Idle \in Call /\ Idle.stage = "user"
  BY Constants DEF IInv, TypeOK, Idle
<1>4. call' = [call EXCEPT ![u] = call[t], ![t] = Idle]
  BY DEF Rekey
<1> HIDE DEF u
<1>5. /\ call'[u] = call[t] /\ call'[t] = Idle
      /\ \A v \in Threads : v # t /\ v # u => call'[v] = call[v]
      /\ call' \in [Threads -> Call]
  BY <1>1, <1>3, <1>4
<1> QED
  BY <1>1, <1>2, <1>3, <1>5 DEF Moved, Rekey, u

LEMMA RekeyInv ==
  ASSUME IInv, NEW t \in Threads, Rekey(t)
  PROVE  IInv'
<1> DEFINE u == Leader[t] c == call[t] f == Family(c.ev)
<1>1. Moved(t, u)
  BY RekeyMoves
<1>2. u \in Threads /\ u # t /\ Leader[u] = u
  BY <1>1 DEF Moved
<1>3. /\ c.ev \in Events /\ f \in Families /\ loaded \in Nat /\ ncalls \in Nat
      /\ \A g \in Families, v \in Threads :
           hash[g][v].id \in Nat /\ hash[g][v].covered \in BOOLEAN
  <2>1. loaded \in Nat /\ ncalls \in Nat
    BY SizeAssumption DEF IInv, TypeOK
  <2>2. c.ev \in Events /\ f \in Families
    BY Constants DEF IInv, TypeOK, Call
  <2>3. \A g \in Families, v \in Threads : hash[g][v] \in Entry
    BY DEF IInv, TypeOK
  <2> QED
    BY <2>1, <2>2, <2>3 DEF Entry
<1> HIDE DEF u
<1>4. TypeOK'
  BY <1>1 DEF IInv, TypeOK, Moved
<1>5. ASSUME NEW v \in Threads, v # t, v # u
      PROVE  /\ CallOK(v)' /\ LookupOK(v)' /\ FilterOK(v)'
             /\ \A g \in Families : EntryOK(g, v)'
  <2>1. \A g \in Families : Len(ring[g]) \in Nat
    BY DEF IInv, TypeOK
  <2>2. Frame(v)
    BY <1>1, <1>3, <1>5, <2>1 DEF Frame, Moved
  <2> QED
    BY <1>4, <2>2, FrameInv
\* The entries of the two threads stay where they are: those of t are left
\* behind, and the leader has none but of the time of the attachment.
<1>6. CallOK(t)' /\ LookupOK(t)' /\ FilterOK(t)'
  BY <1>1 DEF CallOK, LookupOK, FilterOK, Moved
<1>7. CallOK(u)'
  <2>1. CallOK(t)
    BY DEF IInv
  <2> QED
    BY <1>1, <2>1 DEF CallOK, Moved, ExitLive
<1>8. ~IsSystemLogger(u, c.ev)'
  BY <1>1 DEF IsSystemLogger, Moved
<1>9. FilterOK(u)'
  BY <1>1, <1>8 DEF FilterOK, Moved, IsSystemLogger
<1>10. hash[f][u].id # 0 => ~hash[f][u].covered
  <2>1. EntryOK(f, u) /\ ~InOwnCall(f, u)
    BY <1>1, <1>2, <1>3 DEF IInv, InOwnCall, Moved
  <2>2. ~MayLeave(f, u)
    BY <1>1, <1>2, <1>3, LeakyAssumption DEF MayLeave, Moved, Family
  <2> QED
    BY <2>1, <2>2 DEF EntryOK
<1>11. LookupOK(u)'
  BY <1>1, <1>10 DEF LookupOK, Moved, Family
<1>12. ASSUME NEW g \in Families PROVE EntryOK(g, u)'
  <2>1. EntryOK(g, u) /\ ~InOwnCall(g, u)
    BY <1>1, <1>2 DEF IInv, InOwnCall, Moved
  <2> QED
    BY <1>1, <2>1 DEF EntryOK, Moved, MayLeave, EntersLive, Family
<1>13. ASSUME NEW g \in Families PROVE EntryOK(g, t)'
  <2>1. EntryOK(g, t)
    BY DEF IInv
  <2>2. CASE InOwnCall(g, t) /\ hash[g][t].covered /\ hash[g][t].id # 0
    <3>1. g = f /\ call[t].id = hash[f][t].id
      BY <2>2 DEF InOwnCall
    <3>2. MayLeave(f, t)
      BY <1>1, <1>2, <1>3 DEF MayLeave, Moved, u
    <3>3. ExitLive(c.ev)
      <4>1. LookupOK(t) /\ CallOK(t) /\ FilterOK(t) /\ c.stage = "in"
        BY <1>1 DEF IInv, Moved
      <4>2. ~IsSystemLogger(t, c.ev) /\ Handler[c.ev].paired
        BY <2>2, <3>1, <4>1 DEF FilterOK, InOwnCall
      <4>3. c.covered
        BY <2>2, <3>1, <4>1, <4>2 DEF LookupOK
      <4> QED
        BY <4>1, <4>3 DEF CallOK
    <3>4. EntersLive(f)
      BY <1>1, <1>3, <3>3, LeakyAssumption, SizeAssumption
         DEF EntersLive, ExitLive, Family, Moved
    <3> QED
      BY <1>1, <2>1, <3>1, <3>2, <3>4
         DEF EntryOK, Moved, MayLeave, EntersLive, Family
  <2>3. CASE ~(InOwnCall(g, t) /\ hash[g][t].covered /\ hash[g][t].id # 0)
    BY <1>1, <2>1, <2>3 DEF EntryOK, Moved, MayLeave, EntersLive, Family
  <2> QED
    BY <2>2, <2>3
<1>14. (\A g \in Families : ReaderOK(g)') /\ RecordsPair'
  BY <1>1 DEF IInv, ReaderOK, RecordsPair, WellPaired, Moved
<1> QED
  BY <1>4, <1>5, <1>6, <1>7, <1>9, <1>11, <1>12, <1>13, <1>14 DEF IInv

-----------------------------------------------------------------------------
(* The exit programs *)

\* After the delete thread t has no entry that belongs to the call it is in.
LEMMA DeletedEntry ==
  ASSUME IInv, NEW t \in Threads
  PROVE  LET h == Deleted(t, call[t].ev) IN
         /\ h \in [Families -> [Threads -> Entry]]
         /\ \A g \in Families, u \in Threads : u # t => h[g][u] = hash[g][u]
         /\ \A g \in Families :
              h[g][t].id = 0 \/ (h[g][t] = hash[g][t] /\ ~InOwnCall(g, t))
<1> DEFINE e == call[t].ev f == Family(e)
<1>1. f \in Families /\ hash \in [Families -> [Threads -> Entry]]
      /\ NoEntry \in Entry
  BY Constants DEF IInv, TypeOK, Call
<1>2. CASE ~Handler[e].paired
  BY <1>1, <1>2 DEF Deleted, InOwnCall
<1>3. CASE Handler[e].paired
  BY <1>1, <1>3 DEF Deleted, InOwnCall, NoEntry
<1> QED
  BY <1>2, <1>3

\* An entry the thread keeps is one that the invariant allows outside a call.
Kept(h, g, t) ==
  /\ h[g][t] = hash[g][t]
  /\ ~hash[g][t].covered \/ (MayLeave(g, t) /\ EntersLive(g))

\* A leaky handler that runs leaves entries that the invariant allows.
LEMMA LeakyKept ==
  ASSUME IInv, NEW t \in Threads, Handler[call[t].ev].leaky,
         ExitLive(call[t].ev), NEW g \in Families
  PROVE  hash[g][t].id = 0 \/ Kept(hash, g, t)
<1> DEFINE e == call[t].ev
<1>1. e \in Events /\ loaded \in Nat /\ EntryOK(g, t)
  BY SizeAssumption DEF IInv, TypeOK, Call
<1>2. MayLeave(Family(e), t)
  BY <1>1 DEF MayLeave
<1>3. EntersLive(Family(e))
  BY <1>1, LeakyAssumption, SizeAssumption DEF EntersLive, ExitLive, Family
<1> QED
  BY <1>1, <1>2, <1>3 DEF EntryOK, InOwnCall, Kept

\* Why the end of a call preserves the invariant: the thread is in no call and
\* what is left of its entries is allowed there.
LEMMA ReturnInv ==
  ASSUME IInv, NEW t \in Threads, Return(t),
         hash' \in [Families -> [Threads -> Entry]],
         \A g \in Families, u \in Threads : u # t => hash'[g][u] = hash[g][u],
         \A g \in Families :
           \/ hash'[g][t].id = 0
           \/ hash'[g][t] = hash[g][t] /\ ~InOwnCall(g, t)
           \/ Kept(hash', g, t),
         UNCHANGED <<loaded, ready, ring, cons, polling, ncalls>>
  PROVE  IInv'
<1>1. /\ call' \in [Threads -> Call] /\ call'[t].stage = "user"
      /\ \A u \in Threads : u # t => call'[u] = call[u]
      /\ ncalls \in Nat
  BY Constants, SizeAssumption DEF IInv, TypeOK, Return, Idle
<1>2. TypeOK'
  BY <1>1 DEF IInv, TypeOK
<1>3. ASSUME NEW u \in Threads, u # t
      PROVE  /\ CallOK(u)' /\ LookupOK(u)' /\ FilterOK(u)'
             /\ \A g \in Families : EntryOK(g, u)'
  <2>1. \A g \in Families : Len(ring[g]) \in Nat
    BY DEF IInv, TypeOK
  <2>2. Frame(u)
    BY <1>1, <1>3, <2>1 DEF Frame
  <2> QED
    BY <1>2, <2>2, FrameInv
<1>4. CallOK(t)' /\ LookupOK(t)' /\ FilterOK(t)'
  BY <1>1 DEF CallOK, LookupOK, FilterOK
<1>5. ASSUME NEW g \in Families PROVE EntryOK(g, t)'
  <2>1. EntryOK(g, t) /\ hash[g][t].id \in Nat
    BY DEF IInv, TypeOK, Entry
  <2> QED
    BY <2>1, <1>1 DEF EntryOK, Kept, MayLeave, EntersLive, Family
<1>6. (\A f \in Families : ReaderOK(f)') /\ RecordsPair'
  BY DEF IInv, ReaderOK, RecordsPair, WellPaired
<1> QED
  BY <1>2, <1>3, <1>4, <1>5, <1>6 DEF IInv

LEMMA SysExitMissInv ==
  ASSUME IInv, NEW t \in Threads, SysExitMiss(t)
  PROVE  IInv'
<1> DEFINE e == call[t].ev
<1>1. /\ CallOK(t) /\ LookupOK(t) /\ FilterOK(t)
      /\ hash \in [Families -> [Threads -> Entry]]
  BY DEF IInv, TypeOK
<1>2. ASSUME NEW g \in Families, InOwnCall(g, t), hash[g][t].id # 0
      PROVE  ~hash[g][t].covered
  <2>1. g = Family(e) /\ Handler[e].paired /\ call[t].stage = "in"
        /\ hash[g][t].id = call[t].id
    BY <1>2 DEF InOwnCall, SysExitMiss
  <2>2. ~ExitLive(e) \/ IsSystemLogger(t, e)
    BY <1>2, <2>1 DEF SysExitMiss, ExitFinds
  <2>3. ~IsSystemLogger(t, e)
    BY <1>1, <2>1 DEF FilterOK
  <2>4. ~call[t].covered
    BY <1>1, <2>1, <2>2, <2>3 DEF CallOK
  <2> QED
    BY <1>1, <1>2, <2>1, <2>3, <2>4 DEF LookupOK
<1> QED
  BY <1>1, <1>2, ReturnInv DEF SysExitMiss, Kept

LEMMA SysExitSilentInv ==
  ASSUME IInv, NEW t \in Threads, SysExitSilent(t)
  PROVE  IInv'
BY DeletedEntry, ReturnInv DEF SysExitSilent

LEMMA SysExitDropInv ==
  ASSUME IInv, NEW t \in Threads, SysExitDrop(t)
  PROVE  IInv'
<1>1. CASE Handler[call[t].ev].leaky
  <2>1. hash' = hash /\ ExitLive(call[t].ev)
    BY <1>1 DEF SysExitDrop, ExitFinds
  <2>2. hash \in [Families -> [Threads -> Entry]]
    BY DEF IInv, TypeOK
  <2>3. \A g \in Families : hash'[g][t].id = 0 \/ Kept(hash', g, t)
    BY <1>1, <2>1, LeakyKept
  <2> QED
    BY <2>1, <2>2, <2>3, ReturnInv DEF SysExitDrop
<1>2. CASE ~Handler[call[t].ev].leaky
  BY <1>2, DeletedEntry, ReturnInv DEF SysExitDrop
<1> QED
  BY <1>1, <1>2
\* The record that an exit program reserves is well formed and well paired: it is
\* made from the entry that LookupOK says the program finds.
LEMMA NewRecordOK ==
  ASSUME IInv, NEW t \in Threads, ExitFinds(t)
  PROVE  /\ NewRecord(t) \in Record
         /\ NewRecord(t).thread = t
         /\ NewRecord(t).busy
         /\ WellPaired(NewRecord(t))
<1> DEFINE e == call[t].ev f == Family(e) r == NewRecord(t)
<1>1. /\ e \in Events /\ f \in Families /\ call[t].id \in Nat
      /\ call[t].covered \in BOOLEAN
      /\ hash[f][t].id \in Nat /\ hash[f][t].covered \in BOOLEAN
  <2>1. TypeOK
    BY DEF IInv
  <2>2. call[t] \in Call
    BY <2>1 DEF TypeOK
  <2>3. e \in Events /\ call[t].id \in Nat /\ call[t].covered \in BOOLEAN
    BY <2>2 DEF Call
  <2>4. f \in Families
    BY <2>3, Constants
  <2>5. hash[f][t] \in Entry
    BY <2>1, <2>4 DEF TypeOK
  <2> QED
    BY <2>3, <2>4, <2>5 DEF Entry
<1>2. /\ r.thread = t /\ r.ev = e /\ r.exit = call[t].id /\ r.busy
      /\ r.covered = call[t].covered
      /\ r.enter = IF Handler[e].paired THEN hash[f][t].id ELSE call[t].id
      /\ r.entered = IF Handler[e].paired THEN hash[f][t].covered
                                         ELSE call[t].covered
  BY DEF NewRecord
<1>3. r \in Record
  BY <1>1 DEF NewRecord, Record
<1>4. WellPaired(r)
  <2>1. CASE ~Handler[e].paired
    BY <2>1, <1>2 DEF WellPaired
  <2>2. CASE Handler[e].paired
    <3>1. LookupOK(t) /\ call[t].stage = "in" /\ hash[f][t].id # 0
          /\ ~IsSystemLogger(t, e)
      BY <2>2 DEF IInv, ExitFinds
    <3>2. \/ hash[f][t].id = call[t].id
          \/ /\ ~hash[f][t].covered
             /\ Handler[e].guarded \/ Handler[e].rekeys \/ ~call[t].covered
      BY <2>2, <3>1 DEF LookupOK
    <3> QED
      BY <2>2, <3>2, <1>2 DEF WellPaired
  <2> QED
    BY <2>1, <2>2
<1> QED
  BY <1>2, <1>3, <1>4

LEMMA SysExitReserveInv ==
  ASSUME IInv, NEW t \in Threads, SysExitReserve(t)
  PROVE  IInv'
<1> DEFINE e == call[t].ev f == Family(e) n == Len(ring[f]) r == NewRecord(t)
<1>1. /\ e \in Events /\ f \in Families /\ ring \in [Families -> Seq(Record)]
      /\ call \in [Threads -> Call] /\ n \in Nat
      /\ hash \in [Families -> [Threads -> Entry]]
  BY Constants, SMTT(60) DEF IInv, TypeOK, Call
<1>2. /\ r \in Record /\ r.thread = t /\ r.busy /\ WellPaired(r)
      /\ call[t].stage = "in" /\ ExitLive(e) /\ ~IsSystemLogger(t, e)
  BY NewRecordOK DEF SysExitReserve, ExitFinds
<1> HIDE DEF r
<1>3. ring'[f] = Append(ring[f], r) /\ \A g \in Families : g # f => ring'[g] = ring[g]
  BY <1>1 DEF SysExitReserve, r
<1>4. /\ ring'[f] \in Seq(Record) /\ Len(ring'[f]) = n + 1
      /\ \A i \in 1..n : ring'[f][i] = ring[f][i]
      /\ ring'[f][n + 1] = r
  BY <1>1, <1>2, <1>3, AppendRecord
<1>5. /\ call' \in [Threads -> Call]
      /\ call'[t].stage = "fill" /\ call'[t].pos = n + 1 /\ call'[t].ev = e
      /\ call'[t].id = call[t].id /\ call'[t].covered = call[t].covered
      /\ \A u \in Threads : u # t => call'[u] = call[u]
  <2> DEFINE c == [call[t] EXCEPT !.stage = "fill", !.pos = n + 1]
  <2>1. call[t] \in Call /\ n + 1 \in Nat
    BY <1>1
  <2>2. c \in Call
    BY <2>1 DEF Call
  <2>3. /\ c.stage = "fill" /\ c.pos = n + 1 /\ c.ev = e
        /\ c.id = call[t].id /\ c.covered = call[t].covered
    BY <2>1, Zenon DEF Call
  <2>4. call' = [call EXCEPT ![t] = c]
    BY <1>1 DEF SysExitReserve
  <2> HIDE DEF c
  <2>5. call'[t] = c /\ \A u \in Threads : u # t => call'[u] = call[u]
    BY <2>4, <1>1
  <2> QED
    BY <2>2, <2>3, <2>4, <2>5, <1>1
<1>6. /\ hash' \in [Families -> [Threads -> Entry]]
      /\ \A g \in Families, u \in Threads : u # t => hash'[g][u] = hash[g][u]
      /\ \A g \in Families : hash'[g][t].id = 0 \/ hash'[g][t] = hash[g][t]
  BY <1>1, DeletedEntry DEF SysExitReserve
<1>7. UNCHANGED <<loaded, ready, cons, polling, ncalls>>
  BY DEF SysExitReserve
<1>8. TypeOK'
  <2>1. ring' \in [Families -> Seq(Record)]
    BY <1>1, <1>3, <1>4 DEF SysExitReserve
  <2> QED
    BY <2>1, <1>5, <1>6, <1>7 DEF IInv, TypeOK
<1>9. ASSUME NEW u \in Threads, u # t
      PROVE  /\ CallOK(u)' /\ LookupOK(u)' /\ FilterOK(u)'
             /\ \A g \in Families : EntryOK(g, u)'
  <2>1. ASSUME NEW g \in Families
        PROVE  /\ Len(ring[g]) <= Len(ring'[g])
               /\ \A i \in 1..Len(ring[g]) : ring'[g][i] = ring[g][i]
    <3>1. Len(ring[g]) \in Nat
      BY <1>1
    <3> QED
      BY <3>1, <1>3, <1>4, SMTT(60)
  <2>2. ncalls \in Nat
    BY SizeAssumption DEF IInv, TypeOK
  <2>3. Frame(u)
    BY <1>5, <1>6, <1>7, <1>9, <2>1, <2>2 DEF Frame
  <2> QED
    BY <1>8, <2>3, FrameInv
<1>10. CallOK(t)' /\ LookupOK(t)' /\ FilterOK(t)'
  <2>1. CallOK(t)'
    BY <1>1, <1>2, <1>4, <1>5, <1>7 DEF CallOK, ExitLive
  <2>2. LookupOK(t)' /\ FilterOK(t)'
    BY <1>2, <1>5, <1>7 DEF LookupOK, FilterOK, IsSystemLogger
  <2> QED
    BY <2>1, <2>2
<1>11. ASSUME NEW g \in Families PROVE EntryOK(g, t)'
  <2>1. EntryOK(g, t) /\ ncalls \in Nat
    BY SizeAssumption DEF IInv, TypeOK
  <2>2. InOwnCall(g, t) /\ hash'[g][t] = hash[g][t] => InOwnCall(g, t)'
    BY <1>5 DEF InOwnCall
  <2> QED
    BY <2>1, <2>2, <1>6, <1>7 DEF EntryOK, MayLeave, EntersLive, Family
<1>12. ASSUME NEW g \in Families PROVE ReaderOK(g)'
  <2>1. ReaderOK(g) /\ cons[g] \in Nat
    BY DEF IInv, TypeOK
  <2>2. CASE g # f
    BY <2>1, <2>2, <1>3, <1>7 DEF ReaderOK
  <2>3. CASE g = f
    <3>1. /\ cons[f] <= n
          /\ \A i \in 1..n : i <= cons[f] => ~ring[f][i].busy
          /\ f \in polling => cons[f] < n /\ ~ring[f][cons[f] + 1].busy
      BY <2>1, <2>3, <1>1 DEF ReaderOK
    <3>2. DOMAIN ring'[f] = 1..(n + 1) /\ cons' = cons /\ polling' = polling
      BY <1>4, <1>7
    <3>3. cons[f] <= Len(ring'[f])
      BY <2>1, <2>3, <3>1, <1>1, <1>4
    <3>4. ASSUME NEW i \in DOMAIN ring'[f], i <= cons[f]
          PROVE  ~ring'[f][i].busy
      <4>1. i \in 1..n
        BY <2>1, <2>3, <3>1, <3>2, <3>4, <1>1
      <4> QED
        BY <4>1, <3>1, <3>4, <1>4
    <3>5. ASSUME f \in polling
          PROVE  cons[f] < Len(ring'[f]) /\ ~ring'[f][cons[f] + 1].busy
      <4>1. cons[f] + 1 \in 1..n /\ ~ring[f][cons[f] + 1].busy
        BY <2>1, <2>3, <3>1, <3>5, <1>1
      <4> QED
        BY <4>1, <2>1, <2>3, <1>1, <1>4
    <3> QED
      BY <2>3, <3>2, <3>3, <3>4, <3>5 DEF ReaderOK
  <2> QED
    BY <2>2, <2>3
<1>13. RecordsPair'
  <2>1. ASSUME NEW g \in Families, NEW i \in DOMAIN ring'[g]
        PROVE  WellPaired(ring'[g][i])
    <3>1. CASE g # f \/ i # n + 1
      <4>1. i \in DOMAIN ring[g] /\ ring'[g][i] = ring[g][i]
        <5>1. CASE g # f
          BY <5>1, <1>3
        <5>2. CASE g = f
          <6>1. i \in 1..(n + 1) /\ i # n + 1
            BY <5>2, <3>1, <1>4
          <6>2. i \in 1..n
            BY <6>1, <1>1
          <6> QED
            BY <5>2, <6>2, <1>1, <1>4
        <5> QED
          BY <5>1, <5>2
      <4> QED
        BY <4>1 DEF IInv, RecordsPair
    <3>2. CASE g = f /\ i = n + 1
      BY <3>2, <1>2, <1>4
    <3> QED
      BY <3>1, <3>2
  <2> QED
    BY <2>1 DEF RecordsPair, WellPaired
<1> QED
  BY <1>8, <1>9, <1>10, <1>11, <1>12, <1>13 DEF IInv

LEMMA SysExitSubmitInv ==
  ASSUME IInv, NEW t \in Threads, SysExitSubmit(t)
  PROVE  IInv'
<1> DEFINE e == call[t].ev f == Family(e) p == call[t].pos s == ring[f]
<1>1. /\ e \in Events /\ f \in Families /\ ring \in [Families -> Seq(Record)]
      /\ s \in Seq(Record) /\ call \in [Threads -> Call]
      /\ hash \in [Families -> [Threads -> Entry]]
  BY Constants DEF IInv, TypeOK, Call
<1>2. /\ ExitLive(e) /\ p \in 1..Len(s) /\ s[p].thread = t /\ s[p].busy
  BY DEF IInv, CallOK, SysExitSubmit
<1> DEFINE q == [s EXCEPT ![p].busy = FALSE]
<1>3. /\ q \in Seq(Record) /\ Len(q) = Len(s)
      /\ \A i \in 1..Len(s) : i # p => q[i] = s[i]
      /\ q[p] = [s[p] EXCEPT !.busy = FALSE]
  BY <1>1, <1>2, SubmitRecord
<1>4. ring' = [ring EXCEPT ![f] = q]
  BY <1>1, <1>2 DEF SysExitSubmit
<1> HIDE DEF q
<1>5. /\ ring' \in [Families -> Seq(Record)] /\ ring'[f] = q
      /\ \A g \in Families : g # f => ring'[g] = ring[g]
  BY <1>1, <1>3, <1>4
<1>6. s[p] \in Record
  BY <1>1, <1>2
<1>7. /\ ~q[p].busy
      /\ WellPaired(s[p]) => WellPaired(q[p])
  BY <1>3, <1>6 DEF WellPaired, Record
<1>8. UNCHANGED <<loaded, ready, cons, polling, ncalls>>
  BY DEF SysExitSubmit
\* The thread is in no call afterwards, and what it keeps of its entries is
\* allowed there.
<1>9. /\ call' \in [Threads -> Call] /\ call'[t].stage = "user"
      /\ \A u \in Threads : u # t => call'[u] = call[u]
  BY <1>1, Constants DEF SysExitSubmit, Return, Idle
<1>10. /\ hash' \in [Families -> [Threads -> Entry]]
       /\ \A g \in Families, u \in Threads : u # t => hash'[g][u] = hash[g][u]
       /\ \A g \in Families :
            \/ hash'[g][t].id = 0
            \/ hash'[g][t] = hash[g][t] /\ ~InOwnCall(g, t)
            \/ Kept(hash', g, t)
  <2>1. CASE hash' = Deleted(t, e)
    BY <2>1, DeletedEntry
  <2>2. CASE Handler[e].leaky /\ UNCHANGED hash
    <3>1. \A g \in Families : hash[g][t].id = 0 \/ Kept(hash, g, t)
      BY <2>2, <1>2, LeakyKept
    <3> QED
      BY <2>2, <3>1, <1>1
  <2> QED
    BY <2>1, <2>2 DEF SysExitSubmit
<1>11. TypeOK'
  BY <1>5, <1>8, <1>9, <1>10 DEF IInv, TypeOK
<1>12. ASSUME NEW u \in Threads, u # t
       PROVE  /\ CallOK(u)' /\ LookupOK(u)' /\ FilterOK(u)'
              /\ \A g \in Families : EntryOK(g, u)'
  <2>1. ASSUME NEW g \in Families
        PROVE  /\ Len(ring[g]) <= Len(ring'[g])
               /\ \A i \in 1..Len(ring[g]) :
                    ring[g][i].thread = u => ring'[g][i] = ring[g][i]
    <3>1. Len(ring[g]) \in Nat
      BY <1>1
    <3>2. CASE g # f
      BY <3>1, <3>2, <1>5
    <3>3. CASE g = f
      <4>1. ring'[g] = q /\ ring[g] = s
        BY <3>3, <1>5
      <4>2. \A i \in 1..Len(s) : s[i].thread = u => i # p
        BY <1>2, <1>12
      <4>3. /\ Len(q) = Len(s)
            /\ \A i \in 1..Len(s) : s[i].thread = u => q[i] = s[i]
        BY <4>2, <1>3
      <4> QED
        BY <3>1, <4>1, <4>3
    <3> QED
      BY <3>2, <3>3
  <2>2. ncalls \in Nat
    BY SizeAssumption DEF IInv, TypeOK
  <2>3. Frame(u)
    BY <1>8, <1>9, <1>10, <1>12, <2>1, <2>2 DEF Frame
  <2> QED
    BY <1>11, <2>3, FrameInv
<1>13. CallOK(t)' /\ LookupOK(t)' /\ FilterOK(t)'
  BY <1>9 DEF CallOK, LookupOK, FilterOK
<1>14. ASSUME NEW g \in Families PROVE EntryOK(g, t)'
  <2>1. EntryOK(g, t) /\ hash[g][t].id \in Nat /\ ncalls \in Nat
    BY SizeAssumption DEF IInv, TypeOK, Entry
  <2> QED
    BY <2>1, <1>8, <1>9, <1>10 DEF EntryOK, Kept, MayLeave, EntersLive, Family
\* The record was busy, so the logger has not reached it.
<1>15. ASSUME NEW g \in Families PROVE ReaderOK(g)'
  <2>1. ReaderOK(g) /\ cons[g] \in Nat
    BY DEF IInv, TypeOK
  <2>2. CASE g # f
    BY <2>1, <2>2, <1>5, <1>8 DEF ReaderOK
  <2>3. CASE g = f
    <3>1. /\ cons[f] <= Len(s)
          /\ \A i \in DOMAIN s : i <= cons[f] => ~s[i].busy
          /\ f \in polling => cons[f] < Len(s) /\ ~s[cons[f] + 1].busy
      BY <2>1, <2>3 DEF ReaderOK
    <3>2. \A i \in 1..Len(s) : ~s[i].busy => ~q[i].busy
      BY <1>3, <1>7
    <3>3. DOMAIN q = DOMAIN s /\ DOMAIN s = 1..Len(s) /\ Len(s) \in Nat
      BY <1>1, <1>3
    <3>4. f \in polling => cons[f] + 1 \in 1..Len(s)
      BY <2>1, <2>3, <3>1, <3>3
    <3> QED
      BY <2>3, <3>1, <3>2, <3>3, <3>4, <1>3, <1>5, <1>8 DEF ReaderOK
  <2> QED
    BY <2>2, <2>3
<1>16. RecordsPair'
  <2>1. ASSUME NEW g \in Families, NEW i \in DOMAIN ring'[g]
        PROVE  WellPaired(ring'[g][i])
    <3>1. RecordsPair
      BY DEF IInv
    <3>2. CASE g # f
      BY <2>1, <3>1, <3>2, <1>5 DEF RecordsPair
    <3>3. CASE g = f
      <4>1. i \in 1..Len(s) /\ i \in DOMAIN s /\ WellPaired(s[i])
        BY <2>1, <3>1, <3>3, <1>1, <1>3, <1>5 DEF RecordsPair
      <4> QED
        BY <4>1, <3>3, <1>3, <1>5, <1>7
    <3> QED
      BY <3>2, <3>3
  <2> QED
    BY <2>1 DEF RecordsPair, WellPaired
<1> QED
  BY <1>11, <1>12, <1>13, <1>14, <1>15, <1>16 DEF IInv

-----------------------------------------------------------------------------
(* The logger's main loop *)

\* The steps of the loop concern the rings and the consumer positions only.
LEMMA PollInv ==
  ASSUME IInv, UNCHANGED <<loaded, ready, call, hash, ring, ncalls>>,
         TypeOK', \A g \in Families : ReaderOK(g)'
  PROVE  IInv'
<1>1. ASSUME NEW t \in Threads
      PROVE  CallOK(t)' /\ LookupOK(t)' /\ FilterOK(t)'
  <2>1. CallOK(t) /\ LookupOK(t) /\ FilterOK(t)
    BY DEF IInv
  <2> QED
    BY <2>1 DEF CallOK, LookupOK, FilterOK, ExitLive, IsSystemLogger, Family
<1>2. ASSUME NEW g \in Families, NEW t \in Threads PROVE EntryOK(g, t)'
  <2>1. EntryOK(g, t)
    BY DEF IInv
  <2> QED
    BY <2>1 DEF EntryOK, InOwnCall, MayLeave, EntersLive, Family
<1>3. RecordsPair'
  BY DEF IInv, RecordsPair, WellPaired
<1> QED
  BY <1>1, <1>2, <1>3 DEF IInv

LEMMA PollBeginInv ==
  ASSUME IInv, NEW f \in Families, PollBegin(f)
  PROVE  IInv'
<1>1. TypeOK'
  BY DEF IInv, TypeOK, PollBegin
<1>2. \A g \in Families : ReaderOK(g)'
  BY DEF IInv, ReaderOK, PollBegin
<1> QED
  BY <1>1, <1>2, PollInv DEF PollBegin

LEMMA PollEndInv ==
  ASSUME IInv, NEW f \in Families, PollEnd(f)
  PROVE  IInv'
<1>1. TypeOK'
  BY DEF IInv, TypeOK, PollEnd
<1>2. ASSUME NEW g \in Families PROVE ReaderOK(g)'
  <2>1. /\ ReaderOK(g) /\ cons[g] \in Nat /\ Len(ring[g]) \in Nat
        /\ cons' = [cons EXCEPT ![f] = cons[f] + 1]
        /\ polling' = {} /\ ring' = ring /\ f \in polling
        /\ cons \in [Families -> Nat] /\ DOMAIN ring[g] = 1..Len(ring[g])
    BY DEF IInv, TypeOK, PollEnd
  <2>2. CASE g # f
    BY <2>1, <2>2 DEF ReaderOK
  <2>3. CASE g = f
    <3>1. /\ cons'[g] = cons[g] + 1 /\ cons[g] < Len(ring[g])
          /\ ~ring[g][cons[g] + 1].busy
      BY <2>1, <2>3 DEF ReaderOK
    <3>2. ASSUME NEW i \in DOMAIN ring[g], i <= cons[g] + 1
          PROVE  ~ring[g][i].busy
      <4>1. i <= cons[g] \/ i = cons[g] + 1
        BY <2>1, <3>2
      <4> QED
        BY <4>1, <2>1, <3>1 DEF ReaderOK
    <3> QED
      BY <2>1, <3>1, <3>2 DEF ReaderOK
  <2> QED
    BY <2>2, <2>3
<1> QED
  BY <1>1, <1>2, PollInv DEF PollEnd

-----------------------------------------------------------------------------
(* The theorems *)

LEMMA SysExitInv ==
  ASSUME IInv, NEW t \in Threads, SysExit(t)
  PROVE  IInv'
BY SysExitMissInv, SysExitSilentInv, SysExitDropInv, SysExitReserveInv,
   SysExitSubmitInv DEF SysExit

LEMMA StutterInv == IInv /\ UNCHANGED vars => IInv'
<1> SUFFICES ASSUME IInv, UNCHANGED vars PROVE IInv'
  OBVIOUS
<1>1. TypeOK' /\ \A g \in Families : ReaderOK(g)'
  BY DEF IInv, TypeOK, ReaderOK, vars
<1> QED
  BY <1>1, PollInv DEF vars

\* IInv is inductive: every step of the system preserves it.
LEMMA NextInv == IInv /\ [Next]_vars => IInv'
<1> SUFFICES ASSUME IInv, [Next]_vars PROVE IInv'
  OBVIOUS
<1>1. CASE Attach
  BY <1>1, AttachInv
<1>2. CASE CreateMapBuffers
  BY <1>2, CreateMapBuffersInv
<1>3. ASSUME NEW t \in Threads, NEW e \in Events,
             SysEnterStore(t, e) \/ SysEnterSkip(t, e)
      PROVE  IInv'
  BY <1>3, SysEnterStoreInv, SysEnterSkipInv
<1>4. ASSUME NEW t \in Threads, Rekey(t) \/ SysExit(t) PROVE IInv'
  BY <1>4, RekeyInv, SysExitInv
<1>5. CASE Poll
  BY <1>5, PollBeginInv, PollEndInv DEF Poll
<1>6. CASE PollTimeout \/ UNCHANGED vars
  BY <1>6, StutterInv DEF PollTimeout
<1> QED
  BY <1>1, <1>2, <1>3, <1>4, <1>5, <1>6 DEF Next

\* The invariant holds in every reachable state, for all values of the constants
\* that meet the assumptions of Capture.
THEOREM Invariant == Spec => []IInv
<1>1. Init => IInv
  BY InitInv
<1>2. IInv /\ [Next]_vars => IInv'
  BY NextInv
<1> QED
  BY <1>1, <1>2, PTL DEF Spec

\* Every variable keeps its type: no position leaves its ring.
THEOREM TypeCorrect == Spec => []TypeOK
<1>1. IInv => TypeOK
  BY DEF IInv
<1> QED
  BY <1>1, Invariant, PTL

\* A record never carries the arguments of one call and the result of another,
\* but for the calls met during the attachment that WellPaired names: however
\* many threads share the map, and whichever entries the full map refused or an
\* exit program left behind.
THEOREM Pairing == Spec => []RecordsPair
<1>1. IInv => RecordsPair
  BY DEF IInv
<1> QED
  BY <1>1, Invariant, PTL

\* Outside the families with a leaky handler an entry never outlives its call,
\* so the map cannot silently fill with entries of calls long over.
THEOREM NoLeak == Spec => []NoLeakedEntry
<1>1. IInv => NoLeakedEntry
  BY DEF IInv, EntryOK, NoLeakedEntry
<1> QED
  BY <1>1, Invariant, PTL

\* Only the steps of the exit programs touch a ring: a reserve appends, a submit
\* writes to the thread's own record, which is still busy.
LEMMA ReadStep == IInv /\ [Next]_vars => ReadUnchanged
<1> SUFFICES ASSUME IInv, [Next]_vars,
                    NEW f \in Families, NEW i \in DOMAIN ring[f],
                    i <= cons[f] + (IF f \in polling THEN 1 ELSE 0)
             PROVE  ring'[f][i] = ring[f][i] /\ ~ring[f][i].busy
  BY DEF ReadUnchanged
<1>1. /\ ring \in [Families -> Seq(Record)] /\ ring[f] \in Seq(Record)
      /\ cons[f] \in Nat /\ i \in 1..Len(ring[f]) /\ Len(ring[f]) \in Nat
  BY DEF IInv, TypeOK
<1>2. ~ring[f][i].busy
  <2>1. ReaderOK(f)
    BY DEF IInv
  <2>2. i <= cons[f] \/ (f \in polling /\ i = cons[f] + 1)
    BY <1>1
  <2> QED
    BY <2>1, <2>2 DEF ReaderOK
<1>3. ASSUME NEW t \in Threads, SysExitReserve(t)
      PROVE  ring'[f][i] = ring[f][i]
  <2> DEFINE g == Family(call[t].ev) r == NewRecord(t)
  <2>1. r \in Record /\ g \in Families
    BY <1>3, NewRecordOK, Constants DEF SysExitReserve, IInv, TypeOK, Call
  <2> HIDE DEF r
  <2>2. ring' = [ring EXCEPT ![g] = Append(ring[g], r)]
    BY <1>3 DEF SysExitReserve, r
  <2>3. CASE g # f
    BY <2>2, <2>3, <1>1
  <2>4. CASE g = f
    BY <2>1, <2>2, <2>4, <1>1, AppendRecord
  <2> QED
    BY <2>3, <2>4
<1>4. ASSUME NEW t \in Threads, SysExitSubmit(t)
      PROVE  ring'[f][i] = ring[f][i]
  <2> DEFINE g == Family(call[t].ev) p == call[t].pos
             q == [ring[g] EXCEPT ![p].busy = FALSE]
  <2>1. /\ g \in Families /\ p \in 1..Len(ring[g]) /\ ring[g][p].busy
        /\ ring[g] \in Seq(Record)
    BY <1>4, Constants DEF IInv, TypeOK, Call, CallOK, SysExitSubmit
  <2>2. ring' = [ring EXCEPT ![g] = q]
    BY <1>1, <1>4, <2>1 DEF SysExitSubmit
  <2>3. \A j \in 1..Len(ring[g]) : j # p => q[j] = ring[g][j]
    BY <2>1, SubmitRecord
  <2> HIDE DEF q
  <2>4. CASE g # f
    BY <2>2, <2>4, <1>1
  <2>5. CASE g = f
    <3>1. i # p
      BY <2>1, <2>5, <1>2
    <3> QED
      BY <3>1, <2>1, <2>2, <2>3, <2>5, <1>1
  <2> QED
    BY <2>4, <2>5
<1>5. ring' = ring \/ (\E t \in Threads : SysExitReserve(t) \/ SysExitSubmit(t))
  BY DEF Next, Attach, CreateMapBuffers, SysEnterStore, SysEnterSkip, Begin,
     Rekey, SysExit, SysExitMiss, SysExitSilent, SysExitDrop, Poll, PollBegin,
     PollEnd, PollTimeout, vars
<1> QED
  BY <1>2, <1>3, <1>4, <1>5

\* Nothing the logger has read, or is reading in a callback, changes under it.
THEOREM ReadStable == Spec => ReadRecordsStable
<1>1. IInv /\ [Next]_vars => [ReadUnchanged]_vars
  BY ReadStep
<1> QED
  BY <1>1, Invariant, PTL DEF Spec, ReadRecordsStable

\* A step of another thread, or of the logger in a call that the filter lets
\* pass, belongs to another entry, or to another family.
LEMMA FilterStep == IInv /\ [Next]_vars => NoTrace
<1> SUFFICES ASSUME IInv, [Next]_vars, ready,
                    NEW e \in Events, Handler[e].filtered
             PROVE  LET f == Family(e) IN
                    /\ hash'[f][Logger] = hash[f][Logger]
                    /\ \A i \in DOMAIN ring'[f] \ DOMAIN ring[f] :
                         ring'[f][i].thread # Logger
  BY DEF NoTrace
<1> DEFINE f == Family(e)
<1>1. /\ f \in Families /\ hash \in [Families -> [Threads -> Entry]]
      /\ ring \in [Families -> Seq(Record)]
      /\ \A t \in Threads : call[t].ev \in Events /\ Family(call[t].ev) \in Families
      /\ Logger \in Threads
  BY Constants DEF IInv, TypeOK, Call
<1>2. ASSUME NEW d \in Events, Family(d) = f PROVE IsSystemLogger(Logger, d)
  BY <1>2, FilterAssumption DEF IsSystemLogger, Family
<1>3. hash'[f][Logger] = hash[f][Logger]
  <2>1. ASSUME NEW t \in Threads, NEW d \in Events, SysEnterStore(t, d)
        PROVE  hash'[f][Logger] = hash[f][Logger]
    <3>1. Family(d) # f \/ t # Logger
      BY <2>1, <1>2 DEF SysEnterStore
    <3> QED
      BY <2>1, <3>1, <1>1, Constants DEF SysEnterStore
  <2>2. ASSUME NEW t \in Threads, SysExit(t)
        PROVE  hash'[f][Logger] = hash[f][Logger]
    <3> DEFINE d == call[t].ev
    <3>1. CASE hash' = hash
      BY <3>1
    <3>2. CASE hash' # hash
      <4>1. call[t].stage # "user" /\ hash' = Deleted(t, d)
        BY <2>2, <3>2 DEF SysExit, SysExitMiss, SysExitSilent, SysExitDrop,
           SysExitReserve, SysExitSubmit, ExitFinds
      <4>2. ~IsSystemLogger(t, d)
        <5>1. CASE ExitFinds(t)
          BY <5>1 DEF ExitFinds
        <5>2. CASE ~ExitFinds(t)
          <6>1. call[t].stage = "fill"
            BY <2>2, <3>2, <5>2 DEF SysExit, SysExitMiss, SysExitSilent,
               SysExitDrop, SysExitReserve, SysExitSubmit
          <6> QED
            BY <6>1 DEF IInv, FilterOK
        <5> QED
          BY <5>1, <5>2
      <4>3. Family(d) # f \/ t # Logger
        BY <4>2, <1>1, <1>2
      <4> QED
        BY <4>1, <4>3, <1>1 DEF Deleted
    <3> QED
      BY <3>1, <3>2
  <2> QED
    BY <2>1, <2>2 DEF Next, Attach, CreateMapBuffers, SysEnterSkip, Rekey,
       Poll, PollBegin, PollEnd, PollTimeout, vars
<1>4. ASSUME NEW i \in DOMAIN ring'[f] \ DOMAIN ring[f]
      PROVE  ring'[f][i].thread # Logger
  <2>1. PICK t \in Threads : SysExitReserve(t) \/ SysExitSubmit(t)
    BY <1>4 DEF Next, Attach, CreateMapBuffers, SysEnterStore, SysEnterSkip,
       Begin, Rekey, SysExit, SysExitMiss, SysExitSilent, SysExitDrop, Poll,
       PollBegin, PollEnd, PollTimeout, vars
  <2> DEFINE g == Family(call[t].ev) r == NewRecord(t) p == call[t].pos
             q == [ring[g] EXCEPT ![p].busy = FALSE]
  <2>2. CASE SysExitSubmit(t)
    <3>1. /\ p \in 1..Len(ring[g]) /\ ring[g] \in Seq(Record)
      BY <2>2, <1>1 DEF IInv, CallOK, SysExitSubmit
    <3>2. ring' = [ring EXCEPT ![g] = q]
      BY <2>2, <1>1, <3>1 DEF SysExitSubmit
    <3>3. q \in Seq(Record) /\ Len(q) = Len(ring[g])
      BY <3>1, SubmitRecord
    <3> HIDE DEF q
    <3>4. DOMAIN ring'[f] = DOMAIN ring[f]
      <4>1. DOMAIN q = DOMAIN ring[g]
        BY <3>1, <3>3
      <4> QED
        BY <4>1, <3>2, <1>1
    <3> QED
      BY <3>4, <1>4
  <2>3. CASE SysExitReserve(t)
    <3>1. r \in Record /\ r.thread = t /\ ~IsSystemLogger(t, call[t].ev)
      BY <2>3, NewRecordOK DEF SysExitReserve, ExitFinds
    <3> HIDE DEF r
    <3>2. ring' = [ring EXCEPT ![g] = Append(ring[g], r)]
      BY <2>3 DEF SysExitReserve, r
    <3>3. g = f
      BY <3>2, <1>1, <1>4
    <3>4. t # Logger
      BY <3>1, <3>3, <1>1, <1>2
    <3>5. /\ ring'[f] \in Seq(Record) /\ Len(ring'[f]) = Len(ring[f]) + 1
          /\ ring'[f][Len(ring[f]) + 1] = r /\ Len(ring[f]) \in Nat
          /\ DOMAIN ring[f] = 1..Len(ring[f])
      BY <3>1, <3>2, <3>3, <1>1, AppendRecord
    <3>6. i = Len(ring[f]) + 1
      BY <3>5, <1>4
    <3> QED
      BY <3>1, <3>4, <3>5, <3>6
  <2> QED
    BY <2>1, <2>2, <2>3
<1> QED
  BY <1>3, <1>4

\* Once its pid is stored, the filtered calls of the logger change neither the
\* entry of its thread nor the ring.
THEOREM Invisible == Spec => LoggerInvisible
<1>1. IInv /\ [Next]_vars => [NoTrace]_vars
  BY FilterStep
<1> QED
  BY <1>1, Invariant, PTL DEF Spec, LoggerInvisible

-----------------------------------------------------------------------------
(* An entry makes at most one record: UInv is inductive together with IInv.  *)
(* Calls and entries have numbers of their own, so the proof is about what   *)
(* each step does to the numbers: Begin makes a new one, the reserve of an   *)
(* exit program puts one into the ring, every other step only forgets.       *)

LEMMA Numbers ==
  ASSUME IInv
  PROVE  /\ ncalls \in Nat
         /\ \A t \in Threads : call[t].ev \in Events /\ call[t].id \in Nat
                               /\ Family(call[t].ev) \in Families
         /\ \A f \in Families, t \in Threads :
              hash[f][t].id \in Nat /\ hash[f][t].id <= ncalls
<1>1. ncalls \in Nat
  BY SizeAssumption DEF IInv, TypeOK
<1>2. \A t \in Threads : call[t] \in Call
  BY DEF IInv, TypeOK
<1>3. \A f \in Families, t \in Threads : hash[f][t] \in Entry /\ EntryOK(f, t)
  BY DEF IInv, TypeOK
<1> QED
  BY <1>1, <1>2, <1>3, Constants DEF Call, Entry, EntryOK

LEMMA InitUnique == Init => UInv
<1> SUFFICES ASSUME Init PROVE UInv
  OBVIOUS
<1>1. /\ \A t \in Threads : call[t].stage = "user"
      /\ \A f \in Families, t \in Threads : hash[f][t].id = 0
      /\ \A f \in Families : ring[f] = <<>>
  BY DEF Init, Idle, NoEntry
<1> QED
  BY <1>1 DEF UInv, CallNumber, EntryNumber, RecordNumbers, OneRecordPerEntry

\* A step that keeps the arguments of all records and makes no number: calls end
\* or stay as they are, entries disappear or stay.  What is left to show for it
\* is that no entry a record was made from is met by an exit program.
Forgets ==
  /\ \A f \in Families :
       /\ DOMAIN ring'[f] = DOMAIN ring[f]
       /\ \A i \in DOMAIN ring[f] : ring'[f][i].enter = ring[f][i].enter
  /\ \A t \in Threads : call'[t].stage = "user" \/ call'[t] = call[t]
  /\ \A f \in Families, t \in Threads :
       hash'[f][t].id = 0 \/ hash'[f][t].id = hash[f][t].id
  /\ ncalls' = ncalls
  /\ \A f \in Families : EntersLive(f) => EntersLive(f)'
  /\ \A f \in Families, t \in Threads :
       hash'[f][t].id # 0 /\ Used(f, hash[f][t].id)
         => \/ call'[t] = call[t]
            \/ EntersLive(f) /\ \E e \in Events : Family(e) = f /\ Handler[e].leaky

LEMMA ForgetsUnique ==
  ASSUME IInv, UInv, Forgets
  PROVE  UInv'
<1>1. ASSUME NEW f \in Families, NEW n PROVE Used(f, n)' <=> Used(f, n)
  BY DEF Forgets, Used
<1>2. ASSUME NEW t \in Threads PROVE CallNumber(t)'
  <2>1. CASE call'[t].stage = "user"
    BY <2>1 DEF CallNumber
  <2>2. CASE call'[t].stage # "user"
    <3>1. call'[t] = call[t] /\ CallNumber(t) /\ call[t].stage # "user"
          /\ Family(call[t].ev) \in Families
      BY <2>2, Numbers DEF Forgets, UInv
    <3>2. ASSUME NEW u \in Threads, call'[u].stage # "user",
                 call'[u].id = call'[t].id
          PROVE  u = t
      BY <3>1, <3>2 DEF CallNumber, Forgets
    <3>3. call'[t].id \in 1..ncalls'
      BY <3>1 DEF CallNumber, Forgets
    <3>4. (call[t].stage = "in" /\ ~Handler[call[t].ev].paired
             => ~Used(Family(call[t].ev), call[t].id))'
      <4>1. PICK g \in Families, n \in Nat : g = Family(call[t].ev) /\ n = call[t].id
        BY <3>1, Numbers
      <4>2. call[t].stage = "in" /\ ~Handler[call[t].ev].paired => ~Used(g, n)
        BY <3>1, <4>1 DEF CallNumber
      <4>3. Used(g, n)' => Used(g, n)
        BY <1>1
      <4>4. Used(Family(call[t].ev), call[t].id)' <=> Used(g, n)'
        BY <3>1, <4>1 DEF Used, Family
      <4> QED
        BY <3>1, <4>2, <4>3, <4>4
    <3> QED
      BY <3>2, <3>3, <3>4 DEF CallNumber, Family
  <2> QED
    BY <2>1, <2>2
<1>3. ASSUME NEW f \in Families, NEW t \in Threads PROVE EntryNumber(f, t)'
  <2>1. CASE hash'[f][t].id = 0
    BY <2>1 DEF EntryNumber
  <2>2. CASE hash'[f][t].id # 0
    <3>1. hash'[f][t].id = hash[f][t].id /\ hash[f][t].id # 0 /\ EntryNumber(f, t)
      BY <2>2 DEF Forgets, UInv
    <3>2. ASSUME NEW u \in Threads, hash'[f][u].id = hash'[f][t].id
          PROVE  u = t
      BY <2>2, <3>1, <3>2 DEF EntryNumber, Forgets
    <3>3. ASSUME NEW u \in Threads, call'[u].stage # "user",
                 call'[u].id = hash'[f][t].id
          PROVE  Handler[call'[u].ev].paired
      BY <3>1, <3>3 DEF EntryNumber, Forgets
    <3>4. ASSUME Used(f, hash[f][t].id)'
          PROVE  /\ ~AtExit(f, t)'
                 /\ \/ call'[t].stage = "fill" /\ Handler[call'[t].ev].paired
                       /\ Family(call'[t].ev) = f
                    \/ EntersLive(f)'
                       /\ \E e \in Events : Family(e) = f /\ Handler[e].leaky
      <4>1. Used(f, hash[f][t].id)
        BY <3>1, <3>4 DEF Used, Forgets
      <4>2. CASE call'[t] = call[t]
        BY <4>1, <4>2, <3>1 DEF EntryNumber, AtExit, Forgets, Family
      <4>3. CASE call'[t] # call[t]
        <5>1. call'[t].stage = "user"
          BY <4>3 DEF Forgets
        <5> QED
          BY <2>2, <4>1, <4>3, <5>1 DEF Forgets, AtExit
      <4> QED
        BY <4>2, <4>3
    <3> QED
      BY <3>2, <3>3, <3>4 DEF EntryNumber, Family
  <2> QED
    BY <2>1, <2>2
<1>4. ASSUME NEW f \in Families PROVE RecordNumbers(f)'
  <2>1. RecordNumbers(f)
    BY DEF UInv
  <2> QED
    BY <2>1 DEF RecordNumbers, Forgets
<1>5. OneRecordPerEntry'
  BY DEF UInv, OneRecordPerEntry, Forgets
<1> QED
  BY <1>2, <1>3, <1>4, <1>5 DEF UInv

-----------------------------------------------------------------------------
(* The steps that only forget *)

\* The steps of the logger outside its own calls.
LEMMA LoggerUnique ==
  ASSUME IInv, UInv, UNCHANGED <<call, hash, ring, ncalls>>, loaded <= loaded',
         loaded' \in Nat
  PROVE  UInv'
<1>1. \A f \in Families : EntersLive(f) => EntersLive(f)'
  BY SizeAssumption DEF EntersLive, IInv, TypeOK, Family
<1>2. Forgets
  BY <1>1 DEF Forgets
<1> QED
  BY <1>2, ForgetsUnique

\* A call that ends between its two programs had an entry of its own at most;
\* any other it leaves is one EntryNumber allows outside a call.
LEMMA EndUnique ==
  ASSUME IInv, UInv, NEW t \in Threads, call[t].stage = "in", Return(t),
         \A g \in Families, u \in Threads :
           hash'[g][u].id = 0 \/ hash'[g][u].id = hash[g][u].id,
         UNCHANGED <<loaded, ring, ncalls>>
  PROVE  UInv'
<1>1. /\ call'[t].stage = "user"
      /\ \A u \in Threads : u # t => call'[u] = call[u]
  BY Constants DEF IInv, TypeOK, Return, Idle
<1>2. ASSUME NEW f \in Families, NEW u \in Threads,
             hash'[f][u].id # 0, Used(f, hash[f][u].id)
      PROVE  \/ call'[u] = call[u]
             \/ EntersLive(f) /\ \E e \in Events : Family(e) = f /\ Handler[e].leaky
  <2>1. EntryNumber(f, u) /\ hash[f][u].id # 0
    BY <1>2 DEF UInv
  <2> QED
    BY <2>1, <1>1, <1>2 DEF EntryNumber
<1>3. \A f \in Families : EntersLive(f) => EntersLive(f)'
  BY DEF EntersLive, Family
<1>4. Forgets
  BY <1>1, <1>2, <1>3 DEF Forgets
<1> QED
  BY <1>4, ForgetsUnique

LEMMA DeletedForgets ==
  ASSUME IInv, NEW t \in Threads
  PROVE  \A g \in Families, u \in Threads :
           LET h == Deleted(t, call[t].ev) IN
           h[g][u].id = 0 \/ h[g][u].id = hash[g][u].id
<1> DEFINE h == Deleted(t, call[t].ev)
<1>1. /\ \A g \in Families, u \in Threads : u # t => h[g][u] = hash[g][u]
      /\ \A g \in Families : h[g][t].id = 0 \/ h[g][t] = hash[g][t]
  BY DeletedEntry
<1> HIDE DEF h
<1>2. ASSUME NEW g \in Families, NEW u \in Threads
      PROVE  h[g][u].id = 0 \/ h[g][u].id = hash[g][u].id
  <2>1. CASE u = t
    BY <1>1, <2>1
  <2>2. CASE u # t
    BY <1>1, <2>2
  <2> QED
    BY <2>1, <2>2
<1> QED
  BY <1>2 DEF h

LEMMA SysExitEndUnique ==
  ASSUME IInv, UInv, NEW t \in Threads,
         SysExitMiss(t) \/ SysExitSilent(t) \/ SysExitDrop(t)
  PROVE  UInv'
<1>1. CASE SysExitMiss(t)
  BY <1>1, EndUnique DEF SysExitMiss
<1>2. CASE SysExitSilent(t)
  BY <1>2, EndUnique, DeletedForgets DEF SysExitSilent, ExitFinds
<1>3. CASE SysExitDrop(t)
  <2>1. hash' = hash \/ hash' = Deleted(t, call[t].ev)
    BY <1>3 DEF SysExitDrop
  <2> QED
    BY <1>3, <2>1, EndUnique, DeletedForgets DEF SysExitDrop, ExitFinds
<1> QED
  BY <1>1, <1>2, <1>3

\* A submit deletes the entry the record was made from; a leaky handler may keep
\* it, and is attached after the enter programs of its family.
LEMMA SysExitSubmitUnique ==
  ASSUME IInv, UInv, NEW t \in Threads, SysExitSubmit(t)
  PROVE  UInv'
<1> DEFINE e == call[t].ev f == Family(e) p == call[t].pos s == ring[f]
           q == [s EXCEPT ![p].busy = FALSE]
<1>1. /\ e \in Events /\ f \in Families /\ ring \in [Families -> Seq(Record)]
      /\ s \in Seq(Record)
  BY Constants DEF IInv, TypeOK, Call
<1>2. ExitLive(e) /\ p \in 1..Len(s) /\ s[p] \in Record
  BY <1>1 DEF IInv, CallOK, SysExitSubmit
<1>3. /\ Len(q) = Len(s) /\ q \in Seq(Record)
      /\ \A i \in 1..Len(s) : q[i].enter = s[i].enter
  <2>1. /\ Len(q) = Len(s) /\ q \in Seq(Record)
        /\ \A i \in 1..Len(s) : i # p => q[i] = s[i]
        /\ q[p] = [s[p] EXCEPT !.busy = FALSE]
    BY <1>1, <1>2, SubmitRecord
  <2> HIDE DEF q
  <2>2. q[p].enter = s[p].enter
    BY <2>1, <1>2 DEF Record
  <2> QED
    BY <2>1, <2>2
<1>4. ring' = [ring EXCEPT ![f] = q]
  BY <1>1, <1>2 DEF SysExitSubmit
<1> HIDE DEF q
<1>5. ASSUME NEW g \in Families
      PROVE  /\ DOMAIN ring'[g] = DOMAIN ring[g]
             /\ \A i \in DOMAIN ring[g] : ring'[g][i].enter = ring[g][i].enter
  BY <1>1, <1>3, <1>4, SMTT(60)
<1>6. /\ call'[t].stage = "user"
      /\ \A u \in Threads : u # t => call'[u] = call[u]
  BY Constants DEF IInv, TypeOK, SysExitSubmit, Return, Idle
<1>7. \A g \in Families, u \in Threads :
        hash'[g][u].id = 0 \/ hash'[g][u].id = hash[g][u].id
  BY DeletedForgets DEF SysExitSubmit
<1>8. ASSUME NEW g \in Families, NEW u \in Threads,
             hash'[g][u].id # 0, Used(g, hash[g][u].id)
      PROVE  \/ call'[u] = call[u]
             \/ EntersLive(g) /\ \E d \in Events : Family(d) = g /\ Handler[d].leaky
  <2>1. CASE u # t
    BY <2>1, <1>6
  <2>2. CASE u = t /\ Handler[e].paired /\ g = f
    <3>1. Handler[e].leaky
      <4>1. CASE hash' = Deleted(t, e)
        <5>1. hash'[f][t] = NoEntry
          BY <4>1, <2>2, <1>1 DEF Deleted, IInv, TypeOK
        <5> QED
          BY <5>1, <1>8, <2>2 DEF NoEntry
      <4> QED
        BY <4>1 DEF SysExitSubmit
    <3>2. EntersLive(f)
      <4>1. ASSUME NEW d \in Events, Family(d) = f, Handler[d].paired
            PROVE  EnterAt[d] < ExitAt[e]
        BY <4>1, <3>1, <1>1, LeakyAssumption DEF Family
      <4>2. ASSUME NEW d \in Events, Family(d) = f, Handler[d].paired
            PROVE  EnterAt[d] <= loaded
        <5>1. /\ EnterAt[d] \in Nat /\ ExitAt[e] \in Nat /\ loaded \in Nat
              /\ ExitAt[e] <= loaded
          BY <1>1, <1>2, SizeAssumption DEF ExitLive, IInv, TypeOK
        <5> QED
          BY <4>1, <4>2, <5>1
      <4> QED
        BY <4>2 DEF EntersLive
    <3> QED
      BY <3>1, <3>2, <2>2, <1>1
  <2>3. CASE u = t /\ ~(Handler[e].paired /\ g = f)
    <3>1. EntryNumber(g, t) /\ hash[g][t].id # 0
      BY <2>3, <1>7, <1>8 DEF UInv
    <3> QED
      BY <3>1, <2>3, <1>8 DEF EntryNumber
  <2> QED
    BY <2>1, <2>2, <2>3
<1>9. ncalls' = ncalls /\ \A g \in Families : EntersLive(g) => EntersLive(g)'
  BY DEF EntersLive, Family, SysExitSubmit
<1>10. Forgets
  BY <1>5, <1>6, <1>7, <1>8, <1>9 DEF Forgets
<1> QED
  BY <1>10, ForgetsUnique

-----------------------------------------------------------------------------
(* The steps that make, move or use a number *)

\* A new call has a number that no call, entry or record has; an entry it finds
\* in spite of its enter program was not used yet.
LEMMA BeginUnique ==
  ASSUME IInv, UInv, NEW t \in Threads, NEW e \in Events,
         SysEnterStore(t, e) \/ SysEnterSkip(t, e)
  PROVE  UInv'
<1> DEFINE f == Family(e) n == ncalls + 1
<1>1. Began(t, e) /\ f \in Families
  BY BeginCall, Constants DEF SysEnterStore, SysEnterSkip
<1>2. /\ ncalls \in Nat
      /\ \A g \in Families, u \in Threads :
           hash[g][u].id \in Nat /\ hash[g][u].id <= ncalls
  BY Numbers
<1>3. \A g \in Families : RecordNumbers(g)' /\ \A m : Used(g, m)' <=> Used(g, m)
  BY <1>1, <1>2 DEF UInv, RecordNumbers, Used, Began
<1>4. \A g \in Families : ~Used(g, n)
  BY <1>2 DEF UInv, RecordNumbers, Used
<1>5. \A u \in Threads : call[u].stage # "user" => call[u].id <= ncalls
  BY <1>2 DEF UInv, CallNumber
<1>6. ASSUME NEW u \in Threads PROVE CallNumber(u)'
  <2>1. CASE u = t
    BY <2>1, <1>1, <1>2, <1>4, <1>5 DEF CallNumber, Began, Family, Used
  <2>2. CASE u # t
    <3>1. CallNumber(u) /\ call'[u] = call[u]
          /\ Family(call[u].ev) \in Families
      BY <2>2, <1>1, Numbers DEF UInv, Began
    <3> QED
      BY <2>2, <3>1, <1>1, <1>2, <1>5 DEF CallNumber, Began, Family, Used
  <2> QED
    BY <2>1, <2>2
\* What happens to the entries.
<1>7. \A g \in Families, u \in Threads :
        \/ hash'[g][u].id = hash[g][u].id
        \/ g = f /\ u = t /\ Handler[e].paired /\ hash'[g][u].id = n
  BY <1>1 DEF SysEnterStore, SysEnterSkip, EnterLive, IInv, TypeOK
<1>8. hash'[f][t].id = n \/ ~(Handler[e].paired /\ Used(f, hash'[f][t].id)
                              /\ hash'[f][t].id # 0)
  <2>1. CASE SysEnterStore(t, e)
    BY <2>1, <1>1 DEF SysEnterStore, IInv, TypeOK
  <2>2. CASE SysEnterSkip(t, e)
    <3> SUFFICES ASSUME Handler[e].paired, Used(f, hash[f][t].id),
                        hash[f][t].id # 0
                 PROVE  FALSE
      BY <2>2 DEF SysEnterSkip
    <3>1. EntryNumber(f, t)
      BY <1>1 DEF UInv
    <3>2. PICK d \in Events : Family(d) = f /\ Handler[d].leaky /\ EntersLive(f)
      BY <3>1, <1>1 DEF EntryNumber, Began
    <3>3. EnterLive(e) /\ ~Handler[e].guarded /\ ~Handler[e].filtered
      BY <3>2, LeakyAssumption DEF EntersLive, EnterLive, Family
    <3>4. HashTakes(f, t)
      BY DEF HashTakes
    <3> QED
      BY <2>2, <3>3, <3>4 DEF SysEnterSkip, IsSystemLogger
  <2> QED
    BY <2>1, <2>2
<1>9. ASSUME NEW g \in Families, NEW u \in Threads PROVE EntryNumber(g, u)'
  <2> SUFFICES ASSUME hash'[g][u].id # 0 PROVE EntryNumber(g, u)'
    BY DEF EntryNumber
  <2> DEFINE m == hash'[g][u].id
  <2>1. \A v \in Threads : hash'[g][v].id = m => v = u
    BY <1>2, <1>7 DEF UInv, EntryNumber
  <2>2. \A v \in Threads : call'[v].stage # "user" /\ call'[v].id = m
                             => Handler[call'[v].ev].paired
    <3> SUFFICES ASSUME NEW v \in Threads, call'[v].stage # "user",
                        call'[v].id = m
                 PROVE  Handler[call'[v].ev].paired
      OBVIOUS
    <3>1. CASE v = t
      <4>1. call'[t].id = n /\ call'[t].ev = e
        BY <1>1 DEF Began
      <4> QED
        BY <3>1, <4>1, <1>2, <1>7
    <3>2. CASE v # t
      <4>1. call'[v] = call[v] /\ call[v].id <= ncalls
        BY <3>2, <1>1, <1>5 DEF Began
      <4>2. m = hash[g][u].id
        BY <4>1, <1>2, <1>7
      <4> QED
        BY <4>1, <4>2 DEF UInv, EntryNumber
    <3> QED
      BY <3>1, <3>2
  <2>3. ASSUME Used(g, m)
        PROVE  /\ ~AtExit(g, u)'
               /\ \/ call'[u].stage = "fill" /\ Handler[call'[u].ev].paired
                     /\ Family(call'[u].ev) = g
                  \/ EntersLive(g)
                     /\ \E d \in Events : Family(d) = g /\ Handler[d].leaky
    <3>1. m = hash[g][u].id /\ m # n
      BY <2>3, <1>4, <1>7
    <3>2. EntryNumber(g, u)
      BY DEF UInv
    <3>3. CASE u # t
      <4>1. call'[u] = call[u]
        BY <3>3, <1>1 DEF Began
      <4> QED
        BY <2>3, <3>1, <3>2, <4>1 DEF EntryNumber, AtExit, Family
    <3>4. CASE u = t
      <4>1. call[t].stage = "user" /\ call'[t].ev = e
        BY <1>1 DEF Began
      <4>2. ~(Handler[e].paired /\ f = g)
        BY <2>3, <3>1, <3>4, <1>8
      <4>3. ~AtExit(g, t)'
        BY <4>1, <4>2 DEF AtExit, Family
      <4> QED
        BY <2>3, <3>1, <3>2, <3>4, <4>1, <4>3 DEF EntryNumber
    <3> QED
      BY <3>3, <3>4
  <2> HIDE DEF m
  <2>4. EntersLive(g) => EntersLive(g)'
    BY <1>1 DEF EntersLive, Family, Began
  <2>5. Used(g, hash[g][u].id)' => Used(g, m)
    BY <1>1 DEF Used, Began, m
  <2> QED
    BY <2>1, <2>2, <2>3, <2>4, <2>5 DEF EntryNumber, Family, m
<1>10. OneRecordPerEntry'
  BY <1>1 DEF UInv, OneRecordPerEntry, Began
<1> QED
  BY <1>3, <1>6, <1>9, <1>10 DEF UInv

\* The number moves with the call; the leader has no entry that was used, since
\* no leaky handler is in the family.
LEMMA RekeyUnique ==
  ASSUME IInv, UInv, NEW t \in Threads, Rekey(t)
  PROVE  UInv'
<1> DEFINE u == Leader[t] c == call[t] f == Family(c.ev)
<1>1. Moved(t, u)
  BY RekeyMoves
<1>2. u \in Threads /\ u # t /\ c.ev \in Events /\ f \in Families
  BY <1>1, Numbers DEF Moved
<1>3. Handler[c.ev].paired /\ \A d \in Events : Family(d) = f => ~Handler[d].leaky
  BY <1>1, <1>2, LeakyAssumption DEF Moved, Family
<1> HIDE DEF u
<1>4. UNCHANGED <<loaded, hash, ring, ncalls>>
  BY <1>1 DEF Moved
<1>5. ASSUME NEW v \in Threads PROVE CallNumber(v)'
  <2> SUFFICES ASSUME call'[v].stage # "user" PROVE CallNumber(v)'
    BY DEF CallNumber
  <2> DEFINE w == IF v = u THEN t ELSE v
  <2>1. w \in Threads /\ call'[v] = call[w] /\ CallNumber(w)
    BY <1>1, <1>2 DEF Moved, UInv
  <2>2. ASSUME NEW x \in Threads, call'[x].stage # "user",
               call'[x].id = call'[v].id
        PROVE  x = v
    <3> DEFINE y == IF x = u THEN t ELSE x
    <3>1. y \in Threads /\ call'[x] = call[y]
      BY <2>2, <1>1, <1>2 DEF Moved
    <3>2. y = w
      BY <2>1, <2>2, <3>1 DEF CallNumber
    <3>3. x # t /\ v # t
      BY <2>2, <1>1 DEF Moved
    <3> QED
      BY <3>2, <3>3
  <2> HIDE DEF w
  <2> QED
    BY <2>1, <2>2, <1>4 DEF CallNumber, Used, Family
<1>6. ASSUME NEW g \in Families, NEW v \in Threads PROVE EntryNumber(g, v)'
  <2> SUFFICES ASSUME hash[g][v].id # 0 PROVE EntryNumber(g, v)'
    BY <1>4 DEF EntryNumber
  <2>1. EntryNumber(g, v)
    BY DEF UInv
  <2>2. ASSUME NEW x \in Threads, call'[x].stage # "user",
               call'[x].id = hash[g][v].id
        PROVE  Handler[call'[x].ev].paired
    <3>1. CASE x = u
      BY <3>1, <1>1, <1>3 DEF Moved
    <3>2. CASE x # u
      BY <2>1, <2>2, <3>2, <1>1 DEF EntryNumber, Moved
    <3> QED
      BY <3>1, <3>2
  <2>3. ASSUME Used(g, hash[g][v].id)
        PROVE  /\ ~AtExit(g, v)'
               /\ \/ call'[v].stage = "fill" /\ Handler[call'[v].ev].paired
                     /\ Family(call'[v].ev) = g
                  \/ EntersLive(g)
                     /\ \E e \in Events : Family(e) = g /\ Handler[e].leaky
    <3>1. ~AtExit(g, v)
      BY <2>1, <2>3 DEF EntryNumber
    <3>2. CASE v # t /\ v # u
      BY <2>1, <2>3, <3>2, <1>1 DEF EntryNumber, AtExit, Moved, Family
    <3>3. CASE v = t
      BY <2>1, <2>3, <3>3, <1>1 DEF EntryNumber, AtExit, Moved, Family
    <3>4. CASE v = u
      <4>1. g # f
        BY <2>1, <2>3, <3>4, <1>1, <1>3 DEF EntryNumber, Moved
      <4> QED
        BY <2>1, <2>3, <3>4, <4>1, <1>1 DEF EntryNumber, AtExit, Moved, Family
    <3> QED
      BY <3>2, <3>3, <3>4
  <2> QED
    BY <2>1, <2>2, <2>3, <1>4 DEF EntryNumber, EntersLive, Used, Family
<1>7. (\A g \in Families : RecordNumbers(g)') /\ OneRecordPerEntry'
  BY <1>4 DEF UInv, RecordNumbers, OneRecordPerEntry
<1> QED
  BY <1>5, <1>6, <1>7 DEF UInv

\* The number that a reserve puts into the ring is not in it yet, and afterwards
\* only the thread's own entry has it, if any.
LEMMA SysExitReserveUnique ==
  ASSUME IInv, UInv, NEW t \in Threads, SysExitReserve(t)
  PROVE  UInv'
<1> DEFINE e == call[t].ev f == Family(e) n == Len(ring[f]) r == NewRecord(t)
           m == IF Handler[e].paired THEN hash[f][t].id ELSE call[t].id
<1>1. /\ e \in Events /\ f \in Families /\ n \in Nat
      /\ ring \in [Families -> Seq(Record)] /\ ring[f] \in Seq(Record)
      /\ call \in [Threads -> Call] /\ call[t].stage = "in"
  BY Numbers DEF IInv, TypeOK, SysExitReserve, ExitFinds
<1>2. r \in Record /\ r.enter = m
  BY NewRecordOK DEF SysExitReserve, NewRecord
<1>3. /\ ncalls \in Nat
      /\ \A g \in Families, u \in Threads :
           hash[g][u].id \in Nat /\ hash[g][u].id <= ncalls
      /\ \A u \in Threads :
           call[u].id \in Nat /\ Family(call[u].ev) \in Families
  BY Numbers
<1>4. CallNumber(t) /\ EntryNumber(f, t)
  BY <1>1 DEF UInv
<1>5. Handler[e].paired => hash[f][t].id # 0 /\ AtExit(f, t)
  BY <1>1 DEF SysExitReserve, ExitFinds, AtExit
<1>6. m \in 1..ncalls /\ ~Used(f, m)
  <2>1. CASE Handler[e].paired
    BY <2>1, <1>1, <1>3, <1>4, <1>5 DEF EntryNumber
  <2>2. CASE ~Handler[e].paired
    BY <2>2, <1>1, <1>4 DEF CallNumber
  <2> QED
    BY <2>1, <2>2
<1>7. /\ UNCHANGED <<loaded, ncalls>>
      /\ \A g \in Families, u \in Threads :
           hash'[g][u].id = 0 \/ hash'[g][u].id = hash[g][u].id
  BY DeletedForgets DEF SysExitReserve
<1>8. /\ call'[t].stage = "fill" /\ call'[t].ev = e /\ call'[t].id = call[t].id
      /\ \A u \in Threads : u # t => call'[u] = call[u]
  <2>1. call[t] \in Call
    BY <1>1
  <2>2. call' = [call EXCEPT ![t] = [call[t] EXCEPT !.stage = "fill",
                                                    !.pos = n + 1]]
    BY <1>1 DEF SysExitReserve
  <2>3. call'[t] = [call[t] EXCEPT !.stage = "fill", !.pos = n + 1]
    BY <2>2, <1>1
  <2>4. /\ call'[t].stage = "fill" /\ call'[t].ev = e
        /\ call'[t].id = call[t].id
    BY <2>1, <2>3 DEF Call
  <2> QED
    BY <2>2, <2>4, <1>1
\* The ring after the step.
<1>9. ring' = [ring EXCEPT ![f] = Append(ring[f], r)]
  BY DEF SysExitReserve
<1> HIDE DEF r, m
<1>10. /\ DOMAIN ring'[f] = 1..(n + 1)
       /\ \A i \in 1..n : ring'[f][i] = ring[f][i]
       /\ ring'[f][n + 1].enter = m
       /\ \A g \in Families : g # f => ring'[g] = ring[g]
       /\ DOMAIN ring[f] = 1..n
  BY <1>1, <1>2, <1>9, AppendRecord
<1>11. ASSUME NEW g \in Families, NEW k
       PROVE  Used(g, k)' => Used(g, k) \/ (g = f /\ k = m)
  <2>1. CASE g # f
    BY <2>1, <1>10 DEF Used
  <2>2. CASE g = f
    <3> SUFFICES ASSUME NEW i \in DOMAIN ring'[f], ring'[f][i].enter = k
                 PROVE  Used(f, k) \/ k = m
      BY <2>2 DEF Used
    <3>1. i \in 1..n \/ i = n + 1
      BY <1>1, <1>10
    <3> QED
      BY <3>1, <1>10 DEF Used
  <2> QED
    BY <2>1, <2>2
<1>12. ASSUME NEW u \in Threads PROVE CallNumber(u)'
  <2>1. \A v \in Threads : /\ call'[v].id = call[v].id /\ call'[v].ev = call[v].ev
                           /\ call'[v].stage # "user" => call[v].stage # "user"
    BY <1>1, <1>8
  <2>2. CallNumber(u)
    BY DEF UInv
  <2>3. ASSUME call'[u].stage = "in", ~Handler[call'[u].ev].paired
        PROVE  ~Used(Family(call[u].ev), call[u].id)'
    <3>1. u # t /\ call'[u] = call[u]
      BY <2>3, <1>8
    <3>2. call[u].id # m \/ Family(call[u].ev) # f
      <4>1. CASE Handler[e].paired
        BY <4>1, <2>3, <3>1, <1>4, <1>5 DEF EntryNumber, m
      <4>2. CASE ~Handler[e].paired
        BY <4>2, <2>2, <2>3, <3>1, <1>1 DEF CallNumber, m
      <4> QED
        BY <4>1, <4>2
    <3>3. ~Used(Family(call[u].ev), call[u].id)
      BY <2>2, <2>3, <3>1 DEF CallNumber
    <3>4. call'[u].ev = call[u].ev /\ call'[u].id = call[u].id
      BY <3>1
    <3>5. ASSUME NEW g \in Families, NEW k \in Nat,
                 g = Family(call[u].ev), k = call[u].id
          PROVE  ~Used(g, k)'
      BY <3>2, <3>3, <3>5, <1>11
    <3>6. \A i \in DOMAIN ring'[Family(call[u].ev)] :
            ring'[Family(call[u].ev)][i].enter # call[u].id
      BY <3>5, <1>3 DEF Used
    <3> QED
      BY <3>4, <3>6 DEF Used, Family
  <2> QED
    BY <2>1, <2>2, <2>3, <1>7 DEF CallNumber, Used, Family
<1>13. ASSUME NEW g \in Families, NEW u \in Threads PROVE EntryNumber(g, u)'
  <2> SUFFICES ASSUME hash'[g][u].id # 0 PROVE EntryNumber(g, u)'
    BY DEF EntryNumber
  <2>1. hash'[g][u].id = hash[g][u].id /\ hash[g][u].id # 0 /\ EntryNumber(g, u)
    BY <1>7 DEF UInv
  <2>2. \A v \in Threads : hash'[g][v].id = hash'[g][u].id => v = u
    BY <2>1, <1>7 DEF EntryNumber
  <2>3. \A v \in Threads :
          call'[v].stage # "user" /\ call'[v].id = hash'[g][u].id
            => Handler[call'[v].ev].paired
    BY <2>1, <1>1, <1>8 DEF EntryNumber
  <2>4. ASSUME Used(g, hash[g][u].id)'
        PROVE  /\ ~AtExit(g, u)'
               /\ \/ call'[u].stage = "fill" /\ Handler[call'[u].ev].paired
                     /\ Family(call'[u].ev) = g
                  \/ EntersLive(g)
                     /\ \E d \in Events : Family(d) = g /\ Handler[d].leaky
    <3>1. Used(g, hash[g][u].id) \/ (g = f /\ hash[g][u].id = m)
      BY <2>1, <2>4, <1>11 DEF Used
    <3>2. CASE Used(g, hash[g][u].id) /\ u # t
      BY <3>2, <2>1, <1>8 DEF EntryNumber, AtExit, Family
    <3>3. CASE Used(g, hash[g][u].id) /\ u = t
      BY <3>3, <2>1, <1>1, <1>8 DEF EntryNumber, AtExit, Family
    <3>4. CASE g = f /\ hash[g][u].id = m
      <4>1. Handler[e].paired /\ u = t
        BY <3>4, <2>1, <1>1, <1>4, <1>5 DEF EntryNumber, m
      <4> QED
        BY <3>4, <4>1, <1>8 DEF AtExit, Family
    <3> QED
      BY <3>1, <3>2, <3>3, <3>4
  <2>5. EntersLive(g) => EntersLive(g)'
    BY <1>7 DEF EntersLive, Family
  <2> QED
    BY <2>1, <2>2, <2>3, <2>4, <2>5 DEF EntryNumber, Family, Used
<1>14. ASSUME NEW g \in Families PROVE RecordNumbers(g)'
  <2>1. RecordNumbers(g)
    BY DEF UInv
  <2>2. CASE g # f
    BY <2>1, <2>2, <1>7, <1>10 DEF RecordNumbers
  <2>3. CASE g = f
    <3> SUFFICES ASSUME NEW i \in DOMAIN ring'[f]
                 PROVE  ring'[f][i].enter \in 1..ncalls
      BY <2>3, <1>7 DEF RecordNumbers
    <3>1. i \in 1..n \/ i = n + 1
      BY <1>1, <1>10
    <3> QED
      BY <3>1, <2>1, <2>3, <1>6, <1>10 DEF RecordNumbers
  <2> QED
    BY <2>2, <2>3
<1>15. OneRecordPerEntry'
  <2> SUFFICES ASSUME NEW g \in Families, NEW i \in DOMAIN ring'[g],
                      NEW j \in DOMAIN ring'[g],
                      ring'[g][i].enter = ring'[g][j].enter
               PROVE  i = j
    BY DEF OneRecordPerEntry
  <2>1. OneRecordPerEntry
    BY DEF UInv
  <2>2. CASE g # f
    BY <2>1, <2>2, <1>10 DEF OneRecordPerEntry
  <2>3. CASE g = f
    <3>1. (i \in 1..n \/ i = n + 1) /\ (j \in 1..n \/ j = n + 1)
      BY <2>3, <1>1, <1>10
    <3>2. CASE i \in 1..n /\ j \in 1..n
      BY <2>1, <2>3, <3>2, <1>1, <1>10 DEF OneRecordPerEntry
    <3>3. \A k \in 1..n : ring'[f][k].enter # m
      BY <1>6, <1>10 DEF Used
    <3> QED
      BY <2>3, <3>1, <3>2, <3>3, <1>10
  <2> QED
    BY <2>2, <2>3
<1> QED
  BY <1>12, <1>13, <1>14, <1>15 DEF UInv

-----------------------------------------------------------------------------
(* The theorem *)

LEMMA NextUnique == IInv /\ UInv /\ [Next]_vars => UInv'
<1> SUFFICES ASSUME IInv, UInv, [Next]_vars PROVE UInv'
  OBVIOUS
<1>1. loaded \in Nat
  BY SizeAssumption DEF IInv, TypeOK
<1>2. CASE Attach \/ CreateMapBuffers
  BY <1>1, <1>2, LoggerUnique DEF Attach, CreateMapBuffers
<1>3. ASSUME NEW t \in Threads, NEW e \in Events,
             SysEnterStore(t, e) \/ SysEnterSkip(t, e)
      PROVE  UInv'
  BY <1>3, BeginUnique
<1>4. ASSUME NEW t \in Threads, Rekey(t) \/ SysExit(t) PROVE UInv'
  BY <1>4, RekeyUnique, SysExitEndUnique, SysExitReserveUnique,
     SysExitSubmitUnique DEF SysExit
<1>5. CASE Poll \/ PollTimeout \/ UNCHANGED vars
  BY <1>1, <1>5, LoggerUnique DEF Poll, PollBegin, PollEnd, PollTimeout, vars
<1> QED
  BY <1>2, <1>3, <1>4, <1>5 DEF Next

\* However the map and the ring fill up, an entry makes at most one record: no
\* call is logged twice.
THEOREM AtMostOnce == Spec => []OneRecordPerEntry
<1>1. Init => UInv
  BY InitUnique
<1>2. IInv /\ UInv /\ [Next]_vars => UInv'
  BY NextUnique
<1>3. UInv => OneRecordPerEntry
  BY DEF UInv
<1> QED
  BY <1>1, <1>2, <1>3, Invariant, PTL DEF Spec

-----------------------------------------------------------------------------
(* Capture implements EventLog, and a call that is owed a record loses it    *)
(* only to a full ring.  LInv says that the entry of such a call stays in    *)
(* the map; with it every step of Capture maps to a step of EventLog or to a *)
(* stutter.                                                                  *)

\* A map with room for every thread has room for a thread without an entry.
LEMMA RoomInMap ==
  ASSUME NEW f \in Families, NEW t \in Threads,
         Cardinality(Threads) <= HashMax[f]
  PROVE  HashTakes(f, t)
<1> DEFINE S == {u \in Threads : hash[f][u].id # 0}
<1>1. CASE hash[f][t].id # 0
  BY <1>1 DEF HashTakes
<1>2. CASE hash[f][t].id = 0
  <2>1. S \subseteq Threads /\ S # Threads
    BY <1>2
  <2>2. IsFiniteSet(S) /\ Cardinality(S) <= Cardinality(Threads)
        /\ Cardinality(S) \in Nat /\ Cardinality(Threads) \in Nat
    BY <2>1, FiniteAssumption, FS_Subset, FS_CardinalityType
  <2>3. Cardinality(S) # Cardinality(Threads)
    BY <2>1, FiniteAssumption, FS_Subset
  <2>4. Cardinality(S) < HashMax[f]
    BY <2>2, <2>3, SizeAssumption
  <2> QED
    BY <2>4 DEF HashTakes
<1> QED
  BY <1>1, <1>2

-----------------------------------------------------------------------------
(* The entry of a call that is owed a record *)

\* A step that leaves the call and the entry of a thread alone.
LEMMA KeptHere ==
  ASSUME NEW t \in Threads, EntryHere(t), call'[t] = call[t],
         \A f \in Families : hash'[f][t] = hash[f][t], call[t].ev \in Events
  PROVE  EntryHere(t)'
BY Constants DEF EntryHere, Owed, Logs, Family

\* A thread that is not between its two programs has nothing to keep.
LEMMA EndedHere ==
  ASSUME NEW t \in Threads, call'[t].stage # "in"
  PROVE  EntryHere(t)'
BY DEF EntryHere

LEMMA InitHere == Init => LInv
BY DEF Init, LInv, EntryHere, Idle

\* The enter program of a call that is owed a record stores its entry.
LEMMA BeginHere ==
  ASSUME IInv, LInv, NEW t \in Threads, NEW e \in Events,
         SysEnterStore(t, e) \/ SysEnterSkip(t, e)
  PROVE  LInv'
<1> DEFINE f == Family(e)
<1>1. Began(t, e) /\ f \in Families
  BY BeginCall, Constants DEF SysEnterStore, SysEnterSkip
<1>2. hash \in [Families -> [Threads -> Entry]]
      /\ \A u \in Threads : call[u].ev \in Events
  BY Numbers DEF IInv, TypeOK
<1>3. ASSUME NEW u \in Threads, u # t PROVE EntryHere(u)'
  <2>1. \A g \in Families : hash'[g][u] = hash[g][u]
    BY <1>1, <1>2, <1>3 DEF SysEnterStore, SysEnterSkip
  <2> QED
    BY <1>1, <1>2, <1>3, <2>1, KeptHere DEF Began, LInv
<1>4. ASSUME Owed(t)', Handler[e].paired PROVE hash'[f][t].id # 0
  <2>1. Covered(e) /\ Logs(t, e) /\ Cardinality(Threads) <= HashMax[f]
    BY <1>1, <1>4 DEF Owed, Began, Logs, Family
  <2>2. EnterLive(e) /\ ~IsSystemLogger(t, e) /\ ~Handler[e].guarded
    BY <1>4, <2>1 DEF Covered, Logs, IsSystemLogger
  <2>3. HashTakes(f, t)
    BY <1>1, <2>1, RoomInMap
  <2>4. SysEnterStore(t, e)
    BY <2>2, <2>3 DEF SysEnterSkip
  <2>5. hash'[f][t].id = ncalls + 1 /\ ncalls \in Nat
    BY <1>1, <1>2, <2>4 DEF SysEnterStore, Began
  <2> QED
    BY <2>5
<1>5. EntryHere(t)'
  BY <1>1, <1>4 DEF EntryHere, Began, Family
<1> QED
  BY <1>3, <1>5 DEF LInv

\* The id of a thread that calls execve may change, so it is owed nothing.
LEMMA RekeyHere ==
  ASSUME IInv, LInv, NEW t \in Threads, Rekey(t)
  PROVE  LInv'
<1> DEFINE u == Leader[t]
<1>1. Moved(t, u)
  BY RekeyMoves
<1>2. \A v \in Threads : call[v].ev \in Events
  BY Numbers
<1>3. EntryHere(u)'
  BY <1>1 DEF Moved, EntryHere, Owed
<1>4. EntryHere(t)'
  BY <1>1, EndedHere DEF Moved
<1>5. ASSUME NEW v \in Threads, v # t, v # u PROVE EntryHere(v)'
  BY <1>1, <1>2, <1>5, KeptHere DEF Moved, LInv
<1> QED
  BY <1>3, <1>4, <1>5 DEF LInv

\* An exit program ends the part of the call that needs the entry, and touches
\* no other thread's.
LEMMA SysExitHere ==
  ASSUME IInv, LInv, NEW t \in Threads, SysExit(t)
  PROVE  LInv'
<1>1. call \in [Threads -> Call] /\ \A v \in Threads : call[v].ev \in Events
  BY Numbers DEF IInv, TypeOK
<1>2. call'[t].stage # "in" /\ \A u \in Threads : u # t => call'[u] = call[u]
  <2>1. CASE Return(t)
    <3>1. Idle.stage # "in"
      BY DEF Idle
    <3> QED
      BY <1>1, <2>1, <3>1 DEF Return
  <2>2. CASE SysExitReserve(t)
    <3> DEFINE p == Len(ring[Family(call[t].ev)]) + 1
    <3>1. call' = [call EXCEPT ![t].stage = "fill", ![t].pos = p]
      BY <2>2 DEF SysExitReserve
    <3>2. call[t] \in Call
      BY <1>1
    <3> HIDE DEF p
    <3>3. call'[t].stage = "fill"
      BY <1>1, <3>1, <3>2 DEF Call
    <3> QED
      BY <1>1, <3>1, <3>3
  <2> QED
    BY <2>1, <2>2 DEF SysExit, SysExitMiss, SysExitSilent, SysExitDrop, SysExitSubmit
<1>3. hash' = hash \/ hash' = Deleted(t, call[t].ev)
  BY DEF SysExit, SysExitMiss, SysExitSilent, SysExitDrop, SysExitReserve,
         SysExitSubmit
<1>4. \A g \in Families, u \in Threads : u # t => hash'[g][u] = hash[g][u]
  BY <1>3, DeletedEntry
<1>5. ASSUME NEW u \in Threads, u # t PROVE EntryHere(u)'
  BY <1>1, <1>2, <1>4, <1>5, KeptHere DEF LInv
<1> QED
  BY <1>2, <1>5, EndedHere DEF LInv

LEMMA NextHere == IInv /\ LInv /\ [Next]_vars => LInv'
<1> SUFFICES ASSUME IInv, LInv, [Next]_vars PROVE LInv'
  OBVIOUS
<1>1. CASE UNCHANGED <<call, hash>>
  BY <1>1, KeptHere, Numbers DEF LInv
<1>2. ASSUME NEW t \in Threads, NEW e \in Events,
             SysEnterStore(t, e) \/ SysEnterSkip(t, e)
      PROVE  LInv'
  BY <1>2, BeginHere
<1>3. ASSUME NEW t \in Threads, Rekey(t) \/ SysExit(t) PROVE LInv'
  BY <1>3, RekeyHere, SysExitHere
<1>4. CASE Attach \/ CreateMapBuffers \/ Poll \/ PollTimeout \/ UNCHANGED vars
  BY <1>1, <1>4 DEF Attach, CreateMapBuffers, Poll, PollBegin, PollEnd,
                    PollTimeout, vars
<1> QED
  BY <1>2, <1>3, <1>4 DEF Next

-----------------------------------------------------------------------------
(* Every step maps to a step of EventLog or to a stutter *)

\* The abstract calls after a step that may change what thread t contributes.
LEMMA CallsOfOthers ==
  ASSUME NEW t \in Threads, \A u \in Threads : u # t => call'[u] = call[u]
  PROVE  \A c : c \in AbstractCalls'
           <=> \/ \E u \in Threads : /\ u # t /\ call[u].stage = "in"
                                     /\ c = AbstractCall(u)
               \/ call'[t].stage = "in" /\ c = AbstractCall(t)'
<1>1. \A u \in Threads : u # t => AbstractCall(u)' = AbstractCall(u)
  BY DEF AbstractCall, Owed, Exact, Logs, Family
<1> QED
  BY <1>1 DEF AbstractCalls

\* A thread that gets from one abstract call to none gives that call up.
LEMMA CallsLeft ==
  ASSUME IInv, UInv, NEW t \in Threads, call[t].stage = "in",
         call'[t].stage # "in", \A u \in Threads : u # t => call'[u] = call[u]
  PROVE  /\ AbstractCall(t) \in AbstractCalls
         /\ AbstractCalls' = AbstractCalls \ {AbstractCall(t)}
<1>1. \A u \in Threads : u # t /\ call[u].stage = "in"
                           => AbstractCall(u) # AbstractCall(t)
  <2>1. \A u \in Threads : call[u].stage = "in" /\ call[u].id = call[t].id => u = t
    BY DEF UInv, CallNumber
  <2> QED
    BY <2>1 DEF AbstractCall
<1>2. \A c : c \in AbstractCalls
                <=> \E u \in Threads : call[u].stage = "in" /\ c = AbstractCall(u)
  BY DEF AbstractCalls
<1>3. \A c : c \in AbstractCalls'
                <=> \E u \in Threads : /\ u # t /\ call[u].stage = "in"
                                       /\ c = AbstractCall(u)
  BY CallsOfOthers
<1>4. \A c : c \in AbstractCalls' <=> c \in AbstractCalls /\ c # AbstractCall(t)
  BY <1>1, <1>2, <1>3
<1> QED
  BY <1>2, <1>4

LEMMA CallsSame ==
  ASSUME NEW t \in Threads, call[t].stage # "in", call'[t].stage # "in",
         \A u \in Threads : u # t => call'[u] = call[u]
  PROVE  AbstractCalls' = AbstractCalls
BY CallsOfOthers DEF AbstractCalls

LEMMA LogSame == ring' = ring => AbstractLog' = AbstractLog
BY DEF AbstractLog, AbstractRecord

\* A call that ends without a record: only one that is owed none, or that met a
\* full ring.
LEMMA LoseStep ==
  ASSUME IInv, UInv, LInv, NEW t \in Threads,
         SysExitMiss(t) \/ SysExitSilent(t) \/ SysExitDrop(t)
  PROVE  /\ call[t].stage = "in"
         /\ Owed(t) => RingFull(Family(call[t].ev))
         /\ EL!Lose(AbstractCall(t)) /\ AbstractCall(t) \in AbstractCalls
<1> DEFINE e == call[t].ev f == Family(e)
<1>1. /\ call \in [Threads -> Call] /\ e \in Events /\ f \in Families
      /\ Len(ring[f]) \in Nat /\ cons[f] \in Nat
  BY Numbers DEF IInv, TypeOK
<1>2. call[t].stage = "in"
  BY DEF SysExitMiss, SysExitSilent, SysExitDrop, ExitFinds
<1>3. call'[t].stage # "in" /\ \A u \in Threads : u # t => call'[u] = call[u]
  <2>1. Idle.stage # "in"
    BY DEF Idle
  <2> QED
    BY <1>1, <2>1 DEF SysExitMiss, SysExitSilent, SysExitDrop, Return
<1>4. ASSUME Owed(t) PROVE RingFull(f)
  <2>1. ExitFinds(t)
    <3>1. ExitLive(e)
      BY <1>2, <1>4 DEF IInv, CallOK, Owed
    <3>2. ~IsSystemLogger(t, e)
      BY <1>4 DEF Owed, Logs, IsSystemLogger
    <3>3. Handler[e].paired => hash[f][t].id # 0
      BY <1>2, <1>4 DEF LInv, EntryHere
    <3> QED
      BY <1>2, <3>1, <3>2, <3>3 DEF ExitFinds
  <2>2. ~SysExitMiss(t) /\ ~SysExitSilent(t)
    BY <1>4, <2>1 DEF SysExitMiss, SysExitSilent, Owed, Logs
  <2>3. ~(Len(ring[f]) - cons[f] < RingMax[f]) /\ RingMax[f] \in Nat
    BY <1>1, <2>2, SizeAssumption DEF SysExitDrop, RingTakes
  <2> QED
    BY <1>1, <2>3 DEF RingFull
<1>5. /\ AbstractCall(t).owed = Owed(t) /\ AbstractCall(t).family = f
  BY DEF AbstractCall
<1>6. Len(AbstractLog[f]) = Len(ring[f])
  BY <1>1 DEF AbstractLog, IInv, TypeOK
<1>7. UNCHANGED <<ring, cons, ncalls>>
  BY DEF SysExitMiss, SysExitSilent, SysExitDrop
<1>8. AbstractCall(t).owed => EL!Full(AbstractCall(t).family)
  BY <1>4, <1>5, <1>6 DEF RingFull, EL!Full
<1>9. AbstractCalls' = AbstractCalls \ {AbstractCall(t)}
      /\ AbstractCall(t) \in AbstractCalls
  BY <1>2, <1>3, CallsLeft
<1>10. AbstractLog' = AbstractLog
  BY <1>7, LogSame
<1>11. EL!Lose(AbstractCall(t))
  BY <1>7, <1>8, <1>9, <1>10 DEF EL!Lose
<1> QED
  BY <1>2, <1>4, <1>9, <1>11

\* A call that begins is owed what its handler and its programs make sure of.
LEMMA BeginStep ==
  ASSUME IInv, NEW t \in Threads, NEW e \in Events,
         SysEnterStore(t, e) \/ SysEnterSkip(t, e)
  PROVE  EL!Next
<1> DEFINE c == AbstractCall(t)'
<1>1. Began(t, e) /\ Family(e) \in Families
  BY BeginCall, Constants DEF SysEnterStore, SysEnterSkip
<1>2. AbstractCalls' = AbstractCalls \union {c}
  <2>1. \A d : d \in AbstractCalls
               <=> \E u \in Threads : call[u].stage = "in" /\ d = AbstractCall(u)
    BY DEF AbstractCalls
  <2>2. \A d : d \in AbstractCalls'
               <=> \/ \E u \in Threads : /\ u # t /\ call[u].stage = "in"
                                         /\ d = AbstractCall(u)
                   \/ d = c
    BY <1>1, CallsOfOthers DEF Began
  <2>3. \A d : d \in AbstractCalls' <=> d \in AbstractCalls \/ d = c
    BY <1>1, <2>1, <2>2 DEF Began
  <2> QED
    BY <2>3
<1>3. c = [id |-> ncalls + 1, family |-> Family(e),
           owed |-> Owed(t)', exact |-> Exact(t)']
  BY <1>1 DEF AbstractCall, Began, Family
<1>4. Owed(t)' \in BOOLEAN /\ Exact(t)' \in BOOLEAN
  BY DEF Owed, Exact
<1>5. AbstractLog' = AbstractLog /\ cons' = cons /\ ncalls' = ncalls + 1
  BY <1>1, LogSame DEF Began
<1> HIDE DEF c
<1>6. EL!Begin(c)
  BY <1>2, <1>3, <1>5 DEF EL!Begin
<1> QED
  BY <1>1, <1>3, <1>4, <1>6 DEF EL!Next

\* Renaming the fields of the records of a ring commutes with Append.
LEMMA AppendAbstract ==
  ASSUME NEW s \in Seq(Record), NEW r \in Record
  PROVE  [i \in DOMAIN Append(s, r) |-> AbstractRecord(Append(s, r)[i])]
           = Append([i \in DOMAIN s |-> AbstractRecord(s[i])], AbstractRecord(r))
<1> DEFINE R == {AbstractRecord(x) : x \in Record}
           m == [i \in 1..Len(s) |-> AbstractRecord(s[i])]
           q == Append(s, r)
<1>1. q \in Seq(Record) /\ Len(q) = Len(s) + 1 /\ q[Len(s) + 1] = r
      /\ \A i \in 1..Len(s) : q[i] = s[i]
  BY AppendRecord
<1>2. Len(s) \in Nat /\ \A i \in 1..Len(s) : AbstractRecord(s[i]) \in R
  OBVIOUS
<1> HIDE DEF R, q
<1>3. m \in Seq(R) /\ Len(m) = Len(s)
  BY <1>2
<1>4. AbstractRecord(r) \in R
  BY DEF R
<1> DEFINE a == AbstractRecord(r)
<1> HIDE DEF a
<1>5. Append(m, a) = [i \in 1..(Len(s) + 1) |-> IF i = Len(s) + 1 THEN a ELSE m[i]]
  BY <1>2, <1>3, <1>4 DEF a
<1>6. [i \in 1..Len(q) |-> AbstractRecord(q[i])]
        = [i \in 1..(Len(s) + 1) |-> IF i = Len(s) + 1 THEN a ELSE m[i]]
  BY <1>1, <1>2 DEF a
<1>7. DOMAIN q = 1..Len(q) /\ DOMAIN s = 1..Len(s)
  BY <1>1
<1> QED
  BY <1>5, <1>6, <1>7 DEF q, a

\* The record reserved has a place in the log, its arguments are used for the
\* first time, and are the call's own where the handler is sure of them.
LEMMA ReserveStep ==
  ASSUME IInv, UInv, UInv', NEW t \in Threads, SysExitReserve(t)
  PROVE  EL!Next
<1> DEFINE e == call[t].ev f == Family(e) r == NewRecord(t) c == AbstractCall(t)
<1>1. /\ call \in [Threads -> Call] /\ e \in Events /\ f \in Families
      /\ Len(ring[f]) \in Nat /\ cons[f] \in Nat
      /\ ring \in [Families -> Seq(Record)]
  BY Numbers DEF IInv, TypeOK
<1>2. r \in Record /\ WellPaired(r) /\ r.busy /\ r.exit = call[t].id
      /\ r.covered = call[t].covered /\ r.ev = e
  BY NewRecordOK DEF SysExitReserve, NewRecord
<1>3. call[t].stage = "in" /\ UNCHANGED <<cons, ncalls>>
  BY DEF SysExitReserve, ExitFinds
<1>4. call'[t].stage # "in" /\ \A u \in Threads : u # t => call'[u] = call[u]
  <2> DEFINE p == Len(ring[f]) + 1
  <2>1. call' = [call EXCEPT ![t].stage = "fill", ![t].pos = p]
    BY DEF SysExitReserve
  <2>2. call[t] \in Call
    BY <1>1
  <2> HIDE DEF p
  <2>3. call'[t].stage = "fill"
    BY <1>1, <2>1, <2>2 DEF Call
  <2> QED
    BY <1>1, <2>1, <2>3
<1>5. ring' = [ring EXCEPT ![f] = Append(ring[f], r)]
  BY DEF SysExitReserve
<1>6. ring'[f] = Append(ring[f], r) /\ \A g \in Families : g # f => ring'[g] = ring[g]
  BY <1>1, <1>5
<1>7. c \in AbstractCalls /\ AbstractCalls' = AbstractCalls \ {c}
  BY <1>3, <1>4, CallsLeft
<1>8. r.enter \in 1..ncalls
      /\ \A i \in DOMAIN ring[f] : ring[f][i].enter # r.enter
  <2> DEFINE k == Len(ring[f]) + 1
  <2>1. k \in DOMAIN ring'[f] /\ ring'[f][k] = r
        /\ \A i \in DOMAIN ring[f] : i \in DOMAIN ring'[f] /\ i # k
                                     /\ ring'[f][i] = ring[f][i]
    <3>1. ring[f] \in Seq(Record)
      BY <1>1
    <3> QED
      BY <1>2, <1>6, <3>1, AppendRecord
  <2>2. r.enter \in 1..ncalls
    BY <1>1, <1>3, <2>1 DEF UInv, RecordNumbers
  <2>3. \A i \in DOMAIN ring[f] : ring'[f][i].enter = ring'[f][k].enter => i = k
    BY <1>1, <2>1 DEF UInv, OneRecordPerEntry
  <2> QED
    BY <2>1, <2>2, <2>3
<1>9. c.exact => r.enter = c.id
  BY <1>2 DEF WellPaired, AbstractCall, Exact
<1>10. /\ c.id = call[t].id /\ c.family = f
       /\ Len(AbstractLog[f]) = Len(ring[f])
       /\ DOMAIN AbstractLog[f] = DOMAIN ring[f]
       /\ \A i \in DOMAIN ring[f] : AbstractLog[f][i].arguments = ring[f][i].enter
  <2>1. ring[f] \in Seq(Record)
    BY <1>1
  <2> QED
    BY <1>1, <2>1 DEF AbstractCall, AbstractLog, AbstractRecord
<1>11. ~EL!Full(c.family)
  <2>1. Len(ring[f]) - cons[f] < RingMax[f] /\ RingMax[f] \in Nat
    BY <1>1, SizeAssumption DEF SysExitReserve, RingTakes
  <2> QED
    BY <1>1, <1>10, <2>1 DEF EL!Full
<1>12. AbstractLog' = [AbstractLog EXCEPT ![f] =
                         Append(@, [arguments |-> r.enter, result |-> c.id,
                                    done |-> FALSE])]
  <2>1. AbstractRecord(r) = [arguments |-> r.enter, result |-> c.id, done |-> FALSE]
    BY <1>2, <1>10 DEF AbstractRecord
  <2>2. ring[f] \in Seq(Record)
    BY <1>1
  <2>3. AbstractLog'[f] = Append(AbstractLog[f], AbstractRecord(r))
    <3>1. AbstractLog[f] = [i \in DOMAIN ring[f] |-> AbstractRecord(ring[f][i])]
      BY <1>1 DEF AbstractLog
    <3>2. AbstractLog'[f] = [i \in DOMAIN ring'[f] |-> AbstractRecord(ring'[f][i])]
      BY <1>1 DEF AbstractLog, AbstractRecord
    <3>3. [i \in DOMAIN ring'[f] |-> AbstractRecord(ring'[f][i])]
            = Append([i \in DOMAIN ring[f] |-> AbstractRecord(ring[f][i])],
                     AbstractRecord(r))
      <4>1. PICK s \in Seq(Record) : s = ring[f] /\ ring'[f] = Append(s, r)
        BY <1>6, <2>2
      <4>2. [i \in DOMAIN Append(s, r) |-> AbstractRecord(Append(s, r)[i])]
              = Append([i \in DOMAIN s |-> AbstractRecord(s[i])], AbstractRecord(r))
        BY <1>2, AppendAbstract
      <4> QED
        BY <4>1, <4>2, Zenon
    <3> QED
      BY <3>1, <3>2, <3>3
  <2>4. \A g \in Families : g # f => AbstractLog'[g] = AbstractLog[g]
    BY <1>6 DEF AbstractLog, AbstractRecord
  <2>5. AbstractLog' = [AbstractLog EXCEPT ![f] =
                          Append(AbstractLog[f], AbstractRecord(r))]
    <3>1. /\ AbstractLog' = [g \in Families |-> AbstractLog'[g]]
          /\ AbstractLog = [g \in Families |-> AbstractLog[g]]
      BY DEF AbstractLog
    <3> QED
      BY <1>1, <2>3, <2>4, <3>1
  <2> QED
    BY <2>1, <2>5
<1> HIDE DEF c, r
<1>13. EL!Reserve(c, r.enter)
  BY <1>3, <1>7, <1>8, <1>9, <1>10, <1>11, <1>12 DEF EL!Reserve
<1> QED
  BY <1>7, <1>8, <1>13 DEF EL!Next

\* Setting one field of a record keeps the others.
LEMMA DoneField ==
  ASSUME NEW x, NEW y, NEW b
  PROVE  [[arguments |-> x, result |-> y, done |-> b] EXCEPT !.done = TRUE]
           = [arguments |-> x, result |-> y, done |-> TRUE]
<1> DEFINE R == [arguments : {x}, result : {y}, done : {b, TRUE}]
           r == [arguments |-> x, result |-> y, done |-> b]
           e == [r EXCEPT !.done = TRUE]
<1>1. e \in R
  OBVIOUS
<1>2. e.done = TRUE
  OBVIOUS
<1> HIDE DEF e
<1>3. e = [arguments |-> x, result |-> y, done |-> TRUE]
  BY <1>1, <1>2
<1> QED
  BY <1>3 DEF e

\* A submit finishes the record; nothing else of the log changes.
LEMMA SubmitStep ==
  ASSUME IInv, NEW t \in Threads, SysExitSubmit(t)
  PROVE  EL!Next
<1> DEFINE f == Family(call[t].ev) p == call[t].pos s == ring[f]
           q == [s EXCEPT ![p].busy = FALSE]
<1>1. /\ call \in [Threads -> Call] /\ f \in Families
      /\ ring \in [Families -> Seq(Record)] /\ s \in Seq(Record)
  BY Numbers DEF IInv, TypeOK
<1>2. p \in 1..Len(s) /\ s[p].busy /\ call[t].stage = "fill"
  BY DEF SysExitSubmit, IInv, CallOK
<1>3. call'[t].stage # "in" /\ \A u \in Threads : u # t => call'[u] = call[u]
  <2>1. Idle.stage # "in"
    BY DEF Idle
  <2> QED
    BY <1>1, <2>1 DEF SysExitSubmit, Return
<1>4. AbstractCalls' = AbstractCalls /\ UNCHANGED <<cons, ncalls>>
  BY <1>2, <1>3, CallsSame DEF SysExitSubmit
<1>5. ring' = [ring EXCEPT ![f] = q]
  BY <1>1 DEF SysExitSubmit
<1>6. /\ q \in Seq(Record) /\ Len(q) = Len(s) /\ DOMAIN q = DOMAIN s
      /\ \A i \in 1..Len(s) : i # p => q[i] = s[i]
      /\ q[p] = [s[p] EXCEPT !.busy = FALSE]
  BY <1>1, <1>2, SubmitRecord, ZenonT(60)
<1>7. ring'[f] = q /\ \A g \in Families : g # f => ring'[g] = ring[g]
  BY <1>1, <1>5
<1> DEFINE a == [i \in DOMAIN s |-> AbstractRecord(s[i])]
           b == [i \in DOMAIN q |-> AbstractRecord(q[i])]
<1>8. a[p].done = FALSE /\ b = [a EXCEPT ![p].done = TRUE]
  <2>1. p \in DOMAIN s /\ DOMAIN s = 1..Len(s) /\ s[p] \in Record
    BY <1>1, <1>2
  <2>2. AbstractRecord(q[p]) = [AbstractRecord(s[p]) EXCEPT !.done = TRUE]
    <3>1. q[p].enter = s[p].enter /\ q[p].exit = s[p].exit /\ q[p].busy = FALSE
      BY <1>6, <2>1 DEF Record
    <3>2. AbstractRecord(q[p]) = [arguments |-> s[p].enter, result |-> s[p].exit,
                                  done |-> TRUE]
      BY <3>1 DEF AbstractRecord
    <3>3. AbstractRecord(s[p]) = [arguments |-> s[p].enter, result |-> s[p].exit,
                                  done |-> ~s[p].busy]
      BY DEF AbstractRecord
    <3>4. [[arguments |-> s[p].enter, result |-> s[p].exit, done |-> ~s[p].busy]
             EXCEPT !.done = TRUE]
            = [arguments |-> s[p].enter, result |-> s[p].exit, done |-> TRUE]
      BY DoneField
    <3> QED
      BY <3>2, <3>3, <3>4, Zenon
  <2>3. \A i \in DOMAIN s : i # p => AbstractRecord(q[i]) = AbstractRecord(s[i])
    BY <1>6, <2>1
  <2>4. b = [a EXCEPT ![p] = [a[p] EXCEPT !.done = TRUE]]
    BY <1>6, <2>1, <2>2, <2>3
  <2>5. a[p].done = FALSE
    BY <1>2, <2>1 DEF AbstractRecord
  <2> QED
    BY <2>4, <2>5
<1>9. AbstractLog[f] = a /\ AbstractLog'[f] = b
  <2>1. AbstractLog'[f] = [i \in DOMAIN ring'[f] |-> AbstractRecord(ring'[f][i])]
    BY <1>1 DEF AbstractLog, AbstractRecord
  <2> QED
    BY <1>1, <1>7, <2>1 DEF AbstractLog
<1>10. \A g \in Families : g # f => AbstractLog'[g] = AbstractLog[g]
  BY <1>7 DEF AbstractLog, AbstractRecord
<1>11. /\ AbstractLog' = [g \in Families |-> AbstractLog'[g]]
       /\ AbstractLog = [g \in Families |-> AbstractLog[g]]
  BY DEF AbstractLog
<1>12. p \in DOMAIN AbstractLog[f] /\ ~AbstractLog[f][p].done
  <2>1. DOMAIN s = 1..Len(s)
    BY <1>1
  <2>2. DOMAIN a = DOMAIN s
    OBVIOUS
  <2>3. p \in DOMAIN AbstractLog[f]
    BY <1>2, <1>9, <2>1, <2>2
  <2>4. AbstractLog[f][p].done = FALSE
    BY <1>8, <1>9
  <2> QED
    BY <2>3, <2>4
<1> HIDE DEF a, b
<1>13. AbstractLog' = [AbstractLog EXCEPT ![f] = b]
  BY <1>1, <1>9, <1>10, <1>11
<1>14. AbstractLog' = [AbstractLog EXCEPT ![f][p].done = TRUE]
  BY <1>1, <1>8, <1>9, <1>13
<1>15. EL!Finish(f, p)
  BY <1>4, <1>12, <1>14 DEF EL!Finish
<1> QED
  BY <1>1, <1>12, <1>15 DEF EL!Next

\* The logger is done with a record: it takes it, and it is complete.
LEMMA TakeStep ==
  ASSUME IInv, NEW f \in Families, PollEnd(f)
  PROVE  EL!Next
<1>1. cons[f] < Len(ring[f]) /\ ~ring[f][cons[f] + 1].busy /\ cons[f] \in Nat
      /\ ring[f] \in Seq(Record)
  BY DEF IInv, ReaderOK, PollEnd, TypeOK
<1>2. AbstractCalls' = AbstractCalls
  BY DEF PollEnd, AbstractCalls, AbstractCall, Owed, Exact, Logs, Family
<1>3. AbstractLog' = AbstractLog /\ ncalls' = ncalls
  BY LogSame DEF PollEnd
<1>4. cons[f] < Len(AbstractLog[f]) /\ AbstractLog[f][cons[f] + 1].done
  <2> DEFINE i == cons[f] + 1
  <2>1. i \in DOMAIN ring[f] /\ DOMAIN ring[f] = 1..Len(ring[f])
    BY <1>1
  <2>2. AbstractLog[f] = [j \in DOMAIN ring[f] |-> AbstractRecord(ring[f][j])]
    BY DEF AbstractLog
  <2>3. AbstractLog[f][i].done = ~ring[f][i].busy
    BY <2>1, <2>2 DEF AbstractRecord
  <2>4. Len(AbstractLog[f]) = Len(ring[f])
    BY <1>1, <2>1, <2>2
  <2> QED
    BY <1>1, <2>3, <2>4
<1>5. EL!Take(f)
  BY <1>2, <1>3, <1>4 DEF EL!Take, PollEnd
<1> QED
  BY <1>5 DEF EL!Next

\* The execve of a thread goes on under the id of its leader as the same call.
LEMMA RekeyStutters ==
  ASSUME IInv, NEW t \in Threads, Rekey(t)
  PROVE  UNCHANGED EL!vars
<1> DEFINE u == Leader[t]
<1>1. Moved(t, u)
  BY RekeyMoves
<1>2. \A v \in Threads : v # t /\ v # u => AbstractCall(v)' = AbstractCall(v)
  BY <1>1 DEF Moved, AbstractCall, Owed, Exact, Logs, Family
<1>3. AbstractCall(u)' = AbstractCall(t)
  <2>1. call'[u] = call[t] /\ Handler[call[t].ev].rekeys
    BY <1>1 DEF Moved
  <2>2. Owed(u)' = Owed(t)
    BY <2>1 DEF Owed
  <2> QED
    BY <2>1, <2>2 DEF AbstractCall, Exact, Family
<1>4. \A c : c \in AbstractCalls
             <=> \E v \in Threads : call[v].stage = "in" /\ c = AbstractCall(v)
  BY DEF AbstractCalls
<1>5. \A c : c \in AbstractCalls'
             <=> \E v \in Threads : call'[v].stage = "in" /\ c = AbstractCall(v)'
  BY DEF AbstractCalls
<1>6. \A c : c \in AbstractCalls' <=> c \in AbstractCalls
  <2>1. /\ call'[t].stage = "user" /\ call[u].stage = "user"
        /\ call[t].stage = "in" /\ call'[u].stage = "in" /\ u \in Threads /\ u # t
        /\ \A v \in Threads : v # t /\ v # u => call'[v] = call[v]
    BY <1>1 DEF Moved
  <2> HIDE DEF u
  <2> QED
    BY <1>2, <1>3, <1>4, <1>5, <2>1
<1>7. AbstractLog' = AbstractLog
  BY <1>1, LogSame DEF Moved
<1> QED
  BY <1>1, <1>6, <1>7 DEF Moved, EL!vars

LEMMA NextStep ==
  ASSUME IInv, UInv, UInv', LInv, [Next]_vars
  PROVE  [EL!Next]_(EL!vars)
<1>1. ASSUME UNCHANGED <<call, ring, cons, ncalls>> PROVE UNCHANGED EL!vars
  <2>1. AbstractCalls' = AbstractCalls
    BY <1>1 DEF AbstractCalls, AbstractCall, Owed, Exact, Logs, Family
  <2> QED
    BY <1>1, <2>1, LogSame DEF EL!vars
<1>2. CASE Attach \/ CreateMapBuffers \/ PollTimeout \/ UNCHANGED vars
  BY <1>1, <1>2 DEF Attach, CreateMapBuffers, PollTimeout, vars
<1>3. CASE Poll
  BY <1>1, <1>3, TakeStep DEF Poll, PollBegin
<1>4. ASSUME NEW t \in Threads, NEW e \in Events,
             SysEnterStore(t, e) \/ SysEnterSkip(t, e)
      PROVE  EL!Next
  BY <1>4, BeginStep
<1>5. ASSUME NEW t \in Threads, Rekey(t) \/ SysExit(t)
      PROVE  [EL!Next]_(EL!vars)
  <2>1. CASE Rekey(t)
    BY <2>1, RekeyStutters
  <2>2. CASE SysExitMiss(t) \/ SysExitSilent(t) \/ SysExitDrop(t)
    BY <2>2, LoseStep DEF EL!Next
  <2>3. CASE SysExitReserve(t)
    BY <2>3, ReserveStep
  <2>4. CASE SysExitSubmit(t)
    BY <2>4, SubmitStep
  <2> QED
    BY <1>5, <2>1, <2>2, <2>3, <2>4 DEF SysExit
<1> QED
  BY <1>2, <1>3, <1>4, <1>5 DEF Next

-----------------------------------------------------------------------------
(* The theorems *)

LEMMA Strengthened == Spec => [](IInv /\ UInv /\ LInv)
<1>1. Init => UInv /\ LInv
  BY InitUnique, InitHere
<1>2. IInv /\ UInv /\ [Next]_vars => UInv'
  BY NextUnique
<1>3. IInv /\ LInv /\ [Next]_vars => LInv'
  BY NextHere
<1> QED
  BY <1>1, <1>2, <1>3, Invariant, PTL DEF Spec

\* Whatever the threads do and in whatever order their programs run, what the
\* logger makes of it is a behaviour of EventLog.
THEOREM Implements == Spec => ImplementsEventLog
<1>1. Init => EL!Init
  <2> SUFFICES ASSUME Init PROVE EL!Init
    OBVIOUS
  <2>1. AbstractCalls = {}
    BY DEF Init, AbstractCalls, Idle
  <2>2. AbstractLog = [f \in Families |-> <<>>]
    BY DEF Init, AbstractLog
  <2> QED
    BY <2>1, <2>2 DEF Init, EL!Init
<1>2. IInv /\ UInv /\ UInv' /\ LInv /\ [Next]_vars => [EL!Next]_(EL!vars)
  BY NextStep
<1> QED
  BY <1>1, <1>2, Strengthened, PTL DEF Spec, ImplementsEventLog, EL!Spec

\* With room in the map for every thread, only a full ring makes a call that
\* ought to be logged end without a record.
THEOREM OnlyToFullRing == Spec => LostOnlyToFullRing
<1>1. ASSUME IInv, UInv, LInv, [Next]_vars, NEW t \in Threads,
             ~Handler[call[t].ev].rekeys,
             Cardinality(Threads) <= HashMax[Family(call[t].ev)], Unlogged(t)
      PROVE  RingFull(Family(call[t].ev))
  <2>1. Owed(t) /\ call[t].stage = "in" /\ call[t].id \in 1..ncalls
        /\ call[t] \in Call
    BY <1>1 DEF Owed, Unlogged, UInv, CallNumber, IInv, TypeOK
  <2>2. \A u \in Threads : call'[u].id # call[t].id
    BY <1>1 DEF Unlogged
  <2>3. call' # call
    BY <2>2
  <2>4. ~(\E u \in Threads : u # t /\ call'[t] = call[t])
    BY <2>2
  <2>5. PICK u \in Threads :
          \/ \E e \in Events : SysEnterStore(u, e) \/ SysEnterSkip(u, e)
          \/ Rekey(u)
          \/ SysExit(u)
    BY <1>1, <2>3 DEF Next, Attach, CreateMapBuffers, Poll, PollBegin, PollEnd,
                      PollTimeout, vars
  <2>6. ~\E e \in Events : SysEnterStore(u, e) \/ SysEnterSkip(u, e)
    BY <1>1, <2>1, <2>2, BeginCall DEF SysEnterStore, SysEnterSkip, Began
  <2>7. ~Rekey(u)
    BY <1>1, <2>1, <2>2, RekeyMoves DEF Moved
  <2>8. SysExit(u) /\ ~SysExitReserve(u) /\ ~SysExitSubmit(u)
    <3>1. call \in [Threads -> Call]
      BY <1>1 DEF IInv, TypeOK
    <3>2. ASSUME SysExitReserve(u) PROVE FALSE
      <4>1. call'[t].id = call[t].id
        BY <3>1, <3>2 DEF SysExitReserve, Call
      <4> QED
        BY <2>2, <4>1
    <3>3. ASSUME SysExitSubmit(u) PROVE FALSE
      <4>1. call'[t] = call[t]
        BY <2>1, <3>1, <3>3 DEF SysExitSubmit, Return
      <4> QED
        BY <2>2, <4>1
    <3> QED
      BY <2>5, <2>6, <2>7, <3>2, <3>3
  <2>9. u = t
    <3>1. call \in [Threads -> Call]
      BY <1>1 DEF IInv, TypeOK
    <3>2. u # t => call'[t] = call[t]
      BY <2>8, <3>1 DEF SysExit, SysExitMiss, SysExitSilent, SysExitDrop, Return
    <3> QED
      BY <2>2, <3>2
  <2> QED
    BY <1>1, <2>1, <2>8, <2>9, LoseStep DEF SysExit
<1>2. IInv /\ UInv /\ LInv /\ [Next]_vars =>
        \A t \in Threads : LET e == call[t].ev IN
          ~Handler[e].rekeys /\ Cardinality(Threads) <= HashMax[Family(e)]
            => (Unlogged(t) => RingFull(Family(e)))
  BY <1>1
<1> QED
  BY <1>2, Strengthened, PTL DEF Spec, LostOnlyToFullRing
=============================================================================
