------------------------------ MODULE MCCapture ------------------------------
(***************************************************************************)
(* Capture with the handlers of the code, for the events of a run.         *)
(***************************************************************************)
EXTENDS Capture, Handlers, TLC

CONSTANTS
  HashSize, RingSize,  \* the capacities, equal for every family of a run
  Others               \* the threads that are not the first of their process

MCHandler   == [e \in Events |-> HandlerOf(e)]
MCEnterAt   == [e \in Events |-> AttachedAt(Events, "enter", e)]
MCExitAt    == [e \in Events |-> AttachedAt(Events, "exit", e)]
MCNPrograms == Len(Autoloaded(Events))
\* All other threads are of the process of one thread that is not in Others.
MCLeader ==
  [t \in Threads |->
     IF t \in Others THEN CHOOSE u \in Threads \ Others : u # Logger ELSE t]
MCHashMax   == [f \in FamilyNames |-> HashSize]
MCRingMax   == [f \in FamilyNames |-> RingSize]

\* The other threads are interchangeable; the logger's is not.
OtherThreads == Permutations(Threads \ {Logger})

ASSUME HandlersOfTheCode == \A e \in Events : HandlerOf(e) \in HandlerType
=============================================================================
