------------------------------ MODULE EventLog ------------------------------
(***************************************************************************)
(* What the logger promises about the events of the machine, without the   *)
(* programs, maps and polls it is made of: a call may leave one record in  *)
(* the log of its family; the record is of a call that really was made,    *)
(* with arguments that no other record has; a call that is owed a record   *)
(* loses it only to a log that is full; records are taken in their order   *)
(* and only when they are complete.  Capture implements this.              *)
(***************************************************************************)
EXTENDS Integers, Sequences

CONSTANTS
  Families,  \* the logs, one for each family of events
  Capacity   \* Capacity[f]: the records of log f that can wait to be taken

VARIABLES
  begun,  \* the number of calls begun; calls are numbered from 1
  calls,  \* the calls under way that have no record yet
  log,    \* log[f]: the records of family f, in order
  taken   \* taken[f]: how many of them have been taken

vars == <<begun, calls, log, taken>>

\* A call that is "owed" a record is lost only when the log is full; the record
\* of an "exact" call has the arguments of that very call.
Call == [id : Nat, family : Families, owed : BOOLEAN, exact : BOOLEAN]

Full(f) == Len(log[f]) - taken[f] >= Capacity[f]

Init ==
  /\ begun = 0
  /\ calls = {}
  /\ log = [f \in Families |-> <<>>]
  /\ taken = [f \in Families |-> 0]

Begin(c) ==
  /\ c.id = begun + 1
  /\ begun' = begun + 1
  /\ calls' = calls \union {c}
  /\ UNCHANGED <<log, taken>>

\* The call leaves no record.
Lose(c) ==
  /\ c.owed => Full(c.family)
  /\ calls' = calls \ {c}
  /\ UNCHANGED <<begun, log, taken>>

\* The call gets its place in the log, with the arguments of call n.
Reserve(c, n) ==
  /\ ~Full(c.family)
  /\ \A i \in DOMAIN log[c.family] : log[c.family][i].arguments # n
  /\ c.exact => n = c.id
  /\ log' = [log EXCEPT ![c.family] =
               Append(@, [arguments |-> n, result |-> c.id, done |-> FALSE])]
  /\ calls' = calls \ {c}
  /\ UNCHANGED <<begun, taken>>

Finish(f, i) ==
  /\ ~log[f][i].done
  /\ log' = [log EXCEPT ![f][i].done = TRUE]
  /\ UNCHANGED <<begun, calls, taken>>

Take(f) ==
  /\ taken[f] < Len(log[f])
  /\ log[f][taken[f] + 1].done
  /\ taken' = [taken EXCEPT ![f] = @ + 1]
  /\ UNCHANGED <<begun, calls, log>>

Next ==
  \/ \E f \in Families, owed, exact \in BOOLEAN :
       Begin([id |-> begun + 1, family |-> f, owed |-> owed, exact |-> exact])
  \/ \E c \in calls : Lose(c) \/ \E n \in 1..begun : Reserve(c, n)
  \/ \E f \in Families : Take(f) \/ \E i \in DOMAIN log[f] : Finish(f, i)

Spec == Init /\ [][Next]_vars
=============================================================================
