---------------------------- MODULE PathsProofs -----------------------------
(***************************************************************************)
(* Proofs about the path of a file, from its dentry to the log.            *)
(* read_path: for every file and all sizes that satisfy BufferAssumption,  *)
(* RoomLeft says what is left of the buffer for the iterations to come, so *)
(* that nothing is written outside it, and PInv says where the walk is     *)
(* among the names of the file and that the buffer has the end of its text *)
(* from there, so that a record has the true path.                         *)
(* fprint_relative_filename: for every directory and name, Reached says    *)
(* that what get_filename_cptrs has read of a name leads where the         *)
(* components that it kept do.                                             *)
(***************************************************************************)
EXTENDS Paths, SequenceLemmas

-----------------------------------------------------------------------------
(* read_path *)

\* The room for r names is that for one and for the others.
LEMMA OneLess ==
  ASSUME NEW r \in Nat, NEW k \in Nat, r >= 1
  PROVE  r * k = (r - 1) * k + k /\ r * k \in Nat /\ (r - 1) * k \in Nat
OBVIOUS

\* The name that the walk is at, and the length that the program gives it.
LEMMA NameFits ==
  ASSUME TypeOK, ~AtTop
  PROVE  /\ Name \in Names /\ Len(Name) \in 1..(NameSize - 1)
         /\ Name = [i \in 1..Len(Name) |-> Name[i]]
         /\ \A i \in 1..Len(Name) : Name[i] \in Chars
         /\ NameLen \in 0..Len(Name) + 1 /\ NameLen <= NameSize - 1
         /\ NameLen # 0 => NameLen = Len(Name) + 1
         /\ up + 1 \in 1..Len(target.mounts[mnt])
<1>1. target \in Targets /\ target.mounts \in Seq(Seq(Names))
      /\ mnt \in 1..Len(target.mounts)
  BY TargetsAssumption DEF TypeOK
<1>2. target.mounts[mnt] \in Seq(Names)
  BY <1>1
<1>3. up + 1 \in 1..Len(target.mounts[mnt])
  BY <1>2 DEF TypeOK, AtTop
<1>4. Name \in Names
  BY <1>2, <1>3 DEF Name
<1>5. PICK n \in 1..(NameSize - 1) : Name \in [1..n -> Chars]
  BY <1>4 DEF Names
<1>6. Len(Name) = n
  BY <1>5, BufferAssumption
<1>7. NameLen = IF n + 1 = NameSize THEN 0 ELSE n + 1
  BY <1>5, <1>6, BufferAssumption DEF NameLen
<1> QED
  BY <1>3, <1>4, <1>5, <1>6, <1>7, BufferAssumption

\* At the start there is room for all iterations.
LEMMA InitRoom == Init => RoomLeft
<1> SUFFICES ASSUME Init PROVE RoomLeft
  OBVIOUS
<1>1. target \in Targets /\ target.mounts \in Seq(Seq(Names))
      /\ target.mounts # <<>> /\ target.isDir \in BOOLEAN
  BY TargetsAssumption DEF Init
<1>2. Len(target.mounts) >= 1 /\ target.mounts[1] \in Seq(Names)
  BY <1>1
<1>3. MaxDentries * (NameSize - 1) \in Nat
  BY BufferAssumption
<1>4. offset \in (Size - 1)..Size /\ offset >= 1 + MaxDentries * (NameSize - 1)
  BY <1>1, <1>3, BufferAssumption DEF Init
<1>5. TypeOK
  <2>1. mnt = 1 /\ mnt \in 1..Len(target.mounts) /\ parent \in 0..Len(target.mounts)
    BY <1>1, <1>2 DEF Init
  <2>2. Len(target.mounts[mnt]) \in Nat /\ up \in 0..Len(target.mounts[mnt])
    BY <1>2, <2>1 DEF Init
  <2>3. steps \in 0..MaxDentries /\ offset \in 0..Size
    BY <1>4, BufferAssumption DEF Init
  <2>4. data \in [0..(Size - 1) -> Chars \union {Slash, Nul}]
    BY DEF Init
  <2> QED
    BY <1>1, <2>1, <2>2, <2>3, <2>4 DEF Init, TypeOK
<1>6. MaxDentries - steps = MaxDentries
  BY BufferAssumption DEF Init
<1> QED
  BY <1>4, <1>5, <1>6 DEF Init, RoomLeft

\* Crossing a mount takes an iteration and no room.
LEMMA CrossMountRoom == RoomLeft /\ CrossMount => RoomLeft'
<1> SUFFICES ASSUME RoomLeft, CrossMount PROVE RoomLeft'
  OBVIOUS
<1> DEFINE r == MaxDentries - steps
<1>1. target.mounts \in Seq(Seq(Names)) /\ mnt \in 1..Len(target.mounts)
      /\ target \in Targets
  BY TargetsAssumption DEF RoomLeft, TypeOK
<1>2. ParentMount(mnt) \in 1..Len(target.mounts)
      /\ ParentMount(ParentMount(mnt)) \in 1..Len(target.mounts)
  BY <1>1 DEF ParentMount, Min2
<1>3. up' \in 0..Len(target.mounts[mnt'])
  <2>1. CASE mnt = Len(target.mounts)
    BY <2>1, <1>1 DEF CrossMount, ParentMount, Min2, RoomLeft, TypeOK
  <2>2. CASE mnt # Len(target.mounts)
    <3>1. target.mounts[mnt'] \in Seq(Names)
      BY <1>1, <1>2 DEF CrossMount
    <3> QED
      BY <2>2, <3>1 DEF CrossMount
  <2> QED
    BY <2>1, <2>2
<1>4. r \in Nat /\ r >= 1 /\ MaxDentries - steps' = r - 1
      /\ steps' \in 0..MaxDentries
  BY BufferAssumption DEF RoomLeft, TypeOK, CrossMount
<1>5. TypeOK'
  BY <1>1, <1>2, <1>3, <1>4, SMTT(60) DEF RoomLeft, TypeOK, CrossMount
<1>6. offset' >= 1 + (r - 1) * (NameSize - 1)
  <2>1. r * (NameSize - 1) >= (r - 1) * (NameSize - 1)
        /\ r * (NameSize - 1) \in Nat /\ (r - 1) * (NameSize - 1) \in Nat
    BY <1>4, OneLess, BufferAssumption
  <2>2. offset >= 1 + r * (NameSize - 1) /\ offset' = offset /\ offset \in Nat
    BY DEF RoomLeft, TypeOK, CrossMount
  <2> HIDE DEF r
  <2> QED
    BY <2>1, <2>2
<1> QED
  BY <1>4, <1>5, <1>6 DEF RoomLeft, CrossMount

\* A name takes an iteration and its room.
LEMMA TakeNameRoom == RoomLeft /\ TakeName => RoomLeft'
<1> SUFFICES ASSUME RoomLeft, TakeName PROVE RoomLeft'
  OBVIOUS
<1> DEFINE r == MaxDentries - steps k == NameSize - 1
<1>1. /\ Name \in Names /\ Len(Name) \in 1..k
      /\ \A i \in 1..Len(Name) : Name[i] \in Chars
      /\ NameLen \in 0..Len(Name) + 1 /\ NameLen <= k
      /\ NameLen # 0 => NameLen = Len(Name) + 1
      /\ up + 1 \in 1..Len(target.mounts[mnt])
  BY NameFits DEF RoomLeft, TakeName
<1>2. r \in Nat /\ r >= 1 /\ MaxDentries - steps' = r - 1
      /\ steps' \in 0..MaxDentries /\ k \in Nat
  BY BufferAssumption DEF RoomLeft, TypeOK, TakeName
<1>3. r * k = (r - 1) * k + k /\ r * k \in Nat /\ (r - 1) * k \in Nat
  BY <1>2, OneLess
<1>4. offset >= 1 + r * k /\ offset \in 0..Size /\ Size \in Nat
  BY BufferAssumption DEF RoomLeft, TypeOK, TakeName
<1> HIDE DEF r, k
<1>5. NameLen <= offset /\ offset - NameLen >= 1 + (r - 1) * k
      /\ offset - NameLen \in 0..Size
  BY <1>1, <1>2, <1>3, <1>4
<1>6. ~TooLong
  BY <1>1, <1>4, <1>5 DEF TooLong
<1>7. offset' = offset - NameLen /\ data' = WithName /\ phase' = "walk"
  BY <1>6 DEF TakeName
<1>8. WithName \in [0..(Size - 1) -> Chars \union {Slash, Nul}]
  <2>1. DOMAIN data = 0..(Size - 1)
        /\ \A i \in 0..(Size - 1) : data[i] \in Chars \union {Slash, Nul}
    BY DEF RoomLeft, TypeOK
  <2>2. ASSUME NEW i \in 0..(Size - 1), i \in (offset - NameLen)..(offset - 2)
        PROVE  Name[i - (offset - NameLen) + 1] \in Chars
    BY <1>1, <1>4, <1>5, <2>2
  <2> QED
    BY <2>1, <2>2 DEF WithName
<1>9. TypeOK'
  BY <1>1, <1>2, <1>5, <1>7, <1>8 DEF RoomLeft, TypeOK, TakeName
<1> QED
  BY <1>2, <1>5, <1>7, <1>9 DEF RoomLeft, k

\* The last slash has the room that is left over.
LEMMA FinishRoom == RoomLeft /\ Finish => RoomLeft'
<1> SUFFICES ASSUME RoomLeft, Finish PROVE RoomLeft'
  OBVIOUS
<1>1. (MaxDentries - steps) * (NameSize - 1) \in Nat
  BY BufferAssumption DEF RoomLeft, TypeOK
<1>2. offset' \in 0..Size
  BY <1>1, BufferAssumption DEF RoomLeft, TypeOK, Finish
<1>3. data' \in [0..(Size - 1) -> Chars \union {Slash, Nul}]
  BY DEF RoomLeft, TypeOK, Finish
<1> QED
  BY <1>2, <1>3 DEF RoomLeft, TypeOK, Finish

\* In every iteration of the walk the buffer has room for a name of the greatest
\* length in each iteration to come, for every file and any sizes that meet the
\* assumption, as those of the code do.
THEOREM RoomKept == Spec => []RoomLeft
<1>1. Init => RoomLeft
  BY InitRoom
<1>2. RoomLeft /\ [Next]_vars => RoomLeft'
  <2> SUFFICES ASSUME RoomLeft, [Next]_vars PROVE RoomLeft'
    OBVIOUS
  <2>1. CASE UNCHANGED vars
    BY <2>1 DEF RoomLeft, TypeOK, vars
  <2> QED
    BY <2>1, CrossMountRoom, TakeNameRoom, FinishRoom DEF Next
<1> QED
  BY <1>1, <1>2, PTL DEF Spec

\* So no iteration writes outside the buffer.
THEOREM Inside == Spec => []StaysInside
<1>1. RoomLeft => StaysInside
  <2> SUFFICES ASSUME RoomLeft, phase = "walk"
               PROVE  /\ offset >= 1
                      /\ steps < MaxDentries /\ ~AtTop => NameLen <= offset
    BY DEF RoomLeft, StaysInside
  <2>1. MaxDentries - steps \in Nat /\ NameSize - 1 \in Nat
    BY BufferAssumption DEF RoomLeft, TypeOK
  <2>2. (MaxDentries - steps) * (NameSize - 1) \in Nat
    BY <2>1
  <2>3. offset >= 1 /\ offset \in Nat
    BY <2>2 DEF RoomLeft, TypeOK
  <2>4. ASSUME steps < MaxDentries, ~AtTop PROVE NameLen <= offset
    <3>1. NameLen <= NameSize - 1 /\ NameLen \in Nat
      BY <2>4, NameFits, BufferAssumption DEF RoomLeft
    <3>2. MaxDentries - steps >= 1
      BY <2>1, <2>4, BufferAssumption DEF RoomLeft, TypeOK
    <3>3. (MaxDentries - steps) * (NameSize - 1) >= NameSize - 1
      BY <2>1, <3>2, OneLess
    <3> QED
      BY <2>1, <2>2, <2>3, <3>1, <3>3 DEF RoomLeft
  <2> QED
    BY <2>3, <2>4
<1> QED
  BY <1>1, RoomKept, PTL

-----------------------------------------------------------------------------
(* The text of a path *)

Text == Seq(Chars \union {Slash})

\* The names of the first mounts, from the file upwards.
NamesOf ==
  CHOOSE f \in [0..Len(target.mounts) -> Seq(Names)] :
    PutTogether(f, target.mounts, Len(target.mounts))

Parts == [k \in DOMAIN AllNames |-> <<Slash>> \o AllNames[k]]

\* The text of the first names, from the root downwards.
TextOf ==
  CHOOSE f \in [0..Len(AllNames) -> Text] : PutTogether(f, Parts, Len(AllNames))

\* The text of all of them, as read_path begins it.
Whole ==
  TextOf[Len(AllNames)] \o (IF target.isDir THEN <<Slash>> ELSE <<>>)

\* The names that the walk has passed.
Taken == Len(NamesOf[mnt - 1]) + up

\* The text in the buffer while the walk lasts, with its slash.
Made == [i \in 1..(Size - offset) |-> IF i = 1 THEN Slash ELSE data[offset + i - 2]]

ShortNames == \A k \in DOMAIN AllNames : Len(AllNames[k]) < NameSize - 1

\* A mount point is known by its parent; each iteration passes one name or one
\* mount, or finds that the only mount is the root of all.
WalkOK ==
  /\ \/ parent = 0 /\ mnt = 1
     \/ parent = ParentMount(mnt)
  /\ parent = 1 => AtTop /\ Len(target.mounts) = 1
  /\ steps = Taken + mnt - 1 + (IF parent = 1 THEN 1 ELSE 0)

\* What the buffer has is the end of the text, from the names that were passed.
TextOK ==
  /\ data[Size - 1] = Nul
  /\ phase = "done" => offset < Size
  /\ ShortNames /\ phase = "walk" => Whole = TextOf[Len(AllNames) - Taken] \o Made
  /\ ShortNames /\ phase = "done" => Whole = TextOf[Len(AllNames) - Taken] \o PathText

\* A walk that ends because it has no iteration left was too long.
EndOK ==
  phase = "done" /\ ~target.detached /\ Needed <= MaxDentries => Taken = Len(AllNames)

PInv == RoomLeft /\ WalkOK /\ TextOK /\ EndOK

\* What the file is does not change.
LEMMA SameTarget ==
  ASSUME target' = target
  PROVE  /\ NamesOf' = NamesOf /\ AllNames' = AllNames /\ TextOf' = TextOf
         /\ Whole' = Whole /\ (ShortNames' <=> ShortNames) /\ Needed' = Needed
<1>1. AllNames' = AllNames
  BY DEF AllNames
<1>2. Parts' = Parts
  BY <1>1 DEF Parts
<1>3. TextOf' = TextOf
  BY <1>1, <1>2 DEF TextOf
<1> QED
  BY <1>1, <1>3 DEF NamesOf, Whole, ShortNames, Needed

\* The names of the file, in both directions.
LEMMA NamesIs ==
  ASSUME target \in Targets
  PROVE  /\ Len(target.mounts) \in Nat \ {0}
         /\ target.mounts \in [1..Len(target.mounts) -> Seq(Names)]
         /\ NamesOf \in [0..Len(target.mounts) -> Seq(Names)]
         /\ PutTogether(NamesOf, target.mounts, Len(target.mounts))
         /\ AllNames \in Seq(Names)
         /\ Len(AllNames) = Len(NamesOf[Len(target.mounts)])
         /\ \A k \in 1..Len(AllNames) :
              AllNames[Len(AllNames) - k + 1] = NamesOf[Len(target.mounts)][k]
<1> DEFINE n == Len(target.mounts)
<1>1. target.mounts \in Seq(Seq(Names)) /\ target.mounts # <<>>
  BY TargetsAssumption
<1>2. n \in Nat \ {0} /\ target.mounts \in [1..n -> Seq(Names)]
  BY <1>1
<1>3. NamesOf \in [0..n -> Seq(Names)] /\ PutTogether(NamesOf, target.mounts, n)
  <2>1. \E f \in [0..n -> Seq(Names)] : PutTogether(f, target.mounts, n)
    BY <1>2, Joins
  <2> QED
    BY <2>1 DEF NamesOf
<1> DEFINE names == NamesOf[n]
<1>4. FlattenSeq(target.mounts) = names
  BY <1>2, <1>3, FlattenIs
<1>5. names \in Seq(Names)
  BY <1>2, <1>3
<1>6. AllNames = [i \in 1..Len(names) |-> names[(Len(names) - i) + 1]]
  BY <1>4 DEF AllNames, Reverse
<1> HIDE DEF n, names
<1>7. AllNames \in Seq(Names) /\ Len(AllNames) = Len(names)
  <2>1. \A i \in 1..Len(names) : names[(Len(names) - i) + 1] \in Names
    <3>1. ASSUME NEW i \in 1..Len(names) PROVE (Len(names) - i) + 1 \in 1..Len(names)
      BY <1>5
    <3> QED
      BY <1>5, <3>1
  <2>2. AllNames \in [1..Len(names) -> Names]
    BY <1>6, <2>1
  <2>3. Len(names) \in Nat
    BY <1>5
  <2> QED
    BY <2>2, <2>3, SeqDef
<1>8. ASSUME NEW k \in 1..Len(AllNames) PROVE AllNames[Len(AllNames) - k + 1] = names[k]
  <2> DEFINE j == Len(names) - k + 1
  <2>1. j \in 1..Len(names) /\ (Len(names) - j) + 1 = k
    BY <1>5, <1>7
  <2> HIDE DEF j
  <2>2. AllNames[j] = names[(Len(names) - j) + 1]
    BY <1>6, <2>1
  <2> QED
    BY <1>7, <2>1, <2>2 DEF j
<1> QED
  BY <1>2, <1>3, <1>7, <1>8 DEF n, names

\* Its text.
LEMMA TextIs ==
  ASSUME target \in Targets
  PROVE  /\ TextOf \in [0..Len(AllNames) -> Text]
         /\ PutTogether(TextOf, Parts, Len(AllNames))
         /\ \A k \in 1..Len(AllNames) : Parts[k] = <<Slash>> \o AllNames[k]
         /\ FlattenSeq(Parts) = TextOf[Len(AllNames)]
         /\ Whole \in Text
<1> DEFINE n == Len(AllNames)
<1>1. AllNames \in Seq(Names) /\ n \in Nat /\ DOMAIN AllNames = 1..n
  BY NamesIs
<1>2. \A name \in Names : <<Slash>> \o name \in Text
  <2>1. ASSUME NEW m \in 1..(NameSize - 1), NEW name \in [1..m -> Chars]
        PROVE  name \in Text
    <3>1. name \in [1..m -> Chars \union {Slash}] /\ m \in Nat
      BY BufferAssumption
    <3> QED
      BY <3>1, SeqDef DEF Text
  <2>2. \A name \in Names : name \in Text
    BY <2>1 DEF Names
  <2>3. \A t \in Text : <<Slash>> \o t \in Text
    BY DEF Text
  <2> QED
    BY <2>2, <2>3
<1>3. /\ Parts \in [1..n -> Text]
      /\ \A k \in 1..n : Parts[k] = <<Slash>> \o AllNames[k]
  BY <1>1, <1>2 DEF Parts
<1>4. TextOf \in [0..n -> Text] /\ PutTogether(TextOf, Parts, n)
  <2>1. \E f \in [0..n -> Text] : PutTogether(f, Parts, n)
    BY <1>1, <1>3, Joins DEF Text
  <2> QED
    BY <2>1 DEF TextOf
<1>5. FlattenSeq(Parts) = TextOf[n]
  BY <1>1, <1>3, <1>4, FlattenIs DEF Text
<1>6. Whole \in Text
  <2>1. TextOf[n] \in Text
    BY <1>1, <1>4
  <2>2. \A t \in Text : t \o <<Slash>> \in Text /\ t \o <<>> \in Text
    BY DEF Text
  <2> QED
    BY <2>1, <2>2 DEF Whole
<1> QED
  BY <1>3, <1>4, <1>5, <1>6

\* Where the walk is among the names.
LEMMA Position ==
  ASSUME TypeOK
  PROVE  /\ Taken \in 0..Len(AllNames)
         /\ AtTop /\ mnt = Len(target.mounts) => Taken = Len(AllNames)
         /\ ~AtTop => /\ Taken < Len(AllNames)
                      /\ AllNames[Len(AllNames) - Taken] = Name
         /\ Len(NamesOf[mnt]) = Len(NamesOf[mnt - 1]) + Len(target.mounts[mnt])
         /\ NamesOf[0] = <<>>
<1> DEFINE n == Len(target.mounts)
           here == target.mounts[mnt]
           below == NamesOf[mnt - 1]
           names == NamesOf[n]
<1>1. /\ n \in Nat \ {0} /\ target.mounts \in [1..n -> Seq(Names)]
      /\ NamesOf \in [0..n -> Seq(Names)] /\ PutTogether(NamesOf, target.mounts, n)
      /\ Len(AllNames) = Len(names)
      /\ \A k \in 1..Len(names) : AllNames[Len(names) - k + 1] = names[k]
  BY NamesIs DEF TypeOK
<1>2. mnt \in 1..n /\ mnt \in 0..n /\ mnt - 1 \in 0..n /\ up \in 0..Len(here)
  BY <1>1 DEF TypeOK
<1>3. /\ here \in Seq(Names) /\ below \in Seq(Names) /\ names \in Seq(Names)
      /\ NamesOf[mnt] = below \o here /\ NamesOf[0] = <<>>
  <2>1. target.mounts[mnt] \in Seq(Names)
    BY <1>1, <1>2
  <2>2. NamesOf[mnt - 1] \in Seq(Names) /\ NamesOf[n] \in Seq(Names)
    <3> HIDE DEF n
    <3>1. n \in 0..n
      BY <1>1
    <3>2. NamesOf[n] \in Seq(Names)
      BY <1>1, <3>1
    <3>3. NamesOf[mnt - 1] \in Seq(Names)
      BY <1>1, <1>2
    <3> QED
      BY <3>2, <3>3
  <2>3. NamesOf[0] = <<>> /\ NamesOf[mnt] = NamesOf[mnt - 1] \o target.mounts[mnt]
    BY <1>1, <1>2 DEF PutTogether
  <2> QED
    BY <2>1, <2>2, <2>3
<1>4. /\ Len(below \o here) <= Len(names)
      /\ \A i \in 1..Len(below \o here) : names[i] = (below \o here)[i]
  <2>1. /\ Len(NamesOf[mnt]) <= Len(NamesOf[n])
        /\ \A i \in 1..Len(NamesOf[mnt]) : NamesOf[n][i] = NamesOf[mnt][i]
    <3> HIDE DEF n
    <3>1. /\ n \in Nat
          /\ target.mounts \in [1..n -> Seq(Names)]
          /\ NamesOf \in [0..n -> Seq(Names)]
          /\ PutTogether(NamesOf, target.mounts, n)
      BY <1>1
    <3>2. \A m \in 0..n : /\ Len(NamesOf[m]) <= Len(NamesOf[n])
                          /\ \A i \in 1..Len(NamesOf[m]) : NamesOf[n][i] = NamesOf[m][i]
      BY <3>1, Begins, ZenonT(60)
    <3> QED
      BY <1>2, <3>2
  <2> QED
    BY <1>3, <2>1
<1>5. Taken = Len(below) + up
  BY DEF Taken
<1>6. AtTop <=> up = Len(here)
  BY DEF AtTop
<1>7. Name = here[up + 1]
  BY DEF Name
<1> HIDE DEF here, below, names, n
<1>8. Len(below \o here) = Len(below) + Len(here) /\ Len(below) \in Nat /\ Len(here) \in Nat
      /\ Len(names) \in Nat
  BY <1>3
<1>9. Taken \in 0..Len(names)
  BY <1>2, <1>4, <1>5, <1>8
<1>10. ASSUME ~AtTop PROVE Taken < Len(names) /\ AllNames[Len(names) - Taken] = Name
  <2>1. up + 1 \in 1..Len(here)
    BY <1>2, <1>6, <1>8, <1>10
  <2> DEFINE k == Len(below) + up + 1
  <2>2. k \in 1..Len(below \o here)
    BY <1>2, <1>8, <2>1
  <2>5. k \in 1..Len(names) /\ Taken = k - 1
    BY <1>2, <1>4, <1>5, <1>8, <2>1, <2>2
  <2>6. Taken < Len(names) /\ Len(names) - k + 1 = Len(names) - Taken
    <3> HIDE DEF k
    <3> QED
      BY <1>8, <1>9, <2>5
  <2>3. (below \o here)[k] = here[up + 1]
    <3>1. \A s, t \in Seq(Names) : \A i \in 1..Len(t) : (s \o t)[Len(s) + i] = t[i]
      OBVIOUS
    <3>2. (below \o here)[Len(below) + (up + 1)] = here[up + 1]
      BY <1>3, <2>1, <3>1
    <3>3. k = Len(below) + (up + 1)
      BY <1>2, <1>8
    <3> HIDE DEF k
    <3> QED
      BY <3>2, <3>3
  <2> HIDE DEF k
  <2>4. AllNames[Len(names) - k + 1] = here[up + 1]
    BY <1>1, <1>4, <2>2, <2>3, <2>5 DEF names
  <2> QED
    BY <1>7, <2>4, <2>6
<1>11. ASSUME AtTop, mnt = n PROVE Taken = Len(names)
  BY <1>3, <1>5, <1>6, <1>8, <1>11 DEF names
<1> QED
  BY <1>1, <1>3, <1>8, <1>9, <1>10, <1>11 DEF names, n, here, below

\* The text made so far is a text.
LEMMA MadeIs ==
  ASSUME Size \in Nat, offset \in 1..Size,
         data \in [0..(Size - 1) -> Chars \union {Slash, Nul}]
  PROVE  Made \in Seq(Chars \union {Slash, Nul}) /\ Len(Made) = Size - offset
<1>1. Size - offset \in Nat
  OBVIOUS
<1>2. ASSUME NEW i \in 1..(Size - offset), i # 1
      PROVE  data[offset + i - 2] \in Chars \union {Slash, Nul}
  <2>1. offset + i - 2 \in 0..(Size - 1)
    BY <1>2
  <2> QED
    BY <2>1
<1>3. Made \in [1..(Size - offset) -> Chars \union {Slash, Nul}]
  BY <1>2 DEF Made
<1> QED
  BY <1>1, <1>3, SeqDef

\* A step that leaves the buffer and what was passed leaves the text.
LEMMA TextKept ==
  ASSUME TextOK, phase = "walk", phase' = phase, target' = target, data' = data,
         offset' = offset, Taken' = Taken
  PROVE  TextOK'
<1>1. AllNames' = AllNames /\ TextOf' = TextOf /\ Whole' = Whole
      /\ (ShortNames' <=> ShortNames)
  BY SameTarget
<1>2. Made' = Made
  BY DEF Made
<1> QED
  BY <1>1, <1>2 DEF TextOK

\* The end of a text without a terminator has none.
LEMMA EndsClean ==
  ASSUME NEW s \in Text, NEW w \in Text, NEW t \in Seq(Chars \union {Slash, Nul}),
         w = s \o t
  PROVE  t \in Text /\ \A i \in 1..Len(t) : t[i] # Nul
<1>1. ASSUME NEW i \in 1..Len(t) PROVE t[i] \in Chars \union {Slash}
  <2>1. \A a, b \in Seq(Chars \union {Slash, Nul}) :
          /\ Len(a \o b) = Len(a) + Len(b)
          /\ \A j \in 1..Len(b) : (a \o b)[Len(a) + j] = b[j]
    OBVIOUS
  <2>2. s \in Seq(Chars \union {Slash, Nul}) /\ Len(s) \in Nat /\ Len(t) \in Nat
    BY DEF Text
  <2>3. t[i] = w[Len(s) + i] /\ Len(w) = Len(s) + Len(t)
    BY <2>1, <2>2
  <2>4. Len(s) + i \in 1..Len(w)
    BY <2>2, <2>3
  <2>5. \A j \in 1..Len(w) : w[j] \in Chars \union {Slash}
    BY DEF Text
  <2> QED
    BY <2>3, <2>4, <2>5
<1>2. Len(t) \in Nat /\ t \in [1..Len(t) -> Chars \union {Slash}]
  BY <1>1
<1>3. t \in Text
  BY <1>2, SeqDef DEF Text
<1> QED
  BY <1>1, <1>3, CharsAssumption

\* A name put before the text, with its slash.
LEMMA MadeLonger ==
  ASSUME TypeOK, NameLen = Len(Name) + 1, Len(Name) \in Nat \ {0},
         Name \in [1..Len(Name) -> Chars],
         Size \in Nat, offset \in 1..Size, offset - NameLen \in 1..Size,
         data' = WithName, offset' = offset - NameLen
  PROVE  Made' = (<<Slash>> \o Name) \o Made
<1> DEFINE len == Len(Name)
           part == <<Slash>> \o Name
           cs == Chars \union {Slash, Nul}
           m == Size - offset
<1>1. data \in [0..(Size - 1) -> cs]
  BY DEF TypeOK
<1>2. Made \in Seq(cs) /\ Len(Made) = m
  BY <1>1, MadeIs
<1>3. Name \in Seq(cs)
  <2>1. Name \in [1..len -> cs] /\ len \in Nat
    OBVIOUS
  <2> QED
    BY <2>1, SeqDef
<1>4. part \in Seq(cs) /\ Len(part) = len + 1 /\ part[1] = Slash
      /\ \A i \in 2..(len + 1) : part[i] = Name[i - 1]
  <2>1. \A s \in Seq(cs) : /\ <<Slash>> \o s \in Seq(cs) /\ Len(<<Slash>> \o s) = Len(s) + 1
                           /\ (<<Slash>> \o s)[1] = Slash
                           /\ \A i \in 2..(Len(s) + 1) : (<<Slash>> \o s)[i] = s[i - 1]
    OBVIOUS
  <2> QED
    BY <1>3, <2>1
<1> HIDE DEF part
<1>5. Made' = [i \in 1..(m + len + 1) |->
                 IF i = 1 THEN Slash ELSE data'[(offset - (len + 1)) + i - 2]]
  <2>1. Size - offset' = m + len + 1
    OBVIOUS
  <2> QED
    BY <2>1 DEF Made
<1>6. ASSUME NEW i \in 1..(m + len + 1)
      PROVE  Made'[i] = IF i <= len + 1 THEN part[i] ELSE Made[i - (len + 1)]
  <2> DEFINE j == (offset - (len + 1)) + i - 2
  <2>1. Made'[i] = IF i = 1 THEN Slash ELSE data'[j]
    BY <1>5
  <2>2. CASE i = 1
    BY <1>4, <2>1, <2>2
  <2>3. CASE i \in 2..(len + 1)
    <3>1. j \in (offset - NameLen)..(offset - 2) /\ j # offset - 1 /\ j \in 0..(Size - 1)
          /\ j - (offset - NameLen) + 1 = i - 1
      BY <2>3
    <3> HIDE DEF j
    <3>2. data'[j] = Name[j - (offset - NameLen) + 1]
      BY <1>1, <3>1 DEF WithName
    <3> QED
      BY <1>4, <2>1, <2>3, <3>1, <3>2, SMTT(60)
  <2>4. CASE i = len + 2
    <3>1. j = offset - 1 /\ j < Size - 1 /\ j \in 0..(Size - 1) /\ i - (len + 1) = 1 /\ m >= 1
      BY <2>4
    <3> HIDE DEF j
    <3>2. data'[j] = Slash
      BY <1>1, <3>1, SMTT(60) DEF WithName
    <3>3. Made[1] = Slash
      BY <3>1 DEF Made
    <3> QED
      BY <2>1, <2>4, <3>1, <3>2, <3>3
  <2>5. CASE i > len + 2
    <3>1. j >= offset /\ j \in 0..(Size - 1) /\ j \notin (offset - NameLen)..(offset - 2)
          /\ i - (len + 1) \in 1..m /\ i - (len + 1) # 1
          /\ offset + (i - (len + 1)) - 2 = j
      BY <2>5
    <3> HIDE DEF j
    <3>2. data'[j] = data[j]
      BY <1>1, <3>1, SMTT(60) DEF WithName
    <3>3. Made[i - (len + 1)] = data[j]
      BY <3>1 DEF Made
    <3> QED
      BY <2>1, <2>5, <3>2, <3>3
  <2> QED
    BY <2>2, <2>3, <2>4, <2>5
<1>7. DOMAIN Made' = 1..(m + len + 1)
  BY <1>5
<1>8. /\ part \o Made \in Seq(cs) /\ Len(part \o Made) = (len + 1) + m
      /\ \A i \in 1..((len + 1) + m) :
           (part \o Made)[i] = IF i <= len + 1 THEN part[i] ELSE Made[i - (len + 1)]
  <2>1. \A s, t \in Seq(cs) :
          /\ s \o t \in Seq(cs) /\ Len(s \o t) = Len(s) + Len(t)
          /\ \A i \in 1..(Len(s) + Len(t)) :
               (s \o t)[i] = IF i <= Len(s) THEN s[i] ELSE t[i - Len(s)]
    OBVIOUS
  <2>2. /\ part \o Made \in Seq(cs) /\ Len(part \o Made) = Len(part) + Len(Made)
        /\ \A i \in 1..(Len(part) + Len(Made)) :
             (part \o Made)[i] = IF i <= Len(part) THEN part[i] ELSE Made[i - Len(part)]
    <3> HIDE DEF cs
    <3> QED
      BY <1>2, <1>4, <2>1
  <2>3. Len(part) = len + 1 /\ Len(Made) = m
    BY <1>2, <1>4
  <2> HIDE DEF m, len, cs
  <2> QED
    BY <2>2, <2>3
<1> DEFINE all == part \o Made made == Made'
<1>9. all \in [1..(m + len + 1) -> cs]
  <2>1. all \in Seq(cs) /\ Len(all) = m + len + 1
    BY <1>8
  <2> HIDE DEF all
  <2> QED
    BY <2>1
<1>10. made = [i \in 1..(m + len + 1) |-> made[i]]
  BY <1>5
<1>11. ASSUME NEW i \in 1..(m + len + 1) PROVE made[i] = all[i]
  <2>1. i \in 1..((len + 1) + m)
    OBVIOUS
  <2> HIDE DEF m, len
  <2> QED
    BY <1>6, <1>8, <2>1
<1> HIDE DEF all, made, m
<1>12. made = all
  BY <1>9, <1>10, <1>11
<1> QED
  BY <1>12 DEF all, made, part

\* At the start nothing is made and nothing taken.
LEMMA InitWalk == Init => PInv
<1> SUFFICES ASSUME Init PROVE PInv
  OBVIOUS
<1> DEFINE n == Len(AllNames)
<1>1. RoomLeft
  BY InitRoom
<1>2. /\ target \in Targets /\ target.isDir \in BOOLEAN
      /\ mnt = 1 /\ parent = 0 /\ up = 0 /\ steps = 0 /\ phase = "walk"
      /\ offset = Size - (IF target.isDir THEN 1 ELSE 0)
      /\ data = [i \in 0..(Size - 1) |-> Nul]
  BY TargetsAssumption DEF Init
<1>3. Size \in Nat /\ Size >= 1
  <2>1. MaxDentries * (NameSize - 1) \in Nat
    BY BufferAssumption
  <2> QED
    BY <2>1, BufferAssumption
<1>4. Taken = 0
  <2>1. NamesOf[0] = <<>>
    BY <1>2, NamesIs DEF PutTogether
  <2> QED
    BY <1>2, <2>1 DEF Taken
<1>5. WalkOK
  BY <1>2, <1>4 DEF WalkOK
<1>6. Made = IF target.isDir THEN <<Slash>> ELSE <<>>
  <2>1. CASE target.isDir
    BY <1>2, <1>3, <2>1 DEF Made
  <2>2. CASE ~target.isDir
    BY <1>2, <1>3, <2>2 DEF Made
  <2> QED
    BY <2>1, <2>2
<1>7. n \in Nat /\ n - Taken = n
  BY <1>2, <1>4, NamesIs
<1>8. Whole = TextOf[n - Taken] \o Made
  BY <1>6, <1>7 DEF Whole
<1>9. TextOK
  BY <1>2, <1>3, <1>8 DEF TextOK
<1> QED
  BY <1>1, <1>2, <1>5, <1>9 DEF PInv, EndOK

\* At a mount point the same names are above the walk as at the root below it.
LEMMA CrossMountWalk == PInv /\ CrossMount => PInv'
<1> SUFFICES ASSUME PInv, CrossMount PROVE PInv'
  OBVIOUS
<1> DEFINE l == Len(target.mounts)
<1>1. RoomLeft' /\ RoomLeft
  BY CrossMountRoom DEF PInv
<1>2. /\ TypeOK /\ WalkOK /\ TextOK /\ phase = "walk" /\ AtTop /\ mnt # parent
      /\ target' = target /\ data' = data /\ offset' = offset /\ phase' = phase
      /\ mnt' = ParentMount(mnt) /\ parent' = ParentMount(ParentMount(mnt))
      /\ up' = IF mnt = l THEN up ELSE 0
      /\ steps' = steps + 1
  BY <1>1 DEF PInv, RoomLeft, CrossMount, AtMountRoot
<1>3. l \in Nat \ {0} /\ mnt \in 1..l /\ steps \in Nat /\ up \in Nat
  <2>1. l \in Nat \ {0} /\ target.mounts \in [1..l -> Seq(Names)]
    BY <1>2, NamesIs DEF TypeOK
  <2>2. mnt \in 1..l /\ steps \in Nat
    BY <1>2 DEF TypeOK
  <2>3. Len(target.mounts[mnt]) \in Nat
    BY <2>1, <2>2
  <2> QED
    BY <1>2, <2>1, <2>2, <2>3 DEF TypeOK
<1>4. /\ Taken \in Nat
      /\ Len(NamesOf[mnt]) = Len(NamesOf[mnt - 1]) + Len(target.mounts[mnt])
      /\ Len(NamesOf[mnt]) \in Nat
  <2>1. /\ Taken \in 0..Len(AllNames)
        /\ Len(NamesOf[mnt]) = Len(NamesOf[mnt - 1]) + Len(target.mounts[mnt])
    BY <1>2, Position
  <2>2. NamesOf \in [0..l -> Seq(Names)]
    BY <1>2, NamesIs DEF TypeOK
  <2>3. mnt \in 0..l
    BY <1>3
  <2>4. NamesOf[mnt] \in Seq(Names)
    BY <2>2, <2>3
  <2>5. Len(NamesOf[mnt]) \in Nat
    BY <2>4
  <2>6. Taken \in Nat
    BY <1>2, <2>1, NamesIs DEF TypeOK
  <2> QED
    BY <2>1, <2>5, <2>6
<1>5. NamesOf' = NamesOf /\ AllNames' = AllNames /\ TextOf' = TextOf /\ Whole' = Whole
      /\ (ShortNames' <=> ShortNames) /\ l' = l
  BY <1>2, SameTarget
<1> HIDE DEF l
<1>6. ParentMount(mnt) = Min2(mnt + 1, l)
  BY DEF ParentMount, l
<1>7. CASE mnt # l
  <2>1. mnt' = mnt + 1 /\ parent' = Min2(mnt + 2, l) /\ up' = 0 /\ l >= 2
    BY <1>2, <1>3, <1>6, <1>7 DEF ParentMount, Min2, l
  <2>2. Taken' = Taken
    <3>1. Taken' = Len(NamesOf[mnt]) + 0
      BY <1>3, <1>5, <2>1 DEF Taken
    <3>2. Len(target.mounts[mnt]) = up
      BY <1>2 DEF AtTop
    <3>3. Len(NamesOf[mnt]) = Len(NamesOf[mnt - 1]) + up
      BY <1>4, <3>2
    <3>4. Taken = Len(NamesOf[mnt - 1]) + up
      BY DEF Taken
    <3>5. Taken' = Len(NamesOf[mnt])
      BY <1>4, <3>1
    <3> QED
      BY <3>3, <3>4, <3>5
  <2>3. parent # 1 /\ parent' # 1
    BY <1>2, <1>3, <2>1 DEF WalkOK, Min2, l
  <2>4. parent' = ParentMount(mnt)'
    BY <1>3, <1>5, <2>1 DEF ParentMount, Min2, l
  <2>5. steps' = Taken' + mnt' - 1 + 0
    <3>1. steps = Taken + mnt - 1 + 0
      BY <1>2, <2>3 DEF WalkOK
    <3> QED
      BY <1>2, <1>3, <1>4, <2>1, <2>2, <3>1
  <2> QED
    BY <2>2, <2>3, <2>4, <2>5, <1>1, <1>2, <1>5, TextKept DEF PInv, WalkOK, EndOK
<1>8. CASE mnt = l
  <2>1. mnt = 1 /\ l = 1 /\ parent = 0
    BY <1>2, <1>3, <1>8 DEF WalkOK, ParentMount, Min2, l
  <2>2. mnt' = 1 /\ parent' = 1 /\ up' = up
    BY <1>2, <1>6, <1>8, <2>1 DEF ParentMount, Min2, l
  <2>3. Taken' = Taken
    BY <1>5, <2>1, <2>2 DEF Taken
  <2>4. AtTop'
    BY <1>2, <2>1, <2>2 DEF AtTop
  <2>5. parent' = ParentMount(mnt)'
    BY <1>5, <2>1, <2>2 DEF ParentMount, Min2, l
  <2>6. steps' = Taken' + mnt' - 1 + 1
    BY <1>2, <1>4, <2>1, <2>2, <2>3 DEF WalkOK
  <2>7. WalkOK'
    BY <1>5, <2>1, <2>2, <2>4, <2>5, <2>6 DEF WalkOK, l
  <2> QED
    BY <2>3, <2>7, <1>1, <1>2, <1>5, TextKept DEF PInv, EndOK
<1> QED
  BY <1>7, <1>8

\* The walk comes by the next name.
LEMMA TakeNameWalk == PInv /\ TakeName => PInv'
<1> SUFFICES ASSUME PInv, TakeName PROVE PInv'
  OBVIOUS
<1> DEFINE n == Len(AllNames) k == n - Taken len == Len(Name)
<1>1. RoomLeft' /\ RoomLeft
  BY TakeNameRoom DEF PInv
<1>2. /\ TypeOK /\ WalkOK /\ TextOK /\ phase = "walk" /\ ~AtTop
      /\ target' = target /\ mnt' = mnt /\ parent' = parent
      /\ up' = up + 1 /\ steps' = steps + 1
  BY <1>1 DEF PInv, RoomLeft, TakeName
<1>3. phase' = "walk" /\ ~TooLong /\ data' = WithName /\ offset' = offset - NameLen
  BY <1>1 DEF RoomLeft, TakeName
<1>4. /\ n \in Nat /\ Taken \in 0..n /\ Taken < n /\ k \in 1..n /\ AllNames[k] = Name
      /\ mnt \in Nat /\ up \in Nat /\ Len(NamesOf[mnt - 1]) \in Nat
  <2>1. n \in Nat /\ Len(target.mounts) \in Nat
        /\ NamesOf \in [0..Len(target.mounts) -> Seq(Names)]
    BY <1>2, NamesIs DEF TypeOK
  <2>2. Taken \in 0..n /\ Taken < n /\ AllNames[k] = Name
    BY <1>2, Position
  <2>3. mnt \in Nat /\ mnt - 1 \in 0..Len(target.mounts)
    BY <1>2, <2>1 DEF TypeOK
  <2>4. Len(NamesOf[mnt - 1]) \in Nat
    BY <2>1, <2>3
  <2>5. up \in Nat
    BY <1>2, NameFits DEF TypeOK
  <2> QED
    BY <2>1, <2>2, <2>3, <2>4, <2>5
<1>5. NamesOf' = NamesOf /\ AllNames' = AllNames /\ TextOf' = TextOf /\ Whole' = Whole
      /\ (ShortNames' <=> ShortNames)
  BY <1>2, SameTarget
<1>6. Taken' = Taken + 1
  <2>1. Taken = Len(NamesOf[mnt - 1]) + up
    BY DEF Taken
  <2>2. Taken' = Len(NamesOf[mnt - 1]) + (up + 1)
    BY <1>2, <1>5 DEF Taken
  <2> DEFINE below == Len(NamesOf[mnt - 1])
  <2>3. below \in Nat /\ up \in Nat
    BY <1>4
  <2>4. Taken = below + up /\ Taken' = below + (up + 1)
    BY <2>1, <2>2
  <2> HIDE DEF below
  <2>5. below + (up + 1) = (below + up) + 1
    BY <2>3
  <2> QED
    BY <2>4, <2>5
<1>7. WalkOK'
  <2>1. parent # 1
    BY <1>2 DEF WalkOK
  <2>2. steps' = Taken' + mnt' - 1 + 0
    BY <1>2, <1>4, <1>6, <2>1 DEF WalkOK
  <2>3. ParentMount(mnt)' = ParentMount(mnt)
    BY <1>2 DEF ParentMount
  <2> QED
    BY <1>2, <2>1, <2>2, <2>3 DEF WalkOK
<1>8. /\ len \in 1..(NameSize - 1) /\ Name \in [1..len -> Chars]
      /\ NameLen \in 0..(len + 1)
      /\ Size \in Nat /\ offset \in 1..Size /\ offset - NameLen \in 1..Size
  <2>1. len \in 1..(NameSize - 1) /\ Name \in [1..len -> Chars] /\ NameLen \in 0..(len + 1)
    BY <1>2, NameFits
  <2>2. \A s \in 0..MaxDentries : (MaxDentries - s) * (NameSize - 1) \in Nat
    BY BufferAssumption
  <2>3. offset >= 1 /\ offset' >= 1 /\ offset \in 0..Size /\ offset' \in 0..Size
    BY <1>1, <1>2, <1>3, <2>2 DEF RoomLeft, TypeOK
  <2> QED
    BY <1>3, <2>1, <2>3, BufferAssumption
<1>9. data'[Size - 1] = Nul
  <2>1. DOMAIN data = 0..(Size - 1) /\ data[Size - 1] = Nul
    BY <1>2 DEF TypeOK, TextOK
  <2> QED
    BY <1>3, <1>8, <2>1 DEF WithName
<1>10. ASSUME ShortNames PROVE Whole' = TextOf'[n' - Taken'] \o Made'
  <2>1. len < NameSize - 1
    BY <1>4, <1>10, NamesIs DEF ShortNames, TypeOK
  <2>2. NameLen = len + 1
    BY <1>8, <2>1, BufferAssumption DEF NameLen
  <2>3. Made' = (<<Slash>> \o Name) \o Made
    BY <1>2, <1>3, <1>8, <2>2, MadeLonger
  <2>4. TextOf[k] = TextOf[k - 1] \o (<<Slash>> \o Name)
    BY <1>2, <1>4, TextIs DEF PutTogether, TypeOK
  <2>5. Whole = TextOf[k] \o Made
    BY <1>2, <1>10 DEF TextOK
  <2> DEFINE cs == Chars \union {Slash, Nul} part == <<Slash>> \o Name
  <2>6. TextOf[k - 1] \in Seq(cs) /\ part \in Seq(cs) /\ Made \in Seq(cs)
    <3>1. k - 1 \in 0..n /\ TextOf \in [0..n -> Text]
      BY <1>2, <1>4, TextIs, SMTT(60) DEF TypeOK
    <3>2. TextOf[k - 1] \in Text
      BY <3>1
    <3>3. \A t \in Text : t \in Seq(cs)
      BY DEF Text
    <3>4. Name \in [1..len -> cs] /\ len \in Nat
      BY <1>8
    <3>5. Name \in Seq(cs)
      BY <3>4, SeqDef
    <3>6. \A t \in Seq(cs) : <<Slash>> \o t \in Seq(cs)
      OBVIOUS
    <3>7. Made \in Seq(cs)
      BY <1>2, <1>8, MadeIs DEF TypeOK
    <3> QED
      BY <3>2, <3>3, <3>5, <3>6, <3>7
  <2>7. \A s, t, u \in Seq(cs) : (s \o t) \o u = s \o (t \o u)
    OBVIOUS
  <2> HIDE DEF cs, part
  <2>8. (TextOf[k - 1] \o part) \o Made = TextOf[k - 1] \o (part \o Made)
    BY <2>6, <2>7
  <2>9. n' - Taken' = k - 1
    BY <1>4, <1>5, <1>6
  <2>10. Whole' = TextOf[k - 1] \o Made'
    BY <1>5, <2>3, <2>4, <2>5, <2>8 DEF part
  <2> QED
    BY <1>5, <2>9, <2>10
<1>11. TextOK'
  BY <1>3, <1>5, <1>9, <1>10 DEF TextOK
<1> QED
  BY <1>1, <1>3, <1>7, <1>11 DEF PInv, EndOK

\* The text that the callback finds is what the walk has made.
LEMMA FinishText ==
  ASSUME Size \in Nat, offset \in 1..Size, (offset - 1) % Size = offset - 1,
         data \in [0..(Size - 1) -> Chars \union {Slash, Nul}],
         data' = [data EXCEPT ![(offset - 1) % Size] = Slash, ![Size - 1] = Nul],
         offset' = offset - 1, \A i \in 1..(Size - offset) : Made[i] # Nul
  PROVE  PathText' = Made
<1>1. data'[Size - 1] = Nul
  OBVIOUS
<1>2. ASSUME NEW i \in (offset - 1)..(Size - 2)
      PROVE  data'[i] = Made[i - offset + 2] /\ data'[i] # Nul
  <2>1. i - offset + 2 \in 1..(Size - offset)
    OBVIOUS
  <2>2. data'[i] = IF i = offset - 1 THEN Slash ELSE data[i]
    OBVIOUS
  <2>3. Made[i - offset + 2] = IF i - offset + 2 = 1 THEN Slash
                               ELSE data[offset + (i - offset + 2) - 2]
    BY <2>1 DEF Made
  <2>4. offset + (i - offset + 2) - 2 = i /\ (i - offset + 2 = 1 <=> i = offset - 1)
    OBVIOUS
  <2>5. data'[i] = Made[i - offset + 2]
    BY <2>2, <2>3, <2>4
  <2> QED
    BY <2>1, <2>5
<1> DEFINE ends == {i \in offset'..(Size - 1) : data'[i] = Nul}
<1>3. ends = {Size - 1}
  BY <1>1, <1>2, SMTT(60)
<1>4. Min(ends) = Size - 1
  BY <1>3 DEF Min
<1> HIDE DEF ends
<1>5. PathText' = [i \in 1..(Size - 1 - offset') |-> data'[offset' + i - 1]]
  BY <1>4 DEF PathText, ends
<1>6. Size - 1 - offset' = Size - offset
  OBVIOUS
<1>7. ASSUME NEW i \in 1..(Size - offset) PROVE data'[offset' + i - 1] = Made[i]
  <2> DEFINE j == offset' + i - 1
  <2>1. j \in (offset - 1)..(Size - 2) /\ j - offset + 2 = i
    OBVIOUS
  <2> HIDE DEF j
  <2>2. data'[j] = Made[i]
    BY <1>2, <2>1
  <2> QED
    BY <2>2 DEF j
<1>8. Made = [i \in 1..(Size - offset) |-> Made[i]]
  BY DEF Made
<1> QED
  BY <1>5, <1>6, <1>7, <1>8

\* The slash before the text, which is there already, and the terminator.
LEMMA FinishWalk == PInv /\ Finish => PInv'
<1> SUFFICES ASSUME PInv, Finish PROVE PInv'
  OBVIOUS
<1> DEFINE n == Len(AllNames) l == Len(target.mounts)
<1>1. RoomLeft' /\ RoomLeft
  BY FinishRoom DEF PInv
<1>2. /\ TypeOK /\ WalkOK /\ TextOK /\ phase = "walk" /\ phase' = "done"
      /\ target' = target /\ mnt' = mnt /\ parent' = parent /\ up' = up /\ steps' = steps
      /\ data' = [data EXCEPT ![(offset - 1) % Size] = Slash, ![Size - 1] = Nul]
      /\ offset' = offset - 1
  BY <1>1 DEF PInv, RoomLeft, Finish
<1>3. NamesOf' = NamesOf /\ AllNames' = AllNames /\ TextOf' = TextOf /\ Whole' = Whole
      /\ (ShortNames' <=> ShortNames) /\ Needed' = Needed
  BY <1>2, SameTarget
<1>4. Taken' = Taken
  BY <1>2, <1>3 DEF Taken
<1>5. WalkOK'
  <2>1. ParentMount(mnt)' = ParentMount(mnt) /\ (AtTop' <=> AtTop)
    BY <1>2 DEF ParentMount, AtTop
  <2> QED
    BY <1>2, <1>4, <2>1 DEF WalkOK
<1>6. /\ n \in Nat /\ Taken \in 0..n /\ l \in Nat \ {0} /\ mnt \in 1..l
      /\ AtTop /\ mnt = l => Taken = n
      /\ steps \in 0..MaxDentries /\ MaxDentries \in Nat
  <2>1. n \in Nat /\ l \in Nat \ {0}
    BY <1>2, NamesIs DEF TypeOK
  <2>2. Taken \in 0..n /\ (AtTop /\ mnt = l => Taken = n)
    BY <1>2, Position
  <2> QED
    BY <1>2, <2>1, <2>2, BufferAssumption DEF TypeOK
<1>7. ASSUME ~target.detached, Needed <= MaxDentries PROVE Taken = n
  <2>1. Needed = n + l - 1
    BY DEF Needed
  <2>2. CASE AtTop /\ mnt = parent
    <3>1. mnt = Min2(mnt + 1, l)
      BY <1>2, <1>6, <2>2 DEF WalkOK, ParentMount
    <3>2. mnt = l
      BY <1>6, <3>1 DEF Min2
    <3> QED
      BY <1>6, <2>2, <3>2
  <2>3. CASE steps = MaxDentries /\ parent = 1
    <3>1. AtTop /\ l = 1
      BY <1>2, <2>3 DEF WalkOK
    <3> QED
      BY <1>6, <3>1
  <2>4. CASE steps = MaxDentries /\ parent # 1
    <3>1. steps = Taken + mnt - 1 + 0
      BY <1>2, <2>4 DEF WalkOK
    <3> HIDE DEF n, l
    <3> QED
      BY <1>6, <1>7, <2>1, <2>4, <3>1
  <2>5. steps = MaxDentries \/ (AtTop /\ mnt = parent)
    BY <1>7 DEF Finish, AtMountRoot
  <2> QED
    BY <2>2, <2>3, <2>4, <2>5
<1>8. EndOK'
  BY <1>2, <1>3, <1>4, <1>7 DEF EndOK
<1>9. Size \in Nat /\ offset \in 1..Size /\ (offset - 1) % Size = offset - 1
      /\ data \in [0..(Size - 1) -> Chars \union {Slash, Nul}]
  <2>1. (MaxDentries - steps) * (NameSize - 1) \in Nat
    BY <1>6, BufferAssumption
  <2>2. Size \in Nat /\ offset \in 1..Size
    BY <1>1, <1>2, <2>1, BufferAssumption DEF RoomLeft, TypeOK
  <2>3. (offset - 1) % Size = offset - 1
    BY <2>2
  <2> QED
    BY <1>2, <2>2, <2>3 DEF TypeOK
<1>10. data'[Size - 1] = Nul
  BY <1>2, <1>9
<1>11. ASSUME ShortNames PROVE Whole = TextOf[n - Taken] \o PathText'
  <2>1. Whole = TextOf[n - Taken] \o Made
    BY <1>2, <1>11 DEF TextOK
  <2>2. /\ TextOf[n - Taken] \in Text /\ Whole \in Text
    <3>1. n - Taken \in 0..n
      BY <1>6
    <3> QED
      BY <1>2, <3>1, TextIs DEF TypeOK
  <2>3. Made \in Seq(Chars \union {Slash, Nul}) /\ Len(Made) = Size - offset
    BY <1>9, MadeIs
  <2>4. \A i \in 1..(Size - offset) : Made[i] # Nul
    BY <2>1, <2>2, <2>3, EndsClean
  <2>5. PathText' = Made
    BY <1>2, <1>9, <2>4, FinishText
  <2> QED
    BY <2>1, <2>5
<1>12. TextOK'
  <2>1. offset' < Size
    BY <1>2, <1>9
  <2> QED
    BY <1>2, <1>3, <1>4, <1>10, <1>11, <2>1 DEF TextOK
<1> QED
  BY <1>1, <1>5, <1>8, <1>12 DEF PInv
-----------------------------------------------------------------------------
(* What is in a record *)

\* The text in the buffer of a walk that is done.
LEMMA PathTextIs ==
  ASSUME TypeOK, TextOK, phase = "done"
  PROVE  PathText \in Seq(Chars \union {Slash, Nul})
<1> DEFINE cs == Chars \union {Slash, Nul}
           ends == {i \in offset..(Size - 1) : data[i] = Nul}
           end == Min(ends)
<1>1. /\ Size \in Nat /\ offset \in 0..(Size - 1) /\ data \in [0..(Size - 1) -> cs]
      /\ data[Size - 1] = Nul
  BY BufferAssumption DEF TypeOK, TextOK
<1>2. ends \subseteq Nat /\ ends # {}
  BY <1>1
<1>3. end \in ends
  <2> HIDE DEF ends
  <2>1. \E x \in ends : \A y \in ends : x <= y
    BY <1>2, Least
  <2> QED
    BY <2>1 DEF Min
<1>4. end \in offset..(Size - 1)
  <2> HIDE DEF end
  <2> QED
    BY <1>3
<1>5. PathText = [i \in 1..(end - offset) |-> data[offset + i - 1]]
  BY DEF PathText
<1> HIDE DEF end, ends
<1>6. PathText \in [1..(end - offset) -> cs]
  <2>1. ASSUME NEW i \in 1..(end - offset) PROVE data[offset + i - 1] \in cs
    <3>1. offset + i - 1 \in 0..(Size - 1)
      BY <1>1, <1>4
    <3> QED
      BY <1>1, <3>1
  <2> QED
    BY <1>5, <2>1
<1>7. end - offset \in Nat
  BY <1>1, <1>4
<1> QED
  BY <1>6, <1>7, SeqDef

\* The text of a record and the whole text of the file.
LEMMA DoneText ==
  ASSUME PInv, phase = "done", ShortNames
  PROVE  /\ PathText \in Seq(Chars \union {Slash, Nul})
         /\ Taken \in 0..Len(AllNames) /\ Len(AllNames) \in Nat
         /\ TextOf[Len(AllNames) - Taken] \in Seq(Chars \union {Slash, Nul})
         /\ Whole = TextOf[Len(AllNames) - Taken] \o PathText
         /\ TextOf[0] = <<>>
         /\ AllNames = <<>> /\ ~target.isDir => Whole = <<>> /\ TrueText = <<Slash>>
         /\ AllNames # <<>> \/ target.isDir => TrueText = Whole
<1> DEFINE n == Len(AllNames) cs == Chars \union {Slash, Nul}
<1>1. TypeOK /\ TextOK /\ target \in Targets
  BY DEF PInv, RoomLeft, TypeOK
<1>2. PathText \in Seq(cs)
  BY <1>1, PathTextIs
<1>3. /\ TextOf \in [0..n -> Text] /\ PutTogether(TextOf, Parts, n)
      /\ FlattenSeq(Parts) = TextOf[n] /\ AllNames \in Seq(Names)
  BY <1>1, TextIs, NamesIs
<1>4. n \in Nat /\ Taken \in 0..n
  BY <1>1, <1>3, Position
<1>5. TextOf[n - Taken] \in Seq(cs)
  <2>1. n - Taken \in 0..n
    BY <1>4
  <2>2. \A t \in Text : t \in Seq(cs)
    BY DEF Text
  <2> QED
    BY <1>3, <2>1, <2>2
<1>6. Whole = TextOf[n - Taken] \o PathText
  BY <1>1 DEF TextOK
<1>7. TextOf[0] = <<>>
  BY <1>3 DEF PutTogether
<1>8. TrueText = TextOf[n] \o (IF target.isDir \/ AllNames = <<>> THEN <<Slash>> ELSE <<>>)
  BY <1>3 DEF TrueText, Parts
<1>9. ASSUME AllNames = <<>>, ~target.isDir PROVE Whole = <<>> /\ TrueText = <<Slash>>
  <2>1. n = 0
    BY <1>9
  <2>2. TextOf[n] = <<>>
    BY <1>7, <2>1
  <2> QED
    BY <1>8, <1>9, <2>2 DEF Whole
<1>10. ASSUME AllNames # <<>> \/ target.isDir PROVE TrueText = Whole
  BY <1>8, <1>10 DEF Whole
<1> QED
  BY <1>2, <1>4, <1>5, <1>6, <1>7, <1>9, <1>10

\* The invariant of read_path.
LEMMA WalkKept == Spec => []PInv
<1>1. PInv /\ [Next]_vars => PInv'
  <2> SUFFICES ASSUME PInv, [Next]_vars PROVE PInv'
    OBVIOUS
  <2>1. CASE UNCHANGED vars
    <3>1. /\ target' = target /\ mnt' = mnt /\ parent' = parent /\ up' = up
          /\ steps' = steps /\ offset' = offset /\ data' = data /\ phase' = phase
      BY <2>1 DEF vars
    <3>2. RoomLeft'
      BY <3>1 DEF PInv, RoomLeft, TypeOK
    <3>3. NamesOf' = NamesOf /\ AllNames' = AllNames /\ TextOf' = TextOf
          /\ Whole' = Whole /\ (ShortNames' <=> ShortNames) /\ Needed' = Needed
      BY <3>1, SameTarget
    <3>4. Taken' = Taken
      BY <3>1, <3>3 DEF Taken
    <3>5. Made' = Made /\ PathText' = PathText
      BY <3>1 DEF Made, PathText
    <3>6. (AtTop' <=> AtTop) /\ ParentMount(mnt)' = ParentMount(mnt)
      BY <3>1 DEF AtTop, ParentMount
    <3>7. WalkOK'
      BY <3>1, <3>4, <3>6 DEF PInv, WalkOK
    <3>8. TextOK'
      BY <3>1, <3>3, <3>4, <3>5 DEF PInv, TextOK
    <3>9. EndOK'
      BY <3>1, <3>3, <3>4 DEF PInv, EndOK
    <3> QED
      BY <3>2, <3>7, <3>8, <3>9 DEF PInv
  <2> QED
    BY <2>1, CrossMountWalk, TakeNameWalk, FinishWalk DEF Next
<1> QED
  BY <1>1, InitWalk, PTL DEF Spec

\* A file whose names are all shorter than the greatest length, and whose walk
\* takes no more iterations than the loop of read_path has, gets its true path
\* in the record, however its mounts lie above each other.
THEOREM PathsTrue == Spec => []PathRight
<1>1. PInv => PathRight
  <2> SUFFICES ASSUME PInv, phase = "done", ~target.detached, Needed <= MaxDentries,
                      AllNames = <<>> => target.isDir, ShortNames
               PROVE  PathText = TrueText
    BY DEF PathRight, ShortNames
  <2>1. Taken = Len(AllNames)
    BY DEF PInv, EndOK
  <2>2. Len(AllNames) - Taken = 0
    BY <2>1, DoneText
  <2>3. \A t \in Seq(Chars \union {Slash, Nul}) : <<>> \o t = t
    OBVIOUS
  <2>4. Whole = PathText
    BY <2>2, <2>3, DoneText
  <2> QED
    BY <2>4, DoneText
<1> QED
  BY <1>1, WalkKept, PTL

\* The text of a file that lies deeper is the end of its path: the loop of
\* read_path gives up components at the root and none in the middle.
THEOREM DeepPathsEnd == Spec => []DeepPathIsEnd
<1>1. PInv => DeepPathIsEnd
  <2> SUFFICES ASSUME PInv, phase = "done", ShortNames
               PROVE  IsSuffix(PathText, TrueText)
    BY DEF DeepPathIsEnd, ShortNames
  <2> DEFINE rest == TextOf[Len(AllNames) - Taken] cs == Chars \union {Slash, Nul}
  <2>1. PathText \in Seq(cs) /\ rest \in Seq(cs) /\ Whole = rest \o PathText
    BY DoneText
  <2> HIDE DEF rest
  <2>2. CASE AllNames # <<>> \/ target.isDir
    <3>1. TrueText = rest \o PathText
      BY <2>1, <2>2, DoneText
    <3> QED
      BY <2>1, <3>1, EndIsSuffix
  <2>3. CASE AllNames = <<>> /\ ~target.isDir
    <3>1. Whole = <<>> /\ TrueText = <<Slash>>
      BY <2>3, DoneText
    <3>2. \A s, t \in Seq(cs) : s \o t = <<>> => t = <<>>
      OBVIOUS
    <3>3. PathText = <<>>
      BY <2>1, <3>1, <3>2
    <3>4. <<Slash>> = <<Slash>> \o <<>> /\ <<Slash>> \in Seq(cs) /\ <<>> \in Seq(cs)
      OBVIOUS
    <3> QED
      BY <3>1, <3>3, <3>4, EndIsSuffix
  <2> QED
    BY <2>2, <2>3
<1> QED
  BY <1>1, WalkKept, PTL

-----------------------------------------------------------------------------
(* The text of a directory *)

\* A component put before the text of a directory makes the text of a directory.
LEMMA DirGrows ==
  ASSUME NEW C, NEW dir \in Seq(C), DirText(dir), NEW c \in Seq(C), NEW w \in Seq(C),
         w = (<<"/">> \o c) \o dir,
         c # <<>>, c # <<".">>, c # <<".", ".">>, \A i \in 1..Len(c) : c[i] # "/"
  PROVE  DirText(w)
<1>0. PICK m \in Nat, n \in Nat : m = Len(c) /\ n = Len(dir)
  OBVIOUS
<1>1. /\ n >= 1 /\ m >= 1 /\ dir[1] = "/" /\ dir[n] = "/"
      /\ c = [i \in 1..m |-> c[i]]
  BY <1>0 DEF DirText
<1>2. /\ Len(w) = 1 + m + n /\ w[1] = "/"
      /\ \A i \in 1..m : w[1 + i] = c[i]
      /\ \A i \in 1..n : w[1 + m + i] = dir[i]
  <2>1. PICK b \in Seq(C \cup {"/"}) : b = <<"/">> \o c
    <3>1. c \in Seq(C \cup {"/"})
      <4>1. \A i \in 1..Len(c) : c[i] \in C \cup {"/"}
        OBVIOUS
      <4> QED
        BY <4>1, <1>0, <1>1, SeqDef
    <3>2. \A s \in Seq(C \cup {"/"}) : <<"/">> \o s \in Seq(C \cup {"/"})
      OBVIOUS
    <3> QED
      BY <3>1, <3>2
  <2>2. Len(b) = 1 + m /\ b[1] = "/" /\ \A i \in 1..m : b[1 + i] = c[i]
    <3>1. \A s \in Seq(C) : /\ Len(<<"/">> \o s) = 1 + Len(s) /\ (<<"/">> \o s)[1] = "/"
                            /\ \A i \in 1..Len(s) : (<<"/">> \o s)[1 + i] = s[i]
      OBVIOUS
    <3> QED
      BY <1>0, <2>1, <3>1
  <2>3. dir \in Seq(C \cup {"/"})
    <3>1. \A i \in 1..Len(dir) : dir[i] \in C \cup {"/"}
      OBVIOUS
    <3> QED
      BY <3>1, <1>0, SeqDef
  <2>4. w = b \o dir
    BY <2>1
  <2>5. /\ Len(w) = Len(b) + Len(dir)
        /\ \A i \in 1..Len(b) : w[i] = b[i]
        /\ \A i \in 1..Len(dir) : w[Len(b) + i] = dir[i]
    <3>1. /\ Len(b \o dir) = Len(b) + Len(dir)
          /\ \A i \in 1..Len(b) : (b \o dir)[i] = b[i]
          /\ \A i \in 1..Len(dir) : (b \o dir)[Len(b) + i] = dir[i]
      BY <2>3, Concat
    <3> QED
      BY <2>4, <3>1, Zenon
  <2>6. 1 \in 1..(1 + m) /\ \A i \in 1..m : 1 + i \in 1..(1 + m)
    OBVIOUS
  <2> QED
    BY <1>0, <2>2, <2>5, <2>6
<1> SUFFICES ASSUME NEW k \in 1..(m + n), w[k] = "/"
             PROVE  /\ w[k + 1] # "/"
                    /\ ~(w[k + 1] = "." /\ w[k + 2] = "/")
                    /\ ~(w[k + 1] = "." /\ w[k + 2] = "." /\ w[k + 3] = "/")
  <2>1. w # <<>> /\ w[Len(w)] = "/"
    <3>1. Len(w) = 1 + m + n /\ n \in 1..n
      BY <1>1, <1>2
    <3>2. w[1 + m + n] = dir[n]
      BY <1>2, <3>1
    <3>3. w # <<>>
      BY <3>1
    <3> QED
      BY <1>1, <3>1, <3>2, <3>3
  <2>2. Len(w) - 1 = m + n
    BY <1>2
  <2> QED
    BY <1>2, <2>1, <2>2 DEF DirText
<1>3. \A i \in 2..(1 + m) : w[i] # "/"
  <2> SUFFICES ASSUME NEW i \in 2..(1 + m) PROVE w[i] # "/"
    OBVIOUS
  <2>1. i - 1 \in 1..m /\ 1 + (i - 1) = i
    OBVIOUS
  <2>2. w[1 + (i - 1)] = c[i - 1]
    BY <1>2, <2>1
  <2> QED
    BY <1>0, <2>1, <2>2
<1>4. CASE k = 1
  <2>1. w[2] # "/" /\ w[2] = c[1]
    <3>1. 2 \in 2..(1 + m) /\ 1 \in 1..m /\ 1 + 1 = 2
      BY <1>1
    <3> QED
      BY <1>2, <1>3, <3>1
  <2>2. ASSUME w[2] = ".", w[3] = "/" PROVE FALSE
    <3>1. 3 \notin 2..(1 + m)
      BY <1>3, <2>2
    <3>2. m = 1
      BY <1>1, <3>1
    <3>3. c = <<".">>
      <4>1. Len(c) = 1 /\ c[1] = "."
        BY <1>0, <2>1, <2>2, <3>2
      <4> QED
        BY <4>1
    <3> QED
      BY <3>3
  <2>3. ASSUME w[2] = ".", w[3] = ".", w[4] = "/" PROVE FALSE
    <3>1. 4 \notin 2..(1 + m)
      BY <1>3, <2>3
    <3>2. m = 1 \/ m = 2
      BY <1>1, <3>1, SMTT(60)
    <3>3. CASE m = 1
      <4>1. w[1 + m + 1] = dir[1] /\ 1 + m + 1 = 3
        BY <1>1, <1>2, <3>3
      <4> QED
        BY <1>1, <2>3, <4>1
    <3>4. CASE m = 2
      <4>1. 2 \in 1..m /\ 1 + 2 = 3
        BY <3>4
      <4>2. Len(c) = 2 /\ c[1] = "." /\ c[2] = "."
        BY <1>0, <1>2, <2>1, <2>3, <3>4, <4>1
      <4>3. c = <<".", ".">>
        BY <4>2
      <4> QED
        BY <4>3
    <3> QED
      BY <3>2, <3>3, <3>4
  <2>4. k + 1 = 2 /\ k + 2 = 3 /\ k + 3 = 4
    BY <1>4
  <2> QED
    BY <2>1, <2>2, <2>3, <2>4
<1>5. CASE k > 1
  <2>1. k \notin 2..(1 + m)
    BY <1>3
  <2>2. PICK j \in Int : j = k - (1 + m)
    OBVIOUS
  <2>3. j \in 1..(n - 1) /\ 1 + m + j = k /\ j \in 1..n
    BY <1>5, <2>1, <2>2
  <2>4. dir[j] = "/"
    BY <1>2, <2>3
  <2>5. /\ dir[j + 1] # "/"
        /\ ~(dir[j + 1] = "." /\ dir[j + 2] = "/")
        /\ ~(dir[j + 1] = "." /\ dir[j + 2] = "." /\ dir[j + 3] = "/")
    BY <1>0, <2>3, <2>4 DEF DirText
  <2>6. /\ j + 1 <= n => w[k + 1] = dir[j + 1]
        /\ j + 2 <= n => w[k + 2] = dir[j + 2]
        /\ j + 3 <= n => w[k + 3] = dir[j + 3]
    <3>1. \A i \in {1, 2, 3} : j + i <= n => w[k + i] = dir[j + i]
      <4> SUFFICES ASSUME NEW i \in {1, 2, 3}, j + i <= n PROVE w[k + i] = dir[j + i]
        OBVIOUS
      <4>1. j + i \in 1..n /\ 1 + m + (j + i) = k + i
        BY <2>3
      <4> QED
        BY <1>2, <4>1
    <3> QED
      BY <3>1
  <2>7. CASE j + 3 <= n
    <3>1. j + 1 <= n /\ j + 2 <= n
      BY <2>3, <2>7
    <3>2. w[k + 1] = dir[j + 1] /\ w[k + 2] = dir[j + 2] /\ w[k + 3] = dir[j + 3]
      BY <2>6, <2>7, <3>1, Zenon
    <3> QED
      BY <2>5, <3>2, Zenon
  <2>8. CASE j + 2 = n
    <3>1. j + 1 <= n
      BY <2>3, <2>8
    <3>2. w[k + 1] = dir[j + 1]
      BY <2>6, <3>1, Zenon
    <3>3. w[k + 1] # "." /\ w[k + 1] # "/"
      BY <1>1, <2>5, <2>8, <3>2, Zenon
    <3> QED
      BY <3>3, Zenon
  <2>9. CASE j + 1 = n
    BY <1>1, <2>5, <2>9
  <2>10. j + 3 <= n \/ j + 2 = n \/ j + 1 = n
    BY <2>3
  <2> QED
    BY <2>7, <2>8, <2>9, <2>10, Zenon
<1>6. k = 1 \/ k > 1
  OBVIOUS
<1> QED
  BY <1>4, <1>5, <1>6, Zenon

\* The text in the buffer is that of a directory at every step, if read_path is
\* told that the file is one.
DirOK ==
  target.isDir =>
    /\ phase = "walk" => offset < Size /\ Made \in Text /\ DirText(Made)
    /\ phase = "done" => PathText \in Text /\ DirText(PathText)

\* At the start the text is a slash.
LEMMA InitDir == Init => DirOK
<1> SUFFICES ASSUME Init, target.isDir PROVE offset < Size /\ Made \in Text /\ DirText(Made)
  BY DEF Init, DirOK
<1>1. Size \in Nat /\ Size >= 1 /\ offset = Size - 1 /\ Size - offset = 1
  <2>1. MaxDentries * (NameSize - 1) \in Nat
    BY BufferAssumption
  <2> QED
    BY <2>1, BufferAssumption DEF Init
<1>2. Made = <<"/">>
  <2>1. Made = [i \in 1..1 |-> Slash]
    BY <1>1 DEF Made
  <2> QED
    BY <2>1, PathsAssumption
<1>3. Len(<<"/">>) = 1 /\ <<"/">>[1] = "/" /\ <<"/">> # <<>> /\ 1..(1 - 1) = {}
  OBVIOUS
<1>4. DirText(<<"/">>)
  BY <1>3 DEF DirText
<1>5. <<"/">> \in Text
  BY PathsAssumption DEF Text
<1> QED
  BY <1>1, <1>2, <1>4, <1>5

\* Crossing a mount leaves the text.
LEMMA CrossMountDir == DirOK /\ CrossMount => DirOK'
<1> SUFFICES ASSUME DirOK, CrossMount PROVE DirOK'
  OBVIOUS
<1>1. /\ target' = target /\ offset' = offset /\ data' = data /\ phase' = phase
      /\ phase = "walk"
  BY DEF CrossMount
<1>2. Made' = Made
  BY <1>1 DEF Made
<1> QED
  BY <1>1, <1>2 DEF DirOK

\* A name is put before the text, with a slash.
LEMMA TakeNameDir == PInv /\ DirOK /\ TakeName => DirOK'
<1> SUFFICES ASSUME PInv, DirOK, TakeName, target.isDir PROVE DirOK'
  BY DEF DirOK, TakeName
<1> DEFINE len == Len(Name) cs == Chars \union {Slash}
<1>1. RoomLeft' /\ RoomLeft /\ TypeOK /\ phase = "walk" /\ ~AtTop /\ target' = target
  BY TakeNameRoom DEF PInv, RoomLeft, TakeName
<1>2. phase' = "walk" /\ ~TooLong /\ data' = WithName /\ offset' = offset - NameLen
  BY <1>1 DEF RoomLeft, TakeName
<1>3. offset < Size /\ Made \in Text /\ DirText(Made)
  BY <1>1 DEF DirOK
<1>4. /\ Name \in Names /\ len \in 1..(NameSize - 1) /\ Name = [i \in 1..len |-> Name[i]]
      /\ \A i \in 1..len : Name[i] \in Chars
      /\ NameLen \in 0..(len + 1) /\ (NameLen # 0 => NameLen = len + 1)
      /\ up + 1 \in 1..Len(target.mounts[mnt])
  BY <1>1, NameFits
<1>5. Size \in Nat /\ offset \in 1..Size /\ offset - NameLen \in 1..Size
  <2>1. \A s \in 0..MaxDentries : (MaxDentries - s) * (NameSize - 1) \in Nat
    BY BufferAssumption
  <2>2. offset >= 1 /\ offset' >= 1 /\ offset \in 0..Size /\ offset' \in 0..Size
    BY <1>1, <1>2, <2>1 DEF RoomLeft, TypeOK
  <2> QED
    BY <1>2, <2>2, BufferAssumption
<1>6. offset' < Size
  BY <1>2, <1>3, <1>4, <1>5
<1>7. CASE NameLen = 0
  <2>1. offset' = offset
    BY <1>2, <1>5, <1>7
  <2>2. DOMAIN data = 0..(Size - 1)
    BY <1>1 DEF TypeOK
  <2>3. ASSUME NEW i \in 1..(Size - offset), i # 1
        PROVE  data'[offset + i - 2] = data[offset + i - 2]
    <3> DEFINE j == offset + i - 2
    <3>1. j \in 0..(Size - 1) /\ j # offset - 1 /\ j \notin (offset - NameLen)..(offset - 2)
      BY <1>5, <1>7, <2>3
    <3> HIDE DEF j
    <3>2. data'[j] = data[j]
      BY <1>2, <2>2, <3>1 DEF WithName
    <3> QED
      BY <3>2 DEF j
  <2>4. Made' = Made
    BY <2>1, <2>3 DEF Made
  <2> QED
    BY <1>1, <1>2, <1>3, <1>6, <2>4 DEF DirOK, Text
<1>8. CASE NameLen # 0
  <2>1. NameLen = len + 1 /\ len \in Nat \ {0} /\ Name \in [1..len -> Chars]
    BY <1>4, <1>8, BufferAssumption
  <2>2. Made' = (<<Slash>> \o Name) \o Made
    BY <1>1, <1>2, <1>5, <2>1, MadeLonger
  <2>3. Name \in Seq(cs)
    <3>1. Name \in [1..len -> cs]
      BY <2>1
    <3> QED
      BY <2>1, <3>1, SeqDef
  <2>4. Name # <<>> /\ Name # <<".">> /\ Name # <<".", ".">>
    <3>1. Name # <<>>
      <4>1. Len(<<>>) = 0
        OBVIOUS
      <4> QED
        BY <2>1, <4>1
    <3>2. /\ target \in Targets /\ mnt \in DOMAIN target.mounts
          /\ up + 1 \in DOMAIN target.mounts[mnt]
      <4>1. target \in Targets /\ target.mounts \in Seq(Seq(Names))
            /\ mnt \in 1..Len(target.mounts)
        BY <1>1, TargetsAssumption DEF TypeOK
      <4>2. target.mounts[mnt] \in Seq(Names)
        BY <4>1
      <4> QED
        BY <1>4, <4>1, <4>2
    <3>3. Name \notin {<<".">>, <<".", ".">>}
      BY <3>2, PathsAssumption DEF Name
    <3> QED
      BY <3>1, <3>3
  <2>5. \A i \in 1..Len(Name) : Name[i] # "/"
    BY <1>4, PathsAssumption
  <2>6. PICK t \in Text : t = Made
    BY <1>3
  <2>7. PICK c \in Seq(cs) : c = Name
    BY <2>3
  <2>8. PICK w \in Seq(cs) : w = (<<"/">> \o c) \o t
    <3>1. <<"/">> \in Seq(cs)
      BY PathsAssumption
    <3>2. \A x, y, z \in Seq(cs) : (x \o y) \o z \in Seq(cs)
      OBVIOUS
    <3> QED
      BY <2>6, <3>1, <3>2 DEF Text
  <2>9. DirText(w)
    <3>1. t \in Seq(cs) /\ DirText(t)
      BY <1>3, <2>6 DEF Text
    <3>2. c # <<>> /\ c # <<".">> /\ c # <<".", ".">> /\ \A i \in 1..Len(c) : c[i] # "/"
      BY <2>4, <2>5, <2>7
    <3> HIDE DEF cs
    <3> QED
      BY <2>8, <3>1, <3>2, DirGrows
  <2>10. Made' = w
    BY <2>2, <2>6, <2>7, <2>8, PathsAssumption
  <2>11. w \in Text
    BY DEF Text
  <2> QED
    BY <1>1, <1>2, <1>6, <2>9, <2>10, <2>11 DEF DirOK, Text
<1> QED
  BY <1>7, <1>8

\* The slash at the front and the terminator complete the text.
LEMMA FinishDir == PInv /\ DirOK /\ Finish => DirOK'
<1> SUFFICES ASSUME PInv, DirOK, Finish, target.isDir PROVE DirOK'
  BY DEF DirOK, Finish
<1>1. /\ RoomLeft /\ TypeOK /\ phase = "walk" /\ phase' = "done" /\ target' = target
      /\ data' = [data EXCEPT ![(offset - 1) % Size] = Slash, ![Size - 1] = Nul]
      /\ offset' = offset - 1
  BY DEF PInv, RoomLeft, Finish
<1>2. offset < Size /\ Made \in Text /\ DirText(Made)
  BY <1>1 DEF DirOK
<1>3. Size \in Nat /\ offset \in 1..Size /\ (offset - 1) % Size = offset - 1
      /\ data \in [0..(Size - 1) -> Chars \union {Slash, Nul}]
  <2>1. (MaxDentries - steps) * (NameSize - 1) \in Nat
    BY <1>1, BufferAssumption DEF TypeOK
  <2>2. Size \in Nat /\ offset \in 1..Size
    BY <1>1, <2>1, BufferAssumption DEF RoomLeft, TypeOK
  <2>3. (offset - 1) % Size = offset - 1
    BY <2>2
  <2> QED
    BY <1>1, <2>2, <2>3 DEF TypeOK
<1>4. ASSUME NEW i \in 1..(Size - offset) PROVE Made[i] # Nul
  <2>1. Len(Made) = Size - offset
    BY <1>3, MadeIs
  <2>2. Made[i] \in Chars \union {Slash}
    BY <1>2, <2>1 DEF Text
  <2> QED
    BY <2>2, CharsAssumption
<1>5. PathText' = Made
  BY <1>1, <1>3, <1>4, FinishText
<1> QED
  BY <1>1, <1>2, <1>5 DEF DirOK, Text

\* The text of a directory is right at every step.
LEMMA DirKept == Spec => [](PInv /\ DirOK)
<1>1. PInv /\ DirOK /\ [Next]_vars => DirOK'
  <2> SUFFICES ASSUME PInv, DirOK, [Next]_vars PROVE DirOK'
    OBVIOUS
  <2>1. CASE UNCHANGED vars
    <3>1. target' = target /\ offset' = offset /\ data' = data /\ phase' = phase
      BY <2>1 DEF vars
    <3>2. Made' = Made /\ PathText' = PathText
      BY <3>1 DEF Made, PathText
    <3> QED
      BY <3>1, <3>2 DEF DirOK, Text
  <2> QED
    BY <2>1, CrossMountDir, TakeNameDir, FinishDir DEF Next
<1> QED
  BY <1>1, InitDir, WalkKept, PTL DEF Spec

-----------------------------------------------------------------------------
(* fprint_relative_filename *)

\* The first component ends with its slash or with the text.
LEMMA FirstRangeIs ==
  ASSUME NEW C, NEW s \in Seq(C), s # <<>>
  PROVE  /\ FirstRange(s) \in 1..Len(s)
         /\ FirstRange(s) = Len(s) \/ s[FirstRange(s)] = "/"
         /\ \A k \in 1..(FirstRange(s) - 1) : s[k] # "/"
<1> DEFINE T == {n \in 1..Len(s) : n = Len(s) \/ s[n] = "/"}
<1>1. Len(s) \in Nat /\ Len(s) \in T
  <2>1. Len(s) \in Nat /\ Len(s) >= 1
    BY EmptySeq
  <2> QED
    BY <2>1
<1>2. T \subseteq Nat
  OBVIOUS
<1> HIDE DEF T
<1>3. PICK n \in T : \A k \in T : n <= k
  BY <1>1, <1>2, Least
<1>4. n \in 1..Len(s) /\ (n = Len(s) \/ s[n] = "/")
  BY <1>3 DEF T
<1>5. ASSUME NEW k \in 1..(n - 1) PROVE s[k] # "/"
  <2>1. k \in 1..Len(s) /\ ~(n <= k)
    BY <1>1, <1>4
  <2> QED
    BY <1>3, <2>1 DEF T
<1> QED
  BY <1>4, <1>5 DEF FirstRange

Reading(C) == [s : Seq(C), beyond : Seq(C), list : Seq(Seq(C)), parents : Nat]

\* The two parts of a text are texts.
LEMMA Dropped ==
  ASSUME NEW C, NEW s \in Seq(C), NEW n \in 0..Len(s)
  PROVE  Drop(s, n) \in Seq(C) /\ SubSeq(s, 1, n) \in Seq(C)
<1>1. Len(s) \in n..Len(s)
  OBVIOUS
<1>2. SubSeq(s, n + 1, Len(s)) \in Seq(C)
  BY <1>1, Piece
<1>3. SubSeq(s, 1, n) \in Seq(C)
  OBVIOUS
<1> QED
  BY <1>2, <1>3 DEF Drop

\* The three kinds of component at the front of the rest of a name.
DotNext(s) == Starts(s, <<".", "/">>)
UpNext(s) == Starts(s, <<".", ".">>)

\* An iteration, by what is at the front.
LEMMA NextRangeIs ==
  ASSUME NEW C, NEW r \in Reading(C), r.s # <<>>
  PROVE  /\ DotNext(r.s) =>
              NextRange(r) = [s |-> Drop(r.s, 2), beyond |-> r.beyond, list |-> r.list,
                              parents |-> r.parents]
         /\ UpNext(r.s) /\ Len(r.s) >= 3 =>
              NextRange(r) = [s |-> Drop(r.s, 3), beyond |-> r.beyond,
                              list |-> IF r.list = <<>> THEN <<>> ELSE Front(r.list),
                              parents |-> IF r.list = <<>> THEN r.parents + 1 ELSE r.parents]
         /\ UpNext(r.s) /\ Len(r.s) < 3 =>
              NextRange(r) = [s |-> r.beyond, beyond |-> <<>>,
                              list |-> IF r.list = <<>> THEN <<>> ELSE Front(r.list),
                              parents |-> IF r.list = <<>> THEN r.parents + 1 ELSE r.parents]
         /\ ~DotNext(r.s) /\ ~UpNext(r.s) =>
              NextRange(r) = [s |-> Drop(r.s, FirstRange(r.s)), beyond |-> r.beyond,
                              list |-> Append(r.list, SubSeq(r.s, 1, FirstRange(r.s))),
                              parents |-> r.parents]
<1>1. r = [s |-> r.s, beyond |-> r.beyond, list |-> r.list, parents |-> r.parents]
  BY DEF Reading
<1>2. ~(DotNext(r.s) /\ UpNext(r.s))
  BY BeginsWithTwo DEF DotNext, UpNext, Starts, Reading
<1>3. Len(r.s) \in Nat
  BY DEF Reading
<1>4. ASSUME DotNext(r.s)
      PROVE  NextRange(r) = [r EXCEPT !.s = Drop(@, 2)]
  <2>1. DotNext(r.s) /\ ~UpNext(r.s)
    BY <1>2, <1>4
  <2> QED
    BY <2>1 DEF NextRange, DotNext, UpNext
<1>5. ASSUME UpNext(r.s)
      PROVE  NextRange(r) = [r EXCEPT !.s = IF Len(@) >= 3 THEN Drop(@, 3) ELSE r.beyond,
                   !.beyond = IF Len(r.s) >= 3 THEN @ ELSE <<>>,
                   !.list = IF @ = <<>> THEN @ ELSE Front(@),
                   !.parents = IF r.list = <<>> THEN @ + 1 ELSE @]
  <2>1. UpNext(r.s) /\ ~DotNext(r.s)
    BY <1>2, <1>5
  <2> QED
    BY <2>1 DEF NextRange, DotNext, UpNext
<1>6. ASSUME ~DotNext(r.s), ~UpNext(r.s)
      PROVE  NextRange(r) = [r EXCEPT !.s = Drop(@, FirstRange(r.s)),
                               !.list = Append(@, SubSeq(r.s, 1, FirstRange(r.s)))]
  BY <1>6 DEF NextRange, DotNext, UpNext
<1>7. ASSUME DotNext(r.s)
      PROVE  NextRange(r) = [s |-> Drop(r.s, 2), beyond |-> r.beyond, list |-> r.list,
                             parents |-> r.parents]
  BY <1>1, <1>4, <1>7
<1> DEFINE l == IF r.list = <<>> THEN <<>> ELSE Front(r.list)
           p == IF r.list = <<>> THEN r.parents + 1 ELSE r.parents
<1>8. ASSUME UpNext(r.s)
      PROVE  NextRange(r) =
               [r EXCEPT !.s = IF Len(r.s) >= 3 THEN Drop(r.s, 3) ELSE r.beyond,
                         !.beyond = IF Len(r.s) >= 3 THEN r.beyond ELSE <<>>,
                         !.list = l, !.parents = p]
  BY <1>5, <1>8
<1> HIDE DEF l, p
<1>9. ASSUME UpNext(r.s), Len(r.s) >= 3
      PROVE  NextRange(r) = [s |-> Drop(r.s, 3), beyond |-> r.beyond, list |-> l, parents |-> p]
  BY <1>1, <1>8, <1>9
<1>10. ASSUME UpNext(r.s), Len(r.s) < 3
       PROVE  NextRange(r) = [s |-> r.beyond, beyond |-> <<>>, list |-> l, parents |-> p]
  <2>1. ~(Len(r.s) >= 3)
    BY <1>3, <1>10
  <2> QED
    BY <1>1, <1>8, <1>10, <2>1
<1>11. ASSUME ~DotNext(r.s), ~UpNext(r.s)
       PROVE  NextRange(r) = [s |-> Drop(r.s, FirstRange(r.s)), beyond |-> r.beyond,
                              list |-> Append(r.list, SubSeq(r.s, 1, FirstRange(r.s))),
                              parents |-> r.parents]
  BY <1>1, <1>6, <1>11
<1> QED
  BY <1>7, <1>9, <1>10, <1>11 DEF l, p

\* An iteration leaves texts.
LEMMA NextRangeType ==
  ASSUME NEW C, NEW r \in Reading(C), r.s # <<>>
  PROVE  NextRange(r) \in Reading(C)
<1>1. r.s \in Seq(C) /\ r.beyond \in Seq(C) /\ r.list \in Seq(Seq(C)) /\ r.parents \in Nat
  BY DEF Reading
<1>2. <<>> \in Seq(C) /\ Len(r.s) \in Nat
  BY <1>1
<1>3. r.list # <<>> => Front(r.list) \in Seq(Seq(C))
  <2> SUFFICES ASSUME r.list # <<>> PROVE Front(r.list) \in Seq(Seq(C))
    OBVIOUS
  <2>1. PICK n \in Nat : n = Len(r.list)
    BY <1>1
  <2>2. n >= 1
    BY <1>1, <2>1, EmptySeq
  <2>3. 0 \in 0..Len(r.list) /\ n - 1 \in 0..Len(r.list) /\ 0 + 1 = 1
    BY <2>1, <2>2
  <2>4. SubSeq(r.list, 0 + 1, n - 1) \in Seq(Seq(C))
    BY <1>1, <2>3, Piece
  <2> QED
    BY <2>1, <2>3, <2>4 DEF Front
<1>4. CASE DotNext(r.s)
  <2>1. 2 \in 0..Len(r.s)
    BY <1>1, <1>2, <1>4, BeginsWithTwo DEF DotNext, Starts
  <2>2. Drop(r.s, 2) \in Seq(C)
    BY <1>1, <2>1, Dropped
  <2> QED
    BY <1>1, <1>4, <2>2, NextRangeIs DEF Reading
<1>5. CASE UpNext(r.s) /\ Len(r.s) >= 3
  <2>1. 3 \in 0..Len(r.s)
    BY <1>2, <1>5
  <2>2. Drop(r.s, 3) \in Seq(C)
    BY <1>1, <2>1, Dropped
  <2>3. r.parents + 1 \in Nat /\ <<>> \in Seq(Seq(C))
    BY <1>1
  <2>4. NextRange(r) = [s |-> Drop(r.s, 3), beyond |-> r.beyond,
                        list |-> IF r.list = <<>> THEN <<>> ELSE Front(r.list),
                        parents |-> IF r.list = <<>> THEN r.parents + 1 ELSE r.parents]
    BY <1>5, NextRangeIs
  <2> QED
    BY <1>1, <1>3, <2>2, <2>3, <2>4 DEF Reading
<1>6. CASE UpNext(r.s) /\ Len(r.s) < 3
  <2>3. r.parents + 1 \in Nat /\ <<>> \in Seq(Seq(C))
    BY <1>1
  <2>4. NextRange(r) = [s |-> r.beyond, beyond |-> <<>>,
                        list |-> IF r.list = <<>> THEN <<>> ELSE Front(r.list),
                        parents |-> IF r.list = <<>> THEN r.parents + 1 ELSE r.parents]
    BY <1>6, NextRangeIs
  <2> QED
    BY <1>1, <1>2, <1>3, <2>3, <2>4 DEF Reading
<1>7. CASE ~DotNext(r.s) /\ ~UpNext(r.s)
  <2>1. PICK n \in 0..Len(r.s) : n = FirstRange(r.s)
    <3>1. FirstRange(r.s) \in 1..Len(r.s)
      BY <1>1, FirstRangeIs
    <3> QED
      BY <3>1
  <2>2. Drop(r.s, n) \in Seq(C) /\ SubSeq(r.s, 1, n) \in Seq(C)
    BY <1>1, Dropped
  <2>3. Append(r.list, SubSeq(r.s, 1, n)) \in Seq(Seq(C))
    BY <1>1, <2>2
  <2>4. NextRange(r) = [s |-> Drop(r.s, n), beyond |-> r.beyond,
                        list |-> Append(r.list, SubSeq(r.s, 1, n)), parents |-> r.parents]
    BY <1>7, <2>1, NextRangeIs
  <2> QED
    BY <1>1, <2>2, <2>3, <2>4 DEF Reading
<1> QED
  BY <1>2, <1>4, <1>5, <1>6, <1>7

\* The states of the loop of get_filename_cptrs, one after each iteration.
FirstReading(name, beyond) == [s |-> name, beyond |-> beyond, list |-> <<>>, parents |-> 0]
AfterReading(r) == IF r.s = <<>> THEN r ELSE NextRange(r)
Reads(f, name, beyond, n) ==
  f[0] = FirstReading(name, beyond) /\ \A i \in 1..n : f[i] = AfterReading(f[i - 1])

\* The loop is its iterations, one after the other.
LEMMA RangesIs ==
  ASSUME NEW C, NEW name \in Seq(C), NEW beyond \in Seq(C),
         NEW n \in Nat, n = Len(name) + Len(beyond)
  PROVE  \E f \in [0..n -> Reading(C)] :
           Reads(f, name, beyond, n) /\ Ranges(name, beyond) = f[n]
<1> DEFINE r == FirstReading(name, beyond)
           step == [p \in Reading(C) \X (1..n) |-> AfterReading(p[1])]
           body(at) == [i \in 0..n |-> IF i = 0 THEN r ELSE AfterReading(at[i - 1])]
           at == CHOOSE g : g = body(g)
<1>1. r \in Reading(C)
  BY DEF FirstReading, Reading
<1>2. step \in [Reading(C) \X (1..n) -> Reading(C)]
  BY NextRangeType DEF AfterReading
<1>3. \A q \in Reading(C), i \in 1..n : step[<<q, i>>] = AfterReading(q)
  OBVIOUS
<1> HIDE DEF step, r
<1>4. PICK f \in [0..n -> Reading(C)] : Repeated(f, step, r, n)
  BY <1>1, <1>2, Repeats
<1>5. f[0] = r /\ \A i \in 1..n : f[i] = AfterReading(f[i - 1])
  <2>1. ASSUME NEW i \in 1..n PROVE f[i] = AfterReading(f[i - 1])
    <3>1. i - 1 \in 0..n
      OBVIOUS
    <3> QED
      BY <1>3, <1>4, <3>1 DEF Repeated
  <2> QED
    BY <1>4, <2>1 DEF Repeated
<1>6. Ranges(name, beyond) = at[n]
  BY DEF Ranges, AfterReading, FirstReading, r
<1>7. f = body(f)
  <2>1. ASSUME NEW i \in 0..n
        PROVE  f[i] = IF i = 0 THEN r ELSE AfterReading(f[i - 1])
    <3>1. CASE i = 0
      BY <1>5, <3>1
    <3>2. CASE i # 0
      <4>1. i \in 1..n
        BY <3>2
      <4> QED
        BY <1>5, <3>2, <4>1
    <3> QED
      BY <3>1, <3>2
  <2> QED
    BY <2>1
<1>8. at = body(at)
  BY <1>7
<1> HIDE DEF at
<1>9. \A i \in 0..n : at[i] = IF i = 0 THEN r ELSE AfterReading(at[i - 1])
  BY <1>8
<1> DEFINE T == {i \in 0..n : at[i] = f[i]}
<1>10. 0 \in T
  BY <1>5, <1>9
<1>11. ASSUME NEW i \in 1..n, i - 1 \in T PROVE i \in T
  <2>1. i \in 0..n /\ i # 0 /\ at[i - 1] = f[i - 1]
    BY <1>11
  <2> QED
    BY <1>5, <1>9, <2>1
<1> HIDE DEF T
<1>12. n \in T
  <2>1. \A i \in 0..n : i \in T
    BY <1>10, <1>11, Climb
  <2> QED
    BY <2>1
<1> QED
  BY <1>5, <1>6, <1>12 DEF Reads, r, T

PlainName(c) == c \notin {<<>>, <<".">>, <<".", ".">>} /\ \A i \in 1..Len(c) : c[i] # "/"

PlainList(C, list) ==
  \A j \in DOMAIN list : \E c \in Seq(C) : PlainName(c) /\ list[j] = c \o <<"/">>

\* The components that are kept lead to a directory.
LEMMA ListLeads ==
  ASSUME NEW C, "/" \in C, NEW X \in Comps(C), NEW list \in Seq(Seq(C)), PlainList(C, list)
  PROVE  \E Y \in Comps(C) : LeadsTo(In(X), FlattenSeq(list)) = In(Y)
<1>1. In(X) \in Places(C) /\ <<>> \in Seq(Seq(C))
  BY InIs
<1>2. CASE list = <<>>
  <2>1. FlattenSeq(<<>>) = <<>>
    BY DEF FlattenSeq
  <2> QED
    BY <1>1, <1>2, <2>1, LeadsToNone
<1>3. CASE list # <<>>
  <2>1. PICK l \in Seq(Seq(C)), e \in Seq(C) : list = Append(l, e) /\ e = list[Len(list)]
    BY <1>3, WithoutLast
  <2>2. FlattenSeq(list) = FlattenSeq(l) \o e /\ FlattenSeq(l) \in Seq(C)
    BY <2>1, FlattenAppend
  <2>3. PICK c \in Seq(C) : e = c \o <<"/">>
    <3>1. Len(list) \in DOMAIN list
      BY <1>3, EmptySeq
    <3> QED
      BY <2>1, <3>1 DEF PlainList
  <2>4. PICK t \in Seq(C) : t = <<"/">>
    <3>1. <<"/">> \in Seq(C)
      OBVIOUS
    <3> QED
      BY <3>1
  <2>5. FlattenSeq(list) = (FlattenSeq(l) \o c) \o t /\ FlattenSeq(l) \o c \in Seq(C)
    BY <2>2, <2>3, <2>4, ThreeParts
  <2> QED
    BY <1>1, <2>4, <2>5, SlashEnds, ZenonT(60)
<1> QED
  BY <1>2, <1>3

\* ".." takes the last component back.
LEMMA BackOne ==
  ASSUME NEW C, "/" \in C, NEW X \in Comps(C), NEW list \in Seq(Seq(C)), PlainList(C, list),
         list # <<>>, NEW Y \in Comps(C), LeadsTo(In(X), FlattenSeq(list)) = In(Y)
  PROVE  /\ Front(list) \in Seq(Seq(C)) /\ PlainList(C, Front(list))
         /\ LeadsTo(In(X), FlattenSeq(Front(list))) = In(EnterComponent(Y, <<".", ".">>))
<1>1. PICK l \in Seq(Seq(C)), e \in Seq(C) :
        /\ l = Front(list) /\ list = Append(l, e) /\ e = list[Len(list)]
        /\ Len(l) = Len(list) - 1 /\ \A i \in 1..(Len(list) - 1) : l[i] = list[i]
  BY WithoutLast
<1>2. PlainList(C, l)
  <2>1. ASSUME NEW j \in DOMAIN l PROVE \E c \in Seq(C) : PlainName(c) /\ l[j] = c \o <<"/">>
    <3>1. j \in 1..(Len(list) - 1) /\ j \in DOMAIN list
      BY <1>1
    <3>2. l[j] = list[j]
      BY <1>1, <3>1
    <3> QED
      BY <3>1, <3>2 DEF PlainList
  <2> QED
    BY <2>1 DEF PlainList
<1>3. PICK Z \in Comps(C) : LeadsTo(In(X), FlattenSeq(l)) = In(Z)
  BY <1>2, ListLeads
<1>4. FlattenSeq(list) = FlattenSeq(l) \o e /\ FlattenSeq(l) \in Seq(C)
  BY <1>1, FlattenAppend
<1>5. PICK c \in Seq(C) : PlainName(c) /\ e = c \o <<"/">>
  <2>1. Len(list) \in DOMAIN list
    BY EmptySeq
  <2> QED
    BY <1>1, <2>1 DEF PlainList
<1>6. In(X) \in Places(C)
  BY InIs
<1>7. LeadsTo(In(X), FlattenSeq(list)) = LeadsTo(In(Z), e)
  BY <1>3, <1>4, <1>6, LeadsToParts
<1>8. LeadsTo(In(Z), c \o <<"/">>) = In(EnterComponent(Z, c))
  <2>1. \A i \in 1..Len(c) : c[i] # "/"
    BY <1>5 DEF PlainName
  <2> QED
    BY <2>1, SlashLeads, Zenon
<1>9. EnterComponent(Z, c) = Append(Z, c)
  <2>1. c \notin {<<>>, <<".">>} /\ c # <<".", ".">>
    BY <1>5 DEF PlainName
  <2> QED
    BY <2>1 DEF EnterComponent
<1>10. Y = Append(Z, c)
  <2>1. In(Y).done = In(Append(Z, c)).done
    BY <1>5, <1>7, <1>8, <1>9
  <2> QED
    BY <2>1 DEF In
<1>11. EnterComponent(Append(Z, c), <<".", ".">>) = Z
  BY LeaveEntered
<1> QED
  BY <1>1, <1>2, <1>3, <1>10, <1>11

\* The first k characters of the rest s of a text are x, and done with.
Moved(C, done, s, k, x) ==
  /\ x \in Seq(C) /\ Len(x) = k /\ \A i \in 1..k : x[i] = s[i]
  /\ done \o x \in Seq(C) /\ Len(done \o x) = Len(done) + k
  /\ done \o s = (done \o x) \o Drop(s, k)
  /\ Drop(s, k) \in Seq(C)
  /\ (done \o x)[Len(done \o x)] = s[k]

\* Part of the rest of a text is moved to what is done with.
LEMMA PieceDone ==
  ASSUME NEW C, NEW done \in Seq(C), NEW s \in Seq(C), NEW k \in 1..Len(s), NEW x,
         x = SubSeq(s, 1, k)
  PROVE  Moved(C, done, s, k, x)
<1>1. PICK n \in Nat : n = Len(s)
  OBVIOUS
<1>2. k \in 0..n /\ k \in 1..n /\ 0 \in 0..n /\ 0 + 1 = 1 /\ k - 0 = k /\ k \in Nat /\ n \in k..n
  BY <1>1
<1>3. x \in Seq(C) /\ Len(x) = k /\ \A i \in 1..k : x[i] = s[i]
  <2>1. /\ SubSeq(s, 0 + 1, k) \in Seq(C) /\ Len(SubSeq(s, 0 + 1, k)) = k - 0
        /\ \A i \in 1..(k - 0) : SubSeq(s, 0 + 1, k)[i] = s[0 + i]
    BY <1>1, <1>2, Piece
  <2> QED
    BY <1>2, <2>1
<1>4. PICK y \in Seq(C) : y = Drop(s, k)
  BY <1>1, <1>2, Dropped
<1>5. s = x \o y
  <2>1. SubSeq(s, 1, n) = SubSeq(s, 1, k) \o SubSeq(s, k + 1, n)
    BY <1>1, <1>2, Piece
  <2>2. SubSeq(s, 1, n) = s
    BY <1>1, SubSeqFull
  <2> QED
    BY <1>1, <1>4, <2>1, <2>2 DEF Drop
<1>6. PICK z \in Seq(C) : z = x
  BY <1>3
<1>7. (done \o z) \o y = done \o (z \o y) /\ done \o z \in Seq(C)
  BY ThreeParts
<1>8. Len(done \o z) = Len(done) + Len(z) /\ \A i \in 1..Len(z) : (done \o z)[Len(done) + i] = z[i]
  BY Concat
<1>9. k \in 1..Len(z) /\ z[k] = s[k]
  BY <1>2, <1>3, <1>6
<1> QED
  BY <1>3, <1>4, <1>5, <1>6, <1>7, <1>8, <1>9 DEF Moved

HasParent(name) == \E k \in DOMAIN name : ParentAt(name, k)

\* What get_filename_cptrs has read of the name leads where the components that it
\* kept lead from as many directories above D as it counted.
Reached(C, name, beyond, D, r, done) ==
  /\ done \in Seq(C) /\ name = done \o r.s
  /\ done = <<>> \/ done[Len(done)] = "/"
  /\ r.beyond = beyond
  /\ LeadsTo(In(D), done) = LeadsTo(In(UpFrom(D, r.parents)), FlattenSeq(r.list))
  /\ r.parents > 0 => HasParent(name)
  /\ (\E j \in 1..Len(done) : EmptyAt(name, j)) \/ PlainList(C, r.list)

Ended(name, D, r) ==
  /\ r.s = <<>>
  /\ LeadsTo(In(D), name \o <<"/">>)
       = LeadsTo(In(UpFrom(D, r.parents)), FlattenSeq(r.list) \o <<"/">>)
  /\ r.parents > 0 => HasParent(name)

\* The names that get_filename_cptrs reads right.
ReadRight(name, beyond) ==
  /\ \A k \in DOMAIN name : DotsAt(name, k) => ParentAt(name, k)
  /\ \A j, k \in DOMAIN name : j < k /\ EmptyAt(name, j) => ~ParentAt(name, k)
  /\ beyond # <<>> => ~ParentAt(name, Len(name) - 1)

\* What is read to its end leads where the name does.
LEMMA EndLeads ==
  ASSUME NEW C, "/" \in C, NEW name \in Seq(C), NEW D \in Comps(C), NEW r \in Reading(C),
         r.s = <<>>, r.parents > 0 => HasParent(name),
         LeadsTo(In(D), name) = LeadsTo(In(UpFrom(D, r.parents)), FlattenSeq(r.list))
  PROVE  Ended(name, D, r)
<1>1. r.parents \in Nat /\ r.list \in Seq(Seq(C))
  BY DEF Reading
<1>2. PICK X \in Comps(C), l \in Seq(C) : X = UpFrom(D, r.parents) /\ l = FlattenSeq(r.list)
  <2>1. UpFrom(D, r.parents) \in Comps(C)
    BY <1>1, UpIs
  <2>2. FlattenSeq(r.list) \in Seq(C)
    BY <1>1, FlattenAppend
  <2> QED
    BY <2>1, <2>2
<1>3. PICK t \in Seq(C) : t = <<"/">>
  <2>1. <<"/">> \in Seq(C)
    OBVIOUS
  <2> QED
    BY <2>1
<1>4. In(D) \in Places(C) /\ In(X) \in Places(C)
  BY InIs
<1>5. LeadsTo(In(D), name \o t) = LeadsTo(LeadsTo(In(D), name), t)
  BY <1>4, LeadsToParts
<1>6. LeadsTo(In(X), l \o t) = LeadsTo(LeadsTo(In(X), l), t)
  BY <1>4, LeadsToParts
<1> QED
  BY <1>2, <1>3, <1>5, <1>6 DEF Ended

\* "./" leads nowhere.
LEMMA DotStep ==
  ASSUME NEW C, "/" \in C, "." \in C, NEW name \in Seq(C), NEW beyond \in Seq(C), NEW D \in Comps(C),
         NEW r \in Reading(C), NEW done, Reached(C, name, beyond, D, r, done), r.s # <<>>,
         DotNext(r.s)
  PROVE  \E new \in Seq(C) : /\ Len(new) > Len(done)
                             /\ Reached(C, name, beyond, D, NextRange(r), new)
<1>1. PICK s \in Seq(C) : s = r.s
  BY DEF Reading
<1>2. /\ done \in Seq(C) /\ name = done \o s /\ (done = <<>> \/ done[Len(done)] = "/")
  BY <1>1 DEF Reached
<1>3. Len(s) \in Nat /\ Len(s) >= 2 /\ s[1] = "." /\ s[2] = "/" /\ 2 \in 1..Len(s)
      /\ 2 \in 0..Len(s)
  <2>1. Len(s) >= 2 /\ s[1] = "." /\ s[2] = "/"
    BY <1>1, BeginsWithTwo DEF DotNext, Starts
  <2> QED
    BY <2>1
<1>4. PICK x \in Seq(C) : x = SubSeq(s, 1, 2)
  BY <1>3, Dropped
<1>5. /\ Len(x) = 2 /\ \A i \in 1..2 : x[i] = s[i]
      /\ done \o x \in Seq(C) /\ Len(done \o x) = Len(done) + 2
      /\ name = (done \o x) \o Drop(s, 2)
      /\ (done \o x)[Len(done \o x)] = "/"
  <2>1. done \in Seq(C)
    BY <1>2
  <2>2. Moved(C, done, s, 2, x)
    BY <1>3, <1>4, <2>1, PieceDone
  <2> QED
    BY <1>2, <1>3, <2>2 DEF Moved
<1>6. x = <<".">> \o <<"/">>
  <2>1. x[1] = "." /\ x[2] = "/"
    BY <1>3, <1>5
  <2>2. x = <<".", "/">>
    BY <1>5, <2>1
  <2> QED
    BY <2>2
<1>7. PICK X \in Comps(C) : LeadsTo(In(D), done) = In(X)
  BY <1>2, DoneLeads
<1>8. LeadsTo(In(D), done \o x) = LeadsTo(In(X), x)
  <2>1. In(D) \in Places(C)
    BY InIs
  <2> QED
    BY <1>2, <1>7, <2>1, LeadsToParts
<1>9. LeadsTo(In(X), x) = In(X)
  <2>1. PICK c \in Seq(C) : c = <<".">>
    <3>1. <<".">> \in Seq(C)
      OBVIOUS
    <3> QED
      BY <3>1
  <2>2. \A i \in 1..Len(c) : c[i] # "/"
    BY <2>1
  <2>3. LeadsTo(In(X), c \o <<"/">>) = In(EnterComponent(X, c))
    BY <2>2, SlashLeads, Zenon
  <2>4. EnterComponent(X, c) = X
    BY <2>1 DEF EnterComponent
  <2> QED
    BY <1>6, <2>1, <2>3, <2>4
<1>10. PICK q : q = NextRange(r)
  OBVIOUS
<1>11. q.s = Drop(s, 2) /\ q.beyond = r.beyond /\ q.list = r.list /\ q.parents = r.parents
  <2>1. q = [s |-> Drop(s, 2), beyond |-> r.beyond, list |-> r.list, parents |-> r.parents]
    BY <1>1, <1>10, NextRangeIs
  <2> QED
    BY <2>1
<1>12. \A j \in 1..Len(done) : j \in 1..Len(done \o x)
  BY <1>2, <1>5
<1>13. Len(done \o x) > Len(done)
  BY <1>2, <1>5
<1>14. Reached(C, name, beyond, D, q, done \o x)
  <2>1. LeadsTo(In(D), done \o x) = LeadsTo(In(UpFrom(D, q.parents)), FlattenSeq(q.list))
    BY <1>7, <1>8, <1>9, <1>11 DEF Reached
  <2>2. (\E j \in 1..Len(done \o x) : EmptyAt(name, j)) \/ PlainList(C, q.list)
    BY <1>11, <1>12 DEF Reached
  <2> QED
    BY <1>5, <1>11, <2>1, <2>2 DEF Reached
<1> QED
  BY <1>5, <1>10, <1>13, <1>14

UpHere(name, done, s, beyond) ==
  /\ Len(s) >= 2 /\ s[1] = "." /\ s[2] = "." /\ (Len(s) >= 3 => s[3] = "/")
  /\ HasParent(name)
  /\ \A j \in 1..Len(done) : ~EmptyAt(name, j)
  /\ Len(s) < 3 => beyond = <<>>

\* ".." in a name that is read right: no component before it was empty.
LEMMA UpFound ==
  ASSUME NEW C, NEW done \in Seq(C), NEW s \in Seq(C), NEW name \in Seq(C), name = done \o s,
         done = <<>> \/ done[Len(done)] = "/", UpNext(s), NEW beyond, ReadRight(name, beyond)
  PROVE  UpHere(name, done, s, beyond)
<1>1. PICK m \in Nat, n \in Nat : m = Len(done) /\ n = Len(s)
  OBVIOUS
<1>2. n >= 2 /\ s[1] = "." /\ s[2] = "."
  BY <1>1, BeginsWithTwo DEF UpNext, Starts
<1>3. /\ Len(name) = m + n
      /\ \A i \in 1..m : name[i] = done[i]
      /\ \A i \in 1..n : name[m + i] = s[i]
  BY <1>1, Concat
<1>4. name[m + 1] = "." /\ name[m + 2] = "." /\ (n >= 3 => name[m + 3] = s[3])
  <2>1. 1 \in 1..n /\ 2 \in 1..n /\ (n >= 3 => 3 \in 1..n)
    BY <1>2
  <2> QED
    BY <1>2, <1>3, <2>1, Zenon
<1>5. ComponentAt(name, m + 1)
  <2>1. m + 1 \in 1..Len(name)
    BY <1>2, <1>3
  <2>2. m = 0 \/ name[m] = "/"
    <3>1. CASE m = 0
      BY <3>1
    <3>2. CASE m # 0
      <4>1. m \in 1..m /\ done # <<>>
        BY <1>1, <3>2
      <4> QED
        BY <1>1, <1>3, <4>1
    <3> QED
      BY <3>1, <3>2
  <2>3. (m + 1) - 1 = m /\ (m = 0 => m + 1 = 1)
    OBVIOUS
  <2> QED
    BY <2>1, <2>2, <2>3 DEF ComponentAt
<1>6. m + 1 \in DOMAIN name /\ DotsAt(name, m + 1)
  <2>1. m + 1 < Len(name) /\ (m + 1) + 1 = m + 2 /\ m + 1 \in 1..Len(name)
    BY <1>2, <1>3
  <2> QED
    BY <1>4, <1>5, <2>1 DEF DotsAt
<1>7. ParentAt(name, m + 1)
  BY <1>6 DEF ReadRight
<1>8. ASSUME n >= 3 PROVE s[3] = "/"
  <2>1. (m + 1) + 1 # Len(name) /\ (m + 1) + 2 = m + 3
    BY <1>3, <1>8
  <2> QED
    BY <1>4, <1>7, <1>8, <2>1 DEF ParentAt
<1>9. ASSUME NEW j \in 1..m PROVE ~EmptyAt(name, j)
  <2>1. j \in DOMAIN name /\ j < m + 1
    BY <1>3
  <2> QED
    BY <1>6, <1>7, <2>1 DEF ReadRight
<1>10. ASSUME n < 3 PROVE beyond = <<>>
  <2>1. Len(name) - 1 = m + 1
    BY <1>2, <1>3, <1>10
  <2> QED
    BY <1>7, <2>1 DEF ReadRight
<1> QED
  BY <1>1, <1>2, <1>6, <1>7, <1>8, <1>9, <1>10 DEF HasParent, UpHere

\* What ".." makes of the components that were kept and of the directories to go up.
UpList(list) == IF list = <<>> THEN <<>> ELSE Front(list)
UpParents(list, parents) == IF list = <<>> THEN parents + 1 ELSE parents

UpMade(C, D, X, list, p) ==
  /\ UpList(list) \in Seq(Seq(C)) /\ PlainList(C, UpList(list))
  /\ LeadsTo(In(UpFrom(D, UpParents(list, p))), FlattenSeq(UpList(list)))
       = In(EnterComponent(X, <<".", ".">>))

\* Whether ".." takes a component back or is counted, it leads one component up.
LEMMA UpLeads ==
  ASSUME NEW C, "/" \in C, NEW D \in Comps(C), NEW X \in Comps(C),
         NEW list \in Seq(Seq(C)), NEW p \in Nat, PlainList(C, list),
         LeadsTo(In(UpFrom(D, p)), FlattenSeq(list)) = In(X)
  PROVE  UpMade(C, D, X, list, p)
<1>1. UpFrom(D, p) \in Comps(C) /\ UpFrom(D, p + 1) \in Comps(C)
  <2>1. p + 1 \in Nat
    OBVIOUS
  <2> QED
    BY <2>1, UpIs
<1>2. CASE list = <<>>
  <2>1. UpList(list) = <<>> /\ UpParents(list, p) = p + 1 /\ FlattenSeq(<<>>) = <<>>
    BY <1>2 DEF UpList, UpParents, FlattenSeq
  <2>2. In(UpFrom(D, p)) \in Places(C) /\ In(UpFrom(D, p + 1)) \in Places(C)
    BY <1>1, InIs
  <2>3. LeadsTo(In(UpFrom(D, p)), <<>>) = In(UpFrom(D, p))
    BY <2>2, LeadsToNone
  <2>4. LeadsTo(In(UpFrom(D, p + 1)), <<>>) = In(UpFrom(D, p + 1))
    BY <2>2, LeadsToNone
  <2>5. X = UpFrom(D, p)
    <3>1. In(X).done = In(UpFrom(D, p)).done
      BY <1>2, <2>1, <2>3
    <3> QED
      BY <3>1 DEF In
  <2>6. EnterComponent(X, <<".", ".">>) = UpFrom(D, p + 1)
    <3>1. EnterComponent(UpFrom(D, p), <<".", ".">>) = UpFrom(D, p + 1)
      BY UpAgain
    <3> QED
      BY <2>5, <3>1
  <2>7. <<>> \in Seq(Seq(C)) /\ PlainList(C, <<>>)
    BY DEF PlainList
  <2> QED
    BY <2>1, <2>4, <2>6, <2>7 DEF UpMade
<1>3. CASE list # <<>>
  <2>1. UpList(list) = Front(list) /\ UpParents(list, p) = p
    BY <1>3 DEF UpList, UpParents
  <2>2. PICK Y \in Comps(C) : Y = UpFrom(D, p)
    BY <1>1
  <2>3. /\ Front(list) \in Seq(Seq(C)) /\ PlainList(C, Front(list))
        /\ LeadsTo(In(Y), FlattenSeq(Front(list))) = In(EnterComponent(X, <<".", ".">>))
    <3>1. LeadsTo(In(Y), FlattenSeq(list)) = In(X)
      BY <2>2
    <3> QED
      BY <1>3, <3>1, BackOne
  <2> QED
    BY <2>1, <2>2, <2>3 DEF UpMade
<1> QED
  BY <1>2, <1>3

\* ".." leads one component up.
LEMMA UpText ==
  ASSUME NEW C, "/" \in C, "." \in C, NEW X \in Comps(C)
  PROVE  LeadsTo(In(X), <<".", ".">> \o <<"/">>) = In(EnterComponent(X, <<".", ".">>))
<1>1. PICK c \in Seq(C) : c = <<".", ".">>
  <2>1. <<".", ".">> \in Seq(C)
    OBVIOUS
  <2> QED
    BY <2>1
<1>2. \A i \in 1..Len(c) : c[i] # "/"
  BY <1>1
<1>3. LeadsTo(In(X), c \o <<"/">>) = In(EnterComponent(X, c))
  BY <1>2, SlashLeads, Zenon
<1> QED
  BY <1>1, <1>3

\* ".." with a slash.
LEMMA UpStep ==
  ASSUME NEW C, "/" \in C, "." \in C, NEW name \in Seq(C), NEW beyond \in Seq(C), NEW D \in Comps(C),
         NEW r \in Reading(C), NEW done, Reached(C, name, beyond, D, r, done), r.s # <<>>,
         UpNext(r.s), Len(r.s) >= 3, ReadRight(name, beyond)
  PROVE  \E new \in Seq(C) : /\ Len(new) > Len(done)
                             /\ Reached(C, name, beyond, D, NextRange(r), new)
<1>1. PICK s \in Seq(C), list \in Seq(Seq(C)), p \in Nat :
        s = r.s /\ list = r.list /\ p = r.parents
  BY DEF Reading
<1>2. /\ done \in Seq(C) /\ name = done \o s /\ (done = <<>> \/ done[Len(done)] = "/")
      /\ LeadsTo(In(D), done) = LeadsTo(In(UpFrom(D, p)), FlattenSeq(list))
      /\ r.beyond = beyond
  BY <1>1 DEF Reached
<1>3. /\ s[1] = "." /\ s[2] = "." /\ s[3] = "/" /\ HasParent(name)
      /\ \A j \in 1..Len(done) : ~EmptyAt(name, j)
  <2>1. UpNext(s) /\ done \in Seq(C)
    BY <1>1, <1>2
  <2>2. UpHere(name, done, s, beyond)
    BY <1>2, <2>1, UpFound
  <2> QED
    BY <1>1, <2>2 DEF UpHere
<1>4. 3 \in 1..Len(s) /\ 3 \in 0..Len(s)
  BY <1>1
<1>5. PICK x \in Seq(C) : x = SubSeq(s, 1, 3)
  BY <1>4, Dropped
<1>6. /\ Len(x) = 3 /\ \A i \in 1..3 : x[i] = s[i]
      /\ done \o x \in Seq(C) /\ Len(done \o x) = Len(done) + 3
      /\ name = (done \o x) \o Drop(s, 3)
      /\ (done \o x)[Len(done \o x)] = "/"
  <2>1. done \in Seq(C)
    BY <1>2
  <2>2. Moved(C, done, s, 3, x)
    BY <1>4, <1>5, <2>1, PieceDone
  <2> QED
    BY <1>2, <1>3, <2>2 DEF Moved
<1>7. x = <<".", ".">> \o <<"/">>
  <2>1. x[1] = "." /\ x[2] = "." /\ x[3] = "/"
    BY <1>3, <1>6
  <2>2. x = <<".", ".", "/">>
    BY <1>6, <2>1
  <2> QED
    BY <2>2
<1>8. PICK X \in Comps(C) : LeadsTo(In(D), done) = In(X)
  BY <1>2, DoneLeads
<1>9. LeadsTo(In(D), done \o x) = In(EnterComponent(X, <<".", ".">>))
  <2>1. In(D) \in Places(C)
    BY InIs
  <2>2. LeadsTo(In(D), done \o x) = LeadsTo(In(X), x)
    BY <1>2, <1>8, <2>1, LeadsToParts
  <2> QED
    BY <1>7, <2>2, UpText
<1>10. PlainList(C, list)
  BY <1>1, <1>3 DEF Reached
<1>11. /\ UpList(list) \in Seq(Seq(C)) /\ PlainList(C, UpList(list))
       /\ LeadsTo(In(UpFrom(D, UpParents(list, p))), FlattenSeq(UpList(list)))
            = In(EnterComponent(X, <<".", ".">>))
  <2>1. LeadsTo(In(UpFrom(D, p)), FlattenSeq(list)) = In(X)
    BY <1>2, <1>8
  <2>2. UpMade(C, D, X, list, p)
    BY <1>10, <2>1, UpLeads
  <2> QED
    BY <2>2 DEF UpMade
<1>12. PICK q : q = NextRange(r)
  OBVIOUS
<1>13. q.s = Drop(s, 3) /\ q.beyond = r.beyond /\ q.list = UpList(list)
       /\ q.parents = UpParents(list, p)
  <2>1. q = [s |-> Drop(s, 3), beyond |-> r.beyond, list |-> UpList(list),
             parents |-> UpParents(list, p)]
    BY <1>1, <1>12, NextRangeIs DEF UpList, UpParents
  <2> QED
    BY <2>1
<1>14. Reached(C, name, beyond, D, q, done \o x)
  BY <1>2, <1>3, <1>6, <1>9, <1>11, <1>13 DEF Reached
<1>15. Len(done \o x) > Len(done)
  BY <1>2, <1>6
<1> QED
  BY <1>6, <1>12, <1>14, <1>15

\* ".." at the end of a name, behind which there is nothing in the memory.
LEMMA UpLast ==
  ASSUME NEW C, "/" \in C, "." \in C, NEW name \in Seq(C), NEW beyond \in Seq(C), NEW D \in Comps(C),
         NEW r \in Reading(C), NEW done, Reached(C, name, beyond, D, r, done), r.s # <<>>,
         UpNext(r.s), Len(r.s) < 3, ReadRight(name, beyond)
  PROVE  Ended(name, D, NextRange(r))
<1>1. PICK s \in Seq(C), list \in Seq(Seq(C)), p \in Nat :
        s = r.s /\ list = r.list /\ p = r.parents
  BY DEF Reading
<1>2. /\ done \in Seq(C) /\ name = done \o s /\ (done = <<>> \/ done[Len(done)] = "/")
      /\ LeadsTo(In(D), done) = LeadsTo(In(UpFrom(D, p)), FlattenSeq(list))
      /\ r.beyond = beyond
  BY <1>1 DEF Reached
<1>3. /\ Len(s) >= 2 /\ s[1] = "." /\ s[2] = "." /\ HasParent(name) /\ beyond = <<>>
      /\ \A j \in 1..Len(done) : ~EmptyAt(name, j)
  <2>1. UpNext(s) /\ done \in Seq(C)
    BY <1>1, <1>2
  <2>2. UpHere(name, done, s, beyond)
    BY <1>2, <2>1, UpFound
  <2> QED
    BY <1>1, <2>2 DEF UpHere
<1>4. s = <<".", ".">>
  <2>1. Len(s) = 2
    <3>1. PICK n \in Nat : n = Len(s)
      OBVIOUS
    <3>2. n >= 2 /\ n < 3
      BY <1>1, <1>3, <3>1
    <3>3. n = 2
      BY <3>2
    <3> QED
      BY <3>1, <3>3
  <2> QED
    BY <1>3, <2>1
<1>5. PICK X \in Comps(C) : LeadsTo(In(D), done) = In(X)
  BY <1>2, DoneLeads
<1>6. PICK t \in Seq(C), w \in Seq(C) : t = <<"/">> /\ w = s \o t
  <2>1. <<"/">> \in Seq(C) /\ s \o <<"/">> \in Seq(C)
    OBVIOUS
  <2> QED
    BY <2>1
<1>7. LeadsTo(In(D), name \o t) = In(EnterComponent(X, <<".", ".">>))
  <2>1. In(D) \in Places(C)
    BY InIs
  <2>2. LeadsTo(In(D), done \o w) = LeadsTo(In(X), w)
    BY <1>2, <1>5, <2>1, LeadsToParts
  <2>3. name \o t = done \o w
    <3>1. done \in Seq(C) /\ name = done \o s
      BY <1>2
    <3> QED
      BY <1>6, <3>1, Regroup, SMTT(60)
  <2>4. LeadsTo(In(X), w) = In(EnterComponent(X, <<".", ".">>))
    BY <1>4, <1>6, UpText
  <2> QED
    BY <2>2, <2>3, <2>4
<1>8. PlainList(C, list)
  BY <1>1, <1>3 DEF Reached
<1>9. /\ UpList(list) \in Seq(Seq(C)) /\ PlainList(C, UpList(list))
      /\ LeadsTo(In(UpFrom(D, UpParents(list, p))), FlattenSeq(UpList(list)))
           = In(EnterComponent(X, <<".", ".">>))
  <2>1. LeadsTo(In(UpFrom(D, p)), FlattenSeq(list)) = In(X)
    BY <1>2, <1>5
  <2>2. UpMade(C, D, X, list, p)
    BY <1>8, <2>1, UpLeads
  <2> QED
    BY <2>2 DEF UpMade
<1>10. PICK q : q = NextRange(r)
  OBVIOUS
<1>11. q.s = <<>> /\ q.list = UpList(list) /\ q.parents = UpParents(list, p)
  <2>1. q = [s |-> beyond, beyond |-> <<>>, list |-> UpList(list), parents |-> UpParents(list, p)]
    BY <1>1, <1>2, <1>10, NextRangeIs DEF UpList, UpParents
  <2> QED
    BY <1>3, <2>1
<1> DEFINE Z == EnterComponent(X, <<".", ".">>)
<1>12. Z \in Comps(C)
  <2>1. <<".", ".">> \in Seq(C)
    OBVIOUS
  <2> QED
    BY <2>1, EnterType
<1> HIDE DEF Z
<1>13. LeadsTo(In(Z), t) = In(Z)
  <2>1. In(Z) \in Places(C)
    BY <1>12, InIs
  <2>2. LeadsTo(In(Z), <<"/">>) = FollowChar(In(Z), "/")
    BY <2>1, LeadsToOne
  <2>3. FollowChar(In(Z), "/") = In(Z)
    BY DEF FollowChar, In, EnterComponent
  <2> QED
    BY <1>6, <2>2, <2>3
<1>14. LeadsTo(In(UpFrom(D, q.parents)), FlattenSeq(q.list) \o t) = In(Z)
  <2>1. PICK Y \in Comps(C) : Y = UpFrom(D, UpParents(list, p))
    <3>1. UpParents(list, p) \in Nat
      BY DEF UpParents
    <3> QED
      BY <3>1, UpIs
  <2>2. PICK f \in Seq(C) : f = FlattenSeq(UpList(list))
    <3>1. <<>> \in Seq(C)
      OBVIOUS
    <3> QED
      BY <1>9, <3>1, FlattenAppend
  <2>3. In(Y) \in Places(C)
    BY InIs
  <2>4. LeadsTo(In(Y), f \o t) = LeadsTo(LeadsTo(In(Y), f), t)
    BY <2>3, LeadsToParts
  <2> QED
    BY <1>9, <1>11, <1>13, <2>1, <2>2, <2>4 DEF Z
<1> QED
  BY <1>3, <1>6, <1>7, <1>10, <1>11, <1>14 DEF Ended, Z

\* A name of which nothing is left is read.
LEMMA ReachedEnd ==
  ASSUME NEW C, "/" \in C, NEW name \in Seq(C), NEW beyond, NEW D \in Comps(C),
         NEW r \in Reading(C), NEW done, Reached(C, name, beyond, D, r, done), r.s = <<>>
  PROVE  Ended(name, D, r)
<1>1. done \in Seq(C) /\ name = done \o <<>> /\ (r.parents > 0 => HasParent(name))
  BY DEF Reached
<1>2. name = done
  BY <1>1
<1> QED
  BY <1>1, <1>2, EndLeads DEF Reached

\* Any other component is kept.
LEMMA NameStep ==
  ASSUME NEW C, "/" \in C, "." \in C, NEW name \in Seq(C), NEW beyond \in Seq(C), NEW D \in Comps(C),
         NEW r \in Reading(C), NEW done, Reached(C, name, beyond, D, r, done), r.s # <<>>,
         ~DotNext(r.s), ~UpNext(r.s)
  PROVE  \/ Ended(name, D, NextRange(r))
         \/ \E new \in Seq(C) : /\ Len(new) > Len(done)
                                /\ Reached(C, name, beyond, D, NextRange(r), new)
<1>1. PICK s \in Seq(C), list \in Seq(Seq(C)), p \in Nat :
        s = r.s /\ list = r.list /\ p = r.parents
  BY DEF Reading
<1>2. /\ done \in Seq(C) /\ name = done \o s /\ (done = <<>> \/ done[Len(done)] = "/")
      /\ LeadsTo(In(D), done) = LeadsTo(In(UpFrom(D, p)), FlattenSeq(list))
      /\ r.beyond = beyond /\ (p > 0 => HasParent(name))
  BY <1>1 DEF Reached
<1>3. PICK k \in 1..Len(s) : /\ k = FirstRange(s) /\ (k = Len(s) \/ s[k] = "/")
                             /\ \A i \in 1..(k - 1) : s[i] # "/"
  BY <1>1, FirstRangeIs
<1>4. PICK x \in Seq(C) : x = SubSeq(s, 1, k)
  <2>1. k \in 0..Len(s)
    OBVIOUS
  <2> QED
    BY <2>1, Dropped
<1>5. /\ Len(x) = k /\ \A i \in 1..k : x[i] = s[i]
      /\ done \o x \in Seq(C) /\ Len(done \o x) = Len(done) + k
      /\ name = (done \o x) \o Drop(s, k)
      /\ (done \o x)[Len(done \o x)] = s[k]
  <2>1. done \in Seq(C)
    BY <1>2
  <2>2. Moved(C, done, s, k, x)
    BY <1>3, <1>4, <2>1, PieceDone
  <2> QED
    BY <1>2, <2>2 DEF Moved
<1>6. PICK new \in Seq(C) : new = done \o x
  BY <1>5
<1>7. PICK Y \in Comps(C), l \in Seq(C) : Y = UpFrom(D, p) /\ l = FlattenSeq(list)
  <2>1. UpFrom(D, p) \in Comps(C)
    BY UpIs
  <2>2. FlattenSeq(list) \in Seq(C)
    BY FlattenAppend
  <2> QED
    BY <2>1, <2>2
<1>8. LeadsTo(In(D), new) = LeadsTo(In(Y), FlattenSeq(Append(list, x)))
  <2>1. In(D) \in Places(C) /\ In(Y) \in Places(C) /\ done \in Seq(C)
    BY <1>2, InIs
  <2>2. LeadsTo(In(D), done \o x) = LeadsTo(LeadsTo(In(D), done), x)
    BY <2>1, LeadsToParts
  <2>3. LeadsTo(In(Y), l \o x) = LeadsTo(LeadsTo(In(Y), l), x)
    BY <2>1, LeadsToParts
  <2>4. FlattenSeq(Append(list, x)) = l \o x
    BY <1>7, FlattenAppend
  <2> QED
    BY <1>2, <1>6, <1>7, <2>2, <2>3, <2>4
<1>9. PICK q : q = NextRange(r)
  OBVIOUS
<1>10. q.s = Drop(s, k) /\ q.beyond = r.beyond /\ q.list = Append(list, x) /\ q.parents = p
  <2>1. q = [s |-> Drop(s, k), beyond |-> r.beyond, list |-> Append(list, x), parents |-> p]
    BY <1>1, <1>3, <1>4, <1>9, NextRangeIs
  <2> QED
    BY <2>1
<1>11. CASE s[k] = "/"
  <2>1. (\E j \in 1..Len(new) : EmptyAt(name, j)) \/ PlainList(C, Append(list, x))
    <3>1. CASE \E j \in 1..Len(done) : EmptyAt(name, j)
      <4>1. \A j \in 1..Len(done) : j \in 1..Len(new)
        BY <1>2, <1>5, <1>6
      <4> QED
        BY <3>1, <4>1
    <3>2. CASE k = 1
      <4>1. PICK m \in Nat : m = Len(done)
        BY <1>2
      <4>2. m + 1 \in 1..Len(new) /\ Len(name) = m + Len(s) /\ m + 1 \in 1..Len(name)
            /\ name[m + 1] = s[1]
        <5>1. Len(name) = Len(done) + Len(s) /\ \A i \in 1..Len(s) : name[Len(done) + i] = s[i]
          BY <1>2, Concat
        <5> QED
          BY <1>5, <1>6, <3>2, <4>1, <5>1
      <4>3. m = 0 \/ name[m] = "/"
        <5>1. CASE m # 0
          <6>1. m \in 1..m /\ done # <<>>
            BY <4>1, <5>1
          <6>2. \A i \in 1..Len(done) : name[i] = done[i]
            BY <1>2, Concat
          <6> QED
            BY <1>2, <4>1, <6>1, <6>2
        <5> QED
          BY <5>1
      <4>4. (m + 1) - 1 = m /\ (m = 0 => m + 1 = 1)
        OBVIOUS
      <4>5. ComponentAt(name, m + 1)
        BY <4>2, <4>3, <4>4 DEF ComponentAt
      <4>6. EmptyAt(name, m + 1)
        BY <1>11, <3>2, <4>2, <4>5 DEF EmptyAt
      <4> QED
        BY <4>2, <4>6
    <3>3. CASE k # 1 /\ PlainList(C, list)
      <4>1. k - 1 \in Nat \ {0} /\ x # <<>>
        BY <1>5, <3>3
      <4>2. PICK c \in Seq(C) : /\ x = c \o <<"/">> /\ Len(c) = k - 1
                                /\ \A i \in 1..(k - 1) : c[i] = x[i]
        <5>1. k \in 1..k /\ x[k] = "/"
          BY <1>5, <1>11
        <5>2. /\ Front(x) \in Seq(C) /\ x = Front(x) \o <<x[Len(x)]>>
              /\ Len(Front(x)) = Len(x) - 1
              /\ \A i \in 1..(Len(x) - 1) : Front(x)[i] = x[i]
          BY <4>1, WithoutLast
        <5>3. Len(x) = k
          BY <1>5
        <5>4. /\ Front(x) \in Seq(C) /\ x = Front(x) \o <<x[k]>>
              /\ Len(Front(x)) = k - 1
              /\ \A i \in 1..(k - 1) : Front(x)[i] = x[i]
          BY <5>2, <5>3, Zenon
        <5> QED
          BY <5>1, <5>4, Zenon
      <4>3. \A i \in 1..(k - 1) : c[i] = s[i] /\ s[i] # "/"
        <5>1. \A i \in 1..(k - 1) : i \in 1..k
          OBVIOUS
        <5> QED
          BY <1>3, <1>5, <4>2, <5>1
      <4>4. c # <<>>
        BY <4>1, <4>2
      <4>5. ASSUME c = <<".">> PROVE FALSE
        <5>1. Len(c) = 1 /\ c[1] = "."
          BY <4>5
        <5>2. k = 2 /\ 1 \in 1..(k - 1)
          <6>1. k - 1 = 1
            BY <4>2, <5>1, Zenon
          <6> QED
            BY <6>1
        <5>3. s[1] = "." /\ s[2] = "/" /\ Len(s) >= 2
          BY <1>11, <4>3, <5>1, <5>2
        <5> QED
          BY <1>1, <5>3, BeginsWithTwo DEF DotNext, Starts
      <4>6. ASSUME c = <<".", ".">> PROVE FALSE
        <5>1. Len(c) = 2 /\ c[1] = "." /\ c[2] = "."
          BY <4>6
        <5>2. k = 3 /\ 1 \in 1..(k - 1) /\ 2 \in 1..(k - 1)
          <6>1. k - 1 = 2
            BY <4>2, <5>1, Zenon
          <6> QED
            BY <6>1
        <5>3. s[1] = "." /\ s[2] = "." /\ Len(s) >= 2
          BY <4>3, <5>1, <5>2
        <5> QED
          BY <1>1, <5>3, BeginsWithTwo DEF UpNext, Starts
      <4>7. PlainName(c)
        BY <4>2, <4>3, <4>4, <4>5, <4>6 DEF PlainName
      <4>8. PICK h \in Seq(Seq(C)) :
              /\ h = Append(list, x) /\ Len(h) = Len(list) + 1 /\ h[Len(list) + 1] = x
              /\ \A j \in 1..Len(list) : h[j] = list[j]
        <5>1. list \in Seq(Seq(C)) /\ x \in Seq(C)
          OBVIOUS
        <5>2. /\ Append(list, x) \in Seq(Seq(C)) /\ Len(Append(list, x)) = Len(list) + 1
              /\ Append(list, x)[Len(list) + 1] = x
              /\ \A j \in 1..Len(list) : Append(list, x)[j] = list[j]
          BY <5>1, AppendProperties
        <5> QED
          BY <5>2, Zenon
      <4>9. ASSUME NEW j \in DOMAIN h
            PROVE  \E b \in Seq(C) : PlainName(b) /\ h[j] = b \o <<"/">>
        <5>1. j \in 1..(Len(list) + 1)
          BY <4>8
        <5>2. CASE j = Len(list) + 1
          BY <4>2, <4>7, <4>8, <5>2
        <5>3. CASE j # Len(list) + 1
          <6>1. j \in 1..Len(list) /\ j \in DOMAIN list
            BY <5>1, <5>3, SMTT(60)
          <6>2. h[j] = list[j]
            BY <4>8, <6>1
          <6> QED
            BY <3>3, <6>1, <6>2 DEF PlainList
        <5> QED
          BY <5>2, <5>3
      <4> QED
        BY <4>8, <4>9 DEF PlainList
    <3> QED
      BY <1>1, <3>1, <3>2, <3>3 DEF Reached
  <2>2. Reached(C, name, beyond, D, q, new)
    BY <1>2, <1>5, <1>6, <1>7, <1>8, <1>10, <1>11, <2>1 DEF Reached
  <2>3. Len(new) > Len(done)
    BY <1>2, <1>5, <1>6
  <2> QED
    BY <1>9, <2>2, <2>3
<1>12. CASE s[k] # "/"
  <2>1. k = Len(s)
    BY <1>3, <1>12
  <2>2. q.s = <<>>
    <3>1. Drop(s, k) = <<>>
      BY <2>1, SubSeqEmpty DEF Drop
    <3> QED
      BY <1>10, <3>1
  <2>3. name = new
    <3>1. name = new \o <<>>
      BY <1>5, <1>6, <1>10, <2>2
    <3> QED
      BY <3>1
  <2>4. q \in Reading(C)
    BY <1>9, NextRangeType
  <2>5. LeadsTo(In(D), name) = LeadsTo(In(UpFrom(D, q.parents)), FlattenSeq(q.list))
    BY <1>7, <1>8, <1>10, <2>3
  <2>6. q.parents > 0 => HasParent(name)
    BY <1>2, <1>10
  <2>7. Ended(name, D, q)
    BY <2>2, <2>4, <2>5, <2>6, EndLeads
  <2> QED
    BY <1>9, <2>7
<1> QED
  BY <1>11, <1>12

\* An iteration either ends the name or takes more of it.
LEMMA StepReads ==
  ASSUME NEW C, "/" \in C, "." \in C, NEW name \in Seq(C), NEW beyond \in Seq(C), NEW D \in Comps(C),
         NEW r \in Reading(C), NEW done, Reached(C, name, beyond, D, r, done), r.s # <<>>,
         ReadRight(name, beyond)
  PROVE  \/ Ended(name, D, NextRange(r))
         \/ \E new \in Seq(C) : /\ Len(new) > Len(done)
                                /\ Reached(C, name, beyond, D, NextRange(r), new)
<1>1. CASE DotNext(r.s)
  BY <1>1, DotStep
<1>2. CASE UpNext(r.s) /\ Len(r.s) >= 3
  BY <1>2, UpStep
<1>3. CASE UpNext(r.s) /\ ~(Len(r.s) >= 3)
  <2>1. Len(r.s) < 3
    BY <1>3 DEF Reading
  <2> QED
    BY <1>3, <2>1, UpLast
<1>4. CASE ~DotNext(r.s) /\ ~UpNext(r.s)
  BY <1>4, NameStep
<1> QED
  BY <1>1, <1>2, <1>3, <1>4

\* After i iterations the loop has ended, or read i characters at least.
Read(C, name, beyond, D, r, i) ==
  Ended(name, D, r) \/ \E done \in Seq(C) : Len(done) >= i /\ Reached(C, name, beyond, D, r, done)

\* An iteration more reads a character more.
LEMMA ReadMore ==
  ASSUME NEW C, "/" \in C, "." \in C, NEW name \in Seq(C), NEW beyond \in Seq(C), NEW D \in Comps(C),
         ReadRight(name, beyond), NEW r \in Reading(C), NEW i \in Nat,
         Read(C, name, beyond, D, r, i)
  PROVE  Read(C, name, beyond, D, AfterReading(r), i + 1)
<1>1. CASE Ended(name, D, r)
  BY <1>1 DEF Ended, AfterReading, Read
<1>2. CASE \E done \in Seq(C) : Len(done) >= i /\ Reached(C, name, beyond, D, r, done)
  <2>1. PICK done \in Seq(C) : Len(done) >= i /\ Reached(C, name, beyond, D, r, done)
    BY <1>2
  <2>2. CASE r.s = <<>>
    <3>1. Ended(name, D, r)
      BY <2>1, <2>2, ReachedEnd
    <3> QED
      BY <2>2, <3>1 DEF AfterReading, Read
  <2>3. CASE r.s # <<>>
    <3>1. AfterReading(r) = NextRange(r)
      BY <2>3 DEF AfterReading
    <3>2. CASE Ended(name, D, NextRange(r))
      BY <3>1, <3>2 DEF Read
    <3>3. CASE \E new \in Seq(C) : /\ Len(new) > Len(done)
                                   /\ Reached(C, name, beyond, D, NextRange(r), new)
      <4>1. PICK new \in Seq(C) : /\ Len(new) > Len(done)
                                  /\ Reached(C, name, beyond, D, NextRange(r), new)
        BY <3>3
      <4>2. Len(new) >= i + 1
        BY <2>1, <4>1
      <4> QED
        BY <3>1, <4>1, <4>2 DEF Read
    <3> QED
      BY <2>1, <2>3, <3>2, <3>3, StepReads
  <2> QED
    BY <2>2, <2>3
<1> QED
  BY <1>1, <1>2 DEF Read

\* get_filename_cptrs: the components that are kept lead, from as many directories
\* above D as are counted, where the name leads from D.
LEMMA ReadsRight ==
  ASSUME NEW C, "/" \in C, "." \in C, NEW name \in Seq(C), NEW beyond \in Seq(C), NEW D \in Comps(C),
         ReadRight(name, beyond)
  PROVE  Ranges(name, beyond) \in Reading(C) /\ Ended(name, D, Ranges(name, beyond))
<1>1. PICK n \in Nat : n = Len(name) + Len(beyond)
  OBVIOUS
<1>2. PICK f \in [0..n -> Reading(C)] : Reads(f, name, beyond, n) /\ Ranges(name, beyond) = f[n]
  BY <1>1, RangesIs
<1> DEFINE T == {i \in 0..n : Read(C, name, beyond, D, f[i], i)}
<1>3. 0 \in T
  <2>1. f[0] = [s |-> name, beyond |-> beyond, list |-> <<>>, parents |-> 0]
    BY <1>2 DEF Reads, FirstReading
  <2>2. PICK r : r = f[0]
    OBVIOUS
  <2>3. r.s = name /\ r.beyond = beyond /\ r.list = <<>> /\ r.parents = 0
    BY <2>1, <2>2
  <2>4. FlattenSeq(<<>>) = <<>> /\ UpFrom(D, 0) = D /\ In(D) \in Places(C)
    <3>1. 0 \in Nat
      OBVIOUS
    <3> QED
      BY <3>1, UpIs, InIs DEF FlattenSeq
  <2>5. LeadsTo(In(D), <<>>) = LeadsTo(In(UpFrom(D, r.parents)), FlattenSeq(r.list))
    BY <2>3, <2>4
  <2>6. name = <<>> \o r.s /\ <<>> \in Seq(C) /\ Len(<<>>) >= 0 /\ ~(r.parents > 0)
    BY <2>3
  <2>7. PlainList(C, r.list)
    BY <2>3 DEF PlainList
  <2>8. Reached(C, name, beyond, D, r, <<>>)
    BY <2>3, <2>5, <2>6, <2>7 DEF Reached
  <2>9. Read(C, name, beyond, D, f[0], 0)
    BY <2>2, <2>6, <2>8 DEF Read
  <2> QED
    BY <1>1, <2>9
<1>4. ASSUME NEW i \in 1..n, i - 1 \in T PROVE i \in T
  <2>1. i - 1 \in Nat /\ i - 1 \in 0..n /\ (i - 1) + 1 = i /\ i \in 0..n
    BY <1>1
  <2>2. f[i] = AfterReading(f[i - 1]) /\ f[i - 1] \in Reading(C)
    BY <1>2, <2>1 DEF Reads
  <2>3. Read(C, name, beyond, D, AfterReading(f[i - 1]), (i - 1) + 1)
    BY <1>4, <2>1, <2>2, ReadMore
  <2> QED
    BY <2>1, <2>2, <2>3
<1> HIDE DEF T
<1>5. n \in T
  <2>1. \A i \in 0..n : i \in T
    BY <1>3, <1>4, Climb
  <2> QED
    BY <2>1
<1>6. Read(C, name, beyond, D, f[n], n) /\ f[n] \in Reading(C)
  <2>1. n \in 0..n
    OBVIOUS
  <2> QED
    BY <1>5, <2>1 DEF T
<1>7. ASSUME NEW done \in Seq(C), Len(done) >= n, Reached(C, name, beyond, D, f[n], done)
      PROVE  Ended(name, D, f[n])
  <2>1. PICK s \in Seq(C) : s = f[n].s
    BY <1>6 DEF Reading
  <2>2. name = done \o s
    BY <1>7, <2>1 DEF Reached
  <2>3. Len(name) = Len(done) + Len(s) /\ Len(name) <= n
    BY <1>1, <2>2, Concat
  <2>4. Len(s) = 0
    BY <1>7, <2>3
  <2>5. f[n].s = <<>>
    BY <2>1, <2>4, EmptySeq
  <2> QED
    BY <1>6, <1>7, <2>5, ReachedEnd
<1> QED
  BY <1>2, <1>6, <1>7 DEF Read

\* get_dir_cptr leaves the text of a directory, from which n components are gone.
LEMMA DirEndLeads ==
  ASSUME NEW C, "/" \in C, NEW dir \in Seq(C), DirText(dir), NEW D \in Comps(C),
         LeadsTo(Root, dir) = In(D), \A k \in 1..Len(dir) : Above(dir, D, k),
         NEW n \in Nat, n > 0 => Len(dir) # 1
  PROVE  /\ DirEnd(dir, n) \in 1..Len(dir)
         /\ LeadsTo(Root, SubSeq(dir, 1, DirEnd(dir, n))) = In(UpFrom(D, n))
<1>1. PICK m \in Nat : m = Len(dir) /\ m >= 1
  <2>1. Len(dir) \in Nat /\ Len(dir) >= 1
    BY EmptySeq DEF DirText
  <2> QED
    BY <2>1
<1>2. CASE n = 0
  <2>1. DirEnd(dir, n) = m /\ m \in 1..m
    BY <1>1, <1>2 DEF DirEnd
  <2>2. SubSeq(dir, 1, m) = dir
    BY <1>1, SubSeqFull
  <2>3. UpFrom(D, 0) = D
    <3>1. 0 \in Nat
      OBVIOUS
    <3> QED
      BY <3>1, UpIs
  <2> QED
    BY <1>1, <1>2, <2>1, <2>2, <2>3
<1>3. CASE n # 0
  <2>1. n \in Nat \ {0} /\ m # 1 /\ m > 1
    BY <1>1, <1>3
  <2> DEFINE found == NthSlash(dir, n, 2, m - 1)
  <2>2. \A k : k \in found <=> k \in 2..(m - 1) /\ dir[k] = "/" /\ SlashesFrom(dir, k) = n
    BY <1>1 DEF NthSlash, SlashesFrom
  <2>3. DirEnd(dir, n) = IF found # {} THEN CHOOSE k \in found : TRUE ELSE 1
    BY <1>1, <1>3, <2>1 DEF DirEnd
  <2> HIDE DEF found
  <2>4. PICK e : e = DirEnd(dir, n)
    OBVIOUS
  <2>5. Cut(dir, n, e) /\ e \in 1..m
    <3>1. CASE found # {}
      <4>1. e \in found
        BY <2>3, <2>4, <3>1
      <4>2. e \in 2..(m - 1) /\ dir[e] = "/" /\ SlashesFrom(dir, e) = n
        BY <2>2, <4>1
      <4>3. e \in 1..(m - 1) /\ e \in 1..m
        BY <4>2
      <4> QED
        BY <1>1, <4>2, <4>3 DEF Cut
    <3>2. CASE found = {}
      <4>1. e = 1 /\ 1 \in 1..m
        BY <1>1, <2>3, <2>4, <3>2
      <4>2. \A k \in 2..(m - 1) : dir[k] = "/" => SlashesFrom(dir, k) # n
        BY <2>2, <3>2
      <4> QED
        BY <1>1, <4>1, <4>2 DEF Cut
    <3> QED
      BY <3>1, <3>2
  <2>6. LeadsTo(Root, SubSeq(dir, 1, e)) = In(UpFrom(D, n))
    BY <2>1, <2>5, CutLeads
  <2> QED
    BY <1>1, <2>4, <2>5, <2>6
<1> QED
  BY <1>2, <1>3

\* fprint_relative_filename prints the text of the same file.
LEMMA RelativeLeads ==
  ASSUME NEW C, "/" \in C, "." \in C, NEW dir \in Seq(C), DirText(dir),
         NEW name \in Seq(C), name # <<>>, NEW beyond \in Seq(C), ~Misread(dir, name, beyond)
  PROVE  NamesSame(Relative(dir, name, beyond), dir, name)
<1>1. ReadRight(name, beyond) /\ (Len(dir) = 1 => ~HasParent(name))
  BY DEF Misread, ReadRight, HasParent
<1>2. PICK D \in Comps(C) : LeadsTo(Root, dir) = In(D) /\ \A k \in 1..Len(dir) : Above(dir, D, k)
  BY AboveAll
<1>3. PICK r \in Reading(C) : r = Ranges(name, beyond) /\ Ended(name, D, r)
  BY <1>1, ReadsRight
<1>4. PICK p \in Nat, l \in Seq(C) : p = r.parents /\ l = FlattenSeq(r.list)
  <2>1. r.parents \in Nat /\ r.list \in Seq(Seq(C))
    BY DEF Reading
  <2>2. FlattenSeq(r.list) \in Seq(C)
    BY <2>1, FlattenAppend
  <2> QED
    BY <2>1, <2>2
<1>5. p > 0 => Len(dir) # 1
  BY <1>1, <1>3, <1>4 DEF Ended
<1>6. PICK e \in 1..Len(dir) : /\ e = DirEnd(dir, p)
                               /\ LeadsTo(Root, SubSeq(dir, 1, e)) = In(UpFrom(D, p))
  BY <1>2, <1>5, DirEndLeads
<1>7. PICK d \in Seq(C) : d = SubSeq(dir, 1, e)
  <2>1. e \in 0..Len(dir)
    OBVIOUS
  <2> QED
    BY <2>1, Dropped
<1>8. Relative(dir, name, beyond) = d \o l
  BY <1>3, <1>4, <1>6, <1>7 DEF Relative
<1>9. PICK t \in Seq(C) : t = <<"/">>
  <2>1. <<"/">> \in Seq(C)
    OBVIOUS
  <2> QED
    BY <2>1
<1>10. Root \in Places(C)
  BY RootIs
<1>11. LeadsTo(Root, (d \o l) \o t) = LeadsTo(In(UpFrom(D, p)), l \o t)
  <2>1. LeadsTo(Root, (d \o l) \o t) = LeadsTo(LeadsTo(Root, d), l \o t)
    BY <1>10, LeadsToThree
  <2> QED
    BY <1>6, <1>7, <2>1, Zenon
<1>12. LeadsTo(Root, (dir \o name) \o t) = LeadsTo(In(D), name \o t)
  <2>1. LeadsTo(Root, (dir \o name) \o t) = LeadsTo(LeadsTo(Root, dir), name \o t)
    BY <1>10, LeadsToThree
  <2> QED
    BY <1>2, <2>1, Zenon
<1>13. LeadsTo(In(D), name \o t) = LeadsTo(In(UpFrom(D, p)), l \o t)
  BY <1>3, <1>4, <1>9 DEF Ended
<1>14. Denoted(d \o l) = Denoted(dir \o name)
  BY <1>9, <1>11, <1>12, <1>13 DEF Denoted
<1>15. IsPrefix(<<"/">>, d \o l)
  BY <1>7, BeginsText DEF DirText
<1> QED
  BY <1>8, <1>14, <1>15 DEF NamesSame

\* What is printed was printed for the directory in the record.
PrintedOK ==
  \/ printed = NotPrinted
  \/ /\ phase = "done" /\ target.isDir
     /\ printed.name \in FileNames /\ printed.beyond \in Beyond
     /\ printed.text = Relative(PathText, printed.name, printed.beyond)

\* What is printed stays, and is about a record that stays.
LEMMA PrintedKept == PrintedOK /\ [PathsNext]_allVars => PrintedOK'
<1> SUFFICES ASSUME PrintedOK, [PathsNext]_allVars PROVE PrintedOK'
  OBVIOUS
<1>1. CASE UNCHANGED allVars
  <2>1. PathText' = PathText
    BY <1>1 DEF allVars, vars, PathText
  <2> QED
    BY <1>1, <2>1 DEF allVars, vars, PrintedOK
<1>2. CASE WalkStep
  <2>1. printed' = printed /\ phase = "walk"
    BY <1>2 DEF WalkStep, Next, CrossMount, TakeName, Finish
  <2>2. printed = NotPrinted
    BY <2>1 DEF PrintedOK
  <2> QED
    BY <2>1, <2>2 DEF PrintedOK
<1>3. ASSUME NEW name \in FileNames, PrintName(name) PROVE PrintedOK'
  <2>1. PICK beyond \in Beyond :
          printed' = [name |-> name, beyond |-> beyond,
                      text |-> Relative(PathText, name, beyond)]
    BY <1>3 DEF PrintName
  <2>2. PathText' = PathText /\ phase' = "done" /\ target'.isDir
    BY <1>3 DEF PrintName, vars, PathText
  <2> QED
    BY <2>1, <2>2 DEF PrintedOK
<1> QED
  BY <1>1, <1>2, <1>3 DEF PathsNext

\* The text that the callback prints for a relative name is that of the same file,
\* but for the names that get_filename_cptrs misreads.
THEOREM FilesRight == PathsSpec => []RelativeRight
<1>1. PInv /\ DirOK /\ PrintedOK => RelativeRight
  <2> SUFFICES ASSUME PInv, DirOK, PrintedOK, printed.name # <<>>,
                      ~Misread(PathText, printed.name, printed.beyond)
               PROVE  NamesSame(printed.text, PathText, printed.name)
    BY DEF RelativeRight
  <2> DEFINE C == Chars \union {".", Slash}
  <2>1. /\ phase = "done" /\ target.isDir
        /\ printed.name \in FileNames /\ printed.beyond \in Beyond
        /\ printed.text = Relative(PathText, printed.name, printed.beyond)
    BY DEF PrintedOK, NotPrinted
  <2>2. PICK dir \in Seq(C) : dir = PathText /\ DirText(dir)
    <3>1. PathText \in Seq(Chars \union {Slash}) /\ DirText(PathText)
      BY <2>1 DEF DirOK, Text
    <3>2. Seq(Chars \union {Slash}) \subseteq Seq(C)
      OBVIOUS
    <3> QED
      BY <3>1, <3>2
  <2>3. PICK name \in Seq(C), beyond \in Seq(C) : name = printed.name /\ beyond = printed.beyond
    BY <2>1, PathsAssumption
  <2>4. "/" \in C /\ "." \in C
    BY PathsAssumption
  <2> HIDE DEF C
  <2>5. NamesSame(Relative(dir, name, beyond), dir, name)
    BY <2>2, <2>3, <2>4, RelativeLeads
  <2> QED
    BY <2>1, <2>2, <2>3, <2>5
<1>2. PathsSpec => Spec
  <2>1. PathsInit => Init
    BY DEF PathsInit
  <2>2. [PathsNext]_allVars => [Next]_vars
    BY DEF PathsNext, WalkStep, PrintName, allVars, vars
  <2> QED
    BY <2>1, <2>2, PTL DEF PathsSpec, Spec
<1>3. PathsInit => PrintedOK
  BY DEF PathsInit, PrintedOK
<1> QED
  BY <1>1, <1>2, <1>3, DirKept, PrintedKept, PTL DEF PathsSpec
=============================================================================
