---------------------------- MODULE AccountsProofs ----------------------------
(***************************************************************************)
(* Proofs about Accounts: what a crash of the logger needs, that it frees  *)
(* the texts it replaces, and that the baselines follow the files.         *)
(***************************************************************************)
EXTENDS Accounts, SequenceLemmas, FiniteSetTheorems

\* The types of the files that the callbacks act upon.
Logged == Kinds \cup {"sudoers_dir"}

Buffers == [1..Size -> Char]

WriteRecords == [call: {"write"}, type: Logged, ret: Int, buffer: Buffers]

\* A file is not taken for an account file whose path is not the beginning of its.
RenameRecords ==
  {r \in [call: {"rename"}, type: Logged, path: Paths, form: Forms] :
     r.type \in Kinds => MayBe(r.type, r.path)}

OtherRecords ==
  [call: {"write"}, type: {"other"}, ret: Int, buffer: {<<>>}]
    \cup [call: {"rename"}, type: {"other"}, path: Paths, form: Forms]

Records == WriteRecords \cup RenameRecords \cup OtherRecords

\* The files that the logger may have open.
Readings ==
  [type: Logged, path: Paths, text: Seq(Char), size: Nat, linked: BOOLEAN]

PastOK ==
  past \in [kept: {past.kept}, missing: BOOLEAN, unfit: BOOLEAN, grown: BOOLEAN,
            dropins: Nat, versions: {past.versions}]

\* The variables that the proofs speak of have their types.
TypeOK ==
  /\ file \in [Paths -> Seq(Char) \cup {NoText}]
  /\ doing \in [Threads -> SUBSET Records]
  /\ DOMAIN ring = {"write", "rename"}
  /\ ring["write"] \in Seq(WriteRecords)
  /\ ring["rename"] \in Seq(RenameRecords)
  /\ DOMAIN baseline = Kinds
  /\ toRead \subseteq Kinds /\ reading \subseteq Readings /\ alive \in BOOLEAN
  /\ texts \in Nat
  /\ PastOK

\* A file is read for users_groups_init, or for the first record of a rename.  That
\* it has grown is remembered, and what is found in it.
ReadingOK ==
  \A r \in reading :
    /\ reading = {r}
    /\ r.type \in Kinds => MayBe(r.type, r.path) /\ FileLines[r.text] \in past.versions[r.type]
    /\ InSize(r) \/ past.grown
    /\ IF toRead = {} THEN ring["rename"] # <<>> /\ Head(ring["rename"]).type = r.type
       ELSE r.type \in toRead

\* That a write on its way does not fit is remembered; of another, its text.
RingOK ==
  \A i \in 1..Len(ring["write"]) :
    LET r == ring["write"][i] IN
    /\ Fits(r) \/ past.unfit
    /\ r.type \in Kinds /\ Fits(r) => RecordLines(r) \subseteq past.versions[r.type]

\* A baseline that has been read is missing only where its file was.
BaselinesOK ==
  /\ \A k \in toRead : baseline[k] = {}
  /\ past.missing \/ \A k \in Kinds \ toRead : baseline[k] # {}

\* The texts that the files have are remembered, and those of the baselines.
VersionsOK ==
  \A k \in Kinds :
    /\ \A p \in Paths : MayBe(k, p) /\ file[p] # NoText
                          => FileLines[file[p]] \in past.versions[k]
    /\ past.unfit \/ baseline[k] \subseteq past.versions[k]

\* The record of a write has the text, which it is to put in place of its last
\* newline the terminator.
Carries(r, text) ==
  /\ text \in Seq(Char) /\ Len(text) \in 1..(Size - 2) /\ r.ret = Len(text)
  /\ text[Len(text)] = Newline
  /\ \A i \in 1..Len(text) :
       text[i] # Nul /\ r.buffer[i] = IF i < Len(text) THEN text[i] ELSE Nul

\* What the callback will make of a record of account file k: the text of the file
\* or, of the record of a failed write, a crash.
Brings(k, r) ==
  \/ r.call = "write" /\ (r.ret = -1 \/ Carries(r, file[PathOf(k)]))
  \/ r.call = "rename" /\ r.path = PathOf(k) /\ file[PathOf(k)] # NoText

\* The rename records behind the one whose file is being read.
Behind == IF toRead = {} /\ reading # {} THEN Tail(ring["rename"]) ELSE ring["rename"]

\* The records of account file k that are looked at when that has been read.
Coming(k) ==
  {r \in UNION ({doing[t] : t \in Threads} \cup {ToSet(ring["write"]), ToSet(Behind)}) :
     r.type = k}

\* All that is on its way for account file k brings its text; if nothing is, the
\* baseline has it, or what is being read.
Following(k) ==
  /\ \A r \in Outstanding(k) : Brings(k, r)
  /\ k \notin toRead /\ alive /\ fdsLeft >= 2 /\ Outstanding(k) = {} => Current(k)
  /\ \A r \in reading :
       r.type = k /\ Coming(k) = {} => r.path = PathOf(k) /\ r.text = file[PathOf(k)]

FollowOK == \A k \in Kinds : past.kept[k] => Following(k)

\* A thread has one call.
FilesOK ==
  /\ fdsLeft \in Int
  /\ \A t \in Threads : \A r \in doing[t] : doing[t] = {r}

AInv ==
  /\ TypeOK /\ ReadingOK /\ RingOK /\ BaselinesOK /\ VersionsOK
  /\ CrashExplained /\ NoOtherTexts

FInv == AInv /\ FilesOK /\ FollowOK

-----------------------------------------------------------------------------
(* The texts of records *)

LEMMA OverType ==
  ASSUME NEW text \in Seq(Char)
  PROVE  Over(text, Size) \in Buffers
<1>1. \A i \in 1..Size : (IF i <= Len(text) THEN text[i] ELSE Stale) \in Char
  BY TextAssumption
<1> QED
  BY <1>1 DEF Over, Buffers

LEMMA BeginningType ==
  ASSUME NEW text \in Seq(Char), NEW n \in 0..Len(text)
  PROVE  /\ SubSeq(text, 1, n) \in Seq(Char) /\ Len(SubSeq(text, 1, n)) = n
         /\ \A i \in 1..n : SubSeq(text, 1, n)[i] = text[i]
<1>1. \A i \in 1..n : text[i] \in Char
  OBVIOUS
<1> QED
  BY <1>1, SubSeqProperties

LEMMA EnteredType ==
  ASSUME NEW text \in Seq(Char), NEW unread \in BOOLEAN
  PROVE  Entered(text, unread) \in Buffers
<1> DEFINE n == Len(text) % Size
           read == IF n = 0 THEN <<>>
                   ELSE IF unread THEN [i \in 1..n |-> Nul]
                   ELSE Append(SubSeq(text, 1, n - 1), Nul)
<1>1. n \in Nat /\ n <= Len(text)
  BY TextAssumption, Z3
<1> HIDE DEF n
<1>2. Nul \in Char
  BY TextAssumption
<1>3. ASSUME n # 0, unread PROVE read \in Seq(Char)
  <2>1. [i \in 1..n |-> Nul] \in [1..n -> Char]
    BY <1>2
  <2>2. [i \in 1..n |-> Nul] \in Seq(Char)
    BY <1>1, <2>1, SeqDef
  <2> QED
    BY <1>3, <2>2
<1>4. ASSUME n # 0, ~unread PROVE read \in Seq(Char)
  <2>1. SubSeq(text, 1, n - 1) \in Seq(Char)
    BY <1>1, <1>4, BeginningType
  <2> QED
    BY <1>2, <1>4, <2>1
<1>5. read \in Seq(Char)
  BY <1>3, <1>4
<1> HIDE DEF read
<1>6. Over(read, Size) \in Buffers
  BY <1>5, OverType
<1> QED
  BY <1>6 DEF Entered, read, n

LEMMA RecordedType ==
  ASSUME NEW buffer \in Buffers, NEW ret \in Int
  PROVE  Recorded(buffer, ret) \in Buffers
<1> DEFINE n == IF ret > 0 THEN (ret + 1) % Size ELSE Size
<1>1. buffer \in Seq(Char) /\ Len(buffer) = Size
  BY TextAssumption, SeqDef DEF Buffers
<1>2. n \in 0..Size
  BY TextAssumption, Z3
<1> HIDE DEF n
<1>3. SubSeq(buffer, 1, n) \in Seq(Char)
  BY <1>1, <1>2, BeginningType
<1>4. Over(SubSeq(buffer, 1, n), Size) \in Buffers
  BY <1>3, OverType
<1> QED
  BY <1>4 DEF Recorded, n

-----------------------------------------------------------------------------
(* The lines of a text *)

\* And a greatest one, if it is bounded.
LEMMA Greatest ==
  ASSUME NEW m \in Nat, NEW T, T \subseteq 1..m, T # {}
  PROVE  \E x \in T : \A y \in T : y <= x
<1> DEFINE U == {m - x : x \in T}
<1>1. U \subseteq Nat /\ U # {}
  <2>1. \A x \in T : m - x \in Nat
    OBVIOUS
  <2>2. PICK x \in T : TRUE
    OBVIOUS
  <2> QED
    BY <2>1, <2>2
<1>2. PICK u \in U : \A v \in U : u <= v
  BY <1>1, Least
<1>3. PICK x \in T : u = m - x
  OBVIOUS
<1>4. ASSUME NEW y \in T
      PROVE  y <= x
  <2>1. m - x <= m - y
    BY <1>2, <1>3
  <2> QED
    BY <2>1
<1> QED
  BY <1>4

\* The members of a set of numbers can be counted up.
LEMMA Ranked ==
  ASSUME NEW m \in Nat, NEW S, S \subseteq 1..m, NEW n \in 1..Cardinality(S)
  PROVE  \E i \in S : Cardinality({j \in S : j <= i}) = n
<1> DEFINE UpToThe(i) == {j \in S : j <= i}
           T == {i \in S : Cardinality(UpToThe(i)) >= n}
<1>1. IsFiniteSet(S) /\ \A i : IsFiniteSet(UpToThe(i)) /\ Cardinality(UpToThe(i)) \in Nat
  <2>1. IsFiniteSet(1..m)
    BY FS_Interval
  <2>2. IsFiniteSet(S)
    BY <2>1, FS_Subset
  <2> QED
    BY <2>2, FS_Subset, FS_CardinalityType
<1>2. Cardinality(S) \in Nat /\ n \in Nat /\ n >= 1 /\ n <= Cardinality(S)
  BY <1>1, FS_CardinalityType
<1>3. S # {}
  BY <1>2, FS_EmptySet
<1>4. PICK top \in S : \A j \in S : j <= top
  BY <1>3, Greatest
<1>5. UpToThe(top) = S
  BY <1>4
<1>6. top \in T
  BY <1>2, <1>5
<1> HIDE DEF UpToThe
<1>7. PICK i \in T : \A j \in T : i <= j
  <2>1. S \subseteq Nat
    OBVIOUS
  <2>2. T \subseteq S
    OBVIOUS
  <2> HIDE DEF T
  <2> QED
    BY <1>6, <2>1, <2>2, Least
<1>8. i \in S /\ Cardinality(UpToThe(i)) >= n
  BY <1>7 DEF T
<1> HIDE DEF T
<1> DEFINE below == {j \in S : j < i}
<1>9. /\ UpToThe(i) = below \cup {i} /\ i \notin below
      /\ below \subseteq 1..m
  <2>1. \A j \in S : j <= i <=> j < i \/ j = i
    BY <1>8
  <2>2. UpToThe(i) = below \cup {i}
    <3>1. \A j : j \in UpToThe(i) <=> j \in S /\ j <= i
      BY DEF UpToThe
    <3> QED
      BY <1>8, <2>1, <3>1
  <2>3. i \notin below
    BY <1>8
  <2> QED
    BY <2>2, <2>3
<1>10. IsFiniteSet(below) /\ Cardinality(UpToThe(i)) = Cardinality(below) + 1
  <2>1. IsFiniteSet(below)
    BY <1>1, FS_Subset
  <2> HIDE DEF below
  <2> QED
    BY <1>9, <2>1, FS_AddElement
<1>11. CASE below = {}
  <2>1. Cardinality(below) = 0
    BY <1>11, FS_EmptySet
  <2> HIDE DEF below
  <2>2. Cardinality(UpToThe(i)) = 1
    BY <1>10, <2>1
  <2>3. Cardinality(UpToThe(i)) = n
    BY <1>2, <1>8, <2>2
  <2> QED
    BY <1>8, <2>3 DEF UpToThe
<1>12. CASE below # {}
  <2>1. PICK k \in below : \A j \in below : j <= k
    BY <1>9, <1>12, Greatest
  <2>2. k \in S /\ k < i /\ i \in 1..m /\ k \in 1..m
    BY <1>8
  <2>3. UpToThe(k) = below
    <3>1. \A j \in S : j <= k <=> j < i
      <4>1. \A j \in S : j < i => j <= k
        BY <2>1
      <4>2. \A j \in S : j <= k => j < i
        BY <2>2
      <4> QED
        BY <4>1, <4>2
    <3> QED
      BY <3>1 DEF UpToThe
  <2>4. k \notin T
    BY <1>7, <2>2 DEF T
  <2>5. ~(Cardinality(below) >= n)
    BY <2>2, <2>3, <2>4 DEF T
  <2>6. Cardinality(below) \in Nat
    BY <1>1, <2>3
  <2> HIDE DEF below
  <2>7. Cardinality(UpToThe(i)) = n
    BY <1>2, <1>8, <1>10, <2>5, <2>6
  <2> QED
    BY <1>8, <2>7 DEF UpToThe
<1> QED
  BY <1>11, <1>12

\* The text from i up to the next c, when that is at m.
LEMMA UpToIs ==
  ASSUME NEW text \in Seq(Char), NEW c, NEW i \in 1..(Len(text) + 1),
         NEW m \in i..(Len(text) + 1), m = Len(text) + 1 \/ text[m] = c,
         \A j \in i..(m - 1) : text[j] # c
  PROVE  UpTo(text, i, c) = SubSeq(text, i, m - 1)
<1> DEFINE ends == {j \in i..Len(text) : text[j] = c} \cup {Len(text) + 1}
<1>1. m \in ends /\ Len(text) \in Nat
  OBVIOUS
<1>2. \A j \in ends : j \in Int /\ m <= j
  OBVIOUS
<1>3. \A x \in ends : (\A y \in ends : x =< y) => x = m
  BY <1>1, <1>2
<1> HIDE DEF ends
<1>4. Min(ends) = m
  BY <1>1, <1>2, <1>3 DEF Min
<1> QED
  BY <1>4 DEF UpTo, ends

\* The newline at the end of a text is not part of its lines.
LEMMA LastNewline ==
  ASSUME NEW text \in Seq(Char), NEW n \in Nat \ {0}, Len(text) = n, text[n] = Newline
  PROVE  Lines[text] = Lines[SubSeq(text, 1, n - 1)]
<1> DEFINE cut == SubSeq(text, 1, n - 1)
           starts == Starts(text)
<1>1. /\ cut \in Seq(Char) /\ Len(cut) = n - 1
      /\ \A i \in 1..(n - 1) : cut[i] = text[i]
  <2>1. n - 1 \in 0..Len(text)
    OBVIOUS
  <2> QED
    BY <2>1, BeginningType, SubSeqProperties
<1> HIDE DEF cut
<1>2. Starts(cut) = starts /\ starts \subseteq 1..n
  BY <1>1 DEF Starts
<1>3. ASSUME NEW i \in 1..n
      PROVE  UpTo(text, i, Newline) = UpTo(cut, i, Newline)
  <2> DEFINE ends == {j \in i..(n - 1) : text[j] = Newline} \cup {n}
  <2>1. ends \subseteq Nat /\ ends # {}
    OBVIOUS
  <2>2. PICK m \in ends : \A j \in ends : m <= j
    BY <2>1, Least
  <2>3. m \in i..n /\ text[m] = Newline /\ (m = n \/ cut[m] = Newline)
    BY <1>1
  <2>4. \A j \in i..(m - 1) : text[j] # Newline /\ cut[j] # Newline
    BY <1>1, <2>2, <2>3
  <2> HIDE DEF ends
  <2>5. UpTo(text, i, Newline) = SubSeq(text, i, m - 1)
    <3>1. i \in 1..(Len(text) + 1) /\ m \in i..(Len(text) + 1)
      BY <2>3
    <3> QED
      BY <2>3, <2>4, <3>1, UpToIs
  <2>6. UpTo(cut, i, Newline) = SubSeq(cut, i, m - 1)
    BY <1>1, <2>3, <2>4, UpToIs
  <2>7. SubSeq(text, i, m - 1) = SubSeq(cut, i, m - 1)
    BY <1>1, <2>3
  <2> QED
    BY <2>5, <2>6, <2>7
<1>4. ASSUME NEW k \in 1..Cardinality(starts)
      PROVE  LET i == CHOOSE i \in starts : Cardinality({j \in starts : j <= i}) = k
             IN  UpTo(text, i, Newline) = UpTo(cut, i, Newline)
  <2>1. \E i \in starts : Cardinality({j \in starts : j <= i}) = k
    BY <1>2, Ranked
  <2>2. (CHOOSE i \in starts : Cardinality({j \in starts : j <= i}) = k) \in 1..n
    BY <1>2, <2>1
  <2> QED
    BY <1>3, <2>2
<1>5. Lines[cut] = [k \in 1..Cardinality(starts) |->
         UpTo(cut, CHOOSE i \in starts : Cardinality({j \in starts : j <= i}) = k, Newline)]
  BY <1>1, <1>2 DEF Lines
<1>6. Lines[text] = [k \in 1..Cardinality(starts) |->
         UpTo(text, CHOOSE i \in starts : Cardinality({j \in starts : j <= i}) = k, Newline)]
  BY DEF Lines
<1> DEFINE At(k) == CHOOSE i \in starts : Cardinality({j \in starts : j <= i}) = k
<1>7. Lines[text] = Lines[cut]
  <2>1. Lines[text] = [k \in 1..Cardinality(starts) |-> UpTo(text, At(k), Newline)]
    BY <1>6
  <2>2. Lines[cut] = [k \in 1..Cardinality(starts) |-> UpTo(cut, At(k), Newline)]
    BY <1>5
  <2>3. \A k \in 1..Cardinality(starts) : UpTo(text, At(k), Newline) = UpTo(cut, At(k), Newline)
    BY <1>4
  <2> HIDE DEF At, starts
  <2> QED
    BY <2>1, <2>2, <2>3
<1> QED
  BY <1>7 DEF cut

-----------------------------------------------------------------------------
(* A text that is written whole *)

\* on_sys_enter_write takes all of it.
LEMMA EnteredCarries ==
  ASSUME NEW text \in Seq(Char), Len(text) \in 1..(Size - 2), text[Len(text)] = Newline,
         \A i \in 1..Len(text) : text[i] # Nul,
         NEW r, r.ret = Len(text), r.buffer = Entered(text, FALSE)
  PROVE  Carries(r, text)
<1> DEFINE n == Len(text)
           read == Append(SubSeq(text, 1, n - 1), Nul)
<1>1. n \in Nat /\ n # 0 /\ n < Size /\ Size \in Nat
  BY TextAssumption
<1>2. n % Size = n
  BY <1>1
<1>3. Entered(text, FALSE) = Over(read, Size)
  BY <1>1, <1>2 DEF Entered
<1>4. /\ SubSeq(text, 1, n - 1) \in Seq(Char) /\ Len(SubSeq(text, 1, n - 1)) = n - 1
      /\ \A i \in 1..(n - 1) : SubSeq(text, 1, n - 1)[i] = text[i]
  <2>1. n - 1 \in 0..Len(text)
    BY <1>1
  <2> QED
    BY <2>1, BeginningType
<1>5. /\ Len(read) = n
      /\ \A i \in 1..n : read[i] = IF i < n THEN text[i] ELSE Nul
  <2> DEFINE cut == SubSeq(text, 1, n - 1)
  <2>1. cut \in Seq(Char) /\ Len(cut) = n - 1 /\ Nul \in Char
    BY <1>4, TextAssumption
  <2>2. \A i \in 1..(n - 1) : cut[i] = text[i]
    BY <1>4
  <2> HIDE DEF cut
  <2>3. Len(Append(cut, Nul)) = n
    BY <1>1, <2>1
  <2>4. \A i \in 1..n : Append(cut, Nul)[i] = IF i < n THEN text[i] ELSE Nul
    BY <1>1, <2>1, <2>2
  <2> QED
    BY <2>3, <2>4 DEF cut
<1> HIDE DEF read
<1>6. \A i \in 1..n : Over(read, Size)[i] = IF i < n THEN text[i] ELSE Nul
  BY <1>1, <1>5 DEF Over
<1> QED
  BY <1>3, <1>6 DEF Carries

\* on_sys_exit_write sends all of it.
LEMMA RecordedCarries ==
  ASSUME NEW text, NEW r \in WriteRecords, Carries(r, text)
  PROVE  Carries([r EXCEPT !.buffer = Recorded(@, r.ret)], text)
<1> DEFINE n == r.ret
           sent == SubSeq(r.buffer, 1, n + 1)
           w == [r EXCEPT !.buffer = Recorded(@, r.ret)]
<1>1. n = Len(text) /\ n \in 1..(Size - 2) /\ Size \in Nat
  BY TextAssumption DEF Carries
<1>2. (n + 1) % Size = n + 1 /\ n > 0
  BY <1>1
<1>3. Recorded(r.buffer, n) = Over(sent, Size)
  BY <1>2 DEF Recorded
<1>4. r.buffer \in Buffers
  BY DEF WriteRecords
<1>5. r.buffer \in Seq(Char) /\ Len(r.buffer) = Size
  BY <1>1, <1>4, SeqDef DEF Buffers
<1>6. Len(sent) = n + 1 /\ \A i \in 1..n : sent[i] = r.buffer[i]
  BY <1>1, <1>5
<1> HIDE DEF sent
<1>7. \A i \in 1..n : Over(sent, Size)[i] = r.buffer[i]
  BY <1>1, <1>6 DEF Over
<1>8. w.ret = n /\ w.buffer = Recorded(r.buffer, n)
  BY DEF WriteRecords
<1> HIDE DEF w
<1>9. \A i \in 1..n : w.buffer[i] = r.buffer[i]
  BY <1>3, <1>7, <1>8
<1>10. Carries(w, text)
  BY <1>1, <1>8, <1>9 DEF Carries
<1> QED
  BY <1>10 DEF w

\* And text_buffer_init finds its lines, as text_filename_init does in the file.
LEMMA CarriedLines ==
  ASSUME NEW text, NEW r \in WriteRecords, Carries(r, text), NEW after \in Char
  PROVE  BufferInit(r.buffer, r.ret, after) = FileLines[text]
<1> DEFINE n == Len(text)
           memory == Over(r.buffer, n) \o <<after>>
<1>1. /\ text \in Seq(Char) /\ n \in 1..(Size - 2) /\ Size \in Nat /\ r.ret = n
      /\ text[n] = Newline
      /\ \A i \in 1..n : text[i] # Nul /\ r.buffer[i] = IF i < n THEN text[i] ELSE Nul
  BY TextAssumption DEF Carries
<1>2. r.buffer \in Seq(Char) /\ Len(r.buffer) = Size
  BY <1>1, SeqDef DEF Buffers, WriteRecords
<1>3. /\ Over(r.buffer, n) \in Seq(Char) /\ Len(Over(r.buffer, n)) = n
      /\ \A i \in 1..n : Over(r.buffer, n)[i] = r.buffer[i]
  <2>1. Over(r.buffer, n) = [i \in 1..n |-> r.buffer[i]]
    BY <1>1, <1>2 DEF Over
  <2>2. [i \in 1..n |-> r.buffer[i]] \in [1..n -> Char]
    BY <1>1, <1>2
  <2>3. Over(r.buffer, n) \in Seq(Char)
    BY <1>1, <2>1, <2>2, SeqDef
  <2> QED
    BY <1>1, <2>1, <2>3
<1>4. /\ memory \in Seq(Char) /\ Len(memory) = n + 1
      /\ \A i \in 1..n : memory[i] = r.buffer[i]
  <2> DEFINE over == Over(r.buffer, n)
  <2> HIDE DEF over
  <2>1. over \in Seq(Char) /\ Len(over) = n /\ \A i \in 1..n : over[i] = r.buffer[i]
    BY <1>3 DEF over
  <2>2. /\ over \o <<after>> \in Seq(Char) /\ Len(over \o <<after>>) = n + 1
        /\ \A i \in 1..n : (over \o <<after>>)[i] = r.buffer[i]
    BY <1>1, <2>1
  <2> QED
    BY <2>2 DEF over
<1>5. BufferInit(r.buffer, r.ret, after) = BufferLines[memory]
  BY <1>1 DEF BufferInit
<1> HIDE DEF memory
<1>6. UpTo(memory, 1, Nul) = SubSeq(memory, 1, n - 1)
  <2>1. 1 \in 1..(Len(memory) + 1) /\ n \in 1..(Len(memory) + 1)
    BY <1>1, <1>4
  <2>2. memory[n] = Nul
    BY <1>1, <1>4
  <2>3. \A j \in 1..(n - 1) : memory[j] # Nul
    BY <1>1, <1>4
  <2> QED
    BY <1>4, <2>1, <2>2, <2>3, UpToIs
<1>7. SubSeq(memory, 1, n - 1) = SubSeq(text, 1, n - 1)
  <2>1. \A i \in 1..(n - 1) : memory[i] = text[i]
    BY <1>1, <1>4
  <2> QED
    BY <1>1, <1>4, <2>1
<1>8. BufferLines[memory] = Lines[SubSeq(text, 1, n - 1)]
  BY <1>4, <1>6, <1>7 DEF BufferLines
<1>9. FileLines[text] = Lines[text]
  BY <1>1 DEF FileLines, Last
<1>10. Lines[text] = Lines[SubSeq(text, 1, n - 1)]
  BY <1>1, LastNewline
<1> QED
  BY <1>5, <1>8, <1>9, <1>10

-----------------------------------------------------------------------------
(* The account files *)

LEMMA KindNames == Kinds \subseteq {"passwd", "group", "doas", "sudoers"}
BY DEF Kinds

LEMMA KindsFinite == IsFiniteSet(Kinds)
<1>1. IsFiniteSet({"passwd"} \cup {"group"} \cup {"doas"} \cup {"sudoers"})
  <2>1. IsFiniteSet({"passwd"} \cup {"group"})
    BY FS_Singleton, FS_AddElement
  <2>2. IsFiniteSet({"passwd"} \cup {"group"} \cup {"doas"})
    BY <2>1, FS_AddElement
  <2> QED
    BY <2>2, FS_AddElement
<1>2. Kinds \in SUBSET ({"passwd"} \cup {"group"} \cup {"doas"} \cup {"sudoers"})
  BY KindNames
<1> QED
  BY <1>1, <1>2, FS_Subset

LEMMA FileTypeType ==
  ASSUME NEW path PROVE FileType(path) \in Logged \cup {"other"}
BY DEF FileType, Logged

LEMMA RenameTypeType ==
  ASSUME NEW path, NEW form \in Forms
  PROVE  RenameType(path, form) \in Logged \cup {"other"}
<1>1. RangesType(path) \in Logged \cup {"other"}
  BY DEF RangesType, Logged
<1> QED
  BY <1>1, FileTypeType DEF RenameType, Forms

\* An account file is known by its path, also by the beginning of one.
LEMMA PathsDiffer ==
  ASSUME NEW k \in Kinds, NEW j \in Kinds
  PROVE  /\ PathOf(k) \in Paths
         /\ PathOf(k) = PathOf(j) => k = j
         /\ IsPrefix(PathOf(j), PathOf(k)) => j = k
         /\ IsPrefix(PathOf(k), PathOf(k))
<1> DEFINE Name(i) == PathOf(i)[2]
           names == {"passwd", "group", "doas", "sudoers"}
           Part == {"/etc/", "passwd", "group", "doas.conf", "sudoers"}
<1>1. k \in names /\ j \in names /\ PathOf(k) \in Paths
  BY DEF Kinds
<1>2. /\ PathOf("passwd") = <<"/etc/", "passwd">> /\ PathOf("group") = <<"/etc/", "group">>
      /\ PathOf("doas") = <<"/etc/", "doas.conf">>
      /\ PathOf("sudoers") = <<"/etc/", "sudoers">>
  BY DEF PathOf
<1>3. ASSUME NEW i \in names
      PROVE  Len(PathOf(i)) = 2 /\ PathOf(i) \in Seq(Part)
  <2>1. \A a, b \in Part : Len(<<a, b>>) = 2 /\ <<a, b>> \in Seq(Part)
    OBVIOUS
  <2> DEFINE Pair(s) == Len(s) = 2 /\ s \in Seq(Part)
  <2>2. \A a, b \in Part : Pair(<<a, b>>)
    BY <2>1
  <2>3. \A part \in {"/etc/", "passwd", "group", "doas.conf", "sudoers"} : part \in Part
    OBVIOUS
  <2> HIDE DEF Pair, Part
  <2>4. /\ Pair(PathOf("passwd")) /\ Pair(PathOf("group"))
        /\ Pair(PathOf("doas")) /\ Pair(PathOf("sudoers"))
    BY <1>2, <2>2, <2>3, Zenon
  <2>5. Pair(PathOf(i))
    BY <2>4
  <2> QED
    BY <2>5 DEF Pair
<1>4. ASSUME NEW i \in names
      PROVE  SubSeq(PathOf(i), 1, 2) = PathOf(i)
  BY <1>3
<1>5. /\ Name("passwd") = "passwd" /\ Name("group") = "group"
      /\ Name("doas") = "doas.conf" /\ Name("sudoers") = "sudoers"
  BY <1>2
<1>6. PathOf(k) = PathOf(j) => k = j
  <2>1. PathOf(k) = PathOf(j) => Name(k) = Name(j)
    OBVIOUS
  <2> HIDE DEF Name
  <2> QED
    BY <1>1, <1>5, <2>1
<1>7. IsPrefix(PathOf(j), PathOf(k)) => PathOf(j) = PathOf(k)
  BY <1>1, <1>3, <1>4 DEF IsPrefix
<1>8. IsPrefix(PathOf(k), PathOf(k))
  BY <1>1, <1>3, <1>4 DEF IsPrefix
<1> QED
  BY <1>1, <1>6, <1>7, <1>8

LEMMA RenameTypeBegins ==
  ASSUME NEW path, NEW form \in Forms, RenameType(path, form) \in Kinds
  PROVE  MayBe(RenameType(path, form), path)
<1>1. \A k \in Kinds : k # "sudoers_dir" /\ k # "other"
  BY KindNames
<1>2. ASSUME FileType(path) \in Kinds
      PROVE  MayBe(FileType(path), path)
  <2>1. path = PathOf(FileType(path))
    BY <1>1, <1>2 DEF FileType
  <2> QED
    BY <1>2, <2>1, PathsDiffer DEF MayBe
<1>3. ASSUME RangesType(path) \in Kinds
      PROVE  MayBe(RangesType(path), path)
  BY <1>1, <1>3 DEF RangesType, MayBe
<1> QED
  BY <1>1, <1>2, <1>3 DEF RenameType, Forms

-----------------------------------------------------------------------------
(* The steps *)

\* What the invariant remembers is not forgotten.
PastGrows ==
  /\ past.missing => past'.missing
  /\ past.unfit => past'.unfit
  /\ past.grown => past'.grown
  /\ \A k \in Kinds : past.versions[k] \subseteq past'.versions[k]

LEMMA CrashStays ==
  ASSUME CrashExplained, PastGrows, alive' = alive
  PROVE  CrashExplained'
BY DEF CrashExplained, PastGrows

LEMMA AInvInit == Init => AInv
<1> SUFFICES ASSUME Init PROVE AInv
  OBVIOUS
<1> DEFINE kept == [k \in Kinds |-> TRUE]
           versions == [k \in Kinds |->
             {FileLines[file[p]] : p \in {p \in Paths : MayBe(k, p) /\ file[p] # NoText}}]
<1>1. /\ past = [kept |-> kept, missing |-> FALSE, unfit |-> FALSE, grown |-> FALSE,
                 dropins |-> 0, versions |-> versions]
      /\ reading = {} /\ toRead = Kinds /\ ring["write"] = <<>>
      /\ \A k \in Kinds : baseline[k] = {}
      /\ alive /\ texts = 0
  BY DEF Init
<1>2. PastOK
  <2> HIDE DEF kept, versions
  <2> QED
    BY <1>1 DEF PastOK
<1>3. TypeOK
  <2>1. doing \in [Threads -> SUBSET Records]
    BY DEF Init
  <2>2. DOMAIN ring = {"write", "rename"} /\ ring["write"] = <<>> /\ ring["rename"] = <<>>
    BY DEF Init
  <2>3. DOMAIN baseline = Kinds /\ alive \in BOOLEAN /\ texts \in Nat
    BY DEF Init
  <2>4. file \in [Paths -> Seq(Char) \cup {NoText}]
    BY TextAssumption DEF Init
  <2> QED
    BY <1>1, <1>2, <2>1, <2>2, <2>3, <2>4 DEF TypeOK
<1>4. VersionsOK
  <2>1. \A k \in Kinds : past.versions[k] = versions[k]
    <3> HIDE DEF versions
    <3> QED
      BY <1>1
  <2> QED
    BY <1>1, <2>1 DEF VersionsOK
<1> HIDE DEF kept, versions
<1>5. ReadingOK /\ RingOK /\ BaselinesOK /\ CrashExplained
  BY <1>1 DEF ReadingOK, RingOK, BaselinesOK, CrashExplained
<1>6. NoOtherTexts
  <2>1. {k \in Kinds : baseline[k] # {}} = {}
    BY <1>1
  <2>2. Cardinality({k \in Kinds : baseline[k] # {}}) = 0
    BY <2>1, FS_EmptySet
  <2> QED
    BY <1>1, <2>2 DEF NoOtherTexts
<1> QED
  BY <1>3, <1>4, <1>5, <1>6 DEF AInv

\* A change of a file: what it means for one that is being read, and what is
\* remembered of it.
Changed(p, text, kept) ==
  /\ file' \in [Paths -> Seq(Char) \cup {NoText}]
  /\ file'[p] = text /\ \A q \in Paths \ {p} : file'[q] = file[q]
  /\ reading' \subseteq Readings /\ (reading = {} <=> reading' = {})
  /\ \A n \in reading' : \E r \in reading :
       /\ n.type = r.type /\ n.path = r.path
       /\ reading = {r} => reading' = {n}
       /\ n.text = r.text \/ (r.path = p /\ n.text = text /\ text # NoText)
       /\ r.path # p => n = r
  /\ PastOK' /\ PastGrows /\ past'.kept = kept
  /\ past'.missing = past.missing /\ past'.unfit = past.unfit
  /\ past'.dropins = past.dropins
  /\ \A n \in reading' : InSize(n) \/ past'.grown
  /\ \A k \in Kinds : MayBe(k, p) /\ text # NoText => FileLines[text] \in past'.versions[k]

LEMMA ChangeStep ==
  ASSUME TypeOK, NEW p \in Paths, NEW text \in Seq(Char) \cup {NoText},
         NEW same \in BOOLEAN, same => text # NoText, NEW kept, Change(p, text, same, kept)
  PROVE  Changed(p, text, kept)
<1> DEFINE new(r) == IF r.path = p /\ r.linked
                     THEN [r EXCEPT !.text = IF same THEN text ELSE @, !.linked = same] ELSE r
           versions == [k \in Kinds |->
             IF MayBe(k, p) /\ text # NoText
             THEN past.versions[k] \cup {FileLines[text]} ELSE past.versions[k]]
           grown == past.grown \/ \E r \in reading' : ~InSize(r)
<1>1. /\ file' = [file EXCEPT ![p] = text]
      /\ reading' = {new(r) : r \in reading}
      /\ past' = [past EXCEPT !.kept = kept, !.grown = grown, !.versions = versions]
  BY Zenon DEF Change
<1> HIDE DEF new
<1>2. /\ file' \in [Paths -> Seq(Char) \cup {NoText}]
      /\ file'[p] = text /\ \A q \in Paths \ {p} : file'[q] = file[q]
  BY <1>1 DEF TypeOK
<1>3. ASSUME NEW r \in reading
      PROVE  /\ new(r) \in Readings /\ new(r).type = r.type /\ new(r).path = r.path
             /\ new(r).text = r.text \/ (r.path = p /\ new(r).text = text /\ text # NoText)
             /\ r.path # p => new(r) = r
  <2>1. r \in Readings
    BY DEF TypeOK
  <2> QED
    BY <2>1 DEF Readings, new
<1>4. /\ past \in [kept: {past.kept}, missing: BOOLEAN, unfit: BOOLEAN, grown: BOOLEAN,
                   dropins: Nat, versions: {past.versions}]
      /\ grown \in BOOLEAN
  BY DEF TypeOK, PastOK
<1>5. \A k \in Kinds : /\ past.versions[k] \subseteq versions[k]
                       /\ MayBe(k, p) /\ text # NoText => FileLines[text] \in versions[k]
  OBVIOUS
<1>6. (past.grown => grown) /\ \A n \in reading' : InSize(n) \/ grown
  OBVIOUS
<1> HIDE DEF versions, grown
<1>7. /\ PastOK' /\ past'.kept = kept /\ past'.grown = grown /\ past'.versions = versions
      /\ past'.missing = past.missing /\ past'.unfit = past.unfit
      /\ past'.dropins = past.dropins
  BY <1>1, <1>4 DEF PastOK
<1>8. PastGrows
  BY <1>5, <1>6, <1>7 DEF PastGrows
<1>9. \A r \in reading : reading = {r} => reading' = {new(r)}
  BY <1>1
<1>10. reading' \subseteq Readings /\ (reading = {} <=> reading' = {})
  BY <1>1, <1>3
<1>11. \A n \in reading' : \E r \in reading :
         /\ n.type = r.type /\ n.path = r.path
         /\ reading = {r} => reading' = {n}
         /\ n.text = r.text \/ (r.path = p /\ n.text = text /\ text # NoText)
         /\ r.path # p => n = r
  BY <1>1, <1>3, <1>9
<1> QED
  BY <1>2, <1>5, <1>6, <1>7, <1>8, <1>10, <1>11 DEF Changed

\* The other processes do not change what the logger has, and the invariant remembers
\* what they write.
LEMMA OthersStep ==
  ASSUME AInv, UNCHANGED logger, doing' \in [Threads -> SUBSET Records],
         NEW p \in Paths, NEW text \in Seq(Char) \cup {NoText},
         NEW same \in BOOLEAN, same => text # NoText, NEW kept, Change(p, text, same, kept)
  PROVE  AInv'
<1>1. /\ TypeOK /\ ReadingOK /\ RingOK /\ BaselinesOK /\ VersionsOK
      /\ CrashExplained /\ NoOtherTexts
  BY DEF AInv
<1>2. UNCHANGED <<ring, baseline, toRead, alive, fdsLeft, texts>>
  BY DEF logger
<1>3. /\ file' \in [Paths -> Seq(Char) \cup {NoText}]
      /\ file'[p] = text /\ \A q \in Paths \ {p} : file'[q] = file[q]
      /\ reading' \subseteq Readings
      /\ PastOK' /\ PastGrows
      /\ past'.missing = past.missing /\ past'.unfit = past.unfit
      /\ past'.dropins = past.dropins
      /\ \A n \in reading' : InSize(n) \/ past'.grown
      /\ \A k \in Kinds : MayBe(k, p) /\ text # NoText => FileLines[text] \in past'.versions[k]
  <2>1. Changed(p, text, kept)
    BY <1>1, ChangeStep
  <2> QED
    BY <2>1 DEF Changed
<1>4. TypeOK'
  BY <1>1, <1>2, <1>3 DEF TypeOK
<1>5. VersionsOK'
  <2> SUFFICES ASSUME NEW k \in Kinds
               PROVE  /\ \A q \in Paths : MayBe(k, q) /\ file'[q] # NoText
                                            => FileLines[file'[q]] \in past'.versions[k]
                      /\ past'.unfit \/ baseline'[k] \subseteq past'.versions[k]
    BY DEF VersionsOK, MayBe
  <2>1. past.versions[k] \subseteq past'.versions[k]
    BY <1>3 DEF PastGrows
  <2>2. ASSUME NEW q \in Paths, MayBe(k, q), file'[q] # NoText
        PROVE  FileLines[file'[q]] \in past'.versions[k]
    <3>1. CASE q = p
      BY <1>3, <2>2, <3>1
    <3>2. CASE q # p
      BY <1>1, <1>3, <2>1, <2>2, <3>2 DEF VersionsOK
    <3> QED
      BY <3>1, <3>2
  <2> QED
    BY <1>1, <1>2, <1>3, <2>1, <2>2 DEF VersionsOK
<1>6. ReadingOK'
  <2> SUFFICES ASSUME NEW n \in reading'
               PROVE  /\ reading' = {n}
                      /\ n.type \in Kinds
                           => MayBe(n.type, n.path) /\ FileLines[n.text] \in past'.versions[n.type]
                      /\ IF toRead = {}
                         THEN ring["rename"] # <<>> /\ Head(ring["rename"]).type = n.type
                         ELSE n.type \in toRead
    BY <1>2, <1>3 DEF ReadingOK, MayBe
  <2>1. PICK r \in reading :
          /\ n.type = r.type /\ n.path = r.path
          /\ reading = {r} => reading' = {n}
          /\ n.text = r.text \/ (r.path = p /\ n.text = text /\ text # NoText)
    <3>1. Changed(p, text, kept)
      BY <1>1, ChangeStep
    <3> QED
      BY <3>1 DEF Changed
  <2>2. /\ reading = {r}
        /\ r.type \in Kinds
             => MayBe(r.type, r.path) /\ FileLines[r.text] \in past.versions[r.type]
        /\ IF toRead = {} THEN ring["rename"] # <<>> /\ Head(ring["rename"]).type = r.type
           ELSE r.type \in toRead
    BY <1>1 DEF ReadingOK
  <2>3. ASSUME n.type \in Kinds
        PROVE  MayBe(n.type, n.path) /\ FileLines[n.text] \in past'.versions[n.type]
    <3>1. past.versions[n.type] \subseteq past'.versions[n.type]
      BY <1>3, <2>3 DEF PastGrows
    <3> QED
      BY <1>3, <2>1, <2>2, <2>3, <3>1
  <2> QED
    BY <2>1, <2>2, <2>3
<1>7. RingOK' /\ BaselinesOK' /\ NoOtherTexts'
  <2>1. RingOK'
    <3> SUFFICES ASSUME NEW i \in 1..Len(ring["write"]), NEW r, r = ring["write"][i]
                 PROVE  /\ Fits(r) \/ past'.unfit
                        /\ r.type \in Kinds /\ Fits(r)
                             => RecordLines(r) \subseteq past'.versions[r.type]
      BY <1>2 DEF RingOK
    <3> QED
      BY <1>1, <1>3 DEF RingOK, PastGrows
  <2> QED
    BY <1>1, <1>2, <1>3, <2>1 DEF BaselinesOK, NoOtherTexts
<1>8. CrashExplained'
  BY <1>1, <1>2, <1>3, CrashStays
<1> QED
  BY <1>4, <1>5, <1>6, <1>7, <1>8 DEF AInv

LEMMA EmptyStep ==
  ASSUME AInv, NEW p \in Paths, NEW text \in {NoText, <<>>}, Empty(p, text)
  PROVE  AInv'
<1>1. text \in Seq(Char) \cup {NoText}
  <2>1. <<>> \in Seq(Char)
    OBVIOUS
  <2> QED
    BY <2>1
<1>2. doing' \in [Threads -> SUBSET Records] /\ UNCHANGED logger
  BY DEF AInv, TypeOK, Empty
<1> DEFINE same == text # NoText
           kept == [k \in Kinds |-> past.kept[k] /\ PathOf(k) # p]
<1>3. Change(p, text, same, kept) /\ same \in BOOLEAN /\ (same => text # NoText)
  BY DEF Empty
<1> HIDE DEF same, kept
<1> QED
  BY <1>1, <1>2, <1>3, OthersStep

\* The text of a file that was written to; a failed write leaves it.
LEMMA WrittenText ==
  ASSUME NEW old \in Seq(Char), NEW text \in Seq(Char), NEW ret \in (-1)..Len(text)
  PROVE  LET written == old \o SubSeq(text, 1, ret) IN
         /\ written \in Seq(Char)
         /\ ret = -1 => written = old
         /\ old = <<>> /\ ret = Len(text) => written = text
<1> DEFINE written == old \o SubSeq(text, 1, ret)
<1>1. CASE ret = -1
  <2>1. SubSeq(text, 1, ret) = <<>>
    BY <1>1
  <2> QED
    BY <1>1, <2>1
<1>2. CASE ret # -1
  <2>1. SubSeq(text, 1, ret) \in Seq(Char)
    BY <1>2, BeginningType
  <2>2. ret = Len(text) => SubSeq(text, 1, ret) = text
    OBVIOUS
  <2>3. \A a, b \in Seq(Char) : a \o b \in Seq(Char) /\ (a = <<>> => a \o b = b)
    BY ConcatProperties, ConcatEmptySeq
  <2>4. written \in Seq(Char) /\ (old = <<>> => written = SubSeq(text, 1, ret))
    BY <2>1, <2>3
  <2> QED
    BY <1>2, <2>2, <2>4
<1> QED
  BY <1>1, <1>2

LEMMA WriteStep ==
  ASSUME AInv, NEW t \in Threads, NEW p \in Paths, NEW text \in Chunks,
         NEW unread \in BOOLEAN, NEW ret \in (-1)..Len(text), Write(t, p, text, ret, unread)
  PROVE  AInv'
<1> DEFINE type == FileType(p)
           r == [call |-> "write", type |-> type, ret |-> ret,
                 buffer |-> IF type = "other" THEN <<>> ELSE Entered(text, unread)]
           kept == [k \in Kinds |-> IF k = type /\ ret # -1 THEN Followed(p, text, ret, unread)
                                    ELSE past.kept[k]]
           written == file[p] \o SubSeq(text, 1, ret)
<1>1. r \in WriteRecords \cup OtherRecords
  <2>1. Entered(text, unread) \in Buffers
    BY TextAssumption, EnteredType
  <2>2. type \in Logged \cup {"other"}
    BY FileTypeType
  <2>3. ret \in Int
    BY TextAssumption
  <2> QED
    BY <2>1, <2>2, <2>3 DEF WriteRecords, OtherRecords
<1>2. /\ doing' = [doing EXCEPT ![t] = {r}] /\ UNCHANGED logger
      /\ Change(p, written, TRUE, kept) /\ file[p] # NoText
  BY DEF Write
<1>3. written \in Seq(Char) /\ written # NoText
  <2>1. text \in Seq(Char) /\ file[p] \in Seq(Char)
    BY <1>2, TextAssumption DEF AInv, TypeOK
  <2>2. written \in Seq(Char)
    BY <2>1, WrittenText
  <2> HIDE DEF written
  <2> QED
    BY <2>2, TextAssumption
<1> HIDE DEF r, kept, written
<1>4. doing' \in [Threads -> SUBSET Records]
  BY <1>1, <1>2 DEF AInv, TypeOK, Records
<1> QED
  BY <1>2, <1>3, <1>4, OthersStep

LEMMA RenameStep ==
  ASSUME AInv, NEW t \in Threads, NEW p \in Paths, NEW form \in Forms,
         NEW text \in Replacements, Rename(t, p, form, text)
  PROVE  AInv'
<1> DEFINE type == RenameType(p, form)
           r == [call |-> "rename", type |-> type, path |-> p, form |-> form]
           kept == [k \in Kinds |-> IF PathOf(k) = p THEN form # "behind" /\ Others(k) = {}
                                    ELSE past.kept[k] /\ type # k]
<1>1. r \in RenameRecords \cup OtherRecords
  <2>1. type \in Logged \cup {"other"}
    BY RenameTypeType
  <2>2. type \in Kinds => MayBe(type, p)
    BY RenameTypeBegins
  <2> HIDE DEF type
  <2> QED
    BY <2>1, <2>2 DEF RenameRecords, OtherRecords
<1>2. /\ doing' = [doing EXCEPT ![t] = {r}] /\ UNCHANGED logger
      /\ Change(p, text, FALSE, kept)
  BY DEF Rename
<1>3. text \in Seq(Char) \cup {NoText}
  BY TextAssumption
<1> HIDE DEF r, kept
<1>4. doing' \in [Threads -> SUBSET Records]
  BY <1>1, <1>2 DEF AInv, TypeOK, Records
<1> QED
  BY <1>2, <1>3, <1>4, OthersStep

\* What goes to the ring of a call.
Sent(r) ==
  IF r.call = "write" /\ Noted(r) THEN [r EXCEPT !.buffer = Recorded(@, r.ret)] ELSE r

\* An exit, field by field.
ExitOf(t, r, room) ==
  /\ doing' = [doing EXCEPT ![t] = {}]
  /\ ring' = [ring EXCEPT ![r.call] = IF room /\ Noted(r) THEN Append(@, Sent(r)) ELSE @]
  /\ UNCHANGED <<file, baseline, toRead, reading, alive, fdsLeft, texts>>
  /\ past'.missing = past.missing /\ past'.dropins = past.dropins
  /\ PastOK' /\ PastGrows
  /\ \A k \in Kinds : past'.kept[k] => past.kept[k] /\ (room \/ r.type # k)
  /\ r.call = "write" /\ Noted(r) => Fits(Sent(r)) \/ past'.unfit
  /\ \A k \in Kinds : r.call = "write" /\ r.type = k /\ Fits(Sent(r))
                        => RecordLines(Sent(r)) \subseteq past'.versions[k]

LEMMA ExitIs ==
  ASSUME TypeOK, NEW t \in Threads, Exit(t)
  PROVE  \E r \in doing[t], room \in BOOLEAN : ExitOf(t, r, room)
<1> DEFINE kept(r, room) == [k \in Kinds |-> past.kept[k] /\ (room \/ r.type # k)]
           unfit(r) == past.unfit \/ (r.call = "write" /\ Noted(r) /\ ~Fits(Sent(r)))
           text(r, k) == r.call = "write" /\ r.type = k /\ Fits(Sent(r))
           versions(r) == [k \in Kinds |->
             IF text(r, k) THEN past.versions[k] \cup RecordLines(Sent(r)) ELSE past.versions[k]]
<1>1. PICK r \in doing[t], room \in BOOLEAN :
        /\ doing' = [doing EXCEPT ![t] = {}]
        /\ ring' = [ring EXCEPT ![r.call] = IF room /\ Noted(r) THEN Append(@, Sent(r)) ELSE @]
        /\ past' = [past EXCEPT !.kept = kept(r, room), !.unfit = unfit(r),
                                !.versions = versions(r)]
        /\ UNCHANGED <<file, baseline, toRead, reading, alive, fdsLeft, texts, nchanges>>
  BY Zenon DEF Exit, Sent
<1>2. /\ past \in [kept: {past.kept}, missing: BOOLEAN, unfit: BOOLEAN, grown: BOOLEAN,
                   dropins: Nat, versions: {past.versions}]
      /\ unfit(r) \in BOOLEAN
  BY DEF TypeOK, PastOK
<1>3. /\ \A k \in Kinds : kept(r, room)[k] => past.kept[k] /\ (room \/ r.type # k)
      /\ past.unfit => unfit(r)
      /\ r.call = "write" /\ Noted(r) => Fits(Sent(r)) \/ unfit(r)
      /\ \A k \in Kinds :
           /\ past.versions[k] \subseteq versions(r)[k]
           /\ r.call = "write" /\ r.type = k /\ Fits(Sent(r))
                => RecordLines(Sent(r)) \subseteq versions(r)[k]
  OBVIOUS
<1> HIDE DEF kept, unfit, versions
<1>4. /\ PastOK' /\ past'.kept = kept(r, room) /\ past'.unfit = unfit(r)
      /\ past'.versions = versions(r) /\ past'.missing = past.missing
      /\ past'.grown = past.grown /\ past'.dropins = past.dropins
  BY <1>1, <1>2 DEF PastOK
<1>5. PastGrows
  BY <1>3, <1>4 DEF PastGrows
<1>6. ExitOf(t, r, room)
  BY <1>1, <1>3, <1>4, <1>5 DEF ExitOf
<1> QED
  BY <1>6

LEMMA ExitStep ==
  ASSUME AInv, NEW t \in Threads, Exit(t)
  PROVE  AInv'
<1>1. /\ TypeOK /\ ReadingOK /\ RingOK /\ BaselinesOK /\ VersionsOK
      /\ CrashExplained /\ NoOtherTexts
  BY DEF AInv
<1>2. PICK r \in doing[t], room \in BOOLEAN : ExitOf(t, r, room)
  BY <1>1, ExitIs
<1> DEFINE w == Sent(r)
           put(call) == room /\ Noted(r) /\ r.call = call
           new(call) == IF put(call) THEN Append(ring[call], w) ELSE ring[call]
<1>3. /\ doing' = [doing EXCEPT ![t] = {}]
      /\ ring' = [ring EXCEPT ![r.call] = IF room /\ Noted(r) THEN Append(@, w) ELSE @]
      /\ UNCHANGED <<file, baseline, toRead, reading, alive, fdsLeft, texts>>
      /\ past'.missing = past.missing /\ past'.dropins = past.dropins
      /\ PastOK' /\ PastGrows
      /\ r.call = "write" /\ Noted(r) => Fits(w) \/ past'.unfit
      /\ \A k \in Kinds : r.call = "write" /\ r.type = k /\ Fits(w)
                            => RecordLines(w) \subseteq past'.versions[k]
  BY <1>2 DEF ExitOf
<1>4. r \in WriteRecords \cup RenameRecords \cup OtherRecords
  BY <1>1 DEF TypeOK, Records
<1>5. /\ DOMAIN ring = {"write", "rename"} /\ ring["write"] \in Seq(WriteRecords)
      /\ ring["rename"] \in Seq(RenameRecords)
  BY <1>1 DEF TypeOK
<1>6. /\ put("write") => w \in WriteRecords /\ w.type = r.type
      /\ put("rename") => w \in RenameRecords
  <2>1. ASSUME r.call = "write", Noted(r) PROVE w \in WriteRecords /\ w.type = r.type
    <3>1. r \in WriteRecords
      BY <1>4, <2>1 DEF Noted, RenameRecords, OtherRecords
    <3>2. Recorded(r.buffer, r.ret) \in Buffers
      BY <3>1, RecordedType DEF WriteRecords
    <3> QED
      BY <2>1, <3>1, <3>2 DEF WriteRecords, Sent
  <2>2. ASSUME r.call = "rename", Noted(r) PROVE w \in RenameRecords
    <3>1. r \in RenameRecords
      BY <1>4, <2>2 DEF Noted, WriteRecords, OtherRecords
    <3> QED
      BY <2>2, <3>1 DEF Sent
  <2> QED
    BY <2>1, <2>2
<1>7. /\ DOMAIN ring' = {"write", "rename"}
      /\ ring'["write"] = new("write") /\ ring'["rename"] = new("rename")
  BY <1>3, <1>5
<1> HIDE DEF w
<1>8. ASSUME NEW S, NEW s \in Seq(S), w \in S
      PROVE  /\ Append(s, w) \in Seq(S) /\ Append(s, w) # <<>>
             /\ s # <<>> => Head(Append(s, w)) = Head(s)
             /\ Len(Append(s, w)) = Len(s) + 1 /\ Len(s) \in Nat
             /\ \A i \in 1..Len(s) : Append(s, w)[i] = s[i]
             /\ Append(s, w)[Len(s) + 1] = w
  BY <1>8
<1>9. ring'["write"] \in Seq(WriteRecords) /\ ring'["rename"] \in Seq(RenameRecords)
  BY <1>5, <1>6, <1>7, <1>8
<1>10. TypeOK'
  <2>1. doing' \in [Threads -> SUBSET Records]
    BY <1>1, <1>3 DEF TypeOK
  <2> QED
    BY <1>1, <1>3, <1>7, <1>9, <2>1 DEF TypeOK
<1>11. RingOK'
  <2> SUFFICES ASSUME NEW i \in 1..Len(ring'["write"]), NEW x, x = ring'["write"][i]
               PROVE  /\ Fits(x) \/ past'.unfit
                      /\ x.type \in Kinds /\ Fits(x)
                           => RecordLines(x) \subseteq past'.versions[x.type]
    BY DEF RingOK
  <2>1. (i \in 1..Len(ring["write"]) /\ x = ring["write"][i]) \/ (x = w /\ put("write"))
    <3>1. CASE ~put("write")
      BY <1>7, <3>1
    <3>2. CASE put("write")
      <4>1. ring'["write"] = Append(ring["write"], w)
        BY <1>7, <3>2
      <4>2. i \in 1..Len(ring["write"]) \/ i = Len(ring["write"]) + 1
        BY <1>5, <1>6, <1>8, <3>2, <4>1
      <4> QED
        BY <1>5, <1>6, <1>8, <3>2, <4>1, <4>2
    <3> QED
      BY <3>1, <3>2
  <2>2. CASE i \in 1..Len(ring["write"]) /\ x = ring["write"][i]
    <3>1. /\ Fits(x) \/ past.unfit
          /\ x.type \in Kinds /\ Fits(x) => RecordLines(x) \subseteq past.versions[x.type]
      BY <1>1, <2>2 DEF RingOK
    <3> QED
      BY <1>3, <3>1 DEF PastGrows
  <2>3. CASE x = w /\ put("write")
    <3>1. x.type = r.type
      BY <1>6, <2>3
    <3> QED
      BY <1>3, <2>3, <3>1
  <2> QED
    BY <2>1, <2>2, <2>3
<1>12. ReadingOK'
  <2> SUFFICES ASSUME NEW n \in reading
               PROVE  /\ reading = {n}
                      /\ n.type \in Kinds
                           => MayBe(n.type, n.path) /\ FileLines[n.text] \in past'.versions[n.type]
                      /\ InSize(n) \/ past'.grown
                      /\ IF toRead = {}
                         THEN ring'["rename"] # <<>> /\ Head(ring'["rename"]).type = n.type
                         ELSE n.type \in toRead
    BY <1>3 DEF ReadingOK, MayBe
  <2>1. /\ reading = {n}
        /\ n.type \in Kinds
             => MayBe(n.type, n.path) /\ FileLines[n.text] \in past.versions[n.type]
        /\ InSize(n) \/ past.grown
        /\ IF toRead = {} THEN ring["rename"] # <<>> /\ Head(ring["rename"]).type = n.type
           ELSE n.type \in toRead
    BY <1>1 DEF ReadingOK
  <2>2. ring["rename"] # <<>>
          => ring'["rename"] # <<>> /\ Head(ring'["rename"]) = Head(ring["rename"])
    BY <1>5, <1>6, <1>7, <1>8
  <2> QED
    BY <1>3, <2>1, <2>2 DEF PastGrows
<1>13. VersionsOK'
  <2> SUFFICES ASSUME NEW k \in Kinds
               PROVE  /\ \A p \in Paths : MayBe(k, p) /\ file[p] # NoText
                                            => FileLines[file[p]] \in past'.versions[k]
                      /\ past'.unfit \/ baseline[k] \subseteq past'.versions[k]
    BY <1>3 DEF VersionsOK, MayBe
  <2> QED
    BY <1>1, <1>3 DEF VersionsOK, PastGrows
<1>14. BaselinesOK' /\ NoOtherTexts'
  BY <1>1, <1>3 DEF BaselinesOK, NoOtherTexts
<1>15. CrashExplained'
  BY <1>1, <1>3, CrashStays
<1> QED
  BY <1>10, <1>11, <1>12, <1>13, <1>14, <1>15 DEF AInv

LEMMA OpenInitialStep ==
  ASSUME AInv, OpenInitial
  PROVE  AInv'
<1>1. /\ TypeOK /\ ReadingOK /\ RingOK /\ BaselinesOK /\ VersionsOK
      /\ CrashExplained /\ NoOtherTexts
  BY DEF AInv
<1>2. PICK k \in toRead :
        /\ \/ /\ file[PathOf(k)] # NoText
              /\ reading' = {Opened(k, PathOf(k))}
              /\ UNCHANGED <<toRead, past>>
           \/ /\ toRead' = toRead \ {k}
              /\ past' = [past EXCEPT !.missing = TRUE]
              /\ UNCHANGED reading
        /\ reading = {}
        /\ UNCHANGED <<file, doing, ring, baseline, alive, fdsLeft, texts, nchanges>>
  BY DEF OpenInitial
<1> DEFINE r == Opened(k, PathOf(k))
<1>3. k \in Kinds
  BY <1>1 DEF TypeOK
<1>4. CASE file[PathOf(k)] # NoText /\ reading' = {r} /\ UNCHANGED <<toRead, past>>
  <2>1. /\ PathOf(k) \in Paths /\ MayBe(k, PathOf(k))
    BY <1>3, PathsDiffer DEF MayBe
  <2>2. file[PathOf(k)] \in Seq(Char) /\ FileLines[file[PathOf(k)]] \in past.versions[k]
    BY <1>1, <1>3, <1>4, <2>1 DEF TypeOK, VersionsOK
  <2>3. /\ r.type = k /\ r.path = PathOf(k) /\ r.text = file[PathOf(k)]
        /\ r.size = Len(file[PathOf(k)]) /\ r \in Readings
    BY <1>3, <2>1, <2>2 DEF Opened, Readings, Logged
  <2> HIDE DEF r
  <2>4. InSize(r)
    BY <2>2, <2>3 DEF InSize
  <2>5. TypeOK'
    BY <1>1, <1>2, <1>4, <2>3 DEF TypeOK, PastOK
  <2>6. ReadingOK'
    BY <1>2, <1>3, <1>4, <2>1, <2>2, <2>3, <2>4 DEF ReadingOK, MayBe
  <2>7. RingOK' /\ BaselinesOK' /\ VersionsOK' /\ NoOtherTexts'
    BY <1>1, <1>2, <1>4 DEF RingOK, BaselinesOK, VersionsOK, NoOtherTexts, MayBe
  <2>8. CrashExplained'
    BY <1>1, <1>2, <1>4, CrashStays DEF PastGrows
  <2> QED
    BY <2>5, <2>6, <2>7, <2>8 DEF AInv
<1>5. CASE toRead' = toRead \ {k} /\ past' = [past EXCEPT !.missing = TRUE] /\ UNCHANGED reading
  <2>1. /\ PastOK' /\ past'.missing /\ past'.unfit = past.unfit /\ past'.grown = past.grown
        /\ past'.dropins = past.dropins /\ past'.versions = past.versions
    BY <1>1, <1>5 DEF TypeOK, PastOK
  <2>2. TypeOK'
    BY <1>1, <1>2, <1>5, <2>1 DEF TypeOK
  <2>3. ReadingOK' /\ RingOK'
    BY <1>1, <1>2, <1>5, <2>1 DEF ReadingOK, RingOK
  <2>4. BaselinesOK' /\ VersionsOK' /\ NoOtherTexts'
    BY <1>1, <1>2, <1>5, <2>1 DEF BaselinesOK, VersionsOK, NoOtherTexts, MayBe
  <2>5. CrashExplained'
    BY <2>1 DEF CrashExplained
  <2> QED
    BY <2>2, <2>3, <2>4, <2>5 DEF AInv
<1> QED
  BY <1>2, <1>4, <1>5

LEMMA ReadInitialStep ==
  ASSUME AInv, ReadInitial
  PROVE  AInv'
<1>1. /\ TypeOK /\ ReadingOK /\ RingOK /\ BaselinesOK /\ VersionsOK
      /\ CrashExplained /\ NoOtherTexts
  BY DEF AInv
<1>2. PICK r \in reading :
        /\ alive /\ r.type \in toRead
        /\ reading' = {} /\ toRead' = toRead \ {r.type}
        /\ baseline' = [baseline EXCEPT ![r.type] = {FileLines[r.text]}]
        /\ texts' = texts + 1
        /\ alive' \in IF InSize(r) THEN {TRUE} ELSE BOOLEAN
        /\ UNCHANGED <<file, doing, ring, fdsLeft, nchanges, past>>
  BY DEF ReadInitial
<1>3. r.type \in Kinds /\ DOMAIN baseline = Kinds /\ texts \in Nat
  BY <1>1, <1>2 DEF TypeOK
<1>4. FileLines[r.text] \in past.versions[r.type] /\ (InSize(r) \/ past.grown)
  BY <1>1, <1>3 DEF ReadingOK
<1>5. \A k \in Kinds : baseline'[k] = IF k = r.type THEN {FileLines[r.text]} ELSE baseline[k]
  BY <1>2, <1>3
<1>6. DOMAIN baseline' = Kinds
  BY <1>2, <1>3
<1>7. alive' \in BOOLEAN /\ (~alive' => past.grown)
  BY <1>2, <1>4
<1>8. TypeOK'
  BY <1>1, <1>2, <1>3, <1>6, <1>7 DEF TypeOK, PastOK
<1>9. ReadingOK' /\ RingOK'
  BY <1>1, <1>2 DEF ReadingOK, RingOK
<1>10. BaselinesOK'
  <2>1. \A k \in toRead' : baseline'[k] = {}
    BY <1>1, <1>2, <1>5 DEF BaselinesOK, TypeOK
  <2>2. ASSUME ~past.missing, NEW k \in Kinds \ toRead'
        PROVE  baseline'[k] # {}
    <3>1. k = r.type \/ k \in Kinds \ toRead
      BY <1>2
    <3>2. k # r.type => baseline[k] # {}
      BY <1>1, <2>2, <3>1 DEF BaselinesOK
    <3> QED
      BY <1>5, <3>2
  <2> QED
    BY <1>2, <2>1, <2>2 DEF BaselinesOK
<1>11. VersionsOK'
  <2> SUFFICES ASSUME NEW k \in Kinds
               PROVE  /\ \A p \in Paths : MayBe(k, p) /\ file[p] # NoText
                                            => FileLines[file[p]] \in past.versions[k]
                      /\ past.unfit \/ baseline'[k] \subseteq past.versions[k]
    BY <1>2 DEF VersionsOK, MayBe
  <2> QED
    BY <1>1, <1>4, <1>5 DEF VersionsOK
<1>12. NoOtherTexts'
  <2> DEFINE held == {k \in Kinds : baseline[k] # {}}
  <2>1. IsFiniteSet(held) /\ r.type \notin held
    <3>1. baseline[r.type] = {}
      BY <1>1, <1>2 DEF BaselinesOK
    <3> QED
      BY <3>1, KindsFinite, FS_Subset
  <2>2. {k \in Kinds : baseline'[k] # {}} = held \cup {r.type}
    BY <1>3, <1>5
  <2>3. texts = Cardinality(held) + past.dropins
    BY <1>1, <1>2 DEF NoOtherTexts
  <2> HIDE DEF held
  <2>4. Cardinality(held \cup {r.type}) = Cardinality(held) + 1 /\ Cardinality(held) \in Nat
    BY <2>1, FS_AddElement, FS_CardinalityType
  <2>5. past.dropins \in Nat
    BY <1>1 DEF TypeOK, PastOK
  <2>6. texts' = Cardinality(held \cup {r.type}) + past'.dropins
    BY <1>2, <2>3, <2>4, <2>5
  <2> QED
    BY <2>2, <2>6 DEF NoOtherTexts
<1>13. CrashExplained'
  BY <1>2, <1>7 DEF CrashExplained
<1> QED
  BY <1>8, <1>9, <1>10, <1>11, <1>12, <1>13 DEF AInv

\* A baseline is replaced where there is one; the text of a file in sudoers.d is
\* counted.  A crash has a reason, if a text that is not intact has one.
LEMMA ReplaceStep ==
  ASSUME AInv, Running, NEW k \in Logged, NEW lines, NEW intact \in BOOLEAN,
         intact \/ past.unfit \/ past.grown,
         k \in Kinds => lines \in past.versions[k] \/ past.unfit,
         Replace(k, lines, intact)
  PROVE  /\ DOMAIN baseline' = Kinds /\ alive' \in BOOLEAN /\ texts' \in Nat
         /\ PastOK' /\ past'.kept = past.kept /\ past'.versions = past.versions
         /\ past'.missing = past.missing /\ past'.unfit = past.unfit
         /\ past'.grown = past.grown
         /\ past.missing \/ \A j \in Kinds : baseline'[j] # {}
         /\ past.unfit \/ \A j \in Kinds : baseline'[j] \subseteq past.versions[j]
         /\ CrashExplained' /\ NoOtherTexts'
<1> DEFINE held == {j \in Kinds : baseline[j] # {}}
<1>1. /\ past \in [kept: {past.kept}, missing: BOOLEAN, unfit: BOOLEAN, grown: BOOLEAN,
                   dropins: Nat, versions: {past.versions}]
      /\ DOMAIN baseline = Kinds /\ texts \in Nat /\ toRead = {} /\ alive
  BY DEF AInv, TypeOK, PastOK, Running
<1>2. past' = [past EXCEPT !.dropins = @ + (IF k = "sudoers_dir" THEN 1 ELSE 0)]
  BY DEF Replace, DropIn
<1>3. /\ PastOK' /\ past'.kept = past.kept /\ past'.versions = past.versions
      /\ past'.missing = past.missing /\ past'.unfit = past.unfit
      /\ past'.grown = past.grown
      /\ past'.dropins = past.dropins + (IF k = "sudoers_dir" THEN 1 ELSE 0)
  BY <1>1, <1>2 DEF PastOK
<1>4. texts = Cardinality(held) + past.dropins
  BY <1>1 DEF AInv, NoOtherTexts
<1>5. Cardinality(held) \in Nat
  BY KindsFinite, FS_Subset, FS_CardinalityType
<1>6. past.missing \/ \A j \in Kinds : baseline[j] # {}
  BY <1>1 DEF AInv, BaselinesOK
<1>7. past.unfit \/ \A j \in Kinds : baseline[j] \subseteq past.versions[j]
  BY DEF AInv, VersionsOK
<1>8. Compare(k, lines, intact)
  BY DEF Replace
<1>9. CASE k = "sudoers_dir"
  <2>1. baseline' = baseline /\ texts' = texts + 1
    BY <1>9 DEF Replace
  <2>2. NoOtherTexts'
    <3>1. texts' = Cardinality(held) + past'.dropins
      BY <1>1, <1>3, <1>4, <1>5, <1>9, <2>1
    <3> QED
      BY <2>1, <3>1 DEF NoOtherTexts
  <2>3. alive' \in BOOLEAN /\ (~alive' => ~intact)
    BY <1>8, <1>9 DEF Compare
  <2>4. CrashExplained'
    BY <1>3, <2>3 DEF CrashExplained
  <2> QED
    BY <1>1, <1>3, <1>6, <1>7, <2>1, <2>2, <2>3, <2>4
<1>10. CASE k \in Kinds
  <2>1. k # "sudoers_dir"
    BY <1>10, KindNames
  <2>2. baseline' = [baseline EXCEPT ![k] = {lines}] /\ texts' = texts
    BY <2>1 DEF Replace
  <2>3. alive' \in BOOLEAN
        /\ (~alive' => \/ baseline[k] = {} \/ ~intact
                       \/ \E old \in baseline[k] : ~NearLines(old, lines))
    BY <1>8, <2>1 DEF Compare
  <2>4. /\ DOMAIN baseline' = Kinds
        /\ \A j \in Kinds : baseline'[j] = IF j = k THEN {lines} ELSE baseline[j]
    BY <1>1, <2>2
  <2>5. CrashExplained'
    <3> SUFFICES ASSUME ~alive', ~past.missing, ~past.unfit, ~past.grown
                 PROVE  \E j \in Kinds : \E v, x \in past.versions[j] : ~NearLines(v, x)
      BY <1>3 DEF CrashExplained
    <3>1. PICK old \in baseline[k] : ~NearLines(old, lines)
      BY <1>6, <1>10, <2>3
    <3>2. old \in past.versions[k] /\ lines \in past.versions[k]
      BY <1>7, <1>10, <3>1
    <3> QED
      BY <1>10, <3>1, <3>2
  <2>6. NoOtherTexts'
    <3> SUFFICES ASSUME alive'
                 PROVE  texts' = Cardinality({j \in Kinds : baseline'[j] # {}}) + past'.dropins
      BY DEF NoOtherTexts
    <3>1. baseline[k] # {}
      BY <1>8, <2>1 DEF Compare
    <3>2. {j \in Kinds : baseline'[j] # {}} = held
      BY <1>10, <2>4, <3>1
    <3>3. Cardinality({j \in Kinds : baseline'[j] # {}}) = Cardinality(held)
      BY <3>2
    <3> QED
      BY <1>1, <1>3, <1>4, <1>5, <2>1, <2>2, <3>3
  <2>7. past.missing \/ \A j \in Kinds : baseline'[j] # {}
    BY <1>6, <2>4
  <2>8. past.unfit \/ \A j \in Kinds : baseline'[j] \subseteq past.versions[j]
    BY <1>7, <1>10, <2>4
  <2> QED
    BY <1>1, <1>3, <2>2, <2>3, <2>4, <2>5, <2>6, <2>7, <2>8
<1> QED
  BY <1>9, <1>10 DEF Logged

\* The invariant after a record was compared, as far as the ring is what it should be.
LEMMA ComparedStep ==
  ASSUME AInv, Running, NEW k \in Logged, NEW lines, NEW intact \in BOOLEAN,
         intact \/ past.unfit \/ past.grown,
         k \in Kinds => lines \in past.versions[k] \/ past.unfit,
         Replace(k, lines, intact),
         UNCHANGED <<file, doing, toRead>>, reading' = {},
         DOMAIN ring' = {"write", "rename"},
         ring'["write"] \in Seq(WriteRecords), ring'["rename"] \in Seq(RenameRecords),
         \A i \in 1..Len(ring'["write"]) :
           \E j \in 1..Len(ring["write"]) : ring'["write"][i] = ring["write"][j]
  PROVE  AInv'
<1>1. /\ TypeOK /\ ReadingOK /\ RingOK /\ BaselinesOK /\ VersionsOK
      /\ CrashExplained /\ NoOtherTexts
  BY DEF AInv
<1>2. /\ DOMAIN baseline' = Kinds /\ alive' \in BOOLEAN /\ texts' \in Nat
      /\ PastOK' /\ past'.versions = past.versions
      /\ past'.missing = past.missing /\ past'.unfit = past.unfit
      /\ past.missing \/ \A j \in Kinds : baseline'[j] # {}
      /\ past.unfit \/ \A j \in Kinds : baseline'[j] \subseteq past.versions[j]
      /\ CrashExplained' /\ NoOtherTexts'
  BY ReplaceStep
<1>3. TypeOK'
  BY <1>1, <1>2 DEF TypeOK
<1>4. ReadingOK'
  BY DEF ReadingOK
<1>5. RingOK'
  <2> SUFFICES ASSUME NEW i \in 1..Len(ring'["write"]), NEW x, x = ring'["write"][i]
               PROVE  /\ Fits(x) \/ past.unfit
                      /\ x.type \in Kinds /\ Fits(x)
                           => RecordLines(x) \subseteq past.versions[x.type]
    BY <1>2 DEF RingOK
  <2>1. PICK j \in 1..Len(ring["write"]) : x = ring["write"][j]
    OBVIOUS
  <2> QED
    BY <1>1, <2>1 DEF RingOK
<1>6. BaselinesOK'
  BY <1>2 DEF BaselinesOK, Running
<1>7. VersionsOK'
  <2> SUFFICES ASSUME NEW j \in Kinds
               PROVE  /\ \A p \in Paths : MayBe(j, p) /\ file[p] # NoText
                                            => FileLines[file[p]] \in past.versions[j]
                      /\ past.unfit \/ baseline'[j] \subseteq past.versions[j]
    BY <1>2 DEF VersionsOK, MayBe
  <2> QED
    BY <1>1, <1>2 DEF VersionsOK
<1> QED
  BY <1>2, <1>3, <1>4, <1>5, <1>6, <1>7 DEF AInv

\* The first record of a ring of typed records is taken.
LEMMA TakeHead ==
  ASSUME NEW S, NEW s \in Seq(S), s # <<>>
  PROVE  /\ Head(s) \in S /\ Head(s) = s[1] /\ 1 \in 1..Len(s)
         /\ Tail(s) \in Seq(S)
         /\ \A i \in 1..Len(Tail(s)) : Tail(s)[i] = s[i + 1] /\ i + 1 \in 1..Len(s)
BY HeadTailProperties

LEMMA ProcessWriteStep ==
  ASSUME AInv, ProcessWrite
  PROVE  AInv'
<1> DEFINE r == Head(ring["write"])
<1>1. /\ Running /\ reading = {} /\ reading' = {} /\ ring["write"] # <<>>
      /\ ring' = [ring EXCEPT !["write"] = Tail(@)]
      /\ UNCHANGED <<file, doing, toRead>>
      /\ \/ r.ret > 0 /\ \E lines \in RecordLines(r) : Replace(r.type, lines, Fits(r))
         \/ r.ret = 0 /\ Replace(r.type, << <<Stale>> >>, FALSE)
         \/ r.ret < 0 /\ alive' = FALSE /\ UNCHANGED <<baseline, texts, past>>
  BY DEF ProcessWrite, Take
<1>2. /\ ring["write"] \in Seq(WriteRecords) /\ ring["rename"] \in Seq(RenameRecords)
      /\ DOMAIN ring = {"write", "rename"}
  BY DEF AInv, TypeOK
<1>3. /\ ring'["write"] = Tail(ring["write"]) /\ ring'["rename"] = ring["rename"]
      /\ DOMAIN ring' = {"write", "rename"}
  BY <1>1, <1>2
<1>4. /\ r \in WriteRecords /\ (Fits(r) \/ past.unfit)
      /\ r.type \in Kinds /\ Fits(r) => RecordLines(r) \subseteq past.versions[r.type]
  BY <1>1, <1>2, TakeHead DEF AInv, RingOK
<1>5. r.type \in Logged /\ r.ret \in Int
  BY <1>4 DEF WriteRecords
<1>6. /\ ring'["write"] \in Seq(WriteRecords) /\ ring'["rename"] \in Seq(RenameRecords)
      /\ \A i \in 1..Len(ring'["write"]) :
           \E j \in 1..Len(ring["write"]) : ring'["write"][i] = ring["write"][j]
  BY <1>1, <1>2, <1>3, TakeHead
<1>7. r.ret <= 0 => past.unfit
  BY <1>4, <1>5 DEF Fits
<1> HIDE DEF r
<1>8. ASSUME NEW lines \in RecordLines(r), Replace(r.type, lines, Fits(r)) PROVE AInv'
  <2>1. Fits(r) \in BOOLEAN
    BY DEF Fits
  <2>2. r.type \in Kinds => lines \in past.versions[r.type] \/ past.unfit
    BY <1>4, <1>8
  <2> DEFINE intact == Fits(r)
  <2>3. intact \/ past.unfit \/ past.grown
    BY <1>4
  <2>4. Replace(r.type, lines, intact) /\ intact \in BOOLEAN
    BY <1>8, <2>1
  <2> HIDE DEF intact
  <2> QED
    BY <1>1, <1>3, <1>5, <1>6, <2>2, <2>3, <2>4, ComparedStep
<1>9. ASSUME r.ret = 0, Replace(r.type, << <<Stale>> >>, FALSE) PROVE AInv'
  <2>1. past.unfit
    BY <1>7, <1>9
  <2> QED
    BY <1>1, <1>3, <1>5, <1>6, <1>9, <2>1, ComparedStep
<1>10. ASSUME r.ret < 0, alive' = FALSE, UNCHANGED <<baseline, texts, past>> PROVE AInv'
  <2>1. TypeOK'
    BY <1>1, <1>3, <1>6, <1>10 DEF AInv, TypeOK, PastOK
  <2>2. ReadingOK' /\ BaselinesOK' /\ NoOtherTexts'
    BY <1>1, <1>10 DEF AInv, ReadingOK, BaselinesOK, NoOtherTexts
  <2>3. RingOK'
    <3> SUFFICES ASSUME NEW i \in 1..Len(ring'["write"]), NEW x, x = ring'["write"][i]
                 PROVE  /\ Fits(x) \/ past.unfit
                        /\ x.type \in Kinds /\ Fits(x)
                             => RecordLines(x) \subseteq past.versions[x.type]
      BY <1>10 DEF RingOK
    <3>1. PICK j \in 1..Len(ring["write"]) : x = ring["write"][j]
      BY <1>6
    <3> QED
      BY <3>1 DEF AInv, RingOK
  <2>4. VersionsOK'
    BY <1>1, <1>10 DEF AInv, VersionsOK, MayBe
  <2>5. CrashExplained'
    BY <1>5, <1>7, <1>10 DEF CrashExplained
  <2> QED
    BY <2>1, <2>2, <2>3, <2>4, <2>5 DEF AInv
<1> QED
  BY <1>1, <1>8, <1>9, <1>10

LEMMA OpenRenamedStep ==
  ASSUME AInv, OpenRenamed
  PROVE  AInv'
<1> DEFINE r == Head(ring["rename"])
           o == Opened(r.type, r.path)
<1>1. /\ Running /\ reading = {} /\ ring["rename"] # <<>>
      /\ \/ file[r.path] # NoText /\ reading' = {o} /\ ring' = ring
         \/ ring' = [ring EXCEPT !["rename"] = Tail(@)] /\ reading' = {}
      /\ UNCHANGED <<file, doing, baseline, toRead, alive, texts, past>>
  BY DEF OpenRenamed, Take
<1>2. /\ ring["write"] \in Seq(WriteRecords) /\ ring["rename"] \in Seq(RenameRecords)
      /\ DOMAIN ring = {"write", "rename"}
  BY DEF AInv, TypeOK
<1>3. r \in RenameRecords /\ Tail(ring["rename"]) \in Seq(RenameRecords)
  BY <1>1, <1>2, TakeHead
<1>4. /\ r.type \in Logged /\ r.path \in Paths
      /\ r.type \in Kinds => MayBe(r.type, r.path)
  BY <1>3 DEF RenameRecords
<1>5. /\ DOMAIN ring' = {"write", "rename"} /\ ring'["write"] = ring["write"]
      /\ ring'["rename"] \in Seq(RenameRecords)
  BY <1>1, <1>2, <1>3
<1>6. RingOK' /\ BaselinesOK' /\ VersionsOK' /\ NoOtherTexts'
  BY <1>1, <1>5 DEF AInv, RingOK, BaselinesOK, VersionsOK, NoOtherTexts, MayBe
<1>7. CrashExplained'
  BY <1>1 DEF AInv, CrashExplained
<1> HIDE DEF r
<1>8. CASE file[r.path] # NoText /\ reading' = {o} /\ ring' = ring
  <2>1. file[r.path] \in Seq(Char)
    BY <1>4, <1>8 DEF AInv, TypeOK
  <2>2. r.type \in Kinds => FileLines[file[r.path]] \in past.versions[r.type]
    BY <1>4, <1>8 DEF AInv, VersionsOK
  <2>3. /\ o \in Readings /\ o.type = r.type /\ o.path = r.path /\ o.text = file[r.path]
        /\ o.size = Len(file[r.path])
    BY <1>4, <2>1 DEF Opened, Readings
  <2> HIDE DEF o
  <2>4. InSize(o)
    BY <2>1, <2>3 DEF InSize
  <2>5. TypeOK'
    BY <1>1, <1>5, <1>8, <2>3 DEF AInv, TypeOK, PastOK
  <2>6. ReadingOK'
    <3>1. toRead = {} /\ Head(ring["rename"]).type = o.type
      BY <1>1, <2>3 DEF Running, r
    <3>2. o.type \in Kinds => MayBe(o.type, o.path) /\ FileLines[o.text] \in past.versions[o.type]
      BY <1>4, <2>2, <2>3
    <3> QED
      BY <1>1, <1>8, <2>4, <3>1, <3>2 DEF ReadingOK, MayBe
  <2> QED
    BY <1>6, <1>7, <2>5, <2>6 DEF AInv
<1>9. CASE reading' = {}
  <2>1. TypeOK'
    BY <1>1, <1>5, <1>9 DEF AInv, TypeOK, PastOK
  <2>2. ReadingOK'
    BY <1>9 DEF ReadingOK
  <2> QED
    BY <1>6, <1>7, <2>1, <2>2 DEF AInv
<1> QED
  BY <1>1, <1>8, <1>9

LEMMA ReadRenamedStep ==
  ASSUME AInv, ReadRenamed
  PROVE  AInv'
<1>1. PICK r \in reading :
        /\ Running
        /\ ring' = [ring EXCEPT !["rename"] = Tail(@)] /\ reading' = {}
        /\ Replace(r.type, FileLines[r.text], InSize(r))
        /\ UNCHANGED <<file, doing, toRead, fdsLeft, nchanges>>
  BY DEF ReadRenamed, Take
<1>2. r.type \in Logged
  BY DEF AInv, TypeOK, Readings
<1>3. /\ r.type \in Kinds => FileLines[r.text] \in past.versions[r.type]
      /\ InSize(r) \/ past.grown
      /\ ring["rename"] # <<>>
  BY <1>1 DEF AInv, ReadingOK, Running
<1>4. /\ ring["write"] \in Seq(WriteRecords) /\ ring["rename"] \in Seq(RenameRecords)
      /\ DOMAIN ring = {"write", "rename"}
  BY DEF AInv, TypeOK
<1>5. /\ DOMAIN ring' = {"write", "rename"} /\ ring'["write"] = ring["write"]
      /\ ring'["rename"] \in Seq(RenameRecords)
  BY <1>1, <1>3, <1>4, TakeHead
<1>6. InSize(r) \in BOOLEAN
  BY DEF InSize
<1> DEFINE intact == InSize(r)
           lines == FileLines[r.text]
<1>7. /\ Replace(r.type, lines, intact) /\ intact \in BOOLEAN
      /\ intact \/ past.unfit \/ past.grown
      /\ r.type \in Kinds => lines \in past.versions[r.type] \/ past.unfit
  BY <1>1, <1>3, <1>6
<1> HIDE DEF intact, lines
<1>8. \A i \in 1..Len(ring'["write"]) :
        \E j \in 1..Len(ring["write"]) : ring'["write"][i] = ring["write"][j]
  BY <1>5
<1> QED
  BY <1>1, <1>2, <1>4, <1>5, <1>7, <1>8, ComparedStep

-----------------------------------------------------------------------------
(* The theorems *)

LEMMA AInvNext == AInv /\ [Next]_vars => AInv'
<1> SUFFICES ASSUME AInv, [Next]_vars PROVE AInv'
  OBVIOUS
<1>1. CASE OpenInitial
  BY <1>1, OpenInitialStep
<1>2. CASE ReadInitial
  BY <1>2, ReadInitialStep
<1>3. ASSUME NEW p \in Paths, NEW text \in {NoText, <<>>}, Empty(p, text) PROVE AInv'
  BY <1>3, EmptyStep
<1>4. ASSUME NEW t \in Threads, NEW p \in Paths, NEW text \in Chunks, NEW unread \in BOOLEAN,
             NEW ret \in {-1, Len(text) - 1, Len(text)} \cap (-1)..Len(text),
             Write(t, p, text, ret, unread)
      PROVE  AInv'
  BY <1>4, WriteStep
<1>5. ASSUME NEW t \in Threads, NEW p \in Paths, NEW form \in Forms,
             NEW text \in Replacements, Rename(t, p, form, text)
      PROVE  AInv'
  BY <1>5, RenameStep
<1>6. ASSUME NEW t \in Threads, Exit(t) PROVE AInv'
  BY <1>6, ExitStep
<1>7. CASE ProcessWrite
  BY <1>7, ProcessWriteStep
<1>8. CASE OpenRenamed
  BY <1>8, OpenRenamedStep
<1>9. CASE ReadRenamed
  BY <1>9, ReadRenamedStep
<1>10. CASE UNCHANGED vars
  <2>1. TypeOK' /\ ReadingOK' /\ RingOK'
    BY <1>10 DEF vars, AInv, TypeOK, PastOK, ReadingOK, RingOK, MayBe
  <2>2. BaselinesOK' /\ VersionsOK' /\ CrashExplained' /\ NoOtherTexts'
    BY <1>10 DEF vars, AInv, BaselinesOK, VersionsOK, CrashExplained, NoOtherTexts, MayBe
  <2> QED
    BY <2>1, <2>2 DEF AInv
<1> QED
  BY <1>1, <1>2, <1>3, <1>4, <1>5, <1>6, <1>7, <1>8, <1>9, <1>10 DEF Next

\* AInv holds in every instance: any threads, files and texts, any sizes.
THEOREM AccountsInvariant == Spec => []AInv
BY AInvInit, AInvNext, PTL DEF Spec

\* The logger (users_groups_init, text_buffer_init, fprint_diff_files) crashes only
\* where an account file could not be read at its start, a write to one does not fit
\* its record, a file grew while it was read, or two of the texts differ so much
\* that diff may leave its arrays.
THEOREM Crashes == Spec => []CrashExplained
<1>1. AInv => CrashExplained
  BY DEF AInv
<1> QED
  BY <1>1, AccountsInvariant, PTL

\* fprint_diff_files frees each text that it replaces, those of sudoers.d not.
THEOREM TextsFreed == Spec => []NoOtherTexts
<1>1. AInv => NoOtherTexts
  BY DEF AInv
<1> QED
  BY <1>1, AccountsInvariant, PTL

-----------------------------------------------------------------------------
(* The baselines follow the files *)

LEMMA FileTypeIs ==
  ASSUME NEW k \in Kinds, NEW path
  PROVE  FileType(path) = k <=> path = PathOf(k)
<1>1. k \notin {"sudoers_dir", "other"}
  BY KindNames
<1>2. CASE \E j \in Kinds : path = PathOf(j)
  <2>1. FileType(path) \in Kinds /\ path = PathOf(FileType(path))
    BY <1>2 DEF FileType
  <2> QED
    BY <2>1, PathsDiffer
<1>3. CASE ~\E j \in Kinds : path = PathOf(j)
  BY <1>1, <1>3 DEF FileType
<1> QED
  BY <1>2, <1>3

LEMMA RenameTypeIs ==
  ASSUME NEW k \in Kinds, NEW form \in Forms, form # "behind"
  PROVE  RenameType(PathOf(k), form) = k
<1>1. FileType(PathOf(k)) = k
  BY FileTypeIs
<1>2. RangesType(PathOf(k)) = k
  <2>1. IsPrefix(PathOf(k), PathOf(k)) /\ \A j \in Kinds : IsPrefix(PathOf(j), PathOf(k)) => j = k
    BY PathsDiffer
  <2> QED
    BY <2>1 DEF RangesType
<1> QED
  BY <1>1, <1>2 DEF RenameType, Forms

\* What is on its way is a record of a write or of a rename.
LEMMA OutstandingType ==
  ASSUME AInv, NEW k \in Kinds, NEW r \in Outstanding(k)
  PROVE  r \in WriteRecords \cup RenameRecords
<1>1. r.type = k /\ k # "other"
  BY KindNames DEF Outstanding
<1>2. \/ \E t \in Threads : r \in doing[t]
      \/ r \in ToSet(ring["write"])
      \/ r \in ToSet(ring["rename"])
  BY DEF Outstanding, AInv, TypeOK
<1>3. ASSUME NEW t \in Threads, r \in doing[t] PROVE r \in WriteRecords \cup RenameRecords
  BY <1>1, <1>3 DEF AInv, TypeOK, Records, OtherRecords
<1>4. ASSUME NEW S, NEW s \in Seq(S), r \in ToSet(s) PROVE r \in S
  BY <1>4 DEF ToSet
<1>5. ring["write"] \in Seq(WriteRecords) /\ ring["rename"] \in Seq(RenameRecords)
  BY DEF AInv, TypeOK
<1> QED
  BY <1>2, <1>3, <1>4, <1>5

\* A step that does not touch what account file k depends on.
LEMMA SameFollowing ==
  ASSUME NEW k, Following(k), Outstanding(k)' = Outstanding(k), Coming(k)' = Coming(k),
         file'[PathOf(k)] = file[PathOf(k)], baseline'[k] = baseline[k],
         k \in toRead => k \in toRead', alive' => alive, fdsLeft' >= 2 => fdsLeft >= 2,
         \A n \in reading' : n.type = k => n \in reading
  PROVE  Following(k)'
BY DEF Following, Brings, Current

\* While nothing is read for a rename, all that is on its way is yet to be looked at.
LEMMA AllComing ==
  ASSUME AInv, NEW k, toRead # {} \/ reading = {}
  PROVE  Coming(k) = Outstanding(k)
<1>1. Behind = ring["rename"] /\ DOMAIN ring = {"write", "rename"}
  BY DEF Behind, AInv, TypeOK
<1> QED
  BY <1>1 DEF Coming, Outstanding

\* A step of another process that makes record n, for an account file or another.
LEMMA MadeStep ==
  ASSUME FInv, NEW t \in Threads, doing[t] = {}, NEW n,
         doing' = [doing EXCEPT ![t] = {n}], ring' = ring, toRead' = toRead,
         reading' = {} <=> reading = {}, NEW k \in Kinds
  PROVE  /\ n.type # k => Outstanding(k)' = Outstanding(k) /\ Coming(k)' = Coming(k)
         /\ n.type = k => Outstanding(k)' = Outstanding(k) \cup {n} /\ n \in Coming(k)'
<1>1. DOMAIN doing = Threads
  BY DEF FInv, AInv, TypeOK
<1>2. \A u \in Threads : doing'[u] = IF u = t THEN {n} ELSE doing[u]
  BY <1>1
<1>3. \A r : (\E u \in Threads : r \in doing'[u])
             <=> (\E u \in Threads : r \in doing[u]) \/ r = n
  BY <1>2
<1>4. Behind' = Behind
  BY DEF Behind
<1> DEFINE rest == ToSet(ring["write"]) \cup ToSet(Behind)
<1>5. /\ \A r : r \in Coming(k) <=>
                  r.type = k /\ (r \in rest \/ \E u \in Threads : r \in doing[u])
      /\ \A r : r \in Coming(k)' <=>
                  r.type = k /\ (r \in rest \/ \E u \in Threads : r \in doing'[u])
  BY <1>4 DEF Coming
<1> HIDE DEF rest
<1>6. /\ n.type # k => Outstanding(k)' = Outstanding(k)
      /\ n.type = k => Outstanding(k)' = Outstanding(k) \cup {n}
  BY <1>3 DEF Outstanding
<1>7. n.type # k => Coming(k)' = Coming(k)
  BY <1>3, <1>5
<1>8. n.type = k => n \in Coming(k)'
  BY <1>3, <1>5
<1> QED
  BY <1>6, <1>7, <1>8

\* A change of another file, that brings nothing for account file k: if that is being
\* read and nothing is to come, its path is not that of the change.
LEMMA OthersFollow ==
  ASSUME FInv, UNCHANGED logger, NEW p \in Paths, NEW text \in Seq(Char) \cup {NoText},
         NEW same \in BOOLEAN, same => text # NoText, NEW kept, Change(p, text, same, kept),
         NEW k \in Kinds, PathOf(k) # p, past.kept[k],
         Outstanding(k)' = Outstanding(k), Coming(k)' = Coming(k)
  PROVE  Following(k)'
<1>1. Following(k) /\ PathOf(k) \in Paths
  BY PathsDiffer DEF FInv, FollowOK
<1>2. /\ file'[PathOf(k)] = file[PathOf(k)]
      /\ \A n \in reading' : \E r \in reading :
           n.type = r.type /\ n.path = r.path /\ (r.path # p => n = r)
  <2>1. Changed(p, text, kept)
    BY ChangeStep DEF FInv, AInv
  <2> QED
    BY <1>1, <2>1 DEF Changed
<1>3. UNCHANGED <<baseline, toRead, alive, fdsLeft>>
  BY DEF logger
<1>4. ASSUME NEW n \in reading', n.type = k, Coming(k) = {}
      PROVE  n.path = PathOf(k) /\ n.text = file[PathOf(k)]
  <2>1. PICK r \in reading : n.type = r.type /\ n.path = r.path /\ (r.path # p => n = r)
    BY <1>2
  <2>2. r.path = PathOf(k) /\ r.text = file[PathOf(k)]
    BY <1>1, <1>4, <2>1 DEF Following
  <2> QED
    BY <2>1, <2>2
<1>5. \A r \in Outstanding(k)' : Brings(k, r)'
  BY <1>1, <1>2 DEF Following, Brings
<1>6. k \notin toRead' /\ alive' /\ fdsLeft' >= 2 /\ Outstanding(k)' = {} => Current(k)'
  BY <1>1, <1>2, <1>3 DEF Following, Current
<1> QED
  BY <1>2, <1>4, <1>5, <1>6 DEF Following

\* The baselines after a text was compared.
LEMMA ReplacedBaselines ==
  ASSUME TypeOK, NEW k \in Logged, NEW lines, NEW intact, Replace(k, lines, intact)
  PROVE  /\ past'.kept = past.kept
         /\ \A j \in Kinds : baseline'[j] = IF j = k THEN {lines} ELSE baseline[j]
<1>1. past'.kept = past.kept
  BY DEF Replace, DropIn, TypeOK, PastOK
<1>2. CASE k = "sudoers_dir"
  <2>1. baseline' = baseline
    BY <1>2 DEF Replace
  <2>2. \A j \in Kinds : j # k
    BY <1>2, KindNames
  <2> QED
    BY <1>1, <2>1, <2>2
<1>3. CASE k # "sudoers_dir"
  <2>1. baseline' = [baseline EXCEPT ![k] = {lines}] /\ DOMAIN baseline = Kinds
    BY <1>3 DEF Replace, TypeOK
  <2> QED
    BY <1>1, <2>1
<1> QED
  BY <1>2, <1>3

-----------------------------------------------------------------------------
(* The steps *)

LEMMA FInvInit == Init => FInv
<1> SUFFICES ASSUME Init PROVE FInv
  OBVIOUS
<1>1. AInv
  BY AInvInit
<1>2. FilesOK
  BY TextAssumption DEF Init, FilesOK
<1>3. FollowOK
  <2>1. \A k : Outstanding(k) = {}
    <3>1. /\ \A t \in Threads : doing[t] = {}
          /\ DOMAIN ring = {"write", "rename"}
          /\ ring["write"] = <<>> /\ ring["rename"] = <<>>
      BY DEF Init
    <3>2. ToSet(<<>>) = {}
      BY DEF ToSet
    <3> QED
      BY <3>1, <3>2 DEF Outstanding
  <2> QED
    BY <2>1 DEF Init, FollowOK, Following
<1> QED
  BY <1>1, <1>2, <1>3 DEF FInv

\* users_groups_init opens a file, and the text is what the file has.
LEMMA OpenInitialFollows ==
  ASSUME FInv, OpenInitial
  PROVE  FilesOK' /\ FollowOK'
<1>1. PICK k \in toRead :
        /\ \/ /\ reading' = {Opened(k, PathOf(k))}
              /\ UNCHANGED <<toRead, past>>
           \/ /\ fdsLeft = 0 \/ file[PathOf(k)] = NoText
              /\ toRead' = toRead \ {k}
              /\ past' = [past EXCEPT !.missing = TRUE]
              /\ UNCHANGED reading
        /\ reading = {}
        /\ UNCHANGED <<file, doing, ring, baseline, alive, fdsLeft, texts, nchanges>>
  BY DEF OpenInitial
<1>2. past'.kept = past.kept
  BY <1>1 DEF FInv, AInv, TypeOK, PastOK
<1>3. \A j : Outstanding(j)' = Outstanding(j)
  BY <1>1 DEF Outstanding
<1>4. toRead' # {} \/ reading' = {}
  BY <1>1
<1>5. ASSUME NEW j \in Kinds
      PROVE  Coming(j)' = Coming(j)
  <2>1. Behind' = ring["rename"] /\ Behind = ring["rename"]
    BY <1>1, <1>4 DEF Behind
  <2> QED
    BY <1>1, <2>1 DEF Coming
<1>6. ASSUME NEW j \in Kinds, past'.kept[j]
      PROVE  Following(j)'
  <2>1. Following(j)
    BY <1>2, <1>6 DEF FInv, FollowOK
  <2>2. \A r \in Outstanding(j)' : Brings(j, r)'
    BY <1>1, <1>3, <2>1 DEF Following, Brings
  <2>3. \A r \in reading' : r.type = j => r.path = PathOf(j) /\ r.text = file'[PathOf(j)]
    BY <1>1 DEF Opened
  <2>4. ASSUME j \notin toRead', alive', fdsLeft' >= 2, Outstanding(j)' = {}
        PROVE  Current(j)'
    <3>1. CASE j \notin toRead
      BY <1>1, <1>3, <2>1, <2>4, <3>1 DEF Following, Current
    <3>2. CASE j \in toRead
      <4>1. j = k /\ (fdsLeft = 0 \/ file[PathOf(k)] = NoText)
        BY <1>1, <2>4, <3>2
      <4>2. file'[PathOf(j)] = NoText
        BY <1>1, <2>4, <4>1
      <4>3. baseline'[j] = {}
        BY <1>1, <3>2 DEF FInv, AInv, BaselinesOK
      <4> QED
        BY <4>2, <4>3 DEF Current
    <3> QED
      BY <3>1, <3>2
  <2> QED
    BY <2>2, <2>3, <2>4 DEF Following
<1>7. FilesOK'
  BY <1>1 DEF FInv, FilesOK
<1> QED
  BY <1>6, <1>7 DEF FollowOK

\* It reads it: with nothing on its way this is still the text of the file.
LEMMA ReadInitialFollows ==
  ASSUME FInv, ReadInitial
  PROVE  FilesOK' /\ FollowOK'
<1>1. PICK r \in reading :
        /\ alive /\ r.type \in toRead
        /\ reading' = {} /\ toRead' = toRead \ {r.type}
        /\ baseline' = [baseline EXCEPT ![r.type] = {FileLines[r.text]}]
        /\ UNCHANGED <<file, doing, ring, fdsLeft, past>>
  BY DEF ReadInitial
<1>2. /\ r.text \in Seq(Char) /\ toRead \subseteq Kinds /\ DOMAIN baseline = Kinds
  BY DEF FInv, AInv, TypeOK, Readings
<1>3. \A k \in Kinds : baseline'[k] = IF k = r.type THEN {FileLines[r.text]} ELSE baseline[k]
  BY <1>1, <1>2
<1>4. \A k : Outstanding(k)' = Outstanding(k)
  BY <1>1 DEF Outstanding
<1>5. ASSUME NEW k \in Kinds, past'.kept[k]
      PROVE  Following(k)'
  <2>1. Following(k)
    BY <1>1, <1>5 DEF FInv, FollowOK
  <2>2. \A x \in Outstanding(k)' : Brings(k, x)'
    BY <1>1, <1>4, <2>1 DEF Following, Brings
  <2>3. ASSUME k \notin toRead', alive', fdsLeft' >= 2, Outstanding(k)' = {}
        PROVE  Current(k)'
    <3>1. CASE k # r.type
      <4>1. Current(k)
        BY <1>1, <1>4, <2>1, <2>3, <3>1 DEF Following
      <4> QED
        BY <1>1, <1>3, <3>1, <4>1 DEF Current
    <3>2. CASE k = r.type
      <4>1. Coming(k) = {}
        BY <1>1, <1>4, <2>3, AllComing DEF FInv
      <4>2. r.text = file[PathOf(k)]
        BY <2>1, <3>2, <4>1 DEF Following
      <4>3. file'[PathOf(k)] # NoText /\ baseline'[k] = {FileLines[file'[PathOf(k)]]}
        BY <1>1, <1>2, <1>3, <3>2, <4>2, TextAssumption
      <4> QED
        BY <4>3 DEF Current
    <3> QED
      BY <3>1, <3>2
  <2> QED
    BY <1>1, <2>2, <2>3 DEF Following
<1>6. FilesOK'
  BY <1>1 DEF FInv, FilesOK
<1> QED
  BY <1>5, <1>6 DEF FollowOK

LEMMA EmptyFollows ==
  ASSUME FInv, NEW p \in Paths, NEW text \in {NoText, <<>>}, Empty(p, text)
  PROVE  FilesOK' /\ FollowOK'
<1> DEFINE kept == [k \in Kinds |-> past.kept[k] /\ PathOf(k) # p]
           same == text # NoText
<1>1. /\ Change(p, text, same, kept) /\ UNCHANGED <<doing, logger>>
      /\ same \in BOOLEAN /\ (same => text # NoText)
  BY DEF Empty
<1>2. text \in Seq(Char) \cup {NoText}
  <2>1. <<>> \in Seq(Char)
    OBVIOUS
  <2> QED
    BY <2>1
<1>3. \A k \in Kinds : kept[k] => past.kept[k] /\ PathOf(k) # p
  OBVIOUS
<1> HIDE DEF kept, same
<1>4. past'.kept = kept /\ (reading' = {} <=> reading = {})
  <2>1. Changed(p, text, kept)
    BY <1>1, <1>2, ChangeStep DEF FInv, AInv
  <2> QED
    BY <2>1 DEF Changed
<1>5. UNCHANGED <<doing, ring, toRead, fdsLeft>>
  BY <1>1 DEF logger
<1>6. \A k : Outstanding(k)' = Outstanding(k) /\ Coming(k)' = Coming(k)
  <2>1. Behind' = Behind
    BY <1>4, <1>5 DEF Behind
  <2> QED
    BY <1>5, <2>1 DEF Outstanding, Coming
<1>7. ASSUME NEW k \in Kinds, past'.kept[k]
      PROVE  Following(k)'
  <2>1. past.kept[k] /\ PathOf(k) # p
    BY <1>3, <1>4, <1>7
  <2>2. UNCHANGED logger
    BY <1>1
  <2> QED
    BY <1>1, <1>2, <1>6, <2>1, <2>2, OthersFollow
<1>8. FilesOK'
  BY <1>5 DEF FInv, FilesOK
<1> QED
  BY <1>7, <1>8 DEF FollowOK

\* A whole text is on its way to the logger as it is in the file, a failed write
\* does not change the file.
LEMMA WriteFollows ==
  ASSUME FInv, NEW t \in Threads, NEW p \in Paths, NEW text \in Chunks,
         NEW unread \in BOOLEAN, NEW ret \in (-1)..Len(text), Write(t, p, text, ret, unread)
  PROVE  FilesOK' /\ FollowOK'
<1> DEFINE type == FileType(p)
           n == [call |-> "write", type |-> type, ret |-> ret,
                 buffer |-> IF type = "other" THEN <<>> ELSE Entered(text, unread)]
           kept == [k \in Kinds |-> IF k = type /\ ret # -1 THEN Followed(p, text, ret, unread)
                                    ELSE past.kept[k]]
           written == file[p] \o SubSeq(text, 1, ret)
<1>1. /\ doing[t] = {} /\ doing' = [doing EXCEPT ![t] = {n}]
      /\ file[p] # NoText /\ Change(p, written, TRUE, kept) /\ UNCHANGED logger
  BY DEF Write
<1>2. n.call = "write" /\ n.type = type /\ n.ret = ret
      /\ (type # "other" => n.buffer = Entered(text, unread))
  OBVIOUS
<1> HIDE DEF n, kept
<1>3. text \in Seq(Char) /\ file[p] \in Seq(Char)
  BY <1>1, TextAssumption DEF FInv, AInv, TypeOK
<1>4. /\ written \in Seq(Char)
      /\ ret = -1 => written = file[p]
      /\ file[p] = <<>> /\ ret = Len(text) => written = text
  BY <1>3, WrittenText
<1> HIDE DEF written
<1>5. written # NoText
  BY <1>4, TextAssumption
<1>6. /\ file'[p] = written /\ past'.kept = kept /\ (reading' = {} <=> reading = {})
  <2> DEFINE same == TRUE
  <2>1. Change(p, written, same, kept) /\ same \in BOOLEAN
    BY <1>1
  <2> HIDE DEF same
  <2>2. Changed(p, written, kept)
    BY <1>4, <1>5, <2>1, ChangeStep DEF FInv, AInv
  <2> QED
    BY <2>2 DEF Changed
<1>7. UNCHANGED <<ring, baseline, toRead, alive, fdsLeft>>
  BY <1>1 DEF logger
<1>8. ASSUME NEW k \in Kinds
      PROVE  /\ n.type # k => Outstanding(k)' = Outstanding(k) /\ Coming(k)' = Coming(k)
             /\ n.type = k => Outstanding(k)' = Outstanding(k) \cup {n} /\ n \in Coming(k)'
  BY <1>1, <1>6, <1>7, MadeStep
<1>9. ASSUME NEW k \in Kinds, k # type, past'.kept[k] PROVE Following(k)'
  <2>1. past.kept[k]
    BY <1>6, <1>9 DEF kept
  <2>2. PathOf(k) # p
    BY <1>9, FileTypeIs
  <2>3. Outstanding(k)' = Outstanding(k) /\ Coming(k)' = Coming(k)
    BY <1>2, <1>8, <1>9
  <2> QED
    BY <1>1, <1>4, <1>5, <2>1, <2>2, <2>3, OthersFollow
<1>10. ASSUME NEW k \in Kinds, k = type, past'.kept[k], ret # -1 PROVE Following(k)'
  <2>1. Followed(p, text, ret, unread)
    BY <1>6, <1>10 DEF kept
  <2>2. PathOf(k) = p
    BY <1>10, FileTypeIs
  <2>3. Outstanding(k)' = {n} /\ n \in Coming(k)'
    BY <1>2, <1>8, <1>10, <2>1 DEF Followed
  <2>4. /\ ret = Len(text) /\ unread = FALSE /\ Len(text) \in 1..(Size - 2)
        /\ text[Len(text)] = Newline /\ \A i \in 1..Len(text) : text[i] # Nul
    BY <1>3, <2>1, TextAssumption DEF Followed, Last, ToSet
  <2>5. n.ret = Len(text) /\ n.buffer = Entered(text, FALSE)
    BY <1>2, <1>10, <2>4, KindNames
  <2>6. Carries(n, text)
    BY <1>3, <2>4, <2>5, EnteredCarries
  <2>7. file'[PathOf(k)] = text
    BY <1>4, <1>6, <2>1, <2>2 DEF Followed
  <2> QED
    BY <1>2, <2>3, <2>6, <2>7 DEF Following, Brings
<1>11. ASSUME NEW k \in Kinds, k = type, past'.kept[k], ret = -1 PROVE Following(k)'
  <2>1. past.kept[k]
    BY <1>6, <1>11 DEF kept
  <2>2. PathOf(k) = p
    BY <1>11, FileTypeIs
  <2>3. file'[PathOf(k)] = file[PathOf(k)]
    BY <1>4, <1>6, <1>11, <2>2
  <2>4. Outstanding(k)' = Outstanding(k) \cup {n} /\ n \in Coming(k)'
    BY <1>2, <1>8, <1>11
  <2>5. \A r \in Outstanding(k) : Brings(k, r)
    BY <2>1 DEF FInv, FollowOK, Following
  <2> QED
    BY <1>2, <1>11, <2>3, <2>4, <2>5 DEF Following, Brings
<1>12. \A u \in Threads : \A r \in doing'[u] : doing'[u] = {r}
  <2>1. \A u \in Threads : doing'[u] = IF u = t THEN {n} ELSE doing[u]
    BY <1>1 DEF FInv, AInv, TypeOK
  <2> QED
    BY <2>1 DEF FInv, FilesOK
<1>13. FilesOK'
  BY <1>7, <1>12 DEF FInv, FilesOK
<1> QED
  BY <1>9, <1>10, <1>11, <1>13 DEF FollowOK

\* Of a file renamed into place the callback reads the text, as it does for renames
\* of others to the same path that are on their way.
LEMMA RenameFollows ==
  ASSUME FInv, NEW t \in Threads, NEW p \in Paths, NEW form \in Forms,
         NEW text \in Replacements, Rename(t, p, form, text)
  PROVE  FilesOK' /\ FollowOK'
<1> DEFINE type == RenameType(p, form)
           n == [call |-> "rename", type |-> type, path |-> p, form |-> form]
           kept == [k \in Kinds |-> IF PathOf(k) = p THEN form # "behind" /\ Others(k) = {}
                                    ELSE past.kept[k] /\ type # k]
<1>1. /\ doing[t] = {} /\ doing' = [doing EXCEPT ![t] = {n}]
      /\ Change(p, text, FALSE, kept) /\ UNCHANGED logger
  BY DEF Rename
<1>2. n.call = "rename" /\ n.type = type /\ n.path = p
  OBVIOUS
<1> HIDE DEF n, kept
<1>3. text \in Seq(Char) /\ text # NoText
  BY TextAssumption
<1>4. file'[p] = text /\ past'.kept = kept /\ (reading' = {} <=> reading = {})
  <2> DEFINE same == FALSE
  <2>1. Change(p, text, same, kept) /\ same \in BOOLEAN /\ (same => text # NoText)
    BY <1>1
  <2> HIDE DEF same
  <2>2. Changed(p, text, kept)
    BY <1>3, <2>1, ChangeStep DEF FInv, AInv
  <2> QED
    BY <2>2 DEF Changed
<1>5. UNCHANGED <<ring, baseline, toRead, alive, fdsLeft>>
  BY <1>1 DEF logger
<1>6. ASSUME NEW k \in Kinds
      PROVE  /\ n.type # k => Outstanding(k)' = Outstanding(k) /\ Coming(k)' = Coming(k)
             /\ n.type = k => Outstanding(k)' = Outstanding(k) \cup {n} /\ n \in Coming(k)'
  BY <1>1, <1>4, <1>5, MadeStep
<1>7. ASSUME NEW k \in Kinds, PathOf(k) = p, past'.kept[k] PROVE Following(k)'
  <2>1. form # "behind" /\ Others(k) = {}
    BY <1>4, <1>7 DEF kept
  <2>2. n.type = k
    BY <1>2, <1>7, <2>1, RenameTypeIs
  <2>3. Outstanding(k)' = Outstanding(k) \cup {n} /\ n \in Coming(k)'
    BY <1>6, <2>2
  <2>4. file'[PathOf(k)] # NoText
    BY <1>3, <1>4, <1>7
  <2>5. ASSUME NEW r \in Outstanding(k) PROVE r.call = "rename" /\ r.path = PathOf(k)
    <3>1. r \in WriteRecords \cup RenameRecords
      BY OutstandingType DEF FInv
    <3>2. r.call # "write" /\ r.path = PathOf(k)
      BY <2>1 DEF Others
    <3> QED
      BY <3>1, <3>2 DEF WriteRecords, RenameRecords
  <2>6. \A r \in Outstanding(k)' : Brings(k, r)'
    BY <1>2, <1>7, <2>3, <2>4, <2>5 DEF Brings
  <2>7. Outstanding(k)' # {} /\ Coming(k)' # {}
    BY <2>3
  <2> QED
    BY <2>6, <2>7 DEF Following
<1>8. ASSUME NEW k \in Kinds, PathOf(k) # p, past'.kept[k] PROVE Following(k)'
  <2>1. past.kept[k] /\ n.type # k
    BY <1>2, <1>4, <1>8 DEF kept
  <2>2. Outstanding(k)' = Outstanding(k) /\ Coming(k)' = Coming(k)
    BY <1>6, <2>1
  <2> QED
    BY <1>1, <1>3, <1>8, <2>1, <2>2, OthersFollow
<1>9. \A u \in Threads : \A r \in doing'[u] : doing'[u] = {r}
  <2>1. \A u \in Threads : doing'[u] = IF u = t THEN {n} ELSE doing[u]
    BY <1>1 DEF FInv, AInv, TypeOK
  <2> QED
    BY <2>1 DEF FInv, FilesOK
<1>10. FilesOK'
  BY <1>5, <1>9 DEF FInv, FilesOK
<1> QED
  BY <1>7, <1>8, <1>10 DEF FollowOK

\* What a ring holds when it has one more.
LEMMA AppendSet ==
  ASSUME NEW S, NEW s \in Seq(S), NEW w
  PROVE  ToSet(Append(s, w)) = ToSet(s) \cup {w}
<1>1. s \in Seq(S \cup {w}) /\ w \in S \cup {w}
  OBVIOUS
<1>2. /\ Append(s, w) \in Seq(S \cup {w}) /\ Len(Append(s, w)) = Len(s) + 1
      /\ \A i \in 1..Len(s) : Append(s, w)[i] = s[i]
      /\ Append(s, w)[Len(s) + 1] = w
  BY <1>1
<1>3. DOMAIN s = 1..Len(s) /\ Len(s) \in Nat /\ DOMAIN Append(s, w) = 1..(Len(s) + 1)
  BY <1>1, <1>2
<1>4. \A i \in 1..(Len(s) + 1) : i \in 1..Len(s) \/ i = Len(s) + 1
  BY <1>3
<1> DEFINE longer == Append(s, w)
<1> HIDE DEF longer
<1>5. \A x : (\E i \in DOMAIN longer : x = longer[i])
             <=> (\E i \in DOMAIN s : x = s[i]) \/ x = w
  BY <1>2, <1>3, <1>4 DEF longer
<1>6. ToSet(longer) = ToSet(s) \cup {w}
  BY <1>5 DEF ToSet
<1> QED
  BY <1>6 DEF longer

\* The record of a call goes to its ring, or is lost.
LEMMA ExitFollows ==
  ASSUME FInv, NEW t \in Threads, Exit(t)
  PROVE  FilesOK' /\ FollowOK'
<1>1. PICK r \in doing[t], room \in BOOLEAN : ExitOf(t, r, room)
  BY ExitIs DEF FInv, AInv
<1> DEFINE w == Sent(r)
           put(call) == IF room /\ Noted(r) /\ r.call = call THEN {w} ELSE {}
<1>2. /\ doing' = [doing EXCEPT ![t] = {}]
      /\ ring' = [ring EXCEPT ![r.call] = IF room /\ Noted(r) THEN Append(@, w) ELSE @]
      /\ UNCHANGED <<file, baseline, toRead, reading, alive, fdsLeft>>
      /\ \A k \in Kinds : past'.kept[k] => past.kept[k] /\ (room \/ r.type # k)
  BY <1>1 DEF ExitOf
<1>3. r \in WriteRecords \cup RenameRecords \cup OtherRecords
  BY DEF FInv, AInv, TypeOK, Records
<1>4. w.type = r.type /\ w.call = r.call /\ (r.call = "rename" => w = r)
  BY <1>3 DEF WriteRecords, RenameRecords, OtherRecords, Sent
<1>5. ASSUME NEW k \in Kinds, r.type = k, r.call = "write"
      PROVE  w.ret = r.ret /\ \A text : Carries(r, text) => Carries(w, text)
  <2>1. r \in WriteRecords /\ Noted(r)
    BY <1>3, <1>5, KindNames DEF RenameRecords, OtherRecords, Noted
  <2>2. w = [r EXCEPT !.buffer = Recorded(@, r.ret)]
    BY <1>5, <2>1 DEF Sent
  <2>3. w.ret = r.ret
    BY <2>1, <2>2 DEF WriteRecords
  <2> HIDE DEF w
  <2> QED
    BY <2>1, <2>2, <2>3, RecordedCarries
<1>6. r.call \in {"write", "rename"}
  BY <1>3 DEF WriteRecords, RenameRecords, OtherRecords
<1> HIDE DEF w
<1>7. /\ DOMAIN ring = {"write", "rename"}
      /\ ring["write"] \in Seq(WriteRecords) /\ ring["rename"] \in Seq(RenameRecords)
  BY DEF FInv, AInv, TypeOK
<1>8. /\ DOMAIN ring' = {"write", "rename"}
      /\ ring'["write"] = IF put("write") # {} THEN Append(ring["write"], w) ELSE ring["write"]
      /\ ring'["rename"] = IF put("rename") # {} THEN Append(ring["rename"], w)
                           ELSE ring["rename"]
  BY <1>2, <1>6, <1>7
<1>9. /\ ToSet(ring'["write"]) = ToSet(ring["write"]) \cup put("write")
      /\ ToSet(ring'["rename"]) = ToSet(ring["rename"]) \cup put("rename")
  BY <1>7, <1>8, AppendSet
<1>10. ToSet(Behind') = ToSet(Behind) \cup put("rename")
  <2>1. CASE ~(toRead = {} /\ reading # {})
    BY <1>2, <1>9, <2>1 DEF Behind
  <2>2. CASE toRead = {} /\ reading # {}
    <3>1. Behind' = Tail(ring'["rename"]) /\ Behind = Tail(ring["rename"])
      BY <1>2, <2>2 DEF Behind
    <3>2. ring["rename"] # <<>>
      BY <2>2 DEF FInv, AInv, ReadingOK
    <3>3. Tail(ring["rename"]) \in Seq(RenameRecords)
      BY <1>7, <3>2, TakeHead
    <3>4. Tail(Append(ring["rename"], w)) = Append(Tail(ring["rename"]), w)
      <4>1. ring["rename"] \in Seq(RenameRecords \cup {w}) /\ w \in RenameRecords \cup {w}
        BY <1>7
      <4> QED
        BY <3>2, <4>1, HeadTailAppend
    <3>5. CASE put("rename") # {}
      <4>1. ToSet(Append(Tail(ring["rename"]), w)) = ToSet(Tail(ring["rename"])) \cup {w}
        BY <3>3, AppendSet
      <4> QED
        BY <1>8, <3>1, <3>4, <3>5, <4>1
    <3>6. CASE put("rename") = {}
      BY <1>8, <3>1, <3>6
    <3> QED
      BY <3>5, <3>6
  <2> QED
    BY <2>1, <2>2
<1>11. doing[t] = {r} /\ \A u \in Threads : doing'[u] = IF u = t THEN {} ELSE doing[u]
  BY <1>2 DEF FInv, AInv, TypeOK, FilesOK
<1>12. /\ \A x : (\E u \in Threads : x \in doing'[u]) => (\E u \in Threads : x \in doing[u])
       /\ \A x : (\E u \in Threads : x \in doing[u])
                   => (\E u \in Threads : x \in doing'[u]) \/ x = r
  BY <1>11
<1>13. ASSUME NEW k \in Kinds
       PROVE  /\ r.type # k => Outstanding(k)' = Outstanding(k) /\ Coming(k)' = Coming(k)
              /\ r.type = k /\ room => /\ w \in Outstanding(k)' /\ w \in Coming(k)'
                                       /\ Outstanding(k)' \subseteq Outstanding(k) \cup {w}
  <2>1. \A x : x \in Outstanding(k) <=> x.type = k /\ \/ \E u \in Threads : x \in doing[u]
                                                      \/ x \in ToSet(ring["write"])
                                                      \/ x \in ToSet(ring["rename"])
    BY <1>7 DEF Outstanding
  <2>2. \A x : x \in Outstanding(k)' <=> x.type = k /\ \/ \E u \in Threads : x \in doing'[u]
                                                       \/ x \in ToSet(ring'["write"])
                                                       \/ x \in ToSet(ring'["rename"])
    BY <1>8 DEF Outstanding
  <2>3. \A x : x \in Coming(k) <=> x.type = k /\ \/ \E u \in Threads : x \in doing[u]
                                                 \/ x \in ToSet(ring["write"])
                                                 \/ x \in ToSet(Behind)
    BY DEF Coming
  <2>4. \A x : x \in Coming(k)' <=> x.type = k /\ \/ \E u \in Threads : x \in doing'[u]
                                                  \/ x \in ToSet(ring'["write"])
                                                  \/ x \in ToSet(Behind')
    BY DEF Coming
  <2>5. r.type = k => Noted(r)
    BY KindNames DEF Noted
  <2>6. \A x, call : x \in put(call) => x = w /\ room
    OBVIOUS
  <2>7. r.type = k /\ room => w \in put("write") \/ w \in put("rename")
    BY <1>6, <2>5
  <2> HIDE DEF put
  <2>8. ASSUME r.type # k PROVE Outstanding(k)' = Outstanding(k)
    BY <1>4, <1>9, <1>12, <2>1, <2>2, <2>6, <2>8
  <2>9. ASSUME r.type # k PROVE Coming(k)' = Coming(k)
    <3>1. \A x : x.type = k => x # r /\ \A call : x \notin put(call)
      BY <1>4, <2>6, <2>9
    <3>2. \A x : x.type = k => /\ x \in ToSet(ring'["write"]) <=> x \in ToSet(ring["write"])
                               /\ x \in ToSet(Behind') <=> x \in ToSet(Behind)
      BY <1>9, <1>10, <3>1
    <3>3. \A x : x.type = k => ((\E u \in Threads : x \in doing'[u])
                                  <=> (\E u \in Threads : x \in doing[u]))
      BY <1>12, <3>1
    <3>4. \A x : x \in Coming(k)' <=> x \in Coming(k)
      BY <2>3, <2>4, <3>2, <3>3
    <3> QED
      BY <3>4
  <2>10. ASSUME r.type = k, room PROVE w \in Outstanding(k)'
    BY <1>4, <1>9, <2>2, <2>7, <2>10
  <2>11. ASSUME r.type = k, room PROVE w \in Coming(k)'
    BY <1>4, <1>9, <1>10, <2>4, <2>7, <2>11
  <2>12. Outstanding(k)' \subseteq Outstanding(k) \cup {w}
    BY <1>9, <1>12, <2>1, <2>2, <2>6
  <2> QED
    BY <2>8, <2>9, <2>10, <2>11, <2>12
<1>14. ASSUME NEW k \in Kinds, past'.kept[k], r.type # k PROVE Following(k)'
  <2>1. Following(k)
    BY <1>2, <1>14 DEF FInv, FollowOK
  <2> QED
    BY <1>2, <1>13, <1>14, <2>1, SameFollowing
<1>15. ASSUME NEW k \in Kinds, past'.kept[k], r.type = k PROVE Following(k)'
  <2>1. room /\ past.kept[k]
    BY <1>2, <1>15
  <2>2. \A x \in Outstanding(k) : Brings(k, x)
    BY <2>1 DEF FInv, FollowOK, Following
  <2>3. r \in Outstanding(k)
    BY <1>15 DEF Outstanding
  <2>4. Brings(k, w)
    BY <1>4, <1>5, <1>15, <2>2, <2>3 DEF Brings
  <2>5. \A x \in Outstanding(k)' : Brings(k, x)'
    BY <1>2, <1>13, <1>15, <2>1, <2>2, <2>4 DEF Brings
  <2>6. Outstanding(k)' # {} /\ Coming(k)' # {}
    BY <1>13, <1>15, <2>1
  <2> QED
    BY <2>5, <2>6 DEF Following
<1>16. FilesOK'
  BY <1>2, <1>11 DEF FInv, FilesOK
<1> QED
  BY <1>14, <1>15, <1>16 DEF FollowOK

\* The first record of a ring is taken.
LEMMA TakenStep ==
  ASSUME AInv, NEW call \in {"write", "rename"}, ring[call] # <<>>,
         ring' = [ring EXCEPT ![call] = Tail(@)], doing' = doing, NEW k \in Kinds
  PROVE  /\ Outstanding(k)' \subseteq Outstanding(k)
         /\ Head(ring[call]).type = k => Head(ring[call]) \in Outstanding(k)
         /\ Head(ring[call]).type # k => Outstanding(k)' = Outstanding(k)
<1>1. /\ DOMAIN ring = {"write", "rename"} /\ DOMAIN ring' = {"write", "rename"}
      /\ ring'[call] = Tail(ring[call]) /\ \A c \in {"write", "rename"} \ {call} : ring'[c] = ring[c]
      /\ \E S : ring[call] \in Seq(S)
  BY DEF AInv, TypeOK
<1>2. ASSUME NEW S, NEW s \in Seq(S), s # <<>>
      PROVE  ToSet(s) = ToSet(Tail(s)) \cup {Head(s)}
  <2>1. /\ Head(s) = s[1] /\ Len(s) \in Nat /\ Len(s) >= 1 /\ DOMAIN s = 1..Len(s)
        /\ Len(Tail(s)) = Len(s) - 1 /\ DOMAIN Tail(s) = 1..Len(Tail(s))
        /\ \A i \in 1..Len(Tail(s)) : Tail(s)[i] = s[i + 1]
    BY <1>2, TakeHead
  <2>2. ASSUME NEW i \in DOMAIN s PROVE s[i] = Head(s) \/ \E j \in DOMAIN Tail(s) : Tail(s)[j] = s[i]
    <3>1. CASE i = 1
      BY <2>1, <3>1
    <3>2. CASE i # 1
      <4>1. i - 1 \in 1..Len(Tail(s)) /\ Tail(s)[i - 1] = s[i]
        BY <2>1, <3>2
      <4> QED
        BY <2>1, <4>1
    <3> QED
      BY <3>1, <3>2
  <2>3. ASSUME NEW j \in DOMAIN Tail(s) PROVE \E i \in DOMAIN s : s[i] = Tail(s)[j]
    <3>1. j + 1 \in 1..Len(s) /\ s[j + 1] = Tail(s)[j]
      BY <2>1
    <3> QED
      BY <2>1, <3>1
  <2>4. 1 \in DOMAIN s
    BY <2>1
  <2> DEFINE tail == Tail(s)
             head == Head(s)
  <2>5. head = s[1]
    BY <2>1
  <2> HIDE DEF tail, head
  <2>6. \A x : (\E i \in DOMAIN s : s[i] = x) <=> (\E j \in DOMAIN tail : tail[j] = x) \/ x = head
    BY <2>2, <2>3, <2>4, <2>5 DEF tail, head
  <2>7. ToSet(s) = ToSet(tail) \cup {head}
    BY <2>6 DEF ToSet
  <2> QED
    BY <2>7 DEF tail, head
<1>3. ToSet(ring[call]) = ToSet(ring'[call]) \cup {Head(ring[call])}
  BY <1>1, <1>2
<1> DEFINE r == Head(ring[call])
<1> HIDE DEF r
<1>4. /\ \A c \in {"write", "rename"} : ToSet(ring'[c]) \subseteq ToSet(ring[c])
      /\ \A c \in {"write", "rename"} : \A x \in ToSet(ring[c]) : x \in ToSet(ring'[c]) \/ x = r
      /\ r \in ToSet(ring[call])
  BY <1>1, <1>3 DEF r
<1>5. \A x : x \in Outstanding(k) <=>
               x.type = k /\ \/ \E t \in Threads : x \in doing[t]
                             \/ \E c \in {"write", "rename"} : x \in ToSet(ring[c])
  BY <1>1 DEF Outstanding
<1>6. \A x : x \in Outstanding(k)' <=>
               x.type = k /\ \/ \E t \in Threads : x \in doing[t]
                             \/ \E c \in {"write", "rename"} : x \in ToSet(ring'[c])
  BY <1>1 DEF Outstanding
<1>7. Outstanding(k)' \subseteq Outstanding(k)
  BY <1>4, <1>5, <1>6
<1>8. r.type = k => r \in Outstanding(k)
  BY <1>4, <1>5
<1>9. r.type # k => Outstanding(k)' = Outstanding(k)
  BY <1>4, <1>5, <1>6
<1> QED
  BY <1>7, <1>8, <1>9 DEF r

\* fprint_sys_write of a record with the text: the baseline has it.
LEMMA ProcessWriteFollows ==
  ASSUME FInv, ProcessWrite
  PROVE  FilesOK' /\ FollowOK'
<1> DEFINE r == Head(ring["write"])
<1>1. /\ toRead = {} /\ alive /\ ring["write"] # <<>> /\ reading = {} /\ reading' = {}
      /\ ring' = [ring EXCEPT !["write"] = Tail(@)]
      /\ UNCHANGED <<file, doing, toRead, fdsLeft>>
      /\ \/ r.ret > 0 /\ \E lines \in RecordLines(r) : Replace(r.type, lines, Fits(r))
         \/ r.ret = 0 /\ Replace(r.type, << <<Stale>> >>, FALSE)
         \/ r.ret < 0 /\ alive' = FALSE /\ UNCHANGED <<baseline, texts, past>>
  BY DEF ProcessWrite, Running, Take
<1>2. r \in WriteRecords
  BY <1>1, TakeHead DEF FInv, AInv, TypeOK
<1> HIDE DEF r
<1>3. ASSUME NEW k \in Kinds
      PROVE  /\ Outstanding(k)' \subseteq Outstanding(k)
             /\ r.type = k => r \in Outstanding(k)
             /\ r.type # k => Outstanding(k)' = Outstanding(k)
  <2>1. AInv /\ doing' = doing /\ "write" \in {"write", "rename"}
    BY <1>1 DEF FInv
  <2> QED
    BY <1>1, <2>1, TakenStep DEF r
<1>4. r.type \in Logged /\ TypeOK /\ r.ret \in Int
  BY <1>2 DEF WriteRecords, FInv, AInv
<1>5. /\ past'.kept = past.kept
      /\ \A k \in Kinds : r.type # k => baseline'[k] = baseline[k]
  BY <1>1, <1>4, ReplacedBaselines
<1>6. ASSUME NEW k \in Kinds, past'.kept[k] PROVE Following(k)'
  <2>1. Following(k)
    BY <1>5, <1>6 DEF FInv, FollowOK
  <2>2. \A x \in Outstanding(k)' : Brings(k, x)'
    BY <1>1, <1>3, <2>1 DEF Following, Brings
  <2>3. ASSUME alive', fdsLeft' >= 2, Outstanding(k)' = {}
        PROVE  Current(k)'
    <3>1. CASE r.type # k
      <4>1. Current(k)
        BY <1>1, <1>3, <2>1, <2>3, <3>1 DEF Following
      <4> QED
        BY <1>1, <1>5, <3>1, <4>1 DEF Current
    <3>2. CASE r.type = k
      <4>1. r.ret = -1 \/ Carries(r, file[PathOf(k)])
        BY <1>2, <1>3, <2>1, <3>2 DEF Following, Brings, WriteRecords
      <4>2. r.ret # -1
        <5>1. r.ret = -1 => ~(r.ret > 0) /\ ~(r.ret = 0)
          BY <1>4
        <5>2. r.ret > 0 \/ r.ret = 0 \/ alive' = FALSE
          BY <1>1, Zenon
        <5> QED
          BY <2>3, <5>1, <5>2
      <4>3. Carries(r, file[PathOf(k)])
        BY <4>1, <4>2
      <4>4. file[PathOf(k)] \in Seq(Char) /\ r.ret > 0
        BY <4>3 DEF Carries
      <4>5. PICK lines \in RecordLines(r) : Replace(r.type, lines, Fits(r))
        <5>1. ~(r.ret = 0) /\ ~(r.ret < 0)
          BY <1>4, <4>4
        <5> QED
          BY <1>1, <5>1, Zenon
      <4>6. lines = FileLines[file[PathOf(k)]]
        BY <1>2, <4>3, CarriedLines, TextAssumption DEF RecordLines
      <4>7. baseline'[k] = {lines}
        BY <1>4, <3>2, <4>5, ReplacedBaselines
      <4>8. file[PathOf(k)] # NoText
        BY <4>4, TextAssumption
      <4> QED
        BY <1>1, <4>6, <4>7, <4>8 DEF Current
    <3> QED
      BY <3>1, <3>2
  <2> QED
    BY <1>1, <2>2, <2>3 DEF Following
<1>7. FilesOK'
  BY <1>1 DEF FInv, FilesOK
<1> QED
  BY <1>6, <1>7 DEF FollowOK

\* fprint_sys_rename opens the file, if it can.
LEMMA OpenRenamedFollows ==
  ASSUME FInv, OpenRenamed
  PROVE  FilesOK' /\ FollowOK'
<1> DEFINE r == Head(ring["rename"])
           need == IF r.form = "relative" THEN 2 ELSE 1
<1>1. /\ toRead = {} /\ alive /\ reading = {} /\ ring["rename"] # <<>>
      /\ fdsLeft' = IF r.form = "relative" /\ Spare > 0 THEN fdsLeft - 1 ELSE fdsLeft
      /\ \/ reading' = {Opened(r.type, r.path)} /\ ring' = ring
         \/ /\ ~(Spare >= need /\ file[r.path] # NoText)
            /\ ring' = [ring EXCEPT !["rename"] = Tail(@)] /\ reading' = {}
      /\ UNCHANGED <<file, doing, baseline, toRead, alive, past>>
  BY DEF OpenRenamed, Running, Take
<1>2. r \in RenameRecords
  BY <1>1, TakeHead DEF FInv, AInv, TypeOK
<1> HIDE DEF r
<1>3. fdsLeft \in Int /\ fdsLeft' \in Int /\ (fdsLeft' >= 2 => fdsLeft >= 2 /\ Spare >= need)
  BY <1>1 DEF FInv, FilesOK, Spare
<1> HIDE DEF need
<1>4. ASSUME NEW k \in Kinds, past'.kept[k], r.type = k
      PROVE  r.path = PathOf(k) /\ file[PathOf(k)] # NoText
  <2>1. r \in ToSet(ring["rename"])
    <3>1. ring["rename"] \in Seq(RenameRecords)
      BY DEF FInv, AInv, TypeOK
    <3>2. r = ring["rename"][1] /\ 1 \in DOMAIN ring["rename"]
      BY <1>1, <3>1, TakeHead DEF r
    <3> QED
      BY <3>2 DEF ToSet
  <2>2. r \in Outstanding(k)
    BY <1>4, <2>1 DEF Outstanding, FInv, AInv, TypeOK
  <2>3. Brings(k, r)
    BY <1>1, <1>4, <2>2 DEF FInv, FollowOK, Following
  <2> QED
    BY <1>2, <2>3 DEF Brings, RenameRecords
<1>5. ASSUME reading' = {Opened(r.type, r.path)}, ring' = ring
      PROVE  FollowOK'
  <2>1. \A k : Outstanding(k)' = Outstanding(k)
    BY <1>1, <1>5 DEF Outstanding
  <2>2. ASSUME NEW k \in Kinds, past'.kept[k] PROVE Following(k)'
    <3>1. Following(k)
      BY <1>1, <2>2 DEF FInv, FollowOK
    <3>2. \A x \in Outstanding(k)' : Brings(k, x)'
      BY <1>1, <2>1, <3>1 DEF Following, Brings
    <3>3. k \notin toRead' /\ alive' /\ fdsLeft' >= 2 /\ Outstanding(k)' = {} => Current(k)'
      BY <1>1, <1>3, <2>1, <3>1 DEF Following, Current
    <3>4. \A n \in reading' : n.type = k => n.path = PathOf(k) /\ n.text = file'[PathOf(k)]
      BY <1>1, <1>4, <1>5, <2>2 DEF Opened
    <3> QED
      BY <3>2, <3>3, <3>4 DEF Following
  <2> QED
    BY <2>2 DEF FollowOK
<1>6. ASSUME ~(Spare >= need /\ file[r.path] # NoText),
             ring' = [ring EXCEPT !["rename"] = Tail(@)], reading' = {}
      PROVE  FollowOK'
  <2>1. ASSUME NEW k \in Kinds
        PROVE  /\ Outstanding(k)' \subseteq Outstanding(k)
               /\ r.type # k => Outstanding(k)' = Outstanding(k)
    <3>1. AInv /\ doing' = doing /\ "rename" \in {"write", "rename"}
      BY <1>1 DEF FInv
    <3> QED
      BY <1>1, <1>6, <3>1, TakenStep DEF r
  <2>2. ASSUME NEW k \in Kinds, past'.kept[k] PROVE Following(k)'
    <3>1. Following(k)
      BY <1>1, <2>2 DEF FInv, FollowOK
    <3>2. \A x \in Outstanding(k)' : Brings(k, x)'
      BY <1>1, <2>1, <3>1 DEF Following, Brings
    <3>3. ASSUME k \notin toRead', alive', fdsLeft' >= 2, Outstanding(k)' = {}
          PROVE  Current(k)'
      <4>1. r.type # k
        BY <1>3, <1>4, <1>6, <2>2, <3>3
      <4>2. Current(k)
        BY <1>1, <1>3, <2>1, <3>1, <3>3, <4>1 DEF Following
      <4> QED
        BY <1>1, <4>2 DEF Current
    <3> QED
      BY <1>6, <3>2, <3>3 DEF Following
  <2> QED
    BY <2>2 DEF FollowOK
<1>7. FilesOK'
  BY <1>1, <1>3 DEF FInv, FilesOK
<1> QED
  BY <1>1, <1>5, <1>6, <1>7

\* It reads the file: with nothing more to come this is still the text of the file.
LEMMA ReadRenamedFollows ==
  ASSUME FInv, ReadRenamed
  PROVE  FilesOK' /\ FollowOK'
<1>1. PICK r \in reading :
        /\ toRead = {} /\ alive /\ reading' = {}
        /\ ring' = [ring EXCEPT !["rename"] = Tail(@)]
        /\ Replace(r.type, FileLines[r.text], InSize(r))
        /\ UNCHANGED <<file, doing, toRead, fdsLeft>>
  BY DEF ReadRenamed, Running, Take
<1>2. r.type \in Logged /\ r.text \in Seq(Char) /\ TypeOK
  BY DEF FInv, AInv, TypeOK, Readings
<1>3. ring["rename"] # <<>> /\ Head(ring["rename"]).type = r.type
  BY <1>1 DEF FInv, AInv, ReadingOK
<1>4. /\ past'.kept = past.kept
      /\ \A k \in Kinds : baseline'[k] = IF k = r.type THEN {FileLines[r.text]} ELSE baseline[k]
  BY <1>1, <1>2, ReplacedBaselines
<1>5. ASSUME NEW k \in Kinds
      PROVE  /\ Outstanding(k)' \subseteq Outstanding(k)
             /\ r.type # k => Outstanding(k)' = Outstanding(k)
  <2>1. AInv /\ doing' = doing /\ "rename" \in {"write", "rename"}
    BY <1>1 DEF FInv
  <2> QED
    BY <1>1, <1>3, <2>1, TakenStep
<1>6. \A k : Outstanding(k)' = Coming(k)
  <2>1. DOMAIN ring = {"write", "rename"}
    BY <1>2 DEF TypeOK
  <2>2. /\ DOMAIN ring' = {"write", "rename"} /\ ring'["write"] = ring["write"]
        /\ ring'["rename"] = Tail(ring["rename"])
    BY <1>1, <2>1
  <2>3. Behind = ring'["rename"]
    BY <1>1, <2>2 DEF Behind
  <2> QED
    BY <1>1, <2>2, <2>3 DEF Outstanding, Coming
<1>7. ASSUME NEW k \in Kinds, past'.kept[k] PROVE Following(k)'
  <2>1. Following(k)
    BY <1>4, <1>7 DEF FInv, FollowOK
  <2>2. \A x \in Outstanding(k)' : Brings(k, x)'
    BY <1>1, <1>5, <2>1 DEF Following, Brings
  <2>3. ASSUME fdsLeft' >= 2, Outstanding(k)' = {}
        PROVE  Current(k)'
    <3>1. CASE r.type # k
      <4>1. Current(k)
        BY <1>1, <1>5, <2>1, <2>3, <3>1 DEF Following
      <4> QED
        BY <1>1, <1>4, <3>1, <4>1 DEF Current
    <3>2. CASE r.type = k
      <4>1. r.text = file[PathOf(k)]
        BY <1>6, <2>1, <2>3, <3>2 DEF Following
      <4>2. file'[PathOf(k)] # NoText /\ baseline'[k] = {FileLines[file'[PathOf(k)]]}
        BY <1>1, <1>2, <1>4, <3>2, <4>1, TextAssumption
      <4> QED
        BY <4>2 DEF Current
    <3> QED
      BY <3>1, <3>2
  <2> QED
    BY <1>1, <2>2, <2>3 DEF Following
<1>8. FilesOK'
  BY <1>1 DEF FInv, FilesOK
<1> QED
  BY <1>7, <1>8 DEF FollowOK

LEMMA FInvNext == FInv /\ [Next]_vars => FInv'
<1> SUFFICES ASSUME FInv, [Next]_vars PROVE FilesOK' /\ FollowOK'
  BY AInvNext DEF FInv
<1>1. CASE OpenInitial
  BY <1>1, OpenInitialFollows
<1>2. CASE ReadInitial
  BY <1>2, ReadInitialFollows
<1>3. ASSUME NEW p \in Paths, NEW text \in {NoText, <<>>}, Empty(p, text)
      PROVE  FilesOK' /\ FollowOK'
  BY <1>3, EmptyFollows
<1>4. ASSUME NEW t \in Threads, NEW p \in Paths, NEW text \in Chunks, NEW unread \in BOOLEAN,
             NEW ret \in {-1, Len(text) - 1, Len(text)} \cap (-1)..Len(text),
             Write(t, p, text, ret, unread)
      PROVE  FilesOK' /\ FollowOK'
  BY <1>4, WriteFollows
<1>5. ASSUME NEW t \in Threads, NEW p \in Paths, NEW form \in Forms,
             NEW text \in Replacements, Rename(t, p, form, text)
      PROVE  FilesOK' /\ FollowOK'
  BY <1>5, RenameFollows
<1>6. ASSUME NEW t \in Threads, Exit(t) PROVE FilesOK' /\ FollowOK'
  BY <1>6, ExitFollows
<1>7. CASE ProcessWrite
  BY <1>7, ProcessWriteFollows
<1>8. CASE OpenRenamed
  BY <1>8, OpenRenamedFollows
<1>9. CASE ReadRenamed
  BY <1>9, ReadRenamedFollows
<1>10. CASE UNCHANGED vars
  <2>1. FilesOK'
    BY <1>10 DEF vars, FInv, FilesOK
  <2>2. Behind' = Behind
    BY <1>10 DEF vars, Behind
  <2>3. \A k : Outstanding(k)' = Outstanding(k) /\ Coming(k)' = Coming(k)
    BY <1>10, <2>2 DEF vars, Outstanding, Coming
  <2>4. ASSUME NEW k \in Kinds, past'.kept[k] PROVE Following(k)'
    BY <1>10, <2>3, <2>4, SameFollowing DEF vars, FInv, FollowOK
  <2> QED
    BY <2>1, <2>4 DEF FollowOK
<1> QED
  BY <1>1, <1>2, <1>3, <1>4, <1>5, <1>6, <1>7, <1>8, <1>9, <1>10 DEF Next

\* Once the records of an account file are processed (fprint_sys_write,
\* fprint_sys_rename) its baseline is the text of the file, if the last change was
\* one that the log can follow: in every instance, for texts and buffers of any size.
THEOREM BaselinesFollow == Spec => []Follows
<1>1. FInv => Follows
  <2> SUFFICES ASSUME FInv, NEW k \in Kinds, Running, fdsLeft >= 2, past.kept[k],
                      Outstanding(k) = {}
               PROVE  Current(k)
    BY DEF Follows
  <2>1. Following(k)
    BY DEF FInv, FollowOK
  <2> QED
    BY <2>1 DEF Following, Running
<1> QED
  BY <1>1, FInvInit, FInvNext, PTL DEF Spec
=============================================================================
